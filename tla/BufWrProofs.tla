---------------------------- MODULE BufWrProofs -----------------------------
(***************************************************************************)
(* Proofs about BufWr, for every size of the buffer, length of a write and *)
(* number of calls.                                                        *)
(***************************************************************************)
EXTENDS BufWr, SequenceTheorems, TLAPS

\* What fd_write was entered for: only bufwr__close leaves no argument behind, and
\* what a call is to keep in the buffer fits it.
Answering ==
  pc = "write" =>
    /\ op # "none"
    /\ op = "close" => arg = <<>>
    /\ op # "large" => Len(arg) <= Max

\* The inductive invariant: a completed fd_write hands over arg, so NothingLost needs
\* to know what arg is.
IInv == TypeOK /\ Answering /\ NothingLost

-----------------------------------------------------------------------------
(* Runs of bytes                                                           *)

\* A run is a sequence of that many bytes.
LEMMA RunSeq ==
  ASSUME NEW m \in Nat, NEW n \in Nat, m >= 1, n + 1 >= m
  PROVE  /\ Run(m, n) \in Seq(Nat) /\ Len(Run(m, n)) = n + 1 - m
         /\ \A k \in 1 .. n + 1 - m : Run(m, n)[k] = m + k - 1
<1>1. n + 1 - m \in Nat
  OBVIOUS
<1>2. Run(m, n) \in [1 .. n + 1 - m -> Nat]
  BY DEF Run
<1>3. Run(m, n) \in Seq(Nat)
  BY <1>1, <1>2, SeqDef
<1>4. Len(Run(m, n)) = n + 1 - m
  BY <1>1, <1>2, <1>3, LenProperties
<1> QED BY <1>3, <1>4 DEF Run

\* Adjacent runs join to one.
LEMMA RunJoin ==
  ASSUME NEW m \in Nat, NEW k \in Nat, NEW n \in Nat, m >= 1, k + 1 >= m, n >= k
  PROVE  Run(m, k) \o Run(k + 1, n) = Run(m, n)
<1> DEFINE a == Run(m, k)
           b == Run(k + 1, n)
           c == Run(m, n)
<1>1. /\ a \in Seq(Nat) /\ Len(a) = k + 1 - m
      /\ \A j \in 1 .. k + 1 - m : a[j] = m + j - 1
  BY RunSeq
<1>2. /\ b \in Seq(Nat) /\ Len(b) = n - k
      /\ \A j \in 1 .. n - k : b[j] = k + 1 + j - 1
  <2>1. k + 1 \in Nat /\ k + 1 >= 1 /\ n + 1 >= k + 1 /\ n + 1 - (k + 1) = n - k
    OBVIOUS
  <2>2. /\ b \in Seq(Nat) /\ Len(b) = n + 1 - (k + 1)
        /\ \A j \in 1 .. n + 1 - (k + 1) : b[j] = (k + 1) + j - 1
    BY <2>1, RunSeq
  <2> HIDE DEF b
  <2> QED BY <2>1, <2>2
<1>3. /\ c \in Seq(Nat) /\ Len(c) = n + 1 - m
      /\ \A j \in 1 .. n + 1 - m : c[j] = m + j - 1
  BY RunSeq
<1> HIDE DEF a, b, c
<1>4. /\ a \o b \in Seq(Nat) /\ Len(a \o b) = Len(a) + Len(b)
      /\ \A j \in 1 .. Len(a) + Len(b) : (a \o b)[j] = IF j <= Len(a) THEN a[j] ELSE b[j - Len(a)]
  BY <1>1, <1>2, ConcatProperties
<1>5. Len(a \o b) = Len(c)
  BY <1>1, <1>2, <1>3, <1>4
<1>6. \A j \in 1 .. Len(a \o b) : (a \o b)[j] = c[j]
  <2> TAKE j \in 1 .. Len(a \o b)
  <2>1. CASE j <= Len(a)
    <3>1. (a \o b)[j] = a[j] /\ j \in 1 .. k + 1 - m /\ j \in 1 .. n + 1 - m
      BY <1>1, <1>2, <1>4, <2>1
    <3> QED BY <1>1, <1>3, <3>1
  <2>2. CASE j > Len(a)
    <3>1. j - Len(a) \in 1 .. n - k
      BY <1>1, <1>2, <1>4, <2>2
    <3>2. (a \o b)[j] = b[j - Len(a)] /\ j \in 1 .. n + 1 - m
      BY <1>1, <1>2, <1>4, <2>2
    <3>3. b[j - Len(a)] = k + 1 + (j - Len(a)) - 1
      BY <1>2, <3>1
    <3>4. c[j] = m + j - 1
      BY <1>3, <3>2
    <3>5. k + 1 + (j - Len(a)) - 1 = m + j - 1
      BY <1>1
    <3> QED BY <3>2, <3>3, <3>4, <3>5
  <2> QED BY <1>1, <2>1, <2>2
<1>7. a \o b = c
  BY <1>3, <1>4, <1>5, <1>6, SeqEqual
<1> QED BY <1>7 DEF a, b, c

\* Bytes are joined in any grouping.
Joins(a, b, c) == (a \o b) \o c = a \o (b \o c)

LEMMA Joined ==
  ASSUME NEW a \in Seq(Nat), NEW b \in Seq(Nat), NEW c \in Seq(Nat)
  PROVE  Joins(a, b, c)
BY ConcatAssociative DEF Joins

\* A sequence is what a short write takes of it and what it leaves.
LEMMA DropRest ==
  ASSUME NEW s \in Seq(Nat), NEW k \in 1 .. Len(s)
  PROVE  /\ SubSeq(s, 1, k) \in Seq(Nat) /\ Drop(s, k) \in Seq(Nat)
         /\ SubSeq(s, 1, k) \o Drop(s, k) = s
         /\ k = Len(s) => SubSeq(s, 1, k) = s
<1>1. Len(s) \in Nat /\ k \in Nat /\ \A j \in 1 .. Len(s) : s[j] \in Nat
  BY LenProperties, ElementOfSeq
<1>2. SubSeq(s, 1, k) \in Seq(Nat)
  BY <1>1, SubSeqProperties
<1>3. Drop(s, k) \in Seq(Nat)
  <2>1. k + 1 \in Int /\ Len(s) \in Int /\ \A j \in k + 1 .. Len(s) : s[j] \in Nat
    BY <1>1
  <2> QED BY <2>1, SubSeqProperties DEF Drop
<1>4. SubSeq(s, 1, k) \o Drop(s, k) = SubSeq(s, 1, Len(s))
  <2>1. 1 \in 1 .. Len(s) + 1 /\ k \in 1 - 1 .. Len(s) /\ Len(s) \in k .. Len(s)
    BY <1>1
  <2> QED BY <2>1, ConcatAdjacentSubSeq DEF Drop
<1>5. SubSeq(s, 1, Len(s)) = s
  BY SubSeqFull
<1> QED BY <1>2, <1>3, <1>4, <1>5

-----------------------------------------------------------------------------
(* The start                                                               *)

LEMMA InvInit == Init => IInv
<1> SUFFICES ASSUME Init PROVE IInv
  OBVIOUS
<1>1. <<>> \in Seq(Nat) /\ Len(<<>>) = 0
  BY EmptySeq
<1>2. TypeOK
  <2>1. 0 <= Max /\ 0 \in 0 .. MaxCalls
    BY MaxAssumption, CallsAssumption
  <2> QED BY <1>1, <2>1 DEF Init, TypeOK
<1>3. Answering
  BY DEF Init, Answering
<1>4. Run(1, 0) = <<>>
  <2>1. Run(1, 0) \in Seq(Nat) /\ Len(Run(1, 0)) = 0
    BY RunSeq, 0 + 1 - 1 = 0
  <2> QED BY <2>1, EmptySeq
<1>5. <<>> \o <<>> = <<>>
  BY <1>1, ConcatEmptySeq
<1>6. NothingLost
  BY <1>4, <1>5 DEF Init, NothingLost, Pending
<1> QED BY <1>2, <1>3, <1>6 DEF IInv

-----------------------------------------------------------------------------
(* The interface                                                           *)

\* What Return and Enter are applied to keeps the types.
LEMMA ReturnTypes ==
  ASSUME NEW b \in Seq(Nat), NEW ok \in BOOLEAN, TypeOK, Return(b, ok)
  PROVE  /\ pc' = "idle" /\ op' = "none" /\ todo' = <<>> /\ arg' = <<>> /\ buf' = b
         /\ todo' \in Seq(Nat) /\ arg' \in Seq(Nat) /\ failed' \in BOOLEAN
         /\ (~failed' => ~failed /\ ok)
BY EmptySeq DEF Return, TypeOK

\* The bytes of a call and those before it.
LEMMA Offered ==
  ASSUME NEW n \in Nat, NEW len \in Nat
  PROVE  /\ Run(n + 1, n + len) \in Seq(Nat) /\ Len(Run(n + 1, n + len)) = len
         /\ Run(1, n) \o Run(n + 1, n + len) = Run(1, n + len)
<1>1. n + 1 \in Nat /\ n + len \in Nat /\ n + 1 >= 1 /\ n + len + 1 >= n + 1
      /\ (n + len) + 1 - (n + 1) = len /\ n + len >= n
  OBVIOUS
<1>2. Run(n + 1, n + len) \in Seq(Nat) /\ Len(Run(n + 1, n + len)) = (n + len) + 1 - (n + 1)
  BY <1>1, RunSeq
<1>3. Run(1, n) \o Run(n + 1, n + len) = Run(1, n + len)
  <2>1. 1 \in Nat /\ 1 >= 1 /\ n + 1 >= 1
    OBVIOUS
  <2> QED BY <1>1, <2>1, RunJoin
<1> QED BY <1>1, <1>2, <1>3

\* Between calls everything that was offered is in the file or in the buffer.
LEMMA IdlePending ==
  ASSUME IInv, pc = "idle", ~failed, fd # "null"
  PROVE  file \o buf = Run(1, next)
BY DEF IInv, NothingLost, Pending

LEMMA WriteFitsKeeps ==
  ASSUME IInv, NEW len \in Nat, Call, next' = next + len, WriteFits(len),
         UNCHANGED <<fd, corrupted, file, osError>>
  PROVE  IInv'
<1> DEFINE s == Run(next + 1, next + len)
<1>1. TypeOK /\ buf \in Seq(Nat) /\ file \in Seq(Nat) /\ next \in Nat /\ Len(buf) \in Nat
  BY LenProperties DEF IInv, TypeOK
<1>2. s \in Seq(Nat) /\ Len(s) = len /\ Run(1, next) \o s = Run(1, next + len)
  BY <1>1, Offered
<1> HIDE DEF s
<1>3. Return(buf \o s, TRUE) /\ len <= Max - Len(buf)
  BY DEF WriteFits, Space, s
<1>4. buf \o s \in Seq(Nat) /\ Len(buf \o s) = Len(buf) + len
  BY <1>1, <1>2, ConcatProperties
<1>5. /\ pc' = "idle" /\ op' = "none" /\ buf' = buf \o s
      /\ todo' \in Seq(Nat) /\ arg' \in Seq(Nat) /\ failed' \in BOOLEAN
      /\ (~failed' => ~failed)
  BY <1>1, <1>3, <1>4, ReturnTypes
<1>6. TypeOK'
  BY <1>1, <1>3, <1>4, <1>5, MaxAssumption, CallsAssumption DEF TypeOK, Call
<1>7. NothingLost'
  <2> SUFFICES ASSUME ~failed', fd' # "null" PROVE file' \o buf' = Run(1, next')
    BY <1>5 DEF NothingLost, Pending
  <2>1. file \o buf = Run(1, next)
    BY <1>5, IdlePending DEF Call
  <2>2. Joins(file, buf, s)
    BY <1>1, <1>2, Joined
  <2> QED BY <1>2, <1>5, <2>1, <2>2 DEF Joins
<1> QED BY <1>5, <1>6, <1>7 DEF IInv, Answering

\* The buffer is filled up with the first bytes of the argument and written.
LEMMA WriteFillKeeps ==
  ASSUME IInv, NEW len \in Nat, Call, next' = next + len, WriteFill(len),
         UNCHANGED <<fd, corrupted, file, osError>>
  PROVE  IInv'
<1> DEFINE s == Run(next + 1, next + Space)
           r == Run(next + Space + 1, next + len)
<1>1. /\ TypeOK /\ buf \in Seq(Nat) /\ file \in Seq(Nat) /\ next \in Nat
      /\ Len(buf) \in Nat /\ Len(buf) <= Max /\ Max \in Nat
  BY LenProperties, MaxAssumption DEF IInv, TypeOK
<1>2. Space \in Nat /\ Space = Max - Len(buf) /\ len > Space /\ len < Space + Max
  BY <1>1 DEF Space, WriteFill, Large
<1>3. s \in Seq(Nat) /\ Len(s) = Space /\ Run(1, next) \o s = Run(1, next + Space)
  BY <1>1, <1>2, Offered
<1>4. r \in Seq(Nat) /\ Len(r) = len - Space /\ Run(1, next + Space) \o r = Run(1, next + len)
  <2>1. next + Space \in Nat /\ len - Space \in Nat
        /\ (next + Space) + (len - Space) = next + len
    BY <1>1, <1>2
  <2>2. /\ Run((next + Space) + 1, (next + Space) + (len - Space)) \in Seq(Nat)
        /\ Len(Run((next + Space) + 1, (next + Space) + (len - Space))) = len - Space
        /\ Run(1, next + Space) \o Run((next + Space) + 1, (next + Space) + (len - Space))
             = Run(1, (next + Space) + (len - Space))
    BY <2>1, Offered
  <2> QED BY <2>1, <2>2
<1>5. IF fd = "null" THEN Return(r, TRUE) ELSE Enter("fill", buf \o s, r) /\ buf' = buf \o s
  BY DEF WriteFill
<1> HIDE DEF s, r
<1>6. buf \o s \in Seq(Nat) /\ Len(buf \o s) = Max
  BY <1>1, <1>2, <1>3, ConcatProperties
<1>7. CASE fd = "null"
  <2>1. /\ pc' = "idle" /\ op' = "none" /\ buf' = r
        /\ todo' \in Seq(Nat) /\ arg' \in Seq(Nat) /\ failed' \in BOOLEAN
    BY <1>1, <1>4, <1>5, <1>7, ReturnTypes
  <2>2. TypeOK'
    BY <1>1, <1>2, <1>4, <2>1, CallsAssumption DEF TypeOK, Call
  <2> QED BY <1>7, <2>1, <2>2 DEF IInv, Answering, NothingLost
<1>8. CASE fd # "null"
  <2>1. /\ pc' = "write" /\ op' = "fill" /\ todo' = buf \o s /\ arg' = r
        /\ buf' = buf \o s /\ failed' = failed
    BY <1>5, <1>8 DEF Enter
  <2>2. TypeOK'
    BY <1>1, <1>4, <1>6, <2>1, CallsAssumption DEF TypeOK, Call
  <2>3. Answering'
    BY <1>1, <1>2, <1>4, <2>1 DEF Answering
  <2>4. NothingLost'
    <3> SUFFICES ASSUME ~failed' PROVE file' \o (todo' \o arg') = Run(1, next')
      BY <2>1 DEF NothingLost, Pending
    <3>1. file \o buf = Run(1, next)
      BY <1>8, <2>1, IdlePending DEF Call
    <3>2. Joins(file, buf \o s, r)
      BY <1>1, <1>4, <1>6, Joined
    <3>3. Joins(file, buf, s)
      BY <1>1, <1>3, Joined
    <3> QED BY <1>3, <1>4, <2>1, <3>1, <3>2, <3>3 DEF Joins
  <2> QED BY <2>2, <2>3, <2>4 DEF IInv
<1> QED BY <1>7, <1>8

\* The buffer is written as it is, then the argument.
LEMMA WriteLargeKeeps ==
  ASSUME IInv, NEW len \in Nat, Call, next' = next + len, WriteLarge(len),
         UNCHANGED <<fd, corrupted, file, osError>>
  PROVE  IInv'
<1> DEFINE s == Run(next + 1, next + len)
<1>1. /\ TypeOK /\ buf \in Seq(Nat) /\ file \in Seq(Nat) /\ next \in Nat
      /\ <<>> \in Seq(Nat) /\ Len(<<>>) = 0 /\ Max \in Nat
  BY EmptySeq, MaxAssumption DEF IInv, TypeOK
<1>2. s \in Seq(Nat) /\ Run(1, next) \o s = Run(1, next + len)
  BY <1>1, Offered
<1>3. IF fd = "null" THEN Enter("rest", s, <<>>) /\ buf' = <<>>
      ELSE Enter("large", buf, s) /\ UNCHANGED buf
  BY DEF WriteLarge
<1> HIDE DEF s
<1>4. CASE fd = "null"
  <2>1. /\ pc' = "write" /\ op' = "rest" /\ todo' = s /\ arg' = <<>> /\ buf' = <<>>
        /\ failed' = failed
    BY <1>3, <1>4 DEF Enter
  <2>2. TypeOK'
    BY <1>1, <1>2, <2>1, CallsAssumption DEF TypeOK, Call
  <2> QED BY <1>1, <1>4, <2>1, <2>2 DEF IInv, Answering, NothingLost
<1>5. CASE fd # "null"
  <2>1. /\ pc' = "write" /\ op' = "large" /\ todo' = buf /\ arg' = s /\ buf' = buf
        /\ failed' = failed
    BY <1>3, <1>5 DEF Enter
  <2>2. TypeOK'
    BY <1>1, <1>2, <2>1, CallsAssumption DEF TypeOK, Call
  <2>3. NothingLost'
    <3> SUFFICES ASSUME ~failed' PROVE file' \o (todo' \o arg') = Run(1, next')
      BY <2>1 DEF NothingLost, Pending
    <3>1. file \o buf = Run(1, next)
      BY <1>5, <2>1, IdlePending DEF Call
    <3>2. Joins(file, buf, s)
      BY <1>1, <1>2, Joined
    <3> QED BY <1>2, <2>1, <3>1, <3>2 DEF Joins
  <2> QED BY <2>1, <2>2, <2>3 DEF IInv, Answering
<1> QED BY <1>4, <1>5

LEMMA WriteKeeps ==
  ASSUME IInv, NEW len \in Lens, bufwr_write(len)
  PROVE  IInv'
<1>1. len \in Nat /\ Call /\ next' = next + len /\ UNCHANGED <<fd, corrupted, file, osError>>
  BY LensAssumption DEF bufwr_write
<1>2. WriteLarge(len) \/ WriteFill(len) \/ WriteFits(len)
  BY DEF bufwr_write
<1> QED BY <1>1, <1>2, WriteLargeKeeps, WriteFillKeeps, WriteFitsKeeps

\* A flush of bytes that are there, for bufwr_flush and for bufwr__close.
LEMMA FlushKeeps ==
  ASSUME IInv, Call, fd # "null", NEW o \in {"flush", "close"},
         Enter(o, buf, <<>>), UNCHANGED <<buf, fd, corrupted, file, next, osError>>
  PROVE  IInv'
<1>1. /\ TypeOK /\ buf \in Seq(Nat) /\ file \in Seq(Nat) /\ Max \in Nat
      /\ <<>> \in Seq(Nat) /\ Len(<<>>) = 0
  BY EmptySeq, MaxAssumption DEF IInv, TypeOK
<1>2. /\ pc' = "write" /\ op' = o /\ todo' = buf /\ arg' = <<>> /\ failed' = failed
  BY DEF Enter
<1>3. TypeOK'
  BY <1>1, <1>2, CallsAssumption DEF TypeOK, Call
<1>4. Answering'
  BY <1>1, <1>2, MaxAssumption DEF Answering
<1>5. NothingLost'
  <2> SUFFICES ASSUME ~failed' PROVE file' \o (todo' \o arg') = Run(1, next')
    BY <1>2 DEF NothingLost, Pending
  <2>1. file \o buf = Run(1, next)
    BY <1>2, IdlePending DEF Call
  <2>2. buf \o <<>> = buf
    BY <1>1, ConcatEmptySeq
  <2> QED BY <1>2, <2>1, <2>2
<1> QED BY <1>3, <1>4, <1>5 DEF IInv

LEMMA bufwr_flushKeeps == IInv /\ bufwr_flush => IInv'
<1> SUFFICES ASSUME IInv, bufwr_flush PROVE IInv'
  OBVIOUS
<1>1. /\ TypeOK /\ Call /\ UNCHANGED <<fd, corrupted, file, next, osError>>
      /\ <<>> \in Seq(Nat) /\ Len(<<>>) = 0
  BY EmptySeq DEF IInv, bufwr_flush
<1>2. CASE buf = <<>> \/ fd = "null"
  <2>1. Return(<<>>, TRUE)
    BY <1>2 DEF bufwr_flush
  <2>2. /\ pc' = "idle" /\ op' = "none" /\ buf' = <<>>
        /\ todo' \in Seq(Nat) /\ arg' \in Seq(Nat) /\ failed' \in BOOLEAN
        /\ (~failed' => ~failed)
    BY <1>1, <2>1, ReturnTypes
  <2>3. 0 <= Max
    BY MaxAssumption
  <2>4. TypeOK'
    BY <1>1, <2>2, <2>3, CallsAssumption DEF TypeOK, Call
  <2>5. NothingLost'
    <3> SUFFICES ASSUME ~failed', fd # "null" PROVE file' \o buf' = Run(1, next')
      BY <1>1, <2>2 DEF NothingLost, Pending
    <3> QED BY <1>1, <1>2, <2>2, IdlePending DEF Call
  <2> QED BY <2>2, <2>4, <2>5 DEF IInv, Answering
<1>3. CASE ~(buf = <<>> \/ fd = "null")
  BY <1>1, <1>3, FlushKeeps DEF bufwr_flush
<1> QED BY <1>2, <1>3

LEMMA bufwr__closeKeeps == IInv /\ bufwr__close => IInv'
<1> SUFFICES ASSUME IInv, bufwr__close PROVE IInv'
  OBVIOUS
<1>1. /\ TypeOK /\ Call /\ UNCHANGED <<fd, corrupted, file, next, osError>>
      /\ <<>> \in Seq(Nat) /\ Len(<<>>) = 0
  BY EmptySeq DEF IInv, bufwr__close
<1>2. CASE buf = <<>> \/ fd = "null"
  <2>1. pc' = "close" /\ buf' = <<>> /\ UNCHANGED <<op, todo, arg, failed>>
    BY <1>2 DEF bufwr__close
  <2>2. 0 <= Max
    BY MaxAssumption
  <2>3. TypeOK'
    BY <1>1, <2>1, <2>2, CallsAssumption DEF TypeOK, Call
  <2>4. NothingLost'
    <3> SUFFICES ASSUME ~failed', fd # "null" PROVE file' \o <<>> = Run(1, next')
      BY <1>1, <2>1 DEF NothingLost, Pending
    <3> QED BY <1>1, <1>2, <2>1, IdlePending DEF Call
  <2> QED BY <2>1, <2>3, <2>4 DEF IInv, Answering
<1>3. CASE ~(buf = <<>> \/ fd = "null")
  BY <1>1, <1>3, FlushKeeps DEF bufwr__close
<1> QED BY <1>2, <1>3

LEMMA CloseFdKeeps == IInv /\ CloseFd => IInv'
<1> SUFFICES ASSUME IInv, CloseFd PROVE IInv'
  OBVIOUS
<1>1. /\ TypeOK /\ NothingLost /\ pc = "close" /\ pc' = "done"
      /\ UNCHANGED <<buf, corrupted, op, todo, arg, file, next, calls>>
  BY DEF IInv, CloseFd
<1>2. /\ fd' \in {"open", "null", "closed"} /\ failed' \in BOOLEAN /\ osError' \in BOOLEAN
      /\ (~failed' => ~failed) /\ (fd' # "null" => fd # "null")
  BY <1>1 DEF CloseFd, TypeOK
<1>3. TypeOK'
  BY <1>1, <1>2 DEF TypeOK
<1>4. NothingLost'
  BY <1>1, <1>2 DEF NothingLost, Pending
<1> QED BY <1>1, <1>3, <1>4 DEF IInv, Answering

LEMMA AbortAndLeakKeep == IInv /\ (bufwr__abort \/ bufwr__leak_fd) => IInv'
<1> SUFFICES ASSUME IInv, bufwr__abort \/ bufwr__leak_fd PROVE IInv'
  OBVIOUS
<1>1. /\ TypeOK /\ pc = "idle" /\ calls' \in 0 .. MaxCalls /\ 0 <= Max
      /\ <<>> \in Seq(Nat) /\ Len(<<>>) = 0
  BY EmptySeq, MaxAssumption, CallsAssumption
  DEF IInv, TypeOK, bufwr__abort, bufwr__leak_fd, Call
<1>2. CASE bufwr__abort
  <2>1. TypeOK'
    BY <1>1, <1>2 DEF TypeOK, bufwr__abort
  <2> QED BY <1>2, <2>1 DEF IInv, Answering, NothingLost, bufwr__abort
<1>3. CASE bufwr__leak_fd
  <2>1. TypeOK'
    BY <1>1, <1>3 DEF TypeOK, bufwr__leak_fd
  <2> QED BY <1>1, <1>3, <2>1 DEF IInv, Answering, NothingLost, bufwr__leak_fd
<1> QED BY <1>2, <1>3

-----------------------------------------------------------------------------
(* fd_write                                                                *)

\* A write that does not succeed ends the call with failed set, but keeps the types.
LEMMA FailsKeeps ==
  ASSUME IInv, pc = "write", Fails, osError' \in BOOLEAN,
         UNCHANGED <<fd, file, next, calls>>
  PROVE  IInv'
<1>1. TypeOK /\ buf \in Seq(Nat) /\ corrupted' \in BOOLEAN
  BY DEF IInv, TypeOK, Fails
<1>2. CASE op = "close"
  <2>1. pc' = "close" /\ failed' = TRUE /\ UNCHANGED <<buf, op, todo, arg>>
    BY <1>2 DEF Fails
  <2>2. TypeOK'
    BY <1>1, <2>1 DEF TypeOK
  <2> QED BY <2>1, <2>2 DEF IInv, Answering, NothingLost
<1>3. CASE op # "close"
  <2>1. /\ pc' = "idle" /\ op' = "none" /\ buf' = buf
        /\ todo' \in Seq(Nat) /\ arg' \in Seq(Nat) /\ failed' = TRUE
    BY <1>1, <1>3, EmptySeq DEF Fails, Return
  <2>2. TypeOK'
    BY <1>1, <2>1 DEF TypeOK
  <2> QED BY <2>1, <2>2 DEF IInv, Answering, NothingLost
<1> QED BY <1>2, <1>3

\* A short write moves bytes from todo to the file; the last of them ends the call
\* with what it is to keep in the buffer, or goes on to the argument.
LEMMA SysWritesKeeps ==
  ASSUME IInv, NEW k \in 1 .. Len(todo), SysWrites(k)
  PROVE  IInv'
<1> DEFINE took == SubSeq(todo, 1, k)
<1>1. /\ TypeOK /\ pc = "write" /\ fd = "open" /\ UNCHANGED <<fd, next, calls, osError>>
      /\ file' = file \o took
      /\ todo \in Seq(Nat) /\ arg \in Seq(Nat) /\ file \in Seq(Nat)
      /\ <<>> \in Seq(Nat) /\ Len(<<>>) = 0 /\ 0 <= Max
  BY EmptySeq, MaxAssumption DEF IInv, TypeOK, SysWrites
<1>2. /\ op # "none" /\ (op = "close" => arg = <<>>) /\ (op # "large" => Len(arg) <= Max)
      /\ (~failed => file \o (todo \o arg) = Run(1, next))
  BY <1>1 DEF IInv, Answering, NothingLost, Pending
<1>3. /\ took \in Seq(Nat) /\ Drop(todo, k) \in Seq(Nat)
      /\ took \o Drop(todo, k) = todo
      /\ k = Len(todo) => took = todo
  BY <1>1, DropRest
<1> HIDE DEF took
<1>4. file' \in Seq(Nat)
  BY <1>1, <1>3, ConcatProperties
<1>5. CASE k < Len(todo)
  <2>1. todo' = Drop(todo, k) /\ UNCHANGED <<buf, corrupted, pc, op, arg, failed>>
    BY <1>5 DEF SysWrites
  <2>2. TypeOK'
    BY <1>1, <1>3, <1>4, <2>1 DEF TypeOK
  <2>3. NothingLost'
    <3> SUFFICES ASSUME ~failed PROVE file' \o (todo' \o arg') = Run(1, next')
      BY <1>1, <2>1 DEF NothingLost, Pending
    <3>1. /\ file \in Seq(Nat) /\ took \in Seq(Nat) /\ todo' \in Seq(Nat)
          /\ arg \in Seq(Nat)
      BY <1>1, <1>3, <2>1
    <3>2. todo' \o arg \in Seq(Nat)
      BY <3>1, ConcatProperties
    <3>3. Joins(file, took, todo' \o arg)
      BY <3>1, <3>2, Joined
    <3>4. Joins(took, todo', arg)
      BY <3>1, Joined
    <3> QED BY <1>1, <1>2, <1>3, <2>1, <3>3, <3>4 DEF Joins
  <2> QED BY <1>2, <2>1, <2>2, <2>3 DEF IInv, Answering
<1>6. CASE k = Len(todo)
  <2>1. Succeeds /\ took = todo
    BY <1>3, <1>6 DEF SysWrites
  <2>2. ~failed => file' \o arg = Run(1, next')
    <3>1. Joins(file, todo, arg)
      BY <1>1, Joined
    <3> QED BY <1>1, <1>2, <2>1, <3>1 DEF Joins
  <2>3. corrupted' \in BOOLEAN
    BY <1>1, <2>1 DEF Succeeds, TypeOK
  <2>4. CASE op = "large"
    <3>1. /\ pc' = "write" /\ op' = "rest" /\ todo' = arg /\ arg' = <<>>
          /\ buf' = <<>> /\ failed' = failed
      BY <2>1, <2>4 DEF Succeeds, Enter
    <3>2. TypeOK'
      BY <1>1, <1>4, <2>3, <3>1 DEF TypeOK
    <3>3. arg \o <<>> = arg
      BY <1>1, ConcatEmptySeq
    <3>4. NothingLost'
      BY <2>2, <3>1, <3>3 DEF NothingLost, Pending
    <3> QED BY <1>1, <3>1, <3>2, <3>4 DEF IInv, Answering
  <2>5. CASE op = "close"
    <3>1. /\ pc' = "close" /\ todo' = <<>> /\ buf' = <<>> /\ UNCHANGED <<op, arg, failed>>
      BY <2>1, <2>5 DEF Succeeds
    <3>2. TypeOK'
      BY <1>1, <1>4, <2>3, <3>1 DEF TypeOK
    <3>3. NothingLost'
      BY <1>2, <2>2, <2>5, <3>1 DEF NothingLost, Pending
    <3> QED BY <3>1, <3>2, <3>3 DEF IInv, Answering
  <2>6. CASE op \notin {"large", "close"}
    <3>1. Return(arg, TRUE) /\ Len(arg) <= Max
      BY <1>2, <2>1, <2>6 DEF Succeeds
    <3>2. /\ pc' = "idle" /\ op' = "none" /\ buf' = arg
          /\ todo' \in Seq(Nat) /\ arg' \in Seq(Nat) /\ failed' \in BOOLEAN
          /\ (~failed' => ~failed)
      BY <1>1, <3>1, ReturnTypes
    <3>3. TypeOK'
      BY <1>1, <1>4, <2>3, <3>1, <3>2 DEF TypeOK
    <3>4. NothingLost'
      BY <2>2, <3>2 DEF NothingLost, Pending
    <3> QED BY <3>2, <3>3, <3>4 DEF IInv, Answering
  <2> QED BY <2>4, <2>5, <2>6
<1>7. k < Len(todo) \/ k = Len(todo)
  BY <1>1, LenProperties
<1> QED BY <1>5, <1>6, <1>7

-----------------------------------------------------------------------------
LEMMA InvStep == IInv /\ [Next]_vars => IInv'
<1> SUFFICES ASSUME IInv, [Next]_vars PROVE IInv'
  OBVIOUS
<1>1. CASE \E len \in Lens : bufwr_write(len)
  BY <1>1, WriteKeeps
<1>2. CASE bufwr_flush
  BY <1>2, bufwr_flushKeeps
<1>3. CASE bufwr__close
  BY <1>3, bufwr__closeKeeps
<1>4. CASE bufwr__abort \/ bufwr__leak_fd
  BY <1>4, AbortAndLeakKeep
<1>5. CASE CloseFd
  BY <1>5, CloseFdKeeps
<1>6. CASE \E k \in 1 .. Len(todo) : SysWrites(k)
  BY <1>6, SysWritesKeeps
<1>7. CASE SysZero \/ SysError \/ SysBadFd
  <2>1. osError \in BOOLEAN
    BY DEF IInv, TypeOK
  <2>2. pc = "write" /\ Fails /\ osError' \in BOOLEAN /\ UNCHANGED <<fd, file, next, calls>>
    BY <1>7, <2>1 DEF SysZero, SysError, SysBadFd
  <2> QED BY <2>2, FailsKeeps
<1>8. CASE SysAgain \/ UNCHANGED vars
  <2>1. UNCHANGED vars
    BY <1>8 DEF SysAgain
  <2>2. TypeOK'
    BY <2>1 DEF vars, IInv, TypeOK
  <2>3. Answering'
    BY <2>1 DEF vars, IInv, Answering
  <2>4. NothingLost'
    BY <2>1 DEF vars, IInv, NothingLost, Pending
  <2> QED BY <2>2, <2>3, <2>4 DEF IInv
<1> QED BY <1>1, <1>2, <1>3, <1>4, <1>5, <1>6, <1>7, <1>8 DEF Next

\* bufwr.c: the buffer never holds more than max bytes, the assertion that ends
\* bufwr_write.
THEOREM TypeCorrect == Spec => []TypeOK
<1>1. IInv => TypeOK
  BY DEF IInv
<1> QED BY InvInit, InvStep, <1>1, PTL DEF Spec

\* bufwr_write, bufwr_flush, bufwr__close and fd_write: while no call has failed the
\* file and what is on its way to it are the bytes offered, in order.
THEOREM NoByteLost == Spec => []NothingLost
<1>1. IInv => NothingLost
  BY DEF IInv
<1> QED BY InvInit, InvStep, <1>1, PTL DEF Spec

-----------------------------------------------------------------------------
(* Failures                                                                *)

\* No write is empty, or so large that an empty buffer is flushed for it.
SmallWrites == ~Leaks /\ \A len \in Lens : len > 0 /\ len < 2 * Max

\* Then fd_write is never asked to write nothing, which write(2) would answer with the 0
\* that is taken for a lost connection, and only the system's errors are failures.
Asking ==
  /\ fd # "null"
  /\ pc = "write" => todo # <<>> /\ (op = "large" => arg # <<>>)
  /\ failed => osError

\* A run of some bytes is not empty.
LEMMA RunNotEmpty ==
  ASSUME NEW n \in Nat, NEW len \in Nat, len > 0
  PROVE  Run(n + 1, n + len) # <<>>
<1>1. Len(Run(n + 1, n + len)) = len
  BY Offered
<1>2. Len(Run(n + 1, n + len)) # 0
  BY <1>1
<1>3. Len(<<>>) = 0
  BY EmptySeq
<1> QED BY <1>2, <1>3

LEMMA WriteAsks ==
  ASSUME IInv, SmallWrites, Asking, NEW len \in Lens, bufwr_write(len)
  PROVE  Asking'
<1>1. /\ buf \in Seq(Nat) /\ Len(buf) \in Nat /\ Len(buf) <= Max /\ next \in Nat
      /\ Max \in Nat \ {0} /\ len \in Nat \ {0} /\ len < 2 * Max
      /\ fd' = fd /\ osError' = osError /\ fd # "null" /\ (failed => osError)
  BY MaxAssumption, LensAssumption, LenProperties
  DEF IInv, TypeOK, bufwr_write, SmallWrites, Asking
<1>2. CASE WriteLarge(len)
  <2>1. /\ len >= Space + Max /\ failed' = failed
        /\ todo' = buf /\ arg' = Run(next + 1, next + len)
    BY <1>1, <1>2 DEF WriteLarge, Large, Enter
  <2>2. buf # <<>>
    <3>1. Len(buf) # 0
      BY <1>1, <2>1 DEF Space
    <3> QED BY <3>1, EmptySeq
  <2>3. arg' # <<>>
    <3>1. len \in Nat /\ len > 0
      BY <1>1
    <3> QED BY <1>1, <2>1, <3>1, RunNotEmpty
  <2> QED BY <1>1, <2>1, <2>2, <2>3 DEF Asking
<1>3. CASE WriteFill(len)
  <2>1. /\ op' = "fill" /\ failed' = failed
        /\ todo' = buf \o Run(next + 1, next + Space)
    BY <1>1, <1>3 DEF WriteFill, Enter
  <2>2. todo' # <<>>
    <3>1. Space \in Nat /\ Space = Max - Len(buf)
      BY <1>1 DEF Space
    <3>2. Run(next + 1, next + Space) \in Seq(Nat) /\ Len(Run(next + 1, next + Space)) = Space
      BY <1>1, <3>1, Offered
    <3>3. Len(todo') = Len(buf) + Space
      BY <1>1, <2>1, <3>2, ConcatProperties
    <3>4. Len(todo') # 0
      BY <1>1, <3>1, <3>3
    <3> QED BY <3>4, EmptySeq
  <2> QED BY <1>1, <2>1, <2>2 DEF Asking
<1>4. CASE WriteFits(len)
  <2>1. pc' = "idle" /\ failed' = (failed \/ ~TRUE)
    BY <1>4 DEF WriteFits, Return
  <2> QED BY <1>1, <2>1 DEF Asking
<1> QED BY <1>2, <1>3, <1>4 DEF bufwr_write

\* A short write leaves some bytes, and the argument of a large write follows the buffer.
LEMMA SysWritesAsks ==
  ASSUME IInv, Asking, NEW k \in 1 .. Len(todo), SysWrites(k)
  PROVE  Asking'
<1>1. /\ pc = "write" /\ fd # "null" /\ fd' = fd /\ osError' = osError /\ (failed => osError)
      /\ op = "large" => arg # <<>>
      /\ todo \in Seq(Nat) /\ Len(todo) \in Nat
  BY LenProperties DEF IInv, TypeOK, Asking, SysWrites
<1>2. CASE k < Len(todo)
  <2>1. todo' = SubSeq(todo, k + 1, Len(todo)) /\ UNCHANGED <<pc, op, arg, failed>>
    BY <1>2 DEF SysWrites, Drop
  <2>2. todo' # <<>>
    <3>1. \A j \in k + 1 .. Len(todo) : todo[j] \in Nat
      BY <1>1, ElementOfSeq
    <3>2. Len(todo') = Len(todo) - (k + 1) + 1
      BY <1>1, <1>2, <2>1, <3>1, SubSeqProperties
    <3>3. Len(todo') # 0
      BY <1>1, <1>2, <3>2
    <3> QED BY <3>3, EmptySeq
  <2> QED BY <1>1, <2>1, <2>2 DEF Asking
<1>3. CASE ~(k < Len(todo))
  <2>1. Succeeds
    BY <1>3 DEF SysWrites
  <2>2. CASE op = "large"
    <3>1. todo' = arg /\ op' = "rest" /\ failed' = failed
      BY <2>1, <2>2 DEF Succeeds, Enter
    <3> QED BY <1>1, <2>2, <3>1 DEF Asking
  <2>3. CASE op # "large"
    <3>1. pc' \in {"idle", "close"} /\ (failed' => failed)
      BY <2>1, <2>3 DEF Succeeds, Return
    <3> QED BY <1>1, <3>1 DEF Asking
  <2> QED BY <2>2, <2>3
<1> QED BY <1>2, <1>3

LEMMA AskInit == Init => Asking
BY DEF Init, Asking

LEMMA AskStep == IInv /\ SmallWrites /\ Asking /\ [Next]_vars => Asking'
<1> SUFFICES ASSUME IInv, SmallWrites, Asking, [Next]_vars PROVE Asking'
  OBVIOUS
<1>1. CASE \E len \in Lens : bufwr_write(len)
  BY <1>1, WriteAsks
<1>2. CASE bufwr_flush \/ bufwr__close
  <2>1. /\ fd' = fd /\ osError' = osError
        /\ \/ pc' \in {"idle", "close"} /\ (failed' => failed)
           \/ pc' = "write" /\ todo' = buf /\ buf # <<>> /\ op' # "large" /\ failed' = failed
    BY <1>2 DEF bufwr_flush, bufwr__close, Return, Enter
  <2> QED BY <2>1 DEF Asking
<1>3. CASE bufwr__abort
  BY <1>3 DEF bufwr__abort, Asking
<1>4. CASE bufwr__leak_fd
  BY <1>4 DEF bufwr__leak_fd, SmallWrites
<1>5. CASE CloseFd
  <2>1. pc' = "done" /\ fd' # "null" /\ (failed' => osError')
    BY <1>5 DEF CloseFd, Asking
  <2> QED BY <2>1 DEF Asking
<1>6. CASE \E k \in 1 .. Len(todo) : SysWrites(k)
  BY <1>6, SysWritesAsks
<1>7. CASE SysZero \/ SysError
  <2>1. osError' /\ fd' = fd /\ Fails
    BY <1>7 DEF SysZero, SysError, Asking, IInv, TypeOK
  <2>2. pc' \in {"close", "idle"}
    BY <2>1 DEF Fails, Return
  <2> QED BY <2>1, <2>2 DEF Asking
<1>8. CASE SysBadFd
  BY <1>8 DEF SysBadFd, Asking
<1>9. CASE SysAgain \/ UNCHANGED vars
  BY <1>9 DEF SysAgain, vars, Asking
<1> QED BY <1>1, <1>2, <1>3, <1>4, <1>5, <1>6, <1>7, <1>8, <1>9 DEF Next

\* fd_write: callers that write a little at a time see a call fail only when the
\* system has failed.
THEOREM FailsWithSystem ==
  ASSUME SmallWrites
  PROVE  Spec => [](failed => osError)
<1>1. Asking => (failed => osError)
  BY DEF Asking
<1> QED BY InvInit, InvStep, AskInit, AskStep, <1>1, PTL DEF Spec
=============================================================================
