-------------------------------- MODULE BufWr --------------------------------
(***************************************************************************)
(* The buffered writer of src/bufwr.c over fd_write of src/fd.c: the calls *)
(* of its interface, and under them one write(2) at a time with everything *)
(* the system may answer.  out.wav is written through it.                  *)
(*                                                                         *)
(* The bytes a caller offers are numbered 1, 2, ... in the order offered;  *)
(* the buffer and the file are sequences of these numbers.                 *)
(***************************************************************************)
EXTENDS Integers, Sequences

CONSTANTS
  Max,         \* f->max, the size of the buffer
  Lens,        \* the lengths callers pass to bufwr_write
  MaxCalls,    \* bound: interface calls in a behaviour
  Leaks        \* whether callers use bufwr__leak_fd

ASSUME MaxAssumption == Max \in Nat \ {0}
ASSUME LensAssumption == Lens \subseteq Nat
ASSUME CallsAssumption == MaxCalls \in Nat /\ Leaks \in BOOLEAN

VARIABLES
  fd,         \* "open", "null" (-1) or "closed"
  buf,        \* the bytes in f->buf; f->cur is its length
  corrupted,  \* f->corrupted
  pc,         \* "idle", "write" (inside fd_write), "close", "done", "aborted"
  op,         \* what the running fd_write is for: "large", "rest" and "fill"
              \* of bufwr_write, "flush" of bufwr_flush, "close" of bufwr__close
  todo,       \* fd_write: the bytes at ptr, remains of them
  arg,        \* the part of the caller's bytes not yet copied or being written
  \* History variables.
  file,       \* what the file holds
  next,       \* how many bytes have been offered
  calls,      \* interface calls so far
  failed,     \* some call has returned false
  osError     \* some system call has reported an unrecoverable error

vars == <<fd, buf, corrupted, pc, op, todo, arg, file, next, calls, failed, osError>>

\* The offered bytes numbered from m to n.
Run(m, n) == [i \in 1 .. n + 1 - m |-> m + i - 1]

Init ==
  /\ fd = "open"
  /\ buf = <<>> /\ corrupted = FALSE
  /\ pc = "idle" /\ op = "none" /\ todo = <<>> /\ arg = <<>>
  /\ file = <<>> /\ next = 0 /\ calls = 0 /\ failed = FALSE /\ osError = FALSE

-----------------------------------------------------------------------------
(* Pieces of the calls                                                     *)

\* A call returns: b is what it leaves in the buffer, ok its result.
Return(b, ok) ==
  /\ pc' = "idle" /\ op' = "none" /\ todo' = <<>> /\ arg' = <<>>
  /\ buf' = b
  /\ failed' = (failed \/ ~ok)

\* fd_write is entered with bytes s, for purpose o; rest is still to come.
Enter(o, s, rest) ==
  /\ pc' = "write" /\ op' = o /\ todo' = s /\ arg' = rest
  /\ UNCHANGED failed

\* fd_write returns false.  flush marks the writer corrupted and keeps cur; the
\* second write of large_write does neither.  bufwr__close goes on to close.
Fails ==
  /\ corrupted' = (corrupted \/ op # "rest")
  /\ IF op = "close"
     THEN pc' = "close" /\ failed' = TRUE /\ UNCHANGED <<buf, op, todo, arg>>
     ELSE Return(buf, FALSE)

\* fd_write returns true: flush empties the buffer, and the call goes on.  The
\* first write of large_write is followed by that of the caller's own bytes.
Succeeds ==
  /\ UNCHANGED corrupted
  /\ CASE op = "large" -> Enter("rest", arg, <<>>) /\ buf' = <<>>
       [] op = "close" -> /\ pc' = "close" /\ todo' = <<>> /\ buf' = <<>>
                          /\ UNCHANGED <<op, arg, failed>>
       [] OTHER        -> Return(arg, TRUE)

-----------------------------------------------------------------------------
(* The interface                                                           *)

Space == Max - Len(buf)

\* Mutant: the large-write threshold forgets the bytes already buffered.
LargeAll(len) == len >= Max + Max + 1

\* len is so big that a second flush would be needed.
Large(len) == len >= Space + Max

\* A write that is too large for the buffer with one flush: large_write.
\* flush succeeds at once on a leaked descriptor, fd_write is then called on it.
WriteLarge(len) ==
  /\ Large(len)
  /\ LET s == Run(next + 1, next + len) IN
     IF fd = "null" THEN Enter("rest", s, <<>>) /\ buf' = <<>>
     ELSE Enter("large", buf, s) /\ UNCHANGED buf

\* The argument overflows the buffer once: fill it, flush, keep the rest.
WriteFill(len) ==
  /\ ~Large(len) /\ len > Space
  /\ LET s == Run(next + 1, next + Space)
         r == Run(next + Space + 1, next + len)
     IN  IF fd = "null" THEN Return(r, TRUE)
         ELSE Enter("fill", buf \o s, r) /\ buf' = buf \o s

WriteFits(len) ==
  /\ ~Large(len) /\ len <= Space
  /\ Return(buf \o Run(next + 1, next + len), TRUE)

\* A call starts; it changes nothing the history of calls does not name.
Call == pc = "idle" /\ calls < MaxCalls /\ calls' = calls + 1

bufwr_write(len) ==
  /\ Call
  /\ next' = next + len
  /\ WriteLarge(len) \/ WriteFill(len) \/ WriteFits(len)
  /\ UNCHANGED <<fd, corrupted, file, osError>>

bufwr_flush ==
  /\ Call
  /\ IF buf = <<>> \/ fd = "null"
     THEN Return(<<>>, TRUE)
     ELSE Enter("flush", buf, <<>>) /\ UNCHANGED buf
  /\ UNCHANGED <<fd, corrupted, file, next, osError>>

\* Mutant: the flush writes out the buffer though it is empty.
bufwr__closeFlushes ==
  /\ Call
  /\ Enter("close", buf, <<>>)
  /\ UNCHANGED <<buf, fd, corrupted, file, next, osError>>

\* bufwr__close up to the end of its flush.
bufwr__close ==
  /\ Call
  /\ IF buf = <<>> \/ fd = "null"
     THEN /\ pc' = "close" /\ buf' = <<>>
          /\ UNCHANGED <<op, todo, arg, failed>>
     ELSE Enter("close", buf, <<>>) /\ UNCHANGED buf
  /\ UNCHANGED <<fd, corrupted, file, next, osError>>

\* fsync and close(2): an fsync error other than EROFS and EINVAL, and any
\* close error, make the result false; the descriptor is gone either way.
CloseFd ==
  /\ pc = "close"
  /\ pc' = "done"
  /\ IF fd = "open"
     THEN \E ok \in BOOLEAN : /\ failed' = (failed \/ ~ok)
                              /\ osError' = (osError \/ ~ok)
                              /\ fd' = "closed"
     ELSE UNCHANGED <<fd, failed, osError>>
  /\ UNCHANGED <<buf, corrupted, op, todo, arg, file, next, calls>>

bufwr__abort ==
  /\ Call
  /\ pc' = "aborted"                 \* what is buffered is dropped
  /\ fd' = IF fd = "open" THEN "closed" ELSE fd
  /\ buf' = <<>>
  /\ UNCHANGED <<corrupted, op, todo, arg, file, next, failed, osError>>

bufwr__leak_fd ==
  /\ Leaks
  /\ Call
  /\ fd' = "null"
  /\ UNCHANGED <<buf, corrupted, pc, op, todo, arg, file, next, failed, osError>>

-----------------------------------------------------------------------------
(* fd_write: one write(2), and what fd_write does with its answer          *)

\* Mutant: a short write goes round with the pointer where it was, one byte off.
DropShort(s, k) == SubSeq(s, k, Len(s) - 1)

Drop(s, k) == SubSeq(s, k + 1, Len(s))

\* k of the remaining bytes are written, 0 < k; a short write goes round.
SysWrites(k) ==
  /\ pc = "write" /\ fd = "open" /\ k \in 1 .. Len(todo)
  /\ file' = file \o SubSeq(todo, 1, k)
  /\ IF k < Len(todo)
     THEN /\ todo' = Drop(todo, k)
          /\ UNCHANGED <<buf, corrupted, pc, op, arg, failed>>
     ELSE Succeeds
  /\ UNCHANGED <<fd, next, calls, osError>>

\* An interrupted call, or EAGAIN and a poll(2) that reports the descriptor
\* ready: fd_write goes round and the writer's state is what it was.
SysAgain == pc = "write" /\ fd = "open" /\ UNCHANGED vars

\* Mutant: a zero answer goes round as a short write does.
SysZeroRetried == pc = "write" /\ fd = "open" /\ UNCHANGED vars

\* write(2) answers 0: what it does when asked for no bytes, and what a hung-up
\* socket answers.  Either way it is taken for a lost connection.
SysZero ==
  /\ pc = "write" /\ fd = "open"
  /\ Fails
  /\ osError' = (osError \/ todo # <<>>)
  /\ UNCHANGED <<fd, file, next, calls>>

\* Any other errno, or a failing poll(2).
SysError ==
  /\ pc = "write" /\ fd = "open"
  /\ Fails
  /\ osError' = TRUE
  /\ UNCHANGED <<fd, file, next, calls>>

\* A write to descriptor -1: EBADF.
SysBadFd ==
  /\ pc = "write" /\ fd = "null"
  /\ Fails
  /\ UNCHANGED <<fd, file, next, calls, osError>>

-----------------------------------------------------------------------------
Next ==
  \/ \E len \in Lens : bufwr_write(len)
  \/ bufwr_flush \/ bufwr__close \/ bufwr__abort \/ bufwr__leak_fd
  \/ CloseFd
  \/ \E k \in 1 .. Len(todo) : SysWrites(k)
  \/ SysAgain \/ SysZero \/ SysError \/ SysBadFd

Spec == Init /\ [][Next]_vars

\* The system does not answer EINTR or EAGAIN for ever: it ends up taking some bytes
\* or none, unless it fails first.  The caller's own code goes on.
Answers == (\E k \in 1 .. Len(todo) : SysWrites(k)) \/ SysZero \/ SysBadFd

FairSpec == Spec /\ WF_vars(Answers) /\ WF_vars(CloseFd)

-----------------------------------------------------------------------------
(* Properties                                                              *)

\* Types; the buffer never holds more than max bytes, which is the assertion
\* that ends bufwr_write and what keeps each memcpy inside the allocation.
TypeOK ==
  /\ fd \in {"open", "null", "closed"}
  /\ buf \in Seq(Nat) /\ Len(buf) <= Max
  /\ corrupted \in BOOLEAN /\ failed \in BOOLEAN /\ osError \in BOOLEAN
  /\ pc \in {"idle", "write", "close", "done", "aborted"}
  /\ op \in {"none", "large", "rest", "fill", "flush", "close"}
  /\ todo \in Seq(Nat) /\ arg \in Seq(Nat) /\ file \in Seq(Nat)
  /\ next \in Nat /\ calls \in 0 .. MaxCalls

\* The bytes on their way to the file.
Pending == CASE pc = "write" -> todo \o arg
             [] pc \in {"done", "close"} -> <<>>
             [] OTHER -> buf

\* While no call has failed, what the file holds and what is on its way are
\* exactly the bytes offered, in order, whatever short writes and interruptions
\* happen; when bufwr__close reports success the file is complete.
NothingLost ==
  (~failed /\ fd # "null" /\ pc # "aborted") => file \o Pending = Run(1, next)

\* Every call comes back: short writes shrink what is left, and a write of
\* nothing is not retried.
CallsReturn == (pc \in {"write", "close"}) ~> (pc \in {"idle", "done"})
=============================================================================
