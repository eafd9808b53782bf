---------------------------- MODULE PlayerProofs ----------------------------
(***************************************************************************)
(* Proofs about Player, for any number of files, pieces of a file and      *)
(* instructions in a sample, and any limit of samples.                     *)
(***************************************************************************)
EXTENDS Player, SequenceTheorems, TLAPS

\* While a file is read its pieces are in place as far as got; once it is all read
\* the whole struct is of this file.
Loading ==
  /\ i \in Nat
  /\ at = "load" => got \in 0 .. Parts /\ \A p \in 1 .. got : spc[p] = i
  /\ spc \in [Part -> Nat]
  /\ at = "setup" => spc = [p \in Part |-> i]

\* The phase is that of the clocks, and inside _dsp_run32 the sample is due.
Pacing ==
  /\ nr_samples \in Nat /\ base \in Nat /\ clocks \in Nat
  /\ phase = clocks % Period
  /\ at = "sample" => (nr_samples + 1 = base + clocks \div Period \/ nr_samples >= Limit)

\* The inductive invariants: OneImage needs what was read, SamplesPaceClock what is due.
ImageInv == Loading /\ OneImage
PaceInv == Pacing /\ SamplesPaceClock

-----------------------------------------------------------------------------
(* The sample clock                                                        *)

\* Quotient and remainder are those of the division.
LEMMA Division ==
  ASSUME NEW c \in Nat, NEW P \in Nat \ {0}
  PROVE  /\ c = P * (c \div P) + (c % P)
         /\ c % P \in 0 .. P - 1 /\ c \div P \in Nat
OBVIOUS

\* Nothing else divides that way.
LEMMA QuotientUnique ==
  ASSUME NEW P \in Nat \ {0}, NEW q1 \in Nat, NEW q2 \in Nat,
         NEW r1 \in 0 .. P - 1, NEW r2 \in 0 .. P - 1,
         P * q1 + r1 = P * q2 + r2
  PROVE  q1 = q2 /\ r1 = r2
<1>1. ASSUME NEW a \in Nat, NEW b \in Nat, a < b PROVE P * a + P <= P * b
  <2>1. PICK d \in Nat : b = a + 1 + d
    <3>1. b - a - 1 \in Nat /\ b = a + 1 + (b - a - 1)
      BY <1>1
    <3> QED BY <3>1
  <2>2. P * b = P * a + P + P * d /\ P * d >= 0
    BY <2>1
  <2> QED BY <2>2
<1>2. ~(q1 < q2)
  BY <1>1
<1>3. ~(q2 < q1)
  BY <1>1
<1> QED BY <1>2, <1>3

\* One more instruction: the phase steps, and the quotient steps when it comes round.
LEMMA ClockStep ==
  ASSUME NEW c \in Nat, NEW P \in Nat \ {0}
  PROVE  /\ (c + 1) % P = ((c % P) + 1) % P
         /\ (c + 1) % P = 0 => (c + 1) \div P = (c \div P) + 1
         /\ (c + 1) % P # 0 => (c + 1) \div P = c \div P
<1> DEFINE q == c \div P
           r == c % P
<1>1. c = P * q + r /\ r \in 0 .. P - 1 /\ q \in Nat
  BY Division
<1>2. /\ c + 1 = P * ((c + 1) \div P) + ((c + 1) % P)
      /\ (c + 1) % P \in 0 .. P - 1 /\ (c + 1) \div P \in Nat
  BY Division, c + 1 \in Nat
<1>3. CASE r + 1 < P
  <2>1. c + 1 = P * q + (r + 1) /\ r + 1 \in 0 .. P - 1
    BY <1>1, <1>3
  <2>2. (c + 1) \div P = q /\ (c + 1) % P = r + 1
    BY <2>1, <1>1, <1>2, QuotientUnique
  <2>3. (r + 1) % P = r + 1
    BY <1>1, <1>3
  <2> QED BY <1>1, <2>2, <2>3
<1>4. CASE r + 1 = P
  <2>1. c + 1 = P * (q + 1) + 0 /\ q + 1 \in Nat /\ 0 \in 0 .. P - 1
    BY <1>1, <1>4
  <2>2. (c + 1) \div P = q + 1 /\ (c + 1) % P = 0
    BY <2>1, <1>2, QuotientUnique
  <2>3. (r + 1) % P = 0
    BY <1>4
  <2> QED BY <1>1, <2>2, <2>3
<1> QED BY <1>1, <1>3, <1>4

\* Before the first instruction.
LEMMA ClockStart ==
  ASSUME NEW P \in Nat \ {0}
  PROVE  0 % P = 0 /\ 0 \div P = 0
OBVIOUS

-----------------------------------------------------------------------------
(* The program's image                                                     *)

LEMMA ImageInit == PlayerInit => ImageInv
BY DEF PlayerInit, ImageInv, Loading, OneImage, Part

\* The pieces that a read returns go behind those that are there.
LEMMA ReadKeepsImage ==
  ASSUME ImageInv, NEW k \in 1 .. Parts - got, Read(k)
  PROVE  ImageInv'
<1>1. /\ i \in Nat /\ i' = i /\ at = "load" /\ got \in 0 .. Parts
      /\ \A p \in 1 .. got : spc[p] = i
      /\ spc \in [Part -> Nat]
      /\ spc' = [p \in Part |-> IF p \in got + 1 .. got + k THEN i ELSE spc[p]]
      /\ got' = got + k
      /\ at' = IF Filled(got') THEN "setup" ELSE "load"
      /\ song' = song
  BY DEF Read, ImageInv, Loading, runVars
<1>2. got' \in 0 .. Parts
  BY <1>1, PlayerAssumption
<1>3. \A p \in 1 .. got' : spc'[p] = i'
  <2> TAKE p \in 1 .. got'
  <2>1. p \in Part /\ (p \in 1 .. got \/ p \in got + 1 .. got + k)
    BY <1>1, <1>2, PlayerAssumption DEF Part
  <2> QED BY <1>1, <2>1
<1>4. spc' \in [Part -> Nat]
  BY <1>1
<1>5. at' = "setup" => spc' = [p \in Part |-> i']
  <2> SUFFICES ASSUME at' = "setup" PROVE spc' = [p \in Part |-> i']
    OBVIOUS
  <2>1. got' = Parts
    BY <1>1 DEF Filled
  <2> QED BY <1>3, <1>4, <2>1 DEF Part
<1> QED BY <1>1, <1>2, <1>3, <1>4, <1>5 DEF ImageInv, Loading, OneImage

\* What happens between reads neither touches the struct nor the image that runs.
LEMMA ImageStep == ImageInv /\ [PlayerNext]_<<playerVars, vars>> => ImageInv'
<1> SUFFICES ASSUME ImageInv, [PlayerNext]_<<playerVars, vars>> PROVE ImageInv'
  OBVIOUS
<1> USE DEF ImageInv, Loading, OneImage
<1>1. CASE Open
  BY <1>1, PlayerAssumption DEF Open, FileFails, runVars
<1>2. ASSUME NEW k \in 1 .. Parts - got, Read(k) PROVE ImageInv'
  BY <1>2, ReadKeepsImage
<1>3. CASE ReadFails
  BY <1>3 DEF ReadFails, FileFails, runVars
<1>4. CASE setup_spc700
  BY <1>4 DEF setup_spc700, loadVars
<1>5. CASE MainReturns
  BY <1>5 DEF MainReturns, loadVars, runVars
<1>6. CASE Retire
  BY <1>6 DEF Retire, loadVars
<1>7. CASE Output
  <2>1. at = "sample" /\ at' \in {"over", "run", "sample"}
    BY <1>7 DEF Output
  <2> QED BY <1>7, <2>1 DEF Output, loadVars, runVars
<1>8. CASE HaltInsn
  BY <1>8 DEF HaltInsn, loadVars, runVars
<1>9. CASE BadDspAddr
  BY <1>9 DEF BadDspAddr, loadVars, runVars
<1>10. CASE UNCHANGED <<playerVars, vars>>
  BY <1>10 DEF playerVars, loadVars, runVars
<1> QED
  BY <1>1, <1>2, <1>3, <1>4, <1>5, <1>6, <1>7, <1>8, <1>9, <1>10 DEF PlayerNext, Proceed

\* fill_buf and main: the program that runs is the whole of one file, however the
\* file was read and whatever failed before it.
THEOREM WholeFile == PlayerSpec => []OneImage
<1>1. ImageInv => OneImage
  BY DEF ImageInv
<1> QED BY ImageInit, ImageStep, <1>1, PTL DEF PlayerSpec

-----------------------------------------------------------------------------
(* Samples and clocks                                                      *)

\* Of the steps of _dsp_run32 only the return of wav_write_samples16 counts a frame.
LEMMA FrameCounted ==
  ASSUME OutputStep
  PROVE  \/ nr_samples' = nr_samples /\ ~(wav = "writing" /\ wav' = "open")
         \/ wav = "writing" /\ wav' = "open" /\ nr_samples' = nr_samples + 1
<1> USE DEF Goes
<1>1. CASE wav_create \/ CreateFails \/ wav_write_samples16
  BY <1>1 DEF wav_create, CreateFails, wav_write_samples16
<1>2. CASE Written
  BY <1>2 DEF Written
<1>3. CASE Flush \/ FlushFailed \/ rewrite_hdr
  BY <1>3 DEF Flush, FlushFailed, rewrite_hdr
<1>4. CASE \E k \in PwriteCounts : Pwrite(k)
  BY <1>4 DEF Pwrite
<1>5. CASE PwriteFails \/ Close \/ Closed
  BY <1>5 DEF PwriteFails, Close, Closed
<1>6. CASE WriterStep
  BY <1>6 DEF WriterStep
<1> QED BY <1>1, <1>2, <1>3, <1>4, <1>5, <1>6 DEF OutputStep

LEMMA PaceInit == PlayerInit => PaceInv
BY ClockStart, PlayerAssumption DEF PlayerInit, Init, PaceInv, Pacing, SamplesPaceClock

\* A retirement makes a sample due exactly when the quotient steps.
LEMMA RetireKeepsPace ==
  ASSUME PaceInv, Retire
  PROVE  PaceInv'
<1> USE DEF PaceInv, Pacing, SamplesPaceClock
<1>1. /\ at = "run" /\ nr_samples = base + clocks \div Period
      /\ phase' = (phase + 1) % Period /\ clocks' = clocks + 1
      /\ at' = IF phase' = 0 THEN "sample" ELSE "run"
      /\ base' = base /\ nr_samples' = nr_samples
  BY DEF Retire, SampleDue, vars, wavVars
<1>2. phase' = clocks' % Period
  BY <1>1, ClockStep, PlayerAssumption
<1>3. clocks \div Period \in Nat /\ clocks' \in Nat
  BY <1>1, Division, PlayerAssumption
<1>4. clocks' \div Period =
        IF phase' = 0 THEN (clocks \div Period) + 1 ELSE clocks \div Period
  BY <1>1, <1>2, ClockStep, PlayerAssumption
<1>5. at' = "sample" => nr_samples' + 1 = base' + clocks' \div Period
  BY <1>1, <1>3, <1>4
<1>6. at' = "run" => nr_samples' = base' + clocks' \div Period
  BY <1>1, <1>3, <1>4
<1> QED BY <1>1, <1>2, <1>3, <1>5, <1>6

\* _dsp_run32 returns to the program when the frame that was due is accepted.
LEMMA OutputKeepsPace ==
  ASSUME PaceInv, Output
  PROVE  PaceInv'
<1> USE DEF PaceInv, Pacing, SamplesPaceClock
<1>1. /\ at = "sample" /\ OutputStep
      /\ at' = CASE wav' \in Ended -> "over" [] Returns -> "run" [] OTHER -> "sample"
      /\ base' = base /\ clocks' = clocks /\ phase' = phase
  BY DEF Output, runVars
<1>2. clocks \div Period \in Nat /\ Limit \in Nat
  BY Division, PlayerAssumption, LimitAssumption
<1>3. CASE nr_samples' = nr_samples /\ ~(wav = "writing" /\ wav' = "open")
  <2>1. ~Returns
    BY <1>3 DEF Returns
  <2>2. at' = (IF wav' \in Ended THEN "over" ELSE "sample")
    BY <1>1, <2>1
  <2>3. at' # "run" /\ (nr_samples' + 1 = base' + clocks' \div Period \/ nr_samples' >= Limit)
    BY <1>1, <1>3, <2>2
  <2> QED BY <1>1, <1>3, <2>3
<1>4. CASE wav = "writing" /\ wav' = "open" /\ nr_samples' = nr_samples + 1
  <2>1. at' = IF nr_samples' < Limit THEN "run" ELSE "sample"
    BY <1>1, <1>4 DEF Returns, Ended
  <2>2. at' = "run" => nr_samples' = base' + clocks' \div Period
    BY <1>1, <1>2, <1>4, <2>1
  <2>3. at' = "sample" => nr_samples' >= Limit
    BY <1>2, <1>4, <2>1
  <2> QED BY <1>1, <1>2, <1>4, <2>2, <2>3
<1> QED BY <1>1, <1>3, <1>4, FrameCounted

LEMMA PaceStep == PaceInv /\ [PlayerNext]_<<playerVars, vars>> => PaceInv'
<1> SUFFICES ASSUME PaceInv, [PlayerNext]_<<playerVars, vars>> PROVE PaceInv'
  OBVIOUS
<1> USE DEF PaceInv, Pacing, SamplesPaceClock
<1>1. CASE Open
  BY <1>1 DEF Open, FileFails, runVars, vars, wavVars
<1>2. ASSUME NEW k \in 1 .. Parts - got, Read(k) PROVE PaceInv'
  BY <1>2 DEF Read, Filled, runVars, vars, wavVars
<1>3. CASE ReadFails
  BY <1>3 DEF ReadFails, FileFails, runVars, vars, wavVars
<1>4. CASE setup_spc700
  <2>1. /\ at' = "run" /\ phase' = 0 /\ clocks' = 0
        /\ base' = nr_samples /\ nr_samples' = nr_samples
    BY <1>4 DEF setup_spc700, vars, wavVars
  <2> QED BY <2>1, ClockStart, PlayerAssumption
<1>5. CASE MainReturns
  BY <1>5 DEF MainReturns, Halt, Goes, runVars
<1>6. CASE Retire
  BY <1>6, RetireKeepsPace
<1>7. CASE Output
  BY <1>7, OutputKeepsPace
<1>8. CASE HaltInsn
  BY <1>8 DEF HaltInsn, runVars, vars, wavVars
<1>9. CASE BadDspAddr
  BY <1>9 DEF BadDspAddr, Goes, runVars
<1>10. CASE UNCHANGED <<playerVars, vars>>
  BY <1>10 DEF playerVars, runVars, vars, wavVars
<1> QED
  BY <1>1, <1>2, <1>3, <1>4, <1>5, <1>6, <1>7, <1>8, <1>9, <1>10 DEF PlayerNext, Proceed

\* spc700_run_forever, _apu_update_clocks and _dsp_run32: a sample is accepted for
\* every 32 cycles of the file that runs, and none between.
THEOREM SamplesInStep == PlayerSpec => []SamplesPaceClock
<1>1. PaceInv => SamplesPaceClock
  BY DEF PaceInv
<1> QED BY PaceInit, PaceStep, <1>1, PTL DEF PlayerSpec

-----------------------------------------------------------------------------
(* The writer underneath                                                   *)

\* The theorems about the writer, for the writer that Wav uses.
WriterProofs == INSTANCE BufWrProofs WITH
  Lens <- {Hdr, Frame}, MaxCalls <- Limit + 3, Leaks <- FALSE

\* What the player may do to its writer.
WriterActs ==
  \/ \E len \in {Hdr, Frame} : Writer!bufwr_write(len)
  \/ Writer!bufwr_flush \/ Writer!bufwr__close \/ Writer!CloseFd
  \/ \E k \in 1 .. Len(todo) : Writer!SysWrites(k)
  \/ Writer!SysZero \/ Writer!SysError

\* BufWr's assumptions hold of it.
LEMMA WriterAssumptions ==
  /\ Max \in Nat \ {0} /\ {Hdr, Frame} \subseteq Nat
  /\ Limit + 3 \in Nat /\ FALSE \in BOOLEAN
BY BufferAssumption, HdrAssumption, LimitAssumption

LEMMA WriterStarts == Writer!Init => WriterProofs!IInv
<1>1. Writer!Init => WriterProofs!Init
  BY DEF Writer!Init, WriterProofs!Init
<1> QED BY <1>1, WriterProofs!InvInit, WriterAssumptions

\* The player's writer is the one that BufWrProofs is about.
LEMMA WriterIsProved == WriterActs => WriterProofs!Next
<1>1. \A len \in {Hdr, Frame} : Writer!bufwr_write(len) => WriterProofs!bufwr_write(len)
  BY DEF Writer!bufwr_write, WriterProofs!bufwr_write, Writer!Call, WriterProofs!Call,
         Writer!WriteLarge, WriterProofs!WriteLarge, Writer!WriteFill, WriterProofs!WriteFill,
         Writer!WriteFits, WriterProofs!WriteFits, Writer!Large, WriterProofs!Large,
         Writer!Space, WriterProofs!Space, Writer!Run, WriterProofs!Run,
         Writer!Enter, WriterProofs!Enter, Writer!Return, WriterProofs!Return
<1>2. Writer!bufwr_flush => WriterProofs!bufwr_flush
  BY DEF Writer!bufwr_flush, WriterProofs!bufwr_flush, Writer!Call, WriterProofs!Call,
         Writer!Enter, WriterProofs!Enter, Writer!Return, WriterProofs!Return
<1>3. Writer!bufwr__close => WriterProofs!bufwr__close
  BY DEF Writer!bufwr__close, WriterProofs!bufwr__close, Writer!Call, WriterProofs!Call,
         Writer!Enter, WriterProofs!Enter
<1>4. Writer!CloseFd => WriterProofs!CloseFd
  BY DEF Writer!CloseFd, WriterProofs!CloseFd
<1>5. \A k \in 1 .. Len(todo) : Writer!SysWrites(k) => WriterProofs!SysWrites(k)
  BY DEF Writer!SysWrites, WriterProofs!SysWrites, Writer!Drop, WriterProofs!Drop,
         Writer!Succeeds, WriterProofs!Succeeds,
         Writer!Enter, WriterProofs!Enter, Writer!Return, WriterProofs!Return
<1>6. Writer!SysZero => WriterProofs!SysZero
  BY DEF Writer!SysZero, WriterProofs!SysZero, Writer!Fails, WriterProofs!Fails,
         Writer!Return, WriterProofs!Return
<1>7. Writer!SysError => WriterProofs!SysError
  BY DEF Writer!SysError, WriterProofs!SysError, Writer!Fails, WriterProofs!Fails,
         Writer!Return, WriterProofs!Return
<1> QED BY <1>1, <1>2, <1>3, <1>4, <1>5, <1>6, <1>7 DEF WriterActs, WriterProofs!Next

LEMMA WriterSteps == WriterProofs!IInv /\ WriterActs => WriterProofs!IInv'
BY WriterIsProved, WriterProofs!InvStep, WriterAssumptions

-----------------------------------------------------------------------------
(* Where the writer is at each stage of the file                           *)

\* The file's own bytes: pwrite(2) put the corrected header where it belongs.
Corrected == \A k \in HeaderAt : head[k] = k

\* The stages at which the header is corrected, and those after the last frame.
HeaderDone == {"fixed", "closing", "exit"}
FramesDone == {"flushing", "fixing"} \cup HeaderDone

\* At each stage _dsp_run32 is in a call of its own, and after a flush that
\* succeeded the buffer is empty: no later write(2) can reach the header.
Stages ==
  /\ fd \in {"open", "closed"} /\ (fd = "closed" <=> pc = "done")
  /\ wav = "null" => pc = "idle"
  /\ wav \in {"open", "writing"} =>
       pc = "idle" \/ (pc = "write" /\ op \in {"large", "rest", "fill"})
  /\ wav = "flushing" =>
       \/ pc = "write" /\ op = "flush" /\ arg = <<>>
       \/ pc = "idle" /\ (failed \/ buf = <<>>)
  /\ wav \in {"fixing", "fixed"} => pc = "idle" /\ buf = <<>>
  /\ wav = "fixing" => cur_off = 0 /\ remains = Hdr
  /\ wav = "closing" => pc \in {"close", "done"}
  /\ wav = "exit" => pc = "done" /\ ~failed
  /\ wav \in HeaderDone => Corrected

\* What has been offered to the writer is the header and the frames.
Counts ==
  /\ nr_samples \in 0 .. Limit
  /\ wav = "null" => next = 0 /\ nr_samples = 0
  /\ wav = "open" => next = Hdr + nr_samples * Frame
  /\ wav = "writing" => nr_samples < Limit /\ next = Hdr + nr_samples * Frame + Frame
  /\ wav \in FramesDone => nr_samples = Limit /\ next = Hdr + nr_samples * Frame

WavInv == WriterProofs!IInv /\ Stages /\ Counts

\* Outside _dsp_run32 the file is open for another frame, or not there yet.
AtInv == at \notin {"sample", "over"} => wav \in {"null", "open"} /\ nr_samples < Limit

RefineInv == WavInv /\ AtInv

\* The file that exit(0) leaves is whole.
LEMMA ExitWhole ==
  ASSUME WavInv, wav = "exit"
  PROVE  /\ fd = "closed" /\ ~failed /\ Corrected
         /\ file = Writer!Run(1, Hdr + nr_samples * Frame)
<1>1. pc = "done" /\ ~failed /\ fd = "closed" /\ Corrected /\ next = Hdr + nr_samples * Frame
  BY DEF WavInv, Stages, Counts, HeaderDone, FramesDone
<1>2. file \in Seq(Nat) /\ file \o <<>> = WriterProofs!Run(1, next)
  BY <1>1 DEF WavInv, WriterProofs!IInv, WriterProofs!TypeOK,
     WriterProofs!NothingLost, WriterProofs!Pending
<1>3. file \o <<>> = file
  BY <1>2, ConcatEmptySeq
<1>4. WriterProofs!Run(1, next) = Writer!Run(1, next)
  BY DEF WriterProofs!Run, Writer!Run
<1> QED BY <1>1, <1>2, <1>3, <1>4

\* One step of write(2) or close(2), stage by stage.
LEMMA WriterStepStages ==
  ASSUME WavInv, WriterStep
  PROVE  WavInv' /\ UNCHANGED <<wav, nr_samples>> /\ wav # "exit"
<1>1. /\ UNCHANGED <<wav, nr_samples, cur_off, remains>>
      /\ head' = [k \in HeaderAt |-> IF k \in Len(file) .. Len(file') - 1 THEN -1 ELSE head[k]]
  BY DEF WriterStep
<1>2. CASE \E k \in 1 .. Len(todo) : Writer!SysWrites(k)
  <2>1. PICK k \in 1 .. Len(todo) : Writer!SysWrites(k)
    BY <1>2
  <2>2. pc = "write" /\ UNCHANGED <<fd, next>>
    BY <2>1 DEF Writer!SysWrites
  <2>3. \/ UNCHANGED <<buf, pc, op, arg, failed>>
        \/ /\ op = "large" /\ pc' = "write" /\ op' = "rest"
        \/ /\ op \notin {"large", "close"} /\ pc' = "idle" /\ buf' = arg
        \/ /\ op = "close" /\ pc' = "close"
    BY <2>1 DEF Writer!SysWrites, Writer!Succeeds, Writer!Enter, Writer!Return
  <2>4. wav \notin {"null", "fixing", "exit"} \cup HeaderDone
    BY <2>2 DEF WavInv, Stages, HeaderDone
  <2>5. Stages'
    BY <1>1, <2>2, <2>3, <2>4 DEF WavInv, Stages, HeaderDone
  <2>6. Counts'
    BY <1>1, <2>2 DEF WavInv, Counts
  <2>7. WriterProofs!IInv'
    BY <1>2, WriterSteps DEF WavInv, WriterActs
  <2> QED BY <1>1, <2>4, <2>5, <2>6, <2>7 DEF WavInv
<1>3. CASE Writer!SysZero \/ Writer!SysError
  <2>1. pc = "write" /\ UNCHANGED <<fd, next>> /\ Writer!Fails
    BY <1>3 DEF Writer!SysZero, Writer!SysError
  <2>2. \/ op # "close" /\ pc' = "idle" /\ failed'
        \/ op = "close" /\ pc' = "close"
    BY <2>1 DEF Writer!Fails, Writer!Return
  <2>3. wav \notin {"null", "fixing", "exit"} \cup HeaderDone
    BY <2>1 DEF WavInv, Stages, HeaderDone
  <2>4. Stages'
    BY <1>1, <2>1, <2>2, <2>3 DEF WavInv, Stages, HeaderDone
  <2>5. Counts'
    BY <1>1, <2>1 DEF WavInv, Counts
  <2>6. WriterProofs!IInv'
    BY <1>3, WriterSteps DEF WavInv, WriterActs
  <2> QED BY <1>1, <2>3, <2>4, <2>5, <2>6 DEF WavInv
<1>4. CASE Writer!CloseFd
  <2>1. /\ pc = "close" /\ pc' = "done" /\ UNCHANGED <<buf, op, arg, file, next>>
        /\ fd \in {"open", "closed"} => fd' = "closed"
    BY <1>4 DEF Writer!CloseFd
  <2>2. wav \notin {"null", "open", "writing", "flushing", "fixing", "fixed", "exit"}
    BY <2>1 DEF WavInv, Stages
  <2>3. Corrected => Corrected'
    <3>1. Len(file) \in Nat
      BY LenProperties DEF WavInv, WriterProofs!IInv, WriterProofs!TypeOK
    <3>2. \A k \in HeaderAt : k \notin Len(file) .. Len(file') - 1
      BY <2>1, <3>1
    <3> QED BY <1>1, <3>2 DEF Corrected
  <2>4. Stages'
    BY <1>1, <2>1, <2>2, <2>3 DEF WavInv, Stages, HeaderDone
  <2>5. Counts'
    BY <1>1, <2>1 DEF WavInv, Counts
  <2>6. WriterProofs!IInv'
    BY <1>4, WriterSteps DEF WavInv, WriterActs
  <2> QED BY <1>1, <2>2, <2>4, <2>5, <2>6 DEF WavInv
<1> QED BY <1>2, <1>3, <1>4 DEF WriterStep

-----------------------------------------------------------------------------
(* The other steps of _dsp_run32                                           *)

\* What Out's step sees of a step: the stage before and after, and the frames.
Moves ==
  \/ wav = "null" /\ wav' = "open" /\ nr_samples' = nr_samples
  \/ wav = "writing" /\ wav' = "open" /\ nr_samples' = nr_samples + 1
  \/ wav = "closing" /\ wav' = "exit" /\ nr_samples' = nr_samples
  \/ wav \notin Ended /\ wav' \in {"aborted", "dangling"} /\ nr_samples' = nr_samples
  \/ /\ wav \notin Ended \cup {"null"} /\ wav' \notin Ended \cup {"null"}
     /\ nr_samples' = nr_samples
  \/ wav' = wav /\ wav # "exit" /\ nr_samples' = nr_samples

\* A call of bufwr_write offers bytes and returns, or waits inside fd_write.
LEMMA WriteCall ==
  ASSUME WavInv, NEW len \in {Hdr, Frame}, Writer!bufwr_write(len)
  PROVE  /\ WriterProofs!IInv' /\ fd' = fd /\ next' = next + len /\ pc = "idle"
         /\ pc' = "idle" \/ (pc' = "write" /\ op' \in {"large", "rest", "fill"})
<1>1. WriterProofs!IInv'
  BY WriterSteps DEF WavInv, WriterActs
<1>2. /\ fd' = fd /\ next' = next + len /\ pc = "idle"
      /\ Writer!WriteLarge(len) \/ Writer!WriteFill(len) \/ Writer!WriteFits(len)
  BY DEF Writer!bufwr_write, Writer!Call
<1>3. pc' = "idle" \/ (pc' = "write" /\ op' \in {"large", "rest", "fill"})
  BY <1>2 DEF Writer!WriteLarge, Writer!WriteFill, Writer!WriteFits,
     Writer!Enter, Writer!Return
<1> QED BY <1>1, <1>2, <1>3

\* When only the stage changes the writer's invariant stays.
LEMMA WriterUntouched ==
  ASSUME WavInv, UNCHANGED bufVars
  PROVE  WriterProofs!IInv'
BY WriterProofs!InvStep, WriterAssumptions DEF WavInv, bufVars, WriterProofs!vars

LEMMA CreateStages ==
  ASSUME WavInv, wav_create
  PROVE  WavInv' /\ Moves
<1>1. wav = "null" /\ wav' = "open" /\ nr_samples' = nr_samples /\ Writer!bufwr_write(Hdr)
  BY DEF wav_create, Goes
<1>2. /\ WriterProofs!IInv' /\ fd' = fd /\ next' = next + Hdr /\ pc = "idle"
      /\ pc' = "idle" \/ (pc' = "write" /\ op' \in {"large", "rest", "fill"})
  BY <1>1, WriteCall
<1>3. Stages'
  BY <1>1, <1>2 DEF WavInv, Stages, HeaderDone
<1>4. Counts'
  BY <1>1, <1>2, HdrAssumption DEF WavInv, Counts, FramesDone, HeaderDone
<1> QED BY <1>1, <1>2, <1>3, <1>4 DEF WavInv, Moves

LEMMA WriteStages ==
  ASSUME WavInv, wav_write_samples16
  PROVE  WavInv' /\ Moves
<1>1. /\ wav = "open" /\ wav' = "writing" /\ nr_samples' = nr_samples /\ nr_samples < Limit
      /\ Writer!bufwr_write(Frame)
  BY DEF wav_write_samples16, Goes
<1>2. /\ WriterProofs!IInv' /\ fd' = fd /\ next' = next + Frame /\ pc = "idle"
      /\ pc' = "idle" \/ (pc' = "write" /\ op' \in {"large", "rest", "fill"})
  BY <1>1, WriteCall
<1>3. Stages'
  BY <1>1, <1>2 DEF WavInv, Stages, HeaderDone
<1>4. Counts'
  BY <1>1, <1>2 DEF WavInv, Counts, FramesDone, HeaderDone
<1> QED BY <1>1, <1>2, <1>3, <1>4 DEF WavInv, Moves, Ended

\* The frame that bufwr_write was given is counted.
LEMMA WrittenStages ==
  ASSUME WavInv, Written
  PROVE  WavInv' /\ Moves
<1>1. wav = "writing" /\ pc = "idle" /\ UNCHANGED bufVars /\ WriterProofs!IInv'
  BY WriterUntouched DEF Written
<1>2. UNCHANGED <<fd, buf, pc, op, arg, next, failed>>
  BY <1>1 DEF bufVars
<1>3. CASE failed
  <2>1. wav' = "aborted" /\ nr_samples' = nr_samples
    BY <1>3 DEF Written, Goes
  <2>2. Stages' /\ Counts'
    BY <1>1, <1>2, <2>1 DEF WavInv, Stages, Counts, FramesDone, HeaderDone
  <2> QED BY <1>1, <2>1, <2>2 DEF WavInv, Moves, Ended
<1>4. CASE ~failed
  <2>1. wav' = "open" /\ nr_samples' = nr_samples + 1
    BY <1>4 DEF Written
  <2>2. Stages'
    BY <1>1, <1>2, <2>1 DEF WavInv, Stages, HeaderDone
  <2>3. nr_samples \in Nat /\ nr_samples < Limit /\ Limit \in Nat
        /\ next' = Hdr + nr_samples * Frame + Frame
    BY <1>1, <1>2, LimitAssumption DEF WavInv, Counts
  <2>4. Hdr + nr_samples * Frame + Frame = Hdr + (nr_samples + 1) * Frame
    BY <2>3, HdrAssumption
  <2>5. Counts'
    BY <2>1, <2>3, <2>4 DEF Counts, FramesDone, HeaderDone
  <2> QED BY <1>1, <2>1, <2>2, <2>5 DEF WavInv, Moves
<1> QED BY <1>3, <1>4

LEMMA FlushStages ==
  ASSUME WavInv, Flush
  PROVE  WavInv' /\ Moves
<1>1. /\ wav = "open" /\ wav' = "flushing" /\ nr_samples' = nr_samples /\ nr_samples >= Limit
      /\ Writer!bufwr_flush
  BY DEF Flush, Goes
<1>2. /\ UNCHANGED <<fd, next>> /\ pc = "idle"
      /\ \/ pc' = "idle" /\ buf' = <<>>
         \/ pc' = "write" /\ op' = "flush" /\ arg' = <<>>
  BY <1>1 DEF Writer!bufwr_flush, Writer!Call, Writer!Return, Writer!Enter
<1>3. WriterProofs!IInv'
  BY <1>1, WriterSteps DEF WavInv, WriterActs
<1>4. Stages'
  BY <1>1, <1>2 DEF WavInv, Stages, HeaderDone
<1>5. Counts'
  BY <1>1, <1>2, LimitAssumption DEF WavInv, Counts, FramesDone, HeaderDone
<1> QED BY <1>1, <1>3, <1>4, <1>5 DEF WavInv, Moves, Ended

\* The header is put over the first bytes of a file that nobody will write to again.
LEMMA PwriteStages ==
  ASSUME WavInv, ~ShortPwrites, NEW k \in PwriteCounts, Pwrite(k)
  PROVE  WavInv' /\ Moves
<1>1. /\ wav = "fixing" /\ cur_off = 0 /\ remains = Hdr /\ k = remains
      /\ wav' = "fixed" /\ nr_samples' = nr_samples /\ UNCHANGED bufVars
      /\ head' = [n \in HeaderAt |-> IF n \in cur_off .. cur_off + k - 1
                                     THEN From(cur_off) + (n - cur_off) ELSE head[n]]
  BY DEF Pwrite, PwriteCounts, WavInv, Stages
<1>2. Corrected'
  BY <1>1, HdrAssumption DEF Corrected, HeaderAt, From
<1>3. UNCHANGED <<fd, buf, pc, op, arg, next, failed>>
  BY <1>1 DEF bufVars
<1>4. Stages'
  BY <1>1, <1>2, <1>3 DEF WavInv, Stages, HeaderDone
<1>5. Counts'
  BY <1>1, <1>3 DEF WavInv, Counts, FramesDone, HeaderDone
<1> QED BY <1>1, <1>4, <1>5, WriterUntouched DEF WavInv, Moves, Ended

LEMMA CloseStages ==
  ASSUME WavInv, Close
  PROVE  WavInv' /\ Moves
<1>1. /\ wav = "fixed" /\ wav' = "closing" /\ nr_samples' = nr_samples /\ head' = head
      /\ Writer!bufwr__close /\ buf = <<>>
  BY DEF Close, Goes, WavInv, Stages
<1>2. UNCHANGED <<fd, next>> /\ pc = "idle" /\ pc' = "close"
  BY <1>1 DEF Writer!bufwr__close, Writer!Call
<1>3. WriterProofs!IInv'
  BY <1>1, WriterSteps DEF WavInv, WriterActs
<1>4. Stages'
  BY <1>1, <1>2 DEF WavInv, Stages, HeaderDone, Corrected
<1>5. Counts'
  BY <1>1, <1>2 DEF WavInv, Counts, FramesDone, HeaderDone
<1> QED BY <1>1, <1>3, <1>4, <1>5 DEF WavInv, Moves, Ended

\* The steps that only decide where to go next.
LEMMA DecisionStages ==
  ASSUME WavInv, CreateFails \/ FlushFailed \/ rewrite_hdr \/ PwriteFails \/ Closed
  PROVE  WavInv' /\ Moves
<1>1. UNCHANGED bufVars /\ UNCHANGED <<nr_samples, head>>
  BY DEF CreateFails, FlushFailed, rewrite_hdr, PwriteFails, Closed, Goes
<1>2. UNCHANGED <<fd, buf, pc, op, arg, next, failed>> /\ WriterProofs!IInv'
  BY <1>1, WriterUntouched DEF bufVars
<1>3. CASE CreateFails \/ FlushFailed \/ PwriteFails
  <2>1. wav \in {"null", "flushing", "fixing"} /\ wav' \in {"dangling", "aborted"}
    BY <1>3 DEF CreateFails, FlushFailed, PwriteFails, Goes
  <2>2. Stages' /\ Counts'
    BY <1>1, <1>2, <2>1 DEF WavInv, Stages, Counts, FramesDone, HeaderDone
  <2> QED BY <1>1, <1>2, <2>1, <2>2 DEF WavInv, Moves, Ended
<1>4. CASE rewrite_hdr
  <2>1. /\ wav = "flushing" /\ pc = "idle" /\ ~failed
        /\ wav' = "fixing" /\ cur_off' = 0 /\ remains' = Hdr
    BY <1>4 DEF rewrite_hdr
  <2>2. Stages' /\ Counts'
    BY <1>1, <1>2, <2>1 DEF WavInv, Stages, Counts, FramesDone, HeaderDone
  <2> QED BY <1>1, <1>2, <2>1, <2>2 DEF WavInv, Moves, Ended
<1>5. CASE Closed
  <2>1. wav = "closing" /\ pc = "done" /\ wav' = IF failed THEN "aborted" ELSE "exit"
    BY <1>5 DEF Closed, Goes
  <2>2. Corrected /\ Corrected'
    BY <1>1, <2>1 DEF WavInv, Stages, HeaderDone, Corrected
  <2>3. Stages' /\ Counts'
    BY <1>1, <1>2, <2>1, <2>2 DEF WavInv, Stages, Counts, FramesDone, HeaderDone
  <2> QED BY <1>1, <1>2, <2>1, <2>3 DEF WavInv, Moves, Ended
<1> QED BY <1>3, <1>4, <1>5

LEMMA OutputStages ==
  ASSUME WavInv, ~ShortPwrites, OutputStep
  PROVE  WavInv' /\ Moves
<1>1. CASE WriterStep
  BY <1>1, WriterStepStages DEF Moves
<1>2. CASE \E k \in PwriteCounts : Pwrite(k)
  BY <1>2, PwriteStages
<1> QED
  BY <1>1, <1>2, CreateStages, WriteStages, WrittenStages, FlushStages, CloseStages,
     DecisionStages DEF OutputStep

-----------------------------------------------------------------------------
(* The refinement                                                          *)

\* The file is whole for Out exactly when the program has exited.
Whole == OutWhole = (wav = "exit")

LEMMA WholeAtExit == WavInv => Whole
BY ExitWhole DEF Whole, OutWhole, Corrected

OutSteps == [Out!Next]_<<OutState, nr_samples, OutWhole>>

\* What Moves lists are steps of OutWav, or none.
LEMMA MovesMap ==
  ASSUME WavInv, Whole, Whole', Moves
  PROVE  OutSteps
<1>1. OutWhole = (wav = "exit") /\ OutWhole' = (wav' = "exit")
  BY DEF Whole
<1>2. CASE wav = "null" /\ wav' = "open" /\ nr_samples' = nr_samples
  <2>1. Out!Create
    BY <1>1, <1>2 DEF Out!Create, OutState
  <2> QED BY <2>1 DEF OutSteps, Out!Next
<1>3. CASE wav = "writing" /\ wav' = "open" /\ nr_samples' = nr_samples + 1
  <2>1. nr_samples < Limit
    BY <1>3 DEF WavInv, Counts
  <2>2. Out!Accept
    BY <1>1, <1>3, <2>1 DEF Out!Accept, OutState
  <2> QED BY <2>2 DEF OutSteps, Out!Next
<1>4. CASE wav = "closing" /\ wav' = "exit" /\ nr_samples' = nr_samples
  <2>1. nr_samples = Limit
    BY <1>4 DEF WavInv, Counts, FramesDone, HeaderDone
  <2>2. Out!Finish
    BY <1>1, <1>4, <2>1 DEF Out!Finish, OutState
  <2> QED BY <2>2 DEF OutSteps, Out!Next
<1>5. CASE wav \notin Ended /\ wav' \in {"aborted", "dangling"} /\ nr_samples' = nr_samples
  <2>1. Out!Fail
    BY <1>1, <1>5 DEF Out!Fail, OutState, Ended
  <2> QED BY <2>1 DEF OutSteps, Out!Next
<1>6. CASE /\ wav \notin Ended \cup {"null"} /\ wav' \notin Ended \cup {"null"}
           /\ nr_samples' = nr_samples
  BY <1>1, <1>6 DEF OutSteps, OutState, Ended
<1>7. CASE wav' = wav /\ wav # "exit" /\ nr_samples' = nr_samples
  BY <1>1, <1>7 DEF OutSteps, OutState
<1> QED BY <1>2, <1>3, <1>4, <1>5, <1>6, <1>7 DEF Moves

LEMMA RefineInit == PlayerInit => RefineInv /\ Out!Init
<1> SUFFICES ASSUME PlayerInit PROVE RefineInv /\ Out!Init
  OBVIOUS
<1>1. /\ at = "next" /\ wav = "null" /\ nr_samples = 0 /\ Writer!Init
  BY DEF PlayerInit, Init
<1>2. fd = "open" /\ pc = "idle" /\ next = 0
  BY <1>1 DEF Writer!Init
<1>3. WriterProofs!IInv
  BY <1>1, WriterStarts
<1>4. Stages /\ Counts
  BY <1>1, <1>2, LimitAssumption DEF Stages, Counts, FramesDone, HeaderDone
<1>5. AtInv
  BY <1>1, LimitAssumption, PlayerAssumption DEF AtInv
<1>6. Out!Init
  BY <1>1 DEF Out!Init, OutState, OutWhole
<1> QED BY <1>3, <1>4, <1>5, <1>6 DEF RefineInv, WavInv

\* Steps that leave the file alone, or only end the process.
LEMMA FileUntouched ==
  ASSUME WavInv, UNCHANGED vars
  PROVE  WavInv' /\ UNCHANGED <<wav, nr_samples>>
<1>1. UNCHANGED bufVars /\ UNCHANGED <<wav, nr_samples, head, cur_off, remains>>
  BY DEF vars, wavVars
<1>2. UNCHANGED <<fd, buf, pc, op, arg, next, failed>>
  BY <1>1 DEF bufVars
<1>3. Stages' /\ Counts'
  BY <1>1, <1>2 DEF WavInv, Stages, Counts, FramesDone, HeaderDone, Corrected
<1> QED BY <1>1, <1>3, WriterUntouched DEF WavInv

LEMMA EndUntouched ==
  ASSUME WavInv, wav \in {"null", "open"}, NEW to \in {"quit", "aborted"}, Goes(to),
         UNCHANGED bufVars
  PROVE  WavInv'
<1>1. wav' = to /\ UNCHANGED <<nr_samples, head, fd, buf, pc, op, arg, next, failed>>
  BY DEF Goes, bufVars
<1>2. Stages' /\ Counts'
  BY <1>1 DEF WavInv, Stages, Counts, FramesDone, HeaderDone, Corrected
<1> QED BY <1>2, WriterUntouched DEF WavInv

LEMMA RefineStep ==
  ASSUME ~ShortPwrites
  PROVE  RefineInv /\ [PlayerNext]_<<playerVars, vars>> => RefineInv'
<1> SUFFICES ASSUME RefineInv, [PlayerNext]_<<playerVars, vars>> PROVE RefineInv'
  OBVIOUS
<1>1. CASE UNCHANGED vars /\ at' \notin {"sample", "over"} /\ at \notin {"sample", "over"}
  BY <1>1, FileUntouched DEF RefineInv, AtInv
<1>2. CASE UNCHANGED vars /\ (at' \in {"sample", "over"} \/ at' = at)
  BY <1>2, FileUntouched DEF RefineInv, AtInv
<1>3. CASE MainReturns \/ BadDspAddr
  <2>1. /\ wav \in {"null", "open"} /\ at' = "over"
        /\ Goes("quit") \/ Goes("aborted")
        /\ UNCHANGED bufVars
    BY <1>3 DEF MainReturns, Halt, BadDspAddr, RefineInv, AtInv
  <2> QED BY <2>1, EndUntouched DEF RefineInv, AtInv
<1>4. CASE Output
  <2>1. WavInv' /\ at = "sample"
        /\ at' = CASE wav' \in Ended -> "over" [] Returns -> "run" [] OTHER -> "sample"
    BY <1>4, OutputStages DEF Output, RefineInv
  <2>2. AtInv'
    <3>1. at' \in {"over", "sample"} \/ Returns
      BY <2>1
    <3> QED BY <3>1 DEF AtInv, Returns
  <2> QED BY <2>1, <2>2 DEF RefineInv
<1>5. CASE Open \/ (\E k \in 1 .. Parts - got : Read(k)) \/ ReadFails \/ setup_spc700
  <2>1. UNCHANGED vars /\ at \notin {"sample", "over"} /\ at' \notin {"sample", "over"}
    BY <1>5 DEF Open, Read, ReadFails, setup_spc700, FileFails
  <2> QED BY <1>1, <2>1
<1>6. CASE HaltInsn \/ Retire
  <2>1. /\ UNCHANGED vars /\ at \notin {"sample", "over"}
        /\ at' \in {"next", "run", "sample"}
    BY <1>6 DEF HaltInsn, Retire
  <2> QED BY <1>1, <1>2, <2>1
<1>7. CASE UNCHANGED <<playerVars, vars>>
  BY <1>2, <1>7 DEF playerVars
<1> QED BY <1>3, <1>4, <1>5, <1>6, <1>7 DEF PlayerNext, Proceed

LEMMA RefineMaps ==
  ASSUME ~ShortPwrites
  PROVE  RefineInv /\ Whole /\ Whole' /\ [PlayerNext]_<<playerVars, vars>> => OutSteps
<1> SUFFICES ASSUME RefineInv, Whole, Whole', [PlayerNext]_<<playerVars, vars>>
             PROVE  OutSteps
  OBVIOUS
<1>1. CASE UNCHANGED vars
  <2>1. UNCHANGED <<wav, nr_samples>>
    BY <1>1 DEF vars, wavVars
  <2> QED BY <2>1 DEF OutSteps, OutState, Whole
<1>2. CASE MainReturns \/ BadDspAddr
  <2>1. /\ wav \in {"null", "open"} /\ nr_samples < Limit /\ nr_samples' = nr_samples
        /\ wav' \in {"quit", "aborted"}
    BY <1>2 DEF MainReturns, Halt, BadDspAddr, Goes, RefineInv, AtInv
  <2>2. OutWhole = FALSE /\ OutWhole' = FALSE
    BY <2>1 DEF Whole
  <2>3. Out!Quit \/ Out!Fail
    BY <2>1, <2>2 DEF Out!Quit, Out!Fail, OutState
  <2> QED BY <2>3 DEF OutSteps, Out!Next
<1>3. CASE Output
  <2>1. Moves
    BY <1>3, OutputStages DEF Output, RefineInv
  <2> QED BY <2>1, MovesMap DEF RefineInv
<1> QED
  BY <1>1, <1>2, <1>3 DEF PlayerNext, Proceed, Open, Read, ReadFails, setup_spc700, Retire, HaltInsn

\* _dsp_run32, wav.c, bufwr.c and fd.c: unless pwrite(2) is short, the player implements
\* OutWav. Each accepted frame is in the file, in order, under a corrected header, when
\* the program exits; and nothing else claims that the file is finished.
THEOREM Implements ==
  ASSUME ~ShortPwrites
  PROVE  PlayerSpec => ImplementsOutWav
<1>1. RefineInv => WavInv
  BY DEF RefineInv
<1> QED
  BY <1>1, RefineInit, RefineStep, RefineMaps, WholeAtExit, PTL
  DEF PlayerSpec, ImplementsOutWav, Out!Spec, OutSteps

-----------------------------------------------------------------------------
(* Failures                                                                *)

FailInv == WriterProofs!IInv /\ WriterProofs!Asking

\* The player's steps are the writer's or leave the writer alone.
LEMMA PlayerWrites == [PlayerNext]_<<playerVars, vars>> => WriterActs \/ UNCHANGED bufVars
<1> SUFFICES ASSUME [PlayerNext]_<<playerVars, vars>> PROVE WriterActs \/ UNCHANGED bufVars
  OBVIOUS
<1>1. CASE UNCHANGED vars
  BY <1>1 DEF vars
<1>2. CASE MainReturns \/ BadDspAddr
  BY <1>2 DEF MainReturns, Halt, BadDspAddr
<1>3. CASE Output
  <2>1. CASE WriterStep
    BY <2>1 DEF WriterStep, WriterActs
  <2>2. CASE wav_create \/ wav_write_samples16 \/ Flush \/ Close
    BY <2>2 DEF wav_create, wav_write_samples16, Flush, Close, WriterActs
  <2>3. CASE \E k \in PwriteCounts : Pwrite(k)
    BY <2>3 DEF Pwrite
  <2>4. CASE CreateFails \/ Written \/ FlushFailed \/ rewrite_hdr \/ PwriteFails \/ Closed
    BY <2>4 DEF CreateFails, Written, FlushFailed, rewrite_hdr, PwriteFails, Closed
  <2> QED BY <1>3, <2>1, <2>2, <2>3, <2>4 DEF Output, OutputStep
<1> QED
  BY <1>1, <1>2, <1>3 DEF PlayerNext, Proceed, Open, Read, ReadFails, setup_spc700, Retire, HaltInsn

\* wav.c and _dsp_run32: the header and the frames are too short to be mistaken, so that a
\* call of the writer fails only when a system call did.
THEOREM OnlyOsFails ==
  ASSUME Hdr < 2 * Max, Frame < 2 * Max
  PROVE  PlayerSpec => []OnlyOsErrorsFail
<1>1. WriterProofs!SmallWrites
  BY HdrAssumption DEF WriterProofs!SmallWrites
<1>2. PlayerInit => FailInv
  <2>1. Writer!Init => WriterProofs!Init
    BY DEF Writer!Init, WriterProofs!Init
  <2> QED BY <2>1, WriterStarts, WriterProofs!AskInit, WriterAssumptions
          DEF PlayerInit, Init, FailInv
<1>3. FailInv /\ [PlayerNext]_<<playerVars, vars>> => FailInv'
  <2> SUFFICES ASSUME FailInv, [PlayerNext]_<<playerVars, vars>> PROVE FailInv'
    OBVIOUS
  <2>1. CASE WriterActs
    BY <1>1, <2>1, WriterIsProved, WriterSteps, WriterProofs!AskStep, WriterAssumptions DEF FailInv
  <2>2. CASE UNCHANGED bufVars
    <3>1. UNCHANGED WriterProofs!vars
      BY <2>2 DEF bufVars, WriterProofs!vars
    <3> QED BY <1>1, <3>1, WriterProofs!InvStep, WriterProofs!AskStep, WriterAssumptions
            DEF FailInv
  <2> QED BY <2>1, <2>2, PlayerWrites
<1>4. FailInv => OnlyOsErrorsFail
  BY DEF FailInv, WriterProofs!Asking, OnlyOsErrorsFail
<1> QED BY <1>2, <1>3, <1>4, PTL DEF PlayerSpec
=============================================================================
