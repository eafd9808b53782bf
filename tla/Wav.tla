-------------------------------- MODULE Wav ---------------------------------
(***************************************************************************)
(* out.wav: src/wav.c over the buffered writer, driven by _dsp_run32 of    *)
(* src/dsp.c, with fd_pwrite of src/fd.c one pwrite(2) at a time.  The     *)
(* descriptor, buffer and file are those of BufWr, whose actions are steps *)
(* of this module; `head' is what rewrite_hdr puts over the file's start.  *)
(***************************************************************************)
EXTENDS Integers, Sequences

CONSTANTS
  Max,          \* the buffer's size (8192 in the program)
  Hdr,          \* sizeof(hdr), 44 in the program
  Frame,        \* bytes of one stereo sample, 4 in the program
  Limit,        \* samples after which the program stops (32000 * SECONDS)
  ShortPwrites  \* whether pwrite(2) may write less than it is asked to

ASSUME BufferAssumption == Max \in Nat \ {0}
ASSUME HdrAssumption == Hdr \in Nat \ {0} /\ Frame \in Nat \ {0}
ASSUME LimitAssumption == Limit \in Nat /\ ShortPwrites \in BOOLEAN

VARIABLES fd, buf, corrupted, pc, op, todo, arg, file, next, calls, failed, osError

bufVars == <<fd, buf, corrupted, pc, op, todo, arg, file, next, calls, failed, osError>>

VARIABLES
  wav,         \* where _dsp_run32 is with its wav
  nr_samples,  \* samples accepted, both channels counted as one
  head,        \* head[i]: which byte of the corrected header is at offset i of
               \* the file; -1 is the byte wav_create put there
  cur_off,     \* fd_pwrite: where the next pwrite(2) goes
  remains      \* fd_pwrite: how many bytes are left

wavVars == <<wav, nr_samples, head, cur_off, remains>>
vars == <<bufVars, wavVars>>

\* The longest run opens, writes Limit frames, flushes and closes.
Writer == INSTANCE BufWr WITH Lens <- {Hdr, Frame}, MaxCalls <- Limit + 3, Leaks <- FALSE

HeaderAt == 0 .. Hdr - 1

Init ==
  /\ Writer!Init
  /\ wav = "null" /\ nr_samples = 0
  /\ head = [i \in HeaderAt |-> -1] /\ cur_off = 0 /\ remains = 0

-----------------------------------------------------------------------------
(* wav_create and wav_write_samples16                                      *)

Goes(to) == wav' = to /\ UNCHANGED <<nr_samples, head, cur_off, remains>>

\* The first frame creates the file.  The header fits the empty buffer.
wav_create == wav = "null" /\ Goes("open") /\ Writer!bufwr_write(Hdr)

\* open(2) or malloc fails: wav_create frees its struct and returns the pointer
\* to it all the same.  What follows is undefined and not modelled.
CreateFails == wav = "null" /\ Goes("dangling") /\ UNCHANGED bufVars

wav_write_samples16 ==
  /\ wav = "open" /\ nr_samples < Limit
  /\ Goes("writing")
  /\ Writer!bufwr_write(Frame)

\* bufwr_write is back: a failure ends the program, success counts the frame.
Written ==
  /\ wav = "writing" /\ pc = "idle"
  /\ IF failed THEN Goes("aborted")
     ELSE /\ wav' = "open" /\ nr_samples' = nr_samples + 1
          /\ UNCHANGED <<head, cur_off, remains>>
  /\ UNCHANGED bufVars

-----------------------------------------------------------------------------
(* _wav_close: flush && rewrite_hdr && close                               *)

Flush == wav = "open" /\ nr_samples >= Limit /\ Goes("flushing") /\ Writer!bufwr_flush

\* A failed flush frees the wav; _dsp_run32 aborts.
FlushFailed ==
  wav = "flushing" /\ pc = "idle" /\ failed /\ Goes("aborted") /\ UNCHANGED bufVars

rewrite_hdr ==
  /\ wav = "flushing" /\ pc = "idle" /\ ~failed
  /\ wav' = "fixing" /\ cur_off' = 0 /\ remains' = Hdr
  /\ UNCHANGED <<nr_samples, head, bufVars>>

\* pwrite(2) is always given buf, the start of the header, and cur_off.
From(off) == 0

\* pwrite(2) takes k bytes: all that remain, or fewer and fd_pwrite goes round.
Pwrite(k) ==
  /\ wav = "fixing"
  /\ head' = [i \in HeaderAt |-> IF i \in cur_off .. cur_off + k - 1
                                 THEN From(cur_off) + (i - cur_off) ELSE head[i]]
  /\ cur_off' = cur_off + k /\ remains' = remains - k
  /\ wav' = IF k = remains THEN "fixed" ELSE "fixing"
  /\ UNCHANGED <<nr_samples, bufVars>>

PwriteCounts == IF ShortPwrites THEN 1 .. remains ELSE {remains}

\* pwrite(2) fails or answers 0: the wav is freed and _dsp_run32 aborts.
PwriteFails == wav = "fixing" /\ Goes("aborted") /\ UNCHANGED bufVars

Close == wav = "fixed" /\ Goes("closing") /\ Writer!bufwr__close

\* Mutant: _dsp_run32 does not look at what wav_close answers.
ClosedAnyway == wav = "closing" /\ pc = "done" /\ Goes("exit") /\ UNCHANGED bufVars

\* exit(0), or abort() when bufwr__close reports a failure.
Closed ==
  /\ wav = "closing" /\ pc = "done"
  /\ Goes(IF failed THEN "aborted" ELSE "exit")
  /\ UNCHANGED bufVars

\* Every program halts and main returns: nothing flushes or closes the wav.
Halt == wav \in {"null", "open"} /\ Goes("quit") /\ UNCHANGED bufVars

\* A step inside fd_write or of bufwr__close.  write(2) appends at the descriptor's
\* own offset, which pwrite(2) does not move: it puts the header wav_create made
\* over a corrected one.
WriterStep ==
  /\ \/ \E k \in 1 .. Len(todo) : Writer!SysWrites(k)
     \/ Writer!SysZero \/ Writer!SysError \/ Writer!CloseFd
  /\ head' = [i \in HeaderAt |-> IF i \in Len(file) .. Len(file') - 1 THEN -1 ELSE head[i]]
  /\ UNCHANGED <<wav, nr_samples, cur_off, remains>>

Next ==
  \/ wav_create \/ CreateFails \/ wav_write_samples16 \/ Written
  \/ Flush \/ FlushFailed \/ rewrite_hdr
  \/ \E k \in PwriteCounts : Pwrite(k)
  \/ PwriteFails \/ Close \/ Closed \/ Halt \/ WriterStep

Spec == Init /\ [][Next]_vars

-----------------------------------------------------------------------------
(* Properties                                                              *)

Ended == {"exit", "aborted", "quit", "dangling"}

\* "We handle short writes" (src/fd.c:112-113): once fd_pwrite succeeds each byte
\* of the corrected header is in its own place.
HeaderInPlace == (wav \in {"fixed", "closing", "exit"}) => \A i \in HeaderAt : head[i] = i

OutState ==
  CASE wav = "null" -> "none"
    [] wav = "exit" -> "complete"
    [] wav = "quit" -> "quit"
    [] wav \in {"aborted", "dangling"} -> "failed"
    [] OTHER -> "open"

OutWhole ==
  /\ wav = "exit" /\ fd = "closed" /\ ~failed
  /\ file = Writer!Run(1, Hdr + nr_samples * Frame)
  /\ \A i \in HeaderAt : head[i] = i

Out == INSTANCE OutWav WITH state <- OutState, frames <- nr_samples, whole <- OutWhole

\* exit(0) promises a whole file: the corrected header with no later write over it,
\* then every accepted sample in order, and a close(2) that succeeded, as one that
\* fails may report an earlier write lost.  A program that fails or halts leaves a
\* file that is not.
ImplementsOutWav == Out!Spec

\* "only bail on really unrecoverable errors" (src/fd.c:58): the way out.wav is
\* written, a call of the writer fails only when a system call did.  The 0 that
\* write(2) answers to a write of no bytes would be taken for a lost connection;
\* headers and frames are too short to provoke the large write that makes one.
OnlyOsErrorsFail == failed => osError
=============================================================================
