------------------------------- MODULE Player -------------------------------
(***************************************************************************)
(* The player from the command line to out.wav: main, handle_file, load    *)
(* and setup_spc700 of src/main.c, the loop of spc700_run_forever with the *)
(* sample clock of _apu_update_clocks, and _dsp_run32, composed with Wav,  *)
(* whose actions are steps of this module.                                 *)
(*                                                                         *)
(* What an instruction does is left to Cpu and Apu: here it retires,       *)
(* halts the program or aborts the process.                                *)
(***************************************************************************)
EXTENDS Wav

CONSTANTS
  Files,    \* how many files the command line names
  Parts,    \* the pieces of a file that one read(2) may return: struct spc_file
  Period    \* instructions in a sample: 32 / 4 in the program

ASSUME PlayerAssumption ==
  Files \in Nat /\ Parts \in Nat \ {0} /\ Period \in Nat \ {0} /\ Limit # 0

VARIABLES
  at,       \* "next" (main's loop), "load" (fill_buf), "setup", "run", "sample"
            \* (inside _dsp_run32) or "over"
  i,        \* main: how many files have been taken up
  ret,      \* main: whether ret is EXIT_FAILURE
  spc,      \* the global struct spc_file: for each part the file it came from
  got,      \* fill_buf: how many parts have been read
  phase,    \* spc700_run_forever: instructions since the last multiple of 32 cycles
  \* History variables.
  song,     \* the image that setup_spc700 restored
  clocks,   \* instructions retired since then
  base      \* the samples that had been accepted then

loadVars == <<i, ret, spc, got>>
runVars == <<phase, song, clocks, base>>
playerVars == <<at, loadVars, runVars>>

Part == 1 .. Parts

PlayerInit ==
  /\ Init
  /\ at = "next" /\ i = 0 /\ ret = FALSE
  /\ spc = [p \in Part |-> 0] /\ got = 0
  /\ phase = 0 /\ song = spc /\ clocks = 0 /\ base = 0

-----------------------------------------------------------------------------
(* main and load                                                           *)

\* handle_file returns false: main goes on to the next file.
FileFails == at' = "next" /\ ret' = TRUE

\* The next file is opened, or cannot be.
Open ==
  /\ at = "next" /\ i < Files
  /\ i' = i + 1 /\ got' = 0
  /\ \/ at' = "load" /\ UNCHANGED ret
     \/ FileFails
  /\ UNCHANGED <<spc, runVars, vars>>

\* Mutant: fill_buf is content with a short read near the end.
FilledEarly(n) == n >= Parts - 1

\* while (len)
Filled(n) == n = Parts

\* read(2) returns k parts, over those that the file before left in spc.
Read(k) ==
  /\ at = "load"
  /\ spc' = [p \in Part |-> IF p \in got + 1 .. got + k THEN i ELSE spc[p]]
  /\ got' = got + k
  /\ at' = IF Filled(got') THEN "setup" ELSE "load"
  /\ UNCHANGED <<i, ret, runVars, vars>>

\* read(2) fails or the file ends: the parts that were read stay in spc.
ReadFails == at = "load" /\ FileFails /\ UNCHANGED <<i, spc, got, runVars, vars>>

\* setup_spc700 and the entry of spc700_run_forever.  That aram.bin could not be
\* written is reported and otherwise ignored.
setup_spc700 ==
  /\ at = "setup"
  /\ at' = "run"
  /\ song' = spc /\ phase' = 0 /\ clocks' = 0 /\ base' = nr_samples
  /\ UNCHANGED <<loadVars, vars>>

\* All files are done: main returns, and nobody closes the wav.
MainReturns ==
  /\ at = "next" /\ i = Files
  /\ at' = "over"
  /\ Halt
  /\ UNCHANGED <<loadVars, runVars>>

-----------------------------------------------------------------------------
(* spc700_run_forever                                                      *)

\* Mutants: the sample is due one instruction early, and never.
SampleDueEarly(p) == p = Period - 1
SampleDueNever(p) == p > Period

\* (cycle & 0x1f) == 0, at a retirement
SampleDue(p) == p = 0

\* Bound: the instructions of a file, as many as all samples need.
MaxClocks == Limit * Period

\* An instruction retires and the clocks are updated.
Retire ==
  /\ at = "run" /\ clocks < MaxClocks
  /\ phase' = (phase + 1) % Period /\ clocks' = clocks + 1
  /\ at' = IF SampleDue(phase') THEN "sample" ELSE "run"
  /\ UNCHANGED <<song, base, loadVars, vars>>

\* An opcode without a handler: handle_file returns true.
HaltInsn == at = "run" /\ at' = "next" /\ UNCHANGED <<loadVars, runVars, vars>>

\* _dsp_store or _dsp_load with a bad address: abort().
BadDspAddr ==
  /\ at = "run" /\ at' = "over"
  /\ Goes("aborted")
  /\ UNCHANGED <<bufVars, loadVars, runVars>>

-----------------------------------------------------------------------------
(* _dsp_run32                                                              *)

OutputStep ==
  \/ wav_create \/ CreateFails \/ wav_write_samples16 \/ Written
  \/ Flush \/ FlushFailed \/ rewrite_hdr
  \/ \E k \in PwriteCounts : Pwrite(k)
  \/ PwriteFails \/ Close \/ Closed \/ WriterStep

\* _dsp_run32 returns once the frame is accepted, unless it was the last.
Returns == wav = "writing" /\ wav' = "open" /\ nr_samples' < Limit

\* A step of _dsp_run32; the program goes on, stays in it or is over.
Output ==
  /\ at = "sample"
  /\ OutputStep
  /\ at' = CASE wav' \in Ended -> "over" [] Returns -> "run" [] OTHER -> "sample"
  /\ UNCHANGED <<loadVars, runVars>>

Proceed ==
  \/ Open
  \/ \E k \in 1 .. Parts - got : Read(k)
  \/ ReadFails \/ setup_spc700 \/ MainReturns
  \/ Retire \/ Output

PlayerNext == Proceed \/ HaltInsn \/ BadDspAddr

PlayerSpec == PlayerInit /\ [][PlayerNext]_<<playerVars, vars>>

\* One thread: as long as the process can take a step it takes one, but a program
\* need never halt or go wrong.
PlayerFairSpec == PlayerSpec /\ WF_<<playerVars, vars>>(Proceed)

-----------------------------------------------------------------------------
(* Properties                                                              *)

\* The program that runs is the whole of one file: no part of an earlier file or of
\* one that failed to load, whatever the reads returned.
OneImage == at \in {"run", "sample"} => song = [p \in Part |-> i]

\* A sample is accepted for every 32 cycles of a file, counted from its start, and
\* none between: the remainder of a halted file is dropped, not carried over.
SamplesPaceClock == at = "run" => nr_samples = base + clocks \div Period

\* Every invocation ends: a program that never halts is stopped by the samples, and
\* one that halts, fails or cannot be loaded hands over to the next file.
PlayerEnds == <>(at = "over")
=============================================================================
