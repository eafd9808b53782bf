------------------------------- MODULE OutWav -------------------------------
(***************************************************************************)
(* What out.wav promises to the player: frames are accepted one by one,    *)
(* and the file is whole, with every accepted frame under a header that    *)
(* says so, exactly when the program has finished it after Limit frames.   *)
(* Wav is shown to implement it, system call by system call.               *)
(***************************************************************************)
EXTENDS Naturals

CONSTANT Limit

VARIABLES
  state,    \* "none", "open", "complete", "failed" or "quit"
  frames,   \* frames accepted
  whole     \* the file is a finished WAV of these frames

Init == state = "none" /\ frames = 0 /\ whole = FALSE

Create == state = "none" /\ state' = "open" /\ UNCHANGED <<frames, whole>>

Accept ==
  /\ state = "open" /\ frames < Limit
  /\ frames' = frames + 1
  /\ UNCHANGED <<state, whole>>

Finish ==
  /\ state = "open" /\ frames = Limit
  /\ state' = "complete" /\ whole' = TRUE
  /\ UNCHANGED frames

\* The system fails a call, or the program is aborted.
Fail == state \in {"none", "open"} /\ state' = "failed" /\ UNCHANGED <<frames, whole>>

\* The last program halts before the limit: the file stays as it is.
Quit ==
  /\ state \in {"none", "open"} /\ frames < Limit
  /\ state' = "quit"
  /\ UNCHANGED <<frames, whole>>

Next == Create \/ Accept \/ Finish \/ Fail \/ Quit

Spec == Init /\ [][Next]_<<state, frames, whole>>
=============================================================================
