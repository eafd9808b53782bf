---------------------------- MODULE MCDspCounter ----------------------------
(* DspCounter has no constants: TLC checks it as it is.                        *)
EXTENDS DspCounter
=============================================================================
