----------------------------- MODULE MCDspEcho ------------------------------
(* An instance of DspEcho for TLC: rings of one, two and three slots, the last *)
(* page's going past the end of memory.  EDL 18 is 2 with a bit that is masked.*)
EXTENDS DspEcho
=============================================================================
