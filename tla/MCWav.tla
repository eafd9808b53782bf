------------------------------- MODULE MCWav --------------------------------
(* Instances of Wav for TLC: a buffer that holds the header and a frame and   *)
(* a half, so that samples fill it and go past it before the limit.           *)
EXTENDS Wav
=============================================================================
