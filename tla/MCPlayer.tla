------------------------------ MODULE MCPlayer ------------------------------
(* An instance of Player for TLC: two files in three parts, a buffer that      *)
(* holds the header and a frame and a half, two instructions in a sample.      *)
EXTENDS Player
=============================================================================
