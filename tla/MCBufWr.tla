------------------------------ MODULE MCBufWr -------------------------------
(* Instances of BufWr for TLC: a buffer of two bytes, so that lengths 0 to 5 *)
(* fit, fill the buffer exactly, overflow it once or go past it.             *)
EXTENDS BufWr

MCLens == {0, 1, 2, 3, 4, 5}
=============================================================================
