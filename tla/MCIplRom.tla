------------------------------ MODULE MCIplRom ------------------------------
(* Four addresses, the top two under the ROM; the ROM's bytes differ.       *)
EXTENDS IplRom, TLC

MCAddr == 1 .. 4
MCRomAddr == {3, 4}
MCByte == {0, 1, 2}
MCRom == (3 :> 2) @@ (4 :> 1)
MCFiles ==
  {[ram |-> [a \in MCAddr |-> r], extra |-> [a \in MCRomAddr |-> x], show |-> s] :
     r \in {0, 1}, x \in {0, 2}, s \in BOOLEAN}
=============================================================================
