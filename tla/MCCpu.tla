------------------------------- MODULE MCCpu -------------------------------
(* Instances of Cpu for TLC: every opcode with two operand bytes behind it,   *)
(* and a program that nests calls and keeps the flags on the stack.           *)
EXTENDS Cpu

\* The bytes after the opcodes: $40 is a direct page address and a displacement,
\* $a140 an absolute address, and bit 5 of $0140.
Opcodes == 1024 .. 2047
At(op) == 1024 + 4 * op
OpcodeByte(addr) ==
  CASE addr % 4 = 0 -> (addr - 1024) \div 4 [] addr % 4 = 1 -> \h40
    [] addr % 4 = 2 -> \ha1 [] addr % 4 = 3 -> 0

\* $0800: call $0810, tcall 3, ret.  $0810: push psw, notc, push a, pop a, pop psw,
\* ret.  $0820: call $0800 and stop.
Program ==
  <<\h3f, \h10, \h08, \h31, \h6f, 0, 0, 0, 0, 0, 0, 0, 0, 0, 0, 0,
    \h0d, \hed, \h2d, \hae, \h8e, \h6f, 0, 0, 0, 0, 0, 0, 0, 0, 0, 0,
    \h3f, \h00, \h08, \hff>>

\* Every table call goes to $0810.
MCImage ==
  [addr \in Word |->
     CASE addr \in Opcodes -> OpcodeByte(addr)
       [] addr \in 2048 .. 2047 + 36 -> Program[addr - 2047]
       [] addr = \h40 -> 255 [] addr = \h41 -> 1
       [] addr = \h140 \/ addr = \h141 -> 128
       [] addr \in \hffc0 .. \hffdf -> IF addr % 2 = 0 THEN \h10 ELSE \h08
       [] OTHER -> 3]

Start(p, m, i, n, s, f, b) ==
  [pc |-> p, a |-> m, x |-> i, y |-> n, sp |-> s, psw |-> f, bound |-> b]

\* One instruction from many registers, three from a few, the program whole.
Edge == {0, 1, 128, 255}
OneInstruction ==
  {Start(At(op), m, i, n, 1, f, 1) :
     op \in Byte, m \in Edge, n \in Edge, i \in {0, 7, 180, 255}, f \in {0, 255}}
ThreeInstructions ==
  {Start(At(op), 255, 1, 0, s, f, 3) : op \in Byte, s \in {1, 239}, f \in {0, 33}}
WholeProgram == {Start(\h820, 1, 0, 0, s, f, 30) : s \in {1, 3, 239}, f \in {0, 16, 255}}
MCStarts == OneInstruction \cup ThreeInstructions \cup WholeProgram

MCShared == {\h1ec}
=============================================================================
