------------------------------- MODULE CpuAlu -------------------------------
(***************************************************************************)
(* The arithmetic of the SPC700 interpreter (src/spc700.c).  A byte's bits *)
(* and the flags of PSW are sets of bit numbers, so that psw_compose and   *)
(* psw_decompose are the byte and the bits of a set.                       *)
(*                                                                         *)
(* An operation takes its operands and the flags, and returns its result   *)
(* and the flags after it.                                                 *)
(***************************************************************************)
EXTENDS Integers

Byte == 0 .. 255
WordSize == 65536
Word == 0 .. WordSize - 1
BitNo == 0 .. 7

\* Bit numbers of PSW, PSW_SHIFT_x.
PSW_C == 0
PSW_Z == 1
PSW_I == 2
PSW_H == 3
PSW_B == 4
PSW_P == 5
PSW_V == 6
PSW_N == 7

mask(k) == CASE k = 0 -> 1  [] k = 1 -> 2  [] k = 2 -> 4  [] k = 3 -> 8
             [] k = 4 -> 16 [] k = 5 -> 32 [] k = 6 -> 64 [] k = 7 -> 128

HasBit(n, k) == (n \div mask(k)) % 2 = 1

bits(n) == {k \in BitNo : HasBit(n, k)}

byte_of(S) ==
  LET bit(k) == IF k \in S THEN mask(k) ELSE 0
  IN  bit(0) + bit(1) + bit(2) + bit(3) + bit(4) + bit(5) + bit(6) + bit(7)

\* The flags f with one of them assigned.
Put(f, flag, on) == IF on THEN f \cup {flag} ELSE f \ {flag}

Carry(f) == IF PSW_C \in f THEN 1 ELSE 0

set_zn(r, f) == Put(Put(f, PSW_Z, r = 0), PSW_N, r >= 128)
set_zn16(r, f) == Put(Put(f, PSW_Z, r = 0), PSW_N, r >= 32768)

\* A result whose zero and negative flags are set.
Result(r, f) == [val |-> r, psw |-> set_zn(r, f)]

-----------------------------------------------------------------------------
alu_asl(m, f) == Result((2 * m) % 256, Put(f, PSW_C, m >= 128))
alu_rol(m, f) == Result((2 * m + Carry(f)) % 256, Put(f, PSW_C, m >= 128))
alu_lsr(m, f) == Result(m \div 2, Put(f, PSW_C, m % 2 = 1))
alu_ror(m, f) == Result(128 * Carry(f) + m \div 2, Put(f, PSW_C, m % 2 = 1))

Decremented(m, f) == Result((m - 1) % 256, f)
Incremented(m, f) == Result((m + 1) % 256, f)

alu_or(m, n, f)  == Result(byte_of(bits(m) \cup bits(n)), f)
alu_and(m, n, f) == Result(byte_of(bits(m) \cap bits(n)), f)
alu_eor(m, n, f) ==
  Result(byte_of((bits(m) \cup bits(n)) \ (bits(m) \cap bits(n))), f)

\* adc: bit 4 of m ^ n ^ t is the carry into bit 4; the sum overflows when its
\* sign differs from that of both operands.
adc(m, n, f) ==
  LET r == m + n + Carry(f)
      t == r % 256
      half == (m % 16) + (n % 16) + Carry(f) >= 16
      over == ((m >= 128) = (n >= 128)) /\ ((t >= 128) # (m >= 128))
  IN  [val |-> t,
       psw |-> Put(Put(Put(f, PSW_C, r >= 256), PSW_H, half), PSW_V, over)]

sbc(m, n, f) == adc(m, 255 - n, f)

alu_adc(m, n, f) == LET s == adc(m, n, f) IN Result(s.val, s.psw)
alu_sbc(m, n, f) == LET s == sbc(m, n, f) IN Result(s.val, s.psw)

\* The comparison's result is only its flags.
alu_cmp(m, n, f) == set_zn((m - n) % 256, Put(f, PSW_C, m >= n))

\* Two additions of bytes, the low one first.  C leaves the order of the two calls
\* to the compiler; this is the order in which GCC and Clang make them.
Wide(Add(_, _, _), m, n, f) ==
  LET lo == Add(m % 256, n % 256, f)
      hi == Add(m \div 256, n \div 256, lo.psw)
      r == lo.val + 256 * hi.val
  IN  [val |-> r, psw |-> set_zn16(r, hi.psw)]

\* Mutant: the carry of the last operation is added in.
alu_addwCarries(m, n, f) == Wide(adc, m, n, f)

alu_addw(m, n, f) == Wide(adc, m, n, Put(f, PSW_C, FALSE))
alu_subw(m, n, f) == Wide(sbc, m, n, Put(f, PSW_C, TRUE))

\* insn_cmpw_ya_d
cmpw(m, n, f) == set_zn16((m - n) % 65536, Put(f, PSW_C, m >= n))

\* Mutant: the quotient 256 is taken for one that fits.
DivOverflowsLate(r, x) == r > x

DivOverflows(r, x) == r >= x

\* insn_divw_ya_x, of y = r and a = q by x.  A quotient of nine bits loses its top
\* one; past that both results come from another formula.
divw(q, r, x, f) ==
  LET ya == 256 * r + q
      fits == r < 2 * x
      quot == IF fits THEN (ya \div x) % 256
              ELSE (255 - (ya - 512 * x) \div (256 - x)) % 256
      rem == IF fits THEN ya % x ELSE (x + ((ya - 512 * x) % (256 - x))) % 256
      half == r % 16 >= x % 16
  IN  [a |-> quot, y |-> rem,
       psw |-> set_zn(quot, Put(Put(f, PSW_H, half), PSW_V, DivOverflows(r, x)))]
=============================================================================
