------------------------------ MODULE CpuProofs ------------------------------
(***************************************************************************)
(* Proofs about Cpu, for every memory image, start and shared address:     *)
(* first about the arithmetic of CpuAlu, for all operands and flags.       *)
(***************************************************************************)
EXTENDS Cpu, TLAPS

Flags == SUBSET BitNo

-----------------------------------------------------------------------------
(* Bits and bytes                                                          *)

LEMMA FlagNumbers ==
  /\ PSW_C \in BitNo /\ PSW_Z \in BitNo /\ PSW_I \in BitNo /\ PSW_H \in BitNo
  /\ PSW_B \in BitNo /\ PSW_P \in BitNo /\ PSW_V \in BitNo /\ PSW_N \in BitNo
BY DEF BitNo, PSW_C, PSW_Z, PSW_I, PSW_H, PSW_B, PSW_P, PSW_V, PSW_N

LEMMA BitsType == \A n : bits(n) \in Flags
BY DEF bits, Flags

\* byte_of of any set is a byte.
LEMMA ByteOfType == \A S : byte_of(S) \in Byte
BY DEF byte_of, mask, Byte

\* The binary digits of a number of eight bits.
Digits(b0, b1, b2, b3, b4, b5, b6, b7) ==
  b0 + 2 * b1 + 4 * b2 + 8 * b3 + 16 * b4 + 32 * b5 + 64 * b6 + 128 * b7

LEMMA DigitsLemma ==
  ASSUME NEW b0 \in 0 .. 1, NEW b1 \in 0 .. 1, NEW b2 \in 0 .. 1, NEW b3 \in 0 .. 1,
         NEW b4 \in 0 .. 1, NEW b5 \in 0 .. 1, NEW b6 \in 0 .. 1, NEW b7 \in 0 .. 1,
         NEW n, n = Digits(b0, b1, b2, b3, b4, b5, b6, b7)
  PROVE  /\ (n \div 1) % 2 = b0 /\ (n \div 2) % 2 = b1
         /\ (n \div 4) % 2 = b2 /\ (n \div 8) % 2 = b3
         /\ (n \div 16) % 2 = b4 /\ (n \div 32) % 2 = b5
         /\ (n \div 64) % 2 = b6 /\ (n \div 128) % 2 = b7
BY DEF Digits

\* psw_compose and psw_decompose: a set of bit numbers comes back from its byte.
LEMMA BitsOfByte == \A S \in Flags : bits(byte_of(S)) = S
<1> SUFFICES ASSUME NEW S \in Flags PROVE bits(byte_of(S)) = S
  OBVIOUS
<1> DEFINE b(k) == IF k \in S THEN 1 ELSE 0
           n == byte_of(S)
<1>1. n = Digits(b(0), b(1), b(2), b(3), b(4), b(5), b(6), b(7))
  BY DEF byte_of, mask, Digits
<1>2. \A k : b(k) \in 0 .. 1
  OBVIOUS
<1>3. \A k \in BitNo : (n \div mask(k)) % 2 = b(k)
  <2> HIDE DEF n, b
  <2>1. /\ (n \div 1) % 2 = b(0) /\ (n \div 2) % 2 = b(1)
        /\ (n \div 4) % 2 = b(2) /\ (n \div 8) % 2 = b(3)
        /\ (n \div 16) % 2 = b(4) /\ (n \div 32) % 2 = b(5)
        /\ (n \div 64) % 2 = b(6) /\ (n \div 128) % 2 = b(7)
    BY <1>1, <1>2, DigitsLemma
  <2> QED BY <2>1 DEF mask, BitNo
<1>4. \A k \in BitNo : HasBit(n, k) <=> k \in S
  BY <1>3 DEF HasBit
<1> QED BY <1>4 DEF bits, Flags

LEMMA PutType ==
  ASSUME NEW f \in Flags, NEW flag \in BitNo, NEW on
  PROVE  Put(f, flag, on) \in Flags
BY DEF Put, Flags

LEMMA SetZnType ==
  ASSUME NEW f \in Flags, NEW r
  PROVE  set_zn(r, f) \in Flags /\ set_zn16(r, f) \in Flags
BY PutType, FlagNumbers DEF set_zn, set_zn16

LEMMA CarryType == \A f : Carry(f) \in 0 .. 1
BY DEF Carry

-----------------------------------------------------------------------------
(* The type of each operation's result                                     *)

\* What an operation on bytes returns.
Res == [val : Byte, psw : Flags]

LEMMA ResultType ==
  ASSUME NEW r \in Byte, NEW f \in Flags
  PROVE  Result(r, f) \in Res
BY SetZnType DEF Result, Res

LEMMA ShiftType ==
  ASSUME NEW m \in Byte, NEW f \in Flags
  PROVE  /\ alu_asl(m, f) \in Res /\ alu_rol(m, f) \in Res
         /\ alu_lsr(m, f) \in Res /\ alu_ror(m, f) \in Res
         /\ Decremented(m, f) \in Res /\ Incremented(m, f) \in Res
<1> DEFINE c == Carry(f)
<1>1. c \in 0 .. 1
  BY CarryType
<1>2. \A on : Put(f, PSW_C, on) \in Flags
  BY PutType, FlagNumbers
<1> HIDE DEF c
<1>3. /\ (2 * m) % 256 \in Byte /\ (2 * m + c) % 256 \in Byte
      /\ m \div 2 \in Byte /\ 128 * c + m \div 2 \in Byte
      /\ (m - 1) % 256 \in Byte /\ (m + 1) % 256 \in Byte
  BY <1>1 DEF Byte
<1> QED
  BY <1>2, <1>3, ResultType
  DEF alu_asl, alu_rol, alu_lsr, alu_ror, Decremented, Incremented, c

LEMMA LogicType ==
  ASSUME NEW m, NEW n, NEW f \in Flags
  PROVE  alu_or(m, n, f) \in Res /\ alu_and(m, n, f) \in Res /\ alu_eor(m, n, f) \in Res
BY ByteOfType, ResultType DEF alu_or, alu_and, alu_eor

LEMMA AdcType ==
  ASSUME NEW m \in Byte, NEW n \in Byte, NEW f \in Flags
  PROVE  adc(m, n, f) \in Res
<1>1. (m + n + Carry(f)) % 256 \in Byte
  <2> DEFINE c == Carry(f)
  <2>1. c \in 0 .. 1
    BY CarryType
  <2> HIDE DEF c
  <2>2. (m + n + c) % 256 \in Byte
    BY <2>1 DEF Byte
  <2> QED BY <2>2 DEF c
<1>2. \A c, h, v : Put(Put(Put(f, PSW_C, c), PSW_H, h), PSW_V, v) \in Flags
  BY PutType, FlagNumbers
<1> QED BY <1>1, <1>2 DEF adc, Res

LEMMA SbcType ==
  ASSUME NEW m \in Byte, NEW n \in Byte, NEW f \in Flags
  PROVE  sbc(m, n, f) \in Res
<1>1. 255 - n \in Byte
  BY DEF Byte
<1> QED BY <1>1, AdcType DEF sbc

LEMMA SumType ==
  ASSUME NEW m \in Byte, NEW n \in Byte, NEW f \in Flags
  PROVE  /\ alu_adc(m, n, f) \in Res /\ alu_sbc(m, n, f) \in Res
         /\ alu_cmp(m, n, f) \in Flags
BY AdcType, SbcType, ResultType, SetZnType, PutType, FlagNumbers
DEF alu_adc, alu_sbc, alu_cmp, Res

-----------------------------------------------------------------------------
(* Words                                                                   *)

WordRes == [val : Word, psw : Flags]

\* The range of Word, which these lemmas spell out so that proofs can leave it folded.
LEMMA SizeOfWord == WordSize \in Int /\ WordSize = 65536
BY DEF WordSize

LEMMA WordIntro ==
  ASSUME NEW w \in Int, 0 <= w, w < 65536
  PROVE  w \in Word
<1>1. WordSize \in Int /\ w <= WordSize - 1
  BY SizeOfWord
<1>2. \A n \in Int : w <= n - 1 => w \in 0 .. n - 1
  OBVIOUS
<1> QED BY <1>1, <1>2 DEF Word

LEMMA WordElim ==
  ASSUME NEW w \in Word
  PROVE  w \in Int /\ 0 <= w /\ w <= 65535
<1>1. \A n \in Int : \A m \in 0 .. n - 1 : m \in Int /\ 0 <= m /\ m <= n - 1
  OBVIOUS
<1>2. WordSize \in Int
  BY SizeOfWord
<1>3. w \in Int /\ 0 <= w /\ w <= WordSize - 1
  BY <1>1, <1>2 DEF Word
<1> QED BY <1>3, SizeOfWord

LEMMA WordMod ==
  ASSUME NEW w \in Int
  PROVE  w % 65536 \in Word
<1>1. w % 65536 \in Int /\ 0 <= w % 65536 /\ w % 65536 < 65536
  OBVIOUS
<1> QED BY <1>1, WordIntro

LEMMA Halves ==
  ASSUME NEW m \in Word
  PROVE  m % 256 \in Byte /\ m \div 256 \in Byte /\ m = (m % 256) + 256 * (m \div 256)
BY WordElim DEF Byte

LEMMA WordOfBytes ==
  ASSUME NEW l \in Byte, NEW h \in Byte
  PROVE  /\ l + 256 * h \in Word
         /\ (l + 256 * h) % 256 = l /\ (l + 256 * h) \div 256 = h
<1>1. l \in 0 .. 255 /\ h \in 0 .. 255
  BY DEF Byte
<1>2. l + 256 * h \in Word
  <2> DEFINE w == l + 256 * h
  <2>1. w \in Int /\ 0 <= w /\ w < 65536
    BY <1>1
  <2> HIDE DEF w
  <2>2. w \in Word
    BY <2>1, WordIntro
  <2> QED BY <2>2 DEF w
<1>3. (l + 256 * h) % 256 = l
  BY <1>1
<1>4. (l + 256 * h) \div 256 = h
  BY <1>1
<1> QED BY <1>2, <1>3, <1>4

LEMMA WideType ==
  ASSUME NEW m \in Word, NEW n \in Word, NEW f \in Flags
  PROVE  Wide(adc, m, n, f) \in WordRes /\ Wide(sbc, m, n, f) \in WordRes
<1>1. /\ m % 256 \in Byte /\ m \div 256 \in Byte
      /\ n % 256 \in Byte /\ n \div 256 \in Byte
  BY Halves
<1>2. \A l, h \in Res : [val |-> l.val + 256 * h.val,
                         psw |-> set_zn16(l.val + 256 * h.val, h.psw)] \in WordRes
  BY WordOfBytes, SetZnType DEF Res, WordRes
<1>3. Wide(adc, m, n, f) \in WordRes
  <2> DEFINE lo == adc(m % 256, n % 256, f)
             hi == adc(m \div 256, n \div 256, lo.psw)
  <2>1. lo \in Res
    BY <1>1, AdcType
  <2>2. hi \in Res
    <3>1. lo.psw \in Flags
      BY <2>1 DEF Res
    <3> QED BY <1>1, <3>1, AdcType
  <2> HIDE DEF lo, hi
  <2>3. [val |-> lo.val + 256 * hi.val, psw |-> set_zn16(lo.val + 256 * hi.val, hi.psw)] \in WordRes
    BY <1>2, <2>1, <2>2
  <2> QED BY <2>3 DEF lo, hi, Wide
<1>4. Wide(sbc, m, n, f) \in WordRes
  <2> DEFINE lo == sbc(m % 256, n % 256, f)
             hi == sbc(m \div 256, n \div 256, lo.psw)
  <2>1. lo \in Res
    BY <1>1, SbcType
  <2>2. hi \in Res
    <3>1. lo.psw \in Flags
      BY <2>1 DEF Res
    <3> QED BY <1>1, <3>1, SbcType
  <2> HIDE DEF lo, hi
  <2>3. [val |-> lo.val + 256 * hi.val, psw |-> set_zn16(lo.val + 256 * hi.val, hi.psw)] \in WordRes
    BY <1>2, <2>1, <2>2
  <2> QED BY <2>3 DEF lo, hi, Wide
<1> QED BY <1>3, <1>4

LEMMA WordSumType ==
  ASSUME NEW m \in Word, NEW n \in Word, NEW f \in Flags
  PROVE  /\ alu_addw(m, n, f) \in WordRes /\ alu_subw(m, n, f) \in WordRes
         /\ cmpw(m, n, f) \in Flags
<1>1. \A on : Put(f, PSW_C, on) \in Flags
  BY PutType, FlagNumbers
<1>2. cmpw(m, n, f) \in Flags
  BY <1>1, SetZnType DEF cmpw
<1>3. alu_addw(m, n, f) \in WordRes
  BY <1>1, WideType DEF alu_addw
<1>4. alu_subw(m, n, f) \in WordRes
  BY <1>1, WideType DEF alu_subw
<1> QED BY <1>2, <1>3, <1>4

\* insn_divw_ya_x leaves bytes for every divisor, nought included, and every quotient,
\* however large.
LEMMA DivType ==
  ASSUME NEW q \in Byte, NEW r \in Byte, NEW divisor \in Byte, NEW f \in Flags
  PROVE  divw(q, r, divisor, f) \in [a : Byte, y : Byte, psw : Flags]
<1> DEFINE dividend == 256 * r + q
           fits == r < 2 * divisor
           quot == IF fits THEN (dividend \div divisor) % 256
                   ELSE (255 - (dividend - 512 * divisor) \div (256 - divisor)) % 256
           rem == IF fits THEN dividend % divisor
                  ELSE (divisor + ((dividend - 512 * divisor) % (256 - divisor))) % 256
           half == r % 16 >= divisor % 16
<1>1. quot \in Byte
  <2>1. \A k \in Int : k % 256 \in Byte
    BY DEF Byte
  <2>2. CASE fits
    <3>1. divisor \in Nat \ {0} /\ dividend \in Nat
      BY <2>2 DEF Byte
    <3> HIDE DEF dividend
    <3>2. dividend \div divisor \in Int
      BY <3>1
    <3> QED BY <2>1, <2>2, <3>2
  <2>3. CASE ~fits
    <3>1. 256 - divisor \in Nat \ {0} /\ dividend - 512 * divisor \in Int
      BY DEF Byte
    <3> DEFINE k == dividend - 512 * divisor
               d == 256 - divisor
    <3> HIDE DEF k, d
    <3>2. k \div d \in Int
      BY <3>1 DEF k, d
    <3>3. 255 - k \div d \in Int
      BY <3>2
    <3> QED BY <2>1, <2>3, <3>3 DEF k, d
  <2> QED BY <2>2, <2>3
<1>2. rem \in Byte
  <2>1. CASE fits
    <3>1. divisor \in Nat \ {0} /\ dividend \in Nat
      BY <2>1 DEF Byte
    <3> HIDE DEF dividend
    <3>2. dividend % divisor \in 0 .. divisor - 1
      BY <3>1
    <3> QED BY <2>1, <3>2 DEF Byte
  <2>2. CASE ~fits
    <3>1. 256 - divisor \in Nat \ {0} /\ dividend - 512 * divisor \in Int
      BY DEF Byte
    <3> DEFINE k == dividend - 512 * divisor
               d == 256 - divisor
    <3> HIDE DEF k, d
    <3>2. k % d \in Int
      BY <3>1 DEF k, d
    <3>3. (divisor + (k % d)) % 256 \in Byte
      BY <3>2 DEF Byte
    <3> QED BY <2>2, <3>3 DEF k, d
  <2> QED BY <2>1, <2>2
<1>3. set_zn(quot, Put(Put(f, PSW_H, half), PSW_V, DivOverflows(r, divisor))) \in Flags
  BY SetZnType, PutType, FlagNumbers
<1> HIDE DEF quot, rem, half
<1>4. divw(q, r, divisor, f) = [a |-> quot, y |-> rem,
         psw |-> set_zn(quot, Put(Put(f, PSW_H, half), PSW_V, DivOverflows(r, divisor)))]
  BY DEF divw, quot, rem, half
<1> QED BY <1>1, <1>2, <1>3, <1>4

-----------------------------------------------------------------------------
(* The state                                                               *)

\* The registers and memory have their types; Word stays folded below.
AramType == DOMAIN aram \subseteq Word /\ \A addr \in DOMAIN aram : aram[addr] \in Byte

Registers == pc \in Word /\ a \in Byte /\ x \in Byte /\ y \in Byte /\ psw \in Flags

Typed == Registers /\ sp \in Byte /\ AramType

-----------------------------------------------------------------------------
(* Memory and addressing                                                   *)

LEMMA ContentsType ==
  ASSUME AramType, NEW addr \in Word
  PROVE  Ram(addr) \in Byte
BY ImageAssumption DEF AramType, Ram, Contents

LEMMA NextAddr ==
  ASSUME NEW addr \in Word, NEW n \in Int
  PROVE  (addr + n) % 65536 \in Word
BY WordElim, WordMod

LEMMA LoadType ==
  ASSUME AramType, NEW addr \in Word, NEW in \in Byte
  PROVE  Load(addr, in) \in Byte
BY ContentsType DEF Load

LEMMA WordLoadType ==
  ASSUME AramType, NEW addr \in Word
  PROVE  /\ RamWord(addr) \in Word
         /\ \A io \in [1 .. 3 -> Byte] : LoadWord(addr, io) \in Word
<1>1. (addr + 1) % 65536 \in Word
  BY NextAddr
<1>2. RamWord(addr) \in Word
  BY <1>1, ContentsType, WordOfBytes DEF RamWord
<1>3. ASSUME NEW io \in [1 .. 3 -> Byte] PROVE LoadWord(addr, io) \in Word
  <2>1. io[1] \in Byte /\ io[2] \in Byte
    OBVIOUS
  <2>2. Load(addr, io[1]) \in Byte /\ Load((addr + 1) % 65536, io[2]) \in Byte
    BY <1>1, <2>1, LoadType
  <2> QED BY <2>2, WordOfBytes DEF LoadWord
<1> QED BY <1>2, <1>3

\* The opcode and the bytes after it.
LEMMA CodeType ==
  ASSUME Typed
  PROVE  opcode \in Byte /\ op1 \in Byte /\ op2 \in Byte
<1>1. pc \in Word /\ (pc + 1) % 65536 \in Word /\ (pc + 2) % 65536 \in Word
  BY NextAddr DEF Typed, Registers
<1> QED BY <1>1, ContentsType DEF Typed, opcode, op1, op2

LEMMA RowType ==
  ASSUME Typed
  PROVE  Column \in 0 .. 31 /\ Row \in BitNo /\ opcode = 32 * Row + Column
<1>1. opcode \in Byte
  BY CodeType
<1>2. \A o \in Byte : o % 32 \in 0 .. 31 /\ o \div 32 \in BitNo /\ o = 32 * (o \div 32) + (o % 32)
  BY DEF Byte, BitNo
<1> QED BY <1>1, <1>2 DEF Column, Row

\* The direct page is the first page or the second.
LEMMA DirectType ==
  ASSUME NEW b \in Int
  PROVE  direct_page_effective(b) \in Word
<1>1. b % 256 \in 0 .. 255
  OBVIOUS
<1> DEFINE p == IF PSW_P \in psw THEN 256 ELSE 0
<1>2. p + (b % 256) \in Int /\ 0 <= p + (b % 256) /\ p + (b % 256) < 65536
  BY <1>1
<1> HIDE DEF p
<1>3. p + (b % 256) \in Word
  BY <1>2, WordIntro
<1> QED BY <1>3 DEF direct_page_effective, p

LEMMA AddressType ==
  ASSUME Typed
  PROVE  /\ direct_page \in Word /\ direct_page_x \in Word /\ absolute \in Word
         /\ direct_page_effective(x) \in Word /\ direct_page_effective(y) \in Word
         /\ direct_page_effective(op2) \in Word
<1>1. op1 \in Byte /\ op2 \in Byte
  BY CodeType
<1>2. x \in Byte /\ y \in Byte
  BY DEF Typed, Registers
<1>3. op1 \in Int /\ op2 \in Int /\ x \in Int /\ y \in Int /\ op1 + x \in Int
  BY <1>1, <1>2 DEF Byte
<1>4. absolute \in Word
  BY <1>1, WordOfBytes DEF absolute
<1> QED BY <1>3, <1>4, DirectType DEF direct_page, direct_page_x

\* The columns of instructions on A.
OnAColumns == {DP, ABS, IX, DX_IND, IMM, DPX, ABSX, ABSY, DPIY}

LEMMA EffectiveType ==
  ASSUME Typed, NEW io \in [1 .. 3 -> Byte], NEW col \in OnAColumns \ {IMM}
  PROVE  Effective(col, io) \in Word
<1>1. x \in Int /\ y \in Int
  BY DEF Typed, Registers, Byte
<1>2. /\ LoadWord(direct_page_x, io) \in Word
      /\ (LoadWord(direct_page, io) + y) % 65536 \in Word
      /\ (absolute + x) % 65536 \in Word /\ (absolute + y) % 65536 \in Word
  <2>1. LoadWord(direct_page_x, io) \in Word /\ LoadWord(direct_page, io) \in Word
    BY AddressType, WordLoadType DEF Typed
  <2>2. absolute \in Word
    BY AddressType
  <2> QED BY <1>1, <2>1, <2>2, NextAddr
<1> QED
  BY <1>2, AddressType
  DEF Effective, OnAColumns, DP, ABS, IX, DX_IND, IMM, DPX, ABSX, ABSY, DPIY

LEMMA OperandType ==
  ASSUME Typed, NEW io \in [1 .. 3 -> Byte], NEW col \in OnAColumns
  PROVE  Operand(col, io) \in Byte
<1>1. io[3] \in Byte
  OBVIOUS
<1> QED BY <1>1, EffectiveType, LoadType, CodeType DEF Operand, Typed

LEMMA LengthType == \A col : Length(col) \in 1 .. 3
BY DEF Length

LEMMA AdvanceType ==
  ASSUME pc \in Word, NEW n \in Int, Advance(n)
  PROVE  pc' \in Word
BY NextAddr DEF Advance

LEMMA BranchType ==
  ASSUME pc \in Word, NEW n \in Int, NEW disp \in Byte, NEW taken, Branch(n, disp, taken)
  PROVE  pc' \in Word
<1> DEFINE d == IF ~taken THEN 0 ELSE IF disp >= 128 THEN disp - 256 ELSE disp
<1>1. d \in Int
  BY DEF Byte
<1> HIDE DEF d
<1>2. pc \in Int /\ pc + n + d \in Int
  BY <1>1, WordElim
<1>3. pc' = (pc + n + d) % 65536
  BY DEF Branch, d
<1> QED BY <1>2, <1>3, WordMod

-----------------------------------------------------------------------------
(* What an instruction may do to memory and the stack                      *)

\* It writes the bytes at addrs and leaves the stack pointer alone,
Writes(addrs) ==
  /\ addrs \subseteq Word
  /\ AramType'
  /\ \A addr \in Word \ addrs : Ram(addr)' = Ram(addr)
  /\ pushed' = Touched(pushed, addrs)
  /\ UNCHANGED <<sp, depth>>

\* pushes a byte that is none of the flags, or the flags,
PushesByte ==
  \E b \in Byte : \E what :
    /\ push_byte(b, what)
    /\ \/ what[1] = "byte"
       \/ what = <<"psw", psw>> /\ b = psw_compose

\* pushes a return address, or pops.
PushesWord == \E w \in Word : push_word(w, <<"pc", w>>)
Pops == pop(1) \/ pop(2)

MemoryStep ==
  \/ UNCHANGED memory
  \/ \E addrs \in SUBSET Word : Writes(addrs)
  \/ PushesByte \/ PushesWord \/ Pops

LEMMA StoredType ==
  ASSUME AramType, NEW addr \in Word, NEW b \in Byte, aram' = Stored(aram, addr, b)
  PROVE  /\ AramType'
         /\ Ram(addr)' = b
         /\ \A k \in Word \ {addr} : Ram(k)' = Ram(k)
<1>1. /\ DOMAIN aram' = DOMAIN aram \cup {addr}
      /\ \A k \in DOMAIN aram' : aram'[k] = IF k = addr THEN b ELSE aram[k]
  BY DEF Stored
<1>2. AramType'
  BY <1>1 DEF AramType
<1>3. Ram(addr)' = b
  BY <1>1 DEF Ram, Contents
<1>4. \A k \in Word \ {addr} : Ram(k)' = Ram(k)
  BY <1>1 DEF Ram, Contents
<1> QED BY <1>2, <1>3, <1>4

LEMMA StoreStep ==
  ASSUME AramType, NEW addr \in Word, NEW b \in Byte, Store(addr, b)
  PROVE  Writes({addr})
BY StoredType DEF Store, Writes

-----------------------------------------------------------------------------
(* The stack                                                               *)

\* Where the byte that made the stack d bytes deep is: no push or pop moves it.
Slot(d) == 256 + ((sp + depth + 1 - d) % 256)

\* An entry whose bytes no store went over is in memory at its slots.
EntryInv(e) ==
  /\ e.depth \in Int /\ e.depth <= depth /\ e.at \subseteq 256 .. 511
  /\ (e.ok /\ e.what[1] = "pc") =>
       /\ e.what[2] \in Word
       /\ e.at = {Slot(e.depth), Slot(e.depth - 1)}
       /\ Ram(Slot(e.depth)) = e.what[2] % 256
       /\ Ram(Slot(e.depth - 1)) = e.what[2] \div 256
  /\ (e.ok /\ e.what[1] = "psw") =>
       /\ e.what[2] \in Flags
       /\ e.at = {Slot(e.depth)}
       /\ Ram(Slot(e.depth)) = byte_of(e.what[2])

StackInv == sp \in Byte /\ AramType /\ depth \in Int /\ \A e \in pushed : EntryInv(e)

LEMMA StackAddrType ==
  ASSUME NEW k \in Int
  PROVE  256 + (k % 256) \in Word /\ 256 + (k % 256) \in 256 .. 511
<1> DEFINE m == k % 256
<1>1. m \in 0 .. 255
  OBVIOUS
<1> HIDE DEF m
<1>2. 256 + m \in Int /\ 0 <= 256 + m /\ 256 + m < 65536 /\ 256 + m \in 256 .. 511
  BY <1>1
<1>3. 256 + m \in Word
  BY <1>2, WordIntro
<1> QED BY <1>2, <1>3 DEF m

LEMMA SlotType ==
  ASSUME sp \in Byte, depth \in Int, NEW d \in Int
  PROVE  Slot(d) \in Word /\ Slot(d) \in 256 .. 511
<1>1. sp + depth + 1 - d \in Int
  BY DEF Byte
<1> QED BY <1>1, StackAddrType DEF Slot

LEMMA SlotKept ==
  ASSUME sp \in Byte, depth \in Int, NEW n \in {-2, -1, 0, 1, 2},
         sp' = (sp + n) % 256, depth' = depth - n
  PROVE  sp' \in Byte /\ depth' \in Int /\ \A d \in Int : Slot(d)' = Slot(d)
<1>1. sp \in Int /\ sp' \in Byte /\ depth' \in Int
  BY DEF Byte
<1>2. ASSUME NEW d \in Int PROVE Slot(d)' = Slot(d)
  <2> DEFINE k == sp + depth + 1 - d
  <2>1. sp' + depth' + 1 - d = ((sp + n) % 256) - (sp + n) + k
    BY <1>1
  <2>2. \A u, w \in Int : ((u % 256) - u + w) % 256 = w % 256
    OBVIOUS
  <2>3. k \in Int /\ sp + n \in Int
    BY <1>1
  <2>4. (sp' + depth' + 1 - d) % 256 = k % 256
    <3> DEFINE u == sp + n
               all == sp' + depth' + 1 - d
    <3>1. all = (u % 256) - u + k
      BY <2>1
    <3>2. u \in Int /\ k \in Int
      BY <2>3
    <3> HIDE DEF k, u, all
    <3>3. ((u % 256) - u + k) % 256 = k % 256
      BY <2>2, <3>2
    <3>4. all % 256 = k % 256
      BY <3>1, <3>3
    <3> QED BY <3>4 DEF all
  <2> QED BY <2>4 DEF Slot, k
<1> QED BY <1>1, <1>2

\* An entry survives a step that leaves its slots where they are and does not cut
\* it off, with its bytes or with ok cleared.
LEMMA EntryKept ==
  ASSUME StackInv, NEW e, EntryInv(e), NEW addrs,
         \A d \in Int : Slot(d)' = Slot(d),
         \A k \in Word \ addrs : Ram(k)' = Ram(k),
         e.depth <= depth',
         NEW e2, e2 = [at |-> e.at, what |-> e.what, depth |-> e.depth,
                       ok |-> e.ok /\ e.at \cap addrs = {}]
  PROVE  EntryInv(e2)'
<1>1. e2.at = e.at /\ e2.what = e.what /\ e2.depth = e.depth
  OBVIOUS
<1>2. e2.ok => e.ok /\ e.at \cap addrs = {}
  OBVIOUS
<1>3. e.depth \in Int /\ e.depth - 1 \in Int /\ e.at \subseteq 256 .. 511
  BY DEF EntryInv
<1>4. Slot(e.depth) \in Word /\ Slot(e.depth - 1) \in Word
  BY <1>3, SlotType DEF StackInv
<1>5. ASSUME e2.ok, e2.what[1] = "pc"
      PROVE  /\ e2.what[2] \in Word
             /\ e2.at = {Slot(e2.depth)', Slot(e2.depth - 1)'}
             /\ Ram(Slot(e2.depth))' = e2.what[2] % 256
             /\ Ram(Slot(e2.depth - 1))' = e2.what[2] \div 256
  <2>1. /\ e.what[2] \in Word
        /\ e.at = {Slot(e.depth), Slot(e.depth - 1)}
        /\ Ram(Slot(e.depth)) = e.what[2] % 256
        /\ Ram(Slot(e.depth - 1)) = e.what[2] \div 256
    BY <1>1, <1>2, <1>5 DEF EntryInv
  <2>2. Slot(e.depth)' = Slot(e.depth) /\ Slot(e.depth - 1)' = Slot(e.depth - 1)
    BY <1>3
  <2>3. Slot(e.depth) \notin addrs /\ Slot(e.depth - 1) \notin addrs
    BY <1>2, <1>5, <2>1
  <2> QED BY <1>1, <1>4, <2>1, <2>2, <2>3 DEF Ram
<1>6. ASSUME e2.ok, e2.what[1] = "psw"
      PROVE  /\ e2.what[2] \in Flags
             /\ e2.at = {Slot(e2.depth)'}
             /\ Ram(Slot(e2.depth))' = byte_of(e2.what[2])
  <2>1. /\ e.what[2] \in Flags
        /\ e.at = {Slot(e.depth)}
        /\ Ram(Slot(e.depth)) = byte_of(e.what[2])
    BY <1>1, <1>2, <1>6 DEF EntryInv
  <2>2. Slot(e.depth)' = Slot(e.depth)
    BY <1>3
  <2>3. Slot(e.depth) \notin addrs
    BY <1>2, <1>6, <2>1
  <2> QED BY <1>1, <1>4, <2>1, <2>2, <2>3 DEF Ram
<1> QED BY <1>1, <1>3, <1>5, <1>6 DEF EntryInv

\* Every kind of memory step keeps the stack's entries.
LEMMA WritesKeep ==
  ASSUME StackInv, NEW addrs \in SUBSET Word, Writes(addrs)
  PROVE  StackInv'
<1>1. sp' \in Byte /\ depth' \in Int /\ AramType' /\ depth' = depth /\ sp' = sp
  BY DEF Writes, StackInv
<1>2. \A d \in Int : Slot(d)' = Slot(d)
  BY <1>1 DEF Slot
<1>3. ASSUME NEW e2 \in pushed' PROVE EntryInv(e2)'
  <2>1. PICK e \in pushed : e2 = [at |-> e.at, what |-> e.what, depth |-> e.depth,
                                  ok |-> e.ok /\ e.at \cap addrs = {}]
    BY DEF Writes, Touched
  <2>2. EntryInv(e)
    BY DEF StackInv
  <2>3. e.depth <= depth'
    BY <1>1, <2>2 DEF EntryInv
  <2>4. \A k \in Word \ addrs : Ram(k)' = Ram(k)
    BY DEF Writes
  <2> QED BY <1>2, <2>1, <2>2, <2>3, <2>4, EntryKept
<1> QED BY <1>1, <1>3 DEF StackInv

LEMMA QuietKeeps == StackInv /\ UNCHANGED memory => StackInv'
BY DEF StackInv, EntryInv, Slot, Ram, AramType, memory, stack

LEMMA PopsKeep ==
  ASSUME StackInv, NEW n \in {1, 2}, pop(n)
  PROVE  StackInv'
<1>1. sp' = (sp + n) % 256 /\ depth' = depth - n /\ aram' = aram
      /\ pushed' = {e \in pushed : e.depth <= depth - n}
  BY DEF pop
<1>2. sp' \in Byte /\ depth' \in Int /\ \A d \in Int : Slot(d)' = Slot(d)
  BY <1>1, SlotKept DEF StackInv
<1>3. AramType'
  BY <1>1 DEF StackInv, AramType
<1>4. ASSUME NEW e \in pushed' PROVE EntryInv(e)'
  <2>1. e \in pushed /\ e.depth <= depth'
    BY <1>1
  <2>2. EntryInv(e)
    BY <2>1 DEF StackInv
  <2>3. e.depth \in Int /\ e.depth - 1 \in Int
    BY <2>2 DEF EntryInv
  <2>4. Slot(e.depth)' = Slot(e.depth) /\ Slot(e.depth - 1)' = Slot(e.depth - 1)
    BY <1>2, <2>3
  <2>5. \A k : Ram(k)' = Ram(k)
    BY <1>1 DEF Ram
  <2> QED BY <2>1, <2>2, <2>4, <2>5 DEF EntryInv
<1> QED BY <1>2, <1>3, <1>4 DEF StackInv

LEMMA PushByteKeeps ==
  ASSUME StackInv, psw \in Flags, PushesByte
  PROVE  StackInv'
<1>1. PICK b \in Byte : \E what : /\ push_byte(b, what)
                                 /\ \/ what[1] = "byte"
                                    \/ what = <<"psw", psw>> /\ b = psw_compose
  BY DEF PushesByte
<1>11. PICK what : /\ push_byte(b, what)
                  /\ \/ what[1] = "byte"
                     \/ what = <<"psw", psw>> /\ b = psw_compose
  BY <1>1
<1>0. PICK top, d, new : /\ top = StackAddr(0) /\ d = depth + 1
                        /\ new = Entry({top}, what, d)
  OBVIOUS
<1>2. /\ aram' = Stored(aram, top, b) /\ sp' = (sp - 1) % 256 /\ depth' = d
      /\ pushed' = Touched(pushed, {top}) \cup {new}
  BY <1>0, <1>11 DEF push_byte
<1>3. sp \in Int /\ depth \in Int /\ d \in Int /\ d = depth + 1 /\ AramType
  BY <1>0 DEF StackInv, Byte
<1>4. sp' \in Byte /\ depth' \in Int /\ \A k \in Int : Slot(k)' = Slot(k)
  <2>1. sp' = (sp + (-1)) % 256 /\ depth' = depth - (-1)
    BY <1>2, <1>3
  <2> QED BY <2>1, SlotKept DEF StackInv
<1>5. top \in Word /\ top \in 256 .. 511 /\ top = Slot(d)
  <2>1. sp + depth + 1 - d = sp + 0
    BY <1>3
  <2>2. Slot(d) = top
    BY <1>0, <2>1 DEF Slot, StackAddr
  <2> QED BY <1>3, <2>2, SlotType DEF StackInv
<1>6. AramType' /\ Ram(top)' = b /\ \A k \in Word \ {top} : Ram(k)' = Ram(k)
  BY <1>2, <1>3, <1>5, StoredType
<1>7. EntryInv(new)'
  <2>1. new.at = {top} /\ new.what = what /\ new.depth = d
    BY <1>0 DEF Entry
  <2>2. Slot(d)' = top
    BY <1>3, <1>4, <1>5
  <2>3. what[1] = "psw" => what[2] \in Flags /\ Ram(top)' = byte_of(what[2])
    BY <1>11, <1>6 DEF psw_compose
  <2>4. what[1] # "pc"
    BY <1>11
  <2>5. new.depth \in Int /\ new.depth <= depth' /\ new.at \subseteq 256 .. 511
    BY <1>2, <1>3, <1>5, <2>1
  <2>6. Slot(new.depth)' = top
    BY <2>1, <2>2
  <2> QED BY <2>1, <2>3, <2>4, <2>5, <2>6, <1>5, <1>6 DEF EntryInv
<1>8. ASSUME NEW e2 \in Touched(pushed, {top}) PROVE EntryInv(e2)'
  <2>1. PICK e \in pushed : e2 = [at |-> e.at, what |-> e.what, depth |-> e.depth,
                                  ok |-> e.ok /\ e.at \cap {top} = {}]
    BY DEF Touched
  <2>2. EntryInv(e)
    BY DEF StackInv
  <2>3. e.depth <= depth'
    BY <1>2, <1>3, <2>2 DEF EntryInv
  <2> QED BY <1>4, <1>6, <2>1, <2>2, <2>3, EntryKept
<1> QED BY <1>2, <1>4, <1>6, <1>7, <1>8 DEF StackInv

LEMMA PushWordKeeps ==
  ASSUME StackInv, PushesWord
  PROVE  StackInv'
<1>1. PICK w \in Word : push_word(w, <<"pc", w>>)
  BY DEF PushesWord
<1>0. PICK hi, lo, d, c, new : /\ hi = StackAddr(0) /\ lo = StackAddr(-1)
                              /\ d = depth + 2 /\ c = depth + 1
                              /\ new = Entry({hi, lo}, <<"pc", w>>, d)
  OBVIOUS
<1>2. /\ aram' = Stored(Stored(aram, hi, w \div 256), lo, w % 256)
      /\ sp' = (sp - 2) % 256 /\ depth' = d
      /\ pushed' = Touched(pushed, {hi, lo}) \cup {new}
  BY <1>0, <1>1 DEF push_word
<1>3. /\ sp \in Int /\ sp \in Byte /\ depth \in Int /\ AramType
      /\ d \in Int /\ c \in Int /\ d = depth + 2 /\ c = depth + 1 /\ d - 1 = c
  BY <1>0 DEF StackInv, Byte
<1>4. sp' \in Byte /\ depth' \in Int /\ \A k \in Int : Slot(k)' = Slot(k)
  <2>1. sp' = (sp + (-2)) % 256 /\ depth' = depth - (-2)
    BY <1>2, <1>3
  <2> QED BY <2>1, SlotKept DEF StackInv
<1>5. /\ hi \in Word /\ hi \in 256 .. 511 /\ hi = Slot(c)
      /\ lo \in Word /\ lo \in 256 .. 511 /\ lo = Slot(d)
      /\ hi # lo
  <2>1. sp + depth + 1 - c = sp + 0 /\ sp + depth + 1 - d = sp + (-1)
    BY <1>3
  <2>2. Slot(c) = hi /\ Slot(d) = lo
    BY <1>0, <2>1 DEF Slot, StackAddr
  <2>3. hi # lo
    BY <1>0, <1>3 DEF StackAddr, Byte
  <2> QED BY <1>3, <2>2, <2>3, SlotType
<1>6. w % 256 \in Byte /\ w \div 256 \in Byte
  BY Halves
<1>7. /\ AramType'
      /\ Ram(lo)' = w % 256 /\ Ram(hi)' = w \div 256
      /\ \A k \in Word \ {hi, lo} : Ram(k)' = Ram(k)
  <2>1. /\ DOMAIN aram' = DOMAIN aram \cup {hi, lo}
        /\ \A k \in DOMAIN aram' : aram'[k] = IF k = lo THEN w % 256
                                             ELSE IF k = hi THEN w \div 256 ELSE aram[k]
    BY <1>2 DEF Stored
  <2>2. AramType'
    BY <1>3, <1>5, <1>6, <2>1 DEF AramType
  <2>3. Ram(lo)' = w % 256 /\ Ram(hi)' = w \div 256
    BY <1>5, <2>1 DEF Ram, Contents
  <2>4. \A k \in Word \ {hi, lo} : Ram(k)' = Ram(k)
    BY <2>1 DEF Ram, Contents
  <2> QED BY <2>2, <2>3, <2>4
<1>8. EntryInv(new)'
  <2>1. new.at = {lo, hi} /\ new.what[1] = "pc" /\ new.what[2] = w /\ new.depth = d
    BY <1>0 DEF Entry
  <2>2. Slot(d)' = lo /\ Slot(c)' = hi
    BY <1>3, <1>4, <1>5
  <2>3. /\ new.depth \in Int /\ new.depth <= depth' /\ new.at \subseteq 256 .. 511
        /\ new.depth - 1 = c
    BY <1>2, <1>3, <1>5, <2>1
  <2> QED BY <1>7, <2>1, <2>2, <2>3 DEF EntryInv
<1>9. ASSUME NEW e2 \in Touched(pushed, {hi, lo}) PROVE EntryInv(e2)'
  <2>1. PICK e \in pushed : e2 = [at |-> e.at, what |-> e.what, depth |-> e.depth,
                                  ok |-> e.ok /\ e.at \cap {hi, lo} = {}]
    BY DEF Touched
  <2>2. EntryInv(e)
    BY DEF StackInv
  <2>3. e.depth <= depth'
    BY <1>2, <1>3, <2>2 DEF EntryInv
  <2> QED BY <1>4, <1>7, <2>1, <2>2, <2>3, EntryKept
<1> QED BY <1>2, <1>4, <1>7, <1>8, <1>9 DEF StackInv

LEMMA MemoryKept ==
  ASSUME StackInv, psw \in Flags, MemoryStep
  PROVE  StackInv'
BY QuietKeeps, WritesKeep, PushByteKeeps, PushWordKeeps, PopsKeep DEF MemoryStep, Pops

-----------------------------------------------------------------------------
(* Each instruction keeps the registers' types and makes a memory step     *)

Io == [1 .. 3 -> Byte]

Good == Registers' /\ MemoryStep

\* A step that leaves memory alone, and one that stores a byte.
LEMMA QuietGood ==
  ASSUME Typed, UNCHANGED memory, pc' \in Word, a' \in Byte, x' \in Byte, y' \in Byte,
         psw' \in Flags
  PROVE  Good
BY DEF Good, MemoryStep, Registers

LEMMA StoreGood ==
  ASSUME Typed, pc' \in Word, UNCHANGED <<a, x, y>>, psw' \in Flags,
         NEW addr \in Word, NEW b \in Byte, Store(addr, b)
  PROVE  Good
<1>1. Writes({addr}) /\ {addr} \in SUBSET Word
  BY StoreStep DEF Typed
<1> QED BY <1>1 DEF Good, MemoryStep, Registers, Typed

\* A result goes to A, or to memory.
ToA(r) ==
  /\ a' = r.val /\ psw' = r.psw /\ pc' \in Word
  /\ UNCHANGED <<x, y, memory>>
ToMemory(addr, r) ==
  /\ Store(addr, r.val) /\ psw' = r.psw /\ pc' \in Word
  /\ UNCHANGED <<a, x, y>>

LEMMA ToAGood ==
  ASSUME Typed, NEW r \in Res, ToA(r)
  PROVE  Good
BY QuietGood DEF ToA, Res, Typed, Registers

LEMMA ToMemoryGood ==
  ASSUME Typed, NEW addr \in Word, NEW r \in Res, ToMemory(addr, r)
  PROVE  Good
BY StoreGood DEF ToMemory, Res, Typed, Registers

LEMMA OperandsType ==
  ASSUME Typed, NEW io \in Io, Column \in {DP_DP, DP_IMM, IX_IY}
  PROVE  Left(io) \in Byte /\ Right(io) \in Byte /\ Target \in Word
<1>1. io[1] \in Byte /\ io[2] \in Byte
  BY DEF Io
<1>2. AramType /\ op1 \in Byte
  BY CodeType DEF Typed
<1>3. Left(io) \in Byte
  BY <1>1, <1>2, AddressType, LoadType DEF Left, DP_DP, DP_IMM, IX_IY
<1>4. Right(io) \in Byte
  BY <1>1, <1>2, AddressType, LoadType DEF Right, DP_DP, DP_IMM, IX_IY
<1>5. Target \in Word
  BY AddressType DEF Target
<1> QED BY <1>3, <1>4, <1>5

LEMMA TwoOperandsGood ==
  ASSUME Typed, NEW io \in Io,
         insn_or(io) \/ insn_and(io) \/ insn_eor(io) \/ insn_adc(io) \/ insn_sbc(io)
  PROVE  Good
<1>1. \A m, n \in Byte : /\ alu_or(m, n, psw) \in Res /\ alu_and(m, n, psw) \in Res
                         /\ alu_eor(m, n, psw) \in Res /\ alu_adc(m, n, psw) \in Res
                         /\ alu_sbc(m, n, psw) \in Res
  BY LogicType, SumType DEF Typed, Registers
<1>2. a \in Byte /\ pc \in Word
  BY DEF Typed, Registers
<1>3. Length(Column) \in Int
  BY LengthType
<1>4. Advance(Length(Column)) \/ Advance(IF Column = IX_IY THEN 1 ELSE 3) => pc' \in Word
  BY <1>2, <1>3, AdvanceType
<1>5. CASE Column \in OnAColumns
  <2>1. Operand(Column, io) \in Byte
    BY <1>5, OperandType DEF Io
  <2>2. Column \notin {DP_DP, DP_IMM, IX_IY}
    BY <1>5 DEF OnAColumns, DP, ABS, IX, DX_IND, IMM, DPX, ABSX, ABSY, DPIY, DP_DP, DP_IMM, IX_IY
  <2>3. \E r \in Res : ToA(r)
    BY <1>1, <1>2, <1>4, <2>1, <2>2
    DEF insn_or, insn_and, insn_eor, insn_adc, insn_sbc, OnA, OnMemory, ToA
  <2> QED BY <2>3, ToAGood
<1>6. CASE Column \in {DP_DP, DP_IMM, IX_IY}
  <2>1. Left(io) \in Byte /\ Right(io) \in Byte /\ Target \in Word
    BY <1>6, OperandsType
  <2>2. Column \notin OnAColumns
    BY <1>6 DEF OnAColumns, DP, ABS, IX, DX_IND, IMM, DPX, ABSX, ABSY, DPIY, DP_DP, DP_IMM, IX_IY
  <2>3. \E r \in Res : ToMemory(Target, r)
    BY <1>1, <1>4, <2>1, <2>2
    DEF insn_or, insn_and, insn_eor, insn_adc, insn_sbc, OnA, OnMemory, ToMemory, OnAColumns
  <2>4. \E addr \in Word, r \in Res : ToMemory(addr, r)
    BY <2>1, <2>3
  <2> QED BY <2>4, ToMemoryGood
<1> QED
  BY <1>5, <1>6 DEF insn_or, insn_and, insn_eor, insn_adc, insn_sbc, OnA, OnMemory, OnAColumns

\* What the rest of the proofs need of the state, in one place.
LEMMA Facts ==
  ASSUME Typed, NEW io \in Io
  PROVE  /\ pc \in Word /\ a \in Byte /\ x \in Byte /\ y \in Byte /\ sp \in Byte
         /\ psw \in Flags /\ AramType
         /\ op1 \in Byte /\ op2 \in Byte
         /\ io[1] \in Byte /\ io[2] \in Byte /\ io[3] \in Byte
         /\ \A addr \in Word : Load(addr, io[1]) \in Byte
         /\ \A addr \in Word : LoadWord(addr, io) \in Word
         /\ \A addr \in Word : Ram(addr) \in Byte
         /\ direct_page \in Word /\ direct_page_x \in Word /\ absolute \in Word
         /\ direct_page_effective(op2) \in Word
         /\ \A n \in Int : Advance(n) => pc' \in Word
<1>1. io[1] \in Byte /\ io[2] \in Byte /\ io[3] \in Byte
  BY DEF Io
<1>2. AramType /\ pc \in Word
  BY DEF Typed, Registers
<1>3. \A addr \in Word : LoadWord(addr, io) \in Word
  BY <1>2, WordLoadType DEF Io
<1> QED
  BY <1>1, <1>2, <1>3, CodeType, AddressType, LoadType, ContentsType, AdvanceType
  DEF Typed, Registers

LEMMA CompareGood ==
  ASSUME Typed, NEW io \in Io, insn_cmp(io) \/ insn_cmp_xy(io)
  PROVE  Good
<1>1. UNCHANGED <<a, x, y, memory>>
  BY DEF insn_cmp, insn_cmp_xy
<1>2. \A m, n \in Byte : alu_cmp(m, n, psw) \in Flags
  BY Facts, SumType
<1>3. psw' \in Flags
  <2>1. Column \in OnAColumns => Operand(Column, io) \in Byte
    BY OperandType DEF Io
  <2>2. Column \in {DP_DP, DP_IMM, IX_IY} => Left(io) \in Byte /\ Right(io) \in Byte
    BY OperandsType
  <2> QED BY <1>2, <2>1, <2>2, Facts DEF insn_cmp, insn_cmp_xy, OnAColumns
<1>4. pc' \in Word
  BY Facts, LengthType DEF insn_cmp, insn_cmp_xy
<1> QED BY <1>1, <1>3, <1>4, Facts, QuietGood

LEMMA OneOperandGood ==
  ASSUME Typed, NEW io \in Io,
         \/ insn_asl(io) \/ insn_rol(io) \/ insn_lsr(io) \/ insn_ror(io)
         \/ insn_dec(io) \/ insn_inc(io)
  PROVE  Good
<1>1. \A m \in Byte : /\ alu_asl(m, psw) \in Res /\ alu_rol(m, psw) \in Res
                      /\ alu_lsr(m, psw) \in Res /\ alu_ror(m, psw) \in Res
                      /\ Decremented(m, psw) \in Res /\ Incremented(m, psw) \in Res
  BY Facts, ShiftType
<1>2. pc' \in Word
  BY Facts DEF insn_asl, insn_rol, insn_lsr, insn_ror, insn_dec, insn_inc, OnByte
<1>3. CASE Column = 28
  <2>1. \E r \in Res : ToA(r)
    BY <1>1, <1>2, <1>3, Facts
    DEF insn_asl, insn_rol, insn_lsr, insn_ror, insn_dec, insn_inc, OnByte, ToA
  <2> QED BY <2>1, ToAGood
<1>4. CASE Column \in {11, 12, 27}
  <2> DEFINE addr == CASE Column = 11 -> direct_page [] Column = 12 -> absolute
                       [] Column = 27 -> direct_page_x
  <2>1. addr \in Word
    BY <1>4, Facts
  <2>2. Load(addr, io[1]) \in Byte
    BY <2>1, Facts
  <2>3. \E r \in Res : ToMemory(addr, r)
    BY <1>1, <1>2, <1>4, <2>2
    DEF insn_asl, insn_rol, insn_lsr, insn_ror, insn_dec, insn_inc, OnByte, ToMemory
  <2>4. \E k \in Word, r \in Res : ToMemory(k, r)
    BY <2>1, <2>3
  <2> QED BY <2>4, ToMemoryGood
<1> QED BY <1>3, <1>4 DEF insn_asl, insn_rol, insn_lsr, insn_ror, insn_dec, insn_inc, OnByte

LEMMA StepGood ==
  ASSUME Typed, NEW io \in Io, insn_step_xy \/ insn_xcn
  PROVE  Good
<1>1. pc' \in Word /\ UNCHANGED memory
  BY Facts DEF insn_step_xy, insn_xcn
<1>2. CASE insn_step_xy
  <2>1. \A m \in Byte : Decremented(m, psw) \in Res /\ Incremented(m, psw) \in Res
    BY Facts, ShiftType
  <2>2. a' = a /\ x' \in Byte /\ y' \in Byte /\ psw' \in Flags
    BY <1>2, <2>1, Facts DEF insn_step_xy, Res
  <2> QED BY <1>1, <2>2, Facts, QuietGood
<1>3. CASE insn_xcn
  <2>1. a' \in Byte
    <3>1. \A m \in Byte : ((16 * m) % 256) + (m \div 16) \in Byte
      BY DEF Byte
    <3> QED BY <1>3, <3>1, Facts DEF insn_xcn
  <2>2. psw' \in Flags /\ UNCHANGED <<x, y>>
    BY <1>3, Facts, SetZnType DEF insn_xcn
  <2> QED BY <1>1, <2>1, <2>2, Facts, QuietGood
<1> QED BY <1>2, <1>3

LEMMA MoveGood ==
  ASSUME Typed, NEW io \in Io, insn_mov_a(io) \/ insn_mov_x(io) \/ insn_mov_y(io)
  PROVE  Good
<1>1. UNCHANGED memory /\ pc' \in Word
  BY Facts, LengthType DEF insn_mov_a, insn_mov_x, insn_mov_y
<1>2. psw' \in Flags
  BY Facts, SetZnType DEF insn_mov_a, insn_mov_x, insn_mov_y
<1>3. a' \in Byte /\ x' \in Byte /\ y' \in Byte
  <2>1. Column \in OnAColumns => Operand(Column, io) \in Byte
    BY OperandType DEF Io
  <2> QED BY <2>1, Facts DEF insn_mov_a, insn_mov_x, insn_mov_y, OnAColumns
<1> QED BY <1>1, <1>2, <1>3, QuietGood

LEMMA MoveToMemoryGood ==
  ASSUME Typed, NEW io \in Io, insn_store_a(io) \/ insn_store_xy \/ insn_mov_dp(io)
  PROVE  Good
<1>1. UNCHANGED <<a, x, y, psw>> /\ pc' \in Word
  BY Facts, LengthType DEF insn_store_a, insn_store_xy, insn_mov_dp
<1>2. \E addr \in Word, b \in Byte : Store(addr, b)
  <2>1. CASE insn_store_a(io)
    <3>1. Column \in OnAColumns \ {IMM}
      BY <2>1 DEF insn_store_a, OnAColumns, DP, ABS, IX, DX_IND, IMM, DPX, ABSX, ABSY, DPIY
    <3>2. Effective(Column, io) \in Word
      BY <3>1, EffectiveType DEF Io
    <3> QED BY <2>1, <3>2, Facts DEF insn_store_a
  <2>2. CASE insn_store_xy
    BY <2>2, Facts DEF insn_store_xy
  <2>3. CASE insn_mov_dp(io)
    BY <2>3, Facts DEF insn_mov_dp
  <2> QED BY <2>1, <2>2, <2>3
<1> QED BY <1>1, <1>2, Facts, StoreGood

\* 255 times 255 is the largest product.
LEMMA ProductType ==
  ASSUME NEW m \in Byte, NEW n \in Byte
  PROVE  m * n \in Word
<1>1. m \in Int /\ 0 <= m /\ m <= 255 /\ n \in Int /\ 0 <= n /\ n <= 255
  BY DEF Byte
<1>2. m * n \in Int /\ 0 <= m * n /\ m * n <= 255 * n
  BY <1>1
<1>3. m * n < 65536
  BY <1>1, <1>2
<1> QED BY <1>2, <1>3, WordIntro

LEMMA WordGood ==
  ASSUME Typed, NEW io \in Io, insn_ya(io) \/ insn_mul_ya \/ insn_divw_ya_x
  PROVE  Good
<1>1. UNCHANGED <<x, memory>> /\ pc' \in Word
  BY Facts DEF insn_ya, insn_mul_ya, insn_divw_ya_x
<1>2. ASSUME NEW r \in WordRes, SetYA(r)
      PROVE  a' \in Byte /\ y' \in Byte /\ psw' \in Flags
  BY <1>2, Halves DEF SetYA, WordRes
<1>3. ya \in Word
  <2>1. a \in Byte /\ y \in Byte
    BY Facts
  <2>2. a + 256 * y \in Word
    BY <2>1, WordOfBytes
  <2>3. 256 * y + a = a + 256 * y
    BY <2>1 DEF Byte
  <2> QED BY <2>2, <2>3 DEF ya
<1>4. CASE insn_ya(io)
  <2> DEFINE w == LoadWord(direct_page, io)
  <2>1. w \in Word
    BY Facts
  <2>2. /\ alu_addw(ya, w, psw) \in WordRes /\ alu_subw(ya, w, psw) \in WordRes
        /\ cmpw(ya, w, psw) \in Flags
    BY <1>3, <2>1, Facts, WordSumType
  <2>3. [val |-> w, psw |-> set_zn16(w, psw)] \in WordRes
    BY <2>1, Facts, SetZnType DEF WordRes
  <2>4. \/ SetYA(alu_addw(ya, w, psw)) \/ SetYA(alu_subw(ya, w, psw))
        \/ SetYA([val |-> w, psw |-> set_zn16(w, psw)])
        \/ psw' = cmpw(ya, w, psw) /\ UNCHANGED <<a, y>>
    BY <1>4 DEF insn_ya
  <2> HIDE DEF w
  <2>5. a' \in Byte /\ y' \in Byte /\ psw' \in Flags
    BY <1>2, <2>2, <2>3, <2>4, Facts
  <2> QED BY <1>1, <2>5, Facts, QuietGood
<1>5. CASE insn_mul_ya
  <2>1. a * y \in Word
    BY Facts, ProductType
  <2>2. \E r \in WordRes : SetYA(r)
    <3>1. [val |-> a * y, psw |-> set_zn16(a * y, psw)] \in WordRes
      BY <2>1, Facts, SetZnType DEF WordRes
    <3> QED BY <1>5, <3>1 DEF insn_mul_ya
  <2> QED BY <1>1, <1>2, <2>2, Facts, QuietGood
<1>6. CASE insn_divw_ya_x
  <2>1. divw(a, y, x, psw) \in [a : Byte, y : Byte, psw : Flags]
    BY Facts, DivType
  <2>2. \E r \in [a : Byte, y : Byte, psw : Flags] : a' = r.a /\ y' = r.y /\ psw' = r.psw
    BY <1>6, <2>1 DEF insn_divw_ya_x
  <2>3. a' \in Byte /\ y' \in Byte /\ psw' \in Flags
    BY <2>2
  <2> QED BY <1>1, <2>3, Facts, QuietGood
<1> QED BY <1>4, <1>5, <1>6

\* movw writes two bytes.
LEMMA MoveWordGood ==
  ASSUME Typed, NEW io \in Io, insn_movw_dp_ya
  PROVE  Good
<1>1. PICK k, n : k = direct_page /\ n = (direct_page + 1) % 65536
  OBVIOUS
<1>2. k \in Word /\ n \in Word
  BY <1>1, Facts, NextAddr
<1>3. /\ aram' = Stored(Stored(aram, k, a), n, y)
      /\ pushed' = Touched(pushed, {k, n})
      /\ pc' \in Word /\ UNCHANGED <<a, x, y, psw, sp, depth>>
  BY <1>1, Facts DEF insn_movw_dp_ya
<1>4. /\ DOMAIN aram' = DOMAIN aram \cup {k, n}
      /\ \A d \in DOMAIN aram' : aram'[d] = IF d = n THEN y ELSE IF d = k THEN a ELSE aram[d]
  BY <1>3 DEF Stored
<1>5. AramType'
  BY <1>2, <1>4, Facts DEF AramType
<1>6. \A d \in Word \ {k, n} : Ram(d)' = Ram(d)
  BY <1>4 DEF Ram, Contents
<1>7. Writes({k, n}) /\ {k, n} \in SUBSET Word
  BY <1>2, <1>3, <1>5, <1>6 DEF Writes
<1> QED BY <1>3, <1>7, Facts DEF Good, Registers, MemoryStep

\* incw, decw and the one-byte counter in memory.
LEMMA StepMemoryGood ==
  ASSUME Typed, NEW io \in Io, insn_stepw(io) \/ insn_dbnz_dp(io)
  PROVE  Good
<1>1. UNCHANGED <<a, x, y>>
  BY DEF insn_stepw, insn_dbnz_dp
<1>2. psw' \in Flags
  <2>1. \A on : Put(psw, PSW_Z, on) \in Flags
    BY Facts, PutType, FlagNumbers
  <2> QED BY <2>1, Facts, SetZnType DEF insn_stepw, insn_dbnz_dp
<1>3. pc' \in Word
  BY Facts, BranchType DEF insn_stepw, insn_dbnz_dp
<1>4. \E b \in Byte : Store(direct_page, b)
  <2>1. CASE insn_stepw(io)
    <3> DEFINE w == LoadWord(direct_page, io)
               r == (IF opcode = \h1a THEN w - 1 ELSE w + 1) % 65536
    <3>1. r \in Word
      <4>1. w \in Int
        BY Facts, WordElim
      <4> HIDE DEF w
      <4> QED BY <4>1, WordMod
    <3>2. Store(direct_page, r % 256)
      BY <2>1 DEF insn_stepw
    <3> HIDE DEF r
    <3> QED BY <3>1, <3>2, Halves
  <2>2. CASE insn_dbnz_dp(io)
    <3>1. \A b \in Byte : (b - 1) % 256 \in Byte
      BY DEF Byte
    <3> QED BY <2>2, <3>1, Facts DEF insn_dbnz_dp
  <2> QED BY <2>1, <2>2
<1> QED BY <1>1, <1>2, <1>3, <1>4, Facts, StoreGood

LEMMA BitsGood ==
  ASSUME Typed, NEW io \in Io,
         insn_set_db(io) \/ insn_clr_db(io) \/ insn_store_bit(io) \/ insn_test_abs(io)
  PROVE  Good
<1>1. UNCHANGED <<a, x, y>> /\ pc' \in Word
  BY Facts DEF insn_set_db, insn_clr_db, OnBit, insn_store_bit, insn_test_abs
<1>2. psw' \in Flags
  BY Facts, SetZnType DEF insn_set_db, insn_clr_db, OnBit, insn_store_bit, insn_test_abs
<1>3. bitaddr \in Word
  <2>1. absolute \in Int /\ 0 <= absolute
    BY Facts, WordElim
  <2>2. absolute % 8192 \in Int /\ 0 <= absolute % 8192 /\ absolute % 8192 < 65536
    BY <2>1
  <2> QED BY <2>2, WordIntro DEF bitaddr
<1>4. \E addr \in Word, b \in Byte : Store(addr, b)
  BY <1>3, Facts, ByteOfType DEF insn_set_db, insn_clr_db, OnBit, insn_store_bit, insn_test_abs
<1> QED BY <1>1, <1>2, <1>4, Facts, StoreGood

LEMMA FlagsGood ==
  ASSUME Typed, NEW io \in Io, insn_carry_bit(io) \/ insn_flags
  PROVE  Good
<1>1. UNCHANGED <<a, x, y, memory>> /\ pc' \in Word
  BY Facts DEF insn_carry_bit, insn_flags
<1>2. CASE insn_carry_bit(io)
  <2>1. \A on : Put(psw, PSW_C, on) \in Flags
    BY Facts, PutType, FlagNumbers
  <2>2. psw' \in Flags
    BY <1>2, <2>1 DEF insn_carry_bit
  <2> QED BY <1>1, <2>2, Facts, QuietGood
<1>3. CASE insn_flags
  <2>1. \A on : Put(psw, PSW_C, on) \in Flags
    BY Facts, PutType, FlagNumbers
  <2>2. \A S : psw \ S \in Flags
    BY Facts DEF Flags
  <2>3. psw \cup {PSW_C} \in Flags /\ psw \cup {PSW_P} \in Flags /\ psw \cup {PSW_I} \in Flags
    BY Facts, FlagNumbers DEF Flags
  <2>4. psw' \in Flags
    <3>1. psw' \in {psw, psw \ {PSW_C}, psw \cup {PSW_C}, Put(psw, PSW_C, PSW_C \notin psw),
                    psw \ {PSW_V, PSW_H}, psw \ {PSW_P}, psw \cup {PSW_P},
                    psw \cup {PSW_I}, psw \ {PSW_I}}
      BY <1>3 DEF insn_flags
    <3> QED BY <2>1, <2>2, <2>3, <3>1, Facts
  <2> QED BY <1>1, <2>4, Facts, QuietGood
<1> QED BY <1>2, <1>3

LEMMA BranchGood ==
  ASSUME Typed, NEW io \in Io,
         \/ insn_bbs_db(io) \/ insn_bbc_db(io) \/ insn_branch \/ insn_cbne(io)
  PROVE  Good
<1>1. UNCHANGED <<a, x, y, psw, memory>>
  BY DEF insn_bbs_db, insn_bbc_db, BranchOnBit, insn_branch, insn_cbne
<1>2. ASSUME NEW n \in Int, NEW disp \in Byte, NEW taken, Branch(n, disp, taken)
      PROVE  pc' \in Word
  BY <1>2, Facts, BranchType
<1>3. CASE insn_bbs_db(io) \/ insn_bbc_db(io)
  <2>1. \E taken : Branch(3, op2, taken)
    BY <1>3 DEF insn_bbs_db, insn_bbc_db, BranchOnBit
  <2> QED BY <1>1, <1>2, <2>1, Facts, QuietGood
<1>4. CASE insn_branch
  <2>1. \E taken : Branch(2, op1, taken)
    BY <1>4 DEF insn_branch
  <2> QED BY <1>1, <1>2, <2>1, Facts, QuietGood
<1>5. CASE insn_cbne(io)
  <2>1. \E taken : Branch(3, op2, taken)
    BY <1>5 DEF insn_cbne
  <2> QED BY <1>1, <1>2, <2>1, Facts, QuietGood
<1> QED BY <1>3, <1>4, <1>5

LEMMA JumpGood ==
  ASSUME Typed, NEW io \in Io, insn_dbnz_y \/ insn_jmp(io)
  PROVE  Good
<1>1. CASE insn_dbnz_y
  <2>1. y' \in Byte
    <3>1. \A m \in Byte : (m - 1) % 256 \in Byte
      BY DEF Byte
    <3> QED BY <1>1, <3>1, Facts DEF insn_dbnz_y
  <2>2. \E taken : Branch(2, op1, taken)
    BY <1>1 DEF insn_dbnz_y
  <2>3. pc' \in Word
    BY <2>2, Facts, BranchType
  <2>4. UNCHANGED <<a, x, psw, memory>>
    BY <1>1 DEF insn_dbnz_y
  <2> QED BY <2>1, <2>3, <2>4, Facts, QuietGood
<1>2. CASE insn_jmp(io)
  <2>1. (absolute + x) % 65536 \in Word
    <3>1. x \in Int
      BY Facts DEF Byte
    <3> QED BY <3>1, Facts, NextAddr
  <2>2. pc' \in Word
    BY <1>2, <2>1, Facts DEF insn_jmp
  <2>3. UNCHANGED <<a, x, y, psw, memory>>
    BY <1>2 DEF insn_jmp
  <2> QED BY <2>2, <2>3, Facts, QuietGood
<1> QED BY <1>1, <1>2

\* A call, and the word a table call jumps to.
LEMMA CallGood ==
  ASSUME Typed, NEW io \in Io, insn_call_abs \/ insn_tcall
  PROVE  Good
<1>1. ASSUME NEW n \in Int, NEW addr \in Word, call(n, addr)
      PROVE  Good
  <2>1. PICK ret : ret = (pc + n) % 65536
    OBVIOUS
  <2>2. ret \in Word
    BY <2>1, Facts, NextAddr
  <2>3. push_word(ret, <<"pc", ret>>) /\ pc' = addr /\ UNCHANGED <<a, x, y, psw>>
    BY <1>1, <2>1 DEF call
  <2> QED BY <2>2, <2>3, Facts DEF Good, Registers, MemoryStep, PushesWord
<1>2. CASE insn_call_abs
  BY <1>1, <1>2, Facts DEF insn_call_abs
<1>3. CASE insn_tcall
  <2>1. opcode \in Byte
    BY CodeType
  <2>2. slot \in 0 .. 15
    BY <2>1 DEF slot, Byte
  <2> DEFINE vector == \hffc0 + 2 * (15 - slot)
  <2>3. vector \in Int /\ 0 <= vector /\ vector < 65536
    BY <2>2
  <2>4. call(1, RamWord(vector))
    BY <1>3 DEF insn_tcall
  <2> HIDE DEF vector
  <2>5. RamWord(vector) \in Word
    BY <2>3, Facts, WordIntro, WordLoadType
  <2> QED BY <1>1, <2>4, <2>5
<1> QED BY <1>2, <1>3

LEMMA TopType ==
  ASSUME Typed
  PROVE  Top(1) \in Byte /\ Top(2) \in Byte /\ ReturnAddress \in Word
<1>1. sp + 1 \in Int /\ sp + 2 \in Int
  BY DEF Typed, Byte
<1>2. StackAddr(1) \in Word /\ StackAddr(2) \in Word
  BY <1>1, StackAddrType DEF StackAddr
<1>3. Top(1) \in Byte /\ Top(2) \in Byte
  BY <1>2, ContentsType DEF Top, Typed
<1> QED BY <1>3, WordOfBytes DEF ReturnAddress

\* Returns, pushes and pops.
LEMMA StackGood ==
  ASSUME Typed, NEW io \in Io, insn_ret \/ insn_push \/ insn_pop
  PROVE  Good
<1>1. CASE insn_ret
  <2>1. pc' \in Word
    BY <1>1, TopType DEF insn_ret
  <2>2. pop(2) /\ UNCHANGED <<a, x, y, psw>>
    BY <1>1 DEF insn_ret
  <2> QED BY <2>1, <2>2, Facts DEF Good, Registers, MemoryStep, Pops
<1>2. CASE insn_push
  <2>1. pc' \in Word /\ UNCHANGED <<a, x, y, psw>>
    BY <1>2, Facts DEF insn_push
  <2>2. psw_compose \in Byte
    BY ByteOfType DEF psw_compose
  <2>3. PushesByte
    <3>1. ASSUME NEW b \in Byte, push_byte(b, <<"byte", b>>) PROVE PushesByte
      <4>1. <<"byte", b>>[1] = "byte"
        OBVIOUS
      <4> QED BY <3>1, <4>1 DEF PushesByte
    <3>2. ASSUME push_byte(psw_compose, <<"psw", psw>>) PROVE PushesByte
      BY <2>2, <3>2 DEF PushesByte
    <3> QED BY <1>2, <3>1, <3>2, Facts DEF insn_push
  <2> QED BY <2>1, <2>3, Facts DEF Good, Registers, MemoryStep
<1>3. CASE insn_pop
  <2>1. pc' \in Word /\ pop(1)
    BY <1>3, Facts DEF insn_pop
  <2>2. a' \in Byte /\ x' \in Byte /\ y' \in Byte /\ psw' \in Flags
    BY <1>3, Facts, TopType, BitsType DEF insn_pop, psw_decompose
  <2> QED BY <2>1, <2>2 DEF Good, Registers, MemoryStep, Pops
<1> QED BY <1>1, <1>2, <1>3

LEMMA InstructionGood ==
  ASSUME Typed, NEW io \in Io, Instruction(io)
  PROVE  Good
BY TwoOperandsGood, CompareGood, OneOperandGood, StepGood, MoveGood, MoveToMemoryGood,
   WordGood, MoveWordGood, StepMemoryGood, BitsGood, FlagsGood, BranchGood, JumpGood,
   CallGood, StackGood
DEF Instruction

-----------------------------------------------------------------------------
(* The invariant                                                           *)

\* The entries of pushed are where Slot says, with what they hold: TypeOK alone says
\* nothing of what memory keeps for a return.
IInv == Registers /\ StackInv /\ status \in {"run", "halt"} /\ left \in Nat

LEMMA Implied == IInv => TypeOK /\ Typed
BY DEF IInv, TypeOK, Typed, Registers, StackInv, EntryInv, AramType, Flags

LEMMA InitInv == Init => IInv
<1> SUFFICES ASSUME Init PROVE IInv
  OBVIOUS
<1>1. PICK s \in Starts : /\ pc = s.pc /\ a = s.a /\ x = s.x /\ y = s.y /\ sp = s.sp
                         /\ psw = bits(s.psw) /\ left = s.bound
  BY DEF Init
<1>2. s \in [pc : Word, a : Byte, x : Byte, y : Byte, sp : Byte, psw : Byte, bound : Nat]
  BY StartsAssumption
<1>3. Registers /\ sp \in Byte /\ left \in Nat
  BY <1>1, <1>2, BitsType DEF Registers
<1>4. AramType /\ depth \in Int /\ pushed = {} /\ status \in {"run", "halt"}
  BY DEF Init, AramType
<1> QED BY <1>3, <1>4 DEF IInv, StackInv

LEMMA NextInv == IInv /\ [Next]_vars => IInv'
<1> SUFFICES ASSUME IInv, [Next]_vars PROVE IInv'
  OBVIOUS
<1>1. Typed /\ StackInv /\ Registers /\ psw \in Flags /\ left \in Nat
      /\ status \in {"run", "halt"}
  BY Implied DEF IInv, Registers
<1>2. ASSUME Good PROVE Registers' /\ StackInv'
  BY <1>1, <1>2, MemoryKept DEF Good
<1>3. CASE Execute
  <2>1. PICK io \in [1 .. 3 -> IoBytes] : Instruction(io)
    BY <1>3 DEF Execute
  <2>2. io \in Io
    BY IoAssumption DEF Io
  <2>3. Good
    BY <1>1, <2>1, <2>2, InstructionGood
  <2>4. left' \in Nat /\ status' \in {"run", "halt"}
    BY <1>1, <1>3 DEF Execute
  <2> QED BY <1>2, <2>3, <2>4 DEF IInv
<1>4. CASE Halt
  <2>1. UNCHANGED <<a, x, y, psw, memory, left>> /\ status' \in {"run", "halt"}
    BY <1>4 DEF Halt
  <2>2. pc' \in Word
    BY <1>1, <1>4, AdvanceType DEF Halt, Registers
  <2>3. Registers'
    BY <1>1, <2>1, <2>2 DEF Registers
  <2>4. StackInv'
    BY <1>1, <2>1, QuietKeeps
  <2> QED BY <1>1, <2>1, <2>3, <2>4 DEF IInv
<1>5. CASE OtherStore
  <2>1. PICK addr \in Shared, b \in IoBytes : Store(addr, b)
    BY <1>5 DEF OtherStore
  <2>2. addr \in Word /\ b \in Byte
    BY IoAssumption
  <2>3. UNCHANGED <<pc, a, x, y, psw, status, left>>
    BY <1>5 DEF OtherStore
  <2>4. Good
    BY <1>1, <2>1, <2>2, <2>3, StoreGood DEF Registers
  <2> QED BY <1>1, <1>2, <2>3, <2>4 DEF IInv
<1>6. CASE UNCHANGED vars
  <2>1. UNCHANGED <<pc, a, x, y, psw, memory, status, left>>
    BY <1>6 DEF vars
  <2>2. StackInv'
    BY <1>1, <2>1, QuietKeeps
  <2> QED BY <1>1, <2>1, <2>2 DEF IInv, Registers
<1> QED BY <1>3, <1>4, <1>5, <1>6 DEF Next

LEMMA Invariance == Spec => []IInv
BY InitInv, NextInv, PTL DEF Spec

\* insn_ret, stack_addr, direct_page_effective: every register, address and byte of
\* memory keeps its width, whatever the program, its start and its stack.
THEOREM TypeCorrect == Spec => []TypeOK
BY Invariance, Implied, PTL

-----------------------------------------------------------------------------
(* What a return and a pop of the flags find                               *)

LEMMA OnlyRetAndPop ==
  ASSUME NEW io, Instruction(io), opcode \in {\h6f, \h8e}
  PROVE  /\ opcode = \h6f => insn_ret
         /\ opcode = \h8e => insn_pop
<1>1. /\ opcode = \h6f => Column = 15 /\ Row = 3
      /\ opcode = \h8e => Column = 14 /\ Row = 4
  BY DEF Column, Row
<1>2. Column \in {14, 15} /\ Row \in {3, 4} /\ opcode % 16 # 1
  BY <1>1
<1>3. ~ \/ insn_or(io) \/ insn_and(io) \/ insn_eor(io) \/ insn_adc(io) \/ insn_sbc(io)
        \/ insn_cmp(io)
  BY <1>2
  DEF insn_or, insn_and, insn_eor, insn_adc, insn_sbc, insn_cmp, OnA, OnMemory,
      DP, ABS, IX, DX_IND, IMM, DPX, ABSX, ABSY, DPIY, DP_DP, DP_IMM, IX_IY
<1>4. ~ \/ insn_asl(io) \/ insn_rol(io) \/ insn_lsr(io) \/ insn_ror(io)
        \/ insn_dec(io) \/ insn_inc(io)
  BY <1>2 DEF insn_asl, insn_rol, insn_lsr, insn_ror, insn_dec, insn_inc, OnByte
<1>5. ~(insn_cmp_xy(io) \/ insn_step_xy \/ insn_xcn \/ insn_store_xy \/ insn_mov_dp(io))
  BY DEF insn_cmp_xy, insn_step_xy, insn_xcn, insn_store_xy, insn_mov_dp
<1>6. ~(insn_mov_a(io) \/ insn_mov_x(io) \/ insn_mov_y(io) \/ insn_store_a(io))
  BY <1>2 DEF insn_mov_a, insn_mov_x, insn_mov_y, insn_store_a
<1>7. ~ \/ insn_ya(io) \/ insn_movw_dp_ya \/ insn_stepw(io) \/ insn_mul_ya
        \/ insn_divw_ya_x
  BY DEF insn_ya, insn_movw_dp_ya, insn_stepw, insn_mul_ya, insn_divw_ya_x
<1>8. ~ \/ insn_set_db(io) \/ insn_clr_db(io) \/ insn_bbs_db(io) \/ insn_bbc_db(io)
        \/ insn_carry_bit(io) \/ insn_store_bit(io) \/ insn_test_abs(io) \/ insn_flags
  BY <1>2
  DEF insn_set_db, insn_clr_db, OnBit, insn_bbs_db, insn_bbc_db, BranchOnBit,
      insn_carry_bit, insn_store_bit, insn_test_abs, insn_flags
<1>9. ~ \/ insn_branch \/ insn_cbne(io) \/ insn_dbnz_dp(io) \/ insn_dbnz_y \/ insn_jmp(io)
        \/ insn_call_abs \/ insn_tcall \/ insn_push
  <2>1. ~insn_branch
    <3>1. insn_branch => opcode \in {\h2f, \h10, \h30, \h90, \hb0, \hd0, \hf0}
      BY Zenon DEF insn_branch
    <3> QED BY <3>1
  <2>2. ~insn_cbne(io) /\ ~insn_dbnz_dp(io) /\ ~insn_dbnz_y /\ ~insn_jmp(io)
    BY DEF insn_cbne, insn_dbnz_dp, insn_dbnz_y, insn_jmp
  <2>3. ~insn_call_abs /\ ~insn_tcall
    BY <1>2 DEF insn_call_abs, insn_tcall
  <2>4. ~insn_push
    BY DEF insn_push
  <2> QED BY <2>1, <2>2, <2>3, <2>4
<1>10. insn_ret \/ insn_pop
  BY <1>3, <1>4, <1>5, <1>6, <1>7, <1>8, <1>9 DEF Instruction
<1> QED BY <1>10 DEF insn_ret, insn_pop

\* The entry on top of the stack is at the bytes that a pop reads.
LEMMA TopSlots ==
  ASSUME sp \in Byte, depth \in Int
  PROVE  Slot(depth) = StackAddr(1) /\ Slot(depth - 1) = StackAddr(2)
<1>1. sp + depth + 1 - depth = sp + 1 /\ sp + depth + 1 - (depth - 1) = sp + 2
  BY DEF Byte
<1> QED BY <1>1 DEF Slot, StackAddr

LEMMA ReturnStep ==
  ASSUME IInv, Next, NEW e \in pushed,
         left' # left, opcode = \h6f, e.depth = depth, e.what[1] = "pc", e.ok
  PROVE  pc' = e.what[2]
<1>1. Execute
  BY DEF Next, Halt, OtherStore
<1>2. pc' = ReturnAddress
  BY <1>1, OnlyRetAndPop DEF Execute, insn_ret
<1>3. sp \in Byte /\ depth \in Int /\ EntryInv(e)
  BY DEF IInv, StackInv
<1>4. e.what[2] \in Word /\ Top(1) = e.what[2] % 256 /\ Top(2) = e.what[2] \div 256
  BY <1>3, TopSlots DEF EntryInv, Top
<1> QED BY <1>2, <1>4, Halves DEF ReturnAddress

LEMMA PopStep ==
  ASSUME IInv, Next, NEW e \in pushed,
         left' # left, opcode = \h8e, e.depth = depth, e.what[1] = "psw", e.ok
  PROVE  psw' = e.what[2]
<1>1. Execute
  BY DEF Next, Halt, OtherStore
<1>2. psw' = bits(Top(1))
  BY <1>1, OnlyRetAndPop DEF Execute, insn_pop, psw_decompose
<1>3. sp \in Byte /\ depth \in Int /\ EntryInv(e)
  BY DEF IInv, StackInv
<1>4. e.what[2] \in Flags /\ Top(1) = byte_of(e.what[2])
  BY <1>3, TopSlots DEF EntryInv, Top
<1> QED BY <1>2, <1>4, BitsOfByte

\* insn_ret, insn_call_abs, insn_tcall: a return that finds its call's entry on top,
\* no store having gone over it, goes to the instruction after the call, however deep
\* the stack went and however often it wrapped around its page in between.
THEOREM ReturnsGoBack == Spec => ReturnsToCaller
<1>1. IInv /\ [Next]_vars =>
        [\A e \in pushed :
           (left' # left /\ opcode = \h6f /\ e.depth = depth /\ e.what[1] = "pc" /\ e.ok)
             => pc' = e.what[2]]_vars
  BY ReturnStep
<1> QED BY <1>1, Invariance, PTL DEF Spec, ReturnsToCaller

\* insn_push_psw, insn_pop_psw: all eight flags come back.
THEOREM FlagsComeBack == Spec => FlagsRestored
<1>1. IInv /\ [Next]_vars =>
        [\A e \in pushed :
           (left' # left /\ opcode = \h8e /\ e.depth = depth /\ e.what[1] = "psw" /\ e.ok)
             => psw' = e.what[2]]_vars
  BY PopStep
<1> QED BY <1>1, Invariance, PTL DEF Spec, FlagsRestored

-----------------------------------------------------------------------------
(* What the sixteen-bit sum computes                                       *)

\* Flags that are set one after the other.
LEMMA PutFlags ==
  ASSUME NEW f \in Flags, NEW c \in BOOLEAN, NEW h \in BOOLEAN, NEW v \in BOOLEAN
  PROVE  LET g == Put(Put(Put(f, PSW_C, c), PSW_H, h), PSW_V, v) IN
         (PSW_C \in g <=> c) /\ (PSW_H \in g <=> h) /\ (PSW_V \in g <=> v)
BY DEF Put, PSW_C, PSW_H, PSW_V, Flags, BitNo

\* A word's zero and negative flags leave the others.
LEMMA SetZn16Flags ==
  ASSUME NEW f \in Flags, NEW r \in Int
  PROVE  /\ PSW_Z \in set_zn16(r, f) <=> r = 0
         /\ PSW_N \in set_zn16(r, f) <=> r > 32767
         /\ PSW_C \in set_zn16(r, f) <=> PSW_C \in f
         /\ PSW_H \in set_zn16(r, f) <=> PSW_H \in f
         /\ PSW_V \in set_zn16(r, f) <=> PSW_V \in f
BY DEF set_zn16, Put, PSW_C, PSW_H, PSW_V, PSW_Z, PSW_N, Flags, BitNo

\* What comes out of adding two bytes and a carry: another one, from bit 7, bit 3 or
\* into the sign.
ByteCarries(m, n, c) == m + n + c >= 256
ByteHalfCarries(m, n, c) == (m % 16) + (n % 16) + c >= 16
ByteOverflows(m, n, c) ==
  /\ (m >= 128) <=> (n >= 128)
  /\ ~(((m + n + c) % 256 >= 128) <=> (m >= 128))

\* adc's result and flags.
LEMMA AdcComputes ==
  ASSUME NEW m \in Byte, NEW n \in Byte, NEW f \in Flags
  PROVE  /\ adc(m, n, f).val = (m + n + Carry(f)) % 256
         /\ PSW_C \in adc(m, n, f).psw <=> ByteCarries(m, n, Carry(f))
         /\ PSW_H \in adc(m, n, f).psw <=> ByteHalfCarries(m, n, Carry(f))
         /\ PSW_V \in adc(m, n, f).psw <=> ByteOverflows(m, n, Carry(f))
<1> DEFINE t == (m + n + Carry(f)) % 256
           carries == m + n + Carry(f) >= 256
           half == (m % 16) + (n % 16) + Carry(f) >= 16
           over == ((m >= 128) = (n >= 128)) /\ ((t >= 128) # (m >= 128))
<1>1. adc(m, n, f) = [val |-> t,
        psw |-> Put(Put(Put(f, PSW_C, carries), PSW_H, half), PSW_V, over)]
  BY DEF adc
<1>2. carries \in BOOLEAN /\ half \in BOOLEAN /\ over \in BOOLEAN
  OBVIOUS
<1> HIDE DEF carries, half, over
<1>3. /\ adc(m, n, f).val = t
      /\ PSW_C \in adc(m, n, f).psw <=> carries
      /\ PSW_H \in adc(m, n, f).psw <=> half
      /\ PSW_V \in adc(m, n, f).psw <=> over
  BY <1>1, <1>2, PutFlags
<1>4. over <=> ByteOverflows(m, n, Carry(f))
  BY DEF over, ByteOverflows
<1>5. (carries <=> ByteCarries(m, n, Carry(f))) /\ (half <=> ByteHalfCarries(m, n, Carry(f)))
  BY DEF carries, half, ByteCarries, ByteHalfCarries
<1> HIDE DEF t
<1>6. adc(m, n, f).val = (m + n + Carry(f)) % 256
  BY <1>3 DEF t
<1> QED BY <1>3, <1>4, <1>5, <1>6

\* The word of two bytes, and the sum modulo a word's size.
Joined(l, h) == l + 256 * h
WordSum(m, n, c) == (m + n + c) % 65536
ByteSum(m, n, c) == (m + n + c) % 256

\* The same of adding two words and a carry.
WordCarries(m, n, c) == m + n + c > 65535
WordHalfCarries(m, n, c) == (m % 4096) + (n % 4096) + c > 4095
WordOverflows(m, n, c) ==
  \/ Signed16(m) + Signed16(n) + c < -32768
  \/ Signed16(m) + Signed16(n) + c > 32767

\* The low byte and the high byte of a word.
Lo(m) == m % 256
Hi(m) == m \div 256

LEMMA LoHi ==
  ASSUME NEW m \in Word
  PROVE  /\ Lo(m) \in 0 .. 255 /\ Hi(m) \in 0 .. 255 /\ Lo(m) \in Byte /\ Hi(m) \in Byte
         /\ m = Joined(Lo(m), Hi(m))
BY Halves DEF Byte, Lo, Hi, Joined

\* Words m and n in halves, a carry c into the low ones and the carry d out of them.
InHalves(m, n, c, d, ml, mh, nl, nh) ==
  /\ ml \in 0 .. 255 /\ mh \in 0 .. 255 /\ nl \in 0 .. 255 /\ nh \in 0 .. 255
  /\ m = Joined(ml, mh) /\ n = Joined(nl, nh)
  /\ c \in 0 .. 1 /\ d \in 0 .. 1 /\ (d = 1 <=> ByteCarries(ml, nl, c))

\* Adding bytes adds words when the carry out of the low ones goes into the high ones.
LEMMA BytesAddWords ==
  ASSUME NEW m, NEW n, NEW c, NEW d, NEW ml, NEW mh, NEW nl, NEW nh,
         InHalves(m, n, c, d, ml, mh, nl, nh)
  PROVE  /\ Joined(ByteSum(ml, nl, c), ByteSum(mh, nh, d)) = WordSum(m, n, c)
         /\ ByteCarries(mh, nh, d) <=> WordCarries(m, n, c)
         /\ ByteHalfCarries(mh, nh, d) <=> WordHalfCarries(m, n, c)
         /\ ByteOverflows(mh, nh, d) <=> WordOverflows(m, n, c)
<1> /\ ml \in 0 .. 255 /\ mh \in 0 .. 255 /\ nl \in 0 .. 255 /\ nh \in 0 .. 255
    /\ m = ml + 256 * mh /\ n = nl + 256 * nh
    /\ c \in 0 .. 1 /\ d \in 0 .. 1 /\ (d = 1 <=> ByteCarries(ml, nl, c))
  BY DEF InHalves, Joined
<1> USE DEF Joined
<1>1. d = 1 <=> ml + nl + c >= 256
  BY DEF ByteCarries
<1>2. /\ (ml + nl + c) % 256 = ml + nl + c - 256 * d
      /\ ml + nl + c - 256 * d \in 0 .. 255
  BY <1>1
<1>3. m + n + c = (ml + nl + c - 256 * d) + 256 * (mh + nh + d)
  OBVIOUS
<1>4. ByteCarries(mh, nh, d) <=> WordCarries(m, n, c)
  <2>1. mh + nh + d >= 256 <=> m + n + c > 65535
    BY <1>2, <1>3
  <2> QED BY <2>1 DEF ByteCarries, WordCarries
<1>5. ByteHalfCarries(mh, nh, d) <=> WordHalfCarries(m, n, c)
  <2>1. m % 4096 = ml + 256 * (mh % 16) /\ n % 4096 = nl + 256 * (nh % 16)
    OBVIOUS
  <2>2. (mh % 16) + (nh % 16) + d >= 16 <=> (m % 4096) + (n % 4096) + c > 4095
    BY <1>1, <2>1
  <2> QED BY <2>2 DEF ByteHalfCarries, WordHalfCarries
<1> DEFINE k == mh + nh + d
           l == ml + nl + c - 256 * d
           sum == Signed16(m) + Signed16(n) + c
<1>6. k \in Nat /\ k < 512 /\ l \in 0 .. 255
  BY <1>2
<1>7. sum = l + 256 * k - (IF mh >= 128 THEN 65536 ELSE 0) - (IF nh >= 128 THEN 65536 ELSE 0)
  <2>1. (m >= 32768 <=> mh >= 128) /\ (n >= 32768 <=> nh >= 128)
    OBVIOUS
  <2>2. m \in Int /\ n \in Int
    OBVIOUS
  <2> QED BY <1>3, <2>1, <2>2 DEF Signed16
<1>8. k = mh + nh + d
  OBVIOUS
<1> HIDE DEF k, l, sum
<1>9. Joined(ByteSum(ml, nl, c), ByteSum(mh, nh, d)) = WordSum(m, n, c)
  <2>1. l + 256 * (k % 256) = (l + 256 * k) % 65536
    BY <1>6
  <2> QED BY <1>2, <1>3, <2>1 DEF k, l, ByteSum, WordSum
<1>10. ByteOverflows(mh, nh, d) <=> WordOverflows(m, n, c)
  <2>1. (sum < -32768 \/ sum > 32767)
          <=> ((mh >= 128) <=> (nh >= 128)) /\ ~((k % 256 >= 128) <=> (mh >= 128))
    <3>1. CASE mh >= 128 /\ nh >= 128
      BY <1>6, <1>7, <1>8, <3>1
    <3>2. CASE mh >= 128 /\ ~(nh >= 128)
      BY <1>6, <1>7, <1>8, <3>2
    <3>3. CASE ~(mh >= 128) /\ nh >= 128
      BY <1>6, <1>7, <1>8, <3>3
    <3>4. CASE ~(mh >= 128) /\ ~(nh >= 128)
      BY <1>6, <1>7, <1>8, <3>4
    <3> QED BY <3>1, <3>2, <3>3, <3>4
  <2>2. WordOverflows(m, n, c) <=> sum < -32768 \/ sum > 32767
    BY DEF WordOverflows, sum
  <2>3. ByteOverflows(mh, nh, d)
          <=> ((mh >= 128) <=> (nh >= 128)) /\ ~((k % 256 >= 128) <=> (mh >= 128))
    BY DEF ByteOverflows, k
  <2> QED BY <2>1, <2>2, <2>3
<1> QED BY <1>4, <1>5, <1>9, <1>10

\* A result and flags that are those of a sum of words and a carry.
Computes(r, m, n, c) ==
  /\ r.val = WordSum(m, n, c)
  /\ PSW_C \in r.psw <=> WordCarries(m, n, c)
  /\ PSW_H \in r.psw <=> WordHalfCarries(m, n, c)
  /\ PSW_V \in r.psw <=> WordOverflows(m, n, c)
  /\ PSW_Z \in r.psw <=> r.val = 0
  /\ PSW_N \in r.psw <=> r.val > 32767

\* Two additions of bytes make one of words.
WideAdc(m, n, f) == Wide(adc, m, n, f)

\* The sum of bytes with the carry between them has the value and flags of words'.
LEMMA WideComputes ==
  ASSUME NEW m \in Word, NEW n \in Word, NEW f \in Flags
  PROVE  Computes(WideAdc(m, n, f), m, n, Carry(f))
<1> DEFINE c == Carry(f)
           lo == adc(Lo(m), Lo(n), f)
           d == Carry(lo.psw)
           hi == adc(Hi(m), Hi(n), lo.psw)
           v == lo.val + 256 * hi.val
           r == WideAdc(m, n, f)
<1>1. /\ Lo(m) \in Byte /\ Hi(m) \in Byte /\ Lo(n) \in Byte /\ Hi(n) \in Byte
      /\ c \in 0 .. 1 /\ d \in 0 .. 1
  BY LoHi, CarryType
<1>2. lo \in Res /\ hi \in Res
  BY <1>1, AdcType DEF Res
<1>3. r.val = v /\ r.psw = set_zn16(v, hi.psw)
  BY DEF WideAdc, Wide, Lo, Hi
<1>4. lo.val = ByteSum(Lo(m), Lo(n), c) /\ (d = 1 <=> ByteCarries(Lo(m), Lo(n), c))
  BY <1>1, AdcComputes DEF Carry, ByteSum
<1>5. /\ hi.val = ByteSum(Hi(m), Hi(n), d)
      /\ PSW_C \in hi.psw <=> ByteCarries(Hi(m), Hi(n), d)
      /\ PSW_H \in hi.psw <=> ByteHalfCarries(Hi(m), Hi(n), d)
      /\ PSW_V \in hi.psw <=> ByteOverflows(Hi(m), Hi(n), d)
  BY <1>1, <1>2, AdcComputes DEF Res, ByteSum
<1> HIDE DEF c, lo, d, hi, r
<1>6. hi.psw \in Flags /\ v \in Int
  <2>1. lo.val \in Byte /\ hi.val \in Byte /\ hi.psw \in Flags
    BY <1>2 DEF Res
  <2>2. \A p, q \in Byte : p + 256 * q \in Int
    BY DEF Byte
  <2> QED BY <2>1, <2>2
<1>7. v = Joined(ByteSum(Lo(m), Lo(n), c), ByteSum(Hi(m), Hi(n), d))
  BY <1>4, <1>5 DEF Joined
<1> HIDE DEF v
<1>8. /\ v = WordSum(m, n, c)
      /\ ByteCarries(Hi(m), Hi(n), d) <=> WordCarries(m, n, c)
      /\ ByteHalfCarries(Hi(m), Hi(n), d) <=> WordHalfCarries(m, n, c)
      /\ ByteOverflows(Hi(m), Hi(n), d) <=> WordOverflows(m, n, c)
  <2>1. /\ Lo(m) \in 0 .. 255 /\ Hi(m) \in 0 .. 255 /\ Lo(n) \in 0 .. 255 /\ Hi(n) \in 0 .. 255
        /\ m = Joined(Lo(m), Hi(m)) /\ n = Joined(Lo(n), Hi(n))
    BY LoHi
  <2>2. InHalves(m, n, c, d, Lo(m), Hi(m), Lo(n), Hi(n))
    BY <1>1, <1>4, <2>1 DEF InHalves
  <2>3. Joined(ByteSum(Lo(m), Lo(n), c), ByteSum(Hi(m), Hi(n), d)) = WordSum(m, n, c)
    BY <2>2, BytesAddWords
  <2>4. /\ ByteCarries(Hi(m), Hi(n), d) <=> WordCarries(m, n, c)
        /\ ByteHalfCarries(Hi(m), Hi(n), d) <=> WordHalfCarries(m, n, c)
        /\ ByteOverflows(Hi(m), Hi(n), d) <=> WordOverflows(m, n, c)
    BY <2>2, BytesAddWords
  <2> QED BY <1>7, <2>3, <2>4
<1>9. Computes(r, m, n, c)
  BY <1>3, <1>5, <1>6, <1>8, SetZn16Flags DEF Computes
<1> QED BY <1>9 DEF r, c

\* The complement of a word is the complements of its bytes.
Complement(n) == 65535 - n

LEMMA ComplementHalves ==
  ASSUME NEW n \in Word
  PROVE  /\ Complement(n) \in Word
         /\ Complement(n) % 256 = 255 - (n % 256) /\ Complement(n) \div 256 = 255 - (n \div 256)
<1>1. n \in Int /\ 0 <= n /\ n <= 65535
  BY WordElim
<1>2. 65535 - n \in Int /\ 0 <= 65535 - n /\ 65535 - n < 65536
  BY <1>1
<1>3. Complement(n) \in Word
  BY <1>2, WordIntro DEF Complement
<1>4. (65535 - n) % 256 = 255 - (n % 256) /\ (65535 - n) \div 256 = 255 - (n \div 256)
  BY <1>1
<1> QED BY <1>3, <1>4 DEF Complement

\* alu_addw adds without a carry, whatever the flag was.
LEMMA AddwComputes ==
  ASSUME NEW m \in Word, NEW n \in Word, NEW f \in Flags
  PROVE  Computes(alu_addw(m, n, f), m, n, 0)
<1> DEFINE g == Put(f, PSW_C, FALSE)
<1>1. g \in Flags
  BY FlagNumbers DEF Put, Flags
<1>2. Carry(g) = 0
  <2>1. PSW_C \notin g
    BY DEF Put, Flags
  <2> QED BY <2>1, Zenon DEF Carry
<1>3. alu_addw(m, n, f) = WideAdc(m, n, g)
  BY DEF alu_addw, WideAdc, Wide
<1> HIDE DEF g
<1> QED BY <1>1, <1>2, <1>3, WideComputes

\* alu_subw adds the complement and one.
LEMMA SubwComputes ==
  ASSUME NEW m \in Word, NEW n \in Word, NEW f \in Flags
  PROVE  Computes(alu_subw(m, n, f), m, Complement(n), 1)
<1> DEFINE g == Put(f, PSW_C, TRUE)
<1>1. g \in Flags
  BY FlagNumbers DEF Put, Flags
<1>2. Carry(g) = 1
  <2>1. PSW_C \in g
    BY DEF Put, Flags
  <2> QED BY <2>1, Zenon DEF Carry
<1>3. alu_subw(m, n, f) = Wide(sbc, m, n, g)
  BY DEF alu_subw, Wide
<1> HIDE DEF g
<1>4. Wide(sbc, m, n, g) = WideAdc(m, Complement(n), g)
  BY ComplementHalves DEF WideAdc, Wide, sbc
<1> QED BY <1>1, <1>2, <1>3, <1>4, ComplementHalves, WideComputes

\* What WideIsSixteenBit asks of the sum or the difference r of words m and n.
IsSum(r, f, m, n) ==
  /\ r = (m + n) % 65536
  /\ PSW_C \in f <=> m + n > 65535
  /\ PSW_V \in f <=> Signed16(m) + Signed16(n) < -32768 \/ Signed16(m) + Signed16(n) > 32767
  /\ PSW_H \in f <=> (m % 4096) + (n % 4096) > 4095
IsDifference(r, f, m, n) ==
  /\ r = (m - n) % 65536
  /\ PSW_C \in f <=> m - n >= 0
  /\ PSW_V \in f <=> Signed16(m) - Signed16(n) < -32768 \/ Signed16(m) - Signed16(n) > 32767
  /\ PSW_H \in f <=> m % 4096 >= n % 4096
IsZeroNegative(r, f) == (PSW_Z \in f <=> r = 0) /\ (PSW_N \in f <=> r > 32767)

\* alu_addw's result is the sum, with the flags of sixteen bits.
LEMMA AddwIsSum ==
  ASSUME NEW m \in Word, NEW n \in Word, NEW f \in Flags, NEW r, r = alu_addw(m, n, f)
  PROVE  IsSum(r.val, r.psw, m, n) /\ IsZeroNegative(r.val, r.psw)
<1>1. m \in Int /\ n \in Int /\ m + n + 0 = m + n
  BY WordElim
<1>2. (m % 4096) + (n % 4096) + 0 = (m % 4096) + (n % 4096)
  BY <1>1
<1>3. Signed16(m) + Signed16(n) + 0 = Signed16(m) + Signed16(n)
  BY <1>1 DEF Signed16
<1>4. Computes(r, m, n, 0)
  BY AddwComputes
<1> QED
  BY <1>1, <1>2, <1>3, <1>4
  DEF Computes, WordSum, WordCarries, WordHalfCarries, WordOverflows, IsSum, IsZeroNegative

\* alu_subw's result is the difference, with the flags of sixteen bits.
LEMMA SubwIsDifference ==
  ASSUME NEW m \in Word, NEW n \in Word, NEW f \in Flags, NEW r, r = alu_subw(m, n, f)
  PROVE  IsDifference(r.val, r.psw, m, n) /\ IsZeroNegative(r.val, r.psw)
<1> DEFINE k == Complement(n)
<1>1. /\ m \in Int /\ 0 <= m /\ m <= 65535 /\ n \in Int /\ 0 <= n /\ n <= 65535
      /\ k = 65535 - n
  BY WordElim DEF Complement
<1> HIDE DEF k
<1>2. (m + k + 1) % 65536 = (m - n) % 65536
  <2>1. m + k + 1 = (m - n) + 65536
    BY <1>1
  <2>2. \A i \in Int : (i + 65536) % 65536 = i % 65536
    OBVIOUS
  <2> QED BY <1>1, <2>1, <2>2
<1>3. m + k + 1 > 65535 <=> m - n >= 0
  BY <1>1
<1>4. (m % 4096) + (k % 4096) + 1 > 4095 <=> m % 4096 >= n % 4096
  <2>1. k % 4096 = 4095 - (n % 4096)
    BY <1>1
  <2>2. m % 4096 \in Int /\ n % 4096 \in Int
    BY <1>1
  <2> QED BY <2>1, <2>2
<1>5. Signed16(m) + Signed16(k) + 1 = Signed16(m) - Signed16(n)
  BY <1>1 DEF Signed16
<1>6. Computes(r, m, k, 1)
  BY SubwComputes DEF k
<1>7. /\ r.val = (m - n) % 65536
      /\ PSW_C \in r.psw <=> m - n >= 0
  BY <1>2, <1>3, <1>6 DEF Computes, WordSum, WordCarries
<1>8. PSW_H \in r.psw <=> m % 4096 >= n % 4096
  BY <1>4, <1>6 DEF Computes, WordHalfCarries
<1>9. PSW_V \in r.psw <=> Signed16(m) - Signed16(n) < -32768 \/ Signed16(m) - Signed16(n) > 32767
  BY <1>5, <1>6 DEF Computes, WordOverflows
<1>10. IsZeroNegative(r.val, r.psw)
  BY <1>6 DEF Computes, IsZeroNegative
<1> QED BY <1>7, <1>8, <1>9, <1>10 DEF IsDifference

-----------------------------------------------------------------------------
(* What the division computes                                              *)

\* Quotients and remainders, of a dividend whose quotient fits a byte.
LEMMA QuotientFits ==
  ASSUME NEW n \in Nat, NEW k \in Nat \ {0}, n < 256 * k
  PROVE  /\ n \div k \in 0 .. 255 /\ n % k \in Nat /\ n % k < k
         /\ n = (n \div k) * k + (n % k)
<1>1. n \div k \in Int /\ n % k \in Nat /\ n % k < k /\ n = k * (n \div k) + (n % k)
  OBVIOUS
<1> DEFINE q == n \div k
           r == n % k
<1>2. q \in Int /\ r \in Nat /\ r < k /\ n = k * q + r
  BY <1>1
<1> HIDE DEF q, r
<1>3. q >= 0
  <2>1. q <= -1 => k * q <= -k
    BY <1>2
  <2> QED BY <1>2, <2>1
<1>4. q <= 255
  <2>1. q >= 256 => k * q >= k * 256
    BY <1>2
  <2> QED BY <1>2, <2>1
<1>5. k * q = q * k
  BY <1>2
<1>6. q \in 0 .. 255 /\ r \in Nat /\ r < k /\ n = q * k + r
  BY <1>2, <1>3, <1>4, <1>5
<1> QED BY <1>6 DEF q, r

\* divw's overflow flag alone tells whether the quotient fits.
LEMMA DivComputes ==
  ASSUME NEW q \in Byte, NEW r \in Byte, NEW k \in Byte, NEW f \in Flags, NEW d,
         d = divw(q, r, k, f), PSW_V \notin d.psw
  PROVE  256 * r + q = d.a * k + d.y /\ d.y < k
<1> DEFINE n == 256 * r + q
           fits == r < 2 * k
           quot == IF fits THEN (n \div k) % 256 ELSE (255 - (n - 512 * k) \div (256 - k)) % 256
           rem == IF fits THEN n % k ELSE (k + ((n - 512 * k) % (256 - k))) % 256
           half == r % 16 >= k % 16
           psw1 == Put(Put(f, PSW_H, half), PSW_V, r >= k)
<1>1. d = [a |-> quot, y |-> rem, psw |-> set_zn(quot, psw1)]
  BY DEF divw, DivOverflows
<1>2. r < k
  <2>1. PSW_V \in psw1 => PSW_V \in set_zn(quot, psw1)
    BY DEF set_zn, Put, PSW_V, PSW_Z, PSW_N
  <2>2. r >= k => PSW_V \in psw1
    BY DEF Put
  <2> HIDE DEF psw1, quot, rem
  <2>3. d.psw = set_zn(quot, psw1)
    BY <1>1
  <2>4. ~(r >= k)
    BY <2>1, <2>2, <2>3
  <2>5. r \in Int /\ k \in Int
    BY DEF Byte
  <2> QED BY <2>4, <2>5
<1>3. n \in Nat /\ k \in Nat \ {0} /\ n < 256 * k /\ fits
  BY <1>2 DEF Byte
<1> HIDE DEF n, fits
<1>4. /\ n \div k \in 0 .. 255 /\ n % k \in Nat /\ n % k < k
      /\ n = (n \div k) * k + (n % k)
  BY <1>3, QuotientFits
<1>5. quot = n \div k
  BY <1>3, <1>4
<1>6. rem = n % k
  BY <1>3
<1> HIDE DEF psw1, quot, rem
<1>7. d.a = quot /\ d.y = rem
  BY <1>1
<1>8. n = d.a * k + d.y /\ d.y < k
  BY <1>4, <1>5, <1>6, <1>7
<1> QED BY <1>8 DEF n

-----------------------------------------------------------------------------
(* The steps of the words' instructions                                    *)

\* The columns of addw, subw and div are theirs alone.
LEMMA OnlyWords ==
  ASSUME NEW io, Instruction(io), opcode \in {\h7a, \h9a, \h9e}
  PROVE  /\ opcode \in {\h7a, \h9a} => insn_ya(io)
         /\ opcode = \h9e => insn_divw_ya_x
<1>1. Column \in {26, 30} /\ Row \in {3, 4} /\ opcode % 16 # 1
  BY DEF Column, Row
<1>2. ~ \/ insn_or(io) \/ insn_and(io) \/ insn_eor(io) \/ insn_adc(io) \/ insn_sbc(io)
        \/ insn_cmp(io)
  BY <1>1
  DEF insn_or, insn_and, insn_eor, insn_adc, insn_sbc, insn_cmp, OnA, OnMemory,
      DP, ABS, IX, DX_IND, IMM, DPX, ABSX, ABSY, DPIY, DP_DP, DP_IMM, IX_IY
<1>3. ~ \/ insn_asl(io) \/ insn_rol(io) \/ insn_lsr(io) \/ insn_ror(io)
        \/ insn_dec(io) \/ insn_inc(io)
  BY <1>1 DEF insn_asl, insn_rol, insn_lsr, insn_ror, insn_dec, insn_inc, OnByte
<1>4. ~(insn_cmp_xy(io) \/ insn_step_xy \/ insn_xcn \/ insn_store_xy \/ insn_mov_dp(io))
  BY DEF insn_cmp_xy, insn_step_xy, insn_xcn, insn_store_xy, insn_mov_dp
<1>5. ~(insn_mov_a(io) \/ insn_mov_x(io) \/ insn_mov_y(io) \/ insn_store_a(io))
  BY <1>1 DEF insn_mov_a, insn_mov_x, insn_mov_y, insn_store_a
<1>6. ~(insn_movw_dp_ya \/ insn_stepw(io) \/ insn_mul_ya)
  BY DEF insn_movw_dp_ya, insn_stepw, insn_mul_ya
<1>7. ~ \/ insn_set_db(io) \/ insn_clr_db(io) \/ insn_bbs_db(io) \/ insn_bbc_db(io)
        \/ insn_carry_bit(io) \/ insn_store_bit(io) \/ insn_test_abs(io) \/ insn_flags
  BY <1>1
  DEF insn_set_db, insn_clr_db, OnBit, insn_bbs_db, insn_bbc_db, BranchOnBit,
      insn_carry_bit, insn_store_bit, insn_test_abs, insn_flags
<1>8. ~ \/ insn_branch \/ insn_cbne(io) \/ insn_dbnz_dp(io) \/ insn_dbnz_y \/ insn_jmp(io)
        \/ insn_call_abs \/ insn_tcall \/ insn_ret \/ insn_push \/ insn_pop
  <2>1. ~insn_branch
    <3>1. insn_branch => opcode \in {\h2f, \h10, \h30, \h90, \hb0, \hd0, \hf0}
      BY Zenon DEF insn_branch
    <3> QED BY <3>1
  <2>2. ~insn_cbne(io) /\ ~insn_dbnz_dp(io) /\ ~insn_dbnz_y /\ ~insn_jmp(io)
    BY DEF insn_cbne, insn_dbnz_dp, insn_dbnz_y, insn_jmp
  <2>3. ~insn_call_abs /\ ~insn_tcall
    BY <1>1 DEF insn_call_abs, insn_tcall
  <2>4. ~insn_ret /\ ~insn_push /\ ~insn_pop
    BY DEF insn_ret, insn_push, insn_pop
  <2> QED BY <2>1, <2>2, <2>3, <2>4
<1>9. insn_ya(io) \/ insn_divw_ya_x
  BY <1>2, <1>3, <1>4, <1>5, <1>6, <1>7, <1>8 DEF Instruction
<1> QED BY <1>9 DEF insn_ya, insn_divw_ya_x

\* A division whose overflow flag is clear divides.
LEMMA DivStep ==
  ASSUME IInv, Next, left' # left, opcode = \h9e, PSW_V \notin psw'
  PROVE  ya = a' * x + y' /\ y' < x
<1>1. Execute
  BY DEF Next, Halt, OtherStore
<1>2. insn_divw_ya_x
  BY <1>1, OnlyWords DEF Execute
<1>3. a \in Byte /\ x \in Byte /\ y \in Byte /\ psw \in Flags
  BY DEF IInv, Registers
<1>4. PICK d : d = divw(a, y, x, psw)
  OBVIOUS
<1>5. a' = d.a /\ y' = d.y /\ psw' = d.psw
  BY <1>2, <1>4 DEF insn_divw_ya_x
<1>6. 256 * y + a = d.a * x + d.y /\ d.y < x
  BY <1>3, <1>4, <1>5, DivComputes
<1> QED BY <1>5, <1>6 DEF ya

\* insn_divw_ya_x: when the overflow flag comes out clear, A and Y are the quotient and
\* the remainder, for every dividend and divisor, zero included.
THEOREM DivDivides == Spec => DivIsDivision
<1>1. IInv /\ [Next]_vars =>
        [(left' # left /\ opcode = \h9e /\ PSW_V \notin psw')
           => ya = a' * x + y' /\ y' < x]_vars
  BY DivStep
<1> QED BY <1>1, Invariance, PTL DEF Spec, DivIsDivision

\* Outside the MMIO page a word is loaded from memory.
LEMMA WordIsLoaded ==
  ASSUME Typed, NEW io, ~apu_mmio_address(direct_page), ~apu_mmio_address(direct_page + 1)
  PROVE  LoadWord(direct_page, io) = RamWord(direct_page)
<1>1. (direct_page + 1) % 65536 = direct_page + 1
  <2>1. \A b, p \in Int : p \in {0, 256} => (p + (b % 256) + 1) % 65536 = p + (b % 256) + 1
    OBVIOUS
  <2>2. op1 \in Int
    BY CodeType DEF Byte
  <2> QED BY <2>1, <2>2 DEF direct_page, direct_page_effective
<1> QED BY <1>1 DEF LoadWord, RamWord, Load

\* The operands of a word's instruction, and the two bytes its result goes to.
LEMMA YaType ==
  ASSUME a \in Byte, y \in Byte
  PROVE  ya \in Word
<1>1. a + 256 * y \in Word
  BY WordOfBytes
<1>2. 256 * y + a = a + 256 * y
  BY DEF Byte
<1> QED BY <1>1, <1>2 DEF ya

\* What set_ya leaves in Y and A is the result.
LEMMA YaAfter ==
  ASSUME NEW r \in WordRes, SetYA(r)
  PROVE  256 * y' + a' = r.val /\ psw' = r.psw
<1>1. r.val \in Word
  BY DEF WordRes
<1>2. /\ r.val % 256 \in Int /\ r.val \div 256 \in Int
      /\ r.val = (r.val % 256) + 256 * (r.val \div 256)
  BY <1>1, Halves DEF Byte
<1> QED BY <1>2 DEF SetYA

\* A step of addw or subw on a word outside the MMIO page.
LEMMA WideStep ==
  ASSUME IInv, Next, left' # left, opcode \in {\h7a, \h9a},
         ~apu_mmio_address(direct_page), ~apu_mmio_address(direct_page + 1),
         NEW w, w = RamWord(direct_page)
  PROVE  /\ opcode = \h7a => IsSum(256 * y' + a', psw', ya, w)
         /\ opcode = \h9a => IsDifference(256 * y' + a', psw', ya, w)
         /\ IsZeroNegative(256 * y' + a', psw')
<1>1. Execute
  BY DEF Next, Halt, OtherStore
<1>2. PICK io : insn_ya(io)
  BY <1>1, OnlyWords DEF Execute
<1>3. Typed /\ a \in Byte /\ y \in Byte /\ psw \in Flags
  BY Implied DEF IInv, Registers
<1>4. LoadWord(direct_page, io) = w
  BY <1>3, WordIsLoaded
<1>5. w \in Word /\ ya \in Word
  BY <1>3, WordLoadType, AddressType, YaType DEF Typed
<1>6. CASE opcode = \h7a
  <2>1. SetYA(alu_addw(ya, w, psw))
    BY <1>2, <1>4, <1>6 DEF insn_ya
  <2>2. alu_addw(ya, w, psw) \in WordRes
    BY <1>3, <1>5, WordSumType
  <2>3. /\ 256 * y' + a' = alu_addw(ya, w, psw).val
        /\ psw' = alu_addw(ya, w, psw).psw
    BY <2>1, <2>2, YaAfter
  <2> QED BY <1>3, <1>5, <1>6, <2>3, AddwIsSum
<1>7. CASE opcode = \h9a
  <2>1. SetYA(alu_subw(ya, w, psw))
    BY <1>2, <1>4, <1>7 DEF insn_ya
  <2>2. alu_subw(ya, w, psw) \in WordRes
    BY <1>3, <1>5, WordSumType
  <2>3. /\ 256 * y' + a' = alu_subw(ya, w, psw).val
        /\ psw' = alu_subw(ya, w, psw).psw
    BY <2>1, <2>2, YaAfter
  <2> QED BY <1>3, <1>5, <1>7, <2>3, SubwIsDifference
<1> QED BY <1>6, <1>7

\* alu_addw, alu_subw: the two additions of bytes make the sum or the difference of
\* sixteen bits with all its flags, for every operand and every flag before.
THEOREM WideComputesWords == Spec => WideIsSixteenBit
<1> DEFINE A == \A w \in {RamWord(direct_page)} :
       LET r == 256 * y' + a'
           sum == ya + w
           dif == ya - w
           signed == IF opcode = \h7a THEN Signed16(ya) + Signed16(w)
                                     ELSE Signed16(ya) - Signed16(w)
       IN  (left' # left /\ opcode \in {\h7a, \h9a} /\ ~apu_mmio_address(direct_page)
              /\ ~apu_mmio_address(direct_page + 1))
             => /\ r = (IF opcode = \h7a THEN sum ELSE dif) % 65536
                /\ PSW_C \in psw' <=> IF opcode = \h7a THEN sum > 65535 ELSE dif >= 0
                /\ PSW_V \in psw' <=> signed < -32768 \/ signed > 32767
                /\ PSW_H \in psw' <=> IF opcode = \h7a
                                      THEN (ya % 4096) + (w % 4096) > 4095
                                      ELSE ya % 4096 >= w % 4096
                /\ PSW_Z \in psw' <=> r = 0
                /\ PSW_N \in psw' <=> r > 32767
<1>1. IInv /\ Next => A
  <2> SUFFICES ASSUME IInv, Next, left' # left, opcode \in {\h7a, \h9a},
                      ~apu_mmio_address(direct_page), ~apu_mmio_address(direct_page + 1),
                      NEW w, w = RamWord(direct_page)
               PROVE  LET r == 256 * y' + a'
                          sum == ya + w
                          dif == ya - w
                          signed == IF opcode = \h7a THEN Signed16(ya) + Signed16(w)
                                                    ELSE Signed16(ya) - Signed16(w)
                      IN  /\ r = (IF opcode = \h7a THEN sum ELSE dif) % 65536
                          /\ PSW_C \in psw' <=> IF opcode = \h7a THEN sum > 65535 ELSE dif >= 0
                          /\ PSW_V \in psw' <=> signed < -32768 \/ signed > 32767
                          /\ PSW_H \in psw' <=> IF opcode = \h7a
                                                THEN (ya % 4096) + (w % 4096) > 4095
                                                ELSE ya % 4096 >= w % 4096
                          /\ PSW_Z \in psw' <=> r = 0
                          /\ PSW_N \in psw' <=> r > 32767
    OBVIOUS
  <2>1. /\ opcode = \h7a => IsSum(256 * y' + a', psw', ya, w)
        /\ opcode = \h9a => IsDifference(256 * y' + a', psw', ya, w)
        /\ IsZeroNegative(256 * y' + a', psw')
    BY WideStep
  <2>2. CASE opcode = \h7a
    BY <2>1, <2>2 DEF IsSum, IsZeroNegative
  <2>3. CASE opcode = \h9a
    BY <2>1, <2>3 DEF IsDifference, IsZeroNegative
  <2> QED BY <2>2, <2>3
<1>2. IInv /\ [Next]_vars => [A]_vars
  BY <1>1
<1> QED BY <1>2, Invariance, PTL DEF Spec, WideIsSixteenBit

-----------------------------------------------------------------------------
(* Where each instruction stores                                           *)

\* A step changes no bytes of memory but those of addrs.
StoresOnly(addrs) ==
  \A addr \in DOMAIN aram' : Contents(aram', addr) # Ram(addr) => addr \in addrs

DirectPageOf(addr) == addr \div 256 = (IF PSW_P \in psw THEN 1 ELSE 0)

\* What StoresInPage says of a step.
InPage ==
  \A addr \in DOMAIN aram' :
    Contents(aram', addr) # Ram(addr) =>
      \/ opcode \in DirectStores /\ addr \div 256 = (IF PSW_P \in psw THEN 1 ELSE 0)
      \/ opcode \in StackStores /\ addr \div 256 = 1
      \/ opcode \in OtherStores

\* A step that leaves memory alone stores nowhere.
LEMMA QuietInPage == UNCHANGED memory => InPage
BY DEF memory, InPage, Ram

\* One store changes one byte at most, two stores two.
LEMMA StoredOnly ==
  ASSUME NEW addr, NEW b, aram' = Stored(aram, addr, b)
  PROVE  StoresOnly({addr})
BY DEF Stored, StoresOnly, Contents, Ram

LEMMA StoredTwice ==
  ASSUME NEW k, NEW n, NEW b, NEW c, aram' = Stored(Stored(aram, k, b), n, c)
  PROVE  StoresOnly({k, n})
BY DEF Stored, StoresOnly, Contents, Ram

\* mem_store changes the byte it is given and no other.
LEMMA StoreOnly ==
  ASSUME NEW addr, NEW b, Store(addr, b)
  PROVE  StoresOnly({addr})
BY StoredOnly DEF Store

\* The three ways in which StoresInPage lets a step store.
LEMMA DirectInPage ==
  ASSUME opcode \in DirectStores, NEW addr, StoresOnly({addr}), DirectPageOf(addr)
  PROVE  InPage
BY DEF InPage, StoresOnly, DirectPageOf

LEMMA StackInPage ==
  ASSUME opcode \in StackStores, NEW addrs, StoresOnly(addrs),
         \A addr \in addrs : addr \div 256 = 1
  PROVE  InPage
BY DEF InPage, StoresOnly

LEMMA OtherInPage ==
  ASSUME opcode \in OtherStores
  PROVE  InPage
BY DEF InPage

\* direct_page_effective: indexed or not, the address is in the page that P selects.
LEMMA EffectiveInPage ==
  ASSUME NEW b \in Int
  PROVE  DirectPageOf(direct_page_effective(b))
<1>1. b % 256 \in 0 .. 255
  OBVIOUS
<1>2. \A k \in 0 .. 255 : (0 + k) \div 256 = 0 /\ (256 + k) \div 256 = 1
  OBVIOUS
<1> QED BY <1>1, <1>2 DEF DirectPageOf, direct_page_effective

LEMMA DirectPages ==
  ASSUME Typed
  PROVE  /\ DirectPageOf(direct_page) /\ DirectPageOf(direct_page_x)
         /\ DirectPageOf(direct_page_effective(x)) /\ DirectPageOf(direct_page_effective(y))
         /\ DirectPageOf(direct_page_effective(op2))
<1>1. op1 \in Int /\ op2 \in Int /\ x \in Int /\ y \in Int /\ op1 + x \in Int
  BY CodeType DEF Typed, Registers, Byte
<1> QED BY <1>1, EffectiveInPage DEF direct_page, direct_page_x

\* stack_addr: the stack is in page one.
LEMMA StackInPageOne ==
  ASSUME sp \in Byte, NEW k \in Int
  PROVE  StackAddr(k) \div 256 = 1
<1>1. \A i \in Int : (256 + (i % 256)) \div 256 = 1
  OBVIOUS
<1>2. sp + k \in Int
  BY DEF Byte
<1> QED BY <1>1, <1>2 DEF StackAddr

\* The opcode of a row and a column.
LEMMA OpcodeIs ==
  ASSUME Typed
  PROVE  opcode = 32 * Row + Column /\ Row \in BitNo /\ Column \in 0 .. 31
BY RowType

\* The instructions of each group store where StoresInPage says.
LEMMA TwoOperandsInPage ==
  ASSUME Typed, NEW io,
         insn_or(io) \/ insn_and(io) \/ insn_eor(io) \/ insn_adc(io) \/ insn_sbc(io)
  PROVE  InPage
<1>1. Row \in {0, 1, 2, 4, 5}
  BY DEF insn_or, insn_and, insn_eor, insn_adc, insn_sbc
<1>2. CASE Column \in OnAColumns
  <2>1. Column \notin {DP_DP, DP_IMM, IX_IY}
    BY <1>2 DEF OnAColumns, DP, ABS, IX, DX_IND, IMM, DPX, ABSX, ABSY, DPIY, DP_DP, DP_IMM, IX_IY
  <2>2. UNCHANGED memory
    BY <2>1 DEF insn_or, insn_and, insn_eor, insn_adc, insn_sbc, OnA, OnMemory
  <2> QED BY <2>2, QuietInPage
<1>3. CASE Column \in {DP_DP, DP_IMM, IX_IY}
  <2>1. Column \notin OnAColumns
    BY <1>3 DEF OnAColumns, DP, ABS, IX, DX_IND, IMM, DPX, ABSX, ABSY, DPIY, DP_DP, DP_IMM, IX_IY
  <2>2. StoresOnly({Target})
    <3>1. \E b : Store(Target, b)
      BY <2>1 DEF insn_or, insn_and, insn_eor, insn_adc, insn_sbc, OnA, OnMemory, OnAColumns
    <3> QED BY <3>1, StoreOnly
  <2>3. DirectPageOf(Target)
    BY DirectPages DEF Target
  <2>4. opcode \in DirectStores
    BY <1>1, <1>3, OpcodeIs DEF DirectStores, DP_DP, DP_IMM, IX_IY
  <2> QED BY <2>2, <2>3, <2>4, DirectInPage
<1> QED
  BY <1>2, <1>3 DEF insn_or, insn_and, insn_eor, insn_adc, insn_sbc, OnA, OnMemory, OnAColumns

LEMMA OneOperandInPage ==
  ASSUME Typed, NEW io,
         \/ insn_asl(io) \/ insn_rol(io) \/ insn_lsr(io) \/ insn_ror(io)
         \/ insn_dec(io) \/ insn_inc(io)
  PROVE  InPage
<1>1. Row \in 0 .. 5
  BY DEF insn_asl, insn_rol, insn_lsr, insn_ror, insn_dec, insn_inc
<1>2. CASE Column = 28
  <2>1. UNCHANGED memory
    BY <1>2 DEF insn_asl, insn_rol, insn_lsr, insn_ror, insn_dec, insn_inc, OnByte
  <2> QED BY <2>1, QuietInPage
<1>3. CASE Column = 12
  <2>1. opcode \in OtherStores
    BY <1>1, <1>3, OpcodeIs DEF OtherStores
  <2> QED BY <2>1, OtherInPage
<1>4. CASE Column \in {11, 27}
  <2>1. PICK addr \in {direct_page, direct_page_x} : \E b : Store(addr, b)
    BY <1>4 DEF insn_asl, insn_rol, insn_lsr, insn_ror, insn_dec, insn_inc, OnByte
  <2>2. DirectPageOf(addr)
    BY DirectPages
  <2>3. opcode \in DirectStores
    BY <1>1, <1>4, OpcodeIs DEF DirectStores
  <2>4. StoresOnly({addr})
    BY <2>1, StoreOnly
  <2> QED BY <2>2, <2>3, <2>4, DirectInPage
<1> QED
  BY <1>2, <1>3, <1>4 DEF insn_asl, insn_rol, insn_lsr, insn_ror, insn_dec, insn_inc, OnByte

\* The columns of the direct page address it.
LEMMA DirectColumns ==
  ASSUME NEW col, NEW io, col \in {DP, IX, DPX}
  PROVE  Effective(col, io) \in {direct_page, direct_page_x, direct_page_effective(x)}
<1> DEFINE p == LoadWord(direct_page_x, io)
           q == (absolute + x) % 65536
           r == (absolute + y) % 65536
           s == (LoadWord(direct_page, io) + y) % 65536
           t == direct_page_effective(x)
<1>1. Effective(col, io) =
        CASE col = 4 -> direct_page [] col = 5 -> absolute [] col = 6 -> t [] col = 7 -> p
          [] col = 20 -> direct_page_x [] col = 21 -> q [] col = 22 -> r [] col = 23 -> s
  BY DEF Effective, DP, ABS, IX, DX_IND, DPX, ABSX, ABSY, DPIY
<1>2. col \in {4, 6, 20}
  BY DEF DP, IX, DPX
<1> HIDE DEF p, q, r, s, t
<1>3. Effective(col, io) \in {direct_page, direct_page_x, t}
  BY <1>1, <1>2
<1> QED BY <1>3 DEF t

LEMMA MovesInPage ==
  ASSUME Typed, NEW io, insn_store_a(io) \/ insn_store_xy \/ insn_mov_dp(io)
  PROVE  InPage
<1>1. CASE insn_store_a(io)
  <2>1. Row = 6 /\ Column \in {DP, ABS, IX, DX_IND, DPX, ABSX, ABSY, DPIY}
    BY <1>1 DEF insn_store_a
  <2>2. CASE Column \in {DP, IX, DX_IND, DPX}
    <3>1. opcode \in DirectStores
      BY <2>1, <2>2, OpcodeIs DEF DirectStores, DP, IX, DX_IND, DPX
    <3>2. PICK addr \in {direct_page, direct_page_x, direct_page_effective(x)} : Store(addr, a)
      <4> DEFINE k == IF Column = DX_IND THEN direct_page_x ELSE Effective(Column, io)
      <4>1. Store(k, a)
        BY <1>1 DEF insn_store_a
      <4>2. k \in {direct_page, direct_page_x, direct_page_effective(x)}
        BY <2>2, DirectColumns
      <4> HIDE DEF k
      <4> QED BY <4>1, <4>2
    <3>3. DirectPageOf(addr)
      BY DirectPages
    <3>4. StoresOnly({addr})
      BY <3>2, StoreOnly
    <3> QED BY <3>1, <3>3, <3>4, DirectInPage
  <2>3. CASE Column \in {ABS, ABSX, ABSY, DPIY}
    <3>1. opcode \in OtherStores
      BY <2>1, <2>3, OpcodeIs DEF OtherStores, ABS, ABSX, ABSY, DPIY
    <3> QED BY <3>1, OtherInPage
  <2> QED BY <2>1, <2>2, <2>3
<1>2. CASE insn_store_xy
  <2>1. CASE opcode \in {\hc9, \hcc}
    BY <2>1, OtherInPage DEF OtherStores
  <2>2. CASE opcode \in {\hd8, \hcb, \hdb}
    <3>1. PICK addr \in {direct_page, direct_page_x} : \E b : Store(addr, b)
      BY <1>2, <2>2 DEF insn_store_xy
    <3>2. DirectPageOf(addr) /\ opcode \in DirectStores
      BY <2>2, DirectPages DEF DirectStores
    <3>3. StoresOnly({addr})
      BY <3>1, StoreOnly
    <3> QED BY <3>2, <3>3, DirectInPage
  <2> QED BY <1>2, <2>1, <2>2 DEF insn_store_xy
<1>3. CASE insn_mov_dp(io)
  <2>1. PICK b : Store(direct_page_effective(op2), b)
    BY <1>3 DEF insn_mov_dp
  <2>2. DirectPageOf(direct_page_effective(op2)) /\ opcode \in DirectStores
    BY <1>3, DirectPages DEF insn_mov_dp, DirectStores
  <2>3. StoresOnly({direct_page_effective(op2)})
    BY <2>1, StoreOnly
  <2> QED BY <2>2, <2>3, DirectInPage
<1> QED BY <1>1, <1>2, <1>3

LEMMA BitsInPage ==
  ASSUME Typed, NEW io,
         insn_set_db(io) \/ insn_clr_db(io) \/ insn_dbnz_dp(io)
  PROVE  InPage
<1>1. PICK b : Store(direct_page, b)
  BY DEF insn_set_db, insn_clr_db, OnBit, insn_dbnz_dp
<1>2. opcode \in DirectStores
  <2>1. CASE insn_dbnz_dp(io)
    BY <2>1 DEF insn_dbnz_dp, DirectStores
  <2>2. CASE insn_set_db(io) \/ insn_clr_db(io)
    <3>1. Column \in {2, 18}
      BY <2>2 DEF insn_set_db, insn_clr_db, OnBit
    <3> QED BY <3>1, OpcodeIs DEF DirectStores
  <2> QED BY <2>1, <2>2
<1>3. StoresOnly({direct_page})
  BY <1>1, StoreOnly
<1> QED BY <1>2, <1>3, DirectPages, DirectInPage

LEMMA OthersInPage ==
  ASSUME NEW io, insn_movw_dp_ya \/ insn_stepw(io) \/ insn_store_bit(io) \/ insn_test_abs(io)
  PROVE  InPage
<1>1. opcode \in OtherStores
  BY DEF insn_movw_dp_ya, insn_stepw, insn_store_bit, insn_test_abs, OtherStores
<1> QED BY <1>1, OtherInPage

LEMMA StackStoresInPage ==
  ASSUME Typed, insn_call_abs \/ insn_tcall \/ insn_push
  PROVE  InPage
<1>1. sp \in Byte
  BY DEF Typed
<1>2. opcode \in StackStores
  <2>1. CASE insn_tcall
    <3>1. opcode \in Byte /\ opcode % 16 = 1
      BY <2>1, CodeType DEF insn_tcall
    <3>2. \A o \in Byte : o % 16 = 1 => o \div 16 \in 0 .. 15 /\ o = 16 * (o \div 16) + 1
      BY DEF Byte
    <3> QED BY <3>1, <3>2 DEF StackStores
  <2>2. CASE insn_call_abs \/ insn_push
    BY <2>2 DEF insn_call_abs, insn_push, StackStores
  <2> QED BY <2>1, <2>2
<1>3. StackAddr(0) \div 256 = 1 /\ StackAddr(-1) \div 256 = 1
  BY <1>1, StackInPageOne
<1>4. CASE insn_push
  <2>1. StoresOnly({StackAddr(0)})
    BY <1>4, StoredOnly DEF insn_push, push_byte
  <2> QED BY <1>2, <1>3, <2>1, StackInPage
<1>5. CASE insn_call_abs \/ insn_tcall
  <2>1. StoresOnly({StackAddr(0), StackAddr(-1)})
    BY <1>5, StoredTwice DEF insn_call_abs, insn_tcall, call, push_word
  <2> QED BY <1>2, <1>3, <2>1, StackInPage
<1> QED BY <1>4, <1>5

\* The instructions that are for loading, comparing or branching store nothing.
LEMMA OthersQuiet ==
  ASSUME NEW io,
         \/ insn_cmp(io) \/ insn_cmp_xy(io) \/ insn_step_xy \/ insn_xcn
         \/ insn_mov_a(io) \/ insn_mov_x(io) \/ insn_mov_y(io)
         \/ insn_ya(io) \/ insn_mul_ya \/ insn_divw_ya_x
         \/ insn_bbs_db(io) \/ insn_bbc_db(io) \/ insn_carry_bit(io) \/ insn_flags
         \/ insn_branch \/ insn_cbne(io) \/ insn_dbnz_y \/ insn_jmp(io)
         \/ insn_ret \/ insn_pop
  PROVE  InPage
<1>1. aram' = aram
  <2>1. insn_cmp(io) \/ insn_cmp_xy(io) \/ insn_step_xy \/ insn_xcn => aram' = aram
    BY DEF insn_cmp, insn_cmp_xy, insn_step_xy, insn_xcn, memory
  <2>2. insn_mov_a(io) \/ insn_mov_x(io) \/ insn_mov_y(io) => aram' = aram
    BY DEF insn_mov_a, insn_mov_x, insn_mov_y, memory
  <2>3. insn_ya(io) \/ insn_mul_ya \/ insn_divw_ya_x => aram' = aram
    BY DEF insn_ya, insn_mul_ya, insn_divw_ya_x, memory
  <2>4. insn_bbs_db(io) \/ insn_bbc_db(io) \/ insn_carry_bit(io) \/ insn_flags => aram' = aram
    BY DEF insn_bbs_db, insn_bbc_db, BranchOnBit, insn_carry_bit, insn_flags, memory
  <2>5. insn_branch \/ insn_cbne(io) \/ insn_dbnz_y \/ insn_jmp(io) => aram' = aram
    <3>1. insn_branch => UNCHANGED <<a, x, y, psw, memory>>
      BY Zenon DEF insn_branch
    <3> QED BY <3>1 DEF insn_cbne, insn_dbnz_y, insn_jmp, memory
  <2>6. insn_ret \/ insn_pop => aram' = aram
    BY DEF insn_ret, insn_pop, pop
  <2> QED BY <2>1, <2>2, <2>3, <2>4, <2>5, <2>6
<1> QED BY <1>1 DEF InPage, Ram

\* Every instruction is of one of those groups.
LEMMA PageStep ==
  ASSUME IInv, Next, left' # left
  PROVE  InPage
<1>1. Execute
  BY DEF Next, Halt, OtherStore
<1>2. PICK io : Instruction(io)
  BY <1>1 DEF Execute
<1>3. Typed
  BY Implied
<1> QED
  BY <1>2, <1>3, TwoOperandsInPage, OneOperandInPage, MovesInPage, BitsInPage, OthersInPage,
     StackStoresInPage, OthersQuiet
  DEF Instruction

\* direct_page_effective, stack_addr: a direct page instruction stores only to the page
\* that P selects, indexed or not, a push only to page one, and an instruction that
\* is for loading stores nothing, for every program, memory and start.
THEOREM StoresStayInPage == Spec => StoresInPage
<1>1. IInv /\ [Next]_vars => [left' # left => InPage]_vars
  BY PageStep
<1> QED BY <1>1, Invariance, PTL DEF Spec, StoresInPage, InPage
=============================================================================
