-------------------------------- MODULE Cpu --------------------------------
(***************************************************************************)
(* The SPC700 interpreter of src/spc700.c: one action per group of opcodes *)
(* that share their code, on the registers and on memory.  Instructions    *)
(* are fetched from memory as the program does.                            *)
(*                                                                         *)
(* What an MMIO register reads is up to the APU, so each load of one may   *)
(* return any byte of IoBytes; what else a load or a store of one does is  *)
(* in Apu.  The DSP's echo and the boot ROM overlay write memory too.      *)
(***************************************************************************)
EXTENDS CpuAlu

CONSTANTS
  Image,     \* memory as the song file fills it
  Starts,    \* the registers a song file may carry, and a bound: how many
             \* instructions are followed from there
  IoBytes,   \* what a load of an MMIO register may return
  Shared     \* the addresses that the echo and the overlay write

ASSUME ImageAssumption == Image \in [Word -> Byte]
ASSUME StartsAssumption ==
  Starts \subseteq [pc : Word, a : Byte, x : Byte, y : Byte, sp : Byte, psw : Byte, bound : Nat]
ASSUME IoAssumption == IoBytes \subseteq Byte /\ Shared \subseteq Word

VARIABLES
  pc, a, x, y, sp,
  psw,      \* the flags that are set
  aram,     \* the bytes of memory stored to, by address; the others are Image's
  status,   \* "run", or "halt" when spc700_run_forever has returned
  left,     \* instructions left to the bound
  \* History variables: what is on the stack.
  depth,    \* bytes pushed and not popped, since the start
  pushed    \* an entry for each push or call not yet popped: what it pushed,
            \* where, the depth after it, and whether the bytes are untouched

stack == <<sp, depth, pushed>>
memory == <<aram, stack>>
vars == <<pc, a, x, y, psw, memory, status, left>>

Init ==
  \E s \in Starts :
    /\ pc = s.pc /\ a = s.a /\ x = s.x /\ y = s.y /\ sp = s.sp
    /\ psw = bits(s.psw)
    /\ aram = [addr \in {} |-> 0]
    /\ status = "run" /\ left = s.bound
    /\ depth = 0 /\ pushed = {}

-----------------------------------------------------------------------------
(* Memory and addressing                                                   *)

Contents(m, addr) == IF addr \in DOMAIN m THEN m[addr] ELSE Image[addr]
Ram(addr) == Contents(aram, addr)
RamWord(addr) == Ram(addr) + 256 * Ram((addr + 1) % 65536)

apu_mmio_address(addr) == addr \div 16 = 15

\* mem_load, when an MMIO register would read `in'.
Load(addr, in) == IF apu_mmio_address(addr) THEN in ELSE Ram(addr)
LoadWord(addr, io) == Load(addr, io[1]) + 256 * Load((addr + 1) % 65536, io[2])

Stored(m, addr, b) == [k \in DOMAIN m \cup {addr} |-> IF k = addr THEN b ELSE m[k]]

\* The entries after bytes of their own, at addrs, were stored over.
Touched(entries, addrs) ==
  {[at |-> e.at, what |-> e.what, depth |-> e.depth,
    ok |-> e.ok /\ e.at \cap addrs = {}] : e \in entries}

\* mem_store
Store(addr, b) ==
  /\ aram' = Stored(aram, addr, b)
  /\ pushed' = Touched(pushed, {addr})
  /\ UNCHANGED <<sp, depth>>

\* The opcode and the two bytes that may follow it.
opcode == Ram(pc)
op1 == Ram((pc + 1) % 65536)
op2 == Ram((pc + 2) % 65536)

\* The opcode table's columns and rows.
Column == opcode % 32
Row == opcode \div 32

Advance(n) == pc' = (pc + n) % 65536

\* A relative branch from the end of an instruction of n bytes.
Branch(n, disp, taken) ==
  pc' = (pc + n + (IF ~taken THEN 0 ELSE IF disp >= 128 THEN disp - 256 ELSE disp)) % 65536

\* direct_page_effective: the address is a byte, so that indexing wraps in the page.
direct_page_effective(b) == (IF PSW_P \in psw THEN 256 ELSE 0) + (b % 256)

direct_page == direct_page_effective(op1)

\* Mutant: indexing leaves the page.
direct_page_xSpills == direct_page + x

direct_page_x == direct_page_effective(op1 + x)
absolute == op1 + 256 * op2

\* The columns of the instructions that work on A and an operand.
DP == 4
ABS == 5
IX == 6
DX_IND == 7
IMM == 8
DPX == 20
ABSX == 21
ABSY == 22
DPIY == 23

Effective(col, io) ==
  CASE col = DP -> direct_page
    [] col = ABS -> absolute
    [] col = IX -> direct_page_effective(x)
    [] col = DX_IND -> LoadWord(direct_page_x, io)
    [] col = DPX -> direct_page_x
    [] col = ABSX -> (absolute + x) % 65536
    [] col = ABSY -> (absolute + y) % 65536
    [] col = DPIY -> (LoadWord(direct_page, io) + y) % 65536

Operand(col, io) == IF col = IMM THEN op1 ELSE Load(Effective(col, io), io[3])

Length(col) == CASE col = IX -> 1 [] col \in {ABS, ABSX, ABSY} -> 3 [] OTHER -> 2

\* stack_addr, k bytes above the last byte pushed.
StackAddr(k) == 256 + ((sp + k) % 256)
Top(k) == Ram(StackAddr(k))

Entry(addrs, what, d) == [at |-> addrs, what |-> what, depth |-> d, ok |-> TRUE]

push_byte(b, what) ==
  /\ aram' = Stored(aram, StackAddr(0), b)
  /\ sp' = (sp - 1) % 256
  /\ depth' = depth + 1
  /\ pushed' = Touched(pushed, {StackAddr(0)})
                 \cup {Entry({StackAddr(0)}, what, depth + 1)}

push_word(w, what) ==
  LET at == {StackAddr(0), StackAddr(-1)} IN
  /\ aram' = Stored(Stored(aram, StackAddr(0), w \div 256), StackAddr(-1), w % 256)
  /\ sp' = (sp - 2) % 256
  /\ depth' = depth + 2
  /\ pushed' = Touched(pushed, at) \cup {Entry(at, what, depth + 2)}

\* pop_byte, n times
pop(n) ==
  /\ sp' = (sp + n) % 256
  /\ depth' = depth - n
  /\ pushed' = {e \in pushed : e.depth <= depth - n}
  /\ UNCHANGED aram

-----------------------------------------------------------------------------
(* Two operands: or, and, eor, cmp, adc and sbc, each in twelve columns    *)

DP_DP == 9
DP_IMM == 24
IX_IY == 25

\* A and an operand.
OnA(io, alu(_, _, _)) ==
  /\ Column \in {DP, ABS, IX, DX_IND, IMM, DPX, ABSX, ABSY, DPIY}
  /\ LET r == alu(a, Operand(Column, io), psw) IN a' = r.val /\ psw' = r.psw
  /\ Advance(Length(Column))
  /\ UNCHANGED <<x, y, memory>>

\* The operands and the destination of the other columns: dp,dp and (X),(Y) take the
\* source first, dp,#imm the byte in memory.
Left(io) == CASE Column = DP_DP  -> Load(direct_page, io[1])
              [] Column = DP_IMM -> Load(direct_page_effective(op2), io[1])
              [] Column = IX_IY  -> Load(direct_page_effective(y), io[1])
Right(io) == CASE Column = DP_DP  -> Load(direct_page_effective(op2), io[2])
               [] Column = DP_IMM -> op1
               [] Column = IX_IY  -> Load(direct_page_effective(x), io[2])
Target == direct_page_effective(IF Column = IX_IY THEN x ELSE op2)

OnMemory(io, alu(_, _, _)) ==
  /\ Column \in {DP_DP, DP_IMM, IX_IY}
  /\ LET r == alu(Left(io), Right(io), psw) IN Store(Target, r.val) /\ psw' = r.psw
  /\ Advance(IF Column = IX_IY THEN 1 ELSE 3)
  /\ UNCHANGED <<a, x, y>>

insn_or(io)  == Row = 0 /\ (OnA(io, alu_or)  \/ OnMemory(io, alu_or))
insn_and(io) == Row = 1 /\ (OnA(io, alu_and) \/ OnMemory(io, alu_and))
insn_eor(io) == Row = 2 /\ (OnA(io, alu_eor) \/ OnMemory(io, alu_eor))
insn_adc(io) == Row = 4 /\ (OnA(io, alu_adc) \/ OnMemory(io, alu_adc))
insn_sbc(io) == Row = 5 /\ (OnA(io, alu_sbc) \/ OnMemory(io, alu_sbc))

insn_cmp(io) ==
  /\ Row = 3
  /\ \/ /\ Column \in {DP, ABS, IX, DX_IND, IMM, DPX, ABSX, ABSY, DPIY}
        /\ psw' = alu_cmp(a, Operand(Column, io), psw)
        /\ Advance(Length(Column))
     \/ /\ Column \in {DP_DP, DP_IMM, IX_IY}
        /\ psw' = alu_cmp(Left(io), Right(io), psw)
        /\ Advance(IF Column = IX_IY THEN 1 ELSE 3)
  /\ UNCHANGED <<a, x, y, memory>>

\* cmp with X or Y
insn_cmp_xy(io) ==
  /\ \/ opcode = \hc8 /\ psw' = alu_cmp(x, op1, psw)
     \/ opcode = \had /\ psw' = alu_cmp(y, op1, psw)
     \/ opcode = \h7e /\ psw' = alu_cmp(y, Load(direct_page, io[1]), psw)
  /\ Advance(2)
  /\ UNCHANGED <<a, x, y, memory>>

-----------------------------------------------------------------------------
(* One operand: shifts, inc and dec, on memory in three columns or on A    *)

OnByte(io, alu(_, _)) ==
  \/ /\ Column \in {11, 12, 27}
     /\ LET addr == CASE Column = 11 -> direct_page [] Column = 12 -> absolute
                      [] Column = 27 -> direct_page_x
            r == alu(Load(addr, io[1]), psw)
        IN  Store(addr, r.val) /\ psw' = r.psw
     /\ Advance(IF Column = 12 THEN 3 ELSE 2)
     /\ UNCHANGED <<a, x, y>>
  \/ /\ Column = 28
     /\ LET r == alu(a, psw) IN a' = r.val /\ psw' = r.psw
     /\ Advance(1)
     /\ UNCHANGED <<x, y, memory>>

insn_asl(io) == Row = 0 /\ OnByte(io, alu_asl)
insn_rol(io) == Row = 1 /\ OnByte(io, alu_rol)
insn_lsr(io) == Row = 2 /\ OnByte(io, alu_lsr)
insn_ror(io) == Row = 3 /\ OnByte(io, alu_ror)
insn_dec(io) == Row = 4 /\ OnByte(io, Decremented)
insn_inc(io) == Row = 5 /\ OnByte(io, Incremented)

insn_step_xy ==
  /\ \/ LET r == IF opcode = \h1d THEN Decremented(x, psw) ELSE Incremented(x, psw)
        IN  opcode \in {\h1d, \h3d} /\ x' = r.val /\ psw' = r.psw /\ UNCHANGED y
     \/ LET r == IF opcode = \hdc THEN Decremented(y, psw) ELSE Incremented(y, psw)
        IN  opcode \in {\hdc, \hfc} /\ y' = r.val /\ psw' = r.psw /\ UNCHANGED x
  /\ Advance(1)
  /\ UNCHANGED <<a, memory>>

insn_xcn ==
  /\ opcode = \h9f
  /\ a' = ((16 * a) % 256) + (a \div 16)
  /\ psw' = set_zn(a', psw)
  /\ Advance(1)
  /\ UNCHANGED <<x, y, memory>>

-----------------------------------------------------------------------------
(* Moves                                                                   *)

\* Loads of A, and moves between registers, set the flags.
insn_mov_a(io) ==
  /\ \/ /\ Row = 7 /\ Column \in {DP, ABS, IX, DX_IND, IMM, DPX, ABSX, ABSY, DPIY}
        /\ a' = Operand(Column, io)
        /\ Advance(Length(Column))
     \/ opcode = \h7d /\ a' = x /\ Advance(1)
     \/ opcode = \hdd /\ a' = y /\ Advance(1)
  /\ psw' = set_zn(a', psw)
  /\ UNCHANGED <<x, y, memory>>

\* The load from the direct page alone sets no flags.
insn_mov_x(io) ==
  /\ \/ opcode = \h5d /\ x' = a /\ Advance(1)
     \/ opcode = \hcd /\ x' = op1 /\ Advance(2)
     \/ opcode = \hf8 /\ x' = Load(direct_page, io[1]) /\ Advance(2)
     \/ opcode = \he9 /\ x' = Load(absolute, io[1]) /\ Advance(3)
  /\ psw' = IF opcode = \hf8 THEN psw ELSE set_zn(x', psw)
  /\ UNCHANGED <<a, y, memory>>

insn_mov_y(io) ==
  /\ \/ opcode = \hfd /\ y' = a /\ Advance(1)
     \/ opcode = \h8d /\ y' = op1 /\ Advance(2)
     \/ opcode = \heb /\ y' = Load(direct_page, io[1]) /\ Advance(2)
     \/ opcode = \hfb /\ y' = Load(direct_page_x, io[1]) /\ Advance(2)
     \/ opcode = \hec /\ y' = Load(absolute, io[1]) /\ Advance(3)
  /\ psw' = set_zn(y', psw)
  /\ UNCHANGED <<a, x, memory>>

\* Stores of A; the indexed indirect one stores to the address in the direct page,
\* not through it.
insn_store_a(io) ==
  /\ Row = 6 /\ Column \in {DP, ABS, IX, DX_IND, DPX, ABSX, ABSY, DPIY}
  /\ Store(IF Column = DX_IND THEN direct_page_x ELSE Effective(Column, io), a)
  /\ Advance(Length(Column))
  /\ UNCHANGED <<a, x, y, psw>>

insn_store_xy ==
  /\ \/ opcode = \hd8 /\ Store(direct_page, x) /\ Advance(2)
     \/ opcode = \hc9 /\ Store(absolute, x) /\ Advance(3)
     \/ opcode = \hcb /\ Store(direct_page, y) /\ Advance(2)
     \/ opcode = \hdb /\ Store(direct_page_x, y) /\ Advance(2)
     \/ opcode = \hcc /\ Store(absolute, y) /\ Advance(3)
  /\ UNCHANGED <<a, x, y, psw>>

insn_mov_dp(io) ==
  /\ \/ opcode = \h8f /\ Store(direct_page_effective(op2), op1)
     \/ opcode = \hfa /\ Store(direct_page_effective(op2), Load(direct_page, io[1]))
  /\ Advance(3)
  /\ UNCHANGED <<a, x, y, psw>>

-----------------------------------------------------------------------------
(* Words                                                                   *)

ya == 256 * y + a

\* set_ya of an operation's result
SetYA(r) == y' = r.val \div 256 /\ a' = r.val % 256 /\ psw' = r.psw

insn_ya(io) ==
  /\ LET w == LoadWord(direct_page, io) IN
     \/ opcode = \h7a /\ SetYA(alu_addw(ya, w, psw))
     \/ opcode = \h9a /\ SetYA(alu_subw(ya, w, psw))
     \/ opcode = \hba /\ SetYA([val |-> w, psw |-> set_zn16(w, psw)])
     \/ opcode = \h5a /\ psw' = cmpw(ya, w, psw) /\ UNCHANGED <<a, y>>
  /\ Advance(2)
  /\ UNCHANGED <<x, memory>>

insn_movw_dp_ya ==
  LET next == (direct_page + 1) % 65536 IN
  /\ opcode = \hda
  /\ aram' = Stored(Stored(aram, direct_page, a), next, y)
  /\ pushed' = Touched(pushed, {direct_page, next})
  /\ Advance(2)
  /\ UNCHANGED <<a, x, y, psw, sp, depth>>

\* The sixteen-bit result sets the flags, its low byte is stored.
insn_stepw(io) ==
  LET w == LoadWord(direct_page, io)
      r == (IF opcode = \h1a THEN w - 1 ELSE w + 1) % 65536
  IN  /\ opcode \in {\h1a, \h3a}
      /\ Store(direct_page, r % 256)
      /\ psw' = set_zn16(r, psw)
      /\ Advance(2)
      /\ UNCHANGED <<a, x, y>>

insn_mul_ya ==
  /\ opcode = \hcf
  /\ SetYA([val |-> a * y, psw |-> set_zn16(a * y, psw)])
  /\ Advance(1)
  /\ UNCHANGED <<x, memory>>

insn_divw_ya_x ==
  /\ opcode = \h9e
  /\ LET r == divw(a, y, x, psw) IN a' = r.a /\ y' = r.y /\ psw' = r.psw
  /\ Advance(1)
  /\ UNCHANGED <<x, memory>>

-----------------------------------------------------------------------------
(* Bits                                                                    *)

\* One bit of a direct page byte: Row is its number.
OnBit(io, column, set) ==
  /\ Column = column
  /\ LET S == bits(Load(direct_page, io[1]))
     IN  Store(direct_page, byte_of(IF set THEN S \cup {Row} ELSE S \ {Row}))
  /\ Advance(2)
  /\ UNCHANGED <<a, x, y, psw>>

insn_set_db(io) == OnBit(io, 2, TRUE)
insn_clr_db(io) == OnBit(io, 18, FALSE)

BranchOnBit(io, column, set) ==
  /\ Column = column
  /\ Branch(3, op2, HasBit(Load(direct_page, io[1]), Row) = set)
  /\ UNCHANGED <<a, x, y, psw, memory>>

insn_bbs_db(io) == BranchOnBit(io, 3, TRUE)
insn_bbc_db(io) == BranchOnBit(io, 19, FALSE)

\* bitaddr: thirteen bits of address and the number of a bit.
bitaddr == absolute % 8192
bitno == absolute \div 8192
bitaddr_load(io) == HasBit(Load(bitaddr, io[1]), bitno)

insn_carry_bit(io) ==
  LET bit == bitaddr_load(io)
      c == PSW_C \in psw
      r == CASE Row = 0 -> c \/ bit
             [] Row = 1 -> c \/ ~bit
             [] Row = 2 -> c /\ bit
             [] Row = 3 -> c /\ ~bit
             [] Row = 4 -> c # bit
             [] Row = 5 -> bit
  IN  /\ Column = 10 /\ Row \in 0 .. 5
      /\ psw' = Put(psw, PSW_C, r)
      /\ Advance(3)
      /\ UNCHANGED <<a, x, y, memory>>

\* mov1 of the carry into a bit, and not1.
insn_store_bit(io) ==
  LET set == IF opcode = \hca THEN PSW_C \in psw ELSE ~bitaddr_load(io)
  IN  /\ opcode \in {\hca, \hea}
      /\ Store(bitaddr, byte_of(Put(bits(Load(bitaddr, io[1])), bitno, set)))
      /\ Advance(3)
      /\ UNCHANGED <<a, x, y, psw>>

\* The flags are those of A less the byte before.
insn_test_abs(io) ==
  LET m == Load(absolute, io[1])
      out == IF opcode = \h0e THEN bits(m) \cup bits(a) ELSE bits(m) \ bits(a)
  IN  /\ opcode \in {\h0e, \h4e}
      /\ Store(absolute, byte_of(out))
      /\ psw' = set_zn((a - m) % 256, psw)
      /\ Advance(3)
      /\ UNCHANGED <<a, x, y>>

insn_flags ==
  /\ opcode \in {\h00, \h60, \h80, \hed, \he0, \h20, \h40, \ha0, \hc0}
  /\ psw' = CASE opcode = \h60 -> psw \ {PSW_C}
              [] opcode = \h80 -> psw \cup {PSW_C}
              [] opcode = \hed -> Put(psw, PSW_C, PSW_C \notin psw)
              [] opcode = \he0 -> psw \ {PSW_V, PSW_H}
              [] opcode = \h20 -> psw \ {PSW_P}
              [] opcode = \h40 -> psw \cup {PSW_P}
              [] opcode = \ha0 -> psw \cup {PSW_I}
              [] opcode = \hc0 -> psw \ {PSW_I}
              [] opcode = \h00 -> psw      \* nop
  /\ Advance(1)
  /\ UNCHANGED <<a, x, y, memory>>

-----------------------------------------------------------------------------
(* Branches, calls and the stack                                           *)

insn_branch ==
  /\ \/ opcode = \h2f /\ Branch(2, op1, TRUE)
     \/ opcode = \h10 /\ Branch(2, op1, PSW_N \notin psw)
     \/ opcode = \h30 /\ Branch(2, op1, PSW_N \in psw)
     \/ opcode = \h90 /\ Branch(2, op1, PSW_C \notin psw)
     \/ opcode = \hb0 /\ Branch(2, op1, PSW_C \in psw)
     \/ opcode = \hd0 /\ Branch(2, op1, PSW_Z \notin psw)
     \/ opcode = \hf0 /\ Branch(2, op1, PSW_Z \in psw)
  /\ UNCHANGED <<a, x, y, psw, memory>>

insn_cbne(io) ==
  /\ \/ opcode = \h2e /\ Branch(3, op2, Load(direct_page, io[1]) # a)
     \/ opcode = \hde /\ Branch(3, op2, Load(direct_page_x, io[1]) # a)
  /\ UNCHANGED <<a, x, y, psw, memory>>

\* Counting in memory sets the zero flag, counting in Y does not.
insn_dbnz_dp(io) ==
  LET r == (Load(direct_page, io[1]) - 1) % 256 IN
  /\ opcode = \h6e
  /\ Store(direct_page, r)
  /\ psw' = Put(psw, PSW_Z, r = 0)
  /\ Branch(3, op2, r # 0)
  /\ UNCHANGED <<a, x, y>>

insn_dbnz_y ==
  /\ opcode = \hfe
  /\ y' = (y - 1) % 256
  /\ Branch(2, op1, y' # 0)
  /\ UNCHANGED <<a, x, psw, memory>>

insn_jmp(io) ==
  /\ \/ opcode = \h5f /\ pc' = absolute
     \/ opcode = \h1f /\ pc' = LoadWord((absolute + x) % 65536, io)
  /\ UNCHANGED <<a, x, y, psw, memory>>

\* call: the address after the whole instruction is pushed.
call(length, addr) ==
  LET ret == (pc + length) % 65536 IN
  /\ push_word(ret, <<"pc", ret>>)
  /\ pc' = addr
  /\ UNCHANGED <<a, x, y, psw>>

insn_call_abs == opcode = \h3f /\ call(3, absolute)

\* The slot of a one-byte call is the opcode's high nibble, but for slot 9.
slot == IF opcode = \h91 THEN 0 ELSE opcode \div 16

insn_tcall == opcode % 16 = 1 /\ call(1, RamWord(\hffc0 + 2 * (15 - slot)))

\* Mutant: the high byte is popped first.
ReturnAddressSwapped == 256 * Top(1) + Top(2)

ReturnAddress == Top(1) + 256 * Top(2)

insn_ret ==
  /\ opcode = \h6f
  /\ pc' = ReturnAddress
  /\ pop(2)
  /\ UNCHANGED <<a, x, y, psw>>

\* Mutant: the break flag is not restored.
psw_decomposeNoBreak(b) == bits(b) \ {PSW_B}

psw_decompose(b) == bits(b)
psw_compose == byte_of(psw)

insn_push ==
  /\ \/ opcode = \h0d /\ push_byte(psw_compose, <<"psw", psw>>)
     \/ opcode = \h2d /\ push_byte(a, <<"byte", a>>)
     \/ opcode = \h4d /\ push_byte(x, <<"byte", x>>)
     \/ opcode = \h6d /\ push_byte(y, <<"byte", y>>)
  /\ Advance(1)
  /\ UNCHANGED <<a, x, y, psw>>

insn_pop ==
  /\ \/ opcode = \h8e /\ psw' = psw_decompose(Top(1)) /\ UNCHANGED <<a, x, y>>
     \/ opcode = \hae /\ a' = Top(1) /\ UNCHANGED <<x, y, psw>>
     \/ opcode = \hce /\ x' = Top(1) /\ UNCHANGED <<a, y, psw>>
     \/ opcode = \hee /\ y' = Top(1) /\ UNCHANGED <<a, x, psw>>
  /\ pop(1)
  /\ Advance(1)

-----------------------------------------------------------------------------
Instruction(io) ==
  \/ insn_or(io) \/ insn_and(io) \/ insn_eor(io) \/ insn_adc(io) \/ insn_sbc(io)
  \/ insn_cmp(io) \/ insn_cmp_xy(io)
  \/ insn_asl(io) \/ insn_rol(io) \/ insn_lsr(io) \/ insn_ror(io)
  \/ insn_dec(io) \/ insn_inc(io) \/ insn_step_xy \/ insn_xcn
  \/ insn_mov_a(io) \/ insn_mov_x(io) \/ insn_mov_y(io)
  \/ insn_store_a(io) \/ insn_store_xy \/ insn_mov_dp(io)
  \/ insn_ya(io) \/ insn_movw_dp_ya \/ insn_stepw(io) \/ insn_mul_ya \/ insn_divw_ya_x
  \/ insn_set_db(io) \/ insn_clr_db(io) \/ insn_bbs_db(io) \/ insn_bbc_db(io)
  \/ insn_carry_bit(io) \/ insn_store_bit(io) \/ insn_test_abs(io) \/ insn_flags
  \/ insn_branch \/ insn_cbne(io) \/ insn_dbnz_dp(io) \/ insn_dbnz_y \/ insn_jmp(io)
  \/ insn_call_abs \/ insn_tcall \/ insn_ret \/ insn_push \/ insn_pop

\* The opcodes that opcode_tbl has no function for.
Missing ==
  {\h0f, \h1e, \h3e, \h4f, \h50, \h5e, \h70, \h7f, \h9d, \haf, \hbd, \hbe, \hbf,
   \hd9, \hdf, \hef, \hf9, \hff}

Execute ==
  /\ status = "run" /\ left > 0
  /\ \E io \in [1 .. 3 -> IoBytes] : Instruction(io)
  /\ left' = left - 1
  /\ UNCHANGED status

\* spc700_run_forever returns, the opcode fetched.
Halt ==
  /\ status = "run" /\ opcode \in Missing
  /\ status' = "halt"
  /\ Advance(1)
  /\ UNCHANGED <<a, x, y, psw, memory, left>>

\* The echo unit, or the overlay of the boot ROM, writes a byte of memory.
OtherStore ==
  /\ status = "run" /\ left > 0
  /\ \E addr \in Shared, b \in IoBytes : Store(addr, b)
  /\ UNCHANGED <<pc, a, x, y, psw, status, left>>

Next == Execute \/ Halt \/ OtherStore

Spec == Init /\ [][Next]_vars

-----------------------------------------------------------------------------
(* Properties                                                              *)

\* Every register, address and byte of memory keeps its width through every
\* instruction: indexing, branches, calls and stack wrap as the code's types do.
TypeOK ==
  /\ pc \in Word /\ a \in Byte /\ x \in Byte /\ y \in Byte /\ sp \in Byte
  /\ psw \subseteq BitNo
  /\ DOMAIN aram \subseteq Word /\ \A addr \in DOMAIN aram : aram[addr] \in Byte
  /\ status \in {"run", "halt"} /\ left \in Nat
  /\ depth \in Int /\ \A e \in pushed : e.depth <= depth /\ e.at \subseteq 256 .. 511

\* insn_ret, insn_call_abs, the table calls: a return that finds its call's entry on
\* top of the stack, whatever was pushed and popped in between and though the stack
\* wrapped around its page, goes to the instruction after the call, unless some store
\* went over the address.
ReturnsToCaller ==
  [][\A e \in pushed :
       (left' # left /\ opcode = \h6f /\ e.depth = depth /\ e.what[1] = "pc" /\ e.ok)
         => pc' = e.what[2]]_vars

\* insn_push_psw, insn_pop_psw: flags that are pushed come back, all eight of them.
FlagsRestored ==
  [][\A e \in pushed :
       (left' # left /\ opcode = \h8e /\ e.depth = depth /\ e.what[1] = "psw" /\ e.ok)
         => psw' = e.what[2]]_vars

Signed16(n) == IF n >= 32768 THEN n - 65536 ELSE n

\* alu_addw, alu_subw: two additions of bytes make the sum or difference of sixteen
\* bits, with its carry, overflow, half carry, zero and negative flags, whatever the
\* flags were.
WideIsSixteenBit ==
  [][\A w \in {RamWord(direct_page)} :
       LET r == 256 * y' + a'
           sum == ya + w
           dif == ya - w
           signed == IF opcode = \h7a THEN Signed16(ya) + Signed16(w)
                                     ELSE Signed16(ya) - Signed16(w)
       IN  (left' # left /\ opcode \in {\h7a, \h9a} /\ ~apu_mmio_address(direct_page)
              /\ ~apu_mmio_address(direct_page + 1))
             => /\ r = (IF opcode = \h7a THEN sum ELSE dif) % 65536
                /\ PSW_C \in psw' <=> IF opcode = \h7a THEN sum > 65535 ELSE dif >= 0
                /\ PSW_V \in psw' <=> signed < -32768 \/ signed > 32767
                /\ PSW_H \in psw' <=> IF opcode = \h7a
                                      THEN (ya % 4096) + (w % 4096) > 4095
                                      ELSE ya % 4096 >= w % 4096
                /\ PSW_Z \in psw' <=> r = 0
                /\ PSW_N \in psw' <=> r > 32767]_vars

\* insn_divw_ya_x: when the overflow flag comes out clear, A and Y are the quotient
\* and the remainder.
DivIsDivision ==
  [][(left' # left /\ opcode = \h9e /\ PSW_V \notin psw')
       => ya = a' * x + y' /\ y' < x]_vars

\* Opcodes whose only store is to a byte they address in the direct page.
DirectStores ==
  {\h09, \h18, \h19, \h29, \h38, \h39, \h49, \h58, \h59, \h89, \h98, \h99, \ha9, \hb8, \hb9}
    \cup {\h0b, \h1b, \h2b, \h3b, \h4b, \h5b, \h6b, \h7b, \h8b, \h9b, \hab, \hbb}
    \cup {\hc4, \hc6, \hc7, \hcb, \hd4, \hd8, \hdb, \h8f, \hfa, \h6e}
    \cup {32 * k + 2 : k \in BitNo} \cup {32 * k + 18 : k \in BitNo}
\* Opcodes that push.
StackStores == {\h0d, \h2d, \h4d, \h6d, \h3f} \cup {16 * k + 1 : k \in 0 .. 15}
\* The other opcodes that store: to an absolute address, through a pointer, a word.
OtherStores ==
  {\h0c, \h2c, \h4c, \h6c, \h8c, \hac, \h0e, \h4e, \hca, \hea, \hc5, \hc9, \hcc, \hd5,
   \hd6, \hd7, \hda, \h1a, \h3a}

\* direct_page_effective, stack_addr: indexed or not, a direct page instruction stores
\* only to the page that P selects and a push only to page one; an instruction that
\* is for loading stores nothing.
StoresInPage ==
  [][left' # left =>
       \A addr \in DOMAIN aram' :
         Contents(aram', addr) # Ram(addr) =>
           \/ opcode \in DirectStores /\ addr \div 256 = (IF PSW_P \in psw THEN 1 ELSE 0)
           \/ opcode \in StackStores /\ addr \div 256 = 1
           \/ opcode \in OtherStores]_vars
=============================================================================
