------------------------------ MODULE DspEcho -------------------------------
(***************************************************************************)
(* The echo unit of src/dsp.c: the ring of 4-byte slots in RAM that        *)
(* next_sample reads and then writes, the copies it keeps of ESA, EDL and  *)
(* FLG, and the last eight samples read, from which its FIR filter is      *)
(* computed.  A sample's value is its age, in samples.                     *)
(***************************************************************************)
EXTENDS Integers

CONSTANTS
  Unit,      \* bytes of ring for each unit of EDL: 0x800
  Page,      \* bytes of a page, the unit of ESA: 0x100
  Memory,    \* bytes of RAM: 0x10000
  Esas,      \* the values stored in ESA
  Edls,      \* the values stored in EDL
  MaxAge,    \* bound: the ages of the filter's samples are counted up to here
  MaxDelay   \* bound: those of the ring's bytes are

ASSUME UnitAssumption == Unit \in Nat \ {0} /\ Unit % 4 = 0
\* The longest ring, and a slot, fit in memory.
ASSUME MemoryAssumption ==
  Memory \in Nat \ 0 .. 3 /\ 15 * Unit <= Memory /\ Page \in Nat
ASSUME RegsAssumption == Esas \subseteq Nat /\ Edls \subseteq Nat
ASSUME AgeAssumption == MaxAge \in Nat \ 0 .. 7 /\ MaxDelay \in Nat \ {0}

Hist == 0 .. 7      \* ECHO_HIST_SIZE entries
Offset == 0 .. 15 * Unit
Byte == 0 .. Memory - 1
Age == 0 .. MaxAge
Delay == 0 .. MaxDelay

VARIABLES
  REG_ESA, REG_EDL, ECHO_DISABLED,                \* registers; a bit of FLG
  esa, echo_enabled, echo_offset, echo_length, echo_ptr,
  echo_hist_pos, hist_left, hist_right,           \* the ages of echo_hist
  \* History: the ages of the samples that the taps of the FIR filter took; for each
  \* byte of memory how many samples ago the echo wrote it; for how many samples the
  \* ring has been written, at one page and of one length; the bytes the last
  \* sample wrote.
  taps_left, taps_right, age, stable, written

regs == <<REG_ESA, REG_EDL, ECHO_DISABLED>>
ring == <<esa, echo_enabled, echo_offset, echo_length, echo_ptr>>
fir == <<echo_hist_pos, hist_left, hist_right, taps_left, taps_right>>
vars == <<regs, ring, fir, age, stable, written>>

Registers == REG_ESA \in Esas /\ REG_EDL \in Edls /\ ECHO_DISABLED \in BOOLEAN

Init ==
  /\ Registers
  /\ esa = 0 /\ echo_enabled = FALSE /\ echo_offset = 0 /\ echo_length = 0 /\ echo_ptr = 0
  /\ echo_hist_pos = 0
  /\ hist_left = [p \in Hist |-> MaxAge] /\ hist_right = hist_left
  /\ taps_left = hist_left /\ taps_right = hist_left
  /\ age = [b \in Byte |-> MaxDelay] /\ stable = 0 /\ written = {}

-----------------------------------------------------------------------------
(* The FIR filter                                                          *)

Older(a, bound) == IF a < bound THEN a + 1 ELSE a

NextPos == IF echo_hist_pos + 1 >= 8 THEN 0 ELSE echo_hist_pos + 1

\* fir_write: the sample just read goes to the position just advanced to.
Written(hist) == [p \in Hist |-> IF p = NextPos THEN 0 ELSE Older(hist[p], MaxAge)]

\* Mutant: depth 0 is the oldest entry.
TapNewest(hist, i) == hist[(NextPos + i) % 8]

\* calc_fir(i) reads at depth i + 1.
Tap(hist, i) == hist[(NextPos + i + 1) % 8]

\* The right channel is written after the taps 0 to 2 are taken.
Fir ==
  LET before == [p \in Hist |-> Older(hist_right[p], MaxAge)]
  IN  /\ echo_hist_pos' = NextPos
      /\ hist_left' = Written(hist_left) /\ hist_right' = Written(hist_right)
      /\ taps_left' = [i \in Hist |-> Tap(hist_left', i)]
      /\ taps_right' = [i \in Hist |-> IF i <= 2 THEN Tap(before, i) ELSE Tap(hist_right', i)]

-----------------------------------------------------------------------------
(* The ring                                                                *)

\* EDL is looked at only at the start of the ring.
Length == IF echo_offset = 0 THEN (REG_EDL % 16) * Unit ELSE echo_length

\* Mutants: the last slot is not left, the ring is one slot longer.
AdvanceStays(off, len) == IF off + 4 >= len THEN off ELSE off + 4
AdvanceLate(off, len) == IF off + 4 > len THEN 0 ELSE off + 4

Advance(off, len) == IF off + 4 >= len THEN 0 ELSE off + 4

\* Mutant: the slot is addressed with the page just read from ESA.
BaseNew == REG_ESA

\* The page of this sample's slot: esa as the sample before left it.
BasePage == esa

Slot(ptr) == {(ptr + d) % Memory : d \in 0 .. 3}

Ring ==
  /\ echo_ptr' = (BasePage * Page + echo_offset) % Memory
  /\ esa' = REG_ESA
  /\ echo_length' = Length
  /\ echo_offset' = Advance(echo_offset, echo_length')
  /\ echo_enabled' = ~ECHO_DISABLED
  /\ written' = IF echo_enabled' THEN Slot(echo_ptr') ELSE {}
  /\ age' = [b \in Byte |-> IF b \in written' THEN 1 ELSE Older(age[b], MaxDelay)]
  /\ stable' = IF echo_enabled' /\ esa' = esa /\ echo_length' = echo_length
               THEN Older(stable, MaxDelay) ELSE 0

Sample == Fir /\ Ring /\ UNCHANGED regs

\* A store to one of the registers, or dsp_restore of another file's: nothing
\* that the echo unit keeps for itself changes.
Store ==
  /\ REG_ESA' \in Esas /\ REG_EDL' \in Edls /\ ECHO_DISABLED' \in BOOLEAN
  /\ UNCHANGED <<ring, fir, age, stable, written>>

Next == Sample \/ Store

Spec == Init /\ [][Next]_vars
FairSpec == Spec /\ WF_vars(Sample)

-----------------------------------------------------------------------------
(* Properties                                                              *)

\* Types.
TypeOK ==
  /\ Registers
  /\ esa \in Nat /\ echo_enabled \in BOOLEAN
  /\ echo_offset \in Offset /\ echo_length \in Offset /\ echo_ptr \in Byte
  /\ echo_hist_pos \in Hist
  /\ hist_left \in [Hist -> Age] /\ hist_right \in [Hist -> Age]
  /\ taps_left \in [Hist -> Age] /\ taps_right \in [Hist -> Age]
  /\ age \in [Byte -> Delay] /\ stable \in Delay /\ written \subseteq Byte

\* The position is the start of a slot inside the ring of the length in use, though
\* EDL may be stored, larger or smaller, at any time.
OffsetInRing == echo_offset % 4 = 0 /\ (echo_offset = 0 \/ echo_offset < echo_length)

\* The slots of the ring; EDL 0 leaves one.
Slots == IF echo_length = 0 THEN 1 ELSE echo_length \div 4

\* The echo's delay: once samples have written the ring for a turn of it, at one page
\* and with one length, the bytes that the next sample will read were written
\* exactly as many samples ago as the ring has slots, wherever ESA, EDL and the echo
\* bit of FLG had it before and are now.
DelayIsLength ==
  (stable >= Slots /\ Slots < MaxDelay) =>
    \A d \in 0 .. 3 : age[(BasePage * Page + echo_offset + d) % Memory] = Slots

\* A sample that writes writes inside the ring that starts at the page of ESA the
\* sample before saw: at most one sample late, and no byte past its end.
WritesInRing ==
  [][Sample => written' \subseteq
       {(esa * Page + d) % Memory : d \in 0 .. 4 * Slots - 1}]_vars

\* Tap i of both channels takes the sample of 7 - i samples ago: the filter slides
\* over the last eight and the newest meets the last coefficient.
TapsSlide ==
  \A i \in Hist : taps_left[i] = taps_right[i] /\ taps_left[i] \in {7 - i, MaxAge}

\* The ring is gone round again and again: a stored EDL comes to be used.
RingTurns == []<>(echo_offset = 0)
=============================================================================
