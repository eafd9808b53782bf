---------------------------- MODULE DspEchoProofs ----------------------------
(***************************************************************************)
(* Proofs about DspEcho, for every size of memory, page and unit of EDL    *)
(* and every set of values stored in ESA and EDL.                          *)
(***************************************************************************)
EXTENDS DspEcho, TLAPS

\* The age of the entry of echo_hist at p, when the newest is at pos.
EntryAge(pos, p) == (pos - p) % 8

\* Each entry of echo_hist is as old as its distance from the newest, in both
\* channels, unless it was never written.
HistAges ==
  \A p \in Hist :
    hist_left[p] = hist_right[p] /\ hist_left[p] \in {EntryAge(echo_hist_pos, p), MaxAge}

\* The slot at o of a ring of n slots was the position d samples ago, when it is off
\* now and no sample since came to another length.
Passed(off, n, o, d) == o < 4 * n /\ (o + 4 * d = off \/ o + 4 * d = off + 4 * n)

\* The byte at offset o of the ring that starts at the page of ESA.
RingByte(o) == (esa * Page + o) % Memory

\* The bytes of every slot that was passed while the ring was stable were written as
\* long ago as it is far behind.
SlotAges ==
  Slots < MaxDelay =>
    \A o \in Nat, d \in Nat \ {0} :
      (o % 4 = 0 /\ d <= Slots /\ d <= stable /\ Passed(echo_offset, Slots, o, d))
        => \A e \in 0 .. 3 : age[RingByte(o + e)] = d

\* The ring is made of whole slots.
WholeSlots == echo_length % 4 = 0

\* The inductive invariant.  TapsSlide alone says nothing of the entries that the
\* next sample's taps will take, and DelayIsLength nothing of the slots that the next
\* samples will come to.
IInv == TypeOK /\ OffsetInRing /\ WholeSlots /\ HistAges /\ TapsSlide /\ SlotAges

-----------------------------------------------------------------------------
(* The filter                                                              *)

\* Ages are counted up to the bound.
LEMMA OlderType ==
  ASSUME NEW bound \in Nat, NEW a \in 0 .. bound
  PROVE  Older(a, bound) \in 0 .. bound
BY DEF Older

\* The bounds are ages, and stay what they are.
LEMMA AgeFacts ==
  /\ MaxAge \in Nat /\ 0 \in Age /\ MaxAge \in Age /\ Older(MaxAge, MaxAge) = MaxAge
  /\ MaxDelay \in Nat /\ 0 \in Delay /\ 1 \in Delay /\ MaxDelay \in Delay
BY AgeAssumption DEF Age, Delay, Older

\* Moving on by one makes every entry but the overwritten one a sample older.
LEMMA EntryOlder ==
  ASSUME NEW pos \in Hist, NEW p \in Hist, NEW next \in Hist,
         next = IF pos + 1 >= 8 THEN 0 ELSE pos + 1, p # next
  PROVE  Older(EntryAge(pos, p), MaxAge) = EntryAge(next, p)
<1>1. EntryAge(next, p) = EntryAge(pos, p) + 1
  BY DEF Hist, EntryAge
<1>2. EntryAge(pos, p) \in 0 .. 6
  BY DEF Hist, EntryAge
<1> QED BY <1>1, <1>2, AgeAssumption DEF Older

\* The newest entry is no age, and the next after it in the ring is the oldest.
LEMMA EntryOfTap ==
  ASSUME NEW next \in Hist
  PROVE  /\ EntryAge(next, next) = 0
         /\ \A i \in Hist : /\ (next + i + 1) % 8 \in Hist
                            /\ EntryAge(next, (next + i + 1) % 8) = 7 - i
                            /\ i <= 2 => (next + i + 1) % 8 # next
BY DEF Hist, EntryAge

\* fir_write puts the new sample at the next position and ages the others.
LEMMA WrittenLemma ==
  ASSUME echo_hist_pos \in Hist, HistAges, Fir, NEW p \in Hist
  PROVE  /\ hist_left'[p] = hist_right'[p]
         /\ hist_left'[p] \in {EntryAge(NextPos, p), MaxAge}
         /\ p # NextPos => hist_left'[p] = Older(hist_right[p], MaxAge)
<1>1. hist_left' = Written(hist_left) /\ hist_right' = Written(hist_right)
  BY DEF Fir
<1>2. NextPos \in Hist /\ NextPos = IF echo_hist_pos + 1 >= 8 THEN 0 ELSE echo_hist_pos + 1
  BY DEF NextPos, Hist
<1>3. hist_left[p] = hist_right[p] /\ hist_left[p] \in {EntryAge(echo_hist_pos, p), MaxAge}
  BY DEF HistAges
<1>4. /\ hist_left'[p] = IF p = NextPos THEN 0 ELSE Older(hist_left[p], MaxAge)
      /\ hist_right'[p] = IF p = NextPos THEN 0 ELSE Older(hist_right[p], MaxAge)
  BY <1>1 DEF Written
<1>5. CASE p = NextPos
  BY <1>2, <1>4, <1>5, EntryOfTap
<1>6. CASE p # NextPos
  BY <1>2, <1>3, <1>4, <1>6, EntryOlder, AgeFacts
<1> QED BY <1>5, <1>6

\* Both channels' taps slide over the last eight samples.
LEMMA FirLemma ==
  ASSUME TypeOK, HistAges, Fir
  PROVE  /\ echo_hist_pos' \in Hist
         /\ hist_left' \in [Hist -> Age] /\ hist_right' \in [Hist -> Age]
         /\ taps_left' \in [Hist -> Age] /\ taps_right' \in [Hist -> Age]
         /\ HistAges' /\ TapsSlide'
<1>1. /\ echo_hist_pos \in Hist
      /\ hist_left \in [Hist -> Age] /\ hist_right \in [Hist -> Age]
  BY DEF TypeOK
<1>2. echo_hist_pos' = NextPos /\ NextPos \in Hist
  BY <1>1 DEF Fir, NextPos, Hist
<1>3. hist_left' \in [Hist -> Age] /\ hist_right' \in [Hist -> Age]
  BY <1>1, OlderType, AgeFacts DEF Fir, Written, Age
<1>4. HistAges'
  <2>1. \A p \in Hist : /\ hist_left'[p] = hist_right'[p]
                        /\ hist_left'[p] \in {EntryAge(NextPos, p), MaxAge}
    BY <1>1, WrittenLemma
  <2> QED BY <1>2, <2>1 DEF HistAges, EntryAge
<1>5. ASSUME NEW i \in Hist
      PROVE  /\ taps_left'[i] = taps_right'[i]
             /\ taps_left'[i] \in {7 - i, MaxAge}
             /\ taps_left'[i] \in Age
  <2> DEFINE p == (NextPos + i + 1) % 8
  <2>1. p \in Hist /\ EntryAge(NextPos, p) = 7 - i /\ (i <= 2 => p # NextPos)
    BY <1>2, EntryOfTap
  <2>2. taps_left'[i] = hist_left'[p]
    BY DEF Fir, Tap
  <2>3. taps_right'[i] = IF i <= 2 THEN Older(hist_right[p], MaxAge) ELSE hist_right'[p]
    BY <2>1 DEF Fir, Tap
  <2> HIDE DEF p
  <2>4. taps_left'[i] = taps_right'[i] /\ taps_left'[i] \in {7 - i, MaxAge}
    BY <1>1, <2>1, <2>2, <2>3, WrittenLemma
  <2> QED BY <1>3, <2>1, <2>2, <2>4
<1>6. taps_left' \in [Hist -> Age] /\ taps_right' \in [Hist -> Age]
  <2>1. /\ taps_left' = [i \in Hist |-> taps_left'[i]]
        /\ taps_right' = [i \in Hist |-> taps_right'[i]]
    BY DEF Fir
  <2> QED BY <1>5, <2>1
<1> QED BY <1>2, <1>3, <1>4, <1>5, <1>6 DEF TapsSlide

-----------------------------------------------------------------------------
(* The ring                                                                *)

\* Fifteen units are the longest ring.
LEMMA LengthType ==
  ASSUME TypeOK
  PROVE  Length \in Offset
<1>1. REG_EDL % 16 \in 0 .. 15 /\ Unit \in Nat
  BY UnitAssumption, RegsAssumption DEF TypeOK, Registers
<1>2. \A k \in 0 .. 15 : k * Unit \in Offset
  BY <1>1 DEF Offset
<1>3. CASE echo_offset = 0
  BY <1>1, <1>2, <1>3 DEF Length
<1>4. CASE echo_offset # 0
  BY <1>4 DEF Length, TypeOK
<1> QED BY <1>3, <1>4

\* The position goes to the next slot, or to the first when there is none.
LEMMA AdvanceLemma ==
  ASSUME NEW off \in Offset, off % 4 = 0, NEW len \in Offset
  PROVE  /\ Advance(off, len) \in Offset /\ Advance(off, len) % 4 = 0
         /\ Advance(off, len) = 0 \/ Advance(off, len) < len
<1>1. 15 * Unit \in Nat
  BY UnitAssumption
<1> DEFINE top == 15 * Unit
<1>2. top \in Nat
  BY <1>1
<1>3. off \in 0 .. top /\ len \in 0 .. top
  BY DEF Offset
<1> HIDE DEF top
<1>4. Advance(off, len) \in 0 .. top
  BY <1>2, <1>3 DEF Advance
<1>5. Advance(off, len) % 4 = 0
  BY <1>2, <1>3 DEF Advance
<1>6. Advance(off, len) = 0 \/ Advance(off, len) < len
  BY <1>2, <1>3 DEF Advance
<1> QED BY <1>4, <1>5, <1>6 DEF Offset, top

\* A sample leaves the ring's state in its types, and the position inside the ring.
LEMMA RingLemma ==
  ASSUME TypeOK, OffsetInRing, Ring
  PROVE  /\ esa' \in Nat /\ echo_enabled' \in BOOLEAN
         /\ echo_offset' \in Offset /\ echo_length' \in Offset
         /\ echo_ptr' \in Byte /\ written' \subseteq Byte
         /\ age' \in [Byte -> Delay] /\ stable' \in Delay
         /\ OffsetInRing'
<1>1. esa' \in Nat /\ echo_enabled' \in BOOLEAN
  BY RegsAssumption DEF Ring, TypeOK, Registers
<1>2. echo_length' \in Offset
  BY LengthType DEF Ring
<1>3. echo_offset' \in Offset /\ OffsetInRing'
  BY <1>2, AdvanceLemma DEF Ring, TypeOK, OffsetInRing
<1>4. \A n \in Nat : n % Memory \in Byte
  BY MemoryAssumption DEF Byte
<1>5. echo_ptr' \in Byte
  <2>1. \A a, b \in Nat : a * b \in Nat
    OBVIOUS
  <2>2. esa * Page \in Nat /\ echo_offset \in Nat
    BY <2>1, MemoryAssumption DEF TypeOK, Offset
  <2>3. (esa * Page) + echo_offset \in Nat
    BY <2>2
  <2> QED BY <1>4, <2>3 DEF Ring, BasePage
<1>6. written' \subseteq Byte
  <2>1. \A d \in 0 .. 3 : echo_ptr' + d \in Nat
    <3>1. echo_ptr' \in Nat
      BY <1>5, MemoryAssumption DEF Byte
    <3>2. \A n \in Nat : \A d \in 0 .. 3 : n + d \in Nat
      OBVIOUS
    <3> QED BY <3>1, <3>2
  <2>2. Slot(echo_ptr') \subseteq Byte
    BY <1>4, <2>1 DEF Slot
  <2>3. written' = Slot(echo_ptr') \/ written' = {}
    BY Zenon DEF Ring
  <2> QED BY <2>2, <2>3
<1>7. age' \in [Byte -> Delay] /\ stable' \in Delay
  <2>1. \A a \in Delay : Older(a, MaxDelay) \in Delay
    BY OlderType, AgeFacts DEF Delay
  <2> QED BY <2>1, AgeFacts DEF Ring, TypeOK
<1> QED BY <1>1, <1>2, <1>3, <1>5, <1>6, <1>7

-----------------------------------------------------------------------------
(* Addresses that go round memory                                          *)

\* Nothing but the quotient and the remainder divides so.
LEMMA RemainderUnique ==
  ASSUME NEW M \in Nat \ {0}, NEW q \in Int, NEW k \in Int,
         NEW r \in 0 .. M - 1, NEW t \in 0 .. M - 1, M * q + r = M * k + t
  PROVE  r = t
<1>1. \A d \in Int : d >= 1 => M * d >= M
  BY SMT
<1>2. M * (q - k) = t - r /\ M * (k - q) = r - t /\ q - k \in Int /\ k - q \in Int
  BY SMT
<1>3. ~(q - k >= 1) /\ ~(k - q >= 1)
  BY <1>1, <1>2
<1>4. q = k
  BY <1>3
<1> QED BY <1>4

\* An address past one that went round memory goes round the same way.
LEMMA ModuloSum ==
  ASSUME NEW M \in Nat \ {0}, NEW n \in Nat, NEW d \in Nat
  PROVE  ((n % M) + d) % M = (n + d) % M
<1>1. \A c \in Nat : c = M * (c \div M) + (c % M) /\ c % M \in 0 .. M - 1 /\ c \div M \in Nat
  OBVIOUS
<1> DEFINE a == n % M
           q == n \div M
<1>2. n = M * q + a /\ a \in 0 .. M - 1 /\ q \in Nat
  BY <1>1
<1> HIDE DEF a, q
<1>3. a + d \in Nat /\ n + d \in Nat
  BY <1>2
<1> DEFINE r == (a + d) % M
           k == (a + d) \div M
           t == (n + d) % M
           j == (n + d) \div M
<1>4. a + d = M * k + r /\ r \in 0 .. M - 1 /\ k \in Nat
  BY <1>1, <1>3
<1>5. n + d = M * j + t /\ t \in 0 .. M - 1 /\ j \in Nat
  BY <1>1, <1>3
<1> HIDE DEF r, k, t, j
<1>6. M * (q + k) + r = M * j + t
  BY <1>2, <1>4, <1>5
<1>7. r = t
  <2>1. q + k \in Int /\ j \in Int
    BY <1>2, <1>4, <1>5
  <2> QED BY <1>4, <1>5, <1>6, <2>1, RemainderUnique
<1> QED BY <1>7 DEF r, t, a

-----------------------------------------------------------------------------
(* The delay                                                               *)

\* EDL times the unit is a whole number of slots.
LEMMA LengthWhole ==
  ASSUME TypeOK, WholeSlots
  PROVE  Length % 4 = 0
<1>1. REG_EDL % 16 \in Nat
  BY RegsAssumption DEF TypeOK, Registers
<1>2. PICK u \in Nat : Unit = 4 * u
  <2>1. Unit = 4 * (Unit \div 4) /\ Unit \div 4 \in Nat
    BY UnitAssumption
  <2> QED BY <2>1
<1>3. \A k \in Nat : (k * Unit) % 4 = 0
  <2> SUFFICES ASSUME NEW k \in Nat PROVE (k * Unit) % 4 = 0
    OBVIOUS
  <2>1. k * Unit = 4 * (k * u) /\ k * u \in Nat
    BY <1>2
  <2>2. \A m \in Nat : (4 * m) % 4 = 0
    OBVIOUS
  <2> QED BY <2>1, <2>2
<1> QED BY <1>1, <1>3 DEF Length, WholeSlots

\* What the slots of a ring are to its length.
LEMMA SlotsLemma ==
  ASSUME TypeOK, OffsetInRing, WholeSlots
  PROVE  /\ Slots \in Nat \ {0} /\ echo_offset \in Nat /\ echo_offset % 4 = 0
         /\ echo_offset < 4 * Slots /\ 4 * Slots <= Memory
         /\ Advance(echo_offset, echo_length)
              = IF echo_offset + 4 >= 4 * Slots THEN 0 ELSE echo_offset + 4
<1>1. echo_offset \in Nat /\ echo_length \in Nat
  BY UnitAssumption DEF TypeOK, Offset
<1>2. 4 * Slots = IF echo_length = 0 THEN 4 ELSE echo_length
  BY <1>1 DEF Slots, WholeSlots
<1>3. Slots \in Nat \ {0}
  BY <1>1 DEF Slots, WholeSlots
<1>4. 4 * Slots <= Memory
  <2> DEFINE top == 15 * Unit
  <2>1. top \in Nat /\ top <= Memory /\ Memory \in Nat /\ Memory >= 4
    BY UnitAssumption, MemoryAssumption
  <2>2. echo_length \in 0 .. top
    BY DEF TypeOK, Offset
  <2> HIDE DEF top
  <2> QED BY <1>2, <2>1, <2>2
<1> QED BY <1>1, <1>2, <1>3, <1>4 DEF OffsetInRing, Advance

\* A sample later every slot is passed a sample longer ago, and the position just left
\* one sample ago.
LEMMA PassedStep ==
  ASSUME NEW n \in Nat \ {0}, NEW off \in Nat, off % 4 = 0, off < 4 * n,
         NEW next, next = IF off + 4 >= 4 * n THEN 0 ELSE off + 4,
         NEW o \in Nat, o % 4 = 0, NEW d \in Nat \ {0}, d <= n, Passed(next, n, o, d)
  PROVE  /\ o = off => d = 1
         /\ o # off => d - 1 \in Nat \ {0} /\ Passed(off, n, o, d - 1)
BY DEF Passed

\* Two bytes of a ring that fits in memory are the same only at the same offset.
LEMMA ModuloInjective ==
  ASSUME NEW M \in Nat \ {0}, NEW n \in Nat, NEW x \in 0 .. M - 1, NEW y \in 0 .. M - 1,
         (n + x) % M = (n + y) % M
  PROVE  x = y
<1>1. \A c \in Nat : c = M * (c \div M) + (c % M) /\ c \div M \in Nat /\ c % M \in Nat
  OBVIOUS
<1>2. n + x \in Nat /\ n + y \in Nat
  OBVIOUS
<1> DEFINE a == (n + x) \div M
           b == (n + y) \div M
           t == (n + x) % M
<1>3. n + x = M * a + t /\ n + y = M * b + t /\ a \in Nat /\ b \in Nat /\ t \in Nat
  BY <1>1, <1>2
<1> HIDE DEF a, b, t
<1>4. M * a + y = M * b + x
  <2> DEFINE ma == M * a
             mb == M * b
  <2>1. ma \in Nat /\ mb \in Nat
    BY <1>3
  <2>2. n + x = ma + t /\ n + y = mb + t
    BY <1>3
  <2> HIDE DEF ma, mb
  <2>3. ma + y = mb + x
    BY <1>3, <2>1, <2>2
  <2> QED BY <2>3 DEF ma, mb
<1>5. a \in Int /\ b \in Int
  BY <1>3
<1>6. y = x
  BY <1>4, <1>5, RemainderUnique
<1> QED BY <1>6

\* The bytes that a sample writes are those of its slot and of no other slot of the ring.
LEMMA WrittenBytes ==
  ASSUME TypeOK, OffsetInRing, WholeSlots, Ring, echo_enabled',
         NEW o \in Nat, o % 4 = 0, o < 4 * Slots, NEW e \in 0 .. 3
  PROVE  RingByte(o + e) \in written' <=> o = echo_offset
<1> DEFINE base == esa * Page
<1>1. base \in Nat
  <2>1. \A m, n \in Nat : m * n \in Nat
    OBVIOUS
  <2> QED BY <2>1, MemoryAssumption DEF TypeOK
<1>2. written' = {(echo_ptr' + d) % Memory : d \in 0 .. 3}
  BY DEF Ring, Slot
<1>3. echo_ptr' = (base + echo_offset) % Memory /\ RingByte(o + e) = (base + (o + e)) % Memory
  BY DEF Ring, BasePage, RingByte
<1>4. /\ echo_offset \in Nat /\ echo_offset % 4 = 0 /\ echo_offset < 4 * Slots
      /\ 4 * Slots <= Memory /\ Slots \in Nat /\ Memory \in Nat \ {0}
  BY SlotsLemma, MemoryAssumption
<1> HIDE DEF base
<1>5. ASSUME NEW d \in 0 .. 3
      PROVE  (echo_ptr' + d) % Memory = (base + (echo_offset + d)) % Memory
  <2>1. base + echo_offset \in Nat /\ d \in Nat
    BY <1>1, <1>4
  <2>2. (echo_ptr' + d) % Memory = ((base + echo_offset) + d) % Memory
    BY <1>3, <1>4, <2>1, ModuloSum
  <2>3. (base + echo_offset) + d = base + (echo_offset + d)
    BY <1>1, <1>4
  <2> QED BY <2>2, <2>3
<1>6. CASE o = echo_offset
  BY <1>2, <1>3, <1>5, <1>6
<1>7. CASE o # echo_offset
  <2>1. ASSUME NEW d \in 0 .. 3
        PROVE  RingByte(o + e) # (echo_ptr' + d) % Memory
    <3>1. o + e \in 0 .. Memory - 1 /\ echo_offset + d \in 0 .. Memory - 1
      BY <1>4
    <3>2. o + e # echo_offset + d
      BY <1>4, <1>7
    <3> DEFINE x == o + e
               y == echo_offset + d
    <3>3. Memory \in Nat \ {0} /\ x \in 0 .. Memory - 1 /\ y \in 0 .. Memory - 1 /\ x # y
      BY <1>4, <3>1, <3>2
    <3>4. RingByte(o + e) = (base + x) % Memory
      BY <1>3
    <3>5. (echo_ptr' + d) % Memory = (base + y) % Memory
      BY <1>5
    <3> HIDE DEF x, y
    <3>6. (base + x) % Memory # (base + y) % Memory
      BY <1>1, <3>3, ModuloInjective
    <3> QED BY <3>4, <3>5, <3>6
  <2> QED BY <1>2, <1>7, <2>1
<1> QED BY <1>6, <1>7

\* The ages keep up with the distances.
LEMMA AgesLemma ==
  ASSUME TypeOK, OffsetInRing, WholeSlots, SlotAges, Ring
  PROVE  SlotAges'
<1> DEFINE Steady == echo_enabled' /\ esa' = esa /\ echo_length' = echo_length
<1>1. CASE ~Steady
  <2>1. stable' = 0
    BY <1>1 DEF Ring
  <2> QED BY <2>1 DEF SlotAges
<1>2. CASE Steady
  <2>1. Slots' = Slots /\ \A n : RingByte(n)' = RingByte(n)
    BY <1>2 DEF Slots, RingByte
  <2>2. stable \in Nat /\ MaxDelay \in Nat /\ stable' \in Nat /\ stable' <= stable + 1
    BY <1>2, AgeAssumption DEF Ring, Older, TypeOK, Delay
  <2> SUFFICES ASSUME Slots < MaxDelay, NEW o \in Nat, NEW d \in Nat \ {0}, o % 4 = 0,
                      d <= Slots, d <= stable', Passed(echo_offset', Slots, o, d),
                      NEW e \in 0 .. 3
               PROVE  age'[RingByte(o + e)] = d
    BY <2>1 DEF SlotAges
  <2>3. /\ Slots \in Nat \ {0} /\ echo_offset \in Nat /\ echo_offset % 4 = 0
        /\ echo_offset < 4 * Slots
        /\ echo_offset' = IF echo_offset + 4 >= 4 * Slots THEN 0 ELSE echo_offset + 4
    BY <1>2, SlotsLemma DEF Ring
  <2>4. o < 4 * Slots
    BY DEF Passed
  <2>5. /\ o = echo_offset => d = 1
        /\ o # echo_offset => d - 1 \in Nat \ {0} /\ Passed(echo_offset, Slots, o, d - 1)
    BY <2>3, PassedStep
  <2> DEFINE b == RingByte(o + e)
  <2>6. b \in written' <=> o = echo_offset
    BY <1>2, <2>4, WrittenBytes
  <2>7. age'[b] = IF b \in written' THEN 1 ELSE Older(age[b], MaxDelay)
    <3>1. b \in Byte
      <4>1. \A m, n \in Nat : m * n \in Nat /\ m + n \in Nat
        OBVIOUS
      <4>2. \A n \in Nat : n % Memory \in Byte
        BY MemoryAssumption DEF Byte
      <4>3. o + e \in Nat /\ esa * Page \in Nat
        BY <4>1, MemoryAssumption DEF TypeOK
      <4> QED BY <4>1, <4>2, <4>3 DEF RingByte
    <3> QED BY <3>1 DEF Ring
  <2> HIDE DEF b
  <2>8. CASE o = echo_offset
    BY <2>5, <2>6, <2>7, <2>8 DEF b
  <2>9. CASE o # echo_offset
    <3>1. d - 1 \in Nat \ {0} /\ d - 1 <= Slots /\ d - 1 <= stable
      BY <2>2, <2>3, <2>5, <2>9
    <3>2. age[b] = d - 1
      BY <2>5, <2>9, <3>1 DEF SlotAges, b
    <3>3. Older(d - 1, MaxDelay) = d
      BY <2>2, <2>3, <3>1 DEF Older
    <3> QED BY <2>6, <2>7, <2>9, <3>2, <3>3 DEF b
  <2> QED BY <2>8, <2>9
<1> QED BY <1>1, <1>2

\* The slot at the position was passed a whole ring ago.
LEMMA AgesDelay ==
  ASSUME IInv
  PROVE  DelayIsLength
<1> SUFFICES ASSUME stable >= Slots, Slots < MaxDelay, NEW d \in 0 .. 3
             PROVE  age[(BasePage * Page + echo_offset + d) % Memory] = Slots
  BY DEF DelayIsLength
<1>1. /\ Slots \in Nat \ {0} /\ echo_offset \in Nat /\ echo_offset % 4 = 0
      /\ echo_offset < 4 * Slots
  BY SlotsLemma DEF IInv
<1>2. Passed(echo_offset, Slots, echo_offset, Slots)
  BY <1>1 DEF Passed
<1>3. stable \in Nat
  BY AgeAssumption DEF IInv, TypeOK, Delay
<1>4. age[RingByte(echo_offset + d)] = Slots
  BY <1>1, <1>2, <1>3 DEF IInv, SlotAges
<1>5. esa * Page + echo_offset + d = esa * Page + (echo_offset + d)
  <2>1. esa * Page \in Nat
    <3>1. \A m, n \in Nat : m * n \in Nat
      OBVIOUS
    <3> QED BY <3>1, MemoryAssumption DEF IInv, TypeOK
  <2> QED BY <1>1, <2>1
<1> QED BY <1>4, <1>5 DEF RingByte, BasePage

-----------------------------------------------------------------------------
(* The bytes written                                                       *)

\* The slot of a sample is in the ring, at the page that esa had.
LEMMA SampleWrites ==
  ASSUME TypeOK, OffsetInRing, WholeSlots, Ring
  PROVE  written' \subseteq {(esa * Page + d) % Memory : d \in 0 .. 4 * Slots - 1}
<1> DEFINE base == esa * Page
<1>1. base \in Nat
  <2>1. \A m, n \in Nat : m * n \in Nat
    OBVIOUS
  <2> QED BY <2>1, MemoryAssumption DEF TypeOK
<1>2. written' = {} \/ written' = {(echo_ptr' + d) % Memory : d \in 0 .. 3}
  BY DEF Ring, Slot
<1>3. echo_ptr' = (base + echo_offset) % Memory
  BY DEF Ring, BasePage
<1>4. /\ Slots \in Nat \ {0} /\ echo_offset \in Nat /\ echo_offset % 4 = 0
      /\ echo_offset < 4 * Slots
  BY SlotsLemma
<1> HIDE DEF base
<1>5. ASSUME NEW d \in 0 .. 3
      PROVE  \E e \in 0 .. 4 * Slots - 1 : (echo_ptr' + d) % Memory = (base + e) % Memory
  <2>1. echo_offset + d \in 0 .. 4 * Slots - 1
    BY <1>4
  <2>2. base + echo_offset \in Nat /\ d \in Nat
    BY <1>1, <1>4
  <2>3. (echo_ptr' + d) % Memory = ((base + echo_offset) + d) % Memory
    <3>1. Memory \in Nat \ {0}
      BY MemoryAssumption
    <3> QED BY <1>3, <2>2, <3>1, ModuloSum
  <2>4. (base + echo_offset) + d = base + (echo_offset + d)
    BY <1>1, <1>4
  <2> QED BY <2>1, <2>3, <2>4
<1> QED BY <1>2, <1>5 DEF base

-----------------------------------------------------------------------------
(* The invariant                                                           *)

\* The ring starts empty and the history unwritten.
LEMMA InitIInv == Init => IInv
<1> SUFFICES ASSUME Init PROVE IInv
  OBVIOUS
<1>1. 15 * Unit \in Nat /\ 0 \in Offset
  BY UnitAssumption DEF Offset
<1>2. TypeOK
  <2>1. 0 \in Byte /\ 0 \in Hist
    BY MemoryAssumption DEF Hist, Byte
  <2>2. /\ hist_left \in [Hist -> Age] /\ hist_right \in [Hist -> Age]
        /\ taps_left \in [Hist -> Age] /\ taps_right \in [Hist -> Age]
        /\ age \in [Byte -> Delay]
    BY AgeFacts DEF Init
  <2> QED BY <1>1, <2>1, <2>2, AgeFacts DEF Init, TypeOK
<1>3. OffsetInRing
  BY DEF Init, OffsetInRing
<1>4. HistAges /\ TapsSlide
  BY DEF Init, HistAges, TapsSlide
<1>5. WholeSlots /\ SlotAges
  BY DEF Init, WholeSlots, SlotAges
<1> QED BY <1>2, <1>3, <1>4, <1>5 DEF IInv

\* Every step keeps the invariant; stores leave the echo unit's own state alone.
LEMMA NextIInv == IInv /\ [Next]_vars => IInv'
<1> SUFFICES ASSUME IInv, [Next]_vars PROVE IInv'
  OBVIOUS
<1>1. CASE Sample
  <2>1. Registers'
    BY <1>1 DEF IInv, TypeOK, Sample, regs, Registers
  <2>2. /\ echo_hist_pos' \in Hist
        /\ hist_left' \in [Hist -> Age] /\ hist_right' \in [Hist -> Age]
        /\ taps_left' \in [Hist -> Age] /\ taps_right' \in [Hist -> Age]
        /\ HistAges' /\ TapsSlide'
    BY <1>1, FirLemma DEF IInv, Sample
  <2>3. /\ esa' \in Nat /\ echo_enabled' \in BOOLEAN
        /\ echo_offset' \in Offset /\ echo_length' \in Offset
        /\ echo_ptr' \in Byte /\ written' \subseteq Byte
        /\ age' \in [Byte -> Delay] /\ stable' \in Delay
        /\ OffsetInRing'
    BY <1>1, RingLemma DEF IInv, Sample
  <2>4. WholeSlots' /\ SlotAges'
    <3>1. echo_length' % 4 = 0
      BY <1>1, LengthWhole DEF IInv, Sample, Ring
    <3> QED BY <1>1, <3>1, AgesLemma DEF IInv, Sample, WholeSlots
  <2> QED BY <2>1, <2>2, <2>3, <2>4 DEF IInv, TypeOK
<1>2. CASE ~Sample
  <2>1. Registers' /\ UNCHANGED <<ring, fir, age, stable, written>>
    BY <1>2 DEF Next, Store, vars, regs, Registers, IInv, TypeOK
  <2>2. WholeSlots' /\ SlotAges'
    BY <2>1 DEF IInv, WholeSlots, SlotAges, Slots, Passed, RingByte, ring
  <2> QED BY <2>1, <2>2 DEF IInv, TypeOK, OffsetInRing, HistAges, TapsSlide, EntryAge, ring, fir
<1> QED BY <1>1, <1>2

\* The invariant holds throughout.
LEMMA Invariance == Spec => []IInv
BY InitIInv, NextIInv, PTL DEF Spec

-----------------------------------------------------------------------------
(* Theorems                                                                *)

\* Every byte read or written is one of memory, and every length and position is one
\* of the longest ring.
THEOREM TypeCorrect == Spec => []TypeOK
<1>1. IInv => TypeOK
  BY DEF IInv
<1> QED BY <1>1, Invariance, PTL

\* EDL may be stored at any sample: the position stays inside the ring in use.
THEOREM StaysInRing == Spec => []OffsetInRing
<1>1. IInv => OffsetInRing
  BY DEF IInv
<1> QED BY <1>1, Invariance, PTL

\* The filter meets the last eight samples in order, in both channels, though
\* the right one is written in the middle of the reads.
THEOREM Slides == Spec => []TapsSlide
<1>1. IInv => TapsSlide
  BY DEF IInv
<1> QED BY <1>1, Invariance, PTL

\* Once the ring has been written for a turn of it, at one page and with one length, what
\* is read was written exactly that length ago: a stored EDL takes effect at the start of
\* the ring and nowhere else, and no write of before, to another page, comes between.
THEOREM DelaysByLength == Spec => []DelayIsLength
<1>1. IInv => DelayIsLength
  BY AgesDelay
<1> QED BY <1>1, Invariance, PTL

\* No sample writes outside the ring that starts at the page of ESA which the sample
\* before it saw, whatever is stored in between.
THEOREM WritesStayInRing == Spec => WritesInRing
<1>1. IInv /\ [Next]_vars =>
        [Sample => written' \subseteq {(esa * Page + d) % Memory : d \in 0 .. 4 * Slots - 1}]_vars
  <2>1. ASSUME IInv, Sample
        PROVE  written' \subseteq {(esa * Page + d) % Memory : d \in 0 .. 4 * Slots - 1}
    BY <2>1, SampleWrites DEF IInv, Sample
  <2> QED BY <2>1
<1> QED BY <1>1, Invariance, PTL DEF Spec, WritesInRing
=============================================================================
