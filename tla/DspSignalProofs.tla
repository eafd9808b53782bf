-------------------------- MODULE DspSignalProofs ---------------------------
(***************************************************************************)
(* Proofs about DspSignal, for every memory, every pitch and every order   *)
(* of stores, samples and files: a voice plays its sample at its pitch,    *)
(* and interpolating fits 16 bits; the whole implements its voice and its  *)
(* echo, so that what is proved of them on their own holds here; the echo  *)
(* of a ring without feedback dies out, and outside the ring nothing is    *)
(* written.  The last section is about the rate counters (DspCounter),     *)
(* which next_sample steps before its voices.                              *)
(***************************************************************************)
EXTENDS DspSignal, DspCounter, SequenceTheorems, TLAPS

\* The types that the position of a voice rests on.
Numbers ==
  /\ pitch \in Nat /\ pitch < 16384 /\ interp_pos \in Nat /\ interp_pos < 32768
  /\ attack_delay \in 0 .. 5 /\ buf_pos \in {0, 4, 8} /\ travelled \in Nat

Positioned == Numbers /\ \E S : src \in Seq(S)

\* The ring holds the last twelve samples decoded, the oldest at its position.
Holds(b, p, s) ==
  \A i \in 0 .. 11 : 12 - i <= Len(s) => b[wrap12(p + i)] = s[Len(s) - 11 + i]

Ring == Holds(buf, buf_pos, src)

\* After its delay a voice is as far in its samples as the pitches took it: its
\* interpolator's position is what they add up to, less four positions a group.
InStep ==
  /\ attack_delay \in 1 .. 4 => Len(src) = 4 * (4 - attack_delay)
  /\ attack_delay = 0 =>
       \/ src = <<>> /\ env = 0 /\ env_mode = "release"
       \/ Len(src) >= 12 /\ interp_pos + 4096 * Len(src) = travelled + 65536

IInv == Positioned /\ Ring /\ InStep

-----------------------------------------------------------------------------
(* The ring                                                                *)

\* What a group of four appends to the samples.
LEMMA Append4 ==
  ASSUME NEW S, NEW s \in Seq(S), NEW four, four = [k \in 1 .. 4 |-> four[k]]
  PROVE  /\ \E T : s \o four \in Seq(T)
         /\ Len(s \o four) = Len(s) + 4
         /\ \A i \in 1 .. Len(s) : (s \o four)[i] = s[i]
         /\ \A k \in 1 .. 4 : (s \o four)[Len(s) + k] = four[k]
<1> DEFINE T == S \cup {four[k] : k \in 1 .. 4}
<1>1. four \in [1 .. 4 -> T]
  OBVIOUS
<1>2. four \in Seq(T) /\ Len(four) = 4
  BY <1>1
<1>3. s \in Seq(T)
  OBVIOUS
<1> HIDE DEF T
<1> QED BY <1>2, <1>3

\* Where a place of the ring goes when a group is decoded at p.
LEMMA RingIndex ==
  ASSUME NEW p \in {0, 4, 8}, NEW i \in 0 .. 11,
         NEW q, q = IF p + 4 >= 12 THEN 0 ELSE p + 4
  PROVE  /\ i <= 7 => /\ wrap12(q + i) = wrap12(p + (i + 4))
                      /\ wrap12(q + i) \in 0 .. 11 /\ wrap12(q + i) \notin p .. p + 3
         /\ i >= 8 => wrap12(q + i) = p + (i - 8)
BY DEF wrap12

\* Where a sample moves to in the last twelve when four are appended to L of them.
LEMMA RingMove ==
  ASSUME NEW L \in Nat, NEW i \in 0 .. 7, 12 - i <= L + 4
  PROVE  /\ i + 4 \in 0 .. 11 /\ 12 - (i + 4) <= L /\ L - 11 + (i + 4) \in 1 .. L
         /\ (L + 4) - 11 + i = L - 11 + (i + 4)
OBVIOUS

\* Four samples decoded into the ring push out the oldest four.
Pushed(b, p, four) ==
  [n \in 0 .. 11 |-> IF n \in p .. p + 3 THEN four[n - p + 1] ELSE b[n]]

\* A group decoded over the oldest four keeps the ring.
LEMMA RingPush ==
  ASSUME NEW S, NEW s \in Seq(S), NEW p \in {0, 4, 8}, NEW b, NEW four,
         four = [k \in 1 .. 4 |-> four[k]], Holds(b, p, s)
  PROVE  Holds(Pushed(b, p, four), IF p + 4 >= 12 THEN 0 ELSE p + 4, s \o four)
<1> DEFINE q == IF p + 4 >= 12 THEN 0 ELSE p + 4
           b2 == Pushed(b, p, four)
           s2 == s \o four
           L == Len(s)
           L2 == Len(s2)
<1>0. L2 = L + 4 /\ L \in Nat
  BY Append4
<1>1. /\ \A j \in 1 .. L : s2[j] = s[j]
      /\ \A k \in 1 .. 4 : s2[L + k] = four[k]
  BY Append4
<1>2. \A n \in 0 .. 11 : b2[n] = IF n \in p .. p + 3 THEN four[n - p + 1] ELSE b[n]
  BY DEF Pushed
<1>3. \A i \in 0 .. 11 :
        /\ i <= 7 => /\ wrap12(q + i) = wrap12(p + (i + 4))
                     /\ wrap12(q + i) \in 0 .. 11 /\ wrap12(q + i) \notin p .. p + 3
        /\ i >= 8 => wrap12(q + i) = p + (i - 8)
  BY RingIndex
<1>4. \A i \in 0 .. 11 : 12 - i <= L => b[wrap12(p + i)] = s[L - 11 + i]
  BY DEF Holds
<1> HIDE DEF q, b2, s2, L, L2
<1>5. ASSUME NEW i \in 0 .. 11, 12 - i <= L2
      PROVE  b2[wrap12(q + i)] = s2[L2 - 11 + i]
  <2>1. CASE i <= 7
    <3>0. i \in 0 .. 7
      BY <2>1
    <3>1. i + 4 \in 0 .. 11 /\ 12 - (i + 4) <= L /\ L - 11 + (i + 4) \in 1 .. L
      BY <1>0, <1>5, <3>0, RingMove
    <3>2. b[wrap12(p + (i + 4))] = s[L - 11 + (i + 4)]
      BY <1>4, <3>1
    <3>3. b2[wrap12(q + i)] = b[wrap12(p + (i + 4))]
      BY <1>2, <1>3, <2>1
    <3>4. s2[L - 11 + (i + 4)] = s[L - 11 + (i + 4)]
      BY <1>1, <3>1
    <3>5. L2 - 11 + i = L - 11 + (i + 4)
      <4>1. (L + 4) - 11 + i = L - 11 + (i + 4)
        BY <1>0, <1>5, <3>0, RingMove
      <4> QED BY <1>0, <4>1
    <3> QED BY <3>2, <3>3, <3>4, <3>5
  <2>2. CASE i >= 8
    <3>1. i - 7 \in 1 .. 4 /\ L2 - 11 + i = L + (i - 7)
      BY <1>0, <2>2
    <3>2. p + (i - 8) \in 0 .. 11 /\ p + (i - 8) \in p .. p + 3 /\ (p + (i - 8)) - p + 1 = i - 7
      BY <2>2
    <3>3. b2[p + (i - 8)] = four[i - 7]
      BY <1>2, <3>2
    <3>4. wrap12(q + i) = p + (i - 8)
      BY <1>3, <2>2
    <3>5. s2[L + (i - 7)] = four[i - 7]
      BY <1>1, <3>1
    <3> QED BY <3>1, <3>3, <3>4, <3>5
  <2> QED BY <2>1, <2>2
<1> QED BY <1>5 DEF Holds, q, b2, s2, L2

\* Four consecutive samples, as a function.
LEMMA Sub4 ==
  ASSUME NEW S, NEW s \in Seq(S), NEW n \in Nat, n + 4 <= Len(s)
  PROVE  SubSeq(s, n + 1, n + 4) = [k \in 1 .. 4 |-> s[n + k]]
<1> DEFINE lo == n + 1
           hi == n + 4
<1>1. lo \in Int /\ hi \in Int /\ lo <= hi /\ hi - lo + 1 = 4
      /\ \A i \in lo .. hi : i \in 1 .. Len(s)
  OBVIOUS
<1>2. \A k \in 1 .. 4 : lo + k - 1 = n + k
  OBVIOUS
<1>3. \A i \in 1 .. Len(s) : s[i] \in S
  OBVIOUS
<1> HIDE DEF lo, hi
<1>4. \A i \in lo .. hi : s[i] \in S
  BY <1>1, <1>3
<1>5. /\ SubSeq(s, lo, hi) \in Seq(S)
      /\ Len(SubSeq(s, lo, hi)) = IF lo <= hi THEN hi - lo + 1 ELSE 0
      /\ \A i \in 1 .. hi - lo + 1 : SubSeq(s, lo, hi)[i] = s[lo + i - 1]
  BY <1>1, <1>4, SubSeqProperties
<1> DEFINE sub == SubSeq(s, lo, hi)
<1>6. sub \in Seq(S) /\ Len(sub) = 4 /\ \A k \in 1 .. 4 : sub[k] = s[n + k]
  BY <1>1, <1>2, <1>5
<1> HIDE DEF sub
<1>7. sub = [k \in 1 .. 4 |-> s[n + k]]
  BY <1>6
<1> QED BY <1>7 DEF sub, lo, hi

\* Four places of the ring, q past its position, are four consecutive samples.
Places(b, p, q) == [k \in 1 .. 4 |-> b[wrap12(p + q + k - 1)]]

Windowed(b, p, s) ==
  \A q \in 0 .. 7, n \in Nat : n + 12 = Len(s) + q =>
    n + 4 <= Len(s) /\ Places(b, p, q) = SubSeq(s, n + 1, n + 4)

\* Any four places of a full ring are consecutive samples.
LEMMA Window ==
  ASSUME NEW b, NEW p \in Int, NEW S, NEW s \in Seq(S), Holds(b, p, s), Len(s) >= 12
  PROVE  Windowed(b, p, s)
<1> SUFFICES ASSUME NEW q \in 0 .. 7, NEW n \in Nat, n + 12 = Len(s) + q
             PROVE  n + 4 <= Len(s) /\ Places(b, p, q) = SubSeq(s, n + 1, n + 4)
  BY DEF Windowed
<1>1. Len(s) \in Nat
  OBVIOUS
<1>2. ASSUME NEW k \in 1 .. 4
      PROVE  b[wrap12(p + q + k - 1)] = s[Len(s) - 12 + q + k]
  <2>1. \A L \in Nat : L >= 12 =>
          \E i \in 0 .. 11 : /\ p + i = p + q + k - 1 /\ 12 - i <= L
                             /\ L - 11 + i = L - 12 + q + k
    <3>1. q + k - 1 \in 0 .. 11
      OBVIOUS
    <3> QED BY <3>1
  <2>2. PICK i \in 0 .. 11 : /\ p + i = p + q + k - 1 /\ 12 - i <= Len(s)
                             /\ Len(s) - 11 + i = Len(s) - 12 + q + k
    BY <1>1, <2>1
  <2>3. b[wrap12(p + i)] = s[Len(s) - 11 + i]
    BY <2>2 DEF Holds
  <2> QED BY <2>2, <2>3
<1>3. \A k \in 1 .. 4 : Len(s) - 12 + q + k = n + k
  BY <1>1
<1>4. n + 4 <= Len(s)
  BY <1>1
<1>5. SubSeq(s, n + 1, n + 4) = [k \in 1 .. 4 |-> s[n + k]]
  BY <1>4, Sub4
<1>6. \A k \in 1 .. 4 : b[wrap12(p + q + k - 1)] = s[n + k]
  BY <1>2, <1>3
<1>7. Places(b, p, q) = [k \in 1 .. 4 |-> s[n + k]]
  BY <1>6 DEF Places
<1> QED BY <1>4, <1>5, <1>7

\* InStep puts the interpolator over the samples that the way says.
LEMMA Played ==
  ASSUME IInv
  PROVE  PlaysAtPitch
<1> SUFFICES ASSUME attack_delay = 0, src # <<>>
             PROVE  LET n == Skipped + travelled \div 4096
                    IN  /\ n + 4 <= Len(src)
                        /\ Points(buf, buf_pos, interp_pos) = SubSeq(src, n + 1, n + 4)
                        /\ interp_pos % 4096 = travelled % 4096
  BY DEF PlaysAtPitch
<1> DEFINE n == Skipped + travelled \div 4096
           q == interp_pos \div 4096
<1>1. Len(src) >= 12 /\ interp_pos + 4096 * Len(src) = travelled + 65536
  BY DEF IInv, InStep
<1>2. PICK S : src \in Seq(S)
  BY DEF IInv, Positioned
<1>3. Len(src) \in Nat /\ travelled \in Nat
      /\ interp_pos \in Nat /\ interp_pos < 32768 /\ buf_pos \in {0, 4, 8}
  BY <1>2 DEF IInv, Positioned, Numbers
<1>4. q \in 0 .. 7 /\ (interp_pos \div 4096) % 8 = q
  <2>1. q \in 0 .. 7
    BY <1>3
  <2> QED BY <2>1
<1>5. n \in Nat /\ n + 12 = Len(src) + q /\ interp_pos % 4096 = travelled % 4096
  BY <1>1, <1>3 DEF Skipped
<1>6. Points(buf, buf_pos, interp_pos) = Places(buf, buf_pos, q)
  BY <1>4 DEF Points, Places
<1> HIDE DEF n, q
<1>7. n + 4 <= Len(src) /\ Places(buf, buf_pos, q) = SubSeq(src, n + 1, n + 4)
  <2>1. Holds(buf, buf_pos, src) /\ buf_pos \in Int /\ Len(src) >= 12
    BY <1>1, <1>3 DEF IInv, Ring
  <2>2. Windowed(buf, buf_pos, src)
    BY <1>2, <2>1, Window
  <2>3. q \in 0 .. 7 /\ n \in Nat /\ n + 12 = Len(src) + q
    BY <1>4, <1>5
  <2> QED BY <2>2, <2>3, Zenon DEF Windowed
<1> QED BY <1>5, <1>6, <1>7 DEF n

-----------------------------------------------------------------------------
(* A sample                                                                *)

\* Where the delay goes, unless a key-on sets it to five.
Waited == IF attack_delay > 0 THEN attack_delay - 1 ELSE 0

Kept == IF attack_delay = 5 THEN <<>> ELSE src

\* What a sample does to the delay, the position and the way.
LEMMA SampleMoves ==
  ASSUME Positioned, next_sample
  PROVE  /\ pitch' = pitch /\ attack_delay' \in {5, Waited}
         /\ Voice!StartInterp = IF attack_delay = 0 THEN interp_pos
                                ELSE IF attack_delay <= 4 THEN 16384 ELSE 0
         /\ Decoding <=> ~Voice!Silent /\ Voice!StartInterp >= 16384
         /\ Voice!Silent => attack_delay' = 0
         /\ interp_pos' = IF Voice!Silent THEN Voice!StartInterp
                          ELSE (Voice!StartInterp % 16384)
                                 + (IF attack_delay > 0 THEN 0 ELSE pitch)
         /\ travelled' = IF attack_delay > 0 THEN 0
                         ELSE IF Voice!Silent THEN travelled ELSE travelled + pitch
<1>1. /\ attack_delay \in 0 .. 5 /\ interp_pos \in Nat /\ interp_pos < 32768
      /\ pitch \in Nat /\ pitch < 16384
  BY DEF Positioned, Numbers
<1>2. Voice!Sample /\ Follow
  BY DEF next_sample
<1>3. pitch' = pitch
  BY <1>2 DEF Voice!Sample, Voice!regs
<1>4. attack_delay' \in {5, Waited}
  BY <1>1, <1>2 DEF Voice!Sample, Voice!DelayAfter, Voice!Delayed, Waited
<1>5. Voice!StartInterp = IF attack_delay = 0 THEN interp_pos
                          ELSE IF attack_delay <= 4 THEN 16384 ELSE 0
  BY <1>1 DEF Voice!StartInterp, Voice!Delayed
<1>6. Decoding <=> ~Voice!Silent /\ Voice!StartInterp >= 16384
  BY DEF Decoding, Voice!Decodes
<1>7. Voice!Silent => attack_delay' = 0
  BY DEF Voice!Silent
<1>8. travelled' = IF attack_delay > 0 THEN 0
                   ELSE IF Voice!Silent THEN travelled ELSE travelled + pitch
  BY <1>2 DEF Follow, Voice!Delayed
<1>9. interp_pos' = IF Voice!Silent THEN Voice!StartInterp
                    ELSE (Voice!StartInterp % 16384) + (IF attack_delay > 0 THEN 0 ELSE pitch)
  <2> DEFINE r == Voice!StartInterp % 16384
             step == IF attack_delay > 0 THEN 0 ELSE pitch
             p == r + step
  <2>1. Voice!StartInterp \in Int
    BY <1>1, <1>5
  <2>2. r \in Nat /\ r < 16384 /\ step \in Nat /\ step < 16384
    BY <1>1, <2>1
  <2>3. p <= 32767 /\ p \in Int
    <3> HIDE DEF r, step
    <3> QED BY <2>2
  <2>4. interp_pos' = IF Voice!Silent THEN Voice!StartInterp ELSE Voice!NextInterp
    BY <1>2 DEF Voice!Sample, Voice!Interp
  <2>5. Voice!NextInterp = IF p > 32767 THEN 32767 ELSE p
    BY DEF Voice!NextInterp, Voice!Delayed
  <2> HIDE DEF p
  <2>6. Voice!NextInterp = p
    BY <2>3, <2>5
  <2> QED BY <2>4, <2>6 DEF p
<1> QED BY <1>3, <1>4, <1>5, <1>6, <1>7, <1>8, <1>9

\* What a sample does to the ring and the samples.
LEMMA SampleDecodes ==
  ASSUME Positioned, next_sample
  PROVE  /\ Voice!StartBuf = IF attack_delay = 5 THEN 0 ELSE buf_pos
         /\ Decoding => /\ buf_pos' = IF Voice!StartBuf + 4 >= 12 THEN 0 ELSE Voice!StartBuf + 4
                        /\ buf' = Pushed(buf, Voice!StartBuf, Clamped(Decoded))
                        /\ src' = Kept \o Clamped(Decoded)
         /\ ~Decoding => buf_pos' = Voice!StartBuf /\ buf' = buf /\ src' = Kept
<1>1. Voice!Sample /\ Follow /\ Decode
  BY DEF next_sample, VoiceRun
<1>2. Voice!StartBuf = IF attack_delay = 5 THEN 0 ELSE buf_pos
  BY DEF Voice!StartBuf, Voice!Starting
<1>3. src' = IF Decoding THEN Kept \o Clamped(Decoded) ELSE Kept
  BY <1>1 DEF Follow, Kept, Voice!Starting
<1>4. buf' = IF ~Decoding THEN buf ELSE Pushed(buf, Voice!StartBuf, Clamped(Decoded))
  BY <1>1 DEF Decode, Pushed
<1>5. buf_pos' = IF Decoding THEN Voice!NextBuf(Voice!StartBuf) ELSE Voice!StartBuf
  BY <1>1 DEF Voice!Sample, Voice!Walk, Decoding
<1>6. Voice!NextBuf(Voice!StartBuf) = IF Voice!StartBuf + 4 >= 12 THEN 0 ELSE Voice!StartBuf + 4
  BY DEF Voice!NextBuf, Voice!BufSize
<1> QED BY <1>2, <1>3, <1>4, <1>5, <1>6

\* A voice that never decoded stays silent until it is keyed on.
LEMMA StaysSilent ==
  ASSUME next_sample, attack_delay = 0, env = 0, env_mode = "release"
  PROVE  attack_delay' = 5 \/ (Voice!Silent /\ env' = 0 /\ env_mode' = "release")
<1>1. Voice!Envelope /\ attack_delay' = Voice!DelayAfter
  BY DEF next_sample, Voice!Sample
<1>2. CASE Voice!KeyedOn
  BY <1>1, <1>2 DEF Voice!DelayAfter
<1>3. CASE ~Voice!KeyedOn
  <2>1. attack_delay' = 0
    BY <1>1, <1>3 DEF Voice!DelayAfter, Voice!Delayed
  <2>2. Voice!ModeBefore = "release" /\ Voice!EnvBefore = 0
    BY <1>3 DEF Voice!ModeBefore, Voice!EnvBefore
  <2>3. env_mode' = "release" /\ env' = 0
    BY <1>1, <2>1, <2>2 DEF Voice!Envelope, Voice!run_envelope, Voice!Released
  <2> QED BY <2>1, <2>3 DEF Voice!Silent
<1> QED BY <1>2, <1>3

\* A voice that starts has no samples and a ring of none.
LEMMA KeptRing ==
  ASSUME Positioned, Ring, NEW p, p = IF attack_delay = 5 THEN 0 ELSE buf_pos
  PROVE  p \in {0, 4, 8} /\ Holds(buf, p, Kept) /\ \E S : Kept \in Seq(S)
<1>1. CASE attack_delay = 5
  <2>1. Kept = <<>> /\ p = 0 /\ Len(Kept) = 0
    BY <1>1 DEF Kept
  <2>2. Kept \in Seq({})
    BY <2>1
  <2>3. Holds(buf, p, Kept)
    BY <2>1 DEF Holds
  <2> QED BY <2>1, <2>2, <2>3
<1>2. CASE attack_delay # 5
  <2>1. Kept = src /\ p = buf_pos
    BY <1>2 DEF Kept
  <2> QED BY <2>1 DEF Positioned, Numbers, Ring
<1> QED BY <1>1, <1>2

\* The ring moves on with the samples.
LEMMA SampleRing ==
  ASSUME Positioned, Ring, next_sample
  PROVE  /\ Ring' /\ buf_pos' \in {0, 4, 8} /\ \E S : src' \in Seq(S)
         /\ Len(Kept) \in Nat
         /\ Len(src') = IF Decoding THEN Len(Kept) + 4 ELSE Len(Kept)
<1> DEFINE p == Voice!StartBuf
           four == Clamped(Decoded)
<1>1. p = IF attack_delay = 5 THEN 0 ELSE buf_pos
  BY SampleDecodes
<1>2. p \in {0, 4, 8} /\ Holds(buf, p, Kept) /\ \E S : Kept \in Seq(S)
  BY <1>1, KeptRing
<1>3. PICK S : Kept \in Seq(S)
  BY <1>2
<1>4. CASE Decoding
  <2>1. /\ buf_pos' = IF p + 4 >= 12 THEN 0 ELSE p + 4
        /\ buf' = Pushed(buf, p, four) /\ src' = Kept \o four
    BY <1>4, SampleDecodes
  <2>2. four = [k \in 1 .. 4 |-> four[k]]
    BY DEF Clamped
  <2> HIDE DEF p, four
  <2>3. Holds(Pushed(buf, p, four), IF p + 4 >= 12 THEN 0 ELSE p + 4, Kept \o four)
    BY <1>2, <1>3, <2>2, RingPush
  <2>4. (\E T : src' \in Seq(T)) /\ Len(src') = Len(Kept) + 4
    BY <1>3, <2>1, <2>2, Append4
  <2>5. buf_pos' \in {0, 4, 8}
    BY <1>2, <2>1
  <2>6. Len(Kept) \in Nat
    BY <1>3
  <2> QED BY <1>4, <2>1, <2>3, <2>4, <2>5, <2>6 DEF Ring
<1>5. CASE ~Decoding
  <2>1. buf_pos' = p /\ buf' = buf /\ src' = Kept
    BY <1>5, SampleDecodes
  <2>2. Len(Kept) \in Nat
    BY <1>3
  <2> QED BY <1>2, <1>5, <2>1, <2>2 DEF Ring
<1> QED BY <1>4, <1>5

\* The position after a sample: a group of four is 16384 positions.
LEMMA Advance ==
  ASSUME NEW start \in Nat, start < 32768, NEW p \in Nat, p < 16384
  PROVE  /\ (start % 16384) + p \in Nat /\ (start % 16384) + p < 32768
         /\ start >= 16384 => start % 16384 = start - 16384
         /\ start < 16384 => start % 16384 = start
OBVIOUS

\* A sample keeps the position within its fifteen bits.
LEMMA SamplePosition ==
  ASSUME Positioned, next_sample
  PROVE  attack_delay' \in 0 .. 5 /\ interp_pos' \in Nat /\ interp_pos' < 32768
         /\ travelled' \in Nat
<1>1. /\ attack_delay \in 0 .. 5 /\ interp_pos \in Nat /\ interp_pos < 32768
      /\ pitch \in Nat /\ pitch < 16384
      /\ travelled \in Nat
  BY DEF Positioned, Numbers
<1>2. attack_delay' \in {5, Waited} /\ Voice!StartInterp \in Nat
      /\ Voice!StartInterp < 32768
  BY <1>1, SampleMoves
<1>3. attack_delay' \in 0 .. 5
  BY <1>1, <1>2 DEF Waited
<1>4. travelled' \in Nat
  BY <1>1, SampleMoves
<1>5. interp_pos' = Voice!StartInterp
      \/ \E p \in Nat : p < 16384 /\ interp_pos' = (Voice!StartInterp % 16384) + p
  BY <1>1, SampleMoves
<1>6. interp_pos' \in Nat /\ interp_pos' < 32768
  BY <1>2, <1>5, Advance
<1> QED BY <1>3, <1>4, <1>6

\* The voice stays in step with its pitches.
LEMMA SampleInStep ==
  ASSUME Positioned, Ring, InStep, next_sample
  PROVE  InStep'
<1> DEFINE silent == Voice!Silent
           start == Voice!StartInterp
           L == Len(Kept)
           L2 == Len(src')
           decoding == Decoding
<1>1. L \in Nat /\ (decoding => L2 = L + 4) /\ (~decoding => L2 = L)
  BY SampleRing
<1>2. /\ attack_delay' \in {5, Waited}
      /\ start = IF attack_delay = 0 THEN interp_pos
                 ELSE IF attack_delay <= 4 THEN 16384 ELSE 0
      /\ decoding <=> ~silent /\ start >= 16384
      /\ silent => attack_delay' = 0 /\ interp_pos' = start
      /\ attack_delay > 0 => travelled' = 0
      /\ attack_delay > 0 /\ ~silent => interp_pos' = start % 16384
      /\ attack_delay = 0 /\ silent => travelled' = travelled
      /\ attack_delay = 0 /\ ~silent =>
           travelled' = travelled + pitch /\ interp_pos' = (start % 16384) + pitch
  <2>1. start \in Nat
    BY SampleMoves DEF Positioned, Numbers
  <2>2. start % 16384 \in Int
    BY <2>1
  <2> HIDE DEF start, silent, decoding
  <2> QED BY <2>2, SampleMoves DEF start, silent, decoding, Positioned, Numbers
<1>3. /\ attack_delay \in 0 .. 5 /\ interp_pos \in Nat /\ interp_pos < 32768
      /\ pitch \in Nat /\ pitch < 16384
      /\ travelled \in Nat
  BY DEF Positioned, Numbers
<1>4. /\ attack_delay \in 1 .. 4 => Len(src) = 4 * (4 - attack_delay)
      /\ attack_delay = 0 =>
           \/ src = <<>> /\ env = 0 /\ env_mode = "release"
           \/ Len(src) >= 12 /\ interp_pos + 4096 * Len(src) = travelled + 65536
  BY DEF InStep
<1> HIDE DEF silent, start, L, L2, decoding
<1>5. /\ attack_delay' = 5 => InStep'
      /\ attack_delay' \in 1 .. 4 /\ L2 = 4 * (4 - attack_delay') => InStep'
      /\ attack_delay' = 0 /\ src' = <<>> /\ env' = 0 /\ env_mode' = "release" => InStep'
      /\ attack_delay' = 0 /\ L2 >= 12 /\ interp_pos' + 4096 * L2 = travelled' + 65536
           => InStep'
  BY DEF InStep, L2
<1>6. CASE attack_delay = 5
  <2>1. L = 0
    BY <1>6 DEF L, Kept
  <2>2. attack_delay' \in {5, 4}
    BY <1>2, <1>6 DEF Waited
  <2>3. start = 0 /\ ~silent
    BY <1>2, <1>6, <2>2
  <2>4. L2 = 0
    BY <1>1, <1>2, <2>1, <2>3
  <2>5. CASE attack_delay' = 4
    <3>1. attack_delay' \in 1 .. 4 /\ L2 = 4 * (4 - attack_delay')
      BY <2>4, <2>5
    <3> QED BY <1>5, <3>1
  <2>6. CASE attack_delay' = 5
    BY <1>5, <2>6
  <2>7. attack_delay' = 5 \/ attack_delay' = 4
    BY <2>2
  <2> QED BY <2>5, <2>6, <2>7
<1>7. CASE attack_delay \in 1 .. 4
  <2>1. L = 4 * (4 - attack_delay)
    BY <1>4, <1>7 DEF L, Kept
  <2>2. attack_delay' \in {5, attack_delay - 1}
    BY <1>2, <1>7 DEF Waited
  <2>3. start = 16384 /\ travelled' = 0
    BY <1>2, <1>7
  <2>4. CASE silent
    <3>1. interp_pos' = 16384 /\ attack_delay' = 0 /\ L2 = L
      BY <1>1, <1>2, <2>3, <2>4
    <3>2. attack_delay = 1
      BY <1>7, <2>2, <3>1
    <3>3. L2 = 12
      BY <2>1, <3>1, <3>2
    <3>4. L2 >= 12 /\ interp_pos' + 4096 * L2 = travelled' + 65536
      BY <2>3, <3>1, <3>3
    <3> QED BY <1>5, <3>1, <3>4
  <2>5. CASE ~silent
    <3>0. 16384 % 16384 = 0 /\ decoding /\ attack_delay > 0
      BY <1>2, <1>7, <2>3, <2>5
    <3>1. interp_pos' = 0 /\ L2 = L + 4
      BY <1>1, <1>2, <2>3, <2>5, <3>0
    <3>2. L2 = 4 * (4 - (attack_delay - 1))
      BY <1>7, <2>1, <3>1
    <3>3. CASE attack_delay' = 5
      BY <1>5, <3>3
    <3>4. CASE attack_delay = 1 /\ attack_delay' = attack_delay - 1
      <4>1. L2 = 16 /\ attack_delay' = 0
        BY <3>2, <3>4
      <4>2. L2 >= 12 /\ interp_pos' + 4096 * L2 = travelled' + 65536
        BY <2>3, <3>1, <4>1
      <4> QED BY <1>5, <4>1, <4>2
    <3>5. CASE attack_delay \in 2 .. 4 /\ attack_delay' = attack_delay - 1
      <4>1. attack_delay' \in 1 .. 4 /\ L2 = 4 * (4 - attack_delay')
        BY <3>2, <3>5
      <4> QED BY <1>5, <4>1
    <3>6. attack_delay = 1 \/ attack_delay \in 2 .. 4
      BY <1>7
    <3>7. attack_delay' = 5 \/ attack_delay' = attack_delay - 1
      BY <2>2
    <3> QED BY <3>3, <3>4, <3>5, <3>6, <3>7
  <2> QED BY <2>4, <2>5
<1>8. CASE attack_delay = 0 /\ src = <<>> /\ env = 0 /\ env_mode = "release"
  <2>1. attack_delay' = 5 \/ (silent /\ env' = 0 /\ env_mode' = "release")
    BY <1>8, StaysSilent DEF silent
  <2>2. silent => src' = <<>>
    BY <1>2, <1>8, SampleDecodes DEF Kept, decoding
  <2>3. CASE attack_delay' = 5
    BY <1>5, <2>3
  <2>4. CASE silent /\ env' = 0 /\ env_mode' = "release"
    <3>1. attack_delay' = 0 /\ src' = <<>>
      BY <1>2, <2>2, <2>4
    <3> QED BY <1>5, <2>4, <3>1
  <2> QED BY <2>1, <2>3, <2>4
<1>9. CASE attack_delay = 0 /\ Len(src) >= 12 /\ interp_pos + 4096 * Len(src) = travelled + 65536
  <2>1. L >= 12 /\ interp_pos + 4096 * L = travelled + 65536
    BY <1>9 DEF L, Kept
  <2>2. start = interp_pos /\ (attack_delay' = 5 \/ attack_delay' = 0)
    BY <1>2, <1>9 DEF Waited
  <2>3. L2 >= 12 /\ interp_pos' + 4096 * L2 = travelled' + 65536
    <3>1. CASE silent
      <4>1. L2 = L /\ interp_pos' = interp_pos /\ travelled' = travelled
        BY <1>1, <1>2, <1>9, <2>2, <3>1
      <4> QED BY <2>1, <4>1
    <3>2. CASE ~silent
      <4>1. interp_pos' = (interp_pos % 16384) + pitch /\ travelled' = travelled + pitch
        BY <1>2, <1>9, <2>2, <3>2
      <4>2. CASE interp_pos >= 16384
        <5>1. interp_pos' = (interp_pos - 16384) + pitch
          BY <1>3, <4>1, <4>2, Advance
        <5>2. L2 = L + 4
          BY <1>1, <1>2, <2>2, <3>2, <4>2
        <5> QED BY <1>1, <1>3, <2>1, <4>1, <5>1, <5>2
      <4>3. CASE interp_pos < 16384
        <5>1. interp_pos' = interp_pos + pitch
          BY <1>3, <4>1, <4>3, Advance
        <5>2. L2 = L
          BY <1>1, <1>2, <1>3, <2>2, <3>2, <4>3
        <5> QED BY <1>1, <1>3, <2>1, <4>1, <5>1, <5>2
      <4> QED BY <1>3, <4>2, <4>3
    <3> QED BY <3>1, <3>2
  <2> QED BY <1>5, <2>2, <2>3
<1> QED BY <1>3, <1>4, <1>6, <1>7, <1>8, <1>9

\* A sample keeps the invariant.
LEMMA SampleIInv ==
  ASSUME IInv, next_sample
  PROVE  IInv'
<1>1. Positioned /\ Ring /\ InStep
  BY DEF IInv
<1>2. Ring' /\ buf_pos' \in {0, 4, 8} /\ \E S : src' \in Seq(S)
  BY <1>1, SampleRing
<1>3. attack_delay' \in 0 .. 5 /\ interp_pos' \in Nat /\ interp_pos' < 32768
      /\ travelled' \in Nat
  BY <1>1, SamplePosition
<1>4. pitch' \in Nat /\ pitch' < 16384
  <2>1. pitch' = pitch
    BY <1>1, SampleMoves
  <2> QED BY <1>1, <2>1 DEF Positioned, Numbers
<1>5. InStep'
  BY <1>1, SampleInStep
<1> QED BY <1>2, <1>3, <1>4, <1>5 DEF IInv, Positioned, Numbers

-----------------------------------------------------------------------------
(* Stores, another file, and the theorems                                  *)

\* What the invariant is about, without the pitch register.
place == <<env, env_mode, attack_delay, buf_pos, interp_pos, buf, src, travelled>>

\* Nothing else that the invariant is about may change.
LEMMA OthersIInv ==
  ASSUME IInv, UNCHANGED place, pitch' \in Nat /\ pitch' < 16384
  PROVE  IInv'
<1>1. Positioned'
  BY DEF IInv, Positioned, Numbers, place
<1>2. Ring'
  BY DEF IInv, Ring, place
<1>3. InStep'
  BY DEF IInv, InStep, place
<1> QED BY <1>1, <1>2, <1>3 DEF IInv

\* No store moves a voice, and a file's pitch is a pitch.
LEMMA StoreIInv ==
  ASSUME IInv, StoreVoiceReg \/ StoreEchoReg \/ StoreMixReg \/ dsp_restore \/ UNCHANGED signal
  PROVE  IInv'
<1>1. UNCHANGED place
  <2>1. CASE StoreVoiceReg
    BY <2>1 DEF StoreVoiceReg, MayStore, values, history, place, Voice!StoreKeys,
       Voice!StoreFlg, Voice!StoreVoice, Voice!StoreEndx, Voice!vstate
  <2>2. CASE StoreEchoReg \/ StoreMixReg
    BY <2>2 DEF StoreEchoReg, StoreMixReg, MayStore, values, history, voice, place
  <2>3. CASE dsp_restore
    BY <2>3 DEF dsp_restore, MayStore, values, history, place, Voice!dsp_restore, Voice!vstate
  <2>4. CASE UNCHANGED signal
    BY <2>4 DEF signal, voice, values, history, place
  <2> QED BY <2>1, <2>2, <2>3, <2>4
<1>2. pitch' = pitch \/ pitch' \in Pitches
  <2>1. CASE StoreVoiceReg
    BY <2>1 DEF StoreVoiceReg, Voice!StoreKeys, Voice!StoreFlg, Voice!StoreVoice,
       Voice!StoreEndx, Voice!regs
  <2>2. CASE StoreEchoReg \/ StoreMixReg
    BY <2>2 DEF StoreEchoReg, StoreMixReg, voice
  <2>3. CASE dsp_restore
    BY <2>3, PitchAssumption DEF dsp_restore, Voice!dsp_restore
  <2>4. CASE UNCHANGED signal
    BY <2>4 DEF signal, voice
  <2> QED BY <2>1, <2>2, <2>3, <2>4
<1>3. pitch' \in Nat /\ pitch' < 16384
  BY <1>2, PitchAssumption DEF IInv, Positioned, Numbers
<1> QED BY <1>1, <1>3, OthersIInv

\* A voice starts released, before any sample.
LEMMA InitIInv ==
  ASSUME SignalInit
  PROVE  IInv
<1>1. /\ env = 0 /\ env_mode = "release" /\ attack_delay = 0 /\ buf_pos = 0
      /\ interp_pos = 0 /\ src = <<>> /\ travelled = 0
  BY DEF SignalInit, Voice!Init
<1>2. \E f \in Files : pitch = f.pitch
  BY DEF SignalInit, Voice!Init
<1>3. pitch \in Nat /\ pitch < 16384
  BY <1>2, PitchAssumption
<1>4. Len(src) = 0 /\ src \in Seq({})
  BY <1>1
<1>5. Ring
  BY <1>4 DEF Ring, Holds
<1>6. Positioned
  BY <1>1, <1>3, <1>4 DEF Positioned, Numbers
<1> QED BY <1>1, <1>5, <1>6 DEF IInv, InStep

\* The invariant holds throughout.
LEMMA Invariance == SignalSpec => []IInv
<1>1. SignalInit => IInv
  BY InitIInv
<1>2. IInv /\ [SignalNext]_signal => IInv'
  BY SampleIInv, StoreIInv DEF SignalNext
<1> QED BY <1>1, <1>2, PTL DEF SignalSpec

\* For every memory, every pitch and every order of stores, samples and files, a
\* voice plays the samples it decoded, one after another, as fast as its pitches say.
THEOREM VoicePlaysAtPitch == SignalSpec => []PlaysAtPitch
<1>1. IInv => PlaysAtPitch
  BY Played
<1> QED BY <1>1, Invariance, PTL

-----------------------------------------------------------------------------
(* Interpolation                                                           *)

\* A weighted sample, within the weight times the largest sample.
LEMMA Weighted ==
  ASSUME NEW M \in Nat, NEW g \in Nat, NEW x \in Int, x <= M, 0 <= M + x
  PROVE  g * x \in Int /\ g * x <= M * g /\ -(M * g) <= g * x
<1>1. M - x \in Nat /\ M + x \in Nat
  OBVIOUS
<1>2. \A y \in Nat : g * y \in Nat
  OBVIOUS
<1>3. g * (M - x) \in Nat /\ g * (M + x) \in Nat
  BY <1>1, <1>2
<1>4. g * (M - x) = M * g - g * x /\ g * (M + x) = M * g + g * x
  OBVIOUS
<1>5. g * x \in Int /\ M * g \in Int
  OBVIOUS
<1> QED BY <1>3, <1>4, <1>5

\* Samples no louder than M.
LEMMA InRange ==
  ASSUME NEW M \in Nat, NEW x \in -M .. M
  PROVE  x \in Int /\ x <= M /\ 0 <= M + x
OBVIOUS

\* The loudest sample, a number first: a range of it stays folded.
LEMMA LoudNat == Loud \in Nat
BY DEF Loud

LEMMA LoudIs == Loud = 32700
BY DEF Loud

\* The four weights of a position.
LEMMA Weights ==
  ASSUME NEW m \in Mids
  PROVE  /\ gauss[255 - m] \in Nat /\ gauss[511 - m] \in Nat
         /\ gauss[256 + m] \in Nat /\ gauss[m] \in Nat
         /\ gauss[255 - m] + gauss[511 - m] + gauss[256 + m] + gauss[m] <= 2049
<1>1. \A mid \in Mids :
        gauss[255 - mid] + gauss[511 - mid] + gauss[256 + mid] + gauss[mid] <= 2049
  BY GaussAssumption
<1>2. gauss[255 - m] + gauss[511 - m] + gauss[256 + m] + gauss[m] <= 2049
  BY <1>1
<1>3. gauss \in [0 .. 511 -> Nat]
  BY GaussAssumption
<1>4. 255 - m \in 0 .. 511 /\ 511 - m \in 0 .. 511 /\ 256 + m \in 0 .. 511 /\ m \in 0 .. 511
  BY DEF Mids
<1>5. gauss[255 - m] \in Nat /\ gauss[511 - m] \in Nat
  BY <1>3, <1>4
<1>6. gauss[256 + m] \in Nat /\ gauss[m] \in Nat
  BY <1>3, <1>4
<1> QED BY <1>2, <1>5, <1>6

\* What is left of it after the shift.
LEMMA Shifted ==
  ASSUME NEW g \in Nat, NEW x \in Int, x <= Loud, 0 <= Loud + x
  PROVE  LET d == (g * x) \div 2048
         IN  d \in Int /\ 2048 * d <= 32700 * g /\ -(32700 * g) < 2048 * d + 2048
<1> DEFINE gx == g * x
<1>1. gx \in Int /\ gx <= 32700 * g /\ -(32700 * g) <= gx
  BY LoudNat, LoudIs, Weighted
<1> HIDE DEF gx
<1>2. gx \div 2048 \in Int /\ 2048 * (gx \div 2048) <= gx /\ gx < 2048 * (gx \div 2048) + 2048
  BY <1>1
<1> DEFINE d == gx \div 2048
<1>3. d \in Int /\ 2048 * d <= gx /\ gx < 2048 * d + 2048
  BY <1>2
<1> HIDE DEF d
<1>4. d \in Int /\ 2048 * d <= 32700 * g /\ -(32700 * g) < 2048 * d + 2048
  BY <1>1, <1>3
<1> QED BY <1>4 DEF d, gx

\* Four of them, and so what the interpolation adds up.
LEMMA FourShifted ==
  ASSUME NEW g1 \in Nat, NEW g2 \in Nat, NEW g3 \in Nat, NEW g4 \in Nat,
         g1 + g2 + g3 + g4 <= 2049,
         NEW d1 \in Int, 2048 * d1 <= 32700 * g1, -(32700 * g1) < 2048 * d1 + 2048,
         NEW d2 \in Int, 2048 * d2 <= 32700 * g2, -(32700 * g2) < 2048 * d2 + 2048,
         NEW d3 \in Int, 2048 * d3 <= 32700 * g3, -(32700 * g3) < 2048 * d3 + 2048,
         NEW d4 \in Int, 2048 * d4 <= 32700 * g4, -(32700 * g4) < 2048 * d4 + 2048
  PROVE  LET sum == d1 + d2 + d3 + d4
         IN  sum \in Int /\ sum <= 32720 /\ -32720 <= sum
OBVIOUS

\* The bit that is dropped takes it no further.
LEMMA EvenFits ==
  ASSUME NEW sum \in Int, sum <= 32720, -32720 <= sum
  PROVE  Int16(Even(sum)) = Even(sum)
<1> DEFINE e == Even(sum)
<1>1. e \in Int /\ e <= 32720 /\ -32721 <= e
  BY DEF Even
<1> HIDE DEF e
<1>2. Int16(e) = e
  BY <1>1 DEF Int16
<1> QED BY <1>2 DEF e

\* Every position has weights, whatever the four samples are.
LEMMA Fits ==
  ASSUME IInv
  PROVE  InterpolationFits
<1> SUFFICES ASSUME \A k \in 1 .. 4 : Heard[k] \in -Loud .. Loud
             PROVE  Int16(interpolate(Heard, Voice!StartInterp))
                      = interpolate(Heard, Voice!StartInterp)
  BY DEF InterpolationFits
<1> DEFINE mid == (Voice!StartInterp \div 16) % 256
           in == Heard
           g1 == gauss[255 - mid]
           g2 == gauss[511 - mid]
           g3 == gauss[256 + mid]
           g4 == gauss[mid]
           d1 == (g1 * in[1]) \div 2048
           d2 == (g2 * in[2]) \div 2048
           d3 == (g3 * in[3]) \div 2048
           d4 == (g4 * in[4]) \div 2048
           sum == d1 + d2 + d3 + d4
<1>1. Voice!StartInterp \in Int
  <2>1. interp_pos \in Nat
    BY DEF IInv, Positioned, Numbers
  <2> QED BY <2>1 DEF Voice!StartInterp
<1>2. mid \in Mids
  <2>1. (Voice!StartInterp \div 16) \in Int
    BY <1>1
  <2> QED BY <2>1 DEF Mids
<1>3. interpolate(Heard, Voice!StartInterp) = Even(sum)
  BY DEF interpolate
<1>4. ASSUME NEW k \in 1 .. 4
      PROVE  in[k] \in Int /\ in[k] <= Loud /\ 0 <= Loud + in[k]
  <2>1. in[k] \in -Loud .. Loud /\ Loud \in Nat
    BY LoudNat
  <2> HIDE DEF in
  <2> QED BY <2>1, InRange
<1> HIDE DEF mid, in
<1>5. g1 \in Nat /\ g2 \in Nat /\ g3 \in Nat /\ g4 \in Nat /\ g1 + g2 + g3 + g4 <= 2049
  BY <1>2, Weights
<1> HIDE DEF g1, g2, g3, g4
<1>6. d1 \in Int /\ 2048 * d1 <= 32700 * g1 /\ -(32700 * g1) < 2048 * d1 + 2048
  BY <1>4, <1>5, Shifted
<1>7. d2 \in Int /\ 2048 * d2 <= 32700 * g2 /\ -(32700 * g2) < 2048 * d2 + 2048
  BY <1>4, <1>5, Shifted
<1>8. d3 \in Int /\ 2048 * d3 <= 32700 * g3 /\ -(32700 * g3) < 2048 * d3 + 2048
  BY <1>4, <1>5, Shifted
<1>9. d4 \in Int /\ 2048 * d4 <= 32700 * g4 /\ -(32700 * g4) < 2048 * d4 + 2048
  BY <1>4, <1>5, Shifted
<1> HIDE DEF d1, d2, d3, d4
<1>10. sum \in Int /\ sum <= 32720 /\ -32720 <= sum
  BY <1>5, <1>6, <1>7, <1>8, <1>9, FourShifted
<1> HIDE DEF sum
<1> QED BY <1>3, <1>10, EvenFits

\* For every table of weights that add up to at most 2049/2048 and every sample data,
\* what is interpolated fits 16 bits unless a sample is within 70 of the largest.
THEOREM InterpolationNeverWraps == SignalSpec => []InterpolationFits
<1>1. IInv => InterpolationFits
  BY Fits
<1> QED BY <1>1, Invariance, PTL

-----------------------------------------------------------------------------
(* The components: what is proved of the voice and of the echo on their own  *)
(* holds of them here, as next_sample and every store is one of their steps.  *)

\* The theorems about the components.
VoiceProofs == INSTANCE DspVoiceProofs
EchoProofs == INSTANCE DspEchoProofs

\* A range up to a number.
LEMMA RangeIntro ==
  ASSUME NEW m \in Int, NEW n \in Int, 0 <= n, n <= m
  PROVE  n \in 0 .. m
OBVIOUS

\* DspVoice's assumptions hold of the constants.
LEMMA VoiceAssumptions ==
  /\ Header \in [VoiceProofs!Addr -> 0 .. 3]
  /\ /\ Blocks \subseteq VoiceProofs!Addr
     /\ \A a \in Blocks : ~VoiceProofs!HasEnd(Header[a])
                            => (a + VoiceProofs!BlockSize) % 65536 \in Blocks
  /\ Base \in [Srcn -> Blocks] /\ Loop \in [Srcn -> Blocks]
  /\ Pitches \subseteq VoiceProofs!Pitch
  /\ Shapes \subseteq VoiceProofs!Byte \X VoiceProofs!Byte \X VoiceProofs!Byte
  /\ Files \subseteq [kon : BOOLEAN, koff : BOOLEAN, endx : BOOLEAN, reset : BOOLEAN,
                      srcn : Srcn, pitch : Pitches, shape : Shapes]
<1>1. \A b \in 0 .. 255 : b % 4 \in 0 .. 3
  OBVIOUS
<1>0. \A m, n \in Nat : n <= m => n \in 0 .. m
  OBVIOUS
<1>9. VoiceProofs!Addr = Addr
  BY DEF VoiceProofs!Addr, Addr
<1>2. Ram \in [VoiceProofs!Addr -> 0 .. 255]
  BY <1>9, RamAssumption
<1>3. Header = [a \in VoiceProofs!Addr |-> Ram[a] % 4]
  BY <1>9 DEF Header
<1>4. Header \in [VoiceProofs!Addr -> 0 .. 3]
  BY <1>1, <1>2, <1>3
<1>5. \A a \in Blocks : a \in VoiceProofs!Addr
  <2>1. \A a \in Blocks : a \in Nat /\ a <= 65535
    BY BlocksAssumption
  <2> DEFINE top == 65535
  <2>2. top \in Nat /\ VoiceProofs!Addr = 0 .. top
    BY DEF VoiceProofs!Addr
  <2>3. \A a \in Blocks : a \in Nat /\ a <= top
    BY <2>1
  <2> HIDE DEF top
  <2> QED BY <1>0, <2>2, <2>3
<1>6. \A a \in Blocks : ~VoiceProofs!HasEnd(Header[a])
                          => (a + VoiceProofs!BlockSize) % 65536 \in Blocks
  <2>1. \A a \in Blocks : Header[a] = Ram[a] % 4
    BY <1>3, <1>5
  <2>2. VoiceProofs!BlockSize = 9
    BY DEF VoiceProofs!BlockSize
  <2> QED BY <2>1, <2>2, BlocksAssumption DEF VoiceProofs!HasEnd
<1>7. Pitches \subseteq VoiceProofs!Pitch
  <2> DEFINE top == 16383
  <2>1. \A p \in Pitches : p \in Nat /\ p <= top
    BY PitchAssumption
  <2>2. top \in Nat /\ VoiceProofs!Pitch = 0 .. top
    BY DEF VoiceProofs!Pitch
  <2> HIDE DEF top
  <2> QED BY <1>0, <2>1, <2>2
<1>8. /\ Shapes \subseteq VoiceProofs!Byte \X VoiceProofs!Byte \X VoiceProofs!Byte
      /\ Files \subseteq [kon : BOOLEAN, koff : BOOLEAN, endx : BOOLEAN, reset : BOOLEAN,
                          srcn : Srcn, pitch : Pitches, shape : Shapes]
  BY FilesAssumption DEF VoiceProofs!Byte
<1> QED BY <1>4, <1>5, <1>6, <1>7, <1>8, BlocksAssumption

\* A sample of the voice.
LEMMA VoiceSamples == Voice!Sample => VoiceProofs!Sample
<1>1. Voice!Poll => VoiceProofs!Poll
  BY Zenon DEF Voice!Poll, VoiceProofs!Poll, Voice!NewKon, VoiceProofs!NewKon
<1>2. Voice!DelayAfter = VoiceProofs!DelayAfter
  BY DEF Voice!DelayAfter, VoiceProofs!DelayAfter, Voice!KeyedOn, VoiceProofs!KeyedOn,
         Voice!Delayed, VoiceProofs!Delayed
<1>3. Voice!Envelope => VoiceProofs!Envelope
  BY DEF Voice!Envelope, VoiceProofs!Envelope, Voice!run_envelope, VoiceProofs!run_envelope,
         Voice!ModeBefore, VoiceProofs!ModeBefore, Voice!EnvBefore, VoiceProofs!EnvBefore,
         Voice!Cut, VoiceProofs!Cut, Voice!Hdr, VoiceProofs!Hdr, Voice!Starting,
         VoiceProofs!Starting, Voice!Delayed, VoiceProofs!Delayed, Voice!KeyedOn,
         VoiceProofs!KeyedOn, Voice!KeyedOff, VoiceProofs!KeyedOff, Voice!END,
         VoiceProofs!END, Voice!NextMode, VoiceProofs!NextMode, Voice!NextEnv,
         VoiceProofs!NextEnv, Voice!AdsrEnv, VoiceProofs!AdsrEnv, Voice!GainEnv,
         VoiceProofs!GainEnv, Voice!Rate, VoiceProofs!Rate, Voice!AdsrRate,
         VoiceProofs!AdsrRate, Voice!GainRate, VoiceProofs!GainRate, Voice!MayFire,
         VoiceProofs!MayFire, Voice!Clamp, VoiceProofs!Clamp, Voice!Released,
         VoiceProofs!Released, Voice!Fall, VoiceProofs!Fall, Voice!UsesAdsr,
         VoiceProofs!UsesAdsr, Voice!SustainTarget, VoiceProofs!SustainTarget, Voice!adsr1,
         VoiceProofs!adsr1, Voice!adsr2, VoiceProofs!adsr2, Voice!gain, VoiceProofs!gain,
         Voice!Level, VoiceProofs!Level
<1>4. Voice!Walk => VoiceProofs!Walk
  BY DEF Voice!Walk, VoiceProofs!Walk, Voice!Silent, VoiceProofs!Silent, Voice!Decodes,
         VoiceProofs!Decodes, Voice!StartAddr, VoiceProofs!StartAddr, Voice!StartOff,
         VoiceProofs!StartOff, Voice!StartBuf, VoiceProofs!StartBuf, Voice!StartInterp,
         VoiceProofs!StartInterp, Voice!NextBuf, VoiceProofs!NextBuf, Voice!BufSize,
         VoiceProofs!BufSize, Voice!BlockDone, VoiceProofs!BlockDone, Voice!BlockSize,
         VoiceProofs!BlockSize, Voice!NextBlock, VoiceProofs!NextBlock, Voice!HasEnd,
         VoiceProofs!HasEnd, Voice!NextBrrAddr, VoiceProofs!NextBrrAddr, Voice!Hdr,
         VoiceProofs!Hdr, Voice!Starting, VoiceProofs!Starting, Voice!Delayed,
         VoiceProofs!Delayed
<1>5. Voice!Interp => VoiceProofs!Interp
  BY DEF Voice!Interp, VoiceProofs!Interp, Voice!NextInterp, VoiceProofs!NextInterp,
         Voice!Silent, VoiceProofs!Silent, Voice!StartInterp, VoiceProofs!StartInterp,
         Voice!Delayed, VoiceProofs!Delayed
<1>6. Voice!Endx => VoiceProofs!Endx
  BY DEF Voice!Endx, VoiceProofs!Endx, Voice!Silent, VoiceProofs!Silent, Voice!Decodes,
         VoiceProofs!Decodes, Voice!BlockDone, VoiceProofs!BlockDone, Voice!BlockSize,
         VoiceProofs!BlockSize, Voice!StartOff, VoiceProofs!StartOff, Voice!StartInterp,
         VoiceProofs!StartInterp, Voice!HasEnd, VoiceProofs!HasEnd, Voice!Hdr,
         VoiceProofs!Hdr, Voice!Starting, VoiceProofs!Starting, Voice!Delayed,
         VoiceProofs!Delayed
<1> QED BY <1>1, <1>2, <1>3, <1>4, <1>5, <1>6
        DEF Voice!Sample, VoiceProofs!Sample, Voice!regs, VoiceProofs!regs

\* The stores to its registers, and another file.
LEMMA VoiceStores ==
  /\ Voice!StoreKeys => VoiceProofs!StoreKeys
  /\ Voice!StoreFlg => VoiceProofs!StoreFlg
  /\ Voice!StoreVoice => VoiceProofs!StoreVoice
  /\ Voice!StoreEndx => VoiceProofs!StoreEndx
  /\ Voice!dsp_restore => VoiceProofs!dsp_restore
BY Zenon DEF Voice!StoreKeys, VoiceProofs!StoreKeys, Voice!StoreFlg, VoiceProofs!StoreFlg,
         Voice!StoreVoice, VoiceProofs!StoreVoice, Voice!StoreEndx, VoiceProofs!StoreEndx,
         Voice!dsp_restore, VoiceProofs!dsp_restore, Voice!regs, VoiceProofs!regs,
         Voice!keys, VoiceProofs!keys, Voice!vstate, VoiceProofs!vstate

\* A sample of the echo, and the stores to its registers.
LEMMA EchoSteps ==
  (Echo!Sample => EchoProofs!Sample) /\ (Echo!Store => EchoProofs!Store)
<1>1. Echo!Fir => EchoProofs!Fir
  BY DEF Echo!Fir, EchoProofs!Fir, Echo!NextPos, EchoProofs!NextPos, Echo!Written,
         EchoProofs!Written, Echo!Hist, EchoProofs!Hist, Echo!Older, EchoProofs!Older,
         Echo!Tap, EchoProofs!Tap
<1>2. Echo!Ring => EchoProofs!Ring
  BY DEF Echo!Ring, EchoProofs!Ring, Echo!BasePage, EchoProofs!BasePage, Echo!Length,
         EchoProofs!Length, Echo!Advance, EchoProofs!Advance, Echo!Slot, EchoProofs!Slot,
         Echo!Byte, EchoProofs!Byte, Echo!Offset, EchoProofs!Offset, Echo!Older,
         EchoProofs!Older
<1>3. Echo!Store => EchoProofs!Store
  BY DEF Echo!Store, EchoProofs!Store, Echo!ring, EchoProofs!ring, Echo!fir, EchoProofs!fir
<1> QED BY <1>1, <1>2, <1>3 DEF Echo!Sample, EchoProofs!Sample, Echo!regs, EchoProofs!regs

\* Every step of the signal is one of its voice's, or leaves the voice alone.
LEMMA VoiceStep == [SignalNext]_signal => [Voice!Next]_Voice!vars
<1> SUFFICES ASSUME [SignalNext]_signal PROVE [Voice!Next]_Voice!vars
  OBVIOUS
<1>1. UNCHANGED voice => UNCHANGED Voice!vars
  BY DEF voice, Voice!vars, Voice!regs, Voice!keys, Voice!vstate
<1>2. CASE next_sample
  BY <1>2 DEF next_sample, Voice!Next
<1>3. CASE StoreVoiceReg
  BY <1>3 DEF StoreVoiceReg, Voice!Next
<1>4. CASE StoreEchoReg \/ StoreMixReg
  BY <1>1, <1>4 DEF StoreEchoReg, StoreMixReg
<1>5. CASE dsp_restore
  BY <1>5 DEF dsp_restore, Voice!Next
<1>6. CASE UNCHANGED signal
  BY <1>1, <1>6 DEF signal
<1> QED BY <1>2, <1>3, <1>4, <1>5, <1>6 DEF SignalNext

\* And one of its echo's, or leaves the echo alone.
LEMMA EchoStep == [SignalNext]_signal => [Echo!Next]_Echo!vars
<1> SUFFICES ASSUME [SignalNext]_signal PROVE [Echo!Next]_Echo!vars
  OBVIOUS
<1>1. UNCHANGED echo => UNCHANGED Echo!vars
  BY DEF echo, Echo!vars, Echo!regs, Echo!ring, Echo!fir
<1>2. CASE next_sample
  BY <1>2 DEF next_sample, Echo!Next
<1>3. CASE StoreVoiceReg \/ StoreMixReg
  BY <1>1, <1>3 DEF StoreVoiceReg, StoreMixReg
<1>4. CASE StoreEchoReg
  BY <1>4 DEF StoreEchoReg, Echo!Next
<1>5. CASE dsp_restore
  BY <1>5 DEF dsp_restore, Echo!Next
<1>6. CASE UNCHANGED signal
  BY <1>1, <1>6 DEF signal
<1> QED BY <1>2, <1>3, <1>4, <1>5, <1>6 DEF SignalNext

\* The signal implements its voice and its echo: mixing, the sample data and the
\* stores to the other's registers are stuttering steps of each.
THEOREM ImplementsParts == SignalSpec => Voice!Spec /\ Echo!Spec
<1>1. SignalInit => Voice!Init /\ Echo!Init
  BY DEF SignalInit
<1> QED BY <1>1, VoiceStep, EchoStep, PTL DEF SignalSpec, Voice!Spec, Echo!Spec

\* The invariants of both.
Parts == VoiceProofs!IInv /\ EchoProofs!IInv

LEMMA VoiceInvariance == Voice!Spec => []VoiceProofs!IInv
<1>1. Voice!Init => VoiceProofs!Init
  BY Zenon DEF Voice!Init, VoiceProofs!Init
<1>2. Voice!Next => VoiceProofs!Next
  BY VoiceSamples, VoiceStores, Zenon DEF Voice!Next, VoiceProofs!Next
<1>3. UNCHANGED Voice!vars => UNCHANGED VoiceProofs!vars
  BY DEF Voice!vars, VoiceProofs!vars, Voice!regs, VoiceProofs!regs, Voice!keys,
         VoiceProofs!keys, Voice!vstate, VoiceProofs!vstate
<1>4. VoiceProofs!Init => VoiceProofs!IInv
  BY VoiceAssumptions, VoiceProofs!InitIInv, SMT
<1>5. VoiceProofs!IInv /\ [VoiceProofs!Next]_VoiceProofs!vars => VoiceProofs!IInv'
  BY VoiceAssumptions, VoiceProofs!NextIInv, SMT
<1> QED BY <1>1, <1>2, <1>3, <1>4, <1>5, PTL DEF Voice!Spec

LEMMA EchoInvariance == Echo!Spec => []EchoProofs!IInv
<1>1. Echo!Init => EchoProofs!Init
  BY DEF Echo!Init, EchoProofs!Init, Echo!Registers, EchoProofs!Registers, Echo!Hist,
         EchoProofs!Hist, Echo!Byte, EchoProofs!Byte, Echo!Offset,
         EchoProofs!Offset
<1>2. Echo!Next => EchoProofs!Next
  BY EchoSteps DEF Echo!Next, EchoProofs!Next
<1>3. UNCHANGED Echo!vars => UNCHANGED EchoProofs!vars
  BY DEF Echo!vars, EchoProofs!vars, Echo!regs, EchoProofs!regs, Echo!ring, EchoProofs!ring,
         Echo!fir, EchoProofs!fir
<1>4. EchoProofs!Init => EchoProofs!IInv
  BY EchoAssumption, EchoProofs!InitIInv, Zenon
<1>5. EchoProofs!IInv /\ [EchoProofs!Next]_EchoProofs!vars => EchoProofs!IInv'
  BY EchoAssumption, EchoProofs!NextIInv, Zenon
<1> QED BY <1>1, <1>2, <1>3, <1>4, <1>5, PTL DEF Echo!Spec

LEMMA PartsInvariance == SignalSpec => []Parts
BY ImplementsParts, VoiceInvariance, EchoInvariance, PTL DEF Parts

-----------------------------------------------------------------------------
(* Sums of eight: how a recursive function of eight steps reaches the prover *)

\* Eight steps from z, each a function on T, can be taken one after another.
LEMMA EightSteps ==
  ASSUME NEW T, NEW z \in T, NEW step \in [1 .. 8 -> [T -> T]]
  PROVE  \E f \in [0 .. 8 -> T] : f[0] = z /\ \A i \in 1 .. 8 : f[i] = step[i][f[i - 1]]
<1>1. \A i \in 1 .. 8 : \A x \in T : \E y \in T : y = step[i][x]
  OBVIOUS
<1>2. PICK a1 \in T : a1 = step[1][z]
  BY <1>1
<1>3. PICK a2 \in T : a2 = step[2][a1]
  BY <1>1
<1>4. PICK a3 \in T : a3 = step[3][a2]
  BY <1>1
<1>5. PICK a4 \in T : a4 = step[4][a3]
  BY <1>1
<1>6. PICK a5 \in T : a5 = step[5][a4]
  BY <1>1
<1>7. PICK a6 \in T : a6 = step[6][a5]
  BY <1>1
<1>8. PICK a7 \in T : a7 = step[7][a6]
  BY <1>1
<1>9. PICK a8 \in T : a8 = step[8][a7]
  BY <1>1
<1> DEFINE f == [i \in 0 .. 8 |->
                   CASE i = 0 -> z [] i = 1 -> a1 [] i = 2 -> a2 [] i = 3 -> a3 [] i = 4 -> a4
                     [] i = 5 -> a5 [] i = 6 -> a6 [] i = 7 -> a7 [] OTHER -> a8]
<1>10. /\ f[0] = z /\ f[1] = a1 /\ f[2] = a2 /\ f[3] = a3 /\ f[4] = a4
      /\ f[5] = a5 /\ f[6] = a6 /\ f[7] = a7 /\ f[8] = a8
  OBVIOUS
<1>11. f \in [0 .. 8 -> T]
  OBVIOUS
<1> HIDE DEF f
<1>12. ASSUME NEW i \in 1 .. 8 PROVE f[i] = step[i][f[i - 1]]
  <2>1. CASE i = 1
    BY <1>2, <1>10, <2>1
  <2>2. CASE i = 2
    BY <1>3, <1>10, <2>2
  <2>3. CASE i = 3
    BY <1>4, <1>10, <2>3
  <2>4. CASE i = 4
    BY <1>5, <1>10, <2>4
  <2>5. CASE i = 5
    BY <1>6, <1>10, <2>5
  <2>6. CASE i = 6
    BY <1>7, <1>10, <2>6
  <2>7. CASE i = 7
    BY <1>8, <1>10, <2>7
  <2>8. CASE i = 8
    BY <1>9, <1>10, <2>8
  <2> QED BY <2>1, <2>2, <2>3, <2>4, <2>5, <2>6, <2>7, <2>8
<1> QED BY <1>10, <1>11, <1>12

\* What holds of the start, and of each step if of the one before, holds of the last.
LEMMA EightFacts ==
  ASSUME NEW T, NEW g, g[0] \in T, \A i \in 1 .. 8 : g[i - 1] \in T => g[i] \in T
  PROVE  \A i \in 0 .. 8 : g[i] \in T
<1>1. /\ g[0] \in T => g[1] \in T
      /\ g[1] \in T => g[2] \in T
      /\ g[2] \in T => g[3] \in T
      /\ g[3] \in T => g[4] \in T
      /\ g[4] \in T => g[5] \in T
      /\ g[5] \in T => g[6] \in T
      /\ g[6] \in T => g[7] \in T
      /\ g[7] \in T => g[8] \in T
  OBVIOUS
<1>2. \A i \in 0 .. 8 : i = 0 \/ i = 1 \/ i = 2 \/ i = 3 \/ i = 4 \/ i = 5 \/ i = 6
                        \/ i = 7 \/ i = 8
  OBVIOUS
<1> QED BY <1>1, <1>2

\* The filter's sum stays where its taps keep it.
LEMMA FirSumIn ==
  ASSUME NEW taps, NEW coeff, NEW T, 0 \in T,
         \A i \in 1 .. 8, x \in T : x + ((taps[i - 1] * Int8(coeff[i - 1])) \div 64) \in T
  PROVE  \E x \in T : FirSum(taps, coeff) = Even(clamp16(x))
<1> DEFINE term(i) == (taps[i - 1] * Int8(coeff[i - 1])) \div 64
           Sums(f) == f = [i \in 0 .. 8 |-> IF i = 0 THEN 0 ELSE f[i - 1] + term(i)]
           step == [i \in 1 .. 8 |-> [x \in T |-> x + term(i)]]
<1>1. step \in [1 .. 8 -> [T -> T]]
  OBVIOUS
<1> HIDE DEF step
<1>2. PICK f \in [0 .. 8 -> T] : f[0] = 0 /\ \A i \in 1 .. 8 : f[i] = step[i][f[i - 1]]
  BY <1>1, EightSteps
<1>3. \A i \in 1 .. 8 : f[i] = f[i - 1] + term(i)
  <2>1. \A i \in 1 .. 8 : f[i - 1] \in T
    BY <1>2
  <2> QED BY <1>2, <2>1 DEF step
<1>4. f = [i \in 0 .. 8 |-> f[i]]
  BY <1>2
<1> HIDE DEF term
<1>5. Sums(f)
  BY <1>2, <1>3, <1>4
<1> DEFINE g == CHOOSE h : Sums(h)
<1>6. Sums(g)
  BY <1>5
<1>7. FirSum(taps, coeff) = Even(clamp16(g[8]))
  BY DEF FirSum, term
<1> HIDE DEF g
<1>8. g[0] = 0 /\ \A i \in 1 .. 8 : g[i] = g[i - 1] + term(i)
  BY <1>6
<1>9. \A i \in 1 .. 8 : g[i - 1] \in T => g[i] \in T
  BY <1>8 DEF term
<1>10. g[8] \in T
  <2>1. \A i \in 0 .. 8 : g[i] \in T
    BY <1>8, <1>9, EightFacts
  <2> QED BY <2>1
<1> QED BY <1>7, <1>10

\* The blend of eight voices stays where each of them keeps it.
LEMMA BlendIn ==
  ASSUME NEW samples, NEW on, NEW T, silence \in T,
         \A i \in 1 .. 8, x \in T : sample_blend(x, samples[i - 1]) \in T
  PROVE  Blend(samples, on) \in T
<1> DEFINE next(i, x) == IF i - 1 \in on THEN sample_blend(x, samples[i - 1]) ELSE x
           Sums(f) == f = [i \in 0 .. 8 |-> IF i = 0 THEN silence
                             ELSE IF i - 1 \in on THEN sample_blend(f[i - 1], samples[i - 1])
                             ELSE f[i - 1]]
           step == [i \in 1 .. 8 |-> [x \in T |-> next(i, x)]]
<1>1. step \in [1 .. 8 -> [T -> T]]
  OBVIOUS
<1> HIDE DEF step
<1>2. PICK f \in [0 .. 8 -> T] : f[0] = silence /\ \A i \in 1 .. 8 : f[i] = step[i][f[i - 1]]
  BY <1>1, EightSteps
<1>3. \A i \in 1 .. 8 : f[i] = next(i, f[i - 1])
  <2>1. \A i \in 1 .. 8 : f[i - 1] \in T
    BY <1>2
  <2> HIDE DEF next
  <2> QED BY <1>2, <2>1 DEF step
<1>4. f = [i \in 0 .. 8 |-> f[i]]
  BY <1>2
<1>5. Sums(f)
  BY <1>2, <1>3, <1>4
<1> DEFINE g == CHOOSE h : Sums(h)
<1>6. Sums(g)
  BY <1>5
<1>7. Blend(samples, on) = g[8]
  BY DEF Blend
<1> HIDE DEF g
<1>8. g[0] = silence /\ \A i \in 1 .. 8 : g[i] = next(i, g[i - 1])
  BY <1>6
<1>9. \A i \in 1 .. 8 : g[i - 1] \in T => g[i] \in T
  BY <1>8
<1>10. g[8] \in T
  <2>1. \A i \in 0 .. 8 : g[i] \in T
    BY <1>8, <1>9, EightFacts
  <2> QED BY <2>1
<1> QED BY <1>7, <1>10

-----------------------------------------------------------------------------
(* Every sample is a number                                                *)

Stereo == [Both -> Int]

\* The numbers that a sample is made of stay numbers.
LEMMA NumberTypes ==
  \A v \in Int : /\ Int8(v) \in Int /\ Int16(v) \in Int /\ Word(v) \in Int
                 /\ Even(v) \in Int /\ clamp16(v) \in Int
<1> SUFFICES ASSUME NEW v \in Int
             PROVE  /\ Int8(v) \in Int /\ Int16(v) \in Int /\ Word(v) \in Int
                    /\ Even(v) \in Int /\ clamp16(v) \in Int
  OBVIOUS
<1>1. Int8(v) \in Int /\ Int16(v) \in Int /\ Word(v) \in Int /\ Even(v) \in Int
  BY DEF Int8, Int16, Word, Even
<1>2. clamp16(v) \in Int
  BY DEF clamp16
<1> QED BY <1>1, <1>2

LEMMA Products == \A m, n \in Int : m * n \in Int
OBVIOUS

LEMMA ScaleType ==
  ASSUME NEW s \in Int, NEW v \in Int
  PROVE  sample_scale(s, v) \in Int
<1>1. s * Int8(v) \in Int
  BY NumberTypes, Products
<1>2. \A m \in Int : m \div 128 \in Int
  OBVIOUS
<1> QED BY <1>1, <1>2 DEF sample_scale

\* Panning, blending and feeding back make stereo samples of them.
LEMMA StereoTypes ==
  /\ silence \in Stereo
  /\ \A s, l, r \in Int : pan(s, l, r) \in Stereo
  /\ \A a, b \in Stereo : sample_blend(a, b) \in Stereo
  /\ \A a, b \in Stereo : \A scale \in Int : sample_blend_scale8(a, b, scale) \in Stereo
<1>1. \A m, n \in Int : <<m, n>> \in Stereo
  BY DEF Stereo, Both
<1>2. silence \in Stereo
  BY <1>1 DEF silence
<1>3. \A s, l, r \in Int : pan(s, l, r) \in Stereo
  BY <1>1, ScaleType DEF pan
<1>4. \A a, b \in Stereo : sample_blend(a, b) \in Stereo
  <2> SUFFICES ASSUME NEW a \in Stereo, NEW b \in Stereo PROVE sample_blend(a, b) \in Stereo
    OBVIOUS
  <2>1. \A c \in Both : a[c] + b[c] \in Int
    BY DEF Stereo
  <2>2. \A c \in Both : clamp16(a[c] + b[c]) \in Int
    BY <2>1, NumberTypes
  <2> QED BY <2>2 DEF sample_blend, Stereo
<1>5. \A a, b \in Stereo : \A scale \in Int : sample_blend_scale8(a, b, scale) \in Stereo
  <2> SUFFICES ASSUME NEW a \in Stereo, NEW b \in Stereo, NEW scale \in Int
               PROVE  sample_blend_scale8(a, b, scale) \in Stereo
    OBVIOUS
  <2>1. \A c \in Both : a[c] \in Int /\ sample_scale(b[c], scale) \in Int
    BY ScaleType DEF Stereo
  <2>2. \A m, n \in Int : m + n \in Int
    OBVIOUS
  <2>3. \A c \in Both : clamp16(a[c] + sample_scale(b[c], scale)) \in Int
    BY <2>1, <2>2, NumberTypes
  <2> QED BY <2>3 DEF sample_blend_scale8, Stereo
<1> QED BY <1>2, <1>3, <1>4, <1>5

\* Two pairs, one after the other.
LEMMA TwoPairs ==
  ASSUME NEW p, NEW q, p = [k \in 1 .. 2 |-> p[k]], q = [k \in 1 .. 2 |-> q[k]]
  PROVE  /\ (p \o q)[1] = p[1] /\ (p \o q)[2] = p[2]
         /\ (p \o q)[3] = q[1] /\ (p \o q)[4] = q[2]
<1> DEFINE T == {p[1], p[2], q[1], q[2]}
<1>1. p \in [1 .. 2 -> T] /\ q \in [1 .. 2 -> T]
  OBVIOUS
<1>2. p \in Seq(T) /\ Len(p) = 2 /\ q \in Seq(T) /\ Len(q) = 2
  BY <1>1
<1> HIDE DEF T
<1> QED BY <1>2

\* A group of four is a group of numbers.
LEMMA FourTypes ==
  ASSUME NEW hdr \in 0 .. 255, NEW b1 \in 0 .. 255, NEW b2 \in 0 .. 255,
         NEW p1 \in Int, NEW p2 \in Int
  PROVE  \A k \in 1 .. 4 : Four(hdr, <<b1, b2>>, <<p1, p2>>)[k] \in Int
<1> DEFINE f == FilterOf(hdr)
           in == Pair(hdr, b1) \o Pair(hdr, b2)
           a == Filter(f, in[1], p2, p1)
           b == Filter(f, in[2], a, p2)
           c == Filter(f, in[3], b, a)
           d == Filter(f, in[4], c, b)
<1>1. f \in 0 .. 3
  BY DEF FilterOf
<1>2. \A x, y, z \in Int : Filter(f, x, y, z) \in Int
  <2> SUFFICES ASSUME NEW x \in Int, NEW y \in Int, NEW z \in Int
               PROVE  Filter(f, x, y, z) \in Int
    OBVIOUS
  <2> HIDE DEF f
  <2>1. /\ coeff1_mul(y) \in Int /\ coeff2_mul(y) \in Int /\ coeff3_mul(y) \in Int
        /\ coeff1_mul(z) \in Int /\ coeff4_mul(z) \in Int
    BY DEF coeff1_mul, coeff2_mul, coeff3_mul, coeff4_mul
  <2>2. /\ brr_filter1(x, y) \in Int /\ brr_filter2(x, y, z) \in Int
        /\ brr_filter3(x, y, z) \in Int
    BY <2>1 DEF brr_filter1, brr_filter2, brr_filter3
  <2> QED BY <1>1, <2>2 DEF Filter
<1>3. \A byte \in 0 .. 255 : \A k \in 1 .. 2 : Pair(hdr, byte)[k] \in Int
  <2> SUFFICES ASSUME NEW byte \in 0 .. 255, NEW k \in 1 .. 2
               PROVE  Pair(hdr, byte)[k] \in Int
    OBVIOUS
  <2>1. Shift(hdr) \in 0 .. 12
    BY DEF Shift
  <2>2. \A n \in 0 .. 12 : 2 ^ n \in Int
    BY SMT
  <2>3. brr_pair_extract(byte)[k] \in Int
    BY DEF brr_pair_extract, Nibble
  <2>4. brr_pair_extract(byte)[k] * 2 ^ Shift(hdr) \in Int
    BY <2>1, <2>2, <2>3, Products
  <2>5. \A m \in Int : m \div 2 \in Int
    OBVIOUS
  <2> QED BY <2>4, <2>5 DEF Pair, brr_pair_scale
<1>4. in[1] \in Int /\ in[2] \in Int /\ in[3] \in Int /\ in[4] \in Int
  <2> DEFINE p == Pair(hdr, b1)
             q == Pair(hdr, b2)
  <2>1. p = [k \in 1 .. 2 |-> p[k]] /\ q = [k \in 1 .. 2 |-> q[k]]
    BY DEF Pair, brr_pair_scale
  <2>2. p[1] \in Int /\ p[2] \in Int /\ q[1] \in Int /\ q[2] \in Int
    <3>1. 1 \in 1 .. 2 /\ 2 \in 1 .. 2
      OBVIOUS
    <3> QED BY <1>3, <3>1, Zenon
  <2> HIDE DEF p, q
  <2>3. /\ (p \o q)[1] = p[1] /\ (p \o q)[2] = p[2]
        /\ (p \o q)[3] = q[1] /\ (p \o q)[4] = q[2]
    BY <2>1, TwoPairs
  <2> QED BY <2>2, <2>3 DEF p, q
<1> HIDE DEF f, in
<1>5. a \in Int
  BY <1>2, <1>4, Zenon
<1>6. b \in Int
  BY <1>2, <1>4, <1>5, Zenon
<1>7. c \in Int
  BY <1>2, <1>4, <1>5, <1>6, Zenon
<1>8. d \in Int
  BY <1>2, <1>4, <1>6, <1>7, Zenon
<1>9. Four(hdr, <<b1, b2>>, <<p1, p2>>) = <<a, b, c, d>>
  BY DEF Four, f, in
<1> HIDE DEF a, b, c, d
<1> QED BY <1>5, <1>6, <1>7, <1>8, <1>9

\* So is what is interpolated from four.
LEMMA InterpolateType ==
  ASSUME NEW in, \A k \in 1 .. 4 : in[k] \in Int, NEW pos \in Int
  PROVE  interpolate(in, pos) \in Int
<1> DEFINE mid == (pos \div 16) % 256
           g1 == gauss[255 - mid]
           g2 == gauss[511 - mid]
           g3 == gauss[256 + mid]
           g4 == gauss[mid]
           sum == ((g1 * in[1]) \div 2048) + ((g2 * in[2]) \div 2048)
                    + ((g3 * in[3]) \div 2048) + ((g4 * in[4]) \div 2048)
<1>1. mid \in Mids
  BY DEF Mids
<1>2. interpolate(in, pos) = Even(sum)
  BY DEF interpolate
<1> HIDE DEF mid
<1>3. g1 \in Int /\ g2 \in Int /\ g3 \in Int /\ g4 \in Int
  BY <1>1, Weights
<1> HIDE DEF g1, g2, g3, g4
<1>4. \A m \in Int : m \div 2048 \in Int
  OBVIOUS
<1>5. g1 * in[1] \in Int /\ g2 * in[2] \in Int /\ g3 * in[3] \in Int /\ g4 * in[4] \in Int
  BY <1>3, Products
<1>6. /\ (g1 * in[1]) \div 2048 \in Int /\ (g2 * in[2]) \div 2048 \in Int
      /\ (g3 * in[3]) \div 2048 \in Int /\ (g4 * in[4]) \div 2048 \in Int
  BY <1>4, <1>5
<1>7. sum \in Int
  BY <1>6
<1> HIDE DEF sum
<1> QED BY <1>2, <1>7, NumberTypes

\* The types of the sample values, and the mixer's registers.
SampleTypes ==
  /\ buf \in [0 .. 11 -> Int]
  /\ echo_hist \in [0 .. 7 -> Stereo] /\ words \in [Slots -> Stereo]
  /\ mix \in Mixes

\* Where a voice that decodes is: in a block that it was led to, at a pair of bytes.
LEMMA DecodingPlace ==
  ASSUME Parts, Decoding
  PROVE  /\ attack_delay # 5 /\ brr_addr \in Blocks /\ brr_off \in {1, 3, 5, 7}
         /\ Voice!StartAddr = brr_addr /\ Voice!StartOff = brr_off /\ Voice!StartBuf = buf_pos
         /\ FullHdr = Ram[brr_addr]
<1>1. /\ attack_delay \in 0 .. 5 /\ brr_off \in {0, 1, 3, 5, 7}
      /\ VoiceProofs!NeverDecoded /\ VoiceProofs!OnBlock
  BY DEF Parts, VoiceProofs!IInv, VoiceProofs!TypeOK
<1>2. Voice!StartInterp >= 16384
  BY DEF Decoding, Voice!Decodes
<1>3. attack_delay # 5
  BY <1>2 DEF Voice!StartInterp, Voice!Delayed
<1>4. brr_off # 0
  <2>1. interp_pos \in Int
    BY VoiceAssumptions, VoiceProofs!PositionElim DEF Parts, VoiceProofs!IInv, VoiceProofs!TypeOK
  <2> QED BY <1>1, <1>2, <1>3, <2>1 DEF VoiceProofs!NeverDecoded, Voice!StartInterp, Voice!Delayed
<1>5. brr_addr \in Blocks
  BY <1>1, <1>4 DEF VoiceProofs!OnBlock
<1> QED BY <1>1, <1>3, <1>4, <1>5
        DEF Voice!StartAddr, Voice!StartOff, Voice!StartBuf, Voice!Starting, FullHdr

\* A block's header and its eight bytes are in memory.
LEMMA BlockBytes ==
  ASSUME NEW a \in Blocks, NEW n \in 0 .. 8
  PROVE  Ram[a + n] \in 0 .. 255
<1>1. a \in Nat /\ a + 8 <= 65535
  BY BlocksAssumption
<1> DEFINE top == 65535
<1>2. top \in Nat /\ Addr = 0 .. top /\ a + 8 <= top
  BY <1>1 DEF Addr
<1> HIDE DEF top
<1>3. a + n \in Addr
  BY <1>1, <1>2
<1> QED BY <1>3, RamAssumption

\* What a sample decodes are four numbers.
LEMMA DecodedTypes ==
  ASSUME Parts, SampleTypes, Decoding
  PROVE  \A k \in 1 .. 4 : Clamped(Decoded)[k] \in Int
<1>1. /\ brr_addr \in Blocks /\ brr_off \in {1, 3, 5, 7}
      /\ Voice!StartAddr = brr_addr /\ Voice!StartOff = brr_off /\ Voice!StartBuf = buf_pos
      /\ FullHdr = Ram[brr_addr]
  BY DecodingPlace
<1>2. buf_pos \in {0, 4, 8}
  BY DEF Parts, VoiceProofs!IInv, VoiceProofs!TypeOK
<1>3. Ram[brr_addr] \in 0 .. 255 /\ Ram[brr_addr + brr_off] \in 0 .. 255
      /\ Ram[brr_addr + brr_off + 1] \in 0 .. 255
  <2>1. \A n \in 0 .. 8 : Ram[brr_addr + n] \in 0 .. 255
    BY <1>1, BlockBytes
  <2>2. brr_addr \in Nat
    BY <1>1, BlocksAssumption
  <2>3. /\ 0 \in 0 .. 8 /\ brr_off \in 0 .. 8 /\ brr_off + 1 \in 0 .. 8
        /\ brr_addr + 0 = brr_addr /\ brr_addr + brr_off + 1 = brr_addr + (brr_off + 1)
    BY <1>1, <2>2
  <2> QED BY <2>1, <2>3
<1>4. PICK p1 \in Int, p2 \in Int : vfilter_state = <<p1, p2>>
  <2>1. CASE buf_pos > 0
    <3>1. buf[buf_pos - 2] \in Int /\ buf[buf_pos - 1] \in Int
      BY <1>2, <2>1 DEF SampleTypes
    <3> QED BY <1>1, <2>1, <3>1 DEF vfilter_state
  <2>2. CASE ~(buf_pos > 0)
    <3>1. buf[10] \in Int /\ buf[11] \in Int
      BY DEF SampleTypes
    <3> QED BY <1>1, <2>2, <3>1 DEF vfilter_state
  <2> QED BY <2>1, <2>2
<1>5. Decoded = Four(Ram[brr_addr], <<Ram[brr_addr + brr_off], Ram[brr_addr + brr_off + 1]>>,
                     <<p1, p2>>)
  BY <1>1, <1>4 DEF Decoded
<1>6. \A k \in 1 .. 4 : Decoded[k] \in Int
  BY <1>3, <1>5, FourTypes
<1> QED BY <1>6, NumberTypes DEF Clamped

\* The ring keeps its numbers.
LEMMA BufType ==
  ASSUME Parts, SampleTypes, Decode
  PROVE  buf' \in [0 .. 11 -> Int]
<1>1. CASE ~Decoding
  BY <1>1 DEF Decode, SampleTypes
<1>2. CASE Decoding
  <2> DEFINE four == Clamped(Decoded)
             p == Voice!StartBuf
  <2>1. \A k \in 1 .. 4 : four[k] \in Int
    BY <1>2, DecodedTypes
  <2>2. p \in {0, 4, 8}
    BY <1>2, DecodingPlace DEF Parts, VoiceProofs!IInv, VoiceProofs!TypeOK
  <2>3. buf' = [n \in 0 .. 11 |-> IF n \in p .. p + 3 THEN four[n - p + 1] ELSE buf[n]]
    BY <1>2 DEF Decode
  <2> HIDE DEF four, p
  <2>4. \A n \in 0 .. 11 : n \in p .. p + 3 => n - p + 1 \in 1 .. 4
    BY <2>2
  <2> QED BY <2>1, <2>3, <2>4 DEF SampleTypes
<1> QED BY <1>1, <1>2

\* What the voice returns is a stereo sample.
LEMMA VoiceSampleType ==
  ASSUME Parts, SampleTypes
  PROVE  VoiceSample \in Stereo
<1>1. /\ buf_pos \in {0, 4, 8} /\ env \in Int /\ interp_pos \in Int
  BY VoiceAssumptions, VoiceProofs!PositionElim
     DEF Parts, VoiceProofs!IInv, VoiceProofs!TypeOK, VoiceProofs!Level
<1>2. Voice!StartBuf \in {0, 4, 8} /\ Voice!StartInterp \in Int
  BY <1>1 DEF Voice!StartBuf, Voice!StartInterp
<1>3. \A k \in 1 .. 4 : Heard[k] \in Int
  <2> DEFINE q == (Voice!StartInterp \div 4096) % 8
  <2>1. q \in 0 .. 7
    BY <1>2
  <2>2. \A k \in 1 .. 4 : Heard[k] = buf[wrap12(Voice!StartBuf + q + k - 1)]
    BY DEF Heard, Points
  <2> HIDE DEF q
  <2>3. \A k \in 1 .. 4 : wrap12(Voice!StartBuf + q + k - 1) \in 0 .. 11
    BY <1>2, <2>1 DEF wrap12
  <2> QED BY <2>2, <2>3 DEF SampleTypes
<1>4. interpolate(Heard, Voice!StartInterp) \in Int
  BY <1>2, <1>3, InterpolateType
<1>5. Interpolated \in Int
  BY <1>4, NumberTypes DEF Interpolated
<1>6. EnvHeard \in Int
  BY <1>1 DEF EnvHeard
<1>7. Enveloped(Interpolated, EnvHeard) \in Int
  <2>1. Interpolated * EnvHeard \in Int
    BY <1>5, <1>6, Products
  <2>2. \A m \in Int : m \div 2048 \in Int
    OBVIOUS
  <2> QED BY <2>1, <2>2, NumberTypes DEF Enveloped
<1>8. mix.vol[1] \in Int /\ mix.vol[2] \in Int
  <2>1. mix.vol \in [Both -> 0 .. 255]
    BY MixesAssumption, Zenon DEF SampleTypes
  <2> QED BY <2>1 DEF Both
<1> QED BY <1>7, <1>8, StereoTypes DEF VoiceSample

-----------------------------------------------------------------------------
(* The echo's samples                                                      *)

\* What a mixer's registers are.
LEMMA MixType ==
  ASSUME mix \in Mixes
  PROVE  /\ mix.coeff \in [0 .. 7 -> 0 .. 255] /\ mix.efb \in 0 .. 255
BY MixesAssumption, Zenon

\* A place among words is again one when it goes round a memory of words.
LEMMA WordPlace ==
  ASSUME NEW e \in Nat, NEW o \in Nat, o % 4 = 0
  PROVE  (e * Page + o) % Memory \in Slots
<1>0. \A n \in Nat : n % 4 = 0 => \E d \in Nat : n = 4 * d
  <2>1. \A n \in Nat : n % 4 = 0 => n = 4 * (n \div 4) /\ n \div 4 \in Nat
    OBVIOUS
  <2> QED BY <2>1
<1>1. PICK p \in Nat : Page = 4 * p
  <2>1. Page \in Nat /\ Page % 4 = 0
    BY EchoAssumption, RingAssumption
  <2> QED BY <1>0, <2>1
<1>2. PICK m \in Nat : Memory = 4 * m
  BY <1>0, EchoAssumption, RingAssumption
<1>3. PICK k \in Nat : o = 4 * k
  BY <1>0
<1>4. e * p \in Nat /\ e * Page = 4 * (e * p)
  BY <1>1
<1> DEFINE n == e * Page + o
           r == n % Memory
           q == n \div Memory
<1>5. n \in Nat /\ n = 4 * (e * p + k)
  BY <1>3, <1>4
<1> HIDE DEF n
<1>6. n = Memory * q + r /\ r \in 0 .. Memory - 1 /\ q \in Int
  BY <1>5, EchoAssumption
<1> HIDE DEF q, r
<1>7. q * m \in Int /\ Memory * q = 4 * (q * m)
  BY <1>2, <1>6
<1>8. r = 4 * ((e * p + k) - q * m)
  BY <1>3, <1>4, <1>5, <1>6, <1>7
<1>9. r % 4 = 0
  <2>1. (e * p + k) - q * m \in Int
    BY <1>3, <1>4, <1>7
  <2>2. \A x \in Int : (4 * x) % 4 = 0
    OBVIOUS
  <2> QED BY <1>8, <2>1, <2>2
<1> QED BY <1>6, <1>9 DEF Slots, r, n

\* Where a sample reads and writes, and the place of the filter's newest.
LEMMA EchoPlace ==
  ASSUME Parts, Echo!Sample
  PROVE  /\ echo_hist_pos \in 0 .. 7 /\ echo_hist_pos' \in 0 .. 7
         /\ echo_hist_pos' = (echo_hist_pos + 1) % 8 /\ echo_hist_pos' = Echo!NextPos
         /\ echo_ptr' = (esa * Page + echo_offset) % Memory /\ echo_ptr' \in Slots
<1>1. /\ echo_hist_pos \in 0 .. 7 /\ esa \in Nat /\ echo_offset \in Nat /\ echo_offset % 4 = 0
  BY EchoAssumption DEF Parts, EchoProofs!IInv, EchoProofs!TypeOK, EchoProofs!OffsetInRing,
     EchoProofs!Hist, EchoProofs!Offset
<1>2. /\ echo_hist_pos' = Echo!NextPos
      /\ echo_ptr' = (esa * Page + echo_offset) % Memory
  BY DEF Echo!Sample, Echo!Fir, Echo!Ring, Echo!BasePage
<1>3. Echo!NextPos = (echo_hist_pos + 1) % 8 /\ Echo!NextPos \in 0 .. 7
  BY <1>1 DEF Echo!NextPos
<1> QED BY <1>1, <1>2, <1>3, WordPlace

\* The filter's samples and its sum are numbers.
LEMMA FirTypes ==
  ASSUME Parts, SampleTypes, Echo!Sample, FirStep
  PROVE  echo_hist' \in [0 .. 7 -> Stereo] /\ echo_sample' \in Stereo
<1>1. echo_hist_pos' \in 0 .. 7 /\ echo_hist_pos' = Echo!NextPos /\ echo_ptr' \in Slots
  BY EchoPlace
<1>2. echo_hist' \in [0 .. 7 -> Stereo]
  <2> DEFINE new == [c \in Both |-> Int16(words[echo_ptr'][c]) \div 2]
  <2>1. \A c \in Both : words[echo_ptr'][c] \in Int
    BY <1>1 DEF SampleTypes, Stereo
  <2>2. \A m \in Int : m \div 2 \in Int
    OBVIOUS
  <2>3. new \in Stereo
    BY <2>1, <2>2, NumberTypes DEF Stereo
  <2>4. echo_hist' = [echo_hist EXCEPT ![echo_hist_pos'] = new]
    BY DEF FirStep
  <2> HIDE DEF new
  <2> QED BY <1>1, <2>3, <2>4 DEF SampleTypes
<1>3. ASSUME NEW c \in Both
      PROVE  FirSum(Taps(c), mix.coeff) \in Int
  <2>1. \A i \in 0 .. 7 : Taps(c)[i] = echo_hist'[(Echo!NextPos + i + 1) % 8][c]
    <3>1. \A i \in 0 .. 7 : (Echo!NextPos + i + 1) % 8 \in 0 .. 7
      BY <1>1
    <3> QED BY <3>1 DEF Taps, Echo!Tap
  <2>2. \A i \in 0 .. 7 : Taps(c)[i] \in Int
    <3>1. \A i \in 0 .. 7 : (Echo!NextPos + i + 1) % 8 \in 0 .. 7
      BY <1>1
    <3> QED BY <1>2, <2>1, <3>1 DEF Stereo
  <2>3. \A i \in 1 .. 8, x \in Int :
          x + ((Taps(c)[i - 1] * Int8(mix.coeff[i - 1])) \div 64) \in Int
    <3> SUFFICES ASSUME NEW i \in 1 .. 8, NEW x \in Int
                 PROVE  x + ((Taps(c)[i - 1] * Int8(mix.coeff[i - 1])) \div 64) \in Int
      OBVIOUS
    <3>1. i - 1 \in 0 .. 7 /\ \A m \in 0 .. 255 : m \in Int
      OBVIOUS
    <3>2. Taps(c)[i - 1] \in Int
      BY <2>2, <3>1
    <3>3. Int8(mix.coeff[i - 1]) \in Int
      <4>1. mix.coeff[i - 1] \in Int
        BY <3>1, MixType DEF SampleTypes
      <4> QED BY <4>1, NumberTypes
    <3>4. Taps(c)[i - 1] * Int8(mix.coeff[i - 1]) \in Int
      BY <3>2, <3>3, Products
    <3>5. \A m \in Int : x + (m \div 64) \in Int
      OBVIOUS
    <3> QED BY <3>4, <3>5
  <2>4. \E x \in Int : FirSum(Taps(c), mix.coeff) = Even(clamp16(x))
    <3> DEFINE T == Int
    <3>1. 0 \in T /\ \A i \in 1 .. 8, x \in T :
            x + ((Taps(c)[i - 1] * Int8(mix.coeff[i - 1])) \div 64) \in T
      BY <2>3
    <3> HIDE DEF T
    <3>2. \E x \in T : FirSum(Taps(c), mix.coeff) = Even(clamp16(x))
      BY <3>1, FirSumIn, Zenon
    <3> QED BY <3>2 DEF T
  <2> QED BY <2>4, NumberTypes
<1>4. echo_sample' = [c \in Both |-> FirSum(Taps(c), mix.coeff)]
  BY DEF FirStep
<1>5. echo_sample' \in Stereo
  BY <1>3, <1>4 DEF Stereo
<1> QED BY <1>2, <1>5

\* What is mixed from eight stereo samples is one.
LEMMA BlendType ==
  ASSUME NEW samples, \A v \in 0 .. 7 : samples[v] \in Stereo, NEW on
  PROVE  Blend(samples, on) \in Stereo
<1>1. \A i \in 1 .. 8 : i - 1 \in 0 .. 7
  OBVIOUS
<1>2. \A i \in 1 .. 8, x \in Stereo : sample_blend(x, samples[i - 1]) \in Stereo
  BY <1>1, StereoTypes
<1> QED BY <1>2, StereoTypes, BlendIn

\* What is fed back and written are words.
LEMMA WriteTypes ==
  ASSUME SampleTypes, echo_sample' \in Stereo, NEW entering \in Stereo,
         echo_ptr' \in Slots, EchoWrite(Feedback(entering))
  PROVE  words' \in [Slots -> Stereo]
<1> DEFINE fed == Feedback(entering)
           new == [c \in Both |-> Word(fed[c])]
<1>1. \A m \in 0 .. 255 : m \in Int
  OBVIOUS
<1>2. sample_blend_scale8(entering, echo_sample', mix.efb) \in Stereo
  BY <1>1, MixType, StereoTypes DEF SampleTypes
<1>3. \A c \in Both : fed[c] \in Int
  BY <1>2, NumberTypes DEF Feedback, Stereo
<1>4. new \in Stereo
  <2> HIDE DEF fed
  <2> QED BY <1>3, NumberTypes DEF Stereo
<1>5. words' = [words EXCEPT ![echo_ptr'] = new] \/ words' = words
  BY DEF EchoWrite
<1> HIDE DEF new
<1> QED BY <1>4, <1>5 DEF SampleTypes

\* What the voices put out for a sample.
AllOut(others) == [v \in 0 .. 7 |-> IF v = 0 THEN vsample' ELSE others[v]]

LEMMA OutTypes ==
  ASSUME Parts, SampleTypes, VoiceRun, NEW others \in Others \cup {NoOthers}
  PROVE  \A v \in 0 .. 7 : AllOut(others)[v] \in Stereo
<1>1. vsample' \in Stereo
  BY VoiceSampleType DEF VoiceRun
<1>2. \A v \in 1 .. 7 : others[v] \in Stereo
  <2>1. CASE others = NoOthers
    BY <2>1, StereoTypes DEF NoOthers
  <2>2. CASE others \in Others
    <3>1. Loudest \in Int /\ \A m \in Int : \A x \in -m .. m : x \in Int
      BY DEF Loudest
    <3>2. others \in [1 .. 7 -> [Both -> -Loudest .. Loudest]]
      BY <2>2, OthersAssumption
    <3> QED BY <3>1, <3>2 DEF Stereo
  <2> QED BY <2>1, <2>2
<1>3. \A v \in 0 .. 7 : v = 0 \/ v \in 1 .. 7
  OBVIOUS
<1> QED BY <1>1, <1>2, <1>3 DEF AllOut

\* Whatever is stored, the samples and the mixer's registers keep their types.
LEMMA TypesStep ==
  ASSUME Parts, SampleTypes, [SignalNext]_signal
  PROVE  SampleTypes'
<1>1. CASE next_sample
  <2>1. /\ Echo!Sample /\ VoiceRun /\ Decode /\ mix' = mix
        /\ \E others \in Others \cup {NoOthers} : Mix(AllOut(others))
    BY <1>1 DEF next_sample, VoiceRun, AllOut
  <2>2. buf' \in [0 .. 11 -> Int]
    BY <2>1, BufType
  <2>3. PICK others \in Others \cup {NoOthers} : Mix(AllOut(others))
    BY <2>1
  <2> DEFINE entering == Blend(AllOut(others), eon)
  <2>4. FirStep /\ EchoWrite(Feedback(entering))
    BY <2>3 DEF Mix
  <2>5. echo_hist' \in [0 .. 7 -> Stereo] /\ echo_sample' \in Stereo
    BY <2>1, <2>4, FirTypes
  <2>6. entering \in Stereo
    BY <2>1, OutTypes, BlendType
  <2>7. echo_ptr' \in Slots
    BY <2>1, EchoPlace
  <2> HIDE DEF entering
  <2>8. words' \in [Slots -> Stereo]
    BY <2>4, <2>5, <2>6, <2>7, WriteTypes
  <2> QED BY <2>1, <2>2, <2>5, <2>8 DEF SampleTypes
<1>2. CASE StoreVoiceReg \/ StoreEchoReg \/ StoreMixReg \/ dsp_restore
  <2>1. UNCHANGED values
    BY <1>2 DEF StoreVoiceReg, StoreEchoReg, StoreMixReg, dsp_restore, MayStore
  <2>2. mix' \in Mixes
    <3>1. \A f \in Images : f.mix \in Mixes
      BY ImagesAssumption
    <3> QED BY <1>2, <3>1 DEF StoreVoiceReg, StoreEchoReg, StoreMixReg, dsp_restore, SampleTypes
  <2> QED BY <2>1, <2>2 DEF values, SampleTypes
<1>3. CASE UNCHANGED signal
  BY <1>3 DEF signal, values, SampleTypes
<1> QED BY <1>1, <1>2, <1>3 DEF SignalNext

LEMMA TypesInvariance == SignalSpec => []SampleTypes
<1>1. SignalInit => SampleTypes
  <2> SUFFICES ASSUME SignalInit PROVE SampleTypes
    OBVIOUS
  <2>1. silence \in Stereo
    BY StereoTypes
  <2>2. buf \in [0 .. 11 -> Int]
    BY DEF SignalInit
  <2>3. echo_hist \in [0 .. 7 -> Stereo]
    BY <2>1 DEF SignalInit
  <2>4. words \in [Slots -> Stereo]
    <3>1. \A w \in Garbage : <<w, w>> \in Stereo
      BY RingAssumption DEF Stereo, Both
    <3> QED BY <3>1 DEF SignalInit
  <2>5. mix \in Mixes
    <3>1. \A f \in Images : f.mix \in Mixes
      BY ImagesAssumption
    <3> QED BY <3>1 DEF SignalInit
  <2> QED BY <2>2, <2>3, <2>4, <2>5 DEF SampleTypes
<1>2. Parts /\ SampleTypes /\ [SignalNext]_signal => SampleTypes'
  BY TypesStep
<1> QED BY <1>1, <1>2, PartsInvariance, PTL DEF SignalSpec

-----------------------------------------------------------------------------
(* The echo dies out                                                       *)

\* The offsets at which a slot of the ring may start.
SlotOffset == {o \in Echo!Offset : o % 4 = 0}

\* The word of the slot at o of the ring.
SlotAt(o) == (esa * Page + o) % Memory

\* Every slot that was passed since nothing enters is silent.
QuietSlots ==
  \A o \in SlotOffset, d \in Nat \ {0} :
    (d <= Echo!Slots /\ d <= quiet /\ EchoProofs!Passed(echo_offset, Echo!Slots, o, d))
      => words[SlotAt(o)] = silence

\* A turn of the ring later what is read of it is silent, and the filter's samples are
\* one after another.
QuietHist ==
  \A k \in 0 .. 7 :
    k + Echo!Slots < quiet => echo_hist[(echo_hist_pos - k) % 8] = silence

\* The filter's eight after that.
QuietOut == quiet >= Echo!Slots + 8 => echo_sample = silence

QuietInv == quiet \in Nat /\ QuietSlots /\ QuietHist /\ QuietOut

\* The ring of the echo unit, as DspEchoProofs has it.
LEMMA RingFacts ==
  ASSUME Parts
  PROVE  /\ Echo!Slots \in Nat \ {0} /\ echo_offset \in Nat /\ echo_offset % 4 = 0
         /\ echo_offset < 4 * Echo!Slots /\ echo_offset \in SlotOffset
         /\ Echo!Advance(echo_offset, echo_length)
              = IF echo_offset + 4 >= 4 * Echo!Slots THEN 0 ELSE echo_offset + 4
         /\ \A o \in SlotOffset : o \in Nat /\ o % 4 = 0
<1>1. EchoProofs!TypeOK /\ EchoProofs!OffsetInRing /\ EchoProofs!WholeSlots
  BY DEF Parts, EchoProofs!IInv
<1>2. /\ Echo!Slots = EchoProofs!Slots
      /\ Echo!Advance(echo_offset, echo_length) = EchoProofs!Advance(echo_offset, echo_length)
  BY DEF Echo!Slots, EchoProofs!Slots, Echo!Advance, EchoProofs!Advance
<1>3. /\ EchoProofs!Slots \in Nat \ {0} /\ echo_offset \in Nat /\ echo_offset % 4 = 0
      /\ echo_offset < 4 * EchoProofs!Slots
      /\ EchoProofs!Advance(echo_offset, echo_length)
           = IF echo_offset + 4 >= 4 * EchoProofs!Slots THEN 0 ELSE echo_offset + 4
  BY <1>1, EchoAssumption, EchoProofs!SlotsLemma
<1>4. /\ echo_offset \in SlotOffset
      /\ \A o \in SlotOffset : o \in Nat /\ o % 4 = 0
  <2>1. echo_offset \in EchoProofs!Offset
    BY <1>1 DEF EchoProofs!TypeOK
  <2> QED BY <1>3, <2>1, EchoAssumption DEF EchoProofs!Offset, Echo!Offset,
                                                SlotOffset
<1> QED BY <1>2, <1>3, <1>4

\* Silence is fed back of silence, when nothing is.
LEMMA QuietFed ==
  ASSUME echo_sample' \in Stereo, mix.efb = 0
  PROVE  [c \in Both |-> Word(Feedback(silence)[c])] = silence
<1>1. ASSUME NEW c \in Both
      PROVE  Word(Feedback(silence)[c]) = 0
  <2>1. echo_sample'[c] \in Int /\ silence[c] = 0
    BY DEF Stereo, silence, Both
  <2>2. Int8(0) = 0
    BY DEF Int8
  <2>3. \A m \in Int : (m * 0) \div 128 = 0
    OBVIOUS
  <2>4. sample_scale(echo_sample'[c], mix.efb) = 0
    BY <2>1, <2>2, <2>3 DEF sample_scale
  <2>5. clamp16(0 + 0) = 0
    BY DEF clamp16, Int16
  <2>6. sample_blend_scale8(silence, echo_sample', mix.efb)[c] = 0
    BY <2>1, <2>4, <2>5 DEF sample_blend_scale8
  <2>7. Feedback(silence)[c] = 0
    BY <2>6 DEF Feedback, Even
  <2> QED BY <2>7 DEF Word
<1> QED BY <1>1 DEF silence, Both

\* The filter of silence is silence.
LEMMA QuietFir ==
  ASSUME FirStep, Echo!NextPos \in 0 .. 7, mix \in Mixes,
         \A p \in 0 .. 7 : echo_hist'[p] = silence
  PROVE  echo_sample' = silence
<1>1. ASSUME NEW c \in Both
      PROVE  FirSum(Taps(c), mix.coeff) = 0
  <2>1. \A i \in 0 .. 7 : (Echo!NextPos + i + 1) % 8 \in 0 .. 7
    OBVIOUS
  <2>2. \A i \in 0 .. 7 : Taps(c)[i] = 0
    BY <2>1 DEF Taps, Echo!Tap, silence, Both
  <2>3. \A i \in 1 .. 8 : 0 + ((Taps(c)[i - 1] * Int8(mix.coeff[i - 1])) \div 64) = 0
    <3> SUFFICES ASSUME NEW i \in 1 .. 8
                 PROVE  0 + ((Taps(c)[i - 1] * Int8(mix.coeff[i - 1])) \div 64) = 0
      OBVIOUS
    <3>1. i - 1 \in 0 .. 7 /\ \A m \in 0 .. 255 : m \in Int
      OBVIOUS
    <3>2. Int8(mix.coeff[i - 1]) \in Int
      <4>1. mix.coeff[i - 1] \in Int
        BY <3>1, MixType
      <4> QED BY <4>1, NumberTypes
    <3>3. \A m \in Int : 0 + ((0 * m) \div 64) = 0
      OBVIOUS
    <3> QED BY <2>2, <3>1, <3>2, <3>3
  <2>4. \E x \in {0} : FirSum(Taps(c), mix.coeff) = Even(clamp16(x))
    <3> DEFINE T == {0}
    <3>1. 0 \in T /\ \A i \in 1 .. 8, x \in T :
            x + ((Taps(c)[i - 1] * Int8(mix.coeff[i - 1])) \div 64) \in T
      BY <2>3
    <3> HIDE DEF T
    <3>2. \E x \in T : FirSum(Taps(c), mix.coeff) = Even(clamp16(x))
      BY <3>1, FirSumIn, Zenon
    <3> QED BY <3>2 DEF T
  <2>5. Even(clamp16(0)) = 0
    BY DEF Even, clamp16, Int16
  <2> QED BY <2>4, <2>5
<1> QED BY <1>1 DEF FirStep, silence, Both

\* A sample for which nothing enters silences the slot that it leaves and takes the
\* filter a sample nearer to silence.
LEMMA QuietSample ==
  ASSUME Parts, SampleTypes, QuietInv, Echo!Sample, FirStep,
         Quiet(silence), EchoWrite(Feedback(silence)), quiet' = Older(quiet)
  PROVE  QuietInv'
<1> DEFINE n == Echo!Slots
<1>1. /\ n \in Nat \ {0} /\ echo_offset \in Nat /\ echo_offset % 4 = 0 /\ echo_offset < 4 * n
      /\ echo_offset \in SlotOffset
      /\ Echo!Advance(echo_offset, echo_length)
           = IF echo_offset + 4 >= 4 * n THEN 0 ELSE echo_offset + 4
      /\ \A o \in SlotOffset : o \in Nat /\ o % 4 = 0
  BY RingFacts
<1>2. mix.efb = 0 /\ echo_enabled' /\ esa' = esa /\ echo_length' = echo_length
  BY DEF Quiet
<1>3. Echo!Slots' = n /\ echo_offset' = IF echo_offset + 4 >= 4 * n THEN 0 ELSE echo_offset + 4
  <2>1. echo_offset' = Echo!Advance(echo_offset, echo_length')
    BY DEF Echo!Sample, Echo!Ring
  <2> QED BY <1>1, <1>2, <2>1 DEF Echo!Slots
<1>4. /\ echo_hist_pos \in 0 .. 7 /\ echo_hist_pos' \in 0 .. 7
      /\ echo_hist_pos' = (echo_hist_pos + 1) % 8 /\ echo_hist_pos' = Echo!NextPos
      /\ echo_ptr' = SlotAt(echo_offset) /\ echo_ptr' \in Slots
  BY EchoPlace DEF SlotAt
<1>5. quiet \in Nat /\ quiet' \in Nat /\ quiet' <= quiet + 1
      /\ \A k \in Nat : k < quiet' => k <= quiet
  BY EchoAssumption DEF QuietInv, Older
<1>6. words' = [words EXCEPT ![echo_ptr'] = silence]
  <2>1. echo_sample' \in Stereo
    BY FirTypes
  <2>2. [c \in Both |-> Word(Feedback(silence)[c])] = silence
    BY <1>2, <2>1, QuietFed
  <2> QED BY <1>2, <2>2 DEF EchoWrite
<1> HIDE DEF n
<1>7. QuietSlots'
  <2>1. \A o : SlotAt(o)' = SlotAt(o)
    BY <1>2 DEF SlotAt
  <2>2. ASSUME NEW o \in SlotOffset, NEW d \in Nat \ {0}, d <= n, d <= quiet',
               EchoProofs!Passed(echo_offset', n, o, d)
        PROVE  words'[SlotAt(o)] = silence
    <3>1. o \in Nat /\ o % 4 = 0
      BY <1>1
    <3>2. /\ o = echo_offset => d = 1
          /\ o # echo_offset =>
               d - 1 \in Nat \ {0} /\ EchoProofs!Passed(echo_offset, n, o, d - 1)
      BY <1>1, <1>3, <2>2, <3>1, EchoAssumption, EchoProofs!PassedStep
    <3>3. DOMAIN words = Slots
      BY DEF SampleTypes
    <3>4. CASE o = echo_offset
      BY <1>4, <1>6, <3>3, <3>4
    <3>5. CASE o # echo_offset
      <4>1. d - 1 \in Nat \ {0} /\ d - 1 <= n /\ d - 1 <= quiet
        BY <1>1, <1>5, <2>2, <3>2, <3>5
      <4>2. words[SlotAt(o)] = silence
        BY <3>2, <3>5, <4>1 DEF QuietInv, QuietSlots, n
      <4>3. SlotAt(o) \in Slots
        <5>1. esa \in Nat
          BY DEF Parts, EchoProofs!IInv, EchoProofs!TypeOK
        <5> QED BY <3>1, <5>1, WordPlace DEF SlotAt
      <4> QED BY <1>6, <3>3, <4>2, <4>3
    <3> QED BY <3>4, <3>5
  <2>3. \A o \in SlotOffset, d \in Nat \ {0} :
          (d <= n /\ d <= quiet' /\ EchoProofs!Passed(echo_offset', n, o, d))
            => words'[SlotAt(o)] = silence
    BY <2>2
  <2> QED BY <1>3, <2>1, <2>3 DEF QuietSlots, EchoProofs!Passed
<1>8. QuietHist'
  <2>1. ASSUME NEW k \in 0 .. 7, k + n < quiet'
        PROVE  echo_hist'[(echo_hist_pos' - k) % 8] = silence
    <3>1. echo_hist' = [echo_hist EXCEPT ![echo_hist_pos'] =
                          [c \in Both |-> Int16(words[echo_ptr'][c]) \div 2]]
      BY DEF FirStep
    <3>2. DOMAIN echo_hist = 0 .. 7
      BY DEF SampleTypes
    <3>3. CASE k = 0
      <4>1. n <= quiet
        BY <1>1, <1>5, <2>1, <3>3
      <4>2. EchoProofs!Passed(echo_offset, n, echo_offset, n)
        BY <1>1 DEF EchoProofs!Passed
      <4>3. words[echo_ptr'] = silence
        BY <1>1, <1>4, <4>1, <4>2 DEF QuietInv, QuietSlots, n
      <4>4. Int16(0) \div 2 = 0
        BY DEF Int16
      <4>5. [c \in Both |-> Int16(words[echo_ptr'][c]) \div 2] = silence
        BY <4>3, <4>4 DEF silence, Both
      <4>6. (echo_hist_pos' - k) % 8 = echo_hist_pos'
        BY <1>4, <3>3
      <4> QED BY <1>4, <3>1, <3>2, <4>5, <4>6
    <3>4. CASE k # 0
      <4>1. k - 1 \in 0 .. 7 /\ (k - 1) + n < quiet
        BY <1>1, <1>5, <2>1, <3>4
      <4>2. /\ (echo_hist_pos' - k) % 8 = (echo_hist_pos - (k - 1)) % 8
            /\ (echo_hist_pos' - k) % 8 \in 0 .. 7 /\ (echo_hist_pos' - k) % 8 # echo_hist_pos'
        BY <1>4, <3>4
      <4>3. echo_hist[(echo_hist_pos - (k - 1)) % 8] = silence
        BY <4>1 DEF QuietInv, QuietHist, n
      <4> QED BY <3>1, <3>2, <4>2, <4>3
    <3> QED BY <3>3, <3>4
  <2> QED BY <1>3, <2>1 DEF QuietHist
<1>9. QuietOut'
  <2>1. ASSUME quiet' >= n + 8
        PROVE  echo_sample' = silence
    <3>1. ASSUME NEW p \in 0 .. 7 PROVE echo_hist'[p] = silence
      <4> DEFINE k == (echo_hist_pos' - p) % 8
      <4>1. k \in 0 .. 7 /\ (echo_hist_pos' - k) % 8 = p
        BY <1>4
      <4>2. k + n < quiet'
        BY <1>1, <1>5, <2>1, <4>1
      <4> HIDE DEF k
      <4> QED BY <1>3, <1>8, <4>1, <4>2 DEF QuietHist
    <3> QED BY <1>4, <3>1, QuietFir DEF SampleTypes
  <2> QED BY <1>3, <2>1 DEF QuietOut
<1> QED BY <1>5, <1>7, <1>8, <1>9 DEF QuietInv

\* A sample that something enters promises nothing.
LEMMA QuietFresh == Parts /\ quiet = 0 => QuietInv
<1> SUFFICES ASSUME Parts, quiet = 0 PROVE QuietInv
  OBVIOUS
<1> DEFINE n == Echo!Slots
<1>1. n \in Nat
  BY RingFacts
<1> HIDE DEF n
<1>2. \A d \in Nat \ {0} : ~(d <= 0)
  OBVIOUS
<1>3. \A k \in 0 .. 7 : ~(k + n < 0)
  BY <1>1
<1>4. ~(0 >= n + 8)
  BY <1>1
<1> QED BY <1>2, <1>3, <1>4 DEF QuietInv, QuietSlots, QuietHist, QuietOut, n

\* Every step keeps it: a sample that something enters starts over.
LEMMA QuietStep ==
  ASSUME Parts, Parts', SampleTypes, QuietInv, [SignalNext]_signal
  PROVE  QuietInv'
<1>1. CASE next_sample
  <2>1. Echo!Sample /\ \E others \in Others \cup {NoOthers} : Mix(AllOut(others))
    BY <1>1 DEF next_sample, AllOut
  <2>2. PICK others \in Others \cup {NoOthers} : Mix(AllOut(others))
    BY <2>1
  <2> DEFINE entering == Blend(AllOut(others), eon)
  <2>3. /\ FirStep /\ EchoWrite(Feedback(entering))
        /\ quiet' = IF Quiet(entering) THEN Older(quiet) ELSE 0
    BY <2>2 DEF Mix
  <2> HIDE DEF entering
  <2>4. CASE Quiet(entering)
    <3>1. entering = silence
      BY <2>4 DEF Quiet
    <3> QED BY <2>1, <2>3, <2>4, <3>1, QuietSample
  <2>5. CASE ~Quiet(entering)
    <3>1. quiet' = 0
      BY <2>3, <2>5
    <3>2. (Parts /\ quiet = 0)' => QuietInv'
      BY QuietFresh, PTL
    <3> QED BY <3>1, <3>2
  <2> QED BY <2>4, <2>5
<1>2. CASE ~next_sample
  <2>1. UNCHANGED <<quiet, words, echo_hist, echo_sample, esa, echo_offset, echo_length,
                    echo_hist_pos>>
    BY <1>2 DEF SignalNext, StoreVoiceReg, StoreEchoReg, StoreMixReg, dsp_restore, MayStore,
       values, history, signal, echo, Echo!Store, Echo!ring, Echo!fir
  <2> QED BY <2>1 DEF QuietInv, QuietSlots, QuietHist, QuietOut, Echo!Slots, SlotAt,
          EchoProofs!Passed
<1> QED BY <1>1, <1>2

\* The echo of a ring without feedback dies out, whatever the voices put out and the
\* program stored before: a turn of the ring and the eight taps after nothing enters
\* it any more, what the filter returns is silence.
THEOREM EchoDies == SignalSpec => []EchoDiesOut
<1>1. SignalInit /\ Parts => QuietInv
  BY QuietFresh DEF SignalInit
<1>2. Parts /\ Parts' /\ SampleTypes /\ QuietInv /\ [SignalNext]_signal => QuietInv'
  BY QuietStep
<1>3. QuietInv => EchoDiesOut
  BY DEF QuietInv, QuietOut, EchoDiesOut
<1> QED BY <1>1, <1>2, <1>3, PartsInvariance, TypesInvariance, PTL DEF SignalSpec

-----------------------------------------------------------------------------
(* Where the echo writes                                                   *)

\* The bytes of the ring that starts at the page of ESA which the sample before saw.
RingBytes == {(esa * Page + d) % Memory : d \in 0 .. 4 * Echo!Slots - 1}

\* next_sample keeps memory that is not in the ring, whatever is stored in ESA and EDL
\* and however loud the echo is: sample data that lies elsewhere stays as it is.
THEOREM OutsideIsKept ==
  SignalSpec => [][\A a \in Slots \ RingBytes : words'[a] = words[a]]_signal
<1>1. Parts /\ SampleTypes /\ [SignalNext]_signal =>
        [\A a \in Slots \ RingBytes : words'[a] = words[a]]_signal
  <2> SUFFICES ASSUME Parts, SampleTypes, [SignalNext]_signal, NEW a \in Slots \ RingBytes
               PROVE  words'[a] = words[a]
    OBVIOUS
  <2>1. CASE next_sample
    <3>1. Echo!Sample /\ \E others \in Others \cup {NoOthers} : Mix(AllOut(others))
      BY <2>1 DEF next_sample, AllOut
    <3>2. \/ words' = words
          \/ \E fed : words' = [words EXCEPT ![echo_ptr'] = fed]
      BY <3>1, Zenon DEF Mix, EchoWrite
    <3>3. echo_ptr' \in RingBytes
      <4> DEFINE n == Echo!Slots
      <4>1. n \in Nat \ {0} /\ echo_offset \in Nat /\ echo_offset < 4 * n
        BY RingFacts
      <4>2. echo_ptr' = (esa * Page + echo_offset) % Memory
        BY <3>1, EchoPlace
      <4> HIDE DEF n
      <4>3. echo_offset \in 0 .. 4 * n - 1
        BY <4>1
      <4> QED BY <4>2, <4>3 DEF RingBytes, n
    <3>4. a # echo_ptr' /\ a \in DOMAIN words
      BY <3>3 DEF SampleTypes
    <3> QED BY <3>2, <3>4
  <2>2. CASE ~next_sample
    BY <2>2 DEF SignalNext, StoreVoiceReg, StoreEchoReg, StoreMixReg, dsp_restore, MayStore,
       values, signal
  <2> QED BY <2>1, <2>2
<1> QED BY <1>1, PartsInvariance, TypesInvariance, PTL DEF SignalSpec

-----------------------------------------------------------------------------
(* The counters that pace the envelopes                                    *)

\* Here Init, Next, Spec and vars are DspCounter's: the counters that run_envelope
\* reads through ctr_read, and that next_sample steps.

\* The sizes of the masks, each a power of two that divides the counters' modulus.
Turns == {1, 2, 4, 8, 16, 32, 64, 128, 256, 512, 1024, 2048}

Turn(r) == ctr_mask(r) + 1
Every(r) == ctr_rate[ctr_number(r)]

\* The mask and the counter of a rate, and the period they make.
LEMMA RateFacts ==
  ASSUME NEW r \in 1 .. 31
  PROVE  /\ ctr_number(r) \in 0 .. 2 /\ Turn(r) \in Turns /\ Every(r) \in {1, 3, 5}
         /\ Period(r) = Turn(r) * Every(r)
<1>1. ctr_number(r) \in 0 .. 2
  BY DEF ctr_number
<1>2. ctr_mask(r) + 1 \in Turns
  BY DEF ctr_mask, Turns
<1>3. \A n \in 0 .. 2 : ctr_rate[n] \in {1, 3, 5}
  BY DEF ctr_rate
<1> QED BY <1>1, <1>2, <1>3 DEF Turn, Every, Period

\* The types of the counters.
CounterTypes ==
  /\ ctr_out \in [0 .. 2 -> Nat] /\ \A n \in 0 .. 2 : ctr_out[n] < 2048
  /\ ctr_internal \in [0 .. 2 -> Nat]
  /\ \A n \in 0 .. 2 : ctr_internal[n] \in 1 .. ctr_rate[n]
  /\ since \in [0 .. 31 -> Nat] /\ fired \subseteq 1 .. 31

\* How far a rate is into its period: the samples since its mask and its countdown
\* agreed, had they been running ever.
Phase(r, outs, internal) ==
  (outs[ctr_number(r)] % Turn(r)) * Every(r) + (Every(r) - internal[ctr_number(r)])

Paced(r) ==
  /\ since[r] <= Phase(r, ctr_out, ctr_internal)
  /\ r \in fired => since[r] = Phase(r, ctr_out, ctr_internal)

CounterInv == CounterTypes /\ \A r \in 1 .. 31 : Paced(r)

\* Stepping a counter steps what a mask leaves of it, as the mask divides the modulus.
LEMMA Masked ==
  ASSUME NEW P \in Turns, NEW outs \in Nat, outs < 2048
  PROVE  /\ ((outs + 1) % 2048) % P = IF (outs % P) + 1 = P THEN 0 ELSE (outs % P) + 1
         /\ outs % P \in 0 .. P - 1 /\ P \in Nat \ {0}
BY DEF Turns

\* A rate's phase before a sample, and what the sample does to it.
LEMMA PhaseBounds ==
  ASSUME CounterTypes, NEW r \in 1 .. 31
  PROVE  Phase(r, ctr_out, ctr_internal) \in Nat
         /\ Phase(r, ctr_out, ctr_internal) < Period(r)
<1> DEFINE n == ctr_number(r)
           P == Turn(r)
           R == Every(r)
           o == ctr_out[n]
           m == o % P
           i == ctr_internal[n]
<1>1. n \in 0 .. 2 /\ P \in Turns /\ R \in {1, 3, 5} /\ Period(r) = P * R
  BY RateFacts
<1>2. o \in Nat /\ o < 2048 /\ i \in 1 .. R
  BY <1>1 DEF CounterTypes, Every
<1> HIDE DEF n, P, R, o, i
<1>3. m \in 0 .. P - 1 /\ P \in Nat \ {0}
  BY <1>1, <1>2, Masked
<1> HIDE DEF m
<1>4. m * R + (R - i) \in Nat /\ m * R + (R - i) < P * R
  BY <1>1, <1>2, <1>3
<1> QED BY <1>1, <1>4 DEF Phase, n, P, R, o, m, i

\* A sample takes every rate a sample further, and fires it when it comes round.
LEMMA RateStep ==
  ASSUME CounterTypes, ctr_run, NEW r \in 1 .. 31
  PROVE  /\ Phase(r, ctr_out', ctr_internal') =
              IF Phase(r, ctr_out, ctr_internal) + 1 = Period(r) THEN 0
              ELSE Phase(r, ctr_out, ctr_internal) + 1
         /\ r \in Fires <=> Phase(r, ctr_out', ctr_internal') = 0
<1> DEFINE n == ctr_number(r)
           P == Turn(r)
           R == Every(r)
           o == ctr_out[n]
           o2 == ctr_out'[n]
           m == o % P
           i == ctr_internal[n]
           m2 == o2 % P
           i2 == ctr_internal'[n]
<1>1. n \in 0 .. 2 /\ P \in Turns /\ R \in {1, 3, 5} /\ Period(r) = P * R
  BY RateFacts
<1>2. o \in Nat /\ o < 2048 /\ i \in 1 .. R
  BY <1>1 DEF CounterTypes, Every
<1>3. n \in Stepped <=> i = 1
  <2>1. n = 0 => R = 1
    BY DEF Every, ctr_rate
  <2>2. n \in Stepped <=> (n = 0 \/ i = 1)
    BY <1>1 DEF Stepped
  <2> QED BY <1>2, <2>1, <2>2
<1>4. i = 1 => o2 = (o + 1) % 2048 /\ i2 = R
  <2> SUFFICES ASSUME i = 1 PROVE o2 = (o + 1) % 2048 /\ i2 = R
    OBVIOUS
  <2>1. o2 = (o + 1) % 2048
    BY <1>1, <1>3 DEF ctr_run, Low
  <2>2. n = 0 => R = 1
    BY DEF Every, ctr_rate
  <2>3. i2 = R
    BY <1>1, <1>3, <2>2 DEF ctr_run, Every
  <2> QED BY <2>1, <2>3
<1>5. i # 1 => o2 = o /\ i2 = i - 1
  <2>1. n = 0 => R = 1
    BY DEF Every, ctr_rate
  <2> QED BY <1>1, <1>2, <1>3, <2>1 DEF ctr_run
<1>6. r \in Fires <=> (m2 = 0 /\ i2 = R)
  <2>1. r \in Rates /\ r # 0
    BY DEF Rates
  <2> QED BY <2>1 DEF Fires, ctr_read, Turn, Every
<1> HIDE DEF n, P, R, o, o2, i, i2
<1>7. /\ m \in 0 .. P - 1 /\ P \in Nat \ {0}
      /\ ((o + 1) % 2048) % P = IF m + 1 = P THEN 0 ELSE m + 1
  BY <1>1, <1>2, Masked
<1>8. /\ i = 1 => m2 = (IF m + 1 = P THEN 0 ELSE m + 1) /\ i2 = R
      /\ i # 1 => m2 = m /\ i2 = i - 1
  BY <1>4, <1>5, <1>7
<1> HIDE DEF m, m2
<1>9. /\ m2 * R + (R - i2) = IF m * R + (R - i) + 1 = P * R THEN 0 ELSE m * R + (R - i) + 1
      /\ (m2 = 0 /\ i2 = R) <=> m2 * R + (R - i2) = 0
  <2>1. R \in {1, 3, 5}
    BY <1>1
  <2>2. i \in 1 .. R /\ m \in 0 .. P - 1 /\ P \in Nat
    BY <1>2, <1>7
  <2>3. CASE R = 1
    BY <2>2, <2>3, <1>8
  <2>4. CASE R = 3
    BY <2>2, <2>4, <1>8
  <2>5. CASE R = 5
    BY <2>2, <2>5, <1>8
  <2> QED BY <2>1, <2>3, <2>4, <2>5
<1> QED BY <1>1, <1>6, <1>9 DEF Phase, m, m2, n, P, R, o, o2, i, i2

\* A sample keeps the counters in range.
LEMMA RunTypes ==
  ASSUME CounterTypes, ctr_run
  PROVE  CounterTypes'
<1>1. \A n \in 0 .. 2 : ctr_rate[n] \in Nat \ {0}
  BY DEF ctr_rate
<1>2. ctr_out' \in [0 .. 2 -> Nat] /\ \A n \in 0 .. 2 : ctr_out'[n] < 2048
  <2>1. \A k \in Nat : (k + 1) % 2048 \in Nat /\ (k + 1) % 2048 < 2048
    OBVIOUS
  <2> QED BY <2>1 DEF CounterTypes, ctr_run, Low
<1>3. \A n \in 0 .. 2 : ctr_internal'[n] \in 1 .. ctr_rate[n]
  <2> SUFFICES ASSUME NEW n \in 0 .. 2 PROVE ctr_internal'[n] \in 1 .. ctr_rate[n]
    OBVIOUS
  <2>1. ctr_internal[n] \in 1 .. ctr_rate[n]
    BY DEF CounterTypes
  <2>2. ctr_internal'[n] = IF n = 0 THEN ctr_internal[n]
                           ELSE IF ctr_internal[n] = 1 THEN ctr_rate[n]
                           ELSE ctr_internal[n] - 1
    BY DEF ctr_run, Stepped
  <2> QED BY <1>1, <2>1, <2>2
<1>4. ctr_internal' \in [0 .. 2 -> Nat]
  <2>1. ctr_internal' = [n \in 0 .. 2 |-> ctr_internal'[n]]
    BY DEF ctr_run
  <2>2. \A n \in 0 .. 2 : ctr_internal'[n] \in Nat
    BY <1>1, <1>3
  <2> QED BY <2>1, <2>2
<1>5. since' \in [0 .. 31 -> Nat]
  BY DEF CounterTypes, ctr_run, Rates
<1>6. fired' \subseteq 1 .. 31
  <2>1. Fires \subseteq 1 .. 31
    BY DEF Fires, ctr_read, Rates
  <2> QED BY <2>1 DEF CounterTypes, ctr_run
<1> QED BY <1>2, <1>3, <1>4, <1>5, <1>6 DEF CounterTypes

\* The counters of a restore are inside every period, and nothing has fired yet.
LEMMA StartOver ==
  ASSUME ctr_internal = InternalInit, ctr_out = OutInit,
         since = [r \in Rates |-> 0], fired = {}
  PROVE  CounterInv
<1>1. CounterTypes
  <2>1. ctr_internal = [n \in 0 .. 2 |-> n + 1]
    BY DEF InternalInit
  <2>2. /\ ctr_out \in [0 .. 2 -> Nat] /\ ctr_out[0] = 0 /\ ctr_out[1] = 1701
        /\ ctr_out[2] = 1941
    BY DEF OutInit, Low
  <2>3. \A n \in 0 .. 2 : ctr_internal[n] \in 1 .. ctr_rate[n]
    BY <2>1 DEF ctr_rate
  <2> QED BY <2>1, <2>2, <2>3 DEF CounterTypes, Rates
<1>2. ASSUME NEW r \in 1 .. 31 PROVE Paced(r)
  <2> DEFINE n == ctr_number(r)
             m == ctr_out[n] % Turn(r)
  <2>1. n \in 0 .. 2 /\ Turn(r) \in Turns /\ Every(r) \in {1, 3, 5}
    BY RateFacts
  <2>2. m \in Nat /\ ctr_internal[n] \in 1 .. Every(r)
    BY <1>1, <2>1, Masked DEF CounterTypes, Every, Turns
  <2>3. since[r] = 0 /\ r \notin fired
    BY DEF Rates
  <2> HIDE DEF m, n
  <2>4. m * Every(r) + (Every(r) - ctr_internal[n]) >= 0
    BY <2>1, <2>2
  <2> QED BY <2>3, <2>4 DEF Paced, Phase, m, n
<1> QED BY <1>1, <1>2 DEF CounterInv

\* A sample takes every rate's history along with its phase.
LEMMA RunPaced ==
  ASSUME CounterInv, ctr_run, NEW r \in 1 .. 31
  PROVE  Paced(r)'
<1> DEFINE ph == Phase(r, ctr_out, ctr_internal)
           ph2 == Phase(r, ctr_out', ctr_internal')
<1>1. /\ ph \in Nat /\ ph < Period(r)
      /\ ph2 = IF ph + 1 = Period(r) THEN 0 ELSE ph + 1
      /\ r \in Fires <=> ph2 = 0
  BY PhaseBounds, RateStep DEF CounterInv
<1>2. since[r] \in Nat /\ since[r] <= ph /\ (r \in fired => since[r] = ph)
  BY DEF CounterInv, CounterTypes, Paced
<1>3. since'[r] = IF r \in Fires THEN 0 ELSE since[r] + 1
  BY DEF ctr_run, Rates
<1>4. r \in fired' <=> r \in fired \/ r \in Fires
  BY DEF ctr_run
<1>5. Paced(r)' <=> since'[r] <= ph2 /\ (r \in fired' => since'[r] = ph2)
  BY DEF Paced, Phase, Turn, Every, ctr_number, ctr_mask, ctr_rate
<1> HIDE DEF ph, ph2
<1> QED BY <1>1, <1>2, <1>3, <1>4, <1>5

\* The counters stay in range and no rate is further from its last firing than its
\* phase, exactly as far once it has fired.
LEMMA CounterInvariance == Spec => []CounterInv
<1>1. Init => CounterInv
  BY StartOver DEF Init
<1>2. (Init)' => CounterInv'
  BY <1>1, PTL
<1>3. CounterInv /\ [Next]_vars => CounterInv'
  <2> SUFFICES ASSUME CounterInv, [Next]_vars PROVE CounterInv'
    OBVIOUS
  <2>1. CASE ctr_run
    BY <2>1, RunTypes, RunPaced DEF CounterInv
  <2>2. CASE ctr_init
    BY <1>2, <2>2 DEF ctr_init, Init, InternalInit, OutInit,
      Rates, Low
  <2>3. CASE UNCHANGED vars
    BY <2>3 DEF vars, CounterInv, CounterTypes, Paced, Phase, Turn, Every,
      ctr_number, ctr_mask, ctr_rate
  <2> QED BY <2>1, <2>2, <2>3 DEF Next
<1> QED BY <1>1, <1>3, PTL DEF Spec

\* Every rate fires within its period, the first time after a restore included: no
\* envelope that ctr_read paces is left standing.
THEOREM NoRateLate == Spec => []NeverLate
<1>1. CounterInv => NeverLate
  <2> SUFFICES ASSUME CounterInv PROVE NeverLate
    OBVIOUS
  <2>1. ASSUME NEW r \in 1 .. 31 PROVE since[r] < Period(r)
    <3>1. since[r] \in Nat /\ since[r] <= Phase(r, ctr_out, ctr_internal)
      BY DEF CounterInv, CounterTypes, Paced
    <3>2. /\ Phase(r, ctr_out, ctr_internal) \in Nat
          /\ Phase(r, ctr_out, ctr_internal) < Period(r)
      BY PhaseBounds DEF CounterInv
    <3>3. Period(r) \in Nat
      BY RateFacts DEF Turns
    <3> QED BY <3>1, <3>2, <3>3
  <2> QED BY <2>1 DEF CounterInv, CounterTypes, NeverLate
<1> QED BY <1>1, CounterInvariance, PTL

\* From one firing of a rate to the next is exactly its period: ctr_read's mask and
\* countdown agree once in a period, for the counters of any restore.
THEOREM RatesKeepTime == Spec => OnPeriod
<1>1. ASSUME CounterInv, ctr_run
      PROVE  \A r \in Fires \cap fired : since[r] + 1 = Period(r)
  <2> SUFFICES ASSUME NEW r \in Fires \cap fired
               PROVE  since[r] + 1 = Period(r)
    OBVIOUS
  <2>1. r \in 1 .. 31
    <3>1. fired \subseteq 1 .. 31
      BY <1>1 DEF CounterInv, CounterTypes
    <3> QED BY <3>1
  <2>2. since[r] = Phase(r, ctr_out, ctr_internal) /\ since[r] \in Nat
    BY <1>1, <2>1 DEF CounterInv, CounterTypes, Paced
  <2>3. Phase(r, ctr_out', ctr_internal') = 0
    BY <1>1, <2>1, RateStep DEF CounterInv
  <2>4. Phase(r, ctr_out, ctr_internal) + 1 # 0
    BY <2>2
  <2> QED BY <1>1, <2>1, <2>2, <2>3, <2>4, RateStep DEF CounterInv
<1>2. CounterInv /\ [Next]_vars =>
        [ctr_run => \A r \in Fires \cap fired : since[r] + 1 = Period(r)]_vars
  BY <1>1
<1> QED BY <1>2, CounterInvariance, PTL DEF Spec, OnPeriod

\* The voice's abstraction of ctr_read allows what the counters answer: rate 31
\* fires in every sample, rate 0 in none.
THEOREM CountersMayFire ==
  Spec =>
    [][ctr_run => \A r \in Rates :
         IF r \in Fires THEN TRUE \in Voice!MayFire(r) ELSE FALSE \in Voice!MayFire(r)]_vars
<1>1. ASSUME CounterInv, ctr_run
      PROVE  \A r \in Rates :
               IF r \in Fires THEN TRUE \in Voice!MayFire(r) ELSE FALSE \in Voice!MayFire(r)
  <2>1. 0 \notin Fires
    BY DEF Fires, ctr_read
  <2>2. 31 \in Fires
    <3>1. Period(31) = 1
      BY DEF Period, ctr_mask, ctr_number, ctr_rate
    <3>2. /\ Phase(31, ctr_out, ctr_internal) \in Nat
          /\ Phase(31, ctr_out, ctr_internal) < 1
      BY <1>1, <3>1, PhaseBounds DEF CounterInv
    <3>3. Phase(31, ctr_out, ctr_internal) + 1 = 1
      BY <3>2
    <3> QED BY <1>1, <3>1, <3>3, RateStep DEF CounterInv
  <2>3. TRUE \in Voice!MayFire(31) /\ FALSE \in Voice!MayFire(0)
    BY DEF Voice!MayFire
  <2>4. \A r \in Rates \ {0, 31} : TRUE \in Voice!MayFire(r) /\ FALSE \in Voice!MayFire(r)
    BY DEF Voice!MayFire
  <2> QED BY <2>1, <2>2, <2>3, <2>4
<1>2. CounterInv /\ [Next]_vars =>
        [ctr_run => \A r \in Rates :
           IF r \in Fires THEN TRUE \in Voice!MayFire(r) ELSE FALSE \in Voice!MayFire(r)]_vars
  BY <1>1
<1> QED BY <1>2, CounterInvariance, PTL DEF Spec
=============================================================================
