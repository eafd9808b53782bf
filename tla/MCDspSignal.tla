---------------------------- MODULE MCDspSignal -----------------------------
(* An instance of DspSignal for TLC.  Source 0 is two blocks, each with        *)
(* another filter, and a last one that does not loop; source 1 is a loud block *)
(* and one that overflows, which loops to itself and whose shift is past 12.   *)
EXTENDS DspSignal, DspGauss, TLC

\* A block: its header and eight bytes.
Quietly == <<36, 18, 52, 86, 120, 154, 188, 222, 240>>      \* shift 2, filter 1
Loudly == <<192, 119, 119, 119, 119, 127, 143, 119, 119>>   \* shift 12, filter 0
Curve == <<88, 33, 0, 239, 1, 254, 16, 2, 32>>              \* shift 5, filter 2
Overflow == <<223, 119, 119, 119, 119, 136, 136, 136, 136>> \* shift 13, filter 3, loops
Last == <<1, 0, 0, 0, 0, 0, 0, 0, 0>>

Data(blocks) ==
  [n \in 0 .. 9 * Len(blocks) - 1 |-> blocks[n \div 9 + 1][(n % 9) + 1]]
Song0 == Data(<<Quietly, Curve, Last>>)
Song1 == Data(<<Loudly, Overflow>>)
MCRam ==
  [a \in 0 .. 65535 |->
     IF a - 256 \in DOMAIN Song0 THEN Song0[a - 256]
     ELSE IF a - 512 \in DOMAIN Song1 THEN Song1[a - 512] ELSE 0]

MCSrcn == {0, 1}
MCBase == 0 :> 256 @@ 1 :> 512
MCLoop == 0 :> 256 @@ 1 :> 521
MCBlocks == {256, 265, 274, 512, 521}
\* Direct gain, loud and soft.
MCShapes == {<<0, 0, 127>>}

MCCoeff == [i \in 0 .. 7 |-> IF i = 7 THEN 127 ELSE IF i = 3 THEN 224 ELSE 0]
MCMix ==
  [vol |-> <<127, 128>>, mvol |-> <<7, 127>>, evol |-> <<3, 5>>, coeff |-> MCCoeff,
   efb |-> 0, eon |-> {0, 1}, mute |-> FALSE, non |-> FALSE]
MCMixes == {MCMix, [MCMix EXCEPT !.efb = 96, !.mute = TRUE], [MCMix EXCEPT !.eon = {}]}
MCOthers == {[v \in 1 .. 7 |-> IF v <= 2 THEN <<32752, -32752>> ELSE <<-9000, 7>>]}

MCFiles ==
  {[kon |-> TRUE, koff |-> FALSE, endx |-> FALSE, reset |-> FALSE,
    srcn |-> n, pitch |-> 5000, shape |-> <<0, 0, 127>>] : n \in {0, 1}}

MCImages == {[esa |-> 15, edl |-> 2, disabled |-> FALSE, mix |-> MCMix]}

\* The first store is the program's that clears KON once the voice was started, as
\* the next poll but one would start it again; the other voices sound in the middle
\* of its second block.
\* bound: a looping source is followed for MaxSamples decoded ones.
MaxSamples == 64
Schedule ==
  /\ Len(src') <= MaxSamples
  /\ (stores = 0 /\ stores' = 1) => (attack_delay = 5 /\ ~REG_KON')
  /\ sounded' # sounded => Len(src) = 20
=============================================================================
