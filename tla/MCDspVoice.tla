----------------------------- MODULE MCDspVoice -----------------------------
(* Instances of DspVoice for TLC.  Source 0 is two blocks that loop to the     *)
(* second, source 1 a block and a last block that does not loop, source 2 a    *)
(* single block that loops to the start of source 0; the last block of source  *)
(* 0 sits across the end of memory.                                            *)
EXTENDS DspVoice, TLC

MCSrcn == 0 .. 2
MCBase == 0 :> 65520 @@ 1 :> 27 @@ 2 :> 45
MCLoop == 0 :> 65529 @@ 1 :> 27 @@ 2 :> 65520
MCBlocks == {65520, 65529, 27, 36, 45}
MCHeader == [a \in Addr |-> CASE a \in {65529, 45} -> 3 [] a = 36 -> 1 [] OTHER -> 0]

\* Two scenes.  The walk: three sources, two pitches, direct gain at a low level.
\* The envelope at its full width: one source, a pitch that never decodes, ADSR with a
\* fast attack and a linear fall.
MCPitches == {0, 4096, 12288}
Quiet == <<0, 0, 1>>
MCShapes == {Quiet, <<255, 191, 0>>, <<0, 0, 158>>}

Walks == shape = Quiet /\ pitch # 0
Swells == shape # Quiet /\ pitch = 0 /\ srcn = 0
SameScene == IF Walks THEN Walks' ELSE Swells'

\* Files that start the voice, and one that finds it keyed off, reset and ended.
MCFiles ==
  {[kon |-> TRUE, koff |-> FALSE, endx |-> FALSE, reset |-> FALSE,
    srcn |-> 0, pitch |-> 4096, shape |-> Quiet],
   [kon |-> FALSE, koff |-> TRUE, endx |-> TRUE, reset |-> TRUE,
    srcn |-> 2, pitch |-> 12288, shape |-> Quiet],
   [kon |-> TRUE, koff |-> FALSE, endx |-> FALSE, reset |-> FALSE,
    srcn |-> 0, pitch |-> 0, shape |-> <<255, 191, 0>>]}
=============================================================================
