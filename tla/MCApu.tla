------------------------------- MODULE MCApu -------------------------------
(* Small instances of Apu for TLC.                                         *)
EXTENDS Apu

Image(ctrl, tdiv0, tdiv1, tout0) ==
  [r \in Reg |-> CASE r = CTRL -> ctrl
                   [] r = T0DIV -> tdiv0
                   [] r = T0DIV + 1 -> tdiv1
                   [] r = T0OUT -> tout0
                   [] r = IO0 -> 1
                   [] OTHER -> 0]

\* Two running timers with periods two and one, a counter about to wrap; one timer
\* whose period of three leaves a clock between its start and its last.
TimerSnapshots == {Image(3, 2, 1, 15)}
OneSnapshots == {Image(1, 3, 1, 0)}

\* Stores to every other kind of register too.
AllStores ==
  {<<CTRL, 4>>, <<CTRL, 177>>, <<T0DIV, 1>>, <<T0OUT, 255>>}
    \cup {<<IO0 + 3, 0>>, <<DSP_ADDR, 128>>, <<DSP_DATA, 0>>}

OneTimer == {0}
AllTimers == Timer
NoStores == {}
=============================================================================
