------------------------------ MODULE DspMixer ------------------------------
(***************************************************************************)
(* What src/dsp.c does with the samples of the voices: panning, blending   *)
(* with saturation, the echo's FIR filter and feedback, and the volumes.   *)
(* A stereo sample is <<left, right>>; registers are bytes.                *)
(***************************************************************************)
EXTENDS DspBrr

Both == 1 .. 2

silence == <<0, 0>>

sample_scale(s, v) == (s * Int8(v)) \div 128

pan(s, voll, volr) == <<sample_scale(s, voll), sample_scale(s, volr)>>

sample_blend(a, b) == [c \in Both |-> clamp16(a[c] + b[c])]

\* Mutant: the echo is fed back whole.
sample_blend_all(a, b, scale) == [c \in Both |-> clamp16(a[c] + b[c])]

sample_blend_scale8(a, b, scale) == [c \in Both |-> clamp16(a[c] + sample_scale(b[c], scale))]

\* The samples of the voices in on, blended voice by voice, saturating at each.
Blend(samples, on) ==
  LET sum[i \in 0 .. 8] ==
        IF i = 0 THEN silence
        ELSE IF i - 1 \in on THEN sample_blend(sum[i - 1], samples[i - 1])
        ELSE sum[i - 1]
  IN  sum[8]

\* The sum of the eight taps, each scaled alone; the low bit is dropped.
FirSum(taps, coeff) ==
  LET sum[i \in 0 .. 8] ==
        IF i = 0 THEN 0 ELSE sum[i - 1] + ((taps[i - 1] * Int8(coeff[i - 1])) \div 64)
  IN  Even(clamp16(sum[8]))

\* The volume registers are shifted left by four and cut to eight bits: only
\* their low nibble counts.
Volume(reg) == reg * 16

Output(main, echo, mvol, evol, mute) ==
  [c \in Both |->
     IF mute THEN 0
     ELSE clamp16(sample_scale(main[c], Volume(mvol[c])) + sample_scale(echo[c], Volume(evol[c])))]
=============================================================================
