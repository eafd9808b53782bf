----------------------------- MODULE DspSignal ------------------------------
(***************************************************************************)
(* next_sample of src/dsp.c as a whole: a voice (DspVoice) with the sample *)
(* values it decodes, interpolates and scales, mixed with what the other   *)
(* seven voices put out, and the echo (DspEcho) with the sample values in  *)
(* its ring and its filter.                                                *)
(*                                                                         *)
(* The sample data is where neither the echo nor the program writes.       *)
(***************************************************************************)
EXTENDS DspMixer

CONSTANTS
  \* DspVoice's
  Srcn, Base, Loop, Blocks, Pitches, Shapes, Files,
  \* DspEcho's
  Unit, Page, Memory, Esas, Edls, MaxAge, MaxDelay,
  Ram,        \* Ram[a]: the byte at address a, of headers and sample data
  Mixes,      \* the values of the registers of the mixer
  Images,     \* the registers of echo and mixer in the files that are loaded
  Others,     \* what the voices 1 to 7 may put out for a sample
  Garbage,    \* the words that the file leaves in the ring's memory
  MaxStores,  \* bound: register stores
  MaxOthers   \* bound: samples in which the voices 1 to 7 may sound

Addr == 0 .. 65535
ASSUME RamAssumption == Ram \in [Addr -> 0 .. 255]
\* A pitch is fourteen bits.
ASSUME PitchAssumption ==
  /\ \A p \in Pitches : p \in Nat /\ p < 16384
  /\ \A f \in Files : f.pitch \in Pitches
\* DspVoice's: no block reaches past the end of memory, where brr_byte would read on.
ASSUME BlocksAssumption ==
  /\ \A a \in Blocks : a \in Nat /\ a + 8 < 65536
  /\ \A a \in Blocks : Ram[a] % 4 \notin {1, 3} => (a + 9) % 65536 \in Blocks
  /\ Base \in [Srcn -> Blocks] /\ Loop \in [Srcn -> Blocks]
ASSUME FilesAssumption ==
  /\ Shapes \subseteq (0 .. 255) \X (0 .. 255) \X (0 .. 255)
  /\ Files \subseteq [kon : BOOLEAN, koff : BOOLEAN, endx : BOOLEAN, reset : BOOLEAN,
                      srcn : Srcn, pitch : Pitches, shape : Shapes]
\* DspEcho's, and a ring of whole words.
ASSUME EchoAssumption ==
  /\ Unit \in Nat \ {0} /\ Unit % 4 = 0 /\ Page \in Nat
  /\ Memory \in Nat \ 0 .. 3 /\ 15 * Unit <= Memory
  /\ Esas \subseteq Nat /\ Edls \subseteq Nat
  /\ MaxAge \in Nat \ 0 .. 7 /\ MaxDelay \in Nat \ {0}
ASSUME RingAssumption ==
  /\ Page % 4 = 0 /\ Memory % 4 = 0
  /\ \A w \in Garbage : w \in Nat /\ w < 65536
ASSUME MixesAssumption ==
  \A m \in Mixes :
    /\ m.vol \in [Both -> 0 .. 255] /\ m.mvol \in [Both -> 0 .. 255]
    /\ m.evol \in [Both -> 0 .. 255] /\ m.coeff \in [0 .. 7 -> 0 .. 255]
    /\ m.efb \in 0 .. 255 /\ m.eon \subseteq 0 .. 7
    /\ m.mute \in BOOLEAN /\ m.non \in BOOLEAN
ASSUME ImagesAssumption ==
  Images \subseteq [esa : Esas, edl : Edls, disabled : BOOLEAN, mix : Mixes]
\* A voice never puts out more than pan makes of the largest sample.
Loudest == 32752
ASSUME OthersAssumption == Others \subseteq [1 .. 7 -> [Both -> -Loudest .. Loudest]]
ASSUME BoundAssumption == MaxStores \in Nat /\ MaxOthers \in Nat

VARIABLES
  REG_KON, REG_KOFF, REG_ENDX, soft_reset, srcn, pitch, shape, kon, koff, toggle,
  env, env_mode, attack_delay, brr_addr, brr_off, buf_pos, interp_pos, polled,
  REG_ESA, REG_EDL, ECHO_DISABLED, esa, echo_enabled, echo_offset, echo_length, echo_ptr,
  echo_hist_pos, hist_left, hist_right, taps_left, taps_right, age, stable, written,
  mix,                  \* the registers of the mixer, a member of Mixes
  eon,                  \* next_sample's copy of EON
  buf, outx, envx,      \* struct vstate's ring of samples, and two registers
  vsample,              \* what voice_run returned
  echo_hist, words,     \* the filter's samples; the words of RAM at the slots
  echo_sample, out,     \* the sample from the filter; the sample put out
  \* History: the samples decoded since the voice was started, the pitches added
  \* since its delay; for how many samples nothing entered the echo; bounds.
  src, travelled, quiet, stores, sounded

Header == [a \in Addr |-> Ram[a] % 4]

Voice == INSTANCE DspVoice
Echo == INSTANCE DspEcho

voice == <<REG_KON, REG_KOFF, REG_ENDX, soft_reset, srcn, pitch, shape, kon, koff, toggle,
           env, env_mode, attack_delay, brr_addr, brr_off, buf_pos, interp_pos, polled>>
echo == <<REG_ESA, REG_EDL, ECHO_DISABLED, esa, echo_enabled, echo_offset, echo_length,
          echo_ptr, echo_hist_pos, hist_left, hist_right, taps_left, taps_right, age,
          stable, written>>
values == <<eon, buf, outx, envx, vsample, echo_hist, words, echo_sample, out>>
history == <<src, travelled, quiet, sounded>>
signal == <<voice, echo, mix, values, history, stores>>

Slots == {a \in 0 .. Memory - 1 : a % 4 = 0}

SignalInit ==
  /\ Voice!Init /\ Echo!Init
  /\ \E f \in Images :
       REG_ESA = f.esa /\ REG_EDL = f.edl /\ ECHO_DISABLED = f.disabled /\ mix = f.mix
  /\ eon = {} /\ outx = 0 /\ envx = 0 /\ vsample = silence
  /\ buf = [n \in 0 .. 11 |-> 0]
  /\ echo_hist = [n \in 0 .. 7 |-> silence]
  /\ \E w \in Garbage : words = [a \in Slots |-> <<w, w>>]
  /\ echo_sample = silence /\ out = silence
  /\ src = <<>> /\ travelled = 0 /\ quiet = 0 /\ stores = 0 /\ sounded = 0

-----------------------------------------------------------------------------
(* voice_run                                                               *)

\* vfilter_state: the two samples before the position in the ring.
vfilter_state == IF Voice!StartBuf > 0 THEN <<buf[Voice!StartBuf - 2], buf[Voice!StartBuf - 1]>>
                 ELSE <<buf[10], buf[11]>>

\* A delayed voice has no envelope: it is not heard.
EnvHeard == IF Voice!Delayed THEN 0 ELSE env

Heard == Points(buf, Voice!StartBuf, Voice!StartInterp)

\* A voice of noise is silent: the noise is not there yet.
Interpolated ==
  IF EnvHeard > 0 /\ ~mix.non THEN Int16(interpolate(Heard, Voice!StartInterp))
  ELSE 0

\* What voice_run returns; it returns early when a released voice is silent.
VoiceSample ==
  IF Voice!Silent THEN silence
  ELSE pan(Enveloped(Interpolated, EnvHeard), mix.vol[1], mix.vol[2])

Decoding == ~Voice!Silent /\ Voice!Decodes

\* The header is of the block that the sample found, nought for a starting voice.
FullHdr == IF Voice!Starting THEN 0 ELSE Ram[brr_addr]

Decoded ==
  Four(FullHdr, <<Ram[Voice!StartAddr + Voice!StartOff], Ram[Voice!StartAddr + Voice!StartOff + 1]>>,
       vfilter_state)

Clamped(four) == [k \in 1 .. 4 |-> clamp16(four[k])]

Decode ==
  buf' = IF ~Decoding THEN buf
         ELSE LET four == Clamped(Decoded)
              IN  [n \in 0 .. 11 |->
                     IF n \in Voice!StartBuf .. Voice!StartBuf + 3
                     THEN four[n - Voice!StartBuf + 1] ELSE buf[n]]

VoiceRun ==
  /\ outx' = OutX(Interpolated) /\ envx' = EnvX(EnvHeard) /\ vsample' = VoiceSample
  /\ Decode

\* The samples since the start, and the way from there.
Follow ==
  /\ src' = LET kept == IF Voice!Starting THEN <<>> ELSE src
            IN  IF Decoding THEN kept \o Clamped(Decoded) ELSE kept
  /\ travelled' = IF Voice!Delayed THEN 0 ELSE IF Voice!Silent THEN travelled ELSE travelled + pitch

-----------------------------------------------------------------------------
(* next_sample                                                             *)

Taps(c) ==
  [i \in 0 .. 7 |-> Echo!Tap([p \in 0 .. 7 |-> echo_hist'[p][c]], i)]

\* The two words of the slot enter the filter, halved.
FirStep ==
  /\ echo_hist' = [echo_hist EXCEPT ![echo_hist_pos'] =
       [c \in Both |-> Int16(words[echo_ptr'][c]) \div 2]]
  /\ echo_sample' = [c \in Both |-> FirSum(Taps(c), mix.coeff)]

Feedback(entering) ==
  [c \in Both |-> Even(sample_blend_scale8(entering, echo_sample', mix.efb)[c])]

EchoWrite(fed) ==
  words' = IF echo_enabled' THEN [words EXCEPT ![echo_ptr'] = [c \in Both |-> Word(fed[c])]]
           ELSE words

\* A sample for which nothing entered the echo and its ring stayed where it was.
Quiet(entering) ==
  /\ entering = silence /\ mix.efb = 0
  /\ echo_enabled' /\ esa' = esa /\ echo_length' = echo_length

Older(n) == IF n < MaxAge THEN n + 1 ELSE n

Mix(samples) ==
  LET entering == Blend(samples, eon)
  IN  /\ FirStep
      /\ EchoWrite(Feedback(entering))
      /\ out' = Output(Blend(samples, 0 .. 7), echo_sample', mix.mvol, mix.evol, mix.mute)
      /\ eon' = mix.eon
      /\ quiet' = IF Quiet(entering) THEN Older(quiet) ELSE 0

NoOthers == [v \in 1 .. 7 |-> silence]

next_sample ==
  /\ Voice!Sample /\ Echo!Sample
  /\ VoiceRun /\ Follow
  /\ \E others \in Others \cup {NoOthers} :
       /\ others # NoOthers => sounded < MaxOthers
       /\ sounded' = IF others = NoOthers THEN sounded ELSE sounded + 1
       /\ Mix([v \in 0 .. 7 |-> IF v = 0 THEN vsample' ELSE others[v]])
  /\ UNCHANGED <<mix, stores>>

-----------------------------------------------------------------------------
(* Register stores, and another file                                       *)

MayStore == stores < MaxStores /\ stores' = stores + 1 /\ UNCHANGED <<values, history>>

StoreVoiceReg ==
  /\ MayStore /\ UNCHANGED <<echo, mix>>
  /\ Voice!StoreKeys \/ Voice!StoreFlg \/ Voice!StoreVoice \/ Voice!StoreEndx

StoreEchoReg == MayStore /\ UNCHANGED <<voice, mix>> /\ Echo!Store

StoreMixReg == MayStore /\ UNCHANGED <<voice, echo>> /\ mix' \in Mixes

dsp_restore ==
  /\ MayStore /\ Voice!dsp_restore /\ Echo!Store
  /\ \E f \in Images :
       REG_ESA' = f.esa /\ REG_EDL' = f.edl /\ ECHO_DISABLED' = f.disabled /\ mix' = f.mix

SignalNext == next_sample \/ StoreVoiceReg \/ StoreEchoReg \/ StoreMixReg \/ dsp_restore

SignalSpec == SignalInit /\ [][SignalNext]_signal

-----------------------------------------------------------------------------
(* Properties                                                              *)

\* The samples a voice skips: its delay decodes four groups, one more than its
\* ring of twelve holds, so the first is never heard.
Skipped == 4

\* A voice plays its sample at its pitch: whatever the stores and the turns of its
\* ring, the four samples it will interpolate next are consecutive decoded ones, as
\* far from its start as the pitches since then add up to.
PlaysAtPitch ==
  (attack_delay = 0 /\ src # <<>>) =>
    LET n == Skipped + travelled \div 4096
    IN  /\ n + 4 <= Len(src)
        /\ Points(buf, buf_pos, interp_pos) = SubSeq(src, n + 1, n + 4)
        /\ interp_pos % 4096 = travelled % 4096

\* The echo dies out: once nothing has entered a ring without feedback for a turn of
\* it and the eight taps of the filter, what comes out is silence.
EchoDiesOut == (quiet >= Echo!Slots + 8 /\ Echo!Slots + 8 < MaxAge) => echo_sample = silence

\* Interpolating never wraps around 16 bits, unless one of the four samples is within
\* 70 of the largest: what is heard has the sign of what was decoded.
Loud == 32700
InterpolationFits ==
  (\A k \in 1 .. 4 : Heard[k] \in -Loud .. Loud)
    => Int16(interpolate(Heard, Voice!StartInterp)) = interpolate(Heard, Voice!StartInterp)
=============================================================================
