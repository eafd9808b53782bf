------------------------------ MODULE DspVoice ------------------------------
(***************************************************************************)
(* One voice of src/dsp.c: key-on and key-off polling (next_sample), the   *)
(* life of the voice (voice_run), its envelope (run_envelope and below)    *)
(* and the walk of its BRR decoder over the sample's blocks (brr_sample4). *)
(* What the decoder and the mixer do with sample values is not modelled.   *)
(*                                                                         *)
(* The eight voices share kon, koff and the registers bit by bit and do    *)
(* not touch each other's state, so one stands for all.                    *)
(***************************************************************************)
EXTENDS Integers

CONSTANTS
  Header,   \* Header[a]: BRR_FLAGS of the byte of RAM at address a
  Srcn,     \* the source numbers the voice's SRCN register may hold
  Base,     \* Base[n]: the first word of directory entry n
  Loop,     \* Loop[n]: the second word of directory entry n
  Blocks,   \* where the BRR blocks of those sources start
  Pitches,  \* the values of the voice's pitch registers
  Shapes,   \* the values <<adsr1, adsr2, gain>> of its envelope registers
  Files     \* the registers of the files that are loaded: what dsp_restore copies

Addr == 0 .. 65535
Byte == 0 .. 255
Level == 0 .. 2047       \* eleven bits, the envelope
Pitch == 0 .. 16383      \* fourteen
Positions == 32768
Position == 0 .. Positions - 1   \* fifteen, the interpolator

END == 1    \* BRR_END, bit 0, without BRR_LOOP
HasEnd(flags) == flags \in {1, 3}

BlockSize == 9

ASSUME HeaderAssumption == Header \in [Addr -> 0 .. 3]
\* A block without the end flag is followed by another.
ASSUME BlocksAssumption ==
  /\ Blocks \subseteq Addr
  /\ \A a \in Blocks : ~HasEnd(Header[a]) => (a + BlockSize) % 65536 \in Blocks
ASSUME DirAssumption == Base \in [Srcn -> Blocks] /\ Loop \in [Srcn -> Blocks]
ASSUME PitchAssumption == Pitches \subseteq Pitch
ASSUME ShapeAssumption == Shapes \subseteq Byte \X Byte \X Byte
ASSUME FilesAssumption ==
  Files \subseteq [kon : BOOLEAN, koff : BOOLEAN, endx : BOOLEAN, reset : BOOLEAN,
                   srcn : Srcn, pitch : Pitches, shape : Shapes]

VARIABLES
  \* Registers, written by the CPU: the voice's bit of KON, KOFF and ENDX, the
  \* soft reset of FLG, and the voice's own.
  REG_KON, REG_KOFF, REG_ENDX, soft_reset, srcn, pitch, shape,
  \* Globals: the voice's bit of kon and koff, and toggle.
  kon, koff, toggle,
  \* struct vstate.
  env, env_mode, attack_delay, brr_addr, brr_off, buf_pos, interp_pos,
  \* History: the bit of REG_KON at the last poll.
  polled

regs == <<REG_KON, REG_KOFF, soft_reset, srcn, pitch, shape>>
keys == <<kon, koff, toggle, polled>>
vstate == <<env, env_mode, attack_delay, brr_addr, brr_off, buf_pos, interp_pos>>
vars == <<regs, REG_ENDX, keys, vstate>>

Registers ==
  /\ REG_KON \in BOOLEAN /\ REG_KOFF \in BOOLEAN /\ REG_ENDX \in BOOLEAN
  /\ soft_reset \in BOOLEAN /\ srcn \in Srcn /\ pitch \in Pitches /\ shape \in Shapes

\* The globals start as zeroes, dsp_restore copies the registers of the first file.
Init ==
  /\ \E f \in Files :
       /\ REG_KON = f.kon /\ REG_KOFF = f.koff /\ REG_ENDX = f.endx
       /\ soft_reset = f.reset /\ srcn = f.srcn /\ pitch = f.pitch /\ shape = f.shape
  /\ kon = FALSE /\ koff = FALSE /\ toggle = FALSE /\ polled = FALSE
  /\ env = 0 /\ env_mode = "release" /\ attack_delay = 0
  /\ brr_addr = 0 /\ brr_off = 0 /\ buf_pos = 0 /\ interp_pos = 0

-----------------------------------------------------------------------------
(* The envelope                                                            *)

adsr1 == shape[1]
adsr2 == shape[2]
gain == shape[3]

UsesAdsr == adsr1 >= 128

SustainTarget == IF UsesAdsr THEN adsr2 \div 32 ELSE gain \div 32

Fall(e) == e - (e \div 256 + 1)

\* The value the envelope moves to in mode m from e, and the rate it moves at.
AdsrEnv(m, e) ==
  CASE m = "attack"  -> IF adsr1 % 16 = 15 THEN e + 1024 ELSE e + 32
    [] m = "decay"   -> Fall(e)
    [] m = "sustain" -> Fall(e)

AdsrRate(m) ==
  CASE m = "attack"  -> 2 * (adsr1 % 16) + 1
    [] m = "decay"   -> 16 + 2 * ((adsr1 \div 16) % 8)
    [] m = "sustain" -> adsr2 % 32

GainEnv(e) ==
  IF gain < 128 THEN gain * 16
  ELSE CASE (gain \div 32) % 4 = 0 -> e - 32
         [] (gain \div 32) % 4 = 1 -> Fall(e)
         [] OTHER -> e + 32

GainRate == IF gain < 128 THEN 31 ELSE gain % 32

NextEnv(m, e) == IF UsesAdsr THEN AdsrEnv(m, e) ELSE GainEnv(e)
Rate(m) == IF UsesAdsr THEN AdsrRate(m) ELSE GainRate

Clamp(e) == IF e < 0 THEN 0 ELSE IF e > 2047 THEN 2047 ELSE e

\* What ctr_read may answer for a rate: DspCounter has the counters themselves.
MayFire(r) == CASE r = 31 -> {TRUE} [] r = 0 -> {FALSE} [] OTHER -> BOOLEAN

\* The mode after the sample: the sustain level is compared before the clamp,
\* and a rising envelope that passes the top starts its decay.
NextMode(m, e) ==
  CASE m = "decay" /\ NextEnv(m, e) \div 256 = SustainTarget -> "sustain"
    [] m = "attack" /\ NextEnv(m, e) \notin Level -> "decay"
    [] OTHER -> m

\* Mutant: release adds instead of taking away while the envelope is large.
ReleasedUp(e) == IF e > 8 THEN e + 8 ELSE 0

\* Mutant: the envelope stops short of nought.
ReleasedStuck(e) == IF e > 8 THEN e - 8 ELSE e

Released(e) == IF e > 8 THEN e - 8 ELSE 0

run_envelope(m, e) ==
  IF m = "release" THEN env_mode' = m /\ env' = Released(e)
  ELSE /\ env_mode' = NextMode(m, e)
       /\ \E fires \in MayFire(Rate(m)) :
            env' = IF fires THEN Clamp(NextEnv(m, e)) ELSE e

-----------------------------------------------------------------------------
(* voice_run, stage by stage, from the state before the sample             *)

Delayed == attack_delay > 0
Starting == attack_delay = 5

\* next_sample polls KON and KOFF every other sample; a bit of kon counts as new
\* unless kon had it.
NewKon(reg, old) == reg /\ ~old

Poll ==
  /\ toggle' = ~toggle
  /\ IF toggle'
     THEN UNCHANGED <<kon, koff, polled>>
     ELSE kon' = NewKon(REG_KON, kon) /\ koff' = REG_KOFF /\ polled' = REG_KON

KeyedOn == ~toggle' /\ kon'
KeyedOff == ~toggle' /\ koff'

\* The directory entry is read before attack_delay changes: the loop address is
\* only used from the first sample on that starts without a delay.
NextBrrAddr == IF Delayed THEN Base[srcn] ELSE Loop[srcn]

\* The header read at the start of the sample; a starting voice drops it.
Hdr == IF Starting THEN 0 ELSE Header[brr_addr]

\* A starting voice goes to the first block.
StartAddr == IF Starting THEN NextBrrAddr ELSE brr_addr
\* Mutant: the start of a voice keeps where the last one was in its block.
StartOffKept == brr_off

StartOff == IF Starting THEN 1 ELSE brr_off
StartBuf == IF Starting THEN 0 ELSE buf_pos

\* For four of its five samples of delay the voice decodes ahead.
StartInterp == IF ~Delayed THEN interp_pos
               ELSE IF attack_delay - 1 <= 3 THEN 16384 ELSE 0

\* Mutant: a block that ends without looping is taken for one that loops.
CutOnReset == soft_reset

\* Soft reset, or the header of a last block that does not loop.
Cut == soft_reset \/ Hdr = END

EnvBefore == IF Delayed \/ Cut THEN 0 ELSE env

\* Mutant: key-off wins over key-on.
ModeBeforeOff == IF Cut \/ KeyedOff THEN "release" ELSE IF KeyedOn THEN "attack" ELSE env_mode

\* Key-on wins over key-off.
ModeBefore == IF KeyedOn THEN "attack" ELSE IF Cut \/ KeyedOff THEN "release" ELSE env_mode

DelayAfter == IF KeyedOn THEN 5 ELSE IF Delayed THEN attack_delay - 1 ELSE 0

\* The envelope runs in a sample that ends without a delay.
Envelope ==
  IF attack_delay' = 0 THEN run_envelope(ModeBefore, EnvBefore)
  ELSE env_mode' = ModeBefore /\ env' = EnvBefore

\* voice_run returns early: nothing is decoded, ENDX and the pitch stay.
Silent == attack_delay' = 0 /\ env_mode' = "release" /\ env' = 0

\* Mutant: the position just past the group counts as still in it.
DecodesLate == StartInterp > 16384

\* Four samples, two bytes, are decoded once the interpolator has used as many.
Decodes == StartInterp >= 16384

BufSize == 12
\* Mutant: the group that fills the buffer does not wrap it.
NextBufLate(p) == IF p + 4 > BufSize THEN 0 ELSE p + 4

NextBuf(p) == IF p + 4 >= BufSize THEN 0 ELSE p + 4

BlockDone == StartOff + 2 >= BlockSize

\* Mutant: the header's own byte is left out of the block's size.
NextBlockShort ==
  IF HasEnd(Hdr) THEN NextBrrAddr ELSE (StartAddr + BlockSize - 1) % 65536

NextBlock ==
  IF HasEnd(Hdr) THEN NextBrrAddr ELSE (StartAddr + BlockSize) % 65536

Walk ==
  IF Silent \/ ~Decodes
  THEN brr_addr' = StartAddr /\ brr_off' = StartOff /\ buf_pos' = StartBuf
  ELSE /\ buf_pos' = NextBuf(StartBuf)
       /\ brr_off' = IF BlockDone THEN 1 ELSE StartOff + 2
       /\ brr_addr' = IF BlockDone THEN NextBlock ELSE StartAddr

\* The pitch of a delayed voice is nought; the position saturates.
NextInterp ==
  LET p == (StartInterp % 16384) + (IF Delayed THEN 0 ELSE pitch)
  IN  IF p > 32767 THEN 32767 ELSE p

Interp == interp_pos' = IF Silent THEN StartInterp ELSE NextInterp

\* ENDX is set at the end of a last block and cleared by a key-on.
Endx ==
  REG_ENDX' = IF Silent THEN REG_ENDX
              ELSE /\ attack_delay' # 5
                   /\ REG_ENDX \/ (Decodes /\ BlockDone /\ HasEnd(Hdr))

Sample ==
  /\ Poll
  /\ attack_delay' = DelayAfter
  /\ Envelope
  /\ Walk
  /\ Interp
  /\ Endx
  /\ UNCHANGED regs

-----------------------------------------------------------------------------
(* Register stores, and another file                                       *)

StoreKeys ==
  /\ REG_KON' \in BOOLEAN /\ REG_KOFF' \in BOOLEAN
  /\ UNCHANGED <<REG_ENDX, soft_reset, srcn, pitch, shape, keys, vstate>>

StoreFlg ==
  /\ soft_reset' = ~soft_reset
  /\ UNCHANGED <<REG_KON, REG_KOFF, REG_ENDX, srcn, pitch, shape, keys, vstate>>

StoreVoice ==
  /\ srcn' \in Srcn /\ pitch' \in Pitches /\ shape' \in Shapes
  /\ UNCHANGED <<REG_KON, REG_KOFF, REG_ENDX, soft_reset, keys, vstate>>

\* Any store to ENDX clears it.
StoreEndx == REG_ENDX' = FALSE /\ UNCHANGED <<regs, keys, vstate>>

\* dsp_restore for the next file replaces the registers and nothing else here.
dsp_restore ==
  /\ \E f \in Files :
       /\ REG_KON' = f.kon /\ REG_KOFF' = f.koff /\ REG_ENDX' = f.endx
       /\ soft_reset' = f.reset /\ srcn' = f.srcn /\ pitch' = f.pitch /\ shape' = f.shape
  /\ UNCHANGED <<keys, vstate>>

Next == Sample \/ StoreKeys \/ StoreFlg \/ StoreVoice \/ StoreEndx \/ dsp_restore

Spec == Init /\ [][Next]_vars

\* The CPU loop runs the DSP every 32 cycles for as long as it runs.
FairSpec == Spec /\ WF_vars(Sample)

-----------------------------------------------------------------------------
(* Properties                                                              *)

Modes == {"attack", "decay", "sustain", "release"}

Flags == kon \in BOOLEAN /\ koff \in BOOLEAN /\ toggle \in BOOLEAN /\ polled \in BOOLEAN

\* Types.  The envelope fits 11 bits; interp_pos >> 12 is at most 7 and buf_pos at
\* most 8, so that wrap12's assertion (val <= 8 + 7 + 3) holds; brr_off is 0 only
\* before the voice was first keyed on.
TypeOK ==
  /\ Registers
  /\ Flags
  /\ env \in Level /\ env_mode \in Modes /\ attack_delay \in 0 .. 5
  /\ brr_addr \in Addr /\ brr_off \in {0, 1, 3, 5, 7}
  /\ buf_pos \in {0, 4, 8} /\ interp_pos \in Position

\* While a keyed-on voice waits it is silent and decodes ahead in step: after
\* its n-th sample of delay n - 1 groups of four are decoded, from the start of
\* the block into the start of the buffer, whatever is stored meanwhile.
PrefillInStep ==
  attack_delay \in 1 .. 4 =>
    /\ env = 0
    /\ brr_off = 1 + 2 * (4 - attack_delay)
    /\ buf_pos = 4 * ((4 - attack_delay) % 3)

\* Once keyed on, the decoder takes a header only from the start of a block that
\* the directory and the blocks' own end flags lead to, however the source
\* number changes and key-ons interrupt a block.
OnBlock == brr_off # 0 => brr_addr \in Blocks

\* A released voice only fades: it gets louder only by a new key-on.
ReleasedOnlyFades ==
  [][(env_mode = "release" /\ env_mode' = "release") => env' <= env]_vars

\* A key-on bit that is set when polled and was clear when last polled starts the
\* voice: its five samples of delay begin, and ENDX is clear.
KeyOnHeard ==
  [][(Sample /\ ~toggle' /\ REG_KON /\ ~polled)
       => (attack_delay' = 5 /\ env_mode' = "attack" /\ ~REG_ENDX')]_vars

\* ENDX rises only at the end of a last block that loops: a sample that just ends
\* does not report it, not even when its only block is decoded during the delay.
EndxMeansLoop ==
  [][(Sample /\ ~REG_ENDX /\ REG_ENDX') => Header[brr_addr] = 3]_vars

\* A released voice falls silent, unless it is keyed on.
ReleaseEnds ==
  (env_mode = "release" /\ attack_delay = 0) ~> (env = 0 \/ attack_delay > 0)
=============================================================================
