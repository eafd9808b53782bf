--------------------------- MODULE DspVoiceProofs ---------------------------
(***************************************************************************)
(* Proofs about DspVoice, for every memory, directory and set of register  *)
(* values that its assumptions allow.                                      *)
(***************************************************************************)
EXTENDS DspVoice, TLAPS

\* A voice that was never keyed on is silent and its interpolator short of a
\* group, so that nothing is decoded from address 0.
NeverDecoded ==
  brr_off = 0 =>
    \/ attack_delay = 5
    \/ attack_delay = 0 /\ env_mode = "release" /\ env = 0 /\ interp_pos < 16384

\* A bit of kon is one of the register at the last poll.
KonWasPolled == kon => polled

\* The inductive invariant.  OnBlock needs NeverDecoded, because a block that is
\* left without having been entered could be followed by any address.
IInv == TypeOK /\ NeverDecoded /\ PrefillInStep /\ OnBlock /\ KonWasPolled

-----------------------------------------------------------------------------
(* The registers                                                           *)

\* The range of Position, which the other lemmas leave folded.
LEMMA PositionIntro ==
  ASSUME NEW n \in Int, 0 <= n, n <= 32767
  PROVE  n \in Position
<1>1. \A m \in Int : n <= m - 1 => n \in 0 .. m - 1
  OBVIOUS
<1>2. Positions \in Int /\ n <= Positions - 1
  BY DEF Positions
<1> QED BY <1>1, <1>2 DEF Position

LEMMA PositionElim ==
  ASSUME NEW n \in Position
  PROVE  n \in Int /\ 0 <= n /\ n <= 32767
<1>1. \A m \in Int : \A k \in 0 .. m - 1 : k \in Int /\ 0 <= k /\ k <= m - 1
  OBVIOUS
<1>2. Positions \in Int /\ Positions = 32768
  BY DEF Positions
<1>3. n \in Int /\ 0 <= n /\ n <= Positions - 1
  BY <1>1, <1>2 DEF Position
<1> QED BY <1>2, <1>3

\* The envelope's registers hold bytes.
LEMMA ShapeType ==
  ASSUME TypeOK
  PROVE  adsr1 \in Byte /\ adsr2 \in Byte /\ gain \in Byte
BY ShapeAssumption DEF TypeOK, Registers, adsr1, adsr2, gain

\* A directory entry of the voice's source leads to blocks.
LEMMA NextBrrAddrType ==
  ASSUME TypeOK
  PROVE  NextBrrAddr \in Blocks
BY DirAssumption DEF TypeOK, Registers, NextBrrAddr

\* The flags of a header are two bits.
LEMMA HeaderType ==
  ASSUME NEW a \in Addr
  PROVE  Header[a] \in 0 .. 3
BY HeaderAssumption

-----------------------------------------------------------------------------
(* The envelope                                                            *)

\* A clamped envelope fits 11 bits.
LEMMA ClampType ==
  ASSUME NEW e \in Int
  PROVE  Clamp(e) \in Level
BY DEF Clamp, Level

\* In every mode but release the envelope moves to an integer.
LEMMA NextEnvType ==
  ASSUME TypeOK, NEW e \in Level, NEW m \in Modes \ {"release"}
  PROVE  NextEnv(m, e) \in Int
<1>1. Fall(e) \in Int
  BY DEF Fall, Level
<1>2. AdsrEnv(m, e) \in Int
  <2>1. m = "attack" \/ m = "decay" \/ m = "sustain"
    BY DEF Modes
  <2>2. AdsrEnv(m, e) \in {e + 1024, e + 32, Fall(e)}
    BY <2>1 DEF AdsrEnv
  <2> QED BY <1>1, <2>2 DEF Level
<1>3. GainEnv(e) \in Int
  <2>1. GainEnv(e) \in {gain * 16, e - 32, Fall(e), e + 32}
    BY DEF GainEnv
  <2> QED BY <1>1, <2>1, ShapeType DEF Byte, Level
<1> QED BY <1>2, <1>3 DEF NextEnv

\* Release takes the envelope down to nought and no lower.
LEMMA ReleasedType ==
  ASSUME NEW e \in Level
  PROVE  Released(e) \in Level /\ Released(e) <= e
BY DEF Released, Level

\* A mode other than release does not become it by itself.
LEMMA NextModeType ==
  ASSUME NEW m \in Modes \ {"release"}, NEW e
  PROVE  NextMode(m, e) \in Modes \ {"release"}
BY DEF NextMode, Modes

\* What run_envelope leaves: an 11-bit envelope, and in release one no louder.
LEMMA RunEnvelopeLemma ==
  ASSUME TypeOK, NEW m \in Modes, NEW e \in Level, run_envelope(m, e)
  PROVE  /\ env' \in Level /\ env_mode' \in Modes
         /\ env_mode' = "release" => m = "release" /\ env' = Released(e)
<1>1. CASE m = "release"
  <2>1. env_mode' = m /\ env' = Released(e)
    BY <1>1, Zenon DEF run_envelope
  <2> QED BY <1>1, <2>1, ReleasedType
<1>2. CASE m # "release"
  <2>1. env_mode' = NextMode(m, e) /\ NextMode(m, e) \in Modes \ {"release"}
    BY <1>2, NextModeType DEF run_envelope
  <2>2. env' = e \/ env' = Clamp(NextEnv(m, e))
    BY <1>2, Zenon DEF run_envelope
  <2> QED BY <1>2, <2>1, <2>2, NextEnvType, ClampType
<1> QED BY <1>1, <1>2

\* The envelope before the sample's step.
LEMMA EnvBeforeType ==
  ASSUME TypeOK
  PROVE  EnvBefore \in Level /\ EnvBefore <= env
<1>1. EnvBefore = 0 \/ EnvBefore = env
  BY Zenon DEF EnvBefore
<1>2. env \in Level
  BY DEF TypeOK
<1>3. 0 \in Level /\ 0 <= env /\ env <= env
  BY <1>2 DEF Level
<1> QED BY <1>1, <1>2, <1>3

\* The mode before the sample's step.
LEMMA ModeBeforeType ==
  ASSUME TypeOK
  PROVE  ModeBefore \in Modes
BY DEF TypeOK, ModeBefore, Modes

-----------------------------------------------------------------------------
(* A sample                                                                *)

\* The polled bits and the poll's own history.
LEMMA PollLemma ==
  ASSUME TypeOK, KonWasPolled, Poll
  PROVE  /\ kon' \in BOOLEAN /\ koff' \in BOOLEAN /\ toggle' \in BOOLEAN /\ polled' \in BOOLEAN
         /\ KonWasPolled'
<1>1. /\ REG_KON \in BOOLEAN /\ REG_KOFF \in BOOLEAN
      /\ kon \in BOOLEAN /\ koff \in BOOLEAN /\ toggle \in BOOLEAN /\ polled \in BOOLEAN
  BY DEF TypeOK, Registers, Flags
<1>2. toggle' \in BOOLEAN
  BY Zenon DEF Poll
<1>3. CASE toggle'
  <2>1. kon' = kon /\ koff' = koff /\ polled' = polled
    BY <1>3, Zenon DEF Poll
  <2> QED BY <1>1, <1>2, <2>1, Zenon DEF KonWasPolled
<1>4. CASE ~toggle'
  <2>1. kon' = NewKon(REG_KON, kon) /\ koff' = REG_KOFF /\ polled' = REG_KON
    BY <1>4, Zenon DEF Poll
  <2>2. kon' \in BOOLEAN /\ (kon' => REG_KON)
    BY <2>1, Zenon DEF NewKon
  <2> QED BY <1>1, <1>2, <2>1, <2>2, Zenon DEF KonWasPolled
<1> QED BY <1>3, <1>4, Zenon

\* The delay counts down from five, where a key-on puts it.
LEMMA DelayLemma ==
  ASSUME TypeOK, attack_delay' = DelayAfter
  PROVE  /\ attack_delay' \in 0 .. 5
         /\ attack_delay' \in 1 .. 4 => attack_delay' = attack_delay - 1
         /\ attack_delay' = 0 => attack_delay \in {0, 1} /\ ~KeyedOn
<1>1. attack_delay \in 0 .. 5
  BY DEF TypeOK
<1>2. CASE KeyedOn
  <2>1. attack_delay' = 5
    BY <1>2 DEF DelayAfter
  <2> QED BY <2>1
<1>3. CASE ~KeyedOn
  <2>1. attack_delay' = IF attack_delay > 0 THEN attack_delay - 1 ELSE 0
    BY <1>3 DEF DelayAfter, Delayed
  <2> QED BY <1>1, <1>3, <2>1
<1> QED BY <1>2, <1>3

\* The envelope fits its bits, and is nought while the voice waits.
LEMMA EnvelopeLemma ==
  ASSUME TypeOK, Envelope
  PROVE  /\ env' \in Level /\ env_mode' \in Modes
         /\ attack_delay' # 0 => env' = EnvBefore
<1>1. CASE attack_delay' = 0
  <2>1. run_envelope(ModeBefore, EnvBefore)
    BY <1>1 DEF Envelope
  <2> QED BY <1>1, <2>1, RunEnvelopeLemma, EnvBeforeType, ModeBeforeType
<1>2. CASE attack_delay' # 0
  <2>1. env_mode' = ModeBefore /\ env' = EnvBefore
    BY <1>2 DEF Envelope
  <2> QED BY <1>2, <2>1, EnvBeforeType, ModeBeforeType
<1> QED BY <1>1, <1>2

\* A voice never keyed on stays silent while it is not.
LEMMA StillLemma ==
  ASSUME TypeOK, Envelope, attack_delay' = DelayAfter, attack_delay = 0,
         env_mode = "release", env = 0, attack_delay' = 0
  PROVE  env_mode' = "release" /\ env' = 0
<1>1. ~KeyedOn
  BY DelayLemma
<1>2. ModeBefore = "release"
  BY <1>1 DEF ModeBefore
<1>3. EnvBefore = 0
  BY DEF EnvBefore
<1>4. run_envelope("release", 0)
  BY <1>2, <1>3 DEF Envelope
<1> QED BY <1>4 DEF run_envelope, Released

\* Nothing is decoded from a voice never keyed on, and what is decoded comes from
\* where the voice already was.
LEMMA DecodesLemma ==
  ASSUME TypeOK, NeverDecoded, Decodes
  PROVE  /\ brr_off # 0 /\ ~Starting
         /\ StartOff = brr_off /\ StartAddr = brr_addr /\ StartBuf = buf_pos
         /\ Hdr = Header[brr_addr]
<1>1. ~Starting
  BY DEF Starting, Decodes, StartInterp, Delayed
<1>2. brr_off # 0
  <2>1. interp_pos \in Int /\ attack_delay \in Int
    <3>1. interp_pos \in Position /\ attack_delay \in 0 .. 5
      BY DEF TypeOK
    <3> QED BY <3>1, PositionElim
  <2> QED BY <1>1, <2>1 DEF NeverDecoded, Decodes, StartInterp, Delayed, Starting
<1> QED BY <1>1, <1>2 DEF StartOff, StartAddr, StartBuf, Hdr

\* The walk stays inside a block, a group of four at a time, and from block to block
\* along the flags and the directory.
LEMMA WalkLemma ==
  ASSUME TypeOK, NeverDecoded, OnBlock, Walk
  PROVE  /\ brr_addr' \in Addr /\ brr_off' \in {0, 1, 3, 5, 7} /\ buf_pos' \in {0, 4, 8}
         /\ brr_off' # 0 => brr_addr' \in Blocks
         /\ Starting => brr_off' = 1 /\ buf_pos' = 0
         /\ brr_off' = 0 => brr_off = 0 /\ ~Starting
<1>1. /\ brr_addr \in Addr /\ brr_off \in {0, 1, 3, 5, 7} /\ buf_pos \in {0, 4, 8}
      /\ NextBrrAddr \in Blocks /\ Blocks \subseteq Addr
  BY NextBrrAddrType, BlocksAssumption DEF TypeOK
<1>2. Starting => ~Decodes
  BY DecodesLemma
<1>3. CASE Silent \/ ~Decodes
  <2>1. brr_addr' = StartAddr /\ brr_off' = StartOff /\ buf_pos' = StartBuf
    BY <1>3 DEF Walk
  <2>2. CASE Starting
    BY <1>1, <2>1, <2>2 DEF StartAddr, StartOff, StartBuf
  <2>3. CASE ~Starting
    BY <1>1, <2>1, <2>3 DEF StartAddr, StartOff, StartBuf, OnBlock
  <2> QED BY <2>2, <2>3
<1>4. CASE ~Silent /\ Decodes
  <2>1. /\ buf_pos' = NextBuf(StartBuf)
        /\ brr_off' = IF BlockDone THEN 1 ELSE StartOff + 2
        /\ brr_addr' = IF BlockDone THEN NextBlock ELSE StartAddr
    BY <1>4 DEF Walk
  <2>2. /\ brr_off # 0 /\ ~Starting /\ StartOff = brr_off /\ StartAddr = brr_addr
        /\ StartBuf = buf_pos /\ Hdr = Header[brr_addr]
    BY <1>4, DecodesLemma
  <2>3. buf_pos' \in {0, 4, 8}
    BY <1>1, <2>1, <2>2 DEF NextBuf, BufSize
  <2>4. brr_off' \in {1, 3, 5, 7}
    BY <1>1, <2>1, <2>2 DEF BlockDone, BlockSize
  <2>5. brr_addr \in Blocks
    BY <2>2 DEF OnBlock
  <2>6. NextBlock \in Blocks
    <3>1. CASE HasEnd(Hdr)
      BY <1>1, <3>1 DEF NextBlock
    <3>2. CASE ~HasEnd(Hdr)
      BY <2>2, <2>5, <3>2, BlocksAssumption DEF NextBlock
    <3> QED BY <3>1, <3>2
  <2>7. brr_addr' \in Blocks
    BY <2>1, <2>2, <2>5, <2>6
  <2> QED BY <1>1, <2>2, <2>3, <2>4, <2>7
<1> QED BY <1>3, <1>4

\* The interpolator's position saturates at fifteen bits.
LEMMA InterpLemma ==
  ASSUME TypeOK, Interp
  PROVE  interp_pos' \in Position
<1>1. interp_pos \in Position /\ pitch \in Nat
  <2>1. interp_pos \in Position /\ pitch \in Pitches
    BY DEF TypeOK, Registers
  <2>2. Pitches \subseteq Nat
    <3>1. Pitch \subseteq Nat
      BY DEF Pitch
    <3> QED BY <3>1, PitchAssumption
  <2> QED BY <2>1, <2>2
<1>2. StartInterp \in Position
  <2>1. StartInterp \in {interp_pos, 16384, 0}
    BY DEF StartInterp
  <2>2. 16384 \in Position /\ 0 \in Position
    BY PositionIntro
  <2> QED BY <1>1, <2>1, <2>2
<1>3. NextInterp \in Position
  <2>1. \A n \in Position, d \in Nat : (n % 16384) + d \in Nat
    BY PositionElim
  <2>2. PICK d \in {0, pitch} : d = IF Delayed THEN 0 ELSE pitch
    BY Zenon
  <2> DEFINE p == (StartInterp % 16384) + d
  <2>3. p \in Nat
    BY <1>1, <1>2, <2>1
  <2>4. NextInterp = IF p > 32767 THEN 32767 ELSE p
    BY <2>2 DEF NextInterp
  <2> HIDE DEF p
  <2> QED BY <2>3, <2>4, PositionIntro
<1>4. interp_pos' = StartInterp \/ interp_pos' = NextInterp
  BY Zenon DEF Interp
<1> QED BY <1>2, <1>3, <1>4, Zenon

\* A sample keeps the types.
LEMMA SampleTypeOK ==
  ASSUME IInv, Sample
  PROVE  TypeOK'
<1>1. TypeOK /\ NeverDecoded /\ OnBlock /\ KonWasPolled
  BY DEF IInv
<1>2. kon' \in BOOLEAN /\ koff' \in BOOLEAN /\ toggle' \in BOOLEAN /\ polled' \in BOOLEAN
  BY <1>1, PollLemma DEF Sample
<1>3. attack_delay' \in 0 .. 5
  BY <1>1, DelayLemma DEF Sample
<1>4. env' \in Level /\ env_mode' \in Modes
  BY <1>1, EnvelopeLemma DEF Sample
<1>5. brr_addr' \in Addr /\ brr_off' \in {0, 1, 3, 5, 7} /\ buf_pos' \in {0, 4, 8}
  BY <1>1, WalkLemma DEF Sample
<1>6. interp_pos' \in Position
  BY <1>1, InterpLemma DEF Sample
<1>7. REG_ENDX' \in BOOLEAN
  <2>1. REG_ENDX \in BOOLEAN
    BY <1>1 DEF TypeOK, Registers
  <2>2. CASE Silent
    BY <2>1, <2>2, Zenon DEF Sample, Endx
  <2>3. CASE ~Silent
    BY <2>3, Zenon DEF Sample, Endx
  <2> QED BY <2>2, <2>3
<1>8. /\ REG_KON' \in BOOLEAN /\ REG_KOFF' \in BOOLEAN /\ soft_reset' \in BOOLEAN
      /\ srcn' \in Srcn /\ pitch' \in Pitches /\ shape' \in Shapes
  BY <1>1 DEF Sample, regs, TypeOK, Registers
<1>9. Registers' /\ Flags'
  BY <1>2, <1>7, <1>8, Zenon DEF Registers, Flags
<1> QED BY <1>3, <1>4, <1>5, <1>6, <1>9 DEF TypeOK

\* A sample keeps a voice never keyed on from decoding.
LEMMA SampleNeverDecoded ==
  ASSUME IInv, Sample
  PROVE  NeverDecoded'
<1> SUFFICES ASSUME brr_off' = 0, attack_delay' # 5
             PROVE  /\ attack_delay' = 0 /\ env_mode' = "release" /\ env' = 0
                    /\ interp_pos' < 16384
  BY DEF NeverDecoded
<1>1. TypeOK /\ NeverDecoded /\ OnBlock
  BY DEF IInv
<1>2. brr_off = 0 /\ ~Starting
  BY <1>1, WalkLemma DEF Sample
<1>3. attack_delay = 0 /\ env_mode = "release" /\ env = 0 /\ interp_pos < 16384
  BY <1>1, <1>2 DEF NeverDecoded, Starting
<1>4. attack_delay' = 0
  BY <1>1, <1>3, DelayLemma DEF Sample
<1>5. env_mode' = "release" /\ env' = 0
  BY <1>1, <1>3, <1>4, StillLemma DEF Sample
<1>6. interp_pos' = interp_pos
  BY <1>3, <1>4, <1>5 DEF Sample, Interp, Silent, StartInterp, Delayed
<1> QED BY <1>3, <1>4, <1>5, <1>6

\* A sample keeps a waiting voice decoding in step.
LEMMA SamplePrefill ==
  ASSUME IInv, Sample
  PROVE  PrefillInStep'
<1> SUFFICES ASSUME attack_delay' \in 1 .. 4
             PROVE  /\ env' = 0
                    /\ brr_off' = 1 + 2 * (4 - attack_delay')
                    /\ buf_pos' = 4 * ((4 - attack_delay') % 3)
  BY DEF PrefillInStep
<1>1. TypeOK /\ NeverDecoded /\ OnBlock /\ PrefillInStep
  BY DEF IInv
<1>2. attack_delay' = attack_delay - 1 /\ attack_delay \in 2 .. 5
  <2>1. attack_delay \in 0 .. 5
    BY <1>1 DEF TypeOK
  <2> QED BY <1>1, <2>1, DelayLemma DEF Sample
<1>3. env' = 0
  <2>1. env' = EnvBefore
    BY <1>1, <1>2, EnvelopeLemma DEF Sample
  <2> QED BY <1>2, <2>1 DEF EnvBefore, Delayed
<1>4. ~Silent
  BY <1>2 DEF Silent
<1>5. CASE attack_delay = 5
  <2>1. brr_off' = 1 /\ buf_pos' = 0
    BY <1>1, <1>5, WalkLemma DEF Sample, Starting
  <2>2. attack_delay' = 4
    BY <1>2, <1>5
  <2> QED BY <1>3, <2>1, <2>2
<1>6. CASE attack_delay \in 2 .. 4
  <2>1. Decodes
    BY <1>6 DEF Decodes, StartInterp, Delayed
  <2>2. StartOff = brr_off /\ StartBuf = buf_pos
    BY <1>1, <2>1, DecodesLemma
  <2>3. buf_pos' = NextBuf(buf_pos) /\ brr_off' = IF brr_off + 2 >= 9 THEN 1 ELSE brr_off + 2
    BY <1>4, <2>1, <2>2 DEF Sample, Walk, BlockDone, BlockSize
  <2>4. brr_off = 1 + 2 * (4 - attack_delay) /\ buf_pos = 4 * ((4 - attack_delay) % 3)
    BY <1>1, <1>6 DEF PrefillInStep
  <2>5. \/ attack_delay = 4 /\ attack_delay' = 3 /\ brr_off = 1 /\ buf_pos = 0
        \/ attack_delay = 3 /\ attack_delay' = 2 /\ brr_off = 3 /\ buf_pos = 4
        \/ attack_delay = 2 /\ attack_delay' = 1 /\ brr_off = 5 /\ buf_pos = 8
    BY <1>2, <1>6, <2>4
  <2> QED BY <1>3, <2>3, <2>5 DEF NextBuf, BufSize
<1> QED BY <1>2, <1>5, <1>6

-----------------------------------------------------------------------------
(* The invariant                                                           *)

\* The registers of a file have their types.
LEMMA FileType ==
  ASSUME NEW f \in Files
  PROVE  /\ f.kon \in BOOLEAN /\ f.koff \in BOOLEAN /\ f.endx \in BOOLEAN
         /\ f.reset \in BOOLEAN /\ f.srcn \in Srcn /\ f.pitch \in Pitches /\ f.shape \in Shapes
BY FilesAssumption

\* A voice starts silent and outside every block.
LEMMA InitIInv == Init => IInv
<1> SUFFICES ASSUME Init PROVE IInv
  OBVIOUS
<1>1. TypeOK
  <2>1. Registers
    <3>1. PICK f \in Files :
            /\ REG_KON = f.kon /\ REG_KOFF = f.koff /\ REG_ENDX = f.endx
            /\ soft_reset = f.reset /\ srcn = f.srcn /\ pitch = f.pitch /\ shape = f.shape
      BY Zenon DEF Init
    <3> QED BY <3>1, FileType, Zenon DEF Registers
  <2>a. Flags
    BY Zenon DEF Init, Flags
  <2>2. env_mode \in Modes
    BY DEF Init, Modes
  <2> QED BY <2>1, <2>2, <2>a, PositionIntro DEF Init, TypeOK, Level, Addr
<1>2. NeverDecoded /\ PrefillInStep /\ OnBlock
  BY DEF Init, NeverDecoded, PrefillInStep, OnBlock
<1>3. KonWasPolled
  BY Zenon DEF Init, KonWasPolled
<1> QED BY <1>1, <1>2, <1>3 DEF IInv

\* Stores, and another file, leave the voice's own state alone.
LEMMA QuietIInv ==
  ASSUME IInv, UNCHANGED <<keys, vstate>>,
         /\ REG_KON' \in BOOLEAN /\ REG_KOFF' \in BOOLEAN /\ REG_ENDX' \in BOOLEAN,
         /\ soft_reset' \in BOOLEAN /\ srcn' \in Srcn /\ pitch' \in Pitches /\ shape' \in Shapes
  PROVE  IInv'
<1>1. /\ kon' = kon /\ koff' = koff /\ toggle' = toggle /\ polled' = polled
      /\ env' = env /\ env_mode' = env_mode /\ attack_delay' = attack_delay
      /\ brr_addr' = brr_addr /\ brr_off' = brr_off /\ buf_pos' = buf_pos
      /\ interp_pos' = interp_pos
  BY DEF keys, vstate
<1>2. TypeOK'
  <2>1. Registers'
    BY Zenon DEF Registers
  <2>2. Flags'
    BY <1>1 DEF IInv, TypeOK, Flags
  <2> QED BY <1>1, <2>1, <2>2 DEF IInv, TypeOK
<1>3. KonWasPolled'
  BY <1>1, Zenon DEF IInv, KonWasPolled
<1>4. NeverDecoded' /\ PrefillInStep' /\ OnBlock'
  BY <1>1 DEF IInv, NeverDecoded, PrefillInStep, OnBlock
<1> QED BY <1>2, <1>3, <1>4 DEF IInv

\* Every step keeps the invariant: samples by the lemmas above, the rest untouched.
LEMMA NextIInv == IInv /\ [Next]_vars => IInv'
<1> SUFFICES ASSUME IInv, [Next]_vars PROVE IInv'
  OBVIOUS
<1> USE DEF regs
<1>0. /\ REG_KON \in BOOLEAN /\ REG_KOFF \in BOOLEAN /\ REG_ENDX \in BOOLEAN
      /\ soft_reset \in BOOLEAN /\ srcn \in Srcn /\ pitch \in Pitches /\ shape \in Shapes
  BY DEF IInv, TypeOK, Registers
<1>1. CASE Sample
  <2>1. KonWasPolled'
    BY <1>1, PollLemma DEF IInv, Sample
  <2>2. OnBlock'
    BY <1>1, WalkLemma DEF IInv, Sample, OnBlock
  <2> QED BY <1>1, <2>1, <2>2, SampleTypeOK, SampleNeverDecoded, SamplePrefill DEF IInv
<1>2. CASE StoreKeys
  BY <1>0, <1>2, QuietIInv, Zenon DEF StoreKeys
<1>3. CASE StoreFlg
  BY <1>0, <1>3, QuietIInv, Zenon DEF StoreFlg
<1>4. CASE StoreVoice
  BY <1>0, <1>4, QuietIInv, Zenon DEF StoreVoice
<1>5. CASE StoreEndx
  BY <1>0, <1>5, QuietIInv, Zenon DEF StoreEndx
<1>6. CASE dsp_restore
  <2>1. PICK f \in Files :
          /\ REG_KON' = f.kon /\ REG_KOFF' = f.koff /\ REG_ENDX' = f.endx
          /\ soft_reset' = f.reset /\ srcn' = f.srcn /\ pitch' = f.pitch /\ shape' = f.shape
    BY <1>6, Zenon DEF dsp_restore
  <2>2. /\ REG_KON' \in BOOLEAN /\ REG_KOFF' \in BOOLEAN /\ REG_ENDX' \in BOOLEAN
        /\ soft_reset' \in BOOLEAN /\ srcn' \in Srcn /\ pitch' \in Pitches /\ shape' \in Shapes
    BY <2>1, FileType, Zenon
  <2> QED BY <1>6, <2>2, QuietIInv, Zenon DEF dsp_restore
<1>7. CASE UNCHANGED vars
  BY <1>0, <1>7, QuietIInv, Zenon DEF vars
<1> QED BY <1>1, <1>2, <1>3, <1>4, <1>5, <1>6, <1>7, Zenon DEF Next

\* The invariant holds throughout.
LEMMA Invariance == Spec => []IInv
BY InitIInv, NextIInv, PTL DEF Spec

-----------------------------------------------------------------------------
(* Theorems                                                                *)

\* Whatever is stored and whenever, the voice's state stays in its types: what the
\* assertion in wrap12 and the widths of struct vstate's members ask for.
THEOREM TypeCorrect == Spec => []TypeOK
<1>1. IInv => TypeOK
  BY DEF IInv
<1> QED BY <1>1, Invariance, PTL

\* A keyed-on voice that waits is silent and decodes in step with its delay.
THEOREM Prefills == Spec => []PrefillInStep
<1>1. IInv => PrefillInStep
  BY DEF IInv
<1> QED BY <1>1, Invariance, PTL

\* The decoder never leaves the blocks that the directory and the end flags lead to.
THEOREM StaysOnBlocks == Spec => []OnBlock
<1>1. IInv => OnBlock
  BY DEF IInv
<1> QED BY <1>1, Invariance, PTL

-----------------------------------------------------------------------------
(* Action properties: what each says of a sample, then of every step       *)

\* A sample that leaves a voice released leaves it no louder.
LEMMA SampleFades ==
  ASSUME IInv, Sample, env_mode' = "release"
  PROVE  env' <= env
<1>1. TypeOK /\ Envelope
  BY DEF IInv, Sample
<1>2. EnvBefore \in Level /\ EnvBefore <= env /\ ModeBefore \in Modes
  BY <1>1, EnvBeforeType, ModeBeforeType
<1>3. env \in Level /\ env' \in Level
  BY <1>1, EnvelopeLemma DEF TypeOK
<1>4. env' <= EnvBefore
  <2>1. CASE attack_delay' = 0
    <3>1. run_envelope(ModeBefore, EnvBefore)
      BY <1>1, <2>1 DEF Envelope
    <3>2. env' = Released(EnvBefore)
      BY <1>1, <1>2, <3>1, RunEnvelopeLemma
    <3> QED BY <1>2, <3>2, ReleasedType
  <2>2. CASE attack_delay' # 0
    <3>1. env' = EnvBefore
      BY <1>1, <2>2, EnvelopeLemma
    <3>2. env' <= env'
      BY <1>3 DEF Level
    <3> QED BY <3>1, <3>2
  <2> QED BY <2>1, <2>2
<1> QED BY <1>2, <1>3, <1>4 DEF Level

\* A released voice gets louder only by a key-on.
THEOREM Fades == Spec => ReleasedOnlyFades
<1>1. IInv /\ [Next]_vars
        => [(env_mode = "release" /\ env_mode' = "release") => env' <= env]_vars
  <2> SUFFICES ASSUME IInv, Next, env_mode' = "release" PROVE env' <= env
    OBVIOUS
  <2>1. env <= env
    <3>1. env \in Level
      BY DEF IInv, TypeOK
    <3> QED BY <3>1 DEF Level
  <2>2. CASE Sample
    BY <2>2, SampleFades
  <2>3. CASE ~Sample
    <3>1. UNCHANGED vstate
      BY <2>3, Zenon DEF Next, StoreKeys, StoreFlg, StoreVoice, StoreEndx, dsp_restore
    <3> QED BY <2>1, <3>1 DEF vstate
  <2> QED BY <2>2, <2>3
<1> QED BY <1>1, Invariance, PTL DEF Spec, ReleasedOnlyFades

\* A key-on bit that rises between two polls starts the voice and clears ENDX.
THEOREM HearsKeyOn == Spec => KeyOnHeard
<1>1. IInv /\ [Next]_vars
        => [(Sample /\ ~toggle' /\ REG_KON /\ ~polled)
              => (attack_delay' = 5 /\ env_mode' = "attack" /\ ~REG_ENDX')]_vars
  <2> SUFFICES ASSUME IInv, Sample, ~toggle', REG_KON, ~polled
               PROVE  attack_delay' = 5 /\ env_mode' = "attack" /\ ~REG_ENDX'
    OBVIOUS
  <2>1. KeyedOn
    <3>1. ~kon
      BY Zenon DEF IInv, KonWasPolled
    <3>2. kon' = NewKon(REG_KON, kon)
      BY Zenon DEF Sample, Poll
    <3> QED BY <3>1, <3>2, Zenon DEF NewKon, KeyedOn
  <2>2. attack_delay' = 5
    BY <2>1 DEF Sample, DelayAfter
  <2>3. env_mode' = "attack"
    <3>1. env_mode' = ModeBefore
      BY <2>2 DEF Sample, Envelope
    <3> QED BY <2>1, <3>1 DEF ModeBefore
  <2>4. ~REG_ENDX'
    <3>1. ~Silent
      BY <2>2 DEF Silent
    <3> QED BY <2>2, <3>1, Zenon DEF Sample, Endx
  <2> QED BY <2>2, <2>3, <2>4
<1> QED BY <1>1, Invariance, PTL DEF Spec, KeyOnHeard

\* ENDX is never raised by the end of a sample that does not loop.
THEOREM EndxLoops == Spec => EndxMeansLoop
<1>1. IInv /\ [Next]_vars
        => [(Sample /\ ~REG_ENDX /\ REG_ENDX') => Header[brr_addr] = 3]_vars
  <2> SUFFICES ASSUME IInv, Sample, ~REG_ENDX, REG_ENDX'
               PROVE  Header[brr_addr] = 3
    OBVIOUS
  <2>1. TypeOK /\ NeverDecoded /\ PrefillInStep
    BY DEF IInv
  <2>2. ~Silent /\ attack_delay' # 5 /\ Decodes /\ BlockDone /\ HasEnd(Hdr)
    BY Zenon DEF Sample, Endx
  <2>3. StartOff = brr_off /\ Hdr = Header[brr_addr] /\ Header[brr_addr] \in {1, 3}
    BY <2>1, <2>2, DecodesLemma DEF HasEnd
  <2>4. ~KeyedOn
    BY <2>2 DEF Sample, DelayAfter
  <2>5. attack_delay' = 0
    <3>1. attack_delay' \in 0 .. 5 /\ attack_delay \in 0 .. 5
      BY <2>1, DelayLemma DEF Sample, TypeOK
    <3>2. brr_off >= 7
      <4>1. brr_off \in {0, 1, 3, 5, 7} /\ brr_off + 2 >= 9
        BY <2>1, <2>2, <2>3 DEF BlockDone, BlockSize, TypeOK
      <4> QED BY <4>1
    <3>3. SUFFICES ASSUME attack_delay' \in 1 .. 4 PROVE FALSE
      BY <2>2, <3>1
    <3>4. attack_delay' = attack_delay - 1
      BY <2>1, <3>3, DelayLemma DEF Sample
    <3>5. attack_delay # 5
      BY <2>1, <2>2, DecodesLemma DEF Starting
    <3>6. attack_delay \in 2 .. 4
      BY <3>1, <3>3, <3>4, <3>5
    <3>7. brr_off = 1 + 2 * (4 - attack_delay)
      BY <2>1, <3>6 DEF PrefillInStep
    <3> QED BY <3>2, <3>6, <3>7
  <2>6. CASE Header[brr_addr] = 1
    <3>1. Cut
      BY <2>3, <2>6 DEF Cut, END
    <3>2. ModeBefore = "release" /\ EnvBefore = 0
      BY <2>4, <3>1 DEF ModeBefore, EnvBefore
    <3>3. run_envelope("release", 0)
      BY <2>5, <3>2 DEF Sample, Envelope
    <3>4. env_mode' = "release" /\ env' = 0
      BY <3>3 DEF run_envelope, Released
    <3> QED BY <2>2, <2>5, <3>4 DEF Silent
  <2> QED BY <2>3, <2>6
<1> QED BY <1>1, Invariance, PTL DEF Spec, EndxMeansLoop
=============================================================================
