----------------------------- MODULE ApuProofs -----------------------------
(***************************************************************************)
(* Proofs about Apu, for every set of stores, reads and snapshots.         *)
(***************************************************************************)
EXTENDS Apu, TLAPS

\* A running timer has a period and has counted less than it.
TimerInPeriod == \A i \in enabled : target[i] >= 1 /\ cycles[i] < target[i]

\* apu_ctrl_store as it is: CTRL_T2 starts timer 1, and timer 2 never runs.
RunAsStarted == enabled = Started(sram[CTRL])

\* The inductive invariant.  TimerOnTime alone is not inductive: a tick keeps
\* the age below the period only because the count is below the target
\* (TimerInPeriod), and Restore can promise a fresh age only because timer 2,
\* which a set CTRL_T2 leaves as it was, is never running (RunAsStarted).
IInv == TypeOK /\ TimerInPeriod /\ RunAsStarted /\ TimerOnTime

\* The registers apu_ctrl_store leaves are bytes.
LEMMA CtrlRegsType ==
  ASSUME NEW regs \in [Reg -> Byte], NEW byte \in Byte
  PROVE  CtrlRegs(regs, byte) \in [Reg -> Byte]
BY DEF CtrlRegs, Byte

\* The started timers are timers, timer 2 not among them, and every running
\* timer that is neither started nor stopped is timer 2.
LEMMA StartedLemma ==
  ASSUME NEW byte \in Byte
  PROVE  /\ Started(byte) \subseteq {0, 1}
         /\ \A i \in Timer : i \in Started(byte) \/ i \in Stopped(byte) \/ i = 2
<1>1. \A i \in Timer : i = 0 \/ i = 1 \/ i = 2
  BY DEF Timer
<1> QED BY <1>1 DEF Started, Stopped, Timer, CtrlT

\* After a CTRL store or a restore, exactly the started timers run, from the
\* beginning of a non-empty period.
LEMMA CtrlTimersLemma ==
  ASSUME TypeOK, 2 \notin enabled, NEW tdiv \in [Timer -> Byte], NEW byte \in Byte,
         CtrlTimers(tdiv, byte)
  PROVE  /\ cycles' \in [Timer -> 0 .. 255]
         /\ target' \in [Timer -> 0 .. 256]
         /\ enabled' = Started(byte)
         /\ enabled' \subseteq Timer
         /\ \A i \in enabled' : cycles'[i] = 0 /\ target'[i] >= 1
<1>1. enabled' = Started(byte) /\ enabled' \subseteq Timer
  <2>1. \A i \in enabled : i \in Started(byte) \/ i \in Stopped(byte)
    BY StartedLemma DEF TypeOK
  <2> QED BY <2>1, StartedLemma DEF CtrlTimers, Timer
<1>2. \A d \in Byte : Period(d) \in 1 .. 256
  BY DEF Period, Byte
<1>3. cycles' \in [Timer -> 0 .. 255] /\ \A i \in enabled' : cycles'[i] = 0
  BY <1>1 DEF CtrlTimers, TypeOK
<1>4. target' \in [Timer -> 0 .. 256] /\ \A i \in enabled' : target'[i] >= 1
  <2>1. \A i \in Started(byte) : Period(tdiv[i]) \in 1 .. 256
    BY <1>2, StartedLemma DEF Timer
  <2>2. Started(byte) \subseteq Timer
    BY StartedLemma DEF Timer
  <2>3. target' = [i \in Timer |-> IF i \in Started(byte) THEN Period(tdiv[i]) ELSE target[i]]
    BY DEF CtrlTimers
  <2>4. \A i \in Timer : target'[i] \in 0 .. 256
    BY <2>1, <2>3 DEF TypeOK
  <2> QED BY <1>1, <2>1, <2>2, <2>3, <2>4
<1> QED BY <1>1, <1>3, <1>4

\* What the program starts from satisfies the inductive invariant.
THEOREM InitIInv == Init => IInv
<1>1. ~Bit(0, CTRL_T0) /\ ~Bit(0, CTRL_T1) /\ ~Bit(0, CTRL_T2)
  BY DEF Bit, CTRL_T0, CTRL_T1, CTRL_T2
<1>2. ASSUME Init PROVE TypeOK
  <2>1. cycle \in 0 .. 127 /\ cycle % 4 = 0
    BY <1>2 DEF Init
  <2>2. sram \in [Reg -> Byte] /\ io_in \in [Port -> Byte] /\ io_out \in [Port -> Byte]
    BY <1>2 DEF Init, Byte
  <2>3. /\ cycles \in [Timer -> 0 .. 255] /\ target \in [Timer -> 0 .. 256]
        /\ age \in [Timer -> Nat] /\ unread \in [Timer -> 0 .. 15]
    BY <1>2 DEF Init
  <2>4. /\ enabled \subseteq Timer /\ show_rom \in BOOLEAN
        /\ status \in {"idle", "ready", "run", "abort"}
    BY <1>2 DEF Init
  <2> QED BY <2>1, <2>2, <2>3, <2>4 DEF TypeOK
<1>3. Init => RunAsStarted
  BY <1>1 DEF Init, RunAsStarted, Started, CTRL, Reg
<1> QED BY <1>2, <1>3 DEF Init, IInv, TimerInPeriod, TimerOnTime

\* A step that leaves the timers, their divider and the CTRL register alone.
LEMMA UntimedStep ==
  ASSUME IInv,
         UNCHANGED <<timervars, cycle, age>>,
         sram' \in [Reg -> Byte], sram'[CTRL] = sram[CTRL],
         io_out' \in [Port -> Byte], UNCHANGED <<io_in, show_rom>>,
         status' \in {status, "abort"},
         unread' \in [Timer -> 0 .. 15]
  PROVE  IInv'
<1>1. /\ cycles' = cycles /\ target' = target /\ enabled' = enabled
      /\ cycle' = cycle /\ age' = age /\ io_in' = io_in /\ show_rom' = show_rom
  BY DEF timervars
<1>2. TypeOK'
  BY <1>1 DEF IInv, TypeOK
<1>3. TimerInPeriod' /\ RunAsStarted'
  BY <1>1 DEF IInv, TimerInPeriod, RunAsStarted
<1>4. TimerOnTime'
  BY <1>1 DEF IInv, TimerOnTime
<1> QED BY <1>2, <1>3, <1>4 DEF IInv

\* Setting up from a file: the started timers have everything before them.
LEMMA RestoreStep ==
  ASSUME IInv, NEW st \in Snapshots, Restore(st)
  PROVE  IInv'
<1>1. /\ st \in [Reg -> Byte] /\ sram' = st /\ status' = "ready"
      /\ CtrlTimers(TDiv(st), st[CTRL]) /\ age' = [i \in Timer |-> 0]
      /\ io_in' = [p \in Port |-> st[IO0 + p]] /\ io_out' = io_out
      /\ unread' = [i \in Timer |-> st[T0OUT + i] % 16]
      /\ show_rom' \in BOOLEAN /\ cycle' = cycle
  BY SnapshotsAssumption DEF Restore, Bit
<1>2. TDiv(st) \in [Timer -> Byte] /\ st[CTRL] \in Byte
  BY <1>1 DEF TDiv, Timer, T0DIV, Reg, CTRL
<1>3. TypeOK /\ 2 \notin enabled
  BY StartedLemma DEF IInv, RunAsStarted, TypeOK, Reg, CTRL
<1>4. /\ cycles' \in [Timer -> 0 .. 255] /\ target' \in [Timer -> 0 .. 256]
      /\ enabled' = Started(st[CTRL]) /\ enabled' \subseteq Timer
      /\ \A i \in enabled' : cycles'[i] = 0 /\ target'[i] >= 1
  BY <1>1, <1>2, <1>3, CtrlTimersLemma
<1>5. TypeOK'
  <2>1. io_in' \in [Port -> Byte]
    BY <1>1 DEF Port, Reg, IO0
  <2>2. unread' \in [Timer -> 0 .. 15]
    <3>1. \A i \in Timer : st[T0OUT + i] \in 0 .. 255
      BY <1>1 DEF Timer, Reg, T0OUT, Byte
    <3>2. \A x \in 0 .. 255 : x % 16 \in 0 .. 15
      OBVIOUS
    <3> QED BY <1>1, <3>1, <3>2
  <2>3. io_out' \in [Port -> Byte] /\ cycle' \in 0 .. 127 /\ cycle' % 4 = 0
    BY <1>1, <1>3 DEF TypeOK
  <2>4. age' \in [Timer -> Nat]
    BY <1>1
  <2> QED BY <1>1, <1>4, <2>1, <2>2, <2>3, <2>4 DEF TypeOK
<1>6. TimerInPeriod'
  BY <1>4 DEF TimerInPeriod
<1>7. RunAsStarted'
  BY <1>1, <1>4 DEF RunAsStarted
<1>8. TimerOnTime'
  <2>1. cycle' = 0
    BY <1>1 DEF IInv, TimerOnTime, Restore
  <2>2. \A i \in enabled' : /\ Div(i) * cycles'[i] = 0
                            /\ Div(i) * target'[i] > 0
                            /\ cycle' % Div(i) = 0
                            /\ age'[i] = 0
    <3>1. TAKE i \in enabled'
    <3>2. cycles'[i] = 0 /\ target'[i] \in 1 .. 256 /\ age'[i] = 0
      BY <1>1, <1>4
    <3>3. Div(i) = 16 \/ Div(i) = 128
      BY DEF Div
    <3> QED BY <2>1, <3>2, <3>3
  <2> QED BY <2>1, <2>2 DEF TimerOnTime
<1> QED BY <1>5, <1>6, <1>7, <1>8 DEF IInv

\* Reset, entry to and return from the run loop.
LEMMA HostStep ==
  ASSUME IInv, Reset \/ Start \/ Halt
  PROVE  IInv'
<1>1. CASE Reset
  <2>1. /\ sram' = [r \in Reg |-> 0] /\ enabled' = {} /\ status' = "idle" /\ cycle' = cycle
        /\ cycle = 0
    BY <1>1 DEF Reset, IInv, TimerOnTime
  <2>2. TypeOK'
    <3>1. sram' \in [Reg -> Byte] /\ io_out' \in [Port -> Byte] /\ io_in' \in [Port -> Byte]
      BY <1>1 DEF Reset, Byte, IInv, TypeOK
    <3>2. /\ cycles' \in [Timer -> 0 .. 255] /\ target' \in [Timer -> 0 .. 256]
          /\ age' \in [Timer -> Nat] /\ unread' \in [Timer -> 0 .. 15]
      BY <1>1 DEF Reset
    <3>3. /\ enabled' \subseteq Timer /\ show_rom' \in BOOLEAN
          /\ cycle' \in 0 .. 127 /\ cycle' % 4 = 0
      BY <1>1, <2>1 DEF Reset
    <3> QED BY <2>1, <3>1, <3>2, <3>3 DEF TypeOK
  <2>3. RunAsStarted'
    BY <2>1 DEF RunAsStarted, Started, Bit, CTRL_T0, CTRL_T1, CTRL_T2, CTRL, Reg
  <2> QED BY <2>1, <2>2, <2>3 DEF IInv, TimerInPeriod, TimerOnTime
<1>2. CASE Start \/ Halt
  <2>1. /\ UNCHANGED <<regvars, age, unread>> /\ cycle' \in {cycle, 0}
        /\ status' \in {"idle", "run"}
        /\ status' = "idle" => cycle' = 0
        /\ status' = "run" => status = "ready" /\ cycle' = cycle
    BY <1>2 DEF Start, Halt
  <2>2. /\ sram' = sram /\ cycles' = cycles /\ target' = target /\ enabled' = enabled
        /\ io_in' = io_in /\ io_out' = io_out /\ show_rom' = show_rom
        /\ age' = age /\ unread' = unread
    BY <2>1 DEF regvars, timervars
  <2>3. TypeOK'
    <3>1. TypeOK
      BY DEF IInv
    <3>2. cycle' \in 0 .. 127 /\ cycle' % 4 = 0
      <4>1. CASE cycle' = cycle
        BY <3>1, <4>1 DEF TypeOK
      <4>2. CASE cycle' = 0
        BY <4>2
      <4> QED BY <2>1, <4>1, <4>2
    <3>3. status' \in {"idle", "ready", "run", "abort"}
      BY <2>1
    <3>4. /\ sram' \in [Reg -> Byte] /\ io_in' \in [Port -> Byte] /\ io_out' \in [Port -> Byte]
          /\ cycles' \in [Timer -> 0 .. 255] /\ target' \in [Timer -> 0 .. 256]
          /\ enabled' \subseteq Timer /\ show_rom' \in BOOLEAN
          /\ age' \in [Timer -> Nat] /\ unread' \in [Timer -> 0 .. 15]
      BY <2>2, <3>1 DEF TypeOK
    <3> QED BY <3>2, <3>3, <3>4 DEF TypeOK
  <2>4. TimerInPeriod' /\ RunAsStarted'
    BY <2>2 DEF IInv, TimerInPeriod, RunAsStarted
  <2>5. TimerOnTime'
    BY <2>1, <2>2 DEF IInv, TimerOnTime
  <2> QED BY <2>3, <2>4, <2>5 DEF IInv
<1> QED BY <1>1, <1>2

\* A CTRL store: the timers that run afterwards are the started ones, whose
\* age is the time since the last edge of their clock.
LEMMA StoreCtrlStep ==
  ASSUME IInv, NEW byte \in Byte, StoreCtrl(byte)
  PROVE  IInv'
<1> DEFINE regs == [sram EXCEPT ![CTRL] = byte]
<1>1. TypeOK /\ 2 \notin enabled
  BY StartedLemma DEF IInv, RunAsStarted, TypeOK, Reg, CTRL
<1>2. TDiv(sram) \in [Timer -> Byte]
  BY <1>1 DEF TypeOK, TDiv, Timer, T0DIV, Reg
<1>3. /\ sram' = CtrlRegs(regs, byte) /\ CtrlTimers(TDiv(sram), byte)
      /\ show_rom' \in BOOLEAN /\ status = "run"
      /\ age' = [i \in Timer |-> IF i \in Started(byte) THEN cycle % Div(i)
                                 ELSE IF i \in Stopped(byte) THEN 0 ELSE age[i]]
      /\ unread' = [i \in Timer |-> IF i \in Started(byte) THEN 0 ELSE unread[i]]
      /\ io_in' = io_in /\ io_out' = io_out /\ cycle' = cycle /\ status' = status
  BY DEF StoreCtrl, Bit
<1>4. /\ cycles' \in [Timer -> 0 .. 255] /\ target' \in [Timer -> 0 .. 256]
      /\ enabled' = Started(byte) /\ enabled' \subseteq Timer
      /\ \A i \in enabled' : cycles'[i] = 0 /\ target'[i] >= 1
  BY <1>1, <1>2, <1>3, CtrlTimersLemma
<1>5. regs \in [Reg -> Byte]
  BY <1>1 DEF TypeOK
<1>6. sram' \in [Reg -> Byte] /\ sram'[CTRL] = byte
  <2>1. sram' \in [Reg -> Byte]
    BY <1>3, <1>5, CtrlRegsType
  <2>2. CTRL - T0OUT \notin Started(byte)
    BY StartedLemma DEF CTRL, T0OUT
  <2>3. CtrlRegs(regs, byte)[CTRL] = regs[CTRL]
    BY <2>2 DEF CtrlRegs, CTRL, IO0, Reg
  <2>4. regs[CTRL] = byte
    BY <1>1 DEF TypeOK, CTRL, Reg
  <2> QED BY <1>3, <2>1, <2>3, <2>4
<1>7. \A i \in Timer : cycle % Div(i) \in 0 .. 127 /\ cycle % Div(i) < Div(i)
  BY <1>1 DEF Div, TypeOK
<1>8. TypeOK'
  <2>1. age' \in [Timer -> Nat]
    <3>1. age \in [Timer -> Nat]
      BY <1>1 DEF TypeOK
    <3>2. \A i \in Timer : cycle % Div(i) \in Nat
      BY <1>7
    <3> QED BY <1>3, <3>1, <3>2
  <2>2. unread' \in [Timer -> 0 .. 15]
    <3>1. unread \in [Timer -> 0 .. 15]
      BY <1>1 DEF TypeOK
    <3> QED BY <1>3, <3>1
  <2>3. /\ io_in' \in [Port -> Byte] /\ io_out' \in [Port -> Byte]
        /\ cycle' \in 0 .. 127 /\ cycle' % 4 = 0
    BY <1>1, <1>3 DEF TypeOK
  <2> QED BY <1>3, <1>4, <1>6, <2>1, <2>2, <2>3 DEF TypeOK
<1>9. TimerOnTime'
  <2>1. ASSUME NEW i \in enabled'
        PROVE  /\ age'[i] = Div(i) * cycles'[i] + (cycle' % Div(i))
               /\ age'[i] < Div(i) * target'[i]
    <3>1. /\ i \in Timer /\ cycles'[i] = 0 /\ target'[i] \in 1 .. 256
          /\ age'[i] = cycle % Div(i) /\ cycle' = cycle
      BY <1>3, <1>4
    <3>2. Div(i) = 16 \/ Div(i) = 128
      BY DEF Div
    <3>3. Div(i) * cycles'[i] = 0 /\ Div(i) * target'[i] >= Div(i)
      BY <3>1, <3>2
    <3>4. cycle % Div(i) \in 0 .. 127 /\ cycle % Div(i) < Div(i)
      BY <1>7, <3>1
    <3>5. age'[i] = cycle' % Div(i) /\ cycle' % Div(i) \in 0 .. 127 /\ cycle' % Div(i) < Div(i)
      BY <3>1, <3>4
    <3> HIDE DEF Div
    <3> DEFINE p == cycle' % Div(i)
    <3>6. age'[i] = p /\ p \in 0 .. 127 /\ p < Div(i)
      BY <3>5
    <3> HIDE DEF p
    <3>7. age'[i] = Div(i) * cycles'[i] + p /\ age'[i] < Div(i) * target'[i]
      BY <3>1, <3>2, <3>3, <3>6
    <3> QED BY <3>7 DEF p
  <2> QED BY <1>3, <2>1 DEF TimerOnTime
<1>10. TimerInPeriod' /\ RunAsStarted'
  BY <1>4, <1>6 DEF TimerInPeriod, RunAsStarted
<1> QED BY <1>8, <1>9, <1>10 DEF IInv

\* Any other access by the program.
LEMMA AccessStep ==
  ASSUME IInv,
         \/ \E s \in Stores : s[1] # CTRL /\ Store(s[1], s[2])
         \/ \E i \in LoadTimers : LoadOut(i)
         \/ LoadDspData
  PROVE  IInv'
<1> TypeOK
  BY DEF IInv
<1>1. ASSUME NEW r \in Reg, NEW byte \in Byte, r # CTRL, Store(r, byte)
      PROVE  IInv'
  <2>1. PICK q \in Reg : q # CTRL /\ sram' = [sram EXCEPT ![q] = byte]
    <3>1. CASE r = DSP_DATA /\ StoreDspData(byte)
      BY <3>1 DEF StoreDspData, DSP_DATA, CTRL, Reg
    <3>2. CASE r - IO0 \in Port /\ StorePort(r - IO0, byte)
      <4>1. sram' = [sram EXCEPT ![IO0 + (r - IO0)] = byte] /\ IO0 + (r - IO0) = r
        BY <3>2 DEF StorePort, IO0, Reg
      <4> QED BY <1>1, <4>1
    <3>3. CASE r - T0OUT \in Timer /\ StoreOut(r - T0OUT, byte)
      <4>1. sram' = [sram EXCEPT ![T0OUT + (r - T0OUT)] = byte] /\ T0OUT + (r - T0OUT) = r
        BY <3>3 DEF StoreOut, T0OUT, Reg
      <4> QED BY <1>1, <4>1
    <3>4. CASE r \in PlainReg /\ StorePlain(r, byte)
      BY <3>4, <1>1 DEF StorePlain
    <3> QED BY <1>1, <3>1, <3>2, <3>3, <3>4 DEF Store
  <2>2. sram' \in [Reg -> Byte] /\ sram'[CTRL] = sram[CTRL]
    BY <2>1 DEF TypeOK, CTRL, Reg
  <2>3. io_out' \in [Port -> Byte]
    BY <1>1 DEF Store, StoreDspData, StorePort, StoreOut, StorePlain, TypeOK
  <2>4. byte % 16 \in 0 .. 15
    BY DEF Byte
  <2>5. unread' \in [Timer -> 0 .. 15]
    <3>1. \/ unread' = unread
          \/ \E i \in Timer : unread' = [unread EXCEPT ![i] = byte % 16]
      BY <1>1 DEF Store, StoreDspData, StorePort, StoreOut, StorePlain
    <3>2. unread \in [Timer -> 0 .. 15]
      BY DEF TypeOK
    <3> QED BY <2>4, <3>1, <3>2
  <2>6. /\ UNCHANGED <<timervars, cycle, age>> /\ UNCHANGED <<io_in, show_rom>>
        /\ status' \in {status, "abort"}
    BY <1>1 DEF Store, StoreDspData, StorePort, StoreOut, StorePlain
  <2> QED BY <2>2, <2>3, <2>5, <2>6, UntimedStep
<1>2. ASSUME NEW i \in LoadTimers, LoadOut(i)
      PROVE  IInv'
  <2>1. sram' \in [Reg -> Byte] /\ sram'[CTRL] = sram[CTRL]
    <3>1. sram \in [Reg -> Byte]
      BY DEF TypeOK
    <3>2. 0 \in Byte
      BY DEF Byte
    <3>3. T0OUT # CTRL
      BY DEF T0OUT, CTRL
    <3>4. T0OUT + 0 = T0OUT /\ CTRL \in Reg
      BY DEF T0OUT, CTRL, Reg
    <3>5. sram' = [sram EXCEPT ![T0OUT] = 0]
      BY Zenon, <1>2, <3>4 DEF LoadOut, ClearedOut
    <3>6. sram' \in [Reg -> Byte]
      BY <3>1, <3>2, <3>5
    <3>7. sram'[CTRL] = sram[CTRL]
      BY <3>1, <3>3, <3>4, <3>5
    <3> QED BY <3>6, <3>7
  <2>2. unread' \in [Timer -> 0 .. 15]
    <3>1. unread' = [unread EXCEPT ![i] = 0]
      BY <1>2 DEF LoadOut
    <3>2. unread \in [Timer -> 0 .. 15] /\ i \in Timer
      BY LoadTimersAssumption DEF TypeOK
    <3>3. 0 \in 0 .. 15
      OBVIOUS
    <3> QED BY <3>1, <3>2, <3>3, Zenon
  <2>3. /\ UNCHANGED <<timervars, cycle, age>> /\ UNCHANGED <<io_in, show_rom>>
        /\ io_out' = io_out /\ status' = status
    BY <1>2 DEF LoadOut
  <2>4. io_out' \in [Port -> Byte]
    BY <2>3 DEF TypeOK
  <2> QED BY <2>1, <2>2, <2>3, <2>4, UntimedStep
<1>3. CASE LoadDspData
  <2>1. /\ UNCHANGED <<timervars, cycle, age>> /\ UNCHANGED <<io_in, show_rom>>
        /\ sram' = sram /\ io_out' = io_out /\ unread' = unread /\ status' = "abort"
    BY <1>3 DEF LoadDspData, regvars
  <2> QED BY <2>1, UntimedStep DEF TypeOK
<1>4. \A s \in Stores : s[1] \in Reg /\ s[2] \in Byte
  BY StoresAssumption
<1> QED BY <1>1, <1>2, <1>3, <1>4

\* The divider advances by four and every clock sees each of its edges.
LEMMA PhaseLemma ==
  ASSUME NEW c \in 0 .. 127, c % 4 = 0, NEW D \in {16, 128}
  PROVE  /\ (c + 4) % 128 \in 0 .. 127
         /\ ((c + 4) % 128) % 4 = 0
         /\ c % D \in 0 .. 127 /\ c % D < D
         /\ ((c + 4) % 128) % D = 0 => (c % D) + 4 = D
         /\ ((c + 4) % 128) % D # 0 => /\ ((c + 4) % 128) % D = (c % D) + 4
                                       /\ (c % D) + 4 < D
         /\ (c + 4) % 16 = ((c + 4) % 128) % 16
         /\ (c + 4) % 16 # 0 => ((c + 4) % 128) % D # 0
<1>1. CASE D = 16
  BY <1>1
<1>2. CASE D = 128
  BY <1>2
<1> QED BY <1>1, <1>2

\* Every timer's clock divides the processor's by 16 or by 128.
LEMMA DivLemma == \A i : Div(i) \in {16, 128}
BY DEF Div

\* The age g of a running timer with n of t clocks counted, when its
\* instruction retires without an edge of its clock (phase p to q), with an
\* edge that does not complete the period, and with one that does.
AgeFact(D, n, t, p, q, g) ==
  (/\ n \in 0 .. 255 /\ t \in 1 .. 256 /\ p \in 0 .. 127 /\ q \in Int /\ g \in Nat
   /\ n < t /\ p < D /\ g = D * n + p) =>
     /\ (q = p + 4 /\ q < D) => g + 4 = D * n + q /\ g + 4 < D * t
     /\ (p + 4 = D /\ n + 1 < t) => g + 4 = D * (n + 1) + 0 /\ g + 4 < D * t
     /\ (p + 4 = D /\ n + 1 >= t) => g + 4 = D * t
     /\ 0 = D * 0 + 0 /\ 0 < D * t

\* AgeFact holds of both divisors.
LEMMA AgeLemma == \A D, n, t, p, q, g : D \in {16, 128} => AgeFact(D, n, t, p, q, g)
<1>1. \A n, t, p, q, g : AgeFact(16, n, t, p, q, g)
  BY DEF AgeFact
<1>2. \A n, t, p, q, g : AgeFact(128, n, t, p, q, g)
  BY DEF AgeFact
<1> QED BY <1>1, <1>2

\* What the invariant says of one running timer.
LEMMA RunningTimer ==
  ASSUME IInv, status = "run", NEW i \in enabled
  PROVE  /\ i \in Timer /\ cycles[i] \in 0 .. 255 /\ target[i] \in 1 .. 256
         /\ cycles[i] < target[i]
         /\ cycle \in 0 .. 127 /\ cycle % 4 = 0
         /\ age[i] \in Nat /\ age[i] = Div(i) * cycles[i] + (cycle % Div(i))
BY DEF IInv, TypeOK, TimerInPeriod, TimerOnTime

\* An instruction that retires without a clock edge keeps the invariant.
LEMMA RetireQuietStep ==
  ASSUME IInv, RetireQuiet
  PROVE  IInv'
<1>1. /\ status = "run" /\ (cycle + 4) % 16 # 0 /\ cycle' = (cycle + 4) % 128
      /\ age' = [i \in Timer |-> IF i \in enabled THEN age[i] + 4 ELSE age[i]]
      /\ sram' = sram /\ cycles' = cycles /\ target' = target /\ enabled' = enabled
      /\ io_in' = io_in /\ io_out' = io_out /\ show_rom' = show_rom
      /\ status' = status /\ unread' = unread
  BY DEF RetireQuiet, regvars, timervars
<1>2. TypeOK
  BY DEF IInv
<1>3. cycle \in 0 .. 127 /\ cycle % 4 = 0 /\ age \in [Timer -> Nat]
  BY <1>2 DEF TypeOK
<1>4. TypeOK'
  <2>1. cycle' \in 0 .. 127 /\ cycle' % 4 = 0
    BY <1>1, <1>3, PhaseLemma
  <2>2. age' \in [Timer -> Nat]
    BY <1>1, <1>3
  <2> QED BY <1>1, <1>2, <2>1, <2>2 DEF TypeOK
<1>5. ASSUME NEW i \in enabled
      PROVE  age'[i] = Div(i) * cycles[i] + (cycle' % Div(i)) /\ age'[i] < Div(i) * target[i]
  <2> DEFINE p == cycle % Div(i)
             q == cycle' % Div(i)
  <2>1. Div(i) \in {16, 128}
    BY DivLemma
  <2>2. /\ cycles[i] \in 0 .. 255 /\ target[i] \in 1 .. 256 /\ cycles[i] < target[i]
        /\ age[i] \in Nat /\ age[i] = Div(i) * cycles[i] + p /\ i \in Timer
    BY <1>1, RunningTimer
  <2>3. p \in 0 .. 127 /\ p < Div(i) /\ q = p + 4 /\ q < Div(i)
    BY <1>1, <1>3, <2>1, PhaseLemma
  <2>4. age'[i] = age[i] + 4
    BY <1>1, <2>2
  <2> HIDE DEF p, q
  <2>5. q \in Int
    BY <2>3
  <2>6. age[i] + 4 = Div(i) * cycles[i] + q /\ age[i] + 4 < Div(i) * target[i]
    <3>1. AgeFact(Div(i), cycles[i], target[i], p, q, age[i])
      BY <2>1, AgeLemma
    <3> QED BY <2>2, <2>3, <2>5, <3>1 DEF AgeFact
  <2> QED BY <2>4, <2>6 DEF q
<1>6. TimerOnTime'
  BY <1>1, <1>5 DEF TimerOnTime
<1>7. TimerInPeriod' /\ RunAsStarted'
  BY <1>1 DEF IInv, TimerInPeriod, RunAsStarted
<1> QED BY <1>4, <1>6, <1>7 DEF IInv


\* An instruction that retires at a clock edge keeps the invariant.
LEMMA RetireClockStep ==
  ASSUME IInv, RetireClock
  PROVE  IInv'
<1> DEFINE ticked == Ticked(cycle') \cap enabled
           fired == {i \in ticked : Due(i)}
<1>1. /\ status = "run" /\ (cycle + 4) % 16 = 0 /\ cycle' = (cycle + 4) % 128
      /\ age' = [i \in Timer |-> IF i \in fired THEN 0
                                 ELSE IF i \in enabled THEN age[i] + 4 ELSE age[i]]
      /\ cycles' = [i \in Timer |-> IF i \in fired THEN 0
                                    ELSE IF i \in ticked THEN cycles[i] + 1 ELSE cycles[i]]
      /\ sram' = [r \in Reg |-> IF r - T0OUT \in fired THEN OutTick(sram[r]) ELSE sram[r]]
      /\ unread' = [i \in Timer |-> IF i \in fired THEN (unread[i] + 1) % 16 ELSE unread[i]]
      /\ target' = target /\ enabled' = enabled
      /\ io_in' = io_in /\ io_out' = io_out /\ show_rom' = show_rom /\ status' = status
  BY DEF RetireClock
<1>2. TypeOK
  BY DEF IInv
<1>3. cycle \in 0 .. 127 /\ cycle % 4 = 0 /\ age \in [Timer -> Nat]
  BY <1>2 DEF TypeOK
<1>4. cycle' \in 0 .. 127 /\ cycle' % 4 = 0 /\ cycle' % 16 = 0
  BY <1>1, <1>3, PhaseLemma
<1>5. ticked = {i \in enabled : cycle' % Div(i) = 0} /\ enabled \subseteq Timer
  <2>1. enabled \subseteq Timer
    BY <1>2 DEF TypeOK
  <2>2. \A i \in Timer : i \in Ticked(cycle') <=> cycle' % Div(i) = 0
    BY <1>4 DEF Ticked, Div
  <2> QED BY <2>1, <2>2
<1> HIDE DEF ticked
\* The cases of one running timer.
<1>6. ASSUME NEW i \in enabled
      PROVE  /\ cycles'[i] \in 0 .. 255 /\ cycles'[i] < target[i] /\ target[i] >= 1
             /\ age'[i] \in Nat
             /\ age'[i] = Div(i) * cycles'[i] + (cycle' % Div(i))
             /\ age'[i] < Div(i) * target[i]
  <2> DEFINE p == cycle % Div(i)
             q == cycle' % Div(i)
  <2>1. Div(i) \in {16, 128}
    BY DivLemma
  <2>2. /\ cycles[i] \in 0 .. 255 /\ target[i] \in 1 .. 256 /\ cycles[i] < target[i]
        /\ age[i] \in Nat /\ age[i] = Div(i) * cycles[i] + p /\ i \in Timer
    BY <1>1, RunningTimer
  <2>3. /\ p \in 0 .. 127 /\ p < Div(i)
        /\ q = 0 => p + 4 = Div(i)
        /\ q # 0 => q = p + 4 /\ p + 4 < Div(i)
    BY <1>1, <1>3, <2>1, PhaseLemma
  <2>4. i \in ticked <=> q = 0
    BY <1>5
  <2> HIDE DEF p, q
  <2>5. AgeFact(Div(i), cycles[i], target[i], p, q, age[i])
    BY <2>1, AgeLemma
  <2>6. /\ cycles'[i] \in 0 .. 255 /\ cycles'[i] < target[i] /\ age'[i] \in Nat
        /\ age'[i] = Div(i) * cycles'[i] + q /\ age'[i] < Div(i) * target[i]
    <3>1. CASE i \in fired
      <4>1. cycles'[i] = 0 /\ age'[i] = 0 /\ q = 0
        BY <1>1, <2>2, <2>4, <3>1
      <4> QED BY <2>2, <2>3, <2>5, <4>1 DEF AgeFact
    <3>2. CASE i \in ticked /\ i \notin fired
      <4>1. q = 0 /\ cycles[i] + 1 < target[i]
        <5>1. q = 0 /\ ~(cycles[i] + 1 >= target[i])
          BY <2>4, <3>2 DEF Due
        <5>2. \A m, t \in Int : ~(m + 1 >= t) => m + 1 < t
          OBVIOUS
        <5>3. cycles[i] \in Int /\ target[i] \in Int
          BY <2>2
        <5> QED BY <5>1, <5>2, <5>3
      <4>2. cycles'[i] = cycles[i] + 1 /\ age'[i] = age[i] + 4
        BY <1>1, <2>2, <3>2
      <4> QED BY <2>2, <2>3, <2>5, <4>1, <4>2 DEF AgeFact
    <3>3. CASE i \notin ticked
      <4>1. cycles'[i] = cycles[i] /\ age'[i] = age[i] + 4 /\ q = p + 4 /\ p + 4 < Div(i)
        BY <1>1, <2>2, <2>3, <2>4, <3>3
      <4> QED BY <2>2, <2>3, <2>5, <4>1 DEF AgeFact
    <3> QED BY <3>1, <3>2, <3>3
  <2> QED BY <2>2, <2>6 DEF q
<1>7. TypeOK'
  <2>1. cycles' \in [Timer -> 0 .. 255]
    <3>1. ASSUME NEW i \in Timer PROVE cycles'[i] \in 0 .. 255
      <4>1. CASE i \in enabled
        BY <1>6, <4>1
      <4>2. CASE i \notin enabled
        BY <1>1, <1>2, <1>5, <4>2 DEF TypeOK
      <4> QED BY <4>1, <4>2
    <3> QED BY <1>1, <3>1
  <2>2. age' \in [Timer -> Nat]
    <3>1. ASSUME NEW i \in Timer PROVE age'[i] \in Nat
      <4>1. CASE i \in enabled
        BY <1>6, <4>1
      <4>2. CASE i \notin enabled
        BY <1>1, <1>3, <1>5, <4>2
      <4> QED BY <4>1, <4>2
    <3> QED BY <1>1, <3>1
  <2>3. sram' \in [Reg -> Byte]
    <3>1. \A x \in Byte : OutTick(x) \in Byte
      BY DEF OutTick, Byte
    <3> QED BY <1>1, <1>2, <3>1 DEF TypeOK
  <2>4. unread' \in [Timer -> 0 .. 15]
    <3>1. \A x \in 0 .. 15 : (x + 1) % 16 \in 0 .. 15
      OBVIOUS
    <3> QED BY <1>1, <1>2, <3>1 DEF TypeOK
  <2> QED BY <1>1, <1>2, <1>4, <2>1, <2>2, <2>3, <2>4 DEF TypeOK
<1>8. sram'[CTRL] = sram[CTRL]
  <2>1. CTRL \in Reg /\ CTRL - T0OUT \notin Timer
    BY DEF CTRL, Reg, T0OUT, Timer
  <2>2. fired \subseteq Timer
    BY <1>5
  <2> QED BY <1>1, <2>1, <2>2
<1>9. TimerOnTime'
  BY <1>1, <1>6 DEF TimerOnTime
<1>10. TimerInPeriod' /\ RunAsStarted'
  BY <1>1, <1>6, <1>8 DEF IInv, TimerInPeriod, RunAsStarted
<1> QED BY <1>7, <1>9, <1>10 DEF IInv

\* Every step of the system keeps the invariant.
THEOREM NextIInv == IInv /\ [Next]_vars => IInv'
<1> SUFFICES ASSUME IInv, [Next]_vars PROVE IInv'
  OBVIOUS
<1>1. ASSUME NEW st \in Snapshots, Restore(st) PROVE IInv'
  BY <1>1, RestoreStep
<1>2. CASE Reset \/ Start \/ Halt
  BY <1>2, HostStep
<1>3. ASSUME NEW s \in Stores, Store(s[1], s[2]) PROVE IInv'
  <2>1. s[1] \in Reg /\ s[2] \in Byte
    BY StoresAssumption
  <2>2. CASE s[1] = CTRL
    <3>1. StoreCtrl(s[2])
      BY <1>3, <2>2 DEF Store, CTRL, DSP_DATA, IO0, Port, T0OUT, Timer, PlainReg,
                        TEST, DSP_ADDR, AUX0, T0DIV
    <3> QED BY <2>1, <3>1, StoreCtrlStep
  <2>3. CASE s[1] # CTRL
    BY <1>3, <2>3, AccessStep
  <2> QED BY <2>2, <2>3
<1>4. CASE (\E i \in LoadTimers : LoadOut(i)) \/ LoadDspData
  BY <1>4, AccessStep
<1>5. CASE RetireQuiet
  BY <1>5, RetireQuietStep
<1>6. CASE RetireClock
  BY <1>6, RetireClockStep
<1>7. CASE Aborted \/ UNCHANGED vars
  <2>1. /\ sram' = sram /\ cycles' = cycles /\ target' = target /\ enabled' = enabled
        /\ io_in' = io_in /\ io_out' = io_out /\ show_rom' = show_rom
        /\ cycle' = cycle /\ status' = status /\ age' = age /\ unread' = unread
    BY <1>7 DEF Aborted, vars
  <2> QED BY <2>1 DEF IInv, TypeOK, TimerInPeriod, RunAsStarted, TimerOnTime
<1> QED BY <1>1, <1>2, <1>3, <1>4, <1>5, <1>6, <1>7 DEF Next

\* The registers and timers keep their widths, every running timer is inside
\* its period and on time, and the running timers are those of the last store.
THEOREM Invariance == Spec => []IInv
BY InitIInv, NextIInv, PTL DEF Spec

\* Registers, ports, timers and divider keep their types (struct timer, union state).
THEOREM TypeCorrect == Spec => []TypeOK
BY Invariance, PTL DEF IInv

\* A running timer is never overdue (do_timer_tick, _apu_update_clocks).
THEOREM OnTime == Spec => []TimerOnTime
BY Invariance, PTL DEF IInv

\* No store and no song file sets bit T2 of CTRL.
T2Unused ==
  /\ \A s \in Stores : s[1] = CTRL => ~Bit(s[2], CTRL_T2)
  /\ \A st \in Snapshots : ~Bit(st[CTRL], CTRL_T2)

T2IsClear == ~Bit(sram[CTRL], CTRL_T2)

\* Then the CTRL register never has it.
LEMMA T2Clear ==
  ASSUME T2Unused, T2IsClear, TypeOK, [Next]_vars
  PROVE  T2IsClear'
<1> USE DEF T2IsClear
<1>1. CASE \E st \in Snapshots : Restore(st)
  BY <1>1 DEF Restore, T2Unused
<1>2. CASE Reset
  BY <1>2 DEF Reset, Bit, CTRL_T2, CTRL, Reg
<1>3. CASE \E s \in Stores : Store(s[1], s[2])
  <2>1. PICK s \in Stores : Store(s[1], s[2])
    BY <1>3
  <2>2. CASE s[1] = CTRL
    <3>1. StoreCtrl(s[2])
      BY <2>1, <2>2 DEF Store, CTRL, DSP_DATA, IO0, Port, T0OUT, Timer, PlainReg,
                        TEST, DSP_ADDR, AUX0, T0DIV
    <3>2. sram' = CtrlRegs([sram EXCEPT ![CTRL] = s[2]], s[2])
      BY <3>1 DEF StoreCtrl
    <3>3. CTRL \in Reg /\ CTRL - T0OUT \notin Timer
          /\ CTRL \notin {IO0, IO0 + 1, IO0 + 2, IO0 + 3}
      BY DEF CTRL, Reg, T0OUT, Timer, IO0
    <3>4. CTRL - T0OUT \notin Started(s[2])
      BY <3>3 DEF Started
    <3>5. sram'[CTRL] = s[2]
      BY <3>2, <3>3, <3>4 DEF CtrlRegs, TypeOK
    <3> QED BY <2>2, <3>5 DEF T2Unused
  <2>3. CASE s[1] # CTRL
    <3>1. \E r \in Int \ {CTRL} : sram' = [sram EXCEPT ![r] = s[2]]
      <4>1. s[1] \in Int /\ IO0 + (s[1] - IO0) = s[1] /\ T0OUT + (s[1] - T0OUT) = s[1]
        BY StoresAssumption DEF Reg, IO0, T0OUT
      <4> QED BY <2>1, <2>3, <4>1 DEF Store, StoreDspData, StorePort, StoreOut, StorePlain,
                                      DSP_DATA, IO0, T0OUT
    <3>2. sram'[CTRL] = sram[CTRL]
      BY <3>1 DEF TypeOK, CTRL, Reg
    <3> QED BY <3>2
  <2> QED BY <2>2, <2>3
<1>4. CASE \E i \in LoadTimers : LoadOut(i)
  <2>1. sram'[CTRL] = sram[CTRL]
    BY <1>4 DEF LoadOut, ClearedOut, CTRL, T0OUT
  <2> QED BY <2>1
<1>5. CASE RetireClock
  <2>1. CTRL \in Reg /\ CTRL - T0OUT \notin Timer
    BY DEF CTRL, Reg, T0OUT, Timer
  <2>2. CTRL - T0OUT \notin {i \in Ticked(cycle') \cap enabled : Due(i)}
    BY <2>1 DEF Ticked
  <2>3. sram' = [r \in Reg |->
                  IF r - T0OUT \in {i \in Ticked(cycle') \cap enabled : Due(i)}
                  THEN OutTick(sram[r]) ELSE sram[r]]
    BY <1>5 DEF RetireClock
  <2>4. sram'[CTRL] = sram[CTRL]
    BY <2>1, <2>2, <2>3, Zenon
  <2> QED BY <2>4
<1>6. CASE Start \/ Halt \/ LoadDspData \/ RetireQuiet \/ Aborted \/ UNCHANGED vars
  BY <1>6 DEF Start, Halt, LoadDspData, RetireQuiet, Aborted, vars, regvars
<1> QED BY <1>1, <1>2, <1>3, <1>4, <1>5, <1>6 DEF Next

\* For programs that leave timer 2 alone bit i of the last CTRL byte says whether
\* timer i runs (apu_ctrl_store, apu_restore, apu_reset).
THEOREM FollowStores ==
  ASSUME T2Unused
  PROVE  Spec => []TimersFollowStores
<1>1. Init => T2IsClear
  BY DEF T2IsClear, Init, Bit, CTRL_T2, CTRL, Reg
<1>2. T2IsClear /\ IInv /\ [Next]_vars => T2IsClear'
  BY T2Clear DEF IInv
<1>3. T2IsClear /\ IInv => TimersFollowStores
  <2>1. \A i \in Timer : i = 0 \/ i = 1 \/ i = 2
    BY DEF Timer
  <2> QED BY <2>1 DEF T2IsClear, IInv, RunAsStarted, TimersFollowStores, Started, CtrlT, Timer
<1> QED BY <1>1, <1>2, <1>3, Invariance, PTL DEF Spec

\* A step of the system under the invariant changes an output counter of a
\* running program's timer, with the divider, only at the end of its period.
LEMMA FireStep ==
  ASSUME IInv, [Next]_vars, NEW i \in Timer,
         cycle' # cycle, status = "run", sram'[T0OUT + i] # sram[T0OUT + i]
  PROVE  i \in enabled /\ age[i] + 4 = Div(i) * target[i]
<1>1. RetireClock
  <2>1. ~(Reset \/ Start \/ Halt \/ LoadDspData \/ RetireQuiet \/ Aborted \/ UNCHANGED vars)
    BY DEF Reset, Start, Halt, LoadDspData, RetireQuiet, Aborted, vars, regvars
  <2>2. ~(\E st \in Snapshots : Restore(st)) /\ ~(\E j \in LoadTimers : LoadOut(j))
    BY DEF Restore, LoadOut
  <2>3. ~(\E s \in Stores : Store(s[1], s[2]))
    BY DEF Store, StoreCtrl, StoreDspData, StorePort, StoreOut, StorePlain
  <2> QED BY <2>1, <2>2, <2>3 DEF Next
<1>2. /\ i \in Ticked(cycle') \cap enabled /\ cycles[i] + 1 >= target[i]
      /\ cycle' = (cycle + 4) % 128 /\ (cycle + 4) % 16 = 0
  <2>1. T0OUT + i \in Reg /\ (T0OUT + i) - T0OUT = i
    BY DEF T0OUT, Timer, Reg
  <2>2. i \in {j \in Ticked(cycle') \cap enabled : Due(j)}
    BY <1>1, <2>1 DEF RetireClock
  <2> QED BY <1>1, <2>2 DEF RetireClock, Due
<1> DEFINE p == cycle % Div(i)
<1>3. /\ cycles[i] \in 0 .. 255 /\ target[i] \in 1 .. 256 /\ cycles[i] < target[i]
      /\ age[i] \in Nat /\ age[i] = Div(i) * cycles[i] + p
      /\ cycle \in 0 .. 127 /\ cycle % 4 = 0
  BY <1>2, RunningTimer
<1>4. Div(i) \in {16, 128}
  BY DivLemma
<1>5. cycle' % Div(i) = 0
  <2>1. cycle' \in 0 .. 127 /\ cycle' % 16 = 0
    BY <1>2, <1>3, PhaseLemma
  <2> QED BY <1>2, <2>1 DEF Ticked, Div
<1>6. p \in 0 .. 127 /\ p < Div(i) /\ p + 4 = Div(i)
  <2>1. /\ cycle % Div(i) \in 0 .. 127 /\ cycle % Div(i) < Div(i)
        /\ ((cycle + 4) % 128) % Div(i) = 0 => (cycle % Div(i)) + 4 = Div(i)
    <3>1. \A D \in {16, 128} :
            /\ cycle % D \in 0 .. 127 /\ cycle % D < D
            /\ ((cycle + 4) % 128) % D = 0 => (cycle % D) + 4 = D
      BY <1>3, PhaseLemma
    <3> QED BY <1>4, <3>1
  <2>2. ((cycle + 4) % 128) % Div(i) = 0
    BY <1>2, <1>5
  <2> QED BY <2>1, <2>2
<1> HIDE DEF p
<1>7. AgeFact(Div(i), cycles[i], target[i], p, 0, age[i])
  BY <1>4, AgeLemma
<1> QED BY <1>2, <1>3, <1>6, <1>7 DEF AgeFact

\* An output counter advances only at the end of a full period of its timer,
\* never early and never twice in one (do_timer_tick, _apu_update_clocks).
THEOREM FiresOnTime == Spec => FiresOnPeriod
<1>1. IInv /\ [Next]_vars =>
        [ \A i \in Timer :
            Fires(i) => /\ i \in enabled
                        /\ age[i] + 4 = Div(i) * target[i] ]_vars
  BY FireStep DEF Fires
<1> QED BY <1>1, Invariance, PTL DEF Spec, FiresOnPeriod

\* The output registers are bytes, and the remainder and the increment of the
\* counter agree modulo sixteen.
LEMMA OutLemma ==
  \A x \in Byte : \A u \in 0 .. 15 : x % 16 = u => OutTick(x) % 16 = (u + 1) % 16
BY DEF Byte, OutTick

\* Every step keeps the count of unread ticks, if only timer 0 is loaded.
LEMMA TicksStep ==
  ASSUME LoadTimers \subseteq {0}, TypeOK, TicksConserved, [Next]_vars
  PROVE  TicksConserved'
<1> USE DEF TicksConserved
<1>0. ASSUME NEW i \in Timer
      PROVE  /\ T0OUT + i \in Reg \ {CTRL, DSP_DATA} /\ (T0OUT + i) - IO0 \notin Port
             /\ T0OUT + i \notin PlainReg /\ (T0OUT + i) - T0OUT = i
             /\ T0OUT + i \notin {IO0, IO0 + 1, IO0 + 2, IO0 + 3}
             /\ sram[T0OUT + i] \in Byte /\ unread[i] \in 0 .. 15
  <2>1. T0OUT + i \in 13 .. 15
    BY DEF T0OUT, Timer
  <2> QED BY <2>1 DEF T0OUT, IO0, CTRL, DSP_DATA, Port, PlainReg, TEST, DSP_ADDR, AUX0, T0DIV,
                      Reg, Timer, TypeOK
<1>1. ASSUME NEW st \in Snapshots, Restore(st) PROVE TicksConserved'
  BY <1>1 DEF Restore
<1>2. CASE Reset
  <2>1. \A i \in Timer : sram'[T0OUT + i] = 0 /\ unread'[i] = 0
    BY <1>0, <1>2 DEF Reset
  <2> QED BY <2>1
<1>3. CASE Start \/ Halt \/ LoadDspData \/ RetireQuiet \/ Aborted \/ UNCHANGED vars
  <2>1. sram' = sram /\ unread' = unread
    BY <1>3 DEF Start, Halt, LoadDspData, RetireQuiet, Aborted, vars, regvars
  <2> QED BY <2>1
<1>4. ASSUME NEW s \in Stores, Store(s[1], s[2]) PROVE TicksConserved'
  <2> DEFINE r == s[1]  byte == s[2]
  <2>1. r \in Reg /\ byte \in Byte
    BY StoresAssumption
  <2>2. CASE StoreCtrl(byte)
    <3>1. ASSUME NEW i \in Timer PROVE sram'[T0OUT + i] % 16 = unread'[i]
      <4>1. sram' = CtrlRegs([sram EXCEPT ![CTRL] = byte], byte)
        BY <2>2 DEF StoreCtrl
      <4>2. CASE i \in Started(byte)
        <5>1. sram'[T0OUT + i] = 0 /\ unread'[i] = 0
          BY <1>0, <2>2, <4>1, <4>2 DEF CtrlRegs, StoreCtrl
        <5> QED BY <5>1
      <4>3. CASE i \notin Started(byte)
        <5>1. sram'[T0OUT + i] = sram[T0OUT + i] /\ unread'[i] = unread[i]
          BY <1>0, <2>2, <4>1, <4>3 DEF CtrlRegs, StoreCtrl, TypeOK
        <5> QED BY <5>1
      <4> QED BY <4>2, <4>3
    <3> QED BY <3>1
  <2>3. CASE r # CTRL /\ ~\E i \in Timer : r = T0OUT + i
    <3>1. unread' = unread /\ \E q \in Reg : q = r /\ sram' = [sram EXCEPT ![q] = byte]
      <4>1. CASE r = DSP_DATA /\ StoreDspData(byte)
        BY <2>1, <4>1 DEF StoreDspData
      <4>2. CASE r - IO0 \in Port /\ StorePort(r - IO0, byte)
        <5>1. IO0 + (r - IO0) = r
          BY <2>1 DEF IO0, Reg
        <5> QED BY <2>1, <4>2, <5>1 DEF StorePort
      <4>3. CASE r - T0OUT \in Timer
        <5>1. T0OUT + (r - T0OUT) = r
          BY <2>1 DEF T0OUT, Reg
        <5> QED BY <2>3, <4>3, <5>1
      <4>4. CASE r \in PlainReg /\ StorePlain(r, byte)
        BY <2>1, <4>4 DEF StorePlain
      <4> QED BY <1>4, <2>3, <4>1, <4>2, <4>3, <4>4 DEF Store
    <3>2. \A i \in Timer : sram'[T0OUT + i] = sram[T0OUT + i]
      BY <1>0, <2>3, <3>1 DEF TypeOK
    <3> QED BY <3>1, <3>2
  <2>4. ASSUME NEW i \in Timer, r = T0OUT + i PROVE TicksConserved'
    <3>1. StoreOut(i, byte)
      BY <1>0, <1>4, <2>4 DEF Store
    <3>2. sram' = [sram EXCEPT ![T0OUT + i] = byte] /\ unread' = [unread EXCEPT ![i] = byte % 16]
      BY <3>1 DEF StoreOut
    <3>3. ASSUME NEW j \in Timer PROVE sram'[T0OUT + j] % 16 = unread'[j]
      <4>1. CASE j = i
        BY <1>0, <3>2, <4>1 DEF TypeOK
      <4>2. CASE j # i
        <5>1. T0OUT + j # T0OUT + i
          BY <4>2 DEF T0OUT, Timer
        <5> QED BY <1>0, <3>2, <4>2, <5>1 DEF TypeOK
      <4> QED BY <4>1, <4>2
    <3> QED BY <3>3
  <2>5. r = CTRL => StoreCtrl(byte)
    BY <1>4 DEF Store, CTRL, DSP_DATA, IO0, Port, T0OUT, Timer, PlainReg, TEST, DSP_ADDR,
                AUX0, T0DIV
  <2> QED BY <2>2, <2>3, <2>4, <2>5
<1>5. ASSUME NEW i \in LoadTimers, LoadOut(i) PROVE TicksConserved'
  <2>1. i = 0 /\ i \in Timer
    BY LoadTimersAssumption
  <2>2. sram' = [sram EXCEPT ![T0OUT] = 0] /\ unread' = [unread EXCEPT ![0] = 0]
    BY <1>5, <2>1 DEF LoadOut, ClearedOut, T0OUT
  <2>3. ASSUME NEW j \in Timer PROVE sram'[T0OUT + j] % 16 = unread'[j]
    <3>1. CASE j = 0
      <4>1. sram'[T0OUT + j] = 0 /\ unread'[j] = 0
        BY <1>0, <2>2, <3>1 DEF TypeOK, T0OUT
      <4> QED BY <4>1
    <3>2. CASE j # 0
      <4>1. T0OUT + j # T0OUT
        BY <3>2 DEF T0OUT, Timer
      <4> QED BY <1>0, <2>2, <3>2, <4>1 DEF TypeOK
    <3> QED BY <3>1, <3>2
  <2> QED BY <2>3
<1>6. CASE RetireClock
  <2> DEFINE fired == {i \in Ticked(cycle') \cap enabled : Due(i)}
  <2>1. /\ sram' = [r \in Reg |-> IF r - T0OUT \in fired THEN OutTick(sram[r]) ELSE sram[r]]
        /\ unread' = [i \in Timer |-> IF i \in fired THEN (unread[i] + 1) % 16 ELSE unread[i]]
    BY <1>6 DEF RetireClock
  <2> HIDE DEF fired
  <2>2. ASSUME NEW i \in Timer PROVE sram'[T0OUT + i] % 16 = unread'[i]
    <3>1. CASE i \in fired
      <4>1. sram'[T0OUT + i] = OutTick(sram[T0OUT + i]) /\ unread'[i] = (unread[i] + 1) % 16
        BY <1>0, <2>1, <3>1
      <4> QED BY <1>0, <4>1, OutLemma
    <3>2. CASE i \notin fired
      BY <1>0, <2>1, <3>2
    <3> QED BY <3>1, <3>2
  <2> QED BY <2>2
<1> QED BY <1>1, <1>2, <1>3, <1>4, <1>5, <1>6 DEF Next

\* A program that polls only timer 0 never loses or sees twice a tick of any
\* timer (do_timer_tick, the TnOUT cases of _apu_mmio_load and _store).
THEOREM NoTickLost == ASSUME LoadTimers \subseteq {0} PROVE Spec => []TicksConserved
<1>1. Init => TicksConserved
  <2>1. \A i \in Timer : T0OUT + i \in Reg
    BY DEF Timer, T0OUT, Reg
  <2>2. 0 % 16 = 0
    OBVIOUS
  <2> QED BY <2>1, <2>2 DEF Init, TicksConserved
<1>2. TypeOK /\ TicksConserved /\ [Next]_vars => TicksConserved'
  BY TicksStep
<1> QED BY <1>1, <1>2, TypeCorrect, PTL DEF Spec
=============================================================================
