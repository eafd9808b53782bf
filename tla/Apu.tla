-------------------------------- MODULE Apu --------------------------------
(***************************************************************************)
(* The APU register block of src/apu.c: the sixteen memory-mapped          *)
(* registers, the three interval timers with their output counters, the    *)
(* four host ports, and the clock divider that spc700_run_forever drives   *)
(* (four CPU cycles per retired instruction, src/spc700.c).                *)
(*                                                                         *)
(* The instruction stream is the environment: between two retirements it   *)
(* performs any of the stores in Stores and any loads.  All widths, masks  *)
(* and clock ratios are the program's own.                                 *)
(***************************************************************************)
EXTENDS Integers

Byte  == 0 .. 255
Timer == 0 .. 2
Port  == 0 .. 3
Reg   == 0 .. 15

\* Register numbers, APU_REG() of the addresses in src/apu.h.
TEST == 0
CTRL == 1
DSP_ADDR == 2
DSP_DATA == 3
IO0   == 4
AUX0  == 8
T0DIV == 10
T0OUT == 13

CONSTANTS
  Stores,      \* the <<register, byte>> stores the emulated program performs
  LoadTimers,  \* the timers whose TnOUT the emulated program reads
  Snapshots    \* the register images a song file may carry

ASSUME StoresAssumption     == Stores \subseteq Reg \X Byte
ASSUME LoadTimersAssumption == LoadTimers \subseteq Timer
ASSUME SnapshotsAssumption  == Snapshots \subseteq [Reg -> Byte]

VARIABLES
  sram,      \* union state s: the register image
  cycles,    \* T[i].cycles
  target,    \* T[i].target
  enabled,   \* the timers with T[i].enabled
  io_in,     \* what a load of a port returns
  io_out,    \* what the program last stored to a port
  show_rom,  \* the IPL ROM overlay flag
  cycle,     \* spc700_run_forever's counter, modulo 128
  status,    \* "idle", "ready" (set up), "run", or "abort" (process gone)
  \* History variables: written by the steps below, read only by properties.
  age,       \* CPU cycles since the timer fired, or since the edge of its
             \* clock that preceded its start
  unread     \* ticks since TnOUT was last set or read, modulo 16

timervars == <<cycles, target, enabled>>
regvars == <<sram, timervars, io_in, io_out, show_rom>>
vars == <<sram, cycles, target, enabled, io_in, io_out, show_rom, cycle, status,
          age, unread>>

\* Bits of CTRL, and the top bit of DSP_ADDR.
CTRL_T0 == 1
CTRL_T1 == 2
CTRL_T2 == 4
CTRL_IOC01 == 16
CTRL_IOC23 == 32
CTRL_BOOT_ROM == 128
BAD_DSP_ADDR == 128

\* byte & mask, for a mask of one bit
Bit(byte, mask) == (byte \div mask) % 2 = 1

CtrlT(i) == IF i = 0 THEN CTRL_T0 ELSE IF i = 1 THEN CTRL_T1 ELSE CTRL_T2

\* CPU cycles per clock of timer i: T0 and T1 run at 8 kHz, T2 at 64 kHz.
Div(i) == IF i = 2 THEN 16 ELSE 128

-----------------------------------------------------------------------------
(* CTRL stores                                                             *)

\* timer_init: the period a divisor selects.
Period(div_reg) == IF div_reg # 0 THEN div_reg ELSE 256

\* The timers apu_ctrl_store passes to timer_enable: CTRL_T2 enables timer 1.
Started(byte) ==
  {i \in Timer : \/ i = 0 /\ Bit(byte, CTRL_T0)
                 \/ i = 1 /\ (Bit(byte, CTRL_T1) \/ Bit(byte, CTRL_T2))}

\* The timers it passes to timer_disable.
Stopped(byte) == {i \in Timer : ~Bit(byte, CtrlT(i))}

\* Mutant: timer_init keeps the clocks counted so far.
CtrlTimersKeepCycles(tdiv, byte) ==
  /\ cycles' = cycles
  /\ target' = [i \in Timer |-> IF i \in Started(byte) THEN Period(tdiv[i]) ELSE target[i]]
  /\ enabled' = (enabled \ Stopped(byte)) \cup Started(byte)

\* The three enable/disable decisions.  Timer 1 may be disabled for CTRL_T1
\* and enabled again for CTRL_T2; the enable comes last.
CtrlTimers(tdiv, byte) ==
  /\ cycles' = [i \in Timer |-> IF i \in Started(byte) THEN 0 ELSE cycles[i]]
  /\ target' = [i \in Timer |-> IF i \in Started(byte) THEN Period(tdiv[i]) ELSE target[i]]
  /\ enabled' = (enabled \ Stopped(byte)) \cup Started(byte)

TDiv(regs) == [i \in Timer |-> regs[T0DIV + i]]

\* Mutant: timer_enable leaves tout alone.
CtrlRegsKeepOut(regs, byte) ==
  [r \in Reg |-> IF Bit(byte, CTRL_IOC01) /\ r \in {IO0, IO0 + 1} THEN 0 ELSE regs[r]]

\* The registers after apu_ctrl_store: the output of each started timer and
\* the latches selected by CTRL_IOC01 and CTRL_IOC23 are zeroed.  The ports
\* that loads read (io_in) are left alone.
CtrlRegs(regs, byte) ==
  [r \in Reg |->
     IF \/ r - T0OUT \in Started(byte)
        \/ Bit(byte, CTRL_IOC01) /\ r \in {IO0, IO0 + 1}
        \/ Bit(byte, CTRL_IOC23) /\ r \in {IO0 + 2, IO0 + 3}
     THEN 0 ELSE regs[r]]

-----------------------------------------------------------------------------
(* Clocks                                                                  *)

\* Mutant: T0 and T1 run at 16 kHz.
TickedTwice(c) == {i \in Timer : i = 2 \/ c % 64 = 0}

\* Mutant: T0 and T1 wait for the last cycle of 128, at which no instruction retires.
TickedLast(c) == {i \in Timer : i = 2 \/ c % 128 = 127}

\* The timers _apu_update_clocks ticks when the counter reads c (c % 16 = 0).
Ticked(c) == {i \in Timer : i = 2 \/ c % 128 = 0}

\* ++t->cycles >= t->target
Due(i) == cycles[i] + 1 >= target[i]

\* Mutant: the counter is not masked.
OutTickUnmasked(out) == out + 1

\* tout++ on a uint8_t, then &= 0xf.
OutTick(out) == ((out + 1) % 256) % 16

Init ==
  /\ sram = [r \in Reg |-> 0]
  /\ cycles = [i \in Timer |-> 0]
  /\ target = [i \in Timer |-> 0]
  /\ enabled = {}
  /\ io_in = [p \in Port |-> 0]
  /\ io_out = [p \in Port |-> 0]
  /\ show_rom = FALSE
  /\ cycle = 0
  /\ status = "idle"
  /\ age = [i \in Timer |-> 0]
  /\ unread = [i \in Timer |-> 0]

-----------------------------------------------------------------------------
(* The host side                                                           *)

\* apu_restore: apu_ctrl_store acts on the image, then the whole image is
\* assigned again, so its outputs and latches survive the store.
Restore(st) ==
  /\ status \in {"idle", "ready"}
  /\ status' = "ready"
  /\ sram' = st
  /\ CtrlTimers(TDiv(st), st[CTRL])
  /\ show_rom' = Bit(st[CTRL], CTRL_BOOT_ROM)
  /\ io_in' = [p \in Port |-> st[IO0 + p]]
  /\ age' = [i \in Timer |-> 0]
  /\ unread' = [i \in Timer |-> st[T0OUT + i] % 16]
  /\ UNCHANGED <<io_out, cycle>>

\* apu_reset: io_in keeps what the last file put there.  The CPU is started
\* only by handle_file, which restores a file first.
Reset ==
  /\ status \in {"idle", "ready"}
  /\ status' = "idle"
  /\ sram' = [r \in Reg |-> 0]
  /\ cycles' = [i \in Timer |-> 0]
  /\ target' = [i \in Timer |-> 0]
  /\ enabled' = {}
  /\ io_out' = [p \in Port |-> 0]
  /\ show_rom' = TRUE
  /\ age' = [i \in Timer |-> 0]
  /\ unread' = [i \in Timer |-> 0]
  /\ UNCHANGED <<io_in, cycle>>

\* spc700_run_forever is entered: its cycle counter is a local, zero.
Start ==
  /\ status = "ready"
  /\ status' = "run"
  /\ UNCHANGED <<regvars, cycle, age, unread>>

\* An opcode without a handler: spc700_run_forever returns and main may go on
\* to the next file.
Halt ==
  /\ status = "run"
  /\ status' = "idle"
  /\ cycle' = 0
  /\ UNCHANGED <<regvars, age, unread>>

-----------------------------------------------------------------------------
(* The emulated program: _apu_mmio_store, _apu_mmio_load, retirement       *)

StoreCtrl(byte) ==
  /\ status = "run"
  /\ sram' = CtrlRegs([sram EXCEPT ![CTRL] = byte], byte)
  /\ CtrlTimers(TDiv(sram), byte)
  /\ show_rom' = Bit(byte, CTRL_BOOT_ROM)
  /\ age' = [i \in Timer |-> IF i \in Started(byte) THEN cycle % Div(i)
                           ELSE IF i \in Stopped(byte) THEN 0 ELSE age[i]]
  /\ unread' = [i \in Timer |-> IF i \in Started(byte) THEN 0 ELSE unread[i]]
  /\ UNCHANGED <<io_in, io_out, cycle, status>>

\* _dsp_store aborts the process on an address with the top bit set.
StoreDspData(byte) ==
  /\ status = "run"
  /\ sram' = [sram EXCEPT ![DSP_DATA] = byte]
  /\ status' = IF Bit(sram[DSP_ADDR], BAD_DSP_ADDR) THEN "abort" ELSE status
  /\ UNCHANGED <<timervars, io_in, io_out, show_rom, cycle, age, unread>>

StorePort(p, byte) ==
  /\ status = "run"
  /\ sram' = [sram EXCEPT ![IO0 + p] = byte]
  /\ io_out' = [io_out EXCEPT ![p] = byte]
  /\ UNCHANGED <<timervars, io_in, show_rom, cycle, status, age, unread>>

\* A TnOUT store replaces the counter with the whole byte.
StoreOut(i, byte) ==
  /\ status = "run"
  /\ sram' = [sram EXCEPT ![T0OUT + i] = byte]
  /\ unread' = [unread EXCEPT ![i] = byte % 16]
  /\ UNCHANGED <<timervars, io_in, io_out, show_rom, cycle, status, age>>

\* TEST, DSP_ADDR, AUXn and TnDIV: the byte is kept and nothing else happens.
PlainReg == {TEST, DSP_ADDR, AUX0, AUX0 + 1} \cup T0DIV .. T0DIV + 2

StorePlain(r, byte) ==
  /\ status = "run"
  /\ sram' = [sram EXCEPT ![r] = byte]
  /\ UNCHANGED <<timervars, io_in, io_out, show_rom, cycle, status, age, unread>>

Store(r, byte) ==
  \/ r = CTRL /\ StoreCtrl(byte)
  \/ r = DSP_DATA /\ StoreDspData(byte)
  \/ r - IO0 \in Port /\ StorePort(r - IO0, byte)
  \/ r - T0OUT \in Timer /\ StoreOut(r - T0OUT, byte)
  \/ r \in PlainReg /\ StorePlain(r, byte)

\* Mutant: the offset is one too far.
ClearedOutNext(i) == 1

\* tout[APU_OFF(reg, APU_T0OUT)]: APU_OFF ignores its second argument and is
\* zero for every register number, so each TnOUT load clears tout[0].
ClearedOut(i) == 0

\* A TnOUT load returns the counter and clears one; the program takes it that
\* the counter it read starts again from zero.
LoadOut(i) ==
  /\ status = "run"
  /\ sram' = [sram EXCEPT ![T0OUT + ClearedOut(i)] = 0]
  /\ unread' = [unread EXCEPT ![i] = 0]
  /\ UNCHANGED <<timervars, io_in, io_out, show_rom, cycle, status, age>>

\* _dsp_load aborts like _dsp_store.  No other load changes any state.
LoadDspData ==
  /\ status = "run"
  /\ Bit(sram[DSP_ADDR], BAD_DSP_ADDR)
  /\ status' = "abort"
  /\ UNCHANGED <<regvars, cycle, age, unread>>

\* An instruction retires off a 16-cycle boundary: no clock runs.
RetireQuiet ==
  /\ status = "run"
  /\ (cycle + 4) % 16 # 0
  /\ cycle' = (cycle + 4) % 128
  /\ age' = [i \in Timer |-> IF i \in enabled THEN age[i] + 4 ELSE age[i]]
  /\ UNCHANGED <<regvars, status, unread>>

\* An instruction retires on a boundary: _apu_update_clocks(cycle).
RetireClock ==
  /\ status = "run"
  /\ (cycle + 4) % 16 = 0
  /\ cycle' = (cycle + 4) % 128
  /\ LET ticked == Ticked(cycle') \cap enabled
         fired  == {i \in ticked : Due(i)}
     IN  /\ cycles' = [i \in Timer |-> IF i \in fired THEN 0
                                       ELSE IF i \in ticked THEN cycles[i] + 1 ELSE cycles[i]]
         /\ sram' = [r \in Reg |-> IF r - T0OUT \in fired THEN OutTick(sram[r]) ELSE sram[r]]
         /\ age' = [i \in Timer |-> IF i \in fired THEN 0
                                    ELSE IF i \in enabled THEN age[i] + 4 ELSE age[i]]
         /\ unread' = [i \in Timer |-> IF i \in fired THEN (unread[i] + 1) % 16 ELSE unread[i]]
  /\ UNCHANGED <<target, enabled>>
  /\ UNCHANGED <<io_in, io_out, show_rom, status>>

\* The process is gone; the state stays as it is.
Aborted == status = "abort" /\ UNCHANGED vars

Next ==
  \/ \E st \in Snapshots : Restore(st)
  \/ Reset
  \/ Start
  \/ Halt
  \/ \E s \in Stores : Store(s[1], s[2])
  \/ \E i \in LoadTimers : LoadOut(i)
  \/ LoadDspData
  \/ RetireQuiet
  \/ RetireClock
  \/ Aborted

Spec == Init /\ [][Next]_vars

\* Every instruction performs finitely many accesses and then retires.
FairSpec == Spec /\ WF_vars(RetireQuiet \/ RetireClock)
-----------------------------------------------------------------------------
(* Properties                                                              *)

\* The registers, timers, ports and the clock divider keep their widths: no
\* timer count or output escapes its uint16_t or uint8_t.
TypeOK ==
  /\ sram \in [Reg -> Byte]
  /\ cycles \in [Timer -> 0 .. 255]
  /\ target \in [Timer -> 0 .. 256]
  /\ enabled \subseteq Timer
  /\ io_in \in [Port -> Byte]
  /\ io_out \in [Port -> Byte]
  /\ show_rom \in BOOLEAN
  /\ cycle \in 0 .. 127 /\ cycle % 4 = 0
  /\ status \in {"idle", "ready", "run", "abort"}
  /\ age \in [Timer -> Nat]
  /\ unread \in [Timer -> 0 .. 15]

\* _apu_update_clocks: a running timer is never overdue.  The CPU cycles since
\* it last fired are those its count and the divider's phase say, and are
\* less than the period it was started with.
TimerOnTime ==
  /\ status \in {"idle", "ready"} => cycle = 0
  /\ status \in {"ready", "run"} =>
       \A i \in enabled :
         /\ age[i] = Div(i) * cycles[i] + (cycle % Div(i))
         /\ age[i] < Div(i) * target[i]

\* The output counter of timer i is stepped by a tick.
Fires(i) == cycle' # cycle /\ status = "run" /\ sram'[T0OUT + i] # sram[T0OUT + i]

\* do_timer_tick: an output counter advances only when a full period of CPU
\* cycles has gone by since it last advanced (or since the clock edge before
\* the timer was started), never early and never twice in a period.
FiresOnPeriod ==
  [][ \A i \in Timer :
        Fires(i) => /\ i \in enabled
                    /\ age[i] + 4 = Div(i) * target[i] ]_vars

\* do_timer_tick and the TnOUT accesses: a counter tells the program, modulo
\* sixteen, how many ticks it has not read yet; no tick is lost or counted
\* twice.
TicksConserved == \A i \in Timer : sram[T0OUT + i] % 16 = unread[i]

\* Between two clocks timer i loses those it has counted: a CTRL store restarts it.
LosesClocks(i) == cycle' = cycle /\ status = "run" /\ cycles'[i] # cycles[i]

\* spc700_run_forever and do_timer_tick: a timer that the program leaves on and does
\* not keep restarting in mid period fires again and again, whatever else is stored
\* and read.  (With a period above one clock a program could restart it for ever.)
TimersComeRound ==
  \A i \in Timer :
    (<>[](status = "run" /\ i \in enabled) /\ <>[][~LosesClocks(i)]_vars)
      => []<><<Fires(i)>>_vars

\* apu_ctrl_store, apu_restore, apu_reset: bit i of the last CTRL byte says whether
\* timer i runs, whatever ran before the file was loaded or the byte was stored.
TimersFollowStores == enabled = {i \in Timer : Bit(sram[CTRL], CtrlT(i))}
=============================================================================
