# A verification project for spu-kit

spu-kit plays SNES song files (`.spc`). It restores a snapshot of the sound
processor, runs its SPC700 program one instruction at a time, lets the DSP make a
stereo sample every 32 CPU cycles, and writes the samples to `out.wav`. The modules
beside this file model the parts of it that have state, and are checked with TLC and
proved about with TLAPS. Paths below are those of the repository (`src/spc700.c` is
the C file in its `src` directory).

Contents: 1 the system, 2 the modules, 3 the runs, 4 bounds, deadlock and fairness,
5 the proofs, 6 where the code and its comments disagree, 7 what is not modelled,
8 what comes next.

## 1. The system

One process, one thread. `main` (`src/main.c`) handles the files of its command line
in turn: `setup_spc700` restores registers, memory, the APU and the DSP, then
`spc700_run_forever` runs until an opcode has no function. The program ends in
`exit(0)` when the DSP has made `32000 * SECONDS` samples.

    file --restore--> CPU (spc700.c) --MMIO $f0-$ff--> APU (apu.c) --$f2/$f3--> DSP (dsp.c)
                        |  ^                             |  timers,               |  ^
                        v  |                             |  ROM flag              v  |
                       aram, overlaid by the boot ROM <--+             echo ring and samples
                                                                                  |
                         every 16 cycles: timer 2                                 v
                         every 32 cycles: _dsp_run32 ------------------> wav.c -> bufwr.c -> fd.c
                         every 128 cycles: timers 0, 1

All interaction is by call and by shared memory (`aram`), so the interleavings that
matter are those of the emulated program's instructions with the clocks that the
interpreter drives: a store lands in any phase of the divider, of a sample, of an
echo slot, of a voice's delay.

| Component | State | Operations | What makes it correct |
|---|---|---|---|
| CPU, `src/spc700.c` | `pc a x y sp`, eight flags, `aram` | 238 opcodes, fetch, push/pop | widths, page wrap, 16-bit arithmetic out of 8-bit, division, calls return, flags survive the stack, no store leaves its page |
| ROM overlay, `src/spc700.c` | `aram`, `extra_ram`, `show_rom` | show, hide, restore, store | showing by copying is the same as deciding at each load; the RAM under it survives |
| APU, `src/apu.c` | register image, three timers, port latches | stores, loads, clock edges, restore, reset | a timer fires exactly once per period, no tick lost, the running timers are those CTRL selected (they are not: section 6) |
| Rate counters, `src/dsp.c` | three counters | `ctr_init`, `ctr_run`, `ctr_read` | each rate fires once in its period |
| Voice, `src/dsp.c` | key latches, envelope, decoder position | poll, sample, stores, restore | key-ons heard, envelope in 11 bits, the decoder stays on blocks, ENDX means what it says |
| Echo, `src/dsp.c` | ring position and length, FIR history | sample, stores | writes stay in the ring, the delay is the ring's length, the filter slides |
| BRR arithmetic and mixer, `src/dsp.c` | ring of decoded samples, `eon`, words in the echo ring | decode, interpolate, pan, blend, filter, feed back | a sample is played at its pitch, sums saturate and do not wrap, an echo dies out |
| Buffered writer, `src/bufwr.c`, `src/fd.c` | buffer, descriptor | write, flush, close, abort, leak | no byte lost, repeated or reordered; calls return |
| WAV, `src/wav.c` | writer, sample count | create, write, close | the corrected header ends up over the data |
| Player, `src/main.c`, `src/spc700.c` | which file, the file's image, the sample clock | open, read in pieces, set up, retire, halt | the program that runs is the whole of one file, a sample every 32 cycles of it, every invocation ends |

The hard behaviours are: stores at any phase of a running clock; state read at the
start of a sample and used after it changed (echo page and length, loop address,
`kon`); two 16-bit things made of bytes; an 8-bit stack that wraps; counters with
unusual starting phases; `write(2)` taking part of what it is given, being interrupted
or failing; a header rewritten after the data; globals that survive from one file to
the next. `PROJECT.json` lists them line by line under `hazards`.

## 2. The modules

The order is that of the plan: the clocked core first, then memory, output, DSP,
instruction set.

| Module | Models | Checked by | Proved in |
|---|---|---|---|
| `Apu` | `src/apu.c` and the clock divider of `spc700_run_forever` | `MCApu` | `ApuProofs` |
| `RomMemory` | what the CPU sees of memory: the `ACCURATE_IPL_ROM` build, the abstract specification | | |
| `IplRom` | the default build, which copies the ROM; implements `RomMemory` | `MCIplRom` | `IplRomProofs` |
| `BufWr` | `src/bufwr.c` over `fd_write` | `MCBufWr` | `BufWrProofs` |
| `OutWav` | what `out.wav` promises: an abstract specification of accepted frames and a finished file | | |
| `Wav` | `src/wav.c`, `_dsp_run32`'s use of it and `fd_pwrite`; composes `BufWr`, whose actions are steps of this module; implements `OutWav` | `MCWav`, `MCPlayer` | `PlayerProofs` |
| `Player` | `src/main.c`, `setup_spc700` and the loop of `spc700_run_forever`; composes `Wav` | `MCPlayer` | `PlayerProofs` |
| `DspCounter` | `ctr_init`, `ctr_run`, `ctr_read` | `MCDspCounter` | `DspSignalProofs` |
| `DspVoice` | key polling, `voice_run`, envelope, the decoder's walk | `MCDspVoice` | `DspVoiceProofs` |
| `DspEcho` | the echo part of `next_sample`, FIR history | `MCDspEcho` | `DspEchoProofs` |
| `DspGauss` | the table `gauss` | | |
| `DspBrr` | nibbles, scaling, filters, the decoder, interpolation: pure operators | through `DspSignal` | `DspSignalProofs` |
| `DspMixer` | panning, blending, FIR sum, volumes: pure operators | through `DspSignal` | `DspSignalProofs` |
| `DspSignal` | `next_sample` as a whole: composes `DspVoice` and `DspEcho`, which it instances, and adds the sample values | `MCDspSignal` | `DspSignalProofs` |
| `CpuAlu` | the `alu_` functions and flags | through `Cpu` | `CpuProofs` |
| `Cpu` | the opcode table, addressing, stack, memory | `MCCpu` | `CpuProofs` |

**Apu.** `sram` is the register image `s`, `cycles`/`target`/`enabled` the timers,
`cycle` the interpreter's counter modulo 128 (every clock divides 128). The emulated
program is the environment: between two retirements it makes any store of `Stores` and
reads any timer of `LoadTimers`. `RetireClock` is `_apu_update_clocks`, `RetireQuiet` a
retirement off a 16-cycle boundary. Widths, masks and clock ratios are the code's.
`age` and `unread` are history: how long ago a timer fired, how many ticks are unread.

**RomMemory, IplRom.** `Memory` in `IplRom` is `INSTANCE RomMemory` with RAM mapped to
`extra_ram` under a shown ROM and to `aram` elsewhere. `kept` is history: the window as
the program last left it. Two constants are the conditions under which copying is
right: `MaxFiles = 1` and `StoresUnderRom = FALSE` (section 6 has what happens otherwise).

**BufWr, Wav.** Bytes are numbered in the order offered, so that a lost, repeated or
misplaced byte shows. One action is one system call with any answer the system may
give. `op` says which call of `bufwr.c` is waiting inside `fd_write`. `head` in `Wav`
is which byte of the corrected header stands at each offset. `Out` in `Wav` maps it to
`OutWav`: `whole` holds when the file is closed without an error, has every accepted
frame in order, and has the corrected header over it.

**Player.** `at` says where the one thread is: between files, inside `fill_buf`, in
`setup_spc700`, in the interpreter's loop, inside `_dsp_run32`, or gone. `spc` is the
global `struct spc_file`, each part of it labelled with the file whose read filled it, so
that a program made of two files would show. An instruction only retires, halts or
aborts here; every `Period`-th retirement enters `_dsp_run32`, whose steps are `Wav`'s.
`song`, `clocks` and `base` are history: the image that runs, the instructions retired
since it was set up, the samples accepted before.

**DspVoice.** One voice stands for eight: they share `kon`, `koff` and the registers
bit by bit and touch nothing else of each other. `Sample` is a whole pass of
`next_sample` for the voice, in the code's order, from named stages (`Poll`, `Walk`,
`Envelope`, ...). Memory is a function from addresses to header flags. Whether a rate
fires is any answer `ctr_read` may give; `DspCounter` has the counters themselves.
`Files` are the register images that a snapshot may hold; a run names a few.

**DspEcho.** A sample's value is its age, so that the filter's window can be stated.
`Sample` reads and writes the slot and updates position and length as `next_sample` does.
`age`, `stable` and `written` are history: how many samples ago the echo wrote each byte of
memory (a disabled echo writes none), for how many samples it has written a ring at one page
and of one length, and what the last one wrote; the delay is stated with them.

**DspBrr, DspMixer.** Integers are mathematical and `>>` is a division that rounds down;
each place where the code stores in 16 bits or clamps is `Int16` or `clamp16`. `Four` is
what `brr_sample4` decodes at a time, before it clamps.

**DspSignal.** One step is one whole pass of `next_sample`: `Voice!Sample` and
`Echo!Sample`, conjoined with what the same lines do to sample values. One voice is
decoded from bytes of memory (`Ram`); what voices 1 to 7 put out is an input, `Others`.
The words in the ring's slots are kept apart from `Ram`: the sample data lies where neither
the echo nor the program writes, and short of the last block of memory. `src` (the
samples decoded since the voice was started), `travelled` (the pitches added since its
delay) and `quiet` are history.

**CpuAlu, Cpu.** A byte's bits, and the flags, are sets of bit numbers. An ALU operator
takes operands and flags and returns result and flags. In `Cpu` the opcode's column
and row select the instruction; each of about 45 `insn_` actions is the set of C
functions that share their code (`insn_or` is the twelve `insn_or_*`). Memory is the
constant `Image` overlaid with the bytes stored since (`aram`). A load of an MMIO
register returns any of `IoBytes`, as what it returns is up to `Apu`. `Shared` addresses
may be written between instructions, as the echo does. `pushed` is history: what is on
the stack, where, and whether any store went over it.

## 3. The runs

| Run | Question | Result |
|---|---|---|
| `cpu` | Every opcode from many registers, and a program that nests calls on a wrapping stack: calls return, flags restored, 16-bit sums, division, stores in page | holds, 201 429 states |
| `apu` | One timer at a time and every kind of store at every phase: exact period, no tick lost, a timer left on and not restarted keeps firing | holds, 922 085 states |
| `apu_ctrl` | Does timer i run when bit i of CTRL says so? | violated |
| `apu_reads` | Does reading TnOUT clear TnOUT? | violated |
| `rom_overlay` | Does copying implement deciding at each load? | holds for one file whose program keeps off the window |
| `bufwr` | Four calls, all answers of `write(2)`: nothing lost, calls return | holds, 38 798 states |
| `player` | Three files read in pieces, any of them failing, halting or aborting, down to every system call of `out.wav`: one image, samples paced by the clock, `Wav` implements `OutWav`, failures are the system's, every invocation ends | holds, 9 192 states |
| `wav_short` | Does `fd_pwrite` handle short writes, as it says? | violated |
| `dsp_counter` | All 31 rates, every phase, restores | holds |
| `voice` | Three sources, keys, pitch, reset, another file at any sample; and the envelope at full width under ADSR and gains: prefill, blocks, key-ons, ENDX, fades, falls silent | holds, 503 856 states |
| `echo` | The ring under ESA, EDL and FLG stores at any sample: in the ring, what is read was written the ring's length ago, filter, turns | holds, 95 844 states |
| `signal` | A song that ends and one that loops, of filtered, loud and overflowing blocks, with a store at any sample: played at pitch, interpolation fits 16 bits, an echo dies out | holds, 152 976 states |

Each property of a passing run has a mutant of the code (`mutants` in `PROJECT.json`,
operators labelled *Mutant* in the modules) that breaks it.

## 4. Bounds, deadlock, fairness

**Bounds.** `Apu` needs none: all is modulo 128 and the stores a run uses are few and
chosen for the boundaries (a counter at 255, periods 1 and 3, the divisor changed while
running; three is the shortest period that can be restarted for ever before its last clock).
The properties are per timer, and the proofs cover all stores and snapshots: a divisor of
zero, whose period is 256, is theirs alone.
`BufWr`: `Max = 2` with lengths 0 to 5 has every case of a length that fits, fills,
overflows once, or goes past the buffer, and `MaxCalls = 4` is enough for a call whose
predecessors left the buffer empty, part full and full. `Wav` and `Player`: a buffer of 7,
a header of 4, frames of 2 and a limit of 14 frames make writes land on, before and across
the buffer's end, several times. Three files in three parts are enough for one that fails
half read to be followed by another and for a remainder of `Period = 2` to be dropped
twice; `MaxClocks` bounds a file's instructions by what all samples need. `DspEcho`: a unit
and a page of one slot and 64 bytes of memory keep the cases that matter (rings of one, two
and three slots, the last page's passing the end of memory, EDL with a high nibble, a page
that changes while the ring is written) and are constants in the proof; `MaxDelay` is one
past the longest ring's slots, so that each delay is told from a longer one. `DspVoice`: real widths,
three sources that cover looping, ending and single-block samples. Its run has two
scenes, which the action constraint `SameScene` keeps apart: three sources and pitches
under a low direct gain, and one source that never decodes under envelopes of every kind.
Their product would say no more, as the walk reads nothing of the envelope but whether it
is silent. `DspSignal`: one song of three blocks that ends and one of two whose second
loops to itself, with all four filters, a shift past 12 (which `Shift` clamps) and nibbles that
overflow; two pitches; a ring of one or two slots. `MaxSamples = 64` bounds what is decoded:
the looping block comes three times. `MaxStores = 2`, and the action constraint `Schedule` has the first of them be
the program's clearing of KON once its voice has started, as a program that leaves it set
starts the voice again at every second poll; the second is any store at any sample.
`MaxOthers = 1`: the other voices sound once, in the middle of the second block, loud enough
to saturate the mix. `MaxAge` is past the longest echo. `Cpu`: `bound`
instructions from each start (1 for all opcodes, 3 for some, 30 for the program); the
registers are those at which a byte, sign, page or quotient wraps.

**Deadlock** is checked except where the system stops: `Cpu` (an opcode without a
function returns; the bound), `BufWr`, `Wav` and `Player` (the process exits or the
writer is closed).

**Fairness.** `Apu`: `WF` of retirement, since each instruction makes finitely many
accesses and retires. `TimersComeRound` then asks one thing of the program, that it does not
restart the timer in mid period for ever: each CTRL store with the bit set loses the clocks
counted so far, and a program that kept storing it would never see a tick. `BufWr`: `WF` of an answer that takes some bytes or none, since
`fd_write` loops on EINTR and EAGAIN and only on those (another error ends the call as
well), and of the answer to `close(2)`; without them `CallsReturn` would be about a system
that never answers. `Player`: `WF` of `Proceed`, everything the process does but an opcode that halts the
program or a bad DSP address, since one thread always runs on and a program need do neither;
`PlayerEnds` then rests on the samples' limit alone. `DspVoice`, `DspEcho`: `WF` of `Sample`, since
`_apu_update_clocks` calls `_dsp_run32` every 32 cycles whatever the program does.

## 5. The proofs

Assumptions are the named ones of the modules (`StoresAssumption`, `BlocksAssumption`,
...), which every run evaluates. The theorems hold for every value of the constants
that meets them. Every invariant and every action property that a passing run checks
is stated by a theorem, and so are both refinements; what is left to the runs alone is
liveness.

* **ApuProofs.** `TypeCorrect`, `OnTime`, `FollowStores`, the action property
  `FiresOnTime`, and `NoTickLost` (for programs that read timer 0 only: `apu_reads` shows
  why). The inductive invariant is `TypeOK /\ TimerInPeriod /\ RunAsStarted /\
  TimerOnTime`. A tick keeps a timer's age below its period only because the count is
  below the target; a restore may promise a fresh age only because timer 2, which a set
  T2 bit leaves as it was, never runs (`RunAsStarted`, which says what the code does and not
  what it should). `FollowStores` is of programs and files that leave the T2 bit clear
  (`T2Unused`), as `apu_ctrl` shows it false of others.
* **IplRomProofs.** `TypeCorrect`, `RamKept` (for one file, whatever is stored), and, if the
  program also keeps off the window, `RomShown`, `SameLoads` and `Implements`
  (`ImplementsRomMemory`): the copying build implements `RomMemory`. The strengthening, `FirstFile`, says that the
  flag is clear until the first file is loaded.
* **DspVoiceProofs.** `TypeCorrect`, `Prefills`, `StaysOnBlocks`, `Fades`, `HearsKeyOn`,
  `EndxLoops`, for every memory, directory, register values and interleaving of stores and
  another file's restore. `NeverDecoded` (a voice never keyed on is silent and has
  decoded nothing) and `KonWasPolled` (a bit of `kon` was set when last polled) make the
  invariant inductive.
* **DspEchoProofs.** `TypeCorrect`, `StaysInRing`, `Slides`, `DelaysByLength` and
  `WritesStayInRing`, for every unit, page, memory size and value of ESA and EDL. `HistAges`
  gives the age of each entry of the FIR history by its distance from the position, which is
  what the taps rest on. `DelayIsLength` is about the one slot read next and not inductive;
  `SlotAges` says of every slot passed while the ring was stable that its bytes were written as
  long ago as it is far behind. Distances go round the ring, which needs `WholeSlots`: with a
  length that is no multiple of four the position would come back between the slots it left.
  That no later sample wrote over a slot needs the longest ring to fit in memory
  (`MemoryAssumption`; 15 * 0x800 bytes of 0x10000): then two of its bytes are one only at
  the same offset (`ModuloInjective`).
* **CpuProofs.** `TypeCorrect`, `ReturnsGoBack` and `FlagsComeBack`, for every
  memory image, start, MMIO byte and shared address. Each group of opcodes is shown to
  keep the registers' types and to do one of four things to memory (nothing, stores at
  known addresses, a push, a pop); the four are then shown to keep `StackInv`. That
  invariant says that an entry whose bytes no store went over is still in memory at
  `Slot` of its depth, a place that no push or pop moves, since pointer and depth change
  together modulo 256. `TypeOK` does not imply it, and nothing about a return follows
  without it. `BitsOfByte` says that the flags' byte has them all. The lemmas about the
  operators of `CpuAlu` hold for all operands and flags: `WideComputesWords` follows from
  `AdcComputes` (one byte, its carry in and out) applied twice, and for a difference from the
  complement of a word being that of its halves; `DivDivides` from `QuotientFits` (when V is
  clear nothing of the quotient is cut off); `StoresStayInPage` from a lemma for each kind of
  column of the opcode table, as the column fixes how an address is made.
* **BufWrProofs.** `TypeCorrect`, `NoByteLost` and `FailsWithSystem`, for every size of
  buffer and any sequence of calls and answers. The invariant is `TypeOK /\ Answering /\
  NothingLost`: `Answering` says what the call that waits in `fd_write` has handed over and
  what of it is still to come (a flush the buffer, a direct write the caller's bytes), without which the bytes that
  remain after a short `write(2)` could be any. `FailsWithSystem` needs writes shorter than
  twice the buffer: a longer one flushes an empty buffer and fails by itself (section 6).
* **PlayerProofs.** `WholeFile` and `SamplesInStep` for the player itself, `Implements` and
  `OnlyOsFails` down to each system call. `ImageInv` says that what the parts read so
  far hold is of the file now read; `PaceInv` ties the retired instructions to
  the samples through the phase of the divider, and rests on the quotient being unique
  (`QuotientUnique`). The refinement's invariant has three parts: `Stages` (which writer calls
  can be under way at each point of the player), `Counts` (how many bytes were accepted by
  then) and the writer's own invariant, which is not proved again but taken from
  `BufWrProofs` by `INSTANCE`. `Implements` assumes that `pwrite(2)` is never short:
  `wav_short` shows what happens when it is.
* **DspSignalProofs.** `VoicePlaysAtPitch` and `InterpolationNeverWraps`, for every memory,
  sample data, pitch, store and file, and any table that meets `GaussAssumption`.
  `PlaysAtPitch` alone is not inductive: it says where the interpolator reads, and nothing of
  the rest of the ring or of a voice that still waits. The invariant has `Ring` (the twelve
  places hold the last twelve samples, the oldest at `buf_pos`) and `InStep`:
  `interp_pos` is what the pitches add up to less 16384 for each group decoded since, and a
  delayed voice has decoded one group a sample. A voice that was never keyed on has
  nothing decoded, so it must also be shown to stay silent (`StaysSilent`).

  `ImplementsParts` says that a behaviour of the whole is one of `DspVoice` and one of
  `DspEcho`: each pass of `next_sample` and each store is a step of both, or leaves one alone.
  With it the invariants of `DspVoiceProofs` and `DspEchoProofs` are taken over by `INSTANCE`,
  not proved again. `EchoDies` rests on them, on the types of all sample values
  (`SampleTypes`) and on `QuietInv`, which follows the silence through the echo: once nothing
  enters, every slot passed since holds nought (`QuietSlots`), a turn of the ring later so
  does what the filter takes in (`QuietHist`), and eight samples later what it gives out.

  Besides the components' assumptions these need that no block reaches past the end of memory
  (`BlocksAssumption`), where `brr_byte` would read beyond `aram`, as the address it makes is
  an `int` (`src/dsp.c:612`), that ring and memory are whole words, and that the other voices put
  out no more than `pan` can (`OthersAssumption`).

  `OutsideIsKept` needs only the echo's bounds and the types: a sample changes at most words of
  the ring that starts at the page of ESA which the sample before saw.

  The last section is about `DspCounter`: `NoRateLate` and
  `RatesKeepTime` hold of all 31 rates from every restore on. Their invariant gives each
  rate a `Phase`, how far its mask and its countdown have come together, which a sample
  steps modulo the period; a rate that has fired has been counting for exactly its phase.
  `CountersMayFire` ties the two modules: what a counter answers, firing or not, is always
  among the answers that `DspVoice` allows a rate.

Only model-checked is all liveness (`TimersComeRound`, `CallsReturn`, `ReleaseEnds`,
`RingTurns`, `PlayerEnds`), which with `ENABLED`, induction over data and `RECURSIVE`
operators is beyond the prover; the three violations are counterexamples and have no theorem.
No module declares a recursive operator: the sums of eight (`FirSum`, `Blend`) are recursive
functions of fixed length, which the proofs unroll. Of the
table `gauss` the proofs use only what `GaussAssumption` says.

## 6. Where the code and its comments disagree

Shown by a run (`findings` in `PROJECT.json`):

* `apu_ctrl`: the T2 bit of CTRL starts timer 1 (`src/apu.c:106`). Timer 2, which a clear bit
  disables ("Timer: T2: disable", line 108) and which is ticked as the "64KHz clock (T2)" (line
  289), never runs, and a program that uses it gets timer 1 running, or restarted.
* `apu_reads`: a load of any TnOUT clears T0OUT, as `APU_OFF` (`src/apu.h:25`) is zero
  for every register number.
* `wav_short`: after a short `pwrite(2)`, `fd_pwrite` writes the buffer's start again
  (`src/fd.c:136`), though it says it handles short writes.

Met while modelling, modelled as the code has them:

* `incw` and `decw` ("Increment 16 bit word at direct page", `src/spc700.c:2673`) hand a 16-bit
  result to `mem_store`, which takes a byte: the low byte is stored and the carry into the high
  one is lost (`src/spc700.c:2670`, `2683`).
* A divisor takes effect at any CTRL store with the bit set, not only when it is toggled
  on, and each such store restarts the timer (`src/apu.c:179`).
* A store to the window while the ROM shows changes the ROM that is read
  (`src/spc700.c:276`), and is undone by hiding it.
* A second file is loaded with the flag the first one left (`src/spc700.c:256`): if both
  show the ROM, the early return leaves the second file's RAM in the window.
* A `bufwr_write` too large for the empty buffer flushes nothing, `write(2)` answers 0,
  and that is taken for a lost connection (`src/bufwr.c:84`); on a leaked descriptor the
  direct write goes to -1 (`src/bufwr.c:87`).
* `kon` is overwritten by the new key-ons of each poll, so a KON bit that is left set
  starts its voice again at every second poll (`src/dsp.c:1178`).
* `tcall_9` calls slot 0 (`src/spc700.c:834`); `mov [dp+X],A` stores to the pointer's
  address (`src/spc700.c:2944`); `mov X,dp` sets no flags (`src/spc700.c:2984`).
* The table has no `mov SP,X` (`$bd`), the boot ROM's second instruction: a program that
  jumps to the ROM halts.
* `adc(...) | (adc(...) << 8)` (`src/spc700.c:644`) relies on an order of calls that C does
  not give; modelled in the order GCC and Clang use.
* MVOL and EVOL are shifted left by four and then cut to eight bits (`src/dsp.c:1245-1260`):
  only the low nibble of a volume counts, and 8 to 15 invert it.
* A key-on decodes a group of four samples at each of the four values of `attack_delay` up to 3, zero
  included, into a ring of twelve: the first four samples of a source are never heard
  (`PlaysAtPitch` states the offset). It does not clear the ring either, so a first block with a
  filter predicts from samples of what the voice played before.
* The interpolated sum of samples within 70 of full scale may pass 16 bits and change sign
  (`src/dsp.c:1007`): `InterpolationFits` excludes them.
* With feedback the division that rounds down keeps a negative echo from reaching zero:
  `EchoDiesOut` is stated for EFB at zero.
* The sample dump's decoder asserts a shift of at most 12, drops the last block of a sample and
  truncates where `brr_sample4` clamps (`src/dsp.c:565-700`).
* `brr_byte` advances the offset and is called twice in one initializer list
  (`src/dsp.c:633`): modelled in the order written.
* `exit(0)` at the samples' limit (`src/dsp.c:1333`) reports success though an earlier file
  failed to load, which `main` would have answered with a failure (`src/main.c:178`).
* `wav_create` returns the pointer it freed when it fails (`src/wav.c:118`); `Wav` stops
  there, as anything may follow.

## 7. What is not modelled

* Noise and pitch modulation, which the code leaves to do (`src/dsp.c:979`, `1004`).
* The dump of samples to `src-N.wav` and its decoder `decode_brr`: nothing calls them.
* Sample data that changes: `DspVoice` and `DspSignal` hold memory constant, so that a second
  file's RAM, loaded while a voice is in the middle of a block of the first's, is not covered
  by `OnBlock` and `PlaysAtPitch`. Its registers are.
* Eight voices at once: one is decoded from memory, and what the others put out is any of a set,
  as voices share nothing but the registers' bits and the sum.
* A song file's tags, writing `aram.bin`, hex dumps, logging, the opcode
  table generator, build files, and ccan's headers.
* What happens after undefined behaviour (`wav_create`'s dangling pointer, a BRR block
  read past the end of `aram`).

## 8. What comes next

1. Model: a `Machine` that composes the interpreter's instructions (`Cpu`) with the clocks
   (`Apu`), so that a property can relate a store of the program to the tick or the sample
   it affects; `dump_srcn`, should something come to call it.
2. Prove: with sample data and ring in one memory, that a voice whose blocks lie outside the
   ring never decodes what the echo wrote (`WritesInRing`, of words), so that the separation of
   `Ram` and `words` becomes a theorem of where ESA and EDL point.
