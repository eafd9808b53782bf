------------------------------- MODULE IplRom -------------------------------
(***************************************************************************)
(* The boot ROM as the program builds it by default (src/spc700.c without  *)
(* ACCURATE_IPL_ROM): every load reads aram, and the ROM is shown by       *)
(* copying it over the top of aram, the bytes it covers kept in extra_ram. *)
(***************************************************************************)
EXTENDS Naturals

CONSTANTS
  Addr, RomAddr, Byte, ipl_rom,
  Files,            \* the song files: a RAM image, the extra bytes, the ROM bit
  MaxFiles,         \* bound: how many files one invocation plays
  StoresUnderRom    \* whether programs store to the window while it shows ROM

ASSUME RomAssumption ==
  RomAddr \subseteq Addr /\ ipl_rom \in [RomAddr -> Byte] /\ 0 \in Byte
ASSUME FilesAssumption ==
  Files \subseteq [ram : [Addr -> Byte], extra : [RomAddr -> Byte], show : BOOLEAN]
ASSUME BoundAssumption == MaxFiles \in Nat /\ StoresUnderRom \in BOOLEAN

VARIABLES
  aram,       \* what loads and fetches read
  extra_ram,  \* the RAM under the shown ROM
  show_rom,
  files,      \* how many files have been loaded
  kept        \* history: the window as the program last left it, by a file or a
              \* store, without the ROM

vars == <<aram, extra_ram, show_rom, files, kept>>

Window(m) == [a \in RomAddr |-> m[a]]

\* memcpy(aram + IPL_ROM_BASE, src, IPL_ROM_SIZE)
Overlay(m, src) == [a \in Addr |-> IF a \in RomAddr THEN src[a] ELSE m[a]]

\* Mutant: the bytes under the ROM are not saved.
SetShowNoSave(m, extra, show) ==
  /\ show_rom' = show
  /\ extra_ram' = extra
  /\ aram' = IF show = show_rom THEN m
             ELSE IF show THEN Overlay(m, ipl_rom) ELSE Overlay(m, extra)

\* Mutant: the early return is missing.
SetShowAlways(m, extra, show) ==
  /\ show_rom' = show
  /\ extra_ram' = IF show THEN Window(m) ELSE extra
  /\ aram' = IF show THEN Overlay(m, ipl_rom) ELSE Overlay(m, extra)

\* Mutant: the flag is set and nothing is copied in.
SetShowNoCopy(m, extra, show) ==
  /\ show_rom' = show
  /\ extra_ram' = IF show /\ ~show_rom THEN Window(m) ELSE extra
  /\ aram' = m

\* _apu_set_show_ipl_rom, on memory m and saved bytes extra.
SetShow(m, extra, show) ==
  /\ show_rom' = show
  /\ extra_ram' = IF show /\ ~show_rom THEN Window(m) ELSE extra
  /\ aram' = IF show = show_rom THEN m
             ELSE IF show THEN Overlay(m, ipl_rom) ELSE Overlay(m, extra)

Init ==
  /\ aram = [a \in Addr |-> 0]
  /\ extra_ram = [a \in RomAddr |-> 0]
  /\ show_rom = FALSE
  /\ files = 0
  /\ kept = extra_ram

\* setup_spc700: spc700_restore replaces aram and extra_ram, leaving show_rom as
\* the previous file left it; then apu_restore stores the file's CTRL byte.
LoadFile(f) ==
  /\ files < MaxFiles
  /\ files' = files + 1
  /\ SetShow(f.ram, f.extra, f.show)
  /\ kept' = Window(f.ram)

\* A store to CTRL by a running program.
StoreCtrl(show) ==
  /\ files > 0
  /\ SetShow(aram, extra_ram, show)
  /\ UNCHANGED <<files, kept>>

\* mem_store, and the echo writes of the DSP: aram is written whatever it shows.
Store(a, b) ==
  /\ files > 0
  /\ show_rom /\ a \in RomAddr => StoresUnderRom
  /\ aram' = [aram EXCEPT ![a] = b]
  /\ kept' = IF a \in RomAddr /\ ~show_rom THEN [kept EXCEPT ![a] = b] ELSE kept
  /\ UNCHANGED <<extra_ram, show_rom, files>>

Next ==
  \/ \E f \in Files : LoadFile(f)
  \/ \E show \in BOOLEAN : StoreCtrl(show)
  \/ \E a \in Addr, b \in Byte : Store(a, b)

Spec == Init /\ [][Next]_vars

-----------------------------------------------------------------------------
(* Properties                                                              *)

\* Memory keeps its shape through every copy.
TypeOK ==
  /\ aram \in [Addr -> Byte]
  /\ extra_ram \in [RomAddr -> Byte]
  /\ show_rom \in BOOLEAN
  /\ files \in 0 .. MaxFiles
  /\ kept \in [RomAddr -> Byte]

\* "Mask ROM" (src/spc700.c:62), "Top 64 bytes of address space are the IPL
\* ROM" (src/apu.h:48): while the ROM is shown, that is what loads return.
RomVisible == show_rom => Window(aram) = ipl_rom

\* _apu_set_show_ipl_rom: however often the ROM is shown and hidden, the RAM
\* under it is what the program last put there: hidden in extra_ram while the
\* ROM shows, back in place when it does not.
RamUnderRomKept == kept = IF show_rom THEN extra_ram ELSE Window(aram)

\* The copying build implements RomMemory: RAM is extra_ram under a shown ROM
\* and aram elsewhere.
Memory == INSTANCE RomMemory WITH
  ram  <- [a \in Addr |-> IF show_rom /\ a \in RomAddr THEN extra_ram[a] ELSE aram[a]],
  show <- show_rom

ImplementsRomMemory == Memory!Spec

\* Every load returns what RomMemory's load returns.
LoadsAgree == \A a \in Addr : aram[a] = Memory!View(a)
=============================================================================
