----------------------------- MODULE RomMemory -----------------------------
(***************************************************************************)
(* What the SPC700 sees of its 64 KiB: RAM, with the 64-byte boot ROM in   *)
(* front of the top of it while CTRL_BOOT_ROM is set.  This is the build   *)
(* with ACCURATE_IPL_ROM (src/spc700.c), which decides at every load and   *)
(* never copies.  IplRom is shown to implement it.                         *)
(***************************************************************************)
EXTENDS Naturals

CONSTANTS
  Addr,     \* the address space
  RomAddr,  \* the addresses for which ipl_rom_address() holds
  Byte,     \* memory contents
  ipl_rom   \* the mask ROM

VARIABLES
  ram,    \* aram
  show,   \* show_rom
  files   \* how many files have been loaded

\* mem_load
View(a) == IF show /\ a \in RomAddr THEN ipl_rom[a] ELSE ram[a]

Init == ram \in [Addr -> Byte] /\ show = FALSE /\ files = 0

\* spc700_restore, then the CTRL store of apu_restore
LoadFile == ram' \in [Addr -> Byte] /\ show' \in BOOLEAN /\ files' = files + 1

\* _apu_set_show_ipl_rom
SetShow == show' \in BOOLEAN /\ UNCHANGED <<ram, files>>

\* mem_store: RAM is written under the ROM as well
Store ==
  /\ \E a \in Addr, b \in Byte : ram' = [ram EXCEPT ![a] = b]
  /\ UNCHANGED <<show, files>>

Next == LoadFile \/ SetShow \/ Store

Spec == Init /\ [][Next]_<<ram, show, files>>
=============================================================================
