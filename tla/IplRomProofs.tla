---------------------------- MODULE IplRomProofs ----------------------------
(***************************************************************************)
(* Proofs about IplRom: for every address space, ROM and set of files.     *)
(***************************************************************************)
EXTENDS IplRom, TLAPS

\* The two memories after a change of the flag are memories again.
LEMMA SetShowType ==
  ASSUME show_rom \in BOOLEAN,
         NEW m \in [Addr -> Byte], NEW x \in [RomAddr -> Byte], NEW show \in BOOLEAN,
         SetShow(m, x, show)
  PROVE  /\ aram' \in [Addr -> Byte]
         /\ extra_ram' \in [RomAddr -> Byte]
         /\ show_rom' \in BOOLEAN
<1>1. Window(m) \in [RomAddr -> Byte]
  BY RomAssumption DEF Window
<1>2. Overlay(m, ipl_rom) \in [Addr -> Byte] /\ Overlay(m, x) \in [Addr -> Byte]
  BY RomAssumption DEF Overlay
<1> QED BY <1>1, <1>2 DEF SetShow

\* The saved bytes and the window change places.
LEMMA OverlayWindow ==
  ASSUME NEW m, NEW x \in [RomAddr -> Byte]
  PROVE  Window(Overlay(m, x)) = x
BY RomAssumption DEF Window, Overlay

\* Memory keeps its shape through every copy.
THEOREM TypeCorrect == Spec => []TypeOK
<1>1. Init => TypeOK
  <2>1. 0 \in 0 .. MaxFiles
    BY BoundAssumption
  <2> QED BY <2>1, RomAssumption DEF Init, TypeOK
<1>2. ASSUME TypeOK, [Next]_vars PROVE TypeOK'
  <2>1. ASSUME NEW f \in Files, LoadFile(f) PROVE TypeOK'
    <3>1. /\ f.ram \in [Addr -> Byte] /\ f.extra \in [RomAddr -> Byte]
          /\ f.show \in BOOLEAN
      BY FilesAssumption
    <3>2. SetShow(f.ram, f.extra, f.show) /\ kept' = Window(f.ram)
          /\ files' = files + 1 /\ files < MaxFiles
      BY <2>1 DEF LoadFile
    <3>3. kept' \in [RomAddr -> Byte]
      BY <3>1, <3>2, RomAssumption DEF Window
    <3>4. files' \in 0 .. MaxFiles
      BY <1>2, <3>2, BoundAssumption DEF TypeOK
    <3>5. aram' \in [Addr -> Byte] /\ extra_ram' \in [RomAddr -> Byte] /\ show_rom' \in BOOLEAN
      BY <1>2, <3>1, <3>2, SetShowType DEF TypeOK
    <3> QED BY <3>3, <3>4, <3>5 DEF TypeOK
  <2>2. ASSUME NEW show \in BOOLEAN, StoreCtrl(show) PROVE TypeOK'
    <3>1. SetShow(aram, extra_ram, show) /\ UNCHANGED <<files, kept>>
      BY <2>2 DEF StoreCtrl
    <3>2. aram' \in [Addr -> Byte] /\ extra_ram' \in [RomAddr -> Byte] /\ show_rom' \in BOOLEAN
      BY <1>2, <3>1, SetShowType DEF TypeOK
    <3> QED BY <1>2, <3>1, <3>2 DEF TypeOK
  <2>3. ASSUME NEW a \in Addr, NEW b \in Byte, Store(a, b) PROVE TypeOK'
    BY <1>2, <2>3 DEF Store, TypeOK
  <2>4. CASE UNCHANGED vars
    BY <1>2, <2>4 DEF vars, TypeOK
  <2> QED BY <1>2, <2>1, <2>2, <2>3, <2>4 DEF Next
<1> QED BY <1>1, <1>2, PTL DEF Spec

\* The first file finds the ROM hidden, so that a change of the flag and the
\* copy it calls for go together from then on.
FirstFile == files = 0 => ~show_rom

\* SetShow moves the RAM bytes of the window between aram and extra_ram.
LEMMA SetShowKeeps ==
  ASSUME show_rom \in BOOLEAN,
         NEW m \in [Addr -> Byte], NEW x \in [RomAddr -> Byte], NEW show \in BOOLEAN,
         SetShow(m, x, show),
         NEW k, k = IF show_rom THEN x ELSE Window(m)
  PROVE  k = IF show_rom' THEN extra_ram' ELSE Window(aram')
<1>1. Window(Overlay(m, x)) = x
  BY OverlayWindow
<1>2. CASE show = show_rom
  BY <1>2 DEF SetShow
<1>3. CASE show # show_rom
  BY <1>1, <1>3 DEF SetShow
<1> QED BY <1>2, <1>3

\* One file: showing and hiding the ROM, in any order and with stores under it
\* or without, keeps what the program last put in the RAM behind it.
THEOREM RamKept == ASSUME MaxFiles = 1 PROVE Spec => []RamUnderRomKept
<1> DEFINE Inv == TypeOK /\ FirstFile /\ RamUnderRomKept
<1>1. Init => RamUnderRomKept /\ FirstFile
  <2>1. ASSUME Init PROVE Window(aram) = extra_ram
    BY <2>1, RomAssumption DEF Init, Window
  <2> QED BY <2>1 DEF Init, RamUnderRomKept, FirstFile
<1>2. ASSUME TypeOK, FirstFile, RamUnderRomKept, [Next]_vars
      PROVE  FirstFile' /\ RamUnderRomKept'
  <2>1. ASSUME NEW f \in Files, LoadFile(f) PROVE FirstFile' /\ RamUnderRomKept'
    <3>1. /\ f.ram \in [Addr -> Byte] /\ f.extra \in [RomAddr -> Byte]
          /\ f.show \in BOOLEAN
      BY FilesAssumption
    <3>2. SetShow(f.ram, f.extra, f.show) /\ kept' = Window(f.ram) /\ files' = 1 /\ files = 0
      BY <1>2, <2>1 DEF LoadFile, TypeOK
    <3>3. ~show_rom
      BY <1>2, <3>2 DEF FirstFile
    <3>4. Window(f.ram) = IF show_rom' THEN extra_ram' ELSE Window(aram')
      <4>1. Window(f.ram) = IF show_rom THEN f.extra ELSE Window(f.ram)
        BY <3>3
      <4> QED BY <1>2, <3>1, <3>2, <4>1, SetShowKeeps DEF TypeOK
    <3> QED BY <3>2, <3>4 DEF RamUnderRomKept, FirstFile
  <2>2. ASSUME NEW show \in BOOLEAN, StoreCtrl(show) PROVE FirstFile' /\ RamUnderRomKept'
    <3>1. SetShow(aram, extra_ram, show) /\ files' = files /\ kept' = kept /\ files > 0
      BY <2>2 DEF StoreCtrl
    <3>2. kept = IF show_rom' THEN extra_ram' ELSE Window(aram')
      BY <1>2, <3>1, SetShowKeeps DEF TypeOK, RamUnderRomKept
    <3>3. files' # 0
      BY <1>2, <3>1 DEF TypeOK
    <3> QED BY <3>1, <3>2, <3>3 DEF RamUnderRomKept, FirstFile
  <2>3. ASSUME NEW a \in Addr, NEW b \in Byte, Store(a, b) PROVE FirstFile' /\ RamUnderRomKept'
    <3>1. /\ aram' = [aram EXCEPT ![a] = b] /\ extra_ram' = extra_ram
          /\ show_rom' = show_rom /\ files' = files
          /\ kept' = IF a \in RomAddr /\ ~show_rom THEN [kept EXCEPT ![a] = b] ELSE kept
      BY <2>3 DEF Store
    <3>2. FirstFile'
      BY <1>2, <3>1 DEF FirstFile
    <3>3. CASE show_rom
      BY <1>2, <3>1, <3>3, <3>2 DEF RamUnderRomKept
    <3>4. CASE ~show_rom /\ a \in RomAddr
      <4>1. kept = Window(aram)
        BY <1>2, <3>4 DEF RamUnderRomKept
      <4>2. [Window(aram) EXCEPT ![a] = b] = Window([aram EXCEPT ![a] = b])
        BY <1>2, <3>4, RomAssumption DEF Window, TypeOK
      <4> QED BY <3>1, <3>4, <3>2, <4>1, <4>2 DEF RamUnderRomKept
    <3>5. CASE ~show_rom /\ a \notin RomAddr
      <4>1. kept = Window(aram)
        BY <1>2, <3>5 DEF RamUnderRomKept
      <4>2. Window(aram) = Window([aram EXCEPT ![a] = b])
        BY <1>2, <3>5, RomAssumption DEF Window, TypeOK
      <4> QED BY <3>1, <3>5, <3>2, <4>1, <4>2 DEF RamUnderRomKept
    <3> QED BY <3>3, <3>4, <3>5
  <2>4. CASE UNCHANGED vars
    BY <1>2, <2>4 DEF vars, FirstFile, RamUnderRomKept
  <2> QED BY <1>2, <2>1, <2>2, <2>3, <2>4 DEF Next
<1> QED BY <1>1, <1>2, TypeCorrect, PTL DEF Spec

\* One file and no store to the window while it shows the ROM: the ROM is what
\* loads return ("Mask ROM", "Top 64 bytes of address space are the IPL ROM").
THEOREM RomShown == ASSUME MaxFiles = 1, ~StoresUnderRom PROVE Spec => []RomVisible
<1>1. Init => RomVisible /\ FirstFile
  BY DEF Init, RomVisible, FirstFile
<1>2. ASSUME TypeOK, FirstFile, RomVisible, [Next]_vars
      PROVE  FirstFile' /\ RomVisible'
  <2>0. ASSUME NEW m PROVE Window(Overlay(m, ipl_rom)) = ipl_rom
    BY OverlayWindow, RomAssumption
  <2>1. ASSUME NEW f \in Files, LoadFile(f) PROVE FirstFile' /\ RomVisible'
    <3>1. SetShow(f.ram, f.extra, f.show) /\ files' = 1 /\ files = 0
      BY <1>2, <2>1 DEF LoadFile, TypeOK
    <3>2. f.show \in BOOLEAN /\ show_rom = FALSE
      BY <1>2, <3>1, FilesAssumption DEF FirstFile, TypeOK
    <3> QED BY <2>0, <3>1, <3>2 DEF SetShow, RomVisible, FirstFile
  <2>2. ASSUME NEW show \in BOOLEAN, StoreCtrl(show) PROVE FirstFile' /\ RomVisible'
    <3>1. SetShow(aram, extra_ram, show) /\ files' # 0
      BY <1>2, <2>2 DEF StoreCtrl, TypeOK
    <3> QED BY <1>2, <2>0, <3>1 DEF SetShow, RomVisible, FirstFile, TypeOK
  <2>3. ASSUME NEW a \in Addr, NEW b \in Byte, Store(a, b) PROVE FirstFile' /\ RomVisible'
    <3>1. /\ aram' = [aram EXCEPT ![a] = b] /\ show_rom' = show_rom /\ files' = files
          /\ show_rom => a \notin RomAddr
      BY <2>3 DEF Store
    <3>2. show_rom => Window(aram') = Window(aram)
      BY <1>2, <3>1, RomAssumption DEF Window, TypeOK
    <3> QED BY <1>2, <3>1, <3>2 DEF FirstFile, RomVisible
  <2>4. CASE UNCHANGED vars
    BY <1>2, <2>4 DEF vars, FirstFile, RomVisible
  <2> QED BY <1>2, <2>1, <2>2, <2>3, <2>4 DEF Next
<1> QED BY <1>1, <1>2, TypeCorrect, PTL DEF Spec

\* The refinement mapping.
MappedRam == [a \in Addr |-> IF show_rom /\ a \in RomAddr THEN extra_ram[a] ELSE aram[a]]

\* The memory that RomMemory is shown is memory.
LEMMA MappedType == TypeOK => MappedRam \in [Addr -> Byte]
BY RomAssumption DEF TypeOK, MappedRam

\* The copying build implements the one that decides at every load
\* (ACCURATE_IPL_ROM), and its loads return the same bytes.
THEOREM Implements ==
  ASSUME MaxFiles = 1, ~StoresUnderRom PROVE Spec => ImplementsRomMemory
<1>1. Init => Memory!Init
  <2> SUFFICES ASSUME Init PROVE Memory!Init
    OBVIOUS
  <2>1. MappedRam \in [Addr -> Byte] /\ show_rom = FALSE /\ files = 0
    BY RomAssumption DEF Init, MappedRam
  <2> QED BY <2>1 DEF Memory!Init, MappedRam
<1>2. ASSUME TypeOK, TypeOK', FirstFile, [Next]_vars
      PROVE  [Memory!Next]_<<MappedRam, show_rom, files>>
  <2>0. MappedRam \in [Addr -> Byte] /\ MappedRam' \in [Addr -> Byte] /\ show_rom' \in BOOLEAN
    <3>1. MappedRam' \in [Addr -> Byte] /\ show_rom' \in BOOLEAN
      BY <1>2, RomAssumption DEF TypeOK, MappedRam
    <3> QED BY <1>2, <3>1, MappedType
  <2>1. ASSUME NEW f \in Files, LoadFile(f) PROVE Memory!LoadFile
    BY <2>0, <2>1 DEF LoadFile, Memory!LoadFile, MappedRam
  <2>2. ASSUME NEW show \in BOOLEAN, StoreCtrl(show) PROVE Memory!SetShow
    <3>1. SetShow(aram, extra_ram, show) /\ files' = files
      BY <2>2 DEF StoreCtrl
    <3>2. ASSUME NEW a \in Addr PROVE MappedRam'[a] = MappedRam[a]
      <4>1. CASE show = show_rom
        BY <1>2, <3>1, <4>1 DEF SetShow, MappedRam
      <4>2. CASE show # show_rom
        BY <1>2, <3>1, <4>2 DEF SetShow, MappedRam, Overlay, Window, TypeOK
      <4> QED BY <4>1, <4>2
    <3>3. MappedRam' = MappedRam
      BY <2>0, <3>2
    <3> QED BY <2>0, <3>1, <3>3 DEF Memory!SetShow, MappedRam
  <2>3. ASSUME NEW a \in Addr, NEW b \in Byte, Store(a, b) PROVE Memory!Store
    <3>1. /\ aram' = [aram EXCEPT ![a] = b] /\ extra_ram' = extra_ram /\ show_rom' = show_rom
          /\ files' = files
          /\ show_rom => a \notin RomAddr
      BY <2>3 DEF Store
    <3>2. MappedRam' = [MappedRam EXCEPT ![a] = b]
      BY <1>2, <3>1 DEF MappedRam, TypeOK
    <3> QED BY <3>1, <3>2 DEF Memory!Store, MappedRam
  <2>4. CASE UNCHANGED vars
    BY <2>4 DEF vars, MappedRam
  <2> QED BY <1>2, <2>1, <2>2, <2>3, <2>4 DEF Next, Memory!Next
<1>3. Spec => []FirstFile
  <2>1. Init => FirstFile
    BY DEF Init, FirstFile
  <2>2. ASSUME TypeOK, FirstFile, [Next]_vars PROVE FirstFile'
    BY <2>2, BoundAssumption
      DEF Next, LoadFile, StoreCtrl, Store, vars, FirstFile, TypeOK
  <2> QED BY <2>1, <2>2, TypeCorrect, PTL DEF Spec
<1> QED BY <1>1, <1>2, <1>3, TypeCorrect, PTL
    DEF Spec, Memory!Spec, MappedRam, ImplementsRomMemory

\* Every load of the copying build returns what RomMemory's load returns.
THEOREM SameLoads == ASSUME MaxFiles = 1, ~StoresUnderRom PROVE Spec => []LoadsAgree
<1>1. TypeOK /\ RomVisible => LoadsAgree
  BY RomAssumption DEF TypeOK, RomVisible, LoadsAgree, Memory!View, Window
<1> QED BY <1>1, TypeCorrect, RomShown, PTL
=============================================================================
