--------------------------- MODULE CavePlanProofs ---------------------------
(***************************************************************************)
(* The parts of a cave never overlap and never overflow it, for plugins    *)
(* with any number of sites, handlers, wrappers and calls.                 *)
(***************************************************************************)
EXTENDS CavePlan, TLAPS

Sites == plugin.sites
Wrappers == plugin.wrappers

\* The room reserved for each dispatcher and each wrapper.
DispatchRoom == [n \in 1 .. Len(Sites) |-> HookDispatchSize(Sites[n])]
WrapperRoom == [n \in 1 .. Len(Wrappers) |-> WrapperMaxSize(Wrappers[n])]

\* Read-only data follow the code, in the same segment.
DataRoom == IF plugin.writable THEN 0 ELSE plugin.extra

\* Rooms that begin at the offsets of a sequence end by an offset; and each
\* ends where a later one begins, or before.
EndBy(at, room, end) == \A i \in 1 .. Len(at) : at[i] + room[i] <= end
InTurn(at, room) == \A i, j \in 1 .. Len(at) : i < j => at[i] + room[i] <= at[j]

ReservedInv ==
  /\ Len(control) <= Len(Sites) /\ Len(wrapper) <= Len(Wrappers)
  /\ pc = "dispatchers" => /\ k = Len(control) + 1
                           /\ wrapper # <<>> => Len(control) = Len(Sites)
  /\ pc # "dispatchers" => Len(control) = Len(Sites) /\ Len(wrapper) = Len(Wrappers)
  /\ EndBy(control, DispatchRoom, cursor) /\ InTurn(control, DispatchRoom)
  /\ EndBy(wrapper, WrapperRoom, cursor) /\ InTurn(wrapper, WrapperRoom)
  /\ \A n \in 1 .. Len(wrapper) : Aligned(wrapper[n]) /\ EndBy(control, DispatchRoom, wrapper[n])

CodeInv == pc # "dispatchers" =>
  /\ codeOffset + TextAligned + DataRoom <= segmentSize
  /\ EndBy(control, DispatchRoom, codeOffset)
  /\ EndBy(wrapper, WrapperRoom, codeOffset)

\* A part lies in the room reserved for it.
InItsRoom(p) ==
  /\ p.kind = "code" => p.at = codeOffset /\ p.size <= TextAligned /\ p.n = 1
  /\ p.kind = "extra" => /\ ~plugin.writable /\ p.n = 1
                         /\ p.at = codeOffset + TextAligned /\ p.size <= plugin.extra
  /\ p.kind = "wrapper" => /\ p.n \in 1 .. Len(wrapper)
                           /\ p.at = wrapper[p.n] /\ p.size <= WrapperRoom[p.n]
  /\ p.kind = "control" => /\ p.n \in 1 .. Len(control)
                           /\ p.at = control[p.n] /\ p.size <= DispatchRoom[p.n]

PlacedInv == /\ pc = "dispatchers" => placed = {} /\ error = "none"
             /\ Near => \A p \in placed : InItsRoom(p)
             /\ Near => error = "none"

BuiltInv == /\ pc = "dispatchers" => built = 0
            /\ pc = "resolve" => k <= plugin.calls + 1 /\ built <= plugin.text + 20 * (k - 1)
            /\ built <= MaxTextBytes

\* The inductive invariant.
IInv == TypeOK /\ ReservedInv /\ CodeInv /\ PlacedInv /\ BuiltInv

-----------------------------------------------------------------------------
\* Rounding up adds less than one unit and yields a multiple of 4.
LEMMA AlignUpBounds ==
  ASSUME NEW n \in Nat, NEW to \in {4, 16}
  PROVE  /\ AlignUp(n, to) \in Nat
         /\ n <= AlignUp(n, to)
         /\ Aligned(AlignUp(n, to))
<1>1. CASE to = 4
  BY <1>1 DEF AlignUp, Aligned
<1>2. CASE to = 16
  BY <1>2 DEF AlignUp, Aligned
<1>3. QED  BY <1>1, <1>2

\* What is aligned to 16 is aligned to 4.
LEMMA AlignUp16 ==
  ASSUME NEW n \in Nat
  PROVE  AlignUp(n, 16) % 16 = 0
BY DEF AlignUp

\* Sums and differences of aligned offsets are aligned.
LEMMA AlignedSums ==
  ASSUME NEW a \in Int, NEW b \in Int, Aligned(a), Aligned(b)
  PROVE  Aligned(a + b) /\ Aligned(a - b) /\ (a - b) % 4 = 0
BY DEF Aligned

\* Whole words are aligned.
LEMMA AlignedWords ==
  ASSUME NEW n \in Int
  PROVE  Aligned(4 * n) /\ Aligned(4 + 4 * n)
BY DEF Aligned

\* What CavePlanAssumption says of the plugin of a run.
LEMMA PluginFacts ==
  ASSUME TypeOK
  PROVE  /\ Sites \in Seq(Site) /\ Wrappers \in Seq(Wrapper)
         /\ plugin.text \in Nat /\ plugin.calls \in Nat /\ plugin.extra \in Nat
         /\ plugin.writable \in BOOLEAN /\ plugin.macho \in BOOLEAN
         /\ \A n \in 1 .. Len(Wrappers) : Aligned(Wrappers[n].entry) /\ Wrappers[n].entry <= plugin.text
         /\ base \in Nat /\ Aligned(base)
<1>1. plugin \in Plugins /\ plugin \in Plugin /\ base \in Bases
  BY CavePlanAssumption DEF TypeOK
<1>2. base \in Nat /\ Aligned(base)
  BY <1>1, CavePlanAssumption
<1>3. \A n \in 1 .. Len(Wrappers) : Aligned(Wrappers[n].entry) /\ Wrappers[n].entry <= plugin.text
  BY <1>1, CavePlanAssumption DEF Wrappers
<1>4. QED  BY <1>1, <1>2, <1>3 DEF Plugin, Sites, Wrappers

\* The offsets of the layout are numbers.
LEMMA LayoutTyped ==
  ASSUME TypeOK
  PROVE  /\ cursor \in Nat /\ codeOffset \in Nat /\ segmentSize \in Nat /\ built \in Nat
         /\ k \in Nat \ {0}
         /\ control \in Seq(Nat) /\ Len(control) \in Nat /\ \A n \in 1 .. Len(control) : control[n] \in Nat
         /\ wrapper \in Seq(Nat) /\ Len(wrapper) \in Nat /\ \A n \in 1 .. Len(wrapper) : wrapper[n] \in Nat
         /\ codeOffset % 16 = 0 /\ Aligned(codeOffset)
<1>1. /\ cursor \in Nat /\ codeOffset \in Nat /\ segmentSize \in Nat /\ built \in Nat
      /\ k \in Nat \ {0} /\ codeOffset % 16 = 0
  BY DEF TypeOK
<1>2. Aligned(codeOffset)
  BY <1>1 DEF Aligned
<1>3. control \in Seq(Nat) /\ wrapper \in Seq(Nat)
  BY DEF TypeOK
<1>4. QED  BY <1>1, <1>2, <1>3

\* The room for the code is enough for the code with a veneer at each call.
LEMMA Bounds ==
  ASSUME TypeOK
  PROVE  /\ SaveSize \in {4, 8}
         /\ MaxTextBytes \in Nat /\ MaxTextBytes = plugin.text + 20 * plugin.calls
         /\ TextAligned \in Nat /\ MaxTextBytes <= TextAligned /\ plugin.text <= TextAligned
         /\ DataRoom \in Nat /\ DataRoom <= plugin.extra
<1>1. plugin.text \in Nat /\ plugin.calls \in Nat
  BY PluginFacts
<1>2. MaxTextBytes \in Nat /\ MaxTextBytes = plugin.text + 20 * plugin.calls
  BY <1>1 DEF MaxTextBytes, MaxBranchSequenceBytes
<1>3. TextAligned \in Nat /\ MaxTextBytes <= TextAligned
  BY <1>2, AlignUpBounds DEF TextAligned
<1>4. DataRoom \in Nat /\ DataRoom <= plugin.extra
  BY PluginFacts DEF DataRoom
<1>5. QED  BY <1>1, <1>2, <1>3, <1>4 DEF SaveSize

(* hook_dispatch_size bounds what build_hook_dispatch builds.               *)
LEMMA DispatchFits ==
  ASSUME TypeOK, NEW site \in Site, NEW size \in DispatchSizes(site)
  PROVE  HookDispatchSize(site) \in Nat /\ size \in Nat /\ size <= HookDispatchSize(site)
<1>1. SaveSize \in {4, 8} /\ site.handlers \in Nat /\ site.handlers >= 1 /\ site.overrides \in BOOLEAN
  BY Bounds DEF Site
<1>2. CASE site.overrides
  <2>1. PICK j \in 0 .. 2 * site.handlers :
          size = SaveSize + 4 * site.handlers + 8 * j + RestoreSize + RetSize
    BY <1>2 DEF DispatchSizes
  <2>2. QED
    BY <1>1, <1>2, <2>1 DEF HookDispatchSize, MaxBranchSequenceBytes, RestoreSize, RetSize
<1>3. CASE ~site.overrides
  <2>1. PICK m \in site.handlers + 2 .. 5 * site.handlers + 35 :
          size = SaveSize + 16 * site.handlers + RestoreSize + 4 * m
    BY <1>3 DEF DispatchSizes, ArgSaveRestoreSize
  <2>2. MaxRelocatedSize(MaxHookWindow) = 120
    BY DEF MaxRelocatedSize, MaxHookWindow
  <2>3. QED
    BY <1>1, <1>3, <2>1, <2>2 DEF HookDispatchSize, MaxBranchSequenceBytes,
       ArgSaveRestoreSize, RestoreSize
<1>4. QED  BY <1>1, <1>2, <1>3

\* The bound on a dispatcher is a number.
LEMMA DispatchNat ==
  ASSUME TypeOK, NEW site \in Site
  PROVE  HookDispatchSize(site) \in Nat
<1>1. SaveSize \in {4, 8} /\ site.handlers \in Nat /\ site.overrides \in BOOLEAN
  BY Bounds DEF Site
<1>2. MaxRelocatedSize(MaxHookWindow) = 120
  BY DEF MaxRelocatedSize, MaxHookWindow
<1>3. QED
  BY <1>1, <1>2 DEF HookDispatchSize, MaxBranchSequenceBytes, ArgSaveRestoreSize, RestoreSize, RetSize

\* Every dispatcher has such a bound.
LEMMA DispatchSizeNat ==
  ASSUME TypeOK, NEW n \in 1 .. Len(Sites)
  PROVE  Sites[n] \in Site /\ HookDispatchSize(Sites[n]) \in Nat
BY PluginFacts, DispatchNat

\* The bound on a wrapper, which moves at most 8 arguments.
LEMMA WrapperMaxNat ==
  ASSUME TypeOK, NEW n \in 1 .. Len(Wrappers)
  PROVE  /\ Wrappers[n] \in Wrapper
         /\ AtMost8(Wrappers[n].registers) \in 1 .. 8
         /\ WrapperMaxSize(Wrappers[n]) \in Nat
         /\ WrapperMaxSize(Wrappers[n]) = 4 * AtMost8(Wrappers[n].registers) + 20
<1>1. Wrappers[n] \in Wrapper
  BY PluginFacts
<1>2. AtMost8(Wrappers[n].registers) \in 1 .. 8
  BY <1>1 DEF Wrapper, AtMost8
<1>3. QED  BY <1>1, <1>2 DEF WrapperMaxSize, MaxBranchSequenceBytes

(* A branch to the code behind it in the same cave is a single B or BL.     *)
LEMMA NearBranch ==
  ASSUME NEW start \in Nat, NEW source \in Nat, NEW target \in Nat,
         Aligned(start), Aligned(source), Aligned(target),
         source <= target, target < Reach26
  PROVE  BranchSequenceSize(start + source, start + target) = 4
<1>1. (target - source) % 4 = 0
  BY AlignedSums
<1>2. (start + target) - (start + source) = target - source
  OBVIOUS
<1>3. Within(start + source, start + target, Reach26)
  BY <1>2, ReachAssumption DEF Within
<1>4. QED  BY <1>1, <1>2, <1>3 DEF BranchSequenceSize, FitsBranch26, FitsWords

\* A branch takes 4, 12 or 20 bytes.
LEMMA BranchSizes ==
  ASSUME NEW source, NEW target
  PROVE  BranchSequenceSize(source, target) \in {4, 12, 20}
BY DEF BranchSequenceSize, AddressSequenceSize

\* A wrapper has a size.
LEMMA WrapperSizeNat ==
  ASSUME TypeOK, NEW n \in 1 .. Len(Wrappers), NEW at
  PROVE  WrapperSize(Wrappers[n], at) \in Nat
<1>1. AtMost8(Wrappers[n].registers) \in 1 .. 8
  BY WrapperMaxNat
<1> DEFINE moves == 4 * AtMost8(Wrappers[n].registers)
           entry == base + (codeOffset + Wrappers[n].entry)
           asFunction == BranchSequenceSize(base + (at + (4 + moves)), entry)
           asTail == BranchSequenceSize(base + (at + moves), entry)
<1>2. asFunction \in Nat /\ asTail \in Nat
  BY BranchSizes
<1>3. moves \in Nat
  BY <1>1
<1>4. WrapperSize(Wrappers[n], at) = IF Wrappers[n].function THEN 4 + moves + asFunction + 12 ELSE moves + asTail
  BY DEF WrapperSize
<1> HIDE DEF moves, asFunction, asTail
<1>5. QED  BY <1>2, <1>3, <1>4

\* The code is in reach of the entry of its wrapper.
LEMMA EntryNear ==
  ASSUME NEW code \in Nat, NEW e \in Nat, NEW size \in Nat, NEW bound \in Nat,
         code + e <= size, size < bound, Aligned(code), Aligned(e)
  PROVE  code + e \in Nat /\ Aligned(code + e) /\ code + e < bound
BY AlignedSums

\* The moves of a wrapper end before the code it calls.
LEMMA MovesEnd ==
  ASSUME NEW at \in Nat, NEW moves \in Nat, NEW room \in Nat, NEW code \in Nat, NEW e \in Nat,
         Aligned(at), Aligned(moves), moves <= room, at + room <= code
  PROVE  at + moves \in Nat /\ Aligned(at + moves) /\ at + moves <= code + e
BY AlignedSums

(* Within its cave a wrapper reaches its handler with a single B or BL, so  *)
(* plugin_wrapper_max_size also bounds the wrapper of a new_cpp_func.       *)
LEMMA WrapperFits ==
  ASSUME IInv, pc # "dispatchers", Near, NEW n \in 1 .. Len(wrapper)
  PROVE  WrapperSize(Wrappers[n], wrapper[n]) <= WrapperRoom[n]
<1> DEFINE w == Wrappers[n]
           r == AtMost8(w.registers)
           entry == codeOffset + w.entry
<1>1. /\ n \in 1 .. Len(Wrappers) /\ wrapper[n] \in Nat
      /\ codeOffset \in Nat /\ segmentSize \in Nat /\ TypeOK
  BY DEF IInv, TypeOK, ReservedInv
<1>2. r \in 1 .. 8 /\ WrapperRoom[n] = 4 * r + 20 /\ WrapperRoom[n] \in Nat /\ w.entry \in Nat
  BY <1>1, WrapperMaxNat DEF Wrapper, WrapperRoom
<1>3. /\ Aligned(w.entry) /\ w.entry <= plugin.text /\ plugin.text \in Nat
      /\ base \in Nat /\ Aligned(base)
  BY <1>1, PluginFacts
<1>4. Aligned(wrapper[n]) /\ wrapper[n] + WrapperRoom[n] <= codeOffset /\ Aligned(codeOffset)
  BY <1>1, LayoutTyped DEF IInv, ReservedInv, CodeInv, EndBy
<1>5. entry \in Nat /\ Aligned(entry) /\ entry < Reach26
  <2>1. codeOffset + TextAligned + DataRoom <= segmentSize
    BY DEF IInv, CodeInv
  <2>2. DataRoom \in Nat /\ plugin.text <= TextAligned /\ TextAligned \in Nat
    BY <1>1, <1>3, Bounds
  <2>3. segmentSize < Reach26 /\ Reach26 \in Nat
    BY ReachAssumption DEF Near
  <2>4. codeOffset + plugin.text <= segmentSize
    BY <1>1, <1>3, <2>1, <2>2
  <2> HIDE DEF w
  <2>5. codeOffset + w.entry <= segmentSize
    BY <1>1, <1>2, <1>3, <2>4
  <2>6. QED  BY <1>1, <1>2, <1>3, <1>4, <2>3, <2>5, EntryNear
<1>6. ASSUME NEW moves \in {4 * r, 4 + 4 * r}
      PROVE  BranchSequenceSize(base + (wrapper[n] + moves), base + entry) = 4
  <2>1. r \in Nat /\ r <= 8
    BY <1>2
  <2>2. moves \in Nat /\ Aligned(moves) /\ moves <= WrapperRoom[n]
    BY <1>2, <2>1, AlignedWords
  <2> DEFINE source == wrapper[n] + moves
  <2> HIDE DEF w, r
  <2>3. source \in Nat /\ Aligned(source) /\ source <= entry
    BY <1>1, <1>2, <1>4, <2>2, MovesEnd
  <2> HIDE DEF source, entry
  <2>4. BranchSequenceSize(base + source, base + entry) = 4
    BY <1>3, <1>5, <2>3, NearBranch
  <2>5. QED  BY <2>4 DEF source
<1>7. WrapperSize(w, wrapper[n]) = IF w.function THEN 4 + 4 * r + 4 + 12 ELSE 4 * r + 4
  BY <1>6 DEF WrapperSize
<1>8. w.function \in BOOLEAN
  BY <1>1, WrapperMaxNat DEF Wrapper
<1>9. QED  BY <1>2, <1>7, <1>8

-----------------------------------------------------------------------------
(* Rooms that follow one another.                                           *)
LEMMA RoomAppended ==
  ASSUME NEW at \in Seq(Nat), NEW room, NEW end \in Nat, NEW start \in Nat,
         \A i \in 1 .. Len(at) + 1 : room[i] \in Nat,
         EndBy(at, room, end), InTurn(at, room), end <= start
  PROVE  /\ EndBy(Append(at, start), room, start + room[Len(at) + 1])
         /\ InTurn(Append(at, start), room)
<1> DEFINE more == Append(at, start)
           n == Len(at)
<1>1. /\ n \in Nat /\ Len(more) = n + 1 /\ more[n + 1] = start
      /\ \A i \in 1 .. n : more[i] = at[i] /\ at[i] \in Nat
  OBVIOUS
<1>2. \A i \in 1 .. n : more[i] + room[i] <= start
  BY <1>1 DEF EndBy
<1>3. \A i \in 1 .. n + 1 : i = n + 1 \/ i \in 1 .. n
  BY <1>1
<1> HIDE DEF more, n
<1>4. EndBy(more, room, start + room[n + 1])
  <2> SUFFICES ASSUME NEW i \in 1 .. n + 1
               PROVE  more[i] + room[i] <= start + room[n + 1]
    BY <1>1 DEF EndBy
  <2>1. room[i] \in Nat /\ room[n + 1] \in Nat
    BY <1>1 DEF n
  <2>2. CASE i = n + 1
    BY <1>1, <2>1, <2>2
  <2>3. CASE i \in 1 .. n
    BY <1>1, <1>2, <2>1, <2>3
  <2>4. QED  BY <1>3, <2>2, <2>3
<1>5. InTurn(more, room)
  <2> SUFFICES ASSUME NEW i \in 1 .. n + 1, NEW j \in 1 .. n + 1, i < j
               PROVE  more[i] + room[i] <= more[j]
    BY <1>1 DEF InTurn
  <2>1. i \in 1 .. n
    BY <1>1, <1>3
  <2>2. CASE j = n + 1
    BY <1>1, <1>2, <2>1, <2>2
  <2>3. CASE j \in 1 .. n
    BY <1>1, <2>1, <2>3 DEF InTurn, n
  <2>4. QED  BY <1>3, <2>2, <2>3
<1>6. QED  BY <1>4, <1>5 DEF more, n

\* What ends by an offset ends by a later one.
LEMMA EndLater ==
  ASSUME NEW at \in Seq(Nat), NEW room, NEW end \in Nat, NEW later \in Nat,
         \A i \in 1 .. Len(at) : room[i] \in Nat,
         EndBy(at, room, end), end <= later
  PROVE  EndBy(at, room, later)
BY DEF EndBy

\* The rooms have sizes.
LEMMA RoomsTyped ==
  ASSUME TypeOK
  PROVE  /\ Len(Sites) \in Nat /\ \A n \in 1 .. Len(Sites) : /\ Sites[n] \in Site
                                                             /\ DispatchRoom[n] = HookDispatchSize(Sites[n])
                                                             /\ DispatchRoom[n] \in Nat
         /\ Len(Wrappers) \in Nat /\ \A n \in 1 .. Len(Wrappers) : /\ WrapperRoom[n] = WrapperMaxSize(Wrappers[n])
                                                                   /\ WrapperRoom[n] \in Nat
<1>1. Len(Sites) \in Nat /\ Len(Wrappers) \in Nat
  BY PluginFacts
<1>2. \A n \in 1 .. Len(Sites) : DispatchRoom[n] = HookDispatchSize(Sites[n])
  BY DEF DispatchRoom
<1>3. \A n \in 1 .. Len(Wrappers) : WrapperRoom[n] = WrapperMaxSize(Wrappers[n])
  BY DEF WrapperRoom
<1>4. \A n \in 1 .. Len(Sites) : Sites[n] \in Site /\ HookDispatchSize(Sites[n]) \in Nat
  BY DispatchSizeNat
<1>5. \A n \in 1 .. Len(Wrappers) : WrapperMaxSize(Wrappers[n]) \in Nat
  BY WrapperMaxNat
<1>6. QED  BY <1>1, <1>2, <1>3, <1>4, <1>5

\* What a step that keeps the plugin does not change.
LEMMA SamePlugin ==
  ASSUME UNCHANGED plugin
  PROVE  /\ UNCHANGED <<Sites, Wrappers, DispatchRoom, WrapperRoom, DataRoom>>
         /\ UNCHANGED <<MaxTextBytes, TextAligned, SaveSize>>
BY DEF Sites, Wrappers, DispatchRoom, WrapperRoom, DataRoom, MaxTextBytes, TextAligned,
       HookDispatchSize, WrapperMaxSize, SaveSize, AlignUp

-----------------------------------------------------------------------------
\* A run starts in the inductive invariant.
LEMMA InitInv ==
  ASSUME Init
  PROVE  IInv
<1>1. plugin \in Plugin
  BY CavePlanAssumption DEF Init
<1>2. plugin.text \in Nat /\ plugin.calls \in Nat /\ plugin.sites \in Seq(Site)
      /\ plugin.wrappers \in Seq(Wrapper)
  BY <1>1 DEF Plugin
<1>3. \A S : <<>> \in Seq(S)
  OBVIOUS
<1>4. control = <<>> /\ wrapper = <<>> /\ Len(control) = 0 /\ Len(wrapper) = 0
  BY DEF Init
<1>5. TypeOK
  BY <1>3 DEF Init, TypeOK
<1>6. ReservedInv
  BY <1>2, <1>4 DEF Init, ReservedInv, Sites, Wrappers, EndBy, InTurn
<1>7. CodeInv /\ PlacedInv
  BY DEF Init, CodeInv, PlacedInv
<1>8. BuiltInv
  BY <1>2 DEF Init, BuiltInv, MaxTextBytes, MaxBranchSequenceBytes
<1>9. QED  BY <1>5, <1>6, <1>7, <1>8 DEF IInv

\* Each action keeps the inductive invariant.
LEMMA ReserveDispatcherStep ==
  ASSUME IInv, ReserveDispatcher
  PROVE  IInv'
<1> DEFINE at == AlignUp(cursor, 4)
           m == Len(control) + 1
<1>1. /\ TypeOK /\ pc = "dispatchers" /\ pc' = pc /\ k = m /\ k <= Len(Sites) /\ k' = k + 1
      /\ control' = Append(control, at) /\ cursor' = at + HookDispatchSize(Sites[k])
      /\ UNCHANGED <<plugin, base, wrapper, codeOffset, segmentSize, built, placed, error>>
  BY DEF IInv, ReserveDispatcher, ReservedInv, Sites
<1>2. /\ control \in Seq(Nat) /\ cursor \in Nat /\ m \in Nat /\ m >= 1
      /\ Len(Sites) \in Nat /\ m \in 1 .. Len(Sites)
  BY <1>1, LayoutTyped, RoomsTyped
<1>3. at \in Nat /\ cursor <= at
  BY <1>2, AlignUpBounds
<1>4. \A i \in 1 .. m : DispatchRoom[i] \in Nat
  BY <1>1, <1>2, RoomsTyped
<1>5. DispatchRoom[m] \in Nat /\ cursor' = at + DispatchRoom[m]
  BY <1>1, <1>2, RoomsTyped
<1> HIDE DEF at
<1>6. TypeOK'
  <2>1. cursor' \in Nat /\ control' \in Seq(Nat) /\ k' \in Nat \ {0}
    BY <1>1, <1>2, <1>3, <1>5
  <2>2. QED  BY <1>1, <2>1 DEF TypeOK
<1>7. EndBy(control, DispatchRoom, cursor) /\ InTurn(control, DispatchRoom)
      /\ wrapper = <<>> /\ Len(wrapper) <= Len(Wrappers)
  BY <1>1, <1>2 DEF IInv, ReservedInv
<1>8. EndBy(control', DispatchRoom, cursor') /\ InTurn(control', DispatchRoom)
  BY <1>1, <1>2, <1>3, <1>4, <1>5, <1>7, RoomAppended
<1>9. Len(control') = m
  BY <1>1, <1>2, <1>3
<1>10. ReservedInv'
  <2>1. Len(wrapper') = 0 /\ wrapper' = <<>>
    BY <1>1, <1>7
  <2>2. EndBy(wrapper', WrapperRoom, cursor') /\ InTurn(wrapper', WrapperRoom)
    BY <2>1 DEF EndBy, InTurn
  <2>3. QED  BY <1>1, <1>2, <1>7, <1>8, <1>9, <2>1, <2>2, SamePlugin DEF ReservedInv
<1>11. CodeInv' /\ PlacedInv' /\ BuiltInv'
  BY <1>1, SamePlugin DEF IInv, CodeInv, PlacedInv, Near, BuiltInv
<1>12. QED  BY <1>6, <1>10, <1>11 DEF IInv

LEMMA ReserveWrapperStep ==
  ASSUME IInv, ReserveWrapper
  PROVE  IInv'
<1> DEFINE at == AlignUp(cursor, 4)
           m == Len(wrapper) + 1
<1>1. /\ TypeOK /\ pc = "dispatchers" /\ pc' = pc /\ k > Len(Sites) /\ Len(wrapper) < Len(Wrappers)
      /\ wrapper' = Append(wrapper, at) /\ cursor' = at + WrapperMaxSize(Wrappers[m])
      /\ UNCHANGED <<plugin, base, k, control, codeOffset, segmentSize, built, placed, error>>
  BY DEF IInv, ReserveWrapper, Sites, Wrappers
<1>2. /\ wrapper \in Seq(Nat) /\ control \in Seq(Nat) /\ cursor \in Nat /\ m \in Nat /\ m >= 1
      /\ Len(Wrappers) \in Nat /\ m \in 1 .. Len(Wrappers)
      /\ Len(Sites) \in Nat /\ Len(control) \in Nat
  BY <1>1, LayoutTyped, RoomsTyped
<1>3. at \in Nat /\ cursor <= at /\ Aligned(at)
  BY <1>2, AlignUpBounds
<1>4. \A i \in 1 .. m : WrapperRoom[i] \in Nat
  BY <1>1, <1>2, RoomsTyped
<1>5. WrapperRoom[m] \in Nat /\ cursor' = at + WrapperRoom[m]
  BY <1>1, <1>2, RoomsTyped
<1> HIDE DEF at
<1>6. TypeOK'
  <2>1. cursor' \in Nat /\ wrapper' \in Seq(Nat)
    BY <1>1, <1>2, <1>3, <1>5
  <2>2. QED  BY <1>1, <2>1 DEF TypeOK
<1>7. /\ EndBy(control, DispatchRoom, cursor) /\ InTurn(control, DispatchRoom)
      /\ EndBy(wrapper, WrapperRoom, cursor) /\ InTurn(wrapper, WrapperRoom)
      /\ Len(control) <= Len(Sites) /\ k = Len(control) + 1
      /\ \A n \in 1 .. Len(wrapper) : Aligned(wrapper[n]) /\ EndBy(control, DispatchRoom, wrapper[n])
  BY <1>1 DEF IInv, ReservedInv
<1>8. EndBy(wrapper', WrapperRoom, cursor') /\ InTurn(wrapper', WrapperRoom)
  BY <1>1, <1>2, <1>3, <1>4, <1>5, <1>7, RoomAppended
<1>9. /\ Len(wrapper') = m /\ wrapper'[m] = at /\ wrapper' # <<>>
      /\ \A n \in 1 .. m - 1 : wrapper'[n] = wrapper[n]
      /\ \A n \in 1 .. m : n = m \/ n \in 1 .. m - 1
  BY <1>1, <1>2, <1>3
<1>10. Len(control) = Len(Sites)
  BY <1>1, <1>2, <1>7
<1>11. EndBy(control, DispatchRoom, at) /\ EndBy(control, DispatchRoom, cursor')
  <2>1. \A i \in 1 .. Len(control) : DispatchRoom[i] \in Nat
    BY <1>1, <1>10, RoomsTyped
  <2>2. cursor' \in Nat /\ cursor <= cursor'
    BY <1>2, <1>3, <1>5
  <2>3. QED  BY <1>2, <1>3, <1>7, <2>1, <2>2, EndLater
<1>12. \A n \in 1 .. m : Aligned(wrapper'[n]) /\ EndBy(control, DispatchRoom, wrapper'[n])
  <2> SUFFICES ASSUME NEW n \in 1 .. m
               PROVE  Aligned(wrapper'[n]) /\ EndBy(control, DispatchRoom, wrapper'[n])
    OBVIOUS
  <2>1. CASE n = m
    BY <1>3, <1>9, <1>11, <2>1
  <2>2. CASE n \in 1 .. m - 1
    <3>1. n \in 1 .. Len(wrapper) /\ wrapper'[n] = wrapper[n]
      BY <1>2, <1>9, <2>2
    <3>2. QED  BY <1>7, <3>1
  <2>3. QED  BY <1>9, <2>1, <2>2
<1>13. ReservedInv'
  BY <1>1, <1>2, <1>7, <1>8, <1>9, <1>10, <1>11, <1>12, SamePlugin DEF ReservedInv
<1>14. CodeInv' /\ PlacedInv' /\ BuiltInv'
  BY <1>1, SamePlugin DEF IInv, CodeInv, PlacedInv, Near, BuiltInv
<1>15. QED  BY <1>6, <1>13, <1>14 DEF IInv

LEMMA ReserveCodeStep ==
  ASSUME IInv, ReserveCode
  PROVE  IInv'
<1> DEFINE code == AlignUp(cursor, 16)
           end == code + TextAligned + DataRoom
<1>1. /\ TypeOK /\ pc = "dispatchers" /\ pc' = "resolve" /\ k' = 1 /\ built' = plugin.text
      /\ k > Len(Sites) /\ Len(wrapper) = Len(Wrappers)
      /\ codeOffset' = code /\ cursor' = end /\ segmentSize' = IF end < 4 THEN 4 ELSE end
      /\ UNCHANGED <<plugin, base, control, wrapper, placed, error>>
  BY DEF IInv, ReserveCode, Sites, Wrappers, DataRoom
<1>2. /\ cursor \in Nat /\ control \in Seq(Nat) /\ wrapper \in Seq(Nat)
      /\ Len(Sites) \in Nat /\ Len(control) \in Nat
      /\ TextAligned \in Nat /\ DataRoom \in Nat /\ MaxTextBytes \in Nat
      /\ MaxTextBytes = plugin.text + 20 * plugin.calls
      /\ plugin.text \in Nat /\ plugin.calls \in Nat
  BY <1>1, LayoutTyped, RoomsTyped, Bounds, PluginFacts
<1>3. code \in Nat /\ cursor <= code /\ code % 16 = 0
  BY <1>2, AlignUpBounds, AlignUp16
<1> HIDE DEF code
<1>4. end \in Nat /\ code <= end /\ segmentSize' \in Nat /\ end <= segmentSize' /\ cursor <= end
  BY <1>1, <1>2, <1>3
<1>5. TypeOK'
  BY <1>1, <1>2, <1>3, <1>4 DEF TypeOK
<1>6. /\ EndBy(control, DispatchRoom, cursor) /\ InTurn(control, DispatchRoom)
      /\ EndBy(wrapper, WrapperRoom, cursor) /\ InTurn(wrapper, WrapperRoom)
      /\ Len(control) = Len(Sites)
      /\ \A n \in 1 .. Len(wrapper) : Aligned(wrapper[n]) /\ EndBy(control, DispatchRoom, wrapper[n])
  BY <1>1, <1>2 DEF IInv, ReservedInv
<1>7. /\ \A i \in 1 .. Len(control) : DispatchRoom[i] \in Nat
      /\ \A i \in 1 .. Len(wrapper) : WrapperRoom[i] \in Nat
  BY <1>1, <1>6, RoomsTyped
<1>8. /\ EndBy(control, DispatchRoom, code) /\ EndBy(control, DispatchRoom, end)
      /\ EndBy(wrapper, WrapperRoom, code) /\ EndBy(wrapper, WrapperRoom, end)
  BY <1>2, <1>3, <1>4, <1>6, <1>7, EndLater
<1>9. ReservedInv'
  BY <1>1, <1>2, <1>6, <1>8, SamePlugin DEF ReservedInv
<1>10. CodeInv'
  BY <1>1, <1>4, <1>8, SamePlugin DEF CodeInv
<1>11. PlacedInv'
  BY <1>1 DEF IInv, PlacedInv
<1>12. BuiltInv'
  BY <1>1, <1>2, SamePlugin DEF BuiltInv
<1>13. QED  BY <1>5, <1>9, <1>10, <1>11, <1>12 DEF IInv

-----------------------------------------------------------------------------
(* Once the segment has its size, the layout stays.                         *)
LEMMA LayoutKept ==
  ASSUME IInv, pc # "dispatchers", pc' # "dispatchers", UNCHANGED <<plugin, base, layout>>
  PROVE  ReservedInv' /\ CodeInv'
<1>1. UNCHANGED <<cursor, control, wrapper, codeOffset, segmentSize>>
  BY DEF layout
<1>2. QED  BY <1>1, SamePlugin DEF IInv, ReservedInv, CodeInv

LEMMA ResolveCallStep ==
  ASSUME IInv, ResolveCall
  PROVE  IInv'
<1>1. /\ TypeOK /\ pc = "resolve" /\ pc' = pc /\ k <= plugin.calls /\ k' = k + 1
      /\ UNCHANGED <<plugin, base, layout, placed, error>>
  BY DEF IInv, ResolveCall
<1>2. PICK size \in {0, 12, 20} : built' = built + size
  BY DEF ResolveCall, VeneerSizes
<1>3. /\ k \in Nat \ {0} /\ built \in Nat /\ plugin.text \in Nat /\ plugin.calls \in Nat
      /\ MaxTextBytes \in Nat /\ MaxTextBytes = plugin.text + 20 * plugin.calls
  BY <1>1, LayoutTyped, PluginFacts, Bounds
<1>4. UNCHANGED <<cursor, control, wrapper, codeOffset, segmentSize>>
  BY <1>1 DEF layout
<1>5. TypeOK'
  <2>1. built' \in Nat /\ k' \in Nat \ {0}
    BY <1>1, <1>2, <1>3
  <2>2. QED  BY <1>1, <1>4, <2>1 DEF TypeOK
<1>6. ReservedInv' /\ CodeInv'
  BY <1>1, LayoutKept
<1>7. PlacedInv'
  BY <1>1, <1>4, SamePlugin DEF IInv, PlacedInv, Near, InItsRoom
<1>8. built' <= plugin.text + 20 * (k' - 1) /\ k' <= plugin.calls + 1
  <2>1. built <= plugin.text + 20 * (k - 1)
    BY <1>1 DEF IInv, BuiltInv
  <2>2. QED  BY <1>1, <1>2, <1>3, <2>1
<1>9. built' <= MaxTextBytes
  BY <1>1, <1>2, <1>3, <1>5, <1>8
<1>10. BuiltInv'
  BY <1>1, <1>8, <1>9, SamePlugin DEF BuiltInv
<1>11. QED  BY <1>5, <1>6, <1>7, <1>10 DEF IInv

(* A part that lies in its room is placed, and the cave stays sound.        *)
LEMMA PlaceStep ==
  ASSUME IInv, pc # "dispatchers", UNCHANGED <<plugin, base, layout, built>>,
         k' \in Nat \ {0},
         NEW kind \in Parts, NEW n \in Nat, NEW at \in Nat, NEW size \in Nat,
         NEW next \in {"extra", "wrappers", "controls"}, Place(kind, n, at, size, next),
         Near => /\ at + size <= segmentSize
                 /\ InItsRoom([kind |-> kind, n |-> n, at |-> at, size |-> size])
  PROVE  IInv'
<1> DEFINE part == [kind |-> kind, n |-> n, at |-> at, size |-> size]
<1>1. UNCHANGED <<cursor, control, wrapper, codeOffset, segmentSize>>
  BY DEF layout
<1>2. part \in [kind: Parts, n: Nat, at: Nat, size: Nat]
  OBVIOUS
<1>3. \/ placed' = placed \cup {part} /\ pc' = next /\ error' = error /\ at + size <= segmentSize
      \/ placed' = placed /\ pc' = "failed" /\ error' = "overflow" /\ ~(at + size <= segmentSize)
  BY DEF Place
<1>4. TypeOK /\ BuiltInv /\ PlacedInv
  BY DEF IInv
<1>5. pc' # "dispatchers" /\ pc' # "resolve"
      /\ pc' \in {"dispatchers", "resolve", "extra", "wrappers", "controls", "done", "failed"}
  BY <1>3
<1>6. TypeOK'
  <2>1. placed' \subseteq [kind: Parts, n: Nat, at: Nat, size: Nat] /\ error' \in {"none", "overflow"}
    BY <1>2, <1>3, <1>4 DEF TypeOK
  <2>2. QED  BY <1>1, <1>4, <1>5, <2>1 DEF TypeOK
<1>7. ReservedInv' /\ CodeInv'
  BY <1>5, LayoutKept
<1>8. PlacedInv'
  <2>1. Near' <=> Near
    BY <1>1 DEF Near
  <2>2. \A p : InItsRoom(p)' <=> InItsRoom(p)
    BY <1>1, SamePlugin DEF InItsRoom
  <2>3. ASSUME Near PROVE (\A p \in placed' : InItsRoom(p)) /\ error' = "none"
    BY <1>3, <1>4, <2>3 DEF PlacedInv
  <2>4. QED  BY <1>5, <2>1, <2>2, <2>3 DEF PlacedInv
<1>9. BuiltInv'
  BY <1>4, <1>5, SamePlugin DEF BuiltInv
<1>10. QED  BY <1>6, <1>7, <1>8, <1>9 DEF IInv

(* A step of the placing that copies nothing.                               *)
LEMMA NothingPlaced ==
  ASSUME IInv, pc \notin {"dispatchers", "resolve"}, pc' \in {"wrappers", "controls", "done"},
         k' \in Nat \ {0}, UNCHANGED <<plugin, base, layout, built, placed, error>>
  PROVE  IInv'
<1>1. UNCHANGED <<cursor, control, wrapper, codeOffset, segmentSize>>
  BY DEF layout
<1>2. TypeOK'
  BY <1>1 DEF IInv, TypeOK
<1>3. ReservedInv' /\ CodeInv'
  BY LayoutKept
<1>4. PlacedInv' /\ BuiltInv'
  BY <1>1, SamePlugin DEF IInv, PlacedInv, Near, InItsRoom, BuiltInv
<1>5. QED  BY <1>2, <1>3, <1>4 DEF IInv

LEMMA PlaceCodeStep ==
  ASSUME IInv, PlaceCode
  PROVE  IInv'
<1> DEFINE size == IF plugin.extra > 0 THEN TextAligned ELSE MaxTextBytes
<1>1. /\ TypeOK /\ pc = "resolve" /\ k' = 1 /\ UNCHANGED <<plugin, base, layout, built>>
      /\ Place("code", 1, codeOffset, size, "extra")
  BY DEF IInv, PlaceCode
<1>2. /\ codeOffset \in Nat /\ segmentSize \in Nat /\ TextAligned \in Nat /\ DataRoom \in Nat
      /\ MaxTextBytes \in Nat /\ MaxTextBytes <= TextAligned
  BY <1>1, LayoutTyped, Bounds
<1>3. size \in Nat /\ size <= TextAligned
  BY <1>2
<1> HIDE DEF size
<1>4. codeOffset + size <= segmentSize
  <2>1. codeOffset + TextAligned + DataRoom <= segmentSize
    BY <1>1 DEF IInv, CodeInv
  <2>2. QED  BY <1>2, <1>3, <2>1
<1>5. InItsRoom([kind |-> "code", n |-> 1, at |-> codeOffset, size |-> size])
  BY <1>3 DEF InItsRoom
<1>6. QED  BY <1>1, <1>2, <1>3, <1>4, <1>5, PlaceStep DEF Parts

LEMMA PlaceExtraStep ==
  ASSUME IInv, PlaceExtra
  PROVE  IInv'
<1>1. TypeOK /\ pc = "extra" /\ UNCHANGED <<plugin, base, k, layout, built>>
  BY DEF IInv, PlaceExtra
<1>2. /\ codeOffset \in Nat /\ segmentSize \in Nat /\ TextAligned \in Nat /\ DataRoom \in Nat
      /\ k \in Nat \ {0} /\ plugin.extra \in Nat /\ plugin.writable \in BOOLEAN
  BY <1>1, LayoutTyped, Bounds, PluginFacts
<1>3. CASE plugin.extra > 0 /\ ~plugin.writable
  <2> DEFINE at == codeOffset + TextAligned
  <2>1. Place("extra", 1, at, plugin.extra, "wrappers")
    BY <1>3 DEF PlaceExtra
  <2>2. DataRoom = plugin.extra
    BY <1>3 DEF DataRoom
  <2>3. at + plugin.extra <= segmentSize
    BY <1>1, <2>2 DEF IInv, CodeInv
  <2>4. InItsRoom([kind |-> "extra", n |-> 1, at |-> at, size |-> plugin.extra])
    BY <1>2, <1>3 DEF InItsRoom
  <2>5. at \in Nat
    BY <1>2
  <2> HIDE DEF at
  <2>6. QED  BY <1>1, <1>2, <2>1, <2>3, <2>4, <2>5, PlaceStep DEF Parts
<1>4. CASE ~(plugin.extra > 0 /\ ~plugin.writable)
  <2>1. pc' = "wrappers" /\ UNCHANGED <<placed, error>>
    BY <1>4 DEF PlaceExtra
  <2>2. k' \in Nat \ {0} /\ pc \notin {"dispatchers", "resolve"}
    BY <1>1, <1>2
  <2>3. QED  BY <1>1, <2>1, <2>2, NothingPlaced
<1>5. QED  BY <1>3, <1>4

LEMMA PlaceWrapperStep ==
  ASSUME IInv, PlaceWrapper
  PROVE  IInv'
<1> DEFINE size == WrapperSize(Wrappers[k], wrapper[k])
<1>1. /\ TypeOK /\ pc = "wrappers" /\ k <= Len(wrapper) /\ k' = k + 1
      /\ UNCHANGED <<plugin, base, layout, built>>
      /\ Place("wrapper", k, wrapper[k], size, "wrappers")
  BY DEF IInv, PlaceWrapper, Wrappers
<1>2. /\ k \in Nat \ {0} /\ Len(wrapper) \in Nat /\ wrapper \in Seq(Nat)
      /\ codeOffset \in Nat /\ segmentSize \in Nat /\ TextAligned \in Nat /\ DataRoom \in Nat
  BY <1>1, LayoutTyped, Bounds
<1>3. k \in 1 .. Len(wrapper) /\ k \in 1 .. Len(Wrappers) /\ wrapper[k] \in Nat
  BY <1>1, <1>2 DEF IInv, ReservedInv
<1>4. size \in Nat /\ WrapperRoom[k] \in Nat
  BY <1>1, <1>3, WrapperSizeNat, RoomsTyped
<1>5. ASSUME Near
      PROVE  /\ wrapper[k] + size <= segmentSize
             /\ InItsRoom([kind |-> "wrapper", n |-> k, at |-> wrapper[k], size |-> size])
  <2>1. size <= WrapperRoom[k]
    BY <1>1, <1>3, <1>5, WrapperFits
  <2>2. wrapper[k] + WrapperRoom[k] <= codeOffset /\ codeOffset + TextAligned + DataRoom <= segmentSize
    BY <1>1, <1>3 DEF IInv, CodeInv, EndBy
  <2> HIDE DEF size
  <2>3. wrapper[k] + size <= segmentSize
    BY <1>2, <1>3, <1>4, <2>1, <2>2
  <2>4. QED  BY <1>3, <2>1, <2>3 DEF InItsRoom
<1>6. k' \in Nat \ {0}
  BY <1>1, <1>2
<1> HIDE DEF size
<1>7. QED  BY <1>1, <1>2, <1>3, <1>4, <1>5, <1>6, PlaceStep DEF Parts

LEMMA PlaceDispatcherStep ==
  ASSUME IInv, PlaceDispatcher
  PROVE  IInv'
<1>1. /\ TypeOK /\ pc = "controls" /\ k <= Len(control) /\ k' = k + 1
      /\ UNCHANGED <<plugin, base, layout, built>>
  BY DEF IInv, PlaceDispatcher
<1>2. PICK size \in DispatchSizes(Sites[k]) : Place("control", k, control[k], size, "controls")
  BY DEF PlaceDispatcher, Sites
<1>3. /\ k \in Nat \ {0} /\ Len(control) \in Nat /\ control \in Seq(Nat)
      /\ codeOffset \in Nat /\ segmentSize \in Nat /\ TextAligned \in Nat /\ DataRoom \in Nat
  BY <1>1, LayoutTyped, Bounds
<1>4. k \in 1 .. Len(control) /\ k \in 1 .. Len(Sites) /\ control[k] \in Nat
  BY <1>1, <1>3 DEF IInv, ReservedInv
<1>5. Sites[k] \in Site /\ DispatchRoom[k] = HookDispatchSize(Sites[k])
  BY <1>1, <1>4, RoomsTyped
<1>6. size \in Nat /\ DispatchRoom[k] \in Nat /\ size <= DispatchRoom[k]
  BY <1>1, <1>5, DispatchFits
<1>7. control[k] + DispatchRoom[k] <= codeOffset /\ codeOffset + TextAligned + DataRoom <= segmentSize
  BY <1>1, <1>4 DEF IInv, CodeInv, EndBy
<1>8. control[k] + size <= segmentSize
  BY <1>3, <1>4, <1>6, <1>7
<1>9. InItsRoom([kind |-> "control", n |-> k, at |-> control[k], size |-> size])
  BY <1>4, <1>6 DEF InItsRoom
<1>10. k' \in Nat \ {0}
  BY <1>1, <1>3
<1>11. QED  BY <1>1, <1>2, <1>3, <1>4, <1>6, <1>8, <1>9, <1>10, PlaceStep DEF Parts

-----------------------------------------------------------------------------
\* Every step keeps the inductive invariant.
LEMMA NextInv ==
  ASSUME IInv, [Next]_vars
  PROVE  IInv'
<1>1. CASE ReserveDispatcher
  BY <1>1, ReserveDispatcherStep
<1>2. CASE ReserveWrapper
  BY <1>2, ReserveWrapperStep
<1>3. CASE ReserveCode
  BY <1>3, ReserveCodeStep
<1>4. CASE ResolveCall
  BY <1>4, ResolveCallStep
<1>5. CASE PlaceCode
  BY <1>5, PlaceCodeStep
<1>6. CASE PlaceExtra
  BY <1>6, PlaceExtraStep
<1>7. CASE PlaceWrapper
  BY <1>7, PlaceWrapperStep
<1>8. CASE WrappersPlaced
  BY <1>8, NothingPlaced DEF WrappersPlaced
<1>9. CASE PlaceDispatcher
  BY <1>9, PlaceDispatcherStep
<1>10. CASE Done
  <2>1. k' \in Nat \ {0}
    BY <1>10 DEF Done, IInv, TypeOK
  <2>2. QED  BY <1>10, <2>1, NothingPlaced DEF Done
<1>11. CASE UNCHANGED vars
  <2>1. UNCHANGED <<plugin, base, pc, k, cursor, control, wrapper, codeOffset, segmentSize,
                    built, placed, error>>
    BY <1>11 DEF vars
  <2>2. QED
    BY <2>1, SamePlugin DEF IInv, TypeOK, ReservedInv, CodeInv, PlacedInv, Near, InItsRoom, BuiltInv
<1>12. QED
  BY <1>1, <1>2, <1>3, <1>4, <1>5, <1>6, <1>7, <1>8, <1>9, <1>10, <1>11 DEF Next

\* Every reachable layout is one in which each part lies in its room.
THEOREM InductiveInvariant == Spec => []IInv
<1>1. Init => IInv
  BY InitInv
<1>2. IInv /\ [Next]_vars => IInv'
  BY NextInv
<1>3. QED  BY <1>1, <1>2, PTL DEF Spec

(* Every variable of the layout of a cave keeps its type.                   *)
THEOREM TypeCorrect == Spec => []TypeOK
<1>1. IInv => TypeOK
  BY DEF IInv
<1>2. QED  BY <1>1, InductiveInvariant, PTL

(* Rooms are reserved one behind the other: dispatchers, wrappers, code and *)
(* read-only data.                                                          *)
LEMMA RoomsApart ==
  ASSUME IInv, Near, NEW p \in placed, NEW q \in placed, <<p.kind, p.n>> # <<q.kind, q.n>>
  PROVE  p.at + p.size <= q.at \/ q.at + q.size <= p.at
<1>1. /\ TypeOK /\ pc # "dispatchers" /\ InItsRoom(p) /\ InItsRoom(q)
      /\ Len(control) = Len(Sites) /\ Len(wrapper) = Len(Wrappers)
  BY DEF IInv, PlacedInv, ReservedInv
<1>2. \A r \in {p, q} : r.kind \in Parts /\ r.n \in Nat /\ r.at \in Nat /\ r.size \in Nat
  BY <1>1 DEF TypeOK
<1>3. codeOffset \in Nat /\ TextAligned \in Nat
  BY <1>1, LayoutTyped, Bounds
<1>4. ASSUME NEW r \in {p, q}, r.kind \in {"wrapper", "control"}
      PROVE  r.at + r.size <= codeOffset
  <2>1. CASE r.kind = "control"
    <3>1. r.n \in 1 .. Len(control) /\ r.at = control[r.n] /\ r.size <= DispatchRoom[r.n]
      BY <1>1, <2>1 DEF InItsRoom
    <3>2. DispatchRoom[r.n] \in Nat
      BY <1>1, <3>1, RoomsTyped
    <3>3. control[r.n] + DispatchRoom[r.n] <= codeOffset
      BY <1>1, <3>1 DEF IInv, CodeInv, EndBy
    <3>4. QED  BY <1>2, <1>3, <3>1, <3>2, <3>3
  <2>2. CASE r.kind = "wrapper"
    <3>1. r.n \in 1 .. Len(wrapper) /\ r.at = wrapper[r.n] /\ r.size <= WrapperRoom[r.n]
      BY <1>1, <2>2 DEF InItsRoom
    <3>2. WrapperRoom[r.n] \in Nat
      BY <1>1, <3>1, RoomsTyped
    <3>3. wrapper[r.n] + WrapperRoom[r.n] <= codeOffset
      BY <1>1, <3>1 DEF IInv, CodeInv, EndBy
    <3>4. QED  BY <1>2, <1>3, <3>1, <3>2, <3>3
  <2>3. QED  BY <1>4, <2>1, <2>2
<1>5. ASSUME NEW r \in {p, q}, r.kind \in {"code", "extra"}
      PROVE  /\ codeOffset <= r.at /\ r.n = 1
             /\ r.kind = "code" => r.at + r.size <= codeOffset + TextAligned
             /\ r.kind = "extra" => r.at = codeOffset + TextAligned
  BY <1>1, <1>2, <1>3, <1>5 DEF InItsRoom
<1>6. ASSUME NEW r \in {p, q}, NEW t \in {p, q}, r.kind = "control", t.kind = "wrapper"
      PROVE  r.at + r.size <= t.at
  <2>1. /\ r.n \in 1 .. Len(control) /\ r.at = control[r.n] /\ r.size <= DispatchRoom[r.n]
        /\ t.n \in 1 .. Len(wrapper) /\ t.at = wrapper[t.n]
    BY <1>1, <1>6 DEF InItsRoom
  <2>2. DispatchRoom[r.n] \in Nat
    BY <1>1, <2>1, RoomsTyped
  <2>3. control[r.n] + DispatchRoom[r.n] <= wrapper[t.n]
    BY <1>1, <2>1 DEF IInv, ReservedInv, EndBy
  <2>4. r.at + DispatchRoom[r.n] <= t.at
    BY <2>1, <2>3
  <2>5. r.at \in Nat /\ r.size \in Nat /\ t.at \in Nat /\ r.size <= DispatchRoom[r.n]
    BY <1>2, <2>1
  <2>6. QED  BY <2>2, <2>4, <2>5
<1>7. ASSUME NEW r \in {p, q}, NEW t \in {p, q}, r.kind = t.kind, r.kind \in {"control", "wrapper"}, r.n < t.n
      PROVE  r.at + r.size <= t.at
  <2>1. CASE r.kind = "control"
    <3>1. /\ r.n \in 1 .. Len(control) /\ r.at = control[r.n] /\ r.size <= DispatchRoom[r.n]
          /\ t.n \in 1 .. Len(control) /\ t.at = control[t.n]
      BY <1>1, <1>7, <2>1 DEF InItsRoom
    <3>2. DispatchRoom[r.n] \in Nat
      BY <1>1, <3>1, RoomsTyped
    <3>3. control[r.n] + DispatchRoom[r.n] <= control[t.n]
      BY <1>1, <1>7, <3>1 DEF IInv, ReservedInv, InTurn
    <3>4. QED  BY <1>2, <3>1, <3>2, <3>3
  <2>2. CASE r.kind = "wrapper"
    <3>1. /\ r.n \in 1 .. Len(wrapper) /\ r.at = wrapper[r.n] /\ r.size <= WrapperRoom[r.n]
          /\ t.n \in 1 .. Len(wrapper) /\ t.at = wrapper[t.n]
      BY <1>1, <1>7, <2>2 DEF InItsRoom
    <3>2. WrapperRoom[r.n] \in Nat
      BY <1>1, <3>1, RoomsTyped
    <3>3. wrapper[r.n] + WrapperRoom[r.n] <= wrapper[t.n]
      BY <1>1, <1>7, <3>1 DEF IInv, ReservedInv, InTurn
    <3>4. QED  BY <1>2, <3>1, <3>2, <3>3
  <2>3. QED  BY <1>7, <2>1, <2>2
<1>8. CASE p.kind \in {"wrapper", "control"} /\ q.kind \in {"code", "extra"}
  BY <1>2, <1>3, <1>4, <1>5, <1>8
<1>9. CASE q.kind \in {"wrapper", "control"} /\ p.kind \in {"code", "extra"}
  BY <1>2, <1>3, <1>4, <1>5, <1>9
<1>10. CASE p.kind \in {"wrapper", "control"} /\ q.kind \in {"wrapper", "control"}
  <2>1. CASE p.kind = q.kind
    <3>1. p.n < q.n \/ q.n < p.n
      BY <1>2, <2>1
    <3>2. QED  BY <1>7, <1>10, <2>1, <3>1
  <2>2. CASE p.kind # q.kind
    BY <1>6, <1>10, <2>2
  <2>3. QED  BY <2>1, <2>2
<1>11. CASE p.kind \in {"code", "extra"} /\ q.kind \in {"code", "extra"}
  <2>1. p.kind # q.kind
    BY <1>5, <1>11
  <2>2. QED  BY <1>2, <1>3, <1>5, <1>11, <2>1
<1>12. QED  BY <1>2, <1>8, <1>9, <1>10, <1>11 DEF Parts

(* No part of a cave overwrites another, "plugin segment layout overflow"   *)
(* is unreachable, and no veneer is cut off: for plugins with any number of *)
(* sites, handlers, wrappers and calls, on any segment that a B crosses.    *)
THEOREM PartsAlwaysFit == Spec => []PartsFit
<1>1. IInv => PartsFit
  <2> SUFFICES ASSUME IInv PROVE PartsFit
    OBVIOUS
  <2>1. PartsDisjoint
    BY RoomsApart DEF PartsDisjoint
  <2>2. NeverOverflows
    BY DEF IInv, PlacedInv, BuiltInv, NeverOverflows
  <2>3. QED  BY <2>1, <2>2 DEF PartsFit
<1>2. QED  BY <1>1, InductiveInvariant, PTL
=============================================================================
