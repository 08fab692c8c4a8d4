-------------------------- MODULE RelocatorProofs --------------------------
(***************************************************************************)
(* Every relocation converges, fits its reservation, is emitted where it   *)
(* was planned and keeps every branch target, for windows of every length  *)
(* that is short against the reach of the encodings.                       *)
(***************************************************************************)
EXTENDS Relocator, TLAPS

-----------------------------------------------------------------------------
InWindow(target) == /\ source <= target /\ target < source + 4 * N
                    /\ Aligned(target - source)

\* The size of an instruction at an address, whatever the addresses of the others.
Need(k, at) == IF InWindow(items[k].target) THEN 4
               ELSE ItemSize(items[k].kind, at, items[k].target)

AddressesOK(m) == \A j \in ItemIndex : j <= m =>
  /\ Aligned(address[j])
  /\ dest <= address[j] /\ address[j] <= dest + 24 * (j - 1)

\* Item j + 1 directly follows item j, and item 1 is at the destination.
LinkedTo(m) == /\ m >= 1 => address[1] = dest
               /\ \A j \in ItemIndex : j < m /\ j < N => address[j + 1] = address[j] + size[j]

SettledTo(m) == \A j \in ItemIndex : j <= m => size[j] = Need(j, address[j])

CursorOK == /\ cursor = IF i = 1 THEN dest ELSE address[i - 1] + size[i - 1]

PlaceInv == pc = "place" =>
  /\ Aligned(source) /\ Aligned(dest)
  /\ pass < N + 4
  /\ CursorOK /\ LinkedTo(i - 1) /\ AddressesOK(i - 1)
  /\ pass > 0 => AddressesOK(N) /\ SettledTo(pass) /\ LinkedTo(pass)

MeasureInv == pc = "measure" =>
  /\ Aligned(source) /\ Aligned(dest)
  /\ pass < N + 4
  /\ AddressesOK(N)
  /\ SettledTo(pass) /\ SettledTo(i - 1) /\ LinkedTo(pass + 1)
  /\ stable => LinkedTo(N)
  /\ ~stable => pass < N

FinalInv == pc \in {"final", "emit", "done"} =>
  /\ Aligned(source) /\ Aligned(dest)
  /\ AddressesOK(N) /\ SettledTo(N) /\ LinkedTo(N)
  /\ pc = "final" => CursorOK

EmitInv ==
  /\ pc \in {"check", "place", "measure", "final"} => out = <<>> /\ bytes = 0
  /\ pc = "emit" => /\ Len(out) = i - 1
                    /\ bytes = IF i = 1 THEN 0 ELSE address[i - 1] + size[i - 1] - dest
  /\ pc = "done" => Len(out) = N
  /\ Len(out) <= N /\ bytes <= 24 * N
  /\ \A k \in ItemIndex : k <= Len(out) =>
       /\ out[k].at = address[k]
       /\ out[k].denotes = Denotes(items[k].kind, TargetOf(k))

ErrorInv == /\ error \notin {"diverged", "size"}
            /\ pc = "check" => i = 1 /\ pass = 0 /\ cursor = dest

\* The inductive invariant.
IInv == TypeOK /\ PlaceInv /\ MeasureInv /\ FinalInv /\ EmitInv /\ ErrorInv

-----------------------------------------------------------------------------
LEMMA PageInNat ==
  ASSUME NEW a \in Int
  PROVE  PageOf(a) \in Int /\ PageOf(a) <= a /\ a < PageOf(a) + PageSize
BY ReachAssumption DEF PageOf

LEMMA BranchSizes ==
  ASSUME NEW at \in Int, NEW target \in Int
  PROVE  /\ BranchSequenceSize(at, target) \in {4, 12, 20}
         /\ AddressSequenceSize(at, target) \in {8, 16}
BY DEF BranchSequenceSize, AddressSequenceSize

LEMMA OtherFits ==
  ASSUME NEW at \in Int, NEW target \in Int
  PROVE  FitsDirectly("Other", at, target)
BY DEF FitsDirectly

(* item_size takes at most a skip and a far branch.                         *)
LEMMA ItemSizes ==
  ASSUME NEW kind \in Kinds, NEW at \in Int, NEW target \in Int
  PROVE  ItemSize(kind, at, target) \in Sizes
<1>1. CASE FitsDirectly(kind, at, target)
  BY <1>1 DEF ItemSize, Sizes
<1>2. CASE ~FitsDirectly(kind, at, target)
  <2>1. kind \in {"B", "BCond", "CBZ", "TBZ", "ADR", "ADRP", "LDR"}
    BY <1>2, OtherFits DEF Kinds
  <2>2. QED
    BY <1>2, <2>1, BranchSizes DEF ItemSize, Sizes, Conditionals
<1>3. QED  BY <1>1, <1>2

(* emit_item and item_size agree on every instruction.                      *)
LEMMA EmittedSize ==
  ASSUME NEW kind \in Kinds, NEW at \in Int, NEW target \in Int
  PROVE  4 * EmitWords(kind, at, target) = ItemSize(kind, at, target)
<1>1. CASE FitsDirectly(kind, at, target)
  BY <1>1 DEF EmitWords, ItemSize
<1>2. CASE ~FitsDirectly(kind, at, target)
  <2>1. kind \in {"B", "BCond", "CBZ", "TBZ", "ADR", "ADRP", "LDR"}
    BY <1>2, OtherFits DEF Kinds
  <2>2. QED
    BY <1>2, <2>1 DEF EmitWords, ItemSize, Conditionals, BranchWords, AddressWords,
       LoadImmediateWords, BranchSequenceSize, AddressSequenceSize
<1>3. QED  BY <1>1, <1>2

(* References within the copied window are short.                           *)
LEMMA ShortReference ==
  ASSUME NEW kind \in Kinds, NEW at \in Int, NEW target \in Int,
         Aligned(at), Aligned(target),
         at - target <= 24 * MaxItems, target - at <= 24 * MaxItems
  PROVE  FitsDirectly(kind, at, target)
<1>1. (target - at) % 4 = 0
  BY DEF Aligned
<1>2. \A reach \in {Reach26, Reach19, Reach14, Reach21} : Within(at, target, reach)
  BY ReachAssumption, WindowAssumption, RelocatorAssumption DEF Within
<1>3. Within(PageOf(at), PageOf(target), ReachPages)
  BY PageInNat, ReachAssumption, WindowAssumption, RelocatorAssumption DEF Within
<1>4. QED
  BY <1>1, <1>2, <1>3 DEF FitsDirectly, FitsWords, FitsBranch26, FitsBranch19,
     FitsBranch14, FitsLdrLiteral, FitsAdr, FitsAdrp, Kinds

LEMMA ItemFacts ==
  ASSUME TypeOK
  PROVE  /\ N \in Nat /\ 1 <= N /\ N <= MaxItems /\ MaxItems \in Nat
         /\ source \in Nat /\ dest \in Nat
         /\ \A k \in ItemIndex : /\ items[k].kind \in Kinds
                                /\ items[k].target \in Nat
                                /\ address[k] \in Nat
                                /\ size[k] \in Sizes
<1>1. MaxItems \in Nat /\ Sources \subseteq Nat /\ Destinations \subseteq Nat
  BY RelocatorAssumption
<1>2. N \in 1 .. MaxItems /\ source \in Nat /\ dest \in Nat
  BY <1>1 DEF TypeOK
<1>3. \A k \in ItemIndex : items[k] \in Instructions
  BY DEF TypeOK, N, ItemIndex
<1>4. \A insn \in Instructions : insn.kind \in Kinds /\ insn.target \in Nat
  BY RelocatorAssumption DEF Instruction
<1>5. \A k \in ItemIndex : address[k] \in Nat /\ size[k] \in Sizes
  BY DEF TypeOK
<1>6. QED  BY <1>1, <1>2, <1>3, <1>4, <1>5

(* The size measured for an item only depends on its own address.           *)
LEMMA MeasuredNeed ==
  ASSUME TypeOK, Aligned(source), Aligned(dest), AddressesOK(N), NEW k \in ItemIndex
  PROVE  /\ TargetOf(k) \in Int
         /\ ItemSize(items[k].kind, address[k], TargetOf(k)) = Need(k, address[k])
<1> DEFINE target == items[k].target
           m == ((target - source) \div 4) + 1
<1>1. target \in Nat /\ items[k].kind \in Kinds /\ address[k] \in Nat
  BY ItemFacts
<1>2. CASE InWindow(target)
  <2>1. m \in ItemIndex
    BY <1>1, <1>2, ItemFacts DEF InWindow, ItemIndex, Aligned
  <2>2. TargetOf(k) = address[m]
    BY <1>1, <1>2, ItemFacts DEF InWindow, TargetOf, RemapTarget
  <2>3. Aligned(address[k]) /\ Aligned(address[m])
    BY <2>1 DEF AddressesOK, ItemIndex
  <2>4. /\ address[m] \in Nat
        /\ dest <= address[k] /\ address[k] <= dest + 24 * (k - 1)
        /\ dest <= address[m] /\ address[m] <= dest + 24 * (m - 1)
    BY <2>1, ItemFacts DEF AddressesOK, ItemIndex
  <2>5. /\ address[k] - address[m] <= 24 * MaxItems
        /\ address[m] - address[k] <= 24 * MaxItems
    BY <1>1, <2>1, <2>4, ItemFacts DEF ItemIndex
  <2>6. FitsDirectly(items[k].kind, address[k], address[m])
    BY <1>1, <2>3, <2>4, <2>5, ShortReference
  <2>7. QED  BY <1>2, <2>2, <2>4, <2>6 DEF ItemSize, Need
<1>3. CASE ~InWindow(target)
  BY <1>1, <1>3, ItemFacts DEF InWindow, TargetOf, RemapTarget, Need
<1>4. QED  BY <1>2, <1>3

LEMMA NeedSizes ==
  ASSUME TypeOK, NEW k \in ItemIndex
  PROVE  Need(k, address[k]) \in Sizes
BY ItemFacts, ItemSizes DEF Need, Sizes

-----------------------------------------------------------------------------
LEMMA InitInv ==
  ASSUME Init
  PROVE  IInv
<1>1. PICK n \in 1 .. MaxItems : items \in [1 .. n -> Instructions]
  BY DEF Init
<1>2. MaxItems \in Nat \ {0} /\ dest \in Nat
  BY RelocatorAssumption DEF Init
<1>3. items \in Seq(Instructions) /\ N = n /\ N \in 1 .. MaxItems
  BY <1>1, <1>2 DEF N
<1>4. TypeOK
  <2>1. N \in Nat /\ 1 <= N /\ ItemIndex = 1 .. N
    BY <1>2, <1>3 DEF ItemIndex
  <2>2. address \in [ItemIndex -> Nat] /\ size \in [ItemIndex -> Sizes]
    BY DEF Init, Sizes
  <2>3. i \in 1 .. N + 1 /\ pass \in 0 .. N + 4 /\ cursor \in Nat
    BY <1>2, <2>1 DEF Init
  <2>4. \A S : <<>> \in Seq(S)
    OBVIOUS
  <2>5. out \in Seq([at: Int, denotes: Int])
    BY <2>4 DEF Init
  <2>6. bytes \in Nat /\ stable \in BOOLEAN
    BY DEF Init
  <2>7. QED  BY <1>3, <2>2, <2>3, <2>5, <2>6 DEF Init, TypeOK, Errors
<1>5. PlaceInv /\ MeasureInv /\ FinalInv /\ ErrorInv
  BY DEF Init, PlaceInv, MeasureInv, FinalInv, ErrorInv
<1>6. EmitInv
  <2>1. Len(out) = 0 /\ bytes = 0 /\ out = <<>> /\ pc = "check"
    BY DEF Init
  <2>2. QED  BY <1>3, <2>1 DEF EmitInv, ItemIndex
<1>7. QED  BY <1>4, <1>5, <1>6 DEF IInv

LEMMA CheckStep ==
  ASSUME IInv, Check
  PROVE  IInv'
<1>1. TypeOK'
  BY DEF IInv, TypeOK, Check, Fail, arguments, N, ItemIndex, Errors
<1>2. PlaceInv'
  BY ItemFacts DEF IInv, ErrorInv, Check, Fail, arguments, PlaceInv, CursorOK, LinkedTo, AddressesOK, N, ItemIndex
<1>3. MeasureInv' /\ FinalInv'
  BY DEF Check, Fail, MeasureInv, FinalInv
<1>4. EmitInv'
  BY DEF IInv, Check, Fail, arguments, EmitInv, N, ItemIndex, TargetOf, RemapTarget
<1>5. ErrorInv'
  BY DEF IInv, Check, Fail, ErrorInv
<1>6. QED  BY <1>1, <1>2, <1>3, <1>4, <1>5 DEF IInv

LEMMA PlaceStep ==
  ASSUME IInv, Place
  PROVE  IInv'
<1> USE DEF ItemIndex
<1>0. /\ pc = "place" /\ pc' = "place" /\ i <= N /\ i \in ItemIndex
      /\ address' = [address EXCEPT ![i] = cursor]
      /\ cursor' = cursor + size[i] /\ i' = i + 1
      /\ UNCHANGED <<items, source, dest, pass, size, stable, out, bytes, error>>
      /\ N' = N
  BY ItemFacts DEF IInv, TypeOK, Place, PlaceItem, arguments, N
<1>1. TypeOK'
  <2>1. cursor \in Nat /\ size[i] \in Nat /\ N \in Nat /\ i \in Nat
    <3>1. cursor \in Nat /\ N \in Nat /\ i \in 1 .. N
      BY <1>0, ItemFacts DEF IInv, TypeOK
    <3>2. size[i] \in {4, 8, 12, 16, 20, 24}
      BY <1>0, ItemFacts DEF IInv, Sizes
    <3>3. QED  BY <3>1, <3>2
  <2>2. cursor' \in Nat /\ i' \in 1 .. N' + 1 /\ address' \in [1 .. N' -> Nat]
    BY <1>0, <2>1 DEF IInv, TypeOK
  <2>3. QED  BY <1>0, <2>2 DEF IInv, TypeOK
<1>2. /\ Aligned(cursor) /\ dest <= cursor /\ cursor <= dest + 24 * (i - 1)
  <2>1. CASE i = 1
    BY <1>0, <2>1, ItemFacts DEF IInv, PlaceInv, CursorOK
  <2>2. CASE i # 1
    <3> DEFINE j == i - 1
    <3>1. j \in 1 .. N /\ j <= i - 1
      BY <1>0, <2>2, ItemFacts DEF IInv
    <3>2. /\ Aligned(address[j]) /\ dest <= address[j] /\ address[j] <= dest + 24 * (j - 1)
          /\ cursor = address[j] + size[j]
      BY <1>0, <2>2, <3>1 DEF IInv, PlaceInv, AddressesOK, CursorOK
    <3>3. address[j] \in Nat /\ size[j] \in {4, 8, 12, 16, 20, 24} /\ dest \in Nat
      BY <3>1, ItemFacts DEF IInv, Sizes
    <3>4. QED  BY <3>1, <3>2, <3>3 DEF Aligned
  <2>3. QED  BY <2>1, <2>2
<1>3. i <= pass => cursor = address[i]
  <2>1. CASE i = 1
    BY <1>0, <2>1, ItemFacts DEF IInv, TypeOK, PlaceInv, CursorOK, LinkedTo
  <2>2. CASE i # 1 /\ i <= pass
    <3>1. i - 1 \in 1 .. N /\ i - 1 < pass /\ i - 1 < N /\ pass > 0
      BY <1>0, <2>2, ItemFacts DEF IInv, TypeOK
    <3>2. address[(i - 1) + 1] = address[i - 1] + size[i - 1]
      BY <1>0, <3>1 DEF IInv, PlaceInv, LinkedTo
    <3>3. QED  BY <1>0, <2>2, <3>1, <3>2, ItemFacts DEF IInv, PlaceInv, CursorOK
  <2>3. QED  BY <2>1, <2>2
<1>4. PlaceInv'
  <2>1. CursorOK'
    BY <1>0, ItemFacts DEF CursorOK, IInv, TypeOK
  <2>2. AddressesOK(i - 1)'
    <3>1. AddressesOK(i - 1) /\ address \in [1 .. N -> Nat]
      BY <1>0 DEF IInv, PlaceInv, TypeOK
    <3>2. \A j \in 1 .. N : j <= i => j = i \/ j <= i - 1
      BY <1>0, ItemFacts DEF IInv
    <3>3. (i - 1)' = i
      BY <1>0, ItemFacts DEF IInv
    <3>4. QED  BY <1>0, <1>2, <3>1, <3>2, <3>3 DEF AddressesOK
  <2>3. LinkedTo(i - 1)'
    <3>1. LinkedTo(i - 1) /\ address \in [1 .. N -> Nat] /\ N \in Nat /\ CursorOK
      BY <1>0, ItemFacts DEF IInv, PlaceInv, TypeOK
    <3>2. (i - 1)' = i /\ i \in 1 .. N
      BY <1>0, ItemFacts DEF IInv
    <3>3. i >= 1 => address'[1] = dest
      BY <1>0, <3>1, <3>2 DEF LinkedTo, CursorOK
    <3>4. ASSUME NEW j \in 1 .. N, j < i, j < N
          PROVE  address'[j + 1] = address'[j] + size[j]
      <4>1. CASE j + 1 = i
        BY <1>0, <3>1, <3>2, <3>4, <4>1 DEF CursorOK
      <4>2. CASE j + 1 # i
        BY <1>0, <3>1, <3>2, <3>4, <4>2 DEF LinkedTo
      <4>3. QED  BY <4>1, <4>2
    <3>5. QED  BY <1>0, <3>2, <3>3, <3>4 DEF LinkedTo
  <2>4. pass > 0 => AddressesOK(N)'
    BY <1>0, <1>2, ItemFacts DEF AddressesOK, IInv, TypeOK, PlaceInv
  <2>5. pass > 0 => SettledTo(pass)'
    BY <1>0, <1>3, ItemFacts DEF SettledTo, Need, InWindow, N, IInv, TypeOK, PlaceInv
  <2>6. pass > 0 => LinkedTo(pass)'
    <3>1. CASE i <= pass
      <4>1. address' = address
        BY <1>0, <1>3, <3>1 DEF IInv, TypeOK
      <4>2. QED  BY <1>0, <4>1 DEF LinkedTo, IInv, PlaceInv
    <3>2. CASE i > pass
      <4>1. \A j \in 1 .. N : j <= pass => address'[j] = address[j]
        BY <1>0, <3>2, ItemFacts DEF IInv, TypeOK
      <4>2. pass > 0 => 1 \in 1 .. N /\ 1 <= pass
        BY <1>0, ItemFacts DEF IInv, TypeOK
      <4>3. \A j \in 1 .. N : j < pass /\ j < N => j <= pass /\ j + 1 <= pass /\ j + 1 \in 1 .. N
        BY <1>0, ItemFacts DEF IInv, TypeOK
      <4>4. QED  BY <1>0, <4>1, <4>2, <4>3 DEF LinkedTo, IInv, PlaceInv
    <3>3. QED  BY <1>0, <3>1, <3>2, ItemFacts DEF IInv, TypeOK
  <2>7. QED
    BY <1>0, <2>1, <2>2, <2>3, <2>4, <2>5, <2>6 DEF IInv, PlaceInv
<1>5. MeasureInv' /\ FinalInv'
  BY <1>0 DEF MeasureInv, FinalInv
<1>6. EmitInv'
  <2>1. Len(out) = 0 /\ out = <<>> /\ bytes = 0
    BY <1>0 DEF IInv, EmitInv
  <2>2. QED  BY <1>0, <2>1, ItemFacts DEF IInv, EmitInv
<1>7. ErrorInv'
  BY <1>0 DEF IInv, ErrorInv
<1>8. QED  BY <1>1, <1>4, <1>5, <1>6, <1>7 DEF IInv

LEMMA PlacedStep ==
  ASSUME IInv, Placed
  PROVE  IInv'
<1> USE DEF ItemIndex
<1>0. /\ pc = "place" /\ pc' = "measure" /\ i = N + 1 /\ i' = 1 /\ stable' = TRUE
      /\ UNCHANGED <<items, source, dest, pass, cursor, address, size, out, bytes, error>>
      /\ N' = N /\ N \in Nat /\ 1 <= N
  BY ItemFacts DEF IInv, TypeOK, Placed, arguments, N
<1>1. TypeOK'
  BY <1>0 DEF IInv, TypeOK
<1>2. MeasureInv'
  <2>1. AddressesOK(N) /\ LinkedTo(N) /\ Aligned(source) /\ Aligned(dest) /\ pass < N + 4
    BY <1>0 DEF IInv, PlaceInv
  <2>2. SettledTo(pass)
    BY <1>0 DEF IInv, PlaceInv, SettledTo, TypeOK
  <2>3. LinkedTo(pass + 1)
    BY <1>0, <2>1 DEF LinkedTo
  <2>4. SettledTo(pass)'
    BY <1>0, <2>2 DEF SettledTo, Need, InWindow, N
  <2>5. SettledTo(i - 1)'
    BY <1>0 DEF SettledTo
  <2>6. AddressesOK(N)' /\ LinkedTo(pass + 1)' /\ LinkedTo(N)'
    BY <1>0, <2>1, <2>3 DEF AddressesOK, LinkedTo
  <2>7. QED  BY <1>0, <2>1, <2>4, <2>5, <2>6 DEF MeasureInv
<1>3. PlaceInv' /\ FinalInv'
  BY <1>0 DEF PlaceInv, FinalInv
<1>4. EmitInv'
  <2>1. Len(out) = 0 /\ out = <<>> /\ bytes = 0
    BY <1>0 DEF IInv, EmitInv
  <2>2. QED  BY <1>0, <2>1 DEF EmitInv
<1>5. ErrorInv'
  BY <1>0 DEF IInv, ErrorInv
<1>6. QED  BY <1>1, <1>2, <1>3, <1>4, <1>5 DEF IInv

LEMMA MeasureStep ==
  ASSUME IInv, Measure
  PROVE  IInv'
<1> USE DEF ItemIndex
<1> DEFINE need == Need(i, address[i])
<1>0. /\ pc = "measure" /\ pc' = "measure" /\ i \in 1 .. N /\ i' = i + 1
      /\ UNCHANGED <<items, source, dest, pass, cursor, address, out, bytes, error>>
      /\ N' = N /\ N \in Nat /\ 1 <= N /\ TypeOK
  BY ItemFacts DEF IInv, TypeOK, Measure, arguments, N
<1>1. /\ size' = [size EXCEPT ![i] = need]
      /\ stable' = (stable /\ need = size[i])
      /\ need \in Sizes
  <2>1. Aligned(source) /\ Aligned(dest) /\ AddressesOK(N)
    BY <1>0 DEF IInv, MeasureInv
  <2>2. need \in Sizes
    BY <1>0, NeedSizes
  <2>3. ItemSize(items[i].kind, address[i], TargetOf(i)) = need
    BY <1>0, <2>1, MeasuredNeed
  <2>4. QED  BY <2>2, <2>3 DEF Measure
<1>2. size \in [1 .. N -> Sizes] /\ stable \in BOOLEAN
  BY <1>0 DEF TypeOK
<1>3. size' \in [1 .. N -> Sizes] /\ stable' \in BOOLEAN
  BY <1>1, <1>2
<1>4. TypeOK'
  BY <1>0, <1>3 DEF TypeOK
<1>5. i <= pass => size' = size /\ need = size[i]
  BY <1>0, <1>1, <1>2 DEF IInv, MeasureInv, SettledTo
<1>6. MeasureInv'
  <2>1. AddressesOK(N)'
    BY <1>0 DEF AddressesOK, IInv, MeasureInv
  <2>2. SettledTo(pass)'
    BY <1>0, <1>1, <1>2, <1>5 DEF SettledTo, Need, InWindow, N, IInv, MeasureInv
  <2>3. SettledTo(i - 1)'
    <3>1. (i - 1)' = i /\ SettledTo(i - 1)
      BY <1>0 DEF IInv, MeasureInv
    <3>2. ASSUME NEW j \in 1 .. N, j <= i
          PROVE  size'[j] = Need(j, address[j])
      <4>1. CASE j = i
        BY <1>0, <1>1, <1>2, <4>1
      <4>2. CASE j # i
        BY <1>0, <1>1, <1>2, <3>1, <3>2, <4>2 DEF SettledTo
      <4>3. QED  BY <4>1, <4>2
    <3>3. QED  BY <1>0, <3>1, <3>2 DEF SettledTo, Need, InWindow, N
  <2>4. LinkedTo(pass + 1)'
    <3>1. CASE i <= pass
      BY <1>0, <1>5, <3>1 DEF LinkedTo, IInv, MeasureInv
    <3>2. CASE i > pass
      <4>1. \A j \in 1 .. N : j < pass + 1 => size'[j] = size[j]
        BY <1>0, <1>1, <1>2, <3>2 DEF TypeOK
      <4>2. QED  BY <1>0, <4>1 DEF LinkedTo, IInv, MeasureInv
    <3>3. QED  BY <1>0, <3>1, <3>2 DEF TypeOK
  <2>5. stable' => LinkedTo(N)'
    <3>1. stable' => stable /\ size' = size
      BY <1>0, <1>1, <1>2
    <3>2. QED  BY <1>0, <3>1 DEF LinkedTo, IInv, MeasureInv
  <2>6. ~stable' => pass < N
    BY <1>0, <1>1, <1>2, <1>5 DEF IInv, MeasureInv, TypeOK
  <2>7. QED
    BY <1>0, <2>1, <2>2, <2>3, <2>4, <2>5, <2>6 DEF IInv, MeasureInv
<1>7. PlaceInv' /\ FinalInv'
  BY <1>0 DEF PlaceInv, FinalInv
<1>8. EmitInv'
  <2>1. Len(out) = 0 /\ out = <<>> /\ bytes = 0
    BY <1>0 DEF IInv, EmitInv
  <2>2. QED  BY <1>0, <2>1 DEF EmitInv
<1>9. ErrorInv'
  BY <1>0 DEF IInv, ErrorInv
<1>10. QED  BY <1>4, <1>6, <1>7, <1>8, <1>9 DEF IInv

LEMMA MeasuredStep ==
  ASSUME IInv, Measured
  PROVE  IInv'
<1> USE DEF ItemIndex
<1>0. /\ pc = "measure" /\ i = N + 1 /\ i' = 1 /\ pass' = pass + 1 /\ cursor' = dest
      /\ UNCHANGED <<items, source, dest, address, size, stable, out, bytes, error>>
      /\ N' = N /\ N \in Nat /\ 1 <= N /\ TypeOK /\ pass \in Nat /\ pass < N + 4
      /\ dest \in Nat
      /\ \/ stable /\ pc' = "final"
         \/ ~stable /\ pc' = "place" /\ pass + 1 < N + 4
  BY ItemFacts DEF IInv, MeasureInv, TypeOK, Measured, arguments, N, Fail
<1>1. TypeOK'
  BY <1>0 DEF TypeOK
<1>2. /\ AddressesOK(N) /\ SettledTo(N) /\ LinkedTo(pass + 1)
      /\ Aligned(source) /\ Aligned(dest)
      /\ stable => LinkedTo(N)
  BY <1>0 DEF IInv, MeasureInv
<1>3. AddressesOK(N)' /\ SettledTo(N)' /\ LinkedTo(pass)'
  BY <1>0, <1>2 DEF AddressesOK, SettledTo, Need, InWindow, N, LinkedTo
<1>4. PlaceInv'
  <2>1. SettledTo(pass)'
    BY <1>0, <1>3 DEF SettledTo, TypeOK
  <2>2. CursorOK' /\ LinkedTo(i - 1)' /\ AddressesOK(i - 1)'
    BY <1>0 DEF CursorOK, LinkedTo, AddressesOK
  <2>3. QED  BY <1>0, <1>2, <1>3, <2>1, <2>2 DEF PlaceInv
<1>5. FinalInv'
  <2>1. stable => LinkedTo(N)'
    BY <1>0, <1>2 DEF LinkedTo
  <2>2. CursorOK'
    BY <1>0 DEF CursorOK
  <2>3. QED  BY <1>0, <1>2, <1>3, <2>1, <2>2 DEF FinalInv
<1>6. MeasureInv'
  BY <1>0 DEF MeasureInv
<1>7. EmitInv'
  <2>1. Len(out) = 0 /\ out = <<>> /\ bytes = 0
    BY <1>0 DEF IInv, EmitInv
  <2>2. QED  BY <1>0, <2>1 DEF EmitInv
<1>8. ErrorInv'
  BY <1>0 DEF IInv, ErrorInv
<1>9. QED  BY <1>1, <1>4, <1>5, <1>6, <1>7, <1>8 DEF IInv

LEMMA FinalStep ==
  ASSUME IInv, Final
  PROVE  IInv'
<1> USE DEF ItemIndex
<1>0. /\ pc = "final" /\ pc' = "final" /\ i \in 1 .. N /\ i' = i + 1
      /\ address' = [address EXCEPT ![i] = cursor] /\ cursor' = cursor + size[i]
      /\ UNCHANGED <<items, source, dest, pass, size, stable, out, bytes, error>>
      /\ N' = N /\ N \in Nat /\ 1 <= N /\ TypeOK
  BY ItemFacts DEF IInv, TypeOK, Final, PlaceItem, arguments, N
<1>1. CursorOK /\ AddressesOK(N) /\ SettledTo(N) /\ LinkedTo(N) /\ Aligned(source) /\ Aligned(dest)
  BY <1>0 DEF IInv, FinalInv
<1>2. cursor = address[i]
  <2>1. CASE i = 1
    BY <1>0, <1>1, <2>1 DEF CursorOK, LinkedTo
  <2>2. CASE i # 1
    <3>1. i - 1 \in 1 .. N /\ i - 1 < N
      BY <1>0, <2>2
    <3>2. address[(i - 1) + 1] = address[i - 1] + size[i - 1]
      BY <1>1, <3>1 DEF LinkedTo
    <3>3. QED  BY <1>0, <1>1, <2>2, <3>2 DEF CursorOK
  <2>3. QED  BY <2>1, <2>2
<1>3. address' = address
  BY <1>0, <1>2 DEF TypeOK
<1>4. TypeOK'
  <2>1. cursor \in Nat /\ size[i] \in {4, 8, 12, 16, 20, 24}
    BY <1>0 DEF TypeOK, Sizes
  <2>2. cursor' \in Nat /\ i' \in 1 .. N + 1
    BY <1>0, <2>1
  <2>3. QED  BY <1>0, <1>3, <2>2 DEF TypeOK
<1>5. FinalInv'
  <2>1. CursorOK'
    BY <1>0, <1>2, <1>3 DEF CursorOK
  <2>2. AddressesOK(N)' /\ SettledTo(N)' /\ LinkedTo(N)'
    BY <1>0, <1>1, <1>3 DEF AddressesOK, SettledTo, LinkedTo, Need, InWindow, N
  <2>3. QED  BY <1>0, <1>1, <2>1, <2>2 DEF FinalInv
<1>6. PlaceInv' /\ MeasureInv'
  BY <1>0 DEF PlaceInv, MeasureInv
<1>7. EmitInv'
  <2>1. Len(out) = 0 /\ out = <<>> /\ bytes = 0
    BY <1>0 DEF IInv, EmitInv
  <2>2. QED  BY <1>0, <2>1 DEF EmitInv
<1>8. ErrorInv'
  BY <1>0 DEF IInv, ErrorInv
<1>9. QED  BY <1>4, <1>5, <1>6, <1>7, <1>8 DEF IInv

LEMMA FinalPlacedStep ==
  ASSUME IInv, FinalPlaced
  PROVE  IInv'
<1> USE DEF ItemIndex
<1>0. /\ pc = "final" /\ pc' = "emit" /\ i' = 1
      /\ UNCHANGED <<items, source, dest, pass, cursor, address, size, stable, out, bytes, error>>
      /\ N' = N /\ N \in Nat /\ 1 <= N /\ TypeOK
  BY ItemFacts DEF IInv, TypeOK, FinalPlaced, arguments, N
<1>1. TypeOK'
  BY <1>0 DEF TypeOK
<1>2. FinalInv'
  BY <1>0 DEF IInv, FinalInv, AddressesOK, SettledTo, LinkedTo, Need, InWindow, N
<1>3. PlaceInv' /\ MeasureInv'
  BY <1>0 DEF PlaceInv, MeasureInv
<1>4. EmitInv'
  <2>1. Len(out) = 0 /\ out = <<>> /\ bytes = 0
    BY <1>0 DEF IInv, EmitInv
  <2>2. QED  BY <1>0, <2>1 DEF EmitInv
<1>5. ErrorInv'
  BY <1>0 DEF IInv, ErrorInv
<1>6. QED  BY <1>1, <1>2, <1>3, <1>4, <1>5 DEF IInv

LEMMA EmitStep ==
  ASSUME IInv, Emit
  PROVE  IInv'
<1> USE DEF ItemIndex
<1> DEFINE kind == items[i].kind
           new == [at |-> dest + bytes, denotes |-> Denotes(kind, TargetOf(i))]
<1>0. /\ pc = "emit" /\ i \in 1 .. N /\ i' = i + 1 /\ out' = Append(out, new)
      /\ bytes' = bytes + 4 * EmitWords(kind, address[i], TargetOf(i))
      /\ UNCHANGED <<items, source, dest, pass, cursor, address, size, stable>>
      /\ N' = N /\ N \in Nat /\ 1 <= N /\ TypeOK
  BY ItemFacts DEF IInv, TypeOK, Emit, arguments, N
<1>1. AddressesOK(N) /\ SettledTo(N) /\ LinkedTo(N) /\ Aligned(source) /\ Aligned(dest)
  BY <1>0 DEF IInv, FinalInv
<1>2. /\ TargetOf(i) \in Int /\ kind \in Kinds /\ address[i] \in Nat
      /\ 4 * EmitWords(kind, address[i], TargetOf(i)) = size[i]
  BY <1>0, <1>1, MeasuredNeed, EmittedSize, ItemFacts DEF SettledTo
<1>3. pc' = "emit" /\ UNCHANGED error
  BY <1>0, <1>2 DEF Emit
<1>4. dest + bytes = address[i]
  <2>1. CASE i = 1
    BY <1>0, <1>1, <2>1, ItemFacts DEF IInv, EmitInv, LinkedTo
  <2>2. CASE i # 1
    <3>1. i - 1 \in 1 .. N /\ i - 1 < N
      BY <1>0, <2>2
    <3>2. address[(i - 1) + 1] = address[i - 1] + size[i - 1]
      BY <1>1, <3>1 DEF LinkedTo
    <3>3. address[i - 1] \in Nat /\ size[i - 1] \in {4, 8, 12, 16, 20, 24} /\ dest \in Nat
      BY <1>0, <3>1, ItemFacts DEF Sizes
    <3>4. bytes = address[i - 1] + size[i - 1] - dest
      BY <1>0, <2>2 DEF IInv, EmitInv
    <3>5. address[i] = address[i - 1] + size[i - 1]
      BY <1>0, <3>2
    <3>6. QED  BY <3>3, <3>4, <3>5
  <2>3. QED  BY <2>1, <2>2
<1>5. Len(out) = i - 1 /\ out \in Seq([at: Int, denotes: Int]) /\ bytes \in Nat
  BY <1>0 DEF IInv, EmitInv, TypeOK
<1>6. new \in [at: Int, denotes: Int]
  <2>1. Denotes(kind, TargetOf(i)) \in Int
    BY <1>2, PageInNat DEF Denotes
  <2>2. dest + bytes \in Int
    BY <1>0, <1>5, ItemFacts
  <2>3. QED  BY <2>1, <2>2
<1>7. /\ out' \in Seq([at: Int, denotes: Int]) /\ Len(out') = i
      /\ out'[i] = new /\ \A k \in 1 .. i - 1 : out'[k] = out[k]
  BY <1>0, <1>5, <1>6
<1>8. size[i] \in {4, 8, 12, 16, 20, 24} /\ bytes' = bytes + size[i]
  BY <1>0, <1>2, ItemFacts DEF Sizes
<1>9. TypeOK'
  <2>1. i' \in 1 .. N' + 1 /\ bytes' \in Nat
    BY <1>0, <1>5, <1>8
  <2>2. QED  BY <1>0, <1>3, <1>7, <2>1 DEF TypeOK
<1>10. FinalInv'
  BY <1>0, <1>1, <1>3 DEF FinalInv, AddressesOK, SettledTo, LinkedTo, Need, InWindow, N
<1>11. PlaceInv' /\ MeasureInv'
  BY <1>3 DEF PlaceInv, MeasureInv
<1>12. EmitInv'
  <2>1. bytes' = address[i] + size[i] - dest
    <3>1. dest \in Nat
      BY <1>0, ItemFacts
    <3>2. QED  BY <1>2, <1>4, <1>5, <1>8, <3>1
  <2>2. bytes' <= 24 * N
    <3>1. address[i] <= dest + 24 * (i - 1)
      BY <1>0, <1>1 DEF AddressesOK
    <3>2. dest \in Nat
      BY <1>0, ItemFacts
    <3>3. i \in Int /\ 1 <= i /\ i <= N /\ size[i] <= 24 /\ size[i] \in Int
      BY <1>0, <1>8
    <3>4. address[i] + size[i] - dest <= 24 * (i - 1) + 24
      BY <1>2, <3>1, <3>2, <3>3
    <3>5. 24 * (i - 1) + 24 <= 24 * N
      BY <1>0, <3>3
    <3>6. QED  BY <1>0, <1>2, <2>1, <3>2, <3>3, <3>4, <3>5
  <2>3. ASSUME NEW k \in 1 .. N, k <= i
        PROVE  /\ out'[k].at = address[k]
               /\ out'[k].denotes = Denotes(items[k].kind, TargetOf(k))
    <3>1. CASE k = i
      BY <1>4, <1>7, <3>1
    <3>2. CASE k # i
      <4>1. k \in 1 .. i - 1 /\ k <= Len(out)
        BY <1>0, <1>5, <2>3, <3>2
      <4>2. /\ out[k].at = address[k]
            /\ out[k].denotes = Denotes(items[k].kind, TargetOf(k))
        BY <1>0, <4>1 DEF IInv, EmitInv
      <4>3. QED  BY <1>7, <4>1, <4>2
    <3>3. QED  BY <3>1, <3>2
  <2>4. \A k \in 1 .. N : k <= Len(out') =>
          /\ out'[k].at = address'[k]
          /\ out'[k].denotes = Denotes(items'[k].kind, TargetOf(k)')
    BY <1>0, <1>7, <2>3 DEF TargetOf, RemapTarget, N
  <2>5. /\ Len(out') = i' - 1 /\ Len(out') <= N' /\ i' # 1 /\ i' - 1 = i
    BY <1>0, <1>7
  <2>6. QED  BY <1>0, <1>3, <2>1, <2>2, <2>4, <2>5 DEF EmitInv
<1>13. ErrorInv'
  BY <1>3 DEF IInv, ErrorInv
<1>14. QED  BY <1>9, <1>10, <1>11, <1>12, <1>13 DEF IInv

LEMMA EndStep ==
  ASSUME IInv, EmitFails \/ Done
  PROVE  IInv'
<1> USE DEF ItemIndex
<1>0. /\ pc = "emit"
      /\ \/ pc' = "failed" /\ error' = "condition"
         \/ pc' = "done" /\ error' = error /\ i = N + 1
      /\ UNCHANGED <<items, source, dest, i, pass, cursor, address, size, stable, out, bytes>>
      /\ N' = N /\ N \in Nat /\ 1 <= N /\ TypeOK
  BY ItemFacts DEF IInv, TypeOK, EmitFails, Done, Fail, arguments, N
<1>1. TypeOK'
  BY <1>0 DEF TypeOK, Errors
<1>2. FinalInv'
  BY <1>0 DEF IInv, FinalInv, AddressesOK, SettledTo, LinkedTo, Need, InWindow, N
<1>3. PlaceInv' /\ MeasureInv'
  BY <1>0 DEF PlaceInv, MeasureInv
<1>4. EmitInv'
  BY <1>0 DEF IInv, EmitInv, TargetOf, RemapTarget, N
<1>5. ErrorInv'
  BY <1>0 DEF IInv, ErrorInv
<1>6. QED  BY <1>1, <1>2, <1>3, <1>4, <1>5 DEF IInv

LEMMA StutterStep ==
  ASSUME IInv, UNCHANGED vars
  PROVE  IInv'
BY DEF vars, IInv, TypeOK, PlaceInv, MeasureInv, FinalInv, EmitInv, ErrorInv, CursorOK,
   LinkedTo, AddressesOK, SettledTo, Need, InWindow, TargetOf, RemapTarget, N, ItemIndex

-----------------------------------------------------------------------------
(* The strengthened invariant holds in every reachable state: pass k of the *)
(* layout loop leaves the first k items where they are and as long as they  *)
(* are, because only a reference out of the window can change its size and  *)
(* that depends on the item's own address alone.                            *)
THEOREM InductiveInvariant == Spec => []IInv
<1>1. Init => IInv
  BY InitInv
<1>2. IInv /\ [Next]_vars => IInv'
  BY CheckStep, PlaceStep, PlacedStep, MeasureStep, MeasuredStep, FinalStep,
     FinalPlacedStep, EmitStep, EndStep, StutterStep DEF Next
<1>3. QED  BY <1>1, <1>2, PTL DEF Spec

(* Type correctness.                                                        *)
THEOREM TypeCorrect == Spec => []TypeOK
<1>1. IInv => TypeOK
  BY DEF IInv
<1>2. QED  BY <1>1, InductiveInvariant, PTL

(* "did not converge" is unreachable: N + 1 of the N + 4 passes suffice.    *)
THEOREM Convergence == Spec => []NeverDiverges
<1>1. IInv => NeverDiverges
  BY DEF IInv, ErrorInv, NeverDiverges
<1>2. QED  BY <1>1, InductiveInvariant, PTL

(* "emitted an invalid size" is unreachable.                                *)
THEOREM SizesAgree == Spec => []NeverMissized
<1>1. IInv => NeverMissized
  BY DEF IInv, ErrorInv, NeverMissized
<1>2. QED  BY <1>1, InductiveInvariant, PTL

(* max_relocated_size is enough room for the copy.                          *)
THEOREM RoomIsEnough == Spec => []FitsReservation
<1>1. IInv => FitsReservation
  <2> SUFFICES ASSUME IInv PROVE FitsReservation
    OBVIOUS
  <2>1. bytes <= 24 * N /\ N \in Nat
    BY ItemFacts DEF IInv, EmitInv
  <2>2. (4 * N) \div 4 = N
    BY <2>1
  <2>3. QED  BY <2>1, <2>2 DEF FitsReservation, MaxRelocatedSize
<1>2. QED  BY <1>1, InductiveInvariant, PTL

(* Code stands where it was encoded for.                                    *)
THEOREM CodeInPlace == Spec => []EmittedInPlace
<1>1. IInv => EmittedInPlace
  <2> SUFFICES ASSUME IInv PROVE EmittedInPlace
    OBVIOUS
  <2>1. N \in Nat /\ Len(out) <= N /\ Len(out) \in Nat
    BY ItemFacts DEF IInv, EmitInv, TypeOK
  <2>2. QED  BY <2>1 DEF IInv, EmitInv, EmittedInPlace, ItemIndex
<1>2. QED  BY <1>1, InductiveInvariant, PTL

(* Branches reach what they reached before the move.                        *)
THEOREM ControlFlowKept == Spec => []BranchesPreserved
<1>1. IInv => BranchesPreserved
  <2> SUFFICES ASSUME IInv, pc = "done", NEW k \in ItemIndex, items[k].kind \in Branches
               PROVE  out[k].denotes = CopyOf(items[k].target)
    BY DEF BranchesPreserved
  <2> DEFINE target == items[k].target
             inside == {j \in ItemIndex : source + 4 * (j - 1) = target}
  <2>1. /\ Len(out) = N /\ Aligned(source)
        /\ \A j \in ItemIndex : out[j].at = address[j]
        /\ out[k].denotes = TargetOf(k)
        /\ N \in Nat /\ source \in Nat /\ target \in Nat
    BY ItemFacts DEF IInv, EmitInv, FinalInv, ItemIndex, Denotes, Branches, Conditionals
  <2>2. CASE InWindow(target)
    <3> DEFINE m == ((target - source) \div 4) + 1
    <3>1. m \in ItemIndex /\ inside = {m}
      <4>1. m \in 1 .. N /\ source + 4 * (m - 1) = target
        <5> DEFINE off == target - source
        <5>1. off \in Nat /\ off % 4 = 0 /\ off < 4 * N
          BY <2>1, <2>2 DEF InWindow, Aligned
        <5>2. off = 4 * (off \div 4) /\ off \div 4 \in Nat
          BY <5>1
        <5>3. off \div 4 < N
          BY <2>1, <5>1, <5>2
        <5>4. m - 1 = off \div 4 /\ m \in Int
          BY <5>2
        <5>5. m \in 1 .. N
          BY <2>1, <5>2, <5>3, <5>4
        <5>6. target = source + 4 * (m - 1)
          BY <2>1, <5>2, <5>4
        <5>7. QED  BY <5>5, <5>6
      <4>2. \A j \in 1 .. N : source + 4 * (j - 1) = target => j = m
        BY <2>1, <4>1
      <4>3. QED  BY <4>1, <4>2 DEF ItemIndex
    <3>2. TargetOf(k) = address[m]
      BY <2>1, <2>2 DEF TargetOf, RemapTarget, InWindow
    <3>3. CopyOf(target) = out[m].at
      BY <3>1 DEF CopyOf
    <3>4. QED  BY <2>1, <3>1, <3>2, <3>3
  <2>3. CASE ~InWindow(target)
    <3>1. inside = {}
      <4>1. ASSUME NEW j \in 1 .. N, source + 4 * (j - 1) = target
            PROVE  InWindow(target)
        <5>1. target - source = 4 * (j - 1) /\ 0 <= j - 1 /\ j - 1 < N
          <6>1. j \in Int /\ 1 <= j /\ j <= N
            BY <2>1
          <6>2. target - source = 4 * (j - 1)
            BY <2>1, <4>1, <6>1
          <6>3. QED  BY <2>1, <6>1, <6>2
        <5>2. (4 * (j - 1)) % 4 = 0
          OBVIOUS
        <5>3. QED  BY <2>1, <5>1, <5>2 DEF InWindow, Aligned
      <4>2. QED  BY <2>3, <4>1 DEF ItemIndex
    <3>2. TargetOf(k) = target
      BY <2>1, <2>3 DEF TargetOf, RemapTarget, InWindow
    <3>3. QED  BY <2>1, <3>1, <3>2 DEF CopyOf
  <2>4. QED  BY <2>2, <2>3
<1>2. QED  BY <1>1, InductiveInvariant, PTL
=============================================================================
