----------------------------- MODULE Relocator -----------------------------
(***************************************************************************)
(* relocate_block (src/src/aarch64/relocator.cpp): the instructions a hook *)
(* overwrites are copied to the cave.  Those that refer to an address      *)
(* relative to the PC are encoded again for their new place, and grow when *)
(* the reference no longer fits.  Sizes depend on addresses and addresses  *)
(* on sizes, so the layout is repeated until a pass changes no size.  Each *)
(* loop body of the code is an action: Place and Measure are one item of   *)
(* the two loops of a pass, Emit one item of the last loop.                *)
(***************************************************************************)
EXTENDS Aarch64, Sequences

CONSTANTS
  Sources,        \* where the window may be
  Destinations,   \* where its copy may go
  Instructions,   \* what may stand in it, decoded
  MaxItems        \* the longest window, in instructions

Kinds == {"B", "BCond", "CBZ", "TBZ", "ADR", "ADRP", "LDR", "Other"}
Conditionals == {"BCond", "CBZ", "TBZ"}
Branches == {"B"} \cup Conditionals

\* "B" stands for B and BL, "CBZ" for CBZ and CBNZ, "TBZ" for TBZ and TBNZ,
\* "LDR" for every literal load; always marks the conditions AL and NV.
Instruction == [kind: Kinds, target: Nat, always: BOOLEAN]

ASSUME RelocatorAssumption ==
  /\ Sources \subseteq Nat /\ Destinations \subseteq Nat
  /\ MaxItems \in Nat \ {0}
  /\ Instructions \subseteq Instruction
  /\ \A insn \in Instructions :
       /\ insn.kind \in Branches \cup {"LDR"} => Aligned(insn.target)
       /\ insn.kind = "ADRP" => PageOf(insn.target) = insn.target

\* A reference from one relocated instruction to another is never far.
ASSUME WindowAssumption ==
  /\ \A reach \in {Reach26, Reach19, Reach14, Reach21} : 24 * MaxItems < reach
  /\ 24 * MaxItems + PageSize < ReachPages

VARIABLES
  items, source, dest,  \* the arguments: decoded code and both addresses
  pc,                   \* the loop being run
  i,                    \* the item the loop is at
  pass,                 \* iteration of the layout loop, from 0
  cursor,               \* address of the next item
  address, size,        \* new_address and output_size of every item
  stable,               \* no size has changed in this pass
  out,                  \* what was emitted for each item
  bytes,                \* size of the bytes emitted
  error

vars == <<items, source, dest, pc, i, pass, cursor, address, size, stable, out,
          bytes, error>>
arguments == <<items, source, dest>>

N == Len(items)
ItemIndex == 1 .. N

-----------------------------------------------------------------------------
\* The copy of a target inside the window, the target itself otherwise.
RemapTargetNotFirst(target) ==  \* mutant: misses the first instruction
  LET offset == target - source
  IN  IF offset <= 0 \/ offset >= 4 * N \/ ~Aligned(offset)
      THEN target
      ELSE address[(offset \div 4) + 1]

RemapTarget(target) ==
  LET offset == target - source
  IN  IF offset < 0 \/ offset >= 4 * N \/ ~Aligned(offset)
      THEN target
      ELSE address[(offset \div 4) + 1]

TargetOf(k) == RemapTarget(items[k].target)

FitsDirectly(kind, at, target) ==
  CASE kind = "B"                -> FitsBranch26(at, target)
    [] kind \in {"BCond", "CBZ"} -> FitsBranch19(at, target)
    [] kind = "TBZ"              -> FitsBranch14(at, target)
    [] kind = "ADR"              -> FitsAdr(at, target)
    [] kind = "ADRP"             -> FitsAdrp(at, target)
    [] kind = "LDR"              -> FitsLdrLiteral(at, target)
    [] kind = "Other"            -> TRUE

\* Mutants: the branch measured where the skip stands; the skip counted twice.
ItemSizeFromSkip(kind, at, target) ==
  IF FitsDirectly(kind, at, target) THEN 4
  ELSE CASE kind = "B"                -> BranchSequenceSize(at, target)
         [] kind \in Conditionals     -> 4 + BranchSequenceSize(at, target)
         [] kind \in {"ADR", "ADRP"}  -> 16
         [] kind = "LDR"              -> AddressSequenceSize(at, target) + 4

ItemSizeTwoSkips(kind, at, target) ==
  IF FitsDirectly(kind, at, target) THEN 4
  ELSE IF kind \in Conditionals THEN 8 + BranchSequenceSize(at + 4, target)
  ELSE 16

ItemSize(kind, at, target) ==
  IF FitsDirectly(kind, at, target) THEN 4
  ELSE CASE kind = "B"                -> BranchSequenceSize(at, target)
         [] kind \in Conditionals     -> 4 + BranchSequenceSize(at + 4, target)
         [] kind \in {"ADR", "ADRP"}  -> 16
         [] kind = "LDR"              -> AddressSequenceSize(at, target) + 4

\* The words emit_item appends: a conditional skip before a far branch.
EmitWords(kind, at, target) ==
  IF FitsDirectly(kind, at, target) THEN 1
  ELSE CASE kind = "B"                -> BranchWords(at, target)
         [] kind \in Conditionals     -> 1 + BranchWords(at + 4, target)
         [] kind \in {"ADR", "ADRP"}  -> LoadImmediateWords
         [] kind = "LDR"              -> AddressWords(at, target) + 1

\* The address the emitted code branches to, loads from or computes.
Denotes(kind, target) == IF kind = "ADRP" THEN PageOf(target) ELSE target

-----------------------------------------------------------------------------
Init ==
  /\ items \in UNION {[1 .. n -> Instructions] : n \in 1 .. MaxItems}
  /\ source \in Sources
  /\ dest \in Destinations
  /\ pc = "check"
  /\ i = 1 /\ pass = 0 /\ cursor = dest
  /\ address = [k \in ItemIndex |-> 0]
  /\ size = [k \in ItemIndex |-> 4]
  /\ stable = FALSE
  /\ out = <<>> /\ bytes = 0
  /\ error = "none"

Fail(reason) == pc' = "failed" /\ error' = reason

Check ==
  /\ pc = "check"
  /\ IF Aligned(source) /\ Aligned(dest)
     THEN pc' = "place" /\ UNCHANGED error
     ELSE Fail("unaligned")
  /\ UNCHANGED <<arguments, i, pass, cursor, address, size, stable, out, bytes>>

PlaceItem ==
  /\ i <= N
  /\ address' = [address EXCEPT ![i] = cursor]
  /\ cursor' = cursor + size[i]
  /\ i' = i + 1

Place ==
  /\ pc = "place" /\ PlaceItem
  /\ UNCHANGED <<arguments, pc, pass, size, stable, out, bytes, error>>

PlacedKeepsStable ==  \* mutant: the flag is not set again
  /\ pc = "place" /\ i > N
  /\ pc' = "measure" /\ i' = 1 /\ UNCHANGED stable
  /\ UNCHANGED <<arguments, pass, cursor, address, size, out, bytes, error>>

Placed ==
  /\ pc = "place" /\ i > N
  /\ pc' = "measure" /\ i' = 1 /\ stable' = TRUE
  /\ UNCHANGED <<arguments, pass, cursor, address, size, out, bytes, error>>

Measure ==
  /\ pc = "measure" /\ i <= N
  /\ LET need == ItemSize(items[i].kind, address[i], TargetOf(i))
     IN  /\ size' = [size EXCEPT ![i] = need]
         /\ stable' = (stable /\ need = size[i])
  /\ i' = i + 1
  /\ UNCHANGED <<arguments, pc, pass, cursor, address, out, bytes, error>>

\* The loop is left when a pass was stable, and given up after N + 4 passes.
Measured ==
  /\ pc = "measure" /\ i > N
  /\ pass' = pass + 1 /\ i' = 1 /\ cursor' = dest
  /\ IF stable THEN pc' = "final" /\ UNCHANGED error
     ELSE IF pass + 1 < N + 4 THEN pc' = "place" /\ UNCHANGED error
     ELSE Fail("diverged")
  /\ UNCHANGED <<arguments, address, size, stable, out, bytes>>

Final ==
  /\ pc = "final" /\ PlaceItem
  /\ UNCHANGED <<arguments, pc, pass, size, stable, out, bytes, error>>

FinalPlaced ==
  /\ pc = "final" /\ i > N
  /\ pc' = "emit" /\ i' = 1
  /\ UNCHANGED <<arguments, pass, cursor, address, size, stable, out, bytes, error>>

\* A branch on AL or NV has no inverse to skip a far branch with.
NotInvertible(k) ==
  /\ items[k].kind = "BCond" /\ items[k].always
  /\ ~FitsDirectly("BCond", address[k], TargetOf(k))

Emit ==
  /\ pc = "emit" /\ i <= N /\ ~NotInvertible(i)
  /\ LET kind  == items[i].kind
         words == EmitWords(kind, address[i], TargetOf(i))
     IN  /\ out' = Append(out, [at |-> dest + bytes, denotes |-> Denotes(kind, TargetOf(i))])
         /\ bytes' = bytes + 4 * words
         /\ IF 4 * words = size[i] THEN UNCHANGED <<pc, error>> ELSE Fail("size")
  /\ i' = i + 1
  /\ UNCHANGED <<arguments, pass, cursor, address, size, stable>>

EmitFails ==
  /\ pc = "emit" /\ i <= N /\ NotInvertible(i)
  /\ Fail("condition")
  /\ UNCHANGED <<arguments, i, pass, cursor, address, size, stable, out, bytes>>

Done ==
  /\ pc = "emit" /\ i > N
  /\ pc' = "done"
  /\ UNCHANGED <<arguments, i, pass, cursor, address, size, stable, out, bytes, error>>

Next == Check \/ Place \/ Placed \/ Measure \/ Measured \/ Final \/ FinalPlaced
        \/ Emit \/ EmitFails \/ Done

Spec == Init /\ [][Next]_vars

-----------------------------------------------------------------------------
Sizes == {4, 8, 12, 16, 20, 24}
Errors == {"none", "unaligned", "diverged", "condition", "size"}

TypeOK ==
  /\ N \in 1 .. MaxItems
  /\ items \in Seq(Instructions)
  /\ source \in Sources /\ dest \in Destinations
  /\ pc \in {"check", "place", "measure", "final", "emit", "done", "failed"}
  /\ i \in 1 .. N + 1
  /\ pass \in 0 .. N + 4
  /\ cursor \in Nat
  /\ address \in [ItemIndex -> Nat]
  /\ size \in [ItemIndex -> Sizes]
  /\ stable \in BOOLEAN
  /\ out \in Seq([at: Int, denotes: Int])
  /\ bytes \in Nat
  /\ error \in Errors

(* The layout loop never gives up: "did not converge" is unreachable, since *)
(* pass k settles the first k instructions.                                 *)
NeverDiverges == error # "diverged"

(* emit_item writes exactly the bytes item_size made room for, so "emitted  *)
(* an invalid size" is unreachable.                                         *)
NeverMissized == error # "size"

(* The copy fits in the room hook_dispatch_size reserved for it before any  *)
(* address was known (max_relocated_size).                                  *)
FitsReservation == bytes <= MaxRelocatedSize(4 * N)

(* Code encoded for an address stands at that address.                      *)
EmittedInPlace == \A k \in 1 .. Len(out) : out[k].at = address[k]

(* Control flow survives the move: a branch to another instruction of the   *)
(* window reaches the copy of that instruction, every other branch still    *)
(* reaches its original target.                                             *)
CopyOf(target) ==
  LET inside == {k \in ItemIndex : source + 4 * (k - 1) = target}
  IN  IF inside = {} THEN target ELSE out[CHOOSE k \in inside : TRUE].at

BranchesPreserved ==
  pc = "done" => \A k \in ItemIndex :
    items[k].kind \in Branches => out[k].denotes = CopyOf(items[k].target)
=============================================================================
