------------------------------ MODULE CavePlan ------------------------------
(***************************************************************************)
(* The cave of one plugin (standard_pipeline, src/src/pipeline.cpp).  Its  *)
(* segment is laid out before any address is known, from upper bounds: the *)
(* dispatchers of the sites the plugin owns, the wrappers that move the    *)
(* registers a handler asked for, the code with room for a veneer per call *)
(* and, when it is read-only, the data.  Once the segment has an address   *)
(* the parts are built and copied to their offsets; `place' checks the end *)
(* of the segment but not the neighbours, so nothing but the bounds keeps  *)
(* one part from overwriting the next.                                     *)
(***************************************************************************)
EXTENDS Aarch64, Sequences

CONSTANTS Plugins,   \* the plugins, by what their layout depends on
          Bases      \* where add_segments may put the segment

\* A hook site: how many handlers it calls, and whether it replaces the code.
Site == [handlers: Nat \ {0}, overrides: BOOLEAN]
\* A wrapper: how many registers it moves, and whether it makes a function
\* of its own of the handler (new_cpp_func).
Wrapper == [registers: Nat \ {0}, function: BOOLEAN, entry: Nat]
\* text is its size, calls the number of branch relocations in it.
Plugin == [sites: Seq(Site), wrappers: Seq(Wrapper), text: Nat, calls: Nat,
           extra: Nat, writable: BOOLEAN, macho: BOOLEAN]

ASSUME CavePlanAssumption ==
  /\ Bases \subseteq Nat /\ \A base \in Bases : Aligned(base)
  /\ Plugins \subseteq Plugin
  /\ \A p \in Plugins : \A n \in 1 .. Len(p.wrappers) : Aligned(p.wrappers[n].entry)
                                                     /\ p.wrappers[n].entry <= p.text

VARIABLES plugin, base, pc, k, cursor, control, wrapper, codeOffset, segmentSize,
          built,    \* bytes of code after resolve_plugin_relocs
          placed,   \* the parts copied so far: which, at which offset, of what size
          error

vars == <<plugin, base, pc, k, cursor, control, wrapper, codeOffset, segmentSize,
          built, placed, error>>
layout == <<cursor, control, wrapper, codeOffset, segmentSize>>

AlignUpNever(n, to) == n  \* mutant: no padding
AlignUp(n, to) == n + ((-n) % to)
AtMost8(n) == IF n < 8 THEN n ELSE 8

-----------------------------------------------------------------------------
(* The bounds the layout uses.                                              *)
MaxHookWindow == 20
ArgSaveRestoreSize == 16
SaveSize == IF plugin.macho THEN 8 ELSE 4   \* without XPACLRI on ELF
RestoreSize == 4
RetSize == 4

HookDispatchSizeNoArgs(site) ==  \* mutant: forgets the saved arguments
  SaveSize + site.handlers * MaxBranchSequenceBytes + RestoreSize
  + IF site.overrides THEN RetSize
    ELSE MaxRelocatedSize(MaxHookWindow) + MaxBranchSequenceBytes

HookDispatchSize(site) ==
  IF site.overrides
  THEN SaveSize + site.handlers * MaxBranchSequenceBytes + RestoreSize + RetSize
  ELSE SaveSize + site.handlers * (MaxBranchSequenceBytes + ArgSaveRestoreSize)
       + RestoreSize + MaxRelocatedSize(MaxHookWindow) + MaxBranchSequenceBytes

WrapperMaxSize(w) == AtMost8(w.registers) * 4 + MaxBranchSequenceBytes

MaxTextBytes == plugin.text + plugin.calls * MaxBranchSequenceBytes
TextAligned == AlignUp(MaxTextBytes, 16)

(* The sizes the parts are built with.  A call takes 4, 12 or 20 bytes, an  *)
(* instruction of the relocated window 4 to 24 in steps of 4, and the       *)
(* window has 1, 3 or 5 of them.                                            *)
DispatchSizes(site) ==
  LET n == site.handlers
  IN  IF site.overrides
      THEN {SaveSize + 4 * n + 8 * j + RestoreSize + RetSize : j \in 0 .. 2 * n}
      ELSE {SaveSize + ArgSaveRestoreSize * n + RestoreSize + 4 * m : m \in n + 2 .. 5 * n + 35}

\* BL seq, MOV x1 x0, LDP and RET after the moves; or a tail branch.
WrapperSize(w, at) ==
  LET moves == 4 * AtMost8(w.registers)
      entry == base + (codeOffset + w.entry)
  IN  IF w.function
      THEN 4 + moves + BranchSequenceSize(base + (at + (4 + moves)), entry) + 12
      ELSE moves + BranchSequenceSize(base + (at + moves), entry)

VeneerSizes == {12, 20}

-----------------------------------------------------------------------------
Init ==
  /\ plugin \in Plugins /\ base \in Bases
  /\ pc = "dispatchers" /\ k = 1 /\ cursor = 0
  /\ control = <<>> /\ wrapper = <<>>
  /\ codeOffset = 0 /\ segmentSize = 0 /\ built = 0
  /\ placed = {} /\ error = "none"

ReserveDispatcher ==
  /\ pc = "dispatchers" /\ k <= Len(plugin.sites)
  /\ LET at == AlignUp(cursor, 4)
     IN  /\ control' = Append(control, at)
         /\ cursor' = at + HookDispatchSize(plugin.sites[k])
  /\ k' = k + 1
  /\ UNCHANGED <<plugin, base, pc, wrapper, codeOffset, segmentSize, built, placed, error>>

ReserveWrapper ==
  /\ pc = "dispatchers" /\ k > Len(plugin.sites)
  /\ Len(wrapper) < Len(plugin.wrappers)
  /\ LET at == AlignUp(cursor, 4)
     IN  /\ wrapper' = Append(wrapper, at)
         /\ cursor' = at + WrapperMaxSize(plugin.wrappers[Len(wrapper) + 1])
  /\ UNCHANGED <<plugin, base, pc, k, control, codeOffset, segmentSize, built, placed, error>>

ReserveCode ==
  /\ pc = "dispatchers" /\ k > Len(plugin.sites)
  /\ Len(wrapper) = Len(plugin.wrappers)
  /\ LET code == AlignUp(cursor, 16)
         end  == code + TextAligned + IF plugin.writable THEN 0 ELSE plugin.extra
     IN  /\ codeOffset' = code
         /\ cursor' = end
         /\ segmentSize' = IF end < 4 THEN 4 ELSE end
  /\ built' = plugin.text
  /\ pc' = "resolve" /\ k' = 1
  /\ UNCHANGED <<plugin, base, control, wrapper, placed, error>>

\* A branch relocation: in reach, or through a veneer appended to the code.
ResolveCall ==
  /\ pc = "resolve" /\ k <= plugin.calls
  /\ \E size \in {0} \cup VeneerSizes : built' = built + size
  /\ k' = k + 1
  /\ UNCHANGED <<plugin, base, pc, layout, placed, error>>

Place(kind, n, at, size, next) ==
  IF at + size <= segmentSize
  THEN /\ placed' = placed \cup {[kind |-> kind, n |-> n, at |-> at, size |-> size]}
       /\ pc' = next /\ UNCHANGED error
  ELSE pc' = "failed" /\ error' = "overflow" /\ UNCHANGED placed

\* build resizes the code to max_text_bytes and appends the data aligned.
PlaceCode ==
  /\ pc = "resolve" /\ k > plugin.calls
  /\ Place("code", 1, codeOffset, IF plugin.extra > 0 THEN TextAligned ELSE MaxTextBytes, "extra")
  /\ k' = 1
  /\ UNCHANGED <<plugin, base, layout, built>>

PlaceExtra ==
  /\ pc = "extra"
  /\ IF plugin.extra > 0 /\ ~plugin.writable
     THEN Place("extra", 1, codeOffset + TextAligned, plugin.extra, "wrappers")
     ELSE pc' = "wrappers" /\ UNCHANGED <<placed, error>>
  /\ UNCHANGED <<plugin, base, k, layout, built>>

PlaceWrapper ==
  /\ pc = "wrappers" /\ k <= Len(wrapper)
  /\ Place("wrapper", k, wrapper[k], WrapperSize(plugin.wrappers[k], wrapper[k]), "wrappers")
  /\ k' = k + 1
  /\ UNCHANGED <<plugin, base, layout, built>>

WrappersPlaced ==
  /\ pc = "wrappers" /\ k > Len(wrapper)
  /\ pc' = "controls" /\ k' = 1
  /\ UNCHANGED <<plugin, base, layout, built, placed, error>>

PlaceDispatcher ==
  /\ pc = "controls" /\ k <= Len(control)
  /\ \E size \in DispatchSizes(plugin.sites[k]) : Place("control", k, control[k], size, "controls")
  /\ k' = k + 1
  /\ UNCHANGED <<plugin, base, layout, built>>

Done ==
  /\ pc = "controls" /\ k > Len(control)
  /\ pc' = "done"
  /\ UNCHANGED <<plugin, base, k, layout, built, placed, error>>

Next == ReserveDispatcher \/ ReserveWrapper \/ ReserveCode \/ ResolveCall \/ PlaceCode
        \/ PlaceExtra \/ PlaceWrapper \/ WrappersPlaced \/ PlaceDispatcher \/ Done

Spec == Init /\ [][Next]_vars

-----------------------------------------------------------------------------
Parts == {"code", "extra", "wrapper", "control"}

TypeOK ==
  /\ plugin \in Plugins /\ base \in Bases
  /\ pc \in {"dispatchers", "resolve", "extra", "wrappers", "controls", "done", "failed"}
  /\ k \in Nat \ {0}
  /\ {cursor, codeOffset, segmentSize, built} \subseteq Nat
  /\ control \in Seq(Nat) /\ wrapper \in Seq(Nat) /\ codeOffset % 16 = 0
  /\ placed \subseteq [kind: Parts, n: Nat, at: Nat, size: Nat]
  /\ error \in {"none", "overflow"}

\* A plugin whose cave a single B crosses; 128MB of code in one plugin aside.
Near == segmentSize < Reach26

\* No part of the cave overwrites another.
PartsDisjoint ==
  Near => \A p, q \in placed : <<p.kind, p.n>> # <<q.kind, q.n>> =>
    p.at + p.size <= q.at \/ q.at + q.size <= p.at

\* Nothing is larger than the room reserved for all of it: "plugin segment
\* layout overflow" is unreachable, and build cuts off no veneer when it
\* resizes the code.
NeverOverflows == /\ Near => error = "none"
                  /\ built <= MaxTextBytes

(* The parts of a cave fit where room was made for them before any address  *)
(* was known, whatever the distances turn out to be between the segment,    *)
(* the hooked code and other plugins' handlers.                             *)
PartsFit == PartsDisjoint /\ NeverOverflows
=============================================================================
