--------------------------- MODULE PipelineProofs ---------------------------
(***************************************************************************)
(* What a run of the patcher leaves in the file, for any plugins and any   *)
(* input: no hooked address ever leads to what is not there.               *)
(***************************************************************************)
EXTENDS Pipeline, OrderedProofs

-----------------------------------------------------------------------------
(* The inductive invariant.                                                 *)

\* A file is a record, of whatever.
IsFile(file) ==
  file = [bytes |-> [text |-> file.bytes.text, segments |-> file.bytes.segments,
                     filled |-> file.bytes.filled, dispatchers |-> file.bytes.dispatchers],
          size |-> file.size, time |-> file.time]
FileOK(file) == /\ IsFile(file) /\ file.bytes.text \in [Addresses -> Word]
                /\ file.size \in Nat /\ file.time \in Nat
OriginalOK(words) == /\ DOMAIN words = Hooked
                     /\ \A va \in Hooked : \E n \in {0, 1, 3, 5} : words[va] \in [1 .. n -> Word]
Stages == {"start", "compile", "resolve", "capture", "segments", "build", "direct", "sites",
           "caves", "windows"}

TypeInv ==
  /\ input \in Inputs /\ k \in Nat \ {0}
  /\ pc \in Stages \cup {"stopped"}
  /\ worker \in [Plugins -> {"running", "compiled", "failed"}]
  /\ FileOK(output) /\ FileOK(slot) /\ IsFiniteSet(output.bytes.segments)
  /\ OriginalOK(original) /\ reach \in [Hooked -> {1, 3, 5}]
  /\ exit \in {"none", "0", "1"} /\ warned \in BOOLEAN
  /\ (exit = "none") = (pc # "stopped") /\ (error # "none") = (exit = "1")

\* The file is the input until segments are added, and has no branch to a
\* dispatcher until the windows are patched.
Early == {"start", "compile", "resolve", "capture", "segments"}
EarlyErrors == {"plugins", "compile", "actions", "address", "conflict", "window", "overlap",
                "handler", "segments"}
Unhooked == \A a \in Addresses : output.bytes.text[a][1] # "hook"
CleanInv ==
  /\ pc \in Early \/ error \in EarlyErrors => output.bytes = Unpatched
  /\ pc \notin {"windows", "stopped"} \/ (exit = "1" /\ error # "write") => Unhooked

\* The words captured are words of the program, and in the end as many as
\* the branch takes.
WindowInv ==
  /\ pc \in {"segments", "build", "direct", "sites", "caves", "windows"} =>
       \A va \in Hooked : /\ va \in Addresses /\ Len(original[va]) >= 1
                          /\ va + Len(original[va]) - 1 \in Addresses
  /\ pc \in {"caves", "windows"} => \A va \in Hooked : Len(original[va]) = reach[va]

\* A plugin's code is written with the dispatchers it owns.
Built == {[va |-> va, handlers |-> Handlers(va), original |-> original[va]] : va \in Hooked}
ContentInv ==
  /\ pc \notin {"caves", "windows", "stopped"} =>
       content = {} /\ output.bytes.filled = {} /\ output.bytes.dispatchers = {}
  /\ pc \in {"caves", "windows"} => content = Built
  /\ \A p \in WithHooks : <<p, "code">> \in output.bytes.filled =>
       {c \in content : Owner(c.va) = p} \subseteq output.bytes.dispatchers

Complete(p) == {p} \X Parts(p) \subseteq output.bytes.filled
CavesInv ==
  /\ pc = "caves" => \A n \in 1 .. Len(Caves) : n < k => Complete(Caves[n])
  /\ pc = "windows" => \A p \in WithHooks : Complete(p)

(* A hooked address that leads to its dispatcher finds it in the file, and  *)
(* all the handlers it calls.                                               *)
NoDanglingHook == \A va \in Hooked : Live(va) => Ready(va)

IInv == TypeInv /\ CleanInv /\ WindowInv /\ ContentInv /\ CavesInv /\ NoDanglingHook

-----------------------------------------------------------------------------
(* The lists the run walks.                                                 *)

\* A declaration with its plugin and its index.
Declaration == [plugin: Nat, index: Nat, action: Action]

\* A plugin declares finitely many hooks and patches,
LEMMA DeclaredIsFinite ==
  ASSUME input \in Inputs, NEW p \in Plugins
  PROVE  IsFiniteSet(Declared(p)) /\ Declared(p) \subseteq Declaration
<1> DEFINE actions == input.plugins[p].actions
           f == [i \in 1 .. Len(actions) |-> [plugin |-> p, index |-> i, action |-> actions[i]]]
<1>1. input.plugins \in Seq(Plugin)  BY PipelineAssumption
<1>2. actions \in Seq(Action)
  <2>1. input.plugins[p] \in Plugin  BY <1>1 DEF Plugins
  <2> QED  BY <2>1 DEF Plugin
<1>3. Len(actions) \in Nat /\ DOMAIN actions = 1 .. Len(actions)  BY <1>2
<1>4. p \in Nat  BY <1>1 DEF Plugins
<1>5. \A i \in DOMAIN actions : actions[i] \in Action /\ i \in Nat  BY <1>2, <1>3
<1>6. Declared(p) \subseteq Declaration  BY <1>4, <1>5 DEF Declared, Declaration
<1>7. f \in Surjection(1 .. Len(actions), Declared(p))  BY <1>3 DEF Declared, Surjection
<1>8. IsFiniteSet(1 .. Len(actions))
  <2>1. 1 \in Int /\ Len(actions) \in Int  BY <1>3
  <2> QED  BY <2>1, FS_Interval
<1> QED  BY <1>6, <1>7, <1>8, FS_Surjection

\* and so do all plugins,
LEMMA AllIsFinite ==
  ASSUME input \in Inputs
  PROVE  IsFiniteSet(Plugins) /\ IsFiniteSet(All) /\ All \subseteq Declaration
<1>1. Len(input.plugins) \in Nat  BY PipelineAssumption
<1>2. IsFiniteSet(Plugins)  BY <1>1, FS_Interval DEF Plugins
<1> DEFINE f == [p \in Plugins |-> Declared(p)]
           T == {Declared(p) : p \in Plugins}
<1>3. f \in Surjection(Plugins, T)  BY DEF Surjection
<1>4. IsFiniteSet(T)  BY <1>2, <1>3, FS_Surjection
<1>5. \A t \in T : IsFiniteSet(t) /\ t \subseteq Declaration  BY DeclaredIsFinite
<1>6. IsFiniteSet(UNION T)  BY <1>4, <1>5, FS_UNION
<1> QED  BY <1>2, <1>5, <1>6 DEF All

\* of each kind,
LEMMA KindsAreFinite ==
  ASSUME input \in Inputs, NEW kinds
  PROVE  IsFiniteSet(OfKind(kinds)) /\ OfKind(kinds) \subseteq Declaration
                                    /\ OfKind(kinds) \subseteq All
<1>1. OfKind(kinds) \in SUBSET All  BY DEF OfKind
<1> QED  BY <1>1, AllIsFinite, FS_Subset

\* and hook finitely many addresses.
LEMMA HooksAreFinite ==
  ASSUME input \in Inputs, NEW kind
  PROVE  IsFiniteSet(Hooks(kind)) /\ Hooks(kind) \subseteq Nat
<1> DEFINE D == OfKind({kind})
           f == [d \in D |-> d.action.at]
<1>1. IsFiniteSet(D) /\ D \subseteq Declaration  BY KindsAreFinite
<1>2. f \in Surjection(D, Hooks(kind))  BY DEF Surjection, Hooks
<1>3. \A d \in D : d.action.at \in Nat  BY <1>1 DEF Declaration, Action
<1> QED  BY <1>1, <1>2, <1>3, FS_Surjection DEF Hooks

\* The order of the declarations is one.
LEMMA EarlierOrders ==
  ASSUME input \in Inputs, NEW S, S \subseteq All
  PROVE  Orders(Earlier, S)
<1>1. \A d, e \in All : <<d, e>> \in Earlier <=> Before(d, e)  BY DEF Earlier
<1>2. \A d \in All : d.plugin \in Nat /\ d.index \in Nat /\ ~Before(d, d)
  BY AllIsFinite DEF Declaration, Before
<1>3. \A d, e, g \in All : Before(d, e) /\ Before(e, g) => Before(d, g)
  BY <1>2 DEF Before
<1>4. \A d, e \in All : d = e \/ Before(d, e) \/ Before(e, d)
  <2> SUFFICES ASSUME NEW d \in All, NEW e \in All, ~Before(d, e), ~Before(e, d)
               PROVE  d = e
    OBVIOUS
  <2>1. d.plugin = e.plugin /\ d.index = e.index  BY <1>2 DEF Before
  <2>2. PICK p \in Plugins : d \in Declared(p)  BY DEF All
  <2>3. PICK q \in Plugins : e \in Declared(q)  BY DEF All
  <2>4. d.plugin = p /\ d = [plugin |-> p, index |-> d.index, action |-> input.plugins[p].actions[d.index]]
    BY <2>2 DEF Declared
  <2>5. e.plugin = q /\ e = [plugin |-> q, index |-> e.index, action |-> input.plugins[q].actions[e.index]]
    BY <2>3 DEF Declared
  <2> QED  BY <2>1, <2>4, <2>5
<1> QED  BY <1>1, <1>2, <1>3, <1>4 DEF Orders

\* Patches lists the patches, and in their order.
LEMMA PatchesList ==
  ASSUME input \in Inputs
  PROVE  /\ Len(Patches) \in Nat
         /\ \A n \in 1 .. Len(Patches) : Patches[n] \in OfKind({"patch"})
         /\ \A m, n \in 1 .. Len(Patches) : m < n => Before(Patches[m], Patches[n])
         /\ \A d \in OfKind({"patch"}) : \E n \in 1 .. Len(Patches) : Patches[n] = d
<1> DEFINE S == OfKind({"patch"})
           s == InOrder(S, Earlier)
<1>1. IsFiniteSet(S) /\ Orders(Earlier, S)  BY KindsAreFinite, EarlierOrders
<1>2. \A d, e \in S : <<d, e>> \in Earlier <=> Before(d, e)  BY KindsAreFinite DEF Earlier
<1>3. Patches = s  BY DEF Patches
<1> HIDE DEF S
<1>4. /\ Lists(s, Earlier, S) /\ Cardinality(S) \in Nat
      /\ \A d \in S : \E n \in 1 .. Cardinality(S) : s[n] = d
  BY <1>1, InOrderLists
<1> HIDE DEF s
<1>5. s \in [1 .. Cardinality(S) -> S]  BY <1>4 DEF Lists
<1>6. Len(s) = Cardinality(S)  BY <1>4, <1>5
<1>7. \A n \in 1 .. Len(s) : s[n] \in S  BY <1>5, <1>6
<1>8. \A m, n \in 1 .. Len(s) : m < n => Before(s[m], s[n])
  BY <1>2, <1>4, <1>5, <1>6 DEF Lists
<1> QED  BY <1>3, <1>4, <1>6, <1>7, <1>8 DEF S

\* Handlers lists the handlers of a hook, and in their order.
LEMMA HandlersList ==
  ASSUME input \in Inputs, NEW va
  PROVE  LET H == HandlersOf(va)
             N == Cardinality(H)
         IN  /\ N \in Nat /\ Handlers(va) \in [1 .. N -> H]
             /\ \A m, n \in 1 .. N : m < n => Before(Handlers(va)[m], Handlers(va)[n])
             /\ \A h \in H : \E n \in 1 .. N : Handlers(va)[n] = h
<1> DEFINE H == HandlersOf(va)
<1>1. H \in SUBSET All  BY DEF HandlersOf, OfKind
<1>2. IsFiniteSet(H) /\ Orders(Earlier, H)  BY <1>1, AllIsFinite, FS_Subset, EarlierOrders
<1>3. \A d, e \in H : <<d, e>> \in Earlier <=> Before(d, e)  BY <1>1 DEF Earlier
<1>4. Handlers(va) = InOrder(H, Earlier)  BY DEF Handlers
<1> HIDE DEF H
<1>5. /\ Lists(Handlers(va), Earlier, H) /\ Cardinality(H) \in Nat
      /\ \A h \in H : \E n \in 1 .. Cardinality(H) : Handlers(va)[n] = h
  BY <1>2, <1>4, InOrderLists
<1>6. Handlers(va) \in [1 .. Cardinality(H) -> H]  BY <1>5 DEF Lists
<1>7. \A m, n \in 1 .. Cardinality(H) : m < n => Before(Handlers(va)[m], Handlers(va)[n])
  BY <1>3, <1>5, <1>6 DEF Lists
<1> QED  BY <1>5, <1>6, <1>7 DEF H

\* A plugin with a handler gets a segment.
LEMMA HandlersHaveCaves ==
  ASSUME input \in Inputs, NEW va, NEW h \in HandlersOf(va)
  PROVE  h.plugin \in WithHooks
<1>1. h \in All /\ h.action.kind \in {"detour", "replace"}  BY DEF HandlersOf, OfKind
<1>2. PICK p \in Plugins : h \in Declared(p)  BY <1>1 DEF All
<1>3. h.plugin = p  BY <1>2 DEF Declared
<1> QED  BY <1>1, <1>2, <1>3 DEF WithHooks, HasHooks

\* So does the first of them, the owner of the hook.
LEMMA OwnerHasCave ==
  ASSUME input \in Inputs, NEW va \in Hooked
  PROVE  Owner(va) \in WithHooks
<1>1. PICK h \in HandlersOf(va) : TRUE  BY DEF Hooked, Hooks, HandlersOf, OfKind
<1>2. PICK n \in 1 .. Cardinality(HandlersOf(va)) : Handlers(va)[n] = h  BY HandlersList
<1>3. 1 \in 1 .. Cardinality(HandlersOf(va))  BY <1>2, HandlersList
<1>4. Handlers(va)[1] \in HandlersOf(va)  BY <1>3, HandlersList
<1> QED  BY <1>4, HandlersHaveCaves DEF Owner

\* Caves lists the plugins that have one.
LEMMA CavesList ==
  ASSUME input \in Inputs
  PROVE  /\ Caves \in Seq(WithHooks) /\ Len(Caves) \in Nat
         /\ \A n \in 1 .. Len(Caves) : Caves[n] \in WithHooks
         /\ \A p \in WithHooks : \E n \in 1 .. Len(Caves) : Caves[n] = p
<1>1. WithHooks \in SUBSET Plugins /\ Plugins \subseteq Int
  BY PipelineAssumption DEF WithHooks, Plugins
<1>2. IsFiniteSet(WithHooks) /\ WithHooks \subseteq Int  BY <1>1, AllIsFinite, FS_Subset
<1>3. /\ Caves \in [1 .. Cardinality(WithHooks) -> WithHooks]
      /\ Cardinality(WithHooks) \in Nat
      /\ Caves \in Seq(WithHooks) /\ Len(Caves) = Cardinality(WithHooks)
      /\ \A p \in WithHooks : \E n \in 1 .. Cardinality(WithHooks) : Caves[n] = p
  BY <1>2, AscendingLists DEF Caves
<1> QED  BY <1>3

\* Sites lists the hooked addresses.
LEMMA SitesList ==
  ASSUME input \in Inputs
  PROVE  /\ Len(Sites) \in Nat
         /\ \A n \in 1 .. Len(Sites) : Sites[n] \in Hooked
         /\ \A va \in Hooked : \E n \in 1 .. Len(Sites) : Sites[n] = va
<1> DEFINE D == Hooks("detour")
           R == Hooks("replace")
           d == Ascending(D)
           r == Ascending(R)
<1>1. IsFiniteSet(D) /\ D \subseteq Nat /\ IsFiniteSet(R) /\ R \subseteq Nat  BY HooksAreFinite
<1>2. Hooked = D \cup R /\ Sites = d \o r  BY DEF Hooked, Sites
<1> HIDE DEF D, R
<1>3. D \subseteq Int /\ R \subseteq Int  BY <1>1
<1>4. /\ d \in [1 .. Cardinality(D) -> D] /\ d \in Seq(D) /\ Len(d) = Cardinality(D)
      /\ \A x \in D : \E n \in 1 .. Cardinality(D) : d[n] = x
  BY <1>1, <1>3, AscendingLists
<1>5. /\ r \in [1 .. Cardinality(R) -> R] /\ r \in Seq(R) /\ Len(r) = Cardinality(R)
      /\ \A x \in R : \E n \in 1 .. Cardinality(R) : r[n] = x
  BY <1>1, <1>3, AscendingLists
<1> HIDE DEF d, r
<1>6. d \in Seq(Hooked) /\ r \in Seq(Hooked)  BY <1>2, <1>4, <1>5
<1>7. Sites \in Seq(Hooked) /\ Len(Sites) = Len(d) + Len(r)  BY <1>2, <1>6
<1>8. \A n \in 1 .. Len(d) : Sites[n] = d[n]  BY <1>2, <1>6
<1>9. \A n \in 1 .. Len(r) : Sites[Len(d) + n] = r[n] /\ Len(d) + n \in 1 .. Len(Sites)
  BY <1>2, <1>6, <1>7
<1>10. ASSUME NEW va \in D  PROVE \E n \in 1 .. Len(Sites) : Sites[n] = va
  <2>1. PICK n \in 1 .. Len(d) : d[n] = va  BY <1>4
  <2>2. n \in 1 .. Len(Sites)  BY <1>6, <1>7
  <2> QED  BY <1>8, <2>1, <2>2
<1>11. ASSUME NEW va \in R  PROVE \E n \in 1 .. Len(Sites) : Sites[n] = va
  <2>1. PICK n \in 1 .. Len(r) : r[n] = va  BY <1>5
  <2> QED  BY <1>9, <2>1
<1>12. Len(Sites) \in Nat /\ \A n \in 1 .. Len(Sites) : Sites[n] \in Hooked  BY <1>7
<1> QED  BY <1>2, <1>10, <1>11, <1>12

-----------------------------------------------------------------------------
(* The parts of a step.                                                     *)

\* The input does not change, and all that is read from it.
LEMMA InputIsFixed ==
  ASSUME UNCHANGED input
  PROVE  /\ Plugins' = Plugins /\ All' = All /\ Hooked' = Hooked /\ Word' = Word
         /\ WithHooks' = WithHooks /\ Caves' = Caves /\ Sites' = Sites /\ Patches' = Patches
         /\ \A p : Parts(p)' = Parts(p)
         /\ \A va : /\ HandlersOf(va)' = HandlersOf(va) /\ Handlers(va)' = Handlers(va)
                    /\ Owner(va)' = Owner(va)
         /\ \A kind : Hooks(kind)' = Hooks(kind)
         /\ \A kinds : OfKind(kinds)' = OfKind(kinds)
         /\ Unpatched' = Unpatched
<1>1. Plugins' = Plugins  BY DEF Plugins
<1>2. \A p : Declared(p)' = Declared(p)  BY DEF Declared
<1>3. All' = All  BY <1>1, <1>2 DEF All
<1>4. Earlier' = Earlier  BY <1>3 DEF Earlier, Before
<1>5. \A kinds : OfKind(kinds)' = OfKind(kinds)  BY <1>3 DEF OfKind
<1>6. \A kind : Hooks(kind)' = Hooks(kind)  BY <1>5 DEF Hooks
<1>7. Hooked' = Hooked  BY <1>6 DEF Hooked
<1>8. \A va : HandlersOf(va)' = HandlersOf(va)  BY <1>5 DEF HandlersOf
<1>9. \A va : Handlers(va)' = Handlers(va)  BY <1>4, <1>8 DEF Handlers
<1>10. \A va : Owner(va)' = Owner(va)  BY <1>9 DEF Owner
<1>11. \A p : HasHooks(p)' = HasHooks(p)  BY <1>2 DEF HasHooks
<1>12. WithHooks' = WithHooks  BY <1>1, <1>11 DEF WithHooks
<1>13. Caves' = Caves  BY <1>12 DEF Caves
<1>14. Sites' = Sites  BY <1>6 DEF Sites
<1>15. Patches' = Patches  BY <1>4, <1>5 DEF Patches
<1>16. \A p : Parts(p)' = Parts(p)  BY DEF Parts
<1>17. Word' = Word  BY <1>5, <1>7 DEF Word
<1>18. Unpatched' = Unpatched  BY DEF Unpatched
<1> QED  BY <1>1, <1>3, <1>5, <1>6, <1>7, <1>8, <1>9, <1>10, <1>12, <1>13, <1>14, <1>15, <1>16,
            <1>17, <1>18

\* A write leaves these bytes, and a time not before the last one.
LEMMA Written ==
  ASSUME NEW bytes, NEW size, input \in Inputs, output.time \in Nat, Write(bytes, size)
  PROVE  /\ output' = [bytes |-> bytes, size |-> size, time |-> output'.time]
         /\ output'.bytes = bytes /\ output'.size = size
         /\ output'.time \in Nat /\ output'.time >= output.time
         /\ ~input.coarse => output'.time > output.time
<1>1. PICK tick \in {0, 1} : /\ ~input.coarse => tick = 1
                             /\ output' = [bytes |-> bytes, size |-> size, time |-> output.time + tick]
  BY DEF Write, WriteAt
<1> QED  BY <1>1

\* What Overwrite changes and what it keeps.
LEMMA Overwritten ==
  ASSUME NEW at, NEW words, FileOK(output)
  PROVE  LET bytes == Overwrite(output.bytes, at, words)
         IN  /\ bytes = [text |-> bytes.text, segments |-> bytes.segments,
                         filled |-> bytes.filled, dispatchers |-> bytes.dispatchers]
             /\ bytes.text = [a \in Addresses |-> bytes.text[a]]
             /\ \A a \in Addresses : bytes.text[a] = IF a - at + 1 \in DOMAIN words
                                                     THEN words[a - at + 1] ELSE output.bytes.text[a]
             /\ bytes.segments = output.bytes.segments /\ bytes.filled = output.bytes.filled
             /\ bytes.dispatchers = output.bytes.dispatchers
BY DEF Overwrite, FileOK, IsFile

\* What Filled changes and what it keeps.
LEMMA FilledIn ==
  ASSUME NEW p, NEW part, FileOK(output)
  PROVE  LET bytes == Filled(output.bytes, p, part)
         IN  /\ bytes = [text |-> bytes.text, segments |-> bytes.segments,
                         filled |-> bytes.filled, dispatchers |-> bytes.dispatchers]
             /\ bytes.text = output.bytes.text /\ bytes.segments = output.bytes.segments
             /\ bytes.filled = output.bytes.filled \cup {<<p, part>>}
             /\ output.bytes.dispatchers \subseteq bytes.dispatchers
             /\ part = "code" => {c \in content : Owner(c.va) = p} \subseteq bytes.dispatchers
<1> DEFINE D == {c \in content : Owner(c.va) = p}
           new == IF part = "code" THEN output.bytes.dispatchers \cup D ELSE output.bytes.dispatchers
<1>1. output.bytes = [text |-> output.bytes.text, segments |-> output.bytes.segments,
                      filled |-> output.bytes.filled, dispatchers |-> output.bytes.dispatchers]
  BY DEF FileOK, IsFile
<1>2. Filled(output.bytes, p, part) = [output.bytes EXCEPT !.filled = @ \cup {<<p, part>>},
                                                           !.dispatchers = new]
  BY <1>1 DEF Filled
<1>3. output.bytes.dispatchers \subseteq new /\ (part = "code" => D \subseteq new)  OBVIOUS
<1> HIDE DEF new, D
<1>4. Filled(output.bytes, p, part) = [text |-> output.bytes.text, segments |-> output.bytes.segments,
        filled |-> output.bytes.filled \cup {<<p, part>>}, dispatchers |-> new]
  BY <1>1, <1>2
<1>5. part = "code" => D \subseteq Filled(output.bytes, p, part).dispatchers
  BY <1>3, <1>4
<1> QED  BY <1>3, <1>4, <1>5 DEF D

\* The image is of bytes that were in the file.
LEMMA ParsedOK ==
  ASSUME FileOK(output), FileOK(slot), ParseBinary
  PROVE  FileOK(slot') /\ Parsed.text \in [Addresses -> Word]
<1>1. Parsed = slot.bytes \/ Parsed = output.bytes  BY DEF Parsed
<1>2. slot' = [bytes |-> Parsed, size |-> output.size, time |-> output.time]
  BY DEF ParseBinary, FileOK, IsFile
<1> QED  BY <1>1, <1>2 DEF FileOK, IsFile

\* No words are words captured.
LEMMA EmptyWords == \E n \in {0, 1, 3, 5} : <<>> \in [1 .. n -> Word]
<1>1. <<>> \in [1 .. 0 -> Word]  OBVIOUS
<1> QED  BY <1>1

\* The input is a file without dispatchers and branches to them.
LEMMA UnpatchedOK ==
  ASSUME input \in Inputs
  PROVE  /\ Unpatched = [text |-> Unpatched.text, segments |-> Unpatched.segments,
                         filled |-> {}, dispatchers |-> {}]
         /\ Unpatched.text \in [Addresses -> Word] /\ IsFiniteSet(Unpatched.segments)
         /\ Unpatched.filled = {} /\ Unpatched.dispatchers = {}
         /\ \A a \in Addresses : Unpatched.text[a] = Code(a) /\ Unpatched.text[a][1] # "hook"
         /\ Cardinality(Unpatched.segments) \in Nat
<1>1. IsFiniteSet(Unpatched.segments)  BY PipelineAssumption DEF Unpatched
<1>2. Cardinality(Unpatched.segments) \in Nat  BY <1>1, FS_CardinalityType
<1>3. \A a \in Addresses : Code(a) \in Word /\ Code(a)[1] # "hook"  BY DEF Word, Code
<1> HIDE DEF Word, Code
<1> QED  BY <1>1, <1>2, <1>3 DEF Unpatched

\* Without such branches no hook is live.
LEMMA NoneLive ==
  ASSUME Unhooked  PROVE \A va \in Hooked : ~Live(va)
BY DEF Unhooked, Live, Branch

\* A run starts in the inductive invariant.
LEMMA InitInv == Init => IInv
<1> SUFFICES ASSUME Init  PROVE IInv
  OBVIOUS
<1>1. input \in Inputs  BY DEF Init
<1>2. FileOK(output) /\ FileOK(slot) /\ output.bytes = Unpatched
  BY <1>1, UnpatchedOK DEF Init, NoFile, FileOK, IsFile
<1>3. Unhooked  BY <1>1, <1>2, UnpatchedOK DEF Unhooked
<1>4. TypeInv
  <2>1. IsFiniteSet(output.bytes.segments)  BY <1>1, <1>2, UnpatchedOK
  <2>2. \A va \in Hooked : original[va] = <<>>  BY DEF Init
  <2>3. DOMAIN original = Hooked /\ reach \in [Hooked -> {1, 3, 5}]  BY DEF Init
  <2>4. \A va \in Hooked : \E n \in {0, 1, 3, 5} : original[va] \in [1 .. n -> Word]
    BY <2>2, EmptyWords
  <2>5. worker \in [Plugins -> {"running", "compiled", "failed"}]  BY DEF Init
  <2>6. k \in Nat \ {0} /\ pc = "start" /\ error = "none" /\ exit = "none" /\ warned = FALSE
    BY DEF Init
  <2> QED  BY <1>1, <1>2, <2>1, <2>3, <2>4, <2>5, <2>6 DEF TypeInv, OriginalOK, Stages
<1>5. CleanInv  BY <1>2, <1>3 DEF Init, CleanInv
<1>6. WindowInv  BY DEF Init, WindowInv
<1>7. ContentInv  BY <1>1, <1>2, UnpatchedOK DEF Init, ContentInv
<1>8. CavesInv  BY DEF Init, CavesInv
<1>9. NoDanglingHook  BY <1>3, NoneLive DEF NoDanglingHook
<1> QED  BY <1>4, <1>5, <1>6, <1>7, <1>8, <1>9 DEF IInv

-----------------------------------------------------------------------------
(* What the steps share.                                                    *)

\* A step that keeps the types of what it changes keeps TypeInv.
LEMMA TypeStep ==
  ASSUME TypeInv, UNCHANGED input, FileOK(output'), FileOK(slot'),
         IsFiniteSet(output'.bytes.segments), k' \in Nat \ {0}, pc' \in Stages \cup {"stopped"},
         worker' \in [Plugins -> {"running", "compiled", "failed"}],
         OriginalOK(original'), reach' \in [Hooked -> {1, 3, 5}], warned' \in BOOLEAN,
         exit' \in {"none", "0", "1"}, (exit' = "none") = (pc' # "stopped"),
         (error' # "none") = (exit' = "1")
  PROVE  TypeInv'
<1>1. Hooked' = Hooked /\ Plugins' = Plugins /\ Word' = Word  BY InputIsFixed
<1>2. FileOK(output)' /\ FileOK(slot)'  BY <1>1 DEF FileOK, IsFile
<1>3. OriginalOK(original)'  BY <1>1 DEF OriginalOK
<1>4. input' \in Inputs  BY DEF TypeInv
<1> QED  BY <1>1, <1>2, <1>3, <1>4 DEF TypeInv

\* Whether a hook is live, and ready, depends on the bytes alone.
LEMMA SameBytes ==
  ASSUME UNCHANGED input, output'.bytes = output.bytes
  PROVE  /\ \A va : Live(va)' <=> Live(va)
         /\ \A va : Ready(va)' <=> Ready(va)
         /\ \A p : Complete(p)' <=> Complete(p)
         /\ Unhooked' <=> Unhooked
<1>1. \A p : Parts(p)' = Parts(p)  BY InputIsFixed
<1> QED  BY <1>1 DEF Live, Ready, Dispatcher, Branch, Complete, Unhooked

\* Where no hook is live none dangles.
LEMMA NoneDangle ==
  ASSUME Unhooked'  PROVE NoDanglingHook'
BY DEF Unhooked, NoDanglingHook, Live, Branch

\* An exception leaves the file as it is.
LEMMA Stops ==
  ASSUME IInv, UNCHANGED <<input, output, worker, reach, content>>, NEW stage, Throw(stage),
         pc \in Stages, stage # "none", FileOK(slot'), OriginalOK(original'),
         k' \in Nat \ {0}, warned' \in BOOLEAN,
         stage \in EarlyErrors => pc \in Early, pc = "windows" => stage = "write"
  PROVE  IInv'
<1>1. pc' = "stopped" /\ error' = stage /\ exit' = "1"  BY DEF Throw
<1>2. TypeInv'  BY <1>1, TypeStep DEF IInv, TypeInv
<1>3. Unpatched' = Unpatched /\ (Unhooked' <=> Unhooked)  BY InputIsFixed, SameBytes
<1>4. CleanInv'
  <2>1. error' \in EarlyErrors => output'.bytes = Unpatched'
    BY <1>1, <1>3 DEF IInv, CleanInv
  <2>2. error' # "write" => Unhooked'  BY <1>1, <1>3 DEF IInv, CleanInv, Stages
  <2> QED  BY <1>1, <2>1, <2>2 DEF CleanInv, Early
<1>5. WindowInv'  BY <1>1 DEF WindowInv
<1>6. ContentInv'  BY <1>1, InputIsFixed DEF IInv, ContentInv
<1>7. CavesInv'  BY <1>1 DEF CavesInv
<1>8. NoDanglingHook'  BY InputIsFixed, SameBytes DEF IInv, NoDanglingHook
<1> QED  BY <1>2, <1>4, <1>5, <1>6, <1>7, <1>8 DEF IInv

\* A step on the way to the dispatchers.
LEMMA Prepares ==
  ASSUME IInv, UNCHANGED <<input, content>>, NEW next, Continue(next),
         next \in Stages \ {"start", "caves", "windows"},
         pc \in Stages \ {"caves", "windows"}, next \in Early => pc \in Early,
         output'.bytes = output.bytes \/ next \notin Early,
         FileOK(output'), FileOK(slot'), IsFiniteSet(output'.bytes.segments), Unhooked',
         output'.bytes.filled = output.bytes.filled,
         output'.bytes.dispatchers = output.bytes.dispatchers,
         k' \in Nat \ {0}, warned' \in BOOLEAN,
         worker' \in [Plugins -> {"running", "compiled", "failed"}],
         OriginalOK(original'), reach' \in [Hooked -> {1, 3, 5}], WindowInv'
  PROVE  IInv'
<1>1. pc' = next /\ error' = error /\ exit' = exit  BY DEF Continue
<1>2. error = "none" /\ exit = "none"  BY DEF IInv, TypeInv, Stages
<1>3. TypeInv'
  <2>1. TypeInv /\ pc' \in Stages \cup {"stopped"} /\ pc' # "stopped"  BY <1>1 DEF IInv, Stages
  <2>2. exit' = "none" /\ error' = "none"  BY <1>1, <1>2
  <2>3. exit' \in {"none", "0", "1"} /\ (exit' = "none") = (pc' # "stopped")
        /\ (error' # "none") = (exit' = "1")
    BY <2>1, <2>2
  <2> QED  BY <2>1, <2>3, TypeStep
<1>4. CleanInv'
  <2>1. next \in Early => output'.bytes = Unpatched'
    BY InputIsFixed DEF IInv, CleanInv
  <2> QED  BY <1>1, <1>2, <2>1 DEF CleanInv, EarlyErrors
<1>5. ContentInv'
  <2>1. content' = {} /\ output'.bytes.filled = {} /\ output'.bytes.dispatchers = {}
    BY DEF IInv, ContentInv, Stages
  <2> QED  BY <1>1, <2>1 DEF ContentInv
<1>6. CavesInv'  BY <1>1 DEF CavesInv
<1>7. NoDanglingHook'  BY NoneDangle
<1> QED  BY <1>3, <1>4, <1>5, <1>6, <1>7 DEF IInv

\* What every step may use.
LEMMA Known ==
  ASSUME IInv
  PROVE  /\ input \in Inputs /\ k \in Nat \ {0} /\ k + 1 \in Nat \ {0} /\ 1 \in Nat \ {0}
         /\ worker \in [Plugins -> {"running", "compiled", "failed"}]
         /\ FileOK(output) /\ FileOK(slot) /\ IsFiniteSet(output.bytes.segments)
         /\ OriginalOK(original) /\ reach \in [Hooked -> {1, 3, 5}] /\ warned \in BOOLEAN
         /\ output.time \in Nat /\ output.size \in Nat
         /\ output.bytes.text \in [Addresses -> Word]
         /\ pc \notin {"windows", "stopped"} => Unhooked
BY DEF IInv, TypeInv, FileOK, CleanInv

\* The words captured are those under the hook, in the image.
LEMMA WordsCaptured ==
  ASSUME input \in Inputs, NEW text, text \in [Addresses -> Word],
         NEW bytes, bytes.text = text, NEW va \in Nat, Readable(va) # {}
  PROVE  \E n \in {1, 3, 5} : /\ Captured(bytes, va) \in [1 .. n -> Word]
                              /\ Captured(bytes, va) = Words(text, va, n)
                              /\ va \in Addresses /\ va + n - 1 \in Addresses
<1>1. Readable(va) \subseteq {1, 3, 5}  BY DEF Readable
<1>2. \E n \in Readable(va) : \A m \in Readable(va) : m <= n
  <2> DEFINE P(n) == n \in Readable(va)
  <2>1. P(1) \/ P(3) \/ P(5)  BY <1>1
  <2> QED  BY <1>1, <2>1
<1> DEFINE n == CHOOSE n \in Readable(va) : \A m \in Readable(va) : m <= n
<1>3. n \in Readable(va)  BY <1>2
<1>4. Captured(bytes, va) = Words(text, va, n)  BY DEF Captured
<1> HIDE DEF n
<1>5. n \in {1, 3, 5} /\ va \in Addresses /\ va + n - 1 \in Addresses  BY <1>3 DEF Readable
<1>6. \A i \in 1 .. n : va + i - 1 \in Addresses
  BY <1>5, PipelineAssumption DEF Addresses
<1>7. Words(text, va, n) \in [1 .. n -> Word]  BY <1>6 DEF Words
<1> QED  BY <1>4, <1>5, <1>7

\* Hooked addresses are numbers.
LEMMA HookedAreNumbers == ASSUME input \in Inputs  PROVE Hooked \subseteq Nat
BY HooksAreFinite DEF Hooked

\* Reading the words again keeps the windows in the code.
LEMMA SitesPrepared ==
  ASSUME IInv, PrepareSites
  PROVE  /\ FileOK(slot') /\ OriginalOK(original')
         /\ \A va \in Hooked : Readable(va) # {} =>
              \E n \in {1, 3, 5} : /\ original'[va] \in [1 .. n -> Word]
                                   /\ original'[va] = Words(Parsed.text, va, n)
                                   /\ va \in Addresses /\ va + n - 1 \in Addresses
<1>1. FileOK(slot') /\ Parsed.text \in [Addresses -> Word]  BY Known, ParsedOK DEF PrepareSites
<1>2. original' = [va \in Hooked |-> IF Readable(va) = {} THEN <<>> ELSE Captured(Parsed, va)]
  BY DEF PrepareSites
<1>3. ASSUME NEW va \in Hooked, Readable(va) # {}
      PROVE  \E n \in {1, 3, 5} : /\ original'[va] \in [1 .. n -> Word]
                                   /\ original'[va] = Words(Parsed.text, va, n)
                                   /\ va \in Addresses /\ va + n - 1 \in Addresses
  <2>1. va \in Nat  BY Known, HookedAreNumbers
  <2>2. original'[va] = Captured(Parsed, va)  BY <1>2, <1>3
  <2> QED  BY <1>1, <1>3, <2>1, <2>2, Known, WordsCaptured
<1>4. ASSUME NEW va \in Hooked
      PROVE  \E n \in {0, 1, 3, 5} : original'[va] \in [1 .. n -> Word]
  <2>1. CASE Readable(va) = {}
    <3>1. original'[va] = <<>>  BY <1>2, <2>1
    <3> QED  BY <3>1, EmptyWords
  <2>2. CASE Readable(va) # {}  BY <1>3, <2>2
  <2> QED  BY <2>1, <2>2
<1>5. DOMAIN original' = Hooked  BY <1>2
<1> QED  BY <1>1, <1>3, <1>4, <1>5 DEF OriginalOK

\* A function on 1 .. n is a sequence of that length.
LEMMA LengthOf ==
  ASSUME NEW T, NEW n \in Nat, NEW s \in [1 .. n -> T]
  PROVE  Len(s) = n /\ s \in Seq(T)
OBVIOUS

-----------------------------------------------------------------------------
(* Each step keeps the invariant.                                           *)

\* Each action keeps the inductive invariant.
LEMMA StartStep == ASSUME IInv, Start  PROVE IInv'
<1>1. pc = "start" /\ pc \in Stages /\ pc \in Early  BY DEF Start, Stages, Early
<1>2. CASE input.plugins = <<>>
  <2>1. Throw("plugins") /\ UNCHANGED <<output, slot, input, k, worker, original, reach, content, warned>>
    BY <1>2 DEF Start
  <2> QED  BY <1>1, <2>1, Stops, Known
<1>3. CASE input.plugins # <<>>
  <2>1. /\ Continue("compile") /\ Write(Unpatched, Size(Unpatched))
        /\ UNCHANGED <<slot, input, k, worker, original, reach, content, warned>>
    BY <1>3 DEF Start
  <2>2. output.bytes = Unpatched  BY <1>1 DEF IInv, CleanInv
  <2>3. output' = [bytes |-> Unpatched, size |-> Size(Unpatched), time |-> output'.time]
        /\ output'.bytes = Unpatched /\ output'.time \in Nat /\ output'.size = Size(Unpatched)
    BY <2>1, Known, Written
  <2>4. FileOK(output')  BY <2>2, <2>3, Known, UnpatchedOK DEF FileOK, IsFile, Size
  <2>5. Unhooked'  BY <1>1, <2>1, <2>2, <2>3, SameBytes, Known
  <2>6. WindowInv'  BY <2>1 DEF WindowInv, Continue
  <2>7. "compile" \in Stages \ {"start", "caves", "windows"} /\ pc \in Stages \ {"caves", "windows"}
    BY <1>1 DEF Stages
  <2> QED  BY <1>1, <2>1, <2>2, <2>3, <2>4, <2>5, <2>6, <2>7, Known, Prepares
<1> QED  BY <1>2, <1>3

LEMMA CompileStep == ASSUME IInv, NEW p \in Plugins, Compile(p)  PROVE IInv'
<1>1. pc = "compile" /\ pc' = pc /\ Continue("compile")
      /\ UNCHANGED <<output, slot, input, k, original, reach, content, warned>>
  BY DEF Compile, Continue
<1>2. worker' \in [Plugins -> {"running", "compiled", "failed"}]  BY Known DEF Compile
<1>3. Unhooked'  BY <1>1, SameBytes, Known
<1>4. WindowInv'  BY <1>1 DEF WindowInv
<1>5. "compile" \in Stages \ {"start", "caves", "windows"} /\ pc \in Stages \ {"caves", "windows"} /\ pc \in Early
  BY <1>1 DEF Stages, Early
<1> QED  BY <1>1, <1>2, <1>3, <1>4, <1>5, Known, Prepares

LEMMA JoinStep == ASSUME IInv, Join  PROVE IInv'
<1>1. pc = "compile" /\ UNCHANGED <<output, slot, input, k, worker, original, reach, content, warned>>
  BY DEF Join
<1>2. /\ pc \in Stages /\ pc \in Early /\ pc \in Stages \ {"caves", "windows"}
      /\ "resolve" \in Stages \ {"start", "caves", "windows"}
  BY <1>1 DEF Stages, Early
<1>3. ASSUME NEW stage \in {"compile", "actions"}, Throw(stage)  PROVE IInv'
  BY <1>1, <1>2, <1>3, Known, Stops
<1>4. ASSUME Continue("resolve")  PROVE IInv'
  <2>1. Unhooked'  BY <1>1, SameBytes, Known
  <2>2. WindowInv'  BY <1>4 DEF WindowInv, Continue
  <2> QED  BY <1>1, <1>2, <1>4, <2>1, <2>2, Known, Prepares
<1> QED  BY <1>3, <1>4 DEF Join

LEMMA ResolveStep == ASSUME IInv, Resolve  PROVE IInv'
<1>1. pc = "resolve" /\ UNCHANGED <<output, input, k, worker, original, reach, content, warned>>
  BY DEF Resolve
<1>2. /\ pc \in Stages /\ pc \in Early /\ pc \in Stages \ {"caves", "windows"}
      /\ "capture" \in Stages \ {"start", "caves", "windows"}
  BY <1>1 DEF Stages, Early
<1>3. FileOK(slot')  BY Known, ParsedOK DEF Resolve
<1>4. ASSUME NEW stage \in {"address", "conflict"}, Throw(stage)  PROVE IInv'
  BY <1>1, <1>2, <1>3, <1>4, Known, Stops
<1>5. ASSUME Continue("capture")  PROVE IInv'
  <2>1. Unhooked'  BY <1>1, SameBytes, Known
  <2>2. WindowInv'  BY <1>5 DEF WindowInv, Continue
  <2> QED  BY <1>1, <1>2, <1>3, <1>5, <2>1, <2>2, Known, Prepares
<1> QED  BY <1>4, <1>5 DEF Resolve

LEMMA CaptureStep == ASSUME IInv, Capture  PROVE IInv'
<1>1. pc = "capture" /\ PrepareSites /\ UNCHANGED <<output, input, k, worker, reach, content, warned>>
  BY DEF Capture
<1>2. /\ pc \in Stages /\ pc \in Early /\ pc \in Stages \ {"caves", "windows"}
      /\ "segments" \in Stages \ {"start", "caves", "windows"}
  BY <1>1 DEF Stages, Early
<1>3. FileOK(slot') /\ OriginalOK(original')  BY <1>1, SitesPrepared
<1>4. ASSUME NEW stage \in {"window", "overlap", "handler"}, Throw(stage)  PROVE IInv'
  BY <1>1, <1>2, <1>3, <1>4, Known, Stops
<1>5. ASSUME Continue("segments"), \A va \in Hooked : Readable(va) # {}  PROVE IInv'
  <2>1. Unhooked'  BY <1>1, SameBytes, Known
  <2>2. WindowInv'
    <3>1. pc' = "segments" /\ Hooked' = Hooked  BY <1>1, <1>5, InputIsFixed DEF Continue
    <3>2. ASSUME NEW va \in Hooked
          PROVE  va \in Addresses /\ Len(original'[va]) >= 1 /\ va + Len(original'[va]) - 1 \in Addresses
      <4>1. PICK n \in {1, 3, 5} : /\ original'[va] \in [1 .. n -> Word]
                                   /\ va \in Addresses /\ va + n - 1 \in Addresses
        BY <1>1, <1>5, SitesPrepared
      <4>2. Len(original'[va]) = n  BY <4>1, LengthOf
      <4> QED  BY <4>1, <4>2
    <3> QED  BY <3>1, <3>2 DEF WindowInv
  <2> QED  BY <1>1, <1>2, <1>3, <1>5, <2>1, <2>2, Known, Prepares
<1> QED  BY <1>4, <1>5 DEF Capture

LEMMA AddSegmentsStep == ASSUME IInv, AddSegments  PROVE IInv'
<1>1. pc = "segments" /\ UNCHANGED <<input, k, worker, original, content, warned>>
  BY DEF AddSegments
<1>2. pc \in Stages /\ pc \in Early /\ "build" \in Stages \ {"start", "caves", "windows"}
      /\ "build" \notin Early /\ pc \in Stages \ {"caves", "windows"}
  BY <1>1 DEF Stages, Early
<1>3. ASSUME Continue("build")  PROVE WindowInv'
  BY <1>1, <1>2, <1>3, InputIsFixed DEF WindowInv, IInv, Continue
<1>4. ASSUME ParseBinary, UNCHANGED output, Continue("build"), reach' \in [Hooked -> {1, 3, 5}]
      PROVE  IInv'
  <2>1. Unhooked'  BY <1>1, <1>4, SameBytes, Known
  <2>2. FileOK(slot')  BY <1>4, Known, ParsedOK
  <2> QED  BY <1>1, <1>2, <1>3, <1>4, <2>1, <2>2, Known, Prepares
<1>5. ASSUME NEW bytes, bytes = [output.bytes EXCEPT !.segments = @ \cup Segments],
             Write(bytes, Size(bytes)), PrimeCache, Continue("build"),
             reach' \in [Hooked -> {1, 3, 5}]
      PROVE  IInv'
  <2>1. output' = [bytes |-> bytes, size |-> Size(bytes), time |-> output'.time]
        /\ output'.bytes = bytes /\ output'.time \in Nat /\ output'.size = Size(bytes)
    BY <1>5, Known, Written
  <2>2. bytes = [text |-> output.bytes.text, segments |-> output.bytes.segments \cup Segments,
                 filled |-> output.bytes.filled, dispatchers |-> output.bytes.dispatchers]
    <3>1. output.bytes = [text |-> output.bytes.text, segments |-> output.bytes.segments,
                          filled |-> output.bytes.filled, dispatchers |-> output.bytes.dispatchers]
      BY Known DEF FileOK, IsFile
    <3> QED  BY <1>5, <3>1
  <2>3. IsFiniteSet(bytes.segments) /\ Size(bytes) \in Nat
    <3>1. IsFiniteSet(Segments)
      <4> DEFINE f == [p \in WithHooks |-> input.plugins[p].segment]
      <4>1. f \in Surjection(WithHooks, Segments)  BY DEF Surjection, Segments
      <4>2. WithHooks \in SUBSET Plugins  BY DEF WithHooks
      <4>3. IsFiniteSet(WithHooks)  BY <4>2, Known, AllIsFinite, FS_Subset
      <4> QED  BY <4>1, <4>3, FS_Surjection
    <3>2. IsFiniteSet(bytes.segments)  BY <2>2, <3>1, Known, FS_Union
    <3> QED  BY <3>2, FS_CardinalityType DEF Size
  <2>4. FileOK(output')  BY <2>1, <2>2, <2>3, Known DEF FileOK, IsFile
  <2>5. FileOK(slot')  BY <1>5, <2>4 DEF PrimeCache
  <2>6. Unhooked'  BY <1>1, <2>1, <2>2, Known DEF Unhooked
  <2>7. output'.bytes.filled = output.bytes.filled /\ output'.bytes.dispatchers = output.bytes.dispatchers
    BY <2>1, <2>2
  <2> QED  BY <1>1, <1>2, <1>3, <1>5, <2>1, <2>3, <2>4, <2>5, <2>6, <2>7, Known, Prepares
<1>6. ASSUME Throw("segments"), UNCHANGED <<output, slot, reach>>  PROVE IInv'
  BY <1>1, <1>2, <1>6, Known, Stops
<1> QED  BY <1>4, <1>5, <1>6 DEF AddSegments

LEMMA BuildCodeStep == ASSUME IInv, BuildCode  PROVE IInv'
<1>1. pc = "build" /\ k' = 1 /\ UNCHANGED <<output, input, worker, original, reach, content, warned>>
  BY DEF BuildCode
<1>2. pc \in Stages /\ "direct" \in Stages \ {"start", "caves", "windows"}
      /\ "direct" \notin Early /\ pc \in Stages \ {"caves", "windows"}
  BY <1>1 DEF Stages, Early
<1>3. FileOK(slot')  BY Known, ParsedOK DEF BuildCode
<1>4. ASSUME Throw("relocation")  PROVE IInv'
  <2>1. "relocation" \notin EarlyErrors  BY DEF EarlyErrors
  <2> QED  BY <1>1, <1>2, <1>3, <1>4, <2>1, Known, Stops
<1>5. ASSUME Continue("direct")  PROVE IInv'
  <2>1. Unhooked'  BY <1>1, SameBytes, Known
  <2>2. WindowInv'  BY <1>1, <1>5, InputIsFixed DEF WindowInv, IInv, Continue
  <2> QED  BY <1>1, <1>2, <1>3, <1>5, <2>1, <2>2, Known, Prepares
<1> QED  BY <1>4, <1>5 DEF BuildCode

LEMMA DirectPatchStep == ASSUME IInv, DirectPatch  PROVE IInv'
<1> DEFINE d == Patches[k]
<1>1. /\ pc = "direct" /\ k <= Len(Patches) /\ k' = k + 1
      /\ UNCHANGED <<slot, input, worker, original, reach, content>>
  BY DEF DirectPatch
<1>2. pc \in Stages /\ "direct" \in Stages \ {"start", "caves", "windows"}
      /\ "direct" \notin Early /\ pc \in Stages \ {"caves", "windows"}
  BY <1>1 DEF Stages, Early
<1>3. ASSUME NEW stage \in {"assembly", "expected size", "unmapped", "write"}, Throw(stage),
             UNCHANGED <<output, warned>>
      PROVE  IInv'
  <2>1. stage \notin EarlyErrors  BY DEF EarlyErrors
  <2> QED  BY <1>1, <1>2, <1>3, <2>1, Known, Stops
<1>4. ASSUME Continue("direct")  PROVE WindowInv'
  BY <1>1, <1>4, InputIsFixed DEF WindowInv, IInv, Continue
<1>5. ASSUME Continue("direct"), UNCHANGED output, warned' = TRUE  PROVE IInv'
  <2>1. Unhooked'  BY <1>1, <1>5, SameBytes, Known
  <2> QED  BY <1>1, <1>2, <1>4, <1>5, <2>1, Known, Prepares
<1>6. ASSUME Continue("direct"), WritePatch(d), UNCHANGED warned  PROVE IInv'
  <2> DEFINE bytes == Overwrite(output.bytes, d.action.at, PatchWords(d))
  <2>1. d \in OfKind({"patch"}) /\ d \in Declaration
    <3>1. k \in 1 .. Len(Patches)  BY <1>1, Known, PatchesList
    <3> QED  BY <3>1, Known, PatchesList, KindsAreFinite
  <2>2. d.action.at \in Nat /\ d.action.size \in Nat  BY <2>1 DEF Declaration, Action
  <2>3. \A i \in 1 .. d.action.size : PatchWord(d, i) \in Word  BY <2>1 DEF Word
  <2> HIDE DEF d
  <2>4. \A i \in DOMAIN PatchWords(d) : PatchWords(d)[i] \in Word /\ PatchWords(d)[i][1] # "hook"
    BY <2>3 DEF PatchWords, PatchWord
  <2>5. /\ output' = [bytes |-> bytes, size |-> output.size, time |-> output'.time]
        /\ output'.bytes = bytes /\ output'.time \in Nat /\ output'.size = output.size
    BY <1>6, Known, Written DEF WritePatch
  <2>6. /\ bytes = [text |-> bytes.text, segments |-> bytes.segments,
                    filled |-> bytes.filled, dispatchers |-> bytes.dispatchers]
        /\ bytes.text = [a \in Addresses |-> bytes.text[a]]
        /\ \A a \in Addresses : bytes.text[a] = IF a - d.action.at + 1 \in DOMAIN PatchWords(d)
                              THEN PatchWords(d)[a - d.action.at + 1] ELSE output.bytes.text[a]
        /\ bytes.segments = output.bytes.segments /\ bytes.filled = output.bytes.filled
        /\ bytes.dispatchers = output.bytes.dispatchers
    BY Known, Overwritten
  <2> HIDE DEF bytes
  <2>7. \A a \in Addresses : bytes.text[a] \in Word /\ bytes.text[a][1] # "hook"
    BY <1>1, <2>4, <2>6, Known DEF Unhooked
  <2>8. bytes.text \in [Addresses -> Word]  BY <2>6, <2>7
  <2>9. FileOK(output')  BY <2>5, <2>6, <2>8, Known DEF FileOK, IsFile
  <2>10. Unhooked'  BY <2>5, <2>7 DEF Unhooked
  <2>11. IsFiniteSet(output'.bytes.segments)  BY <2>5, <2>6, Known
  <2> QED  BY <1>1, <1>2, <1>4, <1>6, <2>5, <2>6, <2>9, <2>10, <2>11, Known, Prepares
<1> QED
  <2>1. \/ \E stage \in {"assembly", "expected size", "unmapped", "write"} :
             Throw(stage) /\ UNCHANGED <<output, warned>>
        \/ Continue("direct") /\ UNCHANGED output /\ warned' = TRUE
        \/ Continue("direct") /\ WritePatch(d) /\ UNCHANGED warned
    BY DEF DirectPatch
  <2> QED  BY <1>3, <1>5, <1>6, <2>1

LEMMA RecaptureStep == ASSUME IInv, Recapture  PROVE IInv'
<1>1. /\ pc = "direct" /\ PrepareSites /\ Continue("sites")
      /\ UNCHANGED <<output, input, k, worker, reach, content, warned>>
  BY DEF Recapture
<1>2. pc \in Stages /\ "sites" \in Stages \ {"start", "caves", "windows"}
      /\ "sites" \notin Early /\ pc \in Stages \ {"caves", "windows"}
  BY <1>1 DEF Stages, Early
<1>3. FileOK(slot') /\ OriginalOK(original')  BY <1>1, SitesPrepared
<1>4. Unhooked'  BY <1>1, SameBytes, Known
<1>5. WindowInv'
  <2>1. pc' = "sites" /\ Hooked' = Hooked  BY <1>1, InputIsFixed DEF Continue
  <2>2. ASSUME NEW va \in Hooked
        PROVE  va \in Addresses /\ Len(original'[va]) >= 1 /\ va + Len(original'[va]) - 1 \in Addresses
    <3>1. va \in Addresses  BY <1>1 DEF IInv, WindowInv
    <3>2. 1 \in Readable(va)  BY <3>1 DEF Readable, Addresses
    <3>3. PICK n \in {1, 3, 5} : /\ original'[va] \in [1 .. n -> Word]
                                 /\ va \in Addresses /\ va + n - 1 \in Addresses
      BY <1>1, <3>2, SitesPrepared
    <3>4. Len(original'[va]) = n  BY <3>3, LengthOf
    <3> QED  BY <3>3, <3>4
  <2> QED  BY <2>1, <2>2 DEF WindowInv
<1> QED  BY <1>1, <1>2, <1>3, <1>4, <1>5, Known, Prepares

\* The first words of those captured are words captured.
LEMMA FirstWords ==
  ASSUME NEW T, NEW s \in Seq(T), NEW n \in Nat, n <= Len(s)
  PROVE  /\ SubSeq(s, 1, n) \in [1 .. n -> T] /\ Len(SubSeq(s, 1, n)) = n
         /\ \A i \in 1 .. n : SubSeq(s, 1, n)[i] = s[i]
<1> DEFINE t == SubSeq(s, 1, n)
<1>1. t = [i \in 1 .. n |-> s[i]]  OBVIOUS
<1>2. t \in Seq(T)  OBVIOUS
<1> HIDE DEF t
<1>3. t \in [1 .. n -> T]  BY <1>1
<1>4. Len(t) = n  BY <1>3
<1> QED  BY <1>1, <1>3, <1>4 DEF t

LEMMA BuildSitesStep == ASSUME IInv, BuildSites  PROVE IInv'
<1>1. /\ pc = "sites" /\ k' = 1
      /\ UNCHANGED <<output, slot, input, worker, reach, warned>>
  BY DEF BuildSites
<1>2. pc \in Stages /\ pc \notin Early  BY <1>1 DEF Stages, Early
<1>3. ASSUME NEW stage \in {"reach", "instruction"}, Throw(stage), UNCHANGED <<original, content>>
      PROVE  IInv'
  <2>1. stage \notin EarlyErrors  BY DEF EarlyErrors
  <2> QED  BY <1>1, <1>2, <1>3, <2>1, Known, Stops
<1>4. ASSUME ~ \E va \in Hooked : reach[va] > Len(original[va]), Continue("caves"),
             original' = [va \in Hooked |-> SubSeq(original[va], 1, reach[va])],
             content' = {[va |-> va, handlers |-> Handlers(va), original |-> original'[va]] : va \in Hooked}
      PROVE  IInv'
  <2>1. pc' = "caves" /\ error' = error /\ exit' = exit  BY <1>4 DEF Continue
  <2>2. error = "none" /\ exit = "none"  BY <1>1 DEF IInv, TypeInv
  <2>3. ASSUME NEW va \in Hooked
        PROVE  /\ original'[va] \in [1 .. reach[va] -> Word] /\ reach[va] \in {1, 3, 5}
               /\ Len(original'[va]) = reach[va]
               /\ va \in Addresses /\ va + reach[va] - 1 \in Addresses
    <3>1. PICK n \in {0, 1, 3, 5} : original[va] \in [1 .. n -> Word]  BY Known DEF OriginalOK
    <3>2. Len(original[va]) = n /\ original[va] \in Seq(Word)  BY <3>1, LengthOf
    <3>3. reach[va] \in {1, 3, 5} /\ reach[va] <= n  BY <1>4, <3>2, Known
    <3>4. original'[va] = SubSeq(original[va], 1, reach[va])  BY <1>4
    <3>5. reach[va] \in Nat /\ reach[va] <= Len(original[va])  BY <3>2, <3>3
    <3>6. Len(original'[va]) = reach[va] /\ original'[va] \in [1 .. reach[va] -> Word]
      BY <3>2, <3>4, <3>5, FirstWords
    <3>7. va \in Addresses /\ va + n - 1 \in Addresses  BY <1>1, <3>2 DEF IInv, WindowInv
    <3>8. va + reach[va] - 1 \in Addresses  BY <3>3, <3>7, PipelineAssumption DEF Addresses
    <3> QED  BY <3>3, <3>6, <3>7, <3>8
  <2>4. OriginalOK(original')
    <3>1. DOMAIN original' = Hooked  BY <1>4
    <3> QED  BY <2>3, <3>1 DEF OriginalOK
  <2>5. TypeInv'
    <3>1. TypeInv /\ pc' \in Stages \cup {"stopped"} /\ pc' # "stopped"  BY <2>1 DEF IInv, Stages
    <3>2. exit' \in {"none", "0", "1"} /\ (exit' = "none") = (pc' # "stopped")
          /\ (error' # "none") = (exit' = "1")
      BY <2>1, <2>2, <3>1
    <3> QED  BY <1>1, <2>4, <3>1, <3>2, Known, TypeStep
  <2>6. Unhooked'  BY <1>1, SameBytes, Known
  <2>7. CleanInv'  BY <2>1, <2>2, <2>6 DEF CleanInv, Early, EarlyErrors
  <2>8. WindowInv'
    <3>1. Hooked' = Hooked  BY <1>1, InputIsFixed
    <3> QED  BY <1>1, <2>1, <2>3, <3>1 DEF WindowInv
  <2>9. ContentInv'
    <3>1. content' = Built'  BY <1>1, <1>4, InputIsFixed DEF Built
    <3>2. output'.bytes.filled = {}  BY <1>1 DEF IInv, ContentInv
    <3> QED  BY <2>1, <3>1, <3>2 DEF ContentInv
  <2>10. CavesInv'
    <3>1. \A n \in 1 .. Len(Caves)' : ~ (n < k')
      BY <1>1, InputIsFixed, CavesList, Known
    <3> QED  BY <2>1, <3>1 DEF CavesInv
  <2>11. NoDanglingHook'  BY <2>6, NoneDangle
  <2> QED  BY <2>5, <2>7, <2>8, <2>9, <2>10, <2>11 DEF IInv
<1> QED  BY <1>3, <1>4 DEF BuildSites

\* What lets a step of the last two loops go on.
LEMMA GoesOn ==
  ASSUME IInv, UNCHANGED <<input, worker, original, reach, content, warned>>, NEW next, Continue(next),
         pc \in {"caves", "windows"}, next \in {"caves", "windows"},
         FileOK(output'), FileOK(slot'), IsFiniteSet(output'.bytes.segments), k' \in Nat \ {0}
  PROVE  /\ TypeInv' /\ WindowInv' /\ content' = Built' /\ content = Built
         /\ next = "caves" /\ Unhooked' => CleanInv'
         /\ next = "windows" => CleanInv'
         /\ pc' = next
<1>1. pc' = next /\ error' = error /\ exit' = exit  BY DEF Continue
<1>2. error = "none" /\ exit = "none"  BY DEF IInv, TypeInv
<1>3. TypeInv'
  <2>1. TypeInv /\ pc' \in Stages \cup {"stopped"} /\ pc' # "stopped"  BY <1>1 DEF IInv, Stages
  <2>2. exit' \in {"none", "0", "1"} /\ (exit' = "none") = (pc' # "stopped")
        /\ (error' # "none") = (exit' = "1")
    BY <1>1, <1>2, <2>1
  <2> QED  BY <2>1, <2>2, Known, TypeStep
<1>4. WindowInv'
  <2>1. Hooked' = Hooked  BY InputIsFixed
  <2> QED  BY <2>1 DEF WindowInv, IInv
<1>5. content = Built  BY DEF IInv, ContentInv
<1>6. Built' = Built  BY InputIsFixed DEF Built
<1>7. next = "caves" /\ Unhooked' => CleanInv'  BY <1>1, <1>2 DEF CleanInv, Early, EarlyErrors
<1>8. next = "windows" => CleanInv'  BY <1>1, <1>2 DEF CleanInv, Early, EarlyErrors
<1> QED  BY <1>1, <1>3, <1>4, <1>5, <1>6, <1>7, <1>8

LEMMA WriteCaveStep == ASSUME IInv, WriteCave  PROVE IInv'
<1> DEFINE p    == Caves[k]
           left == {part \in Parts(p) : <<p, part>> \notin output.bytes.filled}
           part == IF "code" \in left THEN "code" ELSE "data"
           bytes == Filled(output.bytes, p, part)
<1>1. pc = "caves" /\ k <= Len(Caves) /\ UNCHANGED <<slot, input, worker, original, reach, content, warned>>
  BY DEF WriteCave
<1>2. \/ /\ Write(bytes, output.size) /\ k' = (IF left = {part} THEN k + 1 ELSE k)
         /\ Continue("caves")
      \/ Throw("write") /\ UNCHANGED <<output, k>>
  BY DEF WriteCave
<1>3. ASSUME Throw("write"), UNCHANGED <<output, k>>  PROVE IInv'
  <2>1. pc \in Stages /\ "write" \notin EarlyErrors  BY <1>1 DEF Stages, EarlyErrors
  <2> QED  BY <1>1, <1>3, <2>1, Known, Stops
<1>4. ASSUME Write(bytes, output.size), k' = (IF left = {part} THEN k + 1 ELSE k), Continue("caves")
      PROVE  IInv'
  <2>1. /\ output' = [bytes |-> bytes, size |-> output.size, time |-> output'.time]
        /\ output'.bytes = bytes /\ output'.time \in Nat /\ output'.size = output.size
    BY <1>4, Known, Written
  <2>2. /\ bytes = [text |-> bytes.text, segments |-> bytes.segments,
                    filled |-> bytes.filled, dispatchers |-> bytes.dispatchers]
        /\ bytes.text = output.bytes.text /\ bytes.segments = output.bytes.segments
        /\ bytes.filled = output.bytes.filled \cup {<<p, part>>}
        /\ output.bytes.dispatchers \subseteq bytes.dispatchers
        /\ part = "code" => {c \in content : Owner(c.va) = p} \subseteq bytes.dispatchers
    BY Known, FilledIn
  <2>3. k' \in Nat \ {0}  BY <1>4, Known
  <2>4. left = {part} => {p} \X Parts(p) \subseteq output.bytes.filled \cup {<<p, part>>}
    OBVIOUS
  <2>5. left # {part} => k' = k  BY <1>4
  <2>6. left = {part} => k' = k + 1  BY <1>4
  <2> HIDE DEF left, part, bytes
  <2>7. FileOK(output')  BY <2>1, <2>2, Known DEF FileOK, IsFile
  <2>8. IsFiniteSet(output'.bytes.segments)  BY <2>1, <2>2, Known
  <2>9. Unhooked'  BY <1>1, <2>1, <2>2, Known DEF Unhooked
  <2>10. TypeInv' /\ WindowInv' /\ content' = Built' /\ CleanInv' /\ pc' = "caves"
    BY <1>1, <1>4, <2>3, <2>7, <2>8, <2>9, Known, GoesOn
  <2>11. ContentInv'
    <3>1. ASSUME NEW q \in WithHooks, <<q, "code">> \in output'.bytes.filled
          PROVE  {c \in content : Owner(c.va) = q} \subseteq output'.bytes.dispatchers
      <4>1. CASE <<q, "code">> \in output.bytes.filled
        <5>1. {c \in content : Owner(c.va) = q} \subseteq output.bytes.dispatchers
          BY <4>1 DEF IInv, ContentInv
        <5> QED  BY <2>1, <2>2, <5>1
      <4>2. CASE <<q, "code">> \notin output.bytes.filled
        <5>1. q = p /\ part = "code"  BY <2>1, <2>2, <3>1, <4>2
        <5> QED  BY <2>1, <2>2, <5>1
      <4> QED  BY <4>1, <4>2
    <3>2. WithHooks' = WithHooks /\ content' = content /\ \A va : Owner(va)' = Owner(va)
      BY <1>1, InputIsFixed
    <3>3. \A q \in WithHooks' : <<q, "code">> \in output'.bytes.filled =>
            {c \in content' : Owner(c.va)' = q} \subseteq output'.bytes.dispatchers
      BY <3>1, <3>2
    <3> QED  BY <2>10, <3>3 DEF ContentInv
  <2>12. CavesInv'
    <3>1. Caves' = Caves /\ \A q : Parts(q)' = Parts(q)  BY <1>1, InputIsFixed
    <3>2. ASSUME NEW n \in 1 .. Len(Caves), n < k'
          PROVE  {Caves[n]} \X Parts(Caves[n]) \subseteq output'.bytes.filled
      <4>1. CASE n < k
        <5>1. {Caves[n]} \X Parts(Caves[n]) \subseteq output.bytes.filled
          BY <1>1, <4>1 DEF IInv, CavesInv, Complete
        <5> QED  BY <2>1, <2>2, <5>1
      <4>2. CASE ~ (n < k)
        <5>1. k' # k  BY <3>2, <4>2
        <5>2. left = {part} /\ k' = k + 1  BY <2>5, <2>6, <5>1
        <5>3. n = k
          <6>1. k \in Nat /\ n \in Nat  BY Known, CavesList
          <6> QED  BY <3>2, <4>2, <5>2, <6>1
        <5>4. Caves[n] = p  BY <5>3
        <5> QED  BY <2>1, <2>2, <2>4, <5>2, <5>4
      <4> QED  BY <4>1, <4>2
    <3> QED  BY <2>10, <3>1, <3>2 DEF CavesInv, Complete
  <2>13. NoDanglingHook'  BY <2>9, NoneDangle
  <2> QED  BY <2>10, <2>11, <2>12, <2>13 DEF IInv
<1> QED  BY <1>2, <1>3, <1>4

LEMMA CavesWrittenStep == ASSUME IInv, CavesWritten  PROVE IInv'
<1>1. /\ pc = "caves" /\ k > Len(Caves) /\ RefreshStamp /\ Continue("windows") /\ k' = 1
      /\ UNCHANGED <<output, input, worker, original, reach, content, warned>>
  BY DEF CavesWritten
<1>2. FileOK(slot')
  <2>1. slot' = slot \/ slot' = [output EXCEPT !.bytes = slot.bytes]  BY <1>1 DEF RefreshStamp
  <2>2. CASE slot' = slot  BY <2>2, Known
  <2>3. CASE slot' = [output EXCEPT !.bytes = slot.bytes]
    <3>1. slot' = [bytes |-> slot.bytes, size |-> output.size, time |-> output.time]
      BY <2>3, Known DEF FileOK, IsFile
    <3> QED  BY <3>1, Known DEF FileOK, IsFile
  <2> QED  BY <2>1, <2>2, <2>3
<1>3. TypeInv' /\ WindowInv' /\ content' = Built' /\ CleanInv' /\ pc' = "windows"
  BY <1>1, <1>2, Known, GoesOn
<1>4. ContentInv'  BY <1>1, <1>3, InputIsFixed DEF ContentInv, IInv
<1>5. \A p \in WithHooks : Complete(p)
  <2> SUFFICES ASSUME NEW p \in WithHooks  PROVE Complete(p)
    OBVIOUS
  <2>1. PICK n \in 1 .. Len(Caves) : Caves[n] = p  BY Known, CavesList
  <2>2. n < k  BY <1>1, Known, CavesList
  <2> QED  BY <1>1, <2>1, <2>2 DEF IInv, CavesInv
<1>6. CavesInv'  BY <1>1, <1>3, <1>5, SameBytes, InputIsFixed DEF CavesInv
<1>7. NoDanglingHook'  BY <1>1, SameBytes, InputIsFixed DEF IInv, NoDanglingHook
<1> QED  BY <1>3, <1>4, <1>6, <1>7 DEF IInv

\* When the windows are patched, all they lead to is in the file.
LEMMA AllReady ==
  ASSUME IInv, pc = "windows"  PROVE \A va \in Hooked : Ready(va)
<1> SUFFICES ASSUME NEW va \in Hooked  PROVE Ready(va)
  OBVIOUS
<1> DEFINE c == [va |-> va, handlers |-> Handlers(va), original |-> original[va]]
<1>1. c \in content  BY DEF IInv, ContentInv, Built
<1>2. Owner(va) \in WithHooks  BY Known, OwnerHasCave
<1>3. \A p \in WithHooks : Complete(p)  BY DEF IInv, CavesInv
<1>4. <<Owner(va), "code">> \in output.bytes.filled  BY <1>2, <1>3 DEF Complete, Parts
<1>5. c \in output.bytes.dispatchers  BY <1>1, <1>2, <1>4 DEF IInv, ContentInv
<1>6. ASSUME NEW h \in ToSet(Handlers(va))  PROVE {h.plugin} \X Parts(h.plugin) \subseteq output.bytes.filled
  <2>1. h \in HandlersOf(va)  BY Known, HandlersList DEF ToSet
  <2>2. h.plugin \in WithHooks  BY <2>1, Known, HandlersHaveCaves
  <2> QED  BY <1>3, <2>2 DEF Complete
<1> QED  BY <1>5, <1>6 DEF Ready, Dispatcher

LEMMA PatchWindowStep == ASSUME IInv, PatchWindow  PROVE IInv'
<1> DEFINE va == Sites[k]
           branch == [i \in 1 .. reach[va] |-> Branch(va, i)]
           bytes == Overwrite(output.bytes, va, branch)
<1>1. /\ pc = "windows" /\ k <= Len(Sites) /\ k' = k + 1
      /\ UNCHANGED <<slot, input, worker, original, reach, content, warned>>
  BY DEF PatchWindow
<1>2. \/ Continue("windows") /\ Write(bytes, output.size)
      \/ Throw("write") /\ UNCHANGED output
  BY DEF PatchWindow
<1>3. ASSUME Throw("write"), UNCHANGED output  PROVE IInv'
  <2>1. pc \in Stages /\ "write" \notin EarlyErrors  BY <1>1 DEF Stages, EarlyErrors
  <2> QED  BY <1>1, <1>3, <2>1, Known, Stops
<1>4. ASSUME Continue("windows"), Write(bytes, output.size)  PROVE IInv'
  <2>1. /\ output' = [bytes |-> bytes, size |-> output.size, time |-> output'.time]
        /\ output'.bytes = bytes /\ output'.time \in Nat /\ output'.size = output.size
    BY <1>4, Known, Written
  <2>2. /\ bytes = [text |-> bytes.text, segments |-> bytes.segments,
                    filled |-> bytes.filled, dispatchers |-> bytes.dispatchers]
        /\ bytes.text = [a \in Addresses |-> bytes.text[a]]
        /\ \A a \in Addresses : bytes.text[a] = IF a - va + 1 \in DOMAIN branch
                              THEN branch[a - va + 1] ELSE output.bytes.text[a]
        /\ bytes.segments = output.bytes.segments /\ bytes.filled = output.bytes.filled
        /\ bytes.dispatchers = output.bytes.dispatchers
    BY Known, Overwritten
  <2>3. va \in Hooked
    <3>1. k \in 1 .. Len(Sites)  BY <1>1, Known, SitesList
    <3> QED  BY <3>1, Known, SitesList
  <2>4. \A i \in DOMAIN branch : branch[i] \in Word  BY <2>3, Known DEF Word
  <2> HIDE DEF va, branch, bytes
  <2>5. bytes.text \in [Addresses -> Word]  BY <2>2, <2>4, Known
  <2>6. FileOK(output')  BY <2>1, <2>2, <2>5, Known DEF FileOK, IsFile
  <2>7. IsFiniteSet(output'.bytes.segments)  BY <2>1, <2>2, Known
  <2>8. TypeInv' /\ WindowInv' /\ content' = Built' /\ CleanInv' /\ pc' = "windows"
    BY <1>1, <1>4, <2>6, <2>7, Known, GoesOn
  <2>9. output'.bytes.filled = output.bytes.filled /\ output'.bytes.dispatchers = output.bytes.dispatchers
    BY <2>1, <2>2
  <2>10. ContentInv'  BY <1>1, <2>8, <2>9, InputIsFixed DEF ContentInv, IInv
  <2>11. CavesInv'  BY <1>1, <2>8, <2>9, InputIsFixed DEF CavesInv, IInv, Complete
  <2>12. NoDanglingHook'
    <3>1. \A w \in Hooked : Ready(w)  BY <1>1, AllReady
    <3>2. \A w : Ready(w)' <=> Ready(w)  BY <1>1, <2>9, InputIsFixed DEF Ready, Dispatcher
    <3> QED  BY <1>1, <3>1, <3>2, InputIsFixed DEF NoDanglingHook
  <2> QED  BY <2>8, <2>10, <2>11, <2>12 DEF IInv
<1> QED  BY <1>2, <1>3, <1>4

LEMMA FinishStep == ASSUME IInv, Finish  PROVE IInv'
<1>1. /\ pc = "windows" /\ pc' = "stopped" /\ exit' = "0"
      /\ UNCHANGED <<output, slot, input, k, worker, original, reach, content, error, warned>>
  BY DEF Finish
<1>2. error = "none"  BY <1>1 DEF IInv, TypeInv
<1>3. TypeInv'  BY <1>1, <1>2, Known, TypeStep DEF IInv
<1>4. CleanInv'  BY <1>1, <1>2 DEF CleanInv, Early, EarlyErrors
<1>5. WindowInv' /\ CavesInv'  BY <1>1 DEF WindowInv, CavesInv
<1>6. ContentInv'  BY <1>1, InputIsFixed DEF ContentInv, IInv
<1>7. NoDanglingHook'  BY <1>1, SameBytes, InputIsFixed DEF IInv, NoDanglingHook
<1> QED  BY <1>3, <1>4, <1>5, <1>6, <1>7 DEF IInv

LEMMA StutterStep == ASSUME IInv, UNCHANGED vars  PROVE IInv'
<1>1. UNCHANGED <<output, slot, input, pc, k, worker, original, reach, content, error, warned, exit>>
  BY DEF vars
<1>2. TypeInv'  BY <1>1, TypeStep DEF IInv, TypeInv
<1>3. CleanInv'  BY <1>1, SameBytes, InputIsFixed DEF IInv, CleanInv
<1>4. WindowInv'  BY <1>1, InputIsFixed DEF IInv, WindowInv
<1>5. Built' = Built  BY <1>1, InputIsFixed DEF Built
<1>6. ContentInv'  BY <1>1, <1>5, InputIsFixed DEF IInv, ContentInv
<1>7. CavesInv'  BY <1>1, SameBytes, InputIsFixed DEF IInv, CavesInv
<1>8. NoDanglingHook'  BY <1>1, SameBytes, InputIsFixed DEF IInv, NoDanglingHook
<1> QED  BY <1>2, <1>3, <1>4, <1>6, <1>7, <1>8 DEF IInv

\* Every step keeps the inductive invariant.
LEMMA NextInv == IInv /\ [Next]_vars => IInv'
<1> SUFFICES ASSUME IInv, [Next]_vars  PROVE IInv'
  OBVIOUS
<1> USE DEF Next, Main
<1> QED  BY StartStep, CompileStep, JoinStep, ResolveStep, CaptureStep, AddSegmentsStep, BuildCodeStep,
            DirectPatchStep, RecaptureStep, BuildSitesStep, WriteCaveStep, CavesWrittenStep,
            PatchWindowStep, FinishStep, StutterStep

(* In every reachable state the caves written are those the code took for   *)
(* written, and a hook is live only if what it leads to is.                 *)
THEOREM InductiveInvariant == Spec => []IInv
BY InitInv, NextInv, PTL DEF Spec

(* The variables keep their types.                                          *)
THEOREM TypeCorrect == Spec => []TypeOK
<1>1. IInv => TypeOK
  <2> SUFFICES ASSUME IInv  PROVE TypeOK
    OBVIOUS
  <2>1. \A file \in {output, slot} : /\ DOMAIN file.bytes.text = Addresses
                                     /\ \A a \in Addresses : file.bytes.text[a] \in Word
                                     /\ file.size \in Nat /\ file.time \in Nat
    BY Known DEF FileOK
  <2> QED  BY <2>1 DEF IInv, TypeInv, TypeOK, OriginalOK, Stages
<1> QED  BY <1>1, InductiveInvariant, PTL

(* A run that fails leaves no hook live, short of a failing write, and      *)
(* before it has segments to fill it leaves the input as it was.            *)
THEOREM CleanFailures == Spec => []FailsCleanly
<1>1. IInv => FailsCleanly  BY NoneLive DEF IInv, CleanInv, FailsCleanly, EarlyErrors
<1> QED  BY <1>1, InductiveInvariant, PTL

(* Wherever the run stops, or is stopped, an address that leads to a        *)
(* dispatcher finds it in the file, with every handler it calls.            *)
THEOREM NoHookDangles == Spec => []NoDanglingHook
<1>1. IInv => NoDanglingHook  BY DEF IInv
<1> QED  BY <1>1, InductiveInvariant, PTL

-----------------------------------------------------------------------------
(* Runs whose windows keep clear of one another.  The code does not compare *)
(* the addresses of the hooks, so this is asked of the input.               *)
HooksApart == \A v, w \in Hooked : v < w => w - v >= 5

Whole(va) == \A i \in 1 .. reach[va] : output.bytes.text[va + i - 1] = Branch(va, i)
Called(va) == \E c \in output.bytes.dispatchers :
                c = [va |-> va, handlers |-> Handlers(va), original |-> original[va]]

\* A branch once written stays whole.
ApartInv ==
  /\ HooksApart
  /\ pc = "windows" => \A n \in 1 .. Len(Sites) : n < k => Whole(Sites[n])
  /\ exit = "0" => \A va \in Hooked : /\ va \in Addresses /\ Whole(va) /\ Called(va)
                                     /\ Len(original[va]) = reach[va]

\* Before the windows are patched every dispatcher is in the file.
LEMMA AllCalled ==
  ASSUME IInv, pc = "windows"  PROVE \A va \in Hooked : Called(va)
<1> SUFFICES ASSUME NEW va \in Hooked  PROVE Called(va)
  OBVIOUS
<1> DEFINE c == [va |-> va, handlers |-> Handlers(va), original |-> original[va]]
<1>1. c \in content  BY DEF IInv, ContentInv, Built
<1>2. Owner(va) \in WithHooks  BY Known, OwnerHasCave
<1>3. \A p \in WithHooks : Complete(p)  BY DEF IInv, CavesInv
<1>4. <<Owner(va), "code">> \in output.bytes.filled  BY <1>2, <1>3 DEF Complete, Parts
<1>5. c \in output.bytes.dispatchers  BY <1>1, <1>2, <1>4 DEF IInv, ContentInv
<1> QED  BY <1>5 DEF Called

\* A step of the last loop writes one whole branch, and keeps the others.
LEMMA WindowPatched ==
  ASSUME IInv, HooksApart, PatchWindow, Continue("windows"), NEW va, va = Sites[k]
  PROVE  /\ va \in Hooked /\ va \in Addresses
         /\ Whole(va)' /\ Live(va)'
         /\ \A w \in Hooked : w # va =>
              /\ Whole(w)' <=> Whole(w)
              /\ Live(w)' <=> Live(w)
              /\ Words(output.bytes.text, w, reach[w])' = Words(output.bytes.text, w, reach[w])
         /\ \A w : Ready(w)' <=> Ready(w)
         /\ output'.bytes.dispatchers = output.bytes.dispatchers
         /\ \A a \in Addresses : a \notin va .. va + reach[va] - 1 =>
              output'.bytes.text[a] = output.bytes.text[a]
<1> DEFINE branch == [i \in 1 .. reach[va] |-> Branch(va, i)]
           bytes == Overwrite(output.bytes, va, branch)
<1>1. /\ pc = "windows" /\ k <= Len(Sites) /\ k' = k + 1
      /\ UNCHANGED <<slot, input, worker, original, reach, content, warned>>
  BY DEF PatchWindow
<1>2. Write(bytes, output.size)
  <2>1. ~ Throw("write")  BY <1>1 DEF Throw, Continue
  <2> QED  BY <2>1 DEF PatchWindow
<1>3. output'.bytes = bytes  BY <1>2, Known, Written
<1>5. va \in Hooked
  <2>1. k \in 1 .. Len(Sites)  BY <1>1, Known, SitesList
  <2> QED  BY <2>1, Known, SitesList
<1>4. /\ \A a \in Addresses : bytes.text[a] = IF a - va + 1 \in DOMAIN branch
                            THEN branch[a - va + 1] ELSE output.bytes.text[a]
      /\ bytes.filled = output.bytes.filled
      /\ bytes.dispatchers = output.bytes.dispatchers
  <2>1. FileOK(output)  BY Known
  <2> HIDE DEF branch
  <2> QED  BY <2>1 DEF Overwrite, FileOK, IsFile
<1>6. \A w \in Hooked : w \in Addresses /\ w + reach[w] - 1 \in Addresses /\ reach[w] \in {1, 3, 5}
  BY <1>1, Known DEF IInv, WindowInv
<1>7. DOMAIN branch = 1 .. reach[va] /\ \A i \in 1 .. reach[va] : branch[i] = Branch(va, i)
  OBVIOUS
<1> HIDE DEF branch, bytes
<1>8. \A w : Ready(w)' <=> Ready(w)
  <2>1. output'.bytes.filled = output.bytes.filled /\ output'.bytes.dispatchers = output.bytes.dispatchers
    BY <1>3, <1>4
  <2> QED  BY <1>1, <2>1, InputIsFixed DEF Ready, Dispatcher
<1>9. ASSUME NEW w \in Hooked, NEW i \in 1 .. reach[w]
      PROVE  /\ w + i - 1 \in Addresses
             /\ w = va => bytes.text[w + i - 1] = Branch(w, i)
             /\ w # va => bytes.text[w + i - 1] = output.bytes.text[w + i - 1]
  <2>1. w \in Nat /\ va \in Nat /\ reach[w] \in {1, 3, 5} /\ reach[va] \in {1, 3, 5}
    BY <1>5, <1>6 DEF Addresses
  <2>2. w + i - 1 \in Addresses  BY <1>6, <2>1, PipelineAssumption DEF Addresses
  <2>3. CASE w = va
    <3>1. (w + i - 1) - va + 1 = i  BY <2>1, <2>3
    <3> QED  BY <1>4, <1>7, <2>2, <2>3, <3>1
  <2>4. CASE w # va
    <3>1. w - va >= 5 \/ va - w >= 5  BY <1>5, <2>1, <2>4 DEF HooksApart
    <3>2. (w + i - 1) - va + 1 \notin 1 .. reach[va]  BY <2>1, <3>1
    <3> QED  BY <1>4, <1>7, <2>2, <2>4, <3>2
  <2> QED  BY <2>2, <2>3, <2>4
<1>10. \A w \in Hooked : 1 \in 1 .. reach[w] /\ w + 1 - 1 = w
  BY <1>6 DEF Addresses
<1>11. Whole(va)'  BY <1>1, <1>3, <1>5, <1>9 DEF Whole, Branch
<1>12. Live(va)'
  <2>1. bytes.text[va] = Branch(va, 1)  BY <1>5, <1>9, <1>10
  <2> QED  BY <1>3, <1>5, <1>6, <2>1 DEF Live, Branch
<1>13. ASSUME NEW w \in Hooked, w # va
       PROVE  /\ Whole(w)' <=> Whole(w)
              /\ Live(w)' <=> Live(w)
              /\ Words(output.bytes.text, w, reach[w])' = Words(output.bytes.text, w, reach[w])
  <2>1. \A i \in 1 .. reach[w] : output'.bytes.text[w + i - 1] = output.bytes.text[w + i - 1]
    BY <1>3, <1>9, <1>13
  <2>2. Whole(w)' <=> Whole(w)  BY <1>1, <2>1 DEF Whole, Branch
  <2>3. output'.bytes.text[w] = output.bytes.text[w]  BY <1>10, <2>1
  <2>4. Live(w)' <=> Live(w)  BY <2>3 DEF Live, Branch
  <2>5. Words(output.bytes.text, w, reach[w])' = Words(output.bytes.text, w, reach[w])
    BY <1>1, <2>1 DEF Words
  <2> QED  BY <2>2, <2>4, <2>5
<1>14. va \in Addresses /\ output'.bytes.dispatchers = output.bytes.dispatchers
  BY <1>3, <1>4, <1>5, <1>6
<1>15. ASSUME NEW a \in Addresses, a \notin va .. va + reach[va] - 1
       PROVE  output'.bytes.text[a] = output.bytes.text[a]
  <2>1. va \in Nat /\ a \in Nat /\ reach[va] \in {1, 3, 5}  BY <1>5, <1>6 DEF Addresses
  <2>2. a - va + 1 \notin 1 .. reach[va]  BY <1>15, <2>1
  <2> QED  BY <1>3, <1>4, <1>7, <2>2
<1> QED  BY <1>5, <1>8, <1>11, <1>12, <1>13, <1>14, <1>15

\* Only the last loop, its first step and its end matter to it.
LEMMA ElsewhereApart ==
  ASSUME ApartInv, UNCHANGED input, pc' # "windows", exit' # "0"
  PROVE  ApartInv'
BY InputIsFixed DEF ApartInv, HooksApart

\* Every step keeps the branches already written whole.
LEMMA NextApart == IInv /\ ApartInv /\ [Next]_vars => ApartInv'
<1> SUFFICES ASSUME IInv, ApartInv, [Next]_vars  PROVE ApartInv'
  OBVIOUS
<1>1. ASSUME PatchWindow  PROVE ApartInv'
  <2>1. /\ pc = "windows" /\ k <= Len(Sites) /\ k' = k + 1
        /\ UNCHANGED <<slot, input, worker, original, reach, content, warned>>
    BY <1>1 DEF PatchWindow
  <2>2. CASE Throw("write")  BY <2>1, <2>2, ElsewhereApart DEF Throw
  <2>3. CASE Continue("windows")
    <3> DEFINE va == Sites[k]
    <3>1. HooksApart'  BY <2>1, InputIsFixed DEF ApartInv, HooksApart
    <3>2. ASSUME NEW n \in 1 .. Len(Sites), n < k'  PROVE Whole(Sites[n])'
      <4>0. Sites' = Sites  BY <2>1, InputIsFixed
      <4>1. PICK w : w = Sites[n]  OBVIOUS
      <4>2. PICK v : v = Sites[k]  OBVIOUS
      <4>3. w \in Hooked  BY <4>1, Known, SitesList
      <4>4. Whole(w)'
        <5>1. CASE w = v  BY <1>1, <2>3, <4>2, <5>1, WindowPatched DEF ApartInv
        <5>2. CASE w # v
          <6>1. n < k  BY <2>1, <3>2, <4>1, <4>2, <5>2, Known, SitesList
          <6>2. Whole(w)  BY <2>1, <4>1, <6>1 DEF ApartInv
          <6> QED  BY <1>1, <2>3, <4>2, <4>3, <5>2, <6>2, WindowPatched DEF ApartInv
        <5> QED  BY <5>1, <5>2
      <4> QED  BY <4>0, <4>1, <4>4
    <3>3. exit' # "0"  BY <2>1, <2>3 DEF Continue, IInv, TypeInv
    <3>4. Sites' = Sites  BY <2>1, InputIsFixed
    <3> QED  BY <3>1, <3>2, <3>3, <3>4 DEF ApartInv
  <2> QED  BY <1>1, <2>2, <2>3 DEF PatchWindow
<1>2. ASSUME CavesWritten  PROVE ApartInv'
  <2>1. pc = "caves" /\ k' = 1 /\ UNCHANGED input /\ exit' = exit  BY <1>2 DEF CavesWritten, Continue
  <2>2. exit # "0"  BY <2>1 DEF IInv, TypeInv
  <2>3. \A n \in 1 .. Len(Sites) : ~ (n < k')  BY <2>1, Known, SitesList
  <2> QED  BY <2>1, <2>2, <2>3, InputIsFixed DEF ApartInv, HooksApart
<1>3. ASSUME Finish  PROVE ApartInv'
  <2>1. /\ pc = "windows" /\ k > Len(Sites) /\ pc' = "stopped"
        /\ UNCHANGED <<output, slot, input, k, worker, original, reach, content, error, warned>>
    BY <1>3 DEF Finish
  <2>2. \A va \in Hooked : va \in Addresses /\ Whole(va) /\ Called(va) /\ Len(original[va]) = reach[va]
    <3> SUFFICES ASSUME NEW va \in Hooked
                 PROVE  va \in Addresses /\ Whole(va) /\ Called(va) /\ Len(original[va]) = reach[va]
      OBVIOUS
    <3>1. PICK n \in 1 .. Len(Sites) : Sites[n] = va  BY Known, SitesList
    <3>2. n < k  BY <2>1, Known, SitesList
    <3>3. Whole(va)  BY <2>1, <3>1, <3>2 DEF ApartInv
    <3> QED  BY <2>1, <3>3, AllCalled DEF IInv, WindowInv
  <2>3. \A va : (Whole(va)' <=> Whole(va)) /\ (Called(va)' <=> Called(va))
    BY <2>1, InputIsFixed DEF Whole, Called, Branch
  <2> QED  BY <2>1, <2>2, <2>3, InputIsFixed DEF ApartInv, HooksApart
<1>4. ASSUME Start \/ Join \/ Resolve \/ Capture \/ AddSegments \/ BuildCode \/ DirectPatch
             \/ Recapture \/ BuildSites \/ WriteCave \/ \E p \in Plugins : Compile(p)
      PROVE  ApartInv'
  <2>1. pc # "stopped" /\ UNCHANGED input  BY <1>4 DEF Start, Join, Resolve, Capture, AddSegments, BuildCode, DirectPatch,
             Recapture, BuildSites, WriteCave, Compile
  <2>2. exit # "0"  BY <2>1 DEF IInv, TypeInv
  <2>3. pc' # "windows" /\ (exit' = exit \/ exit' = "1")
    BY <1>4 DEF Start, Join, Resolve, Capture, AddSegments, BuildCode, DirectPatch,
             Recapture, BuildSites, WriteCave, Compile, Throw, Continue
  <2> QED  BY <2>1, <2>2, <2>3, ElsewhereApart
<1>5. ASSUME UNCHANGED vars  PROVE ApartInv'
  <2>1. UNCHANGED <<output, input, pc, k, original, reach, exit>>  BY <1>5 DEF vars
  <2>2. \A va : (Whole(va)' <=> Whole(va)) /\ (Called(va)' <=> Called(va))
    BY <2>1, InputIsFixed DEF Whole, Called, Branch
  <2>3. Sites' = Sites /\ Hooked' = Hooked /\ HooksApart'
    BY <2>1, InputIsFixed DEF ApartInv, HooksApart
  <2>4. pc' = "windows" => \A n \in 1 .. Len(Sites') : n < k' => Whole(Sites[n])'
    BY <2>1, <2>2, <2>3 DEF ApartInv
  <2>5. exit' = "0" => \A va \in Hooked' : /\ va \in Addresses /\ Whole(va)' /\ Called(va)'
                                          /\ Len(original'[va]) = reach'[va]
    BY <2>1, <2>2, <2>3 DEF ApartInv
  <2> QED  BY <2>3, <2>4, <2>5 DEF ApartInv, Addresses
<1> QED  BY <1>1, <1>2, <1>3, <1>4, <1>5 DEF Next, Main

(* Where the windows are apart a branch once written stays whole and its    *)
(* dispatcher stays the one built for it.                                   *)
THEOREM ApartInvariant == Spec /\ HooksApart => [](IInv /\ ApartInv)
<1>1. Init /\ HooksApart => ApartInv  BY DEF Init, ApartInv
<1> QED  BY <1>1, InitInv, NextInv, NextApart, PTL DEF Spec

\* The declarations a dispatcher is to call.
LEMMA HandlersDeclared ==
  ASSUME NEW va
  PROVE  {<<h.plugin, h.index>> : h \in HandlersOf(va)}
           = UNION {{<<p, i>> : i \in {j \in DOMAIN input.plugins[p].actions :
                               /\ input.plugins[p].actions[j].kind \in {"detour", "replace"}
                               /\ input.plugins[p].actions[j].at = va}} : p \in Plugins}
<1> DEFINE Right(p) == {j \in DOMAIN input.plugins[p].actions :
                          /\ input.plugins[p].actions[j].kind \in {"detour", "replace"}
                          /\ input.plugins[p].actions[j].at = va}
<1>1. ASSUME NEW h \in HandlersOf(va)
      PROVE  h.plugin \in Plugins /\ h.index \in Right(h.plugin)
  <2>1. h \in All /\ h.action.kind \in {"detour", "replace"} /\ h.action.at = va
    BY DEF HandlersOf, OfKind
  <2>2. PICK p \in Plugins : h \in Declared(p)  BY <2>1 DEF All
  <2>3. PICK i \in DOMAIN input.plugins[p].actions :
          h = [plugin |-> p, index |-> i, action |-> input.plugins[p].actions[i]]
    BY <2>2 DEF Declared
  <2> QED  BY <2>1, <2>3
<1>2. ASSUME NEW p \in Plugins, NEW i \in Right(p)
      PROVE  \E h \in HandlersOf(va) : h.plugin = p /\ h.index = i
  <2> DEFINE h == [plugin |-> p, index |-> i, action |-> input.plugins[p].actions[i]]
  <2>1. h \in All  BY DEF All, Declared
  <2>2. h \in HandlersOf(va)  BY <2>1 DEF HandlersOf, OfKind
  <2> QED  BY <2>2
<1> HIDE DEF Right
<1> DEFINE L == {<<h.plugin, h.index>> : h \in HandlersOf(va)}
           R == UNION {{<<p, i>> : i \in Right(p)} : p \in Plugins}
<1>3. ASSUME NEW e \in L  PROVE e \in R
  <2>1. PICK h \in HandlersOf(va) : e = <<h.plugin, h.index>>  OBVIOUS
  <2> QED  BY <1>1, <2>1
<1>4. ASSUME NEW e \in R  PROVE e \in L
  <2>1. PICK p \in Plugins : e \in {<<p, i>> : i \in Right(p)}  OBVIOUS
  <2>2. PICK i \in Right(p) : e = <<p, i>>  BY <2>1
  <2> QED  BY <1>2, <2>2
<1> QED  BY <1>3, <1>4 DEF Right

CallsDeclared(c, va) ==
  LET called == [n \in DOMAIN c.handlers |-> <<c.handlers[n].plugin, c.handlers[n].index>>]
  IN  /\ ToSet(called) = UNION {{<<p, i>> : i \in {j \in DOMAIN input.plugins[p].actions :
                             /\ input.plugins[p].actions[j].kind \in {"detour", "replace"}
                             /\ input.plugins[p].actions[j].at = va}} : p \in Plugins}
      /\ \A m, n \in DOMAIN called : m < n =>
           \/ called[m][1] < called[n][1]
           \/ called[m][1] = called[n][1] /\ called[m][2] < called[n][2]

(* A run that succeeds has every hooked address lead to a dispatcher that   *)
(* calls the handlers declared for it, and in their order.                  *)
THEOREM HandlersAreCalled == Spec /\ HooksApart => []CallsHandlers
<1>1. IInv /\ ApartInv => CallsHandlers
  <2> SUFFICES ASSUME IInv, ApartInv, exit = "0", NEW va \in Hooked
               PROVE  Whole(va) /\ \E c \in Dispatcher(va) : CallsDeclared(c, va)
    BY DEF CallsHandlers, CallsDeclared, Whole
  <2>1. Whole(va) /\ Called(va)  BY DEF ApartInv
  <2>2. PICK c \in Dispatcher(va) : c.handlers = Handlers(va)  BY <2>1 DEF Called, Dispatcher
  <2> DEFINE H == HandlersOf(va)
             N == Cardinality(H)
             hs == Handlers(va)
             called == [n \in DOMAIN hs |-> <<hs[n].plugin, hs[n].index>>]
  <2>3. /\ N \in Nat /\ hs \in [1 .. N -> H]
        /\ \A m, n \in 1 .. N : m < n => Before(hs[m], hs[n])
        /\ \A h \in H : \E n \in 1 .. N : hs[n] = h
    BY Known, HandlersList
  <2>4. {<<h.plugin, h.index>> : h \in H}
           = UNION {{<<p, i>> : i \in {j \in DOMAIN input.plugins[p].actions :
                               /\ input.plugins[p].actions[j].kind \in {"detour", "replace"}
                               /\ input.plugins[p].actions[j].at = va}} : p \in Plugins}
    BY HandlersDeclared
  <2> HIDE DEF H, N, hs
  <2>5. ToSet(called) = {<<h.plugin, h.index>> : h \in H}
    <3>1. DOMAIN hs = 1 .. N /\ \A n \in 1 .. N : hs[n] \in H  BY <2>3
    <3>2. ASSUME NEW e \in ToSet(called)  PROVE e \in {<<h.plugin, h.index>> : h \in H}
      <4>1. PICK n \in 1 .. N : e = <<hs[n].plugin, hs[n].index>>  BY <3>1 DEF ToSet
      <4> QED  BY <3>1, <4>1
    <3>3. ASSUME NEW h \in H  PROVE <<h.plugin, h.index>> \in ToSet(called)
      <4>1. PICK n \in 1 .. N : hs[n] = h  BY <2>3
      <4>2. n \in DOMAIN called /\ called[n] = <<h.plugin, h.index>>  BY <3>1, <4>1
      <4> QED  BY <4>2 DEF ToSet
    <3> QED  BY <3>2, <3>3
  <2>6. \A m, n \in DOMAIN called : m < n =>
           \/ called[m][1] < called[n][1]
           \/ called[m][1] = called[n][1] /\ called[m][2] < called[n][2]
    BY <2>3 DEF Before
  <2>7. CallsDeclared(c, va)  BY <2>2, <2>4, <2>5, <2>6 DEF CallsDeclared, hs
  <2> QED  BY <2>1, <2>2, <2>7
<1> QED  BY <1>1, ApartInvariant, PTL

-----------------------------------------------------------------------------
(* The run implements the abstract specification: a branch written is       *)
(* Install, a part of a cave is Prepare, the end is Succeed, an exception   *)
(* is Fail, and no other step shows.                                        *)
wanted == Hooked
ready == {va \in Hooked : Ready(va)}
live == {va \in Hooked : Live(va)}
outcome == CASE exit = "none" -> "running" [] exit = "0" -> "succeeded" [] OTHER -> "failed"

\* Steps that do not show.
LEMMA DoesNotShow ==
  ASSUME UNCHANGED <<input, exit>>, 
         \A va \in Hooked : (Ready(va)' <=> Ready(va)) /\ (Live(va)' <=> Live(va))
  PROVE  UNCHANGED <<wanted, ready, live, outcome>>
BY InputIsFixed DEF wanted, ready, live, outcome

\* A run starts where HookInstall does.
LEMMA RefinesInit == Init => Install!Init
<1> SUFFICES ASSUME Init  PROVE Install!Init
  OBVIOUS
<1>1. IInv /\ pc = "start" /\ exit = "none"  BY InitInv DEF Init
<1>2. \A va \in Hooked : ~Live(va)  BY <1>1, Known, NoneLive
<1>3. \A va \in Hooked : ~Ready(va)
  <2>1. output.bytes.dispatchers = {}  BY <1>1 DEF IInv, ContentInv
  <2> QED  BY <2>1 DEF Ready, Dispatcher
<1> QED  BY <1>1, <1>2, <1>3 DEF Install!Init

\* An exception is a failure.
LEMMA ThrowFails ==
  ASSUME IInv, UNCHANGED <<input, output>>, NEW stage, Throw(stage), pc # "stopped"
  PROVE  Install!Fail
<1>1. exit = "none" /\ exit' = "1"  BY DEF IInv, TypeInv, Throw
<1>2. UNCHANGED <<wanted, ready, live>>  BY SameBytes, InputIsFixed DEF wanted, ready, live
<1>3. outcome = "running" /\ outcome' = "failed"  BY <1>1 DEF outcome
<1> QED  BY <1>2, <1>3 DEF Install!Fail, wanted, ready, live, outcome

\* Before the caves are written there is nothing to show.
LEMMA PreparationDoesNotShow ==
  ASSUME IInv, IInv', UNCHANGED <<input, exit>>,
         pc \notin {"caves", "windows", "stopped"}, pc' \notin {"caves", "windows", "stopped"}
  PROVE  UNCHANGED <<wanted, ready, live, outcome>>
<1>1. \A va \in Hooked : ~Live(va)  BY NoneLive, Known
<1>2. \A va \in Hooked : ~Live(va)'
  <2>1. Unhooked'  BY DEF IInv, CleanInv
  <2> QED  BY <2>1 DEF Unhooked, Live, Branch
<1>3. output.bytes.dispatchers = {} /\ output'.bytes.dispatchers = {}  BY DEF IInv, ContentInv
<1>4. \A va \in Hooked : ~Ready(va) /\ ~Ready(va)'  BY <1>3 DEF Ready, Dispatcher
<1> QED  BY <1>1, <1>2, <1>4, DoesNotShow

\* Writing a cave makes hooks ready, or shows nothing.
LEMMA WriteCavePrepares ==
  ASSUME IInv, IInv', WriteCave, Continue("caves")
  PROVE  Install!Prepare
<1> DEFINE p    == Caves[k]
           left == {part \in Parts(p) : <<p, part>> \notin output.bytes.filled}
           part == IF "code" \in left THEN "code" ELSE "data"
           bytes == Filled(output.bytes, p, part)
<1>1. pc = "caves" /\ UNCHANGED <<input, content, exit>> /\ pc' = "caves"
  BY DEF WriteCave, Continue
<1>2. Write(bytes, output.size)
  <2>1. ~ Throw("write")  BY <1>1 DEF Throw
  <2> QED  BY <2>1 DEF WriteCave
<1>3. output'.bytes = bytes  BY <1>2, Known, Written
<1>4. /\ output.bytes.filled \subseteq bytes.filled
      /\ output.bytes.dispatchers \subseteq bytes.dispatchers
  <2>1. FileOK(output)  BY Known
  <2> HIDE DEF part, p
  <2>2. /\ bytes.filled = output.bytes.filled \cup {<<p, part>>}
        /\ output.bytes.dispatchers \subseteq bytes.dispatchers
    BY <2>1, FilledIn
  <2> QED  BY <2>2
<1> HIDE DEF bytes
<1>5. \A va : Ready(va) => Ready(va)'
  <2>1. \A q : Parts(q)' = Parts(q)  BY <1>1, InputIsFixed
  <2> QED  BY <1>3, <1>4, <2>1 DEF Ready, Dispatcher
<1>6. \A va \in Hooked : ~Live(va) /\ ~Live(va)'
  <2>1. Unhooked' /\ Unhooked  BY <1>1, Known DEF IInv, CleanInv
  <2> QED  BY <2>1 DEF Unhooked, Live, Branch
<1>7. outcome = "running" /\ outcome' = "running"  BY <1>1 DEF outcome, IInv, TypeInv
<1>8. Hooked' = Hooked  BY <1>1, InputIsFixed
<1>9. live = {} /\ live' = {}  BY <1>6, <1>8 DEF live
<1>10. ready \subseteq ready' /\ ready' \in SUBSET wanted /\ wanted' = wanted
  BY <1>5, <1>8 DEF ready, wanted
<1> QED  BY <1>7, <1>9, <1>10 DEF Install!Prepare, wanted, ready, live, outcome

\* Writing a branch makes one ready hook live.
LEMMA PatchWindowInstalls ==
  ASSUME IInv, ApartInv, PatchWindow, Continue("windows")
  PROVE  Install!Install \/ UNCHANGED <<wanted, ready, live, outcome>>
<1>1. pc = "windows" /\ UNCHANGED <<input, exit>>  BY DEF PatchWindow, Continue
<1>2. PICK va : va = Sites[k]  OBVIOUS
<1>3. /\ va \in Hooked /\ Live(va)'
      /\ \A w \in Hooked : w # va => (Live(w)' <=> Live(w))
      /\ \A w : Ready(w)' <=> Ready(w)
  BY <1>2, WindowPatched DEF ApartInv
<1>4. CASE Live(va)  BY <1>1, <1>3, <1>4, DoesNotShow
<1>5. CASE ~Live(va)
  <2>1. Hooked' = Hooked  BY <1>1, InputIsFixed
  <2>2. va \in ready \ live  BY <1>1, <1>3, <1>5, AllReady DEF ready, live
  <2>3. live' = live \cup {va}  BY <1>3, <2>1 DEF live
  <2>4. ready' = ready /\ wanted' = wanted  BY <1>3, <2>1 DEF ready, wanted
  <2>5. outcome = "running" /\ outcome' = outcome  BY <1>1 DEF outcome, IInv, TypeInv
  <2> QED  BY <2>2, <2>3, <2>4, <2>5 DEF Install!Install, wanted, ready, live, outcome
<1> QED  BY <1>4, <1>5

\* The end of the run finds every hook live.
LEMMA FinishSucceeds == ASSUME IInv, ApartInv', Finish  PROVE Install!Succeed
<1>1. pc = "windows" /\ exit' = "0" /\ UNCHANGED <<input, output>>  BY DEF Finish
<1>2. \A va \in Hooked : Live(va)
  <2> SUFFICES ASSUME NEW va \in Hooked  PROVE Live(va)
    OBVIOUS
  <2>1. va \in Addresses /\ output.bytes.text[va + 1 - 1] = Branch(va, 1)
    <3>1. /\ va \in Addresses
          /\ \A i \in 1 .. reach'[va] : output'.bytes.text[va + i - 1] = Branch(va, i)
      BY <1>1, InputIsFixed DEF ApartInv, Whole, Branch
    <3>2. 1 \in 1 .. reach'[va]  BY Known DEF Finish
    <3> QED  BY <1>1, <3>1, <3>2
  <2>2. va + 1 - 1 = va  BY <2>1 DEF Addresses
  <2> QED  BY <2>1, <2>2 DEF Live
<1>3. live = wanted  BY <1>2 DEF live, wanted
<1>4. UNCHANGED <<wanted, ready, live>>  BY <1>1, SameBytes, InputIsFixed DEF wanted, ready, live
<1>5. outcome = "running" /\ outcome' = "succeeded"  BY <1>1 DEF outcome, IInv, TypeInv
<1> QED  BY <1>3, <1>4, <1>5 DEF Install!Succeed, wanted, ready, live, outcome

\* Every step is one of HookInstall, or does not show.
LEMMA RefinesNext ==
  IInv /\ IInv' /\ ApartInv /\ ApartInv' /\ [Next]_vars
    => [Install!Next]_<<wanted, ready, live, outcome>>
<1> SUFFICES ASSUME IInv, IInv', ApartInv, ApartInv', [Next]_vars
             PROVE  Install!Next \/ UNCHANGED <<wanted, ready, live, outcome>>
  OBVIOUS
<1>1. ASSUME Start \/ Join \/ Resolve \/ Capture \/ AddSegments \/ BuildCode \/ DirectPatch
             \/ Recapture \/ BuildSites \/ WriteCave \/ PatchWindow,
             NEW stage, Throw(stage)
      PROVE  Install!Fail
  <2>1. pc # "stopped" /\ UNCHANGED input
    BY <1>1 DEF Start, Join, Resolve, Capture, AddSegments, BuildCode, DirectPatch, Recapture,
                BuildSites, WriteCave, PatchWindow
  <2>2. UNCHANGED output
    BY <1>1 DEF Start, Join, Resolve, Capture, AddSegments, BuildCode, DirectPatch, Recapture,
                BuildSites, WriteCave, PatchWindow, Throw, Continue
  <2> QED  BY <1>1, <2>1, <2>2, ThrowFails
<1>2. ASSUME Start \/ Join \/ Resolve \/ Capture \/ AddSegments \/ BuildCode \/ DirectPatch
             \/ Recapture \/ \E p \in Plugins : Compile(p),
             \A stage : ~ Throw(stage)
      PROVE  UNCHANGED <<wanted, ready, live, outcome>>
  <2>1. UNCHANGED input /\ pc \notin {"caves", "windows", "stopped"}
    BY <1>2 DEF Start, Join, Resolve, Capture, AddSegments, BuildCode, DirectPatch, Recapture, Compile
  <2>2. UNCHANGED exit /\ pc' \notin {"caves", "windows", "stopped"}
    BY <1>2 DEF Start, Join, Resolve, Capture, AddSegments, BuildCode, DirectPatch, Recapture, Compile,
                Continue
  <2> QED  BY <2>1, <2>2, PreparationDoesNotShow
<1>3. ASSUME BuildSites \/ CavesWritten, \A stage : ~ Throw(stage)
      PROVE  UNCHANGED <<wanted, ready, live, outcome>>
  <2>1. UNCHANGED <<input, output, exit>>  BY <1>3 DEF BuildSites, CavesWritten, Continue
  <2> QED  BY <2>1, SameBytes, DoesNotShow
<1>4. ASSUME WriteCave, \A stage : ~ Throw(stage)  PROVE Install!Prepare
  <2>1. Continue("caves")  BY <1>4 DEF WriteCave
  <2> QED  BY <1>4, <2>1, WriteCavePrepares
<1>5. ASSUME PatchWindow, \A stage : ~ Throw(stage)
      PROVE  Install!Install \/ UNCHANGED <<wanted, ready, live, outcome>>
  <2>1. Continue("windows")  BY <1>5 DEF PatchWindow
  <2> QED  BY <1>5, <2>1, PatchWindowInstalls
<1>6. ASSUME Finish  PROVE Install!Succeed  BY <1>6, FinishSucceeds
<1>7. ASSUME UNCHANGED vars  PROVE UNCHANGED <<wanted, ready, live, outcome>>
  <2>1. UNCHANGED <<input, output, exit>>  BY <1>7 DEF vars
  <2> QED  BY <2>1, SameBytes, DoesNotShow
<1>8. CASE \E stage : Throw(stage)
  <2>1. pc' = "stopped" /\ exit' = "1"  BY <1>8 DEF Throw
  <2>2. CASE Start \/ Join \/ Resolve \/ Capture \/ AddSegments \/ BuildCode \/ DirectPatch
             \/ Recapture \/ BuildSites \/ WriteCave \/ PatchWindow
    BY <1>1, <1>8, <2>2 DEF Install!Next
  <2>3. CASE CavesWritten  BY <2>1, <2>3 DEF CavesWritten, Continue
  <2>4. CASE Finish  BY <1>6, <2>4 DEF Install!Next
  <2>5. ASSUME NEW p \in Plugins, Compile(p)  PROVE FALSE  BY <2>1, <2>5 DEF Compile
  <2> QED  BY <1>7, <2>2, <2>3, <2>4, <2>5 DEF Next, Main
<1>9. CASE \A stage : ~ Throw(stage)
  BY <1>2, <1>3, <1>4, <1>5, <1>6, <1>7, <1>9 DEF Next, Main, Install!Next
<1> QED  BY <1>8, <1>9

(* The run installs hooks as HookInstall promises, whatever fails and       *)
(* wherever it is stopped.                                                  *)
THEOREM ImplementsHookInstall == Spec /\ HooksApart => InstallsHooks
<1>1. Init => Install!Init  BY RefinesInit
<1>2. IInv /\ IInv' /\ ApartInv /\ ApartInv' /\ [Next]_vars
        => [Install!Next]_<<wanted, ready, live, outcome>>
  BY RefinesNext
<1> QED  BY <1>1, <1>2, ApartInvariant, PTL
         DEF Spec, InstallsHooks, Install!Spec, wanted, ready, live, outcome

-----------------------------------------------------------------------------
(* Runs whose clock tells two writes apart.  The image then follows the     *)
(* file until the caves are written, and what a dispatcher runs is what was *)
(* under its hook after the last patch.                                     *)
Coherent == /\ slot.time <= output.time
            /\ slot.time = output.time /\ slot.time # 0 => slot.bytes = output.bytes

FineInv ==
  /\ ~input.coarse
  /\ pc \notin {"windows", "stopped"} => Coherent
  /\ pc = "sites" => \A va \in Hooked : original[va] = Words(output.bytes.text, va, Len(original[va]))
  /\ pc = "caves" => \A va \in Hooked : original[va] = Words(output.bytes.text, va, reach[va])
  /\ pc = "windows" => \A va \in Hooked : ~Live(va) =>
                         original[va] = Words(output.bytes.text, va, reach[va])

\* A parse keeps the image coherent,
LEMMA CoherentParse ==
  ASSUME IInv, Coherent, ParseBinary
  PROVE  Parsed = output.bytes /\ (UNCHANGED output => Coherent')
<1>1. Parsed = output.bytes  BY DEF Coherent, Parsed, Hit
<1>2. slot' = [bytes |-> output.bytes, size |-> output.size, time |-> output.time]
  <2>1. output = [bytes |-> output.bytes, size |-> output.size, time |-> output.time]
    BY Known DEF FileOK, IsFile
  <2> QED  BY <1>1, <2>1 DEF ParseBinary
<1> QED  BY <1>1, <1>2, Known DEF Coherent

\* and so does a write that the clock tells apart.
LEMMA CoherentWrite ==
  ASSUME IInv, ~input.coarse, Coherent, NEW bytes, NEW size, Write(bytes, size), UNCHANGED slot
  PROVE  Coherent'
<1>1. output'.time > output.time /\ output'.time \in Nat  BY Known, Written
<1>2. slot.time \in Nat  BY Known DEF FileOK
<1> QED  BY <1>1, <1>2, Known DEF Coherent

\* A run starts with a coherent image.
LEMMA InitFine == Init /\ ~input.coarse => FineInv
<1> SUFFICES ASSUME Init, ~input.coarse  PROVE FineInv
  OBVIOUS
<1>1. pc = "start" /\ slot.time = 0 /\ output.time = 0  BY DEF Init, NoFile
<1> QED  BY <1>1 DEF FineInv, Coherent

\* A step of which only the image matters.
LEMMA ImageFine ==
  ASSUME FineInv, UNCHANGED input, pc' \notin {"sites", "caves", "windows"},
         pc' = "stopped" \/ Coherent'
  PROVE  FineInv'
BY DEF FineInv

\* Every step keeps it, and keeps the words of the dispatchers.
LEMMA NextFine == IInv /\ ApartInv /\ FineInv /\ [Next]_vars => FineInv'
<1> SUFFICES ASSUME IInv, ApartInv, FineInv, [Next]_vars  PROVE FineInv'
  OBVIOUS
<1>0. ~input.coarse  BY DEF FineInv
<1>1. ASSUME Start  PROVE FineInv'
  <2>1. pc = "start" /\ UNCHANGED input /\ UNCHANGED slot  BY <1>1 DEF Start
  <2>2. Coherent  BY <2>1 DEF FineInv
  <2>3. CASE Throw("plugins")  BY <2>1, <2>3, ImageFine DEF Throw
  <2>4. CASE Continue("compile") /\ Write(Unpatched, Size(Unpatched))
    BY <1>0, <2>1, <2>2, <2>4, CoherentWrite, ImageFine DEF Continue
  <2> QED  BY <1>1, <2>3, <2>4 DEF Start
<1>2. ASSUME NEW p \in Plugins, Compile(p)  PROVE FineInv'
  <2>1. pc = "compile" /\ pc' = pc /\ UNCHANGED <<input, output, slot>>  BY <1>2 DEF Compile
  <2> QED  BY <2>1, ImageFine DEF FineInv, Coherent
<1>3. ASSUME Join  PROVE FineInv'
  <2>1. pc = "compile" /\ pc' \in {"resolve", "stopped"} /\ UNCHANGED <<input, output, slot>>
    BY <1>3 DEF Join, Throw, Continue
  <2> QED  BY <2>1, ImageFine DEF FineInv, Coherent
<1>4. ASSUME Resolve \/ Capture \/ BuildCode  PROVE FineInv'
  <2>1. pc \in {"resolve", "capture", "build"} /\ pc' \in {"capture", "segments", "direct", "stopped"}
        /\ UNCHANGED <<input, output>> /\ ParseBinary
    BY <1>4 DEF Resolve, Capture, BuildCode, PrepareSites, Throw, Continue
  <2>2. Coherent'  BY <2>1, CoherentParse DEF FineInv
  <2> QED  BY <2>1, <2>2, ImageFine
<1>5. ASSUME AddSegments  PROVE FineInv'
  <2>1. pc = "segments" /\ UNCHANGED input /\ Coherent  BY <1>5 DEF AddSegments, FineInv
  <2>2. CASE Throw("segments")  BY <2>1, <2>2, ImageFine DEF Throw
  <2>3. CASE ParseBinary /\ UNCHANGED output /\ Continue("build")
    BY <2>1, <2>3, CoherentParse, ImageFine DEF Continue
  <2>4. CASE PrimeCache /\ Continue("build") /\ \E bytes : Write(bytes, Size(bytes))
    <3>1. PICK bytes : Write(bytes, Size(bytes))  BY <2>4
    <3>2. output'.time \in Nat  BY <3>1, Known, Written
    <3>3. Coherent'  BY <2>4, <3>2 DEF Coherent, PrimeCache
    <3> QED  BY <2>1, <2>4, <3>3, ImageFine DEF Continue
  <2> QED  BY <1>5, <2>2, <2>3, <2>4 DEF AddSegments
<1>6. ASSUME DirectPatch  PROVE FineInv'
  <2>1. pc = "direct" /\ UNCHANGED <<input, slot>> /\ Coherent  BY <1>6 DEF DirectPatch, FineInv
  <2>2. pc' \in {"direct", "stopped"}  BY <1>6, <2>1 DEF DirectPatch, Throw, Continue
  <2>3. UNCHANGED output \/ WritePatch(Patches[k])  BY <1>6 DEF DirectPatch
  <2>4. CASE UNCHANGED output
    <3>1. Coherent'  BY <2>1, <2>4 DEF Coherent
    <3> QED  BY <2>1, <2>2, <3>1, ImageFine
  <2>5. CASE WritePatch(Patches[k])
    <3>1. Coherent'  BY <1>0, <2>1, <2>5, CoherentWrite DEF WritePatch
    <3> QED  BY <2>1, <2>2, <3>1, ImageFine
  <2> QED  BY <2>3, <2>4, <2>5
<1>7. ASSUME Recapture  PROVE FineInv'
  <2>1. pc = "direct" /\ PrepareSites /\ ParseBinary /\ pc' = "sites" /\ UNCHANGED <<input, output, reach>>
    BY <1>7 DEF Recapture, PrepareSites, Continue
  <2>2. Coherent' /\ Parsed = output.bytes  BY <2>1, CoherentParse DEF FineInv
  <2>3. ASSUME NEW va \in Hooked
        PROVE  original'[va] = Words(output.bytes.text, va, Len(original'[va]))
    <3>1. va \in Addresses  BY <2>1 DEF IInv, WindowInv
    <3>2. 1 \in Readable(va)  BY <3>1 DEF Readable, Addresses
    <3>3. PICK n \in {1, 3, 5} : /\ original'[va] \in [1 .. n -> Word]
                                 /\ original'[va] = Words(Parsed.text, va, n)
      BY <2>1, <3>2, SitesPrepared
    <3>4. Len(original'[va]) = n  BY <3>3, LengthOf
    <3> QED  BY <2>2, <3>3, <3>4
  <2> QED  BY <1>0, <2>1, <2>2, <2>3, InputIsFixed DEF FineInv, Words
<1>8. ASSUME BuildSites  PROVE FineInv'
  <2>1. pc = "sites" /\ UNCHANGED <<input, output, slot, reach>> /\ Coherent
    BY <1>8 DEF BuildSites, FineInv
  <2>2. CASE pc' = "stopped"  BY <2>1, <2>2, ImageFine
  <2>3. CASE pc' # "stopped"
    <3>1. /\ pc' = "caves" /\ ~ \E va \in Hooked : reach[va] > Len(original[va])
          /\ original' = [va \in Hooked |-> SubSeq(original[va], 1, reach[va])]
      BY <1>8, <2>3 DEF BuildSites, Throw, Continue
    <3>2. ASSUME NEW va \in Hooked
          PROVE  original'[va] = Words(output.bytes.text, va, reach[va])
      <4>1. PICK n \in {0, 1, 3, 5} : original[va] \in [1 .. n -> Word]  BY Known DEF OriginalOK
      <4>2. Len(original[va]) = n /\ original[va] \in Seq(Word)  BY <4>1, LengthOf
      <4>3. reach[va] \in Nat /\ reach[va] <= Len(original[va])
        BY <3>1, <4>2, Known
      <4>4. original[va] = Words(output.bytes.text, va, n)  BY <2>1, <4>2 DEF FineInv
      <4>5. \A i \in 1 .. reach[va] : original[va][i] = output.bytes.text[va + i - 1]
        BY <4>2, <4>3, <4>4 DEF Words
      <4>6. /\ original'[va] \in [1 .. reach[va] -> Word]
            /\ \A i \in 1 .. reach[va] : original'[va][i] = original[va][i]
        BY <3>1, <4>2, <4>3, FirstWords
      <4> QED  BY <4>5, <4>6 DEF Words
    <3>3. Coherent'  BY <2>1 DEF Coherent
    <3> QED  BY <1>0, <2>1, <3>1, <3>2, <3>3, InputIsFixed DEF FineInv, Words
  <2> QED  BY <2>2, <2>3
<1>9. ASSUME WriteCave  PROVE FineInv'
  <2>1. pc = "caves" /\ UNCHANGED <<input, slot, reach, original>> /\ Coherent
    BY <1>9 DEF WriteCave, FineInv
  <2>2. CASE Throw("write")  BY <2>1, <2>2, ImageFine DEF Throw
  <2>3. CASE ~ Throw("write")
    <3>1. PICK p, part : Write(Filled(output.bytes, p, part), output.size) /\ Continue("caves")
      BY <1>9, <2>3 DEF WriteCave
    <3>2. pc' = "caves"  BY <3>1 DEF Continue
    <3>3. Coherent'  BY <1>0, <2>1, <3>1, CoherentWrite
    <3>4. output'.bytes = Filled(output.bytes, p, part)  BY <3>1, Known, Written
    <3>5. Filled(output.bytes, p, part).text = output.bytes.text  BY Known, FilledIn
    <3>6. output'.bytes.text = output.bytes.text  BY <3>4, <3>5
    <3> QED  BY <1>0, <2>1, <3>2, <3>3, <3>6, InputIsFixed DEF FineInv, Words
  <2> QED  BY <2>2, <2>3
<1>10. ASSUME CavesWritten  PROVE FineInv'
  <2>1. pc = "caves" /\ pc' = "windows" /\ UNCHANGED <<input, output, reach, original>>
    BY <1>10 DEF CavesWritten, Continue
  <2> QED  BY <1>0, <2>1, InputIsFixed DEF FineInv, Words
<1>11. ASSUME PatchWindow  PROVE FineInv'
  <2>1. pc = "windows" /\ UNCHANGED <<input, reach, original>>  BY <1>11 DEF PatchWindow
  <2>2. CASE Throw("write")  BY <2>1, <2>2, ImageFine DEF Throw
  <2>3. CASE Continue("windows")
    <3>1. pc' = "windows"  BY <2>3 DEF Continue
    <3>2. PICK va : va = Sites[k]  OBVIOUS
    <3>3. /\ Live(va)'
          /\ \A w \in Hooked : w # va =>
               /\ Live(w)' <=> Live(w)
               /\ Words(output.bytes.text, w, reach[w])' = Words(output.bytes.text, w, reach[w])
      BY <1>11, <2>3, <3>2, WindowPatched DEF ApartInv
    <3>4. \A w \in Hooked : ~Live(w)' => original'[w] = Words(output.bytes.text, w, reach[w])'
      BY <2>1, <3>3 DEF FineInv
    <3> QED  BY <1>0, <2>1, <3>1, <3>4, InputIsFixed DEF FineInv
  <2> QED  BY <1>11, <2>2, <2>3 DEF PatchWindow
<1>12. ASSUME Finish  PROVE FineInv'
  BY <1>12, ImageFine DEF Finish
<1>13. ASSUME UNCHANGED vars  PROVE FineInv'
  BY <1>13, InputIsFixed DEF vars, FineInv, Coherent, Words, Live, Branch
<1> QED  BY <1>1, <1>2, <1>3, <1>4, <1>5, <1>6, <1>7, <1>8, <1>9, <1>10, <1>11, <1>12, <1>13
         DEF Next, Main

(* A dispatcher runs the words its branch overwrites: no patch of one of    *)
(* them is lost.                                                            *)
THEOREM WordsAreKept == Spec /\ HooksApart /\ ~input.coarse => OverwrittenIsKept
<1> DEFINE Kept == \A va \in Hooks("detour") : ~Live(va) /\ Live(va)' =>
                     \E c \in Dispatcher(va) : c.original = Words(output.bytes.text, va, reach[va])
<1>1. IInv /\ IInv' /\ ApartInv /\ FineInv /\ [Next]_vars => [Kept]_vars
  <2> SUFFICES ASSUME IInv, IInv', ApartInv, FineInv, Next,
                      NEW va \in Hooks("detour"), ~Live(va), Live(va)'
               PROVE  \E c \in Dispatcher(va) : c.original = Words(output.bytes.text, va, reach[va])
    OBVIOUS
  <2>1. va \in Hooked  BY DEF Hooked
  <2>2. PatchWindow
    <3>1. pc' \in {"windows", "stopped"}
      <4>1. CASE pc' \notin {"windows", "stopped"}
        <5>1. Unhooked'  BY <4>1 DEF IInv, CleanInv
        <5> QED  BY <5>1 DEF Unhooked, Live, Branch
      <4> QED  BY <4>1
    <3>2. output'.bytes # output.bytes
      BY DEF Live, Branch
    <3>3. UNCHANGED output \/ ~ (CavesWritten \/ Finish)  BY DEF CavesWritten, Finish
    <3>4. pc' = "stopped" => ~ (Start \/ Join \/ Resolve \/ Capture \/ AddSegments \/ BuildCode \/ DirectPatch
             \/ Recapture \/ BuildSites \/ WriteCave)
      BY <3>2 DEF Start, Join, Resolve, Capture, AddSegments, BuildCode, DirectPatch, Recapture,
                  BuildSites, WriteCave, Throw, Continue
    <3>5. pc' = "windows" => ~ (Start \/ Join \/ Resolve \/ Capture \/ AddSegments \/ BuildCode \/ DirectPatch
             \/ Recapture \/ BuildSites \/ WriteCave)
      BY DEF Start, Join, Resolve, Capture, AddSegments, BuildCode, DirectPatch, Recapture,
                  BuildSites, WriteCave, Throw, Continue
    <3>6. ASSUME NEW p \in Plugins, Compile(p)  PROVE FALSE  BY <3>2, <3>6 DEF Compile
    <3> QED  BY <3>1, <3>2, <3>3, <3>4, <3>5, <3>6 DEF Next, Main
  <2>3. pc = "windows"  BY <2>2 DEF PatchWindow
  <2>4. original[va] = Words(output.bytes.text, va, reach[va])  BY <2>1, <2>3 DEF FineInv
  <2>5. Called(va)  BY <2>1, <2>3, AllCalled
  <2>6. PICK c \in output.bytes.dispatchers : c.va = va /\ c.original = original[va]
    BY <2>5 DEF Called
  <2> QED  BY <2>4, <2>6 DEF Dispatcher
<1>2. Init /\ HooksApart => ApartInv  BY DEF Init, ApartInv
<1> QED  BY <1>1, <1>2, InitInv, NextInv, NextApart, InitFine, NextFine, PTL DEF Spec, OverwrittenIsKept

-----------------------------------------------------------------------------
(* Patches that start in the program's code end in it: what lies behind it  *)
(* is not in the model.                                                     *)
PatchesFit == \A d \in OfKind({"patch"}) :
                d.action.at \in Addresses =>
                  \A i \in 1 .. d.action.size : d.action.at + i - 1 \in Addresses

Covers(e, a) == a \in e.action.at .. e.action.at + e.action.size - 1

\* A word of a patch is in the code, or under a later patch; or it is one a
\* dispatcher runs, or a replacement does not.
Settled(d, i) ==
  LET a == d.action.at + i - 1
  IN  \/ output.bytes.text[a] = PatchWord(d, i)
      \/ \E e \in OfKind({"patch"}) : Covers(e, a) /\ Before(d, e)
Moved(d, i) ==
  LET a == d.action.at + i - 1
  IN  \E va \in Hooked :
        /\ Live(va) /\ a \in va .. va + reach[va] - 1
        /\ va \in Hooks("replace") \/ original[va][a - va + 1] = PatchWord(d, i)

PatchedInv ==
  /\ PatchesFit
  /\ pc = "direct" => \A n \in 1 .. Len(Patches) :
       n < k /\ Patches[n].action.expected = "none" =>
         /\ Patches[n].action.at \in Addresses
         /\ \A i \in 1 .. Patches[n].action.size : Settled(Patches[n], i)
  /\ pc \in {"sites", "caves", "windows", "stopped"} /\ exit # "1" =>
       \A d \in OfKind({"patch"}) : d.action.expected = "none" =>
         /\ d.action.at \in Addresses
         /\ \A i \in 1 .. d.action.size :
              Settled(d, i) \/ (pc \in {"windows", "stopped"} /\ Moved(d, i))
  /\ pc = "windows" => \A va \in Hooked : Live(va) => Whole(va)

\* Where the words of the file do not change patches stay where they are.
LEMMA SameText ==
  ASSUME UNCHANGED input, output'.bytes.text = output.bytes.text
  PROVE  /\ \A d, i : Settled(d, i)' <=> Settled(d, i)
         /\ UNCHANGED <<original, reach>> => \A d, i : Moved(d, i)' <=> Moved(d, i)
BY InputIsFixed DEF Settled, Moved, Live, Branch, PatchWord, Covers, Before

\* Before the patches, and after a failure, there is nothing to say.
LEMMA ElsewherePatched ==
  ASSUME PatchedInv, UNCHANGED input,
         pc' \notin {"direct", "sites", "caves", "windows", "stopped"}
           \/ (pc' = "stopped" /\ exit' = "1")
  PROVE  PatchedInv'
BY InputIsFixed DEF PatchedInv, PatchesFit, Addresses

\* A patch written covers the words of the earlier ones.
LEMMA PatchSettles ==
  ASSUME IInv, PatchedInv, DirectPatch, Continue("direct"), NEW n \in 1 .. Len(Patches), n < k',
         Patches[n].action.expected = "none"
  PROVE  /\ Patches[n].action.at \in Addresses
         /\ \A i \in 1 .. Patches[n].action.size : Settled(Patches[n], i)'
<1> DEFINE new == Patches[k]
           bytes == Overwrite(output.bytes, new.action.at, PatchWords(new))
<1>1. pc = "direct" /\ k <= Len(Patches) /\ k' = k + 1 /\ UNCHANGED input  BY DEF DirectPatch
<1>2. PICK d : d = Patches[n]  OBVIOUS
<1>3. PICK e : e = Patches[k]  OBVIOUS
<1>4. k \in 1 .. Len(Patches)  BY <1>1, Known, PatchesList
<1>5. /\ d \in OfKind({"patch"}) /\ e \in OfKind({"patch"})
      /\ d \in Declaration /\ e \in Declaration
  BY <1>2, <1>3, <1>4, Known, PatchesList, KindsAreFinite
<1>6. /\ d.action.at \in Nat /\ d.action.size \in Nat
      /\ e.action.at \in Nat /\ e.action.size \in Nat
  BY <1>5 DEF Declaration, Action
<1>7. CASE n = k
  <2>1. e.action.at \in Addresses /\ WritePatch(e)
    <3>1. ~ \E stage : Throw(stage)  BY <1>1 DEF Throw, Continue
    <3>2. e.action.expected = "none"  BY <1>2, <1>3, <1>7
    <3> QED  BY <1>3, <3>1, <3>2 DEF DirectPatch
  <2>2. output'.bytes = Overwrite(output.bytes, e.action.at, PatchWords(e))
    BY <2>1, Known, Written DEF WritePatch
  <2>3. ASSUME NEW i \in 1 .. e.action.size
        PROVE  output'.bytes.text[e.action.at + i - 1] = PatchWord(e, i)
    <3>1. e.action.at + i - 1 \in Addresses  BY <1>5, <2>1 DEF PatchedInv, PatchesFit
    <3>2. (e.action.at + i - 1) - e.action.at + 1 = i  BY <1>6
    <3>3. i \in DOMAIN PatchWords(e) /\ PatchWords(e)[i] = PatchWord(e, i)  BY DEF PatchWords
    <3>4. \A a \in Addresses : output'.bytes.text[a] = IF a - e.action.at + 1 \in DOMAIN PatchWords(e)
                        THEN PatchWords(e)[a - e.action.at + 1] ELSE output.bytes.text[a]
      BY <2>2, Known DEF Overwrite, FileOK, IsFile
    <3> QED  BY <3>1, <3>2, <3>3, <3>4
  <2>4. d = e /\ Patches' = Patches  BY <1>1, <1>2, <1>3, <1>7, InputIsFixed
  <2>5. \A i \in 1 .. d.action.size : Settled(d, i)'  BY <2>3, <2>4 DEF Settled, PatchWord
  <2> QED  BY <1>2, <1>7, <2>1, <2>4, <2>5
<1>8. CASE n # k
  <2>1. n < k  BY <1>1, <1>4, <1>8
  <2>2. d.action.at \in Addresses /\ \A i \in 1 .. d.action.size : Settled(d, i)
    BY <1>1, <1>2, <2>1 DEF PatchedInv
  <2>3. Before(d, e)  BY <1>2, <1>3, <1>4, <2>1, Known, PatchesList
  <2>4. Patches' = Patches /\ OfKind({"patch"})' = OfKind({"patch"})  BY <1>1, InputIsFixed
  <2>5. UNCHANGED output \/ WritePatch(e)  BY <1>3 DEF DirectPatch
  <2>6. ASSUME NEW i \in 1 .. d.action.size  PROVE Settled(d, i)'
    <3> DEFINE a == d.action.at + i - 1
    <3>1. Settled(d, i) /\ a \in Addresses  BY <1>5, <2>2 DEF PatchedInv, PatchesFit
    <3>2. CASE \E g \in OfKind({"patch"}) : Covers(g, a) /\ Before(d, g)
      BY <2>4, <3>2 DEF Settled, Covers, Before
    <3>3. CASE output.bytes.text[a] = PatchWord(d, i) /\ output'.bytes.text[a] = output.bytes.text[a]
      BY <3>3 DEF Settled, PatchWord
    <3>4. CASE output'.bytes.text[a] # output.bytes.text[a]
      <4>1. WritePatch(e)  BY <2>5, <3>4
      <4>2. output'.bytes = Overwrite(output.bytes, e.action.at, PatchWords(e))
        BY <4>1, Known, Written DEF WritePatch
      <4>3. output'.bytes.text[a] = IF a - e.action.at + 1 \in DOMAIN PatchWords(e)
                          THEN PatchWords(e)[a - e.action.at + 1] ELSE output.bytes.text[a]
        BY <3>1, <4>2, Known DEF Overwrite, FileOK, IsFile
      <4>4. a - e.action.at + 1 \in 1 .. e.action.size  BY <3>4, <4>3 DEF PatchWords
      <4>5. Covers(e, a)
        <5>1. a \in Int  BY <1>6
        <5> QED  BY <1>6, <4>4, <5>1 DEF Covers
      <4> QED  BY <1>5, <2>3, <2>4, <4>5 DEF Settled, Covers, Before
    <3> QED  BY <3>1, <3>2, <3>3, <3>4 DEF Settled
  <2> QED  BY <1>2, <2>2, <2>4, <2>6
<1> QED  BY <1>7, <1>8

\* A branch written over a word of a patch has it run from the dispatcher.
LEMMA PatchMoves ==
  ASSUME IInv, ApartInv, FineInv, PatchedInv, PatchWindow, Continue("windows"),
         NEW d \in OfKind({"patch"}), d.action.expected = "none", NEW i \in 1 .. d.action.size
  PROVE  Settled(d, i)' \/ Moved(d, i)'
<1> DEFINE a == d.action.at + i - 1
<1>1. pc = "windows" /\ UNCHANGED <<input, original, reach>>  BY DEF PatchWindow
<1>2. PICK va : va = Sites[k]  OBVIOUS
<1>3. /\ va \in Hooked /\ Live(va)'
      /\ \A w \in Hooked : w # va => (Live(w)' <=> Live(w))
      /\ \A b \in Addresses : b \notin va .. va + reach[va] - 1 =>
           output'.bytes.text[b] = output.bytes.text[b]
  BY <1>2, WindowPatched DEF ApartInv
<1>4. OfKind({"patch"})' = OfKind({"patch"}) /\ Hooked' = Hooked /\ Hooks("replace")' = Hooks("replace")
  BY <1>1, InputIsFixed
<1>5. exit # "1"  BY <1>1 DEF IInv, TypeInv
<1>6. d.action.at \in Addresses /\ (Settled(d, i) \/ Moved(d, i))
  BY <1>1, <1>5 DEF PatchedInv
<1>7. a \in Addresses  BY <1>6 DEF PatchedInv, PatchesFit
<1>8. CASE \E e \in OfKind({"patch"}) : Covers(e, a) /\ Before(d, e)
  BY <1>4, <1>8 DEF Settled, Covers, Before
<1>9. CASE Moved(d, i)
  <2>1. PICK w \in Hooked :
          /\ Live(w) /\ a \in w .. w + reach[w] - 1
          /\ w \in Hooks("replace") \/ original[w][a - w + 1] = PatchWord(d, i)
    BY <1>9 DEF Moved
  <2>2. Live(w)'  BY <1>3, <2>1
  <2> QED  BY <1>1, <1>4, <2>1, <2>2 DEF Moved, PatchWord
<1>10. CASE output.bytes.text[a] = PatchWord(d, i)
  <2>1. CASE a \notin va .. va + reach[va] - 1
    BY <1>3, <1>7, <1>10, <2>1 DEF Settled, PatchWord
  <2>2. CASE a \in va .. va + reach[va] - 1
    <3>1. va \in Nat /\ a \in Nat /\ reach[va] \in {1, 3, 5}
      BY <1>3, <1>7, Known, HookedAreNumbers DEF Addresses
    <3>2. a - va + 1 \in 1 .. reach[va] /\ va + (a - va + 1) - 1 = a  BY <2>2, <3>1
    <3>3. ~Live(va)
      <4>1. Live(va) => output.bytes.text[a] = Branch(va, a - va + 1)
        BY <1>1, <1>3, <3>2 DEF PatchedInv, Whole
      <4> QED  BY <1>10, <4>1 DEF Branch, PatchWord
    <3>4. original[va] = Words(output.bytes.text, va, reach[va])  BY <1>1, <1>3, <3>3 DEF FineInv
    <3>5. original[va][a - va + 1] = output.bytes.text[a]  BY <3>2, <3>4 DEF Words
    <3> QED  BY <1>1, <1>3, <1>4, <1>10, <2>2, <3>5 DEF Moved, PatchWord
  <2> QED  BY <2>1, <2>2
<1> QED  BY <1>6, <1>8, <1>9, <1>10 DEF Settled

\* Every step keeps each patch where its promise allows.
LEMMA NextPatched == IInv /\ ApartInv /\ FineInv /\ PatchedInv /\ [Next]_vars => PatchedInv'
<1> SUFFICES ASSUME IInv, ApartInv, FineInv, PatchedInv, [Next]_vars  PROVE PatchedInv'
  OBVIOUS
<1>0. UNCHANGED input => /\ PatchesFit' /\ Hooked' = Hooked /\ Patches' = Patches
                         /\ OfKind({"patch"})' = OfKind({"patch"})
  BY InputIsFixed DEF PatchedInv, PatchesFit, Addresses
<1>1. ASSUME Start \/ Join \/ Resolve \/ Capture \/ AddSegments \/ \E p \in Plugins : Compile(p)
      PROVE  PatchedInv'
  <2>1. UNCHANGED input /\ (\/ pc' \in {"compile", "resolve", "capture", "segments", "build"}
                            \/ pc' = "stopped" /\ exit' = "1")
    BY <1>1 DEF Start, Join, Resolve, Capture, AddSegments, Compile, Throw, Continue
  <2> QED  BY <2>1, ElsewherePatched
<1>2. ASSUME BuildCode  PROVE PatchedInv'
  <2>1. UNCHANGED input /\ k' = 1 /\ (pc' = "direct" \/ (pc' = "stopped" /\ exit' = "1"))
    BY <1>2 DEF BuildCode, Throw, Continue
  <2>2. CASE pc' = "direct"
    <3>1. \A n \in 1 .. Len(Patches) : ~ (n < k')  BY <2>1, Known, PatchesList
    <3> QED  BY <1>0, <2>1, <2>2, <3>1 DEF PatchedInv
  <2> QED  BY <2>1, <2>2, ElsewherePatched
<1>3. ASSUME DirectPatch  PROVE PatchedInv'
  <2>1. UNCHANGED input /\ (Continue("direct") \/ \E stage : Throw(stage))  BY <1>3 DEF DirectPatch
  <2>2. CASE Continue("direct")
    <3>1. pc' = "direct"  BY <2>2 DEF Continue
    <3>2. \A n \in 1 .. Len(Patches) : n < k' /\ Patches[n].action.expected = "none" =>
            /\ Patches[n].action.at \in Addresses
            /\ \A i \in 1 .. Patches[n].action.size : Settled(Patches[n], i)'
      BY <1>3, <2>2, PatchSettles
    <3> QED  BY <1>0, <2>1, <3>1, <3>2 DEF PatchedInv, Addresses, Settled, PatchWord, Covers, Before
  <2>3. CASE \E stage : Throw(stage)  BY <2>1, <2>3, ElsewherePatched DEF Throw
  <2> QED  BY <2>1, <2>2, <2>3
<1>4. ASSUME Recapture  PROVE PatchedInv'
  <2>1. pc = "direct" /\ k > Len(Patches) /\ pc' = "sites" /\ UNCHANGED <<input, output>>
    BY <1>4 DEF Recapture, Continue
  <2>2. ASSUME NEW d \in OfKind({"patch"}), d.action.expected = "none"
        PROVE  d.action.at \in Addresses /\ \A i \in 1 .. d.action.size : Settled(d, i)
    <3>1. PICK n \in 1 .. Len(Patches) : Patches[n] = d  BY Known, PatchesList
    <3>2. n < k  BY <2>1, Known, PatchesList
    <3> QED  BY <2>1, <2>2, <3>1, <3>2 DEF PatchedInv
  <2>3. \A d, i : Settled(d, i)' <=> Settled(d, i)  BY <2>1, SameText
  <2> QED  BY <1>0, <2>1, <2>2, <2>3 DEF PatchedInv, Addresses
<1>5. ASSUME BuildSites \/ WriteCave  PROVE PatchedInv'
  <2>1. pc \in {"sites", "caves"} /\ UNCHANGED input /\ (pc' = "caves" \/ (pc' = "stopped" /\ exit' = "1"))
    BY <1>5 DEF BuildSites, WriteCave, Throw, Continue
  <2>2. CASE pc' = "caves"
    <3>1. output'.bytes.text = output.bytes.text
      <4>1. CASE UNCHANGED output  BY <4>1
      <4>2. CASE ~ UNCHANGED output
        <5>1. PICK p, part : Write(Filled(output.bytes, p, part), output.size)
          BY <1>5, <4>2 DEF BuildSites, WriteCave
        <5>2. output'.bytes = Filled(output.bytes, p, part)  BY <5>1, Known, Written
        <5>3. Filled(output.bytes, p, part).text = output.bytes.text  BY Known, FilledIn
        <5> QED  BY <5>2, <5>3
      <4> QED  BY <4>1, <4>2
    <3>2. \A d, i : Settled(d, i)' <=> Settled(d, i)  BY <2>1, <3>1, SameText
    <3>3. exit # "1"  BY <2>1 DEF IInv, TypeInv
    <3> QED  BY <1>0, <2>1, <2>2, <3>2, <3>3 DEF PatchedInv, Addresses
  <2> QED  BY <2>1, <2>2, ElsewherePatched
<1>6. ASSUME CavesWritten  PROVE PatchedInv'
  <2>1. pc = "caves" /\ pc' = "windows" /\ UNCHANGED <<input, output>>
    BY <1>6 DEF CavesWritten, Continue
  <2>2. \A d, i : Settled(d, i)' <=> Settled(d, i)  BY <2>1, SameText
  <2>3. exit # "1"  BY <2>1 DEF IInv, TypeInv
  <2>4. \A va \in Hooked : ~Live(va)'
    <3>1. \A va \in Hooked : ~Live(va)  BY <2>1, Known, NoneLive
    <3> QED  BY <2>1, <3>1, SameBytes
  <2> QED  BY <1>0, <2>1, <2>2, <2>3, <2>4 DEF PatchedInv, Addresses
<1>7. ASSUME PatchWindow  PROVE PatchedInv'
  <2>1. pc = "windows" /\ UNCHANGED input  BY <1>7 DEF PatchWindow
  <2>2. CASE Throw("write")  BY <2>1, <2>2, ElsewherePatched DEF Throw
  <2>3. CASE Continue("windows")
    <3>1. pc' = "windows"  BY <2>3 DEF Continue
    <3>2. \A d \in OfKind({"patch"}) : d.action.expected = "none" =>
            /\ d.action.at \in Addresses
            /\ \A i \in 1 .. d.action.size : Settled(d, i)' \/ Moved(d, i)'
      <4>1. exit # "1"  BY <2>1 DEF IInv, TypeInv
      <4> QED  BY <1>7, <2>1, <2>3, <4>1, PatchMoves DEF PatchedInv
    <3>3. \A va \in Hooked : Live(va)' => Whole(va)'
      <4>1. PICK va : va = Sites[k]  OBVIOUS
      <4>2. Whole(va)' /\ \A w \in Hooked : w # va => (Whole(w)' <=> Whole(w)) /\ (Live(w)' <=> Live(w))
        BY <1>7, <2>3, <4>1, WindowPatched DEF ApartInv
      <4> QED  BY <2>1, <4>2 DEF PatchedInv
    <3> QED  BY <1>0, <2>1, <3>1, <3>2, <3>3 DEF PatchedInv, Addresses
  <2> QED  BY <1>7, <2>2, <2>3 DEF PatchWindow
<1>8. ASSUME Finish  PROVE PatchedInv'
  <2>1. pc = "windows" /\ pc' = "stopped" /\ UNCHANGED <<input, output, original, reach>>
    BY <1>8 DEF Finish
  <2>2. \A d, i : (Settled(d, i)' <=> Settled(d, i)) /\ (Moved(d, i)' <=> Moved(d, i))
    BY <2>1, SameText
  <2>3. exit # "1"  BY <2>1 DEF IInv, TypeInv
  <2> QED  BY <1>0, <2>1, <2>2, <2>3 DEF PatchedInv, Addresses
<1>9. ASSUME UNCHANGED vars  PROVE PatchedInv'
  <2>1. UNCHANGED <<input, output, pc, k, exit, original, reach>>  BY <1>9 DEF vars
  <2>2. \A d, i : (Settled(d, i)' <=> Settled(d, i)) /\ (Moved(d, i)' <=> Moved(d, i))
    BY <2>1, SameText
  <2>3. \A va : (Live(va)' <=> Live(va)) /\ (Whole(va)' <=> Whole(va))
    BY <2>1 DEF Live, Whole, Branch
  <2> QED  BY <1>0, <2>1, <2>2, <2>3 DEF PatchedInv, Addresses
<1> QED  BY <1>1, <1>2, <1>3, <1>4, <1>5, <1>6, <1>7, <1>8, <1>9 DEF Next, Main

InProgram(d, i) ==
  LET a == d.action.at + i - 1
  IN  \/ output.bytes.text[a] = PatchWord(d, i)
      \/ \E c \in output.bytes.dispatchers :
           /\ a \in c.va .. c.va + Len(c.original) - 1
           /\ c.va \in Hooks("replace") \/ c.original[a - c.va + 1] = PatchWord(d, i)
      \/ \E e \in OfKind({"patch"}) : Covers(e, a) /\ Before(d, e)

(* A patch that expects nothing is in the program of a run that succeeds:   *)
(* in place, run by a dispatcher, or under a later patch or a replacement.  *)
THEOREM PatchesAreApplied ==
  Spec /\ HooksApart /\ ~input.coarse /\ PatchesFit => []PatchesApplied
<1>1. IInv /\ ApartInv /\ PatchedInv => PatchesApplied
  <2> SUFFICES ASSUME IInv, ApartInv, PatchedInv, exit = "0", NEW d \in OfKind({"patch"}),
                      d.action.expected = "none", NEW i \in 1 .. d.action.size
               PROVE  InProgram(d, i)
    BY DEF PatchesApplied, Covers, InProgram
  <2>1. pc = "stopped"  BY DEF IInv, TypeInv
  <2>2. Settled(d, i) \/ Moved(d, i)  BY <2>1 DEF PatchedInv
  <2>3. CASE Settled(d, i)  BY <2>3 DEF Settled, InProgram
  <2>4. CASE Moved(d, i)
    <3> DEFINE a == d.action.at + i - 1
    <3>1. PICK va \in Hooked :
            /\ a \in va .. va + reach[va] - 1
            /\ va \in Hooks("replace") \/ original[va][a - va + 1] = PatchWord(d, i)
      BY <2>4 DEF Moved
    <3>2. Called(va) /\ Len(original[va]) = reach[va]  BY DEF ApartInv
    <3>3. PICK c \in output.bytes.dispatchers : c.va = va /\ c.original = original[va]
      BY <3>2 DEF Called
    <3> QED  BY <3>1, <3>2, <3>3 DEF InProgram
  <2> QED  BY <2>2, <2>3, <2>4
<1>2. Init /\ HooksApart => ApartInv  BY DEF Init, ApartInv
<1>3. Init /\ PatchesFit => PatchedInv  BY DEF Init, PatchedInv
<1> QED  BY <1>1, <1>2, <1>3, InitInv, NextInv, NextApart, InitFine, NextFine, NextPatched, PTL DEF Spec
=============================================================================
