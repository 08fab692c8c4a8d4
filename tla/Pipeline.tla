------------------------------ MODULE Pipeline ------------------------------
(***************************************************************************)
(* One run of the patcher (run_pipeline and standard_pipeline,             *)
(* src/src/pipeline.cpp, called by main.cpp): the input is copied to the   *)
(* output, the plugins are compiled by a thread each, their declarations   *)
(* become direct patches and hook sites, a segment per plugin is added,    *)
(* the patches are written, the words under each hook are read, the        *)
(* dispatchers are built and the segments written, and last each hooked    *)
(* address is overwritten with a branch to its dispatcher.  The file is    *)
(* read through the image of BinaryCache and written in place.             *)
(*                                                                         *)
(* Code is counted in instructions.  An address of the program is its      *)
(* offset; a word is the tuple that says where it comes from.              *)
(***************************************************************************)
EXTENDS BinaryCache, Ordered, SequencesExt

CONSTANTS TextEnd,    \* the program's code is at 1 .. TextEnd
          Inputs      \* the inputs: plugins, the segments already in the file, and
                      \* whether the clock may give two writes the same time

Addresses == 1 .. TextEnd

Kinds == {"patch", "detour", "replace", "function"}
Faults == {"none", "address", "handler", "assembly", "relocation", "instruction"}

\* One declaration of a plugin: where, how many words a patch has, which words
\* it expects there, whether it names a label of the plugin, and the step of
\* the run at which it turns out to be wrong.
Action == [kind: Kinds, at: Nat, size: Nat, expected: {"none", "code", "other", "size"},
           label: BOOLEAN, fault: Faults]
Plugin == [segment: STRING, data: BOOLEAN, actions: Seq(Action)]

ASSUME PipelineAssumption ==
  /\ TextEnd \in Nat \ {0}
  /\ Inputs \subseteq [plugins: Seq(Plugin), segments: SUBSET STRING, coarse: BOOLEAN]
  /\ \A i \in Inputs : IsFiniteSet(i.segments)

VARIABLES input, pc, k,
          worker,     \* what became of each compiler thread
          original,   \* by hook: the words captured from under it
          reach,      \* by hook: the words its branch to the dispatcher takes
          content,    \* the dispatchers built, not yet written
          error, warned,
          exit        \* the status the process ends with

vars == <<output, slot, input, pc, k, worker, original, reach, content, error, warned, exit>>

-----------------------------------------------------------------------------
(* What the declarations come to.                                           *)
Plugins == 1 .. Len(input.plugins)

\* Every declaration with its plugin, and their order: that of the plugins.
Declared(p) == {[plugin |-> p, index |-> i, action |-> input.plugins[p].actions[i]] :
                  i \in DOMAIN input.plugins[p].actions}
All == UNION {Declared(p) : p \in Plugins}
Before(d, e) == d.plugin < e.plugin \/ (d.plugin = e.plugin /\ d.index < e.index)
Earlier == {e \in All \X All : Before(e[1], e[2])}

OfKind(kinds) == {d \in All : d.action.kind \in kinds}
Faulty(fault) == \E d \in All : d.action.fault = fault

Patches == InOrder(OfKind({"patch"}), Earlier)
HandlersOf(va) == {d \in OfKind({"detour", "replace"}) : d.action.at = va}
HandlersFirst(va) == SubSeq(InOrder(HandlersOf(va), Earlier), 1, 1)  \* mutant
Handlers(va) == InOrder(HandlersOf(va), Earlier)
Hooks(kind) == {d.action.at : d \in OfKind({kind})}
Hooked == Hooks("detour") \cup Hooks("replace")
Owner(va) == Handlers(va)[1].plugin

\* The order of the std::maps: detours, then replacements, by address.
Sites == Ascending(Hooks("detour")) \o Ascending(Hooks("replace"))

\* A plugin gets a segment unless all it does is patch words in place.
HasHooks(p) == \E d \in Declared(p) : d.action.kind # "patch" \/ d.action.label
Parts(p) == IF input.plugins[p].data THEN {"code", "data"} ELSE {"code"}
WithHooks == {p \in Plugins : HasHooks(p)}
Caves == Ascending(WithHooks)
Segments == {input.plugins[p].segment : p \in WithHooks}

-----------------------------------------------------------------------------
(* The file: the program's words, its segments, and what they hold.         *)
Code(a) == <<"code", a>>
PatchWord(d, i) == <<"patch", d.plugin, d.index, i>>
Branch(va, i) == <<"hook", va, i>>

Unpatched == [text |-> [a \in Addresses |-> Code(a)], segments |-> input.segments,
              filled |-> {}, dispatchers |-> {}]
Size(bytes) == Cardinality(bytes.segments)
Write(bytes, size) == WriteAt(bytes, size, input.coarse)

Words(text, at, n) == [i \in 1 .. n |-> text[at + i - 1]]
Overwrite(bytes, at, words) ==
  [bytes EXCEPT !.text = [a \in Addresses |-> IF a - at + 1 \in DOMAIN words THEN words[a - at + 1]
                                              ELSE bytes.text[a]]]

\* kMaxHookWindow, or what a nearer branch needs, if that much is readable.
ReadableShort(va) == {n \in {1, 2, 4} : va + n - 1 \in Addresses}  \* mutant: one word less
Readable(va) == {n \in {1, 3, 5} : va \in Addresses /\ va + n - 1 \in Addresses}
Captured(bytes, va) == LET n == CHOOSE n \in Readable(va) : \A m \in Readable(va) : m <= n
                       IN  Words(bytes.text, va, n)

-----------------------------------------------------------------------------
(* An exception leaves standard_pipeline and run_pipeline; main returns 1.  *)
Throw(stage) == pc' = "stopped" /\ error' = stage /\ exit' = "1"
Continue(next) == pc' = next /\ UNCHANGED <<error, exit>>

Init ==
  /\ input \in Inputs
  /\ pc = "start" /\ k = 1
  /\ output = NoFile(Unpatched) /\ slot = NoFile(Unpatched)
  /\ worker = [p \in Plugins |-> "running"]
  /\ original = [va \in Hooked |-> <<>>] /\ reach = [va \in Hooked |-> 1] /\ content = {}
  /\ error = "none" /\ warned = FALSE /\ exit = "none"

Start ==
  /\ pc = "start"
  /\ IF input.plugins = <<>>
     THEN Throw("plugins") /\ UNCHANGED output
     ELSE Continue("compile") /\ Write(Unpatched, Size(Unpatched))
  /\ UNCHANGED <<slot, input, k, worker, original, reach, content, warned>>

Compile(p) ==
  /\ pc = "compile" /\ worker[p] = "running"
  /\ \E result \in {"compiled", "failed"} : worker' = [worker EXCEPT ![p] = result]
  /\ UNCHANGED <<output, slot, input, pc, k, original, reach, content, error, warned, exit>>

JoinCompiled ==  \* mutant: waits for every plugin to compile
  /\ pc = "compile" /\ \A p \in Plugins : worker[p] = "compiled"
  /\ IF All = {} THEN Throw("actions") ELSE Continue("resolve")
  /\ UNCHANGED <<output, slot, input, k, worker, original, reach, content, warned>>

Join ==
  /\ pc = "compile" /\ \A p \in Plugins : worker[p] # "running"
  /\ IF \E p \in Plugins : worker[p] = "failed" THEN Throw("compile")
     ELSE IF All = {} THEN Throw("actions")
     ELSE Continue("resolve")
  /\ UNCHANGED <<output, slot, input, k, worker, original, reach, content, warned>>

Resolve ==
  /\ pc = "resolve"
  /\ ParseBinary
  /\ IF Faulty("address") THEN Throw("address")
     ELSE IF Segments \cap Parsed.segments # {} THEN Throw("conflict")
     ELSE Continue("capture")
  /\ UNCHANGED <<output, input, k, worker, original, reach, content, warned>>

\* prepare_sites
PrepareSites ==
  /\ ParseBinary
  /\ original' = [va \in Hooked |-> IF Readable(va) = {} THEN <<>> ELSE Captured(Parsed, va)]

Capture ==
  /\ pc = "capture"
  /\ PrepareSites
  /\ IF \E va \in Hooked : Readable(va) = {} THEN Throw("window")
     ELSE IF Hooks("detour") \cap Hooks("replace") # {} THEN Throw("overlap")
     ELSE IF Faulty("handler") THEN Throw("handler")
     ELSE Continue("segments")
  /\ UNCHANGED <<output, input, k, worker, reach, content, warned>>

\* The addresses of the segments are known from here on.  The writer may
\* refuse the file, or not open it, before it writes.  That the write of the
\* whole file stops short is left out: BinaryImage::write never looks
\* (src/src/binary_image.cpp:1545-1553), so the run goes on with a file that
\* was cut.
AddSegments ==
  /\ pc = "segments"
  /\ IF Caves = <<>> THEN ParseBinary /\ UNCHANGED output
          /\ Continue("build") /\ reach' \in [Hooked -> {1, 3, 5}]
     ELSE \/ /\ LET bytes == [output.bytes EXCEPT !.segments = @ \cup Segments]
                IN  Write(bytes, Size(bytes))
             /\ PrimeCache
             /\ Continue("build") /\ reach' \in [Hooked -> {1, 3, 5}]
          \/ Throw("segments") /\ UNCHANGED <<output, slot, reach>>
  /\ UNCHANGED <<input, k, worker, original, content, warned>>

BuildCode ==
  /\ pc = "build"
  /\ ParseBinary
  /\ IF Faulty("relocation") THEN Throw("relocation") ELSE Continue("direct")
  /\ k' = 1
  /\ UNCHANGED <<output, input, worker, original, reach, content, warned>>

Matches(d) ==
  /\ d.action.expected = "code"
  /\ \A a \in d.action.at .. d.action.at + d.action.size - 1 : output.bytes.text[a] = Code(a)

PatchWords(d) == [i \in 1 .. d.action.size |-> PatchWord(d, i)]
WritePatch(d) == Write(Overwrite(output.bytes, d.action.at, PatchWords(d)), output.size)

DirectPatchStops ==  \* mutant: a mismatch ends the loop
  /\ pc = "direct" /\ k <= Len(Patches)
  /\ LET d == Patches[k]
     IN  IF d.action.expected # "none" /\ ~Matches(d)
         THEN Continue("direct") /\ UNCHANGED output /\ warned' = TRUE /\ k' = Len(Patches) + 1
         ELSE Continue("direct") /\ WritePatch(d) /\ UNCHANGED warned /\ k' = k + 1
  /\ UNCHANGED <<slot, input, worker, original, reach, content>>

\* The next patch: what it expects is compared with the file itself.
DirectPatch ==
  /\ pc = "direct" /\ k <= Len(Patches)
  /\ LET d == Patches[k]
     IN  IF d.action.fault = "assembly" THEN Throw("assembly") /\ UNCHANGED <<output, warned>>
         ELSE IF d.action.expected = "size" THEN Throw("expected size") /\ UNCHANGED <<output, warned>>
         ELSE IF d.action.at \notin Addresses THEN Throw("unmapped") /\ UNCHANGED <<output, warned>>
         ELSE IF d.action.expected # "none" /\ ~Matches(d)
         THEN Continue("direct") /\ UNCHANGED output /\ warned' = TRUE
         ELSE \/ Continue("direct") /\ WritePatch(d) /\ UNCHANGED warned
              \/ Throw("write") /\ UNCHANGED <<output, warned>>
  /\ k' = k + 1
  /\ UNCHANGED <<slot, input, worker, original, reach, content>>

RecaptureNothing ==  \* mutant: keeps the words captured before the patches
  /\ pc = "direct" /\ k > Len(Patches)
  /\ Continue("sites")
  /\ UNCHANGED <<output, slot, input, k, worker, original, reach, content, warned>>

Recapture ==
  /\ pc = "direct" /\ k > Len(Patches)
  /\ PrepareSites
  /\ Continue("sites")
  /\ UNCHANGED <<output, input, k, worker, reach, content, warned>>

\* build_sites: the words captured are cut to the window the branch needs.
BuildSites ==
  /\ pc = "sites"
  /\ IF \E va \in Hooked : reach[va] > Len(original[va])
     THEN Throw("reach") /\ UNCHANGED <<original, content>>
     ELSE IF Faulty("instruction") THEN Throw("instruction") /\ UNCHANGED <<original, content>>
     ELSE /\ Continue("caves")
          /\ original' = [va \in Hooked |-> SubSeq(original[va], 1, reach[va])]
          /\ content' = {[va |-> va, handlers |-> Handlers(va), original |-> original'[va]] : va \in Hooked}
  /\ k' = 1
  /\ UNCHANGED <<output, slot, input, worker, reach, warned>>

Filled(bytes, p, part) ==
  [bytes EXCEPT !.filled = @ \cup {<<p, part>>},
                !.dispatchers = IF part = "code" THEN @ \cup {c \in content : Owner(c.va) = p} ELSE @]

WriteCaveOfOwners ==  \* mutant: forgets the plugins that own no site
  /\ pc = "caves" /\ k <= Len(Caves)
  /\ LET p == Caves[k]
     IN  IF \E va \in Hooked : Owner(va) = p
         THEN Write(Filled(Filled(output.bytes, p, "code"), p, "data"), output.size)
         ELSE UNCHANGED output
  /\ k' = k + 1
  /\ UNCHANGED <<slot, input, pc, worker, original, reach, content, error, warned, exit>>

\* The code of the next plugin, then its data.
WriteCave ==
  /\ pc = "caves" /\ k <= Len(Caves)
  /\ LET p    == Caves[k]
         left == {part \in Parts(p) : <<p, part>> \notin output.bytes.filled}
         part == IF "code" \in left THEN "code" ELSE "data"
     IN  \/ /\ Write(Filled(output.bytes, p, part), output.size)
            /\ k' = IF left = {part} THEN k + 1 ELSE k
            /\ Continue("caves")
         \/ Throw("write") /\ UNCHANGED <<output, k>>
  /\ UNCHANGED <<slot, input, worker, original, reach, content, warned>>

CavesWritten ==
  /\ pc = "caves" /\ k > Len(Caves)
  /\ RefreshStamp
  /\ Continue("windows") /\ k' = 1
  /\ UNCHANGED <<output, input, worker, original, reach, content, warned>>

PatchWindowChecked ==  \* mutant: refuses a word changed since the first capture
  /\ pc = "windows" /\ k <= Len(Sites)
  /\ LET va == Sites[k]
         branch == [i \in 1 .. reach[va] |-> Branch(va, i)]
     IN  IF \E i \in 1 .. reach[va] : original[va][i] # Code(va + i - 1)
         THEN Throw("changed") /\ UNCHANGED output
         ELSE Continue("windows") /\ Write(Overwrite(output.bytes, va, branch), output.size)
  /\ k' = k + 1
  /\ UNCHANGED <<slot, input, worker, original, reach, content, warned>>

PatchWindow ==
  /\ pc = "windows" /\ k <= Len(Sites)
  /\ LET va == Sites[k]
         branch == [i \in 1 .. reach[va] |-> Branch(va, i)]
     IN  \/ Continue("windows") /\ Write(Overwrite(output.bytes, va, branch), output.size)
         \/ Throw("write") /\ UNCHANGED output
  /\ k' = k + 1
  /\ UNCHANGED <<slot, input, worker, original, reach, content, warned>>

Finish ==
  /\ pc = "windows" /\ k > Len(Sites)
  /\ pc' = "stopped" /\ exit' = "0"
  /\ UNCHANGED <<output, slot, input, k, worker, original, reach, content, error, warned>>

Main == Start \/ Join \/ Resolve \/ Capture \/ AddSegments \/ BuildCode \/ DirectPatch
        \/ Recapture \/ BuildSites \/ WriteCave \/ CavesWritten \/ PatchWindow \/ Finish

Next == Main \/ \E p \in Plugins : Compile(p)

Spec == Init /\ [][Next]_vars

\* The process runs until it ends, and every compiler it starts returns.
FairSpec == Spec /\ WF_vars(Main) /\ WF_vars(\E p \in Plugins : Compile(p))

-----------------------------------------------------------------------------
Live(va) == va \in Addresses /\ output.bytes.text[va] = Branch(va, 1)
Dispatcher(va) == {c \in output.bytes.dispatchers : c.va = va}
Ready(va) == \E c \in Dispatcher(va) : \A h \in ToSet(c.handlers) :
               {h.plugin} \X Parts(h.plugin) \subseteq output.bytes.filled

Word == {Code(a) : a \in Addresses}
        \cup {Branch(va, i) : va \in Hooked, i \in 1 .. 5}
        \cup UNION {{PatchWord(d, i) : i \in 1 .. d.action.size} : d \in OfKind({"patch"})}

TypeOK ==
  /\ input \in Inputs /\ k \in Nat
  /\ pc \in {"start", "compile", "resolve", "capture", "segments", "build", "direct", "sites",
             "caves", "windows", "stopped"}
  /\ worker \in [Plugins -> {"running", "compiled", "failed"}]
  /\ \A file \in {output, slot} : /\ DOMAIN file.bytes.text = Addresses
                                 /\ \A a \in Addresses : file.bytes.text[a] \in Word
                                 /\ file.size \in Nat /\ file.time \in Nat
  /\ DOMAIN original = Hooked /\ reach \in [Hooked -> {1, 3, 5}]
  /\ \A va \in Hooked : \E n \in {0, 1, 3, 5} : original[va] \in [1 .. n -> Word]
  /\ exit \in {"none", "0", "1"} /\ warned \in BOOLEAN
  /\ (exit = "none") = (pc # "stopped") /\ (error # "none") = (exit = "1")

(* A run that succeeds has every hooked address lead, by a whole branch, to *)
(* a dispatcher that calls exactly the handlers declared for it, in the     *)
(* order of the plugins and of their declarations.                          *)
CallsHandlers ==
  exit = "0" => \A va \in Hooked :
    /\ \A i \in 1 .. reach[va] : output.bytes.text[va + i - 1] = Branch(va, i)
    /\ \E c \in Dispatcher(va) :
         LET called == [n \in DOMAIN c.handlers |-> <<c.handlers[n].plugin, c.handlers[n].index>>]
         IN  /\ ToSet(called) = UNION {{<<p, i>> : i \in {j \in DOMAIN input.plugins[p].actions :
                                    /\ input.plugins[p].actions[j].kind \in {"detour", "replace"}
                                    /\ input.plugins[p].actions[j].at = va}} : p \in Plugins}
             /\ \A m, n \in DOMAIN called : m < n =>
                  \/ called[m][1] < called[n][1]
                  \/ called[m][1] = called[n][1] /\ called[m][2] < called[n][2]

(* The words a detour's branch overwrites are the words its dispatcher      *)
(* runs instead: no patch of one of them is lost on the way.                *)
OverwrittenIsKept ==
  [][\A va \in Hooks("detour") : ~Live(va) /\ Live(va)' =>
       \E c \in Dispatcher(va) : c.original = Words(output.bytes.text, va, reach[va])]_vars

(* A patch that expects nothing is in the program of a run that succeeds:   *)
(* in place, in the words a dispatcher runs, or under a later patch or a    *)
(* replacement.                                                             *)
PatchesApplied ==
  exit = "0" => \A d \in OfKind({"patch"}) : d.action.expected = "none" =>
    \A i \in 1 .. d.action.size :
      LET a == d.action.at + i - 1
          Covers(e) == a \in e.action.at .. e.action.at + e.action.size - 1
      IN  \/ output.bytes.text[a] = PatchWord(d, i)
          \/ \E c \in output.bytes.dispatchers :
               /\ a \in c.va .. c.va + Len(c.original) - 1
               /\ c.va \in Hooks("replace") \/ c.original[a - c.va + 1] = PatchWord(d, i)
          \/ \E e \in OfKind({"patch"}) :
               /\ Covers(e)
               /\ Before(d, e)

(* A run that fails before it has any segment to fill leaves the output a   *)
(* copy of the input; and short of a failing write, a run that fails at any *)
(* step has no hook live: nothing is left to go wrong once the first hooked *)
(* address is overwritten.  The write of the whole file does not fail here  *)
(* (see AddSegments).                                                       *)
FailsCleanly ==
  /\ error \in {"plugins", "compile", "actions", "address", "conflict", "window", "overlap",
                "handler", "segments"} => output.bytes = Unpatched
  /\ exit = "1" /\ error # "write" => \A va \in Hooked : ~Live(va)

(* The run ends, whichever compiler fails and whatever is wrong.            *)
Terminates == <>(exit # "none")

\* The run installs hooks: the abstract specification it implements.
Install == INSTANCE HookInstall WITH
  wanted  <- Hooked,
  ready   <- {va \in Hooked : Ready(va)},
  live    <- {va \in Hooked : Live(va)},
  outcome <- CASE exit = "none" -> "running" [] exit = "0" -> "succeeded" [] OTHER -> "failed"

(* At no step, and so wherever the process may be killed, does a hooked     *)
(* address lead to a dispatcher or a handler that is not in the file, and   *)
(* only a run that installed every hook succeeds.                           *)
InstallsHooks == Install!Spec
=============================================================================
