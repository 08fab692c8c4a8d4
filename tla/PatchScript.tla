---------------------------- MODULE PatchScript ----------------------------
(***************************************************************************)
(* From a command line to the plugins that are compiled: a patch script is *)
(* read line by line (load_patch_script, src/src/patch_script.cpp), a      *)
(* plugin is generated for each of its hooks in a temporary directory      *)
(* (run_patch_script, src/src/pipeline.cpp), and the plugins found in a    *)
(* directory are chosen by the two lists of the command line and run       *)
(* (run_pipeline).  What standard_pipeline does then is module Pipeline.   *)
(*                                                                         *)
(* A name is a number, its place in the order of names.  Keys that mean    *)
(* the same are one key; comments and quotes are left out.                 *)
(***************************************************************************)
EXTENDS Integers, Sequences, FiniteSets, Ordered

CONSTANTS Inputs,     \* command lines, with the files they find
          MainName,   \* main.cpp
          ScriptName(_)  \* patch_script_N.cpp

\* A script is run without lists.  Each of its plugins has a name of its own,
\* and a plugin comes from a header, so there are no more of them than lines.
InputsAssumption ==
  \A i \in Inputs :
    /\ Len(i.lines) \in Nat /\ DOMAIN i.lines = 1 .. Len(i.lines)
    /\ IsFiniteSet(i.entries) /\ \A e \in i.entries : e.name \in Int
    /\ i.script \in BOOLEAN /\ (i.script => i.white = {} /\ i.black = {})
    /\ \A m, n \in 1 .. Len(i.lines) :
         ScriptName(m) \in Int /\ (ScriptName(m) = ScriptName(n) => m = n)
ASSUME InputsAssumption

VARIABLES input, pc,
          line, section,       \* of the script
          script,              \* PatchScript
          generated,           \* the temporary directory: none, or its entries
          selected,            \* what run_pipeline runs
          output,              \* whether the output is as it was
          result

vars == <<input, pc, line, section, script, generated, selected, output, result>>

NoHook == [kind |-> "replace", function |-> "", signature |-> "", class |-> "", selector |-> "",
           source |-> "", handler |-> "replacement", registers |-> ""]

Init == /\ input \in Inputs
        /\ pc = IF input.script THEN "read" ELSE "select"
        /\ line = 1 /\ section = "" /\ selected = <<>> /\ output = "old" /\ result = "running"
        /\ script = [binary |-> "", output |-> "", plugins |-> "", hooks |-> <<>>]
        /\ generated = <<>>

-----------------------------------------------------------------------------
(* Reading the script.                                                      *)
Line == input.lines[line]
Reading == pc = "read" /\ line <= Len(input.lines)

\* A throw before there is a temporary directory ends the process.
Refuse == /\ pc' = "stopped" /\ result' = "failed"
          /\ UNCHANGED <<input, line, section, script, generated, selected, output>>

HeaderCarried ==  \* mutant: a hook starts with the values of the one before it
  /\ Reading /\ Line.kind \in {"target", "hook"}
  /\ section' = Line.kind
  /\ script' = IF Line.kind = "hook"
               THEN [script EXCEPT !.hooks = Append(@, IF @ = <<>> THEN NoHook ELSE @[Len(@)])] ELSE script
  /\ line' = line + 1
  /\ UNCHANGED <<input, pc, generated, selected, output, result>>
Header ==
  /\ Reading /\ Line.kind \in {"target", "hook"}
  /\ section' = Line.kind
  /\ script' = IF Line.kind = "hook" THEN [script EXCEPT !.hooks = Append(@, NoHook)] ELSE script
  /\ line' = line + 1
  /\ UNCHANGED <<input, pc, generated, selected, output, result>>

SetSwapped(hook) ==  \* mutant: the file is taken for the kind
  CASE Line.key \in {"replace", "detour"} -> [hook EXCEPT !.kind = Line.value, !.source = Line.key]
    [] Line.key \in DOMAIN hook \ {"kind"} -> [hook EXCEPT ![Line.key] = Line.value]
    [] OTHER -> hook
Set(hook) ==
  CASE Line.key \in {"replace", "detour"} -> [hook EXCEPT !.kind = Line.key, !.source = Line.value]
    [] Line.key \in DOMAIN hook \ {"kind"} -> [hook EXCEPT ![Line.key] = Line.value]
    [] OTHER -> hook

\* A key that its section does not know, or before any section, is ignored.
Assignment ==
  /\ Reading /\ Line.kind = "assignment"
  /\ script' = CASE section = "target" /\ Line.key \in {"binary", "output", "plugins"} ->
                      [script EXCEPT ![Line.key] = Line.value]
                 [] section = "hook" -> [script EXCEPT !.hooks[Len(script.hooks)] = Set(@)]
                 [] OTHER -> script
  /\ line' = line + 1
  /\ UNCHANGED <<input, pc, section, generated, selected, output, result>>

InvalidLine == Reading /\ Line.kind = "other" /\ Refuse

Targeted(hook) == hook.function # "" \/ hook.signature # "" \/ (hook.class # "" /\ hook.selector # "")
Sound == script.binary # "" /\ script.hooks # <<>>
         /\ \A n \in DOMAIN script.hooks : script.hooks[n].source # "" /\ Targeted(script.hooks[n])

ScriptRead ==
  /\ pc = "read" /\ line > Len(input.lines) /\ Sound
  /\ script' = IF script.output = "" THEN [script EXCEPT !.output = "default"] ELSE script
  /\ pc' = "generate" /\ generated' = <<{}>>
  /\ UNCHANGED <<input, line, section, selected, output, result>>

UnsoundScript == pc = "read" /\ line > Len(input.lines) /\ ~Sound /\ Refuse

-----------------------------------------------------------------------------
(* Finding plugins: a file is one, and a directory that has a source.       *)
Found(entries) == {e \in entries : e.directory => e.sources # {}}
Names(entries) == {e.name : e \in Found(entries)}

\* The file compiled for a directory.
DirMain(e) == IF e.name \in e.sources THEN e.name
              ELSE IF MainName \in e.sources THEN MainName
              ELSE CHOOSE s \in e.sources : \A t \in e.sources : s <= t
Plugin(e) == [name |-> e.name, main |-> IF e.directory THEN DirMain(e) ELSE e.name,
              declares |-> e.declares]

Duplicates(entries) == Cardinality(Names(entries)) < Cardinality(Found(entries))
Discovered(entries) == {Plugin(e) : e \in Found(entries)}

\* They are taken in the order of their names.
ByName(plugins) == {e \in plugins \X plugins : e[1].name < e[2].name}

-----------------------------------------------------------------------------
(* A failure from here on still removes the directory.                      *)
Throw == /\ pc' = IF input.script THEN "cleanup" ELSE "stopped"
         /\ result' = "failed"
         /\ UNCHANGED <<input, line, section, script, generated, selected>>

\* The text that is generated for a hook: its source is included, and one
\* declaration is made, with the first name that is given.
Declaration(hook) ==
  [source |-> hook.source, kind |-> hook.kind, handler |-> hook.handler, registers |-> hook.registers,
   at |-> IF hook.class # "" /\ hook.selector # ""
          THEN [call |-> "objc_method", names |-> <<hook.class, hook.selector>>]
          ELSE IF hook.signature # "" THEN [call |-> "signature", names |-> <<hook.signature>>]
          ELSE [call |-> "symbol", names |-> <<hook.function>>]]

HookFile(n) == [name |-> ScriptName(n), directory |-> FALSE, sources |-> {}, declares |-> Declaration(script.hooks[n])]
Generated == Cardinality(generated[1])
Staged == script.plugins # "" /\ Generated = 0

\* The script's own plugins are copied to directories that nobody makes, and
\* the failure of a copy is ignored: none arrives.
StageFails == pc = "generate" /\ Staged /\ Duplicates(input.entries) /\ Throw /\ UNCHANGED output

GenerateHook ==
  /\ pc = "generate" /\ ~(Staged /\ Duplicates(input.entries))
  /\ Generated < Len(script.hooks)
  /\ script.hooks[Generated + 1].source \in input.files
  /\ generated' = <<generated[1] \cup {HookFile(Generated + 1)}>>
  /\ UNCHANGED <<input, pc, line, section, script, selected, output, result>>

GenerateFails ==
  /\ pc = "generate" /\ ~(Staged /\ Duplicates(input.entries)) /\ Generated < Len(script.hooks)
  /\ Throw /\ UNCHANGED output

AllGenerated ==
  /\ pc = "generate" /\ Generated = Len(script.hooks)
  /\ pc' = "select"
  /\ UNCHANGED <<input, line, section, script, generated, selected, output, result>>

-----------------------------------------------------------------------------
(* run_pipeline.                                                            *)
Entries == IF input.script THEN generated[1] ELSE input.entries

\* An item of a list: a name, or a name with an extension, which is no plugin's.
Listed(list, p) == [name |-> p.name, extension |-> FALSE] \in list
Chosen(p) == /\ input.white # {} => Listed(input.white, p)
             /\ input.black # {} => ~Listed(input.black, p)
Selection == LET chosen == {p \in Discovered(Entries) : Chosen(p)} IN InOrder(chosen, ByName(chosen))

SelectPlugins ==
  /\ pc = "select" /\ ~Duplicates(Entries) /\ Selection # <<>>
  /\ pc' = "run" /\ selected' = Selection
  /\ UNCHANGED <<input, line, section, script, generated, output, result>>

NoPlugins == pc = "select" /\ (Duplicates(Entries) \/ Selection = <<>>) /\ Throw /\ UNCHANGED output

Copy == /\ pc = "run" /\ output = "old"
        /\ output' = "copy"
        /\ UNCHANGED <<input, pc, line, section, script, generated, selected, result>>

\* There may be no input to copy.
CopyFails == pc = "run" /\ output = "old" /\ Throw /\ UNCHANGED output

\* standard_pipeline throws, finds nothing to do, or is done.
PatchFails == pc = "run" /\ output = "copy" /\ Throw /\ UNCHANGED output
Patch == /\ pc = "run" /\ output = "copy"
         /\ pc' = IF input.script THEN "cleanup" ELSE "stopped"
         /\ output' = "patched" /\ result' = "done"
         /\ UNCHANGED <<input, line, section, script, generated, selected>>

CleanupDone ==  \* mutant: only after a run that succeeded
  /\ pc = "cleanup"
  /\ pc' = "stopped" /\ generated' = IF result = "done" THEN <<>> ELSE generated
  /\ UNCHANGED <<input, line, section, script, selected, output, result>>

\* remove_all is taken to succeed: the code does not look at its error.
Cleanup ==
  /\ pc = "cleanup"
  /\ pc' = "stopped" /\ generated' = <<>>
  /\ UNCHANGED <<input, line, section, script, selected, output, result>>

Next == \/ Header \/ Assignment \/ InvalidLine \/ ScriptRead \/ UnsoundScript
        \/ StageFails \/ GenerateHook \/ GenerateFails \/ AllGenerated
        \/ SelectPlugins \/ NoPlugins \/ Copy \/ CopyFails \/ Patch \/ PatchFails \/ Cleanup

Spec == Init /\ [][Next]_vars

-----------------------------------------------------------------------------
TypeOK ==
  /\ pc \in {"read", "generate", "select", "run", "cleanup", "stopped"}
  /\ line \in 1 .. Len(input.lines) + 1 /\ section \in {"", "target", "hook"}
  /\ \A n \in DOMAIN script.hooks : /\ DOMAIN script.hooks[n] = DOMAIN NoHook
                                   /\ script.hooks[n].kind \in {"replace", "detour"}
  /\ Len(generated) \in {0, 1}
  /\ output \in {"old", "copy", "patched"} /\ result \in {"running", "done", "failed"}
  /\ (pc \in {"cleanup", "stopped"}) <=> (result # "running")

\* The hook headers of the script, and the lines that belong to each.
Headers == Ascending({n \in DOMAIN input.lines : input.lines[n].kind = "hook"})
Given(h, keys) == {n \in h + 1 .. Len(input.lines) :
                     /\ input.lines[n].kind = "assignment" /\ input.lines[n].key \in keys
                     /\ \A m \in h + 1 .. n : input.lines[m].kind = "assignment"}
LastOf(h, keys, default) == IF Given(h, keys) = {} THEN default
                            ELSE input.lines[CHOOSE n \in Given(h, keys) : \A m \in Given(h, keys) : m <= n]
Value(h, keys, default) == LastOf(h, keys, [value |-> default]).value

\* What is written below a header: the last value of each key before the next
\* header, or what stands for it.
Written(h) ==
  [kind      |-> LastOf(h, {"replace", "detour"}, [key |-> "replace"]).key,
   source    |-> Value(h, {"replace", "detour", "source"}, ""),
   function  |-> Value(h, {"function"}, ""),
   signature |-> Value(h, {"signature"}, ""),
   class     |-> Value(h, {"class"}, ""),
   selector  |-> Value(h, {"selector"}, ""),
   handler   |-> Value(h, {"handler"}, "replacement"),
   registers |-> Value(h, {"registers"}, "")]

\* The declaration d hooks what was written, with what was written.
Declares(d, written) ==
  /\ d.source = written.source /\ d.kind = written.kind
  /\ d.handler = written.handler /\ d.registers = written.registers
  /\ \/ d.at = [call |-> "objc_method", names |-> <<written.class, written.selector>>]
        /\ "" \notin {written.class, written.selector}
     \/ d.at = [call |-> "signature", names |-> <<written.signature>>] /\ written.signature # ""
     \/ d.at = [call |-> "symbol", names |-> <<written.function>>] /\ written.function # ""

\* A script compiles one plugin for each of its hooks, which includes the source
\* and declares the one hook written between that hook's header and the next, by
\* its method, its signature or its function, with its handler and registers: no
\* value goes to another hook, and no hook is left out.
EachHookIsRun ==
  input.script =>
    /\ Len(selected) = Len(Headers)
    /\ \A n \in DOMAIN Headers : \E i \in DOMAIN selected :
         selected[i].name = ScriptName(n) /\ Declares(selected[i].declares, Written(Headers[n]))

\* Names are without an extension here.  A plugin whose name is on the blacklist
\* is never run, on a whitelist or not; with a whitelist only those whose name is
\* on it are; and none is run twice, a file and a directory of the same name
\* included.  Items with an extension name no plugin: see FilenamesCount.
ListsKept ==
  \A i \in DOMAIN selected :
    /\ [name |-> selected[i].name, extension |-> FALSE] \notin input.black
    /\ input.white # {} => [name |-> selected[i].name, extension |-> FALSE] \in input.white
    /\ \A j \in DOMAIN selected : selected[i].name = selected[j].name => i = j

\* A run that succeeds has run the plugins it was asked for, and no other.
PluginsAsAsked == result = "done" => EachHookIsRun /\ ListsKept

\* The temporary directory is gone when the process ends, whichever step failed,
\* the removal itself excepted; and nothing touches the output before all the
\* plugins are known.
LeavesNothing ==
  /\ pc = "stopped" => generated = <<>>
  /\ selected = <<>> => output = "old"

\* "`plugin_whitelist` and `plugin_blacklist` accept comma-separated plugin
\* filenames." (docs/configuration-and-diagnostics.md:22-23): a file whose
\* filename, with its extension, is on the blacklist is not run.  run_pipeline
\* compares the items with names that have none (src/src/pipeline.cpp:1018-1021).
FilenamesCount ==
  \A i \in DOMAIN selected :
    (\E e \in input.entries : ~e.directory /\ e.name = selected[i].name)
      => [name |-> selected[i].name, extension |-> TRUE] \notin input.black
=============================================================================
