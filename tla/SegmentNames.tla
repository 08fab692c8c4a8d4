--------------------------- MODULE SegmentNames ----------------------------
(***************************************************************************)
(* The names of the plugins' sections (make_plugin_seg_name,               *)
(* make_plugin_data_seg_name, has_plugin_segment and their callers,        *)
(* src/src/pipeline.cpp).  Every plugin with hooks gets a name for its     *)
(* code and, if it has writable data, one for its data, from its own name  *)
(* or from the prefix it asks for; a name already given gets a hash.       *)
(*                                                                         *)
(* A name is a sequence of symbols; "_data" counts as two, a hash as one.  *)
(* The hash is any function: nothing is assumed of its collisions.         *)
(***************************************************************************)
EXTENDS Integers, Sequences, FiniteSets, SequencesExt, Ordered

CONSTANTS MaxName,   \* symbols a name may have
          Hash(_),   \* sha1_hex3
          Lower(_),  \* ::tolower
          Words      \* symbols that stay in a name

DataSuffix == <<"_", "data">>
HashSuffix(name) == <<"_", Hash(name)>>
DataHashSuffix(name) == <<"_", "d", Hash(name)>>

ASSUME NamesAssumption == MaxName \in Nat /\ MaxName > 3

VARIABLES input, pc,             \* the plugins and the file are of the input
          codeNames, dataNames,  \* by plugin; <<>> is none
          used

given == <<codeNames, dataNames, used>>

Plugins == 1 .. Len(input.plugins)
NextPlugin == Len(codeNames) + 1
Cut(name, n) == SubSeq(name, 1, IF Len(name) < n THEN Len(name) ELSE n)

NamesInit == pc = "name" /\ codeNames = <<>> /\ dataNames = <<>> /\ used = {}

-----------------------------------------------------------------------------
\* Runs of other symbols become one underscore, those at the ends go, and what
\* is left is in lower case and not too long.
Stripped(name) ==
  LET kept == {n \in DOMAIN name : name[n] # "_"}
  IN  IF kept = {} THEN <<>>
      ELSE SubSeq(name, CHOOSE n \in kept : \A m \in kept : n <= m, CHOOSE n \in kept : \A m \in kept : m <= n)

Requested(plugin) ==
  LET raw   == IF plugin.prefix = <<>> THEN plugin.name ELSE plugin.prefix
      heads == Ascending({n \in DOMAIN raw : raw[n] \in Words \/ n = 1 \/ raw[n - 1] \in Words})
      words == [n \in DOMAIN heads |-> IF raw[heads[n]] \in Words THEN Lower(raw[heads[n]]) ELSE "_"]
      base  == Stripped(words)
  IN  Cut(IF base = <<>> THEN <<"armcave">> ELSE base, MaxName)

CodeNameLong(plugin) ==  \* mutant: no room is made for the hash
  LET base == Requested(plugin) IN IF base \in used THEN base \o HashSuffix(plugin.name) ELSE base

CodeName(plugin) ==
  LET base   == Requested(plugin)
      suffix == HashSuffix(plugin.name)
  IN  IF base \in used THEN Cut(base, MaxName - Len(suffix)) \o suffix ELSE base

DataName(code, taken) ==
  LET name   == Cut(code, MaxName - Len(DataSuffix)) \o DataSuffix
      suffix == DataHashSuffix(code)
  IN  IF name \in taken THEN Cut(code, MaxName - Len(suffix)) \o suffix ELSE name

\* The code names of all the plugins and their data names go into one set, and
\* a name that is still taken ends the run.
NamePluginUnchecked ==  \* mutant: the name with the hash is not looked up
  /\ pc = "name" /\ NextPlugin \in Plugins
  /\ LET plugin == input.plugins[NextPlugin]
         code   == CodeName(plugin)
         data   == DataName(code, used \cup {code})
     IN  /\ codeNames' = Append(codeNames, code)
         /\ dataNames' = Append(dataNames, IF plugin.data # 0 THEN data ELSE <<>>)
         /\ used' = used \cup {code} \cup (IF plugin.data # 0 THEN {data} ELSE {})
  /\ UNCHANGED <<input, pc>>

NamePlugin ==
  /\ pc = "name" /\ NextPlugin \in Plugins
  /\ LET plugin == input.plugins[NextPlugin]
         code   == CodeName(plugin)
         data   == DataName(code, used \cup {code})
     IN  IF code \in used \/ (plugin.data # 0 /\ data \in used \cup {code})
         THEN pc' = "failed" /\ UNCHANGED <<codeNames, dataNames, used>>
         ELSE /\ codeNames' = Append(codeNames, code)
              /\ dataNames' = Append(dataNames, IF plugin.data # 0 THEN data ELSE <<>>)
              /\ used' = used \cup {code} \cup (IF plugin.data # 0 THEN {data} ELSE {})
              /\ UNCHANGED pc
  /\ UNCHANGED input

\* An input that was patched before is refused.
NamesOf(file) == {file[j].name : j \in DOMAIN file}
                 \cup UNION {{s.name : s \in ToSet(file[j].sections)} : j \in DOMAIN file}

CheckFile ==
  /\ pc = "name" /\ NextPlugin \notin Plugins
  /\ pc' = IF \E i \in Plugins : {codeNames[i], dataNames[i]} \cap NamesOf(input.segments) # {}
           THEN "failed" ELSE "named"
  /\ UNCHANGED <<input, given>>

-----------------------------------------------------------------------------
NamesTyped ==
  /\ Len(codeNames) = Len(dataNames) /\ Len(codeNames) <= Len(input.plugins)
  /\ \A i \in DOMAIN codeNames : /\ Len(codeNames[i]) \in 1 .. MaxName
                                 /\ Len(dataNames[i]) \in 0 .. MaxName
                                 /\ dataNames[i] # <<>> <=> input.plugins[i].data # 0

\* The sections that have a name: of code, or of data.
Given == {g \in {"code", "data"} \X DOMAIN codeNames : g[1] = "data" => dataNames[g[2]] # <<>>}
NameOf(g) == IF g[1] = "code" THEN codeNames[g[2]] ELSE dataNames[g[2]]

(* No two sections have one name, of code or of data, of one plugin or of   *)
(* two, whatever the hashes are; and a run that goes on has no section of a *)
(* name the file has, so none of an earlier run is taken for it.            *)
Distinct ==
  /\ \A g, h \in Given : NameOf(g) = NameOf(h) => g = h
  /\ pc \notin {"name", "failed"} => \A g \in Given : NameOf(g) \notin NamesOf(input.segments)
=============================================================================
