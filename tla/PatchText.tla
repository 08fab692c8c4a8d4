----------------------------- MODULE PatchText ------------------------------
(***************************************************************************)
(* The texts of patch_asm, once the plugin they name is built and placed.  *)
(* Names the plugin registers become addresses                             *)
(* (normalize_registered_labels, src/src/compiler.cpp), addresses become   *)
(* distances from the line they are in (normalize_absolute_branches), the  *)
(* text is assembled and laid over the code of the file, if that is what   *)
(* the patch expects (standard_pipeline, src/src/pipeline.cpp).            *)
(*                                                                         *)
(* A text is the statements normalize_asm_text cuts it into.  A statement  *)
(* goes to a number or to a name; a word is what it does and by how far.   *)
(***************************************************************************)
EXTENDS PluginRelocs

CONSTANTS Wide  \* numbers from here on are addresses in any file: 2^32

VARIABLES k,        \* the patch that is next
          code,     \* the words of the file's code, by address
          applied   \* what was written, and over what

patchVars == <<k, code, applied>>

Word == [op: STRING, by: Int]
Statement == [op: {"plain", "data", "label", "comment", "b", "bcond", "cbz", "tbz", "adrp", "low", "adrl"},
              labelled: BOOLEAN, name: STRING, number: Int, words: Seq(Word)]

ASSUME TextAssumption ==
  /\ Wide \in Nat
  /\ \A i \in Inputs : \A n \in DOMAIN i.patches :
       {i.patches[n].text, i.patches[n].expected} \subseteq Seq(Statement)

Branching == {"b", "bcond"}
Comparing == {"cbz", "tbz"}
Going == Branching \cup Comparing \cup {"adrp"}

Patch == input.patches[k]

-----------------------------------------------------------------------------
(* The names a text may use.                                                *)
DataSymbols == [name \in DOMAIN input.globals |->
              DataVa + SectionOffset[SectionNumber(input.globals[name].section)] + input.globals[name].value]

\* A function with register arguments is called through its wrapper.
Targets ==
  [name \in DOMAIN functions \cup DOMAIN DataSymbols |->
     IF name \in DOMAIN input.wrappers THEN input.wrappers[name]
     ELSE IF name \in DOMAIN functions THEN input.textVa + functions[name] ELSE DataSymbols[name]]

\* An ADRL becomes two instructions; the comparing branches are not looked at.
Rewritten(s) ==
  IF s.name \notin DOMAIN Targets \/ s.op \notin Branching \cup {"adrp", "low", "adrl"} THEN <<s>>
  ELSE LET to  == [s EXCEPT !.name = "", !.number = Targets[s.name]]
           low == [to EXCEPT !.op = "low", !.number = Targets[s.name] % PageSize]
       IN  CASE s.op = "low" -> <<low>>
             [] s.op = "adrl" -> <<[to EXCEPT !.op = "adrp"], [low EXCEPT !.labelled = FALSE]>>
             [] OTHER -> <<to>>

WithAddresses(body) == FlattenSeq([i \in DOMAIN body |-> Rewritten(body[i])])

-----------------------------------------------------------------------------
(* AsmVaRange: what is in the file, the caves included, but for its first   *)
(* page.  Other numbers are distances, unless they are too wide for one.    *)
Spans == {s \in input.target.spans : s.size > 0}
Lowest == IF \E s \in Spans : \A t \in Spans : s.va <= t.va /\ s.va >= PageSize
          THEN (CHOOSE s \in Spans : \A t \in Spans : s.va <= t.va).va ELSE PageSize
IsAbsolute(n) == n >= Wide \/ (n >= Lowest /\ \E s \in Spans : n <= s.va + s.size)

\* How far the rewriting counts a line: it does not know how much data a
\* directive is, and takes a comment for an instruction.
CountedAll(s) == 4  \* mutant: a label alone counts
Counted(s) == IF s.op \in {"label", "data"} THEN 0 ELSE 4

CountedTo(body, i) == FoldLeft(LAMBDA sum, s : sum + Counted(s), 0, SubSeq(body, 1, i - 1))

Distance(op, from, to) == IF op = "adrp" THEN PageOf(to) - PageOf(from) ELSE to - from

WithDistances(body, address) ==
  [i \in DOMAIN body |->
     LET s == body[i]
     IN  IF /\ s.name = "" /\ s.op \in Going /\ IsAbsolute(s.number)
            /\ s.op \in Comparing => ~s.labelled
         THEN [s EXCEPT !.number = Distance(s.op, address + CountedTo(body, i), s.number)]
         ELSE s]

-----------------------------------------------------------------------------
(* The assembler: an instruction is one word, a directive its data.         *)
SizeOf(s) == CASE s.op \in {"label", "comment"} -> 0 [] s.op = "data" -> 4 * Len(s.words) [] s.op = "adrl" -> 8 [] OTHER -> 4
PlaceOf(body, i) == FoldLeft(LAMBDA sum, s : sum + SizeOf(s), 0, SubSeq(body, 1, i - 1))

HasLabel(body, name) == \E i \in DOMAIN body : body[i].op = "label" /\ body[i].name = name
LabelPlace(body, name) == PlaceOf(body, CHOOSE i \in DOMAIN body : body[i].op = "label" /\ body[i].name = name)

By(body, i) == IF body[i].name # "" THEN LabelPlace(body, body[i].name) - PlaceOf(body, i) ELSE body[i].number

ReachOf(op) == CASE op = "b" -> Reach26 [] op \in {"bcond", "cbz"} -> Reach19 [] op = "tbz" -> Reach14 [] op = "adrp" -> ReachPages

\* A name that is no label of the text stays unresolved.
Assembles(body) ==
  /\ PlaceOf(body, Len(body) + 1) > 0
  /\ \A i \in DOMAIN body : body[i].op # "label" =>
       /\ body[i].name # "" => body[i].op \in Branching \cup Comparing /\ HasLabel(body, body[i].name)
       /\ body[i].op \in Going =>
            /\ By(body, i) % (IF body[i].op = "adrp" THEN PageSize ELSE 4) = 0
            /\ Within(0, By(body, i), ReachOf(body[i].op))

Encoded(body, i) == CASE body[i].op \in {"label", "comment"} -> <<>>
                      [] body[i].op = "data" -> body[i].words
                      [] body[i].op \in Going -> <<[op |-> body[i].op, by |-> By(body, i)]>>
                      [] OTHER -> <<[op |-> body[i].op, by |-> body[i].number]>>

Normal(body) == WithDistances(WithAddresses(body), Patch.address)
Payload(body) == LET normal == Normal(body) IN FlattenSeq([i \in DOMAIN normal |-> Encoded(normal, i)])

-----------------------------------------------------------------------------
(* The patches, in their order.                                             *)
PInit == Init /\ k = 1 /\ code = input.target.code /\ applied = <<>>

Patching == pc = "done" /\ k <= Len(input.patches)
There(n) == {Patch.address + 4 * i : i \in 0 .. n - 1}
InCode(n) == There(n) \subseteq DOMAIN code
Present(n) == [i \in 1 .. n |-> code[Patch.address + 4 * (i - 1)]]

Acceptable ==
  /\ Assembles(Normal(Patch.text))
  /\ InCode(Len(Payload(Patch.text)))
  /\ Patch.expected # <<>> => /\ Assembles(Normal(Patch.expected))
                              /\ Len(Payload(Patch.expected)) = Len(Payload(Patch.text))

AsExpected == Patch.expected # <<>> => Present(Len(Payload(Patch.text))) = Payload(Patch.expected)

ApplyPatch ==
  /\ Patching /\ Acceptable /\ AsExpected
  /\ LET words == Payload(Patch.text)
     IN  /\ code' = [a \in DOMAIN code |-> IF a \in There(Len(words)) THEN words[(a - Patch.address) \div 4 + 1] ELSE code[a]]
         /\ applied' = Append(applied, [patch |-> k, words |-> words, over |-> Present(Len(words))])
  /\ k' = k + 1 /\ UNCHANGED vars

\* A warning, and on to the next patch.
MismatchPatch == /\ Patching /\ Acceptable /\ ~AsExpected
                 /\ k' = k + 1 /\ UNCHANGED <<vars, code, applied>>

RefusePatch == Patching /\ ~Acceptable /\ Fail("error") /\ UNCHANGED patchVars

PNext == (Next /\ UNCHANGED patchVars) \/ ApplyPatch \/ MismatchPatch \/ RefusePatch

PSpec == PInit /\ [][PNext]_<<vars, patchVars>>

-----------------------------------------------------------------------------
(* What a text says, from the text and the source of the plugin alone.      *)
Provided(name) == name \in DOMAIN input.globals \/ name \in {h.name : h \in Handlers} \cup {input.parts[p].name : p \in 2 .. Len(input.parts)}

MeantName(name) ==
  IF name \in DOMAIN input.wrappers THEN input.wrappers[name]
  ELSE IF name \in DOMAIN input.globals THEN SectionAt(input.globals[name].section) + input.globals[name].value
  ELSE FunctionAt(name)

\* Where statement i of a text at an address goes: an address, or none if it
\* is a distance already.
Goes(body, i) == body[i].name # "" \/ IsAbsolute(body[i].number)
MeantGoal(body, address, i) ==
  IF body[i].name = "" THEN body[i].number
  ELSE IF Provided(body[i].name) THEN MeantName(body[i].name) ELSE address + LabelPlace(body, body[i].name)

MeantWords(body, address, i) ==
  LET s    == body[i]
      at   == address + PlaceOf(body, i)
      goal == MeantGoal(body, address, i)
      page == [op |-> "adrp", by |-> PageOf(goal) - PageOf(at)]
      low  == [op |-> "low", by |-> goal % PageSize]
  IN  CASE s.op \in {"label", "comment"} -> <<>>
        [] s.op = "data" -> s.words
        [] s.op = "adrl" -> <<page, low>>
        [] s.op = "adrp" /\ Goes(body, i) -> <<page>>
        [] s.op = "low" /\ s.name # "" -> <<low>>
        [] s.op \in Going /\ Goes(body, i) -> <<[op |-> s.op, by |-> goal - at]>>
        [] OTHER -> <<[op |-> s.op, by |-> s.number]>>

\* What the rewriting counts right: before an address there is no data and no
\* comment, and before the mnemonic of a comparing branch no label.
Countable(body, i) ==
  body[i].op \in Going \cup {"adrl"} /\ Goes(body, i) /\ (body[i].name = "" \/ Provided(body[i].name)) =>
    /\ \A j \in 1 .. i - 1 : body[j].op \notin {"data", "comment"}
    /\ body[i].op \in Comparing => ~body[i].labelled

Says(words, body, address) ==
  (\A i \in DOMAIN body : Countable(body, i)) =>
    words = FlattenSeq([i \in DOMAIN body |-> MeantWords(body, address, i)])

(* A patch that is written does what its text says at the address it is     *)
(* written to: every branch and address in it arrives at the function, the  *)
(* wrapper, the datum or the address it names, wherever the cave came to    *)
(* be; and what it replaces is what it expects there, read the same way.    *)
PatchesArrive ==
  \A n \in DOMAIN applied :
    LET p == input.patches[applied[n].patch]
    IN  /\ Says(applied[n].words, p.text, p.address)
        /\ p.expected # <<>> => Says(applied[n].over, p.expected, p.address)
=============================================================================
