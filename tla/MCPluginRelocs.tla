-------------------------- MODULE MCPluginRelocs ---------------------------
(***************************************************************************)
(* Plugins of a C++ object and up to two assembly functions.  A branch     *)
(* reaches 64 bytes, a page address four pages of 32: f is near the cave,  *)
(* g is in reach of ADRP only, h is farther.  The patched code is below    *)
(* the caves; nothing of the file is above 2100.                           *)
(***************************************************************************)
EXTENDS PatchText

Symbol(kind, name, section, value) == [kind |-> kind, name |-> name, section |-> section, value |-> value]
Outside(name) == Symbol("outside", name, "", 0)
R(type, address, sym) == [type |-> type, address |-> address, scale |-> 1, addend |-> 0, sym |-> sym]
Scaled(type, address, sym) == [R(type, address, sym) EXCEPT !.scale = 4]
A(address, addend) == [R("addend", address, Outside("")) EXCEPT !.addend = addend]
Pair(hi, lo, sym) == <<R(hi, 4, sym), R(lo, 0, sym)>>

Local == Symbol("own", "local", "__text", 4)
Datum == Symbol("own", "datum", "data", 4)

CppRelocs ==
  {<<R("branch", 0, Outside(n))>> : n \in {"f", "g", "h", "i"}}
  \cup {<<R("branch", 4, s)>> : s \in {Local, Outside("h"), Symbol("va", "va", "", 900), Outside("nowhere"), Symbol("absolute", "absolute", "", 900)}}
  \cup {<<A(4, 8), R("branch", 4, s)>> : s \in {Local, Outside("h")}}
  \cup {<<A(4, 8), R("page", 4, Datum), A(0, 8), Scaled("pageoff", 0, Datum)>>,
        <<A(4, 8), R("branch", 0, Local)>>, <<A(4, 8)>>, <<R("branch", 400, Local)>>}
  \cup {Pair("page", "pageoff", Datum), Pair("page", "pageoff", Symbol("anonymous", "", "const", 0)),
        Pair("gotpage", "gotoff", Symbol("data", "data", "", 580)), Pair("gotpage", "gotoff", Outside("f")),
        Pair("gotpage", "ptrgot", Outside("f")), Pair("page", "pageoff", Symbol("own", "unwind", "unwind", 0)),
        <<R("gotpage", 4, Symbol("data", "data", "", 3000))>>, <<Scaled("pageoff", 0, Symbol("data", "data", "", 582))>>,
        <<R("pointer", 0, Datum)>>, <<R("pointer", 0, Symbol("anonymous", "", "data", 0))>>,
        <<R("pointer", 76, Local)>>, <<R("other", 0, Local)>>}

AsmRelocs == {<<>>, Pair("page", "pageoff", Local), <<R("branch", 0, Outside("s"))>>, <<R("branch", 0, Outside("t"))>>,
              <<R("branch", 0, Outside("handler"))>>, <<R("branch", 0, Outside("f"))>>,
              <<R("branch", 0, Symbol("absolute", "absolute", "", 900))>>,
              <<A(4, 4), R("page", 4, Outside("global")), A(0, 4), R("pageoff", 0, Outside("global"))>>}

Globals == "global" :> [section |-> "data", value |-> 0]
Sections == <<[key |-> "const", size |-> 12], [key |-> "data", size |-> 8]>>
FileOf(macho) == [macho |-> macho, functions |-> [n \in {"f", "i"} |-> IF n = "f" THEN 540 ELSE 560],
                  stubs |-> [n \in {"f", "g", "h"} |-> CASE n = "f" -> 532 [] n = "g" -> 600 [] n = "h" -> 2000],
                  slots |-> [n \in {"f"} |-> 484],
                  spans |-> {[va |-> 0, size |-> 0], [va |-> 384, size |-> 400], [va |-> 900, size |-> 1200]},
                  code |-> [a \in {460 + 4 * n : n \in 0 .. 5} |-> [op |-> IF a = 468 THEN "b" ELSE "plain", by |-> IF a = 468 THEN 72 ELSE 1]]]

InputOf(size, rs, asm, handlers, macho, writable) ==
  [parts |-> <<[name |-> "", size |-> size, relocs |-> rs]>> \o asm,
   globals |-> Globals, handlers |-> handlers, sections |-> Sections, writable |-> writable,
   target |-> FileOf(macho), textVa |-> 512, dataVa |-> 448,
   patches |-> <<>>, wrappers |-> <<>>]

Function(name, size, rs) == [name |-> name, size |-> size, relocs |-> rs]
Handler(offset) == <<[name |-> "handler", offset |-> offset]>>

CppInputs == {InputOf(size, a \o b, <<>>, <<>>, FALSE, w) :
                size \in {8, 80}, a \in CppRelocs, b \in {<<>>} \cup CppRelocs, w \in BOOLEAN}
             \cup {InputOf(8, a \o b, <<>>, <<>>, TRUE, FALSE) : a \in CppRelocs, b \in CppRelocs}
AsmInputs == {InputOf(8, c, <<Function("s", size, a), Function(name, 8, b)>>, Handler(o), FALSE, w) :
                c \in {<<>>, <<R("branch", 0, Outside("h"))>>}, size \in {8, 10}, a \in AsmRelocs, b \in AsmRelocs,
                name \in {"s", "t"}, o \in {-1, 4}, w \in BOOLEAN}
             \cup {InputOf(8, <<>>, <<Function(name, 8, a)>>, Handler(4) \o hs, FALSE, TRUE) :
                name \in {"s", "handler"}, a \in AsmRelocs, hs \in {<<>>, Handler(0)}}

\* Statements, and patches of the code: what a patch may name is the assembly
\* function s, the handlers, of which one has a wrapper, and the datum global.
S(op, name, number) == [op |-> op, labelled |-> FALSE, name |-> name, number |-> number, words |-> <<>>]
Labelled(s) == [s EXCEPT !.labelled = TRUE]
Bytes(words) == [S("data", "", 0) EXCEPT !.words = words]
PlainWord == [op |-> "plain", by |-> 1]
Nop == S("plain", "", 0)
Names == {"s", "handler", "wrapped", "global", "here", "nowhere"}

Goers == {S(op, name, 0) : op \in {"b", "bcond", "cbz", "adrp", "adrl", "low"}, name \in Names}
         \cup {S(op, "", n) : op \in Going, n \in {4, 480, 490, 700, 2900}}
         \cup {S("adrp", "", 64), Labelled(S("b", "s", 0)), Labelled(S("cbz", "", 480)), Labelled(S("tbz", "", 8))}
Before == {<<>>, <<Nop>>, <<S("label", "here", 0)>>, <<S("label", "here", 0), Nop>>, <<S("comment", "", 0)>>, <<Bytes(<<PlainWord>>)>>}
Texts == {b \o <<g>> : b \in Before, g \in Goers} \cup {<<S("adrl", "global", 0), g>> : g \in Goers} \cup {<<S("comment", "", 0)>>}

Patched(at, body, expected) == [address |-> at, text |-> body, expected |-> expected]
Old == <<S("b", "", 540)>>   \* what the code has at 468
Twice == {<<Patched(468, <<S("b", "s", 0)>>, e), Patched(468, <<S("adrp", "global", 0)>>, f)>> :
            e \in {<<>>, Old, <<S("b", "f", 0)>>, <<Nop, Nop>>, <<Bytes(<<PlainWord>>)>>},
            f \in {<<>>, Old, <<S("b", "s", 0)>>, <<S("b", "handler", 0)>>}}

PatchesOf(patches, size, w) ==
  [InputOf(size, <<R("branch", 0, Outside("h"))>>, <<Function("s", 8, <<>>)>>,
           Handler(4) \o <<[name |-> "wrapped", offset |-> 0]>>, FALSE, w)
   EXCEPT !.patches = patches, !.wrappers = "wrapped" :> 496]

PatchInputs == {PatchesOf(<<Patched(at, t, <<>>)>>, 8, w) : at \in {460, 476, 480}, t \in Texts, w \in BOOLEAN}
               \cup {PatchesOf(p, size, w) : p \in Twice, size \in {8, 80}, w \in BOOLEAN}

MCInputs == CppInputs \cup AsmInputs \cup PatchInputs
=============================================================================
