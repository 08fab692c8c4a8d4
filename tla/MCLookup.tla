------------------------------ MODULE MCLookup -----------------------------
(***************************************************************************)
(* An ELF and a Mach-O of some sixty cells from address 100: a header, six *)
(* instructions, stubs, and slots; the Mach-O also a class with a category.*)
(***************************************************************************)
EXTENDS Lookup

MCDemangle(name) == IF name = <<"_", "Z", "f">> THEN <<"f", "o", "o", "(", ")">> ELSE <<>>

Foo == <<"f", "o", "o">>
FooBar == <<"f", "o", "o", "b">>
Puts == <<"p", "u">>
Exit == <<"e">>
X(name) == <<"_">> \o name

C(is, arg) == [is |-> is, arg |-> arg]
Header == C("list", 99)
Text == <<C("stp", 0), C("add1", 0), C("ret", 0), C("stp", 0), C("nop", 0), C("ret", 0)>>
G(va, off, fsize, exec) == [va |-> va, off |-> off, fsize |-> fsize, exec |-> exec]
S(name, va, size, first, step) ==
  [name |-> name, text |-> name = "text", va |-> va, off |-> va - 100, size |-> size, first |-> first, step |-> step]
Symbol(name, value) == [name |-> name, value |-> value, defined |-> value # 0]

-----------------------------------------------------------------------------
\* The functions of a file, by their names.
Functions == {<<>>, <<Symbol(Foo, 101)>>, <<Symbol(Foo, 101), Symbol(FooBar, 104)>>, <<Symbol(FooBar, 101), Symbol(Puts, 104)>>,
              <<Symbol(<<"_", "Z", "f">>, 104), Symbol(Exit, 101)>>, <<Symbol(Foo, 101), Symbol(<<"_", "f", "o", "o">>, 101)>>,
              <<Symbol(Exit, 104), Symbol(FooBar, 104), Symbol(Foo, 101)>>}

Undefineds == <<Symbol(<<>>, 0), Symbol(Puts, 0), Symbol(Exit, 0)>>
NoGnu == [first |-> 1, buckets |-> <<0>>, chain |-> <<>>]

\* The GNU table of k functions behind three other symbols: all in one chain, or
\* the last in one of its own, with an empty bucket.
OneChain(k) == [first |-> 3, buckets |-> <<3, 0>>, chain |-> [n \in 1 .. k |-> n = k]]
TwoChains(k) == [first |-> 3, buckets |-> <<3, 2 + k>>, chain |-> [n \in 1 .. k |-> n >= k - 1]]
Hashes(k) == {[hash |-> 3 + k, gnu |-> NoGnu]}
             \cup (IF k = 0 THEN {[hash |-> 0, gnu |-> NoGnu]}
                   ELSE {[hash |-> 0, gnu |-> OneChain(k)], [hash |-> 0, gnu |-> TwoChains(k)]})

Plt(slot) == <<C("adrp", 112), C("ldr", slot - 112), C("add", 0), C("br", 0)>>
Plts == {Plt(118) \o Plt(119), Plt(119) \o Plt(118), Plt(118) \o Plt(118), <<C("bti", 0)>> \o Plt(119) \o SubSeq(Plt(118), 1, 3)}
Relas == {<<[slot |-> 118, type |-> "JUMP_SLOT", index |-> 1], [slot |-> 119, type |-> "GLOB_DAT", index |-> 2]>>,
          <<[slot |-> 119, type |-> "RELATIVE", index |-> 0], [slot |-> 118, type |-> "JUMP_SLOT", index |-> 2],
            [slot |-> 119, type |-> "JUMP_SLOT", index |-> 1]>>}

ElfOf(functions, h, plt, relas, sections) ==
  [elf |-> TRUE, entry |-> 104, fixups |-> <<>>, indirect |-> <<>>,
   table |-> Undefineds \o functions, hash |-> h.hash, gnu |-> h.gnu, gap |-> 3 + Len(functions), relas |-> relas,
   cells |-> <<Header>> \o Text \o plt \o [n \in 1 .. 5 |-> C("pointer", 0)],
   segments |-> <<G(100, 0, 7 + Len(plt), TRUE), G(116, 16, 4, FALSE)>>,
   sections |-> IF sections THEN <<S("text", 101, 6, 0, 0), S("plt", 107, 8, 0, 0)>> ELSE <<>>]

ElfFiles == UNION {{ElfOf(f, h, p, r, TRUE) : h \in Hashes(Len(f)), p \in Plts, r \in Relas} : f \in Functions}
ElfCode == UNION {{ElfOf(f, h, Plt(118) \o Plt(119), <<>>, s) : h \in Hashes(Len(f)), s \in BOOLEAN} : f \in Functions}

-----------------------------------------------------------------------------
\* A pointer is plain, has bits of its own, or counts from the base; where
\* there are fixups its cell is not what it will be.
Ways == {"plain", "tagged", "offset", "fixup"}
P(way, to) == C("pointer", CASE to = 0 -> 0 [] way = "plain" -> to [] way = "tagged" -> to + HighBits
                             [] way = "offset" -> to - 100 [] way = "fixup" -> 107)

Entry(way, selector, imp) == <<P(way, selector), P(way, 0), P(way, imp)>>
SelA == 125
SelB == 126

\* `own' are the instance methods of class A, a list of pointers or of relative
\* offsets; `more' those of the category for the class, behind its own for the
\* instances; the category's class may be B, outside the file.  The metaclass
\* of A has a method of its own.
Relative == <<"a", "relative">>
Count(own) == IF own = Relative THEN 1 ELSE Len(own)
Metadata(way, own, more, outside) ==
  <<P(way, 134), P(way, 0), P(way, 151), P(way, 0)>>                                              \* 130: the two lists
  \o <<P(way, 163), P(way, 0), P(way, 0), P(way, 0), P(way, 139)>>                                \* 134: class A
  \o <<P(way, 0), P(way, 0), P(way, 0), P(way, 127), IF own = <<>> THEN P(way, 0) ELSE P(way, 144)>>
  \o <<C("list", Count(own))>>                                                                    \* 144
  \o (IF own = Relative THEN [n \in 1 .. 6 |-> C("offsets", 0)] ELSE Entry(way, SelA, 101) \o Entry(way, SelB, 104))
  \o <<P(way, 128), P(way, IF outside THEN 0 ELSE 134), P(way, 155), IF more = <<>> THEN P(way, 0) ELSE P(way, 159)>>
  \o <<C("list", 1)>> \o Entry(way, SelB, 102)                                                    \* 155
  \o <<C("list", Len(more))>> \o Entry(way, SelA, 103)                                            \* 159
  \o <<P(way, 0), P(way, 0), P(way, 0), P(way, 0), P(way, 168)>>                                  \* 163: its metaclass
  \o <<P(way, 0), P(way, 0), P(way, 0), P(way, 127), P(way, 173)>>
  \o <<C("list", 1)>> \o Entry(way, SelB, 105)                                                    \* 173

\* All the methods of the file.
M(in, relative, selector, imp) ==
  [class |-> IF in = "outside" THEN <<"B">> ELSE <<"A">>, in |-> in, relative |-> relative, selector |-> selector, imp |-> imp]
Methods(own, more, outside) ==
  LET listed == [n \in 1 .. Count(own) |-> <<M("class", own = Relative, <<"a">>, 101), M("class", FALSE, <<"b">>, 104)>>[n]]
      of     == IF outside THEN "outside" ELSE "category"
  IN  ToSet(listed) \cup {M(of, FALSE, <<"b">>, 102), M("metaclass", FALSE, <<"b">>, 105)}
      \cup (IF more = <<>> THEN {} ELSE {M(of, FALSE, <<"a">>, 103)})

MStub(slot) == <<C("adrp", 120), C("ldr", slot - 120), C("br", 0)>>
Message(at) == <<C("adrp1", 120), C("ldr1", at - 120), C("nop", 0), C("nop", 0)>>

MachoOf(functions, way, own, more, outside, indirect, first, stubs) ==
  LET cells == <<Header>> \o Text \o MStub(121) \o MStub(122) \o Message(124) \o Message(123)
               \o <<C("pointer", 0), C("pointer", 0), P(way, SelA), P(way, SelB)>>
               \o <<C("string", <<"a">>), C("string", <<"b">>), C("string", <<"A">>), C("string", <<"C">>), C("string", <<"B">>)>>
               \o Metadata(way, own, more, outside)
      rebased == {va \in 123 .. 99 + Len(cells) : cells[va - 99].is = "pointer" /\ cells[va - 99].arg # 0}
      plain(va) == (<<Header>> \o Text \o MStub(121) \o MStub(122) \o Message(124) \o Message(123)
                    \o <<C("pointer", 0), C("pointer", 0), P("plain", SelA), P("plain", SelB)>>
                    \o [n \in 1 .. 5 |-> C("string", <<>>)] \o Metadata("plain", own, more, outside))[va - 99].arg
      slot(va) == IF va = 121 THEN Puts ELSE Exit
  IN  [elf |-> FALSE, entry |-> 104, hash |-> 0, gnu |-> NoGnu, gap |-> 0, relas |-> <<>>,
       cells |-> cells,
       fixups |-> [va \in {121, 122} \cup (IF way = "fixup" THEN rebased ELSE {}) \cup (IF outside THEN {152} ELSE {}) |->
                     IF va \in {121, 122} THEN [bind |-> TRUE, target |-> None, symbol |-> X(slot(va))]
                     ELSE IF va = 152 /\ outside THEN [bind |-> TRUE, target |-> None, symbol |-> <<"B">>]
                     ELSE [bind |-> FALSE, target |-> plain(va), symbol |-> <<>>]],
       table |-> <<Symbol(X(Puts), 0), Symbol(X(Exit), 0)>>
                 \o [n \in DOMAIN functions |-> [functions[n] EXCEPT !.name = X(@)]],
       indirect |-> indirect,
       segments |-> <<G(100, 0, 21, TRUE), G(121, 21, Len(cells) - 21, FALSE)>>,
       sections |-> <<S("text", 101, 6, 0, 0)>>
                    \o (IF stubs THEN <<S("stubs", 107, 6, 0, 3)>> ELSE <<>>)
                    \o <<S("objc_stubs", 113, 8, 0, 0), S("got", 121, 2, first, 0),
                         S("objc_classlist", 130, 1, 0, 0), S("objc_catlist", 132, 1, 0, 0)>>]

Own == {<<>>, <<"a">>, <<"a", "b">>, Relative}
More == {<<>>, <<"a">>}
\* The indirect symbols of the stubs, then those of the slots.
MachoWith(functions, way, own, more, outside) == MachoOf(functions, way, own, more, outside, <<0, 1, 0, 1>>, 2, TRUE)

-----------------------------------------------------------------------------
D == [address |-> 0, class |-> <<>>, selector |-> <<>>, symbol |-> <<>>, swift |-> <<>>, signature |-> <<>>,
      handler |-> TRUE, kind |-> "hook_detour"]

Placed == {D, [D EXCEPT !.address = 103], [D EXCEPT !.handler = FALSE, !.kind = "patch_hex"],
           [D EXCEPT !.kind = "new_cpp_func"], [D EXCEPT !.kind = "new_asm_func", !.handler = FALSE],
           [D EXCEPT !.address = 103, !.symbol = Foo]}
Signed == {[D EXCEPT !.signature = s] :
             s \in {<<"stp", "add1">>, <<"stp", Wild, "ret">>, <<"nop">>, <<"adrp">>, <<"ret", Wild>>, <<"br">>, <<"list">>}}
SymbolNames == {Foo, FooBar, X(Foo), <<"o", "b">>, Exit, <<"f", "o", "o", "(", ")">>, <<"z">>}
BySymbols == {[D EXCEPT !.symbol = q] : q \in SymbolNames} \cup {[D EXCEPT !.swift = q] : q \in {Foo, FooBar}}
             \cup {[D EXCEPT !.symbol = <<"z">>, !.signature = <<"nop">>]}
Messages == {[D EXCEPT !.class = c, !.selector = s] : c \in {<<"A">>, <<"B">>}, s \in {<<"a">>, <<"b">>}}
            \cup {[D EXCEPT !.class = <<"A">>], [D EXCEPT !.class = <<"A">>, !.selector = <<"b">>, !.symbol = X(Foo)]}

Calls == {<<[call |-> c, name |-> X(n)]>> : c \in BOOLEAN, n \in {Puts, Exit, Foo, <<"z">>}}
         \cup {<<[call |-> TRUE, name |-> X(Puts)], [call |-> FALSE, name |-> X(Puts)], [call |-> FALSE, name |-> X(Exit)]>>}
MessageCalls == {<<[call |-> TRUE, name |-> <<"_", MessagePrefix, s>>]>> : s \in {"a", "b", "c"}}

In(file, declarations, undefined, methods) ==
  [file |-> file, declarations |-> declarations, undefined |-> undefined, methods |-> methods]

ElfInputs == {In(f, <<>>, u, {}) : f \in ElfFiles, u \in Calls}
             \cup {In(f, <<d>>, <<>>, {}) : f \in ElfCode, d \in Placed \cup Signed \cup BySymbols}
             \cup {In(f, <<d, e>>, <<>>, {}) : f \in ElfCode, d \in Placed, e \in BySymbols}
MachoInputs ==
  {In(MachoOf(f, "plain", <<"a">>, <<>>, FALSE, i, n, s), <<>>, u, Methods(<<"a">>, <<>>, FALSE)) :
     f \in {<<>>, <<Symbol(Foo, 101)>>}, i \in {<<0, 1, 0, 1>>, <<-1, 0, 1, 0, 1>>, <<1, 0, 0, 1>>}, n \in {2, 3},
     s \in BOOLEAN, u \in Calls \cup MessageCalls}
  \cup UNION {{In(MachoWith(f, w, own, more, o), <<d>>, <<>>, Methods(own, more, o)) : own \in Own, more \in More, o \in BOOLEAN} :
              f \in {<<Symbol(Foo, 101)>>}, w \in Ways, d \in Messages \cup Signed}
  \cup {In(MachoWith(f, w, <<"a">>, <<>>, FALSE), <<>>, u, Methods(<<"a">>, <<>>, FALSE)) : f \in {<<>>}, w \in Ways, u \in MessageCalls}

\* Only files whose indirect symbols name what the stubs and slots are bound to.
Honest(f) ==
  f.elf \/ \A s \in ToSet(f.sections) :
             /\ s.name = "stubs" => \A i \in 1 .. 2 :
                  s.first + i \in DOMAIN f.indirect /\ f.indirect[s.first + i] = IF i = 1 THEN 0 ELSE 1
             /\ s.name = "got" => \A i \in 1 .. 2 :
                  s.first + i \in DOMAIN f.indirect /\ f.indirect[s.first + i] = i - 1
MCInputs == {i \in ElfInputs \cup MachoInputs : Honest(i.file)}
=============================================================================
