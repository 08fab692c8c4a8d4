--------------------------- MODULE MCMachoWriter ---------------------------
(* Executables of three segments, with what __LINKEDIT may hold; and        *)
(* plugins whose names are too long, differ in case or in symbols that are *)
(* not kept, or are another plugin's data.                                 *)
EXTENDS MachoWriter

MCPage == 8
MCWords == {"a", "A", "b", "n", "text", "code", "data", "d", "_"}
MCLower(c) == IF c = "A" THEN "a" ELSE c
\* A hash that tells apart names of different lengths only.
MCHash(name) == IF Len(name) % 2 = 0 THEN "x" ELSE "y"

G(name, va, vsize, off, fsize, sections) ==
  [name |-> name, va |-> va, vsize |-> vsize, off |-> off, fsize |-> fsize, sections |-> sections]
S(name, va, size, off) == [name |-> name, va |-> va, size |-> size, off |-> off]

Text == G(<<"TEXT">>, 16, 16, 0, 16, <<S(<<"text">>, 26, 6, 10)>>)
Bss == G(<<"DATA">>, 32, 16, 16, 8, <<S(<<"data">>, 32, 4, 16), S(<<"bss">>, 40, 8, 0)>>)

-----------------------------------------------------------------------------
\* The fixups of DATA, in two pages of 4 words: one chain of two pointers and
\* a list of two chains.  The last word of each page may be filled.
Pointer(bind, to, next) == <<"pointer", [bind |-> bind, to |-> to, next |-> next]>>
Rest(n) == <<"data", n>>
DataWords == <<Pointer(FALSE, 10, 2), Rest(2), Pointer(TRUE, 0, 0), Rest(4),
               Pointer(TRUE, 1, 0), Rest(6), Pointer(FALSE, 12, 1), Rest(8)>>
DataInfo(relative) ==
  <<"info", [relative |-> relative, page |-> 4, pages |-> <<[is |-> "chain", at |-> 0], [is |-> "list", at |-> 1], NoChain>>,
             more |-> <<[at |-> 0, last |-> FALSE], [at |-> 2, last |-> TRUE], [at |-> 1, last |-> TRUE]>>]>>
NoneInfo == <<"info", [relative |-> FALSE, page |-> 8, pages |-> <<NoChain, NoChain>>, more |-> <<>>]>>

\* What a table of __LINKEDIT holds.  The fixups: the blob's header, the
\* starts (their number, an entry per segment, what the entries point to), the
\* imports, their names.
Table(t, size) == [n \in 1 .. size |-> IF n = 1 THEN <<t, "start">> ELSE IF n = size THEN <<t, "end">> ELSE <<t>>]
FixupTable(infos) ==
  <<<<"fixups", "start">>, <<"fixups">>, <<"fixups">>, <<"fixups">>, <<"fixups">>, <<"fixups">>>> \o infos
  \o <<<<"import", 0>>, <<"import", 1>>, <<"string", <<"puts">>>>, <<"string", <<"exit">>>>, <<"fixups", "end">>>>

\* The entries as linkers make them, from the starts at 2: that of DATA is
\* below the point where the caves' entries are inserted, which is 5, or not;
\* and from the blob.
Below == [starts |-> <<5, 4, 0>>, none |-> 2]
NotBelow == [starts |-> <<4, 5, 0>>, none |-> 1]
FromBlob == [starts |-> <<6, 7, 0>>, none |-> 1]
Entries == {Below, NotBelow, FromBlob}

\* `order' is what __LINKEDIT holds, in its order.
WithLinkedit(order, entries, plugins, end, vsize) ==
  LET info  == DataInfo(order[1] = "fixups")
      words == [fixups |-> FixupTable(IF entries.none = 1 THEN <<NoneInfo, info>> ELSE <<info, NoneInfo>>), symbols |-> Table("symbols", 3), signature |-> Table("signature", 2),
                rest |-> <<Zero>>]
      At(i) == 24 + Len(FlattenSeq([n \in 1 .. i - 1 |-> words[order[n]]]))
      Of(t) == CHOOSE i \in DOMAIN order : order[i] = t
      held  == FlattenSeq([n \in DOMAIN order |-> words[order[n]]])
  IN  [plugins |-> plugins,
       segments |-> <<Text, Bss, G(Linkedit, 48, vsize, 24, Len(held), <<>>)>>,
       data |-> [n \in 1 .. 16 |-> <<"text", n>>] \o DataWords \o held,
       tables |-> [t \in ToSet(order) \cap Tables |-> [off |-> At(Of(t)), size |-> Len(words[t])]],
       starts |-> IF "fixups" \in ToSet(order) THEN entries.starts ELSE <<>>,
       fixups |-> IF "fixups" \in ToSet(order) THEN [starts |-> 2, imports |-> 8, symbols |-> 10] ELSE NoFixups,
       commandsEnd |-> end]

WithoutLinkedit(plugins, kept) ==
  [plugins |-> plugins, segments |-> kept, data |-> [n \in 1 .. 21 |-> <<"body", n>>] \o Zeros(3),
   tables |-> <<>>, starts |-> <<>>, fixups |-> NoFixups, commandsEnd |-> 4]

-----------------------------------------------------------------------------
P(name, code, datum) == [name |-> name, prefix |-> <<>>, code |-> code, data |-> datum]
N == <<"n">>
NB == <<"n", "_", "b">>

GoodPlugins ==
  {<<P(N, 4, 0)>>, <<P(N, 8, 0)>>, <<P(N, 5, 0), P(NB, 4, 0)>>, <<P(N, 6, 4)>>,
   <<P(N, 5, 4), P(NB, 4, 5)>>, <<P(N, 12, 8)>>, <<P(<<"a">>, 4, 0), P(<<"b">>, 3, 4)>>}

Orders == {<<"fixups", "symbols", "signature">>, <<"symbols", "fixups", "signature">>,
           <<"fixups", "signature", "rest">>, <<"symbols", "signature">>, <<"signature", "symbols">>,
           <<"fixups", "symbols">>}

FileInputs == {WithLinkedit(o, e, p, 4, 24) : o \in Orders, e \in Entries, p \in GoodPlugins}
              \* The last page of __LINKEDIT full, or one word short of it.
              \cup {WithLinkedit(<<"symbols", "fixups">>, NotBelow, p, 4, v) : v \in {16, 17}, p \in GoodPlugins}
              \cup {WithoutLinkedit(p, <<Text, Bss>>) : p \in GoodPlugins}
              \cup {WithLinkedit(<<"fixups", "signature">>, NotBelow, p, e, 24) : e \in {6, 7, 8}, p \in GoodPlugins}

-----------------------------------------------------------------------------
Raw == {<<"a">>, <<"A">>, <<"a", "-", "-", "b">>, <<"_", "a", "_">>, <<"-">>, <<"a", "_", "data">>, <<"a", "_", "code">>,
        <<"a", "b", "a", "b", "a", "b">>, <<"a", "b", "a", "b", "a", "a">>, <<"a", "_", "d", "_", "x">>, <<"text">>}
Named == {P(n, 2, d) : n \in Raw, d \in {0, 1}}
         \cup {[name |-> n, prefix |-> <<"a">>, code |-> 2, data |-> 1] : n \in {<<"b">>, <<"b", "b">>}}
\* A file that has been patched before.
Patched(n) == <<[Text EXCEPT !.sections = Append(@, S(n, 28, 2, 12))], Bss>>
Files == {<<Text, Bss>>, Patched(<<"a">>), Patched(<<"a", "_", "data">>), Patched(<<"a", "b", "_", "data">>)}

\* Three plugins only of those that ask for short names beginning with a.
Short == {P(n, 2, 1) : n \in {<<"a">>, <<"A">>, <<"a", "_", "data">>, <<"a", "_", "x">>}} \cup {P(<<"a", "-">>, 2, 0)}

MCInputs == FileInputs
            \cup {WithoutLinkedit(<<p>>, f) : p \in Named, f \in Files}
            \cup {WithoutLinkedit(<<p, q>>, f) : p, q \in Named, f \in Files}
            \cup {WithoutLinkedit(<<p, q, r>>, <<Text, Bss>>) : p, q, r \in Short}

\* One plugin, and a file as linkers make it.
MCLinked == {WithLinkedit(<<"fixups", "symbols", "signature">>, Below, <<P(N, 5, 4)>>, 4, 24)}
=============================================================================
