---------------------------- MODULE MCFatImage -----------------------------
(* Thin files, and files of one to three slices in any order.              *)
EXTENDS FatImage

Sizes == [x86 |-> 3, arm64 |-> 4, arm64e |-> 2]

\* A file as a linker lays it out, `gap` words further apart than it must.
Fat(cpus, fat64, align, gap) ==
  LET head == 2 + EntrySize(fat64) * Len(cpus)
      off[i \in 1 .. Len(cpus)] == IF i = 1 THEN AlignUp(head, 2 ^ align) + gap
                                   ELSE AlignUp(off[i - 1] + Sizes[cpus[i - 1]], 2 ^ align) + gap
  IN  [fat |-> TRUE, fat64 |-> fat64,
       table |-> [i \in DOMAIN cpus |-> [cpu |-> cpus[i], off |-> off[i], size |-> Sizes[cpus[i]], align |-> align]],
       words |-> FoldLeft(LAMBDA words, i : words \o [n \in 1 .. off[i] - Len(words) |-> Pad]
                                            \o [n \in 1 .. Sizes[cpus[i]] |-> <<cpus[i], n>>],
                          <<>>, [i \in DOMAIN cpus |-> i])]

Thin == [fat |-> FALSE, fat64 |-> FALSE, table |-> <<>>, words |-> [n \in 1 .. 4 |-> <<"arm64", n>>]]
Truncated(f) == [f EXCEPT !.words = SubSeq(@, 1, Len(@) - 1)]
Odd(f) == [f EXCEPT !.table[1].align = 63]

Orders == {<<"arm64">>, <<"x86">>, <<"x86", "arm64">>, <<"arm64", "x86">>, <<"arm64", "arm64e", "x86">>,
           <<"x86", "arm64", "arm64e">>, <<"arm64e", "x86">>}

\* The narrow ones are within their limit when they are read.
Fats == {f \in {Fat(o, w, a, g) : o \in Orders, w \in BOOLEAN, a \in 0 .. 2, g \in {0, 4}} :
           f.fat64 \/ \A i \in DOMAIN f.table : f.table[i].off <= Limit}

MCInputs == Fats \cup {Thin} \cup {Truncated(f) : f \in {g \in Fats : Len(g.table) = 2}}
            \cup {Odd(f) : f \in {g \in Fats : Len(g.table) = 2}}
            \cup {Fat(<<"x86", "arm64", "x86", "arm64">>, TRUE, 1, 0)}

MCFatInputs == {Fat(<<"x86", "arm64">>, FALSE, 2, 0)}
=============================================================================
