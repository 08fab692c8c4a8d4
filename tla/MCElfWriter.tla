---------------------------- MODULE MCElfWriter ----------------------------
(* Shared libraries with pages of two sizes, with and without a section    *)
(* table and an entry for the program table itself.                        *)
EXTENDS ElfWriter

P(kind, writable, va, vsize, off, fsize, align) ==
  [kind |-> kind, writable |-> writable, va |-> va, vsize |-> vsize, off |-> off, fsize |-> fsize, align |-> align]

\* The header in word 0, then the program table.
Programs(align, self) ==
  <<P("load", FALSE, 0, 12, 0, 12, align), P("load", TRUE, 2 * align + 12, 6, 12, 4, align)>>
  \o (IF self THEN <<P("phdr", FALSE, 1, 3, 1, 3, 1)>> ELSE <<P("other", FALSE, 2 * align + 12, 2, 12, 2, 1)>>)

Old == <<<<"name", NullName>>, <<"name", "text">>, <<"name", TableName>>>>
OldSections == <<[name |-> 0, va |-> 0, off |-> 0, size |-> 0], [name |-> 1, va |-> 6, off |-> 6, size |-> 6],
                 [name |-> 2, va |-> 0, off |-> 16, size |-> 3]>>

File(align, self, plans) ==
  [plans |-> plans, programs |-> Programs(align, self), programsOff |-> 1,
   sections |-> OldSections, sectionsOff |-> 19, names |-> 2,
   data |-> [n \in 1 .. 16 |-> <<"body", n>>] \o Old \o TableWords("old", 3, SectionEntry)]

Stripped(align, self, plans) ==
  [plans |-> plans, programs |-> Programs(align, self), programsOff |-> 1,
   sections |-> <<>>, sectionsOff |-> 0, names |-> 0, data |-> [n \in 1 .. 16 |-> <<"body", n>>]]

C(name, size) == [name |-> name, size |-> size, writable |-> FALSE]
D(name, size) == [name |-> name, size |-> size, writable |-> TRUE]

\* Every plugin has code: a section of data comes with one of code.
MCPlans ==
  {<<C("a", n)>> : n \in 1 .. 4}
  \cup {<<C("a", n), D("a_data", m)>> : n \in 1 .. 4, m \in 1 .. 3}
  \cup {<<C("a", n), D("a_data", 2), C("b", 3), D("b_data", m)>> : n \in 1 .. 4, m \in 1 .. 2}
  \cup {<<C("a", 1), C("b", 1), C("c", 1)>>, <<C("a", 1), C("b", 2), C("c", 3), C("d", 1), C("e", 1)>>}

MCInputs == {File(a, s, p) : a \in {4, 8}, s \in BOOLEAN, p \in MCPlans}
            \cup {Stripped(a, s, p) : a \in {4, 8}, s \in BOOLEAN, p \in MCPlans}
=============================================================================
