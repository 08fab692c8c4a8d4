----------------------------- MODULE ElfWriter -----------------------------
(***************************************************************************)
(* Adding the caves to an ELF file (BinaryImage::add_elf_sections,         *)
(* src/src/binary_image.cpp).  Nothing of the file moves: behind it comes  *)
(* a region that holds a new program table, the code cave, the data cave   *)
(* on a page of its own, the section names and the section table, and the  *)
(* header is pointed at the new tables.                                    *)
(*                                                                         *)
(* Sizes and offsets are in 8-byte words.  The file is a sequence of       *)
(* words, each named by what it belongs to; the entries of the two tables  *)
(* are kept beside it as records, and a name takes one word.               *)
(***************************************************************************)
EXTENDS Integers, Sequences, FiniteSets, SequencesExt

CONSTANTS SmallPage,     \* words in the smallest page
          ProgramEntry,  \* words in an entry of the program table
          SectionEntry,  \* words in an entry of the section table
          MaxEntries,    \* entries a table may have
          NullName,      \* the name of section 0
          TableName,     \* .shstrtab
          Inputs         \* files, and the sections to add to them

Align16 == 2             \* 16 bytes

Program == [kind : {"load", "phdr", "other"}, writable : BOOLEAN,
            va : Nat, vsize : Nat, off : Nat, fsize : Nat, align : Nat]
Section == [name : Nat, va : Nat, off : Nat, size : Nat]
Plan == [name : STRING, size : Nat \ {0}, writable : BOOLEAN]

WriterAssumption ==
  /\ {SmallPage, ProgramEntry, SectionEntry, MaxEntries} \subseteq Nat \ {0}
  /\ SmallPage % Align16 = 0
  /\ \A i \in Inputs : /\ i.plans \in Seq(Plan) /\ i.plans # <<>>
                       /\ i.programs \in Seq(Program) /\ i.sections \in Seq(Section)

VARIABLES input, pc, data,
          programs, programsOff,   \* the program table, and where it is
          sections, sectionsOff,   \* the section table, and where it is
          names,                   \* which section holds the names, from 0
          page, region, nextVa,    \* of the new region
          offsets, codeEnd, dataStart, cavesEnd, error

vars == <<input, pc, data, programs, programsOff, sections, sectionsOff, names,
          page, region, nextVa, offsets, codeEnd, dataStart, cavesEnd, error>>
file == <<data, programs, programsOff, sections, sectionsOff, names>>

AlignUp(n, to) == n + ((-n) % to)
Plans == 1 .. Len(input.plans)
Code == {i \in Plans : ~input.plans[i].writable}
Data == {i \in Plans : input.plans[i].writable}
Content(i, n) == <<"cave", i, n>>
Zero == <<"zero">>
Greatest(S) == CHOOSE x \in S : \A y \in S : y <= x

\* Writing words over the file from an offset.
Over(words, off, bytes) ==
  [n \in DOMAIN bytes |-> IF n - off \in DOMAIN words THEN words[n - off] ELSE bytes[n]]

Init ==
  /\ input \in Inputs
  /\ pc = "check" /\ error = "none"
  /\ data = input.data /\ programs = input.programs /\ programsOff = input.programsOff
  /\ sections = input.sections /\ sectionsOff = input.sectionsOff /\ names = input.names
  /\ page = SmallPage /\ region = 0 /\ nextVa = 0
  /\ offsets = [i \in Plans |-> 0] /\ codeEnd = 0 /\ dataStart = 0 /\ cavesEnd = 0

NewLoads == Cardinality({input.plans[i].writable : i \in Plans})
HasSections == sections # <<>>

\* The table of the sections is looked at after the caves are placed, which
\* changes nothing in the file.  Left out are the errors of a file that does not
\* hold its program table or its name table (src/src/binary_image.cpp:1314-1316,
\* 1405-1406): nothing is written then.
CheckTables ==
  /\ pc = "check"
  /\ IF \/ Len(programs) + NewLoads > MaxEntries
        \/ HasSections /\ Len(sections) + Len(input.plans) > MaxEntries
     THEN pc' = "failed" /\ error' = "full" ELSE pc' = "region" /\ UNCHANGED error
  /\ UNCHANGED <<input, file, page, region, nextVa, offsets, codeEnd, dataStart, cavesEnd>>

Loads == {i \in DOMAIN programs : programs[i].kind = "load"}

FindRegionSmallPages ==  \* mutant: the file's own alignment is ignored
  /\ pc = "region"
  /\ nextVa' = AlignUp(Greatest({0} \cup {programs[i].va + programs[i].vsize : i \in Loads}), SmallPage)
  /\ region' = AlignUp(Len(data), SmallPage)
  /\ page' = SmallPage /\ pc' = "place"
  /\ UNCHANGED <<input, file, offsets, codeEnd, dataStart, cavesEnd, error>>

\* The region begins behind the file and behind the memory it takes, on a
\* page of the greatest alignment any load has.
FindRegion ==
  /\ pc = "region"
  /\ LET size == Greatest({SmallPage} \cup {programs[i].align : i \in Loads})
     IN  /\ page' = size
         /\ nextVa' = AlignUp(Greatest({0} \cup {programs[i].va + programs[i].vsize : i \in Loads}), size)
         /\ region' = AlignUp(Len(data), size)
  /\ pc' = "place"
  /\ UNCHANGED <<input, file, offsets, codeEnd, dataStart, cavesEnd, error>>

-----------------------------------------------------------------------------
\* place_group: the sections of a group, one after the other from a cursor.
Cursor(group, from) ==
  LET at[i \in 0 .. Len(input.plans)] ==
        IF i = 0 THEN AlignUp(from, Align16)
        ELSE at[i - 1] + (IF i \in group THEN AlignUp(input.plans[i].size, Align16) ELSE 0)
  IN  at

ProgramTableSize == (Len(programs) + NewLoads) * ProgramEntry

PlaceGroups ==
  /\ pc = "place"
  /\ LET from == region + AlignUp(ProgramTableSize, Align16)
         code == Cursor(Code, from)
         end  == IF Code = {} THEN from ELSE code[Len(input.plans)]
         base == IF Data # {} /\ Code # {} THEN AlignUp(end, page) ELSE end
         more == Cursor(Data, base)
     IN  /\ offsets' = [i \in Plans |-> IF i \in Code THEN code[i - 1] ELSE more[i - 1]]
         /\ codeEnd' = end /\ dataStart' = base
         /\ cavesEnd' = IF Data = {} THEN end ELSE more[Len(input.plans)]
  /\ pc' = "write"
  /\ UNCHANGED <<input, file, page, region, nextVa, error>>

-----------------------------------------------------------------------------
Load(writable, off, va, size) ==
  [kind |-> "load", writable |-> writable, va |-> va, vsize |-> size, off |-> off, fsize |-> size, align |-> page]

\* The old entries, the one of the table itself pointed at the new table.
MovedPrograms ==
  [i \in DOMAIN programs |->
     IF programs[i].kind = "phdr"
     THEN [programs[i] EXCEPT !.off = region, !.va = nextVa, !.fsize = ProgramTableSize,
                              !.vsize = ProgramTableSize, !.align = 1]
     ELSE programs[i]]

NewPrograms ==
  MovedPrograms
  \o (IF Code = {} THEN <<>> ELSE <<Load(FALSE, region, nextVa, codeEnd - region)>>)
  \o (IF Data = {} THEN <<>> ELSE <<Load(TRUE, dataStart, nextVa + (dataStart - region), cavesEnd - dataStart)>>)

\* The old names, with the plugins' behind them; without a section table,
\* a null section and the names' own are made.
OldNames == IF HasSections
            THEN LET s == sections[names + 1] IN SubSeq(data, s.off + 1, s.off + s.size)
            ELSE <<<<"name", NullName>>>>
NewNames == OldNames \o [i \in Plans |-> <<"name", input.plans[i].name>>]
            \o (IF HasSections THEN <<>> ELSE <<<<"name", TableName>>>>)

NamesOff == cavesEnd
TableOff == NamesOff + Len(NewNames)

PlanSectionsUnbased ==  \* mutant: the addresses are not counted from the region
  [i \in Plans |-> [name |-> Len(OldNames) + i - 1, va |-> nextVa + offsets[i],
                    off |-> offsets[i], size |-> input.plans[i].size]]

PlanSections == [i \in Plans |-> [name |-> Len(OldNames) + i - 1, va |-> nextVa + (offsets[i] - region),
                                  off |-> offsets[i], size |-> input.plans[i].size]]

NewSections ==
  IF HasSections
  THEN [sections EXCEPT ![names + 1].off = NamesOff, ![names + 1].size = Len(NewNames)] \o PlanSections
  ELSE <<[name |-> 0, va |-> 0, off |-> 0, size |-> 0]>> \o PlanSections
       \o <<[name |-> Len(NewNames) - 1, va |-> 0, off |-> NamesOff, size |-> Len(NewNames)]>>

NamesIndexPast == IF HasSections THEN names ELSE Len(input.plans) + 2  \* mutant: counts the null section twice
NamesIndex == IF HasSections THEN names ELSE Len(input.plans) + 1

TableWords(table, entries, width) ==
  FlattenSeq([i \in 1 .. entries |-> [n \in 1 .. width |-> <<table, i>>]])

Grown(size) == data \o [n \in 1 .. size - Len(data) |-> Zero]

WriteFile ==
  /\ pc = "write"
  /\ programs' = NewPrograms /\ programsOff' = region
  /\ sections' = NewSections /\ sectionsOff' = TableOff
  /\ names' = NamesIndex
  /\ data' = LET end    == TableOff + Len(NewSections) * SectionEntry
                 tabled == Over(TableWords("program", Len(NewPrograms), ProgramEntry), region, Grown(end))
                 caved  == FoldLeft(LAMBDA bytes, i :
                                      Over([n \in 1 .. input.plans[i].size |-> Content(i, n - 1)], offsets[i], bytes),
                                    tabled, [i \in Plans |-> i])
             IN  Over(TableWords("section", Len(NewSections), SectionEntry), TableOff, Over(NewNames, NamesOff, caved))
  /\ pc' = "done"
  /\ UNCHANGED <<input, page, region, nextVa, offsets, codeEnd, dataStart, cavesEnd, error>>

Next == CheckTables \/ FindRegion \/ PlaceGroups \/ WriteFile

Spec == Init /\ [][Next]_vars

-----------------------------------------------------------------------------
(* Finding a section again: table_string, section() and segment.cpp.        *)
NameOf(s) == data[sections[names + 1].off + s.name + 1][2]

SectionNamed(name) ==
  sections[CHOOSE i \in DOMAIN sections :
             NameOf(sections[i]) = name /\ \A j \in 1 .. i - 1 : NameOf(sections[j]) # name]

-----------------------------------------------------------------------------
TypeOK ==
  /\ input \in Inputs
  /\ pc \in {"check", "region", "place", "write", "done", "failed"}
  /\ programs \in Seq(Program) /\ sections \in Seq(Section)
  /\ programsOff + Len(programs) * ProgramEntry <= Len(data)
  /\ sectionsOff + Len(sections) * SectionEntry <= Len(data)
  /\ sections = <<>> \/ names + 1 \in DOMAIN sections
  /\ {page, region, nextVa, codeEnd, dataStart, cavesEnd} \subseteq Nat
  /\ \A i \in Loads : programs[i].off + programs[i].fsize <= Len(data)

RoundedStart(g) == g.va - (g.va % g.align)
RoundedEnd(g) == AlignUp(g.va + g.vsize, g.align)

\* The offset and the address of a load agree within a page, and no two loads
\* share one: if both caves did, the data mapping would remap the tail page of
\* the code cave (README.md:136).
LoadsApart ==
  \A i \in Loads :
    /\ programs[i].off % programs[i].align = programs[i].va % programs[i].align
    /\ \A j \in Loads \ {i} : \/ RoundedEnd(programs[i]) <= RoundedStart(programs[j])
                              \/ RoundedEnd(programs[j]) <= RoundedStart(programs[i])

\* The program table is whole, and is mapped where its own entry says: the
\* loader of the running program reads it from memory.
TableMapped ==
    /\ \A n \in 1 .. Len(programs) * ProgramEntry : data[programsOff + n][1] = "program"
    /\ \A i \in DOMAIN programs : programs[i].kind = "phdr" =>
         /\ programs[i].off = programsOff /\ programs[i].fsize = Len(programs) * ProgramEntry
         /\ \E j \in Loads : LET g == programs[j]
                             IN  /\ g.off <= programs[i].off
                                 /\ programs[i].off + programs[i].fsize <= g.off + g.fsize
                                 /\ g.va - g.off = programs[i].va - programs[i].off

\* What was in the file is still there, and its sections keep their names
\* although the names have moved.
FileKept ==
    /\ SubSeq(data, 1, Len(input.data)) = input.data
    /\ \A i \in DOMAIN input.sections :
         /\ NameOf(sections[i])
            = input.data[input.sections[input.names + 1].off + input.sections[i].name + 1][2]
         /\ i # names + 1 => sections[i] = input.sections[i]

(* What is written is the file it was, and the loader can map it, with the  *)
(* moved program table and the two caves.                                   *)
Loadable == pc = "done" => LoadsApart /\ TableMapped /\ FileKept

(* Each plugin finds its section by its name, whole, at an address a load   *)
(* of the section's own kind maps to it.                                    *)
FoundByName ==
  pc = "done" => \A i \in Plans :
    LET s == SectionNamed(input.plans[i].name)
    IN  /\ s.size = input.plans[i].size
        /\ \A n \in 0 .. s.size - 1 : data[s.off + n + 1] = Content(i, n)
        /\ \E j \in Loads : LET g == programs[j]
                            IN  /\ g.writable = input.plans[i].writable
                                /\ g.va <= s.va /\ s.va + s.size <= g.va + g.fsize
                                /\ s.va - g.va = s.off - g.off
=============================================================================
