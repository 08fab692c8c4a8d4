---------------------------- MODULE MachoWriter ----------------------------
(***************************************************************************)
(* Adding the caves to a Mach-O file (BinaryImage::add_macho_sections and  *)
(* update_macho_chained_fixups, src/src/binary_image.cpp), once they have  *)
(* names, and finding them again (src/src/segment.cpp).  One segment holds *)
(* every plugin's code, another every plugin's data; both go in front of   *)
(* __LINKEDIT, which moves up in the file and in memory, so every offset   *)
(* into it is adjusted, and the fixup starts get an entry per segment.     *)
(* The writer appends its segments; the older way, filling a section that  *)
(* is already there (add_executable_section), is not modelled.             *)
(*                                                                         *)
(* Sizes and offsets are in 4-byte words.  The file is a sequence of       *)
(* words, each named by what it belongs to, so that an offset can be       *)
(* followed to what it should lead to.  A name is a sequence of symbols,   *)
(* without the two underscores that every plugin's section begins with.    *)
(***************************************************************************)
EXTENDS SegmentNames, ChainedFixups

CONSTANTS Page,             \* words in a page
          SegmentCommand,   \* words in a segment's load command
          SectionCommand,   \* words it takes more per section
          SignatureCommand, \* words in the load command of the signature
          MaxBase,          \* symbols of a cave's name before its suffix
          Inputs            \* files, and the plugins whose sections are added to them

Align16 == 4                \* 16 bytes

Section(names) == [name: names, va: Nat, size: Nat, off: Nat]
Segment(names) == [name: names, va: Nat, vsize: Nat, off: Nat, fsize: Nat, sections: Seq(Section(names))]
Plan(names) == [name: names, size: Nat \ {0}, writable: BOOLEAN]
Plugin == [name: Seq(STRING), prefix: Seq(STRING), code: Nat \ {0}, data: Nat]

Linkedit == <<"LINKEDIT">>
NoFixups == <<>>
Tables == {"fixups", "symbols", "signature"}

AlignUp(n, to) == n + ((-n) % to)
RoundedEnd(g) == AlignUp(g.va + g.vsize, Page)
Linkedits(parts) == {j \in DOMAIN parts : parts[j].name = Linkedit}

-----------------------------------------------------------------------------
(* A file as linkers make it.  No two segments share a page in memory or a  *)
(* byte in the file, which holds them all.  __LINKEDIT is behind the others *)
(* and begins a page; the tables are in it, clear of each other, and the    *)
(* first and the last word of each can be told.                             *)
SegmentsApart(parts) ==
  \A i, j \in DOMAIN parts : i # j =>
    /\ RoundedEnd(parts[i]) <= parts[j].va \/ RoundedEnd(parts[j]) <= parts[i].va
    /\ \/ parts[i].off + parts[i].fsize <= parts[j].off
       \/ parts[j].off + parts[j].fsize <= parts[i].off

\* __LINKEDIT grows by the entries of its fixups, but only in the file.
SegmentsHeld(parts, bytes, entries) ==
  \A j \in DOMAIN parts :
    /\ parts[j].off + parts[j].fsize <= Len(bytes)
    /\ parts[j].fsize <= parts[j].vsize + (IF parts[j].name = Linkedit THEN entries ELSE 0)

LinkeditLast(parts) ==
  \A l \in Linkedits(parts) :
    /\ parts[l].va % Page = 0 /\ parts[l].sections = <<>>
    /\ \A j \in DOMAIN parts \ {l} :
         /\ parts[j].name # Linkedit /\ RoundedEnd(parts[j]) <= parts[l].va
         /\ parts[j].off < parts[l].off /\ parts[j].off + parts[j].fsize <= parts[l].off
         /\ \A n \in DOMAIN parts[j].sections : parts[j].sections[n].off < parts[l].off

TableHeld(parts, bytes, t, table) ==
  /\ \E l \in Linkedits(parts) :
       parts[l].off <= table.off /\ table.off + table.size <= parts[l].off + parts[l].fsize
  /\ bytes[table.off + 1] = <<t, "start">> /\ bytes[table.off + table.size] = <<t, "end">>

TablesHeld(parts, bytes, at) ==
  /\ \A t \in DOMAIN at : TableHeld(parts, bytes, t, at[t])
  /\ \A t, u \in DOMAIN at : t # u => at[t].off + at[t].size <= at[u].off \/ at[u].off + at[u].size <= at[t].off

\* The entries of the fixups are followed by more.
StartsHeld(at, entries, where) ==
  "fixups" \in DOMAIN at =>
    where \in [starts: Nat, imports: Nat, symbols: Nat] /\ where.starts + 1 + Len(entries) < at["fixups"].size

Sound(parts, bytes, at, entries, where, added) ==
  /\ bytes \in Seq(ToSet(bytes)) /\ entries \in Seq(Nat)
  /\ DOMAIN at \subseteq Tables /\ \A t \in DOMAIN at : at[t] \in [off: Nat, size: Nat \ {0}]
  /\ SegmentsApart(parts) /\ SegmentsHeld(parts, bytes, added) /\ LinkeditLast(parts)
  /\ TablesHeld(parts, bytes, at) /\ StartsHeld(at, entries, where)

\* What the blob's offsets lead to is behind the entries.  __LINKEDIT has no
\* fixups, and no segment has any behind its last page, whichever way the
\* entries are counted.
WordHeld(word) ==
  /\ word[1] = "import" => word[2] \in Nat
  /\ word[1] = "pointer" => word[2] \in [bind: BOOLEAN, to: Nat, next: Nat]

ChainsHeld(g, info) ==
  /\ g.name # Linkedit /\ info.page \in Nat /\ info.pages \in Seq(ToSet(info.pages))
  /\ \A page \in DOMAIN info.pages : g.va + page * info.page <= RoundedEnd(g)

FixupsHeld(i) ==
  LET blob == i.tables["fixups"]
      Held(off) == i.data[blob.off + off + 1]
  IN  /\ \A off \in {i.fixups.imports, i.fixups.symbols} : i.fixups.starts + 1 + Len(i.starts) <= off
      /\ \A n \in DOMAIN i.data : WordHeld(i.data[n])
      /\ \A base \in {0, i.fixups.starts} : \A j \in DOMAIN i.starts \cap DOMAIN i.segments :
           /\ i.starts[j] # 0 /\ base + i.starts[j] < blob.size
           /\ Held(base + i.starts[j])[1] = "info"
           => ChainsHeld(i.segments[j], Held(base + i.starts[j])[2])

\* Some section has bytes, and a signature at the end is not all of __LINKEDIT.
Linked(i) ==
  /\ i.segments \in Seq(Segment(Seq(STRING))) /\ i.commandsEnd \in Nat
  /\ Sound(i.segments, i.data, i.tables, i.starts, i.fixups, 0)
  /\ Linkedits(i.segments) # {} =>
       \E j \in DOMAIN i.segments : \E n \in DOMAIN i.segments[j].sections : i.segments[j].sections[n].off # 0
  /\ "fixups" \in DOMAIN i.tables => FixupsHeld(i)
  /\ "signature" \in DOMAIN i.tables =>
       /\ SignatureCommand <= i.commandsEnd
       /\ i.tables["signature"].off + i.tables["signature"].size = Len(i.data) =>
            \A l \in Linkedits(i.segments) : i.segments[l].off < i.tables["signature"].off

ASSUME WriterAssumption ==
  /\ {Page, SegmentCommand, SectionCommand, SignatureCommand, MaxBase} \subseteq Nat \ {0}
  /\ Page % Align16 = 0
  /\ \A i \in Inputs : i.plugins # <<>> /\ i.plugins \in Seq(Plugin) /\ Linked(i)

VARIABLES plans, data, segments,
          tables,       \* by table of __LINKEDIT: its offset and its size
          starts,       \* the offsets the fixup starts hold, by segment
          fixups,       \* where the starts, the imports and their names are in the blob
          commandsEnd,  \* the end of the load commands
          offsets, codeSize, dataBase, dataSize, inserted,
          linkeditOff, linkeditVa, place, error

writer == <<data, segments, tables, starts, fixups, commandsEnd,
            offsets, codeSize, dataBase, dataSize, inserted, linkeditOff, linkeditVa, place, error>>
vars == <<input, pc, given, plans, writer>>
layout == <<offsets, codeSize, dataBase, dataSize, inserted>>
target == <<linkeditOff, linkeditVa, place>>
asked == <<input, given, plans>>

Plans == 1 .. Len(plans)
Code == {i \in Plans : ~plans[i].writable}
Data == {i \in Plans : plans[i].writable}
Zero == <<"zero">>
Content(i, n) == <<"cave", i, n>>
Zeros(n) == [j \in 1 .. n |-> Zero]
Insert(at, words) == SubSeq(data, 1, at) \o words \o SubSeq(data, at + 1, Len(data))

Init ==
  /\ input \in Inputs
  /\ NamesInit /\ plans = <<>> /\ error = "none"
  /\ data = input.data /\ segments = input.segments /\ tables = input.tables
  /\ starts = input.starts /\ fixups = input.fixups /\ commandsEnd = input.commandsEnd
  /\ offsets = <<>> /\ codeSize = 0 /\ dataBase = 0 /\ dataSize = 0 /\ inserted = 0
  /\ linkeditOff = 0 /\ linkeditVa = 0 /\ place = 0

-----------------------------------------------------------------------------
(* What is added: the code of each plugin, and its data if it has any.      *)
MakePlans ==
  /\ pc = "named"
  /\ LET wanted == {2 * i : i \in Plugins} \cup {2 * i + 1 : i \in {j \in Plugins : dataNames[j] # <<>>}}
         order  == Ascending(wanted)
         Of(w)  == LET i == w \div 2
                   IN  IF w = 2 * i
                       THEN [name |-> codeNames[i], size |-> input.plugins[i].code, writable |-> FALSE]
                       ELSE [name |-> dataNames[i], size |-> input.plugins[i].data, writable |-> TRUE]
     IN  plans' = [n \in DOMAIN order |-> Of(order[n])]
  /\ pc' = "signature"
  /\ UNCHANGED <<input, given, writer>>

RemoveSignatureBytes ==  \* mutant: the segment keeps its size
  /\ pc = "signature"
  /\ IF "signature" \notin DOMAIN tables THEN UNCHANGED <<data, tables, commandsEnd>>
     ELSE /\ data' = SubSeq(data, 1, tables["signature"].off)
          /\ tables' = [t \in DOMAIN tables \ {"signature"} |-> tables[t]]
          /\ commandsEnd' = commandsEnd - SignatureCommand
  /\ pc' = "room"
  /\ UNCHANGED <<asked, segments, starts, fixups, layout, target, error>>

\* The code signature would be wrong: its command goes, and its bytes if they
\* end the file.
RemoveSignature ==
  /\ pc = "signature"
  /\ IF "signature" \notin DOMAIN tables THEN UNCHANGED <<data, segments, tables, commandsEnd>>
     ELSE LET s == tables["signature"]
              holds == {j \in DOMAIN segments : segments[j].off <= s.off /\ s.off <= segments[j].off + segments[j].fsize}
              CutTo(g) == [g EXCEPT !.fsize = s.off - g.off, !.vsize = AlignUp(s.off - g.off, Page)]
          IN  /\ IF s.off + s.size = Len(data)
                 THEN /\ data' = SubSeq(data, 1, s.off)
                      /\ segments' = [j \in DOMAIN segments |->
                                        IF j \in holds /\ \A i \in holds : j <= i
                                        THEN CutTo(segments[j]) ELSE segments[j]]
                 ELSE UNCHANGED <<data, segments>>
              /\ tables' = [t \in DOMAIN tables \ {"signature"} |-> tables[t]]
              /\ commandsEnd' = commandsEnd - SignatureCommand
  /\ pc' = "room"
  /\ UNCHANGED <<asked, starts, fixups, layout, target, error>>

CommandSize == (IF Code = {} THEN 0 ELSE SegmentCommand + SectionCommand * Cardinality(Code))
               + (IF Data = {} THEN 0 ELSE SegmentCommand + SectionCommand * Cardinality(Data))

\* An offset of 0 is none: a section that has no bytes in the file.
ContentOffsets == (UNION {{segments[j].sections[n].off : n \in DOMAIN segments[j].sections} : j \in DOMAIN segments}) \ {0}
FirstContent == CHOOSE off \in ContentOffsets \cup {Len(data)} : \A o \in ContentOffsets \cup {Len(data)} : off <= o

HeaderRoom ==
  /\ pc = "room"
  /\ IF commandsEnd + CommandSize > FirstContent
     THEN pc' = "failed" /\ error' = "header" ELSE pc' = "place" /\ UNCHANGED error
  /\ UNCHANGED <<asked, data, segments, tables, starts, fixups, commandsEnd, layout, target>>

\* place_group: the sections of a group, one after the other from a cursor.
Ends(group, from) ==
  LET end[i \in 0 .. Len(plans)] ==
        IF i = 0 THEN from
        ELSE IF i \in group THEN AlignUp(end[i - 1], Align16) + plans[i].size
        ELSE end[i - 1]
  IN  end

PlaceGroupsTight ==  \* mutant: the data follows the code in the same page
  /\ pc = "place"
  /\ LET code == Ends(Code, 0)
         base == AlignUp(code[Len(plans)], Align16)
         end  == Ends(Data, base)
     IN  /\ offsets' = [i \in Plans |-> IF i \in Code THEN code[i] - plans[i].size
                                        ELSE end[i] - plans[i].size]
         /\ codeSize' = code[Len(plans)]
         /\ dataBase' = base /\ dataSize' = end[Len(plans)] - base
         /\ inserted' = AlignUp(end[Len(plans)], Page)
  /\ pc' = "shift"
  /\ UNCHANGED <<asked, data, segments, tables, starts, fixups, commandsEnd, target, error>>

PlaceGroups ==
  /\ pc = "place"
  /\ LET code == Ends(Code, 0)
         base == IF Code = {} THEN 0 ELSE AlignUp(code[Len(plans)], Page)
         end  == Ends(Data, base)
     IN  /\ offsets' = [i \in Plans |-> IF i \in Code THEN code[i] - plans[i].size
                                        ELSE end[i] - plans[i].size]
         /\ codeSize' = code[Len(plans)]
         /\ dataBase' = base /\ dataSize' = end[Len(plans)] - base
         /\ inserted' = AlignUp(end[Len(plans)], Page)
  /\ pc' = "shift"
  /\ UNCHANGED <<asked, data, segments, tables, starts, fixups, commandsEnd, target, error>>

-----------------------------------------------------------------------------
\* adjust32: an offset at or behind a point moves with it.
MovedPast(off, point, by) == IF off > point /\ off # 0 THEN off + by ELSE off  \* mutant
Moved(off, point, by) == IF off >= point /\ off # 0 THEN off + by ELSE off

MoveSections(g, point, by) ==
  [g EXCEPT !.sections = [n \in DOMAIN g.sections |->
                            [g.sections[n] EXCEPT !.off = Moved(g.sections[n].off, point, by)]]]

\* Room is made in front of __LINKEDIT, or at the end of the file.  That an
\* offset does not fit its 32 bits (src/src/binary_image.cpp:1210-1211) is left
\* out: the run ends before anything is written.
Shift ==
  /\ pc = "shift"
  /\ IF Linkedits(segments) # {}
     THEN LET j     == CHOOSE j \in Linkedits(segments) : TRUE
              point == segments[j].off
              MovedSegment(g) ==
                [MoveSections(g, point, inserted) EXCEPT !.off = Moved(@, point, inserted),
                                                         !.va = IF g.name = Linkedit THEN @ + inserted ELSE @]
          IN  /\ linkeditOff' = point /\ linkeditVa' = segments[j].va /\ place' = j
              /\ segments' = [i \in DOMAIN segments |-> MovedSegment(segments[i])]
              /\ tables' = [t \in DOMAIN tables |-> [tables[t] EXCEPT !.off = Moved(@, point, inserted)]]
              /\ data' = Insert(point, Zeros(inserted))
     ELSE LET fileEnd == CHOOSE n \in {Len(data)} \cup {segments[j].off + segments[j].fsize : j \in DOMAIN segments} :
                           \A m \in {segments[j].off + segments[j].fsize : j \in DOMAIN segments} :
                             m <= n /\ Len(data) <= n
              end     == CHOOSE n \in {0} \cup {segments[j].va + segments[j].vsize : j \in DOMAIN segments} :
                           \A j \in DOMAIN segments : segments[j].va + segments[j].vsize <= n
              from    == AlignUp(fileEnd, Page)
          IN  /\ linkeditOff' = from /\ linkeditVa' = AlignUp(end, Page) /\ place' = Len(segments) + 1
              /\ data' = data \o Zeros(from + dataBase + dataSize - Len(data))
              /\ UNCHANGED <<segments, tables>>
  /\ pc' = "caves"
  /\ UNCHANGED <<asked, starts, fixups, commandsEnd, layout, error>>

-----------------------------------------------------------------------------
(* The caves are named after what the plugins' segments have in common.     *)
CommonPrefix ==
  LET first  == plans[1].name
      shared == {n \in 0 .. Len(first) : \A i \in Plans : n <= Len(plans[i].name) /\ SubSeq(plans[i].name, 1, n) = SubSeq(first, 1, n)}
  IN  SubSeq(first, 1, CHOOSE n \in shared : \A m \in shared : m <= n)

CaveName(suffix) ==
  LET base  == IF CommonPrefix = <<>> THEN <<"armcave">> ELSE CommonPrefix
      short == IF Len(base) > MaxBase THEN SubSeq(base, 1, MaxBase) ELSE base
  IN  (IF Last(short) = "_" THEN short ELSE Append(short, "_")) \o <<suffix>>

CaveSectionsFromBase(group) ==  \* mutant: offsets taken as relative to the group's segment
  LET Of(i) == [name |-> plans[i].name, va |-> linkeditVa + offsets[i], size |-> plans[i].size,
                off |-> linkeditOff + offsets[i] + (IF i \in Data THEN dataBase ELSE 0)]
      chosen == Ascending(group)
  IN  [n \in DOMAIN chosen |-> Of(chosen[n])]

CaveSections(group) ==
  LET Of(i) == [name |-> plans[i].name, va |-> linkeditVa + offsets[i],
                size |-> plans[i].size, off |-> linkeditOff + offsets[i]]
      chosen == Ascending(group)
  IN  [n \in DOMAIN chosen |-> Of(chosen[n])]

Cave(suffix, base, size, group) ==
  [name |-> CaveName(suffix), va |-> linkeditVa + base, vsize |-> size,
   off |-> linkeditOff + base, fsize |-> size, sections |-> CaveSections(group)]

NewSegments == (IF Code = {} THEN <<>> ELSE <<Cave("code", 0, codeSize, Code)>>)
               \o (IF Data = {} THEN <<>> ELSE <<Cave("data", dataBase, dataSize, Data)>>)

WriteCaves ==
  /\ pc = "caves"
  /\ data' = [n \in DOMAIN data |->
                IF \E i \in Plans : n - 1 - linkeditOff \in offsets[i] .. offsets[i] + plans[i].size - 1
                THEN LET i == CHOOSE i \in Plans : n - 1 - linkeditOff
                                                   \in offsets[i] .. offsets[i] + plans[i].size - 1
                     IN  Content(i, n - 1 - linkeditOff - offsets[i])
                ELSE data[n]]
  /\ segments' = SubSeq(segments, 1, place - 1) \o NewSegments
                 \o SubSeq(segments, place, Len(segments))
  /\ commandsEnd' = commandsEnd + CommandSize
  /\ pc' = "code fixups"
  /\ UNCHANGED <<asked, tables, starts, fixups, layout, target, error>>

-----------------------------------------------------------------------------
(* update_macho_chained_fixups: the starts get an entry, of no fixups, for  *)
(* the segment inserted at an index.  The entries are counted from the      *)
(* blob, as parse_macho_chained_fixups counts them.                         *)
NewStartsKept(at, inside) ==  \* mutant: what the entries point to is not followed
  [n \in 1 .. Len(starts) + 1 |-> IF n = at + 1 THEN 0 ELSE starts[IF n <= at THEN n ELSE n - 1]]

NewStarts(at, inside) ==
  [n \in 1 .. Len(starts) + 1 |->
     IF n = at + 1 THEN 0 ELSE Moved(starts[IF n <= at THEN n ELSE n - 1], inside, 1)]

AddFixupStart(index) ==
  IF "fixups" \notin DOMAIN tables THEN UNCHANGED <<data, segments, tables, starts, fixups>>
  ELSE LET blob   == tables["fixups"].off
           at     == IF index < Len(starts) THEN index ELSE Len(starts)
           inside == fixups.starts + 1 + at
           point  == blob + inside
           MovedSegment(g) ==
             MoveSections(IF g.off <= point /\ point <= g.off + g.fsize
                          THEN [g EXCEPT !.fsize = @ + 1] ELSE [g EXCEPT !.off = Moved(@, point, 1)],
                          point, 1)
       IN  /\ data' = Insert(point, <<Zero>>)
           /\ segments' = [j \in DOMAIN segments |-> MovedSegment(segments[j])]
           /\ tables' = [t \in DOMAIN tables |->
                           [off |-> Moved(tables[t].off, point, 1),
                            size |-> IF t = "fixups" THEN tables[t].size + 1 ELSE tables[t].size]]
           /\ fixups' = [fixups EXCEPT !.imports = Moved(@, inside, 1), !.symbols = Moved(@, inside, 1)]
           /\ starts' = NewStarts(at, inside)

FixCode ==
  /\ pc = "code fixups"
  /\ IF Code = {} THEN UNCHANGED <<data, segments, tables, starts, fixups>> ELSE AddFixupStart(place - 1)
  /\ pc' = "data fixups"
  /\ UNCHANGED <<asked, commandsEnd, layout, target, error>>

FixData ==
  /\ pc = "data fixups"
  /\ IF Data = {} THEN UNCHANGED <<data, segments, tables, starts, fixups>>
     ELSE AddFixupStart(IF Code = {} THEN place - 1 ELSE place)
  /\ pc' = "done"
  /\ UNCHANGED <<asked, commandsEnd, layout, target, error>>

Naming == (NamePlugin \/ CheckFile) /\ UNCHANGED <<plans, writer>>

Next == Naming \/ MakePlans \/ RemoveSignature \/ HeaderRoom \/ PlaceGroups \/ Shift \/ WriteCaves \/ FixCode \/ FixData

Spec == Init /\ [][Next]_vars

-----------------------------------------------------------------------------
(* Finding a section again, in segment.cpp.                                 *)
First(numbers) == CHOOSE n \in numbers : \A m \in numbers : n <= m

\* The first of the sections that are found, by segment.
FirstSection(found) ==
  LET j == First({i \in DOMAIN segments : found[i] # {}}) IN segments[j].sections[First(found[j])]

NamedSections(j, name) == {n \in DOMAIN segments[j].sections : segments[j].sections[n].name = name}

\* seg_va looks at the segments first, segment_file_offset at the sections.
SegVa(name) ==
  LET called == {j \in DOMAIN segments : segments[j].name = name}
  IN  IF called # {} THEN segments[First(called)].va
      ELSE FirstSection([j \in DOMAIN segments |-> NamedSections(j, name)]).va

\* A section also goes by the name of its segment.
SegmentFileOffset(name) ==
  FirstSection([j \in DOMAIN segments |-> IF segments[j].name = name THEN DOMAIN segments[j].sections
                                          ELSE NamedSections(j, name)]).off

-----------------------------------------------------------------------------
\* The names of the file, those given, and those of the caves.
NamesNow == NamesOf(input.segments) \cup used \cup (IF plans = <<>> THEN {} ELSE {CaveName("code"), CaveName("data")})

TypeOK ==
  /\ NamesTyped /\ plans \in Seq(Plan(used))
  /\ pc \in {"name", "named", "signature", "room", "place", "shift", "caves", "code fixups", "data fixups", "done", "failed"}
  /\ segments \in Seq(Segment(NamesNow))
  /\ DOMAIN tables \subseteq Tables
  /\ starts \in Seq(Nat) /\ commandsEnd \in Nat
  /\ \A j \in DOMAIN segments : segments[j].off + segments[j].fsize <= Len(data)

(* What is in the file keeps its place in memory, and what __LINKEDIT       *)
(* holds is found where its load command now says.                          *)
Follows ==
  pc = "done" =>
    /\ TablesHeld(segments, data, tables)
    /\ \A j \in DOMAIN input.segments : input.segments[j].name # Linkedit =>
         \E i \in DOMAIN segments :
           /\ segments[i] = input.segments[j]
           /\ \A n \in segments[i].off + 1 .. segments[i].off + segments[i].fsize : data[n] = input.data[n]

FixupsOf(base, bytes, parts, at, entries, where) ==
  ReadFixups([base |-> base, data |-> bytes, segments |-> parts, blob |-> at["fixups"], starts |-> entries,
              first |-> where.starts, imports |-> where.imports, symbols |-> where.symbols])

\* Where in the blob the entries of the caves are inserted, and the entries
\* that are not below a point of it.
EntryPoint == input.fixups.starts + 1 + (IF place - 1 < Len(input.starts) THEN place - 1 ELSE Len(input.starts))
Led(entries, from) == [j \in DOMAIN entries |-> IF from <= entries[j] THEN entries[j] ELSE 0]

(* A segment whose entry is not below the point, counted from the blob,     *)
(* where the entries of the caves are inserted, keeps its fixups: each at   *)
(* its address, with its target or with the import it is bound to, whatever *)
(* is inserted in front of what leads to it; and the caves have none.  So   *)
(* the loader reads it, and so does the parser.  The other segments are     *)
(* left out: their entries stay while what they lead to moves               *)
(* (src/src/binary_image.cpp:608), so the loader loses them; see            *)
(* FixupsLoaded.                                                            *)
FixupsFollow ==
  pc = "done" /\ "fixups" \in DOMAIN tables =>
    \A base \in {0, input.fixups.starts} :
      FixupsOf(base, data, segments, tables, Led(starts, EntryPoint + (Len(starts) - Len(input.starts))), fixups)
        = FixupsOf(base, input.data, input.segments, input.tables, Led(input.starts, EntryPoint), input.fixups)

(* "currently supports [...] Mach-O chained fixups" (README.md:41-44): the  *)
(* loader reads the same fixups from the file that was written as from the  *)
(* one that was given.  The code does not keep this: see FixupsFollow.      *)
FixupsLoaded ==
  pc = "done" /\ "fixups" \in DOMAIN tables =>
    FixupsOf(fixups.starts, data, segments, tables, starts, fixups)
      = FixupsOf(input.fixups.starts, input.data, input.segments, input.tables, input.starts, input.fixups)

(* No two segments share a page in memory, or a byte in the file: if both   *)
(* caves shared a page, the data mapping would remap the tail page of the   *)
(* code cave, and that code would not be executable (README.md:136-139).    *)
(* The load commands, which grow, end before the first section.  And no     *)
(* segment is larger in the file than in memory, but for __LINKEDIT by the  *)
(* entries of its fixups: its size in memory does not grow with them.       *)
NothingOverlaps ==
  pc = "done" =>
    /\ commandsEnd <= FirstContent
    /\ SegmentsApart(segments)
    /\ SegmentsHeld(segments, data, Len(starts) - Len(input.starts))

\* A section that has the name of a cave is found only if it is the first in it.
Shadowed(i) == \/ plans[i].name = CaveName("code")
               \/ plans[i].name = CaveName("data") /\ \E j \in Data : i \in Code \/ j < i

(* A plugin finds its own section by its name: its address and its offset   *)
(* lead to the room made for it and to nobody else's ("isolated from one    *)
(* another", docs/architecture.md:25), unless it is shadowed.               *)
FoundByName ==
  pc = "done" => \A i \in {j \in Plans : ~Shadowed(j)} :
    /\ SegVa(plans[i].name) = linkeditVa + offsets[i]
    /\ SegmentFileOffset(plans[i].name) + plans[i].size <= Len(data)
    /\ \A n \in 0 .. plans[i].size - 1 :
         data[SegmentFileOffset(plans[i].name) + n + 1] = Content(i, n)
=============================================================================
