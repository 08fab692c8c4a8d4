---------------------------- MODULE ImageTables ----------------------------
(***************************************************************************)
(* What a parsed file knows (BinaryImage, src/src/binary_image.cpp): where *)
(* an address is in the file, the symbols, the imports of an ELF with the  *)
(* slots and stubs they are reached by, and the names an indirect symbol   *)
(* stands for in a Mach-O.                                                 *)
(*                                                                         *)
(* A file is a sequence of cells, each an instruction, a pointer, a string *)
(* or the head of a list, [is, arg]; sizes and addresses count cells.  A   *)
(* name is a sequence of symbols.  0 is no address.                        *)
(***************************************************************************)
EXTENDS Integers, Sequences, FiniteSets, SequencesExt

CONSTANTS HighBits  \* of a pointer, above its address

PointerAssumption == HighBits \in Nat \ {0}

None == 0

Cell(img, off) == img.cells[off + 1]
Covers(part, size, va) == part.va <= va /\ va - part.va < size

\* virtual_address_to_offset: the segments are asked first, then the sections.
Segments(img, va) == SelectSeq(img.segments, LAMBDA g : Covers(g, g.fsize, va))
Sections(img, va) == SelectSeq(img.sections, LAMBDA s : Covers(s, s.size, va))
Mapped(img, va) == Segments(img, va) # <<>> \/ Sections(img, va) # <<>>
OffsetOf(img, va) ==
  LET part == IF Segments(img, va) # <<>> THEN Head(Segments(img, va)) ELSE Head(Sections(img, va))
  IN  part.off + (va - part.va)

Readable(img, va) == Mapped(img, va) /\ OffsetOf(img, va) < Len(img.cells)
At(img, va) == Cell(img, OffsetOf(img, va))
Holds(img, va, kind) == Readable(img, va) /\ At(img, va).is = kind

Named(list, name) == SelectSeq(list, LAMBDA e : e.name = name)
FirstOr(list, field(_), otherwise) == IF list = <<>> THEN otherwise ELSE field(Head(list))

-----------------------------------------------------------------------------
(* The dynamic symbols of an ELF.  How many there are is not recorded: it   *)
(* is the number of chains of the hash table or, with only the GNU table,   *)
(* the end of the chain of the last bucket or, if that table is empty,      *)
(* whatever fits between the symbols and the strings.                       *)
EndOfChain(gnu, last) ==
  LET ends == {n \in last .. gnu.first + Len(gnu.chain) - 1 : gnu.chain[n - gnu.first + 1]}
  IN  IF ends = {} THEN gnu.first + Len(gnu.chain)
      ELSE (CHOOSE n \in ends : \A m \in ends : n <= m) + 1

GnuCount(gnu) ==
  LET last == CHOOSE n \in ToSet(gnu.buckets) \cup {0} : \A m \in ToSet(gnu.buckets) : m <= n
  IN  IF last >= gnu.first THEN EndOfChain(gnu, last) ELSE 0

SymbolCount(file) ==
  IF file.hash # 0 THEN file.hash
  ELSE IF GnuCount(file.gnu) # 0 THEN GnuCount(file.gnu)
  ELSE file.gap

DynamicSymbols(file) ==
  IF SymbolCount(file) > Len(file.table) THEN <<>> ELSE SubSeq(file.table, 1, SymbolCount(file))

SlotTypes == {"GLOB_DAT", "JUMP_SLOT", "RELATIVE"}

\* Symbols are numbered from 0.
Imports(file, symbols) ==
  LET kept == SelectSeq(file.relas, LAMBDA r : /\ r.index < Len(symbols) /\ symbols[r.index + 1].name # <<>>
                                               /\ r.type \in SlotTypes)
  IN  [n \in DOMAIN kept |-> [name |-> symbols[kept[n].index + 1].name, slot |-> kept[n].slot, stub |-> None]]

\* A stub is known by its four instructions; of two that load from one slot the
\* last one counts, of two imports with one slot the first.
StubCode == <<"adrp", "ldr", "add", "br">>
IsStub(file, off, slot) ==
  /\ off + 4 <= Len(file.cells)
  /\ \A n \in 0 .. 3 : Cell(file, off + n).is = StubCode[n + 1]
  /\ Cell(file, off).arg + Cell(file, off + 1).arg = slot
StubsOf(file, slot) ==
  UNION {{g.va + n : n \in {m \in 0 .. g.fsize - 4 : IsStub(file, g.off + m, slot)}} :
         g \in {h \in ToSet(file.segments) : h.exec}}

WithStubs(file, imports) ==
  [n \in DOMAIN imports |->
     LET found == StubsOf(file, imports[n].slot)
         first == \A m \in 1 .. n - 1 : imports[m].slot # imports[n].slot
     IN  IF first /\ found # {} THEN [imports[n] EXCEPT !.stub = CHOOSE p \in found : \A q \in found : q <= p]
         ELSE imports[n]]

-----------------------------------------------------------------------------
SymbolAddress(img, name) ==
  FirstOr(SelectSeq(img.symbols, LAMBDA s : s.name = name /\ s.defined /\ s.value # None), LAMBDA s : s.value, None)
ImportSlot(img, name) ==
  FirstOr(SelectSeq(img.imports, LAMBDA i : i.name = name /\ i.slot # None), LAMBDA i : i.slot, None)
ImportStub(img, name) ==
  FirstOr(SelectSeq(img.imports, LAMBDA i : i.name = name /\ i.stub # None), LAMBDA i : i.stub, None)

\* The symbol tables of a Mach-O: an indirect symbol that is local or absolute,
\* or that is not in the table, has no name.
IndirectNames(file) ==
  [n \in DOMAIN file.indirect |->
     IF file.indirect[n] \in 0 .. Len(file.table) - 1 THEN file.table[file.indirect[n] + 1].name ELSE <<>>]

\* The names of the entries of a table of stubs or of pointers, by its place.
Entries(section, step) == [i \in 1 .. section.size \div step |-> section.va + (i - 1) * step]
EntryName(img, section, i) ==
  IF section.first + i \in DOMAIN img.indirect THEN img.indirect[section.first + i] ELSE <<>>
=============================================================================
