--------------------------- MODULE ChainedFixups ---------------------------
(***************************************************************************)
(* What is read from the chained fixups of a Mach-O, by the parser of this *)
(* program (BinaryImage::parse_macho_chained_fixups,                       *)
(* src/src/binary_image.cpp) and by the loader.  The blob in __LINKEDIT    *)
(* gives, for every segment that has fixups, where in each page the first  *)
(* pointer of a chain is, or several; a pointer says how far the next one  *)
(* is.  It is rebased, or bound to an import, whose name is among the      *)
(* strings of the blob.  The two readings differ in where the entry of a   *)
(* segment is counted from: the parser counts from the blob, the loader,   *)
(* as linkers do, from the starts, which the entries are part of.          *)
(*                                                                         *)
(* Offsets and sizes are in 4-byte words, and a pointer has two.  What the *)
(* entry of a segment leads to, an import and a string are a word each:    *)
(* <<"info", [...]>>, <<"import", n>>, <<"string", s>>, and the first word *)
(* of a pointer is <<"pointer", [bind, to, next]>>.                        *)
(***************************************************************************)
EXTENDS Integers, Sequences, SequencesExt

NoChain == [is |-> "none", at |-> 0]

\* virtual_address_to_offset, for what the segments map.
MappedBy(segments, va) == {j \in DOMAIN segments : segments[j].va <= va /\ va - segments[j].va < segments[j].fsize}
FileOffset(segments, va) ==
  LET j == CHOOSE j \in MappedBy(segments, va) : \A i \in MappedBy(segments, va) : j <= i
  IN  segments[j].off + (va - segments[j].va)

HasPointer(f, va) == MappedBy(f.segments, va) # {} /\ FileOffset(f.segments, va) + 2 <= Len(f.data)
PointerAt(f, va) ==
  LET word == f.data[FileOffset(f.segments, va) + 1]
  IN  IF word[1] = "pointer" THEN word[2] ELSE [bind |-> FALSE, to |-> 0, next |-> 0]

LowestVa(segments) ==
  LET vas == {segments[j].va : j \in {i \in DOMAIN segments : segments[i].fsize # 0}}
  IN  IF vas = {} THEN 0 ELSE CHOOSE va \in vas : \A other \in vas : va <= other

\* An import that lies outside the blob, or whose name does, has none.
InBlob(f, off) == off < f.blob.size
Word(f, off) == f.data[f.blob.off + off + 1]
ImportName(f, n) ==
  IF ~InBlob(f, f.imports + n) \/ Word(f, f.imports + n)[1] # "import" THEN <<>>
  ELSE LET at == f.symbols + Word(f, f.imports + n)[2]
       IN  IF InBlob(f, at) /\ Word(f, at)[1] = "string" THEN Word(f, at)[2] ELSE <<>>

Fixup(f, info, va) ==
  LET p == PointerAt(f, va)
  IN  [address |-> va, bind |-> p.bind,
       symbol |-> IF p.bind THEN ImportName(f, p.to) ELSE <<>>,
       target |-> IF p.bind THEN 0 ELSE IF info.relative THEN p.to + LowestVa(f.segments) ELSE p.to]

\* walk_chain: to the end of the page, of the chain or of the file.
Chain(f, info, segment, page, from) ==
  LET va(at) == segment.va + (page - 1) * info.page + at
      walk[at \in 0 .. info.page] ==
        IF at = info.page \/ ~HasPointer(f, va(at)) THEN {}
        ELSE LET next == PointerAt(f, va(at)).next
             IN  {Fixup(f, info, va(at))}
                 \cup (IF next = 0 \/ at + next >= info.page THEN {} ELSE walk[at + next])
  IN  IF from >= info.page THEN {} ELSE walk[from]

\* The chains of a page: none, one, or those listed up to one that is the last.
Chains(info, page) ==
  CASE info.pages[page].is = "none" -> {}
    [] info.pages[page].is = "chain" -> {info.pages[page].at}
    [] info.pages[page].is = "list" ->
         {info.more[n].at : n \in {m \in info.pages[page].at .. Len(info.more) :
                                     \A k \in info.pages[page].at .. m - 1 : ~info.more[k].last}}

\* An entry of 0 is none.
OfSegment(f, j) ==
  LET at == f.base + f.starts[j]
  IN  IF f.starts[j] = 0 \/ ~InBlob(f, at) \/ j \notin DOMAIN f.segments \/ Word(f, at)[1] # "info" THEN {}
      ELSE LET info == Word(f, at)[2]
           IN  UNION {UNION {Chain(f, info, f.segments[j], page, from) : from \in Chains(info, page)} :
                      page \in DOMAIN info.pages}

\* `f' is a file with its segments, the blob's place and size, the offsets that
\* are counted from it, the entries of the segments, and the offset these are
\* counted from: 0 for the parser, that of the starts for the loader.
ReadFixups(f) ==
  IF \/ f.blob.off + f.blob.size > Len(f.data)
     \/ \E off \in {f.first, f.imports, f.symbols} : ~InBlob(f, off)
     \/ f.first + 1 + Len(f.starts) > f.blob.size
  THEN {} ELSE UNION {OfSegment(f, j) : j \in DOMAIN f.starts}
=============================================================================
