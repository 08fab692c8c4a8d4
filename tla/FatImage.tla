----------------------------- MODULE FatImage ------------------------------
(***************************************************************************)
(* A file of several slices, one per processor (BinaryImage::parse,        *)
(* serialized and write, src/src/binary_image.cpp), and the way of a cave  *)
(* into it: the slice for arm64 is taken out, grows by the caves, is       *)
(* written back between the others, and is filled afterwards at the        *)
(* offset the image knows (add_segments and write_at_offset, segment.cpp). *)
(*                                                                         *)
(* Sizes and offsets are in 4-byte words.  A file is its table of slices   *)
(* and its words, each named by what it belongs to; a thin file has no     *)
(* table.  Every slice is a Mach-O file that the parser accepts.           *)
(***************************************************************************)
EXTENDS Integers, Sequences, FiniteSets, SequencesExt

CONSTANTS Arm64, MaxSlices, Limit,  \* the greatest 32-bit offset
          CaveSize, Inputs

Entry == [cpu : STRING, off : Nat, size : Nat, align : Nat]

FatAssumption ==
  /\ {MaxSlices, Limit, CaveSize} \subseteq Nat \ {0}
  /\ \A i \in Inputs : i.table \in Seq(Entry) /\ i.fat64 \in BOOLEAN

NoImage == [slices |-> <<>>, table |-> <<>>, selected |-> 0, fat64 |-> FALSE, data |-> <<>>]

VARIABLES input, pc,
          file,     \* what is on the disk: the table, its width and the words
          image,    \* fat_slices_, selected_slice_, fat64_ and data_
          caveOff   \* segment_file_offset of the cave

vars == <<input, pc, file, image, caveOff>>

Pad == <<"pad">>
EntrySize(fat64) == IF fat64 THEN 8 ELSE 5
AlignUp(n, to) == n + ((-n) % to)

\* Each entry's part of a file, if they all lie in it.
Slice(f, i) == SubSeq(f.words, f.table[i].off + 1, f.table[i].off + f.table[i].size)
InFile(f) == \A i \in DOMAIN f.table : f.table[i].off + f.table[i].size <= Len(f.words)

Init ==
  /\ input \in Inputs
  /\ file = input /\ image = NoImage
  /\ pc = "parse" /\ caveOff = 0

\* The last arm64 slice, or the last of all.
Select(table) ==
  LET arm == {i \in DOMAIN table : table[i].cpu = Arm64}
  IN  IF arm = {} THEN Len(table) ELSE CHOOSE i \in arm : \A j \in arm : j <= i

Parsed(f) ==
  IF f.fat = FALSE THEN [NoImage EXCEPT !.data = f.words]
  ELSE LET chosen == Select(f.table)
       IN  [slices |-> [i \in DOMAIN f.table |-> Slice(f, i)], table |-> f.table, selected |-> chosen,
            fat64 |-> f.fat64, data |-> Slice(f, chosen)]

Parse ==
  /\ pc = "parse"
  /\ IF file.fat /\ (file.table = <<>> \/ Len(file.table) > MaxSlices \/ ~InFile(file))
     THEN pc' = "failed" /\ UNCHANGED image
     ELSE pc' = "grow" /\ image' = Parsed(file)
  /\ UNCHANGED <<input, file, caveOff>>

\* add_macho_sections: the slice grows by the cave, whose offset is counted
\* from the slice's own beginning.
Grow ==
  /\ pc = "grow"
  /\ caveOff' = Len(image.data)
  /\ image' = [image EXCEPT !.data = @ \o [n \in 1 .. CaveSize |-> <<"cave", n>>]]
  /\ pc' = "write"
  /\ UNCHANGED <<input, file>>

-----------------------------------------------------------------------------
\* serialized: the slices with the image's in its place, each behind the
\* ones before it at its alignment.
NewSlices == [image.slices EXCEPT ![image.selected] = image.data]

Alignment(i) == IF image.table[i].align < 63 THEN 2 ^ image.table[i].align ELSE 1

OffsetsTight ==  \* mutant: the alignment is forgotten
  LET off[i \in 0 .. Len(NewSlices)] ==
        IF i = 0 THEN 2 + EntrySize(image.fat64) * Len(NewSlices)
        ELSE off[i - 1] + (IF i = 1 THEN 0 ELSE Len(NewSlices[i - 1]))
  IN  off

Offsets ==
  LET off[i \in 0 .. Len(NewSlices)] ==
        IF i = 0 THEN 2 + EntrySize(image.fat64) * Len(NewSlices)
        ELSE AlignUp(off[i - 1] + (IF i = 1 THEN 0 ELSE Len(NewSlices[i - 1])), Alignment(i))
  IN  off

NewTableOldOffsets ==  \* mutant: the offsets as they were read
  [i \in DOMAIN NewSlices |-> [image.table[i] EXCEPT !.size = Len(NewSlices[i])]]

NewTable == [i \in DOMAIN NewSlices |-> [image.table[i] EXCEPT !.off = Offsets[i], !.size = Len(NewSlices[i])]]

Serialized ==
  [fat |-> TRUE, fat64 |-> image.fat64, table |-> NewTable,
   words |-> FoldLeft(LAMBDA words, i : words \o [n \in 1 .. Offsets[i] - Len(words) |-> Pad] \o NewSlices[i],
                      <<>>, [i \in DOMAIN NewSlices |-> i])]

TooFar == ~image.fat64 /\ \E i \in DOMAIN NewSlices : Offsets[i] > Limit \/ Len(NewSlices[i]) > Limit

\* The bytes are put together before the file is opened for them.
Write ==
  /\ pc = "write"
  /\ IF input.fat /\ TooFar THEN pc' = "failed" /\ UNCHANGED file
     ELSE /\ file' = IF input.fat THEN Serialized ELSE [file EXCEPT !.words = image.data]
          /\ pc' = "written"
  /\ UNCHANGED <<input, image, caveOff>>

\* write_at_offset: the cave's code, at the image's offset in the file.
Fill ==
  /\ pc = "written"
  /\ file' = [file EXCEPT !.words = [n \in DOMAIN @ |-> IF n - caveOff \in 1 .. CaveSize
                                                        THEN <<"code", n - caveOff>> ELSE @[n]]]
  /\ pc' = "filled"
  /\ UNCHANGED <<input, image, caveOff>>

Next == Parse \/ Grow \/ Write \/ Fill

Spec == Init /\ [][Next]_vars

-----------------------------------------------------------------------------
TypeOK ==
  /\ input \in Inputs
  /\ pc \in {"parse", "grow", "write", "written", "filled", "failed"}
  /\ file.table \in Seq(Entry) /\ image.table \in Seq(Entry)
  /\ image.selected \in 0 .. Len(image.table)
  /\ caveOff \in Nat
  /\ pc # "parse" /\ pc # "failed" => InFile(file)

\* A table that cannot hold the offsets is not written: the file stays what
\* it was.
LimitKept ==
  /\ pc = "failed" => file = input
  /\ file.fat /\ ~file.fat64 => \A i \in DOMAIN file.table : file.table[i].off <= Limit /\ file.table[i].size <= Limit

\* An arm64 slice gets the cave whenever there is one, and no other.
CaveInArm64 ==
  \A i \in DOMAIN file.table :
    (\E n \in DOMAIN Slice(file, i) : Slice(file, i)[n][1] = "cave")
    => file.table[i].cpu = Arm64 \/ \A j \in DOMAIN input.table : input.table[j].cpu # Arm64

(* What is written is what was read, but for the slice that grew, which is  *)
(* an arm64 one if there is any: every other slice is whole, at its         *)
(* alignment, behind the table and clear of the rest, and whoever reads the *)
(* file again gets the slice that grew, cave and all.  A file that cannot   *)
(* hold it is left as it was.                                               *)
SlicesKept ==
  /\ LimitKept
  /\ pc = "written" /\ input.fat => CaveInArm64
  /\ pc = "written" =>
    /\ Parsed(file).data = image.data
    /\ input.fat =>
         /\ file.table # <<>> /\ Len(file.table) = Len(input.table)
         /\ \A i \in DOMAIN file.table :
              /\ file.table[i].cpu = input.table[i].cpu
              /\ file.table[i].off >= 2 + EntrySize(file.fat64) * Len(file.table)
              /\ file.table[i].align < 63 => file.table[i].off % (2 ^ file.table[i].align) = 0
              /\ \A j \in 1 .. i - 1 : file.table[j].off + file.table[j].size <= file.table[i].off
              /\ i # image.selected => Slice(file, i) = Slice(input, i)

(* The code written at the image's offset is in the cave, and only there:   *)
(* the image "inside is what was written" (segment.cpp:148).                *)
CaveFilled ==
  pc = "filled" =>
    /\ \A n \in 1 .. CaveSize : Parsed(file).data[caveOff + n] = <<"code", n>>
    /\ SubSeq(Parsed(file).data, 1, caveOff) = SubSeq(image.data, 1, caveOff)
    /\ \A i \in DOMAIN input.table : i # image.selected => Slice(file, i) = Slice(input, i)
=============================================================================
