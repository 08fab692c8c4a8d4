----------------------------- MODULE BinaryCache -----------------------------
(***************************************************************************)
(* The output file and the one parsed image kept of it (binary_cache,      *)
(* src/src/pipeline.cpp).  An image is reused while the file has the size  *)
(* and the modification time it was stamped with; a modification time is   *)
(* only as fine as the file system's clock, so two writes may share one.   *)
(***************************************************************************)
EXTENDS Naturals

VARIABLES output,   \* the file: its bytes, their number, and when it was written
          slot      \* the image: the bytes parsed, and the stamp it is kept under

\* Time 0 is before every file: no image matches it.
NoFile(bytes) == [bytes |-> bytes, size |-> 0, time |-> 0]

Hit == slot.time # 0 /\ slot.time = output.time /\ slot.size = output.size

\* What parse_binary returns, and what it leaves in the slot.
Parsed == IF Hit THEN slot.bytes ELSE output.bytes
ParseBinary == slot' = [output EXCEPT !.bytes = Parsed]

\* Takes over the image of a file just written.
PrimeCache == slot' = output'

\* After an overwrite in place: the image is kept, only its stamp moves.
RefreshStamp == slot' = IF slot.time = 0 THEN slot ELSE [output EXCEPT !.bytes = slot.bytes]

\* A write leaves bytes of some size, at a time not before the last one; with a
\* coarse clock it may be the same.
WriteAt(bytes, size, coarse) ==
  \E tick \in IF coarse THEN {0, 1} ELSE {1} :
    output' = [bytes |-> bytes, size |-> size, time |-> output.time + tick]
=============================================================================
