------------------------------ MODULE Aarch64 ------------------------------
(***************************************************************************)
(* Reach of the AArch64 PC-relative encodings and the size of the branch   *)
(* and address sequences ArmCaveHook emits (src/src/aarch64/encoder.cpp).  *)
(* Addresses are byte addresses.  The reach of every immediate is a        *)
(* constant, in bytes, so that TLC can work with short distances while the *)
(* proofs hold for the architectural ones: +-128MB for B and BL, +-1MB for *)
(* B.cond, CBZ, CBNZ, ADR and LDR (literal), +-32KB for TBZ and TBNZ, and  *)
(* +-4GB in pages of 4KB for ADRP.                                         *)
(***************************************************************************)
EXTENDS Integers

CONSTANTS Reach26, Reach19, Reach14, Reach21, ReachPages, PageSize

ASSUME ReachAssumption ==
  /\ {Reach26, Reach19, Reach14, Reach21, ReachPages, PageSize} \subseteq Nat \ {0}
  /\ Reach26 % 4 = 0 /\ Reach19 % 4 = 0 /\ Reach14 % 4 = 0
  /\ PageSize % 4 = 0 /\ ReachPages % PageSize = 0

Aligned(a) == a % 4 = 0
PageOf(a) == a - (a % PageSize)

Within(source, target, reach) == /\ -reach <= target - source
                                 /\ target - source < reach

FitsWords(source, target, reach) == /\ (target - source) % 4 = 0
                                    /\ Within(source, target, reach)

FitsBranch26(source, target)   == FitsWords(source, target, Reach26)
FitsBranch19(source, target)   == FitsWords(source, target, Reach19)
FitsBranch14(source, target)   == FitsWords(source, target, Reach14)
FitsLdrLiteral(source, target) == FitsWords(source, target, Reach19)
FitsAdr(source, target)        == Within(source, target, Reach21)
FitsAdrp(source, target)       == Within(PageOf(source), PageOf(target), ReachPages)

\* How many words are emitted for a load of an absolute address (MOVZ and
\* three MOVK), for an address (ADRP and ADD if in reach) and for a branch
\* (B or BL if in reach, BR or BLR otherwise).
LoadImmediateWords == 4
AddressWords(source, target) == IF FitsAdrp(source, target) THEN 2 ELSE LoadImmediateWords
BranchWords(source, target) ==
  IF FitsBranch26(source, target) THEN 1 ELSE AddressWords(source, target) + 1

\* The sizes by which room is made for them before their address is known.
AddressSequenceSize(source, target) ==
  IF FitsAdrp(source, target) THEN 8 ELSE 16

BranchSequenceSize(source, target) ==
  IF FitsBranch26(source, target) THEN 4 ELSE AddressSequenceSize(source, target) + 4

MaxBranchSequenceBytes == 20

\* every relocated instruction takes at most a skip and a far branch
MaxRelocatedSizeNoSkip(inputSize) == (inputSize \div 4) * 20  \* mutant: no skip
MaxRelocatedSize(inputSize) == (inputSize \div 4) * 24
=============================================================================
