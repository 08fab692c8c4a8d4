--------------------------- MODULE MCImageWriters --------------------------
(***************************************************************************)
(* The caves are added to one file, in the way of its format: a Mach-O     *)
(* file, an ELF file, or a file of several slices whose chosen one grows   *)
(* (BinaryImage::add_segments).  The writers of the other formats stay     *)
(* where they begin, with some file that is not looked at.                 *)
(***************************************************************************)
EXTENDS MCMachoWriter

CONSTANTS SmallPage, ProgramEntry, SectionEntry, MaxEntries, NullName, TableName,
          Arm64, MaxSlices, Limit, CaveSize

VARIABLES format,
          elfInput, elfPc, elfData, programs, programsOff, sections, sectionsOff, names,
          page, region, nextVa, elfOffsets, codeEnd, dataStart, cavesEnd, elfError,
          fatInput, fatPc, file, image, caveOff

elfVars == <<elfInput, elfPc, elfData, programs, programsOff, sections, sectionsOff, names,
             page, region, nextVa, elfOffsets, codeEnd, dataStart, cavesEnd, elfError>>
fatVars == <<fatInput, fatPc, file, image, caveOff>>

ElfGiven == INSTANCE MCElfWriter WITH Inputs <- {}, input <- elfInput, pc <- elfPc, data <- elfData,
                                      offsets <- elfOffsets, error <- elfError
ElfInputs == ElfGiven!MCInputs
Elf == INSTANCE ElfWriter WITH Inputs <- ElfInputs, input <- elfInput, pc <- elfPc, data <- elfData,
                               offsets <- elfOffsets, error <- elfError

FatGiven == INSTANCE MCFatImage WITH Inputs <- {}, input <- fatInput, pc <- fatPc
FatInputs == FatGiven!MCInputs
Fat == INSTANCE FatImage WITH Inputs <- FatInputs, input <- fatInput, pc <- fatPc

ASSUME FormatsAssumption == Elf!WriterAssumption /\ Fat!FatAssumption

SomeMacho == CHOOSE i \in MCInputs : TRUE
SomeElf == CHOOSE i \in ElfInputs : TRUE
SomeFat == CHOOSE i \in FatInputs : TRUE

WritersInit ==
  \/ format = "Mach-O" /\ elfInput = SomeElf /\ fatInput = SomeFat /\ Elf!Init /\ Fat!Init /\ Init
  \/ format = "ELF" /\ input = SomeMacho /\ fatInput = SomeFat /\ Init /\ Fat!Init /\ Elf!Init
  \/ format = "universal" /\ input = SomeMacho /\ elfInput = SomeElf /\ Init /\ Elf!Init /\ Fat!Init

WritersNext ==
  \/ format = "Mach-O" /\ Next /\ UNCHANGED <<format, elfVars, fatVars>>
  \/ format = "ELF" /\ Elf!Next /\ UNCHANGED <<format, vars, fatVars>>
  \/ format = "universal" /\ Fat!Next /\ UNCHANGED <<format, vars, elfVars>>

WritersSpec == WritersInit /\ [][WritersNext]_<<format, vars, elfVars, fatVars>>

-----------------------------------------------------------------------------
(* The state of the ELF writer stays within its types.                     *)
ElfTypeOK == Elf!TypeOK

(* An ELF file is the file it was, and the loader can map it, with the     *)
(* moved program table and the two caves (ElfWriter).                      *)
ElfLoadable == Elf!Loadable

(* In an ELF file each plugin finds its section by its name (ElfWriter).   *)
ElfFoundByName == Elf!FoundByName

(* The state of a universal file stays within its types.                   *)
FatTypeOK == Fat!TypeOK

(* Of a universal file, the slice that grew is what is read again, and the *)
(* others are kept; one that cannot hold it is left as it was (FatImage).  *)
SlicesKept == Fat!SlicesKept
=============================================================================
