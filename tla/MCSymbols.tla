----------------------------- MODULE MCSymbols -----------------------------
(***************************************************************************)
(* What a plugin names, and what its code refers to: either a file is      *)
(* parsed and names are looked up in it (Lookup), or plugins are compiled  *)
(* against known addresses and their relocations and patches are resolved  *)
(* (PluginRelocs and PatchText).  What is not looked at stays where it     *)
(* begins, with some input.                                                *)
(***************************************************************************)
EXTENDS MCPluginRelocs

CONSTANTS HighBits, MaxMethods, StubStep

VARIABLES lookingUp, asked, lookupPc, image, address, addresses, bound, lookupError

lookupVars == <<asked, lookupPc, image, address, addresses, bound, lookupError>>

Given == INSTANCE MCLookup WITH Inputs <- {}, Demangle <- LAMBDA name : <<>>,
                                input <- asked, pc <- lookupPc, error <- lookupError
Asked == Given!MCInputs
Look == INSTANCE Lookup WITH Inputs <- Asked, Demangle <- Given!MCDemangle,
                             input <- asked, pc <- lookupPc, error <- lookupError

ASSUME LookupAssumption == Look!PointerAssumption /\ Look!MetadataAssumption

SomePlugins == CHOOSE i \in MCInputs : TRUE
SomeLookup == CHOOSE i \in Asked : TRUE

SymbolsInit ==
  \/ lookingUp = TRUE /\ input = SomePlugins /\ PInit /\ Look!Init
  \/ lookingUp = FALSE /\ asked = SomeLookup /\ Look!Init /\ PInit

SymbolsNext ==
  \/ lookingUp /\ Look!Next /\ UNCHANGED <<lookingUp, vars, patchVars>>
  \/ ~lookingUp /\ PNext /\ UNCHANGED <<lookingUp, lookupVars>>

SymbolsSpec == SymbolsInit /\ [][SymbolsNext]_<<lookingUp, vars, patchVars, lookupVars>>

-----------------------------------------------------------------------------
(* What is read, resolved and bound has its types (Lookup).                *)
LookupTypeOK == Look!TypeOK

(* A hook acts at what it names (Lookup).                                  *)
HooksTheNamed == Look!HooksTheNamed

(* A hook of a method that is in one of the lists read is never refused    *)
(* (Lookup).                                                               *)
MethodsAreFound == Look!MethodsAreFound

(* What the code of a plugin calls or takes the address of is bound to     *)
(* what has that name (Lookup).                                            *)
CallsTheNamed == Look!CallsTheNamed
=============================================================================
