--------------------------- MODULE PluginRelocs ----------------------------
(***************************************************************************)
(* How the code of a plugin is put together from object files and made to  *)
(* run in its cave: the relocations of the C++ object and of the assembly  *)
(* functions are read (append_asm_text_relocations and compile_plugin,     *)
(* src/src/compiler.cpp), names the plugin itself defines are bound, and   *)
(* once the cave has an address every relocation is resolved               *)
(* (resolve_plugin_relocs, src/src/symbols.cpp) and the code is built.     *)
(*                                                                         *)
(* Names are taken without their leading underscores, as `names' does.     *)
(* A symbol is of one of these kinds: "own", defined in the object;        *)
(* "outside", undefined in it; "va" and "data", whose name holds an        *)
(* address (bind_func_by_addr, resolve_addr); "absolute", a branch to a    *)
(* number in an assembly function; "anonymous", the start of a section.    *)
(***************************************************************************)
EXTENDS Aarch64, Sequences, SequencesExt, FiniteSets, Functions, Ordered

CONSTANTS Inputs  \* plugins with the file they are for and the addresses of their cave

None == 0  \* no address

Kinds == {"own", "outside", "va", "data", "absolute", "anonymous"}
SymbolRef == [kind: Kinds, name: STRING, section: STRING, value: Int]
Relocation == [type: STRING, address: Nat, scale: Nat \ {0}, addend: Int, sym: SymbolRef]
Object == [name: STRING, size: Nat, relocs: Seq(Relocation)]

\* What an object does not define is in no section; a name that holds an
\* address is of nothing the plugin defines; data is not in __text.
ASSUME InputsAssumption ==
  \A i \in Inputs :
    /\ i.parts \in Seq(Object) /\ i.parts # <<>>
    /\ i.handlers \in Seq([name: STRING, offset: Int])
    /\ {i.textVa, i.dataVa} \subseteq Nat
    /\ \A g \in DOMAIN i.globals : /\ i.globals[g].section \in STRING \ {"", "__text"}
                                  /\ i.globals[g].value \in Int
    /\ \A p \in DOMAIN i.parts : \A r \in Range(i.parts[p].relocs) :
         /\ r.sym.section # "" => r.sym.kind \in {"own", "anonymous"}
         /\ r.sym.kind \in {"absolute", "data"} => r.sym.name \notin DOMAIN i.globals

VARIABLES input, pc,
          part, next,   \* the relocation of the object being read
          pending,      \* the ARM64_RELOC_ADDEND not yet used, if any
          relocs,       \* blob.relocs
          functions,    \* blob.function_offsets
          text,         \* size of blob.text
          veneers,      \* appended so far: where, to what address, how many words
          patched,      \* what each resolved relocation wrote
          built         \* sizes of what build returns

vars == <<input, pc, part, next, pending, relocs, functions, text, veneers, patched, built>>

Init == /\ input \in Inputs /\ pc = "read" /\ part = 1 /\ next = 1 /\ pending = {}
        /\ relocs = <<>> /\ functions = <<>> /\ text = 0
        /\ veneers = <<>> /\ patched = <<>> /\ built = [text |-> 0, data |-> 0]

AlignUp(n, to) == n + ((-n) % to)
Fail(how) == pc' = how /\ UNCHANGED <<input, part, next, pending, relocs, functions, text, veneers, patched, built>>

-----------------------------------------------------------------------------
(* Reading the objects: the C++ one is the first part, then each assembly   *)
(* function in its own, appended at a multiple of four.                     *)
Base == AlignUp(text, 4)
Asm == part > 1
Current == input.parts[part].relocs[next]

Reading == pc = "read" /\ part <= Len(input.parts)
ReadingReloc == Reading /\ next <= Len(input.parts[part].relocs)

Entry(addend) ==
  [type |-> Current.type, address |-> Base + Current.address, scale |-> Current.scale, addend |-> addend,
   asm |-> Asm, kind |-> IF Current.sym.kind = "absolute" /\ ~Asm THEN "outside" ELSE Current.sym.kind,
   name |-> Current.sym.name, section |-> Current.sym.section, value |-> Current.sym.value]

InText == Current.address < input.parts[part].size

ReadAddend ==
  /\ ReadingReloc /\ InText /\ Current.type = "addend"
  /\ pending' = {[address |-> Current.address, addend |-> Current.addend]}
  /\ next' = next + 1
  /\ UNCHANGED <<input, pc, part, relocs, functions, text, veneers, patched, built>>

Paired == \A p \in pending : p.address = Current.address

ReadReloc ==
  /\ ReadingReloc /\ InText /\ Current.type # "addend"
  /\ Paired
  /\ relocs' = Append(relocs, Entry(IF pending = {} THEN 0 ELSE (CHOOSE p \in pending : TRUE).addend))
  /\ pending' = {} /\ next' = next + 1
  /\ UNCHANGED <<input, pc, part, functions, text, veneers, patched, built>>

RejectReloc ==
  /\ ReadingReloc
  /\ InText => Current.type # "addend" /\ ~Paired
  /\ Fail("error")

Duplicate(name) == name \in DOMAIN functions

\* The end of an object: its text is appended, its name registered.
EndObject ==
  /\ Reading /\ next > Len(input.parts[part].relocs)
  /\ pending = {}
  /\ Asm => ~Duplicate(input.parts[part].name)
  /\ functions' = IF Asm THEN [n \in DOMAIN functions \cup {input.parts[part].name} |->
                                 IF Duplicate(n) THEN functions[n] ELSE Base]
                  ELSE functions
  /\ text' = Base + input.parts[part].size
  /\ part' = part + 1 /\ next' = 1
  /\ pc' = IF part = Len(input.parts) THEN "bind" ELSE pc
  /\ UNCHANGED <<input, pending, relocs, veneers, patched, built>>

RejectObject ==
  /\ Reading /\ next > Len(input.parts[part].relocs)
  /\ pending # {} \/ (Asm /\ Duplicate(input.parts[part].name))
  /\ Fail("error")

-----------------------------------------------------------------------------
(* Binding what assembly functions name to what the plugin defines: data of *)
(* the C++ object, and for branches the registered functions.               *)
DataTypes == {"pointer", "page", "pageoff", "gotpage", "gotoff", "ptrgot"}

BindData(r) ==
  IF r.asm /\ r.type \in DataTypes /\ r.section = "" /\ r.name \in DOMAIN input.globals
  THEN [r EXCEPT !.section = input.globals[r.name].section, !.value = input.globals[r.name].value]
  ELSE r

Handlers == ToSet(input.handlers)
Registered ==
  [n \in DOMAIN functions \cup {h.name : h \in Handlers} |->
     IF n \in DOMAIN functions THEN functions[n] ELSE (CHOOSE h \in Handlers : h.name = n).offset]

Named(r) == r.asm /\ r.type = "branch" /\ r.kind # "absolute"

BindCall(r) == IF Named(r) THEN [r EXCEPT !.section = "__text", !.value = Registered[r.name]] ELSE r

BindableAnywhere ==  \* mutant: the handler need not be in the object
  /\ \A h \in Handlers : ~Duplicate(h.name)
  /\ Cardinality({h.name : h \in Handlers}) = Len(input.handlers)
  /\ \A n \in DOMAIN relocs : Named(relocs[n]) => relocs[n].name \in DOMAIN Registered
Bindable ==
  /\ \A h \in Handlers : h.offset >= 0 /\ ~Duplicate(h.name)
  /\ Cardinality({h.name : h \in Handlers}) = Len(input.handlers)
  /\ \A n \in DOMAIN relocs : Named(relocs[n]) => relocs[n].name \in DOMAIN Registered

Bind == /\ pc = "bind" /\ Bindable
        /\ functions' = Registered
        /\ relocs' = [n \in DOMAIN relocs |-> BindCall(BindData(relocs[n]))]
        /\ pc' = "resolve"
        /\ UNCHANGED <<input, part, next, pending, text, veneers, patched, built>>

RejectNames == pc = "bind" /\ ~Bindable /\ Fail("error")

-----------------------------------------------------------------------------
(* Sizes of what is built, and where the data will be.                      *)
Branches == {n \in DOMAIN relocs : relocs[n].type = "branch"}
MaxTextBytesNear == text + Cardinality(Branches) * 12  \* mutant: veneers by ADRP only
MaxTextBytes == text + Cardinality(Branches) * MaxBranchSequenceBytes
TextAligned == AlignUp(MaxTextBytes, 16)

SectionOffset ==
  LET at[n \in 1 .. Len(input.sections)] ==
        IF n = 1 THEN 0 ELSE AlignUp(at[n - 1] + input.sections[n - 1].size, 8)
  IN  at
SectionNumber(key) == CHOOSE n \in DOMAIN input.sections : input.sections[n].key = key
HasSection(key) == \E n \in DOMAIN input.sections : input.sections[n].key = key

-----------------------------------------------------------------------------
(* Resolving, in the order of the relocations.  No address is None.         *)
Reloc == relocs[Len(patched) + 1]
Resolving == pc = "resolve" /\ Len(patched) < Len(relocs)
At == input.textVa + Reloc.address
TextEnd == IF veneers = <<>> THEN input.textVa + text
           ELSE Last(veneers).at + 4 * Last(veneers).words

DataVaBehind == IF input.writable THEN input.dataVa ELSE AlignUp(TextEnd, 16)  \* mutant: behind the text as it is
DataVa == IF input.writable THEN input.dataVa ELSE input.textVa + TextAligned

Lookup(table, name) == IF name \in DOMAIN table THEN table[name] ELSE None

\* In a Mach-O only __stubs is searched, in an ELF the symbols and then the PLT.
ViaSymbolTable(name) ==
  IF ~input.target.macho /\ name \in DOMAIN input.target.functions
  THEN input.target.functions[name] ELSE Lookup(input.target.stubs, name)

Plus(address, addend) == IF address = None THEN None ELSE address + addend

RelocationTarget(r) ==
  IF r.kind = "absolute" \/ (r.kind \in {"va", "data"} /\ r.section = "") THEN r.value + r.addend
  ELSE IF r.section = "" THEN Plus(ViaSymbolTable(r.name), r.addend)
  ELSE IF r.section = "__text" THEN input.textVa + r.value + r.addend
  ELSE IF HasSection(r.section) THEN DataVa + SectionOffset[SectionNumber(r.section)] + r.value + r.addend
  ELSE None

\* Of data, it is the slot that holds the address of what is outside.
DataRelocationTarget(r) ==
  IF r.kind \in {"absolute", "data"} \/ r.section # "" THEN RelocationTarget(r)
  ELSE Plus(Lookup(input.target.slots, r.name), r.addend)

Wrote(form, to) == /\ patched' = Append(patched, [form |-> form, to |-> to])
                   /\ UNCHANGED <<input, pc, part, next, pending, relocs, functions, text, built>>

Target == RelocationTarget(Reloc)
Branch == Resolving /\ Reloc.type = "branch" /\ Target # None

CallNear ==
  /\ Branch /\ FitsBranch26(At, Target)
  /\ Wrote("call", Target) /\ UNCHANGED veneers

CallFar ==
  /\ Branch /\ ~FitsBranch26(At, Target) /\ FitsBranch26(At, TextEnd)
  /\ veneers' = Append(veneers, [at |-> TextEnd, to |-> Target, words |-> AddressWords(TextEnd, Target) + 1])
  /\ Wrote("call", TextEnd)

\* A pointer, or a page reached through the GOT, of no symbol is left as it is.
Skipped(r) == r.type \notin DataTypes \cup {"branch"} \/ (r.type \in {"pointer", "gotpage", "gotoff"} /\ r.name = "")

Pointer ==
  /\ Resolving /\ Reloc.type = "pointer" /\ ~Skipped(Reloc) /\ Target # None
  /\ Reloc.address + 8 <= TextEnd - input.textVa
  /\ Wrote("pointer", Target) /\ UNCHANGED veneers

DataTarget == DataRelocationTarget(Reloc)
Address == Resolving /\ ~Skipped(Reloc) /\ Reloc.type \in DataTypes \ {"pointer"} /\ DataTarget # None

Page ==
  /\ Address /\ Reloc.type \in {"page", "gotpage"} /\ FitsAdrp(At, DataTarget)
  /\ Wrote("page", PageOf(DataTarget)) /\ UNCHANGED veneers

\* A load through the GOT becomes an addition if there is no slot to load from.
Low ==
  /\ Address /\ (Reloc.type \in {"pageoff", "ptrgot"} \/ (Reloc.type = "gotoff" /\ Reloc.kind = "data"))
  /\ Reloc.type # "gotoff" => (DataTarget % PageSize) % Reloc.scale = 0
  /\ Wrote("low", DataTarget % PageSize) /\ UNCHANGED veneers

LowOfSlot ==
  /\ Address /\ Reloc.type = "gotoff" /\ Reloc.kind # "data"
  /\ (DataTarget % PageSize) % Reloc.scale = 0
  /\ Wrote("load", DataTarget % PageSize) /\ UNCHANGED veneers

Skip == Resolving /\ Skipped(Reloc) /\ Wrote("nothing", 0) /\ UNCHANGED veneers

Unresolvable ==
  /\ Resolving /\ ~Skipped(Reloc)
  /\ CASE Reloc.type = "branch" ->
            Target = None \/ (~FitsBranch26(At, Target) /\ ~FitsBranch26(At, TextEnd))
       [] Reloc.type = "pointer" -> Target = None \/ Reloc.address + 8 > TextEnd - input.textVa
       [] Reloc.type \in {"page", "gotpage"} -> DataTarget = None \/ ~FitsAdrp(At, DataTarget)
       [] OTHER -> \/ DataTarget = None
                   \/ /\ Reloc.type # "gotoff" \/ Reloc.kind # "data"
                      /\ (DataTarget % PageSize) % Reloc.scale # 0
  /\ Fail("unresolved")

\* The text is cut or filled up to the size that was planned for.
Build ==
  /\ pc = "resolve" /\ Len(patched) = Len(relocs)
  /\ built' = [text |-> MaxTextBytes, data |-> AlignUp(MaxTextBytes, 16)]
  /\ pc' = "done"
  /\ UNCHANGED <<input, part, next, pending, relocs, functions, text, veneers, patched>>

Next == \/ ReadAddend \/ ReadReloc \/ RejectReloc \/ EndObject \/ RejectObject
        \/ Bind \/ RejectNames
        \/ CallNear \/ CallFar \/ Pointer \/ Page \/ Low \/ LowOfSlot \/ Skip \/ Unresolvable
        \/ Build

Spec == Init /\ [][Next]_vars

-----------------------------------------------------------------------------
(* What each relocation of the objects means, from the objects alone.       *)
RelocsOf(i) ==
  UNION {{p} \X {m \in DOMAIN i.parts[p].relocs : i.parts[p].relocs[m].type # "addend"} : p \in DOMAIN i.parts}

Earlier(S) == {e \in S \X S : e[1][1] < e[2][1] \/ (e[1][1] = e[2][1] /\ e[1][2] < e[2][2])}

Origins == InOrder(RelocsOf(input), Earlier(RelocsOf(input)))

Source(n) == input.parts[Origins[n][1]].relocs[Origins[n][2]]
InAsm(n) == Origins[n][1] > 1

AddendOf(n) ==
  LET p == Origins[n][1]
      i == Origins[n][2]
  IN  IF i > 1 /\ input.parts[p].relocs[i - 1].type = "addend" THEN input.parts[p].relocs[i - 1].addend ELSE 0

\* Where an object, a registered function or a section is in what was built.
PartAt[p \in 1 .. Len(input.parts)] ==
  IF p = 1 THEN 0 ELSE AlignUp(PartAt[p - 1] + input.parts[p - 1].size, 4)
FunctionAt(name) ==
  IF \E p \in 2 .. Len(input.parts) : input.parts[p].name = name
  THEN input.textVa + PartAt[CHOOSE p \in 2 .. Len(input.parts) : input.parts[p].name = name]
  ELSE input.textVa + (CHOOSE h \in Handlers : h.name = name).offset
SectionAt(key) == (IF input.writable THEN input.dataVa ELSE input.textVa + built.data)
                  + SectionOffset[SectionNumber(key)]

Own(n) == LET s == Source(n).sym
          IN  IF s.section = "__text" THEN input.textVa + PartAt[Origins[n][1]] + s.value
              ELSE SectionAt(s.section) + s.value

MeantCallee(n) ==
  LET s == Source(n).sym
  IN  IF s.kind = "absolute" /\ InAsm(n) THEN s.value
      ELSE IF InAsm(n) THEN FunctionAt(s.name)
      ELSE IF s.kind \in {"va", "data"} THEN s.value
      ELSE IF s.section # "" THEN Own(n)
      ELSE IF s.name \in DOMAIN input.target.functions /\ ~input.target.macho
           THEN input.target.functions[s.name] ELSE input.target.stubs[s.name]

MeantData(n) ==
  LET s == Source(n).sym
  IN  IF s.kind = "data" \/ (s.kind = "absolute" /\ InAsm(n)) THEN s.value
      ELSE IF s.section # "" THEN Own(n)
      ELSE IF InAsm(n) /\ s.name \in DOMAIN input.globals
           THEN SectionAt(input.globals[s.name].section) + input.globals[s.name].value
      ELSE input.target.slots[s.name]

TypeOK ==
  /\ pc \in {"read", "bind", "resolve", "done", "error", "unresolved"}
  /\ part \in 1 .. Len(input.parts) + 1 /\ next \in Nat \ {0} /\ text \in Nat
  /\ \A p \in pending : p.address \in Nat
  /\ \A n \in DOMAIN relocs : relocs[n].address \in Nat
  /\ \A name \in DOMAIN functions : functions[name] \in Nat
  /\ Len(patched) <= Len(relocs) /\ Len(veneers) <= Len(patched)
  /\ built \in [text: Nat, data: Nat]

\* Every call of the plugin arrives at what the source names, whatever the order
\* of the relocations and the addresses of the cave: directly, or over a veneer
\* that is in the built code to its last word.
CallsArrive ==
  pc = "done" => \A n \in Branches :
    LET meant == MeantCallee(n) + AddendOf(n)
        from  == input.textVa + PartAt[Origins[n][1]] + Source(n).address
    IN  /\ FitsBranch26(from, patched[n].to)
        /\ \/ patched[n].to = meant
           \/ \E v \in ToSet(veneers) : /\ v.at = patched[n].to /\ v.to = meant
                                        /\ v.at + 4 * v.words <= input.textVa + built.text

\* Every page and offset in it are those of the datum the source names, where
\* that is in the built code or in the data cave: the addresses are computed
\* before it is known how many veneers there are.  Only a slot of the file's
\* GOT is loaded from.  (Not so for the GOT entry of a datum of the plugin.
\* Labels of assembly functions are left out: src/src/compiler.cpp:914 lacks
\* the place of the function.)
DataArrives ==
  pc = "done" => \A n \in DOMAIN relocs :
    relocs[n].type \in DataTypes \ {"pointer"} /\ patched[n].form # "nothing" /\ ~(InAsm(n) /\ Source(n).sym.section # "") =>
      LET meant == MeantData(n) + AddendOf(n)
          own   == Source(n).sym.kind # "outside" \/ (InAsm(n) /\ Source(n).sym.name \in DOMAIN input.globals)
      IN  /\ patched[n].to = IF patched[n].form = "page" THEN PageOf(meant) ELSE meant % PageSize
          /\ patched[n].form = "load" => relocs[n].type = "gotoff"
          /\ relocs[n].type = "gotoff" /\ ~own => patched[n].form = "load"
=============================================================================
