------------------------------- MODULE Lookup ------------------------------
(***************************************************************************)
(* From what plugins name to addresses in the file: the file is parsed     *)
(* (BinaryImage::parse, src/src/binary_image.cpp), every declaration is    *)
(* given the address it acts at (standard_pipeline, src/src/pipeline.cpp,  *)
(* find_function_address, src/src/symbols.cpp, and src/src/signature.cpp), *)
(* and what the code of the plugins leaves undefined is bound to a symbol, *)
(* a stub or a slot (resolve_via_symbol_table and resolve_import_slot).    *)
(*                                                                         *)
(* The plugins are Mach-O objects: a C function f is named _f in them.     *)
(***************************************************************************)
EXTENDS AppleMetadata

CONSTANTS Inputs,        \* files, the declarations and what is left undefined
          Demangle(_)    \* __cxa_demangle; <<>> for what is not a mangled name

VARIABLES input, pc, image,
          address,    \* of the declaration in hand
          addresses,  \* of those before it
          bound,      \* of the undefined names: where calls go, where the address is
          error

vars == <<input, pc, image, address, addresses, bound, error>>

Wild == "?"

Init ==
  /\ input \in Inputs /\ pc = "parse" /\ error = "none"
  /\ image = [symbols |-> <<>>] /\ address = None /\ addresses = <<>> /\ bound = <<>>

-----------------------------------------------------------------------------
Parsed(symbols, imports, indirect) ==
  LET f == input.file
  IN  [elf |-> f.elf, segments |-> f.segments, sections |-> f.sections, cells |-> f.cells, fixups |-> f.fixups,
       entry |-> f.entry, symbols |-> symbols, imports |-> imports, indirect |-> indirect]

ParseElf ==
  /\ pc = "parse" /\ input.file.elf
  /\ LET symbols == DynamicSymbols(input.file)
         imports == WithStubs(input.file, Imports(input.file, symbols))
     IN  image' = Parsed(symbols, imports, <<>>)
  /\ pc' = "declaration"
  /\ UNCHANGED <<input, address, addresses, bound, error>>

ParseMacho ==
  /\ pc = "parse" /\ ~input.file.elf
  /\ image' = Parsed(input.file.table, <<>>, IndirectNames(input.file))
  /\ pc' = "declaration"
  /\ UNCHANGED <<input, address, addresses, bound, error>>

-----------------------------------------------------------------------------
HasPart(name, part) ==
  \E n \in 0 .. Len(name) - Len(part) : SubSeq(name, n + 1, n + Len(part)) = part

Plain(name) == IF name # <<>> /\ Head(name) = "_" THEN Tail(name) ELSE name
Bare(name) ==
  LET kept == {n \in DOMAIN name : name[n] # "_"}
  IN  IF kept = {} THEN <<>> ELSE SubSeq(name, CHOOSE n \in kept : \A m \in kept : n <= m, Len(name))

\* names: as it is, with one underscore less or more, and with two.
Spellings(name) ==
  <<name, IF Plain(name) # name THEN Plain(name) ELSE <<"_">> \o name, <<"_", "_">> \o Bare(name)>>

Demangled(name) == IF Demangle(name) # <<>> THEN Demangle(name) ELSE Demangle(Plain(name))

Mentions(symbol, query) ==
  \/ HasPart(symbol.name, query)
  \/ HasPart(Demangled(symbol.name), query)

Defined(img) == {s \in ToSet(img.symbols) : s.defined /\ s.value # None}

\* A part of a name will do, if no other address has one it is a part of.
FindFunctionFirst(img, query) ==  \* mutant: the first that matches
  FirstOr(SelectSeq(img.symbols, LAMBDA s : s.defined /\ s.value # None /\ Mentions(s, query)), LAMBDA s : s.value, None)

FindFunctionAddress(img, query) ==
  LET matches == {s.value : s \in {t \in Defined(img) : Mentions(t, query)}}
      spelled == {SymbolAddress(img, name) : name \in ToSet(Spellings(query))} \ {None}
      all     == matches \cup spelled
  IN  IF Cardinality(matches) = 1 THEN CHOOSE va \in matches : TRUE
      ELSE IF Cardinality(all) = 1 THEN CHOOSE va \in all : TRUE
      ELSE None

-----------------------------------------------------------------------------
(* Signatures.  The sections whose names say text are searched or, in a     *)
(* file without any, the executable segments.                               *)
TextSections(img) == {s \in ToSet(img.sections) : s.text /\ s.size # 0 /\ s.off < Len(img.cells)}

ExecutableRanges(img) ==
  IF TextSections(img) # {} THEN {<<s.va, s.size>> : s \in TextSections(img)}
  ELSE {<<g.va, g.fsize>> : g \in {h \in ToSet(img.segments) : h.exec /\ h.fsize # 0}}

Matches(img, off, signature) ==
  \A n \in DOMAIN signature : signature[n] = Wild \/ Cell(img, off + n - 1).is = signature[n]

MatchesIn(img, range, signature) ==
  LET va   == range[1]
      left == Len(img.cells) - OffsetOf(img, va)
      size == IF range[2] < left THEN range[2] ELSE left
  IN  IF ~Readable(img, va) THEN {}
      ELSE {va + n : n \in {m \in 0 .. size - Len(signature) : Matches(img, OffsetOf(img, va) + m, signature)}}

SignatureMatches(img, signature) == UNION {MatchesIn(img, r, signature) : r \in ExecutableRanges(img)}

-----------------------------------------------------------------------------
(* The address of a declaration: its own, or that of the first way to name  *)
(* it that leads to one.                                                    *)
Declaration == input.declarations[Len(addresses) + 1]
Resolving(stage) == pc = stage /\ Len(addresses) < Len(input.declarations)

Found(va, stage) == /\ address' = va /\ pc' = stage
                    /\ UNCHANGED <<input, image, addresses, bound, error>>
Failed(how) == pc' = "failed" /\ error' = how /\ UNCHANGED <<input, image, address, addresses, bound>>

ByAddress == Resolving("declaration") /\ Found(Declaration.address, "method")

ByMethod ==
  /\ Resolving("method")
  /\ Found(IF address = None /\ Declaration.class # <<>> /\ Declaration.selector # <<>>
           THEN FindObjCMethod(image, Declaration.class, Declaration.selector) ELSE address, "symbol")

BySymbol ==
  /\ Resolving("symbol")
  /\ Found(IF address = None /\ Declaration.symbol # <<>>
           THEN FindFunctionAddress(image, Declaration.symbol) ELSE address, "swift")

BySwiftName ==
  /\ Resolving("swift")
  /\ Found(IF address = None /\ Declaration.swift # <<>>
           THEN FindFunctionAddress(image, Declaration.swift) ELSE address, "signature")

BySignature ==
  /\ Resolving("signature")
  /\ LET matches == SignatureMatches(image, Declaration.signature)
     IN  IF address # None \/ Declaration.signature = <<>> THEN Found(address, "entry")
         ELSE IF Cardinality(matches) = 1 THEN Found(CHOOSE va \in matches : TRUE, "entry")
         ELSE Failed("signature")

HasLocator == \/ Declaration.class # <<>> \/ Declaration.selector # <<>> \/ Declaration.symbol # <<>>
              \/ Declaration.swift # <<>> \/ Declaration.signature # <<>>

\* A hook that names no place is put at the entry of the program.
ByEntry ==
  /\ Resolving("entry")
  /\ Found(IF address = None /\ ~HasLocator /\ Declaration.handler /\ Declaration.kind # "new_cpp_func"
           THEN image.entry ELSE address, "accept")

Placeless == {"new_asm_func", "new_cpp_func"}

Accept ==
  /\ Resolving("accept")
  /\ address # None \/ Declaration.kind \in Placeless
  /\ addresses' = Append(addresses, address) /\ address' = None
  /\ pc' = "declaration"
  /\ UNCHANGED <<input, image, bound, error>>

MissingAddress ==
  /\ Resolving("accept")
  /\ address = None /\ Declaration.kind \notin Placeless
  /\ Failed("address")

-----------------------------------------------------------------------------
(* What the code of the plugins leaves undefined.                           *)
FirstKnown(name, found) ==
  FirstOr(SelectSeq([n \in 1 .. 3 |-> found[Spellings(name)[n]]], LAMBDA va : va # None), LAMBDA va : va, None)

ViaStubs(img, name, section, step) ==
  LET entries == Entries(section, step)
      wanted  == SelectSeq([i \in DOMAIN entries |-> i],
                           LAMBDA i : EntryName(img, section, i) \in ToSet(Spellings(name)))
  IN  FirstOr(wanted, LAMBDA i : entries[i], None)

MessagePrefix == "objc_msgSend$"
ViaMessageStub(img, name) ==
  LET at == {n \in DOMAIN name : name[n] = MessagePrefix}
  IN  IF at = {} THEN None
      ELSE MessageStub(img, SubSeq(name, (CHOOSE n \in at : \A m \in at : n <= m) + 1, Len(name)))

ViaSymbolTable(img, name) ==
  IF img.elf
  THEN FirstKnown(name, [n \in ToSet(Spellings(name)) |->
                          IF SymbolAddress(img, n) # None THEN SymbolAddress(img, n) ELSE ImportStub(img, n)])
  ELSE LET stubs == Named(img.sections, "stubs")
           stub  == IF stubs = <<>> THEN None ELSE ViaStubs(img, name, Head(stubs), Head(stubs).step)
       IN  IF stub # None THEN stub ELSE ViaMessageStub(img, name)

SlotSections == {"got", "la_symbol_ptr", "nl_symbol_ptr"}

ImportSlotFirst(img, name) ==  \* mutant: the place in the table is not counted from the section's first
  IF img.elf THEN FirstKnown(name, [n \in ToSet(Spellings(name)) |-> ImportSlot(img, n)])
  ELSE LET tables == SelectSeq(img.sections, LAMBDA s : s.name \in SlotSections)
           slots  == [n \in DOMAIN tables |-> ViaStubs(img, name, [tables[n] EXCEPT !.first = 0], 1)]
       IN  FirstOr(SelectSeq(slots, LAMBDA va : va # None), LAMBDA va : va, None)

ResolveImportSlot(img, name) ==
  IF img.elf THEN FirstKnown(name, [n \in ToSet(Spellings(name)) |-> ImportSlot(img, n)])
  ELSE LET tables == SelectSeq(img.sections, LAMBDA s : s.name \in SlotSections)
           slots  == [n \in DOMAIN tables |-> ViaStubs(img, name, tables[n], 1)]
       IN  FirstOr(SelectSeq(slots, LAMBDA va : va # None), LAMBDA va : va, None)

Binding == pc = "declaration" /\ Len(addresses) = Len(input.declarations) /\ Len(bound) < Len(input.undefined)
Undefined == input.undefined[Len(bound) + 1]
Bound == IF Undefined.call THEN ViaSymbolTable(image, Undefined.name) ELSE ResolveImportSlot(image, Undefined.name)

BindUnchecked ==  \* mutant: a name that is not found is bound to no address
  /\ Binding
  /\ bound' = Append(bound, Bound)
  /\ UNCHANGED <<input, pc, image, address, addresses, error>>

Bind ==
  /\ Binding /\ Bound # None
  /\ bound' = Append(bound, Bound)
  /\ UNCHANGED <<input, pc, image, address, addresses, error>>

Unresolved == Binding /\ Bound = None /\ Failed("symbol")

Finish ==
  /\ pc = "declaration" /\ Len(addresses) = Len(input.declarations) /\ Len(bound) = Len(input.undefined)
  /\ pc' = "done"
  /\ UNCHANGED <<input, image, address, addresses, bound, error>>

Next == \/ ParseElf \/ ParseMacho
        \/ ByAddress \/ ByMethod \/ BySymbol \/ BySwiftName \/ BySignature \/ ByEntry \/ Accept \/ MissingAddress
        \/ Bind \/ Unresolved \/ Finish

Spec == Init /\ [][Next]_vars

-----------------------------------------------------------------------------
(* list_available_symbols: what a reader is offered to bind to.             *)
Available(img) ==
  IF img.elf
  THEN {s.name : s \in {t \in Defined(img) : t.name # <<>>}}
       \cup {i.name : i \in {j \in ToSet(img.imports) : j.name # <<>> /\ j.stub # None}}
  ELSE LET stubs == Named(img.sections, "stubs")
           names == IF stubs = <<>> THEN {}
                    ELSE {EntryName(img, Head(stubs), i) : i \in DOMAIN Entries(Head(stubs), Head(stubs).step)}
       IN  (names \ {<<>>})
           \cup {<<"_", MessagePrefix>> \o StubSelector(img, stub) : stub \in ToSet(MessageStubs(img))}

TypeOK ==
  /\ pc \in {"parse", "declaration", "method", "symbol", "swift", "signature", "entry", "accept", "failed", "done"}
  /\ error \in {"none", "signature", "address", "symbol"} /\ (error # "none" <=> pc = "failed")
  /\ address \in Nat /\ addresses \in Seq(Nat) /\ bound \in Seq(Nat \ {0})
  /\ Len(addresses) <= Len(input.declarations) /\ Len(bound) <= Len(input.undefined)
  /\ bound # <<>> => Len(addresses) = Len(input.declarations)

-----------------------------------------------------------------------------
(* What the names mean, from the file as it was built.                      *)
InFile(s) == s.defined /\ s.value # None
Is(symbol, name) == name \in {symbol.name, Plain(symbol.name), Demangled(symbol.name)}

BySymbolName(name, va) ==
  /\ name # <<>>
  /\ \E s \in ToSet(input.file.table) : InFile(s) /\ s.value = va /\ (Mentions(s, name) \/ s.name \in ToSet(Spellings(name)))
  /\ \A s \in ToSet(input.file.table) : InFile(s) /\ Is(s, name) => s.value = va

ByCode(signature, va) ==
  LET file       == input.file
      In(r, at)  == r.va <= at /\ at + Len(signature) <= r.va + r.size
      code       == {[va |-> g.va, size |-> g.fsize] : g \in {h \in ToSet(file.segments) : h.exec}}
      Fits(at)   == /\ \E r \in code : In(r, at)
                    /\ \A n \in DOMAIN signature : signature[n] \in {Wild, At(file, at + n - 1).is}
      InText(at) == \E s \in ToSet(file.sections) : s.text /\ In(s, at)
  IN  /\ signature # <<>> /\ Fits(va)
      /\ \A r \in code : \A at \in (r.va .. r.va + r.size - 1) \ {va} : Fits(at) => InText(va) /\ ~InText(at)

ByMessage(d, va) ==
  \E m \in input.methods : m.class = d.class /\ m.selector = d.selector /\ m.imp = va

(* A hook acts at the address it gives or at one of what it names: at a     *)
(* function that has the name in its own, with no other function of exactly *)
(* that name; at a place of the executable segments its signature matches,  *)
(* which is the only one there or the only one in the sections whose names  *)
(* say text (what also matches in stubs does not count where there are such *)
(* sections, src/src/signature.cpp:45-52); or at a method of the class for  *)
(* the selector; and at the entry only if it names nothing.  Symbols the    *)
(* parser of an ELF did not count would make two functions look like one.   *)
HooksTheNamed ==
  \A n \in DOMAIN addresses :
    LET d  == input.declarations[n]
        va == addresses[n]
    IN  IF d.address # None THEN va = d.address
        ELSE \/ BySymbolName(d.symbol, va) \/ BySymbolName(d.swift, va)
             \/ ByCode(d.signature, va) \/ ByMessage(d, va)
             \/ va = input.file.entry /\ d.class \o d.selector \o d.symbol \o d.swift \o d.signature = <<>>
             \/ va = None /\ d.kind \in Placeless

\* The lists that are read: those of instances in classes of the file and both
\* of their categories, as pointers.  The class methods are in the metaclass,
\* which append_class_methods (src/src/apple_metadata.cpp:164-174) never visits;
\* a category of a class outside the file is left out; and of a list of
\* relative offsets no entry reads as pointers (line 115).
IsRead(m) == m.in \in {"class", "category"} /\ ~m.relative

(* A hook of a method in one of the lists that are read is never refused,   *)
(* whichever way the pointers to it are stored, and the class's own method  *)
(* is taken before a category's.  Methods of the file in other lists may be *)
(* refused.                                                                 *)
MethodsAreFound ==
  /\ pc = "failed" /\ error = "address" =>
       ~\E m \in input.methods : IsRead(m) /\ m.class = Declaration.class /\ m.selector = Declaration.selector
  /\ \A n \in DOMAIN addresses :
       LET d == input.declarations[n]
       IN  \A m \in input.methods :
             /\ IsRead(m) /\ m.in = "class" /\ d.address = None
             /\ m.class = d.class /\ m.selector = d.selector
             => addresses[n] = m.imp

\* The slot the code of a stub loads from, and what the loader puts in a slot.
LoadedSlot(stub) == At(input.file, stub).arg + At(input.file, stub + 1).arg
PointedTo(at) == IF at \in DOMAIN input.file.fixups THEN input.file.fixups[at].target ELSE At(input.file, at).arg % HighBits
BoundTo(slot, name) ==
  IF input.file.elf
  THEN \E r \in ToSet(input.file.relas) : r.slot = slot /\ input.file.table[r.index + 1].name = name
  ELSE slot \in DOMAIN input.file.fixups /\ input.file.fixups[slot].bind /\ input.file.fixups[slot].symbol = name

(* What a plugin calls by name has that name up to leading underscores: it  *)
(* is a function of the file, a stub whose code loads from the slot the     *)
(* loader binds to that name, or a stub that sends that message; and what   *)
(* it takes the address of is reached through the slot bound to the name.   *)
(* Every name the file offers (list_available_symbols) can be called.       *)
CallsTheNamed ==
  /\ \A n \in DOMAIN bound :
       LET name == input.undefined[n].name
       IN  \E spelling \in ToSet(Spellings(name)) :
             IF ~input.undefined[n].call THEN BoundTo(bound[n], spelling)
             ELSE \/ \E s \in ToSet(input.file.table) : input.file.elf /\ InFile(s) /\ s.name = spelling /\ s.value = bound[n]
                  \/ BoundTo(LoadedSlot(bound[n]), spelling)
                  \/ /\ MessagePrefix \in ToSet(name)
                     /\ At(input.file, PointedTo(LoadedSlot(bound[n]))).arg = Tail(Bare(name))
  /\ pc = "done" => \A name \in Available(image) : ViaSymbolTable(image, name) # None
=============================================================================
