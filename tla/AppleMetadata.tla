--------------------------- MODULE AppleMetadata ---------------------------
(***************************************************************************)
(* The Objective-C methods of a Mach-O (src/src/apple_metadata.cpp), found *)
(* by following the pointers of the class list and of the category list,   *)
(* and the stubs of the messages the file sends (src/src/symbols.cpp).     *)
(* The offsets of the fields are those of the source, in cells of 8 bytes. *)
(***************************************************************************)
EXTENDS ImageTables

CONSTANTS MaxMethods,  \* what a method list may hold
          StubStep     \* cells from one stub of a message to the next

MetadataAssumption == MaxMethods \in Nat /\ StubStep \in Nat \ {0}

\* A class: the pointer to its read-only part, whose name and whose methods.
ClassData == 4
RoName == 3
RoMethods == 4
\* A category: its name, its class, the methods of instances and of the class.
CategoryClass == 1
InstanceMethods == 2
ClassMethods == 3
\* A list of methods: flags and count, then entries of selector, types, IMP.
EntryImp == 2
EntrySize == 3

ImageBase(img) ==
  LET vas == {g.va : g \in {h \in ToSet(img.segments) : h.fsize # 0}}
  IN  CHOOSE va \in vas : \A other \in vas : va <= other

\* What a pointer may be, in the order it is tried; the last is an offset from
\* the base, if it is smaller than the file.
Candidates(raw) == <<raw, raw % HighBits>>
FirstMapped(img, raw) == FirstOr(SelectSeq(Candidates(raw), LAMBDA va : Mapped(img, va)), LAMBDA va : va, None)

Normalized(img, raw) ==
  IF FirstMapped(img, raw) # None THEN FirstMapped(img, raw)
  ELSE IF raw < Len(img.cells) /\ Mapped(img, ImageBase(img) + raw) THEN ImageBase(img) + raw
  ELSE None

\* Where there is a fixup it says what the pointer will be.
PointerRaw(img, va) ==  \* mutant: the cell is taken for what dyld makes of it
  IF Holds(img, va, "pointer") THEN Normalized(img, At(img, va).arg) ELSE None
Pointer(img, va) ==
  IF ~Holds(img, va, "pointer") THEN None
  ELSE IF va \notin DOMAIN img.fixups THEN Normalized(img, At(img, va).arg)
  ELSE IF img.fixups[va].bind \/ img.fixups[va].target = None THEN None
  ELSE Normalized(img, img.fixups[va].target)

String(img, va) == IF va # None /\ Holds(img, va, "string") THEN At(img, va).arg ELSE <<>>

MethodsAt(img, class, list) ==
  IF list = None \/ ~Holds(img, list, "list") \/ At(img, list).arg > MaxMethods THEN <<>>
  ELSE LET entry(i) == list + 1 + (i - 1) * EntrySize
           kept == SelectSeq([i \in 1 .. At(img, list).arg |-> entry(i)],
                             LAMBDA e : /\ Pointer(img, e + EntryImp) # None
                                        /\ String(img, Pointer(img, e)) # <<>>)
       IN  [n \in DOMAIN kept |-> [class |-> class, selector |-> String(img, Pointer(img, kept[n])),
                                   imp |-> Pointer(img, kept[n] + EntryImp)]]

\* A class whose data pointer leads nowhere has no name.
ClassName(img, class) ==
  LET ro == Pointer(img, class + ClassData)
  IN  IF class = None \/ ro = None THEN <<>> ELSE String(img, Pointer(img, ro + RoName))

OfClass(img, class) ==
  IF ClassName(img, class) = <<>> THEN <<>>
  ELSE MethodsAt(img, ClassName(img, class), Pointer(img, Pointer(img, class + ClassData) + RoMethods))

\* A category of a class that is outside the file is left out.
OfCategory(img, category) ==
  LET class == Pointer(img, category + CategoryClass)
      name  == IF ClassName(img, class) # <<>> THEN ClassName(img, class) ELSE String(img, Pointer(img, category))
  IN  IF class = None \/ name = <<>> THEN <<>>
      ELSE MethodsAt(img, name, Pointer(img, category + InstanceMethods))
           \o MethodsAt(img, name, Pointer(img, category + ClassMethods))

Listed(img, section) ==
  LET lists == Named(img.sections, section)
  IN  IF lists = <<>> THEN <<>>
      ELSE SelectSeq([i \in 1 .. Head(lists).size |-> Pointer(img, Head(lists).va + i - 1)], LAMBDA p : p # None)

ObjCMethods(img) ==
  FlattenSeq([n \in DOMAIN Listed(img, "objc_classlist") |-> OfClass(img, Listed(img, "objc_classlist")[n])])
  \o FlattenSeq([n \in DOMAIN Listed(img, "objc_catlist") |-> OfCategory(img, Listed(img, "objc_catlist")[n])])

\* The first of a class and a selector; a copy of a method changes nothing.
FindObjCMethod(img, class, selector) ==
  FirstOr(SelectSeq(ObjCMethods(img), LAMBDA m : m.class = class /\ m.selector = selector), LAMBDA m : m.imp, None)

-----------------------------------------------------------------------------
(* The stubs of messages: an ADRP and an LDR of the selector's pointer.     *)
MessageTarget(img, at) ==
  IF ~Holds(img, at, "pointer") THEN None
  ELSE IF at \notin DOMAIN img.fixups THEN FirstMapped(img, At(img, at).arg)
  ELSE IF img.fixups[at].bind \/ img.fixups[at].target = None THEN None
  ELSE FirstMapped(img, img.fixups[at].target)

StubSelector(img, stub) ==
  IF Holds(img, stub, "adrp1") /\ Holds(img, stub + 1, "ldr1")
  THEN String(img, MessageTarget(img, At(img, stub).arg + At(img, stub + 1).arg)) ELSE <<>>

MessageStubs(img) ==
  LET sections == Named(img.sections, "objc_stubs")
  IN  IF sections = <<>> THEN <<>>
      ELSE SelectSeq([i \in 1 .. (Head(sections).size + StubStep - 2) \div StubStep |->
                        Head(sections).va + (i - 1) * StubStep],
                     LAMBDA stub : StubSelector(img, stub) # <<>>)

MessageStub(img, selector) ==
  FirstOr(SelectSeq(MessageStubs(img), LAMBDA stub : StubSelector(img, stub) = selector), LAMBDA stub : stub, None)
=============================================================================
