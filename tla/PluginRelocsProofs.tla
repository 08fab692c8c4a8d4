------------------------- MODULE PluginRelocsProofs -------------------------
(***************************************************************************)
(* For plugins of any number of objects with any relocations in any order: *)
(* what is built calls and addresses what the objects name.                *)
(***************************************************************************)
EXTENDS PatchText, OrderedProofs

-----------------------------------------------------------------------------
(* What the objects of a plugin say.                                        *)
IsLayout(f, i) ==
  f = [p \in 1 .. Len(i.parts) |-> IF p = 1 THEN 0 ELSE AlignUp(f[p - 1] + i.parts[p - 1].size, 4)]
Places(i) == CHOOSE f : IsLayout(f, i)

SourceOf(i, o) == i.parts[o[1]].relocs[o[2]]
OriginsOf(i) == InOrder(RelocsOf(i), Earlier(RelocsOf(i)))

\* The entry before the m-th of an object is its addend.
HasAddend(i, p, m) == m > 1 /\ i.parts[p].relocs[m - 1].type = "addend"
AddendAt(i, p, m) == IF HasAddend(i, p, m) THEN i.parts[p].relocs[m - 1].addend ELSE 0

EntryFor(i, o) ==
  LET r == SourceOf(i, o)
  IN  [type |-> r.type, address |-> Places(i)[o[1]] + r.address, scale |-> r.scale,
       addend |-> AddendAt(i, o[1], o[2]), asm |-> o[1] > 1,
       kind |-> IF r.sym.kind = "absolute" /\ ~(o[1] > 1) THEN "outside" ELSE r.sym.kind,
       name |-> r.sym.name, section |-> r.sym.section, value |-> r.sym.value]

\* The relocations before the m-th of the p-th object.
Before(i, p, m) == {o \in RelocsOf(i) : o[1] < p \/ (o[1] = p /\ o[2] < m)}

\* The first N relocations of the plugin are those in a set.
FirstAre(i, N, S) == /\ N <= Cardinality(RelocsOf(i))
                     /\ {OriginsOf(i)[n] : n \in 1 .. N} = S

-----------------------------------------------------------------------------
(* The inductive invariant.                                                 *)
SectionName == STRING \cup {"__text"}
RelocEntry == [type: STRING, address: Nat, scale: Nat \ {0}, addend: Int, asm: BOOLEAN,
               kind: Kinds, name: STRING, section: SectionName, value: Int]

IsSeq(s) == \E S : s \in Seq(S)

Typed ==
  /\ input \in Inputs
  /\ pc \in {"read", "bind", "resolve", "done", "error", "unresolved"}
  /\ part \in 1 .. Len(input.parts) + 1 /\ next \in Nat \ {0} /\ text \in Nat
  /\ \A p \in pending : p.address \in Nat
  /\ relocs \in Seq(RelocEntry)
  /\ \A name \in DOMAIN functions : functions[name] \in Nat
  /\ IsSeq(patched) /\ IsSeq(veneers)
  /\ Len(patched) <= Len(relocs) /\ Len(veneers) <= Len(patched)
  /\ built \in [text: Nat, data: Nat]

PendingAt(i, p, m) ==
  IF HasAddend(i, p, m)
  THEN {[address |-> i.parts[p].relocs[m - 1].address, addend |-> i.parts[p].relocs[m - 1].addend]}
  ELSE {}

\* The assembly functions before the p-th object are registered.
FunctionsBefore(i, fs, p) ==
  /\ DOMAIN fs = {i.parts[q].name : q \in 2 .. p - 1}
  /\ \A q \in 2 .. p - 1 : fs[i.parts[q].name] = Places(i)[q]

Entered(i, rs) == \A n \in 1 .. Len(rs) : rs[n] = EntryFor(i, OriginsOf(i)[n])

ReadInv ==
  pc = "read" =>
    /\ part \in 1 .. Len(input.parts)
    /\ next \in 1 .. Len(input.parts[part].relocs) + 1
    /\ AlignUp(text, 4) = Places(input)[part]
    /\ pending = PendingAt(input, part, next)
    /\ FirstAre(input, Len(relocs), Before(input, part, next))
    /\ Entered(input, relocs)
    /\ FunctionsBefore(input, functions, part)
    /\ patched = <<>> /\ veneers = <<>>

BindInv ==
  pc = "bind" =>
    /\ FirstAre(input, Len(relocs), RelocsOf(input))
    /\ Entered(input, relocs)
    /\ FunctionsBefore(input, functions, Len(input.parts) + 1)
    /\ patched = <<>> /\ veneers = <<>>

\* A name is of an assembly function, or else of a handler.
HandlersOf(i) == ToSet(i.handlers)
OffsetOf(i, name) ==
  IF \E p \in 2 .. Len(i.parts) : i.parts[p].name = name
  THEN Places(i)[CHOOSE p \in 2 .. Len(i.parts) : i.parts[p].name = name]
  ELSE (CHOOSE h \in HandlersOf(i) : h.name = name).offset

DataBound(i, r) ==
  IF r.asm /\ r.type \in DataTypes /\ r.section = "" /\ r.name \in DOMAIN i.globals
  THEN [r EXCEPT !.section = i.globals[r.name].section, !.value = i.globals[r.name].value]
  ELSE r
CallBound(i, r) == IF Named(r) THEN [r EXCEPT !.section = "__text", !.value = OffsetOf(i, r.name)] ELSE r

BoundInv ==
  pc \in {"resolve", "done"} =>
    /\ FirstAre(input, Len(relocs), RelocsOf(input))
    /\ \A n \in 1 .. Len(relocs) :
         relocs[n] = CallBound(input, DataBound(input, EntryFor(input, OriginsOf(input)[n])))

-----------------------------------------------------------------------------
(* What is resolved.                                                        *)
BranchesTo(rs, n) == {m \in 1 .. n : rs[m].type = "branch"}
Bound(rs, size) == size + Cardinality({m \in DOMAIN rs : rs[m].type = "branch"}) * 20
DataFrom(i, rs, size) == IF i.writable THEN i.dataVa ELSE i.textVa + AlignUp(Bound(rs, size), 16)

SectionsOf(i) ==
  LET at[n \in 1 .. Len(i.sections)] == IF n = 1 THEN 0 ELSE AlignUp(at[n - 1] + i.sections[n - 1].size, 8)
  IN  at
SectionOf(i, key) == CHOOSE n \in DOMAIN i.sections : i.sections[n].key = key

ByName(i, name) ==
  IF ~i.target.macho /\ name \in DOMAIN i.target.functions
  THEN i.target.functions[name] ELSE Lookup(i.target.stubs, name)

TargetOf(i, dataVa, r) ==
  IF r.kind = "absolute" \/ (r.kind \in {"va", "data"} /\ r.section = "") THEN r.value + r.addend
  ELSE IF r.section = "" THEN Plus(ByName(i, r.name), r.addend)
  ELSE IF r.section = "__text" THEN i.textVa + r.value + r.addend
  ELSE IF \E n \in DOMAIN i.sections : i.sections[n].key = r.section
       THEN dataVa + SectionsOf(i)[SectionOf(i, r.section)] + r.value + r.addend
  ELSE None

DataTargetOf(i, dataVa, r) ==
  IF r.kind \in {"absolute", "data"} \/ r.section # "" THEN TargetOf(i, dataVa, r)
  ELSE Plus(Lookup(i.target.slots, r.name), r.addend)

EndOf(i, size, vs) == IF vs = <<>> THEN i.textVa + size ELSE Last(vs).at + 4 * Last(vs).words

CallDone(i, dataVa, vs, r, w) ==
  LET to == TargetOf(i, dataVa, r)
  IN  /\ to # None
      /\ FitsBranch26(i.textVa + r.address, w.to)
      /\ w.to = to \/ \E v \in 1 .. Len(vs) : vs[v].at = w.to /\ vs[v].to = to

DataDone(i, dataVa, r, w) ==
  LET to == DataTargetOf(i, dataVa, r)
  IN  w.form # "nothing" =>
        /\ to # None
        /\ w.to = IF w.form = "page" THEN PageOf(to) ELSE to % PageSize
        /\ w.form = "load" => r.type = "gotoff"
        /\ r.type = "gotoff" /\ r.kind # "data" => w.form = "load"

ResolvedInv ==
  pc \in {"resolve", "done"} => \A n \in 1 .. Len(patched) :
    /\ relocs[n].type = "branch" =>
         CallDone(input, DataFrom(input, relocs, text), veneers, relocs[n], patched[n])
    /\ relocs[n].type \in DataTypes \ {"pointer"} =>
         DataDone(input, DataFrom(input, relocs, text), relocs[n], patched[n])

\* The veneers are in the room made for those of the branches resolved.
VeneerInv ==
  pc \in {"resolve", "done"} =>
    LET end == EndOf(input, text, veneers)
    IN  /\ end \in Int
        /\ end <= input.textVa + text + 20 * Cardinality(BranchesTo(relocs, Len(patched)))
        /\ \A v \in 1 .. Len(veneers) :
             veneers[v].at \in Int /\ veneers[v].words \in 3 .. 5 /\ veneers[v].at + 4 * veneers[v].words <= end

BuiltInv ==
  pc = "done" => /\ Len(patched) = Len(relocs)
                 /\ built.text = Bound(relocs, text)
                 /\ built.data = AlignUp(Bound(relocs, text), 16)

IInv == Typed /\ ReadInv /\ BindInv /\ BoundInv /\ ResolvedInv /\ VeneerInv /\ BuiltInv
-----------------------------------------------------------------------------
(* Inputs, and where objects are placed.                                    *)

\* What the assumption says of one plugin.
LEMMA InputTyped ==
  ASSUME NEW i \in Inputs
  PROVE  /\ i.parts \in Seq(Object) /\ Len(i.parts) \in Nat \ {0} /\ DOMAIN i.parts = 1 .. Len(i.parts)
         /\ \A p \in DOMAIN i.parts :
              /\ i.parts[p].size \in Nat /\ i.parts[p].name \in STRING
              /\ i.parts[p].relocs \in Seq(Relocation)
              /\ Len(i.parts[p].relocs) \in Nat /\ DOMAIN i.parts[p].relocs = 1 .. Len(i.parts[p].relocs)
              /\ \A m \in DOMAIN i.parts[p].relocs :
                   LET r == i.parts[p].relocs[m]
                   IN  /\ r \in Relocation
                       /\ r.sym.section # "" => r.sym.kind \in {"own", "anonymous"}
                       /\ r.sym.kind \in {"absolute", "data"} => r.sym.name \notin DOMAIN i.globals
         /\ i.handlers \in Seq([name: STRING, offset: Int])
         /\ i.textVa \in Nat /\ i.dataVa \in Nat
         /\ \A g \in DOMAIN i.globals : /\ i.globals[g].section \in STRING \ {"", "__text"}
                                        /\ i.globals[g].value \in Int
<1>1. i.parts \in Seq(Object) /\ i.parts # <<>>  BY InputsAssumption
<1>2. Len(i.parts) \in Nat \ {0} /\ DOMAIN i.parts = 1 .. Len(i.parts)  BY <1>1
<1>3. ASSUME NEW p \in DOMAIN i.parts
      PROVE  /\ i.parts[p].size \in Nat /\ i.parts[p].name \in STRING
             /\ i.parts[p].relocs \in Seq(Relocation)
             /\ Len(i.parts[p].relocs) \in Nat /\ DOMAIN i.parts[p].relocs = 1 .. Len(i.parts[p].relocs)
             /\ \A m \in DOMAIN i.parts[p].relocs :
                  LET r == i.parts[p].relocs[m]
                  IN  /\ r \in Relocation
                      /\ r.sym.section # "" => r.sym.kind \in {"own", "anonymous"}
                      /\ r.sym.kind \in {"absolute", "data"} => r.sym.name \notin DOMAIN i.globals
  <2>1. i.parts[p] \in Object  BY <1>1, <1>2, <1>3
  <2>2. /\ i.parts[p].size \in Nat /\ i.parts[p].name \in STRING
        /\ i.parts[p].relocs \in Seq(Relocation)
    BY <2>1 DEF Object
  <2>3. Len(i.parts[p].relocs) \in Nat /\ DOMAIN i.parts[p].relocs = 1 .. Len(i.parts[p].relocs)
    BY <2>2
  <2>4. ASSUME NEW m \in DOMAIN i.parts[p].relocs
        PROVE  i.parts[p].relocs[m] \in Relocation /\ i.parts[p].relocs[m] \in Range(i.parts[p].relocs)
    BY <2>2, <2>3, <2>4 DEF Range
  <2>5. \A r \in Range(i.parts[p].relocs) :
          /\ r.sym.section # "" => r.sym.kind \in {"own", "anonymous"}
          /\ r.sym.kind \in {"absolute", "data"} => r.sym.name \notin DOMAIN i.globals
    BY InputsAssumption
  <2> QED  BY <2>2, <2>3, <2>4, <2>5
<1> QED  BY <1>1, <1>2, <1>3, InputsAssumption

\* Rounding up to 4, 8 or 16 yields a number.
LEMMA AlignUpNat ==
  ASSUME NEW n \in Nat
  PROVE  AlignUp(n, 4) \in Nat /\ AlignUp(n, 16) \in Nat /\ n <= AlignUp(n, 16) /\ n <= AlignUp(n, 4)
BY DEF AlignUp

\* The recursion over the objects has a solution for every number of them:
\* at the least number without one, that for one object fewer could be extended.
LEMMA LayoutExists ==
  ASSUME NEW i \in Inputs
  PROVE  \E f \in [1 .. Len(i.parts) -> Nat] : IsLayout(f, i)
<1> DEFINE N == Len(i.parts)
           Step(f, p) == IF p = 1 THEN 0 ELSE AlignUp(f[p - 1] + i.parts[p - 1].size, 4)
           Good(f, n) == f \in [1 .. n -> Nat] /\ \A p \in 1 .. n : f[p] = Step(f, p)
           T == {n \in 1 .. N : ~ \E f : Good(f, n)}
<1>1. N \in Nat \ {0} /\ \A p \in 1 .. N : i.parts[p].size \in Nat  BY InputTyped
<1>2. ASSUME T # {}  PROVE FALSE
  <2>1. PICK n \in T : \A m \in T : n <= m
    <3>1. T \subseteq Nat  BY <1>1
    <3> HIDE DEF T
    <3> QED  BY <1>2, <3>1, Least
  <2>2. n \in 1 .. N /\ ~ \E f : Good(f, n)  OBVIOUS
  <2>3. CASE n = 1
    <3>1. Good([p \in 1 .. 1 |-> 0], 1)  OBVIOUS
    <3> QED  BY <2>2, <2>3, <3>1
  <2>4. CASE n # 1
    <3> HIDE DEF T
    <3>0. n - 1 \in 1 .. N /\ ~(n <= n - 1)  BY <1>1, <2>2, <2>4
    <3>1. n - 1 \in 1 .. N /\ n - 1 \notin T  BY <2>1, <3>0
    <3>2. PICK f : Good(f, n - 1)  BY <3>1 DEF T
    <3> DEFINE v == AlignUp(f[n - 1] + i.parts[n - 1].size, 4)
               g == [p \in 1 .. n |-> IF p = n THEN v ELSE f[p]]
    <3>3. v \in Nat
      <4>1. n - 1 \in 1 .. n - 1  BY <1>1, <3>0
      <4>2. f[n - 1] + i.parts[n - 1].size \in Nat  BY <1>1, <3>0, <3>2, <4>1
      <4> QED  BY <4>2, AlignUpNat
    <3>4. g[n] = v /\ v = AlignUp(f[n - 1] + i.parts[n - 1].size, 4)
      BY <1>1, <2>2
    <3> HIDE DEF v
    <3>5. \A p \in 1 .. n - 1 : g[p] = f[p] /\ f[p] \in Nat  BY <1>1, <2>2, <3>2
    <3>6. g \in [1 .. n -> Nat]  BY <1>1, <2>2, <3>2, <3>3
    <3> HIDE DEF g
    <3>7. ASSUME NEW p \in 1 .. n  PROVE g[p] = Step(g, p)
      <4>1. CASE p = n
        <5>1. g[n - 1] = f[n - 1]  BY <3>1, <3>5
        <5> QED  BY <2>4, <3>4, <4>1, <5>1
      <4>2. CASE p = 1
        <5>1. 1 \in 1 .. n - 1  BY <1>1, <2>2, <2>4
        <5>2. f[1] = 0  BY <3>2, <5>1
        <5> QED  BY <3>5, <4>2, <5>1, <5>2
      <4>3. CASE p # n /\ p # 1
        <5>1. p \in 1 .. n - 1 /\ p - 1 \in 1 .. n - 1  BY <1>1, <2>2, <4>3
        <5>2. f[p] = AlignUp(f[p - 1] + i.parts[p - 1].size, 4)  BY <3>2, <4>3, <5>1
        <5>3. g[p] = f[p] /\ g[p - 1] = f[p - 1]  BY <3>5, <5>1
        <5> QED  BY <4>3, <5>2, <5>3
      <4> QED  BY <4>1, <4>2, <4>3
    <3> QED  BY <2>2, <3>6, <3>7
  <2> QED  BY <2>3, <2>4
<1> HIDE DEF T
<1>3. N \in 1 .. N /\ N \notin T  BY <1>1, <1>2
<1>4. PICK f : Good(f, N)  BY <1>3 DEF T
<1>5. IsLayout(f, i)  BY <1>4 DEF IsLayout
<1> QED  BY <1>4, <1>5

\* Where each object is placed.
LEMMA PlacesAre ==
  ASSUME NEW i \in Inputs
  PROVE  /\ Places(i)[1] = 0
         /\ \A p \in 1 .. Len(i.parts) : Places(i)[p] \in Nat
         /\ \A p \in 2 .. Len(i.parts) : Places(i)[p] = AlignUp(Places(i)[p - 1] + i.parts[p - 1].size, 4)
<1> DEFINE N == Len(i.parts)
           f == Places(i)
           T == {n \in 1 .. N : f[n] \notin Nat}
<1>1. N \in Nat \ {0} /\ \A p \in 1 .. N : i.parts[p].size \in Nat  BY InputTyped
<1>2. IsLayout(f, i)  BY LayoutExists DEF Places
<1>3. \A p \in 1 .. N : f[p] = IF p = 1 THEN 0 ELSE AlignUp(f[p - 1] + i.parts[p - 1].size, 4)
  BY <1>2 DEF IsLayout
<1> HIDE DEF f
<1>4. ASSUME T # {}  PROVE FALSE
  <2>1. PICK n \in T : \A m \in T : n <= m
    <3>1. T \subseteq Nat  BY <1>1
    <3> HIDE DEF T
    <3> QED  BY <1>4, <3>1, Least
  <2>2. n \in 1 .. N /\ f[n] \notin Nat  OBVIOUS
  <2>3. CASE n = 1  BY <1>3, <2>2, <2>3
  <2>4. CASE n # 1
    <3>1. n - 1 \in 1 .. N /\ n - 1 \notin T  BY <1>1, <2>1, <2>2, <2>4
    <3>2. f[n - 1] + i.parts[n - 1].size \in Nat  BY <1>1, <3>1
    <3>3. f[n] = AlignUp(f[n - 1] + i.parts[n - 1].size, 4)  BY <1>3, <2>2, <2>4
    <3> QED  BY <2>2, <3>2, <3>3, AlignUpNat
  <2> QED  BY <2>3, <2>4
<1> QED  BY <1>1, <1>3, <1>4 DEF f

-----------------------------------------------------------------------------
(* The order of the relocations.                                            *)

\* A relocation is known by its object and its number there.
LEMMA RelocsAre ==
  ASSUME NEW i \in Inputs
  PROVE  /\ IsFiniteSet(RelocsOf(i))
         /\ \A o \in RelocsOf(i) : /\ o = <<o[1], o[2]>>
                                   /\ o[1] \in 1 .. Len(i.parts)
                                   /\ o[2] \in 1 .. Len(i.parts[o[1]].relocs)
                                   /\ o[1] \in Nat /\ o[2] \in Nat
                                   /\ SourceOf(i, o) \in Relocation /\ SourceOf(i, o).type # "addend"
         /\ \A p \in 1 .. Len(i.parts) : \A m \in 1 .. Len(i.parts[p].relocs) :
              i.parts[p].relocs[m].type # "addend" => <<p, m>> \in RelocsOf(i)
<1> DEFINE Of(p) == {m \in DOMAIN i.parts[p].relocs : i.parts[p].relocs[m].type # "addend"}
<1>1. /\ Len(i.parts) \in Nat /\ DOMAIN i.parts = 1 .. Len(i.parts)
      /\ \A p \in DOMAIN i.parts : /\ Len(i.parts[p].relocs) \in Nat
                                   /\ DOMAIN i.parts[p].relocs = 1 .. Len(i.parts[p].relocs)
                                   /\ \A m \in DOMAIN i.parts[p].relocs : i.parts[p].relocs[m] \in Relocation
  BY InputTyped
<1>2. RelocsOf(i) = UNION {{p} \X Of(p) : p \in DOMAIN i.parts}  BY DEF RelocsOf
<1>3. ASSUME NEW p \in DOMAIN i.parts  PROVE IsFiniteSet({p} \X Of(p))
  <2>1. IsFiniteSet(DOMAIN i.parts[p].relocs)
    <3> DEFINE D == DOMAIN i.parts[p].relocs
               L == Len(i.parts[p].relocs)
    <3>1. L \in Int /\ D = 1 .. L  BY <1>1, <1>3
    <3> HIDE DEF D, L
    <3>2. IsFiniteSet(1 .. L)  BY <3>1, FS_Interval
    <3>3. IsFiniteSet(D)  BY <3>1, <3>2
    <3> QED  BY <3>3 DEF D
  <2>2. Of(p) \in SUBSET DOMAIN i.parts[p].relocs  OBVIOUS
  <2> HIDE DEF Of
  <2>3. IsFiniteSet(Of(p))  BY <2>1, <2>2, FS_Subset
  <2>4. IsFiniteSet({p})  BY FS_Singleton
  <2> QED  BY <2>3, <2>4, FS_Product
<1>4. IsFiniteSet(RelocsOf(i))
  <2> DEFINE D == DOMAIN i.parts
             W == {{p} \X Of(p) : p \in D}
  <2>1. IsFiniteSet(D)  BY <1>1, FS_Interval
  <2> HIDE DEF Of
  <2>2. IsFiniteSet(W)
    <3> DEFINE g == [p \in D |-> {p} \X Of(p)]
    <3>1. g \in Surjection(D, W)  BY DEF Surjection
    <3> HIDE DEF g, D, W
    <3> QED  BY <2>1, <3>1, FS_Surjection
  <2>3. \A T \in W : IsFiniteSet(T)  BY <1>3
  <2> HIDE DEF W
  <2>4. IsFiniteSet(UNION W)  BY <2>2, <2>3, FS_UNION
  <2> QED  BY <1>2, <2>4 DEF W
<1>5. ASSUME NEW o \in RelocsOf(i)
      PROVE  /\ o = <<o[1], o[2]>> /\ o[1] \in 1 .. Len(i.parts)
             /\ o[2] \in 1 .. Len(i.parts[o[1]].relocs)
             /\ o[1] \in Nat /\ o[2] \in Nat
             /\ SourceOf(i, o) \in Relocation /\ SourceOf(i, o).type # "addend"
  <2>1. PICK p \in DOMAIN i.parts : o \in {p} \X Of(p)  BY <1>2, <1>5
  <2>2. o = <<o[1], o[2]>> /\ o[1] = p /\ o[2] \in Of(p)  BY <2>1
  <2>3. o[2] \in DOMAIN i.parts[p].relocs /\ i.parts[p].relocs[o[2]].type # "addend"  BY <2>2
  <2> QED  BY <1>1, <2>2, <2>3 DEF SourceOf
<1>6. ASSUME NEW p \in 1 .. Len(i.parts), NEW m \in 1 .. Len(i.parts[p].relocs),
             i.parts[p].relocs[m].type # "addend"
      PROVE  <<p, m>> \in RelocsOf(i)
  <2>1. <<p, m>> \in {p} \X Of(p) /\ p \in DOMAIN i.parts  BY <1>1, <1>6
  <2> QED  BY <1>2, <2>1
<1> QED  BY <1>4, <1>5, <1>6

\* By object, and by number in an object: a total order.
LEMMA EarlierOrders ==
  ASSUME NEW i \in Inputs
  PROVE  Orders(Earlier(RelocsOf(i)), RelocsOf(i))
<1> DEFINE S == RelocsOf(i)
           R == Earlier(S)
<1>1. \A o \in S : o = <<o[1], o[2]>> /\ o[1] \in Nat /\ o[2] \in Nat  BY RelocsAre
<1> HIDE DEF S
<1>2. ASSUME NEW x \in S, NEW y \in S
      PROVE  <<x, y>> \in R <=> x[1] < y[1] \/ (x[1] = y[1] /\ x[2] < y[2])
  BY DEF Earlier
<1> HIDE DEF R
<1>3. \A x \in S : <<x, x>> \notin R  BY <1>1, <1>2
<1>4. ASSUME NEW x \in S, NEW y \in S, NEW z \in S, <<x, y>> \in R, <<y, z>> \in R
      PROVE  <<x, z>> \in R
  <2>1. x[1] < y[1] \/ (x[1] = y[1] /\ x[2] < y[2])  BY <1>2, <1>4
  <2>2. y[1] < z[1] \/ (y[1] = z[1] /\ y[2] < z[2])  BY <1>2, <1>4
  <2>3. x[1] < z[1] \/ (x[1] = z[1] /\ x[2] < z[2])  BY <1>1, <2>1, <2>2
  <2> QED  BY <1>2, <2>3
<1>5. ASSUME NEW x \in S, NEW y \in S, x # y  PROVE <<x, y>> \in R \/ <<y, x>> \in R
  <2>1. x[1] # y[1] \/ x[2] # y[2]  BY <1>1, <1>5
  <2>2. \/ x[1] < y[1] \/ y[1] < x[1]
        \/ (x[1] = y[1] /\ x[2] < y[2]) \/ (y[1] = x[1] /\ y[2] < x[2])
    BY <1>1, <2>1
  <2> QED  BY <1>2, <2>2
<1>6. Orders(R, S)  BY <1>3, <1>4, <1>5 DEF Orders
<1> QED  BY <1>6 DEF S, R

\* All of them, in that order.
LEMMA OriginsAre ==
  ASSUME NEW i \in Inputs
  PROVE  LET N == Cardinality(RelocsOf(i))
             s == OriginsOf(i)
         IN  /\ N \in Nat
             /\ \A n \in 1 .. N : s[n] \in RelocsOf(i)
             /\ \A m, n \in 1 .. N : m < n => \/ s[m][1] < s[n][1]
                                              \/ (s[m][1] = s[n][1] /\ s[m][2] < s[n][2])
             /\ \A o \in RelocsOf(i) : \E n \in 1 .. N : s[n] = o
<1> DEFINE S == RelocsOf(i)
           R == Earlier(S)
           N == Cardinality(S)
           s == InOrder(S, R)
<1>1. IsFiniteSet(S) /\ Orders(R, S)  BY RelocsAre, EarlierOrders
<1>2. \A x, y \in S : <<x, y>> \in R => x[1] < y[1] \/ (x[1] = y[1] /\ x[2] < y[2])  BY DEF Earlier
<1>3. s = OriginsOf(i)  BY DEF OriginsOf
<1> HIDE DEF S, R
<1>4. /\ Lists(s, R, S) /\ N \in Nat
      /\ \A o \in S : \E n \in 1 .. N : s[n] = o
  BY <1>1, InOrderLists
<1> HIDE DEF s
<1>5. s \in [1 .. N -> S] /\ DOMAIN s = 1 .. N
      /\ \A m, n \in DOMAIN s : m < n => <<s[m], s[n]>> \in R
  BY <1>4 DEF Lists
<1>6. ASSUME NEW m \in 1 .. N, NEW n \in 1 .. N, m < n
      PROVE  s[m][1] < s[n][1] \/ (s[m][1] = s[n][1] /\ s[m][2] < s[n][2])
  BY <1>2, <1>5, <1>6
<1> QED  BY <1>3, <1>4, <1>5, <1>6 DEF S

\* The relocations before one are the first ones, so it is the next.
LEMMA NextOrigin ==
  ASSUME NEW i \in Inputs, NEW p \in 1 .. Len(i.parts), NEW m \in 1 .. Len(i.parts[p].relocs),
         i.parts[p].relocs[m].type # "addend",
         NEW N \in Nat, FirstAre(i, N, Before(i, p, m))
  PROVE  /\ OriginsOf(i)[N + 1] = <<p, m>>
         /\ FirstAre(i, N + 1, Before(i, p, m + 1))
<1> DEFINE S == RelocsOf(i)
           C == Cardinality(S)
           s == OriginsOf(i)
           o == <<p, m>>
           B == Before(i, p, m)
           First(n) == {s[j] : j \in 1 .. n}
<1>1. /\ C \in Nat
      /\ \A n \in 1 .. C : s[n] \in S
      /\ \A j, n \in 1 .. C : j < n => s[j][1] < s[n][1] \/ (s[j][1] = s[n][1] /\ s[j][2] < s[n][2])
      /\ \A x \in S : \E n \in 1 .. C : s[n] = x
  BY OriginsAre
<1>2. N <= C /\ First(N) = B  BY DEF FirstAre
<1>3. o \in S  BY RelocsAre
<1>4. /\ p \in Nat /\ m \in Nat /\ o[1] = p /\ o[2] = m
      /\ \A x \in S : x = <<x[1], x[2]>> /\ x[1] \in Nat /\ x[2] \in Nat
  <2>1. Len(i.parts) \in Nat /\ DOMAIN i.parts = 1 .. Len(i.parts) /\ Len(i.parts[p].relocs) \in Nat  BY InputTyped
  <2>2. p \in Nat /\ m \in Nat  BY <2>1
  <2> QED  BY <2>2, RelocsAre
<1>5. \A x \in S : x \in B <=> x[1] < p \/ (x[1] = p /\ x[2] < m)  BY DEF Before
<1>6. o \notin B  BY <1>3, <1>4, <1>5
<1>7. PICK n \in 1 .. C : s[n] = o  BY <1>1, <1>3
<1> HIDE DEF S, s, o, B
<1>8. ~(n <= N)
  <2>1. ASSUME n <= N  PROVE FALSE
    <3>1. n \in 1 .. N  BY <1>1, <1>7, <2>1
    <3>2. s[n] \in First(N)  BY <3>1
    <3> QED  BY <1>2, <1>6, <1>7, <3>2
  <2> QED  BY <2>1
<1>9. N + 1 \in 1 .. C  BY <1>1, <1>7, <1>8
<1>10. n = N + 1
  <2>1. ASSUME N + 1 < n  PROVE FALSE
    <3> DEFINE x == s[N + 1]
    <3>1. x \in S  BY <1>1, <1>9
    <3>2. x[1] < s[n][1] \/ (x[1] = s[n][1] /\ x[2] < s[n][2])  BY <1>1, <1>7, <1>9, <2>1
    <3>3. x \in B  BY <1>4, <1>5, <1>7, <3>1, <3>2
    <3>4. PICK j \in 1 .. N : s[j] = x  BY <1>2, <3>3
    <3>5. j \in 1 .. C /\ j < N + 1  BY <1>1, <1>2, <3>4
    <3>6. s[j][1] < x[1] \/ (s[j][1] = x[1] /\ s[j][2] < x[2])  BY <1>1, <1>9, <3>5
    <3> QED  BY <1>4, <3>1, <3>4, <3>6
  <2> QED  BY <1>1, <1>7, <1>8, <2>1
<1>11. First(N + 1) = B \cup {o}
  <2>1. \A j : j \in 1 .. N + 1 <=> j \in 1 .. N \/ j = N + 1  OBVIOUS
  <2>2. First(N + 1) = First(N) \cup {s[N + 1]}  BY <2>1
  <2> QED  BY <1>2, <1>7, <1>10, <2>2
<1>12. Before(i, p, m + 1) = B \cup {o}
  <2>1. \A x : x \in Before(i, p, m + 1) <=> x \in S /\ (x[1] < p \/ (x[1] = p /\ x[2] < m + 1))
    BY DEF Before, S
  <2>2. \A x \in S : x[1] < p \/ (x[1] = p /\ x[2] < m + 1) <=> x \in B \/ x = o
    <3> TAKE x \in S
    <3>1. x = o <=> x[1] = p /\ x[2] = m  BY <1>4 DEF o
    <3>2. x[2] < m + 1 <=> x[2] < m \/ x[2] = m
      <4>1. x[2] \in Nat /\ m \in Nat  BY <1>4
      <4> QED  BY <4>1
    <3> QED  BY <1>5, <3>1, <3>2
  <2>3. \A x : x \in B => x \in S  BY DEF B, Before, S
  <2> QED  BY <1>3, <2>1, <2>2, <2>3
<1>13. N + 1 <= C /\ First(N + 1) = Before(i, p, m + 1)  BY <1>1, <1>9, <1>11, <1>12
<1> QED  BY <1>7, <1>10, <1>13 DEF FirstAre, S, s, o

\* An entry that is an addend is no relocation of its own.
LEMMA SkipAddend ==
  ASSUME NEW i \in Inputs, NEW p \in 1 .. Len(i.parts), NEW m \in 1 .. Len(i.parts[p].relocs),
         i.parts[p].relocs[m].type = "addend"
  PROVE  Before(i, p, m + 1) = Before(i, p, m)
<1>1. m \in Nat
  <2>1. Len(i.parts[p].relocs) \in Nat  BY InputTyped
  <2> QED  BY <2>1
<1>2. ASSUME NEW x \in RelocsOf(i)  PROVE x[1] = p /\ x[2] < m + 1 <=> x[1] = p /\ x[2] < m
  <2>1. x[2] \in Nat /\ SourceOf(i, x).type # "addend"  BY RelocsAre
  <2>2. ~(x[1] = p /\ x[2] = m)  BY <2>1 DEF SourceOf
  <2> QED  BY <1>1, <2>1, <2>2
<1> QED  BY <1>2 DEF Before

\* Behind the last entry of an object comes the next object.
LEMMA NextObject ==
  ASSUME NEW i \in Inputs, NEW p \in 1 .. Len(i.parts)
  PROVE  /\ Before(i, p, Len(i.parts[p].relocs) + 1) = Before(i, p + 1, 1)
         /\ p = Len(i.parts) => Before(i, p + 1, 1) = RelocsOf(i)
         /\ Before(i, 1, 1) = {}
<1>1. Len(i.parts) \in Nat /\ p \in Nat /\ \A q \in 1 .. Len(i.parts) : Len(i.parts[q].relocs) \in Nat
  <2>1. /\ Len(i.parts) \in Nat /\ DOMAIN i.parts = 1 .. Len(i.parts)
        /\ \A q \in DOMAIN i.parts : Len(i.parts[q].relocs) \in Nat
    BY InputTyped
  <2> QED  BY <2>1
<1>2. ASSUME NEW x \in RelocsOf(i)
      PROVE  /\ x[1] \in Nat /\ x[2] \in Nat /\ x[1] \in 1 .. Len(i.parts) /\ x[2] >= 1
             /\ x[1] = p => x[2] < Len(i.parts[p].relocs) + 1
  <2>1. /\ x[1] \in 1 .. Len(i.parts) /\ x[2] \in 1 .. Len(i.parts[x[1]].relocs)
        /\ x[1] \in Nat /\ x[2] \in Nat
    BY RelocsAre
  <2>2. ASSUME x[1] = p  PROVE x[2] < Len(i.parts[p].relocs) + 1
    <3>1. x[2] \in 1 .. Len(i.parts[p].relocs)  BY <2>1, <2>2
    <3> QED  BY <1>1, <3>1
  <2> QED  BY <1>1, <2>1, <2>2
<1>3. ASSUME NEW x \in RelocsOf(i)
      PROVE  /\ x[1] < p \/ (x[1] = p /\ x[2] < Len(i.parts[p].relocs) + 1) <=> x[1] < p + 1 \/ (x[1] = p + 1 /\ x[2] < 1)
             /\ p = Len(i.parts) => x[1] < p + 1
             /\ ~(x[1] < 1) /\ ~(x[2] < 1)
  BY <1>1, <1>2
<1> QED  BY <1>3 DEF Before

\* Nothing is read at first.
LEMMA FirstNone ==
  ASSUME NEW i \in Inputs
  PROVE  FirstAre(i, 0, Before(i, 1, 1))
<1>1. 1 \in 1 .. Len(i.parts) /\ Cardinality(RelocsOf(i)) \in Nat
  <2>1. Len(i.parts) \in Nat \ {0}  BY InputTyped
  <2>2. Cardinality(RelocsOf(i)) \in Nat  BY OriginsAre
  <2> QED  BY <2>1, <2>2
<1>2. Before(i, 1, 1) = {}  BY <1>1, NextObject
<1>3. {OriginsOf(i)[n] : n \in 1 .. 0} = {}  OBVIOUS
<1> QED  BY <1>1, <1>2, <1>3 DEF FirstAre

-----------------------------------------------------------------------------
(* Reading the objects.                                                     *)

\* Adding to a sequence of whatever.
LEMMA Appended ==
  ASSUME NEW s, IsSeq(s), NEW e
  PROVE  /\ IsSeq(Append(s, e)) /\ Len(s) \in Nat /\ Len(Append(s, e)) = Len(s) + 1
         /\ \A n \in 1 .. Len(s) : Append(s, e)[n] = s[n]
         /\ Append(s, e)[Len(s) + 1] = e
         /\ Append(s, e) # <<>>
<1>1. PICK S : s \in Seq(S)  BY DEF IsSeq
<1> DEFINE T == S \cup {e}
<1>2. s \in Seq(T) /\ e \in T  BY <1>1
<1> HIDE DEF T
<1>3. Append(s, e) \in Seq(T)  BY <1>2
<1> QED  BY <1>2, <1>3 DEF IsSeq

\* What is made of a relocation has the type of an entry.
LEMMA EntryTyped ==
  ASSUME NEW i \in Inputs, NEW o \in RelocsOf(i)
  PROVE  /\ EntryFor(i, o) \in RelocEntry
         /\ AddendAt(i, o[1], o[2]) \in Int
<1> DEFINE r == SourceOf(i, o)
           s == r.sym
<1>1. o[1] \in 1 .. Len(i.parts) /\ o[2] \in 1 .. Len(i.parts[o[1]].relocs) /\ r \in Relocation
  BY RelocsAre
<1>2. r.type \in STRING /\ r.address \in Nat /\ r.scale \in Nat \ {0} /\ s \in SymbolRef
  BY <1>1 DEF Relocation
<1>3. s.kind \in Kinds /\ s.name \in STRING /\ s.section \in SectionName /\ s.value \in Int
  BY <1>2 DEF SymbolRef, SectionName
<1>4. Places(i)[o[1]] \in Nat  BY <1>1, PlacesAre
<1>5. AddendAt(i, o[1], o[2]) \in Int
  <2>1. CASE HasAddend(i, o[1], o[2])
    <3> DEFINE rs == i.parts[o[1]].relocs
    <3>1. rs \in Seq(Relocation) /\ Len(rs) \in Nat  BY <1>1, InputTyped
    <3>2. o[2] - 1 \in 1 .. Len(rs)  BY <1>1, <2>1, <3>1 DEF HasAddend
    <3>3. rs[o[2] - 1] \in Relocation  BY <3>1, <3>2
    <3>4. rs[o[2] - 1].addend \in Int  BY <3>3 DEF Relocation
    <3> QED  BY <2>1, <3>4 DEF AddendAt
  <2>2. CASE ~HasAddend(i, o[1], o[2])  BY <2>2 DEF AddendAt
  <2> QED  BY <2>1, <2>2
<1>6. Places(i)[o[1]] + r.address \in Nat  BY <1>2, <1>4
<1> HIDE DEF r
<1> DEFINE a == Places(i)[o[1]] + r.address
           b == AddendAt(i, o[1], o[2])
           kind == IF s.kind = "absolute" /\ ~(o[1] > 1) THEN "outside" ELSE s.kind
           c == o[1] > 1
<1>7. kind \in Kinds /\ c \in BOOLEAN /\ a \in Nat /\ b \in Int
  <2>1. kind \in Kinds
    <3>1. "outside" \in Kinds  BY DEF Kinds
    <3> HIDE DEF s
    <3> QED  BY <1>3, <3>1
  <2>2. c \in BOOLEAN  OBVIOUS
  <2> QED  BY <1>5, <1>6, <2>1, <2>2
<1>8. EntryFor(i, o) = [type |-> r.type, address |-> a, scale |-> r.scale, addend |-> b, asm |-> c,
                        kind |-> kind, name |-> s.name, section |-> s.section, value |-> s.value]
  BY DEF EntryFor, r
<1> HIDE DEF a, b, c, kind, s
<1>9. EntryFor(i, o) \in RelocEntry  BY <1>2, <1>3, <1>7, <1>8 DEF RelocEntry
<1> QED  BY <1>5, <1>9

\* The entry made is that of the relocation read, with its addend.
LEMMA EntryIs ==
  ASSUME Typed, ReadInv, ReadReloc
  PROVE  /\ <<part, next>> \in RelocsOf(input)
         /\ relocs' = Append(relocs, EntryFor(input, <<part, next>>))
         /\ ~HasAddend(input, part, next + 1)
<1> DEFINE o == <<part, next>>
           a == IF pending = {} THEN 0 ELSE (CHOOSE p \in pending : TRUE).addend
           rs == input.parts[part].relocs
<1>1. /\ input \in Inputs /\ part \in 1 .. Len(input.parts) /\ next \in 1 .. Len(rs)
      /\ rs[next].type # "addend"
      /\ part \in Nat /\ next \in Nat
  <2>1. /\ input \in Inputs /\ part \in 1 .. Len(input.parts) /\ next \in 1 .. Len(rs) + 1
        /\ next <= Len(rs) /\ rs[next].type # "addend" /\ part \in 1 .. Len(input.parts) + 1
    BY DEF Typed, ReadInv, ReadReloc, ReadingReloc, Reading, Current
  <2>2. Len(input.parts) \in Nat /\ Len(rs) \in Nat
    <3>1. /\ Len(input.parts) \in Nat /\ DOMAIN input.parts = 1 .. Len(input.parts)
          /\ \A p \in DOMAIN input.parts : Len(input.parts[p].relocs) \in Nat
      BY <2>1, InputTyped
    <3> QED  BY <2>1, <3>1
  <2> QED  BY <2>1, <2>2
<1>2. o \in RelocsOf(input) /\ o[1] = part /\ o[2] = next  BY <1>1, RelocsAre
<1>3. pending = PendingAt(input, part, next) /\ AlignUp(text, 4) = Places(input)[part]
  BY DEF ReadInv, ReadReloc, ReadingReloc, Reading
<1>4. a = AddendAt(input, part, next)
  <2>1. CASE HasAddend(input, part, next)
    <3> DEFINE e == [address |-> rs[next - 1].address, addend |-> rs[next - 1].addend]
    <3>1. pending = {e} /\ e.addend = rs[next - 1].addend  BY <1>3, <2>1 DEF PendingAt
    <3> HIDE DEF e
    <3>2. (CHOOSE p \in pending : TRUE) = e  BY <3>1
    <3> QED  BY <2>1, <3>1, <3>2 DEF AddendAt
  <2>2. CASE ~HasAddend(input, part, next)
    BY <1>3, <2>2 DEF PendingAt, AddendAt
  <2> QED  BY <2>1, <2>2
<1>5. relocs' = Append(relocs, Entry(a))  BY DEF ReadReloc
<1> HIDE DEF a
<1>6. Entry(a) = EntryFor(input, o)
  <2>1. rs[next] = SourceOf(input, o) /\ Current = SourceOf(input, o)  BY <1>2 DEF SourceOf, Current
  <2>2. Base = Places(input)[o[1]] /\ a = AddendAt(input, o[1], o[2])  BY <1>2, <1>3, <1>4 DEF Base
  <2>3. Asm <=> o[1] > 1  BY <1>2 DEF Asm
  <2>4. Asm = (o[1] > 1)  BY <1>2 DEF Asm
  <2> HIDE DEF o
  <2> QED  BY <2>1, <2>2, <2>4 DEF Entry, EntryFor
<1>7. ~HasAddend(input, part, next + 1)  BY <1>1 DEF HasAddend
<1> QED  BY <1>2, <1>5, <1>6, <1>7

\* An addend is kept for the entry behind it.
LEMMA ReadAddendStep ==
  ASSUME IInv, ReadAddend
  PROVE  IInv'
<1> DEFINE rs == input.parts[part].relocs
           c == rs[next]
<1>1. /\ pc = "read" /\ pc' = "read" /\ input' = input /\ part' = part /\ next' = next + 1
      /\ relocs' = relocs /\ functions' = functions /\ text' = text /\ veneers' = veneers
      /\ patched' = patched /\ built' = built
      /\ pending' = {[address |-> c.address, addend |-> c.addend]} /\ c.type = "addend"
      /\ next <= Len(rs)
  BY DEF ReadAddend, ReadingReloc, Reading, Current
<1>2. /\ Typed /\ input \in Inputs /\ part \in 1 .. Len(input.parts) /\ next \in 1 .. Len(rs) + 1
      /\ next \in Nat \ {0} /\ Len(rs) \in Nat
  <2>1. /\ Typed /\ input \in Inputs /\ part \in 1 .. Len(input.parts) /\ next \in 1 .. Len(rs) + 1
        /\ next \in Nat \ {0}
    BY <1>1 DEF IInv, Typed, ReadInv
  <2>2. /\ Len(input.parts) \in Nat /\ DOMAIN input.parts = 1 .. Len(input.parts)
        /\ \A p \in DOMAIN input.parts : Len(input.parts[p].relocs) \in Nat
    BY <2>1, InputTyped
  <2> QED  BY <2>1, <2>2
<1>3. next \in 1 .. Len(rs) /\ next + 1 \in 1 .. Len(rs) + 1 /\ next + 1 > 1 /\ (next + 1) - 1 = next
  BY <1>1, <1>2
<1>4. c \in Relocation
  <2>1. DOMAIN input.parts = 1 .. Len(input.parts)  BY <1>2, InputTyped
  <2>2. rs \in Seq(Relocation)  BY <1>2, <2>1, InputTyped
  <2> HIDE DEF rs
  <2> QED  BY <1>3, <2>2
<1>5. c.address \in Nat  BY <1>4 DEF Relocation
<1>6. pending' = PendingAt(input, part, next + 1)
  BY <1>1, <1>3 DEF PendingAt, HasAddend
<1>7. Before(input, part, next + 1) = Before(input, part, next)
  BY <1>1, <1>2, <1>3, SkipAddend
<1> HIDE DEF rs, c
<1>8. Typed'
  <2>1. \A p \in pending' : p.address \in Nat  BY <1>1, <1>5
  <2>2. next' \in Nat \ {0}  BY <1>1, <1>2
  <2> QED  BY <1>1, <1>2, <2>1, <2>2 DEF Typed
<1>9. ReadInv'
  BY <1>1, <1>2, <1>3, <1>6, <1>7 DEF IInv, ReadInv, rs
<1> QED  BY <1>1, <1>8, <1>9 DEF IInv, BindInv, BoundInv, ResolvedInv, VeneerInv, BuiltInv

\* One more relocation is read.
LEMMA ReadRelocStep ==
  ASSUME IInv, ReadReloc
  PROVE  IInv'
<1> DEFINE rs == input.parts[part].relocs
           o == <<part, next>>
           e == EntryFor(input, o)
           N == Len(relocs)
<1>1. /\ pc = "read" /\ pc' = "read" /\ input' = input /\ part' = part /\ next' = next + 1
      /\ functions' = functions /\ text' = text /\ veneers' = veneers
      /\ patched' = patched /\ built' = built
      /\ pending' = {} /\ rs[next].type # "addend"
      /\ next <= Len(rs)
  BY DEF ReadReloc, ReadingReloc, Reading, Current
<1>2. /\ Typed /\ input \in Inputs /\ part \in 1 .. Len(input.parts) /\ next \in 1 .. Len(rs) + 1
      /\ next \in Nat \ {0} /\ Len(rs) \in Nat
  <2>1. /\ Typed /\ input \in Inputs /\ part \in 1 .. Len(input.parts) /\ next \in 1 .. Len(rs) + 1
        /\ next \in Nat \ {0}
    BY <1>1 DEF IInv, Typed, ReadInv
  <2>2. /\ Len(input.parts) \in Nat /\ DOMAIN input.parts = 1 .. Len(input.parts)
        /\ \A p \in DOMAIN input.parts : Len(input.parts[p].relocs) \in Nat
    BY <2>1, InputTyped
  <2> QED  BY <2>1, <2>2
<1>3. next \in 1 .. Len(rs) /\ next + 1 \in 1 .. Len(rs) + 1
  BY <1>1, <1>2
<1>4. o \in RelocsOf(input) /\ relocs' = Append(relocs, e) /\ ~HasAddend(input, part, next + 1)
  BY EntryIs DEF IInv
<1>5. e \in RelocEntry  BY <1>2, <1>4, EntryTyped
<1>6. /\ FirstAre(input, N, Before(input, part, next))
      /\ Entered(input, relocs)
      /\ patched = <<>> /\ veneers = <<>>
  BY <1>1 DEF IInv, ReadInv
<1> HIDE DEF e
<1>7. /\ relocs \in Seq(RelocEntry) /\ N \in Nat
      /\ relocs' \in Seq(RelocEntry) /\ Len(relocs') = N + 1
      /\ \A n \in 1 .. N : relocs'[n] = relocs[n]
      /\ relocs'[N + 1] = e
  <2>1. relocs \in Seq(RelocEntry)  BY <1>2 DEF Typed
  <2> QED  BY <1>4, <1>5, <2>1
<1>8. /\ OriginsOf(input)[N + 1] = o
      /\ FirstAre(input, N + 1, Before(input, part, next + 1))
  <2> HIDE DEF N
  <2> QED  BY <1>1, <1>2, <1>3, <1>6, <1>7, NextOrigin
<1>9. Entered(input, relocs')
  <2> SUFFICES ASSUME NEW n \in 1 .. N + 1  PROVE relocs'[n] = EntryFor(input, OriginsOf(input)[n])
    BY <1>7 DEF Entered
  <2>1. CASE n = N + 1  BY <1>7, <1>8, <2>1 DEF e
  <2>2. CASE n \in 1 .. N  BY <1>6, <1>7, <2>2 DEF Entered
  <2> QED  BY <1>7, <2>1, <2>2
<1>10. pending' = PendingAt(input, part, next + 1)
  BY <1>1, <1>4 DEF PendingAt
<1>11. Typed'
  <2>1. next' \in Nat \ {0}  BY <1>1, <1>2
  <2>2. Len(patched) <= Len(relocs')  BY <1>2, <1>6, <1>7
  <2> QED  BY <1>1, <1>2, <1>7, <2>1, <2>2 DEF Typed
<1>12. ReadInv'
  <2>1. /\ part \in 1 .. Len(input.parts) /\ AlignUp(text, 4) = Places(input)[part]
        /\ FunctionsBefore(input, functions, part)
    BY <1>1 DEF IInv, ReadInv
  <2> QED  BY <1>1, <1>3, <1>6, <1>7, <1>8, <1>9, <1>10, <2>1 DEF ReadInv
<1> QED  BY <1>1, <1>11, <1>12 DEF IInv, BindInv, BoundInv, ResolvedInv, VeneerInv, BuiltInv

\* The next assembly function is registered under a name of its own.
LEMMA Registers ==
  ASSUME NEW i \in Inputs, NEW p \in 1 .. Len(i.parts), NEW fs, NEW gs,
         FunctionsBefore(i, fs, p),
         p = 1 => gs = fs,
         p # 1 => /\ i.parts[p].name \notin DOMAIN fs
                  /\ gs = [n \in DOMAIN fs \cup {i.parts[p].name} |-> IF n \in DOMAIN fs THEN fs[n] ELSE Places(i)[p]]
  PROVE  FunctionsBefore(i, gs, p + 1)
<1> DEFINE name(q) == i.parts[q].name
<1>1. p \in Nat /\ p >= 1
  <2>1. Len(i.parts) \in Nat  BY InputTyped
  <2> QED  BY <2>1
<1>2. DOMAIN fs = {name(q) : q \in 2 .. p - 1} /\ \A q \in 2 .. p - 1 : fs[name(q)] = Places(i)[q]
  BY DEF FunctionsBefore
<1> HIDE DEF name
<1>3. CASE p = 1
  <2>1. 2 .. p - 1 = {} /\ 2 .. (p + 1) - 1 = {}  BY <1>3
  <2> QED  BY <1>2, <1>3, <2>1 DEF FunctionsBefore, name
<1>4. CASE p # 1
  <2>1. \A q : q \in 2 .. (p + 1) - 1 <=> q \in 2 .. p - 1 \/ q = p  BY <1>1, <1>4
  <2>2. /\ name(p) \notin DOMAIN fs
        /\ gs = [n \in DOMAIN fs \cup {name(p)} |-> IF n \in DOMAIN fs THEN fs[n] ELSE Places(i)[p]]
    BY <1>4 DEF name
  <2>3. DOMAIN gs = {name(q) : q \in 2 .. (p + 1) - 1}  BY <1>2, <2>1, <2>2
  <2>4. ASSUME NEW q \in 2 .. (p + 1) - 1  PROVE gs[name(q)] = Places(i)[q]
    <3>1. CASE q = p  BY <2>2, <3>1
    <3>2. CASE q \in 2 .. p - 1
      <4>1. name(q) \in DOMAIN fs /\ fs[name(q)] = Places(i)[q]  BY <1>2, <3>2
      <4> QED  BY <2>2, <4>1
    <3> QED  BY <2>1, <3>1, <3>2
  <2> QED  BY <2>3, <2>4 DEF FunctionsBefore, name
<1> QED  BY <1>3, <1>4

\* The next object begins where the layout has it.
LEMMA EndObjectStep ==
  ASSUME IInv, EndObject
  PROVE  IInv'
<1> DEFINE rs == input.parts[part].relocs
           L == Len(input.parts)
<1>1. /\ pc = "read" /\ input' = input /\ part' = part + 1 /\ next' = 1
      /\ relocs' = relocs /\ veneers' = veneers /\ patched' = patched /\ built' = built
      /\ pending = {} /\ pending' = {}
      /\ next > Len(rs) /\ pc' = IF part = L THEN "bind" ELSE "read"
      /\ text' = Base + input.parts[part].size
  BY DEF EndObject, Reading
<1>2. /\ Typed /\ input \in Inputs /\ part \in 1 .. L /\ next \in 1 .. Len(rs) + 1
      /\ AlignUp(text, 4) = Places(input)[part]
      /\ FirstAre(input, Len(relocs), Before(input, part, next))
      /\ Entered(input, relocs)
      /\ FunctionsBefore(input, functions, part)
      /\ patched = <<>> /\ veneers = <<>>
  BY <1>1 DEF IInv, Typed, ReadInv
<1>3. /\ L \in Nat /\ part \in Nat /\ Len(rs) \in Nat /\ text \in Nat
      /\ input.parts[part].size \in Nat
  <2>1. /\ L \in Nat /\ DOMAIN input.parts = 1 .. L
        /\ \A p \in DOMAIN input.parts : Len(input.parts[p].relocs) \in Nat /\ input.parts[p].size \in Nat
    BY <1>2, InputTyped
  <2> QED  BY <1>2, <2>1 DEF Typed
<1>4. next = Len(rs) + 1  BY <1>1, <1>2, <1>3
<1>5. FirstAre(input, Len(relocs), Before(input, part + 1, 1))
  BY <1>2, <1>4, NextObject
<1>6. Base \in Nat /\ Base = Places(input)[part] /\ text' \in Nat
  <2>1. AlignUp(text, 4) \in Nat  BY <1>3, AlignUpNat
  <2> QED  BY <1>1, <1>2, <1>3, <2>1 DEF Base
<1>7. FunctionsBefore(input, functions', part + 1)
  <2> DEFINE name == input.parts[part].name
  <2>1. part = 1 => functions' = functions  BY DEF EndObject, Asm
  <2>2. part # 1 => Asm  BY <1>2, <1>3 DEF Asm
  <2>3. ASSUME part # 1
        PROVE  /\ name \notin DOMAIN functions
               /\ functions' = [n \in DOMAIN functions \cup {name} |->
                                  IF n \in DOMAIN functions THEN functions[n] ELSE Places(input)[part]]
    <3>1. ~Duplicate(name)  BY <2>2, <2>3 DEF EndObject
    <3>2. functions' = [n \in DOMAIN functions \cup {name} |-> IF Duplicate(n) THEN functions[n] ELSE Base]
      BY <2>2, <2>3 DEF EndObject
    <3> QED  BY <1>6, <3>1, <3>2 DEF Duplicate
  <2> QED  BY <1>2, <2>1, <2>3, Registers
<1>8. \A name \in DOMAIN functions' : functions'[name] \in Nat
  <2>1. /\ DOMAIN functions' = {input.parts[q].name : q \in 2 .. part}
        /\ \A q \in 2 .. part : functions'[input.parts[q].name] = Places(input)[q]
    <3>1. (part + 1) - 1 = part  BY <1>3
    <3> QED  BY <1>7, <3>1 DEF FunctionsBefore
  <2>2. \A q \in 2 .. part : Places(input)[q] \in Nat
    <3>1. \A q \in 2 .. part : q \in 1 .. L  BY <1>2, <1>3
    <3> QED  BY <1>2, <3>1, PlacesAre
  <2> QED  BY <2>1, <2>2
<1>9. Typed'
  <2>1. part' \in 1 .. Len(input.parts) + 1 /\ next' \in Nat \ {0}  BY <1>1, <1>2, <1>3
  <2>2. pc' \in {"read", "bind", "resolve", "done", "error", "unresolved"}  BY <1>1
  <2> QED  BY <1>1, <1>2, <1>6, <1>8, <2>1, <2>2 DEF Typed
<1>10. CASE part = L
  <2>1. BindInv'
    <3>1. FirstAre(input, Len(relocs), RelocsOf(input))  BY <1>2, <1>5, <1>10, NextObject
    <3> QED  BY <1>1, <1>2, <1>7, <1>10, <3>1 DEF BindInv
  <2>2. pc' = "bind"  BY <1>1, <1>10
  <2> QED  BY <1>9, <2>1, <2>2 DEF IInv, ReadInv, BoundInv, ResolvedInv, VeneerInv, BuiltInv
<1>11. CASE part # L
  <2>1. part + 1 \in 1 .. L /\ part + 1 \in 2 .. L /\ (part + 1) - 1 = part  BY <1>2, <1>3, <1>11
  <2>2. AlignUp(text', 4) = Places(input)[part + 1]
    <3>1. Places(input)[part + 1] = AlignUp(Places(input)[part] + input.parts[part].size, 4)
      BY <1>2, <2>1, PlacesAre
    <3> QED  BY <1>1, <1>6, <3>1
  <2>3. 1 \in 1 .. Len(input.parts[part + 1].relocs) + 1
    <3>1. /\ DOMAIN input.parts = 1 .. L
          /\ \A p \in DOMAIN input.parts : Len(input.parts[p].relocs) \in Nat
      BY <1>2, InputTyped
    <3>2. Len(input.parts[part + 1].relocs) \in Nat  BY <2>1, <3>1
    <3> QED  BY <3>2
  <2>4. PendingAt(input, part + 1, 1) = {}  BY DEF PendingAt, HasAddend
  <2>5. ReadInv'
    BY <1>1, <1>2, <1>5, <1>7, <2>1, <2>2, <2>3, <2>4 DEF ReadInv
  <2>6. pc' = "read"  BY <1>1, <1>11
  <2> QED  BY <1>9, <2>5, <2>6 DEF IInv, BindInv, BoundInv, ResolvedInv, VeneerInv, BuiltInv
<1> QED  BY <1>10, <1>11

-----------------------------------------------------------------------------
(* Binding.                                                                 *)

\* Entries stay entries, and the same branch or access.
LEMMA BoundTyped ==
  ASSUME NEW i \in Inputs, NEW r \in RelocEntry,
         Named(r) => OffsetOf(i, r.name) \in Int
  PROVE  LET s == CallBound(i, DataBound(i, r))
         IN  /\ s \in RelocEntry
             /\ s.type = r.type /\ s.address = r.address /\ s.scale = r.scale /\ s.addend = r.addend
             /\ s.kind = r.kind /\ s.name = r.name
<1> DEFINE d == DataBound(i, r)
<1>1. /\ d \in RelocEntry /\ d.type = r.type /\ d.address = r.address /\ d.scale = r.scale
      /\ d.addend = r.addend /\ d.asm = r.asm /\ d.kind = r.kind /\ d.name = r.name
  <2>1. CASE r.asm /\ r.type \in DataTypes /\ r.section = "" /\ r.name \in DOMAIN i.globals
    <3> DEFINE g == i.globals[r.name]
    <3>1. g.section \in SectionName /\ g.value \in Int  BY <2>1, InputTyped DEF SectionName
    <3>2. d = [r EXCEPT !.section = g.section, !.value = g.value]  BY <2>1 DEF DataBound
    <3> HIDE DEF g, d
    <3> QED  BY <3>1, <3>2 DEF RelocEntry
  <2>2. CASE ~(r.asm /\ r.type \in DataTypes /\ r.section = "" /\ r.name \in DOMAIN i.globals)
    <3>1. d = r  BY <2>2 DEF DataBound
    <3> QED  BY <3>1
  <2> QED  BY <2>1, <2>2
<1> HIDE DEF d
<1>2. Named(d) => OffsetOf(i, d.name) \in Int  BY <1>1 DEF Named
<1> DEFINE s == CallBound(i, d)
<1>3. /\ s \in RelocEntry /\ s.type = d.type /\ s.address = d.address /\ s.scale = d.scale
      /\ s.addend = d.addend /\ s.kind = d.kind /\ s.name = d.name
  <2>1. CASE Named(d)
    <3> DEFINE v == OffsetOf(i, d.name)
           t == "__text"
    <3>0. t \in SectionName  BY DEF SectionName
    <3>2. v \in Int  BY <1>2, <2>1
    <3>3. s = [d EXCEPT !.section = t, !.value = v]  BY <2>1 DEF CallBound
    <3>1. v \in Int /\ t \in SectionName /\ s = [d EXCEPT !.section = t, !.value = v]
      BY <3>0, <3>2, <3>3
    <3> HIDE DEF v, s, t
    <3> QED  BY <1>1, <3>1 DEF RelocEntry
  <2>2. CASE ~Named(d)
    <3>1. s = d  BY <2>2 DEF CallBound
    <3> QED  BY <1>1, <3>1
  <2> QED  BY <2>1, <2>2
<1> QED  BY <1>1, <1>3 DEF d

\* A registered name has one offset, that of the function it is of.
LEMMA RegisteredAre ==
  ASSUME Typed, BindInv, pc = "bind", Bindable
  PROVE  \A name \in DOMAIN Registered : Registered[name] = OffsetOf(input, name) /\ Registered[name] \in Nat
<1> SUFFICES ASSUME NEW name \in DOMAIN Registered
             PROVE  Registered[name] = OffsetOf(input, name) /\ Registered[name] \in Nat
  OBVIOUS
<1> DEFINE L == Len(input.parts)
           Of(q) == input.parts[q].name = name
<1>1. /\ input \in Inputs /\ FunctionsBefore(input, functions, L + 1)
      /\ \A n \in DOMAIN functions : functions[n] \in Nat
  BY DEF Typed, BindInv
<1>2. L \in Nat /\ (L + 1) - 1 = L
  <2>1. L \in Nat  BY <1>1, InputTyped
  <2> QED  BY <2>1
<1>3. /\ DOMAIN functions = {input.parts[q].name : q \in 2 .. L}
      /\ \A q \in 2 .. L : functions[input.parts[q].name] = Places(input)[q]
  BY <1>1, <1>2 DEF FunctionsBefore
<1>4. CASE name \in DOMAIN functions
  <2>1. Registered[name] = functions[name] /\ functions[name] \in Nat  BY <1>1, <1>4 DEF Registered
  <2>2. \E q \in 2 .. L : Of(q)  BY <1>3, <1>4
  <2> DEFINE c == CHOOSE q \in 2 .. L : Of(q)
  <2>3. c \in 2 .. L /\ Of(c)  BY <2>2
  <2>4. functions[name] = Places(input)[c]  BY <1>3, <2>3
  <2>5. OffsetOf(input, name) = Places(input)[c]  BY <2>2 DEF OffsetOf
  <2> QED  BY <2>1, <2>4, <2>5
<1>5. CASE name \notin DOMAIN functions
  <2>1. ~ \E q \in 2 .. L : Of(q)  BY <1>3, <1>5
  <2>2. PICK h \in Handlers : h.name = name  BY <1>5 DEF Registered
  <2> DEFINE c == CHOOSE x \in Handlers : x.name = name
  <2>3. c \in Handlers /\ c.name = name  BY <2>2
  <2>4. Registered[name] = c.offset  BY <1>5 DEF Registered
  <2>5. OffsetOf(input, name) = c.offset  BY <2>1 DEF OffsetOf, HandlersOf, Handlers
  <2>6. c.offset \in Nat
    <3>1. input.handlers \in Seq([name: STRING, offset: Int])  BY <1>1, InputTyped
    <3>2. c \in [name: STRING, offset: Int]
      <4> HIDE DEF c
      <4> DEFINE hs == input.handlers
      <4>1. PICK n \in DOMAIN hs : c = hs[n]  BY <2>3 DEF Handlers, ToSet
      <4> HIDE DEF hs
      <4>2. hs \in Seq([name: STRING, offset: Int])  BY <3>1 DEF hs
      <4> DEFINE T == [name: STRING, offset: Int]
      <4>3. hs \in Seq(T)  BY <4>2
      <4> HIDE DEF T
      <4>4. hs[n] \in T  BY <4>1, <4>3
      <4> QED  BY <4>1, <4>4 DEF T
    <3>3. c.offset >= 0  BY <2>3 DEF Bindable
    <3> QED  BY <3>2, <3>3
  <2> QED  BY <2>4, <2>5, <2>6
<1> QED  BY <1>4, <1>5

\* Names are bound, and nothing is resolved yet.
LEMMA BindStep ==
  ASSUME IInv, Bind
  PROVE  IInv'
<1> DEFINE N == Len(relocs)
           To(r) == CallBound(input, DataBound(input, r))
<1>1. /\ pc = "bind" /\ Bindable /\ pc' = "resolve" /\ functions' = Registered
      /\ relocs' = [n \in DOMAIN relocs |-> BindCall(BindData(relocs[n]))]
      /\ input' = input /\ part' = part /\ next' = next /\ pending' = pending /\ text' = text
      /\ veneers' = veneers /\ patched' = patched /\ built' = built
  BY DEF Bind
<1>2. /\ Typed /\ input \in Inputs /\ BindInv /\ relocs \in Seq(RelocEntry) /\ text \in Nat
      /\ FirstAre(input, N, RelocsOf(input)) /\ Entered(input, relocs)
      /\ patched = <<>> /\ veneers = <<>>
  BY <1>1 DEF IInv, Typed, BindInv
<1>3. \A name \in DOMAIN Registered : Registered[name] = OffsetOf(input, name) /\ Registered[name] \in Nat
  BY <1>1, <1>2, RegisteredAre
<1>4. N \in Nat /\ DOMAIN relocs = 1 .. N /\ \A n \in 1 .. N : relocs[n] \in RelocEntry
  BY <1>2
<1>5. ASSUME NEW n \in 1 .. N
      PROVE  BindCall(BindData(relocs[n])) = To(relocs[n]) /\ To(relocs[n]) \in RelocEntry
  <2> DEFINE r == relocs[n]
             d == DataBound(input, r)
  <2>1. Named(r) => r.name \in DOMAIN Registered  BY <1>1, <1>4 DEF Bindable
  <2>2. Named(r) => OffsetOf(input, r.name) \in Int  BY <1>3, <2>1
  <2>3. BindData(r) = d  BY DEF BindData, DataBound
  <2>4. Named(d) => Named(r) /\ d.name = r.name
    <3>1. r \in RelocEntry  BY <1>4
    <3> HIDE DEF r
    <3> QED  BY <3>1 DEF Named, DataBound, RelocEntry
  <2>5. To(r) \in RelocEntry
    <3>1. r \in RelocEntry  BY <1>4
    <3> HIDE DEF r
    <3> QED  BY <1>2, <2>2, <3>1, BoundTyped
  <2> HIDE DEF d
  <2>6. Named(d) => Registered[d.name] = OffsetOf(input, d.name)  BY <1>3, <2>1, <2>4
  <2>7. BindCall(d) = CallBound(input, d)  BY <2>6 DEF BindCall, CallBound
  <2> QED  BY <2>3, <2>5, <2>7 DEF d
<1> HIDE DEF To
<1>6. /\ relocs' \in Seq(RelocEntry) /\ Len(relocs') = N
      /\ \A n \in 1 .. N : relocs'[n] = To(relocs[n])
  <2>1. relocs' = [n \in 1 .. N |-> To(relocs[n])]  BY <1>1, <1>4, <1>5
  <2> HIDE DEF N
  <2> QED  BY <1>4, <1>5, <2>1
<1>7. Typed'
  <2>1. \A name \in DOMAIN functions' : functions'[name] \in Nat  BY <1>1, <1>3
  <2>2. Len(patched) <= Len(relocs')  BY <1>2, <1>4, <1>6
  <2> QED  BY <1>1, <1>2, <1>6, <2>1, <2>2 DEF Typed
<1>8. BoundInv'
  <2>1. \A n \in 1 .. N : relocs'[n] = CallBound(input, DataBound(input, EntryFor(input, OriginsOf(input)[n])))
    BY <1>2, <1>6 DEF Entered, To
  <2> QED  BY <1>1, <1>2, <1>6, <2>1 DEF BoundInv
<1>9. Len(patched) = 0 /\ Len(veneers) = 0  BY <1>2
<1>10. ResolvedInv'
  <2>1. 1 .. Len(patched') = {}  BY <1>1, <1>9
  <2> QED  BY <2>1 DEF ResolvedInv
<1>11. VeneerInv'
  <2>1. BranchesTo(relocs', Len(patched')) = {}  BY <1>1, <1>9 DEF BranchesTo
  <2>2. Cardinality(BranchesTo(relocs', Len(patched'))) = 0  BY <2>1, FS_EmptySet
  <2>3. EndOf(input', text', veneers') = input.textVa + text  BY <1>1, <1>2 DEF EndOf
  <2>4. input.textVa \in Nat  BY <1>2, InputTyped
  <2>5. 1 .. Len(veneers') = {}  BY <1>1, <1>9
  <2> QED  BY <1>1, <1>2, <2>2, <2>3, <2>4, <2>5 DEF VeneerInv
<1> QED  BY <1>1, <1>7, <1>8, <1>10, <1>11 DEF IInv, ReadInv, BindInv, BuiltInv

\* What is refused is left as it was.
LEMMA FailStep ==
  ASSUME IInv, NEW how \in {"error", "unresolved"}, Fail(how)
  PROVE  IInv'
<1>1. /\ pc' = how
      /\ UNCHANGED <<input, part, next, pending, relocs, functions, text, veneers, patched, built>>
  BY DEF Fail
<1>2. pc' \in {"error", "unresolved"}  BY <1>1
<1>3. Typed'  BY <1>1, <1>2 DEF IInv, Typed
<1> QED  BY <1>2, <1>3 DEF IInv, ReadInv, BindInv, BoundInv, ResolvedInv, VeneerInv, BuiltInv

-----------------------------------------------------------------------------
(* Resolving.                                                               *)

\* The operators of the model are those of the invariant.
LEMMA Links ==
  /\ TextEnd = EndOf(input, text, veneers)
  /\ DataVa = DataFrom(input, relocs, text)
  /\ \A r : RelocationTarget(r) = TargetOf(input, DataVa, r)
  /\ \A r : DataRelocationTarget(r) = DataTargetOf(input, DataVa, r)
  /\ MaxTextBytes = Bound(relocs, text)
<1>1. TextEnd = EndOf(input, text, veneers)  BY DEF TextEnd, EndOf
<1>2. MaxTextBytes = Bound(relocs, text)
  BY DEF MaxTextBytes, Bound, Branches, MaxBranchSequenceBytes
<1>3. DataVa = DataFrom(input, relocs, text)
  BY <1>2 DEF DataVa, DataFrom, TextAligned
<1>4. SectionOffset = SectionsOf(input)  BY DEF SectionOffset, SectionsOf
<1>5. \A key : SectionNumber(key) = SectionOf(input, key)  BY DEF SectionNumber, SectionOf
<1>6. \A name : ViaSymbolTable(name) = ByName(input, name)  BY DEF ViaSymbolTable, ByName
<1>7. ASSUME NEW r  PROVE RelocationTarget(r) = TargetOf(input, DataVa, r)
  BY <1>4, <1>5, <1>6 DEF RelocationTarget, TargetOf, HasSection
<1>8. ASSUME NEW r  PROVE DataRelocationTarget(r) = DataTargetOf(input, DataVa, r)
  BY <1>7 DEF DataRelocationTarget, DataTargetOf
<1> QED  BY <1>1, <1>2, <1>3, <1>7, <1>8

\* One more relocation, one more branch or none.
LEMMA BranchCount ==
  ASSUME NEW rs, NEW n \in Nat
  PROVE  /\ Cardinality(BranchesTo(rs, n)) \in Nat
         /\ Cardinality(BranchesTo(rs, n + 1))
            = Cardinality(BranchesTo(rs, n)) + IF rs[n + 1].type = "branch" THEN 1 ELSE 0
<1> DEFINE S == BranchesTo(rs, n)
<1>1. IsFiniteSet(S)
  <2>1. IsFiniteSet(1 .. n)  BY FS_Interval
  <2>2. S \in SUBSET (1 .. n)  BY DEF BranchesTo
  <2> HIDE DEF S
  <2> QED  BY <2>1, <2>2, FS_Subset
<1>2. n + 1 \notin S  BY DEF BranchesTo
<1>3. \A m : m \in 1 .. n + 1 <=> m \in 1 .. n \/ m = n + 1  OBVIOUS
<1>4. CASE rs[n + 1].type = "branch"
  <2>1. BranchesTo(rs, n + 1) = S \cup {n + 1}  BY <1>3, <1>4 DEF BranchesTo
  <2> HIDE DEF S
  <2>2. Cardinality(S \cup {n + 1}) = Cardinality(S) + 1  BY <1>1, <1>2, FS_AddElement
  <2>3. Cardinality(S) \in Nat  BY <1>1, FS_CardinalityType
  <2> QED  BY <1>4, <2>1, <2>2, <2>3 DEF S
<1>5. CASE rs[n + 1].type # "branch"
  <2>1. BranchesTo(rs, n + 1) = S  BY <1>3, <1>5 DEF BranchesTo
  <2> HIDE DEF S
  <2>3. Cardinality(S) \in Nat  BY <1>1, FS_CardinalityType
  <2> QED  BY <1>5, <2>1, <2>3 DEF S
<1> QED  BY <1>4, <1>5

\* What a veneer adds is at most what was reserved for the branch.
VeneerAdded(vs, ws, end) ==
  \E v : /\ ws = Append(vs, v)
         /\ v.at = end /\ v.words \in 3 .. 5

\* A relocation resolved, with a veneer or without one.
LEMMA ResolveStep ==
  ASSUME IInv, Resolving, NEW form, NEW to, Wrote(form, to),
         \/ veneers' = veneers
         \/ Reloc.type = "branch" /\ VeneerAdded(veneers, veneers', TextEnd),
         Reloc.type = "branch" =>
           CallDone(input, DataFrom(input, relocs, text), veneers', Reloc, [form |-> form, to |-> to]),
         Reloc.type \in DataTypes \ {"pointer"} =>
           DataDone(input, DataFrom(input, relocs, text), Reloc, [form |-> form, to |-> to])
  PROVE  IInv'
<1> DEFINE P == Len(patched)
           w == [form |-> form, to |-> to]
           dv == DataFrom(input, relocs, text)
           end == EndOf(input, text, veneers)
           B(n) == Cardinality(BranchesTo(relocs, n))
<1>1. /\ pc = "resolve" /\ pc' = "resolve" /\ input' = input /\ part' = part /\ next' = next
      /\ pending' = pending /\ relocs' = relocs /\ functions' = functions /\ text' = text
      /\ built' = built /\ patched' = Append(patched, w) /\ P < Len(relocs)
  BY DEF Resolving, Wrote
<1>2. /\ Typed /\ BoundInv /\ ResolvedInv /\ VeneerInv /\ IsSeq(patched) /\ IsSeq(veneers)
      /\ relocs \in Seq(RelocEntry) /\ text \in Nat /\ Len(veneers) <= P /\ input \in Inputs
  BY DEF IInv, Typed
<1> HIDE DEF w
<1>3. /\ P \in Nat /\ IsSeq(patched') /\ Len(patched') = P + 1
      /\ \A n \in 1 .. P : patched'[n] = patched[n]
      /\ patched'[P + 1] = w
  BY <1>1, <1>2, Appended
<1>4. Reloc = relocs[P + 1]  BY DEF Reloc
<1>5. /\ end \in Int /\ end <= input.textVa + text + 20 * B(P)
      /\ \A v \in 1 .. Len(veneers) :
           veneers[v].at \in Int /\ veneers[v].words \in 3 .. 5 /\ veneers[v].at + 4 * veneers[v].words <= end
  BY <1>1, <1>2 DEF VeneerInv
<1>6. B(P) \in Nat /\ B(P + 1) = B(P) + IF Reloc.type = "branch" THEN 1 ELSE 0
  BY <1>3, <1>4, BranchCount
<1>7. input.textVa \in Nat  BY <1>2, InputTyped
<1>8. Len(veneers) \in Nat
  BY <1>2, Appended
<1> HIDE DEF P, B
<1>9. /\ IsSeq(veneers') /\ Len(veneers') <= P + 1
      /\ Len(veneers') \in Nat /\ Len(veneers) <= Len(veneers')
      /\ \A v \in 1 .. Len(veneers) : veneers'[v] = veneers[v]
      /\ LET last == EndOf(input, text, veneers')
         IN  /\ last \in Int
             /\ last <= input.textVa + text + 20 * B(P + 1)
             /\ \A v \in 1 .. Len(veneers') :
                  veneers'[v].at \in Int /\ veneers'[v].words \in 3 .. 5
                  /\ veneers'[v].at + 4 * veneers'[v].words <= last
  <2>1. CASE veneers' = veneers
    <3>1. end <= input.textVa + text + 20 * B(P + 1)  BY <1>2, <1>5, <1>6, <1>7
    <3>2. Len(veneers) <= P + 1  BY <1>2, <1>3, <1>8
    <3> QED  BY <1>2, <1>5, <1>8, <2>1, <3>1, <3>2
  <2>2. CASE Reloc.type = "branch" /\ VeneerAdded(veneers, veneers', TextEnd)
    <3> DEFINE K == Len(veneers)
    <3>1. PICK v : veneers' = Append(veneers, v) /\ v.at = TextEnd /\ v.words \in 3 .. 5
      BY <2>2 DEF VeneerAdded
    <3>2. /\ IsSeq(veneers') /\ Len(veneers') = K + 1
          /\ \A n \in 1 .. K : veneers'[n] = veneers[n]
          /\ veneers'[K + 1] = v /\ veneers' # <<>>
      BY <1>2, <3>1, Appended
    <3>3. v.at = end /\ v.words \in 3 .. 5  BY <3>1, Links
    <3>4. EndOf(input, text, veneers') = v.at + 4 * v.words
      BY <3>2 DEF EndOf, Last
    <3> DEFINE last == EndOf(input, text, veneers')
    <3> HIDE DEF end, last, K
    <3>5. last = end + 4 * v.words  BY <3>3, <3>4 DEF last
    <3>6. /\ last \in Int /\ end <= last /\ last <= end + 20
      BY <1>5, <3>3, <3>5
    <3>7. last <= input.textVa + text + 20 * B(P + 1)  BY <1>2, <1>5, <1>6, <1>7, <2>2, <3>6
    <3>8. K \in Nat /\ K <= P  BY <1>2, <1>8 DEF K, P
    <3>9. ASSUME NEW n \in 1 .. K + 1
          PROVE  veneers'[n].at \in Int /\ veneers'[n].words \in 3 .. 5
                 /\ veneers'[n].at + 4 * veneers'[n].words <= last
      <4>1. CASE n = K + 1
        <5>1. veneers'[n] = v  BY <3>2, <4>1
        <5> QED  BY <1>5, <3>3, <3>5, <3>6, <5>1
      <4>2. CASE n \in 1 .. K
        <5>1. veneers'[n] = veneers[n]  BY <3>2, <4>2
        <5>2. /\ veneers[n].at \in Int /\ veneers[n].words \in 3 .. 5
              /\ veneers[n].at + 4 * veneers[n].words <= end
          BY <1>5, <4>2 DEF K
        <5> HIDE DEF K
        <5> QED  BY <1>5, <3>6, <5>1, <5>2
      <4> QED  BY <3>8, <4>1, <4>2
    <3>10. K + 1 <= P + 1 /\ K + 1 \in Nat /\ K <= K + 1  BY <1>3, <3>8
    <3> QED  BY <3>2, <3>6, <3>7, <3>9, <3>10 DEF K, last
  <2> QED  BY <2>1, <2>2
<1>10. Typed'
  <2>1. Len(patched') <= Len(relocs')
    <3>1. Len(relocs) \in Nat  BY <1>2
    <3> QED  BY <1>1, <1>3, <3>1 DEF P
  <2>2. Len(veneers') <= Len(patched')  BY <1>3, <1>9
  <2> QED  BY <1>1, <1>2, <1>3, <1>9, <2>1, <2>2 DEF Typed
<1>11. BoundInv'  BY <1>1, <1>2 DEF BoundInv
<1>12. ResolvedInv'
  <2> SUFFICES ASSUME NEW n \in 1 .. P + 1
               PROVE  /\ relocs[n].type = "branch" => CallDone(input, dv, veneers', relocs[n], patched'[n])
                      /\ relocs[n].type \in DataTypes \ {"pointer"} => DataDone(input, dv, relocs[n], patched'[n])
    BY <1>1, <1>3 DEF ResolvedInv
  <2>1. CASE n = P + 1  BY <1>3, <1>4, <2>1 DEF w
  <2>2. CASE n \in 1 .. P
    <3>1. /\ relocs[n].type = "branch" => CallDone(input, dv, veneers, relocs[n], patched[n])
          /\ relocs[n].type \in DataTypes \ {"pointer"} => DataDone(input, dv, relocs[n], patched[n])
      BY <1>1, <1>2, <2>2 DEF ResolvedInv, P
    <3>2. ASSUME CallDone(input, dv, veneers, relocs[n], patched[n])
          PROVE  CallDone(input, dv, veneers', relocs[n], patched[n])
      <4>1. \A v \in 1 .. Len(veneers) : v \in 1 .. Len(veneers')  BY <1>8, <1>9
      <4> HIDE DEF dv
      <4> QED  BY <1>9, <3>2, <4>1 DEF CallDone
    <3>3. patched'[n] = patched[n]  BY <1>3, <2>2
    <3> QED  BY <3>1, <3>2, <3>3
  <2> QED  BY <1>3, <2>1, <2>2
<1>13. VeneerInv'
  BY <1>1, <1>3, <1>9 DEF VeneerInv, B
<1> QED  BY <1>1, <1>10, <1>11, <1>12, <1>13 DEF IInv, ReadInv, BindInv, BuiltInv

\* A branch goes to its target, or to a veneer that does.
LEMMA CallStep ==
  ASSUME IInv, CallNear \/ CallFar
  PROVE  IInv'
<1> DEFINE dv == DataFrom(input, relocs, text)
<1>1. /\ Resolving /\ Reloc.type = "branch" /\ Target # None
      /\ Target = TargetOf(input, dv, Reloc) /\ At = input.textVa + Reloc.address
  BY Links DEF CallNear, CallFar, Branch, Target, At
<1>2. Reloc.type \notin DataTypes  BY <1>1 DEF DataTypes
<1> HIDE DEF dv
<1>3. CASE CallNear
  <2> DEFINE w == [form |-> "call", to |-> Target]
  <2>1. Wrote("call", Target) /\ veneers' = veneers /\ FitsBranch26(At, Target)  BY <1>3 DEF CallNear
  <2>2. w.to = Target  OBVIOUS
  <2> HIDE DEF w
  <2>3. CallDone(input, dv, veneers', Reloc, w)  BY <1>1, <2>1, <2>2 DEF CallDone
  <2> QED  BY <1>1, <1>2, <2>1, <2>3, ResolveStep DEF w, dv
<1>4. CASE CallFar
  <2> DEFINE w == [form |-> "call", to |-> TextEnd]
             v == [at |-> TextEnd, to |-> Target, words |-> AddressWords(TextEnd, Target) + 1]
  <2>1. Wrote("call", TextEnd) /\ veneers' = Append(veneers, v) /\ FitsBranch26(At, TextEnd)  BY <1>4 DEF CallFar
  <2>2. w.to = TextEnd /\ v.at = TextEnd /\ v.to = Target /\ v.words = AddressWords(TextEnd, Target) + 1  OBVIOUS
  <2>3. v.words \in 3 .. 5  BY <2>2 DEF AddressWords, LoadImmediateWords
  <2> HIDE DEF w, v
  <2>4. Len(veneers') \in 1 .. Len(veneers') /\ veneers'[Len(veneers')] = v
    <3>1. IsSeq(veneers)  BY DEF IInv, Typed
    <3>2. Len(veneers) \in Nat /\ Len(veneers') = Len(veneers) + 1 /\ veneers'[Len(veneers) + 1] = v
      BY <2>1, <3>1, Appended
    <3> QED  BY <3>2
  <2>5. CallDone(input, dv, veneers', Reloc, w)  BY <1>1, <2>1, <2>2, <2>4 DEF CallDone
  <2>6. VeneerAdded(veneers, veneers', TextEnd)  BY <2>1, <2>2, <2>3 DEF VeneerAdded
  <2> QED  BY <1>1, <1>2, <2>1, <2>5, <2>6, ResolveStep DEF w, dv
<1> QED  BY <1>3, <1>4

\* A page or an offset is that of the target.
LEMMA DataStep ==
  ASSUME IInv, Pointer \/ Page \/ Low \/ LowOfSlot \/ Skip
  PROVE  IInv'
<1> DEFINE dv == DataFrom(input, relocs, text)
           Done(w) == /\ Reloc.type # "branch"
                      /\ Reloc.type \in DataTypes \ {"pointer"} => DataDone(input, dv, Reloc, w)
<1>1. Resolving /\ veneers' = veneers  BY DEF Pointer, Page, Low, LowOfSlot, Skip, Address
<1>2. ASSUME NEW form, NEW to, Wrote(form, to), Done([form |-> form, to |-> to])
      PROVE  IInv'
  BY <1>1, <1>2, ResolveStep
<1>3. DataTarget = DataTargetOf(input, dv, Reloc)  BY Links DEF DataTarget
<1> HIDE DEF dv
<1>4. CASE Pointer
  <2> DEFINE w == [form |-> "pointer", to |-> Target]
  <2>1. Wrote("pointer", Target) /\ Done(w)  BY <1>4 DEF Pointer
  <2> QED  BY <1>2, <2>1
<1>5. CASE Page
  <2> DEFINE w == [form |-> "page", to |-> PageOf(DataTarget)]
  <2>1. /\ Wrote("page", PageOf(DataTarget)) /\ DataTarget # None /\ Reloc.type \in {"page", "gotpage"}
    BY <1>5 DEF Page, Address
  <2>2. w.form = "page" /\ w.to = PageOf(DataTarget)  OBVIOUS
  <2> HIDE DEF w
  <2>3. DataDone(input, dv, Reloc, w)  BY <1>3, <2>1, <2>2 DEF DataDone
  <2>4. Done(w)  BY <2>1, <2>3
  <2> QED  BY <1>2, <2>1, <2>4 DEF w
<1>6. CASE Low
  <2> DEFINE w == [form |-> "low", to |-> DataTarget % PageSize]
  <2>1. /\ Wrote("low", DataTarget % PageSize) /\ DataTarget # None
        /\ Reloc.type \in {"pageoff", "ptrgot"} \/ (Reloc.type = "gotoff" /\ Reloc.kind = "data")
    BY <1>6 DEF Low, Address
  <2>2. w.form = "low" /\ w.to = DataTarget % PageSize  OBVIOUS
  <2> HIDE DEF w
  <2>3. DataDone(input, dv, Reloc, w)  BY <1>3, <2>1, <2>2 DEF DataDone
  <2>4. Done(w)  BY <2>1, <2>3
  <2> QED  BY <1>2, <2>1, <2>4 DEF w
<1>7. CASE LowOfSlot
  <2> DEFINE w == [form |-> "load", to |-> DataTarget % PageSize]
  <2>1. /\ Wrote("load", DataTarget % PageSize) /\ DataTarget # None /\ Reloc.type = "gotoff"
    BY <1>7 DEF LowOfSlot, Address
  <2>2. w.form = "load" /\ w.to = DataTarget % PageSize  OBVIOUS
  <2> HIDE DEF w
  <2>3. DataDone(input, dv, Reloc, w)  BY <1>3, <2>1, <2>2 DEF DataDone
  <2>4. Done(w)  BY <2>1, <2>3
  <2> QED  BY <1>2, <2>1, <2>4 DEF w
<1>8. CASE Skip
  <2> DEFINE w == [form |-> "nothing", to |-> 0]
  <2>1. Wrote("nothing", 0) /\ Skipped(Reloc)  BY <1>8 DEF Skip
  <2>2. w.form = "nothing"  OBVIOUS
  <2> HIDE DEF w
  <2>3. Reloc.type # "branch"  BY <2>1 DEF Skipped
  <2>4. DataDone(input, dv, Reloc, w)  BY <2>2 DEF DataDone
  <2>5. Done(w)  BY <2>3, <2>4
  <2> QED  BY <1>2, <2>1, <2>5 DEF w
<1> QED  BY <1>4, <1>5, <1>6, <1>7, <1>8

\* The room for the veneers is a number.
LEMMA BoundNat ==
  ASSUME Typed
  PROVE  /\ Bound(relocs, text) = text + 20 * Cardinality(BranchesTo(relocs, Len(relocs)))
         /\ Bound(relocs, text) \in Nat /\ Len(relocs) \in Nat /\ DOMAIN relocs = 1 .. Len(relocs)
<1> DEFINE N == Len(relocs)
           C == Cardinality(BranchesTo(relocs, N))
<1>1. N \in Nat /\ DOMAIN relocs = 1 .. N /\ text \in Nat
  <2>1. relocs \in Seq(RelocEntry) /\ text \in Nat  BY DEF Typed
  <2> QED  BY <2>1
<1>2. C \in Nat
  <2> HIDE DEF N
  <2> QED  BY <1>1, BranchCount
<1>3. Cardinality({m \in DOMAIN relocs : relocs[m].type = "branch"}) = C  BY <1>1 DEF BranchesTo
<1>4. Bound(relocs, text) = text + C * 20  BY <1>3 DEF Bound
<1> HIDE DEF C
<1>5. Bound(relocs, text) = text + 20 * C /\ text + 20 * C \in Nat  BY <1>1, <1>2, <1>4
<1> QED  BY <1>1, <1>5 DEF C

\* What is built has the size that was planned for.
LEMMA BuildStep ==
  ASSUME IInv, Build
  PROVE  IInv'
<1> DEFINE M == Bound(relocs, text)
<1>1. /\ pc = "resolve" /\ pc' = "done" /\ Len(patched) = Len(relocs)
      /\ UNCHANGED <<input, part, next, pending, relocs, functions, text, veneers, patched>>
      /\ built' = [text |-> MaxTextBytes, data |-> AlignUp(MaxTextBytes, 16)]
      /\ MaxTextBytes = M
  BY Links DEF Build
<1>2. M \in Nat /\ AlignUp(M, 16) \in Nat
  <2>1. M \in Nat  BY BoundNat DEF IInv
  <2> HIDE DEF M
  <2> QED  BY <2>1, AlignUpNat
<1>3. built'.text = M /\ built'.data = AlignUp(M, 16) /\ built' \in [text: Nat, data: Nat]
  <2> HIDE DEF M
  <2> QED  BY <1>1, <1>2
<1> HIDE DEF M
<1>4. Typed'  BY <1>1, <1>3 DEF IInv, Typed
<1>5. BoundInv'  BY <1>1 DEF IInv, BoundInv
<1>6. ResolvedInv'  BY <1>1 DEF IInv, ResolvedInv
<1>7. VeneerInv'  BY <1>1 DEF IInv, VeneerInv
<1>8. BuiltInv'  BY <1>1, <1>3 DEF BuiltInv, M
<1> QED  BY <1>1, <1>4, <1>5, <1>6, <1>7, <1>8 DEF IInv, ReadInv, BindInv

\* At first nothing is read.
LEMMA InitInv ==
  ASSUME Init
  PROVE  IInv
<1>1. /\ input \in Inputs /\ pc = "read" /\ part = 1 /\ next = 1 /\ pending = {}
      /\ relocs = <<>> /\ functions = <<>> /\ text = 0
      /\ veneers = <<>> /\ patched = <<>> /\ built = [text |-> 0, data |-> 0]
  BY DEF Init
<1>2. /\ Len(input.parts) \in Nat \ {0} /\ Len(input.parts[1].relocs) \in Nat
  <2>1. /\ Len(input.parts) \in Nat \ {0} /\ DOMAIN input.parts = 1 .. Len(input.parts)
        /\ \A p \in DOMAIN input.parts : Len(input.parts[p].relocs) \in Nat
    BY <1>1, InputTyped
  <2> QED  BY <2>1
<1>3. DOMAIN functions = {}  BY <1>1
<1>4. IsSeq(patched) /\ IsSeq(veneers) /\ Len(patched) = 0 /\ Len(veneers) = 0
      /\ relocs \in Seq(RelocEntry) /\ Len(relocs) = 0
  <2>1. <<>> \in Seq({})  OBVIOUS
  <2> QED  BY <1>1, <2>1 DEF IsSeq
<1>5. Typed  BY <1>1, <1>2, <1>3, <1>4 DEF Typed
<1>6. AlignUp(text, 4) = Places(input)[part]
  <2>1. Places(input)[1] = 0  BY <1>1, PlacesAre
  <2> QED  BY <1>1, <2>1 DEF AlignUp
<1>7. pending = PendingAt(input, part, next)  BY <1>1 DEF PendingAt, HasAddend
<1>8. FirstAre(input, Len(relocs), Before(input, part, next)) /\ Entered(input, relocs)
  <2>1. FirstAre(input, 0, Before(input, 1, 1))  BY <1>1, FirstNone
  <2>2. 1 .. Len(relocs) = {}  BY <1>4
  <2> QED  BY <1>1, <1>4, <2>1, <2>2 DEF Entered
<1>9. FunctionsBefore(input, functions, part)
  <2>1. 2 .. part - 1 = {}  BY <1>1
  <2> QED  BY <1>3, <2>1 DEF FunctionsBefore
<1>10. ReadInv  BY <1>1, <1>2, <1>6, <1>7, <1>8, <1>9 DEF ReadInv
<1> QED  BY <1>1, <1>5, <1>10 DEF IInv, BindInv, BoundInv, ResolvedInv, VeneerInv, BuiltInv

\* A step that changes nothing.
LEMMA Stays ==
  ASSUME IInv, UNCHANGED vars
  PROVE  IInv'
<1>1. UNCHANGED <<input, pc, part, next, pending, relocs, functions, text, veneers, patched, built>>  BY DEF vars
<1>2. Typed'  BY <1>1 DEF IInv, Typed
<1>3. ReadInv'  BY <1>1 DEF IInv, ReadInv
<1>4. BindInv' /\ BoundInv'  BY <1>1 DEF IInv, BindInv, BoundInv
<1>5. ResolvedInv' /\ VeneerInv' /\ BuiltInv'  BY <1>1 DEF IInv, ResolvedInv, VeneerInv, BuiltInv
<1> QED  BY <1>2, <1>3, <1>4, <1>5 DEF IInv

\* Every action keeps the invariant.
LEMMA NextInv ==
  ASSUME IInv, [Next]_vars
  PROVE  IInv'
<1>1. CASE UNCHANGED vars  BY <1>1, Stays
<1>2. CASE ReadAddend  BY <1>2, ReadAddendStep
<1>3. CASE ReadReloc  BY <1>3, ReadRelocStep
<1>4. CASE RejectReloc
  <2>1. Fail("error")  BY <1>4 DEF RejectReloc
  <2> QED  BY <2>1, FailStep
<1>5. CASE EndObject  BY <1>5, EndObjectStep
<1>6. CASE RejectObject
  <2>1. Fail("error")  BY <1>6 DEF RejectObject
  <2> QED  BY <2>1, FailStep
<1>7. CASE Bind  BY <1>7, BindStep
<1>8. CASE RejectNames
  <2>1. Fail("error")  BY <1>8 DEF RejectNames
  <2> QED  BY <2>1, FailStep
<1>9. CASE CallNear \/ CallFar  BY <1>9, CallStep
<1>10. CASE Pointer \/ Page \/ Low \/ LowOfSlot \/ Skip  BY <1>10, DataStep
<1>11. CASE Unresolvable
  <2>1. Fail("unresolved")  BY <1>11 DEF Unresolvable
  <2> QED  BY <2>1, FailStep
<1>12. CASE Build  BY <1>12, BuildStep
<1> QED  BY <1>1, <1>2, <1>3, <1>4, <1>5, <1>6, <1>7, <1>8, <1>9, <1>10, <1>11, <1>12 DEF Next

\* So it holds throughout.
LEMMA Invariant == Spec => []IInv
<1>1. Init => IInv  BY InitInv
<1>2. IInv /\ [Next]_vars => IInv'  BY NextInv
<1> QED  BY <1>1, <1>2, PTL DEF Spec

-----------------------------------------------------------------------------
(* What was resolved, seen from the objects.                                *)

\* The section of what an object does not define.
Nowhere == ""

\* An entry that is bound, by where the relocation is and what it is for.
LEMMA BoundFrom ==
  ASSUME NEW i \in Inputs, NEW o \in RelocsOf(i), NEW r,
         r = CallBound(i, DataBound(i, EntryFor(i, o)))
  PROVE  LET c == SourceOf(i, o)
             s == c.sym
             asm == o[1] > 1
         IN  /\ r.type = c.type /\ r.address = Places(i)[o[1]] + c.address
             /\ r.addend = AddendAt(i, o[1], o[2]) /\ r.name = s.name
             /\ r.kind = IF s.kind = "absolute" /\ ~asm THEN "outside" ELSE s.kind
             /\ ~asm => r.section = s.section /\ r.value = s.value
             /\ asm /\ c.type = "branch" /\ s.kind # "absolute" =>
                  r.section = "__text" /\ r.value = OffsetOf(i, s.name)
             /\ asm /\ c.type = "branch" /\ s.kind = "absolute" =>
                  r.section = s.section /\ r.value = s.value
             /\ asm /\ c.type \in DataTypes /\ s.section = Nowhere /\ s.name \in DOMAIN i.globals =>
                  r.section = i.globals[s.name].section /\ r.value = i.globals[s.name].value
             /\ asm /\ c.type \in DataTypes /\ ~(s.section = Nowhere /\ s.name \in DOMAIN i.globals) =>
                  r.section = s.section /\ r.value = s.value
<1> DEFINE c == SourceOf(i, o)
           s == c.sym
           asm == o[1] > 1
           e == EntryFor(i, o)
           d == DataBound(i, e)
           kind == IF s.kind = "absolute" /\ ~asm THEN "outside" ELSE s.kind
<1>1. /\ e \in RelocEntry /\ e.type = c.type /\ e.address = Places(i)[o[1]] + c.address
      /\ e.addend = AddendAt(i, o[1], o[2]) /\ (e.asm <=> asm) /\ e.kind = kind /\ e.name = s.name
      /\ e.section = s.section /\ e.value = s.value
  <2>1. e \in RelocEntry  BY EntryTyped
  <2>2. /\ e.type = c.type /\ e.address = Places(i)[o[1]] + c.address
        /\ e.addend = AddendAt(i, o[1], o[2]) /\ e.kind = kind /\ e.name = s.name
        /\ e.section = s.section /\ e.value = s.value
    BY DEF EntryFor
  <2>3. e.asm <=> asm
    <3>1. e.asm = (o[1] > 1)  BY DEF EntryFor
    <3> QED  BY <3>1
  <2> QED  BY <2>1, <2>2, <2>3
<1>0. r = CallBound(i, d)  OBVIOUS
<1> HIDE DEF e
<1>2. "branch" \notin DataTypes /\ Nowhere = ""  BY DEF DataTypes, Nowhere
<1>3. CASE e.asm /\ e.type \in DataTypes /\ e.section = "" /\ e.name \in DOMAIN i.globals
  <2> DEFINE g == i.globals[e.name]
  <2>1. d = [e EXCEPT !.section = g.section, !.value = g.value]  BY <1>3 DEF DataBound
  <2> HIDE DEF d, g
  <2>2. /\ d.type = e.type /\ d.address = e.address /\ d.addend = e.addend /\ d.kind = e.kind
        /\ d.name = e.name /\ d.section = g.section /\ d.value = g.value
    BY <1>1, <2>1 DEF RelocEntry
  <2>3. ~Named(d)  BY <1>2, <1>3, <2>2 DEF Named
  <2>4. r = d  BY <1>0, <2>3 DEF CallBound
  <2> QED  BY <1>1, <1>2, <1>3, <2>2, <2>4 DEF g
<1>4. CASE ~(e.asm /\ e.type \in DataTypes /\ e.section = "" /\ e.name \in DOMAIN i.globals)
  <2>1. d = e  BY <1>4 DEF DataBound
  <2>2. CASE Named(e)
    <3> DEFINE v == OffsetOf(i, e.name)
               t == "__text"
    <3>1. r = [e EXCEPT !.section = t, !.value = v]  BY <1>0, <2>1, <2>2 DEF CallBound
    <3> HIDE DEF v, t
    <3>2. /\ r.type = e.type /\ r.address = e.address /\ r.addend = e.addend /\ r.kind = e.kind
          /\ r.name = e.name /\ r.section = t /\ r.value = v
      BY <1>1, <3>1 DEF RelocEntry
    <3>3. asm /\ c.type = "branch" /\ s.kind # "absolute"  BY <1>1, <2>2 DEF Named
    <3> QED  BY <1>1, <1>2, <3>2, <3>3 DEF v, t
  <2>3. CASE ~Named(e)
    <3>1. r = e  BY <1>0, <2>1, <2>3 DEF CallBound
    <3>2. ~(asm /\ c.type = "branch" /\ s.kind # "absolute")  BY <1>1, <2>3 DEF Named
    <3> QED  BY <1>1, <1>2, <1>4, <3>1, <3>2
  <2> QED  BY <2>2, <2>3
<1> QED  BY <1>3, <1>4

\* The model's words for it are those of the invariant.
LEMMA SeenFromObjects ==
  ASSUME IInv, pc = "done", NEW n \in 1 .. Len(relocs)
  PROVE  LET o == OriginsOf(input)[n]
         IN  /\ input \in Inputs /\ o \in RelocsOf(input) /\ Origins[n] = o
             /\ Source(n) = SourceOf(input, o) /\ (InAsm(n) <=> o[1] > 1)
             /\ AddendOf(n) = AddendAt(input, o[1], o[2])
             /\ relocs[n] = CallBound(input, DataBound(input, EntryFor(input, o)))
             /\ PartAt = Places(input)
             /\ \A name : FunctionAt(name) = input.textVa + OffsetOf(input, name)
             /\ \A key : SectionAt(key) = DataFrom(input, relocs, text) + SectionsOf(input)[SectionOf(input, key)]
<1> DEFINE o == OriginsOf(input)[n]
<1>1. input \in Inputs /\ Len(relocs) \in Nat
  <2>1. input \in Inputs /\ relocs \in Seq(RelocEntry)  BY DEF IInv, Typed
  <2> QED  BY <2>1
<1>2. /\ FirstAre(input, Len(relocs), RelocsOf(input))
      /\ relocs[n] = CallBound(input, DataBound(input, EntryFor(input, o)))
  BY DEF IInv, BoundInv
<1>3. o \in RelocsOf(input)  BY <1>2 DEF FirstAre
<1>4. Origins = OriginsOf(input)  BY DEF Origins, OriginsOf
<1>5. Source(n) = SourceOf(input, o)  BY <1>4 DEF Source, SourceOf
<1>6. InAsm(n) <=> o[1] > 1  BY <1>4 DEF InAsm
<1>7. AddendOf(n) = AddendAt(input, o[1], o[2])  BY <1>4 DEF AddendOf, AddendAt, HasAddend
<1>8. PartAt = Places(input)  BY DEF PartAt, Places, IsLayout
<1>9. ASSUME NEW name  PROVE FunctionAt(name) = input.textVa + OffsetOf(input, name)
  BY <1>8 DEF FunctionAt, OffsetOf, Handlers, HandlersOf
<1>10. ASSUME NEW key
       PROVE  SectionAt(key) = DataFrom(input, relocs, text) + SectionsOf(input)[SectionOf(input, key)]
  <2>1. built.data = AlignUp(Bound(relocs, text), 16)  BY DEF IInv, BuiltInv
  <2>2. SectionOffset = SectionsOf(input)  BY DEF SectionOffset, SectionsOf
  <2>3. SectionNumber(key) = SectionOf(input, key)  BY DEF SectionNumber, SectionOf
  <2> QED  BY <2>1, <2>2, <2>3 DEF SectionAt, DataFrom
<1> QED  BY <1>1, <1>2, <1>3, <1>4, <1>5, <1>6, <1>7, <1>8, <1>9, <1>10

\* A sum that is an address is one of an address.
LEMMA PlusSome ==
  ASSUME NEW a, NEW b, Plus(a, b) # None
  PROVE  a # None /\ Plus(a, b) = a + b
BY DEF Plus

\* In the C++ object a symbol with a section is the plugin's own.
LEMMA OwnTarget ==
  ASSUME IInv, pc = "done", NEW n \in 1 .. Len(relocs), ~(Origins[n][1] > 1),
         Source(n).sym.section # Nowhere,
         TargetOf(input, DataFrom(input, relocs, text), relocs[n]) # None
  PROVE  TargetOf(input, DataFrom(input, relocs, text), relocs[n]) = Own(n) + AddendOf(n)
<1> DEFINE o == OriginsOf(input)[n]
           s == SourceOf(input, o).sym
           r == relocs[n]
           dv == DataFrom(input, relocs, text)
<1>1. /\ input \in Inputs /\ o \in RelocsOf(input) /\ Origins[n] = o /\ PartAt = Places(input)
      /\ Source(n) = SourceOf(input, o) /\ ~(o[1] > 1) /\ AddendOf(n) = AddendAt(input, o[1], o[2])
      /\ r = CallBound(input, DataBound(input, EntryFor(input, o)))
      /\ SectionAt(s.section) = dv + SectionsOf(input)[SectionOf(input, s.section)]
  BY SeenFromObjects
<1>2. /\ r.addend = AddendAt(input, o[1], o[2]) /\ r.section = s.section /\ r.value = s.value
      /\ r.kind = IF s.kind = "absolute" THEN "outside" ELSE s.kind
  <2>1. input \in Inputs /\ o \in RelocsOf(input) /\ r = CallBound(input, DataBound(input, EntryFor(input, o)))
    BY <1>1
  <2> HIDE DEF o, r
  <2> QED  BY <1>1, <2>1, BoundFrom
<1>3. s.kind \in {"own", "anonymous"}
  <2>1. o[1] \in DOMAIN input.parts /\ o[2] \in DOMAIN input.parts[o[1]].relocs
    <3>1. o[1] \in 1 .. Len(input.parts) /\ o[2] \in 1 .. Len(input.parts[o[1]].relocs)  BY <1>1, RelocsAre
    <3>2. /\ DOMAIN input.parts = 1 .. Len(input.parts)
          /\ \A p \in DOMAIN input.parts : DOMAIN input.parts[p].relocs = 1 .. Len(input.parts[p].relocs)
      BY <1>1, InputTyped
    <3> QED  BY <3>1, <3>2
  <2>2. s.section # Nowhere => s.kind \in {"own", "anonymous"}  BY <1>1, <2>1, InputTyped DEF SourceOf, Nowhere
  <2> QED  BY <1>1, <2>2
<1>4. /\ r.kind \notin {"absolute", "va", "data"} /\ r.section = s.section /\ s.section # Nowhere /\ r.value = s.value
      /\ r.addend = AddendOf(n)
  BY <1>1, <1>2, <1>3
<1>5. CASE s.section = "__text"
  <2>1. o[1] = 1 /\ Places(input)[1] = 0 /\ input.textVa \in Nat
    <3>1. o[1] \in 1 .. Len(input.parts) /\ o[1] \in Nat  BY <1>1, RelocsAre
    <3>2. o[1] = 1
      <4> DEFINE p == o[1]
      <4>1. p \in Nat /\ ~(p > 1) /\ p \in 1 .. Len(input.parts)  BY <1>1, <3>1
      <4>2. Len(input.parts) \in Nat  BY <1>1, InputTyped
      <4> HIDE DEF p
      <4>3. p = 1  BY <4>1, <4>2
      <4> QED  BY <4>3 DEF p
    <3> QED  BY <1>1, <3>2, PlacesAre, InputTyped
  <2>2. TargetOf(input, dv, r) = input.textVa + r.value + r.addend
    <3> HIDE DEF dv, r
    <3> QED  BY <1>4, <1>5 DEF TargetOf, Nowhere
  <2>3. Own(n) = input.textVa + Places(input)[o[1]] + s.value  BY <1>1, <1>5 DEF Own, Nowhere
  <2>4. input.textVa + 0 = input.textVa
    <3> DEFINE a == input.textVa
    <3>1. a \in Nat  BY <2>1
    <3> HIDE DEF a
    <3>2. a + 0 = a  BY <3>1
    <3> QED  BY <3>2 DEF a
  <2> QED  BY <1>4, <2>1, <2>2, <2>3, <2>4
<1>6. CASE s.section # "__text"
  <2>1. TargetOf(input, dv, r) = dv + SectionsOf(input)[SectionOf(input, s.section)] + r.value + r.addend
    <3>1. TargetOf(input, dv, r) # None  OBVIOUS
    <3> HIDE DEF dv, r
    <3> QED  BY <1>4, <1>6, <3>1 DEF TargetOf, Nowhere
  <2>2. Own(n) = SectionAt(s.section) + s.value  BY <1>1, <1>6 DEF Own, Nowhere
  <2> QED  BY <1>1, <1>4, <2>1, <2>2
<1> QED  BY <1>5, <1>6

\* A branch has the target that its object means.
LEMMA CallMeant ==
  ASSUME IInv, pc = "done", NEW n \in 1 .. Len(relocs), relocs[n].type = "branch",
         TargetOf(input, DataFrom(input, relocs, text), relocs[n]) # None
  PROVE  TargetOf(input, DataFrom(input, relocs, text), relocs[n]) = MeantCallee(n) + AddendOf(n)
<1> DEFINE o == OriginsOf(input)[n]
           c == SourceOf(input, o)
           s == c.sym
           r == relocs[n]
           dv == DataFrom(input, relocs, text)
           to == TargetOf(input, dv, r)
           asm == o[1] > 1
<1>1. /\ input \in Inputs /\ o \in RelocsOf(input) /\ Source(n) = c /\ Origins[n] = o
      /\ AddendOf(n) = AddendAt(input, o[1], o[2])
      /\ r = CallBound(input, DataBound(input, EntryFor(input, o)))
      /\ \A name : FunctionAt(name) = input.textVa + OffsetOf(input, name)
  BY SeenFromObjects
<1>2. /\ r.type = c.type /\ c.type = "branch" /\ r.addend = AddendOf(n) /\ r.name = s.name
      /\ r.kind = IF s.kind = "absolute" /\ ~asm THEN "outside" ELSE s.kind
      /\ ~asm => r.section = s.section /\ r.value = s.value
      /\ asm /\ s.kind # "absolute" => r.section = "__text" /\ r.value = OffsetOf(input, s.name)
      /\ asm /\ s.kind = "absolute" => r.section = s.section /\ r.value = s.value
  <2>1. input \in Inputs /\ o \in RelocsOf(input) /\ r = CallBound(input, DataBound(input, EntryFor(input, o)))
    BY <1>1
  <2>2. r.type = "branch"  OBVIOUS
  <2> HIDE DEF o, r
  <2> QED  BY <1>1, <2>1, <2>2, BoundFrom
<1>3. to # None /\ to = TargetOf(input, dv, r)  OBVIOUS
<1>4. CASE asm /\ s.kind = "absolute"
  <2> HIDE DEF dv, r, to, s
  <2>1. to = r.value + r.addend  BY <1>2, <1>3, <1>4 DEF TargetOf, Nowhere
  <2>2. MeantCallee(n) = s.value  BY <1>1, <1>4 DEF Nowhere, MeantCallee, InAsm, s
  <2> QED  BY <1>2, <1>4, <2>1, <2>2 DEF to, dv, r
<1>5. CASE asm /\ s.kind # "absolute"
  <2> HIDE DEF dv, r, to, s
  <2>1. to = input.textVa + r.value + r.addend  BY <1>2, <1>3, <1>5 DEF TargetOf, Nowhere
  <2>2. MeantCallee(n) = input.textVa + OffsetOf(input, s.name)  BY <1>1, <1>5 DEF Nowhere, MeantCallee, InAsm, s
  <2> QED  BY <1>2, <1>5, <2>1, <2>2 DEF to, dv, r
<1>6. CASE ~asm /\ s.section # Nowhere
  <2>1. to = Own(n) + AddendOf(n)  BY <1>1, <1>3, <1>6, OwnTarget
  <2>2. s.kind \notin {"va", "data"}
    <3>1. o[1] \in DOMAIN input.parts /\ o[2] \in DOMAIN input.parts[o[1]].relocs
      <4>1. o[1] \in 1 .. Len(input.parts) /\ o[2] \in 1 .. Len(input.parts[o[1]].relocs)  BY <1>1, RelocsAre
      <4>2. /\ DOMAIN input.parts = 1 .. Len(input.parts)
            /\ \A p \in DOMAIN input.parts : DOMAIN input.parts[p].relocs = 1 .. Len(input.parts[p].relocs)
        BY <1>1, InputTyped
      <4> QED  BY <4>1, <4>2
    <3>2. s.section # Nowhere => s.kind \in {"own", "anonymous"}  BY <1>1, <3>1, InputTyped DEF SourceOf, Nowhere
    <3> QED  BY <1>6, <3>2
  <2>3. MeantCallee(n) = Own(n)  BY <1>1, <1>6, <2>2 DEF Nowhere, MeantCallee, InAsm
  <2> QED  BY <2>1, <2>3
<1>7. CASE ~asm /\ s.section = Nowhere /\ s.kind \in {"va", "data"}
  <2> HIDE DEF dv, r, to, s
  <2>1. to = r.value + r.addend  BY <1>2, <1>3, <1>7 DEF TargetOf, Nowhere
  <2>2. MeantCallee(n) = s.value  BY <1>1, <1>7 DEF Nowhere, MeantCallee, InAsm, s
  <2> QED  BY <1>2, <1>7, <2>1, <2>2 DEF to, dv, r
<1>8. CASE ~asm /\ s.section = Nowhere /\ s.kind \notin {"va", "data"}
  <2> HIDE DEF dv, r, to, s
  <2>1. to = Plus(ByName(input, s.name), r.addend)  BY <1>2, <1>3, <1>8 DEF TargetOf, Nowhere
  <2>2. ByName(input, s.name) # None /\ to = ByName(input, s.name) + r.addend
    BY <1>3, <2>1, PlusSome
  <2>3. MeantCallee(n) = ByName(input, s.name)
    BY <1>1, <1>8, <2>2 DEF Nowhere, MeantCallee, InAsm, ByName, Lookup, s
  <2> QED  BY <1>2, <2>2, <2>3 DEF to, dv, r
<1> QED  BY <1>4, <1>5, <1>6, <1>7, <1>8

\* An access has the target that its object means: the plugin's own datum, or
\* the slot of what is not the plugin's.
LEMMA DataMeant ==
  ASSUME IInv, pc = "done", NEW n \in 1 .. Len(relocs), relocs[n].type \in DataTypes \ {"pointer"},
         ~(Origins[n][1] > 1 /\ Source(n).sym.section # Nowhere),
         DataTargetOf(input, DataFrom(input, relocs, text), relocs[n]) # None
  PROVE  DataTargetOf(input, DataFrom(input, relocs, text), relocs[n]) = MeantData(n) + AddendOf(n)
<1> DEFINE o == OriginsOf(input)[n]
           c == SourceOf(input, o)
           s == c.sym
           r == relocs[n]
           dv == DataFrom(input, relocs, text)
           to == DataTargetOf(input, dv, r)
           asm == o[1] > 1
           g == input.globals[s.name]
           Global == asm /\ s.section = Nowhere /\ s.name \in DOMAIN input.globals
<1>1. /\ input \in Inputs /\ o \in RelocsOf(input) /\ Source(n) = c /\ Origins[n] = o
      /\ AddendOf(n) = AddendAt(input, o[1], o[2])
      /\ r = CallBound(input, DataBound(input, EntryFor(input, o)))
      /\ \A key : SectionAt(key) = dv + SectionsOf(input)[SectionOf(input, key)]
  BY SeenFromObjects
<1>2. /\ r.type = c.type /\ r.addend = AddendOf(n) /\ r.name = s.name
      /\ r.kind = IF s.kind = "absolute" /\ ~asm THEN "outside" ELSE s.kind
      /\ ~asm => r.section = s.section /\ r.value = s.value
      /\ Global => r.section = g.section /\ r.value = g.value
      /\ asm /\ ~Global => r.section = s.section /\ r.value = s.value
  <2>1. input \in Inputs /\ o \in RelocsOf(input) /\ r = CallBound(input, DataBound(input, EntryFor(input, o)))
    BY <1>1
  <2>2. r.type \in DataTypes  OBVIOUS
  <2> HIDE DEF o, r
  <2> QED  BY <1>1, <2>1, <2>2, BoundFrom
<1>3. /\ s.section # Nowhere => s.kind \in {"own", "anonymous"}
      /\ s.kind \in {"absolute", "data"} => s.name \notin DOMAIN input.globals
      /\ ~(asm /\ s.section # Nowhere)
  <2>1. o[1] \in DOMAIN input.parts /\ o[2] \in DOMAIN input.parts[o[1]].relocs
    <3>1. o[1] \in 1 .. Len(input.parts) /\ o[2] \in 1 .. Len(input.parts[o[1]].relocs)  BY <1>1, RelocsAre
    <3>2. /\ DOMAIN input.parts = 1 .. Len(input.parts)
          /\ \A p \in DOMAIN input.parts : DOMAIN input.parts[p].relocs = 1 .. Len(input.parts[p].relocs)
      BY <1>1, InputTyped
    <3> QED  BY <3>1, <3>2
  <2> QED  BY <1>1, <2>1, InputTyped DEF SourceOf, Nowhere
<1>4. to # None /\ to = DataTargetOf(input, dv, r)  OBVIOUS
<1>5. CASE s.kind = "data" \/ (s.kind = "absolute" /\ asm)
  <2> HIDE DEF dv, r, to, s, asm
  <2>1. s.section = Nowhere /\ ~Global  BY <1>3, <1>5
  <2>2. r.section = Nowhere /\ r.value = s.value /\ r.kind = s.kind  BY <1>2, <1>5, <2>1
  <2>3. to = r.value + r.addend  BY <1>4, <1>5, <2>2 DEF DataTargetOf, TargetOf, Nowhere
  <2>4. MeantData(n) = s.value  BY <1>1, <1>5 DEF MeantData, InAsm, s, asm
  <2> QED  BY <1>2, <2>2, <2>3, <2>4 DEF to, dv, r
<1>6. CASE s.section # Nowhere
  <2>1. s.kind \in {"own", "anonymous"} /\ ~asm  BY <1>3, <1>6
  <2>2. r.section # Nowhere /\ r.kind = s.kind  BY <1>2, <1>6, <2>1
  <2>3. to = TargetOf(input, dv, r)  BY <1>4, <2>2 DEF DataTargetOf, Nowhere
  <2>4. to = Own(n) + AddendOf(n)  BY <1>1, <1>4, <1>6, <2>1, <2>3, OwnTarget
  <2>5. MeantData(n) = Own(n)  BY <1>1, <1>6, <2>1 DEF MeantData, Nowhere
  <2> QED  BY <2>4, <2>5
<1>7. CASE Global
  <2> HIDE DEF dv, r, to, s, asm
  <2>1. s.kind \notin {"absolute", "data"}  BY <1>3, <1>7
  <2>2. /\ r.section = g.section /\ r.value = g.value /\ r.kind = s.kind
        /\ g.section # Nowhere /\ g.section # "__text"
    BY <1>1, <1>2, <1>7, <2>1, InputTyped DEF Nowhere
  <2>3. to = TargetOf(input, dv, r)  BY <1>4, <2>2 DEF DataTargetOf, Nowhere
  <2>4. to = dv + SectionsOf(input)[SectionOf(input, g.section)] + r.value + r.addend
    BY <1>4, <2>1, <2>2, <2>3 DEF TargetOf, Nowhere
  <2>5. MeantData(n) = SectionAt(g.section) + g.value
    BY <1>1, <1>7, <2>1 DEF MeantData, InAsm, Nowhere, s, asm
  <2> QED  BY <1>1, <1>2, <2>2, <2>4, <2>5 DEF to, dv, r
<1>8. CASE s.section = Nowhere /\ ~Global /\ s.kind # "data" /\ ~(s.kind = "absolute" /\ asm)
  <2> HIDE DEF dv, r, to, s, asm
  <2>1. r.section = Nowhere /\ r.kind \notin {"absolute", "data"}  BY <1>2, <1>8
  <2>2. to = Plus(Lookup(input.target.slots, s.name), r.addend)
    BY <1>2, <1>4, <2>1 DEF DataTargetOf, Nowhere
  <2>3. Lookup(input.target.slots, s.name) # None /\ to = Lookup(input.target.slots, s.name) + r.addend
    BY <1>4, <2>2, PlusSome
  <2>4. MeantData(n) = input.target.slots[s.name]
    BY <1>1, <1>8 DEF MeantData, InAsm, Nowhere, s, asm
  <2>5. Lookup(input.target.slots, s.name) = input.target.slots[s.name]  BY <2>3 DEF Lookup
  <2> QED  BY <1>2, <2>3, <2>4, <2>5 DEF to, dv, r
<1> QED  BY <1>5, <1>6, <1>7, <1>8

\* The parts are of the types the run checks.
LEMMA TypedTypeOK ==
  ASSUME IInv
  PROVE  TypeOK
<1>1. Typed  BY DEF IInv
<1>2. \A n \in DOMAIN relocs : relocs[n].address \in Nat
  <2>1. relocs \in Seq(RelocEntry)  BY <1>1 DEF Typed
  <2>2. \A n \in DOMAIN relocs : relocs[n] \in RelocEntry  BY <2>1
  <2> QED  BY <2>2 DEF RelocEntry
<1> QED  BY <1>1, <1>2 DEF Typed, TypeOK

\* Every branch resolved does what it should.
LEMMA CallsDo ==
  ASSUME IInv
  PROVE  CallsArrive
<1> SUFFICES ASSUME pc = "done", NEW n \in Branches
             PROVE  LET meant == MeantCallee(n) + AddendOf(n)
                        from  == input.textVa + PartAt[Origins[n][1]] + Source(n).address
                    IN  /\ FitsBranch26(from, patched[n].to)
                        /\ \/ patched[n].to = meant
                           \/ \E v \in ToSet(veneers) : /\ v.at = patched[n].to /\ v.to = meant
                                                        /\ v.at + 4 * v.words <= input.textVa + built.text
  BY DEF CallsArrive
<1> DEFINE o == OriginsOf(input)[n]
           dv == DataFrom(input, relocs, text)
           to == TargetOf(input, dv, relocs[n])
           from == input.textVa + PartAt[Origins[n][1]] + Source(n).address
<1>1. /\ Typed /\ n \in 1 .. Len(relocs) /\ relocs[n].type = "branch" /\ Len(patched) = Len(relocs)
      /\ Len(relocs) \in Nat /\ built.text = text + 20 * Cardinality(BranchesTo(relocs, Len(patched)))
      /\ text \in Nat /\ input \in Inputs
  <2>1. /\ Typed /\ Len(patched) = Len(relocs) /\ built.text = Bound(relocs, text) /\ text \in Nat /\ input \in Inputs
    BY DEF IInv, BuiltInv, Typed
  <2>2. DOMAIN relocs = 1 .. Len(relocs)  BY <2>1, BoundNat
  <2> QED  BY <2>1, <2>2, BoundNat DEF Branches
<1>2. CallDone(input, dv, veneers, relocs[n], patched[n])
  BY <1>1 DEF IInv, ResolvedInv
<1>3. /\ to # None /\ FitsBranch26(input.textVa + relocs[n].address, patched[n].to)
      /\ patched[n].to = to \/ \E v \in 1 .. Len(veneers) : veneers[v].at = patched[n].to /\ veneers[v].to = to
  BY <1>2 DEF CallDone
<1>4. to = MeantCallee(n) + AddendOf(n)  BY <1>1, <1>3, CallMeant
<1>5. from = input.textVa + relocs[n].address
  <2>1. /\ o \in RelocsOf(input) /\ Origins[n] = o /\ PartAt = Places(input)
        /\ Source(n) = SourceOf(input, o)
        /\ relocs[n] = CallBound(input, DataBound(input, EntryFor(input, o)))
    BY <1>1, SeenFromObjects
  <2>2. relocs[n].address = Places(input)[o[1]] + SourceOf(input, o).address
    <3> DEFINE r == relocs[n]
    <3>1. r = CallBound(input, DataBound(input, EntryFor(input, o)))  BY <2>1
    <3> HIDE DEF o, r
    <3>2. r.address = Places(input)[o[1]] + SourceOf(input, o).address  BY <1>1, <2>1, <3>1, BoundFrom
    <3> QED  BY <3>2 DEF r
  <2> DEFINE a == input.textVa
             b == Places(input)[o[1]]
             c == SourceOf(input, o).address
  <2>3. a \in Nat /\ b \in Nat /\ c \in Nat
    <3>1. a \in Nat  BY <1>1, InputTyped
    <3>2. o[1] \in 1 .. Len(input.parts) /\ SourceOf(input, o) \in Relocation  BY <1>1, <2>1, RelocsAre
    <3>3. b \in Nat  BY <1>1, <3>2, PlacesAre
    <3>4. c \in Nat  BY <3>2 DEF Relocation
    <3> QED  BY <3>1, <3>3, <3>4
  <2>4. from = a + b + c /\ relocs[n].address = b + c  BY <2>1, <2>2
  <2> HIDE DEF a, b, c, from
  <2>5. from = a + relocs[n].address  BY <2>3, <2>4
  <2> QED  BY <2>5 DEF a
<1>6. ASSUME NEW v \in 1 .. Len(veneers)
      PROVE  veneers[v] \in ToSet(veneers) /\ veneers[v].at + 4 * veneers[v].words <= input.textVa + built.text
  <2>1. IsSeq(veneers)  BY <1>1 DEF Typed
  <2>2. veneers[v] \in ToSet(veneers)  BY <2>1 DEF IsSeq, ToSet
  <2> DEFINE end == EndOf(input, text, veneers)
             C == Cardinality(BranchesTo(relocs, Len(patched)))
  <2>3. /\ end \in Int /\ end <= input.textVa + text + 20 * C
        /\ veneers[v].at \in Int /\ veneers[v].words \in 3 .. 5 /\ veneers[v].at + 4 * veneers[v].words <= end
    BY DEF IInv, VeneerInv
  <2>4. C \in Nat /\ input.textVa \in Nat
    <3>1. Len(patched) \in Nat  BY <1>1
    <3> QED  BY <1>1, <3>1, BranchCount, InputTyped
  <2>5. built.text = text + 20 * C  BY <1>1
  <2> DEFINE last == veneers[v].at + 4 * veneers[v].words
             a == input.textVa
             b == built.text
  <2>6. last \in Int /\ last <= end  BY <2>3
  <2>7. a \in Nat /\ b = text + 20 * C /\ end <= a + text + 20 * C  BY <2>3, <2>4, <2>5
  <2> HIDE DEF end, C, last, a, b
  <2>8. last <= a + b  BY <1>1, <2>3, <2>4, <2>6, <2>7
  <2> QED  BY <2>2, <2>8 DEF last, a, b
<1> HIDE DEF to, from, dv
<1>7. FitsBranch26(from, patched[n].to)  BY <1>3, <1>5
<1>8. CASE patched[n].to = to  BY <1>4, <1>7, <1>8 DEF from, to, dv
<1>9. CASE \E v \in 1 .. Len(veneers) : veneers[v].at = patched[n].to /\ veneers[v].to = to
  <2>1. PICK v \in 1 .. Len(veneers) : veneers[v].at = patched[n].to /\ veneers[v].to = to  BY <1>9
  <2>2. \E x \in ToSet(veneers) : /\ x.at = patched[n].to /\ x.to = MeantCallee(n) + AddendOf(n)
                                  /\ x.at + 4 * x.words <= input.textVa + built.text
    BY <1>4, <1>6, <2>1
  <2> QED  BY <1>7, <2>2 DEF from
<1> QED  BY <1>3, <1>8, <1>9

\* Every access resolved does what it should.
LEMMA DataDoes ==
  ASSUME IInv
  PROVE  DataArrives
<1> SUFFICES ASSUME pc = "done", NEW n \in DOMAIN relocs,
                    relocs[n].type \in DataTypes \ {"pointer"}, patched[n].form # "nothing",
                    ~(InAsm(n) /\ Source(n).sym.section # Nowhere)
             PROVE  LET meant == MeantData(n) + AddendOf(n)
                        own   == Source(n).sym.kind # "outside" \/ (InAsm(n) /\ Source(n).sym.name \in DOMAIN input.globals)
                    IN  /\ patched[n].to = IF patched[n].form = "page" THEN PageOf(meant) ELSE meant % PageSize
                        /\ patched[n].form = "load" => relocs[n].type = "gotoff"
                        /\ relocs[n].type = "gotoff" /\ ~own => patched[n].form = "load"
  BY DEF DataArrives, Nowhere
<1> DEFINE o == OriginsOf(input)[n]
           dv == DataFrom(input, relocs, text)
           to == DataTargetOf(input, dv, relocs[n])
<1>1. Typed /\ n \in 1 .. Len(relocs) /\ Len(patched) = Len(relocs) /\ input \in Inputs
  <2>1. Typed /\ Len(patched) = Len(relocs) /\ input \in Inputs  BY DEF IInv, BuiltInv, Typed
  <2>2. DOMAIN relocs = 1 .. Len(relocs)  BY <2>1, BoundNat
  <2> QED  BY <2>1, <2>2
<1>2. DataDone(input, dv, relocs[n], patched[n])  BY <1>1 DEF IInv, ResolvedInv
<1>3. /\ to # None
      /\ patched[n].to = IF patched[n].form = "page" THEN PageOf(to) ELSE to % PageSize
      /\ patched[n].form = "load" => relocs[n].type = "gotoff"
      /\ relocs[n].type = "gotoff" /\ relocs[n].kind # "data" => patched[n].form = "load"
  BY <1>2 DEF DataDone
<1>4. ~(Origins[n][1] > 1 /\ Source(n).sym.section # Nowhere)  BY DEF InAsm
<1>5. to = MeantData(n) + AddendOf(n)  BY <1>1, <1>3, <1>4, DataMeant
<1>6. Source(n).sym.kind = "outside" => relocs[n].kind # "data"
  <2>1. /\ o \in RelocsOf(input) /\ Source(n) = SourceOf(input, o)
        /\ relocs[n] = CallBound(input, DataBound(input, EntryFor(input, o)))
    BY <1>1, SeenFromObjects
  <2> DEFINE r == relocs[n]
  <2>2. r = CallBound(input, DataBound(input, EntryFor(input, o)))  BY <2>1
  <2> HIDE DEF o, r
  <2>3. r.kind = IF SourceOf(input, o).sym.kind = "absolute" /\ ~(o[1] > 1) THEN "outside" ELSE SourceOf(input, o).sym.kind
    BY <1>1, <2>1, <2>2, BoundFrom
  <2> QED  BY <2>1, <2>3 DEF r
<1> HIDE DEF to
<1> QED  BY <1>3, <1>5, <1>6

-----------------------------------------------------------------------------
\* What is read, bound and resolved has its types: the handlers' offsets that
\* are registered are not negative, and there is no more resolved than read.
THEOREM TypeCorrect == Spec => []TypeOK
BY Invariant, TypedTypeOK, PTL

\* Every call of every plugin arrives at what its object names, whatever the
\* order of the objects and of their relocations, and over a veneer only within
\* the room made for it.
THEOREM CallsAlwaysArrive == Spec => []CallsArrive
BY Invariant, CallsDo, PTL

\* Every page and every offset is that of the datum the object names, though
\* the address of the data is fixed before the veneers are.
THEOREM DataAlwaysArrives == Spec => []DataArrives
BY Invariant, DataDoes, PTL

\* The patches that come after it change nothing of what was built.
LEMMA PatchNextInv ==
  ASSUME IInv, [PNext]_<<vars, patchVars>>
  PROVE  IInv'
<1>1. CASE [Next]_vars  BY <1>1, NextInv
<1>2. CASE RefusePatch
  <2>1. Fail("error")  BY <1>2 DEF RefusePatch
  <2> QED  BY <2>1, FailStep
<1>3. CASE ApplyPatch \/ MismatchPatch
  <2>1. UNCHANGED vars  BY <1>3 DEF ApplyPatch, MismatchPatch
  <2> QED  BY <2>1, NextInv
<1> QED  BY <1>1, <1>2, <1>3 DEF PNext

\* So it is for a plugin with texts of patch_asm, whether they are applied,
\* left out or refused.
THEOREM WithPatches == PSpec => [](TypeOK /\ CallsArrive /\ DataArrives)
<1>1. PInit => IInv  BY InitInv DEF PInit
<1>2. IInv /\ [PNext]_<<vars, patchVars>> => IInv'  BY PatchNextInv
<1>3. IInv => TypeOK /\ CallsArrive /\ DataArrives  BY TypedTypeOK, CallsDo, DataDoes
<1> QED  BY <1>1, <1>2, <1>3, PTL DEF PSpec
=============================================================================
