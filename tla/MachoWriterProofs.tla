-------------------------- MODULE MachoWriterProofs --------------------------
(***************************************************************************)
(* The names are distinct, and the file that add_macho_sections writes is  *)
(* sound and has the fixups it had, for every page size, every file that a *)
(* linker makes and every list of plugins.                                 *)
(***************************************************************************)
EXTENDS MachoWriter, OrderedProofs, SequenceTheorems

Shifted == {"caves", "code fixups", "data fixups", "done"}
Written == {"code fixups", "data fixups", "done"}

-----------------------------------------------------------------------------
(* The inductive invariant.                                                 *)

\* Every name is remembered.
NamesInv ==
  /\ input \in Inputs /\ NamesTyped
  /\ codeNames \in Seq(used) /\ dataNames \in Seq(used \cup {<<>>})
  /\ \A name \in used : name \in Seq(ToSet(name))
  /\ Distinct
  /\ pc \in {"name", "named"} => plans = <<>>
  /\ pc \notin {"name", "failed"} => Len(codeNames) = Len(input.plugins)

PlansInv ==
  /\ plans \in Seq(Plan(used))
  /\ \A i, k \in Plans : plans[i].name = plans[k].name => i = k
  /\ \A i \in Plans : plans[i].name \notin NamesOf(input.segments)
  /\ pc \notin {"name", "named", "failed"} => plans # <<>>

\* The file is sound in every state.
FileInv ==
  /\ segments \in Seq(Segment(NamesNow)) /\ commandsEnd \in Nat
  /\ Len(input.starts) <= Len(starts)
  /\ Sound(segments, data, tables, starts, fixups, Len(starts) - Len(input.starts))

AsRead ==
  /\ data = input.data /\ segments = input.segments /\ tables = input.tables
  /\ starts = input.starts /\ fixups = input.fixups /\ commandsEnd = input.commandsEnd

\* Where __LINKEDIT was, or the end of the file: what is in front stays.
Border(i) == IF Linkedits(i.segments) = {} THEN Len(i.data)
             ELSE i.segments[CHOOSE l \in Linkedits(i.segments) : TRUE].off

OldNamed(g) == /\ g.name \in NamesOf(input.segments)
               /\ \A n \in DOMAIN g.sections : g.sections[n].name \in NamesOf(input.segments)

KeptInv ==
  /\ pc \in {"name", "named", "signature"} => AsRead
  /\ \A j \in DOMAIN input.segments : input.segments[j].name # Linkedit =>
       \E i \in DOMAIN segments : segments[i] = input.segments[j]
  /\ Linkedits(segments) = {} <=> Linkedits(input.segments) = {}
  /\ Border(input) \in 0 .. Len(data) /\ \A n \in 1 .. Border(input) : data[n] = input.data[n]
  /\ pc \notin Shifted => \A l \in Linkedits(segments) : segments[l].off = Border(input)
  /\ pc \notin Written => \A j \in DOMAIN segments : OldNamed(segments[j])

\* The load commands end before everything.
EndsBefore(n) == n <= Len(data) /\ \A o \in ContentOffsets : n <= o

HeaderInv ==
  /\ pc \notin Shifted /\ Linkedits(segments) # {} => ContentOffsets # {}
  /\ pc \in {"place", "shift", "caves"} => EndsBefore(commandsEnd + CommandSize)
  /\ pc = "caves" => commandsEnd + CommandSize <= linkeditOff
  /\ pc \in Written => EndsBefore(commandsEnd)

\* Each cave has its room, and the data's room begins a page.
RoomFor(group, from, size) ==
  /\ \A i \in group : from <= offsets[i] /\ offsets[i] + plans[i].size <= from + size
  /\ \A i, k \in group : i < k => offsets[i] + plans[i].size <= offsets[k]
  /\ \A i \in group : (\A k \in group : i <= k) => offsets[i] = from

LayoutInv ==
  pc \in Shifted \cup {"shift"} =>
    /\ {codeSize, dataBase, dataSize, inserted} \subseteq Nat
    /\ offsets \in [Plans -> Nat]
    /\ RoomFor(Code, 0, codeSize) /\ RoomFor(Data, dataBase, dataSize)
    /\ dataBase = AlignUp(codeSize, Page) /\ inserted = AlignUp(dataBase + dataSize, Page)

PlaceInv ==
  pc \in Shifted =>
    /\ {linkeditOff, linkeditVa} \subseteq Nat /\ linkeditVa % Page = 0
    /\ place \in 1 .. Len(segments) + 1
    /\ Border(input) <= linkeditOff /\ linkeditOff + dataBase + dataSize <= Len(data)
    /\ \A l \in Linkedits(segments) : /\ segments[l].off = linkeditOff + inserted
                                      /\ segments[l].va = linkeditVa + inserted
    /\ pc = "caves" => \A j \in DOMAIN segments \ Linkedits(segments) :
                         RoundedEnd(segments[j]) <= linkeditVa /\ segments[j].off + segments[j].fsize <= linkeditOff

SectionOf(i) == [name |-> plans[i].name, va |-> linkeditVa + offsets[i],
                 size |-> plans[i].size, off |-> linkeditOff + offsets[i]]
IsCave(g, suffix, base, group) ==
  /\ g.name = CaveName(suffix) /\ g.va = linkeditVa + base /\ 1 \in DOMAIN g.sections
  /\ \A n \in DOMAIN g.sections :
       \E i \in group : g.sections[n] = SectionOf(i) /\ (n = 1 => \A k \in group : i <= k)

CavesInv ==
  pc \in Written =>
    /\ \A i \in Plans : \E j \in DOMAIN segments : \E n \in DOMAIN segments[j].sections :
         segments[j].sections[n] = SectionOf(i)
    /\ \A j \in DOMAIN segments : \/ OldNamed(segments[j])
                                  \/ IsCave(segments[j], "code", 0, Code)
                                  \/ IsCave(segments[j], "data", dataBase, Data)
    /\ \A i \in Plans : \A n \in 0 .. plans[i].size - 1 : data[linkeditOff + offsets[i] + n + 1] = Content(i, n)

IInv == TypeOK /\ NamesInv /\ PlansInv /\ FileInv /\ KeptInv /\ HeaderInv /\ LayoutInv /\ PlaceInv /\ CavesInv

-----------------------------------------------------------------------------
(* Rounding up.                                                             *)

\* Quotient and remainder.
LEMMA Divides ==
  ASSUME NEW p \in Nat \ {0}, NEW n \in Int
  PROVE  /\ n % p \in 0 .. p - 1
         /\ n = p * (n \div p) + (n % p)
         /\ n \div p \in Int
  OBVIOUS

\* There is one of each.
LEMMA OneRemainder ==
  ASSUME NEW p \in Nat \ {0}, NEW q \in Int, NEW r \in 0 .. p - 1
  PROVE  (p * q + r) % p = r
<1> DEFINE n == p * q + r
           d == n \div p
           s == n % p
<1>1. n \in Int /\ d \in Int /\ s \in 0 .. p - 1 /\ p * q + r = p * d + s
  BY Divides
<1> HIDE DEF d, s
<1>2. d = q
  <2>1. CASE d > q
    <3>1. p * d >= p * (q + 1)  BY <1>1, <2>1
    <3>2. p * (q + 1) = p * q + p  OBVIOUS
    <3> QED BY <1>1, <3>1, <3>2
  <2>2. CASE d < q
    <3>1. p * q >= p * (d + 1)  BY <1>1, <2>2
    <3>2. p * (d + 1) = p * d + p  BY <1>1
    <3> QED BY <1>1, <3>1, <3>2
  <2> QED BY <1>1, <2>1, <2>2
<1> QED BY <1>1, <1>2 DEF s

\* AlignUp gives the next multiple.
LEMMA AlignUpIs ==
  ASSUME NEW p \in Nat \ {0}, NEW n \in Int
  PROVE  /\ AlignUp(n, p) \in Int /\ n <= AlignUp(n, p) /\ AlignUp(n, p) < n + p
         /\ \E k \in Int : AlignUp(n, p) = p * k
<1>1. /\ (-n) % p \in 0 .. p - 1
      /\ (-n) = p * ((-n) \div p) + ((-n) % p)
      /\ (-n) \div p \in Int
  BY Divides
<1>2. PICK q \in Int : (-n) = p * q + ((-n) % p)  BY <1>1
<1>3. p * (-q) = -(p * q)  OBVIOUS
<1>4. AlignUp(n, p) = p * (-q) /\ (-q) \in Int  BY <1>1, <1>2, <1>3 DEF AlignUp
<1>5. AlignUp(n, p) \in Int /\ n <= AlignUp(n, p) /\ AlignUp(n, p) < n + p  BY <1>1 DEF AlignUp
<1> QED  BY <1>4, <1>5

\* Whatever multiple is near enough is it.
LEMMA AlignUpOnly ==
  ASSUME NEW p \in Nat \ {0}, NEW n \in Int, NEW k \in Int, n <= p * k, p * k < n + p
  PROVE  AlignUp(n, p) = p * k
<1> DEFINE r == p * k - n
<1>1. r \in 0 .. p - 1 /\ p * (-k) = -(p * k) /\ (-k) \in Int  OBVIOUS
<1>2. (p * (-k) + r) % p = r  BY <1>1, OneRemainder
<1>3. (-n) = p * (-k) + r  BY <1>1
<1> QED  BY <1>2, <1>3 DEF AlignUp

\* It keeps an order.
LEMMA AlignUpGrows ==
  ASSUME NEW p \in Nat \ {0}, NEW m \in Int, NEW n \in Int, m <= n
  PROVE  AlignUp(m, p) <= AlignUp(n, p)
<1>1. PICK j \in Int : AlignUp(m, p) = p * j /\ m <= p * j /\ p * j < m + p  BY AlignUpIs
<1>2. PICK k \in Int : AlignUp(n, p) = p * k /\ n <= p * k /\ p * k < n + p  BY AlignUpIs
<1>3. CASE j > k
  <2>1. p * j >= p * (k + 1) /\ p * (k + 1) = p * k + p  BY <1>3
  <2> QED  BY <1>1, <1>2, <2>1
<1>4. CASE j <= k
  <2>1. p * j <= p * k  BY <1>4
  <2> QED  BY <1>1, <1>2, <2>1
<1> QED  BY <1>3, <1>4

\* What has no remainder.
LEMMA Multiple ==
  ASSUME NEW p \in Nat \ {0}, NEW a \in Int
  PROVE  a % p = 0 <=> \E k \in Int : a = p * k
<1>1. ASSUME a % p = 0  PROVE \E k \in Int : a = p * k
  <2>1. a = p * (a \div p) + (a % p) /\ a \div p \in Int  BY Divides
  <2> QED  BY <1>1, <2>1
<1>2. ASSUME NEW k \in Int, a = p * k  PROVE a % p = 0
  <2>1. (p * k + 0) % p = 0 /\ p * k + 0 = a BY <1>2, OneRemainder
  <2> QED  BY <2>1
<1> QED  BY <1>1, <1>2

\* What is rounded has none.
LEMMA AlignUpMultiple ==
  ASSUME NEW p \in Nat \ {0}, NEW n \in Int
  PROVE  AlignUp(n, p) % p = 0
<1>1. AlignUp(n, p) \in Int /\ \E k \in Int : AlignUp(n, p) = p * k  BY AlignUpIs
<1> DEFINE a == AlignUp(n, p)
<1> HIDE DEF a
<1> QED  BY <1>1, Multiple DEF a

\* What begins at a multiple ends where it would end from 0, so much further.
LEMMA AlignUpFrom ==
  ASSUME NEW p \in Nat \ {0}, NEW n \in Int, NEW a \in Int, a % p = 0
  PROVE  AlignUp(a + n, p) = a + AlignUp(n, p)
<1>1. PICK j \in Int : a = p * j  BY Multiple
<1>2. PICK k \in Int : AlignUp(n, p) = p * k /\ n <= p * k /\ p * k < n + p  BY AlignUpIs
<1>3. p * (j + k) = a + p * k  BY <1>1
<1>4. j + k \in Int /\ a + n \in Int /\ a + n <= p * (j + k) /\ p * (j + k) < (a + n) + p  BY <1>2, <1>3
<1> DEFINE m == a + n
           i == j + k
<1> HIDE DEF m, i
<1>5. AlignUp(m, p) = p * i  BY <1>4, AlignUpOnly DEF m, i
<1> QED  BY <1>2, <1>3, <1>5 DEF m, i

\* Multiples add up.
LEMMA MultiplesAdd ==
  ASSUME NEW p \in Nat \ {0}, NEW a \in Int, NEW b \in Int, a % p = 0, b % p = 0
  PROVE  (a + b) % p = 0
<1>1. PICK j \in Int : a = p * j  BY Multiple
<1>2. PICK k \in Int : b = p * k  BY Multiple
<1>3. a + b = p * (j + k) /\ j + k \in Int /\ a + b \in Int  BY <1>1, <1>2
<1> DEFINE m == a + b
           i == j + k
<1>4. m \in Int /\ i \in Int /\ m = p * i  BY <1>3
<1> HIDE DEF m, i
<1>5. m % p = 0  BY <1>4, Multiple
<1> QED  BY <1>5 DEF m

\* Pages are whole numbers of 16 bytes.
LEMMA MultipleOfPart ==
  ASSUME NEW p \in Nat \ {0}, NEW a \in Nat \ {0}, p % a = 0, NEW n \in Int, n % p = 0
  PROVE  AlignUp(n, a) = n
<1>0. p \in Int  OBVIOUS
<1>1. PICK j \in Int : p = a * j  BY <1>0, Multiple
<1>2. PICK k \in Int : n = p * k  BY Multiple
<1>3. n = a * (j * k) /\ j * k \in Int  BY <1>1, <1>2
<1> DEFINE i == j * k
<1>4. i \in Int /\ n = a * i  BY <1>3
<1> HIDE DEF i
<1>5. n <= a * i /\ a * i < n + a  BY <1>4
<1> QED  BY <1>4, <1>5, AlignUpOnly

-----------------------------------------------------------------------------
(* Sequences.                                                               *)

\* A sequence is one of its elements.
LEMMA OwnElements ==
  ASSUME NEW S, NEW d \in Seq(S)
  PROVE  d \in Seq(ToSet(d))
<1>1. d \in [1 .. Len(d) -> ToSet(d)] /\ Len(d) \in Nat  BY DEF ToSet
<1> QED  BY <1>1

\* What is inserted moves what is behind it.
LEMMA Inserted ==
  ASSUME NEW S, NEW d \in Seq(S), NEW w \in Seq(S), NEW at \in 0 .. Len(d)
  PROVE  LET e == SubSeq(d, 1, at) \o w \o SubSeq(d, at + 1, Len(d))
         IN  /\ e \in Seq(S) /\ Len(e) = Len(d) + Len(w)
             /\ \A n \in 1 .. at : e[n] = d[n]
             /\ \A n \in 1 .. Len(w) : e[at + n] = w[n]
             /\ \A n \in at + 1 .. Len(d) : e[n + Len(w)] = d[n]
<1> DEFINE a == SubSeq(d, 1, at)
           b == a \o w
           c == SubSeq(d, at + 1, Len(d))
           e == b \o c
<1>0. Len(d) \in Nat /\ Len(w) \in Nat /\ \A n \in 1 .. Len(d) : d[n] \in S  OBVIOUS
<1>1. a \in Seq(S) /\ Len(a) = at /\ \A n \in 1 .. at : a[n] = d[n]
  <2>1. \A n \in 1 .. at : d[n] \in S  BY <1>0
  <2> QED  BY <1>0, <2>1, SubSeqProperties
<1>2. c \in Seq(S) /\ Len(c) = Len(d) - at /\ \A n \in 1 .. Len(d) - at : c[n] = d[at + n]
  <2>1. \A n \in at + 1 .. Len(d) : d[n] \in S  BY <1>0
  <2>2. /\ c \in Seq(S) /\ Len(c) = IF at + 1 <= Len(d) THEN Len(d) - (at + 1) + 1 ELSE 0
        /\ \A n \in 1 .. Len(d) - (at + 1) + 1 : c[n] = d[(at + 1) + n - 1]
    BY <1>0, <2>1, SubSeqProperties
  <2> HIDE DEF c
  <2> QED  BY <1>0, <2>2
<1> HIDE DEF a, c
<1>3. /\ b \in Seq(S) /\ Len(b) = at + Len(w)
      /\ \A n \in 1 .. at + Len(w) : b[n] = IF n <= at THEN a[n] ELSE w[n - at]
  BY <1>1, ConcatProperties
<1> HIDE DEF b
<1>4. /\ e \in Seq(S) /\ Len(e) = Len(b) + Len(c)
      /\ \A n \in 1 .. Len(b) + Len(c) : e[n] = IF n <= Len(b) THEN b[n] ELSE c[n - Len(b)]
  BY <1>2, <1>3, ConcatProperties
<1> HIDE DEF e
<1>5. Len(e) = Len(d) + Len(w)  BY <1>0, <1>2, <1>3, <1>4
<1>6. ASSUME NEW n \in 1 .. at  PROVE e[n] = d[n]
  BY <1>0, <1>1, <1>2, <1>3, <1>4
<1>7. ASSUME NEW n \in 1 .. Len(w)  PROVE e[at + n] = w[n]
  <2>1. at + n \in 1 .. Len(b) + Len(c) /\ at + n <= Len(b)  BY <1>0, <1>2, <1>3
  <2>2. e[at + n] = b[at + n]  BY <1>4, <2>1
  <2>3. at + n \in 1 .. at + Len(w) /\ ~(at + n <= at) /\ (at + n) - at = n  BY <1>0
  <2> QED  BY <1>3, <2>2, <2>3
<1>8. ASSUME NEW n \in at + 1 .. Len(d)  PROVE e[n + Len(w)] = d[n]
  <2>1. n - at \in 1 .. Len(d) - at /\ n + Len(w) \in 1 .. Len(b) + Len(c)  BY <1>0, <1>2, <1>3
  <2>2. e[n + Len(w)] = c[n + Len(w) - Len(b)]  BY <1>0, <1>3, <1>4, <2>1
  <2>3. n + Len(w) - Len(b) = n - at  BY <1>0, <1>3
  <2>4. c[n - at] = d[at + (n - at)] /\ at + (n - at) = n  BY <1>0, <1>2, <2>1
  <2> QED  BY <2>2, <2>3, <2>4
<1> QED  BY <1>4, <1>5, <1>6, <1>7, <1>8 DEF a, b, c, e

-----------------------------------------------------------------------------
(* The layout.                                                              *)

\* What is assumed of the constants.
LEMMA Constants ==
  /\ Page \in Nat \ {0} /\ Align16 \in Nat \ {0} /\ Page % Align16 = 0
  /\ {SegmentCommand, SectionCommand, SignatureCommand, MaxBase} \subseteq Nat \ {0}
  /\ MaxName \in Nat /\ MaxName > 3
  /\ \A i \in Inputs : i.plugins # <<>> /\ i.plugins \in Seq(Plugin) /\ Linked(i)
  BY WriterAssumption, NamesAssumption DEF Align16

\* Rounding up a size.
LEMMA AlignUpNat ==
  ASSUME NEW p \in Nat \ {0}, NEW n \in Nat
  PROVE  AlignUp(n, p) \in Nat /\ n <= AlignUp(n, p)
<1>1. AlignUp(n, p) \in Int /\ n <= AlignUp(n, p)  BY AlignUpIs
<1> QED  BY <1>1

IsEnds(f, N, group, from) ==
  /\ f \in [0 .. N -> Nat] /\ f[0] = from
  /\ \A i \in 1 .. N : f[i] = IF i \in group THEN AlignUp(f[i - 1], Align16) + plans[i].size ELSE f[i - 1]

\* The cursor is defined at every plan, by recursion.
LEMMA EndsExist ==
  ASSUME NEW N \in Nat, \A i \in 1 .. N : plans[i].size \in Nat, NEW group, NEW from \in Nat
  PROVE  \E f : IsEnds(f, N, group, from)
<1> DEFINE Good(n) == \E f : IsEnds(f, n, group, from)
           T == {n \in 0 .. N : ~Good(n)}
<1>1. SUFFICES ASSUME T # {}  PROVE FALSE
  <2>1. ASSUME T = {}  PROVE Good(N)  BY <2>1
  <2> QED  BY <2>1
<1>2. PICK n \in T : \A m \in T : n <= m
  <2>1. T \subseteq Nat  OBVIOUS
  <2> HIDE DEF T
  <2> QED  BY <1>1, <2>1, Least
<1>3. n \in 0 .. N /\ ~Good(n)  OBVIOUS
<1>4. n # 0
  <2>1. IsEnds([i \in 0 .. 0 |-> from], 0, group, from)  BY DEF IsEnds
  <2> QED  BY <1>3, <2>1
<1>5. n - 1 \in 0 .. N /\ n \in 1 .. N /\ Good(n - 1)
  <2>1. n - 1 \in 0 .. N /\ ~(n <= n - 1) /\ n \in 1 .. N  BY <1>3, <1>4
  <2> HIDE DEF Good
  <2> QED  BY <1>2, <2>1
<1>6. PICK f : IsEnds(f, n - 1, group, from)  BY <1>5
<1> DEFINE v == IF n \in group THEN AlignUp(f[n - 1], Align16) + plans[n].size ELSE f[n - 1]
           g == [i \in 0 .. n |-> IF i = n THEN v ELSE f[i]]
<1>7. v \in Nat
  <2>1. f[n - 1] \in Nat  BY <1>5, <1>6 DEF IsEnds
  <2>2. AlignUp(f[n - 1], Align16) \in Nat  BY <2>1, AlignUpNat, Constants
  <2> QED  BY <1>5, <2>1, <2>2
<1>8. g[n] = IF n \in group THEN AlignUp(f[n - 1], Align16) + plans[n].size ELSE f[n - 1]
  BY <1>5
<1> HIDE DEF v
<1>9. /\ g \in [0 .. n -> Nat]
      /\ \A i \in 0 .. n - 1 : g[i] = f[i]
  <2>1. \A i \in 0 .. n - 1 : f[i] \in Nat  BY <1>6 DEF IsEnds
  <2> QED  BY <1>5, <1>7, <2>1
<1> HIDE DEF g
<1>10. g[0] = from  BY <1>5, <1>6, <1>9 DEF IsEnds
<1>11. ASSUME NEW i \in 1 .. n
       PROVE  g[i] = IF i \in group THEN AlignUp(g[i - 1], Align16) + plans[i].size ELSE g[i - 1]
  <2>1. CASE i = n
    <3>1. n - 1 \in 0 .. n - 1  BY <1>5
    <3>2. g[n - 1] = f[n - 1]  BY <1>9, <3>1
    <3> QED  BY <1>8, <2>1, <3>2
  <2>2. CASE i # n
    <3>1. i \in 1 .. n - 1 /\ i \in 0 .. n - 1 /\ i - 1 \in 0 .. n - 1  BY <1>5, <2>2
    <3>2. g[i] = f[i] /\ g[i - 1] = f[i - 1]  BY <1>9, <3>1
    <3> QED  BY <1>6, <3>1, <3>2 DEF IsEnds
  <2> QED  BY <2>1, <2>2
<1>12. IsEnds(g, n, group, from)  BY <1>9, <1>10, <1>11 DEF IsEnds
<1> QED  BY <1>3, <1>12

\* The cursor is what the recursion says.
LEMMA EndsAre ==
  ASSUME NEW N \in Nat, N = Len(plans), \A i \in 1 .. N : plans[i].size \in Nat, NEW group, NEW from \in Nat
  PROVE  IsEnds(Ends(group, from), N, group, from)
<1> DEFINE Is(f) == f = [i \in 0 .. N |-> IF i = 0 THEN from
                                          ELSE IF i \in group THEN AlignUp(f[i - 1], Align16) + plans[i].size
                                          ELSE f[i - 1]]
<1>1. \E f : Is(f)
  <2>1. PICK f : IsEnds(f, N, group, from)  BY EndsExist
  <2>2. Is(f)  BY <2>1 DEF IsEnds
  <2> QED  BY <2>2
<1>2. Ends(group, from) = CHOOSE f : Is(f)  BY DEF Ends
<1>3. Is(Ends(group, from))  BY <1>1, <1>2
<1> DEFINE e == Ends(group, from)
<1>4. /\ DOMAIN e = 0 .. N /\ e[0] = from /\ e = [i \in 0 .. N |-> e[i]]
      /\ \A i \in 1 .. N : e[i] = IF i \in group THEN AlignUp(e[i - 1], Align16) + plans[i].size ELSE e[i - 1]
  BY <1>3
<1> HIDE DEF e
<1> DEFINE T == {n \in 0 .. N : e[n] \notin Nat}
<1>5. ASSUME T # {}  PROVE FALSE
  <2>1. PICK n \in T : \A m \in T : n <= m
    <3>1. T \subseteq Nat  OBVIOUS
    <3> HIDE DEF T
    <3> QED  BY <1>5, <3>1, Least
  <2>2. n \in 0 .. N /\ e[n] \notin Nat  OBVIOUS
  <2>3. n # 0  BY <1>4, <2>2
  <2>4. n \in 1 .. N /\ n - 1 \in 0 .. N /\ ~(n <= n - 1)  BY <2>2, <2>3
  <2>5. e[n - 1] \in Nat  BY <2>1, <2>4
  <2>6. AlignUp(e[n - 1], Align16) \in Nat  BY <2>5, AlignUpNat, Constants
  <2>7. AlignUp(e[n - 1], Align16) + plans[n].size \in Nat  BY <2>4, <2>6
  <2> QED  BY <1>4, <2>2, <2>4, <2>5, <2>7
<1>6. e \in [0 .. N -> Nat]  BY <1>4, <1>5
<1> QED  BY <1>4, <1>6 DEF IsEnds, e

\* The cursor never goes back.
LEMMA EndsGrow ==
  ASSUME NEW N \in Nat, \A i \in 1 .. N : plans[i].size \in Nat, NEW group, NEW from \in Nat,
         NEW f, IsEnds(f, N, group, from), NEW a \in 0 .. N, NEW b \in a .. N
  PROVE  f[a] <= f[b]
<1> DEFINE T == {n \in a .. N : ~(f[a] <= f[n])}
<1>1. SUFFICES ASSUME T # {}  PROVE FALSE
  OBVIOUS
<1>2. PICK n \in T : \A m \in T : n <= m
  <2>1. T \subseteq Nat  OBVIOUS
  <2> HIDE DEF T
  <2> QED  BY <1>1, <2>1, Least
<1>3. n \in a .. N /\ ~(f[a] <= f[n])  OBVIOUS
<1>4. \A i \in 0 .. N : f[i] \in Nat  BY DEF IsEnds
<1>5. n # a  BY <1>3, <1>4
<1>6. n \in 1 .. N /\ n - 1 \in a .. N /\ n - 1 \in 0 .. N /\ ~(n <= n - 1)  BY <1>3, <1>5
<1>7. f[a] <= f[n - 1]  BY <1>2, <1>6
<1>8. f[n - 1] <= f[n]
  <2>1. f[n - 1] <= AlignUp(f[n - 1], Align16) /\ AlignUp(f[n - 1], Align16) \in Nat
    BY <1>4, <1>6, AlignUpNat, Constants
  <2>2. f[n] = IF n \in group THEN AlignUp(f[n - 1], Align16) + plans[n].size ELSE f[n - 1]
    BY <1>6 DEF IsEnds
  <2> QED  BY <1>4, <1>6, <2>1, <2>2
<1> QED  BY <1>3, <1>4, <1>6, <1>7, <1>8

Spaced(f, N, group, from) ==
  /\ \A i \in group : /\ f[i] - plans[i].size \in Nat
                      /\ from <= f[i] - plans[i].size /\ f[i] <= f[N]
  /\ \A i, k \in group : i < k => f[i] <= f[k] - plans[k].size
  /\ \A i \in group : (\A k \in group : i <= k) => f[i] - plans[i].size = from
  /\ group = {} => f[N] = from

\* So the sections of a group follow each other.
LEMMA EndsApart ==
  ASSUME NEW N \in Nat, \A i \in 1 .. N : plans[i].size \in Nat, NEW group, group \subseteq 1 .. N,
         NEW from \in Nat, AlignUp(from, Align16) = from,
         NEW f, IsEnds(f, N, group, from)
  PROVE  Spaced(f, N, group, from)
<1>0. \A i \in 0 .. N : f[i] \in Nat  BY DEF IsEnds
<1>1. ASSUME NEW i \in group
      PROVE  /\ f[i] - plans[i].size = AlignUp(f[i - 1], Align16)
             /\ i - 1 \in 0 .. N /\ i \in 1 .. N /\ f[i - 1] \in Nat /\ f[i] \in Nat
             /\ f[i - 1] <= f[i] - plans[i].size /\ f[i] - plans[i].size \in Nat
  <2>1. i \in 1 .. N /\ i - 1 \in 0 .. N  OBVIOUS
  <2>2. f[i] = AlignUp(f[i - 1], Align16) + plans[i].size  BY <2>1 DEF IsEnds
  <2>3. AlignUp(f[i - 1], Align16) \in Nat /\ f[i - 1] <= AlignUp(f[i - 1], Align16)
    BY <1>0, <2>1, AlignUpNat, Constants
  <2> QED  BY <1>0, <2>1, <2>2, <2>3
<1>2. ASSUME NEW i \in group
      PROVE  from <= f[i] - plans[i].size /\ f[i] <= f[N]
  <2>1. i - 1 \in 0 .. N /\ i \in 0 .. N /\ i - 1 \in 0 .. N /\ 0 \in 0 .. N /\ N \in i .. N  BY <1>1
  <2>2. f[0] <= f[i - 1] /\ f[i] <= f[N]  BY <2>1, EndsGrow
  <2>3. f[0] = from  BY DEF IsEnds
  <2> QED  BY <1>0, <1>1, <2>1, <2>2, <2>3
<1>3. ASSUME NEW i \in group, NEW k \in group, i < k
      PROVE  f[i] <= f[k] - plans[k].size
  <2>1. i \in 0 .. N /\ k - 1 \in i .. N  BY <1>1, <1>3
  <2>2. f[i] <= f[k - 1]  BY <2>1, EndsGrow
  <2>3. f[k - 1] <= f[k] - plans[k].size /\ f[k - 1] \in Nat /\ f[i] \in Nat /\ f[k] - plans[k].size \in Nat
    BY <1>1
  <2> QED  BY <2>2, <2>3
<1>4. ASSUME NEW m \in 0 .. N, \A k \in group : m < k  PROVE f[m] = from
  <2> DEFINE T == {n \in 0 .. m : f[n] # from}
  <2>1. SUFFICES ASSUME T # {}  PROVE FALSE
    OBVIOUS
  <2>2. PICK n \in T : \A o \in T : n <= o
    <3>1. T \subseteq Nat  OBVIOUS
    <3> HIDE DEF T
    <3> QED  BY <2>1, <3>1, Least
  <2>3. n \in 0 .. m /\ f[n] # from  OBVIOUS
  <2>4. n # 0  BY <2>3 DEF IsEnds
  <2>5. n \in 1 .. N /\ n - 1 \in 0 .. m /\ ~(n <= n - 1)  BY <2>3, <2>4
  <2>6. f[n - 1] = from  BY <2>2, <2>5
  <2>7. n \notin group  BY <1>4, <2>3
  <2>8. f[n] = f[n - 1]  BY <2>5, <2>7 DEF IsEnds
  <2> QED  BY <2>3, <2>6, <2>8
<1>5. ASSUME NEW i \in group, \A k \in group : i <= k  PROVE f[i] - plans[i].size = from
  <2>1. i - 1 \in 0 .. N /\ \A k \in group : i - 1 < k  BY <1>5
  <2>2. f[i - 1] = from  BY <1>4, <2>1
  <2> QED  BY <1>1, <2>2
<1>6. ASSUME group = {}  PROVE f[N] = from
  BY <1>4, <1>6
<1> QED  BY <1>1, <1>2, <1>3, <1>5, <1>6 DEF Spaced

-----------------------------------------------------------------------------
(* Names.                                                                   *)

\* A name is cut to a length.
LEMMA CutIs ==
  ASSUME NEW S, NEW name \in Seq(S), NEW n \in Nat
  PROVE  /\ Cut(name, n) \in Seq(S)
         /\ Len(Cut(name, n)) = IF Len(name) < n THEN Len(name) ELSE n
<1> DEFINE m == IF Len(name) < n THEN Len(name) ELSE n
<1>1. m \in 0 .. Len(name) /\ m \in Int  OBVIOUS
<1> HIDE DEF m
<1>2. \A i \in 1 .. m : name[i] \in S  BY <1>1
<1>3. /\ SubSeq(name, 1, m) \in Seq(S)
      /\ Len(SubSeq(name, 1, m)) = IF 1 <= m THEN m - 1 + 1 ELSE 0
  BY <1>1, <1>2, SubSeqProperties
<1>4. Cut(name, n) = SubSeq(name, 1, m)  BY DEF Cut, m
<1>5. Len(Cut(name, n)) = m  BY <1>1, <1>3, <1>4
<1> QED  BY <1>3, <1>4, <1>5 DEF m

\* And a suffix is put behind it, of any symbols.
LEMMA JoinIs ==
  ASSUME NEW S, NEW a \in Seq(S), NEW T, NEW b \in Seq(T)
  PROVE  a \o b \in Seq(S \cup T) /\ Len(a \o b) = Len(a) + Len(b)
<1> DEFINE U == S \cup T
<1>1. S \subseteq U /\ T \subseteq U  OBVIOUS
<1> HIDE DEF U
<1>2. a \in Seq(U) /\ b \in Seq(U)  BY <1>1, SeqMonotonic
<1> QED  BY <1>2, ConcatProperties DEF U

\* What is between the underscores at the ends, if anything.
LEMMA StrippedIs ==
  ASSUME NEW S, NEW name \in Seq(S)
  PROVE  Stripped(name) \in Seq(S)
<1> DEFINE kept == {n \in DOMAIN name : name[n] # "_"}
           lo == CHOOSE n \in kept : \A m \in kept : n <= m
           hi == CHOOSE n \in kept : \A m \in kept : m <= n
<1>1. Stripped(name) = IF kept = {} THEN <<>> ELSE SubSeq(name, lo, hi)  BY DEF Stripped
<1>2. ASSUME kept # {}  PROVE lo \in 1 .. Len(name) /\ hi \in 1 .. Len(name)
  <2>1. kept \subseteq 1 .. Len(name) /\ Len(name) \in Nat
    <3>1. DOMAIN name = 1 .. Len(name) /\ Len(name) \in Nat  OBVIOUS
    <3> QED  BY <3>1
  <2> HIDE DEF kept
  <2>2. \E n \in kept : \A m \in kept : n <= m
    <3>1. kept \subseteq Nat  BY <2>1
    <3> QED  BY <1>2, <3>1, Least
  <2>3. \E n \in kept : \A m \in kept : m <= n
    <3> DEFINE up == {Len(name) - n : n \in kept}
    <3>0. \A n \in kept : Len(name) - n \in Nat  BY <2>1
    <3>1. up \subseteq Nat /\ up # {}  BY <1>2, <3>0
    <3>2. PICK u \in up : \A v \in up : u <= v
      <4> HIDE DEF up
      <4> QED  BY <3>1, Least
    <3>3. PICK n \in kept : u = Len(name) - n  OBVIOUS
    <3>4. \A m \in kept : Len(name) - m \in up  OBVIOUS
    <3>5. \A m \in kept : m <= n
      <4> TAKE m \in kept
      <4>1. u <= Len(name) - m  BY <3>2, <3>4
      <4>2. m \in Nat /\ n \in Nat  BY <2>1
      <4> QED  BY <2>1, <3>3, <4>1, <4>2
    <3> QED  BY <3>5
  <2>4. lo \in kept  BY <2>2
  <2>5. hi \in kept  BY <2>3
  <2> QED  BY <2>1, <2>4, <2>5
<1> HIDE DEF lo, hi
<1>3. CASE kept # {}
  <2> HIDE DEF kept
  <2>a. lo \in 1 .. Len(name) /\ hi \in 1 .. Len(name)  BY <1>2, <1>3
  <2>b. Len(name) \in Nat /\ \A i \in 1 .. Len(name) : name[i] \in S  OBVIOUS
  <2>1. lo \in Int /\ hi \in Int /\ \A i \in lo .. hi : name[i] \in S  BY <2>a, <2>b
  <2>2. SubSeq(name, lo, hi) \in Seq(S)  BY <2>1, SubSeqProperties
  <2> QED  BY <1>1, <1>3, <2>2 DEF kept
<1>4. CASE kept = {}
  <2>1. Stripped(name) = <<>>  BY <1>1, <1>4
  <2> QED  BY <2>1
<1> QED  BY <1>3, <1>4

\* The name asked for is a name, of no more symbols than there may be.
LEMMA RequestedIs ==
  ASSUME NEW plugin \in Plugin
  PROVE  \E S : Requested(plugin) \in Seq(S) /\ Len(Requested(plugin)) \in 1 .. MaxName
<1> DEFINE raw   == IF plugin.prefix = <<>> THEN plugin.name ELSE plugin.prefix
           set   == {n \in DOMAIN raw : raw[n] \in Words \/ n = 1 \/ raw[n - 1] \in Words}
           heads == Ascending(set)
           words == [n \in DOMAIN heads |-> IF raw[heads[n]] \in Words THEN Lower(raw[heads[n]]) ELSE "_"]
           base  == Stripped(words)
           full  == IF base = <<>> THEN <<"armcave">> ELSE base
<1>1. Requested(plugin) = Cut(full, MaxName)  BY DEF Requested
<1>2. raw \in Seq(STRING)  BY DEF Plugin
<1> HIDE DEF raw
<1>3. set \subseteq 1 .. Len(raw) /\ Len(raw) \in Nat  BY <1>2
<1> HIDE DEF set
<1>4. IsFiniteSet(set) /\ set \subseteq Int
  <2>1. IsFiniteSet(1 .. Len(raw))
    <3>1. 1 \in Int /\ Len(raw) \in Int  BY <1>3
    <3> QED  BY <3>1, FS_Interval
  <2>2. IsFiniteSet(set)
    <3> DEFINE U == 1 .. Len(raw)
    <3>1. IsFiniteSet(U) /\ set \in SUBSET U  BY <1>3, <2>1
    <3> HIDE DEF U
    <3> QED  BY <3>1, FS_Subset
  <2>3. set \subseteq Int  BY <1>3
  <2> QED  BY <2>2, <2>3
<1>5. heads \in Seq(set)  BY <1>4, AscendingLists
<1> HIDE DEF heads
<1>6. PICK N \in Nat : DOMAIN heads = 1 .. N  BY <1>5
<1> DEFINE S == {words[n] : n \in 1 .. N}
<1>7. words \in [1 .. N -> S]  BY <1>6
<1> HIDE DEF words, S
<1>8. words \in Seq(S)  BY <1>7
<1>9. base \in Seq(S)  BY <1>8, StrippedIs
<1> HIDE DEF base
<1> DEFINE U == S \cup {"armcave"}
<1>10. full \in Seq(U) /\ full # <<>>
  <2>1. S \subseteq U  OBVIOUS
  <2>2. base \in Seq(U)
    <3> HIDE DEF U
    <3> QED  BY <1>9, <2>1, SeqMonotonic
  <2>3. <<"armcave">> \in Seq(U) /\ <<"armcave">> # <<>>  OBVIOUS
  <2> HIDE DEF U
  <2> QED  BY <2>2, <2>3
<1> HIDE DEF full, U
<1>11. Len(full) \in Nat /\ Len(full) # 0  BY <1>10
<1>12. MaxName \in Nat /\ MaxName > 3  BY Constants
<1>13. Cut(full, MaxName) \in Seq(U) /\ Len(Cut(full, MaxName)) = IF Len(full) < MaxName THEN Len(full) ELSE MaxName
  BY <1>10, <1>12, CutIs
<1>14. Len(Cut(full, MaxName)) \in 1 .. MaxName  BY <1>11, <1>12, <1>13
<1> QED  BY <1>1, <1>13, <1>14

\* So is the name of the code, with or without a hash,
LEMMA CodeNameIs ==
  ASSUME NEW plugin \in Plugin
  PROVE  \E S : CodeName(plugin) \in Seq(S) /\ Len(CodeName(plugin)) \in 1 .. MaxName
<1> DEFINE base == Requested(plugin)
           suffix == HashSuffix(plugin.name)
           cut == Cut(base, MaxName - Len(suffix))
<1>1. PICK S : base \in Seq(S) /\ Len(base) \in 1 .. MaxName  BY RequestedIs
<1> DEFINE T == {"_", Hash(plugin.name)}
<1>2. suffix \in Seq(T) /\ Len(suffix) = 2  BY DEF HashSuffix
<1>3. CodeName(plugin) = IF base \in used THEN cut \o suffix ELSE base  BY DEF CodeName
<1> HIDE DEF base, suffix, T
<1>4. MaxName \in Nat /\ MaxName > 3  BY Constants
<1>5. cut \in Seq(S) /\ Len(cut) = IF Len(base) < MaxName - 2 THEN Len(base) ELSE MaxName - 2
  <2>1. MaxName - Len(suffix) \in Nat /\ MaxName - Len(suffix) = MaxName - 2  BY <1>2, <1>4
  <2> QED  BY <1>1, <2>1, CutIs
<1> HIDE DEF cut
<1>6. cut \o suffix \in Seq(S \cup T) /\ Len(cut \o suffix) = Len(cut) + Len(suffix)
  BY <1>2, <1>5, JoinIs
<1>7. Len(cut \o suffix) \in 1 .. MaxName  BY <1>1, <1>2, <1>4, <1>5, <1>6
<1> QED  BY <1>1, <1>3, <1>6, <1>7

\* and that of the data.
LEMMA DataNameIs ==
  ASSUME NEW S, NEW code \in Seq(S), Len(code) \in 1 .. MaxName, NEW taken
  PROVE  \E T : DataName(code, taken) \in Seq(T) /\ Len(DataName(code, taken)) \in 1 .. MaxName
<1> DEFINE short  == Cut(code, MaxName - Len(DataSuffix))
           name   == short \o DataSuffix
           suffix == DataHashSuffix(code)
           cut    == Cut(code, MaxName - Len(suffix))
<1>1. DataName(code, taken) = IF name \in taken THEN cut \o suffix ELSE name  BY DEF DataName
<1> DEFINE T == {"_", "data"}
           U == {"_", "d", Hash(code)}
<1>2. DataSuffix \in Seq(T) /\ Len(DataSuffix) = 2  BY DEF DataSuffix
<1>3. suffix \in Seq(U) /\ Len(suffix) = 3  BY DEF DataHashSuffix
<1> HIDE DEF suffix, T, U
<1>4. MaxName \in Nat /\ MaxName > 3  BY Constants
<1>5. short \in Seq(S) /\ Len(short) = IF Len(code) < MaxName - 2 THEN Len(code) ELSE MaxName - 2
  <2>1. MaxName - Len(DataSuffix) \in Nat /\ MaxName - Len(DataSuffix) = MaxName - 2  BY <1>2, <1>4
  <2> QED  BY <2>1, CutIs
<1>6. cut \in Seq(S) /\ Len(cut) = IF Len(code) < MaxName - 3 THEN Len(code) ELSE MaxName - 3
  <2>1. MaxName - Len(suffix) \in Nat /\ MaxName - Len(suffix) = MaxName - 3  BY <1>3, <1>4
  <2> QED  BY <2>1, CutIs
<1> HIDE DEF short, cut
<1>7. name \in Seq(S \cup T) /\ Len(name) = Len(short) + Len(DataSuffix)  BY <1>2, <1>5, JoinIs
<1>8. cut \o suffix \in Seq(S \cup U) /\ Len(cut \o suffix) = Len(cut) + Len(suffix)  BY <1>3, <1>6, JoinIs
<1> HIDE DEF name
<1>9. Len(name) \in 1 .. MaxName /\ Len(cut \o suffix) \in 1 .. MaxName
  BY <1>2, <1>3, <1>4, <1>5, <1>6, <1>7, <1>8
<1> QED  BY <1>1, <1>7, <1>8, <1>9

\* The lists of names, as functions.
LEMMA NamesAre ==
  ASSUME NamesInv
  PROVE  /\ Len(codeNames) \in Nat /\ DOMAIN codeNames = 1 .. Len(codeNames) /\ DOMAIN dataNames = 1 .. Len(codeNames)
         /\ Len(dataNames) = Len(codeNames) /\ Len(codeNames) <= Len(input.plugins)
         /\ Len(input.plugins) \in Nat /\ Plugins = 1 .. Len(input.plugins)
         /\ \A i \in Plugins : input.plugins[i] \in Plugin
         /\ \A i \in 1 .. Len(codeNames) : codeNames[i] \in used /\ (dataNames[i] = <<>> \/ dataNames[i] \in used)
<1>1. input.plugins \in Seq(Plugin)  BY Constants DEF NamesInv
<1>2. codeNames \in Seq(used) /\ dataNames \in Seq(used \cup {<<>>}) /\ Len(codeNames) = Len(dataNames)
      /\ Len(codeNames) <= Len(input.plugins)
  BY DEF NamesInv, NamesTyped
<1>3. DOMAIN codeNames = 1 .. Len(codeNames) /\ Len(codeNames) \in Nat /\ \A i \in 1 .. Len(codeNames) : codeNames[i] \in used
  BY <1>2
<1>4. DOMAIN dataNames = 1 .. Len(dataNames) /\ \A i \in 1 .. Len(dataNames) : dataNames[i] \in used \cup {<<>>}
  BY <1>2
<1>5. Len(input.plugins) \in Nat /\ \A i \in 1 .. Len(input.plugins) : input.plugins[i] \in Plugin  BY <1>1
<1> QED  BY <1>2, <1>3, <1>4, <1>5 DEF Plugins

\* At first none is given.
LEMMA InitNames ==
  ASSUME Init  PROVE NamesInv
<1>1. codeNames = <<>> /\ dataNames = <<>> /\ used = {} /\ pc = "name" /\ plans = <<>> /\ input \in Inputs
  BY DEF Init, NamesInit
<1>2. input.plugins \in Seq(Plugin)  BY <1>1, Constants
<1>3. NamesTyped  BY <1>1, <1>2 DEF NamesTyped
<1>4. Distinct  BY <1>1 DEF Distinct, Given
<1> QED  BY <1>1, <1>3, <1>4 DEF NamesInv

\* A plugin gets names that are not taken, or the run ends.
LEMMA NamePluginKeepsNames ==
  ASSUME NamesInv, NamePlugin, UNCHANGED plans  PROVE NamesInv'
<1> DEFINE N == Len(codeNames)
           plugin == input.plugins[N + 1]
           code   == CodeName(plugin)
           datum  == DataName(code, used \cup {code})
           given_ == IF plugin.data # 0 THEN datum ELSE <<>>
<1>1. /\ pc = "name" /\ N + 1 \in Plugins /\ UNCHANGED input
      /\ IF code \in used \/ (plugin.data # 0 /\ datum \in used \cup {code})
         THEN pc' = "failed" /\ UNCHANGED <<codeNames, dataNames, used>>
         ELSE /\ codeNames' = Append(codeNames, code) /\ dataNames' = Append(dataNames, given_)
              /\ used' = used \cup {code} \cup (IF plugin.data # 0 THEN {datum} ELSE {})
              /\ UNCHANGED pc
  BY DEF NamePlugin, NextPlugin
<1>2. /\ N \in Nat /\ DOMAIN codeNames = 1 .. N /\ DOMAIN dataNames = 1 .. N /\ Len(dataNames) = N
      /\ Len(input.plugins) \in Nat /\ Plugins = 1 .. Len(input.plugins)
      /\ \A i \in 1 .. N : codeNames[i] \in used /\ (dataNames[i] = <<>> \/ dataNames[i] \in used)
  BY NamesAre
<1>3. plugin \in Plugin  BY <1>1, NamesAre
<1> HIDE DEF N, plugin
<1>4. (\E S : code \in Seq(S)) /\ Len(code) \in 1 .. MaxName  BY <1>3, CodeNameIs
<1>5. (\E S : datum \in Seq(S)) /\ Len(datum) \in 1 .. MaxName
  <2>1. PICK S : code \in Seq(S)  BY <1>4
  <2> HIDE DEF code
  <2> QED  BY <1>4, <2>1, DataNameIs
<1>6. plugin.data = input.plugins[N + 1].data  BY DEF plugin
<1> HIDE DEF code, datum
<1>7. CASE code \in used \/ (plugin.data # 0 /\ datum \in used \cup {code})
  <2>1. pc' = "failed" /\ UNCHANGED <<input, codeNames, dataNames, used>>  BY <1>1, <1>7
  <2> QED  BY <2>1 DEF NamesInv, NamesTyped, Distinct, Given, NameOf
<1>8. CASE ~(code \in used \/ (plugin.data # 0 /\ datum \in used \cup {code}))
  <2>1. /\ codeNames' = Append(codeNames, code) /\ dataNames' = Append(dataNames, given_) /\ pc' = "name"
        /\ used' = used \cup {code} \cup (IF plugin.data # 0 THEN {datum} ELSE {})
        /\ code \notin used /\ (plugin.data # 0 => datum \notin used /\ datum # code)
    BY <1>1, <1>8
  <2>2. given_ = <<>> <=> plugin.data = 0
    <3>1. datum # <<>>  BY <1>5
    <3> QED  BY <3>1
  <2>3. Len(given_) \in 0 .. MaxName
    <3>1. Len(<<>>) = 0 /\ MaxName \in Nat  BY Constants
    <3> QED  BY <1>5, <3>1
  <2>4. used \subseteq used' /\ code \in used' /\ given_ \in used' \cup {<<>>}  BY <2>1
  <2>5. given_ # <<>> => given_ \notin used /\ given_ # code /\ given_ \in used'  BY <2>1, <2>2
  <2> HIDE DEF given_
  <2>6. /\ codeNames' \in Seq(used') /\ Len(codeNames') = N + 1 /\ codeNames'[N + 1] = code
        /\ \A i \in 1 .. N : codeNames'[i] = codeNames[i]
    <3> DEFINE U == used'
    <3>1. codeNames \in Seq(U) /\ code \in U
      <4>1. codeNames \in Seq(used)  BY DEF NamesInv
      <4>2. used \subseteq U /\ code \in U  BY <2>4
      <4> HIDE DEF U
      <4> QED  BY <4>1, <4>2, SeqMonotonic
    <3> HIDE DEF U
    <3>2. /\ Append(codeNames, code) \in Seq(U) /\ Len(Append(codeNames, code)) = Len(codeNames) + 1
          /\ \A i \in 1 .. Len(codeNames) : Append(codeNames, code)[i] = codeNames[i]
          /\ Append(codeNames, code)[Len(codeNames) + 1] = code
      BY <3>1, AppendProperties
    <3> QED  BY <2>1, <3>2 DEF U, N
  <2>7. /\ dataNames' \in Seq(used' \cup {<<>>}) /\ Len(dataNames') = N + 1 /\ dataNames'[N + 1] = given_
        /\ \A i \in 1 .. N : dataNames'[i] = dataNames[i]
    <3> DEFINE U == used' \cup {<<>>}
    <3>1. dataNames \in Seq(U) /\ given_ \in U
      <4> DEFINE V == used \cup {<<>>}
      <4>1. dataNames \in Seq(V)  BY DEF NamesInv
      <4>2. V \subseteq U /\ given_ \in U  BY <2>4
      <4> HIDE DEF U, V
      <4> QED  BY <4>1, <4>2, SeqMonotonic
    <3> HIDE DEF U
    <3>2. /\ Append(dataNames, given_) \in Seq(U) /\ Len(Append(dataNames, given_)) = Len(dataNames) + 1
          /\ \A i \in 1 .. Len(dataNames) : Append(dataNames, given_)[i] = dataNames[i]
          /\ Append(dataNames, given_)[Len(dataNames) + 1] = given_
      BY <3>1, AppendProperties
    <3> QED  BY <1>2, <2>1, <3>2 DEF U
  <2>8. DOMAIN codeNames' = 1 .. N + 1 /\ DOMAIN dataNames' = 1 .. N + 1
    <3>1. DOMAIN codeNames' = 1 .. Len(codeNames')  BY <2>6
    <3>2. DOMAIN dataNames' = 1 .. Len(dataNames')  BY <2>7
    <3> QED  BY <2>6, <2>7, <3>1, <3>2
  <2>9. NamesTyped'
    <3>1. Len(codeNames') = Len(dataNames') /\ Len(codeNames') <= Len(input'.plugins)  BY <1>1, <1>2, <2>6, <2>7
    <3>2. ASSUME NEW i \in 1 .. N + 1
          PROVE  /\ Len(codeNames'[i]) \in 1 .. MaxName /\ Len(dataNames'[i]) \in 0 .. MaxName
                 /\ dataNames'[i] # <<>> <=> input'.plugins[i].data # 0
      <4>1. CASE i = N + 1  BY <1>1, <1>4, <1>6, <2>2, <2>3, <2>6, <2>7, <4>1
      <4>2. CASE i \in 1 .. N
        <5>1. i \in DOMAIN codeNames  BY <1>2, <4>2
        <5>2. /\ Len(codeNames[i]) \in 1 .. MaxName /\ Len(dataNames[i]) \in 0 .. MaxName
              /\ dataNames[i] # <<>> <=> input.plugins[i].data # 0
          BY <5>1 DEF NamesInv, NamesTyped
        <5> QED  BY <1>1, <2>6, <2>7, <4>2, <5>2
      <4> QED  BY <1>2, <4>1, <4>2
    <3> QED  BY <2>8, <3>1, <3>2 DEF NamesTyped
  <2>10. Distinct'
    <3>1. SUFFICES ASSUME NEW g \in Given', NEW h \in Given', NameOf(g)' = NameOf(h)'  PROVE g = h
      BY <2>1 DEF Distinct
    <3>2. ASSUME NEW k \in Given'
          PROVE  /\ k[2] \in 1 .. N + 1 /\ k[1] \in {"code", "data"} /\ k = <<k[1], k[2]>>
                 /\ k[2] \in 1 .. N => k \in Given /\ NameOf(k)' = NameOf(k) /\ NameOf(k) \in used
                 /\ k[2] = N + 1 => NameOf(k)' = (IF k[1] = "code" THEN code ELSE given_) /\ NameOf(k)' \notin used
                 /\ k[2] = N + 1 /\ k[1] = "data" => NameOf(k)' # code
      <4>1. /\ k \in {"code", "data"} \X DOMAIN codeNames' /\ (k[1] = "data" => dataNames'[k[2]] # <<>>)
        BY DEF Given
      <4>2. k[2] \in 1 .. N + 1 /\ k[1] \in {"code", "data"} /\ k = <<k[1], k[2]>>  BY <2>8, <4>1
      <4>3. NameOf(k)' = IF k[1] = "code" THEN codeNames'[k[2]] ELSE dataNames'[k[2]]  BY DEF NameOf
      <4>4. ASSUME k[2] \in 1 .. N  PROVE k \in Given /\ NameOf(k)' = NameOf(k) /\ NameOf(k) \in used
        <5>1. codeNames'[k[2]] = codeNames[k[2]] /\ dataNames'[k[2]] = dataNames[k[2]]  BY <2>6, <2>7, <4>4
        <5>2. k \in Given  BY <1>2, <4>1, <4>2, <4>4, <5>1 DEF Given
        <5>3. NameOf(k)' = NameOf(k)  BY <4>3, <5>1 DEF NameOf
        <5>4. NameOf(k) \in used
          <6>1. codeNames[k[2]] \in used /\ (dataNames[k[2]] = <<>> \/ dataNames[k[2]] \in used)  BY <1>2, <4>4
          <6> QED  BY <4>1, <4>2, <5>1, <6>1 DEF NameOf
        <5> QED  BY <5>2, <5>3, <5>4
      <4>5. ASSUME k[2] = N + 1
            PROVE  /\ NameOf(k)' = (IF k[1] = "code" THEN code ELSE given_) /\ NameOf(k)' \notin used
                   /\ k[1] = "data" => NameOf(k)' # code
        <5>1. codeNames'[k[2]] = code /\ dataNames'[k[2]] = given_  BY <2>6, <2>7, <4>5
        <5> QED  BY <2>1, <2>5, <4>1, <4>2, <4>3, <5>1
      <4> QED  BY <4>2, <4>4, <4>5
    <3>3. CASE g[2] \in 1 .. N /\ h[2] \in 1 .. N
      <4>1. g \in Given /\ h \in Given /\ NameOf(g) = NameOf(h)  BY <3>1, <3>2, <3>3
      <4> QED  BY <4>1 DEF NamesInv, Distinct
    <3>4. CASE g[2] = N + 1 /\ h[2] = N + 1
      <4>1. g[1] = h[1]  BY <3>1, <3>2, <3>4
      <4> QED  BY <3>2, <3>4, <4>1
    <3>5. CASE g[2] \in 1 .. N /\ h[2] = N + 1  BY <3>1, <3>2, <3>5
    <3>6. CASE g[2] = N + 1 /\ h[2] \in 1 .. N  BY <3>1, <3>2, <3>6
    <3>7. \A m \in 1 .. N + 1 : m \in 1 .. N \/ m = N + 1  BY <1>2
    <3> QED  BY <3>2, <3>3, <3>4, <3>5, <3>6, <3>7
  <2>11. ASSUME NEW name \in used'  PROVE name \in Seq(ToSet(name))
    <3>1. code \in Seq(ToSet(code))
      <4>1. PICK S : code \in Seq(S)  BY <1>4
      <4> QED  BY <4>1, OwnElements
    <3>2. datum \in Seq(ToSet(datum))
      <4>1. PICK S : datum \in Seq(S)  BY <1>5
      <4> QED  BY <4>1, OwnElements
    <3>3. name \in used \/ name = code \/ name = datum  BY <2>1
    <3>4. name \in used => name \in Seq(ToSet(name))  BY DEF NamesInv
    <3> QED  BY <3>1, <3>2, <3>3, <3>4
  <2> QED  BY <1>1, <2>1, <2>6, <2>7, <2>9, <2>10, <2>11 DEF NamesInv
<1> QED  BY <1>7, <1>8

\* A run that goes on has looked for all of them in the file.
LEMMA CheckFileKeepsNames ==
  ASSUME NamesInv, CheckFile, UNCHANGED plans  PROVE NamesInv'
<1>1. /\ pc = "name" /\ NextPlugin \notin Plugins /\ UNCHANGED <<input, given>>
      /\ pc' = IF \E i \in Plugins : {codeNames[i], dataNames[i]} \cap NamesOf(input.segments) # {}
               THEN "failed" ELSE "named"
  BY DEF CheckFile
<1>2. input' = input /\ codeNames' = codeNames /\ dataNames' = dataNames /\ used' = used  BY <1>1 DEF given
<1>3. pc' \in {"failed", "named"} /\ (pc' = "named" => \A i \in Plugins : {codeNames[i], dataNames[i]} \cap NamesOf(input.segments) = {})
  BY <1>1
<1>4. DOMAIN codeNames \subseteq Plugins  BY NamesAre
<1>5. Given' = Given /\ \A g : NameOf(g)' = NameOf(g)  BY <1>2 DEF Given, NameOf
<1>6. ASSUME pc' = "named", NEW g \in Given  PROVE NameOf(g) \notin NamesOf(input.segments)
  <2>1. g[2] \in Plugins  BY <1>4 DEF Given
  <2>2. {codeNames[g[2]], dataNames[g[2]]} \cap NamesOf(input.segments) = {}  BY <1>3, <1>6, <2>1
  <2>3. NameOf(g) \in {codeNames[g[2]], dataNames[g[2]]}  BY DEF NameOf
  <2> QED  BY <2>2, <2>3
<1>7. Distinct'
  <2>1. \A g, h \in Given : NameOf(g) = NameOf(h) => g = h  BY DEF NamesInv, Distinct
  <2>2. pc' \notin {"name", "failed"} => pc' = "named"  BY <1>3
  <2>3. NamesOf(input.segments)' = NamesOf(input.segments)  BY <1>2
  <2> QED  BY <1>5, <1>6, <2>1, <2>2, <2>3 DEF Distinct
<1>8. NamesTyped' <=> NamesTyped  BY <1>2 DEF NamesTyped
<1>9. pc = "name" => plans' = <<>>  BY DEF NamesInv
<1>10. Len(codeNames) = Len(input.plugins)
  <2>1. NextPlugin = Len(codeNames) + 1 /\ NextPlugin \notin 1 .. Len(input.plugins)  BY <1>1 DEF NextPlugin, Plugins
  <2>2. Len(codeNames) \in Nat /\ Len(input.plugins) \in Nat /\ Len(codeNames) <= Len(input.plugins)  BY NamesAre
  <2> QED  BY <2>1, <2>2
<1> QED  BY <1>1, <1>2, <1>7, <1>8, <1>9, <1>10 DEF NamesInv

\* Nothing later gives names.
LEMMA LaterKeepsNames ==
  ASSUME NamesInv, UNCHANGED <<input, given>>, pc \notin {"name", "failed"}, pc' \notin {"name", "named"}
  PROVE  NamesInv'
<1>1. input' = input /\ codeNames' = codeNames /\ dataNames' = dataNames /\ used' = used  BY DEF given
<1>2. Given' = Given /\ (\A g : NameOf(g)' = NameOf(g)) /\ NamesOf(input.segments)' = NamesOf(input.segments)
  BY <1>1 DEF Given, NameOf
<1>3. Distinct'  BY <1>2 DEF NamesInv, Distinct
<1>4. NamesTyped' <=> NamesTyped  BY <1>1 DEF NamesTyped
<1> QED  BY <1>1, <1>3, <1>4 DEF NamesInv

-----------------------------------------------------------------------------
(* What is added.                                                           *)

\* Every plugin's code is planned, and its data if it has any, under the names
\* that were given.
LEMMA PlansAreMade ==
  ASSUME NamesInv, MakePlans  PROVE PlansInv'
<1> DEFINE withData == {j \in Plugins : dataNames[j] # <<>>}
           wanted == {2 * i : i \in Plugins} \cup {2 * i + 1 : i \in withData}
           order  == Ascending(wanted)
           N == Cardinality(wanted)
           Of(w)  == LET i == w \div 2
                     IN  IF w = 2 * i
                         THEN [name |-> codeNames[i], size |-> input.plugins[i].code, writable |-> FALSE]
                         ELSE [name |-> dataNames[i], size |-> input.plugins[i].data, writable |-> TRUE]
           Whose(w) == <<IF w = 2 * (w \div 2) THEN "code" ELSE "data", w \div 2>>
<1>1. /\ pc = "named" /\ pc' = "signature" /\ UNCHANGED <<input, given>>
      /\ plans' = [n \in DOMAIN order |-> Of(order[n])]
  BY DEF MakePlans
<1>2. /\ input' = input /\ used' = used /\ NamesOf(input.segments)' = NamesOf(input.segments)
  BY <1>1 DEF given
<1>3. /\ Len(input.plugins) \in Nat /\ Plugins = 1 .. Len(input.plugins)
      /\ DOMAIN codeNames = Plugins /\ DOMAIN dataNames = Plugins
      /\ \A i \in Plugins : /\ input.plugins[i] \in Plugin
                            /\ codeNames[i] \in used /\ (dataNames[i] = <<>> \/ dataNames[i] \in used)
  <2>1. Len(codeNames) = Len(input.plugins)  BY <1>1 DEF NamesInv
  <2> QED  BY <2>1, NamesAre
<1>4. \A i \in Plugins : dataNames[i] # <<>> => input.plugins[i].data # 0  BY <1>3 DEF NamesInv, NamesTyped
<1>5. ASSUME NEW w \in wanted
      PROVE  /\ w \in Nat /\ w <= 2 * Len(input.plugins) + 1
             /\ w \div 2 \in Plugins /\ (w # 2 * (w \div 2) => w = 2 * (w \div 2) + 1 /\ w \div 2 \in withData)
  <2>1. CASE w \in {2 * i : i \in Plugins}
    <3>1. PICK i \in Plugins : w = 2 * i  BY <2>1
    <3>2. i \in 1 .. Len(input.plugins)  BY <1>3
    <3>3. w \div 2 = i /\ w \in Nat /\ w <= 2 * Len(input.plugins) + 1  BY <1>3, <3>1, <3>2
    <3> QED  BY <3>1, <3>3
  <2>2. CASE w \in {2 * i + 1 : i \in withData}
    <3>1. PICK i \in withData : w = 2 * i + 1  BY <2>2
    <3>2. i \in 1 .. Len(input.plugins)  BY <1>3
    <3>3. w \div 2 = i /\ w \in Nat /\ w <= 2 * Len(input.plugins) + 1  BY <1>3, <3>1, <3>2
    <3> QED  BY <3>1, <3>3
  <2> QED  BY <2>1, <2>2
<1>6. IsFiniteSet(wanted) /\ wanted \subseteq Int
  <2> HIDE DEF wanted
  <2> DEFINE U == 0 .. 2 * Len(input.plugins) + 1
  <2>1. wanted \in SUBSET U  BY <1>3, <1>5
  <2>2. IsFiniteSet(U)
    <3>1. 0 \in Int /\ 2 * Len(input.plugins) + 1 \in Int  BY <1>3
    <3> QED  BY <3>1, FS_Interval
  <2>3. wanted \subseteq Int  BY <1>5
  <2> HIDE DEF U
  <2> QED  BY <2>1, <2>2, <2>3, FS_Subset
<1>7. Plugins # {} /\ wanted # {}
  <2>1. Len(input.plugins) # 0
    <3>1. input.plugins # <<>> /\ input.plugins \in Seq(Plugin)  BY Constants DEF NamesInv
    <3> QED  BY <3>1
  <2>2. 1 \in Plugins  BY <1>3, <2>1
  <2> QED  BY <2>2
<1>8. ASSUME NEW w \in wanted
      PROVE  /\ Of(w) \in Plan(used) /\ Whose(w) \in Given /\ Of(w).name = NameOf(Whose(w))
  <2>1. w \div 2 \in Plugins /\ (w # 2 * (w \div 2) => w \div 2 \in withData)
    <3> HIDE DEF wanted, withData
    <3> QED  BY <1>5
  <2> DEFINE i == w \div 2
  <2>2. i \in Plugins /\ (w # 2 * i => dataNames[i] # <<>>)  BY <2>1
  <2> HIDE DEF i, wanted, withData
  <2>3. input.plugins[i] \in Plugin /\ codeNames[i] \in used /\ (dataNames[i] = <<>> \/ dataNames[i] \in used)
    BY <1>3, <2>2
  <2>4. input.plugins[i].code \in Nat \ {0} /\ input.plugins[i].data \in Nat  BY <2>3 DEF Plugin
  <2>5. CASE w = 2 * i
    <3>1. Of(w) = [name |-> codeNames[i], size |-> input.plugins[i].code, writable |-> FALSE]  BY <2>5 DEF i
    <3>2. Whose(w) = <<"code", i>>  BY <2>5 DEF i
    <3>3. Of(w) \in Plan(used)  BY <2>3, <2>4, <3>1 DEF Plan
    <3>4. Whose(w) \in Given /\ NameOf(Whose(w)) = codeNames[i]  BY <1>3, <2>2, <3>2 DEF Given, NameOf
    <3> QED  BY <3>1, <3>3, <3>4
  <2>6. CASE w # 2 * i
    <3>1. Of(w) = [name |-> dataNames[i], size |-> input.plugins[i].data, writable |-> TRUE]  BY <2>6 DEF i
    <3>2. Whose(w) = <<"data", i>>  BY <2>6 DEF i
    <3>3. dataNames[i] \in used /\ input.plugins[i].data \in Nat \ {0}  BY <1>4, <2>2, <2>3, <2>4, <2>6
    <3>4. Of(w) \in Plan(used)  BY <3>1, <3>3 DEF Plan
    <3>5. Whose(w) \in Given /\ NameOf(Whose(w)) = dataNames[i]  BY <1>3, <2>2, <2>6, <3>2 DEF Given, NameOf
    <3> QED  BY <3>1, <3>4, <3>5
  <2> QED  BY <2>5, <2>6
<1>9. ASSUME NEW v \in wanted, NEW w \in wanted, Whose(v) = Whose(w)  PROVE v = w
  <2>1. v \div 2 = w \div 2 /\ (v = 2 * (v \div 2) <=> w = 2 * (w \div 2))  BY <1>9
  <2>2. v \in Nat /\ (v # 2 * (v \div 2) => v = 2 * (v \div 2) + 1)
    <3> HIDE DEF wanted, withData
    <3> QED  BY <1>5
  <2>3. w \in Nat /\ (w # 2 * (w \div 2) => w = 2 * (w \div 2) + 1)
    <3> HIDE DEF wanted, withData
    <3> QED  BY <1>5
  <2> QED  BY <2>1, <2>2, <2>3
<1> HIDE DEF wanted, Of, Whose
<1>10. /\ N \in Nat /\ order \in [1 .. N -> wanted]
       /\ \A m, n \in 1 .. N : m < n => order[m] < order[n]
       /\ \A x \in wanted : \E n \in 1 .. N : order[n] = x
  BY <1>6, AscendingLists
<1> HIDE DEF order, N
<1>11. DOMAIN order = 1 .. N /\ N # 0  BY <1>7, <1>10
<1>12. DOMAIN plans' = 1 .. N /\ \A n \in 1 .. N : plans'[n] = Of(order[n]) /\ order[n] \in wanted
  BY <1>1, <1>10, <1>11
<1>13. plans' \in Seq(Plan(used)) /\ Len(plans') = N
  <2>1. plans' = [n \in 1 .. N |-> Of(order[n])]  BY <1>1, <1>11
  <2>2. \A n \in 1 .. N : Of(order[n]) \in Plan(used)  BY <1>8, <1>12
  <2>3. plans' \in [1 .. N -> Plan(used)]  BY <2>1, <2>2
  <2> QED  BY <1>10, <2>3
<1>14. Plans' = 1 .. N  BY <1>13 DEF Plans
<1>15. ASSUME NEW m \in 1 .. N, NEW n \in 1 .. N, plans'[m].name = plans'[n].name  PROVE m = n
  <2>1. NameOf(Whose(order[m])) = NameOf(Whose(order[n]))  BY <1>8, <1>12, <1>15
  <2>2. Whose(order[m]) \in Given /\ Whose(order[n]) \in Given  BY <1>8, <1>12
  <2>3. Whose(order[m]) = Whose(order[n])  BY <2>1, <2>2 DEF NamesInv, Distinct
  <2>4. order[m] = order[n]  BY <1>9, <1>12, <2>3
  <2>5. order[m] \in Int /\ order[n] \in Int  BY <1>6, <1>12
  <2> QED  BY <1>10, <2>4, <2>5
<1>16. ASSUME NEW n \in 1 .. N  PROVE plans'[n].name \notin NamesOf(input.segments)
  <2>1. Whose(order[n]) \in Given /\ plans'[n].name = NameOf(Whose(order[n]))  BY <1>8, <1>12
  <2>2. pc \notin {"name", "failed"}  BY <1>1
  <2> QED  BY <2>1, <2>2 DEF NamesInv, Distinct
<1>17. plans' # <<>>  BY <1>11, <1>13
<1>18. Plan(used)' = Plan(used)  BY <1>2
<1> QED  BY <1>2, <1>13, <1>14, <1>15, <1>16, <1>17 DEF PlansInv

-----------------------------------------------------------------------------
(* Segments and what is in them.                                            *)

\* A segment's fields.
LEMMA SegmentIs ==
  ASSUME NEW N, NEW g \in Segment(N)
  PROVE  /\ g.name \in N /\ g.va \in Nat /\ g.vsize \in Nat /\ g.off \in Nat /\ g.fsize \in Nat
         /\ g.sections \in Seq(Section(N)) /\ RoundedEnd(g) \in Nat /\ g.va + g.vsize <= RoundedEnd(g)
         /\ Len(g.sections) \in Nat /\ DOMAIN g.sections = 1 .. Len(g.sections)
         /\ \A n \in DOMAIN g.sections :
              /\ g.sections[n] \in Section(N) /\ g.sections[n].name \in N
              /\ g.sections[n].va \in Nat /\ g.sections[n].size \in Nat /\ g.sections[n].off \in Nat
<1>1. /\ g.name \in N /\ g.va \in Nat /\ g.vsize \in Nat /\ g.off \in Nat /\ g.fsize \in Nat
      /\ g.sections \in Seq(Section(N))
  BY DEF Segment
<1>2. RoundedEnd(g) \in Nat /\ g.va + g.vsize <= RoundedEnd(g)
  <2>1. g.va + g.vsize \in Nat  BY <1>1
  <2> QED  BY <2>1, AlignUpNat, Constants DEF RoundedEnd
<1>3. /\ Len(g.sections) \in Nat /\ DOMAIN g.sections = 1 .. Len(g.sections)
      /\ \A n \in 1 .. Len(g.sections) : g.sections[n] \in Section(N)
  BY <1>1
<1>4. \A s \in Section(N) : s.name \in N /\ s.va \in Nat /\ s.size \in Nat /\ s.off \in Nat  BY DEF Section
<1> QED  BY <1>1, <1>2, <1>3, <1>4

\* The segments of a file.
LEMMA PartsAre ==
  ASSUME NEW N, NEW parts \in Seq(Segment(N))
  PROVE  /\ Len(parts) \in Nat /\ DOMAIN parts = 1 .. Len(parts)
         /\ \A j \in DOMAIN parts : parts[j] \in Segment(N)
<1>1. Len(parts) \in Nat /\ DOMAIN parts = 1 .. Len(parts) /\ \A j \in 1 .. Len(parts) : parts[j] \in Segment(N)
  OBVIOUS
<1> QED  BY <1>1

\* More names make no less of them.
LEMMA MoreNames ==
  ASSUME NEW N, NEW M, N \subseteq M
  PROVE  Segment(N) \subseteq Segment(M) /\ Seq(Segment(N)) \subseteq Seq(Segment(M))
<1>1. Section(N) \subseteq Section(M)  BY DEF Section
<1>2. Seq(Section(N)) \subseteq Seq(Section(M))  BY <1>1, SeqMonotonic
<1>3. Segment(N) \subseteq Segment(M)  BY <1>2 DEF Segment
<1> DEFINE S == Segment(N)
           T == Segment(M)
<1>4. S \subseteq T  BY <1>3
<1> HIDE DEF S, T
<1>5. Seq(S) \subseteq Seq(T)  BY <1>4, SeqMonotonic
<1> QED  BY <1>3, <1>5 DEF S, T

\* The sections of a segment move with what they are offsets of.
LEMMA MoveSectionsIs ==
  ASSUME NEW N, NEW g \in Segment(N), NEW point \in Nat, NEW by \in Nat
  PROVE  LET h == MoveSections(g, point, by)
         IN  /\ h \in Segment(N)
             /\ h.name = g.name /\ h.va = g.va /\ h.vsize = g.vsize /\ h.off = g.off /\ h.fsize = g.fsize
             /\ Len(h.sections) = Len(g.sections) /\ DOMAIN h.sections = DOMAIN g.sections
             /\ \A n \in DOMAIN g.sections : /\ h.sections[n].name = g.sections[n].name
                                             /\ h.sections[n].off = Moved(g.sections[n].off, point, by)
             /\ (\A n \in DOMAIN g.sections : g.sections[n].off < point) => h = g
<1> DEFINE s == g.sections
           t == [n \in DOMAIN s |-> [s[n] EXCEPT !.off = Moved(s[n].off, point, by)]]
           h == MoveSections(g, point, by)
<1>1. h = [g EXCEPT !.sections = t]  BY DEF MoveSections
<1>2. /\ Len(s) \in Nat /\ DOMAIN s = 1 .. Len(s) /\ s \in Seq(Section(N))
      /\ \A n \in DOMAIN s : s[n] \in Section(N) /\ s[n].off \in Nat
  BY SegmentIs
<1>3. /\ g = [name |-> g.name, va |-> g.va, vsize |-> g.vsize, off |-> g.off, fsize |-> g.fsize, sections |-> s]
      /\ h = [name |-> g.name, va |-> g.va, vsize |-> g.vsize, off |-> g.off, fsize |-> g.fsize, sections |-> t]
  BY <1>1 DEF Segment
<1>4. g.name \in N /\ g.va \in Nat /\ g.vsize \in Nat /\ g.off \in Nat /\ g.fsize \in Nat  BY SegmentIs
<1> HIDE DEF s, h
<1>5. ASSUME NEW n \in DOMAIN s
      PROVE  t[n] \in Section(N) /\ t[n].name = s[n].name /\ t[n].off = Moved(s[n].off, point, by)
             /\ (s[n].off < point => t[n] = s[n])
  <2>1. Moved(s[n].off, point, by) \in Nat /\ (s[n].off < point => Moved(s[n].off, point, by) = s[n].off)
    BY <1>2 DEF Moved
  <2>2. t[n] = [s[n] EXCEPT !.off = Moved(s[n].off, point, by)]  OBVIOUS
  <2> HIDE DEF t
  <2>3. s[n] \in Section(N)  BY <1>2
  <2> QED  BY <2>1, <2>2, <2>3 DEF Section
<1>6. DOMAIN t = 1 .. Len(s)  BY <1>2
<1>8. ASSUME \A n \in DOMAIN s : s[n].off < point  PROVE t = s
  <2>1. \A n \in 1 .. Len(s) : t[n] = s[n]  BY <1>2, <1>5, <1>8
  <2>2. t = [n \in 1 .. Len(s) |-> t[n]] /\ s = [n \in 1 .. Len(s) |-> s[n]]  BY <1>2
  <2> QED  BY <2>1, <2>2
<1> HIDE DEF t
<1>7. t \in Seq(Section(N)) /\ Len(t) = Len(s)
  <2>1. \A n \in 1 .. Len(s) : t[n] \in Section(N)  BY <1>2, <1>5
  <2>2. t = [n \in 1 .. Len(s) |-> t[n]]  BY <1>6 DEF t
  <2>3. t \in [1 .. Len(s) -> Section(N)]  BY <2>1, <2>2
  <2> QED  BY <1>2, <2>3
<1>9. h \in Segment(N)  BY <1>3, <1>4, <1>7 DEF Segment
<1>10. h.name = g.name /\ h.va = g.va /\ h.vsize = g.vsize /\ h.off = g.off /\ h.fsize = g.fsize /\ h.sections = t
  BY <1>3
<1>11. t = s => h = g  BY <1>3
<1> QED  BY <1>2, <1>5, <1>6, <1>7, <1>8, <1>9, <1>10, <1>11 DEF s, h

\* What is known of __LINKEDIT and of the others.
LEMMA LastIs ==
  ASSUME NEW N, NEW parts \in Seq(Segment(N)), LinkeditLast(parts), NEW l \in Linkedits(parts)
  PROVE  /\ l \in 1 .. Len(parts) /\ Linkedits(parts) = {l} /\ parts[l] \in Segment(N)
         /\ parts[l].name = Linkedit /\ parts[l].va % Page = 0 /\ parts[l].sections = <<>>
         /\ \A j \in 1 .. Len(parts) : j # l =>
              /\ parts[j] \in Segment(N) /\ parts[j].name # Linkedit /\ RoundedEnd(parts[j]) <= parts[l].va
              /\ parts[j].off < parts[l].off /\ parts[j].off + parts[j].fsize <= parts[l].off
              /\ \A n \in DOMAIN parts[j].sections : parts[j].sections[n].off < parts[l].off
<1>1. /\ Len(parts) \in Nat /\ DOMAIN parts = 1 .. Len(parts)
      /\ \A j \in DOMAIN parts : parts[j] \in Segment(N)
  BY PartsAre
<1>2. l \in DOMAIN parts /\ parts[l].name = Linkedit  BY DEF Linkedits
<1>3. /\ parts[l].va % Page = 0 /\ parts[l].sections = <<>>
      /\ \A j \in DOMAIN parts \ {l} :
           /\ parts[j].name # Linkedit /\ RoundedEnd(parts[j]) <= parts[l].va
           /\ parts[j].off < parts[l].off /\ parts[j].off + parts[j].fsize <= parts[l].off
           /\ \A n \in DOMAIN parts[j].sections : parts[j].sections[n].off < parts[l].off
  BY DEF LinkeditLast
<1>4. Linkedits(parts) = {l}  BY <1>2, <1>3 DEF Linkedits
<1> QED  BY <1>1, <1>2, <1>3, <1>4

Behind(parts, l) ==
  /\ parts[l].va % Page = 0 /\ parts[l].sections = <<>>
  /\ \A j \in 1 .. Len(parts) : j # l =>
       /\ parts[j].name # Linkedit /\ RoundedEnd(parts[j]) <= parts[l].va
       /\ parts[j].off < parts[l].off /\ parts[j].off + parts[j].fsize <= parts[l].off
       /\ \A n \in DOMAIN parts[j].sections : parts[j].sections[n].off < parts[l].off

\* And how to show it.
LEMMA LastFrom ==
  ASSUME NEW N, NEW parts \in Seq(Segment(N)), NEW l \in 1 .. Len(parts),
         parts[l].name = Linkedit, Behind(parts, l)
  PROVE  LinkeditLast(parts) /\ Linkedits(parts) = {l}
<1>1. Len(parts) \in Nat /\ DOMAIN parts = 1 .. Len(parts)  BY PartsAre
<1>2. Linkedits(parts) = {l}  BY <1>1 DEF Linkedits, Behind
<1> QED  BY <1>1, <1>2 DEF LinkeditLast, Behind

Apart(g, h) ==
  /\ RoundedEnd(g) <= h.va \/ RoundedEnd(h) <= g.va
  /\ g.off + g.fsize <= h.off \/ h.off + h.fsize <= g.off

\* Behind the others, __LINKEDIT is apart from them.
LEMMA ApartFrom ==
  ASSUME NEW N, NEW parts \in Seq(Segment(N)), LinkeditLast(parts),
         \A i, j \in 1 .. Len(parts) : i # j /\ i \notin Linkedits(parts) /\ j \notin Linkedits(parts)
                                         => Apart(parts[i], parts[j])
  PROVE  SegmentsApart(parts)
<1>1. DOMAIN parts = 1 .. Len(parts)  BY PartsAre
<1>2. SUFFICES ASSUME NEW i \in 1 .. Len(parts), NEW j \in 1 .. Len(parts), i # j
               PROVE  Apart(parts[i], parts[j])
  BY <1>1 DEF SegmentsApart, Apart
<1>3. CASE i \in Linkedits(parts)
  <2>1. RoundedEnd(parts[j]) <= parts[i].va /\ parts[j].off + parts[j].fsize <= parts[i].off
    BY <1>2, <1>3, LastIs
  <2> QED  BY <2>1 DEF Apart
<1>4. CASE j \in Linkedits(parts)
  <2>1. RoundedEnd(parts[i]) <= parts[j].va /\ parts[i].off + parts[i].fsize <= parts[j].off
    BY <1>2, <1>4, LastIs
  <2> QED  BY <2>1 DEF Apart
<1> QED  BY <1>2, <1>3, <1>4

\* Any two segments are apart.
LEMMA ApartIs ==
  ASSUME NEW N, NEW parts \in Seq(Segment(N)), SegmentsApart(parts)
  PROVE  \A i, j \in 1 .. Len(parts) : i # j => Apart(parts[i], parts[j])
<1>1. DOMAIN parts = 1 .. Len(parts)  BY PartsAre
<1> QED  BY <1>1 DEF SegmentsApart, Apart

\* Where a table is.
Placed(parts, bytes, at, l, t) ==
  /\ at[t] \in [off: Nat, size: Nat \ {0}] /\ at[t].off \in Nat /\ at[t].size \in Nat \ {0} /\ Len(bytes) \in Nat
  /\ parts[l].off <= at[t].off /\ at[t].off + at[t].size <= parts[l].off + parts[l].fsize
  /\ at[t].off + at[t].size <= Len(bytes)
  /\ bytes[at[t].off + 1] = <<t, "start">> /\ bytes[at[t].off + at[t].size] = <<t, "end">>
  /\ \A u \in DOMAIN at : t # u => at[t].off + at[t].size <= at[u].off \/ at[u].off + at[u].size <= at[t].off

\* The tables are in __LINKEDIT,
LEMMA TablesAre ==
  ASSUME NEW N, NEW parts \in Seq(Segment(N)), NEW bytes, NEW at, NEW entries, NEW where, NEW added \in Nat,
         Sound(parts, bytes, at, entries, where, added), NEW l \in Linkedits(parts), NEW t \in DOMAIN at
  PROVE  Placed(parts, bytes, at, l, t)
<1>1. /\ at[t] \in [off: Nat, size: Nat \ {0}] /\ TableHeld(parts, bytes, t, at[t])
      /\ \A u \in DOMAIN at : t # u => at[t].off + at[t].size <= at[u].off \/ at[u].off + at[u].size <= at[t].off
  BY DEF Sound, TablesHeld
<1>2. /\ parts[l].off <= at[t].off /\ at[t].off + at[t].size <= parts[l].off + parts[l].fsize
      /\ bytes[at[t].off + 1] = <<t, "start">> /\ bytes[at[t].off + at[t].size] = <<t, "end">>
  <2>1. Linkedits(parts) = {l}
    <3>1. LinkeditLast(parts)  BY DEF Sound
    <3> QED  BY <3>1, LastIs
  <2> QED  BY <1>1, <2>1 DEF TableHeld
<1>3. at[t].off \in Nat /\ at[t].size \in Nat \ {0}  BY <1>1
<1>4. l \in DOMAIN parts /\ parts[l] \in Segment(N)
  <2>1. l \in DOMAIN parts  BY DEF Linkedits
  <2> QED  BY <2>1, PartsAre
<1>5. parts[l].off + parts[l].fsize <= Len(bytes)  BY <1>4 DEF Sound, SegmentsHeld
<1>6. Len(bytes) \in Nat
  <2>1. bytes \in Seq(ToSet(bytes))  BY DEF Sound
  <2> QED  BY <2>1
<1>7. parts[l].off \in Nat /\ parts[l].fsize \in Nat  BY <1>4, SegmentIs
<1>8. at[t].off + at[t].size <= Len(bytes)  BY <1>2, <1>3, <1>5, <1>6, <1>7
<1> QED  BY <1>1, <1>2, <1>3, <1>6, <1>8 DEF Placed

\* and without it there are none.
LEMMA NoTables ==
  ASSUME NEW parts, NEW bytes, NEW at, NEW entries, NEW where, NEW added,
         Sound(parts, bytes, at, entries, where, added), Linkedits(parts) = {}
  PROVE  DOMAIN at = {}
BY DEF Sound, TablesHeld, TableHeld

\* What holds of every segment.
LEMMA HeldIs ==
  ASSUME NEW N, NEW parts \in Seq(Segment(N)), NEW bytes, NEW added, SegmentsHeld(parts, bytes, added)
  PROVE  \A j \in 1 .. Len(parts) :
           /\ parts[j].off + parts[j].fsize <= Len(bytes)
           /\ parts[j].fsize <= parts[j].vsize + (IF parts[j].name = Linkedit THEN added ELSE 0)
<1>1. DOMAIN parts = 1 .. Len(parts)  BY PartsAre
<1> QED  BY <1>1 DEF SegmentsHeld

\* Some number of a finite set is the greatest.
LEMMA Greatest ==
  ASSUME NEW S, IsFiniteSet(S), S \subseteq Int, S # {}
  PROVE  \E n \in S : \A m \in S : m <= n
<1> DEFINE N == Cardinality(S)
           s == Ascending(S)
<1>1. /\ s \in [1 .. N -> S] /\ N \in Nat
      /\ \A m, n \in 1 .. N : m < n => s[m] < s[n]
      /\ \A x \in S : \E n \in 1 .. N : s[n] = x
  BY AscendingLists
<1> HIDE DEF s, N
<1>2. N \in 1 .. N
  <2>1. PICK x \in S : TRUE  OBVIOUS
  <2>2. PICK n \in 1 .. N : s[n] = x  BY <1>1, <2>1
  <2> QED  BY <1>1, <2>2
<1>3. \A m \in S : m <= s[N]
  <2> TAKE m \in S
  <2>1. PICK k \in 1 .. N : s[k] = m  BY <1>1
  <2>2. k = N \/ s[k] < s[N]  BY <1>1, <1>2
  <2>3. s[k] \in Int /\ s[N] \in Int  BY <1>1, <1>2
  <2> QED  BY <2>1, <2>2, <2>3
<1> QED  BY <1>1, <1>2, <1>3

\* The sections' offsets are those of the sections.
LEMMA SameOffsets ==
  ASSUME DOMAIN segments' = DOMAIN segments, \A j \in DOMAIN segments : segments'[j].sections = segments[j].sections
  PROVE  ContentOffsets' = ContentOffsets
BY DEF ContentOffsets

\* They are numbers.
LEMMA OffsetsAre ==
  ASSUME NEW N, segments \in Seq(Segment(N))
  PROVE  ContentOffsets \subseteq Nat
<1>1. ASSUME NEW o \in ContentOffsets  PROVE o \in Nat
  <2>1. PICK j \in DOMAIN segments : \E n \in DOMAIN segments[j].sections : o = segments[j].sections[n].off
    BY DEF ContentOffsets
  <2>2. segments[j] \in Segment(N)  BY PartsAre
  <2> QED  BY <2>1, <2>2, SegmentIs
<1> QED  BY <1>1

OffsetsIn(parts) == (UNION {{parts[j].sections[n].off : n \in DOMAIN parts[j].sections} : j \in DOMAIN parts}) \ {0}

\* Each is the offset of some section.
LEMMA OffsetsFrom ==
  ASSUME NEW parts, NEW o \in OffsetsIn(parts)
  PROVE  \E j \in DOMAIN parts : \E n \in DOMAIN parts[j].sections : o = parts[j].sections[n].off
<1> DEFINE Of(j) == {parts[j].sections[n].off : n \in DOMAIN parts[j].sections}
           all == {Of(j) : j \in DOMAIN parts}
<1>1. PICK T \in all : o \in T
  <2>1. o \in (UNION all) \ {0}  BY DEF OffsetsIn
  <2> HIDE DEF all
  <2> QED  BY <2>1
<1>2. PICK j \in DOMAIN parts : T = Of(j)
  <2> HIDE DEF Of
  <2> QED  BY <1>1
<1>3. o \in Of(j)  BY <1>1, <1>2
<1> QED  BY <1>3

\* And all of them that are not 0.
LEMMA OffsetsOf ==
  /\ \A j \in DOMAIN segments : \A n \in DOMAIN segments[j].sections :
       segments[j].sections[n].off # 0 => segments[j].sections[n].off \in ContentOffsets
  /\ \A o \in ContentOffsets : \E j \in DOMAIN segments : \E n \in DOMAIN segments[j].sections :
       o = segments[j].sections[n].off
<1> DEFINE Of(j) == {segments[j].sections[n].off : n \in DOMAIN segments[j].sections}
           all == {Of(j) : j \in DOMAIN segments}
<1>1. ContentOffsets = (UNION all) \ {0}  BY DEF ContentOffsets
<1>2. ASSUME NEW j \in DOMAIN segments, NEW n \in DOMAIN segments[j].sections, segments[j].sections[n].off # 0
      PROVE  segments[j].sections[n].off \in ContentOffsets
  <2>1. segments[j].sections[n].off \in Of(j)  OBVIOUS
  <2> HIDE DEF Of
  <2>2. Of(j) \in all  OBVIOUS
  <2> HIDE DEF all
  <2>3. segments[j].sections[n].off \in UNION all  BY <2>1, <2>2
  <2> QED  BY <1>1, <1>2, <2>3
<1>3. ASSUME NEW o \in ContentOffsets
      PROVE  \E j \in DOMAIN segments : \E n \in DOMAIN segments[j].sections : o = segments[j].sections[n].off
  <2>1. o \in OffsetsIn(segments)  BY DEF ContentOffsets, OffsetsIn
  <2> QED  BY <2>1, OffsetsFrom
<1> QED  BY <1>2, <1>3

-----------------------------------------------------------------------------
(* What is known before a step.                                             *)

Steps == {"name", "named", "signature", "room", "place", "shift", "caves", "code fixups", "data fixups", "done", "failed"}

\* The type invariant is part of the others.
LEMMA TypeFrom ==
  ASSUME NamesInv, PlansInv, FileInv, pc \in Steps  PROVE TypeOK
<1>1. NamesTyped /\ plans \in Seq(Plan(used)) /\ segments \in Seq(Segment(NamesNow)) /\ commandsEnd \in Nat
  BY DEF NamesInv, PlansInv, FileInv
<1>2. DOMAIN tables \subseteq Tables /\ starts \in Seq(Nat) /\ SegmentsHeld(segments, data, Len(starts) - Len(input.starts))
  BY DEF FileInv, Sound
<1>3. \A j \in DOMAIN segments : segments[j].off + segments[j].fsize <= Len(data)  BY <1>2 DEF SegmentsHeld
<1> QED  BY <1>1, <1>2, <1>3 DEF TypeOK, Steps

\* The file, as it was read.
LEMMA InputIs ==
  ASSUME input \in Inputs
  PROVE  /\ Linked(input) /\ input.segments \in Seq(Segment(NamesOf(input.segments)))
         /\ input.commandsEnd \in Nat /\ Len(input.starts) \in Nat
         /\ \A j \in DOMAIN input.segments : OldNamed(input.segments[j])
<1>1. Linked(input)  BY Constants
<1>2. /\ input.segments \in Seq(Segment(Seq(STRING))) /\ input.commandsEnd \in Nat /\ input.starts \in Seq(Nat)
  BY <1>1 DEF Linked, Sound
<1> DEFINE file == input.segments
           N == NamesOf(input.segments)
<1>3. \A j \in DOMAIN file : file[j].name \in N /\ \A s \in ToSet(file[j].sections) : s.name \in N  BY DEF NamesOf
<1> HIDE DEF N
<1>4. /\ Len(file) \in Nat /\ DOMAIN file = 1 .. Len(file)
      /\ \A j \in DOMAIN file : file[j] \in Segment(Seq(STRING))
  BY <1>2, PartsAre
<1> HIDE DEF file
<1>5. ASSUME NEW j \in DOMAIN file
      PROVE  /\ file[j].name \in N /\ \A n \in DOMAIN file[j].sections : file[j].sections[n].name \in N
             /\ file[j] \in Segment(N)
  <2> DEFINE g == file[j]
             s == file[j].sections
  <2>1. /\ g \in Segment(Seq(STRING)) /\ s \in Seq(Section(Seq(STRING))) /\ Len(s) \in Nat /\ DOMAIN s = 1 .. Len(s)
        /\ g.name \in N
    BY <1>3, <1>4, SegmentIs
  <2>2. ASSUME NEW n \in DOMAIN s  PROVE s[n].name \in N /\ s[n] \in Section(N)
    <3>1. s[n] \in ToSet(s)  BY DEF ToSet
    <3>2. s[n].name \in N  BY <1>3, <3>1
    <3>3. s[n] \in Section(Seq(STRING))  BY <2>1
    <3> QED  BY <3>2, <3>3 DEF Section
  <2>3. s \in Seq(Section(N))
    <3>1. \A n \in 1 .. Len(s) : s[n] \in Section(N)  BY <2>1, <2>2
    <3>2. s = [n \in 1 .. Len(s) |-> s[n]]  BY <2>1
    <3>3. s \in [1 .. Len(s) -> Section(N)]  BY <3>1, <3>2
    <3> QED  BY <2>1, <3>3
  <2>4. g \in Segment(N)  BY <2>1, <2>3 DEF Segment
  <2> QED  BY <2>1, <2>2, <2>4
<1>6. file \in Seq(Segment(N))
  <2>1. file = [j \in 1 .. Len(file) |-> file[j]]  BY <1>2, <1>4 DEF file
  <2>2. file \in [1 .. Len(file) -> Segment(N)]  BY <1>4, <1>5, <2>1
  <2> QED  BY <1>4, <2>2
<1>7. Len(input.starts) \in Nat  BY <1>2
<1>8. \A j \in DOMAIN file : OldNamed(file[j])  BY <1>5 DEF OldNamed, N
<1> QED  BY <1>1, <1>2, <1>6, <1>7, <1>8 DEF file, N

\* What the file becomes keeps its shape.
LEMMA FileIs ==
  ASSUME FileInv, input \in Inputs
  PROVE  /\ segments \in Seq(Segment(NamesNow)) /\ Len(segments) \in Nat /\ DOMAIN segments = 1 .. Len(segments)
         /\ \A j \in 1 .. Len(segments) : segments[j] \in Segment(NamesNow)
         /\ Len(data) \in Nat /\ commandsEnd \in Nat /\ starts \in Seq(Nat) /\ Len(starts) \in Nat
         /\ Len(starts) - Len(input.starts) \in Nat
         /\ Sound(segments, data, tables, starts, fixups, Len(starts) - Len(input.starts))
         /\ SegmentsApart(segments) /\ SegmentsHeld(segments, data, Len(starts) - Len(input.starts))
         /\ LinkeditLast(segments) /\ data \in Seq(ToSet(data)) /\ ContentOffsets \subseteq Nat
<1>1. /\ segments \in Seq(Segment(NamesNow)) /\ commandsEnd \in Nat /\ Len(input.starts) <= Len(starts)
      /\ Sound(segments, data, tables, starts, fixups, Len(starts) - Len(input.starts))
  BY DEF FileInv
<1>2. /\ SegmentsApart(segments) /\ SegmentsHeld(segments, data, Len(starts) - Len(input.starts))
      /\ LinkeditLast(segments) /\ data \in Seq(ToSet(data)) /\ starts \in Seq(Nat)
  BY <1>1 DEF Sound
<1>3. Len(data) \in Nat /\ Len(starts) \in Nat  BY <1>2
<1>4. Len(input.starts) \in Nat  BY InputIs
<1>5. ContentOffsets \subseteq Nat  BY <1>1, OffsetsAre
<1> QED  BY <1>1, <1>2, <1>3, <1>4, <1>5, PartsAre

-----------------------------------------------------------------------------
(* The first state.                                                         *)

\* A file as it is read is sound.
LEMMA InitFile ==
  ASSUME Init  PROVE IInv
<1>1. /\ input \in Inputs /\ pc = "name" /\ plans = <<>> /\ AsRead
  BY DEF Init, NamesInit, AsRead
<1>2. NamesInv  BY InitNames
<1>3. PlansInv
  <2>1. Plans = {}  BY <1>1 DEF Plans
  <2>2. plans \in Seq(Plan(used))  BY <1>1
  <2> QED  BY <1>1, <2>1, <2>2 DEF PlansInv
<1>4. /\ Linked(input) /\ input.segments \in Seq(Segment(NamesOf(input.segments)))
      /\ input.commandsEnd \in Nat /\ Len(input.starts) \in Nat
      /\ \A j \in DOMAIN input.segments : OldNamed(input.segments[j])
  BY <1>1, InputIs
<1>5. FileInv
  <2>1. NamesOf(input.segments) \subseteq NamesNow  BY DEF NamesNow
  <2>2. segments \in Seq(Segment(NamesNow))
    <3> DEFINE N == NamesOf(input.segments)
               M == NamesNow
    <3>1. N \subseteq M /\ input.segments \in Seq(Segment(N))  BY <1>4, <2>1
    <3> HIDE DEF N, M
    <3>2. input.segments \in Seq(Segment(M))  BY <3>1, MoreNames
    <3> QED  BY <1>1, <3>2 DEF M, AsRead
  <2>3. Len(input.starts) <= Len(starts) /\ Len(starts) - Len(input.starts) = 0  BY <1>1, <1>4 DEF AsRead
  <2>4. Sound(segments, data, tables, starts, fixups, 0)  BY <1>1, <1>4 DEF AsRead, Linked
  <2>5. commandsEnd \in Nat  BY <1>1, <1>4 DEF AsRead
  <2> QED  BY <2>2, <2>3, <2>4, <2>5 DEF FileInv
<1>6. KeptInv
  <2>1. Len(data) \in Nat /\ LinkeditLast(segments) /\ SegmentsHeld(segments, data, Len(starts) - Len(input.starts))
        /\ segments \in Seq(Segment(NamesNow))
    BY <1>1, <1>5, FileIs
  <2>2. Border(input) \in 0 .. Len(data) /\ \A l \in Linkedits(segments) : segments[l].off = Border(input)
    <3>1. CASE Linkedits(segments) = {}  BY <1>1, <2>1, <3>1 DEF Border, AsRead
    <3>2. CASE Linkedits(segments) # {}
      <4> DEFINE l == CHOOSE j \in Linkedits(segments) : TRUE
      <4>1. l \in Linkedits(segments)  BY <3>2
      <4> HIDE DEF l
      <4>2. Linkedits(segments) = {l} /\ l \in 1 .. Len(segments) /\ segments[l] \in Segment(NamesNow)
        BY <2>1, <4>1, LastIs
      <4>3. Border(input) = segments[l].off  BY <1>1, <3>2 DEF Border, AsRead, l
      <4>4. segments[l].off \in Nat /\ segments[l].fsize \in Nat  BY <4>2, SegmentIs
      <4>5. segments[l].off + segments[l].fsize <= Len(data)  BY <2>1, <4>2, HeldIs
      <4>6. \A k \in Linkedits(segments) : segments[k].off = segments[l].off  BY <4>2
      <4> QED  BY <2>1, <4>3, <4>4, <4>5, <4>6
    <3> QED  BY <3>1, <3>2
  <2>3. \A n \in 1 .. Border(input) : data[n] = input.data[n]  BY <1>1 DEF AsRead
  <2>4. \A j \in DOMAIN segments : OldNamed(segments[j])  BY <1>1, <1>4 DEF AsRead
  <2>5. \A j \in DOMAIN input.segments : \E i \in DOMAIN segments : segments[i] = input.segments[j]
    BY <1>1 DEF AsRead
  <2>6. Linkedits(segments) = {} <=> Linkedits(input.segments) = {}  BY <1>1 DEF AsRead
  <2> QED  BY <1>1, <2>2, <2>3, <2>4, <2>5, <2>6 DEF KeptInv
<1>7. HeaderInv
  <2>1. ASSUME Linkedits(segments) # {}  PROVE ContentOffsets # {}
    <3>1. PICK j \in DOMAIN segments : \E n \in DOMAIN segments[j].sections : segments[j].sections[n].off # 0
      BY <1>1, <1>4, <2>1 DEF Linked, AsRead
    <3>2. PICK n \in DOMAIN segments[j].sections : segments[j].sections[n].off # 0  BY <3>1
    <3>3. segments[j].sections[n].off \in ContentOffsets  BY <3>2, OffsetsOf
    <3> QED  BY <3>3
  <2> QED  BY <1>1, <2>1 DEF HeaderInv, Shifted, Written
<1>8. LayoutInv /\ PlaceInv /\ CavesInv  BY <1>1 DEF LayoutInv, PlaceInv, CavesInv, Shifted, Written
<1>9. TypeOK  BY <1>1, <1>2, <1>3, <1>5, TypeFrom DEF Steps
<1> QED  BY <1>2, <1>3, <1>5, <1>6, <1>7, <1>8, <1>9 DEF IInv

\* The tables, in each state.
LEMMA NowTables ==
  ASSUME FileInv, input \in Inputs, NEW l \in Linkedits(segments), NEW t \in DOMAIN tables
  PROVE  Placed(segments, data, tables, l, t)
<1> DEFINE added == Len(starts) - Len(input.starts)
           N == NamesNow
<1>1. /\ segments \in Seq(Segment(N)) /\ added \in Nat
      /\ Sound(segments, data, tables, starts, fixups, added)
  BY FileIs
<1> HIDE DEF N, added
<1> QED  BY <1>1, TablesAre

-----------------------------------------------------------------------------
(* The steps that leave the file alone.                                     *)

\* The invariant without what is said of the names and of the plugins' sections.
FileParts == FileInv /\ KeptInv /\ HeaderInv /\ LayoutInv /\ PlaceInv /\ CavesInv

\* The sections are chosen, and no command is written yet.
LEMMA WriterIdle ==
  ASSUME IInv, Naming \/ MakePlans  PROVE FileParts' /\ pc' \in Steps
<1>1. /\ UNCHANGED <<input, writer>> /\ pc \in {"name", "named"}
      /\ pc' \in {"name", "named", "failed", "signature"}
      /\ used \subseteq used' /\ plans = <<>>
  <2>1. plans = <<>> \/ pc \notin {"name", "named"}  BY DEF IInv, NamesInv
  <2>2. CASE Naming /\ NamePlugin
    BY <2>1, <2>2 DEF Naming, NamePlugin
  <2>3. CASE Naming /\ CheckFile
    BY <2>1, <2>3 DEF Naming, CheckFile, given
  <2>4. CASE MakePlans
    BY <2>1, <2>4 DEF MakePlans, given
  <2> QED  BY <2>2, <2>3, <2>4 DEF Naming
<1>2. /\ UNCHANGED <<data, segments, tables, starts, fixups, commandsEnd>> /\ input' = input
  BY <1>1 DEF writer
<1>3. NamesNow \subseteq NamesNow'
  <2>1. NamesNow = NamesOf(input.segments) \cup used  BY <1>1 DEF NamesNow
  <2>2. NamesOf(input.segments)' = NamesOf(input.segments)  BY <1>2
  <2>3. NamesOf(input.segments)' \cup used' \subseteq NamesNow'  BY DEF NamesNow
  <2> QED  BY <1>1, <2>1, <2>2, <2>3
<1>4. FileInv'
  <2>1. /\ segments \in Seq(Segment(NamesNow)) /\ commandsEnd \in Nat /\ Len(input.starts) <= Len(starts)
        /\ Sound(segments, data, tables, starts, fixups, Len(starts) - Len(input.starts))
    BY DEF IInv, FileInv
  <2>2. segments \in Seq(Segment(NamesNow'))
    <3> DEFINE N == NamesNow
               M == NamesNow'
    <3>1. N \subseteq M /\ segments \in Seq(Segment(N))  BY <1>3, <2>1
    <3> HIDE DEF N, M
    <3> QED  BY <3>1, MoreNames DEF M
  <2>3. segments' \in Seq(Segment(NamesNow))'  BY <1>2, <2>2
  <2>4. Sound(segments, data, tables, starts, fixups, Len(starts) - Len(input.starts))'  BY <1>2, <2>1
  <2> QED  BY <1>2, <2>1, <2>3, <2>4 DEF FileInv
<1>5. KeptInv' /\ HeaderInv'
  <2>1. KeptInv /\ HeaderInv  BY DEF IInv
  <2>2. pc \notin Shifted /\ pc' \notin Shifted /\ pc \notin Written /\ pc' \notin Written  BY <1>1 DEF Shifted, Written
  <2>3. Linkedits(segments)' = Linkedits(segments) /\ Linkedits(input.segments)' = Linkedits(input.segments)
        /\ ContentOffsets' = ContentOffsets /\ Border(input)' = Border(input)
    BY <1>2 DEF ContentOffsets
  <2>4. AsRead'  BY <1>1, <1>2, <2>1 DEF KeptInv, AsRead
  <2>5. \A j \in DOMAIN segments : OldNamed(segments[j])'
    <3>1. \A j \in DOMAIN segments : OldNamed(segments[j])  BY <2>1, <2>2 DEF KeptInv
    <3> QED  BY <1>2, <3>1 DEF OldNamed
  <2>6. KeptInv'  BY <1>2, <2>1, <2>2, <2>3, <2>4, <2>5 DEF KeptInv
  <2>7. HeaderInv'  BY <1>1, <1>2, <2>1, <2>2, <2>3 DEF HeaderInv
  <2> QED  BY <2>6, <2>7
<1>6. LayoutInv' /\ PlaceInv' /\ CavesInv'  BY <1>1 DEF LayoutInv, PlaceInv, CavesInv, Shifted, Written
<1> QED  BY <1>1, <1>4, <1>5, <1>6 DEF FileParts, Steps

\* The numbers of the load commands' words.
LEMMA CommandSizeIs ==
  ASSUME plans \in Seq(Plan(used))
  PROVE  CommandSize \in Nat
<1>1. Plans = 1 .. Len(plans) /\ Len(plans) \in Nat  BY DEF Plans
<1> DEFINE U == 1 .. Len(plans)
<1>2. IsFiniteSet(U)
  <2>1. 1 \in Int /\ Len(plans) \in Int  BY <1>1
  <2> QED  BY <2>1, FS_Interval
<1>3. Code \in SUBSET U /\ Data \in SUBSET U  BY <1>1 DEF Code, Data
<1> HIDE DEF U
<1>4. IsFiniteSet(Code) /\ IsFiniteSet(Data)  BY <1>2, <1>3, FS_Subset
<1>5. Cardinality(Code) \in Nat /\ Cardinality(Data) \in Nat  BY <1>4, FS_CardinalityType
<1> DEFINE c == Cardinality(Code)
           d == Cardinality(Data)
<1>6. CommandSize = (IF Code = {} THEN 0 ELSE SegmentCommand + SectionCommand * c)
                    + (IF Data = {} THEN 0 ELSE SegmentCommand + SectionCommand * d)
  BY DEF CommandSize
<1>7. c \in Nat /\ d \in Nat  BY <1>5
<1> HIDE DEF c, d
<1>8. SectionCommand * c \in Nat /\ SectionCommand * d \in Nat  BY <1>7, Constants
<1> QED  BY <1>6, <1>8, Constants

\* There is room for the load commands, or the run ends.
LEMMA HeaderRoomKeeps ==
  ASSUME IInv, HeaderRoom  PROVE FileParts' /\ pc' \in Steps
<1>1. /\ pc = "room" /\ pc' \in {"failed", "place"}
      /\ UNCHANGED <<input, given, plans, data, segments, tables, starts, fixups, commandsEnd>>
      /\ pc' = "place" => commandsEnd + CommandSize <= FirstContent \/ ~(commandsEnd + CommandSize > FirstContent)
  BY DEF HeaderRoom, asked
<1>2. IInv  OBVIOUS
<1>3. UNCHANGED <<input, used, plans, data, segments, tables, starts, fixups, commandsEnd>>  BY <1>1 DEF given
<1>4. NamesNow' = NamesNow  BY <1>3 DEF NamesNow, CaveName, CommonPrefix, Plans
<1>5. FileInv'  BY <1>2, <1>3, <1>4 DEF IInv, FileInv
<1>6. Linkedits(segments)' = Linkedits(segments) /\ ContentOffsets' = ContentOffsets /\ CommandSize' = CommandSize
  BY <1>3 DEF ContentOffsets, CommandSize, Code, Data, Plans
<1>7. KeptInv'
  <2>1. KeptInv  BY DEF IInv
  <2>2. pc \notin Shifted /\ pc' \notin Shifted /\ pc \notin Written /\ pc' \notin Written
        /\ pc' \notin {"name", "named", "signature"}
    BY <1>1 DEF Shifted, Written
  <2>3. \A j \in DOMAIN segments : OldNamed(segments[j])'
    <3>1. \A j \in DOMAIN segments : OldNamed(segments[j])  BY <2>1, <2>2 DEF KeptInv
    <3> QED  BY <1>3, <3>1 DEF OldNamed
  <2>4. Border(input)' = Border(input) /\ Linkedits(input.segments)' = Linkedits(input.segments)  BY <1>3
  <2> QED  BY <1>3, <1>6, <2>1, <2>2, <2>3, <2>4 DEF KeptInv
<1>8. HeaderInv'
  <2>1. HeaderInv  BY DEF IInv
  <2>2. ASSUME pc' = "place"  PROVE EndsBefore(commandsEnd + CommandSize)
    <3> DEFINE S == ContentOffsets \cup {Len(data)}
    <3>1. /\ ContentOffsets \subseteq Nat /\ Len(data) \in Nat /\ commandsEnd \in Nat
      BY FileIs DEF IInv, NamesInv
    <3>2. CommandSize \in Nat  BY CommandSizeIs DEF IInv, PlansInv
    <3>3. S \subseteq Nat /\ S # {}  BY <3>1
    <3>4. FirstContent = CHOOSE off \in S : \A o \in S : off <= o  BY DEF FirstContent
    <3>5. Len(data) \in S /\ ContentOffsets \subseteq S  OBVIOUS
    <3> HIDE DEF S
    <3>6. \E off \in S : \A o \in S : off <= o  BY <3>3, Least
    <3>7. FirstContent \in S /\ \A o \in S : FirstContent <= o  BY <3>4, <3>6
    <3>8. FirstContent \in Nat  BY <3>3, <3>7
    <3>9. commandsEnd + CommandSize <= FirstContent  BY <1>1, <2>2, <3>1, <3>2, <3>8
    <3>10. \A o \in S : commandsEnd + CommandSize <= o
      <4> TAKE o \in S
      <4>1. o \in Nat /\ FirstContent <= o  BY <3>3, <3>7
      <4> QED  BY <3>1, <3>2, <3>8, <3>9, <4>1
    <3> QED  BY <3>5, <3>10 DEF EndsBefore
  <2>3. EndsBefore(commandsEnd + CommandSize)' <=> EndsBefore(commandsEnd + CommandSize)
    BY <1>3, <1>6 DEF EndsBefore
  <2> QED  BY <1>1, <1>6, <2>1, <2>2, <2>3 DEF HeaderInv, Shifted, Written
<1>9. LayoutInv' /\ PlaceInv' /\ CavesInv'  BY <1>1 DEF LayoutInv, PlaceInv, CavesInv, Shifted, Written
<1> QED  BY <1>1, <1>5, <1>7, <1>8, <1>9 DEF FileParts, Steps

\* What is asked for stays, and all that depends on it.
LEMMA AskedKept ==
  ASSUME UNCHANGED asked
  PROVE  /\ input' = input /\ used' = used /\ plans' = plans /\ NamesNow' = NamesNow
         /\ Plans' = Plans /\ Code' = Code /\ Data' = Data /\ CommandSize' = CommandSize
         /\ CaveName("code")' = CaveName("code") /\ CaveName("data")' = CaveName("data")
         /\ Border(input)' = Border(input) /\ Linkedits(input.segments)' = Linkedits(input.segments)
         /\ \A g : OldNamed(g)' <=> OldNamed(g)
<1>1. input' = input /\ used' = used /\ plans' = plans  BY DEF asked, given
<1>2. Plans' = Plans /\ Code' = Code /\ Data' = Data  BY <1>1 DEF Plans, Code, Data
<1>3. CommandSize' = CommandSize  BY <1>2 DEF CommandSize
<1>4. CommonPrefix' = CommonPrefix  BY <1>1, <1>2 DEF CommonPrefix
<1>5. CaveName("code")' = CaveName("code") /\ CaveName("data")' = CaveName("data")  BY <1>4 DEF CaveName
<1>6. NamesNow' = NamesNow  BY <1>1, <1>5 DEF NamesNow
<1>7. \A g : OldNamed(g)' <=> OldNamed(g)  BY <1>1 DEF OldNamed
<1> QED  BY <1>1, <1>2, <1>3, <1>5, <1>6, <1>7

\* Only __LINKEDIT is cut, and only the end of the file.
EndIsCut ==
  /\ DOMAIN segments' = DOMAIN segments /\ \A n \in 1 .. Len(data') : data'[n] = data[n]
  /\ \A j \in DOMAIN segments : segments'[j].va = segments[j].va /\ (segments[j].name # Linkedit => segments'[j] = segments[j])

\* The signature goes, and the end of __LINKEDIT with it.
LEMMA RemoveSignatureKeeps ==
  ASSUME IInv, RemoveSignature  PROVE FileParts' /\ pc' \in Steps /\ EndIsCut
<1> DEFINE s == tables["signature"]
           holds == {j \in DOMAIN segments : segments[j].off <= s.off /\ s.off <= segments[j].off + segments[j].fsize}
           CutTo(g) == [g EXCEPT !.fsize = s.off - g.off, !.vsize = AlignUp(s.off - g.off, Page)]
           AtEnd == s.off + s.size = Len(data)
           added == Len(starts) - Len(input.starts)
<1>1. /\ pc = "signature" /\ pc' = "room" /\ UNCHANGED <<asked, starts, fixups>>
      /\ "signature" \notin DOMAIN tables => UNCHANGED <<data, segments, tables, commandsEnd>>
      /\ "signature" \in DOMAIN tables =>
           /\ AtEnd => /\ data' = SubSeq(data, 1, s.off)
                       /\ segments' = [j \in DOMAIN segments |-> IF j \in holds /\ \A i \in holds : j <= i
                                                                 THEN CutTo(segments[j]) ELSE segments[j]]
           /\ ~AtEnd => UNCHANGED <<data, segments>>
           /\ tables' = [t \in DOMAIN tables \ {"signature"} |-> tables[t]]
           /\ commandsEnd' = commandsEnd - SignatureCommand
  BY DEF RemoveSignature
<1>2. /\ FileInv /\ KeptInv /\ HeaderInv /\ input \in Inputs  BY DEF IInv, NamesInv
<1>3. /\ segments \in Seq(Segment(NamesNow)) /\ Len(segments) \in Nat /\ DOMAIN segments = 1 .. Len(segments)
      /\ \A j \in 1 .. Len(segments) : segments[j] \in Segment(NamesNow)
      /\ Len(data) \in Nat /\ commandsEnd \in Nat /\ Len(starts) \in Nat /\ added \in Nat
      /\ Sound(segments, data, tables, starts, fixups, added)
      /\ SegmentsApart(segments) /\ SegmentsHeld(segments, data, added)
      /\ LinkeditLast(segments) /\ data \in Seq(ToSet(data))
  BY <1>2, FileIs
<1>4. AsRead  BY <1>1, <1>2 DEF KeptInv
<1>5. /\ input' = input /\ NamesNow' = NamesNow /\ Border(input)' = Border(input)
      /\ Linkedits(input.segments)' = Linkedits(input.segments) /\ \A g : OldNamed(g)' <=> OldNamed(g)
      /\ added' = added /\ starts' = starts /\ fixups' = fixups
  BY <1>1, AskedKept
<1>6. Linked(input)  BY <1>2, InputIs
<1>pc. /\ pc' \notin Shifted /\ pc' \notin Written /\ pc \notin Shifted /\ pc \notin Written
       /\ pc' \notin {"place", "shift", "caves", "name", "named", "signature"} /\ pc' \in Steps
  BY <1>1 DEF Shifted, Written, Steps
\* What is left of the tables is where it was.
<1>7. DOMAIN tables' \subseteq DOMAIN tables /\ \A t \in DOMAIN tables' : tables'[t] = tables[t]
  BY <1>1
<1>8. commandsEnd' \in Nat
  <2>1. "signature" \in DOMAIN tables => SignatureCommand <= commandsEnd  BY <1>4, <1>6 DEF AsRead, Linked
  <2>2. commandsEnd' = commandsEnd \/ ("signature" \in DOMAIN tables /\ commandsEnd' = commandsEnd - SignatureCommand)
    BY <1>1
  <2>3. SignatureCommand \in Nat /\ commandsEnd \in Nat  BY <1>3, Constants
  <2> QED  BY <2>1, <2>2, <2>3
<1>9. LayoutInv' /\ PlaceInv' /\ CavesInv'  BY <1>pc DEF LayoutInv, PlaceInv, CavesInv
<1>10. CASE "signature" \notin DOMAIN tables \/ ~AtEnd
  <2>1. data' = data /\ segments' = segments  BY <1>1, <1>10
  <2>2. Sound(segments, data, tables', starts, fixups, added)
    <3>0. /\ DOMAIN tables \subseteq Tables /\ \A t \in DOMAIN tables : tables[t] \in [off: Nat, size: Nat \ {0}]
          /\ TablesHeld(segments, data, tables) /\ StartsHeld(tables, starts, fixups)
          /\ data \in Seq(ToSet(data)) /\ starts \in Seq(Nat)
      BY <1>3 DEF Sound
    <3>1. TablesHeld(segments, data, tables')  BY <1>7, <3>0 DEF TablesHeld
    <3>2. StartsHeld(tables', starts, fixups)  BY <1>7, <3>0 DEF StartsHeld
    <3>3. DOMAIN tables' \subseteq Tables /\ \A t \in DOMAIN tables' : tables'[t] \in [off: Nat, size: Nat \ {0}]
      BY <1>7, <3>0
    <3> QED  BY <1>3, <3>0, <3>1, <3>2, <3>3 DEF Sound
  <2>3. FileInv'  BY <1>2, <1>5, <1>8, <2>1, <2>2 DEF FileInv
  <2>4. KeptInv'  BY <1>2, <1>5, <1>pc, <2>1 DEF KeptInv
  <2>5. HeaderInv'
    <3>1. ContentOffsets' = ContentOffsets /\ Linkedits(segments)' = Linkedits(segments)  BY <2>1 DEF ContentOffsets
    <3> QED  BY <1>2, <1>pc, <3>1 DEF HeaderInv
  <2>6. EndIsCut  BY <2>1 DEF EndIsCut
  <2> QED  BY <1>9, <1>pc, <2>3, <2>4, <2>5, <2>6 DEF FileParts
<1>11. CASE "signature" \in DOMAIN tables /\ AtEnd
  <2> DEFINE N == NamesNow
  <2>1. PICK l \in Linkedits(segments) : TRUE
    <3>1. DOMAIN tables # {}  BY <1>11
    <3> QED  BY <1>3, <3>1, NoTables
  <2>2. /\ l \in 1 .. Len(segments) /\ Linkedits(segments) = {l} /\ segments[l] \in Segment(N)
        /\ segments[l].name = Linkedit /\ segments[l].va % Page = 0 /\ segments[l].sections = <<>>
        /\ \A j \in 1 .. Len(segments) : j # l =>
             /\ segments[j] \in Segment(N) /\ segments[j].name # Linkedit /\ RoundedEnd(segments[j]) <= segments[l].va
             /\ segments[j].off < segments[l].off /\ segments[j].off + segments[j].fsize <= segments[l].off
             /\ \A n \in DOMAIN segments[j].sections : segments[j].sections[n].off < segments[l].off
    BY <1>3, <2>1, LastIs
  <2>3. /\ s \in [off: Nat, size: Nat \ {0}] /\ s.off \in Nat /\ s.size \in Nat \ {0}
        /\ segments[l].off <= s.off /\ s.off + s.size <= segments[l].off + segments[l].fsize
    <3>1. Placed(segments, data, tables, l, "signature")  BY <1>2, <1>11, <2>1, NowTables
    <3> QED  BY <3>1 DEF Placed
  <2>4. /\ segments[l].off \in Nat /\ segments[l].fsize \in Nat /\ segments[l].va \in Nat /\ segments[l].name \in N
        /\ segments[l].sections \in Seq(Section(N))
    BY <2>2, SegmentIs
  <2>5. segments[l].off + segments[l].fsize <= Len(data)  BY <1>3, <2>2, HeldIs
  <2>6. segments[l].off < s.off
    <3>1. \A k \in Linkedits(segments) : segments[k].off < s.off  BY <1>4, <1>6, <1>11 DEF AsRead, Linked
    <3> QED  BY <2>1, <3>1
  <2>7. \A j \in 1 .. Len(segments) : j # l =>
          segments[j].off \in Nat /\ segments[j].fsize \in Nat /\ segments[j].off + segments[j].fsize < s.off
    <3> TAKE j \in 1 .. Len(segments)
    <3> HAVE j # l
    <3>1. segments[j].off \in Nat /\ segments[j].fsize \in Nat  BY <1>3, SegmentIs
    <3>2. segments[j].off + segments[j].fsize <= segments[l].off  BY <2>2
    <3> QED  BY <2>3, <2>4, <2>6, <3>1, <3>2
  <2>8. holds = {l}
    <3>1. l \in holds
      <4>1. s.off <= segments[l].off + segments[l].fsize  BY <2>3, <2>4
      <4> QED  BY <1>3, <2>2, <2>3, <4>1
    <3>2. \A j \in holds : j = l
      <4> SUFFICES ASSUME NEW j \in holds, j # l  PROVE FALSE  OBVIOUS
      <4>1. j \in 1 .. Len(segments) /\ s.off <= segments[j].off + segments[j].fsize  BY <1>3
      <4>2. segments[j].off + segments[j].fsize < s.off /\ segments[j].off \in Nat /\ segments[j].fsize \in Nat  BY <2>7, <4>1
      <4> QED  BY <2>3, <4>1, <4>2
    <3> HIDE DEF holds
    <3> QED  BY <3>1, <3>2
  <2> DEFINE h == CutTo(segments[l])
             size == s.off - segments[l].off
  <2>9. size \in Nat \ {0} /\ AlignUp(size, Page) \in Nat /\ size <= AlignUp(size, Page)
    <3>1. size \in Nat \ {0}  BY <2>3, <2>4, <2>6
    <3> HIDE DEF size
    <3> QED  BY <3>1, AlignUpNat, Constants
  <2>10. /\ h \in Segment(N) /\ h.name = Linkedit /\ h.va = segments[l].va /\ h.off = segments[l].off
         /\ h.fsize = size /\ h.vsize = AlignUp(size, Page) /\ h.sections = <<>>
    <3> HIDE DEF s, N
    <3>1. segments[l] \in Segment(N) /\ size \in Nat /\ AlignUp(size, Page) \in Nat  BY <2>2, <2>9
    <3> DEFINE g == segments[l]
               a == AlignUp(size, Page)
    <3>2. h = [g EXCEPT !.fsize = size, !.vsize = a]  OBVIOUS
    <3>3. g \in Segment(N) /\ size \in Nat /\ a \in Nat /\ g.name = Linkedit /\ g.sections = <<>>  BY <2>2, <3>1
    <3> HIDE DEF g, a, size, h
    <3>4. /\ h \in Segment(N) /\ h.name = g.name /\ h.va = g.va /\ h.off = g.off /\ h.fsize = size /\ h.vsize = a
          /\ h.sections = g.sections
      BY <3>2, <3>3 DEF Segment
    <3> QED  BY <3>3, <3>4 DEF g, a
  <2>11. /\ segments' = [j \in 1 .. Len(segments) |-> IF j = l THEN h ELSE segments[j]]
         /\ data' = SubSeq(data, 1, s.off)
    <3>1. segments' = [j \in DOMAIN segments |-> IF j \in holds /\ \A i \in holds : j <= i
                                                 THEN CutTo(segments[j]) ELSE segments[j]]
      BY <1>1, <1>11
    <3>2. \A j \in 1 .. Len(segments) : (j \in holds /\ \A i \in holds : j <= i) <=> j = l
      <4> HIDE DEF holds
      <4> QED  BY <2>2, <2>8
    <3>3. \A j \in 1 .. Len(segments) : j = l => CutTo(segments[j]) = h  OBVIOUS
    <3> HIDE DEF holds, CutTo, h
    <3>4. segments' = [j \in 1 .. Len(segments) |-> IF j = l THEN h ELSE segments[j]]  BY <1>3, <3>1, <3>2, <3>3
    <3> QED  BY <1>1, <1>11, <3>4
  <2> HIDE DEF h, holds, CutTo
  <2>12. /\ segments' \in Seq(Segment(N)) /\ Len(segments') = Len(segments) /\ DOMAIN segments' = 1 .. Len(segments)
         /\ segments'[l] = h /\ \A j \in 1 .. Len(segments) : j # l => segments'[j] = segments[j]
    <3>1. segments' \in [1 .. Len(segments) -> Segment(N)]  BY <1>3, <2>10, <2>11
    <3> QED  BY <1>3, <2>2, <2>11, <3>1
  <2>13. /\ Len(data') = s.off /\ data' \in Seq(ToSet(data')) /\ \A n \in 1 .. s.off : data'[n] = data[n]
    <3>1. s.off <= Len(data)  BY <1>3, <1>11, <2>3
    <3>2. \A i \in 1 .. s.off : data[i] \in ToSet(data)  BY <1>3, <2>3, <3>1
    <3>3. 1 \in Int /\ s.off \in Int  BY <2>3
    <3>4. /\ SubSeq(data, 1, s.off) \in Seq(ToSet(data))
          /\ Len(SubSeq(data, 1, s.off)) = IF 1 <= s.off THEN s.off - 1 + 1 ELSE 0
          /\ \A i \in 1 .. s.off - 1 + 1 : SubSeq(data, 1, s.off)[i] = data[1 + i - 1]
      BY <3>2, <3>3, SubSeqProperties
    <3> HIDE DEF s
    <3>5. data' \in Seq(ToSet(data)) /\ Len(data') = s.off  BY <2>3, <2>11, <3>4
    <3>6. \A n \in 1 .. s.off : data'[n] = data[n]
      <4> TAKE n \in 1 .. s.off
      <4>1. n \in 1 .. s.off - 1 + 1 /\ 1 + n - 1 = n  BY <2>3
      <4> QED  BY <2>11, <3>4, <4>1
    <3>7. data' \in Seq(ToSet(data'))  BY <3>5, OwnElements
    <3> QED  BY <3>5, <3>6, <3>7
  <2>14. LinkeditLast(segments') /\ Linkedits(segments') = {l}
    <3>1. /\ l \in 1 .. Len(segments') /\ segments'[l].name = Linkedit /\ segments'[l].va % Page = 0
          /\ segments'[l].sections = <<>> /\ segments'[l].va = segments[l].va /\ segments'[l].off = segments[l].off
      BY <2>2, <2>10, <2>12
    <3>2. \A j \in 1 .. Len(segments') : j # l =>
            /\ segments'[j].name # Linkedit /\ RoundedEnd(segments'[j]) <= segments'[l].va
            /\ segments'[j].off < segments'[l].off /\ segments'[j].off + segments'[j].fsize <= segments'[l].off
            /\ \A n \in DOMAIN segments'[j].sections : segments'[j].sections[n].off < segments'[l].off
      BY <2>2, <2>12, <3>1
    <3> HIDE DEF N
    <3>3. Behind(segments', l)  BY <3>1, <3>2 DEF Behind
    <3> QED  BY <2>12, <3>1, <3>3, LastFrom
  <2>15. SegmentsApart(segments')
    <3>1. \A i, j \in 1 .. Len(segments') : i # j /\ i \notin Linkedits(segments') /\ j \notin Linkedits(segments')
                                             => Apart(segments'[i], segments'[j])
      <4>1. \A i, j \in 1 .. Len(segments) : i # j => Apart(segments[i], segments[j])  BY <1>3, ApartIs
      <4> QED  BY <2>12, <2>14, <4>1
    <3> HIDE DEF N
    <3> QED  BY <2>12, <2>14, <3>1, ApartFrom
  <2>16. SegmentsHeld(segments', data', added)
    <3>1. SUFFICES ASSUME NEW j \in 1 .. Len(segments)
                   PROVE  /\ segments'[j].off + segments'[j].fsize <= Len(data')
                          /\ segments'[j].fsize <= segments'[j].vsize + (IF segments'[j].name = Linkedit THEN added ELSE 0)
      BY <2>12 DEF SegmentsHeld
    <3>2. CASE j = l
      <4>1. segments'[j].off + size = s.off  BY <2>3, <2>4, <2>10, <2>12, <3>2
      <4> HIDE DEF size
      <4> QED  BY <1>3, <2>9, <2>10, <2>12, <2>13, <3>2, <4>1
    <3>3. CASE j # l
      <4>1. segments[j].off + segments[j].fsize <= Len(data')  BY <2>3, <2>7, <2>13, <3>3
      <4>2. segments[j].fsize <= segments[j].vsize + (IF segments[j].name = Linkedit THEN added ELSE 0)  BY <1>3, HeldIs
      <4> QED  BY <2>12, <3>3, <4>1, <4>2
    <3> QED  BY <3>2, <3>3
  <2>17. ASSUME NEW t \in DOMAIN tables'
         PROVE  /\ TableHeld(segments', data', t, tables'[t]) /\ tables'[t] \in [off: Nat, size: Nat \ {0}]
                /\ \A u \in DOMAIN tables' : t # u => tables'[t].off + tables'[t].size <= tables'[u].off
                                                      \/ tables'[u].off + tables'[u].size <= tables'[t].off
    <3>1. t \in DOMAIN tables /\ t # "signature" /\ tables'[t] = tables[t]
      <4>1. DOMAIN tables' = DOMAIN tables \ {"signature"}  BY <1>1, <1>11
      <4> QED  BY <1>7, <4>1
    <3>2. /\ tables[t] \in [off: Nat, size: Nat \ {0}] /\ tables[t].off \in Nat /\ tables[t].size \in Nat \ {0}
          /\ segments[l].off <= tables[t].off
          /\ tables[t].off + tables[t].size <= Len(data)
          /\ data[tables[t].off + 1] = <<t, "start">> /\ data[tables[t].off + tables[t].size] = <<t, "end">>
          /\ \A u \in DOMAIN tables : t # u => tables[t].off + tables[t].size <= tables[u].off
                                               \/ tables[u].off + tables[u].size <= tables[t].off
      <4>1. Placed(segments, data, tables, l, t)  BY <1>2, <2>1, <3>1, NowTables
      <4> HIDE DEF s, N, added
      <4> QED  BY <4>1 DEF Placed
    <3>3. tables[t].off + tables[t].size <= s.off
      <4>1. tables[t].off + tables[t].size <= s.off \/ s.off + s.size <= tables[t].off  BY <1>11, <3>1, <3>2
      <4> QED  BY <1>3, <1>11, <2>3, <3>2, <4>1
    <3>4. /\ data'[tables[t].off + 1] = <<t, "start">> /\ data'[tables[t].off + tables[t].size] = <<t, "end">>
      <4>1. tables[t].off + 1 \in 1 .. s.off /\ tables[t].off + tables[t].size \in 1 .. s.off  BY <2>3, <3>2, <3>3
      <4> QED  BY <2>13, <3>2, <4>1
    <3>5. l \in Linkedits(segments') /\ segments'[l].off <= tables[t].off
          /\ tables[t].off + tables[t].size <= segments'[l].off + segments'[l].fsize
      <4>1. segments'[l].off + segments'[l].fsize = s.off  BY <2>3, <2>4, <2>10, <2>12
      <4> QED  BY <2>10, <2>12, <2>14, <3>2, <3>3, <4>1
    <3>6. TableHeld(segments', data', t, tables[t])  BY <3>4, <3>5 DEF TableHeld
    <3>7. \A u \in DOMAIN tables' : t # u => tables'[t].off + tables'[t].size <= tables'[u].off
                                                      \/ tables'[u].off + tables'[u].size <= tables'[t].off
      BY <1>7, <3>1, <3>2
    <3> QED  BY <3>1, <3>2, <3>6, <3>7
  <2>18. Sound(segments', data', tables', starts, fixups, added)
    <3>1. TablesHeld(segments', data', tables')  BY <2>17 DEF TablesHeld
    <3>2. DOMAIN tables \subseteq Tables /\ StartsHeld(tables, starts, fixups) /\ starts \in Seq(Nat)  BY <1>3 DEF Sound
    <3>3. StartsHeld(tables', starts, fixups)  BY <1>7, <3>2 DEF StartsHeld
    <3>4. DOMAIN tables' \subseteq Tables /\ \A t \in DOMAIN tables' : tables'[t] \in [off: Nat, size: Nat \ {0}]
      BY <1>7, <2>17, <3>2
    <3> QED  BY <2>13, <2>14, <2>15, <2>16, <3>1, <3>2, <3>3, <3>4 DEF Sound
  <2>19. FileInv'
    <3>1. segments' \in Seq(Segment(NamesNow))'  BY <1>5, <2>12
    <3>2. Sound(segments, data, tables, starts, fixups, Len(starts) - Len(input.starts))'  BY <1>5, <2>18
    <3>3. (Len(input.starts) <= Len(starts))'  BY <1>2, <1>5 DEF FileInv
    <3> QED  BY <1>8, <3>1, <3>2, <3>3 DEF FileInv
  <2>20. KeptInv'
    <3>1. ASSUME NEW j \in DOMAIN input.segments, input.segments[j].name # Linkedit
          PROVE  \E i \in DOMAIN segments' : segments'[i] = input.segments[j]
      <4>1. input.segments = segments  BY <1>4 DEF AsRead
      <4>2. j \in 1 .. Len(segments) /\ j # l  BY <1>3, <2>2, <3>1, <4>1
      <4> QED  BY <2>12, <4>1, <4>2
    <3>2. Border(input) = segments[l].off /\ Linkedits(input.segments) # {}
      BY <1>2, <1>pc, <2>1 DEF KeptInv
    <3>3. Border(input) \in 0 .. Len(data') /\ \A n \in 1 .. Border(input) : data'[n] = input.data[n]
      <4>1. Border(input) \in Nat /\ Border(input) <= s.off  BY <2>4, <2>6, <2>3, <3>2
      <4>2. \A n \in 1 .. Border(input) : n \in 1 .. s.off  BY <2>3, <4>1
      <4>3. data = input.data  BY <1>4 DEF AsRead
      <4> QED  BY <2>3, <2>13, <4>1, <4>2, <4>3
    <3>4. \A k \in Linkedits(segments') : segments'[k].off = Border(input)  BY <2>10, <2>12, <2>14, <3>2
    <3>5. \A j \in DOMAIN segments' : OldNamed(segments'[j])
      <4> TAKE j \in DOMAIN segments'
      <4>1. j \in DOMAIN segments /\ OldNamed(segments[j])  BY <1>2, <1>3, <1>pc, <2>12 DEF KeptInv
      <4>2. segments'[j].name = segments[j].name /\ segments'[j].sections = segments[j].sections
        BY <1>3, <2>2, <2>10, <2>12, <4>1
      <4> QED  BY <4>1, <4>2 DEF OldNamed
    <3>6. Linkedits(segments') # {}  BY <2>14
    <3> QED  BY <1>5, <1>pc, <3>1, <3>2, <3>3, <3>4, <3>5, <3>6 DEF KeptInv
  <2>21. HeaderInv'
    <3>1. ContentOffsets' = ContentOffsets
      <4>1. \A j \in DOMAIN segments : segments'[j].sections = segments[j].sections  BY <1>3, <2>2, <2>10, <2>12
      <4> QED  BY <1>3, <2>12, <4>1, SameOffsets
    <3>2. ContentOffsets # {}  BY <1>2, <1>pc, <2>1 DEF HeaderInv
    <3> QED  BY <1>pc, <3>1, <3>2 DEF HeaderInv
  <2>22. EndIsCut
    <3>1. \A j \in DOMAIN segments : segments'[j].va = segments[j].va /\ (segments[j].name # Linkedit => segments'[j] = segments[j])
      BY <1>3, <2>2, <2>10, <2>12
    <3> QED  BY <1>3, <2>12, <2>13, <3>1 DEF EndIsCut
  <2> QED  BY <1>9, <1>pc, <2>19, <2>20, <2>21, <2>22 DEF FileParts
<1> QED  BY <1>10, <1>11

\* The plugins' sections, each code or data.
LEMMA PlansAre ==
  ASSUME PlansInv
  PROVE  /\ Len(plans) \in Nat /\ Plans = 1 .. Len(plans) /\ DOMAIN plans = Plans
         /\ \A i \in Plans : plans[i].size \in Nat \ {0} /\ plans[i].name \in used
         /\ Code \subseteq Plans /\ Data \subseteq Plans /\ \A i \in Plans : i \in Code <=> i \notin Data
<1>1. Len(plans) \in Nat /\ DOMAIN plans = 1 .. Len(plans) /\ \A i \in 1 .. Len(plans) : plans[i] \in Plan(used)
  <2>1. plans \in Seq(Plan(used))  BY DEF PlansInv
  <2> HIDE DEF PlansInv
  <2> QED  BY <2>1
<1>2. \A p \in Plan(used) : p.size \in Nat \ {0} /\ p.name \in used /\ p.writable \in BOOLEAN  BY DEF Plan
<1>3. \A i \in Plans : i \in Code <=> i \notin Data  BY <1>1, <1>2 DEF Plans, Code, Data
<1> QED  BY <1>1, <1>2, <1>3 DEF Plans, Code, Data

\* Each group is laid out from its base.
LEMMA PlaceGroupsKeeps ==
  ASSUME IInv, PlaceGroups  PROVE FileParts' /\ pc' \in Steps
<1> DEFINE N    == Len(plans)
           code == Ends(Code, 0)
           base == IF Code = {} THEN 0 ELSE AlignUp(code[N], Page)
           end  == Ends(Data, base)
<1>1. /\ pc = "place" /\ pc' = "shift"
      /\ offsets' = [i \in Plans |-> IF i \in Code THEN code[i] - plans[i].size ELSE end[i] - plans[i].size]
      /\ codeSize' = code[N] /\ dataBase' = base /\ dataSize' = end[N] - base /\ inserted' = AlignUp(end[N], Page)
      /\ UNCHANGED <<asked, data, segments, tables, starts, fixups, commandsEnd>>
  BY DEF PlaceGroups
<1>2. /\ N \in Nat /\ Plans = 1 .. N /\ \A i \in 1 .. N : plans[i].size \in Nat
      /\ Code \subseteq 1 .. N /\ Data \subseteq 1 .. N /\ \A i \in Plans : i \in Code <=> i \notin Data
  BY PlansAre DEF IInv
<1> HIDE DEF N
<1>3. IsEnds(code, N, Code, 0)
  <2>1. 0 \in Nat /\ N = Len(plans)  BY DEF N
  <2> QED  BY <1>2, <2>1, EndsAre
<1> HIDE DEF code
<1>4. code[N] \in Nat
  <2>1. N \in 0 .. N  BY <1>2
  <2> QED  BY <1>3, <2>1 DEF IsEnds
<1>5. Page \in Nat \ {0} /\ Align16 \in Nat \ {0} /\ Page % Align16 = 0  BY Constants
<1>6. AlignUp(0, Page) = 0
  <2>1. 0 \in Int /\ 0 <= Page * 0 /\ Page * 0 < 0 + Page  BY <1>5
  <2>2. AlignUp(0, Page) = Page * 0  BY <1>5, <2>1, AlignUpOnly
  <2> QED  BY <1>5, <2>2
<1>7. AlignUp(0, Align16) = 0
  <2>1. 0 \in Int /\ 0 <= Align16 * 0 /\ Align16 * 0 < 0 + Align16  BY <1>5
  <2>2. AlignUp(0, Align16) = Align16 * 0  BY <1>5, <2>1, AlignUpOnly
  <2> QED  BY <1>5, <2>2
<1>8. /\ \A i \in Code : code[i] - plans[i].size \in Nat /\ 0 <= code[i] - plans[i].size /\ code[i] <= code[N]
      /\ \A i, k \in Code : i < k => code[i] <= code[k] - plans[k].size
      /\ \A i \in Code : (\A k \in Code : i <= k) => code[i] - plans[i].size = 0
      /\ Code = {} => code[N] = 0
  <2>1. 0 \in Nat  OBVIOUS
  <2>2. Spaced(code, N, Code, 0)  BY <1>2, <1>3, <1>7, <2>1, EndsApart
  <2> QED  BY <2>2 DEF Spaced
<1>9. base = AlignUp(code[N], Page)  BY <1>6, <1>8
<1>10. base \in Nat /\ code[N] <= base /\ AlignUp(base, Align16) = base
  <2>1. base \in Nat /\ code[N] <= base  BY <1>4, <1>5, <1>9, AlignUpNat
  <2>2. base % Page = 0  BY <1>4, <1>5, <1>9, AlignUpMultiple
  <2> HIDE DEF base
  <2>3. base \in Int  BY <2>1
  <2>4. AlignUp(base, Align16) = base  BY <1>5, <2>2, <2>3, MultipleOfPart
  <2> QED  BY <2>1, <2>4
<1> HIDE DEF base
<1>11. IsEnds(end, N, Data, base)
  <2>1. N = Len(plans)  BY DEF N
  <2> QED  BY <1>2, <1>10, <2>1, EndsAre
<1> HIDE DEF end
<1>12. /\ \A i \in Data : end[i] - plans[i].size \in Nat /\ base <= end[i] - plans[i].size /\ end[i] <= end[N]
       /\ \A i, k \in Data : i < k => end[i] <= end[k] - plans[k].size
       /\ \A i \in Data : (\A k \in Data : i <= k) => end[i] - plans[i].size = base
       /\ Data = {} => end[N] = base
  <2>1. Spaced(end, N, Data, base)  BY <1>2, <1>10, <1>11, EndsApart
  <2> QED  BY <2>1 DEF Spaced
<1>13. end[N] \in Nat /\ base <= end[N] /\ \A i \in 1 .. N : code[i] \in Nat /\ end[i] \in Nat
  <2>1. N \in 0 .. N /\ 0 \in 0 .. N /\ N \in 0 .. N  BY <1>2
  <2>2. end[0] = base /\ end[N] \in Nat /\ \A i \in 1 .. N : code[i] \in Nat /\ end[i] \in Nat
    <3>1. \A i \in 0 .. N : code[i] \in Nat /\ end[i] \in Nat  BY <1>3, <1>11 DEF IsEnds
    <3> QED  BY <1>2, <1>11, <2>1, <3>1 DEF IsEnds
  <2>3. end[0] <= end[N]  BY <1>2, <1>10, <1>11, <2>1, EndsGrow
  <2> QED  BY <2>2, <2>3
<1>14. /\ input' = input /\ plans' = plans /\ NamesNow' = NamesNow /\ Border(input)' = Border(input)
       /\ Plans' = Plans /\ Code' = Code /\ Data' = Data /\ CommandSize' = CommandSize
       /\ Linkedits(input.segments)' = Linkedits(input.segments) /\ \A g : OldNamed(g)' <=> OldNamed(g)
  BY <1>1, AskedKept
<1>15. LayoutInv'
  <2>1. /\ {codeSize', dataBase', dataSize', inserted'} \subseteq Nat
        /\ codeSize' = code[N] /\ dataBase' = base /\ dataSize' \in Nat /\ dataBase' + dataSize' = end[N]
    <3>1. end[N] - base \in Nat /\ base + (end[N] - base) = end[N]  BY <1>10, <1>13
    <3>2. AlignUp(end[N], Page) \in Nat  BY <1>5, <1>13, AlignUpNat
    <3> QED  BY <1>1, <1>4, <1>10, <3>1, <3>2
  <2>2. offsets' \in [Plans -> Nat]
        /\ (\A i \in Code : offsets'[i] = code[i] - plans[i].size)
        /\ \A i \in Data : offsets'[i] = end[i] - plans[i].size
    BY <1>1, <1>2, <1>8, <1>12
  <2>3. RoomFor(Code, 0, codeSize)'
    <3>1. ASSUME NEW i \in Code
          PROVE  /\ 0 <= offsets'[i] /\ offsets'[i] + plans[i].size <= 0 + codeSize'
                 /\ (\A k \in Code : i <= k) => offsets'[i] = 0
                 /\ \A k \in Code : i < k => offsets'[i] + plans[i].size <= offsets'[k]
      <4>1. /\ offsets'[i] = code[i] - plans[i].size /\ code[i] \in Nat /\ plans[i].size \in Nat
        BY <1>2, <1>13, <2>2
      <4>2. offsets'[i] + plans[i].size = code[i]  BY <4>1
      <4> QED  BY <1>4, <1>8, <2>1, <2>2, <4>1, <4>2
    <3> QED  BY <1>14, <3>1 DEF RoomFor
  <2>4. RoomFor(Data, dataBase, dataSize)'
    <3>1. ASSUME NEW i \in Data
          PROVE  /\ dataBase' <= offsets'[i] /\ offsets'[i] + plans[i].size <= dataBase' + dataSize'
                 /\ (\A k \in Data : i <= k) => offsets'[i] = dataBase'
                 /\ \A k \in Data : i < k => offsets'[i] + plans[i].size <= offsets'[k]
      <4>1. /\ offsets'[i] = end[i] - plans[i].size /\ end[i] \in Nat /\ plans[i].size \in Nat
        BY <1>2, <1>13, <2>2
      <4>2. offsets'[i] + plans[i].size = end[i]  BY <4>1
      <4> QED  BY <1>12, <2>1, <2>2, <4>1, <4>2
    <3> QED  BY <1>14, <3>1 DEF RoomFor
  <2>5. dataBase' = AlignUp(codeSize', Page) /\ inserted' = AlignUp(dataBase' + dataSize', Page)
    BY <1>1, <1>9, <2>1
  <2>6. (offsets \in [Plans -> Nat])'  BY <1>14, <2>2
  <2> QED  BY <2>1, <2>3, <2>4, <2>5, <2>6 DEF LayoutInv
<1>16. /\ pc' \notin Shifted /\ pc' \notin Written /\ pc \notin Shifted /\ pc \notin Written
       /\ pc' \notin {"name", "named", "signature"} /\ pc' \in Steps /\ pc' # "caves"
  BY <1>1 DEF Shifted, Written, Steps
<1>17. UNCHANGED <<data, segments, tables, starts, fixups, commandsEnd>>  BY <1>1
<1>18. FileInv'
  <2>1. FileInv  BY DEF IInv
  <2> QED  BY <1>14, <1>17, <2>1 DEF FileInv
<1>19. KeptInv'
  <2>1. KeptInv  BY DEF IInv
  <2>2. \A j \in DOMAIN segments : OldNamed(segments[j])'
    <3>1. \A j \in DOMAIN segments : OldNamed(segments[j])  BY <2>1, <1>16 DEF KeptInv
    <3> QED  BY <1>14, <1>17, <3>1
  <2> QED  BY <1>14, <1>16, <1>17, <2>1, <2>2 DEF KeptInv
<1>20. HeaderInv'
  <2>1. HeaderInv  BY DEF IInv
  <2>2. Linkedits(segments)' = Linkedits(segments) /\ ContentOffsets' = ContentOffsets  BY <1>17 DEF ContentOffsets
  <2>3. EndsBefore(commandsEnd + CommandSize)' <=> EndsBefore(commandsEnd + CommandSize)
    BY <1>14, <1>17, <2>2 DEF EndsBefore
  <2> QED  BY <1>1, <1>16, <2>1, <2>2, <2>3 DEF HeaderInv
<1>21. PlaceInv' /\ CavesInv'  BY <1>16 DEF PlaceInv, CavesInv
<1> QED  BY <1>15, <1>16, <1>18, <1>19, <1>20, <1>21 DEF FileParts

-----------------------------------------------------------------------------
(* The steps that move __LINKEDIT.                                          *)

\* One segment is put for another.
Replaced(new, parts, N, l, h) ==
  /\ new \in Seq(Segment(N)) /\ Len(new) = Len(parts) /\ DOMAIN new = 1 .. Len(parts)
  /\ new[l] = h /\ \A j \in 1 .. Len(parts) : j # l => new[j] = parts[j]
  /\ LinkeditLast(new) /\ Linkedits(new) = {l} /\ SegmentsApart(new)

\* __LINKEDIT may move away from the others.
LEMMA ReplaceLast ==
  ASSUME NEW N, NEW parts \in Seq(Segment(N)), LinkeditLast(parts), SegmentsApart(parts), NEW l \in Linkedits(parts),
         NEW h \in Segment(N), h.name = Linkedit, h.sections = <<>>, h.va % Page = 0,
         parts[l].va <= h.va, parts[l].off <= h.off,
         NEW new, new = [j \in 1 .. Len(parts) |-> IF j = l THEN h ELSE parts[j]]
  PROVE  Replaced(new, parts, N, l, h)
<1>1. /\ l \in 1 .. Len(parts) /\ Linkedits(parts) = {l} /\ parts[l] \in Segment(N)
      /\ \A j \in 1 .. Len(parts) : j # l =>
           /\ parts[j] \in Segment(N) /\ parts[j].name # Linkedit /\ RoundedEnd(parts[j]) <= parts[l].va
           /\ parts[j].off < parts[l].off /\ parts[j].off + parts[j].fsize <= parts[l].off
           /\ \A n \in DOMAIN parts[j].sections : parts[j].sections[n].off < parts[l].off
  BY LastIs
<1>2. /\ new \in Seq(Segment(N)) /\ Len(new) = Len(parts) /\ DOMAIN new = 1 .. Len(parts)
      /\ new[l] = h /\ \A j \in 1 .. Len(parts) : j # l => new[j] = parts[j]
  <2>1. Len(parts) \in Nat  BY PartsAre
  <2>2. \A j \in 1 .. Len(parts) : (IF j = l THEN h ELSE parts[j]) \in Segment(N)  BY <1>1
  <2>3. new \in [1 .. Len(parts) -> Segment(N)]  BY <2>2
  <2> QED  BY <1>1, <2>1, <2>3
<1>3. h.va \in Nat /\ h.off \in Nat /\ parts[l].va \in Nat /\ parts[l].off \in Nat  BY <1>1, SegmentIs
<1>4. ASSUME NEW j \in 1 .. Len(parts), j # l
      PROVE  /\ new[j] = parts[j] /\ new[j].name # Linkedit /\ RoundedEnd(new[j]) <= h.va
             /\ new[j].off < h.off /\ new[j].off + new[j].fsize <= h.off
             /\ \A n \in DOMAIN new[j].sections : new[j].sections[n].off < h.off
  <2>1. new[j] = parts[j] /\ parts[j] \in Segment(N)  BY <1>1, <1>2, <1>4
  <2>2. /\ parts[j].name # Linkedit /\ RoundedEnd(parts[j]) <= parts[l].va
        /\ parts[j].off < parts[l].off /\ parts[j].off + parts[j].fsize <= parts[l].off
        /\ \A n \in DOMAIN parts[j].sections : parts[j].sections[n].off < parts[l].off
    BY <1>1, <1>4
  <2>3. /\ RoundedEnd(parts[j]) \in Nat /\ parts[j].off \in Nat /\ parts[j].fsize \in Nat
        /\ \A n \in DOMAIN parts[j].sections : parts[j].sections[n].off \in Nat
    BY <2>1, SegmentIs
  <2> QED  BY <1>3, <2>1, <2>2, <2>3
<1>5. LinkeditLast(new) /\ Linkedits(new) = {l}
  <2>1. /\ l \in 1 .. Len(new) /\ new[l].name = Linkedit /\ new[l].va % Page = 0 /\ new[l].sections = <<>>
        /\ new \in Seq(Segment(N))
    BY <1>1, <1>2
  <2>2. \A j \in 1 .. Len(new) : j # l =>
          /\ new[j].name # Linkedit /\ RoundedEnd(new[j]) <= new[l].va
          /\ new[j].off < new[l].off /\ new[j].off + new[j].fsize <= new[l].off
          /\ \A n \in DOMAIN new[j].sections : new[j].sections[n].off < new[l].off
    BY <1>2, <1>4
  <2>3. Behind(new, l)  BY <2>1, <2>2 DEF Behind
  <2> QED  BY <2>1, <2>3, LastFrom
<1>6. SegmentsApart(new)
  <2>1. \A i, j \in 1 .. Len(parts) : i # j => Apart(parts[i], parts[j])  BY ApartIs
  <2>2. \A i, j \in 1 .. Len(new) : i # j /\ i \notin Linkedits(new) /\ j \notin Linkedits(new)
                                       => Apart(new[i], new[j])
    BY <1>2, <1>5, <2>1
  <2> QED  BY <1>2, <1>5, <2>2, ApartFrom
<1> QED  BY <1>2, <1>5, <1>6 DEF Replaced

\* What is said of the others goes on.
LEMMA ReplacedKeeps ==
  ASSUME FileInv, input \in Inputs, NEW l \in Linkedits(segments),
         NEW N, NEW h, Replaced(segments', segments, N, l, h), h.name = Linkedit, h.sections = <<>>
  PROVE  /\ ContentOffsets' = ContentOffsets
         /\ \A j \in DOMAIN input.segments :
              input.segments[j].name # Linkedit /\ (\E i \in DOMAIN segments : segments[i] = input.segments[j])
                => \E i \in DOMAIN segments' : segments'[i] = input.segments[j]
         /\ \A j \in DOMAIN segments : segments'[j].name = segments[j].name /\ segments'[j].sections = segments[j].sections
         /\ DOMAIN segments' = DOMAIN segments
<1>1. /\ DOMAIN segments = 1 .. Len(segments) /\ LinkeditLast(segments) /\ segments \in Seq(Segment(NamesNow))
  BY FileIs
<1>2. segments[l].name = Linkedit /\ segments[l].sections = <<>>  BY <1>1, LastIs
<1>3. /\ DOMAIN segments' = DOMAIN segments
      /\ segments'[l] = h /\ \A j \in DOMAIN segments : j # l => segments'[j] = segments[j]
  BY <1>1 DEF Replaced
<1>4. \A j \in DOMAIN segments : segments'[j].name = segments[j].name /\ segments'[j].sections = segments[j].sections
  BY <1>2, <1>3
<1>5. ContentOffsets' = ContentOffsets  BY <1>3, <1>4, SameOffsets
<1>6. ASSUME NEW j \in DOMAIN input.segments, input.segments[j].name # Linkedit,
             NEW i \in DOMAIN segments, segments[i] = input.segments[j]
      PROVE  i \in DOMAIN segments' /\ segments'[i] = input.segments[j]
  <2>1. i # l  BY <1>2, <1>6
  <2> QED  BY <1>3, <1>6, <2>1
<1> QED  BY <1>3, <1>4, <1>5, <1>6

\* Only __LINKEDIT moves, and its tables with all they hold.
LinkeditMoves ==
  /\ DOMAIN segments' = DOMAIN segments /\ DOMAIN tables' = DOMAIN tables
  /\ \A j \in DOMAIN segments : segments[j].va <= segments'[j].va /\ (segments[j].name # Linkedit => segments'[j] = segments[j])
  /\ \A t \in DOMAIN tables :
       /\ tables'[t].size = tables[t].size
       /\ \A n \in 1 .. tables[t].size : data'[tables'[t].off + n] = data[tables[t].off + n]

\* Room is made in front of __LINKEDIT.
LEMMA ShiftInFront ==
  ASSUME IInv, Shift, Linkedits(segments) # {}  PROVE FileParts' /\ pc' \in Steps /\ LinkeditMoves
<1> DEFINE N     == NamesNow
           l     == CHOOSE j \in Linkedits(segments) : TRUE
           point == segments[l].off
           by    == inserted
           added == Len(starts) - Len(input.starts)
           MovedSegment(g) ==
             [MoveSections(g, point, by) EXCEPT !.off = Moved(@, point, by),
                                                !.va = IF g.name = Linkedit THEN @ + by ELSE @]
           h     == MovedSegment(segments[l])
<1>1. /\ pc = "shift" /\ pc' = "caves" /\ UNCHANGED <<asked, starts, fixups, commandsEnd, layout>>
      /\ linkeditOff' = point /\ linkeditVa' = segments[l].va /\ place' = l
      /\ segments' = [i \in DOMAIN segments |-> MovedSegment(segments[i])]
      /\ tables' = [t \in DOMAIN tables |-> [tables[t] EXCEPT !.off = Moved(@, point, by)]]
      /\ data' = Insert(point, Zeros(by))
  BY DEF Shift
<1>2. /\ FileInv /\ KeptInv /\ HeaderInv /\ LayoutInv /\ PlansInv /\ input \in Inputs  BY DEF IInv, NamesInv
<1>3. /\ segments \in Seq(Segment(N)) /\ Len(segments) \in Nat /\ DOMAIN segments = 1 .. Len(segments)
      /\ \A j \in 1 .. Len(segments) : segments[j] \in Segment(N)
      /\ Len(data) \in Nat /\ commandsEnd \in Nat /\ Len(starts) \in Nat /\ added \in Nat
      /\ Sound(segments, data, tables, starts, fixups, added)
      /\ SegmentsApart(segments) /\ SegmentsHeld(segments, data, added)
      /\ LinkeditLast(segments) /\ data \in Seq(ToSet(data)) /\ ContentOffsets \subseteq Nat
  BY <1>2, FileIs
<1>4. l \in Linkedits(segments)  OBVIOUS
<1>5. /\ l \in 1 .. Len(segments) /\ Linkedits(segments) = {l} /\ segments[l] \in Segment(N)
      /\ segments[l].name = Linkedit /\ segments[l].va % Page = 0 /\ segments[l].sections = <<>>
      /\ \A j \in 1 .. Len(segments) : j # l =>
           /\ segments[j] \in Segment(N) /\ segments[j].name # Linkedit /\ RoundedEnd(segments[j]) <= segments[l].va
           /\ segments[j].off < point /\ segments[j].off + segments[j].fsize <= point
           /\ \A n \in DOMAIN segments[j].sections : segments[j].sections[n].off < point
  <2> HIDE DEF l, N
  <2> QED  BY <1>3, <1>4, LastIs
<1>6. /\ input' = input /\ plans' = plans /\ NamesNow' = NamesNow /\ Border(input)' = Border(input)
      /\ Plans' = Plans /\ Code' = Code /\ Data' = Data /\ CommandSize' = CommandSize
      /\ Linkedits(input.segments)' = Linkedits(input.segments) /\ (\A g : OldNamed(g)' <=> OldNamed(g))
      /\ added' = added /\ starts' = starts /\ fixups' = fixups /\ commandsEnd' = commandsEnd
      /\ offsets' = offsets /\ codeSize' = codeSize /\ dataBase' = dataBase /\ dataSize' = dataSize /\ inserted' = by
  BY <1>1, AskedKept DEF layout
<1>7. codeSize \in Nat /\ dataBase \in Nat /\ dataSize \in Nat /\ by \in Nat  BY <1>1, <1>2 DEF LayoutInv
<1>7a. by % Page = 0 /\ dataBase + dataSize <= by
  <2> DEFINE n == dataBase + dataSize
  <2>0. by = AlignUp(dataBase + dataSize, Page)  BY <1>1, <1>2 DEF LayoutInv
  <2>1. n \in Nat /\ n \in Int /\ by = AlignUp(n, Page)
    <3>1. n \in Nat /\ n \in Int  BY <1>7
    <3> QED  BY <2>0, <3>1
  <2> HIDE DEF n
  <2>2. AlignUp(n, Page) % Page = 0  BY <2>1, AlignUpMultiple, Constants
  <2>3. n <= AlignUp(n, Page)  BY <2>1, AlignUpNat, Constants
  <2> QED  BY <2>1, <2>2, <2>3 DEF n
<1>8. /\ point \in Nat /\ segments[l].va \in Nat /\ segments[l].fsize \in Nat /\ point + segments[l].fsize <= Len(data)
  <2>1. point + segments[l].fsize <= Len(data)
    <3> HIDE DEF N, l, added
    <3> QED  BY <1>3, <1>5, HeldIs
  <2> QED  BY <1>5, <2>1, SegmentIs
\* The load commands, and so something, are in front.
<1>9. EndsBefore(commandsEnd + CommandSize) /\ ContentOffsets # {}
  <2>1. pc \in {"place", "shift", "caves"} /\ pc \notin Shifted  BY <1>1 DEF Shifted
  <2> QED  BY <1>2, <2>1 DEF HeaderInv
<1>10. CommandSize \in Nat  BY <1>2, CommandSizeIs DEF PlansInv
<1>11. commandsEnd + CommandSize <= point /\ point # 0
  <2>1. PICK o \in ContentOffsets : TRUE  BY <1>9
  <2>2. PICK j \in DOMAIN segments : \E n \in DOMAIN segments[j].sections : o = segments[j].sections[n].off  BY OffsetsOf
  <2>3. PICK n \in DOMAIN segments[j].sections : o = segments[j].sections[n].off  BY <2>2
  <2>4. j # l
    <3>1. segments[l].sections = <<>>  BY <1>5
    <3> HIDE DEF l
    <3> QED  BY <2>2, <3>1
  <2>5. o < point
    <3> HIDE DEF l
    <3> QED  BY <1>3, <1>5, <2>3, <2>4
  <2>6. commandsEnd + CommandSize <= o /\ o \in Nat  BY <1>3, <1>9 DEF EndsBefore
  <2>7. commandsEnd + CommandSize \in Nat  BY <1>3, <1>10
  <2> HIDE DEF l, point
  <2> QED  BY <1>8, <2>5, <2>6, <2>7
<1> HIDE DEF l
<1>12. /\ h \in Segment(N) /\ h.name = Linkedit /\ h.va = segments[l].va + by /\ h.off = point + by
       /\ h.fsize = segments[l].fsize /\ h.vsize = segments[l].vsize /\ h.sections = <<>>
  <2> DEFINE g == segments[l]
             m == MoveSections(g, point, by)
  <2>1. g \in Segment(N) /\ g.name = Linkedit /\ g.sections = <<>> /\ point \in Nat /\ by \in Nat
        /\ g.va \in Nat /\ g.off = point
    BY <1>5, <1>7, <1>8
  <2> HIDE DEF g, N, point, by
  <2>2. m = g
    <3>1. \A n \in DOMAIN g.sections : g.sections[n].off < point  BY <2>1
    <3> QED  BY <2>1, <3>1, MoveSectionsIs
  <2>3. h = [g EXCEPT !.off = Moved(g.off, point, by), !.va = g.va + by]  BY <2>1, <2>2 DEF g
  <2>4. Moved(g.off, point, by) = point + by
    <3>1. point # 0  BY <1>11 DEF point
    <3> QED  BY <2>1, <3>1 DEF Moved
  <2> DEFINE o == point + by
             v == g.va + by
  <2>a. o \in Nat /\ v \in Nat /\ h = [g EXCEPT !.off = o, !.va = v]  BY <2>1, <2>3, <2>4
  <2> HIDE DEF h, o, v
  <2>5. /\ h \in Segment(N) /\ h.name = g.name /\ h.va = v /\ h.off = o
        /\ h.fsize = g.fsize /\ h.vsize = g.vsize /\ h.sections = g.sections
    BY <2>1, <2>a DEF Segment
  <2> QED  BY <2>1, <2>5 DEF g, o, v
<1>13. segments' = [j \in 1 .. Len(segments) |-> IF j = l THEN h ELSE segments[j]]
  <2>1. ASSUME NEW j \in 1 .. Len(segments), j # l  PROVE MovedSegment(segments[j]) = segments[j]
    <3> DEFINE g == segments[j]
               m == MoveSections(g, point, by)
    <3>1. /\ g \in Segment(N) /\ g.name # Linkedit /\ point \in Nat /\ by \in Nat /\ g.off < point
          /\ \A n \in DOMAIN g.sections : g.sections[n].off < point
      BY <1>5, <1>7, <1>8, <2>1
    <3>2. g.off \in Nat  BY <3>1, SegmentIs
    <3> HIDE DEF g, N, point, by
    <3>3. m = g  BY <3>1, MoveSectionsIs
    <3>4. Moved(g.off, point, by) = g.off  BY <3>1, <3>2 DEF Moved
    <3>5. MovedSegment(g) = [g EXCEPT !.off = g.off, !.va = g.va]  BY <3>1, <3>3, <3>4
    <3> HIDE DEF MovedSegment
    <3>6. MovedSegment(g) = g  BY <3>1, <3>5 DEF Segment
    <3> QED  BY <3>6 DEF g
  <2> HIDE DEF MovedSegment, h
  <2>2. \A j \in 1 .. Len(segments) : MovedSegment(segments[j]) = IF j = l THEN h ELSE segments[j]  BY <2>1 DEF h
  <2> QED  BY <1>1, <1>3, <2>2
<1> HIDE DEF h, MovedSegment
<1>14. Replaced(segments', segments, N, l, h)
  <2>1. h.va % Page = 0 /\ segments[l].va <= h.va /\ segments[l].off <= h.off
    <3>1. (segments[l].va + by) % Page = 0
      <4> DEFINE a == segments[l].va
                 b == by
      <4>1. a \in Int /\ b \in Int /\ a % Page = 0 /\ b % Page = 0  BY <1>5, <1>7, <1>7a, <1>8
      <4> HIDE DEF a, b
      <4>2. (a + b) % Page = 0  BY <4>1, MultiplesAdd, Constants
      <4> QED  BY <4>2 DEF a, b
    <3>2. segments[l].va <= h.va /\ segments[l].off <= h.off  BY <1>7, <1>8, <1>12
    <3> QED  BY <1>12, <3>1, <3>2
  <2> HIDE DEF N
  <2> QED  BY <1>3, <1>4, <1>12, <1>13, <2>1, ReplaceLast DEF l
<1>15. /\ segments' \in Seq(Segment(N)) /\ Len(segments') = Len(segments) /\ DOMAIN segments' = 1 .. Len(segments)
       /\ segments'[l] = h /\ (\A j \in 1 .. Len(segments) : j # l => segments'[j] = segments[j])
       /\ LinkeditLast(segments') /\ Linkedits(segments') = {l} /\ SegmentsApart(segments')
  BY <1>14 DEF Replaced
<1>16. /\ Len(data') = Len(data) + by /\ data' \in Seq(ToSet(data'))
       /\ \A n \in 1 .. point : data'[n] = data[n]
       /\ \A n \in point + 1 .. Len(data) : data'[n + by] = data[n]
  <2> DEFINE S == ToSet(data) \cup {Zero}
             w == Zeros(by)
  <2>1. data \in Seq(S)
    <3>1. data \in Seq(ToSet(data)) /\ ToSet(data) \subseteq S  BY <1>3
    <3> HIDE DEF S
    <3> QED  BY <3>1, SeqMonotonic
  <2>2. w \in Seq(S) /\ Len(w) = by
    <3>1. Zero \in S  OBVIOUS
    <3> HIDE DEF S, by
    <3>2. w \in [1 .. by -> S]  BY <3>1 DEF Zeros
    <3> QED  BY <1>7, <3>2 DEF Zeros
  <2>3. point \in 0 .. Len(data)  BY <1>3, <1>8
  <2>4. data' = SubSeq(data, 1, point) \o w \o SubSeq(data, point + 1, Len(data))  BY <1>1 DEF Insert
  <2> HIDE DEF S, w, point, by
  <2>5. /\ data' \in Seq(S) /\ Len(data') = Len(data) + Len(w)
        /\ (\A n \in 1 .. point : data'[n] = data[n])
        /\ \A n \in point + 1 .. Len(data) : data'[n + Len(w)] = data[n]
    BY <2>1, <2>2, <2>3, <2>4, Inserted
  <2>6. data' \in Seq(ToSet(data'))  BY <2>5, OwnElements
  <2> QED  BY <2>2, <2>5, <2>6
<1>17. SegmentsHeld(segments', data', added)
  <2>1. SUFFICES ASSUME NEW j \in 1 .. Len(segments)
                 PROVE  /\ segments'[j].off + segments'[j].fsize <= Len(data')
                        /\ segments'[j].fsize <= segments'[j].vsize + (IF segments'[j].name = Linkedit THEN added ELSE 0)
    BY <1>15 DEF SegmentsHeld
  <2>2. /\ segments[j].off + segments[j].fsize <= Len(data)
        /\ segments[j].fsize <= segments[j].vsize + (IF segments[j].name = Linkedit THEN added ELSE 0)
    <3> HIDE DEF added, N
    <3> QED  BY <1>3, HeldIs
  <2>3. CASE j = l
    <3>1. segments'[j].off + segments'[j].fsize = (point + segments[l].fsize) + by  BY <1>7, <1>8, <1>12, <1>15, <2>3
    <3>2. segments'[j].fsize = segments[j].fsize /\ segments'[j].vsize = segments[j].vsize /\ segments'[j].name = segments[j].name
      BY <1>5, <1>12, <1>15, <2>3
    <3> QED  BY <1>3, <1>7, <1>8, <1>16, <2>2, <3>1, <3>2
  <2>4. CASE j # l
    <3>1. segments[j].off \in Nat /\ segments[j].fsize \in Nat  BY <1>3, SegmentIs
    <3> QED  BY <1>3, <1>7, <1>15, <1>16, <2>2, <2>4, <3>1
  <2> QED  BY <2>3, <2>4
<1>18. ASSUME NEW t \in DOMAIN tables
       PROVE  /\ tables'[t] \in [off: Nat, size: Nat \ {0}] /\ tables'[t].off = tables[t].off + by
              /\ tables'[t].size = tables[t].size /\ TableHeld(segments', data', t, tables'[t])
              /\ tables[t].off \in Nat /\ tables[t].size \in Nat
              /\ point <= tables[t].off /\ tables[t].off + tables[t].size <= Len(data)
  <2>1. Placed(segments, data, tables, l, t)  BY <1>2, <1>4, NowTables DEF l
  <2>2. /\ tables[t] \in [off: Nat, size: Nat \ {0}] /\ tables[t].off \in Nat /\ tables[t].size \in Nat \ {0}
        /\ point <= tables[t].off /\ tables[t].off + tables[t].size <= point + segments[l].fsize
        /\ tables[t].off + tables[t].size <= Len(data)
        /\ data[tables[t].off + 1] = <<t, "start">> /\ data[tables[t].off + tables[t].size] = <<t, "end">>
    BY <2>1 DEF Placed
  <2>3. Moved(tables[t].off, point, by) = tables[t].off + by
    <3>1. tables[t].off # 0  BY <1>8, <1>11, <2>2
    <3> QED  BY <2>2, <3>1 DEF Moved
  <2>4. /\ tables'[t] \in [off: Nat, size: Nat \ {0}] /\ tables'[t].off = tables[t].off + by
        /\ tables'[t].size = tables[t].size
    <3>1. tables'[t] = [tables[t] EXCEPT !.off = tables[t].off + by]  BY <1>1, <2>3
    <3>2. tables[t].off + by \in Nat  BY <1>7, <2>2
    <3> QED  BY <2>2, <3>1, <3>2
  <2>5. /\ data'[tables'[t].off + 1] = <<t, "start">> /\ data'[tables'[t].off + tables'[t].size] = <<t, "end">>
    <3> DEFINE a == tables[t].off + 1
               b == tables[t].off + tables[t].size
    <3>1. a \in point + 1 .. Len(data) /\ b \in point + 1 .. Len(data)
      <4> DEFINE o == tables[t].off
                 z == tables[t].size
                 v == Len(data)
      <4>1. /\ o \in Nat /\ z \in Nat \ {0} /\ point \in Nat /\ v \in Nat /\ point <= o /\ o + z <= v
            /\ a = o + 1 /\ b = o + z
        BY <1>3, <1>8, <2>2
      <4> HIDE DEF o, z, v, a, b, point
      <4>2. a \in point + 1 .. v /\ b \in point + 1 .. v  BY <4>1
      <4> QED  BY <4>2 DEF v
    <3>2. tables'[t].off + 1 = a + by /\ tables'[t].off + tables'[t].size = b + by  BY <1>7, <2>2, <2>4
    <3>3. data'[a + by] = data[a] /\ data'[b + by] = data[b]
      <4> HIDE DEF a, b
      <4> QED  BY <1>16, <3>1
    <3> QED  BY <2>2, <3>2, <3>3
  <2>6. /\ l \in Linkedits(segments') /\ segments'[l].off <= tables'[t].off
        /\ tables'[t].off + tables'[t].size <= segments'[l].off + segments'[l].fsize
    <3>1. l \in Linkedits(segments') /\ segments'[l].off = point + by /\ segments'[l].fsize = segments[l].fsize
      BY <1>12, <1>15
    <3>2. tables'[t].off = tables[t].off + by /\ tables'[t].size = tables[t].size  BY <2>4
    <3> DEFINE p == point
               f == segments[l].fsize
               o == tables[t].off
               z == tables[t].size
    <3>3. p \in Nat /\ f \in Nat /\ o \in Nat /\ z \in Nat /\ by \in Nat /\ p <= o /\ o + z <= p + f
      BY <1>7, <1>8, <2>2
    <3>4. segments'[l].off = p + by /\ segments'[l].fsize = f /\ tables'[t].off = o + by /\ tables'[t].size = z
      BY <3>1, <3>2
    <3> HIDE DEF p, f, o, z, by
    <3>5. p + by <= o + by /\ (o + by) + z <= (p + by) + f  BY <3>3
    <3> QED  BY <3>1, <3>4, <3>5
  <2>7. TableHeld(segments', data', t, tables'[t])  BY <2>5, <2>6 DEF TableHeld
  <2> QED  BY <2>2, <2>4, <2>7
<1>19. Sound(segments', data', tables', starts, fixups, added)
  <2>1. /\ DOMAIN tables \subseteq Tables /\ StartsHeld(tables, starts, fixups) /\ starts \in Seq(Nat)
        /\ \A t, u \in DOMAIN tables : t # u => tables[t].off + tables[t].size <= tables[u].off
                                               \/ tables[u].off + tables[u].size <= tables[t].off
    BY <1>3 DEF Sound, TablesHeld
  <2>2. DOMAIN tables' = DOMAIN tables  BY <1>1
  <2>3. ASSUME NEW t \in DOMAIN tables, NEW u \in DOMAIN tables, t # u
        PROVE  tables'[t].off + tables'[t].size <= tables'[u].off \/ tables'[u].off + tables'[u].size <= tables'[t].off
    <3>1. tables[t].off + tables[t].size <= tables[u].off \/ tables[u].off + tables[u].size <= tables[t].off  BY <2>1, <2>3
    <3>2. /\ tables'[t].off = tables[t].off + by /\ tables'[t].size = tables[t].size
          /\ tables'[u].off = tables[u].off + by /\ tables'[u].size = tables[u].size
          /\ tables[t].off \in Nat /\ tables[t].size \in Nat /\ tables[u].off \in Nat /\ tables[u].size \in Nat
      BY <1>18
    <3> QED  BY <1>7, <3>1, <3>2
  <2>4. TablesHeld(segments', data', tables')  BY <1>18, <2>2, <2>3 DEF TablesHeld
  <2>5. StartsHeld(tables', starts, fixups)  BY <1>18, <2>1, <2>2 DEF StartsHeld
  <2>6. DOMAIN tables' \subseteq Tables /\ \A t \in DOMAIN tables' : tables'[t] \in [off: Nat, size: Nat \ {0}]
    BY <1>18, <2>1, <2>2
  <2> QED  BY <1>15, <1>16, <1>17, <2>1, <2>4, <2>5, <2>6 DEF Sound
<1>pc. /\ pc' \in Shifted /\ pc' \notin Written /\ pc \notin Shifted /\ pc \notin Written /\ pc' = "caves"
       /\ pc' \notin {"name", "named", "signature"} /\ pc' \in Steps
  BY <1>1 DEF Shifted, Written, Steps
<1>20. FileInv'
  <2>1. segments' \in Seq(Segment(NamesNow))'  BY <1>6, <1>15
  <2>2. Sound(segments, data, tables, starts, fixups, Len(starts) - Len(input.starts))'  BY <1>6, <1>19
  <2>3. (Len(input.starts) <= Len(starts) /\ commandsEnd \in Nat)'  BY <1>2, <1>6 DEF FileInv
  <2> QED  BY <2>1, <2>2, <2>3 DEF FileInv
<1>21. /\ ContentOffsets' = ContentOffsets
       /\ \A j \in DOMAIN input.segments :
            input.segments[j].name # Linkedit /\ (\E i \in DOMAIN segments : segments[i] = input.segments[j])
              => \E i \in DOMAIN segments' : segments'[i] = input.segments[j]
       /\ \A j \in DOMAIN segments : segments'[j].name = segments[j].name /\ segments'[j].sections = segments[j].sections
       /\ DOMAIN segments' = DOMAIN segments
  <2>1. l \in Linkedits(segments)  BY <1>4 DEF l
  <2> HIDE DEF N
  <2> QED  BY <1>2, <1>12, <1>14, <2>1, ReplacedKeeps
<1>22. Border(input) = point /\ Linkedits(input.segments) # {} /\ \A j \in DOMAIN segments : OldNamed(segments[j])
  <2>1. l \in Linkedits(segments)  BY <1>4 DEF l
  <2> QED  BY <1>2, <1>pc, <2>1 DEF KeptInv
<1>23. KeptInv'
  <2>1. \A j \in DOMAIN input.segments : input.segments[j].name # Linkedit =>
          \E i \in DOMAIN segments' : segments'[i] = input.segments[j]
    BY <1>2, <1>21 DEF KeptInv
  <2>2. \A n \in 1 .. Border(input) : data'[n] = input.data[n]
    <3>1. \A n \in 1 .. Border(input) : data[n] = input.data[n]  BY <1>2 DEF KeptInv
    <3> QED  BY <1>16, <1>22, <3>1
  <2>3. Border(input) \in 0 .. Len(data')  BY <1>3, <1>7, <1>8, <1>16, <1>22
  <2>4. \A j \in DOMAIN segments' : OldNamed(segments'[j])  BY <1>21, <1>22 DEF OldNamed
  <2>5. Linkedits(segments') # {}  BY <1>15
  <2> QED  BY <1>6, <1>pc, <1>22, <2>1, <2>2, <2>3, <2>4, <2>5 DEF KeptInv
<1>24. HeaderInv'
  <2>1. commandsEnd + CommandSize <= Len(data') /\ \A o \in ContentOffsets : commandsEnd + CommandSize <= o
    BY <1>3, <1>7, <1>9, <1>10, <1>16 DEF EndsBefore
  <2>2. EndsBefore(commandsEnd + CommandSize)'  BY <1>6, <1>21, <2>1 DEF EndsBefore
  <2>3. (commandsEnd + CommandSize <= linkeditOff)'  BY <1>1, <1>6, <1>11
  <2> QED  BY <1>pc, <2>2, <2>3 DEF HeaderInv
<1>25. LayoutInv'
  <2>1. RoomFor(Code, 0, codeSize)' <=> RoomFor(Code, 0, codeSize)  BY <1>6 DEF RoomFor
  <2>2. RoomFor(Data, dataBase, dataSize)' <=> RoomFor(Data, dataBase, dataSize)  BY <1>6 DEF RoomFor
  <2> QED  BY <1>1, <1>2, <1>6, <2>1, <2>2 DEF LayoutInv
<1>26. PlaceInv'
  <2>1. /\ linkeditOff' = point /\ linkeditVa' = segments[l].va /\ place' = l  BY <1>1
  <2>2. place' \in 1 .. Len(segments') + 1  BY <1>3, <1>5, <1>15, <2>1
  <2>3. Border(input) <= linkeditOff' /\ linkeditOff' + dataBase + dataSize <= Len(data')
    <3> DEFINE p == point
    <3>1. p \in Nat /\ p <= Len(data) /\ Len(data) \in Nat  BY <1>3, <1>8
    <3>2. Border(input) = p /\ linkeditOff' = p /\ Len(data') = Len(data) + by  BY <1>16, <1>22, <2>1
    <3> HIDE DEF p
    <3> QED  BY <1>7, <1>7a, <3>1, <3>2
  <2>4. \A k \in Linkedits(segments') : /\ segments'[k].off = linkeditOff' + by
                                        /\ segments'[k].va = linkeditVa' + by
    BY <1>12, <1>15, <2>1
  <2>5. \A j \in DOMAIN segments' \ Linkedits(segments') :
          RoundedEnd(segments'[j]) <= linkeditVa' /\ segments'[j].off + segments'[j].fsize <= linkeditOff'
    BY <1>5, <1>15, <2>1
  <2>6. {linkeditOff', linkeditVa'} \subseteq Nat /\ linkeditVa' % Page = 0  BY <1>5, <1>8, <2>1
  <2> QED  BY <1>6, <2>2, <2>3, <2>4, <2>5, <2>6 DEF PlaceInv
<1>27. CavesInv'  BY <1>pc DEF CavesInv
<1>28. LinkeditMoves
  <2>1. ASSUME NEW j \in DOMAIN segments
        PROVE  segments[j].va <= segments'[j].va /\ (segments[j].name # Linkedit => segments'[j] = segments[j])
    <3>1. CASE j = l
      <4>1. segments'[j] = h /\ segments[j].name = Linkedit  BY <1>5, <1>15, <3>1
      <4>2. segments[l].va <= segments[l].va + by  BY <1>7, <1>8
      <4> QED  BY <1>12, <3>1, <4>1, <4>2
    <3>2. CASE j # l
      <4>1. segments'[j] = segments[j] /\ segments[j] \in Segment(N)  BY <1>3, <1>5, <1>15, <3>2
      <4>2. segments[j].va \in Nat
        <5> HIDE DEF N
        <5> QED  BY <4>1, SegmentIs
      <4> QED  BY <4>1, <4>2
    <3> QED  BY <3>1, <3>2
  <2>2. ASSUME NEW t \in DOMAIN tables, NEW n \in 1 .. tables[t].size
        PROVE  data'[tables'[t].off + n] = data[tables[t].off + n]
    <3> DEFINE a == tables[t].off + n
               o == tables[t].off
               z == tables[t].size
               q == tables'[t].off
               v == Len(data)
    <3>1. /\ o \in Nat /\ z \in Nat /\ n \in 1 .. z /\ point <= o /\ o + z <= v /\ a = o + n
          /\ q = o + by
      BY <1>18, <2>2
    <3>2. point \in Nat /\ by \in Nat /\ v \in Nat  BY <1>3, <1>7, <1>8
    <3>3. a \in point + 1 .. v /\ q + n = a + by
      <4> HIDE DEF a, o, z, q, v, point, by
      <4>1. n \in Nat /\ 1 <= n /\ n <= z  BY <3>1
      <4>2. a = o + n /\ a \in Nat  BY <3>1, <4>1
      <4>3. point + 1 <= a  BY <3>1, <3>2, <4>1, <4>2
      <4>4. a <= v  BY <3>1, <3>2, <4>1, <4>2
      <4>5. q + n = a + by  BY <3>1, <3>2, <4>1, <4>2
      <4> QED  BY <3>2, <4>2, <4>3, <4>4, <4>5
    <3>4. a \in point + 1 .. Len(data) /\ tables'[t].off + n = a + by  BY <3>3
    <3> HIDE DEF a, o, z, q, v, point, by
    <3> QED  BY <1>16, <3>4 DEF a, o
  <2>3. DOMAIN tables' = DOMAIN tables  BY <1>1
  <2> QED  BY <1>3, <1>15, <1>18, <2>1, <2>2, <2>3 DEF LinkeditMoves
<1> QED  BY <1>pc, <1>20, <1>23, <1>24, <1>25, <1>26, <1>27, <1>28 DEF FileParts

\* Or at the end of the file, if it has no __LINKEDIT.
LEMMA ShiftAtEnd ==
  ASSUME IInv, Shift, Linkedits(segments) = {}  PROVE FileParts' /\ pc' \in Steps
<1> DEFINE N       == NamesNow
           ends    == {segments[j].off + segments[j].fsize : j \in DOMAIN segments}
           tops    == {0} \cup {segments[j].va + segments[j].vsize : j \in DOMAIN segments}
           fileEnd == CHOOSE n \in {Len(data)} \cup ends : \A m \in ends : m <= n /\ Len(data) <= n
           end     == CHOOSE n \in tops : \A j \in DOMAIN segments : segments[j].va + segments[j].vsize <= n
           from    == AlignUp(fileEnd, Page)
           room    == from + dataBase + dataSize - Len(data)
           added   == Len(starts) - Len(input.starts)
<1>1. /\ pc = "shift" /\ pc' = "caves" /\ UNCHANGED <<asked, starts, fixups, commandsEnd, layout, segments, tables>>
      /\ linkeditOff' = from /\ linkeditVa' = AlignUp(end, Page) /\ place' = Len(segments) + 1
      /\ data' = data \o Zeros(room)
  BY DEF Shift
<1>2. /\ FileInv /\ KeptInv /\ HeaderInv /\ LayoutInv /\ PlansInv /\ input \in Inputs  BY DEF IInv, NamesInv
<1>3. /\ segments \in Seq(Segment(N)) /\ Len(segments) \in Nat /\ DOMAIN segments = 1 .. Len(segments)
      /\ \A j \in 1 .. Len(segments) : segments[j] \in Segment(N)
      /\ Len(data) \in Nat /\ commandsEnd \in Nat /\ Len(starts) \in Nat /\ added \in Nat
      /\ Sound(segments, data, tables, starts, fixups, added)
      /\ SegmentsApart(segments) /\ SegmentsHeld(segments, data, added)
      /\ LinkeditLast(segments) /\ data \in Seq(ToSet(data)) /\ ContentOffsets \subseteq Nat
  BY <1>2, FileIs
<1>4. /\ input' = input /\ plans' = plans /\ NamesNow' = NamesNow /\ Border(input)' = Border(input)
      /\ Plans' = Plans /\ Code' = Code /\ Data' = Data /\ CommandSize' = CommandSize
      /\ Linkedits(input.segments)' = Linkedits(input.segments) /\ (\A g : OldNamed(g)' <=> OldNamed(g))
      /\ starts' = starts /\ fixups' = fixups /\ commandsEnd' = commandsEnd
      /\ segments' = segments /\ tables' = tables
      /\ offsets' = offsets /\ codeSize' = codeSize /\ dataBase' = dataBase /\ dataSize' = dataSize /\ inserted' = inserted
  BY <1>1, AskedKept DEF layout
<1>5. codeSize \in Nat /\ dataBase \in Nat /\ dataSize \in Nat /\ inserted \in Nat  BY <1>1, <1>2 DEF LayoutInv
<1>6. \A j \in DOMAIN segments : /\ segments[j].off + segments[j].fsize \in Nat
                                 /\ segments[j].off + segments[j].fsize <= Len(data)
                                 /\ segments[j].va + segments[j].vsize \in Nat
  <2>1. \A j \in 1 .. Len(segments) : segments[j].off + segments[j].fsize <= Len(data)
    <3> HIDE DEF N, added
    <3> QED  BY <1>3, HeldIs
  <2>2. \A j \in 1 .. Len(segments) : /\ segments[j].off \in Nat /\ segments[j].fsize \in Nat
                                      /\ segments[j].va \in Nat /\ segments[j].vsize \in Nat
    <3> HIDE DEF N
    <3> QED  BY <1>3, SegmentIs
  <2>3. DOMAIN segments = 1 .. Len(segments)  BY <1>3
  <2>4. ASSUME NEW j \in 1 .. Len(segments)
        PROVE  segments[j].off + segments[j].fsize \in Nat /\ segments[j].va + segments[j].vsize \in Nat
    BY <2>2
  <2> QED  BY ONLY <2>1, <2>3, <2>4
\* The file ends where its segments end, or behind them.
<1>7. fileEnd = Len(data)
  <2>1. \A m \in ends : m \in Nat /\ m <= Len(data)  BY <1>6
  <2> HIDE DEF ends
  <2>2. \E n \in {Len(data)} \cup ends : \A m \in ends : m <= n /\ Len(data) <= n  BY <1>3, <2>1
  <2>3. fileEnd \in {Len(data)} \cup ends /\ \A m \in ends : m <= fileEnd /\ Len(data) <= fileEnd  BY <2>2
  <2> HIDE DEF fileEnd
  <2> QED  BY <1>3, <2>1, <2>3
<1> HIDE DEF fileEnd
<1>8. /\ from \in Nat /\ Len(data) <= from
  BY <1>3, <1>7, AlignUpNat, Constants
<1> HIDE DEF from
<1>9. end \in Nat /\ \A j \in DOMAIN segments : segments[j].va + segments[j].vsize <= end
  <2>1. tops \subseteq Nat /\ tops # {} /\ \A j \in DOMAIN segments : segments[j].va + segments[j].vsize \in tops
    BY <1>6
  <2>2. IsFiniteSet(tops)
    <3> DEFINE D == 1 .. Len(segments)
               Top(j) == segments[j].va + segments[j].vsize
               image == {Top(j) : j \in D}
    <3>1. IsFiniteSet(D)
      <4>1. 1 \in Int /\ Len(segments) \in Int  BY <1>3
      <4> QED  BY <4>1, FS_Interval
    <3>2. IsFiniteSet(image)
      <4> DEFINE F == [j \in D |-> Top(j)]
      <4>1. F \in [D -> image] /\ \A t \in image : \E j \in D : F[j] = t  OBVIOUS
      <4> HIDE DEF image, D, F
      <4>2. F \in Surjection(D, image)  BY <4>1 DEF Surjection
      <4> QED  BY <3>1, <4>2, FS_Surjection
    <3>3. tops = image \cup {0}  BY <1>3
    <3> HIDE DEF image
    <3>4. IsFiniteSet(image \cup {0})  BY <3>2, FS_AddElement
    <3> QED  BY <3>3, <3>4
  <2> HIDE DEF tops
  <2>3. tops \subseteq Int  BY <2>1
  <2>4. \E n \in tops : \A m \in tops : m <= n  BY <2>1, <2>2, <2>3, Greatest
  <2>5. \E n \in tops : \A j \in DOMAIN segments : segments[j].va + segments[j].vsize <= n  BY <2>1, <2>4
  <2>6. end \in tops /\ \A j \in DOMAIN segments : segments[j].va + segments[j].vsize <= end  BY <2>5
  <2> HIDE DEF end
  <2> QED  BY <2>1, <2>6
<1> HIDE DEF end
<1>10. room \in Nat /\ Len(data) + room = from + dataBase + dataSize  BY <1>3, <1>5, <1>8
<1>11. /\ Len(data') = from + dataBase + dataSize /\ data' \in Seq(ToSet(data'))
       /\ \A n \in 1 .. Len(data) : data'[n] = data[n]
  <2> DEFINE S == ToSet(data) \cup {Zero}
             w == Zeros(room)
  <2>1. data \in Seq(S)
    <3>1. data \in Seq(ToSet(data)) /\ ToSet(data) \subseteq S  BY <1>3
    <3> HIDE DEF S
    <3> QED  BY <3>1, SeqMonotonic
  <2> HIDE DEF room
  <2>2. w \in Seq(S) /\ Len(w) = room
    <3>1. Zero \in S  OBVIOUS
    <3> HIDE DEF S
    <3>2. w \in [1 .. room -> S]  BY <3>1 DEF Zeros
    <3> QED  BY <1>10, <3>2 DEF Zeros
  <2>3. data' = data \o w  BY <1>1
  <2> HIDE DEF S, w
  <2>4. /\ data' \in Seq(S) /\ Len(data') = Len(data) + Len(w)
        /\ \A n \in 1 .. Len(data) + Len(w) : data'[n] = IF n <= Len(data) THEN data[n] ELSE w[n - Len(data)]
    BY <2>1, <2>2, <2>3, ConcatProperties
  <2>5. data' \in Seq(ToSet(data'))  BY <2>4, OwnElements
  <2>6. \A n \in 1 .. Len(data) : n \in 1 .. Len(data) + Len(w) /\ n <= Len(data)  BY <1>3, <1>10, <2>2
  <2> QED  BY <1>10, <2>2, <2>4, <2>5, <2>6
<1>12. DOMAIN tables = {}  BY <1>3, NoTables
<1>13. Sound(segments, data', tables, starts, fixups, added)
  <2>1. SegmentsHeld(segments, data', added)
    <3>1. SUFFICES ASSUME NEW j \in DOMAIN segments
                   PROVE  /\ segments[j].off + segments[j].fsize <= Len(data')
                          /\ segments[j].fsize <= segments[j].vsize + (IF segments[j].name = Linkedit THEN added ELSE 0)
      BY DEF SegmentsHeld
    <3>2. segments[j].fsize <= segments[j].vsize + (IF segments[j].name = Linkedit THEN added ELSE 0)
      BY <1>3 DEF SegmentsHeld
    <3>3. segments[j].off + segments[j].fsize <= Len(data')  BY <1>3, <1>5, <1>6, <1>8, <1>11
    <3> QED  BY <3>2, <3>3
  <2>2. TablesHeld(segments, data', tables) /\ StartsHeld(tables, starts, fixups)  BY <1>12 DEF TablesHeld, StartsHeld
  <2>3. starts \in Seq(Nat)  BY <1>3 DEF Sound
  <2> QED  BY <1>3, <1>11, <1>12, <2>1, <2>2, <2>3 DEF Sound
<1>pc. /\ pc' \in Shifted /\ pc' \notin Written /\ pc \notin Shifted /\ pc \notin Written /\ pc' = "caves"
       /\ pc' \notin {"name", "named", "signature"} /\ pc' \in Steps
  BY <1>1 DEF Shifted, Written, Steps
<1>14. FileInv'
  <2>1. Sound(segments, data, tables, starts, fixups, Len(starts) - Len(input.starts))'  BY <1>4, <1>13
  <2>2. (segments \in Seq(Segment(NamesNow)))'  BY <1>3, <1>4
  <2>3. (Len(input.starts) <= Len(starts) /\ commandsEnd \in Nat)'  BY <1>2, <1>4 DEF FileInv
  <2> QED  BY <2>1, <2>2, <2>3 DEF FileInv
<1>15. Border(input) \in 0 .. Len(data) /\ \A n \in 1 .. Border(input) : data[n] = input.data[n]  BY <1>2 DEF KeptInv
<1>16. KeptInv'
  <2>1. Border(input) \in 0 .. Len(data')  BY <1>3, <1>5, <1>8, <1>11, <1>15
  <2>2. \A n \in 1 .. Border(input) : data'[n] = input.data[n]
    <3>1. \A n \in 1 .. Border(input) : n \in 1 .. Len(data)  BY <1>3, <1>15
    <3> QED  BY <1>11, <1>15, <3>1
  <2>3. \A j \in DOMAIN segments' : OldNamed(segments[j])'
    <3>1. \A j \in DOMAIN segments : OldNamed(segments[j])  BY <1>2, <1>pc DEF KeptInv
    <3> QED  BY <1>4, <3>1
  <2> QED  BY <1>2, <1>4, <1>pc, <2>1, <2>2, <2>3 DEF KeptInv
<1>17. HeaderInv'
  <2>1. EndsBefore(commandsEnd + CommandSize)  BY <1>1, <1>2 DEF HeaderInv
  <2>2. CommandSize \in Nat  BY <1>2, CommandSizeIs DEF PlansInv
  <2>3. ContentOffsets' = ContentOffsets  BY <1>4 DEF ContentOffsets
  <2>4. commandsEnd + CommandSize <= Len(data') /\ commandsEnd + CommandSize <= from
    <3> DEFINE c == commandsEnd + CommandSize
    <3>1. c \in Nat /\ c <= Len(data)  BY <1>3, <2>1, <2>2 DEF EndsBefore
    <3> HIDE DEF c
    <3> QED  BY <1>3, <1>5, <1>8, <1>11, <3>1 DEF c
  <2>5. EndsBefore(commandsEnd + CommandSize)'  BY <1>4, <2>1, <2>3, <2>4 DEF EndsBefore
  <2>6. (commandsEnd + CommandSize <= linkeditOff)'  BY <1>1, <1>4, <2>4
  <2> QED  BY <1>pc, <2>5, <2>6 DEF HeaderInv
<1>18. LayoutInv'
  <2>1. RoomFor(Code, 0, codeSize)' <=> RoomFor(Code, 0, codeSize)  BY <1>4 DEF RoomFor
  <2>2. RoomFor(Data, dataBase, dataSize)' <=> RoomFor(Data, dataBase, dataSize)  BY <1>4 DEF RoomFor
  <2> QED  BY <1>1, <1>2, <1>4, <2>1, <2>2 DEF LayoutInv
<1>19. PlaceInv'
  <2>1. linkeditOff' = from /\ linkeditVa' = AlignUp(end, Page) /\ place' = Len(segments) + 1  BY <1>1
  <2>2. linkeditVa' \in Nat /\ linkeditVa' % Page = 0
    <3>1. end \in Nat /\ end \in Int  BY <1>9
    <3>2. AlignUp(end, Page) \in Nat  BY <3>1, AlignUpNat, Constants
    <3>3. AlignUp(end, Page) % Page = 0  BY <3>1, AlignUpMultiple, Constants
    <3> QED  BY <2>1, <3>2, <3>3
  <2>3. place' \in 1 .. Len(segments) + 1  BY <1>3, <2>1
  <2>4. Border(input) <= from  BY <1>3, <1>8, <1>15
  <2>5. linkeditOff' + dataBase + dataSize <= Len(data')  BY <1>5, <1>8, <1>11, <2>1
  <2>6. ASSUME NEW j \in DOMAIN segments
        PROVE  RoundedEnd(segments[j]) <= linkeditVa' /\ segments[j].off + segments[j].fsize <= linkeditOff'
    <3>1. RoundedEnd(segments[j]) <= AlignUp(end, Page)
      <4> DEFINE a == segments[j].va + segments[j].vsize
      <4>1. a \in Int /\ end \in Int /\ a <= end  BY <1>6, <1>9
      <4> HIDE DEF a
      <4>2. AlignUp(a, Page) <= AlignUp(end, Page)  BY <4>1, AlignUpGrows, Constants
      <4> QED  BY <4>2 DEF a, RoundedEnd
    <3>2. segments[j].off + segments[j].fsize <= from  BY <1>3, <1>6, <1>8
    <3> QED  BY <2>1, <3>1, <3>2
  <2>7. Linkedits(segments') = {}  BY <1>4
  <2> QED  BY <1>4, <1>8, <2>1, <2>2, <2>3, <2>4, <2>5, <2>6, <2>7 DEF PlaceInv
<1>20. CavesInv'  BY <1>pc DEF CavesInv
<1> QED  BY <1>pc, <1>14, <1>16, <1>17, <1>18, <1>19, <1>20 DEF FileParts

-----------------------------------------------------------------------------
(* The caves.                                                               *)

Pushed(j, at, by) == IF j <= at THEN j ELSE j + by

Pushes(e, d, w, at) ==
  /\ \A j \in 1 .. Len(d) : Pushed(j, at, Len(w)) \in 1 .. Len(e) /\ e[Pushed(j, at, Len(w))] = d[j]
  /\ \A n \in 1 .. Len(w) : at + n \in 1 .. Len(e) /\ e[at + n] = w[n]
  /\ \A m \in 1 .. Len(e) : \/ \E j \in 1 .. Len(d) : m = Pushed(j, at, Len(w))
                            \/ \E n \in 1 .. Len(w) : m = at + n

\* What is behind a place is pushed by what is inserted there.
LEMMA PushesFrom ==
  ASSUME NEW d, NEW w, NEW e, Len(d) \in Nat, Len(w) \in Nat, NEW at \in 0 .. Len(d),
         Len(e) = Len(d) + Len(w), \A n \in 1 .. at : e[n] = d[n],
         \A n \in 1 .. Len(w) : e[at + n] = w[n], \A n \in at + 1 .. Len(d) : e[n + Len(w)] = d[n]
  PROVE  Pushes(e, d, w, at)
<1> DEFINE k == Len(w)
           len == Len(d)
<1>2. /\ len \in Nat /\ k \in Nat /\ at \in Nat /\ at <= len /\ Len(e) = len + k
      /\ \A n \in 1 .. at : e[n] = d[n]
      /\ \A n \in 1 .. k : e[at + n] = w[n]
      /\ \A n \in at + 1 .. len : e[n + k] = d[n]
  OBVIOUS
<1> HIDE DEF k, len
<1>3. ASSUME NEW j \in 1 .. len  PROVE Pushed(j, at, k) \in 1 .. Len(e) /\ e[Pushed(j, at, k)] = d[j]
  <2>1. CASE j <= at
    <3>1. j \in 1 .. at /\ Pushed(j, at, k) = j  BY <1>2, <2>1 DEF Pushed
    <3>2. j \in 1 .. Len(e) /\ e[j] = d[j]  BY <1>2, <3>1
    <3> QED  BY <3>1, <3>2
  <2>2. CASE ~(j <= at)
    <3>1. j \in at + 1 .. len /\ Pushed(j, at, k) = j + k  BY <1>2, <2>2 DEF Pushed
    <3>2. j + k \in 1 .. Len(e) /\ e[j + k] = d[j]  BY <1>2, <3>1
    <3> QED  BY <3>1, <3>2
  <2> QED  BY <2>1, <2>2
<1>4. \A n \in 1 .. k : at + n \in 1 .. Len(e)  BY <1>2
<1>5. ASSUME NEW m \in 1 .. Len(e)
      PROVE  (\E j \in 1 .. len : m = Pushed(j, at, k)) \/ \E n \in 1 .. k : m = at + n
  <2>1. CASE m <= at
    <3>1. m \in 1 .. len /\ m = Pushed(m, at, k)  BY <1>2, <2>1 DEF Pushed
    <3> QED  BY <3>1
  <2>2. CASE at < m /\ m <= at + k
    <3>1. m - at \in 1 .. k /\ m = at + (m - at)  BY <1>2, <2>2
    <3> QED  BY <3>1
  <2>3. CASE at + k < m
    <3> DEFINE j == m - k
    <3>1. j \in 1 .. len /\ ~(j <= at) /\ m = j + k  BY <1>2, <2>3
    <3> HIDE DEF j
    <3>2. m = Pushed(j, at, k)  BY <3>1 DEF Pushed
    <3> QED  BY <3>1, <3>2
  <2> QED  BY <1>2, <2>1, <2>2, <2>3
<1> QED  BY <1>2, <1>3, <1>4, <1>5 DEF k, len, Pushes

\* What a sequence holds once another is inserted.
LEMMA InsertedAre ==
  ASSUME NEW S, NEW d \in Seq(S), NEW w \in Seq(S), NEW at \in 0 .. Len(d)
  PROVE  LET e == SubSeq(d, 1, at) \o w \o SubSeq(d, at + 1, Len(d))
         IN  e \in Seq(S) /\ Len(e) = Len(d) + Len(w) /\ Pushes(e, d, w, at)
<1> DEFINE e == SubSeq(d, 1, at) \o w \o SubSeq(d, at + 1, Len(d))
<1>1. /\ e \in Seq(S) /\ Len(e) = Len(d) + Len(w)
      /\ \A n \in 1 .. at : e[n] = d[n]
      /\ \A n \in 1 .. Len(w) : e[at + n] = w[n]
      /\ \A n \in at + 1 .. Len(d) : e[n + Len(w)] = d[n]
  BY Inserted
<1>2. Len(d) \in Nat /\ Len(w) \in Nat  OBVIOUS
<1> HIDE DEF e
<1>3. Pushes(e, d, w, at)  BY <1>1, <1>2, PushesFrom
<1> QED  BY <1>1, <1>3 DEF e

\* Finite sets of numbers.
LEMMA PartOfInterval ==
  ASSUME NEW a \in Int, NEW b \in Int, NEW S, S \subseteq a .. b
  PROVE  IsFiniteSet(S) /\ S \subseteq Int
<1> DEFINE U == a .. b
<1>1. IsFiniteSet(U)  BY FS_Interval
<1>2. S \in SUBSET U  OBVIOUS
<1>3. S \subseteq Int  OBVIOUS
<1> HIDE DEF U
<1> QED  BY <1>1, <1>2, <1>3, FS_Subset

\* What the names have in common is a sequence.
LEMMA PrefixIs ==
  ASSUME NamesInv, PlansInv, plans # <<>>
  PROVE  \E S : CommonPrefix \in Seq(S)
<1> DEFINE first  == plans[1].name
           shared == {n \in 0 .. Len(first) : \A i \in Plans : n <= Len(plans[i].name) /\ SubSeq(plans[i].name, 1, n) = SubSeq(first, 1, n)}
           most   == CHOOSE n \in shared : \A m \in shared : m <= n
<1>1. CommonPrefix = SubSeq(first, 1, most)  BY DEF CommonPrefix
<1>2. \A i \in Plans : /\ plans[i].name \in Seq(ToSet(plans[i].name)) /\ Len(plans[i].name) \in Nat
                       /\ SubSeq(plans[i].name, 1, 0) = <<>>
  <2> TAKE i \in Plans
  <2> DEFINE name == plans[i].name
  <2>1. name \in Seq(ToSet(name))
    <3>1. name \in used  BY PlansAre
    <3> QED  BY <3>1 DEF NamesInv
  <2> HIDE DEF name
  <2>2. 1 \in Int /\ 0 \in Int /\ \A k \in 1 .. 0 : name[k] \in ToSet(name)  OBVIOUS
  <2>3. SubSeq(name, 1, 0) \in Seq(ToSet(name)) /\ Len(SubSeq(name, 1, 0)) = IF 1 <= 0 THEN 0 - 1 + 1 ELSE 0
    BY <2>1, <2>2, SubSeqProperties
  <2>4. SubSeq(name, 1, 0) = <<>>  BY <2>3
  <2> QED  BY <2>1, <2>4 DEF name
<1>3. 1 \in Plans
  <2>1. Len(plans) \in Nat /\ Len(plans) # 0
    <3>1. plans \in Seq(Plan(used))  BY DEF PlansInv
    <3> QED  BY <3>1
  <2> QED  BY <2>1 DEF Plans
<1>4. first \in Seq(ToSet(first)) /\ Len(first) \in Nat  BY <1>2, <1>3
<1>5. 0 \in shared
  <2>1. SubSeq(first, 1, 0) = <<>> /\ \A i \in Plans : 0 <= Len(plans[i].name)  BY <1>2, <1>3
  <2> QED  BY <1>2, <1>4, <2>1
<1>6. shared \subseteq 0 .. Len(first)  OBVIOUS
<1> HIDE DEF shared
<1>7. most \in 0 .. Len(first)
  <2>1. 0 \in Int /\ Len(first) \in Int /\ shared # {}  BY <1>4, <1>5
  <2>2. IsFiniteSet(shared) /\ shared \subseteq Int
    <3> DEFINE b == Len(first)
    <3>1. 0 \in Int /\ b \in Int /\ shared \subseteq 0 .. b  BY <1>6, <2>1
    <3> HIDE DEF b
    <3> QED  BY <3>1, PartOfInterval
  <2>3. \E n \in shared : \A m \in shared : m <= n  BY <2>1, <2>2, Greatest
  <2>4. most \in shared  BY <2>3
  <2> QED  BY <1>6, <2>4
<1> HIDE DEF first, most
<1>8. SubSeq(first, 1, most) \in Seq(ToSet(first))
  <2>1. 1 \in Int /\ most \in Int /\ \A k \in 1 .. most : first[k] \in ToSet(first)
    <3>1. \A k \in 1 .. Len(first) : first[k] \in ToSet(first)  BY <1>4
    <3> QED  BY <1>4, <1>7, <3>1
  <2> QED  BY <1>4, <2>1, SubSeqProperties
<1> QED  BY <1>1, <1>8

\* A cave is not called __LINKEDIT: its name has more symbols.
LEMMA CaveNameIs ==
  ASSUME NamesInv, PlansInv, plans # <<>>, NEW suffix
  PROVE  CaveName(suffix) # Linkedit
<1> DEFINE base  == IF CommonPrefix = <<>> THEN <<"armcave">> ELSE CommonPrefix
           short == IF Len(base) > MaxBase THEN SubSeq(base, 1, MaxBase) ELSE base
           head  == IF Last(short) = "_" THEN short ELSE Append(short, "_")
           tail  == <<suffix>>
<1>1. CaveName(suffix) = head \o tail  BY DEF CaveName
<1>2. PICK S : CommonPrefix \in Seq(S)  BY PrefixIs
<1> DEFINE T == S \cup {"armcave"}
           U == T \cup {"_", suffix}
<1>3. base \in Seq(T) /\ base # <<>>
  <2>1. S \subseteq T /\ <<"armcave">> \in Seq(T) /\ <<"armcave">> # <<>>  OBVIOUS
  <2> HIDE DEF T
  <2>2. CommonPrefix \in Seq(T)  BY <1>2, <2>1, SeqMonotonic
  <2> QED  BY <2>1, <2>2
<1> HIDE DEF base
<1>4. MaxBase \in Nat \ {0}  BY Constants
<1>5. short \in Seq(T) /\ Len(short) \in Nat \ {0}
  <2>0. Len(base) \in Nat /\ Len(base) # 0 /\ \A k \in 1 .. Len(base) : base[k] \in T
    <3> HIDE DEF T
    <3> QED  BY <1>3
  <2>1. CASE Len(base) > MaxBase
    <3> HIDE DEF T
    <3>1. 1 \in Int /\ MaxBase \in Int /\ \A k \in 1 .. MaxBase : base[k] \in T  BY <1>4, <2>0, <2>1
    <3>2. SubSeq(base, 1, MaxBase) \in Seq(T)
          /\ Len(SubSeq(base, 1, MaxBase)) = IF 1 <= MaxBase THEN MaxBase - 1 + 1 ELSE 0
      BY <3>1, SubSeqProperties
    <3> QED  BY <1>4, <2>1, <3>2
  <2>2. CASE ~(Len(base) > MaxBase)
    <3>1. short = base  BY <2>2
    <3> HIDE DEF T, short
    <3> QED  BY <1>3, <2>0, <3>1
  <2> QED  BY <2>1, <2>2
<1> HIDE DEF short
<1>6. head \in Seq(U) /\ Len(head) \in Nat \ {0}
  <2>1. T \subseteq U /\ "_" \in U  OBVIOUS
  <2> HIDE DEF T, U
  <2>2. short \in Seq(U)  BY <1>5, <2>1, SeqMonotonic
  <2>3. Append(short, "_") \in Seq(U) /\ Len(Append(short, "_")) = Len(short) + 1  BY <2>1, <2>2, AppendProperties
  <2>4. head = short \/ head = Append(short, "_")  OBVIOUS
  <2> DEFINE long == Append(short, "_")
             m    == Len(short)
  <2>5. head = short \/ head = long  BY <2>4
  <2>6. short \in Seq(U) /\ long \in Seq(U) /\ Len(short) = m /\ Len(long) = m + 1 /\ m \in Nat \ {0}
    BY <1>5, <2>2, <2>3
  <2> HIDE DEF head, long, m
  <2>7. head \in Seq(U)  BY <2>5, <2>6
  <2>8. Len(head) = m \/ Len(head) = m + 1  BY <2>5, <2>6
  <2> QED  BY <2>6, <2>7, <2>8
<1>7. tail \in Seq(U) /\ Len(tail) = 1  OBVIOUS
<1> HIDE DEF head, tail, U
<1>8. Len(head \o tail) = Len(head) + Len(tail)  BY <1>6, <1>7, ConcatProperties
<1>9. Len(CaveName(suffix)) # 1  BY <1>1, <1>6, <1>7, <1>8
<1>10. Len(Linkedit) = 1  BY DEF Linkedit
<1> QED  BY <1>9, <1>10

CaveMade(g, suffix, base, size, group) ==
  /\ g \in Segment(NamesNow) /\ IsCave(g, suffix, base, group)
  /\ g.vsize = size /\ g.off = linkeditOff + base /\ g.fsize = size
  /\ \A n \in DOMAIN g.sections : \E i \in group : g.sections[n] = SectionOf(i)
  /\ \A i \in group : \E n \in DOMAIN g.sections : g.sections[n] = SectionOf(i)

\* A cave has the sections of its group, the first of them first.
LEMMA CaveIs ==
  ASSUME PlansInv, NEW group, group \subseteq Plans, group # {}, offsets \in [Plans -> Nat],
         linkeditOff \in Nat, linkeditVa \in Nat, NEW base \in Nat, NEW size \in Nat, NEW suffix, CaveName(suffix) \in NamesNow
  PROVE  CaveMade(Cave(suffix, base, size, group), suffix, base, size, group)
<1> DEFINE N      == NamesNow
           c      == Cardinality(group)
           chosen == Ascending(group)
           s      == CaveSections(group)
           g      == Cave(suffix, base, size, group)
<1>1. Len(plans) \in Nat /\ Plans = 1 .. Len(plans) /\ \A i \in Plans : plans[i].size \in Nat /\ plans[i].name \in N
  BY PlansAre DEF NamesNow
<1>2. /\ chosen \in [1 .. c -> group] /\ c \in Nat
      /\ \A m, n \in 1 .. c : m < n => chosen[m] < chosen[n]
      /\ \A x \in group : \E n \in 1 .. c : chosen[n] = x
  <2>1. IsFiniteSet(group) /\ group \subseteq Int
    <3> DEFINE b == Len(plans)
    <3>1. 1 \in Int /\ b \in Int /\ group \subseteq 1 .. b  BY <1>1
    <3> HIDE DEF b
    <3> QED  BY <3>1, PartOfInterval
  <2> QED  BY <2>1, AscendingLists
<1>3. s = [n \in 1 .. c |-> SectionOf(chosen[n])]
  <2>1. s = [n \in DOMAIN chosen |-> SectionOf(chosen[n])]  BY DEF CaveSections, SectionOf
  <2> HIDE DEF s, chosen, c
  <2>2. DOMAIN chosen = 1 .. c  BY <1>2
  <2> QED  BY <2>1, <2>2
<1> HIDE DEF s, chosen, c, N
<1>4. \A i \in group : SectionOf(i) \in Section(N) /\ i \in Int
  <2> TAKE i \in group
  <2>1. offsets[i] \in Nat /\ plans[i].size \in Nat /\ plans[i].name \in N /\ i \in Int  BY <1>1
  <2>2. linkeditVa + offsets[i] \in Nat /\ linkeditOff + offsets[i] \in Nat  BY <2>1
  <2> QED  BY <2>1, <2>2 DEF SectionOf, Section
<1>5. s \in Seq(Section(N)) /\ DOMAIN s = 1 .. c
  <2>1. s \in [1 .. c -> Section(N)]  BY <1>2, <1>3, <1>4
  <2> QED  BY <1>2, <2>1
<1>6. \A n \in 1 .. c : chosen[n] \in group /\ s[n] = SectionOf(chosen[n])  BY <1>2, <1>3
<1>7. \A i \in group : \E n \in 1 .. c : s[n] = SectionOf(i)
  <2> TAKE i \in group
  <2>1. PICK n \in 1 .. c : chosen[n] = i  BY <1>2
  <2> QED  BY <1>6, <2>1
<1>8. 1 \in 1 .. c
  <2>1. PICK i \in group : TRUE  OBVIOUS
  <2>2. PICK n \in 1 .. c : chosen[n] = i  BY <1>2, <2>1
  <2> QED  BY <1>2, <2>2
<1>9. \A k \in group : chosen[1] <= k
  <2> TAKE k \in group
  <2>1. PICK n \in 1 .. c : chosen[n] = k  BY <1>2
  <2>2. n = 1 \/ chosen[1] < chosen[n]  BY <1>2, <1>8, <2>1
  <2>3. chosen[1] \in Int /\ k \in Int  BY <1>4, <1>6, <1>8
  <2> QED  BY <2>1, <2>2, <2>3
<1>10. g = [name |-> CaveName(suffix), va |-> linkeditVa + base, vsize |-> size,
            off |-> linkeditOff + base, fsize |-> size, sections |-> s]
  BY DEF Cave, s
<1> HIDE DEF g
<1>11. /\ g.name = CaveName(suffix) /\ g.va = linkeditVa + base /\ g.vsize = size
       /\ g.off = linkeditOff + base /\ g.fsize = size /\ g.sections = s
  BY <1>10
<1>12. g \in Segment(N)
  <2>1. linkeditVa + base \in Nat /\ linkeditOff + base \in Nat /\ CaveName(suffix) \in N  BY DEF N
  <2> QED  BY <1>5, <1>10, <2>1 DEF Segment
<1>13. IsCave(g, suffix, base, group)
  <2>1. \A n \in DOMAIN s : \E i \in group : s[n] = SectionOf(i) /\ (n = 1 => \A k \in group : i <= k)
    <3> SUFFICES ASSUME NEW n \in DOMAIN s
                 PROVE  \E i \in group : s[n] = SectionOf(i) /\ (n = 1 => \A k \in group : i <= k)
      OBVIOUS
    <3>1. chosen[n] \in group /\ s[n] = SectionOf(chosen[n])  BY <1>5, <1>6
    <3>2. n = 1 => \A k \in group : chosen[n] <= k  BY <1>9
    <3> QED  BY <3>1, <3>2
  <2>2. 1 \in DOMAIN s  BY <1>5, <1>8
  <2> QED  BY <1>11, <2>1, <2>2 DEF IsCave
<1>14. \A n \in DOMAIN s : \E i \in group : s[n] = SectionOf(i)  BY <1>5, <1>6
<1> QED  BY <1>5, <1>7, <1>11, <1>12, <1>13, <1>14 DEF CaveMade, N, g

Room ==
  /\ \A i \in Plans : /\ offsets[i] \in Nat /\ plans[i].size \in Nat \ {0}
                      /\ offsets[i] + plans[i].size <= dataBase + dataSize
  /\ \A i, k \in Plans : i # k => offsets[i] + plans[i].size <= offsets[k] \/ offsets[k] + plans[k].size <= offsets[i]
  /\ codeSize <= dataBase /\ dataBase + dataSize <= inserted /\ inserted # 0
  /\ Code # {} => codeSize # 0
  /\ Data # {} => dataSize # 0
  /\ \A a \in Nat : a % Page = 0 => /\ AlignUp(a + codeSize, Page) = a + dataBase
                                    /\ AlignUp((a + dataBase) + dataSize, Page) = a + inserted

\* Nobody's room is anybody else's.
LEMMA Rooms ==
  ASSUME PlansInv, LayoutInv, pc \in Shifted \cup {"shift"}, plans # <<>>
  PROVE  Room /\ {codeSize, dataBase, dataSize, inserted} \subseteq Nat /\ offsets \in [Plans -> Nat]
<1>1. /\ {codeSize, dataBase, dataSize, inserted} \subseteq Nat
      /\ offsets \in [Plans -> Nat]
      /\ RoomFor(Code, 0, codeSize) /\ RoomFor(Data, dataBase, dataSize)
      /\ dataBase = AlignUp(codeSize, Page) /\ inserted = AlignUp(dataBase + dataSize, Page)
  BY DEF LayoutInv
<1>2. /\ Len(plans) \in Nat /\ Plans = 1 .. Len(plans) /\ \A i \in Plans : plans[i].size \in Nat \ {0}
      /\ Code \subseteq Plans /\ Data \subseteq Plans /\ \A i \in Plans : i \in Code <=> i \notin Data
  BY PlansAre
<1>3. codeSize \in Nat /\ dataBase \in Nat /\ dataSize \in Nat /\ inserted \in Nat  BY <1>1
<1>4. codeSize <= dataBase  BY <1>1, <1>3, AlignUpNat, Constants
<1>5. dataBase + dataSize <= inserted
  <2> DEFINE n == dataBase + dataSize
  <2>1. n \in Nat /\ inserted = AlignUp(n, Page)  BY <1>1, <1>3
  <2> HIDE DEF n
  <2>2. n <= inserted  BY <2>1, AlignUpNat, Constants
  <2> QED  BY <2>2 DEF n
<1>6. /\ \A i \in Code : offsets[i] + plans[i].size <= codeSize
      /\ \A i \in Data : dataBase <= offsets[i] /\ offsets[i] + plans[i].size <= dataBase + dataSize
      /\ \A i, k \in Code : i < k => offsets[i] + plans[i].size <= offsets[k]
      /\ \A i, k \in Data : i < k => offsets[i] + plans[i].size <= offsets[k]
  <2>1. \A i \in Code : offsets[i] + plans[i].size <= 0 + codeSize  BY <1>1 DEF RoomFor
  <2>2. 0 + codeSize = codeSize  BY <1>3
  <2> QED  BY <1>1, <2>1, <2>2 DEF RoomFor
<1>7. \A i \in Plans : offsets[i] \in Nat /\ plans[i].size \in Nat \ {0}  BY <1>1, <1>2
<1>8. ASSUME NEW i \in Plans  PROVE offsets[i] + plans[i].size <= dataBase + dataSize
  <2>1. CASE i \in Code
    <3>1. offsets[i] + plans[i].size <= codeSize  BY <1>6, <2>1
    <3> QED  BY <1>3, <1>4, <1>7, <3>1
  <2>2. CASE i \in Data  BY <1>6, <2>2
  <2> QED  BY <1>2, <2>1, <2>2
<1>9. ASSUME NEW i \in Plans, NEW k \in Plans, i < k
      PROVE  offsets[i] + plans[i].size <= offsets[k] \/ offsets[k] + plans[k].size <= offsets[i]
  <2>1. CASE (i \in Code /\ k \in Code) \/ (i \in Data /\ k \in Data)  BY <1>6, <1>9, <2>1
  <2>2. CASE i \in Code /\ k \in Data
    <3>1. offsets[i] + plans[i].size <= codeSize /\ dataBase <= offsets[k]  BY <1>6, <2>2
    <3> QED  BY <1>3, <1>4, <1>7, <3>1
  <2>3. CASE i \in Data /\ k \in Code
    <3>1. offsets[k] + plans[k].size <= codeSize /\ dataBase <= offsets[i]  BY <1>6, <2>3
    <3> QED  BY <1>3, <1>4, <1>7, <3>1
  <2> QED  BY <1>2, <2>1, <2>2, <2>3
<1>10. \A i, k \in Plans : i # k => offsets[i] + plans[i].size <= offsets[k] \/ offsets[k] + plans[k].size <= offsets[i]
  <2> SUFFICES ASSUME NEW i \in Plans, NEW k \in Plans, i # k
               PROVE  offsets[i] + plans[i].size <= offsets[k] \/ offsets[k] + plans[k].size <= offsets[i]
    OBVIOUS
  <2>1. i < k \/ k < i  BY <1>2
  <2> QED  BY <1>9, <2>1
<1>11. Code # {} => codeSize # 0
  <2> SUFFICES ASSUME NEW i \in Code  PROVE codeSize # 0  OBVIOUS
  <2>1. offsets[i] + plans[i].size <= codeSize  BY <1>6
  <2> QED  BY <1>2, <1>3, <1>7, <2>1
<1>12. Data # {} => dataSize # 0
  <2> SUFFICES ASSUME NEW i \in Data  PROVE dataSize # 0  OBVIOUS
  <2>1. dataBase <= offsets[i] /\ offsets[i] + plans[i].size <= dataBase + dataSize  BY <1>6
  <2>2. offsets[i] \in Nat /\ plans[i].size \in Nat \ {0}  BY <1>2, <1>7
  <2> QED  BY <1>3, <2>1, <2>2
<1>13. inserted # 0
  <2>1. 1 \in Plans
    <3>1. plans \in Seq(Plan(used))  BY DEF PlansInv
    <3>2. Len(plans) # 0  BY <3>1
    <3> QED  BY <1>2, <3>2
  <2>2. offsets[1] + plans[1].size <= dataBase + dataSize  BY <1>8, <2>1
  <2>3. offsets[1] \in Nat /\ plans[1].size \in Nat \ {0}  BY <1>7, <2>1
  <2> QED  BY <1>3, <1>5, <2>2, <2>3
<1>14. ASSUME NEW a \in Nat, a % Page = 0
       PROVE  /\ AlignUp(a + codeSize, Page) = a + dataBase
              /\ AlignUp((a + dataBase) + dataSize, Page) = a + inserted
  <2>1. AlignUp(a + codeSize, Page) = a + dataBase
    <3>1. codeSize \in Int /\ a \in Int  BY <1>3
    <3>2. AlignUp(a + codeSize, Page) = a + AlignUp(codeSize, Page)  BY <1>14, <3>1, AlignUpFrom, Constants
    <3> QED  BY <1>1, <3>2
  <2>2. AlignUp((a + dataBase) + dataSize, Page) = a + inserted
    <3> DEFINE n == dataBase + dataSize
    <3>1. n \in Int /\ a \in Int /\ (a + dataBase) + dataSize = a + n /\ inserted = AlignUp(n, Page)  BY <1>1, <1>3
    <3> HIDE DEF n
    <3>2. AlignUp(a + n, Page) = a + AlignUp(n, Page)  BY <1>14, <3>1, AlignUpFrom, Constants
    <3> QED  BY <3>1, <3>2
  <2> QED  BY <2>1, <2>2
<1> QED  BY <1>1, <1>4, <1>5, <1>7, <1>8, <1>10, <1>11, <1>12, <1>13, <1>14 DEF Room

\* A segment between what was in front of __LINKEDIT and where that is now.
Fits(g) ==
  /\ g \in Segment(NamesNow) /\ g.name # Linkedit
  /\ linkeditVa <= g.va /\ RoundedEnd(g) <= linkeditVa + inserted
  /\ linkeditOff <= g.off /\ g.off + g.fsize <= linkeditOff + dataBase + dataSize
  /\ g.fsize # 0 /\ g.fsize = g.vsize
  /\ \A n \in DOMAIN g.sections : linkeditOff <= g.sections[n].off
                                  /\ g.sections[n].off < linkeditOff + dataBase + dataSize

AllFit(w) ==
  /\ w \in Seq(Segment(NamesNow))
  /\ \A n \in 1 .. Len(w) : Fits(w[n]) /\ (IsCave(w[n], "code", 0, Code) \/ IsCave(w[n], "data", dataBase, Data))
  /\ \A m, n \in 1 .. Len(w) : m # n => Apart(w[m], w[n])
  /\ \A i \in Plans : \E n \in 1 .. Len(w) : \E k \in DOMAIN w[n].sections : w[n].sections[k] = SectionOf(i)

\* A cave that was made for a group fits where the group's room is.
LEMMA CaveFits ==
  ASSUME Room, {codeSize, dataBase, dataSize, inserted, linkeditOff, linkeditVa} \subseteq Nat,
         NEW group, group \subseteq Plans, NEW suffix, CaveName(suffix) # Linkedit,
         NEW base \in Nat, NEW size \in Nat, size # 0, base + size <= dataBase + dataSize,
         NEW top \in Nat, top <= inserted, AlignUp((linkeditVa + base) + size, Page) = linkeditVa + top,
         NEW g, CaveMade(g, suffix, base, size, group)
  PROVE  Fits(g)
<1>1. /\ g \in Segment(NamesNow) /\ g.name = CaveName(suffix) /\ g.va = linkeditVa + base
      /\ g.vsize = size /\ g.off = linkeditOff + base /\ g.fsize = size
      /\ \A n \in DOMAIN g.sections : \E i \in group : g.sections[n] = SectionOf(i)
  BY DEF CaveMade, IsCave
<1>2. RoundedEnd(g) = linkeditVa + top  BY <1>1 DEF RoundedEnd
<1>3. linkeditVa <= g.va /\ linkeditVa + top <= linkeditVa + inserted
      /\ linkeditOff <= g.off /\ g.off + g.fsize <= linkeditOff + dataBase + dataSize
  BY <1>1
<1>4. ASSUME NEW n \in DOMAIN g.sections
      PROVE  linkeditOff <= g.sections[n].off /\ g.sections[n].off < linkeditOff + dataBase + dataSize
  <2>1. PICK i \in group : g.sections[n] = SectionOf(i)  BY <1>1
  <2>2. g.sections[n].off = linkeditOff + offsets[i]  BY <2>1 DEF SectionOf
  <2>3. i \in Plans  OBVIOUS
  <2>4. offsets[i] \in Nat /\ plans[i].size \in Nat \ {0} /\ offsets[i] + plans[i].size <= dataBase + dataSize
    BY <2>3 DEF Room
  <2> QED  BY <2>2, <2>4
<1> QED  BY <1>1, <1>2, <1>3, <1>4 DEF Fits

\* The caves fit, apart from each other, and have all the sections.
LEMMA NewFit ==
  ASSUME NamesInv, PlansInv, plans # <<>>, LayoutInv, pc \in Shifted,
         linkeditOff \in Nat, linkeditVa \in Nat, linkeditVa % Page = 0
  PROVE  AllFit(NewSegments)
<1> DEFINE N == NamesNow
           c == Cave("code", 0, codeSize, Code)
           d == Cave("data", dataBase, dataSize, Data)
           a == IF Code = {} THEN <<>> ELSE <<c>>
           b == IF Data = {} THEN <<>> ELSE <<d>>
           w == a \o b
<1>1. Room /\ {codeSize, dataBase, dataSize, inserted} \subseteq Nat /\ offsets \in [Plans -> Nat]  BY Rooms
<1>2. codeSize \in Nat /\ dataBase \in Nat /\ dataSize \in Nat /\ inserted \in Nat  BY <1>1
<1>3. Code \subseteq Plans /\ Data \subseteq Plans /\ \A i \in Plans : i \in Code \/ i \in Data  BY PlansAre
<1>4. CaveName("code") \in N /\ CaveName("data") \in N  BY DEF NamesNow
<1>5. CaveName("code") # Linkedit /\ CaveName("data") # Linkedit  BY CaveNameIs
<1>6. /\ codeSize <= dataBase /\ dataBase + dataSize <= inserted
      /\ Code # {} => codeSize # 0
      /\ Data # {} => dataSize # 0
      /\ AlignUp(linkeditVa + codeSize, Page) = linkeditVa + dataBase
      /\ AlignUp((linkeditVa + dataBase) + dataSize, Page) = linkeditVa + inserted
  BY <1>1 DEF Room
<1>7. ASSUME Code # {}
      PROVE  CaveMade(c, "code", 0, codeSize, Code) /\ Fits(c) /\ RoundedEnd(c) = linkeditVa + dataBase
  <2>1. CaveMade(c, "code", 0, codeSize, Code)
    <3>1. 0 \in Nat  OBVIOUS
    <3> QED  BY <1>1, <1>2, <1>3, <1>4, <1>7, <3>1, CaveIs
  <2>2. /\ codeSize # 0 /\ 0 + codeSize <= dataBase + dataSize /\ dataBase <= inserted /\ 0 \in Nat
        /\ {codeSize, dataBase, dataSize, inserted, linkeditOff, linkeditVa} \subseteq Nat
    BY <1>2, <1>6, <1>7
  <2>3. AlignUp((linkeditVa + 0) + codeSize, Page) = linkeditVa + dataBase
    <3>1. linkeditVa + 0 = linkeditVa  OBVIOUS
    <3> QED  BY <1>6, <3>1
  <2> DEFINE zero == 0
             name == "code"
  <2>4. /\ zero \in Nat /\ zero + codeSize <= dataBase + dataSize
        /\ AlignUp((linkeditVa + zero) + codeSize, Page) = linkeditVa + dataBase
        /\ CaveMade(c, name, zero, codeSize, Code) /\ CaveName(name) # Linkedit
    BY <1>5, <2>1, <2>2, <2>3
  <2> HIDE DEF c, N, zero, name
  <2>5. Fits(c)  BY <1>1, <1>2, <1>3, <2>2, <2>4, CaveFits
  <2>6. c.va = linkeditVa + zero /\ c.vsize = codeSize  BY <2>4 DEF CaveMade, IsCave
  <2>7. RoundedEnd(c) = linkeditVa + dataBase  BY <2>4, <2>6 DEF RoundedEnd
  <2> QED  BY <2>1, <2>5, <2>7
<1>8. ASSUME Data # {}
      PROVE  CaveMade(d, "data", dataBase, dataSize, Data) /\ Fits(d)
  <2>1. CaveMade(d, "data", dataBase, dataSize, Data)
    BY <1>1, <1>2, <1>3, <1>4, <1>8, CaveIs
  <2>2. /\ dataSize # 0 /\ dataBase + dataSize <= dataBase + dataSize /\ inserted <= inserted
        /\ {codeSize, dataBase, dataSize, inserted, linkeditOff, linkeditVa} \subseteq Nat
    BY <1>2, <1>6, <1>8
  <2> HIDE DEF d, N
  <2>4. Fits(d)  BY <1>1, <1>2, <1>3, <1>5, <1>6, <2>1, <2>2, CaveFits
  <2> QED  BY <2>1, <2>4
<1>9. ASSUME Code # {}, Data # {}  PROVE Apart(c, d) /\ Apart(d, c)
  <2>1. /\ c.off = linkeditOff + 0 /\ c.fsize = codeSize
        /\ d.off = linkeditOff + dataBase /\ d.va = linkeditVa + dataBase
    BY <1>7, <1>8, <1>9 DEF CaveMade, IsCave
  <2> HIDE DEF c, d
  <2>2. RoundedEnd(c) <= d.va /\ c.off + c.fsize <= d.off  BY <1>2, <1>6, <1>7, <1>9, <2>1
  <2> QED  BY <2>2 DEF Apart
<1>10. /\ Code # {} => c \in Segment(N) /\ IsCave(c, "code", 0, Code) /\ \A i \in Code : \E k \in DOMAIN c.sections : c.sections[k] = SectionOf(i)
       /\ Data # {} => d \in Segment(N) /\ IsCave(d, "data", dataBase, Data) /\ \A i \in Data : \E k \in DOMAIN d.sections : d.sections[k] = SectionOf(i)
  BY <1>7, <1>8 DEF CaveMade
<1> HIDE DEF c, d, N
<1>11. /\ Code = {} /\ Data # {} => w = <<d>>
       /\ Code # {} /\ Data = {} => w = <<c>>
       /\ Code # {} /\ Data # {} => w = <<c>> \o <<d>>
  <2>1. <<>> \o <<d>> = <<d>> /\ <<c>> \o <<>> = <<c>>
    <3>1. <<c>> \in Seq({c, d}) /\ <<d>> \in Seq({c, d})  OBVIOUS
    <3> QED  BY <3>1, ConcatEmptySeq
  <2>2. Code = {} /\ Data # {} => w = <<>> \o <<d>>  OBVIOUS
  <2>3. Code # {} /\ Data = {} => w = <<c>> \o <<>>  OBVIOUS
  <2>4. Code # {} /\ Data # {} => w = <<c>> \o <<d>>  OBVIOUS
  <2> HIDE DEF w
  <2> QED  BY <2>1, <2>2, <2>3, <2>4
<1>12. Code # {} \/ Data # {}
  <2>1. Len(plans) \in Nat /\ Len(plans) # 0
    <3>1. plans \in Seq(Plan(used))  BY DEF PlansInv
    <3> QED  BY <3>1
  <2>2. 1 \in Plans  BY <2>1 DEF Plans
  <2> QED  BY <1>3, <2>2
<1> HIDE DEF w
<1>13. CASE Code = {}
  <2>1. w = <<d>> /\ Data # {} /\ d \in Segment(N)  BY <1>10, <1>11, <1>12, <1>13
  <2>2. w \in Seq(Segment(N)) /\ Len(w) = 1 /\ w[1] = d /\ \A n \in 1 .. Len(w) : n = 1  BY <2>1
  <2>3. \A i \in Plans : \E k \in DOMAIN w[1].sections : w[1].sections[k] = SectionOf(i)  BY <1>3, <1>10, <1>13, <2>1, <2>2
  <2>4. \A i \in Plans : \E n \in 1 .. Len(w) : \E k \in DOMAIN w[n].sections : w[n].sections[k] = SectionOf(i)
    <3>1. 1 \in 1 .. Len(w)  BY <2>2
    <3> QED  BY <2>3, <3>1
  <2>5. AllFit(w)  BY <1>8, <1>10, <2>1, <2>2, <2>4 DEF AllFit, N
  <2> QED  BY <2>5 DEF w, c, d, NewSegments
<1>14. CASE Data = {}
  <2>1. w = <<c>> /\ Code # {} /\ c \in Segment(N)  BY <1>10, <1>11, <1>12, <1>14
  <2>2. w \in Seq(Segment(N)) /\ Len(w) = 1 /\ w[1] = c /\ \A n \in 1 .. Len(w) : n = 1  BY <2>1
  <2>3. \A i \in Plans : \E k \in DOMAIN w[1].sections : w[1].sections[k] = SectionOf(i)  BY <1>3, <1>10, <1>14, <2>1, <2>2
  <2>4. \A i \in Plans : \E n \in 1 .. Len(w) : \E k \in DOMAIN w[n].sections : w[n].sections[k] = SectionOf(i)
    <3>1. 1 \in 1 .. Len(w)  BY <2>2
    <3> QED  BY <2>3, <3>1
  <2>5. AllFit(w)  BY <1>7, <1>10, <2>1, <2>2, <2>4 DEF AllFit, N
  <2> QED  BY <2>5 DEF w, c, d, NewSegments
<1>15. CASE Code # {} /\ Data # {}
  <2>1. /\ w \in Seq(Segment(N)) /\ Len(w) = 2 /\ w[1] = c /\ w[2] = d
    <3> DEFINE S == Segment(N)
               x == <<c>>
               y == <<d>>
    <3>1. w = x \o y  BY <1>11, <1>15
    <3>2. c \in S /\ d \in S  BY <1>10, <1>15
    <3> HIDE DEF S
    <3>3. x \in Seq(S) /\ y \in Seq(S) /\ Len(x) = 1 /\ Len(y) = 1 /\ x[1] = c /\ y[1] = d  BY <3>2
    <3> HIDE DEF x, y
    <3>4. /\ x \o y \in Seq(S) /\ Len(x \o y) = Len(x) + Len(y)
          /\ \A i \in 1 .. Len(x) + Len(y) : (x \o y)[i] = IF i <= Len(x) THEN x[i] ELSE y[i - Len(x)]
      BY <3>3, ConcatProperties
    <3>5. 1 \in 1 .. Len(x) + Len(y) /\ 2 \in 1 .. Len(x) + Len(y) /\ 1 <= Len(x) /\ ~(2 <= Len(x)) /\ 2 - Len(x) = 1
      BY <3>3
    <3>6. (x \o y)[1] = x[1] /\ (x \o y)[2] = y[1]  BY <3>4, <3>5
    <3> QED  BY <3>1, <3>3, <3>4, <3>6 DEF S
  <2>2. /\ w \in Seq(Segment(N)) /\ Len(w) = 2 /\ w[1] = c /\ w[2] = d
        /\ 1 \in 1 .. Len(w) /\ 2 \in 1 .. Len(w) /\ \A n \in 1 .. Len(w) : n = 1 \/ n = 2
    BY <2>1
  <2>3. \A i \in Plans : \E n \in 1 .. Len(w) : \E k \in DOMAIN w[n].sections : w[n].sections[k] = SectionOf(i)
    <3> SUFFICES ASSUME NEW i \in Plans
                 PROVE  \E n \in 1 .. Len(w) : \E k \in DOMAIN w[n].sections : w[n].sections[k] = SectionOf(i)
      OBVIOUS
    <3>1. CASE i \in Code
      <4>1. \E k \in DOMAIN w[1].sections : w[1].sections[k] = SectionOf(i)  BY <1>10, <1>15, <2>2, <3>1
      <4> QED  BY <2>2, <4>1
    <3>2. CASE i \in Data
      <4>1. \E k \in DOMAIN w[2].sections : w[2].sections[k] = SectionOf(i)  BY <1>10, <1>15, <2>2, <3>2
      <4> QED  BY <2>2, <4>1
    <3> QED  BY <1>3, <3>1, <3>2
  <2>4. \A m, n \in 1 .. Len(w) : m # n => Apart(w[m], w[n])  BY <1>9, <1>15, <2>2
  <2>5. \A n \in 1 .. Len(w) : Fits(w[n]) /\ (IsCave(w[n], "code", 0, Code) \/ IsCave(w[n], "data", dataBase, Data))
    BY <1>7, <1>8, <1>10, <1>15, <2>2
  <2>6. AllFit(w)  BY <2>2, <2>3, <2>4, <2>5 DEF AllFit, N
  <2> QED  BY <2>6 DEF w, c, d, NewSegments
<1> QED  BY <1>13, <1>14, <1>15

Filled(new) ==
  /\ Len(new) = Len(data) /\ new \in Seq(ToSet(new))
  /\ \A n \in 1 .. Len(data) : n <= linkeditOff \/ linkeditOff + dataBase + dataSize < n => new[n] = data[n]
  /\ \A i \in Plans : \A n \in 0 .. plans[i].size - 1 : new[linkeditOff + offsets[i] + n + 1] = Content(i, n)

\* Each room is filled with its own content, and nothing else is touched.
LEMMA RoomsFilled ==
  ASSUME PlansInv, Room, {dataBase, dataSize, linkeditOff} \subseteq Nat,
         Len(data) \in Nat, data \in Seq(ToSet(data)), linkeditOff + dataBase + dataSize <= Len(data), WriteCaves
  PROVE  Filled(data')
<1> DEFINE In(i, n) == n - 1 - linkeditOff \in offsets[i] .. offsets[i] + plans[i].size - 1
           Holds(n) == IF \E i \in Plans : In(i, n)
                      THEN LET i == CHOOSE i \in Plans : In(i, n) IN Content(i, n - 1 - linkeditOff - offsets[i])
                      ELSE data[n]
<1>1. data' = [n \in DOMAIN data |-> Holds(n)] /\ DOMAIN data = 1 .. Len(data)
  <2>1. data' = [n \in DOMAIN data |-> Holds(n)]  BY DEF WriteCaves
  <2>2. DOMAIN data = 1 .. Len(data)
    <3> HIDE DEF WriteCaves
    <3> QED  OBVIOUS
  <2> QED  BY <2>1, <2>2
<1>2. dataBase \in Nat /\ dataSize \in Nat /\ linkeditOff \in Nat  OBVIOUS
<1>3. /\ \A i \in Plans : /\ offsets[i] \in Nat /\ plans[i].size \in Nat \ {0}
                          /\ offsets[i] + plans[i].size <= dataBase + dataSize
      /\ \A i, k \in Plans : i # k => offsets[i] + plans[i].size <= offsets[k] \/ offsets[k] + plans[k].size <= offsets[i]
  BY DEF Room
<1>4. ASSUME NEW n \in Int, NEW i \in Plans, In(i, n)
      PROVE  /\ \A k \in Plans : In(k, n) => k = i
             /\ linkeditOff < n /\ n <= linkeditOff + dataBase + dataSize
  <2>1. offsets[i] \in Nat /\ plans[i].size \in Nat \ {0} /\ offsets[i] + plans[i].size <= dataBase + dataSize  BY <1>3
  <2>2. ASSUME NEW k \in Plans, In(k, n), k # i  PROVE FALSE
    <3>1. offsets[k] \in Nat /\ plans[k].size \in Nat \ {0}  BY <1>3
    <3>2. offsets[i] + plans[i].size <= offsets[k] \/ offsets[k] + plans[k].size <= offsets[i]  BY <1>3, <2>2
    <3> DEFINE a == offsets[i]
               b == plans[i].size
               c == offsets[k]
               d == plans[k].size
               m == n - 1 - linkeditOff
    <3>3. /\ a \in Nat /\ b \in Nat \ {0} /\ c \in Nat /\ d \in Nat \ {0} /\ m \in Int
          /\ m \in a .. a + b - 1 /\ m \in c .. c + d - 1 /\ (a + b <= c \/ c + d <= a)
      BY <1>2, <1>4, <2>1, <2>2, <3>1, <3>2
    <3> HIDE DEF a, b, c, d, m
    <3> QED  BY <3>3
  <2>3. linkeditOff < n /\ n <= linkeditOff + dataBase + dataSize
    <3> DEFINE o == offsets[i]
               z == plans[i].size
               r == n - 1 - linkeditOff
    <3>1. r \in o .. o + z - 1 /\ o \in Nat /\ z \in Nat /\ o + z <= dataBase + dataSize  BY <1>4, <2>1
    <3>2. n = linkeditOff + r + 1 /\ r \in Int  BY <1>2
    <3> HIDE DEF o, z, r
    <3>3. 0 <= r /\ r + 1 <= dataBase + dataSize  BY <1>2, <3>1, <3>2
    <3> QED  BY <1>2, <3>2, <3>3
  <2> QED  BY <2>2, <2>3
<1>5. ASSUME NEW n \in 1 .. Len(data), NEW i \in Plans, In(i, n)
      PROVE  data'[n] = Content(i, n - 1 - linkeditOff - offsets[i])
  <2>1. (CHOOSE k \in Plans : In(k, n)) = i
    <3>1. \A k \in Plans : In(k, n) => k = i  BY <1>4, <1>5
    <3> HIDE DEF In
    <3> QED  BY <1>5, <3>1
  <2>2. data'[n] = Holds(n)  BY <1>1
  <2> HIDE DEF In
  <2> QED  BY <1>5, <2>1, <2>2
<1>6. ASSUME NEW i \in Plans, NEW n \in 0 .. plans[i].size - 1
      PROVE  data'[linkeditOff + offsets[i] + n + 1] = Content(i, n)
  <2> DEFINE m == linkeditOff + offsets[i] + n + 1
  <2>1. offsets[i] \in Nat /\ plans[i].size \in Nat \ {0} /\ offsets[i] + plans[i].size <= dataBase + dataSize  BY <1>3
  <2>2. /\ m - 1 - linkeditOff = offsets[i] + n /\ m - 1 - linkeditOff - offsets[i] = n /\ m \in 1 .. Len(data)
        /\ offsets[i] + n \in offsets[i] .. offsets[i] + plans[i].size - 1
    <3> DEFINE o == offsets[i]
               z == plans[i].size
    <3>1. o \in Nat /\ z \in Nat /\ n \in 0 .. z - 1 /\ o + z <= dataBase + dataSize /\ m = linkeditOff + o + n + 1
      BY <2>1
    <3> HIDE DEF o, z, m
    <3>2. m - 1 - linkeditOff = o + n /\ m - 1 - linkeditOff - o = n /\ o + n \in o .. o + z - 1  BY <1>2, <3>1
    <3>3. m \in Int /\ 1 <= m /\ m <= linkeditOff + dataBase + dataSize  BY <1>2, <3>1
    <3>4. m \in 1 .. Len(data)  BY <1>2, <3>3
    <3> QED  BY <3>2, <3>4 DEF o, z
  <2>3. In(i, m)
    <3> HIDE DEF m
    <3> QED  BY <2>2
  <2> HIDE DEF In, m
  <2>4. data'[m] = Content(i, m - 1 - linkeditOff - offsets[i])  BY <1>5, <2>2, <2>3
  <2> QED  BY <2>2, <2>4 DEF m
<1>7. ASSUME NEW n \in 1 .. Len(data), n <= linkeditOff \/ linkeditOff + dataBase + dataSize < n
      PROVE  data'[n] = data[n]
  <2>1. \A i \in Plans : ~In(i, n)
    <3> SUFFICES ASSUME NEW i \in Plans, In(i, n)  PROVE FALSE  OBVIOUS
    <3>1. linkeditOff < n /\ n <= linkeditOff + dataBase + dataSize
      <4>1. n \in Int  OBVIOUS
      <4> HIDE DEF In
      <4> QED  BY <1>4, <4>1
    <3> QED  BY <1>2, <1>7, <3>1
  <2> HIDE DEF In
  <2> QED  BY <1>1, <2>1
<1> HIDE DEF Holds
<1>8. Len(data') = Len(data) /\ data' \in Seq(ToSet(data'))
  <2>1. DOMAIN data' = 1 .. Len(data) /\ data' = [n \in 1 .. Len(data) |-> data'[n]]  BY <1>1
  <2>2. data' \in [1 .. Len(data) -> ToSet(data')]  BY <2>1 DEF ToSet
  <2> HIDE DEF WriteCaves
  <2>3. data' \in Seq(ToSet(data'))  BY <2>2
  <2>4. DOMAIN data' = 1 .. Len(data') /\ Len(data') \in Nat  BY <2>3
  <2> QED  BY <2>1, <2>3, <2>4
<1> QED  BY <1>6, <1>7, <1>8 DEF Filled

\* The caves are in front of __LINKEDIT and behind the others.
Between ==
  /\ {dataBase, dataSize, inserted, linkeditOff, linkeditVa} \subseteq Nat
  /\ dataBase + dataSize <= inserted /\ linkeditOff + dataBase + dataSize <= Len(data)
  /\ \A l \in Linkedits(segments) : segments[l].off = linkeditOff + inserted /\ segments[l].va = linkeditVa + inserted
  /\ \A j \in DOMAIN segments \ Linkedits(segments) :
       RoundedEnd(segments[j]) <= linkeditVa /\ segments[j].off + segments[j].fsize <= linkeditOff

With(e, w, at) ==
  /\ SegmentsApart(e) /\ LinkeditLast(e)
  /\ \A j \in 1 .. Len(segments) : j \in Linkedits(segments) <=> Pushed(j, at, Len(w)) \in Linkedits(e)
  /\ \A l \in Linkedits(e) : \E k \in Linkedits(segments) : l = Pushed(k, at, Len(w))

\* With them it is still last, and all are apart.
LEMMA ApartWith ==
  ASSUME segments \in Seq(Segment(NamesNow)), SegmentsApart(segments), LinkeditLast(segments), Between,
         NEW w, AllFit(w), NEW at \in Int, NEW e \in Seq(Segment(NamesNow)), Pushes(e, segments, w, at)
  PROVE  With(e, w, at)
<1> DEFINE N == NamesNow
           k == Len(w)
           P(j) == Pushed(j, at, k)
<1>1. /\ Len(segments) \in Nat /\ DOMAIN segments = 1 .. Len(segments)
      /\ \A j \in 1 .. Len(segments) : segments[j] \in Segment(N)
      /\ Len(e) \in Nat /\ DOMAIN e = 1 .. Len(e) /\ \A m \in 1 .. Len(e) : e[m] \in Segment(N)
  BY PartsAre
<1>2. /\ \A j \in 1 .. Len(segments) : P(j) \in 1 .. Len(e) /\ e[P(j)] = segments[j]
      /\ \A n \in 1 .. k : at + n \in 1 .. Len(e) /\ e[at + n] = w[n]
      /\ \A m \in 1 .. Len(e) : (\E j \in 1 .. Len(segments) : m = P(j)) \/ \E n \in 1 .. k : m = at + n
  BY DEF Pushes
<1>3. \A n \in 1 .. k : Fits(w[n])  BY DEF AllFit
<1> HIDE DEF P
<1>4. dataBase \in Nat /\ dataSize \in Nat /\ inserted \in Nat /\ linkeditOff \in Nat /\ linkeditVa \in Nat
      /\ dataBase + dataSize <= inserted
  BY DEF Between
<1>5. Linkedits(segments) \subseteq 1 .. Len(segments)  BY <1>1 DEF Linkedits
<1>6. \A j \in 1 .. Len(segments) : j \in Linkedits(segments) <=> P(j) \in Linkedits(e)
  BY <1>1, <1>2 DEF Linkedits
<1>7. ASSUME NEW l \in Linkedits(e)  PROVE \E j \in Linkedits(segments) : l = P(j)
  <2>1. l \in 1 .. Len(e) /\ e[l].name = Linkedit  BY <1>1 DEF Linkedits
  <2>2. \A n \in 1 .. k : l # at + n
    <3>1. \A n \in 1 .. k : w[n].name # Linkedit  BY <1>3 DEF Fits
    <3>2. \A n \in 1 .. k : e[at + n].name # Linkedit  BY <1>2, <3>1
    <3> HIDE DEF k
    <3> QED  BY <2>1, <3>2
  <2>3. PICK j \in 1 .. Len(segments) : l = P(j)  BY <1>2, <2>1, <2>2
  <2> QED  BY <1>6, <2>3
<1>8. ASSUME NEW g, Fits(g)
      PROVE  /\ g \in Segment(N) /\ g.name # Linkedit
             /\ \A j \in 1 .. Len(segments) : Apart(g, segments[j]) /\ Apart(segments[j], g)
             /\ \A l \in Linkedits(segments) :
                  /\ RoundedEnd(g) <= segments[l].va /\ g.off < segments[l].off /\ g.off + g.fsize <= segments[l].off
                  /\ \A n \in DOMAIN g.sections : g.sections[n].off < segments[l].off
  <2>1. /\ g \in Segment(N) /\ g.name # Linkedit
        /\ linkeditVa <= g.va /\ RoundedEnd(g) <= linkeditVa + inserted
        /\ linkeditOff <= g.off /\ g.off + g.fsize <= linkeditOff + dataBase + dataSize /\ g.fsize # 0
        /\ \A n \in DOMAIN g.sections : g.sections[n].off < linkeditOff + dataBase + dataSize
    BY <1>8 DEF Fits
  <2>2. g.off \in Nat /\ g.va \in Nat /\ g.fsize \in Nat /\ RoundedEnd(g) \in Nat
        /\ \A n \in DOMAIN g.sections : g.sections[n].off \in Nat
    <3> HIDE DEF N
    <3> QED  BY <2>1, SegmentIs
  <2>3. ASSUME NEW l \in Linkedits(segments)
        PROVE  /\ RoundedEnd(g) <= segments[l].va /\ g.off < segments[l].off /\ g.off + g.fsize <= segments[l].off
               /\ \A n \in DOMAIN g.sections : g.sections[n].off < segments[l].off
    <3>1. segments[l].off = linkeditOff + inserted /\ segments[l].va = linkeditVa + inserted  BY DEF Between
    <3>2. \A n \in DOMAIN g.sections : g.sections[n].off < linkeditOff + inserted
      <4> TAKE n \in DOMAIN g.sections
      <4>1. g.sections[n].off \in Nat /\ g.sections[n].off < linkeditOff + dataBase + dataSize  BY <2>1, <2>2
      <4> QED  BY <1>4, <4>1
    <3>3. g.off < linkeditOff + inserted /\ g.off + g.fsize <= linkeditOff + inserted  BY <1>4, <2>1, <2>2
    <3> QED  BY <2>1, <3>1, <3>2, <3>3
  <2>4. ASSUME NEW j \in 1 .. Len(segments)  PROVE Apart(g, segments[j]) /\ Apart(segments[j], g)
    <3>1. CASE j \in Linkedits(segments)  BY <2>3, <3>1 DEF Apart
    <3>2. CASE j \notin Linkedits(segments)
      <4>1. RoundedEnd(segments[j]) <= linkeditVa /\ segments[j].off + segments[j].fsize <= linkeditOff
        BY <1>1, <3>2 DEF Between
      <4>2. segments[j].off \in Nat /\ segments[j].fsize \in Nat /\ RoundedEnd(segments[j]) \in Nat
        <5> HIDE DEF N
        <5> QED  BY <1>1, SegmentIs
      <4>3. RoundedEnd(segments[j]) <= g.va /\ segments[j].off + segments[j].fsize <= g.off
        <5> DEFINE r == RoundedEnd(segments[j])
                   x == segments[j].off + segments[j].fsize
        <5>1. r \in Nat /\ x \in Nat /\ r <= linkeditVa /\ x <= linkeditOff  BY <4>1, <4>2
        <5> HIDE DEF r, x
        <5>2. r <= g.va /\ x <= g.off  BY <1>4, <2>1, <2>2, <5>1
        <5> QED  BY <5>2 DEF r, x
      <4> QED  BY <4>3 DEF Apart
    <3> QED  BY <3>1, <3>2
  <2> QED  BY <2>1, <2>3, <2>4
<1>9. LinkeditLast(e)
  <2> SUFFICES ASSUME NEW l \in Linkedits(e)
               PROVE  /\ e[l].va % Page = 0 /\ e[l].sections = <<>>
                      /\ \A j \in DOMAIN e \ {l} :
                           /\ e[j].name # Linkedit /\ RoundedEnd(e[j]) <= e[l].va
                           /\ e[j].off < e[l].off /\ e[j].off + e[j].fsize <= e[l].off
                           /\ \A n \in DOMAIN e[j].sections : e[j].sections[n].off < e[l].off
    BY DEF LinkeditLast
  <2>1. PICK o \in Linkedits(segments) : l = P(o)  BY <1>7
  <2>2. o \in 1 .. Len(segments) /\ e[l] = segments[o]  BY <1>2, <1>5, <2>1
  <2>3. /\ segments[o].va % Page = 0 /\ segments[o].sections = <<>>
        /\ \A j \in 1 .. Len(segments) : j # o =>
             /\ segments[j].name # Linkedit /\ RoundedEnd(segments[j]) <= segments[o].va
             /\ segments[j].off < segments[o].off /\ segments[j].off + segments[j].fsize <= segments[o].off
             /\ \A n \in DOMAIN segments[j].sections : segments[j].sections[n].off < segments[o].off
    <3> HIDE DEF N
    <3> QED  BY <2>1, LastIs
  <2>4. ASSUME NEW m \in DOMAIN e \ {l}
        PROVE  /\ e[m].name # Linkedit /\ RoundedEnd(e[m]) <= segments[o].va
               /\ e[m].off < segments[o].off /\ e[m].off + e[m].fsize <= segments[o].off
               /\ \A n \in DOMAIN e[m].sections : e[m].sections[n].off < segments[o].off
    <3>1. m \in 1 .. Len(e) /\ m # l  BY <1>1
    <3>2. CASE \E j \in 1 .. Len(segments) : m = P(j)
      <4>1. PICK j \in 1 .. Len(segments) : m = P(j)  BY <3>2
      <4>2. j # o /\ e[m] = segments[j]  BY <1>2, <2>1, <3>1, <4>1
      <4> QED  BY <2>3, <4>2
    <3>3. CASE \E n \in 1 .. k : m = at + n
      <4>1. PICK n \in 1 .. k : m = at + n  BY <3>3
      <4>2. e[m] = w[n] /\ Fits(w[n])  BY <1>2, <1>3, <4>1
      <4> QED  BY <1>8, <2>1, <4>2
    <3> QED  BY <1>2, <3>1, <3>2, <3>3
  <2> QED  BY <2>2, <2>3, <2>4
<1>10. SegmentsApart(e)
  <2>1. \A i, j \in 1 .. Len(segments) : i # j => Apart(segments[i], segments[j])
    <3> HIDE DEF N
    <3> QED  BY ApartIs
  <2>2. \A m, n \in 1 .. k : m # n => Apart(w[m], w[n])  BY DEF AllFit
  <2>3. ASSUME NEW m \in 1 .. Len(e), NEW n \in 1 .. Len(e), m # n  PROVE Apart(e[m], e[n])
    <3>1. CASE \E j \in 1 .. Len(segments) : m = P(j)
      <4>1. PICK i \in 1 .. Len(segments) : m = P(i)  BY <3>1
      <4>2. e[m] = segments[i]  BY <1>2, <4>1
      <4>3. CASE \E j \in 1 .. Len(segments) : n = P(j)
        <5>1. PICK j \in 1 .. Len(segments) : n = P(j)  BY <4>3
        <5>2. i # j /\ e[n] = segments[j]  BY <1>2, <2>3, <4>1, <5>1
        <5> QED  BY <2>1, <4>2, <5>2
      <4>4. CASE \E o \in 1 .. k : n = at + o
        <5>1. PICK o \in 1 .. k : n = at + o  BY <4>4
        <5>2. e[n] = w[o] /\ Fits(w[o])  BY <1>2, <1>3, <5>1
        <5> QED  BY <1>8, <4>2, <5>2
      <4> QED  BY <1>2, <4>3, <4>4
    <3>2. CASE \E o \in 1 .. k : m = at + o
      <4>1. PICK p \in 1 .. k : m = at + p  BY <3>2
      <4>2. e[m] = w[p] /\ Fits(w[p])  BY <1>2, <1>3, <4>1
      <4>3. CASE \E j \in 1 .. Len(segments) : n = P(j)
        <5>1. PICK j \in 1 .. Len(segments) : n = P(j)  BY <4>3
        <5>2. e[n] = segments[j]  BY <1>2, <5>1
        <5> QED  BY <1>8, <4>2, <5>2
      <4>4. CASE \E o \in 1 .. k : n = at + o
        <5>1. PICK o \in 1 .. k : n = at + o  BY <4>4
        <5>2. e[n] = w[o] /\ o # p  BY <1>2, <2>3, <4>1, <5>1
        <5> QED  BY <2>2, <4>2, <5>2
      <4> QED  BY <1>2, <4>3, <4>4
    <3> QED  BY <1>2, <3>1, <3>2
  <2> QED  BY <1>1, <2>3 DEF SegmentsApart, Apart
<1> QED  BY <1>6, <1>7, <1>9, <1>10 DEF With, P

\* The caves are written, and their load commands.
LEMMA WriteCavesKeeps ==
  ASSUME IInv, WriteCaves  PROVE FileParts' /\ pc' \in Steps
<1> DEFINE N     == NamesNow
           w     == NewSegments
           e     == segments'
           at    == place - 1
           added == Len(starts) - Len(input.starts)
           P(j)  == Pushed(j, at, Len(w))
<1>1. /\ pc = "caves" /\ pc' = "code fixups" /\ UNCHANGED <<asked, tables, starts, fixups, layout, target>>
      /\ e = SubSeq(segments, 1, at) \o w \o SubSeq(segments, place, Len(segments))
      /\ commandsEnd' = commandsEnd + CommandSize
  BY DEF WriteCaves
<1>2. /\ FileInv /\ KeptInv /\ HeaderInv /\ LayoutInv /\ PlaceInv /\ PlansInv /\ NamesInv /\ input \in Inputs /\ plans # <<>>
  <2>1. pc \notin {"name", "named", "failed"}  BY <1>1
  <2> QED  BY <2>1 DEF IInv, NamesInv, PlansInv
<1>3. /\ segments \in Seq(Segment(N)) /\ Len(segments) \in Nat /\ DOMAIN segments = 1 .. Len(segments)
      /\ Len(data) \in Nat /\ commandsEnd \in Nat /\ added \in Nat
      /\ Sound(segments, data, tables, starts, fixups, added)
      /\ SegmentsApart(segments) /\ SegmentsHeld(segments, data, added)
      /\ LinkeditLast(segments) /\ data \in Seq(ToSet(data)) /\ ContentOffsets \subseteq Nat
  BY <1>2, FileIs
<1>4. /\ input' = input /\ plans' = plans /\ NamesNow' = N /\ Border(input)' = Border(input)
      /\ Plans' = Plans /\ Code' = Code /\ Data' = Data
      /\ CaveName("code")' = CaveName("code") /\ CaveName("data")' = CaveName("data")
      /\ Linkedits(input.segments)' = Linkedits(input.segments) /\ (\A g : OldNamed(g)' <=> OldNamed(g))
      /\ starts' = starts /\ fixups' = fixups /\ tables' = tables
      /\ offsets' = offsets /\ codeSize' = codeSize /\ dataBase' = dataBase /\ dataSize' = dataSize /\ inserted' = inserted
      /\ linkeditOff' = linkeditOff /\ linkeditVa' = linkeditVa /\ place' = place
  BY <1>1, AskedKept DEF layout, target
<1>pc. /\ pc' \in Shifted /\ pc' \in Written /\ pc \in Shifted /\ pc \notin Written /\ pc' # "caves"
       /\ pc' \notin {"name", "named", "signature", "place", "shift", "caves"} /\ pc' \in Steps
  BY <1>1 DEF Shifted, Written, Steps
<1>5. /\ linkeditOff \in Nat /\ linkeditVa \in Nat /\ linkeditVa % Page = 0
      /\ place \in 1 .. Len(segments) + 1
      /\ Border(input) <= linkeditOff /\ linkeditOff + dataBase + dataSize <= Len(data)
      /\ \A l \in Linkedits(segments) : segments[l].off = linkeditOff + inserted /\ segments[l].va = linkeditVa + inserted
      /\ \A j \in DOMAIN segments \ Linkedits(segments) :
           RoundedEnd(segments[j]) <= linkeditVa /\ segments[j].off + segments[j].fsize <= linkeditOff
  BY <1>1, <1>2, <1>pc DEF PlaceInv
<1>6. Room /\ {codeSize, dataBase, dataSize, inserted} \subseteq Nat
  BY <1>2, <1>pc, Rooms
<1>6a. dataBase \in Nat /\ dataSize \in Nat /\ inserted \in Nat  BY <1>6
<1>6b. linkeditOff + dataBase + dataSize \in Nat /\ linkeditOff + dataBase + dataSize <= Len(data)  BY <1>5, <1>6a
<1>7. Between
  <2>1. dataBase + dataSize <= inserted  BY <1>6 DEF Room
  <2> QED  BY <1>5, <1>6, <2>1 DEF Between
<1>8. AllFit(w)  BY <1>2, <1>5, <1>pc, NewFit
<1>9. Filled(data')
  <2>1. {dataBase, dataSize, linkeditOff} \subseteq Nat  BY <1>5, <1>6
  <2> QED  BY <1>2, <1>3, <1>5, <1>6, <2>1, RoomsFilled
<1>10. /\ Len(data') = Len(data) /\ data' \in Seq(ToSet(data'))
       /\ \A n \in 1 .. Len(data) : n <= linkeditOff \/ linkeditOff + dataBase + dataSize < n => data'[n] = data[n]
       /\ \A i \in Plans : \A n \in 0 .. plans[i].size - 1 : data'[linkeditOff + offsets[i] + n + 1] = Content(i, n)
  BY <1>9 DEF Filled
<1> HIDE DEF w
<1>11. w \in Seq(Segment(N)) /\ Len(w) \in Nat /\ \A n \in 1 .. Len(w) : Fits(w[n])
  BY <1>8 DEF AllFit
<1>12. e \in Seq(Segment(N)) /\ Len(e) = Len(segments) + Len(w) /\ Pushes(e, segments, w, at) /\ at \in Int
  <2> DEFINE S == Segment(N)
             d == segments
  <2>1. at \in 0 .. Len(d) /\ at + 1 = place /\ d \in Seq(S) /\ w \in Seq(S)  BY <1>3, <1>5, <1>11
  <2>2. e = SubSeq(d, 1, at) \o w \o SubSeq(d, at + 1, Len(d))  BY <1>1, <2>1
  <2> HIDE DEF S, d, e, at
  <2>3. e \in Seq(S) /\ Len(e) = Len(d) + Len(w) /\ Pushes(e, d, w, at)  BY <2>1, <2>2, InsertedAre
  <2> QED  BY <2>1, <2>3 DEF S, d
<1> HIDE DEF at
<1>13. With(e, w, at)
  <2> HIDE DEF e
  <2> QED  BY <1>3, <1>7, <1>8, <1>12, ApartWith
<1>14. /\ Len(e) \in Nat /\ DOMAIN e = 1 .. Len(e)
       /\ \A j \in 1 .. Len(segments) : P(j) \in 1 .. Len(e) /\ e[P(j)] = segments[j]
       /\ \A n \in 1 .. Len(w) : at + n \in 1 .. Len(e) /\ e[at + n] = w[n]
       /\ \A m \in 1 .. Len(e) : (\E j \in 1 .. Len(segments) : m = P(j)) \/ \E n \in 1 .. Len(w) : m = at + n
  <2>1. DOMAIN e = 1 .. Len(e) /\ Len(e) \in Nat
    <3> HIDE DEF N
    <3> QED  BY <1>12, PartsAre
  <2> QED  BY <1>12, <2>1 DEF Pushes
<1>15. /\ SegmentsApart(e) /\ LinkeditLast(e)
       /\ \A j \in 1 .. Len(segments) : j \in Linkedits(segments) <=> P(j) \in Linkedits(e)
       /\ \A l \in Linkedits(e) : \E k \in Linkedits(segments) : l = P(k)
  BY <1>13 DEF With
<1> HIDE DEF P, e
\* So whatever held of the segments holds of them with the caves.
<1>16. ASSUME NEW m \in 1 .. Len(e)
       PROVE  (\E j \in 1 .. Len(segments) : e[m] = segments[j]) \/ \E n \in 1 .. Len(w) : e[m] = w[n]
  BY <1>14
<1>17. SegmentsHeld(e, data', added)
  <2> SUFFICES ASSUME NEW m \in 1 .. Len(e)
               PROVE  /\ e[m].off + e[m].fsize <= Len(data')
                      /\ e[m].fsize <= e[m].vsize + (IF e[m].name = Linkedit THEN added ELSE 0)
    BY <1>14 DEF SegmentsHeld
  <2>1. CASE \E j \in 1 .. Len(segments) : e[m] = segments[j]
    <3>1. PICK j \in 1 .. Len(segments) : e[m] = segments[j]  BY <2>1
    <3>2. /\ segments[j].off + segments[j].fsize <= Len(data)
          /\ segments[j].fsize <= segments[j].vsize + (IF segments[j].name = Linkedit THEN added ELSE 0)
      BY <1>3 DEF SegmentsHeld
    <3> QED  BY <1>10, <3>1, <3>2
  <2>2. CASE \E n \in 1 .. Len(w) : e[m] = w[n]
    <3>1. PICK n \in 1 .. Len(w) : e[m] = w[n]  BY <2>2
    <3>2. /\ e[m] \in Segment(N) /\ e[m].off + e[m].fsize <= linkeditOff + dataBase + dataSize
          /\ e[m].fsize = e[m].vsize /\ e[m].name # Linkedit
      BY <1>11, <3>1 DEF Fits
    <3>3. e[m].off \in Nat /\ e[m].fsize \in Nat
      <4> HIDE DEF N
      <4> QED  BY <3>2, SegmentIs
    <3> DEFINE x == e[m].off + e[m].fsize
               y == linkeditOff + dataBase + dataSize
    <3>4. x \in Nat /\ y \in Nat /\ x <= y /\ y <= Len(data) /\ Len(data) = Len(data')  BY <1>6b, <1>10, <3>2, <3>3
    <3> HIDE DEF x, y
    <3>5. x <= Len(data')  BY <1>3, <3>4
    <3> QED  BY <3>2, <3>3, <3>5 DEF x
  <2> QED  BY <1>16, <2>1, <2>2
<1>18. TablesHeld(e, data', tables)
  <2>1. \A t, u \in DOMAIN tables : t # u => tables[t].off + tables[t].size <= tables[u].off \/ tables[u].off + tables[u].size <= tables[t].off
    BY <1>3 DEF Sound, TablesHeld
  <2>2. ASSUME NEW t \in DOMAIN tables  PROVE TableHeld(e, data', t, tables[t])
    <3>1. PICK l \in Linkedits(segments) : TRUE
      <4>1. DOMAIN tables # {}  BY <2>2
      <4> QED  BY <1>3, <4>1, NoTables
    <3>2. /\ tables[t].off \in Nat /\ tables[t].size \in Nat \ {0}
          /\ segments[l].off <= tables[t].off /\ tables[t].off + tables[t].size <= segments[l].off + segments[l].fsize
          /\ tables[t].off + tables[t].size <= Len(data)
          /\ data[tables[t].off + 1] = <<t, "start">> /\ data[tables[t].off + tables[t].size] = <<t, "end">>
      <4>1. Placed(segments, data, tables, l, t)  BY <1>2, <2>2, <3>1, NowTables
      <4> QED  BY <4>1 DEF Placed
    <3>3. l \in 1 .. Len(segments) /\ e[P(l)] = segments[l] /\ P(l) \in Linkedits(e)
      <4>1. l \in 1 .. Len(segments)  BY <1>3 DEF Linkedits
      <4> QED  BY <1>14, <1>15, <4>1
    <3>4. data'[tables[t].off + 1] = <<t, "start">> /\ data'[tables[t].off + tables[t].size] = <<t, "end">>
      <4> DEFINE o == tables[t].off
                 z == tables[t].size
      <4>1. o \in Nat /\ z \in Nat \ {0} /\ linkeditOff + dataBase + dataSize <= o /\ o + z <= Len(data)
        <5>1. linkeditOff + inserted <= o  BY <1>5, <3>1, <3>2
        <5>2. dataBase + dataSize <= inserted  BY <1>7 DEF Between
        <5>3. o \in Nat /\ z \in Nat \ {0} /\ o + z <= Len(data)  BY <3>2
        <5> HIDE DEF o, z, N, added
        <5>4. linkeditOff + dataBase + dataSize <= o  BY <1>5, <1>6a, <5>1, <5>2, <5>3
        <5> QED  BY <5>3, <5>4
      <4> DEFINE u == linkeditOff + dataBase + dataSize
                 v == Len(data)
      <4>a. u \in Nat /\ v \in Nat /\ u <= o /\ o + z <= v  BY <1>3, <1>6b, <4>1
      <4> HIDE DEF o, z, u, v
      <4>b. o + 1 \in 1 .. v /\ u < o + 1 /\ o + z \in 1 .. v /\ u < o + z  BY <4>1, <4>a
      <4>2. /\ o + 1 \in 1 .. Len(data) /\ linkeditOff + dataBase + dataSize < o + 1
            /\ o + z \in 1 .. Len(data) /\ linkeditOff + dataBase + dataSize < o + z
        BY <4>b DEF u, v
      <4>3. data'[o + 1] = data[o + 1] /\ data'[o + z] = data[o + z]  BY <1>10, <4>2
      <4> QED  BY <3>2, <4>3 DEF o, z
    <3> QED  BY <3>2, <3>3, <3>4 DEF TableHeld
  <2> QED  BY <2>1, <2>2 DEF TablesHeld
<1>19. FileInv'
  <2>1. /\ DOMAIN tables \subseteq Tables /\ StartsHeld(tables, starts, fixups) /\ starts \in Seq(Nat)
        /\ \A t \in DOMAIN tables : tables[t] \in [off: Nat, size: Nat \ {0}]
    BY <1>3 DEF Sound
  <2>2. Sound(e, data', tables, starts, fixups, added)  BY <1>10, <1>15, <1>17, <1>18, <2>1 DEF Sound
  <2>3. Sound(segments, data, tables, starts, fixups, Len(starts) - Len(input.starts))'  BY <1>4, <2>2 DEF e
  <2>4. (segments \in Seq(Segment(NamesNow)))'  BY <1>4, <1>12 DEF e
  <2>5. commandsEnd' \in Nat
    <3> DEFINE c == CommandSize
    <3>1. c \in Nat  BY <1>2, CommandSizeIs DEF PlansInv
    <3>2. commandsEnd' = commandsEnd + c /\ commandsEnd \in Nat  BY <1>1, <1>3
    <3> HIDE DEF c
    <3> QED  BY <3>1, <3>2
  <2>6. (Len(input.starts) <= Len(starts))'  BY <1>2, <1>4 DEF FileInv
  <2> QED  BY <2>3, <2>4, <2>5, <2>6 DEF FileInv
<1>20. KeptInv'
  <2>1. /\ \A j \in DOMAIN input.segments : input.segments[j].name # Linkedit =>
             \E i \in DOMAIN segments : segments[i] = input.segments[j]
        /\ Linkedits(segments) = {} <=> Linkedits(input.segments) = {}
        /\ Border(input) \in 0 .. Len(data) /\ \A n \in 1 .. Border(input) : data[n] = input.data[n]
    BY <1>2 DEF KeptInv
  <2>2. ASSUME NEW j \in DOMAIN input.segments, input.segments[j].name # Linkedit
        PROVE  \E i \in DOMAIN e : e[i] = input.segments[j]
    <3>1. PICK i \in 1 .. Len(segments) : segments[i] = input.segments[j]  BY <1>3, <2>1, <2>2
    <3>2. P(i) \in DOMAIN e /\ e[P(i)] = segments[i]  BY <1>14
    <3> QED  BY <3>1, <3>2
  <2>3. Linkedits(e) = {} <=> Linkedits(segments) = {}
    <3>1. Linkedits(segments) \subseteq 1 .. Len(segments)  BY <1>3 DEF Linkedits
    <3> QED  BY <1>15, <3>1
  <2>4. \A n \in 1 .. Border(input) : data'[n] = input.data[n]
    <3> TAKE n \in 1 .. Border(input)
    <3>1. n \in 1 .. Len(data) /\ n <= linkeditOff  BY <1>3, <1>5, <2>1
    <3> QED  BY <1>10, <2>1, <3>1
  <2>5. Border(input) \in 0 .. Len(data')  BY <1>10, <2>1
  <2> QED  BY <1>4, <1>pc, <2>1, <2>2, <2>3, <2>4, <2>5 DEF KeptInv, e
<1>21. HeaderInv'
  <2> DEFINE c == commandsEnd + CommandSize
  <2>1. /\ c <= Len(data) /\ (\A o \in ContentOffsets : c <= o) /\ c <= linkeditOff
    BY <1>1, <1>2 DEF HeaderInv, EndsBefore
  <2>2. c \in Nat
    <3>1. CommandSize \in Nat  BY <1>2, CommandSizeIs DEF PlansInv
    <3> QED  BY <1>3, <3>1
  <2> HIDE DEF c
  <2>3. ASSUME NEW o \in ContentOffsets'  PROVE c <= o
    <3>1. o # 0  BY DEF ContentOffsets
    <3>2. \E j \in DOMAIN e : \E n \in DOMAIN e[j].sections : o = e[j].sections[n].off
      <4>1. o \in OffsetsIn(e)  BY DEF ContentOffsets, OffsetsIn, e
      <4> QED  BY <4>1, OffsetsFrom
    <3>3. PICK m \in 1 .. Len(e) : \E n \in DOMAIN e[m].sections : o = e[m].sections[n].off  BY <1>14, <3>2
    <3>4. PICK n \in DOMAIN e[m].sections : o = e[m].sections[n].off  BY <3>3
    <3>5. CASE \E j \in 1 .. Len(segments) : e[m] = segments[j]
      <4>1. PICK j \in 1 .. Len(segments) : e[m] = segments[j]  BY <3>5
      <4>2. j \in DOMAIN segments /\ n \in DOMAIN segments[j].sections /\ o = segments[j].sections[n].off
        BY <1>3, <3>4, <4>1
      <4>3. o \in ContentOffsets  BY <3>1, <4>2, OffsetsOf
      <4> QED  BY <2>1, <4>3
    <3>6. CASE \E k \in 1 .. Len(w) : e[m] = w[k]
      <4>1. PICK k \in 1 .. Len(w) : e[m] = w[k]  BY <3>6
      <4>2. Fits(e[m])  BY <1>11, <4>1
      <4>3. linkeditOff <= o /\ e[m] \in Segment(N)  BY <3>4, <4>2 DEF Fits
      <4>4. o \in Nat
        <5> HIDE DEF N
        <5> QED  BY <3>4, <4>3, SegmentIs
      <4> QED  BY <1>5, <2>1, <2>2, <4>3, <4>4
    <3> QED  BY <1>16, <3>5, <3>6
  <2>4. commandsEnd' = c  BY <1>1 DEF c
  <2>5. EndsBefore(commandsEnd)'  BY <1>10, <2>1, <2>3, <2>4 DEF EndsBefore
  <2> QED  BY <1>pc, <2>5 DEF HeaderInv
<1>22. LayoutInv'
  <2>1. RoomFor(Code, 0, codeSize)' <=> RoomFor(Code, 0, codeSize)  BY <1>4 DEF RoomFor
  <2>2. RoomFor(Data, dataBase, dataSize)' <=> RoomFor(Data, dataBase, dataSize)  BY <1>4 DEF RoomFor
  <2> QED  BY <1>2, <1>4, <1>pc, <2>1, <2>2 DEF LayoutInv
<1>23. PlaceInv'
  <2>1. \A l \in Linkedits(e) : e[l].off = linkeditOff + inserted /\ e[l].va = linkeditVa + inserted
    <3> TAKE l \in Linkedits(e)
    <3>1. PICK k \in Linkedits(segments) : l = P(k)  BY <1>15
    <3>2. k \in 1 .. Len(segments)  BY <1>3 DEF Linkedits
    <3>3. e[l] = segments[k]  BY <1>14, <3>1, <3>2
    <3> QED  BY <1>5, <3>3
  <2>2. place \in 1 .. Len(e) + 1  BY <1>3, <1>5, <1>11, <1>12
  <2>3. {linkeditOff, linkeditVa} \subseteq Nat  BY <1>5
  <2> QED  BY <1>4, <1>5, <1>10, <1>pc, <2>1, <2>2, <2>3 DEF PlaceInv, e
<1>24. CavesInv'
  <2>1. /\ \A i : SectionOf(i)' = SectionOf(i)
        /\ \A g : IsCave(g, "code", 0, Code)' <=> IsCave(g, "code", 0, Code)
        /\ \A g : IsCave(g, "data", dataBase, Data)' <=> IsCave(g, "data", dataBase, Data)
    <3>1. \A i : SectionOf(i)' = SectionOf(i)  BY <1>4 DEF SectionOf
    <3> QED  BY <1>4, <3>1 DEF IsCave
  <2>2. ASSUME NEW i \in Plans
        PROVE  \E m \in DOMAIN e : \E k \in DOMAIN e[m].sections : e[m].sections[k] = SectionOf(i)
    <3>1. PICK n \in 1 .. Len(w) : \E k \in DOMAIN w[n].sections : w[n].sections[k] = SectionOf(i)  BY <1>8 DEF AllFit
    <3>2. at + n \in DOMAIN e /\ e[at + n] = w[n]  BY <1>14
    <3> QED  BY <3>1, <3>2
  <2>3. ASSUME NEW m \in DOMAIN e
        PROVE  OldNamed(e[m]) \/ IsCave(e[m], "code", 0, Code) \/ IsCave(e[m], "data", dataBase, Data)
    <3>1. \A j \in DOMAIN segments : OldNamed(segments[j])  BY <1>2, <1>pc DEF KeptInv
    <3>2. \A n \in 1 .. Len(w) : IsCave(w[n], "code", 0, Code) \/ IsCave(w[n], "data", dataBase, Data)  BY <1>8 DEF AllFit
    <3>3. m \in 1 .. Len(e)  BY <1>14
    <3> QED  BY <1>3, <1>16, <3>1, <3>2, <3>3
  <2>4. \A i \in Plans' : \E m \in DOMAIN segments' : \E k \in DOMAIN segments'[m].sections :
          segments'[m].sections[k] = SectionOf(i)'
    BY <1>4, <2>1, <2>2 DEF e
  <2>5. \A m \in DOMAIN segments' : OldNamed(segments[m])' \/ IsCave(segments[m], "code", 0, Code)'
                                    \/ IsCave(segments[m], "data", dataBase, Data)'
    BY <1>4, <2>1, <2>3 DEF e
  <2>6. \A i \in Plans' : \A n \in 0 .. plans'[i].size - 1 : data'[linkeditOff' + offsets'[i] + n + 1] = Content(i, n)'
    BY <1>4, <1>10 DEF Content
  <2> QED  BY <1>pc, <2>4, <2>5, <2>6 DEF CavesInv
<1> QED  BY <1>pc, <1>19, <1>20, <1>21, <1>22, <1>23, <1>24 DEF FileParts

-----------------------------------------------------------------------------
(* The fixup starts.                                                        *)

\* An entry is inserted in the blob of the fixups.
PointIn(l, at, point) ==
  /\ l \in Linkedits(segments) /\ at \in 0 .. Len(starts)
  /\ {tables["fixups"].off, tables["fixups"].size, fixups.starts, segments[l].off, segments[l].fsize, point} \subseteq Nat
  /\ point = tables["fixups"].off + (fixups.starts + 1 + at)
  /\ segments[l].off <= tables["fixups"].off /\ tables["fixups"].off < point
  /\ point < tables["fixups"].off + tables["fixups"].size
  /\ tables["fixups"].off + tables["fixups"].size <= segments[l].off + segments[l].fsize
  /\ point < Len(data) /\ segments[l].off + segments[l].fsize <= Len(data)

\* Where it is inserted is inside of the blob.
LEMMA PointInBlob ==
  ASSUME FileInv, input \in Inputs, "fixups" \in DOMAIN tables, NEW index \in Nat
  PROVE  \E l : PointIn(l, IF index < Len(starts) THEN index ELSE Len(starts),
                       tables["fixups"].off + (fixups.starts + 1 + (IF index < Len(starts) THEN index ELSE Len(starts))))
<1> DEFINE at == IF index < Len(starts) THEN index ELSE Len(starts)
           added == Len(starts) - Len(input.starts)
           N == NamesNow
           b == tables["fixups"].off
           z == tables["fixups"].size
           s == fixups.starts
           c == Len(starts)
           v == Len(data)
<1>1. /\ segments \in Seq(Segment(N)) /\ DOMAIN segments = 1 .. Len(segments)
      /\ v \in Nat /\ c \in Nat /\ added \in Nat
      /\ Sound(segments, data, tables, starts, fixups, added) /\ SegmentsHeld(segments, data, added)
  BY FileIs
<1>2. PICK l \in Linkedits(segments) : TRUE
  <2>1. DOMAIN tables # {}  OBVIOUS
  <2> QED  BY <1>1, <2>1, NoTables
<1> DEFINE o == segments[l].off
           f == segments[l].fsize
<1>3. /\ b \in Nat /\ z \in Nat \ {0} /\ o <= b /\ b + z <= o + f /\ b + z <= v
  <2>1. Placed(segments, data, tables, l, "fixups")  BY <1>2, NowTables
  <2> QED  BY <2>1 DEF Placed
<1>4. o \in Nat /\ f \in Nat /\ o + f <= v
  <2>1. l \in DOMAIN segments  BY DEF Linkedits
  <2>2. segments[l] \in Segment(N)  BY <1>1, <2>1
  <2>3. o + f <= v  BY <1>1, <2>1 DEF SegmentsHeld
  <2> HIDE DEF N
  <2> QED  BY <2>2, <2>3, SegmentIs
<1>5. s \in Nat /\ s + 1 + c < z
  <2>1. fixups \in [starts: Nat, imports: Nat, symbols: Nat] /\ s + 1 + c < z  BY <1>1 DEF Sound, StartsHeld
  <2> QED  BY <2>1
<1>6. at \in 0 .. c  BY <1>1
<1> HIDE DEF at, b, z, s, c, v, o, f
<1>7. /\ b < b + (s + 1 + at) /\ b + (s + 1 + at) < b + z /\ b + (s + 1 + at) < v /\ b + (s + 1 + at) \in Nat
  BY <1>1, <1>3, <1>5, <1>6
<1>8. PointIn(l, at, b + (s + 1 + at))  BY <1>2, <1>3, <1>4, <1>5, <1>6, <1>7 DEF PointIn, b, z, s, c, v, o, f
<1> QED  BY <1>8 DEF at, b, s, c

\* The starts get their entry, and stay numbers.
LEMMA NewStartsAre ==
  ASSUME starts \in Seq(Nat), NEW at \in 0 .. Len(starts), NEW inside \in Nat
  PROVE  NewStarts(at, inside) \in Seq(Nat) /\ Len(NewStarts(at, inside)) = Len(starts) + 1
<1> DEFINE c == Len(starts)
           S(n) == starts[IF n <= at THEN n ELSE n - 1]
           V(n) == IF n = at + 1 THEN 0 ELSE Moved(S(n), inside, 1)
<1>1. c \in Nat /\ at \in 0 .. c /\ \A n \in 1 .. c : starts[n] \in Nat  OBVIOUS
<1>2. NewStarts(at, inside) = [n \in 1 .. c + 1 |-> V(n)]  BY DEF NewStarts
<1> HIDE DEF c
<1>3. ASSUME NEW n \in 1 .. c + 1  PROVE V(n) \in Nat
  <2>1. CASE n = at + 1  BY <2>1
  <2>2. CASE n # at + 1
    <3>1. (IF n <= at THEN n ELSE n - 1) \in 1 .. c  BY <1>1, <2>2
    <3>2. S(n) \in Nat  BY <1>1, <3>1
    <3> HIDE DEF S
    <3>3. Moved(S(n), inside, 1) \in Nat  BY <3>2 DEF Moved
    <3> QED  BY <2>2, <3>3
  <2> QED  BY <2>1, <2>2
<1> HIDE DEF V
<1>4. NewStarts(at, inside) \in [1 .. c + 1 -> Nat]  BY <1>2, <1>3
<1> QED  BY <1>1, <1>2, <1>4 DEF c

Grown(l, N) ==
  \E h \in Segment(N) :
    /\ h.name = Linkedit /\ h.sections = <<>> /\ h.va = segments[l].va /\ h.off = segments[l].off
    /\ h.vsize = segments[l].vsize /\ h.fsize = segments[l].fsize + 1
    /\ Replaced(segments', segments, N, l, h)

\* Only __LINKEDIT holds the blob, and it grows.
LEMMA LinkeditGrows ==
  ASSUME FileInv, input \in Inputs, "fixups" \in DOMAIN tables, NEW index \in Nat, AddFixupStart(index),
         NEW l, NEW at, at = (IF index < Len(starts) THEN index ELSE Len(starts)), NEW point, PointIn(l, at, point)
  PROVE  Grown(l, NamesNow)
<1> DEFINE N == NamesNow
           MovedSegment(g) ==
             MoveSections(IF g.off <= point /\ point <= g.off + g.fsize
                          THEN [g EXCEPT !.fsize = @ + 1] ELSE [g EXCEPT !.off = Moved(@, point, 1)],
                          point, 1)
           g == segments[l]
           f == g.fsize + 1
           h == [g EXCEPT !.fsize = f]
<1>1. point = tables["fixups"].off + (fixups.starts + 1 + at)  BY DEF PointIn
<1>2. segments' = [j \in DOMAIN segments |-> MovedSegment(segments[j])]
  BY <1>1 DEF AddFixupStart
<1>3. /\ segments \in Seq(Segment(N)) /\ Len(segments) \in Nat /\ DOMAIN segments = 1 .. Len(segments)
      /\ SegmentsApart(segments) /\ LinkeditLast(segments)
  BY FileIs
<1>4. /\ l \in Linkedits(segments) /\ point \in Nat
      /\ g.off <= point /\ g.off < point /\ point <= g.off + g.fsize
  <2>1. /\ l \in Linkedits(segments)
        /\ {tables["fixups"].off, tables["fixups"].size, g.off, g.fsize, point} \subseteq Nat
        /\ g.off <= tables["fixups"].off /\ tables["fixups"].off < point
        /\ point < tables["fixups"].off + tables["fixups"].size
        /\ tables["fixups"].off + tables["fixups"].size <= g.off + g.fsize
    BY DEF PointIn
  <2> HIDE DEF g
  <2> QED  BY <2>1
<1>5. /\ l \in 1 .. Len(segments) /\ g \in Segment(N) /\ g.name = Linkedit /\ g.va % Page = 0 /\ g.sections = <<>>
      /\ \A j \in 1 .. Len(segments) : j # l =>
           /\ segments[j] \in Segment(N) /\ segments[j].off < g.off /\ segments[j].off + segments[j].fsize <= g.off
           /\ \A n \in DOMAIN segments[j].sections : segments[j].sections[n].off < g.off
  <2> HIDE DEF N
  <2> QED  BY <1>3, <1>4, LastIs
<1>6. g.off \in Nat /\ g.va \in Nat /\ f \in Nat
  <2>1. g.off \in Nat /\ g.va \in Nat /\ g.fsize \in Nat
    <3> HIDE DEF N, g
    <3> QED  BY <1>5, SegmentIs
  <2> QED  BY <2>1
<1>7. /\ h \in Segment(N) /\ h.name = Linkedit /\ h.sections = <<>> /\ h.va = g.va /\ h.off = g.off
      /\ h.vsize = g.vsize /\ h.fsize = f
  <2> HIDE DEF N, g, f
  <2>1. /\ h \in Segment(N) /\ h.name = g.name /\ h.sections = g.sections /\ h.va = g.va /\ h.off = g.off
        /\ h.vsize = g.vsize /\ h.fsize = f
    BY <1>5, <1>6 DEF Segment
  <2> QED  BY <1>5, <2>1
<1>8. MovedSegment(g) = h
  <2>1. MovedSegment(g) = MoveSections(h, point, 1)  BY <1>4
  <2> HIDE DEF MovedSegment, h, N
  <2>2. \A n \in DOMAIN h.sections : h.sections[n].off < point  BY <1>7
  <2>3. h \in Segment(N) /\ point \in Nat /\ 1 \in Nat  BY <1>4, <1>7
  <2>4. MoveSections(h, point, 1) = h  BY <2>2, <2>3, MoveSectionsIs
  <2> QED  BY <2>1, <2>4
<1>9. ASSUME NEW j \in 1 .. Len(segments), j # l  PROVE MovedSegment(segments[j]) = segments[j]
  <2> DEFINE q == segments[j]
  <2>1. /\ q \in Segment(N) /\ q.off < g.off /\ q.off + q.fsize <= g.off
        /\ \A n \in DOMAIN q.sections : q.sections[n].off < g.off
    BY <1>5, <1>9
  <2> HIDE DEF q, N, g
  <2>2. q.off \in Nat /\ q.fsize \in Nat /\ \A n \in DOMAIN q.sections : q.sections[n].off \in Nat  BY <2>1, SegmentIs
  <2>3. q.off < point /\ ~(point <= q.off + q.fsize) /\ \A n \in DOMAIN q.sections : q.sections[n].off < point
    BY <1>4, <1>6, <2>1, <2>2
  <2>4. Moved(q.off, point, 1) = q.off  BY <1>4, <2>2, <2>3 DEF Moved
  <2>5. MovedSegment(q) = MoveSections([q EXCEPT !.off = q.off], point, 1)  BY <2>3, <2>4
  <2> HIDE DEF MovedSegment
  <2>6. [q EXCEPT !.off = q.off] = q  BY <2>1 DEF Segment
  <2>7. point \in Nat /\ 1 \in Nat  BY <1>4
  <2>8. MoveSections(q, point, 1) = q  BY <2>1, <2>3, <2>7, MoveSectionsIs
  <2> QED  BY <2>5, <2>6, <2>8 DEF q
<1> HIDE DEF MovedSegment, h
<1>10. segments' = [j \in 1 .. Len(segments) |-> IF j = l THEN h ELSE segments[j]]
  <2>1. \A j \in 1 .. Len(segments) : MovedSegment(segments[j]) = IF j = l THEN h ELSE segments[j]
    BY <1>8, <1>9
  <2> QED  BY <1>2, <1>3, <2>1
<1>11. Replaced(segments', segments, N, l, h)
  <2>1. h.va % Page = 0 /\ segments[l].va <= h.va /\ segments[l].off <= h.off  BY <1>5, <1>6, <1>7
  <2> HIDE DEF N, g
  <2> QED  BY <1>3, <1>4, <1>7, <1>10, <2>1, ReplaceLast
<1> QED  BY <1>7, <1>11 DEF Grown

OneMore(new, point) ==
  /\ Len(new) = Len(data) + 1 /\ new \in Seq(ToSet(new))
  /\ \A n \in 1 .. point : new[n] = data[n]
  /\ \A n \in point + 1 .. Len(data) : new[n + 1] = data[n]

\* A word is inserted.
LEMMA OneInserted ==
  ASSUME data \in Seq(ToSet(data)), NEW point \in 0 .. Len(data)
  PROVE  OneMore(Insert(point, <<Zero>>), point)
<1> DEFINE S == ToSet(data) \cup {Zero}
           w == <<Zero>>
           new == Insert(point, w)
<1>1. data \in Seq(S)
  <2>1. data \in Seq(ToSet(data)) /\ ToSet(data) \subseteq S  OBVIOUS
  <2> HIDE DEF S
  <2> QED  BY <2>1, SeqMonotonic
<1>2. w \in Seq(S) /\ Len(w) = 1
  <2>1. Zero \in S  OBVIOUS
  <2> HIDE DEF S
  <2> QED  BY <2>1
<1>3. new = SubSeq(data, 1, point) \o w \o SubSeq(data, point + 1, Len(data))  BY DEF Insert
<1> HIDE DEF S, w, new
<1>4. /\ new \in Seq(S) /\ Len(new) = Len(data) + Len(w)
      /\ (\A n \in 1 .. point : new[n] = data[n])
      /\ \A n \in point + 1 .. Len(data) : new[n + Len(w)] = data[n]
  BY <1>1, <1>2, <1>3, Inserted
<1>5. new \in Seq(ToSet(new))  BY <1>4, OwnElements
<1> QED  BY <1>2, <1>4, <1>5 DEF OneMore, new, w

\* The table that a word is inserted in grows, and those behind it move.
Grows(t, point) ==
  tables'[t].off = tables[t].off /\ tables'[t].size = tables[t].size + 1
  /\ tables[t].off < point /\ point < tables[t].off + tables[t].size

Stays(t, point) ==
  tables'[t].size = tables[t].size
  /\ \/ tables'[t].off = tables[t].off /\ tables[t].off + tables[t].size < point
     \/ tables'[t].off = tables[t].off + 1 /\ point < tables[t].off

TableFixed(t, point) ==
  /\ tables'[t] \in [off: Nat, size: Nat \ {0}] /\ TableHeld(segments', data', t, tables'[t])
  /\ {tables[t].off, tables[t].size} \subseteq Nat
  /\ t = "fixups" => Grows(t, point)
  /\ t # "fixups" => Stays(t, point)

\* What was in a table stays in it.
LEMMA TableIsFixed ==
  ASSUME FileInv, input \in Inputs, "fixups" \in DOMAIN tables, NEW l, NEW at, NEW point, PointIn(l, at, point),
         Grown(l, NamesNow), OneMore(data', point), NEW t \in DOMAIN tables,
         tables'[t] = [off |-> Moved(tables[t].off, point, 1),
                       size |-> IF t = "fixups" THEN tables[t].size + 1 ELSE tables[t].size]
  PROVE  TableFixed(t, point)
<1> DEFINE o == tables[t].off
           z == tables[t].size
           b == tables["fixups"].off
           y == tables["fixups"].size
           p == segments[l].off
           f == segments[l].fsize
           v == Len(data)
<1>1. /\ l \in Linkedits(segments) /\ b \in Nat /\ y \in Nat /\ p \in Nat /\ f \in Nat /\ point \in Nat
      /\ p <= b /\ b < point /\ point < b + y /\ b + y <= p + f /\ point < v
  <2>1. {b, y, fixups.starts, p, f, point} \subseteq Nat  BY DEF PointIn
  <2> QED  BY <2>1 DEF PointIn
<1>2. /\ o \in Nat /\ z \in Nat \ {0} /\ v \in Nat /\ p <= o /\ o + z <= p + f /\ o + z <= v
      /\ data[o + 1] = <<t, "start">> /\ data[o + z] = <<t, "end">>
      /\ t # "fixups" => o + z <= b \/ b + y <= o
  <2>1. Placed(segments, data, tables, l, t)  BY <1>1, NowTables
  <2> QED  BY <2>1 DEF Placed
<1>3. /\ l \in Linkedits(segments') /\ segments'[l].off = p /\ segments'[l].fsize = f + 1
  <2>1. PICK h \in Segment(NamesNow) : /\ h.off = p /\ h.fsize = f + 1
                                       /\ Replaced(segments', segments, NamesNow, l, h)
    BY DEF Grown
  <2> QED  BY <2>1 DEF Replaced
<1>4. /\ \A n \in 1 .. point : data'[n] = data[n]
      /\ \A n \in point + 1 .. v : data'[n + 1] = data[n]
  BY DEF OneMore
<1>5. /\ tables'[t].off = Moved(o, point, 1)
      /\ tables'[t].size = IF t = "fixups" THEN z + 1 ELSE z
      /\ tables'[t] = [off |-> tables'[t].off, size |-> tables'[t].size]
  OBVIOUS
<1> DEFINE o2 == tables'[t].off
           z2 == tables'[t].size
<1>6. SUFFICES /\ o2 \in Nat /\ z2 \in Nat \ {0} /\ p <= o2 /\ o2 + z2 <= p + (f + 1)
               /\ data'[o2 + 1] = data[o + 1] /\ data'[o2 + z2] = data[o + z]
               /\ t = "fixups" => o2 = o /\ z2 = z + 1 /\ o < point /\ point < o + z
               /\ t # "fixups" => z2 = z /\ ((o2 = o /\ o + z < point) \/ (o2 = o + 1 /\ point < o))
  <2> HIDE DEF v
  <2>1. ASSUME o2 \in Nat, z2 \in Nat \ {0}  PROVE tables'[t] \in [off: Nat, size: Nat \ {0}]  BY <1>5, <2>1
  <2>2. ASSUME p <= o2, o2 + z2 <= p + (f + 1), data'[o2 + 1] = data[o + 1], data'[o2 + z2] = data[o + z]
        PROVE  TableHeld(segments', data', t, tables'[t])
    BY <1>2, <1>3, <2>2 DEF TableHeld
  <2>3. {tables[t].off, tables[t].size} \subseteq Nat  BY <1>2
  <2> QED  BY <2>1, <2>2, <2>3 DEF TableFixed, Grows, Stays
<1>7. Moved(o, point, 1) = IF o >= point /\ o # 0 THEN o + 1 ELSE o  BY DEF Moved
<1>8. /\ t = "fixups" => o = b /\ z = y
  OBVIOUS
<1> HIDE DEF o, z, b, y, p, f, v, o2, z2
<1>9. CASE t = "fixups"
  <2>1. o2 = o /\ z2 = z + 1 /\ o < point /\ point < o + z  BY <1>1, <1>2, <1>5, <1>7, <1>8, <1>9 DEF o2, z2
  <2>2. o + 1 \in 1 .. point /\ o + z \in point + 1 .. v /\ o2 + z2 = (o + z) + 1  BY <1>1, <1>2, <2>1
  <2>3. data'[o + 1] = data[o + 1] /\ data'[(o + z) + 1] = data[o + z]  BY <1>4, <2>2
  <2>4. o2 \in Nat /\ z2 \in Nat \ {0} /\ p <= o2 /\ o2 + z2 <= p + (f + 1)  BY <1>1, <1>2, <2>1
  <2> QED  BY <1>9, <2>1, <2>2, <2>3, <2>4
<1>10. CASE t # "fixups" /\ o + z <= b
  <2>1. o2 = o /\ z2 = z /\ o + z < point  BY <1>1, <1>2, <1>5, <1>7, <1>10 DEF o2, z2
  <2>2. o + 1 \in 1 .. point /\ o + z \in 1 .. point  BY <1>1, <1>2, <2>1
  <2>3. data'[o + 1] = data[o + 1] /\ data'[o + z] = data[o + z]  BY <1>4, <2>2
  <2>4. o2 \in Nat /\ z2 \in Nat \ {0} /\ p <= o2 /\ o2 + z2 <= p + (f + 1)  BY <1>1, <1>2, <2>1
  <2> QED  BY <1>10, <2>1, <2>3, <2>4
<1>11. CASE t # "fixups" /\ b + y <= o
  <2>1. o2 = o + 1 /\ z2 = z /\ point < o  BY <1>1, <1>2, <1>5, <1>7, <1>11 DEF o2, z2
  <2>2. o + 1 \in point + 1 .. v /\ o + z \in point + 1 .. v /\ o2 + 1 = (o + 1) + 1 /\ o2 + z2 = (o + z) + 1
    BY <1>1, <1>2, <2>1
  <2>3. data'[(o + 1) + 1] = data[o + 1] /\ data'[(o + z) + 1] = data[o + z]  BY <1>4, <2>2
  <2>4. o2 \in Nat /\ z2 \in Nat \ {0} /\ p <= o2 /\ o2 + z2 <= p + (f + 1)  BY <1>1, <1>2, <2>1
  <2> QED  BY <1>11, <2>1, <2>2, <2>3, <2>4
<1> QED  BY <1>2, <1>9, <1>10, <1>11

\* The tables stay clear of each other.
LEMMA TablesAreFixed ==
  ASSUME FileInv, input \in Inputs, DOMAIN tables' = DOMAIN tables, NEW point \in Nat,
         \A t \in DOMAIN tables : TableFixed(t, point)
  PROVE  TablesHeld(segments', data', tables')
<1>1. \A t, u \in DOMAIN tables : t # u => tables[t].off + tables[t].size <= tables[u].off \/ tables[u].off + tables[u].size <= tables[t].off
  <2>1. Sound(segments, data, tables, starts, fixups, Len(starts) - Len(input.starts))  BY FileIs
  <2> QED  BY <2>1 DEF Sound, TablesHeld
<1>2. ASSUME NEW t \in DOMAIN tables, NEW u \in DOMAIN tables, t # u
      PROVE  tables'[t].off + tables'[t].size <= tables'[u].off \/ tables'[u].off + tables'[u].size <= tables'[t].off
  <2> DEFINE a == tables[t].off
             b == tables[t].size
             c == tables[u].off
             d == tables[u].size
             a2 == tables'[t].off
             b2 == tables'[t].size
             c2 == tables'[u].off
             d2 == tables'[u].size
             In(o, z, o2, z2) == o2 = o /\ z2 = z + 1 /\ o < point /\ point < o + z
             Out(o, z, o2, z2) == z2 = z /\ ((o2 = o /\ o + z < point) \/ (o2 = o + 1 /\ point < o))
  <2>1. /\ a \in Nat /\ b \in Nat /\ c \in Nat /\ d \in Nat /\ (a + b <= c \/ c + d <= a)
    <3>1. {a, b} \subseteq Nat /\ {c, d} \subseteq Nat  BY DEF TableFixed
    <3>2. a + b <= c \/ c + d <= a  BY <1>1, <1>2
    <3> QED  BY <3>1, <3>2
  <2>2. /\ t = "fixups" => In(a, b, a2, b2)
        /\ t # "fixups" => Out(a, b, a2, b2)
        /\ u = "fixups" => In(c, d, c2, d2)
        /\ u # "fixups" => Out(c, d, c2, d2)
    BY DEF TableFixed, Grows, Stays
  <2>3. (In(a, b, a2, b2) /\ Out(c, d, c2, d2)) \/ (Out(a, b, a2, b2) /\ In(c, d, c2, d2))
        \/ (Out(a, b, a2, b2) /\ Out(c, d, c2, d2))
    <3> HIDE DEF In, Out, a, b, c, d, a2, b2, c2, d2
    <3> QED  BY <1>2, <2>2
  <2> HIDE DEF a, b, c, d, a2, b2, c2, d2
  <2>4. In(a, b, a2, b2) /\ Out(c, d, c2, d2) => a2 + b2 <= c2 \/ c2 + d2 <= a2  BY <2>1
  <2>5. Out(a, b, a2, b2) /\ In(c, d, c2, d2) => a2 + b2 <= c2 \/ c2 + d2 <= a2  BY <2>1
  <2>6. Out(a, b, a2, b2) /\ Out(c, d, c2, d2) => a2 + b2 <= c2 \/ c2 + d2 <= a2  BY <2>1
  <2>7. a2 + b2 <= c2 \/ c2 + d2 <= a2
    <3> HIDE DEF In, Out
    <3> QED  BY <2>3, <2>4, <2>5, <2>6
  <2> QED  BY <2>7 DEF a2, b2, c2, d2
<1> QED  BY <1>2 DEF TablesHeld, TableFixed

Fixing ==
  /\ pc \in Written /\ pc' \in Written /\ UNCHANGED <<asked, commandsEnd, layout, target>>

\* If there are no fixups nothing changes.
LEMMA NothingFixed ==
  ASSUME FileParts, Fixing, UNCHANGED <<data, segments, tables, starts, fixups>>
  PROVE  FileParts'
<1>1. /\ pc \in Shifted /\ pc' \in Shifted /\ pc \in Written /\ pc' \in Written /\ pc' # "caves"
      /\ pc' \notin {"name", "named", "signature", "place", "shift", "caves"}
  BY DEF Fixing, Shifted, Written
<1>2. /\ input' = input /\ plans' = plans /\ NamesNow' = NamesNow /\ Border(input)' = Border(input)
      /\ Plans' = Plans /\ Code' = Code /\ Data' = Data
      /\ CaveName("code")' = CaveName("code") /\ CaveName("data")' = CaveName("data")
      /\ Linkedits(input.segments)' = Linkedits(input.segments) /\ (\A g : OldNamed(g)' <=> OldNamed(g))
      /\ starts' = starts /\ fixups' = fixups /\ tables' = tables /\ segments' = segments /\ data' = data
      /\ offsets' = offsets /\ codeSize' = codeSize /\ dataBase' = dataBase /\ dataSize' = dataSize /\ inserted' = inserted
      /\ linkeditOff' = linkeditOff /\ linkeditVa' = linkeditVa /\ place' = place /\ commandsEnd' = commandsEnd
  BY AskedKept DEF Fixing, layout, target
<1>3. FileInv'  BY <1>2 DEF FileParts, FileInv
<1>4. KeptInv'
  <2>1. KeptInv  BY DEF FileParts
  <2> QED  BY <1>1, <1>2, <2>1 DEF KeptInv
<1>5. HeaderInv'
  <2>1. ContentOffsets' = ContentOffsets  BY <1>2 DEF ContentOffsets
  <2>2. EndsBefore(commandsEnd)' <=> EndsBefore(commandsEnd)  BY <1>2, <2>1 DEF EndsBefore
  <2> QED  BY <1>1, <2>2 DEF FileParts, HeaderInv
<1>6. LayoutInv'
  <2>1. RoomFor(Code, 0, codeSize)' <=> RoomFor(Code, 0, codeSize)  BY <1>2 DEF RoomFor
  <2>2. RoomFor(Data, dataBase, dataSize)' <=> RoomFor(Data, dataBase, dataSize)  BY <1>2 DEF RoomFor
  <2> QED  BY <1>1, <1>2, <2>1, <2>2 DEF FileParts, LayoutInv
<1>7. PlaceInv'  BY <1>1, <1>2 DEF FileParts, PlaceInv
<1>8. CavesInv'
  <2>1. \A i : SectionOf(i)' = SectionOf(i)  BY <1>2 DEF SectionOf
  <2>2. /\ \A g : IsCave(g, "code", 0, Code)' <=> IsCave(g, "code", 0, Code)
        /\ \A g : IsCave(g, "data", dataBase, Data)' <=> IsCave(g, "data", dataBase, Data)
    BY <1>2, <2>1 DEF IsCave
  <2>3. CavesInv  BY DEF FileParts
  <2> QED  BY <1>1, <1>2, <2>1, <2>2, <2>3 DEF CavesInv, Content
<1> QED  BY <1>3, <1>4, <1>5, <1>6, <1>7, <1>8 DEF FileParts

\* An entry is added, and all that is in front of the blob stays.
LEMMA StartIsAdded ==
  ASSUME FileParts, NamesInv, PlansInv, plans # <<>>, Fixing, "fixups" \in DOMAIN tables, NEW index \in Nat, AddFixupStart(index)
  PROVE  FileParts'
<1> DEFINE N      == NamesNow
           at     == IF index < Len(starts) THEN index ELSE Len(starts)
           inside == fixups.starts + 1 + at
           point  == tables["fixups"].off + inside
           added  == Len(starts) - Len(input.starts)
<1>1. /\ data' = Insert(point, <<Zero>>)
      /\ tables' = [t \in DOMAIN tables |->
                      [off |-> Moved(tables[t].off, point, 1),
                       size |-> IF t = "fixups" THEN tables[t].size + 1 ELSE tables[t].size]]
      /\ fixups' = [fixups EXCEPT !.imports = Moved(@, inside, 1), !.symbols = Moved(@, inside, 1)]
      /\ starts' = NewStarts(at, inside)
  BY DEF AddFixupStart
<1>2. FileInv /\ KeptInv /\ HeaderInv /\ LayoutInv /\ PlaceInv /\ CavesInv /\ input \in Inputs
  BY DEF FileParts, NamesInv
<1>pc. /\ pc \in Shifted /\ pc' \in Shifted /\ pc \in Written /\ pc' \in Written /\ pc # "caves" /\ pc' # "caves"
       /\ pc' \notin {"name", "named", "signature", "place", "shift", "caves"}
  BY DEF Fixing, Shifted, Written
<1>3. /\ segments \in Seq(Segment(N)) /\ Len(segments) \in Nat /\ DOMAIN segments = 1 .. Len(segments)
      /\ Len(data) \in Nat /\ starts \in Seq(Nat) /\ Len(starts) \in Nat /\ added \in Nat
      /\ Sound(segments, data, tables, starts, fixups, added) /\ SegmentsHeld(segments, data, added)
      /\ LinkeditLast(segments) /\ data \in Seq(ToSet(data))
  BY <1>2, FileIs
<1>4. /\ input' = input /\ plans' = plans /\ NamesNow' = N /\ Border(input)' = Border(input)
      /\ Plans' = Plans /\ Code' = Code /\ Data' = Data
      /\ CaveName("code")' = CaveName("code") /\ CaveName("data")' = CaveName("data")
      /\ Linkedits(input.segments)' = Linkedits(input.segments) /\ (\A g : OldNamed(g)' <=> OldNamed(g))
      /\ offsets' = offsets /\ codeSize' = codeSize /\ dataBase' = dataBase /\ dataSize' = dataSize /\ inserted' = inserted
      /\ linkeditOff' = linkeditOff /\ linkeditVa' = linkeditVa /\ place' = place /\ commandsEnd' = commandsEnd
  BY AskedKept DEF Fixing, layout, target
<1>5. PICK l : PointIn(l, at, point)
  <2> HIDE DEF FileInv
  <2> QED  BY <1>2, PointInBlob
<1> DEFINE b == tables["fixups"].off
           y == tables["fixups"].size
           s == fixups.starts
           p == segments[l].off
           f == segments[l].fsize
<1>6. /\ l \in Linkedits(segments) /\ at \in 0 .. Len(starts)
      /\ b \in Nat /\ y \in Nat /\ s \in Nat /\ p \in Nat /\ f \in Nat /\ point \in Nat
      /\ p <= b /\ b < point /\ point < b + y /\ b + y <= p + f /\ point < Len(data) /\ p + f <= Len(data)
  <2> HIDE DEF at, point
  <2>1. {b, y, s, p, f, point} \subseteq Nat  BY <1>5 DEF PointIn
  <2>2. /\ l \in Linkedits(segments) /\ at \in 0 .. Len(starts)
        /\ p <= b /\ b < point /\ point < b + y /\ b + y <= p + f /\ point < Len(data) /\ p + f <= Len(data)
    BY <1>5 DEF PointIn
  <2> HIDE DEF b, y, s, p, f
  <2> QED  BY <2>1, <2>2
<1>7. Grown(l, N)
  <2>1. at = (IF index < Len(starts) THEN index ELSE Len(starts))  OBVIOUS
  <2> HIDE DEF at, point, N
  <2>2. Grown(l, NamesNow)  BY <1>2, <1>5, <2>1, LinkeditGrows
  <2> QED  BY <2>2 DEF N
<1>8. /\ starts' \in Seq(Nat) /\ Len(starts') = Len(starts) + 1
  <2>1. inside \in Nat  BY <1>6
  <2> HIDE DEF inside, at
  <2> QED  BY <1>1, <1>3, <1>6, <2>1, NewStartsAre
<1>9. OneMore(data', point)
  <2>1. point \in 0 .. Len(data)  BY <1>3, <1>6
  <2> HIDE DEF point
  <2> QED  BY <1>1, <1>3, <2>1, OneInserted
<1>10. /\ fixups' \in [starts: Nat, imports: Nat, symbols: Nat] /\ fixups'.starts = s
       /\ s + 1 + Len(starts) < y
  <2>1. fixups \in [starts: Nat, imports: Nat, symbols: Nat] /\ s + 1 + Len(starts) < y  BY <1>3 DEF Sound, StartsHeld
  <2>2. inside \in Nat  BY <1>6
  <2> DEFINE i == Moved(fixups.imports, inside, 1)
             n == Moved(fixups.symbols, inside, 1)
  <2>3. i \in Nat /\ n \in Nat
    <3>1. fixups.imports \in Nat /\ fixups.symbols \in Nat  BY <2>1
    <3> HIDE DEF inside
    <3> QED  BY <2>2, <3>1 DEF Moved
  <2>4. fixups' = [fixups EXCEPT !.imports = i, !.symbols = n]  BY <1>1
  <2> HIDE DEF i, n, inside
  <2> QED  BY <2>1, <2>3, <2>4
<1> HIDE DEF at, inside, point
<1>11. DOMAIN tables' = DOMAIN tables /\ \A t \in DOMAIN tables : TableFixed(t, point)
  <2>1. DOMAIN tables' = DOMAIN tables  BY <1>1
  <2>2. ASSUME NEW t \in DOMAIN tables  PROVE TableFixed(t, point)
    <3>1. tables'[t] = [off |-> Moved(tables[t].off, point, 1),
                        size |-> IF t = "fixups" THEN tables[t].size + 1 ELSE tables[t].size]
      BY <1>1
    <3> QED  BY <1>2, <1>5, <1>7, <1>9, <3>1, TableIsFixed
  <2> QED  BY <2>1, <2>2
<1>12. TablesHeld(segments', data', tables')
  <2>1. point \in Nat  BY <1>6
  <2> QED  BY <1>2, <1>11, <2>1, TablesAreFixed
<1>13. PICK h \in Segment(N) :
         /\ h.name = Linkedit /\ h.sections = <<>> /\ h.va = segments[l].va /\ h.off = segments[l].off
         /\ h.vsize = segments[l].vsize /\ h.fsize = segments[l].fsize + 1
         /\ Replaced(segments', segments, N, l, h)
  BY <1>7 DEF Grown
<1>14. /\ segments' \in Seq(Segment(N)) /\ Len(segments') = Len(segments) /\ DOMAIN segments' = 1 .. Len(segments)
       /\ segments'[l] = h /\ (\A j \in 1 .. Len(segments) : j # l => segments'[j] = segments[j])
       /\ LinkeditLast(segments') /\ Linkedits(segments') = {l} /\ SegmentsApart(segments')
  BY <1>13 DEF Replaced
<1>15. /\ Len(data') = Len(data) + 1 /\ data' \in Seq(ToSet(data')) /\ \A n \in 1 .. point : data'[n] = data[n]
  BY <1>9 DEF OneMore
<1>16. /\ ContentOffsets' = ContentOffsets
       /\ \A j \in DOMAIN input.segments :
            input.segments[j].name # Linkedit /\ (\E i \in DOMAIN segments : segments[i] = input.segments[j])
              => \E i \in DOMAIN segments' : segments'[i] = input.segments[j]
       /\ \A j \in DOMAIN segments : segments'[j].name = segments[j].name /\ segments'[j].sections = segments[j].sections
       /\ DOMAIN segments' = DOMAIN segments
  <2> HIDE DEF N
  <2> QED  BY <1>2, <1>6, <1>13, ReplacedKeeps
<1>17. SegmentsHeld(segments', data', added + 1)
  <2> SUFFICES ASSUME NEW j \in 1 .. Len(segments)
               PROVE  /\ segments'[j].off + segments'[j].fsize <= Len(data')
                      /\ segments'[j].fsize <= segments'[j].vsize + (IF segments'[j].name = Linkedit THEN added + 1 ELSE 0)
    BY <1>14 DEF SegmentsHeld
  <2>1. /\ segments[j].off + segments[j].fsize <= Len(data)
        /\ segments[j].fsize <= segments[j].vsize + (IF segments[j].name = Linkedit THEN added ELSE 0)
    BY <1>3 DEF SegmentsHeld
  <2>2. segments[j].off \in Nat /\ segments[j].fsize \in Nat /\ segments[j].vsize \in Nat
    <3>1. segments[j] \in Segment(N)  BY <1>3
    <3> HIDE DEF N
    <3> QED  BY <3>1, SegmentIs
  <2>3. CASE j = l
    <3>1. segments[l].name = Linkedit  BY <1>6 DEF Linkedits
    <3>2. segments'[j].off = p /\ segments'[j].fsize = f + 1 /\ segments'[j].vsize = segments[j].vsize
          /\ segments'[j].name = Linkedit
      BY <1>13, <1>14, <2>3
    <3>3. f <= segments[j].vsize + added  BY <2>1, <2>3, <3>1
    <3> DEFINE z == segments[j].vsize
               a == added
    <3>4. z \in Nat /\ a \in Nat /\ f <= z + a /\ f \in Nat  BY <1>3, <1>6, <2>2, <3>3
    <3> HIDE DEF z, a, p, f
    <3>5. f + 1 <= z + (a + 1) /\ p + (f + 1) <= Len(data')  BY <1>3, <1>6, <1>15, <3>4
    <3> QED  BY <3>2, <3>5 DEF z, a
  <2>4. CASE j # l
    <3>1. segments'[j] = segments[j]  BY <1>14, <2>4
    <3>2. segments[j].name # Linkedit
      <4>1. j \notin Linkedits(segments)
        <5>1. Linkedits(segments) = {l}
          <6> HIDE DEF N
          <6> QED  BY <1>3, <1>6, LastIs
        <5> QED  BY <2>4, <5>1
      <4> QED  BY <1>3, <4>1 DEF Linkedits
    <3>3. segments[j].off + segments[j].fsize <= Len(data')  BY <1>3, <1>15, <2>1, <2>2
    <3> QED  BY <2>1, <3>1, <3>2, <3>3
  <2> QED  BY <2>3, <2>4
<1>18. Sound(segments', data', tables', starts', fixups', added + 1)
  <2>1. DOMAIN tables' \subseteq Tables /\ \A t \in DOMAIN tables' : tables'[t] \in [off: Nat, size: Nat \ {0}]
    <3>1. DOMAIN tables \subseteq Tables  BY <1>3 DEF Sound
    <3> QED  BY <1>11, <3>1 DEF TableFixed
  <2>2. StartsHeld(tables', starts', fixups')
    <3>1. TableFixed("fixups", point)  BY <1>11
    <3>2. tables'["fixups"].size = y + 1  BY <3>1 DEF TableFixed, Grows
    <3>3. fixups'.starts + 1 + Len(starts') < tables'["fixups"].size
      <4> HIDE DEF y, s
      <4> QED  BY <1>3, <1>6, <1>8, <1>10, <3>2
    <3> QED  BY <1>10, <3>3 DEF StartsHeld
  <2> QED  BY <1>8, <1>12, <1>14, <1>15, <1>17, <2>1, <2>2 DEF Sound
<1>19. FileInv'
  <2>1. Len(starts') - Len(input'.starts) = added + 1 /\ Len(input'.starts) <= Len(starts')
    <3>1. Len(input.starts) \in Nat /\ Len(input.starts) <= Len(starts)  BY <1>2, InputIs DEF FileInv
    <3> QED  BY <1>3, <1>4, <1>8, <3>1
  <2>2. Sound(segments, data, tables, starts, fixups, Len(starts) - Len(input.starts))'  BY <1>18, <2>1
  <2>3. (segments \in Seq(Segment(NamesNow)))'  BY <1>4, <1>14
  <2> QED  BY <1>2, <1>4, <2>1, <2>2, <2>3 DEF FileInv
\* What is in front of __LINKEDIT is in front of the blob.
<1>20. /\ linkeditOff \in Nat /\ linkeditVa \in Nat /\ linkeditVa % Page = 0
       /\ place \in 1 .. Len(segments) + 1
       /\ Border(input) <= linkeditOff /\ linkeditOff + dataBase + dataSize <= Len(data)
       /\ p = linkeditOff + inserted /\ segments[l].va = linkeditVa + inserted
  BY <1>2, <1>6, <1>pc DEF PlaceInv
<1>21. Room /\ {codeSize, dataBase, dataSize, inserted} \subseteq Nat  BY <1>2, <1>pc, Rooms
<1>22. dataBase \in Nat /\ dataSize \in Nat /\ inserted \in Nat /\ dataBase + dataSize <= inserted
  BY <1>21 DEF Room
<1>23. linkeditOff + dataBase + dataSize <= point /\ linkeditOff <= point
  <2> HIDE DEF p, b, y, f
  <2> QED  BY <1>6, <1>20, <1>22
<1>24. KeptInv'
  <2>1. /\ \A j \in DOMAIN input.segments : input.segments[j].name # Linkedit =>
             \E i \in DOMAIN segments : segments[i] = input.segments[j]
        /\ Linkedits(segments) = {} <=> Linkedits(input.segments) = {}
        /\ Border(input) \in 0 .. Len(data) /\ \A n \in 1 .. Border(input) : data[n] = input.data[n]
    BY <1>2 DEF KeptInv
  <2>2. \A n \in 1 .. Border(input) : data'[n] = input.data[n]
    <3> TAKE n \in 1 .. Border(input)
    <3>1. n \in 1 .. point  BY <1>6, <1>20, <1>23, <2>1
    <3> QED  BY <1>15, <2>1, <3>1
  <2>3. Border(input) \in 0 .. Len(data')  BY <1>3, <1>15, <2>1
  <2>4. \A j \in DOMAIN input.segments : input.segments[j].name # Linkedit =>
          \E i \in DOMAIN segments' : segments'[i] = input.segments[j]
    BY <1>16, <2>1
  <2>5. Linkedits(segments') # {} /\ Linkedits(input.segments) # {}  BY <1>6, <1>14, <2>1
  <2> QED  BY <1>4, <1>pc, <2>2, <2>3, <2>4, <2>5 DEF KeptInv
<1>25. HeaderInv'
  <2>1. commandsEnd <= Len(data) /\ \A o \in ContentOffsets : commandsEnd <= o  BY <1>2, <1>pc DEF HeaderInv, EndsBefore
  <2>2. commandsEnd \in Nat  BY <1>2 DEF FileInv
  <2>3. commandsEnd <= Len(data')  BY <1>3, <1>15, <2>1, <2>2
  <2>4. EndsBefore(commandsEnd)'  BY <1>4, <1>16, <2>1, <2>3 DEF EndsBefore
  <2> QED  BY <1>pc, <2>4 DEF HeaderInv
<1>26. LayoutInv'
  <2>1. RoomFor(Code, 0, codeSize)' <=> RoomFor(Code, 0, codeSize)  BY <1>4 DEF RoomFor
  <2>2. RoomFor(Data, dataBase, dataSize)' <=> RoomFor(Data, dataBase, dataSize)  BY <1>4 DEF RoomFor
  <2> QED  BY <1>2, <1>4, <1>pc, <2>1, <2>2 DEF LayoutInv
<1>27. PlaceInv'
  <2>1. \A k \in Linkedits(segments') : segments'[k].off = linkeditOff + inserted /\ segments'[k].va = linkeditVa + inserted
    BY <1>13, <1>14, <1>20
  <2>2. {linkeditOff, linkeditVa} \subseteq Nat  BY <1>20
  <2>3. linkeditOff + dataBase + dataSize <= Len(data')
    <3> DEFINE u == linkeditOff + dataBase + dataSize
    <3>1. u \in Nat /\ u <= Len(data)  BY <1>20, <1>22
    <3> HIDE DEF u
    <3>2. u <= Len(data')  BY <1>3, <1>15, <3>1
    <3> QED  BY <3>2 DEF u
  <2> QED  BY <1>4, <1>14, <1>20, <1>pc, <2>1, <2>2, <2>3 DEF PlaceInv
<1>28. CavesInv'
  <2>1. /\ \A i \in Plans : \E j \in DOMAIN segments : \E n \in DOMAIN segments[j].sections :
             segments[j].sections[n] = SectionOf(i)
        /\ \A j \in DOMAIN segments : \/ OldNamed(segments[j])
                                      \/ IsCave(segments[j], "code", 0, Code)
                                      \/ IsCave(segments[j], "data", dataBase, Data)
        /\ \A i \in Plans : \A n \in 0 .. plans[i].size - 1 : data[linkeditOff + offsets[i] + n + 1] = Content(i, n)
    BY <1>2, <1>pc DEF CavesInv
  <2>2. \A i : SectionOf(i)' = SectionOf(i)  BY <1>4 DEF SectionOf
  <2>3. /\ \A g : IsCave(g, "code", 0, Code)' <=> IsCave(g, "code", 0, Code)
        /\ \A g : IsCave(g, "data", dataBase, Data)' <=> IsCave(g, "data", dataBase, Data)
    BY <1>4, <2>2 DEF IsCave
  <2>4. \A i \in Plans : \E j \in DOMAIN segments' : \E n \in DOMAIN segments'[j].sections :
          segments'[j].sections[n] = SectionOf(i)
    BY <1>16, <2>1
  <2>5. ASSUME NEW j \in DOMAIN segments'
        PROVE  \/ OldNamed(segments'[j])
               \/ IsCave(segments'[j], "code", 0, Code)
               \/ IsCave(segments'[j], "data", dataBase, Data)
    <3>1. CASE j = l
      <4>1. segments'[j].name = segments[j].name /\ segments'[j].sections = segments[j].sections /\ segments'[j].va = segments[j].va
        BY <1>13, <1>14, <1>16, <3>1
      <4>2. j \in DOMAIN segments  BY <1>16
      <4>3. OldNamed(segments[j]) => OldNamed(segments'[j])  BY <4>1 DEF OldNamed
      <4>4. IsCave(segments[j], "code", 0, Code) => IsCave(segments'[j], "code", 0, Code)  BY <4>1 DEF IsCave
      <4>5. IsCave(segments[j], "data", dataBase, Data) => IsCave(segments'[j], "data", dataBase, Data)  BY <4>1 DEF IsCave
      <4> QED  BY <2>1, <4>2, <4>3, <4>4, <4>5
    <3>2. CASE j # l
      <4>1. segments'[j] = segments[j] /\ j \in DOMAIN segments  BY <1>3, <1>14, <3>2
      <4> QED  BY <2>1, <4>1
    <3> QED  BY <3>1, <3>2
  <2>6. ASSUME NEW i \in Plans, NEW n \in 0 .. plans[i].size - 1
        PROVE  data'[linkeditOff + offsets[i] + n + 1] = Content(i, n)
    <3> DEFINE m == linkeditOff + offsets[i] + n + 1
    <3>1. m \in 1 .. point
      <4> DEFINE o == offsets[i]
                 z == plans[i].size
                 r == dataBase + dataSize
      <4>1. o \in Nat /\ z \in Nat \ {0} /\ o + z <= r /\ r \in Nat /\ n \in 0 .. z - 1  BY <1>21, <1>22 DEF Room
      <4>2. linkeditOff + r <= point  BY <1>20, <1>22, <1>23
      <4> HIDE DEF o, z, r
      <4>3. linkeditOff + o + n + 1 \in 1 .. point  BY <1>6, <1>20, <4>1, <4>2
      <4> QED  BY <4>3 DEF o
    <3>2. data[m] = Content(i, n)  BY <2>1
    <3> HIDE DEF m
    <3>3. data'[m] = Content(i, n)  BY <1>15, <3>1, <3>2
    <3> QED  BY <3>3 DEF m
  <2>7. \A i \in Plans' : \E j \in DOMAIN segments' : \E n \in DOMAIN segments'[j].sections :
          segments'[j].sections[n] = SectionOf(i)'
    BY <1>4, <2>2, <2>4
  <2>8. \A j \in DOMAIN segments' : \/ OldNamed(segments[j])'
                                    \/ IsCave(segments[j], "code", 0, Code)'
                                    \/ IsCave(segments[j], "data", dataBase, Data)'
    BY <1>4, <2>3, <2>5
  <2>9. \A i \in Plans' : \A n \in 0 .. plans'[i].size - 1 : data'[linkeditOff' + offsets'[i] + n + 1] = Content(i, n)'
    BY <1>4, <2>6 DEF Content
  <2> QED  BY <1>pc, <2>7, <2>8, <2>9 DEF CavesInv
<1> QED  BY <1>19, <1>24, <1>25, <1>26, <1>27, <1>28 DEF FileParts

\* Both steps that add one.
LEMMA FixKeeps ==
  ASSUME IInv, FixCode \/ FixData  PROVE FileParts' /\ pc' \in Steps
<1>1. /\ pc \in {"code fixups", "data fixups"} /\ pc' \in {"data fixups", "done"}
      /\ UNCHANGED <<asked, commandsEnd, layout, target>>
      /\ \/ UNCHANGED <<data, segments, tables, starts, fixups>>
         \/ AddFixupStart(place - 1) \/ AddFixupStart(place)
  BY DEF FixCode, FixData
<1>2. FileParts /\ NamesInv /\ PlansInv /\ Fixing /\ pc' \in Steps
  BY <1>1 DEF IInv, FileParts, Fixing, Written, Steps
<1>3. plans # <<>>
  <2>1. pc \notin {"name", "named", "failed"}  BY <1>1
  <2> QED  BY <1>2, <2>1 DEF PlansInv
<1>4. place - 1 \in Nat /\ place \in Nat
  <2>1. pc \in Shifted  BY <1>1 DEF Shifted
  <2>2. place \in 1 .. Len(segments) + 1 /\ Len(segments) \in Nat
    <3>1. place \in 1 .. Len(segments) + 1  BY <1>2, <2>1 DEF FileParts, PlaceInv
    <3>2. Len(segments) \in Nat  BY <1>2, FileIs DEF FileParts, NamesInv
    <3> QED  BY <3>1, <3>2
  <2> QED  BY <2>2
<1>5. ASSUME NEW index \in Nat, AddFixupStart(index)  PROVE FileParts'
  <2>1. CASE "fixups" \in DOMAIN tables  BY <1>2, <1>3, <1>5, <2>1, StartIsAdded
  <2>2. CASE "fixups" \notin DOMAIN tables
    <3>1. UNCHANGED <<data, segments, tables, starts, fixups>>  BY <1>5, <2>2 DEF AddFixupStart
    <3> QED  BY <1>2, <3>1, NothingFixed
  <2> QED  BY <2>1, <2>2
<1>6. CASE UNCHANGED <<data, segments, tables, starts, fixups>>  BY <1>2, <1>6, NothingFixed
<1> QED  BY <1>1, <1>2, <1>4, <1>5, <1>6

-----------------------------------------------------------------------------
(* Every step.                                                              *)

\* The plans stay, once they are made.
LEMMA PlansKept ==
  ASSUME PlansInv, UNCHANGED <<plans, input>>, used \subseteq used',
         pc' \in {"name", "named", "failed"} \/ pc \notin {"name", "named", "failed"}
  PROVE  PlansInv'
<1>1. Plans' = Plans /\ NamesOf(input.segments)' = NamesOf(input.segments)  BY DEF Plans
<1>2. Plan(used) \subseteq Plan(used')  BY DEF Plan
<1>3. plans' \in Seq(Plan(used'))
  <2> DEFINE S == Plan(used)
             T == Plan(used')
  <2>1. plans \in Seq(S) /\ S \subseteq T  BY <1>2 DEF PlansInv
  <2> HIDE DEF S, T
  <2>2. plans \in Seq(T)  BY <2>1, SeqMonotonic
  <2> QED  BY <2>2 DEF T
<1> QED  BY <1>1, <1>3 DEF PlansInv

\* The parts make the whole.
LEMMA WholeNext ==
  ASSUME NamesInv', PlansInv', FileParts', pc' \in Steps  PROVE IInv'
<1>1. FileInv' /\ KeptInv' /\ HeaderInv' /\ LayoutInv' /\ PlaceInv' /\ CavesInv'  BY DEF FileParts
<1>2. TypeOK'
  <2>1. NamesTyped' /\ plans' \in Seq(Plan(used))' /\ segments' \in Seq(Segment(NamesNow))' /\ commandsEnd' \in Nat
    BY <1>1 DEF NamesInv, PlansInv, FileInv
  <2>2. /\ DOMAIN tables' \subseteq Tables /\ starts' \in Seq(Nat)
        /\ SegmentsHeld(segments, data, Len(starts) - Len(input.starts))'
    BY <1>1 DEF FileInv, Sound
  <2>3. \A j \in DOMAIN segments' : segments'[j].off + segments'[j].fsize <= Len(data')  BY <2>2 DEF SegmentsHeld
  <2> QED  BY <2>1, <2>2, <2>3 DEF TypeOK, Steps
<1> QED  BY <1>1, <1>2 DEF IInv

\* A step of the writer gives no names and makes no plans.
LEMMA WriterNext ==
  ASSUME IInv, FileParts' /\ pc' \in Steps, UNCHANGED asked,
         pc \notin {"name", "named", "failed"}, pc' \notin {"name", "named"}
  PROVE  IInv'
<1>1. UNCHANGED <<input, given, plans>> /\ used' = used  BY DEF asked, given
<1>2. NamesInv /\ PlansInv  BY DEF IInv
<1>3. NamesInv'  BY <1>1, <1>2, LaterKeepsNames
<1>4. PlansInv'  BY <1>1, <1>2, PlansKept
<1> QED  BY <1>3, <1>4, WholeNext

\* Every step keeps the invariant.
LEMMA Inductive ==
  ASSUME IInv, [Next]_vars  PROVE IInv'
<1>1. NamesInv /\ PlansInv  BY DEF IInv
<1>2. CASE Naming
  <2>1. FileParts' /\ pc' \in Steps  BY <1>2, WriterIdle
  <2>2. plans' = plans /\ input' = input /\ pc = "name" /\ pc' \in {"name", "named", "failed"} /\ used \subseteq used'
    <3>1. CASE NamePlugin  BY <1>2, <3>1 DEF Naming, NamePlugin
    <3>2. CASE CheckFile  BY <1>2, <3>2 DEF Naming, CheckFile, given
    <3> QED  BY <1>2, <3>1, <3>2 DEF Naming
  <2>3. PlansInv'  BY <1>1, <2>2, PlansKept
  <2>4. NamesInv'
    <3>1. CASE NamePlugin  BY <1>1, <2>2, <3>1, NamePluginKeepsNames
    <3>2. CASE CheckFile  BY <1>1, <2>2, <3>2, CheckFileKeepsNames
    <3> QED  BY <1>2, <3>1, <3>2 DEF Naming
  <2> QED  BY <2>1, <2>3, <2>4, WholeNext
<1>3. CASE MakePlans
  <2>1. FileParts' /\ pc' \in Steps  BY <1>3, WriterIdle
  <2>2. PlansInv'  BY <1>1, <1>3, PlansAreMade
  <2>3. pc = "named" /\ pc' = "signature" /\ UNCHANGED <<input, given>>  BY <1>3 DEF MakePlans
  <2>4. NamesInv'  BY <1>1, <2>3, LaterKeepsNames
  <2> QED  BY <2>1, <2>2, <2>4, WholeNext
<1>4. CASE RemoveSignature
  <2>1. pc = "signature" /\ pc' = "room" /\ UNCHANGED asked  BY <1>4 DEF RemoveSignature
  <2>2. FileParts' /\ pc' \in Steps  BY <1>4, RemoveSignatureKeeps
  <2> QED  BY <2>1, <2>2, WriterNext
<1>5. CASE HeaderRoom
  <2>1. pc = "room" /\ pc' \in {"failed", "place"} /\ UNCHANGED asked  BY <1>5 DEF HeaderRoom
  <2>2. FileParts' /\ pc' \in Steps  BY <1>5, HeaderRoomKeeps
  <2> QED  BY <2>1, <2>2, WriterNext
<1>6. CASE PlaceGroups
  <2>1. pc = "place" /\ pc' = "shift" /\ UNCHANGED asked  BY <1>6 DEF PlaceGroups
  <2>2. FileParts' /\ pc' \in Steps  BY <1>6, PlaceGroupsKeeps
  <2> QED  BY <2>1, <2>2, WriterNext
<1>7. CASE Shift
  <2>1. pc = "shift" /\ pc' = "caves" /\ UNCHANGED asked  BY <1>7 DEF Shift
  <2>2. FileParts' /\ pc' \in Steps  BY <1>7, ShiftInFront, ShiftAtEnd
  <2> QED  BY <2>1, <2>2, WriterNext
<1>8. CASE WriteCaves
  <2>1. pc = "caves" /\ pc' = "code fixups" /\ UNCHANGED asked  BY <1>8 DEF WriteCaves
  <2>2. FileParts' /\ pc' \in Steps  BY <1>8, WriteCavesKeeps
  <2> QED  BY <2>1, <2>2, WriterNext
<1>9. CASE FixCode \/ FixData
  <2>1. pc \in {"code fixups", "data fixups"} /\ pc' \in {"data fixups", "done"} /\ UNCHANGED asked
    BY <1>9 DEF FixCode, FixData
  <2>2. FileParts' /\ pc' \in Steps  BY <1>9, FixKeeps
  <2> QED  BY <2>1, <2>2, WriterNext
<1>10. CASE UNCHANGED vars
  <2>1. UNCHANGED <<input, pc, codeNames, dataNames, used, plans, data, segments, tables, starts, fixups, commandsEnd,
                    offsets, codeSize, dataBase, dataSize, inserted, linkeditOff, linkeditVa, place, error>>
    BY <1>10 DEF vars, given, writer
  <2>a. /\ NamesNow' = NamesNow /\ Plans' = Plans /\ Code' = Code /\ Data' = Data /\ CommandSize' = CommandSize
        /\ CaveName("code")' = CaveName("code") /\ CaveName("data")' = CaveName("data")
        /\ \A g : OldNamed(g)' <=> OldNamed(g)
    BY <2>1, AskedKept DEF asked, given
  <2>b. ContentOffsets' = ContentOffsets  BY <2>1, SameOffsets
  <2>2. TypeOK'  BY <2>1, <2>a DEF IInv, TypeOK, NamesTyped
  <2>3. NamesInv' /\ PlansInv'
    BY <2>1 DEF IInv, NamesInv, PlansInv, NamesTyped, Distinct, Given, NameOf, Plans
  <2>4. FileInv'  BY <2>1, <2>a DEF IInv, FileInv
  <2>5. KeptInv'  BY <2>1 DEF IInv, KeptInv, AsRead, OldNamed
  <2>6. HeaderInv'  BY <2>1, <2>a, <2>b DEF IInv, HeaderInv, EndsBefore
  <2>7. LayoutInv'  BY <2>1 DEF IInv, LayoutInv, RoomFor, Code, Data, Plans
  <2>8. PlaceInv'  BY <2>1 DEF IInv, PlaceInv
  <2>9. CavesInv'  BY <2>1, <2>a DEF IInv, CavesInv, SectionOf, IsCave
  <2> QED  BY <2>2, <2>3, <2>4, <2>5, <2>6, <2>7, <2>8, <2>9 DEF IInv
<1> QED  BY <1>2, <1>3, <1>4, <1>5, <1>6, <1>7, <1>8, <1>9, <1>10 DEF Next

\* The invariant holds in every state.
THEOREM Invariant == Spec => []IInv
<1>1. Init => IInv  BY InitFile
<1>2. IInv /\ [Next]_vars => IInv'  BY Inductive
<1> QED  BY <1>1, <1>2, PTL DEF Spec

-----------------------------------------------------------------------------
(* What the invariant says of a file that is done.                          *)

\* The load commands end before all that the segments hold.
LEMMA HeaderEnds ==
  ASSUME IInv, pc = "done"  PROVE commandsEnd <= FirstContent
<1> DEFINE S == ContentOffsets \cup {Len(data)}
<1>1. ContentOffsets \subseteq Nat /\ Len(data) \in Nat  BY FileIs DEF IInv, NamesInv
<1>2. EndsBefore(commandsEnd)  BY DEF IInv, HeaderInv, Written
<1>3. \A o \in S : commandsEnd <= o  BY <1>2 DEF EndsBefore
<1>4. S \subseteq Nat /\ S # {}  BY <1>1
<1>5. FirstContent = CHOOSE off \in S : \A o \in S : off <= o  BY DEF FirstContent
<1> HIDE DEF S
<1>6. \E off \in S : \A o \in S : off <= o  BY <1>4, Least
<1>7. FirstContent \in S  BY <1>5, <1>6
<1> QED  BY <1>3, <1>7

\* What is in front of the border is still there.
LEMMA StillThere ==
  ASSUME input \in Inputs, KeptInv, NEW j \in DOMAIN input.segments, input.segments[j].name # Linkedit,
         NEW n \in input.segments[j].off + 1 .. input.segments[j].off + input.segments[j].fsize
  PROVE  data[n] = input.data[n]
<1> DEFINE file == input.segments
           N == NamesOf(input.segments)
           bytes == input.data
           b == Border(input)
<1>1. Linked(input) /\ file \in Seq(Segment(N))  BY InputIs
<1>2. /\ SegmentsHeld(file, bytes, 0) /\ LinkeditLast(file) /\ bytes \in Seq(ToSet(bytes))
  BY <1>1 DEF Linked, Sound
<1>3. b = IF Linkedits(file) = {} THEN Len(bytes) ELSE file[CHOOSE l \in Linkedits(file) : TRUE].off
  BY DEF Border
<1>4. \A m \in 1 .. b : data[m] = bytes[m]  BY DEF KeptInv
<1> HIDE DEF N, bytes, b
<1>5. DOMAIN file = 1 .. Len(file) /\ \A k \in DOMAIN file : file[k] \in Segment(N)  BY <1>1, PartsAre
<1> HIDE DEF file
<1>6. file[j] \in Segment(N) /\ j \in 1 .. Len(file) /\ file[j].name # Linkedit  BY <1>5 DEF file
<1>7. file[j].off + file[j].fsize <= b /\ b \in Nat
  <2>1. CASE Linkedits(file) = {}
    <3>1. file[j].off + file[j].fsize <= Len(bytes) /\ Len(bytes) \in Nat  BY <1>1, <1>2, <1>6, HeldIs
    <3> QED  BY <1>3, <2>1, <3>1
  <2>2. CASE Linkedits(file) # {}
    <3> DEFINE l == CHOOSE k \in Linkedits(file) : TRUE
    <3>1. l \in Linkedits(file)  BY <2>2
    <3>2. b = file[l].off  BY <1>3, <2>2
    <3> HIDE DEF l
    <3>3. /\ file[l] \in Segment(N) /\ file[l].name = Linkedit
          /\ \A k \in 1 .. Len(file) : k # l => file[k].off + file[k].fsize <= file[l].off
      BY <1>1, <1>2, <3>1, LastIs
    <3>4. j # l  BY <1>6, <3>3
    <3>5. file[l].off \in Nat  BY <3>3, SegmentIs
    <3> QED  BY <1>6, <3>2, <3>3, <3>4, <3>5
  <2> QED  BY <2>1, <2>2
<1>8. file[j].off \in Nat /\ file[j].fsize \in Nat  BY <1>6, SegmentIs
<1> DEFINE o == file[j].off
           z == file[j].fsize
<1>9. n \in o + 1 .. o + z /\ o \in Nat /\ z \in Nat /\ o + z <= b  BY <1>7, <1>8 DEF file
<1> HIDE DEF o, z
<1>10. n \in 1 .. b  BY <1>7, <1>9
<1> QED  BY <1>4, <1>10 DEF bytes

-----------------------------------------------------------------------------
(* Finding a section by its name.                                           *)

\* The first of some numbers.
LEMMA FirstIs ==
  ASSUME NEW S, S \subseteq Nat, S # {}
  PROVE  First(S) \in S /\ \A m \in S : First(S) <= m
<1>1. \E n \in S : \A m \in S : n <= m  BY Least
<1> QED  BY <1>1 DEF First

\* The first section of those that are found is one of them, and the first of
\* those its segment has.
LEMMA FirstSectionIs ==
  ASSUME FileInv, input \in Inputs, NEW found,
         \A j \in DOMAIN segments : found[j] \subseteq DOMAIN segments[j].sections,
         \E j \in DOMAIN segments : found[j] # {}
  PROVE  \E j \in DOMAIN segments : \E n \in found[j] :
           FirstSection(found) = segments[j].sections[n] /\ \A m \in found[j] : n <= m
<1> DEFINE S == {i \in DOMAIN segments : found[i] # {}}
           j == First(S)
           n == First(found[j])
<1>1. DOMAIN segments = 1 .. Len(segments) /\ \A i \in 1 .. Len(segments) : segments[i] \in Segment(NamesNow)  BY FileIs
<1>2. S \subseteq Nat /\ S # {}  BY <1>1
<1>3. FirstSection(found) = segments[j].sections[n]  BY DEF FirstSection
<1>4. j \in S
  <2> HIDE DEF S
  <2> QED  BY <1>2, FirstIs
<1>5. j \in DOMAIN segments /\ found[j] # {} /\ found[j] \subseteq DOMAIN segments[j].sections  BY <1>4
<1> HIDE DEF j
<1>6. DOMAIN segments[j].sections \subseteq Nat
  <2>1. segments[j] \in Segment(NamesNow)  BY <1>1, <1>5
  <2>2. DOMAIN segments[j].sections = 1 .. Len(segments[j].sections)  BY <2>1, SegmentIs
  <2> QED  BY <2>2
<1>7. found[j] \subseteq Nat /\ found[j] # {}  BY <1>5, <1>6
<1>8. n \in found[j] /\ \A m \in found[j] : n <= m  BY <1>7, FirstIs
<1> QED  BY <1>3, <1>5, <1>8

\* A section of a plan's name is the plan's.
LEMMA NamedIsOwn ==
  ASSUME PlansInv, CavesInv, pc = "done", NEW i \in Plans, NEW j \in DOMAIN segments,
         NEW n \in DOMAIN segments[j].sections, segments[j].sections[n].name = plans[i].name
  PROVE  segments[j].sections[n] = SectionOf(i)
<1>1. plans[i].name \notin NamesOf(input.segments)  BY DEF PlansInv
<1>2. ~OldNamed(segments[j])  BY <1>1 DEF OldNamed
<1>3. IsCave(segments[j], "code", 0, Code) \/ IsCave(segments[j], "data", dataBase, Data)
  BY <1>2 DEF CavesInv, Written
<1>4. \E k \in Plans : segments[j].sections[n] = SectionOf(k)  BY <1>3 DEF IsCave, Code, Data
<1>5. PICK k \in Plans : segments[j].sections[n] = SectionOf(k)  BY <1>4
<1>6. plans[k].name = plans[i].name  BY <1>5 DEF SectionOf
<1>7. k = i  BY <1>6 DEF PlansInv
<1> QED  BY <1>5, <1>7

\* A segment of its name is the data's, and begins with its section, if the
\* plan is not shadowed.
LEMMA NamedSegment ==
  ASSUME PlansInv, LayoutInv, CavesInv, pc = "done", NEW i \in Plans, ~Shadowed(i), NEW j \in DOMAIN segments,
         segments[j].name = plans[i].name
  PROVE  /\ segments[j].va = linkeditVa + offsets[i]
         /\ 1 \in DOMAIN segments[j].sections /\ segments[j].sections[1] = SectionOf(i)
<1>1. plans[i].name \notin NamesOf(input.segments)  BY DEF PlansInv
<1>2. ~OldNamed(segments[j])  BY <1>1 DEF OldNamed
<1>3. IsCave(segments[j], "code", 0, Code) \/ IsCave(segments[j], "data", dataBase, Data)
  BY <1>2 DEF CavesInv, Written
<1>4. plans[i].name # CaveName("code")  BY DEF Shadowed
<1>5. IsCave(segments[j], "data", dataBase, Data)  BY <1>3, <1>4 DEF IsCave
<1>6. /\ plans[i].name = CaveName("data") /\ segments[j].va = linkeditVa + dataBase
      /\ 1 \in DOMAIN segments[j].sections
      /\ \E k \in Data : segments[j].sections[1] = SectionOf(k) /\ \A h \in Data : k <= h
  BY <1>5 DEF IsCave
<1>7. PICK k \in Data : segments[j].sections[1] = SectionOf(k) /\ \A h \in Data : k <= h  BY <1>6
<1>8. i \notin Code /\ \A h \in Data : ~(h < i)  BY <1>6, <1>7 DEF Shadowed
<1>9. /\ Plans = 1 .. Len(plans) /\ Data \subseteq Plans /\ Len(plans) \in Nat /\ (i \in Code <=> i \notin Data)
  BY PlansAre
<1>10. i \in Data  BY <1>8, <1>9
<1>11. k \in Nat /\ i \in Nat /\ k <= i /\ ~(k < i)  BY <1>7, <1>8, <1>9, <1>10
<1>12. k = i  BY <1>11
<1>13. RoomFor(Data, dataBase, dataSize)  BY DEF LayoutInv, Shifted
<1>14. offsets[i] = dataBase  BY <1>7, <1>10, <1>12, <1>13 DEF RoomFor
<1> QED  BY <1>6, <1>7, <1>12, <1>14

\* The address and the offset that are found for a plan are its own.
LEMMA FoundIsOwn ==
  ASSUME IInv, pc = "done", NEW i \in Plans, ~Shadowed(i)
  PROVE  /\ SegVa(plans[i].name) = linkeditVa + offsets[i]
         /\ SegmentFileOffset(plans[i].name) = linkeditOff + offsets[i]
<1> DEFINE name == plans[i].name
           called == {j \in DOMAIN segments : segments[j].name = name}
           named  == [j \in DOMAIN segments |-> NamedSections(j, name)]
           found  == [j \in DOMAIN segments |-> IF segments[j].name = name THEN DOMAIN segments[j].sections
                                                ELSE NamedSections(j, name)]
<1>1. PlansInv /\ LayoutInv /\ CavesInv /\ FileInv /\ input \in Inputs  BY DEF IInv, NamesInv
<1>2. PICK a \in DOMAIN segments : \E b \in DOMAIN segments[a].sections : segments[a].sections[b] = SectionOf(i)
  BY <1>1 DEF CavesInv, Written
<1>3. PICK b \in DOMAIN segments[a].sections : segments[a].sections[b] = SectionOf(i)  BY <1>2
<1>4. b \in NamedSections(a, name)  BY <1>3 DEF NamedSections, SectionOf
<1>5. SectionOf(i).va = linkeditVa + offsets[i] /\ SectionOf(i).off = linkeditOff + offsets[i]  BY DEF SectionOf
<1>6. ASSUME NEW j \in DOMAIN segments, NEW n \in NamedSections(j, name)
      PROVE  n \in DOMAIN segments[j].sections /\ segments[j].sections[n] = SectionOf(i)
  <2>1. n \in DOMAIN segments[j].sections /\ segments[j].sections[n].name = plans[i].name  BY DEF NamedSections
  <2> QED  BY <1>1, <2>1, NamedIsOwn
<1>7. ASSUME NEW j \in DOMAIN segments, segments[j].name = name
      PROVE  /\ segments[j].va = linkeditVa + offsets[i]
             /\ 1 \in DOMAIN segments[j].sections /\ segments[j].sections[1] = SectionOf(i)
  BY <1>1, <1>7, NamedSegment
<1>8. DOMAIN segments = 1 .. Len(segments) /\ \A j \in 1 .. Len(segments) : segments[j] \in Segment(NamesNow)
  BY <1>1, FileIs
<1>9. SegVa(name) = IF called # {} THEN segments[First(called)].va ELSE FirstSection(named).va  BY DEF SegVa
<1>10. SegmentFileOffset(name) = FirstSection(found).off  BY DEF SegmentFileOffset
<1>11. /\ \A j \in DOMAIN segments : named[j] \subseteq DOMAIN segments[j].sections
       /\ \E j \in DOMAIN segments : named[j] # {}
  BY <1>4, <1>6
<1>12. /\ \A j \in DOMAIN segments : found[j] \subseteq DOMAIN segments[j].sections
       /\ \E j \in DOMAIN segments : found[j] # {}
  BY <1>3, <1>4, <1>6
<1>13. /\ \A j \in DOMAIN segments : named[j] = NamedSections(j, name)
       /\ \A j \in DOMAIN segments : found[j] = IF segments[j].name = name THEN DOMAIN segments[j].sections
                                                ELSE NamedSections(j, name)
  OBVIOUS
<1>14. \A j \in called : j \in DOMAIN segments /\ segments[j].name = name  OBVIOUS
<1>15. called \subseteq Nat  BY <1>8
<1> HIDE DEF named, found, called, name
<1>16. SegVa(name) = linkeditVa + offsets[i]
  <2>1. CASE called # {}
    <3>1. First(called) \in called  BY <1>15, <2>1, FirstIs
    <3> QED  BY <1>7, <1>9, <1>14, <2>1, <3>1
  <2>2. CASE called = {}
    <3>1. PICK j \in DOMAIN segments : \E n \in named[j] : FirstSection(named) = segments[j].sections[n]
      BY <1>1, <1>11, FirstSectionIs
    <3>2. PICK n \in named[j] : FirstSection(named) = segments[j].sections[n]  BY <3>1
    <3>3. FirstSection(named) = SectionOf(i)  BY <1>6, <1>13, <3>2
    <3> QED  BY <1>5, <1>9, <2>2, <3>3
  <2> QED  BY <2>1, <2>2
<1>17. FirstSection(found) = SectionOf(i)
  <2>1. PICK j \in DOMAIN segments : \E n \in found[j] :
          FirstSection(found) = segments[j].sections[n] /\ \A m \in found[j] : n <= m
    BY <1>1, <1>12, FirstSectionIs
  <2>2. PICK n \in found[j] : FirstSection(found) = segments[j].sections[n] /\ \A m \in found[j] : n <= m  BY <2>1
  <2>3. CASE segments[j].name = name
    <3>1. 1 \in found[j] /\ segments[j].sections[1] = SectionOf(i)  BY <1>7, <1>13, <2>3
    <3>2. n \in 1 .. Len(segments[j].sections)
      <4>1. segments[j] \in Segment(NamesNow)  BY <1>8
      <4>2. DOMAIN segments[j].sections = 1 .. Len(segments[j].sections)  BY <4>1, SegmentIs
      <4> QED  BY <1>12, <2>2, <4>2
    <3>3. n <= 1  BY <2>2, <3>1
    <3>4. n = 1  BY <3>2, <3>3
    <3> QED  BY <2>2, <3>1, <3>4
  <2>4. CASE segments[j].name # name  BY <1>6, <1>13, <2>2, <2>4
  <2> QED  BY <2>3, <2>4
<1> QED  BY <1>5, <1>10, <1>16, <1>17 DEF name

\* Its room is in the file.
LEMMA RoomInFile ==
  ASSUME IInv, pc = "done", NEW i \in Plans
  PROVE  linkeditOff + offsets[i] + plans[i].size <= Len(data)
<1>1. PlansInv /\ LayoutInv /\ PlaceInv /\ FileInv /\ input \in Inputs  BY DEF IInv, NamesInv
<1>2. /\ {codeSize, dataBase, dataSize, inserted} \subseteq Nat /\ offsets \in [Plans -> Nat]
      /\ RoomFor(Code, 0, codeSize) /\ RoomFor(Data, dataBase, dataSize)
      /\ dataBase = AlignUp(codeSize, Page)
  BY <1>1 DEF LayoutInv, Shifted
<1>3. {linkeditOff, linkeditVa} \subseteq Nat /\ linkeditOff + dataBase + dataSize <= Len(data)
  BY <1>1 DEF PlaceInv, Shifted
<1>4. plans[i].size \in Nat /\ (i \in Code <=> i \notin Data)  BY <1>1, PlansAre
<1>5. codeSize <= dataBase  BY <1>2, AlignUpNat, Constants
<1>6. /\ i \in Code => offsets[i] + plans[i].size <= 0 + codeSize
      /\ i \in Data => offsets[i] + plans[i].size <= dataBase + dataSize
  BY <1>2 DEF RoomFor
<1>7. codeSize \in Nat /\ dataBase \in Nat /\ dataSize \in Nat /\ linkeditOff \in Nat /\ offsets[i] \in Nat  BY <1>2, <1>3
<1>8. Len(data) \in Nat  BY <1>1, FileIs
<1> DEFINE o == offsets[i]
           z == plans[i].size
           e == Len(data)
<1>9. /\ o \in Nat /\ z \in Nat /\ e \in Nat /\ linkeditOff + dataBase + dataSize <= e
      /\ o + z <= 0 + codeSize \/ o + z <= dataBase + dataSize
  BY <1>3, <1>4, <1>6, <1>7, <1>8
<1> HIDE DEF o, z, e
<1>10. linkeditOff + o + z <= e  BY <1>5, <1>7, <1>9
<1> QED  BY <1>10 DEF o, z, e

-----------------------------------------------------------------------------
(* The properties.                                                          *)

\* Names, plans, segments and offsets have their types in every state, and no
\* segment has bytes behind the end of the file.
THEOREM TypeCorrect == Spec => []TypeOK
<1>1. IInv => TypeOK  BY DEF IInv
<1> QED  BY <1>1, Invariant, PTL

\* No two sections get one name, and none gets a name of the file.
THEOREM NamesDistinct == Spec => []Distinct
<1>1. IInv => Distinct  BY DEF IInv, NamesInv
<1> QED  BY <1>1, Invariant, PTL

\* No two segments share a page in memory or a byte in the file, and the load
\* commands end before the first section.
THEOREM Apartness == Spec => []NothingOverlaps
<1>1. ASSUME IInv  PROVE NothingOverlaps
  <2>1. ASSUME pc = "done"
        PROVE  /\ commandsEnd <= FirstContent /\ SegmentsApart(segments)
               /\ SegmentsHeld(segments, data, Len(starts) - Len(input.starts))
    <3>1. commandsEnd <= FirstContent  BY <1>1, <2>1, HeaderEnds
    <3>2. SegmentsApart(segments) /\ SegmentsHeld(segments, data, Len(starts) - Len(input.starts))
      BY <1>1 DEF IInv, FileInv, Sound
    <3> QED  BY <3>1, <3>2
  <2> QED  BY <2>1 DEF NothingOverlaps
<1> QED  BY <1>1, Invariant, PTL

\* What was in the file is where it was, and the tables of __LINKEDIT are where
\* their load commands say.
THEOREM WhatWasThereFollows == Spec => []Follows
<1>1. ASSUME IInv  PROVE Follows
  <2>1. input \in Inputs /\ KeptInv  BY <1>1 DEF IInv, NamesInv
  <2>2. TablesHeld(segments, data, tables)  BY <1>1 DEF IInv, FileInv, Sound
  <2>3. ASSUME NEW j \in DOMAIN input.segments, input.segments[j].name # Linkedit
        PROVE  \E i \in DOMAIN segments :
                 /\ segments[i] = input.segments[j]
                 /\ \A n \in segments[i].off + 1 .. segments[i].off + segments[i].fsize : data[n] = input.data[n]
    <3>1. PICK i \in DOMAIN segments : segments[i] = input.segments[j]  BY <2>1, <2>3 DEF KeptInv
    <3>2. \A n \in input.segments[j].off + 1 .. input.segments[j].off + input.segments[j].fsize : data[n] = input.data[n]
      BY <2>1, <2>3, StillThere
    <3> QED  BY <3>1, <3>2
  <2> QED  BY <2>2, <2>3 DEF Follows
<1> QED  BY <1>1, Invariant, PTL

\* A plugin finds its own section by its name: both the address and the offset
\* lead to the room that was made for it, which nobody else has written to.
THEOREM PluginsAreFound == Spec => []FoundByName
<1>1. ASSUME IInv  PROVE FoundByName
  <2>1. ASSUME pc = "done", NEW i \in Plans, ~Shadowed(i)
        PROVE  /\ SegVa(plans[i].name) = linkeditVa + offsets[i]
               /\ SegmentFileOffset(plans[i].name) + plans[i].size <= Len(data)
               /\ \A n \in 0 .. plans[i].size - 1 :
                    data[SegmentFileOffset(plans[i].name) + n + 1] = Content(i, n)
    <3>1. SegVa(plans[i].name) = linkeditVa + offsets[i]
          /\ SegmentFileOffset(plans[i].name) = linkeditOff + offsets[i]
      BY <1>1, <2>1, FoundIsOwn
    <3>2. linkeditOff + offsets[i] + plans[i].size <= Len(data)  BY <1>1, <2>1, RoomInFile
    <3>3. \A n \in 0 .. plans[i].size - 1 : data[linkeditOff + offsets[i] + n + 1] = Content(i, n)
      BY <1>1, <2>1 DEF IInv, CavesInv, Written
    <3> QED  BY <3>1, <3>2, <3>3
  <2> QED  BY <2>1 DEF FoundByName
<1> QED  BY <1>1, Invariant, PTL

-----------------------------------------------------------------------------
(* What the entries of the fixups and the segments have become.             *)

\* A cave takes a segment, and an entry for it, in front of __LINKEDIT.
Groups == (IF Code = {} THEN 0 ELSE 1) + (IF Data = {} THEN 0 ELSE 1)
Added == IF pc \in Written THEN Groups ELSE 0
Entered == IF pc = "done" THEN Groups ELSE IF pc = "data fixups" /\ Code # {} THEN 1 ELSE 0
Later(j, k) == IF j < place THEN j ELSE j + k

\* Where __LINKEDIT was in memory.
Ceiling == input.segments[CHOOSE l \in Linkedits(input.segments) : TRUE].va

SegmentsAre(k) ==
  /\ Len(segments) = Len(input.segments) + k
  /\ \A j \in 1 .. Len(input.segments) : input.segments[j].name # Linkedit => segments[Later(j, k)] = input.segments[j]
  /\ \A i \in 1 .. Len(segments) :
       Ceiling <= segments[i].va
       \/ \E j \in 1 .. Len(input.segments) : input.segments[j].name # Linkedit /\ i = Later(j, k)

SegmentsInv ==
  Linkedits(input.segments) # {} =>
    SegmentsAre(Added) /\ (pc \in Shifted => place \in 1 .. Len(input.segments) /\ Ceiling <= linkeditVa)

\* Behind where the entries of the caves are inserted nothing changes, but all
\* moves with what is in front; until one is, nothing moves.
Low(k) == IF k = 0 THEN 0 ELSE EntryPoint

EntriesAre(k) ==
  /\ "fixups" \in DOMAIN input.tables
  /\ Len(starts) = Len(input.starts) + k
  /\ \A j \in 1 .. Len(input.starts) : starts[Later(j, k)] = IF input.starts[j] < Low(k) THEN input.starts[j] ELSE input.starts[j] + k
  /\ \A n \in 1 .. Len(starts) : starts[n] = 0 \/ \E j \in 1 .. Len(input.starts) : n = Later(j, k)
  /\ fixups.starts = input.fixups.starts
  /\ fixups.imports = input.fixups.imports + k /\ fixups.symbols = input.fixups.symbols + k
  /\ tables["fixups"].size = input.tables["fixups"].size + k
  /\ \A n \in Low(k) .. input.tables["fixups"].size - 1 :
       data[tables["fixups"].off + (n + k) + 1] = input.data[input.tables["fixups"].off + n + 1]

EntriesInv == "fixups" \in DOMAIN tables => EntriesAre(Entered)

-----------------------------------------------------------------------------
(* The parse of a file, and of what the file becomes.                       *)

\* The words of the blob that are not in front of the first one move.
SameBlob(f, g, k, first) ==
  /\ k \in Nat /\ first \in Nat /\ f.blob.size \in Nat /\ f.imports \in Nat /\ f.symbols \in Nat
  /\ first <= f.imports /\ first <= f.symbols
  /\ g.blob.size = f.blob.size + k /\ g.imports = f.imports + k /\ g.symbols = f.symbols + k
  /\ \A n \in first .. f.blob.size - 1 :
       Word(g, n + k) = Word(f, n) /\ (Word(f, n)[1] = "import" => Word(f, n)[2] \in Nat)

\* One of them,
LEMMA WordFollows ==
  ASSUME NEW f, NEW g, NEW k, NEW first, SameBlob(f, g, k, first), NEW n \in Nat, first <= n
  PROVE  /\ InBlob(g, n + k) <=> InBlob(f, n)
         /\ InBlob(f, n) => Word(g, n + k) = Word(f, n) /\ (Word(f, n)[1] = "import" => Word(f, n)[2] \in Nat)
<1> DEFINE z == f.blob.size
<1>1. /\ k \in Nat /\ first \in Nat /\ z \in Nat /\ g.blob.size = z + k
      /\ \A m \in first .. z - 1 : Word(g, m + k) = Word(f, m) /\ (Word(f, m)[1] = "import" => Word(f, m)[2] \in Nat)
  BY DEF SameBlob
<1>2. InBlob(f, n) <=> n < z  BY DEF InBlob
<1>3. InBlob(g, n + k) <=> n + k < z + k  BY <1>1 DEF InBlob
<1> HIDE DEF z
<1>4. n + k < z + k <=> n < z  BY <1>1
<1>5. n < z => n \in first .. z - 1  BY <1>1
<1> QED  BY <1>1, <1>2, <1>3, <1>4, <1>5

\* and so the name of an import, though it is found by two of them.
LEMMA ImportFollows ==
  ASSUME NEW f, NEW g, NEW k, NEW first, SameBlob(f, g, k, first), NEW n \in Nat
  PROVE  ImportName(g, n) = ImportName(f, n)
<1> DEFINE a == f.imports + n
           w == Word(f, a)
           at == f.symbols + w[2]
<1>1. a \in Nat /\ first <= a /\ g.imports + n = a + k
  <2> DEFINE i == f.imports
  <2>1. i \in Nat /\ k \in Nat /\ first \in Nat /\ first <= i /\ g.imports = i + k  BY DEF SameBlob
  <2> HIDE DEF i
  <2>2. i + n \in Nat /\ first <= i + n /\ (i + k) + n = (i + n) + k  BY <2>1
  <2> QED  BY <2>1, <2>2 DEF i
<1> HIDE DEF a
<1>2. InBlob(g, a + k) <=> InBlob(f, a)  BY <1>1, WordFollows
<1>3. InBlob(f, a) => Word(g, a + k) = w /\ (w[1] = "import" => w[2] \in Nat)  BY <1>1, WordFollows
<1>4. ImportName(f, n) = IF ~InBlob(f, a) \/ w[1] # "import" THEN <<>>
                         ELSE IF InBlob(f, at) /\ Word(f, at)[1] = "string" THEN Word(f, at)[2] ELSE <<>>
  BY DEF ImportName, a
<1>5. ImportName(g, n) = IF ~InBlob(g, a + k) \/ Word(g, a + k)[1] # "import" THEN <<>>
                         ELSE LET there == g.symbols + Word(g, a + k)[2]
                              IN  IF InBlob(g, there) /\ Word(g, there)[1] = "string" THEN Word(g, there)[2] ELSE <<>>
  BY <1>1 DEF ImportName
<1>6. CASE ~InBlob(f, a) \/ w[1] # "import"  BY <1>2, <1>3, <1>4, <1>5, <1>6
<1>7. CASE InBlob(f, a) /\ w[1] = "import"
  <2>1. at \in Nat /\ first <= at /\ g.symbols + w[2] = at + k
    <3> DEFINE s == f.symbols
               m == w[2]
    <3>1. s \in Nat /\ k \in Nat /\ first \in Nat /\ first <= s /\ g.symbols = s + k  BY DEF SameBlob
    <3>2. m \in Nat  BY <1>3, <1>7
    <3> HIDE DEF s, m
    <3>3. s + m \in Nat /\ first <= s + m /\ (s + k) + m = (s + m) + k  BY <3>1, <3>2
    <3> QED  BY <3>1, <3>3 DEF s, m
  <2> HIDE DEF at, w
  <2>2. InBlob(g, at + k) <=> InBlob(f, at)  BY <2>1, WordFollows
  <2>3. InBlob(f, at) => Word(g, at + k) = Word(f, at)  BY <2>1, WordFollows
  <2>4. ImportName(g, n) = IF InBlob(g, at + k) /\ Word(g, at + k)[1] = "string" THEN Word(g, at + k)[2] ELSE <<>>
    BY <1>2, <1>3, <1>5, <1>7, <2>1
  <2>5. ImportName(f, n) = IF InBlob(f, at) /\ Word(f, at)[1] = "string" THEN Word(f, at)[2] ELSE <<>>  BY <1>4, <1>7
  <2> QED  BY <2>2, <2>3, <2>4, <2>5
<1> QED  BY <1>6, <1>7

\* Only the segment itself maps its pages.
LEMMA MappedAlone ==
  ASSUME NEW N, NEW parts \in Seq(Segment(N)), NEW bytes, NEW added \in Nat,
         SegmentsApart(parts), SegmentsHeld(parts, bytes, added), LinkeditLast(parts),
         NEW j \in 1 .. Len(parts), parts[j].name # Linkedit,
         NEW va \in parts[j].va .. RoundedEnd(parts[j]) - 1
  PROVE  MappedBy(parts, va) = IF va - parts[j].va < parts[j].fsize THEN {j} ELSE {}
<1>1. DOMAIN parts = 1 .. Len(parts) /\ \A i \in 1 .. Len(parts) : parts[i] \in Segment(N)  BY PartsAre
<1>2. parts[j].va \in Nat /\ RoundedEnd(parts[j]) \in Nat  BY <1>1, SegmentIs
<1>3. va \in Int /\ parts[j].va <= va /\ va < RoundedEnd(parts[j])
  <2> DEFINE a == parts[j].va
             b == RoundedEnd(parts[j])
  <2>1. a \in Nat /\ b \in Nat /\ va \in a .. b - 1  BY <1>2
  <2> HIDE DEF a, b
  <2>2. va \in Int /\ a <= va /\ va < b  BY <2>1
  <2> QED  BY <2>2 DEF a, b
<1>4. ASSUME NEW i \in 1 .. Len(parts), i # j, i \in MappedBy(parts, va)  PROVE FALSE
  <2> DEFINE v == parts[i].va
             m == parts[i].vsize
             z == parts[i].fsize
             e == RoundedEnd(parts[i])
             w == parts[j].va
             d == RoundedEnd(parts[j])
  <2>1. /\ v \in Nat /\ m \in Nat /\ z \in Nat /\ e \in Nat /\ v + m <= e  BY <1>1, SegmentIs
  <2>2. v <= va /\ va - v < z  BY <1>4 DEF MappedBy
  <2>3. e <= w \/ d <= v  BY <1>1, <1>4 DEF SegmentsApart
  <2>4. CASE parts[i].name = Linkedit
    <3>1. i \in Linkedits(parts)  BY <1>1, <2>4 DEF Linkedits
    <3>2. d <= v  BY <1>1, <1>4, <3>1 DEF LinkeditLast
    <3> HIDE DEF v, m, z, e, w, d
    <3> QED  BY <1>2, <1>3, <2>1, <2>2, <3>2 DEF w, d
  <2>5. CASE parts[i].name # Linkedit
    <3>1. z <= m + 0  BY <1>1, <2>5 DEF SegmentsHeld
    <3>2. w \in Nat /\ d \in Nat /\ w <= va /\ va < d  BY <1>2, <1>3
    <3> HIDE DEF v, m, z, e, w, d
    <3> QED  BY <1>3, <2>1, <2>2, <2>3, <3>1, <3>2
  <2> QED  BY <2>4, <2>5
<1>5. j \in MappedBy(parts, va) <=> va - parts[j].va < parts[j].fsize  BY <1>1, <1>3 DEF MappedBy
<1>6. MappedBy(parts, va) \subseteq {j}  BY <1>1, <1>4 DEF MappedBy
<1> QED  BY <1>5, <1>6

\* A segment whose pages are its own, with something behind it in the file.
Alone(h, j) ==
  /\ j \in DOMAIN h.segments /\ h.segments[j].va \in Nat /\ h.segments[j].off \in Nat /\ h.segments[j].fsize \in Nat
  /\ RoundedEnd(h.segments[j]) \in Nat /\ Len(h.data) \in Nat /\ h.segments[j].off + h.segments[j].fsize < Len(h.data)
  /\ \A va \in h.segments[j].va .. RoundedEnd(h.segments[j]) - 1 :
       MappedBy(h.segments, va) = IF va - h.segments[j].va < h.segments[j].fsize THEN {j} ELSE {}

\* Every address of it that is in the file may have a pointer.
LEMMA OnePointer ==
  ASSUME NEW h, NEW j, Alone(h, j), NEW va \in h.segments[j].va .. RoundedEnd(h.segments[j]) - 1
  PROVE  /\ HasPointer(h, va) <=> va - h.segments[j].va < h.segments[j].fsize
         /\ HasPointer(h, va) => FileOffset(h.segments, va) = h.segments[j].off + (va - h.segments[j].va)
<1> DEFINE s == h.segments[j]
<1>1. /\ s.va \in Nat /\ s.off \in Nat /\ s.fsize \in Nat /\ RoundedEnd(s) \in Nat /\ Len(h.data) \in Nat
      /\ s.off + s.fsize < Len(h.data)
      /\ MappedBy(h.segments, va) = IF va - s.va < s.fsize THEN {j} ELSE {}
  BY DEF Alone
<1>2. CASE ~(va - s.va < s.fsize)
  <2>1. MappedBy(h.segments, va) = {}  BY <1>1, <1>2
  <2> QED  BY <1>2, <2>1 DEF HasPointer
<1>3. CASE va - s.va < s.fsize
  <2>1. MappedBy(h.segments, va) = {j}  BY <1>1, <1>3
  <2>2. FileOffset(h.segments, va) = h.segments[j].off + (va - h.segments[j].va)
    <3>1. (CHOOSE i \in MappedBy(h.segments, va) : \A n \in MappedBy(h.segments, va) : i <= n) = j
      <4>2. \E i \in {j} : \A n \in {j} : i <= n  OBVIOUS
      <4> QED  BY <2>1, <4>2
    <3> QED  BY <3>1 DEF FileOffset
  <2> DEFINE o == s.off
             z == s.fsize
             v == s.va
             c == Len(h.data)
  <2>3. o \in Nat /\ z \in Nat /\ v \in Nat /\ c \in Nat /\ o + z < c /\ va \in Int /\ va - v < z  BY <1>1, <1>3
  <2> HIDE DEF o, z, v, c
  <2>4. (o + (va - v)) + 2 <= c  BY <2>3
  <2> QED  BY <1>3, <2>1, <2>2, <2>4 DEF HasPointer, o, v, c
<1> QED  BY <1>2, <1>3

\* A segment of the file, with what it holds, and the same one later.
SameSegment(f, g, j, i) ==
  /\ Alone(f, j) /\ Alone(g, i) /\ g.segments[i] = f.segments[j]
  /\ \A n \in f.segments[j].off + 1 .. f.segments[j].off + f.segments[j].fsize :
       g.data[n] = f.data[n] /\ WordHeld(f.data[n])

\* A pointer in it is found again.
LEMMA PointerFollows ==
  ASSUME NEW f, NEW g, NEW j, NEW i, SameSegment(f, g, j, i),
         NEW va \in f.segments[j].va .. RoundedEnd(f.segments[j]) - 1
  PROVE  /\ HasPointer(g, va) <=> HasPointer(f, va)
         /\ HasPointer(f, va) => /\ PointerAt(g, va) = PointerAt(f, va) /\ PointerAt(f, va).to \in Nat
                                 /\ f.segments[j].fsize # 0
<1> DEFINE s == f.segments[j]
           at == s.off + (va - s.va)
<1>1. Alone(f, j) /\ Alone(g, i) /\ g.segments[i] = s
      /\ \A n \in s.off + 1 .. s.off + s.fsize : g.data[n] = f.data[n] /\ WordHeld(f.data[n])
  BY DEF SameSegment
<1>2. va \in g.segments[i].va .. RoundedEnd(g.segments[i]) - 1  BY <1>1
<1>3. HasPointer(f, va) <=> va - s.va < s.fsize  BY <1>1, OnePointer
<1>4. HasPointer(g, va) <=> va - s.va < s.fsize  BY <1>1, <1>2, OnePointer
<1>5. HasPointer(f, va) => FileOffset(f.segments, va) = at  BY <1>1, OnePointer
<1>6. HasPointer(g, va) => FileOffset(g.segments, va) = at  BY <1>1, <1>2, OnePointer
<1>7. ASSUME HasPointer(f, va)
      PROVE  PointerAt(g, va) = PointerAt(f, va) /\ PointerAt(f, va).to \in Nat /\ s.fsize # 0
  <2>1. at + 1 \in s.off + 1 .. s.off + s.fsize /\ s.fsize # 0
    <3> DEFINE o == s.off
               z == s.fsize
               v == s.va
               e == RoundedEnd(s)
    <3>1. o \in Nat /\ z \in Nat /\ v \in Nat /\ e \in Nat /\ va \in v .. e - 1 /\ va - v < z
      BY <1>1, <1>3, <1>7 DEF Alone
    <3> HIDE DEF o, z, v, e
    <3>2. o + (va - v) + 1 \in o + 1 .. o + z /\ z # 0  BY <3>1
    <3> QED  BY <3>2 DEF o, z, v
  <2> DEFINE w == f.data[at + 1]
  <2>2. g.data[at + 1] = w /\ WordHeld(w)  BY <1>1, <2>1
  <2>3. PointerAt(f, va) = IF w[1] = "pointer" THEN w[2] ELSE [bind |-> FALSE, to |-> 0, next |-> 0]
    BY <1>5, <1>7 DEF PointerAt
  <2>4. PointerAt(g, va) = IF w[1] = "pointer" THEN w[2] ELSE [bind |-> FALSE, to |-> 0, next |-> 0]
    BY <1>3, <1>4, <1>6, <1>7, <2>2 DEF PointerAt
  <2>5. PointerAt(f, va).to \in Nat
    <3>1. w[1] = "pointer" => w[2] \in [bind : BOOLEAN, to : Nat, next : Nat]  BY <2>2 DEF WordHeld
    <3> HIDE DEF w
    <3> QED  BY <2>3, <3>1
  <2> QED  BY <2>1, <2>3, <2>4, <2>5
<1> QED  BY <1>3, <1>4, <1>7

\* What segments map at the lowest address, if it is below all that differ.
LEMMA LowestFollows ==
  ASSUME NEW parts, NEW later, NEW ceil \in Nat, NEW j \in DOMAIN parts,
         \A i \in DOMAIN parts : parts[i].va \in Nat,
         \A i \in DOMAIN later : later[i].va \in Nat,
         \A i \in DOMAIN parts : parts[i].va < ceil => \E n \in DOMAIN later : later[n] = parts[i],
         \A n \in DOMAIN later : ceil <= later[n].va \/ \E i \in DOMAIN parts : later[n] = parts[i],
         parts[j].fsize # 0, parts[j].va < ceil
  PROVE  LowestVa(later) = LowestVa(parts)
<1> DEFINE V == {parts[n].va : n \in {i \in DOMAIN parts : parts[i].fsize # 0}}
           W == {later[n].va : n \in {i \in DOMAIN later : later[i].fsize # 0}}
<1>1. V \subseteq Nat /\ parts[j].va \in V  OBVIOUS
<1>2. W \subseteq Nat  OBVIOUS
<1>3. \A v \in V : v < ceil => v \in W  OBVIOUS
<1>4. \A w \in W : ceil <= w \/ w \in V
  <2> SUFFICES ASSUME NEW n \in DOMAIN later, later[n].fsize # 0, ~(ceil <= later[n].va)
               PROVE  later[n].va \in V
    OBVIOUS
  <2> QED  OBVIOUS
<1>5. \E a \in V : \A b \in V : a <= b
  <2>1. V # {}  BY <1>1
  <2> HIDE DEF V
  <2> QED  BY <1>1, <2>1, Least
<1>6. PICK a \in V : \A b \in V : a <= b  BY <1>5
<1>7. LowestVa(parts) = CHOOSE a1 \in V : \A b \in V : a1 <= b  BY <1>1 DEF LowestVa
<1>8. a \in W /\ \A w \in W : a <= w
  <2> HIDE DEF V, W
  <2>1. a \in Nat /\ a <= parts[j].va /\ a < ceil
    <3> DEFINE p == parts[j].va
    <3>1. a \in Nat /\ p \in Nat /\ a <= p /\ p < ceil  BY <1>1, <1>6
    <3> HIDE DEF p
    <3>2. a < ceil  BY <3>1
    <3> QED  BY <3>1, <3>2 DEF p
  <2>2. a \in W  BY <1>3, <2>1
  <2>3. ASSUME NEW w \in W  PROVE a <= w
    <3>1. CASE ceil <= w
      <4>1. w \in Nat  BY <1>2
      <4> QED  BY <2>1, <3>1, <4>1
    <3>2. CASE w \in V  BY <1>6, <3>2
    <3> QED  BY <1>4, <3>1, <3>2
  <2> QED  BY <2>2, <2>3
<1>9. LowestVa(later) = CHOOSE a1 \in W : \A b \in W : a1 <= b  BY <1>8 DEF LowestVa
<1>10. (CHOOSE a1 \in V : \A b \in V : a1 <= b) = a
  <2> HIDE DEF V, W
  <2>1. \A c \in V : (\A b \in V : c <= b) => c = a
    <3> SUFFICES ASSUME NEW c \in V, \A b \in V : c <= b PROVE c = a  OBVIOUS
    <3>1. c \in Nat /\ a \in Nat /\ a <= c /\ c <= a  BY <1>1, <1>6
    <3> QED  BY <3>1
  <2> QED  BY <1>6, <2>1
<1>11. (CHOOSE a1 \in W : \A b \in W : a1 <= b) = a
  <2> HIDE DEF V, W
  <2>1. \A c \in W : (\A b \in W : c <= b) => c = a
    <3> SUFFICES ASSUME NEW c \in W, \A b \in W : c <= b PROVE c = a  OBVIOUS
    <3>1. c \in Nat /\ a \in Nat /\ a <= c /\ c <= a  BY <1>2, <1>8
    <3> QED  BY <3>1
  <2> QED  BY <1>8, <2>1
<1> HIDE DEF V, W
<1> QED  BY <1>7, <1>9, <1>10, <1>11

\* The pages of the segment are in it.
Paged(info, s) ==
  /\ s.va \in Nat /\ info.page \in Nat /\ info.pages \in Seq(ToSet(info.pages))
  /\ \A page \in DOMAIN info.pages : s.va + page * info.page <= RoundedEnd(s)

\* A page of chains is inside of its segment.
LEMMA PageInside ==
  ASSUME NEW info, NEW s, Paged(info, s), RoundedEnd(s) \in Nat, NEW page \in DOMAIN info.pages,
         NEW at \in 0 .. info.page, at # info.page
  PROVE  s.va + (page - 1) * info.page + at \in s.va .. RoundedEnd(s) - 1
<1> DEFINE v == s.va
           z == info.page
           e == RoundedEnd(s)
           b == (page - 1) * z
<1>1. v \in Nat /\ z \in Nat /\ e \in Nat /\ at \in 0 .. z /\ at # z /\ v + page * z <= e  BY DEF Paged
<1>2. page \in Nat /\ 1 <= page
  <2>1. info.pages \in Seq(ToSet(info.pages))  BY DEF Paged
  <2>2. DOMAIN info.pages = 1 .. Len(info.pages) /\ Len(info.pages) \in Nat  BY <2>1
  <2> QED  BY <2>2
<1> HIDE DEF v, z, e, b
<1>3. b \in Nat /\ page * z = b + z
  <2>1. page - 1 \in Nat  BY <1>2
  <2>2. \A n \in Nat : n * z \in Nat /\ (n + 1) * z = n * z + z  BY <1>1
  <2>3. (page - 1) + 1 = page  BY <1>2
  <2> QED  BY <2>1, <2>2, <2>3 DEF b
<1>4. v + b + at \in v .. e - 1  BY <1>1, <1>3
<1> QED  BY <1>4 DEF v, z, e, b

\* A fixup is the same, by the import it is bound to and by the lowest address,
LEMMA FixupFollows ==
  ASSUME NEW f, NEW g, NEW k, NEW first, SameBlob(f, g, k, first), NEW info, NEW va,
         LowestVa(g.segments) = LowestVa(f.segments),
         PointerAt(g, va) = PointerAt(f, va), PointerAt(f, va).to \in Nat
  PROVE  Fixup(g, info, va) = Fixup(f, info, va)
<1>1. ImportName(g, PointerAt(f, va).to) = ImportName(f, PointerAt(f, va).to)  BY ImportFollows
<1> QED  BY <1>1 DEF Fixup

\* and so is a chain of them,
LEMMA ChainFollows ==
  ASSUME NEW f, NEW g, NEW k, NEW first, SameBlob(f, g, k, first), NEW j, NEW i, SameSegment(f, g, j, i),
         f.segments[j].fsize # 0 => LowestVa(g.segments) = LowestVa(f.segments),
         NEW info, Paged(info, f.segments[j]), NEW page \in DOMAIN info.pages, NEW from
  PROVE  Chain(g, info, g.segments[i], page, from) = Chain(f, info, f.segments[j], page, from)
<1> DEFINE s == f.segments[j]
           D == 0 .. info.page
           va(at) == s.va + (page - 1) * info.page + at
           InF(w, at) == IF at = info.page \/ ~HasPointer(f, va(at)) THEN {}
                         ELSE LET next == PointerAt(f, va(at)).next
                              IN  {Fixup(f, info, va(at))}
                                  \cup (IF next = 0 \/ at + next >= info.page THEN {} ELSE w[at + next])
           InG(w, at) == IF at = info.page \/ ~HasPointer(g, va(at)) THEN {}
                         ELSE LET next == PointerAt(g, va(at)).next
                              IN  {Fixup(g, info, va(at))}
                                  \cup (IF next = 0 \/ at + next >= info.page THEN {} ELSE w[at + next])
<1>1. \A w : \A at \in D : InF(w, at) = InG(w, at)
  <2> TAKE w
  <2> TAKE at \in D
  <2>1. CASE at = info.page  BY <2>1
  <2>2. CASE at # info.page
    <3>1. RoundedEnd(s) \in Nat  BY DEF SameSegment, Alone
    <3>2. va(at) \in s.va .. RoundedEnd(s) - 1  BY <2>2, <3>1, PageInside
    <3> DEFINE a == va(at)
    <3> HIDE DEF va
    <3>3. HasPointer(g, a) <=> HasPointer(f, a)  BY <3>2, PointerFollows
    <3>4. HasPointer(f, a) => PointerAt(g, a) = PointerAt(f, a) /\ PointerAt(f, a).to \in Nat /\ s.fsize # 0
      BY <3>2, PointerFollows
    <3>5. HasPointer(f, a) => Fixup(g, info, a) = Fixup(f, info, a)  BY <3>4, FixupFollows
    <3> QED  BY <2>2, <3>3, <3>4, <3>5
  <2> QED  BY <2>1, <2>2
<1>2. g.segments[i] = s  BY DEF SameSegment
<1> HIDE DEF InF, InG
<1>3. \A w : w = [at \in D |-> InF(w, at)] <=> w = [at \in D |-> InG(w, at)]  BY <1>1
<1>4. (CHOOSE w : w = [at \in D |-> InF(w, at)]) = (CHOOSE w : w = [at \in D |-> InG(w, at)])  BY <1>3
<1>5. Chain(f, info, s, page, from)
        = IF from >= info.page THEN {} ELSE (CHOOSE w : w = [at \in D |-> InF(w, at)])[from]
  BY Zenon DEF Chain, InF
<1>6. Chain(g, info, s, page, from)
        = IF from >= info.page THEN {} ELSE (CHOOSE w : w = [at \in D |-> InG(w, at)])[from]
  BY Zenon DEF Chain, InG
<1> QED  BY <1>2, <1>4, <1>5, <1>6

\* and all that a segment has, which are none if its entry is 0.
LEMMA NoneOfSegment ==
  ASSUME NEW f, NEW j, f.starts[j] = 0
  PROVE  OfSegment(f, j) = {}
BY DEF OfSegment

EntryOf(f, j) == f.base + f.starts[j]
InfoOf(f, j) == Word(f, EntryOf(f, j))[2]
HasInfo(f, j) == InBlob(f, EntryOf(f, j)) /\ j \in DOMAIN f.segments /\ Word(f, EntryOf(f, j))[1] = "info"

\* The fixups of a segment follow it.
LEMMA OfSegmentFollows ==
  ASSUME NEW f, NEW g, NEW k, NEW first, SameBlob(f, g, k, first), NEW j, NEW i,
         f.base \in Nat, g.base = f.base,
         f.starts[j] \in Nat \ {0}, first <= f.starts[j], g.starts[i] = f.starts[j] + k,
         i \in DOMAIN g.segments <=> j \in DOMAIN f.segments,
         HasInfo(f, j) => SameSegment(f, g, j, i) /\ Paged(InfoOf(f, j), f.segments[j]),
         HasInfo(f, j) /\ f.segments[j].fsize # 0 => LowestVa(g.segments) = LowestVa(f.segments)
  PROVE  OfSegment(g, i) = OfSegment(f, j)
<1> DEFINE n == EntryOf(f, j)
           info == Word(f, n)[2]
<1>1. n \in Nat /\ first <= n /\ k \in Nat /\ EntryOf(g, i) = n + k /\ f.starts[j] # 0 /\ g.starts[i] # 0
  <2> DEFINE b == f.base
             e == f.starts[j]
  <2>1. b \in Nat /\ e \in Nat \ {0} /\ first \in Nat /\ first <= e /\ k \in Nat  BY DEF SameBlob
  <2>2. g.starts[i] = e + k /\ n = b + e /\ EntryOf(g, i) = b + (e + k)  BY DEF EntryOf
  <2> HIDE DEF b, e, n
  <2>3. b + e \in Nat /\ first <= b + e /\ b + (e + k) = (b + e) + k /\ e # 0 /\ e + k # 0  BY <2>1
  <2> QED  BY <2>1, <2>2, <2>3 DEF e
<1>2. InBlob(g, n + k) <=> InBlob(f, n)  BY <1>1, WordFollows
<1>3. InBlob(f, n) => Word(g, n + k) = Word(f, n)  BY <1>1, WordFollows
<1> HIDE DEF n
<1>5. OfSegment(f, j) = IF ~InBlob(f, n) \/ j \notin DOMAIN f.segments \/ Word(f, n)[1] # "info" THEN {}
                        ELSE UNION {UNION {Chain(f, info, f.segments[j], page, from) : from \in Chains(info, page)} :
                                    page \in DOMAIN info.pages}
  BY <1>1 DEF OfSegment, EntryOf, n
<1>6. OfSegment(g, i) = IF ~InBlob(g, n + k) \/ i \notin DOMAIN g.segments \/ Word(g, n + k)[1] # "info" THEN {}
                        ELSE LET there == Word(g, n + k)[2]
                             IN  UNION {UNION {Chain(g, there, g.segments[i], page, from) : from \in Chains(there, page)} :
                                        page \in DOMAIN there.pages}
  <2>1. g.base + g.starts[i] = n + k  BY <1>1 DEF EntryOf
  <2> QED  BY <1>1, <2>1 DEF OfSegment
<1>7. CASE ~HasInfo(f, j)
  <2>1. ~InBlob(f, n) \/ j \notin DOMAIN f.segments \/ Word(f, n)[1] # "info"  BY <1>7 DEF HasInfo, n
  <2> QED  BY <1>2, <1>3, <1>5, <1>6, <2>1
<1>8. CASE HasInfo(f, j)
  <2>1. InBlob(f, n) /\ j \in DOMAIN f.segments /\ Word(f, n)[1] = "info"  BY <1>8 DEF HasInfo, n
  <2>2. SameSegment(f, g, j, i) /\ Paged(info, f.segments[j])
        /\ (f.segments[j].fsize # 0 => LowestVa(g.segments) = LowestVa(f.segments))
    BY <1>8 DEF InfoOf, n
  <2> HIDE DEF info
  <2>3. \A page \in DOMAIN info.pages : \A from :
          Chain(g, info, g.segments[i], page, from) = Chain(f, info, f.segments[j], page, from)
    <3> TAKE page \in DOMAIN info.pages
    <3> TAKE from
    <3>1. SameBlob(f, g, k, first)  OBVIOUS
    <3> QED  BY ONLY <2>2, <3>1, ChainFollows, page \in DOMAIN info.pages
  <2>4. OfSegment(f, j) = UNION {UNION {Chain(f, info, f.segments[j], page, from) : from \in Chains(info, page)} :
                                 page \in DOMAIN info.pages}
    BY <1>5, <2>1
  <2>5. OfSegment(g, i) = UNION {UNION {Chain(g, info, g.segments[i], page, from) : from \in Chains(info, page)} :
                                 page \in DOMAIN info.pages}
    BY <1>2, <1>3, <1>6, <2>1 DEF info
  <2>6. \A page \in DOMAIN info.pages :
          UNION {Chain(g, info, g.segments[i], page, from) : from \in Chains(info, page)}
            = UNION {Chain(f, info, f.segments[j], page, from) : from \in Chains(info, page)}
    BY <2>3
  <2> QED  BY <2>4, <2>5, <2>6
<1> QED  BY <1>7, <1>8

\* Nothing keeps a file from being parsed.
Whole(f) ==
  /\ f.blob.off \in Nat /\ f.blob.size \in Nat /\ Len(f.data) \in Nat /\ f.blob.off + f.blob.size <= Len(f.data)
  /\ f.first \in Nat /\ Len(f.starts) \in Nat /\ f.first + 1 + Len(f.starts) < f.blob.size

\* A blob that is whole has room for its entries,
LEMMA EntriesFit ==
  ASSUME NEW a \in Nat, NEW m \in Nat, NEW z \in Nat, a + 1 + m < z
  PROVE  a < z /\ ~(a + 1 + m > z)
OBVIOUS

\* is in the file,
LEMMA NoMore ==
  ASSUME NEW o \in Nat, NEW z \in Nat, NEW c \in Nat, o + z <= c
  PROVE  ~(o + z > c)
OBVIOUS

\* and is parsed.
LEMMA WholeIs ==
  ASSUME NEW f, Whole(f)
  PROVE  /\ InBlob(f, f.first)
         /\ ReadFixups(f) = IF ~InBlob(f, f.imports) \/ ~InBlob(f, f.symbols) THEN {}
                              ELSE UNION {OfSegment(f, j) : j \in DOMAIN f.starts}
<1>1. f.first < f.blob.size /\ ~(f.first + 1 + Len(f.starts) > f.blob.size)  BY EntriesFit DEF Whole
<1>2. ~(f.blob.off + f.blob.size > Len(f.data))  BY NoMore DEF Whole
<1>3. InBlob(f, f.first)  BY <1>1 DEF InBlob
<1>4. (\E off \in {f.first, f.imports, f.symbols} : ~InBlob(f, off)) <=> ~InBlob(f, f.imports) \/ ~InBlob(f, f.symbols)
  BY <1>3
<1> QED  BY <1>1, <1>2, <1>3, <1>4 DEF ReadFixups

\* The parses are the same, if what the entries lead to is.
LEMMA ParseFollows ==
  ASSUME NEW f, NEW g, NEW k, NEW first, SameBlob(f, g, k, first), NEW to, Whole(f), Whole(g),
         \A j \in DOMAIN f.starts : to[j] \in DOMAIN g.starts /\ OfSegment(g, to[j]) = OfSegment(f, j),
         \A n \in DOMAIN g.starts : g.starts[n] = 0 \/ \E j \in DOMAIN f.starts : n = to[j]
  PROVE  ReadFixups(g) = ReadFixups(f)
<1>1. f.imports \in Nat /\ f.symbols \in Nat /\ first <= f.imports /\ first <= f.symbols
      /\ g.imports = f.imports + k /\ g.symbols = f.symbols + k
  BY DEF SameBlob
<1>2. InBlob(g, f.imports + k) <=> InBlob(f, f.imports)  BY <1>1, WordFollows
<1>3. InBlob(g, f.symbols + k) <=> InBlob(f, f.symbols)  BY <1>1, WordFollows
<1>4. UNION {OfSegment(g, i) : i \in DOMAIN g.starts} = UNION {OfSegment(f, j) : j \in DOMAIN f.starts}
  <2>1. ASSUME NEW x, NEW i \in DOMAIN g.starts, x \in OfSegment(g, i)
        PROVE  \E j \in DOMAIN f.starts : x \in OfSegment(f, j)
    <3>1. g.starts[i] # 0
      <4> SUFFICES ASSUME g.starts[i] = 0 PROVE FALSE  OBVIOUS
      <4>1. OfSegment(g, i) = {}  BY NoneOfSegment
      <4> QED  BY <2>1, <4>1
    <3> QED  BY <2>1, <3>1
  <2>2. ASSUME NEW x, NEW j \in DOMAIN f.starts, x \in OfSegment(f, j)
        PROVE  \E i \in DOMAIN g.starts : x \in OfSegment(g, i)
    BY <2>2
  <2>3. \A x : x \in UNION {OfSegment(g, i) : i \in DOMAIN g.starts} <=> \E i \in DOMAIN g.starts : x \in OfSegment(g, i)
    OBVIOUS
  <2>4. \A x : x \in UNION {OfSegment(f, j) : j \in DOMAIN f.starts} <=> \E j \in DOMAIN f.starts : x \in OfSegment(f, j)
    OBVIOUS
  <2> QED  BY <2>1, <2>2, <2>3, <2>4
<1>5. ReadFixups(f) = IF ~InBlob(f, f.imports) \/ ~InBlob(f, f.symbols) THEN {}
                        ELSE UNION {OfSegment(f, j) : j \in DOMAIN f.starts}
  BY WholeIs
<1>6. ReadFixups(g) = IF ~InBlob(g, g.imports) \/ ~InBlob(g, g.symbols) THEN {}
                        ELSE UNION {OfSegment(g, i) : i \in DOMAIN g.starts}
  BY WholeIs
<1> QED  BY <1>1, <1>2, <1>3, <1>4, <1>5, <1>6

-----------------------------------------------------------------------------
(* The file as it was read, and as it has become.                           *)

\* A file that is sound can be parsed,
LEMMA WholeFrom ==
  ASSUME NEW N, NEW parts \in Seq(Segment(N)), NEW bytes, NEW at, NEW entries, NEW where, NEW added \in Nat,
         Sound(parts, bytes, at, entries, where, added), "fixups" \in DOMAIN at,
         NEW f, f.data = bytes, f.blob = at["fixups"], Len(f.starts) = Len(entries), f.first = where.starts
  PROVE  Whole(f)
<1>1. PICK l \in Linkedits(parts) : TRUE
  <2>1. Linkedits(parts) # {}  BY NoTables
  <2> QED  BY <2>1
<1>2. Placed(parts, bytes, at, l, "fixups")  BY TablesAre
<1>3. /\ f.blob.off \in Nat /\ f.blob.size \in Nat /\ Len(f.data) \in Nat
      /\ f.blob.off + f.blob.size <= Len(f.data)
  BY <1>2 DEF Placed
<1>4. where \in [starts: Nat, imports: Nat, symbols: Nat] /\ where.starts + 1 + Len(entries) < at["fixups"].size
  BY DEF Sound, StartsHeld
<1>5. where.starts \in Nat  BY <1>4
<1>6. Len(entries) \in Nat
  <2>1. entries \in Seq(Nat)  BY DEF Sound
  <2> QED  BY <2>1
<1> QED  BY <1>3, <1>4, <1>5, <1>6 DEF Whole

\* and only its own segment maps what has fixups.
LEMMA AloneFrom ==
  ASSUME NEW N, NEW parts \in Seq(Segment(N)), NEW bytes, NEW at, NEW entries, NEW where, NEW added \in Nat,
         Sound(parts, bytes, at, entries, where, added), NEW t \in DOMAIN at,
         NEW j \in 1 .. Len(parts), parts[j].name # Linkedit, NEW f, f.data = bytes, f.segments = parts
  PROVE  Alone(f, j)
<1>1. PICK l \in Linkedits(parts) : TRUE
  <2>1. Linkedits(parts) # {}  BY NoTables
  <2> QED  BY <2>1
<1>2. Placed(parts, bytes, at, l, t)  BY TablesAre
<1>3. SegmentsApart(parts) /\ SegmentsHeld(parts, bytes, added) /\ LinkeditLast(parts)  BY DEF Sound
<1>4. /\ DOMAIN parts = 1 .. Len(parts) /\ parts[j] \in Segment(N) /\ l \in 1 .. Len(parts) /\ parts[l] \in Segment(N)
      /\ j # l /\ parts[j].off + parts[j].fsize <= parts[l].off
  <2>1. l \in 1 .. Len(parts) /\ parts[l] \in Segment(N) /\ parts[l].name = Linkedit
        /\ \A i \in 1 .. Len(parts) : i # l => parts[i] \in Segment(N) /\ parts[i].off + parts[i].fsize <= parts[l].off
    BY <1>3, LastIs
  <2>2. j # l  BY <2>1
  <2> QED  BY <2>1, <2>2, PartsAre
<1>5. parts[j].va \in Nat /\ parts[j].off \in Nat /\ parts[j].fsize \in Nat /\ RoundedEnd(parts[j]) \in Nat
  BY <1>4, SegmentIs
<1>6. parts[j].off + parts[j].fsize < Len(bytes) /\ Len(bytes) \in Nat
  <2> DEFINE e == parts[j].off + parts[j].fsize
             o == parts[l].off
             b == at[t].off
             z == at[t].size
             c == Len(bytes)
  <2>1. e \in Nat /\ o \in Nat /\ e <= o
    <3>1. parts[l].off \in Nat  BY <1>4, SegmentIs
    <3> QED  BY <1>4, <1>5, <3>1
  <2>2. b \in Nat /\ z \in Nat \ {0} /\ c \in Nat /\ o <= b /\ b + z <= c  BY <1>2 DEF Placed
  <2> HIDE DEF e, o, b, z, c
  <2>3. e < c  BY <2>1, <2>2
  <2> QED  BY <2>2, <2>3 DEF e, c
<1>7. \A va \in parts[j].va .. RoundedEnd(parts[j]) - 1 :
        MappedBy(parts, va) = IF va - parts[j].va < parts[j].fsize THEN {j} ELSE {}
  BY <1>3, MappedAlone
<1> QED  BY <1>4, <1>5, <1>6, <1>7 DEF Alone

\* The entries that are led, by a reader that counts them from a base.
Bases == {0, input.fixups.starts}
Was(base) ==
  [base |-> base, data |-> input.data, segments |-> input.segments, blob |-> input.tables["fixups"],
   starts |-> Led(input.starts, EntryPoint),
   first |-> input.fixups.starts, imports |-> input.fixups.imports, symbols |-> input.fixups.symbols]
Is(base) ==
  [base |-> base, data |-> data, segments |-> segments, blob |-> tables["fixups"],
   starts |-> Led(starts, EntryPoint + (Len(starts) - Len(input.starts))),
   first |-> fixups.starts, imports |-> fixups.imports, symbols |-> fixups.symbols]

\* They are as many as there are entries.
LEMMA LedIs ==
  ASSUME NEW a \in Seq(Nat), NEW from
  PROVE  /\ Len(Led(a, from)) = Len(a) /\ DOMAIN Led(a, from) = DOMAIN a /\ DOMAIN a = 1 .. Len(a)
         /\ \A j \in DOMAIN a : Led(a, from)[j] = IF from <= a[j] THEN a[j] ELSE 0
BY DEF Led

\* What is assumed of the file.
LEMMA InputFixups ==
  ASSUME input \in Inputs, "fixups" \in DOMAIN input.tables
  PROVE  /\ input.fixups.starts \in Nat /\ input.tables["fixups"].size \in Nat
         /\ input.fixups.imports \in Nat /\ input.fixups.symbols \in Nat
         /\ input.fixups.starts + 1 + Len(input.starts) <= input.fixups.imports
         /\ input.fixups.starts + 1 + Len(input.starts) <= input.fixups.symbols
         /\ input.starts \in Seq(Nat) /\ Len(input.starts) \in Nat /\ DOMAIN input.starts = 1 .. Len(input.starts)
         /\ \A j \in 1 .. Len(input.starts) : input.starts[j] \in Nat
         /\ \A n \in 1 .. Len(input.data) : WordHeld(input.data[n])
<1>1. Linked(input) /\ Len(input.starts) \in Nat  BY InputIs
<1>2. Sound(input.segments, input.data, input.tables, input.starts, input.fixups, 0) /\ FixupsHeld(input)
  BY <1>1 DEF Linked
<1>3. /\ input.starts \in Seq(Nat) /\ DOMAIN input.starts = 1 .. Len(input.starts)
      /\ \A j \in 1 .. Len(input.starts) : input.starts[j] \in Nat
  <2>1. input.starts \in Seq(Nat)  BY <1>2 DEF Sound
  <2> QED  BY <2>1
<1>4. /\ input.fixups.starts \in Nat /\ input.fixups.imports \in Nat /\ input.fixups.symbols \in Nat
      /\ input.tables["fixups"].size \in Nat
  <2>1. input.fixups \in [starts: Nat, imports: Nat, symbols: Nat]  BY <1>2 DEF Sound, StartsHeld
  <2>2. input.tables["fixups"] \in [off: Nat, size: Nat \ {0}]  BY <1>2 DEF Sound
  <2> QED  BY <2>1, <2>2
<1>5. \A off \in {input.fixups.imports, input.fixups.symbols} : input.fixups.starts + 1 + Len(input.starts) <= off
  BY <1>2 DEF FixupsHeld
<1>6. \A n \in 1 .. Len(input.data) : WordHeld(input.data[n])
  <2>1. DOMAIN input.data = 1 .. Len(input.data)
    <3>1. input.data \in Seq(ToSet(input.data))  BY <1>2 DEF Sound
    <3> QED  BY <3>1
  <2> QED  BY <1>2, <2>1 DEF FixupsHeld
<1> QED  BY <1>1, <1>3, <1>4, <1>5, <1>6

\* The entries of the caves are inserted behind the number of entries, and not
\* behind the last one.
LEMMA PointIs ==
  ASSUME input \in Inputs, "fixups" \in DOMAIN input.tables, place \in Nat \ {0}
  PROVE  /\ EntryPoint \in Nat \ {0}
         /\ EntryPoint <= input.fixups.starts + 1 + Len(input.starts)
         /\ EntryPoint <= input.fixups.imports /\ EntryPoint <= input.fixups.symbols
<1> DEFINE w == input.fixups.starts
           n == Len(input.starts)
           i == input.fixups.imports
           y == input.fixups.symbols
<1>1. w \in Nat /\ n \in Nat /\ i \in Nat /\ y \in Nat /\ w + 1 + n <= i /\ w + 1 + n <= y  BY InputFixups
<1>2. EntryPoint = w + 1 + (IF place - 1 < n THEN place - 1 ELSE n)  BY DEF EntryPoint
<1> HIDE DEF w, n, i, y
<1>3. EntryPoint \in Nat \ {0} /\ EntryPoint <= w + 1 + n  BY <1>1, <1>2
<1>4. EntryPoint <= i /\ EntryPoint <= y  BY <1>1, <1>3
<1> QED  BY <1>3, <1>4 DEF w, n, i, y

\* No chain that is led to leaves its segment.
LEMMA InputChains ==
  ASSUME input \in Inputs, "fixups" \in DOMAIN input.tables, NEW base \in Bases, NEW j \in 1 .. Len(input.starts),
         Was(base).starts[j] # 0, HasInfo(Was(base), j)
  PROVE  ChainsHeld(input.segments[j], InfoOf(Was(base), j))
<1>1. Linked(input) /\ input.starts \in Seq(Nat) /\ DOMAIN input.starts = 1 .. Len(input.starts)  BY InputIs, InputFixups
<1>2. FixupsHeld(input)  BY <1>1 DEF Linked
<1> DEFINE n == base + input.starts[j]
           z == input.tables["fixups"].size
<1>3. input.starts[j] # 0 /\ EntryOf(Was(base), j) = n
  <2>1. Was(base).starts = Led(input.starts, EntryPoint) /\ Was(base).base = base  BY DEF Was
  <2>2. Was(base).starts[j] = IF EntryPoint <= input.starts[j] THEN input.starts[j] ELSE 0  BY <1>1, <2>1, LedIs
  <2>3. Was(base).starts[j] = input.starts[j]  BY <2>2
  <2> QED  BY <2>1, <2>3 DEF EntryOf
<1>4. n < z /\ j \in DOMAIN input.segments /\ Word(Was(base), n)[1] = "info" /\ InfoOf(Was(base), j) = Word(Was(base), n)[2]
  <2> HIDE DEF n
  <2>1. Was(base).blob.size = z /\ Was(base).segments = input.segments  BY DEF Was
  <2> QED  BY <1>3, <2>1 DEF HasInfo, InBlob, InfoOf
<1>5. Word(Was(base), n) = input.data[input.tables["fixups"].off + n + 1]  BY DEF Word, Was
<1> QED  BY <1>1, <1>2, <1>3, <1>4, <1>5 DEF FixupsHeld, Bases

\* Where a segment is later.
LEMMA LaterIs ==
  ASSUME NEW m \in Nat, place \in 1 .. m, NEW k \in Nat, NEW j \in Nat \ {0}
  PROVE  /\ Later(j, k) \in Nat \ {0}
         /\ Later(j, k) \in 1 .. m + k <=> j \in 1 .. m
<1>1. place \in Nat  OBVIOUS
<1>2. CASE j < place
  <2>1. Later(j, k) = j  BY <1>2 DEF Later
  <2>2. j \in 1 .. m + k /\ j \in 1 .. m  BY <1>2
  <2> QED  BY <2>1, <2>2
<1>3. CASE ~(j < place)
  <2>1. Later(j, k) = j + k  BY <1>3 DEF Later
  <2>2. j + k \in Nat \ {0} /\ (j + k \in 1 .. m + k <=> j \in 1 .. m)  OBVIOUS
  <2> QED  BY <2>1, <2>2
<1> QED  BY <1>2, <1>3

\* The blob is the same behind the point where the entries are inserted.
LEMMA BlobFollows ==
  ASSUME input \in Inputs, place \in Nat \ {0}, NEW k \in Nat, EntriesAre(k), NEW base
  PROVE  SameBlob(Was(base), Is(base), k, EntryPoint)
<1> DEFINE f == Was(base)
           g == Is(base)
<1>1. /\ EntryPoint \in Nat /\ f.blob.size \in Nat /\ f.imports \in Nat /\ f.symbols \in Nat
      /\ EntryPoint <= f.imports /\ EntryPoint <= f.symbols
      /\ \A n \in 1 .. Len(input.data) : WordHeld(input.data[n])
  <2>1. "fixups" \in DOMAIN input.tables  BY DEF EntriesAre
  <2>2. f.blob = input.tables["fixups"] /\ f.imports = input.fixups.imports /\ f.symbols = input.fixups.symbols
    BY DEF Was
  <2> HIDE DEF f
  <2> QED  BY <2>1, <2>2, InputFixups, PointIs
<1>2. g.blob.size = f.blob.size + k /\ g.imports = f.imports + k /\ g.symbols = f.symbols + k
  BY DEF EntriesAre, Is, Was
<1>3. ASSUME NEW n \in EntryPoint .. f.blob.size - 1
      PROVE  Word(g, n + k) = Word(f, n) /\ (Word(f, n)[1] = "import" => Word(f, n)[2] \in Nat)
  <2>1. Word(g, n + k) = data[tables["fixups"].off + (n + k) + 1]  BY DEF Word, Is
  <2>2. Word(f, n) = input.data[input.tables["fixups"].off + n + 1]  BY DEF Word, Was
  <2>3. Word(g, n + k) = Word(f, n)
    <3> DEFINE z == input.tables["fixups"].size
    <3>1. f.blob.size = z  BY DEF Was
    <3> HIDE DEF f, g, z
    <3>2. n \in EntryPoint .. z - 1 /\ z \in Nat /\ EntryPoint \in Nat  BY <1>1, <1>3, <3>1
    <3>3. n \in Low(k) .. z - 1  BY <3>2 DEF Low
    <3> QED  BY <2>1, <2>2, <3>3 DEF EntriesAre, z
  <2>4. input.tables["fixups"].off + n + 1 \in 1 .. Len(input.data)
    <3> DEFINE o == f.blob.off
               z == f.blob.size
               c == Len(f.data)
    <3>1. Linked(input) /\ input.segments \in Seq(Segment(NamesOf(input.segments)))  BY InputIs
    <3>2. Sound(input.segments, input.data, input.tables, input.starts, input.fixups, 0)  BY <3>1 DEF Linked
    <3>3. Whole(f)
      <4>1. "fixups" \in DOMAIN input.tables  BY DEF EntriesAre
      <4>2. f.data = input.data /\ f.blob = input.tables["fixups"] /\ f.first = input.fixups.starts
            /\ f.starts = Led(input.starts, EntryPoint)
        BY DEF Was
      <4> HIDE DEF f
      <4>3. Len(f.starts) = Len(input.starts)  BY <4>1, <4>2, InputFixups, LedIs
      <4> QED  BY <3>1, <3>2, <4>1, <4>2, <4>3, WholeFrom
    <3>4. o \in Nat /\ z \in Nat /\ c \in Nat /\ o + z <= c  BY <3>3 DEF Whole
    <3>5. EntryPoint \in Nat /\ n \in EntryPoint .. z - 1  BY <1>1
    <3>6. o = input.tables["fixups"].off /\ c = Len(input.data)  BY DEF Was
    <3> HIDE DEF o, z, c
    <3>7. o + n + 1 \in 1 .. c  BY <3>4, <3>5
    <3> QED  BY <3>6, <3>7
  <2> HIDE DEF f, g
  <2>5. WordHeld(Word(f, n))  BY <1>1, <2>2, <2>4
  <2> QED  BY <2>3, <2>5 DEF WordHeld
<1> HIDE DEF f, g
<1>4. SameBlob(f, g, k, EntryPoint)  BY <1>1, <1>2, <1>3 DEF SameBlob
<1> QED  BY <1>4 DEF f, g

\* A segment that has fixups is the same, and so is what it holds,
LEMMA SegmentFollows ==
  ASSUME IInv, "fixups" \in DOMAIN tables, "fixups" \in DOMAIN input.tables, NEW k \in Nat, SegmentsAre(k),
         place \in 1 .. Len(input.segments),
         NEW j \in 1 .. Len(input.segments), input.segments[j].name # Linkedit, NEW base
  PROVE  SameSegment(Was(base), Is(base), j, Later(j, k))
<1>1. input \in Inputs /\ FileInv /\ KeptInv  BY DEF IInv, NamesInv
<1> DEFINE i == Later(j, k)
           s == input.segments[j]
           M == NamesOf(input.segments)
           N == NamesNow
           added == Len(starts) - Len(input.starts)
<1>2. /\ Linked(input) /\ input.segments \in Seq(Segment(M))
      /\ Len(input.segments) \in Nat /\ DOMAIN input.segments = 1 .. Len(input.segments)
  BY <1>1, InputIs, PartsAre
<1>3. /\ segments \in Seq(Segment(N)) /\ added \in Nat /\ DOMAIN segments = 1 .. Len(segments)
      /\ Sound(segments, data, tables, starts, fixups, added)
  BY <1>1, FileIs
<1>4. Sound(input.segments, input.data, input.tables, input.starts, input.fixups, 0)  BY <1>2 DEF Linked
<1>5. segments[i] = s /\ i \in 1 .. Len(segments)
  <2>1. segments[i] = s /\ Len(segments) = Len(input.segments) + k  BY DEF SegmentsAre
  <2>2. j \in Nat \ {0}  OBVIOUS
  <2>3. i \in 1 .. Len(input.segments) + k  BY <1>2, <2>2, LaterIs
  <2> QED  BY <2>1, <2>3
<1> DEFINE f == Was(base)
           g == Is(base)
<1>6. f.data = input.data /\ f.segments = input.segments /\ g.data = data /\ g.segments = segments  BY DEF Was, Is
<1> HIDE DEF M, N, added, i, f, g
<1>7. Alone(f, j)  BY <1>2, <1>4, <1>6, AloneFrom
<1>8. Alone(g, i)  BY <1>3, <1>5, <1>6, AloneFrom
<1>9. \A n \in s.off + 1 .. s.off + s.fsize : data[n] = input.data[n]  BY <1>1, <1>2, StillThere
<1>10. \A n \in s.off + 1 .. s.off + s.fsize : WordHeld(input.data[n])
  <2>1. \A n \in 1 .. Len(input.data) : WordHeld(input.data[n])  BY <1>1, InputFixups
  <2>2. s.off \in Nat /\ s.fsize \in Nat /\ s.off + s.fsize < Len(input.data) /\ Len(input.data) \in Nat
    BY <1>6, <1>7 DEF Alone
  <2>3. \A n \in s.off + 1 .. s.off + s.fsize : n \in 1 .. Len(input.data)
    <3> DEFINE o == s.off
               z == s.fsize
               c == Len(input.data)
    <3>1. o \in Nat /\ z \in Nat /\ c \in Nat /\ o + z < c  BY <2>2
    <3> HIDE DEF o, z, c
    <3>2. \A n \in o + 1 .. o + z : n \in 1 .. c  BY <3>1
    <3> QED  BY <3>2 DEF o, z, c
  <2> QED  BY <2>1, <2>3
<1>11. SameSegment(f, g, j, i)  BY <1>5, <1>6, <1>7, <1>8, <1>9, <1>10 DEF SameSegment
<1> QED  BY <1>11 DEF f, g, i

\* and the lowest address is, which some segment in front of __LINKEDIT has.
LEMMA LowestStays ==
  ASSUME IInv, "fixups" \in DOMAIN tables, NEW k \in Nat, SegmentsAre(k), place \in 1 .. Len(input.segments),
         Linkedits(input.segments) # {},
         NEW j \in 1 .. Len(input.segments), input.segments[j].name # Linkedit, input.segments[j].fsize # 0
  PROVE  LowestVa(segments) = LowestVa(input.segments)
<1>1. input \in Inputs /\ FileInv /\ KeptInv  BY DEF IInv, NamesInv
<1> DEFINE M == NamesOf(input.segments)
           m == Len(input.segments)
           l == CHOOSE n \in Linkedits(input.segments) : TRUE
<1>2. /\ Linked(input) /\ input.segments \in Seq(Segment(M)) /\ m \in Nat /\ DOMAIN input.segments = 1 .. m
      /\ \A n \in 1 .. m : input.segments[n] \in Segment(M)
  BY <1>1, InputIs, PartsAre
<1>3. /\ DOMAIN segments = 1 .. Len(segments) /\ \A n \in 1 .. Len(segments) : segments[n] \in Segment(NamesNow)
  BY <1>1, FileIs
<1>4. SegmentsHeld(input.segments, input.data, 0) /\ LinkeditLast(input.segments)  BY <1>2 DEF Linked, Sound
<1>5. l \in Linkedits(input.segments) /\ Ceiling = input.segments[l].va  BY DEF Ceiling
<1> HIDE DEF M
<1>6. l \in 1 .. m /\ input.segments[l].name = Linkedit
      /\ \A n \in 1 .. m : n # l => RoundedEnd(input.segments[n]) <= input.segments[l].va
  BY <1>2, <1>4, <1>5, LastIs
<1> HIDE DEF l
<1>7. /\ \A n \in 1 .. m : input.segments[n].va \in Nat
      /\ \A n \in 1 .. Len(segments) : segments[n].va \in Nat
      /\ Ceiling \in Nat
  BY <1>2, <1>3, <1>5, <1>6, SegmentIs
<1>8. input.segments[j].va < Ceiling
  <2> DEFINE s == input.segments[j]
             v == s.va
             z == s.vsize
             f == s.fsize
             e == RoundedEnd(s)
  <2>1. v \in Nat /\ z \in Nat /\ f \in Nat /\ e \in Nat /\ v + z <= e  BY <1>2, SegmentIs
  <2>2. f <= z + 0  BY <1>2, <1>4 DEF SegmentsHeld
  <2>3. e <= Ceiling  BY <1>5, <1>6
  <2>4. f # 0  OBVIOUS
  <2> HIDE DEF s, v, z, f, e
  <2>5. v < Ceiling  BY <1>7, <2>1, <2>2, <2>3, <2>4
  <2> QED  BY <2>5 DEF v, s
<1>9. \A n \in 1 .. m : input.segments[n].va < Ceiling => \E i \in 1 .. Len(segments) : segments[i] = input.segments[n]
  <2> TAKE n \in 1 .. m
  <2> HAVE input.segments[n].va < Ceiling
  <2>1. input.segments[n].name # Linkedit
    <3> SUFFICES ASSUME input.segments[n].name = Linkedit PROVE FALSE  OBVIOUS
    <3>1. n \in Linkedits(input.segments)  BY <1>2 DEF Linkedits
    <3>2. n = l  BY <1>2, <1>4, <1>5, <3>1, LastIs
    <3>3. Ceiling < Ceiling  BY <1>5, <3>2
    <3> QED  BY <1>7, <3>3
  <2>2. segments[Later(n, k)] = input.segments[n] /\ Len(segments) = m + k  BY <2>1 DEF SegmentsAre
  <2>3. n \in Nat \ {0}  OBVIOUS
  <2>4. Later(n, k) \in 1 .. m + k  BY <1>2, <2>3, LaterIs
  <2> QED  BY <2>2, <2>4
<1>10. \A i \in 1 .. Len(segments) : Ceiling <= segments[i].va \/ \E n \in 1 .. m : segments[i] = input.segments[n]
  BY DEF SegmentsAre
<1> HIDE DEF m
<1> DEFINE parts == input.segments
           later == segments
<1>11. /\ j \in DOMAIN parts /\ parts[j].fsize # 0 /\ parts[j].va < Ceiling
       /\ \A i \in DOMAIN parts : parts[i].va \in Nat
       /\ \A i \in DOMAIN later : later[i].va \in Nat
       /\ \A i \in DOMAIN parts : parts[i].va < Ceiling => \E n \in DOMAIN later : later[n] = parts[i]
       /\ \A n \in DOMAIN later : Ceiling <= later[n].va \/ \E i \in DOMAIN parts : later[n] = parts[i]
  BY <1>2, <1>3, <1>7, <1>8, <1>9, <1>10 DEF m
<1> HIDE DEF parts, later
<1>12. LowestVa(later) = LowestVa(parts)  BY <1>7, <1>11, LowestFollows
<1> QED  BY <1>12 DEF parts, later

\* So every fixup is.
LEMMA FixupsAre ==
  ASSUME IInv, SegmentsInv, EntriesInv  PROVE FixupsFollow
<1>1. input \in Inputs /\ FileInv /\ KeptInv  BY DEF IInv, NamesInv
<1>2. SUFFICES ASSUME pc = "done", "fixups" \in DOMAIN tables, NEW base \in Bases
               PROVE  ReadFixups(Is(base)) = ReadFixups(Was(base))
  BY DEF FixupsFollow, FixupsOf, Is, Was, Bases
<1> DEFINE k == Groups
           m == Len(input.segments)
           n == Len(input.starts)
           to == [j \in 1 .. n |-> Later(j, k)]
           M == NamesOf(input.segments)
           added == Len(starts) - Len(input.starts)
           f == Was(base)
           g == Is(base)
<1>3. k \in Nat /\ Entered = k /\ Added = k  BY <1>2 DEF Groups, Entered, Added, Written
<1>4. EntriesAre(k)  BY <1>2, <1>3 DEF EntriesInv
<1>5. "fixups" \in DOMAIN input.tables  BY <1>4 DEF EntriesAre
<1>6. /\ Linked(input) /\ input.segments \in Seq(Segment(M)) /\ m \in Nat /\ DOMAIN input.segments = 1 .. m
      /\ Sound(input.segments, input.data, input.tables, input.starts, input.fixups, 0)
  <2>1. Linked(input) /\ input.segments \in Seq(Segment(M))  BY <1>1, InputIs
  <2> HIDE DEF M
  <2> QED  BY <2>1, PartsAre DEF Linked
<1>7. Linkedits(input.segments) # {}  BY <1>5, <1>6, NoTables
<1>8. SegmentsAre(k) /\ place \in 1 .. m  BY <1>2, <1>3, <1>7 DEF SegmentsInv, Shifted
<1>9. /\ segments \in Seq(Segment(NamesNow)) /\ DOMAIN segments = 1 .. Len(segments)
      /\ starts \in Seq(Nat) /\ DOMAIN starts = 1 .. Len(starts) /\ added \in Nat
      /\ Sound(segments, data, tables, starts, fixups, added)
  <2>1. starts \in Seq(Nat)  BY <1>1, FileIs
  <2> QED  BY <1>1, <2>1, FileIs
<1>10. /\ f.base = base /\ f.data = input.data /\ f.segments = input.segments /\ f.blob = input.tables["fixups"]
       /\ f.first = input.fixups.starts /\ f.starts = Led(input.starts, EntryPoint)
  BY DEF Was
<1>11. /\ g.base = base /\ g.data = data /\ g.segments = segments /\ g.blob = tables["fixups"]
       /\ g.first = fixups.starts /\ g.starts = Led(starts, EntryPoint + added)
  BY DEF Is
<1>12. place \in Nat \ {0} /\ EntryPoint \in Nat \ {0}
  <2>1. place \in Nat \ {0}  BY <1>8
  <2> QED  BY <1>1, <1>5, <2>1, PointIs
<1>13. SameBlob(f, g, k, EntryPoint)  BY <1>1, <1>3, <1>4, <1>12, BlobFollows
<1>14. base \in Nat
  <2>1. input.fixups.starts \in Nat  BY <1>1, <1>5, InputFixups
  <2> QED  BY <1>2, <2>1 DEF Bases
<1> HIDE DEF f, g
<1>15. input.starts \in Seq(Nat) /\ n \in Nat /\ DOMAIN input.starts = 1 .. n /\ \A j \in 1 .. n : input.starts[j] \in Nat
  BY <1>1, <1>5, InputFixups
<1>16. /\ Len(f.starts) = n /\ DOMAIN f.starts = 1 .. n
       /\ \A j \in 1 .. n : f.starts[j] = IF EntryPoint <= input.starts[j] THEN input.starts[j] ELSE 0
  BY <1>10, <1>15, LedIs
<1>17. /\ Len(g.starts) = Len(starts) /\ DOMAIN g.starts = 1 .. Len(starts)
       /\ \A i \in 1 .. Len(starts) : g.starts[i] = IF EntryPoint + added <= starts[i] THEN starts[i] ELSE 0
  BY <1>9, <1>11, LedIs
<1>18. Whole(f)
  <2> HIDE DEF M, n
  <2> QED  BY <1>5, <1>6, <1>10, <1>16, WholeFrom DEF n
<1>19. Whole(g)
  <2> DEFINE N == NamesNow
  <2>1. segments \in Seq(Segment(N))  BY <1>9
  <2> HIDE DEF N, added
  <2> QED  BY <1>2, <1>9, <1>11, <1>17, <2>1, WholeFrom
<1>20. /\ Len(starts) = n + k
       /\ \A j \in 1 .. n : starts[Later(j, k)] = IF input.starts[j] < Low(k) THEN input.starts[j] ELSE input.starts[j] + k
       /\ \A i \in 1 .. Len(starts) : starts[i] = 0 \/ \E j \in 1 .. n : i = Later(j, k)
  BY <1>4 DEF EntriesAre
<1>21. added = k
  <2> HIDE DEF n, k
  <2>1. Len(starts) = n + k  BY <1>20
  <2> QED  BY <1>3, <1>15, <2>1 DEF n
<1> HIDE DEF k, M, added
<1>22. ASSUME NEW j \in 1 .. n
       PROVE  to[j] \in DOMAIN g.starts /\ OfSegment(g, to[j]) = OfSegment(f, j)
  <2> DEFINE i == Later(j, k)
             e == input.starts[j]
  <2>1. j \in Nat \ {0} /\ to[j] = i  BY <1>15
  <2>2. i \in Nat \ {0} /\ (i \in 1 .. m + k <=> j \in 1 .. m)  BY <1>3, <1>6, <1>8, <2>1, LaterIs
  <2>3. i \in 1 .. n + k
    <3>1. i = j \/ i = j + k  BY DEF Later
    <3> HIDE DEF i, n
    <3>2. j \in 1 .. n /\ n \in Nat  BY <1>15, <1>22
    <3> QED  BY <1>3, <2>1, <3>1, <3>2
  <2>4. e \in Nat /\ starts[i] = IF e < Low(k) THEN e ELSE e + k  BY <1>15, <1>20
  <2>5. to[j] \in DOMAIN g.starts /\ i \in 1 .. Len(starts)  BY <1>17, <1>20, <2>1, <2>3
  <2>6. f.starts[j] = IF EntryPoint <= e THEN e ELSE 0  BY <1>16
  <2>7. g.starts[i] = IF EntryPoint + k <= starts[i] THEN starts[i] ELSE 0  BY <1>17, <1>21, <2>5
  <2> HIDE DEF i, n, m, e
  <2>8. CASE e < EntryPoint
    <3>1. f.starts[j] = 0 /\ g.starts[i] = 0
      <4>1. starts[i] = e
        <5>1. CASE k = 0  BY <2>4, <5>1
        <5>2. CASE k # 0  BY <2>4, <2>8, <5>2 DEF Low
        <5> QED  BY <5>1, <5>2
      <4> QED  BY <1>3, <1>12, <2>4, <2>6, <2>7, <2>8, <4>1
    <3>2. OfSegment(g, i) = {} /\ OfSegment(f, j) = {}  BY <3>1, NoneOfSegment
    <3> QED  BY <2>1, <2>5, <3>2
  <2>9. CASE EntryPoint <= e
    <3>1. /\ f.starts[j] = e /\ e # 0 /\ g.starts[i] = e + k
      <4>1. starts[i] = e + k
        <5>1. Low(k) <= e  BY <1>12, <2>4, <2>9 DEF Low
        <5>2. Low(k) \in Nat  BY <1>12 DEF Low
        <5> QED  BY <2>4, <5>1, <5>2
      <4> QED  BY <1>3, <1>12, <2>4, <2>6, <2>7, <2>9, <4>1
    <3>2. i \in DOMAIN g.segments <=> j \in DOMAIN f.segments
      <4>1. Len(segments) = m + k  BY <1>8 DEF SegmentsAre, m
      <4> QED  BY <1>6, <1>9, <1>10, <1>11, <2>2, <4>1
    <3>3. ASSUME HasInfo(f, j)
          PROVE  /\ SameSegment(f, g, j, i) /\ Paged(InfoOf(f, j), f.segments[j])
                 /\ (f.segments[j].fsize # 0 => LowestVa(g.segments) = LowestVa(f.segments))
      <4> DEFINE info == InfoOf(f, j)
                 s == input.segments[j]
      <4>1. ChainsHeld(s, info)
        <5>1. f.starts[j] # 0 /\ j \in 1 .. n  BY <1>22, <3>1
        <5> QED  BY <1>1, <1>2, <1>5, <3>3, <5>1, InputChains DEF f, n
      <4> HIDE DEF info
      <4>2. j \in 1 .. m  BY <1>6, <1>10, <3>3 DEF HasInfo
      <4>3. s.name # Linkedit  BY <4>1 DEF ChainsHeld
      <4>4. s.va \in Nat
        <5>1. s \in Segment(M)  BY <1>6, <4>2, PartsAre
        <5> QED  BY <5>1, SegmentIs
      <4>5. Paged(info, s)  BY <4>1, <4>4 DEF ChainsHeld, Paged
      <4>6. SameSegment(f, g, j, i)  BY <1>2, <1>3, <1>5, <1>8, <4>2, <4>3, SegmentFollows DEF m, i, f, g
      <4>7. s.fsize # 0 => LowestVa(segments) = LowestVa(input.segments)
        BY <1>2, <1>3, <1>7, <1>8, <4>2, <4>3, LowestStays DEF m
      <4> QED  BY <1>10, <1>11, <4>5, <4>6, <4>7 DEF info
    <3>4. OfSegment(g, i) = OfSegment(f, j)
      <4>1. /\ f.base \in Nat /\ g.base = f.base /\ f.starts[j] \in Nat \ {0} /\ EntryPoint <= f.starts[j]
            /\ g.starts[i] = f.starts[j] + k
        BY <1>10, <1>11, <1>14, <2>4, <2>9, <3>1
      <4> QED  BY <1>13, <3>2, <3>3, <4>1, OfSegmentFollows
    <3> QED  BY <2>1, <2>5, <3>4
  <2> QED  BY <1>12, <2>4, <2>8, <2>9
<1>23. ASSUME NEW i \in DOMAIN g.starts  PROVE g.starts[i] = 0 \/ \E j \in 1 .. n : i = to[j]
  <2>1. i \in 1 .. Len(starts)  BY <1>17
  <2>2. starts[i] = 0 \/ \E j \in 1 .. n : i = Later(j, k)  BY <1>20, <2>1
  <2>3. starts[i] = 0 => g.starts[i] = 0  BY <1>17, <2>1
  <2> QED  BY <2>2, <2>3
<1> HIDE DEF to
<1>24. /\ \A j \in DOMAIN f.starts : to[j] \in DOMAIN g.starts /\ OfSegment(g, to[j]) = OfSegment(f, j)
       /\ \A i \in DOMAIN g.starts : g.starts[i] = 0 \/ \E j \in DOMAIN f.starts : i = to[j]
  BY <1>16, <1>22, <1>23
<1>25. ReadFixups(g) = ReadFixups(f)  BY <1>13, <1>18, <1>19, <1>24, ParseFollows
<1> QED  BY <1>25 DEF f, g

-----------------------------------------------------------------------------
(* The fixups, step by step.                                                *)

\* A table is in the file.
LEMMA TableInside ==
  ASSUME NEW N, NEW parts \in Seq(Segment(N)), NEW bytes, NEW at, NEW entries, NEW where, NEW added \in Nat,
         Sound(parts, bytes, at, entries, where, added), NEW t \in DOMAIN at
  PROVE  /\ at[t].off \in Nat /\ at[t].size \in Nat /\ Len(bytes) \in Nat
         /\ at[t].off + at[t].size <= Len(bytes) /\ Linkedits(parts) # {}
<1>1. PICK l \in Linkedits(parts) : TRUE
  <2>1. Linkedits(parts) # {}  BY NoTables
  <2> QED  BY <2>1
<1> QED  BY <1>1, TablesAre DEF Placed

\* A file that was only read is as it was.
LEMMA ReadAsItWas ==
  ASSUME input \in Inputs, AsRead
  PROVE  /\ Linkedits(input.segments) # {} => SegmentsAre(0)
         /\ "fixups" \in DOMAIN tables => EntriesAre(0)
<1> DEFINE m == Len(input.segments)
           n == Len(input.starts)
           M == NamesOf(input.segments)
<1>1. /\ segments = input.segments /\ data = input.data /\ tables = input.tables /\ starts = input.starts
      /\ fixups = input.fixups
  BY DEF AsRead
<1>2. \A j \in Nat : Later(j, 0) = j  BY DEF Later
<1>3. /\ Linked(input) /\ input.segments \in Seq(Segment(M)) /\ m \in Nat /\ n \in Nat
      /\ DOMAIN input.segments = 1 .. m /\ \A j \in 1 .. m : input.segments[j] \in Segment(M)
  <2>1. Linked(input) /\ input.segments \in Seq(Segment(M)) /\ n \in Nat  BY InputIs
  <2> HIDE DEF M
  <2> QED  BY <2>1, PartsAre
<1>4. Sound(input.segments, input.data, input.tables, input.starts, input.fixups, 0)  BY <1>3 DEF Linked
<1>5. ASSUME Linkedits(input.segments) # {}  PROVE SegmentsAre(0)
  <2>1. LinkeditLast(input.segments)  BY <1>4 DEF Sound
  <2> HIDE DEF M, m
  <2>2. \A j \in 1 .. m : j \in Nat /\ Later(j, 0) = j  BY <1>2
  <2>3. ASSUME NEW i \in 1 .. m, input.segments[i].name = Linkedit  PROVE Ceiling <= input.segments[i].va
    <3>1. i \in Linkedits(input.segments)  BY <1>3, <2>3 DEF Linkedits
    <3>2. Linkedits(input.segments) = {i}  BY <1>3, <2>1, <3>1, LastIs
    <3>3. Ceiling = input.segments[i].va  BY <3>2 DEF Ceiling
    <3>4. input.segments[i].va \in Nat  BY <1>3, SegmentIs
    <3> QED  BY <3>3, <3>4
  <2>4. Len(segments) = m + 0 /\ m = Len(input.segments)  BY <1>1, <1>3 DEF m
  <2>5. \A j \in 1 .. m : input.segments[j].name # Linkedit => segments[Later(j, 0)] = input.segments[j]  BY <1>1, <2>2
  <2>6. \A i \in 1 .. m : \/ Ceiling <= segments[i].va
                          \/ \E j \in 1 .. m : input.segments[j].name # Linkedit /\ i = Later(j, 0)
    BY <1>1, <2>2, <2>3
  <2> QED  BY <1>1, <2>4, <2>5, <2>6 DEF SegmentsAre
<1>6. ASSUME "fixups" \in DOMAIN tables  PROVE EntriesAre(0)
  <2> HIDE DEF M, n
  <2>1. /\ input.tables["fixups"].size \in Nat
        /\ input.fixups.imports \in Nat /\ input.fixups.symbols \in Nat
        /\ \A j \in 1 .. n : input.starts[j] \in Nat
    <3>1. "fixups" \in DOMAIN input.tables  BY <1>1, <1>6
    <3> QED  BY <3>1, InputFixups DEF n
  <2>2. \A j \in 1 .. n : j \in Nat /\ Later(j, 0) = j  BY <1>2
  <2>3. Len(starts) = n + 0 /\ n = Len(input.starts)  BY <1>1, <1>3 DEF n
  <2>4. \A j \in 1 .. n : starts[Later(j, 0)] = IF input.starts[j] < 0 THEN input.starts[j] ELSE input.starts[j] + 0
    BY <1>1, <2>1, <2>2
  <2>5. \A i \in 1 .. n : starts[i] = 0 \/ \E j \in 1 .. n : i = Later(j, 0)  BY <2>2
  <2>6. fixups.imports = input.fixups.imports + 0 /\ fixups.symbols = input.fixups.symbols + 0
        /\ tables["fixups"].size = input.tables["fixups"].size + 0
    BY <1>1, <2>1
  <2>7. \A i \in 0 .. input.tables["fixups"].size - 1 :
          data[tables["fixups"].off + (i + 0) + 1] = input.data[input.tables["fixups"].off + i + 1]
    <3> TAKE i \in 0 .. input.tables["fixups"].size - 1
    <3>1. i + 0 = i  BY <2>1
    <3> QED  BY <1>1, <3>1
  <2>8. Low(0) = 0  BY DEF Low
  <2> QED  BY <1>1, <1>6, <2>3, <2>4, <2>5, <2>6, <2>7, <2>8 DEF EntriesAre
<1> QED  BY <1>5, <1>6

\* Before the file is written to,
LEMMA FixupsEarly ==
  ASSUME IInv, pc \in {"name", "named", "signature"}
  PROVE  SegmentsInv /\ EntriesInv
<1>1. input \in Inputs /\ AsRead  BY DEF IInv, NamesInv, KeptInv
<1>2. Added = 0 /\ Entered = 0 /\ pc \notin Shifted  BY DEF Added, Entered, Written, Shifted
<1> QED  BY <1>1, <1>2, ReadAsItWas DEF SegmentsInv, EntriesInv

\* and where it is not.
LEMMA FixupsIdle ==
  ASSUME SegmentsInv, EntriesInv, UNCHANGED <<input, segments, data, tables, starts, fixups, place, linkeditVa>>,
         Added' = Added, Entered' = Entered, pc' \in Shifted => pc \in Shifted
  PROVE  SegmentsInv' /\ EntriesInv'
<1>1. /\ input' = input /\ segments' = segments /\ data' = data /\ tables' = tables /\ starts' = starts
      /\ fixups' = fixups /\ place' = place /\ linkeditVa' = linkeditVa
      /\ Ceiling' = Ceiling /\ EntryPoint' = EntryPoint
  BY DEF Ceiling, EntryPoint
<1>2. SegmentsInv'
  <2>1. Linkedits(input.segments)' = Linkedits(input.segments)  BY <1>1
  <2>2. SegmentsAre(Added)' <=> SegmentsAre(Added)  BY <1>1 DEF SegmentsAre, Later
  <2> QED  BY <1>1, <2>1, <2>2 DEF SegmentsInv
<1>3. EntriesInv'
  <2>1. EntriesAre(Entered)' <=> EntriesAre(Entered)  BY <1>1 DEF EntriesAre, Later, Low
  <2> QED  BY <1>1, <2>1 DEF EntriesInv
<1> QED  BY <1>2, <1>3

\* The segments of the file are counted.
LEMMA InputLength ==
  ASSUME input \in Inputs
  PROVE  Len(input.segments) \in Nat /\ DOMAIN input.segments = 1 .. Len(input.segments)
<1> DEFINE M == NamesOf(input.segments)
<1>1. input.segments \in Seq(Segment(M))  BY InputIs
<1> HIDE DEF M
<1> QED  BY <1>1, PartsAre

\* __LINKEDIT is somewhere in memory.
LEMMA CeilingIs ==
  ASSUME input \in Inputs, Linkedits(input.segments) # {}
  PROVE  Ceiling \in Nat
<1> DEFINE l == CHOOSE n \in Linkedits(input.segments) : TRUE
           M == NamesOf(input.segments)
<1>1. l \in DOMAIN input.segments  BY DEF Linkedits
<1>2. input.segments \in Seq(Segment(M))  BY InputIs
<1>3. Ceiling = input.segments[l].va  BY DEF Ceiling
<1> HIDE DEF l, M
<1>4. input.segments[l] \in Segment(M)  BY <1>1, <1>2, PartsAre
<1> QED  BY <1>3, <1>4, SegmentIs

\* Sequences with one domain have one length.
LEMMA SameLength ==
  ASSUME NEW a \in Nat, NEW b \in Nat, 1 .. a = 1 .. b  PROVE a = b
<1>1. a # 0 => a \in 1 .. b  OBVIOUS
<1>2. b # 0 => b \in 1 .. a  OBVIOUS
<1> QED  BY <1>1, <1>2

\* If only __LINKEDIT changes, and moves up, the segments are where they were.
LEMMA SegmentsStay ==
  ASSUME input \in Inputs, Linkedits(input.segments) # {}, FileInv, FileInv', input' = input, NEW k \in Nat, SegmentsAre(k),
         DOMAIN segments' = DOMAIN segments,
         \A j \in DOMAIN segments : /\ segments[j].va <= segments'[j].va
                                    /\ segments[j].name # Linkedit => segments'[j] = segments[j],
         \A j \in 1 .. Len(input.segments) : Later(j, k)' = Later(j, k) /\ Later(j, k) \in DOMAIN segments
  PROVE  SegmentsAre(k)'
<1> DEFINE m == Len(input.segments)
<1>1. /\ Len(segments) \in Nat /\ DOMAIN segments = 1 .. Len(segments)
      /\ \A j \in 1 .. Len(segments) : segments[j] \in Segment(NamesNow)
  BY FileIs
<1>2. /\ Len(segments') \in Nat /\ DOMAIN segments' = 1 .. Len(segments')
      /\ \A j \in DOMAIN segments' : segments'[j] \in Segment(NamesNow')
  <2>1. segments' \in Seq(Segment(NamesNow'))  BY DEF FileInv
  <2> DEFINE N == NamesNow'
  <2> HIDE DEF N
  <2> QED  BY <2>1, PartsAre DEF N
<1>3. Len(segments') = Len(segments)  BY <1>1, <1>2, SameLength
<1>4. Ceiling' = Ceiling /\ Len(input'.segments) = m  BY DEF Ceiling
<1>5. ASSUME NEW j \in 1 .. m, input.segments[j].name # Linkedit  PROVE segments'[Later(j, k)] = input.segments[j]
  BY <1>5 DEF SegmentsAre
<1>6. ASSUME NEW i \in 1 .. Len(segments), ~\E j \in 1 .. m : input.segments[j].name # Linkedit /\ i = Later(j, k)
      PROVE  Ceiling <= segments'[i].va
  <2> DEFINE c == Ceiling
             v == segments[i].va
             w == segments'[i].va
  <2>1. c <= v /\ v <= w  BY <1>1, <1>6 DEF SegmentsAre
  <2>2. v \in Nat /\ w \in Nat /\ c \in Int
    <3>1. v \in Nat /\ w \in Nat  BY <1>1, <1>2, <1>3, SegmentIs
    <3> QED  BY <3>1, CeilingIs
  <2> HIDE DEF c, v, w
  <2>3. c <= w  BY <2>1, <2>2
  <2> QED  BY <2>3 DEF c, w
<1> QED  BY <1>3, <1>4, <1>5, <1>6 DEF SegmentsAre

\* The signature is neither in front of the entries nor among what they lead to.
LEMMA FixupsWithoutSignature ==
  ASSUME IInv, RemoveSignature, FileInv'  PROVE SegmentsInv' /\ EntriesInv'
<1>1. /\ pc = "signature" /\ pc' = "room" /\ UNCHANGED <<asked, starts, fixups, target>>
      /\ tables' = IF "signature" \notin DOMAIN tables THEN tables ELSE [t \in DOMAIN tables \ {"signature"} |-> tables[t]]
  BY DEF RemoveSignature
<1>2. EndIsCut  BY RemoveSignatureKeeps
<1>3. /\ input \in Inputs /\ FileInv /\ input' = input /\ starts' = starts /\ fixups' = fixups /\ place' = place
      /\ Ceiling' = Ceiling /\ Low(0) = 0 /\ Low(0)' = 0
  BY <1>1, AskedKept DEF IInv, NamesInv, target, Ceiling, Low
<1>4. SegmentsInv /\ EntriesInv  BY <1>1, FixupsEarly
<1>5. Added = 0 /\ Added' = 0 /\ Entered = 0 /\ Entered' = 0 /\ pc' \notin Shifted
  BY <1>1 DEF Added, Entered, Written, Shifted
<1>6. \A j, k : Later(j, k)' = Later(j, k)  BY <1>3 DEF Later
<1>7. ASSUME Linkedits(input.segments) # {}  PROVE SegmentsAre(0)'
  <2>1. SegmentsAre(0)  BY <1>4, <1>5, <1>7 DEF SegmentsInv
  <2>2. /\ Len(segments) = Len(input.segments) + 0 /\ Len(input.segments) \in Nat
        /\ DOMAIN segments = 1 .. Len(segments) /\ \A j \in DOMAIN segments : segments[j] \in Segment(NamesNow)
    BY <1>3, <2>1, FileIs, InputLength DEF SegmentsAre
  <2>3. \A j \in 1 .. Len(input.segments) : Later(j, 0)' = Later(j, 0) /\ Later(j, 0) \in DOMAIN segments
    BY <1>3, <2>2 DEF Later
  <2>4. \A j \in DOMAIN segments : segments[j].va <= segments'[j].va /\ (segments[j].name # Linkedit => segments'[j] = segments[j])
    <3>1. \A j \in DOMAIN segments : segments[j].va \in Nat  BY <2>2, SegmentIs
    <3> QED  BY <1>2, <3>1 DEF EndIsCut
  <2> QED  BY <1>2, <1>3, <1>7, <2>1, <2>3, <2>4, SegmentsStay DEF EndIsCut
<1>8. ASSUME "fixups" \in DOMAIN tables'  PROVE EntriesAre(0)'
  <2>1. "fixups" \in DOMAIN tables /\ tables'["fixups"] = tables["fixups"]
    <3>1. CASE "signature" \in DOMAIN tables
      <4>1. "fixups" # "signature"  OBVIOUS
      <4> QED  BY <1>1, <1>8, <3>1, <4>1
    <3>2. CASE "signature" \notin DOMAIN tables  BY <1>1, <1>8, <3>2
    <3> QED  BY <3>1, <3>2
  <2>2. EntriesAre(0)  BY <1>4, <1>5, <2>1 DEF EntriesInv
  <2> DEFINE b == tables["fixups"].off
             z == input.tables["fixups"].size
  <2>3. /\ b \in Nat /\ tables["fixups"].size \in Nat /\ Len(data') \in Nat
        /\ b + tables["fixups"].size <= Len(data')
    <3> DEFINE N == NamesNow'
               added == Len(starts') - Len(input'.starts)
    <3>1. segments' \in Seq(Segment(N)) /\ Sound(segments', data', tables', starts', fixups', added)  BY DEF FileInv
    <3>2. added \in Nat  BY <1>3, FileIs
    <3> HIDE DEF N, added
    <3>3. /\ tables'["fixups"].off \in Nat /\ tables'["fixups"].size \in Nat /\ Len(data') \in Nat
          /\ tables'["fixups"].off + tables'["fixups"].size <= Len(data')
      BY <1>8, <3>1, <3>2, TableInside
    <3> QED  BY <2>1, <3>3
  <2>4. z \in Nat
    <3>1. "fixups" \in DOMAIN input.tables  BY <2>2 DEF EntriesAre
    <3> QED  BY <1>3, <3>1, InputFixups
  <2>5. tables["fixups"].size = z + 0  BY <2>2 DEF EntriesAre
  <2>6. \A n \in 0 .. z - 1 : data'[b + (n + 0) + 1] = data[b + (n + 0) + 1]
    <3> TAKE n \in 0 .. z - 1
    <3> DEFINE v == Len(data')
               y == tables["fixups"].size
    <3>1. b \in Nat /\ z \in Nat /\ v \in Nat /\ y = z + 0 /\ b + y <= v /\ n \in 0 .. z - 1
      BY <2>3, <2>4, <2>5
    <3> HIDE DEF v, b, z, y
    <3>2. b + (n + 0) + 1 \in 1 .. v  BY <3>1
    <3> QED  BY <1>2, <3>2 DEF EndIsCut, v
  <2> QED  BY <1>3, <1>6, <2>1, <2>2, <2>6 DEF EntriesAre
<1>9. SegmentsInv'
  <2>1. Linkedits(input.segments)' = Linkedits(input.segments)  BY <1>3
  <2>2. SegmentsAre(0)' => SegmentsAre(Added)'  BY <1>5 DEF SegmentsAre, Later
  <2> QED  BY <1>5, <1>7, <2>1, <2>2 DEF SegmentsInv
<1>10. EntriesInv'
  <2>1. EntriesAre(0)' => EntriesAre(Entered)'  BY <1>5 DEF EntriesAre, Later, Low
  <2> QED  BY <1>8, <2>1 DEF EntriesInv
<1> QED  BY <1>9, <1>10

\* Room is made in front of __LINKEDIT, and so of the blob.
LEMMA FixupsShift ==
  ASSUME IInv, SegmentsInv, EntriesInv, Shift, FileInv'  PROVE SegmentsInv' /\ EntriesInv'
<1>1. pc = "shift" /\ pc' = "caves" /\ UNCHANGED <<asked, starts, fixups>>  BY DEF Shift
<1>2. /\ input \in Inputs /\ FileInv /\ KeptInv /\ input' = input /\ starts' = starts /\ fixups' = fixups
      /\ Ceiling' = Ceiling /\ Low(0) = 0 /\ Low(0)' = 0
  BY <1>1, AskedKept DEF IInv, NamesInv, Ceiling, Low
<1>3. Added = 0 /\ Added' = 0 /\ Entered = 0 /\ Entered' = 0
  BY <1>1 DEF Added, Entered, Written
<1>4. \A j \in Nat : Later(j, 0) = j /\ Later(j, 0)' = j  BY DEF Later
<1>5. /\ Len(segments) \in Nat /\ DOMAIN segments = 1 .. Len(segments) /\ segments \in Seq(Segment(NamesNow))
      /\ LinkeditLast(segments)
      /\ Sound(segments, data, tables, starts, fixups, Len(starts) - Len(input.starts))
      /\ Len(starts) - Len(input.starts) \in Nat
  BY <1>2, FileIs
<1>6. CASE Linkedits(segments) = {}
  <2>1. Linkedits(input.segments)' = {}  BY <1>2, <1>6 DEF KeptInv
  <2>2. DOMAIN tables = {}  BY <1>5, <1>6, NoTables
  <2>3. tables' = tables  BY <1>6 DEF Shift
  <2> QED  BY <2>1, <2>2, <2>3 DEF SegmentsInv, EntriesInv
<1>7. CASE Linkedits(segments) # {}
  <2> DEFINE l == CHOOSE j \in Linkedits(segments) : TRUE
  <2>1. LinkeditMoves  BY <1>7, ShiftInFront
  <2>2. l \in Linkedits(segments) /\ place' = l /\ linkeditVa' = segments[l].va  BY <1>7 DEF Shift
  <2> HIDE DEF l
  <2>3. Linkedits(input.segments) # {}  BY <1>2, <1>7 DEF KeptInv
  <2>4. SegmentsAre(0)  BY <1>3, <2>3 DEF SegmentsInv
  <2>5. Len(segments) = Len(input.segments) /\ Len(input.segments) \in Nat
    <3>1. Len(input.segments) \in Nat  BY <1>2, InputLength
    <3> QED  BY <2>4, <3>1 DEF SegmentsAre
  <2>6. \A j \in 1 .. Len(input.segments) : Later(j, 0)' = Later(j, 0) /\ Later(j, 0) \in DOMAIN segments
    <3>1. \A j \in 1 .. Len(input.segments) : j \in Nat  OBVIOUS
    <3> QED  BY <1>4, <1>5, <2>5, <3>1
  <2>7. SegmentsAre(0)'
    <3>1. 0 \in Nat  OBVIOUS
    <3> QED  BY <1>2, <2>1, <2>3, <2>4, <2>6, <3>1, SegmentsStay DEF LinkeditMoves
  <2>8. place' \in 1 .. Len(input.segments) /\ Ceiling <= linkeditVa'
    <3>1. l \in 1 .. Len(segments) /\ segments[l].name = Linkedit  BY <1>5, <2>2 DEF Linkedits
    <3>2. Ceiling <= segments[l].va
      <4> SUFFICES ASSUME NEW j \in 1 .. Len(input.segments), input.segments[j].name # Linkedit, l = Later(j, 0)
                   PROVE  FALSE
        BY <2>4, <3>1 DEF SegmentsAre
      <4>1. segments[l] = input.segments[j]  BY <2>4 DEF SegmentsAre
      <4> QED  BY <3>1, <4>1
    <3> QED  BY <2>2, <2>5, <3>1, <3>2
  <2>9. SegmentsInv'
    <3>1. SegmentsAre(0)' => SegmentsAre(Added)'  BY <1>3 DEF SegmentsAre, Later
    <3> QED  BY <1>2, <2>7, <2>8, <3>1 DEF SegmentsInv
  <2>10. ASSUME "fixups" \in DOMAIN tables'  PROVE EntriesAre(0)'
    <3>1. "fixups" \in DOMAIN tables  BY <2>1, <2>10 DEF LinkeditMoves
    <3>2. EntriesAre(0)  BY <1>3, <3>1 DEF EntriesInv
    <3>3. "fixups" \in DOMAIN input.tables  BY <3>2 DEF EntriesAre
    <3> DEFINE b == tables["fixups"].off
               c == tables'["fixups"].off
               z == input.tables["fixups"].size
               y == tables["fixups"].size
               n == Len(input.starts)
    <3>4. z \in Nat /\ n \in Nat  BY <1>2, <3>3, InputFixups
    <3>5. y = z + 0 /\ tables'["fixups"].size = y  BY <2>1, <3>1, <3>2 DEF EntriesAre, LinkeditMoves
    <3>6. b \in Nat /\ c \in Nat
      <4>1. Sound(segments', data', tables', starts', fixups', Len(starts') - Len(input'.starts))  BY DEF FileInv
      <4>2. tables["fixups"] \in [off: Nat, size: Nat \ {0}]  BY <1>5, <3>1 DEF Sound
      <4>3. tables'["fixups"] \in [off: Nat, size: Nat \ {0}]  BY <2>10, <4>1 DEF Sound
      <4> QED  BY <4>2, <4>3
    <3>7. ASSUME NEW i \in 0 .. z - 1  PROVE data'[c + (i + 0) + 1] = data[b + (i + 0) + 1]
      <4>1. i + 0 + 1 \in 1 .. y /\ c + (i + 0) + 1 = c + (i + 0 + 1) /\ b + (i + 0) + 1 = b + (i + 0 + 1)
        <5>1. z \in Nat /\ y = z + 0 /\ b \in Nat /\ c \in Nat /\ i \in 0 .. z - 1
          BY <3>4, <3>5, <3>6
        <5> HIDE DEF b, c, z, y
        <5> QED  BY <5>1
      <4> DEFINE k == i + 0 + 1
      <4>2. k \in 1 .. y /\ c + (i + 0) + 1 = c + k /\ b + (i + 0) + 1 = b + k  BY <4>1
      <4> HIDE DEF k
      <4>3. data'[c + k] = data[b + k]  BY <2>1, <3>1, <4>2 DEF LinkeditMoves
      <4> QED  BY <4>2, <4>3
    <3>8. \A j \in 1 .. n : Later(j, 0)' = Later(j, 0)
      <4>1. \A j \in 1 .. n : j \in Nat  BY <3>4
      <4> QED  BY <1>4, <4>1
    <3>9. tables'["fixups"].size = z + 0  BY <3>5
    <3> QED  BY <1>2, <3>2, <3>7, <3>8, <3>9 DEF EntriesAre
  <2>11. EntriesInv'
    <3>1. EntriesAre(0)' => EntriesAre(Entered)'  BY <1>3 DEF EntriesAre, Later, Low
    <3> QED  BY <2>10, <3>1 DEF EntriesInv
  <2> QED  BY <2>9, <2>11
<1> QED  BY <1>6, <1>7

\* A cave for the code and one for the data, if there is any.
LEMMA CavesCounted ==
  Groups \in Nat /\ Len(NewSegments) = Groups
<1> DEFINE c == Cave("code", 0, codeSize, Code)
           d == Cave("data", dataBase, dataSize, Data)
<1>1. NewSegments = (IF Code = {} THEN <<>> ELSE <<c>>) \o (IF Data = {} THEN <<>> ELSE <<d>>)  BY DEF NewSegments
<1> HIDE DEF c, d
<1> QED  BY <1>1 DEF Groups

\* They are in front of __LINKEDIT, above all that was there.
LEMMA FixupsCaves ==
  ASSUME IInv, SegmentsInv, EntriesInv, WriteCaves  PROVE SegmentsInv' /\ EntriesInv'
<1> DEFINE w  == NewSegments
           k  == Groups
           at == place - 1
           m  == Len(input.segments)
<1>1. /\ pc = "caves" /\ pc' = "code fixups" /\ UNCHANGED <<asked, tables, starts, fixups, layout, target>>
      /\ segments' = SubSeq(segments, 1, at) \o w \o SubSeq(segments, place, Len(segments))
  BY DEF WriteCaves
<1>2. FileInv /\ LayoutInv /\ PlaceInv /\ PlansInv /\ NamesInv /\ KeptInv /\ input \in Inputs /\ plans # <<>>
  <2>1. pc \notin {"name", "named", "failed"}  BY <1>1
  <2> QED  BY <2>1 DEF IInv, NamesInv, PlansInv
<1>3. /\ input' = input /\ Code' = Code /\ Data' = Data /\ Groups' = k /\ starts' = starts /\ fixups' = fixups
      /\ tables' = tables /\ place' = place /\ linkeditVa' = linkeditVa /\ Ceiling' = Ceiling
      /\ Low(0) = 0 /\ Low(0)' = 0
      /\ \A j, n : Later(j, n)' = Later(j, n)
  BY <1>1, AskedKept DEF target, Groups, Ceiling, Low, Later
<1>4. Added = 0 /\ Added' = k /\ Entered = 0 /\ Entered' = 0 /\ pc \in Shifted
  BY <1>1, <1>3 DEF Added, Entered, Written, Shifted
<1>5. /\ segments \in Seq(Segment(NamesNow)) /\ Len(segments) \in Nat /\ DOMAIN segments = 1 .. Len(segments)
      /\ \A j \in 1 .. Len(segments) : segments[j] \in Segment(NamesNow)
      /\ Len(data) \in Nat /\ data \in Seq(ToSet(data))
  BY <1>2, FileIs
<1>6. /\ linkeditOff \in Nat /\ linkeditVa \in Nat /\ linkeditVa % Page = 0 /\ place \in 1 .. Len(segments) + 1
      /\ linkeditOff + dataBase + dataSize <= Len(data)
      /\ \A l \in Linkedits(segments) : segments[l].off = linkeditOff + inserted
  BY <1>2, <1>4 DEF PlaceInv
<1>7. Room /\ {codeSize, dataBase, dataSize, inserted} \subseteq Nat  BY <1>2, <1>4, Rooms
<1>8. AllFit(w)  BY <1>2, <1>4, <1>6, NewFit
<1>9. k \in Nat /\ Len(w) = k /\ k' = k
  <2>1. k' = k  BY <1>3
  <2> QED  BY <2>1, CavesCounted
<1>10. Filled(data')
  <2>1. {dataBase, dataSize, linkeditOff} \subseteq Nat  BY <1>6, <1>7
  <2> QED  BY <1>2, <1>5, <1>6, <1>7, <2>1, RoomsFilled
<1> HIDE DEF w, k
<1>11. Linkedits(input.segments) # {} => SegmentsAre(k)' /\ place' \in 1 .. m /\ Ceiling' <= linkeditVa'
  <2> SUFFICES ASSUME Linkedits(input.segments) # {}
               PROVE  SegmentsAre(k)' /\ place' \in 1 .. m /\ Ceiling' <= linkeditVa'
    OBVIOUS
  <2>1. SegmentsAre(0) /\ place \in 1 .. m /\ Ceiling <= linkeditVa  BY <1>4 DEF SegmentsInv
  <2>2. m \in Nat /\ Len(segments) = m /\ Ceiling \in Nat
    <3>1. m \in Nat /\ Ceiling \in Nat  BY <1>2, InputLength, CeilingIs
    <3> HIDE DEF m
    <3>2. Len(segments) = m + 0  BY <2>1 DEF SegmentsAre, m
    <3> QED  BY <3>1, <3>2
  <2>3. Pushes(segments', segments, w, at) /\ Len(segments') = m + k
    <3> DEFINE S == Segment(NamesNow)
    <3>1. w \in Seq(S) /\ segments \in Seq(S)  BY <1>5, <1>8 DEF AllFit
    <3>2. at \in 0 .. Len(segments) /\ place = at + 1  BY <1>5, <1>6
    <3> HIDE DEF S, at
    <3>3. segments' = SubSeq(segments, 1, at) \o w \o SubSeq(segments, at + 1, Len(segments))  BY <1>1, <3>2
    <3> QED  BY <1>9, <2>2, <3>1, <3>2, <3>3, InsertedAre
  <2>4. \A j \in 1 .. m : Pushed(j, at, k) = Later(j, k) /\ Later(j, 0) = j
    <3> TAKE j \in 1 .. m
    <3>1. j \in Nat /\ place \in Nat  BY <1>6
    <3>2. j <= place - 1 <=> j < place  BY <3>1
    <3> QED  BY <3>1, <3>2 DEF Pushed, Later
  <2> HIDE DEF at
  <2>5. /\ \A j \in 1 .. m : segments'[Later(j, k)] = segments[j]
        /\ \A n \in 1 .. k : segments'[at + n] = w[n]
        /\ \A i \in 1 .. Len(segments') : \/ \E j \in 1 .. m : i = Later(j, k)
                                          \/ \E n \in 1 .. k : i = at + n
    <3> HIDE DEF m
    <3>1. /\ \A j \in 1 .. m : segments'[Pushed(j, at, k)] = segments[j]
          /\ \A n \in 1 .. k : segments'[at + n] = w[n]
          /\ \A i \in 1 .. Len(segments') : \/ \E j \in 1 .. m : i = Pushed(j, at, k)
                                            \/ \E n \in 1 .. k : i = at + n
      <4>1. Len(w) = k /\ Len(segments) = m /\ Pushes(segments', segments, w, at)  BY <1>9, <2>2, <2>3
      <4> QED  BY <4>1, Zenon DEF Pushes
    <3> QED  BY <2>4, <3>1, Zenon
  <2>6. ASSUME NEW j \in 1 .. m, input.segments[j].name # Linkedit
        PROVE  segments'[Later(j, k)] = input.segments[j]
    BY <2>1, <2>4, <2>5, <2>6 DEF SegmentsAre
  <2>7. ASSUME NEW i \in 1 .. Len(segments'),
               ~\E j \in 1 .. m : input.segments[j].name # Linkedit /\ i = Later(j, k)
        PROVE  Ceiling <= segments'[i].va
    <3>1. ASSUME NEW j \in 1 .. m, i = Later(j, k)  PROVE Ceiling <= segments'[i].va
      <4>1. input.segments[j].name = Linkedit  BY <2>7, <3>1
      <4>2. Ceiling <= segments[j].va
        <5>1. j \in 1 .. Len(segments)  BY <2>2
        <5> SUFFICES ASSUME NEW n \in 1 .. m, input.segments[n].name # Linkedit, j = Later(n, 0)  PROVE FALSE
          BY <2>1, <5>1 DEF SegmentsAre
        <5>2. n = j  BY <2>4
        <5> QED  BY <4>1, <5>2
      <4> QED  BY <2>5, <3>1, <4>2
    <3>2. ASSUME NEW n \in 1 .. k, i = at + n  PROVE Ceiling <= segments'[i].va
      <4>1. segments'[i] = w[n]  BY <2>5, <3>2
      <4>2. w[n] \in Segment(NamesNow) /\ linkeditVa <= w[n].va  BY <1>8, <1>9 DEF AllFit, Fits
      <4> DEFINE v == w[n].va
                 c == Ceiling
      <4>3. v \in Nat /\ c \in Nat /\ c <= linkeditVa /\ linkeditVa <= v  BY <2>1, <2>2, <4>2, SegmentIs
      <4> HIDE DEF v, c
      <4>4. c <= v  BY <1>6, <4>3
      <4> QED  BY <4>1, <4>4 DEF v, c
    <3> QED  BY <2>5, <3>1, <3>2
  <2>8. SegmentsAre(k)'
    <3>1. /\ k' = k /\ input' = input /\ Ceiling' = Ceiling /\ Len(segments') = Len(input.segments) + k
          /\ \A j, n : Later(j, n)' = Later(j, n)
      BY <1>3, <1>9, <2>3
    <3>2. \A j \in 1 .. m : Later(j, k)' = Later(j, k)
      <4> TAKE j \in 1 .. m
      <4>1. place' = place  BY <1>3
      <4> QED  BY <3>1, <4>1 DEF Later
    <3> QED  BY <2>6, <2>7, <3>1, <3>2 DEF SegmentsAre
  <2>9. place' \in 1 .. m /\ Ceiling' <= linkeditVa'  BY <1>3, <2>1
  <2> QED  BY <2>8, <2>9
<1>12. ASSUME "fixups" \in DOMAIN tables  PROVE EntriesAre(0)'
  <2>1. EntriesAre(0)  BY <1>4, <1>12 DEF EntriesInv
  <2> DEFINE b == tables["fixups"].off
             y == tables["fixups"].size
             z == input.tables["fixups"].size
             v == Len(data)
             p == linkeditOff + dataBase + dataSize
  <2>2. z \in Nat
    <3>1. "fixups" \in DOMAIN input.tables  BY <2>1 DEF EntriesAre
    <3> QED  BY <1>2, <3>1, InputFixups
  <2>3. y = z + 0  BY <2>1 DEF EntriesAre
  <2>4. b \in Nat /\ p \in Nat /\ p <= b /\ b + y <= v
    <3> DEFINE added == Len(starts) - Len(input.starts)
               N == NamesNow
    <3>1. segments \in Seq(Segment(N)) /\ added \in Nat /\ Sound(segments, data, tables, starts, fixups, added)
      BY <1>2, FileIs
    <3> HIDE DEF N, added
    <3>2. Linkedits(segments) # {}  BY <1>12, <3>1, TableInside
    <3>3. PICK l \in Linkedits(segments) : TRUE  BY <3>2
    <3>4. Placed(segments, data, tables, l, "fixups")  BY <1>2, <1>12, NowTables
    <3>5. b \in Nat /\ b + y <= v /\ segments[l].off <= b  BY <3>4 DEF Placed
    <3>6. segments[l].off = linkeditOff + inserted  BY <1>6
    <3>7. dataBase + dataSize <= inserted /\ dataBase \in Nat /\ dataSize \in Nat /\ inserted \in Nat
      BY <1>7 DEF Room
    <3> HIDE DEF b
    <3>8. linkeditOff + inserted <= b  BY <3>5, <3>6
    <3>9. p \in Nat /\ p <= b  BY <1>6, <3>5, <3>7, <3>8
    <3> QED  BY <3>5, <3>9
  <2>5. ASSUME NEW n \in 0 .. z - 1  PROVE data'[b + (n + 0) + 1] = data[b + (n + 0) + 1]
    <3> DEFINE x == b + (n + 0) + 1
    <3>1. /\ b \in Nat /\ p \in Nat /\ p <= b /\ b + y <= v /\ y = z + 0 /\ z \in Nat
          /\ n \in 0 .. z - 1 /\ v \in Nat
      BY <1>5, <2>2, <2>3, <2>4
    <3> HIDE DEF b, y, z, v, p
    <3>2. x \in 1 .. v /\ p < x  BY <3>1
    <3> HIDE DEF x
    <3>3. \A i \in 1 .. v : p < i => data'[i] = data[i]  BY <1>10 DEF Filled, v, p
    <3>4. data'[x] = data[x]  BY <3>2, <3>3
    <3> QED  BY <3>4 DEF x
  <2> QED  BY <1>3, <2>1, <2>5 DEF EntriesAre
<1>13. SegmentsInv'
  <2>1. SegmentsAre(k)' => SegmentsAre(Added)'
    <3>1. k' = Added'  BY <1>4, <1>9
    <3> QED  BY <3>1 DEF SegmentsAre, Later
  <2> QED  BY <1>3, <1>11, <2>1 DEF SegmentsInv
<1>14. EntriesInv'
  <2>1. EntriesAre(0)' => EntriesAre(Entered)'  BY <1>4 DEF EntriesAre, Later, Low
  <2> QED  BY <1>3, <1>12, <2>1 DEF EntriesInv
<1> QED  BY <1>13, <1>14

\* The entries, with one more in front of the segments that are behind it.
MovedEntries(a, d, n, k, from) ==
  /\ \A j \in 1 .. n : d[Later(j, k)] = IF a[j] < from THEN a[j] ELSE a[j] + k
  /\ \A x \in 1 .. n + k : d[x] = 0 \/ \E j \in 1 .. n : x = Later(j, k)

\* One more entry, of no fixups, moves what the others lead to.
LEMMA StartsFollow ==
  ASSUME NEW a, NEW n \in Nat, NEW k \in Nat, place \in Nat \ {0}, Len(starts) = n + k,
         \A j \in 1 .. n : a[j] \in Nat, NEW from \in Nat, NEW first \in Nat \ {0}, from = (IF k = 0 THEN 0 ELSE first),
         MovedEntries(a, starts, n, k, from), NEW inside, inside = first + k,
         NEW at, at = (IF place - 1 + k < n + k THEN place - 1 + k ELSE n + k)
  PROVE  MovedEntries(a, NewStarts(at, inside), n, k + 1, first)
<1> DEFINE d == starts
           e == NewStarts(at, inside)
<1>a. /\ \A j \in 1 .. n : d[Later(j, k)] = IF a[j] < from THEN a[j] ELSE a[j] + k
      /\ \A x \in 1 .. n + k : d[x] = 0 \/ \E j \in 1 .. n : x = Later(j, k)
  BY DEF MovedEntries
<1>b. e = [x \in 1 .. n + k + 1 |-> IF x = at + 1 THEN 0 ELSE Moved(d[IF x <= at THEN x ELSE x - 1], inside, 1)]
  BY DEF NewStarts
<1> HIDE DEF d, e
<1>1. at \in 0 .. n + k /\ at <= place - 1 + k  OBVIOUS
<1>2. ASSUME NEW j \in 1 .. n, j < place
      PROVE  Later(j, k) = j /\ Later(j, k + 1) = j /\ j <= at
  BY <1>2 DEF Later
<1>3. ASSUME NEW j \in 1 .. n, ~(j < place)
      PROVE  Later(j, k) = j + k /\ Later(j, k + 1) = j + (k + 1) /\ at = place - 1 + k /\ at < j + k
  BY <1>3 DEF Later
<1>4. ASSUME NEW x \in 1 .. n + k + 1
      PROVE  /\ x = at + 1 => e[x] = 0
             /\ x <= at => e[x] = Moved(d[x], inside, 1)
             /\ at + 1 < x => e[x] = Moved(d[x - 1], inside, 1)
  <2>1. at \in Int /\ (x <= at => x # at + 1) /\ (at + 1 < x => x # at + 1 /\ ~(x <= at))  BY <1>1
  <2> QED  BY <1>b, <2>1
<1>5. Moved(0, inside, 1) = 0  BY DEF Moved
<1>6. ASSUME NEW j \in 1 .. n  PROVE e[Later(j, k + 1)] = IF a[j] < first THEN a[j] ELSE a[j] + (k + 1)
  <2>1. e[Later(j, k + 1)] = Moved(d[Later(j, k)], inside, 1)
    <3>1. CASE j < place
      <4>1. j \in 1 .. n + k + 1 /\ j <= at /\ Later(j, k) = j /\ Later(j, k + 1) = j  BY <1>2, <3>1
      <4> QED  BY <1>4, <4>1
    <3>2. CASE ~(j < place)
      <4>1. Later(j, k) = j + k /\ Later(j, k + 1) = j + (k + 1) /\ at < j + k  BY <1>3, <3>2
      <4> DEFINE x == j + (k + 1)
      <4>2. x \in 1 .. n + k + 1 /\ at + 1 < x /\ x - 1 = j + k  BY <1>1, <4>1
      <4> HIDE DEF x
      <4>3. e[x] = Moved(d[j + k], inside, 1)  BY <1>4, <4>2
      <4> QED  BY <4>1, <4>3 DEF x
    <3> QED  BY <3>1, <3>2
  <2> DEFINE v == a[j]
             u == d[Later(j, k)]
  <2>2. v \in Nat /\ u = IF v < from THEN v ELSE v + k  BY <1>a
  <2> HIDE DEF v, u
  <2>3. Moved(u, inside, 1) = IF v < first THEN v ELSE v + (k + 1)
    <3>1. CASE v < first
      <4>1. u = v
        <5>1. CASE k = 0  BY <2>2, <5>1
        <5>2. CASE k # 0  BY <2>2, <3>1, <5>2
        <5> QED  BY <5>1, <5>2
      <4>2. ~(u >= inside)  BY <2>2, <3>1, <4>1
      <4> QED  BY <3>1, <4>1, <4>2 DEF Moved
    <3>2. CASE ~(v < first)
      <4>1. ~(v < from)  BY <2>2, <3>2
      <4>2. u >= inside /\ u # 0 /\ u + 1 = v + (k + 1)  BY <2>2, <3>2, <4>1
      <4> QED  BY <3>2, <4>2 DEF Moved
    <3> QED  BY <3>1, <3>2
  <2> QED  BY <2>1, <2>3 DEF v, u
<1>7. ASSUME NEW x \in 1 .. n + k + 1  PROVE e[x] = 0 \/ \E j \in 1 .. n : x = Later(j, k + 1)
  <2>1. CASE x = at + 1  BY <1>4, <2>1
  <2>2. CASE x <= at
    <3>1. x \in 1 .. n + k  BY <1>1, <2>2
    <3>2. CASE d[x] = 0  BY <1>4, <1>5, <2>2, <3>2
    <3>3. CASE \E j \in 1 .. n : x = Later(j, k)
      <4>1. PICK j \in 1 .. n : x = Later(j, k)  BY <3>3
      <4>2. j < place
        <5> SUFFICES ASSUME ~(j < place)  PROVE FALSE  OBVIOUS
        <5>1. x = j + k /\ at < j + k  BY <1>3, <4>1
        <5> QED  BY <1>1, <2>2, <5>1
      <4> QED  BY <1>2, <4>1, <4>2
    <3> QED  BY <1>a, <3>1, <3>2, <3>3
  <2>3. CASE at + 1 < x
    <3> DEFINE y == x - 1
    <3>1. y \in 1 .. n + k /\ at < y /\ x = y + 1  BY <1>1, <2>3
    <3> HIDE DEF y
    <3>2. e[x] = Moved(d[y], inside, 1)  BY <1>4, <2>3 DEF y
    <3>3. CASE d[y] = 0  BY <1>5, <3>2, <3>3
    <3>4. CASE \E j \in 1 .. n : y = Later(j, k)
      <4>1. PICK j \in 1 .. n : y = Later(j, k)  BY <3>4
      <4>2. ~(j < place)
        <5> SUFFICES ASSUME j < place  PROVE FALSE  OBVIOUS
        <5>1. y = j /\ j <= at  BY <1>2, <4>1
        <5> QED  BY <1>1, <3>1, <5>1
      <4>3. x = j + (k + 1) /\ Later(j, k + 1) = j + (k + 1)  BY <1>3, <3>1, <4>1, <4>2
      <4> QED  BY <4>3
    <3> QED  BY <1>a, <3>1, <3>3, <3>4
  <2> QED  BY <1>1, <2>1, <2>2, <2>3
<1>8. \A x \in 1 .. n + (k + 1) : x \in 1 .. n + k + 1  OBVIOUS
<1> QED  BY <1>6, <1>7, <1>8 DEF MovedEntries, e

\* What an added entry does to the file.
OneEntryMore(l, at, point) ==
  /\ PointIn(l, at, point) /\ Grown(l, NamesNow) /\ OneMore(data', point)
  /\ DOMAIN tables' = DOMAIN tables /\ TableFixed("fixups", point)

\* It goes into the blob, and only __LINKEDIT grows.
LEMMA EntryIsAdded ==
  ASSUME FileInv, input \in Inputs, "fixups" \in DOMAIN tables, NEW index \in Nat, AddFixupStart(index),
         NEW at, at = (IF index < Len(starts) THEN index ELSE Len(starts)),
         NEW point, point = tables["fixups"].off + (fixups.starts + 1 + at)
  PROVE  \E l : OneEntryMore(l, at, point)
<1>1. /\ data' = Insert(point, <<Zero>>)
      /\ tables' = [t \in DOMAIN tables |->
                      [off |-> Moved(tables[t].off, point, 1),
                       size |-> IF t = "fixups" THEN tables[t].size + 1 ELSE tables[t].size]]
  BY DEF AddFixupStart
<1>2. PICK l : PointIn(l, at, point)
  <2>1. \E l : PointIn(l, IF index < Len(starts) THEN index ELSE Len(starts),
                      tables["fixups"].off + (fixups.starts + 1 + (IF index < Len(starts) THEN index ELSE Len(starts))))
    BY PointInBlob
  <2> QED  BY <2>1
<1>3. Grown(l, NamesNow)  BY <1>2, LinkeditGrows
<1>4. OneMore(data', point)
  <2>1. data \in Seq(ToSet(data)) /\ Len(data) \in Nat  BY FileIs
  <2>2. point \in Nat /\ point < Len(data)  BY <1>2 DEF PointIn
  <2>3. point \in 0 .. Len(data)  BY <2>1, <2>2
  <2> QED  BY <1>1, <2>1, <2>3, OneInserted
<1>5. DOMAIN tables' = DOMAIN tables  BY <1>1
<1>6. TableFixed("fixups", point)
  <2> DEFINE t == "fixups"
  <2>1. tables'[t] = [off |-> Moved(tables[t].off, point, 1),
                      size |-> IF t = "fixups" THEN tables[t].size + 1 ELSE tables[t].size]
    BY <1>1
  <2> QED  BY <1>2, <1>3, <1>4, <2>1, TableIsFixed
<1> QED  BY <1>2, <1>3, <1>4, <1>5, <1>6 DEF OneEntryMore

\* The entries stay what they are.
LEMMA EntriesFollow ==
  ASSUME FileInv, input \in Inputs, UNCHANGED <<input, place>>, "fixups" \in DOMAIN tables, place \in Nat \ {0},
         NEW k \in Nat, EntriesAre(k), NEW index, index = place - 1 + k, AddFixupStart(index)
  PROVE  EntriesAre(k + 1)'
<1> DEFINE n      == Len(input.starts)
           at     == IF index < Len(starts) THEN index ELSE Len(starts)
           inside == fixups.starts + 1 + at
           b      == tables["fixups"].off
           y      == tables["fixups"].size
           point  == b + inside
           z      == input.tables["fixups"].size
           v      == Len(data)
<1>1. /\ fixups' = [fixups EXCEPT !.imports = Moved(@, inside, 1), !.symbols = Moved(@, inside, 1)]
      /\ starts' = NewStarts(at, inside)
  BY DEF AddFixupStart
<1>2. "fixups" \in DOMAIN input.tables  BY DEF EntriesAre
<1>3. /\ EntryPoint \in Nat \ {0} /\ z \in Nat /\ input.fixups.imports \in Nat /\ input.fixups.symbols \in Nat
      /\ EntryPoint <= input.fixups.imports /\ EntryPoint <= input.fixups.symbols /\ n \in Nat
      /\ \A j \in 1 .. n : input.starts[j] \in Nat
  BY <1>2, InputFixups, PointIs
<1>4. /\ input' = input /\ place' = place /\ EntryPoint' = EntryPoint /\ index \in Nat
      /\ Low(k) = (IF k = 0 THEN 0 ELSE EntryPoint) /\ Low(k + 1)' = EntryPoint
  <2>1. input' = input /\ place' = place /\ index \in Nat  OBVIOUS
  <2>2. EntryPoint' = EntryPoint  BY <2>1 DEF EntryPoint
  <2>3. k + 1 # 0  OBVIOUS
  <2> QED  BY <2>1, <2>2, <2>3 DEF Low
<1>5. PICK l : OneEntryMore(l, at, point)
  <2>1. at = (IF index < Len(starts) THEN index ELSE Len(starts)) /\ point = b + (fixups.starts + 1 + at)  OBVIOUS
  <2> HIDE DEF at, point
  <2> QED  BY <1>4, <2>1, EntryIsAdded
<1>6. /\ b \in Nat /\ y \in Nat /\ b + y <= v /\ v \in Nat /\ fixups.starts \in Nat
      /\ tables'["fixups"].off = b /\ tables'["fixups"].size = y + 1 /\ "fixups" \in DOMAIN tables'
      /\ starts \in Seq(Nat)
  <2>1. PointIn(l, at, point) /\ TableFixed("fixups", point) /\ DOMAIN tables' = DOMAIN tables  BY <1>5 DEF OneEntryMore
  <2>2. {b, y, fixups.starts} \subseteq Nat  BY <2>1 DEF PointIn
  <2>3. Grows("fixups", point)  BY <2>1 DEF TableFixed
  <2>4. tables'["fixups"].off = b /\ tables'["fixups"].size = y + 1  BY <2>3 DEF Grows
  <2>5. v \in Nat /\ starts \in Seq(Nat)  BY FileIs
  <2>6. b + y <= v
    <3>1. l \in Linkedits(segments)  BY <2>1 DEF PointIn
    <3>2. Placed(segments, data, tables, l, "fixups")  BY <3>1, NowTables
    <3> QED  BY <3>2 DEF Placed
  <2> QED  BY <2>1, <2>2, <2>4, <2>5, <2>6
<1>7. /\ Len(starts) = n + k /\ y = z + k /\ fixups.starts = input.fixups.starts
      /\ fixups.imports = input.fixups.imports + k /\ fixups.symbols = input.fixups.symbols + k
      /\ \A j \in 1 .. n : starts[Later(j, k)] = IF input.starts[j] < Low(k) THEN input.starts[j] ELSE input.starts[j] + k
      /\ \A x \in 1 .. n + k : starts[x] = 0 \/ \E j \in 1 .. n : x = Later(j, k)
      /\ \A m \in Low(k) .. z - 1 : data[b + (m + k) + 1] = input.data[input.tables["fixups"].off + m + 1]
  <2>1. Len(starts) = n + k  BY DEF EntriesAre
  <2> QED  BY <2>1 DEF EntriesAre
<1>8. at = (IF place - 1 + k < n + k THEN place - 1 + k ELSE n + k) /\ at \in 0 .. n + k
  <2>1. Len(starts) = n + k  BY <1>7
  <2> HIDE DEF n
  <2>2. at = (IF place - 1 + k < n + k THEN place - 1 + k ELSE n + k)  BY <2>1
  <2> QED  BY <1>3, <2>2
<1>9. inside \in Nat /\ inside = EntryPoint + k
  <2> DEFINE w == fixups.starts
             c == EntryPoint
  <2>1. c = w + 1 + (IF place - 1 < n THEN place - 1 ELSE n)  BY <1>7 DEF EntryPoint
  <2>2. w \in Nat /\ n \in Nat /\ k \in Nat /\ place \in Nat  BY <1>3, <1>6
  <2>3. at = (IF place - 1 + k < n + k THEN place - 1 + k ELSE n + k) /\ at \in Nat  BY <1>3, <1>8
  <2> HIDE DEF n, at, w, c
  <2>4. at = (IF place - 1 < n THEN place - 1 ELSE n) + k  BY <2>2, <2>3
  <2>5. w + 1 + at \in Nat /\ w + 1 + at = c + k  BY <2>1, <2>2, <2>3, <2>4
  <2> QED  BY <2>5 DEF w, c
<1>11. Len(starts') = n + (k + 1)
  <2> HIDE DEF at, inside, n
  <2>1. at \in 0 .. Len(starts)  BY <1>7, <1>8
  <2>2. Len(starts') = Len(starts) + 1  BY <1>1, <1>6, <1>9, <2>1, NewStartsAre
  <2> QED  BY <1>3, <1>7, <2>2
<1>12. MovedEntries(input.starts, starts', n, k + 1, EntryPoint)
  <2> DEFINE a == input.starts
             first == EntryPoint
             from == Low(k)
  <2>1. \A j \in 1 .. n : a[j] \in Nat  BY <1>3
  <2>2. MovedEntries(a, starts, n, k, from)  BY <1>7 DEF MovedEntries
  <2>3. /\ n \in Nat /\ first \in Nat \ {0} /\ inside = first + k /\ Len(starts) = n + k
        /\ from \in Nat /\ from = (IF k = 0 THEN 0 ELSE first)
        /\ at = (IF place - 1 + k < n + k THEN place - 1 + k ELSE n + k)
    BY <1>3, <1>4, <1>7, <1>8, <1>9
  <2> HIDE DEF n, at, inside, a, first, from
  <2>4. MovedEntries(a, NewStarts(at, inside), n, k + 1, first)  BY <2>1, <2>2, <2>3, StartsFollow
  <2> QED  BY <1>1, <2>4 DEF a, first
<1>13. /\ fixups'.starts = input.fixups.starts
       /\ fixups'.imports = input.fixups.imports + (k + 1) /\ fixups'.symbols = input.fixups.symbols + (k + 1)
  <2>1. fixups \in [starts: Nat, imports: Nat, symbols: Nat]
    <3>1. Sound(segments, data, tables, starts, fixups, Len(starts) - Len(input.starts))  BY FileIs
    <3> QED  BY <3>1 DEF Sound, StartsHeld
  <2> DEFINE i == fixups.imports
             s == fixups.symbols
             r == input.fixups.imports
             q == input.fixups.symbols
             c == EntryPoint
  <2>2. /\ r \in Nat /\ q \in Nat /\ c \in Nat /\ c <= r /\ c <= q /\ i = r + k /\ s = q + k
        /\ inside \in Nat /\ inside <= c + k /\ 0 < inside
    <3>1. 0 < inside
      <4> DEFINE w == fixups.starts
      <4>1. w \in Nat /\ at \in 0 .. n + k /\ n \in Nat  BY <1>3, <1>6, <1>8
      <4> HIDE DEF n, at, w
      <4>2. 0 < w + 1 + at  BY <4>1
      <4> QED  BY <4>2 DEF w
    <3> HIDE DEF inside
    <3> QED  BY <1>3, <1>7, <1>9, <3>1
  <2> HIDE DEF inside, i, s, r, q, c
  <2>3. Moved(i, inside, 1) = r + (k + 1) /\ Moved(s, inside, 1) = q + (k + 1)
    <3>1. i >= inside /\ i # 0 /\ s >= inside /\ s # 0 /\ i + 1 = r + (k + 1) /\ s + 1 = q + (k + 1)  BY <2>2
    <3> QED  BY <3>1 DEF Moved
  <2>4. /\ fixups'.starts = fixups.starts /\ fixups'.imports = Moved(i, inside, 1)
        /\ fixups'.symbols = Moved(s, inside, 1)
    BY <1>1, <2>1 DEF i, s
  <2> QED  BY <1>7, <2>3, <2>4 DEF r, q
<1>14. ASSUME NEW m \in EntryPoint .. z - 1
       PROVE  data'[b + (m + (k + 1)) + 1] = input.data[input.tables["fixups"].off + m + 1]
  <2> DEFINE x == b + (m + k) + 1
             c == EntryPoint
  <2>1. c \in Nat /\ m \in c .. z - 1  BY <1>3
  <2>2. z \in Nat /\ y = z + k /\ b \in Nat /\ b + y <= v /\ v \in Nat /\ inside \in Nat /\ inside <= c + k
    BY <1>3, <1>6, <1>7, <1>9
  <2>3. OneMore(data', point)  BY <1>5 DEF OneEntryMore
  <2>4. data[x] = input.data[input.tables["fixups"].off + m + 1]
    <3> HIDE DEF z
    <3>1. m \in Low(k) .. z - 1  BY <1>3, <1>4, <2>1
    <3> QED  BY <1>7, <3>1
  <2>5. x \in point + 1 .. v /\ x + 1 = b + (m + (k + 1)) + 1
    <3> HIDE DEF c, z, y, b, v, inside
    <3> QED  BY <2>1, <2>2
  <2> HIDE DEF x
  <2>6. data'[x + 1] = data[x]  BY <2>3, <2>5 DEF OneMore
  <2> QED  BY <2>4, <2>5, <2>6
<1>15. tables'["fixups"].size = z + (k + 1)
  <2> HIDE DEF y, z
  <2> QED  BY <1>3, <1>6, <1>7
<1>16. \A j : Later(j, k + 1)' = Later(j, k + 1)  BY <1>4 DEF Later
<1> HIDE DEF at, inside
<1>17. /\ \A j \in 1 .. n : starts'[Later(j, k + 1)'] = IF input.starts[j] < EntryPoint THEN input.starts[j] ELSE input.starts[j] + (k + 1)
       /\ \A x \in 1 .. n + (k + 1) : starts'[x] = 0 \/ \E j \in 1 .. n : x = Later(j, k + 1)'
  BY <1>12, <1>16 DEF MovedEntries
<1>18. /\ "fixups" \in DOMAIN input'.tables /\ input' = input /\ Len(input'.starts) = n /\ Low(k + 1)' = EntryPoint
       /\ tables'["fixups"].off = b /\ input'.tables["fixups"].size = z
  BY <1>2, <1>4, <1>6
<1>19. /\ "fixups" \in DOMAIN input'.tables
       /\ Len(starts') = Len(input'.starts) + (k + 1)
       /\ fixups'.starts = input'.fixups.starts
       /\ fixups'.imports = input'.fixups.imports + (k + 1) /\ fixups'.symbols = input'.fixups.symbols + (k + 1)
       /\ tables'["fixups"].size = input'.tables["fixups"].size + (k + 1)
  BY <1>11, <1>13, <1>15, <1>18
<1>20. \A j \in 1 .. Len(input'.starts) :
         starts'[Later(j, k + 1)'] = IF input'.starts[j] < Low(k + 1)' THEN input'.starts[j] ELSE input'.starts[j] + (k + 1)
  <2> SUFFICES ASSUME NEW j \in 1 .. n
               PROVE  starts'[Later(j, k + 1)'] = IF input.starts[j] < Low(k + 1)' THEN input.starts[j]
                                                  ELSE input.starts[j] + (k + 1)
    BY <1>18
  <2> QED  BY <1>17, <1>18
<1>21. \A x \in 1 .. Len(starts') : starts'[x] = 0 \/ \E j \in 1 .. Len(input'.starts) : x = Later(j, k + 1)'
  BY <1>11, <1>17, <1>18
<1>22. \A m \in Low(k + 1)' .. input'.tables["fixups"].size - 1 :
         data'[tables'["fixups"].off + (m + (k + 1)) + 1] = input'.data[input'.tables["fixups"].off + m + 1]
  <2> SUFFICES ASSUME NEW m \in EntryPoint .. z - 1
               PROVE  data'[b + (m + (k + 1)) + 1] = input.data[input.tables["fixups"].off + m + 1]
    BY <1>18
  <2> QED  BY <1>14
<1> HIDE DEF n, b, z
<1> QED  BY ONLY <1>19, <1>20, <1>21, <1>22 DEF EntriesAre

\* Only __LINKEDIT grows.
LEMMA SegmentsFixed ==
  ASSUME IInv, FileInv', SegmentsInv, Fixing, "fixups" \in DOMAIN tables, NEW index \in Nat, AddFixupStart(index)
  PROVE  SegmentsInv'
<1>1. /\ input \in Inputs /\ FileInv /\ input' = input /\ place' = place /\ linkeditVa' = linkeditVa
      /\ Ceiling' = Ceiling /\ pc \in Written /\ pc' \in Written /\ Groups' = Groups
  BY AskedKept DEF IInv, NamesInv, Fixing, target, Ceiling, Groups
<1>2. Added = Groups /\ Added' = Groups /\ pc \in Shifted /\ Groups \in Nat
  <2>1. pc \in Shifted  BY <1>1 DEF Written, Shifted
  <2> QED  BY <1>1, <2>1, CavesCounted DEF Added
<1> SUFFICES ASSUME Linkedits(input.segments) # {}  PROVE SegmentsInv'
  BY <1>1 DEF SegmentsInv
<1> DEFINE k == Groups
           at == IF index < Len(starts) THEN index ELSE Len(starts)
           point == tables["fixups"].off + (fixups.starts + 1 + at)
           N == NamesNow
<1>3. SegmentsAre(k) /\ place \in 1 .. Len(input.segments) /\ Ceiling <= linkeditVa  BY <1>2 DEF SegmentsInv
<1>4. PICK l : PointIn(l, at, point) /\ Grown(l, N)
  <2>1. at = (IF index < Len(starts) THEN index ELSE Len(starts)) /\ point = tables["fixups"].off + (fixups.starts + 1 + at)
    OBVIOUS
  <2> HIDE DEF at, point
  <2>2. PICK l : OneEntryMore(l, at, point)  BY <1>1, <2>1, EntryIsAdded
  <2> QED  BY <2>2 DEF OneEntryMore
<1>5. l \in Linkedits(segments)  BY <1>4 DEF PointIn
<1>6. PICK h \in Segment(N) : h.va = segments[l].va /\ Replaced(segments', segments, N, l, h)
  BY <1>4 DEF Grown
<1>7. /\ DOMAIN segments = 1 .. Len(segments) /\ Len(segments) \in Nat
      /\ \A j \in 1 .. Len(segments) : segments[j] \in Segment(N)
  BY <1>1, FileIs
<1> HIDE DEF N, at, point
<1>8. /\ DOMAIN segments' = DOMAIN segments /\ segments'[l] = h
      /\ \A j \in 1 .. Len(segments) : j # l => segments'[j] = segments[j]
  BY <1>6, <1>7 DEF Replaced
<1>9. \A j \in DOMAIN segments : segments[j].va <= segments'[j].va /\ (segments[j].name # Linkedit => segments'[j] = segments[j])
  <2> TAKE j \in DOMAIN segments
  <2>1. segments[j].va \in Nat /\ j \in 1 .. Len(segments)  BY <1>7, SegmentIs
  <2>2. CASE j = l
    <3>1. segments[j].name = Linkedit  BY <1>5, <2>2 DEF Linkedits
    <3>2. segments'[j].va = segments[j].va  BY <1>6, <1>8, <2>2
    <3> QED  BY <2>1, <3>1, <3>2
  <2>3. CASE j # l
    <3>1. segments'[j] = segments[j]  BY <1>8, <2>1, <2>3
    <3> QED  BY <2>1, <3>1
  <2> QED  BY <2>2, <2>3
<1>10. k \in Nat /\ k' = k  BY <1>1, <1>2
<1>11. SegmentsAre(k)'
  <2>1. \E n \in Nat : n = k  BY <1>10
  <2>2. PICK n \in Nat : n = k  BY <2>1
  <2> HIDE DEF k
  <2>3. SegmentsAre(n)  BY <1>3, <2>2
  <2>4. \A j \in 1 .. Len(input.segments) : Later(j, n)' = Later(j, n) /\ Later(j, n) \in DOMAIN segments
    <3> TAKE j \in 1 .. Len(input.segments)
    <3>1. Len(segments) = Len(input.segments) + n /\ Len(input.segments) \in Nat
      BY <1>1, <2>3, InputLength DEF SegmentsAre
    <3>2. Later(j, n) \in 1 .. Len(segments)  BY <3>1 DEF Later
    <3>3. Later(j, n)' = Later(j, n)  BY <1>1 DEF Later
    <3> QED  BY <1>7, <3>2, <3>3
  <2>5. SegmentsAre(n)'  BY <1>1, <1>8, <1>9, <2>3, <2>4, SegmentsStay
  <2> QED  BY <1>10, <2>2, <2>5 DEF SegmentsAre, Later
<1>12. SegmentsAre(k)' => SegmentsAre(Added)'
  <2>1. k' = Added'  BY <1>2, <1>10
  <2> QED  BY <2>1 DEF SegmentsAre, Later
<1> QED  BY <1>1, <1>3, <1>11, <1>12 DEF SegmentsInv

\* An entry is added in front of the segments behind the cave.
LEMMA FixupsFixed ==
  ASSUME IInv, FileInv', SegmentsInv, EntriesInv, FixCode \/ FixData  PROVE SegmentsInv' /\ EntriesInv'
<1>1. /\ pc \in {"code fixups", "data fixups"} /\ pc' \in {"data fixups", "done"}
      /\ pc = "code fixups" <=> pc' = "data fixups"
      /\ UNCHANGED <<asked, commandsEnd, layout, target>>
  BY DEF FixCode, FixData
<1>2. /\ Fixing /\ pc \in Shifted /\ pc' \in Shifted /\ input \in Inputs /\ FileInv /\ PlaceInv
      /\ input' = input /\ place' = place /\ linkeditVa' = linkeditVa /\ Groups' = Groups /\ Code' = Code /\ Data' = Data
  BY <1>1, AskedKept DEF IInv, NamesInv, Fixing, Written, Shifted, target, Groups
<1>3. Added' = Added  BY <1>1, <1>2 DEF Added, Written
<1>4. place \in Nat \ {0}
  <2>1. place \in 1 .. Len(segments) + 1 /\ Len(segments) \in Nat  BY <1>2, FileIs DEF PlaceInv
  <2> QED  BY <2>1
<1>5. ASSUME UNCHANGED <<data, segments, tables, starts, fixups>>, Entered' = Entered \/ "fixups" \notin DOMAIN tables
      PROVE  SegmentsInv' /\ EntriesInv'
  <2>1. CASE Entered' = Entered  BY <1>2, <1>3, <1>5, <2>1, FixupsIdle
  <2>2. CASE "fixups" \notin DOMAIN tables
    <3>1. EntriesInv'  BY <1>5, <2>2 DEF EntriesInv
    <3>2. SegmentsInv'
      <4>1. Ceiling' = Ceiling /\ segments' = segments  BY <1>2, <1>5 DEF Ceiling
      <4>2. SegmentsAre(Added)' <=> SegmentsAre(Added)  BY <1>2, <1>3, <4>1 DEF SegmentsAre, Later
      <4> QED  BY <1>2, <4>1, <4>2 DEF SegmentsInv
    <3> QED  BY <3>1, <3>2
  <2> QED  BY <1>5, <2>1, <2>2
<1>6. ASSUME NEW k \in Nat, Entered = k, Entered' = k + 1, NEW index, index = place - 1 + k, AddFixupStart(index)
      PROVE  SegmentsInv' /\ EntriesInv'
  <2>1. CASE "fixups" \notin DOMAIN tables  BY <1>5, <1>6, <2>1 DEF AddFixupStart
  <2>2. CASE "fixups" \in DOMAIN tables
    <3>1. index \in Nat  BY <1>4, <1>6
    <3>2. SegmentsInv'  BY <1>2, <1>6, <2>2, <3>1, SegmentsFixed
    <3>3. EntriesAre(k)  BY <1>6, <2>2 DEF EntriesInv
    <3>4. EntriesAre(k + 1)'  BY <1>2, <1>4, <1>6, <2>2, <3>3, EntriesFollow
    <3>5. EntriesAre(k + 1)' => EntriesAre(Entered)'  BY <1>6 DEF EntriesAre, Later, Low
    <3> QED  BY <3>2, <3>4, <3>5 DEF EntriesInv
  <2> QED  BY <2>1, <2>2
<1>7. CASE FixCode
  <2>1. pc = "code fixups" /\ pc' = "data fixups" /\ Entered = 0 /\ Entered' = IF Code = {} THEN 0 ELSE 1
    <3>1. pc = "code fixups" /\ pc' = "data fixups"  BY <1>7 DEF FixCode
    <3> QED  BY <1>2, <3>1 DEF Entered
  <2>2. CASE Code = {}
    <3>1. UNCHANGED <<data, segments, tables, starts, fixups>>  BY <1>7, <2>2 DEF FixCode
    <3> QED  BY <1>5, <2>1, <2>2, <3>1
  <2>3. CASE Code # {}
    <3>1. AddFixupStart(place - 1)  BY <1>7, <2>3 DEF FixCode
    <3>2. Entered' = 1  BY <2>1, <2>3, Zenon
    <3>3. place - 1 = place - 1 + 0 /\ 0 \in Nat /\ 1 = 0 + 1  BY <1>4
    <3>4. Entered' = 0 + 1  BY <3>2, <3>3, Zenon
    <3> QED  BY <1>6, <2>1, <3>1, <3>3, <3>4
  <2> QED  BY <2>2, <2>3
<1>8. CASE FixData
  <2>1. pc = "data fixups" /\ pc' = "done" /\ Entered = (IF Code = {} THEN 0 ELSE 1) /\ Entered' = Groups
    <3>1. pc = "data fixups" /\ pc' = "done"  BY <1>8 DEF FixData
    <3> QED  BY <1>2, <3>1 DEF Entered
  <2>2. CASE Data = {}
    <3>1. UNCHANGED <<data, segments, tables, starts, fixups>>  BY <1>8, <2>2 DEF FixData
    <3>2. Entered' = Entered
      <4>1. Groups = IF Code = {} THEN 0 ELSE 1
        <5>1. Groups = (IF Code = {} THEN 0 ELSE 1) + 0  BY <2>2 DEF Groups
        <5> QED  BY <5>1
      <4> QED  BY <2>1, <4>1, Zenon
    <3> QED  BY <1>5, <3>1, <3>2
  <2>3. CASE Data # {} /\ Code = {}
    <3>1. AddFixupStart(place - 1)  BY <1>8, <2>3 DEF FixData
    <3>2. Groups = 0 + 1  BY <2>3 DEF Groups
    <3>3. Entered = 0 /\ Entered' = 0 + 1  BY <2>1, <2>3, <3>2, Zenon
    <3>4. place - 1 = place - 1 + 0 /\ 0 \in Nat  BY <1>4
    <3> QED  BY <1>6, <3>1, <3>3, <3>4
  <2>4. CASE Data # {} /\ Code # {}
    <3>1. AddFixupStart(place)  BY <1>8, <2>4 DEF FixData
    <3>2. Groups = 1 + 1  BY <2>4 DEF Groups
    <3>3. Entered = 1 /\ Entered' = 1 + 1  BY <2>1, <2>4, <3>2, Zenon
    <3>4. place = place - 1 + 1 /\ 1 \in Nat  BY <1>4
    <3> QED  BY <1>6, <3>1, <3>3, <3>4
  <2> QED  BY <2>2, <2>3, <2>4
<1> QED  BY <1>7, <1>8

\* Nothing is written to the file yet, or it has what the fixups need.
Early == pc \in {"name", "named", "signature"}
FixupsInv == SegmentsInv /\ EntriesInv

\* From when the file is written to, every step keeps both.
LEMMA FixupsNext ==
  ASSUME IInv, IInv', FixupsInv, ~Early', [Next]_vars  PROVE FixupsInv'
<1>1. SegmentsInv /\ EntriesInv /\ FileInv'  BY DEF FixupsInv, IInv
<1>2. ASSUME UNCHANGED <<input, segments, data, tables, starts, fixups, place, linkeditVa>>,
             (pc' = pc /\ plans' = plans) \/ {pc, pc'} \cap Shifted = {}
      PROVE  FixupsInv'
  <2>1. Added' = Added /\ Entered' = Entered /\ (pc' \in Shifted => pc \in Shifted)
    <3>1. CASE pc' = pc /\ plans' = plans
      <4>1. Plans' = Plans  BY <3>1 DEF Plans
      <4>2. Code' = Code /\ Data' = Data  BY <3>1, <4>1 DEF Code, Data
      <4>3. Groups' = Groups  BY <4>2 DEF Groups
      <4> QED  BY <3>1, <4>2, <4>3 DEF Added, Entered
    <3>2. CASE {pc, pc'} \cap Shifted = {}
      <4>1. pc \notin Shifted /\ pc' \notin Shifted  BY <3>2
      <4>2. Added = 0 /\ Added' = 0 /\ Entered = 0 /\ Entered' = 0  BY <4>1 DEF Added, Entered, Written, Shifted
      <4> QED  BY <4>1, <4>2
    <3> QED  BY <1>2, <3>1, <3>2
  <2> QED  BY <1>1, <1>2, <2>1, FixupsIdle DEF FixupsInv
<1>3. CASE Naming
  <2>1. pc = "name" /\ pc' \in {"name", "named", "failed"} /\ UNCHANGED <<input, writer>>
    <3>1. CASE NamePlugin  BY <1>3, <3>1 DEF Naming, NamePlugin
    <3>2. CASE CheckFile  BY <1>3, <3>2 DEF Naming, CheckFile
    <3> QED  BY <1>3, <3>1, <3>2 DEF Naming
  <2>2. {pc, pc'} \cap Shifted = {}  BY <2>1 DEF Shifted
  <2> QED  BY <1>2, <2>1, <2>2 DEF writer
<1>4. CASE MakePlans
  <2>1. pc' = "signature"  BY <1>4 DEF MakePlans
  <2> QED  BY <2>1 DEF Early
<1>5. CASE RemoveSignature
  <2>1. SegmentsInv' /\ EntriesInv'  BY <1>1, <1>5, FixupsWithoutSignature
  <2> QED  BY <2>1 DEF FixupsInv
<1>6. CASE HeaderRoom
  <2>1. pc = "room" /\ pc' \in {"failed", "place"}
        /\ UNCHANGED <<asked, data, segments, tables, starts, fixups, commandsEnd, layout, target>>
    BY <1>6 DEF HeaderRoom
  <2>2. {pc, pc'} \cap Shifted = {}  BY <2>1 DEF Shifted
  <2> QED  BY <1>2, <2>1, <2>2 DEF asked, target
<1>7. CASE PlaceGroups
  <2>1. pc = "place" /\ pc' = "shift"
        /\ UNCHANGED <<asked, data, segments, tables, starts, fixups, commandsEnd, target, error>>
    BY <1>7 DEF PlaceGroups
  <2>2. {pc, pc'} \cap Shifted = {}  BY <2>1 DEF Shifted
  <2> QED  BY <1>2, <2>1, <2>2 DEF asked, target
<1>8. CASE Shift
  <2>1. SegmentsInv' /\ EntriesInv'  BY <1>1, <1>8, FixupsShift
  <2> QED  BY <2>1 DEF FixupsInv
<1>9. CASE WriteCaves
  <2>1. SegmentsInv' /\ EntriesInv'  BY <1>1, <1>9, FixupsCaves
  <2> QED  BY <2>1 DEF FixupsInv
<1>10. CASE FixCode \/ FixData
  <2>1. SegmentsInv' /\ EntriesInv'  BY <1>1, <1>10, FixupsFixed
  <2> QED  BY <2>1 DEF FixupsInv
<1>11. CASE UNCHANGED vars
  <2>1. UNCHANGED <<input, pc, plans, segments, data, tables, starts, fixups, place, linkeditVa>>
    BY <1>11 DEF vars, writer
  <2> QED  BY <1>2, <2>1
<1> QED  BY <1>3, <1>4, <1>5, <1>6, <1>7, <1>8, <1>9, <1>10, <1>11 DEF Next

\* A segment whose entry is not below where update_macho_chained_fixups inserts
\* the entries of the caves keeps its fixups, each with its address, its target
\* and the import it is bound to, and the caves have none: for the loader, which
\* counts the entries from the starts, and for the parser, which does so from the
\* blob.
THEOREM FixupsStay == Spec => []FixupsFollow
<1>1. IInv /\ Early => FixupsInv  BY FixupsEarly DEF Early, FixupsInv
<1>2. IInv /\ IInv' /\ FixupsInv /\ ~Early' /\ [Next]_vars => FixupsInv'  BY FixupsNext
<1>3. Init => Early  BY DEF Init, NamesInit, Early
<1>4. IInv /\ FixupsInv => FixupsFollow  BY FixupsAre DEF FixupsInv
<1> QED  BY <1>1, <1>2, <1>3, <1>4, Invariant, PTL DEF Spec
=============================================================================
