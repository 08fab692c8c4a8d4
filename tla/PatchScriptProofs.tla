-------------------------- MODULE PatchScriptProofs --------------------------
(***************************************************************************)
(* A script becomes the plugins it asks for, and the temporary directory   *)
(* does not outlive the process: for every script, directory and lists.    *)
(***************************************************************************)
EXTENDS PatchScript, OrderedProofs, FunctionTheorems

-----------------------------------------------------------------------------
(* What has been read when the reader is at line l.                         *)
HeadersBefore(lines, l) == {n \in 1 .. l - 1 : lines[n].kind = "hook"}

\* The line l would belong to the section of the header h.
Follows(lines, h, l) == \A m \in h + 1 .. l - 1 : lines[m].kind = "assignment"

GivenBefore(lines, h, keys, l) ==
  {n \in h + 1 .. l - 1 : /\ lines[n].kind = "assignment" /\ lines[n].key \in keys
                          /\ \A m \in h + 1 .. n : lines[m].kind = "assignment"}
Final(lines, given, default) ==
  IF given = {} THEN default ELSE lines[CHOOSE n \in given : \A m \in given : m <= n]
LastBefore(lines, h, keys, default, l) == Final(lines, GivenBefore(lines, h, keys, l), default)

Kinds == {"replace", "detour"}
Fields == {"kind", "function", "signature", "class", "selector", "source", "handler", "registers"}

\* The keys that write to a field, and a line that would leave it as it is.
KeysOf(f) == CASE f = "kind" -> Kinds [] f = "source" -> Kinds \cup {"source"} [] OTHER -> {f}
Default(f) == IF f = "kind" THEN [key |-> "replace"] ELSE [value |-> NoHook[f]]
Of(f, x) == IF f = "kind" THEN x.key ELSE x.value

\* A hook has what the lines below its header say, in each of its fields.
Filled(lines, hook, h, l) ==
  \A f \in Fields : hook[f] = Of(f, LastBefore(lines, h, KeysOf(f), Default(f), l))

IsHook(hook) == DOMAIN hook = DOMAIN NoHook /\ hook.kind \in Kinds

HooksRead(lines, hooks, l) ==
  /\ Len(hooks) = Cardinality(HeadersBefore(lines, l))
  /\ hooks = [n \in 1 .. Len(hooks) |-> hooks[n]]
  /\ \A n \in 1 .. Len(hooks) : /\ IsHook(hooks[n])
                                /\ Filled(lines, hooks[n], Ascending(HeadersBefore(lines, l))[n], l)

\* The hook that is written to is the last one, and only in its section.
InSection(lines, hooks, in, l) ==
  IF in = "hook"
  THEN Len(hooks) > 0 /\ Follows(lines, Ascending(HeadersBefore(lines, l))[Len(hooks)], l)
  ELSE \A h \in HeadersBefore(lines, l) : ~Follows(lines, h, l)

\* EachHookIsRun and ListsKept, of what is run of an input.
Asked(in, run) ==
  in.script =>
    LET end == Len(in.lines) + 1 IN
    /\ Len(run) = Cardinality(HeadersBefore(in.lines, end))
    /\ \A n \in 1 .. Len(run) : \E i \in DOMAIN run :
         /\ run[i].name = ScriptName(n)
         /\ \E hook : /\ Filled(in.lines, hook, Ascending(HeadersBefore(in.lines, end))[n], end)
                      /\ Targeted(hook) /\ run[i].declares = Declaration(hook)
Kept(in, run) ==
  \A i \in DOMAIN run :
    /\ [name |-> run[i].name, extension |-> FALSE] \notin in.black
    /\ in.white # {} => [name |-> run[i].name, extension |-> FALSE] \in in.white
    /\ \A j \in DOMAIN run : run[i].name = run[j].name => i = j

HookFiles(n) == {HookFile(i) : i \in 1 .. n}

IInv ==
  /\ input \in Inputs
  /\ TypeOK
  /\ DOMAIN script = {"binary", "output", "plugins", "hooks"}
  /\ HooksRead(input.lines, script.hooks, line)
  /\ pc = "read" => InSection(input.lines, script.hooks, section, line)
  /\ pc \in {"read", "generate", "cleanup"} => input.script
  /\ pc \in {"generate", "select", "run"} /\ input.script =>
       /\ line = Len(input.lines) + 1
       /\ \A n \in 1 .. Len(script.hooks) : Targeted(script.hooks[n])
  /\ pc \in {"read", "stopped"} \/ ~input.script => generated = <<>>
  /\ pc = "generate" => \E n \in 0 .. Len(script.hooks) : generated = <<HookFiles(n)>>
  /\ pc = "select" /\ input.script => generated = <<HookFiles(Len(script.hooks))>>
  /\ pc \in {"read", "generate", "select"} => output = "old" /\ selected = <<>>
  /\ selected = <<>> => output = "old" /\ result # "done" /\ pc # "run"
  /\ selected # <<>> => Asked(input, selected) /\ Kept(input, selected)

-----------------------------------------------------------------------------
(* Lines.                                                                   *)
\* The headers before a line are a finite set of numbers, no more than the lines.
LEMMA HeadersAreFinite ==
  ASSUME NEW lines, NEW l \in Nat \ {0}
  PROVE  /\ IsFiniteSet(HeadersBefore(lines, l)) /\ HeadersBefore(lines, l) \subseteq Int
         /\ Cardinality(HeadersBefore(lines, l)) \in 0 .. l - 1
<1> DEFINE H == HeadersBefore(lines, l)
           k == l - 1
<1>1. k \in Nat /\ H \in SUBSET (1 .. k)  BY DEF HeadersBefore
<1> HIDE DEF H, k
<1>2. IsFiniteSet(1 .. k) /\ Cardinality(1 .. k) = k
  BY <1>1, FS_Interval
<1>3. IsFiniteSet(H) /\ Cardinality(H) <= k /\ Cardinality(H) \in Nat
  BY <1>1, <1>2, FS_Subset, FS_CardinalityType
<1>4. Cardinality(H) \in 0 .. k  BY <1>1, <1>3
<1> QED  BY <1>1, <1>3, <1>4 DEF H, k

\* A line that is read counts as a header if it is one.
LEMMA HeaderAdded ==
  ASSUME NEW lines, NEW l \in Nat \ {0}, lines[l].kind = "hook"
  PROVE  HeadersBefore(lines, l + 1) = HeadersBefore(lines, l) \cup {l}
<1>1. 1 .. (l + 1) - 1 = (1 .. l - 1) \cup {l}  OBVIOUS
<1> QED  BY <1>1 DEF HeadersBefore

\* Another line is no header.
LEMMA NoHeaderAdded ==
  ASSUME NEW lines, NEW l \in Nat \ {0}, lines[l].kind # "hook"
  PROVE  HeadersBefore(lines, l + 1) = HeadersBefore(lines, l)
<1>1. 1 .. (l + 1) - 1 = (1 .. l - 1) \cup {l}  OBVIOUS
<1> QED  BY <1>1 DEF HeadersBefore

\* A section goes on over an assignment and ends at any other line.
LEMMA SectionGoesOn ==
  ASSUME NEW lines, NEW l \in Nat \ {0}, NEW h \in 1 .. l - 1
  PROVE  Follows(lines, h, l + 1) <=> Follows(lines, h, l) /\ lines[l].kind = "assignment"
<1>1. h + 1 .. (l + 1) - 1 = (h + 1 .. l - 1) \cup {l}  OBVIOUS
<1> QED  BY <1>1 DEF Follows

\* A header's section begins below it.
LEMMA SectionBegins ==
  ASSUME NEW lines, NEW l \in Nat \ {0}
  PROVE  Follows(lines, l, l + 1)
BY DEF Follows

\* The value that counts is that of the last line.
LEMMA LastIsTheLine ==
  ASSUME NEW lines, NEW l \in Nat \ {0}, NEW h \in 1 .. l - 1, NEW keys, NEW default,
         Follows(lines, h, l), lines[l].kind = "assignment", lines[l].key \in keys
  PROVE  LastBefore(lines, h, keys, default, l + 1) = lines[l]
<1> DEFINE G == GivenBefore(lines, h, keys, l + 1)
<1>1. l \in G  BY DEF GivenBefore, Follows
<1>2. \A n \in G : n \in Int /\ n <= l  BY DEF GivenBefore
<1> HIDE DEF G
<1>3. (CHOOSE n \in G : \A m \in G : m <= n) = l
  <2> DEFINE c == CHOOSE n \in G : \A m \in G : m <= n
  <2>1. c \in G /\ \A m \in G : m <= c  BY <1>1, <1>2
  <2> HIDE DEF c
  <2>2. l <= c /\ c <= l /\ c \in Int  BY <1>1, <1>2, <2>1
  <2>3. c = l  BY <2>2
  <2> QED  BY <2>3 DEF c
<1>4. G # {}  BY <1>1
<1> QED  BY <1>3, <1>4 DEF G, Final, LastBefore

\* Another line changes no value.
LEMMA LastStays ==
  ASSUME NEW lines, NEW l \in Nat \ {0}, NEW h \in 1 .. l - 1, NEW keys, NEW default,
         ~(Follows(lines, h, l) /\ lines[l].kind = "assignment" /\ lines[l].key \in keys)
  PROVE  LastBefore(lines, h, keys, default, l + 1) = LastBefore(lines, h, keys, default, l)
<1>1. h + 1 .. (l + 1) - 1 = (h + 1 .. l - 1) \cup {l}  OBVIOUS
<1>2. h + 1 .. l = (h + 1 .. l - 1) \cup {l}  OBVIOUS
<1>3. GivenBefore(lines, h, keys, l + 1) = GivenBefore(lines, h, keys, l)
  BY <1>1, <1>2 DEF GivenBefore, Follows
<1> QED  BY <1>3 DEF LastBefore

\* Below a header nothing has been said yet.
LEMMA NothingYet ==
  ASSUME NEW lines, NEW l \in Nat \ {0}, NEW keys, NEW default
  PROVE  LastBefore(lines, l, keys, default, l + 1) = default
<1>1. GivenBefore(lines, l, keys, l + 1) = {}  BY DEF GivenBefore
<1> QED  BY <1>1 DEF LastBefore, Final

\* A hook is still filled after a line that is not for it.
LEMMA StillFilled ==
  ASSUME NEW lines, NEW l \in Nat \ {0}, NEW h \in 1 .. l - 1, NEW hook,
         Filled(lines, hook, h, l), ~(Follows(lines, h, l) /\ lines[l].kind = "assignment")
  PROVE  Filled(lines, hook, h, l + 1)
<1>1. \A keys, default : LastBefore(lines, h, keys, default, l + 1) = LastBefore(lines, h, keys, default, l)
  BY LastStays
<1> QED  BY <1>1 DEF Filled

\* The headers of two hooks are not open at once.
LEMMA OneIsOpen ==
  ASSUME NEW lines, NEW l \in Nat \ {0}, NEW g \in HeadersBefore(lines, l), NEW h \in HeadersBefore(lines, l), g < h
  PROVE  ~Follows(lines, g, l)
BY DEF Follows, HeadersBefore

-----------------------------------------------------------------------------
(* Reading a line.                                                          *)
\* One hook more at the end of the list.
LEMMA Appended ==
  ASSUME NEW s, NEW x, Len(s) \in Nat, s = [n \in 1 .. Len(s) |-> s[n]]
  PROVE  /\ Len(Append(s, x)) = Len(s) + 1
         /\ Append(s, x) = [n \in 1 .. Len(s) + 1 |-> Append(s, x)[n]]
         /\ Append(s, x)[Len(s) + 1] = x
         /\ \A n \in 1 .. Len(s) : Append(s, x)[n] = s[n]
<1> DEFINE S == {s[n] : n \in 1 .. Len(s)} \cup {x}
<1>1. s \in Seq(S) /\ x \in S
  <2> DEFINE N == Len(s)
  <2>1. N \in Nat /\ s \in [1 .. N -> S]  OBVIOUS
  <2> HIDE DEF S, N
  <2>2. s \in Seq(S)  BY <2>1
  <2> QED  BY <2>2 DEF S
<1> HIDE DEF S
<1>2. /\ Append(s, x) \in Seq(S) /\ Len(Append(s, x)) = Len(s) + 1
      /\ Append(s, x)[Len(s) + 1] = x
      /\ \A n \in 1 .. Len(s) : Append(s, x)[n] = s[n]
  BY <1>1
<1>3. Append(s, x) = [n \in 1 .. Len(Append(s, x)) |-> Append(s, x)[n]]
  <2> DEFINE t == Append(s, x)
  <2>1. t \in Seq(S)  BY <1>2
  <2> HIDE DEF t
  <2>2. t \in [1 .. Len(t) -> S]  BY <2>1
  <2>3. t = [n \in 1 .. Len(t) |-> t[n]]  BY <2>2
  <2> QED  BY <2>3 DEF t
<1> QED  BY <1>2, <1>3

\* Where the lists of headers and of hooks stand.
LEMMA HeadersList ==
  ASSUME NEW lines, NEW l \in Nat \ {0}, NEW hooks, HooksRead(lines, hooks, l)
  PROVE  /\ Len(hooks) \in 0 .. l - 1
         /\ \A n \in 1 .. Len(hooks) : Ascending(HeadersBefore(lines, l))[n] \in HeadersBefore(lines, l)
         /\ \A m, n \in 1 .. Len(hooks) :
              m < n => Ascending(HeadersBefore(lines, l))[m] < Ascending(HeadersBefore(lines, l))[n]
         /\ \A h \in HeadersBefore(lines, l) :
              \E n \in 1 .. Len(hooks) : Ascending(HeadersBefore(lines, l))[n] = h
<1> DEFINE H == HeadersBefore(lines, l)
<1>1. Len(hooks) = Cardinality(H)  BY DEF HooksRead
<1>2. IsFiniteSet(H) /\ H \subseteq Int /\ Cardinality(H) \in 0 .. l - 1  BY HeadersAreFinite
<1> HIDE DEF H
<1>3. /\ Ascending(H) \in [1 .. Cardinality(H) -> H]
      /\ \A m, n \in 1 .. Cardinality(H) : m < n => Ascending(H)[m] < Ascending(H)[n]
      /\ \A x \in H : \E n \in 1 .. Cardinality(H) : Ascending(H)[n] = x
  BY <1>2, AscendingLists
<1> QED  BY <1>1, <1>2, <1>3 DEF H

\* A [hook] header adds a hook with the default values, and opens it.
LEMMA HookHeaderRead ==
  ASSUME NEW lines, NEW l \in Nat \ {0}, NEW hooks, HooksRead(lines, hooks, l), lines[l].kind = "hook"
  PROVE  /\ HooksRead(lines, Append(hooks, NoHook), l + 1)
         /\ InSection(lines, Append(hooks, NoHook), "hook", l + 1)
<1> DEFINE H == HeadersBefore(lines, l)
           I == HeadersBefore(lines, l + 1)
           N == Len(hooks)
           more == Append(hooks, NoHook)
<1>1. N = Cardinality(H) /\ N \in Nat /\ hooks = [n \in 1 .. N |-> hooks[n]]
  BY HeadersList DEF HooksRead
<1>2. /\ Len(more) = N + 1 /\ more = [n \in 1 .. N + 1 |-> more[n]]
      /\ more[N + 1] = NoHook /\ \A n \in 1 .. N : more[n] = hooks[n]
  BY <1>1, Appended
<1>3. I = H \cup {l}  BY HeaderAdded
<1>4. IsFiniteSet(H) /\ H \subseteq Int /\ \A h \in H : h < l
  BY HeadersAreFinite DEF HeadersBefore
<1>5. /\ Cardinality(I) = N + 1 /\ Ascending(I)[N + 1] = l
      /\ \A n \in 1 .. N : Ascending(I)[n] = Ascending(H)[n]
  <2> HIDE DEF H, I, N
  <2>1. IsFiniteSet(H) /\ H \subseteq Int /\ l \in Int /\ \A h \in H : h < l  BY <1>4
  <2>2. /\ Cardinality(H \cup {l}) = Cardinality(H) + 1 /\ Ascending(H \cup {l})[Cardinality(H) + 1] = l
        /\ \A n \in 1 .. Cardinality(H) : Ascending(H \cup {l})[n] = Ascending(H)[n]
    BY <2>1, AscendingGrows
  <2> QED  BY <1>1, <1>3, <2>2
<1>6. ASSUME NEW n \in 1 .. N + 1
      PROVE  IsHook(more[n]) /\ Filled(lines, more[n], Ascending(I)[n], l + 1)
  <2>1. CASE n = N + 1
    <3>1. \A keys, default : LastBefore(lines, l, keys, default, l + 1) = default  BY NothingYet
    <3>2. \A f : LastBefore(lines, l, KeysOf(f), Default(f), l + 1) = Default(f)  BY <3>1, Zenon
    <3>3. Filled(lines, NoHook, l, l + 1)
      <4>1. NoHook["kind"] = "replace"  BY DEF NoHook
      <4>2. \A f \in Fields : NoHook[f] = Of(f, Default(f))  BY <4>1 DEF Of, Default
      <4> QED  BY <3>2, <4>2 DEF Filled
    <3>4. IsHook(NoHook)  BY DEF IsHook, NoHook, Kinds
    <3>5. more[n] = NoHook /\ Ascending(I)[n] = l  BY <1>2, <1>5, <2>1
    <3> QED  BY <3>3, <3>4, <3>5
  <2>2. CASE n \in 1 .. N
    <3> DEFINE h == Ascending(H)[n]
    <3>1. more[n] = hooks[n] /\ Ascending(I)[n] = h  BY <1>2, <1>5, <2>2
    <3>2. IsHook(hooks[n]) /\ Filled(lines, hooks[n], h, l)  BY <2>2 DEF HooksRead
    <3>3. h \in 1 .. l - 1  BY <2>2, HeadersList DEF HeadersBefore
    <3> HIDE DEF h
    <3>4. Filled(lines, hooks[n], h, l + 1)  BY <3>2, <3>3, StillFilled
    <3> QED  BY <3>1, <3>2, <3>4
  <2> QED  BY <1>1, <2>1, <2>2
<1>7. Follows(lines, Ascending(I)[N + 1], l + 1)  BY <1>5, SectionBegins
<1> HIDE DEF more, I, N
<1>8. HooksRead(lines, more, l + 1)  BY <1>2, <1>5, <1>6 DEF HooksRead, I
<1>9. InSection(lines, more, "hook", l + 1)  BY <1>1, <1>2, <1>7 DEF InSection, I
<1> QED  BY <1>8, <1>9 DEF more

\* A [target] header closes the section of the last hook.
LEMMA TargetHeaderRead ==
  ASSUME NEW lines, NEW l \in Nat \ {0}, NEW hooks, HooksRead(lines, hooks, l), lines[l].kind = "target"
  PROVE  HooksRead(lines, hooks, l + 1) /\ InSection(lines, hooks, "target", l + 1)
<1> DEFINE H == HeadersBefore(lines, l)
<1>1. HeadersBefore(lines, l + 1) = H  BY NoHeaderAdded
<1>2. ASSUME NEW n \in 1 .. Len(hooks)  PROVE Filled(lines, hooks[n], Ascending(H)[n], l + 1)
  <2> DEFINE h == Ascending(H)[n]
  <2>1. Filled(lines, hooks[n], h, l)  BY DEF HooksRead
  <2>2. h \in 1 .. l - 1  BY HeadersList DEF HeadersBefore
  <2> HIDE DEF h
  <2>3. Filled(lines, hooks[n], h, l + 1)  BY <2>1, <2>2, StillFilled
  <2> QED  BY <2>3 DEF h
<1>3. \A h \in H : ~Follows(lines, h, l + 1)  BY SectionGoesOn DEF HeadersBefore
<1> QED  BY <1>1, <1>2, <1>3 DEF HooksRead, InSection

\* An assignment outside the hooks' sections changes no hook.
LEMMA ValueForNoHook ==
  ASSUME NEW lines, NEW l \in Nat \ {0}, NEW hooks, NEW in, HooksRead(lines, hooks, l),
         lines[l].kind = "assignment", in # "hook", InSection(lines, hooks, in, l)
  PROVE  HooksRead(lines, hooks, l + 1) /\ InSection(lines, hooks, in, l + 1)
<1> DEFINE H == HeadersBefore(lines, l)
<1>1. HeadersBefore(lines, l + 1) = H  BY NoHeaderAdded
<1>2. \A h \in H : ~Follows(lines, h, l)  BY DEF InSection
<1>3. ASSUME NEW n \in 1 .. Len(hooks)  PROVE Filled(lines, hooks[n], Ascending(H)[n], l + 1)
  <2> DEFINE h == Ascending(H)[n]
  <2>1. Filled(lines, hooks[n], h, l)  BY DEF HooksRead
  <2>2. h \in 1 .. l - 1 /\ h \in H  BY HeadersList DEF HeadersBefore
  <2> HIDE DEF h
  <2>3. Filled(lines, hooks[n], h, l + 1)  BY <1>2, <2>1, <2>2, StillFilled
  <2> QED  BY <2>3 DEF h
<1>4. \A h \in H : ~Follows(lines, h, l + 1)  BY <1>2, SectionGoesOn DEF HeadersBefore
<1> QED  BY <1>1, <1>3, <1>4 DEF HooksRead, InSection

\* The open hook takes the value of the line.
LEMMA SetFills ==
  ASSUME NEW hook, NEW h \in 1 .. line - 1, line \in Nat \ {0}, IsHook(hook),
         Filled(input.lines, hook, h, line), Follows(input.lines, h, line), Line.kind = "assignment"
  PROVE  IsHook(Set(hook)) /\ Filled(input.lines, Set(hook), h, line + 1)
<1> DEFINE lines == input.lines
           l == line
           Last(keys, default) == LastBefore(lines, h, keys, default, l)
           Next1(keys, default) == LastBefore(lines, h, keys, default, l + 1)
           key == lines[l].key
<1>1. \A keys, default : key \in keys => Next1(keys, default) = lines[l]
  BY LastIsTheLine DEF Line
<1>2. \A keys, default : key \notin keys => Next1(keys, default) = Last(keys, default)
  BY LastStays
<1>3. \A f \in Fields : hook[f] = Of(f, Last(KeysOf(f), Default(f)))  BY DEF Filled
<1>4. DOMAIN hook = Fields /\ hook.kind \in Kinds  BY DEF IsHook, NoHook, Fields
<1>5. SUFFICES /\ DOMAIN Set(hook) = DOMAIN hook /\ Set(hook).kind \in Kinds
               /\ \A f \in Fields : Set(hook)[f] = Of(f, Next1(KeysOf(f), Default(f)))
  BY DEF IsHook, Filled
<1>6. \A f \in Fields : key \in KeysOf(f) => Next1(KeysOf(f), Default(f)) = lines[l]  BY <1>1, Zenon
<1>7. \A f \in Fields : key \notin KeysOf(f) => Of(f, Next1(KeysOf(f), Default(f))) = hook[f]
  BY <1>2, <1>3, Zenon
<1> HIDE DEF Last, Next1
<1>8. CASE key \in Kinds
  <2>1. Set(hook) = [hook EXCEPT !.kind = key, !.source = lines[l].value]  BY <1>4, <1>8 DEF Set, Line, Kinds, Fields
  <2>2. /\ DOMAIN Set(hook) = DOMAIN hook /\ Set(hook)["kind"] = key /\ Set(hook)["source"] = lines[l].value
        /\ \A f \in Fields \ {"kind", "source"} : Set(hook)[f] = hook[f]
    BY <1>4, <2>1 DEF Fields
  <2>3. key \in KeysOf("kind") /\ key \in KeysOf("source") /\ \A f \in Fields \ {"kind", "source"} : key \notin KeysOf(f)
    BY <1>8 DEF Kinds, KeysOf, Fields
  <2>4. "kind" \in Fields /\ "source" \in Fields  BY DEF Fields
  <2>5. Of("kind", lines[l]) = key /\ Of("source", lines[l]) = lines[l].value  BY DEF Of
  <2>6. ASSUME NEW f \in Fields  PROVE Set(hook)[f] = Of(f, Next1(KeysOf(f), Default(f)))
    <3>1. CASE f = "kind"  BY <1>6, <2>2, <2>3, <2>4, <2>5, <3>1
    <3>2. CASE f = "source"  BY <1>6, <2>2, <2>3, <2>4, <2>5, <3>2
    <3>3. CASE f \notin {"kind", "source"}  BY <1>7, <2>2, <2>3, <3>3
    <3> QED  BY <3>1, <3>2, <3>3
  <2> QED  BY <1>8, <2>2, <2>6
<1>9. CASE key \in Fields \ {"kind"}
  <2>1. Set(hook) = [hook EXCEPT ![key] = lines[l].value]  BY <1>4, <1>9 DEF Set, Line, Fields
  <2>2. /\ DOMAIN Set(hook) = DOMAIN hook /\ Set(hook)[key] = lines[l].value
        /\ \A f \in Fields \ {key} : Set(hook)[f] = hook[f]
    BY <1>4, <1>9, <2>1
  <2>3. key \in KeysOf(key) /\ \A f \in Fields \ {key} : key \notin KeysOf(f)
    BY <1>9 DEF Kinds, KeysOf, Fields
  <2>4. Of(key, lines[l]) = lines[l].value /\ key # "kind" /\ "kind" \in Fields  BY <1>9 DEF Of, Fields
  <2>5. ASSUME NEW f \in Fields  PROVE Set(hook)[f] = Of(f, Next1(KeysOf(f), Default(f)))
    <3>1. CASE f = key  BY <1>6, <2>2, <2>3, <2>4, <3>1
    <3>2. CASE f # key  BY <1>7, <2>2, <2>3, <3>2
    <3> QED  BY <3>1, <3>2
  <2> QED  BY <1>4, <2>2, <2>4, <2>5
<1>10. CASE key \notin Kinds \cup (Fields \ {"kind"})
  <2>1. Set(hook) = hook  BY <1>4, <1>10 DEF Set, Line, Kinds, Fields
  <2>2. \A f \in Fields : key \notin KeysOf(f)  BY <1>10 DEF Kinds, KeysOf, Fields
  <2> QED  BY <1>4, <1>7, <2>1, <2>2
<1> QED  BY <1>8, <1>9, <1>10

\* An assignment in a hook's section goes to that hook alone.
LEMMA ValueForHook ==
  ASSUME NEW hooks, line \in Nat \ {0}, HooksRead(input.lines, hooks, line),
         Line.kind = "assignment", InSection(input.lines, hooks, "hook", line)
  PROVE  LET more == [hooks EXCEPT ![Len(hooks)] = Set(@)]
         IN  HooksRead(input.lines, more, line + 1) /\ InSection(input.lines, more, "hook", line + 1)
<1> DEFINE lines == input.lines
           l == line
           H == HeadersBefore(lines, l)
           N == Len(hooks)
           more == [hooks EXCEPT ![N] = Set(@)]
<1>1. HeadersBefore(lines, l + 1) = H  BY NoHeaderAdded DEF Line
<1>2. N = Cardinality(H) /\ hooks = [n \in 1 .. N |-> hooks[n]] /\ N \in Nat /\ N > 0
  BY HeadersList DEF HooksRead, InSection
<1>3. \A n \in 1 .. N : Ascending(H)[n] \in H /\ Ascending(H)[n] \in 1 .. l - 1
  <2>1. \A n \in 1 .. N : Ascending(H)[n] \in H  BY HeadersList
  <2>2. H \subseteq 1 .. l - 1  BY DEF HeadersBefore
  <2> HIDE DEF H, N
  <2> QED  BY <2>1, <2>2
<1>4. \A n \in 1 .. N : IsHook(hooks[n]) /\ Filled(lines, hooks[n], Ascending(H)[n], l)
  BY DEF HooksRead
<1>5. Follows(lines, Ascending(H)[N], l)  BY DEF InSection
<1>6. \A n \in 1 .. N : n < N => ~Follows(lines, Ascending(H)[n], l)
  <2> TAKE n \in 1 .. N
  <2> HAVE n < N
  <2>1. Ascending(H)[n] < Ascending(H)[N]  BY <1>2, HeadersList
  <2>2. N \in 1 .. N  BY <1>2
  <2> QED  BY <1>3, <2>1, <2>2, OneIsOpen
<1>7. /\ more = [n \in 1 .. N |-> more[n]] /\ more[N] = Set(hooks[N])
      /\ \A n \in 1 .. N : n # N => more[n] = hooks[n]
  <2> DEFINE new == Set(hooks[N])
  <2>1. more = [hooks EXCEPT ![N] = new]  OBVIOUS
  <2> HIDE DEF new, N, more, H
  <2> QED  BY <1>2, <2>1 DEF new
<1>8. Len(more) = N
  <2> DEFINE S == {more[n] : n \in 1 .. N}
  <2>1. more \in [1 .. N -> S]  BY <1>7
  <2> HIDE DEF more, S, N
  <2>2. more \in Seq(S) /\ Len(more) = N  BY <1>2, <2>1
  <2> QED  BY <2>2
<1> HIDE DEF more
<1>9. ASSUME NEW n \in 1 .. N
      PROVE  IsHook(more[n]) /\ Filled(lines, more[n], Ascending(H)[n], l + 1)
  <2> DEFINE h == Ascending(H)[n]
  <2>1. h \in 1 .. l - 1 /\ IsHook(hooks[n]) /\ Filled(lines, hooks[n], h, l)  BY <1>3, <1>4
  <2>2. CASE n = N
    <3>1. Follows(lines, h, l)  BY <1>5, <2>2
    <3> HIDE DEF h
    <3>2. IsHook(Set(hooks[n])) /\ Filled(lines, Set(hooks[n]), h, l + 1)  BY <2>1, <3>1, SetFills
    <3>3. more[n] = Set(hooks[n])  BY <1>7, <2>2
    <3> QED  BY <3>2, <3>3 DEF h
  <2>3. CASE n # N
    <3>1. ~Follows(lines, h, l)  BY <1>2, <1>6, <2>3
    <3> HIDE DEF h
    <3>2. Filled(lines, hooks[n], h, l + 1)  BY <2>1, <3>1, StillFilled
    <3>3. more[n] = hooks[n]  BY <1>7, <2>3
    <3> QED  BY <2>1, <3>2, <3>3 DEF h
  <2> QED  BY <2>2, <2>3
<1>10. Follows(lines, Ascending(H)[N], l + 1)
  <2> DEFINE h == Ascending(H)[N]
  <2>1. h \in 1 .. l - 1  BY <1>2, <1>3
  <2> HIDE DEF h
  <2>2. Follows(lines, h, l) => Follows(lines, h, l + 1)  BY <2>1, SectionGoesOn DEF Line
  <2> QED  BY <1>5, <2>2 DEF h
<1> HIDE DEF N
<1>11. HooksRead(lines, more, l + 1)  BY <1>1, <1>2, <1>7, <1>8, <1>9 DEF HooksRead
<1>12. InSection(lines, more, "hook", l + 1)  BY <1>1, <1>2, <1>8, <1>10 DEF InSection
<1> QED  BY <1>11, <1>12 DEF more, N

-----------------------------------------------------------------------------
(* The steps that read.                                                     *)
\* What the assumption says of the command line that was given.
LEMMA InputFacts ==
  ASSUME input \in Inputs
  PROVE  /\ Len(input.lines) \in Nat /\ DOMAIN input.lines = 1 .. Len(input.lines)
         /\ IsFiniteSet(input.entries) /\ \A e \in input.entries : e.name \in Int
         /\ input.script \in BOOLEAN /\ (input.script => input.white = {} /\ input.black = {})
         /\ \A m, n \in 1 .. Len(input.lines) :
              ScriptName(m) \in Int /\ (ScriptName(m) = ScriptName(n) => m = n)
BY InputsAssumption DEF InputsAssumption

\* What the invariant says of what was read.
LEMMA ReadFacts ==
  ASSUME IInv
  PROVE  /\ input \in Inputs /\ Len(input.lines) \in Nat /\ line \in 1 .. Len(input.lines) + 1
         /\ line \in Nat \ {0} /\ section \in {"", "target", "hook"}
         /\ DOMAIN script = {"binary", "output", "plugins", "hooks"}
         /\ HooksRead(input.lines, script.hooks, line)
<1>1. TypeOK /\ input \in Inputs /\ DOMAIN script = {"binary", "output", "plugins", "hooks"}
  BY DEF IInv
<1>2. line \in 1 .. Len(input.lines) + 1 /\ section \in {"", "target", "hook"}  BY <1>1 DEF TypeOK
<1>3. Len(input.lines) \in Nat  BY <1>1, InputFacts
<1>4. line \in Nat \ {0}
  <2> DEFINE N == Len(input.lines)
  <2>1. N \in Nat /\ line \in 1 .. N + 1  BY <1>2, <1>3
  <2> HIDE DEF N
  <2> QED  BY <2>1
<1> QED  BY <1>1, <1>2, <1>3, <1>4 DEF IInv

\* The parts of the type invariant that are about the run.
Phases == {"read", "generate", "select", "run", "cleanup", "stopped"}
Typed ==
  /\ pc \in Phases /\ Len(generated) \in {0, 1}
  /\ output \in {"old", "copy", "patched"} /\ result \in {"running", "done", "failed"}
  /\ (pc \in {"cleanup", "stopped"}) <=> (result # "running")
Placed == line \in 1 .. Len(input.lines) + 1 /\ section \in {"", "target", "hook"}

\* The hooks that were read are as the type says.
LEMMA HooksTyped ==
  ASSUME NEW lines, NEW hooks, NEW l \in Nat \ {0}, HooksRead(lines, hooks, l)
  PROVE  \A n \in DOMAIN hooks : DOMAIN hooks[n] = DOMAIN NoHook /\ hooks[n].kind \in {"replace", "detour"}
<1>1. hooks = [n \in 1 .. Len(hooks) |-> hooks[n]]  BY DEF HooksRead
<1>2. DOMAIN hooks = 1 .. Len(hooks)  BY <1>1
<1> QED  BY <1>2 DEF HooksRead, IsHook, Kinds

\* The type, part by part.
LEMMA TypeParts ==
  /\ TypeOK => Typed /\ Placed
  /\ Typed /\ Placed /\ line \in Nat \ {0} /\ HooksRead(input.lines, script.hooks, line) => TypeOK
<1>1. TypeOK => Typed  BY Zenon DEF TypeOK, Typed, Phases
<1>2. TypeOK => Placed  BY Zenon DEF TypeOK, Placed
<1>3. ASSUME Typed, Placed, line \in Nat \ {0}, HooksRead(input.lines, script.hooks, line)
      PROVE  TypeOK
  <2>1. \A n \in DOMAIN script.hooks : /\ DOMAIN script.hooks[n] = DOMAIN NoHook
                                       /\ script.hooks[n].kind \in {"replace", "detour"}
    BY <1>3, HooksTyped
  <2> QED  BY <1>3, <2>1, Zenon DEF TypeOK, Typed, Placed, Phases
<1> QED  BY <1>1, <1>2, <1>3

\* It holds before the first line.
LEMMA InitInv == Init => IInv
<1> SUFFICES ASSUME Init  PROVE IInv
  OBVIOUS
<1>1. input \in Inputs /\ line = 1 /\ script.hooks = <<>>  BY DEF Init
<1>2. Len(input.lines) \in Nat /\ input.script \in BOOLEAN  BY <1>1, InputFacts
<1>3. HeadersBefore(input.lines, 1) = {} /\ Cardinality({}) = 0  BY FS_EmptySet DEF HeadersBefore
<1>4. HooksRead(input.lines, script.hooks, line)
  <2> DEFINE none == <<>>
  <2>1. none \in Seq({}) /\ Len(none) = 0  OBVIOUS
  <2> HIDE DEF none
  <2>2. none \in [1 .. 0 -> {}]  BY <2>1
  <2>3. none = [n \in 1 .. Len(none) |-> none[n]]  BY <2>1, <2>2
  <2>4. Len(none) = Cardinality(HeadersBefore(input.lines, 1))  BY <1>3, <2>1
  <2>5. 1 .. Len(none) = {}  BY <2>1
  <2>6. HooksRead(input.lines, none, 1)  BY <2>3, <2>4, <2>5, Zenon DEF HooksRead
  <2> QED  BY <1>1, <2>6 DEF none
<1>5. InSection(input.lines, script.hooks, section, line)  BY <1>1, <1>3 DEF Init, InSection
<1>6. /\ pc = IF input.script THEN "read" ELSE "select"
      /\ section = "" /\ selected = <<>> /\ output = "old" /\ result = "running" /\ generated = <<>>
      /\ DOMAIN script = {"binary", "output", "plugins", "hooks"}
  BY DEF Init
<1>7. Typed /\ Placed
  <2>1. Len(generated) = 0  BY <1>6
  <2>2. Typed
    <3>1. pc \in Phases /\ pc \notin {"cleanup", "stopped"}  BY <1>2, <1>6 DEF Phases
    <3>2. ~(result # "running")  BY <1>6
    <3>3. (pc \in {"cleanup", "stopped"}) <=> (result # "running")  BY <3>1, <3>2, Zenon
    <3> QED  BY <1>6, <2>1, <3>1, <3>3 DEF Typed
  <2> DEFINE N == Len(input.lines)
  <2>3. N \in Nat  BY <1>2
  <2> HIDE DEF N
  <2>4. line \in 1 .. N + 1  BY <1>1, <2>3
  <2> QED  BY <1>6, <2>2, <2>4 DEF Placed, N
<1>8. TypeOK  BY <1>1, <1>4, <1>7, TypeParts
<1> QED  BY <1>1, <1>2, <1>4, <1>5, <1>6, <1>8 DEF IInv

\* The reader moves on by one line, at most to the end.
LEMMA NextPlace ==
  \A N \in Nat : \A l \in 1 .. N + 1 : l <= N => l \in 1 .. N /\ l + 1 \in Nat \ {0} /\ l + 1 \in 1 .. N + 1
OBVIOUS

\* A line read leaves everything but the line, the section and the hooks.
LEMMA LineRead ==
  ASSUME IInv, Reading, UNCHANGED <<input, pc, generated, selected, output, result>>,
         line' = line + 1, section' \in {"", "target", "hook"},
         DOMAIN script' = DOMAIN script,
         HooksRead(input.lines, script'.hooks, line + 1),
         InSection(input.lines, script'.hooks, section', line + 1)
  PROVE  IInv'
<1>1. /\ input \in Inputs /\ pc = "read" /\ line \in 1 .. Len(input.lines) /\ Len(input.lines) \in Nat
      /\ line' \in Nat \ {0} /\ line' \in 1 .. Len(input.lines) + 1
  <2> DEFINE N == Len(input.lines)
  <2>1. N \in Nat /\ line \in 1 .. N + 1 /\ line <= N /\ input \in Inputs /\ pc = "read"  BY ReadFacts DEF Reading
  <2> HIDE DEF N
  <2>2. line \in 1 .. N /\ line' \in Nat \ {0} /\ line' \in 1 .. N + 1  BY <2>1, NextPlace, Zenon
  <2> QED  BY <2>1, <2>2 DEF N
<1>2. HooksRead(input.lines, script.hooks, line)' /\ InSection(input.lines, script.hooks, section, line)'
  OBVIOUS
<1>3. Typed  BY TypeParts DEF IInv
<1>4. Typed'  BY <1>3 DEF Typed
<1>5. Placed'
  <2>1. input'.lines = input.lines  OBVIOUS
  <2> QED  BY <1>1, <2>1, Zenon DEF Placed
<1>6. TypeOK'
  <2>1. (Typed /\ Placed /\ line \in Nat \ {0} /\ HooksRead(input.lines, script.hooks, line) => TypeOK)'
    BY TypeParts, PTL
  <2> QED  BY <1>1, <1>2, <1>4, <1>5, <2>1
<1>7. DOMAIN script' = {"binary", "output", "plugins", "hooks"}  BY DEF IInv
<1>8. generated = <<>> /\ selected = <<>> /\ output = "old" /\ result = "running" /\ input.script
  BY <1>1, <1>3 DEF IInv, Typed
<1> QED  BY <1>1, <1>2, <1>6, <1>7, <1>8 DEF IInv

\* A header is read.
LEMMA HeaderStep == ASSUME IInv, Header  PROVE IInv'
<1> DEFINE lines == input.lines
           hooks == script.hooks
<1>1. /\ Reading /\ UNCHANGED <<input, pc, generated, selected, output, result>> /\ line' = line + 1
      /\ section' = Line.kind /\ Line.kind \in {"target", "hook"}
  BY DEF Header
<1>2. HooksRead(lines, hooks, line) /\ line \in Nat \ {0} /\ "hooks" \in DOMAIN script
  BY ReadFacts
<1>3. CASE Line.kind = "hook"
  <2>1. script' = [script EXCEPT !.hooks = Append(hooks, NoHook)]  BY <1>3 DEF Header
  <2>2. DOMAIN script' = DOMAIN script /\ script'.hooks = Append(hooks, NoHook)  BY <1>2, <2>1
  <2>3. lines[line].kind = "hook"  BY <1>3 DEF Line
  <2> HIDE DEF lines, hooks
  <2>4. HooksRead(lines, Append(hooks, NoHook), line + 1) /\ InSection(lines, Append(hooks, NoHook), "hook", line + 1)
    BY <1>2, <2>3, HookHeaderRead
  <2> QED  BY <1>1, <1>3, <2>2, <2>4, LineRead DEF lines
<1>4. CASE Line.kind = "target"
  <2>1. script' = script  BY <1>4 DEF Header
  <2>2. lines[line].kind = "target"  BY <1>4 DEF Line
  <2>3. HooksRead(lines, hooks, line + 1) /\ InSection(lines, hooks, "target", line + 1)
    BY <1>2, <2>2, TargetHeaderRead
  <2> QED  BY <1>1, <1>4, <2>1, <2>3, LineRead
<1> QED  BY <1>1, <1>3, <1>4

\* An assignment is read.
LEMMA AssignmentStep == ASSUME IInv, Assignment  PROVE IInv'
<1> DEFINE lines == input.lines
           hooks == script.hooks
<1>1. /\ Reading /\ UNCHANGED <<input, pc, generated, selected, output, result>> /\ line' = line + 1
      /\ section' = section /\ Line.kind = "assignment"
  BY DEF Assignment
<1>2. /\ HooksRead(lines, hooks, line) /\ line \in Nat \ {0} /\ DOMAIN script = {"binary", "output", "plugins", "hooks"}
      /\ InSection(lines, hooks, section, line) /\ section \in {"", "target", "hook"}
  BY <1>1, ReadFacts DEF IInv, Reading
<1>3. CASE section = "hook"
  <2> DEFINE more == [hooks EXCEPT ![Len(hooks)] = Set(@)]
  <2>1. script' = [script EXCEPT !.hooks[Len(script.hooks)] = Set(@)]  BY <1>3 DEF Assignment
  <2>2. DOMAIN script' = DOMAIN script /\ script'.hooks = more  BY <1>2, <2>1
  <2>3. HooksRead(lines, more, line + 1) /\ InSection(lines, more, "hook", line + 1)
    BY <1>1, <1>2, <1>3, ValueForHook
  <2> HIDE DEF more
  <2> QED  BY <1>1, <1>2, <1>3, <2>2, <2>3, LineRead
<1>4. CASE section # "hook"
  <2>1. \/ script' = script
        \/ Line.key \in {"binary", "output", "plugins"} /\ script' = [script EXCEPT ![Line.key] = Line.value]
    BY <1>4 DEF Assignment
  <2>2. DOMAIN script' = DOMAIN script /\ script'.hooks = hooks  BY <1>2, <2>1
  <2>3. HooksRead(lines, hooks, line + 1) /\ InSection(lines, hooks, section, line + 1)
    BY <1>1, <1>2, <1>4, ValueForNoHook DEF Line
  <2> QED  BY <1>1, <1>2, <2>2, <2>3, LineRead
<1> QED  BY <1>3, <1>4

\* The type in the next state, from its parts.
LEMMA NextTyped ==
  ASSUME IInv, Typed', UNCHANGED <<input, line, section>>, script'.hooks = script.hooks
  PROVE  TypeOK' /\ HooksRead(input.lines, script.hooks, line)'
<1>1. Placed /\ HooksRead(input.lines, script.hooks, line) /\ line \in Nat \ {0}
  BY TypeParts, ReadFacts DEF IInv
<1>2. Placed' /\ HooksRead(input.lines, script.hooks, line)' /\ line' \in Nat \ {0}
  BY <1>1 DEF Placed
<1>3. (Typed /\ Placed /\ line \in Nat \ {0} /\ HooksRead(input.lines, script.hooks, line) => TypeOK)'
  BY TypeParts, PTL
<1> QED  BY <1>2, <1>3

\* The script is refused: there is no directory yet.
LEMMA RefuseStep == ASSUME IInv, pc = "read", Refuse  PROVE IInv'
<1>1. /\ pc' = "stopped" /\ result' = "failed"
      /\ UNCHANGED <<input, line, section, script, generated, selected, output>>
  BY DEF Refuse
<1>2. generated = <<>> /\ selected = <<>> /\ output = "old" /\ Typed  BY TypeParts DEF IInv
<1>3. Typed'  BY <1>1, <1>2 DEF Typed, Phases
<1>4. TypeOK' /\ HooksRead(input.lines, script.hooks, line)'  BY <1>1, <1>3, NextTyped
<1> QED  BY <1>1, <1>2, <1>4 DEF IInv

\* The script is sound: the directory is made, and is empty.
LEMMA ScriptReadStep == ASSUME IInv, ScriptRead  PROVE IInv'
<1>1. /\ pc = "read" /\ pc' = "generate" /\ generated' = <<{}>>
      /\ UNCHANGED <<input, line, section, selected, output, result>>
      /\ line > Len(input.lines)
  BY DEF ScriptRead
<1>2. /\ selected = <<>> /\ output = "old" /\ input.script /\ Typed
      /\ line \in 1 .. Len(input.lines) + 1 /\ Len(input.lines) \in Nat
  BY <1>1, ReadFacts, TypeParts DEF IInv
<1>3. DOMAIN script' = DOMAIN script /\ script'.hooks = script.hooks  BY ReadFacts DEF ScriptRead
<1>4. Typed'
  <2>1. Len(<<{}>>) = 1  OBVIOUS
  <2> QED  BY <1>1, <1>2, <2>1 DEF Typed, Phases
<1>5. TypeOK' /\ HooksRead(input.lines, script.hooks, line)'  BY <1>1, <1>3, <1>4, NextTyped
<1>6. HookFiles(0)' = {}  BY DEF HookFiles
<1>7. 0 \in 0 .. Len(script'.hooks)
  <2> DEFINE N == Len(script'.hooks)
  <2>1. N \in 0 .. line - 1 /\ line \in Nat \ {0}  BY <1>3, ReadFacts, HeadersList
  <2> HIDE DEF N
  <2>2. 0 \in 0 .. N  BY <2>1
  <2> QED  BY <2>2 DEF N
<1>8. \E n \in 0 .. Len(script'.hooks) : generated' = <<HookFiles(n)'>>  BY <1>1, <1>6, <1>7
<1>9. line = Len(input.lines) + 1  BY <1>1, <1>2
<1>10. \A n \in 1 .. Len(script'.hooks) : Targeted(script'.hooks[n])
  <2>1. \A n \in DOMAIN script.hooks : Targeted(script.hooks[n])  BY DEF ScriptRead, Sound
  <2>2. DOMAIN script.hooks = 1 .. Len(script.hooks)  BY ReadFacts DEF HooksRead
  <2> QED  BY <1>3, <2>1, <2>2
<1> QED  BY <1>1, <1>2, <1>3, <1>5, <1>8, <1>9, <1>10 DEF IInv

-----------------------------------------------------------------------------
(* The steps that generate.                                                 *)
\* There are as many files as hooks: each has a name of its own.
LEMMA HookFilesCount ==
  ASSUME input \in Inputs, NEW n \in 0 .. Len(input.lines)
  PROVE  IsFiniteSet(HookFiles(n)) /\ Cardinality(HookFiles(n)) = n
<1> DEFINE f == [i \in 1 .. n |-> HookFile(i)]
           N == Len(input.lines)
<1>1. N \in Nat /\ n \in Nat /\ n <= N
  <2>1. N \in Nat  BY InputFacts
  <2> QED  BY <2>1
<1>2. \A i, j \in 1 .. n : ScriptName(i) = ScriptName(j) => i = j
  <2>1. 1 .. n \subseteq 1 .. N  BY <1>1
  <2> QED  BY <2>1, InputFacts
<1>3. \A i, j \in 1 .. n : HookFile(i) = HookFile(j) => i = j
  <2>1. \A i \in 1 .. n : HookFile(i).name = ScriptName(i)  BY DEF HookFile
  <2> QED  BY <1>2, <2>1
<1>4. f \in Bijection(1 .. n, HookFiles(n))
  <2>1. f \in [1 .. n -> HookFiles(n)]  BY DEF HookFiles
  <2>2. \A i, j \in 1 .. n : f[i] = f[j] => i = j  BY <1>3
  <2>3. \A x \in HookFiles(n) : \E i \in 1 .. n : f[i] = x  BY DEF HookFiles
  <2> HIDE DEF f
  <2> QED  BY <2>1, <2>2, <2>3, Fun_IsBij
<1>5. IsFiniteSet(1 .. n) /\ Cardinality(1 .. n) = n
  BY <1>1, FS_Interval
<1> QED  BY <1>4, <1>5, FS_Bijection DEF ExistsBijection

\* The hooks are no more than the lines.
LEMMA FewHooks ==
  ASSUME IInv
  PROVE  Len(script.hooks) \in Nat /\ Len(script.hooks) <= Len(input.lines)
<1> DEFINE N == Len(input.lines)
           k == Len(script.hooks)
<1>1. N \in Nat /\ line \in 1 .. N + 1 /\ k \in 0 .. line - 1  BY ReadFacts, HeadersList
<1> HIDE DEF N, k
<1>2. k \in Nat /\ k <= N  BY <1>1
<1> QED  BY <1>2 DEF N, k

\* A throw after the start: the directory, if there is one, is still there.
LEMMA ThrowStep ==
  ASSUME IInv, Throw, UNCHANGED output, pc \in {"generate", "select", "run"}
  PROVE  IInv'
<1>1. /\ UNCHANGED <<input, line, section, script, generated, selected, output>>
      /\ result' = "failed" /\ pc' = IF input.script THEN "cleanup" ELSE "stopped"
  BY DEF Throw
<1>2. Typed /\ input.script \in BOOLEAN  BY TypeParts, InputFacts DEF IInv
<1>3. Typed'  BY <1>1, <1>2 DEF Typed, Phases
<1>4. TypeOK' /\ HooksRead(input.lines, script.hooks, line)'  BY <1>1, <1>3, NextTyped
<1>5. \/ input.script /\ pc' = "cleanup"
      \/ ~input.script /\ pc' = "stopped" /\ generated = <<>>
  BY <1>1, <1>2 DEF IInv
<1>6. selected = <<>> => output = "old"  BY DEF IInv
<1> QED  BY <1>1, <1>4, <1>5, <1>6 DEF IInv

\* One file more.
LEMMA GenerateStep == ASSUME IInv, GenerateHook  PROVE IInv'
<1>1. /\ pc = "generate" /\ Generated < Len(script.hooks)
      /\ generated' = <<generated[1] \cup {HookFile(Generated + 1)}>>
      /\ UNCHANGED <<input, pc, line, section, script, selected, output, result>>
  BY DEF GenerateHook
<1>2. /\ Typed /\ input \in Inputs /\ input.script /\ selected = <<>> /\ output = "old"
  BY <1>1, TypeParts DEF IInv
<1>3. PICK n \in 0 .. Len(script.hooks) : generated = <<HookFiles(n)>>  BY <1>1 DEF IInv
<1>4. n \in Nat /\ n \in 0 .. Len(input.lines) /\ Len(script.hooks) \in Nat
  <2> DEFINE N == Len(input.lines)
             k == Len(script.hooks)
  <2>1. k \in Nat /\ k <= N /\ N \in Nat /\ n \in 0 .. k  BY FewHooks, ReadFacts
  <2> HIDE DEF N, k
  <2>2. n \in Nat /\ n \in 0 .. N  BY <2>1
  <2> QED  BY <2>1, <2>2 DEF N, k
<1>5. Generated = n
  <2>1. generated[1] = HookFiles(n)  BY <1>3
  <2>2. Cardinality(HookFiles(n)) = n  BY <1>2, <1>4, HookFilesCount
  <2> QED  BY <2>1, <2>2 DEF Generated
<1>6. generated' = <<HookFiles(n + 1)>>
  <2>1. HookFiles(n + 1) = HookFiles(n) \cup {HookFile(n + 1)}
    <3>1. 1 .. n + 1 = 1 .. n \cup {n + 1}  BY <1>4
    <3> QED  BY <3>1 DEF HookFiles
  <2>2. generated[1] = HookFiles(n)  BY <1>3
  <2> QED  BY <1>1, <1>5, <2>1, <2>2
<1>7. HookFiles(n + 1)' = HookFiles(n + 1)  BY <1>1 DEF HookFiles, HookFile
<1>8. n + 1 \in 0 .. Len(script.hooks)
  <2> DEFINE k == Len(script.hooks)
  <2>1. n \in Nat /\ k \in Nat /\ n < k  BY <1>1, <1>4, <1>5
  <2> HIDE DEF k
  <2>2. n + 1 \in 0 .. k  BY <2>1
  <2> QED  BY <2>2 DEF k
<1>9. \E m \in 0 .. Len(script'.hooks) : generated' = <<HookFiles(m)'>>
  BY <1>1, <1>6, <1>7, <1>8
<1>10. Typed'
  <2>1. Len(<<HookFiles(n + 1)>>) = 1  OBVIOUS
  <2> QED  BY <1>1, <1>2, <1>6, <2>1 DEF Typed
<1>11. TypeOK' /\ HooksRead(input.lines, script.hooks, line)'  BY <1>1, <1>10, NextTyped
<1> QED  BY <1>1, <1>2, <1>9, <1>11 DEF IInv

\* All the hooks have their files.
LEMMA AllGeneratedStep == ASSUME IInv, AllGenerated  PROVE IInv'
<1>1. /\ pc = "generate" /\ Generated = Len(script.hooks) /\ pc' = "select"
      /\ UNCHANGED <<input, line, section, script, generated, selected, output, result>>
  BY DEF AllGenerated
<1>2. /\ Typed /\ input \in Inputs /\ input.script /\ selected = <<>> /\ output = "old"
  BY <1>1, TypeParts DEF IInv
<1>3. PICK n \in 0 .. Len(script.hooks) : generated = <<HookFiles(n)>>  BY <1>1 DEF IInv
<1>4. n \in 0 .. Len(input.lines)
  <2> DEFINE N == Len(input.lines)
             k == Len(script.hooks)
  <2>1. k \in Nat /\ k <= N /\ N \in Nat /\ n \in 0 .. k  BY FewHooks, ReadFacts
  <2> HIDE DEF N, k
  <2>2. n \in 0 .. N  BY <2>1
  <2> QED  BY <2>2 DEF N
<1>5. Generated = n
  <2>1. generated[1] = HookFiles(n)  BY <1>3
  <2>2. Cardinality(HookFiles(n)) = n  BY <1>2, <1>4, HookFilesCount
  <2> QED  BY <2>1, <2>2 DEF Generated
<1>6. generated' = <<HookFiles(Len(script.hooks))>>  BY <1>1, <1>3, <1>5
<1>7. HookFiles(Len(script.hooks))' = HookFiles(Len(script.hooks))  BY <1>1 DEF HookFiles, HookFile
<1>8. Typed'  BY <1>1, <1>2 DEF Typed, Phases
<1>9. TypeOK' /\ HooksRead(input.lines, script.hooks, line)'  BY <1>1, <1>8, NextTyped
<1> QED  BY <1>1, <1>2, <1>6, <1>7, <1>9 DEF IInv

-----------------------------------------------------------------------------
(* The steps that run.                                                      *)
\* The input is copied, after the choice.
LEMMA CopyStep == ASSUME IInv, Copy  PROVE IInv'
<1>1. /\ pc = "run" /\ output' = "copy"
      /\ UNCHANGED <<input, pc, line, section, script, generated, selected, result>>
  BY DEF Copy
<1>2. Typed /\ selected # <<>>  BY <1>1, TypeParts DEF IInv
<1>3. Typed'  BY <1>1, <1>2 DEF Typed
<1>4. TypeOK' /\ HooksRead(input.lines, script.hooks, line)'  BY <1>1, <1>3, NextTyped
<1> QED  BY <1>1, <1>2, <1>4 DEF IInv

\* The copy is patched; what was run stays.
LEMMA PatchStep == ASSUME IInv, Patch  PROVE IInv'
<1>1. /\ pc = "run" /\ output' = "patched" /\ result' = "done"
      /\ pc' = IF input.script THEN "cleanup" ELSE "stopped"
      /\ UNCHANGED <<input, line, section, script, generated, selected>>
  BY DEF Patch
<1>2. Typed /\ selected # <<>> /\ input.script \in BOOLEAN  BY <1>1, TypeParts, InputFacts DEF IInv
<1>3. Typed'  BY <1>1, <1>2 DEF Typed, Phases
<1>4. TypeOK' /\ HooksRead(input.lines, script.hooks, line)'  BY <1>1, <1>3, NextTyped
<1>5. \/ input.script /\ pc' = "cleanup"
      \/ ~input.script /\ pc' = "stopped" /\ generated = <<>>
  BY <1>1, <1>2 DEF IInv
<1> QED  BY <1>1, <1>2, <1>4, <1>5 DEF IInv

\* The directory is removed.
LEMMA CleanupStep == ASSUME IInv, Cleanup  PROVE IInv'
<1>1. /\ pc = "cleanup" /\ pc' = "stopped" /\ generated' = <<>>
      /\ UNCHANGED <<input, line, section, script, selected, output, result>>
  BY DEF Cleanup
<1>2. Typed  BY TypeParts DEF IInv
<1>3. Typed'
  <2>1. Len(generated') = 0  BY <1>1
  <2> QED  BY <1>1, <1>2, <2>1 DEF Typed, Phases
<1>4. TypeOK' /\ HooksRead(input.lines, script.hooks, line)'  BY <1>1, <1>3, NextTyped
<1> QED  BY <1>1, <1>4 DEF IInv

-----------------------------------------------------------------------------
(* The choice of plugins.                                                   *)
\* No two of the entries that are found have one name, or the choice fails.
LEMMA NamesDiffer ==
  ASSUME NEW entries, IsFiniteSet(entries), \A e \in entries : e.name \in Int, ~Duplicates(entries)
  PROVE  /\ IsFiniteSet(Found(entries))
         /\ \A d, e \in Found(entries) : d.name = e.name => d = e
<1> DEFINE F == Found(entries)
           N == Names(entries)
           f == [e \in F |-> e.name]
<1>1. IsFiniteSet(F)
  <2>1. F \in SUBSET entries  BY DEF Found
  <2> HIDE DEF F
  <2> QED  BY <2>1, FS_Subset
<1>2. f \in Surjection(F, N)
  <2>1. f \in [F -> N] /\ \A x \in N : \E e \in F : f[e] = x  BY DEF Names
  <2> HIDE DEF f, F, N
  <2> QED  BY <2>1, Fun_IsSurj
<1>3. ~(Cardinality(N) < Cardinality(F))  BY DEF Duplicates
<1> HIDE DEF F, N, f
<1>4. IsFiniteSet(N) /\ Cardinality(N) <= Cardinality(F) /\ (Cardinality(N) = Cardinality(F) <=> f \in Injection(F, N))
  BY <1>1, <1>2, FS_Surjection
<1>5. Cardinality(N) \in Nat /\ Cardinality(F) \in Nat  BY <1>1, <1>4, FS_CardinalityType
<1>6. f \in Injection(F, N)  BY <1>3, <1>4, <1>5
<1>7. \A d, e \in F : f[d] = f[e] => d = e  BY <1>6, Zenon DEF Injection, IsInjective
<1>8. \A e \in F : f[e] = e.name  BY DEF f
<1> QED  BY <1>1, <1>7, <1>8 DEF F

\* A plugin has the name and the hook of its entry.
LEMMA NameOf == \A e : Plugin(e).name = e.name /\ Plugin(e).declares = e.declares
BY DEF Plugin

\* Plugins of different names are in the order of their names.
LEMMA ByNameOrders ==
  ASSUME NEW plugins, \A p \in plugins : p.name \in Int,
         \A p, q \in plugins : p.name = q.name => p = q
  PROVE  Orders(ByName(plugins), plugins)
<1> DEFINE R == ByName(plugins)
<1>1. \A p, q \in plugins : <<p, q>> \in R <=> p.name < q.name  BY DEF ByName
<1> HIDE DEF R
<1>2. \A p \in plugins : <<p, p>> \notin R  BY <1>1
<1>3. \A p, q, r \in plugins : <<p, q>> \in R /\ <<q, r>> \in R => <<p, r>> \in R  BY <1>1
<1>4. \A p, q \in plugins : p = q \/ <<p, q>> \in R \/ <<q, p>> \in R
  <2> TAKE p, q \in plugins
  <2>1. p.name \in Int /\ q.name \in Int  OBVIOUS
  <2>2. p.name = q.name \/ p.name < q.name \/ q.name < p.name  BY <2>1
  <2> QED  BY <1>1, <2>2
<1>5. Orders(R, plugins)  BY <1>2, <1>3, <1>4 DEF Orders
<1> QED  BY <1>5 DEF R

ChosenOf(entries) == {p \in Discovered(entries) : Chosen(p)}

\* The selection lists the plugins that are found and chosen, each once.
LEMMA SelectionLists ==
  ASSUME NEW entries, IsFiniteSet(entries), \A e \in entries : e.name \in Int, ~Duplicates(entries)
  PROVE  LET chosen == ChosenOf(entries)
             run == InOrder(chosen, ByName(chosen))
         IN  /\ IsFiniteSet(chosen) /\ Cardinality(chosen) \in Nat
             /\ run \in [1 .. Cardinality(chosen) -> chosen]
             /\ \A p \in chosen : \E n \in 1 .. Cardinality(chosen) : run[n] = p
             /\ \A m, n \in 1 .. Cardinality(chosen) : run[m].name = run[n].name => m = n
<1> DEFINE F == Found(entries)
           D == Discovered(entries)
           chosen == ChosenOf(entries)
           R == ByName(chosen)
           run == InOrder(chosen, R)
<1>1. IsFiniteSet(F) /\ (\A d, e \in F : d.name = e.name => d = e) /\ \A e \in F : e.name \in Int
  <2>1. \A e \in F : e.name \in Int  BY DEF Found
  <2> QED  BY <2>1, NamesDiffer
<1>2. IsFiniteSet(D)
  <2> DEFINE f == [e \in F |-> Plugin(e)]
  <2>1. f \in [F -> D] /\ \A p \in D : \E e \in F : f[e] = p  BY DEF Discovered
  <2> HIDE DEF f, F, D
  <2>2. f \in Surjection(F, D)  BY <2>1, Fun_IsSurj
  <2> QED  BY <1>1, <2>2, FS_Surjection
<1>3. chosen \in SUBSET D  BY DEF ChosenOf
<1>4. \A p \in D : \E e \in F : p = Plugin(e)  BY DEF Discovered
<1> HIDE DEF F, D, chosen
<1>5. IsFiniteSet(chosen)  BY <1>2, <1>3, FS_Subset
<1>6. /\ \A p \in chosen : p.name \in Int
      /\ \A p, q \in chosen : p.name = q.name => p = q
  BY <1>1, <1>3, <1>4, NameOf
<1>7. Orders(R, chosen)  BY <1>6, ByNameOrders
<1>8. \A p, q \in chosen : <<p, q>> \in R <=> p.name < q.name  BY DEF ByName
<1> HIDE DEF R
<1>9. /\ Lists(run, R, chosen) /\ Cardinality(chosen) \in Nat
      /\ \A p \in chosen : \E n \in 1 .. Cardinality(chosen) : run[n] = p
  BY <1>5, <1>7, InOrderLists
<1> HIDE DEF run
<1>10. run \in [1 .. Cardinality(chosen) -> chosen]  BY <1>9 DEF Lists
<1>11. \A m, n \in 1 .. Cardinality(chosen) : m < n => run[m].name < run[n].name
  BY <1>8, <1>9, <1>10 DEF Lists
<1>12. ASSUME NEW m \in 1 .. Cardinality(chosen), NEW n \in 1 .. Cardinality(chosen), run[m].name = run[n].name
       PROVE  m = n
  <2>1. run[m].name \in Int /\ run[n].name \in Int  BY <1>6, <1>10
  <2> QED  BY <1>9, <1>11, <1>12, <2>1
<1> QED  BY <1>5, <1>9, <1>10, <1>12 DEF chosen, R, run

\* What is chosen is as the lists say.
LEMMA ChosenListed ==
  ASSUME NEW p, Chosen(p)
  PROVE  /\ [name |-> p.name, extension |-> FALSE] \notin input.black
         /\ input.white # {} => [name |-> p.name, extension |-> FALSE] \in input.white
BY DEF Chosen, Listed

\* A script without lists runs all the plugins it generated.
LEMMA ScriptRuns ==
  ASSUME IInv, pc = "select", input.script
  PROVE  LET n == Len(script.hooks) IN
         /\ Entries = HookFiles(n) /\ n \in 0 .. Len(input.lines)
         /\ ChosenOf(Entries) = {Plugin(HookFile(i)) : i \in 1 .. n}
         /\ Cardinality(ChosenOf(Entries)) = n
<1> DEFINE n == Len(script.hooks)
<1>1. generated = <<HookFiles(n)>> /\ input \in Inputs  BY DEF IInv
<1>2. Entries = HookFiles(n)  BY <1>1 DEF Entries
<1>3. n \in Nat /\ n \in 0 .. Len(input.lines)
  <2> DEFINE N == Len(input.lines)
  <2>1. n \in Nat /\ n <= N /\ N \in Nat  BY FewHooks, ReadFacts
  <2> HIDE DEF N, n
  <2>2. n \in 0 .. N  BY <2>1
  <2> QED  BY <2>1, <2>2 DEF N
<1> HIDE DEF n
<1>4. Found(HookFiles(n)) = HookFiles(n)  BY DEF Found, HookFiles, HookFile
<1>5. \A p : Chosen(p)  BY <1>1, InputFacts DEF Chosen
<1>6. ChosenOf(HookFiles(n)) = {Plugin(HookFile(i)) : i \in 1 .. n}
  <2>1. Discovered(HookFiles(n)) = {Plugin(e) : e \in HookFiles(n)}  BY <1>4 DEF Discovered
  <2>2. {Plugin(e) : e \in HookFiles(n)} = {Plugin(HookFile(i)) : i \in 1 .. n}  BY DEF HookFiles
  <2> QED  BY <1>5, <2>1, <2>2 DEF ChosenOf
<1>7. Cardinality(ChosenOf(HookFiles(n))) = n
  <2> DEFINE S == HookFiles(n)
             T == ChosenOf(S)
             f == [e \in S |-> Plugin(e)]
  <2>1. IsFiniteSet(S) /\ Cardinality(S) = n  BY <1>1, <1>3, HookFilesCount
  <2>2. T = {Plugin(e) : e \in S}  BY <1>4, <1>5 DEF ChosenOf, Discovered
  <2>3. \A d, e \in S : d.name = e.name => d = e
    <3>1. \A i \in 1 .. n : HookFile(i).name = ScriptName(i)  BY DEF HookFile
    <3>2. \A i, j \in 1 .. n : ScriptName(i) = ScriptName(j) => i = j
      <4> DEFINE N == Len(input.lines)
      <4>1. N \in Nat /\ n \in 0 .. N  BY <1>3, ReadFacts
      <4>2. \A i, j \in 1 .. N : ScriptName(i) = ScriptName(j) => i = j  BY <1>1, InputFacts
      <4> HIDE DEF N
      <4> QED  BY <4>1, <4>2
    <3> QED  BY <3>1, <3>2 DEF HookFiles
  <2>4. f \in [S -> T] /\ (\A d, e \in S : f[d] = f[e] => d = e) /\ \A p \in T : \E e \in S : f[e] = p
    BY <2>2, <2>3, NameOf
  <2> HIDE DEF S, T, f
  <2>5. f \in Bijection(S, T)  BY <2>4, Fun_IsBij
  <2>6. ExistsBijection(S, T)  BY <2>5 DEF ExistsBijection
  <2>7. Cardinality(T) = Cardinality(S)  BY <2>1, <2>6, FS_Bijection
  <2> QED  BY <2>1, <2>7 DEF T, S
<1> QED  BY <1>2, <1>3, <1>6, <1>7 DEF n

\* The entries are finite, and their names are numbers.
LEMMA EntriesAre ==
  ASSUME IInv, pc = "select"
  PROVE  IsFiniteSet(Entries) /\ \A e \in Entries : e.name \in Int
<1>1. input \in Inputs /\ input.script \in BOOLEAN  BY InputFacts DEF IInv
<1>2. CASE ~input.script  BY <1>1, <1>2, InputFacts DEF Entries
<1>3. CASE input.script
  <2> DEFINE n == Len(script.hooks)
  <2>1. Entries = HookFiles(n) /\ n \in 0 .. Len(input.lines)  BY <1>3, ScriptRuns
  <2> HIDE DEF n
  <2>2. IsFiniteSet(HookFiles(n))  BY <1>1, <2>1, HookFilesCount
  <2>3. \A i \in 1 .. n : HookFile(i).name = ScriptName(i)  BY DEF HookFile
  <2>4. \A i \in 1 .. n : ScriptName(i) \in Int
    <3> DEFINE N == Len(input.lines)
    <3>1. N \in Nat /\ n \in 0 .. N  BY <2>1, ReadFacts
    <3>2. \A i \in 1 .. N : ScriptName(i) \in Int  BY <1>1, InputFacts
    <3> HIDE DEF N
    <3> QED  BY <3>1, <3>2
  <2> QED  BY <2>1, <2>2, <2>3, <2>4 DEF HookFiles
<1> QED  BY <1>1, <1>2, <1>3

\* The plugins are chosen: the one step that has to show what was asked.
LEMMA SelectStep == ASSUME IInv, SelectPlugins  PROVE IInv'
<1> DEFINE chosen == ChosenOf(Entries)
           run == InOrder(chosen, ByName(chosen))
           N == Cardinality(chosen)
<1>1. /\ pc = "select" /\ ~Duplicates(Entries) /\ run # <<>> /\ pc' = "run" /\ selected' = run
      /\ UNCHANGED <<input, line, section, script, generated, output, result>>
  BY DEF SelectPlugins, Selection, ChosenOf
<1>2. Typed /\ input \in Inputs  BY TypeParts DEF IInv
<1>3. /\ N \in Nat /\ run \in [1 .. N -> chosen] /\ DOMAIN run = 1 .. N
      /\ \A p \in chosen : \E n \in 1 .. N : run[n] = p
      /\ \A m, n \in 1 .. N : run[m].name = run[n].name => m = n
  BY <1>1, EntriesAre, SelectionLists
<1>4. \A p \in chosen : Chosen(p)  BY DEF ChosenOf
<1>5. Len(run) = N
  <2> HIDE DEF run, chosen, N
  <2>1. run \in Seq(chosen) /\ Len(run) = N  BY <1>3
  <2> QED  BY <2>1
<1>6. Asked(input, run)
  <2> SUFFICES ASSUME input.script  PROVE Asked(input, run)
    BY DEF Asked
  <2> DEFINE end == Len(input.lines) + 1
             H == HeadersBefore(input.lines, end)
  <2>1. N = Len(script.hooks) /\ chosen = {Plugin(HookFile(i)) : i \in 1 .. N}  BY <1>1, ScriptRuns
  <2>2. line = end /\ HooksRead(input.lines, script.hooks, end)  BY <1>1 DEF IInv
  <2>5. \A n \in 1 .. N : Targeted(script.hooks[n])  BY <1>1, <2>1 DEF IInv
  <2>3. N = Cardinality(H)  BY <2>1, <2>2 DEF HooksRead
  <2>4. ASSUME NEW n \in 1 .. N
        PROVE  \E i \in DOMAIN run :
                 /\ run[i].name = ScriptName(n)
                 /\ \E hook : /\ Filled(input.lines, hook, Ascending(H)[n], end)
                              /\ Targeted(hook) /\ run[i].declares = Declaration(hook)
    <3>1. Plugin(HookFile(n)) \in chosen  BY <2>1
    <3>2. PICK i \in 1 .. N : run[i] = Plugin(HookFile(n))  BY <1>3, <3>1
    <3>3. run[i].name = ScriptName(n) /\ run[i].declares = Declaration(script.hooks[n])
      BY <3>2, NameOf DEF HookFile
    <3>4. Filled(input.lines, script.hooks[n], Ascending(H)[n], end)  BY <2>1, <2>2 DEF HooksRead
    <3>5. Targeted(script.hooks[n])  BY <2>5
    <3> QED  BY <1>3, <3>3, <3>4, <3>5
  <2> HIDE DEF run, H, N
  <2> QED  BY <1>5, <2>3, <2>4 DEF Asked, H
<1>7. Kept(input, run)
  <2> SUFFICES ASSUME NEW i \in 1 .. N
               PROVE  /\ [name |-> run[i].name, extension |-> FALSE] \notin input.black
                      /\ input.white # {} => [name |-> run[i].name, extension |-> FALSE] \in input.white
    BY <1>3 DEF Kept
  <2>1. Chosen(run[i])  BY <1>3, <1>4
  <2> QED  BY <2>1, ChosenListed
<1>8. Typed'  BY <1>1, <1>2 DEF Typed, Phases
<1>9. TypeOK' /\ HooksRead(input.lines, script.hooks, line)'  BY <1>1, <1>8, NextTyped
<1>10. output = "old" /\ (~input.script => generated = <<>>)  BY <1>1 DEF IInv
<1> HIDE DEF run
<1>11. Asked(input, selected)' /\ Kept(input, selected)'  BY <1>1, <1>6, <1>7
<1> QED  BY <1>1, <1>9, <1>10, <1>11 DEF IInv

-----------------------------------------------------------------------------
\* The invariant is inductive.
LEMMA NextInv == IInv /\ [Next]_vars => IInv'
<1> SUFFICES ASSUME IInv, [Next]_vars  PROVE IInv'
  OBVIOUS
<1>1. CASE Header  BY <1>1, HeaderStep
<1>2. CASE Assignment  BY <1>2, AssignmentStep
<1>3. CASE InvalidLine  BY <1>3, RefuseStep DEF InvalidLine, Reading
<1>4. CASE ScriptRead  BY <1>4, ScriptReadStep
<1>5. CASE UnsoundScript  BY <1>5, RefuseStep DEF UnsoundScript
<1>6. CASE StageFails  BY <1>6, ThrowStep DEF StageFails
<1>7. CASE GenerateHook  BY <1>7, GenerateStep
<1>8. CASE GenerateFails  BY <1>8, ThrowStep DEF GenerateFails
<1>9. CASE AllGenerated  BY <1>9, AllGeneratedStep
<1>10. CASE SelectPlugins  BY <1>10, SelectStep
<1>11. CASE NoPlugins  BY <1>11, ThrowStep DEF NoPlugins
<1>12. CASE Copy  BY <1>12, CopyStep
<1>13. CASE CopyFails  BY <1>13, ThrowStep DEF CopyFails
<1>14. CASE Patch  BY <1>14, PatchStep
<1>15. CASE PatchFails  BY <1>15, ThrowStep DEF PatchFails
<1>16. CASE Cleanup  BY <1>16, CleanupStep
<1>17. CASE UNCHANGED vars
  <2>1. UNCHANGED <<input, pc, line, section, script, generated, selected, output, result>>  BY <1>17 DEF vars
  <2>2. HookFiles(Len(script.hooks))' = HookFiles(Len(script.hooks))
        /\ \A n : HookFiles(n)' = HookFiles(n)
    BY <2>1 DEF HookFiles, HookFile
  <2>3. Typed'  BY <2>1, TypeParts DEF IInv, Typed
  <2>4. TypeOK' /\ HooksRead(input.lines, script.hooks, line)'  BY <2>1, <2>3, NextTyped
  <2> QED  BY <2>1, <2>2, <2>4 DEF IInv
<1> QED
  BY <1>1, <1>2, <1>3, <1>4, <1>5, <1>6, <1>7, <1>8, <1>9, <1>10, <1>11, <1>12, <1>13, <1>14, <1>15, <1>16, <1>17
  DEF Next

\* The invariant holds in every state.
THEOREM Invariant == Spec => []IInv
BY InitInv, NextInv, PTL DEF Spec

\* Every state of a script's reading and of a run has its type.
THEOREM TypeCorrect == Spec => []TypeOK
<1>1. IInv => TypeOK  BY DEF IInv
<1> QED  BY <1>1, Invariant, PTL

\* What was read of a script is what the properties say it asks for.
LEMMA AskedIs ==
  ASSUME IInv, Asked(input, selected)
  PROVE  EachHookIsRun
<1> SUFFICES ASSUME input.script  PROVE EachHookIsRun
  BY DEF EachHookIsRun
<1> DEFINE lines == input.lines
           N == Len(lines)
           end == N + 1
           H == HeadersBefore(lines, end)
<1>1. N \in Nat /\ DOMAIN lines = 1 .. N  BY InputFacts DEF IInv
<1>2. H = {n \in DOMAIN lines : lines[n].kind = "hook"}
  <2>1. 1 .. end - 1 = 1 .. N  BY <1>1
  <2> QED  BY <1>1, <2>1 DEF HeadersBefore
<1>3. Headers = Ascending(H)  BY <1>2 DEF Headers
<1>4. IsFiniteSet(H) /\ H \subseteq Int
  <2>1. end \in Nat \ {0}  BY <1>1
  <2> HIDE DEF end
  <2> QED  BY <2>1, HeadersAreFinite
<1>5. Ascending(H) \in [1 .. Cardinality(H) -> H] /\ Len(Ascending(H)) = Cardinality(H)
  <2> HIDE DEF H
  <2> QED  BY <1>4, AscendingLists
<1>6. DOMAIN Headers = 1 .. Cardinality(H) /\ Len(Headers) = Cardinality(H)  BY <1>3, <1>5
<1>7. \A h, keys : Given(h, keys) = GivenBefore(lines, h, keys, end)
  <2>1. end - 1 = N  BY <1>1
  <2> QED  BY <2>1 DEF Given, GivenBefore
<1>8. \A h, keys, default : LastOf(h, keys, default) = LastBefore(lines, h, keys, default, end)
  <2> TAKE h, keys, default
  <2> DEFINE G == Given(h, keys)
  <2>1. LastOf(h, keys, default) = Final(lines, G, default)  BY DEF LastOf, Final
  <2>2. GivenBefore(lines, h, keys, end) = G  BY <1>7
  <2> HIDE DEF G, end
  <2> QED  BY <2>1, <2>2 DEF LastBefore
<1>9. ASSUME NEW h, NEW hook, Filled(lines, hook, h, end), Targeted(hook)
      PROVE  Declares(Declaration(hook), Written(h))
  <2> DEFINE w == Written(h)
  <2>1. \A f \in Fields : hook[f] = Of(f, LastOf(h, KeysOf(f), Default(f)))  BY <1>8, <1>9, Zenon DEF Filled
  <2>2. /\ KeysOf("kind") = {"replace", "detour"} /\ Default("kind") = [key |-> "replace"]
        /\ KeysOf("source") = {"replace", "detour", "source"} /\ Default("source") = [value |-> ""]
        /\ KeysOf("handler") = {"handler"} /\ Default("handler") = [value |-> "replacement"]
    BY DEF KeysOf, Kinds, Default, NoHook
  <2>3. \A f \in {"function", "signature", "class", "selector", "registers"} : KeysOf(f) = {f} /\ Default(f) = [value |-> ""]
    <3>1. /\ NoHook["function"] = "" /\ NoHook["signature"] = "" /\ NoHook["class"] = "" /\ NoHook["selector"] = ""
          /\ NoHook["registers"] = ""
      BY DEF NoHook
    <3>2. \A f \in {"function", "signature", "class", "selector", "registers"} : f # "kind" /\ f # "source" /\ NoHook[f] = ""
      BY <3>1
    <3> QED  BY <3>2 DEF KeysOf, Default
  <2>4. /\ w["kind"] = Of("kind", LastOf(h, KeysOf("kind"), Default("kind")))
        /\ w["source"] = Of("source", LastOf(h, KeysOf("source"), Default("source")))
        /\ w["handler"] = Of("handler", LastOf(h, KeysOf("handler"), Default("handler")))
    BY <2>2 DEF Written, Value, Of
  <2>5. /\ w["function"] = Of("function", LastOf(h, KeysOf("function"), Default("function")))
        /\ w["signature"] = Of("signature", LastOf(h, KeysOf("signature"), Default("signature")))
        /\ w["class"] = Of("class", LastOf(h, KeysOf("class"), Default("class")))
        /\ w["selector"] = Of("selector", LastOf(h, KeysOf("selector"), Default("selector")))
        /\ w["registers"] = Of("registers", LastOf(h, KeysOf("registers"), Default("registers")))
    BY <2>3 DEF Written, Value, Of
  <2> HIDE DEF w
  <2>6. \A f \in Fields : w[f] = Of(f, LastOf(h, KeysOf(f), Default(f)))  BY <2>4, <2>5 DEF Fields
  <2>7. \A f \in Fields : hook[f] = w[f]  BY <2>1, <2>6
  <2>8. /\ hook.kind = w.kind /\ hook.source = w.source /\ hook.handler = w.handler /\ hook.registers = w.registers
        /\ hook.function = w.function /\ hook.signature = w.signature
        /\ hook.class = w.class /\ hook.selector = w.selector
    BY <2>7 DEF Fields
  <2>9. Declares(Declaration(hook), w)  BY <1>9, <2>8 DEF Declares, Declaration, Targeted
  <2> QED  BY <2>9 DEF w
<1>10. /\ Len(selected) = Cardinality(H)
       /\ \A n \in 1 .. Cardinality(H) : \E i \in DOMAIN selected :
            /\ selected[i].name = ScriptName(n)
            /\ \E hook : /\ Filled(lines, hook, Ascending(H)[n], end)
                         /\ Targeted(hook) /\ selected[i].declares = Declaration(hook)
  BY DEF Asked
<1> HIDE DEF H, end
<1> QED  BY <1>3, <1>6, <1>9, <1>10 DEF EachHookIsRun

\* A run that succeeds has run what the script says and what the lists allow,
\* hook by hook (`load_patch_script`, `run_patch_script` and `run_pipeline`).
THEOREM RunsWhatIsAsked == Spec => []PluginsAsAsked
<1>1. IInv => PluginsAsAsked
  <2> SUFFICES ASSUME IInv, result = "done"  PROVE EachHookIsRun /\ ListsKept
    BY DEF PluginsAsAsked
  <2>1. Asked(input, selected) /\ Kept(input, selected)  BY DEF IInv
  <2>2. ListsKept  BY <2>1 DEF Kept, ListsKept
  <2> QED  BY <2>1, <2>2, AskedIs
<1> QED  BY <1>1, Invariant, PTL

\* However the process ends, `run_patch_script` has removed its directory, the
\* removal being taken to succeed; and the output is not touched while the plugins are not known.
THEOREM NothingIsLeft == Spec => []LeavesNothing
<1>1. IInv => LeavesNothing  BY DEF IInv, LeavesNothing
<1> QED  BY <1>1, Invariant, PTL
=============================================================================
