--------------------------- MODULE MCPatchScript ---------------------------
(* Scripts of up to six lines, and directories of up to three plugins.      *)
EXTENDS PatchScript

MCScriptName(n) == 100 + n

L(kind, key, value) == [kind |-> kind, key |-> key, value |-> value]
Target == L("target", "", "")
Hook == L("hook", "", "")
Is(key, value) == L("assignment", key, value)

HookLines == {<<Hook, Is("function", "f"), Is("replace", "a"), Is("registers", "x1")>>,
              <<Hook, Is("replace", "a"), Is("detour", "b"), Is("signature", "s"), Is("function", "g")>>,
              <<Hook, Is("class", "c"), Is("selector", "s"), Is("detour", "b"), Is("handler", "h")>>,
              <<Hook, Is("selector", "t"), Is("function", "e"), Is("replace", "b"), Is("registers", "x0")>>,
              <<Hook, Is("class", "d"), Is("selector", "t"), Is("signature", "r"), Is("source", "a")>>,
              <<Hook, Is("function", "f"), Is("source", "missing")>>,
              <<Hook, Is("detour", "a"), Is("function", "f"), Is("replace", "b")>>,
              <<Hook, Is("function", "f")>>, <<Hook, Is("class", "c"), Is("replace", "a")>>,
              <<Is("handler", "h"), Is("colour", "red")>>}
TargetLines == {<<Target, Is("binary", "x")>>, <<Target, Is("binary", "x"), Is("output", "y"), Is("plugins", "p")>>,
                <<Target, Is("output", "y")>>}
Scripts == {t \o h : t \in TargetLines, h \in HookLines} \cup {h \o t : t \in TargetLines, h \in HookLines}
           \cup {t \o h \o g : t \in TargetLines, h, g \in HookLines}
           \cup {h \o t \o g : t \in TargetLines, h, g \in HookLines}
           \cup {<<L("other", "", "")>>, <<>>, <<Hook, Is("function", "f"), L("other", "", "")>>}

File(name) == [name |-> name, directory |-> FALSE, sources |-> {}, declares |-> Declaration(NoHook)]
Directory(name, sources) == [name |-> name, directory |-> TRUE, sources |-> sources, declares |-> Declaration(NoHook)]
Entry == {File(1), File(2), Directory(1, {1, 5}), Directory(3, {4, 5}), Directory(3, {5, 6}), Directory(2, {})}
Item(name, extension) == [name |-> name, extension |-> extension]
Lists == {{}, {Item(1, FALSE)}, {Item(1, FALSE), Item(3, FALSE)}, {Item(7, FALSE)}, {Item(1, TRUE)}}

Command(isScript, lines, entries, white, black) ==
  [script |-> isScript, lines |-> lines, entries |-> entries, white |-> white, black |-> black, files |-> {"a", "b"}]

MCInputs ==
  {Command(TRUE, lines, entries, {}, {}) : lines \in Scripts, entries \in {{File(1)}, {File(1), Directory(1, {1})}}}
  \cup {Command(FALSE, <<>>, entries, white, black) :
          entries \in {e \in SUBSET Entry : Cardinality(e) <= 3}, white \in Lists, black \in Lists}
=============================================================================
