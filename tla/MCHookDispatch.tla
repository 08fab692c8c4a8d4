--------------------------- MODULE MCHookDispatch ---------------------------
(* Every kind of hook, with up to two handlers of up to two registers.      *)
EXTENDS HookDispatch

X(r) == [register |-> r, wide |-> TRUE]
W(r) == [register |-> r, wide |-> FALSE]

MCOperands == {X(0), X(3), W(1), X(4), X(16), X(19)}
MCHandlers == {<<>>} \cup {<<a>> : a \in {X(2), W(19)}} \cup {<<a, b>> : a, b \in MCOperands}

Hooked(kinds, handlers) ==
  [kind: kinds, handlers: handlers, macho: BOOLEAN, signed: BOOLEAN]

\* Nine registers, the last of which is not moved.
Nine == <<X(0), X(1), X(2), X(3), X(4), X(19), X(19), X(29), X(19)>>

MCHooks ==
  Hooked({"detour", "replace"}, {<<a>> : a \in MCHandlers} \cup {<<<<X(3)>>, b>> : b \in MCHandlers})
  \cup Hooked({"function"}, {<<a>> : a \in (MCHandlers \cup {Nine}) \ {<<>>}})

\* One detour, without arguments of its own.
PlainHooks == Hooked({"detour"}, {<<<<>>>>})

SwapHooks == Hooked({"detour"}, {<<<<X(1), X(0)>>>>})
=============================================================================
