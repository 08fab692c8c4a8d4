----------------------------- MODULE MCPipeline -----------------------------
(* Inputs of up to two plugins for a program of twelve instructions.        *)
EXTENDS Pipeline

Act(kind, at, size) == [kind |-> kind, at |-> at, size |-> size, expected |-> "none",
                        label |-> FALSE, fault |-> "none"]
Expecting(what, action) == [action EXCEPT !.expected = what]
Wrong(fault, action) == [action EXCEPT !.fault = fault]
Detour(at) == Act("detour", at, 0)
Replace(at) == Act("replace", at, 0)
Patch(at, size) == Act("patch", at, size)
A(actions) == [segment |-> "a", data |-> TRUE, actions |-> actions]
B(actions) == [segment |-> "b", data |-> FALSE, actions |-> actions]
Given(plugins) == [plugins |-> plugins, segments |-> {"text"}, coarse |-> TRUE]
Fine(inputs) == {[i EXCEPT !.coarse = FALSE] : i \in inputs}

\* Two plugins share a hook, and one plugin owns none; patches keep clear of
\* the windows.
Clear == {
  Given(<<A(<<Detour(1), Patch(6, 1)>>), B(<<Detour(1), Replace(7), Patch(12, 1)>>)>>),
  Given(<<A(<<Detour(1), Expecting("code", Patch(6, 1)), Act("function", 0, 0)>>), B(<<Detour(1)>>)>>),
  Given(<<A(<<Expecting("other", Patch(6, 1)), Patch(12, 1)>>), B(<<Detour(11)>>)>>),
  Given(<<A(<<Patch(6, 1), Expecting("code", Patch(6, 1))>>)>>),
  Given(<<A(<<[Patch(6, 1) EXCEPT !.label = TRUE]>>)>>) }

\* One thing wrong, found at each step of the run.
Refused ==
  {Given(<<A(<<Detour(1), Patch(6, 1)>>), B(<<Wrong(fault, action)>>)>>) :
     fault \in {"address", "handler", "relocation", "instruction"}, action \in {Detour(7)}}
  \cup {Given(<<A(<<Detour(1), Patch(6, 1), action>>)>>) :
     action \in {Wrong("assembly", Patch(12, 1)), Expecting("size", Patch(12, 1)), Patch(13, 1),
                 Detour(13), Replace(1)}}
  \cup {[Given(<<A(<<Detour(1)>>)>>) EXCEPT !.segments = {"a"}],
        Given(<<>>), Given(<<A(<<>>), B(<<>>)>>)}

\* Patches of words a hook overwrites, and of words already patched.
Mixed == {
  Given(<<A(<<Detour(1), Detour(7), Patch(8, 2)>>), B(<<Patch(9, 2), Detour(1)>>)>>),
  Given(<<A(<<Replace(1), Patch(2, 1), Detour(7), Expecting("other", Patch(7, 1)), Patch(8, 1)>>)>>) }

\* Where a patch meets a hook, the clock tells two writes apart.
MCInputs == Clear \cup Refused \cup Fine(Mixed)
=============================================================================
