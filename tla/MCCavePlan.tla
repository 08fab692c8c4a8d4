----------------------------- MODULE MCCavePlan -----------------------------
(* Plugins with up to two sites and two wrappers, read-only or writable     *)
(* data, on Mach-O and on ELF.                                              *)
EXTENDS CavePlan

SeqUpTo(S, n) == UNION {[1 .. m -> S] : m \in 0 .. n}

MCSites == {[handlers |-> 1, overrides |-> TRUE], [handlers |-> 2, overrides |-> FALSE]}
MCWrappers == {[registers |-> 9, function |-> FALSE, entry |-> 0],
               [registers |-> 2, function |-> TRUE, entry |-> 8]}

MCPlugins ==
  [sites: SeqUpTo(MCSites, 2), wrappers: SeqUpTo(MCWrappers, 2), text: {12}, calls: {0, 2},
   extra: {0, 6}, writable: {FALSE}, macho: {TRUE}]
  \cup
  [sites: SeqUpTo(MCSites, 1), wrappers: SeqUpTo(MCWrappers, 1), text: {8}, calls: {1},
   extra: {6}, writable: BOOLEAN, macho: BOOLEAN]
=============================================================================
