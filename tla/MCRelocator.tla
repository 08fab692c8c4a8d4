---------------------------- MODULE MCRelocator ----------------------------
(* Windows of up to three instructions at 384, the start of a page, copied  *)
(* to 240 or to 560, from where some of the targets are just in reach at    *)
(* one instruction of the window and just out of reach at the next.  CBZ    *)
(* and ADR have the reach of BCond and are tried with few targets.          *)
EXTENDS Relocator

Insn(kind, target, always) == [kind |-> kind, target |-> target, always |-> always]

MCInstructions ==
  {Insn(kind, target, FALSE) : kind \in {"B", "BCond", "TBZ", "LDR"},
                               target \in {384, 392, 320, 360, 440}}
  \cup {Insn("ADRP", page, FALSE) : page \in {64, 384, 448}}
  \cup {Insn("BCond", 320, TRUE), Insn("Other", 0, FALSE)}
  \cup {Insn("CBZ", 392, FALSE), Insn("ADR", 410, FALSE)}
=============================================================================
