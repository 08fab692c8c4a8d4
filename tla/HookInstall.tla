----------------------------- MODULE HookInstall -----------------------------
(***************************************************************************)
(* What installing hooks promises.  Whatever happens, and wherever it      *)
(* stops, a hooked address leads to its dispatcher only once the           *)
(* dispatcher and every handler it calls are in the file; and a run that   *)
(* succeeds has installed every hook it was asked for.                     *)
(***************************************************************************)
VARIABLES wanted,    \* the hooks asked for
          ready,     \* the hooks whose dispatcher and handlers are in the file
          live,      \* the hooks whose address leads to their dispatcher
          outcome

Init == ready = {} /\ live = {} /\ outcome = "running"

Prepare ==
  /\ outcome = "running" /\ live = {}
  /\ ready' \in SUBSET wanted /\ ready \subseteq ready'
  /\ UNCHANGED <<wanted, live, outcome>>

Install ==
  /\ outcome = "running"
  /\ \E hook \in ready \ live : live' = live \cup {hook}
  /\ UNCHANGED <<wanted, ready, outcome>>

Succeed == outcome = "running" /\ live = wanted /\ outcome' = "succeeded" /\ UNCHANGED <<wanted, ready, live>>

Fail == outcome = "running" /\ outcome' = "failed" /\ UNCHANGED <<wanted, ready, live>>

Next == Prepare \/ Install \/ Succeed \/ Fail

Spec == Init /\ [][Next]_<<wanted, ready, live, outcome>>
=============================================================================
