--------------------------- MODULE LeastPrivilege ---------------------------
(***************************************************************************)
(* What the loader promises: a container runs with exactly the rights that *)
(* were asked for it, and between two containers the rights nobody asks    *)
(* for any more go before the first new one comes.                         *)
(***************************************************************************)
CONSTANT Rights   \* whatever can be granted to the PD

VARIABLES running, wanted, rights
vars == <<running, wanted, rights>>

Init == running = FALSE /\ wanted = {} /\ rights = {}

(* The rights of the next container are chosen. *)
Ask(want) ==
  /\ ~running
  /\ wanted' = want
  /\ UNCHANGED <<running, rights>>

Drop ==
  /\ ~running
  /\ rights' = rights \cap wanted
  /\ UNCHANGED <<running, wanted>>

Grant(r) ==
  /\ ~running
  /\ rights \subseteq wanted
  /\ r \in wanted
  /\ rights' = rights \cup {r}
  /\ UNCHANGED <<running, wanted>>

Run ==
  /\ ~running
  /\ rights = wanted
  /\ running' = TRUE
  /\ UNCHANGED <<wanted, rights>>

(* A stopped container leaves its rights in place. *)
Stop ==
  /\ running
  /\ running' = FALSE
  /\ UNCHANGED <<wanted, rights>>

Next ==
  \/ \E want \in SUBSET Rights : Ask(want)
  \/ Drop
  \/ \E r \in Rights : Grant(r)
  \/ Run
  \/ Stop

Spec == Init /\ [][Next]_vars
=============================================================================
