----------------------------- MODULE CapService -----------------------------
(***************************************************************************)
(* What the loader relies on when it calls the capability operations: a    *)
(* right is there or not, a call changes the one right it is about, and    *)
(* without the grant nothing changes.  A call that fails stops the PD,     *)
(* with every right as it was.                                             *)
(***************************************************************************)
CONSTANTS
  Rights,   \* channels that are delegated
  Areas     \* memory regions that are delegated

VARIABLES
  up,       \* has the PD not crashed?
  grant,    \* can it reach its delegation CNode?
  held,     \* the channels it has
  mapped    \* the regions it can reach from the first to the last page
vars == <<up, grant, held, mapped>>

Init == up = TRUE /\ grant = FALSE /\ held = {} /\ mapped = {}

Privilege == grant' = TRUE /\ UNCHANGED <<up, held, mapped>>
Deprivilege == up /\ grant' = FALSE /\ UNCHANGED <<up, held, mapped>>

(* A right comes only when it was not there. *)
Restore(right) ==
  /\ up /\ grant
  /\ right \notin held
  /\ held' = held \cup {right}
  /\ UNCHANGED <<up, grant, mapped>>

Revoke(right) ==
  /\ up /\ grant
  /\ held' = held \ {right}
  /\ UNCHANGED <<up, grant, mapped>>

Map(area) ==
  /\ up /\ grant
  /\ mapped' = mapped \cup {area}
  /\ UNCHANGED <<up, grant, held>>

Unmap(area) ==
  /\ up /\ grant
  /\ mapped' = mapped \ {area}
  /\ UNCHANGED <<up, grant, held>>

Crash == up /\ up' = FALSE /\ UNCHANGED <<grant, held, mapped>>
Restart == ~up /\ up' = TRUE /\ UNCHANGED <<grant, held, mapped>>

Next ==
  \/ Privilege \/ Deprivilege \/ Crash \/ Restart
  \/ \E right \in Rights : Restore(right) \/ Revoke(right)
  \/ \E area \in Areas : Map(area) \/ Unmap(area)

Spec == Init /\ [][Next]_vars
=============================================================================
