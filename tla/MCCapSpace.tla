----------------------------- MODULE MCCapSpace -----------------------------
(***************************************************************************)
(* Small instances of CapSpace: two channel numbers, a notification and a  *)
(* PPC delegated, the slots those of the code.                             *)
(***************************************************************************)
EXTENDS CapSpace

R(s, n, a) == [slot |-> s, cap_count |-> n, arg0 |-> a]
MCDelegated == {<<"ntfn", 0>>, <<"ppc", 1>>}
MCAddresses == 1 .. 8

(* Two pages at the lower end of the range of slots, one page, two pages   *)
(* across the upper end of the range, one past it, and two of which the    *)
(* second cannot be mapped at its address.                                 *)
MCRegions == {R(138, 2, 1), R(140, 1, 3), R(959, 2, 4), R(961, 1, 6), R(141, 2, 7)}
=============================================================================
