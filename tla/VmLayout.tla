------------------------------ MODULE VmLayout ------------------------------
(***************************************************************************)
(* The build step that turns the configured regions of the PD's address    *)
(* space into the constants of the C code and the linker scripts: each     *)
(* region is checked by itself, then neighbours in the order of their      *)
(* bases against each other, then the names the linker scripts need.  The  *)
(* first error ends it without a layout.                                   *)
(* Source: tools/gen_vm_layout.py.                                         *)
(***************************************************************************)
EXTENDS Integers, Sequences

CONSTANTS
  Words,     \* how many addresses there are: UINT64_MAX + 1
  PageSize,
  Configs    \* what VM_REGIONS may be

Region == [name : STRING, base : Int, size : Int]

ASSUME WordsAssumption == Words \in Nat \ {0}
ASSUME PageSizeAssumption == PageSize \in Nat \ {0}
ASSUME ConfigsAssumption == Configs \subseteq Seq(Region)

VARIABLES
  build,       \* where main of the generator is, or how it ended
  vm_regions,  \* the configuration
  at,          \* index of the first loop
  names,       \* names met in the first loop
  passed,      \* indices that the second loop has been over
  previous     \* the last of them; 0 at the start

layoutVars == <<build, vm_regions, at, names, passed, previous>>

Indices == DOMAIN vm_regions
End(r) == r.base + r.size

LayoutInit ==
  /\ build = "regions"
  /\ vm_regions \in Configs
  /\ at = 1
  /\ names = {} /\ passed = {} /\ previous = 0

(* Mutant of RegionValid: the end of the region is not checked. *)
RegionValidButEnd(r) ==
  /\ r.base >= 0 /\ r.base < Words
  /\ r.size > 0 /\ r.size < Words
  /\ r.base % PageSize = 0 /\ r.size % PageSize = 0

(* Python's integers do not wrap around. *)
RegionValid(r) ==
  /\ r.base >= 0 /\ r.base < Words
  /\ r.size > 0 /\ r.size < Words
  /\ r.base % PageSize = 0 /\ r.size % PageSize = 0
  /\ End(r) < Words

CheckRegion ==
  /\ build = "regions"
  /\ at <= Len(vm_regions)
  /\ RegionValid(vm_regions[at])
  /\ vm_regions[at].name \notin names
  /\ names' = names \cup {vm_regions[at].name}
  /\ at' = at + 1
  /\ UNCHANGED <<build, vm_regions, passed, previous>>

RejectRegion ==
  /\ build = "regions"
  /\ at <= Len(vm_regions)
  /\ ~RegionValid(vm_regions[at]) \/ vm_regions[at].name \in names
  /\ build' = "rejected"
  /\ UNCHANGED <<vm_regions, at, names, passed, previous>>

RegionsDone ==
  /\ build = "regions"
  /\ at > Len(vm_regions)
  /\ build' = "overlaps"
  /\ UNCHANGED <<vm_regions, at, names, passed, previous>>

(* n comes next in sorted(vm_regions, key = base), which is stable. *)
IsNext(n) ==
  /\ n \in Indices \ passed
  /\ \A m \in Indices \ passed :
       \/ vm_regions[n].base < vm_regions[m].base
       \/ vm_regions[n].base = vm_regions[m].base /\ n <= m

(* Mutants of Adjacent: starts are compared; a guard page is asked for. *)
AdjacentStarts(p, c) == p.base <= c.base
AdjacentGuarded(p, c) == End(p) < c.base

Adjacent(p, c) == End(p) <= c.base

CheckNext(n) ==
  /\ build = "overlaps"
  /\ IsNext(n)
  /\ previous # 0 => Adjacent(vm_regions[previous], vm_regions[n])
  /\ passed' = passed \cup {n}
  /\ previous' = n
  /\ UNCHANGED <<build, vm_regions, at, names>>

RejectOverlap(n) ==
  /\ build = "overlaps"
  /\ IsNext(n)
  /\ previous # 0 /\ ~Adjacent(vm_regions[previous], vm_regions[n])
  /\ build' = "rejected"
  /\ UNCHANGED <<vm_regions, at, names, passed, previous>>

RequireRegions ==
  /\ build = "overlaps"
  /\ passed = Indices
  /\ build' = IF {"LOADER_PROGRAM", "TRAMPOLINE_PROGRAM"} \subseteq names
              THEN "accepted" ELSE "rejected"
  /\ UNCHANGED <<vm_regions, at, names, passed, previous>>

LayoutNext ==
  \/ CheckRegion \/ RejectRegion \/ RegionsDone
  \/ \E n \in Indices : CheckNext(n) \/ RejectOverlap(n)
  \/ RequireRegions

LayoutSpec == LayoutInit /\ [][LayoutNext]_layoutVars
-----------------------------------------------------------------------------
(* Properties.                                                             *)

Disjoint(r, s) == End(r) <= s.base \/ End(s) <= r.base

(* What a layout has to be: regions of whole pages within the address      *)
(* space, no two of which share a name or an address.                      *)
Valid ==
  /\ \A n \in Indices : RegionValid(vm_regions[n])
  /\ \A n, m \in Indices :
       n # m => /\ vm_regions[n].name # vm_regions[m].name
                /\ Disjoint(vm_regions[n], vm_regions[m])

HasRequired ==
  \A name \in {"LOADER_PROGRAM", "TRAMPOLINE_PROGRAM"} :
    \E n \in Indices : vm_regions[n].name = name

(* To compare neighbours only is enough: the generator accepts a           *)
(* configuration if and only if all pairs of regions are disjoint, and the *)
(* rest is in order.                                                       *)
AcceptsExactlyValid ==
  /\ build = "accepted" => Valid /\ HasRequired
  /\ build = "rejected" => ~(Valid /\ HasRequired)
=============================================================================
