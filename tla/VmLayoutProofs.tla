--------------------------- MODULE VmLayoutProofs ---------------------------
(***************************************************************************)
(* Theorems about VmLayout for every configuration, page size and number   *)
(* of addresses.                                                           *)
(***************************************************************************)
EXTENDS VmLayout, TLAPS

LayoutTypes ==
  /\ build \in {"regions", "overlaps", "accepted", "rejected"}
  /\ vm_regions \in Seq(Region)
  /\ at \in 1 .. Len(vm_regions) + 1
  /\ passed \subseteq Indices /\ previous \in Indices \cup {0}

(* What the first loop has seen is in order. *)
SeenInv ==
  /\ \A n \in 1 .. at - 1 : RegionValid(vm_regions[n])
  /\ \A n, m \in 1 .. at - 1 : n # m => vm_regions[n].name # vm_regions[m].name
  /\ names = {vm_regions[n].name : n \in 1 .. at - 1}
  /\ build \in {"overlaps", "accepted"} => at = Len(vm_regions) + 1
  /\ build = "regions" => passed = {}

(* The second loop goes upwards; what it has been over ends, all but the   *)
(* last region, where the last one starts at the latest.                   *)
PassedInv ==
  /\ (previous = 0) <=> (passed = {})
  /\ passed # {} => previous \in passed
  /\ \A n \in passed : \A m \in Indices \ passed : vm_regions[n].base <= vm_regions[m].base
  /\ \A n \in passed \ {previous} : End(vm_regions[n]) <= vm_regions[previous].base
  /\ \A n, m \in passed : n # m => Disjoint(vm_regions[n], vm_regions[m])

EndInv ==
  /\ build = "accepted" =>
       passed = Indices /\ {"LOADER_PROGRAM", "TRAMPOLINE_PROGRAM"} \subseteq names
  /\ build = "rejected" => ~(Valid /\ HasRequired)

LayoutInv == LayoutTypes /\ SeenInv /\ PassedInv /\ EndInv

LEMMA RegionNumbers ==
  ASSUME LayoutTypes, NEW n \in Indices
  PROVE  /\ vm_regions[n].base \in Int /\ vm_regions[n].size \in Int
         /\ End(vm_regions[n]) = vm_regions[n].base + vm_regions[n].size
         /\ Indices = 1 .. Len(vm_regions) /\ Len(vm_regions) \in Nat
<1>1. vm_regions \in Seq(Region)
  BY DEF LayoutTypes
<1>2. vm_regions[n] \in Region /\ Indices = 1 .. Len(vm_regions) /\ Len(vm_regions) \in Nat
  BY <1>1 DEF Indices
<1> QED
  BY <1>2 DEF Region, End

LEMMA IndicesAre ==
  ASSUME LayoutTypes
  PROVE  Indices = 1 .. Len(vm_regions) /\ Len(vm_regions) \in Nat
BY DEF LayoutTypes, Indices

LEMMA CheckRegionStep ==
  ASSUME LayoutInv, CheckRegion
  PROVE  LayoutInv'
<1> USE DEF LayoutInv, CheckRegion
<1>1. at \in Nat /\ Len(vm_regions) \in Nat /\ at' = at + 1 /\ 1 .. at' - 1 = (1 .. at - 1) \cup {at}
  BY IndicesAre DEF LayoutTypes
<1>2. LayoutTypes'
  BY <1>1 DEF LayoutTypes, Indices
<1>3. \A n \in 1 .. at - 1 : vm_regions[n].name # vm_regions[at].name
  BY DEF SeenInv
<1>4. SeenInv'
  BY <1>1, <1>3 DEF SeenInv, RegionValid, End
<1>5. PassedInv'
  BY DEF PassedInv, Indices, End, Disjoint
<1>6. EndInv'
  BY DEF EndInv
<1> QED
  BY <1>2, <1>4, <1>5, <1>6

LEMMA RejectRegionStep ==
  ASSUME LayoutInv, RejectRegion
  PROVE  LayoutInv'
<1> USE DEF LayoutInv, RejectRegion
<1>1. at \in Indices
  BY IndicesAre DEF LayoutTypes
<1>2. ~Valid
  <2>1. CASE ~RegionValid(vm_regions[at])
    BY <1>1, <2>1 DEF Valid
  <2>2. CASE vm_regions[at].name \in names
    <3>1. PICK n \in 1 .. at - 1 : vm_regions[n].name = vm_regions[at].name
      BY <2>2 DEF SeenInv
    <3>2. n \in Indices /\ n # at
      BY <1>1, <3>1, IndicesAre
    <3> QED
      BY <1>1, <3>1, <3>2 DEF Valid
  <2> QED
    BY <2>1, <2>2
<1>3. ~Valid'
  BY <1>2 DEF Valid, RegionValid, Indices, Disjoint, End
<1>4. LayoutTypes' /\ SeenInv'
  BY DEF LayoutTypes, SeenInv, Indices, RegionValid, End
<1>5. PassedInv' /\ EndInv'
  BY <1>3 DEF PassedInv, EndInv, Indices, End, Disjoint
<1> QED
  BY <1>4, <1>5

LEMMA RegionsDoneStep ==
  ASSUME LayoutInv, RegionsDone
  PROVE  LayoutInv'
<1> USE DEF LayoutInv, RegionsDone
<1>1. at = Len(vm_regions) + 1
  BY IndicesAre DEF LayoutTypes
<1> QED
  BY <1>1 DEF LayoutTypes, SeenInv, PassedInv, EndInv, Indices, RegionValid, End, Disjoint

(* In the second loop all regions have been checked by themselves. *)
LEMMA AllRegionsValid ==
  ASSUME LayoutInv, build \in {"overlaps", "accepted"}
  PROVE  /\ \A n \in Indices : RegionValid(vm_regions[n])
         /\ \A n, m \in Indices : n # m => vm_regions[n].name # vm_regions[m].name
         /\ names = {vm_regions[n].name : n \in Indices}
<1>1. Indices = 1 .. at - 1
  BY IndicesAre DEF LayoutInv, SeenInv, LayoutTypes
<1> QED
  BY <1>1 DEF LayoutInv, SeenInv

LEMMA CheckNextStep ==
  ASSUME LayoutInv, NEW n \in Indices, CheckNext(n)
  PROVE  LayoutInv'
<1> USE DEF LayoutInv, CheckNext
<1>1. n \in Indices \ passed /\ passed' = passed \cup {n} /\ previous' = n
  BY DEF IsNext
<1>2. \A m \in Indices \ passed : vm_regions[n].base <= vm_regions[m].base
  BY RegionNumbers DEF IsNext
<1>3. 0 \notin Indices
  BY IndicesAre
<1>4. \A m \in passed : End(vm_regions[m]) <= vm_regions[n].base
  <2> SUFFICES ASSUME NEW m \in passed
               PROVE  End(vm_regions[m]) <= vm_regions[n].base
    OBVIOUS
  <2>1. previous \in passed /\ previous # 0 /\ previous \in Indices /\ m \in Indices
    BY DEF PassedInv, LayoutTypes
  <2>2. End(vm_regions[previous]) <= vm_regions[n].base
    BY <2>1 DEF Adjacent
  <2>3. CASE m = previous
    BY <2>2, <2>3
  <2>4. CASE m # previous
    <3>1. End(vm_regions[m]) <= vm_regions[previous].base
      BY <2>4 DEF PassedInv
    <3>2. vm_regions[previous].size > 0
      BY <2>1, AllRegionsValid DEF RegionValid
    <3> QED
      BY <2>1, <2>2, <3>1, <3>2, RegionNumbers
  <2> QED
    BY <2>3, <2>4
<1>5. \A m \in passed : vm_regions[m].base <= vm_regions[n].base
  BY <1>1 DEF PassedInv
<1>6. PassedInv'
  <2>1. (previous' = 0 <=> passed' = {}) /\ previous' \in passed'
    BY <1>1, <1>3
  <2>2. \A k \in passed' : \A m \in Indices \ passed' : vm_regions[k].base <= vm_regions[m].base
    BY <1>1, <1>2 DEF PassedInv
  <2>3. \A k \in passed' \ {previous'} : End(vm_regions[k]) <= vm_regions[previous'].base
    BY <1>1, <1>4
  <2>4. \A k, m \in passed' : k # m => Disjoint(vm_regions[k], vm_regions[m])
    BY <1>1, <1>4 DEF PassedInv, Disjoint
  <2> QED
    BY <2>1, <2>2, <2>3, <2>4 DEF PassedInv, Indices, End, Disjoint
<1>7. LayoutTypes' /\ SeenInv' /\ EndInv'
  BY <1>1 DEF LayoutTypes, SeenInv, EndInv, Indices, RegionValid, End
<1> QED
  BY <1>6, <1>7

LEMMA RejectOverlapStep ==
  ASSUME LayoutInv, NEW n \in Indices, RejectOverlap(n)
  PROVE  LayoutInv'
<1> USE DEF LayoutInv, RejectOverlap
<1>1. previous \in passed /\ previous \in Indices /\ n \notin passed
  BY DEF PassedInv, LayoutTypes, IsNext
<1>2. vm_regions[previous].base <= vm_regions[n].base
  BY <1>1 DEF PassedInv
<1>3. ~(End(vm_regions[previous]) <= vm_regions[n].base)
  BY DEF Adjacent
<1>4. vm_regions[n].size > 0
  BY AllRegionsValid DEF RegionValid
<1>5. ~Disjoint(vm_regions[previous], vm_regions[n])
  BY <1>1, <1>2, <1>3, <1>4, RegionNumbers DEF Disjoint
<1>6. ~Valid
  BY <1>1, <1>5 DEF Valid
<1>7. ~Valid'
  BY <1>6 DEF Valid, RegionValid, Indices, Disjoint, End
<1>8. LayoutTypes' /\ SeenInv'
  BY DEF LayoutTypes, SeenInv, Indices, RegionValid, End
<1>9. PassedInv' /\ EndInv'
  BY <1>7 DEF PassedInv, EndInv, Indices, End, Disjoint
<1> QED
  BY <1>8, <1>9

LEMMA RequireRegionsStep ==
  ASSUME LayoutInv, RequireRegions
  PROVE  LayoutInv'
<1> USE DEF LayoutInv, RequireRegions
<1>1. LayoutTypes' /\ SeenInv'
  BY DEF LayoutTypes, SeenInv, Indices, RegionValid, End
<1>2. PassedInv'
  BY DEF PassedInv, Indices, End, Disjoint
<1>3. HasRequired => {"LOADER_PROGRAM", "TRAMPOLINE_PROGRAM"} \subseteq names
  BY AllRegionsValid DEF HasRequired
<1>4. HasRequired' <=> HasRequired
  BY DEF HasRequired, Indices
<1>5. EndInv'
  BY <1>3, <1>4 DEF EndInv, Indices
<1> QED
  BY <1>1, <1>2, <1>5

LEMMA LayoutStep == LayoutInv /\ [LayoutNext]_layoutVars => LayoutInv'
<1> SUFFICES ASSUME LayoutInv, [LayoutNext]_layoutVars
             PROVE  LayoutInv'
  OBVIOUS
<1>1. CASE UNCHANGED layoutVars
  BY <1>1 DEF layoutVars, LayoutInv, LayoutTypes, SeenInv, PassedInv, EndInv, Valid,
              HasRequired, Indices, RegionValid, End, Disjoint
<1> QED
  BY <1>1, CheckRegionStep, RejectRegionStep, RegionsDoneStep, CheckNextStep,
     RejectOverlapStep, RequireRegionsStep DEF LayoutNext

LEMMA LayoutStart == LayoutInit => LayoutInv
<1> SUFFICES ASSUME LayoutInit PROVE LayoutInv
  OBVIOUS
<1>1. vm_regions \in Seq(Region) /\ Len(vm_regions) \in Nat
  BY ConfigsAssumption DEF LayoutInit
<1> QED
  BY <1>1 DEF LayoutInit, LayoutInv, LayoutTypes, SeenInv, PassedInv, EndInv

(* An accepted layout is valid; a rejected one is not. *)
LEMMA AcceptedValid == LayoutInv => AcceptsExactlyValid
<1> SUFFICES ASSUME LayoutInv, build = "accepted"
             PROVE  Valid /\ HasRequired
  BY DEF LayoutInv, EndInv, AcceptsExactlyValid
<1>1. Valid
  BY AllRegionsValid DEF LayoutInv, EndInv, PassedInv, Valid
<1>2. HasRequired
  BY AllRegionsValid DEF LayoutInv, EndInv, HasRequired
<1> QED
  BY <1>1, <1>2

(* Comparing neighbours finds every overlap, and no other configuration    *)
(* is refused.                                                             *)
THEOREM NeighboursAreEnough == LayoutSpec => []AcceptsExactlyValid
<1>1. LayoutSpec => []LayoutInv
  BY LayoutStart, LayoutStep, PTL DEF LayoutSpec
<1> QED
  BY <1>1, AcceptedValid, PTL
=============================================================================
