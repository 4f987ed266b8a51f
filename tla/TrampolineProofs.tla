-------------------------- MODULE TrampolineProofs --------------------------
(***************************************************************************)
(* Theorems about Trampoline for every configuration of the layout.        *)
(***************************************************************************)
EXTENDS Trampoline, VmLayoutProofs

(* The names of the extents in their order. *)
Doomed == <<StackName, "LOADER_METADATA", "TXLO_XRT_REQ", "CONTAINER_STACK",
            "LOADER_CONTEXT", "LOADER_PROGRAM">>

Complete == LayoutInv /\ build = "accepted" /\ Needed \subseteq names

Inside(e) == e.address .. e.address + e.size - 1

LEMMA NamedIs ==
  ASSUME Complete, NEW name \in Needed
  PROVE  \E n \in Indices : Named(name) = vm_regions[n] /\ vm_regions[n].name = name
<1>1. \E n \in Indices : vm_regions[n].name = name
  BY AllRegionsValid DEF Complete
<1> QED
  BY <1>1 DEF Named

LEMMA NamedNumbers ==
  ASSUME Complete, NEW name \in Needed
  PROVE  /\ Named(name).base \in Nat /\ Named(name).size \in Nat
         /\ Named(name).size > 0 /\ Named(name).size % PageSize = 0
         /\ Named(name).base < Words /\ Named(name).size < Words
         /\ Named(name).base + Named(name).size < Words
         /\ Span(name) = Named(name).base .. Named(name).base + Named(name).size - 1
         /\ Span(name) \subseteq Address
<1>1. PICK n \in Indices : Named(name) = vm_regions[n]
  BY NamedIs
<1>2. RegionValid(vm_regions[n])
  BY AllRegionsValid DEF Complete
<1>3. Named(name).base \in Int /\ Named(name).size \in Int
  BY <1>1, RegionNumbers DEF Complete, LayoutInv
<1>4. /\ Named(name).base >= 0 /\ Named(name).base < Words
      /\ Named(name).size > 0 /\ Named(name).size < Words
      /\ Named(name).size % PageSize = 0
      /\ Named(name).base + Named(name).size < Words
  BY <1>1, <1>2 DEF RegionValid, End
<1>5. Span(name) = Named(name).base .. Named(name).base + Named(name).size - 1
  <2>1. End(Named(name)) = Named(name).base + Named(name).size
    BY DEF End
  <2>2. Span(name) = Named(name).base .. End(Named(name)) - 1
    BY DEF Span
  <2> QED
    BY <1>3, <2>1, <2>2
<1> QED
  BY <1>3, <1>4, <1>5, WordsAssumption DEF Address

LEMMA SparedNeeded == Spared \subseteq Needed
BY DEF Spared, Needed

LEMMA SpansDisjoint ==
  ASSUME Complete, NEW x \in Needed, NEW y \in Needed, x # y
  PROVE  Span(x) \cap Span(y) = {}
<1>1. PICK n \in Indices : Named(x) = vm_regions[n] /\ vm_regions[n].name = x
  BY NamedIs
<1>2. PICK m \in Indices : Named(y) = vm_regions[m] /\ vm_regions[m].name = y
  BY NamedIs
<1>3. Disjoint(vm_regions[n], vm_regions[m])
  BY <1>1, <1>2 DEF Complete, LayoutInv, EndInv, PassedInv
<1>4. \/ Named(x).base + Named(x).size <= Named(y).base
      \/ Named(y).base + Named(y).size <= Named(x).base
  BY <1>1, <1>2, <1>3 DEF Disjoint, End
<1> QED
  BY <1>4, NamedNumbers

LEMMA StackHasPage ==
  ASSUME Complete
  PROVE  PageSize <= Named(StackName).size
<1>1. StackName \in Needed
  BY DEF Needed
<1>2. Named(StackName).size \in Nat /\ Named(StackName).size > 0
      /\ Named(StackName).size % PageSize = 0
  BY <1>1, NamedNumbers
<1> DEFINE size == Named(StackName).size
<1>3. \A s \in Nat : s > 0 /\ s < PageSize => s % PageSize = s
  BY PageSizeAssumption
<1> QED
  BY <1>2, <1>3, PageSizeAssumption

(* The extents in terms of the layout. *)
LEMMA Extents ==
  ASSUME Complete
  PROVE  /\ Len(TrampRegions) = 6 /\ DOMAIN TrampRegions = 1 .. 6
         /\ \A n \in 1 .. 6 :
              /\ Doomed[n] \in Needed /\ Doomed[n] \notin Spared
              /\ Inside(TrampRegions[n]) \subseteq Span(Doomed[n])
              /\ n # 1 \/ Named(StackName).size = PageSize =>
                   Inside(TrampRegions[n]) = Span(Doomed[n])
              /\ TrampRegions[n] \in {e \in [address : Address, size : Address] :
                                        e.address + e.size < Words}
<1>1. Len(TrampRegions) = 6 /\ DOMAIN TrampRegions = 1 .. 6
  BY DEF TrampRegions
<1>2. \A n \in 2 .. 6 : TrampRegions[n] = Whole(Doomed[n])
  BY DEF TrampRegions, Doomed
<1>3. \A n \in 1 .. 6 : Doomed[n] \in Needed /\ Doomed[n] \notin Spared
  BY StackNameAssumption DEF Doomed, Needed, Spared
<1>4. ASSUME NEW name \in Needed
      PROVE  /\ Inside(Whole(name)) = Span(name)
             /\ Whole(name) \in {e \in [address : Address, size : Address] :
                                   e.address + e.size < Words}
  <2>1. Whole(name) = [address |-> Named(name).base, size |-> Named(name).size]
    BY DEF Whole, Extent
  <2>2. Named(name).base \in Address /\ Named(name).size \in Address
    BY NamedNumbers, WordsAssumption DEF Address
  <2> QED
    BY <2>1, <2>2, NamedNumbers DEF Inside
<1>5. /\ TrampRegions[1] = [address |-> Named(StackName).base, size |-> PageSize]
      /\ Doomed[1] = StackName
  BY DEF TrampRegions, Extent, Doomed
<1>6. StackName \in Needed
  BY DEF Needed
<1>7. /\ Named(StackName).base \in Address /\ PageSize \in Address
      /\ Named(StackName).base + PageSize < Words
  BY <1>6, NamedNumbers, StackHasPage, WordsAssumption, PageSizeAssumption DEF Address
<1>8. /\ Inside(TrampRegions[1]) = Named(StackName).base .. Named(StackName).base + PageSize - 1
      /\ TrampRegions[1] \in {e \in [address : Address, size : Address] :
                                e.address + e.size < Words}
  BY <1>5, <1>7 DEF Inside
<1>9. /\ Inside(TrampRegions[1]) \subseteq Span(StackName)
      /\ Named(StackName).size = PageSize => Inside(TrampRegions[1]) = Span(StackName)
  BY <1>6, <1>8, NamedNumbers, StackHasPage, PageSizeAssumption
<1>10. ASSUME NEW n \in 1 .. 6
       PROVE  /\ Inside(TrampRegions[n]) \subseteq Span(Doomed[n])
              /\ n # 1 \/ Named(StackName).size = PageSize =>
                   Inside(TrampRegions[n]) = Span(Doomed[n])
              /\ TrampRegions[n] \in {e \in [address : Address, size : Address] :
                                        e.address + e.size < Words}
  <2>1. CASE n = 1
    BY <2>1, <1>5, <1>8, <1>9
  <2>2. CASE n # 1
    <3>1. n \in 2 .. 6
      BY <2>2
    <3> QED
      BY <3>1, <1>2, <1>3, <1>4
  <2> QED
    BY <2>1, <2>2
<1> QED
  BY <1>1, <1>3, <1>10

(* Nothing that depends on the layout and the arguments only changes. *)
LEMMA LayoutFrame ==
  ASSUME UNCHANGED layoutVars
  PROVE  /\ \A name : Span(name)' = Span(name)
         /\ TrampRegions' = TrampRegions
         /\ \A n : Inside(TrampRegions[n])' = Inside(TrampRegions[n])
         /\ \A regions : IpcApartFrom(regions)' <=> IpcApartFrom(regions)
<1>1. /\ \A name : Span(name)' = Span(name)
      /\ TrampRegions' = TrampRegions
  BY DEF layoutVars, Span, Named, End, Indices, TrampRegions, Whole, Extent
<1>2. \A n : Inside(TrampRegions[n])' = Inside(TrampRegions[n])
  BY <1>1 DEF Inside
<1>3. \A regions : IpcApartFrom(regions)' <=> IpcApartFrom(regions)
  BY <1>1 DEF IpcApartFrom, IpcPage
<1> QED
  BY <1>1, <1>2, <1>3

(* What had its turn is zero; what must be spared is as it was and the     *)
(* message is where it was written, as far as regions and buffer are apart. *)
Zeroed == \A n \in 1 .. turn - 1 : \A a \in Inside(TrampRegions[n]) : memory[a] = "zero"
SparedInv == IpcApartFrom(Spared) => \A name \in Spared : Intact(name)
MessageInv == IpcApartFrom(Needed) => \A a \in IpcPage : memory[a] = "message"

(* From the jump to the trampoline on, the layout is fixed. *)
RunInv ==
  /\ pc \in {"built", "backup", "calling", "wipe", "container", "aborted", "astray"}
  /\ DOMAIN memory = Address
  /\ turn \in 1 .. 7
  /\ pc = "built" => args = <<>>
  /\ pc \in {"built", "backup", "calling"} => turn = 1
  /\ pc # "built" => build = "accepted" /\ Needed \subseteq names /\ args = TrampRegions
  /\ pc # "built" => SparedInv
  /\ pc # "built" => Zeroed
  /\ pc \in {"calling", "wipe", "container"} => MessageInv
  /\ pc = "container" => turn = 7

LEMMA FillStep ==
  ASSUME LayoutInv, RunInv, FillTrampArgs
  PROVE  RunInv'
<1>1. Complete
  BY DEF FillTrampArgs, Complete
<1>2. ASSUME NEW name \in Needed, NEW a \in Span(name)
      PROVE  memory'[a] = name
  <2>1. a \in Address
    BY <1>1, NamedNumbers
  <2>2. \A other \in Needed : a \in Span(other) => other = name
    BY <1>1, <1>2, SpansDisjoint
  <2> QED
    BY <1>2, <2>1, <2>2 DEF FillTrampArgs
<1>3. UNCHANGED layoutVars
  BY DEF FillTrampArgs
<1>4. SparedInv'
  <2>1. \A name \in Spared : \A a \in Span(name)' : memory'[a] = name
    BY <1>2, <1>3, SparedNeeded, LayoutFrame
  <2> QED
    BY <2>1 DEF SparedInv, Intact
<1>5. turn' = 1 /\ Zeroed'
  <2>1. turn' = 1 /\ 1 .. turn' - 1 = {}
    BY DEF FillTrampArgs, RunInv
  <2> QED
    BY <2>1 DEF Zeroed
<1>6. args' = TrampRegions' /\ DOMAIN memory' = Address /\ pc' = "backup"
  BY <1>3, LayoutFrame DEF FillTrampArgs
<1>7. build' = "accepted" /\ Needed \subseteq names'
  BY DEF FillTrampArgs, layoutVars
<1> QED
  BY <1>4, <1>5, <1>6, <1>7 DEF RunInv

(* The call writes in the page of the IPC buffer only. *)
LEMMA BackupStep ==
  ASSUME LayoutInv, RunInv, Backup
  PROVE  RunInv'
<1>1. Complete
  BY DEF RunInv, Backup, Complete
<1>2. UNCHANGED layoutVars
  BY DEF Backup
<1>3. SparedInv'
  <2> SUFFICES ASSUME IpcApartFrom(Spared), NEW name \in Spared, NEW a \in Span(name)
               PROVE  memory'[a] = name
    BY <1>2, LayoutFrame DEF SparedInv, Intact
  <2>1. a \in Address
    BY <1>1, SparedNeeded, NamedNumbers
  <2>2. a \notin IpcPage
    BY DEF IpcApartFrom
  <2>3. memory[a] = name
    BY DEF RunInv, Backup, SparedInv, Intact
  <2> QED
    BY <2>1, <2>2, <2>3 DEF Backup
<1>4. MessageInv'
  <2>1. IpcPage \subseteq Address
    BY IpcBufferAssumption, WordsAssumption, PageSizeAssumption DEF IpcPage, Address
  <2>2. \A a \in IpcPage : memory'[a] = "message"
    BY <2>1 DEF Backup
  <2> QED
    BY <2>2 DEF MessageInv, IpcPage
<1>5. turn = 1 /\ turn' = 1 /\ Zeroed'
  <2>1. turn = 1 /\ turn' = 1 /\ 1 .. turn' - 1 = {}
    BY DEF Backup, RunInv
  <2> QED
    BY <2>1 DEF Zeroed
<1>6. args' = TrampRegions' /\ DOMAIN memory' = Address /\ pc' = "calling"
  BY <1>2, LayoutFrame DEF Backup, RunInv
<1>7. build' = "accepted" /\ Needed \subseteq names'
  BY <1>2 DEF Backup, RunInv, layoutVars
<1> QED
  BY <1>3, <1>4, <1>5, <1>6, <1>7 DEF RunInv

LEMMA WipeStep ==
  ASSUME LayoutInv, RunInv, WipeRegion
  PROVE  RunInv'
<1>1. Complete /\ args = TrampRegions /\ pc = "wipe" /\ pc' = "wipe"
  BY DEF RunInv, WipeRegion, Complete
<1>2. turn \in 1 .. 6
  <2>1. Len(args) = 6
    BY <1>1, Extents
  <2>2. turn \in 1 .. 7 /\ turn <= 6
    BY <2>1 DEF RunInv, WipeRegion, LastTurn
  <2> QED
    BY <2>2
<1>3. memory' = [a \in Address |-> IF a \in Inside(TrampRegions[turn]) THEN "zero" ELSE memory[a]]
  BY <1>1 DEF WipeRegion, Inside
<1>4. UNCHANGED layoutVars
  BY DEF WipeRegion
<1>5. /\ Doomed[turn] \in Needed /\ Doomed[turn] \notin Spared
      /\ Inside(TrampRegions[turn]) \subseteq Span(Doomed[turn])
  BY <1>1, <1>2, Extents
<1>6. SparedInv'
  <2> SUFFICES ASSUME IpcApartFrom(Spared), NEW name \in Spared, NEW a \in Span(name)
               PROVE  memory'[a] = name
    BY <1>4, LayoutFrame DEF SparedInv, Intact
  <2>1. name \in Needed /\ a \in Address
    BY <1>1, SparedNeeded, NamedNumbers
  <2>2. a \notin Inside(TrampRegions[turn])
    BY <1>1, <1>5, <2>1, SpansDisjoint
  <2>3. memory[a] = name
    BY <1>1 DEF RunInv, SparedInv, Intact
  <2> QED
    BY <1>3, <2>1, <2>2, <2>3
<1>7. MessageInv'
  <2> SUFFICES ASSUME IpcApartFrom(Needed), NEW a \in IpcPage
               PROVE  memory'[a] = "message"
    BY <1>4, LayoutFrame DEF MessageInv, IpcPage
  <2>1. a \in Address
    BY IpcBufferAssumption, WordsAssumption, PageSizeAssumption DEF IpcPage, Address
  <2>2. a \notin Inside(TrampRegions[turn])
    BY <1>5 DEF IpcApartFrom
  <2>3. memory[a] = "message"
    BY <1>1 DEF RunInv, MessageInv
  <2> QED
    BY <1>3, <2>1, <2>2, <2>3
<1>8. turn' = turn + 1 /\ 1 .. turn' - 1 = (1 .. turn - 1) \cup {turn}
  BY <1>2 DEF WipeRegion
<1>9. Zeroed'
  <2>1. \A n \in 1 .. turn : Inside(TrampRegions[n]) \subseteq Address
    BY <1>1, <1>2, Extents, NamedNumbers
  <2>2. \A n \in 1 .. turn - 1 : \A a \in Inside(TrampRegions[n]) : memory[a] = "zero"
    BY <1>1 DEF RunInv, Zeroed
  <2>3. \A n \in 1 .. turn' - 1 : \A a \in Inside(TrampRegions[n]) : memory'[a] = "zero"
    BY <1>2, <1>3, <1>8, <2>1, <2>2
  <2>4. \A n : Inside(TrampRegions[n])' = Inside(TrampRegions[n])
    BY <1>4, LayoutFrame
  <2> QED
    BY <2>3, <2>4 DEF Zeroed
<1>10. args' = TrampRegions' /\ DOMAIN memory' = Address
  BY <1>1, <1>3, <1>4, LayoutFrame DEF WipeRegion
<1>11. build' = "accepted" /\ Needed \subseteq names'
  BY <1>1, <1>4 DEF RunInv, layoutVars
<1>12. turn' \in 1 .. 7
  BY <1>2, <1>8
<1> QED
  BY <1>1, <1>6, <1>7, <1>9, <1>10, <1>11, <1>12 DEF RunInv

(* The steps that leave memory and the trampoline's arguments alone. *)
LEMMA OtherStep ==
  ASSUME LayoutInv, RunInv,
         \/ Answered \/ Abort \/ JumpToContainer \/ GoAstray
         \/ UNCHANGED vars
  PROVE  RunInv'
<1>1. /\ UNCHANGED <<layoutVars, args, turn, memory>>
      /\ \/ pc' = pc
         \/ pc = "calling" /\ pc' \in {"wipe", "aborted"}
         \/ pc = "wipe" /\ pc' = "container"
         \/ pc \in {"backup", "wipe"} /\ pc' = "astray"
  BY DEF Answered, Abort, JumpToContainer, GoAstray, vars, runVars
<1>2. pc' = "container" => turn = 7
  <2>1. CASE JumpToContainer
    <3>1. Complete /\ args = TrampRegions
      BY <2>1 DEF RunInv, JumpToContainer, Complete
    <3>2. turn > 6
      BY <2>1, <3>1, Extents DEF JumpToContainer, LastTurn
    <3> QED
      BY <3>2 DEF RunInv
  <2>2. CASE ~JumpToContainer
    BY <2>2 DEF RunInv, Answered, Abort, GoAstray, vars, runVars
  <2> QED
    BY <2>1, <2>2
<1>3. /\ SparedInv' <=> SparedInv
      /\ MessageInv' <=> MessageInv
      /\ Zeroed' <=> Zeroed
  <2>1. memory' = memory /\ turn' = turn
    BY <1>1
  <2> QED
    BY <1>1, <2>1, LayoutFrame DEF SparedInv, MessageInv, Zeroed, Intact, IpcPage
<1>4. args' = args /\ turn' = turn /\ memory' = memory /\ TrampRegions' = TrampRegions
      /\ build' = build /\ names' = names
  BY <1>1, LayoutFrame DEF layoutVars
<1> QED
  BY <1>1, <1>2, <1>3, <1>4 DEF RunInv

(* Nothing is generated once a layout has been accepted. *)
LEMMA GenerateStep ==
  ASSUME LayoutInv, RunInv, Generate
  PROVE  RunInv'
<1>1. build # "accepted"
  BY DEF Generate, LayoutNext, CheckRegion, RejectRegion, RegionsDone, CheckNext,
         RejectOverlap, RequireRegions
<1>2. pc = "built" /\ UNCHANGED <<pc, args, turn, memory>>
  BY <1>1 DEF RunInv, Generate, runVars
<1> QED
  BY <1>2 DEF RunInv

LEMMA RunStep ==
  ASSUME LayoutInv, RunInv, [Next]_vars
  PROVE  LayoutInv' /\ RunInv'
<1>1. [LayoutNext]_layoutVars
  BY DEF Next, Generate, RunNext, MonitorAnswers, FillTrampArgs, Backup, Answered,
         Abort, WipeRegion, JumpToContainer, GoAstray, vars
<1>2. LayoutInv'
  BY <1>1, LayoutStep
<1>3. RunInv'
  BY GenerateStep, FillStep, BackupStep, WipeStep, OtherStep
  DEF Next, RunNext, MonitorAnswers
<1> QED
  BY <1>2, <1>3

LEMMA RunInvariant == Spec => [](LayoutInv /\ RunInv)
<1>1. Init => LayoutInv /\ RunInv
  BY LayoutStart DEF Init, RunInv
<1>2. (LayoutInv /\ RunInv) /\ [Next]_vars => (LayoutInv /\ RunInv)'
  BY RunStep
<1> QED
  BY <1>1, <1>2, PTL DEF Spec

(* Types; no extent that the trampoline zeroes wraps around. *)
THEOREM HandoverTypeCorrect == Spec => []TypeOK
<1>1. LayoutInv /\ RunInv => TypeOK
  <2> SUFFICES ASSUME LayoutInv, RunInv PROVE TypeOK
    OBVIOUS
  <2>1. at \in Nat \ {0}
    BY IndicesAre DEF LayoutInv, LayoutTypes
  <2>2. CASE pc = "built"
    BY <2>1, <2>2 DEF RunInv, LayoutInv, LayoutTypes, TypeOK
  <2>3. CASE pc # "built"
    <3>1. Complete /\ args = TrampRegions
      BY <2>3 DEF RunInv, Complete
    <3>2. Len(args) = 6 /\ args \in Seq({e \in [address : Address, size : Address] :
                                           e.address + e.size < Words})
      BY <3>1, Extents DEF TrampRegions
    <3> QED
      BY <2>1, <3>2 DEF RunInv, LayoutInv, LayoutTypes, TypeOK
  <2> QED
    BY <2>2, <2>3
<1> QED
  BY <1>1, RunInvariant, PTL

(* Whatever layout the build accepts: what the trampoline and the container *)
(* need is not overwritten, unless the IPC buffer's page lies in it; and    *)
(* the zeroing spares that page, unless it lies in some region.             *)
THEOREM WipeIsHarmless == Spec => []WipeSparesTheRest
<1>1. RunInv => WipeSparesTheRest
  BY DEF RunInv, WipeSparesTheRest, SparedInv, MessageInv
<1> QED
  BY <1>1, RunInvariant, PTL

(* Nothing of the loader is left to the container. *)
THEOREM NothingOfLoaderLeft == Spec => []LoaderErased
<1>1. LayoutInv /\ RunInv => LoaderErased
  <2> SUFFICES ASSUME LayoutInv, RunInv, pc = "container" PROVE LoaderErased
    BY DEF LoaderErased
  <2>1. Complete /\ turn = 7
    BY DEF RunInv, Complete
  <2>2. \A n \in 1 .. 6 : \A a \in Inside(TrampRegions[n]) : memory[a] = "zero"
    BY <2>1 DEF RunInv, Zeroed
  <2>3. \A n \in 2 .. 6 : \A a \in Span(Doomed[n]) : memory[a] = "zero"
    BY <2>1, <2>2, Extents
  <2>4. Named(StackName).size = PageSize => \A a \in Span(Doomed[1]) : memory[a] = "zero"
    BY <2>1, <2>2, Extents
  <2>5. /\ Doomed[1] = StackName /\ Doomed[2] = "LOADER_METADATA"
        /\ Doomed[3] = "TXLO_XRT_REQ" /\ Doomed[4] = "CONTAINER_STACK"
        /\ Doomed[5] = "LOADER_CONTEXT" /\ Doomed[6] = "LOADER_PROGRAM"
    BY DEF Doomed
  <2> QED
    BY <2>3, <2>4, <2>5 DEF LoaderErased
<1> QED
  BY <1>1, RunInvariant, PTL
=============================================================================
