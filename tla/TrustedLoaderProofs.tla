------------------------ MODULE TrustedLoaderProofs ------------------------
(***************************************************************************)
(* Theorems about TrustedLoader for every record of resources, every set   *)
(* of requests and every number of channels.                               *)
(***************************************************************************)
EXTENDS TrustedLoader, NumberProofs, TLAPS

(* The search for a resource ends at NULL, or at a resource of the record  *)
(* that has the kind and the value looked for.                             *)
LEMMA FindResourceFinds ==
  ASSUME NEW info, Len(info) \in Nat, NEW k, NEW v
  PROVE  \/ FindResource(info, k, v) = 0
         \/ /\ FindResource(info, k, v) \in 1 .. Len(info)
            /\ info[FindResource(info, k, v)].kind = k
            /\ info[FindResource(info, k, v)].arg0 = v
<1> DEFINE hits == {i \in 1 .. Len(info) : info[i].kind = k /\ info[i].arg0 = v}
           First(i) == \A j \in hits : i <= j
<1>1. CASE hits = {}
  BY <1>1 DEF FindResource
<1>2. CASE hits # {}
  <2>1. \E i \in hits : First(i)
    <3>1. hits \subseteq Nat
      OBVIOUS
    <3> HIDE DEF hits
    <3> QED
      BY <1>2, <3>1, LeastNumber
  <2>2. FindResource(info, k, v) = CHOOSE i \in hits : First(i)
    BY <1>2 DEF FindResource
  <2>3. (CHOOSE i \in hits : First(i)) \in hits
    <3> HIDE DEF hits, First
    <3> QED
      BY <2>1
  <2> QED
    BY <2>2, <2>3
<1> QED
  BY <1>1, <1>2

LEMMA ResourcesLength == Len(Resources) \in Nat
BY ResourcesAssumption

LEMMA NoResources == Len(<<>>) = 0
OBVIOUS

LEMMA ToldAreChannels ==
  ASSUME NEW info, NEW k
  PROVE  ToldAlways(info, k) \subseteq Channels
BY DEF ToldAlways, BitmapAt

(* What an accepted entry leads to is inside the arrays and the record. *)
LEMMA AcceptedInRange ==
  ASSUME TypeOK, NEW k, InPopulate(k), Acceptable(xrt_list[at])
  PROVE  /\ k = "memory" =>
              /\ mappings.count \in Channels
              /\ mappings.count + 1 \in 0 .. MaxChannels
              /\ FindResource(metadata, "memory", xrt_list[at].data)
                   \in 1 .. Len(Resources)
         /\ k # "memory" => xrt_list[at].data \in Channels
<1>1. mappings.count \in 0 .. MaxChannels
  BY DEF TypeOK, Mappings
<1>2. Len(metadata) \in Nat /\ Len(metadata) <= Len(Resources)
  BY ResourcesLength, NoResources DEF TypeOK
<1>3. xrt_list[at].type = k
  BY DEF InPopulate
<1>4. ASSUME k = "memory"
      PROVE  FindResource(metadata, "memory", xrt_list[at].data)
                   \in 1 .. Len(Resources)
  <2>1. FindResource(metadata, "memory", xrt_list[at].data) # 0
    BY <1>3, <1>4 DEF Acceptable, Delegated
  <2>2. FindResource(metadata, "memory", xrt_list[at].data) \in 1 .. Len(metadata)
    BY <1>2, <2>1, FindResourceFinds
  <2> QED
    BY <1>2, <2>2, ResourcesLength
<1> QED
  BY <1>1, <1>3, <1>4, MaxChannelsAssumption DEF Acceptable, Channels

(* The monitor's actions keep the types. *)
LEMMA MonitorTypes ==
  ASSUME TypeOK, MonitorNext
  PROVE  TypeOK'
<1> USE DEF allButPc, ctxtVars, pageVars, capVars, monitorVars
<1>1. ASSUME NEW req \in Requests, NEW slack \in Slack,
             PrepareXrtReqList(req, slack)
      PROVE  TypeOK'
  <2> DEFINE entries == Encode(req)
  <2>1. entries \in Seq(Entry)
    BY RequestsAssumption
  <2>2. header' \in [total_num : Nat, offset : Nat]
    BY <1>1, <2>1, BoundsAssumption DEF PrepareXrtReqList, HeaderSize
  <2>3. ASSUME NEW i \in Slots
        PROVE  (IF i < Len(entries) THEN entries[i + 1] ELSE xrt_list[i]) \in Entry
    <3> HIDE DEF entries
    <3> QED
      BY <2>1, BoundsAssumption DEF Slots, TypeOK
  <2>4. xrt_list' \in [Slots -> Entry]
    BY <1>1, <2>3 DEF PrepareXrtReqList
  <2> QED
    BY <1>1, <2>1, <2>2, <2>4 DEF PrepareXrtReqList, TypeOK
<1>2. CASE PrivilegeTemplatePd
  BY <1>2 DEF PrivilegeTemplatePd, TypeOK
<1>3. ASSUME NEW d \in Defects, StartLoader(d)
      PROVE  TypeOK'
  <2>1. Context \in Contexts
    BY DEF TypeOK, Context, Contexts
  <2>2. switch_count' \in {0, 1} /\ allowed' \in ChannelStates /\ mappings' \in Mappings
    BY <1>3, <2>1 DEF StartLoader, TypeOK, Contexts
  <2> QED
    BY <1>3, <2>2 DEF StartLoader, TypeOK, Goto, Loading
<1>4. CASE StopPd
  BY <1>4 DEF StopPd, TypeOK, CapKinds, Defects, NoClientArgs
<1> QED
  BY <1>1, <1>2, <1>3, <1>4 DEF MonitorNext

(* So do the checks, and the population of the context. *)
LEMMA PopulateTypes ==
  ASSUME TypeOK, CheckImages \/ ContextActivate \/ ParseHeader \/ Populate
  PROVE  TypeOK'
<1> USE DEF allButPc, ctxtVars, pageVars, capVars, monitorVars, Goto, Loading,
            Halted
<1>1. CASE CheckImages
  BY <1>1 DEF CheckImages, TypeOK
<1>2. CASE ContextActivate
  <2>1. mappings \in Mappings
    BY DEF TypeOK
  <2>2. mappings' = [mappings EXCEPT !.count = 0]
    BY <1>2 DEF ContextActivate
  <2> DEFINE M == [count : 0 .. MaxChannels,
                   data  : [Channels -> 0 .. Len(Resources)],
                   state : [Channels -> XrtState]]
  <2>3. mappings \in M
    BY <2>1 DEF Mappings
  <2>4. 0 \in 0 .. MaxChannels
    BY MaxChannelsAssumption
  <2>5. mappings' \in M /\ mappings'.count = 0
    BY <2>2, <2>3, <2>4
  <2>6. \A i \in Channels : ~ i < 0
    BY MaxChannelsAssumption DEF Channels
  <2>7. mappings' \in Mappings
    BY <2>5, <2>6 DEF Mappings
  <2> QED
    BY <1>2, <2>7 DEF ContextActivate, TypeOK
<1>3. CASE ParseHeader
  BY <1>3 DEF ParseHeader, TypeOK
<1>4. ASSUME NEW k \in ChannelKinds, PopulateChannel(k)
      PROVE  TypeOK'
  <2>1. allowed' \in ChannelStates
    BY <1>4 DEF PopulateChannel, TypeOK, ChannelStates, Allow, XrtState
  <2> QED
    BY <1>4, <2>1 DEF PopulateChannel, TypeOK
<1>5. CASE PopulateMapping
  <2> DEFINE i == mappings.count
             m == FindResource(metadata, "memory", xrt_list[at].data)
  <2>1. i \in Channels /\ i + 1 \in 0 .. MaxChannels /\ m \in 1 .. Len(Resources)
    BY <1>5, AcceptedInRange DEF PopulateMapping
  <2>2. [mappings.data EXCEPT ![i] = m] \in [Channels -> 0 .. Len(Resources)]
    BY <2>1 DEF TypeOK, Mappings
  <2>3. [mappings.state EXCEPT ![i] = Allow(@)] \in [Channels -> XrtState]
    BY <2>1 DEF TypeOK, Mappings, Allow, XrtState
  <2>4. ASSUME NEW j \in Channels, j < i + 1
        PROVE  [mappings.data EXCEPT ![i] = m][j] # 0
    <3>1. mappings \in Mappings
      BY DEF TypeOK
    <3>2. CASE j = i
      BY <2>1, <3>1, <3>2 DEF Mappings
    <3>3. CASE j # i
      BY <2>1, <2>4, <3>1, <3>3 DEF Mappings, Channels
    <3> QED
      BY <3>2, <3>3
  <2>5. mappings' = [count |-> i + 1,
                     data  |-> [mappings.data EXCEPT ![i] = m],
                     state |-> [mappings.state EXCEPT ![i] = Allow(@)]]
    BY <1>5 DEF PopulateMapping
  <2>6. mappings' \in Mappings
    BY <2>1, <2>2, <2>3, <2>4, <2>5 DEF Mappings
  <2> QED
    BY <1>5, <2>6 DEF PopulateMapping, TypeOK
<1>6. CASE \E k \in XrtKinds : PopulateAssertFails(k)
  BY <1>6 DEF PopulateAssertFails, TypeOK
<1>7. CASE PopulateRejects
  BY <1>7 DEF PopulateRejects, TypeOK
<1>8. CASE PopulateDone
  BY <1>8 DEF PopulateDone, TypeOK
<1> QED
  BY <1>1, <1>2, <1>3, <1>4, <1>5, <1>6, <1>7, <1>8 DEF Populate

(* So does the enforcement of the new request. *)
LEMMA EnforcePolaTypes ==
  ASSUME TypeOK, EnforcePola
  PROVE  TypeOK'
<1> USE DEF allButPc, ctxtVars, pageVars, capVars, monitorVars, Goto, Loading,
            Halted, CapKinds, ChannelKinds
<1>1. CASE RevokeFirstTime
  BY <1>1 DEF RevokeFirstTime, BeginRestore, TypeOK
<1>2. CASE RevokeCaps
  <2>1. allowed' \in ChannelStates
    BY <1>2 DEF RevokeCaps, TypeOK, ChannelStates, XrtState
  <2>2. mappings' \in Mappings
    BY <1>2 DEF RevokeCaps, TypeOK, Mappings, XrtState
  <2>3. held' \in [CapKinds -> SUBSET Channels]
    BY <1>2 DEF RevokeCaps, Revoked, TypeOK
  <2> QED
    BY <1>2, <2>1, <2>2, <2>3 DEF RevokeCaps, BeginRestore, TypeOK
<1>3. CASE RevokeFails
  BY <1>3 DEF RevokeFails, TypeOK
<1>4. CASE RestoreKept
  <2>1. allowed' \in ChannelStates
    BY <1>4 DEF RestoreKept, TypeOK, ChannelStates, XrtState
  <2> QED
    BY <1>4, <2>1 DEF RestoreKept, TypeOK
<1>5. CASE RestoreSkips
  BY <1>5 DEF RestoreSkips, TypeOK
<1>6. CASE RestoreCopies
  <2>1. allowed' \in ChannelStates
    BY <1>6 DEF RestoreCopies, TypeOK, ChannelStates, XrtState
  <2>2. at \in Channels
    BY <1>6, MaxChannelsAssumption
    DEF RestoreCopies, ToCopy, InRestore, TypeOK, Channels
  <2>3. held' \in [CapKinds -> SUBSET Channels]
    BY <1>6, <2>2 DEF RestoreCopies, TypeOK
  <2> QED
    BY <1>6, <2>1, <2>3 DEF RestoreCopies, TypeOK
<1>7. CASE RestoreCopyFails
  BY <1>7 DEF RestoreCopyFails, TypeOK
<1>8. CASE RestoreNextKind
  BY <1>8 DEF RestoreNextKind, NextKind, TypeOK
<1>9. CASE RestoreMappingKept
  <2>1. mappings' \in Mappings
    BY <1>9 DEF RestoreMappingKept, TypeOK, Mappings, XrtState
  <2> QED
    BY <1>9, <2>1 DEF RestoreMappingKept, TypeOK
<1>10. CASE RestoreMappingMaps
  <2>1. mappings' \in Mappings
    BY <1>10 DEF RestoreMappingMaps, TypeOK, Mappings, XrtState
  <2>2. at \in Channels
    BY <1>10, MaxChannelsAssumption
    DEF RestoreMappingMaps, InRestoreMappings, TypeOK, Mappings, Channels
  <2>3. mappings.data[at] \in 1 .. Len(Resources)
    BY <1>10, <2>2, ResourcesLength
    DEF RestoreMappingMaps, InRestoreMappings, TypeOK, Mappings
  <2>4. mapped' \subseteq 1 .. Len(Resources)
    BY <1>10, <2>3 DEF RestoreMappingMaps, TypeOK
  <2> QED
    BY <1>10, <2>1, <2>4 DEF RestoreMappingMaps, TypeOK
<1>11. CASE RestoreMappingFails
  BY <1>11 DEF RestoreMappingFails, TypeOK
<1>12. CASE RestoreDone
  BY <1>12 DEF RestoreDone, TypeOK
<1> QED
  BY <1>1, <1>2, <1>3, <1>4, <1>5, <1>6, <1>7, <1>8, <1>9, <1>10, <1>11, <1>12
  DEF EnforcePola

(* And the rest of the way to the container. *)
LEMMA EnterTypes ==
  ASSUME TypeOK,
         \/ Deprivilege \/ LoadPayloads \/ LoadPayloadsFails
         \/ TrampolineBackup \/ TrampolineAborts \/ TrampolineWipe
  PROVE  TypeOK'
<1> USE DEF allButPc, ctxtVars, pageVars, capVars, monitorVars, Goto, Loading,
            Halted
<1>1. CASE Deprivilege
  BY <1>1 DEF Deprivilege, TypeOK
<1>2. CASE LoadPayloads
  <2>1. PICK bits \in [Channels -> SUBSET Channels] :
          client_args' =
            [k \in ChannelKinds |->
               ToldAlways(metadata, k) \cup
                 UNION {bits[c] : c \in {d \in Channels : InUse(k, d)}}]
    BY <1>2 DEF LoadPayloads
  <2>2. \A k \in ChannelKinds : ToldAlways(metadata, k) \subseteq Channels
    BY ToldAreChannels
  <2>3. client_args' \in [ChannelKinds -> SUBSET Channels]
    BY <2>1, <2>2
  <2> QED
    BY <1>2, <2>3 DEF LoadPayloads, TypeOK
<1>3. CASE LoadPayloadsFails
  BY <1>3 DEF LoadPayloadsFails, TypeOK
<1>4. CASE TrampolineBackup
  BY <1>4 DEF TrampolineBackup, TypeOK, Context, Contexts
<1>5. CASE TrampolineAborts
  BY <1>5 DEF TrampolineAborts, TypeOK
<1>6. CASE TrampolineWipe
  <2>1. ZeroAllowed \in ChannelStates
    BY DEF ZeroAllowed, ChannelStates, XrtState
  <2>2. ZeroMappings \in Mappings
    BY ResourcesLength, MaxChannelsAssumption
    DEF ZeroMappings, Mappings, XrtState, Channels
  <2>3. ZeroHeader \in [total_num : Nat, offset : Nat]
    BY DEF ZeroHeader
  <2>4. [i \in Slots |-> ZeroEntry] \in [Slots -> Entry]
    BY DEF ZeroEntry, Entry
  <2> QED
    BY <1>6, <2>1, <2>2, <2>3, <2>4 DEF TrampolineWipe, TypeOK
<1> QED
  BY <1>1, <1>2, <1>3, <1>4, <1>5, <1>6

LEMMA NextTypes ==
  ASSUME TypeOK, [Next]_vars
  PROVE  TypeOK'
<1>1. CASE UNCHANGED vars
  BY <1>1 DEF vars, allButPc, ctxtVars, pageVars, capVars, monitorVars, TypeOK
<1> QED
  BY <1>1, MonitorTypes, PopulateTypes, EnforcePolaTypes, EnterTypes
  DEF Next, LoaderNext, MonitorAnswers

LEMMA InitTypes == Init => TypeOK
<1> SUFFICES ASSUME Init PROVE TypeOK
  OBVIOUS
<1>1. allowed \in ChannelStates
  BY DEF Init, ZeroAllowed, ChannelStates, XrtState
<1>2. mappings \in Mappings
  BY ResourcesLength, MaxChannelsAssumption
  DEF Init, ZeroMappings, Mappings, XrtState, Channels
<1>3. saved \in Contexts
  BY <1>1, <1>2 DEF Init, Context, Contexts
<1>4. xrt_list \in [Slots -> Entry] /\ header \in [total_num : Nat, offset : Nat]
  BY DEF Init, ZeroEntry, Entry, ZeroHeader
<1>5. /\ pc \in {"stopped", "container"} \cup Loading \cup Halted
      /\ kind \in CapKinds /\ at \in Nat /\ defect \in Defects
  BY DEF Init, CapKinds, Defects
<1>6. /\ request \in Seq(Entry) /\ metadata \in {<<>>, Resources}
  BY DEF Init
<1>7. /\ held \in [CapKinds -> SUBSET Channels]
      /\ client_args \in [ChannelKinds -> SUBSET Channels]
  BY DEF Init, NoClientArgs
<1> QED
  BY <1>1, <1>2, <1>3, <1>4, <1>5, <1>6, <1>7 DEF Init, TypeOK

(* The types hold in every reachable state; in particular the mapping      *)
(* counter stays within the arrays that it indexes, and each mapping it    *)
(* counts has its resource.                                                *)
THEOREM TypeCorrect == Spec => []TypeOK
<1> QED
  BY InitTypes, NextTypes, PTL DEF Spec
-----------------------------------------------------------------------------
(* Whatever the monitor writes, the loader decides against the delegator's *)
(* record: the record is in place while the PD loads, and each mapping     *)
(* that either copy of the context counts is a memory region of it.        *)
CountsRegions(m) ==
  \A i \in Channels : i < m.count => Resources[m.data[i]].kind = "memory"

DelegationInv ==
  /\ pc \in Loading => metadata = Resources
  /\ CountsRegions(mappings) /\ CountsRegions(saved.mappings)
  /\ OnlyDelegated

LEMMA DelegatedIsRecorded ==
  ASSUME NEW k, NEW c, Delegated(Resources, k, c)
  PROVE  \E i \in DOMAIN Resources : Resources[i].kind = k /\ Resources[i].arg0 = c
<1>1. FindResource(Resources, k, c) \in 1 .. Len(Resources)
      /\ Resources[FindResource(Resources, k, c)].kind = k
      /\ Resources[FindResource(Resources, k, c)].arg0 = c
  BY ResourcesLength, FindResourceFinds DEF Delegated
<1>2. DOMAIN Resources = 1 .. Len(Resources)
  BY ResourcesAssumption
<1> QED
  BY <1>1, <1>2

LEMMA DelegationStep ==
  ASSUME TypeOK, DelegationInv, [Next]_vars
  PROVE  DelegationInv'
<1> USE DEF allButPc, ctxtVars, pageVars, capVars, monitorVars, Goto, Loading,
            Halted, DelegationInv
<1>1. CASE UNCHANGED vars
  BY <1>1 DEF vars, CountsRegions, OnlyDelegated
<1>2. ASSUME NEW req \in Requests, NEW slack \in Slack,
             PrepareXrtReqList(req, slack)
      PROVE  DelegationInv'
  BY <1>2 DEF PrepareXrtReqList, CountsRegions, OnlyDelegated
<1>3. CASE PrivilegeTemplatePd
  BY <1>3 DEF PrivilegeTemplatePd, CountsRegions, OnlyDelegated
<1>4. ASSUME NEW d \in Defects, StartLoader(d)
      PROVE  DelegationInv'
  <2>1. CountsRegions(mappings')
    BY <1>4 DEF StartLoader, Context, CountsRegions
  <2> QED
    BY <1>4, <2>1 DEF StartLoader, CountsRegions, OnlyDelegated
<1>5. CASE StopPd
  BY <1>5 DEF StopPd, CountsRegions, OnlyDelegated
<1>6. CASE CheckImages
  BY <1>6 DEF CheckImages, CountsRegions, OnlyDelegated
<1>7. CASE ContextActivate
  <2>1. mappings'.count = 0
    BY <1>7 DEF ContextActivate, TypeOK, Mappings
  <2>2. CountsRegions(mappings')
    BY <2>1, MaxChannelsAssumption DEF CountsRegions, Channels
  <2> QED
    BY <1>7, <2>2 DEF ContextActivate, CountsRegions, OnlyDelegated
<1>8. CASE ParseHeader
  BY <1>8 DEF ParseHeader, CountsRegions, OnlyDelegated
<1>9. ASSUME NEW k \in ChannelKinds, PopulateChannel(k)
      PROVE  DelegationInv'
  BY <1>9 DEF PopulateChannel, InPopulate, CountsRegions, OnlyDelegated
<1>10. CASE PopulateMapping
  <2> DEFINE i == mappings.count
             m == FindResource(metadata, "memory", xrt_list[at].data)
  <2>1. i \in Channels /\ m \in 1 .. Len(Resources)
    BY <1>10, AcceptedInRange DEF PopulateMapping
  <2>2. metadata = Resources
    BY <1>10 DEF PopulateMapping, InPopulate
  <2>3. Resources[m].kind = "memory"
    BY <2>1, <2>2, ResourcesLength, FindResourceFinds
  <2>4. ASSUME NEW j \in Channels, j < mappings'.count
        PROVE  Resources[mappings'.data[j]].kind = "memory"
    <3>1. mappings \in Mappings
      BY DEF TypeOK
    <3>2. mappings'.count = i + 1 /\ mappings'.data = [mappings.data EXCEPT ![i] = m]
      BY <1>10 DEF PopulateMapping
    <3>3. CASE j = i
      BY <2>1, <2>3, <3>1, <3>2, <3>3 DEF Mappings
    <3>4. CASE j # i
      BY <2>1, <2>4, <3>1, <3>2, <3>4 DEF Mappings, Channels, CountsRegions
    <3> QED
      BY <3>3, <3>4
  <2> QED
    BY <1>10, <2>2, <2>4
    DEF PopulateMapping, InPopulate, CountsRegions, OnlyDelegated
<1>11. CASE \E k \in XrtKinds : PopulateAssertFails(k)
  BY <1>11 DEF PopulateAssertFails, CountsRegions, OnlyDelegated
<1>12. CASE PopulateRejects
  BY <1>12 DEF PopulateRejects, CountsRegions, OnlyDelegated
<1>13. CASE PopulateDone
  BY <1>13 DEF PopulateDone, CountsRegions, OnlyDelegated
<1>14. CASE RevokeFirstTime
  BY <1>14 DEF RevokeFirstTime, BeginRestore, CountsRegions, OnlyDelegated
<1>15. CASE RevokeCaps
  <2>1. mappings'.count = mappings.count /\ mappings'.data = mappings.data
    BY <1>15 DEF RevokeCaps, TypeOK, Mappings
  <2>2. \A k \in CapKinds : held'[k] \subseteq held[k]
    BY <1>15 DEF RevokeCaps, Revoked
  <2>3. mapped' \subseteq mapped
    BY <1>15 DEF RevokeCaps
  <2> QED
    BY <1>15, <2>1, <2>2, <2>3
    DEF RevokeCaps, BeginRestore, CountsRegions, OnlyDelegated
<1>16. CASE RevokeFails
  BY <1>16 DEF RevokeFails, CountsRegions, OnlyDelegated
<1>17. CASE RestoreKept
  BY <1>17 DEF RestoreKept, InRestore, CountsRegions, OnlyDelegated
<1>18. CASE RestoreSkips
  BY <1>18 DEF RestoreSkips, CountsRegions, OnlyDelegated
<1>19. CASE RestoreCopies
  <2>1. Delegated(Resources, kind, at)
    BY <1>19 DEF RestoreCopies, ToCopy, InRestore
  <2>2. \A k \in CapKinds : \A c \in held'[k] :
          c \in held[k] \/ (k = kind /\ c = at)
    BY <1>19 DEF RestoreCopies, TypeOK
  <2>3. OnlyDelegated'
    BY <1>19, <2>1, <2>2, DelegatedIsRecorded DEF RestoreCopies, OnlyDelegated
  <2> QED
    BY <1>19, <2>3 DEF RestoreCopies, CountsRegions
<1>20. CASE RestoreCopyFails
  BY <1>20 DEF RestoreCopyFails, CountsRegions, OnlyDelegated
<1>21. CASE RestoreNextKind
  BY <1>21 DEF RestoreNextKind, CountsRegions, OnlyDelegated
<1>22. CASE RestoreMappingKept
  <2>1. mappings'.count = mappings.count /\ mappings'.data = mappings.data
    BY <1>22 DEF RestoreMappingKept, TypeOK, Mappings
  <2> QED
    BY <1>22, <2>1 DEF RestoreMappingKept, CountsRegions, OnlyDelegated
<1>23. CASE RestoreMappingMaps
  <2>1. mappings'.count = mappings.count /\ mappings'.data = mappings.data
    BY <1>23 DEF RestoreMappingMaps, TypeOK, Mappings
  <2>2. at \in Channels /\ at < mappings.count
    BY <1>23, MaxChannelsAssumption
    DEF RestoreMappingMaps, InRestoreMappings, TypeOK, Mappings, Channels
  <2>3. Resources[mappings.data[at]].kind = "memory"
    BY <2>2 DEF CountsRegions
  <2> QED
    BY <1>23, <2>1, <2>3 DEF RestoreMappingMaps, CountsRegions, OnlyDelegated
<1>24. CASE RestoreMappingFails
  BY <1>24 DEF RestoreMappingFails, CountsRegions, OnlyDelegated
<1>25. CASE RestoreDone
  BY <1>25 DEF RestoreDone, CountsRegions, OnlyDelegated
<1>26. CASE Deprivilege
  BY <1>26 DEF Deprivilege, CountsRegions, OnlyDelegated
<1>27. CASE LoadPayloads
  BY <1>27 DEF LoadPayloads, CountsRegions, OnlyDelegated
<1>28. CASE LoadPayloadsFails
  BY <1>28 DEF LoadPayloadsFails, CountsRegions, OnlyDelegated
<1>29. CASE TrampolineBackup
  BY <1>29 DEF TrampolineBackup, Context, CountsRegions, OnlyDelegated
<1>30. CASE TrampolineAborts
  BY <1>30 DEF TrampolineAborts, CountsRegions, OnlyDelegated
<1>31. CASE TrampolineWipe
  BY <1>31, MaxChannelsAssumption
  DEF TrampolineWipe, ZeroMappings, CountsRegions, OnlyDelegated, Channels
<1> QED
  BY <1>1, <1>2, <1>3, <1>4, <1>5, <1>6, <1>7, <1>8, <1>9, <1>10, <1>11, <1>12,
     <1>13, <1>14, <1>15, <1>16, <1>17, <1>18, <1>19, <1>20, <1>21, <1>22,
     <1>23, <1>24, <1>25, <1>26, <1>27, <1>28, <1>29, <1>30, <1>31
  DEF Next, MonitorNext, LoaderNext, MonitorAnswers, Populate, EnforcePola

LEMMA DelegationHolds == Spec => [](TypeOK /\ DelegationInv)
<1>1. Init => DelegationInv
  BY MaxChannelsAssumption
  DEF Init, DelegationInv, Loading, CountsRegions, ZeroMappings, Context,
      OnlyDelegated, Channels
<1>2. TypeOK /\ DelegationInv /\ [Next]_vars => DelegationInv'
  BY DelegationStep
<1> QED
  BY <1>1, <1>2, TypeCorrect, PTL DEF Spec

(* The PD never holds a channel, nor has a region mapped, that its         *)
(* delegator record does not list: for every record, every request page    *)
(* and whichever copy of the context the monitor writes back.              *)
THEOREM NeverUndelegated == Spec => []OnlyDelegated
<1>1. DelegationInv => OnlyDelegated
  BY DEF DelegationInv
<1> QED
  BY <1>1, DelegationHolds, PTL
-----------------------------------------------------------------------------
(* The delegation CNode is installed only while the PD is stopped, and the *)
(* way into the container leads through its deletion.                      *)
LEMMA DeprivilegedStep ==
  ASSUME TypeOK, Deprivileged, [Next]_vars
  PROVE  Deprivileged'
<1> USE DEF Deprivileged, allButPc, ctxtVars, pageVars, capVars, monitorVars, Goto
<1>1. CASE UNCHANGED vars
  BY <1>1 DEF vars
<1>2. CASE MonitorNext
  BY <1>2 DEF MonitorNext, PrepareXrtReqList, PrivilegeTemplatePd, StartLoader,
              StopPd
<1>3. CASE CheckImages \/ ContextActivate \/ ParseHeader \/ Populate
  BY <1>3 DEF CheckImages, ContextActivate, ParseHeader, Populate,
              PopulateChannel, PopulateMapping, PopulateAssertFails,
              PopulateRejects, PopulateDone, InPopulate
<1>4. CASE EnforcePola
  BY <1>4 DEF EnforcePola, RevokeFirstTime, RevokeCaps, RevokeFails,
              BeginRestore, RestoreKept, RestoreSkips, RestoreCopies,
              RestoreCopyFails, ToCopy, InRestore, RestoreNextKind,
              RestoreMappingKept, RestoreMappingMaps, RestoreMappingFails,
              InRestoreMappings, RestoreDone
<1>5. CASE Deprivilege
  BY <1>5 DEF Deprivilege
<1>6. CASE LoadPayloads \/ LoadPayloadsFails
  BY <1>6 DEF LoadPayloads, LoadPayloadsFails
<1>7. CASE TrampolineBackup \/ TrampolineAborts \/ TrampolineWipe
  BY <1>7 DEF TrampolineBackup, TrampolineAborts, TrampolineWipe
<1> QED
  BY <1>1, <1>2, <1>3, <1>4, <1>5, <1>6, <1>7 DEF Next, LoaderNext, MonitorAnswers

(* No byte of the container's image is loaded, and nothing of it runs,     *)
(* while the PD can reach the delegation CNode.                            *)
THEOREM NoGrantForClient == Spec => []Deprivileged
<1>1. Init => Deprivileged
  BY DEF Init, Deprivileged
<1> QED
  BY <1>1, DeprivilegedStep, TypeCorrect, PTL DEF Spec
-----------------------------------------------------------------------------
(* What the context says of the channels.  ContextTracksCaps is not        *)
(* inductive alone: the page must not be zeroed under a running loader,    *)
(* the saved copy must be the page's when it is zeroed, and a right that   *)
(* is in some state must be delegated, or the revocation would skip it.    *)
(* For the bitmaps, every right must be USED or UNSET when they are set.   *)
Settled(k, c) == States[k][c] \in {"USED", "UNSET"}

(* The loops of mktxlo_restore_caps have passed element c of array k. *)
Passed(k, c) ==
  \/ k = "ntfn" /\ kind # "ntfn"
  \/ k = "ppc" /\ kind = "irq"
  \/ k = kind /\ c < at

(* No channel in use is too large for mktxlo_fill_client_args to shift. *)
ShiftExact(k) == \A c \in Channels : States[k][c] = "USED" => c < IntBits - 1

TrackingInv ==
  /\ wiped => pc \in {"stopped", "container"}
  /\ pc = "container" => wiped
  /\ pc = "wipe" => saved.allowed = allowed
  /\ pc \in Loading => metadata = Resources
  /\ ContextTracksCaps
  /\ \A k \in CapKinds, c \in Channels :
       /\ States[k][c] # "UNSET" => Delegated(Resources, k, c)
       /\ pc = "restore" /\ Passed(k, c) => Settled(k, c)
       /\ pc \in {"restore_mappings", "deprivilege", "load", "backup", "wipe",
                  "container"} => Settled(k, c)
  /\ pc \in {"backup", "wipe", "container"} =>
       \A k \in OptionalKinds :
         ShiftExact(k) =>
           client_args[k] = {c \in Channels : States[k][c] = "USED"}
                              \cup ToldAlways(Resources, k)

(* Actions that move the thread, and neither the channels' states nor the  *)
(* capabilities, to a point of which TrackingInv says nothing new.         *)
LEMMA TrackingFrame ==
  ASSUME TypeOK, TrackingInv,
         UNCHANGED <<allowed, saved, wiped, metadata, held>>,
         pc' \in Halted \cup {"activate", "parse", "populate", "revoke"},
         pc \in Loading
  PROVE  TrackingInv'
BY DEF TrackingInv, ContextTracksCaps, Settled, States, Loading, Halted

LEMMA TrackingMonitor ==
  ASSUME KeepsPage, TypeOK, TrackingInv, MonitorNext
  PROVE  TrackingInv'
<1> USE DEF allButPc, ctxtVars, pageVars, capVars, monitorVars, Goto, Loading,
            Halted, TrackingInv, ContextTracksCaps, Settled, States
<1>1. ASSUME NEW req \in Requests, NEW slack \in Slack,
             PrepareXrtReqList(req, slack)
      PROVE  TrackingInv'
  BY <1>1 DEF PrepareXrtReqList
<1>2. CASE PrivilegeTemplatePd
  BY <1>2 DEF PrivilegeTemplatePd
<1>3. ASSUME NEW d \in Defects, StartLoader(d)
      PROVE  TrackingInv'
  <2>1. allowed' = States
    BY <1>3 DEF StartLoader, Context
  <2> QED
    BY <1>3, <2>1 DEF StartLoader
<1>4. CASE StopPd
  BY <1>4 DEF StopPd
<1> QED
  BY <1>1, <1>2, <1>3, <1>4 DEF MonitorNext

LEMMA TrackingPopulate ==
  ASSUME TypeOK, TrackingInv,
         CheckImages \/ ContextActivate \/ ParseHeader \/ Populate
  PROVE  TrackingInv'
<1> USE DEF allButPc, ctxtVars, pageVars, capVars, monitorVars, Goto, Loading,
            Halted
<1>1. CASE CheckImages \/ ContextActivate \/ ParseHeader
  BY <1>1, TrackingFrame DEF CheckImages, ContextActivate, ParseHeader
<1>2. ASSUME NEW k \in ChannelKinds, PopulateChannel(k)
      PROVE  TrackingInv'
  <2> DEFINE c == xrt_list[at].data
  <2>1. k # "memory"
    BY DEF ChannelKinds
  <2>2. c \in Channels
    BY <1>2, <2>1, AcceptedInRange DEF PopulateChannel
  <2>3. Delegated(Resources, k, c)
    BY <1>2 DEF PopulateChannel, InPopulate, Acceptable, TrackingInv
  <2>4. allowed' = [allowed EXCEPT ![k][c] = Allow(@)]
    BY <1>2 DEF PopulateChannel
  <2>5. ASSUME NEW kk \in CapKinds, NEW cc \in Channels
        PROVE  allowed'[kk][cc] = IF kk = k /\ cc = c THEN Allow(allowed[kk][cc])
                                                      ELSE allowed[kk][cc]
    BY <2>2, <2>4 DEF TypeOK, ChannelStates, CapKinds, ChannelKinds
  <2> QED
    BY <1>2, <2>3, <2>5
    DEF PopulateChannel, InPopulate, TrackingInv, ContextTracksCaps, States, Allow
<1>3. CASE PopulateMapping
  BY <1>3, TrackingFrame DEF PopulateMapping, InPopulate
<1>4. CASE (\E k \in XrtKinds : PopulateAssertFails(k)) \/ PopulateRejects
  BY <1>4, TrackingFrame DEF PopulateAssertFails, PopulateRejects, InPopulate
<1>5. CASE PopulateDone
  BY <1>5, TrackingFrame DEF PopulateDone
<1> QED
  BY <1>1, <1>2, <1>3, <1>4, <1>5 DEF Populate

LEMMA TrackingEnforcePola ==
  ASSUME TypeOK, TrackingInv, EnforcePola
  PROVE  TrackingInv'
<1> USE DEF allButPc, ctxtVars, pageVars, capVars, monitorVars, Goto, Loading,
            Halted
<1>1. CASE RevokeFirstTime
  BY <1>1
  DEF RevokeFirstTime, BeginRestore, TrackingInv, ContextTracksCaps, States,
      Settled, Passed, Channels
<1>2. CASE RevokeCaps
  <2>1. ASSUME NEW k \in CapKinds, NEW c \in Channels
        PROVE  /\ allowed'[k][c] = IF c \in Revocable(k) THEN "UNSET"
                                                         ELSE allowed[k][c]
               /\ c \in held'[k] <=> c \in held[k] /\ c \notin Revocable(k)
    BY <1>2 DEF RevokeCaps, Revoked, CapKinds, ChannelKinds
  <2>2. ~ wiped /\ metadata = Resources
    BY <1>2 DEF RevokeCaps, BeginRestore, TrackingInv
  <2>3. \A k \in CapKinds, c \in Channels : ~ Passed(k, c)'
    BY <1>2 DEF RevokeCaps, BeginRestore, Passed, Channels
  <2>4. ASSUME NEW k \in CapKinds, NEW c \in Channels
        PROVE  c \in Revocable(k) <=>
                 allowed[k][c] = "USED" /\ Delegated(Resources, k, c)
    BY <2>2 DEF Revocable
  <2>5. States = allowed /\ States' = allowed'
    BY <1>2, <2>2 DEF RevokeCaps, States
  <2>6. ContextTracksCaps'
    BY <2>1, <2>4, <2>5 DEF TrackingInv, ContextTracksCaps
  <2>7. \A k \in CapKinds, c \in Channels :
          States'[k][c] # "UNSET" => Delegated(Resources, k, c)
    BY <2>1, <2>5 DEF TrackingInv
  <2> QED
    BY <1>2, <2>2, <2>3, <2>6, <2>7 DEF RevokeCaps, BeginRestore, TrackingInv
<1>3. CASE RevokeFails
  BY <1>3, TrackingFrame DEF RevokeFails
<1>4. CASE RestoreKept
  <2>1. kind \in CapKinds /\ at \in Channels
    BY <1>4, MaxChannelsAssumption DEF RestoreKept, InRestore, TypeOK, Channels
  <2>2. ASSUME NEW k \in CapKinds, NEW c \in Channels
        PROVE  allowed'[k][c] = IF k = kind /\ c = at THEN "USED" ELSE allowed[k][c]
    BY <1>4, <2>1 DEF RestoreKept, TypeOK, ChannelStates, CapKinds, ChannelKinds
  <2>3. ASSUME NEW k \in CapKinds, NEW c \in Channels
        PROVE  Passed(k, c)' => Passed(k, c) \/ (k = kind /\ c = at)
    BY <1>4, <2>1 DEF RestoreKept, Passed, Channels
  <2> QED
    BY <1>4, <2>1, <2>2, <2>3
    DEF RestoreKept, InRestore, TrackingInv, ContextTracksCaps, Settled, States
<1>5. CASE RestoreSkips
  <2>1. kind \in CapKinds /\ at \in Channels
    BY <1>5, MaxChannelsAssumption DEF RestoreSkips, InRestore, TypeOK, Channels
  <2>2. ASSUME NEW k \in CapKinds, NEW c \in Channels
        PROVE  Passed(k, c)' => Passed(k, c) \/ (k = kind /\ c = at)
    BY <1>5, <2>1 DEF RestoreSkips, Passed, Channels
  <2>3. allowed[kind][at] = "UNSET"
    BY <1>5, <2>1 DEF RestoreSkips, InRestore, TrackingInv, States
  <2> QED
    BY <1>5, <2>1, <2>2, <2>3
    DEF RestoreSkips, InRestore, TrackingInv, ContextTracksCaps, Settled, States
<1>6. CASE RestoreCopies
  <2>1. kind \in CapKinds /\ at \in Channels
    BY <1>6, MaxChannelsAssumption
    DEF RestoreCopies, ToCopy, InRestore, TypeOK, Channels
  <2>2. ASSUME NEW k \in CapKinds, NEW c \in Channels
        PROVE  /\ allowed'[k][c] = IF k = kind /\ c = at THEN "USED"
                                                         ELSE allowed[k][c]
               /\ c \in held'[k] <=> c \in held[k] \/ (k = kind /\ c = at)
    BY <1>6, <2>1 DEF RestoreCopies, TypeOK, ChannelStates, CapKinds, ChannelKinds
  <2>3. ASSUME NEW k \in CapKinds, NEW c \in Channels
        PROVE  Passed(k, c)' => Passed(k, c) \/ (k = kind /\ c = at)
    BY <1>6, <2>1 DEF RestoreCopies, Passed, Channels
  <2> QED
    BY <1>6, <2>1, <2>2, <2>3
    DEF RestoreCopies, ToCopy, InRestore, TrackingInv, ContextTracksCaps, Settled,
        States
<1>7. CASE RestoreCopyFails
  BY <1>7, TrackingFrame DEF RestoreCopyFails, ToCopy, InRestore
<1>8. CASE RestoreNextKind
  <2>1. kind \in CapKinds /\ at \in Nat /\ at >= MaxChannels
    BY <1>8 DEF RestoreNextKind, TypeOK
  <2>2. ASSUME NEW k \in CapKinds, NEW c \in Channels
        PROVE  /\ Passed(k, c)' => Passed(k, c)
               /\ kind = "irq" => Passed(k, c)
    BY <1>8, <2>1, MaxChannelsAssumption
    DEF RestoreNextKind, NextKind, Passed, Channels, CapKinds
  <2> QED
    BY <1>8, <2>2
    DEF RestoreNextKind, TrackingInv, ContextTracksCaps, Settled, States
<1>9. CASE RestoreMappingKept
  BY <1>9 DEF RestoreMappingKept, InRestoreMappings, TrackingInv,
              ContextTracksCaps, Settled, States
<1>10. CASE RestoreMappingMaps
  BY <1>10 DEF RestoreMappingMaps, InRestoreMappings, TrackingInv,
               ContextTracksCaps, Settled, States
<1>11. CASE RestoreMappingFails
  BY <1>11, TrackingFrame DEF RestoreMappingFails, InRestoreMappings
<1>12. CASE RestoreDone
  BY <1>12 DEF RestoreDone, TrackingInv, ContextTracksCaps, Settled, States
<1> QED
  BY <1>1, <1>2, <1>3, <1>4, <1>5, <1>6, <1>7, <1>8, <1>9, <1>10, <1>11, <1>12
  DEF EnforcePola

LEMMA TrackingEnter ==
  ASSUME TypeOK, TrackingInv,
         \/ Deprivilege \/ LoadPayloads \/ LoadPayloadsFails
         \/ TrampolineBackup \/ TrampolineAborts \/ TrampolineWipe
  PROVE  TrackingInv'
<1> USE DEF allButPc, ctxtVars, pageVars, capVars, monitorVars, Goto, Loading,
            Halted
<1>1. CASE Deprivilege
  BY <1>1 DEF Deprivilege, TrackingInv, ContextTracksCaps, Settled, States
<1>2. CASE LoadPayloads
  <2>1. PICK bits \in [Channels -> SUBSET Channels] :
          /\ \A c \in Channels : bits[c] \in ShiftOutcomes(c)
          /\ client_args' =
               [k \in ChannelKinds |->
                  ToldAlways(metadata, k) \cup
                    UNION {bits[c] : c \in {d \in Channels : InUse(k, d)}}]
    BY <1>2 DEF LoadPayloads
  <2>2. \A c \in Channels : c < IntBits - 1 => bits[c] = {c}
    BY <2>1, BoundsAssumption, MaxChannelsAssumption DEF ShiftOutcomes, Channels
  <2>3. States = allowed /\ States' = allowed
    BY <1>2 DEF LoadPayloads, TrackingInv, States
  <2>4. metadata = Resources
    BY <1>2 DEF LoadPayloads, TrackingInv
  <2>5. ASSUME NEW k \in OptionalKinds, ShiftExact(k)
        PROVE  client_args'[k] = {c \in Channels : allowed[k][c] = "USED"}
                                   \cup ToldAlways(Resources, k)
    <3>1. \A c \in Channels : allowed[k][c] = "USED" => bits[c] = {c}
      BY <2>2, <2>3, <2>5 DEF ShiftExact
    <3>2. UNION {bits[c] : c \in {d \in Channels : InUse(k, d)}}
            = {c \in Channels : allowed[k][c] = "USED"}
      BY <3>1 DEF InUse
    <3>3. k \in ChannelKinds
      BY DEF OptionalKinds, ChannelKinds
    <3> QED
      BY <2>1, <2>4, <3>2, <3>3
  <2>6. \A k \in OptionalKinds : ShiftExact(k)' => ShiftExact(k)
    BY <2>3 DEF ShiftExact
  <2> QED
    BY <1>2, <2>3, <2>5, <2>6
    DEF LoadPayloads, TrackingInv, ContextTracksCaps, Settled
<1>3. CASE LoadPayloadsFails
  BY <1>3, TrackingFrame DEF LoadPayloadsFails
<1>4. CASE TrampolineBackup
  BY <1>4
  DEF TrampolineBackup, Context, TrackingInv, ContextTracksCaps, Settled,
      States, ShiftExact
<1>5. CASE TrampolineAborts
  BY <1>5, TrackingFrame DEF TrampolineAborts
<1>6. CASE TrampolineWipe
  <2>1. States' = States
    BY <1>6 DEF TrampolineWipe, TrackingInv, States
  <2> QED
    BY <1>6, <2>1
    DEF TrampolineWipe, TrackingInv, ContextTracksCaps, Settled, ShiftExact
<1> QED
  BY <1>1, <1>2, <1>3, <1>4, <1>5, <1>6

LEMMA TrackingStep ==
  ASSUME KeepsPage, TypeOK, TrackingInv, [Next]_vars
  PROVE  TrackingInv'
<1>1. CASE UNCHANGED vars
  BY <1>1
  DEF vars, allButPc, ctxtVars, pageVars, capVars, monitorVars, TrackingInv,
      ContextTracksCaps, Settled, States, Passed, ShiftExact
<1> QED
  BY <1>1, TrackingMonitor, TrackingPopulate, TrackingEnforcePola, TrackingEnter
  DEF Next, LoaderNext, MonitorAnswers

LEMMA TrackingInit == Init => TrackingInv
BY DEF Init, TrackingInv, ContextTracksCaps, States, ZeroAllowed, CapKinds,
       ChannelKinds, Loading

(* Whichever check stops an attempt, the context still says which channels *)
(* the PD holds, provided the monitor leaves the page alone unless the     *)
(* trampoline has zeroed it.                                               *)
THEOREM ContextNeverLosesTrack ==
  ASSUME KeepsPage
  PROVE  Spec => []ContextTracksCaps
<1>1. TypeOK /\ TrackingInv /\ [Next]_vars => TrackingInv'
  BY TrackingStep
<1>2. TrackingInv => ContextTracksCaps
  BY DEF TrackingInv
<1> QED
  BY <1>1, <1>2, TrackingInit, TypeCorrect, PTL DEF Spec

(* A container's notification and PPC bitmaps are its capabilities, and    *)
(* what the bytes of the delegator record add to them.                     *)
THEOREM ClientKnowsItsChannels ==
  ASSUME KeepsPage
  PROVE  Spec => []ClientToldOfHeld
<1>1. TypeOK /\ TrackingInv /\ [Next]_vars => TrackingInv'
  BY TrackingStep
<1>2. TypeOK /\ TrackingInv => ClientToldOfHeld
  <2> SUFFICES ASSUME TypeOK, TrackingInv, pc = "container",
                      NEW k \in OptionalKinds, held[k] \subseteq 0 .. IntBits - 2
               PROVE  client_args[k] = held[k] \cup ToldAlways(Resources, k)
    BY DEF ClientToldOfHeld
  <2>0. k \in CapKinds
    BY DEF OptionalKinds, CapKinds
  <2>1. held[k] \subseteq Channels
    BY <2>0 DEF TypeOK
  <2>2. \A c \in Channels : c \in held[k] <=> States[k][c] = "USED"
    BY <2>0 DEF TrackingInv, ContextTracksCaps, Settled
  <2>3. ShiftExact(k)
    BY <2>2, BoundsAssumption DEF ShiftExact
  <2>4. client_args[k] = {c \in Channels : States[k][c] = "USED"}
                           \cup ToldAlways(Resources, k)
    BY <2>3 DEF TrackingInv
  <2>5. held[k] = {c \in Channels : States[k][c] = "USED"}
    BY <2>1, <2>2
  <2> QED
    BY <2>4, <2>5
<1> QED
  BY <1>1, <1>2, TrackingInit, TypeCorrect, PTL DEF Spec
-----------------------------------------------------------------------------
(* What the population has read, it has allowed or kept: no channel listed *)
(* on the request page is in the state that revocation looks for.          *)
ReadUpTo(n) ==
  \A i \in Slots :
    i < n /\ xrt_list[i].type \in ChannelKinds =>
      allowed[xrt_list[i].type][xrt_list[i].data] \in {"ALLOWED", "KEEP"}

ReadInv ==
  /\ pc = "populate" => header.total_num <= MaxXrt /\ ReadUpTo(at)
  /\ pc = "revoke" => ReadUpTo(header.total_num)

LEMMA ReadPopulate ==
  ASSUME TypeOK, ReadInv, Populate
  PROVE  ReadInv'
<1> USE DEF allButPc, ctxtVars, pageVars, capVars, monitorVars, Goto
<1>1. ASSUME NEW k \in ChannelKinds, PopulateChannel(k)
      PROVE  ReadInv'
  <2> DEFINE c == xrt_list[at].data
  <2>1. k # "memory"
    BY DEF ChannelKinds
  <2>2. c \in Channels
    BY <1>1, <2>1, AcceptedInRange DEF PopulateChannel
  <2>3. allowed' = [allowed EXCEPT ![k][c] = Allow(@)] /\ xrt_list' = xrt_list
        /\ at' = at + 1 /\ xrt_list[at].type = k
    BY <1>1 DEF PopulateChannel, InPopulate
  <2>4. ASSUME NEW i \in Slots, i < at + 1, xrt_list[i].type \in ChannelKinds
        PROVE  allowed'[xrt_list[i].type][xrt_list[i].data] \in {"ALLOWED", "KEEP"}
    <3> DEFINE kk == xrt_list[i].type
               cc == xrt_list[i].data
    <3>1. CASE kk = k /\ cc = c
      BY <2>2, <2>3, <3>1 DEF TypeOK, ChannelStates, Allow
    <3>2. CASE ~ (kk = k /\ cc = c)
      <4>1. i < at
        BY <2>3, <2>4, <3>2 DEF TypeOK, Slots
      <4>2. allowed[kk][cc] \in {"ALLOWED", "KEEP"}
        BY <1>1, <2>4, <4>1 DEF PopulateChannel, InPopulate, ReadInv, ReadUpTo
      <4>3. allowed'[kk][cc] = allowed[kk][cc]
        BY <2>2, <2>3, <2>4, <3>2 DEF TypeOK, ChannelStates
      <4> QED
        BY <4>2, <4>3
    <3> QED
      BY <3>1, <3>2
  <2>5. ReadUpTo(at)'
    BY <2>3, <2>4 DEF ReadUpTo
  <2> QED
    BY <1>1, <2>5 DEF PopulateChannel, InPopulate, ReadInv
<1>2. CASE PopulateMapping
  <2>1. ASSUME NEW i \in Slots, i < at + 1, xrt_list[i].type \in ChannelKinds
        PROVE  i < at
    <3>1. xrt_list[at].type \notin ChannelKinds
      BY <1>2 DEF PopulateMapping, InPopulate, ChannelKinds
    <3> QED
      BY <2>1, <3>1 DEF TypeOK, Slots
  <2> QED
    BY <1>2, <2>1 DEF PopulateMapping, InPopulate, ReadInv, ReadUpTo
<1>3. CASE (\E k \in XrtKinds : PopulateAssertFails(k)) \/ PopulateRejects
  BY <1>3 DEF PopulateAssertFails, PopulateRejects, ReadInv
<1>4. CASE PopulateDone
  <2>1. \A i \in Slots : i < header.total_num => i < at
    BY <1>4 DEF PopulateDone, TypeOK, Slots
  <2> QED
    BY <1>4, <2>1 DEF PopulateDone, ReadInv, ReadUpTo
<1> QED
  BY <1>1, <1>2, <1>3, <1>4 DEF Populate

LEMMA ReadStep ==
  ASSUME TypeOK, ReadInv, [Next]_vars
  PROVE  ReadInv'
<1> USE DEF allButPc, ctxtVars, pageVars, capVars, monitorVars, Goto
<1>1. CASE UNCHANGED vars
  BY <1>1 DEF vars, ReadInv, ReadUpTo
<1>2. CASE MonitorNext \/ CheckImages \/ ContextActivate
  BY <1>2 DEF MonitorNext, PrepareXrtReqList, PrivilegeTemplatePd, StartLoader,
              StopPd, CheckImages, ContextActivate, ReadInv
<1>3. CASE ParseHeader
  BY <1>3, BoundsAssumption DEF ParseHeader, ReadInv, ReadUpTo, TypeOK, Slots
<1>4. CASE EnforcePola
  BY <1>4 DEF EnforcePola, RevokeFirstTime, RevokeCaps, RevokeFails,
              BeginRestore, RestoreKept, RestoreSkips, RestoreCopies,
              RestoreCopyFails, ToCopy, InRestore, RestoreNextKind,
              RestoreMappingKept, RestoreMappingMaps, RestoreMappingFails,
              InRestoreMappings, RestoreDone, ReadInv
<1>5. CASE \/ Deprivilege \/ LoadPayloads \/ LoadPayloadsFails
           \/ TrampolineBackup \/ TrampolineAborts \/ TrampolineWipe
  BY <1>5 DEF Deprivilege, LoadPayloads, LoadPayloadsFails, TrampolineBackup,
              TrampolineAborts, TrampolineWipe, ReadInv
<1> QED
  BY <1>1, <1>2, <1>3, <1>4, <1>5, ReadPopulate DEF Next, LoaderNext, MonitorAnswers

LEMMA OnlyRevocationTakes ==
  ASSUME TypeOK, ReadInv, [Next]_vars,
         NEW k \in CapKinds, NEW c \in Channels, c \in held[k], c \notin held'[k]
  PROVE  c \notin Listed(k)
<1> USE DEF allButPc, ctxtVars, pageVars, capVars, monitorVars, Goto
<1>1. CASE RevokeCaps
  <2>1. c \in Revocable(k)
    BY <1>1 DEF RevokeCaps, Revoked
  <2>2. allowed[k][c] = "USED"
    BY <2>1 DEF Revocable
  <2>3. ReadUpTo(header.total_num)
    BY <1>1 DEF RevokeCaps, BeginRestore, ReadInv
  <2> QED
    BY <2>2, <2>3 DEF Listed, ReadUpTo, CapKinds, ChannelKinds
<1>2. CASE RestoreCopies
  BY <1>2 DEF RestoreCopies, TypeOK
<1>3. CASE held' = held
  BY <1>3
<1>4. RevokeCaps \/ RestoreCopies \/ held' = held
  <2>1. CASE MonitorNext \/ UNCHANGED vars
    BY <2>1 DEF MonitorNext, PrepareXrtReqList, PrivilegeTemplatePd,
                StartLoader, StopPd, vars
  <2>2. CASE CheckImages \/ ContextActivate \/ ParseHeader \/ Populate
    BY <2>2 DEF CheckImages, ContextActivate, ParseHeader, Populate,
                PopulateChannel, PopulateMapping, PopulateAssertFails,
                PopulateRejects, PopulateDone
  <2>3. CASE EnforcePola
    BY <2>3 DEF EnforcePola, RevokeFirstTime, RevokeFails, RestoreKept,
                RestoreSkips, RestoreCopyFails, RestoreNextKind,
                RestoreMappingKept, RestoreMappingMaps, RestoreMappingFails,
                RestoreDone
  <2>4. CASE \/ Deprivilege \/ LoadPayloads \/ LoadPayloadsFails
             \/ TrampolineBackup \/ TrampolineAborts \/ TrampolineWipe
    BY <2>4 DEF Deprivilege, LoadPayloads, LoadPayloadsFails, TrampolineBackup,
                TrampolineAborts, TrampolineWipe
  <2> QED
    BY <2>1, <2>2, <2>3, <2>4 DEF Next, LoaderNext, MonitorAnswers
<1> QED
  BY <1>1, <1>2, <1>3, <1>4

(* A capability that the PD holds and the request page lists is not taken  *)
(* away by any step, whatever else the page and the context hold.          *)
THEOREM KeptRightsStay == Spec => KeptAcrossReload
<1>1. Init => ReadInv
  BY DEF Init, ReadInv
<1>2. TypeOK /\ ReadInv /\ [Next]_vars => ReadInv'
  BY ReadStep
<1>3. TypeOK /\ ReadInv /\ [Next]_vars =>
        [\A k \in CapKinds, c \in Channels :
           c \in held[k] /\ c \notin held'[k] => c \notin Listed(k)]_vars
  BY OnlyRevocationTakes
<1> QED
  BY <1>1, <1>2, <1>3, TypeCorrect, PTL DEF Spec, KeptAcrossReload
=============================================================================
