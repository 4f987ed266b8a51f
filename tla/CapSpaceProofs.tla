--------------------------- MODULE CapSpaceProofs ---------------------------
(***************************************************************************)
(* Theorems about CapSpace for all channels, regions and addresses that    *)
(* its assumptions admit, and that it implements CapService.               *)
(***************************************************************************)
EXTENDS CapSpace, TLAPS

(* The constants of txlocap.h, to be expanded where numbers are compared. *)
LEMMA SlotFacts ==
  /\ \A k \in Kinds, c \in Channels :
       /\ SlotOf(k, c) \in Slots /\ SlotOf(k, c) < DLG_MAP_CAP_START
       /\ BackupOf(k, c) \in Slots /\ BackupOf(k, c) < DLG_MAP_CAP_START
BY ChannelsAssumption
DEF Kinds, Channels, SlotOf, BackupOf, Slots, NTFN_BASE_CAP, PPC_BASE_CAP,
    BACKUP_NTFN_BASE_CAP, DLG_MAP_CAP_START, MK_CAP_SLOT

(* Two channels never share a slot. *)
LEMMA SlotsDiffer ==
  ASSUME NEW j \in Kinds, NEW k \in Kinds, NEW b \in Channels, NEW c \in Channels,
         SlotOf(j, b) = SlotOf(k, c)
  PROVE  j = k /\ b = c
BY ChannelsAssumption
DEF Kinds, Channels, SlotOf, NTFN_BASE_CAP, PPC_BASE_CAP

LEMMA PagesDiffer ==
  /\ \A s, t : Page(s) = Page(t) => s = t
  /\ \A s : Page(s) # None
BY DEF Page, None

LEMMA RegionFacts ==
  ASSUME NEW r \in Regions
  PROVE  /\ r.slot \in Nat /\ r.cap_count \in Nat \ {0} /\ r.arg0 \in Nat
         /\ PageSlots(r) \subseteq Slots /\ PageSlots(r) \subseteq AllPages
         /\ r.slot \in PageSlots(r)
         /\ \A s \in PageSlots(r) :
              /\ s \in Int /\ DLG_MAP_CAP_START <= s
              /\ AddressOf(r, s) \in Addresses
         /\ \A s, t \in PageSlots(r) : AddressOf(r, s) = AddressOf(r, t) => s = t
<1>1. r \in Region /\ r.slot >= DLG_MAP_CAP_START
      /\ PageSlots(r) \subseteq Slots
      /\ \A s \in PageSlots(r) : AddressOf(r, s) \in Addresses
  BY RegionsAssumption
<1>2. r.slot \in Nat /\ r.cap_count \in Nat \ {0} /\ r.arg0 \in Nat
  BY <1>1 DEF Region, Slots
<1>3. PageSlots(r) \subseteq AllPages
  BY DEF AllPages
<1>4. \A s \in PageSlots(r) : s \in Int /\ DLG_MAP_CAP_START <= s
  BY <1>1, <1>2 DEF PageSlots, DLG_MAP_CAP_START
<1>5. r.slot \in PageSlots(r)
  BY <1>2 DEF PageSlots
<1>6. \A s, t \in PageSlots(r) : AddressOf(r, s) = AddressOf(r, t) => s = t
  BY <1>2, <1>4 DEF AddressOf
<1> QED
  BY <1>1, <1>2, <1>3, <1>4, <1>5, <1>6

LEMMA AllPagesAbove == \A s \in AllPages : s \in Slots /\ DLG_MAP_CAP_START <= s
BY RegionFacts DEF AllPages

LEMMA RegionsApart ==
  ASSUME NEW q \in Regions, NEW r \in Regions, q # r,
         NEW s \in PageSlots(q), NEW t \in PageSlots(r)
  PROVE  s # t /\ AddressOf(q, s) # AddressOf(r, t)
BY RegionsAssumption

(* A channel's capability is delivered where it is copied from. *)
LEMMA DeliveredChannel ==
  ASSUME NEW k \in Kinds, NEW c \in Channels
  PROVE  Delivered(BackupOf(k, c)) =
           IF <<k, c>> \in Delegated THEN Channel(k, c) ELSE None
<1>1. BackupOf(k, c) \notin AllPages
  BY SlotFacts, AllPagesAbove DEF Slots, DLG_MAP_CAP_START
<1>2. \A d \in Delegated : d[2] \in 0 .. 63
  BY DelegatedAssumption, ChannelsAssumption DEF Channels
<1>3. CASE k = "ntfn"
  <2>1. BackupOf(k, c) - BACKUP_NTFN_BASE_CAP = c
    BY <1>3 DEF BackupOf, BACKUP_NTFN_BASE_CAP, Channels
  <2>2. BackupOf(k, c) - PPC_BASE_CAP \notin 0 .. 63
    BY <1>3, ChannelsAssumption
    DEF BackupOf, BACKUP_NTFN_BASE_CAP, PPC_BASE_CAP, NTFN_BASE_CAP, Channels
  <2>3. <<"ppc", BackupOf(k, c) - PPC_BASE_CAP>> \notin Delegated
    BY <1>2, <2>2
  <2> QED
    BY <1>1, <1>3, <2>1, <2>3 DEF Delivered
<1>4. CASE k = "ppc"
  <2>1. BackupOf(k, c) - PPC_BASE_CAP = c
    BY <1>4 DEF BackupOf, PPC_BASE_CAP, NTFN_BASE_CAP, Channels
  <2>2. BackupOf(k, c) - BACKUP_NTFN_BASE_CAP \notin 0 .. 63
    BY <1>4, ChannelsAssumption
    DEF BackupOf, BACKUP_NTFN_BASE_CAP, PPC_BASE_CAP, NTFN_BASE_CAP, Channels
  <2>3. <<"ntfn", BackupOf(k, c) - BACKUP_NTFN_BASE_CAP>> \notin Delegated
    BY <1>2, <2>2
  <2> QED
    BY <1>1, <1>4, <2>1, <2>3 DEF Delivered
<1> QED
  BY <1>3, <1>4 DEF Kinds
-----------------------------------------------------------------------------
(* The slots of channels.                                                  *)

LEMMA OwnChannelSlot ==
  ASSUME TypeOK, SlotsAreTheirOwn, NEW k \in Kinds, NEW c \in Channels,
         NEW cap \in {None, Delivered(BackupOf(k, c))},
         mk' = [mk EXCEPT ![SlotOf(k, c)] = cap]
  PROVE  SlotsAreTheirOwn' /\ cap \in Caps
<1>1. cap = None \/ (<<k, c>> \in Delegated /\ cap = Channel(k, c))
  BY DeliveredChannel
<1>2. /\ mk'[SlotOf(k, c)] = cap
      /\ \A s \in Slots : s # SlotOf(k, c) => mk'[s] = mk[s]
  BY SlotFacts DEF TypeOK
<1>3. ASSUME NEW j \in Kinds, NEW b \in Channels
      PROVE  mk'[SlotOf(j, b)] \in
               {None} \cup (IF <<j, b>> \in Delegated THEN {Channel(j, b)} ELSE {})
  <2>1. CASE SlotOf(j, b) = SlotOf(k, c)
    BY <1>1, <1>2, <2>1, SlotsDiffer
  <2>2. CASE SlotOf(j, b) # SlotOf(k, c)
    BY <1>2, <2>2, SlotFacts DEF SlotsAreTheirOwn
  <2> QED
    BY <2>1, <2>2
<1>4. cap \in Caps
  BY <1>1 DEF Caps, Channel
<1> QED
  BY <1>3, <1>4 DEF SlotsAreTheirOwn

LEMMA ChannelStep ==
  ASSUME TypeOK, SlotsAreTheirOwn, NEW k \in Kinds, NEW c \in Channels,
         \/ RevokeChannel(k, c)
         \/ RestoreChannel(k, c) \/ RestoreChannelFails(k, c)
  PROVE  /\ SlotsAreTheirOwn' /\ mk' \in [Slots -> Caps]
         /\ UNCHANGED <<grant, space, used>> /\ crashed' \in BOOLEAN
<1>1. CASE RestoreChannelFails(k, c)
  BY <1>1 DEF RestoreChannelFails, Crash, TypeOK, SlotsAreTheirOwn
<1>2. CASE RevokeChannel(k, c) \/ RestoreChannel(k, c)
  <2>1. PICK cap \in {None, Delivered(BackupOf(k, c))} :
          mk' = [mk EXCEPT ![SlotOf(k, c)] = cap]
    BY <1>2 DEF RevokeChannel, RestoreChannel
  <2>2. SlotsAreTheirOwn' /\ cap \in Caps
    BY <2>1, OwnChannelSlot
  <2> QED
    BY <1>2, <2>1, <2>2 DEF RevokeChannel, RestoreChannel, TypeOK
<1> QED
  BY <1>1, <1>2
-----------------------------------------------------------------------------
(* What the system calls for ranges do to the address space.               *)
PtType == [Addresses -> {Page(s) : s \in AllPages} \cup {None}]
MappedType == [AllPages -> Addresses \cup {NoAddress}]

LEMMA MapFirstEffect ==
  ASSUME TypeOK, NEW r \in Regions, NEW n \in Nat, MapFirst(r, n)
  PROVE  /\ pt' \in PtType /\ mapped_at' \in MappedType
         /\ \A s \in PageSlots(r) : s < r.slot + n =>
              pt'[AddressOf(r, s)] = Page(s) /\ mapped_at'[s] = AddressOf(r, s)
         /\ \A a \in Addresses :
              (\A s \in PageSlots(r) : s < r.slot + n => a # AddressOf(r, s))
                => pt'[a] = pt[a]
         /\ \A s \in AllPages :
              ~ (s \in PageSlots(r) /\ s < r.slot + n) => mapped_at'[s] = mapped_at[s]
<1> DEFINE first == {s \in PageSlots(r) : s < r.slot + n}
           At(a) == CHOOSE s \in first : a = AddressOf(r, s)
<1>1. /\ mapped_at' = [s \in AllPages |->
                        IF s \in first THEN AddressOf(r, s) ELSE mapped_at[s]]
      /\ pt' = [a \in Addresses |->
                 IF \E s \in first : a = AddressOf(r, s) THEN Page(At(a)) ELSE pt[a]]
  BY DEF MapFirst
<1>2. \A s \in first : s \in AllPages /\ AddressOf(r, s) \in Addresses
  BY RegionFacts
<1>3. \A s, t \in first : AddressOf(r, s) = AddressOf(r, t) => s = t
  BY RegionFacts
<1>4. \A s : s \in first <=> s \in PageSlots(r) /\ s < r.slot + n
  OBVIOUS
<1>5. pt \in PtType /\ mapped_at \in MappedType
  BY DEF TypeOK, PtType, MappedType
<1> HIDE DEF first
<1>6. ASSUME NEW a \in Addresses, NEW s \in first, a = AddressOf(r, s)
      PROVE  At(a) = s
  BY <1>3, <1>6
<1> HIDE DEF At
<1>7. \A s \in first : pt'[AddressOf(r, s)] = Page(s) /\ mapped_at'[s] = AddressOf(r, s)
  BY <1>1, <1>2, <1>6
<1>8. \A a \in Addresses :
        (\A s \in first : a # AddressOf(r, s)) => pt'[a] = pt[a]
  BY <1>1
<1>9. \A s \in AllPages : s \notin first => mapped_at'[s] = mapped_at[s]
  BY <1>1
<1>10. pt' \in PtType
  <2>1. \A a \in Addresses : pt'[a] \in {Page(s) : s \in AllPages} \cup {None}
    BY <1>2, <1>5, <1>7, <1>8 DEF PtType
  <2> QED
    BY <1>1, <2>1 DEF PtType
<1>11. mapped_at' \in MappedType
  BY <1>1, <1>2, <1>5 DEF MappedType
<1> QED
  BY <1>4, <1>7, <1>8, <1>9, <1>10, <1>11

LEMMA UnmappedEffect ==
  ASSUME TypeOK, NEW S, Unmapped(S)
  PROVE  /\ pt' \in PtType /\ mapped_at' \in MappedType
         /\ \A s \in AllPages :
              mapped_at'[s] = IF s \in S THEN NoAddress ELSE mapped_at[s]
         /\ \A a \in Addresses :
              pt'[a] = IF \E s \in S : pt[a] = Page(s) /\ mapped_at[s] = a
                       THEN None ELSE pt[a]
BY DEF Unmapped, TypeOK, PtType, MappedType

(* A step for a region maps its first pages, unmaps them all or leaves the *)
(* address space alone.                                                    *)
LEMMA RegionStep ==
  ASSUME crashed \in BOOLEAN, NEW r \in Regions,
         GrantIgnored(r) \/ GrantRange(r) \/ GrantRangeFails(r) \/ RevokeRange(r)
  PROVE  /\ UNCHANGED <<grant, mk>> /\ ~crashed /\ crashed' \in BOOLEAN
         /\ used' \subseteq used \cup {r}
         /\ \/ UNCHANGED space
            \/ Unmapped(PageSlots(r))
            \/ \E n \in Nat :
                 /\ MapFirst(r, n)
                 /\ \A s \in PageSlots(r) : s < r.slot + n => CanMap(s, AddressOf(r, s))
<1>1. CASE GrantIgnored(r) \/ RevokeRange(r)
  BY <1>1 DEF GrantIgnored, RevokeRange, Granted
<1>2. CASE GrantRange(r)
  <2>1. r.cap_count \in Nat
    BY RegionFacts
  <2> QED
    BY <1>2, <2>1 DEF GrantRange, RangeCall, Granted
<1>3. CASE GrantRangeFails(r)
  <2>1. PICK n \in 0 .. r.cap_count - 1 : MapStopsAt(r, n)
    BY <1>3 DEF GrantRangeFails
  <2>2. n \in Nat /\ MapFirst(r, n)
        /\ \A s \in PageSlots(r) : s < r.slot + n => CanMap(s, AddressOf(r, s))
    BY <2>1, RegionFacts DEF MapStopsAt
  <2> QED
    BY <1>3, <2>2 DEF GrantRangeFails, RangeCall, Granted
<1> QED
  BY <1>1, <1>2, <1>3
-----------------------------------------------------------------------------
(* Types and slots.                                                        *)
OwnInv == TypeOK /\ SlotsAreTheirOwn

LEMMA OwnStep ==
  ASSUME OwnInv, [Next]_vars
  PROVE  OwnInv'
<1> USE DEF OwnInv
<1>1. CASE GrantNext \/ UNCHANGED vars
  <2>1. /\ UNCHANGED <<mk, mapped_at, pt, used>>
        /\ crashed' \in BOOLEAN /\ grant' \in BOOLEAN
    <3>1. CASE Privilege \/ Deprivilege
      BY <3>1 DEF Privilege, Deprivilege, TypeOK, space
    <3>2. CASE Ungranted \/ Restart
      BY <3>2 DEF Ungranted, Restart, Crash, TypeOK, space
    <3>3. CASE UNCHANGED vars
      BY <3>3 DEF vars, space, TypeOK
    <3> QED
      BY <1>1, <3>1, <3>2, <3>3 DEF GrantNext
  <2>2. SlotsAreTheirOwn'
    BY <2>1 DEF SlotsAreTheirOwn
  <2>3. TypeOK'
    BY <2>1 DEF TypeOK
  <2> QED
    BY <2>2, <2>3
<1>2. ASSUME NEW k \in Kinds, NEW c \in Channels,
             \/ RevokeChannel(k, c)
             \/ RestoreChannel(k, c) \/ RestoreChannelFails(k, c)
      PROVE  OwnInv'
  <2>1. /\ SlotsAreTheirOwn' /\ mk' \in [Slots -> Caps]
        /\ UNCHANGED <<grant, mapped_at, pt, used>> /\ crashed' \in BOOLEAN
    BY <1>2, ChannelStep DEF space
  <2>2. TypeOK'
    BY <2>1 DEF TypeOK
  <2> QED
    BY <2>1, <2>2
<1>3. ASSUME NEW r \in Regions,
             GrantIgnored(r) \/ GrantRange(r) \/ GrantRangeFails(r) \/ RevokeRange(r)
      PROVE  OwnInv'
  <2>1. /\ UNCHANGED <<grant, mk>> /\ crashed' \in BOOLEAN
        /\ used' \subseteq used \cup {r}
    BY <1>3, RegionStep DEF TypeOK
  <2>2. SlotsAreTheirOwn'
    BY <2>1 DEF SlotsAreTheirOwn
  <2>3. pt' \in PtType /\ mapped_at' \in MappedType
    <3>1. CASE UNCHANGED space
      BY <3>1 DEF space, TypeOK, PtType, MappedType
    <3>2. CASE Unmapped(PageSlots(r))
      BY <3>2, UnmappedEffect
    <3>3. CASE \E n \in Nat : MapFirst(r, n)
      BY <3>3, MapFirstEffect
    <3> QED
      BY <1>3, <3>1, <3>2, <3>3, RegionStep DEF TypeOK
  <2> QED
    BY <2>1, <2>2, <2>3 DEF TypeOK, PtType, MappedType
<1> QED
  BY <1>1, <1>2, <1>3 DEF Next, ChannelNext, RegionNext

LEMMA OwnHolds == Spec => []OwnInv
<1>1. Init => OwnInv
  BY SlotFacts DEF Init, OwnInv, TypeOK, SlotsAreTheirOwn, Caps
<1>2. OwnInv /\ [Next]_vars => OwnInv'
  BY OwnStep
<1> QED
  BY <1>1, <1>2, PTL DEF Spec

(* The types hold in every reachable state: no page's capability ever      *)
(* comes into the Microkit CNode.                                          *)
THEOREM CapTypeCorrect == Spec => []TypeOK
BY OwnHolds, PTL DEF OwnInv

(* No channel's slot ever holds anything but that channel's capability.    *)
THEOREM EachSlotItsOwn == Spec => []SlotsAreTheirOwn
BY OwnHolds, PTL DEF OwnInv
-----------------------------------------------------------------------------
(* Every page is mapped nowhere or where it belongs, where there is no     *)
(* other page; the kernel did not refuse it.                               *)
Home(r, s) ==
  LET a == AddressOf(r, s) IN
  \/ mapped_at[s] = NoAddress /\ pt[a] = None
  \/ mapped_at[s] = a /\ pt[a] = Page(s) /\ a \notin Unmappable
PlacedInv == \A r \in Regions : \A s \in PageSlots(r) : Home(r, s)

LEMMA HomeRepeats ==
  ASSUME NEW r \in Regions, NEW s \in PageSlots(r), Home(r, s),
         AddressOf(r, s) \notin Unmappable
  PROVE  CanMap(s, AddressOf(r, s)) /\ ~Occupied(s, AddressOf(r, s))
BY DEF Home, CanMap, Occupied

LEMMA WholeAtHome ==
  ASSUME PlacedInv, NEW r \in Regions, NEW s \in PageSlots(r),
         pt[AddressOf(r, s)] = Page(s)
  PROVE  AddressOf(r, s) \notin Unmappable
BY PagesDiffer DEF PlacedInv, Home

LEMMA WholeFrame ==
  ASSUME UNCHANGED space
  PROVE  /\ \A r : Whole(r)' <=> Whole(r)
         /\ PlacedInv => PlacedInv'
BY DEF space, Whole, PlacedInv, Home

(* The first n pages of a region were mapped, others were left alone.      *)
LEMMA RangeMapped ==
  ASSUME TypeOK, PlacedInv, NEW r \in Regions, NEW n \in Nat, MapFirst(r, n),
         \A s \in PageSlots(r) : s < r.slot + n => CanMap(s, AddressOf(r, s))
  PROVE  /\ PlacedInv'
         /\ \A s \in PageSlots(r) : s < r.slot + n => pt'[AddressOf(r, s)] = Page(s)
         /\ \A s \in PageSlots(r) :
              ~ s < r.slot + n => pt'[AddressOf(r, s)] = pt[AddressOf(r, s)]
         /\ \A q \in Regions : q # r => (Whole(q)' <=> Whole(q))
<1>1. /\ \A s \in PageSlots(r) : s < r.slot + n =>
              pt'[AddressOf(r, s)] = Page(s) /\ mapped_at'[s] = AddressOf(r, s)
      /\ \A a \in Addresses :
              (\A s \in PageSlots(r) : s < r.slot + n => a # AddressOf(r, s))
                => pt'[a] = pt[a]
      /\ \A s \in AllPages :
              ~ (s \in PageSlots(r) /\ s < r.slot + n) => mapped_at'[s] = mapped_at[s]
  BY MapFirstEffect
<1>2. ASSUME NEW s \in PageSlots(r), ~ s < r.slot + n
      PROVE  pt'[AddressOf(r, s)] = pt[AddressOf(r, s)] /\ mapped_at'[s] = mapped_at[s]
  <2>1. s \in AllPages /\ AddressOf(r, s) \in Addresses
    BY RegionFacts
  <2>2. \A t \in PageSlots(r) : t < r.slot + n => AddressOf(r, s) # AddressOf(r, t)
    BY <1>2, RegionFacts
  <2> QED
    BY <1>1, <1>2, <2>1, <2>2
<1>3. ASSUME NEW q \in Regions, q # r, NEW t \in PageSlots(q)
      PROVE  pt'[AddressOf(q, t)] = pt[AddressOf(q, t)] /\ mapped_at'[t] = mapped_at[t]
  <2>1. t \in AllPages /\ AddressOf(q, t) \in Addresses /\ t \notin PageSlots(r)
    BY <1>3, RegionFacts, RegionsApart
  <2>2. \A s \in PageSlots(r) : AddressOf(q, t) # AddressOf(r, s)
    BY <1>3, RegionsApart
  <2> QED
    BY <1>1, <2>1, <2>2
<1>4. PlacedInv'
  <2>1. ASSUME NEW q \in Regions, NEW s \in PageSlots(q)
        PROVE  Home(q, s)'
    <3>1. CASE q # r
      BY <1>3, <3>1 DEF PlacedInv, Home
    <3>2. CASE q = r /\ ~ s < r.slot + n
      BY <1>2, <3>2 DEF PlacedInv, Home
    <3>3. CASE q = r /\ s < r.slot + n
      BY <1>1, <3>3 DEF Home, CanMap
    <3> QED
      BY <3>1, <3>2, <3>3
  <2> QED
    BY <2>1 DEF PlacedInv
<1>5. \A q \in Regions : q # r => (Whole(q)' <=> Whole(q))
  BY <1>3 DEF Whole
<1> QED
  BY <1>1, <1>2, <1>4, <1>5

(* Pages of a region were unmapped, others were left alone.                *)
LEMMA PagesUnmapped ==
  ASSUME TypeOK, PlacedInv, NEW r \in Regions, Unmapped(PageSlots(r))
  PROVE  /\ PlacedInv' /\ ~Whole(r)'
         /\ \A q \in Regions : q # r => (Whole(q)' <=> Whole(q))
<1>1. /\ \A s \in AllPages :
           mapped_at'[s] = IF s \in PageSlots(r) THEN NoAddress ELSE mapped_at[s]
      /\ \A a \in Addresses :
           pt'[a] = IF \E s \in PageSlots(r) : pt[a] = Page(s) /\ mapped_at[s] = a
                    THEN None ELSE pt[a]
  BY UnmappedEffect
<1>2. ASSUME NEW q \in Regions, q # r, NEW t \in PageSlots(q)
      PROVE  pt'[AddressOf(q, t)] = pt[AddressOf(q, t)] /\ mapped_at'[t] = mapped_at[t]
  <2>1. t \in AllPages /\ AddressOf(q, t) \in Addresses /\ t \notin PageSlots(r)
    BY <1>2, RegionFacts, RegionsApart
  <2>2. \A s \in PageSlots(r) : pt[AddressOf(q, t)] # Page(s)
    BY <1>2, <2>1, PagesDiffer DEF PlacedInv, Home
  <2> QED
    BY <1>1, <2>1, <2>2
<1>3. ASSUME NEW t \in PageSlots(r)
      PROVE  pt'[AddressOf(r, t)] = None /\ mapped_at'[t] = NoAddress
  <2>1. t \in AllPages /\ AddressOf(r, t) \in Addresses
    BY RegionFacts
  <2>2. Home(r, t)
    BY DEF PlacedInv
  <2> QED
    BY <1>1, <2>1, <2>2 DEF Home
<1>4. PlacedInv'
  BY <1>2, <1>3 DEF PlacedInv, Home
<1>5. ~Whole(r)'
  BY <1>3, RegionFacts, PagesDiffer DEF Whole
<1>6. \A q \in Regions : q # r => (Whole(q)' <=> Whole(q))
  BY <1>2 DEF Whole
<1> QED
  BY <1>4, <1>5, <1>6

LEMMA RangeGranted ==
  ASSUME TypeOK, PlacedInv, NEW r \in Regions, GrantRange(r)
  PROVE  /\ PlacedInv' /\ Whole(r)'
         /\ \A q \in Regions : q # r => (Whole(q)' <=> Whole(q))
<1>1. /\ r.cap_count \in Nat /\ MapFirst(r, r.cap_count)
      /\ \A s \in PageSlots(r) : CanMap(s, AddressOf(r, s))
      /\ \A s \in PageSlots(r) : s < r.slot + r.cap_count
  BY RegionFacts DEF GrantRange, PageSlots
<1>2. /\ PlacedInv' /\ \A q \in Regions : q # r => (Whole(q)' <=> Whole(q))
      /\ \A s \in PageSlots(r) : pt'[AddressOf(r, s)] = Page(s)
  BY <1>1, RangeMapped
<1> QED
  BY <1>2 DEF Whole

(* A refused call neither completes a region nor breaks one.               *)
LEMMA RangeRefused ==
  ASSUME TypeOK, PlacedInv, NEW r \in Regions, GrantRangeFails(r)
  PROVE  /\ PlacedInv'
         /\ \A q \in Regions : Whole(q)' <=> Whole(q)
<1>1. PICK n \in 0 .. r.cap_count - 1 : MapStopsAt(r, n)
  BY DEF GrantRangeFails
<1> DEFINE s == r.slot + n
<1>2. /\ n \in Nat /\ MapFirst(r, n)
      /\ \A t \in PageSlots(r) : t < r.slot + n => CanMap(t, AddressOf(r, t))
      /\ ~CanMap(s, AddressOf(r, s)) \/ Occupied(s, AddressOf(r, s))
      /\ s \in PageSlots(r) /\ ~ s < r.slot + n
  BY <1>1, RegionFacts DEF MapStopsAt, PageSlots
<1> HIDE DEF s
<1>3. /\ PlacedInv' /\ \A q \in Regions : q # r => (Whole(q)' <=> Whole(q))
      /\ pt'[AddressOf(r, s)] = pt[AddressOf(r, s)]
  BY <1>2, RangeMapped
<1>4. pt[AddressOf(r, s)] # Page(s)
  BY <1>2, WholeAtHome, HomeRepeats DEF PlacedInv
<1>5. ~Whole(r) /\ ~Whole(r)'
  BY <1>2, <1>3, <1>4 DEF Whole
<1> QED
  BY <1>3, <1>5

UsedInv == PlacedInv /\ UsedRegionsAreWhole

LEMMA UsedStep ==
  ASSUME OwnInv, UsedInv, [Next]_vars
  PROVE  UsedInv'
<1>1. CASE UNCHANGED <<space, used>>
  BY <1>1, WholeFrame DEF UsedInv, UsedRegionsAreWhole
<1>2. ASSUME NEW r \in Regions, GrantIgnored(r) \/ GrantRange(r)
      PROVE  UsedInv'
  <2>1. used' = used \cup {r} /\ used \subseteq Regions
    BY <1>2 DEF GrantIgnored, GrantRange, OwnInv, TypeOK
  <2>2. PlacedInv' /\ (InRange(r.slot) => Whole(r)')
        /\ \A q \in Regions : q # r => (Whole(q)' <=> Whole(q))
    <3>1. CASE GrantIgnored(r)
      BY <3>1, WholeFrame DEF GrantIgnored, UsedInv
    <3>2. CASE GrantRange(r)
      BY <3>2, RangeGranted DEF UsedInv, OwnInv
    <3> QED
      BY <1>2, <3>1, <3>2
  <2> QED
    BY <2>1, <2>2 DEF UsedInv, UsedRegionsAreWhole
<1>3. ASSUME NEW r \in Regions, GrantRangeFails(r)
      PROVE  UsedInv'
  <2>1. used' = used /\ used \subseteq Regions
    BY <1>3 DEF GrantRangeFails, OwnInv, TypeOK
  <2>2. PlacedInv' /\ \A q \in Regions : Whole(q)' <=> Whole(q)
    BY <1>3, RangeRefused DEF UsedInv, OwnInv
  <2> QED
    BY <2>1, <2>2 DEF UsedInv, UsedRegionsAreWhole
<1>4. ASSUME NEW r \in Regions, RevokeRange(r)
      PROVE  UsedInv'
  <2>1. used' = used \ {r} /\ used \subseteq Regions /\ Unmapped(PageSlots(r))
    BY <1>4 DEF RevokeRange, OwnInv, TypeOK
  <2>2. PlacedInv' /\ \A q \in Regions : q # r => (Whole(q)' <=> Whole(q))
    BY <2>1, PagesUnmapped DEF UsedInv, OwnInv
  <2> QED
    BY <2>1, <2>2 DEF UsedInv, UsedRegionsAreWhole
<1>5. CASE GrantNext \/ ChannelNext \/ UNCHANGED vars
  BY <1>1, <1>5
  DEF GrantNext, Privilege, Deprivilege, Ungranted, Restart, ChannelNext,
      RevokeChannel, RestoreChannel, RestoreChannelFails, Crash, vars
<1> QED
  BY <1>2, <1>3, <1>4, <1>5 DEF Next, RegionNext

LEMMA UsedHolds == Spec => [](OwnInv /\ UsedInv)
<1>1. Init => UsedInv
  <2> SUFFICES ASSUME Init PROVE UsedInv
    OBVIOUS
  <2>1. \A r \in Regions : \A s \in PageSlots(r) : Home(r, s)
    BY RegionFacts DEF Init, Home
  <2> QED
    BY <2>1 DEF Init, UsedInv, PlacedInv, UsedRegionsAreWhole
<1>2. OwnInv /\ UsedInv /\ [Next]_vars => UsedInv'
  BY UsedStep
<1> QED
  BY <1>1, <1>2, OwnHolds, PTL DEF Spec

(* A region counted as used is mapped from its first page to its last, if  *)
(* its first slot is in range.                                             *)
THEOREM UsedIsWhole == Spec => []UsedRegionsAreWhole
BY UsedHolds, PTL DEF UsedInv

(* Whichever calls were refused, and after however many pages, no page is  *)
(* in the way of a later call.                                             *)
THEOREM RefusedCallsLeaveRoom == Spec => []CallsCanBeRepeated
<1>1. PlacedInv => CallsCanBeRepeated
  BY HomeRepeats DEF PlacedInv, CallsCanBeRepeated
<1> QED
  BY <1>1, UsedHolds, PTL DEF UsedInv
-----------------------------------------------------------------------------
(* CapSpace implements CapService.                                         *)
Mapped == {r \in Regions : Whole(r)}

LEMMA HeldFrame ==
  ASSUME \A k \in Kinds, c \in Channels : mk'[SlotOf(k, c)] = mk[SlotOf(k, c)]
  PROVE  Held' = Held
BY DEF Held

LEMMA MappedFrame ==
  ASSUME \A r \in Regions : Whole(r)' <=> Whole(r)
  PROVE  Mapped' = Mapped
BY DEF Mapped

LEMMA StutterStep ==
  ASSUME crashed' = crashed, grant' = grant, Held' = Held, Mapped' = Mapped
  PROVE  UNCHANGED CS!vars
BY DEF CS!vars, Mapped

LEMMA CrashStep ==
  ASSUME ~crashed, crashed' = TRUE, grant' = grant, Held' = Held, Mapped' = Mapped
  PROVE  CS!Next
BY DEF CS!Next, CS!Crash, Mapped

LEMMA MapStep ==
  ASSUME ~crashed, crashed' = crashed, grant, grant' = grant, Held' = Held,
         NEW r \in Regions, Mapped' = Mapped \cup {r}
  PROVE  CS!Next
BY DEF CS!Next, CS!Map, Mapped

LEMMA UnmapStep ==
  ASSUME ~crashed, crashed' = crashed, grant, grant' = grant, Held' = Held,
         NEW r \in Regions, Mapped' = Mapped \ {r}
  PROVE  CS!Next
BY DEF CS!Next, CS!Unmap, Mapped

LEMMA ChannelRefines ==
  ASSUME OwnInv, NEW k \in Kinds, NEW c \in Channels,
         \/ RevokeChannel(k, c)
         \/ RestoreChannel(k, c) \/ RestoreChannelFails(k, c)
  PROVE  CS!Next \/ UNCHANGED CS!vars
<1> DEFINE right == <<k, c>>
<1>0. /\ Mapped' = Mapped /\ grant' = grant
      /\ right \in Kinds \X Channels /\ right[1] = k /\ right[2] = c
  BY WholeFrame, MappedFrame DEF RevokeChannel, RestoreChannel, RestoreChannelFails, Crash
<1>1. CASE RestoreChannelFails(k, c)
  <2>1. Held' = Held
    BY <1>1, HeldFrame DEF RestoreChannelFails, Crash
  <2> QED
    BY <1>0, <1>1, <2>1, CrashStep DEF RestoreChannelFails, Granted, Crash
<1>2. ASSUME NEW cap, mk' = [mk EXCEPT ![SlotOf(k, c)] = cap]
      PROVE  /\ mk'[SlotOf(k, c)] = cap
             /\ \A d \in Kinds \X Channels :
                  d # right => mk'[SlotOf(d[1], d[2])] = mk[SlotOf(d[1], d[2])]
  <2>1. mk \in [Slots -> Caps]
    BY DEF OwnInv, TypeOK
  <2>2. ASSUME NEW d \in Kinds \X Channels, d # right
        PROVE  SlotOf(d[1], d[2]) # SlotOf(k, c) /\ SlotOf(d[1], d[2]) \in Slots
    <3>1. d[1] \in Kinds /\ d[2] \in Channels /\ d = <<d[1], d[2]>>
      OBVIOUS
    <3> QED
      BY <2>2, <3>1, SlotFacts, SlotsDiffer
  <2> QED
    BY <1>2, <2>1, <2>2, SlotFacts
<1>3. CASE RevokeChannel(k, c)
  <2>1. mk'[SlotOf(k, c)] = None
        /\ \A d \in Kinds \X Channels :
             d # right => mk'[SlotOf(d[1], d[2])] = mk[SlotOf(d[1], d[2])]
    BY <1>2, <1>3 DEF RevokeChannel
  <2>2. None # Channel(k, c)
    BY DEF None, Channel, Kinds
  <2>3. Held' = Held \ {right}
    <3> HIDE DEF right
    <3> QED
      BY <1>0, <2>1, <2>2 DEF Held
  <2>4. CASE right \in Delegated
    BY <1>0, <1>3, <2>3, <2>4 DEF RevokeChannel, Granted, CS!Next, CS!Revoke, Mapped
  <2>5. CASE right \notin Delegated
    <3>1. mk[SlotOf(k, c)] = None
      BY <2>5 DEF OwnInv, SlotsAreTheirOwn
    <3>2. right \notin Held
      BY <1>0, <2>2, <3>1 DEF Held
    <3>3. Held' = Held
      BY <2>3, <3>2
    <3> QED
      BY <1>0, <1>3, <3>3, StutterStep DEF RevokeChannel
  <2> QED
    BY <2>4, <2>5
<1>4. CASE RestoreChannel(k, c)
  <2>1. /\ Delivered(BackupOf(k, c)) # None /\ mk[SlotOf(k, c)] = None
        /\ mk' = [mk EXCEPT ![SlotOf(k, c)] = Delivered(BackupOf(k, c))]
    BY <1>4 DEF RestoreChannel, CanCopy
  <2>2. right \in Delegated /\ Delivered(BackupOf(k, c)) = Channel(k, c)
    BY <2>1, DeliveredChannel
  <2>3. mk'[SlotOf(k, c)] = Channel(k, c)
        /\ \A d \in Kinds \X Channels :
             d # right => mk'[SlotOf(d[1], d[2])] = mk[SlotOf(d[1], d[2])]
    BY <1>2, <2>1, <2>2
  <2>4. None # Channel(k, c)
    BY DEF None, Channel, Kinds
  <2>5. right \notin Held /\ Held' = Held \cup {right}
    <3> HIDE DEF right
    <3> QED
      BY <1>0, <2>1, <2>3, <2>4 DEF Held
  <2> QED
    BY <1>0, <1>4, <2>2, <2>5 DEF RestoreChannel, Granted, CS!Next, CS!Restore, Mapped
<1> QED
  BY <1>1, <1>3, <1>4

LEMMA RegionRefines ==
  ASSUME OwnInv, UsedInv, NEW r \in Regions,
         GrantIgnored(r) \/ GrantRange(r) \/ GrantRangeFails(r) \/ RevokeRange(r)
  PROVE  CS!Next \/ UNCHANGED CS!vars
<1>0. Held' = Held /\ grant' = grant /\ ~crashed
  <2>1. crashed \in BOOLEAN
    BY DEF OwnInv, TypeOK
  <2> QED
    BY <2>1, HeldFrame, RegionStep
<1>1. CASE GrantIgnored(r)
  BY <1>0, <1>1, WholeFrame, MappedFrame, StutterStep DEF GrantIgnored
<1>2. CASE GrantRange(r)
  <2>1. Whole(r)' /\ \A q \in Regions : q # r => (Whole(q)' <=> Whole(q))
    BY <1>2, RangeGranted DEF UsedInv, OwnInv
  <2>2. Mapped' = Mapped \cup {r}
    BY <2>1 DEF Mapped
  <2> QED
    BY <1>0, <1>2, <2>2, MapStep DEF GrantRange, RangeCall, Granted
<1>3. CASE GrantRangeFails(r)
  <2>1. Mapped' = Mapped
    BY <1>3, RangeRefused, MappedFrame DEF UsedInv, OwnInv
  <2> QED
    BY <1>0, <1>3, <2>1, CrashStep DEF GrantRangeFails
<1>4. CASE RevokeRange(r)
  <2>1. ~Whole(r)' /\ \A q \in Regions : q # r => (Whole(q)' <=> Whole(q))
    BY <1>4, PagesUnmapped DEF RevokeRange, UsedInv, OwnInv
  <2>2. Mapped' = Mapped \ {r}
    BY <2>1 DEF Mapped
  <2> QED
    BY <1>0, <1>4, <2>2, UnmapStep DEF RevokeRange, Granted
<1> QED
  BY <1>1, <1>2, <1>3, <1>4

LEMMA GrantRefines ==
  ASSUME OwnInv, GrantNext
  PROVE  CS!Next \/ UNCHANGED CS!vars
<1>1. Held' = Held /\ Mapped' = Mapped
  BY HeldFrame, WholeFrame, MappedFrame
  DEF GrantNext, Privilege, Deprivilege, Ungranted, Restart, Crash
<1>2. CASE Privilege
  BY <1>1, <1>2 DEF Privilege, CS!Next, CS!Privilege, Mapped
<1>3. CASE Deprivilege
  BY <1>1, <1>3 DEF Deprivilege, Granted, CS!Next, CS!Deprivilege, Mapped
<1>4. CASE Ungranted
  BY <1>1, <1>4, CrashStep DEF Ungranted, Crash
<1>5. CASE Restart
  BY <1>1, <1>5 DEF Restart, CS!Next, CS!Restart, Mapped
<1> QED
  BY <1>2, <1>3, <1>4, <1>5 DEF GrantNext

(* Every call of a capability operation is, for the channels and the whole *)
(* regions of the PD, what CapService says, whichever calls have failed    *)
(* before.                                                                 *)
THEOREM ServiceImplemented == Spec => ImplementsCapService
<1>1. Init => CS!Init
  <2> SUFFICES ASSUME Init PROVE CS!Init
    OBVIOUS
  <2>1. Held = {}
    BY SlotFacts DEF Init, Held, None, Channel, Kinds
  <2>2. Mapped = {}
    BY RegionFacts, PagesDiffer DEF Init, Mapped, Whole
  <2> QED
    BY <2>1, <2>2 DEF Init, CS!Init, Mapped
<1>2. OwnInv /\ UsedInv /\ [Next]_vars => [CS!Next]_(CS!vars)
  <2> SUFFICES ASSUME OwnInv, UsedInv, [Next]_vars
               PROVE  CS!Next \/ UNCHANGED CS!vars
    OBVIOUS
  <2>1. CASE UNCHANGED vars
    BY <2>1, HeldFrame, WholeFrame, MappedFrame, StutterStep DEF vars
  <2> QED
    BY <2>1, GrantRefines, ChannelRefines, RegionRefines
    DEF Next, ChannelNext, RegionNext
<1> QED
  BY <1>1, <1>2, UsedHolds, PTL DEF Spec, ImplementsCapService, CS!Spec
=============================================================================
