------------------------------ MODULE CapSpace ------------------------------
(***************************************************************************)
(* The capability operations of the library, slot by slot and page by      *)
(* page: what they do to the PD's Microkit CNode and to its address space. *)
(* Regions are mapped and unmapped by the system calls for ranges of       *)
(* pages, without which cap.c does not compile.  TrustedLoader has a set   *)
(* of channels and a set of regions instead; CapService says what it       *)
(* relies on.                                                              *)
(* Sources: src/cap.c, include/txlocap.h, src/xrt.c (the loops over        *)
(* mappings).                                                              *)
(***************************************************************************)
EXTENDS Integers

CONSTANTS
  MaxChannels,   \* MICROKIT_MAX_CHANNELS
  Delegated,     \* pairs <<kind, channel>> of which the delegation CNode has a cap
  Regions,       \* memory regions of the delegator record
  Addresses,     \* page numbers of the PD's address space; 0 is none of them
  Unmappable     \* those of them at which the kernel refuses to map

(* txlocap.h *)
NTFN_BASE_CAP == 10
PPC_BASE_CAP == NTFN_BASE_CAP + 64
BACKUP_NTFN_BASE_CAP == 10
BACKUP_IRQ_BASE_CAP == BACKUP_NTFN_BASE_CAP + 64
BACKUP_PPC_BASE_CAP == BACKUP_IRQ_BASE_CAP + 64
MK_CAP_SLOT == 1024
DLG_MAP_CAP_START == 138
DLG_MAP_CAP_END == MK_CAP_SLOT - 64

Kinds == {"ntfn", "ppc"}
Channels == 0 .. MaxChannels - 1
Slots == 0 .. MK_CAP_SLOT - 1
NoAddress == 0

None == [kind |-> "none", id |-> 0]
Channel(k, c) == [kind |-> k, id |-> c]
(* A page is known by the slot in which its capability was delivered. *)
Page(s) == [kind |-> "page", id |-> s]
Caps == [kind : Kinds, id : Channels] \cup {None}

(* What the loader reads of a dlg_resource_t of kind memory region. *)
Region == [slot : Slots, cap_count : Nat \ {0}, arg0 : Nat]
PageSlots(r) == r.slot .. r.slot + r.cap_count - 1
AddressOf(r, s) == r.arg0 + (s - r.slot)

(* More than 64 channels would reach into the next range of slots. *)
ASSUME ChannelsAssumption == MaxChannels \in 0 .. 64
ASSUME DelegatedAssumption == Delegated \subseteq Kinds \X Channels
ASSUME AddressesAssumption ==
  /\ Addresses \subseteq Nat \ {NoAddress}
  /\ Unmappable \subseteq Addresses
(* The regions are different ones, above the slots of channels. *)
ASSUME RegionsAssumption ==
  /\ Regions \subseteq Region
  /\ \A r \in Regions :
       /\ r.slot >= DLG_MAP_CAP_START
       /\ PageSlots(r) \subseteq Slots
       /\ \A s \in PageSlots(r) : AddressOf(r, s) \in Addresses
  /\ \A q, r \in Regions : q # r =>
       /\ PageSlots(q) \cap PageSlots(r) = {}
       /\ \A s \in PageSlots(q), t \in PageSlots(r) :
            AddressOf(q, s) # AddressOf(r, t)
-----------------------------------------------------------------------------
VARIABLES
  crashed,    \* has a library call ended in microkit_internal_crash?
  grant,      \* is the delegation CNode in DELEGATION_GRANT_ROOT_SLOT?
  mk,         \* Microkit CNode: the capability in each slot
  mapped_at,  \* the address a page's capability says the page is mapped at
  pt,         \* the PD's page table: the page at each address
  used        \* regions whose mapping_state is XRT_STATE_USED

space == <<mapped_at, pt>>
vars == <<crashed, grant, mk, space, used>>

AllPages == UNION {PageSlots(r) : r \in Regions}

(* The capability in a slot of the delegation CNode.  Nothing takes one    *)
(* out: channels are copied, pages mapped where they are.                  *)
Delivered(s) ==
  IF s \in AllPages THEN Page(s)
  ELSE IF <<"ntfn", s - BACKUP_NTFN_BASE_CAP>> \in Delegated
       THEN Channel("ntfn", s - BACKUP_NTFN_BASE_CAP)
  ELSE IF <<"ppc", s - PPC_BASE_CAP>> \in Delegated
       THEN Channel("ppc", s - PPC_BASE_CAP)
  ELSE None

Init ==
  /\ crashed = FALSE /\ grant = FALSE
  /\ mk = [s \in Slots |-> None]
  /\ mapped_at = [s \in AllPages |-> NoAddress]
  /\ pt = [a \in Addresses |-> None]
  /\ used = {}

(* microkit_internal_crash *)
Crash ==
  /\ crashed' = TRUE
  /\ UNCHANGED <<grant, mk, space, used>>

(* External: the monitor restarts a crashed PD, which loads from the start. *)
Restart ==
  /\ crashed
  /\ crashed' = FALSE
  /\ UNCHANGED <<grant, mk, space, used>>
-----------------------------------------------------------------------------
(* The grant.                                                              *)

(* trustedlo_cap_util_pd_privilege, called by the monitor: the slot is     *)
(* cleared (an empty one is no error), then copied to.                     *)
Privilege ==
  /\ grant' = TRUE
  /\ UNCHANGED <<crashed, mk, space, used>>

(* A call of the loader that goes through the grant. *)
Granted == ~crashed /\ grant

(* trustedlo_cap_util_pd_deprivilege: the slot is reached through itself. *)
Deprivilege ==
  /\ Granted
  /\ grant' = FALSE
  /\ UNCHANGED <<crashed, mk, space, used>>

(* Every other operation goes through the grant, too. *)
Ungranted == ~crashed /\ ~grant /\ Crash
-----------------------------------------------------------------------------
(* Channels.  The operations on IRQs do nothing.                           *)

(* Mutant of BackupOf: the range that the header names for PPCs. *)
BackupOfAsNamed(k, c) ==
  IF k = "ntfn" THEN BACKUP_NTFN_BASE_CAP + c ELSE BACKUP_PPC_BASE_CAP + c

(* Where a channel's capability is copied from, and where it is used. *)
BackupOf(k, c) ==
  IF k = "ntfn" THEN BACKUP_NTFN_BASE_CAP + c ELSE PPC_BASE_CAP + c
SlotOf(k, c) == IF k = "ntfn" THEN NTFN_BASE_CAP + c ELSE PPC_BASE_CAP + c

(* seL4_CNode_Delete of an empty slot succeeds. *)
RevokeChannel(k, c) ==
  /\ Granted
  /\ mk' = [mk EXCEPT ![SlotOf(k, c)] = None]
  /\ UNCHANGED <<crashed, grant, space, used>>

CanCopy(k, c) == Delivered(BackupOf(k, c)) # None /\ mk[SlotOf(k, c)] = None

RestoreChannel(k, c) ==
  /\ Granted
  /\ CanCopy(k, c)
  /\ mk' = [mk EXCEPT ![SlotOf(k, c)] = Delivered(BackupOf(k, c))]
  /\ UNCHANGED <<crashed, grant, space, used>>

RestoreChannelFails(k, c) ==
  /\ Granted
  /\ ~CanCopy(k, c)
  /\ Crash
-----------------------------------------------------------------------------
(* Regions: what restore_mappings does of an entry that is ALLOWED, and    *)
(* revoke_mappings of one that is USED.                                    *)

InRange(slot) == DLG_MAP_CAP_START <= slot /\ slot < DLG_MAP_CAP_END

(* A page slot out of range is not mapped, and counts as used all the same. *)
GrantIgnored(r) ==
  /\ ~crashed
  /\ ~InRange(r.slot)
  /\ used' = used \cup {r}
  /\ UNCHANGED <<crashed, grant, mk, space>>

(* External: the kernel maps page s where it is mapped already or if it is *)
(* mapped nowhere; it may refuse or replace another page that is there.    *)
CanMap(s, a) == mapped_at[s] \in {NoAddress, a} /\ a \notin Unmappable
Occupied(s, a) == pt[a] \notin {None, Page(s)}

(* The first n pages of r get mapped at successive addresses. *)
MapFirst(r, n) ==
  LET first == {s \in PageSlots(r) : s < r.slot + n} IN
  /\ mapped_at' = [s \in AllPages |->
                     IF s \in first THEN AddressOf(r, s) ELSE mapped_at[s]]
  /\ pt' = [a \in Addresses |->
              IF \E s \in first : a = AddressOf(r, s)
              THEN Page(CHOOSE s \in first : a = AddressOf(r, s)) ELSE pt[a]]

(* Mutant of RangeCall: the delegation CNode is reached without the grant. *)
RangeCallUngranted(r) == ~crashed /\ InRange(r.slot)

(* A page range that trustedlo_cap_util_pd_grant_page_access passes on. *)
RangeCall(r) == Granted /\ InRange(r.slot)

(* Mutants of GrantRange: one page less is mapped; the address of the      *)
(* first page is used for all.                                             *)
GrantRangeOneShort(r) ==
  /\ RangeCall(r)
  /\ \A s \in PageSlots(r) : CanMap(s, AddressOf(r, s))
  /\ MapFirst(r, r.cap_count - 1)
  /\ used' = used \cup {r}
  /\ UNCHANGED <<crashed, grant, mk>>
GrantRangeAtOneAddress(r) ==
  /\ RangeCall(r)
  /\ \A s \in PageSlots(r) : CanMap(s, r.arg0)
  /\ mapped_at' = [s \in AllPages |->
                     IF s \in PageSlots(r) THEN r.arg0 ELSE mapped_at[s]]
  /\ pt' = [pt EXCEPT ![r.arg0] = Page(r.slot + r.cap_count - 1)]
  /\ used' = used \cup {r}
  /\ UNCHANGED <<crashed, grant, mk>>

GrantRange(r) ==
  /\ RangeCall(r)
  /\ \A s \in PageSlots(r) : CanMap(s, AddressOf(r, s))
  /\ MapFirst(r, r.cap_count)
  /\ used' = used \cup {r}
  /\ UNCHANGED <<crashed, grant, mk>>

(* The kernel refuses the page after the first n ones, which stay mapped. *)
MapStopsAt(r, n) ==
  LET s == r.slot + n IN
  /\ ~CanMap(s, AddressOf(r, s)) \/ Occupied(s, AddressOf(r, s))
  /\ \A t \in PageSlots(r) : t < s => CanMap(t, AddressOf(r, t))
  /\ MapFirst(r, n)

GrantRangeFails(r) ==
  /\ RangeCall(r)
  /\ \E n \in 0 .. r.cap_count - 1 : MapStopsAt(r, n)
  /\ crashed' = TRUE
  /\ UNCHANGED <<grant, mk, used>>

Unmapped(S) ==
  /\ mapped_at' = [s \in AllPages |-> IF s \in S THEN NoAddress ELSE mapped_at[s]]
  /\ pt' = [a \in Addresses |->
              IF \E s \in S : pt[a] = Page(s) /\ mapped_at[s] = a
              THEN None ELSE pt[a]]

(* Here the slot is not checked: pages that were not mapped stay so. *)
RevokeRange(r) ==
  /\ Granted /\ r \in used
  /\ Unmapped(PageSlots(r))
  /\ used' = used \ {r}
  /\ UNCHANGED <<crashed, grant, mk>>
-----------------------------------------------------------------------------
GrantNext == Privilege \/ Deprivilege \/ Ungranted \/ Restart

ChannelNext ==
  \E k \in Kinds, c \in Channels :
    \/ RevokeChannel(k, c)
    \/ RestoreChannel(k, c) \/ RestoreChannelFails(k, c)

RegionNext ==
  \E r \in Regions :
    GrantIgnored(r) \/ GrantRange(r) \/ GrantRangeFails(r) \/ RevokeRange(r)

Next == GrantNext \/ ChannelNext \/ RegionNext

Spec == Init /\ [][Next]_vars
-----------------------------------------------------------------------------
(* Properties.                                                             *)

(* Every variable has its type; no page's capability ever comes into the   *)
(* Microkit CNode.                                                         *)
TypeOK ==
  /\ crashed \in BOOLEAN /\ grant \in BOOLEAN
  /\ mk \in [Slots -> Caps]
  /\ mapped_at \in [AllPages -> Addresses \cup {NoAddress}]
  /\ pt \in [Addresses -> {Page(s) : s \in AllPages} \cup {None}]
  /\ used \subseteq Regions

(* The layouts of the two CNodes agree: whatever is in the slot of a       *)
(* channel is that channel's own capability, never another channel's and   *)
(* never a page, in whatever order channels are copied and deleted.        *)
SlotsAreTheirOwn ==
  \A k \in Kinds, c \in Channels :
    mk[SlotOf(k, c)] \in
      {None} \cup (IF <<k, c>> \in Delegated THEN {Channel(k, c)} ELSE {})

(* Every page of a region in use is at its own address.  This says nothing *)
(* of a region whose first slot is out of range: it is in use without      *)
(* being mapped.                                                           *)
Whole(r) == \A s \in PageSlots(r) : pt[AddressOf(r, s)] = Page(s)
UsedRegionsAreWhole == \A r \in used : InRange(r.slot) => Whole(r)

(* A call that is refused half way leaves pages mapped in a region that    *)
(* does not count as used, and no revocation removes them.  But they are   *)
(* where they belong: no later call, for this region or for another one,   *)
(* is refused because of what earlier calls have left in the page table.   *)
CallsCanBeRepeated ==
  \A r \in Regions : \A s \in PageSlots(r) :
    LET a == AddressOf(r, s) IN
    a \notin Unmappable => CanMap(s, a) /\ ~Occupied(s, a)

(* A step changes one right at most, with the grant only. *)
Held == {d \in Kinds \X Channels : mk[SlotOf(d[1], d[2])] = Channel(d[1], d[2])}
CS == INSTANCE CapService WITH
        Rights <- Delegated, Areas <- Regions,
        up     <- ~crashed,
        held   <- Held,
        mapped <- {r \in Regions : Whole(r)}
ImplementsCapService == CS!Spec
=============================================================================
