--------------------------- MODULE TrustedLoader ---------------------------
(***************************************************************************)
(* One template protection domain (PD) and its monitor.  The monitor       *)
(* writes a request of access rights, installs the delegation CNode and    *)
(* starts the loader in the PD.  The loader turns the request into         *)
(* capabilities and mappings of the PD, drops the delegation CNode, loads  *)
(* the container's program and jumps to the trampoline, which reports to   *)
(* the monitor, wipes the loader's pages and jumps to the container.  Any  *)
(* check on the way may fail; the monitor may then start the loader again. *)
(* Sources: src/trustedlo_cfuncs.c, src/trustedlo_mfuncs.c, src/xrt.c,     *)
(* src/cap.c, trampoline/trampoline.c.                                     *)
(***************************************************************************)
EXTENDS InfoPage

CONSTANTS
  Requests,        \* trustedlo_xrtreq_t's the monitor may ask for
  MaxXrt,          \* MAX_XRT_NUM
  PageEntries,     \* entries that fit in the request page
  Slack,           \* by how much header.total_num may exceed what was encoded
  IntBits,         \* width of an int: mktxlo_fill_client_args shifts ints
  KeepsPage,       \* after an attempt that never reported, the monitor leaves
                   \* the context page alone (else it writes its saved copy)
  PrivilegesFirst  \* the monitor installs the grant before it starts the PD

ASSUME BoundsAssumption ==
  /\ MaxXrt \in Nat
  /\ PageEntries \in Nat
  /\ MaxXrt <= PageEntries
  /\ Slack \subseteq Nat
  /\ IntBits \in Nat \ {0}
ASSUME FlagsAssumption == KeepsPage \in BOOLEAN /\ PrivilegesFirst \in BOOLEAN
ASSUME RequestsAssumption ==
  \A req \in Requests : Encode(req) \in Seq(Entry)

VARIABLES
  pc,            \* where the PD's single thread is
  kind, at,      \* array and index of the loop it is in
  defect,        \* the check that this attempt's images or monitor will fail
  switch_count, allowed, mappings,   \* trustedlo_ctxt_t in the context page
  saved, wiped,  \* the monitor's copy of it; has the page been zeroed since?
  request,       \* the entries the monitor last encoded
  header, xrt_list, metadata,        \* request page, delegator record page
  held,          \* channels whose slot in the Microkit CNode holds a cap
  mapped,        \* resources mapped in the PD's address space
  grant,         \* is the delegation CNode in DELEGATION_GRANT_ROOT_SLOT?
  client_args    \* channels set in the bitmaps of the container's arguments

ctxtVars == <<switch_count, allowed, mappings>>
pageVars == <<header, xrt_list, metadata>>
capVars == <<held, mapped, grant>>
monitorVars == <<saved, wiped, request, defect>>
allButPc ==
  <<kind, at, ctxtVars, pageVars, capVars, monitorVars, client_args>>
vars == <<pc, allButPc>>

Context == [switch_count |-> switch_count, allowed |-> allowed,
            mappings |-> mappings]

Slots == 0 .. PageEntries - 1
HeaderSize == 16
Defects == {"none", "magic", "payload", "refused"}
Halted == {"returned", "crashed"}
Loading == {"check", "activate", "parse", "populate", "revoke", "restore",
            "restore_mappings", "deprivilege", "load", "backup", "wipe"}
ZeroAllowed == [k \in ChannelKinds |-> [c \in Channels |-> "UNSET"]]
ZeroMappings == [count |-> 0, data |-> [i \in Channels |-> 0],
                 state |-> [i \in Channels |-> "UNSET"]]
NoClientArgs == [k \in ChannelKinds |-> {}]
ZeroHeader == [total_num |-> 0, offset |-> 0]

Init ==
  /\ pc = "stopped" /\ kind = "ntfn" /\ at = 0 /\ defect = "none"
  /\ switch_count = 0 /\ allowed = ZeroAllowed /\ mappings = ZeroMappings
  /\ saved = Context /\ wiped = FALSE
  /\ request = <<>> /\ header = ZeroHeader /\ metadata = <<>>
  /\ xrt_list = [i \in Slots |-> ZeroEntry]
  /\ held = [k \in CapKinds |-> {}] /\ mapped = {} /\ grant = FALSE
  /\ client_args = NoClientArgs

(* The thread goes from one point of the program to another. *)
Goto(from, to) == pc = from /\ pc' = to
-----------------------------------------------------------------------------
(* The monitor.                                                            *)

(* mktxlo_prepare_xrt_req_list(req), and the header, which the library     *)
(* leaves to the monitor.  Entries past the encoded ones stay as they are. *)
PrepareXrtReqList(req, slack) ==
  LET entries == Encode(req) IN
  /\ pc = "stopped"
  /\ Len(entries) <= PageEntries
  /\ request' = entries
  /\ header' = [total_num |-> Len(entries) + slack, offset |-> HeaderSize]
  /\ xrt_list' = [i \in Slots |-> IF i < Len(entries) THEN entries[i + 1]
                                                      ELSE xrt_list[i]]
  /\ UNCHANGED <<pc, kind, at, ctxtVars, metadata, capVars, saved, wiped,
                 defect, client_args>>

(* mktxlo_privilege_template_pd: what an earlier attempt may have left in  *)
(* the grant slot is deleted, then the delegation CNode is copied there.   *)
PrivilegeTemplatePd ==
  /\ pc = "stopped"
  /\ grant' = TRUE
  /\ UNCHANGED <<pc, kind, at, ctxtVars, pageVars, held, mapped, monitorVars,
                 client_args>>

(* External: the monitor reinstalls the loader, its metadata and the       *)
(* context, and starts the PD; d is what will be wrong with this attempt.  *)
StartLoader(d) ==
  LET context == IF wiped \/ ~KeepsPage THEN saved ELSE Context IN
  /\ Goto("stopped", "check")
  /\ PrivilegesFirst => grant
  /\ defect' = d
  /\ switch_count' = context.switch_count
  /\ allowed' = context.allowed
  /\ mappings' = context.mappings
  /\ wiped' = FALSE
  /\ metadata' = Resources
  /\ UNCHANGED <<kind, at, header, xrt_list, capVars, saved, request,
                 client_args>>

(* External: the monitor stops a running container or a faulted PD, whose  *)
(* thread and arguments are then gone.                                     *)
StopPd ==
  /\ pc \in {"container"} \cup Halted
  /\ pc' = "stopped" /\ kind' = "ntfn" /\ at' = 0 /\ defect' = "none"
  /\ client_args' = NoClientArgs
  /\ UNCHANGED <<ctxtVars, pageVars, capVars, saved, wiped, request>>
-----------------------------------------------------------------------------
(* The loader: mktxlo_self_load_entry.                                     *)

(* Magic numbers of the container image, its symbol table, its ELF and the *)
(* trampoline's ELF.                                                       *)
CheckImages ==
  /\ Goto("check", IF defect = "magic" THEN "returned" ELSE "activate")
  /\ UNCHANGED allButPc

(* Mutant of ContextActivate: the states are cleared with the counter. *)
ContextActivateForgets ==
  /\ Goto("activate", "parse")
  /\ mappings' = ZeroMappings
  /\ UNCHANGED <<kind, at, switch_count, allowed, pageVars, capVars,
                 monitorVars, client_args>>

(* mktxlo_context_activate *)
ContextActivate ==
  /\ Goto("activate", "parse")
  /\ mappings' = [mappings EXCEPT !.count = 0]
  /\ UNCHANGED <<kind, at, switch_count, allowed, pageVars, capVars,
                 monitorVars, client_args>>

(* trustedlo_xrt_util_parse_xrt_header *)
ParseHeader ==
  /\ Goto("parse", IF \/ header.total_num > MaxXrt
                      \/ header.offset < HeaderSize
                   THEN "returned" ELSE "populate")
  /\ at' = 0
  /\ UNCHANGED <<kind, ctxtVars, pageVars, capVars, monitorVars, client_args>>

(* Mutant of Acceptable: the bound on the mapping counter is off by one. *)
AcceptableOneTooMany(e) ==
  /\ Delegated(metadata, e.type, e.data)
  /\ IF e.type = "memory" THEN mappings.count <= MaxChannels
                          ELSE e.data \in Channels

(* The assertions of trustedlo_acrt_workerfunc on an entry it knows. *)
Acceptable(e) ==
  /\ Delegated(metadata, e.type, e.data)
  /\ IF e.type = "memory" THEN mappings.count < MaxChannels
                          ELSE e.data \in Channels

InPopulate(type) ==
  /\ pc = "populate"
  /\ at < header.total_num
  /\ xrt_list[at].type = type

PopulateChannel(k) ==
  LET c == xrt_list[at].data IN
  /\ InPopulate(k)
  /\ Acceptable(xrt_list[at])
  /\ allowed' = [allowed EXCEPT ![k][c] = Allow(@)]
  /\ at' = at + 1
  /\ UNCHANGED <<pc, kind, switch_count, mappings, pageVars, capVars,
                 monitorVars, client_args>>

(* The state is that of the same index in the previous round. *)
PopulateMapping ==
  LET i == mappings.count IN
  /\ InPopulate("memory")
  /\ Acceptable(xrt_list[at])
  /\ mappings' =
       [count |-> i + 1,
        data  |-> [mappings.data EXCEPT
                     ![i] = FindResource(metadata, "memory", xrt_list[at].data)],
        state |-> [mappings.state EXCEPT ![i] = Allow(@)]]
  /\ at' = at + 1
  /\ UNCHANGED <<pc, kind, switch_count, allowed, pageVars, capVars,
                 monitorVars, client_args>>

(* TSLDR_ASSERT: microkit_internal_crash. *)
PopulateAssertFails(k) ==
  /\ InPopulate(k)
  /\ ~Acceptable(xrt_list[at])
  /\ pc' = "crashed"
  /\ UNCHANGED allButPc

PopulateRejects ==
  /\ InPopulate("none")
  /\ pc' = "returned"
  /\ UNCHANGED allButPc

PopulateDone ==
  /\ Goto("populate", "revoke")
  /\ at >= header.total_num
  /\ UNCHANGED allButPc
-----------------------------------------------------------------------------
(* mktxlo_revoke_caps.  Deleting and unmapping fail only without the       *)
(* grant, so the four loops are one step.                                  *)

(* Mutant of Revocable: rights to be kept are revoked with the others. *)
RevocableKeptToo(k) ==
  {c \in Channels : allowed[k][c] \in {"USED", "KEEP"} /\ Delegated(metadata, k, c)}

Revocable(k) ==
  {c \in Channels : allowed[k][c] = "USED" /\ Delegated(metadata, k, c)}

(* Mutant of Revoked: only the states change. *)
RevokedNothing(k) == held[k]

(* What the PD holds once revoke_fn was called for each of them. *)
Revoked(k) == held[k] \ Revocable(k)

RevocableMappings ==
  {i \in Channels : i < mappings.count /\ mappings.state[i] = "USED"}

NothingToRevoke ==
  (\A k \in CapKinds : Revocable(k) = {}) /\ RevocableMappings = {}

BeginRestore ==
  /\ Goto("revoke", "restore")
  /\ kind' = "ntfn"
  /\ at' = 0

RevokeFirstTime ==
  /\ BeginRestore
  /\ switch_count = 0
  /\ switch_count' = 1
  /\ UNCHANGED <<allowed, mappings, pageVars, capVars, monitorVars,
                 client_args>>

RevokeCaps ==
  /\ BeginRestore
  /\ switch_count # 0
  /\ grant \/ NothingToRevoke
  /\ allowed' = [k \in ChannelKinds |-> [c \in Channels |->
                   IF k \in CapKinds /\ c \in Revocable(k)
                   THEN "UNSET" ELSE allowed[k][c]]]
  /\ held' = [k \in CapKinds |-> Revoked(k)]
  /\ mappings' = [mappings EXCEPT !.state = [i \in Channels |->
                    IF i \in RevocableMappings THEN "UNSET" ELSE @[i]]]
  /\ mapped' = mapped \ {mappings.data[i] : i \in RevocableMappings}
  /\ UNCHANGED <<switch_count, grant, pageVars, monitorVars, client_args>>

RevokeFails ==
  /\ Goto("revoke", "crashed")
  /\ switch_count # 0
  /\ ~(grant \/ NothingToRevoke)
  /\ UNCHANGED allButPc
-----------------------------------------------------------------------------
(* mktxlo_restore_caps: one step per element of each array.                *)

InRestore == pc = "restore" /\ at < MaxChannels

(* Mutant of RestoreKept: the state is not set back. *)
RestoreKeptStaysKeep ==
  /\ InRestore
  /\ allowed[kind][at] = "KEEP"
  /\ at' = at + 1
  /\ UNCHANGED <<pc, kind, ctxtVars, pageVars, capVars, monitorVars,
                 client_args>>

(* KEEP: the capability is still there. *)
RestoreKept ==
  /\ InRestore
  /\ allowed[kind][at] = "KEEP"
  /\ allowed' = [allowed EXCEPT ![kind][at] = "USED"]
  /\ at' = at + 1
  /\ UNCHANGED <<pc, kind, switch_count, mappings, pageVars, capVars,
                 monitorVars, client_args>>

(* Nothing to restore, or not delegated (any more). *)
RestoreSkips ==
  /\ InRestore
  /\ \/ allowed[kind][at] = "UNSET"
     \/ allowed[kind][at] # "KEEP" /\ ~Delegated(metadata, kind, at)
  /\ at' = at + 1
  /\ UNCHANGED <<pc, kind, ctxtVars, pageVars, capVars, monitorVars,
                 client_args>>

(* Any other state of a delegated channel is copied from the delegation    *)
(* CNode; seL4_CNode_Copy refuses an occupied destination.                 *)
ToCopy ==
  /\ InRestore
  /\ allowed[kind][at] \in {"ALLOWED", "USED"}
  /\ Delegated(metadata, kind, at)

RestoreCopies ==
  /\ ToCopy
  /\ grant
  /\ at \notin held[kind]
  /\ held' = [held EXCEPT ![kind] = @ \cup {at}]
  /\ allowed' = [allowed EXCEPT ![kind][at] = "USED"]
  /\ at' = at + 1
  /\ UNCHANGED <<pc, kind, switch_count, mappings, pageVars, mapped, grant,
                 monitorVars, client_args>>

(* Mutant of RestoreCopyFails: the copy is tried again until it succeeds. *)
RestoreCopyRetries ==
  /\ ToCopy
  /\ ~grant \/ at \in held[kind]
  /\ UNCHANGED vars

RestoreCopyFails ==
  /\ ToCopy
  /\ ~grant \/ at \in held[kind]
  /\ pc' = "crashed"
  /\ UNCHANGED allButPc

(* The order of mktxlo_restore_caps. *)
NextKind(k) == IF k = "ntfn" THEN "ppc" ELSE "irq"

RestoreNextKind ==
  /\ pc = "restore"
  /\ at >= MaxChannels
  /\ at' = 0
  /\ pc' = IF kind = "irq" THEN "restore_mappings" ELSE "restore"
  /\ kind' = NextKind(kind)
  /\ UNCHANGED <<ctxtVars, pageVars, capVars, monitorVars, client_args>>

InRestoreMappings == pc = "restore_mappings" /\ at < mappings.count

RestoreMappingKept ==
  /\ InRestoreMappings
  /\ mappings.state[at] = "KEEP"
  /\ mappings' = [mappings EXCEPT !.state[at] = "USED"]
  /\ at' = at + 1
  /\ UNCHANGED <<pc, kind, switch_count, allowed, pageVars, capVars,
                 monitorVars, client_args>>

(* A page slot out of range is skipped, and counts as used all the same. *)
RestoreMappingMaps ==
  LET m == mappings.data[at] IN
  /\ InRestoreMappings
  /\ mappings.state[at] \in {"ALLOWED", "USED"}
  /\ grant \/ metadata[m].slot \notin MapSlots
  /\ mapped' = IF metadata[m].slot \in MapSlots THEN mapped \cup {m} ELSE mapped
  /\ mappings' = [mappings EXCEPT !.state[at] = "USED"]
  /\ at' = at + 1
  /\ UNCHANGED <<pc, kind, switch_count, allowed, pageVars, held, grant,
                 monitorVars, client_args>>

RestoreMappingFails ==
  /\ InRestoreMappings
  /\ mappings.state[at] \in {"ALLOWED", "USED"}
  /\ ~grant
  /\ metadata[mappings.data[at]].slot \in MapSlots
  /\ pc' = "crashed"
  /\ UNCHANGED allButPc

(* Mutant of RestoreDone: the last mapping is left out. *)
RestoreDoneTooSoon ==
  /\ Goto("restore_mappings", "deprivilege")
  /\ at + 1 >= mappings.count
  /\ UNCHANGED allButPc

RestoreDone ==
  /\ Goto("restore_mappings", "deprivilege")
  /\ at >= mappings.count
  /\ UNCHANGED allButPc
-----------------------------------------------------------------------------
(* Mutant of Deprivilege: the grant is not deleted. *)
DeprivilegeKeepsGrant ==
  /\ Goto("deprivilege", IF grant THEN "load" ELSE "crashed")
  /\ UNCHANGED allButPc

(* trustedlo_cap_util_pd_deprivilege: the root CNode is reached through    *)
(* the grant that the call deletes.                                        *)
Deprivilege ==
  /\ Goto("deprivilege", IF grant THEN "load" ELSE "crashed")
  /\ grant' = FALSE
  /\ UNCHANGED <<kind, at, ctxtVars, pageVars, held, mapped, monitorVars,
                 client_args>>

(* The bits that "1 << c" of an int sets in a 64-bit bitmap: the top bit   *)
(* is extended, and a shift by too much is undefined: either the processor *)
(* takes it modulo the width or the compiler drops it.                     *)
ShiftOutcomes(c) ==
  LET Shifted(b) == IF b = IntBits - 1 THEN b .. MaxChannels - 1 ELSE {b}
  IN  IF c < IntBits THEN {Shifted(c)} ELSE {Shifted(c % IntBits), {}}

(* Only for these kinds mktxlo_fill_client_args looks at the states. *)
OptionalKinds == {"ntfn", "ppc"}
InUse(k, c) == k \in OptionalKinds /\ allowed[k][c] = "USED"

(* mktxlo_client_image_load, the trampoline's payload, and the bitmaps in  *)
(* mktxlo_fill_client_args; then to the trampoline.                        *)
LoadPayloads ==
  /\ defect # "payload"
  /\ Goto("load", "backup")
  /\ \E bits \in [Channels -> SUBSET Channels] :
       /\ \A c \in Channels : bits[c] \in ShiftOutcomes(c)
       /\ client_args' =
            [k \in ChannelKinds |->
               ToldAlways(metadata, k) \cup
                 UNION {bits[c] : c \in {d \in Channels : InUse(k, d)}}]
  /\ UNCHANGED <<kind, at, ctxtVars, pageVars, capVars, monitorVars>>

LoadPayloadsFails ==
  /\ defect = "payload"
  /\ Goto("load", "returned")
  /\ UNCHANGED allButPc

(* trampoline_backup_trustedlo_context: a call that the monitor answers    *)
(* after it has copied the context page, or refuses.                       *)
TrampolineBackup ==
  /\ defect # "refused"
  /\ Goto("backup", "wipe")
  /\ saved' = Context
  /\ UNCHANGED <<kind, at, ctxtVars, pageVars, capVars, wiped, request, defect,
                 client_args>>

TrampolineAborts ==
  /\ defect = "refused"
  /\ Goto("backup", "crashed")
  /\ UNCHANGED allButPc

(* trampoline_entry: the metadata, request and context regions (and the    *)
(* loader's program and stacks, which hold no state of this model) are     *)
(* zeroed, then the container is entered.                                  *)
TrampolineWipe ==
  /\ Goto("wipe", "container")
  /\ wiped' = TRUE
  /\ metadata' = <<>>
  /\ header' = ZeroHeader
  /\ xrt_list' = [i \in Slots |-> ZeroEntry]
  /\ switch_count' = 0
  /\ allowed' = ZeroAllowed
  /\ mappings' = ZeroMappings
  /\ UNCHANGED <<kind, at, capVars, saved, request, defect, client_args>>
-----------------------------------------------------------------------------
MonitorNext ==
  \/ \E req \in Requests, slack \in Slack : PrepareXrtReqList(req, slack)
  \/ PrivilegeTemplatePd
  \/ \E d \in Defects : StartLoader(d)
  \/ StopPd

Populate ==
  \/ \E k \in ChannelKinds : PopulateChannel(k)
  \/ PopulateMapping
  \/ \E k \in XrtKinds : PopulateAssertFails(k)
  \/ PopulateRejects
  \/ PopulateDone

EnforcePola ==
  \/ RevokeFirstTime \/ RevokeCaps \/ RevokeFails
  \/ RestoreKept \/ RestoreSkips \/ RestoreCopies \/ RestoreCopyFails
  \/ RestoreNextKind
  \/ RestoreMappingKept \/ RestoreMappingMaps \/ RestoreMappingFails
  \/ RestoreDone

LoaderNext ==
  \/ CheckImages \/ ContextActivate \/ ParseHeader
  \/ Populate \/ EnforcePola
  \/ Deprivilege \/ LoadPayloads \/ LoadPayloadsFails
  \/ TrampolineWipe

(* The end of the call in which the PD waits for the monitor. *)
MonitorAnswers == TrampolineBackup \/ TrampolineAborts

Next == MonitorNext \/ LoaderNext \/ MonitorAnswers

(* The kernel schedules a runnable PD.  Nothing obliges the monitor to     *)
(* act, nor to answer a PD that waits for it.                              *)
Spec == Init /\ [][Next]_vars
FairSpec == Spec /\ WF_vars(LoaderNext)
-----------------------------------------------------------------------------
(* Properties.                                                             *)

ChannelStates == [ChannelKinds -> [Channels -> XrtState]]
(* Each counted mapping has its resource. *)
Mappings ==
  {m \in [count : 0 .. MaxChannels,
          data  : [Channels -> 0 .. Len(Resources)],
          state : [Channels -> XrtState]] :
     \A i \in Channels : i < m.count => m.data[i] # 0}
Contexts == [switch_count : {0, 1}, allowed : ChannelStates,
             mappings : Mappings]

(* Every variable has its type; the mapping counter never passes the       *)
(* length of the arrays it indexes.                                        *)
TypeOK ==
  /\ pc \in {"stopped", "container"} \cup Loading \cup Halted
  /\ kind \in CapKinds /\ at \in Nat /\ defect \in Defects
  /\ switch_count \in {0, 1} /\ allowed \in ChannelStates
  /\ mappings \in Mappings
  /\ saved \in Contexts /\ wiped \in BOOLEAN
  /\ request \in Seq(Entry)
  /\ header \in [total_num : Nat, offset : Nat]
  /\ xrt_list \in [Slots -> Entry]
  /\ metadata \in {<<>>, Resources}
  /\ held \in [CapKinds -> SUBSET Channels]
  /\ mapped \subseteq 1 .. Len(Resources)
  /\ grant \in BOOLEAN
  /\ client_args \in [ChannelKinds -> SUBSET Channels]

(* The request page as the loader reads it, and the request as encoded. *)
Listed(k) ==
  {xrt_list[i].data : i \in {j \in Slots : /\ j < header.total_num
                                           /\ xrt_list[j].type = k}}
Requested(k) ==
  {request[i].data : i \in {j \in DOMAIN request : request[j].type = k}}
RequestedRegions ==
  {FindResource(Resources, "memory", v) : v \in Requested("memory")}

(* The states the next attempt starts from: those of the page or, once the *)
(* trampoline has zeroed it, those the monitor saved.                      *)
States == IF wiped THEN saved.allowed ELSE allowed

(* The context never loses track of the PD's capabilities, whichever check *)
(* stops an attempt half way: a right in use (USED, KEEP) is held, an      *)
(* UNSET one is not.  The next revocation works from these states alone.   *)
ContextTracksCaps ==
  \A k \in CapKinds, c \in Channels :
    /\ States[k][c] \in {"USED", "KEEP"} => c \in held[k]
    /\ States[k][c] = "UNSET" => c \notin held[k]

(* A container is told of all channels it holds, and of no others but      *)
(* those that the bytes of its delegator record happen to set (none if     *)
(* there is a single resource).  So it is as long as no channel number     *)
(* reaches the top bit of the int that is shifted.                         *)
ClientToldOfHeld ==
  pc = "container" =>
    \A k \in OptionalKinds :
      held[k] \subseteq 0 .. IntBits - 2 =>
        client_args[k] = held[k] \cup ToldAlways(Resources, k)

(* A right the PD holds and the new request lists again is never taken     *)
(* away, not even for the time between revocation and restoration.         *)
KeptAcrossReload ==
  [][\A k \in CapKinds, c \in Channels :
       c \in held[k] /\ c \notin held'[k] => c \notin Listed(k)]_vars

(* From the first byte of the container's image that is loaded to the end  *)
(* of the container, the PD cannot reach the delegation CNode.             *)
Deprivileged == pc \in {"load", "backup", "wipe", "container"} => ~grant

(* Whatever entries and header the monitor writes in the request page, and *)
(* also from an outdated context (the copy of an earlier attempt), the PD  *)
(* never gets a right that its delegator record does not list.             *)
OnlyDelegated ==
  /\ \A k \in CapKinds : \A c \in held[k] :
       \E i \in DOMAIN Resources : Resources[i].kind = k /\ Resources[i].arg0 = c
  /\ \A m \in mapped : Resources[m].kind = "memory"

(* What the monitor keeps to, for the properties from here on: its         *)
(* requests have no entry that is refused and list no channel twice, the   *)
(* header counts their entries, and no load starts without the grant or    *)
(* from an outdated context.                                               *)
WellFormed(req) ==
  /\ req \in [XrtKinds -> Seq(Nat)]
  /\ \A k \in XrtKinds : \A i \in DOMAIN req[k] : Delegated(Resources, k, req[k][i])
  /\ \A k \in ChannelKinds : \A i \in DOMAIN req[k] : req[k][i] \in Channels
  /\ \A k \in CapKinds : \A i, j \in DOMAIN req[k] :
       req[k][i] = req[k][j] => i = j
  /\ Len(req.memory) <= MaxChannels
DiligentMonitor ==
  /\ KeepsPage /\ PrivilegesFirst /\ Slack = {0}
  /\ \A req \in Requests : WellFormed(req)

(* A container runs with exactly the channels asked for it, after whatever *)
(* sequence of containers and failed attempts.                             *)
GrantedExactly ==
  pc = "container" => \A k \in CapKinds : held[k] = Requested(k)

(* An attempt that does not get to the container has a reason of its own:  *)
(* its images or its backup call fail, or there is no request of a length  *)
(* that is accepted.  It never fails for what earlier attempts have left:  *)
(* no slot is occupied that is copied to, no right or grant is missing.    *)
StopsForCause ==
  /\ pc = "crashed" => defect = "refused"
  /\ pc = "returned" =>
       \/ defect \in {"magic", "payload"}
       \/ header.offset < HeaderSize
       \/ header.total_num > MaxXrt

(* Two requests that both list a region at some place list the same one    *)
(* there; none has its page slot out of range.  A request may leave out    *)
(* regions at the end, and a later one ask for them again.                 *)
AlignedRegions ==
  LET RegionAt(req, i) == FindResource(Resources, "memory", req.memory[i]) IN
  /\ \A req \in Requests : req \in [XrtKinds -> Seq(Nat)]
  /\ \A q, r \in Requests : \A i \in DOMAIN q.memory \cap DOMAIN r.memory :
       RegionAt(q, i) = RegionAt(r, i)
  /\ \A req \in Requests : \A i \in DOMAIN req.memory :
       RegionAt(req, i) # 0 => Resources[RegionAt(req, i)].slot \in MapSlots

(* A container has mapped every region that was asked for it: what the     *)
(* list of mappings keeps was there ("keep" in mktxlo_context_refresh).    *)
(* So it is for an AlignedRegions monitor, whatever was left out, asked    *)
(* for again or refused in between.                                        *)
RequestedRegionsMapped == pc = "container" => RequestedRegions \subseteq mapped

(* The regions in use by the context, each at the index it once had.       *)
InUseBy(m) ==
  {m.data[i] : i \in {j \in Channels : m.state[j] \in {"USED", "KEEP"}}}

(* Although every attempt counts the mappings anew and may be stopped half *)
(* way, the context never loses track of the regions that are mapped, nor  *)
(* does it take one to be mapped that is not (AlignedRegions; the monitor  *)
(* is diligent, so that no attempt ends with states that it has to keep).  *)
MappingsTracked ==
  mapped = InUseBy(IF wiped THEN saved.mappings ELSE mappings)

(* The rights between two containers: those not asked for any more all go  *)
(* before the first new one comes (comment of mktxlo_enforce_pola).        *)
LP == INSTANCE LeastPrivilege WITH
        Rights  <- CapKinds \X Channels,
        running <- pc = "container",
        wanted  <- {right \in CapKinds \X Channels : right[2] \in Requested(right[1])},
        rights  <- {right \in CapKinds \X Channels : right[2] \in held[right[1]]}
ImplementsLeastPrivilege == LP!Spec

(* Every attempt ends, whatever the request page holds: in the container,  *)
(* back in the PD's event loop, or in a fault, unless the monitor never    *)
(* answers the trampoline's call.                                          *)
LoadSettles ==
  pc = "check" ~> (pc \in {"container"} \cup Halted \/ [](pc = "backup"))

(* No history of well-formed requests and failed attempts wedges the PD:   *)
(* an attempt with a grant, sound images and a request in place always     *)
(* enters the container, unless the monitor never answers the trampoline.  *)
GoodLoadRuns ==
  (pc = "check" /\ grant /\ defect = "none" /\ header.offset = HeaderSize)
    ~> (pc = "container" \/ [](pc = "backup"))
-----------------------------------------------------------------------------
(* What comments of the source say of the program, and the code does not.  *)

AfterRevocation == pc = "restore" /\ kind = "ntfn" /\ at = 0

(* "once finished, all USED are UNSET", at the end of mktxlo_revoke_caps.  *)
RevokeLeavesNoUsed ==
  AfterRevocation =>
    /\ \A k \in CapKinds, c \in Channels : allowed[k][c] # "USED"
    /\ \A i \in Channels : mappings.state[i] # "USED"

(* "for XRT_STATE_ALLOWED, create them from backup CNode", in              *)
(* mktxlo_restore_caps: there is room for each of them.                    *)
AllowedSlotsAreVacant ==
  pc = "restore" =>
    \A k \in CapKinds, c \in Channels : allowed[k][c] = "ALLOWED" => c \notin held[k]

(* "initialise the allowed lists for different resources for this          *)
(* execution round", in mktxlo_context_refresh: after it, the lists of     *)
(* channels and I/O ports allow what this round's request lists.           *)
AllowedThisRoundOnly ==
  pc = "revoke" =>
    \A k \in ChannelKinds, c \in Channels :
      allowed[k][c] \in {"ALLOWED", "KEEP"} => c \in Listed(k)
=============================================================================
