-------------------------------- MODULE Xrt --------------------------------
(***************************************************************************)
(* The data that the monitor and the loader exchange: access-right (xrt)   *)
(* entries, the delegator record that lists what may be delegated, and the *)
(* state the loader keeps for each access right.                           *)
(* Sources: include/libtrustedlo.h, include/txlodlg.h, src/xrt.c.          *)
(***************************************************************************)
EXTENDS Naturals, Sequences

CONSTANTS
  MaxChannels,  \* MICROKIT_MAX_CHANNELS: length of every array of the context
  Resources     \* the delegator record: a sequence of dlg_resource_t

Channels == 0 .. MaxChannels - 1

(* XRT_TYPE_*; a zeroed entry has type 0, which is none of them. *)
ChannelKinds == {"ntfn", "ppc", "irq", "ioport"}
XrtKinds == ChannelKinds \cup {"memory"}
Entry == [type : XrtKinds \cup {"none"}, data : Nat]
ZeroEntry == [type |-> "none", data |-> 0]

(* The arrays XRTS_DEF generates a revoke and a restore loop for: I/O ports *)
(* have neither.                                                           *)
CapKinds == {"ntfn", "ppc", "irq"}

(* XRT_STATE_* *)
XrtState == {"UNSET", "ALLOWED", "USED", "KEEP"}

(* dlg_resource_t: slot is the first page's slot in the delegation CNode. *)
Resource == [kind : XrtKinds \ {"irq"}, flags : Nat, slot : Nat,
             cap_count : Nat, arg0 : Nat, arg1 : Nat]

(* A page slot that trustedlo_cap_util_pd_grant_page_access accepts: the    *)
(* bounds are DLG_MAP_CAP_START and DLG_MAP_CAP_END.                       *)
MapSlots == 138 .. 1024 - 64 - 1

ASSUME MaxChannelsAssumption == MaxChannels \in Nat
ASSUME ResourcesAssumption == Resources \in Seq(Resource)
-----------------------------------------------------------------------------
(* Linear search of the record for the first resource of a kind and value; *)
(* 0 stands for NULL.                                                      *)
FindResource(info, kind, value) ==
  LET hits == {i \in 1 .. Len(info) :
                 info[i].kind = kind /\ info[i].arg0 = value}
  IN  IF hits = {} THEN 0 ELSE CHOOSE i \in hits : \A j \in hits : i <= j

(* Mutant of Delegated: a resource of any kind will do. *)
DelegatedAnyKind(info, kind, value) ==
  kind # "irq" /\ \E i \in 1 .. Len(info) : info[i].arg0 = value

(* trustedlo_xrt_util_check_*: is the right delegated?  No IRQ ever is. *)
Delegated(info, kind, value) ==
  /\ kind # "irq"
  /\ FindResource(info, kind, value) # 0

(* Mutant of Allow: rights in use are not told from others. *)
AllowAlways(state) == "ALLOWED"

(* trustedlo_ctxt_allow__*: a right in use is to be kept, any other state  *)
(* (KEEP included) becomes ALLOWED.                                        *)
Allow(state) == IF state = "USED" THEN "KEEP" ELSE "ALLOWED"

(* trustedlo_xrt_util_encode_xrts: the five lists of a trustedlo_xrtreq_t  *)
(* are serialised one after the other.                                     *)
Encode(req) ==
  LET Tagged(kind) == [i \in 1 .. Len(req[kind]) |->
                         [type |-> kind, data |-> req[kind][i]]]
  IN  Tagged("ntfn") \o Tagged("ppc") \o Tagged("irq")
        \o Tagged("ioport") \o Tagged("memory")
=============================================================================
