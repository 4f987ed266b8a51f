----------------------------- MODULE RequestPage -----------------------------
(***************************************************************************)
(* The page through which a request of access rights gets from the monitor *)
(* to the loader, word by word.  The monitor serialises its five lists     *)
(* into it, with no regard for its size, over what earlier requests left;  *)
(* the loader takes from the header in the first two words how many        *)
(* entries there are and where.  TrustedLoader has a header and a sequence *)
(* of entries in place of the words.                                       *)
(* Sources: src/xrt.c, include/libtrustedlo.h, src/trustedlo_mfuncs.c.     *)
(***************************************************************************)
EXTENDS Xrt

CONSTANTS
  Requests,   \* trustedlo_xrtreq_t's the monitor may ask for
  Bases,      \* the word at which it may have them serialised
  Slack,      \* by how much header.total_num may exceed what was encoded
  PageWords,  \* words in the region TXLO_XRT_REQ
  WordSize,   \* how many values a seL4_Word has
  MaxXrt      \* MAX_XRT_NUM

Word == 0 .. WordSize - 1
PageIndex == 0 .. PageWords - 1
WordBytes == 8
ByteSize == 256
HeaderWords == 2
EntryWords == 2

(* XRT_TYPE_* *)
Code == [ntfn |-> 1, ppc |-> 2, irq |-> 3, ioport |-> 4, memory |-> 5]
KnownEntry == [type : XrtKinds, data : Word]

ASSUME WordAssumption == WordSize \in Nat \ {0} /\ WordSize % ByteSize = 0
ASSUME PageAssumption ==
  /\ PageWords \in Nat /\ MaxXrt \in Nat
  /\ PageWords >= HeaderWords
ASSUME RequestsAssumption ==
  /\ \A req \in Requests : Encode(req) \in Seq(KnownEntry)
  /\ \A req \in Requests, n \in Slack \cup {0} : Len(Encode(req)) + n \in Word
  /\ Slack \subseteq Nat
(* There is room for as many entries as the loader accepts: in the code    *)
(* the page has 512 words, and MAX_XRT_NUM is 62 * 3.                      *)
ASSUME BasesAssumption ==
  /\ Bases \subseteq Nat
  /\ \A b \in Bases : /\ b + EntryWords * MaxXrt <= PageWords
                      /\ b * WordBytes \in Word

VARIABLES
  pc,       \* what the monitor or the loader is doing with the page
  request,  \* the entries that are serialised
  base,     \* the word they start at
  at,       \* index of the loop
  page,     \* the words of the page
  overrun,  \* has serialising gone past the end of the page?
  entries,  \* what the loader has read
  reads     \* the words it has read for that

readVars == <<entries, reads>>
vars == <<pc, request, base, at, page, overrun, readVars>>

Init ==
  /\ pc = "stopped" /\ request = <<>> /\ base = HeaderWords /\ at = 0
  /\ page = [w \in PageIndex |-> 0]
  /\ overrun = FALSE /\ entries = <<>> /\ reads = {}
-----------------------------------------------------------------------------
(* The monitor.                                                            *)

(* mktxlo_prepare_xrt_req_list(page + base, req) *)
PrepareXrtReqList(req, b) ==
  /\ pc = "stopped"
  /\ pc' = "encode"
  /\ request' = Encode(req) /\ base' = b
  /\ at' = 0 /\ overrun' = FALSE
  /\ entries' = <<>> /\ reads' = {}
  /\ UNCHANGED page

(* Mutant of WithType: the type is added to what is there. *)
WithTypeAdded(word, code) == word + code

(* The type is one byte; the padding keeps what was there. *)
WithType(word, code) == (word - (word % ByteSize)) + code

EncodeEntry ==
  LET w == base + EntryWords * at
      e == request[at + 1]
  IN
  /\ pc = "encode"
  /\ at < Len(request)
  /\ page' = [i \in PageIndex |-> IF i = w THEN WithType(page[i], Code[e.type])
                                  ELSE IF i = w + 1 THEN e.data
                                  ELSE page[i]]
  /\ overrun' = (overrun \/ w + 1 >= PageWords)
  /\ at' = at + 1
  /\ UNCHANGED <<pc, request, base, readVars>>

(* External: the header, which the library leaves to the monitor. *)
WriteHeader(slack) ==
  /\ pc = "encode"
  /\ at >= Len(request)
  /\ pc' = "stopped"
  /\ page' = [page EXCEPT ![0] = Len(request) + slack, ![1] = base * WordBytes]
  /\ UNCHANGED <<request, base, at, overrun, readVars>>

(* External: it starts the loader, on a page that an earlier attempt may   *)
(* have read already, or that the trampoline has zeroed.                   *)
StartLoader ==
  /\ pc = "stopped"
  /\ pc' = "parse"
  /\ entries' = <<>> /\ reads' = {}
  /\ UNCHANGED <<request, base, at, page, overrun>>
-----------------------------------------------------------------------------
(* The loader.                                                             *)

total_num == page[0]
serialised_offset == page[1]

(* Mutant of TotalAccepted: the bound is the length of the five lists. *)
TotalAcceptedFiveLists == total_num <= 5 * MaxXrt

TotalAccepted == total_num <= MaxXrt
OffsetAccepted == serialised_offset >= HeaderWords * WordBytes

(* trustedlo_xrt_util_parse_xrt_header *)
ParseHeader ==
  /\ pc = "parse"
  /\ pc' = IF TotalAccepted /\ OffsetAccepted THEN "populate" ELSE "refused"
  /\ at' = 0
  /\ UNCHANGED <<request, base, page, overrun, readVars>>

(* Mutant of TypeOf: the padding is taken for a part of the type. *)
TypeOfWord(word) == word

TypeOf(word) == word % ByteSize
EntryWord == serialised_offset \div WordBytes + EntryWords * at

(* What is past the page is nothing of the request; it is not read. *)
WordAt(w) == IF w \in PageIndex THEN page[w] ELSE 0

InPopulate ==
  /\ pc = "populate"
  /\ at < total_num
  /\ reads' = reads \cup {EntryWord, EntryWord + 1}
  /\ UNCHANGED <<request, base, page, overrun>>

ReadEntry(kind) ==
  /\ InPopulate
  /\ TypeOf(WordAt(EntryWord)) = Code[kind]
  /\ entries' = Append(entries, [type |-> kind, data |-> WordAt(EntryWord + 1)])
  /\ at' = at + 1
  /\ UNCHANGED pc

(* The default of the switch in trustedlo_acrt_workerfunc. *)
ReadUnknown ==
  /\ InPopulate
  /\ \A kind \in XrtKinds : TypeOf(WordAt(EntryWord)) # Code[kind]
  /\ pc' = "refused"
  /\ UNCHANGED <<at, entries>>

PopulateDone ==
  /\ pc = "populate"
  /\ at >= total_num
  /\ pc' = "populated"
  /\ UNCHANGED <<request, base, at, page, overrun, readVars>>

(* trampoline_entry zeroes the page before the container starts. *)
WipePage ==
  /\ pc = "populated"
  /\ pc' = "stopped"
  /\ page' = [w \in PageIndex |-> 0]
  /\ UNCHANGED <<request, base, at, overrun, readVars>>

(* External: the monitor stops a PD whose attempt went wrong, in the       *)
(* population (a right that is not delegated) or anywhere after it.        *)
AttemptFails ==
  /\ pc \in {"populate", "populated", "refused"}
  /\ pc' = "stopped"
  /\ UNCHANGED <<request, base, at, page, overrun, readVars>>

Next ==
  \/ \E req \in Requests, b \in Bases : PrepareXrtReqList(req, b)
  \/ EncodeEntry
  \/ \E slack \in Slack : WriteHeader(slack)
  \/ StartLoader
  \/ ParseHeader
  \/ \E kind \in XrtKinds : ReadEntry(kind)
  \/ ReadUnknown
  \/ PopulateDone \/ WipePage \/ AttemptFails

Spec == Init /\ [][Next]_vars
-----------------------------------------------------------------------------
(* Properties.                                                             *)

(* Every variable has its type; every word stays one. *)
TypeOK ==
  /\ pc \in {"stopped", "encode", "parse", "populate", "populated", "refused"}
  /\ request \in Seq(KnownEntry) /\ base \in Nat /\ at \in Nat
  /\ page \in [PageIndex -> Word]
  /\ overrun \in BOOLEAN
  /\ entries \in Seq(KnownEntry) /\ reads \subseteq Nat

(* Whatever number of entries the header gives, none is read past the end  *)
(* of the page: MAX_XRT_NUM is small enough for that.  The offset has no   *)
(* upper bound in the code; here it is where the monitor serialised.       *)
ReadsInPage == reads \subseteq PageIndex

(* The loader gets the list that was asked for or none.  When the header   *)
(* gives the right number and place, what it has read is the request entry *)
(* by entry, whatever words earlier requests have left, and a request for  *)
(* which the page was too short is none of those it accepts; it refuses no *)
(* other than those that are too long or lie over the header.              *)
Honest ==
  /\ total_num = Len(request)
  /\ serialised_offset = base * WordBytes
RequestArrives ==
  /\ pc = "populated" /\ Honest => entries = request /\ ~overrun
  /\ pc = "refused" /\ Honest =>
       Len(request) > MaxXrt \/ base < HeaderWords
=============================================================================
