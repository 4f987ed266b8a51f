------------------------------ MODULE InfoPage ------------------------------
(***************************************************************************)
(* The bytes of the delegator record, and what mktxlo_fill_client_args     *)
(* makes of them: it is handed the page of the record (dlg_delegator_t)    *)
(* and reads it as a txlo_info_t.  So the channels that a container is     *)
(* told it always has are bits of whatever resources lie there.            *)
(* Sources: include/txlodlg.h, include/libtrustedlo.h,                     *)
(* src/trustedlo_cfuncs.c.                                                 *)
(***************************************************************************)
EXTENDS Xrt

CONSTANT PdId   \* dlg_delegator_t.pd_id

ASSUME PdIdAssumption == PdId \in Nat

DLG_DELEGATOR_HEADER_SIZE == 16
DLG_RESOURCE_SIZE == 22
KindCode == [ntfn |-> 1, ppc |-> 2, memory |-> 3, ioport |-> 4]

(* Byte i of a number, the lowest first. *)
ByteOf(value, i) ==
  LET Upper[j \in Nat] == IF j = 0 THEN value ELSE Upper[j - 1] \div 256
  IN  Upper[i] % 256

(* dlg_resource_t is packed. *)
ResourceByte(r, b) ==
  CASE b = 0         -> KindCode[r.kind]
    [] b = 1         -> r.flags
    [] b \in 2 .. 3   -> ByteOf(r.slot, b - 2)
    [] b \in 4 .. 5   -> ByteOf(r.cap_count, b - 4)
    [] b \in 6 .. 13  -> ByteOf(r.arg0, b - 6)
    [] b \in 14 .. 21 -> ByteOf(r.arg1, b - 14)

(* Byte o of the page, from pd_id on; past the last resource it is zero. *)
RecordByte(info, o) ==
  LET b == o - DLG_DELEGATOR_HEADER_SIZE
      n == b \div DLG_RESOURCE_SIZE + 1
  IN  IF o < DLG_DELEGATOR_HEADER_SIZE THEN ByteOf(PdId, o - 8)
      ELSE IF n <= Len(info) THEN ResourceByte(info[n], b % DLG_RESOURCE_SIZE)
      ELSE 0

(* txlo_info_t: which word of the page each bitmap is. *)
opt_word == [ntfn |-> 1, ppc |-> 2]
microkit_word == [ntfn |-> 5, ppc |-> 6, irq |-> 7, ioport |-> 8]

BitmapAt(info, word) ==
  {c \in Channels :
     (RecordByte(info, 8 * word + c \div 8) \div 2^(c % 8)) % 2 = 1}

(* info->microkit_* & ~info->bitmap_opt_*, or all of the former. *)
ToldAlways(info, kind) ==
  BitmapAt(info, microkit_word[kind])
    \ (IF kind \in DOMAIN opt_word THEN BitmapAt(info, opt_word[kind]) ELSE {})
=============================================================================
