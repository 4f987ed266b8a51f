---------------------------- MODULE MCTrampoline ----------------------------
(***************************************************************************)
(* Small instances of Trampoline, with pages of two addresses: the layout  *)
(* of config/vm_layout.py in single pages, without guard pages, and one    *)
(* region moved or resized; and up to three regions of any shape.          *)
(***************************************************************************)
EXTENDS Trampoline

R(name, base, size) == [name |-> name, base |-> base, size |-> size]
Pages(name, first, count) == R(name, PageSize * first, PageSize * count)

Default ==
  <<Pages("IPC_BUFFER", 1, 1), Pages("LOADER_PROGRAM", 2, 2),
    Pages("LOADER_METADATA", 4, 1), Pages("TXLO_XRT_REQ", 5, 1),
    Pages("TRAMPOLINE_ARGS", 6, 1), Pages("LOADER_CONTEXT", 7, 1),
    Pages("TRAMPOLINE_IMAGE", 8, 1), Pages("TRAMPOLINE_PROGRAM", 9, 1),
    Pages("CONTAINER_IMAGE", 10, 1), Pages("CONTAINER_PROGRAM", 11, 1),
    Pages("CONTAINER_STACK", 13, 2), Pages("TRAMPOLINE_STACK", 15, 1),
    Pages("MICROKIT_AARCH64_STACK", 16, 1), Pages("MICROKIT_X86_STACK", 18, 1)>>

(* Every region at every place, of every size up to three pages; and one   *)
(* region less.                                                            *)
Moved ==
  {[Default EXCEPT ![n] = Pages(@.name, first, count)] :
     n \in DOMAIN Default, first \in 0 .. 20, count \in 1 .. 3}
    \cup {SubSeq(Default, 1, n - 1) \o SubSeq(Default, n + 1, 14) : n \in DOMAIN Default}

(* Near the last address, with bases and sizes that are negative, zero,    *)
(* not aligned or too large.                                               *)
Any(name) ==
  {R(name, base, size) : base \in {-2} \cup (36 .. 44), size \in 0 .. 4}

(* Two of any shape around a third, or with names that clash or miss.      *)
AnyConfigs ==
  {<<r, s, Pages("TRAMPOLINE_PROGRAM", 19, 1)>> :
     r \in Any("LOADER_PROGRAM"), s \in Any("R")}
    \cup {<<R(n1, 0, 2), R(n2, 4, 2), R(n3, b, 2)>> :
            n1 \in {"LOADER_PROGRAM", "R"}, n2 \in {"LOADER_PROGRAM", "R"},
            n3 \in {"TRAMPOLINE_PROGRAM", "R"}, b \in {0, 2, 4}}
    \cup {<<>>}

MCConfigs == Moved \cup AnyConfigs
=============================================================================
