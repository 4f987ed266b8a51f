--------------------------- MODULE MCRequestPage ---------------------------
(***************************************************************************)
(* A small instance of RequestPage: room for three entries, requests of up *)
(* to five, at and over the header or one word after it.                   *)
(***************************************************************************)
EXTENDS RequestPage

MCResources == <<>>

Req(ntfns, ppcs, irqs, ioports, regions) ==
  [ntfn |-> ntfns, ppc |-> ppcs, irq |-> irqs, ioport |-> ioports,
   memory |-> regions]

(* Numbers of channels, and addresses that fill the padding of the entries *)
(* of a later request.                                                     *)
MCRequests ==
  {Req(<<>>, <<>>, <<>>, <<>>, <<>>),
   Req(<<61>>, <<0>>, <<>>, <<>>, <<1023>>),
   Req(<<>>, <<>>, <<1>>, <<>>, <<768, 1023>>),
   Req(<<>>, <<>>, <<>>, <<2>>, <<256, 512, 768>>),
   Req(<<1>>, <<0>>, <<2>>, <<3>>, <<1023>>)}
=============================================================================
