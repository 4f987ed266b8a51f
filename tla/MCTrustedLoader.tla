-------------------------- MODULE MCTrustedLoader --------------------------
(***************************************************************************)
(* Small instances of TrustedLoader: two channel numbers, of which both    *)
(* are delegated as notifications and one each as PPC and I/O port, and    *)
(* memory regions at 100 and 200 (first page slots at the lower bound and  *)
(* inside the delegation CNode's range) and at 300 (slot out of range).    *)
(***************************************************************************)
EXTENDS TrustedLoader

R(k, v, s) == [kind |-> k, flags |-> 0, slot |-> s, cap_count |-> 1,
               arg0 |-> v, arg1 |-> 0]
MCResources ==
  <<R("ntfn", 0, 10), R("ntfn", 1, 11), R("ppc", 0, 74), R("ioport", 0, 0),
    R("memory", 100, 138), R("memory", 200, 140), R("memory", 300, 960)>>

Req(ntfns, ppcs, irqs, ioports, regions) ==
  [ntfn |-> ntfns, ppc |-> ppcs, irq |-> irqs, ioport |-> ioports,
   memory |-> regions]

(* Any delegated channels, each once; the PPC with none or one of the      *)
(* regions, and otherwise both.                                            *)
StableRequests ==
  {Req(n, pm[1], <<>>, <<0>>, pm[2]) :
     n \in {<<>>, <<1>>, <<1, 0>>},
     pm \in {<< <<>>, <<100, 200>> >>, << <<0>>, <<100>> >>, << <<0>>, <<>> >>}}

(* They are what the theorems about granted rights and mappings assume. *)
ASSUME StableAssumption ==
  Requests = StableRequests => DiligentMonitor /\ AlignedRegions

(* Beside requests as they should be, every kind that is not: a channel    *)
(* listed twice, one out of range, one not delegated, an IRQ.              *)
ChannelRequests ==
  {Req(<<0>>, <<0>>, <<>>, <<>>, <<>>),
   Req(<<1>>, <<>>, <<>>, <<0>>, <<>>),
   Req(<<0, 0>>, <<>>, <<>>, <<>>, <<>>),
   Req(<<0, 1>>, <<>>, <<>>, <<>>, <<>>),
   Req(<<0>>, <<1>>, <<>>, <<>>, <<>>),
   Req(<<2>>, <<>>, <<>>, <<>>, <<>>),
   Req(<<>>, <<0>>, <<0>>, <<>>, <<>>)}

(* One channel number, delegated as a notification only. *)
FewResources ==
  <<R("ntfn", 0, 10), R("ntfn", 1, 11), R("memory", 100, 138),
    R("memory", 300, 960)>>

(* The same, and a region that is unknown, one whose page is out of range, *)
(* and more regions than fit.                                              *)
OneChannelRequests ==
  {Req(<<0>>, <<>>, <<>>, <<>>, <<100>>),
   Req(<<0, 0>>, <<>>, <<>>, <<>>, <<>>),
   Req(<<0>>, <<0>>, <<>>, <<>>, <<>>),
   Req(<<1>>, <<>>, <<>>, <<>>, <<>>),
   Req(<<>>, <<>>, <<0>>, <<>>, <<>>),
   Req(<<>>, <<>>, <<>>, <<0>>, <<>>),
   Req(<<>>, <<>>, <<>>, <<>>, <<300>>),
   Req(<<>>, <<>>, <<>>, <<>>, <<100, 300>>),
   Req(<<0>>, <<>>, <<>>, <<>>, <<400>>)}

(* Delegated regions only, in lists that change from one load to the next. *)
RegionRequests ==
  {Req(<<>>, <<>>, <<>>, <<>>, m) : m \in {<<100>>, <<200>>, <<100, 200>>}}
=============================================================================
