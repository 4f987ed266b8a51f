------------------------ MODULE LeastPrivilegeProofs ------------------------
(***************************************************************************)
(* What a container is granted: theorems about TrustedLoader for every     *)
(* delegator record, and every set of requests that the record covers.     *)
(***************************************************************************)
EXTENDS TrustedLoaderProofs

(* Where the entries of a kind begin in the list that a request is encoded *)
(* as.                                                                     *)
Start(req, k) ==
  CASE k = "ntfn"   -> 0
    [] k = "ppc"    -> Len(req.ntfn)
    [] k = "irq"    -> Len(req.ntfn) + Len(req.ppc)
    [] k = "ioport" -> Len(req.ntfn) + Len(req.ppc) + Len(req.irq)
    [] k = "memory" -> Len(req.ntfn) + Len(req.ppc) + Len(req.irq) + Len(req.ioport)

(* Entry i is the j-th that the request lists of a kind. *)
Comes(req, i, k, j) ==
  /\ j \in 1 .. Len(req[k])
  /\ i = Start(req, k) + j
  /\ Encode(req)[i] = [type |-> k, data |-> req[k][j]]

LEMMA StartIsNumber ==
  ASSUME NEW req \in [XrtKinds -> Seq(Nat)], NEW k \in XrtKinds
  PROVE  Len(req[k]) \in Nat /\ Start(req, k) \in Nat
<1>1. \A j \in XrtKinds : Len(req[j]) \in Nat
  OBVIOUS
<1>2. /\ Len(req.ntfn) \in Nat /\ Len(req.ppc) \in Nat /\ Len(req.irq) \in Nat
      /\ Len(req.ioport) \in Nat
  BY <1>1 DEF XrtKinds, ChannelKinds
<1> QED
  BY <1>1, <1>2 DEF Start, XrtKinds, ChannelKinds

(* Two lists, one after the other. *)
LEMMA TwoLists ==
  ASSUME NEW s \in Seq(Entry), NEW t \in Seq(Entry)
  PROVE  /\ s \o t \in Seq(Entry)
         /\ Len(s \o t) = Len(s) + Len(t)
         /\ \A i \in 1 .. Len(s) : (s \o t)[i] = s[i]
         /\ \A j \in 1 .. Len(t) : (s \o t)[Len(s) + j] = t[j]
OBVIOUS

(* Nothing but what is listed is encoded, and that where it belongs. *)
LEMMA EncodedEntries ==
  ASSUME NEW req \in [XrtKinds -> Seq(Nat)]
  PROVE  /\ Encode(req) \in Seq(Entry)
         /\ Len(Encode(req)) = Start(req, "memory") + Len(req.memory)
         /\ \A k \in XrtKinds : \A j \in 1 .. Len(req[k]) :
              Comes(req, Start(req, k) + j, k, j)
         /\ \A i \in 1 .. Len(Encode(req)) : \E k \in XrtKinds, j \in Nat :
              Comes(req, i, k, j)
<1> DEFINE T(k) == [i \in 1 .. Len(req[k]) |-> [type |-> k, data |-> req[k][i]]]
           n == Len(req.ntfn)
           p == Len(req.ppc)
           q == Len(req.irq)
           o == Len(req.ioport)
           m == Len(req.memory)
<1>1. n \in Nat /\ p \in Nat /\ q \in Nat /\ o \in Nat /\ m \in Nat
  BY DEF XrtKinds, ChannelKinds
<1>2. ASSUME NEW k \in XrtKinds
      PROVE  /\ T(k) \in Seq(Entry) /\ Len(T(k)) = Len(req[k])
             /\ \A j \in 1 .. Len(req[k]) : T(k)[j] = [type |-> k, data |-> req[k][j]]
  BY DEF Entry
<1> DEFINE s1 == T("ntfn")
           s2 == T("ppc")
           s3 == T("irq")
           s4 == T("ioport")
           s5 == T("memory")
           a2 == s1 \o s2
           a3 == a2 \o s3
           a4 == a3 \o s4
           a5 == a4 \o s5
<1>3. Encode(req) = a5
  BY DEF Encode
<1>4. /\ s1 \in Seq(Entry) /\ s2 \in Seq(Entry) /\ s3 \in Seq(Entry)
      /\ s4 \in Seq(Entry) /\ s5 \in Seq(Entry)
      /\ Len(s1) = n /\ Len(s2) = p /\ Len(s3) = q /\ Len(s4) = o /\ Len(s5) = m
  <2> HIDE DEF T
  <2> QED
    BY <1>2 DEF XrtKinds, ChannelKinds
<1>40. /\ \A j \in 1 .. n : s1[j] = [type |-> "ntfn", data |-> req["ntfn"][j]]
       /\ \A j \in 1 .. p : s2[j] = [type |-> "ppc", data |-> req["ppc"][j]]
       /\ \A j \in 1 .. q : s3[j] = [type |-> "irq", data |-> req["irq"][j]]
       /\ \A j \in 1 .. o : s4[j] = [type |-> "ioport", data |-> req["ioport"][j]]
       /\ \A j \in 1 .. m : s5[j] = [type |-> "memory", data |-> req["memory"][j]]
  <2> HIDE DEF T
  <2> QED
    BY <1>2 DEF XrtKinds, ChannelKinds
<1> HIDE DEF T, n, p, q, o, m, s1, s2, s3, s4, s5
<1>5. /\ a2 \in Seq(Entry) /\ Len(a2) = n + p
      /\ \A i \in 1 .. n : a2[i] = s1[i]
      /\ \A j \in 1 .. p : a2[n + j] = s2[j]
  <2>1. /\ a2 \in Seq(Entry)
        /\ Len(a2) = Len(s1) + Len(s2)
        /\ \A i \in 1 .. Len(s1) : a2[i] = s1[i]
        /\ \A j \in 1 .. Len(s2) : a2[Len(s1) + j] = s2[j]
    BY <1>4, TwoLists
  <2> HIDE DEF a2
  <2> QED
    BY <1>4, <2>1
<1> HIDE DEF a2
<1>6. /\ a3 \in Seq(Entry) /\ Len(a3) = n + p + q
      /\ \A i \in 1 .. n + p : a3[i] = a2[i]
      /\ \A j \in 1 .. q : a3[n + p + j] = s3[j]
  <2>1. /\ a3 \in Seq(Entry)
        /\ Len(a3) = Len(a2) + Len(s3)
        /\ \A i \in 1 .. Len(a2) : a3[i] = a2[i]
        /\ \A j \in 1 .. Len(s3) : a3[Len(a2) + j] = s3[j]
    BY <1>4, <1>5, TwoLists
  <2> HIDE DEF a3
  <2> QED
    BY <1>4, <1>5, <2>1
<1> HIDE DEF a3
<1>7. /\ a4 \in Seq(Entry) /\ Len(a4) = n + p + q + o
      /\ \A i \in 1 .. n + p + q : a4[i] = a3[i]
      /\ \A j \in 1 .. o : a4[n + p + q + j] = s4[j]
  <2>1. /\ a4 \in Seq(Entry)
        /\ Len(a4) = Len(a3) + Len(s4)
        /\ \A i \in 1 .. Len(a3) : a4[i] = a3[i]
        /\ \A j \in 1 .. Len(s4) : a4[Len(a3) + j] = s4[j]
    BY <1>4, <1>6, TwoLists
  <2> HIDE DEF a4
  <2> QED
    BY <1>4, <1>6, <2>1
<1> HIDE DEF a4
<1>8. /\ a5 \in Seq(Entry) /\ Len(a5) = n + p + q + o + m
      /\ \A i \in 1 .. n + p + q + o : a5[i] = a4[i]
      /\ \A j \in 1 .. m : a5[n + p + q + o + j] = s5[j]
  <2>1. /\ a5 \in Seq(Entry)
        /\ Len(a5) = Len(a4) + Len(s5)
        /\ \A i \in 1 .. Len(a4) : a5[i] = a4[i]
        /\ \A j \in 1 .. Len(s5) : a5[Len(a4) + j] = s5[j]
    BY <1>4, <1>7, TwoLists
  <2> HIDE DEF a5
  <2> QED
    BY <1>4, <1>7, <2>1
<1> HIDE DEF a5
<1>9. /\ \A j \in 1 .. n : a5[j] = s1[j]
      /\ \A j \in 1 .. p : a5[n + j] = s2[j]
      /\ \A j \in 1 .. q : a5[n + p + j] = s3[j]
      /\ \A j \in 1 .. o : a5[n + p + q + j] = s4[j]
  <2>1. ASSUME NEW j \in 1 .. o
        PROVE  a5[n + p + q + j] = s4[j]
    <3>1. n + p + q + j \in 1 .. n + p + q + o
      BY <1>1
    <3>2. a5[n + p + q + j] = a4[n + p + q + j]
      BY <1>8, <3>1
    <3> QED
      BY <1>7, <3>2
  <2>2. \A i \in 1 .. n + p + q : a5[i] = a3[i]
    BY <1>1, <1>7, <1>8
  <2>3. \A j \in 1 .. q : a5[n + p + j] = s3[j]
    BY <1>1, <1>6, <2>2
  <2>4. \A i \in 1 .. n + p : a5[i] = a2[i]
    BY <1>1, <1>6, <2>2
  <2>5. \A j \in 1 .. p : a5[n + j] = s2[j]
    BY <1>1, <1>5, <2>4
  <2>6. \A j \in 1 .. n : a5[j] = s1[j]
    BY <1>1, <1>5, <2>4
  <2> QED
    BY <2>1, <2>3, <2>5, <2>6
<1>10. /\ Start(req, "ntfn") = 0 /\ Start(req, "ppc") = n
       /\ Start(req, "irq") = n + p /\ Start(req, "ioport") = n + p + q
       /\ Start(req, "memory") = n + p + q + o
  BY DEF Start, n, p, q, o
<1>11. /\ \A j \in 1 .. Len(req["ntfn"]) : Comes(req, Start(req, "ntfn") + j, "ntfn", j)
       /\ \A j \in 1 .. Len(req["ppc"]) : Comes(req, Start(req, "ppc") + j, "ppc", j)
       /\ \A j \in 1 .. Len(req["irq"]) : Comes(req, Start(req, "irq") + j, "irq", j)
       /\ \A j \in 1 .. Len(req["ioport"]) :
            Comes(req, Start(req, "ioport") + j, "ioport", j)
       /\ \A j \in 1 .. Len(req["memory"]) :
            Comes(req, Start(req, "memory") + j, "memory", j)
  <2>1. ASSUME NEW j \in 1 .. n PROVE Comes(req, Start(req, "ntfn") + j, "ntfn", j)
    BY <1>1, <1>3, <1>40, <1>9, <1>10 DEF Comes, n
  <2>2. ASSUME NEW j \in 1 .. p PROVE Comes(req, Start(req, "ppc") + j, "ppc", j)
    BY <1>1, <1>3, <1>40, <1>9, <1>10 DEF Comes, p
  <2>3. ASSUME NEW j \in 1 .. q PROVE Comes(req, Start(req, "irq") + j, "irq", j)
    BY <1>1, <1>3, <1>40, <1>9, <1>10 DEF Comes, q
  <2>4. ASSUME NEW j \in 1 .. o PROVE Comes(req, Start(req, "ioport") + j, "ioport", j)
    BY <1>1, <1>3, <1>40, <1>9, <1>10 DEF Comes, o
  <2>5. ASSUME NEW j \in 1 .. m PROVE Comes(req, Start(req, "memory") + j, "memory", j)
    BY <1>1, <1>3, <1>40, <1>8, <1>10 DEF Comes, m
  <2> QED
    BY <2>1, <2>2, <2>3, <2>4, <2>5 DEF n, p, q, o, m
<1>12. ASSUME NEW k \in XrtKinds, NEW j \in 1 .. Len(req[k])
       PROVE  Comes(req, Start(req, k) + j, k, j)
  BY <1>11 DEF XrtKinds, ChannelKinds
<1>13. ASSUME NEW i \in 1 .. Len(Encode(req))
       PROVE  \E k \in XrtKinds, j \in Nat : Comes(req, i, k, j)
  <2>1. i \in 1 .. n + p + q + o + m
    BY <1>3, <1>8
  <2>2. \E k \in XrtKinds : \E j \in 1 .. Len(req[k]) : i = Start(req, k) + j
    <3>1. CASE i <= n
      BY <1>1, <1>10, <2>1, <3>1 DEF n, XrtKinds, ChannelKinds
    <3>2. CASE n < i /\ i <= n + p
      <4>1. i - n \in 1 .. p /\ i = n + (i - n)
        BY <1>1, <2>1, <3>2
      <4> QED
        BY <1>10, <4>1 DEF p, XrtKinds, ChannelKinds
    <3>3. CASE n + p < i /\ i <= n + p + q
      <4>1. i - (n + p) \in 1 .. q /\ i = n + p + (i - (n + p))
        BY <1>1, <2>1, <3>3
      <4> QED
        BY <1>10, <4>1 DEF q, XrtKinds, ChannelKinds
    <3>4. CASE n + p + q < i /\ i <= n + p + q + o
      <4>1. i - (n + p + q) \in 1 .. o /\ i = n + p + q + (i - (n + p + q))
        BY <1>1, <2>1, <3>4
      <4> QED
        BY <1>10, <4>1 DEF o, XrtKinds, ChannelKinds
    <3>5. CASE n + p + q + o < i
      <4>1. i - (n + p + q + o) \in 1 .. m
            /\ i = n + p + q + o + (i - (n + p + q + o))
        BY <1>1, <2>1, <3>5
      <4> QED
        BY <1>10, <4>1 DEF m, XrtKinds, ChannelKinds
    <3> QED
      BY <1>1, <2>1, <3>1, <3>2, <3>3, <3>4, <3>5
  <2>3. PICK k \in XrtKinds : \E j \in 1 .. Len(req[k]) : i = Start(req, k) + j
    BY <2>2
  <2>4. PICK j \in 1 .. Len(req[k]) : i = Start(req, k) + j
    BY <2>3
  <2>5. Comes(req, i, k, j)
    BY <1>12, <2>4
  <2>6. j \in Nat
    OBVIOUS
  <2> QED
    BY <2>5, <2>6
<1>14. Encode(req) \in Seq(Entry)
  BY <1>3, <1>8
<1>15. Len(Encode(req)) = Start(req, "memory") + Len(req.memory)
  BY <1>3, <1>8, <1>10 DEF m
<1> QED
  BY <1>12, <1>13, <1>14, <1>15

(* What a well-formed request makes of an entry and of a pair of them. *)
EntryPasses(req, i) ==
  LET e == Encode(req)[i] IN
  /\ e.type \in XrtKinds
  /\ Delegated(Resources, e.type, e.data)
  /\ e.type # "memory" => e.data \in Channels
  /\ e.type = "memory" => Len(Encode(req)) - i < MaxChannels
EntriesDiffer(req, h, i) ==
  Encode(req)[h].type \in CapKinds /\ Encode(req)[h] = Encode(req)[i] => h = i

(* The entries of a well-formed request pass every check of the loader. *)
LEMMA EncodedWell ==
  ASSUME NEW req, WellFormed(req)
  PROVE  /\ Len(Encode(req)) \in Nat
         /\ \A i \in 1 .. Len(Encode(req)) : EntryPasses(req, i)
         /\ \A h, i \in 1 .. Len(Encode(req)) : EntriesDiffer(req, h, i)
<1>1. req \in [XrtKinds -> Seq(Nat)]
  BY DEF WellFormed
<1>2. \A k \in XrtKinds : DOMAIN req[k] = 1 .. Len(req[k]) /\ Len(req[k]) \in Nat
  BY <1>1
<1>3. Start(req, "memory") \in Nat /\ Len(Encode(req)) = Start(req, "memory") + Len(req.memory)
  <2>1. "memory" \in XrtKinds
    BY DEF XrtKinds
  <2> QED
    BY <1>1, <2>1, EncodedEntries, StartIsNumber
<1>4. ASSUME NEW i \in 1 .. Len(Encode(req)), NEW k \in XrtKinds, NEW j \in Nat,
             Comes(req, i, k, j)
      PROVE  /\ Encode(req)[i].type = k /\ Encode(req)[i].data = req[k][j]
             /\ j \in DOMAIN req[k] /\ i = Start(req, k) + j
  BY <1>2, <1>4 DEF Comes
<1>5. ASSUME NEW i \in 1 .. Len(Encode(req))
      PROVE  EntryPasses(req, i)
  <2>1. PICK k \in XrtKinds, j \in Nat : Comes(req, i, k, j)
    BY <1>1, EncodedEntries
  <2>2. /\ Encode(req)[i].type = k /\ Encode(req)[i].data = req[k][j]
        /\ j \in DOMAIN req[k] /\ i = Start(req, k) + j
    BY <1>4, <2>1
  <2>3. Delegated(Resources, k, req[k][j])
    BY <2>2 DEF WellFormed
  <2>4. k # "memory" => req[k][j] \in Channels
    BY <2>2 DEF WellFormed, XrtKinds
  <2>5. ASSUME k = "memory"
        PROVE  Len(Encode(req)) - i < MaxChannels
    <3>1. i = Start(req, "memory") + j /\ j \in 1 .. Len(req.memory)
      BY <1>2, <2>2, <2>5
    <3>2. Len(req.memory) <= MaxChannels
      BY DEF WellFormed
    <3> QED
      BY <1>2, <1>3, <3>1, <3>2, MaxChannelsAssumption DEF XrtKinds
  <2> QED
    BY <2>2, <2>3, <2>4, <2>5 DEF EntryPasses
<1>6. ASSUME NEW h \in 1 .. Len(Encode(req)), NEW i \in 1 .. Len(Encode(req))
      PROVE  EntriesDiffer(req, h, i)
  <2> SUFFICES ASSUME Encode(req)[h].type \in CapKinds,
                      Encode(req)[h] = Encode(req)[i]
               PROVE  h = i
    BY DEF EntriesDiffer
  <2>1. PICK k1 \in XrtKinds, j1 \in Nat : Comes(req, h, k1, j1)
    BY <1>1, EncodedEntries
  <2>2. PICK k2 \in XrtKinds, j2 \in Nat : Comes(req, i, k2, j2)
    BY <1>1, EncodedEntries
  <2>3. /\ Encode(req)[h].type = k1 /\ Encode(req)[h].data = req[k1][j1]
        /\ j1 \in DOMAIN req[k1] /\ h = Start(req, k1) + j1
    BY <1>4, <2>1
  <2>4. /\ Encode(req)[i].type = k2 /\ Encode(req)[i].data = req[k2][j2]
        /\ j2 \in DOMAIN req[k2] /\ i = Start(req, k2) + j2
    BY <1>4, <2>2
  <2>5. k1 = k2 /\ k1 \in CapKinds /\ req[k1][j1] = req[k1][j2]
    BY <2>3, <2>4
  <2>6. j1 = j2
    BY <2>3, <2>4, <2>5 DEF WellFormed
  <2> QED
    BY <2>3, <2>4, <2>5, <2>6
<1>7. Len(Encode(req)) \in Nat
  BY <1>2, <1>3 DEF XrtKinds
<1> QED
  BY <1>5, <1>6, <1>7

(* The regions come last, in the order of the request. *)
RegionPlace(req, i) == i + Len(req.memory) - Len(Encode(req))
RegionsLast(req, i) ==
  LET j == RegionPlace(req, i) IN
  /\ Encode(req)[i].type = "memory" <=> j > 0
  /\ j > 0 => Encode(req)[i].data = req.memory[j]

LEMMA EncodedRegions ==
  ASSUME NEW req \in [XrtKinds -> Seq(Nat)]
  PROVE  /\ Len(Encode(req)) \in Nat /\ Len(req.memory) \in Nat
         /\ Len(req.memory) <= Len(Encode(req))
         /\ \A i \in 1 .. Len(Encode(req)) : RegionsLast(req, i)
<1> DEFINE all == Len(Encode(req))
           m == Len(req.memory)
           first == Start(req, "memory")
<1>1. m \in Nat /\ first \in Nat /\ all = first + m
      /\ \A k \in XrtKinds : Len(req[k]) \in Nat
  <2>1. "memory" \in XrtKinds
    BY DEF XrtKinds
  <2> QED
    BY <2>1, EncodedEntries, StartIsNumber
<1>2. ASSUME NEW i \in 1 .. all
      PROVE  RegionsLast(req, i)
  <2>1. PICK k \in XrtKinds, j \in Nat : Comes(req, i, k, j)
    BY EncodedEntries
  <2>2. /\ Encode(req)[i].type = k /\ Encode(req)[i].data = req[k][j]
        /\ j \in 1 .. Len(req[k]) /\ i = Start(req, k) + j
    BY <2>1 DEF Comes
  <2>3. CASE k = "memory"
    <3>1. i = first + j /\ j > 0
      BY <1>1, <2>2, <2>3
    <3>2. RegionPlace(req, i) = j
      <4>1. i + m - all = j
        <5> HIDE DEF first, m, all
        <5> QED
          BY <1>1, <3>1
      <4> QED
        BY <4>1 DEF RegionPlace
    <3> QED
      BY <2>2, <2>3, <3>1, <3>2 DEF RegionsLast
  <2>4. CASE k # "memory"
    <3>1. Start(req, k) + Len(req[k]) <= first
      BY <1>1, <2>4 DEF Start, XrtKinds, ChannelKinds
    <3>2. Start(req, k) \in Nat /\ Len(req[k]) \in Nat
      BY <1>1 DEF Start, XrtKinds, ChannelKinds
    <3>3. i <= first
      <4> HIDE DEF first
      <4> QED
        BY <1>1, <2>2, <3>1, <3>2
    <3>4. ~ (RegionPlace(req, i) > 0)
      <4>1. ~ (i + m - all > 0)
        <5> HIDE DEF first, m, all
        <5> QED
          BY <1>1, <3>3
      <4> QED
        BY <4>1 DEF RegionPlace
    <3> QED
      BY <2>2, <2>4, <3>4 DEF RegionsLast
  <2> QED
    BY <2>3, <2>4
<1>3. all \in Nat /\ m <= all
  <2> HIDE DEF first, m, all
  <2> QED
    BY <1>1
<1> QED
  BY <1>1, <1>2, <1>3
-----------------------------------------------------------------------------
(* The request page: as long as it has a header the loader accepts, it     *)
(* holds the request that the monitor last encoded, whole.                 *)
Asked == \E req \in Requests : request = Encode(req)

PageHolds ==
  /\ header.total_num = Len(request)
  /\ \A i \in Slots : i < Len(request) => xrt_list[i] = request[i + 1]
  /\ Len(request) <= PageEntries

(* From the first entry that is read to the end of the container. *)
Served == {"populate", "revoke", "restore", "restore_mappings", "deprivilege",
           "load", "backup", "wipe", "container"}

PageInv ==
  /\ header.offset >= HeaderSize => Asked /\ PageHolds
  /\ pc \in Served => Asked
  /\ pc = "populate" => header.offset >= HeaderSize /\ at <= Len(request)

LEMMA PageStep ==
  ASSUME Slack = {0}, TypeOK, PageInv, [Next]_vars
  PROVE  PageInv'
<1> USE DEF allButPc, ctxtVars, pageVars, capVars, monitorVars, Goto, Served
<1>1. CASE UNCHANGED vars
  BY <1>1 DEF vars, PageInv, Asked, PageHolds
<1>2. ASSUME NEW req \in Requests, NEW slack \in Slack,
             PrepareXrtReqList(req, slack)
      PROVE  PageInv'
  <2>1. /\ request' = Encode(req) /\ header'.total_num = Len(Encode(req)) + slack
        /\ pc = "stopped" /\ pc' = "stopped" /\ Len(Encode(req)) <= PageEntries
        /\ \A i \in Slots :
             xrt_list'[i] = IF i < Len(Encode(req)) THEN Encode(req)[i + 1]
                                                    ELSE xrt_list[i]
    BY <1>2 DEF PrepareXrtReqList
  <2>2. slack = 0 /\ Encode(req) \in Seq(Entry)
    BY <1>2, RequestsAssumption
  <2>3. header'.total_num = Len(Encode(req))
    BY <2>1, <2>2
  <2>4. PageHolds'
    BY <2>1, <2>3 DEF PageHolds
  <2>5. Asked'
    BY <2>1 DEF Asked
  <2> QED
    BY <2>1, <2>4, <2>5 DEF PageInv
<1>3. CASE \/ PrivilegeTemplatePd \/ (\E d \in Defects : StartLoader(d)) \/ StopPd
           \/ CheckImages \/ ContextActivate
  BY <1>3 DEF PrivilegeTemplatePd, StartLoader, StopPd, Halted, CheckImages,
              ContextActivate, PageInv, Asked, PageHolds
<1>4. CASE ParseHeader
  <2>1. /\ request' = request /\ header' = header /\ xrt_list' = xrt_list /\ at' = 0
        /\ pc' \in {"returned", "populate"}
        /\ pc' = "populate" => ~ (header.offset < HeaderSize)
    BY <1>4 DEF ParseHeader
  <2>2. pc' = "populate" => header.offset >= HeaderSize
    BY <2>1 DEF TypeOK, HeaderSize
  <2>3. Len(request) \in Nat
    BY DEF TypeOK
  <2> QED
    BY <2>1, <2>2, <2>3 DEF PageInv, Asked, PageHolds
<1>5. CASE \/ (\E k \in ChannelKinds : PopulateChannel(k)) \/ PopulateMapping
  <2>1. /\ request' = request /\ header' = header /\ xrt_list' = xrt_list
        /\ pc = "populate" /\ pc' = "populate" /\ at' = at + 1
        /\ at < header.total_num
    BY <1>5 DEF PopulateChannel, PopulateMapping, InPopulate
  <2>2. at + 1 <= Len(request)
    BY <2>1 DEF PageInv, PageHolds, TypeOK
  <2> QED
    BY <2>1, <2>2 DEF PageInv, Asked, PageHolds
<1>6. CASE \/ (\E k \in XrtKinds : PopulateAssertFails(k)) \/ PopulateRejects
           \/ PopulateDone
  BY <1>6 DEF PopulateAssertFails, PopulateRejects, PopulateDone, InPopulate,
              PageInv, Asked, PageHolds
<1>7. CASE EnforcePola
  <2>1. /\ request' = request /\ header' = header /\ xrt_list' = xrt_list
        /\ pc \in Served /\ pc' # "populate"
    BY <1>7 DEF EnforcePola, RevokeFirstTime, RevokeCaps, RevokeFails,
                BeginRestore, RestoreKept, RestoreSkips, RestoreCopies,
                RestoreCopyFails, ToCopy, InRestore, RestoreNextKind,
                RestoreMappingKept, RestoreMappingMaps, RestoreMappingFails,
                InRestoreMappings, RestoreDone
  <2> QED
    BY <2>1 DEF PageInv, Asked, PageHolds
<1>8. CASE \/ Deprivilege \/ LoadPayloads \/ LoadPayloadsFails
           \/ TrampolineBackup \/ TrampolineAborts
  BY <1>8 DEF Deprivilege, LoadPayloads, LoadPayloadsFails, TrampolineBackup,
              TrampolineAborts, PageInv, Asked, PageHolds
<1>9. CASE TrampolineWipe
  BY <1>9 DEF TrampolineWipe, ZeroHeader, HeaderSize, PageInv, Asked
<1> QED
  BY <1>1, <1>2, <1>3, <1>4, <1>5, <1>6, <1>7, <1>8, <1>9
  DEF Next, MonitorNext, LoaderNext, MonitorAnswers, Populate

LEMMA PageInit == Init => PageInv
BY DEF Init, PageInv, ZeroHeader, HeaderSize, Served

(* The entry that the loader is at is one of the request's. *)
LEMMA EntryRead ==
  ASSUME TypeOK, PageInv, pc = "populate", at < header.total_num
  PROVE  /\ at \in Nat /\ Len(request) \in Nat
         /\ at + 1 \in 1 .. Len(request)
         /\ at \in Slots /\ xrt_list[at] = request[at + 1]
<1>1. at \in Nat /\ Len(request) \in Nat /\ at < Len(request)
      /\ Len(request) <= PageEntries
  BY DEF TypeOK, PageInv, PageHolds
<1>2. at \in Slots
  BY <1>1, BoundsAssumption DEF Slots
<1> QED
  BY <1>1, <1>2 DEF PageInv, PageHolds
-----------------------------------------------------------------------------
(* What the states of the channels say of the request.  Between attempts   *)
(* every right is USED or UNSET; the population sets apart those that the  *)
(* entries read so far list; revocation leaves no other right in use; and  *)
(* the restoration makes them, one after the other, USED.  A right that is *)
(* only ALLOWED is not held, so that its slot is vacant.  None of this     *)
(* would be kept by an attempt that failed half way, so the invariant also *)
(* says why none does: the grant is there, and each entry finds room.      *)

(* The channels of a kind among the first n entries. *)
ReadOf(k, n) == {request[i].data : i \in {j \in 1 .. n : request[j].type = k}}

(* The count of switches that the next attempt starts from. *)
Switches == IF wiped THEN saved.switch_count ELSE switch_count

(* What is left of the request is not more than what fits in the arrays. *)
Room ==
  \A i \in at + 1 .. Len(request) :
    request[i].type = "memory" => mappings.count + Len(request) - i < MaxChannels

Granting == {"check", "activate", "parse", "populate", "revoke", "restore",
             "restore_mappings", "deprivilege"}
Restored == {"restore_mappings", "deprivilege", "load", "backup", "wipe", "container"}

Apart(k, c) == States[k][c] \in {"ALLOWED", "KEEP"}

RightInv(k, c) ==
  /\ States[k][c] = "ALLOWED" => c \notin held[k]
  /\ Switches = 0 => States[k][c] \notin {"USED", "KEEP"}
  /\ pc = "populate" => (Apart(k, c) <=> c \in ReadOf(k, at))
  /\ pc = "revoke" => (Apart(k, c) <=> c \in Requested(k))
  /\ pc = "restore" /\ ~ Passed(k, c) =>
       (Apart(k, c) <=> c \in Requested(k)) /\ States[k][c] # "USED"
  /\ (pc = "restore" /\ Passed(k, c)) \/ pc \in Restored =>
       (States[k][c] = "USED" <=> c \in Requested(k))
  /\ pc \notin {"populate", "revoke", "restore"} => Settled(k, c)

GrantInv ==
  /\ pc \in Granting => grant
  /\ pc = "wipe" => saved.switch_count = switch_count
  /\ pc \in Restored \cup {"restore"} => Switches # 0
  /\ pc = "parse" => mappings.count = 0
  /\ pc = "populate" => Room
  /\ \A k \in CapKinds, c \in Channels : RightInv(k, c)

(* A step that leaves states, capabilities and request alone, and goes to  *)
(* a point of which the invariant says no more than of where it was.       *)
LEMMA GrantFrame ==
  ASSUME TypeOK, TrackingInv, GrantInv,
         UNCHANGED <<allowed, switch_count, saved, wiped, held, grant, request>>,
         pc \notin {"populate", "revoke", "restore"},
         pc' \notin {"populate", "revoke", "restore", "wipe", "parse"},
         pc' \in Granting => grant,
         pc' \in Restored => pc \in Restored
  PROVE  GrantInv'
<1>1. States' = States /\ Switches' = Switches
  BY DEF States, Switches
<1>2. ASSUME NEW k \in CapKinds, NEW c \in Channels
      PROVE  RightInv(k, c)'
  <2>1. RightInv(k, c)
    BY DEF GrantInv
  <2> QED
    BY <1>1, <2>1 DEF RightInv, Settled, Requested
<1> QED
  BY <1>1, <1>2 DEF GrantInv

LEMMA GrantMonitor ==
  ASSUME DiligentMonitor, TypeOK, TrackingInv, GrantInv, MonitorNext
  PROVE  GrantInv'
<1> USE DEF allButPc, ctxtVars, pageVars, capVars, monitorVars, Goto
<1>1. /\ pc' \in {"stopped", "check"} /\ held' = held
      /\ pc' = "check" => grant'
      /\ pc \in {"stopped", "container"} \cup Halted
  BY DEF MonitorNext, PrepareXrtReqList, PrivilegeTemplatePd, StartLoader, StopPd,
         DiligentMonitor
<1>2. States' = States /\ Switches' = Switches
  <2>1. ASSUME NEW d \in Defects, StartLoader(d)
        PROVE  States' = States /\ Switches' = Switches
    BY <2>1 DEF StartLoader, Context, States, Switches, DiligentMonitor
  <2>2. CASE \/ \E req \in Requests, slack \in Slack : PrepareXrtReqList(req, slack)
             \/ PrivilegeTemplatePd \/ StopPd
    <3>1. UNCHANGED <<allowed, switch_count, saved, wiped>>
      BY <2>2 DEF PrepareXrtReqList, PrivilegeTemplatePd, StopPd
    <3> QED
      BY <3>1 DEF States, Switches
  <2> QED
    BY <2>1, <2>2 DEF MonitorNext
<1>3. ASSUME NEW k \in CapKinds, NEW c \in Channels
      PROVE  RightInv(k, c)'
  <2>1. RightInv(k, c)
    BY DEF GrantInv
  <2> QED
    BY <1>1, <1>2, <2>1 DEF RightInv, Settled, Halted, Restored
<1> QED
  BY <1>1, <1>3 DEF GrantInv, Granting, Restored

LEMMA ReadNothing == \A k : ReadOf(k, 0) = {}
BY DEF ReadOf

LEMMA ReadOneMore ==
  ASSUME NEW n \in Nat, NEW k
  PROVE  ReadOf(k, n + 1) = IF request[n + 1].type = k
                            THEN ReadOf(k, n) \cup {request[n + 1].data}
                            ELSE ReadOf(k, n)
<1>1. \A j \in 1 .. n + 1 : j \in 1 .. n \/ j = n + 1
  OBVIOUS
<1>2. 1 .. n \subseteq 1 .. n + 1 /\ n + 1 \in 1 .. n + 1
  OBVIOUS
<1> QED
  BY <1>1, <1>2 DEF ReadOf

LEMMA ReadAll ==
  ASSUME TypeOK, NEW k
  PROVE  ReadOf(k, Len(request)) = Requested(k)
<1>1. DOMAIN request = 1 .. Len(request)
  BY DEF TypeOK
<1> QED
  BY <1>1 DEF ReadOf, Requested

LEMMA RequestedAreChannels ==
  ASSUME DiligentMonitor, TypeOK, Asked, NEW k \in CapKinds
  PROVE  Requested(k) \subseteq Channels
<1>1. PICK req \in Requests : request = Encode(req)
  BY DEF Asked
<1>2. \A i \in 1 .. Len(request) : EntryPasses(req, i)
  BY <1>1, EncodedWell DEF DiligentMonitor
<1>3. DOMAIN request = 1 .. Len(request) /\ k # "memory"
  BY DEF TypeOK, CapKinds
<1> QED
  BY <1>1, <1>2, <1>3 DEF EntryPasses, Requested

(* The entry that is read next is sound, and none before it is the same. *)
LEMMA EntrySound ==
  ASSUME DiligentMonitor, TypeOK, PageInv, TrackingInv, GrantInv,
         pc = "populate", at < header.total_num
  PROVE  /\ xrt_list[at].type \in XrtKinds
         /\ Acceptable(xrt_list[at])
         /\ xrt_list[at].type \in CapKinds =>
              xrt_list[at].data \notin ReadOf(xrt_list[at].type, at)
<1> DEFINE e == xrt_list[at]
<1>1. /\ at \in Nat /\ Len(request) \in Nat /\ at + 1 \in 1 .. Len(request)
      /\ e = request[at + 1]
  BY EntryRead
<1>2. PICK req \in Requests : request = Encode(req)
  BY DEF PageInv, Served, Asked
<1>3. WellFormed(req)
  BY DEF DiligentMonitor
<1>4. /\ e.type \in XrtKinds /\ Delegated(Resources, e.type, e.data)
      /\ e.type # "memory" => e.data \in Channels
  BY <1>1, <1>2, <1>3, EncodedWell DEF EntryPasses
<1>5. ASSUME e.type = "memory"
      PROVE  mappings.count < MaxChannels
  <2>1. mappings.count + Len(request) - (at + 1) < MaxChannels
    <3>1. Room
      BY DEF GrantInv
    <3>2. at + 1 \in at + 1 .. Len(request)
      BY <1>1
    <3> QED
      BY <1>1, <1>5, <3>1, <3>2 DEF Room
  <2>2. mappings.count \in Nat
    BY DEF TypeOK, Mappings
  <2> QED
    BY <1>1, <2>1, <2>2, MaxChannelsAssumption
<1>6. metadata = Resources
  BY DEF TrackingInv, Loading
<1>7. Acceptable(e)
  <2> HIDE DEF e
  <2> QED
    BY <1>4, <1>5, <1>6 DEF Acceptable
<1>8. ASSUME e.type \in CapKinds, e.data \in ReadOf(e.type, at)
      PROVE  FALSE
  <2>1. PICK j \in 1 .. at : request[j].type = e.type /\ request[j].data = e.data
    <3> HIDE DEF e
    <3> QED
      BY <1>8 DEF ReadOf
  <2>2. j \in 1 .. Len(request)
    BY <1>1
  <2>3. request[j] \in Entry /\ request[at + 1] \in Entry
    BY <1>1, <2>2 DEF TypeOK
  <2>4. request[j] = request[at + 1]
    BY <1>1, <2>1, <2>3 DEF Entry
  <2>5. EntriesDiffer(req, j, at + 1)
    BY <1>1, <1>2, <1>3, <2>2, EncodedWell
  <2>6. j = at + 1
    BY <1>1, <1>2, <1>8, <2>4, <2>5 DEF EntriesDiffer
  <2> QED
    BY <1>1, <2>1, <2>6
<1> QED
  BY <1>4, <1>7, <1>8

LEMMA GrantPopulate ==
  ASSUME DiligentMonitor, TypeOK, TrackingInv, PageInv, GrantInv,
         CheckImages \/ ContextActivate \/ ParseHeader \/ Populate
  PROVE  GrantInv'
<1> USE DEF allButPc, ctxtVars, pageVars, capVars, monitorVars, Goto
<1>1. CASE CheckImages
  BY <1>1, GrantFrame DEF CheckImages, GrantInv, Granting, Restored
<1>2. CASE ContextActivate
  <2>1. /\ pc = "activate" /\ pc' = "parse" /\ mappings'.count = 0 /\ grant' = grant
        /\ held' = held
    BY <1>2 DEF ContextActivate, TypeOK, Mappings
  <2>2. States' = States /\ Switches' = Switches
    BY <1>2 DEF ContextActivate, States, Switches
  <2>3. ASSUME NEW k \in CapKinds, NEW c \in Channels
        PROVE  RightInv(k, c)'
    <3>1. RightInv(k, c)
      BY DEF GrantInv
    <3> QED
      BY <2>1, <2>2, <3>1 DEF RightInv, Settled, Restored
  <2> QED
    BY <2>1, <2>3 DEF GrantInv, Granting, Restored
<1>3. CASE ParseHeader
  <2>1. /\ pc = "parse" /\ pc' \in {"returned", "populate"} /\ at' = 0
        /\ UNCHANGED <<grant, held, request, mappings>>
    BY <1>3 DEF ParseHeader
  <2>2. States' = States /\ Switches' = Switches
    BY <1>3 DEF ParseHeader, States, Switches
  <2>3. ASSUME NEW k \in CapKinds, NEW c \in Channels
        PROVE  RightInv(k, c)'
    <3>1. RightInv(k, c)
      BY DEF GrantInv
    <3>2. ReadOf(k, at)' = {}
      BY <2>1 DEF ReadOf
    <3> QED
      BY <2>1, <2>2, <3>1, <3>2 DEF RightInv, Settled, Apart, Restored
  <2>4. ASSUME pc' = "populate"
        PROVE  Room'
    <3>1. header.offset >= HeaderSize
      BY <1>3, <2>4 DEF ParseHeader, TypeOK, HeaderSize
    <3>2. PICK req \in Requests : request = Encode(req)
      BY <3>1 DEF PageInv, Asked
    <3>3. \A i \in 1 .. Len(request) : EntryPasses(req, i)
      BY <3>2, EncodedWell DEF DiligentMonitor
    <3>4. mappings.count = 0 /\ Len(request) \in Nat
      BY <2>1 DEF GrantInv, TypeOK
    <3>5. \A i \in 1 .. Len(request) :
            request[i].type = "memory" => 0 + Len(request) - i < MaxChannels
      BY <3>2, <3>3, <3>4 DEF EntryPasses
    <3> QED
      BY <2>1, <3>4, <3>5 DEF Room
  <2> QED
    BY <2>1, <2>3, <2>4 DEF GrantInv, Granting, Restored
<1>4. ASSUME NEW k \in ChannelKinds, PopulateChannel(k)
      PROVE  GrantInv'
  <2> DEFINE c == xrt_list[at].data
  <2>1. /\ pc = "populate" /\ pc' = "populate" /\ at' = at + 1
        /\ at < header.total_num /\ xrt_list[at].type = k
        /\ allowed' = [allowed EXCEPT ![k][c] = Allow(@)]
        /\ UNCHANGED <<grant, held, request, mappings>>
    BY <1>4 DEF PopulateChannel, InPopulate
  <2>2. /\ at \in Nat /\ Len(request) \in Nat /\ at + 1 \in 1 .. Len(request)
        /\ request[at + 1].type = k /\ request[at + 1].data = c
    BY <2>1, EntryRead
  <2>3. c \in Channels /\ (k \in CapKinds => c \notin ReadOf(k, at))
    BY <2>1, EntrySound DEF Acceptable, ChannelKinds
  <2>4. States = allowed /\ States' = allowed' /\ Switches' = Switches
    BY <1>4, <2>1 DEF PopulateChannel, States, Switches, TrackingInv
  <2>5. ASSUME NEW kk \in CapKinds, NEW cc \in Channels
        PROVE  RightInv(kk, cc)'
    <3>1. RightInv(kk, cc)
      BY DEF GrantInv
    <3>2. allowed'[kk][cc] = IF kk = k /\ cc = c THEN Allow(allowed[kk][cc])
                                                ELSE allowed[kk][cc]
      BY <2>1, <2>3 DEF TypeOK, ChannelStates, CapKinds, ChannelKinds
    <3>3. ReadOf(kk, at)' = IF kk = k THEN ReadOf(kk, at) \cup {c} ELSE ReadOf(kk, at)
      <4>1. ReadOf(kk, at)' = ReadOf(kk, at + 1)
        BY <2>1 DEF ReadOf
      <4> HIDE DEF c
      <4> QED
        BY <2>2, <4>1, ReadOneMore
    <3>4. CASE kk = k /\ cc = c
      <4>1. allowed[kk][cc] \in {"UNSET", "USED"}
        <5>1. allowed[kk][cc] \in XrtState
          BY DEF TypeOK, ChannelStates, CapKinds, ChannelKinds
        <5>2. ~ Apart(kk, cc)
          BY <2>1, <2>3, <3>1, <3>4 DEF RightInv
        <5> QED
          BY <2>4, <5>1, <5>2 DEF Apart, XrtState
      <4>2. allowed'[kk][cc] = IF allowed[kk][cc] = "USED" THEN "KEEP" ELSE "ALLOWED"
        BY <3>2, <3>4 DEF Allow
      <4>3. allowed[kk][cc] = "UNSET" => cc \notin held[kk]
        BY <2>4 DEF TrackingInv, ContextTracksCaps
      <4>4. cc \in ReadOf(kk, at)'
        BY <3>3, <3>4
      <4> HIDE DEF c
      <4> QED
        BY <2>1, <2>4, <3>1, <4>1, <4>2, <4>3, <4>4
        DEF RightInv, Apart, Restored
    <3>5. CASE ~ (kk = k /\ cc = c)
      <4>1. allowed'[kk][cc] = allowed[kk][cc]
        BY <3>2, <3>5
      <4>2. cc \in ReadOf(kk, at)' <=> cc \in ReadOf(kk, at)
        BY <3>3, <3>5
      <4> HIDE DEF c
      <4> QED
        BY <2>1, <2>4, <3>1, <4>1, <4>2 DEF RightInv, Apart, Restored
    <3> QED
      BY <3>4, <3>5
  <2>6. Room'
    BY <2>1, <2>2 DEF GrantInv, Room
  <2> HIDE DEF c
  <2> QED
    BY <2>1, <2>5, <2>6 DEF GrantInv, Granting, Restored
<1>5. CASE PopulateMapping
  <2>1. /\ pc = "populate" /\ pc' = "populate" /\ at' = at + 1
        /\ at < header.total_num /\ xrt_list[at].type = "memory"
        /\ mappings'.count = mappings.count + 1
        /\ UNCHANGED <<grant, held, request>>
    BY <1>5 DEF PopulateMapping, InPopulate
  <2>2. /\ at \in Nat /\ Len(request) \in Nat /\ at + 1 \in 1 .. Len(request)
        /\ request[at + 1].type = "memory"
    BY <2>1, EntryRead
  <2>3. States' = States /\ Switches' = Switches
    BY <1>5 DEF PopulateMapping, States, Switches
  <2>4. ASSUME NEW k \in CapKinds, NEW c \in Channels
        PROVE  RightInv(k, c)'
    <3>1. RightInv(k, c)
      BY DEF GrantInv
    <3>2. ReadOf(k, at)' = ReadOf(k, at)
      <4>1. ReadOf(k, at)' = ReadOf(k, at + 1)
        BY <2>1 DEF ReadOf
      <4>2. k # "memory"
        BY DEF CapKinds
      <4> QED
        BY <2>2, <4>1, <4>2, ReadOneMore
    <3> QED
      BY <2>1, <2>3, <3>1, <3>2 DEF RightInv, Apart, Restored
  <2>5. Room'
    <3>1. mappings.count \in Nat
      BY DEF TypeOK, Mappings
    <3>2. ASSUME NEW i \in at + 2 .. Len(request), request[i].type = "memory"
          PROVE  mappings.count + 1 + Len(request) - i < MaxChannels
      <4> DEFINE last == Len(request)
                 count == mappings.count
      <4>1. count + last - (at + 1) < MaxChannels
        <5>1. Room
          BY <2>1 DEF GrantInv
        <5>2. at + 1 \in at + 1 .. Len(request)
          BY <2>2
        <5> QED
          BY <2>2, <5>1, <5>2 DEF Room
      <4>2. /\ count \in Nat /\ last \in Nat /\ at \in Nat
            /\ i \in at + 2 .. last
        BY <2>2, <3>1, <3>2
      <4> HIDE DEF last, count
      <4>3. i \in Int /\ at + 2 <= i
        BY <4>2
      <4>4. count + 1 + last - i < MaxChannels
        BY <4>1, <4>2, <4>3, MaxChannelsAssumption
      <4> QED
        BY <4>4 DEF last, count
    <3> QED
      BY <2>1, <2>2, <3>2 DEF Room
  <2> QED
    BY <2>1, <2>4, <2>5 DEF GrantInv, Granting, Restored
<1>6. CASE (\E k \in XrtKinds : PopulateAssertFails(k)) \/ PopulateRejects
  <2>1. pc = "populate" /\ at < header.total_num
        /\ (~ Acceptable(xrt_list[at]) \/ xrt_list[at].type = "none")
    BY <1>6 DEF PopulateAssertFails, PopulateRejects, InPopulate
  <2> QED
    BY <2>1, EntrySound DEF XrtKinds, ChannelKinds
<1>7. CASE PopulateDone
  <2>1. /\ pc = "populate" /\ pc' = "revoke" /\ at >= header.total_num
        /\ UNCHANGED <<grant, held, request, at>>
    BY <1>7 DEF PopulateDone
  <2>2. States' = States /\ Switches' = Switches
    BY <1>7 DEF PopulateDone, States, Switches
  <2>3. at = Len(request)
    BY <2>1 DEF PageInv, PageHolds, TypeOK
  <2>4. ASSUME NEW k \in CapKinds, NEW c \in Channels
        PROVE  RightInv(k, c)'
    <3>1. RightInv(k, c)
      BY DEF GrantInv
    <3>2. ReadOf(k, at) = Requested(k) /\ Requested(k)' = Requested(k)
      BY <2>1, <2>3, ReadAll DEF Requested
    <3> QED
      BY <2>1, <2>2, <3>1, <3>2 DEF RightInv, Apart, Restored
  <2> QED
    BY <2>1, <2>4 DEF GrantInv, Granting, Restored
<1> QED
  BY <1>1, <1>2, <1>3, <1>4, <1>5, <1>6, <1>7 DEF Populate

(* One element of mktxlo_restore_caps: what was allowed or kept becomes    *)
(* USED, what was not stays UNSET, and the loop goes on.                   *)
LEMMA RestoreElement ==
  ASSUME TypeOK, TrackingInv, GrantInv, InRestore,
         pc' = "restore", kind' = kind, at' = at + 1,
         UNCHANGED <<switch_count, mappings, saved, wiped, grant, request>>,
         \A k \in CapKinds, c \in Channels :
           IF k = kind /\ c = at
           THEN allowed'[k][c] = IF Apart(k, c) THEN "USED" ELSE "UNSET"
           ELSE allowed'[k][c] = allowed[k][c] /\ (c \in held'[k] <=> c \in held[k])
  PROVE  GrantInv'
<1>1. pc = "restore" /\ kind \in CapKinds /\ at \in Channels /\ ~ wiped /\ ~ wiped'
  BY MaxChannelsAssumption DEF InRestore, TypeOK, Channels, TrackingInv
<1>2. States = allowed /\ States' = allowed' /\ Switches' = Switches
  BY <1>1 DEF States, Switches
<1>3. ~ Passed(kind, at)
  BY <1>1 DEF Passed, Channels, CapKinds
<1>4. ASSUME NEW k \in CapKinds, NEW c \in Channels
      PROVE  Passed(k, c)' <=> Passed(k, c) \/ (k = kind /\ c = at)
  BY <1>1 DEF Passed, Channels
<1>5. ASSUME NEW k \in CapKinds, NEW c \in Channels
      PROVE  RightInv(k, c)'
  <2>1. RightInv(k, c) /\ Switches # 0 /\ Requested(k)' = Requested(k)
    BY <1>1 DEF GrantInv, Requested
  <2>2. CASE k = kind /\ c = at
    <3>1. Apart(k, c) <=> c \in Requested(k)
      BY <1>1, <1>3, <2>1, <2>2 DEF RightInv
    <3>2. Passed(k, c)'
      BY <1>4, <2>2
    <3>3. States'[k][c] = IF Apart(k, c) THEN "USED" ELSE "UNSET"
      BY <1>2, <2>2
    <3> QED
      BY <1>2, <2>1, <3>1, <3>2, <3>3 DEF RightInv, Apart, Restored
  <2>3. CASE ~ (k = kind /\ c = at)
    <3>1. Passed(k, c)' <=> Passed(k, c)
      BY <1>4, <2>3
    <3>2. allowed'[k][c] = allowed[k][c] /\ (c \in held'[k] <=> c \in held[k])
      BY <2>3
    <3> QED
      BY <1>1, <1>2, <2>1, <3>1, <3>2 DEF RightInv, Apart, Restored
  <2> QED
    BY <2>2, <2>3
<1> QED
  BY <1>1, <1>2, <1>5 DEF GrantInv, Granting, Restored

LEMMA GrantRevoke ==
  ASSUME TypeOK, TrackingInv, GrantInv,
         RevokeFirstTime \/ RevokeCaps \/ RevokeFails
  PROVE  GrantInv'
<1> USE DEF allButPc, ctxtVars, pageVars, capVars, monitorVars, Goto
<1>1. pc = "revoke" /\ grant /\ ~ wiped /\ metadata = Resources
  BY DEF RevokeFirstTime, RevokeCaps, BeginRestore, RevokeFails, GrantInv, Granting,
         TrackingInv, Loading
<1>2. CASE RevokeFirstTime
  <2>1. /\ switch_count = 0 /\ switch_count' = 1 /\ pc' = "restore" /\ kind' = "ntfn"
        /\ at' = 0
        /\ UNCHANGED <<allowed, held, grant, request, wiped>>
    BY <1>2 DEF RevokeFirstTime, BeginRestore
  <2>2. States' = States /\ Switches = 0 /\ Switches' = 1
    BY <1>1, <2>1 DEF States, Switches
  <2>3. ASSUME NEW k \in CapKinds, NEW c \in Channels
        PROVE  RightInv(k, c)'
    <3>1. RightInv(k, c) /\ Requested(k)' = Requested(k)
      BY <2>1 DEF GrantInv, Requested
    <3>2. ~ Passed(k, c)'
      BY <2>1 DEF Passed, Channels
    <3> QED
      BY <1>1, <2>1, <2>2, <3>1, <3>2 DEF RightInv, Apart, Restored
  <2> QED
    BY <1>1, <2>1, <2>2, <2>3 DEF GrantInv, Restored
<1>3. CASE RevokeCaps
  <2>1. /\ switch_count # 0 /\ pc' = "restore" /\ kind' = "ntfn" /\ at' = 0
        /\ UNCHANGED <<switch_count, grant, request, wiped>>
    BY <1>3 DEF RevokeCaps, BeginRestore
  <2>2. States = allowed /\ States' = allowed' /\ Switches' = Switches /\ Switches # 0
    BY <1>1, <2>1 DEF States, Switches
  <2>3. ASSUME NEW k \in CapKinds, NEW c \in Channels
        PROVE  RightInv(k, c)'
    <3>1. RightInv(k, c) /\ Requested(k)' = Requested(k)
      BY <2>1 DEF GrantInv, Requested
    <3>2. ~ Passed(k, c)'
      BY <2>1 DEF Passed, Channels
    <3>3. /\ allowed'[k][c] = IF c \in Revocable(k) THEN "UNSET" ELSE allowed[k][c]
          /\ c \in held'[k] => c \in held[k]
      BY <1>3 DEF RevokeCaps, Revoked, CapKinds, ChannelKinds
    <3>4. c \in Revocable(k) <=> allowed[k][c] = "USED"
      BY <1>1, <2>2 DEF Revocable, TrackingInv
    <3> QED
      BY <1>1, <2>1, <2>2, <3>1, <3>2, <3>3, <3>4 DEF RightInv, Apart, Restored
  <2> QED
    BY <1>1, <2>1, <2>2, <2>3 DEF GrantInv, Restored
<1>4. ~ RevokeFails
  BY <1>1 DEF RevokeFails
<1> QED
  BY <1>2, <1>3, <1>4

LEMMA GrantEnforcePola ==
  ASSUME TypeOK, TrackingInv, GrantInv, EnforcePola
  PROVE  GrantInv'
<1> USE DEF allButPc, ctxtVars, pageVars, capVars, monitorVars, Goto
<1>1. CASE RestoreKept
  <2>1. kind \in CapKinds /\ at \in Channels /\ pc = "restore" /\ ~ wiped
    BY <1>1, MaxChannelsAssumption
    DEF RestoreKept, InRestore, TypeOK, Channels, TrackingInv
  <2>2. ASSUME NEW k \in CapKinds, NEW c \in Channels
        PROVE  allowed'[k][c] = IF k = kind /\ c = at THEN "USED" ELSE allowed[k][c]
    BY <1>1, <2>1 DEF RestoreKept, TypeOK, ChannelStates, CapKinds, ChannelKinds
  <2>3. Apart(kind, at)
    BY <1>1, <2>1 DEF RestoreKept, Apart, States
  <2> QED
    BY <1>1, <2>1, <2>2, <2>3, RestoreElement DEF RestoreKept, InRestore
<1>2. CASE RestoreSkips
  <2>1. kind \in CapKinds /\ at \in Channels /\ pc = "restore" /\ ~ wiped
        /\ metadata = Resources
    BY <1>2, MaxChannelsAssumption
    DEF RestoreSkips, InRestore, TypeOK, Channels, TrackingInv, Loading
  <2>2. allowed[kind][at] = "UNSET" /\ ~ Apart(kind, at)
    BY <1>2, <2>1 DEF RestoreSkips, TrackingInv, States, Apart
  <2> QED
    BY <1>2, <2>1, <2>2, RestoreElement DEF RestoreSkips, InRestore
<1>3. CASE RestoreCopies
  <2>1. kind \in CapKinds /\ at \in Channels /\ pc = "restore" /\ ~ wiped
    BY <1>3, MaxChannelsAssumption
    DEF RestoreCopies, ToCopy, InRestore, TypeOK, Channels, TrackingInv
  <2>2. ASSUME NEW k \in CapKinds, NEW c \in Channels
        PROVE  /\ allowed'[k][c] = IF k = kind /\ c = at THEN "USED"
                                                         ELSE allowed[k][c]
               /\ c \in held'[k] <=> c \in held[k] \/ (k = kind /\ c = at)
    BY <1>3, <2>1 DEF RestoreCopies, TypeOK, ChannelStates, CapKinds, ChannelKinds
  <2>3. Apart(kind, at)
    <3>1. RightInv(kind, at) /\ ~ Passed(kind, at)
      BY <2>1 DEF GrantInv, Passed, Channels, CapKinds
    <3> QED
      BY <1>3, <2>1, <3>1 DEF RestoreCopies, ToCopy, Apart, States, RightInv
  <2> QED
    BY <1>3, <2>1, <2>2, <2>3, RestoreElement DEF RestoreCopies, ToCopy, InRestore
<1>4. CASE RestoreCopyFails
  <2>1. kind \in CapKinds /\ at \in Channels /\ pc = "restore" /\ ~ wiped /\ grant
    BY <1>4, MaxChannelsAssumption
    DEF RestoreCopyFails, ToCopy, InRestore, TypeOK, Channels, TrackingInv, GrantInv,
        Granting
  <2>2. RightInv(kind, at) /\ ~ Passed(kind, at)
    BY <2>1 DEF GrantInv, Passed, Channels, CapKinds
  <2> QED
    BY <1>4, <2>1, <2>2 DEF RestoreCopyFails, ToCopy, States, RightInv
<1>5. CASE RestoreNextKind
  <2>1. /\ pc = "restore" /\ kind \in CapKinds /\ at \in Nat /\ at >= MaxChannels
        /\ at' = 0 /\ kind' = NextKind(kind)
        /\ pc' = IF kind = "irq" THEN "restore_mappings" ELSE "restore"
        /\ UNCHANGED <<held, grant, request>>
    BY <1>5 DEF RestoreNextKind, TypeOK
  <2>2. States' = States /\ Switches' = Switches
    BY <1>5 DEF RestoreNextKind, States, Switches
  <2>3. ASSUME NEW k \in CapKinds, NEW c \in Channels
        PROVE  /\ kind # "irq" => (Passed(k, c)' <=> Passed(k, c))
               /\ kind = "irq" => Passed(k, c)
    BY <2>1, MaxChannelsAssumption DEF NextKind, Passed, Channels, CapKinds
  <2>4. ASSUME NEW k \in CapKinds, NEW c \in Channels
        PROVE  RightInv(k, c)'
    <3>1. RightInv(k, c) /\ Requested(k)' = Requested(k)
      BY <2>1 DEF GrantInv, Requested
    <3>2. kind = "irq" => Settled(k, c)
      BY <2>1, <2>3 DEF TrackingInv
    <3> QED
      BY <2>1, <2>2, <2>3, <3>1, <3>2 DEF RightInv, Apart, Settled, Restored
  <2> QED
    BY <2>1, <2>2, <2>4 DEF GrantInv, Granting, Restored
<1>6. CASE RestoreMappingKept \/ RestoreMappingMaps \/ RestoreDone
  BY <1>6, GrantFrame
  DEF RestoreMappingKept, RestoreMappingMaps, InRestoreMappings, RestoreDone,
      GrantInv, Granting, Restored
<1>7. CASE RestoreMappingFails
  BY <1>7 DEF RestoreMappingFails, InRestoreMappings, GrantInv, Granting
<1> QED
  BY <1>1, <1>2, <1>3, <1>4, <1>5, <1>6, <1>7, GrantRevoke DEF EnforcePola

LEMMA GrantEnter ==
  ASSUME TypeOK, TrackingInv, GrantInv,
         \/ Deprivilege \/ LoadPayloads \/ LoadPayloadsFails
         \/ TrampolineBackup \/ TrampolineAborts \/ TrampolineWipe
  PROVE  GrantInv'
<1> USE DEF allButPc, ctxtVars, pageVars, capVars, monitorVars, Goto
<1>1. /\ pc \in {"deprivilege", "load", "backup", "wipe"}
      /\ pc' \in {"load", "backup", "wipe", "container"} \cup Halted
      /\ held' = held /\ request' = request
  BY DEF Deprivilege, LoadPayloads, LoadPayloadsFails, TrampolineBackup,
         TrampolineAborts, TrampolineWipe, Halted
<1>2. /\ States' = States /\ Switches' = Switches
      /\ pc' = "wipe" => saved'.switch_count = switch_count'
  <2>1. CASE Deprivilege \/ LoadPayloads \/ LoadPayloadsFails \/ TrampolineAborts
    BY <2>1 DEF Deprivilege, LoadPayloads, LoadPayloadsFails, TrampolineAborts,
                States, Switches
  <2>2. CASE TrampolineBackup
    BY <2>2 DEF TrampolineBackup, Context, States, Switches, TrackingInv
  <2>3. CASE TrampolineWipe
    BY <2>3 DEF TrampolineWipe, States, Switches, TrackingInv, GrantInv
  <2> QED
    BY <2>1, <2>2, <2>3
<1>3. ASSUME NEW k \in CapKinds, NEW c \in Channels
      PROVE  RightInv(k, c)'
  <2>1. RightInv(k, c) /\ Requested(k)' = Requested(k)
    BY <1>1 DEF GrantInv, Requested
  <2> QED
    BY <1>1, <1>2, <2>1 DEF RightInv, Settled, Restored, Halted
<1> QED
  BY <1>1, <1>2, <1>3 DEF GrantInv, Granting, Restored, Halted

LEMMA GrantStep ==
  ASSUME DiligentMonitor, TypeOK, TrackingInv, PageInv, GrantInv, [Next]_vars
  PROVE  GrantInv'
<1>1. CASE UNCHANGED vars
  BY <1>1
  DEF vars, allButPc, ctxtVars, pageVars, capVars, monitorVars, GrantInv, RightInv,
      Room, ReadOf, Requested, Apart, Settled, Passed, States, Switches
<1> QED
  BY <1>1, GrantMonitor, GrantPopulate, GrantEnforcePola, GrantEnter
  DEF Next, LoaderNext, MonitorAnswers

LEMMA GrantInit == Init => GrantInv
BY DEF Init, GrantInv, RightInv, Settled, States, Switches, ZeroAllowed, CapKinds,
       ChannelKinds, Granting, Restored

LEMMA GrantHolds ==
  ASSUME DiligentMonitor
  PROVE  Spec => [](TypeOK /\ TrackingInv /\ PageInv /\ GrantInv)
<1>1. TypeOK /\ TrackingInv /\ [Next]_vars => TrackingInv'
  BY TrackingStep DEF DiligentMonitor
<1>2. TypeOK /\ PageInv /\ [Next]_vars => PageInv'
  BY PageStep DEF DiligentMonitor
<1>3. TypeOK /\ TrackingInv /\ PageInv /\ GrantInv /\ [Next]_vars => GrantInv'
  BY GrantStep
<1> QED
  BY <1>1, <1>2, <1>3, TrackingInit, PageInit, GrantInit, TypeCorrect, PTL DEF Spec

(* Once the rights are restored, the PD holds what was asked for. *)
LEMMA HeldIsRequested ==
  ASSUME DiligentMonitor, TypeOK, TrackingInv, PageInv, GrantInv, pc \in Restored,
         NEW k \in CapKinds
  PROVE  held[k] = Requested(k)
<1>1. held[k] \subseteq Channels
  BY DEF TypeOK
<1>2. Requested(k) \subseteq Channels
  BY RequestedAreChannels DEF PageInv, Restored, Served
<1>3. ASSUME NEW c \in Channels
      PROVE  c \in held[k] <=> c \in Requested(k)
  <2>1. RightInv(k, c)
    BY DEF GrantInv
  <2>2. /\ States[k][c] = "USED" <=> c \in Requested(k)
        /\ States[k][c] \in {"USED", "UNSET"}
    BY <2>1 DEF RightInv, Restored, Settled
  <2> QED
    BY <2>2 DEF TrackingInv, ContextTracksCaps
<1> QED
  BY <1>1, <1>2, <1>3

(* A container runs with the channels that its request lists, no more and  *)
(* no fewer, after every sequence of containers, refused requests and      *)
(* failed attempts, under a monitor that keeps to DiligentMonitor.         *)
THEOREM ContainersGetWhatWasAsked ==
  ASSUME DiligentMonitor
  PROVE  Spec => []GrantedExactly
<1>1. TypeOK /\ TrackingInv /\ PageInv /\ GrantInv => GrantedExactly
  BY HeldIsRequested DEF GrantedExactly, Restored
<1> QED
  BY <1>1, GrantHolds, PTL
(* Nothing that is left from earlier attempts can stop this one. *)
LEMMA NothingInTheWay ==
  ASSUME DiligentMonitor, TypeOK, TrackingInv, PageInv, GrantInv
  PROVE  /\ \A k \in XrtKinds : ~ PopulateAssertFails(k)
         /\ ~ PopulateRejects /\ ~ RevokeFails /\ ~ RestoreCopyFails
         /\ ~ RestoreMappingFails
         /\ pc = "deprivilege" => grant
<1>1. ASSUME NEW k \in XrtKinds, PopulateAssertFails(k)
      PROVE  FALSE
  <2>1. pc = "populate" /\ at < header.total_num /\ ~ Acceptable(xrt_list[at])
    BY <1>1 DEF PopulateAssertFails, InPopulate
  <2> QED
    BY <2>1, EntrySound
<1>2. ~ PopulateRejects
  <2>1. ASSUME PopulateRejects
        PROVE  pc = "populate" /\ at < header.total_num /\ xrt_list[at].type = "none"
    BY <2>1 DEF PopulateRejects, InPopulate
  <2> QED
    BY <2>1, EntrySound DEF XrtKinds, ChannelKinds
<1>3. ~ RevokeFails /\ ~ RestoreMappingFails /\ (pc = "deprivilege" => grant)
  BY DEF RevokeFails, Goto, RestoreMappingFails, InRestoreMappings, GrantInv, Granting
<1>4. ~ RestoreCopyFails
  <2> SUFFICES ASSUME RestoreCopyFails PROVE FALSE
    OBVIOUS
  <2>1. kind \in CapKinds /\ at \in Channels /\ pc = "restore" /\ ~ wiped /\ grant
    BY MaxChannelsAssumption
    DEF RestoreCopyFails, ToCopy, InRestore, TypeOK, Channels, TrackingInv, GrantInv,
        Granting
  <2>2. RightInv(kind, at) /\ ~ Passed(kind, at)
    BY <2>1 DEF GrantInv, Passed, Channels, CapKinds
  <2> QED
    BY <2>1, <2>2 DEF RestoreCopyFails, ToCopy, States, RightInv
<1> QED
  BY <1>1, <1>2, <1>3, <1>4

LEMMA CauseStep ==
  ASSUME DiligentMonitor, TypeOK, TrackingInv, PageInv, GrantInv, StopsForCause,
         [Next]_vars
  PROVE  StopsForCause'
<1> USE DEF allButPc, ctxtVars, pageVars, capVars, monitorVars, Goto
<1>1. CASE UNCHANGED vars
  BY <1>1 DEF vars, StopsForCause
<1>2. CASE MonitorNext
  BY <1>2 DEF MonitorNext, PrepareXrtReqList, PrivilegeTemplatePd, StartLoader,
              StopPd, StopsForCause
<1>3. CASE CheckImages \/ ContextActivate \/ ParseHeader
  BY <1>3 DEF CheckImages, ContextActivate, ParseHeader, StopsForCause
<1>4. CASE Populate
  <2>1. \/ \E k \in ChannelKinds : PopulateChannel(k)
        \/ PopulateMapping \/ PopulateDone
    BY <1>4, NothingInTheWay DEF Populate
  <2> QED
    BY <2>1 DEF PopulateChannel, PopulateMapping, PopulateDone, InPopulate,
                StopsForCause
<1>5. CASE EnforcePola
  <2>1. pc' \notin Halted
    BY <1>5, NothingInTheWay
    DEF EnforcePola, RevokeFirstTime, RevokeCaps, BeginRestore, RestoreKept,
        RestoreSkips, RestoreCopies, ToCopy, InRestore, RestoreNextKind,
        RestoreMappingKept, RestoreMappingMaps, InRestoreMappings, RestoreDone, Halted
  <2> QED
    BY <2>1 DEF StopsForCause, Halted
<1>6. CASE Deprivilege
  <2>1. pc' = "load"
    BY <1>6, NothingInTheWay DEF Deprivilege
  <2> QED
    BY <2>1 DEF StopsForCause
<1>7. CASE \/ LoadPayloads \/ LoadPayloadsFails \/ TrampolineBackup
           \/ TrampolineAborts \/ TrampolineWipe
  BY <1>7 DEF LoadPayloads, LoadPayloadsFails, TrampolineBackup, TrampolineAborts,
              TrampolineWipe, StopsForCause
<1> QED
  BY <1>1, <1>2, <1>3, <1>4, <1>5, <1>6, <1>7
  DEF Next, LoaderNext, MonitorAnswers

(* No history of well-formed requests and failed attempts makes a later    *)
(* attempt fail: it stops only for a defect of its own images, a refused   *)
(* backup call, or for want of a request of an accepted length.            *)
THEOREM AttemptsStopForCause ==
  ASSUME DiligentMonitor
  PROVE  Spec => []StopsForCause
<1>1. Init => StopsForCause
  BY DEF Init, StopsForCause
<1>2. TypeOK /\ TrackingInv /\ PageInv /\ GrantInv /\ StopsForCause /\ [Next]_vars
        => StopsForCause'
  BY CauseStep
<1> QED
  BY <1>1, <1>2, GrantHolds, PTL DEF Spec
-----------------------------------------------------------------------------
(* The detailed loader takes the abstract one's steps.                     *)
Wants == {right \in CapKinds \X Channels : right[2] \in Requested(right[1])}
Rights == {right \in CapKinds \X Channels : right[2] \in held[right[1]]}
Running == pc = "container"

LEMMA PrepareRefines ==
  ASSUME NEW req \in Requests, NEW slack \in Slack, PrepareXrtReqList(req, slack)
  PROVE  LP!Next
<1>1. ~ Running /\ ~ Running' /\ Rights' = Rights
  BY DEF PrepareXrtReqList, capVars, Running, Rights
<1>2. PICK want \in SUBSET (CapKinds \X Channels) : want = Wants'
  BY DEF Wants
<1>3. LP!Ask(want)
  BY <1>1, <1>2 DEF LP!Ask, Wants, Rights, Running
<1> QED
  BY <1>2, <1>3 DEF LP!Next

(* mktxlo_revoke_caps drops at once all that is not asked for. *)
LEMMA RevokeRefines ==
  ASSUME TypeOK, TrackingInv, GrantInv, RevokeCaps
  PROVE  LP!Next
<1>1. /\ pc = "revoke" /\ pc' = "restore" /\ request' = request
      /\ \A k \in CapKinds : held'[k] = held[k] \ Revocable(k)
  BY DEF RevokeCaps, BeginRestore, Goto, monitorVars, Revoked
<1>2. ASSUME NEW k \in CapKinds, NEW c \in Channels
      PROVE  c \in held'[k] <=> c \in held[k] /\ c \in Requested(k)
  <2>1. RightInv(k, c) /\ metadata = Resources /\ States = allowed
    BY <1>1 DEF GrantInv, TrackingInv, Loading, States
  <2>2. c \in Revocable(k) <=> States[k][c] = "USED"
    BY <2>1 DEF Revocable, TrackingInv
  <2>3. States[k][c] \in XrtState
    BY <2>1 DEF TypeOK, ChannelStates, CapKinds, ChannelKinds
  <2>4. c \in held[k] => States[k][c] # "UNSET"
    BY DEF TrackingInv, ContextTracksCaps
  <2>5. States[k][c] \in {"ALLOWED", "KEEP"} <=> c \in Requested(k)
    BY <1>1, <2>1 DEF RightInv, Apart
  <2> QED
    BY <1>1, <2>2, <2>3, <2>4, <2>5 DEF XrtState
<1>3. Wants' = Wants
  BY <1>1 DEF Wants, Requested
<1>4. Rights' = Rights \cap Wants
  <2>1. ASSUME NEW k \in CapKinds, NEW c \in Channels
        PROVE  <<k, c>> \in Rights' <=> <<k, c>> \in Rights /\ <<k, c>> \in Wants
    BY <1>2 DEF Rights, Wants
  <2>2. Rights' \subseteq CapKinds \X Channels /\ Rights \subseteq CapKinds \X Channels
    BY DEF Rights
  <2> QED
    BY <2>1, <2>2
<1>5. LP!Drop
  BY <1>1, <1>3, <1>4 DEF LP!Drop, Wants, Rights
<1> QED
  BY <1>5 DEF LP!Next

(* A capability is copied only when nothing unwanted is left. *)
LEMMA CopyRefines ==
  ASSUME TypeOK, TrackingInv, GrantInv, RestoreCopies
  PROVE  LP!Next
<1>1. /\ pc = "restore" /\ pc' = "restore" /\ request' = request
      /\ kind \in CapKinds /\ at \in Channels /\ metadata = Resources
      /\ held' = [held EXCEPT ![kind] = @ \cup {at}]
      /\ allowed[kind][at] \in {"ALLOWED", "USED"}
  BY MaxChannelsAssumption
  DEF RestoreCopies, ToCopy, InRestore, TypeOK, monitorVars, Channels, TrackingInv,
      Loading
<1>2. States = allowed
  BY <1>1 DEF States, TrackingInv
<1>3. ASSUME NEW k \in CapKinds, NEW c \in Channels, c \in held[k]
      PROVE  c \in Requested(k)
  <2>1. /\ RightInv(k, c) /\ States[k][c] \in XrtState /\ States[k][c] # "UNSET"
        /\ Passed(k, c) => Settled(k, c)
    BY <1>1, <1>2, <1>3 DEF GrantInv, TrackingInv, ContextTracksCaps, TypeOK, ChannelStates,
                      CapKinds, ChannelKinds
  <2> QED
    BY <1>1, <2>1 DEF RightInv, Apart, Settled, XrtState
<1>4. at \in Requested(kind)
  <2>1. RightInv(kind, at) /\ ~ Passed(kind, at)
    BY <1>1 DEF GrantInv, Passed, CapKinds, Channels
  <2> QED
    BY <1>1, <1>2, <2>1 DEF RightInv, Apart
<1>5. Wants' = Wants /\ Rights \subseteq Wants /\ <<kind, at>> \in Wants
  BY <1>1, <1>3, <1>4 DEF Wants, Rights, Requested
<1>6. Rights' = Rights \cup {<<kind, at>>}
  <2>1. ASSUME NEW k \in CapKinds, NEW c \in Channels
        PROVE  c \in held'[k] <=> c \in held[k] \/ (k = kind /\ c = at)
    BY <1>1 DEF TypeOK
  <2>2. ASSUME NEW k \in CapKinds, NEW c \in Channels
        PROVE  <<k, c>> \in Rights' <=> <<k, c>> \in Rights \cup {<<kind, at>>}
    BY <2>1 DEF Rights
  <2>3. Rights' \subseteq CapKinds \X Channels
        /\ Rights \cup {<<kind, at>>} \subseteq CapKinds \X Channels
    BY <1>1 DEF Rights
  <2> QED
    BY <2>2, <2>3
<1>7. PICK r \in CapKinds \X Channels : r = <<kind, at>>
  BY <1>1
<1>8. LP!Grant(r)
  BY <1>1, <1>5, <1>6, <1>7 DEF LP!Grant, Wants, Rights
<1> QED
  BY <1>8 DEF LP!Next

LEMMA WipeRefines ==
  ASSUME DiligentMonitor, TypeOK, TrackingInv, PageInv, GrantInv, TrampolineWipe
  PROVE  LP!Next
<1>1. /\ pc = "wipe" /\ pc' = "container" /\ UNCHANGED <<request, held>>
  BY DEF TrampolineWipe, Goto, capVars
<1>2. \A k \in CapKinds : held[k] = Requested(k)
  BY <1>1, HeldIsRequested DEF Restored
<1>3. Rights = Wants
  BY <1>2 DEF Rights, Wants
<1>4. LP!Run
  BY <1>1, <1>3 DEF LP!Run, Wants, Rights, Requested
<1> QED
  BY <1>4 DEF LP!Next

LEMMA StopRefines ==
  ASSUME StopPd
  PROVE  LP!Next \/ UNCHANGED LP!vars
<1>1. /\ pc \in {"container"} \cup Halted /\ pc' = "stopped"
      /\ UNCHANGED <<request, held>>
  BY DEF StopPd, capVars
<1>2. Wants' = Wants /\ Rights' = Rights
  BY <1>1 DEF Wants, Rights, Requested
<1>3. CASE pc = "container"
  BY <1>1, <1>2, <1>3 DEF LP!Next, LP!Stop, Wants, Rights
<1>4. CASE pc # "container"
  BY <1>1, <1>2, <1>4 DEF LP!vars, Wants, Rights
<1> QED
  BY <1>3, <1>4

(* Steps that leave request and capabilities alone, outside the container. *)
LEMMA OtherwiseStutters ==
  ASSUME UNCHANGED <<request, held>>, pc # "container", pc' # "container"
  PROVE  UNCHANGED LP!vars
BY DEF LP!vars, Requested

LEMMA LoaderRefines ==
  ASSUME DiligentMonitor, TypeOK, TrackingInv, PageInv, GrantInv,
         LoaderNext \/ MonitorAnswers
  PROVE  LP!Next \/ UNCHANGED LP!vars
<1> USE DEF allButPc, ctxtVars, pageVars, capVars, monitorVars, Goto
<1>1. CASE CheckImages \/ ContextActivate \/ ParseHeader \/ Populate
  <2>1. UNCHANGED <<request, held>> /\ pc # "container" /\ pc' # "container"
    BY <1>1 DEF CheckImages, ContextActivate, ParseHeader, Populate,
                PopulateChannel, PopulateMapping, PopulateAssertFails,
                PopulateRejects, PopulateDone, InPopulate
  <2> QED
    BY <2>1, OtherwiseStutters
<1>2. CASE EnforcePola /\ ~ RevokeCaps /\ ~ RestoreCopies
  <2>1. UNCHANGED <<request, held>> /\ pc # "container" /\ pc' # "container"
    BY <1>2 DEF EnforcePola, RevokeFirstTime, RevokeFails, BeginRestore,
                RestoreKept, RestoreSkips, RestoreCopyFails, ToCopy, InRestore,
                RestoreNextKind, RestoreMappingKept, RestoreMappingMaps,
                RestoreMappingFails, InRestoreMappings, RestoreDone
  <2> QED
    BY <2>1, OtherwiseStutters
<1>3. CASE \/ Deprivilege \/ LoadPayloads \/ LoadPayloadsFails
           \/ TrampolineBackup \/ TrampolineAborts
  <2>1. UNCHANGED <<request, held>> /\ pc # "container" /\ pc' # "container"
    BY <1>3 DEF Deprivilege, LoadPayloads, LoadPayloadsFails, TrampolineBackup,
                TrampolineAborts
  <2> QED
    BY <2>1, OtherwiseStutters
<1> QED
  BY <1>1, <1>2, <1>3, RevokeRefines, CopyRefines, WipeRefines
  DEF LoaderNext, MonitorAnswers

(* From one container to the next, the rights that nobody asks for any     *)
(* more all go before the first new one comes, and the container is only   *)
(* entered with exactly those asked for: the loader, with the monitor's    *)
(* part and every failure on the way, implements LeastPrivilege.           *)
THEOREM LeastPrivilegeImplemented ==
  ASSUME DiligentMonitor
  PROVE  Spec => ImplementsLeastPrivilege
<1>1. Init => LP!Init
  BY DEF Init, LP!Init, Requested
<1>2. TypeOK /\ TrackingInv /\ PageInv /\ GrantInv /\ [Next]_vars => [LP!Next]_(LP!vars)
  <2> SUFFICES ASSUME TypeOK, TrackingInv, PageInv, GrantInv, [Next]_vars
               PROVE  LP!Next \/ UNCHANGED LP!vars
    OBVIOUS
  <2>1. CASE UNCHANGED vars
    BY <2>1 DEF vars, allButPc, capVars, monitorVars, LP!vars, Requested
  <2>2. CASE MonitorNext
    <3>1. ASSUME PrivilegeTemplatePd \/ \E d \in Defects : StartLoader(d)
          PROVE  UNCHANGED LP!vars
      BY <3>1, OtherwiseStutters
      DEF PrivilegeTemplatePd, StartLoader, monitorVars, capVars, Goto
    <3> QED
      BY <2>2, <3>1, PrepareRefines, StopRefines DEF MonitorNext
  <2> QED
    BY <2>1, <2>2, LoaderRefines DEF Next
<1> QED
  BY <1>1, <1>2, GrantHolds, PTL DEF Spec, ImplementsLeastPrivilege, LP!Spec
-----------------------------------------------------------------------------
(* The regions.  As long as requests agree on the region of each place in  *)
(* their lists, an index of the mapping arrays always stands for the same  *)
(* region, so that the state that the context has kept of an index is true *)
(* of the region: a USED or a kept one is mapped, even if no request has   *)
(* listed it for a while.  Every attempt counts the mappings anew, each    *)
(* entry that is read adding one; revocation finds none to unmap, and      *)
(* restoration maps what is not there yet.                                 *)

(* What mapping j is for. *)
Region(j) ==
  LET req == CHOOSE r \in Requests : j + 1 \in DOMAIN r.memory
  IN  FindResource(Resources, "memory", req.memory[j + 1])

(* The regions of the request in place. *)
Wanted == (CHOOSE req \in Requests : request = Encode(req)).memory

InUse_(state) == state \in {"USED", "KEEP"}

StatesAreTrue(m) ==
  \A j \in Channels :
    InUse_(m.state[j]) => Region(j) \in mapped /\ m.data[j] = Region(j)

CountedInv(j) ==
  /\ j < Len(Wanted)
  /\ mappings.data[j] = Region(j)
  /\ IF pc = "restore_mappings" /\ j < at
     THEN mappings.state[j] = "USED"
     ELSE mappings.state[j] \in {"ALLOWED", "KEEP"}

(* How many regions are among the first n entries of the request. *)
RegionsRead(n) ==
  IF n + Len(Wanted) <= Len(request) THEN 0 ELSE n + Len(Wanted) - Len(request)

WantedMapped == \A j \in 0 .. Len(Wanted) - 1 : Region(j) \in mapped

Counting == {"populate", "revoke", "restore", "restore_mappings"}
Entering == {"deprivilege", "load", "backup", "wipe", "container"}

MapInv ==
  /\ StatesAreTrue(mappings) /\ StatesAreTrue(saved.mappings)
  /\ pc = "parse" => mappings.count = 0
  /\ pc = "populate" => mappings.count = RegionsRead(at)
  /\ pc \in Counting \ {"populate"} => mappings.count = Len(Wanted)
  /\ pc \in Counting => \A j \in Channels : j < mappings.count => CountedInv(j)
  /\ pc \in Entering => WantedMapped

LEMMA WantedIs ==
  ASSUME Asked
  PROVE  \E req \in Requests : request = Encode(req) /\ Wanted = req.memory
BY DEF Asked, Wanted

(* The entries of the request that are regions are those of Wanted. *)
LEMMA RegionsAsked ==
  ASSUME AlignedRegions, TypeOK, Asked
  PROVE  /\ Len(request) \in Nat /\ Len(Wanted) \in Nat
         /\ Len(Wanted) <= Len(request)
         /\ DOMAIN Wanted = 1 .. Len(Wanted)
         /\ \A i \in 1 .. Len(request) :
              LET j == i + Len(Wanted) - Len(request) IN
              /\ request[i].type = "memory" <=> j > 0
              /\ j > 0 => request[i].data = Wanted[j]
<1>1. PICK req \in Requests : request = Encode(req) /\ Wanted = req.memory
  BY WantedIs
<1>2. req \in [XrtKinds -> Seq(Nat)]
  BY DEF AlignedRegions
<1>3. /\ Len(Encode(req)) \in Nat /\ Len(req.memory) \in Nat
      /\ Len(req.memory) <= Len(Encode(req))
      /\ \A i \in 1 .. Len(Encode(req)) : RegionsLast(req, i)
  BY <1>2, EncodedRegions
<1>4. DOMAIN req.memory = 1 .. Len(req.memory)
  BY <1>2 DEF XrtKinds
<1> QED
  BY <1>1, <1>3, <1>4 DEF RegionsLast, RegionPlace

(* Each of them is what its index stands for, and can be mapped. *)
LEMMA RegionsFit ==
  ASSUME AlignedRegions, TypeOK, Asked, NEW j \in Nat, j < Len(Wanted)
  PROVE  /\ FindResource(Resources, "memory", Wanted[j + 1]) = Region(j)
         /\ Region(j) # 0 => Resources[Region(j)].slot \in MapSlots
<1>1. PICK req \in Requests : request = Encode(req) /\ Wanted = req.memory
  BY WantedIs
<1>2. j + 1 \in DOMAIN req.memory
  <2>1. DOMAIN Wanted = 1 .. Len(Wanted) /\ Len(Wanted) \in Nat
    BY RegionsAsked
  <2> HIDE DEF Wanted
  <2> QED
    BY <1>1, <2>1
<1> DEFINE other == CHOOSE r \in Requests : j + 1 \in DOMAIN r.memory
<1>3. other \in Requests /\ j + 1 \in DOMAIN other.memory
  BY <1>2
<1>4. Region(j) = FindResource(Resources, "memory", other.memory[j + 1])
  BY DEF Region
<1> HIDE DEF other
<1>5. FindResource(Resources, "memory", req.memory[j + 1])
        = FindResource(Resources, "memory", other.memory[j + 1])
  BY <1>2, <1>3 DEF AlignedRegions
<1>6. FindResource(Resources, "memory", req.memory[j + 1]) # 0 =>
        Resources[FindResource(Resources, "memory", req.memory[j + 1])].slot \in MapSlots
  BY <1>2 DEF AlignedRegions
<1> QED
  BY <1>1, <1>4, <1>5, <1>6

LEMMA WantedFrame ==
  /\ request' = request => Wanted' = Wanted
  /\ \A j : Region(j)' = Region(j)
BY DEF Wanted, Region

(* The states stay true where neither they nor the mappings change. *)
LEMMA TrueFrame ==
  ASSUME MapInv, mapped \subseteq mapped'
  PROVE  /\ saved'.mappings = saved.mappings => StatesAreTrue(saved.mappings)'
         /\ mappings'.state = mappings.state /\ mappings'.data = mappings.data
              => StatesAreTrue(mappings)'
<1>1. StatesAreTrue(mappings) /\ StatesAreTrue(saved.mappings)
  BY DEF MapInv
<1> QED
  BY <1>1, WantedFrame DEF StatesAreTrue, InUse_

(* A step that leaves mappings and request alone, and goes to a point of   *)
(* which the invariant says no more than of where it was.                  *)
LEMMA MapFrame ==
  ASSUME MapInv,
         mapped' = mapped, request' = request, saved' = saved,
         mappings'.state = mappings.state, mappings'.data = mappings.data,
         pc' \notin Counting \cup {"parse"},
         pc' \in Entering => pc \in Entering
  PROVE  MapInv'
<1>1. StatesAreTrue(mappings)' /\ StatesAreTrue(saved.mappings)'
  BY TrueFrame
<1>2. WantedMapped' <=> WantedMapped
  BY WantedFrame DEF WantedMapped
<1> QED
  BY <1>1, <1>2 DEF MapInv, Counting

(* Monitor's steps, and those of the loader before it reads the request. *)
LEMMA MapMonitor ==
  ASSUME TypeOK, MapInv, MonitorNext \/ CheckImages
  PROVE  MapInv'
<1> USE DEF allButPc, ctxtVars, pageVars, capVars, monitorVars, Goto
<1>1. CASE \E req \in Requests, slack \in Slack : PrepareXrtReqList(req, slack)
  <2>1. /\ pc' = "stopped" /\ UNCHANGED <<mapped, mappings, saved>>
    BY <1>1 DEF PrepareXrtReqList
  <2>2. StatesAreTrue(mappings)' /\ StatesAreTrue(saved.mappings)'
    BY <2>1, TrueFrame
  <2> QED
    BY <2>1, <2>2 DEF MapInv, Counting, Entering
<1>2. ASSUME NEW d \in Defects, StartLoader(d)
      PROVE  MapInv'
  <2>1. /\ pc' = "check" /\ UNCHANGED <<mapped, saved, request>>
        /\ mappings' = mappings \/ mappings' = saved.mappings
    BY <1>2 DEF StartLoader, Context
  <2>2. StatesAreTrue(mappings)' /\ StatesAreTrue(saved.mappings)'
    <3>1. StatesAreTrue(mappings) /\ StatesAreTrue(saved.mappings)
      BY DEF MapInv
    <3> QED
      BY <2>1, <3>1, WantedFrame DEF StatesAreTrue, InUse_
  <2> QED
    BY <2>1, <2>2 DEF MapInv, Counting, Entering
<1>3. CASE PrivilegeTemplatePd \/ StopPd \/ CheckImages
  <2>1. /\ pc' \in {"stopped", "returned", "activate"}
        /\ UNCHANGED <<mapped, mappings, saved, request>>
    BY <1>3 DEF PrivilegeTemplatePd, StopPd, CheckImages
  <2> QED
    BY <2>1, MapFrame DEF Counting, Entering
<1> QED
  BY <1>1, <1>2, <1>3 DEF MonitorNext

(* The entry that is read next, if it is a region, is the next of Wanted. *)
LEMMA RegionRead ==
  ASSUME AlignedRegions, TypeOK, PageInv, MapInv, pc = "populate",
         at < header.total_num
  PROVE  /\ xrt_list[at].type = "memory" =>
              /\ mappings.count < Len(Wanted)
              /\ RegionsRead(at + 1) = mappings.count + 1
              /\ xrt_list[at].data = Wanted[mappings.count + 1]
         /\ xrt_list[at].type # "memory" => RegionsRead(at + 1) = mappings.count
<1>1. /\ at \in Nat /\ Len(request) \in Nat /\ at + 1 \in 1 .. Len(request)
      /\ xrt_list[at] = request[at + 1]
  BY EntryRead
<1>2. Asked
  BY DEF PageInv, Served
<1>3. /\ Len(Wanted) \in Nat
      /\ request[at + 1].type = "memory" <=> at + 1 + Len(Wanted) - Len(request) > 0
      /\ at + 1 + Len(Wanted) - Len(request) > 0 =>
           request[at + 1].data = Wanted[at + 1 + Len(Wanted) - Len(request)]
  BY <1>1, <1>2, RegionsAsked
<1>4. mappings.count = RegionsRead(at)
  BY DEF MapInv
<1> HIDE DEF Wanted
<1>5. CASE at + 1 + Len(Wanted) - Len(request) > 0
  <2>1. /\ at + 1 + Len(Wanted) - Len(request) = mappings.count + 1
        /\ RegionsRead(at + 1) = at + 1 + Len(Wanted) - Len(request)
        /\ mappings.count < Len(Wanted)
    BY <1>1, <1>3, <1>4, <1>5 DEF RegionsRead
  <2> QED
    BY <1>1, <1>3, <1>5, <2>1
<1>6. CASE ~ (at + 1 + Len(Wanted) - Len(request) > 0)
  <2>1. RegionsRead(at + 1) = 0 /\ mappings.count = 0
    BY <1>1, <1>3, <1>4, <1>6 DEF RegionsRead
  <2> QED
    BY <1>1, <1>3, <1>6, <2>1
<1> QED
  BY <1>5, <1>6

(* A region that is read: its index is as it was, if it was in use. *)
LEMMA RegionCounted ==
  ASSUME AlignedRegions, TypeOK, DelegationInv, PageInv, MapInv, PopulateMapping
  PROVE  LET i == mappings.count IN
         /\ i \in Channels /\ i < Len(Wanted)
         /\ RegionsRead(at + 1) = i + 1
         /\ mappings'.count = i + 1
         /\ \A j \in Channels :
              /\ mappings'.data[j] = IF j = i THEN Region(i) ELSE mappings.data[j]
              /\ mappings'.state[j] = IF j = i THEN Allow(mappings.state[i])
                                               ELSE mappings.state[j]
<1> DEFINE i == mappings.count
<1>1. /\ pc = "populate" /\ at < header.total_num /\ xrt_list[at].type = "memory"
      /\ metadata = Resources
  BY DEF PopulateMapping, InPopulate, DelegationInv, Loading
<1>2. i \in Channels /\ i \in Nat
  BY AcceptedInRange DEF PopulateMapping, TypeOK, Mappings
<1>3. /\ i < Len(Wanted) /\ RegionsRead(at + 1) = i + 1
      /\ xrt_list[at].data = Wanted[i + 1]
  BY <1>1, RegionRead
<1>4. Asked
  BY <1>1 DEF PageInv, Served
<1>5. FindResource(Resources, "memory", Wanted[i + 1]) = Region(i)
  BY <1>2, <1>3, <1>4, RegionsFit
<1>6. /\ mappings'.count = i + 1
      /\ mappings'.data = [mappings.data EXCEPT ![i] = Region(i)]
      /\ mappings'.state = [mappings.state EXCEPT ![i] = Allow(@)]
  BY <1>1, <1>3, <1>5 DEF PopulateMapping
<1>7. DOMAIN mappings.data = Channels /\ DOMAIN mappings.state = Channels
  BY DEF TypeOK, Mappings
<1> HIDE DEF i
<1>8. \A j \in Channels :
        /\ mappings'.data[j] = IF j = i THEN Region(i) ELSE mappings.data[j]
        /\ mappings'.state[j] = IF j = i THEN Allow(mappings.state[i])
                                         ELSE mappings.state[j]
  BY <1>2, <1>6, <1>7
<1> QED
  BY <1>2, <1>3, <1>6, <1>8 DEF i

LEMMA AllowedStates ==
  \A state \in XrtState :
    /\ Allow(state) \in {"ALLOWED", "KEEP"}
    /\ InUse_(Allow(state)) => state = "USED"
    /\ state = "USED" => Allow(state) = "KEEP"
BY DEF Allow, InUse_, XrtState

LEMMA MapPopulateMapping ==
  ASSUME AlignedRegions, TypeOK, DelegationInv, PageInv, MapInv, PopulateMapping
  PROVE  MapInv'
<1> DEFINE i == mappings.count
<1>1. /\ pc = "populate" /\ pc' = "populate" /\ at' = at + 1
      /\ UNCHANGED <<mapped, saved, request>>
  BY DEF PopulateMapping, InPopulate, capVars, monitorVars
<1>2. /\ i \in Channels /\ i < Len(Wanted) /\ RegionsRead(at + 1) = i + 1
      /\ mappings'.count = i + 1
      /\ \A j \in Channels :
           /\ mappings'.data[j] = IF j = i THEN Region(i) ELSE mappings.data[j]
           /\ mappings'.state[j] = IF j = i THEN Allow(mappings.state[i])
                                            ELSE mappings.state[j]
  BY RegionCounted
<1>3. \A j \in Channels : mappings.state[j] \in XrtState
  BY DEF TypeOK, Mappings
<1>4. Wanted' = Wanted /\ (RegionsRead(at))' = RegionsRead(at + 1)
  BY <1>1, WantedFrame DEF RegionsRead
<1>5. StatesAreTrue(saved.mappings)'
  BY <1>1, TrueFrame
<1> HIDE DEF i
<1>6. StatesAreTrue(mappings)'
  <2>1. ASSUME NEW j \in Channels, InUse_(mappings'.state[j])
        PROVE  Region(j) \in mapped /\ mappings'.data[j] = Region(j)
    <3>1. InUse_(mappings.state[j])
      BY <1>2, <1>3, <2>1, AllowedStates DEF InUse_
    <3>2. Region(j) \in mapped /\ mappings.data[j] = Region(j)
      BY <3>1 DEF MapInv, StatesAreTrue
    <3> QED
      BY <1>2, <3>2
  <2> QED
    BY <1>1, <2>1, WantedFrame DEF StatesAreTrue, InUse_
<1>7. ASSUME NEW j \in Channels, j < i + 1
      PROVE  CountedInv(j)'
  <2>1. CASE j = i
    <3>1. mappings'.state[j] \in {"ALLOWED", "KEEP"} /\ mappings'.data[j] = Region(j)
      BY <1>2, <1>3, <2>1, AllowedStates
    <3> QED
      BY <1>1, <1>2, <1>4, <2>1, <3>1, WantedFrame DEF CountedInv
  <2>2. CASE j # i
    <3>1. j < mappings.count
      BY <1>2, <1>7, <2>2, MaxChannelsAssumption DEF Channels, i
    <3>2. CountedInv(j)
      BY <1>1, <3>1 DEF MapInv, Counting
    <3> QED
      BY <1>1, <1>2, <1>4, <2>2, <3>2, WantedFrame DEF CountedInv
  <2> QED
    BY <2>1, <2>2
<1> QED
  BY <1>1, <1>2, <1>4, <1>5, <1>6, <1>7 DEF MapInv, Counting, Entering

(* What has been counted stays so, from one point to another before the    *)
(* mappings are restored.                                                  *)
LEMMA CountedFrame ==
  ASSUME MapInv, pc \in Counting \ {"restore_mappings"},
         UNCHANGED <<mappings, request>>,
         pc' = "restore_mappings" => at' = 0
  PROVE  \A j \in Channels : j < mappings.count => CountedInv(j)'
<1> SUFFICES ASSUME NEW j \in Channels, j < mappings.count
             PROVE  CountedInv(j)'
  OBVIOUS
<1>1. CountedInv(j)
  BY DEF MapInv, Counting
<1>2. ~ (j < 0)
  BY MaxChannelsAssumption DEF Channels
<1> QED
  BY <1>1, <1>2, WantedFrame DEF CountedInv, Counting

LEMMA MapPopulate ==
  ASSUME AlignedRegions, TypeOK, DelegationInv, PageInv, MapInv,
         ContextActivate \/ ParseHeader \/ Populate
  PROVE  MapInv'
<1> USE DEF allButPc, ctxtVars, pageVars, capVars, monitorVars, Goto
<1>1. CASE ContextActivate
  <2>1. /\ pc' = "parse" /\ UNCHANGED <<mapped, saved>>
        /\ mappings'.count = 0 /\ mappings'.state = mappings.state
        /\ mappings'.data = mappings.data
    BY <1>1 DEF ContextActivate, TypeOK, Mappings
  <2>2. StatesAreTrue(mappings)' /\ StatesAreTrue(saved.mappings)'
    BY <2>1, TrueFrame
  <2> QED
    BY <2>1, <2>2 DEF MapInv, Counting, Entering
<1>2. CASE ParseHeader
  <2>1. /\ pc = "parse" /\ pc' \in {"returned", "populate"} /\ at' = 0
        /\ pc' = "populate" => ~ (header.offset < HeaderSize)
        /\ UNCHANGED <<mapped, saved, mappings, request>>
    BY <1>2 DEF ParseHeader
  <2>2. StatesAreTrue(mappings)' /\ StatesAreTrue(saved.mappings)'
    BY <2>1, TrueFrame
  <2>3. mappings.count = 0
    BY <2>1 DEF MapInv
  <2>4. ASSUME pc' = "populate"
        PROVE  RegionsRead(at)' = 0
    <3>1. header.offset >= HeaderSize
      BY <2>1, <2>4 DEF TypeOK, HeaderSize
    <3>2. Len(Wanted) \in Nat /\ Len(Wanted) <= Len(request)
      BY <3>1, RegionsAsked DEF PageInv
    <3>3. RegionsRead(at)' = RegionsRead(0)
      BY <2>1, WantedFrame DEF RegionsRead
    <3> HIDE DEF Wanted
    <3> QED
      BY <3>2, <3>3 DEF RegionsRead
  <2>5. \A j \in Channels : ~ (j < mappings'.count)
    BY <2>1, <2>3, MaxChannelsAssumption DEF Channels
  <2> QED
    BY <2>1, <2>2, <2>3, <2>4, <2>5 DEF MapInv, Counting, Entering
<1>3. ASSUME NEW k \in ChannelKinds, PopulateChannel(k)
      PROVE  MapInv'
  <2>1. /\ pc = "populate" /\ pc' = "populate" /\ at' = at + 1
        /\ at < header.total_num /\ xrt_list[at].type # "memory"
        /\ UNCHANGED <<mapped, saved, mappings, request>>
    BY <1>3 DEF PopulateChannel, InPopulate, ChannelKinds
  <2>2. StatesAreTrue(mappings)' /\ StatesAreTrue(saved.mappings)'
    BY <2>1, TrueFrame
  <2>3. RegionsRead(at + 1) = mappings.count
    BY <2>1, RegionRead
  <2>4. RegionsRead(at)' = RegionsRead(at + 1)
    BY <2>1, WantedFrame DEF RegionsRead
  <2>5. \A j \in Channels : j < mappings.count => CountedInv(j)'
    BY <2>1, CountedFrame DEF Counting
  <2> QED
    BY <2>1, <2>2, <2>3, <2>4, <2>5 DEF MapInv, Counting, Entering
<1>4. CASE (\E k \in XrtKinds : PopulateAssertFails(k)) \/ PopulateRejects
  <2>1. /\ pc' \in {"crashed", "returned"}
        /\ UNCHANGED <<mapped, mappings, saved, request>>
    BY <1>4 DEF PopulateAssertFails, PopulateRejects
  <2> QED
    BY <2>1, MapFrame DEF Counting, Entering
<1>5. CASE PopulateDone
  <2>1. /\ pc = "populate" /\ pc' = "revoke" /\ at >= header.total_num
        /\ UNCHANGED <<mapped, saved, mappings, request, at>>
    BY <1>5 DEF PopulateDone
  <2>2. StatesAreTrue(mappings)' /\ StatesAreTrue(saved.mappings)'
    BY <2>1, TrueFrame
  <2>3. mappings.count = Len(Wanted)
    <3>1. at = Len(request) /\ Len(request) \in Nat
      BY <2>1 DEF PageInv, PageHolds, TypeOK
    <3>2. Len(Wanted) \in Nat
      BY <2>1, RegionsAsked DEF PageInv, Served
    <3>3. mappings.count = RegionsRead(at)
      BY <2>1 DEF MapInv
    <3> HIDE DEF Wanted
    <3> QED
      BY <3>1, <3>2, <3>3 DEF RegionsRead
  <2>4. \A j \in Channels : j < mappings.count => CountedInv(j)'
    BY <2>1, CountedFrame DEF Counting
  <2>5. Wanted' = Wanted
    BY <2>1, WantedFrame
  <2> QED
    BY <2>1, <2>2, <2>3, <2>4, <2>5 DEF MapInv, Counting, Entering
<1> QED
  BY <1>1, <1>2, <1>3, <1>4, <1>5, MapPopulateMapping DEF Populate

(* From one point after the population to another, nothing counted or      *)
(* mapped being touched.                                                   *)
LEMMA MapCounted ==
  ASSUME MapInv,
         pc \in {"revoke", "restore"},
         pc' \in {"revoke", "restore", "restore_mappings"},
         pc' = "restore_mappings" => at' = 0,
         UNCHANGED <<mapped, mappings, saved, request>>
  PROVE  MapInv'
<1>1. StatesAreTrue(mappings)' /\ StatesAreTrue(saved.mappings)'
  BY TrueFrame
<1>2. \A j \in Channels : j < mappings.count => CountedInv(j)'
  BY CountedFrame DEF Counting
<1>3. Wanted' = Wanted /\ mappings.count = Len(Wanted)
  BY WantedFrame DEF MapInv, Counting
<1> QED
  BY <1>1, <1>2, <1>3 DEF MapInv, Counting, Entering

(* No mapping is revoked: all that are counted are ALLOWED or kept. *)
LEMMA NoneRevocable ==
  ASSUME TypeOK, MapInv, RevokeCaps
  PROVE  UNCHANGED <<mappings, mapped>>
<1>1. pc = "revoke"
  BY DEF RevokeCaps, BeginRestore, Goto
<1>2. RevocableMappings = {}
  <2>1. ASSUME NEW j \in Channels, j < mappings.count
        PROVE  mappings.state[j] # "USED"
    <3>1. CountedInv(j)
      BY <1>1, <2>1 DEF MapInv, Counting
    <3> QED
      BY <1>1, <3>1 DEF CountedInv
  <2> QED
    BY <2>1 DEF RevocableMappings
<1>3. mappings' = [mappings EXCEPT !.state = [i \in Channels |-> mappings.state[i]]]
  BY <1>2 DEF RevokeCaps
<1>4. mappings.state \in [Channels -> XrtState]
  BY DEF TypeOK, Mappings
<1>5. [i \in Channels |-> mappings.state[i]] = mappings.state
  BY <1>4
<1>6. mappings' = mappings
  BY <1>3, <1>5 DEF TypeOK, Mappings
<1> QED
  BY <1>2, <1>6 DEF RevokeCaps

LEMMA MapRevoke ==
  ASSUME TypeOK, MapInv, RevokeFirstTime \/ RevokeCaps \/ RevokeFails
  PROVE  MapInv'
<1> USE DEF allButPc, ctxtVars, pageVars, capVars, monitorVars, Goto
<1>1. CASE RevokeFirstTime
  BY <1>1, MapCounted DEF RevokeFirstTime, BeginRestore
<1>2. CASE RevokeCaps
  BY <1>2, NoneRevocable, MapCounted DEF RevokeCaps, BeginRestore
<1>3. CASE RevokeFails
  BY <1>3, MapFrame DEF RevokeFails, Counting, Entering
<1> QED
  BY <1>1, <1>2, <1>3

LEMMA MapRestore ==
  ASSUME MapInv,
         \/ RestoreKept \/ RestoreSkips \/ RestoreCopies \/ RestoreCopyFails
         \/ RestoreNextKind
  PROVE  MapInv'
<1> USE DEF allButPc, ctxtVars, pageVars, capVars, monitorVars, Goto
<1>1. CASE RestoreKept \/ RestoreSkips \/ RestoreCopies \/ RestoreNextKind
  BY <1>1, MapCounted
  DEF RestoreKept, RestoreSkips, RestoreCopies, RestoreNextKind, ToCopy, InRestore
<1>2. CASE RestoreCopyFails
  BY <1>2, MapFrame DEF RestoreCopyFails, ToCopy, Counting, Entering
<1> QED
  BY <1>1, <1>2

(* One mapping that is restored: it is mapped already, or it is now. *)
LEMMA MapElement ==
  ASSUME TypeOK, MapInv, InRestoreMappings,
         pc' = "restore_mappings", at' = at + 1,
         UNCHANGED <<saved, request>>,
         mappings' = [mappings EXCEPT !.state[at] = "USED"],
         mapped' = mapped \cup {Region(at)}
  PROVE  MapInv'
<1>1. /\ pc = "restore_mappings" /\ at \in Nat /\ at < mappings.count
      /\ mappings.count \in 0 .. MaxChannels /\ mappings.count = Len(Wanted)
  BY DEF InRestoreMappings, TypeOK, Mappings, MapInv, Counting
<1>2. at \in Channels
  BY <1>1, MaxChannelsAssumption DEF Channels
<1>3. Wanted' = Wanted
  BY WantedFrame
<1>4. CountedInv(at)
  BY <1>1, <1>2 DEF MapInv, Counting
<1>5. /\ mappings'.count = mappings.count /\ mappings'.data = mappings.data
      /\ \A j \in Channels :
           mappings'.state[j] = IF j = at THEN "USED" ELSE mappings.state[j]
  BY <1>2 DEF TypeOK, Mappings
<1>6. StatesAreTrue(saved.mappings)'
  BY TrueFrame
<1>7. StatesAreTrue(mappings)'
  <2>1. ASSUME NEW j \in Channels, InUse_(mappings'.state[j])
        PROVE  Region(j) \in mapped' /\ mappings'.data[j] = Region(j)
    <3>1. CASE j = at
      BY <1>4, <1>5, <3>1 DEF CountedInv
    <3>2. CASE j # at
      BY <1>5, <2>1, <3>2 DEF MapInv, StatesAreTrue
    <3> QED
      BY <3>1, <3>2
  <2> QED
    BY <2>1, WantedFrame DEF StatesAreTrue, InUse_
<1>8. ASSUME NEW j \in Channels, j < mappings.count
      PROVE  CountedInv(j)'
  <2>1. CountedInv(j)
    BY <1>1, <1>8 DEF MapInv, Counting
  <2>2. CASE j = at
    <3>1. mappings'.state[j] = "USED" /\ j < at + 1
      BY <1>1, <1>5, <2>2
    <3> QED
      BY <1>3, <1>5, <2>1, <3>1, WantedFrame DEF CountedInv
  <2>3. CASE j # at
    <3>1. mappings'.state[j] = mappings.state[j] /\ (j < at + 1 <=> j < at)
      BY <1>1, <1>5, <2>3, MaxChannelsAssumption DEF Channels
    <3> QED
      BY <1>1, <1>3, <1>5, <2>1, <3>1, WantedFrame DEF CountedInv
  <2> QED
    BY <2>2, <2>3
<1> QED
  BY <1>1, <1>3, <1>5, <1>6, <1>7, <1>8 DEF MapInv, Counting, Entering

(* What the loop over mappings does of the one it is at. *)
LEMMA MappingAt ==
  ASSUME AlignedRegions, TypeOK, DelegationInv, PageInv, MapInv, InRestoreMappings
  PROVE  /\ at \in Channels /\ pc = "restore_mappings"
         /\ mappings.data[at] = Region(at) /\ metadata = Resources
         /\ Resources[Region(at)].slot \in MapSlots
<1>1. at \in Channels /\ at < mappings.count /\ pc = "restore_mappings" /\ at \in Nat
  BY MaxChannelsAssumption DEF InRestoreMappings, TypeOK, Mappings, Channels
<1>2. CountedInv(at) /\ mappings.data[at] # 0 /\ metadata = Resources
  BY <1>1 DEF MapInv, Counting, TypeOK, Mappings, DelegationInv, Loading
<1>3. Asked /\ at < Len(Wanted) /\ mappings.data[at] = Region(at)
  BY <1>1, <1>2 DEF PageInv, Served, CountedInv
<1>4. Resources[Region(at)].slot \in MapSlots
  BY <1>1, <1>2, <1>3, RegionsFit
<1> QED
  BY <1>1, <1>2, <1>3, <1>4

LEMMA MapRestoreMappings ==
  ASSUME AlignedRegions, TypeOK, DelegationInv, PageInv, MapInv,
         \/ RestoreMappingKept \/ RestoreMappingMaps \/ RestoreMappingFails
         \/ RestoreDone
  PROVE  MapInv'
<1> USE DEF allButPc, ctxtVars, pageVars, capVars, monitorVars, Goto
<1>1. CASE RestoreMappingKept
  <2>1. /\ InRestoreMappings /\ mappings.state[at] = "KEEP"
        /\ pc' = pc /\ at' = at + 1 /\ UNCHANGED <<saved, mapped, request>>
        /\ mappings' = [mappings EXCEPT !.state[at] = "USED"]
    BY <1>1 DEF RestoreMappingKept
  <2>2. Region(at) \in mapped
    BY <2>1, MappingAt DEF MapInv, StatesAreTrue, InUse_
  <2> QED
    BY <2>1, <2>2, MappingAt, MapElement
<1>2. CASE RestoreMappingMaps
  <2>1. /\ InRestoreMappings /\ pc' = pc /\ at' = at + 1
        /\ UNCHANGED <<saved, request>>
        /\ mappings' = [mappings EXCEPT !.state[at] = "USED"]
        /\ mapped' = IF metadata[mappings.data[at]].slot \in MapSlots
                     THEN mapped \cup {mappings.data[at]} ELSE mapped
    BY <1>2 DEF RestoreMappingMaps
  <2> QED
    BY <2>1, MappingAt, MapElement
<1>3. CASE RestoreMappingFails
  BY <1>3, MapFrame DEF RestoreMappingFails, InRestoreMappings, Counting, Entering
<1>4. CASE RestoreDone
  <2>1. /\ pc = "restore_mappings" /\ pc' = "deprivilege" /\ at >= mappings.count
        /\ UNCHANGED <<mapped, mappings, saved, request>>
    BY <1>4 DEF RestoreDone
  <2>2. /\ mappings.count = Len(Wanted) /\ mappings.count \in 0 .. MaxChannels
        /\ at \in Nat
    BY <2>1 DEF MapInv, Counting, TypeOK, Mappings
  <2>3. ASSUME NEW j \in 0 .. Len(Wanted) - 1
        PROVE  Region(j) \in mapped
    <3>1. j \in Channels /\ j < mappings.count /\ j < at
      <4> HIDE DEF Wanted
      <4> QED
        BY <2>1, <2>2, MaxChannelsAssumption DEF Channels
    <3>2. CountedInv(j)
      BY <2>1, <3>1 DEF MapInv, Counting
    <3> QED
      BY <2>1, <3>1, <3>2 DEF CountedInv, MapInv, StatesAreTrue, InUse_
  <2>4. WantedMapped'
    BY <2>1, <2>3, WantedFrame DEF WantedMapped
  <2>5. StatesAreTrue(mappings)' /\ StatesAreTrue(saved.mappings)'
    BY <2>1, TrueFrame
  <2> QED
    BY <2>1, <2>4, <2>5 DEF MapInv, Counting, Entering
<1> QED
  BY <1>1, <1>2, <1>3, <1>4

LEMMA MapEnter ==
  ASSUME TypeOK, MapInv,
         \/ Deprivilege \/ LoadPayloads \/ LoadPayloadsFails
         \/ TrampolineBackup \/ TrampolineAborts \/ TrampolineWipe
  PROVE  MapInv'
<1> USE DEF allButPc, ctxtVars, pageVars, capVars, monitorVars, Goto
<1>1. CASE Deprivilege \/ LoadPayloads \/ LoadPayloadsFails \/ TrampolineAborts
  BY <1>1, MapFrame
  DEF Deprivilege, LoadPayloads, LoadPayloadsFails, TrampolineAborts, Counting,
      Entering
<1>2. CASE TrampolineBackup \/ TrampolineWipe
  <2>1. /\ pc \in {"backup", "wipe"} /\ pc' \in {"wipe", "container"}
        /\ UNCHANGED <<mapped, request>>
    BY <1>2 DEF TrampolineBackup, TrampolineWipe
  <2>2. WantedMapped'
    BY <2>1, WantedFrame DEF MapInv, Entering, WantedMapped
  <2>3. StatesAreTrue(mappings)' /\ StatesAreTrue(saved.mappings)'
    <3>1. StatesAreTrue(mappings) /\ StatesAreTrue(saved.mappings)
      BY DEF MapInv
    <3>2. CASE TrampolineBackup
      <4>1. mappings' = mappings /\ saved'.mappings = mappings
        BY <3>2 DEF TrampolineBackup, Context
      <4> QED
        BY <2>1, <3>1, <4>1, WantedFrame DEF StatesAreTrue, InUse_
    <3>3. CASE TrampolineWipe
      <4>1. mappings' = ZeroMappings /\ saved' = saved
        BY <3>3 DEF TrampolineWipe
      <4> QED
        BY <2>1, <3>1, <4>1, WantedFrame DEF StatesAreTrue, InUse_, ZeroMappings
    <3> QED
      BY <1>2, <3>2, <3>3
  <2> QED
    BY <2>1, <2>2, <2>3 DEF MapInv, Counting, Entering
<1> QED
  BY <1>1, <1>2

LEMMA MapStep ==
  ASSUME AlignedRegions, TypeOK, DelegationInv, PageInv, MapInv, [Next]_vars
  PROVE  MapInv'
<1>1. CASE UNCHANGED vars
  <2>1. UNCHANGED <<pc, at, mapped, mappings, saved, request>>
    BY <1>1 DEF vars, allButPc, ctxtVars, pageVars, capVars, monitorVars
  <2> QED
    BY <2>1, WantedFrame
    DEF MapInv, StatesAreTrue, InUse_, CountedInv, RegionsRead, WantedMapped
<1> QED
  BY <1>1, MapMonitor, MapPopulate, MapRevoke, MapRestore, MapRestoreMappings,
     MapEnter
  DEF Next, LoaderNext, MonitorAnswers, EnforcePola

LEMMA MapInit == Init => MapInv
BY DEF Init, MapInv, StatesAreTrue, InUse_, ZeroMappings, Context, Counting, Entering

LEMMA MapHolds ==
  ASSUME Slack = {0}, AlignedRegions
  PROVE  Spec => [](TypeOK /\ DelegationInv /\ PageInv /\ MapInv)
<1>1. TypeOK /\ PageInv /\ [Next]_vars => PageInv'
  BY PageStep
<1>2. TypeOK /\ DelegationInv /\ PageInv /\ MapInv /\ [Next]_vars => MapInv'
  BY MapStep
<1> QED
  BY <1>1, <1>2, PageInit, MapInit, TypeCorrect, DelegationHolds, PTL DEF Spec

(* A container has mapped every region of its request, after every         *)
(* sequence of containers and failed attempts in which regions are left    *)
(* out and asked for again, even under a monitor that writes back an       *)
(* outdated context or lists a channel twice, as long as its headers count *)
(* the entries and its requests agree on the region of each place.  (Where *)
(* they do not, one may be missing: the run KeptRegion.)                   *)
THEOREM AskedRegionsMapped ==
  ASSUME Slack = {0}, AlignedRegions
  PROVE  Spec => []RequestedRegionsMapped
<1>1. TypeOK /\ PageInv /\ MapInv => RequestedRegionsMapped
  <2> SUFFICES ASSUME TypeOK, PageInv, MapInv, pc = "container",
                      NEW v \in Requested("memory")
               PROVE  FindResource(Resources, "memory", v) \in mapped
    BY DEF RequestedRegionsMapped, RequestedRegions
  <2>1. Asked
    BY DEF PageInv, Served
  <2>2. /\ Len(request) \in Nat /\ Len(Wanted) \in Nat
        /\ Len(Wanted) <= Len(request) /\ DOMAIN request = 1 .. Len(request)
        /\ \A i \in 1 .. Len(request) :
             LET j == i + Len(Wanted) - Len(request) IN
             /\ request[i].type = "memory" <=> j > 0
             /\ j > 0 => request[i].data = Wanted[j]
    BY <2>1, RegionsAsked DEF TypeOK
  <2> DEFINE n == Len(Wanted)
             m == Len(request)
  <2>3. PICK i \in 1 .. m : request[i].type = "memory" /\ v = request[i].data
    BY <2>2 DEF Requested
  <2> HIDE DEF Wanted
  <2>4. i + n - m > 0 /\ v = Wanted[i + n - m]
    BY <2>2, <2>3
  <2> HIDE DEF n, m
  <2>5. /\ i + n - m - 1 \in Nat /\ i + n - m - 1 < n
        /\ i + n - m - 1 \in 0 .. n - 1 /\ (i + n - m - 1) + 1 = i + n - m
    BY <2>2, <2>4 DEF n, m
  <2>6. PICK j \in Nat : j < n /\ j \in 0 .. n - 1 /\ v = Wanted[j + 1]
    BY <2>4, <2>5
  <2>7. FindResource(Resources, "memory", Wanted[j + 1]) = Region(j)
    BY <2>1, <2>6, RegionsFit DEF n
  <2>8. WantedMapped
    BY DEF MapInv, Entering
  <2> QED
    BY <2>6, <2>7, <2>8 DEF WantedMapped, n
<1> QED
  BY <1>1, MapHolds, PTL
-----------------------------------------------------------------------------
(* The other direction: every region that is mapped is in use at an index  *)
(* of the context that the next attempt starts from.  The state of an      *)
(* index would be forgotten if an attempt ended half way with it kept,     *)
(* because the next one takes what is kept for what is to be mapped; but   *)
(* none does under a DiligentMonitor.                                      *)
Current == IF wiped THEN saved.mappings ELSE mappings

FoundIn(m, r) == \E j \in Channels : InUse_(m.state[j]) /\ m.data[j] = r

Counted(j) ==
  /\ pc \in Counting
  /\ j < mappings.count
  /\ pc = "restore_mappings" => at <= j

FoundInv ==
  /\ \A r \in mapped : FoundIn(Current, r)
  /\ \A j \in Channels : Current.state[j] = "KEEP" => Counted(j)
  /\ pc = "wipe" => saved.mappings = mappings

LEMMA NotWiped ==
  ASSUME TrackingInv, pc \in Loading
  PROVE  ~ wiped /\ Current = mappings
BY DEF TrackingInv, Loading, Current

(* Steps that change neither the mappings nor either copy of the context's. *)
LEMMA FoundUntouched ==
  ASSUME FoundInv, mapped' = mapped, Current' = Current, pc' # "wipe",
         pc \in Counting =>
           /\ pc' \in Counting /\ mappings' = mappings
           /\ pc' = "restore_mappings" => at' = 0
  PROVE  FoundInv'
<1>1. \A r \in mapped : FoundIn(Current, r)'
  BY DEF FoundInv, FoundIn, InUse_
<1>2. ASSUME NEW j \in Channels, Counted(j)
      PROVE  Counted(j)'
  BY <1>2, MaxChannelsAssumption DEF Counted, Channels
<1>3. \A j \in Channels : Current'.state[j] = "KEEP" => Counted(j)'
  BY <1>2 DEF FoundInv
<1> QED
  BY <1>1, <1>3 DEF FoundInv

(* The loader, while it works on the page, moves the states of some        *)
(* indices, and may map regions that are in use from then on.              *)
LEMMA FoundMoved ==
  ASSUME TypeOK, TrackingInv, FoundInv, pc \in Loading, wiped' = wiped,
         pc' # "wipe",
         \A j \in Channels :
           /\ InUse_(mappings.state[j]) =>
                InUse_(mappings'.state[j]) /\ mappings'.data[j] = mappings.data[j]
           /\ mappings'.state[j] = "KEEP" => Counted(j)',
         \A r \in mapped' \ mapped : FoundIn(mappings', r)
  PROVE  FoundInv'
<1>1. Current = mappings /\ Current' = mappings'
  BY NotWiped DEF Current
<1>2. \A r \in mapped : FoundIn(mappings', r)
  BY <1>1 DEF FoundInv, FoundIn
<1>3. \A r \in mapped' : FoundIn(Current', r)
  BY <1>1, <1>2
<1>4. \A r \in mapped' : FoundIn(Current, r)'
  BY <1>3 DEF FoundIn, InUse_
<1> QED
  BY <1>1, <1>4 DEF FoundInv

LEMMA FoundMonitor ==
  ASSUME KeepsPage, TypeOK, TrackingInv, FoundInv, MonitorNext
  PROVE  FoundInv'
<1> USE DEF allButPc, ctxtVars, pageVars, capVars, monitorVars, Goto, Counting
<1>1. CASE \E req \in Requests, slack \in Slack : PrepareXrtReqList(req, slack)
  BY <1>1, FoundUntouched DEF PrepareXrtReqList, Current
<1>2. CASE \E d \in Defects : StartLoader(d)
  <2>1. /\ pc = "stopped" /\ pc' = "check" /\ mapped' = mapped /\ wiped' = FALSE
        /\ mappings' = Current
    BY <1>2 DEF StartLoader, Current, Context
  <2>2. Current' = Current
    BY <2>1 DEF Current
  <2> QED
    BY <2>1, <2>2, FoundUntouched
<1>3. CASE PrivilegeTemplatePd \/ StopPd
  BY <1>3, FoundUntouched DEF PrivilegeTemplatePd, StopPd, Current, Halted
<1> QED
  BY <1>1, <1>2, <1>3 DEF MonitorNext

LEMMA FoundPopulateMapping ==
  ASSUME AlignedRegions, TypeOK, DelegationInv, TrackingInv, PageInv, MapInv,
         FoundInv, PopulateMapping
  PROVE  FoundInv'
<1>1. /\ pc \in Loading /\ pc = "populate" /\ pc' = "populate"
      /\ wiped' = wiped /\ mapped' = mapped
  BY DEF PopulateMapping, InPopulate, Loading, capVars, monitorVars
<1>2. Current = mappings
  BY <1>1, NotWiped
<1>3. PICK i \in Channels :
        /\ i = mappings.count /\ mappings'.count = i + 1
        /\ \A j \in Channels :
             /\ mappings'.data[j] = IF j = i THEN Region(i) ELSE mappings.data[j]
             /\ mappings'.state[j] = IF j = i THEN Allow(mappings.state[i])
                                              ELSE mappings.state[j]
  BY RegionCounted
<1>4. ASSUME NEW j \in Channels, InUse_(mappings.state[j])
      PROVE  InUse_(mappings'.state[j]) /\ mappings'.data[j] = mappings.data[j]
  <2>1. CASE j # i
    BY <1>3, <1>4, <2>1
  <2>2. CASE j = i
    <3>1. mappings.state[i] # "KEEP"
      BY <1>2, <1>3, MaxChannelsAssumption DEF FoundInv, Counted, Channels
    <3>2. mappings.state[i] \in XrtState
      BY DEF TypeOK, Mappings
    <3>3. mappings.state[i] = "USED" /\ mappings.data[i] = Region(i)
      BY <1>4, <2>2, <3>1 DEF InUse_, MapInv, StatesAreTrue
    <3>4. mappings'.state[i] = "KEEP"
      BY <1>3, <3>2, <3>3, AllowedStates
    <3> QED
      BY <1>3, <2>2, <3>3, <3>4 DEF InUse_
  <2> QED
    BY <2>1, <2>2
<1>5. ASSUME NEW j \in Channels, mappings'.state[j] = "KEEP"
      PROVE  Counted(j)'
  <2>1. j = i \/ j < i
    <3>1. CASE j # i
      BY <1>2, <1>3, <1>5, <3>1 DEF FoundInv, Counted
    <3> QED
      BY <3>1
  <2>2. j < i + 1
    BY <2>1, MaxChannelsAssumption DEF Channels
  <2> QED
    BY <1>1, <1>3, <2>2 DEF Counted, Counting
<1> QED
  BY <1>1, <1>4, <1>5, FoundMoved

LEMMA FoundPopulate ==
  ASSUME DiligentMonitor, AlignedRegions, TypeOK, DelegationInv, TrackingInv,
         PageInv, GrantInv, MapInv, FoundInv,
         CheckImages \/ ContextActivate \/ ParseHeader \/ Populate
  PROVE  FoundInv'
<1> USE DEF allButPc, ctxtVars, pageVars, capVars, monitorVars, Goto, Counting
<1>1. CASE CheckImages \/ ParseHeader
  BY <1>1, FoundUntouched DEF CheckImages, ParseHeader, Current
<1>2. CASE ContextActivate
  <2>1. /\ pc \in Loading /\ pc = "activate" /\ pc' # "wipe" /\ wiped' = wiped
        /\ mappings'.state = mappings.state /\ mappings'.data = mappings.data
        /\ mapped' = mapped
    BY <1>2 DEF ContextActivate, TypeOK, Mappings, Loading
  <2>2. \A j \in Channels : mappings.state[j] # "KEEP"
    BY <2>1, NotWiped DEF FoundInv, Counted
  <2> QED
    BY <2>1, <2>2, FoundMoved
<1>3. CASE (\E k \in ChannelKinds : PopulateChannel(k)) \/ PopulateDone
  BY <1>3, FoundUntouched DEF PopulateChannel, InPopulate, PopulateDone, Current
<1> QED
  BY <1>1, <1>2, <1>3, FoundPopulateMapping, NothingInTheWay DEF Populate

(* A mapping that is restored: it is in use from now on. *)
LEMMA FoundRestoreMapping ==
  ASSUME AlignedRegions, TypeOK, DelegationInv, TrackingInv, PageInv, MapInv,
         FoundInv, RestoreMappingKept \/ RestoreMappingMaps
  PROVE  FoundInv'
<1>1. /\ InRestoreMappings /\ pc' = pc /\ at' = at + 1 /\ wiped' = wiped
      /\ mappings' = [mappings EXCEPT !.state[at] = "USED"]
      /\ mapped' \subseteq mapped \cup {mappings.data[at]}
  BY DEF RestoreMappingKept, RestoreMappingMaps, capVars, monitorVars
<1>2. at \in Channels /\ pc = "restore_mappings" /\ pc \in Loading
  BY <1>1, MappingAt DEF Loading
<1>3. /\ mappings'.data = mappings.data /\ mappings'.count = mappings.count
      /\ \A j \in Channels :
           mappings'.state[j] = IF j = at THEN "USED" ELSE mappings.state[j]
  BY <1>1, <1>2 DEF TypeOK, Mappings
<1>4. FoundIn(mappings', mappings.data[at])
  BY <1>2, <1>3 DEF FoundIn, InUse_
<1>5. ASSUME NEW j \in Channels, mappings'.state[j] = "KEEP"
      PROVE  Counted(j)'
  <2>1. j # at /\ mappings.state[j] = "KEEP"
    BY <1>3, <1>5
  <2>2. Counted(j)
    BY <1>2, <2>1, NotWiped DEF FoundInv
  <2>3. at + 1 <= j
    BY <1>2, <2>1, <2>2, MaxChannelsAssumption DEF Counted, Channels
  <2> QED
    BY <1>1, <1>2, <1>3, <2>2, <2>3 DEF Counted
<1>6. \A j \in Channels :
        InUse_(mappings.state[j]) =>
          InUse_(mappings'.state[j]) /\ mappings'.data[j] = mappings.data[j]
  BY <1>3 DEF InUse_
<1> QED
  BY <1>1, <1>2, <1>4, <1>5, <1>6, FoundMoved

LEMMA FoundEnforce ==
  ASSUME DiligentMonitor, AlignedRegions, TypeOK, DelegationInv, TrackingInv,
         PageInv, GrantInv, MapInv, FoundInv, EnforcePola
  PROVE  FoundInv'
<1> USE DEF allButPc, ctxtVars, pageVars, capVars, monitorVars, Goto, Counting
<1>1. CASE RevokeFirstTime
  BY <1>1, FoundUntouched DEF RevokeFirstTime, BeginRestore, Current
<1>2. CASE RevokeCaps
  BY <1>2, NoneRevocable, FoundUntouched DEF RevokeCaps, BeginRestore, Current
<1>3. CASE RestoreKept \/ RestoreSkips \/ RestoreCopies \/ RestoreNextKind
  BY <1>3, FoundUntouched
  DEF RestoreKept, RestoreSkips, RestoreCopies, RestoreNextKind, ToCopy,
      InRestore, Current
<1>4. CASE RestoreDone
  <2>1. /\ pc = "restore_mappings" /\ pc' = "deprivilege" /\ at >= mappings.count
        /\ UNCHANGED <<mappings, mapped, wiped>> /\ pc \in Loading
    BY <1>4 DEF RestoreDone, Loading
  <2>2. ASSUME NEW j \in Channels
        PROVE  mappings.state[j] # "KEEP"
    <3>1. at \in Nat /\ mappings.count \in 0 .. MaxChannels /\ j \in 0 .. MaxChannels - 1
      BY DEF TypeOK, Mappings, Channels
    <3>2. ~ Counted(j)
      BY <2>1, <3>1, MaxChannelsAssumption DEF Counted
    <3> QED
      BY <2>1, <3>2, NotWiped DEF FoundInv
  <2> QED
    BY <2>1, <2>2, FoundMoved
<1> QED
  BY <1>1, <1>2, <1>3, <1>4, FoundRestoreMapping, NothingInTheWay DEF EnforcePola

LEMMA FoundEnter ==
  ASSUME TrackingInv, FoundInv,
         \/ Deprivilege \/ LoadPayloads \/ LoadPayloadsFails
         \/ TrampolineBackup \/ TrampolineAborts \/ TrampolineWipe
  PROVE  FoundInv'
<1> USE DEF allButPc, ctxtVars, pageVars, capVars, monitorVars, Goto, Counting
<1>1. CASE Deprivilege \/ LoadPayloads \/ LoadPayloadsFails \/ TrampolineAborts
  BY <1>1, FoundUntouched
  DEF Deprivilege, LoadPayloads, LoadPayloadsFails, TrampolineAborts, Current
<1>2. CASE TrampolineBackup
  <2>1. /\ pc = "backup" /\ pc \in Loading /\ wiped' = wiped /\ mapped' = mapped
        /\ mappings' = mappings /\ saved'.mappings = mappings
    BY <1>2 DEF TrampolineBackup, Context, Loading
  <2>2. Current' = Current /\ Current = mappings
    BY <2>1, NotWiped DEF Current
  <2>3. \A r \in mapped' : FoundIn(Current, r)'
    BY <2>1, <2>2 DEF FoundInv, FoundIn, InUse_
  <2>4. \A j \in Channels : Current'.state[j] # "KEEP"
    BY <2>1, <2>2 DEF FoundInv, Counted
  <2> QED
    BY <2>1, <2>3, <2>4 DEF FoundInv
<1>3. CASE TrampolineWipe
  <2>1. /\ pc = "wipe" /\ pc \in Loading /\ pc' # "wipe" /\ wiped' = TRUE
        /\ mapped' = mapped /\ saved' = saved
    BY <1>3 DEF TrampolineWipe, Loading
  <2>2. saved.mappings = mappings
    BY <2>1 DEF FoundInv
  <2>3. Current' = Current
    BY <2>1, <2>2, NotWiped DEF Current
  <2> QED
    BY <2>1, <2>3, FoundUntouched
<1> QED
  BY <1>1, <1>2, <1>3

LEMMA FoundStep ==
  ASSUME DiligentMonitor, AlignedRegions, TypeOK, DelegationInv, TrackingInv,
         PageInv, GrantInv, MapInv, FoundInv, [Next]_vars
  PROVE  FoundInv'
<1>1. CASE UNCHANGED vars
  <2>1. UNCHANGED <<pc, at, mapped, mappings, saved, wiped>>
    BY <1>1 DEF vars, allButPc, ctxtVars, capVars, monitorVars
  <2> QED
    BY <2>1 DEF FoundInv, FoundIn, InUse_, Current, Counted
<1>2. KeepsPage
  BY DEF DiligentMonitor
<1> QED
  BY <1>1, <1>2, FoundMonitor, FoundPopulate, FoundEnforce, FoundEnter
  DEF Next, LoaderNext, MonitorAnswers

(* The context never loses track of the mapped regions, nor takes one for  *)
(* mapped that is not, although each attempt counts the mappings anew and  *)
(* may fail half way, and whatever regions a request leaves out, under a   *)
(* DiligentMonitor whose requests agree on the region of each place.       *)
THEOREM MappingsNeverLost ==
  ASSUME DiligentMonitor, AlignedRegions
  PROVE  Spec => []MappingsTracked
<1>1. MapInv /\ FoundInv => MappingsTracked
  <2> SUFFICES ASSUME MapInv, FoundInv
               PROVE  mapped = InUseBy(Current)
    BY DEF MappingsTracked, Current
  <2>1. InUseBy(Current) =
          {Current.data[j] : j \in {i \in Channels : InUse_(Current.state[i])}}
    BY DEF InUseBy, InUse_
  <2>2. StatesAreTrue(Current)
    BY DEF MapInv, Current
  <2>3. mapped \subseteq InUseBy(Current)
    BY <2>1 DEF FoundInv, FoundIn
  <2>4. InUseBy(Current) \subseteq mapped
    BY <2>1, <2>2 DEF StatesAreTrue
  <2> QED
    BY <2>3, <2>4
<1>2. Init => FoundInv
  BY DEF Init, FoundInv, Current, ZeroMappings
<1>3. TypeOK /\ DelegationInv /\ TrackingInv /\ PageInv /\ GrantInv /\ MapInv
        /\ FoundInv /\ [Next]_vars => FoundInv'
  BY FoundStep
<1>4. Slack = {0}
  BY DEF DiligentMonitor
<1>5. Spec => [](TypeOK /\ DelegationInv /\ PageInv /\ MapInv)
  BY <1>4, MapHolds
<1> QED
  BY <1>1, <1>2, <1>3, <1>5, GrantHolds, PTL DEF Spec

(* What comes from the delegation CNode finds its slot vacant, as the      *)
(* comment of mktxlo_restore_caps needs it, under a DiligentMonitor.  (If  *)
(* a request lists a right twice, it may not: the run ListedTwice.)        *)
THEOREM CopiesFindRoom ==
  ASSUME DiligentMonitor
  PROVE  Spec => []AllowedSlotsAreVacant
<1>1. TrackingInv /\ GrantInv => AllowedSlotsAreVacant
  <2> SUFFICES ASSUME TrackingInv, GrantInv, pc = "restore",
                      NEW k \in CapKinds, NEW c \in Channels,
                      allowed[k][c] = "ALLOWED"
               PROVE  c \notin held[k]
    BY DEF AllowedSlotsAreVacant
  <2>1. States = allowed
    BY DEF TrackingInv, States
  <2> QED
    BY <2>1 DEF GrantInv, RightInv
<1> QED
  BY <1>1, GrantHolds, PTL
=============================================================================
