------------------------- MODULE RequestPageProofs -------------------------
(***************************************************************************)
(* Theorems about RequestPage for every set of requests, every place the   *)
(* monitor serialises them at and every size of the page.                  *)
(***************************************************************************)
EXTENDS RequestPage, TLAPS

LEMMA Codes ==
  /\ \A k \in XrtKinds : Code[k] \in 1 .. 5
  /\ \A j, k \in XrtKinds : Code[j] = Code[k] => j = k
BY DEF Code, XrtKinds, ChannelKinds

(* The type that is written over a word is the type that is read from it,  *)
(* and the word stays a word.                                              *)
LEMMA TypeIsReadBack ==
  ASSUME NEW word \in Word, NEW code \in 1 .. 5
  PROVE  /\ WithType(word, code) \in Word
         /\ TypeOf(WithType(word, code)) = code
BY WordAssumption, SMTT(30) DEF WithType, TypeOf, Word, ByteSize

LEMMA IndexRange ==
  /\ 0 \in PageIndex /\ 1 \in PageIndex
  /\ 0 \in Word
BY PageAssumption, WordAssumption DEF PageIndex, HeaderWords, Word

LEMMA WordAtType ==
  ASSUME TypeOK, NEW w
  PROVE  WordAt(w) \in Word
BY IndexRange DEF WordAt, TypeOK
-----------------------------------------------------------------------------
(* While it serialises, the monitor is at one of its places, with a list   *)
(* whose length fits in the header.                                        *)
EncodeInv ==
  pc = "encode" => /\ base \in Bases
                   /\ \A slack \in Slack : Len(request) + slack \in Word

LEMMA InitTypes == Init => TypeOK /\ EncodeInv
BY IndexRange DEF Init, TypeOK, EncodeInv, HeaderWords

LEMMA StepTypes ==
  ASSUME TypeOK, EncodeInv, [Next]_vars
  PROVE  TypeOK' /\ EncodeInv'
<1> USE DEF readVars
<1>1. ASSUME NEW req \in Requests, NEW b \in Bases, PrepareXrtReqList(req, b)
      PROVE  TypeOK' /\ EncodeInv'
  <2>1. Encode(req) \in Seq(KnownEntry)
    BY RequestsAssumption
  <2>2. \A slack \in Slack : Len(Encode(req)) + slack \in Word
    BY RequestsAssumption
  <2>3. request' = Encode(req) /\ base' = b /\ b \in Nat
    BY <1>1, BasesAssumption DEF PrepareXrtReqList
  <2>4. request' \in Seq(KnownEntry)
    BY <2>1, <2>3
  <2>5. TypeOK'
    <3>1. /\ pc' = "encode" /\ base' \in Nat /\ at' = 0 /\ page' = page
          /\ overrun' = FALSE /\ entries' = <<>> /\ reads' = {}
      BY <1>1, <2>3 DEF PrepareXrtReqList
    <3>2. page' \in [PageIndex -> Word] /\ overrun' \in BOOLEAN
      BY <3>1 DEF TypeOK
    <3>3. entries' \in Seq(KnownEntry) /\ reads' \subseteq Nat
      BY <3>1
    <3>4. pc' \in {"stopped", "encode", "parse", "populate", "populated", "refused"}
      BY <3>1
    <3> QED
      BY <2>4, <3>1, <3>2, <3>3, <3>4 DEF TypeOK
  <2>6. EncodeInv'
    BY <2>2, <2>3 DEF EncodeInv
  <2> QED
    BY <2>5, <2>6
<1>2. CASE EncodeEntry
  <2> DEFINE w == base + EntryWords * at
             e == request[at + 1]
  <2>1. e \in KnownEntry
    BY <1>2 DEF EncodeEntry, TypeOK
  <2>2. Code[e.type] \in 1 .. 5 /\ e.data \in Word
    BY <2>1, Codes DEF KnownEntry
  <2>3. \A i \in PageIndex : page[i] \in Word
    BY DEF TypeOK
  <2>4. page' = [i \in PageIndex |->
                   IF i = w THEN WithType(page[i], Code[e.type])
                   ELSE IF i = w + 1 THEN e.data ELSE page[i]]
    BY <1>2 DEF EncodeEntry
  <2>5. page' \in [PageIndex -> Word]
    <3> HIDE DEF w, e
    <3> QED
      BY <2>2, <2>3, <2>4, TypeIsReadBack
  <2>6. overrun' \in BOOLEAN
    BY <1>2 DEF EncodeEntry, TypeOK
  <2> QED
    BY <1>2, <2>5, <2>6 DEF EncodeEntry, TypeOK, EncodeInv
<1>3. ASSUME NEW slack \in Slack, WriteHeader(slack)
      PROVE  TypeOK' /\ EncodeInv'
  <2>1. base * WordBytes \in Word /\ Len(request) + slack \in Word
    BY <1>3, BasesAssumption DEF WriteHeader, EncodeInv
  <2> QED
    BY <1>3, <2>1 DEF WriteHeader, TypeOK, EncodeInv
<1>4. CASE StartLoader
  BY <1>4 DEF StartLoader, TypeOK, EncodeInv
<1>5. CASE ParseHeader
  BY <1>5 DEF ParseHeader, TypeOK, EncodeInv
<1>6. ASSUME InPopulate
      PROVE  reads' \subseteq Nat
  <2>1. serialised_offset \in Nat
    BY IndexRange, WordAssumption DEF serialised_offset, TypeOK, Word
  <2>2. EntryWord \in Nat
    BY <2>1 DEF EntryWord, WordBytes, EntryWords, TypeOK
  <2> QED
    BY <1>6, <2>2 DEF InPopulate, TypeOK
<1>7. ASSUME NEW k \in XrtKinds, ReadEntry(k)
      PROVE  TypeOK' /\ EncodeInv'
  <2>1. [type |-> k, data |-> WordAt(EntryWord + 1)] \in KnownEntry
    BY WordAtType DEF KnownEntry
  <2> QED
    BY <1>6, <1>7, <2>1 DEF ReadEntry, InPopulate, TypeOK, EncodeInv
<1>8. CASE ReadUnknown
  BY <1>6, <1>8 DEF ReadUnknown, InPopulate, TypeOK, EncodeInv
<1>9. CASE PopulateDone \/ AttemptFails
  BY <1>9 DEF PopulateDone, AttemptFails, TypeOK, EncodeInv
<1>10. CASE WipePage
  BY <1>10, IndexRange DEF WipePage, TypeOK, EncodeInv
<1>11. CASE UNCHANGED vars
  BY <1>11 DEF vars, TypeOK, EncodeInv
<1> QED
  BY <1>1, <1>2, <1>3, <1>4, <1>5, <1>7, <1>8, <1>9, <1>10, <1>11 DEF Next

(* The types hold in every reachable state: no word of the page overflows. *)
THEOREM RequestTypeCorrect == Spec => []TypeOK
<1> QED
  BY InitTypes, StepTypes, PTL DEF Spec
-----------------------------------------------------------------------------
(* Outside of serialising, the offset in the header is that of one of the  *)
(* places of the monitor, or zero: in a fresh page, or a wiped one.  What  *)
(* the loader populates from passed the checks on the header.              *)
HeaderInv ==
  /\ pc # "encode" =>
       serialised_offset = 0 \/ \E b \in Bases : serialised_offset = b * WordBytes
  /\ pc \in {"populate", "populated"} => TotalAccepted /\ OffsetAccepted

LEMMA HeaderStep ==
  ASSUME TypeOK, EncodeInv, HeaderInv, [Next]_vars
  PROVE  HeaderInv'
<1> USE DEF readVars, serialised_offset, total_num, TotalAccepted, OffsetAccepted
<1>1. ASSUME NEW req \in Requests, NEW b \in Bases, PrepareXrtReqList(req, b)
      PROVE  HeaderInv'
  BY <1>1 DEF PrepareXrtReqList, HeaderInv
<1>2. CASE EncodeEntry
  BY <1>2 DEF EncodeEntry, HeaderInv
<1>3. ASSUME NEW slack \in Slack, WriteHeader(slack)
      PROVE  HeaderInv'
  BY <1>3, IndexRange DEF WriteHeader, HeaderInv, EncodeInv, TypeOK
<1>4. CASE StartLoader \/ ParseHeader \/ PopulateDone \/ AttemptFails
  BY <1>4 DEF StartLoader, ParseHeader, PopulateDone, AttemptFails, HeaderInv
<1>5. CASE (\E k \in XrtKinds : ReadEntry(k)) \/ ReadUnknown
  BY <1>5 DEF ReadEntry, ReadUnknown, InPopulate, HeaderInv
<1>6. CASE WipePage
  BY <1>6, IndexRange DEF WipePage, HeaderInv
<1>7. CASE UNCHANGED vars
  BY <1>7 DEF vars, HeaderInv
<1> QED
  BY <1>1, <1>2, <1>3, <1>4, <1>5, <1>6, <1>7 DEF Next

LEMMA HeaderInit == Init => HeaderInv
BY IndexRange DEF Init, HeaderInv, serialised_offset

(* An entry that the loader reads starts where one of the monitor's could. *)
LEMMA EntryPlace ==
  ASSUME TypeOK, HeaderInv, InPopulate
  PROVE  \E b \in Bases : /\ EntryWord = b + EntryWords * at
                          /\ serialised_offset = b * WordBytes
                          /\ b >= HeaderWords
                          /\ EntryWord \in PageIndex /\ EntryWord + 1 \in PageIndex
<1>1. total_num <= MaxXrt /\ serialised_offset >= HeaderWords * WordBytes
      /\ at < total_num
  BY DEF InPopulate, HeaderInv, TotalAccepted, OffsetAccepted
<1>2. total_num \in Nat
  BY IndexRange DEF TypeOK, total_num, Word
<1>3. PICK b \in Bases : serialised_offset = b * WordBytes
  BY <1>1 DEF InPopulate, HeaderInv, HeaderWords, WordBytes
<1>4. b \in Nat /\ b + EntryWords * MaxXrt <= PageWords
  BY BasesAssumption
<1>5. EntryWord = b + EntryWords * at /\ b >= HeaderWords
  BY <1>1, <1>3, <1>4 DEF EntryWord, WordBytes, HeaderWords, EntryWords, TypeOK
<1>6. EntryWord \in PageIndex /\ EntryWord + 1 \in PageIndex
  BY <1>1, <1>2, <1>4, <1>5, PageAssumption DEF PageIndex, EntryWords, TypeOK
<1> QED
  BY <1>3, <1>5, <1>6

LEMMA ReadsStep ==
  ASSUME TypeOK, HeaderInv, ReadsInPage, [Next]_vars
  PROVE  ReadsInPage'
<1> USE DEF readVars
<1>1. CASE InPopulate
  BY <1>1, EntryPlace DEF InPopulate, ReadsInPage
<1>2. CASE reads' = reads \/ reads' = {}
  BY <1>2 DEF ReadsInPage, PageIndex
<1> QED
  BY <1>1, <1>2
  DEF Next, PrepareXrtReqList, EncodeEntry, WriteHeader, StartLoader, ParseHeader,
      ReadEntry, ReadUnknown, PopulateDone, WipePage, AttemptFails, vars

(* The loader reads no entry past the end of the request page, whatever    *)
(* number the header gives.                                                *)
THEOREM RequestReadsInPage == Spec => []ReadsInPage
<1>1. Init => ReadsInPage
  BY DEF Init, ReadsInPage
<1>2. TypeOK /\ EncodeInv /\ HeaderInv /\ ReadsInPage /\ [Next]_vars
        => TypeOK' /\ EncodeInv' /\ HeaderInv' /\ ReadsInPage'
  BY StepTypes, HeaderStep, ReadsStep
<1> QED
  BY <1>1, <1>2, InitTypes, HeaderInit, PTL DEF Spec
-----------------------------------------------------------------------------
(* The first n entries of the request are on the page, so far as it has    *)
(* room for them and they are not under the header.                        *)
Sent(n) ==
  \A i \in Nat :
    LET w == base + EntryWords * i IN
    i < n /\ base >= HeaderWords /\ w \in PageIndex /\ w + 1 \in PageIndex =>
      TypeOf(page[w]) = Code[request[i + 1].type] /\ page[w + 1] = request[i + 1].data

SentInv ==
  /\ pc = "encode" => at <= Len(request) /\ Sent(at)
  /\ pc # "encode" /\ serialised_offset = base * WordBytes => Sent(Len(request))
  /\ overrun => base + EntryWords * Len(request) > PageWords

LEMMA SentInit == Init => SentInv
BY DEF Init, SentInv, Sent

LEMMA SentStep ==
  ASSUME TypeOK, EncodeInv, SentInv, [Next]_vars
  PROVE  SentInv'
<1> USE DEF readVars
<1>1. ASSUME NEW req \in Requests, NEW b \in Bases, PrepareXrtReqList(req, b)
      PROVE  SentInv'
  <2>1. Len(Encode(req)) \in Nat
    BY RequestsAssumption
  <2> QED
    BY <1>1, <2>1 DEF PrepareXrtReqList, SentInv, Sent
<1>2. CASE EncodeEntry
  <2> DEFINE e == request[at + 1]
  <2>1. e \in KnownEntry /\ at + 1 <= Len(request)
    BY <1>2 DEF EncodeEntry, TypeOK
  <2>2. Code[e.type] \in 1 .. 5
    BY <2>1, Codes DEF KnownEntry
  <2>3. \A i \in PageIndex :
          page'[i] = IF i = base + EntryWords * at
                     THEN WithType(page[i], Code[e.type])
                     ELSE IF i = base + EntryWords * at + 1 THEN e.data ELSE page[i]
    BY <1>2 DEF EncodeEntry
  <2>4. pc' = "encode" /\ at' = at + 1 /\ base' = base /\ request' = request
    BY <1>2 DEF EncodeEntry
  <2>5. Sent(at)
    BY <1>2 DEF EncodeEntry, SentInv
  <2>6. ASSUME NEW i \in Nat, i < at + 1, base >= HeaderWords,
               base + EntryWords * i \in PageIndex,
               base + EntryWords * i + 1 \in PageIndex
        PROVE  /\ TypeOf(page'[base + EntryWords * i]) = Code[request[i + 1].type]
               /\ page'[base + EntryWords * i + 1] = request[i + 1].data
    <3>1. CASE i = at
      <4>1. page[base + EntryWords * at] \in Word
        BY <2>6, <3>1 DEF TypeOK
      <4>2. page'[base + EntryWords * at]
              = WithType(page[base + EntryWords * at], Code[e.type])
        BY <2>3, <2>6, <3>1
      <4>3. page'[base + EntryWords * at + 1] = e.data
        BY <2>3, <2>6, <3>1 DEF EntryWords, TypeOK
      <4> QED
        BY <2>2, <3>1, <4>1, <4>2, <4>3, TypeIsReadBack
    <3>2. CASE i < at
      <4>1. /\ TypeOf(page[base + EntryWords * i]) = Code[request[i + 1].type]
            /\ page[base + EntryWords * i + 1] = request[i + 1].data
        BY <2>5, <2>6, <3>2 DEF Sent
      <4>2. /\ page'[base + EntryWords * i] = page[base + EntryWords * i]
            /\ page'[base + EntryWords * i + 1] = page[base + EntryWords * i + 1]
        BY <2>3, <2>6, <3>2 DEF EntryWords, TypeOK
      <4> QED
        BY <4>1, <4>2
    <3> QED
      BY <2>6, <3>1, <3>2 DEF TypeOK
  <2>7. Sent(at)'
    BY <2>4, <2>6 DEF Sent
  <2>8. overrun' => base + EntryWords * Len(request) > PageWords
    BY <1>2, <2>1, PageAssumption DEF EncodeEntry, SentInv, EntryWords, TypeOK
  <2> QED
    BY <2>1, <2>4, <2>7, <2>8 DEF SentInv
<1>3. ASSUME NEW slack \in Slack, WriteHeader(slack)
      PROVE  SentInv'
  <2>1. Sent(Len(request))
    <3>1. at = Len(request)
      BY <1>3 DEF WriteHeader, SentInv, TypeOK
    <3> QED
      BY <1>3, <3>1 DEF WriteHeader, SentInv
  <2>2. \A w \in PageIndex : w >= HeaderWords => page'[w] = page[w]
    BY <1>3 DEF WriteHeader, TypeOK, HeaderWords, PageIndex
  <2>3. base' = base /\ request' = request /\ overrun' = overrun /\ pc' = "stopped"
    BY <1>3 DEF WriteHeader
  <2>4. ASSUME NEW i \in Nat, i < Len(request), base >= HeaderWords,
               base + EntryWords * i \in PageIndex,
               base + EntryWords * i + 1 \in PageIndex
        PROVE  /\ TypeOf(page'[base + EntryWords * i]) = Code[request[i + 1].type]
               /\ page'[base + EntryWords * i + 1] = request[i + 1].data
    <3>1. /\ TypeOf(page[base + EntryWords * i]) = Code[request[i + 1].type]
          /\ page[base + EntryWords * i + 1] = request[i + 1].data
      BY <2>1, <2>4 DEF Sent
    <3>2. base + EntryWords * i >= HeaderWords /\ base + EntryWords * i + 1 >= HeaderWords
      BY <2>4 DEF TypeOK, EntryWords, HeaderWords
    <3> QED
      BY <2>2, <2>4, <3>1, <3>2
  <2>5. Sent(Len(request))'
    BY <2>3, <2>4 DEF Sent
  <2> QED
    BY <2>3, <2>5 DEF SentInv
<1>4. CASE WipePage
  <2>1. serialised_offset' = 0 /\ base' = base /\ request' = request
        /\ overrun' = overrun /\ pc' = "stopped"
    BY <1>4, IndexRange DEF WipePage, serialised_offset
  <2>2. serialised_offset' = base' * WordBytes => ~ base' >= HeaderWords
    BY <2>1 DEF WordBytes, HeaderWords, TypeOK
  <2>3. serialised_offset' = base' * WordBytes => Sent(Len(request))'
    BY <2>2 DEF Sent
  <2> QED
    BY <2>1, <2>3 DEF SentInv
<1>5. CASE \/ StartLoader \/ ParseHeader \/ PopulateDone \/ AttemptFails
           \/ ReadUnknown \/ \E k \in XrtKinds : ReadEntry(k)
  <2>1. UNCHANGED <<request, base, page, overrun>>
        /\ pc # "encode" /\ pc' # "encode"
    BY <1>5 DEF StartLoader, ParseHeader, PopulateDone, AttemptFails,
                ReadUnknown, ReadEntry, InPopulate
  <2> QED
    BY <2>1 DEF SentInv, Sent, serialised_offset
<1>6. CASE UNCHANGED vars
  BY <1>6 DEF vars, SentInv, Sent, serialised_offset
<1> QED
  BY <1>1, <1>2, <1>3, <1>4, <1>5, <1>6 DEF Next
-----------------------------------------------------------------------------
(* What the loader has read so far is what the monitor asked for.          *)
ReadSoFar == \A i \in 1 .. Len(entries) : entries[i] = request[i]

ArriveInv ==
  /\ pc = "parse" => entries = <<>>
  /\ pc = "populate" => at <= total_num /\ Len(entries) = at
  /\ pc = "populated" => Len(entries) = total_num
  /\ pc \in {"populate", "populated"} /\ Honest => ReadSoFar
  /\ pc = "refused" /\ Honest => Len(request) > MaxXrt \/ base < HeaderWords

(* The entry that the loader is about to read from an honest page.         *)
LEMMA NextEntry ==
  ASSUME TypeOK, HeaderInv, SentInv, ArriveInv, InPopulate, Honest
  PROVE  /\ request[at + 1] \in KnownEntry
         /\ TypeOf(WordAt(EntryWord)) = Code[request[at + 1].type]
         /\ WordAt(EntryWord + 1) = request[at + 1].data
<1>1. PICK b \in Bases : /\ EntryWord = b + EntryWords * at
                         /\ serialised_offset = b * WordBytes
                         /\ b >= HeaderWords
                         /\ EntryWord \in PageIndex /\ EntryWord + 1 \in PageIndex
  BY EntryPlace
<1>2. b = base
  BY <1>1, BasesAssumption DEF Honest, WordBytes, TypeOK
<1>3. at < Len(request) /\ at \in Nat
  BY DEF InPopulate, Honest, TypeOK
<1>4. Sent(Len(request))
  BY DEF SentInv, InPopulate, Honest
<1>5. /\ TypeOf(page[EntryWord]) = Code[request[at + 1].type]
      /\ page[EntryWord + 1] = request[at + 1].data
  BY <1>1, <1>2, <1>3, <1>4 DEF Sent
<1>6. request[at + 1] \in KnownEntry
  BY <1>3 DEF TypeOK
<1> QED
  BY <1>1, <1>5, <1>6 DEF WordAt

LEMMA ArriveStep ==
  ASSUME TypeOK, HeaderInv, SentInv, ArriveInv, [Next]_vars
  PROVE  ArriveInv'
<1> USE DEF readVars
<1>1. CASE (\E req \in Requests, b \in Bases : PrepareXrtReqList(req, b))
           \/ EncodeEntry \/ (\E slack \in Slack : WriteHeader(slack))
           \/ WipePage \/ AttemptFails
  BY <1>1 DEF PrepareXrtReqList, EncodeEntry, WriteHeader, WipePage, AttemptFails,
              ArriveInv
<1>2. CASE StartLoader
  BY <1>2 DEF StartLoader, ArriveInv
<1>3. CASE ParseHeader
  <2>1. total_num \in Nat /\ total_num' = total_num /\ entries = <<>>
        /\ Honest' = Honest /\ entries' = entries /\ request' = request
        /\ base' = base /\ at' = 0
    BY <1>3, IndexRange
    DEF ParseHeader, ArriveInv, TypeOK, total_num, serialised_offset, Word, Honest
  <2>2. CASE pc' = "populate"
    BY <2>1, <2>2 DEF ArriveInv, ReadSoFar
  <2>3. CASE pc' = "refused"
    <3>1. ~ (TotalAccepted /\ OffsetAccepted)
      BY <1>3, <2>3 DEF ParseHeader
    <3>2. Honest => Len(request) > MaxXrt \/ base < HeaderWords
      BY <2>1, <3>1, PageAssumption
      DEF Honest, TotalAccepted, OffsetAccepted, WordBytes, HeaderWords, TypeOK
    <3> QED
      BY <2>1, <2>3, <3>2 DEF ArriveInv
  <2> QED
    BY <1>3, <2>2, <2>3 DEF ParseHeader
<1>4. ASSUME NEW k \in XrtKinds, ReadEntry(k)
      PROVE  ArriveInv'
  <2> DEFINE e == [type |-> k, data |-> WordAt(EntryWord + 1)]
  <2>1. InPopulate /\ TypeOf(WordAt(EntryWord)) = Code[k]
    BY <1>4 DEF ReadEntry
  <2>2. entries' = Append(entries, e) /\ at' = at + 1 /\ pc' = "populate"
        /\ request' = request /\ total_num' = total_num /\ Honest' = Honest
    BY <1>4 DEF ReadEntry, InPopulate, total_num, serialised_offset, Honest
  <2>3. at \in Nat /\ at < total_num /\ total_num \in Nat /\ Len(entries) = at
    BY <2>1, IndexRange DEF InPopulate, ArriveInv, TypeOK, total_num, Word
  <2>4. entries \in Seq(KnownEntry)
    BY DEF TypeOK
  <2>5. Len(entries') = at + 1 /\ entries'[at + 1] = e
        /\ \A i \in 1 .. at : entries'[i] = entries[i]
    <3> HIDE DEF e
    <3> QED
      BY <2>2, <2>3, <2>4
  <2>6. ASSUME Honest
        PROVE  e = request[at + 1]
    <3>1. request[at + 1] \in KnownEntry /\ Code[k] = Code[request[at + 1].type]
          /\ WordAt(EntryWord + 1) = request[at + 1].data
      BY <2>1, <2>6, NextEntry
    <3>2. request[at + 1].type = k
      BY <3>1, Codes DEF KnownEntry
    <3> QED
      BY <3>1, <3>2 DEF KnownEntry
  <2>7. ASSUME Honest
        PROVE  \A i \in 1 .. at + 1 : entries'[i] = request[i]
    <3>1. \A i \in 1 .. at : entries[i] = request[i]
      BY <2>1, <2>3, <2>7 DEF InPopulate, ArriveInv, ReadSoFar
    <3> HIDE DEF e
    <3> QED
      BY <2>3, <2>5, <2>6, <2>7, <3>1
  <2>8. Honest' => ReadSoFar'
    BY <2>2, <2>5, <2>7 DEF ReadSoFar
  <2> QED
    BY <2>2, <2>3, <2>5, <2>8 DEF ArriveInv
<1>5. CASE ReadUnknown
  <2>1. InPopulate /\ pc' = "refused" /\ Honest' = Honest
        /\ request' = request /\ base' = base
    BY <1>5 DEF ReadUnknown, InPopulate, Honest, total_num, serialised_offset
  <2>2. ~ Honest
    <3> SUFFICES ASSUME Honest PROVE FALSE
      OBVIOUS
    <3>1. request[at + 1].type \in XrtKinds
          /\ TypeOf(WordAt(EntryWord)) = Code[request[at + 1].type]
      BY <2>1, NextEntry DEF KnownEntry
    <3> QED
      BY <1>5, <3>1 DEF ReadUnknown
  <2> QED
    BY <2>1, <2>2 DEF ArriveInv
<1>6. CASE PopulateDone
  <2>1. at = total_num
    BY <1>6, IndexRange DEF PopulateDone, ArriveInv, TypeOK, total_num, Word
  <2> QED
    BY <1>6, <2>1
    DEF PopulateDone, ArriveInv, ReadSoFar, Honest, total_num, serialised_offset
<1>7. CASE UNCHANGED vars
  BY <1>7 DEF vars, ArriveInv, ReadSoFar, Honest, total_num, serialised_offset
<1> QED
  BY <1>1, <1>2, <1>3, <1>4, <1>5, <1>6, <1>7 DEF Next

LEMMA ArrivesWhole ==
  ASSUME TypeOK, HeaderInv, SentInv, ArriveInv
  PROVE  RequestArrives
<1>1. ASSUME pc = "populated", Honest
      PROVE  entries = request
  <2>1. Len(entries) = Len(request) /\ ReadSoFar
    BY <1>1 DEF ArriveInv, Honest
  <2> QED
    BY <2>1 DEF ReadSoFar, TypeOK
<1>2. ASSUME pc = "populated", Honest
      PROVE  ~ overrun
  <2>1. Len(request) <= MaxXrt /\ serialised_offset >= HeaderWords * WordBytes
    BY <1>2 DEF HeaderInv, Honest, TotalAccepted, OffsetAccepted
  <2>2. PICK b \in Bases : serialised_offset = b * WordBytes
    BY <1>2, <2>1 DEF HeaderInv, HeaderWords, WordBytes
  <2>3. b = base
    BY <1>2, <2>2, BasesAssumption DEF Honest, WordBytes, TypeOK
  <2>4. base + EntryWords * MaxXrt <= PageWords
    BY <2>3, BasesAssumption
  <2> QED
    BY <2>1, <2>4, PageAssumption DEF SentInv, EntryWords, TypeOK
<1> QED
  BY <1>1, <1>2 DEF RequestArrives, ArriveInv

(* A request whose header is right is read as it was asked for, or refused *)
(* because of its length or its place.                                     *)
THEOREM RequestReadAsAsked == Spec => []RequestArrives
<1>1. Init => ArriveInv
  BY DEF Init, ArriveInv
<1>2. TypeOK /\ EncodeInv /\ HeaderInv /\ SentInv /\ ArriveInv /\ [Next]_vars
      => TypeOK' /\ EncodeInv' /\ HeaderInv' /\ SentInv' /\ ArriveInv'
  BY StepTypes, HeaderStep, SentStep, ArriveStep
<1> QED
  BY <1>1, <1>2, InitTypes, HeaderInit, SentInit, ArrivesWhole, PTL DEF Spec
=============================================================================
