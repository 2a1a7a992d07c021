--------------------------- MODULE ResponseProofs ---------------------------
(***************************************************************************)
(* Proofs about ResponsePath: its decoder of replies, its decompiler of    *)
(* pages, and what the browser is answered.                                *)
(***************************************************************************)
EXTENDS ResponsePath, TLAPS, SequenceTheorems, FiniteSetTheorems, WellFoundedInduction

----------------------------------------------------------------------------
(* Numbers and sequences *)

IsLeast(n, S) == n \in S /\ \A k \in S : n <= k

(* A set of naturals that is not empty has a least element, which is the   *)
(* one that CHOOSE finds.                                                  *)
LEMMA LeastExists ==
  ASSUME NEW S, S \subseteq Nat, S # {}
  PROVE  \E n \in S : IsLeast(n, S)
  <1>1. PICK n \in S : \A k \in S : ~(<<k, n>> \in OpToRel(<, Nat))
    BY NatLessThanWellFounded, WFMin
  <1>2. ASSUME NEW k \in S PROVE n <= k
    <2>1. k \in Nat /\ n \in Nat /\ ~(k < n)
      BY <1>1 DEF OpToRel
    <2> QED
      BY <2>1
  <1> QED
    BY <1>2 DEF IsLeast

LEMMA LeastChosen ==
  ASSUME NEW S, S \subseteq Nat, S # {}
  PROVE  IsLeast(CHOOSE n \in S : \A k \in S : n <= k, S)
  <1>1. \E n \in S : \A k \in S : n <= k
    BY LeastExists DEF IsLeast
  <1> QED
    BY <1>1 DEF IsLeast

LEMMA LeastUnique ==
  ASSUME NEW S, S \subseteq Nat, NEW m, NEW n, IsLeast(m, S), IsLeast(n, S)
  PROVE  m = n
  <1>1. m \in Nat /\ n \in Nat /\ m <= n /\ n <= m
    BY DEF IsLeast
  <1> QED
    BY <1>1

LEMMA DropProperties ==
  ASSUME NEW S, NEW s \in Seq(S), NEW n \in Nat
  PROVE  /\ Drop(s, n) \in Seq(S)
         /\ Len(Drop(s, n)) = IF n <= Len(s) THEN Len(s) - n ELSE 0
         /\ \A i \in 1..(Len(s) - n) : Drop(s, n)[i] = s[n + i]
  <1>1. Len(s) \in Nat /\ \A i \in (n + 1)..Len(s) : s[i] \in S
    BY ElementOfSeq, LenProperties
  <1>2. /\ SubSeq(s, n + 1, Len(s)) \in Seq(S)
        /\ Len(SubSeq(s, n + 1, Len(s))) = IF n + 1 <= Len(s) THEN Len(s) - (n + 1) + 1 ELSE 0
        /\ \A i \in 1..(Len(s) - (n + 1) + 1) : SubSeq(s, n + 1, Len(s))[i] = s[n + 1 + i - 1]
    BY <1>1, SubSeqProperties
  <1> QED
    BY <1>1, <1>2 DEF Drop

LEMMA DropWithin ==
  ASSUME NEW S, NEW s \in Seq(S), NEW n \in Nat, NEW l \in Nat, Len(s) = l, n <= l
  PROVE  /\ Drop(s, n) \in Seq(S) /\ Len(Drop(s, n)) = l - n
         /\ \A i \in 1..(l - n) : Drop(s, n)[i] = s[n + i]
  BY DropProperties

LEMMA FrontFacts ==
  ASSUME NEW S, NEW s \in Seq(S), s # <<>>
  PROVE  /\ Last(s) \in S /\ Last(s) = s[Len(s)] /\ Front(s) \in Seq(S)
         /\ Len(s) \in Nat /\ Len(s) > 0 /\ Len(Front(s)) = Len(s) - 1
         /\ \A i \in 1..(Len(s) - 1) : Front(s)[i] = s[i]
  <1> DEFINE n == Len(s) - 1
  <1>1. Len(s) \in Nat /\ Len(s) > 0
    BY EmptySeq, LenProperties
  <1>2. s[Len(s)] \in S /\ \A i \in 1..n : s[i] \in S
    BY <1>1, ElementOfSeq
  <1>3. n \in Nat
    BY <1>1
  <1> HIDE DEF n
  <1>4. /\ SubSeq(s, 1, n) \in Seq(S)
        /\ Len(SubSeq(s, 1, n)) = IF 1 <= n THEN n - 1 + 1 ELSE 0
        /\ \A i \in 1..(n - 1 + 1) : SubSeq(s, 1, n)[i] = s[1 + i - 1]
    BY <1>2, <1>3, SubSeqProperties
  <1>5. /\ Len(SubSeq(s, 1, n)) = n
        /\ \A i \in 1..n : SubSeq(s, 1, n)[i] = s[i]
    BY <1>3, <1>4
  <1>6. Front(s) = SubSeq(s, 1, n) /\ Last(s) = s[Len(s)]
    BY DEF Front, Last, n
  <1> QED
    BY <1>1, <1>2, <1>4, <1>5, <1>6 DEF n

LEMMA OctetType == ASSUME NEW o \in Octets PROVE o \in Nat /\ o < 256
  BY DEF Octets

LEMMA OctetAt ==
  ASSUME NEW s \in Seq(Octets), NEW i \in 1..Len(s)
  PROVE  s[i] \in Nat /\ s[i] < 256 /\ s[i] \in Octets
  BY ElementOfSeq, OctetType

----------------------------------------------------------------------------
(* The length of the headers *)

(* The least end of an integer in d is its last octet. *)
UintvarEnds(d) == {i \in DOMAIN d : i <= 5 /\ d[i] < 128}

LEMMA UintvarUsed ==
  ASSUME NEW d \in Seq(Octets)
  PROVE  LET r == decodeUintvar(d) IN
         /\ r.used \in 0..Len(d) /\ r.used <= 5 /\ r.value \in Nat
         /\ UintvarEnds(d) = {} => r.used = 0 /\ r.value = 0
         /\ UintvarEnds(d) # {} => IsLeast(r.used, UintvarEnds(d)) /\ r.value = UintvarValue(d, r.used)
  <1> DEFINE octets == UintvarEnds(d)
             n == CHOOSE i \in octets : \A j \in octets : i <= j
  <1>1. Len(d) \in Nat /\ DOMAIN d = 1..Len(d)
    BY LenProperties
  <1>2. octets \subseteq 1..Len(d) /\ octets \subseteq Nat /\ \A i \in octets : i <= 5
    BY <1>1 DEF UintvarEnds
  <1>3. decodeUintvar(d) = IF octets = {} THEN [used |-> 0, value |-> 0]
                           ELSE [used |-> n, value |-> UintvarValue(d, n)]
    BY DEF decodeUintvar, UintvarEnds, MaxOctets
  <1>4. CASE octets = {}
    BY <1>1, <1>3, <1>4
  <1>5. CASE octets # {}
    <2>1. IsLeast(n, octets)
      BY <1>2, <1>5, LeastChosen
    <2> HIDE DEF n
    <2>2. n \in 1..Len(d) /\ n <= 5
      BY <1>2, <2>1 DEF IsLeast
    <2>3. UintvarValue(d, n) \in Nat
      <3> DEFINE Bits(k) == IF k < n THEN (d[n - k] % 128) * 128^k ELSE 0
      <3>1. ASSUME NEW k \in 0..4, k < n PROVE (d[n - k] % 128) \in Nat
        <4>1. n - k \in 1..Len(d)
          BY <1>1, <2>2, <3>1
        <4> QED
          BY <4>1, OctetAt
      <3>2. Bits(0) \in Nat /\ Bits(1) \in Nat /\ Bits(2) \in Nat /\ Bits(3) \in Nat /\ Bits(4) \in Nat
        BY <3>1
      <3>3. UintvarValue(d, n) = Bits(0) + Bits(1) + Bits(2) + Bits(3) + Bits(4)
        BY DEF UintvarValue
      <3> HIDE DEF Bits
      <3> QED
        BY <3>2, <3>3
    <2> QED
      BY <1>1, <1>3, <1>5, <2>1, <2>2, <2>3
  <1> QED
    BY <1>4, <1>5

LEMMA HeadersFacts ==
  ASSUME NEW d \in Seq(Octets)
  PROVE  /\ Len(d) \in Nat /\ HeadersStart(d) \in Nat /\ HeadersLength(d).value \in Nat
         /\ HeadersLength(d).used \in Nat
         /\ IsReply(d) => /\ HeadersStart(d) <= Len(d)
                          /\ HeadersLength(d).value = 0 => HeadersFit(d)
  <1>1. Len(d) \in Nat
    BY LenProperties
  <1>2. Drop(d, 2) \in Seq(Octets) /\ Len(Drop(d, 2)) = IF 2 <= Len(d) THEN Len(d) - 2 ELSE 0
    BY DropProperties, ZenonT(60)
  <1>3. /\ HeadersLength(d).used \in 0..Len(Drop(d, 2))
        /\ HeadersLength(d).value \in Nat
    BY <1>2, UintvarUsed DEF HeadersLength
  <1> QED
    BY <1>1, <1>2, <1>3 DEF HeadersStart, HeadersFit, IsReply

LEMMA StatusKnown ==
  ASSUME NEW w \in Nat
  PROVE  wspStatusToHttp(w) \in StatusTexts /\ wspStatusToHttp(w) \in Nat
  <1>1. CASE w \in 16..17
    BY <1>1 DEF wspStatusToHttp, StatusTexts
  <1>2. CASE w \in 32..38
    BY <1>2 DEF wspStatusToHttp, StatusTexts
  <1>3. CASE w \in (48..53) \cup {55}
    BY <1>3 DEF wspStatusToHttp, StatusTexts
  <1>4. CASE w \in 64..81
    BY <1>4 DEF wspStatusToHttp, StatusTexts
  <1>5. CASE w \in 96..101
    BY <1>5 DEF wspStatusToHttp, StatusTexts
  <1>6. CASE /\ w \notin 16..17 /\ w \notin 32..38 /\ w \notin (48..53) \cup {55}
             /\ w \notin 64..81 /\ w \notin 96..101
    <2>1. wspStatusToHttp(w) = 500
      BY <1>6 DEF wspStatusToHttp
    <2> QED
      BY <2>1 DEF StatusTexts
  <1> QED
    BY <1>1, <1>2, <1>3, <1>4, <1>5, <1>6

----------------------------------------------------------------------------
(* The decoder of a reply *)

Responses ==
  [ok : BOOLEAN, status : Nat, type : Seq(Octets), length : Nat, server : Seq(Octets),
   location : Seq(Octets), body : Seq(Octets)]

FieldsFit(r) == \A field \in DOMAIN FieldSize : Len(r[field]) < FieldSize[field]

(* Headers are parsed only where they end within the PDU. *)
Parsing ==
  /\ IsReply(data) /\ HeadersLength(data).value > 0 /\ HeadersFit(data)
  /\ resp.status = wspStatusToHttp(data[2]) /\ hpos >= 1

(* What decode ends with, whatever the headers were. *)
Decoded ==
  IF IsReply(data)
  THEN /\ resp.ok
       /\ resp.status = wspStatusToHttp(data[2])
       /\ IF HeadersFit(data)
          THEN resp.body = Drop(data, HeadersStart(data) + HeadersLength(data).value)
          ELSE /\ resp.body = Drop(data, HeadersStart(data))
               /\ resp.type = <<>> /\ resp.server = <<>>
  ELSE resp = EmptyResponse

WspInv ==
  /\ dpc \in {"idle", "pdu", "type", "fields", "done"}
  /\ data \in Seq(Octets) /\ hpos \in Nat
  /\ resp \in Responses /\ FieldsFit(resp)
  /\ dpc \in {"idle", "pdu"} => resp = EmptyResponse
  /\ dpc = "pdu" => hpos = 1
  /\ dpc \in {"type", "fields"} => Parsing
  /\ dpc = "done" => Decoded

LEMMA EmptyTyped == EmptyResponse \in Responses /\ FieldsFit(EmptyResponse)
  <1>1. <<>> \in Seq(Octets) /\ Len(<<>>) = 0
    BY EmptySeq
  <1>2. EmptyResponse \in Responses
    BY <1>1 DEF EmptyResponse, Responses
  <1>3. FieldsFit(EmptyResponse)
    BY <1>1 DEF EmptyResponse, FieldsFit, FieldSize
  <1> QED
    BY <1>2, <1>3

LEMMA StartDecodeTyped ==
  ASSUME NEW p \in Seq(Octets), StartDecode(p)
  PROVE  WspInv'
  <1>1. Drop(p, 1) \in Seq(Octets)
    BY DropProperties
  <1> QED
    BY <1>1, EmptyTyped DEF StartDecode, WspInv

(* The headers, while they are parsed. *)
LEMMA HeadersTyped ==
  ASSUME WspInv, Parsing
  PROVE  /\ H \in Seq(Octets) /\ Len(H) = HeadersLength(data).value /\ Len(H) \in Nat \ {0}
         /\ data[2] \in Nat
  <1> DEFINE a == HeadersStart(data)
             v == HeadersLength(data).value
  <1>1. data \in Seq(Octets) /\ a \in Nat /\ v \in Nat /\ Len(data) \in Nat /\ v > 0 /\ a + v <= Len(data)
    BY HeadersFacts DEF WspInv, Parsing, HeadersFit
  <1>2. H = SubSeq(data, a + 1, a + v)
    BY DEF H
  <1>3. 2 \in 1..Len(data)
    BY <1>1 DEF Parsing, IsReply
  <1> HIDE DEF a, v
  <1>4. \A i \in (a + 1)..(a + v) : data[i] \in Octets
    BY <1>1, ElementOfSeq
  <1>5. H \in Seq(Octets) /\ Len(H) = IF a + 1 <= a + v THEN a + v - (a + 1) + 1 ELSE 0
    BY <1>1, <1>2, <1>4, SubSeqProperties
  <1>6. Len(H) = v /\ v \in Nat \ {0}
    BY <1>1, <1>5
  <1>7. data[2] \in Nat
    BY <1>1, <1>3, OctetAt
  <1> QED
    BY <1>5, <1>6, <1>7 DEF v

(* The end of a string in the headers. *)
LEMMA NulAfter ==
  ASSUME H \in Seq(Octets), NEW p \in 1..Len(H)
  PROVE  Nul(p) \in Nat /\ Nul(p) >= p /\ Nul(p) <= Len(H) + 1
  <1> DEFINE nuls == {n \in p..Len(H) : H[n] = 0}
  <1>1. Len(H) \in Nat
    BY LenProperties
  <1>2. nuls \subseteq Nat
    BY <1>1
  <1>3. Nul(p) = IF nuls = {} THEN Len(H) + 1 ELSE CHOOSE n \in nuls : \A k \in nuls : n <= k
    BY DEF Nul
  <1>4. CASE nuls = {}
    BY <1>1, <1>3, <1>4
  <1>5. CASE nuls # {}
    <2>1. IsLeast(Nul(p), nuls)
      BY <1>2, <1>3, <1>5, LeastChosen
    <2> QED
      BY <1>1, <2>1 DEF IsLeast
  <1> QED
    BY <1>4, <1>5

TextFields == {"type", "server", "location"}

LEMMA ThreeFields ==
  /\ \A r : FieldsFit(r) <=> /\ Len(r.type) < FieldSize["type"]
                             /\ Len(r.server) < FieldSize["server"]
                             /\ Len(r.location) < FieldSize["location"]
  /\ \A field \in TextFields : FieldSize[field] \in Nat /\ FieldSize[field] >= 64
  <1>1. DOMAIN FieldSize = TextFields
    BY DEF FieldSize, TextFields
  <1>2. \A field \in TextFields : FieldSize[field] \in Nat /\ FieldSize[field] >= 64
    BY DEF FieldSize, TextFields
  <1>3. ASSUME NEW r
        PROVE  FieldsFit(r) <=> /\ Len(r.type) < FieldSize["type"]
                                /\ Len(r.server) < FieldSize["server"]
                                /\ Len(r.location) < FieldSize["location"]
    BY <1>1 DEF FieldsFit, TextFields
  <1> QED
    BY <1>2, <1>3

(* Storing a text that fits, a length or a body changes nothing else. *)
LEMMA SetField ==
  ASSUME NEW r \in Responses, FieldsFit(r), NEW field \in TextFields,
         NEW t \in Seq(Octets), Len(t) < FieldSize[field]
  PROVE  LET n == [r EXCEPT ![field] = t] IN
         n \in Responses /\ FieldsFit(n) /\ n.status = r.status
  <1> DEFINE n == [r EXCEPT ![field] = t]
  <1>1. n \in Responses /\ n.status = r.status
    BY DEF Responses, TextFields
  <1>2. /\ n.type = (IF field = "type" THEN t ELSE r.type)
        /\ n.server = (IF field = "server" THEN t ELSE r.server)
        /\ n.location = (IF field = "location" THEN t ELSE r.location)
    BY DEF Responses, TextFields
  <1> HIDE DEF n
  <1>3. FieldsFit(n)
    BY <1>2, ThreeFields
  <1> QED
    BY <1>1, <1>3 DEF n

LEMMA SetLength ==
  ASSUME NEW r \in Responses, FieldsFit(r), NEW m \in Nat
  PROVE  LET n == [r EXCEPT !.length = m] IN
         n \in Responses /\ FieldsFit(n) /\ n.status = r.status
  <1> DEFINE n == [r EXCEPT !.length = m]
  <1>1. n \in Responses /\ n.status = r.status
    BY DEF Responses
  <1>2. n.type = r.type /\ n.server = r.server /\ n.location = r.location
    BY DEF Responses
  <1> HIDE DEF n
  <1>3. FieldsFit(n)
    BY <1>2, ThreeFields
  <1> QED
    BY <1>1, <1>3 DEF n

LEMMA SetBody ==
  ASSUME data \in Seq(Octets), NEW r \in Responses, FieldsFit(r), NEW from \in Nat
  PROVE  LET n == WithBody(r, from) IN
         /\ n \in Responses /\ FieldsFit(n) /\ n.ok /\ n.status = r.status
         /\ n.body = Drop(data, from) /\ n.type = r.type /\ n.server = r.server
  <1> DEFINE body == Drop(data, from)
             m == IF r.length = 0 THEN Len(body) ELSE r.length
  <1>1. body \in Seq(Octets) /\ m \in Nat
    <2>1. body \in Seq(Octets)
      BY DropProperties
    <2> QED
      BY <2>1, LenProperties DEF Responses
  <1>2. WithBody(r, from) = [r EXCEPT !.ok = TRUE, !.body = body, !.length = m]
    BY DEF WithBody
  <1> HIDE DEF body, m
  <1> DEFINE n == WithBody(r, from)
  <1>3. n \in Responses
    BY <1>1, <1>2 DEF Responses
  <1>4. /\ n.ok = TRUE /\ n.status = r.status /\ n.body = body
        /\ n.type = r.type /\ n.server = r.server /\ n.location = r.location
    BY <1>2 DEF Responses
  <1> HIDE DEF n
  <1>5. FieldsFit(n)
    BY <1>4, ThreeFields
  <1> QED
    BY <1>3, <1>4, <1>5 DEF body, n

LEMMA TextTyped ==
  ASSUME H \in Seq(Octets), NEW r \in Responses, FieldsFit(r), NEW field \in TextFields, NEW p \in 1..Len(H)
  PROVE  LET n == WithText(r, field, p) IN
         n \in Responses /\ FieldsFit(n) /\ n.status = r.status
  <1> DEFINE t == SubSeq(H, p, Nul(p) - 1)
  <1>1. Nul(p) \in Nat /\ Nul(p) >= p /\ Nul(p) <= Len(H) + 1 /\ Len(H) \in Nat
    BY NulAfter, LenProperties
  <1>2. \A i \in p..(Nul(p) - 1) : H[i] \in Octets
    BY <1>1, ElementOfSeq
  <1>3. t \in Seq(Octets) /\ Len(t) = IF p <= Nul(p) - 1 THEN Nul(p) - 1 - p + 1 ELSE 0
    BY <1>1, <1>2, SubSeqProperties
  <1>4. Len(t) = Nul(p) - p
    BY <1>1, <1>3
  <1>5. WithText(r, field, p) = IF Nul(p) - p < FieldSize[field] THEN [r EXCEPT ![field] = t] ELSE r
    BY DEF WithText
  <1> HIDE DEF t
  <1> QED
    BY <1>3, <1>4, <1>5, SetField

LEMMA TypeCodeTyped ==
  ASSUME NEW code \in Nat, code < 128
  PROVE  contentTypeToString(code) \in Seq(Octets) /\ Len(contentTypeToString(code)) = 1
  <1>1. 128 + code \in Nat /\ (code < 64 => 128 + code \in Octets) /\ 255 \in Octets
    BY DEF Octets
  <1> QED
    BY <1>1 DEF contentTypeToString

(* A header was parsed. *)
LEMMA KeepParsing ==
  ASSUME WspInv, Parsing, data' = data, dpc' = "fields", resp' \in Responses, FieldsFit(resp'),
         resp'.status = resp.status, hpos' \in Nat, hpos' >= 1
  PROVE  WspInv'
  <1>1. Parsing'
    BY DEF Parsing
  <1> QED
    BY <1>1 DEF WspInv

LEMMA StepDecodePDU == ASSUME WspInv, DecodePDU PROVE WspInv'
  <1>1. /\ data \in Seq(Octets) /\ data' = data /\ hpos' = hpos /\ hpos = 1 /\ resp = EmptyResponse
        /\ resp \in Responses /\ FieldsFit(resp)
    BY DEF WspInv, DecodePDU
  <1>2. CASE ~IsReply(data)
    <2>1. dpc' = "done" /\ resp' = resp
      BY <1>2 DEF DecodePDU
    <2> QED
      BY <1>1, <1>2, <2>1 DEF WspInv, Decoded
  <1>3. CASE IsReply(data)
    <2> DEFINE r == [resp EXCEPT !.status = wspStatusToHttp(data[2])]
               a == HeadersStart(data)
    <2>1. data[2] \in Nat
      <3>1. 2 \in 1..Len(data)
        BY <1>1, <1>3, LenProperties DEF IsReply
      <3> QED
        BY <1>1, <3>1, OctetAt
    <2>2. wspStatusToHttp(data[2]) \in Nat
      BY <2>1, StatusKnown
    <2>3. r \in Responses /\ r.status = wspStatusToHttp(data[2]) /\ r.type = <<>> /\ r.server = <<>> /\ r.location = <<>>
      BY <1>1, <2>2 DEF Responses, EmptyResponse
    <2>4. FieldsFit(r)
      BY <1>1, <2>3, ThreeFields DEF EmptyResponse
    <2>5. IF HeadersLength(data).value > 0 /\ HeadersFit(data)
          THEN dpc' = "type" /\ resp' = r
          ELSE dpc' = "done" /\ resp' = WithBody(r, a)
      BY <1>3 DEF DecodePDU
    <2>6. a \in Nat /\ HeadersLength(data).value \in Nat /\ (HeadersLength(data).value = 0 => HeadersFit(data))
      BY <1>1, <1>3, HeadersFacts
    <2> HIDE DEF r
    <2>7. CASE HeadersLength(data).value > 0 /\ HeadersFit(data)
      BY <1>1, <1>3, <2>3, <2>4, <2>5, <2>7 DEF WspInv, Parsing
    <2>8. CASE ~(HeadersLength(data).value > 0 /\ HeadersFit(data))
      <3> HIDE DEF a
      <3>0. LET n == WithBody(r, a) IN
            /\ n \in Responses /\ FieldsFit(n) /\ n.ok /\ n.status = r.status
            /\ n.body = Drop(data, a) /\ n.type = r.type /\ n.server = r.server
        BY <1>1, <2>3, <2>4, <2>6, SetBody
      <3>1. /\ resp' \in Responses /\ FieldsFit(resp') /\ resp'.ok /\ resp'.status = wspStatusToHttp(data[2])
            /\ resp'.body = Drop(data, a) /\ resp'.type = <<>> /\ resp'.server = <<>>
        BY <2>3, <2>5, <2>8, <3>0
      <3>2. HeadersFit(data) => a + HeadersLength(data).value = a
        BY <2>6, <2>8
      <3>3. Decoded'
        BY <1>1, <1>3, <3>1, <3>2 DEF Decoded, a
      <3> QED
        BY <1>1, <2>5, <2>8, <3>1, <3>3 DEF WspInv
    <2> QED
      BY <2>7, <2>8
  <1> QED
    BY <1>2, <1>3

LEMMA StepContentType == ASSUME WspInv, ParseContentType PROVE WspInv'
  <1>1. /\ Parsing /\ H \in Seq(Octets) /\ Len(H) \in Nat \ {0} /\ data' = data /\ dpc' = "fields"
        /\ resp \in Responses /\ FieldsFit(resp)
    BY HeadersTyped DEF WspInv, ParseContentType
  <1>2. H[1] \in Nat /\ H[1] < 256 /\ (Len(H) > 1 => H[2] \in Nat /\ H[2] < 256)
    BY <1>1, OctetAt
  <1>3. ASSUME NEW o \in Nat, o < 256, o >= 128
        PROVE  LET n == [resp EXCEPT !.type = contentTypeToString(o - 128)] IN
               n \in Responses /\ FieldsFit(n) /\ n.status = resp.status
    <2> DEFINE t == contentTypeToString(o - 128)
    <2>1. o - 128 \in Nat /\ o - 128 < 128
      BY <1>3
    <2>2. t \in Seq(Octets) /\ Len(t) = 1
      BY <2>1, TypeCodeTyped
    <2> HIDE DEF t
    <2>3. Len(t) < FieldSize["type"] /\ "type" \in TextFields
      BY <2>2, ThreeFields DEF TextFields
    <2>4. [resp EXCEPT !.type = t] = [resp EXCEPT !["type"] = t]
      OBVIOUS
    <2> QED
      BY <1>1, <2>2, <2>3, <2>4, SetField DEF t
  <1> DEFINE h == H[1]
  <1>a. h \in Nat /\ h < 256
    BY <1>2
  <1>b. \/ /\ h >= 128
           /\ resp' = [resp EXCEPT !.type = contentTypeToString(h - 128)]
           /\ hpos' = 2
        \/ /\ h < 32
           /\ resp' = IF Len(H) > 1 /\ H[2] >= 128
                      THEN [resp EXCEPT !.type = contentTypeToString(H[2] - 128)] ELSE resp
           /\ hpos' = 2 + h
        \/ /\ h \in 32..127
           /\ resp' = WithText(resp, "type", 1)
           /\ hpos' = Nul(1) + 1
    BY Zenon DEF ParseContentType
  <1> HIDE DEF h
  <1>4. ASSUME h >= 128, resp' = [resp EXCEPT !.type = contentTypeToString(h - 128)], hpos' = 2
        PROVE  WspInv'
    BY <1>1, <1>3, <1>4, <1>a, KeepParsing
  <1>5. ASSUME h < 32, hpos' = 2 + h,
               resp' = IF Len(H) > 1 /\ H[2] >= 128
                       THEN [resp EXCEPT !.type = contentTypeToString(H[2] - 128)] ELSE resp
        PROVE  WspInv'
    <2>2. resp' \in Responses /\ FieldsFit(resp') /\ resp'.status = resp.status
      BY <1>1, <1>2, <1>3, <1>5
    <2>3. hpos' \in Nat /\ hpos' >= 1
      BY <1>a, <1>5
    <2> QED
      BY <1>1, <2>2, <2>3, KeepParsing
  <1>6. ASSUME resp' = WithText(resp, "type", 1), hpos' = Nul(1) + 1
        PROVE  WspInv'
    <2>2. 1 \in 1..Len(H) /\ "type" \in TextFields
      BY <1>1 DEF TextFields
    <2>3. resp' \in Responses /\ FieldsFit(resp') /\ resp'.status = resp.status
      BY <1>1, <1>6, <2>2, TextTyped
    <2>4. hpos' \in Nat /\ hpos' >= 1
      BY <1>1, <1>6, <2>2, NulAfter
    <2> QED
      BY <1>1, <2>3, <2>4, KeepParsing
  <1> QED
    BY <1>b, <1>4, <1>5, <1>6

LEMMA OctetsValueTyped ==
  ASSUME H \in Seq(Octets), NEW from \in Nat, from >= 1, NEW to \in Int, to <= Len(H)
  PROVE  OctetsValue(from, to) \in Nat
  <1> DEFINE Byte(k) == IF to - k >= from THEN H[to - k] * 256^k ELSE 0
  <1>1. ASSUME NEW k \in 0..3, to - k >= from PROVE H[to - k] \in Nat
    <2>1. to - k \in 1..Len(H)
      BY <1>1, LenProperties
    <2> QED
      BY <2>1, OctetAt
  <1>2. Byte(0) \in Nat /\ Byte(1) \in Nat /\ Byte(2) \in Nat /\ Byte(3) \in Nat
    BY <1>1
  <1>3. OctetsValue(from, to) = Byte(0) + Byte(1) + Byte(2) + Byte(3)
    BY DEF OctetsValue
  <1> HIDE DEF Byte
  <1> QED
    BY <1>2, <1>3

(* Each way to read the value of a header keeps what was read before. *)
LEMMA StepText ==
  ASSUME H \in Seq(Octets), resp \in Responses, FieldsFit(resp), hpos \in Nat, hpos >= 1, hpos < Len(H),
         NEW field \in TextFields, ParseText(field)
  PROVE  /\ resp' \in Responses /\ FieldsFit(resp') /\ resp'.status = resp.status
         /\ hpos' \in Nat /\ hpos' >= 1
  <1>1. hpos + 1 \in 1..Len(H)
    BY LenProperties
  <1>2. CASE H[hpos + 1] < 128
    <2>1. resp' = WithText(resp, field, hpos + 1) /\ hpos' = Nul(hpos + 1) + 1
      BY <1>2 DEF ParseText
    <2>2. Nul(hpos + 1) \in Nat
      BY <1>1, NulAfter
    <2>3. LET n == WithText(resp, field, hpos + 1) IN
          n \in Responses /\ FieldsFit(n) /\ n.status = resp.status
      BY <1>1, TextTyped
    <2> QED
      BY <2>1, <2>2, <2>3
  <1>3. CASE ~(H[hpos + 1] < 128)
    BY <1>3 DEF ParseText
  <1> QED
    BY <1>2, <1>3

LEMMA StepContentLength ==
  ASSUME H \in Seq(Octets), resp \in Responses, FieldsFit(resp), hpos \in Nat, hpos >= 1, hpos < Len(H),
         ParseContentLength
  PROVE  /\ resp' \in Responses /\ FieldsFit(resp') /\ resp'.status = resp.status
         /\ hpos' \in Nat /\ hpos' >= 1
  <1> DEFINE v == H[hpos + 1]
  <1>1. v \in Nat /\ Len(H) \in Nat
    <2>1. hpos + 1 \in 1..Len(H)
      BY LenProperties
    <2> QED
      BY <2>1, OctetAt, LenProperties
  <1>2. \/ /\ v >= 128
           /\ resp' = [resp EXCEPT !.length = v - 128]
           /\ hpos' = hpos + 2
        \/ /\ v < 31
           /\ hpos' = IF hpos + 2 + v <= Len(H) THEN hpos + 2 + v ELSE Len(H) + 1
           /\ resp' = [resp EXCEPT !.length = OctetsValue(hpos + 2, hpos' - 1)]
        \/ /\ v \in 31..127
           /\ hpos' = hpos + 2
           /\ resp' = resp
    BY Zenon DEF ParseContentLength
  <1> HIDE DEF v
  <1>3. ASSUME v >= 128, resp' = [resp EXCEPT !.length = v - 128], hpos' = hpos + 2
        PROVE  /\ resp' \in Responses /\ FieldsFit(resp') /\ resp'.status = resp.status
               /\ hpos' \in Nat /\ hpos' >= 1
    <2>1. v - 128 \in Nat
      BY <1>1, <1>3
    <2> QED
      BY <1>3, <2>1, SetLength
  <1>4. ASSUME hpos' = IF hpos + 2 + v <= Len(H) THEN hpos + 2 + v ELSE Len(H) + 1,
               resp' = [resp EXCEPT !.length = OctetsValue(hpos + 2, hpos' - 1)]
        PROVE  /\ resp' \in Responses /\ FieldsFit(resp') /\ resp'.status = resp.status
               /\ hpos' \in Nat /\ hpos' >= 1
    <2>1. /\ hpos' \in Nat /\ hpos' >= 1 /\ hpos' - 1 \in Int /\ hpos' - 1 <= Len(H)
          /\ hpos + 2 \in Nat /\ hpos + 2 >= 1
      BY <1>1, <1>4
    <2>2. OctetsValue(hpos + 2, hpos' - 1) \in Nat
      BY <2>1, OctetsValueTyped
    <2> QED
      BY <1>4, <2>1, <2>2, SetLength
  <1>5. ASSUME hpos' = hpos + 2, resp' = resp
        PROVE  /\ resp' \in Responses /\ FieldsFit(resp') /\ resp'.status = resp.status
               /\ hpos' \in Nat /\ hpos' >= 1
    BY <1>5
  <1> QED
    BY <1>2, <1>3, <1>4, <1>5

LEMMA SkipValueTyped ==
  ASSUME H \in Seq(Octets), NEW p \in 1..Len(H)
  PROVE  SkipValue(p) \in Nat /\ SkipValue(p) >= 1
  <1>1. H[p] \in Nat /\ Nul(p) \in Nat /\ p \in Nat /\ p >= 1
    BY OctetAt, NulAfter, LenProperties
  <1> QED
    BY <1>1 DEF SkipValue

LEMMA StepParseField == ASSUME WspInv, ParseField PROVE WspInv'
  <1>1. /\ Parsing /\ H \in Seq(Octets) /\ Len(H) \in Nat /\ data' = data /\ dpc' = "fields"
        /\ resp \in Responses /\ FieldsFit(resp)
        /\ hpos \in Nat /\ hpos >= 1 /\ hpos <= Len(H)
    BY HeadersTyped DEF WspInv, ParseField, Parsing
  <1>2. SUFFICES /\ resp' \in Responses /\ FieldsFit(resp') /\ resp'.status = resp.status
                 /\ hpos' \in Nat /\ hpos' >= 1
    BY <1>1, KeepParsing
  <1>3. \/ hpos' = hpos + 1 /\ resp' = resp
        \/ /\ hpos < Len(H)
           /\ \/ ParseText("server")
              \/ ParseText("location")
              \/ ParseContentLength
              \/ hpos' = SkipValue(hpos + 1) /\ resp' = resp
        \/ /\ hpos' = LET value == Nul(hpos) + 1 IN
                      IF value > Len(H) THEN value
                      ELSE IF H[value] >= 128 THEN value + 1 ELSE Nul(value) + 1
           /\ resp' = resp
    BY DEF ParseField
  <1>4. "server" \in TextFields /\ "location" \in TextFields
    BY DEF TextFields
  <1>5. CASE hpos' = hpos + 1 /\ resp' = resp
    BY <1>1, <1>5
  <1>6. CASE hpos < Len(H) /\ ParseText("server")
    BY <1>1, <1>4, <1>6, StepText
  <1>7. CASE hpos < Len(H) /\ ParseText("location")
    BY <1>1, <1>4, <1>7, StepText
  <1>8. CASE hpos < Len(H) /\ ParseContentLength
    BY <1>1, <1>8, StepContentLength
  <1>9. CASE hpos < Len(H) /\ hpos' = SkipValue(hpos + 1) /\ resp' = resp
    <2>1. hpos + 1 \in 1..Len(H)
      BY <1>1, <1>9
    <2> QED
      BY <1>1, <1>9, <2>1, SkipValueTyped
  <1>10. ASSUME hpos' = LET value == Nul(hpos) + 1 IN
                        IF value > Len(H) THEN value
                        ELSE IF H[value] >= 128 THEN value + 1 ELSE Nul(value) + 1,
                resp' = resp
         PROVE  hpos' \in Nat /\ hpos' >= 1
    <2> DEFINE value == Nul(hpos) + 1
    <2>1. value \in Nat /\ value >= 1
      BY <1>1, NulAfter
    <2>2. hpos' = IF value > Len(H) THEN value ELSE IF H[value] >= 128 THEN value + 1 ELSE Nul(value) + 1
      BY <1>10
    <2> HIDE DEF value
    <2>3. ~(value > Len(H)) => Nul(value) \in Nat
      BY <1>1, <2>1, NulAfter
    <2> QED
      BY <2>1, <2>2, <2>3
  <1> QED
    BY <1>1, <1>3, <1>5, <1>6, <1>7, <1>8, <1>9, <1>10

LEMMA StepEndFields == ASSUME WspInv, EndFields PROVE WspInv'
  <1> DEFINE from == HeadersStart(data) + Len(H)
  <1>1. /\ Parsing /\ Len(H) = HeadersLength(data).value /\ data' = data /\ dpc' = "done" /\ hpos' = hpos
        /\ data \in Seq(Octets) /\ resp \in Responses /\ FieldsFit(resp) /\ hpos \in Nat
        /\ resp' = WithBody(resp, from)
    BY HeadersTyped DEF WspInv, EndFields
  <1>2. from \in Nat
    BY <1>1, HeadersFacts
  <1> HIDE DEF from
  <1>3. LET n == WithBody(resp, from) IN
        /\ n \in Responses /\ FieldsFit(n) /\ n.ok /\ n.status = resp.status /\ n.body = Drop(data, from)
    BY <1>1, <1>2, SetBody
  <1>4. Decoded'
    BY <1>1, <1>3 DEF Decoded, Parsing, from
  <1> QED
    BY <1>1, <1>3, <1>4 DEF WspInv

LEMMA StepDecode == ASSUME WspInv, Decode PROVE WspInv'
  BY StepDecodePDU, StepContentType, StepParseField, StepEndFields DEF Decode

LEMMA StutterDecode == ASSUME WspInv, UNCHANGED wspVars PROVE WspInv'
  <1>1. dpc' = dpc /\ data' = data /\ hpos' = hpos /\ resp' = resp
    BY DEF wspVars
  <1> QED
    BY <1>1 DEF WspInv, Parsing, Decoded

(* What decode ends with is what parseReplyPDU says. *)
LEMMA DecodedAgrees == ASSUME WspInv PROVE ReadersAgree
  <1>1. SUFFICES ASSUME dpc = "done" PROVE ReadersAgree
    BY DEF ReadersAgree
  <1>2. Decoded /\ data \in Seq(Octets)
    BY <1>1 DEF WspInv
  <1>3. HeadersFit(data) <=> ~(HeadersStart(data) + HeadersLength(data).value > Len(data))
    BY <1>2, HeadersFacts DEF HeadersFit
  <1>4. CASE IsReply(data) /\ HeadersFit(data)
    BY <1>2, <1>3, <1>4 DEF Decoded, ReadersAgree, parseReplyPDU
  <1>5. CASE IsReply(data) /\ ~HeadersFit(data)
    BY <1>2, <1>3, <1>5 DEF Decoded, ReadersAgree, parseReplyPDU
  <1>6. CASE ~IsReply(data)
    BY <1>2, <1>6 DEF Decoded, ReadersAgree, parseReplyPDU, EmptyResponse
  <1> QED
    BY <1>4, <1>5, <1>6

----------------------------------------------------------------------------
(* The decompiler: tables, numbers and strings *)

LEMMA TablesTyped ==
  /\ ElementLen \in Seq(Nat) /\ AttributeLen \in Seq(Nat)
  /\ PrefixLen \in Seq(Nat) /\ AttrValueLen \in Seq(Nat)
  <1>1. ElementLen \in Seq(Nat)
    BY DEF ElementLen
  <1>2. AttributeLen \in Seq(Nat)
    BY DEF AttributeLen
  <1>3. PrefixLen \in Seq(Nat)
    BY DEF PrefixLen
  <1>4. AttrValueLen \in Seq(Nat)
    BY DEF AttrValueLen
  <1> QED
    BY <1>1, <1>2, <1>3, <1>4

LEMMA EntryTyped ==
  ASSUME NEW table \in Seq(Nat), NEW first, NEW t
  PROVE  Entry(table, first, t) \in Nat
  <1>1. t - first + 1 \in DOMAIN table => table[t - first + 1] \in Nat
    BY LenProperties, ElementOfSeq
  <1> QED
    BY <1>1 DEF Entry

(* A number in the page: used is 0 or counts its octets. *)
LEMMA MbUintTyped ==
  ASSUME wmlc \in Seq(Octets), NEW p \in Nat, p >= 1
  PROVE  decodeMbUint[p].used \in Nat /\ decodeMbUint[p].value \in Nat
  <1> DEFINE octets == {n \in p..Len(wmlc) : wmlc[n] < 128}
             last == CHOOSE k \in octets : \A j \in octets : k <= j
  <1>1. Len(wmlc) \in Nat /\ octets \subseteq Nat
    BY LenProperties
  <1>2. decodeMbUint[p] = IF octets = {} THEN [used |-> 0, value |-> 0]
                          ELSE [used |-> last - p + 1, value |-> MbUintValue(p, last)]
    BY DEF decodeMbUint
  <1>3. CASE octets = {}
    BY <1>2, <1>3
  <1>4. CASE octets # {}
    <2>1. IsLeast(last, octets)
      BY <1>1, <1>4, LeastChosen
    <2> HIDE DEF last
    <2>2. last \in p..Len(wmlc)
      BY <2>1 DEF IsLeast
    <2>3. MbUintValue(p, last) \in Nat
      <3> DEFINE Bits(k) == IF last - k >= p THEN (wmlc[last - k] % 128) * 128^k ELSE 0
      <3>1. ASSUME NEW k \in 0..4, last - k >= p PROVE (wmlc[last - k] % 128) \in Nat
        <4>1. last - k \in 1..Len(wmlc)
          BY <1>1, <2>2, <3>1
        <4> QED
          BY <4>1, OctetAt
      <3>2. Bits(0) \in Nat /\ Bits(1) \in Nat /\ Bits(2) \in Nat /\ Bits(3) \in Nat /\ Bits(4) \in Nat
        BY <3>1
      <3>3. MbUintValue(p, last) = Bits(0) + Bits(1) + Bits(2) + Bits(3) + Bits(4)
        BY DEF MbUintValue
      <3> HIDE DEF Bits
      <3> QED
        BY <3>2, <3>3, SMTT(40)
    <2> QED
      BY <1>1, <1>2, <1>4, <2>2, <2>3
  <1> QED
    BY <1>3, <1>4

LEMMA StringEndTyped ==
  ASSUME wmlc \in Seq(Octets), NEW p \in Nat, p <= Len(wmlc) + 1
  PROVE  /\ StringEnd(p) \in Nat /\ StringEnd(p) >= p
         /\ AfterString(p) \in Nat /\ AfterString(p) >= 1
  <1> DEFINE nuls == {n \in p..Len(wmlc) : wmlc[n] = 0}
  <1>1. Len(wmlc) \in Nat /\ nuls \subseteq Nat
    BY LenProperties
  <1>2. StringEnd(p) = IF nuls = {} THEN Len(wmlc) + 1 ELSE CHOOSE n \in nuls : \A k \in nuls : n <= k
    BY DEF StringEnd
  <1>3. CASE nuls = {}
    BY <1>1, <1>2, <1>3 DEF AfterString
  <1>4. CASE nuls # {}
    <2>1. IsLeast(StringEnd(p), nuls)
      BY <1>1, <1>2, <1>4, LeastChosen
    <2> QED
      BY <1>1, <2>1 DEF IsLeast, AfterString
  <1> QED
    BY <1>3, <1>4

LEMMA EntityTyped == ASSUME NEW n \in Nat PROVE EntityLen(n) \in Nat
  <1> DEFINE powers == {k \in 1..9 : n >= 10^k}
  <1>1. IsFiniteSet(1..9) /\ powers \subseteq 1..9
    BY FS_Interval, 1 \in Int, 9 \in Int
  <1>2. IsFiniteSet(powers)
    BY <1>1, FS_Subset
  <1>3. Cardinality(powers) \in Nat
    BY <1>2, FS_CardinalityType
  <1>4. EntityLen(n) = 3 + 1 + Cardinality(powers)
    BY DEF EntityLen
  <1> HIDE DEF powers
  <1> QED
    BY <1>3, <1>4

----------------------------------------------------------------------------
(* The decompiler: its state *)

(* Nothing of the page was read yet. *)
Fresh ==
  /\ pos = 1 /\ strings = [start |-> 1, len |-> 0] /\ elementStack = <<>> /\ outPos = 0
  /\ elem = [name |-> <<"literal", -1>>, content |-> FALSE]
  /\ written = [open |-> <<>>, deep |-> 0, crossed |-> FALSE, stray |-> FALSE]

(* An output of n characters leaves room for the terminating zero. *)
Roomy(n) == n \in Nat /\ (n > 0 => n < outputSize)

PageInv ==
  /\ mode \in {"idle", "prologue", "body", "attrs", "value", "done", "failed"}
  /\ wmlc \in Seq(Octets) /\ pos \in Nat /\ pos >= 1 /\ outputSize \in Nat
  /\ strings \in [start : Nat, len : Nat] /\ strings.start >= 1
  /\ strings.start + strings.len <= Len(wmlc) + 1
  /\ elem \in [name : Names, content : BOOLEAN]
  /\ elementStack \in Seq(Names) /\ Len(elementStack) <= StackMax
  /\ Roomy(outPos)
  /\ mode \in {"idle", "prologue"} => Fresh

LEMMA StrTyped ==
  ASSUME outputSize \in Nat, NEW o, Roomy(o), NEW n \in Nat
  PROVE  Roomy(Str(o, n)) /\ Roomy(Chars(o, n))
  BY DEF Roomy, Str, Chars, Fits

LEMMA VariableEndTyped ==
  ASSUME outputSize \in Nat, NEW o, Roomy(o), NEW kind
  PROVE  Roomy(VariableEnd(o, kind))
  <1>1. Roomy(IF kind = 0 THEN o ELSE Str(o, 2))
    BY StrTyped
  <1> QED
    BY <1>1, StrTyped DEF VariableEnd

LEMMA TableStringTyped ==
  ASSUME PageInv, NEW offset \in Nat
  PROVE  TableString(offset) \in Nat
  <1> DEFINE p == strings.start + offset
  <1>1. /\ strings.start \in Nat /\ strings.len \in Nat /\ Len(wmlc) \in Nat /\ wmlc \in Seq(Octets)
        /\ strings.start + strings.len <= Len(wmlc) + 1
    BY LenProperties DEF PageInv
  <1>2. CASE offset < strings.len
    <2>1. p \in Nat /\ p <= Len(wmlc) + 1
      BY <1>1, <1>2
    <2> HIDE DEF p
    <2>2. StringEnd(p) \in Nat /\ StringEnd(p) >= p
      BY <1>1, <2>1, StringEndTyped
    <2>3. TableString(offset) = StringEnd(p) - p
      BY <1>2 DEF TableString, p
    <2> QED
      BY <2>1, <2>2, <2>3
  <1>3. CASE ~(offset < strings.len)
    BY <1>3 DEF TableString
  <1> QED
    BY <1>2, <1>3

LEMMA NameLenTyped ==
  ASSUME PageInv, NEW name \in Names
  PROVE  NameLen(name) \in Nat
  <1>1. Len(wmlc) \in Nat
    BY LenProperties DEF PageInv
  <1>2. CASE name \in {"element"} \X (0..63)
    <2>1. NameLen(name) = getElementName(name[2])
      BY <1>2 DEF NameLen
    <2> QED
      BY <2>1, TablesTyped, EntryTyped DEF getElementName
  <1>3. CASE name \in {"literal"} \X (-1..Len(wmlc))
    <2>1. NameLen(name) = (IF name[2] = -1 THEN 7 ELSE TableString(name[2])) /\ name[2] \in -1..Len(wmlc)
      BY <1>3 DEF NameLen
    <2>2. name[2] # -1 => name[2] \in Nat
      BY <1>1, <2>1
    <2> QED
      BY <2>1, <2>2, TableStringTyped, SMTT(40)
  <1> QED
    BY <1>2, <1>3 DEF Names

LEMMA LiteralTyped == ASSUME PageInv, NEW offset \in Nat PROVE LiteralName(offset) \in Names
  <1>1. /\ strings.start \in Nat /\ strings.start >= 1 /\ strings.len \in Nat /\ Len(wmlc) \in Nat
        /\ strings.start + strings.len <= Len(wmlc) + 1
    BY LenProperties DEF PageInv
  <1>2. -1 \in -1..Len(wmlc) /\ (offset < strings.len => offset \in -1..Len(wmlc))
    BY <1>1
  <1> QED
    BY <1>2 DEF LiteralName, Names

LEMMA ElementTyped == ASSUME NEW t \in Nat PROVE ElementName(t) \in Names
  <1>1. t % 64 \in 0..63
    OBVIOUS
  <1> QED
    BY <1>1 DEF ElementName, Names

LEMMA CloseTagTyped ==
  ASSUME PageInv, NEW o, Roomy(o), NEW name \in Names
  PROVE  Roomy(CloseTag(o, name))
  <1>1. outputSize \in Nat /\ NameLen(name) \in Nat
    BY NameLenTyped DEF PageInv
  <1>2. Roomy(Str(Str(o, 2), NameLen(name)))
    BY <1>1, StrTyped
  <1> QED
    BY <1>1, <1>2, StrTyped DEF CloseTag

(* What a step has to keep: the page, its tables and the size stay. *)
LEMMA KeepPage ==
  ASSUME PageInv, UNCHANGED pageVars, mode' \in {"body", "attrs", "value", "done"},
         pos' \in Nat, pos' >= 1, elem' \in [name : Names, content : BOOLEAN],
         elementStack' \in Seq(Names), Len(elementStack') <= StackMax, Roomy(outPos')
  PROVE  PageInv'
  <1>1. wmlc' = wmlc /\ strings' = strings /\ outputSize' = outputSize
    BY DEF pageVars
  <1>2. Names' = Names
    BY <1>1 DEF Names
  <1>3. Roomy(outPos)'
    BY <1>1 DEF Roomy
  <1>4. mode' \notin {"idle", "prologue"}
    OBVIOUS
  <1> QED
    BY <1>1, <1>2, <1>3, <1>4 DEF PageInv

(* The octet at the position, and the number after it. *)
LEMMA AtPosition ==
  ASSUME PageInv, pos <= Len(wmlc)
  PROVE  /\ token \in Nat /\ token < 256 /\ pos \in Nat /\ pos >= 1 /\ Len(wmlc) \in Nat
         /\ number.used \in Nat /\ number.value \in Nat
         /\ TableString(number.value) \in Nat
         /\ StringEnd(pos + 1) - pos - 1 \in Nat
         /\ AfterString(pos + 1) \in Nat /\ AfterString(pos + 1) >= 1
         /\ Roomy(outPos) /\ outputSize \in Nat
  <1>1. /\ wmlc \in Seq(Octets) /\ pos \in Nat /\ pos >= 1 /\ Len(wmlc) \in Nat
        /\ Roomy(outPos) /\ outputSize \in Nat
    BY LenProperties DEF PageInv
  <1>2. pos \in 1..Len(wmlc) /\ pos + 1 \in Nat /\ pos + 1 >= 1 /\ pos + 1 <= Len(wmlc) + 1
    BY <1>1
  <1>3. token \in Nat /\ token < 256
    BY <1>1, <1>2, OctetAt DEF token
  <1>4. number.used \in Nat /\ number.value \in Nat
    BY <1>1, <1>2, MbUintTyped DEF number
  <1>5. /\ StringEnd(pos + 1) \in Nat /\ StringEnd(pos + 1) >= pos + 1
        /\ AfterString(pos + 1) \in Nat /\ AfterString(pos + 1) >= 1
    BY <1>1, <1>2, StringEndTyped
  <1>6. TableString(number.value) \in Nat
    BY <1>4, TableStringTyped
  <1>7. StringEnd(pos + 1) - pos - 1 \in Nat
    BY <1>1, <1>5
  <1> QED
    BY <1>1, <1>3, <1>4, <1>5, <1>6, <1>7

LEMMA StackFacts ==
  ASSUME PageInv
  PROVE  /\ elementStack \in Seq(Names) /\ Len(elementStack) \in Nat /\ Len(elementStack) <= StackMax
         /\ elem \in [name : Names, content : BOOLEAN]
         /\ elementStack # <<>> =>
              /\ Last(elementStack) \in Names /\ Front(elementStack) \in Seq(Names)
              /\ Len(elementStack) > 0
              /\ Len(Front(elementStack)) = Len(elementStack) - 1
  <1>1. elementStack \in Seq(Names) /\ Len(elementStack) \in Nat
    BY LenProperties DEF PageInv
  <1> QED
    BY <1>1, FrontFacts DEF PageInv

LEMMA EndTagTyped ==
  ASSUME PageInv, NEW o, Roomy(o), NEW name \in Names, NEW content, EndTag(o, name, content)
  PROVE  elementStack' \in Seq(Names) /\ Len(elementStack') <= StackMax /\ Roomy(outPos')
  <1>1. elementStack \in Seq(Names) /\ Len(elementStack) \in Nat /\ Len(elementStack) <= StackMax
    BY StackFacts
  <1>2. Append(elementStack, name) \in Seq(Names) /\ Len(Append(elementStack, name)) = Len(elementStack) + 1
    BY <1>1, AppendProperties
  <1>3. Roomy(Str(o, 2)) /\ Roomy(Chars(o, 1))
    BY StrTyped DEF PageInv
  <1> QED
    BY <1>1, <1>2, <1>3, StackAssumption, SMTT(40) DEF EndTag, CanPush

LEMMA CloseTyped ==
  ASSUME PageInv, elementStack # <<>>, CloseInnermost
  PROVE  elementStack' \in Seq(Names) /\ Len(elementStack') <= StackMax /\ Roomy(outPos')
  <1>1. Roomy(CloseTag(outPos, Last(elementStack)))
    BY StackFacts, CloseTagTyped DEF PageInv
  <1> QED
    BY <1>1, StackFacts, StackAssumption DEF CloseInnermost

LEMMA PagePrologue == ASSUME PageInv, Prologue PROVE PageInv'
  <1> DEFINE id      == decodeMbUint[2]
             idRef   == IF id.value = 0 THEN decodeMbUint[2 + id.used] ELSE [used |-> 0, value |-> id.value]
             public  == IF id.value = 0 /\ idRef.used > 0 THEN idRef.value ELSE id.value
             charset == decodeMbUint[2 + id.used + idRef.used]
             table   == decodeMbUint[2 + id.used + idRef.used + charset.used]
             start   == 2 + id.used + idRef.used + charset.used + table.used
  <1>1. \/ mode' = "failed" /\ pos' = pos /\ strings' = strings /\ outPos' = outPos
        \/ /\ ~(start + table.value > Len(wmlc) + 1)
           /\ mode' = "body"
           /\ pos' = start + table.value
           /\ strings' = [start |-> start, len |-> table.value]
           /\ outPos' = Declaration(public)
    BY ZenonT(60) DEF Prologue
  <1>2. /\ wmlc' = wmlc /\ elem' = elem /\ elementStack' = elementStack /\ outputSize' = outputSize
        /\ wmlc \in Seq(Octets) /\ outputSize \in Nat /\ Len(wmlc) \in Nat
    BY LenProperties DEF Prologue, PageInv
  <1>3. Names' = Names
    BY <1>2 DEF Names
  <1>4. CASE mode' = "failed" /\ pos' = pos /\ strings' = strings /\ outPos' = outPos
    <2>1. Roomy(outPos)' /\ mode' \notin {"idle", "prologue"}
      BY <1>2, <1>4 DEF PageInv, Roomy
    <2> QED
      BY <1>2, <1>3, <1>4, <2>1 DEF PageInv
  <1>5. id.used \in Nat /\ id.value \in Nat
    BY <1>2, MbUintTyped
  <1> HIDE DEF id
  <1>6. idRef.used \in Nat /\ idRef.value \in Nat
    <2>1. 2 + id.used \in Nat /\ 2 + id.used >= 1
      BY <1>5
    <2>2. decodeMbUint[2 + id.used].used \in Nat /\ decodeMbUint[2 + id.used].value \in Nat
      BY <1>2, <2>1, MbUintTyped
    <2> QED
      BY <1>5, <2>2
  <1> HIDE DEF idRef
  <1>7. charset.used \in Nat
    <2>1. 2 + id.used + idRef.used \in Nat /\ 2 + id.used + idRef.used >= 1
      BY <1>5, <1>6
    <2> QED
      BY <1>2, <2>1, MbUintTyped
  <1> HIDE DEF charset
  <1>8. table.used \in Nat /\ table.value \in Nat
    <2>1. /\ 2 + id.used + idRef.used + charset.used \in Nat
          /\ 2 + id.used + idRef.used + charset.used >= 1
      BY <1>5, <1>6, <1>7
    <2> QED
      BY <1>2, <2>1, MbUintTyped
  <1> HIDE DEF table
  <1>9. start \in Nat /\ start >= 1
    BY <1>5, <1>6, <1>7, <1>8
  <1> HIDE DEF start
  <1>10. Roomy(Declaration(public))
    <2>1. Roomy(Str(0, 22))
      <3>1. Roomy(0)
        BY DEF Roomy
      <3> QED
        BY <1>2, <3>1, StrTyped
    <2>2. Roomy(Str(Str(0, 22), 95)) /\ Roomy(Str(Str(0, 22), 93))
      BY <1>2, <2>1, StrTyped
    <2> QED
      BY <2>1, <2>2 DEF Declaration
  <1> HIDE DEF public
  <1>11. ASSUME ~(start + table.value > Len(wmlc) + 1), mode' = "body", pos' = start + table.value,
                strings' = [start |-> start, len |-> table.value], outPos' = Declaration(public)
         PROVE  PageInv'
    <2>1. /\ pos' \in Nat /\ pos' >= 1 /\ strings' \in [start : Nat, len : Nat] /\ strings'.start >= 1
          /\ strings'.start + strings'.len <= Len(wmlc) + 1
      BY <1>2, <1>8, <1>9, <1>11
    <2>2. Roomy(outPos)' /\ mode' \notin {"idle", "prologue"}
      BY <1>2, <1>10, <1>11 DEF Roomy
    <2> QED
      BY <1>2, <1>3, <1>11, <2>1, <2>2 DEF PageInv
  <1> QED
    BY <1>1, <1>4, <1>11

LEMMA PageSkip == ASSUME PageInv, SkipToken PROVE PageInv'
  <1>1. /\ mode' = mode /\ UNCHANGED pageVars /\ elem' = elem /\ elementStack' = elementStack
        /\ outPos' = outPos /\ mode = "body" /\ (pos' = pos + 1 \/ pos' = pos + 2)
    BY DEF SkipToken, InBody
  <1>2. pos' \in Nat /\ pos' >= 1
    BY <1>1 DEF PageInv
  <1>3. elementStack' \in Seq(Names) /\ Len(elementStack') <= StackMax /\ Roomy(outPos')
    BY <1>1 DEF PageInv
  <1> QED
    BY <1>1, <1>2, <1>3, StackFacts, KeepPage

LEMMA PageEndElement == ASSUME PageInv, EndElement PROVE PageInv'
  <1>1. mode' = "body" /\ UNCHANGED pageVars /\ elem' = elem /\ pos' = pos + 1
    BY DEF EndElement, InBody
  <1>2. pos' \in Nat /\ pos' >= 1
    BY <1>1 DEF PageInv
  <1>3. elementStack' \in Seq(Names) /\ Len(elementStack') <= StackMax /\ Roomy(outPos')
    BY CloseTyped DEF EndElement, PageInv
  <1> QED
    BY <1>1, <1>2, <1>3, StackFacts, KeepPage

LEMMA PageText == ASSUME PageInv, WriteText PROVE PageInv'
  <1>1. /\ mode' = mode /\ UNCHANGED pageVars /\ elem' = elem /\ elementStack' = elementStack
        /\ mode = "body" /\ pos <= Len(wmlc)
    BY DEF WriteText, InBody
  <1> DEFINE n == StringEnd(pos + 1) - pos - 1
             t == TableString(number.value)
             e == EntityLen(number.value)
  <1>2. /\ n \in Nat /\ t \in Nat /\ e \in Nat /\ Roomy(outPos) /\ outputSize \in Nat /\ pos \in Nat
        /\ number.used \in Nat /\ AfterString(pos + 1) \in Nat /\ AfterString(pos + 1) >= 1
    BY <1>1, AtPosition, EntityTyped
  <1>3. /\ pos' \in {pos + 1 + number.used, AfterString(pos + 1)}
        /\ \/ outPos' = Str(outPos, e)
           \/ outPos' = Chars(outPos, n)
           \/ outPos' = Str(outPos, t)
           \/ \E kind : outPos' = VariableEnd(Chars(Str(outPos, 2), n), kind)
           \/ \E kind : outPos' = VariableEnd(Str(Str(outPos, 2), t), kind)
    BY DEF WriteText
  <1> HIDE DEF n, t, e
  <1>4. pos' \in Nat /\ pos' >= 1
    BY <1>2, <1>3
  <1>5. Roomy(Str(outPos, 2)) /\ Roomy(Str(outPos, e)) /\ Roomy(Chars(outPos, n)) /\ Roomy(Str(outPos, t))
    BY <1>2, StrTyped
  <1>6. Roomy(Chars(Str(outPos, 2), n)) /\ Roomy(Str(Str(outPos, 2), t))
    BY <1>2, <1>5, StrTyped
  <1>7. Roomy(outPos')
    BY <1>2, <1>3, <1>5, <1>6, VariableEndTyped
  <1> QED
    BY <1>1, <1>4, <1>7, StackFacts, KeepPage

LEMMA PageOpaque == ASSUME PageInv, Opaque PROVE PageInv'
  <1>1. /\ mode' = mode /\ UNCHANGED pageVars /\ elem' = elem /\ elementStack' = elementStack
        /\ outPos' = outPos /\ mode = "body" /\ pos <= Len(wmlc) /\ pos' = pos + 1 + number.used + number.value
    BY DEF Opaque, InBody
  <1>2. pos \in Nat /\ number.used \in Nat /\ number.value \in Nat /\ Roomy(outPos)
    BY <1>1, AtPosition
  <1>3. pos' \in Nat /\ pos' >= 1 /\ Roomy(outPos')
    BY <1>1, <1>2
  <1> QED
    BY <1>1, <1>3, StackFacts, KeepPage

LEMMA PageLiteral == ASSUME PageInv, Literal PROVE PageInv'
  <1> DEFINE name == LiteralName(number.value)
             next == pos + 1 + number.used
             stops == {n \in next..Len(wmlc) : wmlc[n] = WBXML_END}
  <1>1. /\ mode' = mode /\ UNCHANGED pageVars /\ elem' = elem /\ mode = "body" /\ pos <= Len(wmlc)
        /\ pos' = IF ~HasAttrs(token) THEN next
                  ELSE IF stops = {} THEN Len(wmlc) + 1
                  ELSE (CHOOSE n \in stops : \A k \in stops : n <= k) + 1
        /\ EndTag(Str(Chars(outPos, 1), NameLen(name)), name, HasContent(token))
    BY DEF Literal, InBody
  <1>a. /\ Len(wmlc) \in Nat /\ Roomy(outPos) /\ outputSize \in Nat
        /\ number.used \in Nat /\ number.value \in Nat /\ pos \in Nat
    BY <1>1, AtPosition
  <1>2. /\ next \in Nat /\ next >= 1 /\ Len(wmlc) \in Nat /\ Roomy(outPos) /\ outputSize \in Nat
        /\ number.value \in Nat /\ stops \subseteq Nat
    BY <1>a
  <1>3. name \in Names
    BY <1>2, LiteralTyped
  <1> HIDE DEF name, next
  <1>4. stops # {} => IsLeast(CHOOSE n \in stops : \A k \in stops : n <= k, stops)
    BY <1>2, LeastChosen
  <1>5. pos' \in Nat /\ pos' >= 1
    <2>1. stops # {} => (CHOOSE n \in stops : \A k \in stops : n <= k) \in Nat
      BY <1>2, <1>4 DEF IsLeast
    <2> HIDE DEF stops
    <2> QED
      BY <1>1, <1>2, <2>1
  <1>6. Roomy(Str(Chars(outPos, 1), NameLen(name)))
    <2>1. Roomy(Chars(outPos, 1)) /\ NameLen(name) \in Nat
      BY <1>2, <1>3, StrTyped, NameLenTyped
    <2> QED
      BY <1>2, <2>1, StrTyped
  <1>7. elementStack' \in Seq(Names) /\ Len(elementStack') <= StackMax /\ Roomy(outPos')
    BY <1>1, <1>3, <1>6, EndTagTyped
  <1> QED
    BY <1>1, <1>5, <1>7, StackFacts, KeepPage

LEMMA PageElement == ASSUME PageInv, Element PROVE PageInv'
  <1> DEFINE name == ElementName(token)
             o    == Str(Chars(outPos, 1), NameLen(name))
  <1>1. /\ UNCHANGED pageVars /\ mode = "body" /\ pos <= Len(wmlc) /\ pos' = pos + 1
        /\ IF HasAttrs(token)
           THEN /\ mode' = "attrs"
                /\ elem' = [name |-> name, content |-> HasContent(token)]
                /\ outPos' = o
                /\ elementStack' = elementStack
           ELSE EndTag(o, name, HasContent(token)) /\ mode' = mode /\ elem' = elem
    BY DEF Element, InBody
  <1>2. token \in Nat /\ Roomy(outPos) /\ outputSize \in Nat /\ pos' \in Nat /\ pos' >= 1
    BY <1>1, AtPosition
  <1>3. name \in Names /\ HasContent(token) \in BOOLEAN
    BY <1>2, ElementTyped DEF HasContent
  <1> HIDE DEF name
  <1>4. Roomy(o)
    <2>1. Roomy(Chars(outPos, 1)) /\ NameLen(name) \in Nat
      BY <1>2, <1>3, StrTyped, NameLenTyped
    <2> QED
      BY <1>2, <2>1, StrTyped
  <1> HIDE DEF o
  <1>5. elementStack' \in Seq(Names) /\ Len(elementStack') <= StackMax /\ Roomy(outPos')
    BY <1>1, <1>3, <1>4, EndTagTyped, StackFacts
  <1>6. elem' \in [name : Names, content : BOOLEAN] /\ mode' \in {"body", "attrs"}
    BY <1>1, <1>3, StackFacts
  <1> QED
    BY <1>1, <1>2, <1>5, <1>6, KeepPage

LEMMA PageEndAttributes == ASSUME PageInv, EndAttributes PROVE PageInv'
  <1>1. /\ UNCHANGED pageVars /\ elem' = elem /\ mode' = "body" /\ (pos' = pos \/ pos' = pos + 1)
        /\ EndTag(outPos, elem.name, elem.content)
    BY DEF EndAttributes
  <1>2. pos' \in Nat /\ pos' >= 1 /\ Roomy(outPos)
    BY <1>1 DEF PageInv
  <1>3. elem.name \in Names
    BY StackFacts
  <1>4. elementStack' \in Seq(Names) /\ Len(elementStack') <= StackMax /\ Roomy(outPos')
    BY <1>1, <1>2, <1>3, EndTagTyped
  <1> QED
    BY <1>1, <1>2, <1>4, StackFacts, KeepPage

LEMMA PageStartAttribute == ASSUME PageInv, StartAttribute PROVE PageInv'
  <1> DEFINE a == getAttributeName(token)
             f == Entry(PrefixLen, 5, token)
  <1>1. /\ UNCHANGED pageVars /\ elem' = elem /\ elementStack' = elementStack /\ mode = "attrs"
        /\ pos <= Len(wmlc)
        /\ \/ /\ mode' = "value" /\ pos' = pos + 1
              /\ outPos' = Str(Str(Str(Chars(outPos, 1), a), 2), f)
           \/ pos' = pos + 1 /\ mode' = mode /\ outPos' = outPos
    BY DEF StartAttribute, InList, AfterUnknown
  <1>2. a \in Nat /\ f \in Nat
    BY TablesTyped, EntryTyped DEF getAttributeName
  <1> HIDE DEF a, f
  <1>3. Roomy(outPos) /\ outputSize \in Nat /\ pos' \in Nat /\ pos' >= 1
    BY <1>1, AtPosition
  <1>4. Roomy(Chars(outPos, 1))
    BY <1>3, StrTyped
  <1>5. Roomy(Str(Chars(outPos, 1), a))
    BY <1>2, <1>3, <1>4, StrTyped
  <1>6. Roomy(Str(Str(Chars(outPos, 1), a), 2))
    BY <1>3, <1>5, StrTyped
  <1>7. Roomy(Str(Str(Str(Chars(outPos, 1), a), 2), f))
    BY <1>2, <1>3, <1>6, StrTyped
  <1> QED
    BY <1>1, <1>3, <1>7, StackFacts, KeepPage

LEMMA PageAttributeText == ASSUME PageInv, AttributeText PROVE PageInv'
  <1>1. /\ mode' = mode /\ UNCHANGED pageVars /\ elem' = elem /\ elementStack' = elementStack
        /\ mode \in {"attrs", "value"} /\ pos <= Len(wmlc)
    BY DEF AttributeText, InList
  <1> DEFINE n == StringEnd(pos + 1) - pos - 1
             t == TableString(number.value)
             v == getAttributeValue(token)
  <1>2. /\ n \in Nat /\ t \in Nat /\ v \in Nat /\ Roomy(outPos) /\ outputSize \in Nat /\ pos \in Nat
        /\ number.used \in Nat /\ AfterString(pos + 1) \in Nat /\ AfterString(pos + 1) >= 1
    BY <1>1, AtPosition, TablesTyped, EntryTyped DEF getAttributeValue
  <1>3. /\ pos' \in {pos + 1, pos + 1 + number.used, AfterString(pos + 1)}
        /\ \/ outPos' = outPos
           \/ outPos' = Chars(outPos, n)
           \/ outPos' = Str(outPos, t)
           \/ outPos' = Str(outPos, v)
           \/ \E kind : outPos' = VariableEnd(Str(Str(outPos, 2), t), kind)
    BY DEF AttributeText
  <1> HIDE DEF n, t, v
  <1>4. pos' \in Nat /\ pos' >= 1
    BY <1>2, <1>3
  <1>5. Roomy(Str(outPos, 2)) /\ Roomy(Str(outPos, v)) /\ Roomy(Chars(outPos, n)) /\ Roomy(Str(outPos, t))
    BY <1>2, StrTyped
  <1>6. Roomy(Str(Str(outPos, 2), t))
    BY <1>2, <1>5, StrTyped
  <1>7. Roomy(outPos')
    BY <1>2, <1>3, <1>5, <1>6, VariableEndTyped
  <1> QED
    BY <1>1, <1>4, <1>7, StackFacts, KeepPage

LEMMA PageEndValue == ASSUME PageInv, EndValue PROVE PageInv'
  <1>1. /\ mode' = "attrs" /\ UNCHANGED pageVars /\ elem' = elem /\ elementStack' = elementStack
        /\ pos' = pos /\ outPos' = Chars(outPos, 1)
    BY DEF EndValue
  <1>2. Roomy(outPos') /\ pos' \in Nat /\ pos' >= 1
    BY <1>1, StrTyped DEF PageInv
  <1> QED
    BY <1>1, <1>2, StackFacts, KeepPage

LEMMA PageEndBody == ASSUME PageInv, EndBody PROVE PageInv'
  <1>1. /\ mode' \in {"body", "done"} /\ UNCHANGED pageVars /\ elem' = elem /\ pos' = pos
    BY DEF EndBody
  <1>2. pos' \in Nat /\ pos' >= 1
    BY <1>1 DEF PageInv
  <1>3. elementStack' \in Seq(Names) /\ Len(elementStack') <= StackMax /\ Roomy(outPos')
    BY CloseTyped DEF EndBody, StillOpen, PageInv
  <1> QED
    BY <1>1, <1>2, <1>3, StackFacts, KeepPage

LEMMA PageDecompile == ASSUME PageInv, Decompile PROVE PageInv'
  BY PagePrologue, PageSkip, PageEndElement, PageText, PageOpaque, PageLiteral, PageElement,
     PageEndAttributes, PageStartAttribute, PageAttributeText, PageEndValue, PageEndBody DEF Decompile

LEMMA PageStutter == ASSUME PageInv, UNCHANGED wmlcVars PROVE PageInv'
  <1>1. /\ mode' = mode /\ wmlc' = wmlc /\ pos' = pos /\ strings' = strings /\ elem' = elem
        /\ elementStack' = elementStack /\ outPos' = outPos /\ outputSize' = outputSize /\ written' = written
    BY DEF wmlcVars
  <1> QED
    BY <1>1 DEF PageInv, Fresh, Roomy, Names

LEMMA PageStart ==
  ASSUME PageInv, mode = "idle", NEW page \in Seq(Octets), NEW size \in Nat, StartDecompile(page, size)
  PROVE  PageInv'
  <1>1. /\ mode' = "prologue" /\ wmlc' = page /\ outputSize' = size /\ pos' = 1 /\ elem' = elem
        /\ strings' = [start |-> 1, len |-> 0] /\ elementStack' = <<>> /\ outPos' = 0 /\ written' = written
    BY DEF StartDecompile, PageInv, Fresh
  <1>2. Fresh'
    BY <1>1 DEF PageInv, Fresh
  <1>3. Len(page) \in Nat /\ Roomy(outPos)'
    BY <1>1, LenProperties DEF Roomy
  <1>4. elementStack' \in Seq(Names') /\ Len(elementStack') = 0
    BY <1>1, EmptySeq
  <1>5. elem' \in [name : Names', content : BOOLEAN]
    <2>1. -1 \in -1..Len(wmlc')
      BY <1>1, <1>3
    <2>2. <<"literal", -1>> \in Names'
      BY <2>1 DEF Names
    <2> QED
      BY <1>2, <2>2 DEF Fresh
  <1> QED
    BY <1>1, <1>2, <1>3, <1>4, <1>5, StackAssumption DEF PageInv

----------------------------------------------------------------------------
(* Tags *)

(* Each name of s has a place of its own in o. *)
Embeds(s, o) ==
  \E f \in [1..Len(s) -> 1..Len(o)] :
    /\ \A i, j \in 1..Len(s) : f[i] = f[j] => i = j
    /\ \A i \in 1..Len(s) : o[f[i]] = s[i]

(* Places behind a free one move up, each to a place of its own. *)
LEMMA MovedUp ==
  ASSUME NEW a \in Nat, NEW b \in Nat, NEW m \in Nat, a # m, b # m,
         (IF a < m THEN a ELSE a - 1) = (IF b < m THEN b ELSE b - 1)
  PROVE  a = b
  OBVIOUS

LEMMA AppendFacts ==
  ASSUME NEW S, NEW s \in Seq(S), NEW e \in S
  PROVE  /\ Append(s, e) \in Seq(S) /\ Len(s) \in Nat /\ Len(Append(s, e)) = Len(s) + 1
         /\ \A i \in 1..Len(s) : Append(s, e)[i] = s[i]
         /\ Append(s, e)[Len(s) + 1] = e
  BY AppendProperties, LenProperties

LEMMA EmbedsOpened ==
  ASSUME NEW S, NEW s \in Seq(S), NEW o \in Seq(S), NEW e \in S, Embeds(s, o)
  PROVE  Embeds(s, Append(o, e)) /\ Embeds(Append(s, e), Append(o, e))
  <1> DEFINE m == Len(s)
             n == Len(o)
             s2 == Append(s, e)
             o2 == Append(o, e)
  <1>1. PICK f \in [1..m -> 1..n] : /\ \A i, j \in 1..m : f[i] = f[j] => i = j
                                    /\ \A i \in 1..m : o[f[i]] = s[i]
    BY DEF Embeds
  <1>2. /\ m \in Nat /\ n \in Nat /\ Len(s2) = m + 1 /\ Len(o2) = n + 1
        /\ s2[m + 1] = e /\ o2[n + 1] = e
        /\ \A i \in 1..m : s2[i] = s[i]
        /\ \A i \in 1..n : o2[i] = o[i]
    BY AppendFacts
  <1> HIDE DEF m, n, s2, o2
  <1>3. \A i \in 1..m : f[i] \in 1..n /\ o2[f[i]] = s[i]
    BY <1>1, <1>2
  <1>4. Embeds(s, o2)
    <2>1. f \in [1..m -> 1..(n + 1)]
      BY <1>2, <1>3
    <2> QED
      BY <1>1, <1>2, <1>3, <2>1 DEF Embeds, m
  <1>5. Embeds(s2, o2)
    <2> DEFINE g == [i \in 1..(m + 1) |-> IF i = m + 1 THEN n + 1 ELSE f[i]]
    <2>1. \A i \in 1..(m + 1) : i = m + 1 \/ i \in 1..m
      BY <1>2
    <2>2. g[m + 1] = n + 1 /\ \A i \in 1..m : g[i] = f[i]
      BY <1>2
    <2>3. g \in [1..(m + 1) -> 1..(n + 1)]
      BY <1>2, <1>3, <2>1
    <2> HIDE DEF g
    <2>4. ASSUME NEW i \in 1..m PROVE g[i] # n + 1
      <3>1. g[i] = f[i] /\ f[i] \in 1..n
        BY <1>3, <2>2
      <3> QED
        BY <1>2, <3>1
    <2>5. \A i, j \in 1..(m + 1) : g[i] = g[j] => i = j
      BY <1>1, <2>1, <2>2, <2>4
    <2>6. \A i \in 1..(m + 1) : o2[g[i]] = s2[i]
      BY <1>2, <1>3, <2>1, <2>2
    <2> QED
      <3>1. /\ g \in [1..Len(s2) -> 1..Len(o2)]
            /\ \A i, j \in 1..Len(s2) : g[i] = g[j] => i = j
            /\ \A i \in 1..Len(s2) : o2[g[i]] = s2[i]
        BY <1>2, <2>3, <2>5, <2>6, Zenon
      <3> QED
        BY <3>1, Zenon DEF Embeds
  <1> QED
    BY <1>4, <1>5 DEF o2, s2

LEMMA RemoveFacts ==
  ASSUME NEW S, NEW s \in Seq(S), NEW m \in 1..Len(s)
  PROVE  /\ RemoveAt(s, m) \in Seq(S) /\ Len(s) \in Nat /\ Len(RemoveAt(s, m)) = Len(s) - 1
         /\ \A i \in 1..(Len(s) - 1) : RemoveAt(s, m)[i] = IF i < m THEN s[i] ELSE s[i + 1]
  <1> DEFINE n == Len(s)
             a == SubSeq(s, 1, m - 1)
             b == SubSeq(s, m + 1, n)
  <1>1. n \in Nat /\ m \in Nat /\ m >= 1 /\ m <= n
    BY LenProperties
  <1>2. (\A i \in 1..(m - 1) : s[i] \in S) /\ (\A i \in (m + 1)..n : s[i] \in S)
    BY <1>1, ElementOfSeq
  <1>3. /\ a \in Seq(S) /\ Len(a) = (IF 1 <= m - 1 THEN m - 1 - 1 + 1 ELSE 0)
        /\ \A i \in 1..(m - 1 - 1 + 1) : a[i] = s[1 + i - 1]
    BY <1>1, <1>2, SubSeqProperties
  <1>4. /\ b \in Seq(S) /\ Len(b) = (IF m + 1 <= n THEN n - (m + 1) + 1 ELSE 0)
        /\ \A i \in 1..(n - (m + 1) + 1) : b[i] = s[m + 1 + i - 1]
    BY <1>1, <1>2, SubSeqProperties
  <1>5. RemoveAt(s, m) = a \o b
    BY DEF RemoveAt
  <1> HIDE DEF a, b, n
  <1>6. /\ Len(a) = m - 1 /\ Len(b) = n - m
        /\ \A i \in 1..(m - 1) : a[i] = s[i]
        /\ \A i \in 1..(n - m) : b[i] = s[m + i]
    BY <1>1, <1>3, <1>4
  <1>7. /\ a \o b \in Seq(S) /\ Len(a \o b) = Len(a) + Len(b)
        /\ \A i \in 1..(Len(a) + Len(b)) : (a \o b)[i] = IF i <= Len(a) THEN a[i] ELSE b[i - Len(a)]
    BY <1>3, <1>4, ConcatProperties
  <1>8. ASSUME NEW i \in 1..(n - 1)
        PROVE  (a \o b)[i] = IF i < m THEN s[i] ELSE s[i + 1]
    <2>1. (a \o b)[i] = IF i <= m - 1 THEN a[i] ELSE b[i - (m - 1)]
      BY <1>1, <1>6, <1>7, SMTT(40)
    <2>2. CASE i < m
      BY <1>1, <1>6, <2>1, <2>2
    <2>3. CASE ~(i < m)
      <3>1. i - (m - 1) \in 1..(n - m) /\ m + (i - (m - 1)) = i + 1
        BY <1>1, <2>3
      <3>2. b[i - (m - 1)] = s[i + 1]
        BY <1>6, <3>1
      <3> QED
        BY <1>1, <2>1, <2>3, <3>2
    <2> QED
      BY <2>2, <2>3
  <1> QED
    BY <1>1, <1>5, <1>6, <1>7, <1>8 DEF n

(* The top of s goes, and so does one of the places in o with its name:    *)
(* who had that place gets the one of the top, and places behind it move.  *)
LEMMA EmbedsClosed ==
  ASSUME NEW S, NEW s \in Seq(S), NEW o \in Seq(S), Embeds(s, o), s # <<>>,
         NEW m \in 1..Len(o), o[m] = Last(s)
  PROVE  Embeds(Front(s), RemoveAt(o, m))
  <1> DEFINE t == Len(s)
             n == Len(o)
             s2 == Front(s)
             o2 == RemoveAt(o, m)
  <1>1. PICK f \in [1..t -> 1..n] : /\ \A i, j \in 1..t : f[i] = f[j] => i = j
                                    /\ \A i \in 1..t : o[f[i]] = s[i]
    BY DEF Embeds
  <1>2. /\ t \in Nat /\ t > 0 /\ Last(s) = s[t] /\ Len(s2) = t - 1
        /\ \A i \in 1..(t - 1) : s2[i] = s[i]
    BY FrontFacts
  <1>3. /\ n \in Nat /\ Len(o2) = n - 1
        /\ \A i \in 1..(n - 1) : o2[i] = IF i < m THEN o[i] ELSE o[i + 1]
    BY RemoveFacts
  <1>4. m \in 1..n
    OBVIOUS
  <1> HIDE DEF t, n, s2, o2
  <1> DEFINE g == [i \in 1..(t - 1) |-> IF f[i] = m THEN f[t] ELSE f[i]]
             h == [i \in 1..(t - 1) |-> IF g[i] < m THEN g[i] ELSE g[i] - 1]
  <1>5. \A i \in 1..(t - 1) : i \in 1..t /\ i # t
    BY <1>2
  <1>6. t \in 1..t
    BY <1>2
  <1>7. ASSUME NEW i \in 1..(t - 1) PROVE g[i] \in 1..n /\ g[i] # m /\ o[g[i]] = s[i]
    <2>1. g[i] = IF f[i] = m THEN f[t] ELSE f[i]
      OBVIOUS
    <2>2. f[i] \in 1..n /\ f[t] \in 1..n /\ o[f[i]] = s[i] /\ o[f[t]] = s[t] /\ f[i] # f[t]
      BY <1>1, <1>5, <1>6
    <2> HIDE DEF g
    <2> QED
      BY <1>2, <2>1, <2>2
  <1>8. ASSUME NEW i \in 1..(t - 1), NEW j \in 1..(t - 1), g[i] = g[j] PROVE i = j
    <2>1. g[i] = (IF f[i] = m THEN f[t] ELSE f[i]) /\ g[j] = (IF f[j] = m THEN f[t] ELSE f[j])
      OBVIOUS
    <2>2. f[i] # f[t] /\ f[j] # f[t] /\ (f[i] = f[j] => i = j)
      BY <1>1, <1>5, <1>6
    <2> HIDE DEF g
    <2> QED
      BY <1>8, <2>1, <2>2
  <1> HIDE DEF g
  <1>9. ASSUME NEW i \in 1..(t - 1) PROVE h[i] = IF g[i] < m THEN g[i] ELSE g[i] - 1
    OBVIOUS
  <1>10. h = [i \in 1..(t - 1) |-> h[i]]
    OBVIOUS
  <1> HIDE DEF h
  <1>11. ASSUME NEW i \in 1..(t - 1)
         PROVE  h[i] \in 1..(n - 1) /\ o2[h[i]] = s2[i]
    <2>1. h[i] \in 1..(n - 1)
      BY <1>3, <1>4, <1>7, <1>9, SMTT(40)
    <2>2. o2[h[i]] = o[g[i]]
      <3>1. CASE g[i] < m
        BY <1>3, <1>7, <1>9, <2>1, <3>1
      <3>2. CASE ~(g[i] < m)
        <4>1. h[i] = g[i] - 1 /\ ~(h[i] < m) /\ h[i] + 1 = g[i]
          BY <1>3, <1>4, <1>7, <1>9, <3>2
        <4> QED
          BY <1>3, <2>1, <4>1
      <3> QED
        BY <3>1, <3>2
    <2> QED
      BY <1>2, <1>7, <2>1, <2>2
  <1>12. ASSUME NEW i \in 1..(t - 1), NEW j \in 1..(t - 1), h[i] = h[j] PROVE i = j
    <2>0. /\ g[i] \in 1..n /\ g[i] # m /\ g[j] \in 1..n /\ g[j] # m
          /\ h[i] = (IF g[i] < m THEN g[i] ELSE g[i] - 1)
          /\ h[j] = (IF g[j] < m THEN g[j] ELSE g[j] - 1)
      BY <1>7, <1>9
    <2>2. g[i] \in Nat /\ g[j] \in Nat /\ m \in Nat
      BY <1>3, <1>4, <2>0
    <2>1. g[i] = g[j]
      BY <1>12, <2>0, <2>2, MovedUp
    <2> QED
      BY <1>8, <2>1
  <1>13. h \in [1..(t - 1) -> 1..(n - 1)]
    BY <1>10, <1>11
  <1>14. Embeds(s2, o2)
    <2>1. /\ h \in [1..Len(s2) -> 1..Len(o2)]
          /\ \A i, j \in 1..Len(s2) : h[i] = h[j] => i = j
          /\ \A i \in 1..Len(s2) : o2[h[i]] = s2[i]
      BY <1>2, <1>3, <1>11, <1>12, <1>13, Zenon
    <2> QED
      BY <2>1, Zenon DEF Embeds
  <1> QED
    BY <1>14 DEF s2, o2

LEMMA MaxFacts ==
  ASSUME NEW n \in Nat, NEW at, at \subseteq 1..n, at # {}
  PROVE  Max(at) \in at /\ \A k \in at : Max(at) >= k
  <1> DEFINE below == {n - k : k \in at}
  <1>1. below \subseteq Nat /\ below # {}
    OBVIOUS
  <1>2. PICK d \in below : IsLeast(d, below)
    BY <1>1, LeastExists
  <1>3. PICK x \in at : d = n - x
    BY <1>2
  <1>4. ASSUME NEW k \in at PROVE x >= k
    <2>1. n - x <= n - k
      BY <1>2, <1>3 DEF IsLeast
    <2> QED
      BY <2>1
  <1>5. \E y \in at : \A k \in at : y >= k
    BY <1>3, <1>4
  <1> QED
    BY <1>5 DEF Max

(* The names on the stack are of tags not closed, the rest was not pushed; *)
(* and if all were pushed, the tags not closed are the stack.              *)
TagInv ==
  /\ written \in [open : Seq(Names), deep : Nat, crossed : BOOLEAN, stray : BOOLEAN]
  /\ written.stray = FALSE
  /\ Len(written.open) = Len(elementStack) + written.deep
  /\ written.deep = 0 => written.open = elementStack /\ written.crossed = FALSE
  /\ Embeds(elementStack, written.open)
  /\ mode = "done" => elementStack = <<>>

LEMMA TagKeep ==
  ASSUME TagInv, wmlc' = wmlc, elementStack' = elementStack, written' = written,
         mode' = "done" => elementStack = <<>>
  PROVE  TagInv'
  <1>1. Names' = Names
    BY DEF Names
  <1> QED
    BY <1>1 DEF TagInv

LEMMA TagOpen ==
  ASSUME PageInv, TagInv, wmlc' = wmlc, mode' # "done",
         NEW o, NEW name \in Names, NEW content, EndTag(o, name, content)
  PROVE  TagInv'
  <1>1. CASE ~content
    <2>1. elementStack' = elementStack /\ written' = written
      BY <1>1 DEF EndTag
    <2> QED
      BY <2>1, TagKeep
  <1>2. CASE content
    <2> DEFINE s == elementStack
               p == written.open
               pushed == CanPush(elementStack)
    <2>1. /\ s' = (IF pushed THEN Append(s, name) ELSE s)
          /\ written' = [written EXCEPT !.open = Append(@, name), !.deep = IF pushed THEN @ ELSE @ + 1]
      BY <1>2 DEF EndTag, Opened
    <2>2. /\ s \in Seq(Names) /\ p \in Seq(Names) /\ Embeds(s, p) /\ written.deep \in Nat
          /\ Len(p) = Len(s) + written.deep
          /\ written \in [open : Seq(Names), deep : Nat, crossed : BOOLEAN, stray : BOOLEAN]
          /\ written.stray = FALSE
      BY StackFacts DEF TagInv
    <2>3. /\ Append(p, name) \in Seq(Names) /\ Len(Append(p, name)) = Len(p) + 1
          /\ Len(Append(s, name)) = Len(s) + 1 /\ Len(p) \in Nat /\ Len(s) \in Nat
      BY <2>2, AppendFacts
    <2>4. Embeds(s, Append(p, name)) /\ Embeds(Append(s, name), Append(p, name))
      BY <2>2, EmbedsOpened
    <2>5. /\ written'.open = Append(p, name)
          /\ written'.deep = (IF pushed THEN written.deep ELSE written.deep + 1)
          /\ written'.stray = FALSE /\ written'.crossed = written.crossed
          /\ written' \in [open : Seq(Names), deep : Nat, crossed : BOOLEAN, stray : BOOLEAN]
      <3> DEFINE q == Append(p, name)
                 d == IF pushed THEN written.deep ELSE written.deep + 1
      <3>1. written' = [written EXCEPT !.open = q, !.deep = d]
        BY <2>1
      <3>2. q \in Seq(Names) /\ d \in Nat
        BY <2>2, <2>3
      <3> HIDE DEF q, d
      <3>3. /\ written'.open = q /\ written'.deep = d
            /\ written'.stray = FALSE /\ written'.crossed = written.crossed
        BY <2>2, <3>1
      <3>4. written' \in [open : Seq(Names), deep : Nat, crossed : BOOLEAN, stray : BOOLEAN]
        BY <2>2, <3>1, <3>2
      <3> QED
        BY <3>3, <3>4 DEF q, d
    <2>6. Names' = Names
      BY DEF Names
    <2>7. Len(written'.open) = Len(s') + written'.deep
      BY <2>1, <2>2, <2>3, <2>5
    <2>8. Embeds(s', written'.open)
      BY <2>1, <2>4, <2>5
    <2>9. written'.deep = 0 => written'.open = s' /\ written'.crossed = FALSE
      <3>1. SUFFICES ASSUME written'.deep = 0 PROVE written'.open = s' /\ written'.crossed = FALSE
        OBVIOUS
      <3>2. pushed /\ written.deep = 0
        BY <2>2, <2>5, <3>1
      <3> QED
        BY <2>1, <2>5, <3>2 DEF TagInv
    <2> QED
      BY <2>5, <2>6, <2>7, <2>8, <2>9 DEF TagInv
  <1> QED
    BY <1>1, <1>2

LEMMA TagClose ==
  ASSUME PageInv, TagInv, wmlc' = wmlc, mode' # "done", elementStack # <<>>, CloseInnermost
  PROVE  TagInv'
  <1> DEFINE s == elementStack
             p == written.open
             name == Last(s)
             at == {n \in DOMAIN p : p[n] = name}
             m == Max(at)
  <1>1. s' = Front(s) /\ written' = Closed(written, name)
    BY DEF CloseInnermost
  <1>2. /\ s \in Seq(Names) /\ p \in Seq(Names) /\ Embeds(s, p) /\ written.deep \in Nat
        /\ Len(p) = Len(s) + written.deep /\ Len(p) \in Nat /\ DOMAIN p = 1..Len(p)
        /\ written \in [open : Seq(Names), deep : Nat, crossed : BOOLEAN, stray : BOOLEAN]
        /\ written.stray = FALSE
    BY StackFacts, LenProperties DEF TagInv
  <1>3. /\ name = s[Len(s)] /\ Len(s) \in Nat /\ Len(s) > 0 /\ Len(Front(s)) = Len(s) - 1
        /\ Front(s) \in Seq(Names)
    BY <1>2, FrontFacts
  <1>4. at \subseteq 1..Len(p) /\ at # {}
    <2>1. PICK f \in [1..Len(s) -> 1..Len(p)] : \A i \in 1..Len(s) : p[f[i]] = s[i]
      BY <1>2 DEF Embeds
    <2>2. Len(s) \in 1..Len(s)
      BY <1>3
    <2>3. f[Len(s)] \in at
      BY <1>2, <1>3, <2>1, <2>2
    <2> QED
      BY <1>2, <2>3
  <1>5. m \in at /\ \A k \in at : m >= k
    BY <1>2, <1>4, MaxFacts
  <1>6. written' = [written EXCEPT !.open = RemoveAt(@, m), !.crossed = @ \/ m # Len(p)]
    BY <1>1, <1>4 DEF Closed
  <1>7. m \in 1..Len(p) /\ p[m] = Last(s)
    BY <1>2, <1>5
  <1>8. written.deep = 0 => m = Len(p) /\ p = s
    <2>1. SUFFICES ASSUME written.deep = 0 PROVE m = Len(p) /\ p = s
      OBVIOUS
    <2>2. p = s
      BY <2>1 DEF TagInv
    <2>3. Len(p) \in at
      BY <1>2, <1>3, <2>2
    <2>4. m >= Len(p)
      BY <1>5, <2>3
    <2> HIDE DEF m
    <2> QED
      BY <1>2, <1>7, <2>2, <2>4
  <1> HIDE DEF m, at
  <1>9. RemoveAt(p, m) \in Seq(Names) /\ Len(RemoveAt(p, m)) = Len(p) - 1
    BY <1>2, <1>7, RemoveFacts
  <1>10. /\ written'.open = RemoveAt(p, m) /\ written'.deep = written.deep /\ written'.stray = FALSE
         /\ written' \in [open : Seq(Names), deep : Nat, crossed : BOOLEAN, stray : BOOLEAN]
    BY <1>2, <1>6, <1>9
  <1>11. Len(written'.open) = Len(s') + written'.deep
    BY <1>1, <1>2, <1>3, <1>9, <1>10
  <1>12. Embeds(s', written'.open)
    <2>1. Embeds(Front(s), RemoveAt(p, m))
      BY <1>2, <1>7, EmbedsClosed
    <2> QED
      BY <1>1, <1>10, <2>1
  <1>13. written'.deep = 0 => written'.open = s' /\ written'.crossed = FALSE
    <2>1. SUFFICES ASSUME written.deep = 0 PROVE written'.open = s' /\ written'.crossed = FALSE
      BY <1>10
    <2>2. m = Len(p) /\ p = s /\ written.crossed = FALSE
      BY <1>8, <2>1 DEF TagInv
    <2>3. written'.crossed = FALSE
      BY <1>2, <1>6, <2>2
    <2>4. RemoveAt(s, Len(s)) = Front(s)
      <3>1. /\ RemoveAt(s, Len(s)) \in Seq(Names) /\ Len(RemoveAt(s, Len(s))) = Len(s) - 1
            /\ \A i \in 1..(Len(s) - 1) : RemoveAt(s, Len(s))[i] = IF i < Len(s) THEN s[i] ELSE s[i + 1]
        BY <1>2, <1>3, RemoveFacts
      <3>2. \A i \in 1..(Len(s) - 1) : Front(s)[i] = s[i]
        BY <1>2, FrontFacts
      <3>3. \A i \in 1..(Len(s) - 1) : RemoveAt(s, Len(s))[i] = Front(s)[i]
        BY <1>3, <3>1, <3>2
      <3> QED
        BY <1>3, <3>1, <3>3, SeqEqual
    <2> QED
      BY <1>1, <1>10, <2>2, <2>3, <2>4
  <1>14. Names' = Names
    BY DEF Names
  <1> QED
    BY <1>10, <1>11, <1>12, <1>13, <1>14 DEF TagInv

LEMMA TagDecompile == ASSUME PageInv, TagInv, Decompile PROVE TagInv'
  <1>1. wmlc' = wmlc
    BY ZenonT(60) DEF Decompile, Prologue, SkipToken, EndElement, WriteText, Opaque, Literal, Element,
           EndAttributes, StartAttribute, AttributeText, EndValue, EndBody, pageVars
  <1>2. CASE Prologue
    <2>1. elementStack' = elementStack /\ written' = written /\ mode' # "done"
      BY <1>2 DEF Prologue
    <2> QED
      BY <1>1, <2>1, TagKeep
  <1>3. CASE SkipToken \/ WriteText \/ Opaque
    <2>1. elementStack' = elementStack /\ written' = written /\ mode' # "done"
      BY <1>3 DEF SkipToken, WriteText, Opaque, InBody
    <2> QED
      BY <1>1, <2>1, TagKeep
  <1>4. CASE StartAttribute \/ AttributeText \/ EndValue
    <2>1. elementStack' = elementStack /\ written' = written /\ mode' # "done"
      BY <1>4 DEF StartAttribute, AttributeText, EndValue, InList
    <2> QED
      BY <1>1, <2>1, TagKeep
  <1>5. CASE EndElement
    <2>1. mode' # "done"
      BY <1>5 DEF EndElement, InBody
    <2> QED
      BY <1>1, <1>5, <2>1, TagKeep, TagClose DEF EndElement
  <1>6. CASE EndBody
    <2>1. CASE elementStack # <<>>
      <3>1. CloseInnermost /\ mode' # "done"
        BY <1>6, <2>1 DEF EndBody, StillOpen
      <3> QED
        BY <1>1, <2>1, <3>1, TagClose
    <2>2. CASE elementStack = <<>>
      <3>1. elementStack' = elementStack /\ written' = written
        BY <1>6, <2>2 DEF EndBody, StillOpen
      <3> QED
        BY <1>1, <2>2, <3>1, TagKeep
    <2> QED
      BY <2>1, <2>2
  <1>7. CASE Literal
    <2>1. number.value \in Nat /\ mode' # "done"
      BY <1>7, AtPosition DEF Literal, InBody
    <2>2. LiteralName(number.value) \in Names
      BY <2>1, LiteralTyped
    <2>3. EndTag(Str(Chars(outPos, 1), NameLen(LiteralName(number.value))), LiteralName(number.value), HasContent(token))
      BY <1>7 DEF Literal
    <2> QED
      BY <1>1, <2>1, <2>2, <2>3, TagOpen
  <1>8. CASE Element
    <2>1. token \in Nat /\ mode' # "done"
      BY <1>8, AtPosition DEF Element, InBody
    <2>2. ElementName(token) \in Names
      BY <2>1, ElementTyped
    <2>3. IF HasAttrs(token) THEN elementStack' = elementStack /\ written' = written
          ELSE EndTag(Str(Chars(outPos, 1), NameLen(ElementName(token))), ElementName(token), HasContent(token))
      BY <1>8 DEF Element
    <2> QED
      BY <1>1, <2>1, <2>2, <2>3, TagOpen, TagKeep
  <1>9. CASE EndAttributes
    <2>1. mode' # "done" /\ EndTag(outPos, elem.name, elem.content) /\ elem.name \in Names
      BY <1>9, StackFacts DEF EndAttributes
    <2> QED
      BY <1>1, <2>1, TagOpen
  <1> QED
    BY <1>2, <1>3, <1>4, <1>5, <1>6, <1>7, <1>8, <1>9, SMTT(40) DEF Decompile

LEMMA TagStutter == ASSUME TagInv, UNCHANGED wmlcVars PROVE TagInv'
  BY DEF wmlcVars, TagInv, Names

(* What a page starts with has no tags. *)
LEMMA TagFresh == Fresh /\ mode # "done" => TagInv
  <1>0. SUFFICES ASSUME Fresh, mode # "done" PROVE TagInv
    OBVIOUS
  <1>1. /\ written.open = <<>> /\ written.deep = 0 /\ written.crossed = FALSE /\ written.stray = FALSE
        /\ elementStack = <<>>
    BY <1>0 DEF Fresh
  <1>2. <<>> \in Seq(Names) /\ Len(<<>>) = 0
    BY EmptySeq
  <1>3. written \in [open : Seq(Names), deep : Nat, crossed : BOOLEAN, stray : BOOLEAN]
    BY <1>0, <1>2 DEF Fresh
  <1>4. Embeds(<<>>, <<>>)
    <2>1. <<>> \in [1..Len(<<>>) -> 1..Len(<<>>)] /\ \A i \in 1..Len(<<>>) : FALSE
      BY <1>2
    <2> QED
      BY <2>1 DEF Embeds
  <1> QED
    BY <1>0, <1>1, <1>2, <1>3, <1>4 DEF TagInv

LEMMA TagsFollow == ASSUME TagInv PROVE TagsMatch
  <1>1. /\ written.deep \in Nat /\ written.stray = FALSE /\ (written.deep = 0 => written.crossed = FALSE)
        /\ Len(written.open) = Len(elementStack) + written.deep
        /\ mode = "done" => Len(elementStack) = 0
    BY EmptySeq DEF TagInv
  <1>2. written.crossed => written.deep > 0
    BY <1>1
  <1>3. mode = "done" => Len(written.open) = written.deep
    BY <1>1
  <1> QED
    BY <1>1, <1>2, <1>3 DEF TagsMatch

----------------------------------------------------------------------------
(* The first part of a reply and the complete reply *)

First == Drop(SubSeq(pdu, 1, cut), 1)
Complete == Drop(pdu, 1)

Cutting == InParts(pdu, ends)

LEMMA EndFacts ==
  ASSUME Cutting
  PROVE  /\ pdu \in Seq(Octets) /\ Len(pdu) \in Nat /\ Len(ends) \in Nat /\ Len(ends) > 0
         /\ ends[Len(ends)] = Len(pdu)
         /\ \A k \in 1..Len(ends) : ends[k] \in 1..Len(pdu)
         /\ \A i, j \in 1..Len(ends) : i < j => ends[i] < ends[j]
         /\ cut \in 1..Len(pdu)
  <1>1. /\ pdu \in Seq(Octets) /\ ends \in Seq(1..Len(pdu)) /\ ends # <<>> /\ ends[Len(ends)] = Len(pdu)
        /\ \A i, j \in 1..Len(ends) : i < j => ends[i] < ends[j]
    BY DEF Cutting, InParts
  <1>2. Len(pdu) \in Nat /\ Len(ends) \in Nat \ {0}
    BY <1>1, LenProperties, EmptySeq
  <1>3. \A k \in 1..Len(ends) : ends[k] \in 1..Len(pdu)
    BY <1>1, ElementOfSeq
  <1>4. 1 \in 1..Len(ends)
    BY <1>2
  <1> QED
    BY <1>1, <1>2, <1>3, <1>4 DEF cut

LEMMA PartFacts ==
  ASSUME Cutting
  PROVE  /\ Len(pdu) \in Nat /\ cut \in Nat /\ cut >= 1 /\ cut <= Len(pdu)
         /\ SubSeq(pdu, 1, cut) \in Seq(Octets)
         /\ First \in Seq(Octets) /\ Len(First) = cut - 1
         /\ \A i \in 1..(cut - 1) : First[i] = pdu[1 + i]
         /\ Complete \in Seq(Octets) /\ Len(Complete) = Len(pdu) - 1
         /\ \A i \in 1..(Len(pdu) - 1) : Complete[i] = pdu[1 + i]
  <1> DEFINE p == SubSeq(pdu, 1, cut)
             n == Len(pdu)
  <1>1. pdu \in Seq(Octets) /\ n \in Nat /\ cut \in Nat /\ cut >= 1 /\ cut <= n
    BY EndFacts
  <1>2. \A i \in 1..cut : pdu[i] \in Octets
    BY <1>1, ElementOfSeq
  <1>3. /\ p \in Seq(Octets)
        /\ Len(p) = IF 1 <= cut THEN cut - 1 + 1 ELSE 0
        /\ \A i \in 1..(cut - 1 + 1) : p[i] = pdu[1 + i - 1]
    BY <1>1, <1>2, SubSeqProperties
  <1>4. First = Drop(p, 1) /\ Complete = Drop(pdu, 1)
    BY DEF First, Complete
  <1> HIDE DEF p
  <1>5. Len(p) = cut /\ \A i \in 1..cut : p[i] = pdu[i]
    BY <1>1, <1>3
  <1>6. /\ Drop(p, 1) \in Seq(Octets) /\ Len(Drop(p, 1)) = cut - 1
        /\ \A i \in 1..(cut - 1) : Drop(p, 1)[i] = p[1 + i]
    <2>1. p \in Seq(Octets) /\ Len(p) = cut /\ cut \in Nat /\ 1 <= cut
      BY <1>1, <1>3, <1>5
    <2> QED
      BY <2>1, DropWithin, SMTT(40)
  <1>7. /\ Drop(pdu, 1) \in Seq(Octets)
        /\ Len(Drop(pdu, 1)) = IF 1 <= n THEN n - 1 ELSE 0
        /\ \A i \in 1..(n - 1) : Drop(pdu, 1)[i] = pdu[1 + i]
    BY <1>1, DropProperties
  <1>8. Len(First) = cut - 1 /\ \A i \in 1..(cut - 1) : First[i] = pdu[1 + i]
    <2>1. Len(First) = cut - 1 /\ \A i \in 1..(cut - 1) : First[i] = p[1 + i]
      BY <1>4, <1>6
    <2>2. \A i \in 1..(cut - 1) : 1 + i \in 1..cut
      BY <1>1
    <2>3. \A i \in 1..cut : p[i] = pdu[i]
      BY <1>5
    <2> QED
      BY <2>1, <2>2, <2>3, Zenon
  <1>9. Len(Complete) = n - 1 /\ \A i \in 1..(n - 1) : Complete[i] = pdu[1 + i]
    BY <1>1, <1>4, <1>7
  <1> QED
    BY <1>1, <1>3, <1>4, <1>6, <1>7, <1>8, <1>9 DEF p

(* What follows an integer does not change it. *)
LEMMA UintvarPrefix ==
  ASSUME NEW d1 \in Seq(Octets), NEW d \in Seq(Octets), Len(d1) <= Len(d),
         \A i \in 1..Len(d1) : d1[i] = d[i], decodeUintvar(d1).used > 0
  PROVE  /\ decodeUintvar(d).used = decodeUintvar(d1).used
         /\ decodeUintvar(d).value = decodeUintvar(d1).value
  <1> DEFINE n == decodeUintvar(d1).used
  <1>1. Len(d1) \in Nat /\ DOMAIN d1 = 1..Len(d1) /\ Len(d) \in Nat /\ DOMAIN d = 1..Len(d)
    BY LenProperties
  <1>2. /\ n \in 0..Len(d1) /\ n > 0 /\ UintvarEnds(d1) # {}
        /\ IsLeast(n, UintvarEnds(d1)) /\ decodeUintvar(d1).value = UintvarValue(d1, n)
    <2>1. UintvarEnds(d1) # {}
      BY UintvarUsed
    <2> QED
      BY <2>1, UintvarUsed
  <1> HIDE DEF n
  <1>3. n \in UintvarEnds(d)
    <2>1. n \in 1..Len(d1) /\ n \in 1..Len(d) /\ n <= 5 /\ d1[n] < 128
      BY <1>1, <1>2 DEF IsLeast, UintvarEnds
    <2>2. d[n] = d1[n]
      BY <2>1
    <2> QED
      BY <1>1, <2>1, <2>2 DEF UintvarEnds
  <1>4. ASSUME NEW k \in UintvarEnds(d) PROVE n <= k
    <2>1. k \in 1..Len(d) /\ k <= 5 /\ d[k] < 128
      BY <1>1 DEF UintvarEnds
    <2>2. CASE k <= Len(d1)
      <3>1. k \in 1..Len(d1)
        BY <1>1, <2>1, <2>2
      <3>2. k \in UintvarEnds(d1)
        BY <1>1, <2>1, <3>1 DEF UintvarEnds
      <3> QED
        BY <1>2, <3>2 DEF IsLeast
    <2>3. CASE ~(k <= Len(d1))
      BY <1>1, <1>2, <2>1, <2>3
    <2> QED
      BY <2>2, <2>3
  <1>5. IsLeast(n, UintvarEnds(d))
    BY <1>3, <1>4 DEF IsLeast
  <1>6. UintvarEnds(d) \subseteq Nat
    BY <1>1 DEF UintvarEnds
  <1>7. /\ IsLeast(decodeUintvar(d).used, UintvarEnds(d))
        /\ decodeUintvar(d).value = UintvarValue(d, decodeUintvar(d).used)
    BY <1>3, UintvarUsed
  <1>8. decodeUintvar(d).used = n
    BY <1>5, <1>6, <1>7, LeastUnique
  <1>9. UintvarValue(d, n) = UintvarValue(d1, n)
    <2>1. ASSUME NEW k \in 0..4, k < n PROVE d[n - k] = d1[n - k]
      <3>1. n - k \in 1..Len(d1)
        BY <1>1, <1>2, <2>1
      <3> QED
        BY <3>1
    <2>2. /\ 0 < n => d[n - 0] = d1[n - 0]
          /\ 1 < n => d[n - 1] = d1[n - 1]
          /\ 2 < n => d[n - 2] = d1[n - 2]
          /\ 3 < n => d[n - 3] = d1[n - 3]
          /\ 4 < n => d[n - 4] = d1[n - 4]
      BY <2>1
    <2> QED
      BY <2>2 DEF UintvarValue
  <1> QED
    BY <1>2, <1>7, <1>8, <1>9 DEF n

(* A first part that is read as a reply has the status and the length of   *)
(* the headers of the complete reply.                                      *)
LEMMA FirstIsReply ==
  ASSUME Cutting, IsReply(First)
  PROVE  /\ IsReply(Complete) /\ Complete[2] = First[2] /\ HeadersStart(Complete) = HeadersStart(First)
         /\ HeadersLength(Complete).value = HeadersLength(First).value
  <1> DEFINE d1 == Drop(First, 2)
             d == Drop(Complete, 2)
  <1>1. /\ First \in Seq(Octets) /\ Complete \in Seq(Octets) /\ Len(First) \in Nat /\ Len(Complete) \in Nat
        /\ Len(First) <= Len(Complete) /\ Len(First) >= 3
        /\ \A i \in 1..Len(First) : First[i] = Complete[i]
    <2>1. /\ First \in Seq(Octets) /\ Complete \in Seq(Octets) /\ Len(First) = cut - 1
          /\ Len(Complete) = Len(pdu) - 1 /\ Len(pdu) \in Nat /\ cut \in Nat /\ cut >= 1 /\ cut <= Len(pdu)
      BY PartFacts
    <2>2. ASSUME NEW i \in 1..Len(First) PROVE First[i] = Complete[i]
      <3>1. i \in 1..(cut - 1) /\ i \in 1..(Len(pdu) - 1)
        BY <2>1
      <3> QED
        BY <3>1, PartFacts
    <2>3. Len(First) >= 3
      BY DEF IsReply
    <2> QED
      BY <2>1, <2>2, <2>3
  <1>2. /\ d1 \in Seq(Octets) /\ Len(d1) = Len(First) - 2
        /\ \A i \in 1..(Len(First) - 2) : d1[i] = First[2 + i]
    <2>1. First \in Seq(Octets) /\ Len(First) \in Nat /\ 2 <= Len(First)
      BY <1>1
    <2> QED
      BY <2>1, DropWithin
  <1>3. /\ d \in Seq(Octets) /\ Len(d) = Len(Complete) - 2
        /\ \A i \in 1..(Len(Complete) - 2) : d[i] = Complete[2 + i]
    <2>1. Complete \in Seq(Octets) /\ Len(Complete) \in Nat /\ 2 <= Len(Complete)
      BY <1>1
    <2> QED
      BY <2>1, DropWithin
  <1> HIDE DEF d1, d
  <1>4. ASSUME NEW i \in 1..Len(d1) PROVE d1[i] = d[i]
    <2>1. i \in 1..(Len(First) - 2) /\ i \in 1..(Len(Complete) - 2) /\ 2 + i \in 1..Len(First)
      BY <1>1, <1>2
    <2> QED
      BY <1>1, <1>2, <1>3, <2>1
  <1>5. HeadersLength(First) = decodeUintvar(d1) /\ HeadersLength(Complete) = decodeUintvar(d)
    BY DEF HeadersLength, d1, d
  <1>6. decodeUintvar(d1).used > 0
    BY <1>5 DEF IsReply
  <1>7. Len(d1) <= Len(d)
    BY <1>1, <1>2, <1>3
  <1>8. /\ decodeUintvar(d).used = decodeUintvar(d1).used
        /\ decodeUintvar(d).value = decodeUintvar(d1).value
    BY <1>2, <1>3, <1>4, <1>6, <1>7, UintvarPrefix
  <1>9. Complete[1] = First[1] /\ Complete[2] = First[2]
    BY <1>1
  <1>10. Len(Complete) >= 3
    BY <1>1
  <1> QED
    BY <1>5, <1>6, <1>8, <1>9, <1>10 DEF IsReply, HeadersStart

(* The rest of the first part and the other parts are the rest of all. *)
LEMMA PartsJoin ==
  ASSUME Cutting, NEW k \in Nat, k <= Len(First)
  PROVE  Drop(First, k) \o Drop(pdu, cut) = Drop(Complete, k)
  <1> DEFINE a == Drop(First, k)
             b == Drop(pdu, cut)
             c == Drop(Complete, k)
             n == Len(pdu)
  <1>1. /\ n \in Nat /\ cut \in Nat /\ cut >= 1 /\ cut <= n /\ k <= cut - 1
        /\ First \in Seq(Octets) /\ Len(First) = cut - 1 /\ Complete \in Seq(Octets) /\ Len(Complete) = n - 1
        /\ pdu \in Seq(Octets)
    BY PartFacts, EndFacts
  <1>2. /\ a \in Seq(Octets) /\ Len(a) = cut - 1 - k
        /\ \A i \in 1..(cut - 1 - k) : a[i] = First[k + i]
    BY <1>1, DropProperties
  <1>3. /\ b \in Seq(Octets) /\ Len(b) = n - cut
        /\ \A i \in 1..(n - cut) : b[i] = pdu[cut + i]
    BY <1>1, DropProperties
  <1>4. /\ c \in Seq(Octets) /\ Len(c) = n - 1 - k
        /\ \A i \in 1..(n - 1 - k) : c[i] = Complete[k + i]
    <2> DEFINE l == Len(Complete)
    <2>1. Complete \in Seq(Octets) /\ l \in Nat /\ Len(Complete) = l /\ k <= l
      BY <1>1
    <2>2. l = n - 1
      BY <1>1
    <2> HIDE DEF l
    <2>3. c \in Seq(Octets) /\ Len(c) = l - k /\ \A i \in 1..(l - k) : c[i] = Complete[k + i]
      BY <2>1, DropWithin, ZenonT(60)
    <2> QED
      BY <2>2, <2>3
  <1> HIDE DEF a, b, c, n
  <1>5. /\ a \o b \in Seq(Octets) /\ Len(a \o b) = Len(a) + Len(b)
        /\ \A i \in 1..(Len(a) + Len(b)) : (a \o b)[i] = IF i <= Len(a) THEN a[i] ELSE b[i - Len(a)]
    BY <1>2, <1>3, ConcatProperties
  <1>6. Len(a \o b) = Len(c)
    BY <1>1, <1>2, <1>3, <1>4, <1>5
  <1>7. ASSUME NEW i \in 1..Len(c) PROVE (a \o b)[i] = c[i]
    <2>1. i \in Nat /\ i >= 1 /\ i <= n - 1 - k
      BY <1>1, <1>4
    <2>2. c[i] = pdu[1 + (k + i)]
      <3>1. i \in 1..(n - 1 - k) /\ k + i \in 1..(n - 1)
        BY <1>1, <2>1
      <3>2. Complete[k + i] = pdu[1 + (k + i)]
        BY <3>1, PartFacts DEF n
      <3> QED
        BY <1>4, <3>1, <3>2
    <2>3. (a \o b)[i] = IF i <= cut - 1 - k THEN a[i] ELSE b[i - (cut - 1 - k)]
      BY <1>1, <1>2, <1>3, <1>5, <2>1, SMTT(40)
    <2>4. CASE i <= cut - 1 - k
      <3>1. i \in 1..(cut - 1 - k) /\ k + i \in 1..(cut - 1)
        BY <1>1, <2>1, <2>4
      <3>2. First[k + i] = pdu[1 + (k + i)]
        BY <3>1, PartFacts
      <3> QED
        BY <1>2, <2>2, <2>3, <2>4, <3>1, <3>2
    <2>5. CASE ~(i <= cut - 1 - k)
      <3>1. i - (cut - 1 - k) \in 1..(n - cut) /\ cut + (i - (cut - 1 - k)) = 1 + (k + i)
        BY <1>1, <2>1, <2>5
      <3>2. b[i - (cut - 1 - k)] = pdu[1 + (k + i)]
        BY <1>3, <3>1
      <3> QED
        BY <2>2, <2>3, <2>5, <3>2
    <2> QED
      BY <2>4, <2>5
  <1>8. a \o b = c
    BY <1>4, <1>5, <1>6, <1>7, SeqEqual
  <1> QED
    BY <1>8 DEF a, b, c

(* The octets of the parts after the first, up to position m. *)
Rest(m) == SubSeq(pdu, cut + 1, m)

LEMMA RestFacts ==
  ASSUME Cutting, NEW m \in cut..Len(pdu)
  PROVE  /\ Rest(m) \in Seq(Octets) /\ Len(Rest(m)) = m - cut
         /\ \A i \in 1..(m - cut) : Rest(m)[i] = pdu[cut + i]
  <1>1. cut \in Nat /\ cut >= 1 /\ m \in Nat /\ cut <= m /\ m <= Len(pdu) /\ Len(pdu) \in Nat
    BY EndFacts
  <1>2. \A i \in (cut + 1)..m : pdu[i] \in Octets
    <2>1. pdu \in Seq(Octets) /\ \A i \in (cut + 1)..m : i \in 1..Len(pdu)
      BY <1>1, EndFacts
    <2> QED
      BY <2>1, ElementOfSeq
  <1>3. /\ SubSeq(pdu, cut + 1, m) \in Seq(Octets)
        /\ Len(SubSeq(pdu, cut + 1, m)) = IF cut + 1 <= m THEN m - (cut + 1) + 1 ELSE 0
        /\ \A i \in 1..(m - (cut + 1) + 1) : SubSeq(pdu, cut + 1, m)[i] = pdu[cut + 1 + i - 1]
    BY <1>1, <1>2, SubSeqProperties
  <1> QED
    BY <1>1, <1>3 DEF Rest

LEMMA RestNone == ASSUME Cutting, NEW b \in Seq(Octets) PROVE b \o Rest(cut) = b
  <1>1. cut \in cut..Len(pdu) /\ cut \in Nat
    BY EndFacts
  <1>2. Rest(cut) \in Seq(Octets) /\ Len(Rest(cut)) = 0
    BY <1>1, RestFacts
  <1>3. Rest(cut) = <<>>
    BY <1>2, EmptySeq
  <1> QED
    BY <1>3, ConcatEmptySeq

LEMMA PartTyped ==
  ASSUME Cutting, NEW k \in 1..Len(ends)
  PROVE  /\ Part(k) \in Seq(Octets)
         /\ k > 1 => /\ ends[k - 1] \in cut..Len(pdu) /\ ends[k] \in cut..Len(pdu)
                     /\ ends[k - 1] < ends[k]
                     /\ Len(Part(k)) = ends[k] - ends[k - 1]
                     /\ \A i \in 1..(ends[k] - ends[k - 1]) : Part(k)[i] = pdu[ends[k - 1] + i]
  <1> DEFINE a == IF k = 1 THEN 0 ELSE ends[k - 1]
             e == ends[k]
  <1>1. e \in 1..Len(pdu) /\ Len(pdu) \in Nat /\ pdu \in Seq(Octets) /\ Len(ends) \in Nat /\ cut \in 1..Len(pdu)
    BY EndFacts
  <1>2. k > 1 => ends[k - 1] \in 1..Len(pdu) /\ ends[k - 1] < e /\ cut <= ends[k - 1] /\ a = ends[k - 1]
    <2>1. SUFFICES ASSUME k > 1
                   PROVE  ends[k - 1] \in 1..Len(pdu) /\ ends[k - 1] < e /\ cut <= ends[k - 1]
      OBVIOUS
    <2>2. k - 1 \in 1..Len(ends) /\ 1 \in 1..Len(ends)
      BY <1>1, <2>1
    <2>3. ends[k - 1] \in 1..Len(pdu) /\ ends[k - 1] < ends[k]
      BY <2>2, EndFacts
    <2>4. 1 < k - 1 => ends[1] < ends[k - 1]
      BY <2>2, EndFacts
    <2>5. CASE 1 < k - 1
      BY <1>1, <2>3, <2>4, <2>5 DEF cut
    <2>6. CASE k - 1 = 1
      BY <1>1, <2>3, <2>6 DEF cut
    <2> QED
      BY <2>1, <2>2, <2>5, <2>6
  <1>3. a \in Nat /\ a < e
    <2>1. CASE k = 1
      BY <1>1, <2>1
    <2>2. CASE k > 1
      BY <1>1, <1>2, <2>2
    <2> QED
      BY <1>1, <2>1, <2>2
  <1> HIDE DEF a, e
  <1>4. \A i \in (a + 1)..e : pdu[i] \in Octets
    <2>1. \A i \in (a + 1)..e : i \in 1..Len(pdu)
      BY <1>1, <1>3
    <2> QED
      BY <1>1, <2>1, ElementOfSeq
  <1>5. /\ SubSeq(pdu, a + 1, e) \in Seq(Octets)
        /\ Len(SubSeq(pdu, a + 1, e)) = IF a + 1 <= e THEN e - (a + 1) + 1 ELSE 0
        /\ \A i \in 1..(e - (a + 1) + 1) : SubSeq(pdu, a + 1, e)[i] = pdu[a + 1 + i - 1]
    BY <1>1, <1>3, <1>4, SubSeqProperties
  <1>6. Len(SubSeq(pdu, a + 1, e)) = e - a /\ \A i \in 1..(e - a) : SubSeq(pdu, a + 1, e)[i] = pdu[a + i]
    BY <1>1, <1>3, <1>5
  <1>7. Part(k) = SubSeq(pdu, a + 1, e)
    BY DEF Part, a, e
  <1>8. e = ends[k]
    BY DEF e
  <1>9. k > 1 => ends[k - 1] \in cut..Len(pdu) /\ ends[k] \in cut..Len(pdu) /\ ends[k - 1] < ends[k]
    BY <1>1, <1>2, <1>8
  <1> QED
    BY <1>2, <1>5, <1>6, <1>7, <1>8, <1>9

(* The next part continues what the parts before it have of the rest. *)
LEMMA RestGrows ==
  ASSUME Cutting, NEW k \in 1..Len(ends), k > 1
  PROVE  Rest(ends[k - 1]) \o Part(k) = Rest(ends[k])
  <1> DEFINE a == ends[k - 1]
             e == ends[k]
             x == Rest(a)
             y == Part(k)
             z == Rest(e)
  <1>1. /\ a \in cut..Len(pdu) /\ e \in cut..Len(pdu) /\ a < e
        /\ y \in Seq(Octets) /\ Len(y) = e - a /\ \A i \in 1..(e - a) : y[i] = pdu[a + i]
    BY PartTyped
  <1> HIDE DEF a, e, y
  <1>2. x \in Seq(Octets) /\ Len(x) = a - cut /\ \A i \in 1..(a - cut) : x[i] = pdu[cut + i]
    BY <1>1, RestFacts
  <1>3. z \in Seq(Octets) /\ Len(z) = e - cut /\ \A i \in 1..(e - cut) : z[i] = pdu[cut + i]
    BY <1>1, RestFacts
  <1> HIDE DEF x, z
  <1>4. a \in Nat /\ e \in Nat /\ cut \in Nat /\ cut <= a
    BY <1>1, EndFacts
  <1>5. /\ x \o y \in Seq(Octets) /\ Len(x \o y) = Len(x) + Len(y)
        /\ \A i \in 1..(Len(x) + Len(y)) : (x \o y)[i] = IF i <= Len(x) THEN x[i] ELSE y[i - Len(x)]
    BY <1>1, <1>2, ConcatProperties
  <1>6. Len(x \o y) = Len(z)
    BY <1>1, <1>2, <1>3, <1>4, <1>5
  <1>7. ASSUME NEW i \in 1..Len(z) PROVE (x \o y)[i] = z[i]
    <2>1. i \in 1..(e - cut) /\ (x \o y)[i] = IF i <= a - cut THEN x[i] ELSE y[i - (a - cut)]
      <3>1. i \in 1..(e - cut) /\ i \in 1..((a - cut) + (e - a))
        BY <1>1, <1>3, <1>4
      <3>2. \A j \in 1..((a - cut) + (e - a)) : (x \o y)[j] = IF j <= a - cut THEN x[j] ELSE y[j - (a - cut)]
        BY <1>1, <1>2, <1>5
      <3> QED
        BY <3>1, <3>2
    <2>2. z[i] = pdu[cut + i]
      BY <1>3, <2>1
    <2>3. CASE i <= a - cut
      <3>1. i \in 1..(a - cut)
        BY <1>4, <2>1, <2>3
      <3> QED
        BY <1>2, <2>1, <2>2, <2>3, <3>1
    <2>4. CASE ~(i <= a - cut)
      <3>1. i - (a - cut) \in 1..(e - a) /\ a + (i - (a - cut)) = cut + i
        BY <1>4, <2>1, <2>4
      <3>2. y[i - (a - cut)] = pdu[cut + i]
        BY <1>1, <3>1
      <3> QED
        BY <2>1, <2>2, <2>4, <3>2
    <2> QED
      BY <2>3, <2>4
  <1>8. x \o y = z
    BY <1>3, <1>5, <1>6, <1>7, SeqEqual
  <1> QED
    BY <1>8 DEF x, y, z, a, e

----------------------------------------------------------------------------
(* The answer *)

Browsers ==
  [status : Nat, type : Seq(Octets), length : Int, server : Seq(Octets), body : Seq(Octets), text : Nat]

(* Headers that say what the complete reply will say, and of its body what *)
(* the parts that came in order have.                                      *)
Streamed ==
  /\ early \in Responses /\ browser \in Browsers
  /\ browser.text = 0 /\ browser.length = EarlyLength(early)
  /\ Len(came) > 0
  /\ Reply.ok => browser.status = Reply.status
  /\ Reply.ok /\ HeadersInFirstPart => early.body \o Drop(pdu, cut) = Reply.body
  /\ InOrder => browser.body = early.body \o Rest(ends[Len(came)])

(* The browser has nothing, or the body as far as it came, or headers      *)
(* without a length that say what the complete reply will say.             *)
Waiting ==
  IF headersSent
  THEN IF Streaming THEN Streamed
       ELSE browser \in Browsers /\ browser.length = NoLength /\ (Reply.ok => browser.status = Reply.status)
  ELSE browser = NothingSent

PathInv ==
  /\ rpc \in {"parts", "first", "whole", "text", "sent"}
  /\ Cutting
  /\ came \in Seq(1..Len(ends)) /\ Len(came) <= Len(ends)
  /\ headersSent \in BOOLEAN
  /\ headersSent => 1 \in Range(came)
  /\ rpc # "sent" => Waiting
  /\ rpc = "parts" => Len(came) < Len(ends)
  /\ rpc = "first" => data = First /\ headersSent = FALSE /\ Len(came) > 0 /\ came[Len(came)] = 1
  /\ rpc \in {"whole", "text"} => data = Complete /\ ~Streaming
  /\ rpc \in {"parts", "first", "whole"} => mode = "idle"
  /\ rpc = "text" => dpc = "done" /\ wmlc = resp.body
  /\ rpc = "sent" => EarlyAnswer

LEMMA ReplyFacts ==
  ASSUME Cutting, Reply.ok
  PROVE  /\ IsReply(Complete) /\ HeadersFit(Complete) /\ Reply.status = wspStatusToHttp(Complete[2])
         /\ Reply.status \in StatusTexts
         /\ Reply.body = Drop(Complete, HeadersStart(Complete) + HeadersLength(Complete).value)
  <1>1. Reply = parseReplyPDU(Complete)
    BY DEF Reply, Complete
  <1>2. IsReply(Complete) /\ ~(HeadersStart(Complete) + HeadersLength(Complete).value > Len(Complete))
    BY <1>1 DEF parseReplyPDU
  <1>3. /\ Reply.status = wspStatusToHttp(Complete[2])
        /\ Reply.body = Drop(Complete, HeadersStart(Complete) + HeadersLength(Complete).value)
    BY <1>1, <1>2 DEF parseReplyPDU
  <1>4. Complete \in Seq(Octets)
    BY PartFacts
  <1>5. HeadersFit(Complete)
    BY <1>2, <1>4, HeadersFacts DEF HeadersFit
  <1>6. Complete[2] \in Nat
    <2>1. 2 \in 1..Len(Complete)
      BY <1>2, <1>4, LenProperties DEF IsReply
    <2> QED
      BY <1>4, <2>1, OctetAt
  <1> QED
    BY <1>2, <1>3, <1>5, <1>6, StatusKnown

(* The complete reply, decoded. *)
LEMMA WholeFacts ==
  ASSUME WspInv, Cutting, dpc = "done", data = Complete, Reply.ok
  PROVE  resp.ok /\ resp.status = Reply.status /\ resp.body = Reply.body
  <1>1. Reply = parseReplyPDU(data)
    BY DEF Reply, Complete
  <1> QED
    BY <1>1, DecodedAgrees DEF ReadersAgree

(* The first part, decoded: its status, and its body where its headers are *)
(* all there.                                                              *)
LEMMA FirstDecoded ==
  ASSUME WspInv, Cutting, dpc = "done", data = First, resp.ok
  PROVE  /\ Reply.ok => resp.status = Reply.status
         /\ Reply.ok /\ HeadersFit(First) => resp.body \o Drop(pdu, cut) = Reply.body
  <1>1. Decoded
    BY DEF WspInv
  <1>2. IsReply(First)
    BY <1>1 DEF Decoded, EmptyResponse
  <1>3. resp.status = wspStatusToHttp(First[2])
    BY <1>1, <1>2 DEF Decoded
  <1>4. /\ Complete[2] = First[2] /\ HeadersStart(Complete) = HeadersStart(First)
        /\ HeadersLength(Complete).value = HeadersLength(First).value
    BY <1>2, FirstIsReply
  <1>5. Reply.ok => resp.status = Reply.status
    BY <1>3, <1>4, ReplyFacts
  <1>6. ASSUME Reply.ok, HeadersFit(First)
        PROVE  resp.body \o Drop(pdu, cut) = Reply.body
    <2> DEFINE k == HeadersStart(First) + HeadersLength(First).value
    <2>1. k \in Nat /\ k <= Len(First)
      BY <1>6, PartFacts, HeadersFacts DEF HeadersFit
    <2>2. resp.body = Drop(First, k)
      BY <1>1, <1>2, <1>6 DEF Decoded
    <2>3. Reply.body = Drop(Complete, k)
      BY <1>4, <1>6, ReplyFacts
    <2> HIDE DEF k
    <2> QED
      BY <2>1, <2>2, <2>3, PartsJoin
  <1> QED
    BY <1>5, <1>6

(* With the last part streamed the browser has its answer. *)
LEMMA StreamEnds ==
  Cutting /\ Streaming /\ Streamed /\ Len(came) = Len(ends) => EarlyAnswer
  <1>1. SUFFICES ASSUME Cutting, Streaming, Streamed, Len(came) = Len(ends) PROVE EarlyAnswer
    OBVIOUS
  <1>2. /\ early.body \in Seq(Octets) /\ browser.text = 0 /\ browser.length = EarlyLength(early)
        /\ InOrder => browser.body = early.body \o Drop(pdu, cut)
    <2>1. Rest(ends[Len(came)]) = Drop(pdu, cut)
      BY <1>1, EndFacts DEF Rest, Drop
    <2> QED
      BY <1>1, <2>1 DEF Streamed, Responses
  <1>3. EarlyIsFaithful
    <2>1. Reply.ok => browser.status = Reply.status /\ Reply.status \in StatusTexts
      BY <1>1, ReplyFacts DEF Streamed
    <2>2. Reply.ok /\ HeadersInFirstPart /\ InOrder => browser.body = Reply.body
      BY <1>1, <1>2 DEF Streamed
    <2> QED
      BY <1>1, <1>2, <2>1, <2>2 DEF EarlyIsFaithful
  <1>4. PromisedLength
    <2>1. browser.length # NoLength => browser.length = early.length
      BY <1>2 DEF EarlyLength
    <2>2. InOrder => Len(browser.body) = Len(early.body) + (Len(pdu) - cut)
      <3>1. Drop(pdu, cut) \in Seq(Octets) /\ Len(Drop(pdu, cut)) = Len(pdu) - cut
        <4>1. pdu \in Seq(Octets) /\ cut \in Nat /\ Len(pdu) \in Nat /\ cut <= Len(pdu)
          BY <1>1, EndFacts
        <4> QED
          BY <4>1, DropWithin
      <3>2. Len(early.body \o Drop(pdu, cut)) = Len(early.body) + Len(Drop(pdu, cut))
        BY <1>2, <3>1, ConcatProperties
      <3> QED
        BY <1>2, <3>1, <3>2
    <2>3. Len(early.body) \in Nat /\ Len(pdu) \in Nat /\ cut \in Nat
      BY <1>1, <1>2, EndFacts, LenProperties
    <2> QED
      BY <1>1, <1>2, <2>1, <2>2, <2>3 DEF PromisedLength
  <1> QED
    BY <1>3, <1>4 DEF EarlyAnswer

(* What does not change with the reply and its parts. *)
LEMMA SameReply ==
  ASSUME pdu' = pdu, ends' = ends
  PROVE  /\ cut' = cut /\ First' = First /\ Complete' = Complete /\ Reply' = Reply /\ Cutting' = Cutting
         /\ HeadersInFirstPart' = HeadersInFirstPart
         /\ \A m \in Nat : SubSeq(pdu', cut' + 1, m) = Rest(m)
  <1>1. cut' = cut
    BY DEF cut
  <1> QED
    BY <1>1 DEF First, Complete, Reply, Cutting, HeadersInFirstPart, Rest

LEMMA PathSame ==
  ASSUME PathInv, rpc' = rpc, pdu' = pdu, ends' = ends, came' = came, early' = early,
         headersSent' = headersSent, browser' = browser, data' = data
  PROVE  /\ Cutting' /\ First' = First /\ Complete' = Complete /\ Reply' = Reply
         /\ cut' = cut /\ HeadersInFirstPart' = HeadersInFirstPart
         /\ InOrder' = InOrder /\ Streaming' = Streaming /\ (rpc # "sent" => Waiting')
  <1>1. /\ cut' = cut /\ First' = First /\ Complete' = Complete /\ Reply' = Reply /\ Cutting'
        /\ HeadersInFirstPart' = HeadersInFirstPart
    BY SameReply DEF PathInv
  <1>2. InOrder' = InOrder /\ Streaming' = Streaming
    BY DEF InOrder, Streaming
  <1>3. Rest(ends[Len(came)])' = Rest(ends[Len(came)])
    BY <1>1 DEF Rest
  <1>4. Streamed' = Streamed
    BY <1>1, <1>2, <1>3 DEF Streamed
  <1>5. rpc # "sent" => Waiting'
    BY <1>1, <1>2, <1>4 DEF Waiting, PathInv
  <1> QED
    BY <1>1, <1>2, <1>5

LEMMA PathDecode ==
  ASSUME PathInv, DecodeStep
  PROVE  PathInv'
  <1>1. /\ rpc \in {"first", "whole"} /\ rpc' = rpc /\ pdu' = pdu /\ ends' = ends /\ came' = came
        /\ early' = early /\ headersSent' = headersSent /\ browser' = browser /\ mode' = mode /\ data' = data
    BY DEF DecodeStep, respVars, wmlcVars, Decode, DecodePDU, ParseContentType, ParseField, EndFields
  <1>2. /\ Cutting' /\ First' = First /\ Complete' = Complete /\ Streaming' = Streaming
        /\ rpc # "sent" => Waiting'
    BY <1>1, PathSame
  <1> QED
    BY <1>1, <1>2 DEF PathInv

LEMMA PathDecompile ==
  ASSUME PathInv, DecompileStep
  PROVE  PathInv'
  <1>1. /\ rpc = "text" /\ rpc' = rpc /\ pdu' = pdu /\ ends' = ends /\ came' = came /\ early' = early
        /\ headersSent' = headersSent /\ browser' = browser /\ data' = data /\ dpc' = dpc /\ resp' = resp
    BY SMTT(40) DEF DecompileStep, respVars, wspVars
  <1>2. wmlc' = wmlc
    BY DEF DecompileStep, Decompile, Prologue, SkipToken, EndElement, WriteText, Opaque, Literal, Element,
           EndAttributes, StartAttribute, AttributeText, EndValue, EndBody, pageVars
  <1> QED
    BY <1>1, <1>2, PathSame DEF PathInv

LEMMA PathStutter == ASSUME PathInv, UNCHANGED vars PROVE PathInv'
  <1>1. /\ rpc' = rpc /\ pdu' = pdu /\ ends' = ends /\ came' = came /\ early' = early
        /\ headersSent' = headersSent /\ browser' = browser /\ data' = data /\ dpc' = dpc /\ resp' = resp
        /\ mode' = mode /\ wmlc' = wmlc /\ outPos' = outPos
    BY DEF vars, respVars, wspVars, wmlcVars
  <1>2. /\ Cutting' /\ First' = First /\ Complete' = Complete /\ Reply' = Reply
        /\ cut' = cut /\ HeadersInFirstPart' = HeadersInFirstPart
        /\ InOrder' = InOrder /\ Streaming' = Streaming /\ (rpc # "sent" => Waiting')
    BY <1>1, PathSame
  <1>3. EarlyAnswer' = EarlyAnswer
    BY <1>1, <1>2 DEF EarlyAnswer, EarlyIsFaithful, PromisedLength
  <1> QED
    BY <1>1, <1>2, <1>3 DEF PathInv

(* Where Proceed leads, with the answer told as it should be. *)
LEMMA PathProceed ==
  ASSUME Cutting, pdu' = pdu, ends' = ends, came' \in Seq(1..Len(ends)), Len(came') <= Len(ends),
         headersSent' \in BOOLEAN, headersSent' => 1 \in Range(came'), Waiting', mode = "idle", mode' = mode,
         Proceed(Len(came'), Streaming')
  PROVE  PathInv'
  <1>1. Cutting' /\ Complete' = Complete
    BY SameReply
  <1>2. Len(came') \in Nat /\ Len(ends) \in Nat
    BY LenProperties, EndFacts
  <1>3. CASE Len(came') < Len(ends)
    <2>1. rpc' = "parts"
      BY <1>3 DEF Proceed
    <2> QED
      BY <1>1, <1>3, <2>1 DEF PathInv
  <1>4. CASE Len(came') = Len(ends) /\ Streaming'
    <2>1. rpc' = "sent"
      BY <1>2, <1>4 DEF Proceed
    <2>2. (Cutting /\ Streaming /\ Streamed /\ Len(came) = Len(ends))'
      BY <1>1, <1>4 DEF Waiting, Streaming
    <2>3. EarlyAnswer'
      BY <2>2, StreamEnds, PTL
    <2> QED
      BY <1>1, <2>1, <2>3 DEF PathInv
  <1>5. CASE Len(came') = Len(ends) /\ ~Streaming'
    <2>1. rpc' = "whole" /\ data' = Complete
      BY <1>2, <1>5 DEF Proceed, StartDecode, Complete
    <2> QED
      BY <1>1, <1>5, <2>1 DEF PathInv
  <1> QED
    BY <1>2, <1>3, <1>4, <1>5

LEMMA PathReceive ==
  ASSUME PathInv, NEW k \in 1..Len(ends), Receive(k)
  PROVE  PathInv'
  <1>1. /\ rpc = "parts" /\ came' = Append(came, k) /\ pdu' = pdu /\ ends' = ends /\ early' = early
        /\ headersSent' = headersSent /\ mode' = mode /\ mode = "idle" /\ Cutting /\ Waiting
        /\ came \in Seq(1..Len(ends)) /\ Len(came) < Len(ends) /\ headersSent \in BOOLEAN
    BY DEF Receive, PathInv, wmlcVars
  <1>2. /\ came' \in Seq(1..Len(ends)) /\ Len(came) \in Nat /\ Len(came') = Len(came) + 1
        /\ \A i \in 1..Len(came) : came'[i] = came[i]
        /\ came'[Len(came) + 1] = k
    BY <1>1, AppendFacts
  <1>3. /\ cut' = cut /\ First' = First /\ Complete' = Complete /\ Reply' = Reply /\ Cutting'
        /\ HeadersInFirstPart' = HeadersInFirstPart /\ \A m \in Nat : SubSeq(pdu', cut' + 1, m) = Rest(m)
    BY <1>1, SameReply
  <1>4. Streaming' = Streaming /\ Len(ends) \in Nat /\ Len(came') <= Len(ends)
    BY <1>1, <1>2, EndFacts DEF Streaming
  <1>5. InOrder' => InOrder /\ k = Len(came) + 1
    <2>1. SUFFICES ASSUME InOrder' PROVE InOrder /\ k = Len(came) + 1
      OBVIOUS
    <2>2. \A i \in 1..(Len(came) + 1) : came'[i] = i
      BY <1>2, <2>1 DEF InOrder
    <2>3. k = Len(came) + 1
      BY <1>2, <2>2
    <2>4. \A i \in 1..Len(came) : came[i] = i
      BY <1>2, <2>2
    <2> QED
      BY <2>3, <2>4 DEF InOrder
  <1>6. headersSent => 1 \in Range(came')
    <2>1. SUFFICES ASSUME headersSent PROVE 1 \in Range(came')
      OBVIOUS
    <2>2. PICK i \in 1..Len(came) : came[i] = 1
      BY <1>1, <2>1, LenProperties DEF PathInv, Range
    <2>3. came'[i] = 1 /\ i \in DOMAIN came'
      BY <1>2, <2>2, LenProperties
    <2> QED
      BY <2>3 DEF Range
  <1>7. CASE k = 1 /\ rpc' = "first" /\ StartDecode(Part(1)) /\ UNCHANGED browser
    <2>1. data' = First
      BY <1>7 DEF StartDecode, Part, First, cut
    <2>2. headersSent = FALSE
      BY <1>1, <1>7 DEF Receive, PathInv
    <2>3. Waiting'
      BY <1>1, <1>7, <2>2 DEF Waiting
    <2>4. Len(came') > 0 /\ came'[Len(came')] = 1
      BY <1>2, <1>7
    <2> QED
      BY <1>1, <1>2, <1>3, <1>4, <1>7, <2>1, <2>2, <2>3, <2>4 DEF PathInv
  <1>8. CASE /\ k # 1
             /\ browser' = IF Streaming THEN [browser EXCEPT !.body = @ \o Part(k)] ELSE browser
             /\ Proceed(Len(came'), Streaming)
    <2>1. CASE ~Streaming
      <3>1. Waiting'
        BY <1>1, <1>3, <1>4, <1>8, <2>1 DEF Waiting
      <3> QED
        BY <1>1, <1>2, <1>4, <1>8, <1>6, <3>1, PathProceed
    <2>2. CASE Streaming
      <3>1. Streamed
        BY <1>1, <2>2 DEF Waiting, Streaming
      <3>2. k > 1 /\ Part(k) \in Seq(Octets)
        BY <1>1, <1>4, <1>8, PartTyped
      <3>3. browser \in Browsers /\ browser' = [browser EXCEPT !.body = browser.body \o Part(k)]
        BY <1>8, <2>2, <3>1 DEF Streamed
      <3>4. browser.body \o Part(k) \in Seq(Octets)
        BY <3>2, <3>3, ConcatProperties DEF Browsers
      <3>5. /\ browser' \in Browsers /\ browser'.body = browser.body \o Part(k)
            /\ browser'.text = browser.text /\ browser'.length = browser.length
            /\ browser'.status = browser.status
        BY <3>3, <3>4 DEF Browsers
      <3>6. InOrder' => browser'.body = early.body \o Rest(ends[k])
        <4>1. SUFFICES ASSUME InOrder' PROVE browser'.body = early.body \o Rest(ends[k])
          OBVIOUS
        <4>2. k - 1 = Len(came) /\ browser.body = early.body \o Rest(ends[k - 1])
          <5>1. InOrder /\ k = Len(came) + 1
            BY <1>5, <4>1
          <5>2. k - 1 = Len(came)
            BY <1>2, <5>1
          <5>3. browser.body = early.body \o Rest(ends[Len(came)])
            BY <3>1, <5>1 DEF Streamed
          <5> QED
            BY <5>2, <5>3
        <4>3. /\ early.body \in Seq(Octets) /\ Rest(ends[k - 1]) \in Seq(Octets)
              /\ Rest(ends[k - 1]) \o Part(k) = Rest(ends[k])
          BY <1>1, <3>1, <3>2, PartTyped, RestFacts, RestGrows DEF Streamed, Responses
        <4>4. (early.body \o Rest(ends[k - 1])) \o Part(k) = early.body \o (Rest(ends[k - 1]) \o Part(k))
          <5> DEFINE x == early.body
                     y == Rest(ends[k - 1])
                     z == Part(k)
          <5>1. x \in Seq(Octets) /\ y \in Seq(Octets) /\ z \in Seq(Octets)
            BY <3>2, <4>3
          <5> HIDE DEF x, y, z
          <5>2. (x \o y) \o z = x \o (y \o z)
            BY <5>1, ConcatAssociative, SMTT(40)
          <5> QED
            BY <5>2 DEF x, y, z
        <4> QED
          BY <3>5, <4>2, <4>3, <4>4
      <3>7. InOrder' => Rest(ends[Len(came)])' = Rest(ends[k])
        <4>1. SUFFICES ASSUME InOrder' PROVE Rest(ends[Len(came)])' = Rest(ends[k])
          OBVIOUS
        <4>2. Len(came') = k
          BY <1>2, <1>5, <4>1
        <4> QED
          BY <1>1, <1>3, <4>2 DEF Rest
      <3>8. Streamed'
        <4>1. early' \in Responses /\ browser' \in Browsers /\ browser'.text = 0 /\ Len(came') > 0
          BY <1>1, <1>2, <3>1, <3>5 DEF Streamed
        <4>2. browser'.length = EarlyLength(early)'
          BY <1>1, <3>1, <3>5 DEF Streamed, EarlyLength
        <4>3. Reply'.ok => browser'.status = Reply'.status
          BY <1>3, <3>1, <3>5 DEF Streamed
        <4>4. Reply'.ok /\ HeadersInFirstPart' => early'.body \o Drop(pdu, cut)' = Reply'.body
          BY <1>1, <1>3, <3>1 DEF Streamed
        <4>5. InOrder' => browser'.body = early'.body \o Rest(ends[Len(came)])'
          BY <1>1, <3>6, <3>7
        <4> QED
          BY <4>1, <4>2, <4>3, <4>4, <4>5 DEF Streamed
      <3>9. Waiting'
        BY <1>1, <1>4, <2>2, <3>8 DEF Waiting, Streaming
      <3> QED
        BY <1>1, <1>2, <1>4, <1>8, <1>6, <3>9, PathProceed
    <2> QED
      BY <2>1, <2>2
  <1> QED
    BY <1>7, <1>8 DEF Receive

LEMMA PathEarly ==
  ASSUME WspInv, PathInv, TrySendEarlyHeaders
  PROVE  PathInv'
  <1> DEFINE wml == IsWMLCType(resp.type)
             b == [status |-> resp.status, type |-> IF wml THEN WML_TYPE ELSE resp.type,
                   length |-> EarlyLength(resp), server |-> resp.server,
                   body |-> EarlyBody(resp), text |-> 0]
  <1>1. /\ rpc = "first" /\ dpc = "done" /\ data = First /\ Cutting /\ Waiting /\ headersSent = FALSE
        /\ mode = "idle" /\ mode' = mode /\ pdu' = pdu /\ ends' = ends /\ came' = came /\ headersSent' = resp.ok
        /\ resp \in Responses /\ came \in Seq(1..Len(ends)) /\ Len(came) <= Len(ends)
        /\ Len(came) > 0 /\ came[Len(came)] = 1
        /\ Proceed(Len(came), resp.ok /\ ~wml)
    BY DEF TrySendEarlyHeaders, PathInv, wmlcVars, WspInv
  <1>2. /\ cut' = cut /\ First' = First /\ Complete' = Complete /\ Reply' = Reply /\ Cutting'
        /\ HeadersInFirstPart' = HeadersInFirstPart /\ HeadersInFirstPart = HeadersFit(First)
    BY <1>1, SameReply DEF HeadersInFirstPart, First
  <1>3. headersSent' \in BOOLEAN
    BY <1>1 DEF Responses
  <1>4. Streaming' = (resp.ok /\ ~wml)
    <2>1. resp.ok => early' = resp
      BY DEF TrySendEarlyHeaders
    <2> QED
      BY <1>1, <2>1 DEF Streaming
  <1>5. Waiting'
    <2>1. CASE ~resp.ok
      <3>1. browser' = NothingSent /\ headersSent' = FALSE
        BY <1>1, <1>3, <2>1 DEF TrySendEarlyHeaders, Waiting
      <3> QED
        BY <3>1 DEF Waiting
    <2>2. resp.ok => browser' = b /\ early' = resp
      BY DEF TrySendEarlyHeaders
    <2>3. resp.ok /\ Reply.ok => resp.status = Reply.status
      BY <1>1, FirstDecoded
    <2>4. CASE resp.ok /\ wml
      <3>1. EarlyLength(resp) = NoLength /\ EarlyBody(resp) = <<>>
        BY <2>4 DEF EarlyLength, EarlyBody
      <3>2. b = [status |-> resp.status, type |-> WML_TYPE, length |-> NoLength, server |-> resp.server,
                 body |-> <<>>, text |-> 0]
        BY <2>4, <3>1
      <3>3. <<>> \in Seq(Octets) /\ WML_TYPE \in Seq(Octets) /\ NoLength \in Int
        <4>1. 0 \in Octets
          BY DEF Octets
        <4> QED
          BY <4>1, EmptySeq DEF WML_TYPE, NoLength
      <3>4. browser' \in Browsers /\ browser'.length = NoLength /\ browser'.status = resp.status
        <4>1. resp.status \in Nat /\ resp.server \in Seq(Octets)
          BY <1>1 DEF Responses
        <4>2. browser' = [status |-> resp.status, type |-> WML_TYPE, length |-> NoLength,
                          server |-> resp.server, body |-> <<>>, text |-> 0]
          BY <2>2, <2>4, <3>2
        <4> QED
          BY <3>3, <4>1, <4>2 DEF Browsers
      <3>5. Streaming' = FALSE /\ headersSent' = TRUE
        BY <1>1, <1>4, <2>4 DEF Responses
      <3> QED
        BY <1>2, <2>3, <2>4, <3>4, <3>5 DEF Waiting
    <2>5. CASE resp.ok /\ ~wml
      <3>1. EarlyBody(resp) = resp.body /\ EarlyLength(resp) \in Int
        BY <1>1, <2>5 DEF EarlyBody, EarlyLength, NoLength, Responses
      <3>2. b = [status |-> resp.status, type |-> resp.type, length |-> EarlyLength(resp),
                 server |-> resp.server, body |-> resp.body, text |-> 0]
        BY <2>5, <3>1
      <3>3. /\ browser' \in Browsers /\ browser'.text = 0 /\ browser'.length = EarlyLength(resp)
            /\ browser'.status = resp.status /\ browser'.body = resp.body
        BY <1>1, <2>2, <2>5, <3>1, <3>2 DEF Browsers, Responses
      <3>4. Reply.ok /\ HeadersInFirstPart => resp.body \o Drop(pdu, cut) = Reply.body
        BY <1>1, <1>2, <2>5, FirstDecoded
      <3>5. InOrder' => browser'.body = resp.body \o Rest(ends[Len(came)])'
        <4>1. SUFFICES ASSUME InOrder' PROVE browser'.body = resp.body \o Rest(ends[Len(came)])'
          OBVIOUS
        <4>2. Len(came) \in Nat
          BY <1>1, LenProperties
        <4>3. Len(came) = 1
          <5>1. \A i \in 1..Len(came) : came[i] = i
            BY <1>1, <4>1 DEF InOrder
          <5>2. Len(came) \in 1..Len(came)
            BY <1>1, <4>2
          <5> QED
            BY <1>1, <5>1, <5>2
        <4>4. Rest(ends[Len(came)])' = Rest(cut)
          BY <1>1, <1>2, <4>3 DEF Rest, cut
        <4>5. resp.body \in Seq(Octets)
          BY <1>1 DEF Responses
        <4> QED
          BY <1>1, <3>3, <4>4, <4>5, RestNone
      <3>6. Streamed'
        BY <1>1, <1>2, <2>2, <2>3, <2>5, <3>3, <3>4, <3>5 DEF Streamed
      <3> QED
        BY <1>1, <1>4, <2>5, <3>6 DEF Waiting
    <2> QED
      BY <2>1, <2>4, <2>5
  <1>6. 1 \in Range(came')
    <2>1. Len(came) \in DOMAIN came
      BY <1>1, LenProperties
    <2> QED
      BY <1>1, <2>1 DEF Range
  <1> QED
    BY <1>1, <1>3, <1>4, <1>5, <1>6, PathProceed

(* What Answer leaves the browser with. *)
LEMMA AnswerFacts ==
  ASSUME Waiting, ~Streaming, NEW type, NEW length, NEW body \in Seq(Octets), NEW text \in Nat,
         Answer(type, length, body, text)
  PROVE  /\ browser'.body = body /\ browser'.text = text
         /\ browser'.length # NoLength => browser'.length = length
         /\ Reply.ok /\ resp.status = Reply.status => browser'.status = Reply.status
  <1>1. CASE headersSent
    <2>1. browser' = [browser EXCEPT !.body = body, !.text = text]
      BY <1>1 DEF Answer
    <2>2. browser \in Browsers /\ browser.length = NoLength /\ (Reply.ok => browser.status = Reply.status)
      BY <1>1 DEF Waiting
    <2>3. /\ browser'.body = body /\ browser'.text = text /\ browser'.length = browser.length
          /\ browser'.status = browser.status
      BY <2>1, <2>2 DEF Browsers
    <2> QED
      BY <2>2, <2>3
  <1>2. CASE ~headersSent
    BY <1>2 DEF Answer
  <1> QED
    BY <1>1, <1>2

(* The complete reply was given to the browser, as it is or as a text. *)
LEMMA Answered ==
  ASSUME WspInv, PathInv, Cutting, Waiting, ~Streaming, dpc = "done", data = Complete,
         rpc' = "sent", pdu' = pdu, ends' = ends, came' = came, early' = early, headersSent' = headersSent,
         NEW type, NEW length, NEW body \in Seq(Octets), NEW text \in Nat,
         Answer(type, length, body, text), length = Len(body) + text,
         \/ body = resp.body /\ text = 0
         \/ body = <<>> /\ text = outPos' /\ mode' = "done" /\ wmlc' = resp.body
  PROVE  PathInv'
  <1>1. /\ browser'.body = body /\ browser'.text = text
        /\ browser'.length # NoLength => browser'.length = length
        /\ Reply.ok /\ resp.status = Reply.status => browser'.status = Reply.status
    BY AnswerFacts
  <1>2. Reply' = Reply /\ Cutting' /\ ~Streaming'
    BY SameReply DEF Streaming
  <1>3. Reply.ok => /\ resp.status = Reply.status /\ resp.body = Reply.body /\ Reply.status \in StatusTexts
    BY WholeFacts, ReplyFacts
  <1>4. EarlyIsFaithful'
    <2>1. SUFFICES ASSUME Reply.ok
                   PROVE  /\ browser'.status = Reply.status /\ browser'.status \in StatusTexts
                          /\ \/ browser'.body = Reply.body /\ browser'.text = 0
                             \/ /\ browser'.body = <<>> /\ browser'.text = outPos'
                                /\ mode' = "done" /\ wmlc' = Reply.body
      BY <1>2 DEF EarlyIsFaithful
    <2> QED
      BY <1>1, <1>3, <2>1
  <1>5. PromisedLength'
    BY <1>1, <1>2 DEF PromisedLength
  <1> QED
    BY <1>2, <1>4, <1>5 DEF PathInv, EarlyAnswer

LEMMA PathWhole ==
  ASSUME WspInv, PathInv, WholeDecoded
  PROVE  PathInv'
  <1>1. /\ rpc = "whole" /\ dpc = "done" /\ data = Complete /\ Cutting /\ Waiting /\ ~Streaming /\ mode = "idle"
        /\ pdu' = pdu /\ ends' = ends /\ came' = came /\ early' = early /\ headersSent' = headersSent
        /\ dpc' = dpc /\ data' = data /\ resp' = resp
        /\ headersSent \in BOOLEAN /\ resp.body \in Seq(Octets)
    BY DEF WholeDecoded, PathInv, wspVars, WspInv, Responses
  <1>2. Complete' = Complete /\ Reply' = Reply /\ Cutting' /\ ~Streaming'
    BY <1>1, SameReply DEF Streaming
  <1>3. CASE resp.ok /\ (headersSent \/ IsWMLCType(resp.type)) /\ resp.body # <<>>
    <2>1. rpc' = "text" /\ browser' = browser /\ wmlc' = resp.body
      BY <1>3 DEF WholeDecoded, StartDecompile
    <2>2. Waiting'
      BY <1>1, <1>2, <2>1 DEF Waiting
    <2> QED
      BY <1>1, <1>2, <2>1, <2>2 DEF PathInv
  <1>4. CASE resp.ok /\ ~((headersSent \/ IsWMLCType(resp.type)) /\ resp.body # <<>>)
    <2>1. rpc' = "sent" /\ Answer(resp.type, Len(resp.body), resp.body, 0)
      BY <1>4 DEF WholeDecoded
    <2>2. Len(resp.body) = Len(resp.body) + 0
      BY <1>1, LenProperties
    <2> QED
      BY <1>1, <2>1, <2>2, Answered
  <1>5. CASE ~resp.ok
    <2>1. rpc' = "sent" /\ browser' = IF headersSent THEN browser ELSE BadGateway
      BY <1>5 DEF WholeDecoded
    <2>2. ~Reply'.ok
      BY <1>1, <1>2, <1>5, WholeFacts
    <2>3. browser'.length = NoLength
      <3>1. BadGateway.length = NoLength
        BY DEF BadGateway, NothingSent
      <3> QED
        BY <1>1, <2>1, <3>1 DEF Waiting
    <2>4. EarlyAnswer'
      BY <2>2, <2>3 DEF EarlyAnswer, EarlyIsFaithful, PromisedLength, NoLength
    <2> QED
      BY <1>1, <1>2, <2>1, <2>4 DEF PathInv
  <1> QED
    BY <1>3, <1>4, <1>5

LEMMA PathDecompiled ==
  ASSUME WspInv, PageInv, PathInv, Decompiled
  PROVE  PathInv'
  <1>1. /\ rpc = "text" /\ dpc = "done" /\ data = Complete /\ Cutting /\ Waiting /\ wmlc = resp.body
        /\ rpc' = "sent" /\ pdu' = pdu /\ ends' = ends /\ came' = came /\ early' = early
        /\ headersSent' = headersSent /\ ~Streaming
        /\ mode' = mode /\ wmlc' = wmlc /\ outPos' = outPos
        /\ resp.body \in Seq(Octets) /\ outPos \in Nat
    BY DEF Decompiled, PathInv, wmlcVars, WspInv, Responses, PageInv, Roomy
  <1>2. CASE mode = "done" /\ Answer(WML_TYPE, outPos, <<>>, outPos)
    <2>1. outPos = Len(<<>>) + outPos /\ <<>> \in Seq(Octets)
      BY <1>1, EmptySeq
    <2> QED
      BY <1>1, <1>2, <2>1, Answered
  <1>3. CASE Answer(resp.type, Len(resp.body), resp.body, 0)
    <2>1. Len(resp.body) = Len(resp.body) + 0
      BY <1>1, LenProperties
    <2> QED
      BY <1>1, <1>3, <2>1, Answered
  <1> QED
    BY <1>2, <1>3 DEF Decompiled

----------------------------------------------------------------------------
(* The specification *)

(* The readers in their buffers, tags, and what the browser was told. *)
IInv == WspInv /\ PageInv /\ TagInv /\ PathInv

LEMMA InitIInv == Init => IInv
  <1>1. SUFFICES ASSUME Init PROVE IInv
    OBVIOUS
  <1>2. WspInv
    BY <1>1, EmptyTyped, EmptySeq DEF Init, DecodeInit, WspInv
  <1>3. Fresh /\ mode = "idle" /\ wmlc = <<>> /\ outputSize = 0
    BY <1>1 DEF Init, DecompileInit, Fresh
  <1>4. PageInv
    <2>1. <<>> \in Seq(Octets) /\ <<>> \in Seq(Names) /\ Len(<<>>) = 0
      BY EmptySeq
    <2>2. <<"literal", -1>> \in Names
      <3>1. -1 \in -1..Len(wmlc)
        BY <1>3, <2>1
      <3> QED
        BY <3>1 DEF Names
    <2>3. Roomy(outPos) /\ elem \in [name : Names, content : BOOLEAN]
      BY <1>3, <2>2 DEF Fresh, Roomy
    <2> QED
      BY <1>3, <2>1, <2>3, StackAssumption DEF PageInv, Fresh
  <1>5. TagInv
    BY <1>3, TagFresh
  <1>6. PathInv
    <2>1. Cutting
      BY <1>1, ArrivalsAssumption DEF Init, Cutting
    <2>2. PICK n \in 0..(Len(ends) - 1) : came \in [1..n -> 1..Len(ends)]
      BY <1>1 DEF Init
    <2>3. Len(ends) \in Nat /\ n \in Nat /\ n < Len(ends)
      BY <2>1, EndFacts
    <2>4. came \in Seq(1..Len(ends)) /\ Len(came) = n
      <3>1. came \in Seq(1..Len(ends))
        BY <2>2, <2>3, SeqDef
      <3>2. DOMAIN came = 1..Len(came) /\ Len(came) \in Nat
        BY <3>1, LenProperties
      <3>3. DOMAIN came = 1..n
        BY <2>2, SMTT(40)
      <3>4. 1..Len(came) = 1..n
        BY <3>2, <3>3
      <3>5. ~(Len(came) < n)
        <4>1. SUFFICES ASSUME Len(came) < n PROVE FALSE
          OBVIOUS
        <4>2. n \in 1..n /\ n \notin 1..Len(came)
          BY <2>3, <3>2, <4>1
        <4> QED
          BY <3>4, <4>2
      <3>6. ~(n < Len(came))
        <4>1. SUFFICES ASSUME n < Len(came) PROVE FALSE
          OBVIOUS
        <4>2. Len(came) \in 1..Len(came) /\ Len(came) \notin 1..n
          BY <2>3, <3>2, <4>1
        <4> QED
          BY <3>4, <4>2
      <3>7. \A l \in Nat : ~(l < n) /\ ~(n < l) => l = n
        BY <2>3, SMTT(40)
      <3>8. Len(came) = n
        BY <3>2, <3>5, <3>6, <3>7
      <3> QED
        BY <3>1, <3>8
    <2>5. rpc = "parts" /\ headersSent = FALSE /\ browser = NothingSent
      BY <1>1 DEF Init
    <2>6. Waiting /\ Len(came) < Len(ends) /\ Len(came) <= Len(ends)
      BY <2>3, <2>4, <2>5 DEF Waiting
    <2> QED
      BY <1>3, <2>1, <2>4, <2>5, <2>6 DEF PathInv
  <1> QED
    BY <1>2, <1>4, <1>5, <1>6 DEF IInv

LEMMA NextIInv == IInv /\ [Next]_vars => IInv'
  <1>1. SUFFICES ASSUME IInv, [Next]_vars PROVE IInv'
    OBVIOUS
  <1>2. WspInv /\ PageInv /\ TagInv /\ PathInv
    BY <1>1 DEF IInv
  <1>3. Cutting /\ pdu \in Seq(Octets)
    BY <1>2, EndFacts DEF PathInv
  <1>4. ASSUME NEW k \in 1..Len(ends), Receive(k) PROVE IInv'
    <2>1. StartDecode(Part(1)) \/ StartDecode(pdu) \/ UNCHANGED wspVars
      BY <1>4 DEF Receive, Proceed
    <2>2. Part(1) \in Seq(Octets)
      <3>1. 1 \in 1..Len(ends)
        BY <1>3, EndFacts
      <3> QED
        BY <1>3, <3>1, PartTyped
    <2>3. WspInv'
      BY <1>2, <1>3, <2>1, <2>2, StartDecodeTyped, StutterDecode
    <2> QED
      BY <1>2, <1>4, <2>3, PathReceive, PageStutter, TagStutter DEF Receive, IInv
  <1>5. CASE TrySendEarlyHeaders
    <2>1. WspInv'
      BY <1>2, <1>3, <1>5, StartDecodeTyped, StutterDecode DEF TrySendEarlyHeaders, Proceed
    <2> QED
      BY <1>2, <1>5, <2>1, PathEarly, PageStutter, TagStutter DEF TrySendEarlyHeaders, IInv
  <1>6. CASE WholeDecoded
    <2>1. WspInv'
      BY <1>2, <1>6, StutterDecode DEF WholeDecoded
    <2>2. PageInv' /\ TagInv'
      <3>1. CASE UNCHANGED wmlcVars
        BY <1>2, <3>1, PageStutter, TagStutter
      <3>2. CASE \E size \in OutputSizes : StartDecompile(resp.body, size)
        <4>1. PICK size \in OutputSizes : StartDecompile(resp.body, size)
          BY <3>2
        <4>2. size \in Nat /\ resp.body \in Seq(Octets) /\ mode = "idle"
          BY <1>2, <1>6, ArrivalsAssumption DEF WspInv, Responses, PathInv, WholeDecoded
        <4>3. PageInv'
          BY <1>2, <4>1, <4>2, PageStart
        <4>4. (Fresh /\ mode # "done")'
          BY <4>1, <4>3 DEF StartDecompile, PageInv
        <4>5. TagInv'
          BY <4>4, TagFresh, PTL
        <4> QED
          BY <4>3, <4>5
      <3> QED
        BY <1>6, <3>1, <3>2 DEF WholeDecoded
    <2> QED
      BY <1>2, <1>6, <2>1, <2>2, PathWhole DEF IInv
  <1>7. CASE Decompiled
    <2>1. WspInv'
      BY <1>2, <1>7, StutterDecode DEF Decompiled
    <2> QED
      BY <1>2, <1>7, <2>1, PathDecompiled, PageStutter, TagStutter DEF Decompiled, IInv
  <1>8. CASE DecodeStep
    <2>1. WspInv'
      BY <1>2, <1>8, StepDecode DEF DecodeStep
    <2> QED
      BY <1>2, <1>8, <2>1, PathDecode, PageStutter, TagStutter DEF DecodeStep, IInv
  <1>9. CASE DecompileStep
    <2>1. WspInv'
      BY <1>2, <1>9, StutterDecode DEF DecompileStep
    <2> QED
      BY <1>2, <1>9, <2>1, PathDecompile, PageDecompile, TagDecompile DEF DecompileStep, IInv
  <1>10. CASE UNCHANGED vars
    <2>1. UNCHANGED wspVars /\ UNCHANGED wmlcVars
      BY <1>10 DEF vars
    <2> QED
      BY <1>2, <1>10, <2>1, StutterDecode, PageStutter, TagStutter, PathStutter DEF IInv
  <1> QED
    BY <1>1, <1>4, <1>5, <1>6, <1>7, <1>8, <1>9, <1>10 DEF Next, HandleReply

(* Whatever a reply holds, decode and parseReplyPDU read the same status   *)
(* and body from it, or decode used no header.                             *)
THEOREM TwoReadersAgree == Spec => []ReadersAgree
  <1>1. IInv => ReadersAgree
    BY DecodedAgrees DEF IInv
  <1> QED
    BY InitIInv, NextIInv, <1>1, PTL DEF Spec

(* The decoder's fields, the stack of elements and the text of the page    *)
(* stay within their arrays, for any octets and any size of the output.    *)
THEOREM StaysWithinArrays == Spec => []WithinArrays
  <1>1. ASSUME IInv PROVE WithinArrays
    <2>1. FieldsFit(resp) /\ Len(elementStack) <= StackMax /\ Roomy(outPos)
      BY <1>1 DEF IInv, WspInv, PageInv
    <2> QED
      BY <2>1 DEF WithinArrays, FieldsFit, Roomy, OutputBounded
  <1> QED
    BY InitIInv, NextIInv, <1>1, PTL DEF Spec

(* End tags have start tags and come in turn, and only elements that the   *)
(* stack had no room for stay open.                                        *)
THEOREM TagsAlwaysMatch == Spec => []TagsMatch
  <1>1. IInv => TagsMatch
    BY TagsFollow DEF IInv
  <1> QED
    BY InitIInv, NextIInv, <1>1, PTL DEF Spec

(* What handleHTTPRequest answers after headers sent early is what it      *)
(* would have answered to the complete reply, and where the parts were     *)
(* streamed in order, the headers in the first, so is the body.            *)
THEOREM EarlyAnswerFaithful == Spec => []EarlyAnswer
  <1>1. ASSUME IInv PROVE EarlyAnswer
    <2>1. rpc = "sent" => EarlyAnswer
      BY <1>1 DEF IInv, PathInv
    <2>2. rpc # "sent" => EarlyAnswer
      BY DEF EarlyAnswer, EarlyIsFaithful, PromisedLength
    <2> QED
      BY <2>1, <2>2
  <1> QED
    BY InitIInv, NextIInv, <1>1, PTL DEF Spec

(* Positions, texts and names have their types. *)
THEOREM TypeCorrect == Spec => []TypeOK
  <1>1. ASSUME IInv PROVE TypeOK
    <2>1. /\ dpc \in {"idle", "pdu", "type", "fields", "done"} /\ data \in Seq(Octets) /\ hpos \in Nat
          /\ resp \in Responses
      BY <1>1 DEF IInv, WspInv
    <2>2. resp.ok \in BOOLEAN /\ resp.length \in Nat /\ \A field \in DOMAIN FieldSize : resp[field] \in Seq(Octets)
      BY <2>1 DEF Responses, FieldSize
    <2>3. /\ mode \in {"idle", "prologue", "body", "attrs", "value", "done", "failed"}
          /\ wmlc \in Seq(Octets) /\ pos \in Nat /\ elementStack \in Seq(Names) /\ outPos \in Nat
      BY <1>1 DEF IInv, PageInv, Roomy
    <2>4. rpc \in {"parts", "first", "whole", "text", "sent"} /\ headersSent \in BOOLEAN /\ came \in Seq(1..Len(ends))
      BY <1>1 DEF IInv, PathInv
    <2> QED
      BY <2>1, <2>2, <2>3, <2>4 DEF TypeOK
  <1> QED
    BY InitIInv, NextIInv, <1>1, PTL DEF Spec

============================================================================
