---------------------------- MODULE WSPResponse -----------------------------
(***************************************************************************)
(* WAPResponse::decode of wap_response.cpp, one header per step, and       *)
(* parseReplyPDU of wap_request.cpp, which reads the same PDU.  A PDU is a *)
(* sequence of octets: transaction number, type, status, length of the     *)
(* headers, headers, body.  That length is taken to fit its 32 bits.       *)
(***************************************************************************)
EXTENDS Uintvar

VARIABLES
  dpc,    \* "idle", "pdu", "type", "fields", "done"
  data,   \* the PDU without its transaction number
  hpos,   \* position in the headers
  resp    \* HTTPResponse

wspVars == <<dpc, data, hpos, resp>>

Drop(s, n) == SubSeq(s, n + 1, Len(s))

REPLY_PDU_TYPE == 4
WSP_HEADER_CONTENT_LENGTH == 13
WSP_HEADER_LOCATION == 28
WSP_HEADER_SERVER == 38

(* sizeof(contentType), sizeof(server), sizeof(location) *)
FieldSize == [type |-> 64, server |-> 64, location |-> 256]

(* Class in the high half of the octet, and 416, 417 after 415. *)
wspStatusToHttp(w) ==
  CASE w \in 16..17               -> 100 + w - 16
    [] w \in 32..38               -> 200 + w - 32
    [] w \in (48..53) \cup {55}   -> 300 + w - 48
    [] w \in 64..81               -> 400 + w - 64
    [] w \in 96..101              -> 500 + w - 96
    [] OTHER                      -> 500

(* The codes for which httpStatusToText has a text. *)
StatusTexts ==
  (100..101) \cup (200..206) \cup (300..305) \cup {307} \cup (400..417) \cup (500..505)

(* A well-known type is kept as its code, any other as its text. *)
contentTypeToString(code) == IF code < 64 THEN <<128 + code>> ELSE <<255>>

WMLC_TEXT == <<119, 109, 108, 99>>

(* strstr(contentType, "wmlc") *)
IsWMLCType(type) ==
  \/ type = <<128 + 20>>
  \/ \E n \in 0..(Len(type) - 4) : SubSeq(type, n + 1, n + 4) = WMLC_TEXT

EmptyResponse ==
  [ok |-> FALSE, status |-> 0, type |-> <<>>, length |-> 0, server |-> <<>>,
   location |-> <<>>, body |-> <<>>]

----------------------------------------------------------------------------
HeadersLength(d) == decodeUintvar(Drop(d, 2))

HeadersStart(d) == 2 + HeadersLength(d).used

(* Faulty variant: headers that end with the PDU are left out. *)
HeadersInside(d) == HeadersStart(d) + HeadersLength(d).value < Len(d)

HeadersFit(d) == HeadersStart(d) + HeadersLength(d).value <= Len(d)

IsReply(d) == Len(d) >= 3 /\ d[1] = REPLY_PDU_TYPE /\ HeadersLength(d).used > 0

(* parseReplyPDU refuses headers that do not fit. *)
parseReplyPDU(d) ==
  IF IsReply(d) /\ ~(HeadersStart(d) + HeadersLength(d).value > Len(d))
  THEN [ok |-> TRUE, status |-> wspStatusToHttp(d[2]),
        body |-> Drop(d, HeadersStart(d) + HeadersLength(d).value)]
  ELSE [ok |-> FALSE, status |-> 0, body |-> <<>>]

----------------------------------------------------------------------------
H == SubSeq(data, HeadersStart(data) + 1, HeadersStart(data) + HeadersLength(data).value)

(* The end of the string at p; it may be the end of the headers. *)
Nul(p) ==
  LET nuls == {n \in p..Len(H) : H[n] = 0} IN
  IF nuls = {} THEN Len(H) + 1 ELSE CHOOSE n \in nuls : \A k \in nuls : n <= k

(* A text that does not fit its field is left out. *)
WithText(r, field, p) ==
  IF Nul(p) - p < FieldSize[field] THEN [r EXCEPT ![field] = SubSeq(H, p, Nul(p) - 1)] ELSE r

(* Content-Length, unless a header gave one other than 0, is what follows. *)
WithBody(r, from) ==
  LET body == Drop(data, from) IN
  [r EXCEPT !.ok = TRUE, !.body = body, !.length = IF @ = 0 THEN Len(body) ELSE @]

DecodeInit == dpc = "idle" /\ data = <<>> /\ hpos = 0 /\ resp = EmptyResponse

StartDecode(pdu) ==
  /\ dpc' = "pdu"
  /\ data' = Drop(pdu, 1)
  /\ hpos' = 1
  /\ resp' = EmptyResponse

(* Headers that reach beyond the PDU are not parsed, and not skipped. *)
DecodePDU ==
  /\ dpc = "pdu"
  /\ \/ /\ ~IsReply(data)
        /\ dpc' = "done"
        /\ UNCHANGED resp
     \/ /\ IsReply(data)
        /\ LET r == [resp EXCEPT !.status = wspStatusToHttp(data[2])] IN
           IF HeadersLength(data).value > 0 /\ HeadersFit(data)
           THEN dpc' = "type" /\ resp' = r
           ELSE dpc' = "done" /\ resp' = WithBody(r, HeadersStart(data))
  /\ UNCHANGED <<data, hpos>>

(* A code, a length with a code after it, or a text. *)
ParseContentType ==
  /\ dpc = "type"
  /\ dpc' = "fields"
  /\ \/ /\ H[1] >= 128
        /\ resp' = [resp EXCEPT !.type = contentTypeToString(H[1] - 128)]
        /\ hpos' = 2
     \/ /\ H[1] < 32
        /\ resp' = IF Len(H) > 1 /\ H[2] >= 128
                   THEN [resp EXCEPT !.type = contentTypeToString(H[2] - 128)]
                   ELSE resp
        /\ hpos' = 2 + H[1]
     \/ /\ H[1] \in 32..127
        /\ resp' = WithText(resp, "type", 1)
        /\ hpos' = Nul(1) + 1
  /\ UNCHANGED data

(* Server or Location. *)
ParseText(field) ==
  IF H[hpos + 1] < 128
  THEN resp' = WithText(resp, field, hpos + 1) /\ hpos' = Nul(hpos + 1) + 1
  ELSE hpos' = hpos + 2 /\ UNCHANGED resp

(* The number in octets from..to: an unsigned long keeps the last four. *)
OctetsValue(from, to) ==
  LET Byte(k) == IF to - k >= from THEN H[to - k] * 256^k ELSE 0 IN
  Byte(0) + Byte(1) + Byte(2) + Byte(3)

(* An octet, or a number of octets and a number. *)
ParseContentLength ==
  LET v == H[hpos + 1] IN
  \/ /\ v >= 128
     /\ resp' = [resp EXCEPT !.length = v - 128]
     /\ hpos' = hpos + 2
  \/ /\ v < 31
     /\ hpos' = IF hpos + 2 + v <= Len(H) THEN hpos + 2 + v ELSE Len(H) + 1
     /\ resp' = [resp EXCEPT !.length = OctetsValue(hpos + 2, hpos' - 1)]
  \/ /\ v \in 31..127
     /\ hpos' = hpos + 2
     /\ UNCHANGED resp

SkipValue(p) == IF H[p] >= 128 THEN p + 1 ELSE IF H[p] < 31 THEN p + 1 + H[p] ELSE Nul(p) + 1

(* A header with a code, an octet below 32, or a header with a name. *)
ParseField ==
  /\ dpc = "fields"
  /\ hpos <= Len(H)
  /\ \/ /\ H[hpos] >= 128 /\ hpos = Len(H)
        /\ hpos' = hpos + 1
        /\ UNCHANGED resp
     \/ /\ H[hpos] >= 128 /\ hpos < Len(H)
        /\ LET code == H[hpos] - 128 IN
           \/ code = WSP_HEADER_SERVER /\ ParseText("server")
           \/ code = WSP_HEADER_LOCATION /\ ParseText("location")
           \/ code = WSP_HEADER_CONTENT_LENGTH /\ ParseContentLength
           \/ /\ code \notin {WSP_HEADER_SERVER, WSP_HEADER_LOCATION, WSP_HEADER_CONTENT_LENGTH}
              /\ hpos' = SkipValue(hpos + 1)
              /\ UNCHANGED resp
     \/ /\ H[hpos] < 32
        /\ hpos' = hpos + 1
        /\ UNCHANGED resp
     \/ /\ H[hpos] \in 32..127
        /\ LET value == Nul(hpos) + 1 IN
           hpos' = IF value > Len(H) THEN value
                   ELSE IF H[value] >= 128 THEN value + 1 ELSE Nul(value) + 1
        /\ UNCHANGED resp
  /\ UNCHANGED <<dpc, data>>

EndFields ==
  /\ dpc = "fields"
  /\ hpos > Len(H)
  /\ dpc' = "done"
  /\ resp' = WithBody(resp, HeadersStart(data) + Len(H))
  /\ UNCHANGED <<data, hpos>>

Decode == DecodePDU \/ ParseContentType \/ ParseField \/ EndFields

----------------------------------------------------------------------------
(* Correctness *)

(* The two readers of a reply agree: what parseReplyPDU accepts decode     *)
(* reads as the same status and body, whatever the headers hold; what only *)
(* decode accepts has headers longer than the PDU, and then no header was  *)
(* used.                                                                   *)
ReadersAgree ==
  dpc = "done" =>
    LET r == parseReplyPDU(data) IN
    /\ r.ok => resp.ok /\ resp.status = r.status /\ resp.body = r.body
    /\ resp.ok /\ ~r.ok => ~HeadersFit(data) /\ resp.type = <<>> /\ resp.server = <<>>

============================================================================
