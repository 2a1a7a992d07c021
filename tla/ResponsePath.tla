---------------------------- MODULE ResponsePath ----------------------------
(***************************************************************************)
(* What the browser gets for one reply: ap_trySendEarlyHeaders on a simple *)
(* message or on part 1 of a reply in parts, the streaming of the parts    *)
(* that come after it, each as it comes and in whatever order, and the     *)
(* rest of handleHTTPRequest once the reply is complete.                   *)
(***************************************************************************)
EXTENDS WSPResponse, WMLCDecompiler

CONSTANTS
  Arrivals,      \* replies as the gateway sends them: [pdu, ends]
  OutputSizes    \* sizes of http_decompiled

Octets == 0..255

(* The parts end at increasing positions, the last with the reply. *)
InParts(reply, at) ==
  /\ reply \in Seq(Octets)
  /\ at \in Seq(1..Len(reply)) /\ at # <<>> /\ at[Len(at)] = Len(reply)
  /\ \A i, j \in 1..Len(at) : i < j => at[i] < at[j]

ASSUME ArrivalsAssumption ==
  /\ \A a \in Arrivals : InParts(a.pdu, a.ends)
  /\ OutputSizes \subseteq Nat

VARIABLES
  rpc,        \* "parts", "first", "whole", "text", "sent"
  pdu,        \* the complete reply
  ends,       \* where its parts end; one part: a simple message
  came,       \* the parts stored, in the order they came
  early,      \* ap_earlyResponse, once ap_headersSent
  headersSent,
  browser     \* what was written to the client

respVars == <<rpc, pdu, ends, came, early, headersSent, browser>>
vars == <<respVars, wspVars, wmlcVars>>

(* "text/vnd.wap.wml; charset=utf-8", as a type. *)
WML_TYPE == <<0>>

NoLength == -1

(* Nothing sent: a text of 0 characters stands for no text. *)
NothingSent ==
  [status |-> 0, type |-> <<>>, length |-> NoLength, server |-> <<>>, body |-> <<>>, text |-> 0]

(* Parts may have been stored before the browser waits, for an earlier     *)
(* request from the same port.                                             *)
Init ==
  /\ DecodeInit /\ DecompileInit
  /\ rpc = "parts"
  /\ \E a \in Arrivals : pdu = a.pdu /\ ends = a.ends
  /\ \E n \in 0..(Len(ends) - 1) : came \in [1..n -> 1..Len(ends)]
  /\ IsInjective(came)
  /\ early = EmptyResponse /\ headersSent = FALSE
  /\ browser = NothingSent

(* Length of the first part. *)
cut == ends[1]

Part(k) == SubSeq(pdu, (IF k = 1 THEN 0 ELSE ends[k - 1]) + 1, ends[k])

(* Parts are written to the browser as they come. *)
Streaming == headersSent /\ ~IsWMLCType(early.type)

(* After n parts: the reply is complete with the last of them, and then    *)
(* there is nothing more to send if its parts were streamed.               *)
Proceed(n, streamed) ==
  /\ rpc' = IF n < Len(ends) THEN "parts" ELSE IF streamed THEN "sent" ELSE "whole"
  /\ IF rpc' = "whole" THEN StartDecode(pdu) ELSE UNCHANGED wspVars

(* Part 1 is tried for early headers; another part is streamed if they     *)
(* were sent, and only stored if they were not.                            *)
Receive(k) ==
  /\ rpc = "parts" /\ k \notin Range(came)
  /\ came' = Append(came, k)
  /\ \/ /\ k = 1
        /\ rpc' = "first" /\ StartDecode(Part(1))
        /\ UNCHANGED browser
     \/ /\ k # 1
        /\ browser' = IF Streaming THEN [browser EXCEPT !.body = @ \o Part(k)] ELSE browser
        /\ Proceed(Len(came'), Streaming)
  /\ UNCHANGED <<pdu, ends, early, headersSent, wmlcVars>>

(* No Content-Length for WMLC, whose final size is not known. *)
EarlyLength(r) == IF ~IsWMLCType(r.type) /\ r.length > 0 THEN r.length ELSE NoLength

(* Faulty variant: the body is left to the end of the reply. *)
BodyLater(r) == <<>>

(* The octets of the body in the first part. *)
EarlyBody(r) == IF IsWMLCType(r.type) THEN <<>> ELSE r.body

(* The first part is decoded, and its headers and the octets it has of the *)
(* body are sent.                                                          *)
TrySendEarlyHeaders ==
  /\ rpc = "first" /\ dpc = "done"
  /\ headersSent' = resp.ok
  /\ IF resp.ok
     THEN /\ early' = resp
          /\ browser' = [status |-> resp.status,
                         type   |-> IF IsWMLCType(resp.type) THEN WML_TYPE ELSE resp.type,
                         length |-> EarlyLength(resp),
                         server |-> resp.server,
                         body   |-> EarlyBody(resp),
                         text   |-> 0]
     ELSE UNCHANGED <<early, browser>>
  /\ Proceed(Len(came), resp.ok /\ ~IsWMLCType(resp.type))
  /\ UNCHANGED <<pdu, ends, came, wmlcVars>>

(* Headers with a body, or a body after early headers. *)
Answer(type, length, body, text) ==
  browser' = IF headersSent THEN [browser EXCEPT !.body = body, !.text = text]
             ELSE [status |-> resp.status, type |-> type, length |-> length,
                   server |-> resp.server, body |-> body, text |-> text]

BadGateway == [NothingSent EXCEPT !.status = 502]

WholeDecoded ==
  /\ rpc = "whole" /\ dpc = "done"
  /\ IF resp.ok /\ (headersSent \/ IsWMLCType(resp.type)) /\ resp.body # <<>>
     THEN /\ \E size \in OutputSizes : StartDecompile(resp.body, size)
          /\ rpc' = "text"
          /\ UNCHANGED browser
     ELSE /\ rpc' = "sent"
          /\ IF resp.ok THEN Answer(resp.type, Len(resp.body), resp.body, 0)
             ELSE browser' = IF headersSent THEN browser ELSE BadGateway
          /\ UNCHANGED wmlcVars
  /\ UNCHANGED <<pdu, ends, came, early, headersSent, wspVars>>

(* The text, or the WMLC as it is if there is none. *)
Decompiled ==
  /\ rpc = "text"
  /\ rpc' = "sent"
  /\ \/ mode = "done" /\ Answer(WML_TYPE, outPos, <<>>, outPos)
     \/ mode = "failed" /\ Answer(resp.type, Len(resp.body), resp.body, 0)
  /\ UNCHANGED <<pdu, ends, came, early, headersSent, wspVars, wmlcVars>>

DecodeStep == rpc \in {"first", "whole"} /\ Decode /\ UNCHANGED <<respVars, wmlcVars>>
DecompileStep == rpc = "text" /\ Decompile /\ UNCHANGED <<respVars, wspVars>>

HandleReply ==
  TrySendEarlyHeaders \/ WholeDecoded \/ Decompiled \/ DecodeStep \/ DecompileStep

Next == (\E k \in 1..Len(ends) : Receive(k)) \/ HandleReply

(* A part that came is handled, and once a reply is there                  *)
(* handleHTTPRequest runs to its end: only the next part is waited for.    *)
Spec == Init /\ [][Next]_vars /\ WF_vars(HandleReply)

----------------------------------------------------------------------------
(* Correctness *)

Names == ({"element"} \X (0..63)) \cup ({"literal"} \X (-1..Len(wmlc)))

(* Positions are numbers and names are of the tables or of the input. *)
TypeOK ==
  /\ dpc \in {"idle", "pdu", "type", "fields", "done"}
  /\ mode \in {"idle", "prologue", "body", "attrs", "value", "done", "failed"}
  /\ rpc \in {"parts", "first", "whole", "text", "sent"}
  /\ data \in Seq(Octets) /\ wmlc \in Seq(Octets)
  /\ resp.ok \in BOOLEAN /\ resp.length \in Nat
  /\ \A field \in DOMAIN FieldSize : resp[field] \in Seq(Octets)
  /\ hpos \in Nat /\ pos \in Nat
  /\ elementStack \in Seq(Names)
  /\ outPos \in Nat
  /\ headersSent \in BOOLEAN
  /\ came \in Seq(1..Len(ends))

(* Whatever a reply holds, each of its readers stays in its buffer: the    *)
(* header fields with their terminating zeros, the stack of element names  *)
(* and the text of the page.                                               *)
WithinArrays ==
  /\ \A field \in DOMAIN FieldSize : Len(resp[field]) < FieldSize[field]
  /\ Len(elementStack) <= StackMax
  /\ OutputBounded

(* The reply as its second reader sees it. *)
Reply == parseReplyPDU(Drop(pdu, 1))

HeadersInFirstPart == HeadersFit(Drop(SubSeq(pdu, 1, cut), 1))

InOrder == \A i \in 1..Len(came) : came[i] = i

(* Sending headers early changes nothing the browser can tell: the status  *)
(* is that of the complete reply and has a text, and the body it gets is   *)
(* the whole body, from nowhere else and nothing twice, or the text of the *)
(* whole page.  Parts that were streamed make the body only if they came   *)
(* in order and the headers lie in the first: a part that comes before the *)
(* first is not sent at all, and the others go out in the order they come. *)
EarlyIsFaithful ==
  rpc = "sent" /\ Reply.ok =>
    /\ browser.status = Reply.status /\ browser.status \in StatusTexts
    /\ (Streaming => InOrder /\ HeadersInFirstPart) =>
         \/ browser.body = Reply.body /\ browser.text = 0
         \/ browser.body = <<>> /\ browser.text = outPos /\ mode = "done" /\ wmlc = Reply.body

(* A length the browser is promised is the length it gets, if the body is  *)
(* sent with the complete reply.  Where the parts are streamed it is what  *)
(* the reply's own header says, or, without one, what the first part has   *)
(* of the body, while parts in order bring the rest of the body too.       *)
PromisedLength ==
  rpc = "sent" /\ browser.length # NoLength =>
    LET sent == Len(browser.body) + browser.text IN
    IF Streaming
    THEN /\ browser.text = 0 /\ browser.length = early.length
         /\ InOrder => sent = Len(early.body) + Len(pdu) - cut
    ELSE browser.length = sent

(* What the browser is told early and what it is given agree. *)
EarlyAnswer == EarlyIsFaithful /\ PromisedLength

(* Any reply, well formed or not, is answered, and its first part does not *)
(* keep the others waiting: the readers end.                               *)
ReplyEnds ==
  (rpc \in {"first", "whole", "text"}) ~> (rpc = "sent" \/ (rpc = "parts" /\ Len(came) < Len(ends)))

============================================================================
