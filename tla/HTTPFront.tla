----------------------------- MODULE HTTPFront ------------------------------
(***************************************************************************)
(* From a browser's connection to the WSP request that is sent: the first  *)
(* half of ap_loop, parseHTTPRequest, buildURL and handleHTTPRequest up to *)
(* sendWAPRequestViaMesh (mode_ap.h), and WAPRequest::createGetRequest     *)
(* (wap_request.cpp).  APMode takes it from there, or from the refusal.    *)
(*                                                                         *)
(* All of this runs inside one call of ap_loop: no mesh message is handled *)
(* meanwhile.  The browser sends a line at a time, or half a line, at its  *)
(* own pace, or goes away.  Strings are their lengths; a host also says    *)
(* where in it the name of a connectivity check ends.                      *)
(***************************************************************************)
EXTENDS Uintvar

CONSTANTS
  Requests,      \* what browsers send
  DataTimeout,   \* ticks in the 3 s until the first octet
  ReadTimeout,   \* ticks in the 5 s of each part of the request
  Wrap,          \* values of millis()
  TidRange       \* values of transactionCounter

(* A host, a content length or one that is not looked at; in the list of   *)
(* them the empty line that ends it is left out.  The first `check' octets *)
(* of a host contain the name of a connectivity check; 0 if none is in it. *)
HeaderLines ==
  [name : {"host"}, len : Nat, check : Nat]
    \cup [name : {"content-length"}, len : Nat]
    \cup [name : {"other"}]

ASSUME HTTPFrontAssumption ==
  /\ \A r \in Requests :
       /\ r.valid \in BOOLEAN /\ r.get \in BOOLEAN
       /\ r.path \in Nat /\ (r.absHost = -1 \/ r.absHost \in 0..(r.path - 7))
       /\ r.headers \in Seq(HeaderLines)
  /\ {DataTimeout, ReadTimeout, TidRange} \subseteq Nat \ {0}
  /\ Wrap \in Nat /\ DataTimeout < Wrap /\ ReadTimeout < Wrap

VARIABLES
  pc,                  \* "idle", "wait", "line", "headers", "body", "dispatch"
  millis,
  startTime,           \* of the current part; while waiting, its `timeout'
  client,              \* "connected" or "gone"
  asked,               \* what the browser is sending
  sent,                \* half lines it has sent
  line,                \* lines that were read
  rest,                \* what is unread of a request line that was cut off
  req,                 \* http_req
  transactionCounter,
  outcome,             \* of the latest request
  busy,                \* history: ticks since it was accepted
  cut                  \* history: the headers ended otherwise than with their empty line

vars == <<pc, millis, startTime, client, asked, sent, line, rest, req, transactionCounter,
          outcome, busy, cut>>
reading == <<client, asked, sent, transactionCounter, busy, millis>>

(* Sizes of HTTPRequest's arrays without their terminators, and of the     *)
(* buffers of handleHTTPRequest and createGetRequest.                      *)
PathMax == 255
HostMax == 127
BodySize == 512
UrlMax == 511
WapRequestSize == 512
HostHeaderMax == 63

Min2(a, b) == IF a < b THEN a ELSE b

NoHost == [name |-> "host", len |-> 0, check |-> 0]

EmptyRequest == [get |-> FALSE, path |-> 0, absHost |-> -1, host |-> NoHost, contentLength |-> 0]

Outcome(kind) == [kind |-> kind, uri |-> EmptyRequest, len |-> 0]

Init ==
  /\ pc = "idle"
  /\ millis = 0
  /\ startTime = 0
  /\ client = "gone"
  /\ asked \in Requests
  /\ sent = 0
  /\ line = 0
  /\ rest = "none"
  /\ req = EmptyRequest
  /\ transactionCounter = 0
  /\ outcome = Outcome("none")
  /\ busy = 0
  /\ cut = FALSE

----------------------------------------------------------------------------
(* The browser *)

(* The request line, the headers and the empty line. *)
Lines == Len(asked.headers) + 2

Connect(r) ==
  /\ pc = "idle"
  /\ pc' = "wait"
  /\ client' = "connected"
  /\ asked' = r
  /\ sent' = 0
  /\ line' = 0
  /\ rest' = "none"
  /\ req' = EmptyRequest
  /\ startTime' = (millis + DataTimeout) % Wrap
  /\ outcome' = Outcome("none")
  /\ busy' = 0
  /\ cut' = FALSE
  /\ UNCHANGED <<millis, transactionCounter>>

(* The rest of a line, half a line, or, after all lines, the body. *)
SendSome ==
  /\ client = "connected" /\ pc # "idle"
  /\ sent <= 2 * Lines
  /\ \E n \in 1..2 : sent' = Min2(sent + n, 2 * Lines + 1)
  /\ UNCHANGED <<pc, millis, startTime, client, asked, line, rest, req, transactionCounter,
                 outcome, busy, cut>>

Leave ==
  /\ client = "connected" /\ pc # "idle"
  /\ client' = "gone"
  /\ UNCHANGED <<pc, millis, startTime, asked, sent, line, rest, req, transactionCounter,
                 outcome, busy, cut>>

----------------------------------------------------------------------------
(* parseHTTPRequest *)

LineReady == sent >= 2 * (line + 1)
HalfLine == sent = 2 * line + 1

InTime == (millis - startTime) % Wrap < ReadTimeout

(* Time is up, or the browser left and all it had sent was read. *)
GaveUp == ~InTime \/ (client = "gone" /\ ~LineReady)

Finish(result) ==
  /\ pc' = "idle"
  /\ outcome' = result

(* "Wait for client to send data": an absolute deadline. *)
FirstData ==
  /\ pc = "wait"
  /\ sent > 0
  /\ pc' = "line"
  /\ startTime' = millis
  /\ UNCHANGED <<line, rest, req, outcome, cut, reading>>

DeadlinePassed == millis >= startTime

NoData ==
  /\ pc = "wait"
  /\ sent = 0
  /\ client = "gone" \/ DeadlinePassed
  /\ Finish(Outcome("closed"))
  /\ UNCHANGED <<startTime, line, rest, req, cut, reading>>

StoredPath(n) == Min2(n, PathMax)

(* The request line; a piece of one is taken for the whole when the time   *)
(* is up, and parses if both spaces are in it.  The rest of the line, some *)
(* text or only its end, is still to come and stays in the stream.         *)
ReadRequestLine ==
  /\ pc = "line" /\ asked.valid
  /\ \/ InTime /\ LineReady /\ line' = 1 /\ rest' = "none"
     \/ GaveUp /\ HalfLine /\ line' = 0 /\ rest' \in {"text", "end"}
  /\ pc' = "headers"
  /\ startTime' = millis
  /\ req' = [req EXCEPT !.get = asked.get, !.path = StoredPath(asked.path),
                        !.absHost = asked.absHost]
  /\ UNCHANGED <<outcome, cut, reading>>

BadRequestLine ==
  /\ pc = "line"
  /\ \/ InTime /\ LineReady /\ ~asked.valid
     \/ GaveUp
  /\ Finish(Outcome("400"))
  /\ UNCHANGED <<startTime, line, rest, req, cut, reading>>

(* A host, or as much of it as there was in a line that was cut off. *)
Stored(h, half) == [h EXCEPT !.len = Min2(IF half THEN @ \div 2 ELSE @, HostMax)]

WithHeader(h, half) ==
  CASE h.name = "host" -> [req EXCEPT !.host = Stored(h, half)]
    [] h.name = "content-length" -> [req EXCEPT !.contentLength = h.len]
    [] OTHER -> req

(* startTime is set once, before the loop over the lines. *)
TimeOfHeaders == startTime

ReadHeader ==
  /\ pc = "headers"
  /\ InTime /\ LineReady /\ line > 0 /\ line + 1 < Lines
  /\ req' = WithHeader(asked.headers[line], FALSE)
  /\ line' = line + 1
  /\ startTime' = TimeOfHeaders
  /\ UNCHANGED <<pc, rest, outcome, cut, reading>>

(* The rest of a request line that was cut off is read as a header line    *)
(* without a colon.                                                        *)
ReadRest ==
  /\ pc = "headers"
  /\ InTime /\ LineReady /\ line = 0 /\ rest = "text"
  /\ line' = 1
  /\ rest' = "none"
  /\ UNCHANGED <<pc, startTime, req, outcome, cut, reading>>

(* Faulty variant: no octet at hand is taken for an empty line. *)
NothingAvailable == GaveUp \/ sent = 2 * line

NoMoreHeaders == GaveUp

(* The empty line; or what is read as one, the bare end of a request line  *)
(* that was cut off; or what the time limit makes one: a piece of a header *)
(* is still parsed, then the loop ends.                                    *)
EndHeaders ==
  /\ pc = "headers"
  /\ \/ /\ InTime /\ LineReady /\ line + 1 = Lines
        /\ UNCHANGED <<req, cut>>
     \/ /\ InTime /\ LineReady /\ line = 0 /\ rest = "end"
        /\ cut' = TRUE
        /\ UNCHANGED req
     \/ /\ NoMoreHeaders
        /\ req' = IF HalfLine /\ line > 0 /\ line + 1 < Lines
                  THEN WithHeader(asked.headers[line], TRUE)
                  ELSE req
        /\ cut' = GaveUp
  /\ pc' = "body"
  /\ startTime' = millis
  /\ UNCHANGED <<line, rest, outcome, reading>>

(* Faulty variant: no time limit, only the number of octets. *)
AllBody == sent > 2 * Lines

(* A body is read if there is room for it; a browser that went away is     *)
(* waited for as well.                                                     *)
BodyDone == sent > 2 * Lines \/ ~InTime

ReadBody ==
  /\ pc = "body"
  /\ req.contentLength \in 1..(BodySize - 1) => BodyDone
  /\ pc' = "dispatch"
  /\ UNCHANGED <<startTime, line, rest, req, outcome, cut, reading>>

----------------------------------------------------------------------------
(* buildURL and createGetRequest, as lengths *)

UriLen(r) ==
  IF r.absHost >= 0 THEN r.path
  ELSE Min2(UrlMax, 7 + (IF r.host.len > 0 THEN r.host.len ELSE 17) + r.path)

(* The host between "http://" and the path. *)
UriHost(r) ==
  IF r.absHost >= 0 THEN r.absHost ELSE IF r.host.len > 0 THEN r.host.len ELSE 17

(* Faulty variant: a host is copied whatever its length. *)
AnyHostHeader(n) == n + 2

(* extractHostFromUrl refuses a host that does not fit in host[64]. *)
HostHeaderLen(n) == IF n \in 1..HostHeaderMax THEN n + 2 ELSE 0

(* "MAP/1.0", four Accept and two Accept-Charset headers. *)
HeadersLen(r) == HostHeaderLen(UriHost(r)) + 9 + 4 * 2 + 2 * 2

MaxNeeded(r) == 1 + 1 + 5 + UriLen(r) + HeadersLen(r)

PduLen(r) == 2 + Len(encodeUintvar(UriLen(r))) + UriLen(r) + HeadersLen(r)

(* strstr(http_req.host, "connectivitycheck..."), in what is left of the   *)
(* host.                                                                   *)
IsCheck(h) == h.check \in 1..h.len

(* A transaction number is used up by 501 and 500 as well. *)
Dispatch ==
  /\ pc = "dispatch"
  /\ \/ /\ IsCheck(req.host)
        /\ Finish(Outcome("closed"))
        /\ UNCHANGED transactionCounter
     \/ /\ ~IsCheck(req.host)
        /\ transactionCounter' = (transactionCounter + 1) % TidRange
        /\ Finish(IF ~req.get THEN Outcome("501")
                  ELSE IF MaxNeeded(req) > WapRequestSize THEN Outcome("500")
                  ELSE [kind |-> "sent", uri |-> req, len |-> PduLen(req)])
  /\ UNCHANGED <<millis, startTime, client, asked, sent, line, rest, req, busy, cut>>

(* Waiting takes time; the program looks at the clock at every tick.       *)
Waiting ==
  \/ pc = "wait" /\ sent = 0 /\ client = "connected" /\ ~DeadlinePassed
  \/ pc \in {"line", "headers"} /\ InTime /\ client = "connected" /\ ~LineReady
  \/ pc = "body" /\ req.contentLength \in 1..(BodySize - 1) /\ ~BodyDone

(* As long as the program can be busy; busy is counted one tick further. *)
BusyMax == DataTimeout + 3 * ReadTimeout

Tick ==
  /\ pc = "idle" \/ Waiting
  /\ millis' = (millis + 1) % Wrap
  /\ busy' = IF pc = "idle" THEN busy ELSE Min2(busy + 1, BusyMax + 1)
  /\ UNCHANGED <<pc, startTime, client, asked, sent, line, rest, req, transactionCounter,
                 outcome, cut>>

Handle ==
  \/ FirstData \/ NoData \/ ReadRequestLine \/ BadRequestLine
  \/ ReadHeader \/ ReadRest \/ EndHeaders \/ ReadBody \/ Dispatch

Next ==
  \/ \E r \in Requests : Connect(r)
  \/ SendSome \/ Leave
  \/ Handle
  \/ Tick

Spec == Init /\ [][Next]_vars

----------------------------------------------------------------------------
(* Correctness *)

(* The variables have the types of their declarations. *)
TypeOK ==
  /\ pc \in {"idle", "wait", "line", "headers", "body", "dispatch"}
  /\ millis \in 0..(Wrap - 1) /\ startTime \in 0..(Wrap - 1)
  /\ client \in {"connected", "gone"}
  /\ asked \in Requests
  /\ sent \in 0..(2 * Lines + 1)
  /\ line \in 0..Lines /\ rest \in {"none", "text", "end"}
  /\ req.path \in 0..PathMax /\ req.host.len \in 0..HostMax
  /\ transactionCounter \in 0..(TidRange - 1)
  /\ outcome.kind \in {"none", "closed", "400", "501", "500", "sent"}
  /\ busy \in 0..(BusyMax + 1) /\ cut \in BOOLEAN

(* Whatever the lengths of host and path, the request that is built fits:  *)
(* the three limits (127 and 255 octets of the request, 63 of a Host       *)
(* header) leave room in http_wapRequest[512], nothing is written past     *)
(* headers[128], and "Failed to create WAP request" is never sent.         *)
RequestFits ==
  /\ outcome.kind # "500"
  /\ outcome.kind = "sent" =>
       /\ HeadersLen(outcome.uri) <= 128
       /\ outcome.len <= MaxNeeded(outcome.uri)
       /\ decodeUintvar(encodeUintvar(UriLen(outcome.uri))).value = UriLen(outcome.uri)

AskedHosts == {n \in DOMAIN asked.headers : asked.headers[n].name = "host"}

(* The last one counts. *)
AskedHost ==
  IF AskedHosts = {} THEN NoHost
  ELSE asked.headers[CHOOSE n \in AskedHosts : \A k \in AskedHosts : k <= n]

TooLong ==
  asked.path > PathMax \/ \E n \in AskedHosts : asked.headers[n].len > HostMax

(* The page that is asked for is the page that is fetched, although a      *)
(* time limit in the middle of a line makes a request of what is there.    *)
(* It is another one only if the headers ended otherwise than with their   *)
(* empty line (they did not come in time, the browser left, or the late    *)
(* end of a request line that was cut off was read as their end), or if a  *)
(* path or a host exceeds its array.  "Block connectivity check requests - *)
(* don't forward to mesh": besides a request whose headers ended like      *)
(* that, only one whose name lies past the octets of the host that are     *)
(* kept gets through.                                                      *)
AskedURL ==
  outcome.kind = "sent" /\ ~cut =>
    /\ AskedHost.check \notin 1..Min2(AskedHost.len, HostMax)
    /\ ~TooLong =>
         /\ outcome.uri.path = asked.path
         /\ outcome.uri.absHost = asked.absHost
         /\ outcome.uri.host = AskedHost

(* The mesh is not served while a browser is read.  A browser that says    *)
(* nothing, or stops in the middle with its connection open, holds the     *)
(* node for four limits at most, however many lines there are and however  *)
(* slowly they come.                                                       *)
BlockedAtMost == busy <= BusyMax

============================================================================
