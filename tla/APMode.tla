------------------------------- MODULE APMode -------------------------------
(***************************************************************************)
(* The access point node: mode_ap.h.  A browser's HTTP request is sent     *)
(* over the mesh as one WDP message from a random port, and the node waits *)
(* for the answer in sendWAPRequestViaMesh.  The wait is a nested loop: it *)
(* calls the whole mesh loop, ap_loop included, from inside ap_loop.       *)
(* Answers of the proxy are reassembled as they arrive; the first part     *)
(* already sends HTTP headers to the waiting browser, and later parts of   *)
(* an answer that is not WMLC are streamed to it.                          *)
(*                                                                         *)
(* Messages, Port, Ref... of WDPConcat are here the proxy's answers; Port  *)
(* is their destination port, which names the request.  The mesh may lose, *)
(* repeat, delay and reorder their parts.                                  *)
(***************************************************************************)
EXTENDS WDPConcat, Sequences

CONSTANTS
  Clients,       \* HTTP connections of browsers, one request each
  RequestPorts,  \* the range of ap_generateSourcePort
  Kind,          \* [Messages -> Kinds], what WAPResponse::decode makes of them
  ReplyTimeout,  \* ticks in the 15 s without a part that end the wait
  MaxEvents      \* bound: events written to one browser

(* wmlc: WMLC, the headers fit in the first part; wmlcLong: WMLC whose     *)
(* headers do not, so the first part alone decodes without a content type; *)
(* plain: any other reply; bad: not a WSP reply.                           *)
Kinds == {"wmlc", "wmlcLong", "plain", "bad"}

ASSUME APAssumption ==
  /\ RequestPorts \subseteq Nat \ {0}
  /\ Kind \in [Messages -> Kinds]
  /\ ReplyTimeout \in Nat \ {0}
  /\ MaxEvents \in Nat
  /\ None \notin Clients

VARIABLES
  stack,          \* frames of sendWAPRequestViaMesh, innermost last
  listening,      \* httpServer is begun
  conn,           \* state of each HTTP connection
  out,            \* what was written to each browser
  reqPort,        \* history: the port each request was sent from, 0 before
  currentRequestPort,
  responseReady,
  responseBuffer,
  waitingClient,
  headersSent,
  isWMLC,
  concatMessages,
  quiet,          \* ticks since ap_lastPartReceivedTime
  wdpSessionActive,
  ended           \* history: whose request ended last, None before any did

request == <<currentRequestPort, responseReady, responseBuffer>>
early == <<waitingClient, headersSent, isWMLC>>
browser == <<listening, conn, reqPort>>
vars == <<stack, browser, out, request, early, concatMessages, quiet, wdpSessionActive, ended>>

Init ==
  /\ stack = <<>>
  /\ listening = TRUE
  /\ conn = [c \in Clients |-> "new"]
  /\ out = [c \in Clients |-> <<>>]
  /\ reqPort = [c \in Clients |-> 0]
  /\ currentRequestPort = 0
  /\ responseReady = FALSE
  /\ responseBuffer = <<>>
  /\ waitingClient = None
  /\ headersSent = FALSE
  /\ isWMLC = FALSE
  /\ concatMessages = [s \in ConcatSlots |-> ClearedMessage]
  /\ quiet = 0
  /\ wdpSessionActive = FALSE
  /\ ended = None

Top == stack[Len(stack)]

(* The program is inside a call of the mesh loop: of the main loop, or of  *)
(* the innermost wait, whose time is not up.                               *)
InMeshLoop == stack # <<>> => Top.pc = "mesh" /\ quiet < ReplyTimeout

(* That call returns to whoever made it. *)
MeshLoopReturns ==
  stack' = IF stack = <<>> THEN stack ELSE [stack EXCEPT ![Len(stack)] = [@ EXCEPT !.pc = "check"]]

----------------------------------------------------------------------------
(* What a browser receives.  Writing to a closed connection has no effect. *)

Event(kind, body) == [kind |-> kind, body |-> body]

Written(c, events) == IF conn[c] = "open" THEN [out EXCEPT ![c] = @ \o events] ELSE out

(* A status line of the node's own, with the few lines that follow it.     *)
Status(line) == <<Event(line, <<>>)>>

Bytes(m, k) == [j \in {k} |-> Frag(m, k)]

(* ap_trySendEarlyHeaders on the first packet of m. *)
EarlyEvents(m) ==
  IF Kind[m] = "wmlc"
  THEN <<Event("head", Bytes(m, 1))>>
  ELSE <<Event("head", Bytes(m, 1)), Event("part", Bytes(m, 1))>>

(* WAPResponse::decode on a reassembled answer; data with a hole at the    *)
(* start is zero octets there, which is no reply PDU.                      *)
Decodes(data) == data[1] # None /\ Kind[data[1].msg] # "bad"

----------------------------------------------------------------------------
(* ap_loop and handleHTTPRequest up to the wait *)

(* No data from the browser, a connectivity check, or one of the answers   *)
(* 400, 501, 500: closed without touching the mesh.                        *)
RefuseRequest(c) ==
  /\ InMeshLoop /\ listening /\ conn[c] = "new"
  /\ conn' = [conn EXCEPT ![c] = "closed"]
  /\ \E events \in {<<>>, Status("refused")} : out' = [out EXCEPT ![c] = events]
  /\ UNCHANGED <<stack, listening, reqPort, request, early, concatMessages, quiet, wdpSessionActive, ended>>

(* Faulty variant: the server keeps accepting. *)
ServerLeftOn == UNCHANGED listening

(* httpServer.end() *)
StopServer == listening' = FALSE

(* A request is sent from port p and the wait begins. *)
StartRequest(c, p) ==
  /\ InMeshLoop /\ listening /\ conn[c] = "new"
  /\ conn' = [conn EXCEPT ![c] = "open"]
  /\ reqPort' = [reqPort EXCEPT ![c] = p]
  /\ StopServer
  /\ responseReady' = FALSE
  /\ responseBuffer' = <<>>
  /\ waitingClient' = c
  /\ headersSent' = FALSE
  /\ isWMLC' = FALSE
  /\ currentRequestPort' = p
  /\ wdpSessionActive' = TRUE
  /\ quiet' = 0
  /\ stack' = Append(stack, [client |-> c, pc |-> "mesh"])
  /\ UNCHANGED <<out, concatMessages, ended>>

----------------------------------------------------------------------------
(* The rest of one mesh loop: cleanup of the table, then at most one       *)
(* message of the inbox, given to ap_handleIncomingMesh.                   *)

LoopIdle ==
  /\ InMeshLoop
  /\ MeshLoopReturns
  /\ concatMessages' = CleanedTable(concatMessages)
  /\ UNCHANGED <<browser, out, request, early, quiet, wdpSessionActive, ended>>

(* The proxy answers only requests it was sent. *)
Answerable(m) == \E c \in Clients : reqPort[c] = Port[m]

(* Faulty variant: the port is not compared. *)
AnyPort(p) == TRUE

PortMatches(p) == currentRequestPort = 0 \/ p = currentRequestPort

(* "On first part, try to decode and send headers early". *)
TriesHeaders(k) == k = 1 /\ ~headersSent /\ waitingClient # None

SendsHeaders(m, k, p) == TriesHeaders(k) /\ PortMatches(p) /\ Kind[m] # "bad"

(* Faulty variant: WMLC is streamed as well. *)
StreamsAnyPart(k) ==
  /\ ~TriesHeaders(k)
  /\ headersSent
  /\ waitingClient # None /\ conn[waitingClient] = "open"
  /\ k > 1

(* "For non-WMLC responses, stream body data as it arrives". *)
StreamsPart(k) ==
  /\ ~TriesHeaders(k)
  /\ ~isWMLC /\ headersSent
  /\ waitingClient # None /\ conn[waitingClient] = "open"
  /\ k > 1

(* The state change of ap_trySendEarlyHeaders and of streaming. *)
ToBrowser(m, k, p, stored) ==
  \/ /\ stored /\ SendsHeaders(m, k, p)
     /\ out' = Written(waitingClient, EarlyEvents(m))
     /\ headersSent' = TRUE
     /\ isWMLC' = (Kind[m] = "wmlc")
     /\ UNCHANGED waitingClient
  \/ /\ stored /\ StreamsPart(k)
     /\ Len(out[waitingClient]) < MaxEvents
     /\ out' = Written(waitingClient, <<Event("part", Bytes(m, k))>>)
     /\ UNCHANGED early
  \/ /\ ~(stored /\ (SendsHeaders(m, k, p) \/ StreamsPart(k)))
     /\ UNCHANGED <<out, early>>

(* A whole answer sent to port p. *)
AcceptResponse(p, data) ==
  IF PortMatches(p)
  THEN /\ responseBuffer' = data
       /\ responseReady' = TRUE
       /\ currentRequestPort' = 0
  ELSE UNCHANGED request

ReceivePart(m, k) ==
  /\ InMeshLoop /\ m \in Concatenated /\ Answerable(m)
  /\ LET table == CleanedTable(concatMessages) IN
     \E s \in ConcatSlots :
       LET found  == FoundSlot(table, s, m, 0)
           stored == CanStore(found, k)
           slot   == FilledSlot(found, m, k)
       IN
       /\ Chosen(table, m, s)
       /\ ToBrowser(m, k, slot.port, stored)
       /\ quiet' = IF stored THEN 0 ELSE quiet
       /\ IF IsComplete(slot)
          THEN /\ AcceptResponse(slot.port, Reassembled(slot))
               /\ concatMessages' = [table EXCEPT ![s] = ClearedMessage]
          ELSE /\ concatMessages' = [table EXCEPT ![s] = slot]
               /\ UNCHANGED request
  /\ MeshLoopReturns
  /\ UNCHANGED <<browser, wdpSessionActive, ended>>

(* "No free concat message slots". *)
DropPart(m) ==
  /\ InMeshLoop /\ m \in Concatenated /\ Answerable(m)
  /\ NoSlot(CleanedTable(concatMessages), m)
  /\ concatMessages' = CleanedTable(concatMessages)
  /\ MeshLoopReturns
  /\ UNCHANGED <<browser, out, request, early, quiet, wdpSessionActive, ended>>

(* A simple answer; one for another port is ignored. *)
ReceiveSimple(m) ==
  /\ InMeshLoop /\ m \in Messages \ Concatenated /\ Answerable(m)
  /\ ToBrowser(m, 1, Port[m], TRUE)
  /\ AcceptResponse(Port[m], Payload(m))
  /\ concatMessages' = CleanedTable(concatMessages)
  /\ MeshLoopReturns
  /\ UNCHANGED <<browser, quiet, wdpSessionActive, ended>>

----------------------------------------------------------------------------
(* The checks of the wait, and the rest of handleHTTPRequest and ap_loop   *)

Closed(c) == [conn EXCEPT ![c] = IF @ = "open" THEN "closed" ELSE @]

(* Faulty variants: the client pointer survives, the server stays down. *)
EndWaitKeepsClient(c) ==
  /\ stack' = SubSeq(stack, 1, Len(stack) - 1)
  /\ headersSent' = FALSE
  /\ listening' = TRUE
  /\ conn' = Closed(c)
  /\ ended' = c
  /\ UNCHANGED <<waitingClient, reqPort, responseBuffer, isWMLC, concatMessages, quiet>>

EndWaitServerDown(c) ==
  /\ stack' = SubSeq(stack, 1, Len(stack) - 1)
  /\ waitingClient' = None
  /\ headersSent' = FALSE
  /\ conn' = Closed(c)
  /\ ended' = c
  /\ UNCHANGED <<listening, reqPort, responseBuffer, isWMLC, concatMessages, quiet>>

(* What every way out of the wait does, then client.stop() in ap_loop. *)
EndWait(c) ==
  /\ stack' = SubSeq(stack, 1, Len(stack) - 1)
  /\ waitingClient' = None
  /\ headersSent' = FALSE
  /\ listening' = TRUE
  /\ conn' = Closed(c)
  /\ ended' = c
  /\ UNCHANGED <<reqPort, responseBuffer, isWMLC, concatMessages, quiet>>

(* The browser went away; the 504 that handleHTTPRequest then prints has   *)
(* nobody to reach.                                                        *)
ClientGone(c) ==
  /\ stack # <<>> /\ Top = [client |-> c, pc |-> "check"]
  /\ conn[c] = "gone"
  /\ responseReady' = FALSE
  /\ currentRequestPort' = 0
  /\ wdpSessionActive' = FALSE
  /\ EndWait(c)
  /\ UNCHANGED out

(* An answer is there.  With headers already sent, a WMLC body is          *)
(* decompiled and written, or written raw when the decompiler makes        *)
(* nothing of it, or there is no body; nothing is written for another      *)
(* type.  Without them the whole page is written under its own type, or    *)
(* 502 when it cannot be decoded, which returns before                     *)
(* ap_restoreNormalDisplay.                                                *)
Deliver(c) ==
  /\ stack # <<>> /\ Top = [client |-> c, pc |-> "check"]
  /\ conn[c] = "open" /\ responseReady
  /\ responseReady' = FALSE
  /\ LET page == <<Event("page", responseBuffer)>> IN
     \/ /\ headersSent
        /\ \E events \in IF isWMLC /\ Decodes(responseBuffer)
                          THEN {<<>>, page, <<Event("raw", responseBuffer)>>} ELSE {<<>>} :
             out' = Written(c, events)
        /\ wdpSessionActive' = FALSE
     \/ /\ ~headersSent /\ Decodes(responseBuffer)
        /\ out' = Written(c, <<Event("head", Bytes(responseBuffer[1].msg, 1))>> \o page)
        /\ wdpSessionActive' = FALSE
     \/ /\ ~headersSent /\ ~Decodes(responseBuffer)
        /\ out' = Written(c, Status("502"))
        /\ UNCHANGED wdpSessionActive
  /\ EndWait(c)
  /\ UNCHANGED currentRequestPort

(* Nothing yet: delay(10) and once more around. *)
KeepWaiting(c) ==
  /\ stack # <<>> /\ Top = [client |-> c, pc |-> "check"]
  /\ conn[c] = "open" /\ ~responseReady
  /\ stack' = [stack EXCEPT ![Len(stack)] = [@ EXCEPT !.pc = "mesh"]]
  /\ UNCHANGED <<browser, out, request, early, concatMessages, quiet, wdpSessionActive, ended>>

(* Faulty variant: the display is not restored after the time-out. *)
GiveUpShown(c) ==
  /\ stack # <<>> /\ Top = [client |-> c, pc |-> "mesh"]
  /\ quiet >= ReplyTimeout
  /\ out' = Written(c, Status("504"))
  /\ EndWait(c)
  /\ UNCHANGED <<currentRequestPort, responseReady, wdpSessionActive>>

(* 504: no part came for ReplyTimeout.  It is printed even when headers    *)
(* were sent early.  ap_currentRequestPort keeps its value, and so does    *)
(* ap_meshResponseReady.                                                   *)
GiveUp(c) ==
  /\ stack # <<>> /\ Top = [client |-> c, pc |-> "mesh"]
  /\ quiet >= ReplyTimeout
  /\ out' = Written(c, Status("504"))
  /\ wdpSessionActive' = FALSE
  /\ EndWait(c)
  /\ UNCHANGED <<currentRequestPort, responseReady>>

----------------------------------------------------------------------------
(* The environment *)

Disconnect(c) ==
  /\ conn[c] = "open"
  /\ conn' = [conn EXCEPT ![c] = "gone"]
  /\ UNCHANGED <<stack, listening, reqPort, out, request, early, concatMessages, quiet, wdpSessionActive, ended>>

(* millis() advances. *)
Tick ==
  /\ concatMessages' = AgedTable(concatMessages)
  /\ quiet' = IF stack # <<>> /\ quiet < ReplyTimeout THEN quiet + 1 ELSE quiet
  /\ UNCHANGED <<stack, browser, out, request, early, wdpSessionActive, ended>>

Wait(c) == ClientGone(c) \/ Deliver(c) \/ KeepWaiting(c) \/ GiveUp(c)

Next ==
  \/ \E c \in Clients : RefuseRequest(c) \/ Wait(c) \/ Disconnect(c)
  \/ \E c \in Clients, p \in RequestPorts : StartRequest(c, p)
  \/ \E m \in Messages : \E k \in Numbers(m) : ReceivePart(m, k)
  \/ \E m \in Messages : DropPart(m) \/ ReceiveSimple(m)
  \/ LoopIdle
  \/ Tick

Spec == Init /\ [][Next]_vars

(* The node's own task keeps running, and time passes. *)
FairSpec ==
  /\ Spec
  /\ WF_vars(LoopIdle)
  /\ WF_vars(Tick)
  /\ \A c \in Clients : WF_vars(Wait(c))

----------------------------------------------------------------------------
(* Correctness *)

(* The variables have the types of the declarations in mode_ap.h. *)
TypeOK ==
  /\ stack \in Seq([client : Clients, pc : {"mesh", "check"}])
  /\ listening \in BOOLEAN
  /\ conn \in [Clients -> {"new", "open", "gone", "closed"}]
  /\ reqPort \in [Clients -> RequestPorts \cup {0}]
  /\ currentRequestPort \in RequestPorts \cup {0}
  /\ responseReady \in BOOLEAN
  /\ waitingClient \in Clients \cup {None}
  /\ headersSent \in BOOLEAN
  /\ isWMLC \in BOOLEAN
  /\ concatMessages \in [ConcatSlots -> SlotType]
  /\ quiet \in 0..ReplyTimeout
  /\ wdpSessionActive \in BOOLEAN
  /\ ended \in Clients \cup {None}

(* The wait calls ap_loop from inside ap_loop, yet a second request is     *)
(* never served inside the first: the static buffers have one user.        *)
(* mode_ap.h:777: "server is stopped during mesh requests, so no new       *)
(* clients while busy".                                                    *)
NoReentry == Len(stack) <= 1 /\ (listening <=> stack = <<>>)

(* ap_waitingClient points to a local variable of ap_loop.  It is set      *)
(* exactly while that frame is alive, so no packet handled later writes    *)
(* through a dangling pointer; and while the wait looks for packets the    *)
(* port of its own request is the one that is matched.                     *)
WaitingClientAlive ==
  /\ (waitingClient # None) <=> (stack # <<>>)
  /\ stack # <<>> => waitingClient = Top.client
  /\ stack # <<>> /\ Top.pc = "mesh" => currentRequestPort = reqPort[waitingClient]
  /\ headersSent => stack # <<>>

RefCollision == \E m \in Messages : RefReused(Sender[m])

EventsOf(c) == {out[c][n] : n \in DOMAIN out[c]}

(* The headers and the complete body a browser is given belong to an       *)
(* answer to the port of its own request, and the body is that one whole   *)
(* answer, whatever late, repeated or interleaved parts of other answers   *)
(* arrive and whichever earlier requests timed out with their port still   *)
(* in ap_currentRequestPort.                                               *)
AnswerOfOwnRequest ==
  \/ RefCollision
  \/ \A c \in Clients : \A e \in EventsOf(c) :
       /\ e.kind = "head" =>
            \E m \in Messages : Port[m] = reqPort[c] /\ e.body = Bytes(m, 1)
       /\ e.kind \in {"page", "raw"} =>
            \E m \in Messages : Port[m] = reqPort[c] /\ e.body = Payload(m)

(* What a browser receives reads as one response, however early headers,   *)
(* late parts, timeouts and the end of the wait interleave: one head that  *)
(* comes first, under it either the streamed parts of a body that is not   *)
(* WMLC or one whole body and nothing more; or one status line of the      *)
(* node's own, alone.  Two things of the code fall outside and are named   *)
(* here: the 504 of a wait that times out after early headers is a second  *)
(* status line, the last thing written (mode_ap.h:624); and a WMLC body    *)
(* that the decompiler refuses goes raw under the WML type that the early  *)
(* headers announced (mode_ap.h:649-651), whole and never in parts.        *)
WellFormedStream ==
  \A c \in Clients : \A n \in DOMAIN out[c] :
    LET kind == out[c][n].kind
        last == n = Len(out[c])
        announced == Kind[out[c][1].body[1].msg]
    IN
    /\ kind = "head" => n = 1
    /\ kind \in {"refused", "502"} => n = 1 /\ last
    /\ kind = "504" => last
    /\ kind \in {"part", "page", "raw"} => out[c][1].kind = "head"
    /\ kind = "part" => announced # "wmlc"
    /\ kind \in {"page", "raw"} => n = 2 /\ last
    /\ kind = "raw" => announced = "wmlc"

(* A wait ends unless parts keep being stored: whatever arrives, either    *)
(* the node listens again or ap_lastPartReceivedTime was just renewed.     *)
WaitEnds == []<>(listening \/ quiet = 0)

(* Between requests no WDP session is shown, by whichever way the last one *)
(* ended, except that an answer that could not be decoded leaves it on:    *)
(* the browser whose request ended last was then told 502 and nothing      *)
(* else.  A 504, a browser that is gone and every delivery clear it.       *)
DisplayRestored ==
  stack = <<>> /\ wdpSessionActive => ended # None /\ out[ended] = Status("502")

============================================================================
