---------------------------- MODULE APModeProofs ----------------------------
(* Why APMode is correct for any number of browsers, ports, answers, table *)
(* slots and ticks.  The inductive invariant has five parts, each with its *)
(* own step lemma: the control state of the nested wait, the reassembly    *)
(* table, the buffered answer, what each browser was sent, the display.    *)
EXTENDS APMode, WDPConcatProofs, SequenceTheorems

(* The wait is one frame deep, the waiting client is that frame's, and     *)
(* until an answer is accepted the port that is matched is the client's.   *)
Idle ==
  /\ stack = <<>>
  /\ listening
  /\ waitingClient = None
  /\ ~headersSent

Waiting(pc) ==
  /\ stack = <<[client |-> waitingClient, pc |-> pc]>>
  /\ ~listening
  /\ waitingClient \in Clients
  /\ conn[waitingClient] \in {"open", "gone"}
  /\ \/ ~responseReady /\ currentRequestPort = reqPort[waitingClient]
     \/ responseReady /\ currentRequestPort = 0 /\ pc = "check"

(* Only the waiting client's connection is open; one that was never served *)
(* has no request and ended none, and one with a request has a port.       *)
ConnOK(c) ==
  /\ conn[c] = "open" => c = waitingClient
  /\ conn[c] = "new" => reqPort[c] = 0 /\ c # ended
  /\ conn[c] \in {"open", "gone"} => reqPort[c] \in RequestPorts

Control ==
  /\ TypeOK
  /\ Idle \/ Waiting("mesh") \/ Waiting("check")
  /\ \A c \in Clients : ConnOK(c)

Table == \A s \in ConcatSlots : SlotOK(concatMessages[s])

(* A whole answer to a request from port p. *)
IsAnswer(p, data) == \E m \in Messages : Port[m] = p /\ data = Payload(m)

(* What may be in the buffer, with holes where parts of answers that share *)
(* a refNum were mixed up, and what may be written to a browser.           *)
Answers == UNION {[1..n -> Fragments \cup {None}] : n \in Nat \ {0}}

Bodies == {<<>>} \cup UNION {[K -> Fragments \cup {None}] : K \in SUBSET Nat}

(* What waits to be delivered is an answer to the waiting client. *)
Buffer ==
  /\ responseReady => responseBuffer \in Answers
  /\ \/ RefCollision
     \/ stack # <<>> /\ responseReady => IsAnswer(reqPort[waitingClient], responseBuffer)

Statuses == {"refused", "502", "504"}

Events == [kind : {"head", "part", "page", "raw"} \cup Statuses, body : Bodies]

(* The properties of the events of one browser, of one sequence here. *)
HeadKind(events) == Kind[events[1].body[1].msg]

Headed(events) ==
  /\ events # <<>>
  /\ events[1].kind = "head"
  /\ \A n \in DOMAIN events : events[n].kind \in {"head", "part"}

WellFormed(events) ==
  \A n \in DOMAIN events :
    /\ events[n].kind = "head" => n = 1
    /\ events[n].kind \in {"refused", "502"} => n = 1 /\ n = Len(events)
    /\ events[n].kind = "504" => n = Len(events)
    /\ events[n].kind \in {"part", "page", "raw"} => events[1].kind = "head"
    /\ events[n].kind = "part" => HeadKind(events) # "wmlc"
    /\ events[n].kind \in {"page", "raw"} => n = 2 /\ n = Len(events)
    /\ events[n].kind = "raw" => HeadKind(events) = "wmlc"

IsHead(p, data) == \E m \in Messages : Port[m] = p /\ data = Bytes(m, 1)

OwnEvents(events, p) ==
  \A n \in DOMAIN events :
    /\ events[n].kind = "head" => IsHead(p, events[n].body)
    /\ events[n].kind \in {"page", "raw"} => IsAnswer(p, events[n].body)

(* Nothing is written before the request, nor before the early headers;    *)
(* with them sent, isWMLC records their content type.                      *)
StreamOK(c) ==
  /\ conn[c] = "new" => out[c] = <<>>
  /\ conn[c] = "open" /\ ~headersSent => out[c] = <<>>
  /\ conn[c] = "open" /\ headersSent =>
       Headed(out[c]) /\ (isWMLC <=> HeadKind(out[c]) = "wmlc")
  /\ WellFormed(out[c])

Streams ==
  /\ out \in [Clients -> Seq(Events)]
  /\ \A c \in Clients : StreamOK(c)

Own == RefCollision \/ \A c \in Clients : OwnEvents(out[c], reqPort[c])

IndInv == Control /\ Table /\ Buffer /\ Streams /\ Own /\ DisplayRestored

----------------------------------------------------------------------------
(* The stack of the wait: with one frame at most, what its operations do. *)

LEMMA WaitingFrame ==
  ASSUME NEW pc, Waiting(pc)
  PROVE  /\ stack # <<>> /\ Len(stack) = 1
         /\ Top = [client |-> waitingClient, pc |-> pc]
         /\ SubSeq(stack, 1, Len(stack) - 1) = <<>>
         /\ \A q : [stack EXCEPT ![Len(stack)] = [@ EXCEPT !.pc = q]]
                     = <<[client |-> waitingClient, pc |-> q]>>
  <1> DEFINE f == [client |-> waitingClient, pc |-> pc]
  <1>1. stack = <<f>>
    BY DEF Waiting
  <1>2. stack # <<>> /\ Len(stack) = 1 /\ stack[1] = f
    BY <1>1
  <1>3. SubSeq(stack, 1, Len(stack) - 1) = <<>>
    BY <1>1
  <1>4. ASSUME NEW q
        PROVE  [stack EXCEPT ![Len(stack)] = [@ EXCEPT !.pc = q]]
                 = <<[client |-> waitingClient, pc |-> q]>>
    <2>1. [f EXCEPT !.pc = q] = [client |-> waitingClient, pc |-> q]
      OBVIOUS
    <2> QED
      BY <1>1, <1>2, <2>1
  <1> QED
    BY <1>2, <1>3, <1>4 DEF Top

LEMMA Listening ==
  ASSUME Control, listening
  PROVE  Idle
  BY DEF Control, Waiting

LEMMA LoopReturns ==
  ASSUME Control, InMeshLoop, MeshLoopReturns
  PROVE  \/ Idle /\ stack' = <<>>
         \/ Waiting("mesh") /\ stack' = <<[client |-> waitingClient, pc |-> "check"]>>
  <1>1. CASE Idle
    BY <1>1 DEF Idle, MeshLoopReturns
  <1>2. CASE Waiting("mesh")
    BY <1>2, WaitingFrame DEF MeshLoopReturns
  <1>3. CASE Waiting("check")
    <2>1. stack # <<>> /\ Top = [client |-> waitingClient, pc |-> "check"]
      BY <1>3, WaitingFrame
    <2> QED
      BY <2>1 DEF InMeshLoop
  <1> QED
    BY <1>1, <1>2, <1>3 DEF Control

LEMMA AtFrame ==
  ASSUME Control, NEW c, NEW pc, stack # <<>>, Top = [client |-> c, pc |-> pc]
  PROVE  Waiting(pc) /\ c = waitingClient
  <1>1. ASSUME NEW q \in {"mesh", "check"}, Waiting(q)
        PROVE  q = pc /\ c = waitingClient
    <2>1. [client |-> waitingClient, pc |-> q] = [client |-> c, pc |-> pc]
      BY <1>1, WaitingFrame
    <2> QED
      BY <2>1
  <1> QED
    BY <1>1 DEF Control, Idle

LEMMA NoFrame == <<>> \in Seq([client : Clients, pc : {"mesh", "check"}])
  OBVIOUS

LEMMA FrameTyped ==
  ASSUME NEW c \in Clients, NEW pc \in {"mesh", "check"}
  PROVE  <<[client |-> c, pc |-> pc]>> \in Seq([client : Clients, pc : {"mesh", "check"}])
  OBVIOUS

(* What handing a part to the browser does to the control state. *)
LEMMA BrowserControl ==
  ASSUME NEW m, NEW k, NEW p, NEW stored, ToBrowser(m, k, p, stored),
         headersSent \in BOOLEAN, isWMLC \in BOOLEAN
  PROVE  /\ waitingClient' = waitingClient
         /\ headersSent' \in BOOLEAN /\ isWMLC' \in BOOLEAN
         /\ headersSent' => headersSent \/ waitingClient # None
  <1>1. CASE SendsHeaders(m, k, p) /\ headersSent' = TRUE /\ UNCHANGED waitingClient
             /\ isWMLC' = (Kind[m] = "wmlc")
    <2>1. isWMLC' \in BOOLEAN
      BY <1>1, Zenon
    <2> QED
      BY <1>1, <2>1 DEF SendsHeaders, TriesHeaders
  <1>2. CASE UNCHANGED early
    BY <1>2 DEF early
  <1> QED
    BY <1>1, <1>2 DEF ToBrowser, early

(* What accepting an answer does to it. *)
LEMMA AcceptControl ==
  ASSUME NEW p, NEW data, AcceptResponse(p, data)
  PROVE  \/ UNCHANGED request /\ ~PortMatches(p)
         \/ /\ responseReady' = TRUE /\ currentRequestPort' = 0 /\ responseBuffer' = data
            /\ PortMatches(p)
  BY DEF AcceptResponse

(* What the end of a wait does to it. *)
LEMMA WaitOver ==
  ASSUME Control, NEW pc, Waiting(pc), EndWait(waitingClient)
  PROVE  /\ Idle'
         /\ listening' = TRUE /\ headersSent' = FALSE
         /\ conn' = [conn EXCEPT ![waitingClient] = IF @ = "open" THEN "closed" ELSE @]
         /\ ended' = waitingClient
         /\ UNCHANGED <<reqPort, concatMessages, quiet, isWMLC, responseBuffer>>
  BY WaitingFrame DEF EndWait, Idle, Closed

(* The connections after a step that changes at most one of them. *)
LEMMA ConnStep ==
  ASSUME Control, NEW c \in Clients, NEW st \in {"open", "gone", "closed"},
         conn' = [conn EXCEPT ![c] = st]
  PROVE  /\ conn' \in [Clients -> {"new", "open", "gone", "closed"}]
         /\ conn'[c] = st
         /\ \A d \in Clients \ {c} : conn'[d] = conn[d]
  BY DEF Control, TypeOK

----------------------------------------------------------------------------
(* The table *)

LEMMA CleanedTableOK ==
  ASSUME Table
  PROVE  /\ \A s \in ConcatSlots : SlotOK(CleanedTable(concatMessages)[s])
         /\ CleanedTable(concatMessages) \in [ConcatSlots -> SlotType]
  <1>1. \A s \in ConcatSlots : SlotOK(CleanedTable(concatMessages)[s])
    BY CleanedOK DEF Table
  <1>2. CleanedTable(concatMessages)
          = [s \in ConcatSlots |-> CleanedTable(concatMessages)[s]]
    BY DEF CleanedTable
  <1> QED
    BY <1>1, <1>2 DEF SlotOK

LEMMA AgedTableOK ==
  ASSUME Table
  PROVE  /\ \A s \in ConcatSlots : SlotOK(AgedTable(concatMessages)[s])
         /\ AgedTable(concatMessages) \in [ConcatSlots -> SlotType]
  <1>1. \A s \in ConcatSlots : SlotOK(AgedTable(concatMessages)[s])
    BY AgedOK DEF Table
  <1>2. AgedTable(concatMessages)
          = [s \in ConcatSlots |-> AgedTable(concatMessages)[s]]
    BY DEF AgedTable
  <1> QED
    BY <1>1, <1>2 DEF SlotOK

(* One received part: the slot it is stored in stays good, and unless a    *)
(* refNum was reused its port is the message's.                            *)
LEMMA PartStored ==
  ASSUME Table, NEW m \in Concatenated, NEW k \in 1..Total[m], NEW s \in ConcatSlots,
         Chosen(CleanedTable(concatMessages), m, s)
  PROVE  LET slot == FilledSlot(FoundSlot(CleanedTable(concatMessages), s, m, 0), m, k)
         IN  /\ SlotOK(slot)
             /\ Collects(slot, m)
             /\ ~RefCollision => slot.port = Port[m]
  <1> DEFINE table == CleanedTable(concatMessages)
             found == FoundSlot(table, s, m, 0)
             slot == FilledSlot(found, m, k)
  <1>1. SlotOK(table[s])
    BY CleanedTableOK
  <1>2. 0 \in ConcatAges
    BY SlotsAssumption DEF ConcatAges
  <1> HIDE DEF table
  <1>3. SlotOK(found) /\ Collects(found, m)
    BY <1>1, <1>2, FoundOK DEF table
  <1> HIDE DEF found
  <1>4. SlotOK(slot) /\ Collects(slot, m)
    BY <1>3, FilledOK
  <1> HIDE DEF slot
  <1>5. ASSUME ~RefCollision
        PROVE  slot.port = Port[m]
    <2>1. PICK n \in Concatenated : OpenedBy(slot, n)
      BY <1>4 DEF SlotOK, Collects, GoodSlot
    <2>2. n = m
      BY <1>4, <1>5, <2>1, MessagesAssumption DEF Collects, OpenedBy, RefCollision, RefReused
    <2> QED
      BY <2>1, <2>2 DEF OpenedBy
  <1> QED
    BY <1>4, <1>5 DEF slot, found, table

(* The table after any step. *)
LEMMA TableStep ==
  ASSUME Table, [Next]_vars
  PROVE  Table' /\ (concatMessages' = concatMessages \/ concatMessages' \in [ConcatSlots -> SlotType])
  <1>1. CASE concatMessages' = concatMessages
    BY <1>1 DEF Table
  <1>2. CASE concatMessages' = CleanedTable(concatMessages)
    BY <1>2, CleanedTableOK DEF Table
  <1>3. CASE concatMessages' = AgedTable(concatMessages)
    BY <1>3, AgedTableOK DEF Table
  <1>4. ASSUME NEW m \in Messages, NEW k \in 1..Total[m], ReceivePart(m, k)
        PROVE  Table' /\ concatMessages' \in [ConcatSlots -> SlotType]
    <2> DEFINE table == CleanedTable(concatMessages)
    <2>1. PICK s \in ConcatSlots :
            /\ Chosen(table, m, s)
            /\ \/ concatMessages' = [table EXCEPT ![s] = ClearedMessage]
               \/ concatMessages' = [table EXCEPT ![s] = FilledSlot(FoundSlot(table, s, m, 0), m, k)]
      BY <1>4 DEF ReceivePart
    <2>2. m \in Concatenated
      BY <1>4 DEF ReceivePart
    <2>3. /\ \A t \in ConcatSlots : SlotOK(table[t])
          /\ table \in [ConcatSlots -> SlotType]
      BY CleanedTableOK
    <2>4. PICK slot : SlotOK(slot) /\ concatMessages' = [table EXCEPT ![s] = slot]
      BY <2>1, <2>2, PartStored, ClearedOK
    <2> HIDE DEF table
    <2>5. slot \in SlotType
      BY <2>4 DEF SlotOK
    <2> QED
      BY <2>3, <2>4, <2>5 DEF Table
  <1> QED
    BY <1>1, <1>2, <1>3, <1>4, NumbersInRange
    DEF Next, vars, RefuseRequest, StartRequest, LoopIdle, DropPart, ReceiveSimple, Wait,
        ClientGone, Deliver, KeepWaiting, GiveUp, EndWait, Disconnect, Tick

----------------------------------------------------------------------------
(* The control state *)

LEMMA ControlInit == Init => Control
  <1> SUFFICES ASSUME Init PROVE Control
    OBVIOUS
  <1>1. ClearedMessage \in SlotType
    BY ClearedOK DEF SlotOK
  <1>2. 0 \in 0..ReplyTimeout
    BY APAssumption
  <1>3. TypeOK
    BY <1>1, <1>2, NoFrame, Zenon DEF Init, TypeOK
  <1> QED
    BY <1>3, APAssumption DEF Init, Control, Idle, ConnOK

(* A mesh loop that returns leaves the connections alone. *)
LEMMA ControlLoop ==
  ASSUME Control, InMeshLoop, MeshLoopReturns, UNCHANGED browser,
         waitingClient' = waitingClient,
         headersSent' \in BOOLEAN, isWMLC' \in BOOLEAN,
         headersSent' => headersSent \/ waitingClient # None,
         quiet' \in 0..ReplyTimeout, UNCHANGED <<wdpSessionActive, ended>>,
         concatMessages' \in [ConcatSlots -> SlotType],
         \/ UNCHANGED request
         \/ responseReady' = TRUE /\ currentRequestPort' = 0
  PROVE  Control'
  <1>1. TypeOK /\ \A c \in Clients : ConnOK(c)
    BY DEF Control
  <1>2. CASE Idle /\ stack' = <<>>
    <2>1. Idle'
      BY <1>2 DEF Idle, browser
    <2>2. TypeOK'
      BY <1>1, <1>2, NoFrame DEF TypeOK, browser, request
    <2>3. ASSUME NEW c \in Clients PROVE ConnOK(c)'
      BY <1>1 DEF ConnOK, browser
    <2> QED
      BY <2>1, <2>2, <2>3 DEF Control
  <1>3. CASE Waiting("mesh") /\ stack' = <<[client |-> waitingClient, pc |-> "check"]>>
    <2>1. Waiting("check")'
      BY <1>3 DEF Waiting, browser, request
    <2>2. stack' \in Seq([client : Clients, pc : {"mesh", "check"}])
      BY <1>3, FrameTyped DEF Waiting
    <2>3. TypeOK'
      BY <1>1, <2>2 DEF TypeOK, browser, request
    <2>4. ASSUME NEW c \in Clients PROVE ConnOK(c)'
      BY <1>1 DEF ConnOK, browser
    <2> QED
      BY <2>1, <2>3, <2>4 DEF Control
  <1> QED
    BY <1>2, <1>3, LoopReturns

(* However the wait ends. *)
LEMMA ControlEnd ==
  ASSUME Control, NEW pc, Waiting(pc), EndWait(waitingClient),
         responseReady' \in BOOLEAN, currentRequestPort' \in {0, currentRequestPort},
         wdpSessionActive' \in BOOLEAN
  PROVE  Control'
  <1>1. TypeOK /\ \A c \in Clients : ConnOK(c)
    BY DEF Control
  <1>2. /\ Idle' /\ listening' = TRUE /\ headersSent' = FALSE /\ ended' = waitingClient
        /\ UNCHANGED <<reqPort, concatMessages, quiet, isWMLC, responseBuffer>>
    BY WaitOver
  <1>3. waitingClient \in Clients /\ conn[waitingClient] \in {"open", "gone"}
    BY DEF Waiting
  <1>4. PICK st \in {"open", "gone", "closed"} :
          st # "open" /\ conn' = [conn EXCEPT ![waitingClient] = st]
    BY <1>3, WaitOver
  <1>5. /\ conn' \in [Clients -> {"new", "open", "gone", "closed"}]
        /\ conn'[waitingClient] = st
        /\ \A d \in Clients \ {waitingClient} : conn'[d] = conn[d]
    BY <1>3, <1>4, ConnStep
  <1>6. TypeOK'
    BY <1>1, <1>2, <1>5, NoFrame DEF TypeOK, Idle
  <1>7. ASSUME NEW c \in Clients PROVE ConnOK(c)'
    <2>1. CASE c = waitingClient
      BY <1>1, <1>2, <1>3, <1>4, <1>5, <2>1 DEF ConnOK
    <2>2. CASE c # waitingClient
      BY <1>1, <1>2, <1>5, <2>2 DEF ConnOK
    <2> QED
      BY <2>1, <2>2
  <1> QED
    BY <1>2, <1>6, <1>7 DEF Control

(* One case for each action. *)
LEMMA ControlStep ==
  ASSUME Control, Table, [Next]_vars
  PROVE  Control'
  <1>0. /\ TypeOK /\ \A c \in Clients : ConnOK(c)
        /\ concatMessages' \in [ConcatSlots -> SlotType]
        /\ quiet \in 0..ReplyTimeout /\ 0 \in 0..ReplyTimeout
        /\ headersSent \in BOOLEAN /\ isWMLC \in BOOLEAN
    BY TableStep, APAssumption DEF Control, TypeOK
  <1>1. ASSUME NEW c \in Clients, RefuseRequest(c)
        PROVE  Control'
    <2>1. Idle /\ conn[c] = "new" /\ conn' = [conn EXCEPT ![c] = "closed"]
      BY <1>1, Listening DEF RefuseRequest
    <2>2. /\ conn' \in [Clients -> {"new", "open", "gone", "closed"}]
          /\ conn'[c] = "closed"
          /\ \A d \in Clients \ {c} : conn'[d] = conn[d]
      BY <2>1, ConnStep
    <2>3. Idle'
      BY <1>1, <2>1 DEF Idle, RefuseRequest, early
    <2>4. TypeOK'
      BY <1>0, <1>1, <2>2 DEF TypeOK, RefuseRequest, early, request
    <2>5. ASSUME NEW d \in Clients PROVE ConnOK(d)'
      BY <1>0, <1>1, <2>2 DEF ConnOK, RefuseRequest, early
    <2> QED
      BY <2>3, <2>4, <2>5 DEF Control
  <1>2. ASSUME NEW c \in Clients, NEW p \in RequestPorts, StartRequest(c, p)
        PROVE  Control'
    <2>1. Idle /\ conn[c] = "new" /\ conn' = [conn EXCEPT ![c] = "open"]
          /\ reqPort' = [reqPort EXCEPT ![c] = p]
      BY <1>2, Listening DEF StartRequest
    <2>2. /\ conn' \in [Clients -> {"new", "open", "gone", "closed"}]
          /\ conn'[c] = "open"
          /\ \A d \in Clients \ {c} : conn'[d] = conn[d]
      BY <2>1, ConnStep
    <2>3. /\ reqPort' \in [Clients -> RequestPorts \cup {0}]
          /\ reqPort'[c] = p
          /\ \A d \in Clients \ {c} : reqPort'[d] = reqPort[d]
      BY <1>0, <2>1 DEF TypeOK
    <2>4. stack' = <<[client |-> c, pc |-> "mesh"]>>
      BY <1>2, <2>1 DEF StartRequest, Idle
    <2>5. Waiting("mesh")'
      BY <1>2, <2>2, <2>3, <2>4 DEF Waiting, StartRequest, StopServer
    <2>6. stack' \in Seq([client : Clients, pc : {"mesh", "check"}])
      BY <2>4, FrameTyped
    <2>7. TypeOK'
      BY <1>0, <1>2, <2>2, <2>3, <2>6 DEF TypeOK, StartRequest, StopServer
    <2>8. ASSUME NEW d \in Clients PROVE ConnOK(d)'
      <3>1. CASE d = c
        BY <1>2, <2>2, <2>3, <3>1 DEF ConnOK, StartRequest
      <3>2. CASE d # c
        <4>1. d # waitingClient
          BY <2>1, APAssumption DEF Idle
        <4> QED
          BY <1>0, <1>2, <2>2, <2>3, <3>2, <4>1 DEF ConnOK, StartRequest
      <3> QED
        BY <3>1, <3>2
    <2> QED
      BY <2>5, <2>7, <2>8 DEF Control
  <1>3. CASE LoopIdle
    BY <1>0, <1>3, ControlLoop DEF LoopIdle, early, Control, Idle, Waiting
  <1>4. ASSUME NEW m \in Messages, NEW k \in 1..Total[m], ReceivePart(m, k)
        PROVE  Control'
    <2>1. PICK p, stored, data :
            /\ ToBrowser(m, k, p, stored)
            /\ quiet' = IF stored THEN 0 ELSE quiet
            /\ AcceptResponse(p, data) \/ UNCHANGED request
      BY <1>4 DEF ReceivePart
    <2>2. /\ waitingClient' = waitingClient
          /\ headersSent' \in BOOLEAN /\ isWMLC' \in BOOLEAN
          /\ headersSent' => headersSent \/ waitingClient # None
      BY <1>0, <2>1, BrowserControl
    <2>3. UNCHANGED request \/ (responseReady' = TRUE /\ currentRequestPort' = 0)
      BY <2>1, AcceptControl
    <2>4. quiet' \in 0..ReplyTimeout
      BY <1>0, <2>1
    <2> QED
      BY <1>0, <1>4, <2>2, <2>3, <2>4, ControlLoop DEF ReceivePart
  <1>5. ASSUME NEW m \in Messages, DropPart(m)
        PROVE  Control'
    BY <1>0, <1>5, ControlLoop DEF DropPart, early
  <1>6. ASSUME NEW m \in Messages, ReceiveSimple(m)
        PROVE  Control'
    <2>1. ToBrowser(m, 1, Port[m], TRUE) /\ AcceptResponse(Port[m], Payload(m))
      BY <1>6 DEF ReceiveSimple
    <2>2. /\ waitingClient' = waitingClient
          /\ headersSent' \in BOOLEAN /\ isWMLC' \in BOOLEAN
          /\ headersSent' => headersSent \/ waitingClient # None
      BY <1>0, <2>1, BrowserControl
    <2>3. UNCHANGED request \/ (responseReady' = TRUE /\ currentRequestPort' = 0)
      BY <2>1, AcceptControl
    <2> QED
      BY <1>0, <1>6, <2>2, <2>3, ControlLoop DEF ReceiveSimple
  <1>7. ASSUME NEW c \in Clients, ClientGone(c)
        PROVE  Control'
    <2>1. Waiting("check") /\ c = waitingClient
      BY <1>7, AtFrame DEF ClientGone
    <2> QED
      BY <1>7, <2>1, ControlEnd DEF ClientGone
  <1>8. ASSUME NEW c \in Clients, Deliver(c)
        PROVE  Control'
    <2>1. Waiting("check") /\ c = waitingClient
      BY <1>8, AtFrame DEF Deliver
    <2>2. wdpSessionActive' \in BOOLEAN
      BY <1>0, <1>8 DEF Deliver, TypeOK
    <2>3. EndWait(waitingClient) /\ responseReady' = FALSE /\ UNCHANGED currentRequestPort
      BY <1>8, <2>1 DEF Deliver
    <2> QED
      BY <2>1, <2>2, <2>3, ControlEnd
  <1>9. ASSUME NEW c \in Clients, GiveUp(c)
        PROVE  Control'
    <2>1. Waiting("mesh") /\ c = waitingClient
      BY <1>9, AtFrame DEF GiveUp
    <2>2. EndWait(waitingClient) /\ UNCHANGED <<currentRequestPort, responseReady>>
          /\ wdpSessionActive' = FALSE
      BY <1>9, <2>1 DEF GiveUp
    <2>3. responseReady' \in BOOLEAN
      BY <1>0, <2>2 DEF TypeOK
    <2> QED
      BY <2>1, <2>2, <2>3, ControlEnd
  <1>10. ASSUME NEW c \in Clients, KeepWaiting(c)
         PROVE  Control'
    <2>1. Waiting("check") /\ c = waitingClient
      BY <1>10, AtFrame DEF KeepWaiting
    <2>2. stack' = <<[client |-> waitingClient, pc |-> "mesh"]>>
      BY <1>10, <2>1, WaitingFrame DEF KeepWaiting
    <2>3. Waiting("mesh")'
      BY <1>10, <2>1, <2>2 DEF Waiting, KeepWaiting, browser, early, request
    <2>4. stack' \in Seq([client : Clients, pc : {"mesh", "check"}])
      BY <2>1, <2>2, FrameTyped DEF Waiting
    <2>5. TypeOK'
      BY <1>0, <1>10, <2>4 DEF TypeOK, KeepWaiting, browser, early, request
    <2>6. ASSUME NEW d \in Clients PROVE ConnOK(d)'
      BY <1>0, <1>10 DEF ConnOK, KeepWaiting, browser, early
    <2> QED
      BY <2>3, <2>5, <2>6 DEF Control
  <1>11. ASSUME NEW c \in Clients, Disconnect(c)
         PROVE  Control'
    <2>1. conn[c] = "open" /\ conn' = [conn EXCEPT ![c] = "gone"] /\ c = waitingClient
      BY <1>0, <1>11 DEF Disconnect, ConnOK
    <2>2. /\ conn' \in [Clients -> {"new", "open", "gone", "closed"}]
          /\ conn'[c] = "gone"
          /\ \A d \in Clients \ {c} : conn'[d] = conn[d]
      BY <2>1, ConnStep
    <2>3. TypeOK'
      BY <1>0, <1>11, <2>2 DEF TypeOK, Disconnect, early, request
    <2>4. ASSUME NEW d \in Clients PROVE ConnOK(d)'
      BY <1>0, <1>11, <2>1, <2>2 DEF ConnOK, Disconnect, early
    <2>5. Idle => Idle'
      BY <1>11 DEF Idle, Disconnect, early
    <2>6. ASSUME NEW pc, Waiting(pc) PROVE Waiting(pc)'
      BY <1>11, <2>1, <2>2, <2>6 DEF Waiting, Disconnect, early, request
    <2> QED
      BY <2>3, <2>4, <2>5, <2>6 DEF Control
  <1>12. CASE Tick
    <2>1. quiet' \in 0..ReplyTimeout
      BY <1>0, <1>12, APAssumption DEF Tick
    <2>2. TypeOK'
      BY <1>0, <1>12, <2>1 DEF TypeOK, Tick, browser, early, request
    <2>3. ASSUME NEW d \in Clients PROVE ConnOK(d)'
      BY <1>0, <1>12 DEF ConnOK, Tick, browser, early
    <2>4. (Idle => Idle') /\ \A pc : Waiting(pc) => Waiting(pc)'
      BY <1>12 DEF Idle, Waiting, Tick, browser, early, request
    <2> QED
      BY <2>2, <2>3, <2>4 DEF Control
  <1>13. CASE UNCHANGED vars
    <2>1. TypeOK'
      BY <1>0, <1>13 DEF TypeOK, vars, browser, early, request
    <2>2. ASSUME NEW d \in Clients PROVE ConnOK(d)'
      BY <1>0, <1>13 DEF ConnOK, vars, browser, early
    <2>3. (Idle => Idle') /\ \A pc : Waiting(pc) => Waiting(pc)'
      BY <1>13 DEF Idle, Waiting, vars, browser, early, request
    <2> QED
      BY <2>1, <2>2, <2>3 DEF Control
  <1> QED
    BY <1>1, <1>2, <1>3, <1>4, <1>5, <1>6, <1>7, <1>8, <1>9, <1>10, <1>11, <1>12, <1>13,
       NumbersInRange
    DEF Next, Wait

----------------------------------------------------------------------------
(* Sequences of events *)

LEMMA NothingOK ==
  /\ <<>> \in Seq(Events) /\ WellFormed(<<>>)
  /\ \A p : OwnEvents(<<>>, p)
  BY DEF WellFormed, OwnEvents

LEMMA StatusOK ==
  ASSUME NEW line \in Statuses
  PROVE  /\ Status(line) \in Seq(Events) /\ WellFormed(Status(line))
         /\ \A p : OwnEvents(Status(line), p)
         /\ <<>> \o Status(line) = Status(line)
  <1> DEFINE e == Event(line, <<>>)
  <1>1. e \in Events /\ e.kind \in Statuses
    BY DEF Event, Events, Bodies
  <1>2. Status(line) = <<e>>
    BY DEF Status
  <1> HIDE DEF e
  <1> QED
    BY <1>1, <1>2 DEF WellFormed, OwnEvents, Statuses

(* Headers, alone or with the first body event. *)
LEMMA OpeningOK ==
  ASSUME NEW e \in Events, NEW f \in Events, e.kind = "head", f.kind \in {"part", "page"},
         f.kind = "part" => Kind[e.body[1].msg] # "wmlc"
  PROVE  /\ <<e>> \in Seq(Events) /\ WellFormed(<<e>>) /\ Headed(<<e>>)
         /\ <<e, f>> \in Seq(Events) /\ WellFormed(<<e, f>>)
         /\ f.kind = "part" => Headed(<<e, f>>)
         /\ HeadKind(<<e>>) = Kind[e.body[1].msg]
         /\ HeadKind(<<e, f>>) = Kind[e.body[1].msg]
  BY DEF WellFormed, Headed, HeadKind

LEMMA OwnOpening ==
  ASSUME NEW e, NEW f, NEW p, e.kind = "head", IsHead(p, e.body),
         f.kind = "part" \/ (f.kind = "page" /\ IsAnswer(p, f.body))
  PROVE  OwnEvents(<<e>>, p) /\ OwnEvents(<<e, f>>, p)
  BY DEF OwnEvents

LEMMA TwoEvents ==
  ASSUME NEW e, NEW f
  PROVE  <<e>> \o <<f>> = <<e, f>>
  <1> DEFINE S == {e, f}
             both == <<e>> \o <<f>>
  <1>1. <<e>> \in Seq(S) /\ <<f>> \in Seq(S) /\ <<e, f>> \in Seq(S)
    OBVIOUS
  <1>2. both \in Seq(S) /\ Len(both) = 2 /\ both[1] = e /\ both[2] = f
    BY <1>1
  <1>3. Len(<<e, f>>) = 2 /\ <<e, f>>[1] = e /\ <<e, f>>[2] = f
    OBVIOUS
  <1>4. \A i \in 1..2 : i = 1 \/ i = 2
    OBVIOUS
  <1> HIDE DEF S, both
  <1>5. both = <<e, f>>
    BY <1>1, <1>2, <1>3, <1>4, SeqEqual
  <1> QED
    BY <1>5 DEF both

(* One more event after headers. *)
LEMMA AppendedOne ==
  ASSUME NEW events \in Seq(Events), NEW e \in Events
  PROVE  /\ events \o <<e>> \in Seq(Events)
         /\ Len(events \o <<e>>) = Len(events) + 1
         /\ \A n \in 1..Len(events) : (events \o <<e>>)[n] = events[n]
         /\ (events \o <<e>>)[Len(events) + 1] = e
         /\ DOMAIN (events \o <<e>>) = 1..(Len(events) + 1)
         /\ DOMAIN events = 1..Len(events)
         /\ Len(events) \in Nat
         /\ events # <<>> => 1 \in 1..Len(events)
  OBVIOUS

LEMMA AppendOK ==
  ASSUME NEW events \in Seq(Events), NEW e \in Events, WellFormed(events), Headed(events),
         e.kind \in {"part", "page", "raw", "504"},
         e.kind = "part" => HeadKind(events) # "wmlc",
         e.kind \in {"page", "raw"} => HeadKind(events) = "wmlc"
  PROVE  /\ events \o <<e>> \in Seq(Events)
         /\ WellFormed(events \o <<e>>)
         /\ HeadKind(events \o <<e>>) = HeadKind(events)
         /\ e.kind = "part" => Headed(events \o <<e>>)
  <1> DEFINE new == events \o <<e>>
             len == Len(events)
  <1>1. /\ new \in Seq(Events) /\ Len(new) = len + 1
        /\ \A n \in 1..len : new[n] = events[n]
        /\ new[len + 1] = e
        /\ DOMAIN new = 1..(len + 1)
        /\ DOMAIN events = 1..len /\ len \in Nat
        /\ 1 \in 1..len
        /\ new # <<>>
    BY AppendedOne DEF Headed
  <1> HIDE DEF new, len
  <1>2. new[1] = events[1] /\ HeadKind(new) = HeadKind(events)
    BY <1>1 DEF HeadKind
  <1>3. \A n \in DOMAIN new : n \in DOMAIN events \/ n = len + 1
    BY <1>1
  <1>4. WellFormed(new)
    <2> SUFFICES ASSUME NEW n \in DOMAIN new
                 PROVE  /\ new[n].kind = "head" => n = 1
                        /\ new[n].kind \in {"refused", "502"} => n = 1 /\ n = Len(new)
                        /\ new[n].kind = "504" => n = Len(new)
                        /\ new[n].kind \in {"part", "page", "raw"} => new[1].kind = "head"
                        /\ new[n].kind = "part" => HeadKind(new) # "wmlc"
                        /\ new[n].kind \in {"page", "raw"} => n = 2 /\ n = Len(new)
                        /\ new[n].kind = "raw" => HeadKind(new) = "wmlc"
      BY DEF WellFormed
    <2>1. CASE n \in DOMAIN events
      <3>1. new[n] = events[n] /\ events[n].kind \in {"head", "part"}
        BY <1>1, <2>1 DEF Headed
      <3>2. /\ events[n].kind = "head" => n = 1
            /\ events[n].kind = "part" => HeadKind(events) # "wmlc"
        BY <2>1 DEF WellFormed
      <3> QED
        BY <1>2, <3>1, <3>2 DEF Headed
    <2>2. CASE n = len + 1
      <3>1. ASSUME HeadKind(events) = "wmlc" PROVE len = 1
        <4>1. ASSUME 2 \in 1..len PROVE FALSE
          BY <1>1, <3>1, <4>1 DEF WellFormed, Headed
        <4> QED
          BY <1>1, <4>1
      <3> QED
        BY <1>1, <1>2, <2>2, <3>1 DEF Headed
    <2> QED
      BY <1>3, <2>1, <2>2
  <1>5. e.kind = "part" => Headed(new)
    BY <1>1, <1>2, <1>3 DEF Headed
  <1> QED
    BY <1>1, <1>2, <1>4, <1>5 DEF new

LEMMA OwnAppend ==
  ASSUME NEW events \in Seq(Events), NEW e \in Events, NEW p, OwnEvents(events, p),
         e.kind # "head",
         e.kind \in {"page", "raw"} => IsAnswer(p, e.body)
  PROVE  OwnEvents(events \o <<e>>, p)
  BY AppendedOne DEF OwnEvents

(* The bodies that are written and buffered. *)
LEMMA BytesBody ==
  ASSUME NEW m \in Messages, NEW k \in 1..Total[m]
  PROVE  Bytes(m, k) \in Bodies /\ Bytes(m, k)[k].msg = m
  <1>1. Frag(m, k) \in Fragments /\ Frag(m, k).msg = m
    BY DEF Fragments, Frag
  <1>2. k \in Nat
    BY MessagesAssumption
  <1>3. Bytes(m, k) \in [{k} -> Fragments \cup {None}] /\ {k} \in SUBSET Nat
    BY <1>1, <1>2 DEF Bytes
  <1>4. Bytes(m, k)[k] = Frag(m, k)
    BY DEF Bytes
  <1> QED
    BY <1>1, <1>3, <1>4 DEF Bodies

LEMMA PayloadBody ==
  ASSUME NEW m \in Messages
  PROVE  /\ Payload(m) \in Answers
         /\ 1 \in 1..Total[m]
         /\ Payload(m)[1] = Frag(m, 1) /\ Payload(m)[1].msg = m
  <1>1. Total[m] \in Nat \ {0}
    BY MessagesAssumption
  <1>2. Payload(m) \in [1..Total[m] -> Fragments \cup {None}]
    BY DEF Payload, Fragments
  <1>3. 1 \in 1..Total[m]
    BY <1>1
  <1>4. Payload(m)[1] = Frag(m, 1)
    BY <1>3 DEF Payload
  <1>5. Frag(m, 1).msg = m
    BY DEF Frag
  <1>6. Payload(m) \in Answers
    BY <1>1, <1>2 DEF Answers
  <1> QED
    BY <1>3, <1>4, <1>5, <1>6

LEMMA ReassembledBody ==
  ASSUME NEW slot, SlotOK(slot), slot.active, IsComplete(slot)
  PROVE  Reassembled(slot) \in Answers
  <1>1. /\ slot.totalParts \in 0..MaxParts
        /\ slot.parts \in [Parts -> Fragments \cup {None}]
    BY DEF SlotOK, SlotType, IsComplete
  <1>2. Reassembled(slot) \in [1..slot.totalParts -> Fragments \cup {None}]
    BY <1>1, SlotsAssumption DEF Reassembled, Parts
  <1>3. PICK m \in Concatenated : OpenedBy(slot, m)
    BY DEF SlotOK, GoodSlot
  <1>4. slot.totalParts \in Nat \ {0}
    BY <1>3, MessagesAssumption DEF OpenedBy
  <1> QED
    BY <1>2, <1>4 DEF Answers

LEMMA AnswerBody ==
  ASSUME NEW data \in Answers
  PROVE  /\ data \in Bodies
         /\ Decodes(data) => data[1].msg \in Messages
  <1>1. PICK n \in Nat \ {0} : data \in [1..n -> Fragments \cup {None}]
    BY DEF Answers
  <1>2. data \in Bodies
    <2>1. 1..n \in SUBSET Nat
      OBVIOUS
    <2> QED
      BY <1>1, <2>1 DEF Bodies
  <1>3. data[1] \in Fragments \cup {None}
    BY <1>1
  <1>4. ASSUME Decodes(data) PROVE data[1].msg \in Messages
    <2>1. data[1] \in Fragments
      BY <1>3, <1>4 DEF Decodes
    <2>2. PICK m \in Messages : \E k \in 1..Total[m] : data[1] = Frag(m, k)
      BY <2>1 DEF Fragments
    <2> QED
      BY <2>2 DEF Frag
  <1> QED
    BY <1>2, <1>4

----------------------------------------------------------------------------
(* What each browser is sent *)

(* A browser that is not written to. *)
LEMMA StreamKept ==
  ASSUME NEW c \in Clients, StreamOK(c), out'[c] = out[c],
         conn'[c] = conn[c] \/ conn'[c] \notin {"new", "open"},
         conn'[c] = "open" => UNCHANGED <<headersSent, isWMLC>>
  PROVE  StreamOK(c)'
  BY DEF StreamOK

(* One browser is written to; the others are not waiting. *)
LEMMA StreamsWritten ==
  ASSUME Control, Streams, NEW c \in Clients, NEW new \in Seq(Events),
         out' = [out EXCEPT ![c] = new],
         \A d \in Clients \ {c} : conn'[d] = conn[d],
         conn'[c] = "open" \/ conn[c] = "open" => c = waitingClient,
         \A d \in Clients \ {c} : conn[d] # "open",
         WellFormed(new),
         conn'[c] # "new",
         conn'[c] = "open" =>
           headersSent' /\ Headed(new) /\ (isWMLC' <=> HeadKind(new) = "wmlc")
  PROVE  out' \in [Clients -> Seq(Events)] /\ \A d \in Clients : StreamOK(d)'
  <1>1. out \in [Clients -> Seq(Events)]
    BY DEF Streams
  <1>2. /\ out' \in [Clients -> Seq(Events)]
        /\ out'[c] = new
        /\ \A d \in Clients \ {c} : out'[d] = out[d]
    BY <1>1
  <1>3. ASSUME NEW d \in Clients \ {c} PROVE StreamOK(d)'
    <2>1. StreamOK(d) /\ out'[d] = out[d] /\ conn'[d] = conn[d] /\ conn[d] # "open"
      BY <1>2 DEF Streams
    <2> QED
      BY <2>1, StreamKept
  <1>4. StreamOK(c)'
    BY <1>2 DEF StreamOK
  <1> QED
    BY <1>2, <1>3, <1>4

(* Nobody is written to, and the early-header flags stay. *)
LEMMA StreamsKept ==
  ASSUME Streams, UNCHANGED out, UNCHANGED <<headersSent, isWMLC>>,
         \A c \in Clients : conn'[c] = conn[c] \/ conn'[c] \notin {"new", "open"}
  PROVE  out' \in [Clients -> Seq(Events)] /\ \A d \in Clients : StreamOK(d)'
  BY StreamKept DEF Streams

LEMMA OthersIdle ==
  ASSUME Control, NEW c \in Clients, NEW d \in Clients \ {c}, c = waitingClient
  PROVE  conn[d] # "open"
  BY DEF Control, ConnOK

(* The three things that a received part can do to the waiting browser. *)
LEMMA StreamsReceive ==
  ASSUME Control, Streams, NEW m \in Messages, NEW k \in 1..Total[m], NEW p, NEW stored,
         ToBrowser(m, k, p, stored), UNCHANGED browser
  PROVE  out' \in [Clients -> Seq(Events)] /\ \A d \in Clients : StreamOK(d)'
  <1> DEFINE w == waitingClient
  <1>0. out \in [Clients -> Seq(Events)] /\ \A c \in Clients : StreamOK(c)
    BY DEF Streams
  <1>a. UNCHANGED conn
    BY DEF browser
  <1>b. w # None => w \in Clients
    BY DEF Control, TypeOK
  <1>1. CASE /\ SendsHeaders(m, k, p)
             /\ out' = Written(w, EarlyEvents(m))
             /\ headersSent' = TRUE
             /\ isWMLC' = (Kind[m] = "wmlc")
             /\ UNCHANGED w
    <2>1. w \in Clients /\ k = 1 /\ ~headersSent
      BY <1>1, <1>b DEF SendsHeaders, TriesHeaders
    <2>2. CASE conn[w] # "open"
      <3>1. UNCHANGED out
        BY <1>1, <2>2 DEF Written
      <3>2. ASSUME NEW c \in Clients PROVE conn'[c] # "open"
        BY <1>a, <2>1, <2>2, OthersIdle
      <3> QED
        BY <1>0, <1>a, <3>1, <3>2, StreamKept
    <2>3. CASE conn[w] = "open"
      <3> DEFINE e == Event("head", Bytes(m, 1))
                 f == Event("part", Bytes(m, 1))
      <3>1. out[w] = <<>>
        BY <1>0, <2>1, <2>3 DEF StreamOK
      <3>2. out' = [out EXCEPT ![w] = EarlyEvents(m)]
        <4>1. out[w] \o EarlyEvents(m) = EarlyEvents(m)
          BY <3>1 DEF EarlyEvents
        <4> QED
          BY <1>1, <2>3, <4>1 DEF Written
      <3>3. Bytes(m, 1) \in Bodies /\ Bytes(m, 1)[1].msg = m
        BY <2>1, BytesBody
      <3>4. /\ e \in Events /\ e.kind = "head" /\ e.body = Bytes(m, 1)
            /\ f \in Events /\ f.kind = "part"
        BY <3>3 DEF Event, Events
      <3>5. EarlyEvents(m) = IF Kind[m] = "wmlc" THEN <<e>> ELSE <<e, f>>
        BY DEF EarlyEvents
      <3> HIDE DEF e, f
      <3>6. Kind[e.body[1].msg] = Kind[m]
        BY <3>3, <3>4
      <3>7. PICK g \in Events : g.kind = "page"
        <4>1. Event("page", <<>>) \in Events /\ Event("page", <<>>).kind = "page"
          BY DEF Event, Events, Bodies
        <4> QED
          BY <4>1
      <3>8. /\ EarlyEvents(m) \in Seq(Events) /\ WellFormed(EarlyEvents(m))
            /\ Headed(EarlyEvents(m)) /\ HeadKind(EarlyEvents(m)) = Kind[m]
        <4>1. CASE Kind[m] = "wmlc"
          BY <3>4, <3>5, <3>6, <3>7, <4>1, OpeningOK
        <4>2. CASE Kind[m] # "wmlc"
          BY <3>4, <3>5, <3>6, <4>2, OpeningOK
        <4> QED
          BY <4>1, <4>2
      <3>9. isWMLC' <=> HeadKind(EarlyEvents(m)) = "wmlc"
        BY <1>1, <3>8, Zenon
      <3> QED
        BY <1>1, <1>a, <2>1, <2>3, <3>2, <3>8, <3>9, StreamsWritten, OthersIdle
    <2> QED
      BY <2>2, <2>3
  <1>2. CASE /\ StreamsPart(k)
             /\ out' = Written(w, <<Event("part", Bytes(m, k))>>)
             /\ UNCHANGED early
    <2> DEFINE e == Event("part", Bytes(m, k))
    <2>1. w \in Clients /\ conn[w] = "open" /\ headersSent /\ ~isWMLC
      BY <1>2, <1>b DEF StreamsPart
    <2>2. e \in Events /\ e.kind = "part"
      BY BytesBody DEF Event, Events
    <2>3. out' = [out EXCEPT ![w] = out[w] \o <<e>>]
      BY <1>2, <2>1 DEF Written
    <2> HIDE DEF e
    <2>4. /\ out[w] \in Seq(Events) /\ WellFormed(out[w]) /\ Headed(out[w])
          /\ isWMLC <=> HeadKind(out[w]) = "wmlc"
      BY <1>0, <2>1 DEF StreamOK
    <2>5. /\ out[w] \o <<e>> \in Seq(Events) /\ WellFormed(out[w] \o <<e>>)
          /\ Headed(out[w] \o <<e>>) /\ HeadKind(out[w] \o <<e>>) = HeadKind(out[w])
      BY <2>1, <2>2, <2>4, AppendOK
    <2>6. UNCHANGED <<waitingClient, headersSent, isWMLC>>
      BY <1>2 DEF early
    <2> QED
      BY <1>a, <2>1, <2>3, <2>4, <2>5, <2>6, StreamsWritten, OthersIdle
  <1>3. CASE UNCHANGED <<out, early>>
    BY <1>3, <1>a, StreamsKept DEF early
  <1> QED
    BY <1>1, <1>2, <1>3 DEF ToBrowser

(* The end of a wait that writes new to its browser. *)
LEMMA StreamsEnd ==
  ASSUME Control, Streams, NEW pc, Waiting(pc), EndWait(waitingClient),
         NEW new \in Seq(Events), WellFormed(new), out' = [out EXCEPT ![waitingClient] = new]
  PROVE  out' \in [Clients -> Seq(Events)] /\ \A d \in Clients : StreamOK(d)'
  <1> DEFINE w == waitingClient
  <1>1. w \in Clients /\ conn[w] \in {"open", "gone"}
    BY DEF Waiting
  <1>2. conn \in [Clients -> {"new", "open", "gone", "closed"}]
    BY DEF Control, TypeOK
  <1>3. conn' = [conn EXCEPT ![w] = IF @ = "open" THEN "closed" ELSE @]
    BY WaitOver
  <1>4. conn'[w] \notin {"new", "open"} /\ \A d \in Clients \ {w} : conn'[d] = conn[d]
    BY <1>1, <1>2, <1>3
  <1> QED
    BY <1>1, <1>4, StreamsWritten, OthersIdle

(* The events that end a stream: the 504, or a page under its headers. *)
LEMMA TimeoutWritten ==
  ASSUME Control, Streams, NEW pc, Waiting(pc)
  PROVE  \E new \in Seq(Events) :
           /\ WellFormed(new)
           /\ Written(waitingClient, Status("504")) = [out EXCEPT ![waitingClient] = new]
  <1> DEFINE w == waitingClient
             e == Event("504", <<>>)
  <1>0. "504" \in Statuses
    BY DEF Statuses
  <1>1. w \in Clients /\ out \in [Clients -> Seq(Events)] /\ StreamOK(w) /\ out[w] \in Seq(Events)
    BY DEF Waiting, Streams
  <1>2. CASE conn[w] # "open"
    <2>1. Written(w, Status("504")) = [out EXCEPT ![w] = out[w]]
      BY <1>1, <1>2 DEF Written
    <2> QED
      BY <1>1, <2>1 DEF StreamOK
  <1>3. CASE conn[w] = "open" /\ ~headersSent
    <2>1. out[w] = <<>>
      BY <1>1, <1>3 DEF StreamOK
    <2>2. Written(w, Status("504")) = [out EXCEPT ![w] = Status("504")]
      BY <1>0, <1>3, <2>1, StatusOK DEF Written
    <2> QED
      BY <1>0, <2>2, StatusOK
  <1>4. CASE conn[w] = "open" /\ headersSent
    <2>1. e \in Events /\ e.kind = "504" /\ Status("504") = <<e>>
      BY DEF Event, Events, Statuses, Bodies, Status
    <2>2. Written(w, Status("504")) = [out EXCEPT ![w] = out[w] \o <<e>>]
      BY <1>4, <2>1 DEF Written
    <2> HIDE DEF e
    <2>3. out[w] \o <<e>> \in Seq(Events) /\ WellFormed(out[w] \o <<e>>)
      BY <1>1, <1>4, <2>1, AppendOK DEF StreamOK
    <2> QED
      BY <2>2, <2>3
  <1> QED
    BY <1>2, <1>3, <1>4

LEMMA DeliverWritten ==
  ASSUME Control, Streams, Buffer, NEW c \in Clients, Deliver(c), c = waitingClient
  PROVE  \E new \in Seq(Events) : WellFormed(new) /\ out' = [out EXCEPT ![c] = new]
  <1> DEFINE page == Event("page", responseBuffer)
             raw == Event("raw", responseBuffer)
             head == Event("head", Bytes(responseBuffer[1].msg, 1))
  <1>1. /\ out \in [Clients -> Seq(Events)] /\ StreamOK(c) /\ out[c] \in Seq(Events)
        /\ conn[c] = "open" /\ responseBuffer \in Answers
    BY DEF Streams, Deliver, Buffer
  <1>2. /\ page \in Events /\ page.kind = "page"
        /\ raw \in Events /\ raw.kind = "raw"
    BY <1>1, AnswerBody DEF Event, Events
  <1>3. Decodes(responseBuffer) =>
          head \in Events /\ head.kind = "head"
    <2> SUFFICES ASSUME Decodes(responseBuffer)
                 PROVE  head \in Events /\ head.kind = "head"
      OBVIOUS
    <2>1. responseBuffer[1].msg \in Messages
      BY <1>1, AnswerBody
    <2>2. 1 \in 1..Total[responseBuffer[1].msg]
      BY <2>1, PayloadBody
    <2>3. Bytes(responseBuffer[1].msg, 1) \in Bodies
      BY <2>1, <2>2, BytesBody
    <2> QED
      BY <2>3 DEF Event, Events
  <1>4. \/ out' = Written(c, <<>>)
        \/ headersSent /\ isWMLC /\ out' = Written(c, <<page>>)
        \/ headersSent /\ isWMLC /\ out' = Written(c, <<raw>>)
        \/ ~headersSent /\ Decodes(responseBuffer) /\ out' = Written(c, <<head>> \o <<page>>)
        \/ ~headersSent /\ out' = Written(c, Status("502"))
    BY DEF Deliver
  <1> HIDE DEF page, raw, head
  <1>5. CASE out' = Written(c, <<>>)
    <2>1. out' = [out EXCEPT ![c] = out[c]]
      BY <1>1, <1>5 DEF Written
    <2> QED
      BY <1>1, <2>1 DEF StreamOK
  <1>6. ASSUME NEW e \in {page, raw}, headersSent, isWMLC, out' = Written(c, <<e>>)
        PROVE  \E new \in Seq(Events) : WellFormed(new) /\ out' = [out EXCEPT ![c] = new]
    <2>1. out' = [out EXCEPT ![c] = out[c] \o <<e>>]
      BY <1>1, <1>6 DEF Written
    <2>2. e \in Events /\ e.kind \in {"page", "raw"}
      BY <1>2, <1>6
    <2>3. Headed(out[c]) /\ WellFormed(out[c]) /\ HeadKind(out[c]) = "wmlc"
      BY <1>1, <1>6 DEF StreamOK
    <2>4. out[c] \o <<e>> \in Seq(Events) /\ WellFormed(out[c] \o <<e>>)
      BY <1>1, <2>2, <2>3, AppendOK
    <2> QED
      BY <2>1, <2>4
  <1>7. CASE ~headersSent /\ Decodes(responseBuffer) /\ out' = Written(c, <<head>> \o <<page>>)
    <2>1. out[c] = <<>>
      BY <1>1, <1>7 DEF StreamOK
    <2>2. out[c] \o (<<head>> \o <<page>>) = <<head, page>>
      <3>1. <<head>> \o <<page>> = <<head, page>>
        BY TwoEvents
      <3>2. <<>> \o <<head, page>> = <<head, page>>
        OBVIOUS
      <3> QED
        BY <2>1, <3>1, <3>2
    <2>3. out' = [out EXCEPT ![c] = <<head, page>>]
      BY <1>1, <1>7, <2>2 DEF Written
    <2>4. <<head, page>> \in Seq(Events) /\ WellFormed(<<head, page>>)
      BY <1>2, <1>3, <1>7, OpeningOK
    <2> QED
      BY <2>3, <2>4
  <1>8. CASE ~headersSent /\ out' = Written(c, Status("502"))
    <2>0. "502" \in Statuses
      BY DEF Statuses
    <2>1. out[c] = <<>>
      BY <1>1, <1>8 DEF StreamOK
    <2>2. out' = [out EXCEPT ![c] = Status("502")]
      BY <1>1, <1>8, <2>0, <2>1, StatusOK DEF Written
    <2> QED
      BY <2>0, <2>2, StatusOK
  <1> QED
    BY <1>4, <1>5, <1>6, <1>7, <1>8

(* One case for each action that writes to a browser or closes one. *)
LEMMA StreamsStep ==
  ASSUME Control, Table, Buffer, Streams, [Next]_vars
  PROVE  Streams'
  <1>0. /\ out \in [Clients -> Seq(Events)] /\ \A c \in Clients : StreamOK(c)
        /\ conn \in [Clients -> {"new", "open", "gone", "closed"}]
    BY DEF Streams, Control, TypeOK
  <1> DEFINE Goal == out' \in [Clients -> Seq(Events)] /\ \A d \in Clients : StreamOK(d)'
  <1>1. ASSUME NEW c \in Clients, RefuseRequest(c)
        PROVE  Goal
    <2>1. PICK new \in {<<>>, Status("refused")} : out' = [out EXCEPT ![c] = new]
      BY <1>1 DEF RefuseRequest
    <2>2. new \in Seq(Events) /\ WellFormed(new)
      BY NothingOK, StatusOK DEF Statuses
    <2>3. Idle /\ conn[c] = "new"
      BY <1>1, Listening DEF RefuseRequest
    <2>4. conn'[c] = "closed" /\ \A d \in Clients \ {c} : conn'[d] = conn[d]
      BY <1>0, <1>1 DEF RefuseRequest
    <2>5. \A d \in Clients : conn[d] # "open"
      BY <2>3, APAssumption DEF Control, ConnOK, Idle
    <2> QED
      BY <2>1, <2>2, <2>3, <2>4, <2>5, StreamsWritten
  <1>2. ASSUME NEW c \in Clients, NEW p \in RequestPorts, StartRequest(c, p)
        PROVE  Goal
    <2>1. Idle /\ conn[c] = "new" /\ headersSent' = FALSE /\ out' = out
      BY <1>2, Listening DEF StartRequest
    <2>2. conn'[c] = "open" /\ \A d \in Clients \ {c} : conn'[d] = conn[d]
      BY <1>0, <1>2 DEF StartRequest
    <2>3. \A d \in Clients : conn[d] # "open"
      BY <2>1, APAssumption DEF Control, ConnOK, Idle
    <2>4. ASSUME NEW d \in Clients \ {c} PROVE StreamOK(d)'
      BY <1>0, <2>1, <2>2, <2>3, StreamKept
    <2>5. StreamOK(c)'
      BY <1>0, <2>1, <2>2 DEF StreamOK
    <2> QED
      BY <1>0, <2>1, <2>4, <2>5
  <1>3. ASSUME NEW m \in Messages, NEW k \in 1..Total[m], ReceivePart(m, k)
        PROVE  Goal
    <2>1. UNCHANGED browser /\ \E p, stored : ToBrowser(m, k, p, stored)
      BY <1>3 DEF ReceivePart
    <2> QED
      BY <2>1, StreamsReceive
  <1>4. ASSUME NEW m \in Messages, ReceiveSimple(m)
        PROVE  Goal
    <2>1. UNCHANGED browser /\ ToBrowser(m, 1, Port[m], TRUE)
      BY <1>4 DEF ReceiveSimple
    <2> QED
      BY <2>1, PayloadBody, StreamsReceive
  <1>5. ASSUME NEW c \in Clients, ClientGone(c)
        PROVE  Goal
    <2>1. Waiting("check") /\ c = waitingClient
      BY <1>5, AtFrame DEF ClientGone
    <2>2. EndWait(waitingClient) /\ out' = [out EXCEPT ![waitingClient] = out[waitingClient]]
      BY <1>0, <1>5, <2>1 DEF ClientGone
    <2>3. out[waitingClient] \in Seq(Events) /\ WellFormed(out[waitingClient])
      BY <1>0, <2>1 DEF StreamOK
    <2> QED
      BY <2>1, <2>2, <2>3, StreamsEnd
  <1>6. ASSUME NEW c \in Clients, Deliver(c)
        PROVE  Goal
    <2>1. Waiting("check") /\ c = waitingClient /\ EndWait(c)
      BY <1>6, AtFrame DEF Deliver
    <2> QED
      BY <1>6, <2>1, DeliverWritten, StreamsEnd
  <1>7. ASSUME NEW c \in Clients, GiveUp(c)
        PROVE  Goal
    <2>1. Waiting("mesh") /\ c = waitingClient /\ EndWait(c) /\ out' = Written(c, Status("504"))
      BY <1>7, AtFrame DEF GiveUp
    <2> QED
      BY <2>1, TimeoutWritten, StreamsEnd
  <1>8. ASSUME NEW c \in Clients, Disconnect(c)
        PROVE  Goal
    <2>1. UNCHANGED out /\ UNCHANGED <<headersSent, isWMLC>>
      BY <1>8 DEF Disconnect, early
    <2>2. \A d \in Clients : conn'[d] = conn[d] \/ conn'[d] \notin {"new", "open"}
      BY <1>0, <1>8 DEF Disconnect
    <2> QED
      BY <2>1, <2>2, StreamsKept
  <1>9. ASSUME UNCHANGED <<out, conn, early>>
        PROVE  Goal
    <2>1. UNCHANGED out /\ UNCHANGED <<headersSent, isWMLC>>
      BY <1>9 DEF early
    <2>2. \A d \in Clients : conn'[d] = conn[d] \/ conn'[d] \notin {"new", "open"}
      BY <1>9
    <2> QED
      BY <2>1, <2>2, StreamsKept
  <1> HIDE DEF Goal
  <1>10. Goal
    BY <1>1, <1>2, <1>3, <1>4, <1>5, <1>6, <1>7, <1>8, <1>9, NumbersInRange
    DEF Next, Wait, vars, browser, LoopIdle, DropPart, KeepWaiting, Tick
  <1> QED
    BY <1>10 DEF Streams, Goal

----------------------------------------------------------------------------
(* The buffered answer *)

(* While the wait looks for packets, only its own port matches. *)
LEMMA MatchedPort ==
  ASSUME Control, Waiting("mesh"), NEW p, PortMatches(p)
  PROVE  p = reqPort[waitingClient]
  <1>1. waitingClient \in Clients /\ conn[waitingClient] \in {"open", "gone"}
        /\ currentRequestPort = reqPort[waitingClient]
    BY DEF Waiting
  <1>2. reqPort[waitingClient] \in RequestPorts
    BY <1>1 DEF Control, ConnOK
  <1>3. currentRequestPort # 0
    BY <1>1, <1>2, APAssumption
  <1> QED
    BY <1>1, <1>3 DEF PortMatches

LEMMA BufferKept ==
  ASSUME Buffer,
         responseReady' => responseReady /\ responseBuffer' = responseBuffer,
         stack' # <<>> /\ responseReady' => stack # <<>> /\ UNCHANGED <<waitingClient, reqPort>>
  PROVE  Buffer'
  BY DEF Buffer

LEMMA BufferAccept ==
  ASSUME Control, Buffer, InMeshLoop, MeshLoopReturns, UNCHANGED browser,
         waitingClient' = waitingClient, NEW p, NEW data \in Answers, AcceptResponse(p, data),
         RefCollision \/ IsAnswer(p, data)
  PROVE  Buffer'
  <1>1. UNCHANGED reqPort
    BY DEF browser
  <1>2. stack' # <<>> => stack # <<>> /\ Waiting("mesh")
    BY LoopReturns, WaitingFrame DEF Idle
  <1>3. CASE UNCHANGED request
    BY <1>1, <1>2, <1>3, BufferKept DEF request
  <1>4. CASE responseBuffer' = data /\ PortMatches(p)
    <2>1. stack' # <<>> => p = reqPort'[waitingClient']
      BY <1>1, <1>2, <1>4, MatchedPort
    <2> QED
      BY <1>4, <2>1 DEF Buffer
  <1> QED
    BY <1>3, <1>4, AcceptControl

LEMMA BufferStep ==
  ASSUME Control, Table, Buffer, [Next]_vars
  PROVE  Buffer'
  <1>0. headersSent \in BOOLEAN /\ isWMLC \in BOOLEAN
    BY DEF Control, TypeOK
  <1>1. ASSUME NEW m \in Messages, NEW k \in 1..Total[m], ReceivePart(m, k)
        PROVE  Buffer'
    <2> DEFINE table == CleanedTable(concatMessages)
               slot(s) == FilledSlot(FoundSlot(table, s, m, 0), m, k)
    <2>1. PICK s \in ConcatSlots :
            /\ Chosen(table, m, s)
            /\ \E stored : ToBrowser(m, k, slot(s).port, stored)
            /\ \/ IsComplete(slot(s)) /\ AcceptResponse(slot(s).port, Reassembled(slot(s)))
               \/ UNCHANGED request
      BY <1>1 DEF ReceivePart
    <2>2. m \in Concatenated /\ InMeshLoop /\ MeshLoopReturns /\ UNCHANGED browser
      BY <1>1 DEF ReceivePart
    <2>3. waitingClient' = waitingClient
      BY <1>0, <2>1, BrowserControl
    <2>4. SlotOK(slot(s)) /\ Collects(slot(s), m)
      BY <2>1, <2>2, PartStored
    <2> DEFINE sl == slot(s)
    <2>5. CASE UNCHANGED request
      <3>1. stack' # <<>> => stack # <<>>
        BY <2>2, LoopReturns, WaitingFrame
      <3> QED
        BY <2>2, <2>3, <2>5, <3>1, BufferKept DEF request, browser
    <2>6. CASE IsComplete(sl) /\ AcceptResponse(sl.port, Reassembled(sl))
      <3> HIDE DEF sl
      <3>1. Reassembled(sl) \in Answers
        BY <2>4, <2>6, ReassembledBody DEF Collects, sl
      <3>2. ASSUME ~RefCollision PROVE IsAnswer(sl.port, Reassembled(sl))
        <4>1. ~RefReused(sl.sender)
          BY <2>2, <2>4, <3>2, MessagesAssumption DEF RefCollision, Collects, sl
        <4>2. PICK n \in Concatenated : OpenedBy(sl, n) /\ Reassembled(sl) = Payload(n)
          BY <2>4, <2>6, <4>1, CompleteIsWhole DEF Collects, sl
        <4> QED
          BY <4>2, MessagesAssumption DEF IsAnswer, OpenedBy
      <3> QED
        BY <2>2, <2>3, <2>6, <3>1, <3>2, BufferAccept
    <2> QED
      BY <2>1, <2>5, <2>6
  <1>2. ASSUME NEW m \in Messages, ReceiveSimple(m)
        PROVE  Buffer'
    <2>1. /\ InMeshLoop /\ MeshLoopReturns /\ UNCHANGED browser
          /\ ToBrowser(m, 1, Port[m], TRUE) /\ AcceptResponse(Port[m], Payload(m))
      BY <1>2 DEF ReceiveSimple
    <2>2. waitingClient' = waitingClient
      BY <1>0, <2>1, BrowserControl
    <2>3. Payload(m) \in Answers /\ IsAnswer(Port[m], Payload(m))
      BY PayloadBody DEF IsAnswer
    <2> QED
      BY <2>1, <2>2, <2>3, BufferAccept
  <1>3. CASE LoopIdle \/ \E m \in Messages : DropPart(m)
    <2>1. /\ InMeshLoop /\ MeshLoopReturns
          /\ UNCHANGED <<request, waitingClient, reqPort>>
      BY <1>3 DEF LoopIdle, DropPart, browser, early
    <2>2. stack' # <<>> => stack # <<>>
      BY <2>1, LoopReturns, WaitingFrame
    <2> QED
      BY <2>1, <2>2, BufferKept DEF request
  <1>4. ASSUME NEW c \in Clients, ClientGone(c) \/ Deliver(c) \/ GiveUp(c)
        PROVE  Buffer'
    <2>1. /\ \E pc : Waiting(pc)
          /\ c = waitingClient /\ EndWait(waitingClient)
          /\ responseReady' => responseReady
      BY <1>4, AtFrame DEF ClientGone, Deliver, GiveUp
    <2>2. stack' = <<>> /\ responseBuffer' = responseBuffer
      BY <2>1, WaitOver DEF Idle
    <2> QED
      BY <2>1, <2>2, BufferKept
  <1>5. ASSUME NEW c \in Clients, KeepWaiting(c)
        PROVE  Buffer'
    <2>1. stack # <<>> /\ UNCHANGED <<request, waitingClient, reqPort>>
      BY <1>5 DEF KeepWaiting, browser, early
    <2> QED
      BY <2>1, BufferKept DEF request
  <1>6. ASSUME NEW c \in Clients, NEW p \in RequestPorts, StartRequest(c, p)
        PROVE  Buffer'
    BY <1>6 DEF StartRequest, Buffer
  <1>7. CASE UNCHANGED <<stack, request, waitingClient, reqPort>>
    BY <1>7, BufferKept DEF request
  <1> QED
    BY <1>1, <1>2, <1>3, <1>4, <1>5, <1>6, <1>7, NumbersInRange
    DEF Next, Wait, vars, browser, early, RefuseRequest, Disconnect, Tick

----------------------------------------------------------------------------
(* Whose answers a browser is sent *)

LEMMA OwnReceive ==
  ASSUME Control, Streams, NEW m \in Messages, NEW k \in 1..Total[m], NEW p, NEW stored,
         InMeshLoop, MeshLoopReturns, ToBrowser(m, k, p, stored), p = Port[m],
         \A c \in Clients : OwnEvents(out[c], reqPort[c])
  PROVE  \A c \in Clients : OwnEvents(out'[c], reqPort[c])
  <1> DEFINE w == waitingClient
  <1>0. out \in [Clients -> Seq(Events)] /\ \A c \in Clients : StreamOK(c)
    BY DEF Streams
  <1>b. w # None => w \in Clients
    BY DEF Control, TypeOK
  <1>1. CASE /\ SendsHeaders(m, k, p)
             /\ out' = Written(w, EarlyEvents(m))
             /\ conn[w] = "open"
    <2>1. w \in Clients /\ w # None /\ ~headersSent /\ PortMatches(p)
      BY <1>1, <1>b DEF SendsHeaders, TriesHeaders
    <2>2. out[w] = <<>>
      BY <1>0, <1>1, <2>1 DEF StreamOK
    <2>3. Waiting("mesh")
      BY <2>1, LoopReturns DEF Idle
    <2>4. Port[m] = reqPort[w]
      BY <2>1, <2>3, MatchedPort
    <2>5. out[w] \o EarlyEvents(m) = EarlyEvents(m)
      BY <2>2 DEF EarlyEvents
    <2>6. out'[w] = EarlyEvents(m) /\ \A d \in Clients \ {w} : out'[d] = out[d]
      BY <1>0, <1>1, <2>1, <2>5 DEF Written
    <2> DEFINE e == Event("head", Bytes(m, 1))
               f == Event("part", Bytes(m, 1))
    <2>7. e.kind = "head" /\ e.body = Bytes(m, 1) /\ f.kind = "part"
      BY DEF Event
    <2>8. EarlyEvents(m) = <<e>> \/ EarlyEvents(m) = <<e, f>>
      BY DEF EarlyEvents
    <2> HIDE DEF e, f
    <2>9. IsHead(reqPort[w], e.body)
      BY <2>4, <2>7 DEF IsHead
    <2>10. OwnEvents(EarlyEvents(m), reqPort[w])
      BY <2>7, <2>8, <2>9, OwnOpening
    <2> QED
      BY <2>6, <2>10
  <1>2. CASE /\ StreamsPart(k)
             /\ out' = Written(w, <<Event("part", Bytes(m, k))>>)
             /\ conn[w] = "open"
    <2> DEFINE e == Event("part", Bytes(m, k))
    <2>1. w \in Clients
      BY <1>2, <1>b DEF StreamsPart
    <2>2. e \in Events /\ e.kind = "part"
      BY BytesBody DEF Event, Events
    <2>3. out' = [out EXCEPT ![w] = out[w] \o <<e>>]
      BY <1>2 DEF Written
    <2> HIDE DEF e
    <2>4. OwnEvents(out[w] \o <<e>>, reqPort[w])
      BY <1>0, <2>1, <2>2, OwnAppend
    <2>5. out'[w] = out[w] \o <<e>> /\ \A d \in Clients \ {w} : out'[d] = out[d]
      BY <1>0, <2>1, <2>3
    <2> QED
      BY <2>4, <2>5
  <1>3. CASE UNCHANGED out
    BY <1>3
  <1> QED
    BY <1>1, <1>2, <1>3 DEF ToBrowser, Written

LEMMA OwnDeliver ==
  ASSUME Control, Streams, Buffer, ~RefCollision, NEW c \in Clients, Deliver(c),
         \A d \in Clients : OwnEvents(out[d], reqPort[d])
  PROVE  \A d \in Clients : OwnEvents(out'[d], reqPort[d])
  <1> DEFINE page == Event("page", responseBuffer)
             raw == Event("raw", responseBuffer)
             head == Event("head", Bytes(responseBuffer[1].msg, 1))
  <1>0. Waiting("check") /\ c = waitingClient
    BY AtFrame DEF Deliver
  <1>1. /\ out \in [Clients -> Seq(Events)] /\ StreamOK(c) /\ out[c] \in Seq(Events)
        /\ conn[c] = "open" /\ responseBuffer \in Answers
        /\ IsAnswer(reqPort[c], responseBuffer)
    BY <1>0, WaitingFrame DEF Streams, Deliver, Buffer
  <1>2. /\ page \in Events /\ page.kind = "page" /\ page.body = responseBuffer
        /\ raw \in Events /\ raw.kind = "raw" /\ raw.body = responseBuffer
    BY <1>1, AnswerBody DEF Event, Events
  <1>3. head.kind = "head" /\ IsHead(reqPort[c], head.body)
    <2>1. PICK m \in Messages : Port[m] = reqPort[c] /\ responseBuffer = Payload(m)
      BY <1>1 DEF IsAnswer
    <2>2. responseBuffer[1].msg = m
      BY <2>1, PayloadBody
    <2> QED
      BY <2>1, <2>2 DEF Event, IsHead
  <1>4. \/ out' = Written(c, <<>>)
        \/ \E e \in {page, raw} : out' = Written(c, <<e>>)
        \/ ~headersSent /\ out' = Written(c, <<head>> \o <<page>>)
        \/ ~headersSent /\ out' = Written(c, Status("502"))
    BY DEF Deliver
  <1> HIDE DEF page, raw, head
  <1>5. ~headersSent => out[c] = <<>>
    BY <1>1 DEF StreamOK
  <1>6. PICK new : out' = [out EXCEPT ![c] = new] /\ OwnEvents(new, reqPort[c])
    <2>1. CASE out' = Written(c, <<>>)
      <3>1. out' = [out EXCEPT ![c] = out[c]]
        BY <1>1, <2>1 DEF Written
      <3> QED
        BY <3>1
    <2>2. ASSUME NEW e \in {page, raw}, out' = Written(c, <<e>>)
          PROVE  \E new : out' = [out EXCEPT ![c] = new] /\ OwnEvents(new, reqPort[c])
      <3>1. out' = [out EXCEPT ![c] = out[c] \o <<e>>]
        BY <1>1, <2>2 DEF Written
      <3>2. e \in Events /\ e.kind # "head" /\ IsAnswer(reqPort[c], e.body)
        BY <1>1, <1>2, <2>2
      <3>3. OwnEvents(out[c] \o <<e>>, reqPort[c])
        BY <1>1, <3>2, OwnAppend
      <3> QED
        BY <3>1, <3>3
    <2>3. CASE ~headersSent /\ out' = Written(c, <<head>> \o <<page>>)
      <3>1. <<head>> \o <<page>> = <<head, page>>
        BY TwoEvents
      <3>2. <<>> \o <<head, page>> = <<head, page>>
        OBVIOUS
      <3>3. out' = [out EXCEPT ![c] = <<head, page>>]
        BY <1>1, <1>5, <2>3, <3>1, <3>2 DEF Written
      <3>4. OwnEvents(<<head, page>>, reqPort[c])
        BY <1>1, <1>2, <1>3, OwnOpening
      <3> QED
        BY <3>3, <3>4
    <2>4. CASE ~headersSent /\ out' = Written(c, Status("502"))
      <3>1. "502" \in Statuses
        BY DEF Statuses
      <3>2. out' = [out EXCEPT ![c] = Status("502")]
        BY <1>1, <1>5, <2>4, <3>1, StatusOK DEF Written
      <3> QED
        BY <3>1, <3>2, StatusOK
    <2> QED
      BY <1>4, <2>1, <2>2, <2>3, <2>4
  <1> QED
    BY <1>1, <1>6

LEMMA OwnGiveUp ==
  ASSUME Control, Streams, NEW c \in Clients, GiveUp(c),
         \A d \in Clients : OwnEvents(out[d], reqPort[d])
  PROVE  \A d \in Clients : OwnEvents(out'[d], reqPort[d])
  <1> DEFINE e == Event("504", <<>>)
  <1>1. out \in [Clients -> Seq(Events)] /\ out' = Written(c, Status("504"))
    BY DEF Streams, GiveUp
  <1>2. e \in Events /\ e.kind = "504" /\ Status("504") = <<e>>
    BY DEF Event, Events, Statuses, Bodies, Status
  <1> HIDE DEF e
  <1>3. CASE conn[c] # "open"
    BY <1>1, <1>3 DEF Written
  <1>4. CASE conn[c] = "open"
    <2>1. out' = [out EXCEPT ![c] = out[c] \o <<e>>]
      BY <1>1, <1>2, <1>4 DEF Written
    <2>2. OwnEvents(out[c] \o <<e>>, reqPort[c])
      BY <1>1, <1>2, OwnAppend
    <2> QED
      BY <1>1, <2>1, <2>2
  <1> QED
    BY <1>3, <1>4

LEMMA OwnStep ==
  ASSUME Control, Table, Buffer, Streams, Own, [Next]_vars
  PROVE  Own'
  <1> SUFFICES ASSUME ~RefCollision
               PROVE  \A c \in Clients : OwnEvents(out'[c], reqPort'[c])
    BY DEF Own
  <1>0. /\ \A c \in Clients : OwnEvents(out[c], reqPort[c])
        /\ out \in [Clients -> Seq(Events)]
        /\ reqPort \in [Clients -> RequestPorts \cup {0}]
    BY DEF Own, Streams, Control, TypeOK
  <1>1. ASSUME NEW c \in Clients, RefuseRequest(c)
        PROVE  \A d \in Clients : OwnEvents(out'[d], reqPort'[d])
    <2>1. PICK new \in {<<>>, Status("refused")} : out' = [out EXCEPT ![c] = new]
      BY <1>1 DEF RefuseRequest
    <2>2. \A p : OwnEvents(new, p)
      BY NothingOK, StatusOK DEF Statuses
    <2>3. UNCHANGED reqPort
      BY <1>1 DEF RefuseRequest
    <2> QED
      BY <1>0, <2>1, <2>2, <2>3
  <1>2. ASSUME NEW c \in Clients, NEW p \in RequestPorts, StartRequest(c, p)
        PROVE  \A d \in Clients : OwnEvents(out'[d], reqPort'[d])
    <2>1. out[c] = <<>> /\ out' = out /\ reqPort' = [reqPort EXCEPT ![c] = p]
      BY <1>2 DEF Streams, StreamOK, StartRequest
    <2>2. \A q : OwnEvents(<<>>, q)
      BY NothingOK
    <2> QED
      BY <1>0, <2>1, <2>2
  <1>3. ASSUME NEW m \in Messages, NEW k \in 1..Total[m], ReceivePart(m, k)
        PROVE  \A d \in Clients : OwnEvents(out'[d], reqPort'[d])
    <2> DEFINE table == CleanedTable(concatMessages)
               slot(s) == FilledSlot(FoundSlot(table, s, m, 0), m, k)
    <2>1. PICK s \in ConcatSlots :
            Chosen(table, m, s) /\ \E stored : ToBrowser(m, k, slot(s).port, stored)
      BY <1>3 DEF ReceivePart
    <2>2. m \in Concatenated /\ InMeshLoop /\ MeshLoopReturns /\ UNCHANGED reqPort
      BY <1>3 DEF ReceivePart, browser
    <2>3. slot(s).port = Port[m]
      BY <2>1, <2>2, PartStored
    <2> QED
      BY <1>0, <2>1, <2>2, <2>3, OwnReceive
  <1>4. ASSUME NEW m \in Messages, ReceiveSimple(m)
        PROVE  \A d \in Clients : OwnEvents(out'[d], reqPort'[d])
    <2>1. /\ InMeshLoop /\ MeshLoopReturns /\ UNCHANGED reqPort
          /\ ToBrowser(m, 1, Port[m], TRUE)
      BY <1>4 DEF ReceiveSimple, browser
    <2> QED
      BY <1>0, <2>1, PayloadBody, OwnReceive
  <1>5. ASSUME NEW c \in Clients, Deliver(c)
        PROVE  \A d \in Clients : OwnEvents(out'[d], reqPort'[d])
    <2>1. UNCHANGED reqPort
      BY <1>5 DEF Deliver, EndWait
    <2> QED
      BY <1>0, <1>5, <2>1, OwnDeliver
  <1>6. ASSUME NEW c \in Clients, GiveUp(c)
        PROVE  \A d \in Clients : OwnEvents(out'[d], reqPort'[d])
    <2>1. UNCHANGED reqPort
      BY <1>6 DEF GiveUp, EndWait
    <2> QED
      BY <1>0, <1>6, <2>1, OwnGiveUp
  <1>7. CASE UNCHANGED <<out, reqPort>>
    BY <1>0, <1>7
  <1> QED
    BY <1>1, <1>2, <1>3, <1>4, <1>5, <1>6, <1>7, NumbersInRange
    DEF Next, Wait, vars, browser, LoopIdle, DropPart, KeepWaiting, ClientGone, EndWait,
        Disconnect, Tick

----------------------------------------------------------------------------
(* The display *)

LEMMA DisplayStep ==
  ASSUME Control, Streams, DisplayRestored, [Next]_vars
  PROVE  DisplayRestored'
  <1>0. /\ out \in [Clients -> Seq(Events)]
        /\ \A c \in Clients : StreamOK(c) /\ ConnOK(c)
        /\ headersSent \in BOOLEAN /\ isWMLC \in BOOLEAN
        /\ ended \in Clients \cup {None}
    BY DEF Streams, Control, TypeOK
  <1>1. ASSUME NEW c \in Clients, RefuseRequest(c)
        PROVE  DisplayRestored'
    <2>1. UNCHANGED <<stack, wdpSessionActive, ended>> /\ c # ended
      BY <1>0, <1>1 DEF RefuseRequest, ConnOK
    <2>2. \A d \in Clients \ {c} : out'[d] = out[d]
      BY <1>0, <1>1 DEF RefuseRequest
    <2> QED
      BY <1>0, <2>1, <2>2 DEF DisplayRestored
  <1>2. ASSUME NEW c \in Clients, NEW p \in RequestPorts, StartRequest(c, p)
        PROVE  DisplayRestored'
    <2>1. stack' = <<[client |-> c, pc |-> "mesh"]>>
      BY <1>2, Listening DEF StartRequest, Idle
    <2>2. stack' # <<>>
      BY <2>1
    <2> QED
      BY <2>2 DEF DisplayRestored
  <1>3. ASSUME InMeshLoop, MeshLoopReturns, UNCHANGED <<wdpSessionActive, ended>>,
               waitingClient = None => UNCHANGED out
        PROVE  DisplayRestored'
    <2>1. CASE Idle /\ stack' = <<>>
      BY <1>3, <2>1 DEF Idle, DisplayRestored
    <2>2. CASE stack' = <<[client |-> waitingClient, pc |-> "check"]>>
      <3>1. stack' # <<>>
        BY <2>2
      <3> QED
        BY <3>1 DEF DisplayRestored
    <2> QED
      BY <1>3, <2>1, <2>2, LoopReturns
  <1>4. ASSUME NEW m, NEW k, NEW p, NEW stored, ToBrowser(m, k, p, stored)
        PROVE  waitingClient = None => UNCHANGED out
    BY <1>4 DEF ToBrowser, SendsHeaders, TriesHeaders, StreamsPart
  <1>5. ASSUME NEW m \in Messages, NEW k \in 1..Total[m], ReceivePart(m, k)
        PROVE  DisplayRestored'
    <2>1. /\ InMeshLoop /\ MeshLoopReturns /\ UNCHANGED <<wdpSessionActive, ended>>
          /\ \E p, stored : ToBrowser(m, k, p, stored)
      BY <1>5 DEF ReceivePart
    <2> QED
      BY <1>3, <1>4, <2>1
  <1>6. ASSUME NEW m \in Messages, ReceiveSimple(m)
        PROVE  DisplayRestored'
    <2>1. /\ InMeshLoop /\ MeshLoopReturns /\ UNCHANGED <<wdpSessionActive, ended>>
          /\ ToBrowser(m, 1, Port[m], TRUE)
      BY <1>6 DEF ReceiveSimple
    <2> QED
      BY <1>3, <1>4, <2>1
  <1>7. CASE LoopIdle \/ \E m \in Messages : DropPart(m)
    <2>1. InMeshLoop /\ MeshLoopReturns /\ UNCHANGED <<wdpSessionActive, ended, out>>
      BY <1>7 DEF LoopIdle, DropPart
    <2> QED
      BY <1>3, <2>1
  <1>8. ASSUME NEW c \in Clients, Deliver(c)
        PROVE  DisplayRestored'
    <2>1. Waiting("check") /\ c = waitingClient /\ conn[c] = "open"
      BY <1>8, AtFrame DEF Deliver
    <2>2. wdpSessionActive' => ~headersSent /\ out' = Written(c, Status("502"))
      BY <1>8 DEF Deliver
    <2>3. ASSUME ~headersSent, out' = Written(c, Status("502"))
          PROVE  out'[c] = Status("502")
      <3>1. out[c] = <<>>
        BY <1>0, <2>1, <2>3 DEF StreamOK
      <3>2. <<>> \o Status("502") = Status("502")
        BY StatusOK DEF Statuses
      <3> QED
        BY <1>0, <2>1, <2>3, <3>1, <3>2 DEF Written
    <2>4. ended' = c /\ c # None
      BY <1>8, APAssumption DEF Deliver, EndWait
    <2> QED
      BY <2>2, <2>3, <2>4 DEF DisplayRestored
  <1>9. ASSUME NEW c \in Clients, ClientGone(c) \/ GiveUp(c)
        PROVE  DisplayRestored'
    BY <1>9 DEF ClientGone, GiveUp, DisplayRestored
  <1>10. ASSUME NEW c \in Clients, KeepWaiting(c)
         PROVE  DisplayRestored'
    <2>1. Waiting("check")
      BY <1>10, AtFrame DEF KeepWaiting
    <2>2. stack' = <<[client |-> waitingClient, pc |-> "mesh"]>>
      BY <1>10, <2>1, WaitingFrame DEF KeepWaiting
    <2>3. stack' # <<>>
      BY <2>2
    <2> QED
      BY <2>3 DEF DisplayRestored
  <1>11. CASE UNCHANGED <<stack, wdpSessionActive, out, ended>>
    BY <1>11 DEF DisplayRestored
  <1> QED
    BY <1>1, <1>2, <1>5, <1>6, <1>7, <1>8, <1>9, <1>10, <1>11, NumbersInRange
    DEF Next, Wait, vars, Disconnect, Tick

----------------------------------------------------------------------------
(* The invariant, and what follows from it *)

LEMMA IndInvInit == Init => IndInv
  <1> SUFFICES ASSUME Init PROVE IndInv
    OBVIOUS
  <1>1. Control
    BY ControlInit
  <1>2. Table
    BY ClearedOK DEF Init, Table
  <1>3. Buffer /\ DisplayRestored
    BY DEF Init, Buffer, DisplayRestored
  <1>4. out = [c \in Clients |-> <<>>] /\ \A c \in Clients : out[c] = <<>>
    BY DEF Init
  <1>5. Streams
    BY <1>4, NothingOK DEF Init, Streams, StreamOK
  <1>6. Own
    BY <1>4, NothingOK DEF Own
  <1> QED
    BY <1>1, <1>2, <1>3, <1>5, <1>6 DEF IndInv

LEMMA IndInvStep == IndInv /\ [Next]_vars => IndInv'
  BY ControlStep, TableStep, BufferStep, StreamsStep, OwnStep, DisplayStep DEF IndInv

(* Every reachable state of the access point node satisfies the invariant  *)
(* of its nested wait, its table, its buffer and its browsers' streams.    *)
THEOREM Invariance == Spec => []IndInv
  BY IndInvInit, IndInvStep, PTL DEF Spec

(* The variables of mode_ap.h keep the types of their declarations. *)
THEOREM TypeCorrect == Spec => []TypeOK
  <1>1. IndInv => TypeOK
    BY DEF IndInv, Control
  <1> QED
    BY <1>1, Invariance, PTL

(* ap_loop is called from inside its own wait, yet never serves a second   *)
(* request there: the server is down exactly while a frame of              *)
(* sendWAPRequestViaMesh is alive.                                         *)
THEOREM WaitNotReentered == Spec => []NoReentry
  <1>1. ASSUME IndInv PROVE NoReentry
    <2>1. CASE Idle
      BY <2>1 DEF Idle, NoReentry
    <2>2. ASSUME NEW pc, Waiting(pc) PROVE NoReentry
      BY <2>2, WaitingFrame DEF Waiting, NoReentry
    <2> QED
      BY <1>1, <2>1, <2>2 DEF IndInv, Control
  <1>2. IndInv => NoReentry
    BY <1>1
  <1> QED
    BY <1>2, Invariance, PTL

(* ap_waitingClient never dangles, and the port matched while packets are  *)
(* handled is the waiting client's, with any number of earlier requests    *)
(* that timed out.                                                         *)
THEOREM PointerAlive == Spec => []WaitingClientAlive
  <1>1. ASSUME IndInv PROVE WaitingClientAlive
    <2>1. CASE Idle
      BY <2>1 DEF Idle, WaitingClientAlive
    <2>2. ASSUME NEW pc \in {"mesh", "check"}, Waiting(pc) PROVE WaitingClientAlive
      <3>1. /\ stack # <<>> /\ Top = [client |-> waitingClient, pc |-> pc]
            /\ Top.client = waitingClient /\ Top.pc = pc
        BY <2>2, WaitingFrame
      <3>2. waitingClient # None
        BY <2>2, APAssumption DEF Waiting
      <3>3. pc = "mesh" => currentRequestPort = reqPort[waitingClient]
        BY <2>2 DEF Waiting
      <3> QED
        BY <3>1, <3>2, <3>3 DEF WaitingClientAlive
    <2> QED
      BY <1>1, <2>1, <2>2 DEF IndInv, Control
  <1>2. IndInv => WaitingClientAlive
    BY <1>1
  <1> QED
    BY <1>2, Invariance, PTL

(* Unless the proxy reuses a refNum octet, no browser is ever given the    *)
(* headers or the page of another request's answer, or a page put together *)
(* of two answers.                                                         *)
THEOREM AnswersNotMixedUp == Spec => []AnswerOfOwnRequest
  <1>1. ASSUME IndInv PROVE AnswerOfOwnRequest
    <2>1. CASE RefCollision
      BY <2>1 DEF AnswerOfOwnRequest
    <2>2. CASE \A c \in Clients : OwnEvents(out[c], reqPort[c])
      BY <2>2 DEF AnswerOfOwnRequest, EventsOf, OwnEvents, IsHead, IsAnswer
    <2> QED
      BY <1>1, <2>1, <2>2 DEF IndInv, Own
  <1>2. IndInv => AnswerOfOwnRequest
    BY <1>1
  <1> QED
    BY <1>2, Invariance, PTL

(* What ap_trySendEarlyHeaders, the streaming, the final body and the      *)
(* status lines write to one browser reads as one response: one head and   *)
(* what belongs under it, or one status line alone; with the two           *)
(* exceptions of the code, the 504 after early headers and the WMLC body   *)
(* the decompiler refuses, where WellFormedStream names them.              *)
THEOREM StreamsWellFormed == Spec => []WellFormedStream
  <1>1. IndInv => WellFormedStream
    BY DEF IndInv, Streams, StreamOK, WellFormed, HeadKind, WellFormedStream
  <1> QED
    BY <1>1, Invariance, PTL

(* However a wait ends, by an answer, a 504 or a browser that is gone, the *)
(* WDP session is off the display afterwards, except after the 502 that    *)
(* returns before ap_restoreNormalDisplay.                                 *)
THEOREM DisplayIsRestored == Spec => []DisplayRestored
  <1>1. IndInv => DisplayRestored
    BY DEF IndInv
  <1> QED
    BY <1>1, Invariance, PTL

============================================================================
