----------------------------- MODULE WDPGateway -----------------------------
(***************************************************************************)
(* The proxy node: class WDPGateway of mode_proxy.h.  WDP fragments come   *)
(* from the mesh, are reassembled and sent to the WAPBox over UDP from a   *)
(* socket of their own; the answer that reaches that socket is relayed to  *)
(* the mesh client recorded beside it.                                     *)
(*                                                                         *)
(* handleIncomingMesh and loop run on the one Arduino task, so each is one *)
(* action.  Around them the mesh may lose, repeat, delay and reorder       *)
(* fragments, and the WAPBox (external) may answer a datagram late, more   *)
(* than once, or never.                                                    *)
(***************************************************************************)
EXTENDS WDPConcat, Integers

CONSTANTS
  ConnSlots,      \* 1..MAX_PENDING_CONNECTIONS
  ConnTimeout     \* ticks in the 60 s a connection waits for its answer

ASSUME ConnAssumption == ConnSlots \subseteq Nat \ {0} /\ ConnTimeout \in Nat

VARIABLES
  concatMessages,     \* the reassembly table
  pendingConnections, \* who waits for an answer on which socket
  rx,                 \* per socket: the request whose answer is queued, or None
  inflight,           \* datagrams sent to the WAPBox whose answer may still come
  relayed             \* the answers this step handed to sendWDPViaMesh

vars == <<concatMessages, pendingConnections, rx, inflight, relayed>>

ConnAges == 0..(ConnTimeout + 1)

(* A socket whose begin(port) failed sends from an address of its own.     *)
Ephemeral(i) == -i

ClearedConnection ==
  [active |-> FALSE, port |-> 0, to |-> None, addr |-> 0, age |-> 0]

Init ==
  /\ concatMessages = [s \in ConcatSlots |-> ClearedMessage]
  /\ pendingConnections = [i \in ConnSlots |-> ClearedConnection]
  /\ rx = [i \in ConnSlots |-> None]
  /\ inflight = {}
  /\ relayed = {}

----------------------------------------------------------------------------
(* forwardToWAPBox *)

ExpiredConnection(conn) == conn.age > ConnTimeout

(* Faulty variant: an expired entry is not a duplicate. *)
DuplicatesUnexpired(from, port) ==
  {i \in ConnSlots : /\ pendingConnections[i].active
                     /\ ~ExpiredConnection(pendingConnections[i])
                     /\ pendingConnections[i].port = port
                     /\ pendingConnections[i].to = from}

Duplicates(from, port) ==
  {i \in ConnSlots : /\ pendingConnections[i].active
                     /\ pendingConnections[i].port = port
                     /\ pendingConnections[i].to = from}

(* Faulty variant: with every slot in use, any of them is taken. *)
ReusableWhenFull ==
  IF \A i \in ConnSlots : pendingConnections[i].active
  THEN ConnSlots
  ELSE {i \in ConnSlots : ~pendingConnections[i].active}

Reusable ==
  {i \in ConnSlots : \/ ~pendingConnections[i].active
                     \/ ExpiredConnection(pendingConnections[i])}

(* Faulty variant: the sockets are not stopped. *)
SocketsLeftOpen(S) == inflight

(* Datagrams whose answer still has a socket to go to when the sockets of  *)
(* the slots in S are stopped.                                             *)
WithoutSockets(S) == {d \in inflight : \A i \in S : d.addr # Ephemeral(i)}

(* A request of a client that already waits on this port: the timestamp    *)
(* is refreshed and nothing is sent.                                       *)
RefreshDuplicate(from, port) ==
  /\ \E i \in Duplicates(from, port) :
       /\ IsFirst(i, Duplicates(from, port))
       /\ pendingConnections' = [pendingConnections EXCEPT ![i] = [@ EXCEPT !.age = 0]]
  /\ UNCHANGED <<rx, inflight>>

(* The first inactive or expired slot is taken over, its socket stopped    *)
(* and bound again; a failed bind is only logged.                          *)
OpenConnection(from, port, data) ==
  /\ Duplicates(from, port) = {}
  /\ \E i \in Reusable :
       /\ IsFirst(i, Reusable)
       /\ \E addr \in {port, Ephemeral(i)} :
            /\ pendingConnections' = [pendingConnections EXCEPT ![i] =
                 [active |-> TRUE, port |-> port, to |-> from, addr |-> addr, age |-> 0]]
            /\ inflight' = WithoutSockets({i}) \cup
                 {[addr |-> addr, req |-> [from |-> from, port |-> port, data |-> data]]}
       /\ rx' = [rx EXCEPT ![i] = None]

(* "No free slots for pending connection!": the request is lost. *)
RefuseConnection(from, port) ==
  /\ Duplicates(from, port) = {}
  /\ Reusable = {}
  /\ UNCHANGED <<pendingConnections, rx, inflight>>

ForwardToWAPBox(from, port, data) ==
  \/ RefreshDuplicate(from, port)
  \/ OpenConnection(from, port, data)
  \/ RefuseConnection(from, port)

----------------------------------------------------------------------------
(* handleIncomingMesh *)

(* A concat part.  lastUpdate is not written when the slot is opened, only *)
(* when the part is stored: a slot opened by a part it cannot hold has the *)
(* age of whatever lastUpdate held before.                                 *)
HandleConcatPart(m, k) ==
  /\ m \in Concatenated
  /\ \E s \in ConcatSlots, stale \in ConcatAges :
       LET slot == FilledSlot(FoundSlot(concatMessages, s, m, stale), m, k) IN
       /\ Chosen(concatMessages, m, s)
       /\ IF IsComplete(slot)
          THEN /\ ForwardToWAPBox(slot.sender, slot.port, Reassembled(slot))
               /\ concatMessages' = [concatMessages EXCEPT ![s] = ClearedMessage]
          ELSE /\ concatMessages' = [concatMessages EXCEPT ![s] = slot]
               /\ UNCHANGED <<pendingConnections, rx, inflight>>
  /\ relayed' = {}

(* "No free concat message slots": the part is dropped. *)
DropConcatPart(m) ==
  /\ m \in Concatenated
  /\ NoSlot(concatMessages, m)
  /\ relayed' = {}
  /\ UNCHANGED <<concatMessages, pendingConnections, rx, inflight>>

HandleSimple(m) ==
  /\ m \notin Concatenated
  /\ ForwardToWAPBox(Sender[m], Port[m], Payload(m))
  /\ relayed' = {}
  /\ UNCHANGED concatMessages

HandleIncomingMesh ==
  \E m \in Messages :
    \/ \E k \in Numbers(m) : HandleConcatPart(m, k)
    \/ DropConcatPart(m)
    \/ HandleSimple(m)

----------------------------------------------------------------------------
(* loop *)

(* Faulty variant: expired connections are not looked at. *)
AnsweredUnexpired ==
  {i \in ConnSlots : /\ pendingConnections[i].active
                     /\ ~ExpiredConnection(pendingConnections[i])
                     /\ rx[i] # None}

Answered == {i \in ConnSlots : pendingConnections[i].active /\ rx[i] # None}

TimedOut == {i \in ConnSlots \ Answered : /\ pendingConnections[i].active
                                          /\ ExpiredConnection(pendingConnections[i])}

(* sendWDPViaMesh to the client recorded in the slot. *)
RelayOf(i) == [to |-> pendingConnections[i].to, port |-> pendingConnections[i].port,
               req |-> rx[i]]

(* Relay every queued answer and clear its connection, then clear the      *)
(* connections past 60 s, then the reassembly slots past 30 s.             *)
Loop ==
  LET closed == Answered \cup TimedOut IN
  /\ pendingConnections' =
       [i \in ConnSlots |-> IF i \in closed THEN ClearedConnection ELSE pendingConnections[i]]
  /\ rx' = [i \in ConnSlots |-> IF i \in closed THEN None ELSE rx[i]]
  /\ inflight' = WithoutSockets(closed)
  /\ relayed' = {RelayOf(i) : i \in Answered}
  /\ concatMessages' = CleanedTable(concatMessages)

----------------------------------------------------------------------------
(* The environment *)

(* External: an answer of the WAPBox reaches a socket with the address the *)
(* datagram came from.  Only the first queued answer is ever read, because *)
(* the socket is stopped right after it.                                   *)
DeliverUDP ==
  \E d \in inflight, i \in ConnSlots :
    /\ pendingConnections[i].active
    /\ pendingConnections[i].addr = d.addr
    /\ rx[i] = None
    /\ rx' = [rx EXCEPT ![i] = d.req]
    /\ relayed' = {}
    /\ UNCHANGED <<concatMessages, pendingConnections, inflight>>

OlderConnection(conn) ==
  IF conn.active /\ conn.age <= ConnTimeout THEN [conn EXCEPT !.age = @ + 1] ELSE conn

(* millis() advances. *)
Tick ==
  /\ concatMessages' = AgedTable(concatMessages)
  /\ pendingConnections' = [i \in ConnSlots |-> OlderConnection(pendingConnections[i])]
  /\ relayed' = {}
  /\ UNCHANGED <<rx, inflight>>

Next == HandleIncomingMesh \/ Loop \/ DeliverUDP \/ Tick

Spec == Init /\ [][Next]_vars

(* loop() is called for ever from the Arduino main loop, and time passes. *)
FairSpec == Spec /\ WF_vars(Loop) /\ WF_vars(Tick)

----------------------------------------------------------------------------
(* Correctness *)

Nodes == {Sender[m] : m \in Messages}

Ports == {Port[m] : m \in Messages}

(* A request as forwardToWAPBox sees it; data may have holes when messages *)
(* with the same refNum were mixed.                                        *)
IsRequest(r) ==
  /\ r = [from |-> r.from, port |-> r.port, data |-> r.data]
  /\ r.from \in Nodes
  /\ r.port \in Ports

ConnectionType ==
  [active : BOOLEAN, port : Nat, to : Nodes \cup {None}, addr : Int, age : ConnAges]

(* The variables have the types of the declarations in mode_proxy.h. *)
TypeOK ==
  /\ concatMessages \in [ConcatSlots -> SlotType]
  /\ pendingConnections \in [ConnSlots -> ConnectionType]
  /\ DOMAIN rx = ConnSlots
  /\ \A i \in ConnSlots : rx[i] = None \/ IsRequest(rx[i])
  /\ \A d \in inflight : /\ d = [addr |-> d.addr, req |-> d.req]
                         /\ d.addr \in Int
                         /\ IsRequest(d.req)
  /\ \A a \in relayed : /\ a = [to |-> a.to, port |-> a.port, req |-> a.req]
                        /\ IsRequest(a.req)

UniqueSlots ==
  \A s, t \in ConcatSlots :
    /\ concatMessages[s].active
    /\ concatMessages[t].active
    /\ concatMessages[s].refNum = concatMessages[t].refNum
    /\ concatMessages[s].sender = concatMessages[t].sender
    => s = t

UniqueConnections ==
  \A i, j \in ConnSlots :
    /\ pendingConnections[i].active
    /\ pendingConnections[j].active
    /\ pendingConnections[i].to = pendingConnections[j].to
    /\ pendingConnections[i].port = pendingConnections[j].port
    => i = j

(* No two reassembly slots collect the same (refNum, sender), and no two   *)
(* connections wait for the same (client, port): the search loops of       *)
(* handleIncomingMesh and forwardToWAPBox have at most one place to go to. *)
UniqueKeys == UniqueSlots /\ UniqueConnections

(* Whatever the mesh loses, repeats or reorders, what reaches the WAPBox   *)
(* is one whole message under its own client and port: no holes, no part   *)
(* of another message.  A client that took one refNum octet twice is the   *)
(* only exception the (refNum, sender) key of the table leaves.            *)
ForwardedWhole ==
  \A d \in inflight :
    \/ \E m \in Messages : d.req = [from |-> Sender[m], port |-> Port[m], data |-> Payload(m)]
    \/ RefReused(d.req.from)

(* Two clients that picked the same source port. *)
PortShared(p) ==
  \E m1, m2 \in Messages : Port[m1] = p /\ Port[m2] = p /\ Sender[m1] # Sender[m2]

(* An answer is relayed under the port of the request it answers, and to   *)
(* the client that made the request as long as no other client uses that   *)
(* port: the socket alone decides, across expiry, takeover of a slot,      *)
(* failed binds and late answers.                                          *)
AnswerRouting ==
  \A a \in relayed :
    /\ a.port = a.req.port
    /\ a.to = a.req.from \/ PortShared(a.port)

(* mode_proxy.h:464: "Response received on this connection's socket - we   *)
(* know exactly which client it's for".                                    *)
RelayedToRequester == \A a \in relayed : a.to = a.req.from

(* No step, whoever's message it handles, takes the slot of a connection   *)
(* that still waits within its 60 s and has no answer queued.              *)
WaitingConnectionKept ==
  [][\A i \in ConnSlots :
       /\ pendingConnections[i].active
       /\ ~ExpiredConnection(pendingConnections[i])
       /\ rx[i] = None
       => /\ pendingConnections'[i].active
          /\ pendingConnections'[i].to = pendingConnections[i].to
          /\ pendingConnections'[i].port = pendingConnections[i].port]_vars

(* An answer that reached a socket is relayed to the client recorded       *)
(* there, even when the connection expires in the same loop; it is lost    *)
(* only if another request took over the expired slot before loop ran.     *)
AnswerNotDiscarded ==
  [][\A i \in ConnSlots :
       rx[i] # None /\ rx'[i] = None =>
         \/ RelayOf(i) \in relayed'
         \/ ExpiredConnection(pendingConnections[i]) /\ pendingConnections'[i].active]_vars

(* Every reassembly slot is given back, whatever fragments keep arriving:  *)
(* repeated parts must not keep an incomplete message alive.               *)
ConcatSlotsReleased ==
  \A s \in ConcatSlots : concatMessages[s].active ~> ~concatMessages[s].active

(* Every connection is given back or refreshed by its own client. *)
ConnectionsReleased ==
  \A i \in ConnSlots :
    []<>(~pendingConnections[i].active \/ pendingConnections[i].age = 0)

(* The two tables of the proxy never fill up for good. *)
SlotsReleased == ConcatSlotsReleased /\ ConnectionsReleased

============================================================================
