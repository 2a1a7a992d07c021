-------------------------- MODULE WDPGatewayProofs --------------------------
(* Proofs about WDPGateway, for any messages, any number of slots and any  *)
(* timeouts.                                                               *)
EXTENDS WDPGateway, WDPConcatProofs

(* Some message really came from this client and port. *)
ClientKey(n, p) == \E m \in Messages : Sender[m] = n /\ Port[m] = p

WholeOrReused(r) ==
  \/ \E m \in Messages : r = [from |-> Sender[m], port |-> Port[m], data |-> Payload(m)]
  \/ RefReused(r.from)

(* The reassembly table. *)
ConcatInv ==
  /\ concatMessages \in [ConcatSlots -> SlotType]
  /\ \A s \in ConcatSlots : SlotOK(concatMessages[s])
  /\ UniqueSlots

(* One connection, one queued answer and one datagram.  A private address  *)
(* is reachable only while the slot that owns it waits on the same port.   *)
ConnOK(i) ==
  pendingConnections[i].active =>
    /\ ClientKey(pendingConnections[i].to, pendingConnections[i].port)
    /\ pendingConnections[i].addr \in {pendingConnections[i].port, Ephemeral(i)}

RxOK(i) ==
  rx[i] # None =>
    /\ pendingConnections[i].active
    /\ IsRequest(rx[i])
    /\ ClientKey(rx[i].from, rx[i].port)
    /\ rx[i].port = pendingConnections[i].port

DatagramOK(d) ==
  /\ d = [addr |-> d.addr, req |-> d.req]
  /\ d.addr \in Int
  /\ IsRequest(d.req)
  /\ ClientKey(d.req.from, d.req.port)
  /\ WholeOrReused(d.req)
  /\ \/ d.addr = d.req.port
     \/ \E i \in ConnSlots : /\ d.addr = Ephemeral(i)
                             /\ pendingConnections[i].active
                             /\ pendingConnections[i].port = d.req.port

ConnInv ==
  /\ pendingConnections \in [ConnSlots -> ConnectionType]
  /\ DOMAIN rx = ConnSlots
  /\ \A i \in ConnSlots : ConnOK(i) /\ RxOK(i)
  /\ \A d \in inflight : DatagramOK(d)
  /\ UniqueConnections

RelayInv ==
  /\ \A a \in relayed : /\ a = [to |-> a.to, port |-> a.port, req |-> a.req]
                        /\ IsRequest(a.req)
  /\ AnswerRouting

IInv == ConcatInv /\ ConnInv /\ RelayInv

LEMMA IInvSuffices == IInv => TypeOK /\ UniqueKeys /\ ForwardedWhole /\ AnswerRouting
  <1> SUFFICES ASSUME IInv PROVE TypeOK /\ UniqueKeys /\ ForwardedWhole /\ AnswerRouting
    OBVIOUS
  <1>1. TypeOK
    BY DEF IInv, ConcatInv, ConnInv, RelayInv, TypeOK, RxOK, DatagramOK
  <1>2. ForwardedWhole
    BY DEF IInv, ConnInv, DatagramOK, WholeOrReused, ForwardedWhole
  <1> QED
    BY <1>1, <1>2 DEF IInv, ConcatInv, ConnInv, RelayInv, UniqueKeys

(* A client key makes a well-typed request. *)
LEMMA KeyType ==
  ASSUME NEW n, NEW p, ClientKey(n, p)
  PROVE  n \in Nodes /\ p \in Ports /\ p \in Nat /\ p > 0
  BY MessagesAssumption DEF ClientKey, Nodes, Ports

LEMMA InitIInv == Init => IInv
  <1> SUFFICES ASSUME Init PROVE IInv
    OBVIOUS
  <1>1. ConcatInv
    <2>1. \A s \in ConcatSlots : concatMessages[s] = ClearedMessage
      BY DEF Init
    <2>2. ClearedMessage \in SlotType /\ SlotOK(ClearedMessage)
      BY ClearedOK DEF SlotOK
    <2>3. ClearedMessage.active = FALSE
      BY DEF ClearedMessage
    <2>4. concatMessages \in [ConcatSlots -> SlotType]
      BY <2>2 DEF Init
    <2> QED
      BY <2>1, <2>2, <2>3, <2>4 DEF ConcatInv, UniqueSlots
  <1>2. ConnInv
    <2>1. ClearedConnection \in ConnectionType /\ ClearedConnection.active = FALSE
      BY ConnAssumption DEF ClearedConnection, ConnectionType, ConnAges
    <2> QED
      BY <2>1 DEF Init, ConnInv, ConnOK, RxOK, UniqueConnections
  <1>3. RelayInv
    BY DEF Init, RelayInv, AnswerRouting
  <1> QED
    BY <1>1, <1>2, <1>3 DEF IInv

(* forwardToWAPBox keeps the connections in order, for any request of a    *)
(* real client that is whole or whose refNum was reused.                   *)
LEMMA ForwardOK ==
  ASSUME NEW from, NEW port, NEW data, ConnInv, ClientKey(from, port),
         WholeOrReused([from |-> from, port |-> port, data |-> data]),
         ForwardToWAPBox(from, port, data)
  PROVE  ConnInv'
  <1> DEFINE req == [from |-> from, port |-> port, data |-> data]
  <1>0. from \in Nodes /\ port \in Ports /\ port \in Nat /\ port > 0
    BY KeyType
  <1>1. CASE RefreshDuplicate(from, port)
    <2>1. PICK j \in ConnSlots :
            /\ pendingConnections[j].active
            /\ pendingConnections' = [pendingConnections EXCEPT ![j] = [@ EXCEPT !.age = 0]]
            /\ UNCHANGED <<rx, inflight>>
      BY <1>1 DEF RefreshDuplicate, Duplicates
    <2>2. pendingConnections \in [ConnSlots -> ConnectionType] /\ 0 \in ConnAges
      BY ConnAssumption DEF ConnInv, ConnAges
    <2>3. pendingConnections' \in [ConnSlots -> ConnectionType]
      BY <2>1, <2>2 DEF ConnectionType
    <2>4. \A i \in ConnSlots :
            /\ pendingConnections'[i].active = pendingConnections[i].active
            /\ pendingConnections'[i].to = pendingConnections[i].to
            /\ pendingConnections'[i].port = pendingConnections[i].port
            /\ pendingConnections'[i].addr = pendingConnections[i].addr
      BY <2>1, <2>2 DEF ConnectionType
    <2> QED
      BY <2>1, <2>3, <2>4 DEF ConnInv, ConnOK, RxOK, DatagramOK, UniqueConnections
  <1>2. CASE OpenConnection(from, port, data)
    <2>0. PICK j \in Reusable :
            /\ rx' = [rx EXCEPT ![j] = None]
            /\ \E addr \in {port, Ephemeral(j)} :
                 /\ pendingConnections' = [pendingConnections EXCEPT ![j] =
                      [active |-> TRUE, port |-> port, to |-> from, addr |-> addr, age |-> 0]]
                 /\ inflight' = WithoutSockets({j}) \cup {[addr |-> addr, req |-> req]}
      BY <1>2 DEF OpenConnection
    <2>1. PICK addr \in {port, Ephemeral(j)} :
            /\ pendingConnections' = [pendingConnections EXCEPT ![j] =
                 [active |-> TRUE, port |-> port, to |-> from, addr |-> addr, age |-> 0]]
            /\ inflight' = WithoutSockets({j}) \cup {[addr |-> addr, req |-> req]}
            /\ rx' = [rx EXCEPT ![j] = None]
      BY <2>0
    <2> DEFINE new == [active |-> TRUE, port |-> port, to |-> from, addr |-> addr, age |-> 0]
    <2>2. j \in ConnSlots /\ j \in Nat
      BY <2>1, ConnAssumption DEF Reusable
    <2>3. new \in ConnectionType
      BY <1>0, <2>1, <2>2, ConnAssumption DEF ConnectionType, ConnAges, Ephemeral
    <2>4. /\ pendingConnections'[j] = new
          /\ \A i \in ConnSlots : i # j => pendingConnections'[i] = pendingConnections[i]
          /\ pendingConnections' \in [ConnSlots -> ConnectionType]
      BY <2>1, <2>2, <2>3 DEF ConnInv
    <2>5. /\ rx'[j] = None
          /\ \A i \in ConnSlots : i # j => rx'[i] = rx[i]
          /\ DOMAIN rx' = ConnSlots
      BY <2>1, <2>2 DEF ConnInv
    <2>6. \A i \in ConnSlots : ConnOK(i)' /\ RxOK(i)'
      <3> TAKE i \in ConnSlots
      <3>1. CASE i = j
        BY <2>1, <2>4, <2>5, <3>1 DEF ConnOK, RxOK
      <3>2. CASE i # j
        BY <2>4, <2>5, <3>2 DEF ConnInv, ConnOK, RxOK
      <3> QED
        BY <3>1, <3>2
    <2>7. \A d \in inflight' : DatagramOK(d)'
      <3> TAKE d \in inflight'
      <3>1. CASE d \in WithoutSockets({j})
        <4>1. DatagramOK(d) /\ d.addr # Ephemeral(j)
          BY <3>1 DEF ConnInv, WithoutSockets
        <4> QED
          BY <2>4, <4>1 DEF DatagramOK
      <3>2. CASE d = [addr |-> addr, req |-> req]
        <4>1. d.addr = addr /\ d.req = req /\ req.from = from /\ req.port = port /\ addr \in Int
          BY <1>0, <2>1, <2>2, <3>2 DEF Ephemeral
        <4>2. IsRequest(req) /\ ClientKey(req.from, req.port) /\ WholeOrReused(req)
          BY <1>0, <4>1 DEF IsRequest
        <4>3. d.addr = d.req.port \/ (d.addr = Ephemeral(j) /\ pendingConnections'[j].active
                                        /\ pendingConnections'[j].port = d.req.port)
          BY <2>1, <2>4, <4>1
        <4> QED
          BY <2>2, <3>2, <4>1, <4>2, <4>3 DEF DatagramOK
      <3> QED
        BY <2>1, <3>1, <3>2
    <2>8. UniqueConnections'
      <3>1. \A i \in ConnSlots : ~(/\ pendingConnections[i].active
                                   /\ pendingConnections[i].port = port
                                   /\ pendingConnections[i].to = from)
        BY <1>2 DEF OpenConnection, Duplicates
      <3> QED
        BY <2>4, <3>1 DEF ConnInv, UniqueConnections
    <2> QED
      BY <2>4, <2>5, <2>6, <2>7, <2>8 DEF ConnInv
  <1>3. CASE RefuseConnection(from, port)
    BY <1>3 DEF RefuseConnection, ConnInv, ConnOK, RxOK, DatagramOK, UniqueConnections
  <1> QED
    BY <1>1, <1>2, <1>3 DEF ForwardToWAPBox

(* No fragment is relayed by a step that is not a loop. *)
LEMMA NoRelay == relayed' = {} => RelayInv'
  BY DEF RelayInv, AnswerRouting

LEMMA ConnUnchanged ==
  ConnInv /\ UNCHANGED <<pendingConnections, rx, inflight>> => ConnInv'
  BY DEF ConnInv, ConnOK, RxOK, DatagramOK, UniqueConnections

(* Replacing one slot of the table by a good one keeps the table good, as  *)
(* long as no other active slot has its key.                               *)
LEMMA TableUpdate ==
  ASSUME ConcatInv, NEW s \in ConcatSlots, NEW slot, SlotOK(slot),
         concatMessages' = [concatMessages EXCEPT ![s] = slot],
         \A t \in ConcatSlots : /\ t # s
                                /\ slot.active
                                /\ concatMessages[t].active
                                => ~(/\ concatMessages[t].refNum = slot.refNum
                                     /\ concatMessages[t].sender = slot.sender)
  PROVE  ConcatInv'
  <1>1. slot \in SlotType
    BY DEF SlotOK
  <1>2. /\ concatMessages' \in [ConcatSlots -> SlotType]
        /\ concatMessages'[s] = slot
        /\ \A t \in ConcatSlots : t # s => concatMessages'[t] = concatMessages[t]
    BY <1>1 DEF ConcatInv
  <1>3. \A t \in ConcatSlots : SlotOK(concatMessages'[t])
    BY <1>2 DEF ConcatInv
  <1>4. UniqueSlots'
    BY <1>2 DEF ConcatInv, UniqueSlots
  <1> QED
    BY <1>2, <1>3, <1>4 DEF ConcatInv

LEMMA HandleConcatPartOK ==
  ASSUME IInv, NEW m \in Messages, NEW k \in 1..Total[m], HandleConcatPart(m, k)
  PROVE  IInv'
  <1>1. m \in Concatenated /\ relayed' = {}
    BY DEF HandleConcatPart
  <1>2. PICK s \in ConcatSlots, stale \in ConcatAges :
          /\ Chosen(concatMessages, m, s)
          /\ LET slot == FilledSlot(FoundSlot(concatMessages, s, m, stale), m, k) IN
             IF IsComplete(slot)
             THEN /\ ForwardToWAPBox(slot.sender, slot.port, Reassembled(slot))
                  /\ concatMessages' = [concatMessages EXCEPT ![s] = ClearedMessage]
             ELSE /\ concatMessages' = [concatMessages EXCEPT ![s] = slot]
                  /\ UNCHANGED <<pendingConnections, rx, inflight>>
    BY DEF HandleConcatPart
  <1> DEFINE found == FoundSlot(concatMessages, s, m, stale)
             slot == FilledSlot(found, m, k)
  <1>3. SlotOK(concatMessages[s])
    BY DEF IInv, ConcatInv
  <1>4. SlotOK(found) /\ Collects(found, m)
    BY <1>1, <1>2, <1>3, FoundOK
  <1> HIDE DEF found
  <1>5. SlotOK(slot) /\ Collects(slot, m)
    BY <1>1, <1>4, FilledOK
  <1>6. /\ IsComplete(slot) =>
             /\ ForwardToWAPBox(slot.sender, slot.port, Reassembled(slot))
             /\ concatMessages' = [concatMessages EXCEPT ![s] = ClearedMessage]
        /\ ~IsComplete(slot) =>
             /\ concatMessages' = [concatMessages EXCEPT ![s] = slot]
             /\ UNCHANGED <<pendingConnections, rx, inflight>>
    BY <1>2 DEF found
  <1> HIDE DEF slot
  <1>7. \A t \in ConcatSlots : t # s /\ concatMessages[t].active
          => ~(concatMessages[t].refNum = Ref[m] /\ concatMessages[t].sender = Sender[m])
    BY <1>2 DEF Chosen, IsFirst, Matching, IInv, ConcatInv, UniqueSlots
  <1>8. RelayInv'
    BY <1>1, NoRelay
  <1>9. CASE IsComplete(slot)
    <2> DEFINE req == [from |-> slot.sender, port |-> slot.port, data |-> Reassembled(slot)]
    <2>1. slot.active
      BY <1>5 DEF Collects
    <2>2. ClientKey(slot.sender, slot.port)
      BY <1>5, <2>1, MessagesAssumption DEF SlotOK, GoodSlot, OpenedBy, ClientKey
    <2>3. WholeOrReused(req)
      <3>1. CASE RefReused(slot.sender)
        BY <3>1 DEF WholeOrReused
      <3>2. CASE ~RefReused(slot.sender)
        <4>1. PICK n \in Concatenated : OpenedBy(slot, n) /\ Reassembled(slot) = Payload(n)
          BY <1>5, <1>9, <2>1, <3>2, CompleteIsWhole
        <4>2. n \in Messages /\ slot.sender = Sender[n] /\ slot.port = Port[n]
          BY <4>1, MessagesAssumption DEF OpenedBy
        <4> QED
          BY <4>1, <4>2 DEF WholeOrReused
      <3> QED
        BY <3>1, <3>2
    <2>4. ConnInv'
      BY <1>6, <1>9, <2>2, <2>3, ForwardOK DEF IInv
    <2>5. ConcatInv'
      <3>1. concatMessages' = [concatMessages EXCEPT ![s] = ClearedMessage] /\ ~ClearedMessage.active
        BY <1>6, <1>9 DEF ClearedMessage
      <3> QED
        BY <3>1, ClearedOK, TableUpdate DEF IInv
    <2> QED
      BY <1>8, <2>4, <2>5 DEF IInv
  <1>10. CASE ~IsComplete(slot)
    <2>1. ConcatInv'
      <3>1. concatMessages' = [concatMessages EXCEPT ![s] = slot]
        BY <1>6, <1>10
      <3>2. slot.refNum = Ref[m] /\ slot.sender = Sender[m]
        BY <1>5 DEF Collects
      <3>3. \A t \in ConcatSlots : t # s /\ slot.active /\ concatMessages[t].active
              => ~(concatMessages[t].refNum = slot.refNum /\ concatMessages[t].sender = slot.sender)
        BY <1>7, <3>2
      <3> QED
        BY <1>5, <3>1, <3>3, TableUpdate DEF IInv
    <2>2. ConnInv'
      BY <1>6, <1>10, ConnUnchanged DEF IInv
    <2> QED
      BY <1>8, <2>1, <2>2 DEF IInv
  <1> QED
    BY <1>9, <1>10

LEMMA HandleSimpleOK ==
  ASSUME IInv, NEW m \in Messages, HandleSimple(m)
  PROVE  IInv'
  <1>1. ClientKey(Sender[m], Port[m])
    BY DEF ClientKey
  <1>2. WholeOrReused([from |-> Sender[m], port |-> Port[m], data |-> Payload(m)])
    BY DEF WholeOrReused
  <1>3. ConnInv'
    BY <1>1, <1>2, ForwardOK DEF IInv, HandleSimple
  <1>4. ConcatInv' /\ RelayInv'
    BY NoRelay DEF HandleSimple, IInv, ConcatInv, UniqueSlots
  <1> QED
    BY <1>3, <1>4 DEF IInv

LEMMA LoopOK == IInv /\ Loop => IInv'
  <1> SUFFICES ASSUME IInv, Loop PROVE IInv'
    OBVIOUS
  <1> DEFINE closed == Answered \cup TimedOut
  <1>1. closed \subseteq ConnSlots
    BY DEF Answered, TimedOut
  <1>2. /\ pendingConnections' = [i \in ConnSlots |-> IF i \in closed THEN ClearedConnection ELSE pendingConnections[i]]
        /\ rx' = [i \in ConnSlots |-> IF i \in closed THEN None ELSE rx[i]]
        /\ inflight' = WithoutSockets(closed)
        /\ relayed' = {RelayOf(i) : i \in Answered}
        /\ concatMessages' = CleanedTable(concatMessages)
    BY DEF Loop
  <1> HIDE DEF closed
  <1>3. ConcatInv'
    <2>1. \A s \in ConcatSlots : SlotOK(concatMessages'[s])
      BY <1>2, CleanedOK DEF IInv, ConcatInv
    <2>2. concatMessages' \in [ConcatSlots -> SlotType]
      BY <1>2, <2>1 DEF CleanedTable, SlotOK
    <2>3. \A s \in ConcatSlots : concatMessages'[s].active => concatMessages'[s] = concatMessages[s]
      BY <1>2 DEF CleanedTable, ClearedMessage
    <2>4. UniqueSlots'
      BY <2>3 DEF IInv, ConcatInv, UniqueSlots
    <2> QED
      BY <2>1, <2>2, <2>4 DEF ConcatInv
  <1>4. ConnInv'
    <2>1. ClearedConnection \in ConnectionType /\ ClearedConnection.active = FALSE
      BY ConnAssumption DEF ClearedConnection, ConnectionType, ConnAges
    <2>2. pendingConnections' \in [ConnSlots -> ConnectionType] /\ DOMAIN rx' = ConnSlots
      BY <1>2, <2>1 DEF IInv, ConnInv
    <2>3. \A i \in ConnSlots :
            /\ i \in closed => ~pendingConnections'[i].active /\ rx'[i] = None
            /\ i \notin closed => pendingConnections'[i] = pendingConnections[i] /\ rx'[i] = rx[i]
      BY <1>2, <2>1
    <2>4. \A i \in ConnSlots : ConnOK(i)' /\ RxOK(i)'
      BY <2>3 DEF IInv, ConnInv, ConnOK, RxOK
    <2>5. \A d \in inflight' : DatagramOK(d)'
      <3> TAKE d \in inflight'
      <3>1. DatagramOK(d) /\ \A i \in closed : d.addr # Ephemeral(i)
        BY <1>2 DEF WithoutSockets, IInv, ConnInv
      <3> QED
        BY <2>3, <3>1 DEF DatagramOK
    <2>6. UniqueConnections'
      BY <2>3 DEF IInv, ConnInv, UniqueConnections
    <2> QED
      BY <2>2, <2>4, <2>5, <2>6 DEF ConnInv
  <1>5. RelayInv'
    <2>1. ASSUME NEW a \in relayed'
          PROVE  /\ a = [to |-> a.to, port |-> a.port, req |-> a.req]
                 /\ IsRequest(a.req)
                 /\ a.port = a.req.port
                 /\ a.to = a.req.from \/ PortShared(a.port)
      <3>1. PICK i \in Answered : a = RelayOf(i)
        BY <1>2
      <3>2. /\ i \in ConnSlots
            /\ pendingConnections[i].active
            /\ rx[i] # None
            /\ a.to = pendingConnections[i].to
            /\ a.port = pendingConnections[i].port
            /\ a.req = rx[i]
            /\ a = [to |-> a.to, port |-> a.port, req |-> a.req]
        BY <3>1 DEF Answered, RelayOf
      <3>3. RxOK(i) /\ ConnOK(i)
        BY <3>2 DEF IInv, ConnInv
      <3>4. IsRequest(a.req) /\ a.port = a.req.port
        BY <3>2, <3>3 DEF RxOK
      <3>5. ClientKey(a.to, a.port) /\ ClientKey(a.req.from, a.port)
        BY <3>2, <3>3 DEF RxOK, ConnOK
      <3>6. a.to = a.req.from \/ PortShared(a.port)
        BY <3>5 DEF ClientKey, PortShared
      <3> QED
        BY <3>2, <3>4, <3>6
    <2> QED
      BY <2>1 DEF RelayInv, AnswerRouting
  <1> QED
    BY <1>3, <1>4, <1>5 DEF IInv

LEMMA DeliverUDPOK == IInv /\ DeliverUDP => IInv'
  <1> SUFFICES ASSUME IInv, DeliverUDP PROVE IInv'
    OBVIOUS
  <1>1. PICK d \in inflight, j \in ConnSlots :
          /\ pendingConnections[j].active
          /\ pendingConnections[j].addr = d.addr
          /\ rx' = [rx EXCEPT ![j] = d.req]
          /\ relayed' = {}
          /\ UNCHANGED <<concatMessages, pendingConnections, inflight>>
    BY DEF DeliverUDP
  <1>2. DatagramOK(d) /\ ConnOK(j)
    BY <1>1 DEF IInv, ConnInv
  <1>3. d.req.port = pendingConnections[j].port
    <2>1. pendingConnections[j].port > 0 /\ pendingConnections[j].port \in Nat /\ d.req.port \in Nat /\ d.req.port > 0
      BY <1>1, <1>2, KeyType DEF DatagramOK, ConnOK
    <2>2. CASE d.addr = d.req.port
      BY <1>1, <1>2, <2>1, <2>2, ConnAssumption DEF ConnOK, Ephemeral
    <2>3. CASE \E i \in ConnSlots : /\ d.addr = Ephemeral(i)
                                    /\ pendingConnections[i].port = d.req.port
      <3>1. PICK i \in ConnSlots : d.addr = Ephemeral(i) /\ pendingConnections[i].port = d.req.port
        BY <2>3
      <3>2. i = j
        BY <1>1, <1>2, <2>1, <3>1, ConnAssumption DEF ConnOK, Ephemeral
      <3> QED
        BY <3>1, <3>2
    <2> QED
      BY <1>2, <2>2, <2>3 DEF DatagramOK
  <1>4. \A i \in ConnSlots : RxOK(i)'
    BY <1>1, <1>2, <1>3 DEF IInv, ConnInv, RxOK, DatagramOK
  <1>5. ConnInv'
    BY <1>1, <1>4 DEF IInv, ConnInv, ConnOK, DatagramOK, UniqueConnections
  <1>6. ConcatInv' /\ RelayInv'
    BY <1>1, NoRelay DEF IInv, ConcatInv, UniqueSlots
  <1> QED
    BY <1>5, <1>6 DEF IInv

LEMMA TickOK == IInv /\ Tick => IInv'
  <1> SUFFICES ASSUME IInv, Tick PROVE IInv'
    OBVIOUS
  <1>1. ConcatInv'
    <2>1. \A s \in ConcatSlots : SlotOK(concatMessages'[s])
      BY AgedOK DEF IInv, ConcatInv, Tick
    <2>2. concatMessages' \in [ConcatSlots -> SlotType]
      BY <2>1 DEF Tick, AgedTable, SlotOK
    <2>3. \A s \in ConcatSlots : /\ concatMessages'[s].active = concatMessages[s].active
                                 /\ concatMessages'[s].refNum = concatMessages[s].refNum
                                 /\ concatMessages'[s].sender = concatMessages[s].sender
      BY DEF IInv, ConcatInv, Tick, AgedTable, OlderMessage, SlotType
    <2> QED
      BY <2>1, <2>2, <2>3 DEF IInv, ConcatInv, UniqueSlots
  <1>2. ConnInv'
    <2>1. pendingConnections \in [ConnSlots -> ConnectionType]
      BY DEF IInv, ConnInv
    <2>2. \A i \in ConnSlots :
            /\ OlderConnection(pendingConnections[i]) \in ConnectionType
            /\ pendingConnections'[i] = OlderConnection(pendingConnections[i])
      BY <2>1, ConnAssumption DEF Tick, OlderConnection, ConnectionType, ConnAges
    <2>3. \A i \in ConnSlots :
            /\ pendingConnections'[i].active = pendingConnections[i].active
            /\ pendingConnections'[i].to = pendingConnections[i].to
            /\ pendingConnections'[i].port = pendingConnections[i].port
            /\ pendingConnections'[i].addr = pendingConnections[i].addr
      BY <2>1, <2>2 DEF OlderConnection, ConnectionType
    <2>4. pendingConnections' \in [ConnSlots -> ConnectionType] /\ UNCHANGED <<rx, inflight>>
      BY <2>2 DEF Tick
    <2> QED
      BY <2>3, <2>4 DEF IInv, ConnInv, ConnOK, RxOK, DatagramOK, UniqueConnections
  <1>3. RelayInv'
    BY NoRelay DEF Tick
  <1> QED
    BY <1>1, <1>2, <1>3 DEF IInv

LEMMA StepIInv == IInv /\ [Next]_vars => IInv'
  <1> SUFFICES ASSUME IInv, [Next]_vars PROVE IInv'
    OBVIOUS
  <1>1. CASE HandleIncomingMesh
    <2>1. PICK m \in Messages : \/ \E k \in 1..Total[m] : HandleConcatPart(m, k)
                                \/ DropConcatPart(m)
                                \/ HandleSimple(m)
      BY <1>1, NumbersInRange DEF HandleIncomingMesh
    <2>2. CASE \E k \in 1..Total[m] : HandleConcatPart(m, k)
      BY <2>2, HandleConcatPartOK
    <2>3. CASE DropConcatPart(m)
      BY <2>3, NoRelay, ConnUnchanged DEF DropConcatPart, IInv, ConcatInv, UniqueSlots
    <2>4. CASE HandleSimple(m)
      BY <2>4, HandleSimpleOK
    <2> QED
      BY <2>1, <2>2, <2>3, <2>4
  <1>2. CASE Loop
    BY <1>2, LoopOK
  <1>3. CASE DeliverUDP
    BY <1>3, DeliverUDPOK
  <1>4. CASE Tick
    BY <1>4, TickOK
  <1>5. CASE UNCHANGED vars
    BY <1>5, ConnUnchanged DEF vars, IInv, ConcatInv, UniqueSlots, RelayInv, AnswerRouting
  <1> QED
    BY <1>1, <1>2, <1>3, <1>4, <1>5 DEF Next

THEOREM InductiveInvariant == Spec => []IInv
  BY InitIInv, StepIInv, PTL DEF Spec

(* The state of the gateway keeps its types; in particular the counter of  *)
(* stored parts never passes the 16 entries of partReceived.               *)
THEOREM TypeCorrect == Spec => []TypeOK
  <1>1. IInv => TypeOK
    BY IInvSuffices
  <1> QED
    BY <1>1, InductiveInvariant, PTL

(* No (refNum, sender) is collected twice and no (client, port) waits      *)
(* twice, for any number of slots and clients.                             *)
THEOREM KeysUnique == Spec => []UniqueKeys
  <1>1. IInv => UniqueKeys
    BY IInvSuffices
  <1> QED
    BY <1>1, InductiveInvariant, PTL

(* Whatever the mesh loses, repeats or reorders, every datagram sent to    *)
(* the WAPBox carries one whole message of its client, unless that client  *)
(* took a refNum twice.                                                    *)
THEOREM ForwardingWhole == Spec => []ForwardedWhole
  <1>1. IInv => ForwardedWhole
    BY IInvSuffices
  <1> QED
    BY <1>1, InductiveInvariant, PTL

(* Answers go to the port of their request, and to its client unless two   *)
(* clients share the port, for any timing of expiry, takeover and answers. *)
THEOREM RoutingCorrect == Spec => []AnswerRouting
  <1>1. IInv => AnswerRouting
    BY IInvSuffices
  <1> QED
    BY <1>1, InductiveInvariant, PTL

(* How one step may change the connection of slot i. *)
KeptOrReplaced(i) ==
  \/ /\ pendingConnections'[i].active = pendingConnections[i].active
     /\ pendingConnections'[i].to = pendingConnections[i].to
     /\ pendingConnections'[i].port = pendingConnections[i].port
     /\ rx'[i] = rx[i] \/ rx[i] = None
  \/ /\ i \in Reusable
     /\ pendingConnections'[i].active
  \/ /\ i \in Answered
     /\ RelayOf(i) \in relayed'
  \/ i \in TimedOut

LEMMA ForwardKeeps ==
  ASSUME ConnInv, NEW from, NEW port, NEW data, ForwardToWAPBox(from, port, data),
         NEW i \in ConnSlots
  PROVE  KeptOrReplaced(i)
  <1>0. pendingConnections \in [ConnSlots -> ConnectionType] /\ DOMAIN rx = ConnSlots
    BY DEF ConnInv
  <1>1. CASE RefreshDuplicate(from, port)
    BY <1>0, <1>1 DEF RefreshDuplicate, KeptOrReplaced, ConnectionType
  <1>2. CASE OpenConnection(from, port, data)
    <2>1. PICK j \in Reusable :
            /\ rx' = [rx EXCEPT ![j] = None]
            /\ \E addr \in {port, Ephemeral(j)} :
                 pendingConnections' = [pendingConnections EXCEPT ![j] =
                   [active |-> TRUE, port |-> port, to |-> from, addr |-> addr, age |-> 0]]
      BY <1>2 DEF OpenConnection
    <2>2. CASE i = j
      <3>1. PICK addr : pendingConnections' = [pendingConnections EXCEPT ![j] =
              [active |-> TRUE, port |-> port, to |-> from, addr |-> addr, age |-> 0]]
        BY <2>1
      <3>2. pendingConnections'[i] = [active |-> TRUE, port |-> port, to |-> from, addr |-> addr, age |-> 0]
        BY <1>0, <2>2, <3>1
      <3>3. pendingConnections'[i].active
        BY <3>2
      <3> QED
        BY <2>2, <3>3 DEF KeptOrReplaced
    <2>3. CASE i # j
      BY <1>0, <2>1, <2>3 DEF KeptOrReplaced
    <2> QED
      BY <2>2, <2>3
  <1>3. CASE RefuseConnection(from, port)
    BY <1>3 DEF RefuseConnection, KeptOrReplaced
  <1> QED
    BY <1>1, <1>2, <1>3 DEF ForwardToWAPBox

LEMMA StepKeeps ==
  ASSUME IInv, [Next]_vars, NEW i \in ConnSlots
  PROVE  KeptOrReplaced(i)
  <1>0. pendingConnections \in [ConnSlots -> ConnectionType] /\ DOMAIN rx = ConnSlots
    BY DEF IInv, ConnInv
  <1>1. CASE HandleIncomingMesh
    <2>1. CASE \E from, port, data : ForwardToWAPBox(from, port, data)
      BY <2>1, ForwardKeeps DEF IInv
    <2>2. CASE UNCHANGED <<pendingConnections, rx>>
      BY <2>2 DEF KeptOrReplaced
    <2> QED
      BY <1>1, <2>1, <2>2 DEF HandleIncomingMesh, HandleConcatPart, DropConcatPart, HandleSimple
  <1>2. CASE Loop
    <2>1. CASE i \in Answered
      BY <1>2, <2>1 DEF Loop, KeptOrReplaced
    <2>2. CASE i \in TimedOut
      BY <2>2 DEF KeptOrReplaced
    <2>3. CASE i \notin Answered \cup TimedOut
      BY <1>2, <2>3 DEF Loop, KeptOrReplaced
    <2> QED
      BY <2>1, <2>2, <2>3
  <1>3. CASE DeliverUDP
    BY <1>0, <1>3 DEF DeliverUDP, KeptOrReplaced
  <1>4. CASE Tick
    BY <1>0, <1>4 DEF Tick, OlderConnection, ConnectionType, KeptOrReplaced
  <1>5. CASE UNCHANGED vars
    BY <1>5 DEF vars, KeptOrReplaced
  <1> QED
    BY <1>1, <1>2, <1>3, <1>4, <1>5 DEF Next

(* No step takes the slot of a connection that waits within its 60 s. *)
THEOREM WaitingKept == Spec => WaitingConnectionKept
  <1> DEFINE Keep == \A i \in ConnSlots :
               /\ pendingConnections[i].active
               /\ ~ExpiredConnection(pendingConnections[i])
               /\ rx[i] = None
               => /\ pendingConnections'[i].active
                  /\ pendingConnections'[i].to = pendingConnections[i].to
                  /\ pendingConnections'[i].port = pendingConnections[i].port
  <1>1. IInv /\ [Next]_vars => [Keep]_vars
    <2> SUFFICES ASSUME IInv, [Next]_vars PROVE Keep
      OBVIOUS
    <2> QED
      BY StepKeeps DEF KeptOrReplaced, Reusable, Answered, TimedOut
  <1> QED
    BY <1>1, InductiveInvariant, PTL DEF Spec, WaitingConnectionKept

(* No step loses an answer that reached a socket, except the takeover of   *)
(* an expired slot.                                                        *)
THEOREM AnswersKept == Spec => AnswerNotDiscarded
  <1> DEFINE Keep == \A i \in ConnSlots :
               rx[i] # None /\ rx'[i] = None =>
                 \/ RelayOf(i) \in relayed'
                 \/ ExpiredConnection(pendingConnections[i]) /\ pendingConnections'[i].active
  <1>1. IInv /\ [Next]_vars => [Keep]_vars
    <2> SUFFICES ASSUME IInv, [Next]_vars, NEW i \in ConnSlots, rx[i] # None, rx'[i] = None
                 PROVE  \/ RelayOf(i) \in relayed'
                        \/ ExpiredConnection(pendingConnections[i]) /\ pendingConnections'[i].active
      OBVIOUS
    <2>1. pendingConnections[i].active
      BY DEF IInv, ConnInv, RxOK
    <2>2. i \in Answered /\ i \notin TimedOut
      BY <2>1 DEF Answered, TimedOut
    <2> QED
      BY <2>1, <2>2, StepKeeps DEF KeptOrReplaced, Reusable
  <1> QED
    BY <1>1, InductiveInvariant, PTL DEF Spec, AnswerNotDiscarded

============================================================================
