--------------------------- MODULE MeshNodeProofs ---------------------------
(* Why MeshNode is correct for tables of any size, any number of contacts, *)
(* messages and pings, and any width of millis().  The invariant has four  *)
(* parts: types, the ages that the clock shows, the order in which the     *)
(* inbox is emptied, and the replies that are owed.                        *)
EXTENDS MeshNode, TLAPS, FiniteSetTheorems, SequenceTheorems

Times == 0..(Wrap - 1)
SlotAges == 0..Wrap

InboxType ==
  [active : BOOLEAN, time : Times, sender : {Prefix[n] : n \in Nodes} \cup {""},
   text : Texts \cup {<<>>}, id : Nat, left : Nat, age : SlotAges]

ReplyType == [active : BOOLEAN, time : Times, sender : Nodes \cup {""}, age : SlotAges]

Taken == [id : Nat, left : Nat, aged : BOOLEAN]

Types ==
  /\ pc \in {"recv", "inbox", "replies"}
  /\ millis \in Times /\ ticks \in 0..MaxTicks
  /\ pending_inbox \in [InboxSlots -> InboxType]
  /\ pending_replies \in [ReplySlots -> ReplyType]
  /\ messages_handled \in Nat
  /\ received \in 0..MaxMessages
  /\ taken \in Seq(Taken) /\ handed \in Seq(Nat)
  /\ pings \in [Nodes -> Nat] /\ pongs \in [Nodes -> Nat]
  /\ \A s \in InboxSlots : pending_inbox[s].active =>
       pending_inbox[s].text \in Texts /\ pending_inbox[s].id \in 1..received
  /\ \A s \in ReplySlots : pending_replies[s].active => pending_replies[s].sender \in Nodes

(* millis - time, in unsigned arithmetic, is the age while it matters. *)
Elapsed(slot) == (millis - slot.time) % Wrap

Clocked(slot, limit) == slot.active /\ slot.age < limit => Elapsed(slot) = slot.age

Limits == {AckDelay + 1, Wrap}

Clocks ==
  /\ \A s \in InboxSlots : Clocked(pending_inbox[s], Wrap)
  /\ \A s \in ReplySlots : Clocked(pending_replies[s], AckDelay + 1)

ActiveSlots == {s \in InboxSlots : pending_inbox[s].active}

Id(s) == pending_inbox[s].id

OneSlotEach == \A s, t \in ActiveSlots : Id(s) = Id(t) => s = t

(* Messages of smaller numbers came earlier. *)
ByAge == \A s, t \in ActiveSlots : Id(s) < Id(t) => pending_inbox[s].age >= pending_inbox[t].age

OlderLeft(i) == \E c \in DOMAIN taken : taken[c].id < i

(* Until an older message leaves, the slots before a message hold older    *)
(* ones.                                                                   *)
Behind == \A s \in ActiveSlots : OlderLeft(Id(s)) \/ \A t \in 1..(s - 1) : t \in ActiveSlots /\ Id(t) < Id(s)

(* A later message is in an earlier slot only if an older one than both    *)
(* had left when it came.                                                  *)
InTurn ==
  \A s, t \in ActiveSlots :
    Id(s) < Id(t) => s < t \/ \E c \in 1..pending_inbox[t].left : taken[c].id < Id(s)

(* What was already taken may have overtaken a message that is queued. *)
Overtaken(s) ==
  \A a \in DOMAIN taken : taken[a].id > Id(s) =>
    (\E c \in 1..taken[a].left : taken[c].id < Id(s)) \/ pending_inbox[s].age = Wrap

Numbers ==
  /\ OneSlotEach /\ ByAge /\ Behind /\ InTurn
  /\ \A a \in DOMAIN taken : taken[a].id \in 1..received /\ taken[a].left <= Len(taken)
  /\ \A s \in ActiveSlots : pending_inbox[s].left <= Len(taken) /\ Overtaken(s)

Order == Numbers /\ OvertakenOnlyAfterRelease

IndInv == Types /\ Clocks /\ Order /\ PongsOfOwnPings

----------------------------------------------------------------------------
(* Unsigned arithmetic *)

LEMMA Difference ==
  ASSUME NEW W \in Nat \ {0}, NEW m \in 0..(W - 1), NEW t \in 0..(W - 1)
  PROVE  (m - t) % W = IF m >= t THEN m - t ELSE m - t + W
  <1> DEFINE x == m - t
  <1>1. x \in Int /\ (x \in 0..(W - 1) \/ x + W \in 0..(W - 1))
    OBVIOUS
  <1>2. x >= 0 <=> m >= t
    OBVIOUS
  <1> HIDE DEF x
  <1>3. x % W = IF x >= 0 THEN x ELSE x + W
    BY <1>1
  <1> QED
    BY <1>2, <1>3 DEF x

LEMMA Successor ==
  ASSUME NEW W \in Nat \ {0}, NEW m \in 0..(W - 1)
  PROVE  (m + 1) % W = IF m + 1 = W THEN 0 ELSE m + 1
  <1>1. CASE m + 1 = W
    <2>1. W % W = 0
      OBVIOUS
    <2> QED
      BY <1>1, <2>1
  <1>2. CASE m + 1 # W
    <2> DEFINE x == m + 1
    <2>1. x \in 0..(W - 1)
      BY <1>2
    <2> HIDE DEF x
    <2>2. x % W = x
      BY <2>1
    <2> QED
      BY <1>2, <2>2 DEF x
  <1> QED
    BY <1>1, <1>2

LEMMA WrapPositive ==
  /\ Wrap \in Nat \ {0} /\ 0 \in Times /\ 0 \in SlotAges
  /\ AckDelay \in Nat /\ MaxTicks \in Nat /\ AckDelay < Wrap
  /\ \A limit \in Limits : limit \in SlotAges /\ AckDelay < limit
  BY MeshNodeAssumption DEF Times, SlotAges, Limits

(* What the clock shows of a slot, and what it shows a tick later. *)
LEMMA ElapsedNow ==
  ASSUME millis \in Times, NEW slot, slot.time = millis
  PROVE  Elapsed(slot) = 0
  <1>1. millis - millis = 0
    BY WrapPositive DEF Times
  <1>2. 0 % Wrap = 0
    BY WrapPositive
  <1> QED
    BY <1>1, <1>2 DEF Elapsed

LEMMA ElapsedLater ==
  ASSUME millis \in Times, millis' = (millis + 1) % Wrap, NEW slot, slot.time \in Times,
         Elapsed(slot) + 1 < Wrap
  PROVE  (millis' - slot.time) % Wrap = Elapsed(slot) + 1 /\ millis' \in Times
  <1> DEFINE t == slot.time
  <1>1. t \in 0..(Wrap - 1) /\ millis \in 0..(Wrap - 1) /\ Wrap \in Nat \ {0}
    BY WrapPositive DEF Times
  <1> HIDE DEF t
  <1>2. millis' = IF millis + 1 = Wrap THEN 0 ELSE millis + 1
    BY <1>1, Successor
  <1>3. millis' \in 0..(Wrap - 1)
    BY <1>1, <1>2
  <1>4. Elapsed(slot) = IF millis >= t THEN millis - t ELSE millis - t + Wrap
    BY <1>1, Difference DEF Elapsed, t
  <1>5. (millis' - t) % Wrap = IF millis' >= t THEN millis' - t ELSE millis' - t + Wrap
    BY <1>1, <1>3, Difference
  <1>6. (millis' - t) % Wrap = Elapsed(slot) + 1
    BY <1>1, <1>2, <1>3, <1>4, <1>5
  <1> QED
    BY <1>3, <1>6 DEF t, Times

----------------------------------------------------------------------------
(* Slots *)

LEMMA ClearedTyped ==
  /\ ClearedInbox \in InboxType /\ ClearedInbox.active = FALSE
  /\ ClearedReply \in ReplyType /\ ClearedReply.active = FALSE
  <1>1. ClearedInbox \in InboxType
    BY WrapPositive DEF ClearedInbox, InboxType
  <1>2. ClearedReply \in ReplyType
    BY WrapPositive DEF ClearedReply, ReplyType
  <1> QED
    BY <1>1, <1>2 DEF ClearedInbox, ClearedReply

OlderAge(slot, limit) == IF slot.active /\ slot.age < limit THEN slot.age + 1 ELSE slot.age

LEMMA OlderAgeTyped ==
  ASSUME NEW slot, slot.age \in SlotAges, NEW limit \in Limits
  PROVE  OlderAge(slot, limit) \in SlotAges
  BY WrapPositive DEF OlderAge, SlotAges

LEMMA OlderInbox ==
  ASSUME NEW slot \in InboxType
  PROVE  /\ Older(slot, Wrap) \in InboxType
         /\ Older(slot, Wrap).active = slot.active /\ Older(slot, Wrap).time = slot.time
         /\ Older(slot, Wrap).text = slot.text /\ Older(slot, Wrap).id = slot.id
         /\ Older(slot, Wrap).left = slot.left
         /\ Older(slot, Wrap).age = OlderAge(slot, Wrap)
  <1>1. Older(slot, Wrap) = [slot EXCEPT !.age = OlderAge(slot, Wrap)]
    BY DEF Older, OlderAge
  <1>2. OlderAge(slot, Wrap) \in SlotAges
    BY OlderAgeTyped DEF Limits, InboxType
  <1> QED
    BY <1>1, <1>2 DEF InboxType

LEMMA OlderReply ==
  ASSUME NEW slot \in ReplyType
  PROVE  /\ Older(slot, AckDelay + 1) \in ReplyType
         /\ Older(slot, AckDelay + 1).active = slot.active /\ Older(slot, AckDelay + 1).time = slot.time
         /\ Older(slot, AckDelay + 1).sender = slot.sender
         /\ Older(slot, AckDelay + 1).age = OlderAge(slot, AckDelay + 1)
  <1>1. Older(slot, AckDelay + 1) = [slot EXCEPT !.age = OlderAge(slot, AckDelay + 1)]
    BY DEF Older, OlderAge
  <1>2. OlderAge(slot, AckDelay + 1) \in SlotAges
    BY OlderAgeTyped DEF Limits, ReplyType
  <1> QED
    BY <1>1, <1>2 DEF ReplyType

(* The tables as the steps change them. *)
NewInbox(n, text) ==
  [active |-> TRUE, time |-> millis, sender |-> Prefix[n], text |-> text,
   id |-> received + 1, left |-> Len(taken), age |-> 0]

NewReply(n) == [active |-> TRUE, time |-> millis, sender |-> ReplyKey(n), age |-> 0]

LEMMA NewInboxTyped ==
  ASSUME Types, NEW n \in Nodes, NEW text \in Texts
  PROVE  /\ NewInbox(n, text) \in InboxType
         /\ NewInbox(n, text).active = TRUE /\ NewInbox(n, text).text = text
         /\ NewInbox(n, text).id = received + 1 /\ NewInbox(n, text).age = 0
         /\ NewInbox(n, text).time = millis /\ NewInbox(n, text).left = Len(taken)
  <1>1. received + 1 \in Nat /\ millis \in Times /\ 0 \in SlotAges /\ Len(taken) \in Nat
    BY WrapPositive, MeshNodeAssumption DEF Types
  <1> QED
    BY <1>1 DEF NewInbox, InboxType

LEMMA NewReplyTyped ==
  ASSUME Types, NEW n \in Nodes
  PROVE  /\ NewReply(n) \in ReplyType
         /\ NewReply(n).active = TRUE /\ NewReply(n).sender = n
         /\ NewReply(n).age = 0 /\ NewReply(n).time = millis
  <1>1. millis \in Times /\ 0 \in SlotAges
    BY WrapPositive DEF Types
  <1> QED
    BY <1>1 DEF NewReply, ReplyType, ReplyKey

----------------------------------------------------------------------------
(* What a step does to the inbox *)

Stored(s, n, text) ==
  /\ s \in InboxSlots /\ n \in Nodes /\ text \in Texts
  /\ FirstFree(pending_inbox, s)
  /\ pending_inbox' = [pending_inbox EXCEPT ![s] = NewInbox(n, text)]
  /\ received' = received + 1

Leaving(s) ==
  [id |-> Id(s), left |-> pending_inbox[s].left, aged |-> pending_inbox[s].age = Wrap]

Left(s) ==
  /\ s \in InboxSlots /\ IsDue(pending_inbox, s)
  /\ pending_inbox' = Release(pending_inbox, s, ClearedInbox)
  /\ taken' = Append(taken, Leaving(s))
  /\ received' = received

LEMMA StoredSlots ==
  ASSUME Types, NEW s, NEW n, NEW text, Stored(s, n, text)
  PROVE  /\ pending_inbox' \in [InboxSlots -> InboxType]
         /\ s \notin ActiveSlots /\ ActiveSlots' = ActiveSlots \cup {s}
         /\ \A t \in InboxSlots : t < s => t \in ActiveSlots
         /\ pending_inbox'[s] = NewInbox(n, text)
         /\ \A t \in ActiveSlots : t # s /\ pending_inbox'[t] = pending_inbox[t]
  <1>1. /\ pending_inbox \in [InboxSlots -> InboxType] /\ s \in InboxSlots
        /\ NewInbox(n, text) \in InboxType /\ NewInbox(n, text).active = TRUE
    BY NewInboxTyped DEF Types, Stored
  <1>2. /\ pending_inbox' \in [InboxSlots -> InboxType]
        /\ pending_inbox'[s] = NewInbox(n, text)
        /\ \A t \in InboxSlots \ {s} : pending_inbox'[t] = pending_inbox[t]
    BY <1>1 DEF Stored
  <1>3. ~pending_inbox[s].active /\ \A t \in InboxSlots : t < s => pending_inbox[t].active
    BY <1>1 DEF Stored, FirstFree
  <1> QED
    BY <1>1, <1>2, <1>3 DEF ActiveSlots

LEMMA LeftSlots ==
  ASSUME Types, NEW s, Left(s)
  PROVE  /\ pending_inbox' \in [InboxSlots -> InboxType]
         /\ s \in ActiveSlots /\ ActiveSlots' = ActiveSlots \ {s}
         /\ Ripe(pending_inbox[s])
         /\ \A t \in ActiveSlots : Ripe(pending_inbox[t]) => s <= t
         /\ \A t \in InboxSlots \ {s} : pending_inbox'[t] = pending_inbox[t]
  <1>1. pending_inbox \in [InboxSlots -> InboxType] /\ s \in InboxSlots
    BY DEF Types, Left
  <1>2. /\ pending_inbox' \in [InboxSlots -> InboxType]
        /\ pending_inbox'[s] = ClearedInbox
        /\ \A t \in InboxSlots \ {s} : pending_inbox'[t] = pending_inbox[t]
    BY <1>1, ClearedTyped DEF Left, Release
  <1>3. DOMAIN pending_inbox = InboxSlots
    BY <1>1
  <1>4. /\ pending_inbox[s].active /\ Ripe(pending_inbox[s])
        /\ \A t \in InboxSlots : pending_inbox[t].active /\ Ripe(pending_inbox[t]) => s <= t
    BY <1>3 DEF Left, IsDue, Due, Scanned
  <1> QED
    BY <1>1, <1>2, <1>4, ClearedTyped DEF ActiveSlots

(* The actions on the inbox, in these terms. *)
Accepts ==
  /\ \E s, n, text : Stored(s, n, text)
  /\ received < MaxMessages
  /\ messages_handled' = messages_handled + 1
  /\ UNCHANGED <<pc, clock, pending_replies, taken, handed, pings, pongs>>

Drops ==
  /\ Full(pending_inbox)
  /\ received < MaxMessages /\ received' = received + 1
  /\ UNCHANGED <<pc, clock, pending_inbox, pending_replies, messages_handled, taken, handed,
                 pings, pongs>>

Takes(s) ==
  /\ pc = "inbox" /\ pc' = "replies"
  /\ Left(s)
  /\ handed' = IF Accepted(pending_inbox[s]) THEN Append(handed, Id(s)) ELSE handed
  /\ UNCHANGED <<clock, pending_replies, messages_handled, pings, pongs>>

TakesNone ==
  /\ pc = "inbox" /\ pc' = "replies" /\ Due(pending_inbox) = {}
  /\ UNCHANGED <<clock, pending_inbox, pending_replies, messages_handled, history, pings, pongs>>

Elsewhere ==
  /\ UNCHANGED <<millis, pending_inbox, history>>
  /\ \/ UNCHANGED <<pc, ticks>>
     \/ pc = "recv" /\ pc' = "inbox" /\ UNCHANGED ticks
     \/ pc = "replies" /\ pc' = "recv" /\ ticks' = 0

LEMMA MessageCases ==
  ASSUME NEW n \in Nodes, NEW text \in Texts, RecvMessage(n, text)
  PROVE  Accepts \/ Drops
  <1>1. CASE Full(pending_inbox) /\ UNCHANGED <<pending_inbox, messages_handled>>
    BY <1>1 DEF RecvMessage, Drops
  <1>2. CASE ~(Full(pending_inbox) /\ UNCHANGED <<pending_inbox, messages_handled>>)
    <2>1. \E s : Stored(s, n, text)
      BY <1>2 DEF RecvMessage, Stored, NewInbox
    <2> QED
      BY <1>2, <2>1 DEF RecvMessage, Accepts
  <1> QED
    BY <1>1, <1>2

LEMMA ProcessCases ==
  ASSUME ProcessInbox
  PROVE  TakesNone \/ \E s : Takes(s)
  <1>1. CASE Due(pending_inbox) = {}
    BY <1>1 DEF ProcessInbox, IsDue, history, TakesNone
  <1>2. CASE Due(pending_inbox) # {}
    BY <1>2 DEF ProcessInbox, Left, Leaving, Id, Takes
  <1> QED
    BY <1>1, <1>2

LEMMA InboxCases ==
  ASSUME [Next]_vars
  PROVE  Accepts \/ Drops \/ TakesNone \/ (\E s : Takes(s)) \/ Tick \/ Elsewhere
  <1>1. ASSUME \/ \E n \in Nodes : RecvPing(n) \/ RecvEmpty(n)
               \/ RecvDone \/ ProcessReplies \/ UNCHANGED vars
        PROVE  Elsewhere
    BY <1>1 DEF RecvPing, RecvEmpty, RecvDone, ProcessReplies, vars, clock, Elsewhere
  <1> QED
    BY <1>1, MessageCases, ProcessCases DEF Next, Loop

----------------------------------------------------------------------------
(* Types *)

LEMMA TypesInit == Init => Types
  <1> SUFFICES ASSUME Init PROVE Types
    OBVIOUS
  <1>1. /\ pending_inbox \in [InboxSlots -> InboxType]
        /\ pending_replies \in [ReplySlots -> ReplyType]
        /\ \A s \in InboxSlots : pending_inbox[s].active = FALSE
        /\ \A s \in ReplySlots : pending_replies[s].active = FALSE
    BY ClearedTyped DEF Init
  <1>2. taken \in Seq(Taken) /\ handed \in Seq(Nat)
    BY DEF Init
  <1>3. /\ millis \in Times /\ ticks \in 0..MaxTicks /\ received \in 0..MaxMessages
        /\ messages_handled \in Nat
    BY WrapPositive, MeshNodeAssumption DEF Init
  <1>4. pings \in [Nodes -> Nat] /\ pongs \in [Nodes -> Nat]
    BY DEF Init
  <1>5. pc \in {"recv", "inbox", "replies"}
    BY DEF Init
  <1> QED
    BY <1>1, <1>2, <1>3, <1>4, <1>5 DEF Types

(* The table of replies after a ping, and after a reply has left. *)
LEMMA ReplyStored ==
  ASSUME Types, NEW n \in Nodes, NEW s \in ReplySlots, FirstFree(pending_replies, s),
         pending_replies' = [pending_replies EXCEPT ![s] = NewReply(n)]
  PROVE  /\ pending_replies' \in [ReplySlots -> ReplyType]
         /\ ~pending_replies[s].active /\ pending_replies'[s] = NewReply(n)
         /\ \A t \in ReplySlots \ {s} : pending_replies'[t] = pending_replies[t]
  <1>1. pending_replies \in [ReplySlots -> ReplyType] /\ NewReply(n) \in ReplyType
    BY NewReplyTyped DEF Types
  <1> QED
    BY <1>1 DEF FirstFree

LEMMA ReplyLeft ==
  ASSUME Types, NEW s \in ReplySlots, IsDue(pending_replies, s),
         pending_replies' = Release(pending_replies, s, ClearedReply)
  PROVE  /\ pending_replies' \in [ReplySlots -> ReplyType]
         /\ pending_replies[s].active /\ Ripe(pending_replies[s])
         /\ pending_replies'[s].active = FALSE
         /\ \A t \in ReplySlots \ {s} : pending_replies'[t] = pending_replies[t]
  <1>1. pending_replies \in [ReplySlots -> ReplyType]
    BY DEF Types
  <1>2. pending_replies[s].active /\ Ripe(pending_replies[s])
    BY DEF IsDue, Due
  <1> QED
    BY <1>1, <1>2, ClearedTyped DEF Release

(* The tables a tick later. *)
LEMMA TickTables ==
  ASSUME Types, Tick
  PROVE  /\ pending_inbox' \in [InboxSlots -> InboxType]
         /\ pending_replies' \in [ReplySlots -> ReplyType]
         /\ \A s \in InboxSlots : pending_inbox'[s] = Older(pending_inbox[s], Wrap)
         /\ \A s \in ReplySlots : pending_replies'[s] = Older(pending_replies[s], AckDelay + 1)
         /\ ActiveSlots' = ActiveSlots
         /\ \A s \in InboxSlots : Id(s)' = Id(s)
         /\ millis' \in Times
  <1>1. /\ pending_inbox \in [InboxSlots -> InboxType]
        /\ pending_replies \in [ReplySlots -> ReplyType]
        /\ millis \in 0..(Wrap - 1)
    BY DEF Types, Times
  <1>2. /\ pending_inbox' = [s \in InboxSlots |-> Older(pending_inbox[s], Wrap)]
        /\ pending_replies' = [s \in ReplySlots |-> Older(pending_replies[s], AckDelay + 1)]
        /\ millis' = (millis + 1) % Wrap
    BY DEF Tick
  <1>3. \A s \in InboxSlots : /\ Older(pending_inbox[s], Wrap) \in InboxType
                               /\ Older(pending_inbox[s], Wrap).active = pending_inbox[s].active
                               /\ Older(pending_inbox[s], Wrap).id = pending_inbox[s].id
    BY <1>1, OlderInbox
  <1>4. \A s \in ReplySlots : Older(pending_replies[s], AckDelay + 1) \in ReplyType
    BY <1>1, OlderReply
  <1>5. pending_inbox' \in [InboxSlots -> InboxType]
    BY <1>2, <1>3
  <1>6. pending_replies' \in [ReplySlots -> ReplyType]
    BY <1>2, <1>4
  <1>7. \A s \in InboxSlots : pending_inbox'[s] = Older(pending_inbox[s], Wrap)
    BY <1>2
  <1>8. \A s \in ReplySlots : pending_replies'[s] = Older(pending_replies[s], AckDelay + 1)
    BY <1>2
  <1>9. ActiveSlots' = ActiveSlots /\ \A s \in InboxSlots : Id(s)' = Id(s)
    BY <1>3, <1>7 DEF ActiveSlots, Id
  <1>10. millis' \in Times
    BY <1>1, <1>2, WrapPositive, Successor DEF Times
  <1> QED
    BY <1>5, <1>6, <1>7, <1>8, <1>9, <1>10

LEMMA TypesStep ==
  ASSUME Types, [Next]_vars
  PROVE  Types'
  <1>0. /\ received \in Nat /\ MaxMessages \in Nat /\ messages_handled \in Nat
        /\ 0 \in 0..MaxTicks
    BY WrapPositive, MeshNodeAssumption DEF Types
  <1>1. ASSUME Accepts
        PROVE  Types'
    <2>0. PICK s, n, text : Stored(s, n, text)
      BY <1>1 DEF Accepts
    <2>1. /\ pending_inbox' \in [InboxSlots -> InboxType]
          /\ ActiveSlots' = ActiveSlots \cup {s}
          /\ pending_inbox'[s] = NewInbox(n, text)
          /\ \A t \in ActiveSlots : pending_inbox'[t] = pending_inbox[t]
      BY <2>0, StoredSlots
    <2>2. NewInbox(n, text).text \in Texts /\ NewInbox(n, text).id = received + 1
      BY <2>0, NewInboxTyped DEF Stored
    <2>3. received' \in 0..MaxMessages /\ received' = received + 1
      BY <1>0, <1>1, <2>0 DEF Stored, Accepts
    <2>4. ASSUME NEW t \in InboxSlots, pending_inbox'[t].active
          PROVE  pending_inbox'[t].text \in Texts /\ pending_inbox'[t].id \in 1..received'
      <3>1. t \in ActiveSlots'
        BY <2>4 DEF ActiveSlots
      <3>2. CASE t = s
        BY <1>0, <2>1, <2>2, <2>3, <3>2
      <3>3. CASE t \in ActiveSlots
        <4>1. pending_inbox[t].text \in Texts /\ pending_inbox[t].id \in 1..received
          BY <3>3 DEF Types, ActiveSlots
        <4> QED
          BY <1>0, <2>1, <2>3, <3>3, <4>1
      <3> QED
        BY <2>1, <3>1, <3>2, <3>3
    <2> QED
      BY <1>0, <1>1, <2>1, <2>3, <2>4 DEF Types, clock, Accepts
  <1>2. ASSUME Drops
        PROVE  Types'
    <2>1. received' \in 0..MaxMessages /\ \A i \in 1..received : i \in 1..received'
      BY <1>0, <1>2 DEF Drops
    <2> QED
      BY <1>2, <2>1 DEF Types, clock, Drops
  <1>3. ASSUME NEW s, Takes(s)
        PROVE  Types'
    <2>0. Left(s) /\ received' = received /\ taken' = Append(taken, Leaving(s))
      BY <1>3 DEF Takes, Left
    <2>1. /\ pending_inbox' \in [InboxSlots -> InboxType]
          /\ s \in ActiveSlots /\ ActiveSlots' = ActiveSlots \ {s}
          /\ \A t \in InboxSlots \ {s} : pending_inbox'[t] = pending_inbox[t]
      BY <2>0, LeftSlots
    <2>2. Leaving(s) \in Taken /\ Id(s) \in Nat
      <3>1. pending_inbox[s] \in InboxType
        BY <2>1 DEF Types, ActiveSlots
      <3>2. pending_inbox[s].id \in Nat /\ pending_inbox[s].left \in Nat
        BY <3>1 DEF InboxType
      <3> QED
        BY <3>2 DEF Leaving, Taken, Id
    <2>3. taken' \in Seq(Taken)
      BY <2>0, <2>2, AppendProperties DEF Types
    <2>4. handed' \in Seq(Nat)
      <3>1. handed' = handed \/ handed' = Append(handed, Id(s))
        BY <1>3 DEF Takes
      <3>2. handed \in Seq(Nat)
        BY DEF Types
      <3> QED
        BY <2>2, <3>1, <3>2, AppendProperties
    <2>5. ASSUME NEW t \in InboxSlots, pending_inbox'[t].active
          PROVE  pending_inbox'[t].text \in Texts /\ pending_inbox'[t].id \in 1..received'
      <3>1. t \in ActiveSlots \ {s}
        BY <2>1, <2>5 DEF ActiveSlots
      <3> QED
        BY <2>0, <2>1, <3>1 DEF Types, ActiveSlots
    <2> QED
      BY <1>3, <2>0, <2>1, <2>3, <2>4, <2>5 DEF Types, clock, Takes
  <1>4. ASSUME TakesNone
        PROVE  Types'
    BY <1>4 DEF Types, clock, history, TakesNone
  <1>5. CASE Tick
    <2>1. /\ pending_inbox' \in [InboxSlots -> InboxType]
          /\ pending_replies' \in [ReplySlots -> ReplyType]
          /\ \A s \in InboxSlots : pending_inbox'[s] = Older(pending_inbox[s], Wrap)
          /\ \A s \in ReplySlots : pending_replies'[s] = Older(pending_replies[s], AckDelay + 1)
          /\ millis' \in Times
      BY <1>5, TickTables
    <2>2. ASSUME NEW s \in InboxSlots
          PROVE  /\ pending_inbox'[s].active = pending_inbox[s].active
                 /\ pending_inbox'[s].text = pending_inbox[s].text
                 /\ pending_inbox'[s].id = pending_inbox[s].id
      BY <2>1, OlderInbox DEF Types
    <2>3. ASSUME NEW s \in ReplySlots
          PROVE  /\ pending_replies'[s].active = pending_replies[s].active
                 /\ pending_replies'[s].sender = pending_replies[s].sender
      BY <2>1, OlderReply DEF Types
    <2>4. ticks' \in 0..MaxTicks
      BY <1>5, WrapPositive DEF Tick, Types
    <2>5. UNCHANGED <<pc, messages_handled, received, taken, handed, pings, pongs>>
      BY <1>5 DEF Tick, history
    <2> QED
      BY <2>1, <2>2, <2>3, <2>4, <2>5 DEF Types
  <1>6. ASSUME NEW n \in Nodes, RecvPing(n)
        PROVE  Types'
    <2>1. pings' \in [Nodes -> Nat]
      BY <1>6 DEF RecvPing, Types
    <2>2. /\ pending_replies' \in [ReplySlots -> ReplyType]
          /\ \A s \in ReplySlots : pending_replies'[s].active => pending_replies'[s].sender \in Nodes
      <3>1. CASE UNCHANGED pending_replies
        BY <3>1 DEF Types
      <3>2. ASSUME NEW s \in ReplySlots, FirstFree(pending_replies, s),
                   pending_replies' = [pending_replies EXCEPT ![s] = NewReply(n)]
            PROVE  /\ pending_replies' \in [ReplySlots -> ReplyType]
                   /\ \A t \in ReplySlots : pending_replies'[t].active =>
                        pending_replies'[t].sender \in Nodes
        <4>1. NewReply(n).sender = n
          BY NewReplyTyped
        <4> QED
          BY <3>2, <4>1, ReplyStored DEF Types
      <3> QED
        BY <1>6, <3>1, <3>2 DEF RecvPing, NewReply
    <2> QED
      BY <1>0, <1>6, <2>1, <2>2 DEF RecvPing, Types, clock, history
  <1>7. ASSUME NEW n \in Nodes, RecvEmpty(n)
        PROVE  Types'
    BY <1>0, <1>7 DEF RecvEmpty, Types, clock, history
  <1>8. CASE RecvDone
    BY <1>8 DEF RecvDone, Types, clock, history
  <1>9. CASE ProcessReplies
    <2>1. CASE UNCHANGED <<pending_replies, pongs>>
      BY <1>0, <1>9, <2>1 DEF ProcessReplies, Types, history
    <2>2. ASSUME NEW s \in ReplySlots, IsDue(pending_replies, s),
                 pending_replies' = Release(pending_replies, s, ClearedReply),
                 \/ pongs' = [pongs EXCEPT ![ReplyTo(pending_replies[s].sender)] = @ + 1]
                 \/ UNCHANGED pongs
          PROVE  Types'
      <3>1. /\ pending_replies' \in [ReplySlots -> ReplyType]
            /\ pending_replies'[s].active = FALSE
            /\ \A t \in ReplySlots \ {s} : pending_replies'[t] = pending_replies[t]
        BY <2>2, ReplyLeft
      <3>2. pongs' \in [Nodes -> Nat]
        <4>1. pending_replies[s].sender \in Nodes /\ pongs \in [Nodes -> Nat]
          BY <2>2, ReplyLeft DEF Types
        <4> QED
          BY <2>2, <4>1 DEF ReplyTo
      <3>3. \A t \in ReplySlots : pending_replies'[t].active => pending_replies'[t].sender \in Nodes
        BY <3>1 DEF Types
      <3> QED
        BY <1>0, <1>9, <3>1, <3>2, <3>3 DEF ProcessReplies, Types, history
    <2> QED
      BY <1>9, <2>1, <2>2 DEF ProcessReplies
  <1>10. CASE UNCHANGED vars
    BY <1>10 DEF vars, clock, history, Types
  <1>11. CASE ProcessInbox \/ \E n \in Nodes, text \in Texts : RecvMessage(n, text)
    BY <1>1, <1>2, <1>3, <1>4, <1>11, MessageCases, ProcessCases
  <1> QED
    BY <1>5, <1>6, <1>7, <1>8, <1>9, <1>10, <1>11 DEF Next, Loop

----------------------------------------------------------------------------
(* The clock and the ages *)

LEMMA TickClocked ==
  ASSUME millis \in Times, millis' = (millis + 1) % Wrap, NEW limit \in Limits,
         NEW slot, slot.time \in Times, slot.age \in SlotAges, Clocked(slot, limit),
         NEW new, new.active = slot.active, new.time = slot.time, new.age = OlderAge(slot, limit)
  PROVE  new.active /\ new.age < limit => (millis' - new.time) % Wrap = new.age
  <1> SUFFICES ASSUME slot.active, OlderAge(slot, limit) < limit
               PROVE  (millis' - slot.time) % Wrap = OlderAge(slot, limit)
    OBVIOUS
  <1>0. limit \in Nat /\ limit <= Wrap /\ Wrap \in Nat
    BY WrapPositive DEF SlotAges
  <1>1. slot.age < limit /\ OlderAge(slot, limit) = slot.age + 1 /\ slot.age \in Nat
    BY <1>0 DEF OlderAge, SlotAges
  <1>2. Elapsed(slot) = slot.age
    BY <1>1 DEF Clocked
  <1>3. Elapsed(slot) + 1 < Wrap
    BY <1>0, <1>1, <1>2
  <1> QED
    BY <1>1, <1>2, <1>3, ElapsedLater

LEMMA InboxClocks ==
  ASSUME Types, \A s \in InboxSlots : Clocked(pending_inbox[s], Wrap), [Next]_vars,
         NEW s \in InboxSlots
  PROVE  Clocked(pending_inbox[s], Wrap)'
  <1>1. CASE Accepts
    <2>1. PICK u, n, text : Stored(u, n, text)
      BY <1>1 DEF Accepts
    <2>2. /\ ActiveSlots' = ActiveSlots \cup {u}
          /\ pending_inbox'[u] = NewInbox(n, text)
          /\ \A t \in ActiveSlots : pending_inbox'[t] = pending_inbox[t]
      BY <2>1, StoredSlots
    <2>3. millis' = millis /\ millis \in Times
      BY <1>1 DEF Accepts, clock, Types
    <2>4. CASE s = u
      <3>1. NewInbox(n, text).age = 0 /\ NewInbox(n, text).time = millis
        BY <2>1, NewInboxTyped DEF Stored
      <3>2. Elapsed(NewInbox(n, text)) = 0
        BY <2>3, <3>1, ElapsedNow
      <3> QED
        BY <2>2, <2>3, <2>4, <3>1, <3>2 DEF Clocked, Elapsed
    <2>5. CASE s \in ActiveSlots
      BY <2>2, <2>3, <2>5 DEF Clocked, Elapsed
    <2>6. CASE s \notin ActiveSlots'
      BY <2>6 DEF Clocked, ActiveSlots
    <2> QED
      BY <2>2, <2>4, <2>5, <2>6
  <1>2. ASSUME NEW u, Takes(u)
        PROVE  Clocked(pending_inbox[s], Wrap)'
    <2>1. /\ ActiveSlots' = ActiveSlots \ {u}
          /\ \A t \in InboxSlots \ {u} : pending_inbox'[t] = pending_inbox[t]
      BY <1>2, LeftSlots DEF Takes
    <2>2. millis' = millis
      BY <1>2 DEF Takes, clock
    <2>3. CASE s # u
      BY <2>1, <2>2, <2>3 DEF Clocked, Elapsed
    <2>4. CASE s \notin ActiveSlots'
      BY <2>4 DEF Clocked, ActiveSlots
    <2> QED
      BY <2>1, <2>3, <2>4
  <1>3. CASE Tick
    <2>1. pending_inbox'[s] = Older(pending_inbox[s], Wrap) /\ pending_inbox[s] \in InboxType
      BY <1>3, TickTables DEF Types
    <2>2. /\ pending_inbox'[s].active = pending_inbox[s].active
          /\ pending_inbox'[s].time = pending_inbox[s].time
          /\ pending_inbox'[s].age = OlderAge(pending_inbox[s], Wrap)
          /\ pending_inbox[s].time \in Times /\ pending_inbox[s].age \in SlotAges
      <3>1. pending_inbox[s].time \in Times /\ pending_inbox[s].age \in SlotAges
        BY <2>1 DEF InboxType
      <3> QED
        BY <2>1, <3>1, OlderInbox
    <2>3. millis' = (millis + 1) % Wrap /\ millis \in Times
      BY <1>3 DEF Tick, Types
    <2> QED
      BY <2>2, <2>3, TickClocked DEF Clocked, Elapsed, Limits
  <1>4. CASE Drops \/ TakesNone \/ Elsewhere
    BY <1>4 DEF Drops, TakesNone, Elsewhere, clock, Clocked, Elapsed
  <1> QED
    BY <1>1, <1>2, <1>3, <1>4, InboxCases

LEMMA ReplyClocks ==
  ASSUME Types, \A s \in ReplySlots : Clocked(pending_replies[s], AckDelay + 1), [Next]_vars,
         NEW s \in ReplySlots
  PROVE  Clocked(pending_replies[s], AckDelay + 1)'
  <1>0. millis \in Times
    BY DEF Types
  <1>1. ASSUME UNCHANGED <<millis, pending_replies>>
        PROVE  Clocked(pending_replies[s], AckDelay + 1)'
    BY <1>1 DEF Clocked, Elapsed
  <1>2. ASSUME NEW n \in Nodes, RecvPing(n)
        PROVE  Clocked(pending_replies[s], AckDelay + 1)'
    <2>1. millis' = millis
      BY <1>2 DEF RecvPing, clock
    <2>2. ASSUME NEW u \in ReplySlots, FirstFree(pending_replies, u),
                 pending_replies' = [pending_replies EXCEPT ![u] = NewReply(n)]
          PROVE  Clocked(pending_replies[s], AckDelay + 1)'
      <3>1. /\ pending_replies'[u] = NewReply(n)
            /\ \A t \in ReplySlots \ {u} : pending_replies'[t] = pending_replies[t]
        BY <2>2, ReplyStored
      <3>2. NewReply(n).age = 0 /\ NewReply(n).time = millis
        BY NewReplyTyped
      <3>3. Elapsed(NewReply(n)) = 0
        BY <1>0, <3>2, ElapsedNow
      <3> QED
        BY <2>1, <3>1, <3>2, <3>3 DEF Clocked, Elapsed
    <2> QED
      BY <1>1, <1>2, <2>1, <2>2 DEF RecvPing, NewReply
  <1>3. CASE ProcessReplies
    <2>1. millis' = millis
      BY <1>3 DEF ProcessReplies
    <2>2. ASSUME NEW u \in ReplySlots, IsDue(pending_replies, u),
                 pending_replies' = Release(pending_replies, u, ClearedReply)
          PROVE  Clocked(pending_replies[s], AckDelay + 1)'
      <3>1. /\ pending_replies'[u].active = FALSE
            /\ \A t \in ReplySlots \ {u} : pending_replies'[t] = pending_replies[t]
        BY <2>2, ReplyLeft
      <3> QED
        BY <2>1, <3>1 DEF Clocked, Elapsed
    <2> QED
      BY <1>1, <1>3, <2>1, <2>2 DEF ProcessReplies
  <1>4. CASE Tick
    <2>1. pending_replies'[s] = Older(pending_replies[s], AckDelay + 1) /\ pending_replies[s] \in ReplyType
      BY <1>4, TickTables DEF Types
    <2>2. /\ pending_replies'[s].active = pending_replies[s].active
          /\ pending_replies'[s].time = pending_replies[s].time
          /\ pending_replies'[s].age = OlderAge(pending_replies[s], AckDelay + 1)
          /\ pending_replies[s].time \in Times /\ pending_replies[s].age \in SlotAges
      <3>1. pending_replies[s].time \in Times /\ pending_replies[s].age \in SlotAges
        BY <2>1 DEF ReplyType
      <3> QED
        BY <2>1, <3>1, OlderReply
    <2>3. millis' = (millis + 1) % Wrap
      BY <1>4 DEF Tick
    <2> QED
      BY <1>0, <2>2, <2>3, TickClocked DEF Clocked, Elapsed, Limits
  <1>5. CASE \/ \E n \in Nodes : RecvEmpty(n)
             \/ \E n \in Nodes, text \in Texts : RecvMessage(n, text)
             \/ RecvDone \/ ProcessInbox \/ UNCHANGED vars
    BY <1>1, <1>5 DEF RecvEmpty, RecvMessage, RecvDone, ProcessInbox, clock, vars
  <1> QED
    BY <1>2, <1>3, <1>4, <1>5 DEF Next, Loop

LEMMA ClocksStep ==
  ASSUME Types, Clocks, [Next]_vars
  PROVE  Clocks'
  <1>1. ASSUME NEW s \in InboxSlots PROVE Clocked(pending_inbox[s], Wrap)'
    BY InboxClocks DEF Clocks
  <1>2. ASSUME NEW s \in ReplySlots PROVE Clocked(pending_replies[s], AckDelay + 1)'
    BY ReplyClocks DEF Clocks
  <1> QED
    BY <1>1, <1>2 DEF Clocks

(* A slot that is found ripe has waited. *)
LEMMA RipeIsOld ==
  ASSUME NEW limit \in Limits,
         NEW slot, slot.active, slot.age \in SlotAges, Clocked(slot, limit), Ripe(slot)
  PROVE  slot.age > AckDelay
  <1>1. slot.age \in Nat /\ limit \in Nat /\ AckDelay \in Nat /\ AckDelay < limit
    BY WrapPositive DEF SlotAges
  <1>2. CASE slot.age < limit
    BY <1>1, <1>2 DEF Clocked, Ripe, Elapsed
  <1> QED
    BY <1>1, <1>2

(* Conversely, but for a message that waited for the whole range.          *)
LEMMA OldIsRipe ==
  ASSUME NEW slot, slot.active, slot.age \in SlotAges, slot.age # Wrap, slot.age > AckDelay,
         Clocked(slot, Wrap)
  PROVE  Ripe(slot)
  <1>1. slot.age < Wrap
    BY WrapPositive DEF SlotAges
  <1> QED
    BY <1>1 DEF Clocked, Ripe, Elapsed

----------------------------------------------------------------------------
(* The order of the messages *)

(* The numbers of the queued messages, and of those that left. *)
LEMMA NumbersTyped ==
  ASSUME Types
  PROVE  /\ received \in Nat /\ taken \in Seq(Taken)
         /\ Len(taken) \in Nat /\ DOMAIN taken = 1..Len(taken)
         /\ \A a \in DOMAIN taken : taken[a].id \in Nat /\ taken[a].left \in Nat
         /\ \A s \in ActiveSlots : /\ s \in InboxSlots /\ Id(s) \in Nat /\ Id(s) \in 1..received
                                   /\ pending_inbox[s].age \in SlotAges
                                   /\ pending_inbox[s].left \in Nat /\ s \in Nat
  <1>1. received \in Nat /\ taken \in Seq(Taken)
    BY MeshNodeAssumption DEF Types
  <1>4. \A a \in DOMAIN taken : taken[a].id \in Nat /\ taken[a].left \in Nat
    <2>1. \A a \in DOMAIN taken : taken[a] \in Taken
      BY <1>1
    <2> QED
      BY <2>1 DEF Taken
  <1>5. \A s \in InboxSlots : s \in Nat
    BY MeshNodeAssumption DEF InboxSlots
  <1>2. ASSUME NEW s \in ActiveSlots
        PROVE  /\ s \in InboxSlots /\ Id(s) \in 1..received /\ pending_inbox[s].age \in SlotAges
               /\ pending_inbox[s].left \in Nat
    <2>1. s \in InboxSlots /\ pending_inbox[s].active
      BY DEF ActiveSlots
    <2>2. Id(s) \in 1..received
      BY <2>1 DEF Types, Id
    <2>3. pending_inbox[s] \in InboxType
      BY <2>1 DEF Types
    <2>4. pending_inbox[s].age \in SlotAges /\ pending_inbox[s].left \in Nat
      BY <2>3 DEF InboxType
    <2> QED
      BY <2>1, <2>2, <2>4
  <1>3. \A s \in ActiveSlots : Id(s) \in Nat
    BY <1>1, <1>2
  <1>6. Len(taken) \in Nat /\ DOMAIN taken = 1..Len(taken)
    BY <1>1
  <1> QED
    BY <1>1, <1>2, <1>3, <1>4, <1>5, <1>6

LEMMA NumbersAccepts ==
  ASSUME Types, Numbers, Accepts
  PROVE  Numbers'
  <1>0. PICK s, n, text : Stored(s, n, text)
    BY DEF Accepts
  <1>1. /\ s \in InboxSlots /\ s \notin ActiveSlots /\ ActiveSlots' = ActiveSlots \cup {s}
        /\ \A t \in InboxSlots : t < s => t \in ActiveSlots
        /\ pending_inbox'[s] = NewInbox(n, text)
        /\ \A t \in ActiveSlots : pending_inbox'[t] = pending_inbox[t]
    BY <1>0, StoredSlots DEF Stored
  <1>2. /\ Id(s)' = received + 1 /\ pending_inbox'[s].age = 0
        /\ pending_inbox'[s].left = Len(taken)
        /\ \A t \in ActiveSlots : /\ Id(t)' = Id(t) /\ pending_inbox'[t].age = pending_inbox[t].age
                                  /\ pending_inbox'[t].left = pending_inbox[t].left
    <2>1. /\ NewInbox(n, text).id = received + 1 /\ NewInbox(n, text).age = 0
          /\ NewInbox(n, text).left = Len(taken)
      BY <1>0, NewInboxTyped DEF Stored
    <2>2. Id(s)' = received + 1 /\ pending_inbox'[s].age = 0 /\ pending_inbox'[s].left = Len(taken)
      BY <1>1, <2>1 DEF Id
    <2>3. \A t \in ActiveSlots : /\ Id(t)' = Id(t) /\ pending_inbox'[t].age = pending_inbox[t].age
                                /\ pending_inbox'[t].left = pending_inbox[t].left
      BY <1>1 DEF Id
    <2> QED
      BY <2>2, <2>3
  <1>3. taken' = taken /\ received' = received + 1
    BY <1>0 DEF Accepts, Stored
  <1>4. /\ received \in Nat
        /\ \A a \in DOMAIN taken : taken[a].id \in 1..received /\ taken[a].left <= Len(taken)
        /\ \A t \in ActiveSlots : Id(t) \in 1..received /\ pending_inbox[t].age \in SlotAges
        /\ Len(taken) \in Nat /\ DOMAIN taken = 1..Len(taken)
        /\ s \in Nat /\ \A t \in ActiveSlots : t \in Nat
    BY <1>1, NumbersTyped, MeshNodeAssumption DEF Numbers, InboxSlots
  <1>5. OneSlotEach'
    <2> SUFFICES ASSUME NEW x \in ActiveSlots', NEW y \in ActiveSlots', Id(x)' = Id(y)'
                 PROVE  x = y
      BY DEF OneSlotEach
    <2> QED
      BY <1>1, <1>2, <1>4 DEF Numbers, OneSlotEach
  <1>6. ByAge'
    <2> SUFFICES ASSUME NEW x \in ActiveSlots', NEW y \in ActiveSlots', Id(x)' < Id(y)'
                 PROVE  pending_inbox'[x].age >= pending_inbox'[y].age
      BY DEF ByAge
    <2>1. x \in ActiveSlots
      BY <1>1, <1>2, <1>4
    <2>2. CASE y = s
      BY <1>2, <1>4, <2>1, <2>2 DEF SlotAges
    <2>3. CASE y \in ActiveSlots
      BY <1>2, <2>1, <2>3 DEF Numbers, ByAge
    <2> QED
      BY <1>1, <2>2, <2>3
  <1>7. Behind'
    <2> SUFFICES ASSUME NEW x \in ActiveSlots'
                 PROVE  OlderLeft(Id(x))' \/ \A t \in 1..(x - 1) : t \in ActiveSlots' /\ Id(t)' < Id(x)'
      BY DEF Behind
    <2>1. CASE x = s
      <3>1. ASSUME NEW t \in 1..(s - 1)
            PROVE  t \in ActiveSlots
        BY <1>1, <3>1, MeshNodeAssumption DEF InboxSlots
      <3> QED
        BY <1>1, <1>2, <1>4, <2>1, <3>1
    <2>2. CASE x \in ActiveSlots
      <3>1. OlderLeft(Id(x)) \/ \A t \in 1..(x - 1) : t \in ActiveSlots /\ Id(t) < Id(x)
        BY <2>2 DEF Numbers, Behind
      <3>2. OlderLeft(Id(x)) => OlderLeft(Id(x))'
        BY <1>2, <1>3, <2>2 DEF OlderLeft
      <3> QED
        BY <1>1, <1>2, <2>2, <3>1, <3>2
    <2> QED
      BY <1>1, <2>1, <2>2
  <1>8. \A a \in DOMAIN taken' : taken'[a].id \in 1..received' /\ taken'[a].left <= Len(taken')
    BY <1>3, <1>4
  <1>9. ASSUME NEW x \in ActiveSlots'
        PROVE  pending_inbox'[x].left <= Len(taken') /\ Overtaken(x)'
    <2>1. CASE x = s
      BY <1>2, <1>3, <1>4, <2>1 DEF Overtaken
    <2>2. CASE x \in ActiveSlots
      BY <1>2, <1>3, <2>2 DEF Numbers, Overtaken
    <2> QED
      BY <1>1, <2>1, <2>2
  <1>10. InTurn'
    <2> SUFFICES ASSUME NEW x \in ActiveSlots', NEW y \in ActiveSlots', Id(x)' < Id(y)', ~(x < y)
                 PROVE  \E c \in 1..pending_inbox'[y].left : taken'[c].id < Id(x)'
      BY DEF InTurn
    <2>1. x \in ActiveSlots
      BY <1>1, <1>2, <1>4
    <2>2. CASE y = s
      <3>1. y \in 1..(x - 1) /\ y \notin ActiveSlots
        BY <1>1, <1>4, <2>1, <2>2, MeshNodeAssumption DEF InboxSlots
      <3>2. OlderLeft(Id(x))
        BY <2>1, <3>1 DEF Numbers, Behind
      <3> QED
        BY <1>2, <1>3, <1>4, <2>1, <2>2, <3>2 DEF OlderLeft
    <2>3. CASE y \in ActiveSlots
      BY <1>2, <1>3, <2>1, <2>3 DEF Numbers, InTurn
    <2> QED
      BY <1>1, <2>2, <2>3
  <1> QED
    BY <1>5, <1>6, <1>7, <1>8, <1>9, <1>10 DEF Numbers

(* A message that is overtaken from a later slot has waited for the whole  *)
(* range of millis(): else it would have been found ripe first.            *)
LEMMA PassedOverIsAged ==
  ASSUME Types, Clocks, Order, NEW u, Takes(u), NEW s \in ActiveSlots, Id(s) < Id(u), s < u
  PROVE  pending_inbox[s].age = Wrap
  <1>1. /\ u \in ActiveSlots /\ Ripe(pending_inbox[u])
        /\ \A t \in ActiveSlots : Ripe(pending_inbox[t]) => u <= t
    BY LeftSlots DEF Takes
  <1>2. /\ pending_inbox[u].age \in SlotAges /\ pending_inbox[s].age \in SlotAges
        /\ s \in Nat /\ u \in Nat /\ Wrap \in Limits
    BY <1>1, NumbersTyped DEF Limits
  <1>3. /\ pending_inbox[u].active /\ Clocked(pending_inbox[u], Wrap)
        /\ pending_inbox[s].active /\ Clocked(pending_inbox[s], Wrap)
    BY <1>1 DEF ActiveSlots, Clocks
  <1>4. pending_inbox[u].age > AckDelay
    BY <1>1, <1>2, <1>3, RipeIsOld
  <1>5. pending_inbox[s].age > AckDelay
    <2>1. pending_inbox[s].age >= pending_inbox[u].age
      BY <1>1 DEF Order, Numbers, ByAge
    <2> QED
      BY <1>2, <1>4, <2>1, WrapPositive DEF SlotAges
  <1>6. ~Ripe(pending_inbox[s])
    BY <1>1, <1>2
  <1> QED
    BY <1>2, <1>3, <1>5, <1>6, OldIsRipe

LEMMA TakenAppended ==
  ASSUME Types, NEW u, Takes(u)
  PROVE  /\ u \in ActiveSlots /\ ActiveSlots' = ActiveSlots \ {u}
         /\ \A t \in ActiveSlots' : t \in ActiveSlots /\ t # u /\ pending_inbox'[t] = pending_inbox[t]
         /\ received' = received
         /\ Len(taken') = Len(taken) + 1 /\ DOMAIN taken' = 1..(Len(taken) + 1)
         /\ \A a \in DOMAIN taken : a \in DOMAIN taken' /\ taken'[a] = taken[a]
         /\ taken'[Len(taken) + 1].id = Id(u)
         /\ taken'[Len(taken) + 1].left = pending_inbox[u].left
         /\ taken'[Len(taken) + 1].aged = (pending_inbox[u].age = Wrap)
  <1>1. Left(u)
    BY DEF Takes
  <1>2. /\ u \in ActiveSlots /\ ActiveSlots' = ActiveSlots \ {u}
        /\ \A t \in ActiveSlots' : t \in ActiveSlots /\ t # u /\ pending_inbox'[t] = pending_inbox[t]
    BY <1>1, LeftSlots DEF ActiveSlots
  <1>3. taken' = Append(taken, Leaving(u)) /\ received' = received
    BY <1>1 DEF Left
  <1>4. taken \in Seq(Taken) /\ Leaving(u) \in Taken /\ DOMAIN taken = 1..Len(taken) /\ Len(taken) \in Nat
    BY <1>2, NumbersTyped DEF Leaving, Taken
  <1>5. /\ Len(taken') = Len(taken) + 1 /\ taken' \in Seq(Taken)
        /\ \A a \in 1..Len(taken) : taken'[a] = taken[a]
        /\ taken'[Len(taken) + 1] = Leaving(u)
    BY <1>3, <1>4, AppendProperties
  <1>6. DOMAIN taken' = 1..(Len(taken) + 1)
    BY <1>5
  <1> QED
    BY <1>2, <1>3, <1>4, <1>5, <1>6 DEF Leaving

LEMMA OrderTakes ==
  ASSUME Types, Clocks, Order, NEW u, Takes(u)
  PROVE  Order'
  <1>1. /\ u \in ActiveSlots /\ ActiveSlots' = ActiveSlots \ {u}
        /\ \A t \in ActiveSlots' : t \in ActiveSlots /\ t # u /\ pending_inbox'[t] = pending_inbox[t]
        /\ received' = received
        /\ Len(taken') = Len(taken) + 1 /\ DOMAIN taken' = 1..(Len(taken) + 1)
        /\ \A a \in DOMAIN taken : a \in DOMAIN taken' /\ taken'[a] = taken[a]
        /\ taken'[Len(taken) + 1].id = Id(u)
        /\ taken'[Len(taken) + 1].left = pending_inbox[u].left
        /\ taken'[Len(taken) + 1].aged = (pending_inbox[u].age = Wrap)
    BY TakenAppended
  <1>2. /\ Len(taken) \in Nat /\ DOMAIN taken = 1..Len(taken) /\ received \in Nat
        /\ \A a \in DOMAIN taken : /\ taken[a].id \in Nat /\ taken[a].left \in Nat
                                   /\ taken[a].left <= Len(taken)
        /\ \A t \in ActiveSlots : /\ Id(t) \in Nat /\ Id(t) \in 1..received /\ t \in Nat
                                  /\ pending_inbox[t].left \in Nat /\ pending_inbox[t].left <= Len(taken)
    BY NumbersTyped DEF Order, Numbers
  <1>3. \A t \in ActiveSlots' : /\ Id(t)' = Id(t) /\ pending_inbox'[t].age = pending_inbox[t].age
                                /\ pending_inbox'[t].left = pending_inbox[t].left
    BY <1>1 DEF Id
  <1>4. \A a \in DOMAIN taken' : a \in DOMAIN taken \/ a = Len(taken) + 1
    BY <1>1, <1>2
  <1>5. OneSlotEach' /\ ByAge'
    BY <1>1, <1>3 DEF Order, Numbers, OneSlotEach, ByAge
  <1>6. Behind'
    <2> SUFFICES ASSUME NEW s \in ActiveSlots', ~OlderLeft(Id(s))', NEW t \in 1..(s - 1)
                 PROVE  t \in ActiveSlots' /\ Id(t)' < Id(s)'
      BY DEF Behind
    <2>1. ~OlderLeft(Id(s))
      BY <1>1, <1>3 DEF OlderLeft
    <2>2. t \in ActiveSlots /\ Id(t) < Id(s)
      BY <1>1, <2>1 DEF Order, Numbers, Behind
    <2>3. t # u
      <3>1. Len(taken) + 1 \in DOMAIN taken'
        BY <1>1, <1>2
      <3> QED
        BY <1>1, <1>3, <2>2, <3>1 DEF OlderLeft
    <2> QED
      BY <1>1, <1>3, <2>2, <2>3
  <1>7. ASSUME NEW n \in Nat, n <= Len(taken), NEW i, \E c \in 1..n : taken[c].id < i
        PROVE  \E c \in 1..n : taken'[c].id < i
    <2>1. PICK c \in 1..n : taken[c].id < i
      BY <1>7
    <2>2. c \in DOMAIN taken
      BY <1>2, <1>7
    <2> QED
      BY <1>1, <2>1, <2>2
  <1>8. InTurn'
    <2> SUFFICES ASSUME NEW s \in ActiveSlots', NEW t \in ActiveSlots', Id(s)' < Id(t)', ~(s < t)
                 PROVE  \E c \in 1..pending_inbox'[t].left : taken'[c].id < Id(s)'
      BY DEF InTurn
    <2>1. \E c \in 1..pending_inbox[t].left : taken[c].id < Id(s)
      BY <1>1, <1>3 DEF Order, Numbers, InTurn
    <2> QED
      BY <1>1, <1>2, <1>3, <1>7, <2>1, SMTT(40)
  <1>9. ASSUME NEW a \in DOMAIN taken'
        PROVE  taken'[a].id \in 1..received' /\ taken'[a].left <= Len(taken')
    BY <1>1, <1>2, <1>4, SMTT(40) DEF Order, Numbers
  <1>10. ASSUME NEW s \in ActiveSlots'
         PROVE  pending_inbox'[s].left <= Len(taken') /\ Overtaken(s)'
    <2>1. pending_inbox'[s].left <= Len(taken')
      BY <1>1, <1>2, <1>3
    <2>2. ASSUME NEW a \in DOMAIN taken', taken'[a].id > Id(s)', pending_inbox'[s].age # Wrap
          PROVE  \E c \in 1..taken'[a].left : taken'[c].id < Id(s)'
      <3>1. CASE a \in DOMAIN taken
        <4>1. \E c \in 1..taken[a].left : taken[c].id < Id(s)
          BY <1>1, <1>3, <2>2, <3>1 DEF Order, Numbers, Overtaken
        <4>2. taken[a].left \in Nat /\ taken[a].left <= Len(taken)
          BY <1>2, <3>1
        <4>3. \E c \in 1..taken[a].left : taken'[c].id < Id(s)
          BY <1>7, <4>1, <4>2
        <4> QED
          BY <1>1, <1>3, <3>1, <4>3
      <3>2. CASE a = Len(taken) + 1
        <4>1. Id(s) < Id(u) /\ ~(s < u)
          BY <1>1, <1>2, <1>3, <2>2, <3>2, PassedOverIsAged
        <4>2. \E c \in 1..pending_inbox[u].left : taken[c].id < Id(s)
          BY <1>1, <4>1 DEF Order, Numbers, InTurn
        <4>3. pending_inbox[u].left \in Nat /\ pending_inbox[u].left <= Len(taken)
          BY <1>1, <1>2
        <4>4. \E c \in 1..pending_inbox[u].left : taken'[c].id < Id(s)
          BY <1>7, <4>2, <4>3
        <4> QED
          BY <1>1, <1>3, <3>2, <4>4
      <3> QED
        BY <1>4, <3>1, <3>2
    <2> QED
      BY <2>1, <2>2 DEF Overtaken
  <1>11. OvertakenOnlyAfterRelease'
    <2> SUFFICES ASSUME NEW a \in DOMAIN taken', NEW b \in DOMAIN taken', a < b,
                        taken'[a].id > taken'[b].id, ~taken'[b].aged
                 PROVE  \E c \in 1..taken'[a].left : taken'[c].id < taken'[b].id
      BY DEF OvertakenOnlyAfterRelease
    <2>1. a \in DOMAIN taken
      BY <1>1, <1>2
    <2>2. \E c \in 1..taken[a].left : taken[c].id < taken'[b].id
      <3>1. CASE b \in DOMAIN taken
        BY <1>1, <2>1, <3>1 DEF Order, OvertakenOnlyAfterRelease
      <3>2. CASE b = Len(taken) + 1
        BY <1>1, <2>1, <3>2 DEF Order, Numbers, Overtaken
      <3> QED
        BY <1>4, <3>1, <3>2
    <2> QED
      BY <1>1, <1>2, <1>7, <2>1, <2>2
  <1>12. Numbers'
    BY <1>5, <1>6, <1>8, <1>9, <1>10 DEF Numbers
  <1> QED
    BY <1>11, <1>12 DEF Order

LEMMA NumbersUnmoved ==
  ASSUME Types, Numbers,
         ActiveSlots' = ActiveSlots, taken' = taken, received' \in Nat, received' >= received,
         \A s \in ActiveSlots : Id(s)' = Id(s) /\ pending_inbox'[s].left = pending_inbox[s].left,
         \A s, t \in ActiveSlots : pending_inbox[s].age >= pending_inbox[t].age =>
           pending_inbox'[s].age >= pending_inbox'[t].age,
         \A s \in ActiveSlots : pending_inbox[s].age = Wrap => pending_inbox'[s].age = Wrap
  PROVE  Numbers'
  <1>1. OneSlotEach' /\ ByAge' /\ InTurn'
    BY DEF Numbers, OneSlotEach, ByAge, InTurn
  <1>2. Behind'
    <2>1. \A s \in ActiveSlots : OlderLeft(Id(s)) => OlderLeft(Id(s))'
      BY DEF OlderLeft
    <2> QED
      BY <2>1 DEF Numbers, Behind
  <1>3. \A a \in DOMAIN taken' : taken'[a].id \in 1..received' /\ taken'[a].left <= Len(taken')
    BY NumbersTyped DEF Numbers
  <1>4. \A s \in ActiveSlots' : pending_inbox'[s].left <= Len(taken') /\ Overtaken(s)'
    BY DEF Numbers, Overtaken
  <1> QED
    BY <1>1, <1>2, <1>3, <1>4 DEF Numbers

LEMMA OrderStep ==
  ASSUME Types, Clocks, Order, [Next]_vars
  PROVE  Order'
  <1>1. ASSUME taken' = taken
        PROVE  OvertakenOnlyAfterRelease'
    BY <1>1 DEF Order, OvertakenOnlyAfterRelease
  <1>2. CASE Accepts
    BY <1>1, <1>2, NumbersAccepts DEF Accepts, Order
  <1>3. ASSUME NEW u, Takes(u)
        PROVE  Order'
    BY <1>3, OrderTakes
  <1>4. CASE Tick
    <2>1. /\ ActiveSlots' = ActiveSlots
          /\ \A s \in InboxSlots : Id(s)' = Id(s) /\ pending_inbox'[s] = Older(pending_inbox[s], Wrap)
      BY <1>4, TickTables
    <2>2. taken' = taken /\ received' = received
      BY <1>4 DEF Tick, history
    <2>3. ASSUME NEW s \in ActiveSlots
          PROVE  /\ pending_inbox'[s].age = OlderAge(pending_inbox[s], Wrap)
                 /\ pending_inbox'[s].left = pending_inbox[s].left
                 /\ pending_inbox[s].active /\ pending_inbox[s].age \in SlotAges
      <3>1. s \in InboxSlots /\ pending_inbox[s].active /\ pending_inbox[s].age \in SlotAges
        BY NumbersTyped DEF ActiveSlots
      <3>2. pending_inbox[s] \in InboxType
        BY <3>1 DEF Types
      <3>3. Older(pending_inbox[s], Wrap).left = pending_inbox[s].left
        BY <3>2, OlderInbox
      <3>4. Older(pending_inbox[s], Wrap).age = OlderAge(pending_inbox[s], Wrap)
        BY <3>2, OlderInbox
      <3> QED
        BY <2>1, <3>1, <3>3, <3>4
    <2>4. /\ \A s, t \in ActiveSlots : pending_inbox[s].age >= pending_inbox[t].age =>
               pending_inbox'[s].age >= pending_inbox'[t].age
          /\ \A s \in ActiveSlots : pending_inbox[s].age = Wrap => pending_inbox'[s].age = Wrap
      BY <2>3, WrapPositive DEF OlderAge, SlotAges
    <2>5. /\ received' \in Nat /\ received' >= received
          /\ \A s \in ActiveSlots : Id(s)' = Id(s) /\ pending_inbox'[s].left = pending_inbox[s].left
      BY <2>1, <2>2, <2>3, NumbersTyped DEF ActiveSlots
    <2>6. Numbers'
      BY <2>1, <2>2, <2>4, <2>5, NumbersUnmoved DEF Order
    <2> QED
      BY <1>1, <2>2, <2>6 DEF Order
  <1>5. CASE Drops \/ TakesNone \/ Elsewhere
    <2>1. /\ taken' = taken /\ pending_inbox' = pending_inbox
          /\ received' = received \/ received' = received + 1
      BY <1>5 DEF Drops, TakesNone, Elsewhere, history
    <2>2. /\ ActiveSlots' = ActiveSlots
          /\ \A s \in ActiveSlots : Id(s)' = Id(s) /\ pending_inbox'[s].left = pending_inbox[s].left
      BY <2>1 DEF ActiveSlots, Id
    <2>3. received' \in Nat /\ received' >= received
      BY <2>1, NumbersTyped
    <2>4. Numbers'
      BY <2>1, <2>2, <2>3, NumbersUnmoved DEF Order
    <2> QED
      BY <1>1, <2>1, <2>4 DEF Order
  <1> QED
    BY <1>2, <1>3, <1>4, <1>5, InboxCases

----------------------------------------------------------------------------
(* Replies *)

Owed(n) == {s \in ReplySlots : pending_replies[s].active /\ pending_replies[s].sender = n}

LEMMA OwedFinite ==
  ASSUME NEW n
  PROVE  /\ IsFiniteSet(Owed(n)) /\ Cardinality(Owed(n)) \in Nat
         /\ RepliesFor(n) = Cardinality(Owed(n))
  <1>1. IsFiniteSet(ReplySlots)
    BY MeshNodeAssumption, FS_Interval DEF ReplySlots
  <1>2. Owed(n) \in SUBSET ReplySlots
    BY DEF Owed
  <1>3. IsFiniteSet(Owed(n))
    BY <1>1, <1>2, FS_Subset
  <1> QED
    BY <1>3, FS_CardinalityType DEF Owed, RepliesFor

LEMMA PongsStep ==
  ASSUME Types, PongsOfOwnPings, [Next]_vars
  PROVE  PongsOfOwnPings'
  <1> SUFFICES ASSUME NEW n \in Nodes
               PROVE  pongs'[n] + Cardinality(Owed(n)') <= pings'[n]
    BY DEF PongsOfOwnPings, RepliesFor, Owed
  <1>0. /\ pongs[n] \in Nat /\ pings[n] \in Nat
        /\ IsFiniteSet(Owed(n)) /\ Cardinality(Owed(n)) \in Nat
        /\ pongs[n] + Cardinality(Owed(n)) <= pings[n]
    BY OwedFinite DEF Types, PongsOfOwnPings
  <1>1. ASSUME Owed(n)' = Owed(n), pongs'[n] = pongs[n], pings'[n] = pings[n] \/ pings'[n] = pings[n] + 1
        PROVE  pongs'[n] + Cardinality(Owed(n)') <= pings'[n]
    BY <1>0, <1>1
  <1>2. ASSUME NEW m \in Nodes, RecvPing(m)
        PROVE  pongs'[n] + Cardinality(Owed(n)') <= pings'[n]
    <2>1. /\ pongs' = pongs
          /\ pings'[n] = IF n = m THEN pings[n] + 1 ELSE pings[n]
      BY <1>2 DEF RecvPing, Types
    <2>2. CASE UNCHANGED pending_replies
      <3>1. Owed(n)' = Owed(n)
        BY <2>2 DEF Owed
      <3> QED
        BY <1>1, <2>1, <3>1
    <2>3. ASSUME NEW s \in ReplySlots, FirstFree(pending_replies, s),
                 pending_replies' = [pending_replies EXCEPT ![s] = NewReply(m)]
          PROVE  pongs'[n] + Cardinality(Owed(n)') <= pings'[n]
      <3>1. /\ ~pending_replies[s].active /\ pending_replies'[s] = NewReply(m)
            /\ \A t \in ReplySlots \ {s} : pending_replies'[t] = pending_replies[t]
            /\ NewReply(m).active = TRUE /\ NewReply(m).sender = m
        BY <2>3, ReplyStored, NewReplyTyped
      <3>2. CASE n = m
        <4>1. Owed(n)' = Owed(n) \cup {s} /\ s \notin Owed(n)
          BY <3>1, <3>2 DEF Owed
        <4>2. Cardinality(Owed(n)') = Cardinality(Owed(n)) + 1
          BY <1>0, <4>1, FS_AddElement
        <4> QED
          BY <1>0, <2>1, <3>2, <4>2
      <3>3. CASE n # m
        <4>1. Owed(n)' = Owed(n)
          BY <3>1, <3>3 DEF Owed
        <4> QED
          BY <1>1, <2>1, <3>3, <4>1
      <3> QED
        BY <3>2, <3>3
    <2> QED
      BY <1>2, <2>2, <2>3 DEF RecvPing, NewReply
  <1>3. CASE ProcessReplies
    <2>1. pings' = pings
      BY <1>3 DEF ProcessReplies
    <2>2. CASE UNCHANGED <<pending_replies, pongs>>
      <3>1. Owed(n)' = Owed(n)
        BY <2>2 DEF Owed
      <3> QED
        BY <1>1, <2>1, <2>2, <3>1
    <2>3. ASSUME NEW s \in ReplySlots, IsDue(pending_replies, s),
                 pending_replies' = Release(pending_replies, s, ClearedReply),
                 \/ pongs' = [pongs EXCEPT ![ReplyTo(pending_replies[s].sender)] = @ + 1]
                 \/ UNCHANGED pongs
          PROVE  pongs'[n] + Cardinality(Owed(n)') <= pings'[n]
      <3>1. /\ pending_replies[s].active /\ pending_replies'[s].active = FALSE
            /\ \A t \in ReplySlots \ {s} : pending_replies'[t] = pending_replies[t]
        BY <2>3, ReplyLeft
      <3>2. CASE pending_replies[s].sender = n
        <4>1. Owed(n)' = Owed(n) \ {s} /\ s \in Owed(n)
          BY <3>1, <3>2 DEF Owed
        <4>2. Cardinality(Owed(n)') = Cardinality(Owed(n)) - 1
          BY <1>0, <4>1, FS_RemoveElement
        <4>3. pongs'[n] = pongs[n] \/ pongs'[n] = pongs[n] + 1
          BY <2>3, <3>2 DEF Types, ReplyTo
        <4> QED
          BY <1>0, <2>1, <4>2, <4>3
      <3>3. CASE pending_replies[s].sender # n
        <4>1. Owed(n)' = Owed(n)
          BY <3>1, <3>3 DEF Owed
        <4>2. pongs'[n] = pongs[n]
          BY <2>3, <3>3 DEF Types, ReplyTo
        <4> QED
          BY <1>1, <2>1, <4>1, <4>2
      <3> QED
        BY <3>2, <3>3
    <2> QED
      BY <1>3, <2>2, <2>3 DEF ProcessReplies
  <1>4. CASE Tick
    <2>1. pings' = pings /\ pongs' = pongs
      BY <1>4 DEF Tick
    <2>2. ASSUME NEW s \in ReplySlots
          PROVE  /\ pending_replies'[s].active = pending_replies[s].active
                 /\ pending_replies'[s].sender = pending_replies[s].sender
      BY <1>4, TickTables, OlderReply DEF Types
    <2>3. Owed(n)' = Owed(n)
      BY <2>2 DEF Owed
    <2> QED
      BY <1>1, <2>1, <2>3
  <1>5. CASE \/ \E m \in Nodes : RecvEmpty(m)
             \/ \E m \in Nodes, text \in Texts : RecvMessage(m, text)
             \/ RecvDone \/ ProcessInbox \/ UNCHANGED vars
    <2>1. pings' = pings /\ pongs' = pongs /\ pending_replies' = pending_replies
      BY <1>5 DEF RecvEmpty, RecvMessage, RecvDone, ProcessInbox, vars
    <2>2. Owed(n)' = Owed(n)
      BY <2>1 DEF Owed
    <2> QED
      BY <1>1, <2>1, <2>2
  <1> QED
    BY <1>2, <1>3, <1>4, <1>5 DEF Next, Loop

----------------------------------------------------------------------------
(* The invariant *)

LEMMA IndInvInit == Init => IndInv
  <1> SUFFICES ASSUME Init PROVE IndInv
    OBVIOUS
  <1>1. Types
    BY TypesInit
  <1>2. /\ \A s \in InboxSlots : pending_inbox[s].active = FALSE
        /\ \A s \in ReplySlots : pending_replies[s].active = FALSE
    BY ClearedTyped DEF Init
  <1>3. Clocks
    BY <1>2 DEF Clocks, Clocked
  <1>4. DOMAIN taken = {}
    BY DEF Init
  <1>5. ActiveSlots = {}
    BY <1>2 DEF ActiveSlots
  <1>6. Numbers /\ OvertakenOnlyAfterRelease
    BY <1>4, <1>5 DEF Numbers, OneSlotEach, ByAge, Behind, InTurn, OvertakenOnlyAfterRelease
  <1>9. PongsOfOwnPings
    <2> SUFFICES ASSUME NEW n \in Nodes PROVE pongs[n] + RepliesFor(n) <= pings[n]
      BY DEF PongsOfOwnPings
    <2>1. Owed(n) = {}
      BY <1>2 DEF Owed
    <2>2. RepliesFor(n) = 0
      BY <2>1, OwedFinite, FS_EmptySet
    <2> QED
      BY <2>2 DEF Init
  <1> QED
    BY <1>1, <1>3, <1>6, <1>9 DEF IndInv, Order

LEMMA IndInvStep == IndInv /\ [Next]_vars => IndInv'
  BY TypesStep, ClocksStep, OrderStep, PongsStep DEF IndInv

(* The inductive invariant holds in every state the shared loop reaches. *)
THEOREM Invariance == Spec => []IndInv
  BY IndInvInit, IndInvStep, PTL DEF Spec

(* Tables and histories keep the types of MyMesh's declarations. *)
THEOREM TypeCorrect == Spec => []TypeOK
  <1>1. IndInv => TypeOK
    <2> SUFFICES ASSUME Types PROVE TypeOK
      BY DEF IndInv
    <2>1. ASSUME NEW s \in InboxSlots, pending_inbox[s].active
          PROVE  /\ pending_inbox[s].time \in 0..(Wrap - 1)
                 /\ pending_inbox[s].text \in Texts
                 /\ pending_inbox[s].age \in 0..Wrap
      <3>1. pending_inbox[s] \in InboxType /\ pending_inbox[s].text \in Texts
        BY <2>1 DEF Types
      <3> QED
        BY <3>1 DEF InboxType, Times, SlotAges
    <2> QED
      BY <2>1 DEF Types, TypeOK, Times
  <1> QED
    BY <1>1, Invariance, PTL

(* loop() of main.cpp takes the first ripe slot, not the oldest one; still *)
(* a message is overtaken only by one that came after an older one than    *)
(* both had left, or once it has waited for the whole range of millis().   *)
THEOREM BurstsStayInOrder == Spec => []OvertakenOnlyAfterRelease
  <1>1. IndInv => OvertakenOnlyAfterRelease
    BY DEF IndInv, Order
  <1> QED
    BY <1>1, Invariance, PTL

(* Replies to pings are addressed by the whole key: nobody gets more of    *)
(* them than it has sent pings.                                            *)
THEOREM PongsToPingers == Spec => []PongsOfOwnPings
  <1>1. IndInv => PongsOfOwnPings
    BY DEF IndInv
  <1> QED
    BY <1>1, Invariance, PTL

(* The comparison of millis() in loop() never lets a message or a reply    *)
(* out before the ACK's 100 ms, for any width of the counter.              *)
THEOREM AckLeavesFirst == Spec => AckFirst
  <1>1. ASSUME IndInv, [Next]_vars
        PROVE  /\ \A s \in InboxSlots :
                    pending_inbox[s].active /\ ~pending_inbox'[s].active
                      => pending_inbox[s].age > AckDelay
               /\ \A s \in ReplySlots :
                    pending_replies[s].active /\ ~pending_replies'[s].active
                      => pending_replies[s].age > AckDelay
    <2>0. Types /\ Clocks
      BY <1>1 DEF IndInv
    <2>1. ASSUME NEW s \in InboxSlots, pending_inbox[s].active, ~pending_inbox'[s].active
          PROVE  pending_inbox[s].age > AckDelay
      <3>1. s \in ActiveSlots /\ s \notin ActiveSlots'
        BY <2>1 DEF ActiveSlots
      <3>2. CASE Accepts
        BY <2>0, <3>1, <3>2, StoredSlots DEF Accepts
      <3>3. ASSUME NEW u, Takes(u)
            PROVE  pending_inbox[s].age > AckDelay
        <4>1. s = u /\ Ripe(pending_inbox[s])
          BY <2>0, <3>1, <3>3, LeftSlots DEF Takes
        <4> QED
          BY <2>0, <2>1, <3>1, <4>1, RipeIsOld, NumbersTyped DEF Clocks, Limits
      <3>4. CASE Tick
        BY <2>0, <3>1, <3>4, TickTables
      <3>5. CASE Drops \/ TakesNone \/ Elsewhere
        BY <3>1, <3>5 DEF Drops, TakesNone, Elsewhere, ActiveSlots
      <3> QED
        BY <1>1, <3>2, <3>3, <3>4, <3>5, InboxCases
    <2>2. ASSUME NEW s \in ReplySlots, pending_replies[s].active, ~pending_replies'[s].active
          PROVE  pending_replies[s].age > AckDelay
      <3>0. pending_replies[s] \in ReplyType /\ pending_replies[s].age \in SlotAges
        <4>1. pending_replies[s] \in ReplyType
          BY <2>0 DEF Types
        <4> QED
          BY <4>1 DEF ReplyType
      <3>1. ASSUME NEW n \in Nodes, RecvPing(n)
            PROVE  FALSE
        <4>1. ASSUME NEW u \in ReplySlots, FirstFree(pending_replies, u),
                     pending_replies' = [pending_replies EXCEPT ![u] = NewReply(n)]
              PROVE  FALSE
          BY <2>0, <2>2, <4>1, ReplyStored
        <4> QED
          BY <2>2, <3>1, <4>1 DEF RecvPing, NewReply
      <3>2. CASE ProcessReplies
        <4>1. PICK u \in ReplySlots : /\ IsDue(pending_replies, u)
                                      /\ pending_replies' = Release(pending_replies, u, ClearedReply)
          BY <2>2, <3>2 DEF ProcessReplies
        <4>2. s = u
          BY <2>0, <2>2, <4>1, ReplyLeft
        <4>3. Ripe(pending_replies[s])
          BY <4>1, <4>2 DEF IsDue, Due
        <4> QED
          BY <2>0, <2>2, <3>0, <4>3, RipeIsOld DEF Clocks, Limits
      <3>3. CASE Tick
        BY <2>0, <2>2, <3>0, <3>3, TickTables, OlderReply
      <3>4. CASE \/ \E m \in Nodes : RecvEmpty(m)
                 \/ \E m \in Nodes, text \in Texts : RecvMessage(m, text)
                 \/ RecvDone \/ ProcessInbox \/ UNCHANGED vars
        BY <2>2, <3>4 DEF RecvEmpty, RecvMessage, RecvDone, ProcessInbox, vars
      <3> QED
        BY <1>1, <3>1, <3>2, <3>3, <3>4 DEF Next, Loop
    <2> QED
      BY <2>1, <2>2
  <1> QED
    BY <1>1, Invariance, PTL DEF Spec, AckFirst

----------------------------------------------------------------------------
(* The inbox implements the abstract one *)

(* Slots and numbers are in correspondence. *)
LEMMA QueuedSize ==
  ASSUME OneSlotEach
  PROVE  /\ Queued = {Id(s) : s \in ActiveSlots}
         /\ IsFiniteSet(Queued) /\ Cardinality(Queued) = Cardinality(ActiveSlots)
         /\ IsFiniteSet(ActiveSlots) /\ Cardinality(ActiveSlots) <= MAX_PENDING_INBOX
         /\ Cardinality(ActiveSlots) = MAX_PENDING_INBOX <=> ActiveSlots = InboxSlots
  <1>1. Queued = {Id(s) : s \in ActiveSlots}
    BY DEF Queued, Id, ActiveSlots
  <1>2. IsFiniteSet(InboxSlots) /\ Cardinality(InboxSlots) = MAX_PENDING_INBOX
    BY MeshNodeAssumption, FS_Interval DEF InboxSlots
  <1>3. ActiveSlots \in SUBSET InboxSlots
    BY DEF ActiveSlots
  <1>4. /\ IsFiniteSet(ActiveSlots) /\ Cardinality(ActiveSlots) <= MAX_PENDING_INBOX
        /\ Cardinality(ActiveSlots) = MAX_PENDING_INBOX <=> ActiveSlots = InboxSlots
    BY <1>2, <1>3, FS_Subset
  <1> DEFINE number == [s \in ActiveSlots |-> Id(s)]
             slot == [i \in Queued |-> CHOOSE s \in ActiveSlots : Id(s) = i]
  <1>5. number \in Surjection(ActiveSlots, Queued)
    BY <1>1 DEF Surjection
  <1>6. IsFiniteSet(Queued) /\ Cardinality(Queued) <= Cardinality(ActiveSlots)
    <2> HIDE DEF number
    <2> QED
      BY <1>4, <1>5, FS_Surjection
  <1>7. slot \in Surjection(Queued, ActiveSlots)
    <2>1. \A i \in Queued : slot[i] \in ActiveSlots /\ Id(slot[i]) = i
      BY <1>1
    <2>2. slot \in [Queued -> ActiveSlots]
      BY <2>1
    <2>3. \A s \in ActiveSlots : Id(s) \in Queued
      BY <1>1
    <2> HIDE DEF slot
    <2>4. \A s \in ActiveSlots : slot[Id(s)] = s
      BY <2>1, <2>3 DEF OneSlotEach
    <2> QED
      BY <2>2, <2>3, <2>4 DEF Surjection
  <1>8. Cardinality(ActiveSlots) <= Cardinality(Queued)
    <2> HIDE DEF slot
    <2> QED
      BY <1>6, <1>7, FS_Surjection
  <1>9. Cardinality(ActiveSlots) \in Nat /\ Cardinality(Queued) \in Nat
    BY <1>4, <1>6, FS_CardinalityType
  <1> QED
    BY <1>1, <1>4, <1>6, <1>8, <1>9

LEMMA SameCardinality == \A S : Inbox!Cardinality(S) = Cardinality(S)
  BY DEF Inbox!Cardinality, Cardinality

LEMMA InboxInit ==
  ASSUME Init
  PROVE  Inbox!Init
  <1>1. Queued = {}
    BY ClearedTyped DEF Init, Queued
  <1> QED
    BY <1>1 DEF Init, Inbox!Init

LEMMA InboxStep ==
  ASSUME IndInv, IndInv', [Next]_vars
  PROVE  [Inbox!Next]_(Inbox!vars)
  <1>0. /\ Types /\ OneSlotEach /\ OneSlotEach'
        /\ received \in 0..MaxMessages /\ MaxMessages \in Nat
        /\ handed \in Seq(Nat) /\ pending_inbox \in [InboxSlots -> InboxType]
    BY MeshNodeAssumption DEF IndInv, Order, Numbers, Types
  <1>1. ASSUME Queued' = Queued, received' = received, handed' = handed
        PROVE  UNCHANGED Inbox!vars
    BY <1>1 DEF Inbox!vars
  <1>2. ASSUME Accepts
        PROVE  Inbox!Receive
    <2>1. PICK s, n, text : Stored(s, n, text)
      BY <1>2 DEF Accepts
    <2>2. /\ s \in InboxSlots /\ s \notin ActiveSlots /\ ActiveSlots' = ActiveSlots \cup {s}
          /\ pending_inbox'[s] = NewInbox(n, text)
          /\ \A t \in ActiveSlots : pending_inbox'[t] = pending_inbox[t]
      BY <1>0, <2>1, StoredSlots DEF Stored
    <2>3. NewInbox(n, text).id = received + 1
      BY <1>0, <2>1, NewInboxTyped DEF Stored
    <2>4. Id(s)' = received + 1 /\ \A t \in ActiveSlots : Id(t)' = Id(t)
      BY <2>2, <2>3 DEF Id
    <2>5. Queued' = Queued \cup {received + 1}
      <3>1. Queued' = {Id(t)' : t \in ActiveSlots'}
        BY <1>0, QueuedSize DEF Queued, Id, ActiveSlots
      <3>2. Queued = {Id(t) : t \in ActiveSlots}
        BY <1>0, QueuedSize
      <3> QED
        BY <2>2, <2>4, <3>1, <3>2
    <2>6. Cardinality(Queued) < MAX_PENDING_INBOX
      <3>1. Cardinality(Queued) \in Nat /\ MAX_PENDING_INBOX \in Nat
        BY <1>0, QueuedSize, FS_CardinalityType, MeshNodeAssumption
      <3> QED
        BY <1>0, <2>2, <3>1, QueuedSize
    <2>7. received < MaxMessages /\ received' = received + 1 /\ handed' = handed
      BY <1>2, <2>1 DEF Accepts, Stored
    <2> QED
      BY <2>5, <2>6, <2>7, SameCardinality DEF Inbox!Receive
  <1>3. ASSUME Drops
        PROVE  Inbox!Receive
    <2>1. /\ received < MaxMessages /\ received' = received + 1 /\ handed' = handed
          /\ pending_inbox' = pending_inbox
      BY <1>3 DEF Drops
    <2>2. ActiveSlots = InboxSlots
      BY <1>0, <1>3 DEF Drops, Full, ActiveSlots
    <2>3. Cardinality(Queued) = MAX_PENDING_INBOX
      BY <1>0, <2>2, QueuedSize
    <2>4. Queued' = Queued
      BY <2>1 DEF Queued
    <2> QED
      BY <2>1, <2>3, <2>4, SameCardinality DEF Inbox!Receive
  <1>4. ASSUME NEW u, Takes(u)
        PROVE  \E i \in 1..MaxMessages : Inbox!Leave(i)
    <2>1. /\ u \in ActiveSlots /\ ActiveSlots' = ActiveSlots \ {u} /\ received' = received
          /\ \A t \in ActiveSlots' : pending_inbox'[t] = pending_inbox[t]
      BY <1>0, <1>4, TakenAppended
    <2>2. Id(u) \in 1..MaxMessages /\ Id(u) \in Nat
      BY <1>0, <2>1, NumbersTyped
    <2>3. \A t \in ActiveSlots' : Id(t)' = Id(t)
      BY <2>1 DEF Id
    <2>4. Queued' = Queued \ {Id(u)} /\ Id(u) \in Queued
      <3>1. Queued' = {Id(t)' : t \in ActiveSlots'}
        BY <1>0, QueuedSize DEF Queued, Id, ActiveSlots
      <3>2. Queued = {Id(t) : t \in ActiveSlots}
        BY <1>0, QueuedSize
      <3>3. \A t \in ActiveSlots : Id(t) = Id(u) => t = u
        BY <1>0, <2>1 DEF OneSlotEach
      <3> QED
        BY <2>1, <2>3, <3>1, <3>2, <3>3
    <2>5. PICK i \in 1..MaxMessages : i = Id(u)
      BY <2>2
    <2>6. CASE Accepted(pending_inbox[u])
      <3>1. handed' = Append(handed, i)
        BY <1>4, <2>5, <2>6 DEF Takes
      <3>2. Inbox!Leave(i)
        BY <2>1, <2>4, <2>5, <3>1 DEF Inbox!HandOver, Inbox!Leave
      <3> QED
        BY <3>2
    <2>7. CASE ~Accepted(pending_inbox[u])
      <3>1. handed' = handed
        BY <1>4, <2>7 DEF Takes
      <3>2. Inbox!Leave(i)
        BY <2>1, <2>4, <2>5, <3>1 DEF Inbox!Reject, Inbox!Leave
      <3> QED
        BY <3>2
    <2> QED
      BY <2>6, <2>7
  <1>5. CASE Tick
    <2>1. ActiveSlots' = ActiveSlots /\ \A s \in InboxSlots : Id(s)' = Id(s)
      BY <1>0, <1>5, TickTables
    <2>2. Queued' = Queued
      <3>1. Queued' = {Id(t)' : t \in ActiveSlots'}
        BY <1>0, QueuedSize DEF Queued, Id, ActiveSlots
      <3>2. Queued = {Id(t) : t \in ActiveSlots} /\ ActiveSlots \subseteq InboxSlots
        BY <1>0, QueuedSize DEF ActiveSlots
      <3> QED
        BY <2>1, <3>1, <3>2
    <2> QED
      BY <1>1, <1>5, <2>2 DEF Tick, history
  <1>6. CASE TakesNone \/ Elsewhere
    <2>1. pending_inbox' = pending_inbox /\ received' = received /\ handed' = handed
      BY <1>6 DEF TakesNone, Elsewhere, history
    <2>2. Queued' = Queued
      BY <2>1 DEF Queued
    <2> QED
      BY <1>1, <2>1, <2>2
  <1> QED
    BY <1>2, <1>3, <1>4, <1>5, <1>6, InboxCases DEF Inbox!Next

(* The table that onMessageRecv fills and loop() empties is, for the mode  *)
(* above it, LossyInbox: a bounded set from which every message leaves at  *)
(* most once and that loses one only when it is full.  (The fairness of    *)
(* LossyInbox is left to the run.)                                         *)
THEOREM InboxRefinement == Spec => Inbox!Init /\ [][Inbox!Next]_(Inbox!vars)
  <1>1. Init => Inbox!Init
    BY InboxInit
  <1>2. IndInv /\ IndInv' /\ [Next]_vars => [Inbox!Next]_(Inbox!vars)
    BY InboxStep
  <1> QED
    BY <1>1, <1>2, Invariance, PTL DEF Spec

============================================================================
