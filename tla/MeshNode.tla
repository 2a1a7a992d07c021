------------------------------ MODULE MeshNode ------------------------------
(***************************************************************************)
(* The part of MyMesh (main.cpp) that both modes share: onMessageRecv puts *)
(* messages and ping replies into two small tables, so that the library    *)
(* can send its ACK first, and loop takes at most one of each out again,   *)
(* more than 100 ms later.  Senders are kept as the first four octets of   *)
(* their key for a message, as the whole key for a reply.                  *)
(*                                                                         *)
(* The radio, the contact list and the clock are the mesh library's.  The  *)
(* clock is millis(), an unsigned counter that wraps.                      *)
(***************************************************************************)
EXTENDS Integers, Sequences, FiniteSets

CONSTANTS
  Contacts,      \* nodes this node knows, oldest first
  Prefix,        \* [Nodes -> ...], four octets of the key in hexadecimal
  Texts,         \* strings a node may send, other than "" and "ping"
  Decoded,       \* [Texts -> Seq(Octets)], Base91::decode of them
  MAX_PENDING_INBOX,
  MAX_PENDING_REPLIES,
  Wrap,          \* values of millis()
  AckDelay,      \* ticks in 100 ms
  MaxTicks,      \* ticks that one iteration of loop can take
  MaxMessages,   \* bound: queued or dropped messages
  MaxPings,      \* bound: pings of each node
  MaxHandled     \* bound: messages_handled when an empty message arrives

Nodes == {Contacts[n] : n \in DOMAIN Contacts}

Octets == 0..255

ASSUME MeshNodeAssumption ==
  /\ Contacts \in Seq(Nodes) /\ DOMAIN Prefix = Nodes
  /\ Texts \subseteq Seq(Octets \ {0}) \ {<<>>, <<112, 105, 110, 103>>}
  /\ Decoded \in [Texts -> Seq(Octets)]
  /\ MAX_PENDING_INBOX \in Nat \ {0}
  /\ MAX_PENDING_REPLIES \in Nat \ {0}
  /\ AckDelay \in Nat /\ MaxTicks \in Nat \ {0}
  /\ Wrap \in Nat /\ AckDelay + 2 * MaxTicks < Wrap
  /\ MaxMessages \in Nat /\ MaxPings \in Nat /\ MaxHandled \in Nat

VARIABLES
  pc,              \* what loop does next: "recv", "inbox", "replies"
  millis,
  ticks,           \* of this iteration
  pending_inbox,
  pending_replies,
  messages_handled,
  received,        \* history: messages other than pings and empty ones
  taken,           \* history: what is known of them, in the order they left the inbox
  handed,          \* history: the numbers of those given to the mode's handler
  pings, pongs     \* history: per node, pings received and replies sent to it

clock == <<millis, ticks>>
history == <<received, taken, handed>>
vars == <<pc, clock, pending_inbox, pending_replies, messages_handled, history, pings, pongs>>

InboxSlots == 1..MAX_PENDING_INBOX
ReplySlots == 1..MAX_PENDING_REPLIES

(* History: the number of the message, how many had left when it came, and *)
(* its age in ticks, as far as it matters.                                 *)
ClearedInbox ==
  [active |-> FALSE, time |-> 0, sender |-> "", text |-> <<>>, id |-> 0, left |-> 0, age |-> 0]

ClearedReply == [active |-> FALSE, time |-> 0, sender |-> "", age |-> 0]

----------------------------------------------------------------------------
(* Tables *)

(* Faulty variant: the search starts at the other end. *)
LastFree(table, s) == ~table[s].active /\ \A t \in DOMAIN table : t > s => table[t].active

FirstFree(table, s) == ~table[s].active /\ \A t \in DOMAIN table : t < s => table[t].active

(* Faulty variant: the last free slot is not used. *)
OneLeft(table) == Cardinality({s \in DOMAIN table : ~table[s].active}) <= 1

Full(table) == \A s \in DOMAIN table : table[s].active

(* Faulty variant: the sum is compared, and wraps. *)
SumIsPast(slot) == millis > (slot.time + AckDelay) % Wrap

(* millis - time > 100, in unsigned arithmetic. *)
Ripe(slot) == (millis - slot.time) % Wrap > AckDelay

(* Faulty variant: `i < MAX - 1'. *)
AllButLast(table) == DOMAIN table \ {Cardinality(DOMAIN table)}

Scanned(table) == DOMAIN table

(* The scan stops at the first slot that is active and ripe. *)
Due(table) == {s \in Scanned(table) : table[s].active /\ Ripe(table[s])}

IsDue(table, s) == s \in Due(table) /\ \A t \in Due(table) : s <= t

Release(table, s, cleared) == [table EXCEPT ![s] = cleared]

(* Contacts are searched oldest first, by the first octets of the key. *)
Known(sender) == \E n \in DOMAIN Contacts : Prefix[Contacts[n]] = sender

ByPrefix(sender) ==
  Contacts[CHOOSE n \in DOMAIN Contacts :
             /\ Prefix[Contacts[n]] = sender
             /\ \A k \in 1..(n - 1) : Prefix[Contacts[k]] # sender]

----------------------------------------------------------------------------
(* isValidWDPMessage *)

Port16(hi, lo) == hi * 256 + lo

PortsAt(data, n) ==
  Port16(data[n], data[n + 1]) # 0 /\ Port16(data[n + 2], data[n + 3]) # 0

SimpleUDH(data) == data[1] = 6 /\ data[2] = 5 /\ data[3] = 4 /\ PortsAt(data, 4)

PartInfo(total, current) == total # 0 /\ current # 0 /\ current <= total

ConcatUDH(data) ==
  /\ data[1] = 11 /\ data[2] = 0 /\ data[3] = 3
  /\ PartInfo(data[5], data[6])
  /\ data[7] = 5 /\ data[8] = 4
  /\ PortsAt(data, 9)

isValidWDPMessage(data) ==
  /\ Len(data) >= 7
  /\ Len(data) >= data[1] + 1
  /\ SimpleUDH(data) \/ ConcatUDH(data)

(* What loop gives to the handler; text that holds no Base91 character at  *)
(* all is taken as it is.                                                  *)
Data(text) == IF Decoded[text] # <<>> THEN Decoded[text] ELSE text

----------------------------------------------------------------------------
Init ==
  /\ pc = "recv"
  /\ millis = 0
  /\ ticks = 0
  /\ pending_inbox = [s \in InboxSlots |-> ClearedInbox]
  /\ pending_replies = [s \in ReplySlots |-> ClearedReply]
  /\ messages_handled = 0
  /\ received = 0
  /\ taken = <<>>
  /\ handed = <<>>
  /\ pings = [n \in Nodes |-> 0]
  /\ pongs = [n \in Nodes |-> 0]

(* memcpy of PUB_KEY_SIZE octets. *)
ReplyKey(n) == n

(* onMessageRecv: a ping; with the table full there is no reply, but the   *)
(* message counts as handled.                                              *)
RecvPing(n) ==
  /\ pc = "recv"
  /\ pings[n] < MaxPings
  /\ pings' = [pings EXCEPT ![n] = @ + 1]
  /\ \/ /\ Full(pending_replies)
        /\ UNCHANGED pending_replies
     \/ \E s \in ReplySlots :
          /\ FirstFree(pending_replies, s)
          /\ pending_replies' = [pending_replies EXCEPT ![s] =
               [active |-> TRUE, time |-> millis, sender |-> ReplyKey(n), age |-> 0]]
  /\ messages_handled' = messages_handled + 1
  /\ UNCHANGED <<pc, clock, pending_inbox, history, pongs>>

(* onMessageRecv: an empty text is only counted. *)
RecvEmpty(n) ==
  /\ pc = "recv"
  /\ messages_handled <= MaxHandled
  /\ messages_handled' = messages_handled + 1
  /\ UNCHANGED <<pc, clock, pending_inbox, pending_replies, history, pings, pongs>>

(* onMessageRecv: any other text is queued, or dropped and not counted. *)
RecvMessage(n, text) ==
  /\ pc = "recv"
  /\ received < MaxMessages
  /\ received' = received + 1
  /\ \/ /\ Full(pending_inbox)
        /\ UNCHANGED <<pending_inbox, messages_handled>>
     \/ /\ \E s \in InboxSlots :
             /\ FirstFree(pending_inbox, s)
             /\ pending_inbox' = [pending_inbox EXCEPT ![s] =
                  [active |-> TRUE, time |-> millis, sender |-> Prefix[n], text |-> text,
                   id |-> received', left |-> Len(taken), age |-> 0]]
        /\ messages_handled' = messages_handled + 1
  /\ UNCHANGED <<pc, clock, pending_replies, taken, handed, pings, pongs>>

(* The library's own loop is over. *)
RecvDone ==
  /\ pc = "recv"
  /\ pc' = "inbox"
  /\ UNCHANGED <<clock, pending_inbox, pending_replies, messages_handled, history, pings, pongs>>

Accepted(slot) == Known(slot.sender) /\ isValidWDPMessage(Data(slot.text))

(* At most one message leaves, whether it is accepted or not. *)
ProcessInbox ==
  /\ pc = "inbox"
  /\ pc' = "replies"
  /\ \/ /\ Due(pending_inbox) = {}
        /\ UNCHANGED <<pending_inbox, taken, handed>>
     \/ \E s \in InboxSlots :
          /\ IsDue(pending_inbox, s)
          /\ LET slot == pending_inbox[s] IN
             /\ pending_inbox' = Release(pending_inbox, s, ClearedInbox)
             /\ taken' = Append(taken, [id |-> slot.id, left |-> slot.left, aged |-> slot.age = Wrap])
             /\ handed' = IF Accepted(slot) THEN Append(handed, slot.id) ELSE handed
  /\ UNCHANGED <<clock, pending_replies, messages_handled, received, pings, pongs>>

(* Faulty variant: the contact is looked up as for messages. *)
ReplyByPrefix(sender) == ByPrefix(Prefix[sender])

(* lookupContactByPubKey with all of the key. *)
ReplyTo(sender) == sender

(* At most one reply leaves; sendMessage may fail, which nobody repeats. *)
ProcessReplies ==
  /\ pc = "replies"
  /\ pc' = "recv"
  /\ ticks' = 0
  /\ \/ /\ Due(pending_replies) = {}
        /\ UNCHANGED <<pending_replies, pongs>>
     \/ \E s \in ReplySlots :
          /\ IsDue(pending_replies, s)
          /\ pending_replies' = Release(pending_replies, s, ClearedReply)
          /\ \/ pongs' = [pongs EXCEPT ![ReplyTo(pending_replies[s].sender)] = @ + 1]
             \/ UNCHANGED pongs
  /\ UNCHANGED <<millis, pending_inbox, messages_handled, history, pings>>

Older(slot, limit) ==
  [slot EXCEPT !.age = IF slot.active /\ @ < limit THEN @ + 1 ELSE @]

(* An iteration is short against the range of millis(). *)
Tick ==
  /\ ticks < MaxTicks
  /\ ticks' = ticks + 1
  /\ millis' = (millis + 1) % Wrap
  /\ pending_inbox' = [s \in InboxSlots |-> Older(pending_inbox[s], Wrap)]
  /\ pending_replies' = [s \in ReplySlots |-> Older(pending_replies[s], AckDelay + 1)]
  /\ UNCHANGED <<pc, messages_handled, history, pings, pongs>>

Loop == RecvDone \/ ProcessInbox \/ ProcessReplies

Next ==
  \/ \E n \in Nodes : RecvPing(n) \/ RecvEmpty(n)
  \/ \E n \in Nodes, text \in Texts : RecvMessage(n, text)
  \/ Loop
  \/ Tick

Spec == Init /\ [][Next]_vars

(* loop() is called for ever, and time passes. *)
FairSpec == Spec /\ WF_vars(Loop) /\ WF_vars(Tick)

----------------------------------------------------------------------------
(* Correctness *)

(* The variables have the types of their declarations. *)
TypeOK ==
  /\ pc \in {"recv", "inbox", "replies"}
  /\ millis \in 0..(Wrap - 1)
  /\ ticks \in 0..MaxTicks
  /\ DOMAIN pending_inbox = InboxSlots
  /\ DOMAIN pending_replies = ReplySlots
  /\ \A s \in InboxSlots : pending_inbox[s].active =>
       /\ pending_inbox[s].time \in 0..(Wrap - 1)
       /\ pending_inbox[s].text \in Texts
       /\ pending_inbox[s].age \in 0..Wrap
  /\ \A s \in ReplySlots : pending_replies[s].active => pending_replies[s].sender \in Nodes
  /\ messages_handled \in Nat

Queued == {pending_inbox[s].id : s \in {t \in InboxSlots : pending_inbox[t].active}}

(* Slots are searched from the first one, both to put a message in and to  *)
(* take one out, so the inbox is no queue.  Still a message is overtaken   *)
(* by a later one only if some message older than both had left, and freed *)
(* its slot, before the later one came: the messages of one burst leave in *)
(* the order in which they came.  The exception is a message that waited   *)
(* for the whole range of millis(), which seems young again.               *)
OvertakenOnlyAfterRelease ==
  \A a, b \in DOMAIN taken :
    a < b /\ taken[a].id > taken[b].id =>
      \/ \E c \in 1..taken[a].left : taken[c].id < taken[b].id
      \/ taken[b].aged

(* Nothing leaves before the 100 ms that the ACK may need, not even around *)
(* the place where millis() wraps; the age is counted without it.          *)
AckFirst ==
  [][/\ \A s \in InboxSlots :
          pending_inbox[s].active /\ ~pending_inbox'[s].active => pending_inbox[s].age > AckDelay
     /\ \A s \in ReplySlots :
          pending_replies[s].active /\ ~pending_replies'[s].active
            => pending_replies[s].age > AckDelay]_vars

RepliesFor(n) ==
  Cardinality({s \in ReplySlots : pending_replies[s].active /\ pending_replies[s].sender = n})

(* A node is sent at most one "ping ok" for each of its own pings, also    *)
(* when the keys of two contacts begin with the same four octets.          *)
PongsOfOwnPings == \A n \in Nodes : pongs[n] + RepliesFor(n) <= pings[n]

(* A reply leaves its slot; the messages are a part of the refinement. *)
RepliesLeave ==
  \A s \in ReplySlots : pending_replies[s].active ~> ~pending_replies[s].active

(* The inbox implements the abstract one: pings and empty texts are not    *)
(* messages for it.                                                        *)
Inbox == INSTANCE LossyInbox WITH Capacity <- MAX_PENDING_INBOX, pending <- Queued

Lossy == Inbox!Spec

============================================================================
