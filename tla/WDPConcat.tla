----------------------------- MODULE WDPConcat -----------------------------
(***************************************************************************)
(* Reassembly of concatenated WDP messages, as both modes of the program   *)
(* do it: the ConcatMessage table of mode_proxy.h and the ap_concatMessages *)
(* table of mode_ap.h are searched, opened, filled and cleared by the same *)
(* code.  This module holds the message vocabulary and the operators on    *)
(* one table; WDPGateway and APMode own a table each.                      *)
(*                                                                         *)
(* A WDP message is a model value.  Its mesh sender, client port, 8-bit    *)
(* reference number and number of parts are constant functions.  The bytes *)
(* of part k of message m are the abstract value Frag(m, k): two fragments *)
(* are equal exactly when they are the same part of the same message.      *)
(***************************************************************************)
EXTENDS Naturals, FiniteSets

CONSTANTS
  Messages,       \* the WDP messages that are ever on the mesh
  Concatenated,   \* those sent with the 12-byte concatenation header
  Sender,         \* [Messages -> mesh node id], decoded from the mesh layer
  Port,           \* [Messages -> the port that identifies the client]
  Ref,            \* [Messages -> the refNum octet, millis() & 0xFF]
  Total,          \* [Messages -> the totalParts octet] (1 when simple)
  MaxParts,       \* parts a slot can hold: partReceived[16]
  ConcatSlots,    \* 1..MAX_CONCAT_MESSAGES
  ConcatTimeout,  \* ticks in the 30 s after which a slot is given up
  None            \* "nothing stored here"

ASSUME MessagesAssumption ==
  /\ Concatenated \subseteq Messages
  /\ Port \in [Messages -> Nat \ {0}]
  /\ Ref \in [Messages -> Nat]
  /\ Total \in [Messages -> Nat \ {0}]
  /\ \A m \in Messages \ Concatenated : Total[m] = 1
  /\ DOMAIN Sender = Messages

ASSUME SlotsAssumption ==
  /\ MaxParts \in Nat \ {0}
  /\ ConcatSlots \subseteq Nat
  /\ ConcatTimeout \in Nat

Parts == 1..MaxParts

(* Part k of message m as it travels over the mesh. *)
Frag(m, k) == [msg |-> m, part |-> k]

Fragments == UNION {{Frag(m, k) : k \in 1..Total[m]} : m \in Messages}

ASSUME NoneAssumption == None \notin Fragments

(* isValidWDPMessage on the part numbers, and the parts of a message that  *)
(* get past it into either mode's handler.                                 *)
PartInfo(total, current) == total # 0 /\ current # 0 /\ current <= total

Numbers(m) == {k \in 0..(Total[m] + 1) : PartInfo(Total[m], k)}

(* The whole user data of a message, as its sender meant it. *)
Payload(m) == [k \in 1..Total[m] |-> Frag(m, k)]

(* The sender took the same refNum octet twice (it is millis() & 0xFF), so *)
(* the receiver cannot tell the two messages apart.                        *)
RefReused(n) ==
  \E m1, m2 \in Concatenated :
    m1 # m2 /\ Sender[m1] = n /\ Sender[m2] = n /\ Ref[m1] = Ref[m2]

----------------------------------------------------------------------------
(* One slot.  age is now - lastUpdate in ticks, capped just past the       *)
(* timeout; partSizes and data are together the function parts.            *)

ConcatAges == 0..(ConcatTimeout + 1)

ClearedMessage ==
  [active |-> FALSE, refNum |-> 0, totalParts |-> 0, receivedParts |-> 0,
   parts |-> [k \in Parts |-> None], port |-> 0, sender |-> None, age |-> 0]

(* Faulty variant: the sender is not part of the key. *)
MatchingAnySender(table, m) ==
  {s \in ConcatSlots : table[s].active /\ table[s].refNum = Ref[m]}

(* Slots whose active entry has the fragment's refNum and sender. *)
Matching(table, m) ==
  {s \in ConcatSlots : /\ table[s].active
                       /\ table[s].refNum = Ref[m]
                       /\ table[s].sender = Sender[m]}

FreeSlots(table) == {s \in ConcatSlots : ~table[s].active}

(* The element a loop over the table stops at. *)
IsFirst(s, S) == s \in S /\ \A t \in S : s <= t

(* Faulty variant: the source port is read from the wrong octets. *)
OpenedWithWrongPort(m, age) ==
  [active |-> TRUE, refNum |-> Ref[m], totalParts |-> Total[m], receivedParts |-> 0,
   parts |-> [k \in Parts |-> None], port |-> Ref[m], sender |-> Sender[m], age |-> age]

(* A slot opened for message m. *)
OpenedMessage(m, age) ==
  [active |-> TRUE, refNum |-> Ref[m], totalParts |-> Total[m], receivedParts |-> 0,
   parts |-> [k \in Parts |-> None], port |-> Port[m], sender |-> Sender[m], age |-> age]

CanStore(slot, k) == k \in Parts /\ slot.parts[k] = None

StoredPart(slot, m, k) ==
  [slot EXCEPT !.parts = [@ EXCEPT ![k] = Frag(m, k)],
               !.receivedParts = @ + 1,
               !.age = 0]

(* Slot s after the "find or create" and "store this part" of one          *)
(* fragment; openAge is the age a freshly opened slot starts with.         *)
FoundSlot(table, s, m, openAge) ==
  IF table[s].active THEN table[s] ELSE OpenedMessage(m, openAge)

(* Faulty variant: a repeated part renews lastUpdate as well. *)
FilledAlwaysRenewed(slot, m, k) ==
  IF CanStore(slot, k) THEN StoredPart(slot, m, k) ELSE [slot EXCEPT !.age = 0]

FilledSlot(slot, m, k) == IF CanStore(slot, k) THEN StoredPart(slot, m, k) ELSE slot

(* The slot the two search loops settle on, if there is one. *)
Chosen(table, m, s) ==
  \/ IsFirst(s, Matching(table, m))
  \/ Matching(table, m) = {} /\ IsFirst(s, FreeSlots(table))

NoSlot(table, m) == Matching(table, m) = {} /\ FreeSlots(table) = {}

IsComplete(slot) == slot.receivedParts = slot.totalParts

Reassembled(slot) == [k \in 1..slot.totalParts |-> slot.parts[k]]

(* The table after the ">30s" cleanup pass, and after one tick. *)
ExpiredMessage(slot) == slot.active /\ slot.age > ConcatTimeout

CleanedTable(table) ==
  [s \in ConcatSlots |-> IF ExpiredMessage(table[s]) THEN ClearedMessage ELSE table[s]]

OlderMessage(slot) ==
  IF slot.active /\ slot.age <= ConcatTimeout THEN [slot EXCEPT !.age = @ + 1] ELSE slot

AgedTable(table) == [s \in ConcatSlots |-> OlderMessage(table[s])]

----------------------------------------------------------------------------
(* What every table satisfies. *)

SlotType ==
  [active : BOOLEAN, refNum : Nat, totalParts : Nat, receivedParts : 0..MaxParts,
   parts : [Parts -> Fragments \cup {None}], port : Nat,
   sender : {Sender[m] : m \in Messages} \cup {None}, age : ConcatAges]

============================================================================
