-------------------------- MODULE WDPConcatProofs --------------------------
(* Lemmas about one reassembly slot, for both tables that are built of     *)
(* them, and the central one: a complete slot holds one whole message.     *)
EXTENDS WDPConcat, TLAPS, FiniteSetTheorems

FilledParts(slot) == {k \in Parts : slot.parts[k] # None}

(* The part numbers that get past the check are those of real parts. *)
LEMMA NumbersInRange == \A m \in Messages : Numbers(m) = 1..Total[m]
  BY MessagesAssumption DEF Numbers, PartInfo

(* The slot was opened by a part of message m. *)
OpenedBy(slot, m) ==
  /\ slot.sender = Sender[m]
  /\ slot.refNum = Ref[m]
  /\ slot.port = Port[m]
  /\ slot.totalParts = Total[m]

(* Part k of the slot came from a message with the slot's key. *)
PartOf(slot, k, m) ==
  /\ slot.sender = Sender[m]
  /\ slot.refNum = Ref[m]
  /\ k \in 1..Total[m]
  /\ slot.parts[k] = Frag(m, k)

(* What the code keeps true of an active slot. *)
GoodSlot(slot) ==
  /\ \E m \in Concatenated : OpenedBy(slot, m)
  /\ \A k \in FilledParts(slot) : \E m \in Concatenated : PartOf(slot, k, m)
  /\ slot.receivedParts = Cardinality(FilledParts(slot))

SlotOK(slot) == slot \in SlotType /\ (slot.active => GoodSlot(slot))

(* The slot collects the parts of message m. *)
Collects(slot, m) ==
  slot.active /\ slot.sender = Sender[m] /\ slot.refNum = Ref[m]

LEMMA FirstNaturals ==
  ASSUME NEW n \in Nat
  PROVE  IsFiniteSet(1..n) /\ Cardinality(1..n) = n
  <1>1. IsFiniteSet(1..n) /\ Cardinality(1..n) = IF 1 > n THEN 0 ELSE n - 1 + 1
    BY FS_Interval
  <1> QED
    BY <1>1

LEMMA PartsFinite == IsFiniteSet(Parts) /\ Cardinality(Parts) = MaxParts
  BY SlotsAssumption, FirstNaturals DEF Parts

(* A cleared slot, and one that was just opened. *)
LEMMA ClearedOK == SlotOK(ClearedMessage)
  <1>1. ClearedMessage \in SlotType
    BY SlotsAssumption DEF ClearedMessage, SlotType, ConcatAges
  <1> QED
    BY <1>1 DEF SlotOK, ClearedMessage

LEMMA OpenedOK ==
  ASSUME NEW m \in Concatenated, NEW age \in ConcatAges
  PROVE  SlotOK(OpenedMessage(m, age)) /\ Collects(OpenedMessage(m, age), m)
  <1> DEFINE slot == OpenedMessage(m, age)
  <1>0. m \in Messages
    BY MessagesAssumption
  <1>1. slot = [active |-> TRUE, refNum |-> Ref[m], totalParts |-> Total[m],
                receivedParts |-> 0, parts |-> [k \in Parts |-> None], port |-> Port[m],
                sender |-> Sender[m], age |-> age]
    BY DEF OpenedMessage
  <1> HIDE DEF slot
  <1>2. Ref[m] \in Nat /\ Total[m] \in Nat /\ Port[m] \in Nat
    BY <1>0, MessagesAssumption
  <1>3. slot \in SlotType
    BY <1>0, <1>1, <1>2, SlotsAssumption DEF SlotType
  <1>4. FilledParts(slot) = {}
    BY <1>1 DEF FilledParts
  <1>5. GoodSlot(slot)
    <2>1. OpenedBy(slot, m)
      BY <1>1 DEF OpenedBy
    <2>2. slot.receivedParts = Cardinality(FilledParts(slot))
      BY <1>1, <1>4, FS_EmptySet
    <2> QED
      BY <1>4, <2>1, <2>2 DEF GoodSlot
  <1> QED
    BY <1>1, <1>3, <1>5 DEF SlotOK, Collects, slot

(* Whatever slot the search loops settle on collects the fragment's message. *)
LEMMA FoundOK ==
  ASSUME NEW table, NEW m \in Concatenated, NEW s \in ConcatSlots, NEW age \in ConcatAges,
         SlotOK(table[s]), Chosen(table, m, s)
  PROVE  /\ SlotOK(FoundSlot(table, s, m, age))
         /\ Collects(FoundSlot(table, s, m, age), m)
  <1>1. CASE s \in Matching(table, m)
    BY <1>1 DEF Matching, FoundSlot, Collects
  <1>2. CASE s \in FreeSlots(table)
    BY <1>2, OpenedOK DEF FreeSlots, FoundSlot
  <1> QED
    BY <1>1, <1>2 DEF Chosen, IsFirst

(* Storing a part keeps the slot good: the counter counts the parts. *)
LEMMA FilledOK ==
  ASSUME NEW slot, NEW m \in Concatenated, NEW k \in 1..Total[m],
         SlotOK(slot), Collects(slot, m)
  PROVE  SlotOK(FilledSlot(slot, m, k)) /\ Collects(FilledSlot(slot, m, k), m)
  <1>1. CASE ~CanStore(slot, k)
    BY <1>1 DEF FilledSlot
  <1>2. CASE CanStore(slot, k)
    <2> DEFINE new == StoredPart(slot, m, k)
               F == FilledParts(slot)
    <2>0. m \in Messages /\ k \in Parts /\ slot.parts[k] = None /\ slot \in SlotType
      BY <1>2, MessagesAssumption DEF CanStore, SlotOK
    <2>1. Frag(m, k) \in Fragments
      BY <2>0 DEF Fragments
    <2>2. /\ new.active = slot.active /\ new.refNum = slot.refNum
          /\ new.totalParts = slot.totalParts
          /\ new.receivedParts = slot.receivedParts + 1
          /\ new.parts = [slot.parts EXCEPT ![k] = Frag(m, k)]
          /\ new.port = slot.port /\ new.sender = slot.sender /\ new.age = 0
      BY <2>0 DEF StoredPart, SlotType
    <2>2a. new = [slot EXCEPT !.parts = [slot.parts EXCEPT ![k] = Frag(m, k)],
                             !.receivedParts = slot.receivedParts + 1, !.age = 0]
      BY DEF StoredPart
    <2> HIDE DEF new
    <2>3. slot.parts \in [Parts -> Fragments \cup {None}]
      BY <2>0 DEF SlotType
    <2>4. /\ new.parts[k] = Frag(m, k)
          /\ \A j \in Parts : j # k => new.parts[j] = slot.parts[j]
          /\ new.parts \in [Parts -> Fragments \cup {None}]
      BY <2>0, <2>1, <2>2, <2>3
    <2>5. FilledParts(new) = F \cup {k} /\ k \notin F
      BY <2>0, <2>1, <2>4, NoneAssumption DEF FilledParts
    <2>6. GoodSlot(slot)
      BY DEF SlotOK, Collects
    <2>7. IsFiniteSet(F) /\ IsFiniteSet(FilledParts(new)) /\ Cardinality(FilledParts(new)) <= MaxParts
      BY PartsFinite, FS_Subset DEF FilledParts
    <2>8. Cardinality(FilledParts(new)) = Cardinality(F) + 1
      BY <2>5, <2>7, FS_AddElement
    <2>9. new.receivedParts = Cardinality(FilledParts(new))
      BY <2>2, <2>6, <2>8 DEF GoodSlot
    <2>10. Cardinality(FilledParts(new)) \in 0..MaxParts
      BY <2>7, FS_CardinalityType, SlotsAssumption
    <2>11. new \in SlotType
      <3>1. 0 \in ConcatAges
        BY SlotsAssumption DEF ConcatAges
      <3>2. slot.receivedParts + 1 \in 0..MaxParts
        BY <2>2, <2>9, <2>10
      <3> QED
        BY <2>0, <2>2, <2>2a, <2>4, <3>1, <3>2 DEF SlotType
    <2>12. \E n \in Concatenated : OpenedBy(new, n)
      BY <2>2, <2>6 DEF GoodSlot, OpenedBy
    <2>13. ASSUME NEW j \in FilledParts(new)
           PROVE  \E n \in Concatenated : PartOf(new, j, n)
      <3>1. CASE j = k
        BY <2>2, <2>4, <3>1 DEF PartOf, Collects
      <3>2. CASE j \in F
        <4>1. PICK n \in Concatenated : PartOf(slot, j, n)
          BY <2>6, <3>2 DEF GoodSlot
        <4>2. j \in Parts /\ j # k
          BY <2>5, <3>2 DEF FilledParts
        <4>3. PartOf(new, j, n)
          BY <2>2, <2>4, <4>1, <4>2 DEF PartOf
        <4> QED
          BY <4>3
      <3> QED
        BY <2>5, <2>13, <3>1, <3>2
    <2>14. SlotOK(new)
      BY <2>9, <2>11, <2>12, <2>13 DEF SlotOK, GoodSlot
    <2>15. Collects(new, m)
      BY <2>2 DEF Collects
    <2> QED
      BY <1>2, <2>14, <2>15 DEF FilledSlot, new
  <1> QED
    BY <1>1, <1>2

(* A complete slot has a client key, and unless its sender took a refNum   *)
(* twice it is exactly one message: as many distinct parts as the message  *)
(* has were stored, all of them parts of it, so none is missing.           *)
LEMMA CompleteIsWhole ==
  ASSUME NEW slot, SlotOK(slot), slot.active, IsComplete(slot), ~RefReused(slot.sender)
  PROVE  \E m \in Concatenated : OpenedBy(slot, m) /\ Reassembled(slot) = Payload(m)
  <1>1. GoodSlot(slot)
    BY DEF SlotOK
  <1>2. PICK m \in Concatenated : OpenedBy(slot, m)
    BY <1>1 DEF GoodSlot
  <1>3. ASSUME NEW k \in FilledParts(slot)
        PROVE  k \in 1..Total[m] /\ slot.parts[k] = Frag(m, k)
    <2>1. PICK n \in Concatenated : PartOf(slot, k, n)
      BY <1>1, <1>3 DEF GoodSlot
    <2>2. n = m
      BY <1>2, <2>1 DEF OpenedBy, PartOf, RefReused
    <2> QED
      BY <2>1, <2>2 DEF PartOf
  <1>4. Total[m] \in Nat
    BY <1>2, MessagesAssumption
  <1>5. IsFiniteSet(1..Total[m]) /\ Cardinality(1..Total[m]) = Total[m]
    BY <1>4, FirstNaturals
  <1>6. Cardinality(FilledParts(slot)) = Total[m]
    BY <1>1, <1>2 DEF GoodSlot, OpenedBy, IsComplete
  <1>7. FilledParts(slot) = 1..Total[m]
    <2> DEFINE S == 1..Total[m]
    <2>1. FilledParts(slot) \in SUBSET S
      BY <1>3
    <2>a. IsFiniteSet(S) /\ Cardinality(S) = Cardinality(FilledParts(slot))
      BY <1>5, <1>6
    <2> HIDE DEF S
    <2>2. S = FilledParts(slot)
      BY <2>1, <2>a, FS_Subset
    <2> QED
      BY <2>2 DEF S
  <1>8. Reassembled(slot) = Payload(m)
    BY <1>2, <1>3, <1>7 DEF Reassembled, Payload, OpenedBy
  <1> QED
    BY <1>2, <1>8

(* Cleanup and the passing of time keep a slot good. *)
LEMMA CleanedOK ==
  ASSUME NEW table, NEW s \in ConcatSlots, SlotOK(table[s])
  PROVE  SlotOK(CleanedTable(table)[s])
  BY ClearedOK DEF CleanedTable

LEMMA AgedOK ==
  ASSUME NEW table, NEW s \in ConcatSlots, SlotOK(table[s])
  PROVE  SlotOK(AgedTable(table)[s])
  <1> DEFINE slot == table[s]
             new == OlderMessage(slot)
  <1>1. CASE ~(slot.active /\ slot.age <= ConcatTimeout)
    BY <1>1 DEF AgedTable, OlderMessage
  <1>2. CASE slot.active /\ slot.age <= ConcatTimeout
    <2>1. slot \in SlotType /\ GoodSlot(slot)
      BY <1>2 DEF SlotOK
    <2>2. slot.age + 1 \in ConcatAges
      BY <1>2, <2>1, SlotsAssumption DEF SlotType, ConcatAges
    <2>3. new = [slot EXCEPT !.age = slot.age + 1]
      BY <1>2 DEF OlderMessage
    <2>4. new \in SlotType
      BY <2>1, <2>2, <2>3 DEF SlotType
    <2>5. /\ new.sender = slot.sender /\ new.refNum = slot.refNum /\ new.port = slot.port
          /\ new.totalParts = slot.totalParts /\ new.receivedParts = slot.receivedParts
          /\ new.parts = slot.parts /\ new.active = slot.active
      BY <2>1, <2>3 DEF SlotType
    <2> HIDE DEF new, slot
    <2>6. FilledParts(new) = FilledParts(slot)
      BY <2>5 DEF FilledParts
    <2>7. GoodSlot(new)
      BY <2>1, <2>5, <2>6 DEF GoodSlot, OpenedBy, PartOf
    <2>8. SlotOK(new)
      BY <2>4, <2>7 DEF SlotOK
    <2> QED
      BY <2>8 DEF AgedTable, new, slot
  <1> QED
    BY <1>1, <1>2

============================================================================
