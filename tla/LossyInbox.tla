----------------------------- MODULE LossyInbox -----------------------------
(***************************************************************************)
(* What the node promises of the messages it receives, without slots,      *)
(* clocks or contents: a bounded set of messages, each of which leaves     *)
(* once, to the mode's handler or to nowhere, in any order.  A message is  *)
(* lost on arrival only when the set is full.                              *)
(***************************************************************************)
EXTENDS Naturals, Sequences, FiniteSets

CONSTANTS
  Capacity,      \* MAX_PENDING_INBOX
  MaxMessages    \* bound: messages that arrive

VARIABLES
  received,      \* messages so far; they are numbered as they arrive
  pending,       \* numbers of those that are queued
  handed         \* numbers of those given to the handler, in that order

vars == <<received, pending, handed>>

Init == received = 0 /\ pending = {} /\ handed = <<>>

Receive ==
  /\ received < MaxMessages
  /\ received' = received + 1
  /\ \/ /\ Cardinality(pending) < Capacity
        /\ pending' = pending \cup {received'}
     \/ /\ Cardinality(pending) = Capacity
        /\ UNCHANGED pending
  /\ UNCHANGED handed

HandOver(i) ==
  /\ i \in pending
  /\ pending' = pending \ {i}
  /\ handed' = Append(handed, i)
  /\ UNCHANGED received

Reject(i) ==
  /\ i \in pending
  /\ pending' = pending \ {i}
  /\ UNCHANGED <<received, handed>>

Leave(i) == HandOver(i) \/ Reject(i)

Next == Receive \/ \E i \in 1..MaxMessages : Leave(i)

(* Nothing stays queued for ever. *)
Spec == Init /\ [][Next]_vars /\ \A i \in 1..MaxMessages : WF_vars(Leave(i))

============================================================================
