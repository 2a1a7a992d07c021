----------------------------- MODULE Discovery -----------------------------
(***************************************************************************)
(* Proxy path discovery of the access point: startProxyDiscovery,          *)
(* sendProxyPing, checkProxyPingAck and the retry branch of MyMesh::loop.  *)
(* A ping is a mesh message; the node remembers the ACK it waits for in    *)
(* expected_ack_crc, which every other message it sends overwrites.        *)
(*                                                                         *)
(* A CRC is named by the message it belongs to: ping n by n, any other     *)
(* message by a member of Others.  An ACK may be lost, late or repeated.   *)
(* ACKs, sends and the discovery part of loop may follow each other in any *)
(* order: loop runs again inside the wait for a browser's answer.          *)
(***************************************************************************)
EXTENDS Naturals

CONSTANTS
  MaxRetries,   \* AP_PROXY_DISCOVERY_MAX_RETRIES
  PingTimeout,  \* ticks in PROXY_PING_TIMEOUT_MS
  Others,       \* WDP messages, replies and console messages of this node
  None          \* expected_ack_crc = 0

Pings == 1..MaxRetries

ASSUME DiscoveryAssumption ==
  /\ MaxRetries \in Nat \ {0}
  /\ PingTimeout \in Nat
  /\ Others \cap Pings = {}
  /\ None \notin Others \cup Pings

VARIABLES
  running,     \* startProxyDiscovery has been called by setup
  inProgress,  \* ap_proxy_discovery_in_progress
  attempts,    \* ap_proxy_discovery_attempts
  discovered,  \* ap_proxy_path_discovered
  pending,     \* proxy_ping_pending
  pingAge,     \* ticks since proxy_ping_sent_time
  expected,    \* expected_ack_crc
  onAir,       \* messages sent, whose ACK may come at any time
  lastAck,     \* history: the message whose ACK last cleared expected
  pingFailed   \* history: a ping could not be sent

discovery == <<running, inProgress, attempts, discovered, pending, pingAge, pingFailed>>
discoveryVars == <<discovery, expected, onAir, lastAck>>

DiscoveryInit ==
  /\ running = FALSE
  /\ inProgress = FALSE
  /\ attempts = 0
  /\ discovered = FALSE
  /\ pending = FALSE
  /\ pingAge = 0
  /\ expected = None
  /\ onAir = {}
  /\ lastAck = None
  /\ pingFailed = FALSE

----------------------------------------------------------------------------
(* External: sendMessage writes the CRC it will expect; when it fails it   *)
(* may have done so already or not.                                        *)
MessageSent(m) ==
  /\ expected' = m
  /\ onAir' = onAir \cup {m}

MessageFailed(m) ==
  /\ expected' \in {expected, m}
  /\ UNCHANGED onAir

(* sendProxyPing for attempt n.  A failure is only logged; both callers    *)
(* come here with proxy_ping_pending false.                                *)
SendProxyPing(n) ==
  \/ /\ MessageSent(n)
     /\ pending' = TRUE
     /\ pingAge' = 0
     /\ UNCHANGED pingFailed
  \/ /\ MessageFailed(n)
     /\ pending' = FALSE
     /\ pingFailed' = TRUE
     /\ UNCHANGED pingAge

(* The proxy is in the contacts or could be added: first attempt. *)
StartProxyDiscovery ==
  /\ ~running
  /\ running' = TRUE
  /\ inProgress' = TRUE
  /\ discovered' = FALSE
  /\ attempts' = 1
  /\ SendProxyPing(1)
  /\ UNCHANGED lastAck

(* "Failed to add proxy contact!": discovery is never begun. *)
NoProxyContact ==
  /\ ~running
  /\ running' = TRUE
  /\ UNCHANGED <<inProgress, attempts, discovered, pending, pingAge, expected, onAir, lastAck, pingFailed>>

(* Any other message of this node goes out, or fails to. *)
SendOther(o) ==
  /\ o \notin onAir
  /\ MessageSent(o) \/ MessageFailed(o)
  /\ UNCHANGED <<discovery, lastAck>>

(* Faulty variant: the CRC is not compared. *)
MatchesAny(m) == TRUE

Matches(m) == expected = m

ProcessAck(m) ==
  /\ m \in onAir
  /\ Matches(m)
  /\ expected' = None
  /\ lastAck' = m
  /\ UNCHANGED <<discovery, onAir>>

----------------------------------------------------------------------------
(* The discovery part of loop *)

AckSeen == pending /\ expected = None

(* checkProxyPingAck *)
CheckProxyPingAck ==
  /\ AckSeen
  /\ pending' = FALSE
  /\ discovered' = TRUE
  /\ inProgress' = FALSE
  /\ UNCHANGED <<running, attempts, pingAge, pingFailed, expected, onAir, lastAck>>

(* Faulty variant: the timeout is looked at before the ACK. *)
PingTimedOutFirst ==
  inProgress /\ ~discovered /\ pending /\ pingAge > PingTimeout

(* The timeout branch, which loop reaches after checkProxyPingAck. *)
PingTimedOut ==
  ~AckSeen /\ inProgress /\ ~discovered /\ pending /\ pingAge > PingTimeout

(* Faulty variant: the attempt is not counted. *)
NotIncremented == attempts

Incremented == attempts + 1

(* Faulty variant: the last retry is not made. *)
ExhaustedEarly(n) == n >= MaxRetries

Exhausted(n) == n > MaxRetries

(* One more ping, over a path that was reset. *)
RetryPing ==
  /\ PingTimedOut
  /\ attempts' = Incremented
  /\ ~Exhausted(attempts')
  /\ SendProxyPing(attempts')
  /\ UNCHANGED <<running, inProgress, discovered, lastAck>>

(* "Proxy discovery failed after max retries" *)
NoMoreRetries ==
  /\ PingTimedOut
  /\ attempts' = Incremented
  /\ Exhausted(attempts')
  /\ inProgress' = FALSE
  /\ pending' = FALSE
  /\ UNCHANGED <<running, discovered, pingAge, pingFailed, expected, onAir, lastAck>>

DiscoveryLoop == CheckProxyPingAck \/ RetryPing \/ NoMoreRetries

(* millis() advances. *)
DiscoveryTick ==
  /\ pending /\ pingAge <= PingTimeout
  /\ pingAge' = pingAge + 1
  /\ UNCHANGED <<running, inProgress, attempts, discovered, pending, pingFailed, expected, onAir, lastAck>>

DiscoveryNext ==
  \/ StartProxyDiscovery
  \/ NoProxyContact
  \/ \E o \in Others : SendOther(o)
  \/ \E m \in Pings \cup Others : ProcessAck(m)
  \/ DiscoveryLoop
  \/ DiscoveryTick

DiscoverySpec == DiscoveryInit /\ [][DiscoveryNext]_discoveryVars

(* loop is called for ever, and time passes. *)
FairDiscoverySpec ==
  DiscoverySpec /\ WF_discoveryVars(DiscoveryLoop) /\ WF_discoveryVars(DiscoveryTick)

----------------------------------------------------------------------------
(* Correctness *)

(* The variables have the types of their declarations. *)
DiscoveryTypeOK ==
  /\ running \in BOOLEAN /\ inProgress \in BOOLEAN /\ discovered \in BOOLEAN
  /\ pending \in BOOLEAN /\ pingFailed \in BOOLEAN
  /\ attempts \in 0..(MaxRetries + 1)
  /\ pingAge \in 0..(PingTimeout + 1)
  /\ expected \in Pings \cup Others \cup {None}
  /\ onAir \subseteq Pings \cup Others
  /\ lastAck \in Pings \cup Others \cup {None}

(* The three flags and the counter, kept in two files, agree: a ping is    *)
(* pending only in a discovery that is not over; a discovery is never both *)
(* in progress and done; and it is given up only after MaxRetries pings.   *)
HonestStatus ==
  /\ pending => inProgress
  /\ ~(inProgress /\ discovered)
  /\ inProgress => attempts \in Pings
  /\ attempts > 0 /\ ~inProgress /\ ~discovered => attempts = MaxRetries + 1

(* A late or repeated ACK of an earlier attempt is never taken for the one *)
(* that is awaited: discovery ends by the ACK of the current ping or of    *)
(* another message that overwrote expected_ack_crc.                        *)
DiscoveredByCurrentAck == discovered => lastAck = attempts \/ lastAck \in Others

(* A ping whose ACK came is sent again, or given up, only when another     *)
(* message was sent before loop looked and so overwrote the sign of the    *)
(* ACK in expected_ack_crc; never because its timeout had passed by then.  *)
AckLostOnlyToOthers ==
  [][attempts' # attempts /\ attempts > 0 /\ lastAck = attempts => expected \in Others]_discoveryVars

(* Discovery comes to an end, unless a ping could not be sent. *)
DiscoveryEnds == inProgress ~> (~inProgress \/ pingFailed)

============================================================================
