-------------------------- MODULE NodePartsProofs ---------------------------
(***************************************************************************)
(* Proofs about four parts of a node that share no state: Discovery, for   *)
(* any number of retries, any timeout and any other traffic; NodeControls, *)
(* for every size of the line and every length of a long press; WDPFraming *)
(* for every payload length up to MaxLen; and Base91, for every string of  *)
(* octets, every text and every buffer.                                    *)
(***************************************************************************)
EXTENDS Discovery, NodeControls, WDPFraming, Base91, SequenceTheorems, TLAPS

----------------------------------------------------------------------------
(* Discovery *)

(* Whose ACK is awaited, and whose was seen.  Only while a ping is pending *)
(* is its CRC known to be the current one: a retry that could not be sent  *)
(* may leave the CRC of an earlier ping behind.                            *)
AckInv ==
  /\ pending /\ expected \in Pings => expected = attempts
  /\ pending /\ expected = None => lastAck = attempts \/ lastAck \in Others
  /\ discovered => expected \notin Pings
  /\ pending => running
  /\ ~running => attempts = 0
  /\ expected \in Pings => expected <= attempts
  /\ lastAck \in Pings => lastAck <= attempts
  /\ pending /\ lastAck = attempts => expected \in Others \cup {None}

DiscoveryInv == DiscoveryTypeOK /\ HonestStatus /\ AckInv /\ DiscoveredByCurrentAck

(* An attempt number is a count, and is no other message's name. *)
LEMMA PingFacts ==
  ASSUME NEW n \in Pings
  PROVE  n \in 0..(MaxRetries + 1) /\ n # MaxRetries + 1 /\ n > 0 /\ n # None /\ n \notin Others
  BY DiscoveryAssumption DEF Pings

(* Before setup all flags are down. *)
LEMMA InitDiscovery == DiscoveryInit => DiscoveryInv
  <1> SUFFICES ASSUME DiscoveryInit PROVE DiscoveryInv
    OBVIOUS
  <1> USE DEF DiscoveryInit
  <1>1. attempts \in 0..(MaxRetries + 1) /\ pingAge \in 0..(PingTimeout + 1) /\ ~(attempts > 0)
    BY DiscoveryAssumption
  <1>2. DiscoveryTypeOK
    BY <1>1 DEF DiscoveryTypeOK
  <1>3. HonestStatus
    BY <1>1 DEF HonestStatus
  <1>4. None \notin Pings
    BY DiscoveryAssumption
  <1> QED BY <1>2, <1>3, <1>4 DEF DiscoveryInv, AckInv, DiscoveredByCurrentAck

(* A ping of attempt n, sent or failed, by a discovery in progress. *)
LEMMA SendProxyPingOK ==
  ASSUME DiscoveryInv, NEW n \in Pings, SendProxyPing(n), attempts < n, attempts' = n,
         inProgress' = TRUE, discovered' = FALSE, running' = TRUE, UNCHANGED lastAck
  PROVE  DiscoveryInv'
  <1>1. n \in 0..(MaxRetries + 1) /\ n # None
    BY PingFacts
  <1>2. 0 \in 0..(PingTimeout + 1)
    BY DiscoveryAssumption
  <1>3. DiscoveryTypeOK'
    BY <1>1, <1>2 DEF SendProxyPing, MessageSent, MessageFailed, DiscoveryInv, DiscoveryTypeOK
  <1>4. HonestStatus' /\ DiscoveredByCurrentAck'
    BY DEF HonestStatus, DiscoveredByCurrentAck
  <1>5. (expected \in Pings => expected < n) /\ (lastAck \in Pings => lastAck < n) /\ lastAck # n
    BY <1>1 DEF DiscoveryInv, DiscoveryTypeOK, AckInv, Pings
  <1>6. (expected' \in Pings => expected' <= n) /\ (lastAck \in Pings => lastAck <= n)
    BY <1>1, <1>5 DEF SendProxyPing, MessageSent, MessageFailed, Pings
  <1>7. AckInv'
    BY <1>1, <1>5, <1>6 DEF SendProxyPing, MessageSent, MessageFailed, AckInv
  <1> QED BY <1>3, <1>4, <1>7 DEF DiscoveryInv

(* Every step of Discovery preserves the invariant. *)
LEMMA StepDiscovery == DiscoveryInv /\ [DiscoveryNext]_discoveryVars => DiscoveryInv'
  <1> SUFFICES ASSUME DiscoveryInv, [DiscoveryNext]_discoveryVars PROVE DiscoveryInv'
    OBVIOUS
  <1> USE DiscoveryAssumption
  <1>1. CASE StartProxyDiscovery
    <2>1. 1 \in Pings
      BY DEF Pings
    <2>2. attempts < 1
      BY <1>1 DEF StartProxyDiscovery, DiscoveryInv, AckInv
    <2> QED BY <1>1, <2>1, <2>2, SendProxyPingOK DEF StartProxyDiscovery
  <1>2. CASE NoProxyContact
    BY <1>2 DEF NoProxyContact, DiscoveryInv, DiscoveryTypeOK, HonestStatus, AckInv, DiscoveredByCurrentAck
  <1>3. ASSUME NEW o \in Others, SendOther(o) PROVE DiscoveryInv'
    BY <1>3 DEF SendOther, MessageSent, MessageFailed, discovery, DiscoveryInv, DiscoveryTypeOK, HonestStatus,
                AckInv, DiscoveredByCurrentAck
  <1>4. ASSUME NEW m \in Pings \cup Others, ProcessAck(m) PROVE DiscoveryInv'
    BY <1>4 DEF ProcessAck, Matches, discovery, DiscoveryInv, DiscoveryTypeOK, HonestStatus, AckInv,
                DiscoveredByCurrentAck
  <1>5. CASE CheckProxyPingAck
    BY <1>5 DEF CheckProxyPingAck, AckSeen, DiscoveryInv, DiscoveryTypeOK, HonestStatus, AckInv,
                DiscoveredByCurrentAck
  <1>6. CASE RetryPing
    <2>1. inProgress /\ ~discovered /\ attempts \in Pings
      BY <1>6 DEF RetryPing, PingTimedOut, DiscoveryInv, HonestStatus
    <2>2. attempts' \in Pings
      BY <1>6, <2>1 DEF RetryPing, Incremented, Exhausted, Pings
    <2>3. SendProxyPing(attempts') /\ UNCHANGED lastAck
      BY <1>6 DEF RetryPing
    <2>4. inProgress' = TRUE /\ discovered' = FALSE /\ running' = TRUE
      BY <1>6, <2>1 DEF RetryPing, PingTimedOut, DiscoveryInv, DiscoveryTypeOK, AckInv
    <2>5. attempts < attempts'
      BY <1>6, <2>1 DEF RetryPing, Incremented, Pings
    <2> QED BY <2>2, <2>3, <2>4, <2>5, SendProxyPingOK
  <1>7. CASE NoMoreRetries
    <2>1. inProgress /\ attempts \in Pings /\ ~discovered
      BY <1>7 DEF NoMoreRetries, PingTimedOut, DiscoveryInv, HonestStatus
    <2>2. attempts' = MaxRetries + 1 /\ attempts' \in 0..(MaxRetries + 1)
      BY <1>7, <2>1 DEF NoMoreRetries, Incremented, Exhausted, Pings
    <2>3. \A n \in Pings : n <= attempts'
      BY <2>2 DEF Pings
    <2>4. DiscoveryTypeOK' /\ HonestStatus' /\ DiscoveredByCurrentAck'
      BY <1>7, <2>1, <2>2 DEF NoMoreRetries, PingTimedOut, DiscoveryInv, DiscoveryTypeOK, HonestStatus,
                              DiscoveredByCurrentAck
    <2>5. AckInv'
      BY <1>7, <2>1, <2>2, <2>3 DEF NoMoreRetries, PingTimedOut, DiscoveryInv, DiscoveryTypeOK, AckInv
    <2> QED BY <2>4, <2>5 DEF DiscoveryInv
  <1>8. CASE DiscoveryTick
    BY <1>8 DEF DiscoveryTick, DiscoveryInv, DiscoveryTypeOK, HonestStatus, AckInv, DiscoveredByCurrentAck
  <1>9. CASE UNCHANGED discoveryVars
    BY <1>9 DEF discoveryVars, discovery, DiscoveryInv, DiscoveryTypeOK, HonestStatus, AckInv, DiscoveredByCurrentAck
  <1> QED BY <1>1, <1>2, <1>3, <1>4, <1>5, <1>6, <1>7, <1>8, <1>9 DEF DiscoveryNext, DiscoveryLoop

(* The invariant holds of every reachable state. *)
THEOREM DiscoveryInvariant == DiscoverySpec => []DiscoveryInv
  <1> QED BY InitDiscovery, StepDiscovery, PTL DEF DiscoverySpec

(* The counters and flags of the discovery keep their types. *)
THEOREM DiscoveryTypeCorrect == DiscoverySpec => []DiscoveryTypeOK
  <1>1. DiscoveryInv => DiscoveryTypeOK
    BY DEF DiscoveryInv
  <1> QED BY <1>1, DiscoveryInvariant, PTL

(* The flags of main.cpp and mode_ap.h agree, and discovery is given up    *)
(* only after all its retries.                                             *)
THEOREM StatusHonest == DiscoverySpec => []HonestStatus
  <1>1. DiscoveryInv => HonestStatus
    BY DEF DiscoveryInv
  <1> QED BY <1>1, DiscoveryInvariant, PTL

(* No ACK of an earlier ping ends a discovery. *)
THEOREM CurrentAckOnly == DiscoverySpec => []DiscoveredByCurrentAck
  <1>1. DiscoveryInv => DiscoveredByCurrentAck
    BY DEF DiscoveryInv
  <1> QED BY <1>1, DiscoveryInvariant, PTL

(* An acknowledged ping is repeated or given up only after another message *)
(* has overwritten expected_ack_crc.                                       *)
THEOREM AckNotForgotten == DiscoverySpec => AckLostOnlyToOthers
  <1>1. ASSUME DiscoveryInv, [DiscoveryNext]_discoveryVars,
               attempts' # attempts, attempts > 0, lastAck = attempts
        PROVE  expected \in Others
    <2>1. CASE PingTimedOut
      BY <1>1, <2>1 DEF PingTimedOut, AckSeen, DiscoveryInv, AckInv
    <2>2. CASE StartProxyDiscovery
      BY <1>1, <2>2 DEF StartProxyDiscovery, DiscoveryInv, AckInv
    <2> QED
      BY <1>1, <2>1, <2>2 DEF DiscoveryNext, discoveryVars, discovery, NoProxyContact, SendOther,
                              ProcessAck, DiscoveryLoop, CheckProxyPingAck, RetryPing,
                              NoMoreRetries, DiscoveryTick
  <1>2. DiscoveryInv /\ [DiscoveryNext]_discoveryVars =>
          [attempts' # attempts /\ attempts > 0 /\ lastAck = attempts => expected \in Others]_discoveryVars
    BY <1>1
  <1> QED BY <1>2, DiscoveryInvariant, PTL DEF DiscoverySpec, AckLostOnlyToOthers

----------------------------------------------------------------------------
(* The console and the button *)

(* While no release was missed, the button has been down at least as long  *)
(* as the program counts; and a node that is past its start saw the button *)
(* up since it was woken.                                                  *)
ButtonInv ==
  /\ buttonWasPressed /\ ~missed => button /\ pressTime <= held
  /\ pc \in {"console", "button", "halted"} => released
  /\ pc = "wake" /\ ~button => released

ControlsInv == ControlsTypeOK /\ ButtonInv

(* The initial values are in the ranges, and an empty line is not full.    *)
LEMMA ZeroInRange == 0 \in 0..LineMax /\ 0 \in 0..LongPress /\ 0 # LineMax /\ 0 <= 0
  BY ControlsAssumption

LEMMA InitControls == ControlsInit => ControlsInv
  <1> SUFFICES ASSUME ControlsInit PROVE ControlsInv
    OBVIOUS
  <1>1. ControlsTypeOK
    BY ZeroInRange, Zenon DEF ControlsInit, ControlsTypeOK
  <1>2. ButtonInv
    BY DEF ControlsInit, ButtonInv
  <1> QED
    BY <1>1, <1>2 DEF ControlsInv

(* After a loss of power memory is as the initialisers leave it.           *)
LEMMA PowerDownControls ==
  ASSUME ControlsInv, NEW state \in {"off", "asleep"}, PowerDown(state) PROVE ControlsInv'
  <1>1. ControlsTypeOK'
    BY ZeroInRange, Zenon DEF PowerDown, ControlsInv, ControlsTypeOK
  <1>2. ButtonInv'
    BY DEF PowerDown, ButtonInv
  <1> QED
    BY <1>1, <1>2 DEF ControlsInv

(* One step per action; the console leaves the button alone.               *)
LEMMA StepControls == ControlsInv /\ [ControlsNext]_controlsVars => ControlsInv'
  <1> SUFFICES ASSUME ControlsInv, [ControlsNext]_controlsVars PROVE ControlsInv'
    OBVIOUS
  <1> USE ControlsAssumption
  <1>1. CASE PowerLoss
    BY <1>1, PowerDownControls DEF PowerLoss
  <1>2. CASE Setup
    BY <1>2 DEF Setup, Released, ControlsInv, ControlsTypeOK, ButtonInv, consoleVars
  <1>3. CASE Console
    <2>1. UNCHANGED buttonVars /\ pc = "console" /\ pc' \in {"console", "button"}
      BY <1>3 DEF Console
    <2>2. /\ line' \in 0..LineMax
          /\ full' \in BOOLEAN /\ tmp_buf' \in {"zero", "cr", "other"}
          /\ full' <=> line' = LineMax
      <3>1. ASSUME NEW n \in 0..(LineMax - line), line' = line + n, full' = Fills(line + n), UNCHANGED tmp_buf
            PROVE  <2>2
        <4>1. line + n \in 0..LineMax
          BY <3>1 DEF ControlsInv, ControlsTypeOK
        <4> QED
          BY <3>1, <4>1, Zenon DEF Fills, ControlsInv, ControlsTypeOK
      <3>2. CASE HandleCommand
        BY <3>2, ZeroInRange, Zenon DEF HandleCommand, ControlsInv, ControlsTypeOK
      <3>3. CASE UNCHANGED consoleVars
        BY <3>3 DEF consoleVars, ControlsInv, ControlsTypeOK
      <3> QED
        BY <1>3, <3>1, <3>2, <3>3 DEF Console
    <2> QED
      BY <2>1, <2>2 DEF buttonVars, ControlsInv, ControlsTypeOK, ButtonInv
  <1>4. CASE CheckUserButton
    <2>1. CASE PowerDown("asleep")
      BY <2>1, PowerDownControls
    <2>2. CASE ~PowerDown("asleep")
      <3>1. /\ pc = "button" /\ pc' = "console"
            /\ UNCHANGED <<button, held, released, consoleVars>>
            /\ \/ button /\ buttonWasPressed' = TRUE /\ pressTime' = 0 /\ missed' = FALSE
               \/ UNCHANGED <<buttonWasPressed, pressTime, missed>>
               \/ buttonWasPressed' = FALSE /\ missed' = FALSE /\ UNCHANGED pressTime
        BY <1>4, <2>2 DEF CheckUserButton
      <3>2. ControlsTypeOK'
        BY <3>1, ZeroInRange, Zenon DEF ControlsInv, ControlsTypeOK, consoleVars
      <3>3. ButtonInv'
        BY <3>1 DEF ControlsInv, ControlsTypeOK, ButtonInv
      <3> QED
        BY <3>2, <3>3 DEF ControlsInv
    <2> QED
      BY <2>1, <2>2
  <1>5. CASE PressOrRelease
    BY <1>5 DEF PressOrRelease, ControlsInv, ControlsTypeOK, ButtonInv, consoleVars
  <1>6. CASE ControlsTick
    BY <1>6 DEF ControlsTick, ControlsInv, ControlsTypeOK, ButtonInv, consoleVars
  <1>7. CASE UNCHANGED controlsVars
    BY <1>7 DEF controlsVars, consoleVars, buttonVars, ControlsInv, ControlsTypeOK, ButtonInv
  <1> QED
    BY <1>1, <1>2, <1>3, <1>4, <1>5, <1>6, <1>7 DEF ControlsNext

(* The console line stays in command[], and is marked full exactly when    *)
(* it is; the counters of checkUserButton stay in range.                   *)
THEOREM ControlsTypeCorrect == ControlsSpec => []ControlsTypeOK
  <1>1. ControlsInv => ControlsTypeOK
    BY DEF ControlsInv
  <1> QED
    BY <1>1, InitControls, StepControls, PTL DEF ControlsSpec

(* enterDeepSleep is reached only by a long press, or by presses between   *)
(* which the loop did not look, and never by the press that woke the node. *)
THEOREM SleepOnlyWhenHeld == ControlsSpec => SleepMeansHeld
  <1>1. ControlsInv /\ [ControlsNext]_controlsVars =>
          [pc # "asleep" /\ pc' = "asleep" => released /\ (held >= LongPress \/ missed)]_controlsVars
    <2> SUFFICES ASSUME ControlsInv, ControlsNext, pc # "asleep", pc' = "asleep"
                 PROVE  released /\ (held >= LongPress \/ missed)
      BY DEF controlsVars
    <2>1. CheckUserButton /\ button /\ buttonWasPressed /\ pressTime >= LongPress
      BY DEF ControlsNext, PowerLoss, PowerDown, Setup, Console, CheckUserButton, PressOrRelease, ControlsTick
    <2>2. released
      BY <2>1 DEF CheckUserButton, ControlsInv, ButtonInv
    <2>3. CASE ~missed
      <3>1. pressTime <= held /\ pressTime \in Nat /\ held \in Nat
        BY <2>1, <2>3 DEF ControlsInv, ButtonInv, ControlsTypeOK
      <3> QED
        BY <2>1, <2>2, <3>1, ControlsAssumption
    <2> QED
      BY <2>2, <2>3 DEF ControlsInv, ControlsTypeOK
  <1> QED
    BY <1>1, InitControls, StepControls, PTL DEF ControlsSpec, SleepMeansHeld

----------------------------------------------------------------------------
(* Fragmentation *)

(* What part number `sent' of a fragmented payload looks like. *)
LatestPart ==
  /\ offset = (sent - 1) * 108
  /\ offset < len
  /\ partLen = PartLen(len, offset)
  /\ wire = 12 + partLen

(* Inductive: where the sender is, as a function of len and sent alone. *)
Progress ==
  /\ IsSimple(len) => /\ sent \in {0, 1}
                      /\ offset = 0
                      /\ covered = partLen
                      /\ partLen = (IF sent = 0 THEN 0 ELSE len)
                      /\ wire = (IF sent = 0 THEN 0 ELSE 7 + len)
  /\ ~IsSimple(len) => /\ sent <= totalParts(len)
                       /\ covered = (IF sent * 108 < len THEN sent * 108 ELSE len)
                       /\ sent = 0 => offset = 0 /\ partLen = 0 /\ wire = 0
                       /\ sent > 0 => LatestPart

FramingInv == FramingTypeOK /\ Progress

(* The rounded-up division: the last part starts inside the payload and    *)
(* ends at or after its end, and a payload of at most 1500 octets that is  *)
(* not simple has 2 to 14 parts.                                           *)
LEMMA TotalParts ==
  ASSUME NEW n \in 0..1500
  PROVE  \E tp \in 0..14 : /\ totalParts(n) = tp
                           /\ n <= tp * 108
                           /\ n > 0 => (tp - 1) * 108 < n
                           /\ ~IsSimple(n) => tp >= 2
  BY DEF totalParts, maxPayloadConcat, MESHCORE_MAX_BINARY_PAYLOAD, IsSimple, maxPayloadSimple

USE DEF MESHCORE_MAX_BINARY_PAYLOAD, maxPayloadSimple, maxPayloadConcat

LEMMA InitProgress == FramingInit => FramingInv
  <1> SUFFICES ASSUME FramingInit PROVE FramingInv
    OBVIOUS
  <1>1. len \in 0..1500
    BY MaxLenAssumption DEF FramingInit
  <1>2. FramingTypeOK
    BY DEF FramingInit, FramingTypeOK
  <1>3. ~IsSimple(len) => totalParts(len) \in 2..14
    BY <1>1, TotalParts, SMTT(40)
  <1>4. Progress
    BY <1>1, <1>3 DEF FramingInit, Progress, IsSimple
  <1> QED
    BY <1>2, <1>4 DEF FramingInv

LEMMA StepProgress == FramingInv /\ [FramingNext]_framingVars => FramingInv'
  <1> SUFFICES ASSUME FramingInv, [FramingNext]_framingVars PROVE FramingInv'
    OBVIOUS
  <1>1. len \in 0..1500 /\ len \in 0..MaxLen /\ sent \in Nat /\ covered \in Nat
    BY MaxLenAssumption DEF FramingInv, FramingTypeOK
  <1>2. CASE SendSimple
    BY <1>1, <1>2 DEF SendSimple, FramingInv, FramingTypeOK, Progress, IsSimple
  <1>3. CASE SendPart
    <2>1. PICK tp \in 2..14 : totalParts(len) = tp /\ len <= tp * 108 /\ (tp - 1) * 108 < len
      BY <1>1, <1>3, TotalParts DEF SendPart, IsSimple
    <2> DEFINE size == PartLen(len, sent * 108)
    <2>2. ~IsSimple(len) /\ sent < tp /\ covered = (IF sent * 108 < len THEN sent * 108 ELSE len)
      BY <1>3, <2>1 DEF SendPart, FramingInv, Progress
    <2>3. sent * 108 < len
      BY <1>1, <2>1, <2>2
    <2>4. /\ sent' = sent + 1 /\ len' = len /\ covered' = covered + size
          /\ offset' = sent * 108 /\ partLen' = size /\ wire' = 12 + size
      BY <1>1, <1>3 DEF SendPart, ReceiverOffset
    <2>5. size \in 1..108 /\ size = (IF len - sent * 108 < 108 THEN len - sent * 108 ELSE 108)
      BY <1>1, <2>3 DEF PartLen
    <2> HIDE DEF size
    <2>6. FramingTypeOK'
      BY <1>1, <2>4, <2>5 DEF FramingTypeOK
    <2>7. covered' = (IF sent' * 108 < len' THEN sent' * 108 ELSE len')
      BY <1>1, <2>2, <2>3, <2>4, <2>5
    <2>8. LatestPart'
      BY <1>1, <2>3, <2>4, <2>5 DEF LatestPart, PartLen, size
    <2>9. sent' <= totalParts(len') /\ ~IsSimple(len')
      BY <1>1, <2>1, <2>2, <2>4
    <2> QED
      BY <1>1, <2>4, <2>6, <2>7, <2>8, <2>9 DEF FramingInv, Progress
  <1>4. CASE UNCHANGED framingVars
    BY <1>4 DEF framingVars, FramingInv, FramingTypeOK, Progress, LatestPart
  <1> QED
    BY <1>2, <1>3, <1>4 DEF FramingNext

(* The inductive invariant gives the three properties of the run. *)
LEMMA ProgressSuffices == FramingInv => FitsOneMessage /\ ExactCover /\ Storable
  <1> SUFFICES ASSUME FramingInv PROVE FitsOneMessage /\ ExactCover /\ Storable
    OBVIOUS
  <1>1. len \in 0..1500 /\ sent \in Nat /\ covered \in Nat /\ offset \in Nat /\ partLen \in Nat /\ wire \in Nat
    BY MaxLenAssumption DEF FramingInv, FramingTypeOK
  <1>2. CASE IsSimple(len)
    BY <1>1, <1>2 DEF FramingInv, Progress, IsSimple, FitsOneMessage, ExactCover, Storable, Done,
                      maxBinaryLen, MESHCORE_MAX_BYTES
  <1>3. CASE ~IsSimple(len)
    <2>1. PICK tp \in 2..14 : totalParts(len) = tp /\ len <= tp * 108 /\ (tp - 1) * 108 < len
      BY <1>1, <1>3, TotalParts, SMTT(40) DEF IsSimple
    <2>2. /\ sent <= tp
          /\ covered = (IF sent * 108 < len THEN sent * 108 ELSE len)
          /\ sent = 0 => offset = 0 /\ partLen = 0 /\ wire = 0
          /\ sent > 0 => /\ offset = (sent - 1) * 108
                         /\ offset < len
                         /\ partLen = (IF len - offset < 108 THEN len - offset ELSE 108)
                         /\ wire = 12 + partLen
      BY <1>3, <2>1 DEF FramingInv, Progress, LatestPart, PartLen
    <2>3. FitsOneMessage
      BY <1>1, <2>2 DEF FitsOneMessage, maxBinaryLen, MESHCORE_MAX_BYTES
    <2>4. covered = offset + partLen /\ covered <= len /\ (sent = tp => covered = len)
      BY <1>1, <2>1, <2>2
    <2>5. ExactCover
      BY <1>3, <2>1, <2>4 DEF ExactCover, Done
    <2>6. sent <= 16 /\ offset + partLen < 2048 /\ tp \in 2..16 /\ (sent > 0 => partLen > 0)
      BY <1>1, <2>1, <2>2
    <2>7. Storable
      BY <1>3, <2>1, <2>6 DEF Storable
    <2> QED
      BY <2>3, <2>5, <2>7
  <1> QED
    BY <1>2, <1>3

(* Every payload the program sends, of any length up to the 1500 octets of *)
(* the proxy's UDP buffer, is cut by sendWDPViaMesh into messages that are *)
(* not truncated, that the receiver stores, and that lie side by side in   *)
(* its buffer and are together the payload.                                *)
THEOREM FramingCorrect == FramingSpec => [](FramingTypeOK /\ FitsOneMessage /\ ExactCover /\ Storable)
  <1>1. FramingInv => FramingTypeOK
    BY DEF FramingInv
  <1> QED
    BY <1>1, InitProgress, StepProgress, ProgressSuffices, PTL DEF FramingSpec

(* In particular neither msg[] of sendWDPViaMesh nor data[] of the         *)
(* receiver's slot is ever too small for a part.                           *)
THEOREM BuffersSuffice == FramingSpec => []WithinBuffers
  <1>1. FitsOneMessage /\ Storable => WithinBuffers
    BY DEF WithinBuffers
  <1> QED
    BY <1>1, FramingCorrect, PTL

----------------------------------------------------------------------------
(* Base91: arithmetic                                                      *)
(*                                                                         *)
(* The input is one number, its first octet the lowest.  A pair is a slice *)
(* of 13 or 14 bits of it, the queue of either side the slice between what *)
(* is read and what is written.  A slice lies within three octets (Window) *)
(* so that all of it is about numbers below 2^24.                          *)

(* Division with remainder. *)
LEMMA DivMod ==
  ASSUME NEW X \in Nat, NEW D \in Nat, D > 0
  PROVE  /\ X \div D \in Nat /\ X % D \in Nat /\ X % D < D
         /\ X = D * (X \div D) + (X % D)
<1>1. /\ X \div D \in Int /\ X % D \in Int /\ 0 <= X % D /\ X % D < D
      /\ X = D * (X \div D) + (X % D)
  OBVIOUS
<1>2. X \div D >= 0
  OBVIOUS
<1> QED
  BY <1>1, <1>2

(* Quotient and remainder are the only ones. *)
LEMMA DivModUnique ==
  ASSUME NEW X \in Int, NEW D \in Nat, D > 0, NEW g \in Int, NEW r \in Int,
         X = D * g + r, 0 <= r, r < D
  PROVE  X \div D = g /\ X % D = r
<1> DEFINE h == X \div D
           w == X % D
           k == h - g
<1>1. h \in Int /\ w \in Int /\ 0 <= w /\ w < D /\ X = D * h + w
  OBVIOUS
<1> HIDE DEF h, w
<1>2. k \in Int /\ D * k = r - w
  BY <1>1
<1>3. h = g + k
  BY <1>1
<1> HIDE DEF k
<1>4. ~(k >= 1)
  BY <1>1, <1>2
<1>5. ~(k <= -1)
  BY <1>1, <1>2
<1>6. k = 0
  BY <1>2, <1>4, <1>5
<1>7. h = g /\ w = r
  BY <1>1, <1>2, <1>3, <1>6
<1> QED
  BY <1>7 DEF h, w

(* A number in the mixed radix P, Q. *)
LEMMA DivModSplit ==
  ASSUME NEW C \in Nat, NEW P \in Nat, NEW Q \in Nat, P > 0, Q > 0
  PROVE  /\ C % (P * Q) = (C % P) + P * ((C \div P) % Q)
         /\ C \div (P * Q) = (C \div P) \div Q
         /\ (C % (P * Q)) \div P = (C \div P) % Q
         /\ (C % (P * Q)) % P = C % P
<1> DEFINE l == C % P
           h == C \div P
           r == h % Q
           g == h \div Q
<1>1. l \in Nat /\ h \in Nat /\ l < P /\ C = P * h + l
  OBVIOUS
<1> HIDE DEF l, h
<1>2. r \in Nat /\ g \in Nat /\ r < Q /\ h = Q * g + r
  BY <1>1
<1> HIDE DEF r, g
<1>3. P * r \in Nat /\ P * g \in Nat /\ P * Q \in Nat /\ P * Q > 0
  BY <1>2
<1>4. C = (P * Q) * g + (P * r + l)
  BY <1>1, <1>2
<1>5. P * r + l < P * Q
  <2>1. Q - 1 - r \in Nat
    BY <1>2
  <2>2. P * (Q - 1 - r) \in Nat
    BY <2>1
  <2>3. P * (Q - 1 - r) = P * Q - P - P * r
    BY <1>2
  <2> QED
    BY <2>2, <2>3, <1>1, <1>3
<1> DEFINE D == P * Q
           R == P * r + l
<1>6. D \in Nat /\ D > 0 /\ R \in Nat /\ R < D /\ C = D * g + R
  BY <1>1, <1>3, <1>4, <1>5
<1> HIDE DEF D
<1>7. R \in Int /\ 0 <= R /\ g \in Int /\ C \in Int
  BY <1>6, <1>2
<1>8. C \div D = g /\ C % D = R
  <2> HIDE DEF R
  <2> QED
    BY <1>6, <1>7, DivModUnique
<1>9. R \div P = r /\ R % P = l
  <2>1. R \in Int /\ r \in Int /\ l \in Int /\ R = P * r + l /\ 0 <= l /\ l < P
    BY <1>1, <1>2, <1>7
  <2> QED
    BY <2>1, DivModUnique
<1> QED
  BY <1>8, <1>9 DEF l, h, r, g, D

Positive(n) == n \in Nat /\ n > 0

(* The parts of DivModSplit one by one, with divisors that are known to be *)
(* positive.                                                               *)
LEMMA ModSplit ==
  ASSUME NEW C \in Nat, NEW P, NEW Q, Positive(P), Positive(Q)
  PROVE  C % (P * Q) = (C % P) + P * ((C \div P) % Q)
BY DivModSplit DEF Positive

(* A quotient of a quotient. *)
LEMMA DivDiv ==
  ASSUME NEW C \in Nat, NEW P, NEW Q, Positive(P), Positive(Q)
  PROVE  C \div (P * Q) = (C \div P) \div Q
BY DivModSplit, SMTT(40) DEF Positive

(* The upper digits of a remainder. *)
LEMMA ModDiv ==
  ASSUME NEW C \in Nat, NEW P, NEW Q, Positive(P), Positive(Q)
  PROVE  (C % (P * Q)) \div P = (C \div P) % Q
BY DivModSplit DEF Positive

(* The lower digits of a remainder. *)
LEMMA ModMod ==
  ASSUME NEW C \in Nat, NEW P, NEW Q, Positive(P), Positive(Q)
  PROVE  (C % (P * Q)) % P = C % P
BY DivModSplit DEF Positive

(* The powers of two that occur, and their products. *)
LEMMA PowerDoubles ==
  ASSUME NEW n \in 0..23
  PROVE  2^n \in Nat /\ 2^n > 0 /\ 2^(n + 1) = 2 * 2^n
<1>0. CASE n = 0 BY <1>0
<1>1. CASE n = 1 BY <1>1
<1>2. CASE n = 2 BY <1>2
<1>3. CASE n = 3 BY <1>3
<1>4. CASE n = 4 BY <1>4
<1>5. CASE n = 5 BY <1>5
<1>6. CASE n = 6 BY <1>6
<1>7. CASE n = 7 BY <1>7
<1>8. CASE n = 8 BY <1>8
<1>9. CASE n = 9 BY <1>9
<1>10. CASE n = 10 BY <1>10
<1>11. CASE n = 11 BY <1>11
<1>12. CASE n = 12 BY <1>12
<1>13. CASE n = 13 BY <1>13
<1>14. CASE n = 14 BY <1>14
<1>15. CASE n = 15 BY <1>15
<1>16. CASE n = 16 BY <1>16
<1>17. CASE n = 17 BY <1>17
<1>18. CASE n = 18 BY <1>18
<1>19. CASE n = 19 BY <1>19
<1>20. CASE n = 20 BY <1>20
<1>21. CASE n = 21 BY <1>21
<1>22. CASE n = 22 BY <1>22
<1>23. CASE n = 23 BY <1>23
<1>30. \/ n = 0 \/ n = 1 \/ n = 2 \/ n = 3 \/ n = 4 \/ n = 5 \/ n = 6 \/ n = 7 \/ n = 8
       \/ n = 9 \/ n = 10 \/ n = 11 \/ n \in 12..23
  OBVIOUS
<1>31. n \in 12..23 =>
         \/ n = 12 \/ n = 13 \/ n = 14 \/ n = 15 \/ n = 16 \/ n = 17 \/ n = 18 \/ n = 19
         \/ n = 20 \/ n = 21 \/ n = 22 \/ n = 23
  OBVIOUS
<1> QED
  BY <1>30, <1>31, <1>0, <1>1, <1>2, <1>3, <1>4, <1>5, <1>6, <1>7, <1>8, <1>9, <1>10, <1>11,
     <1>12, <1>13, <1>14, <1>15, <1>16, <1>17, <1>18, <1>19, <1>20, <1>21, <1>22, <1>23

(* A power of two is positive. *)
LEMMA PowerType == ASSUME NEW n \in 0..24 PROVE Positive(2^n)
<1>1. CASE n = 24
  BY <1>1 DEF Positive
<1>2. CASE n \in 0..23
  BY <1>2, PowerDoubles DEF Positive
<1> QED
  BY <1>1, <1>2

(* Exponents add. *)
LEMMA PowerSum ==
  ASSUME NEW x \in 0..8, NEW y \in 0..24, x + y <= 24
  PROVE  2^(x + y) = 2^x * 2^y
<1> DEFINE S(n) == n + y <= 24 => 2^(n + y) = 2^n * 2^y
<1>0. 2^y \in Nat
  BY PowerType DEF Positive
<1>1. S(0)
  BY <1>0
<1>2. ASSUME NEW n \in 0..7, S(n) PROVE S(n + 1)
  <2> SUFFICES ASSUME n + 1 + y <= 24 PROVE 2^(n + 1 + y) = 2^(n + 1) * 2^y
    OBVIOUS
  <2>1. n + y \in 0..23 /\ n \in 0..23
    OBVIOUS
  <2>2. 2^(n + y + 1) = 2 * 2^(n + y)
    BY <2>1, PowerDoubles
  <2>3. 2^(n + 1) = 2 * 2^n /\ 2^n \in Nat
    BY <2>1, PowerDoubles
  <2>4. 2^(n + y) = 2^n * 2^y
    BY <1>2
  <2>5. n + 1 + y = n + y + 1
    OBVIOUS
  <2> DEFINE u == 2^n  w == 2^y  z == 2^(n + y)
  <2>6. 2 * z = (2 * u) * w
    <3>1. u \in Nat /\ w \in Nat /\ z = u * w
      BY <2>3, <2>4, <1>0
    <3> HIDE DEF u, w, z
    <3> QED
      BY <3>1
  <2> QED
    BY <2>2, <2>3, <2>5, <2>6
<1>3. S(1) /\ S(2) /\ S(3) /\ S(4)
  <2> HIDE DEF S
  <2>1. S(0 + 1)
    BY <1>1, <1>2
  <2>2. S(1 + 1)
    BY <2>1, <1>2
  <2>3. S(2 + 1)
    BY <2>2, <1>2
  <2>4. S(3 + 1)
    BY <2>3, <1>2
  <2> QED
    BY <2>1, <2>2, <2>3, <2>4
<1>4. S(5) /\ S(6) /\ S(7) /\ S(8)
  <2> HIDE DEF S
  <2>1. S(4 + 1)
    BY <1>3, <1>2
  <2>2. S(5 + 1)
    BY <2>1, <1>2
  <2>3. S(6 + 1)
    BY <2>2, <1>2
  <2>4. S(7 + 1)
    BY <2>3, <1>2
  <2> QED
    BY <2>1, <2>2, <2>3, <2>4
<1>5. S(x)
  <2> HIDE DEF S
  <2>1. x = 0 \/ x = 1 \/ x = 2 \/ x = 3 \/ x = 4 \/ x = 5 \/ x = 6 \/ x = 7 \/ x = 8
    OBVIOUS
  <2> QED
    BY <1>1, <1>3, <1>4, <2>1
<1> QED
  BY <1>5

(* The powers that move a whole number of octets. *)
LEMMA OctetPowers ==
  ASSUME NEW e \in Nat
  PROVE  /\ e = 0 => 2^e = 1
         /\ e = 8 => 2^e = 256
         /\ e = 16 => 2^e = 65536
<1>1. CASE e = 0 BY <1>1
<1>2. CASE e = 8 BY <1>2
<1>3. CASE e = 16 BY <1>3
<1> QED
  BY <1>1, <1>2, <1>3

(* The octets of s as one number, zero beyond its end: the octet after m   *)
(* and the next two, and the n bits of s from bit b on.                    *)
Octet(s, i) == IF i \in 1..Len(s) THEN s[i] ELSE 0

Window(s, m) == Octet(s, m + 1) + 256 * Octet(s, m + 2) + 65536 * Octet(s, m + 3)

Bits(s, b, n) == (Window(s, b \div 8) \div 2^(b % 8)) % 2^n

(* An octet is below 256, also beyond the end. *)
LEMMA OctetType ==
  ASSUME NEW s \in Seq(0..255), NEW i \in Int
  PROVE  Octet(s, i) \in 0..255
BY ElementOfSeq, SMTT(40) DEF Octet

(* Three octets make a number. *)
LEMMA WindowType ==
  ASSUME NEW s \in Seq(0..255), NEW m \in Nat
  PROVE  Window(s, m) \in Nat
<1> DEFINE a == Octet(s, m + 1)
           b == Octet(s, m + 2)
           c == Octet(s, m + 3)
<1>1. m + 1 \in Int /\ m + 2 \in Int /\ m + 3 \in Int
  OBVIOUS
<1>2. a \in 0..255 /\ b \in 0..255 /\ c \in 0..255
  BY <1>1, OctetType, ZenonT(60)
<1>3. Window(s, m) = a + 256 * b + 65536 * c
  BY DEF Window
<1> HIDE DEF a, b, c
<1> QED
  BY <1>2, <1>3

(* The octets of a window, and the windows that begin one and two octets   *)
(* later.                                                                  *)
LEMMA WindowFacts ==
  ASSUME NEW s \in Seq(0..255), NEW m \in Nat
  PROVE  /\ Window(s, m) % 256 = Octet(s, m + 1)
         /\ (Window(s, m) \div 256) % 256 = Octet(s, m + 2)
         /\ (Window(s, m) \div 65536) % 256 = Octet(s, m + 3)
         /\ Window(s, m) \div 256 = Window(s, m + 1) % 65536
         /\ Window(s, m) \div 65536 = Window(s, m + 2) % 256
<1> DEFINE a == Octet(s, m + 1)
           b == Octet(s, m + 2)
           c == Octet(s, m + 3)
           e == Octet(s, m + 4)
           f == Octet(s, m + 5)
<1>1. a \in 0..255 /\ b \in 0..255 /\ c \in 0..255 /\ e \in 0..255 /\ f \in 0..255
  <2>1. m + 1 \in Int /\ m + 2 \in Int /\ m + 3 \in Int /\ m + 4 \in Int /\ m + 5 \in Int
    OBVIOUS
  <2> QED
    BY <2>1, OctetType, ZenonT(60)
<1>2. m + 1 + 1 = m + 2 /\ m + 1 + 2 = m + 3 /\ m + 1 + 3 = m + 4
      /\ m + 2 + 1 = m + 3 /\ m + 2 + 2 = m + 4 /\ m + 2 + 3 = m + 5
  OBVIOUS
<1>3. /\ Window(s, m) = a + 256 * b + 65536 * c
      /\ Window(s, m + 1) = b + 256 * c + 65536 * e
      /\ Window(s, m + 2) = c + 256 * e + 65536 * f
  BY <1>2 DEF Window
<1> HIDE DEF a, b, c, e, f
<1>4. /\ (a + 256 * b + 65536 * c) % 256 = a
      /\ (a + 256 * b + 65536 * c) \div 65536 = c
      /\ c % 256 = c
  BY <1>1
<1>5. (a + 256 * b + 65536 * c) \div 256 = b + 256 * c
  BY <1>1
<1>6. (b + 256 * c) % 256 = b /\ (c + 256 * e + 65536 * f) % 256 = c
  BY <1>1
<1>7. (b + 256 * c + 65536 * e) % 65536 = b + 256 * c
  BY <1>1
<1> QED
  BY <1>3, <1>4, <1>5, <1>6, <1>7 DEF a, b, c

(* The octet p + 1 in the window after m. *)
LEMMA WindowOctet ==
  ASSUME NEW s \in Seq(0..255), NEW m \in Nat, NEW p \in Int, NEW e \in Nat,
         p - m \in 0..2, e = 8 * (p - m)
  PROVE  (Window(s, m) \div 2^e) % 256 = Octet(s, p + 1)
<1>1. CASE p - m = 0
  <2>1. p + 1 = m + 1 /\ e = 0
    BY <1>1
  <2>2. Window(s, m) \div 2^e = Window(s, m)
    <3>1. 2^e = 1
      BY <2>1, OctetPowers
    <3> QED
      BY <3>1, WindowType
  <2>3. Window(s, m) % 256 = Octet(s, m + 1)
    BY WindowFacts
  <2> QED
    BY <2>1, <2>2, <2>3
<1>2. CASE p - m = 1
  <2>1. p + 1 = m + 2 /\ e = 8
    BY <1>2
  <2>2. (Window(s, m) \div 256) % 256 = Octet(s, m + 2)
    BY WindowFacts
  <2>3. 2^e = 256
    BY <2>1, OctetPowers
  <2> QED
    BY <2>1, <2>2, <2>3
<1>3. CASE p - m = 2
  <2>1. p + 1 = m + 3 /\ e = 16
    BY <1>3
  <2>2. (Window(s, m) \div 65536) % 256 = Octet(s, m + 3)
    BY WindowFacts
  <2>3. 2^e = 65536
    BY <2>1, OctetPowers
  <2> QED
    BY <2>1, <2>2, <2>3
<1> QED
  BY <1>1, <1>2, <1>3

(* Where bit b is. *)
LEMMA BitPlace ==
  ASSUME NEW b \in Nat
  PROVE  b \div 8 \in Nat /\ b % 8 \in 0..7 /\ b = 8 * (b \div 8) + (b % 8)
<1>1. 8 \in Nat /\ 8 > 0
  OBVIOUS
<1>2. b \div 8 \in Nat /\ b % 8 \in Nat /\ b % 8 < 8 /\ b = 8 * (b \div 8) + (b % 8)
  BY <1>1, DivMod
<1> QED
  BY <1>2

(* n bits are a number below 2^n. *)
LEMMA BitsType ==
  ASSUME NEW s \in Seq(0..255), NEW b \in Nat, NEW n \in 0..24
  PROVE  Bits(s, b, n) \in Nat /\ Bits(s, b, n) < 2^n
<1> DEFINE C == Window(s, b \div 8)
           P == 2^(b % 8)
           Q == 2^n
<1>1. C \in Nat
  <2>1. b \div 8 \in Nat
    BY BitPlace
  <2> QED
    BY <2>1, WindowType
<1>2. Positive(P) /\ Positive(Q)
  <2>1. b % 8 \in 0..24
    BY BitPlace
  <2> QED
    BY <2>1, PowerType
<1>3. Bits(s, b, n) = (C \div P) % Q
  BY DEF Bits
<1> HIDE DEF C, P, Q
<1>4. C \div P \in Nat
  BY <1>1, <1>2 DEF Positive
<1>5. (C \div P) % Q \in Nat /\ (C \div P) % Q < Q
  BY <1>2, <1>4 DEF Positive
<1> QED
  BY <1>3, <1>5 DEF Q

(* The octet after n bits, shifted in above them, gives n + 8 bits. *)
LEMMA BitsGrow ==
  ASSUME NEW s \in Seq(0..255), NEW b \in Nat, NEW n \in 0..13, NEW p \in Nat,
         p < Len(s), 8 * p = b + n
  PROVE  Bits(s, b, n) + s[p + 1] * 2^n = Bits(s, b, n + 8)
<1> DEFINE m == b \div 8
           d == b % 8
           C == Window(s, m)
           P == 2^d
           Q == 2^n
           x == s[p + 1]
<1>1. m \in Nat /\ d \in 0..7 /\ b = 8 * m + d
  BY BitPlace
<1>2. C \in Nat
  BY <1>1, WindowType
<1>3. Positive(P) /\ Positive(Q)
  <2>1. d \in 0..24 /\ n \in 0..24
    BY <1>1
  <2> HIDE DEF d
  <2> QED
    BY <2>1, PowerType
<1>4. x = Octet(s, p + 1) /\ x \in 0..255
  <2>1. p + 1 \in 1..Len(s)
    OBVIOUS
  <2> QED
    BY <2>1, ElementOfSeq DEF Octet
<1>5. d + n = 8 * (p - m) /\ p - m \in 0..2
  <2> HIDE DEF m, d
  <2> QED
    BY <1>1
<1>6. P * Q = 2^(d + n)
  <2>1. d \in 0..8 /\ n \in 0..24 /\ d + n <= 24
    BY <1>1
  <2> HIDE DEF d
  <2> QED
    BY <2>1, PowerSum
<1>7. 2^(n + 8) = Q * 256
  <2>1. 2^(8 + n) = 2^8 * 2^n
    <3>1. 8 \in 0..8 /\ n \in 0..24 /\ 8 + n <= 24
      OBVIOUS
    <3> QED
      BY <3>1, PowerSum
  <2>2. 8 + n = n + 8 /\ 2^8 = 256
    OBVIOUS
  <2> QED
    BY <2>1, <2>2, <1>3 DEF Positive
<1>8. (C \div (P * Q)) % 256 = x
  <2> DEFINE e == d + n
  <2>1. e \in Nat /\ m \in Nat /\ p \in Int /\ e = 8 * (p - m) /\ p - m \in 0..2
    BY <1>1, <1>5
  <2> HIDE DEF e, m
  <2>2. (Window(s, m) \div 2^e) % 256 = Octet(s, p + 1)
    BY <2>1, WindowOctet
  <2> QED
    BY <2>2, <1>4, <1>6 DEF e
<1>9. Bits(s, b, n) = (C \div P) % Q /\ Bits(s, b, n + 8) = (C \div P) % (Q * 256)
  BY <1>7 DEF Bits
<1> HIDE DEF m, d, C, P, Q, x
<1>10. C \div P \in Nat
  BY <1>2, <1>3 DEF Positive
<1>11. C \div (P * Q) = (C \div P) \div Q
  BY <1>2, <1>3, DivDiv
<1>12. (C \div P) % (Q * 256) = ((C \div P) % Q) + Q * (((C \div P) \div Q) % 256)
  <2> DEFINE Y == C \div P
             K == 256
  <2>1. Y \in Nat /\ Positive(K)
    BY <1>10 DEF Positive
  <2> HIDE DEF Y, K
  <2>2. Y % (Q * K) = (Y % Q) + Q * ((Y \div Q) % K)
    BY <2>1, <1>3, ModSplit
  <2> QED
    BY <2>2 DEF Y, K
<1>13. Q * x = x * Q
  BY <1>3, <1>4 DEF Positive
<1> QED
  BY <1>8, <1>9, <1>11, <1>12, <1>13 DEF Q, x

(* Window(s, m) in the octets k further on. *)
LEMMA WindowLater ==
  ASSUME NEW s \in Seq(0..255), NEW m \in Nat, NEW k \in {1, 2}
  PROVE  Window(s, m) \div 2^(8 * k) = Window(s, m + k) % 2^(24 - 8 * k)
<1>1. CASE k = 1
  <2>1. 2^(8 * k) = 256 /\ 2^(24 - 8 * k) = 65536
    BY <1>1
  <2>2. Window(s, m) \div 256 = Window(s, m + 1) % 65536
    BY WindowFacts
  <2> QED
    BY <1>1, <2>1, <2>2
<1>2. CASE k = 2
  <2>1. 2^(8 * k) = 65536 /\ 2^(24 - 8 * k) = 256
    BY <1>2
  <2>2. Window(s, m) \div 65536 = Window(s, m + 2) % 256
    BY WindowFacts
  <2> QED
    BY <1>2, <2>1, <2>2
<1> QED
  BY <1>1, <1>2

(* The low and the high part of n bits. *)
LEMMA BitsTake ==
  ASSUME NEW s \in Seq(0..255), NEW b \in Nat, NEW t \in {13, 14}, NEW n \in t..21
  PROVE  /\ Bits(s, b, n) % 2^t = Bits(s, b, t)
         /\ Bits(s, b, n) \div 2^t
              = (Window(s, b \div 8) \div 2^((b % 8) + t)) % 2^(n - t)
<1> DEFINE d == b % 8
           C == Window(s, b \div 8)
           P == 2^d
           T == 2^t
           R == 2^(n - t)
<1>1. d \in 0..7 /\ b \div 8 \in Nat
  BY BitPlace
<1>2. C \in Nat
  BY <1>1, WindowType
<1>3. n - t \in 0..8 /\ t \in 0..24 /\ n - t \in 0..24 /\ (n - t) + t = n /\ n <= 24
      /\ d + t <= 24 /\ d \in 0..8 /\ d \in 0..24
  <2> HIDE DEF d
  <2> QED
    BY <1>1
<1>4. Positive(P) /\ Positive(T) /\ Positive(R)
  <2> HIDE DEF d
  <2> QED
    BY <1>3, PowerType
<1>5. 2^n = T * R
  <2> DEFINE r == n - t
  <2>1. r \in 0..8 /\ t \in 0..24 /\ r + t <= 24 /\ r + t = n
    BY <1>3
  <2> HIDE DEF r
  <2>2. 2^(r + t) = 2^r * 2^t
    BY <2>1, PowerSum
  <2>3. 2^n = R * T
    BY <2>1, <2>2 DEF r
  <2> HIDE DEF R, T
  <2> QED
    BY <2>3, <1>4 DEF Positive
<1>6. 2^(d + t) = P * T
  <2> HIDE DEF d
  <2> QED
    BY <1>3, PowerSum
<1>7. /\ Bits(s, b, n) = (C \div P) % (T * R)
      /\ Bits(s, b, t) = (C \div P) % T
  BY <1>5 DEF Bits
<1> DEFINE Y == C \div P
<1> HIDE DEF d, C, P, T, R
<1>8. Y \in Nat
  BY <1>2, <1>4 DEF Positive
<1>9. C \div (P * T) = Y \div T
  BY <1>2, <1>4, DivDiv
<1> HIDE DEF Y
<1>10. (Y % (T * R)) % T = Y % T /\ (Y % (T * R)) \div T = (Y \div T) % R
  BY <1>4, <1>8, ModMod, ModDiv
<1> QED
  BY <1>6, <1>7, <1>9, <1>10 DEF d, C, P, T, R, Y

(* A shift by e bits is the window as many whole octets further on shifted *)
(* by the rest, as far as the windows overlap.                             *)
LEMMA WindowShift ==
  ASSUME NEW s \in Seq(0..255), NEW m \in Nat, NEW e \in 8..23, NEW r \in 0..8,
         e + r <= 24
  PROVE  (Window(s, m) \div 2^e) % 2^r
           = (Window(s, m + (e \div 8)) \div 2^(e % 8)) % 2^r
<1> DEFINE k == e \div 8
           f == e % 8
<1>20. k \in Nat /\ f \in 0..7 /\ e = 8 * k + f
  BY BitPlace
<1> HIDE DEF k, f
<1>21. k \in {1, 2}
  BY <1>20
<1> DEFINE C == Window(s, m)
           W == Window(s, m + k)
           K == 2^(8 * k)
           H == 2^(24 - 8 * k)
           F == 2^f
           G == 2^(24 - 8 * k - f)
           R == 2^r
           Z == 2^(24 - 8 * k - f - r)
<1>1. m + k \in Nat /\ C \in Nat /\ W \in Nat
  <2>1. m + k \in Nat
    BY <1>20
  <2> QED
    BY <2>1, WindowType
<1>2. C \div K = W % H
  BY <1>21, WindowLater
<1> DEFINE x == 8 * k
           h == 24 - 8 * k
           g == 24 - 8 * k - f
           z == 24 - 8 * k - f - r
<1>3. x \in 0..24 /\ h \in 0..24 /\ g \in 0..24 /\ z \in 0..24 /\ f \in 0..8
      /\ f \in 0..24 /\ r \in 0..24
      /\ f + x <= 24 /\ f + x = e /\ f + g = h /\ r + z = g /\ h <= 24 /\ g <= 24
  BY <1>20, <1>21
<1>4. Positive(K) /\ Positive(H) /\ Positive(F)
      /\ Positive(G) /\ Positive(R) /\ Positive(Z)
  <2>1. /\ K = 2^x /\ H = 2^h /\ G = 2^g /\ Z = 2^z
    OBVIOUS
  <2> HIDE DEF x, h, g, z, K, H, G, Z
  <2> QED
    BY <1>3, <2>1, PowerType
<1>5. 2^e = F * K /\ H = F * G /\ G = R * Z
  <2>1. /\ K = 2^x /\ H = 2^h /\ G = 2^g /\ Z = 2^z
    OBVIOUS
  <2> HIDE DEF x, h, g, z, K, H, G, Z
  <2>2. 2^(f + x) = 2^f * 2^x
    BY <1>3, PowerSum
  <2>3. 2^(f + g) = 2^f * 2^g
    BY <1>3, PowerSum
  <2>4. 2^(r + z) = 2^r * 2^z
    BY <1>3, PowerSum
  <2> QED
    BY <1>3, <2>1, <2>2, <2>3, <2>4
<1> HIDE DEF C, W, K, H, F, G, R, Z
<1>6. C \div (K * F) = (C \div K) \div F
  BY <1>1, <1>4, DivDiv
<1>11. K * F = F * K
  BY <1>4 DEF Positive
<1>7. (W % (F * G)) \div F = (W \div F) % G
  BY <1>1, <1>4, ModDiv
<1> DEFINE Y == W \div F
<1>8. Y \in Nat
  BY <1>1, <1>4, SMTT(40) DEF Positive
<1> HIDE DEF Y
<1>9. (Y % (R * Z)) % R = Y % R
  BY <1>8, <1>4, ModMod
<1>10. C \div 2^e = Y % G
  BY <1>2, <1>5, <1>6, <1>7, <1>11 DEF Y
<1> QED
  BY <1>5, <1>9, <1>10 DEF C, W, F, R, Y, k, f

(* What is left after a pair are the bits behind it. *)
LEMMA BitsRest ==
  ASSUME NEW s \in Seq(0..255), NEW b \in Nat, NEW t \in {13, 14}, NEW n \in t..21,
         (b % 8) + n <= 24
  PROVE  Bits(s, b, n) \div 2^t = Bits(s, b + t, n - t)
<1> DEFINE m == b \div 8
           d == b % 8
           e == d + t
           k == e \div 8
           f == e % 8
           r == n - t
<1>1. m \in Nat /\ d \in 0..7 /\ b = 8 * m + d
  BY BitPlace
<1>2. e \in Nat /\ e \in 13..21
  <2> HIDE DEF d
  <2> QED
    BY <1>1
<1>3. k \in Nat /\ f \in 0..7 /\ e = 8 * k + f
  <2> HIDE DEF e
  <2> QED
    BY <1>2, BitPlace
<1>5. (b + t) \div 8 = m + k /\ (b + t) % 8 = f
  <2> HIDE DEF m, k, f, d
  <2>1. b + t = 8 * (m + k) + f
    BY <1>1, <1>3
  <2>2. b + t \in Int /\ 8 \in Nat /\ 8 > 0 /\ m + k \in Int /\ f \in Int /\ 0 <= f /\ f < 8
    BY <1>1, <1>3
  <2> QED
    BY <2>1, <2>2, DivModUnique, SMTT(40)
<1>6. r \in 0..8 /\ e + r <= 24
  BY <1>1
<1>7. Bits(s, b, n) \div 2^t = (Window(s, m) \div 2^e) % 2^r
  BY BitsTake
<1>8. (Window(s, m) \div 2^e) % 2^r = (Window(s, m + k) \div 2^f) % 2^r
  <2>1. m \in Nat /\ e \in 8..23 /\ r \in 0..8 /\ e + r <= 24
    BY <1>1, <1>2, <1>6
  <2> HIDE DEF m, e, r
  <2> QED
    BY <2>1, WindowShift
<1>9. Bits(s, b + t, r) = (Window(s, m + k) \div 2^f) % 2^r
  <2> HIDE DEF m, k, f, r
  <2> QED
    BY <1>5 DEF Bits
<1> QED
  BY <1>7, <1>8, <1>9

(* The first e bits behind m octets of s. *)
LowBits(s, m, e) == Window(s, m) % 2^e

(* The bits before b in their octet and n bits from b on, put together. *)
LEMMA BitsJoin ==
  ASSUME NEW s \in Seq(0..255), NEW b \in Nat, NEW n \in 0..16
  PROVE  LowBits(s, b \div 8, b % 8) + Bits(s, b, n) * 2^(b % 8)
           = LowBits(s, b \div 8, (b % 8) + n)
<1> DEFINE d == b % 8
           C == Window(s, b \div 8)
           P == 2^d
           Q == 2^n
<1>1. b \div 8 \in Nat /\ d \in 0..7
  BY BitPlace
<1>2. C \in Nat
  BY <1>1, WindowType
<1>3. d \in 0..8 /\ d \in 0..24 /\ n \in 0..24 /\ d + n <= 24
  <2> HIDE DEF d
  <2> QED
    BY <1>1
<1>4. Positive(P) /\ Positive(Q)
  <2> HIDE DEF d
  <2> QED
    BY <1>3, PowerType
<1>5. 2^(d + n) = P * Q
  <2> HIDE DEF d
  <2> QED
    BY <1>3, PowerSum
<1>6. Bits(s, b, n) = (C \div P) % Q
  BY DEF Bits
<1> HIDE DEF d, C, P, Q
<1>7. C % (P * Q) = (C % P) + P * ((C \div P) % Q)
  BY <1>2, <1>4, ModSplit
<1>8. P * ((C \div P) % Q) = ((C \div P) % Q) * P
  <2> DEFINE x == (C \div P) % Q
  <2>1. x \in Nat
    BY <1>2, <1>4 DEF Positive
  <2> HIDE DEF x
  <2>2. P * x = x * P
    BY <2>1, <1>4 DEF Positive
  <2> QED
    BY <2>2 DEF x
<1> QED
  BY <1>5, <1>6, <1>7, <1>8 DEF d, C, P, LowBits

(* e bits from an octet boundary on, taken apart into their whole octets   *)
(* and the rest.                                                           *)
LEMMA OctetsOut ==
  ASSUME NEW s \in Seq(0..255), NEW m \in Nat, NEW e \in 8..23
  PROVE  /\ LowBits(s, m, e) % 256 = Octet(s, m + 1)
         /\ e >= 16 => (LowBits(s, m, e) \div 256) % 256 = Octet(s, m + 2)
<1> DEFINE C == Window(s, m)
           B == 2^8
           G == 2^(e - 8)
<1>1. C \in Nat
  BY WindowType
<1>2. B = 256
  OBVIOUS
<1>9. Positive(B)
  BY DEF Positive
<1>3. Positive(G) /\ 2^e = B * G
  <2> DEFINE g == e - 8
  <2>1. g \in 0..24 /\ 8 \in 0..8 /\ 8 + g <= 24 /\ 8 + g = e
    OBVIOUS
  <2> HIDE DEF g
  <2>2. 2^(8 + g) = 2^8 * 2^g
    BY <2>1, PowerSum
  <2> QED
    BY <2>1, <2>2, PowerType DEF g
<1>4. /\ C % 256 = Octet(s, m + 1)
      /\ (C \div 256) % 256 = Octet(s, m + 2)
  <2>1. Window(s, m) % 256 = Octet(s, m + 1)
    BY WindowFacts
  <2>2. (Window(s, m) \div 256) % 256 = Octet(s, m + 2)
    BY WindowFacts
  <2> QED
    BY <2>1, <2>2
<1>5. (C % (B * G)) % B = C % B /\ (C % (B * G)) \div B = (C \div B) % G
  <2> HIDE DEF C, B, G
  <2> QED
    BY <1>1, <1>9, <1>3, ModMod, ModDiv
<1>6. (C % 2^e) % 256 = Octet(s, m + 1)
  <2> HIDE DEF C, B, G
  <2> QED
    BY <1>2, <1>3, <1>4, <1>5
<1>7. ASSUME e >= 16 PROVE ((C % 2^e) \div 256) % 256 = Octet(s, m + 2)
  <2> DEFINE z == e - 16
             g == e - 8
             Z == 2^z
             Y == C \div B
  <2>1. z \in 0..24 /\ 8 \in 0..8 /\ 8 + z <= 24 /\ 8 + z = g
    BY <1>7
  <2>2. Positive(Z) /\ G = B * Z
    <3>1. G = 2^g
      OBVIOUS
    <3> HIDE DEF z, g, G
    <3>2. 2^(8 + z) = 2^8 * 2^z
      BY <2>1, PowerSum
    <3> QED
      BY <2>1, <3>1, <3>2, PowerType
  <2>3. Y \in Nat
    <3> HIDE DEF C, B
    <3> QED
      BY <1>1, <1>9 DEF Positive
  <2> HIDE DEF C, B, G, Z, Y
  <2>4. (Y % (B * Z)) % B = Y % B
    BY <1>9, <2>2, <2>3, ModMod
  <2>5. ((C % 2^e) \div B) % B = Y % B
    BY <1>3, <1>5, <2>2, <2>4 DEF Y
  <2> QED
    BY <1>2, <1>4, <2>5 DEF Y
<1> QED
  BY <1>6, <1>7 DEF LowBits

(* What is left of the low bits once the whole octets are out. *)
LEMMA RestOut ==
  ASSUME NEW s \in Seq(0..255), NEW m \in Nat, NEW e \in 8..23
  PROVE  LowBits(s, m, e) \div 2^(8 * (e \div 8)) = LowBits(s, m + (e \div 8), e % 8)
<1> DEFINE C == Window(s, m)
           k == e \div 8
           f == e % 8
           x == 8 * k
           h == 24 - 8 * k
           z == 24 - 8 * k - f
           W == Window(s, m + k)
           K == 2^x
           H == 2^h
           F == 2^f
           Z == 2^z
<1>0. C \in Nat
  BY WindowType
<1>1. k \in Nat /\ f \in 0..7 /\ e = 8 * k + f
  BY BitPlace
<1>2. k \in {1, 2} /\ m + k \in Nat
  <2> HIDE DEF k, f
  <2> QED
    BY <1>1
<1>3. W \in Nat /\ C \div K = W % H
  <2> HIDE DEF k
  <2> QED
    BY <1>2, WindowType, WindowLater
<1>4. /\ x \in 0..24 /\ f + x = e /\ f \in 0..8 /\ f \in 0..24 /\ h \in 0..24
      /\ z \in 0..24 /\ f + z = h /\ f + x <= 24 /\ f + z <= 24
  <2> HIDE DEF k, f
  <2> QED
    BY <1>1, <1>2
<1> HIDE DEF x, h, z, f, C
<1>5. Positive(K) /\ Positive(H) /\ Positive(F) /\ Positive(Z)
  BY <1>4, PowerType
<1>6. 2^(f + x) = 2^f * 2^x
  BY <1>4, PowerSum
<1>7. 2^(f + z) = 2^f * 2^z
  BY <1>4, PowerSum
<1>8. 2^e = F * K /\ H = F * Z
  BY <1>4, <1>6, <1>7
<1> HIDE DEF W, K, H, F, Z
<1>9. F * K = K * F
  BY <1>5 DEF Positive
<1>10. (C % (K * F)) \div K = (C \div K) % F
  BY <1>0, <1>5, ModDiv
<1>11. (W % (F * Z)) % F = W % F
  BY <1>3, <1>5, ModMod
<1>12. (C % 2^e) \div K = W % F
  BY <1>3, <1>8, <1>9, <1>10, <1>11
<1> QED
  BY <1>12 DEF C, K, W, F, x, f, LowBits

(* The quotient of less than K * F by K. *)
LEMMA DivBound ==
  ASSUME NEW q \in Nat, NEW K, NEW F, Positive(K), Positive(F), q < K * F
  PROVE  q \div K \in Nat /\ q \div K < F
<1> DEFINE h == q \div K
           l == q % K
<1>1. h \in Nat /\ l \in Nat /\ q = K * h + l
  BY DivMod DEF Positive
<1> HIDE DEF h, l
<1>2. ASSUME h >= F PROVE FALSE
  <2>1. h - F \in Nat /\ K \in Nat /\ F \in Nat
    BY <1>1, <1>2 DEF Positive
  <2>2. K * (h - F) \in Nat
    BY <2>1
  <2>3. K * (h - F) = K * h - K * F
    BY <2>1, <1>1
  <2> QED
    BY <1>1, <2>1, <2>2, <2>3
<1> QED
  BY <1>1, <1>2 DEF h, Positive

(* A number of at most t bits put above n bits. *)
LEMMA QueueBound ==
  ASSUME NEW n \in 0..7, NEW t \in {13, 14}, NEW u \in Nat, u < 2^n,
         NEW v \in Nat, v < 2^t
  PROVE  /\ u + v * 2^n \in Nat
         /\ (u + v * 2^n) \div 2^(8 * ((n + t) \div 8)) \in Nat
         /\ (u + v * 2^n) \div 2^(8 * ((n + t) \div 8)) < 2^((n + t) % 8)
<1> DEFINE e == n + t
           k == e \div 8
           f == e % 8
           x == 8 * k
           P == 2^n
           T == 2^t
           K == 2^x
           F == 2^f
           q == u + v * P
<1>1. e \in Nat /\ e \in 13..21
  OBVIOUS
<1>2. k \in Nat /\ f \in 0..7 /\ e = 8 * k + f
  <2> HIDE DEF e
  <2> QED
    BY <1>1, BitPlace
<1>3. /\ n \in 0..24 /\ t \in 0..24 /\ n \in 0..8 /\ x \in 0..24 /\ f \in 0..8
      /\ f \in 0..24 /\ n + t <= 24 /\ f + x <= 24 /\ f + x = e
  <2> HIDE DEF k, f
  <2> QED
    BY <1>1, <1>2
<1>4. Positive(P) /\ Positive(T) /\ Positive(K) /\ Positive(F)
  <2> HIDE DEF x, f
  <2> QED
    BY <1>3, PowerType
<1>5. P * T = F * K
  <2>1. 2^(n + t) = 2^n * 2^t
    BY <1>3, PowerSum
  <2> HIDE DEF x, f
  <2>2. 2^(f + x) = 2^f * 2^x
    BY <1>3, PowerSum
  <2> QED
    BY <1>3, <2>1, <2>2
<1>6. u < P /\ v < T
  OBVIOUS
<1> HIDE DEF P, T, K, F, e, k, x, f
<1>7. q \in Nat /\ q < K * F
  <2>1. P \in Nat /\ T \in Nat /\ K \in Nat /\ F \in Nat /\ P > 0
    BY <1>4 DEF Positive
  <2>2. T - 1 - v \in Nat
    BY <2>1, <1>6
  <2>3. P * (T - 1 - v) \in Nat
    BY <2>1, <2>2
  <2>4. P * (T - 1 - v) = P * T - P - v * P
    BY <2>1
  <2>5. v * P \in Nat /\ P * T \in Nat
    BY <2>1
  <2>6. u + v * P \in Nat /\ u + v * P < P * T
    BY <2>1, <2>3, <2>4, <2>5, <1>6
  <2>7. F * K = K * F
    BY <2>1
  <2> QED
    BY <1>5, <2>6, <2>7
<1>8. q \div K \in Nat /\ q \div K < F
  <2> HIDE DEF q
  <2> QED
    BY <1>4, <1>7, DivBound
<1> QED
  BY <1>7, <1>8 DEF P, K, F, e, k, x, f

(* The two tables are inverse. *)
Char(i) == ALPHABET[i + 1]

(* DECODE_TABLE undoes ALPHABET, run by run. *)
LEMMA DigitOfCase ==
  ASSUME NEW i \in 0..90
  PROVE  Char(i) \in 1..255 /\ DECODE_TABLE[Char(i)] = i
<1> DEFINE c == ALPHABET[i + 1]
<1>1. CASE i \in 0..25
  <2>1. c = 65 + i
    BY <1>1 DEF ALPHABET
  <2> HIDE DEF c
  <2>2. c \in 1..255 /\ DECODE_TABLE[c] = i
    BY <1>1, <2>1 DEF DECODE_TABLE
  <2> QED
    BY <2>2 DEF c, Char
<1>2. CASE i \in 26..51
  <2>1. c = 97 + (i - 26)
    BY <1>2 DEF ALPHABET
  <2> HIDE DEF c
  <2>2. c \in 1..255 /\ DECODE_TABLE[c] = i
    BY <1>2, <2>1 DEF DECODE_TABLE
  <2> QED
    BY <2>2 DEF c, Char
<1>3. CASE i \in 52..61
  <2>1. c = 48 + (i - 52)
    BY <1>3 DEF ALPHABET
  <2> HIDE DEF c
  <2>2. c \in 1..255 /\ DECODE_TABLE[c] = i
    BY <1>3, <2>1 DEF DECODE_TABLE
  <2> QED
    BY <2>2 DEF c, Char
<1>4. CASE i = 62
  <2>1. c = 33
    BY <1>4 DEF ALPHABET
  <2> HIDE DEF c
  <2>2. c \in 1..255 /\ DECODE_TABLE[c] = i
    BY <1>4, <2>1 DEF DECODE_TABLE
  <2> QED
    BY <2>2 DEF c, Char
<1>5. CASE i \in 63..66
  <2>1. c = 35 + (i - 63)
    BY <1>5 DEF ALPHABET
  <2> HIDE DEF c
  <2>2. c \in 1..255 /\ DECODE_TABLE[c] = i
    BY <1>5, <2>1 DEF DECODE_TABLE
  <2> QED
    BY <2>2 DEF c, Char
<1>6. CASE i \in 67..71
  <2>1. c = 40 + (i - 67)
    BY <1>6 DEF ALPHABET
  <2> HIDE DEF c
  <2>2. c \in 1..255 /\ DECODE_TABLE[c] = i
    BY <1>6, <2>1 DEF DECODE_TABLE
  <2> QED
    BY <2>2 DEF c, Char
<1>7. CASE i \in 72..73
  <2>1. c = 46 + (i - 72)
    BY <1>7 DEF ALPHABET
  <2> HIDE DEF c
  <2>2. c \in 1..255 /\ DECODE_TABLE[c] = i
    BY <1>7, <2>1 DEF DECODE_TABLE
  <2> QED
    BY <2>2 DEF c, Char
<1>8. CASE i \in 74..80
  <2>1. c = 58 + (i - 74)
    BY <1>8 DEF ALPHABET
  <2> HIDE DEF c
  <2>2. c \in 1..255 /\ DECODE_TABLE[c] = i
    BY <1>8, <2>1 DEF DECODE_TABLE
  <2> QED
    BY <2>2 DEF c, Char
<1>9. CASE i = 81
  <2>1. c = 91
    BY <1>9 DEF ALPHABET
  <2> HIDE DEF c
  <2>2. c \in 1..255 /\ DECODE_TABLE[c] = i
    BY <1>9, <2>1 DEF DECODE_TABLE
  <2> QED
    BY <2>2 DEF c, Char
<1>10. CASE i \in 82..85
  <2>1. c = 93 + (i - 82)
    BY <1>10 DEF ALPHABET
  <2> HIDE DEF c
  <2>2. c \in 1..255 /\ DECODE_TABLE[c] = i
    BY <1>10, <2>1 DEF DECODE_TABLE
  <2> QED
    BY <2>2 DEF c, Char
<1>11. CASE i \in 86..89
  <2>1. c = 123 + (i - 86)
    BY <1>11 DEF ALPHABET
  <2> HIDE DEF c
  <2>2. c \in 1..255 /\ DECODE_TABLE[c] = i
    BY <1>11, <2>1 DEF DECODE_TABLE
  <2> QED
    BY <2>2 DEF c, Char
<1>12. CASE i = 90
  <2>1. c = 45
    BY <1>12 DEF ALPHABET
  <2> HIDE DEF c
  <2>2. c \in 1..255 /\ DECODE_TABLE[c] = i
    BY <1>12, <2>1 DEF DECODE_TABLE
  <2> QED
    BY <2>2 DEF c, Char
<1> QED
  BY <1>1, <1>2, <1>3, <1>4, <1>5, <1>6, <1>7, <1>8, <1>9, <1>10, <1>11, <1>12

Digits == 0..90

InTables(i) == Char(i) \in 1..255 /\ DECODE_TABLE[Char(i)] = i

(* The same for a digit that is not a numeral. *)
LEMMA DigitOf == \A i \in Digits : InTables(i)
BY DigitOfCase DEF Digits, InTables

(* DECODE_TABLE holds a digit or -1. *)
LEMMA TableType ==
  ASSUME NEW c \in 0..255
  PROVE  DECODE_TABLE[c] \in -1..90
<1>1. CASE c \in 0..32
  <2>1. DECODE_TABLE[c] = -1
    BY <1>1 DEF DECODE_TABLE
  <2> QED
    BY <1>1, <2>1
<1>2. CASE c = 33
  <2>1. DECODE_TABLE[c] = 62
    BY <1>2 DEF DECODE_TABLE
  <2> QED
    BY <1>2, <2>1
<1>3. CASE c = 34 BY <1>3 DEF DECODE_TABLE
<1>4. CASE c \in 35..38
  <2>1. DECODE_TABLE[c] = c - 35 + 63
    BY <1>4 DEF DECODE_TABLE
  <2> QED
    BY <1>4, <2>1
<1>5. CASE c = 39 BY <1>5 DEF DECODE_TABLE
<1>6. CASE c \in 40..44
  <2>1. DECODE_TABLE[c] = c - 40 + 67
    BY <1>6 DEF DECODE_TABLE
  <2> QED
    BY <1>6, <2>1
<1>7. CASE c = 45
  <2>1. DECODE_TABLE[c] = 90
    BY <1>7 DEF DECODE_TABLE
  <2> QED
    BY <1>7, <2>1
<1>8. CASE c \in 46..47
  <2>1. DECODE_TABLE[c] = c - 46 + 72
    BY <1>8 DEF DECODE_TABLE
  <2> QED
    BY <1>8, <2>1
<1>9. CASE c \in 48..57
  <2>1. DECODE_TABLE[c] = c - 48 + 52
    BY <1>9 DEF DECODE_TABLE
  <2> QED
    BY <1>9, <2>1
<1>10. CASE c \in 58..64
  <2>1. DECODE_TABLE[c] = c - 58 + 74
    BY <1>10 DEF DECODE_TABLE
  <2> QED
    BY <1>10, <2>1
<1>11. CASE c \in 65..90
  <2>1. DECODE_TABLE[c] = c - 65
    BY <1>11 DEF DECODE_TABLE
  <2> QED
    BY <1>11, <2>1
<1>12. CASE c = 91
  <2>1. DECODE_TABLE[c] = 81
    BY <1>12 DEF DECODE_TABLE
  <2> QED
    BY <1>12, <2>1
<1>13. CASE c = 92 BY <1>13 DEF DECODE_TABLE
<1>14. CASE c \in 93..96
  <2>1. DECODE_TABLE[c] = c - 93 + 82
    BY <1>14 DEF DECODE_TABLE
  <2> QED
    BY <1>14, <2>1
<1>15. CASE c \in 97..122
  <2>1. DECODE_TABLE[c] = c - 97 + 26
    BY <1>15 DEF DECODE_TABLE
  <2> QED
    BY <1>15, <2>1
<1>16. CASE c \in 123..126
  <2>1. DECODE_TABLE[c] = c - 123 + 86
    BY <1>16 DEF DECODE_TABLE
  <2> QED
    BY <1>16, <2>1
<1>17. CASE c \in 127..255
  <2>1. DECODE_TABLE[c] = -1
    BY <1>17 DEF DECODE_TABLE
  <2> QED
    BY <1>17, <2>1
<1> QED
  BY <1>1, <1>2, <1>3, <1>4, <1>5, <1>6, <1>7, <1>8, <1>9, <1>10, <1>11, <1>12, <1>13,
     <1>14, <1>15, <1>16, <1>17

(* A value that 13 or 14 bits hold is written with two digits. *)
LEMMA PairDigits ==
  ASSUME NEW v \in Nat, v < 2^PairBits(v)
  PROVE  /\ PairBits(v) \in {13, 14}
         /\ v <= 8280
         /\ v % 91 \in 0..90 /\ v \div 91 \in 0..90
         /\ (v % 91) + (v \div 91) * 91 = v
<1>1. PairBits(v) \in {13, 14}
  BY DEF PairBits
<1>2. v <= 8280
  <2>1. CASE v % 8192 > 88
    <3>1. PairBits(v) = 13
      BY <2>1 DEF PairBits
    <3>2. v < 8192
      BY <3>1
    <3> QED
      BY <3>2
  <2>2. CASE v % 8192 <= 88
    <3>1. PairBits(v) = 14
      BY <2>2 DEF PairBits
    <3>2. v < 16384
      BY <3>1
    <3> QED
      BY <3>2, <2>2
  <2> QED
    BY <2>1, <2>2
<1> QED
  BY <1>1, <1>2

(* x is written with n bits. *)
HasBits(x, n) == x \in Nat /\ x < 2^n

(* Any two digits fit the bits that PairBits gives them. *)
LEMMA PairOfDigits ==
  ASSUME NEW x \in Digits, NEW y \in Digits, NEW v, v = x + y * 91
  PROVE  HasBits(v, PairBits(v)) /\ PairBits(v) \in {13, 14}
<1> DEFINE w == x + y * 91
<1>1. w \in 0..8280
  BY DEF Digits
<1>4. v = w
  OBVIOUS
<1> HIDE DEF w
<1>2. CASE w % 8192 > 88
  <2>1. PairBits(w) = 13
    BY <1>2 DEF PairBits
  <2>3. 2^PairBits(w) = 8192
    BY <2>1
  <2>2. w < 8192 /\ w \in Nat
    BY <1>1, <1>2
  <2>4. HasBits(w, PairBits(w))
    BY <2>2, <2>3 DEF HasBits
  <2> QED
    BY <1>4, <2>1, <2>4
<1>3. CASE w % 8192 <= 88
  <2>1. PairBits(w) = 14
    BY <1>1, <1>3 DEF PairBits
  <2>3. 2^PairBits(w) = 16384
    BY <2>1
  <2>2. w < 16384 /\ w \in Nat
    BY <1>1
  <2>4. HasBits(w, PairBits(w))
    BY <2>2, <2>3 DEF HasBits
  <2> QED
    BY <1>4, <2>1, <2>4
<1> QED
  BY <1>1, <1>2, <1>3

----------------------------------------------------------------------------
(* Decoding, one pair or the tail at a time *)

(* o is the first m octets of s. *)
Prefix(s, o, m) ==
  /\ o \in Seq(0..255) /\ m \in Nat /\ m <= Len(s)
  /\ Len(o) = m
  /\ \A i \in 1..m : o[i] = s[i]

(* A decoder with output o, n queued bits and queue q is at bit b of s. *)
DecodedTo(s, o, q, n, b) ==
  /\ b \in Nat
  /\ Prefix(s, o, b \div 8)
  /\ n = b % 8
  /\ q = LowBits(s, b \div 8, b % 8)

(* A function on 1..k is a sequence. *)
LEMMA FunctionIsSeq == ASSUME NEW S, NEW k \in Nat, NEW g \in [1..k -> S] PROVE g \in Seq(S)
BY SeqDef

QueueOctets(q) ==
  /\ OctetsOf(q, 1) \in Seq(0..255) /\ Len(OctetsOf(q, 1)) = 1
  /\ OctetsOf(q, 1)[1] = q % 256
  /\ OctetsOf(q, 2) \in Seq(0..255) /\ Len(OctetsOf(q, 2)) = 2
  /\ OctetsOf(q, 2)[1] = q % 256 /\ OctetsOf(q, 2)[2] = (q \div 256) % 256

(* One octet or two from the queue. *)
LEMMA OctetsOfQueue == ASSUME NEW q \in Nat PROVE QueueOctets(q)
<1>1. \A k \in {1, 2} : \A j \in 1..k : OctetsOf(q, k)[j] = (q \div 256^(j - 1)) % 256
  BY DEF OctetsOf
<1>2. \A k \in {1, 2} : DOMAIN OctetsOf(q, k) = 1..k
  BY DEF OctetsOf
<1>3. 256^(1 - 1) = 1 /\ 256^(2 - 1) = 256
  OBVIOUS
<1>4. /\ q \div 1 = q /\ q % 256 \in 0..255 /\ (q \div 256) % 256 \in 0..255
  OBVIOUS
<1>5. /\ OctetsOf(q, 1)[1] = q % 256 /\ OctetsOf(q, 2)[1] = q % 256
      /\ OctetsOf(q, 2)[2] = (q \div 256) % 256
  BY <1>1, <1>3, <1>4
<1>6. OctetsOf(q, 1) \in [1..1 -> 0..255]
  BY <1>4 DEF OctetsOf
<1>7. OctetsOf(q, 2) \in [1..2 -> 0..255]
  BY <1>4 DEF OctetsOf
<1>8. OctetsOf(q, 1) \in Seq(0..255) /\ OctetsOf(q, 2) \in Seq(0..255)
  BY <1>6, <1>7, FunctionIsSeq, ZenonT(60)
<1>9. Len(OctetsOf(q, 1)) = 1 /\ Len(OctetsOf(q, 2)) = 2
  BY <1>2, <1>8
<1> QED
  BY <1>5, <1>8, <1>9 DEF QueueOctets

(* The octets taken out of e bits behind m octets of s continue o. *)
LEMMA PrefixGrows ==
  ASSUME NEW s \in Seq(0..255), NEW o, NEW m \in Nat, Prefix(s, o, m),
         NEW e \in 8..23, m + (e \div 8) <= Len(s)
  PROVE  Prefix(s, o \o OctetsOf(LowBits(s, m, e), e \div 8), m + (e \div 8))
<1> DEFINE q == LowBits(s, m, e)
           k == e \div 8
           w == OctetsOf(q, k)
           r == o \o w
<1>1. k \in {1, 2} /\ (k = 2 => e >= 16)
  OBVIOUS
<1>2. q \in Nat
  <2> DEFINE C == Window(s, m)
             E == 2^e
  <2>1. C \in Nat
    BY WindowType
  <2>2. e \in 0..24
    OBVIOUS
  <2>3. Positive(E)
    BY <2>2, PowerType
  <2> HIDE DEF C, E
  <2>4. C % E \in Nat
    BY <2>1, <2>3 DEF Positive
  <2> QED
    BY <2>4 DEF C, E, LowBits
<1>3. q % 256 = Octet(s, m + 1) /\ (e >= 16 => (q \div 256) % 256 = Octet(s, m + 2))
  <2> HIDE DEF k
  <2> QED
    BY OctetsOut, ZenonT(60)
<1>4. o \in Seq(0..255) /\ Len(o) = m /\ \A i \in 1..m : o[i] = s[i]
  BY DEF Prefix
<1> HIDE DEF q, k
<1>5. w \in Seq(0..255) /\ Len(w) = k /\ w[1] = q % 256 /\ (k = 2 => w[2] = (q \div 256) % 256)
  <2>0. QueueOctets(q)
    BY <1>2, OctetsOfQueue
  <2>1. CASE k = 1
    <3>1. w = OctetsOf(q, 1)
      BY <2>1
    <3>2. /\ OctetsOf(q, 1) \in Seq(0..255) /\ Len(OctetsOf(q, 1)) = 1
          /\ OctetsOf(q, 1)[1] = q % 256
      BY <2>0 DEF QueueOctets
    <3> HIDE DEF w
    <3> QED
      BY <2>1, <3>1, <3>2
  <2>2. CASE k = 2
    <3>1. w = OctetsOf(q, 2)
      BY <2>2
    <3>2. /\ OctetsOf(q, 2) \in Seq(0..255) /\ Len(OctetsOf(q, 2)) = 2
          /\ OctetsOf(q, 2)[1] = q % 256 /\ OctetsOf(q, 2)[2] = (q \div 256) % 256
      BY <2>0 DEF QueueOctets
    <3> HIDE DEF w
    <3> QED
      BY <2>2, <3>1, <3>2
  <2> QED
    BY <1>1, <2>1, <2>2
<1>6. m + k <= Len(s) /\ Len(s) \in Nat /\ m + k \in Nat
  BY <1>1, LenProperties DEF k
<1>7. w[1] = s[m + 1] /\ (k = 2 => w[2] = s[m + 2])
  <2>1. m + 1 \in 1..Len(s) /\ (k = 2 => m + 2 \in 1..Len(s))
    BY <1>1, <1>6
  <2>2. Octet(s, m + 1) = s[m + 1] /\ (k = 2 => Octet(s, m + 2) = s[m + 2])
    BY <2>1 DEF Octet
  <2> QED
    BY <1>1, <1>3, <1>5, <2>2
<1> HIDE DEF w
<1>8. /\ r \in Seq(0..255) /\ Len(r) = m + k
      /\ \A i \in 1..(m + k) : r[i] = IF i <= m THEN o[i] ELSE w[i - m]
  <2> DEFINE S == 0..255
  <2>1. o \in Seq(S) /\ w \in Seq(S) /\ Len(o) = m /\ Len(w) = k
    BY <1>4, <1>5
  <2> HIDE DEF S
  <2>2. /\ r \in Seq(S) /\ Len(r) = Len(o) + Len(w)
        /\ \A i \in 1..(Len(o) + Len(w)) : r[i] = IF i <= Len(o) THEN o[i] ELSE w[i - Len(o)]
    BY <2>1, ConcatProperties, ZenonT(60)
  <2> HIDE DEF r
  <2> QED
    BY <2>1, <2>2 DEF S
<1> HIDE DEF r
<1>9. ASSUME NEW i \in 1..(m + k) PROVE r[i] = s[i]
  <2>1. CASE i <= m
    <3>1. i \in 1..m
      BY <2>1
    <3> QED
      BY <1>4, <1>8, <2>1, <3>1
  <2>2. CASE i = m + 1
    BY <1>7, <1>8, <2>2
  <2>3. CASE k = 2 /\ i = m + 2
    BY <1>7, <1>8, <2>3
  <2> QED
    BY <1>1, <2>1, <2>2, <2>3
<1>10. Prefix(s, r, m + k)
  BY <1>6, <1>8, <1>9 DEF Prefix
<1> QED
  BY <1>10 DEF r, w, q, k

(* A pair of a decoder that stands at bit b. *)
LEMMA DecodePair ==
  ASSUME NEW s \in Seq(0..255), NEW o, NEW u, NEW n, NEW b, DecodedTo(s, o, u, n, b),
         NEW t \in {13, 14}, b + t <= 8 * Len(s)
  PROVE  LET q == u + Bits(s, b, t) * 2^n
             k == (n + t) \div 8
         IN  /\ k \in {1, 2}
             /\ Len(o) + k <= Len(s)
             /\ DecodedTo(s, o \o OctetsOf(q, k), q \div 2^(8 * k), n + t - 8 * k, b + t)
<1> DEFINE q == u + Bits(s, b, t) * 2^n
           e == n + t
           k == e \div 8
           f == e % 8
           m == b \div 8
<1>1. b \in Nat /\ Prefix(s, o, m) /\ n = b % 8 /\ u = LowBits(s, m, b % 8)
  BY DEF DecodedTo
<1>2. m \in Nat /\ n \in 0..7 /\ b = 8 * m + n
  BY <1>1, BitPlace
<1>3. e \in Nat /\ e \in 13..21 /\ e \in 8..23
  <2>1. n \in 0..7
    BY <1>2
  <2> QED
    BY <2>1
<1>4. k \in Nat /\ f \in 0..7 /\ e = 8 * k + f
  <2> HIDE DEF e
  <2> QED
    BY <1>3, BitPlace
<1>5. q = LowBits(s, m, e)
  <2>1. t \in 0..16
    OBVIOUS
  <2> QED
    BY <1>1, <2>1, BitsJoin
<1> HIDE DEF q, e, k, f, m
<1>6. k \in {1, 2}
  BY <1>3, <1>4
<1>7. b + t = 8 * (m + k) + f
  BY <1>2, <1>4 DEF e
<1>8. (b + t) \div 8 = m + k /\ (b + t) % 8 = f
  <2>1. b + t \in Int /\ 8 \in Nat /\ 8 > 0 /\ m + k \in Int /\ f \in Int /\ 0 <= f /\ f < 8
    BY <1>1, <1>2, <1>4
  <2> QED
    BY <1>7, <2>1, DivModUnique, ZenonT(60)
<1>9. m + k <= Len(s)
  BY <1>2, <1>4, <1>7, LenProperties
<1>10. Prefix(s, o \o OctetsOf(q, k), m + k)
  BY <1>1, <1>2, <1>3, <1>5, <1>9, PrefixGrows DEF k
<1>11. q \div 2^(8 * k) = LowBits(s, m + k, f)
  <2>1. m \in Nat /\ e \in 8..23
    BY <1>2, <1>3
  <2>2. LowBits(s, m, e) \div 2^(8 * (e \div 8)) = LowBits(s, m + (e \div 8), e % 8)
    BY <2>1, RestOut
  <2> QED
    BY <1>5, <2>2 DEF k, f
<1>12. DecodedTo(s, o \o OctetsOf(q, k), q \div 2^(8 * k), f, b + t)
  <2>1. b + t \in Nat
    BY <1>1
  <2> QED
    BY <1>8, <1>10, <1>11, <2>1 DEF DecodedTo
<1>13. n + t - 8 * k = f
  BY <1>2, <1>4 DEF e
<1>14. Len(o) = m
  BY <1>1 DEF Prefix
<1> QED
  BY <1>6, <1>9, <1>12, <1>13, <1>14 DEF q, k, e

(* A prefix as long as s is s. *)
LEMMA WholePrefix ==
  ASSUME NEW s \in Seq(0..255), NEW o, Prefix(s, o, Len(s))
  PROVE  o = s
<1> DEFINE S == 0..255
<1>1. s \in Seq(S) /\ o \in Seq(S) /\ Len(o) = Len(s) /\ \A i \in 1..Len(o) : o[i] = s[i]
  BY DEF Prefix
<1> HIDE DEF S
<1> QED
  BY <1>1, SeqEqual

(* A pair of value v and t bits is put on a queue u of n bits; k octets of *)
(* the result q are whole.                                                 *)
Joins(u, n, v, t, q, k) == q = u + v * 2^n /\ k = (n + t) \div 8

LastStep(s, o, q, k) == Len(o) + k <= Len(s) /\ o \o OctetsOf(q, k) = s

(* A last pair carries fewer bits than PairBits says, and still fills as   *)
(* many octets as are left.                                                *)
LEMMA DecodeLastPair ==
  ASSUME NEW s \in Seq(0..255), NEW o, NEW u, NEW n, NEW b, DecodedTo(s, o, u, n, b),
         NEW r \in 7..13, b + r = 8 * Len(s), NEW t \in {13, 14}
  PROVE  \A Q, K : Joins(u, n, Bits(s, b, r), t, Q, K) => LastStep(s, o, Q, K)
<1> DEFINE q == u + Bits(s, b, r) * 2^n
           e == n + r
           k == e \div 8
           m == b \div 8
           h == n + t
<1>1. b \in Nat /\ Prefix(s, o, m) /\ n = b % 8 /\ u = LowBits(s, m, b % 8)
  BY DEF DecodedTo
<1>2. m \in Nat /\ n \in 0..7 /\ b = 8 * m + n
  BY <1>1, BitPlace
<1>3. e \in Nat /\ Len(s) \in Nat /\ 8 * Len(s) = 8 * m + e
  <2> HIDE DEF m
  <2> QED
    BY <1>2, LenProperties
<1>4. q = LowBits(s, m, e)
  <2>1. r \in 0..16
    OBVIOUS
  <2> QED
    BY <1>1, <2>1, BitsJoin
<1>5. e = 8 * (Len(s) - m) /\ Len(s) - m \in Int
  <2> HIDE DEF m, e
  <2> QED
    BY <1>2, <1>3
<1>6. e \in 7..20
  <2>1. n \in 0..7
    BY <1>2
  <2> QED
    BY <2>1
<1> HIDE DEF q, e, m
<1>7. Len(s) - m \in {1, 2} /\ e \in 8..23
  <2> DEFINE g == Len(s) - m
  <2>1. g \in Int /\ e = 8 * g
    BY <1>5
  <2> HIDE DEF g
  <2>2. g \in {1, 2} /\ e \in 8..23
    BY <1>6, <2>1
  <2> QED
    BY <2>2 DEF g
<1>8. k = Len(s) - m
  <2>1. CASE Len(s) - m = 1
    <3>1. e = 8
      BY <1>5, <2>1
    <3> QED
      BY <2>1, <3>1
  <2>2. CASE Len(s) - m = 2
    <3>1. e = 16
      BY <1>5, <2>2
    <3> QED
      BY <2>2, <3>1
  <2> QED
    BY <1>7, <2>1, <2>2
<1>9. h \div 8 = k
  <2>1. h >= e /\ h < e + 8 /\ h \in Int
    <3>1. n \in 0..7
      BY <1>2
    <3> QED
      BY <3>1 DEF e
  <2>2. h = 8 * (Len(s) - m) + (h - e)
    BY <1>5, <2>1
  <2>3. h - e \in Int /\ 0 <= h - e /\ h - e < 8 /\ 8 \in Nat /\ 8 > 0
    BY <1>3, <2>1
  <2> HIDE DEF h
  <2> DEFINE g == Len(s) - m
             w == h - e
  <2>4. h = 8 * g + w /\ w \in Int /\ 0 <= w /\ w < 8 /\ g \in Int /\ h \in Int
    BY <1>5, <2>1, <2>2, <2>3
  <2> HIDE DEF g, w
  <2>5. h \div 8 = g
    BY <2>3, <2>4, DivModUnique
  <2> QED
    BY <1>8, <2>5 DEF g
<1>10. m + k = Len(s)
  BY <1>2, <1>3, <1>8
<1>11. Prefix(s, o \o OctetsOf(q, k), m + k)
  <2>1. m + (e \div 8) <= Len(s)
    BY <1>10, <1>3
  <2> QED
    BY <1>1, <1>2, <1>4, <1>7, <2>1, PrefixGrows
<1>12. o \o OctetsOf(q, k) = s
  <2> HIDE DEF k
  <2> QED
    BY <1>10, <1>11, WholePrefix
<1>13. Len(o) = m
  BY <1>1 DEF Prefix
<1>14. k \in {1, 2} /\ Len(o) + k <= Len(s)
  BY <1>3, <1>7, <1>8, <1>10, <1>13, SMTT(40)
<1>15. LastStep(s, o, q, h \div 8)
  BY <1>9, <1>12, <1>14 DEF LastStep
<1> QED
  BY <1>15 DEF q, Joins

LastOctet(s, o, u, n, v) == Len(o) < Len(s) /\ Append(o, (u + v * 2^n) % 256) = s

(* A single last character holds the rest of the last octet. *)
LEMMA DecodeLastOctet ==
  ASSUME NEW s \in Seq(0..255), NEW o, NEW u, NEW n, NEW b, DecodedTo(s, o, u, n, b),
         NEW r \in 1..7, b + r = 8 * Len(s)
  PROVE  LastOctet(s, o, u, n, Bits(s, b, r))
<1> DEFINE q == u + Bits(s, b, r) * 2^n
           m == b \div 8
           x == q % 256
           S == 0..255
<1>1. b \in Nat /\ Prefix(s, o, m) /\ n = b % 8 /\ u = LowBits(s, m, b % 8)
  BY DEF DecodedTo
<1>2. m \in Nat /\ n \in 0..7 /\ b = 8 * m + n
  BY <1>1, BitPlace
<1>3. n + r = 8 /\ Len(s) = m + 1
  <2> HIDE DEF m
  <2>1. Len(s) \in Nat /\ n + r = 8 * (Len(s) - m)
    BY <1>2, LenProperties
  <2> DEFINE g == Len(s) - m
  <2>2. g \in Int /\ n + r = 8 * g /\ Len(s) = m + g
    BY <1>2, <2>1
  <2> HIDE DEF g
  <2>3. g = 1
    BY <1>2, <2>2
  <2> QED
    BY <2>2, <2>3
<1>4. q = LowBits(s, m, 8)
  <2>1. r \in 0..16
    OBVIOUS
  <2>2. q = LowBits(s, m, n + r)
    BY <1>1, <2>1, BitsJoin
  <2> QED
    BY <1>3, <2>2
<1> HIDE DEF q, m
<1>5. x = s[m + 1] /\ x \in S
  <2>1. 8 \in 8..23 /\ m + 1 \in 1..Len(s)
    BY <1>2, <1>3
  <2>2. LowBits(s, m, 8) % 256 = Octet(s, m + 1)
    BY <1>2, <2>1, OctetsOut
  <2> QED
    <3>1. Octet(s, m + 1) = s[m + 1]
      BY <2>1 DEF Octet
    <3>2. s[m + 1] \in S
      BY <2>1, ElementOfSeq, ZenonT(60)
    <3> QED
      BY <1>4, <2>2, <3>1, <3>2, ZenonT(60)
<1>6. o \in Seq(S) /\ Len(o) = m /\ \A i \in 1..m : o[i] = s[i]
  BY <1>1 DEF Prefix
<1>7. s \in Seq(S)
  OBVIOUS
<1> DEFINE a == Append(o, x)
<1> HIDE DEF S, x
<1>8. a \in Seq(S) /\ Len(a) = m + 1 /\ (\A i \in 1..m : a[i] = o[i]) /\ a[m + 1] = x
  BY <1>5, <1>6, AppendProperties
<1> HIDE DEF a
<1>9. ASSUME NEW i \in 1..Len(a) PROVE a[i] = s[i]
  <2>1. i \in 1..m \/ i = m + 1
    BY <1>2, <1>8
  <2> QED
    BY <1>5, <1>6, <1>8, <2>1
<1>10. Len(a) = Len(s)
  BY <1>3, <1>8
<1>11. a = s
  BY <1>7, <1>8, <1>9, <1>10, SeqEqual
<1>12. Len(o) < Len(s)
  BY <1>2, <1>3, <1>6
<1> QED
  BY <1>11, <1>12 DEF a, x, q, LastOctet

----------------------------------------------------------------------------
(* Encoding, one pair at a time *)

KeepsLow(q) == (q % 8192) % 8192 = q % 8192 /\ (q % 16384) % 8192 = q % 8192

(* The low thirteen bits are the same in the low thirteen or fourteen. *)
LEMMA LowThirteen == \A q \in Nat : KeepsLow(q)
BY DEF KeepsLow

(* The bits of a queue that is about to be written lie in three octets. *)
LEMMA InWindow ==
  ASSUME NEW b \in Nat, NEW N \in 14..21, NEW p \in Nat, b + N = 8 * p
  PROVE  (b % 8) + N <= 24
<1> DEFINE m == b \div 8
           d == b % 8
<1>1. m \in Nat /\ d \in 0..7 /\ b = 8 * m + d
  BY BitPlace
<1> HIDE DEF m, d
<1> DEFINE g == p - m
<1>2. g \in Int /\ d + N = 8 * g
  BY <1>1
<1> HIDE DEF g
<1>3. g <= 3
  BY <1>1, <1>2
<1> QED
  BY <1>2, <1>3 DEF d

(* A queue of N bits, its first t of them, and the rest. *)
Queued(s, b, N, q, t) ==
  /\ (b % 8) + N <= 24 /\ b + N <= 8 * Len(s)
  /\ q = Bits(s, b, N) /\ t = PairBits(q)

Taken(s, b, N, q, t) ==
  /\ t \in {13, 14}
  /\ q % 2^t = Bits(s, b, t)
  /\ PairBits(Bits(s, b, t)) = t
  /\ q \div 2^t = Bits(s, b + t, N - t)
  /\ b + t <= 8 * Len(s)

(* EmitPair takes t bits off the queue and PairBits of the value it writes *)
(* is t again.                                                             *)
LEMMA EncodePair ==
  ASSUME NEW s \in Seq(0..255), NEW b \in Nat, NEW N \in 14..21, NEW q, NEW t,
         Queued(s, b, N, q, t)
  PROVE  Taken(s, b, N, q, t)
<1> DEFINE v == Bits(s, b, t)
<1>1. (b % 8) + N <= 24 /\ b + N <= 8 * Len(s) /\ t = PairBits(q)
  BY DEF Queued
<1>2. t \in {13, 14}
  BY <1>1 DEF PairBits
<1>3. q = Bits(s, b, N)
  BY DEF Queued
<1>4. N \in t..21 /\ N \in 0..24
  BY <1>2
<1>6. q \in Nat
  BY <1>3, <1>4, BitsType
<1>7. q % 2^t = v /\ q \div 2^t = Bits(s, b + t, N - t)
  <2>1. Bits(s, b, N) % 2^t = Bits(s, b, t)
    BY <1>2, <1>4, BitsTake
  <2>3. Bits(s, b, N) \div 2^t = Bits(s, b + t, N - t)
    BY <1>1, <1>2, <1>4, BitsRest
  <2> QED
    BY <1>3, <2>1, <2>3
<1>8. PairBits(v) = t
  <2> HIDE DEF v
  <2>0. (q % 8192) % 8192 = q % 8192 /\ (q % 16384) % 8192 = q % 8192
    BY <1>6, LowThirteen DEF KeepsLow
  <2>1. CASE q % 8192 > 88
    <3>1. t = 13
      BY <1>1, <2>1 DEF PairBits
    <3>2. v = q % 8192
      BY <1>7, <3>1
    <3>3. v % 8192 > 88
      BY <2>0, <2>1, <3>2
    <3> QED
      BY <3>1, <3>3 DEF PairBits
  <2>2. CASE ~(q % 8192 > 88)
    <3>1. t = 14
      BY <1>1, <2>2 DEF PairBits
    <3>2. v = q % 16384
      BY <1>7, <3>1
    <3>3. ~(v % 8192 > 88)
      BY <2>0, <2>2, <3>2
    <3> QED
      BY <3>1, <3>3 DEF PairBits
  <2> QED
    BY <2>1, <2>2
<1>9. b + t <= 8 * Len(s)
  BY <1>1, <1>2, LenProperties
<1> QED
  BY <1>2, <1>7, <1>8, <1>9 DEF Taken

----------------------------------------------------------------------------
(* The inductive invariant of the codec *)

(* The digits of v are the characters 2 j + 1 and 2 j + 2 of t, as far as t goes. *)
DigitsAt(t, j, v) ==
  /\ 2 * j + 1 <= Len(t) => t[2 * j + 1] = Char(v % 91)
  /\ 2 * j + 2 <= Len(t) => t[2 * j + 2] = Char(v \div 91)

(* Pair j of t is the bits of s from b to c. *)
PairAt(s, t, j, b, c) ==
  /\ c - b \in {13, 14} /\ c <= 8 * Len(s)
  /\ c - b = PairBits(Bits(s, b, c - b))
  /\ DigitsAt(t, j, Bits(s, b, c - b))
  /\ 2 * j + 2 <= Len(t)

(* The first n pairs of t; pair j begins at bit at[j] of s. *)
PairsAt(s, t, n, at) == at[0] = 0 /\ \A j \in 0..(n - 1) : PairAt(s, t, j, at[j], at[j + 1])

(* What follows them is the rest of s, from bit b on. *)
TailOf(s, t, n, b, r) ==
  /\ r \in 0..13
  /\ Len(t) = 2 * n + TailLen(Bits(s, b, r), r)
  /\ DigitsAt(t, n, Bits(s, b, r))

TailAt(s, t, n, b) == TailOf(s, t, n, b, 8 * Len(s) - b)

CodecTypes ==
  /\ CodecTypeOK
  /\ input \in Seq(0..255) /\ text \in Seq(1..255) /\ output \in Seq(0..255)
  /\ outputMaxLen \in Nat

QueueFits ==
  /\ numBits \in 0..(IF phase \in {"encode", "encodeFailed"} THEN 13 ELSE 7)
  /\ queue \in 0..(2^numBits - 1)

(* An encoder has written whole pairs; the queue is what it read since.    *)
Encoded(n, at) ==
  /\ PairsAt(input, text, n, at)
  /\ Len(text) = 2 * n
  /\ at[n] + numBits = 8 * pos
  /\ queue = Bits(input, at[n], numBits)

EncodeInv ==
  phase = "encode" =>
    /\ val = -1 /\ output = <<>> /\ input # <<>>
    /\ 13 * Len(text) + 2 * numBits <= 16 * pos
    /\ \E n \in Nat : \E at \in [0..n -> Nat] : Encoded(n, at)

(* The end of the bits that pair j, or the tail, was written for. *)
EndOf(j, n, at) == IF j < n THEN at[j + 1] ELSE 8 * Len(input)

(* What it was written for. *)
ValueAt(j, n, at) == Bits(input, at[j], EndOf(j, n, at) - at[j])

(* A decoder before pair j, inside it, or behind the last one. *)
Before(j) == pos = 2 * j /\ val = -1

Inside(j, v) == pos = 2 * j + 1 /\ val = v % 91

Reading(j, n, at) ==
  /\ DecodedTo(input, output, queue, numBits, at[j])
  /\ Before(j) \/ Inside(j, ValueAt(j, n, at))

AllRead == pos = Len(text) /\ val = -1 /\ output = input

Decoding(n, at) ==
  /\ PairsAt(input, text, n, at)
  /\ TailAt(input, text, n, at[n])
  /\ AllRead \/ \E j \in 0..n : Reading(j, n, at)

TripInv ==
  phase = "decode" /\ input # <<>> =>
    /\ outputMaxLen = Len(input)
    /\ \E n \in Nat : \E at \in [0..n -> Nat] : Decoding(n, at)

(* Two characters are at most fourteen bits. *)
DecodeSize ==
  phase = "decode" =>
    8 * Len(output) + numBits <= 7 * (IF val = -1 THEN pos ELSE pos - 1)

Failures ==
  /\ phase = "encodeFailed" => outputMaxLen <= encodedSize(Len(input))
  /\ phase = "decodeFailed" => input = <<>> /\ 8 * outputMaxLen < 7 * Len(text) + 8

CodecInv ==
  /\ CodecTypes /\ QueueFits /\ Failures
  /\ EncodeInv /\ TripInv /\ DecodeSize /\ RoundTrip

(* The invariant holds at the start. *)
LEMMA InitCodec == CodecInit => CodecInv
<1> SUFFICES ASSUME CodecInit PROVE CodecInv
  OBVIOUS
<1>1. /\ output = <<>> /\ pos = 0 /\ queue = 0 /\ numBits = 0 /\ val = -1
      /\ outputMaxLen \in BufferSizes
  BY DEF CodecInit
<1>2. outputMaxLen \in Nat
  BY <1>1, Base91Assumption
<1>3. <<>> \in Seq(0..255) /\ <<>> \in Seq(1..255) /\ Len(<<>>) = 0
  OBVIOUS
<1>4. QueueFits
  BY <1>1 DEF QueueFits
<1>5. CASE phase = "encode" /\ input \in Inputs /\ text = <<>>
  <2>1. input \in Seq(0..255) /\ input # <<>>
    BY <1>5, Base91Assumption
  <2>2. CodecTypes
    BY <1>1, <1>2, <1>3, <1>5, <2>1, LenProperties DEF CodecTypes, CodecTypeOK
  <2>3. EncodeInv
    <3> DEFINE at == [i \in 0..0 |-> 0]
    <3>1. at \in [0..0 -> Nat] /\ at[0] = 0
      OBVIOUS
    <3> HIDE DEF at
    <3>2. Bits(input, 0, 0) = 0
      <4>1. 0 \in Nat /\ 0 \in 0..24
        OBVIOUS
      <4>2. Bits(input, 0, 0) \in Nat /\ Bits(input, 0, 0) < 2^0
        BY <2>1, <4>1, BitsType
      <4> QED
        BY <4>2
    <3>3. Encoded(0, at)
      BY <1>1, <1>3, <1>5, <3>1, <3>2 DEF Encoded, PairsAt
    <3>4. \E n \in Nat : \E a \in [0..n -> Nat] : Encoded(n, a)
      BY <3>1, <3>3
    <3>5. 13 * Len(text) + 2 * numBits <= 16 * pos
      BY <1>1, <1>3, <1>5
    <3> QED
      BY <1>1, <2>1, <3>4, <3>5 DEF EncodeInv
  <2> QED
    BY <1>4, <1>5, <2>2, <2>3 DEF CodecInv, Failures, TripInv, DecodeSize, RoundTrip
<1>6. CASE phase = "decode" /\ input = <<>> /\ text \in Texts
  <2>1. text \in Seq(1..255)
    BY <1>6, Base91Assumption
  <2>2. CodecTypes
    BY <1>1, <1>2, <1>3, <1>6, <2>1, LenProperties DEF CodecTypes, CodecTypeOK
  <2>3. DecodeSize
    BY <1>1, <1>3 DEF DecodeSize
  <2> QED
    BY <1>4, <1>6, <2>2, <2>3 DEF CodecInv, Failures, TripInv, EncodeInv, RoundTrip
<1> QED
  BY <1>5, <1>6 DEF CodecInit

(* An octet that is shifted in is the next eight bits of the input. *)
LEMMA ShiftCodec == CodecInv /\ Shift => CodecInv'
<1> SUFFICES ASSUME CodecInv, Shift PROVE CodecInv'
  OBVIOUS
<1>1. /\ phase = "encode" /\ pos < Len(input) /\ numBits + 8 <= 13
      /\ pos' = pos + 1 /\ queue' = queue + input[pos + 1] * 2^numBits
      /\ numBits' = numBits + 8
      /\ UNCHANGED <<phase, input, text, output, outputMaxLen, val>>
  BY DEF Shift
<1>2. CodecTypes /\ QueueFits /\ EncodeInv
  BY DEF CodecInv
<1>3. /\ input \in Seq(0..255) /\ Len(input) \in Nat /\ pos \in Nat /\ numBits \in 0..5
      /\ Len(text) \in Nat
  BY <1>1, <1>2, LenProperties DEF CodecTypes, CodecTypeOK, QueueFits
<1>4. CodecTypes'
  BY <1>1, <1>2, <1>3 DEF CodecTypes, CodecTypeOK
<1>5. PICK n \in Nat : \E at \in [0..n -> Nat] : Encoded(n, at)
  BY <1>1, <1>2 DEF EncodeInv
<1>6. PICK at \in [0..n -> Nat] : Encoded(n, at)
  BY <1>5
<1> DEFINE b == at[n]
<1>7. b \in Nat /\ b + numBits = 8 * pos /\ queue = Bits(input, b, numBits)
  BY <1>6 DEF Encoded
<1> HIDE DEF b
<1>8. queue' = Bits(input, b, numBits + 8)
  <2>1. numBits \in 0..13 /\ 8 * pos = b + numBits
    BY <1>3, <1>7
  <2>2. Bits(input, b, numBits) + input[pos + 1] * 2^numBits = Bits(input, b, numBits + 8)
    BY <1>1, <1>3, <1>7, <2>1, BitsGrow, ZenonT(60)
  <2> QED
    BY <1>1, <1>7, <2>2
<1>9. QueueFits'
  <2> DEFINE N == numBits + 8
  <2>1. N \in 0..24 /\ N \in 0..13 /\ numBits' = N
    BY <1>1, <1>3
  <2> HIDE DEF N
  <2>2. Bits(input, b, N) \in Nat /\ Bits(input, b, N) < 2^N
    BY <1>3, <1>7, <2>1, BitsType
  <2>3. 2^N \in Nat
    BY <2>1, PowerType DEF Positive
  <2>4. queue' \in Nat /\ queue' < 2^N
    BY <1>8, <2>2 DEF N
  <2>5. queue' \in 0..(2^N - 1)
    BY <2>3, <2>4
  <2> QED
    BY <1>1, <2>1, <2>5 DEF QueueFits
<1>10. Encoded(n, at)'
  BY <1>1, <1>3, <1>6, <1>7, <1>8, SMTT(40) DEF Encoded, b
<1>11. EncodeInv'
  <2>1. \E m \in Nat : \E a \in [0..m -> Nat] : Encoded(m, a)'
    BY <1>10
  <2>2. (13 * Len(text) + 2 * numBits <= 16 * pos)'
    BY <1>1, <1>2, <1>3 DEF EncodeInv
  <2> QED
    BY <1>1, <1>2, <2>1, <2>2 DEF EncodeInv
<1> QED
  BY <1>1, <1>4, <1>9, <1>11 DEF CodecInv, Failures, TripInv, DecodeSize, RoundTrip

(* A value up to 8280 is written with two digits. *)
Values == 0..8280

(* The characters of a value and their digits. *)
LEMMA PairChars ==
  ASSUME NEW v \in Values
  PROVE  /\ Pair(v) = <<Char(v % 91), Char(v \div 91)>>
         /\ Char(v % 91) \in 1..255 /\ Char(v \div 91) \in 1..255
         /\ DECODE_TABLE[Char(v % 91)] = v % 91
         /\ DECODE_TABLE[Char(v \div 91)] = v \div 91
         /\ v % 91 \in 0..90 /\ v \div 91 \in 0..90
         /\ (v % 91) + (v \div 91) * 91 = v
<1> DEFINE x == v % 91
           y == v \div 91
<1>1. x \in 0..90 /\ y \in 0..90 /\ x + y * 91 = v
  BY DEF Values
<1>2. Pair(v) = <<Char(x), Char(y)>>
  BY DEF Pair, Char
<1> HIDE DEF x, y
<1>3. /\ Char(x) \in 1..255 /\ DECODE_TABLE[Char(x)] = x
      /\ Char(y) \in 1..255 /\ DECODE_TABLE[Char(y)] = y
  <2>1. x \in Digits /\ y \in Digits
    BY <1>1 DEF Digits
  <2>2. InTables(x) /\ InTables(y)
    BY <2>1, DigitOf
  <2> QED
    BY <2>2 DEF InTables
<1> QED
  BY <1>1, <1>2, <1>3 DEF x, y

(* Text behind the pairs does not change them. *)
LEMMA PairsKept ==
  ASSUME NEW s, NEW t \in Seq(1..255), NEW w \in Seq(1..255), NEW n \in Nat,
         NEW at \in [0..n -> Nat], PairsAt(s, t, n, at),
         Len(t) <= Len(w), \A i \in 1..Len(t) : w[i] = t[i]
  PROVE  PairsAt(s, w, n, at)
<1>1. Len(t) \in Nat /\ Len(w) \in Nat
  BY LenProperties
<1>2. ASSUME NEW j \in 0..(n - 1) PROVE PairAt(s, w, j, at[j], at[j + 1])
  <2> DEFINE b == at[j]
             c == at[j + 1]
             v == Bits(s, b, c - b)
  <2>1. PairAt(s, t, j, b, c)
    BY DEF PairsAt
  <2> HIDE DEF b, c, v
  <2>2. /\ c - b \in {13, 14} /\ c <= 8 * Len(s) /\ c - b = PairBits(v)
        /\ DigitsAt(t, j, v) /\ 2 * j + 2 <= Len(t)
    BY <2>1 DEF PairAt, v
  <2>3. 2 * j + 1 \in 1..Len(t) /\ 2 * j + 2 \in 1..Len(t)
    BY <1>1, <2>2, SMTT(40)
  <2>4. 2 * j + 1 <= Len(t) /\ 2 * j + 2 <= Len(w)
    BY <1>1, <2>2
  <2>5. DigitsAt(w, j, v)
    BY <2>2, <2>3, <2>4 DEF DigitsAt
  <2>6. PairAt(s, w, j, b, c)
    BY <2>2, <2>4, <2>5 DEF PairAt, v
  <2> QED
    BY <2>6 DEF b, c
<1> QED
  BY <1>2 DEF PairsAt

(* Two characters put behind a text. *)
LEMMA TwoMore ==
  ASSUME NEW S, NEW t \in Seq(S), NEW x \in S, NEW y \in S
  PROVE  /\ t \o <<x, y>> \in Seq(S) /\ Len(t \o <<x, y>>) = Len(t) + 2
         /\ \A i \in 1..Len(t) : (t \o <<x, y>>)[i] = t[i]
         /\ (t \o <<x, y>>)[Len(t) + 1] = x /\ (t \o <<x, y>>)[Len(t) + 2] = y
<1> DEFINE p == <<x, y>>
           w == t \o p
<1>1. p \in Seq(S) /\ Len(p) = 2 /\ p[1] = x /\ p[2] = y /\ Len(t) \in Nat
  BY LenProperties
<1> HIDE DEF p
<1>2. /\ w \in Seq(S) /\ Len(w) = Len(t) + Len(p)
      /\ \A i \in 1..(Len(t) + Len(p)) : w[i] = IF i <= Len(t) THEN t[i] ELSE p[i - Len(t)]
  BY <1>1, ConcatProperties
<1> HIDE DEF w
<1>3. /\ w \in Seq(S) /\ Len(w) = Len(t) + 2
      /\ (\A i \in 1..Len(t) : w[i] = t[i])
      /\ w[Len(t) + 1] = x /\ w[Len(t) + 2] = y
  BY <1>1, <1>2, SMTT(40)
<1> QED
  BY <1>3 DEF w, p

(* One more pair. *)
More(n, at, c) == [i \in 0..(n + 1) |-> IF i <= n THEN at[i] ELSE c]

(* The new pair ends at c, the others where they did. *)
LEMMA MoreFacts ==
  ASSUME NEW n \in Nat, NEW at \in [0..n -> Nat], NEW c \in Nat
  PROVE  /\ More(n, at, c) \in [0..(n + 1) -> Nat] /\ More(n, at, c)[n + 1] = c
         /\ \A i \in 0..n : More(n, at, c)[i] = at[i]
BY DEF More

(* Pairs and one more pair are pairs. *)
LEMMA PairsAppended ==
  ASSUME NEW s, NEW w, NEW n \in Nat, NEW at \in [0..n -> Nat], NEW c \in Nat,
         PairsAt(s, w, n, at), PairAt(s, w, n, at[n], c)
  PROVE  PairsAt(s, w, n + 1, More(n, at, c))
<1> DEFINE more == More(n, at, c)
<1>1. more[n + 1] = c /\ \A i \in 0..n : more[i] = at[i]
  BY MoreFacts, ZenonT(60)
<1> HIDE DEF more
<1>2. ASSUME NEW j \in 0..n PROVE PairAt(s, w, j, more[j], more[j + 1])
  <2>1. CASE j \in 0..(n - 1)
    <3>1. j \in 0..n /\ j + 1 \in 0..n
      BY <2>1
    <3>2. PairAt(s, w, j, at[j], at[j + 1])
      BY <2>1 DEF PairsAt
    <3>3. more[j] = at[j] /\ more[j + 1] = at[j + 1]
      BY <1>1, <3>1
    <3> QED
      BY <3>2, <3>3
  <2>2. CASE j = n
    <3>1. more[j] = at[n] /\ more[j + 1] = c
      BY <1>1, <2>2
    <3> QED
      BY <2>2, <3>1
  <2> QED
    BY <2>1, <2>2
<1>3. (n + 1) - 1 = n /\ more[0] = 0
  BY <1>1 DEF PairsAt
<1> QED
  BY <1>2, <1>3 DEF PairsAt, more

(* encodedSize covers 16/13 characters for an octet, rounded up. *)
LEMMA SizeBound ==
  ASSUME NEW a \in Nat, NEW l \in Nat, 13 * a <= 16 * l + 12
  PROVE  a <= encodedSize(l)
<1> DEFINE h == (l * 16 + 12) \div 13
<1>1. a <= h
  OBVIOUS
<1>2. h \in Int /\ encodedSize(l) = h + 1
  BY DEF encodedSize
<1> HIDE DEF h
<1> QED
  BY <1>1, <1>2

(* A pair is written for the first bits of the queue, or the buffer was    *)
(* too small.                                                              *)
LEMMA EmitPairCodec == CodecInv /\ EmitPair => CodecInv'
<1> SUFFICES ASSUME CodecInv, EmitPair PROVE CodecInv'
  OBVIOUS
<1> DEFINE q == queue + input[pos + 1] * 2^numBits
           t == PairBits(q)
           v == q % 2^t
           Fails == /\ Len(text) + 2 > outputMaxLen - 1 /\ phase' = "encodeFailed"
                    /\ UNCHANGED <<text, pos, queue, numBits>>
           Writes == /\ text' = text \o Pair(v) /\ pos' = pos + 1 /\ queue' = q \div 2^t
                     /\ numBits' = numBits + 8 - t /\ UNCHANGED phase
<1>1. /\ phase = "encode" /\ pos < Len(input) /\ numBits + 8 > 13
      /\ UNCHANGED <<input, output, outputMaxLen, val>>
      /\ Fails \/ Writes
  BY DEF EmitPair
<1>2. CodecTypes /\ QueueFits /\ EncodeInv
  BY DEF CodecInv
<1>3. /\ input \in Seq(0..255) /\ Len(input) \in Nat /\ pos \in Nat /\ numBits \in 6..13
      /\ Len(text) \in Nat /\ outputMaxLen \in Nat /\ text \in Seq(1..255)
      /\ 13 * Len(text) + 2 * numBits <= 16 * pos
  BY <1>1, <1>2, LenProperties DEF CodecTypes, CodecTypeOK, QueueFits, EncodeInv
<1>4. PICK n \in Nat : \E at \in [0..n -> Nat] : Encoded(n, at)
  BY <1>1, <1>2 DEF EncodeInv
<1>5. PICK at \in [0..n -> Nat] : Encoded(n, at)
  BY <1>4
<1> DEFINE b == at[n]
           N == numBits + 8
<1>6. /\ b \in Nat /\ b + numBits = 8 * pos /\ queue = Bits(input, b, numBits)
      /\ PairsAt(input, text, n, at) /\ Len(text) = 2 * n
  BY <1>5 DEF Encoded
<1> HIDE DEF b
<1>7. q = Bits(input, b, N)
  <2>1. numBits \in 0..13 /\ 8 * pos = b + numBits
    BY <1>3, <1>6
  <2>2. Bits(input, b, numBits) + input[pos + 1] * 2^numBits = Bits(input, b, numBits + 8)
    BY <1>1, <1>3, <1>6, <2>1, BitsGrow
  <2> QED
    BY <1>6, <2>2
<1> HIDE DEF q
<1>8. /\ t \in {13, 14} /\ v = Bits(input, b, t) /\ PairBits(v) = t
      /\ q \div 2^t = Bits(input, b + t, N - t) /\ b + t <= 8 * Len(input)
  <2>1. N \in 14..21 /\ b + N = 8 * (pos + 1) /\ b + N <= 8 * Len(input)
    BY <1>1, <1>3, <1>6
  <2> HIDE DEF N
  <2>2. (b % 8) + N <= 24
    <3>1. pos + 1 \in Nat
      BY <1>3
    <3> QED
      BY <1>6, <2>1, <3>1, InWindow
  <2>3. t = PairBits(q)
    OBVIOUS
  <2> HIDE DEF t
  <2>4. Queued(input, b, N, q, t)
    BY <1>7, <2>1, <2>2, <2>3 DEF Queued
  <2>5. N \in 14..21
    BY <2>1
  <2>6. Taken(input, b, N, q, t)
    BY <1>3, <1>6, <2>4, <2>5, EncodePair
  <2> QED
    BY <2>6 DEF Taken
<1> HIDE DEF t, v
<1>9. CASE Fails
  <2>1. outputMaxLen <= encodedSize(Len(input))
    <3>1. 13 * outputMaxLen <= 16 * Len(input) + 12
      BY <1>1, <1>3, <1>9
    <3> QED
      BY <1>3, <3>1, SizeBound
  <2>2. CodecTypes' /\ QueueFits'
    BY <1>1, <1>2, <1>9 DEF CodecTypes, CodecTypeOK, QueueFits
  <2>3. Failures'
    BY <1>1, <1>9, <2>1 DEF Failures
  <2> QED
    BY <1>9, <2>2, <2>3 DEF CodecInv, EncodeInv, TripInv, DecodeSize, RoundTrip
<1>10. CASE Writes
  <2>1. v \in 0..8280
    <3>1. v \in Nat /\ v < 2^t
      <4>1. t \in 0..24
        BY <1>8
      <4> QED
        BY <1>3, <1>6, <1>8, <4>1, BitsType
    <3>2. v <= 8280
      BY <1>8, <3>1, PairDigits
    <3> QED
      BY <3>1, <3>2, SMTT(40)
  <2> DEFINE x == Char(v % 91)
             y == Char(v \div 91)
             w == text \o <<x, y>>
             S == 1..255
  <2>0. v \in Values
    BY <2>1 DEF Values
  <2>2. Pair(v) = <<x, y>> /\ x \in S /\ y \in S
    BY <2>0, PairChars DEF S
  <2>3. text' = w
    BY <1>10, <2>2
  <2>4. text \in Seq(S)
    BY <1>3
  <2> HIDE DEF x, y, S
  <2>5. /\ w \in Seq(S) /\ Len(w) = Len(text) + 2
        /\ (\A i \in 1..Len(text) : w[i] = text[i])
        /\ w[Len(text) + 1] = x /\ w[Len(text) + 2] = y
    BY <2>2, <2>4, TwoMore
  <2> HIDE DEF w
  <2>6. /\ w \in Seq(1..255) /\ Len(w) = 2 * n + 2 /\ Len(text) <= Len(w)
        /\ w[2 * n + 1] = x /\ w[2 * n + 2] = y
    BY <1>3, <1>6, <2>5 DEF S
  <2>7. PairsAt(input, w, n, at)
    BY <1>3, <1>6, <2>5, <2>6, PairsKept
  <2>18. b + t \in Nat
    BY <1>6, <1>8
  <2>19. PICK c \in Nat : c = b + t
    BY <2>18
  <2>8. c \in Nat /\ c - b = t
    BY <1>6, <1>8, <2>19
  <2> DEFINE more == More(n, at, c)
  <2>9. PairAt(input, w, n, b, c)
    <3>1. DigitsAt(w, n, v)
      BY <2>6 DEF DigitsAt, x, y
    <3>2. 2 * n + 2 <= Len(w)
      BY <2>6
    <3> QED
      BY <1>8, <2>8, <2>19, <3>1, <3>2 DEF PairAt
  <2>10. PairsAt(input, w, n + 1, more)
    BY <2>7, <2>8, <2>9, PairsAppended DEF b
  <2>11. more \in [0..(n + 1) -> Nat] /\ more[n + 1] = c
    BY <2>8, MoreFacts
  <2> HIDE DEF more
  <2>12. numBits' = N - t /\ N - t \in 0..8 /\ N - t \in 0..24 /\ c + (N - t) = 8 * (pos + 1)
    BY <1>3, <1>6, <1>8, <1>10, <2>19, SMTT(40)
  <2>13. queue' = Bits(input, c, N - t)
    BY <1>8, <1>10, <2>19
  <2>14. Encoded(n + 1, more)'
    <3>1. PairsAt(input, text, n + 1, more)'
      BY <1>1, <2>3, <2>10
    <3>2. (Len(text) = 2 * (n + 1))'
      BY <2>3, <2>6
    <3>3. (more[n + 1] + numBits = 8 * pos)'
      BY <1>10, <2>11, <2>12
    <3>4. (queue = Bits(input, more[n + 1], numBits))'
      BY <1>1, <2>11, <2>12, <2>13
    <3> QED
      BY <3>1, <3>2, <3>3, <3>4 DEF Encoded
  <2>15. EncodeInv'
    <3>1. \E m \in Nat : \E a \in [0..m -> Nat] : Encoded(m, a)'
      <4>1. n + 1 \in Nat
        OBVIOUS
      <4> QED
        BY <2>11, <2>14, <4>1
    <3>2. (13 * Len(text) + 2 * numBits <= 16 * pos)'
      <4>1. Len(text)' = Len(text) + 2 /\ numBits' = numBits + 8 - t /\ pos' = pos + 1
        BY <1>10, <2>3, <2>5
      <4> QED
        BY <1>3, <1>8, <4>1, SMTT(40)
    <3> QED
      BY <1>1, <1>2, <1>10, <3>1, <3>2 DEF EncodeInv
  <2>16. QueueFits'
    <3> DEFINE r == N - t
    <3>1. r \in 0..24 /\ r \in 0..13 /\ numBits' = r
      BY <2>12
    <3> HIDE DEF r
    <3>2. Bits(input, c, r) \in Nat /\ Bits(input, c, r) < 2^r
      BY <1>3, <2>8, <3>1, BitsType
    <3>3. 2^r \in Nat
      BY <3>1, PowerType DEF Positive
    <3>4. queue' \in 0..(2^r - 1)
      BY <2>13, <3>2, <3>3 DEF r
    <3> QED
      BY <1>1, <1>10, <3>1, <3>4 DEF QueueFits
  <2>17. CodecTypes'
    BY <1>1, <1>2, <1>3, <1>10, <2>3, <2>6, SMTT(40) DEF CodecTypes, CodecTypeOK
  <2> QED
    BY <1>1, <1>10, <2>15, <2>16, <2>17 DEF CodecInv, Failures, TripInv, DecodeSize, RoundTrip
<1> QED
  BY <1>1, <1>9, <1>10

(* What TailLen says of the rest of the queue. *)
TailSize(q, n, k) ==
  /\ k \in 0..2
  /\ k = 0 => n = 0
  /\ k = 1 => n \in 1..7 /\ q <= 90
  /\ k = 2 => n \in 7..13

(* TailLen gives one character only for what one digit holds. *)
LEMMA TailFacts ==
  ASSUME NEW n \in 0..13, NEW q \in Nat, q < 2^n
  PROVE  TailSize(q, n, TailLen(q, n))
<1>1. ASSUME q > 90 PROVE n >= 7
  <2>1. CASE n = 0
    BY <1>1, <2>1
  <2>2. CASE n = 1
    BY <1>1, <2>2
  <2>3. CASE n = 2
    BY <1>1, <2>3
  <2>4. CASE n = 3
    BY <1>1, <2>4
  <2>5. CASE n = 4
    BY <1>1, <2>5
  <2>6. CASE n = 5
    BY <1>1, <2>6
  <2>7. CASE n = 6
    BY <1>1, <2>7
  <2> QED
    BY <2>1, <2>2, <2>3, <2>4, <2>5, <2>6, <2>7
<1> QED
  BY <1>1 DEF TailLen, TailSize

(* A text with the first k characters of a pair behind it. *)
LEMMA TailText ==
  ASSUME NEW t \in Seq(1..255), NEW v \in Values, NEW k \in 0..2
  PROVE  LET w == t \o SubSeq(Pair(v), 1, k)
         IN  /\ w \in Seq(1..255) /\ Len(w) = Len(t) + k
             /\ \A i \in 1..Len(t) : w[i] = t[i]
             /\ k >= 1 => w[Len(t) + 1] = Char(v % 91)
             /\ k = 2 => w[Len(t) + 2] = Char(v \div 91)
<1> DEFINE S == 1..255
           x == Char(v % 91)
           y == Char(v \div 91)
           p == Pair(v)
           d == SubSeq(p, 1, k)
           w == t \o d
<1>1. p = <<x, y>> /\ x \in S /\ y \in S
  BY PairChars
<1>2. t \in Seq(S) /\ Len(t) \in Nat
  BY LenProperties
<1> HIDE DEF S, x, y, p
<1>3. p \in Seq(S) /\ Len(p) = 2 /\ p[1] = x /\ p[2] = y
  BY <1>1
<1>4. d \in Seq(S) /\ Len(d) = k /\ \A i \in 1..k : d[i] = p[i]
  <2>1. \A i \in 1..k : p[i] \in S
    BY <1>1, <1>3
  <2>2. /\ d \in Seq(S) /\ Len(d) = IF 1 <= k THEN k - 1 + 1 ELSE 0
        /\ \A i \in 1..(k - 1 + 1) : d[i] = p[1 + i - 1]
    BY <2>1, SubSeqProperties
  <2> HIDE DEF d
  <2> QED
    BY <2>2
<1> HIDE DEF d
<1>5. /\ w \in Seq(S) /\ Len(w) = Len(t) + Len(d)
      /\ \A i \in 1..(Len(t) + Len(d)) : w[i] = IF i <= Len(t) THEN t[i] ELSE d[i - Len(t)]
  BY <1>2, <1>4, ConcatProperties
<1> HIDE DEF w
<1>6. /\ Len(w) = Len(t) + k
      /\ (\A i \in 1..Len(t) : w[i] = t[i])
      /\ (k >= 1 => w[Len(t) + 1] = x) /\ (k = 2 => w[Len(t) + 2] = y)
  <2> DEFINE l == Len(t)
  <2>1. l \in Nat /\ Len(d) = k
    BY <1>2, <1>4
  <2>2. \A i \in 1..(l + k) : w[i] = IF i <= l THEN t[i] ELSE d[i - l]
    BY <1>5, <2>1
  <2> HIDE DEF l
  <2>3. \A i \in 1..l : w[i] = t[i]
    BY <2>1, <2>2
  <2>4. ASSUME k >= 1 PROVE w[l + 1] = x
    <3>1. l + 1 \in 1..(l + k) /\ ~(l + 1 <= l) /\ (l + 1) - l = 1 /\ 1 \in 1..k
      BY <2>1, <2>4
    <3>2. w[l + 1] = d[1]
      BY <2>2, <3>1
    <3> QED
      BY <1>3, <1>4, <3>1, <3>2
  <2>5. ASSUME k = 2 PROVE w[l + 2] = y
    <3>1. l + 2 \in 1..(l + k) /\ ~(l + 2 <= l) /\ (l + 2) - l = 2 /\ 2 \in 1..k
      BY <2>1, <2>5
    <3>2. w[l + 2] = d[2]
      BY <2>2, <3>1
    <3> QED
      BY <1>3, <1>4, <3>1, <3>2
  <2> QED
    BY <1>5, <2>1, <2>3, <2>4, <2>5 DEF l
<1> QED
  BY <1>5, <1>6 DEF w, d, p, x, y, S

(* Nothing is decoded yet. *)
LEMMA DecodeStarts == ASSUME NEW s \in Seq(0..255) PROVE DecodedTo(s, <<>>, 0, 0, 0)
<1>1. 0 \div 8 = 0 /\ 0 % 8 = 0
  OBVIOUS
<1>2. Prefix(s, <<>>, 0)
  BY LenProperties DEF Prefix
<1>3. LowBits(s, 0, 0) = 0
  <2>1. Window(s, 0) \in Nat
    BY WindowType
  <2> QED
    BY <2>1 DEF LowBits
<1> QED
  BY <1>1, <1>2, <1>3 DEF DecodedTo

(* The tail fits into what encodedSize adds. *)
LEMMA EndFits ==
  ASSUME NEW T \in Nat, NEW n \in 0..13, NEW l \in Nat, NEW k, NEW q, TailSize(q, n, k),
         13 * T + 2 * n <= 16 * l
  PROVE  k \in Nat /\ 13 * (T + k) <= 16 * l + 12
BY DEF TailSize

Small(p) == p <= 8192

(* Thirteen bits stay below 8193. *)
LEMMA SmallPower == ASSUME NEW n \in 0..13 PROVE Small(2^n)
<1>1. CASE n = 0
  BY <1>1 DEF Small
<1>2. CASE n = 1
  BY <1>2 DEF Small
<1>3. CASE n = 2
  BY <1>3 DEF Small
<1>4. CASE n = 3
  BY <1>4 DEF Small
<1>5. CASE n = 4
  BY <1>5 DEF Small
<1>6. CASE n = 5
  BY <1>6 DEF Small
<1>7. CASE n = 6
  BY <1>7 DEF Small
<1>8. CASE n = 7
  BY <1>8 DEF Small
<1>9. CASE n = 8
  BY <1>9 DEF Small
<1>10. CASE n = 9
  BY <1>10 DEF Small
<1>11. CASE n = 10
  BY <1>11 DEF Small
<1>12. CASE n = 11
  BY <1>12 DEF Small
<1>13. CASE n = 12
  BY <1>13 DEF Small
<1>14. CASE n = 13
  BY <1>14 DEF Small
<1> QED
  BY <1>1, <1>2, <1>3, <1>4, <1>5, <1>6, <1>7, <1>8, <1>9,
     <1>10, <1>11, <1>12, <1>13, <1>14

(* The tail is written and decoding starts with nothing read. *)
LEMMA FinishEncodeCodec == CodecInv /\ FinishEncode => CodecInv'
<1> SUFFICES ASSUME CodecInv, FinishEncode PROVE CodecInv'
  OBVIOUS
<1> DEFINE k == TailLen(queue, numBits)
           w == text \o SubSeq(Pair(queue), 1, k)
           Fails == /\ Len(text) + k > outputMaxLen - 1 /\ phase' = "encodeFailed"
                    /\ UNCHANGED <<text, outputMaxLen, pos, queue, numBits>>
           Writes == /\ phase' = "decode" /\ text' = w /\ outputMaxLen' = Len(input)
                     /\ pos' = 0 /\ queue' = 0 /\ numBits' = 0
<1>1. /\ phase = "encode" /\ pos = Len(input)
      /\ UNCHANGED <<input, output, val>>
      /\ Fails \/ Writes
  BY DEF FinishEncode
<1>2. CodecTypes /\ QueueFits /\ EncodeInv
  BY DEF CodecInv
<1>3. /\ input \in Seq(0..255) /\ Len(input) \in Nat /\ numBits \in 0..13
      /\ Len(text) \in Nat /\ outputMaxLen \in Nat /\ text \in Seq(1..255)
      /\ 13 * Len(text) + 2 * numBits <= 16 * Len(input)
      /\ val = -1 /\ output = <<>>
  BY <1>1, <1>2, LenProperties DEF CodecTypes, CodecTypeOK, QueueFits, EncodeInv
<1>4. queue \in Nat /\ queue < 2^numBits
  <2>1. 2^numBits \in Nat
    <3>1. numBits \in 0..24
      BY <1>3
    <3> QED
      BY <3>1, PowerType DEF Positive
  <2>2. queue \in 0..(2^numBits - 1)
    BY <1>2 DEF QueueFits
  <2> QED
    BY <2>1, <2>2
<1>5. TailSize(queue, numBits, k)
  BY <1>3, <1>4, TailFacts
<1> HIDE DEF k
<1>6. k \in 0..2
  BY <1>5 DEF TailSize
<1>7. CASE Fails
  <2>1. 13 * (Len(text) + k) <= 16 * Len(input) + 12
    BY <1>3, <1>5, EndFits
  <2>2. 13 * outputMaxLen <= 16 * Len(input) + 12
    BY <1>3, <1>6, <1>7, <2>1
  <2>3. outputMaxLen <= encodedSize(Len(input))
    BY <1>3, <2>2, SizeBound
  <2>4. CodecTypes' /\ QueueFits'
    BY <1>1, <1>2, <1>7 DEF CodecTypes, CodecTypeOK, QueueFits
  <2>5. Failures'
    BY <1>1, <1>7, <2>3 DEF Failures
  <2> QED
    BY <1>7, <2>4, <2>5 DEF CodecInv, EncodeInv, TripInv, DecodeSize, RoundTrip
<1>8. CASE Writes
  <2>1. queue \in Values
    <3>1. numBits \in 0..13 /\ 2^numBits <= 8192
      <4>1. Small(2^numBits)
        BY <1>3, SmallPower
      <4> QED
        BY <1>3, <4>1 DEF Small
    <3>2. 2^numBits \in Nat
      <4>1. numBits \in 0..24
        BY <1>3
      <4> QED
        BY <4>1, PowerType DEF Positive
    <3> QED
      BY <1>4, <3>1, <3>2, SMTT(40) DEF Values
  <2>2. /\ w \in Seq(1..255) /\ Len(w) = Len(text) + k
        /\ \A i \in 1..Len(text) : w[i] = text[i]
        /\ k >= 1 => w[Len(text) + 1] = Char(queue % 91)
        /\ k = 2 => w[Len(text) + 2] = Char(queue \div 91)
    BY <1>3, <1>6, <2>1, TailText, ZenonT(60)
  <2> HIDE DEF w
  <2>3. PICK n \in Nat : \E at \in [0..n -> Nat] : Encoded(n, at)
    BY <1>1, <1>2 DEF EncodeInv
  <2>4. PICK at \in [0..n -> Nat] : Encoded(n, at)
    BY <2>3
  <2>5. /\ at[n] \in Nat /\ at[n] + numBits = 8 * Len(input)
        /\ queue = Bits(input, at[n], numBits)
        /\ PairsAt(input, text, n, at) /\ Len(text) = 2 * n
    BY <1>1, <2>4 DEF Encoded
  <2>6. PairsAt(input, w, n, at)
    <3>1. Len(text) <= Len(w)
      BY <1>3, <1>6, <2>2
    <3> QED
      BY <1>3, <2>2, <2>5, <3>1, PairsKept
  <2>7. TailAt(input, w, n, at[n])
    <3> DEFINE r == 8 * Len(input) - at[n]
    <3>1. r = numBits
      BY <1>3, <2>5
    <3>2. DigitsAt(w, n, queue)
      <4> DEFINE x == Char(queue % 91)
                 y == Char(queue \div 91)
      <4>1. Len(w) = 2 * n + k /\ (k >= 1 => w[2 * n + 1] = x) /\ (k = 2 => w[2 * n + 2] = y)
        BY <2>2, <2>5
      <4> HIDE DEF x, y
      <4>2. /\ 2 * n + 1 <= Len(w) => w[2 * n + 1] = x
            /\ 2 * n + 2 <= Len(w) => w[2 * n + 2] = y
        BY <1>6, <4>1
      <4> QED
        BY <4>2 DEF DigitsAt, x, y
    <3>3. Len(w) = 2 * n + TailLen(queue, numBits)
      BY <2>2, <2>5 DEF k
    <3>4. TailOf(input, w, n, at[n], r)
      BY <1>3, <2>5, <3>1, <3>2, <3>3 DEF TailOf
    <3> QED
      BY <3>4 DEF TailAt
  <2>8. Reading(0, n, at)'
    <3>1. DecodedTo(input, <<>>, 0, 0, at[0])
      <4>1. at[0] = 0
        BY <2>5 DEF PairsAt
      <4> QED
        BY <1>3, <4>1, DecodeStarts
    <3>2. DecodedTo(input, output, queue, numBits, at[0])'
      BY <1>1, <1>3, <1>8, <3>1
    <3>3. Before(0)'
      BY <1>1, <1>3, <1>8 DEF Before
    <3> QED
      BY <3>2, <3>3 DEF Reading
  <2>9. Decoding(n, at)'
    <3>1. PairsAt(input, text, n, at)' /\ TailAt(input, text, n, at[n])'
      BY <1>1, <1>8, <2>6, <2>7
    <3>2. 0 \in 0..n
      OBVIOUS
    <3> QED
      BY <2>8, <3>1, <3>2 DEF Decoding
  <2>10. TripInv'
    BY <1>1, <1>8, <2>9 DEF TripInv
  <2>11. DecodeSize'
    BY <1>1, <1>3, <1>8 DEF DecodeSize
  <2>12. QueueFits'
    BY <1>8 DEF QueueFits
  <2>13. CodecTypes'
    <3>1. Len(text)' \in Nat /\ (text \in Seq(1..255))'
      BY <1>3, <1>6, <1>8, <2>2
    <3>2. 0 \in 0..Len(text)'
      BY <3>1
    <3> QED
      BY <1>1, <1>2, <1>3, <1>8, <3>1, <3>2 DEF CodecTypes, CodecTypeOK
  <2> QED
    BY <1>8, <2>10, <2>11, <2>12, <2>13 DEF CodecInv, Failures, EncodeInv, RoundTrip
<1> QED
  BY <1>1, <1>7, <1>8

----------------------------------------------------------------------------
(* Decoding *)

(* The tail is a value of two digits at most. *)
LEMMA TailValue ==
  ASSUME NEW s \in Seq(0..255), NEW b \in Nat, NEW r \in 0..13
  PROVE  Bits(s, b, r) \in Values /\ TailSize(Bits(s, b, r), r, TailLen(Bits(s, b, r), r))
<1> DEFINE v == Bits(s, b, r)
<1>1. r \in 0..24
  OBVIOUS
<1>2. v \in Nat /\ v < 2^r
  BY <1>1, BitsType
<1> HIDE DEF v
<1>3. 2^r \in Nat /\ 2^r <= 8192
  <2>1. Positive(2^r) /\ Small(2^r)
    BY <1>1, PowerType, SmallPower
  <2> QED
    BY <2>1 DEF Positive, Small
<1>4. v \in Values
  BY <1>2, <1>3, SMTT(40) DEF Values
<1>5. TailSize(v, r, TailLen(v, r))
  BY <1>2, TailFacts
<1> QED
  BY <1>4, <1>5 DEF v

(* Pair j, or the tail, is written with the digits of its value. *)
LEMMA PairRead ==
  ASSUME NEW n \in Nat, NEW at \in [0..n -> Nat], NEW j \in 0..n, NEW s \in Seq(0..255),
         NEW t, PairsAt(s, t, n, at), TailAt(s, t, n, at[n]), input = s
  PROVE  ValueAt(j, n, at) \in Values /\ DigitsAt(t, j, ValueAt(j, n, at))
<1>1. CASE j < n
  <2> DEFINE b == at[j]
             c == at[j + 1]
             d == c - b
             v == Bits(s, b, d)
  <2>1. j \in 0..(n - 1) /\ j + 1 \in 0..n
    BY <1>1
  <2>2. PairAt(s, t, j, b, c) /\ b \in Nat /\ c \in Nat
    BY <2>1 DEF PairsAt
  <2>3. ValueAt(j, n, at) = v
    BY <1>1 DEF ValueAt, EndOf
  <2> HIDE DEF b, c
  <2>4. d \in {13, 14} /\ d = PairBits(v) /\ DigitsAt(t, j, v)
    BY <2>2 DEF PairAt
  <2> HIDE DEF d
  <2>5. d \in 0..24
    BY <2>4
  <2>6. v \in Nat /\ v < 2^d
    BY <2>2, <2>5, BitsType
  <2> HIDE DEF v
  <2>7. v <= 8280
    BY <2>4, <2>6, PairDigits
  <2> QED
    BY <2>3, <2>4, <2>6, <2>7, SMTT(40) DEF Values
<1>2. CASE ~(j < n)
  <2>1. j = n
    BY <1>2
  <2> DEFINE r == 8 * Len(s) - at[n]
             v == Bits(s, at[n], r)
  <2>2. ValueAt(j, n, at) = v
    BY <1>2, <2>1 DEF ValueAt, EndOf
  <2>3. TailOf(s, t, n, at[n], r) /\ at[n] \in Nat
    BY DEF TailAt
  <2> HIDE DEF r
  <2>4. r \in 0..13 /\ DigitsAt(t, n, v)
    BY <2>3 DEF TailOf
  <2>5. v \in Values
    BY <2>3, <2>4, TailValue
  <2> QED
    BY <2>1, <2>2, <2>4, <2>5
<1> QED
  BY <1>1, <1>2

(* The characters of a pair, as DECODE_TABLE reads them. *)
LEMMA PairDecodes ==
  ASSUME NEW t, NEW j \in Nat, NEW v \in Values, DigitsAt(t, j, v)
  PROVE  /\ 2 * j + 1 <= Len(t) => DECODE_TABLE[t[2 * j + 1]] = v % 91
         /\ 2 * j + 2 <= Len(t) => DECODE_TABLE[t[2 * j + 2]] = v \div 91
         /\ v % 91 \in 0..90 /\ v \div 91 \in 0..90
<1> DEFINE x == v % 91
           y == v \div 91
<1>1. /\ DECODE_TABLE[Char(x)] = x /\ DECODE_TABLE[Char(y)] = y
      /\ x \in 0..90 /\ y \in 0..90
  BY PairChars
<1>2. /\ 2 * j + 1 <= Len(t) => t[2 * j + 1] = Char(x)
      /\ 2 * j + 2 <= Len(t) => t[2 * j + 2] = Char(y)
  BY DEF DigitsAt
<1> HIDE DEF x, y
<1>3. /\ 2 * j + 1 <= Len(t) => DECODE_TABLE[t[2 * j + 1]] = x
      /\ 2 * j + 2 <= Len(t) => DECODE_TABLE[t[2 * j + 2]] = y
  BY <1>1, <1>2
<1> QED
  BY <1>1, <1>3 DEF x, y

(* The character that is read has a digit or -1. *)
LEMMA DigitType ==
  ASSUME text \in Seq(1..255), pos \in Nat, pos < Len(text)
  PROVE  Digit \in -1..90
<1>1. pos + 1 \in 1..Len(text)
  BY LenProperties
<1>2. text[pos + 1] \in 1..255
  BY <1>1, ElementOfSeq, SMTT(40)
<1>3. text[pos + 1] \in 0..255
  BY <1>2
<1> QED
  BY <1>3, TableType, ZenonT(60) DEF Digit

(* In a text that was encoded every character has a digit: the first one   *)
(* of a pair is kept, the second one closes the pair.                      *)
LEMMA FirstOfPair ==
  ASSUME NEW n \in Nat, NEW at \in [0..n -> Nat], Decoding(n, at),
         input \in Seq(0..255), text \in Seq(1..255), pos \in Nat, pos < Len(text)
  PROVE  /\ Digit # -1
         /\ val = -1 => \E j \in 0..n :
              /\ DecodedTo(input, output, queue, numBits, at[j])
              /\ pos = 2 * j /\ Digit = ValueAt(j, n, at) % 91
         /\ val # -1 => \E j \in 0..n :
              /\ DecodedTo(input, output, queue, numBits, at[j])
              /\ pos = 2 * j + 1 /\ val = ValueAt(j, n, at) % 91
              /\ Digit = ValueAt(j, n, at) \div 91
<1>1. ~AllRead
  BY DEF AllRead
<1>2. PICK j \in 0..n : Reading(j, n, at)
  BY <1>1 DEF Decoding
<1> DEFINE v == ValueAt(j, n, at)
           x == v % 91
           y == v \div 91
<1>3. v \in Values /\ DigitsAt(text, j, v)
  BY PairRead DEF Decoding
<1>4. DecodedTo(input, output, queue, numBits, at[j])
  BY <1>2 DEF Reading
<1>5. Before(j) \/ Inside(j, v)
  BY <1>2 DEF Reading
<1> HIDE DEF v
<1>6. /\ 2 * j + 1 <= Len(text) => DECODE_TABLE[text[2 * j + 1]] = x
      /\ 2 * j + 2 <= Len(text) => DECODE_TABLE[text[2 * j + 2]] = y
      /\ x \in 0..90 /\ y \in 0..90
  <2>1. j \in Nat
    OBVIOUS
  <2> QED
    BY <1>3, <2>1, PairDecodes
<1> HIDE DEF x, y
<1>7. Len(text) \in Nat
  BY LenProperties
<1>8. CASE Before(j)
  <2>0. pos = 2 * j /\ val = -1
    BY <1>8 DEF Before
  <2>1. Digit = x /\ x # -1
    <3>1. pos + 1 = 2 * j + 1 /\ 2 * j + 1 <= Len(text)
      BY <1>7, <2>0
    <3>2. DECODE_TABLE[text[2 * j + 1]] = x /\ x # -1
      BY <1>6, <3>1
    <3> QED
      BY <3>1, <3>2 DEF Digit
  <2> QED
    BY <1>4, <2>0, <2>1 DEF x, v
<1>9. CASE Inside(j, v)
  <2>0. pos = 2 * j + 1 /\ val = x
    BY <1>9 DEF Inside, x
  <2>1. Digit = y /\ y # -1 /\ x # -1
    <3>1. pos + 1 = 2 * j + 2 /\ 2 * j + 2 <= Len(text)
      BY <1>7, <2>0
    <3>2. DECODE_TABLE[text[2 * j + 2]] = y
      BY <1>6, <3>1
    <3>3. y \in 0..90 /\ x \in 0..90
      BY <1>6
    <3>4. y # -1
      BY <3>3
    <3>5. x # -1
      BY <3>3
    <3> QED
      BY <3>1, <3>2, <3>4, <3>5 DEF Digit
  <2> QED
    BY <1>4, <2>0, <2>1 DEF x, y, v
<1> QED
  BY <1>5, <1>8, <1>9

(* A first character is kept as the low digit of its pair. *)
LEMMA ReadFirstCodec == CodecInv /\ ReadFirst => CodecInv'
<1> SUFFICES ASSUME CodecInv, ReadFirst PROVE CodecInv'
  OBVIOUS
<1>1. /\ phase = "decode" /\ pos < Len(text)
      /\ Digit = -1 \/ val = -1
      /\ pos' = pos + 1 /\ val' = IF Digit = -1 THEN val ELSE Digit
      /\ UNCHANGED <<phase, input, text, output, outputMaxLen, queue, numBits>>
  BY DEF ReadFirst
<1>2. CodecTypes /\ QueueFits /\ TripInv /\ DecodeSize
  BY DEF CodecInv
<1>3. /\ input \in Seq(0..255) /\ text \in Seq(1..255) /\ Len(text) \in Nat
      /\ pos \in Nat /\ val \in -1..90 /\ Len(output) \in Nat /\ numBits \in 0..7
  BY <1>1, <1>2, LenProperties DEF CodecTypes, CodecTypeOK, QueueFits
<1>4. Digit \in -1..90
  BY <1>1, <1>3, DigitType
<1>5. CodecTypes'
  BY <1>1, <1>2, <1>3, <1>4 DEF CodecTypes, CodecTypeOK
<1>6. QueueFits'
  BY <1>1, <1>2 DEF QueueFits
<1>7. DecodeSize'
  <2>1. 8 * Len(output) + numBits <= 7 * (IF val = -1 THEN pos ELSE pos - 1)
    BY <1>1, <1>2 DEF DecodeSize
  <2> DEFINE L == Len(output)
  <2>2. 8 * L + numBits <= 7 * (IF val' = -1 THEN pos' ELSE pos' - 1)
    <3> HIDE DEF L
    <3>1. L \in Nat /\ 8 * L + numBits <= 7 * (IF val = -1 THEN pos ELSE pos - 1)
      BY <1>3, <2>1 DEF L
    <3>2. CASE Digit = -1
      <4>1. val' = val /\ pos' = pos + 1
        BY <1>1, <3>2
      <4> QED
        BY <1>3, <3>1, <4>1
    <3>3. CASE Digit # -1
      <4>1. val = -1 /\ val' # -1 /\ pos' = pos + 1
        BY <1>1, <3>3
      <4> QED
        BY <1>3, <3>1, <4>1
    <3> QED
      BY <3>2, <3>3
  <2> QED
    BY <1>1, <2>2 DEF DecodeSize
<1>8. TripInv'
  <2> SUFFICES ASSUME input # <<>> PROVE TripInv'
    BY <1>1 DEF TripInv
  <2>1. PICK n \in Nat : \E at \in [0..n -> Nat] : Decoding(n, at)
    BY <1>1, <1>2 DEF TripInv
  <2>2. PICK at \in [0..n -> Nat] : Decoding(n, at)
    BY <2>1
  <2>3. Digit # -1
    BY <1>1, <1>3, <2>2, FirstOfPair
  <2>4. val = -1 /\ val' = Digit
    BY <1>1, <2>3
  <2>5. PICK j \in 0..n : /\ DecodedTo(input, output, queue, numBits, at[j])
                          /\ pos = 2 * j /\ Digit = ValueAt(j, n, at) % 91
    BY <1>1, <1>3, <2>2, <2>4, FirstOfPair
  <2>6. Reading(j, n, at)'
    <3>1. ValueAt(j, n, at)' = ValueAt(j, n, at)
      BY <1>1 DEF ValueAt, EndOf
    <3>2. pos' = 2 * j + 1
      BY <1>1, <2>5
    <3>3. Inside(j, ValueAt(j, n, at))'
      BY <2>4, <2>5, <3>1, <3>2 DEF Inside
    <3>4. DecodedTo(input, output, queue, numBits, at[j])'
      BY <1>1, <2>5
    <3> QED
      BY <3>3, <3>4 DEF Reading
  <2>7. Decoding(n, at)'
    <3>1. PairsAt(input, text, n, at)' /\ TailAt(input, text, n, at[n])'
      BY <1>1, <2>2 DEF Decoding
    <3> QED
      BY <2>6, <3>1 DEF Decoding
  <2> QED
    BY <1>1, <1>2, <2>7 DEF TripInv
<1> QED
  BY <1>1, <1>5, <1>6, <1>7, <1>8 DEF CodecInv, Failures, EncodeInv, RoundTrip

PairStep(s, o, n, t, q, k, c) ==
  /\ Len(o) + k <= Len(s)
  /\ DecodedTo(s, o \o OctetsOf(q, k), q \div 2^(8 * k), n + t - 8 * k, c)

(* DecodePair for a queue and a count that have names. *)
LEMMA DecodePairStep ==
  ASSUME NEW s \in Seq(0..255), NEW o, NEW u, NEW n, NEW b, DecodedTo(s, o, u, n, b),
         NEW t \in {13, 14}, b + t <= 8 * Len(s), NEW v, v = Bits(s, b, t),
         NEW q, NEW k, Joins(u, n, v, t, q, k)
  PROVE  PairStep(s, o, n, t, q, k, b + t)
BY DecodePair DEF Joins, PairStep

(* Where the second character of a pair takes a decoder. *)
PairDone(n, at, t, q, k) ==
  \/ \E j \in 0..(n - 1) : /\ pos = 2 * j + 1
                           /\ PairStep(input, output, numBits, t, q, k, at[j + 1])
  \/ /\ pos + 1 = Len(text)
     /\ LastStep(input, output, q, k)

(* The second character brings back the value of the pair, and its bits. *)
LEMMA SecondOfPair ==
  ASSUME NEW n \in Nat, NEW at \in [0..n -> Nat], Decoding(n, at),
         input \in Seq(0..255), text \in Seq(1..255), pos \in Nat, pos < Len(text),
         val # -1, NEW v, v = val + Digit * 91, NEW t, t = PairBits(v),
         NEW q, NEW k, Joins(queue, numBits, v, t, q, k)
  PROVE  PairDone(n, at, t, q, k)
<1>1. PICK j \in 0..n : /\ DecodedTo(input, output, queue, numBits, at[j])
                        /\ pos = 2 * j + 1 /\ val = ValueAt(j, n, at) % 91
                        /\ Digit = ValueAt(j, n, at) \div 91
  BY FirstOfPair
<1> DEFINE V == ValueAt(j, n, at)
<1>2. V \in Values
  BY PairRead DEF Decoding
<1>3. v = V
  <2> HIDE DEF V
  <2>1. (V % 91) + (V \div 91) * 91 = V
    BY <1>2, PairChars
  <2> QED
    BY <1>1, <2>1 DEF V
<1>4. t \in {13, 14}
  BY DEF PairBits
<1>5. CASE j < n
  <2> DEFINE b == at[j]
             c == at[j + 1]
  <2>1. j \in 0..(n - 1) /\ j + 1 \in 0..n
    BY <1>5
  <2>2. PairAt(input, text, j, b, c) /\ b \in Nat /\ c \in Nat
    BY <2>1 DEF PairsAt, Decoding
  <2>3. V = Bits(input, b, c - b)
    BY <1>5 DEF ValueAt, EndOf
  <2>4. DecodedTo(input, output, queue, numBits, b)
    BY <1>1
  <2> HIDE DEF b, c, V
  <2>5. c - b = t /\ c <= 8 * Len(input)
    <3>1. c - b = PairBits(V) /\ c <= 8 * Len(input)
      BY <2>2, <2>3 DEF PairAt
    <3> QED
      BY <1>3, <3>1
  <2>6. v = Bits(input, b, t) /\ b + t = c
    BY <1>3, <1>4, <2>2, <2>3, <2>5
  <2>7. b + t <= 8 * Len(input)
    BY <2>5, <2>6
  <2>8. PairStep(input, output, numBits, t, q, k, b + t)
    BY <1>4, <2>4, <2>6, <2>7, DecodePairStep, SMTT(40)
  <2> QED
    BY <1>1, <2>1, <2>6, <2>8 DEF PairDone, c
<1>6. CASE ~(j < n)
  <2>1. j = n
    BY <1>6
  <2> DEFINE b == at[n]
             r == 8 * Len(input) - b
  <2>2. V = Bits(input, b, r) /\ DecodedTo(input, output, queue, numBits, b) /\ b \in Nat
    BY <1>1, <1>6, <2>1 DEF ValueAt, EndOf
  <2>3. TailOf(input, text, n, b, r)
    BY DEF Decoding, TailAt
  <2>4. Len(input) \in Nat /\ Len(text) \in Nat
    BY LenProperties
  <2>5. b + r = 8 * Len(input)
    BY <2>2, <2>4
  <2> HIDE DEF b, r, V
  <2> DEFINE m == TailLen(V, r)
  <2>6. r \in 0..13 /\ Len(text) = 2 * n + m
    BY <2>2, <2>3 DEF TailOf
  <2>7. TailSize(V, r, m)
    BY <2>2, <2>6, TailValue
  <2> HIDE DEF m
  <2>8. m \in 0..2 /\ (m = 2 => r \in 7..13)
    BY <2>7 DEF TailSize
  <2>9. pos = 2 * n + 1
    BY <1>1, <2>1
  <2>10. m = 2 /\ pos + 1 = Len(text)
    BY <2>4, <2>6, <2>8, <2>9
  <2>11. v = Bits(input, b, r) /\ r \in 7..13
    BY <1>3, <2>2, <2>8, <2>10
  <2>12. LastStep(input, output, q, k)
    <3>1. Joins(queue, numBits, Bits(input, b, r), t, q, k)
      BY <2>11
    <3> QED
      BY <1>4, <2>2, <2>5, <2>11, <3>1, DecodeLastPair
  <2> QED
    BY <2>10, <2>12 DEF PairDone
<1> QED
  BY <1>5, <1>6

(* The queue behind a pair, whatever the pair is. *)
Shortened(n, t, q, k) ==
  /\ k \in {1, 2} /\ n + t - 8 * k \in 0..7 /\ 256^k = 2^(8 * k)
  /\ q \div 2^(8 * k) \in 0..(2^(n + t - 8 * k) - 1)
  /\ OctetsOf(q, k) \in Seq(0..255) /\ Len(OctetsOf(q, k)) = k

(* The octets leave less than eight bits. *)
LEMMA SecondQueue ==
  ASSUME NEW n \in 0..7, NEW t \in {13, 14}, NEW u, HasBits(u, n), NEW v, HasBits(v, t),
         NEW q, NEW k, Joins(u, n, v, t, q, k)
  PROVE  Shortened(n, t, q, k)
<1>0. u \in Nat /\ u < 2^n /\ v \in Nat /\ v < 2^t
  BY DEF HasBits
<1> DEFINE e == n + t
           f == e % 8
<1>1. q = u + v * 2^n /\ k = e \div 8
  BY DEF Joins
<1>2. e \in 13..21
  OBVIOUS
<1>3. q \in Nat /\ q \div 2^(8 * k) \in Nat /\ q \div 2^(8 * k) < 2^f
  BY <1>0, <1>1, QueueBound
<1> HIDE DEF e
<1>4. k \in {1, 2} /\ f \in 0..7 /\ f = e - 8 * k
  BY <1>1, <1>2
<1> HIDE DEF f
<1>5. 256^k = 2^(8 * k)
  <2>1. CASE k = 1
    BY <2>1
  <2>2. CASE k = 2
    BY <2>2
  <2> QED
    BY <1>4, <2>1, <2>2
<1>6. OctetsOf(q, k) \in Seq(0..255) /\ Len(OctetsOf(q, k)) = k
  <2>0. QueueOctets(q)
    BY <1>3, OctetsOfQueue
  <2>1. CASE k = 1
    BY <2>0, <2>1 DEF QueueOctets
  <2>2. CASE k = 2
    BY <2>0, <2>2 DEF QueueOctets
  <2> QED
    BY <1>4, <2>1, <2>2
<1>7. q \div 2^(8 * k) \in 0..(2^f - 1)
  <2> DEFINE g == q \div 2^(8 * k)
  <2>1. g \in Nat /\ g < 2^f
    BY <1>3
  <2>2. 2^f \in Nat
    <3>1. f \in 0..24
      BY <1>4
    <3> QED
      BY <3>1, PowerType DEF Positive
  <2> HIDE DEF g
  <2>3. g \in 0..(2^f - 1)
    BY <2>1, <2>2
  <2> QED
    BY <2>3 DEF g
<1>8. f = n + t - 8 * k
  BY <1>4 DEF e
<1>9. n + t - 8 * k \in 0..7 /\ q \div 2^(8 * k) \in 0..(2^(n + t - 8 * k) - 1)
  BY <1>4, <1>7, <1>8
<1> QED
  BY <1>4, <1>5, <1>6, <1>9 DEF Shortened

(* A second character puts out the octets it completes. *)
LEMMA ReadSecondCodec == CodecInv /\ ReadSecond => CodecInv'
<1> SUFFICES ASSUME CodecInv, ReadSecond PROVE CodecInv'
  OBVIOUS
<1> DEFINE v == val + Digit * 91
           t == PairBits(v)
           q == queue + v * 2^numBits
           k == WholeOctets(numBits + t)
           w == OctetsOf(q, k)
           Full == Len(output) + k > outputMaxLen
           Fails == /\ phase' = "decodeFailed"
                    /\ UNCHANGED <<output, pos, queue, numBits, val>>
           Writes == /\ output' = output \o w /\ pos' = pos + 1
                     /\ queue' = q \div 256^k /\ numBits' = (numBits + t) - 8 * k
                     /\ val' = -1 /\ UNCHANGED phase
<1>1. /\ phase = "decode" /\ pos < Len(text) /\ Digit # -1 /\ val # -1
      /\ UNCHANGED <<input, text, outputMaxLen>>
  BY DEF ReadSecond
<1>0. IF Full THEN Fails ELSE Writes
  BY DEF ReadSecond
<1>2. CodecTypes /\ QueueFits /\ TripInv /\ DecodeSize
  BY DEF CodecInv
<1>3. /\ input \in Seq(0..255) /\ text \in Seq(1..255) /\ output \in Seq(0..255)
      /\ Len(text) \in Nat /\ Len(output) \in Nat /\ outputMaxLen \in Nat
      /\ pos \in Nat /\ val \in 0..90 /\ numBits \in 0..7
  BY <1>1, <1>2, LenProperties DEF CodecTypes, CodecTypeOK, QueueFits
<1>4. queue \in Nat /\ queue < 2^numBits
  <2>1. 2^numBits \in Nat
    <3>1. numBits \in 0..24
      BY <1>3
    <3> QED
      BY <3>1, PowerType DEF Positive
  <2>2. queue \in 0..(2^numBits - 1)
    BY <1>2 DEF QueueFits
  <2> QED
    BY <2>1, <2>2
<1>5. Digit \in 0..90
  <2>1. Digit \in -1..90
    BY <1>1, <1>3, DigitType
  <2> QED
    BY <1>1, <2>1
<1>7. Joins(queue, numBits, v, t, q, k) /\ w = OctetsOf(q, k)
  BY DEF Joins, WholeOctets
<1>8. v = val + Digit * 91 /\ t = PairBits(v)
  OBVIOUS
<1> HIDE DEF v, t, q, k
<1>6. HasBits(v, t) /\ t \in {13, 14}
  <2>1. val \in Digits /\ Digit \in Digits
    BY <1>3, <1>5 DEF Digits
  <2> QED
    BY <1>8, <2>1, PairOfDigits
<1>9. Shortened(numBits, t, q, k)
  <2>1. HasBits(queue, numBits)
    BY <1>4 DEF HasBits
  <2> QED
    BY <1>3, <1>6, <1>7, <2>1, SecondQueue
<1>10. k \in {1, 2} /\ numBits + t - 8 * k \in 0..7
  BY <1>9 DEF Shortened
<1>11. 8 * Len(output) + numBits <= 7 * (pos - 1)
  BY <1>1, <1>2 DEF DecodeSize
<1>12. ASSUME input # <<>>
       PROVE  /\ outputMaxLen = Len(input)
              /\ \E n \in Nat : \E at \in [0..n -> Nat] :
                    Decoding(n, at) /\ PairDone(n, at, t, q, k)
  <2>1. outputMaxLen = Len(input)
    BY <1>1, <1>2, <1>12 DEF TripInv
  <2>2. PICK n \in Nat : \E at \in [0..n -> Nat] : Decoding(n, at)
    BY <1>1, <1>2, <1>12 DEF TripInv
  <2>3. PICK at \in [0..n -> Nat] : Decoding(n, at)
    BY <2>2
  <2>4. PairDone(n, at, t, q, k)
    BY <1>1, <1>3, <1>7, <1>8, <2>3, SecondOfPair
  <2> QED
    BY <2>1, <2>3, <2>4
<1> HIDE DEF w
<1>13. CASE Full /\ Fails
  <2>1. input = <<>>
    <3> SUFFICES ASSUME input # <<>> PROVE FALSE
      OBVIOUS
    <3>1. PICK n \in Nat : \E at \in [0..n -> Nat] : PairDone(n, at, t, q, k)
      BY <1>12
    <3>2. Len(output) + k <= Len(input)
      BY <3>1 DEF PairDone, PairStep, LastStep
    <3>3. Len(input) = outputMaxLen
      BY <1>12
    <3> QED
      BY <1>3, <1>10, <1>13, <3>2, <3>3
  <2>2. 8 * outputMaxLen < 7 * Len(text) + 8
    <3>1. 8 * k <= numBits + t /\ t <= 14 /\ t \in Int /\ pos + 1 <= Len(text)
      BY <1>1, <1>3, <1>6, <1>10
    <3>2. outputMaxLen < Len(output) + k
      BY <1>3, <1>10, <1>13
    <3> QED
      BY <1>3, <1>10, <1>11, <3>1, <3>2
  <2>3. Failures'
    BY <1>1, <1>13, <2>1, <2>2 DEF Failures
  <2>4. CodecTypes' /\ QueueFits'
    BY <1>1, <1>2, <1>13 DEF CodecTypes, CodecTypeOK, QueueFits
  <2> QED
    BY <1>13, <2>3, <2>4 DEF CodecInv, EncodeInv, TripInv, DecodeSize, RoundTrip
<1>14. CASE Writes
  <2>1. queue' = q \div 2^(8 * k) /\ numBits' = numBits + t - 8 * k /\ val' = -1
    <3>1. 256^k = 2^(8 * k)
      BY <1>9 DEF Shortened
    <3>2. numBits' = numBits + t - 8 * k
      BY <1>3, <1>6, <1>10, <1>14
    <3> QED
      BY <1>14, <3>1, <3>2
  <2>2. QueueFits'
    <3>1. numBits' \in 0..7 /\ queue' \in 0..(2^numBits' - 1)
      BY <1>9, <2>1 DEF Shortened
    <3> QED
      BY <1>1, <1>14, <3>1 DEF QueueFits
  <2>3. output' \in Seq(0..255) /\ Len(output)' = Len(output) + k
    <3> DEFINE S == 0..255
    <3>1. w \in Seq(S) /\ Len(w) = k /\ output \in Seq(S)
      BY <1>3, <1>7, <1>9 DEF Shortened
    <3> HIDE DEF S
    <3>2. output \o w \in Seq(S) /\ Len(output \o w) = Len(output) + Len(w)
      BY <3>1, ConcatProperties
    <3> QED
      BY <1>14, <3>1, <3>2 DEF S
  <2>4. CodecTypes'
    <3>1. pos' \in 0..Len(text)'
      BY <1>1, <1>3, <1>14
    <3> QED
      BY <1>1, <1>2, <1>14, <2>3, <3>1 DEF CodecTypes, CodecTypeOK
  <2>5. DecodeSize'
    <3>1. 8 * (Len(output) + k) + (numBits + t - 8 * k) <= 7 * (pos + 1)
      BY <1>3, <1>6, <1>10, <1>11
    <3> QED
      BY <1>14, <2>1, <2>3, <3>1 DEF DecodeSize
  <2>6. TripInv'
    <3> SUFFICES ASSUME input # <<>> PROVE TripInv'
      BY <1>1 DEF TripInv
    <3>1. PICK n \in Nat : \E at \in [0..n -> Nat] : Decoding(n, at) /\ PairDone(n, at, t, q, k)
      BY <1>12
    <3>2. PICK at \in [0..n -> Nat] : Decoding(n, at) /\ PairDone(n, at, t, q, k)
      BY <3>1
    <3>3. PairsAt(input, text, n, at)' /\ TailAt(input, text, n, at[n])'
      BY <1>1, <3>2 DEF Decoding
    <3>4. (AllRead \/ \E j \in 0..n : Reading(j, n, at))'
      <4> DEFINE Last == pos + 1 = Len(text) /\ LastStep(input, output, q, k)
      <4>1. CASE Last
        <5>1. output' = input
          BY <1>7, <1>14, <4>1 DEF LastStep
        <5>2. AllRead'
          BY <1>1, <1>14, <4>1, <5>1 DEF AllRead
        <5> QED
          BY <5>2
      <4>2. ASSUME NEW j \in 0..(n - 1), pos = 2 * j + 1,
                   PairStep(input, output, numBits, t, q, k, at[j + 1])
            PROVE  \E i \in 0..n : Reading(i, n, at)'
        <5>1. PICK i \in 0..n : i = j + 1
          OBVIOUS
        <5>2. DecodedTo(input, output, queue, numBits, at[i])'
          BY <1>1, <1>7, <1>14, <2>1, <4>2, <5>1 DEF PairStep
        <5>3. Before(i)'
          BY <1>14, <4>2, <5>1 DEF Before
        <5> QED
          BY <5>2, <5>3 DEF Reading
      <4>3. \/ Last
            \/ \E j \in 0..(n - 1) : /\ pos = 2 * j + 1
                                     /\ PairStep(input, output, numBits, t, q, k, at[j + 1])
        BY <3>2 DEF PairDone
      <4> QED
        BY <4>1, <4>2, <4>3
    <3>5. Decoding(n, at)'
      BY <3>3, <3>4 DEF Decoding
    <3> QED
      BY <1>1, <1>12, <3>5 DEF TripInv
  <2> QED
    BY <1>1, <1>14, <2>2, <2>4, <2>5, <2>6 DEF CodecInv, Failures, EncodeInv, RoundTrip
<1> QED
  BY <1>0, <1>13, <1>14

(* A value of one digit is that digit. *)
LEMMA OneDigit == \A x \in Digits : x % 91 = x
BY DEF Digits

(* The end of an encoded text: nothing is left, or one character that      *)
(* holds the rest of the last octet.                                       *)
LEMMA EndOfText ==
  ASSUME NEW n \in Nat, NEW at \in [0..n -> Nat], Decoding(n, at),
         input \in Seq(0..255), text \in Seq(1..255), pos = Len(text)
  PROVE  \/ val = -1 /\ output = input
         \/ /\ val # -1 /\ Len(output) < Len(input)
            /\ Append(output, (queue + val * 2^numBits) % 256) = input
<1>1. CASE AllRead
  BY <1>1 DEF AllRead
<1>2. CASE ~AllRead
  <2>1. PICK j \in 0..n : Reading(j, n, at)
    BY <1>2 DEF Decoding
  <2> DEFINE b == at[n]
             r == 8 * Len(input) - b
             V == Bits(input, b, r)
             m == TailLen(V, r)
  <2>2. Len(input) \in Nat /\ Len(text) \in Nat /\ b \in Nat
    BY LenProperties
  <2>3. pos = 2 * j \/ pos = 2 * j + 1
    BY <2>1 DEF Reading, Before, Inside
  <2>4. j = n
    <3> SUFFICES ASSUME j < n PROVE FALSE
      OBVIOUS
    <3>1. PairAt(input, text, j, at[j], at[j + 1])
      BY DEF Decoding, PairsAt
    <3>2. 2 * j + 2 <= Len(text)
      BY <3>1 DEF PairAt
    <3> QED
      BY <2>2, <2>3, <3>2
  <2>5. TailOf(input, text, n, b, r)
    BY DEF Decoding, TailAt
  <2>6. r \in 0..13 /\ Len(text) = 2 * n + m
    BY <2>5 DEF TailOf
  <2>7. ValueAt(n, n, at) = V
    BY DEF ValueAt, EndOf
  <2>8. b + r = 8 * Len(input)
    BY <2>2
  <2> HIDE DEF r, b
  <2>9. V \in Values /\ TailSize(V, r, m)
    BY <2>2, <2>6, TailValue
  <2> HIDE DEF V, m
  <2>10. DecodedTo(input, output, queue, numBits, b)
    BY <2>1, <2>4 DEF Reading, b
  <2>11. /\ m \in 0..2 /\ (m = 0 => r = 0) /\ (m = 1 => r \in 1..7 /\ V <= 90)
    BY <2>9 DEF TailSize
  <2>12. CASE Before(n)
    <3>1. pos = 2 * n /\ val = -1
      BY <2>12 DEF Before
    <3>2. m = 0
      BY <2>2, <2>6, <2>11, <3>1
    <3>3. b = 8 * Len(input)
      BY <2>2, <2>8, <2>11, <3>2
    <3>4. Prefix(input, output, Len(input))
      <4>1. Prefix(input, output, b \div 8)
        BY <2>10 DEF DecodedTo
      <4>2. b \div 8 = Len(input)
        <5> DEFINE l == Len(input)
        <5>1. l \in Nat /\ b = 8 * l
          BY <2>2, <3>3
        <5> HIDE DEF l
        <5>2. b \div 8 = l
          BY <5>1
        <5> QED
          BY <5>2 DEF l
      <4> QED
        BY <4>1, <4>2
    <3>5. output = input
      BY <3>4, WholePrefix
    <3> QED
      BY <3>1, <3>5
  <2>13. CASE Inside(n, V)
    <3>1. pos = 2 * n + 1 /\ val = V % 91
      BY <2>13 DEF Inside
    <3>2. m = 1
      BY <2>2, <2>6, <2>11, <3>1
    <3>3. r \in 1..7 /\ V <= 90
      BY <2>11, <3>2
    <3>7. V \in Digits
      <4>1. V \in Values
        BY <2>9
      <4>2. V \in Nat
        BY <4>1 DEF Values
      <4> QED
        BY <3>3, <4>2 DEF Digits
    <3>4. val = V
      <4>1. V % 91 = V
        BY <3>7, OneDigit
      <4> QED
        BY <3>1, <4>1
    <3>5. val # -1
      BY <3>4, <3>7 DEF Digits
    <3>6. LastOctet(input, output, queue, numBits, V)
      BY <2>8, <2>10, <3>3, DecodeLastOctet DEF V
    <3> QED
      BY <3>4, <3>5, <3>6 DEF LastOctet
  <2>14. Before(n) \/ Inside(n, V)
    BY <2>1, <2>4, <2>7 DEF Reading
  <2> QED
    BY <2>12, <2>13, <2>14
<1> QED
  BY <1>1, <1>2

(* Decoding ends with the whole input. *)
LEMMA FinishDecodeCodec == CodecInv /\ FinishDecode => CodecInv'
<1> SUFFICES ASSUME CodecInv, FinishDecode PROVE CodecInv'
  OBVIOUS
<1> DEFINE x == (queue + val * 2^numBits) % 256
           Full == val # -1 /\ Len(output) >= outputMaxLen
           Fails == phase' = "decodeFailed" /\ UNCHANGED output
           Writes == phase' = "done" /\ output' = IF val = -1 THEN output ELSE Append(output, x)
<1>1. /\ phase = "decode" /\ pos = Len(text)
      /\ UNCHANGED <<input, text, outputMaxLen, pos, queue, numBits, val>>
  BY DEF FinishDecode
<1>0. IF Full THEN Fails ELSE Writes
  BY DEF FinishDecode
<1>2. CodecTypes /\ QueueFits /\ TripInv /\ DecodeSize
  BY DEF CodecInv
<1>3. /\ input \in Seq(0..255) /\ text \in Seq(1..255) /\ output \in Seq(0..255)
      /\ Len(text) \in Nat /\ Len(output) \in Nat /\ outputMaxLen \in Nat
      /\ val \in -1..90 /\ numBits \in 0..7
  BY <1>1, <1>2, LenProperties DEF CodecTypes, CodecTypeOK, QueueFits
<1>4. QueueFits'
  BY <1>0, <1>1, <1>2 DEF QueueFits
<1>5. ASSUME input # <<>>
      PROVE  /\ outputMaxLen = Len(input)
             /\ \/ val = -1 /\ output = input
                \/ val # -1 /\ Len(output) < Len(input) /\ Append(output, x) = input
  <2>1. PICK n \in Nat : \E at \in [0..n -> Nat] : Decoding(n, at)
    BY <1>1, <1>2, <1>5 DEF TripInv
  <2>2. PICK at \in [0..n -> Nat] : Decoding(n, at)
    BY <2>1
  <2>3. outputMaxLen = Len(input)
    BY <1>1, <1>2, <1>5 DEF TripInv
  <2>4. \/ val = -1 /\ output = input
        \/ val # -1 /\ Len(output) < Len(input) /\ Append(output, x) = input
    BY <1>1, <1>3, <2>2, EndOfText
  <2> QED
    BY <2>3, <2>4
<1>6. x \in 0..255
  <2>1. queue \in Int /\ 2^numBits \in Int
    <3>1. numBits \in 0..24
      BY <1>3
    <3>2. 2^numBits \in Nat
      BY <3>1, PowerType DEF Positive
    <3>3. queue \in 0..(2^numBits - 1)
      BY <1>2 DEF QueueFits
    <3> QED
      BY <3>2, <3>3
  <2> DEFINE g == queue + val * 2^numBits
  <2>2. g \in Int
    BY <1>3, <2>1
  <2> HIDE DEF g
  <2>3. g % 256 \in 0..255
    BY <2>2
  <2> QED
    BY <2>3 DEF g
<1> HIDE DEF x
<1>7. CASE Full /\ Fails
  <2>1. input = <<>>
    <3> SUFFICES ASSUME input # <<>> PROVE FALSE
      OBVIOUS
    <3>1. Len(output) < outputMaxLen
      BY <1>5, <1>7
    <3> QED
      BY <1>3, <1>7, <3>1
  <2>2. 8 * outputMaxLen < 7 * Len(text) + 8
    <3>1. 8 * Len(output) + numBits <= 7 * (Len(text) - 1)
      BY <1>1, <1>2, <1>7 DEF DecodeSize
    <3>2. outputMaxLen <= Len(output)
      BY <1>3, <1>7
    <3> QED
      BY <1>3, <3>1, <3>2
  <2>3. Failures'
    BY <1>1, <1>7, <2>1, <2>2 DEF Failures
  <2>4. CodecTypes'
    BY <1>1, <1>2, <1>7 DEF CodecTypes, CodecTypeOK
  <2> QED
    BY <1>4, <1>7, <2>3, <2>4 DEF CodecInv, EncodeInv, TripInv, DecodeSize, RoundTrip
<1>8. CASE Writes
  <2>1. output' \in Seq(0..255)
    <3> DEFINE S == 0..255
    <3>1. output \in Seq(S) /\ x \in S
      BY <1>3, <1>6
    <3> HIDE DEF S
    <3>2. Append(output, x) \in Seq(S)
      BY <3>1, AppendProperties
    <3> QED
      BY <1>8, <3>1, <3>2 DEF S
  <2>2. CodecTypes'
    BY <1>1, <1>2, <1>8, <2>1 DEF CodecTypes, CodecTypeOK
  <2>3. RoundTrip'
    BY <1>1, <1>5, <1>8 DEF RoundTrip
  <2> QED
    BY <1>4, <1>8, <2>2, <2>3 DEF CodecInv, Failures, EncodeInv, TripInv, DecodeSize
<1> QED
  BY <1>0, <1>7, <1>8

(* Every step of the codec keeps the invariant. *)
LEMMA StepCodec == CodecInv /\ [CodecNext]_codecVars => CodecInv'
<1> SUFFICES ASSUME CodecInv, [CodecNext]_codecVars PROVE CodecInv'
  OBVIOUS
<1>1. CASE CodecNext
  BY <1>1, ShiftCodec, EmitPairCodec, FinishEncodeCodec, ReadFirstCodec, ReadSecondCodec,
     FinishDecodeCodec DEF CodecNext
<1>2. CASE UNCHANGED codecVars
  <2>1. UNCHANGED <<phase, input, text, output, outputMaxLen, pos, queue, numBits, val>>
    BY <1>2 DEF codecVars
  <2>2. CodecTypes' /\ QueueFits' /\ Failures' /\ DecodeSize' /\ RoundTrip'
    BY <2>1 DEF CodecInv, CodecTypes, CodecTypeOK, QueueFits, Failures, DecodeSize, RoundTrip
  <2>3. EncodeInv'
    <3>1. \A n, at : Encoded(n, at)' <=> Encoded(n, at)
      BY <2>1 DEF Encoded
    <3> QED
      BY <2>1, <3>1 DEF CodecInv, EncodeInv
  <2>4. TripInv'
    <3>1. \A j, n, at : Reading(j, n, at)' <=> Reading(j, n, at)
      BY <2>1 DEF Reading, Before, Inside, ValueAt, EndOf
    <3>2. \A n, at : Decoding(n, at)' <=> Decoding(n, at)
      BY <2>1, <3>1 DEF Decoding, AllRead
    <3> QED
      BY <2>1, <3>2 DEF CodecInv, TripInv
  <2> QED
    BY <2>2, <2>3, <2>4 DEF CodecInv
<1> QED
  BY <1>1, <1>2

(* The invariant always holds. *)
LEMMA CodecInvariant == CodecSpec => []CodecInv
BY InitCodec, StepCodec, PTL DEF CodecSpec

(* The variables of the codec have their types. *)
THEOREM CodecTypeCorrect == CodecSpec => []CodecTypeOK
<1>1. CodecInv => CodecTypeOK
  BY DEF CodecInv, CodecTypes
<1> QED
  BY <1>1, CodecInvariant, PTL

(* base91Decode undoes base91Encode for every string of octets: the length *)
(* comes back too, although it is not in the text.                         *)
THEOREM TextRoundTrips == CodecSpec => []RoundTrip
<1>1. CodecInv => RoundTrip
  BY DEF CodecInv
<1> QED
  BY <1>1, CodecInvariant, PTL

(* encodedSize is enough for base91Encode, the input's own length for      *)
(* base91Decode of what was encoded, and seven octets for every eight      *)
(* characters for base91Decode of anything; the queue never has a bit at   *)
(* or above numBits.                                                       *)
THEOREM CodecBuffers == CodecSpec => []BufferSuffices
<1>1. CodecInv => BufferSuffices
  BY DEF CodecInv, QueueFits, Failures, BufferSuffices
<1> QED
  BY <1>1, CodecInvariant, PTL

=============================================================================
