----------------------------- MODULE WDPFraming -----------------------------
(***************************************************************************)
(* Fragmentation: sendWDPViaMesh of mode_proxy.h and ap_sendWDPViaMesh of  *)
(* mode_ap.h, which are the same code, and the offset at which the         *)
(* receiver stores a part.  One behaviour sends one payload of len octets. *)
(* WDPConcat leaves the octets out; the theorems of NodePartsProofs say   *)
(* why it may.                                                             *)
(***************************************************************************)
EXTENDS Integers

CONSTANT MaxLen   \* longest payload: the proxy's UDP buffer[1500]

ASSUME MaxLenAssumption == MaxLen \in 0..1500

VARIABLES
  len,      \* length of the payload
  sent,     \* mesh messages handed to sendMeshCallback so far
  covered,  \* octets of payload in them
  offset,   \* where the receiver puts the latest one
  partLen,  \* its octets of payload
  wire      \* its length with the header, before Base91

framingVars == <<len, sent, covered, offset, partLen, wire>>

MESHCORE_MAX_BYTES == 150
MESHCORE_MAX_BINARY_PAYLOAD == 120

maxPayloadSimple == MESHCORE_MAX_BINARY_PAYLOAD - 7
maxPayloadConcat == MESHCORE_MAX_BINARY_PAYLOAD - 12

(* sendWDPToMesh cuts a longer message off. *)
maxBinaryLen == ((MESHCORE_MAX_BYTES - 1) * 13) \div 16

(* Faulty variant: rounded down. *)
totalPartsDown(n) == n \div maxPayloadConcat

(* Rounded up. *)
totalParts(n) == (n + maxPayloadConcat - 1) \div maxPayloadConcat

(* Faulty variant: the header is forgotten. *)
IsSimpleWithoutHeader(n) == n <= MESHCORE_MAX_BINARY_PAYLOAD

IsSimple(n) == n <= maxPayloadSimple

PartLen(n, off) == IF n - off < maxPayloadConcat THEN n - off ELSE maxPayloadConcat

(* The receiver computes it from the part number alone. *)
ReceiverOffset(part) == (part - 1) * (MESHCORE_MAX_BINARY_PAYLOAD - 12)

FramingInit ==
  /\ len \in 0..MaxLen
  /\ sent = 0
  /\ covered = 0
  /\ offset = 0
  /\ partLen = 0
  /\ wire = 0

SendSimple ==
  /\ IsSimple(len) /\ sent = 0
  /\ sent' = 1
  /\ covered' = len
  /\ offset' = 0
  /\ partLen' = len
  /\ wire' = 7 + len
  /\ UNCHANGED len

SendPart ==
  /\ ~IsSimple(len) /\ sent < totalParts(len)
  /\ LET part == sent + 1
         size == PartLen(len, (part - 1) * maxPayloadConcat)
     IN /\ sent' = part
        /\ covered' = covered + size
        /\ offset' = ReceiverOffset(part)
        /\ partLen' = size
        /\ wire' = 12 + size
  /\ UNCHANGED len

FramingNext == SendSimple \/ SendPart

FramingSpec == FramingInit /\ [][FramingNext]_framingVars

Done == sent = (IF IsSimple(len) THEN 1 ELSE totalParts(len))

----------------------------------------------------------------------------
(* Correctness *)

(* The variables have the types of their declarations. *)
FramingTypeOK ==
  /\ len \in 0..MaxLen
  /\ sent \in Nat
  /\ covered \in Nat
  /\ offset \in Nat
  /\ partLen \in Nat
  /\ wire \in Nat

(* A mesh message fits the sender's msg[] buffer and is never cut off by   *)
(* sendWDPToMesh, at 113 octets (the longest simple payload), 114 (the     *)
(* shortest fragmented one) and every multiple of 108.                     *)
FitsOneMessage == wire <= MESHCORE_MAX_BINARY_PAYLOAD /\ wire <= maxBinaryLen

(* The parts lie one after the other in the receiver's buffer, with no gap *)
(* and no overlap, and together they are the payload.                      *)
ExactCover ==
  /\ covered = offset + partLen
  /\ covered <= len
  /\ Done => covered = len

(* What the receiver's guards ask of a part holds for every part sent:     *)
(* number at most 16, end strictly inside the smaller data[2048]; and the  *)
(* part count fits its octet and is at least two.                          *)
Storable ==
  /\ sent <= 16
  /\ offset + partLen < 2048
  /\ ~IsSimple(len) => totalParts(len) \in 2..16 /\ (sent > 0 => partLen > 0)

(* No buffer on the way, the sender's or the receiver's, is too small. *)
WithinBuffers == FitsOneMessage /\ Storable

============================================================================
