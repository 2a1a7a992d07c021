------------------------------ MODULE Uintvar -------------------------------
(***************************************************************************)
(* The variable-length integers of WSP: encodeUintvar and decodeUintvar of *)
(* wap_request.cpp, and decodeUintvar of wap_response.cpp, which is the    *)
(* same code.  Octets are numbers, data is 1-based.                        *)
(***************************************************************************)
EXTENDS Integers, SequencesExt

MaxOctets == 5

(* At least one octet, at most five; the first has no octet before it. *)
UintvarLen(value) ==
  CHOOSE n \in 1..MaxOctets :
    /\ n = MaxOctets \/ value < 128^n
    /\ \A k \in 1..(n - 1) : value >= 128^k

encodeUintvar(value) ==
  LET n == UintvarLen(value) IN
  [i \in 1..n |-> ((value \div 128^(n - i)) % 128) + (IF i < n THEN 128 ELSE 0)]

(* Seven bits of each of n octets, the most significant first. *)
UintvarValue(data, n) ==
  LET Bits(k) == IF k < n THEN (data[n - k] % 128) * 128^k ELSE 0 IN
  Bits(0) + Bits(1) + Bits(2) + Bits(3) + Bits(4)

(* The number of octets read and the value, or 0 octets for an integer     *)
(* that does not end within five octets or within data.                    *)
decodeUintvar(data) ==
  LET ends == {i \in DOMAIN data : i <= MaxOctets /\ data[i] < 128} IN
  IF ends = {} THEN [used |-> 0, value |-> 0]
  ELSE LET n == CHOOSE i \in ends : \A j \in ends : i <= j IN
       [used |-> n, value |-> UintvarValue(data, n)]

============================================================================
