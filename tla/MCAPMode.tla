------------------------------ MODULE MCAPMode ------------------------------
(* Instances of APMode for TLC.                                            *)
EXTENDS APMode, TLC

CONSTANTS m1, m2, m3, m4, proxy

(* For port 10 a two-part WMLC answer, one whose headers do not fit in its *)
(* first part, and a simple undecodable one; for port 11 a two-part plain  *)
(* answer.                                                                 *)
MCMessages == {m1, m2, m3, m4}
MCConcatenated == {m1, m2, m4}
MCSender == [m \in MCMessages |-> proxy]
MCPort == (m1 :> 10) @@ (m2 :> 11) @@ (m3 :> 10) @@ (m4 :> 10)
MCRef == (m1 :> 1) @@ (m2 :> 2) @@ (m3 :> 0) @@ (m4 :> 3)
MCTotal == (m1 :> 2) @@ (m2 :> 2) @@ (m3 :> 1) @@ (m4 :> 2)
MCKind == (m1 :> "wmlc") @@ (m2 :> "plain") @@ (m3 :> "bad") @@ (m4 :> "wmlcLong")

============================================================================
