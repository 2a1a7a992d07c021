----------------------------- MODULE MCGateway -----------------------------
(* Instances of WDPGateway for TLC: one that stresses reassembly, one that *)
(* stresses the sockets and the timeouts.                                  *)
EXTENDS WDPGateway, TLC

CONSTANTS m1, m2, m3, alice, bob

(* Reassembly: alice sends one two-part request, bob takes the same refNum *)
(* for two requests, of which one has more parts than a slot can hold.     *)
MixMessages == {m1, m2, m3}
MixConcatenated == {m1, m2, m3}
MixSender == (m1 :> alice) @@ (m2 :> bob) @@ (m3 :> bob)
MixPort == (m1 :> 10) @@ (m2 :> 11) @@ (m3 :> 11)
MixRef == (m1 :> 1) @@ (m2 :> 1) @@ (m3 :> 1)
MixTotal == (m1 :> 2) @@ (m2 :> 2) @@ (m3 :> 3)

(* Routing: alice and bob share port 10, alice also uses port 11.  Both    *)
(* send a message in parts, for which one slot is too little.              *)
SharedMessages == {m1, m2, m3}
SharedConcatenated == {m1, m2}
SharedSender == (m1 :> alice) @@ (m2 :> bob) @@ (m3 :> alice)
SharedPort == (m1 :> 10) @@ (m2 :> 10) @@ (m3 :> 11)
SharedRef == (m1 :> 1) @@ (m2 :> 2) @@ (m3 :> 0)
SharedTotal == (m1 :> 2) @@ (m2 :> 2) @@ (m3 :> 1)

============================================================================
