---------------------------- MODULE MCHTTPFront -----------------------------
(* Requests at the limits of every buffer, and the kinds that are refused. *)
EXTENDS HTTPFront

Host(n, check) == [name |-> "host", len |-> n, check |-> check]

Other == [name |-> "other"]

Length(n) == [name |-> "content-length", len |-> n]

Get(path, headers) ==
  [valid |-> TRUE, get |-> TRUE, path |-> path, absHost |-> -1, headers |-> headers]

Absolute(path, host) ==
  [valid |-> TRUE, get |-> TRUE, path |-> path, absHost |-> host, headers |-> <<Other>>]

Post(n) ==
  [valid |-> TRUE, get |-> FALSE, path |-> 1, absHost |-> -1, headers |-> <<Length(n)>>]

MCRequests ==
  {Get(1, <<>>), [Get(1, <<>>) EXCEPT !.valid = FALSE]}
    \cup {Get(p, <<Host(h, 0)>>) : p \in {255, 256}, h \in {63, 64, 127, 128}}
    \cup {Get(1, <<Host(29, 29), Other>>)}
    \cup {Get(1, <<Host(130, check)>>) : check \in {127, 128}}
    \cup {Get(1, <<Other, Host(20, 0), Host(24, 0)>>)}
    \cup {Absolute(p, h) : p \in {255}, h \in {0, 63, 64}}
    \cup {Post(n) : n \in {511, 512}}

============================================================================
