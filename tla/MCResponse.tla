----------------------------- MODULE MCResponse -----------------------------
(***************************************************************************)
(* Replies for ResponsePath: headers of every form with a short body,      *)
(* every status, and pages of up to two tokens after each of several      *)
(* beginnings.                                                             *)
(***************************************************************************)
EXTENDS ResponsePath

Rep(octet, n) == [k \in 1..n |-> octet]

(* Content types: codes, a length and a code, texts. *)
Types ==
  {<<148>>, <<136>>, <<200>>, <<2, 148, 129>>, <<1, 5>>, <<9>>, <<119, 109, 108, 99, 0>>,
   <<97>>}

(* A text of 63 characters fits, one of 64 does not. *)
LongTypes == {Rep(97, n) \o <<0>> : n \in 63..64}

(* Headers: Server, Location, Content-Length, others, and broken ones. *)
Fields ==
  {<<166, 97, 0>>, <<166, 200>>, <<166, 98>>, <<156, 97, 0>>, <<156, 130>>, <<141, 128>>, <<141, 131>>,
   <<141, 2, 0, 3>>, <<141, 2, 1>>, <<141, 50>>, <<129, 130>>, <<129, 1, 1>>, <<129, 97, 0>>,
   <<5>>, <<97, 0, 98, 0>>, <<97, 0, 130>>, <<97>>, <<141>>}

(* Any type with a header, and two headers after a type with a code. *)
Headers ==
  {<<>>} \cup Types \cup LongTypes \cup {t \o f : t \in Types, f \in Fields}
    \cup {t \o <<166, 97, 0>> : t \in LongTypes}
    \cup {<<136>> \o f \o g : f \in Fields, g \in {<<166, 97, 0>>, <<141, 131>>, <<97>>}}

Reply1(status, headers, body) == <<7, 4, status, Len(headers)>> \o headers \o body

HeaderReplies == {Reply1(32, h, b) : h \in Headers, b \in {<<>>, <<1, 2, 3>>}}

StatusReplies == {Reply1(status, <<136>>, <<1>>) : status \in 0..255}

(* Not a reply, too short, a length that does not end or is too large. *)
BadReplies == {<<7>>, <<7, 4, 32>>, <<7, 5, 32, 0>>, <<7, 4, 32, 129>>, <<7, 4, 32, 9, 148, 1>>}

(* Tokens of each kind, and octets of numbers and strings. *)
Tokens ==
  {0, 1, 2, 3, 4, 6, 65, 67, 68, 96, 128, 129, 131, 132, 133, 195, 224, 32}

Bodies == UNION {[1..n -> Tokens] : n \in 0..2}

(* Version, public id, charset, string table "a", and a beginning: open    *)
(* elements, an element with an attribute, or nothing.                     *)
Start == <<1, 4, 106, 2, 97, 0>>
Beginnings == {<<>>, <<127, 96>>, <<224>>, <<160, 7>>, <<224, 43, 3, 98, 0, 130>>, <<66, 98>>}

Pages ==
  {Start \o b \o t : b \in Beginnings, t \in Bodies}
    \cup {<<1, 0, 5, 106, 0, 96>>, <<1, 10, 106, 0>>, <<1, 129>>, <<1, 4, 106, 129, 129>>, <<1, 4, 106, 9, 1>>}
    \cup {<<1, 9, 106, 0>> \o Rep(96, n) \o Rep(1, k) : n \in 31..34, k \in {0, 2, 35}}
    \cup {<<1, 4, 106, 0, 3>> \o Rep(97, n) : n \in {1, 2, 3, 4}}

PageReplies == {Reply1(32, <<148>>, page) : page \in Pages}

(* One message, a first part of c octets and the rest, and three parts:    *)
(* the headers with an octet of the body, an octet, the last octet.        *)
Whole(pdus) == {[pdu |-> p, ends |-> <<Len(p)>>] : p \in pdus}
Cut(pdus, lengths) ==
  UNION {{[pdu |-> p, ends |-> <<c, Len(p)>>] : c \in {n \in lengths : n < Len(p)}} : p \in pdus}
Thirds(pdus) == {[pdu |-> p, ends |-> <<Len(p) - 2, Len(p) - 1, Len(p)>>] : p \in pdus}

MCArrivals ==
  UNION {Whole(HeaderReplies), Whole(StatusReplies), Whole(BadReplies), Whole(PageReplies),
         Cut(HeaderReplies, {3, 4, 7, 9}), Cut({p \in PageReplies : Len(p) < 14}, {10, 12}),
         Thirds({Reply1(32, h, <<1, 2, 3>>) : h \in Types})}

============================================================================
