----------------------------- MODULE MCMeshNode -----------------------------
(* Two nodes whose keys begin alike, and two texts: the Base91 text of a   *)
(* third part of two, which is refused; and a simple message sent without  *)
(* Base91, with no Base91 character in it, which is accepted.              *)
EXTENDS MeshNode

MCContacts == <<"other", "ap">>

MCPrefix == [n \in Nodes |-> "a1b2c3d4"]

BadPart == <<76, 65, 93, 62, 38, 45, 69, 72, 96, 104, 111, 95, 95, 69, 46, 65>>
Raw     == <<6, 5, 4, 34, 39, 32, 32>>

MCTexts == {BadPart, Raw}

MCDecoded ==
  [t \in MCTexts |->
     CASE t = BadPart -> <<11, 0, 3, 7, 2, 3, 5, 4, 35, 240, 192, 1, 9>>
       [] t = Raw     -> <<>>]

============================================================================
