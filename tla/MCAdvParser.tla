----------------------------- MODULE MCAdvParser -----------------------------
(***************************************************************************)
(* The reports of the peers of MCDbDiscovery.  The device without the NUS  *)
(* may claim to have it, offer other services, or have the bytes of a NUS  *)
(* field inside another field.                                             *)
(***************************************************************************)
EXTENDS AdvParser, MCDbDiscovery

Flags == [type |-> 1, body |-> <<6>>]
Name  == [type |-> 9, body |-> <<77, 51, 54, 53>>]
Heart == [type |-> 3, body |-> <<13, 24, 1, 0>>]
Wide  == [type |-> 5, body |-> <<1, 0, 0, 0>>]
Nus   == [type |-> 7, body |-> NusUuid]
More  == [type |-> 6, body |-> NusUuid]
Like  == [type |-> 7, body |-> [NusUuid EXCEPT ![13] = 2]]
Maker == [type |-> 255, body |-> <<17, 7>> \o NusUuid]
Wants == [type |-> 21, body |-> NusUuid]

MCAdverts == [p \in MCPeers |->
  IF p = Scooter THEN {<<Flags, Nus>>, <<Flags, Name, Nus, Padding>>}
  ELSE IF p = Other THEN {<<Name, More, Heart>>, <<Wide, Heart, Nus>>}
  ELSE {<<Nus>>, <<Flags, Maker>>, <<Flags, Like, Name>>, <<Heart, Wide>>,
        <<Flags, Wants, Padding, Padding>>}]
=============================================================================
