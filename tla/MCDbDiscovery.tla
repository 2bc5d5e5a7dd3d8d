---------------------------- MODULE MCDbDiscovery ----------------------------
(***************************************************************************)
(* Three peers for DbDiscovery: two scooters whose service has other       *)
(* handles and another order, one of them up to the last handle there is,  *)
(* and a device without the service.                                       *)
(***************************************************************************)
EXTENDS DbDiscovery

Char(u, d, c) == [uuid |-> u, decl |-> d, value |-> d + 1, cccd |-> c]

Scooter == [chars |-> <<Char("tx", 11, 0), Char("rx", 13, 15)>>, end |-> 15]
Other   == [chars |-> <<Char("rx", 21, 23), Char("tx", 65534, 0)>>, end |-> 65535]
NoNus   == [chars |-> <<>>, end |-> 1]

MCPeers == {Scooter, Other, NoNus}
=============================================================================
