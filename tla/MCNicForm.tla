------------------------------ MODULE MCNicForm ------------------------------
(***************************************************************************)
(* A host with two NICs, one of which may be absent, as an adapter that is *)
(* unplugged or whose driver has not come up.                              *)
(***************************************************************************)
EXTENDS NicForm

CONSTANTS eth0, eth1, amber, control

MCOtherRoles == {amber, control}
MCListings == {<<eth0>>, <<eth0, eth1>>}
=============================================================================
