--------------------------- MODULE MCUdpProtocol ---------------------------
(* Small instances of UdpProtocol.                                         *)
EXTENDS UdpProtocol, TLC

StrayOther == {[id |-> 1, op |-> "OTHER"]}
StrayMixed == {[id |-> 1, op |-> "TIME"], [id |-> 2, op |-> "OTHER"],
               [id |-> 0, op |-> "TIME"], Malformed}
Symmetric  == Permutations(Client) \cup Permutations(Port)
=============================================================================
