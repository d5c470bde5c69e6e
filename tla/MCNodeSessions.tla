--------------------------- MODULE MCNodeSessions ---------------------------
(* TLC instances of NodeSessions: two SSH channels and a text connection   *)
(* on two nodes.  With MCOwnIds each has a session id of its own; with     *)
(* MCSharedIds the two SSH channels are multiplexed over one connection.   *)
EXTENDS NodeSessions

CONSTANTS guest, alice, bob, a, b, c, tel

MCOwnIds    == [t \in Terms |-> t]
MCSharedIds == [t \in Terms |-> IF t = b THEN a ELSE t]
=============================================================================
