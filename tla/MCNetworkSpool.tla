--------------------------- MODULE MCNetworkSpool ---------------------------
(* A TLC instance of NetworkSpool: a sound packet of netmail, one of board *)
(* messages that lacks an author, and one with a message that is refused,  *)
(* with two processes importing.                                           *)
EXTENDS NetworkSpool

CONSTANTS cron, sysop

MCDirOf == <<1, 2, 2>>

MCRows == << <<"good">>, <<"good", "default">>, <<"skip", "refused">> >>

=============================================================================
