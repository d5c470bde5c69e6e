---------------------------- MODULE MCChatRooms ----------------------------
(* TLC instances of ChatService: alice may be on twice (SSH and web), bob  *)
(* once (IRC).                                                             *)
EXTENDS ChatService

CONSTANTS alice, bob, ssh, web, irc

MCNickOf == [p \in Callers |-> IF p = irc THEN bob ELSE alice]

(* The feed on its own: joins, leaves and moderation change neither the    *)
(* log nor a stream, so runs about the fan-out leave them out.             *)
FeedSpec == Init /\ [][FeedStep]_vars

FairFeedSpec == FeedSpec /\ Fairness
=============================================================================
