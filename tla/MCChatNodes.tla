---------------------------- MODULE MCChatNodes ----------------------------
(* TLC instances of ChatNodes: the SSH server, the web server and the IRC  *)
(* gateway on one database, or the last two of them.  alice speaks in each *)
(* process, in the web server from two tabs; her readers are one IRC       *)
(* connection and one chat page.                                           *)
EXTENDS ChatNodes

CONSTANTS bbsd, web, ircd, alice, desk, tab1, tab2, ircConn, ircUser, page

MCProcOf == [k \in Callers |-> IF k = desk THEN bbsd
                               ELSE IF k = ircConn THEN ircd ELSE web]
MCNickOf == [k \in Callers |-> alice]
MCHostOf == [c \in Clients |-> IF c = ircUser THEN ircd ELSE web]

(* The readers on their own: without a ban, and below the rate limit.      *)
ReaderSpec == Init /\ [][PostStep \/ ReadStep]_vars

FairReaderSpec == ReaderSpec /\ Fairness
=============================================================================
