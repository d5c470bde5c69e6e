---------------------------- MODULE MCIrcGateway ----------------------------
(* A TLC instance of IrcGateway: two connections of one person, who knows  *)
(* one account's password but may take any nick, and one that only         *)
(* connects and hangs up, before the first one comes.  The first logs on   *)
(* with SASL, the second with PASS and USER.                               *)
EXTENDS IrcGateway

CONSTANTS c1, c2, c3, home, cafe, alice, sysop

Sasl(c) ==
  /\ ~state[c].authed
  /\ \/ CapReq(c) \/ AuthenticatePlain(c)
     \/ \E u \in {NoNick, sysop} : AuthenticatePayload(c, u, sysop)

MCNext ==
  \/ \E c \in {c2, c3} : Connection(c)
  \/ phase[c3] # "new" /\ Connection(c1)
  \/ \E c \in {c1, c2} : \/ Authenticate(c) \/ Channel(c)
                         \/ \E n \in Nicks : Nick(c, n)
  \/ Sasl(c1)
  \/ User(c2, sysop) \/ Pass(c2, sysop)

MCSpec == Init /\ [][MCNext]_vars
=============================================================================
