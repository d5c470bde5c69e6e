----------------------------- MODULE IrcGateway -----------------------------
(***************************************************************************)
(* The registry of the IRC gateway, cmd/wolfbbs-irc/main.go: which         *)
(* connections are counted, who holds which nick, who hears which channel, *)
(* and which channel the poller of each connection reads.                  *)
(*                                                                         *)
(* Every connection has a goroutine that handles its commands one by one   *)
(* and a second one, the poller, that it tells about channel changes over  *)
(* a bounded Go channel.  The maps are shared under clientsMu; a command   *)
(* that takes the mutex more than once, or acts after releasing it, is a   *)
(* step for each time.  A connection is used once.                         *)
(*                                                                         *)
(* Nicks and handles are in the lower case of the map keys.  A password is *)
(* named by the account it opens.  Flood control only drops commands, and  *)
(* replies, topics, away texts and lookups change none of this state.      *)
(***************************************************************************)
EXTENDS Naturals, Sequences, FiniteSets

CONSTANTS
  Conns,        \* connections
  IPs, Banned,  \* remote addresses, and those of bannedIPNets
  Nicks,        \* nicks and account handles
  Accounts,     \* handles that have an account
  Moderators,   \* those of role moderator or above
  NoNick,       \* the empty nick, user or password
  NoConn,       \* an absent map entry
  Rooms, NoRoom,
  MaxConn, MaxPerIP,
  RequirePass, AllowAlias,
  LineCap       \* capacity of linePoll (32 in the code)

ASSUME IrcConstants ==
  /\ IsFiniteSet(Conns)
  /\ NoConn \notin Conns
  /\ Banned \subseteq IPs
  /\ Moderators \subseteq Accounts
  /\ Accounts \subseteq Nicks
  /\ NoNick \notin Nicks
  /\ NoRoom \notin Rooms
  /\ MaxConn \in Nat \ {0}
  /\ MaxPerIP \in Nat \ {0}
  /\ RequirePass \in BOOLEAN
  /\ AllowAlias \in BOOLEAN
  /\ LineCap \in Nat \ {0}

VARIABLES
  total,   \* activeTotal
  byIP,    \* activeByIP
  phase,   \* how far a connection is through handleIRCConn
  ip,      \* its remote address
  state,   \* its ircState
  byNick,  \* clientsByNick
  peers,   \* channelPeers
  command, \* the rest of the command its goroutine is in
  line,    \* linePoll
  reading, \* current: the channel its poller reads
  astray,  \* history: it renamed inside a channel or lost its nick's entry
  raced    \* history: an update of its channel was dropped or overtaken

counts  == <<total, byIP, phase, ip>>
tables  == <<byNick, peers>>
pollers == <<line, reading>>
vars == <<counts, state, tables, command, pollers, astray, raced>>

-----------------------------------------------------------------------------
Fresh == [nick |-> NoNick, user |-> NoNick, pass |-> NoNick, sasl |-> "off",
          authed |-> FALSE, registered |-> FALSE, oper |-> FALSE, room |-> NoRoom]

Idle == [step |-> "idle"]

Init ==
  /\ total   = 0
  /\ byIP    = [i \in IPs |-> 0]
  /\ phase   = [c \in Conns |-> "new"]
  /\ ip      \in [Conns -> IPs]
  /\ state   = [c \in Conns |-> Fresh]
  /\ byNick  = [n \in Nicks |-> NoConn]
  /\ peers   = [r \in Rooms |-> [n \in Nicks |-> NoConn]]
  /\ command = [c \in Conns |-> Idle]
  /\ line    = [c \in Conns |-> <<>>]
  /\ reading = [c \in Conns |-> NoRoom]
  /\ astray  = [c \in Conns |-> FALSE]
  /\ raced   = [c \in Conns |-> FALSE]

-----------------------------------------------------------------------------
(* Connections: serveIRCListener, and the deferred calls of handleIRCConn  *)
(* in their order.                                                         *)

Refused(i) == i \in Banned \/ total >= MaxConn \/ byIP[i] >= MaxPerIP

Accept(c) ==
  /\ phase[c] = "new"
  /\ IF Refused(ip[c])
       THEN /\ phase' = [phase EXCEPT ![c] = "closed"]
            /\ UNCHANGED <<total, byIP>>
       ELSE /\ phase' = [phase EXCEPT ![c] = "open"]
            /\ total' = total + 1
            /\ byIP'  = [byIP EXCEPT ![ip[c]] = @ + 1]
  /\ UNCHANGED <<ip, state, tables, command, pollers, astray, raced>>

(* The next command of an open connection may be handled.                  *)
Ready(c) == phase[c] = "open" /\ command[c] = Idle

(* QUIT, or the read fails: close(done) ends the poller.  What only this   *)
(* goroutine and its poller read is gone with them.                        *)
HangUp(c) ==
  /\ Ready(c)
  /\ phase'   = [phase EXCEPT ![c] = "done"]
  /\ state'   = [state EXCEPT ![c] = [Fresh EXCEPT !.nick = state[c].nick,
                                                  !.room = state[c].room]]
  /\ line'    = [line EXCEPT ![c] = <<>>]
  /\ reading' = [reading EXCEPT ![c] = NoRoom]
  /\ UNCHANGED <<total, byIP, ip, tables, command, astray, raced>>

Unpeer(r, n) == IF r = NoRoom \/ n = NoNick THEN peers
                ELSE [peers EXCEPT ![r][n] = NoConn]

(* unregisterClientByConn finds the connection by its entry in the         *)
(* registry; without one it leaves everything as it is.                    *)
Unregister(c) ==
  /\ phase[c] = "done"
  /\ phase' = [phase EXCEPT ![c] = "gone"]
  /\ IF \E n \in Nicks : byNick[n] = c
       THEN /\ byNick' = [byNick EXCEPT ![state[c].nick] = NoConn]
            /\ peers'  = Unpeer(state[c].room, state[c].nick)
       ELSE UNCHANGED tables
  /\ UNCHANGED <<total, byIP, ip, state, command, pollers, astray, raced>>

(* Mutant: the address is forgotten whatever its count. *)
ReleaseAddress(c) ==
  /\ phase[c] = "gone"
  /\ phase' = [phase EXCEPT ![c] = "closed"]
  /\ total' = total - 1
  /\ byIP'  = [byIP EXCEPT ![ip[c]] = 0]
  /\ UNCHANGED <<ip, state, tables, command, pollers, astray, raced>>

(* releaseConnection.  An absent entry of activeByIP reads as 0.           *)
Release(c) ==
  /\ phase[c] = "gone"
  /\ phase' = [phase EXCEPT ![c] = "closed"]
  /\ total' = IF total > 0 THEN total - 1 ELSE total
  /\ byIP'  = [byIP EXCEPT ![ip[c]] = IF @ > 1 THEN @ - 1 ELSE 0]
  /\ UNCHANGED <<ip, state, tables, command, pollers, astray, raced>>

-----------------------------------------------------------------------------
(* Registration.  Each of these commands ends in tryAuthenticate, which is *)
(* the step Authenticate.                                                  *)

Authenticating(c) == command' = [command EXCEPT ![c] = [step |-> "auth"]]

CapReq(c) ==
  /\ Ready(c)
  /\ state[c].sasl = "off"
  /\ state' = [state EXCEPT ![c].sasl = "requested"]
  /\ UNCHANGED <<counts, tables, command, pollers, astray, raced>>

AuthenticatePlain(c) ==
  /\ Ready(c)
  /\ state[c].sasl = "requested"
  /\ state' = [state EXCEPT ![c].sasl = "awaiting"]
  /\ UNCHANGED <<counts, tables, command, pollers, astray, raced>>

(* An empty authorisation name stands for the nick.                        *)
AuthenticatePayload(c, u, pw) ==
  /\ Ready(c)
  /\ state[c].sasl = "awaiting"
  /\ state' = [state EXCEPT ![c].user = IF u = NoNick THEN state[c].nick ELSE u,
                            ![c].pass = pw, ![c].sasl = "requested"]
  /\ Authenticating(c)
  /\ UNCHANGED <<counts, tables, pollers, astray, raced>>

Pass(c, pw) ==
  /\ Ready(c)
  /\ ~state[c].registered
  /\ state' = [state EXCEPT ![c].pass = pw]
  /\ IF state[c].user # NoNick THEN Authenticating(c) ELSE UNCHANGED command
  /\ UNCHANGED <<counts, tables, pollers, astray, raced>>

User(c, u) ==
  /\ Ready(c)
  /\ ~state[c].registered
  /\ state' = [state EXCEPT ![c].user = u,
                            ![c].nick = IF @ = NoNick THEN u ELSE @]
  /\ Authenticating(c)
  /\ UNCHANGED <<counts, tables, pollers, astray, raced>>

(* The entry of the old nick goes first, whoever holds it.                 *)
WithoutOldNick(c) ==
  IF state[c].nick = NoNick THEN byNick
  ELSE [byNick EXCEPT ![state[c].nick] = NoConn]

Holds(reg, c) == \E n \in Nicks : reg[n] = c

(* Connections that had an entry and now have none.                        *)
Robbed == {c \in Conns : Holds(byNick, c) /\ ~Holds(byNick', c)}

(* Mutant: the old nick keeps its entry. *)
NickKeepsOld(c, n) ==
  /\ Ready(c)
  /\ byNick[n] \in {NoConn, c}
  /\ byNick' = [byNick EXCEPT ![n] = c]
  /\ state'  = [state EXCEPT ![c].nick = n]
  /\ command' = IF state[c].user # NoNick
                  THEN [command EXCEPT ![c] = [step |-> "auth"]] ELSE command
  /\ astray' = [d \in Conns |-> astray[d] \/ (d = c /\ state[c].room # NoRoom)]
  /\ UNCHANGED <<counts, peers, pollers, raced>>

NickInUse(c, n) ==
  /\ WithoutOldNick(c)[n] \notin {NoConn, c}
  /\ byNick' = WithoutOldNick(c)
  /\ astray' = [d \in Conns |-> astray[d] \/ d \in Robbed]
  /\ UNCHANGED <<state, command>>

NickTaken(c, n) ==
  /\ WithoutOldNick(c)[n] \in {NoConn, c}
  /\ byNick' = [WithoutOldNick(c) EXCEPT ![n] = c]
  /\ state'  = [state EXCEPT ![c].nick = n]
  /\ IF state[c].user # NoNick THEN Authenticating(c) ELSE UNCHANGED command
  /\ astray' = [d \in Conns |-> \/ astray[d] \/ d \in Robbed
                                \/ d = c /\ state[c].room # NoRoom]

Nick(c, n) ==
  /\ Ready(c)
  /\ NickInUse(c, n) \/ NickTaken(c, n)
  /\ UNCHANGED <<counts, peers, pollers, raced>>

Named(x) == [x EXCEPT !.nick = IF @ = NoNick THEN x.user ELSE @]

(* completeRegistration writes the registry without a look at who holds    *)
(* the nick.                                                               *)
Complete(c, x) ==
  IF x.registered
    THEN /\ state' = [state EXCEPT ![c] = x]
         /\ UNCHANGED <<byNick, astray>>
    ELSE /\ state'  = [state EXCEPT ![c] = [Named(x) EXCEPT !.registered = TRUE]]
         /\ byNick' = [byNick EXCEPT ![Named(x).nick] = c]
         /\ astray' = [d \in Conns |-> astray[d] \/ d \in Robbed]

Mismatch(x) == ~AllowAlias /\ x.nick # NoNick /\ x.nick # x.user

(* tryAuthenticate: registration without a password where none is          *)
(* required, else nothing until there is one; then the nick must be the    *)
(* account's and the password must open it.                                *)
Authenticate(c) ==
  LET x == state[c]
      y == [Named(x) EXCEPT !.authed = TRUE, !.oper = x.user \in Moderators]
  IN
  /\ command[c].step = "auth"
  /\ command' = [command EXCEPT ![c] = Idle]
  /\ CASE x.user # NoNick /\ x.pass = NoNick /\ ~RequirePass -> Complete(c, x)
       [] /\ x.user \in Accounts /\ x.pass = x.user /\ ~Mismatch(x) -> Complete(c, y)
       [] OTHER -> UNCHANGED <<state, byNick, astray>>
  /\ UNCHANGED <<counts, peers, pollers, raced>>

-----------------------------------------------------------------------------
(* Channels.  JOIN, PART and KICK end in setClientChannel: moveClient under *)
(* the mutex, then an update sent to the poller.                           *)

Moving(c, who, to) ==
  command' = [command EXCEPT ![c] = [step |-> "move", who |-> who, to |-> to]]

(* Mutant: a client need not have logged on. *)
JoinUnregistered(c, r) ==
  /\ Ready(c)
  /\ Moving(c, c, r)
  /\ UNCHANGED <<counts, state, tables, pollers, astray, raced>>

Join(c, r) ==
  /\ Ready(c)
  /\ state[c].authed
  /\ Moving(c, c, r)
  /\ UNCHANGED <<counts, state, tables, pollers, astray, raced>>

(* Whatever channel is named, the client leaves the one it is in.          *)
Part(c) ==
  /\ Ready(c)
  /\ state[c].authed
  /\ Moving(c, c, NoRoom)
  /\ UNCHANGED <<counts, state, tables, pollers, astray, raced>>

(* The target is looked up here and moved only later, from whatever channel *)
(* it is in by then.                                                       *)
Kick(c, n) ==
  /\ Ready(c)
  /\ state[c].authed /\ state[c].oper
  /\ byNick[n] # NoConn
  /\ Moving(c, byNick[n], NoRoom)
  /\ UNCHANGED <<counts, state, tables, pollers, astray, raced>>

TellPending(c) == \E d \in Conns : command[d].step = "tell" /\ command[d].who = c

(* Mutant: the old channel keeps its entry. *)
MoveKeepsPeer(c) ==
  LET who == command[c].who
      to  == command[c].to
  IN
  /\ command[c].step = "move"
  /\ peers' = IF to = NoRoom \/ state[who].nick = NoNick THEN peers
              ELSE [peers EXCEPT ![to][state[who].nick] = who]
  /\ state'   = [state EXCEPT ![who].room = to]
  /\ raced'   = [raced EXCEPT ![who] = @ \/ TellPending(who)]
  /\ command' = [command EXCEPT ![c].step = "tell"]
  /\ UNCHANGED <<counts, byNick, pollers, astray>>

(* moveClient: the client is looked for under the nick it has now.         *)
Move(c) ==
  LET who == command[c].who
      to  == command[c].to
      n   == state[who].nick
      out == Unpeer(state[who].room, n)
  IN
  /\ command[c].step = "move"
  /\ peers'   = IF to = NoRoom THEN out ELSE [out EXCEPT ![to][n] = who]
  /\ state'   = [state EXCEPT ![who].room = to]
  /\ raced'   = [raced EXCEPT ![who] = @ \/ TellPending(who)]
  /\ command' = [command EXCEPT ![c].step = "tell"]
  /\ UNCHANGED <<counts, byNick, pollers, astray>>

(* The update is sent without the mutex, and dropped when linePoll is full. *)
Tell(c) ==
  LET who  == command[c].who
      full == Len(line[who]) >= LineCap
  IN
  /\ command[c].step = "tell"
  /\ line'    = IF full \/ phase[who] # "open" THEN line
                 ELSE [line EXCEPT ![who] = Append(@, command[c].to)]
  /\ raced'   = [raced EXCEPT ![who] = @ \/ full]
  /\ command' = [command EXCEPT ![c] = Idle]
  /\ UNCHANGED <<counts, state, tables, reading, astray>>

(* Mutant: the poller skips what it finds stale and keeps its channel. *)
PollerUpdateSkips(c) ==
  /\ phase[c] = "open"
  /\ line[c] # <<>>
  /\ line'    = [line EXCEPT ![c] = Tail(@)]
  /\ reading' = IF Head(line[c]) = NoRoom THEN reading
                ELSE [reading EXCEPT ![c] = Head(line[c])]
  /\ UNCHANGED <<counts, state, tables, command, astray, raced>>

(* case ch := <-channelUpdate in startChatPoller.                          *)
PollerUpdate(c) ==
  /\ phase[c] = "open"
  /\ line[c] # <<>>
  /\ line'    = [line EXCEPT ![c] = Tail(@)]
  /\ reading' = [reading EXCEPT ![c] = Head(line[c])]
  /\ UNCHANGED <<counts, state, tables, command, astray, raced>>

-----------------------------------------------------------------------------
Registration(c) ==
  \/ CapReq(c) \/ AuthenticatePlain(c) \/ Authenticate(c)
  \/ \E n \in Nicks : User(c, n) \/ Pass(c, n) \/ Nick(c, n)
  \/ \E u \in Nicks \cup {NoNick}, pw \in Nicks \cup {NoNick} :
       AuthenticatePayload(c, u, pw)

Channel(c) ==
  \/ Part(c) \/ Move(c) \/ Tell(c) \/ PollerUpdate(c)
  \/ \E r \in Rooms : Join(c, r)
  \/ \E n \in Nicks : Kick(c, n)

Connection(c) == Accept(c) \/ HangUp(c) \/ Unregister(c) \/ Release(c)

Next == \E c \in Conns : Connection(c) \/ Registration(c) \/ Channel(c)

Spec == Init /\ [][Next]_vars

-----------------------------------------------------------------------------
(* Properties.                                                             *)

MaybeNick == Nicks \cup {NoNick}

MaybeRoom == Rooms \cup {NoRoom}

(* Type invariant: a channel is indexed by nicks and never by the empty    *)
(* one, only a client with a nick is registered or moved, and the channel  *)
(* to the poller is never over capacity.                                   *)
TypeOK ==
  /\ total \in Nat
  /\ byIP  \in [IPs -> Nat]
  /\ phase \in [Conns -> {"new", "open", "done", "gone", "closed"}]
  /\ ip    \in [Conns -> IPs]
  /\ state \in [Conns -> [nick : MaybeNick, user : MaybeNick, pass : MaybeNick,
                          sasl : {"off", "requested", "awaiting"},
                          authed : BOOLEAN, registered : BOOLEAN, oper : BOOLEAN,
                          room : MaybeRoom]]
  /\ byNick  \in [Nicks -> Conns \cup {NoConn}]
  /\ peers   \in [Rooms -> [Nicks -> Conns \cup {NoConn}]]
  /\ command \in [Conns -> {Idle, [step |-> "auth"]}
                   \cup [step : {"move", "tell"}, who : Conns, to : MaybeRoom]]
  /\ line    \in [Conns -> Seq(MaybeRoom)]
  /\ reading \in [Conns -> MaybeRoom]
  /\ astray  \in [Conns -> BOOLEAN]
  /\ raced   \in [Conns -> BOOLEAN]
  /\ \A c \in Conns :
       /\ Len(line[c]) <= LineCap
       /\ state[c].authed => state[c].nick # NoNick
       /\ command[c].step \in {"move", "tell"} =>
            state[command[c].who].nick # NoNick

Counted == {c \in Conns : phase[c] \in {"open", "done", "gone"}}

(* Every accepted connection is counted once until it is released, in all  *)
(* and for its address, so neither cap is ever exceeded and no refusal     *)
(* outlives the connections that caused it.                                *)
ConnectionsCounted ==
  /\ total = Cardinality(Counted)
  /\ \A i \in IPs : byIP[i] = Cardinality({c \in Counted : ip[c] = i})
  /\ total <= MaxConn
  /\ \A i \in IPs : byIP[i] <= MaxPerIP

(* Whom the registry names for a nick (direct messages, WHOIS, KICK) is a  *)
(* connection not yet unregistered that goes by that nick; so nobody is    *)
(* ever registered under two nicks, however nicks were changed, refused or *)
(* overwritten on the way.                                                 *)
RegistryNamesLiveClients ==
  \A n \in Nicks : byNick[n] # NoConn =>
    /\ state[byNick[n]].nick = n
    /\ phase[byNick[n]] \in {"open", "done"}

(* A channel only broadcasts to a connection under its own nick, while it  *)
(* is in that channel and connected, except for one that changed its nick  *)
(* inside a channel or whose entry in the registry somebody else took:     *)
(* nothing else leaves a ghost in channelPeers.                            *)
GhostsHaveACause ==
  \A r \in Rooms, n \in Nicks :
    LET c == peers[r][n] IN
    (c # NoConn /\ ~astray[c]) =>
      /\ state[c].nick = n
      /\ state[c].room = r
      /\ phase[c] \in {"open", "done"}

(* The poller ends up reading the channel the client is in: once every     *)
(* update is sent and taken, the two agree, unless an update was dropped   *)
(* or a JOIN and a KICK of the same client crossed.                        *)
PollerFollowsClient ==
  \A c \in Conns :
    (phase[c] = "open" /\ ~raced[c] /\ ~TellPending(c)) =>
      state[c].room = IF line[c] = <<>> THEN reading[c] ELSE line[c][Len(line[c])]

=============================================================================
