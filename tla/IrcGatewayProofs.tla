-------------------------- MODULE IrcGatewayProofs --------------------------
(***************************************************************************)
(* Proofs about IrcGateway, for any connections, addresses, nicks and      *)
(* rooms: the types, the connection counts, the registry of nicks, the     *)
(* members of channels and the channel each poller reads.                  *)
(***************************************************************************)
EXTENDS IrcGateway, FiniteSetTheorems, SequenceTheorems, TLAPS

States == [nick : MaybeNick, user : MaybeNick, pass : MaybeNick,
           sasl : {"off", "requested", "awaiting"},
           authed : BOOLEAN, registered : BOOLEAN, oper : BOOLEAN,
           room : MaybeRoom]

MovingCommands == [step : {"move", "tell"}, who : Conns, to : MaybeRoom]

Auth == [step |-> "auth"]

Commands == {Idle, Auth} \cup MovingCommands

Phases == {"new", "open", "done", "gone", "closed"}

Typed ==
  /\ total   \in Nat
  /\ byIP    \in [IPs -> Nat]
  /\ phase   \in [Conns -> Phases]
  /\ ip      \in [Conns -> IPs]
  /\ state   \in [Conns -> States]
  /\ byNick  \in [Nicks -> Conns \cup {NoConn}]
  /\ peers   \in [Rooms -> [Nicks -> Conns \cup {NoConn}]]
  /\ command \in [Conns -> Commands]
  /\ line    \in [Conns -> Seq(MaybeRoom)]
  /\ reading \in [Conns -> MaybeRoom]
  /\ astray  \in [Conns -> BOOLEAN]
  /\ raced   \in [Conns -> BOOLEAN]

LinesFit == \A c \in Conns : Len(line[c]) <= LineCap

(* Who is registered or logged on has a nick.                              *)
Registered ==
  \A c \in Conns : /\ state[c].authed => state[c].registered
                   /\ state[c].registered => state[c].nick # NoNick

(* A goroutine in a command has its connection open; whom it moves has a   *)
(* nick and has been connected; and only a client that has logged on is    *)
(* moved into a channel, by its own JOIN.                                  *)
CommandsMakeSense ==
  \A c \in Conns :
    /\ command[c] # Idle => phase[c] = "open"
    /\ command[c] \in MovingCommands =>
         /\ state[command[c].who].nick # NoNick
         /\ phase[command[c].who] # "new"
         /\ (command[c].step = "move" /\ command[c].to # NoRoom) =>
              command[c].who = c /\ state[c].authed

(* Only who is connected is registered.                                    *)
RegisteredIsOpen == \A c \in Conns : state[c].registered => phase[c] = "open"

Listed(c) == state[c].nick \in Nicks /\ byNick[state[c].nick] = c

(* A client that did not go astray is only in the table of its channel,    *)
(* and when it is there, or registered, it is found under its nick.        *)
Member(c) ==
  ~astray[c] =>
    /\ \A r \in Rooms, n \in Nicks : peers[r][n] = c =>
         /\ state[c].nick = n /\ state[c].room = r
         /\ phase[c] \in {"open", "done"}
    /\ (state[c].registered \/ \E r \in Rooms, n \in Nicks : peers[r][n] = c)
         => Listed(c)

Members == \A c \in Conns : Member(c)

(* An update not yet sent to the poller of c.                              *)
Telling(d, c) == command[d].step = "tell" /\ command[d].who = c

LastRead(c) == IF line[c] = <<>> THEN reading[c] ELSE line[c][Len(line[c])]

(* The one update there may be names the channel the client is in; when    *)
(* there is none the last one sent does.                                   *)
Followed(c) ==
  (phase[c] = "open" /\ ~raced[c]) =>
    /\ \A d \in Conns : Telling(d, c) => command[d].to = state[c].room
    /\ \A d, e \in Conns : Telling(d, c) /\ Telling(e, c) => d = e
    /\ (\A d \in Conns : ~Telling(d, c)) => state[c].room = LastRead(c)

AllFollowed == \A c \in Conns : Followed(c)

-----------------------------------------------------------------------------
(* Constants and values that the steps are made of.                        *)
LEMMA Values ==
  /\ NoNick \notin Nicks /\ NoConn \notin Conns /\ NoRoom \notin Rooms
  /\ Fresh \in States /\ Fresh.nick = NoNick /\ Fresh.room = NoRoom
  /\ ~Fresh.authed /\ ~Fresh.registered
  /\ Idle \in Commands /\ Auth \in Commands
  /\ Idle \notin MovingCommands /\ Auth \notin MovingCommands /\ Idle # Auth
  BY IrcConstants DEF Fresh, Idle, Auth, States, Commands, MovingCommands,
                      MaybeNick, MaybeRoom

(* A move ordered is a command.                                            *)
LEMMA MoveTyped ==
  ASSUME NEW who \in Conns, NEW to \in MaybeRoom
  PROVE  LET m == [step |-> "move", who |-> who, to |-> to]
         IN  m \in MovingCommands /\ m \in Commands /\ m # Idle
  BY DEF MovingCommands, Commands, Idle

(* What the step of a command says of it.                                  *)
LEMMA CommandSteps ==
  ASSUME NEW m \in Commands
  PROVE  /\ m.step = "auth" => m = Auth
         /\ m.step \in {"move", "tell"} => m \in MovingCommands /\ m # Idle
         /\ m \in MovingCommands => m.who \in Conns /\ m.to \in MaybeRoom
  BY DEF Commands, MovingCommands, Auth, Idle

-----------------------------------------------------------------------------
(* Types.                                                                  *)

LEMMA InitTyped == Init => Typed
  BY Values DEF Init, Typed, Phases, MaybeRoom

(* A client without a nick takes the name it authenticates with.           *)
LEMMA NamedState ==
  ASSUME NEW x \in States, x.user # NoNick
  PROVE  /\ Named(x) \in States
         /\ Named(x).nick \in Nicks
         /\ x.nick # NoNick => Named(x).nick = x.nick
         /\ Named(x).room = x.room /\ Named(x).registered = x.registered
         /\ Named(x).authed = x.authed
  BY DEF Named, States, MaybeNick

(* What completing a registration, with x for the state of c, does to it.  *)
LEMMA CompleteState ==
  ASSUME Typed, Registered, NEW c \in Conns, NEW x \in States, x.user # NoNick,
         x.room = state[c].room, state[c].registered = x.registered,
         x.registered => x.nick = state[c].nick,
         state[c].nick # NoNick => x.nick = state[c].nick,
         Complete(c, x)
  PROVE  /\ state' \in [Conns -> States]
         /\ \A d \in Conns \ {c} : state'[d] = state[d]
         /\ state'[c].room = state[c].room
         /\ state[c].nick # NoNick => state'[c].nick = state[c].nick
         /\ state'[c].nick \in Nicks /\ state'[c].registered
         /\ x.authed => state'[c].authed
         /\ \/ state[c].registered /\ UNCHANGED <<byNick, astray>>
            \/ /\ byNick' = [byNick EXCEPT ![state'[c].nick] = c]
               /\ astray' = [d \in Conns |-> astray[d] \/ d \in Robbed]
<1>1. CASE x.registered
  <2>1. state' = [state EXCEPT ![c] = x] /\ UNCHANGED <<byNick, astray>>
    BY <1>1 DEF Complete
  <2>2. state'[c] = x /\ x.nick \in Nicks
    BY <1>1, <2>1 DEF Typed, Registered, States, MaybeNick
  <2>. QED
    BY <1>1, <2>1, <2>2 DEF Typed
<1>2. CASE ~x.registered
  <2>. DEFINE y == Named(x)
              z == [y EXCEPT !.registered = TRUE]
  <2>1. /\ y \in States /\ y.nick \in Nicks /\ y.room = x.room /\ y.authed = x.authed
        /\ x.nick # NoNick => y.nick = x.nick
    BY NamedState
  <2>2. /\ state'  = [state EXCEPT ![c] = z]
        /\ byNick' = [byNick EXCEPT ![y.nick] = c]
        /\ astray' = [d \in Conns |-> astray[d] \/ d \in Robbed]
    BY <1>2 DEF Complete
  <2>. HIDE DEF y
  <2>3. /\ z \in States /\ z.nick = y.nick /\ z.room = y.room /\ z.authed = y.authed
        /\ z.registered
    BY <2>1 DEF States
  <2>. HIDE DEF z
  <2>4. state'[c] = z /\ \A d \in Conns \ {c} : state'[d] = state[d]
    BY <2>2 DEF Typed
  <2>. QED
    BY <2>1, <2>2, <2>3, <2>4 DEF Typed
<1>. QED
  BY <1>1, <1>2 DEF States

(* What the authentication of c does: nothing to the tables, or it is      *)
(* registered and, if it was not, takes its entry.                         *)
LEMMA AuthenticateState ==
  ASSUME Typed, Registered, NEW c \in Conns, Authenticate(c)
  PROVE  \/ UNCHANGED <<state, byNick, astray>>
         \/ /\ state' \in [Conns -> States]
            /\ \A d \in Conns \ {c} : state'[d] = state[d]
            /\ state'[c].room = state[c].room
            /\ state[c].nick # NoNick => state'[c].nick = state[c].nick
            /\ state'[c].nick \in Nicks /\ state'[c].registered
            /\ state[c].authed => state'[c].authed
            /\ \/ state[c].registered /\ UNCHANGED <<byNick, astray>>
               \/ /\ byNick' = [byNick EXCEPT ![state'[c].nick] = c]
                  /\ astray' = [d \in Conns |-> astray[d] \/ d \in Robbed]
<1>. DEFINE x == state[c]
            w == Named(x)
            v == [w EXCEPT !.authed = TRUE]
            y == [v EXCEPT !.oper = x.user \in Moderators]
<1>0. x \in States
  BY DEF Typed
<1>1. CASE x.user # NoNick /\ Complete(c, x)
  BY <1>0, <1>1, CompleteState
<1>2. CASE x.user \in Accounts /\ Complete(c, y)
  <2>1. x.user # NoNick
    BY <1>2, IrcConstants
  <2>2. /\ w \in States /\ w.nick \in Nicks /\ w.room = x.room
        /\ w.registered = x.registered
        /\ x.nick # NoNick => w.nick = x.nick
        /\ w.user = x.user
    BY <1>0, <2>1, NamedState DEF Named, States
  <2>. HIDE DEF w
  <2>3. /\ v \in States /\ v.authed /\ v.nick = w.nick /\ v.room = w.room
        /\ v.registered = w.registered /\ v.user = w.user
    BY <2>2 DEF States
  <2>. HIDE DEF v
  <2>4. /\ y \in States /\ y.authed /\ y.nick = w.nick /\ y.room = w.room
        /\ y.registered = w.registered /\ y.user = w.user
    <3>1. \A b \in BOOLEAN : LET u == [v EXCEPT !.oper = b] IN
            /\ u \in States /\ u.authed = v.authed /\ u.nick = v.nick /\ u.room = v.room
            /\ u.registered = v.registered /\ u.user = v.user
      BY <2>3 DEF States
    <3>2. (x.user \in Moderators) \in BOOLEAN
      OBVIOUS
    <3>. QED
      BY <2>3, <3>1, <3>2
  <2>5. x.registered => x.nick # NoNick
    BY DEF Registered
  <2>. HIDE DEF y
  <2>. QED
    BY <1>0, <1>2, <2>1, <2>2, <2>4, <2>5, CompleteState
<1>3. CASE UNCHANGED <<state, byNick, astray>>
  BY <1>3
<1>. QED
  BY <1>1, <1>2, <1>3 DEF Authenticate

(* The commands that only prepare a registration.                          *)
Preparing(c) ==
  \/ CapReq(c) \/ AuthenticatePlain(c)
  \/ \E n \in Nicks : User(c, n) \/ Pass(c, n)
  \/ \E u \in Nicks \cup {NoNick}, pw \in Nicks \cup {NoNick} :
       AuthenticatePayload(c, u, pw)

(* The state of c, and of nobody else, changes, and not in what the tables *)
(* depend on.                                                              *)
SameStanding(c) ==
  /\ state' \in [Conns -> States]
  /\ \A d \in Conns \ {c} : state'[d] = state[d]
  /\ state'[c].room = state[c].room
  /\ state'[c].authed = state[c].authed
  /\ state'[c].registered = state[c].registered
  /\ state[c].nick # NoNick => state'[c].nick = state[c].nick

LEMMA SameStandingBy ==
  ASSUME Typed, NEW c \in Conns, NEW s \in States, state' = [state EXCEPT ![c] = s],
         s.room = state[c].room, s.authed = state[c].authed,
         s.registered = state[c].registered,
         state[c].nick # NoNick => s.nick = state[c].nick
  PROVE  SameStanding(c)
  BY DEF SameStanding, Typed

LEMMA PreparingState ==
  ASSUME Typed, NEW c \in Conns, Preparing(c)
  PROVE  /\ SameStanding(c) /\ Ready(c)
         /\ command' = command \/ command' = [command EXCEPT ![c] = Auth]
         /\ UNCHANGED <<counts, tables, pollers, astray, raced>>
<1>0. state[c] \in States
  BY DEF Typed
<1>1. CASE CapReq(c)
  <2>. DEFINE s == [state[c] EXCEPT !.sasl = "requested"]
  <2>1. s \in States /\ s.room = state[c].room /\ s.authed = state[c].authed
        /\ s.registered = state[c].registered /\ s.nick = state[c].nick
    BY <1>0 DEF States
  <2>2. state' = [state EXCEPT ![c] = s]
    BY <1>1 DEF CapReq, Typed
  <2>. QED
    BY <1>1, <2>1, <2>2, SameStandingBy DEF CapReq
<1>2. CASE AuthenticatePlain(c)
  <2>. DEFINE s == [state[c] EXCEPT !.sasl = "awaiting"]
  <2>1. s \in States /\ s.room = state[c].room /\ s.authed = state[c].authed
        /\ s.registered = state[c].registered /\ s.nick = state[c].nick
    BY <1>0 DEF States
  <2>2. state' = [state EXCEPT ![c] = s]
    BY <1>2 DEF AuthenticatePlain, Typed
  <2>. QED
    BY <1>2, <2>1, <2>2, SameStandingBy DEF AuthenticatePlain
<1>3. ASSUME NEW n \in Nicks, User(c, n)
      PROVE  SameStanding(c)
  <2>. DEFINE m == IF state[c].nick = NoNick THEN n ELSE state[c].nick
              t == [state[c] EXCEPT !.user = n]
              s == [t EXCEPT !.nick = m]
  <2>0. n \in MaybeNick /\ m \in MaybeNick
    BY <1>0 DEF MaybeNick, States
  <2>1. t \in States /\ t.room = state[c].room /\ t.authed = state[c].authed
        /\ t.registered = state[c].registered /\ t.nick = state[c].nick
    BY <1>0, <2>0 DEF States
  <2>2. state' = [state EXCEPT ![c] = s]
    BY <1>3 DEF User, Typed, States
  <2>3. state[c].nick # NoNick => m = state[c].nick
    OBVIOUS
  <2>. HIDE DEF t, m
  <2>4. s \in States /\ s.room = t.room /\ s.authed = t.authed
        /\ s.registered = t.registered /\ s.nick = m
    BY <2>0, <2>1 DEF States
  <2>. HIDE DEF s
  <2>. QED
    BY <2>1, <2>2, <2>3, <2>4, SameStandingBy
<1>4. ASSUME NEW n \in Nicks, Pass(c, n)
      PROVE  SameStanding(c)
  <2>. DEFINE s == [state[c] EXCEPT !.pass = n]
  <2>1. s \in States /\ s.room = state[c].room /\ s.authed = state[c].authed
        /\ s.registered = state[c].registered /\ s.nick = state[c].nick
    BY <1>0 DEF States, MaybeNick
  <2>2. state' = [state EXCEPT ![c] = s]
    BY <1>4 DEF Pass, Typed
  <2>. QED
    BY <2>1, <2>2, SameStandingBy
<1>5. ASSUME NEW u \in MaybeNick, NEW pw \in MaybeNick, AuthenticatePayload(c, u, pw)
      PROVE  SameStanding(c)
  <2>. DEFINE m == IF u = NoNick THEN state[c].nick ELSE u
              r == [state[c] EXCEPT !.user = m]
              t == [r EXCEPT !.pass = pw]
              s == [t EXCEPT !.sasl = "requested"]
  <2>0. m \in MaybeNick
    BY <1>0 DEF MaybeNick, States
  <2>2. state' = [state EXCEPT ![c] = s]
    BY <1>5 DEF AuthenticatePayload, Typed, States
  <2>. HIDE DEF m
  <2>3. r \in States /\ r.room = state[c].room /\ r.authed = state[c].authed
        /\ r.registered = state[c].registered /\ r.nick = state[c].nick
    BY <1>0, <2>0 DEF States
  <2>. HIDE DEF r
  <2>4. t \in States /\ t.room = r.room /\ t.authed = r.authed
        /\ t.registered = r.registered /\ t.nick = r.nick
    BY <2>3 DEF States
  <2>. HIDE DEF t
  <2>5. s \in States /\ s.room = t.room /\ s.authed = t.authed
        /\ s.registered = t.registered /\ s.nick = t.nick
    BY <2>4 DEF States
  <2>. HIDE DEF s
  <2>. QED
    BY <2>2, <2>3, <2>4, <2>5, SameStandingBy
<1>6. SameStanding(c)
  BY <1>1, <1>2, <1>3, <1>4, <1>5 DEF Preparing, MaybeNick
<1>. QED
  BY <1>6 DEF Preparing, CapReq, AuthenticatePlain, User, Pass, AuthenticatePayload,
              Authenticating, Auth

(* A change of nick, refused or granted.                                   *)
LEMMA NickState ==
  ASSUME Typed, NEW c \in Conns, NEW n \in Nicks, Nick(c, n)
  PROVE  /\ Ready(c)
         /\ UNCHANGED <<counts, peers, pollers, raced>>
         /\ command' = command \/ command' = [command EXCEPT ![c] = Auth]
         /\ state' \in [Conns -> States]
         /\ \A d \in Conns \ {c} : state'[d] = state[d]
         /\ state'[c].room = state[c].room
         /\ state'[c].authed = state[c].authed
         /\ state'[c].registered = state[c].registered
         /\ state[c].nick # NoNick => state'[c].nick # NoNick
         /\ \/ /\ state' = state
               /\ byNick' = WithoutOldNick(c)
               /\ astray' = [d \in Conns |-> astray[d] \/ d \in Robbed]
            \/ /\ state'[c].nick = n
               /\ WithoutOldNick(c)[n] \in {NoConn, c}
               /\ byNick' = [WithoutOldNick(c) EXCEPT ![n] = c]
               /\ astray' = [d \in Conns |-> \/ astray[d] \/ d \in Robbed
                                             \/ d = c /\ state[c].room # NoRoom]
<1>1. Ready(c) /\ UNCHANGED <<counts, peers, pollers, raced>>
  BY DEF Nick
<1>2. CASE NickInUse(c, n)
  BY <1>1, <1>2 DEF NickInUse, Typed
<1>3. CASE NickTaken(c, n)
  <2>. DEFINE s == [state[c] EXCEPT !.nick = n]
  <2>0. state[c] \in States /\ n \in MaybeNick
    BY DEF MaybeNick, Typed
  <2>1. s \in States /\ s.room = state[c].room /\ s.authed = state[c].authed
        /\ s.registered = state[c].registered /\ s.nick = n
    BY <2>0 DEF States
  <2>2. state' = [state EXCEPT ![c] = s]
    BY <1>3 DEF NickTaken, Typed
  <2>3. /\ state' \in [Conns -> States] /\ state'[c] = s
        /\ \A d \in Conns \ {c} : state'[d] = state[d]
    BY <2>1, <2>2 DEF Typed
  <2>. HIDE DEF s
  <2>4. n # NoNick
    BY Values
  <2>5. command' = command \/ command' = [command EXCEPT ![c] = Auth]
    BY <1>3 DEF NickTaken, Authenticating, Auth
  <2>. QED
    BY <1>1, <1>3, <2>1, <2>3, <2>4, <2>5 DEF NickTaken
<1>. QED
  BY <1>2, <1>3 DEF Nick

(* One client's channel changes.                                           *)
LEMMA MoveState ==
  ASSUME Typed, NEW c \in Conns, Move(c)
  PROVE  LET who == command[c].who
             to  == command[c].to
             n   == state[who].nick
         IN  /\ command[c] \in MovingCommands /\ who \in Conns /\ to \in MaybeRoom
             /\ state' \in [Conns -> States]
             /\ \A d \in Conns \ {who} : state'[d] = state[d]
             /\ state'[who].room = to
             /\ \A d \in Conns : /\ state'[d].nick = state[d].nick
                                 /\ state'[d].authed = state[d].authed
                                 /\ state'[d].registered = state[d].registered
             /\ command' \in [Conns -> Commands]
             /\ \A d \in Conns \ {c} : command'[d] = command[d]
             /\ command'[c] \in MovingCommands /\ command'[c].step = "tell"
             /\ command'[c].who = who /\ command'[c].to = to
<1>. DEFINE who == command[c].who
            to  == command[c].to
            s   == [state[who] EXCEPT !.room = to]
            m   == [command[c] EXCEPT !.step = "tell"]
<1>1. command[c] \in MovingCommands /\ who \in Conns /\ to \in MaybeRoom
  BY CommandSteps DEF Move, Typed
<1>2. state[who] \in States
  BY <1>1 DEF Typed
<1>3. /\ s \in States /\ s.room = to /\ s.nick = state[who].nick
      /\ s.authed = state[who].authed /\ s.registered = state[who].registered
  BY <1>1, <1>2 DEF States
<1>4. /\ m \in MovingCommands /\ m.step = "tell" /\ m.who = who /\ m.to = to
  BY <1>1 DEF MovingCommands
<1>5. state' = [state EXCEPT ![who] = s] /\ command' = [command EXCEPT ![c] = m]
  BY <1>1 DEF Move, Typed
<1>6. m \in Commands
  BY <1>4 DEF Commands
<1>. HIDE DEF s, m
<1>7. /\ state' \in [Conns -> States] /\ state'[who] = s
      /\ \A d \in Conns \ {who} : state'[d] = state[d]
  BY <1>1, <1>3, <1>5 DEF Typed
<1>8. /\ command' \in [Conns -> Commands] /\ command'[c] = m
      /\ \A d \in Conns \ {c} : command'[d] = command[d]
  BY <1>5, <1>6 DEF Typed
<1>. QED
  BY <1>1, <1>3, <1>4, <1>7, <1>8

(* A hang-up keeps the nick and the channel, and ends the registration.    *)
LEMMA HangUpState ==
  ASSUME Typed, NEW c \in Conns, HangUp(c)
  PROVE  /\ state' \in [Conns -> States]
         /\ \A d \in Conns \ {c} : state'[d] = state[d]
         /\ state'[c].nick = state[c].nick /\ state'[c].room = state[c].room
         /\ ~state'[c].authed /\ ~state'[c].registered
<1>. DEFINE t == [Fresh EXCEPT !.nick = state[c].nick]
            s == [t EXCEPT !.room = state[c].room]
<1>1. t \in States /\ t.nick = state[c].nick /\ ~t.authed /\ ~t.registered
  BY Values DEF Typed, States
<1>2. state' = [state EXCEPT ![c] = s]
  BY DEF HangUp
<1>. HIDE DEF t
<1>3. /\ s \in States /\ s.nick = t.nick /\ s.room = state[c].room
      /\ s.authed = t.authed /\ s.registered = t.registered
  BY <1>1 DEF Typed, States
<1>. HIDE DEF s
<1>. QED
  BY <1>1, <1>2, <1>3 DEF Typed

(* JOIN, PART and KICK.                                                    *)
Ordering(c) == Part(c) \/ (\E r \in Rooms : Join(c, r)) \/ (\E n \in Nicks : Kick(c, n))

LEMMA OrderState ==
  ASSUME Typed, Registered, RegistryNamesLiveClients, NEW c \in Conns, Ordering(c)
  PROVE  /\ Ready(c)
         /\ UNCHANGED <<counts, state, tables, pollers, astray, raced>>
         /\ \E who \in Conns, to \in MaybeRoom :
              /\ command' = [command EXCEPT ![c] =
                               [step |-> "move", who |-> who, to |-> to]]
              /\ state[who].nick # NoNick
              /\ phase[who] # "new"
              /\ to # NoRoom => who = c /\ state[c].authed
<1>1. CASE Part(c)
  BY <1>1 DEF Part, Moving, MaybeRoom, Ready, Registered
<1>2. ASSUME NEW r \in Rooms, Join(c, r)
      PROVE  Moving(c, c, r) /\ state[c].authed /\ Ready(c)
  BY <1>2 DEF Join
<1>3. CASE \E r \in Rooms : Join(c, r)
  BY <1>2, <1>3 DEF Join, Moving, MaybeRoom, Ready, Registered
<1>4. CASE \E n \in Nicks : Kick(c, n)
  <2>1. PICK n \in Nicks : Kick(c, n)
    BY <1>4
  <2>2. byNick[n] \in Conns /\ state[byNick[n]].nick = n /\ phase[byNick[n]] # "new"
    BY <2>1 DEF Kick, RegistryNamesLiveClients, Typed
  <2>3. n # NoNick
    BY Values
  <2>. QED
    BY <2>1, <2>2, <2>3 DEF Kick, Moving, MaybeRoom
<1>. QED
  BY <1>1, <1>3, <1>4 DEF Ordering

(* The kinds of step.                                                      *)
Step(c) ==
  \/ Accept(c) \/ HangUp(c) \/ Unregister(c) \/ Release(c)
  \/ Preparing(c) \/ Authenticate(c) \/ \E n \in Nicks : Nick(c, n)
  \/ Ordering(c) \/ Move(c) \/ Tell(c) \/ PollerUpdate(c)

LEMMA Steps ==
  ASSUME Next
  PROVE  \E c \in Conns : Step(c)
  BY DEF Step, Next, Connection, Registration, Channel, Preparing, Ordering

-----------------------------------------------------------------------------
(* What a connection not yet accepted is like.                             *)
NewIsFresh ==
  \A c \in Conns : phase[c] = "new" =>
    state[c].room = NoRoom /\ line[c] = <<>> /\ reading[c] = NoRoom

Basics == Typed /\ Registered /\ CommandsMakeSense /\ NewIsFresh /\ RegistryNamesLiveClients

LEMMA TypedStep ==
  ASSUME Basics, NEW c \in Conns, Step(c)
  PROVE  Typed'
<1>0. Typed
  BY DEF Basics
<1>. USE DEF counts, tables, pollers
<1>1. CASE Accept(c)
  <2>1. ip[c] \in IPs /\ byIP[ip[c]] \in Nat
    BY <1>0 DEF Typed
  <2>2. phase' \in [Conns -> Phases]
    <3>1. \E p \in Phases : phase' = [phase EXCEPT ![c] = p]
      BY <1>1 DEF Accept, Phases
    <3>. QED
      BY <1>0, <3>1 DEF Typed
  <2>3. total' \in Nat /\ byIP' \in [IPs -> Nat]
    <3>1. CASE Refused(ip[c])
      BY <1>0, <1>1, <3>1 DEF Accept, Typed
    <3>2. CASE ~Refused(ip[c])
      <4>1. total' = total + 1 /\ byIP' = [byIP EXCEPT ![ip[c]] = byIP[ip[c]] + 1]
        BY <1>1, <3>2 DEF Accept
      <4>. QED
        BY <1>0, <2>1, <4>1 DEF Typed
    <3>. QED
      BY <3>1, <3>2
  <2>. QED
    BY <1>0, <1>1, <2>2, <2>3 DEF Accept, Typed
<1>2. CASE HangUp(c)
  <2>1. state' \in [Conns -> States]
    BY <1>0, <1>2, HangUpState
  <2>. QED
    BY <1>0, <1>2, <2>1 DEF HangUp, Typed, Phases, MaybeRoom
<1>3. CASE Unregister(c)
  <2>1. Unpeer(state[c].room, state[c].nick) \in [Rooms -> [Nicks -> Conns \cup {NoConn}]]
    BY <1>0 DEF Unpeer, Typed
  <2>. QED
    BY <1>0, <1>3, <2>1 DEF Unregister, Typed, Phases
<1>4. CASE Release(c)
  BY <1>0, <1>4 DEF Release, Typed, Phases
<1>5. CASE Preparing(c)
  <2>1. state' \in [Conns -> States] /\ UNCHANGED <<counts, tables, pollers, astray, raced>>
    BY <1>0, <1>5, PreparingState DEF SameStanding
  <2>2. command' = command \/ command' = [command EXCEPT ![c] = Auth]
    BY <1>0, <1>5, PreparingState
  <2>3. command' \in [Conns -> Commands]
    BY <1>0, <2>2, Values DEF Typed
  <2>. QED
    BY <1>0, <2>1, <2>3 DEF Typed
<1>6. CASE Authenticate(c)
  <2>1. UNCHANGED <<counts, peers, pollers, raced>> /\ command' \in [Conns -> Commands]
    BY <1>0, <1>6, Values DEF Authenticate, Typed
  <2>2. CASE UNCHANGED <<state, byNick, astray>>
    BY <1>0, <2>1, <2>2 DEF Typed
  <2>3. CASE /\ state' \in [Conns -> States]
             /\ byNick' = [byNick EXCEPT ![state'[c].nick] = c]
             /\ astray' = [d \in Conns |-> astray[d] \/ d \in Robbed]
    BY <1>0, <2>1, <2>3 DEF Typed
  <2>4. CASE state' \in [Conns -> States] /\ UNCHANGED <<byNick, astray>>
    BY <1>0, <2>1, <2>4 DEF Typed
  <2>. HIDE DEF counts, tables, pollers
  <2>. QED
    BY <1>0, <1>6, <2>2, <2>3, <2>4, AuthenticateState DEF Basics
<1>7. ASSUME NEW n \in Nicks, Nick(c, n)
      PROVE  Typed'
  <2>. HIDE DEF counts, tables, pollers
  <2>1. WithoutOldNick(c) \in [Nicks -> Conns \cup {NoConn}]
    BY <1>0 DEF WithoutOldNick, Typed
  <2>2. /\ UNCHANGED <<counts, peers, pollers, raced>>
        /\ command' = command \/ command' = [command EXCEPT ![c] = Auth]
        /\ state' \in [Conns -> States]
    BY <1>0, <1>7, NickState
  <2>3. /\ byNick' \in [Nicks -> Conns \cup {NoConn}]
        /\ astray' \in [Conns -> BOOLEAN]
    <3>1. CASE NickInUse(c, n)
      BY <1>0, <2>1, <3>1 DEF NickInUse, Typed
    <3>2. CASE NickTaken(c, n)
      BY <1>0, <2>1, <3>2 DEF NickTaken, Typed
    <3>. QED
      BY <1>7, <3>1, <3>2 DEF Nick
  <2>4. command' \in [Conns -> Commands]
    BY <1>0, <2>2, Values DEF Typed
  <2>. QED
    BY <1>0, <2>2, <2>3, <2>4 DEF Typed, counts, pollers
<1>8. CASE Ordering(c)
  <2>. HIDE DEF counts, tables, pollers
  <2>0. PICK who \in Conns, to \in MaybeRoom :
          command' = [command EXCEPT ![c] = [step |-> "move", who |-> who, to |-> to]]
    BY <1>8, OrderState DEF Basics
  <2>1. command' \in [Conns -> Commands]
    BY <1>0, <2>0, MoveTyped DEF Typed
  <2>2. UNCHANGED <<counts, state, tables, pollers, astray, raced>>
    BY <1>8, OrderState DEF Basics
  <2>. QED
    BY <1>0, <2>1, <2>2 DEF Typed, counts, tables, pollers
<1>9. CASE Move(c)
  <2>. DEFINE who == command[c].who
              to  == command[c].to
              n   == state[who].nick
  <2>1. /\ who \in Conns /\ to \in MaybeRoom
        /\ state' \in [Conns -> States] /\ command' \in [Conns -> Commands]
    BY <1>0, <1>9, MoveState
  <2>2. n \in Nicks
    BY <1>0, <1>9, <2>1, MoveState DEF Basics, CommandsMakeSense, Typed, States, MaybeNick
  <2>3. Unpeer(state[who].room, n) \in [Rooms -> [Nicks -> Conns \cup {NoConn}]]
    BY <1>0 DEF Unpeer, Typed
  <2>4. peers' \in [Rooms -> [Nicks -> Conns \cup {NoConn}]]
    BY <1>0, <1>9, <2>1, <2>2, <2>3 DEF Move, MaybeRoom
  <2>5. raced' \in [Conns -> BOOLEAN]
    BY <1>0, <1>9, <2>1 DEF Move, Typed
  <2>. QED
    BY <1>0, <1>9, <2>1, <2>4, <2>5 DEF Move, Typed
<1>10. CASE Tell(c)
  <2>1. command[c].who \in Conns /\ command[c].to \in MaybeRoom
    BY <1>0, <1>10, CommandSteps DEF Tell, Typed
  <2>2. line' \in [Conns -> Seq(MaybeRoom)]
    BY <1>0, <1>10, <2>1 DEF Tell, Typed
  <2>3. raced' \in [Conns -> BOOLEAN] /\ command' \in [Conns -> Commands]
    BY <1>0, <1>10, <2>1, Values DEF Tell, Typed
  <2>. QED
    BY <1>0, <1>10, <2>2, <2>3 DEF Tell, Typed
<1>11. CASE PollerUpdate(c)
  BY <1>0, <1>11 DEF PollerUpdate, Typed
<1>. QED
  BY <1>1, <1>2, <1>3, <1>4, <1>5, <1>6, <1>7, <1>8, <1>9, <1>10, <1>11 DEF Step

(* Nobody's nick is taken away, and nobody becomes new again.              *)
LEMMA StandingStep ==
  ASSUME Basics, NEW c \in Conns, Step(c)
  PROVE  /\ Registered'
         /\ \A d \in Conns : /\ state[d].nick # NoNick => state'[d].nick # NoNick
                             /\ phase[d] # "new" => phase'[d] # "new"
                             /\ d # c => state'[d].authed = state[d].authed
<1>0. Typed /\ Registered /\ RegistryNamesLiveClients
  BY DEF Basics
<1>1. CASE Accept(c) \/ Unregister(c) \/ Release(c) \/ Tell(c) \/ PollerUpdate(c)
  <2>1. state' = state /\ \A d \in Conns : phase[d] # "new" => phase'[d] # "new"
    BY <1>0, <1>1 DEF Accept, Unregister, Release, Tell, PollerUpdate, counts, Typed
  <2>. QED
    BY <1>0, <2>1 DEF Registered
<1>2. CASE HangUp(c)
  <2>1. \A d \in Conns : phase[d] # "new" => phase'[d] # "new"
    BY <1>0, <1>2 DEF HangUp, Typed
  <2>. QED
    BY <1>0, <1>2, <2>1, HangUpState DEF Registered
<1>3. CASE Preparing(c)
  <2>1. SameStanding(c) /\ phase' = phase
    BY <1>0, <1>3, PreparingState DEF counts
  <2>. QED
    BY <1>0, <2>1 DEF Registered, SameStanding
<1>4. CASE Authenticate(c)
  <2>1. phase' = phase
    BY <1>4 DEF Authenticate, counts
  <2>2. CASE UNCHANGED state
    BY <1>0, <2>1, <2>2 DEF Registered
  <2>3. CASE /\ \A d \in Conns \ {c} : state'[d] = state[d]
             /\ state'[c].nick \in Nicks /\ state'[c].registered
    BY <1>0, <2>1, <2>3, Values DEF Registered
  <2>. QED
    BY <1>0, <1>4, <2>2, <2>3, AuthenticateState
<1>5. ASSUME NEW n \in Nicks, Nick(c, n)
      PROVE  /\ phase' = phase
             /\ \A d \in Conns \ {c} : state'[d] = state[d]
             /\ state'[c].authed = state[c].authed
             /\ state'[c].registered = state[c].registered
             /\ state[c].nick # NoNick => state'[c].nick # NoNick
  BY <1>0, <1>5, NickState DEF counts
<1>6. CASE \E n \in Nicks : Nick(c, n)
  BY <1>0, <1>5, <1>6 DEF Registered
<1>7. CASE Ordering(c)
  BY <1>0, <1>7, OrderState DEF Registered, counts
<1>8. CASE Move(c)
  <2>1. phase' = phase
    BY <1>8 DEF Move, counts
  <2>. QED
    BY <1>0, <1>8, <2>1, MoveState DEF Registered
<1>. QED
  BY <1>1, <1>2, <1>3, <1>4, <1>6, <1>7, <1>8 DEF Step

(* What a step makes of the commands.                                      *)
LEMMA CommandsStep ==
  ASSUME Basics, NEW c \in Conns, Step(c)
  PROVE  CommandsMakeSense'
<1>0. Typed /\ Registered /\ CommandsMakeSense /\ RegistryNamesLiveClients
  BY DEF Basics
<1>. DEFINE Sense(m, d, st, ph) ==
       /\ m # Idle => ph[d] = "open"
       /\ m \in MovingCommands =>
            /\ st[m.who].nick # NoNick
            /\ ph[m.who] # "new"
            /\ (m.step = "move" /\ m.to # NoRoom) => m.who = d /\ st[d].authed
<1>1. \A d \in Conns : Sense(command[d], d, state, phase)
  BY <1>0 DEF CommandsMakeSense
<1>2. \A d \in Conns : command[d] \in Commands
  BY <1>0 DEF Typed
<1>3. \A d \in Conns : (command[d] \in MovingCommands => command[d].who \in Conns)
  BY <1>2, CommandSteps
<1>s. \A e \in Conns : /\ state[e].nick # NoNick => state'[e].nick # NoNick
                       /\ phase[e] # "new" => phase'[e] # "new"
                       /\ e # c => state'[e].authed = state[e].authed
  BY StandingStep
<1>4. ASSUME NEW d \in Conns, command'[d] = command[d],
             command[d] # Idle => phase'[d] = phase[d],
             command[d] # Idle => state'[d].authed = state[d].authed
      PROVE  Sense(command'[d], d, state', phase')
  <2>1. Sense(command[d], d, state, phase)
    BY <1>1
  <2>2. CASE command[d] = Idle
    BY <1>4, <2>2, Values
  <2>3. CASE command[d] # Idle /\ command[d] \notin MovingCommands
    BY <1>4, <2>1, <2>3
  <2>4. CASE command[d] \in MovingCommands
    <3>. DEFINE m == command[d]
    <3>1. m # Idle /\ m.who \in Conns
      BY <1>3, <2>4, Values
    <3>2. /\ phase[d] = "open" /\ state[m.who].nick # NoNick /\ phase[m.who] # "new"
          /\ (m.step = "move" /\ m.to # NoRoom) => m.who = d /\ state[d].authed
      BY <2>1, <2>4, <3>1
    <3>3. phase'[d] = "open" /\ state'[d].authed = state[d].authed
      BY <1>4, <3>1, <3>2
    <3>4. state'[m.who].nick # NoNick /\ phase'[m.who] # "new"
      BY <1>s, <3>1, <3>2
    <3>5. command'[d] = m
      BY <1>4
    <3>. HIDE DEF m
    <3>. QED
      BY <3>2, <3>3, <3>4, <3>5
  <2>. QED
    BY <2>2, <2>3, <2>4
<1>5. SUFFICES ASSUME NEW d \in Conns PROVE Sense(command'[d], d, state', phase')
  BY DEF CommandsMakeSense
<1>. HIDE DEF Sense
<1>6. CASE Accept(c) \/ Unregister(c) \/ Release(c) \/ HangUp(c)
  <2>1. command' = command
    BY <1>6 DEF Accept, Unregister, Release, HangUp
  <2>2. d # c => state'[d] = state[d] /\ phase'[d] = phase[d]
    BY <1>0, <1>6, HangUpState DEF Accept, Unregister, Release, HangUp, Typed
  <2>3. command[c] = Idle
    BY <1>0, <1>6 DEF Accept, Unregister, Release, HangUp, Ready, CommandsMakeSense
  <2>. QED
    BY <1>4, <2>1, <2>2, <2>3
<1>7. CASE PollerUpdate(c)
  BY <1>4, <1>7 DEF PollerUpdate, counts
<1>8. CASE Preparing(c) \/ \E n \in Nicks : Nick(c, n)
  <2>1. /\ phase' = phase /\ phase[c] = "open" /\ command[c] = Idle
        /\ state'[d].authed = state[d].authed
        /\ command' = command \/ command' = [command EXCEPT ![c] = Auth]
    <3>1. CASE Preparing(c)
      BY <1>0, <3>1, PreparingState DEF SameStanding, Ready, counts
    <3>2. CASE \E n \in Nicks : Nick(c, n)
      BY <1>0, <3>2, NickState DEF Ready, counts
    <3>. QED
      BY <1>8, <3>1, <3>2
  <2>2. CASE command'[d] = command[d]
    BY <1>4, <2>1, <2>2
  <2>3. CASE d = c /\ command'[c] = Auth
    BY <2>1, <2>3, Values DEF Sense
  <2>. QED
    BY <1>0, <2>1, <2>2, <2>3 DEF Typed
<1>9. CASE Authenticate(c) \/ Tell(c)
  <2>1. command' = [command EXCEPT ![c] = Idle] /\ phase' = phase
    BY <1>9 DEF Authenticate, Tell, counts
  <2>0. command \in [Conns -> Commands]
    BY <1>0 DEF Typed
  <2>2. CASE d = c
    BY <2>0, <2>1, <2>2, Values DEF Sense
  <2>3. CASE d # c
    BY <1>s, <1>4, <2>0, <2>1, <2>3
  <2>. QED
    BY <2>2, <2>3
<1>10. CASE Ordering(c)
  <2>1. PICK who \in Conns, to \in MaybeRoom :
          /\ command' = [command EXCEPT ![c] = [step |-> "move", who |-> who, to |-> to]]
          /\ state[who].nick # NoNick
          /\ phase[who] # "new"
          /\ to # NoRoom => who = c /\ state[c].authed
    BY <1>0, <1>10, OrderState
  <2>2. state' = state /\ phase' = phase /\ phase[c] = "open"
    BY <1>0, <1>10, OrderState DEF counts, Ready
  <2>3. CASE d = c
    <3>1. command'[c] = [step |-> "move", who |-> who, to |-> to]
      BY <1>0, <2>1 DEF Typed
    <3>. QED
      BY <2>1, <2>2, <2>3, <3>1 DEF Sense
  <2>4. CASE d # c
    BY <1>0, <1>4, <2>1, <2>2, <2>4 DEF Typed
  <2>. QED
    BY <2>3, <2>4
<1>11. CASE Move(c)
  <2>1. phase' = phase
    BY <1>11 DEF Move, counts
  <2>2. CASE d = c
    <3>1. /\ command[c] \in MovingCommands /\ command'[c] \in MovingCommands
          /\ command'[c].step = "tell" /\ command'[c].who = command[c].who
          /\ \A e \in Conns : state'[e].nick = state[e].nick
      BY <1>0, <1>11, MoveState
    <3>2. Sense(command[c], c, state, phase) /\ command[c].who \in Conns
      BY <1>1, <1>3, <3>1
    <3>. QED
      BY <2>1, <2>2, <3>1, <3>2, Values DEF Sense
  <2>3. CASE d # c
    BY <1>0, <1>4, <1>11, <2>1, <2>3, MoveState
  <2>. QED
    BY <2>2, <2>3
<1>. QED
  BY <1>6, <1>7, <1>8, <1>9, <1>10, <1>11 DEF Step

(* Nothing happens to a connection before it is accepted.                  *)
LEMMA NewIsFreshStep ==
  ASSUME Basics, NEW c \in Conns, Step(c)
  PROVE  NewIsFresh'
<1>0. Typed /\ Registered /\ CommandsMakeSense /\ NewIsFresh /\ RegistryNamesLiveClients
  BY DEF Basics
<1>1. SUFFICES ASSUME NEW d \in Conns, phase[d] = "new"
               PROVE  state'[d].room = state[d].room /\ line'[d] = line[d]
                      /\ reading'[d] = reading[d]
  BY <1>0, StandingStep DEF NewIsFresh
<1>2. CASE Accept(c) \/ Unregister(c) \/ Release(c)
  BY <1>2 DEF Accept, Unregister, Release, pollers
<1>3. CASE HangUp(c)
  <2>1. d # c
    BY <1>1, <1>3 DEF HangUp, Ready
  <2>. QED
    BY <1>0, <1>3, <2>1, HangUpState DEF HangUp, Typed
<1>4. CASE Preparing(c)
  BY <1>0, <1>4, PreparingState DEF SameStanding, pollers
<1>5. CASE Authenticate(c)
  <2>1. line' = line /\ reading' = reading
    BY <1>5 DEF Authenticate, pollers
  <2>. QED
    BY <1>0, <1>5, <2>1, AuthenticateState
<1>6. CASE \E n \in Nicks : Nick(c, n)
  BY <1>0, <1>6, NickState DEF pollers
<1>7. CASE Ordering(c)
  BY <1>0, <1>7, OrderState DEF pollers
<1>8. CASE Move(c)
  <2>1. line' = line /\ reading' = reading
    BY <1>8 DEF Move, pollers
  <2>2. d # command[c].who
    BY <1>0, <1>1, <1>8, MoveState DEF CommandsMakeSense
  <2>. QED
    BY <1>0, <1>8, <2>1, <2>2, MoveState
<1>9. CASE Tell(c)
  <2>1. command[c] \in MovingCommands
    BY <1>0, <1>9, CommandSteps DEF Tell, Typed
  <2>2. d # command[c].who
    BY <1>0, <1>1, <2>1 DEF CommandsMakeSense
  <2>. QED
    BY <1>0, <1>9, <2>2 DEF Tell, Typed
<1>10. CASE PollerUpdate(c)
  <2>1. d # c
    BY <1>1, <1>10 DEF PollerUpdate
  <2>. QED
    BY <1>0, <1>10, <2>1 DEF PollerUpdate, Typed
<1>. QED
  BY <1>2, <1>3, <1>4, <1>5, <1>6, <1>7, <1>8, <1>9, <1>10 DEF Step

(* An entry of the registry that survives a step still names its client.   *)
LEMMA RegistryStep ==
  ASSUME Basics, NEW c \in Conns, Step(c)
  PROVE  RegistryNamesLiveClients'
<1>0. Typed /\ Registered /\ CommandsMakeSense /\ RegistryNamesLiveClients
  BY DEF Basics
<1>1. \A n \in Nicks : byNick[n] # NoConn =>
        /\ byNick[n] \in Conns /\ state[byNick[n]].nick = n /\ n # NoNick
        /\ phase[byNick[n]] \in {"open", "done"}
  BY <1>0, Values DEF Typed, RegistryNamesLiveClients
<1>2. CASE Accept(c) \/ Release(c)
  <2>1. /\ UNCHANGED <<state, byNick>> /\ phase[c] \notin {"open", "done"}
        /\ \A d \in Conns \ {c} : phase'[d] = phase[d]
    BY <1>0, <1>2 DEF Accept, Release, tables, Typed
  <2>. QED
    BY <1>1, <2>1 DEF RegistryNamesLiveClients
<1>3. CASE HangUp(c)
  <2>1. byNick' = byNick /\ phase' = [phase EXCEPT ![c] = "done"]
    BY <1>3 DEF HangUp, tables
  <2>2. \A d \in Conns : state'[d].nick = state[d].nick
    BY <1>0, <1>3, HangUpState
  <2>3. \A d \in Conns : phase'[d] = IF d = c THEN "done" ELSE phase[d]
    BY <1>0, <2>1 DEF Typed
  <2>. QED
    BY <1>1, <2>1, <2>2, <2>3 DEF RegistryNamesLiveClients
<1>4. CASE Unregister(c)
  <2>1. state' = state /\ \A d \in Conns \ {c} : phase'[d] = phase[d]
    BY <1>0, <1>4 DEF Unregister, Typed
  <2>2. \A n \in Nicks : byNick'[n] # NoConn => byNick'[n] = byNick[n] /\ byNick[n] # c
    <3>1. CASE \E n \in Nicks : byNick[n] = c
      <4>1. byNick' = [byNick EXCEPT ![state[c].nick] = NoConn]
        BY <1>4, <3>1 DEF Unregister
      <4>2. c # NoConn
        BY Values
      <4>. QED
        BY <1>0, <1>1, <4>1, <4>2 DEF Typed
    <3>2. CASE ~\E n \in Nicks : byNick[n] = c
      BY <1>4, <3>2 DEF Unregister, tables
    <3>. QED
      BY <3>1, <3>2
  <2>. QED
    BY <1>1, <2>1, <2>2 DEF RegistryNamesLiveClients
<1>5. CASE Preparing(c)
  <2>1. byNick' = byNick /\ phase' = phase /\ SameStanding(c)
    BY <1>0, <1>5, PreparingState DEF tables, counts
  <2>. QED
    BY <1>1, <2>1 DEF RegistryNamesLiveClients, SameStanding
<1>6. CASE Authenticate(c)
  <2>1. phase' = phase /\ phase[c] = "open"
    <3>1. command[c] # Idle
      BY <1>6 DEF Authenticate, Idle
    <3>. QED
      BY <1>0, <1>6, <3>1 DEF Authenticate, counts, CommandsMakeSense
  <2>2. CASE UNCHANGED <<state, byNick>>
    BY <1>1, <2>1, <2>2 DEF RegistryNamesLiveClients
  <2>3. CASE /\ \A d \in Conns \ {c} : state'[d] = state[d]
             /\ state[c].nick # NoNick => state'[c].nick = state[c].nick
             /\ state'[c].nick \in Nicks
             /\ byNick' = byNick \/ byNick' = [byNick EXCEPT ![state'[c].nick] = c]
    <3>1. \A n \in Nicks : byNick'[n] = byNick[n] \/ (n = state'[c].nick /\ byNick'[n] = c)
      BY <1>0, <2>3 DEF Typed
    <3>2. \A d \in Conns : state[d].nick # NoNick => state'[d].nick = state[d].nick
      BY <2>3
    <3>. QED
      BY <1>1, <2>1, <3>1, <3>2 DEF RegistryNamesLiveClients
  <2>. QED
    BY <1>0, <1>6, <2>2, <2>3, AuthenticateState
<1>7. ASSUME NEW n \in Nicks, Nick(c, n)
      PROVE  RegistryNamesLiveClients'
  <2>1. phase' = phase /\ phase[c] = "open"
    BY <1>0, <1>7, NickState DEF Ready, counts
  <2>2. \A m \in Nicks : WithoutOldNick(c)[m] # NoConn =>
          WithoutOldNick(c)[m] = byNick[m] /\ byNick[m] # c
    BY <1>0, <1>1 DEF WithoutOldNick, Typed
  <2>3. CASE state' = state /\ byNick' = WithoutOldNick(c)
    BY <1>1, <2>1, <2>2, <2>3 DEF RegistryNamesLiveClients
  <2>4. CASE /\ \A d \in Conns \ {c} : state'[d] = state[d]
             /\ state'[c].nick = n
             /\ byNick' = [WithoutOldNick(c) EXCEPT ![n] = c]
    <3>1. WithoutOldNick(c) \in [Nicks -> Conns \cup {NoConn}]
      BY <1>0 DEF WithoutOldNick, Typed
    <3>2. \A m \in Nicks : byNick'[m] = IF m = n THEN c ELSE WithoutOldNick(c)[m]
      BY <2>4, <3>1
    <3>. QED
      BY <1>1, <2>1, <2>2, <2>4, <3>2 DEF RegistryNamesLiveClients
  <2>. QED
    BY <1>0, <1>7, <2>3, <2>4, NickState
<1>8. CASE Ordering(c)
  BY <1>0, <1>8, OrderState DEF tables, counts, RegistryNamesLiveClients
<1>9. CASE Move(c)
  <2>1. byNick' = byNick /\ phase' = phase
    BY <1>9 DEF Move, counts
  <2>2. \A d \in Conns : state'[d].nick = state[d].nick
    BY <1>0, <1>9, MoveState
  <2>. QED
    BY <1>1, <2>1, <2>2 DEF RegistryNamesLiveClients
<1>10. CASE Tell(c) \/ PollerUpdate(c)
  BY <1>0, <1>10 DEF Tell, PollerUpdate, tables, counts, RegistryNamesLiveClients
<1>. QED
  BY <1>2, <1>3, <1>4, <1>5, <1>6, <1>7, <1>8, <1>9, <1>10 DEF Step

-----------------------------------------------------------------------------
(* The connection counts.                                                  *)

CountedFrom(i) == {c \in Counted : ip[c] = i}

(* Only Accept and Release change who is counted.                          *)
LEMMA CountedStep ==
  ASSUME Basics, NEW c \in Conns, Step(c)
  PROVE  /\ ip' = ip
         /\ \/ UNCHANGED <<total, byIP>> /\ Counted' = Counted
            \/ /\ c \notin Counted /\ Counted' = Counted \cup {c}
               /\ total < MaxConn /\ byIP[ip[c]] < MaxPerIP
               /\ total' = total + 1
               /\ byIP' = [byIP EXCEPT ![ip[c]] = byIP[ip[c]] + 1]
            \/ /\ c \in Counted /\ Counted' = Counted \ {c}
               /\ total' = IF total > 0 THEN total - 1 ELSE total
               /\ byIP'  = [byIP EXCEPT ![ip[c]] =
                              IF byIP[ip[c]] > 1 THEN byIP[ip[c]] - 1 ELSE 0]
<1>0. Typed /\ Registered /\ RegistryNamesLiveClients
  BY DEF Basics
<1>t. total \in Nat /\ byIP[ip[c]] \in Nat /\ MaxConn \in Nat /\ MaxPerIP \in Nat
  BY <1>0, IrcConstants DEF Typed
<1>1. CASE Accept(c)
  <2>1. CASE Refused(ip[c])
    BY <1>0, <1>1, <2>1 DEF Accept, Counted, Typed
  <2>2. CASE ~Refused(ip[c])
    <3>1. c \notin Counted /\ Counted' = Counted \cup {c}
      BY <1>0, <1>1, <2>2 DEF Accept, Counted, Typed
    <3>2. total < MaxConn /\ byIP[ip[c]] < MaxPerIP
      BY <1>t, <2>2 DEF Refused
    <3>. QED
      BY <1>1, <2>2, <3>1, <3>2 DEF Accept
  <2>. QED
    BY <2>1, <2>2
<1>2. CASE Release(c)
  BY <1>0, <1>2 DEF Release, Counted, Typed
<1>3. CASE HangUp(c) \/ Unregister(c)
  BY <1>0, <1>3 DEF HangUp, Unregister, Ready, Counted, Typed
<1>4. CASE Preparing(c) \/ (\E n \in Nicks : Nick(c, n)) \/ Ordering(c)
  <2>1. UNCHANGED counts
    BY <1>0, <1>4, PreparingState, NickState, OrderState
  <2>. QED
    BY <2>1 DEF counts, Counted
<1>5. CASE Authenticate(c) \/ Move(c) \/ Tell(c) \/ PollerUpdate(c)
  <2>1. UNCHANGED counts
    BY <1>5 DEF Authenticate, Move, Tell, PollerUpdate
  <2>. QED
    BY <2>1 DEF counts, Counted
<1>. QED
  BY <1>1, <1>2, <1>3, <1>4, <1>5 DEF Step

LEMMA ConnectionsCountedStep ==
  ASSUME Basics, ConnectionsCounted, NEW c \in Conns, Step(c)
  PROVE  ConnectionsCounted'
<1>0. Typed
  BY DEF Basics
<1>1. /\ total \in Nat /\ byIP \in [IPs -> Nat] /\ ip[c] \in IPs
      /\ MaxConn \in Nat \ {0} /\ MaxPerIP \in Nat \ {0}
  BY <1>0, IrcConstants DEF Typed
<1>2. IsFiniteSet(Counted) /\ \A i \in IPs : IsFiniteSet(CountedFrom(i))
  BY IrcConstants, FS_Subset DEF Counted, CountedFrom
<1>3. /\ total = Cardinality(Counted) /\ total <= MaxConn
      /\ \A i \in IPs : byIP[i] = Cardinality(CountedFrom(i)) /\ byIP[i] <= MaxPerIP
  BY DEF ConnectionsCounted, CountedFrom
<1>4. SUFFICES
        /\ total' = Cardinality(Counted') /\ total' <= MaxConn
        /\ \A i \in IPs : byIP'[i] = Cardinality(CountedFrom(i)') /\ byIP'[i] <= MaxPerIP
  BY DEF ConnectionsCounted, CountedFrom
<1>5. ip' = ip
  BY CountedStep
<1>6. CASE UNCHANGED <<total, byIP>> /\ Counted' = Counted
  BY <1>3, <1>5, <1>6 DEF CountedFrom
<1>7. CASE /\ c \notin Counted /\ Counted' = Counted \cup {c}
           /\ total < MaxConn /\ byIP[ip[c]] < MaxPerIP
           /\ total' = total + 1
           /\ byIP' = [byIP EXCEPT ![ip[c]] = byIP[ip[c]] + 1]
  <2>1. Cardinality(Counted') = total'
    BY <1>2, <1>3, <1>7, FS_AddElement
  <2>2. ASSUME NEW i \in IPs
        PROVE  byIP'[i] = Cardinality(CountedFrom(i)') /\ byIP'[i] <= MaxPerIP
    <3>1. CASE i = ip[c]
      <4>1. CountedFrom(i)' = CountedFrom(i) \cup {c} /\ c \notin CountedFrom(i)
        BY <1>5, <1>7, <3>1 DEF CountedFrom
      <4>2. Cardinality(CountedFrom(i)') = Cardinality(CountedFrom(i)) + 1
        BY <1>2, <4>1, FS_AddElement
      <4>. QED
        BY <1>1, <1>3, <1>7, <3>1, <4>2
    <3>2. CASE i # ip[c]
      <4>1. CountedFrom(i)' = CountedFrom(i)
        BY <1>5, <1>7, <3>2 DEF CountedFrom
      <4>. QED
        BY <1>1, <1>3, <1>7, <3>2, <4>1
    <3>. QED
      BY <3>1, <3>2
  <2>. QED
    BY <1>1, <1>7, <2>1, <2>2
<1>8. CASE /\ c \in Counted /\ Counted' = Counted \ {c}
           /\ total' = IF total > 0 THEN total - 1 ELSE total
           /\ byIP'  = [byIP EXCEPT ![ip[c]] =
                          IF byIP[ip[c]] > 1 THEN byIP[ip[c]] - 1 ELSE 0]
  <2>1. Cardinality(Counted') = total - 1 /\ total > 0
    <3>1. Cardinality(Counted') = Cardinality(Counted) - 1 /\ Cardinality(Counted') \in Nat
      BY <1>2, <1>8, FS_RemoveElement, FS_CardinalityType, FS_Subset
    <3>. QED
      BY <1>1, <1>3, <3>1
  <2>2. ASSUME NEW i \in IPs
        PROVE  byIP'[i] = Cardinality(CountedFrom(i)') /\ byIP'[i] <= MaxPerIP
    <3>1. CASE i = ip[c]
      <4>1. CountedFrom(i)' = CountedFrom(i) \ {c} /\ c \in CountedFrom(i)
        BY <1>5, <1>8, <3>1 DEF CountedFrom
      <4>2. /\ Cardinality(CountedFrom(i)') = Cardinality(CountedFrom(i)) - 1
            /\ Cardinality(CountedFrom(i)') \in Nat
        BY <1>2, <4>1, FS_RemoveElement, FS_CardinalityType, FS_Subset
      <4>. QED
        BY <1>1, <1>3, <1>8, <3>1, <4>2
    <3>2. CASE i # ip[c]
      <4>1. CountedFrom(i)' = CountedFrom(i)
        BY <1>5, <1>8, <3>2 DEF CountedFrom
      <4>. QED
        BY <1>1, <1>3, <1>8, <3>2, <4>1
    <3>. QED
      BY <3>1, <3>2
  <2>. QED
    BY <1>1, <1>3, <1>8, <2>1, <2>2
<1>. QED
  BY <1>6, <1>7, <1>8, CountedStep

LEMMA LinesFitStep ==
  ASSUME Basics, LinesFit, NEW c \in Conns, Step(c)
  PROVE  LinesFit'
<1>0. Typed /\ Registered /\ RegistryNamesLiveClients
  BY DEF Basics
<1>1. line \in [Conns -> Seq(MaybeRoom)] /\ LineCap \in Nat \ {0}
  BY <1>0, IrcConstants DEF Typed
<1>2. CASE Tell(c)
  <2>1. command[c].who \in Conns /\ command[c].to \in MaybeRoom
    BY <1>0, <1>2, CommandSteps DEF Tell, Typed
  <2>2. CASE line' = line
    BY <2>2 DEF LinesFit
  <2>3. CASE /\ Len(line[command[c].who]) < LineCap
             /\ line' = [line EXCEPT ![command[c].who] = Append(@, command[c].to)]
    BY <1>1, <2>1, <2>3 DEF LinesFit
  <2>4. Len(line[command[c].who]) \in Nat
    BY <1>1, <2>1
  <2>. QED
    BY <1>1, <1>2, <2>2, <2>3, <2>4 DEF Tell
<1>3. CASE PollerUpdate(c)
  BY <1>1, <1>3 DEF PollerUpdate, LinesFit
<1>4. CASE HangUp(c)
  BY <1>1, <1>4 DEF HangUp, LinesFit
<1>5. CASE Accept(c) \/ Unregister(c) \/ Release(c) \/ Authenticate(c) \/ Move(c)
  BY <1>5 DEF Accept, Unregister, Release, Authenticate, Move, pollers, LinesFit
<1>6. CASE Preparing(c) \/ (\E n \in Nicks : Nick(c, n)) \/ Ordering(c)
  BY <1>0, <1>6, PreparingState, NickState, OrderState DEF pollers, LinesFit
<1>. QED
  BY <1>2, <1>3, <1>4, <1>5, <1>6 DEF Step

-----------------------------------------------------------------------------
(* The members of channels.                                                *)

LEMMA RegisteredIsOpenStep ==
  ASSUME Basics, RegisteredIsOpen, NEW c \in Conns, Step(c)
  PROVE  RegisteredIsOpen'
<1>0. Typed /\ Registered /\ CommandsMakeSense /\ RegistryNamesLiveClients
  BY DEF Basics
<1>1. CASE Accept(c) \/ Unregister(c) \/ Release(c)
  <2>1. /\ state' = state /\ phase[c] # "open"
        /\ \A d \in Conns \ {c} : phase'[d] = phase[d]
    BY <1>0, <1>1 DEF Accept, Unregister, Release, Typed
  <2>. QED
    BY <2>1 DEF RegisteredIsOpen
<1>2. CASE HangUp(c)
  <2>1. \A d \in Conns \ {c} : phase'[d] = phase[d]
    BY <1>0, <1>2 DEF HangUp, Typed
  <2>. QED
    BY <1>0, <1>2, <2>1, HangUpState DEF RegisteredIsOpen
<1>3. CASE Preparing(c)
  BY <1>0, <1>3, PreparingState DEF SameStanding, counts, RegisteredIsOpen
<1>4. CASE Authenticate(c)
  <2>1. phase' = phase /\ phase[c] = "open"
    BY <1>0, <1>4 DEF Authenticate, counts, CommandsMakeSense, Idle
  <2>. QED
    BY <1>0, <1>4, <2>1, AuthenticateState DEF RegisteredIsOpen
<1>5. CASE \E n \in Nicks : Nick(c, n)
  BY <1>0, <1>5, NickState DEF counts, RegisteredIsOpen
<1>6. CASE Ordering(c)
  BY <1>0, <1>6, OrderState DEF counts, RegisteredIsOpen
<1>7. CASE Move(c)
  <2>1. phase' = phase
    BY <1>7 DEF Move, counts
  <2>. QED
    BY <1>0, <1>7, <2>1, MoveState DEF RegisteredIsOpen
<1>8. CASE Tell(c) \/ PollerUpdate(c)
  BY <1>8 DEF Tell, PollerUpdate, counts, RegisteredIsOpen
<1>. QED
  BY <1>1, <1>2, <1>3, <1>4, <1>5, <1>6, <1>7, <1>8 DEF Step

(* What keeps a member one: it gains no entry in a channel, keeps its      *)
(* nick and channel, and either goes astray or stays listed.               *)
LEMMA MemberKept ==
  ASSUME NEW d \in Conns, Member(d),
         astray[d] => astray'[d],
         \A r \in Rooms, n \in Nicks : peers'[r][n] = d => peers[r][n] = d,
         state[d].nick # NoNick => state'[d].nick = state[d].nick,
         state'[d].room = state[d].room,
         state'[d].registered => state[d].registered,
         phase[d] \in {"open", "done"} => phase'[d] \in {"open", "done"},
         (Listed(d) /\ ~astray'[d]) => byNick'[state[d].nick] = d
  PROVE  Member(d)'
  BY Values DEF Member, Listed

(* A listed client whose entry was not taken is still listed.              *)
LEMMA NotRobbed ==
  ASSUME Typed, RegistryNamesLiveClients, NEW d \in Conns, Listed(d), d \notin Robbed,
         \A m \in Nicks : byNick'[m] = d => byNick[m] = d
  PROVE  byNick'[state[d].nick] = d
<1>1. Holds(byNick, d)
  BY DEF Listed, Holds
<1>2. PICK m \in Nicks : byNick'[m] = d
  BY <1>1 DEF Robbed, Holds
<1>3. byNick[m] = d /\ d # NoConn
  BY <1>2, Values
<1>. QED
  BY <1>2, <1>3 DEF RegistryNamesLiveClients

LEMMA MembersStep ==
  ASSUME Basics, RegisteredIsOpen, Members, NEW c \in Conns, Step(c)
  PROVE  Members'
<1>0. Typed /\ Registered /\ CommandsMakeSense /\ RegistryNamesLiveClients
  BY DEF Basics
<1>1. SUFFICES ASSUME NEW d \in Conns PROVE Member(d)'
  BY DEF Members
<1>2. Member(d)
  BY DEF Members
<1>3. CASE Accept(c) \/ Release(c)
  <2>1. /\ UNCHANGED <<state, byNick, peers, astray>>
        /\ phase[c] \notin {"open", "done"}
        /\ \A e \in Conns \ {c} : phase'[e] = phase[e]
    BY <1>0, <1>3 DEF Accept, Release, tables, Typed
  <2>. QED
    BY <1>2, <2>1, MemberKept DEF Listed
<1>4. CASE HangUp(c)
  <2>1. UNCHANGED <<byNick, peers, astray>> /\ phase' = [phase EXCEPT ![c] = "done"]
    BY <1>4 DEF HangUp, tables
  <2>2. \A e \in Conns : /\ state'[e].nick = state[e].nick
                         /\ state'[e].room = state[e].room
                         /\ state'[e].registered => state[e].registered
    BY <1>0, <1>4, HangUpState
  <2>3. \A e \in Conns : phase'[e] = IF e = c THEN "done" ELSE phase[e]
    BY <1>0, <2>1 DEF Typed
  <2>. QED
    BY <1>2, <2>1, <2>2, <2>3, MemberKept DEF Listed
<1>5. CASE Unregister(c)
  <2>1. /\ UNCHANGED <<state, astray>> /\ phase[c] = "done"
        /\ \A e \in Conns \ {c} : phase'[e] = phase[e]
    BY <1>0, <1>5 DEF Unregister, Typed
  <2>2. ~state[c].registered
    BY <2>1 DEF RegisteredIsOpen
  <2>3. CASE \E n \in Nicks : byNick[n] = c
    <3>0. Listed(c)
      BY <2>3, Values DEF RegistryNamesLiveClients, Listed, Basics
    <3>1. /\ byNick' = [byNick EXCEPT ![state[c].nick] = NoConn]
          /\ peers' = Unpeer(state[c].room, state[c].nick)
      BY <1>5, <2>3 DEF Unregister
    <3>2. \A r \in Rooms, n \in Nicks : /\ peers'[r][n] = peers[r][n] \/ peers'[r][n] = NoConn
                                        /\ r = state[c].room /\ n = state[c].nick
                                             => peers'[r][n] = NoConn
      BY <1>0, <3>1, Values DEF Unpeer, Typed
    <3>3. CASE d = c
      <4>1. ~astray[c] => \A r \in Rooms, n \in Nicks : peers'[r][n] # c
        BY <1>2, <3>2, <3>3, Values DEF Member
      <4>. QED
        BY <2>1, <2>2, <3>3, <4>1 DEF Member
    <3>4. CASE d # c
      <4>1. Listed(d) => byNick'[state[d].nick] = d
        BY <1>0, <3>0, <3>1, <3>4 DEF Listed, Typed
      <4>. QED
        BY <1>2, <2>1, <3>2, <3>4, <4>1, Values, MemberKept
    <3>. QED
      BY <3>3, <3>4
  <2>4. CASE ~\E n \in Nicks : byNick[n] = c
    <3>1. UNCHANGED tables /\ ~Listed(c)
      BY <1>5, <2>4 DEF Unregister, Listed
    <3>2. CASE d = c
      BY <1>2, <2>1, <2>2, <3>1, <3>2 DEF Member, tables
    <3>3. CASE d # c
      BY <1>2, <2>1, <3>1, <3>3, MemberKept DEF tables, Listed
    <3>. QED
      BY <3>2, <3>3
  <2>. QED
    BY <2>3, <2>4
<1>6. CASE Preparing(c)
  <2>1. SameStanding(c) /\ UNCHANGED <<counts, tables, pollers, astray, raced>>
    BY <1>0, <1>6, PreparingState
  <2>2. /\ state'[d].room = state[d].room /\ state'[d].registered = state[d].registered
        /\ state[d].nick # NoNick => state'[d].nick = state[d].nick
    BY <2>1 DEF SameStanding
  <2>. QED
    BY <1>2, <2>1, <2>2, MemberKept DEF counts, tables, Listed
<1>7. CASE Authenticate(c)
  <2>1. phase' = phase /\ peers' = peers
    BY <1>7 DEF Authenticate, counts
  <2>2. CASE UNCHANGED <<state, byNick, astray>>
    BY <1>2, <2>1, <2>2, MemberKept DEF Listed
  <2>3. CASE /\ \A e \in Conns \ {c} : state'[e] = state[e]
             /\ state'[c].room = state[c].room
             /\ state[c].nick # NoNick => state'[c].nick = state[c].nick
             /\ state'[c].nick \in Nicks /\ state'[c].registered
             /\ state[c].registered /\ UNCHANGED <<byNick, astray>>
    BY <1>2, <2>1, <2>3, MemberKept DEF Listed
  <2>4. CASE /\ \A e \in Conns \ {c} : state'[e] = state[e]
             /\ state'[c].room = state[c].room
             /\ state[c].nick # NoNick => state'[c].nick = state[c].nick
             /\ state'[c].nick \in Nicks /\ state'[c].registered
             /\ byNick' = [byNick EXCEPT ![state'[c].nick] = c]
             /\ astray' = [e \in Conns |-> astray[e] \/ e \in Robbed]
    <3>1. byNick'[state'[c].nick] = c
          /\ \A m \in Nicks : byNick'[m] # c => byNick'[m] = byNick[m]
      BY <1>0, <2>4 DEF Typed
    <3>2. CASE d = c
      <4>1. ~astray'[c] => ~astray[c]
        BY <2>4
      <4>2. ~astray[c] => \A r \in Rooms, n \in Nicks : peers[r][n] = c =>
              /\ state[c].nick = n /\ state[c].room = r
              /\ phase[c] \in {"open", "done"}
        BY <1>2, <3>2 DEF Member
      <4>3. ~astray[c] => \A r \in Rooms, n \in Nicks : peers[r][n] = c =>
              state'[c].nick = n
        BY <2>4, <4>2, Values
      <4>4. Listed(c)'
        BY <2>4, <3>1 DEF Listed
      <4>. QED
        BY <2>1, <2>4, <3>2, <4>1, <4>2, <4>3, <4>4 DEF Member
    <3>3. CASE d # c
      <4>1. Listed(d) /\ d \notin Robbed => byNick'[state[d].nick] = d
        BY <1>0, <3>1, <3>3, NotRobbed
      <4>2. /\ state'[d] = state[d]
            /\ astray[d] => astray'[d]
            /\ ~astray'[d] => d \notin Robbed
        BY <2>4, <3>3
      <4>. QED
        BY <1>2, <2>1, <4>1, <4>2, MemberKept
    <3>. QED
      BY <3>2, <3>3
  <2>. QED
    BY <1>0, <1>7, <2>2, <2>3, <2>4, AuthenticateState
<1>8. ASSUME NEW n \in Nicks, Nick(c, n)
      PROVE  Member(d)'
  <2>1. phase' = phase /\ peers' = peers
    BY <1>0, <1>8, NickState DEF counts
  <2>2. WithoutOldNick(c) \in [Nicks -> Conns \cup {NoConn}]
        /\ \A m \in Nicks : WithoutOldNick(c)[m] # NoConn => WithoutOldNick(c)[m] = byNick[m]
    BY <1>0 DEF WithoutOldNick, Typed
  <2>3. CASE /\ state' = state /\ byNick' = WithoutOldNick(c)
             /\ astray' = [e \in Conns |-> astray[e] \/ e \in Robbed]
    <3>1. Listed(d) /\ d \notin Robbed => byNick'[state[d].nick] = d
      BY <1>0, <2>2, <2>3, Values, NotRobbed
    <3>2. astray[d] => astray'[d]
      BY <2>3
    <3>3. ~astray'[d] => d \notin Robbed
      BY <2>3
    <3>. QED
      BY <1>2, <2>1, <2>3, <3>1, <3>2, <3>3, MemberKept
  <2>4. CASE /\ \A e \in Conns \ {c} : state'[e] = state[e]
             /\ state'[c].room = state[c].room
             /\ state'[c].nick = n
             /\ byNick' = [WithoutOldNick(c) EXCEPT ![n] = c]
             /\ astray' = [e \in Conns |-> \/ astray[e] \/ e \in Robbed
                                           \/ e = c /\ state[c].room # NoRoom]
    <3>1. \A m \in Nicks : byNick'[m] = IF m = n THEN c ELSE WithoutOldNick(c)[m]
      BY <2>2, <2>4
    <3>2. CASE d = c
      <4>1. ~astray'[c] => ~astray[c] /\ state[c].room = NoRoom
        BY <2>4
      <4>2. ~astray'[c] => \A r \in Rooms, m \in Nicks : peers'[r][m] # c
        BY <1>2, <2>1, <3>2, <4>1, Values DEF Member
      <4>3. Listed(c)'
        BY <2>4, <3>1 DEF Listed
      <4>. QED
        BY <3>2, <4>2, <4>3 DEF Member
    <3>3. CASE d # c
      <4>1. Listed(d) /\ d \notin Robbed => byNick'[state[d].nick] = d
        <5>1. \A m \in Nicks : byNick'[m] = d => byNick[m] = d
          BY <2>2, <3>1, <3>3, Values
        <5>. QED
          BY <1>0, <5>1, NotRobbed
      <4>2. astray[d] => astray'[d]
        BY <2>4
      <4>3. ~astray'[d] => d \notin Robbed
        BY <2>4
      <4>. QED
        BY <1>2, <2>1, <2>4, <3>3, <4>1, <4>2, <4>3, MemberKept
    <3>. QED
      BY <3>2, <3>3
  <2>. QED
    BY <1>0, <1>8, <2>3, <2>4, NickState
<1>9. CASE Ordering(c)
  BY <1>0, <1>2, <1>9, OrderState, MemberKept DEF counts, tables, Listed
<1>10. CASE Move(c)
  <2>. DEFINE who == command[c].who
              to  == command[c].to
              n   == state[who].nick
              out == Unpeer(state[who].room, n)
  <2>1. /\ UNCHANGED <<phase, byNick, astray>>
        /\ peers' = IF to = NoRoom THEN out ELSE [out EXCEPT ![to][n] = who]
    BY <1>10 DEF Move, counts
  <2>2. /\ command[c] \in MovingCommands /\ who \in Conns /\ to \in MaybeRoom
        /\ \A e \in Conns \ {who} : state'[e] = state[e]
        /\ state'[who].room = to /\ state'[who].nick = n
        /\ state'[who].registered = state[who].registered
    BY <1>0, <1>10, MoveState
  <2>3. /\ n \in Nicks
        /\ to # NoRoom => who = c /\ state[c].authed
    <3>1. /\ n # NoNick
          /\ (command[c].step = "move" /\ to # NoRoom) => who = c /\ state[c].authed
      BY <1>0, <2>2 DEF CommandsMakeSense
    <3>2. n \in MaybeNick
      BY <1>0, <2>2 DEF Typed, States
    <3>. QED
      BY <1>10, <3>1, <3>2 DEF Move, MaybeNick
  <2>4. \A r \in Rooms, m \in Nicks :
          out[r][m] = IF r = state[who].room /\ m = n THEN NoConn ELSE peers[r][m]
    BY <1>0, <2>3, Values DEF Unpeer, Typed
  <2>5. out \in [Rooms -> [Nicks -> Conns \cup {NoConn}]]
    BY <1>0 DEF Unpeer, Typed
  <2>. HIDE DEF out, n, who, to
  <2>6. \A r \in Rooms, m \in Nicks :
          peers'[r][m] = IF to # NoRoom /\ r = to /\ m = n THEN who ELSE out[r][m]
    BY <2>1, <2>2, <2>3, <2>5 DEF MaybeRoom
  <2>7. CASE d = who
    <3>1. ~astray[d] => \A r \in Rooms, m \in Nicks : out[r][m] # d
      BY <1>2, <2>4, <2>7, Values DEF Member, n
    <3>2. ~astray[d] => \A r \in Rooms, m \in Nicks :
            peers'[r][m] = d => to # NoRoom /\ r = to /\ m = n
      BY <2>6, <3>1
    <3>3. to # NoRoom => state[d].registered /\ phase[d] = "open"
      <4>1. to # NoRoom => state[d].authed
        BY <2>3, <2>7
      <4>. QED
        BY <1>0, <4>1 DEF Registered, RegisteredIsOpen
    <3>4. ~astray[d] /\ state[d].registered => Listed(d)
      BY <1>2 DEF Member
    <3>5. Listed(d) => Listed(d)'
      BY <2>1, <2>2, <2>7 DEF Listed, n
    <3>. QED
      BY <2>1, <2>2, <2>7, <3>2, <3>3, <3>4, <3>5 DEF Member
  <2>8. CASE d # who
    <3>1. \A r \in Rooms, m \in Nicks : peers'[r][m] = d => peers[r][m] = d
      BY <2>4, <2>6, <2>8, Values
    <3>. QED
      BY <1>2, <2>1, <2>2, <2>8, <3>1, MemberKept DEF Listed
  <2>. QED
    BY <2>7, <2>8
<1>11. CASE Tell(c) \/ PollerUpdate(c)
  <2>1. UNCHANGED <<state, phase, byNick, peers, astray>>
    BY <1>11 DEF Tell, PollerUpdate, counts, tables
  <2>. QED
    BY <1>2, <2>1, MemberKept DEF Listed
<1>. QED
  BY <1>3, <1>4, <1>5, <1>6, <1>7, <1>8, <1>9, <1>10, <1>11 DEF Step

-----------------------------------------------------------------------------
(* The pollers.                                                            *)

(* The last of a sequence stays when its first is taken.                   *)
LEMMA TailKeepsLast ==
  ASSUME NEW S, NEW q \in Seq(S), q # <<>>, Len(q) # 1
  PROVE  Tail(q) # <<>> /\ Tail(q)[Len(Tail(q))] = q[Len(q)]
<1>0. Len(q) \in Nat \ {0}
  BY EmptySeq
<1>1. Len(q) > 1
  <2>1. \A k \in Nat \ {0} : k # 1 => k > 1
    OBVIOUS
  <2>. QED
    BY <1>0, <2>1
<1>. QED
  BY <1>0, <1>1, HeadTailProperties

(* A step that sends, takes and orders nothing for f changes nothing here. *)
LEMMA FollowedKept ==
  ASSUME NEW f \in Conns, Followed(f),
         phase'[f] = "open" => phase[f] = "open",
         raced[f] => raced'[f],
         state'[f].room = state[f].room,
         line'[f] = line[f], reading'[f] = reading[f],
         \A d \in Conns : Telling(d, f)' <=> Telling(d, f),
         \A d \in Conns : Telling(d, f) => command'[d] = command[d]
  PROVE  Followed(f)'
<1>1. LastRead(f)' = LastRead(f)
  BY DEF LastRead
<1>2. SUFFICES ASSUME phase[f] = "open", ~raced[f]
               PROVE  Followed(f)'
  BY DEF Followed
<1>3. /\ \A d \in Conns : Telling(d, f)' => command'[d].to = state'[f].room
      /\ \A d, e \in Conns : Telling(d, f)' /\ Telling(e, f)' => d = e
      /\ (\A d \in Conns : ~Telling(d, f)') => state'[f].room = LastRead(f)'
  BY <1>1, <1>2 DEF Followed
<1>. QED
  BY <1>3 DEF Followed

(* Who is idle, registering or about to move a client tells no poller.     *)
LEMMA NotTelling ==
  ASSUME NEW d \in Conns, NEW f \in Conns,
         command[d].step # "tell", command'[d].step # "tell"
  PROVE  ~Telling(d, f) /\ ~Telling(d, f)'
  BY DEF Telling

LEMMA FollowedStep ==
  ASSUME Basics, AllFollowed, NEW c \in Conns, Step(c)
  PROVE  AllFollowed'
<1>0. Typed /\ Registered /\ CommandsMakeSense /\ NewIsFresh /\ RegistryNamesLiveClients
  BY DEF Basics
<1>1. SUFFICES ASSUME NEW f \in Conns PROVE Followed(f)'
  BY DEF AllFollowed
<1>2. Followed(f)
  BY DEF AllFollowed
<1>3. Idle.step # "tell" /\ Auth.step # "tell"
  BY DEF Idle, Auth
<1>4. command \in [Conns -> Commands]
  BY <1>0 DEF Typed
<1>5. CASE Accept(c)
  <2>1. /\ UNCHANGED <<state, command, line, reading, raced>> /\ phase[c] = "new"
        /\ \A e \in Conns \ {c} : phase'[e] = phase[e]
    BY <1>0, <1>5 DEF Accept, pollers, Typed
  <2>2. CASE f = c
    <3>1. \A d \in Conns : ~Telling(d, f)
      BY <1>0, <1>4, <2>1, <2>2, CommandSteps DEF Telling, CommandsMakeSense
    <3>2. state[f].room = LastRead(f)
      BY <1>0, <2>1, <2>2 DEF NewIsFresh, LastRead
    <3>3. (\A d \in Conns : ~Telling(d, f)') /\ state'[f].room = LastRead(f)'
      BY <2>1, <3>1, <3>2 DEF Telling, LastRead
    <3>. QED
      BY <3>3 DEF Followed
  <2>3. CASE f # c
    BY <1>2, <2>1, <2>3, FollowedKept DEF Telling
  <2>. QED
    BY <2>2, <2>3
<1>6. CASE HangUp(c)
  <2>1. /\ UNCHANGED <<command, raced>> /\ phase'[c] = "done"
        /\ \A e \in Conns \ {c} : /\ phase'[e] = phase[e] /\ line'[e] = line[e]
                                  /\ reading'[e] = reading[e] /\ state'[e] = state[e]
    BY <1>0, <1>6, HangUpState DEF HangUp, Typed
  <2>2. CASE f = c
    BY <2>1, <2>2 DEF Followed
  <2>3. CASE f # c
    BY <1>2, <2>1, <2>3, FollowedKept DEF Telling
  <2>. QED
    BY <2>2, <2>3
<1>7. CASE Unregister(c) \/ Release(c)
  <2>1. UNCHANGED <<state, command, line, reading, raced>>
    BY <1>7 DEF Unregister, Release, pollers
  <2>2. phase'[f] = "open" => phase[f] = "open"
    BY <1>0, <1>7 DEF Unregister, Release, Typed
  <2>. QED
    BY <1>2, <2>1, <2>2, FollowedKept DEF Telling
<1>8. CASE Preparing(c) \/ \E n \in Nicks : Nick(c, n)
  <2>1. /\ UNCHANGED <<phase, line, reading, raced>>
        /\ state'[f].room = state[f].room /\ command[c] = Idle
        /\ command' = command \/ command' = [command EXCEPT ![c] = Auth]
    <3>1. CASE Preparing(c)
      BY <1>0, <3>1, PreparingState DEF SameStanding, Ready, counts, pollers
    <3>2. CASE \E n \in Nicks : Nick(c, n)
      BY <1>0, <3>2, NickState DEF Ready, counts, pollers
    <3>. QED
      BY <1>8, <3>1, <3>2
  <2>2. /\ command[c].step # "tell" /\ command'[c].step # "tell"
        /\ \A d \in Conns \ {c} : command'[d] = command[d]
    BY <1>3, <1>4, <2>1
  <2>3. \A d \in Conns : /\ Telling(d, f)' <=> Telling(d, f)
                         /\ Telling(d, f) => command'[d] = command[d]
    BY <2>2 DEF Telling
  <2>. QED
    BY <1>2, <2>1, <2>3, FollowedKept
<1>9. CASE Authenticate(c)
  <2>1. /\ UNCHANGED <<phase, line, reading, raced>>
        /\ command[c].step = "auth" /\ command' = [command EXCEPT ![c] = Idle]
    BY <1>9 DEF Authenticate, counts, pollers
  <2>2. state'[f].room = state[f].room
    BY <1>0, <1>9, AuthenticateState
  <2>3. \A d \in Conns : /\ Telling(d, f)' <=> Telling(d, f)
                         /\ Telling(d, f) => command'[d] = command[d]
    BY <1>3, <1>4, <2>1 DEF Telling
  <2>. QED
    BY <1>2, <2>1, <2>2, <2>3, FollowedKept
<1>10. CASE Ordering(c)
  <2>1. PICK who \in Conns, to \in MaybeRoom :
          command' = [command EXCEPT ![c] = [step |-> "move", who |-> who, to |-> to]]
    BY <1>0, <1>10, OrderState
  <2>2. UNCHANGED <<phase, state, line, reading, raced>> /\ command[c] = Idle
    BY <1>0, <1>10, OrderState DEF counts, pollers, Ready
  <2>3. \A d \in Conns : /\ Telling(d, f)' <=> Telling(d, f)
                         /\ Telling(d, f) => command'[d] = command[d]
    BY <1>3, <1>4, <2>1, <2>2 DEF Telling
  <2>. QED
    BY <1>2, <2>2, <2>3, FollowedKept
<1>11. CASE Move(c)
  <2>. DEFINE who == command[c].who
  <2>1. UNCHANGED <<phase, line, reading>>
        /\ raced' = [raced EXCEPT ![who] = @ \/ TellPending(who)]
        /\ command[c].step = "move"
    BY <1>11 DEF Move, counts, pollers
  <2>2. /\ who \in Conns
        /\ \A d \in Conns \ {who} : state'[d] = state[d]
        /\ state'[who].room = command[c].to
        /\ \A d \in Conns \ {c} : command'[d] = command[d]
        /\ command'[c].step = "tell" /\ command'[c].who = who
        /\ command'[c].to = command[c].to
    BY <1>0, <1>11, MoveState
  <2>3. CASE f = who
    <3>1. SUFFICES ASSUME ~raced'[f] PROVE Followed(f)'
      BY DEF Followed
    <3>2. ~TellPending(f)
      BY <1>0, <2>1, <2>2, <2>3, <3>1 DEF Typed
    <3>3. \A d \in Conns : Telling(d, f)' <=> d = c
      BY <2>2, <2>3, <3>2 DEF Telling, TellPending
    <3>. QED
      BY <2>2, <2>3, <3>3 DEF Followed
  <2>4. CASE f # who
    <3>1. \A d \in Conns : /\ Telling(d, f)' <=> Telling(d, f)
                           /\ Telling(d, f) => command'[d] = command[d]
      BY <2>1, <2>2, <2>4 DEF Telling
    <3>2. raced'[f] = raced[f]
      BY <1>0, <2>1, <2>2, <2>4 DEF Typed
    <3>. QED
      BY <1>2, <2>1, <2>2, <2>4, <3>1, <3>2, FollowedKept
  <2>. QED
    BY <2>3, <2>4
<1>12. CASE Tell(c)
  <2>. DEFINE who  == command[c].who
              to   == command[c].to
              full == Len(line[who]) >= LineCap
  <2>1. /\ UNCHANGED <<phase, state, reading>> /\ command[c].step = "tell"
        /\ line' = IF full \/ phase[who] # "open" THEN line
                    ELSE [line EXCEPT ![who] = Append(@, to)]
        /\ raced' = [raced EXCEPT ![who] = @ \/ full]
        /\ command' = [command EXCEPT ![c] = Idle]
    BY <1>12 DEF Tell, counts, tables
  <2>2. who \in Conns /\ to \in MaybeRoom
    BY <1>4, <2>1, CommandSteps
  <2>3. ~Telling(c, f)' /\ \A d \in Conns \ {c} : command'[d] = command[d]
    BY <1>3, <1>4, <2>1 DEF Telling
  <2>4. CASE f = who
    <3>1. SUFFICES ASSUME phase[f] = "open", ~raced'[f] PROVE Followed(f)'
      BY <2>1 DEF Followed
    <3>2. ~raced[f] /\ ~full
      BY <1>0, <2>1, <2>2, <2>4, <3>1 DEF Typed
    <3>3. Telling(c, f) /\ to = state[f].room
      BY <1>2, <2>1, <2>4, <3>1, <3>2 DEF Telling, Followed
    <3>4. \A d \in Conns : ~Telling(d, f)'
      <4>1. \A d \in Conns : Telling(d, f) => d = c
        BY <1>2, <3>1, <3>2, <3>3 DEF Followed
      <4>. QED
        BY <2>3, <4>1 DEF Telling
    <3>5. line'[f] = Append(line[f], to) /\ line[f] \in Seq(MaybeRoom)
      BY <1>0, <2>1, <2>2, <2>4, <3>1, <3>2 DEF Typed
    <3>6. line'[f] # <<>> /\ line'[f][Len(line'[f])] = to
      BY <2>2, <3>5
    <3>7. LastRead(f)' = to
      BY <3>6 DEF LastRead
    <3>. QED
      BY <2>1, <3>3, <3>4, <3>7 DEF Followed
  <2>5. CASE f # who
    <3>1. \A d \in Conns : /\ Telling(d, f)' <=> Telling(d, f)
                           /\ Telling(d, f) => command'[d] = command[d]
      BY <2>3, <2>5 DEF Telling
    <3>2. raced'[f] = raced[f] /\ line'[f] = line[f]
      BY <1>0, <2>1, <2>2, <2>5 DEF Typed
    <3>. QED
      BY <1>2, <2>1, <3>1, <3>2, FollowedKept
  <2>. QED
    BY <2>4, <2>5
<1>13. CASE PollerUpdate(c)
  <2>1. /\ UNCHANGED <<phase, state, command, raced>> /\ line[c] # <<>>
        /\ line'    = [line EXCEPT ![c] = Tail(line[c])]
        /\ reading' = [reading EXCEPT ![c] = Head(line[c])]
    BY <1>13 DEF PollerUpdate, counts
  <2>2. CASE f = c
    <3>1. /\ line[f] \in Seq(MaybeRoom) /\ line[f] # <<>>
          /\ line'[f] = Tail(line[f]) /\ reading'[f] = Head(line[f])
      BY <1>0, <2>1, <2>2 DEF Typed
    <3>2. LastRead(f)' = LastRead(f)
      <4>1. CASE Len(line[f]) = 1
        BY <3>1, <4>1 DEF LastRead
      <4>2. CASE Len(line[f]) # 1
        BY <3>1, <4>2, TailKeepsLast DEF LastRead
      <4>. QED
        BY <4>1, <4>2
    <3>. QED
      BY <1>2, <2>1, <3>2 DEF Followed, Telling
  <2>3. CASE f # c
    <3>1. line'[f] = line[f] /\ reading'[f] = reading[f]
      BY <1>0, <2>1, <2>3 DEF Typed
    <3>. QED
      BY <1>2, <2>1, <3>1, FollowedKept DEF Telling
  <2>. QED
    BY <2>2, <2>3
<1>. QED
  BY <1>5, <1>6, <1>7, <1>8, <1>9, <1>10, <1>11, <1>12, <1>13 DEF Step

-----------------------------------------------------------------------------
(* The invariant, and what follows from it.                                *)

IrcInv ==
  /\ Basics /\ LinesFit /\ ConnectionsCounted
  /\ RegisteredIsOpen /\ Members /\ AllFollowed

LEMMA IrcInvInit == Init => IrcInv
<1>. SUFFICES ASSUME Init PROVE IrcInv
  OBVIOUS
<1>1. Typed
  BY InitTyped
<1>2. /\ \A c \in Conns : /\ phase[c] = "new" /\ command[c] = Idle
                          /\ state[c] = Fresh /\ line[c] = <<>> /\ reading[c] = NoRoom
      /\ \A n \in Nicks : byNick[n] = NoConn
      /\ total = 0 /\ \A i \in IPs : byIP[i] = 0
  BY DEF Init
<1>3. Registered /\ CommandsMakeSense /\ NewIsFresh /\ RegistryNamesLiveClients
  BY <1>2, Values DEF Registered, CommandsMakeSense, NewIsFresh, RegistryNamesLiveClients
<1>4. LinesFit
  BY <1>2, IrcConstants DEF LinesFit
<1>5. Counted = {} /\ \A i \in IPs : {c \in Counted : ip[c] = i} = {}
  BY <1>2 DEF Counted
<1>6. ConnectionsCounted
  BY <1>2, <1>5, FS_EmptySet, IrcConstants DEF ConnectionsCounted
<1>7. RegisteredIsOpen
  BY <1>2, Values DEF RegisteredIsOpen
<1>8. \A c \in Conns, r \in Rooms, n \in Nicks : peers[r][n] # c
  BY Values DEF Init
<1>9. Members
  BY <1>2, <1>8, Values DEF Members, Member
<1>10. AllFollowed
  BY <1>2 DEF AllFollowed, Followed
<1>. QED
  BY <1>1, <1>3, <1>4, <1>6, <1>7, <1>9, <1>10 DEF IrcInv, Basics

LEMMA IrcInvNext == IrcInv /\ [Next]_vars => IrcInv'
<1>. SUFFICES ASSUME IrcInv, [Next]_vars PROVE IrcInv'
  OBVIOUS
<1>0. /\ Basics /\ LinesFit /\ ConnectionsCounted
      /\ RegisteredIsOpen /\ Members /\ AllFollowed
  BY DEF IrcInv
<1>1. ASSUME NEW c \in Conns, Step(c) PROVE IrcInv'
  <2>1. Basics'
    BY <1>0, <1>1, TypedStep, StandingStep, CommandsStep, NewIsFreshStep, RegistryStep
    DEF Basics
  <2>2. LinesFit' /\ ConnectionsCounted' /\ RegisteredIsOpen'
    BY <1>0, <1>1, LinesFitStep, ConnectionsCountedStep, RegisteredIsOpenStep
  <2>3. Members' /\ AllFollowed'
    BY <1>0, <1>1, MembersStep, FollowedStep
  <2>. QED
    BY <2>1, <2>2, <2>3 DEF IrcInv
<1>2. CASE UNCHANGED vars
  <2>. USE DEF vars, counts, tables, pollers
  <2>1. Typed'
    BY <1>0, <1>2 DEF Basics, Typed
  <2>2. Registered' /\ CommandsMakeSense' /\ NewIsFresh' /\ RegistryNamesLiveClients'
    BY <1>0, <1>2 DEF Basics, Registered, CommandsMakeSense, NewIsFresh,
                      RegistryNamesLiveClients
  <2>3. LinesFit' /\ ConnectionsCounted' /\ RegisteredIsOpen'
    BY <1>0, <1>2 DEF LinesFit, ConnectionsCounted, Counted, RegisteredIsOpen
  <2>4. Members'
    BY <1>0, <1>2 DEF Members, Member, Listed
  <2>5. AllFollowed'
    BY <1>0, <1>2 DEF AllFollowed, Followed, Telling, LastRead
  <2>. QED
    BY <2>1, <2>2, <2>3, <2>4, <2>5 DEF IrcInv, Basics
<1>. QED
  BY <1>1, <1>2, Steps

LEMMA IrcInvariant == Spec => []IrcInv
  BY IrcInvInit, IrcInvNext, PTL DEF Spec

(* The types of the gateway's state hold, however its goroutines take      *)
(* turns: in particular a client moved between channels has a nick to be   *)
(* listed under, and no poller's channel is over capacity.                 *)
THEOREM IrcTypesHold == Spec => []TypeOK
<1>1. IrcInv => TypeOK
  <2>. SUFFICES ASSUME IrcInv PROVE TypeOK
    OBVIOUS
  <2>1. Typed /\ Registered /\ CommandsMakeSense /\ LinesFit
    BY DEF IrcInv, Basics
  <2>2. \A c \in Conns : /\ Len(line[c]) <= LineCap
                         /\ state[c].authed => state[c].nick # NoNick
    BY <2>1 DEF LinesFit, Registered
  <2>3. \A c \in Conns : command[c].step \in {"move", "tell"} =>
                           state[command[c].who].nick # NoNick
    BY <2>1, CommandSteps DEF Typed, CommandsMakeSense
  <2>4. \A c \in Conns :
          /\ Len(line[c]) <= LineCap
          /\ state[c].authed => state[c].nick # NoNick
          /\ command[c].step \in {"move", "tell"} =>
               state[command[c].who].nick # NoNick
    BY <2>2, <2>3
  <2>5. state \in [Conns -> [nick : MaybeNick, user : MaybeNick, pass : MaybeNick,
                            sasl : {"off", "requested", "awaiting"},
                            authed : BOOLEAN, registered : BOOLEAN, oper : BOOLEAN,
                            room : MaybeRoom]]
    BY <2>1, Zenon DEF Typed, States
  <2>6. command \in [Conns -> {Idle, [step |-> "auth"]}
                     \cup [step : {"move", "tell"}, who : Conns, to : MaybeRoom]]
    BY <2>1, Zenon DEF Typed, Commands, MovingCommands, Auth
  <2>7. phase \in [Conns -> {"new", "open", "done", "gone", "closed"}]
    BY <2>1, Zenon DEF Typed, Phases
  <2>8. /\ total \in Nat /\ byIP \in [IPs -> Nat] /\ ip \in [Conns -> IPs]
        /\ byNick \in [Nicks -> Conns \cup {NoConn}]
        /\ peers \in [Rooms -> [Nicks -> Conns \cup {NoConn}]]
        /\ line \in [Conns -> Seq(MaybeRoom)] /\ reading \in [Conns -> MaybeRoom]
        /\ astray \in [Conns -> BOOLEAN] /\ raced \in [Conns -> BOOLEAN]
    BY <2>1 DEF Typed
  <2>. QED
    BY <2>4, <2>5, <2>6, <2>7, <2>8, Zenon DEF TypeOK
<1>. QED
  BY <1>1, IrcInvariant, PTL

(* registerConnection and releaseConnection keep exact counts: neither the *)
(* cap on all connections nor the one for an address is ever exceeded, and *)
(* no count outlives its connections.                                      *)
THEOREM ConnectionsAreCounted == Spec => []ConnectionsCounted
<1>1. IrcInv => ConnectionsCounted
  BY DEF IrcInv
<1>. QED
  BY <1>1, IrcInvariant, PTL

(* clientsByNick names for each nick a connected client that goes by it.   *)
THEOREM RegistryNamesOnlyLiveClients == Spec => []RegistryNamesLiveClients
<1>1. IrcInv => RegistryNamesLiveClients
  BY DEF IrcInv, Basics
<1>. QED
  BY <1>1, IrcInvariant, PTL

(* A channel never broadcasts to a connection that is not in it, has gone  *)
(* or goes by another nick, but for the two causes the history variable    *)
(* astray records: however JOIN, PART, KICK, NICK, registration and the    *)
(* end of connections take turns, no other step leaves a ghost.            *)
THEOREM GhostsHaveTheirCause == Spec => []GhostsHaveACause
<1>1. IrcInv => GhostsHaveACause
  <2>. SUFFICES ASSUME IrcInv, NEW r \in Rooms, NEW n \in Nicks, peers[r][n] # NoConn,
                       ~astray[peers[r][n]]
                PROVE  LET c == peers[r][n] IN
                       /\ state[c].nick = n /\ state[c].room = r
                       /\ phase[c] \in {"open", "done"}
    BY DEF GhostsHaveACause
  <2>1. peers[r][n] \in Conns
    BY DEF IrcInv, Basics, Typed
  <2>. QED
    BY <2>1 DEF IrcInv, Members, Member
<1>. QED
  BY <1>1, IrcInvariant, PTL

(* Unless an update was dropped or two moves of one client crossed, the    *)
(* poller of a connection is on the channel of its client, or is told of   *)
(* it last.                                                                *)
THEOREM PollersFollow == Spec => []PollerFollowsClient
<1>1. IrcInv => PollerFollowsClient
  <2>. SUFFICES ASSUME IrcInv, NEW c \in Conns, phase[c] = "open", ~raced[c],
                       ~TellPending(c)
                PROVE  state[c].room = LastRead(c)
    BY DEF PollerFollowsClient, LastRead
  <2>1. \A d \in Conns : ~Telling(d, c)
    BY DEF TellPending, Telling
  <2>. QED
    BY <2>1 DEF IrcInv, AllFollowed, Followed
<1>. QED
  BY <1>1, IrcInvariant, PTL

=============================================================================
