------------------------- MODULE NodeSessionsProofs -------------------------
(***************************************************************************)
(* What the goroutines of the callers guarantee over the node manager, for *)
(* any number of sessions, nodes and crashes.                              *)
(*                                                                         *)
(* What the manager does by itself was proved of SessionManager; here P is *)
(* that module of proofs for this instance of the manager, so its lemmas   *)
(* apply to every step that is one call of the manager.  The rest is about *)
(* one terminal at a time: what a goroutine may find and leave at each     *)
(* phase (Own), and that no other goroutine changes it (Apart), which      *)
(* needs that no two terminals have the same session id (OwnIds).          *)
(***************************************************************************)
EXTENDS NodeSessions, FiniteSetTheorems, TLAPS

P == INSTANCE SessionManagerProofs WITH Areas <- {Area}, Welcome <- Area,
                                        MaxStarts <- Cardinality(Terms)

(* No two channels are multiplexed on one SSH connection.                  *)
OwnIds == \A x, y \in Terms : SidOf[x] = SidOf[y] => x = y

Step(t) ==
  \/ Connect(t) \/ Saving(t) \/ Move(t) \/ Greet(t)
  \/ \E u \in Users : Login(t, u)
  \/ SignOffSSH(t) \/ SignOffText(t) \/ Drop(t) \/ Leaving(t)

-----------------------------------------------------------------------------
(* The manager.                                                            *)

LEMMA ManagerConstants ==
  ASSUME NodeSessionConstants
  PROVE  P!SessionConstants
<1>1. Cardinality(Terms) \in Nat
  BY FS_CardinalityType DEF NodeSessionConstants
<1> QED BY <1>1 DEF NodeSessionConstants, P!SessionConstants

(* The two instances are the same manager.                                 *)
LEMMA SameManager ==
  /\ M!TypeOK <=> P!TypeOK
  /\ M!NodeAssignment <=> P!NodeAssignment
  /\ M!TypeOK' <=> P!TypeOK'
  /\ M!NodeAssignment' <=> P!NodeAssignment'
BY DEF M!TypeOK, M!Nodes, M!Callers, M!Endings, M!Notices, M!NodeAssignment,
       P!TypeOK, P!Nodes, P!Callers, P!Endings, P!Notices, P!NodeAssignment

LEMMA SameStart ==
  ASSUME NEW s \in Sids, NEW u \in Users
  PROVE  M!Start(s, u) <=> P!Start(s, u)
BY DEF M!Start, M!Live, M!FreeNodes, M!Nodes, M!LowestFree,
       P!Start, P!Live, P!FreeNodes, P!Nodes, P!LowestFree

LEMMA SameEnd ==
  ASSUME NEW s \in Sids
  PROVE  M!End(s) <=> P!End(s)
BY DEF M!End, M!EndLive, M!Live, M!Newest, M!CallerOf, M!Interrupted, M!Offline, M!managerVars,
       P!End, P!EndLive, P!Live, P!Newest, P!CallerOf, P!Interrupted, P!Offline, P!managerVars

LEMMA SameSetters ==
  ASSUME NEW s \in Sids, NEW u \in Users, NEW a
  PROVE  /\ M!SetUser(s, u) <=> P!SetUser(s, u)
         /\ M!SetArea(s, a) <=> P!SetArea(s, a)
         /\ M!MarkCleanExit(s) <=> P!MarkCleanExit(s)
         /\ M!TakeReconnectNotice(u) <=> P!TakeReconnectNotice(u)
BY DEF M!SetUser, M!SetArea, M!MarkCleanExit, M!TakeReconnectNotice, M!Live, M!NoNotice,
       P!SetUser, P!SetArea, P!MarkCleanExit, P!TakeReconnectNotice, P!Live, P!NoNotice

(* Every step of a terminal is a call of the manager, or leaves it alone.  *)
LEMMA CallsManager ==
  ASSUME NodeSessionConstants, TypeOK, NEW t \in Terms, Step(t)
  PROVE  [P!Next]_P!managerVars
<1>1. SidOf[t] \in Sids /\ who[t] \in Users /\ Guest \in Users
  BY DEF Sids, TypeOK, NodeSessionConstants
<1>2. ASSUME UNCHANGED manager PROVE UNCHANGED P!managerVars
  BY <1>2 DEF manager, P!managerVars
<1>3. CASE Connect(t)
  BY <1>1, <1>2, <1>3, SameStart
     DEF Connect, ConnectNew, ConnectExisting, ConnectRefused, P!Next
<1>4. CASE Saving(t) \/ SignOffText(t) \/ Drop(t) \/ LeaveGet(t) \/ LeaveDeleteRow(t) \/ LeaveLog(t)
  BY <1>2, <1>4 DEF Saving, PersistGet, PersistUpsert, SignOffText, Drop,
                    LeaveGet, LeaveDeleteRow, LeaveLog
<1>5. CASE Move(t) \/ Greet(t) \/ SignOffSSH(t) \/ \E u \in Users : Login(t, u)
  BY <1>1, <1>5, SameSetters DEF Move, Greet, SignOffSSH, Login, P!Next
<1>6. CASE LeaveEnd(t)
  BY <1>1, <1>6, SameEnd DEF LeaveEnd, P!Next
<1> QED BY <1>3, <1>4, <1>5, <1>6 DEF Step, Leaving

(* A crash leaves the manager as it starts.                                *)
LEMMA CrashEmptiesManager ==
  ASSUME NodeSessionConstants, TypeOK, Crash
  PROVE  /\ M!TypeOK' /\ M!NodeAssignment'
         /\ \A s \in Sids : sessions'[s].node = 0
         /\ \A u \in Users : reconnect'[u].sid = NoSid
<1> USE DEF NodeSessionConstants, TypeOK, Crash, M!Nodes, M!Offline, M!NoNotice
<1>1. M!TypeOK'
  <2>1. M!TypeOK
    OBVIOUS
  <2> QED BY <2>1 DEF M!TypeOK, M!Notices
<1>2. M!NodeAssignment'
  BY DEF M!NodeAssignment
<1> QED BY <1>1, <1>2

-----------------------------------------------------------------------------
(* Types.                                                                  *)

LEMMA NodeOfSession ==
  ASSUME TypeOK, NEW t \in Terms
  PROVE  /\ SidOf[t] \in Sids
         /\ sessions[SidOf[t]] \in [node : 0..MaxNodes, user : Users,
                                     area : {Area}, clean : BOOLEAN]
<1>1. SidOf[t] \in Sids
  BY DEF Sids
<1> QED BY <1>1 DEF TypeOK, M!TypeOK

LEMMA StartGivesANode ==
  ASSUME NodeSessionConstants, NEW t \in Terms, M!Start(SidOf[t], Guest)
  PROVE  M!LowestFree \in 1..MaxNodes
<1>1. P!FreeNodes # {} /\ M!LowestFree = P!LowestFree
  BY DEF M!Start, M!FreeNodes, M!Nodes, M!LowestFree, P!FreeNodes, P!Nodes, P!LowestFree
<1>2. P!LowestFree \in P!FreeNodes
  BY <1>1, ManagerConstants, P!LowestFreeIsFree
<1> QED BY <1>1, <1>2 DEF P!FreeNodes, P!Nodes

LEMMA LocalTypes ==
  ASSUME NodeSessionConstants, TypeOK, NEW t \in Terms, Step(t)
  PROVE  /\ phase' \in [Terms -> Phases]
         /\ who' \in [Terms -> Users]
         /\ told' \in [Terms -> 0..MaxNodes]
         /\ snap' \in [Terms -> 0..MaxNodes]
<1> DEFINE Typed == /\ phase' \in [Terms -> Phases]
                    /\ who' \in [Terms -> Users]
                    /\ told' \in [Terms -> 0..MaxNodes]
                    /\ snap' \in [Terms -> 0..MaxNodes]
<1>1. /\ phase \in [Terms -> Phases] /\ who \in [Terms -> Users]
      /\ told \in [Terms -> 0..MaxNodes] /\ snap \in [Terms -> 0..MaxNodes]
      /\ sessions[SidOf[t]].node \in 0..MaxNodes /\ MaxNodes \in Nat
      /\ 1..MaxNodes \subseteq 0..MaxNodes
  BY NodeOfSession DEF TypeOK, NodeSessionConstants
<1>2. CASE Connect(t)
  <2>1. CASE ConnectNew(t)
    BY <1>1, <1>2, <2>1, StartGivesANode DEF Connect, ConnectNew, Goto, Connected, Phases
  <2>2. CASE ConnectExisting(t) \/ ConnectRefused(t)
    BY <1>1, <1>2, <2>2 DEF Connect, ConnectExisting, ConnectRefused, Goto, Connected, Phases
  <2> QED BY <1>2, <2>1, <2>2 DEF Connect
<1>3. CASE PersistGet(t) \/ PersistUpsert(t)
  BY <1>1, <1>3 DEF PersistGet, PersistUpsert, AfterSaving, Phases
<1>4. CASE Move(t) \/ Greet(t) \/ SignOffSSH(t) \/ SignOffText(t) \/ Drop(t)
  BY <1>1, <1>4 DEF Move, Greet, SignOffSSH, SignOffText, Drop, Goto, local, Phases
<1>5. ASSUME NEW u \in Users, Login(t, u) PROVE Typed
  BY <1>1, <1>5 DEF Login, Goto, Phases
<1>6. CASE Leaving(t)
  BY <1>1, <1>6 DEF Leaving, LeaveGet, LeaveEnd, LeaveDeleteRow, LeaveLog, Goto, local, Phases
<1> QED BY <1>2, <1>3, <1>4, <1>5, <1>6 DEF Step, Saving

LEMMA TableTypes ==
  ASSUME NodeSessionConstants, TypeOK, NEW t \in Terms, Step(t)
  PROVE  /\ rows' \in [Sids -> 0..MaxNodes]
         /\ callerLog' \in [Sids -> Nat]
         /\ signedOff' \subseteq Sids /\ lost' \subseteq Sids /\ crashes' \in Nat
<1> DEFINE Typed == /\ rows' \in [Sids -> 0..MaxNodes]
                    /\ callerLog' \in [Sids -> Nat]
                    /\ signedOff' \subseteq Sids /\ lost' \subseteq Sids /\ crashes' \in Nat
<1>1. /\ rows \in [Sids -> 0..MaxNodes] /\ callerLog \in [Sids -> Nat]
      /\ signedOff \subseteq Sids /\ lost \subseteq Sids /\ crashes \in Nat
      /\ snap[t] \in 0..MaxNodes /\ 0 \in 0..MaxNodes /\ SidOf[t] \in Sids
  BY NodeOfSession DEF TypeOK, NodeSessionConstants
<1>2. CASE Connect(t) \/ PersistGet(t) \/ Move(t) \/ Greet(t) \/ Drop(t)
           \/ LeaveGet(t) \/ LeaveEnd(t)
  BY <1>1, <1>2 DEF Connect, PersistGet, Move, Greet, Drop, LeaveGet, LeaveEnd, tables, ghosts
<1>3. CASE PersistUpsert(t) \/ LeaveDeleteRow(t)
  BY <1>1, <1>3 DEF PersistUpsert, LeaveDeleteRow, ghosts
<1>4. ASSUME NEW u \in Users, Login(t, u) PROVE Typed
  BY <1>1, <1>4 DEF Login, tables, ghosts
<1>5. CASE SignOffSSH(t) \/ SignOffText(t)
  BY <1>1, <1>5 DEF SignOffSSH, SignOffText, tables
<1>6. CASE LeaveLog(t)
  BY <1>1, <1>6 DEF LeaveLog, ghosts
<1> QED BY <1>2, <1>3, <1>4, <1>5, <1>6 DEF Step, Saving, Leaving

(* Steps that are not a terminal's leave the manager, or empty it.         *)
LEMMA OtherSteps ==
  ASSUME [Next]_vars
  PROVE  \/ \E t \in Terms : Step(t)
         \/ \E s \in Sids : Prune(s)
         \/ Crash
         \/ UNCHANGED vars
BY DEF Next, Step

LEMMA TypeStep ==
  ASSUME NodeSessionConstants, TypeOK, [Next]_vars
  PROVE  TypeOK'
<1>1. ASSUME NEW t \in Terms, Step(t) PROVE TypeOK'
  <2>1. M!TypeOK'
    <3>1. P!TypeOK
      BY SameManager DEF TypeOK
    <3>2. [P!Next]_P!managerVars
      BY <1>1, CallsManager
    <3>3. P!TypeOK'
      BY <3>1, <3>2, ManagerConstants, P!TypeStep
    <3> QED BY <3>3, SameManager
  <2> QED BY <1>1, <2>1, LocalTypes, TableTypes DEF TypeOK
<1>2. ASSUME NEW s \in Sids, Prune(s) PROVE TypeOK'
  <2>1. M!TypeOK' <=> M!TypeOK
    BY <1>2 DEF Prune, manager, M!TypeOK
  <2>2. 0 \in 0..MaxNodes
    BY DEF NodeSessionConstants
  <2> QED BY <1>2, <2>1, <2>2 DEF Prune, local, ghosts, TypeOK
<1>3. CASE Crash
  <2>1. phase' \in [Terms -> Phases]
    BY <1>3 DEF Crash, Phases
  <2>2. lost' \subseteq Sids
    BY <1>3 DEF Crash, TypeOK, Sids
  <2> QED BY <1>3, <2>1, <2>2, CrashEmptiesManager DEF Crash, TypeOK, local, tables
<1>4. CASE UNCHANGED vars
  BY <1>4 DEF vars, manager, local, tables, ghosts, TypeOK, M!TypeOK
<1> QED BY <1>1, <1>2, <1>3, <1>4, OtherSteps

(* The goroutines' local state, the tables and the manager keep their      *)
(* types through every handler, clean-up and crash.                        *)
THEOREM TypeCorrect == Spec => []TypeOK
<1>1. Init => TypeOK
  <2> SUFFICES ASSUME Init PROVE TypeOK
    OBVIOUS
  <2>1. M!TypeOK
    BY NodeSessionConstants DEF NodeSessionConstants, Init, M!Init, M!TypeOK, M!Nodes,
                                M!Offline, M!NoNotice, M!Notices
  <2> QED BY <2>1, NodeSessionConstants DEF NodeSessionConstants, Init, TypeOK, Phases
<1>2. TypeOK /\ [Next]_vars => TypeOK'
  BY NodeSessionConstants, TypeStep
<1> QED BY <1>1, <1>2, PTL DEF Spec
-----------------------------------------------------------------------------
(* Rows of the node table.                                                 *)

(* Only an SSH goroutine writes node rows, takes notices and leaves        *)
(* through the deferred function of handleSession.                         *)
Role(t) == t \in Text => phase[t] \in {"off", "on", "ending", "gone"}

LEMMA RoleStep ==
  ASSUME NodeSessionConstants, TypeOK, NEW t \in Terms, Step(t),
         \A x \in Terms : Role(x)
  PROVE  \A x \in Terms : Role(x)'
<1> SUFFICES ASSUME NEW x \in Terms, x \in Text
             PROVE  phase'[x] \in {"off", "on", "ending", "gone"}
  BY DEF Role
<1>1. x \notin SSH /\ phase \in [Terms -> Phases] /\ phase[x] \in {"off", "on", "ending", "gone"}
  BY DEF NodeSessionConstants, TypeOK, Role
<1>2. CASE Connect(t)
  BY <1>1, <1>2 DEF Connect, ConnectNew, ConnectExisting, ConnectRefused, Goto, Connected
<1>3. CASE Saving(t)
  BY <1>1, <1>3 DEF Saving, PersistGet, PersistUpsert
<1>4. CASE Move(t) \/ Greet(t) \/ SignOffSSH(t) \/ SignOffText(t) \/ Drop(t)
  BY <1>1, <1>4 DEF Move, Greet, SignOffSSH, SignOffText, Drop, Goto
<1>5. ASSUME NEW u \in Users, Login(t, u)
      PROVE  phase'[x] \in {"off", "on", "ending", "gone"}
  BY <1>1, <1>5 DEF Login, Goto
<1>6. CASE Leaving(t)
  BY <1>1, <1>6 DEF Leaving, LeaveGet, LeaveEnd, LeaveDeleteRow, LeaveLog, Goto
<1> QED BY <1>2, <1>3, <1>4, <1>5, <1>6 DEF Step

(* The goroutine that will delete the row of session s.                    *)
Owns(t, s) == /\ t \in SSH /\ SidOf[t] = s
              /\ InSession(t) \/ phase[t] \in {"ending", "deleting"}

RowInv == /\ \A t \in Terms : Role(t)
          /\ RowHasOwner

(* The terminal that takes a step still owns its row afterwards, unless it *)
(* is the step that deletes it.                                            *)
LEMMA OwnerStays ==
  ASSUME NodeSessionConstants, TypeOK, NEW t \in Terms, Step(t), ~LeaveDeleteRow(t),
         NEW x \in Terms, NEW s \in Sids, Owns(x, s)
  PROVE  Owns(x, s)'
<1>1. /\ x \notin Text /\ phase \in [Terms -> Phases]
      /\ x \in SSH /\ SidOf[x] = s
      /\ phase[x] \notin {"off", "logging", "gone"}
  BY DEF NodeSessionConstants, TypeOK, Owns, InSession, Phases
<1>2. phase'[x] \in {"saving", "writing", "savingLogin", "writingLogin", "greet",
                     "on", "leaving", "ending", "deleting"}
  <2>1. CASE Connect(t)
    BY <1>1, <2>1 DEF Connect, ConnectNew, ConnectExisting, ConnectRefused, Goto, Phases
  <2>2. CASE Saving(t)
    BY <1>1, <2>2 DEF Saving, PersistGet, PersistUpsert, AfterSaving, Phases
  <2>3. CASE Move(t) \/ Greet(t) \/ SignOffSSH(t) \/ SignOffText(t) \/ Drop(t)
    BY <1>1, <2>3 DEF Move, Greet, SignOffSSH, SignOffText, Drop, Goto, Phases
  <2>4. ASSUME NEW u \in Users, Login(t, u)
        PROVE  phase'[x] \in {"saving", "writing", "savingLogin", "writingLogin", "greet",
                              "on", "leaving", "ending", "deleting"}
    BY <1>1, <2>4 DEF Login, Goto, Phases
  <2>5. CASE LeaveGet(t) \/ LeaveEnd(t) \/ LeaveLog(t)
    BY <1>1, <2>5 DEF LeaveGet, LeaveEnd, LeaveLog, Goto, Phases
  <2> QED BY <2>1, <2>2, <2>3, <2>4, <2>5 DEF Step, Leaving
<1> QED BY <1>1, <1>2 DEF Owns, InSession

LEMMA RowStep ==
  ASSUME NodeSessionConstants, TypeOK, RowInv, [Next]_vars
  PROVE  RowInv'
<1> USE DEF RowInv
<1>1. RowHasOwner <=>
        \A s \in Sids : rows[s] # 0 => s \in lost \/ \E x \in SSH : Owns(x, s)
  BY DEF RowHasOwner, Owns
<1>2. RowHasOwner' <=>
        \A s \in Sids : rows'[s] # 0 => s \in lost' \/ \E x \in SSH : Owns(x, s)'
  BY DEF RowHasOwner, Owns
<1>3. SSH \subseteq Terms
  BY DEF Terms
<1>4. ASSUME NEW t \in Terms, Step(t) PROVE RowInv'
  <2>1. lost' = lost
    BY <1>4 DEF Step, Connect, Saving, PersistGet, PersistUpsert, Move, Greet, Login, SignOffSSH,
                SignOffText, Drop, Leaving, LeaveGet, LeaveEnd, LeaveDeleteRow, LeaveLog, ghosts
  <2>2. CASE LeaveDeleteRow(t)
    <3> SUFFICES ASSUME NEW s \in Sids, rows'[s] # 0, s \notin lost
                 PROVE  \E x \in SSH : Owns(x, s)'
      BY <1>2, <1>4, <2>1, RoleStep
    <3>1. s # SidOf[t] /\ rows[s] # 0
      BY <2>2, NodeOfSession DEF LeaveDeleteRow, TypeOK
    <3>2. PICK x \in SSH : Owns(x, s)
      BY <1>1, <3>1
    <3>3. x # t /\ phase'[x] = phase[x]
      BY <1>3, <2>2, <3>1, <3>2 DEF LeaveDeleteRow, Goto, TypeOK, Owns
    <3> QED BY <3>2, <3>3 DEF Owns, InSession
  <2>3. CASE PersistUpsert(t)
    <3>1. Owns(t, SidOf[t]) /\ ~LeaveDeleteRow(t)
      BY <2>3 DEF RowInv, Role, Terms, PersistUpsert, Owns, InSession, LeaveDeleteRow, Goto
    <3> SUFFICES ASSUME NEW s \in Sids, rows'[s] # 0, s \notin lost
                 PROVE  \E x \in SSH : Owns(x, s)'
      BY <1>2, <1>4, <2>1, RoleStep
    <3>2. CASE s = SidOf[t]
      BY <1>4, <3>1, <3>2, OwnerStays DEF Owns
    <3>3. CASE s # SidOf[t]
      <4>1. rows[s] # 0
        BY <2>3, <3>3 DEF PersistUpsert, TypeOK
      <4> QED BY <1>1, <1>3, <1>4, <3>1, <4>1, OwnerStays
    <3> QED BY <3>2, <3>3
  <2>4. CASE ~LeaveDeleteRow(t) /\ ~PersistUpsert(t)
    <3>1. rows' = rows
      BY <1>4, <2>4
         DEF Step, Connect, Saving, PersistGet, Move, Greet, Login, SignOffSSH,
             SignOffText, Drop, Leaving, LeaveGet, LeaveEnd, LeaveLog, tables
    <3> QED BY <1>1, <1>2, <1>3, <1>4, <2>1, <2>4, <3>1, OwnerStays, RoleStep
  <2> QED BY <2>2, <2>3, <2>4
<1>5. ASSUME NEW s \in Sids, Prune(s) PROVE RowInv'
  BY <1>1, <1>2, <1>5 DEF Prune, ghosts, TypeOK, Role, Owns, InSession
<1>6. CASE Crash
  <2>1. \A t \in Terms : Role(t)'
    BY <1>6 DEF Crash, Role
  <2>2. ASSUME NEW s \in Sids, rows'[s] # 0 PROVE s \in lost'
    <3>1. CASE s \in lost
      BY <1>6, <3>1 DEF Crash
    <3>2. CASE \E x \in SSH : Owns(x, s)
      BY <1>3, <1>6, <3>2 DEF Crash, Owns, InSession
    <3> QED BY <1>1, <1>6, <2>2, <3>1, <3>2 DEF Crash, tables
  <2> QED BY <1>2, <2>1, <2>2
<1>7. CASE UNCHANGED vars
  BY <1>1, <1>2, <1>7 DEF vars, tables, ghosts, Role, Owns, InSession
<1> QED BY <1>4, <1>5, <1>6, <1>7, OtherSteps

(* No late upsert outlives its session: a row of the node table always has *)
(* a goroutine that will delete it, or was cut off by a crash; also when   *)
(* channels are multiplexed.                                               *)
THEOREM RowsAreOwned == Spec => []RowHasOwner
<1>1. Init => RowInv
  BY DEF Init, RowInv, Role, RowHasOwner
<1>2. TypeOK /\ RowInv /\ [Next]_vars => RowInv'
  BY NodeSessionConstants, RowStep
<1>3. RowInv => RowHasOwner
  BY DEF RowInv
<1> QED BY <1>1, <1>2, <1>3, TypeCorrect, PTL DEF Spec
-----------------------------------------------------------------------------
(* One terminal at a time.                                                 *)

(* The goroutine has a node from its Start to its End.                     *)
Holding(t) == InSession(t) \/ phase[t] = "ending"

(* The manager knows the session exactly that long, with the node the      *)
(* goroutine was told.                                                     *)
Held(t) ==
  /\ phase[t] = "off" => told[t] = 0
  /\ Holding(t) => told[t] # 0 /\ sessions[SidOf[t]].node = told[t]
  /\ ~Holding(t) => sessions[SidOf[t]].node = 0

(* Get finds the session until it is ended, so the deferred function never *)
(* skips the caller history, and nothing writes it before.                 *)
Logged(t) == t \in SSH =>
  /\ phase[t] # "gone" => callerLog[SidOf[t]] = 0
  /\ callerLog[SidOf[t]] <= 1
  /\ (phase[t] = "gone" /\ told[t] # 0 /\ SidOf[t] \notin lost)
        => callerLog[SidOf[t]] = 1
  /\ phase[t] \in {"ending", "deleting"} => snap[t] # 0

(* A sign-off is on the session's record until End reads it, and a notice  *)
(* about a session is left by its own End only.                            *)
Noticed(t) ==
  /\ t \in SSH /\ SidOf[t] \in signedOff =>
       /\ phase[t] \in {"leaving", "ending", "deleting", "logging", "gone"}
       /\ Holding(t) => sessions[SidOf[t]].clean
  /\ \A u \in Users : reconnect[u].sid = SidOf[t] =>
       /\ phase[t] \in {"deleting", "logging", "gone"}
       /\ t \in SSH => SidOf[t] \notin signedOff

Own(t) == Role(t) /\ Held(t) /\ Logged(t) /\ Noticed(t)

(* What a step of terminal t may not change for another terminal x.        *)
Apart(x) ==
  /\ phase'[x] = phase[x] /\ told'[x] = told[x] /\ snap'[x] = snap[x]
  /\ sessions'[SidOf[x]] = sessions[SidOf[x]]
  /\ callerLog'[SidOf[x]] = callerLog[SidOf[x]]
  /\ SidOf[x] \in signedOff' <=> SidOf[x] \in signedOff
  /\ SidOf[x] \in lost' <=> SidOf[x] \in lost
  /\ \A u \in Users : reconnect'[u].sid = SidOf[x] => reconnect[u].sid = SidOf[x]

LEMMA ApartIsEnough ==
  ASSUME NEW x \in Terms, Own(x), Apart(x)
  PROVE  Own(x)'
BY DEF Own, Apart, Role, Held, Logged, Noticed, Holding, InSession

(* A call of the manager for one session id leaves the others alone.       *)
LEMMA ManagerApart ==
  ASSUME NodeSessionConstants, TypeOK, NEW s \in Sids, NEW r \in Sids, r # s, NEW u \in Users,
         \/ M!Start(s, u) \/ M!SetUser(s, u) \/ M!SetArea(s, Area)
         \/ M!MarkCleanExit(s) \/ M!End(s) \/ M!TakeReconnectNotice(u)
  PROVE  /\ sessions'[r] = sessions[r]
         /\ \A v \in Users : reconnect'[v].sid = r => reconnect[v].sid = r
<1>1. /\ sessions \in [Sids -> [node : 0..MaxNodes, user : Users,
                                area : {Area}, clean : BOOLEAN]]
      /\ reconnect \in [Users -> [sid : Sids \cup {NoSid}, area : {Area}]]
      /\ r # NoSid
  BY DEF TypeOK, M!TypeOK, M!Notices, NodeSessionConstants
<1>2. CASE M!Start(s, u) \/ M!SetUser(s, u) \/ M!SetArea(s, Area) \/ M!MarkCleanExit(s)
  BY <1>1, <1>2 DEF M!Start, M!SetUser, M!SetArea, M!MarkCleanExit
<1>3. CASE M!TakeReconnectNotice(u)
  BY <1>1, <1>3 DEF M!TakeReconnectNotice, M!NoNotice
<1>4. CASE M!EndLive(s)
  BY <1>1, <1>4 DEF M!EndLive
<1>5. CASE UNCHANGED M!managerVars
  BY <1>5 DEF M!managerVars
<1> QED BY <1>2, <1>3, <1>4, <1>5 DEF M!End

LEMMA StepsAreApart ==
  ASSUME NodeSessionConstants, OwnIds, TypeOK,
         NEW t \in Terms, Step(t), NEW x \in Terms, x # t
  PROVE  Apart(x)
<1>1. /\ SidOf[t] \in Sids /\ SidOf[x] \in Sids /\ SidOf[x] # SidOf[t] /\ Guest \in Users
      /\ who[t] \in Users
  BY DEF OwnIds, Sids, NodeSessionConstants, TypeOK
<1>2. /\ phase \in [Terms -> Phases] /\ told \in [Terms -> 0..MaxNodes]
      /\ snap \in [Terms -> 0..MaxNodes] /\ callerLog \in [Sids -> Nat]
  BY DEF TypeOK
<1>3. UNCHANGED manager =>
        /\ sessions'[SidOf[x]] = sessions[SidOf[x]]
        /\ \A v \in Users : reconnect'[v].sid = SidOf[x] => reconnect[v].sid = SidOf[x]
  BY DEF manager
<1> USE DEF Apart
<1>4. CASE Connect(t)
  <2>1. CASE ConnectNew(t)
    BY <1>1, <1>2, <1>4, <2>1, ManagerApart DEF Connect, ConnectNew, Goto, tables, ghosts
  <2>2. CASE ConnectExisting(t) \/ ConnectRefused(t)
    BY <1>1, <1>2, <1>3, <1>4, <2>2
       DEF Connect, ConnectExisting, ConnectRefused, Goto, tables, ghosts
  <2> QED BY <1>4, <2>1, <2>2 DEF Connect
<1>5. CASE Saving(t)
  BY <1>1, <1>2, <1>3, <1>5 DEF Saving, PersistGet, PersistUpsert, tables, ghosts
<1>6. CASE Move(t)
  BY <1>1, <1>2, <1>6, ManagerApart DEF Move, Goto, local, tables, ghosts
<1>7. CASE Greet(t)
  BY <1>1, <1>2, <1>7, ManagerApart DEF Greet, Goto, local, tables, ghosts
<1>8. ASSUME NEW u \in Users, Login(t, u) PROVE Apart(x)
  BY <1>1, <1>2, <1>8, ManagerApart DEF Login, Goto, tables, ghosts
<1>9. CASE SignOffSSH(t)
  BY <1>1, <1>2, <1>9, ManagerApart DEF SignOffSSH, Goto, local, tables
<1>10. CASE SignOffText(t) \/ Drop(t)
  BY <1>1, <1>2, <1>3, <1>10 DEF SignOffText, Drop, Goto, local, tables, ghosts
<1>11. CASE LeaveEnd(t)
  BY <1>1, <1>2, <1>11, ManagerApart DEF LeaveEnd, Goto, local, tables, ghosts
<1>12. CASE LeaveGet(t) \/ LeaveDeleteRow(t) \/ LeaveLog(t)
  BY <1>1, <1>2, <1>3, <1>12 DEF LeaveGet, LeaveDeleteRow, LeaveLog, Goto, local, tables, ghosts
<1> QED BY <1>4, <1>5, <1>6, <1>7, <1>8, <1>9, <1>10, <1>11, <1>12 DEF Step, Leaving
-----------------------------------------------------------------------------
(* What a step of terminal t does to t itself, one action at a time.       *)

LEMMA LocalFacts ==
  ASSUME NodeSessionConstants, TypeOK, NEW t \in Terms
  PROVE  /\ phase \in [Terms -> Phases] /\ told \in [Terms -> 0..MaxNodes]
         /\ snap \in [Terms -> 0..MaxNodes] /\ callerLog \in [Sids -> Nat]
         /\ SidOf[t] \in Sids /\ Guest \in Users /\ who[t] \in Users
         /\ SidOf[t] # NoSid /\ ~(t \in SSH /\ t \in Text)
         /\ sessions \in [Sids -> [node : 0..MaxNodes, user : Users,
                                   area : {Area}, clean : BOOLEAN]]
         /\ reconnect \in [Users -> [sid : Sids \cup {NoSid}, area : {Area}]]
BY DEF TypeOK, Sids, NodeSessionConstants, M!TypeOK, M!Notices

LEMMA OwnConnect ==
  ASSUME NodeSessionConstants, TypeOK, NEW t \in Terms, Own(t), Connect(t)
  PROVE  Own(t)'
<1> USE LocalFacts DEF Own, Role, Held, Logged, Noticed, Holding, InSession
<1>1. CASE ConnectNew(t)
  <2>1. /\ phase[t] = "off" /\ phase'[t] = IF t \in SSH THEN "saving" ELSE "on"
        /\ told'[t] = M!LowestFree /\ sessions'[SidOf[t]].node = M!LowestFree
        /\ M!LowestFree # 0
        /\ UNCHANGED <<callerLog, signedOff, lost, snap, reconnect>>
    <3>1. M!LowestFree \in 1..MaxNodes
      BY <1>1, StartGivesANode DEF ConnectNew
    <3> QED BY <1>1, <3>1 DEF Connect, ConnectNew, Goto, Connected, M!Start, tables, ghosts
  <2> QED BY <2>1
<1>2. CASE ConnectExisting(t)
  BY <1>2 DEF ConnectExisting, Goto, M!Live
<1>3. CASE ConnectRefused(t)
  BY <1>3 DEF Connect, ConnectRefused, Goto, manager, tables, ghosts
<1> QED BY <1>1, <1>2, <1>3 DEF Connect

LEMMA OwnInSession ==
  ASSUME NodeSessionConstants, TypeOK, NEW t \in Terms, Own(t),
         \/ Saving(t) \/ Move(t) \/ Greet(t) \/ \E u \in Users : Login(t, u)
  PROVE  Own(t)'
<1> USE LocalFacts DEF Own, Role, Held, Logged, Noticed, Holding, InSession
<1>1. CASE Saving(t)
  BY <1>1 DEF Saving, PersistGet, PersistUpsert, AfterSaving, manager, tables, ghosts
<1>2. CASE Move(t)
  BY <1>2 DEF Move, Goto, M!SetArea, M!Live, local, tables, ghosts
<1>3. CASE Greet(t)
  BY <1>3 DEF Greet, Goto, M!TakeReconnectNotice, M!NoNotice, local, tables, ghosts
<1>4. ASSUME NEW u \in Users, Login(t, u) PROVE Own(t)'
  BY <1>4 DEF Login, Goto, M!SetUser, M!Live, tables, ghosts
<1> QED BY <1>1, <1>2, <1>3, <1>4

LEMMA OwnSignOff ==
  ASSUME NodeSessionConstants, TypeOK, NEW t \in Terms, Own(t),
         SignOffSSH(t) \/ SignOffText(t) \/ Drop(t)
  PROVE  Own(t)'
<1> USE LocalFacts DEF Own, Role, Held, Logged, Noticed, Holding, InSession
<1>1. CASE SignOffSSH(t)
  BY <1>1 DEF SignOffSSH, Goto, M!MarkCleanExit, M!Live, local, tables
<1>2. CASE SignOffText(t)
  BY <1>2 DEF SignOffText, Goto, manager, local, tables
<1>3. CASE Drop(t)
  BY <1>3 DEF Drop, Goto, manager, local, tables, ghosts
<1> QED BY <1>1, <1>2, <1>3

LEMMA OwnLeaving ==
  ASSUME NodeSessionConstants, TypeOK, NEW t \in Terms, Own(t), Leaving(t)
  PROVE  Own(t)'
<1> USE LocalFacts DEF Own, Role, Held, Logged, Noticed, Holding, InSession
<1>1. CASE LeaveGet(t)
  BY <1>1 DEF LeaveGet, Goto, manager, tables, ghosts
<1>2. CASE LeaveEnd(t)
  <2>1. /\ phase[t] = "ending" /\ phase'[t] = IF t \in SSH THEN "deleting" ELSE "gone"
        /\ UNCHANGED <<told, snap, callerLog, signedOff, lost>>
    BY <1>2 DEF LeaveEnd, Goto, local, tables, ghosts
  <2>2. M!EndLive(SidOf[t])
    BY <1>2, <2>1 DEF LeaveEnd, M!End, M!Live
  <2>3. sessions'[SidOf[t]].node = 0
    BY <2>2 DEF M!EndLive, M!Offline
  <2>4. ASSUME NEW u \in Users, reconnect'[u].sid = SidOf[t], t \in SSH
        PROVE  SidOf[t] \notin signedOff
    BY <2>1, <2>2, <2>4 DEF M!EndLive, M!Interrupted
  <2> QED BY <2>1, <2>3, <2>4
<1>3. CASE LeaveDeleteRow(t)
  BY <1>3 DEF LeaveDeleteRow, Goto, manager, local, ghosts
<1>4. CASE LeaveLog(t)
  BY <1>4 DEF LeaveLog, Goto, manager, local, ghosts
<1> QED BY <1>1, <1>2, <1>3, <1>4 DEF Leaving

-----------------------------------------------------------------------------
(* Every step.                                                             *)

OwnInv == /\ M!NodeAssignment
          /\ \A t \in Terms : Own(t)

LEMMA OwnStep ==
  ASSUME NodeSessionConstants, OwnIds, TypeOK, OwnInv, [Next]_vars
  PROVE  OwnInv'
<1> USE DEF OwnInv
<1>1. ASSUME NEW t \in Terms, Step(t) PROVE OwnInv'
  <2>1. M!NodeAssignment'
    <3>1. P!TypeOK /\ P!NodeAssignment
      BY SameManager DEF TypeOK
    <3>2. [P!Next]_P!managerVars
      BY <1>1, CallsManager
    <3>3. P!NodeAssignment'
      BY <3>1, <3>2, ManagerConstants, P!NodeAssignmentStep
    <3> QED BY <3>3, SameManager
  <2>2. Own(t)'
    BY <1>1, OwnConnect, OwnInSession, OwnSignOff, OwnLeaving DEF Step
  <2>3. ASSUME NEW x \in Terms, x # t PROVE Own(x)'
    BY <1>1, <2>3, StepsAreApart, ApartIsEnough
  <2> QED BY <2>1, <2>2, <2>3
<1>2. ASSUME NEW s \in Sids, Prune(s) PROVE OwnInv'
  <2>1. UNCHANGED <<manager, phase, told, snap, callerLog, signedOff, lost>>
    BY <1>2 DEF Prune, local, ghosts
  <2>2. M!NodeAssignment'
    BY <2>1 DEF manager, M!NodeAssignment
  <2>3. \A x \in Terms : Apart(x)
    BY <2>1 DEF Apart, manager
  <2> QED BY <2>2, <2>3, ApartIsEnough
<1>3. CASE Crash
  <2>1. M!NodeAssignment'
    BY <1>3, CrashEmptiesManager
  <2>2. ASSUME NEW t \in Terms PROVE Own(t)'
    <3>1. /\ sessions'[SidOf[t]].node = 0
          /\ \A u \in Users : reconnect'[u].sid # SidOf[t]
      BY <1>3, CrashEmptiesManager, LocalFacts
    <3>2. /\ phase'[t] = IF phase[t] = "off" THEN "off" ELSE "gone"
          /\ phase[t] \notin {"off", "gone"} => SidOf[t] \in lost'
          /\ SidOf[t] \in lost => SidOf[t] \in lost'
          /\ UNCHANGED <<told, snap, callerLog, signedOff>>
      BY <1>3 DEF Crash, local, tables
    <3> QED BY <3>1, <3>2, LocalFacts
            DEF Own, Role, Held, Logged, Noticed, Holding, InSession
  <2> QED BY <2>1, <2>2
<1>4. CASE UNCHANGED vars
  <2>1. M!NodeAssignment'
    BY <1>4 DEF vars, manager, M!NodeAssignment
  <2>2. \A x \in Terms : Apart(x)
    BY <1>4 DEF vars, manager, local, tables, ghosts, Apart
  <2> QED BY <2>1, <2>2, ApartIsEnough
<1> QED BY <1>1, <1>2, <1>3, <1>4, OtherSteps

LEMMA OwnInit == ASSUME NodeSessionConstants, Init PROVE OwnInv
<1>1. M!NodeAssignment
  BY DEF NodeSessionConstants, Init, M!Init, M!NodeAssignment, M!Nodes, M!Offline
<1>2. ASSUME NEW t \in Terms PROVE Own(t)
  BY DEF NodeSessionConstants, Sids, Init, M!Init, M!Offline, M!NoNotice,
         Own, Role, Held, Logged, Noticed, Holding, InSession
<1> QED BY <1>1, <1>2 DEF OwnInv

LEMMA OwnInvariant == OwnIds => (Spec => []OwnInv)
<1> SUFFICES ASSUME OwnIds PROVE Spec => []OwnInv
  OBVIOUS
<1>1. Init => OwnInv
  BY NodeSessionConstants, OwnInit
<1>2. TypeOK /\ OwnInv /\ [Next]_vars => OwnInv'
  BY NodeSessionConstants, OwnStep
<1> QED BY <1>1, <1>2, TypeCorrect, PTL DEF Spec

(* The node a caller was told at the start, in the node label and in       *)
(* WOLFBBS_NODE of the doors, is held by that session and by nobody else   *)
(* until the goroutine ends it: with the channels of one connection        *)
(* excluded, which the run node_multiplexed shows to be necessary.         *)
THEOREM NodeStaysStable == OwnIds => (Spec => []StableNode)
<1> SUFFICES ASSUME OwnIds PROVE Spec => []StableNode
  OBVIOUS
<1>1. TypeOK /\ OwnInv => StableNode
  <2> SUFFICES ASSUME TypeOK, OwnInv, NEW t \in Terms, InSession(t)
               PROVE  nodeToSID[told[t]] = SidOf[t]
    BY DEF StableNode
  <2>1. told[t] \in M!Nodes /\ sessions[SidOf[t]].node = told[t]
    BY NodeSessionConstants DEF NodeSessionConstants, OwnInv, Own, Held, Holding, TypeOK, M!Nodes
  <2> QED BY <2>1, NodeOfSession DEF OwnInv, M!NodeAssignment
<1> QED BY <1>1, TypeCorrect, OwnInvariant, PTL

(* An SSH session that got a node leaves exactly one row in the caller     *)
(* history, unless a crash cut it off.                                     *)
THEOREM CallersAreLoggedOnce == OwnIds => (Spec => []CallerLoggedOnce)
<1> SUFFICES ASSUME OwnIds PROVE Spec => []CallerLoggedOnce
  OBVIOUS
<1>1. OwnInv => CallerLoggedOnce
  BY DEF OwnInv, Own, Logged, CallerLoggedOnce, Terms
<1> QED BY <1>1, OwnInvariant, PTL

(* A caller who signed off at an SSH menu is never told of an interrupted  *)
(* session.                                                                *)
THEOREM SignOffLeavesNoNotice == OwnIds => (Spec => []NoNoticeAfterSSHSignOff)
<1> SUFFICES ASSUME OwnIds PROVE Spec => []NoNoticeAfterSSHSignOff
  OBVIOUS
<1>1. OwnInv => NoNoticeAfterSSHSignOff
  BY DEF OwnInv, Own, Noticed, NoNoticeAfterSSHSignOff, Terms
<1> QED BY <1>1, OwnInvariant, PTL
=============================================================================
