--------------------------- MODULE SessionManager ---------------------------
(***************************************************************************)
(* The node and session manager of internal/session/manager.go: which      *)
(* session holds which node, who is on and where, the last callers, and    *)
(* the notice kept for a caller whose session was interrupted.             *)
(*                                                                         *)
(* Every method runs under one mutex and is one action.  Here any session  *)
(* id may be started, changed and ended by anybody, in any order; the      *)
(* goroutines that really call the manager are in NodeSessions.  Session   *)
(* ids and user names are already trimmed, and two spellings of a handle   *)
(* are one value; times, addresses and durations are left out.             *)
(***************************************************************************)
EXTENDS Integers, Sequences, FiniteSets

CONSTANTS
  Sids,        \* session ids
  Users,       \* handles, Guest among them
  Guest,       \* the handle of a session that has not logged in
  Areas,       \* screens a session can be in, Welcome among them
  Welcome,     \* the area of a new session
  NoSid,       \* a node nobody holds
  MaxNodes,    \* Manager.maxNodes
  MaxCallers,  \* Manager.maxCallers
  MaxStarts    \* bound of the model: sessions ever started

ASSUME SessionConstants ==
  /\ NoSid \notin Sids
  /\ Guest \in Users
  /\ Welcome \in Areas
  /\ MaxNodes \in Nat \ {0}
  /\ MaxCallers \in Nat \ {0}
  /\ MaxStarts \in Nat

VARIABLES
  nodeToSID,    \* nodeToSID[n]: the session that holds node n
  sessions,     \* sessions[s]: the NodeState of session s, or Offline
  lastCallers,  \* newest first, at most MaxCallers
  reconnect,    \* reconnect[u]: the ReconnectNotice of u, or NoNotice
  starts,       \* sessions started so far
  ended         \* history variable: every session that ended, oldest first

managerVars == <<nodeToSID, sessions, lastCallers, reconnect, starts, ended>>

Nodes   == 1..MaxNodes
Offline == [node |-> 0, user |-> Guest, area |-> Welcome, clean |-> FALSE]

Live(s) == sessions[s].node # 0

(* A notice keeps the area of the interrupted session, and through its     *)
(* address and login time the session itself.                              *)
NoNotice == [sid |-> NoSid, area |-> Welcome]

Init ==
  /\ nodeToSID   = [n \in Nodes |-> NoSid]
  /\ sessions    = [s \in Sids |-> Offline]
  /\ lastCallers = <<>>
  /\ reconnect   = [u \in Users |-> NoNotice]
  /\ starts      = 0
  /\ ended       = <<>>

-----------------------------------------------------------------------------
FreeNodes == {n \in Nodes : nodeToSID[n] = NoSid}

(* Mutant: the next node is counted from the sessions that are on. *)
NextByCount == 1 + Cardinality({s \in Sids : Live(s)})

(* allocateNodeLocked: the lowest node nobody holds. *)
LowestFree == CHOOSE n \in FreeNodes : \A m \in FreeNodes : n <= m

(* A Start that finds no free node, or finds its session id already on,    *)
(* changes nothing and is not a step.                                      *)
Start(s, u) ==
  /\ ~Live(s)
  /\ FreeNodes # {}
  /\ starts < MaxStarts
  /\ nodeToSID' = [nodeToSID EXCEPT ![LowestFree] = s]
  /\ sessions'  = [sessions EXCEPT ![s] = [node |-> LowestFree, user |-> u,
                                           area |-> Welcome, clean |-> FALSE]]
  /\ starts'    = starts + 1
  /\ UNCHANGED <<lastCallers, reconnect, ended>>

(* The setters do nothing for a session that is not on. *)
SetUser(s, u) ==
  /\ sessions' = IF Live(s) THEN [sessions EXCEPT ![s].user = u] ELSE sessions
  /\ UNCHANGED <<nodeToSID, lastCallers, reconnect, starts, ended>>

SetArea(s, a) ==
  /\ sessions' = IF Live(s) THEN [sessions EXCEPT ![s].area = a] ELSE sessions
  /\ UNCHANGED <<nodeToSID, lastCallers, reconnect, starts, ended>>

MarkCleanExit(s) ==
  /\ sessions' = IF Live(s) THEN [sessions EXCEPT ![s].clean = TRUE]
                            ELSE sessions
  /\ UNCHANGED <<nodeToSID, lastCallers, reconnect, starts, ended>>

(* Mutant: the node is read after it was given back. *)
CallerOfReleased(s) == [sid |-> s, node |-> Offline.node,
                        user |-> sessions[s].user, area |-> sessions[s].area]

CallerOf(s) == [sid |-> s, node |-> sessions[s].node,
                user |-> sessions[s].user, area |-> sessions[s].area]

(* Mutant: the wrong end of the slice is kept. *)
NewestOld(callers) ==
  IF Len(callers) > MaxCallers
    THEN SubSeq(callers, Len(callers) - MaxCallers + 1, Len(callers))
    ELSE callers

Newest(callers) == IF Len(callers) > MaxCallers
                     THEN SubSeq(callers, 1, MaxCallers)
                     ELSE callers

(* Mutant: a clean exit is not looked at. *)
InterruptedOrNot(s) == sessions[s].user # Guest

(* Only a caller who logged in and did not sign off is owed a notice. *)
Interrupted(s) == ~sessions[s].clean /\ sessions[s].user # Guest

(* Mutant: the node is not given back. *)
EndLiveKeepsNode(s) ==
  /\ Live(s)
  /\ lastCallers' = Newest(<<CallerOf(s)>> \o lastCallers)
  /\ sessions'    = [sessions EXCEPT ![s] = Offline]
  /\ ended'       = Append(ended, [caller |-> CallerOf(s),
                                   clean  |-> sessions[s].clean])
  /\ UNCHANGED <<nodeToSID, reconnect, starts>>

EndLive(s) ==
  /\ Live(s)
  /\ lastCallers' = Newest(<<CallerOf(s)>> \o lastCallers)
  /\ reconnect'   = IF Interrupted(s)
                      THEN [reconnect EXCEPT ![sessions[s].user] =
                              [sid |-> s, area |-> sessions[s].area]]
                      ELSE reconnect
  /\ sessions'    = [sessions EXCEPT ![s] = Offline]
  /\ nodeToSID'   = [nodeToSID EXCEPT ![sessions[s].node] = NoSid]
  /\ ended'       = Append(ended, [caller |-> CallerOf(s),
                                   clean  |-> sessions[s].clean])
  /\ UNCHANGED starts

End(s) == EndLive(s) \/ (~Live(s) /\ UNCHANGED managerVars)

TakeReconnectNotice(u) ==
  /\ reconnect' = [reconnect EXCEPT ![u] = NoNotice]
  /\ UNCHANGED <<nodeToSID, sessions, lastCallers, starts, ended>>

-----------------------------------------------------------------------------
Next ==
  \/ \E s \in Sids, u \in Users : Start(s, u) \/ SetUser(s, u)
  \/ \E s \in Sids, a \in Areas : SetArea(s, a)
  \/ \E s \in Sids : MarkCleanExit(s) \/ End(s)
  \/ \E u \in Users : TakeReconnectNotice(u)

Spec == Init /\ [][Next]_managerVars

-----------------------------------------------------------------------------
(* Properties.                                                             *)

Callers == [sid : Sids, node : Nodes, user : Users, area : Areas]
Endings == [caller : Callers, clean : BOOLEAN]
Notices == [sid : Sids \cup {NoSid}, area : Areas]

(* Type invariant of the manager's maps and lists. *)
TypeOK ==
  /\ nodeToSID   \in [Nodes -> Sids \cup {NoSid}]
  /\ sessions    \in [Sids -> [node : 0..MaxNodes, user : Users,
                               area : Areas, clean : BOOLEAN]]
  /\ lastCallers \in Seq(Callers)
  /\ reconnect   \in [Users -> Notices]
  /\ starts      \in Nat
  /\ ended       \in Seq(Endings)

(* The two maps of the manager always agree: node n is held by session s   *)
(* exactly when s is on with node n.  So no node is shared, no session     *)
(* has two nodes, and no node stays taken after its session (Start, End).  *)
NodeAssignment ==
  \A n \in Nodes, s \in Sids : nodeToSID[n] = s <=> sessions[s].node = n

(* A caller is refused only when MaxNodes sessions are on: a node is lost  *)
(* neither by an End nor by a Start.                                       *)
RefusedOnlyWhenFull ==
  FreeNodes = {} <=> Cardinality({s \in Sids : Live(s)}) = MaxNodes

(* The last callers are the sessions that ended last, newest first, each   *)
(* as it was when it ended, and never more than MaxCallers of them.        *)
LastCallersAreLatest ==
  /\ Len(lastCallers) = IF Len(ended) < MaxCallers THEN Len(ended)
                                                   ELSE MaxCallers
  /\ \A k \in 1..Len(lastCallers) :
       lastCallers[k] = ended[Len(ended) - k + 1].caller

(* A notice kept for u tells of a session that u did not sign off from, in *)
(* the area where it was cut, and of the last such session: every session  *)
(* of u that ended later was signed off.  The guest account has none.      *)
NoticesAreTrue ==
  \A u \in Users : reconnect[u].sid # NoSid =>
    /\ u # Guest
    /\ \E k \in 1..Len(ended) :
         /\ ended[k].caller.sid = reconnect[u].sid
         /\ ended[k].caller.user = u
         /\ ended[k].caller.area = reconnect[u].area
         /\ ~ended[k].clean
         /\ \A j \in k+1..Len(ended) : ended[j].caller.user = u => ended[j].clean

=============================================================================
