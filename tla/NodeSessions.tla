---------------------------- MODULE NodeSessions ----------------------------
(***************************************************************************)
(* The goroutines that use the node manager, and the table of node         *)
(* sessions they keep in the database for the other processes:             *)
(* internal/sshserver/server.go (handleSession), the telnet and websocket  *)
(* sessions of internal/loginserver/session.go (runLoginSession), and the  *)
(* clean-up a sysop can start from the web console.                        *)
(*                                                                         *)
(* SessionManager gives the manager; each of its methods is atomic, and    *)
(* the calls of one goroutine interleave with everything else.  The        *)
(* process may crash: its memory is gone, the database rows stay.  Areas   *)
(* are not distinguished here.                                             *)
(***************************************************************************)
EXTENDS Integers, Sequences, FiniteSets

CONSTANTS
  SSH,        \* SSH session channels, each served by one handleSession
  Text,       \* telnet and websocket connections
  SidOf,      \* the session id of each; channels multiplexed over one SSH
              \* connection have the same one
  Users, Guest, Area, NoSid, MaxNodes, MaxCallers,
  MaxCrashes  \* bound of the model: restarts of the process

Terms == SSH \cup Text
Sids  == {SidOf[t] : t \in Terms}

ASSUME NodeSessionConstants ==
  /\ SSH \cap Text = {}
  /\ \A x, y \in Text : SidOf[x] = SidOf[y] => x = y
  /\ \A x \in Text, y \in SSH : SidOf[x] # SidOf[y]
  /\ IsFiniteSet(Terms)
  /\ NoSid \notin Sids
  /\ Guest \in Users
  /\ MaxNodes \in Nat \ {0}
  /\ MaxCallers \in Nat \ {0}
  /\ MaxCrashes \in Nat

VARIABLES
  nodeToSID, sessions, lastCallers, reconnect, starts, ended,
  phase,      \* where each goroutine is
  who,        \* its local currentUser, Guest before login
  told,       \* nodeID: the node its Start returned, 0 before
  snap,       \* the node of its last Get, 0 if the session was not found
  rows,       \* node_sessions: the node on the row of a session id, 0: none
  callerLog,  \* caller_history: rows written for a session id
  signedOff,  \* history variable: ids whose caller asked to leave
  lost,       \* history variable: ids cut off by a crash
  crashes

manager == <<nodeToSID, sessions, lastCallers, reconnect, starts, ended>>
local   == <<who, told, snap>>
tables  == <<rows, callerLog>>
ghosts  == <<signedOff, lost, crashes>>
vars    == <<manager, phase, local, tables, ghosts>>

M == INSTANCE SessionManager WITH Areas <- {Area}, Welcome <- Area,
                                  MaxStarts <- Cardinality(Terms)

Init ==
  /\ M!Init
  /\ phase     = [t \in Terms |-> "off"]
  /\ who       = [t \in Terms |-> Guest]
  /\ told      = [t \in Terms |-> 0]
  /\ snap      = [t \in Terms |-> 0]
  /\ rows      = [s \in Sids |-> 0]
  /\ callerLog = [s \in Sids |-> 0]
  /\ signedOff = {}
  /\ lost      = {}
  /\ crashes   = 0

Goto(t, from, to) == /\ phase[t] = from
                     /\ phase' = [phase EXCEPT ![t] = to]

-----------------------------------------------------------------------------
(* Connecting.  Start hands out a node, finds the session id already on    *)
(* and returns its node, or refuses.                                       *)

Connected(t) == IF t \in SSH THEN "saving" ELSE "on"

(* Mutant: the node label is counted from the sessions that are on. *)
ConnectCounted(t) ==
  /\ M!Start(SidOf[t], Guest)
  /\ Goto(t, "off", Connected(t))
  /\ told' = [told EXCEPT ![t] = 1 + Cardinality({s \in Sids : M!Live(s)})]

ConnectNew(t) ==
  /\ M!Start(SidOf[t], Guest)
  /\ Goto(t, "off", Connected(t))
  /\ told' = [told EXCEPT ![t] = M!LowestFree]

ConnectExisting(t) ==
  /\ M!Live(SidOf[t])
  /\ Goto(t, "off", Connected(t))
  /\ told' = [told EXCEPT ![t] = sessions[SidOf[t]].node]
  /\ UNCHANGED manager

ConnectRefused(t) ==
  /\ ~M!Live(SidOf[t]) /\ M!FreeNodes = {}
  /\ Goto(t, "off", "gone")
  /\ UNCHANGED <<manager, told>>

Connect(t) ==
  /\ ConnectNew(t) \/ ConnectExisting(t) \/ ConnectRefused(t)
  /\ UNCHANGED <<who, snap, tables, ghosts>>

(* persistNode, in its two steps: Get, then the upsert of what Get saw.    *)
(* It gives up when the session is not on.                                 *)
AfterSaving(t) == IF phase[t] \in {"savingLogin", "writingLogin"}
                    THEN "greet" ELSE "on"

PersistGet(t) ==
  LET node == sessions[SidOf[t]].node IN
  /\ phase[t] \in {"saving", "savingLogin"}
  /\ snap'  = [snap EXCEPT ![t] = node]
  /\ phase' = [phase EXCEPT ![t] =
                 CASE node = 0             -> AfterSaving(t)
                   [] phase[t] = "saving"  -> "writing"
                   [] OTHER                -> "writingLogin"]
  /\ UNCHANGED <<manager, who, told, tables, ghosts>>

(* Mutant: the upsert runs in a goroutine of its own, whenever it likes. *)
PersistUpsertLate(t) ==
  /\ snap[t] # 0
  /\ rows'  = [rows EXCEPT ![SidOf[t]] = snap[t]]
  /\ snap'  = [snap EXCEPT ![t] = 0]
  /\ phase' = [phase EXCEPT ![t] = IF @ \in {"writing", "writingLogin"}
                                     THEN AfterSaving(t) ELSE @]
  /\ UNCHANGED <<manager, who, told, callerLog, ghosts>>

PersistUpsert(t) ==
  /\ phase[t] \in {"writing", "writingLogin"}
  /\ rows'  = [rows EXCEPT ![SidOf[t]] = snap[t]]
  /\ snap'  = [snap EXCEPT ![t] = 0]
  /\ phase' = [phase EXCEPT ![t] = AfterSaving(t)]
  /\ UNCHANGED <<manager, who, told, callerLog, ghosts>>

(* A change of screen, or a Touch after the 15 second throttle, persists.  *)
Move(t) ==
  /\ t \in SSH
  /\ Goto(t, "on", "saving")
  /\ M!SetArea(SidOf[t], Area)
  /\ UNCHANGED <<local, tables, ghosts>>

(* Login: the user is set; an SSH session persists its node and then takes *)
(* the notice left for its user, a text session does neither.              *)
Login(t, u) ==
  /\ who[t] = Guest /\ u # Guest
  /\ Goto(t, "on", IF t \in SSH THEN "savingLogin" ELSE "on")
  /\ M!SetUser(SidOf[t], u)
  /\ who' = [who EXCEPT ![t] = u]
  /\ UNCHANGED <<told, snap, tables, ghosts>>

Greet(t) ==
  /\ Goto(t, "greet", "on")
  /\ M!TakeReconnectNotice(who[t])
  /\ UNCHANGED <<local, tables, ghosts>>

-----------------------------------------------------------------------------
(* Leaving.                                                                *)

(* Mutant: the exit is not marked. *)
SignOffUnmarked(t) ==
  /\ t \in SSH
  /\ Goto(t, "on", "leaving")
  /\ signedOff' = signedOff \cup {SidOf[t]}
  /\ UNCHANGED <<manager, local, tables, lost, crashes>>

(* Signing off at an SSH menu marks the exit as clean (stateExit). *)
SignOffSSH(t) ==
  /\ t \in SSH
  /\ Goto(t, "on", "leaving")
  /\ M!MarkCleanExit(SidOf[t])
  /\ signedOff' = signedOff \cup {SidOf[t]}
  /\ UNCHANGED <<local, tables, lost, crashes>>

(* Q, QUIT and EXIT at a telnet or websocket prompt just return. *)
SignOffText(t) ==
  /\ t \in Text
  /\ Goto(t, "on", "ending")
  /\ signedOff' = signedOff \cup {SidOf[t]}
  /\ UNCHANGED <<manager, local, tables, lost, crashes>>

(* The connection breaks: the next read fails and the goroutine returns. *)
Drop(t) ==
  /\ Goto(t, "on", IF t \in SSH THEN "leaving" ELSE "ending")
  /\ UNCHANGED <<manager, local, tables, ghosts>>

(* The deferred function of handleSession: Get, End, DeleteNodeSession,    *)
(* and AddCallerHistory only when Get had found the session.               *)
LeaveGet(t) ==
  /\ Goto(t, "leaving", "ending")
  /\ snap' = [snap EXCEPT ![t] = sessions[SidOf[t]].node]
  /\ UNCHANGED <<manager, who, told, tables, ghosts>>

(* Mutant: only a caller who logged in is ended. *)
LeaveEndMembers(t) ==
  /\ Goto(t, "ending", IF t \in SSH THEN "deleting" ELSE "gone")
  /\ IF who[t] # Guest THEN M!End(SidOf[t]) ELSE UNCHANGED manager
  /\ UNCHANGED <<local, tables, ghosts>>

LeaveEnd(t) ==
  /\ Goto(t, "ending", IF t \in SSH THEN "deleting" ELSE "gone")
  /\ M!End(SidOf[t])
  /\ UNCHANGED <<local, tables, ghosts>>

(* Mutant: a row that is already gone counts as an error. *)
LeaveDeleteRowOrQuit(t) ==
  /\ Goto(t, "deleting", IF snap[t] # 0 /\ rows[SidOf[t]] # 0
                           THEN "logging" ELSE "gone")
  /\ rows' = [rows EXCEPT ![SidOf[t]] = 0]
  /\ UNCHANGED <<manager, local, callerLog, ghosts>>

LeaveDeleteRow(t) ==
  /\ Goto(t, "deleting", IF snap[t] # 0 THEN "logging" ELSE "gone")
  /\ rows' = [rows EXCEPT ![SidOf[t]] = 0]
  /\ UNCHANGED <<manager, local, callerLog, ghosts>>

LeaveLog(t) ==
  /\ Goto(t, "logging", "gone")
  /\ callerLog' = [callerLog EXCEPT ![SidOf[t]] = @ + 1]
  /\ UNCHANGED <<manager, local, rows, ghosts>>

-----------------------------------------------------------------------------
(* A crash loses every session in progress and the whole manager; a new    *)
(* process starts with an empty one.                                       *)
Crash ==
  /\ crashes < MaxCrashes
  /\ crashes' = crashes + 1
  /\ lost' = lost \cup {SidOf[t] : t \in {x \in Terms :
                                            phase[x] \notin {"off", "gone"}}}
  /\ phase' = [t \in Terms |-> IF phase[t] = "off" THEN "off" ELSE "gone"]
  /\ nodeToSID'   = [n \in M!Nodes |-> NoSid]
  /\ sessions'    = [s \in Sids |-> M!Offline]
  /\ lastCallers' = <<>>
  /\ reconnect'   = [u \in Users |-> M!NoNotice]
  /\ UNCHANGED <<starts, ended, local, tables, signedOff>>

(* Mutant: a pruned row is marked, not deleted. *)
PruneMarks(s) ==
  /\ rows[s] # 0
  /\ rows' = [rows EXCEPT ![s] = -1]
  /\ UNCHANGED <<manager, phase, local, callerLog, ghosts>>

(* The sysop prunes rows whose last activity is old (web console, action   *)
(* prune_idle_sessions): any row can be that old, a live one included.     *)
Prune(s) ==
  /\ rows[s] # 0
  /\ rows' = [rows EXCEPT ![s] = 0]
  /\ UNCHANGED <<manager, phase, local, callerLog, ghosts>>

Saving(t)  == PersistGet(t) \/ PersistUpsert(t)
Leaving(t) == LeaveGet(t) \/ LeaveEnd(t) \/ LeaveDeleteRow(t) \/ LeaveLog(t)

Next ==
  \/ \E t \in Terms :
       \/ Connect(t) \/ Saving(t) \/ Move(t) \/ Greet(t)
       \/ \E u \in Users : Login(t, u)
       \/ SignOffSSH(t) \/ SignOffText(t) \/ Drop(t) \/ Leaving(t)
  \/ \E s \in Sids : Prune(s)
  \/ Crash

Spec == Init /\ [][Next]_vars

(* Nothing in a deferred function waits for the caller: once a goroutine   *)
(* is leaving it runs to its end, unless the process crashes.              *)
FairSpec == Spec /\ \A t \in Terms : WF_vars(Leaving(t))

-----------------------------------------------------------------------------
(* Properties.                                                             *)

Phases == {"off", "saving", "writing", "savingLogin", "writingLogin", "greet",
           "on", "leaving", "ending", "deleting", "logging", "gone"}

InSession(t) == phase[t] \in {"saving", "writing", "savingLogin",
                              "writingLogin", "greet", "on", "leaving"}

(* Type invariant of the goroutines' local state and the tables. *)
TypeOK ==
  /\ M!TypeOK
  /\ phase     \in [Terms -> Phases]
  /\ who       \in [Terms -> Users]
  /\ told      \in [Terms -> 0..MaxNodes]
  /\ snap      \in [Terms -> 0..MaxNodes]
  /\ rows      \in [Sids -> 0..MaxNodes]
  /\ callerLog \in [Sids -> Nat]
  /\ signedOff \subseteq Sids
  /\ lost      \subseteq Sids
  /\ crashes   \in Nat

(* Every session has a stable node: while its goroutine runs, the node it  *)
(* was told at the start (its node label, WOLFBBS_NODE of its doors) is    *)
(* held by its own session id and by nobody else.                          *)
StableNode == \A t \in Terms : InSession(t) => nodeToSID[told[t]] = SidOf[t]

(* A row of the node table has an owner that will delete it, or its owner  *)
(* was cut off by a crash: no late upsert brings a row back after the      *)
(* session is over, which nothing but a sysop's clean-up would remove.     *)
RowHasOwner ==
  \A s \in Sids : rows[s] # 0 =>
    \/ s \in lost
    \/ \E t \in SSH : SidOf[t] = s /\ (InSession(t) \/
                                       phase[t] \in {"ending", "deleting"})

(* Each SSH session that got a node and was not cut off by a crash leaves  *)
(* exactly one row in the caller history when it is over, never two.       *)
CallerLoggedOnce ==
  \A t \in SSH :
    /\ callerLog[SidOf[t]] <= 1
    /\ (phase[t] = "gone" /\ told[t] # 0 /\ SidOf[t] \notin lost)
         => callerLog[SidOf[t]] = 1

(* A caller who signed off is not told at the next login that the session  *)
(* was interrupted.                                                        *)
NoNoticeAfterSignOff == \A u \in Users : reconnect[u].sid \notin signedOff

(* The same of the SSH menus alone: whatever else ends or is cut off at    *)
(* the same time, a sign-off there leaves no notice behind.                *)
NoNoticeAfterSSHSignOff ==
  \A t \in SSH, u \in Users :
    SidOf[t] \in signedOff => reconnect[u].sid # SidOf[t]

(* Once a caller leaves, the session's node is given back and its row is   *)
(* removed, unless the process crashes on the way.                         *)
LeavingReleases ==
  \A t \in Terms :
    phase[t] \in {"leaving", "ending"}
      ~> \/ ~M!Live(SidOf[t]) /\ rows[SidOf[t]] = 0
         \/ SidOf[t] \in lost

=============================================================================
