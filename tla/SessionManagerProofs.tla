------------------------ MODULE SessionManagerProofs ------------------------
(***************************************************************************)
(* What the node manager guarantees for every number of nodes, sessions,   *)
(* users and areas.  TypeOK is inductive by itself and each of the other   *)
(* invariants is inductive relative to it, so the proofs are one lemma for *)
(* the types and one per invariant, by cases on the steps.                 *)
(***************************************************************************)
EXTENDS SessionManager, FiniteSetTheorems, WellFoundedInduction, TLAPS

(* A nonempty set of natural numbers has a least element. *)
LEMMA LeastElement ==
  ASSUME NEW T \in SUBSET Nat, T # {}
  PROVE  \E x \in T : \A y \in T : x <= y
<1>1. PICK x \in T : \A y \in T : <<y, x>> \notin OpToRel(<, Nat)
  BY WFMin, NatLessThanWellFounded, Zenon
<1>2. \A y \in T : ~(y < x)
  BY <1>1, Zenon DEF OpToRel
<1>3. x \in Nat /\ T \subseteq Nat
  BY Zenon
<1>4. \A y \in T : x <= y
  <2> HIDE <1>1
  <2> QED BY <1>2, <1>3, SMT
<1> QED BY <1>4, Zenon

(* allocateNodeLocked returns a free node whenever there is one. *)
LEMMA LowestFreeIsFree ==
  ASSUME SessionConstants, FreeNodes # {}
  PROVE  LowestFree \in FreeNodes
<1>1. FreeNodes \in SUBSET Nat
  BY DEF SessionConstants, FreeNodes, Nodes
<1>2. \E n \in FreeNodes : \A m \in FreeNodes : n <= m
  BY <1>1, LeastElement, Zenon
<1> QED BY <1>2, Zenon DEF LowestFree

-----------------------------------------------------------------------------
(* Types.                                                                  *)

LEMMA TypeInit == ASSUME SessionConstants, Init PROVE TypeOK
BY DEF SessionConstants, Init, TypeOK, Nodes, Offline, NoNotice, Notices

(* The session that ends is a well-formed caller. *)
LEMMA CallerType ==
  ASSUME TypeOK, NEW s \in Sids, Live(s)
  PROVE  CallerOf(s) \in Callers
BY DEF TypeOK, Live, CallerOf, Callers, Nodes

LEMMA NewestType ==
  ASSUME SessionConstants, NEW c \in Seq(Callers)
  PROVE  Newest(c) \in Seq(Callers)
BY DEF SessionConstants, Newest

LEMMA TypeStep ==
  ASSUME SessionConstants, TypeOK, [Next]_managerVars
  PROVE  TypeOK'
<1> USE DEF TypeOK
<1>1. ASSUME NEW s \in Sids, NEW u \in Users, Start(s, u) PROVE TypeOK'
  <2>1. LowestFree \in Nodes
    BY <1>1, LowestFreeIsFree DEF Start, FreeNodes
  <2>2. nodeToSID' \in [Nodes -> Sids \cup {NoSid}]
    BY <1>1, <2>1 DEF Start
  <2>3. sessions' \in [Sids -> [node : 0..MaxNodes, user : Users,
                                area : Areas, clean : BOOLEAN]]
    BY <1>1, <2>1 DEF Start, SessionConstants, Nodes
  <2> QED BY <1>1, <2>2, <2>3 DEF Start
<1>2. ASSUME NEW s \in Sids, NEW u \in Users, SetUser(s, u) PROVE TypeOK'
  BY <1>2 DEF SetUser
<1>3. ASSUME NEW s \in Sids, NEW a \in Areas, SetArea(s, a) PROVE TypeOK'
  BY <1>3 DEF SetArea
<1>4. ASSUME NEW s \in Sids, MarkCleanExit(s) PROVE TypeOK'
  BY <1>4 DEF MarkCleanExit
<1>5. ASSUME NEW s \in Sids, EndLive(s) PROVE TypeOK'
  <2>1. CallerOf(s) \in Callers
    BY <1>5, CallerType DEF EndLive
  <2>2. lastCallers' \in Seq(Callers)
    <3>1. <<CallerOf(s)>> \o lastCallers \in Seq(Callers)
      BY <2>1
    <3> QED BY <1>5, <3>1, NewestType DEF EndLive
  <2>3. reconnect' \in [Users -> Notices]
    BY <1>5 DEF EndLive, Notices
  <2>4. sessions' \in [Sids -> [node : 0..MaxNodes, user : Users,
                                area : Areas, clean : BOOLEAN]]
    BY <1>5 DEF EndLive, Offline, SessionConstants
  <2>5. nodeToSID' \in [Nodes -> Sids \cup {NoSid}]
    BY <1>5 DEF EndLive
  <2>6. ended' \in Seq(Endings)
    BY <1>5, <2>1 DEF EndLive, Endings
  <2> QED BY <1>5, <2>2, <2>3, <2>4, <2>5, <2>6 DEF EndLive
<1>6. ASSUME NEW u \in Users, TakeReconnectNotice(u) PROVE TypeOK'
  BY <1>6 DEF TakeReconnectNotice, NoNotice, Notices, SessionConstants
<1>7. CASE UNCHANGED managerVars
  BY <1>7 DEF managerVars
<1> QED BY <1>1, <1>2, <1>3, <1>4, <1>5, <1>6, <1>7 DEF Next, End

(* Every reachable state of the manager is well typed. *)
THEOREM TypeCorrect == Spec => []TypeOK
<1>1. Init => TypeOK
  BY SessionConstants, TypeInit
<1>2. TypeOK /\ [Next]_managerVars => TypeOK'
  BY SessionConstants, TypeStep
<1> QED BY <1>1, <1>2, PTL DEF Spec

-----------------------------------------------------------------------------
(* Node assignment.                                                        *)

(* A setter changes neither who holds a node nor which node a session has. *)
LEMMA SettersKeepNodes ==
  ASSUME TypeOK, NEW s \in Sids,
         \/ \E u \in Users : SetUser(s, u)
         \/ \E a \in Areas : SetArea(s, a)
         \/ MarkCleanExit(s)
  PROVE  /\ nodeToSID' = nodeToSID
         /\ \A x \in Sids : sessions'[x].node = sessions[x].node
<1>1. ASSUME NEW u \in Users, SetUser(s, u)
      PROVE  \A x \in Sids : sessions'[x].node = sessions[x].node
  BY <1>1 DEF TypeOK, SetUser
<1>2. ASSUME NEW a \in Areas, SetArea(s, a)
      PROVE  \A x \in Sids : sessions'[x].node = sessions[x].node
  BY <1>2 DEF TypeOK, SetArea
<1>3. ASSUME MarkCleanExit(s)
      PROVE  \A x \in Sids : sessions'[x].node = sessions[x].node
  BY <1>3 DEF TypeOK, MarkCleanExit
<1> QED BY <1>1, <1>2, <1>3 DEF SetUser, SetArea, MarkCleanExit

LEMMA NodeAssignmentStep ==
  ASSUME SessionConstants, TypeOK, NodeAssignment, [Next]_managerVars
  PROVE  NodeAssignment'
<1>1. ASSUME NEW s \in Sids, NEW u \in Users, Start(s, u)
      PROVE  NodeAssignment'
  <2>1. LowestFree \in Nodes /\ nodeToSID[LowestFree] = NoSid
    BY <1>1, LowestFreeIsFree DEF Start, FreeNodes
  <2>2. nodeToSID' = [nodeToSID EXCEPT ![LowestFree] = s]
    BY <1>1 DEF Start
  <2>3. /\ sessions'[s].node = LowestFree
        /\ \A x \in Sids \ {s} : sessions'[x] = sessions[x]
    BY <1>1 DEF Start, TypeOK
  <2>4. \A n \in Nodes : nodeToSID[n] # s
    BY <1>1 DEF Start, Live, NodeAssignment, Nodes
  <2> QED BY <2>1, <2>2, <2>3, <2>4 DEF NodeAssignment, TypeOK, SessionConstants
<1>2. ASSUME NEW s \in Sids,
             \/ \E u \in Users : SetUser(s, u)
             \/ \E a \in Areas : SetArea(s, a)
             \/ MarkCleanExit(s)
      PROVE  NodeAssignment'
  BY <1>2, SettersKeepNodes DEF NodeAssignment
<1>3. ASSUME NEW s \in Sids, EndLive(s) PROVE NodeAssignment'
  <2>1. nodeToSID' = [nodeToSID EXCEPT ![sessions[s].node] = NoSid]
    BY <1>3 DEF EndLive
  <2>2. /\ sessions'[s].node = 0
        /\ \A x \in Sids \ {s} : sessions'[x] = sessions[x]
    BY <1>3 DEF EndLive, TypeOK, Offline
  <2>3. sessions[s].node \in Nodes
    BY <1>3 DEF EndLive, Live, TypeOK, Nodes
  <2> QED BY <2>1, <2>2, <2>3 DEF NodeAssignment, TypeOK, SessionConstants, Nodes
<1>4. ASSUME NEW u \in Users, TakeReconnectNotice(u) PROVE NodeAssignment'
  BY <1>4 DEF TakeReconnectNotice, NodeAssignment
<1>5. CASE UNCHANGED managerVars
  BY <1>5 DEF managerVars, NodeAssignment
<1> QED BY <1>1, <1>2, <1>3, <1>4, <1>5 DEF Next, End

(* No node is ever shared, held by a session that is over, or lost by one  *)
(* that is on.                                                             *)
THEOREM NodesAreAssigned == Spec => []NodeAssignment
<1>1. Init => NodeAssignment
  BY SessionConstants DEF Init, NodeAssignment, SessionConstants, Offline, Nodes
<1>2. TypeOK /\ NodeAssignment /\ [Next]_managerVars => NodeAssignment'
  BY SessionConstants, NodeAssignmentStep
<1> QED BY <1>1, <1>2, TypeCorrect, PTL DEF Spec

(* The nodes held and the sessions on are equally many: the node of a      *)
(* session is a bijection between them.                                    *)
LEMMA HeldNodesCountSessions ==
  ASSUME SessionConstants, TypeOK, NodeAssignment
  PROVE  /\ IsFiniteSet(Nodes) /\ Cardinality(Nodes) = MaxNodes
         /\ Cardinality({s \in Sids : Live(s)}) = Cardinality(Nodes \ FreeNodes)
<1> DEFINE On   == {s \in Sids : Live(s)}
           Held == Nodes \ FreeNodes
           f    == [n \in Held |-> nodeToSID[n]]
<1>1. IsFiniteSet(Nodes) /\ Cardinality(Nodes) = MaxNodes
  BY FS_Interval DEF SessionConstants, Nodes
<1>2. IsFiniteSet(Held)
  BY <1>1, FS_Subset
<1>3. \A n \in Held : nodeToSID[n] \in Sids /\ sessions[nodeToSID[n]].node = n
  BY DEF FreeNodes, TypeOK, NodeAssignment
<1>4. f \in [Held -> On]
  BY <1>3 DEF Live, Nodes
<1>5. \A m, n \in Held : f[m] = f[n] => m = n
  BY <1>3
<1>6. \A s \in On : \E n \in Held : f[n] = s
  <2> SUFFICES ASSUME NEW s \in On PROVE \E n \in Held : f[n] = s
    OBVIOUS
  <2>1. sessions[s].node \in Nodes /\ nodeToSID[sessions[s].node] = s
    BY DEF Live, TypeOK, NodeAssignment, Nodes
  <2>2. sessions[s].node \in Held
    BY <2>1 DEF FreeNodes, SessionConstants
  <2> QED BY <2>1, <2>2
<1>7. ExistsBijection(Held, On)
  <2>1. f \in Injection(Held, On)
    BY <1>4, <1>5 DEF Injection, IsInjective
  <2>2. f \in Surjection(Held, On)
    BY <1>4, <1>6 DEF Surjection
  <2> QED BY <2>1, <2>2 DEF ExistsBijection, Bijection
<1>8. Cardinality(On) = Cardinality(Held)
  BY <1>2, <1>7, FS_Bijection
<1> QED BY <1>1, <1>8

(* A caller is turned away exactly when MaxNodes sessions are on.          *)
THEOREM RefusalMeansFull == Spec => []RefusedOnlyWhenFull
<1>1. TypeOK /\ NodeAssignment => RefusedOnlyWhenFull
  <2> SUFFICES ASSUME TypeOK, NodeAssignment PROVE RefusedOnlyWhenFull
    OBVIOUS
  <2> DEFINE Held == Nodes \ FreeNodes
  <2>1. /\ IsFiniteSet(Nodes) /\ Cardinality(Nodes) = MaxNodes
        /\ Cardinality({s \in Sids : Live(s)}) = Cardinality(Held)
    BY SessionConstants, HeldNodesCountSessions
  <2>2. FreeNodes = {} => Held = Nodes
    OBVIOUS
  <2>3. ASSUME Cardinality(Held) = MaxNodes PROVE Held = Nodes
    BY <2>1, <2>3, FS_Subset
  <2>4. Held = Nodes => FreeNodes = {}
    BY DEF FreeNodes
  <2> QED BY <2>1, <2>2, <2>3, <2>4 DEF RefusedOnlyWhenFull
<1> QED BY <1>1, TypeCorrect, NodesAreAssigned, PTL

-----------------------------------------------------------------------------
(* Callers and notices.                                                    *)

(* What a session that ends adds to the two lists. *)
LEMMA EndAppends ==
  ASSUME TypeOK, NEW s \in Sids, EndLive(s)
  PROVE  /\ Len(ended') = Len(ended) + 1
         /\ \A k \in 1..Len(ended) : ended'[k] = ended[k]
         /\ ended'[Len(ended) + 1].caller = CallerOf(s)
         /\ ended'[Len(ended) + 1].clean = sessions[s].clean
<1>1. ended \in Seq(Endings)
  BY DEF TypeOK
<1>2. ended' = Append(ended, [caller |-> CallerOf(s),
                              clean  |-> sessions[s].clean])
  BY DEF EndLive
<1>3. ended'[Len(ended) + 1] = [caller |-> CallerOf(s),
                                clean  |-> sessions[s].clean]
  BY <1>1, <1>2
<1>4. /\ ended'[Len(ended) + 1].caller = CallerOf(s)
      /\ ended'[Len(ended) + 1].clean = sessions[s].clean
  BY <1>3
<1> QED BY <1>1, <1>2, <1>4

LEMMA NewestKeepsFront ==
  ASSUME SessionConstants, NEW c \in Callers, NEW old \in Seq(Callers),
         Len(old) <= MaxCallers
  PROVE  LET new == Newest(<<c>> \o old) IN
         /\ Len(new) = IF Len(old) < MaxCallers THEN Len(old) + 1 ELSE MaxCallers
         /\ new[1] = c
         /\ \A k \in 2..Len(new) : new[k] = old[k - 1]
<1> DEFINE all == <<c>> \o old
<1>1. /\ all \in Seq(Callers)
      /\ Len(all) = Len(old) + 1
      /\ all[1] = c
      /\ \A k \in 2..Len(all) : all[k] = old[k - 1]
  OBVIOUS
<1>2. MaxCallers \in Nat /\ MaxCallers >= 1 /\ Len(old) \in Nat
  BY DEF SessionConstants
<1> HIDE DEF all
<1>3. CASE Len(all) > MaxCallers
  <2>1. Newest(all) = SubSeq(all, 1, MaxCallers)
    BY <1>3 DEF Newest
  <2>2. /\ Len(SubSeq(all, 1, MaxCallers)) = MaxCallers
        /\ \A k \in 1..MaxCallers : SubSeq(all, 1, MaxCallers)[k] = all[k]
    BY <1>1, <1>2, <1>3
  <2>3. 1 \in 1..MaxCallers /\ \A k \in 2..MaxCallers : k \in 1..MaxCallers /\ k \in 2..Len(all)
    BY <1>1, <1>2, <1>3
  <2>4. /\ Len(Newest(all)) = MaxCallers
        /\ Newest(all)[1] = c
        /\ \A k \in 2..MaxCallers : Newest(all)[k] = old[k - 1]
    BY <1>1, <2>1, <2>2, <2>3
  <2> QED BY <1>1, <1>2, <1>3, <2>4 DEF all
<1>4. CASE ~(Len(all) > MaxCallers)
  <2>1. Newest(all) = all
    BY <1>4 DEF Newest
  <2> QED BY <1>1, <1>2, <1>4, <2>1 DEF all
<1> QED BY <1>3, <1>4

LEMMA LastCallersStep ==
  ASSUME SessionConstants, TypeOK, LastCallersAreLatest, [Next]_managerVars
  PROVE  LastCallersAreLatest'
<1>1. ASSUME NEW s \in Sids, EndLive(s) PROVE LastCallersAreLatest'
  <2>1. CallerOf(s) \in Callers
    BY <1>1, CallerType DEF EndLive
  <2>2. lastCallers \in Seq(Callers) /\ Len(ended) \in Nat
    BY DEF TypeOK
  <2>3. MaxCallers \in Nat /\ Len(lastCallers) <= MaxCallers
    BY <2>2 DEF LastCallersAreLatest, SessionConstants
  <2>4. /\ Len(lastCallers') = IF Len(lastCallers) < MaxCallers
                                 THEN Len(lastCallers) + 1 ELSE MaxCallers
        /\ lastCallers'[1] = CallerOf(s)
        /\ \A k \in 2..Len(lastCallers') : lastCallers'[k] = lastCallers[k - 1]
    BY <1>1, <2>1, <2>2, <2>3, NewestKeepsFront DEF EndLive
  <2>5. /\ Len(ended') = Len(ended) + 1
        /\ \A k \in 1..Len(ended) : ended'[k].caller = ended[k].caller
        /\ ended'[Len(ended) + 1].caller = CallerOf(s)
    BY <1>1, EndAppends
  <2>6. /\ Len(lastCallers) \in Nat
        /\ Len(lastCallers) = IF Len(ended) < MaxCallers THEN Len(ended)
                                                         ELSE MaxCallers
        /\ \A k \in 1..Len(lastCallers) :
             lastCallers[k] = ended[Len(ended) - k + 1].caller
    BY <2>2 DEF LastCallersAreLatest
  <2>7. Len(lastCallers') = IF Len(ended') < MaxCallers THEN Len(ended')
                                                        ELSE MaxCallers
    BY <2>2, <2>3, <2>4, <2>5, <2>6
  <2>8. ASSUME NEW k \in 1..Len(lastCallers')
        PROVE  lastCallers'[k] = ended'[Len(ended') - k + 1].caller
    <3>1. CASE k = 1
      BY <2>2, <2>4, <2>5, <3>1
    <3>2. CASE k # 1
      <4>1. /\ k \in 2..Len(lastCallers')
            /\ k - 1 \in 1..Len(lastCallers)
            /\ Len(ended) - (k - 1) + 1 \in 1..Len(ended)
            /\ Len(ended') - k + 1 = Len(ended) - (k - 1) + 1
        <5>1. /\ k \in Nat /\ k >= 2 /\ k <= Len(lastCallers')
              /\ Len(lastCallers) <= Len(ended)
              /\ Len(lastCallers') <= Len(lastCallers) + 1
              /\ Len(lastCallers') \in Nat
          BY <2>2, <2>3, <2>4, <2>6, <3>2
        <5> QED BY <2>2, <2>5, <2>6, <5>1
      <4> QED BY <2>4, <2>5, <2>6, <4>1
    <3> QED BY <3>1, <3>2
  <2> QED BY <2>7, <2>8 DEF LastCallersAreLatest
<1>2. ASSUME UNCHANGED <<lastCallers, ended>> PROVE LastCallersAreLatest'
  BY <1>2 DEF LastCallersAreLatest
<1>3. \/ UNCHANGED <<lastCallers, ended>>
      \/ \E s \in Sids : EndLive(s)
  BY DEF Next, Start, SetUser, SetArea, MarkCleanExit, End,
         TakeReconnectNotice, managerVars
<1> QED BY <1>1, <1>2, <1>3

(* The list of last callers is the newest MaxCallers sessions that ended.  *)
THEOREM LastCallersCorrect == Spec => []LastCallersAreLatest
<1>1. Init => LastCallersAreLatest
  BY SessionConstants DEF Init, LastCallersAreLatest, SessionConstants
<1>2. TypeOK /\ LastCallersAreLatest /\ [Next]_managerVars
        => LastCallersAreLatest'
  BY SessionConstants, LastCallersStep
<1> QED BY <1>1, <1>2, TypeCorrect, PTL DEF Spec

(* The session at position k of ended is the one the notice of u is about. *)
NoticeFrom(u, k) ==
  /\ ended[k].caller.sid = reconnect[u].sid
  /\ ended[k].caller.user = u
  /\ ended[k].caller.area = reconnect[u].area
  /\ ~ended[k].clean
  /\ \A j \in k+1..Len(ended) : ended[j].caller.user = u => ended[j].clean

LEMMA NoticesStep ==
  ASSUME SessionConstants, TypeOK, NoticesAreTrue, [Next]_managerVars
  PROVE  NoticesAreTrue'
<1>1. ASSUME NEW s \in Sids, EndLive(s) PROVE NoticesAreTrue'
  <2>1. /\ Len(ended) \in Nat
        /\ Len(ended') = Len(ended) + 1
        /\ \A k \in 1..Len(ended) : ended'[k] = ended[k]
        /\ ended'[Len(ended) + 1].caller.sid = s
        /\ ended'[Len(ended) + 1].caller.user = sessions[s].user
        /\ ended'[Len(ended) + 1].caller.area = sessions[s].area
        /\ ended'[Len(ended) + 1].clean = sessions[s].clean
    <3>1. Len(ended) \in Nat
      BY DEF TypeOK
    <3>2. /\ Len(ended') = Len(ended) + 1
          /\ \A k \in 1..Len(ended) : ended'[k] = ended[k]
          /\ ended'[Len(ended) + 1].caller = CallerOf(s)
          /\ ended'[Len(ended) + 1].clean = sessions[s].clean
      BY <1>1, EndAppends
    <3>3. /\ CallerOf(s).sid = s
          /\ CallerOf(s).user = sessions[s].user
          /\ CallerOf(s).area = sessions[s].area
      BY DEF CallerOf
    <3> QED BY <3>1, <3>2, <3>3
  <2>2. sessions[s].user \in Users /\ sessions[s].clean \in BOOLEAN
    BY DEF TypeOK
  <2> SUFFICES ASSUME NEW u \in Users, reconnect'[u].sid # NoSid
               PROVE  /\ u # Guest
                      /\ \E k \in 1..Len(ended') : NoticeFrom(u, k)'
    BY DEF NoticesAreTrue, NoticeFrom
  <2>3. CASE Interrupted(s) /\ u = sessions[s].user
    <3>1. reconnect'[u].sid = s /\ reconnect'[u].area = sessions[s].area
      BY <1>1, <2>3 DEF EndLive, TypeOK
    <3>2. PICK k \in Nat : k = Len(ended) + 1
      BY <2>1
    <3>3. k \in 1..Len(ended') /\ k+1..Len(ended') = {}
      BY <2>1, <3>2
    <3>4. NoticeFrom(u, k)'
      BY <2>1, <2>3, <3>1, <3>2, <3>3 DEF NoticeFrom, Interrupted
    <3>5. u # Guest
      BY <2>3 DEF Interrupted
    <3> QED BY <3>3, <3>4, <3>5
  <2>4. CASE ~(Interrupted(s) /\ u = sessions[s].user)
    <3>1. reconnect'[u] = reconnect[u]
      BY <1>1, <2>4, <2>2 DEF EndLive, TypeOK
    <3>2. /\ u # Guest
          /\ \E k \in 1..Len(ended) : NoticeFrom(u, k)
      BY <3>1 DEF NoticesAreTrue, NoticeFrom
    <3>3. PICK k \in 1..Len(ended) : NoticeFrom(u, k)
      BY <3>2
    <3>4. sessions[s].user = u => sessions[s].clean
      BY <2>4, <3>2 DEF Interrupted
    <3>5. NoticeFrom(u, k)'
      BY <2>1, <3>1, <3>3, <3>4 DEF NoticeFrom
    <3> QED BY <2>1, <3>2, <3>5
  <2> QED BY <2>3, <2>4
<1>2. ASSUME NEW v \in Users, TakeReconnectNotice(v) PROVE NoticesAreTrue'
  <2>1. ended' = ended
        /\ \A u \in Users : reconnect'[u] = reconnect[u] \/ reconnect'[u].sid = NoSid
    BY <1>2 DEF TakeReconnectNotice, TypeOK, NoNotice
  <2> QED BY <2>1 DEF NoticesAreTrue
<1>3. ASSUME UNCHANGED <<reconnect, ended>> PROVE NoticesAreTrue'
  BY <1>3 DEF NoticesAreTrue
<1>4. \/ UNCHANGED <<reconnect, ended>>
      \/ \E s \in Sids : EndLive(s)
      \/ \E u \in Users : TakeReconnectNotice(u)
  BY DEF Next, Start, SetUser, SetArea, MarkCleanExit, End, managerVars
<1> QED BY <1>1, <1>2, <1>3, <1>4

(* A reconnect notice always tells of the last session its user did not    *)
(* sign off from.                                                          *)
THEOREM NoticesCorrect == Spec => []NoticesAreTrue
<1>1. Init => NoticesAreTrue
  BY DEF Init, NoticesAreTrue, NoNotice
<1>2. TypeOK /\ NoticesAreTrue /\ [Next]_managerVars => NoticesAreTrue'
  BY SessionConstants, NoticesStep
<1> QED BY <1>1, <1>2, TypeCorrect, PTL DEF Spec
=============================================================================
