-------------------------- MODULE ChatNodesProofs --------------------------
(***************************************************************************)
(* What several chat services on one database guarantee together, for any  *)
(* number of processes, callers, nicks, rooms and failing statements.      *)
(* Both bounds count what is between two SQL statements: a process whose   *)
(* Post has passed the rate test and not yet inserted its row, and one     *)
(* whose Post has read the bans and not yet inserted its message.  The     *)
(* mutex leaves each process at most one of either.                        *)
(* The second half is about what readers see.  Every message in a queue, a *)
(* channel or a client's hands was committed, and whatever is on its way   *)
(* to a live subscription is newer than what its page shows (Above),       *)
(* because the subscription opens under the mutex of its process.          *)
(***************************************************************************)
EXTENDS ChatNodes, FiniteSetTheorems, SequenceTheorems, WellFoundedInduction, TLAPS

Early == {"count", "charge", "draw"}
Late  == {"commit", "raise"}

Held == [stage : Early, by : Callers, room : Rooms]
               \cup [stage : Late, by : Callers, room : Rooms, id : Nat]

HolderTyped == holder \in [Procs -> {Free} \cup Held]

RulesTyped ==
  /\ HolderTyped
  /\ lastval \in Nat
  /\ rate    \in [Nicks -> Nat]
  /\ banned  \subseteq Pairs
  /\ known   \in [Procs -> SUBSET Pairs]
  /\ faults  \in Nat
  /\ slipped \in [Pairs -> Nat]

(* Processes about to insert a rate event for the nick.                    *)
Charging(n) == {p \in Procs : At(p, "charge") /\ NickOf[holder[p].by] = n}

Pair(p) == <<holder[p].room, NickOf[holder[p].by]>>

(* Processes that let a message of the pair through and have yet to insert *)
(* it.                                                                     *)
Entering(b) == {p \in Procs : /\ ~At(p, "free")
                              /\ ~At(p, "raise")
                              /\ Pair(p) = b}

RateRoom ==
  \A n \in Nicks :
    rate[n] + Cardinality(Charging(n)) <= RateBurst + Cardinality(Procs) - 1

SlipRoom ==
  \A b \in Pairs :
    /\ slipped[b] <= Cardinality(Procs) - 1 + faults
    /\ b \in banned => slipped[b] + Cardinality(Entering(b))
                         <= Cardinality(Procs) - 1 + faults

RulesInv == RulesTyped /\ RateRoom /\ SlipRoom

-----------------------------------------------------------------------------
(* Counting processes.                                                     *)

LEMMA ProcsFinite ==
  ASSUME NodeConstants, NEW S \in SUBSET Procs
  PROVE  /\ IsFiniteSet(S)
         /\ Cardinality(S) \in Nat
         /\ Cardinality(S) <= Cardinality(Procs)
         /\ Cardinality(Procs) \in Nat
         /\ Cardinality(Procs) >= 1
<1>1. IsFiniteSet(Procs) /\ Procs # {}
  BY DEF NodeConstants
<1>2. IsFiniteSet(S) /\ Cardinality(S) <= Cardinality(Procs)
  BY <1>1, FS_Subset
<1>3. Cardinality(S) \in Nat /\ Cardinality(Procs) \in Nat
  BY <1>1, <1>2, FS_CardinalityType
<1>4. Cardinality(Procs) # 0
  BY <1>1, FS_EmptySet
<1> QED BY <1>2, <1>3, <1>4

LEMMA NoMore ==
  ASSUME NodeConstants, NEW S \in SUBSET Procs, NEW T \in SUBSET S
  PROVE  Cardinality(T) <= Cardinality(S)
BY ProcsFinite, FS_Subset

LEMMA OneMore ==
  ASSUME NodeConstants, NEW S \in SUBSET Procs, NEW p \in Procs,
         NEW T \in SUBSET (S \cup {p})
  PROVE  Cardinality(T) <= Cardinality(S) + 1
<1>1. IsFiniteSet(S) /\ Cardinality(S) \in Nat
  BY ProcsFinite
<1>2. Cardinality(S \cup {p}) =
        IF p \in S THEN Cardinality(S) ELSE Cardinality(S) + 1
  BY <1>1, FS_AddElement, Zenon
<1>3. S \cup {p} \in SUBSET Procs
  OBVIOUS
<1>4. Cardinality(T) <= Cardinality(S \cup {p})
  BY <1>3, NoMore
<1>5. Cardinality(T) \in Nat /\ Cardinality(S \cup {p}) \in Nat
  BY <1>3, ProcsFinite
<1> QED BY <1>1, <1>2, <1>4, <1>5

LEMMA OneLess ==
  ASSUME NodeConstants, NEW S \in SUBSET Procs, NEW p \in S,
         NEW T \in SUBSET (S \ {p})
  PROVE  Cardinality(T) + 1 <= Cardinality(S)
<1>1. IsFiniteSet(S) /\ Cardinality(S) \in Nat
  BY ProcsFinite
<1>2. Cardinality(S \ {p}) =
        IF p \in S THEN Cardinality(S) - 1 ELSE Cardinality(S)
  BY <1>1, FS_RemoveElement, Zenon
<1>3. S \ {p} \in SUBSET Procs
  OBVIOUS
<1>4. Cardinality(T) <= Cardinality(S \ {p})
  BY <1>3, NoMore
<1>5. Cardinality(T) \in Nat
  BY <1>3, ProcsFinite
<1> QED BY <1>1, <1>2, <1>4, <1>5
-----------------------------------------------------------------------------
(* What each step does to the mutexes.                                     *)

LEMMA StageTyped ==
  ASSUME HolderTyped, NEW p \in Procs
  PROVE  /\ At(p, "free") <=> holder[p] = Free
         /\ ~At(p, "free") => holder[p] \in Held
         /\ ~At(p, "free") => Pair(p) \in Pairs
BY NodeConstants DEF HolderTyped, Held, At, Free, Pair, Pairs, Early, Late, NodeConstants

LEMMA GoToEffect ==
  ASSUME HolderTyped, NEW p \in Procs, NEW s,
         \/ At(p, "count") /\ s \in {"charge", "draw"}
         \/ At(p, "charge") /\ s = "draw"
         \/ At(p, "commit") /\ s = "raise",
         GoTo(p, s)
  PROVE  /\ HolderTyped'
         /\ \A q \in Procs \ {p} : holder'[q] = holder[q]
         /\ holder'[p].stage = s
         /\ holder'[p].by = holder[p].by
         /\ holder'[p].room = holder[p].room
<1>1. holder' = [holder EXCEPT ![p] = [holder[p] EXCEPT !.stage = s]]
  BY DEF GoTo
<1>2. CASE At(p, "commit") /\ s = "raise"
  <2>1. holder[p] \in [stage : Late, by : Callers, room : Rooms, id : Nat]
    BY <1>2 DEF HolderTyped, Held, At, Free, Early, Late
  <2>2. [holder[p] EXCEPT !.stage = s]
          \in [stage : Late, by : Callers, room : Rooms, id : Nat]
    BY <1>2, <2>1 DEF Late
  <2> QED BY <1>1, <2>1, <2>2 DEF HolderTyped, Held
<1>3. CASE (At(p, "count") /\ s \in {"charge", "draw"}) \/ (At(p, "charge") /\ s = "draw")
  <2>1. holder[p] \in [stage : Early, by : Callers, room : Rooms]
    BY <1>3 DEF HolderTyped, Held, At, Free, Early, Late
  <2>2. [holder[p] EXCEPT !.stage = s]
          \in [stage : Early, by : Callers, room : Rooms]
    BY <1>3, <2>1 DEF Early
  <2> QED BY <1>1, <2>1, <2>2 DEF HolderTyped, Held
<1> QED BY <1>2, <1>3

LEMMA SetsInProcs ==
  ASSUME NodeConstants
  PROVE  /\ \A n : Charging(n) \in SUBSET Procs /\ Charging(n)' \in SUBSET Procs
         /\ \A b : Entering(b) \in SUBSET Procs /\ Entering(b)' \in SUBSET Procs
BY DEF Charging, Entering

(* Steps that touch neither the mutexes nor the two tables.                *)
LEMMA QuietKeepsRules ==
  ASSUME NodeConstants, RulesInv,
         UNCHANGED <<holder, lastval, rate, banned, known, slipped>>,
         faults' \in Nat, faults' >= faults
  PROVE  RulesInv'
<1>1. RulesTyped'
  BY DEF RulesInv, RulesTyped, HolderTyped
<1>2. \A n \in Nicks : Charging(n)' = Charging(n)
  BY DEF Charging, At
<1>3. \A b \in Pairs : Entering(b)' = Entering(b)
  BY DEF Entering, At, Pair
<1>4. RateRoom'
  BY <1>2 DEF RulesInv, RateRoom
<1>5. SlipRoom'
  <2> SUFFICES ASSUME NEW b \in Pairs
               PROVE  /\ slipped[b] <= Cardinality(Procs) - 1 + faults'
                      /\ b \in banned => slipped[b] + Cardinality(Entering(b))
                           <= Cardinality(Procs) - 1 + faults'
    BY <1>3 DEF SlipRoom
  <2>1. Cardinality(Procs) \in Nat /\ Cardinality(Entering(b)) \in Nat
    BY ProcsFinite, SetsInProcs
  <2>2. slipped[b] \in Nat /\ faults \in Nat
    BY DEF RulesInv, RulesTyped
  <2> QED BY <2>1, <2>2 DEF RulesInv, SlipRoom
<1> QED BY <1>1, <1>4, <1>5 DEF RulesInv

(* The rate half, for a step that lets no process into Charging.           *)
LEMMA RateShrinks ==
  ASSUME NodeConstants, RulesInv, RulesTyped',
         \A n \in Nicks : Charging(n)' \subseteq Charging(n) /\ rate'[n] <= rate[n]
  PROVE  RateRoom'
<1> SUFFICES ASSUME NEW n \in Nicks
             PROVE  rate'[n] + Cardinality(Charging(n)')
                      <= RateBurst + Cardinality(Procs) - 1
  BY DEF RateRoom
<1>1. Cardinality(Charging(n)') <= Cardinality(Charging(n))
  BY SetsInProcs, NoMore
<1>2. /\ Cardinality(Charging(n)') \in Nat /\ Cardinality(Charging(n)) \in Nat
      /\ Cardinality(Procs) \in Nat
  BY SetsInProcs, ProcsFinite
<1>3. rate[n] \in Nat /\ rate'[n] \in Nat /\ RateBurst \in Nat
  BY DEF RulesInv, RulesTyped, NodeConstants
<1> QED BY <1>1, <1>2, <1>3 DEF RulesInv, RateRoom

(* The ban half, for a step that lets no process into Entering.            *)
LEMMA SlipShrinks ==
  ASSUME NodeConstants, RulesInv, faults' \in Nat, faults' >= faults,
         UNCHANGED <<banned, slipped>>,
         \A b \in Pairs : Entering(b)' \subseteq Entering(b)
  PROVE  SlipRoom'
<1> SUFFICES ASSUME NEW b \in Pairs
             PROVE  /\ slipped[b] <= Cardinality(Procs) - 1 + faults'
                    /\ b \in banned => slipped[b] + Cardinality(Entering(b)')
                         <= Cardinality(Procs) - 1 + faults'
  BY DEF SlipRoom
<1>1. Cardinality(Entering(b)') <= Cardinality(Entering(b))
  BY SetsInProcs, NoMore
<1>2. /\ Cardinality(Entering(b)') \in Nat /\ Cardinality(Entering(b)) \in Nat
      /\ Cardinality(Procs) \in Nat
  BY SetsInProcs, ProcsFinite
<1>3. slipped[b] \in Nat /\ faults \in Nat
  BY DEF RulesInv, RulesTyped
<1> QED BY <1>1, <1>2, <1>3 DEF RulesInv, SlipRoom

-----------------------------------------------------------------------------
(* The steps of a Post.                                                    *)

LEMMA FaultOrNot ==
  ASSUME RulesInv, NoFault \/ Fault
  PROVE  faults' \in Nat /\ faults' >= faults
BY DEF RulesInv, RulesTyped, NoFault, Fault

LEMMA BeginKeepsRules ==
  ASSUME NodeConstants, RulesInv, NEW k \in Callers, NEW r \in Rooms,
         PostBegin(k, r)
  PROVE  RulesInv'
<1> DEFINE p == ProcOf[k]
           b == <<r, NickOf[k]>>
<1>1. p \in Procs /\ b \in Pairs /\ NickOf[k] \in Nicks
  BY DEF NodeConstants, Pairs
<1>2. /\ holder[p] = Free
      /\ UNCHANGED <<lastval, rate, banned, slipped>>
      /\ NoFault \/ Fault
      /\ Refresh(p, b)
      /\ holder' = IF b \in known'[p] THEN holder
                    ELSE [holder EXCEPT ![p] = [stage |-> "count", by |-> k, room |-> r]]
  BY DEF PostBegin, Unlocked, Refresh, database
<1>3. faults' \in Nat /\ faults' >= faults
  BY <1>2, FaultOrNot
<1>4. known' \in [Procs -> SUBSET Pairs]
  BY <1>1, <1>2 DEF Refresh, RulesInv, RulesTyped
<1>5. CASE holder' = holder
  <2>1. RulesTyped'
    BY <1>2, <1>3, <1>4, <1>5 DEF RulesInv, RulesTyped, HolderTyped
  <2>2. \A n \in Nicks : Charging(n)' \subseteq Charging(n)
    BY <1>5 DEF Charging, At
  <2>3. \A x \in Pairs : Entering(x)' \subseteq Entering(x)
    BY <1>5 DEF Entering, At, Pair
  <2>4. \A n \in Nicks : rate'[n] <= rate[n]
    BY <1>2 DEF RulesInv, RulesTyped
  <2>5. RateRoom'
    BY <2>1, <2>2, <2>4, RateShrinks
  <2>6. SlipRoom'
    BY <1>2, <1>3, <2>3, SlipShrinks
  <2> QED BY <2>1, <2>5, <2>6 DEF RulesInv
<1>6. CASE /\ b \notin known'[p]
           /\ holder' = [holder EXCEPT ![p] = [stage |-> "count", by |-> k, room |-> r]]
  <2>1. /\ \A q \in Procs \ {p} : holder'[q] = holder[q]
        /\ holder'[p] = [stage |-> "count", by |-> k, room |-> r]
    BY <1>1, <1>6 DEF RulesInv, RulesTyped, HolderTyped
  <2>2. RulesTyped'
    <3>1. [stage |-> "count", by |-> k, room |-> r] \in Held
      BY DEF Held, Early
    <3>2. HolderTyped'
      BY <1>6, <3>1 DEF RulesInv, RulesTyped, HolderTyped
    <3> QED BY <1>2, <1>3, <1>4, <3>2 DEF RulesInv, RulesTyped
  <2>3. \A n \in Nicks : Charging(n)' \subseteq Charging(n)
    BY <2>1 DEF Charging, At
  <2>4. \A n \in Nicks : rate'[n] <= rate[n]
    BY <1>2 DEF RulesInv, RulesTyped
  <2>5. RateRoom'
    BY <2>2, <2>3, <2>4, RateShrinks
  <2>6. \A x \in Pairs : x # b => Entering(x)' \subseteq Entering(x)
    BY <2>1 DEF Entering, At, Pair
  <2>7. Entering(b)' \subseteq Entering(b) \cup {p}
    BY <2>1 DEF Entering, At, Pair
  <2>8. b \in banned => faults' = faults + 1
    BY <1>1, <1>2, <1>6 DEF Refresh, Fault, RulesInv, RulesTyped
  <2>9. SlipRoom'
    <3> HIDE DEF p, b
    <3> SUFFICES ASSUME NEW x \in Pairs
                 PROVE  /\ slipped[x] <= Cardinality(Procs) - 1 + faults'
                        /\ x \in banned => slipped[x] + Cardinality(Entering(x)')
                             <= Cardinality(Procs) - 1 + faults'
      BY <1>2 DEF SlipRoom
    <3>1. /\ Cardinality(Entering(x)') \in Nat /\ Cardinality(Entering(x)) \in Nat
          /\ Cardinality(Procs) \in Nat
      BY SetsInProcs, ProcsFinite
    <3>2. slipped[x] \in Nat /\ faults \in Nat
      BY DEF RulesInv, RulesTyped
    <3>3. CASE x = b
      <4>1. Cardinality(Entering(x)') <= Cardinality(Entering(x)) + 1
        BY <1>1, <2>7, <3>3, SetsInProcs, OneMore
      <4> QED BY <1>3, <2>8, <3>1, <3>2, <3>3, <4>1 DEF RulesInv, SlipRoom
    <3>4. CASE x # b
      <4>1. Cardinality(Entering(x)') <= Cardinality(Entering(x))
        BY <2>6, <3>4, SetsInProcs, NoMore
      <4> QED BY <1>3, <3>1, <3>2, <4>1 DEF RulesInv, SlipRoom
    <3> QED BY <3>3, <3>4
  <2> QED BY <2>2, <2>5, <2>9 DEF RulesInv
<1> QED BY <1>2, <1>5, <1>6

LEMMA CountKeepsRules ==
  ASSUME NodeConstants, RulesInv, NEW p \in Procs, PostCount(p)
  PROVE  RulesInv'
<1>0. PICK n \in Nicks : n = NickOf[holder[p].by]
  <2>1. HolderTyped /\ ~At(p, "free")
    BY DEF RulesInv, RulesTyped, PostCount, At
  <2>2. holder[p] \in Held
    BY <2>1, StageTyped
  <2> QED BY <2>2 DEF Held, NodeConstants
<1>1. /\ At(p, "count")
      /\ UNCHANGED <<lastval, rate, banned, known, slipped>>
      /\ NoFault \/ Fault
  BY DEF PostCount, database
<1>2. faults' \in Nat /\ faults' >= faults
  BY <1>1, FaultOrNot
<1>3. HolderTyped
  BY DEF RulesInv, RulesTyped
<1>4. /\ HolderTyped'
      /\ \A x \in Nicks : \/ Charging(x)' \subseteq Charging(x)
                          \/ x = n /\ rate[n] < RateBurst
      /\ \A b \in Pairs : Entering(b)' \subseteq Entering(b)
  <2>1. CASE holder' = [holder EXCEPT ![p] = Free]
    <3>1. HolderTyped'
      BY <1>3, <2>1 DEF HolderTyped
    <3>2. holder'[p] = Free /\ \A q \in Procs \ {p} : holder'[q] = holder[q]
      BY <1>3, <2>1 DEF HolderTyped
    <3>3. \A x \in Nicks : Charging(x)' \subseteq Charging(x)
      BY <3>2 DEF Charging, At, Free
    <3>4. \A b \in Pairs : Entering(b)' \subseteq Entering(b)
      BY <3>2 DEF Entering, At, Free, Pair
    <3> QED BY <3>1, <3>3, <3>4
  <2>2. CASE GoTo(p, "charge") /\ rate[n] < RateBurst
    <3>1. /\ HolderTyped'
          /\ \A q \in Procs \ {p} : holder'[q] = holder[q]
          /\ holder'[p].stage = "charge"
          /\ holder'[p].by = holder[p].by
          /\ holder'[p].room = holder[p].room
      BY <1>1, <1>3, <2>2, GoToEffect
    <3>2. \A x \in Nicks \ {n} : Charging(x)' \subseteq Charging(x)
      BY <1>0, <3>1 DEF Charging, At
    <3>3. \A b \in Pairs : Entering(b)' \subseteq Entering(b)
      BY <1>1, <3>1 DEF Entering, At, Pair
    <3> QED BY <2>2, <3>1, <3>2, <3>3
  <2>3. CASE GoTo(p, "draw")
    <3>1. /\ HolderTyped'
          /\ \A q \in Procs \ {p} : holder'[q] = holder[q]
          /\ holder'[p].stage = "draw"
          /\ holder'[p].by = holder[p].by
          /\ holder'[p].room = holder[p].room
      BY <1>1, <1>3, <2>3, GoToEffect
    <3>2. \A x \in Nicks : Charging(x)' \subseteq Charging(x)
      BY <3>1 DEF Charging, At
    <3>3. \A b \in Pairs : Entering(b)' \subseteq Entering(b)
      BY <1>1, <3>1 DEF Entering, At, Pair
    <3> QED BY <3>1, <3>2, <3>3
  <2>4. rate[n] \in Nat /\ RateBurst \in Nat
    BY DEF RulesInv, RulesTyped, NodeConstants
  <2> QED BY <1>0, <2>1, <2>2, <2>3, <2>4 DEF PostCount
<1>5. RulesTyped'
  BY <1>1, <1>2, <1>4 DEF RulesInv, RulesTyped
<1>6. RateRoom'
  <2> SUFFICES ASSUME NEW x \in Nicks
               PROVE  rate[x] + Cardinality(Charging(x)')
                        <= RateBurst + Cardinality(Procs) - 1
    BY <1>1 DEF RateRoom
  <2>1. /\ Cardinality(Charging(x)') \in Nat /\ Cardinality(Charging(x)) \in Nat
        /\ Cardinality(Procs) \in Nat
        /\ Cardinality(Charging(x)') <= Cardinality(Procs)
    BY SetsInProcs, ProcsFinite
  <2>2. rate[x] \in Nat /\ RateBurst \in Nat
    BY DEF RulesInv, RulesTyped, NodeConstants
  <2>3. CASE Charging(x)' \subseteq Charging(x)
    <3>1. Cardinality(Charging(x)') <= Cardinality(Charging(x))
      BY <2>3, SetsInProcs, NoMore
    <3> QED BY <2>1, <2>2, <3>1 DEF RulesInv, RateRoom
  <2>4. CASE x = n /\ rate[n] < RateBurst
    BY <2>1, <2>2, <2>4
  <2> QED BY <1>4, <2>3, <2>4
<1>7. SlipRoom'
  BY <1>1, <1>2, <1>4, SlipShrinks
<1> QED BY <1>5, <1>6, <1>7 DEF RulesInv

LEMMA ChargeKeepsRules ==
  ASSUME NodeConstants, RulesInv, NEW p \in Procs, PostCharge(p)
  PROVE  RulesInv'
<1>0. PICK n \in Nicks : n = NickOf[holder[p].by]
  <2>1. HolderTyped /\ ~At(p, "free")
    BY DEF RulesInv, RulesTyped, PostCharge, At
  <2>2. holder[p] \in Held
    BY <2>1, StageTyped
  <2> QED BY <2>2 DEF Held, NodeConstants
<1>1. /\ At(p, "charge")
      /\ UNCHANGED <<lastval, banned, known, slipped>>
      /\ NoFault \/ Fault
      /\ GoTo(p, "draw")
      /\ \/ rate' = [rate EXCEPT ![n] = @ + 1]
         \/ rate' = rate
  BY <1>0 DEF PostCharge
<1>2. faults' \in Nat /\ faults' >= faults
  BY <1>1, FaultOrNot
<1>3. HolderTyped
  BY DEF RulesInv, RulesTyped
<1>4. /\ HolderTyped'
      /\ \A q \in Procs \ {p} : holder'[q] = holder[q]
      /\ holder'[p].stage = "draw"
      /\ holder'[p].by = holder[p].by
      /\ holder'[p].room = holder[p].room
  BY <1>1, <1>3, GoToEffect
<1>5. /\ \A x \in Nicks : Charging(x)' \subseteq Charging(x)
      /\ p \in Charging(n)
      /\ Charging(n)' \subseteq Charging(n) \ {p}
  BY <1>0, <1>1, <1>4 DEF Charging, At
<1>6. \A b \in Pairs : Entering(b)' \subseteq Entering(b)
  BY <1>1, <1>4 DEF Entering, At, Pair
<1>7. rate \in [Nicks -> Nat]
  BY DEF RulesInv, RulesTyped
<1>8. /\ rate' \in [Nicks -> Nat]
      /\ rate'[n] <= rate[n] + 1
      /\ \A x \in Nicks \ {n} : rate'[x] = rate[x]
  BY <1>1, <1>7
<1>9. RulesTyped'
  BY <1>1, <1>2, <1>4, <1>8 DEF RulesInv, RulesTyped
<1>10. RateRoom'
  <2> SUFFICES ASSUME NEW x \in Nicks
               PROVE  rate'[x] + Cardinality(Charging(x)')
                        <= RateBurst + Cardinality(Procs) - 1
    BY DEF RateRoom
  <2>1. /\ Cardinality(Charging(x)') \in Nat /\ Cardinality(Charging(x)) \in Nat
        /\ Cardinality(Procs) \in Nat
    BY SetsInProcs, ProcsFinite
  <2>2. rate[x] \in Nat /\ rate'[x] \in Nat /\ RateBurst \in Nat
    BY <1>7, <1>8 DEF NodeConstants
  <2>3. CASE x = n
    <3>1. Cardinality(Charging(x)') + 1 <= Cardinality(Charging(x))
      BY <1>5, <2>3, SetsInProcs, OneLess
    <3> QED BY <1>8, <2>1, <2>2, <2>3, <3>1 DEF RulesInv, RateRoom
  <2>4. CASE x # n
    <3>1. Cardinality(Charging(x)') <= Cardinality(Charging(x))
      BY <1>5, SetsInProcs, NoMore
    <3> QED BY <1>8, <2>1, <2>2, <2>4, <3>1 DEF RulesInv, RateRoom
  <2> QED BY <2>3, <2>4
<1>11. SlipRoom'
  BY <1>1, <1>2, <1>6, SlipShrinks
<1> QED BY <1>9, <1>10, <1>11 DEF RulesInv

LEMMA DrawKeepsRules ==
  ASSUME NodeConstants, RulesInv, NEW p \in Procs, PostDraw(p)
  PROVE  RulesInv'
<1>1. /\ At(p, "draw")
      /\ UNCHANGED <<rate, banned, known, faults, slipped>>
      /\ lastval' = lastval + 1
      /\ holder' = [holder EXCEPT ![p] = [stage |-> "commit", by |-> holder[p].by,
                                          room |-> holder[p].room, id |-> lastval + 1]]
  BY DEF PostDraw, history
<1>2. HolderTyped /\ holder[p] \in Held /\ lastval \in Nat /\ faults \in Nat
  <2>1. HolderTyped /\ lastval \in Nat /\ faults \in Nat
    BY DEF RulesInv, RulesTyped
  <2> QED BY <1>1, <2>1, StageTyped DEF At
<1>3. [stage |-> "commit", by |-> holder[p].by, room |-> holder[p].room,
       id |-> lastval + 1] \in Held
  BY <1>2 DEF Held, Late
<1>4. HolderTyped'
  BY <1>1, <1>2, <1>3 DEF HolderTyped
<1>5. /\ \A q \in Procs \ {p} : holder'[q] = holder[q]
      /\ holder'[p].stage = "commit"
      /\ holder'[p].by = holder[p].by
      /\ holder'[p].room = holder[p].room
  BY <1>1, <1>2 DEF HolderTyped
<1>6. RulesTyped'
  BY <1>1, <1>2, <1>4 DEF RulesInv, RulesTyped
<1>7. \A n \in Nicks : Charging(n)' \subseteq Charging(n) /\ rate'[n] <= rate[n]
  <2>1. \A n \in Nicks : Charging(n)' \subseteq Charging(n)
    BY <1>5 DEF Charging, At
  <2> QED BY <1>1, <2>1 DEF RulesInv, RulesTyped
<1>8. \A b \in Pairs : Entering(b)' \subseteq Entering(b)
  BY <1>1, <1>5 DEF Entering, At, Pair
<1>9. RateRoom'
  BY <1>6, <1>7, RateShrinks
<1>10. SlipRoom'
  BY <1>1, <1>2, <1>8, SlipShrinks
<1> QED BY <1>6, <1>9, <1>10 DEF RulesInv

LEMMA CommitKeepsRules ==
  ASSUME NodeConstants, RulesInv, NEW p \in Procs, PostCommit(p)
  PROVE  RulesInv'
<1>0. HolderTyped /\ At(p, "commit") /\ ~At(p, "free")
  BY DEF RulesInv, RulesTyped, PostCommit, At
<1>1. PICK b \in Pairs : b = Pair(p)
  BY <1>0, StageTyped
<1>2. /\ UNCHANGED <<lastval, rate, banned, known>>
      /\ NoFault \/ Fault
      /\ \/ /\ slipped' = IF b \in banned THEN [slipped EXCEPT ![b] = @ + 1] ELSE slipped
            /\ GoTo(p, "raise")
         \/ /\ holder' = [holder EXCEPT ![p] = Free]
            /\ slipped' = slipped
  BY <1>1 DEF PostCommit, Pair
<1>3. faults' \in Nat /\ faults' >= faults
  BY <1>2, FaultOrNot
<1>4. /\ HolderTyped'
      /\ \A q \in Procs \ {p} : holder'[q] = holder[q]
      /\ holder'[p].stage \in {"free", "raise"}
  <2>1. CASE GoTo(p, "raise")
    BY <1>0, <2>1, GoToEffect
  <2>2. CASE holder' = [holder EXCEPT ![p] = Free]
    BY <1>0, <2>2 DEF HolderTyped, Free
  <2> QED BY <1>2, <2>1, <2>2
<1>5. \A n \in Nicks : Charging(n)' \subseteq Charging(n)
  BY <1>4 DEF Charging, At
<1>6. /\ \A x \in Pairs : Entering(x)' \subseteq Entering(x)
      /\ p \in Entering(b)
      /\ Entering(b)' \subseteq Entering(b) \ {p}
  BY <1>0, <1>1, <1>4 DEF Entering, At, Pair
<1>7. slipped \in [Pairs -> Nat] /\ faults \in Nat /\ rate \in [Nicks -> Nat]
  BY DEF RulesInv, RulesTyped
<1>8. /\ slipped' \in [Pairs -> Nat]
      /\ slipped'[b] <= slipped[b] + 1
      /\ b \notin banned => slipped'[b] = slipped[b]
      /\ \A x \in Pairs \ {b} : slipped'[x] = slipped[x]
  BY <1>2, <1>7
<1>9. RulesTyped'
  BY <1>2, <1>3, <1>4, <1>8 DEF RulesInv, RulesTyped
<1>10. RateRoom'
  <2>1. \A n \in Nicks : rate'[n] <= rate[n]
    BY <1>2, <1>7
  <2> QED BY <1>5, <1>9, <2>1, RateShrinks
<1>11. SlipRoom'
  <2> SUFFICES ASSUME NEW x \in Pairs
               PROVE  /\ slipped'[x] <= Cardinality(Procs) - 1 + faults'
                      /\ x \in banned => slipped'[x] + Cardinality(Entering(x)')
                           <= Cardinality(Procs) - 1 + faults'
    BY <1>2 DEF SlipRoom
  <2>1. /\ Cardinality(Entering(x)') \in Nat /\ Cardinality(Entering(x)) \in Nat
        /\ Cardinality(Procs) \in Nat
    BY SetsInProcs, ProcsFinite
  <2>2. slipped[x] \in Nat /\ slipped'[x] \in Nat
    BY <1>7, <1>8
  <2>3. CASE x = b
    <3>1. Cardinality(Entering(x)') + 1 <= Cardinality(Entering(x))
      BY <1>6, <2>3, SetsInProcs, OneLess
    <3> QED BY <1>3, <1>7, <1>8, <2>1, <2>2, <2>3, <3>1 DEF RulesInv, SlipRoom
  <2>4. CASE x # b
    <3>1. Cardinality(Entering(x)') <= Cardinality(Entering(x))
      BY <1>6, SetsInProcs, NoMore
    <3> QED BY <1>3, <1>7, <1>8, <2>1, <2>2, <2>4, <3>1 DEF RulesInv, SlipRoom
  <2> QED BY <2>3, <2>4
<1> QED BY <1>9, <1>10, <1>11 DEF RulesInv

LEMMA RaiseKeepsRules ==
  ASSUME NodeConstants, RulesInv, NEW p \in Procs, PostRaise(p)
  PROVE  RulesInv'
<1>1. /\ holder' = [holder EXCEPT ![p] = Free]
      /\ UNCHANGED <<lastval, rate, banned, known, faults, slipped>>
  BY DEF PostRaise, database, history
<1>2. /\ HolderTyped /\ faults \in Nat /\ rate \in [Nicks -> Nat]
      /\ HolderTyped'
  BY <1>1 DEF RulesInv, RulesTyped, HolderTyped
<1>3. holder'[p].stage = "free" /\ \A q \in Procs \ {p} : holder'[q] = holder[q]
  BY <1>1, <1>2 DEF HolderTyped, Free
<1>4. RulesTyped'
  BY <1>1, <1>2 DEF RulesInv, RulesTyped
<1>5. /\ \A n \in Nicks : Charging(n)' \subseteq Charging(n)
      /\ \A b \in Pairs : Entering(b)' \subseteq Entering(b)
  BY <1>3 DEF Charging, Entering, At, Pair
<1>6. \A n \in Nicks : rate'[n] <= rate[n]
  BY <1>1, <1>2
<1>7. RateRoom'
  BY <1>4, <1>5, <1>6, RateShrinks
<1>8. SlipRoom'
  BY <1>1, <1>2, <1>5, SlipShrinks
<1> QED BY <1>4, <1>7, <1>8 DEF RulesInv

-----------------------------------------------------------------------------
(* Moderation and the window.                                              *)

LEMMA BanKeepsRules ==
  ASSUME NodeConstants, RulesInv, NEW p \in Procs, NEW b \in Pairs, Ban(p, b)
  PROVE  RulesInv'
<1>1. /\ holder[p] = Free
      /\ UNCHANGED <<lastval, rate, holder>>
      /\ known' = [known EXCEPT ![p] = @ \cup {b}]
      /\ NoFault \/ Fault
      /\ \/ /\ banned' = banned \cup {b}
            /\ slipped' = IF b \in banned THEN slipped ELSE [slipped EXCEPT ![b] = 0]
         \/ banned' = banned /\ slipped' = slipped
  BY DEF Ban, Unlocked
<1>2. faults' \in Nat /\ faults' >= faults
  BY <1>1, FaultOrNot
<1>3. /\ HolderTyped /\ faults \in Nat /\ rate \in [Nicks -> Nat]
      /\ slipped \in [Pairs -> Nat] /\ banned \subseteq Pairs
  BY DEF RulesInv, RulesTyped
<1>4. RulesTyped'
  BY <1>1, <1>2 DEF RulesInv, RulesTyped, HolderTyped
<1>5. /\ \A n \in Nicks : Charging(n)' = Charging(n)
      /\ \A x \in Pairs : Entering(x)' = Entering(x)
  BY <1>1 DEF Charging, Entering, At, Pair
<1>6. p \notin Entering(b)
  BY <1>1 DEF Entering, At, Free
<1>7. RateRoom'
  <2>1. \A n \in Nicks : rate'[n] <= rate[n]
    BY <1>1, <1>3
  <2> QED BY <1>4, <1>5, <2>1, RateShrinks
<1>8. SlipRoom'
  <2> SUFFICES ASSUME NEW x \in Pairs
               PROVE  /\ slipped'[x] <= Cardinality(Procs) - 1 + faults'
                      /\ x \in banned' => slipped'[x] + Cardinality(Entering(x))
                           <= Cardinality(Procs) - 1 + faults'
    BY <1>5 DEF SlipRoom
  <2>1. Cardinality(Entering(x)) \in Nat /\ Cardinality(Procs) \in Nat
    BY SetsInProcs, ProcsFinite
  <2>2. CASE slipped'[x] = slipped[x] /\ (x \in banned' => x \in banned)
    <3>1. slipped[x] \in Nat
      BY <1>3
    <3> QED BY <1>2, <1>3, <2>1, <2>2, <3>1 DEF RulesInv, SlipRoom
  <2>3. CASE x = b /\ slipped'[x] = 0
    <3>1. Cardinality(Entering(x)) + 1 <= Cardinality(Procs)
      BY <1>6, <2>3, SetsInProcs, OneLess
    <3> QED BY <1>2, <1>3, <2>1, <2>3, <3>1
  <2>4. \/ slipped'[x] = slipped[x] /\ (x \in banned' => x \in banned)
        \/ x = b /\ slipped'[x] = 0
    BY <1>1, <1>3
  <2> QED BY <2>2, <2>3, <2>4
<1> QED BY <1>4, <1>7, <1>8 DEF RulesInv

LEMMA UnbanKeepsRules ==
  ASSUME NodeConstants, RulesInv, NEW p \in Procs, NEW b \in Pairs, Unban(p, b)
  PROVE  RulesInv'
<1>1. /\ UNCHANGED <<lastval, rate, holder, slipped>>
      /\ known' = [known EXCEPT ![p] = @ \ {b}]
      /\ NoFault \/ Fault
      /\ banned' \subseteq banned
  BY DEF Unban
<1>2. faults' \in Nat /\ faults' >= faults
  BY <1>1, FaultOrNot
<1>3. faults \in Nat /\ rate \in [Nicks -> Nat] /\ slipped \in [Pairs -> Nat]
  BY DEF RulesInv, RulesTyped
<1>4. RulesTyped'
  BY <1>1, <1>2 DEF RulesInv, RulesTyped, HolderTyped
<1>5. /\ \A n \in Nicks : Charging(n)' = Charging(n)
      /\ \A x \in Pairs : Entering(x)' = Entering(x)
  BY <1>1 DEF Charging, Entering, At, Pair
<1>6. RateRoom'
  <2>1. \A n \in Nicks : rate'[n] <= rate[n]
    BY <1>1, <1>3
  <2> QED BY <1>4, <1>5, <2>1, RateShrinks
<1>7. SlipRoom'
  <2> SUFFICES ASSUME NEW x \in Pairs
               PROVE  /\ slipped[x] <= Cardinality(Procs) - 1 + faults'
                      /\ x \in banned => slipped[x] + Cardinality(Entering(x))
                           <= Cardinality(Procs) - 1 + faults'
    BY <1>1, <1>5 DEF SlipRoom
  <2>1. /\ Cardinality(Entering(x)) \in Nat /\ Cardinality(Procs) \in Nat
        /\ slipped[x] \in Nat
    BY <1>3, SetsInProcs, ProcsFinite
  <2> QED BY <1>2, <1>3, <2>1 DEF RulesInv, SlipRoom
<1> QED BY <1>4, <1>6, <1>7 DEF RulesInv

LEMMA WindowKeepsRules ==
  ASSUME NodeConstants, RulesInv, NEW n \in Nicks, WindowMoves(n)
  PROVE  RulesInv'
<1>1. /\ rate[n] > 0
      /\ rate' = [rate EXCEPT ![n] = @ - 1]
      /\ UNCHANGED <<lastval, holder, banned, known, faults, slipped>>
  BY DEF WindowMoves, services, history
<1>2. faults \in Nat /\ rate \in [Nicks -> Nat]
  BY DEF RulesInv, RulesTyped
<1>3. rate' \in [Nicks -> Nat] /\ \A x \in Nicks : rate'[x] <= rate[x]
  BY <1>1, <1>2
<1>4. RulesTyped'
  BY <1>1, <1>3 DEF RulesInv, RulesTyped, HolderTyped
<1>5. /\ \A x \in Nicks : Charging(x)' = Charging(x)
      /\ \A x \in Pairs : Entering(x)' = Entering(x)
  BY <1>1 DEF Charging, Entering, At, Pair
<1>6. RateRoom' /\ SlipRoom'
  BY <1>1, <1>2, <1>3, <1>4, <1>5, RateShrinks, SlipShrinks
<1> QED BY <1>4, <1>6 DEF RulesInv

-----------------------------------------------------------------------------
(* Readers and listeners write no table and take no mutex.                 *)
LEMMA ReadingIsQuiet ==
  ASSUME ReadStep \/ UNCHANGED vars
  PROVE  UNCHANGED <<holder, lastval, rows, rate, banned, known, faults, slipped>>
<1>1. CASE \E p \in Procs : Dispatch(p) \/ ListenerReconnects(p)
  BY <1>1 DEF Dispatch, ListenerReconnects, database, history
<1>2. CASE \E c \in Clients : \/ WatchPoll(c) \/ PumpTest(c) \/ PumpSend(c)
                              \/ WriteBatch(c) \/ TakeLive(c)
  BY <1>2 DEF WatchPoll, PumpTest, PumpSend, WriteBatch, TakeLive, database, services, history
<1>3. CASE \E c \in IrcClients : IrcPart(c) \/ IrcTick(c) \/ \E r \in Rooms : IrcJoin(c, r)
  BY <1>3 DEF IrcPart, IrcTick, IrcJoin, database, services, history
<1>4. CASE \E c \in Browsers : \/ StreamReplay(c) \/ StreamSubscribe(c) \/ StreamEnd(c)
                               \/ \E r \in Rooms : PageOpen(c, r)
  BY <1>4 DEF StreamReplay, StreamSubscribe, StreamEnd, PageOpen, database, services, history
<1>5. CASE UNCHANGED vars
  BY <1>5 DEF vars, database, services, history
<1>. QED
  BY <1>1, <1>2, <1>3, <1>4, <1>5 DEF ReadStep

(* Reading, and the part of a Post after it has unlocked, change no rule.  *)
LEMMA ReadingKeepsRules ==
  ASSUME NodeConstants, RulesInv,
         \/ ReadStep
         \/ \E k \in Callers : PostNotify(k) \/ \E c \in Clients : PostSend(k, c)
         \/ UNCHANGED vars
  PROVE  RulesInv'
<1>1. /\ UNCHANGED <<holder, lastval, rate, banned, known, slipped>>
      /\ NoFault \/ Fault
  <2>1. CASE ReadStep \/ UNCHANGED vars
    BY <2>1, ReadingIsQuiet DEF NoFault
  <2>2. CASE \E k \in Callers : PostNotify(k) \/ \E c \in Clients : PostSend(k, c)
    BY <2>2 DEF PostNotify, PostSend, database, history, NoFault
  <2> QED BY <2>1, <2>2
<1> QED BY <1>1, FaultOrNot, QuietKeepsRules

LEMMA StepKeepsRules ==
  ASSUME NodeConstants, RulesInv, [Next]_vars
  PROVE  RulesInv'
<1>1. CASE PostStep
  <2>1. CASE \E k \in Callers, r \in Rooms : PostBegin(k, r)
    BY <2>1, BeginKeepsRules
  <2>2. CASE \E p \in Procs : \/ PostCount(p) \/ PostCharge(p) \/ PostDraw(p)
                              \/ PostCommit(p) \/ PostRaise(p)
    BY <2>2, CountKeepsRules, ChargeKeepsRules, DrawKeepsRules, CommitKeepsRules,
       RaiseKeepsRules
  <2>3. CASE \E k \in Callers : PostNotify(k) \/ \E c \in Clients : PostSend(k, c)
    BY <2>3, ReadingKeepsRules
  <2> QED BY <1>1, <2>1, <2>2, <2>3 DEF PostStep
<1>2. CASE RuleStep
  BY <1>2, BanKeepsRules, UnbanKeepsRules, WindowKeepsRules DEF RuleStep
<1>3. CASE ReadStep \/ UNCHANGED vars
  BY <1>3, ReadingKeepsRules
<1> QED BY <1>1, <1>2, <1>3 DEF Next

LEMMA InitRules ==
  ASSUME NodeConstants, Init
  PROVE  RulesInv
<1>1. RulesTyped
  BY DEF Init, RulesTyped, HolderTyped
<1>2. \A n \in Nicks : Charging(n) = {}
  BY DEF Init, Charging, At, Free
<1>3. \A b \in Pairs : Entering(b) = {}
  BY DEF Init, Entering, At, Free
<1>4. Cardinality({}) = 0
  BY FS_EmptySet
<1>5. Cardinality(Procs) \in Nat /\ Cardinality(Procs) >= 1 /\ RateBurst \in Nat
  BY ProcsFinite DEF NodeConstants
<1>6. RateRoom
  <2>1. \A n \in Nicks : rate[n] = 0
    BY DEF Init
  <2>2. \A n \in Nicks : Cardinality(Charging(n)) = 0
    BY <1>2, <1>4
  <2> QED BY <1>5, <2>1, <2>2 DEF RateRoom, NodeConstants
<1>7. SlipRoom
  <2>1. faults = 0 /\ \A b \in Pairs : slipped[b] = 0
    BY DEF Init
  <2>2. \A b \in Pairs : Cardinality(Entering(b)) = 0
    BY <1>3, <1>4
  <2> QED BY <1>5, <2>1, <2>2 DEF SlipRoom
<1> QED BY <1>1, <1>6, <1>7 DEF RulesInv

LEMMA RulesAlways == Spec => []RulesInv
<1>1. Init => RulesInv
  BY NodeConstants, InitRules
<1>2. RulesInv /\ [Next]_vars => RulesInv'
  BY NodeConstants, StepKeepsRules
<1> QED BY <1>1, <1>2, PTL DEF Spec

(* However the statements of the processes interleave and fail, the rate   *)
(* rows of a nick exceed the burst by less than the number of processes.   *)
THEOREM RateOverrunIsBounded == Spec => []RateOverrunBounded
<1>1. RulesInv => RateOverrunBounded
  <2> SUFFICES ASSUME RulesInv, NEW n \in Nicks
               PROVE  rate[n] <= RateBurst + Cardinality(Procs) - 1
    BY DEF RateOverrunBounded
  <2>1. Cardinality(Charging(n)) \in Nat /\ Cardinality(Procs) \in Nat
    BY NodeConstants, SetsInProcs, ProcsFinite
  <2>2. rate[n] \in Nat /\ RateBurst \in Nat
    BY NodeConstants DEF RulesInv, RulesTyped, NodeConstants
  <2> QED BY <2>1, <2>2 DEF RulesInv, RateRoom
<1> QED BY <1>1, RulesAlways, PTL

(* Once a ban is recorded, fewer messages of the nick get in than there    *)
(* are processes, and one more for each failed statement.                  *)
THEOREM BanReachesAll == Spec => []BanReachesEveryProcess
<1>1. RulesInv => BanReachesEveryProcess
  BY DEF RulesInv, SlipRoom, BanReachesEveryProcess
<1> QED BY <1>1, RulesAlways, PTL

-----------------------------------------------------------------------------
(* The types.  A message id is drawn by a Post, and a reader only ever     *)
(* handles ids of committed messages.                                      *)

(* Processes whose Post may still draw an id.                              *)
Drawing == {p \in Procs : holder[p].stage \in Early}

HolderOK(p) ==
  ~Unlocked(p) =>
    /\ ProcOf[holder[p].by] = p
    /\ holder[p].stage \in Late => holder[p].id \in 1..lastval
    /\ holder[p].stage = "raise" => [id |-> holder[p].id, room |-> holder[p].room] \in rows

PostsInv ==
  /\ lastval + Cardinality(Drawing) <= MaxMessages
  /\ rows \subseteq [id : 1..lastval, room : Rooms]
  /\ faults \in 0..MaxFaults
  /\ \A p \in Procs : HolderOK(p)

(* What a step of process p does to a Post.                                *)
LEMMA MovesPost ==
  ASSUME NodeConstants, RulesInv, PostsInv, NEW p \in Procs,
         \A q \in Procs \ {p} : holder'[q] = holder[q],
         lastval' \in Nat, lastval' >= lastval, rows \subseteq rows',
         rows' \subseteq [id : 1..lastval', room : Rooms],
         faults' \in 0..MaxFaults,
         lastval' + Cardinality(Drawing') <= MaxMessages,
         HolderOK(p)'
  PROVE  PostsInv'
<1>1. ASSUME NEW q \in Procs, q # p PROVE HolderOK(q)'
  <2>1. holder'[q] = holder[q] /\ lastval \in Nat
    BY <1>1 DEF RulesInv, RulesTyped
  <2>2. HolderOK(q)
    BY DEF PostsInv
  <2>. QED
    BY <2>1, <2>2 DEF HolderOK, Unlocked
<1>. QED
  BY <1>1 DEF PostsInv

LEMMA DrawingInProcs == Drawing \in SUBSET Procs /\ Drawing' \in SUBSET Procs
  BY DEF Drawing

(* The id a Post will draw is within the bound.                            *)
LEMMA DrawRoom ==
  ASSUME NodeConstants, RulesInv, PostsInv
  PROVE  /\ lastval \in 0..MaxMessages
         /\ \A p \in Procs : At(p, "draw") => lastval + 1 \in 1..MaxMessages
<1>1. lastval \in Nat /\ MaxMessages \in Nat /\ Cardinality(Drawing) \in Nat
  BY DrawingInProcs, ProcsFinite DEF RulesInv, RulesTyped, NodeConstants
<1>2. ASSUME NEW p \in Procs, At(p, "draw") PROVE Cardinality(Drawing) >= 1
  <2>1. p \in Drawing
    BY <1>2 DEF Drawing, At, Early
  <2>2. Cardinality({}) + 1 <= Cardinality(Drawing)
    BY <2>1, DrawingInProcs, OneLess
  <2>. QED
    BY <2>2, FS_EmptySet
<1>. QED
  BY <1>1, <1>2 DEF PostsInv

LEMMA FaultsBounded ==
  ASSUME PostsInv, NodeConstants, NoFault \/ Fault PROVE faults' \in 0..MaxFaults
  BY DEF PostsInv, NoFault, Fault, NodeConstants

LEMMA PostsBegin ==
  ASSUME NodeConstants, RulesInv, PostsInv, NEW k \in Callers, NEW r \in Rooms, PostBegin(k, r)
  PROVE  PostsInv'
<1>. DEFINE p == ProcOf[k]
            busy == {q \in Procs : ~Unlocked(q)}
<1>1. /\ p \in Procs
      /\ UNCHANGED <<lastval, rows>>
      /\ NoFault \/ Fault
      /\ \/ holder' = holder
         \/ holder' = [holder EXCEPT ![p] = [stage |-> "count", by |-> k, room |-> r]]
      /\ lastval + Cardinality(busy) < MaxMessages
  BY DEF PostBegin, Refresh, database, NodeConstants
<1>. HIDE DEF p
<1>2. /\ holder \in [Procs -> {Free} \cup Held] /\ lastval \in Nat
      /\ rows \subseteq [id : 1..lastval, room : Rooms]
      /\ faults' \in 0..MaxFaults
  BY <1>1, FaultsBounded DEF RulesInv, RulesTyped, HolderTyped, PostsInv
<1>3. CASE holder' = holder
  <2>1. Drawing' = Drawing
    BY <1>3 DEF Drawing
  <2>2. lastval + Cardinality(Drawing') <= MaxMessages
    BY <2>1 DEF PostsInv
  <2>3. HolderOK(p)'
    BY <1>1, <1>3 DEF PostsInv, HolderOK, Unlocked
  <2>. QED
    BY <1>1, <1>2, <1>3, <2>2, <2>3, MovesPost
<1>4. CASE holder' = [holder EXCEPT ![p] = [stage |-> "count", by |-> k, room |-> r]]
  <2>1. /\ \A q \in Procs \ {p} : holder'[q] = holder[q]
        /\ holder'[p] = [stage |-> "count", by |-> k, room |-> r]
    BY <1>1, <1>2, <1>4
  <2>2. Drawing' \in SUBSET (busy \cup {p})
    BY <2>1 DEF Drawing, Unlocked, Free, Early
  <2>3. Cardinality(Drawing') <= Cardinality(busy) + 1
    BY <1>1, <2>2, OneMore
  <2>4. Cardinality(Drawing') \in Nat /\ Cardinality(busy) \in Nat
    BY DrawingInProcs, ProcsFinite
  <2>5. HolderOK(p)'
    BY <2>1 DEF HolderOK, Late, p
  <2>6. lastval + Cardinality(Drawing') <= MaxMessages
    BY <1>1, <1>2, <2>3, <2>4 DEF NodeConstants
  <2>. QED
    BY <1>1, <1>2, <2>1, <2>5, <2>6, MovesPost
<1>. QED
  BY <1>1, <1>3, <1>4

(* Where a Post goes on, ends or has inserted its row.                     *)
LEMMA PostsGoOn ==
  ASSUME NodeConstants, RulesInv, PostsInv, NEW p \in Procs,
         PostCount(p) \/ PostCharge(p) \/ PostCommit(p) \/ PostRaise(p)
  PROVE  PostsInv'
<1>. USE DEF At
<1>1. /\ ~Unlocked(p) /\ HolderTyped /\ holder[p] \in Held
      /\ ProcOf[holder[p].by] = p
      /\ lastval \in Nat /\ rows \subseteq [id : 1..lastval, room : Rooms]
  <2>1. HolderTyped /\ ~At(p, "free") /\ lastval \in Nat
    BY DEF PostCount, PostCharge, PostCommit, PostRaise, RulesInv, RulesTyped
  <2>2. holder[p] \in Held
    BY <2>1, StageTyped
  <2>3. ~Unlocked(p)
    BY <2>1 DEF Unlocked, Free
  <2>4. ProcOf[holder[p].by] = p
    BY <2>3 DEF PostsInv, HolderOK
  <2>5. rows \subseteq [id : 1..lastval, room : Rooms]
    BY DEF PostsInv
  <2>. QED
    BY <2>1, <2>2, <2>3, <2>4, <2>5
<1>2. /\ lastval' = lastval
      /\ NoFault \/ Fault
  BY DEF PostCount, PostCharge, PostCommit, PostRaise, database, history, NoFault
<1>3. \/ holder' = [holder EXCEPT ![p] = Free] /\ rows' = rows
      \/ /\ holder[p].stage \in {"count", "charge"} /\ rows' = rows
         /\ \/ holder[p].stage = "count" /\ GoTo(p, "charge")
            \/ GoTo(p, "draw")
      \/ /\ holder[p].stage = "commit" /\ GoTo(p, "raise")
         /\ rows' = rows \cup {[id |-> holder[p].id, room |-> holder[p].room]}
  BY DEF PostCount, PostCharge, PostCommit, PostRaise, database
<1>4. faults' \in 0..MaxFaults
  BY <1>2, FaultsBounded
<1>5. ASSUME NEW s, GoTo(p, s),
             \/ holder[p].stage = "count" /\ s \in {"charge", "draw"}
             \/ holder[p].stage = "charge" /\ s = "draw"
             \/ holder[p].stage = "commit" /\ s = "raise"
      PROVE  /\ \A q \in Procs \ {p} : holder'[q] = holder[q]
             /\ holder'[p].stage = s
             /\ holder'[p].by = holder[p].by
             /\ holder'[p].room = holder[p].room
             /\ holder[p].stage = "commit" => holder'[p].id = holder[p].id
  <2>1. holder' = [holder EXCEPT ![p] = [holder[p] EXCEPT !.stage = s]]
    BY <1>5 DEF GoTo
  <2>. QED
    BY <1>1, <1>5, <2>1, GoToEffect DEF HolderTyped, Held, Early, Late
<1>6. /\ \A q \in Procs \ {p} : holder'[q] = holder[q]
      /\ HolderOK(p)'
      /\ rows \subseteq rows' /\ rows' \subseteq [id : 1..lastval, room : Rooms]
      /\ Drawing' \subseteq Drawing
  <2>1. CASE holder' = [holder EXCEPT ![p] = Free] /\ rows' = rows
    <3>1. holder'[p] = Free /\ \A q \in Procs \ {p} : holder'[q] = holder[q]
      BY <1>1, <2>1 DEF HolderTyped
    <3>. QED
      BY <1>1, <2>1, <3>1 DEF HolderOK, Unlocked, Drawing, Free, Early
  <2>2. CASE /\ holder[p].stage \in {"count", "charge"} /\ rows' = rows
             /\ \/ holder[p].stage = "count" /\ GoTo(p, "charge")
                \/ GoTo(p, "draw")
    <3>1. PICK s \in {"charge", "draw"} :
            /\ \A q \in Procs \ {p} : holder'[q] = holder[q]
            /\ holder'[p].stage = s
            /\ holder'[p].by = holder[p].by
      BY <1>5, <2>2
    <3>2. Drawing' \subseteq Drawing
      BY <2>2, <3>1 DEF Drawing, Early
    <3>. QED
      BY <1>1, <2>2, <3>1, <3>2 DEF HolderOK, Late
  <2>3. CASE /\ holder[p].stage = "commit" /\ GoTo(p, "raise")
             /\ rows' = rows \cup {[id |-> holder[p].id, room |-> holder[p].room]}
    <3>1. /\ \A q \in Procs \ {p} : holder'[q] = holder[q]
          /\ holder'[p].stage = "raise"
          /\ holder'[p].by = holder[p].by
          /\ holder'[p].room = holder[p].room
          /\ holder'[p].id = holder[p].id
      BY <1>5, <2>3
    <3>2. holder[p].id \in 1..lastval /\ holder[p].room \in Rooms
      <4>1. HolderOK(p)
        BY DEF PostsInv
      <4>. QED
        BY <1>1, <2>3, <4>1 DEF HolderOK, Late, Held
    <3>3. Drawing' \subseteq Drawing
      BY <3>1 DEF Drawing, Early
    <3>4. HolderOK(p)'
      BY <1>1, <1>2, <2>3, <3>1, <3>2 DEF HolderOK
    <3>. QED
      BY <1>1, <2>3, <3>1, <3>2, <3>3, <3>4
  <2>. QED
    BY <1>3, <2>1, <2>2, <2>3
<1>7. lastval + Cardinality(Drawing') <= MaxMessages
  <2>1. Cardinality(Drawing') <= Cardinality(Drawing)
    BY <1>6, DrawingInProcs, NoMore
  <2>2. Cardinality(Drawing) \in Nat /\ Cardinality(Drawing') \in Nat
    BY DrawingInProcs, ProcsFinite
  <2>. QED
    BY <1>1, <2>1, <2>2 DEF PostsInv, NodeConstants
<1>. QED
  BY <1>1, <1>2, <1>4, <1>6, <1>7, MovesPost

LEMMA PostsDraw ==
  ASSUME NodeConstants, RulesInv, PostsInv, NEW p \in Procs, PostDraw(p)
  PROVE  PostsInv'
<1>1. /\ At(p, "draw")
      /\ UNCHANGED <<rows, faults>>
      /\ lastval' = lastval + 1
      /\ holder' = [holder EXCEPT ![p] = [stage |-> "commit", by |-> holder[p].by,
                                          room |-> holder[p].room, id |-> lastval + 1]]
  BY DEF PostDraw, history
<1>2. /\ lastval \in Nat /\ rows \subseteq [id : 1..lastval, room : Rooms]
      /\ HolderTyped /\ HolderOK(p)
  BY DEF RulesInv, RulesTyped, PostsInv
<1>3. /\ \A q \in Procs \ {p} : holder'[q] = holder[q]
      /\ holder'[p] = [stage |-> "commit", by |-> holder[p].by,
                       room |-> holder[p].room, id |-> lastval + 1]
  BY <1>1, <1>2 DEF HolderTyped
<1>4. p \in Drawing /\ Drawing' \in SUBSET (Drawing \ {p})
  BY <1>1, <1>3 DEF Drawing, Early, At
<1>5. Cardinality(Drawing') + 1 <= Cardinality(Drawing)
  BY <1>4, DrawingInProcs, OneLess
<1>6. Cardinality(Drawing) \in Nat /\ Cardinality(Drawing') \in Nat
  BY DrawingInProcs, ProcsFinite
<1>7. HolderOK(p)'
  BY <1>1, <1>2, <1>3 DEF HolderOK, Unlocked, Free, At, Late
<1>8. rows \subseteq [id : 1..lastval', room : Rooms]
  <2>1. 1..lastval \subseteq 1..lastval'
    BY <1>1, <1>2
  <2>. QED
    BY <1>2, <2>1
<1>9. lastval' + Cardinality(Drawing') <= MaxMessages /\ faults' \in 0..MaxFaults
  BY <1>1, <1>2, <1>5, <1>6 DEF PostsInv, NodeConstants
<1>. QED
  BY <1>1, <1>2, <1>3, <1>7, <1>8, <1>9, MovesPost

LEMMA StepKeepsPosts ==
  ASSUME NodeConstants, RulesInv, PostsInv, [Next]_vars
  PROVE  PostsInv'
<1>1. ASSUME UNCHANGED <<lastval, rows, holder>>, NoFault \/ Fault PROVE PostsInv'
  <2>1. Drawing' = Drawing /\ \A p \in Procs : HolderOK(p)' <=> HolderOK(p)
    BY <1>1 DEF Drawing, HolderOK, Unlocked
  <2>2. faults' \in 0..MaxFaults
    BY <1>1, FaultsBounded
  <2>. QED
    BY <1>1, <2>1, <2>2 DEF PostsInv
<1>2. CASE PostStep
  <2>1. CASE \E k \in Callers, r \in Rooms : PostBegin(k, r)
    BY <2>1, PostsBegin
  <2>2. CASE \E p \in Procs : \/ PostCount(p) \/ PostCharge(p) \/ PostDraw(p)
                              \/ PostCommit(p) \/ PostRaise(p)
    BY <2>2, PostsGoOn, PostsDraw
  <2>3. CASE \E k \in Callers : PostNotify(k) \/ \E c \in Clients : PostSend(k, c)
    <3>1. UNCHANGED <<lastval, rows, holder, faults>>
      BY <2>3 DEF PostNotify, PostSend, database, history
    <3>. QED
      BY <1>1, <3>1 DEF NoFault
  <2>. QED
    BY <1>2, <2>1, <2>2, <2>3 DEF PostStep
<1>3. CASE RuleStep
  <2>1. UNCHANGED <<lastval, rows, holder>> /\ (NoFault \/ Fault)
    BY <1>3 DEF RuleStep, Ban, Unban, WindowMoves, services, history, NoFault
  <2>. QED
    BY <1>1, <2>1
<1>4. CASE ReadStep \/ UNCHANGED vars
  <2>1. UNCHANGED <<lastval, rows, holder, faults>>
    BY <1>4, ReadingIsQuiet
  <2>. QED
    BY <1>1, <2>1 DEF NoFault
<1>. QED
  BY <1>2, <1>3, <1>4 DEF Next

-----------------------------------------------------------------------------
(* The ids the readers handle.                                             *)

LEMMA LeastElement ==
  ASSUME NEW T \in SUBSET Nat, T # {}
  PROVE  \E x \in T : \A y \in T : x <= y
<1>1. PICK x \in T : \A y \in T : <<y, x>> \notin OpToRel(<, Nat)
  BY WFMin, NatLessThanWellFounded, Zenon
<1>2. \A y \in T : ~(y < x)
  BY <1>1, Zenon DEF OpToRel
<1>3. x \in Nat /\ T \subseteq Nat
  BY Zenon
<1>4. \A y \in T : x <= y
  <2> HIDE <1>1
  <2> QED BY <1>2, <1>3, SMT
<1> QED BY <1>4, Zenon

LEMMA LowestIsLeast ==
  ASSUME NEW S \in SUBSET Nat, S # {}
  PROVE  Lowest(S) \in S /\ \A j \in S : Lowest(S) <= j
<1>1. \E i \in S : \A j \in S : i <= j
  BY LeastElement, Zenon
<1>. QED
  BY <1>1, Zenon DEF Lowest

LEMMA GreatestElement ==
  ASSUME NEW n \in Nat, NEW T \in SUBSET (0..n), T # {}
  PROVE  \E x \in T : \A y \in T : y <= x
<1>. DEFINE Bounds == {m \in Nat : \A y \in T : y <= m}
<1>1. Bounds \in SUBSET Nat /\ n \in Bounds
  OBVIOUS
<1>2. PICK x \in Bounds : \A m \in Bounds : x <= m
  <2>1. Bounds # {}
    BY <1>1
  <2>. HIDE DEF Bounds
  <2>. QED
    BY <1>1, <2>1, LeastElement, Zenon
<1>3. x \in T
  <2>1. SUFFICES ASSUME x \notin T PROVE FALSE
    OBVIOUS
  <2>2. x \in Nat /\ \A y \in T : y \in Nat /\ y < x
    BY <1>2, <2>1
  <2>3. PICK y \in T : TRUE
    OBVIOUS
  <2>4. x - 1 \in Nat
    BY <2>2, <2>3
  <2>5. \A z \in T : z <= x - 1
    BY <2>2
  <2>6. x - 1 \in Bounds
    BY <2>4, <2>5
  <2>. HIDE DEF Bounds
  <2>. QED
    BY <1>2, <2>2, <2>6
<1>. QED
  BY <1>2, <1>3

Committed == {m.id : m \in rows}
Places    == Committed \cup {0}
Notes     == [id : Committed, room : Rooms]
Sendings  == {Done} \cup [stage : {"notify", "send"}, id : Committed, room : Rooms,
                          to : SUBSET Clients]
ClientStates == [room : Rooms \cup {NoRoom}, stream : {"off", "replay", "live"},
                 cursor : Places, last : Places, batch : SUBSET Committed]
PumpStates   == [todo : SUBSET Committed, taken : BOOLEAN]

ReadersTyped ==
  /\ queue  \in [Procs -> Seq(Notes)]
  /\ fanout \in [Callers -> Sendings]
  /\ client \in [Clients -> ClientStates]
  /\ buffer \in [Clients -> Seq(Committed)]
  /\ pump   \in [Clients -> PumpStates]
  /\ shown  \in [Clients -> Seq(Committed)]

LEMMA CommittedIds ==
  ASSUME RulesInv, PostsInv
  PROVE  /\ lastval \in Nat
         /\ Committed \subseteq 1..lastval
         /\ \A r : IdsIn(r) \subseteq Committed
<1>1. lastval \in Nat /\ rows \subseteq [id : 1..lastval, room : Rooms]
  BY DEF RulesInv, RulesTyped, PostsInv
<1>. QED
  BY <1>1 DEF Committed, IdsIn

(* latestMessageID returns the greatest id of the room, or zero.           *)
LEMMA LatestIsGreatest ==
  ASSUME RulesInv, PostsInv, NEW r
  PROVE  /\ LatestID(r) \in IdsIn(r) \cup {0}
         /\ \A i \in IdsIn(r) : i <= LatestID(r)
<1>. DEFINE T == IdsIn(r) \cup {0}
<1>1. T \in SUBSET (0..lastval) /\ T # {} /\ lastval \in Nat
  BY CommittedIds
<1>2. \E x \in T : \A y \in T : y <= x
  <2>. HIDE DEF T
  <2>. QED
    BY <1>1, GreatestElement, Zenon
<1>3. \E x \in T : \A j \in IdsIn(r) : j <= x
  BY <1>2
<1>. QED
  BY <1>3, Zenon DEF LatestID

(* A history query returns ids of the room above the one it is given.      *)
LEMMA HistoryIsNewer ==
  ASSUME NEW r, NEW a
  PROVE  /\ HistorySince(r, a) \subseteq IdsIn(r)
         /\ \A i \in HistorySince(r, a) : i > a
  BY DEF HistorySince

LEMMA TypesGrow ==
  ASSUME rows \subseteq rows'
  PROVE  /\ Committed \subseteq Committed' /\ Places \subseteq Places'
         /\ Notes \subseteq Notes' /\ Sendings \subseteq Sendings'
         /\ ClientStates \subseteq ClientStates' /\ PumpStates \subseteq PumpStates'
         /\ Seq(Committed) \subseteq Seq(Committed') /\ Seq(Notes) \subseteq Seq(Notes')
<1>1. Committed \subseteq Committed'
  BY DEF Committed
<1>2. Places \subseteq Places'
  BY <1>1 DEF Places
<1>3. Notes \subseteq Notes'
  BY <1>1 DEF Notes
<1>4. Sendings \subseteq Sendings'
  BY <1>1 DEF Sendings
<1>5. ClientStates \subseteq ClientStates'
  BY <1>1, <1>2 DEF ClientStates
<1>6. PumpStates \subseteq PumpStates'
  BY <1>1 DEF PumpStates
<1>7. Seq(Committed) \subseteq Seq(Committed')
  BY <1>1, SeqMonotonic
<1>8. Seq(Notes) \subseteq Seq(Notes')
  BY <1>3, SeqMonotonic
<1>. QED
  BY <1>1, <1>2, <1>3, <1>4, <1>5, <1>6, <1>7, <1>8

LEMMA TypesStay ==
  ASSUME rows' = rows
  PROVE  /\ Committed' = Committed /\ Places' = Places /\ Notes' = Notes
         /\ Sendings' = Sendings /\ ClientStates' = ClientStates /\ PumpStates' = PumpStates
         /\ \A r : IdsIn(r)' = IdsIn(r)
<1>1. Committed' = Committed
  BY DEF Committed
<1>2. Places' = Places
  BY <1>1 DEF Places
<1>. QED
  BY <1>1, <1>2 DEF Notes, Sendings, ClientStates, PumpStates, IdsIn

-----------------------------------------------------------------------------
(* The order a user sees.                                                  *)

Sends(k, c) == fanout[k] # Done /\ c \in fanout[k].to

Rising(s) == \A i, j \in 1..Len(s) : i < j => s[i] < s[j]

(* A subscription's channel is within its capacity, the goroutine that     *)
(* feeds it holds a message it took, and a closed one is empty.            *)
Plumbing(c) ==
  /\ Len(buffer[c]) <= BufferCap
  /\ pump[c].taken => pump[c].todo # {}
  /\ client[c].stream # "live" =>
       /\ buffer[c] = <<>>
       /\ pump[c] = Rest
       /\ \A k \in Callers : ~Sends(k, c)

(* Whatever is on its way to the subscription is newer than what the page  *)
(* shows: what a Post under the process's mutex has drawn, what a Post has *)
(* still to send, and what the feeding goroutine holds or has sent.        *)
Above(c) ==
  /\ client[c].last >= LastShown(c)
  /\ \A i \in 1..Len(buffer[c]) : buffer[c][i] > LastShown(c)
  /\ pump[c].taken => \A i \in pump[c].todo : i > LastShown(c)
  /\ \A k \in Callers : Sends(k, c) => fanout[k].id > LastShown(c)
  /\ holder[HostOf[c]].stage \in Late => holder[HostOf[c]].id > LastShown(c)

(* An IRC poller's cursor is what it last wrote.  A stream handler's is    *)
(* behind that while it writes the history, and may stay so until the      *)
(* first live message, which must then be newer by itself.                 *)
InOrder(c) ==
  /\ Rising(shown[c])
  /\ \A i \in client[c].batch : i > LastShown(c)
  /\ c \in IrcClients => client[c].cursor = LastShown(c)
  /\ c \in Browsers =>
       /\ client[c].stream # "replay" => client[c].batch = {}
       /\ client[c].stream = "replay" =>
            /\ client[c].batch \subseteq IdsIn(client[c].room)
            /\ client[c].cursor = LastShown(c) \/ LastShown(c) \in IdsIn(client[c].room)
       /\ client[c].stream = "live" => client[c].cursor = LastShown(c) \/ Above(c)

ReadersInv == ReadersTyped /\ \A c \in Clients : Plumbing(c) /\ InOrder(c)

LEMMA ReaderTyped ==
  ASSUME RulesInv, PostsInv, ReadersTyped, NEW c \in Clients
  PROVE  /\ client[c] \in ClientStates /\ pump[c] \in PumpStates
         /\ buffer[c] \in Seq(Committed) /\ shown[c] \in Seq(Committed)
         /\ Committed \subseteq 1..lastval /\ lastval \in Nat
         /\ LastShown(c) \in Places /\ LastShown(c) \in 0..lastval
         /\ LastShown(c) \in Nat
<1>1. /\ client[c] \in ClientStates /\ pump[c] \in PumpStates
      /\ buffer[c] \in Seq(Committed) /\ shown[c] \in Seq(Committed)
  BY DEF ReadersTyped
<1>2. Committed \subseteq 1..lastval /\ lastval \in Nat
  BY CommittedIds
<1>3. LastShown(c) \in Places
  <2>1. CASE shown[c] # <<>>
    <3>1. Len(shown[c]) \in 1..Len(shown[c])
      BY <1>1, <2>1, EmptySeq, LenProperties
    <3>. QED
      BY <1>1, <2>1, <3>1, ElementOfSeq DEF LastShown, Places
  <2>2. CASE shown[c] = <<>>
    BY <2>2 DEF LastShown, Places
  <2>. QED
    BY <2>1, <2>2
<1>4. LastShown(c) \in 0..lastval /\ LastShown(c) \in Nat
  <2>1. Places \subseteq 0..lastval
    BY <1>2 DEF Places
  <2>2. LastShown(c) \in 0..lastval
    BY <1>3, <2>1
  <2>. HIDE <1>3
  <2>. QED
    BY <1>2, <2>2
<1>. QED
  BY <1>1, <1>2, <1>3, <1>4

(* Showing a newer message keeps the order.                                *)
LEMMA ShowsNext ==
  ASSUME NEW s \in Seq(Nat), Rising(s), NEW x \in Nat,
         x > IF s = <<>> THEN 0 ELSE s[Len(s)]
  PROVE  /\ Rising(Append(s, x))
         /\ Append(s, x) # <<>>
         /\ Append(s, x)[Len(Append(s, x))] = x
<1>. DEFINE t == Append(s, x)
<1>1. /\ Len(t) = Len(s) + 1 /\ Len(s) \in Nat
      /\ t[Len(t)] = x
      /\ \A i \in 1..Len(s) : t[i] = s[i] /\ s[i] \in Nat
  BY AppendProperties, ElementOfSeq
<1>2. ASSUME NEW i \in 1..Len(s) PROVE t[i] < x
  <2>1. s # <<>> /\ Len(s) \in 1..Len(s)
    BY <1>2
  <2>2. s[i] <= s[Len(s)]
    BY <1>1, <2>1 DEF Rising
  <2>. QED
    BY <1>1, <2>1, <2>2
<1>3. Rising(t)
  <2>. SUFFICES ASSUME NEW i \in 1..Len(t), NEW j \in 1..Len(t), i < j PROVE t[i] < t[j]
    BY DEF Rising
  <2>. HIDE DEF t
  <2>1. i \in 1..Len(s)
    BY <1>1
  <2>2. CASE j = Len(t)
    BY <1>1, <1>2, <2>1, <2>2
  <2>3. CASE j \in 1..Len(s)
    <3>1. s[i] < s[j]
      BY <2>1, <2>3 DEF Rising
    <3>. QED
      BY <1>1, <2>1, <2>3, <3>1
  <2>4. j = Len(t) \/ j \in 1..Len(s)
    <3>1. j \in 1..(Len(s) + 1) /\ Len(s) \in Nat /\ Len(t) = Len(s) + 1
      BY <1>1
    <3>. HIDE <1>1
    <3>. QED
      BY <3>1
  <2>. QED
    BY <2>2, <2>3, <2>4
<1>. QED
  BY <1>1, <1>3

(* A client nothing happens to, though messages may be committed and other *)
(* subscriptions served, stays in order.                                   *)
Same(c) ==
  /\ client'[c] = client[c] /\ buffer'[c] = buffer[c]
  /\ pump'[c] = pump[c] /\ shown'[c] = shown[c]

LEMMA OthersInOrder ==
  ASSUME NodeConstants, RulesInv, PostsInv, ReadersInv, NEW c \in Clients, Same(c),
         rows \subseteq rows',
         \A k \in Callers : Sends(k, c)' => Sends(k, c) /\ fanout'[k].id = fanout[k].id,
         holder'[HostOf[c]].stage \in Late =>
           \/ holder'[HostOf[c]].id \in Nat /\ holder'[HostOf[c]].id > lastval
           \/ /\ holder[HostOf[c]].stage \in Late
              /\ holder'[HostOf[c]].id = holder[HostOf[c]].id
  PROVE  (Plumbing(c) /\ InOrder(c))'
<1>1. Plumbing(c) /\ InOrder(c) /\ ReadersTyped
  BY DEF ReadersInv
<1>2. LastShown(c)' = LastShown(c) /\ LastShown(c) \in 0..lastval /\ lastval \in Nat
  BY <1>1, ReaderTyped DEF Same, LastShown
<1>3. Plumbing(c)'
  BY <1>1 DEF Plumbing, Same
<1>4. Above(c) => Above(c)'
  <2>. SUFFICES ASSUME Above(c) PROVE Above(c)'
    OBVIOUS
  <2>1. holder'[HostOf[c]].stage \in Late => holder'[HostOf[c]].id > LastShown(c)
    BY <1>2 DEF Above
  <2>. QED
    BY <1>2, <2>1 DEF Above, Same
<1>5. \A r : IdsIn(r) \subseteq IdsIn(r)'
  BY DEF IdsIn
<1>6. InOrder(c)'
  BY <1>1, <1>2, <1>4, <1>5 DEF InOrder, Same
<1>. QED
  BY <1>3, <1>6

(* A step of one client.                                                   *)
LEMMA OneClient ==
  ASSUME NodeConstants, RulesInv, PostsInv, ReadersInv, NEW c \in Clients,
         UNCHANGED <<rows, holder, queue>>,
         client'[c] \in ClientStates,   client' = [client EXCEPT ![c] = client'[c]],
         buffer'[c] \in Seq(Committed), buffer' = [buffer EXCEPT ![c] = buffer'[c]],
         pump'[c] \in PumpStates,       pump'   = [pump EXCEPT ![c] = pump'[c]],
         shown'[c] \in Seq(Committed),  shown'  = [shown EXCEPT ![c] = shown'[c]],
         fanout' \in [Callers -> Sendings],
         \A k \in Callers, d \in Clients \ {c} :
           Sends(k, d)' => Sends(k, d) /\ fanout'[k].id = fanout[k].id,
         (Plumbing(c) /\ InOrder(c))'
  PROVE  ReadersInv'
<1>1. ReadersTyped'
  <2>1. /\ client' \in [Clients -> ClientStates] /\ buffer' \in [Clients -> Seq(Committed)]
        /\ pump' \in [Clients -> PumpStates] /\ shown' \in [Clients -> Seq(Committed)]
        /\ queue \in [Procs -> Seq(Notes)]
    BY DEF ReadersInv, ReadersTyped
  <2>. QED
    BY <2>1, TypesStay DEF ReadersTyped
<1>2. ASSUME NEW d \in Clients, d # c PROVE (Plumbing(d) /\ InOrder(d))'
  <2>1. Same(d)
    BY <1>2 DEF Same, ReadersInv, ReadersTyped
  <2>2. \A k \in Callers : Sends(k, d)' => Sends(k, d) /\ fanout'[k].id = fanout[k].id
    BY <1>2
  <2>3. holder'[HostOf[d]].stage \in Late =>
          holder[HostOf[d]].stage \in Late /\ holder'[HostOf[d]].id = holder[HostOf[d]].id
    OBVIOUS
  <2>. QED
    BY <2>1, <2>2, <2>3, OthersInOrder
<1>. QED
  BY <1>1, <1>2 DEF ReadersInv

(* A step that changes only what the client itself keeps.                  *)
LEMMA ClientAndPage ==
  ASSUME NodeConstants, RulesInv, PostsInv, ReadersInv, NEW c \in Clients,
         UNCHANGED <<rows, holder, queue, fanout, buffer, pump>>,
         client'[c] \in ClientStates,  client' = [client EXCEPT ![c] = client'[c]],
         shown'[c] \in Seq(Committed), shown'  = [shown EXCEPT ![c] = shown'[c]],
         Plumbing(c)', InOrder(c)'
  PROVE  ReadersInv'
<1>1. /\ buffer'[c] \in Seq(Committed) /\ buffer' = [buffer EXCEPT ![c] = buffer'[c]]
      /\ pump'[c] \in PumpStates /\ pump' = [pump EXCEPT ![c] = pump'[c]]
      /\ fanout' \in [Callers -> Sendings]
  BY DEF ReadersInv, ReadersTyped
<1>2. \A k \in Callers, d \in Clients \ {c} :
        Sends(k, d)' => Sends(k, d) /\ fanout'[k].id = fanout[k].id
  BY DEF Sends
<1>. QED
  BY <1>1, <1>2, OneClient

LEMMA OnlyClient ==
  ASSUME NodeConstants, RulesInv, PostsInv, ReadersInv, NEW c \in Clients,
         UNCHANGED <<rows, holder, queue, fanout, buffer, pump, shown>>,
         NEW y \in ClientStates, client' = [client EXCEPT ![c] = y],
         Plumbing(c)', InOrder(c)'
  PROVE  ReadersInv'
<1>1. shown'[c] \in Seq(Committed) /\ shown' = [shown EXCEPT ![c] = shown'[c]]
  BY DEF ReadersInv, ReadersTyped
<1>2. client'[c] = y
  BY DEF ReadersInv, ReadersTyped
<1>. QED
  BY <1>1, <1>2, ClientAndPage

LEMMA ClientAndBuffer ==
  ASSUME NodeConstants, RulesInv, PostsInv, ReadersInv, NEW c \in Clients,
         UNCHANGED <<rows, holder, queue, fanout, pump>>,
         client'[c] \in ClientStates,   client' = [client EXCEPT ![c] = client'[c]],
         buffer'[c] \in Seq(Committed), buffer' = [buffer EXCEPT ![c] = buffer'[c]],
         shown'[c] \in Seq(Committed),  shown'  = [shown EXCEPT ![c] = shown'[c]],
         Plumbing(c)', InOrder(c)'
  PROVE  ReadersInv'
<1>1. /\ pump'[c] \in PumpStates /\ pump' = [pump EXCEPT ![c] = pump'[c]]
      /\ fanout' \in [Callers -> Sendings]
  BY DEF ReadersInv, ReadersTyped
<1>2. \A k \in Callers, d \in Clients \ {c} :
        Sends(k, d)' => Sends(k, d) /\ fanout'[k].id = fanout[k].id
  BY DEF Sends
<1>. QED
  BY <1>1, <1>2, OneClient

(* What closing a subscription leaves behind.                              *)
LEMMA Closes ==
  ASSUME ReadersTyped, NEW c \in Clients, CloseSub(c)
  PROVE  /\ buffer'[c] = <<>> /\ buffer' = [buffer EXCEPT ![c] = buffer'[c]]
         /\ pump'[c] = Rest /\ pump' = [pump EXCEPT ![c] = pump'[c]]
         /\ fanout' \in [Callers -> Sendings]
         /\ \A k \in Callers : ~Sends(k, c)'
         /\ \A k \in Callers, d \in Clients \ {c} :
              Sends(k, d)' => Sends(k, d) /\ fanout'[k].id = fanout[k].id
<1>1. ASSUME NEW k \in Callers
      PROVE  /\ fanout'[k] \in Sendings
             /\ ~Sends(k, c)'
             /\ \A d \in Clients \ {c} :
                  Sends(k, d)' => Sends(k, d) /\ fanout'[k].id = fanout[k].id
  <2>1. fanout[k] \in Sendings
    BY DEF ReadersTyped
  <2>2. CASE fanout'[k] = Done
    BY <2>2 DEF Sendings, Sends
  <2>3. CASE fanout[k] # Done /\ fanout'[k] = [fanout[k] EXCEPT !.to = @ \ {c}]
    <3>1. /\ fanout'[k] \in Sendings
          /\ fanout'[k].to = fanout[k].to \ {c} /\ fanout'[k].id = fanout[k].id
      BY <2>1, <2>3 DEF Sendings
    <3>. QED
      BY <2>3, <3>1 DEF Sends
  <2>. QED
    BY <2>2, <2>3 DEF CloseSub
<1>2. fanout' = [k \in Callers |-> fanout'[k]]
  BY DEF CloseSub
<1>3. fanout' \in [Callers -> Sendings]
  BY <1>1, <1>2
<1>. QED
  BY <1>1, <1>3 DEF CloseSub, ReadersTyped

-----------------------------------------------------------------------------
(* The IRC poller.                                                         *)

LEMMA IrcMoves ==
  ASSUME NodeConstants, RulesInv, PostsInv, ReadersInv, NEW c \in IrcClients,
         IrcPart(c) \/ \E r \in Rooms : IrcJoin(c, r)
  PROVE  ReadersInv'
<1>0. c \in Clients /\ c \notin Browsers
  BY DEF Clients, NodeConstants
<1>1. /\ client[c] \in ClientStates /\ shown[c] \in Seq(Committed)
      /\ client \in [Clients -> ClientStates] /\ shown \in [Clients -> Seq(Committed)]
      /\ ReadersTyped
  BY <1>0 DEF ReadersInv, ReadersTyped
<1>2. CloseSub(c) /\ UNCHANGED <<rows, holder, queue, shown>> /\ client[c].batch = {}
  BY DEF IrcJoin, IrcPart, database
<1>3. /\ client'[c] \in ClientStates /\ client' = [client EXCEPT ![c] = client'[c]]
      /\ client'[c].batch = {} /\ client'[c].cursor = client[c].cursor
  <2>1. ASSUME NEW r \in Rooms, IrcJoin(c, r)
        PROVE  /\ client'[c] \in ClientStates /\ client' = [client EXCEPT ![c] = client'[c]]
               /\ client'[c].batch = {} /\ client'[c].cursor = client[c].cursor
    <3>. DEFINE x == [client[c] EXCEPT !.room = r]
                y == [x EXCEPT !.stream = "live"]
                z == [y EXCEPT !.last = LatestID(r)]
    <3>1. client' = [client EXCEPT ![c] = z]
      BY <1>0, <1>1, <2>1 DEF IrcJoin
    <3>2. LatestID(r) \in Places
      BY LatestIsGreatest, CommittedIds DEF Places
    <3>3. x \in ClientStates /\ x.batch = client[c].batch /\ x.cursor = client[c].cursor
      BY <1>1 DEF ClientStates
    <3>. HIDE DEF x
    <3>4. y \in ClientStates /\ y.batch = client[c].batch /\ y.cursor = client[c].cursor
      BY <3>3 DEF ClientStates
    <3>. HIDE DEF y
    <3>5. z \in ClientStates /\ z.batch = client[c].batch /\ z.cursor = client[c].cursor
      BY <3>2, <3>4 DEF ClientStates
    <3>. HIDE DEF z
    <3>6. client'[c] = z
      BY <1>0, <1>1, <3>1
    <3>. QED
      BY <1>2, <3>1, <3>5, <3>6
  <2>2. CASE IrcPart(c)
    <3>. DEFINE x == [client[c] EXCEPT !.room = NoRoom]
                y == [x EXCEPT !.stream = "off"]
    <3>1. client' = [client EXCEPT ![c] = y]
      BY <1>0, <1>1, <2>2 DEF IrcPart
    <3>2. x \in ClientStates /\ x.batch = client[c].batch /\ x.cursor = client[c].cursor
      BY <1>1 DEF ClientStates
    <3>. HIDE DEF x
    <3>3. y \in ClientStates /\ y.batch = client[c].batch /\ y.cursor = client[c].cursor
      BY <3>2 DEF ClientStates
    <3>. HIDE DEF y
    <3>4. client'[c] = y
      BY <1>0, <1>1, <3>1
    <3>. QED
      BY <1>2, <3>1, <3>3, <3>4
  <2>. QED
    BY <2>1, <2>2
<1>4. /\ buffer'[c] = <<>> /\ buffer' = [buffer EXCEPT ![c] = buffer'[c]]
      /\ pump'[c] = Rest /\ pump' = [pump EXCEPT ![c] = pump'[c]]
      /\ fanout' \in [Callers -> Sendings]
      /\ \A k \in Callers : ~Sends(k, c)'
      /\ \A k \in Callers, d \in Clients \ {c} :
           Sends(k, d)' => Sends(k, d) /\ fanout'[k].id = fanout[k].id
  BY <1>0, <1>1, <1>2, Closes
<1>5. buffer'[c] \in Seq(Committed) /\ pump'[c] \in PumpStates
  BY <1>4 DEF Rest, PumpStates
<1>6. Plumbing(c)'
  BY <1>4 DEF Plumbing, Rest, NodeConstants
<1>7. InOrder(c)'
  <2>1. InOrder(c) /\ LastShown(c)' = LastShown(c)
    BY <1>0, <1>2 DEF ReadersInv, LastShown
  <2>. QED
    BY <1>0, <1>2, <1>3, <2>1 DEF InOrder
<1>8. shown'[c] \in Seq(Committed) /\ shown' = [shown EXCEPT ![c] = shown'[c]]
  BY <1>0, <1>1, <1>2
<1>. QED
  BY <1>0, <1>2, <1>3, <1>4, <1>5, <1>6, <1>7, <1>8, OneClient

(* The poll reads only what is above the cursor, which is what it last     *)
(* wrote.                                                                  *)
LEMMA IrcPolls ==
  ASSUME NodeConstants, RulesInv, PostsInv, ReadersInv, NEW c \in IrcClients, IrcTick(c)
  PROVE  ReadersInv'
<1>0. c \in Clients /\ c \notin Browsers
  BY DEF Clients, NodeConstants
<1>1. ReadersTyped /\ Plumbing(c) /\ InOrder(c) /\ client[c] \in ClientStates
  BY <1>0 DEF ReadersInv, ReadersTyped
<1>2. UNCHANGED <<rows, holder, queue, fanout, buffer, pump, shown>>
  BY DEF IrcTick, database, services
<1>. DEFINE h == HistorySince(client[c].room, client[c].cursor)
            y == [client[c] EXCEPT !.batch = h]
<1>3. /\ h \subseteq Committed /\ client[c].cursor = LastShown(c)
      /\ \A i \in h : i > LastShown(c)
  BY <1>1, HistoryIsNewer, CommittedIds DEF InOrder
<1>4. client' = [client EXCEPT ![c] = y]
  BY <1>0, <1>1 DEF IrcTick, ReadersTyped
<1>. HIDE DEF h
<1>5. y \in ClientStates /\ y.batch = h /\ y.cursor = client[c].cursor /\ y.stream = client[c].stream
  <2>1. client[c] \in ClientStates
    BY <1>0, <1>1 DEF ReadersTyped
  <2>. QED
    BY <1>3, <2>1 DEF ClientStates
<1>. HIDE DEF y
<1>6. client'[c] = y
  BY <1>0, <1>1, <1>4 DEF ReadersTyped
<1>7. Plumbing(c)' /\ InOrder(c)'
  <2>1. LastShown(c)' = LastShown(c) /\ \A k \in Callers : Sends(k, c)' <=> Sends(k, c)
    BY <1>2 DEF LastShown, Sends
  <2>2. Plumbing(c)'
    BY <1>1, <1>2, <1>5, <1>6, <2>1 DEF Plumbing
  <2>3. InOrder(c)'
    BY <1>0, <1>1, <1>2, <1>3, <1>5, <1>6, <2>1 DEF InOrder
  <2>. QED
    BY <2>2, <2>3
<1>. QED
  BY <1>0, <1>2, <1>4, <1>5, <1>6, <1>7, OnlyClient

-----------------------------------------------------------------------------
(* The page and its stream.                                                *)

LEMMA PageIsDrawn ==
  ASSUME NodeConstants, RulesInv, PostsInv, ReadersInv, NEW c \in Browsers,
         NEW r \in Rooms, PageOpen(c, r)
  PROVE  ReadersInv'
<1>0. c \in Clients /\ c \notin IrcClients
  BY DEF Clients, NodeConstants
<1>1. ReadersTyped /\ Plumbing(c) /\ InOrder(c) /\ client[c] \in ClientStates
  BY <1>0 DEF ReadersInv, ReadersTyped
<1>2. /\ UNCHANGED <<rows, holder, queue, fanout, buffer, pump>>
      /\ client[c].stream = "off"
  BY DEF PageOpen, database, services
<1>. DEFINE y == [client[c] EXCEPT !.room = r]
            v == IF LatestID(r) = 0 THEN <<>> ELSE <<LatestID(r)>>
<1>3. v \in Seq(Committed) /\ Rising(v)
  <2>1. LatestID(r) \in Committed \cup {0}
    BY LatestIsGreatest, CommittedIds
  <2>2. LatestID(r) # 0 => <<LatestID(r)>> \in Seq(Committed)
    BY <2>1
  <2>. QED
    BY <2>2 DEF Rising
<1>4. client' = [client EXCEPT ![c] = y] /\ shown' = [shown EXCEPT ![c] = v]
  BY <1>0, <1>1 DEF PageOpen, ReadersTyped
<1>. HIDE DEF v
<1>5. y \in ClientStates /\ y.batch = client[c].batch /\ y.stream = client[c].stream
  BY <1>1 DEF ClientStates
<1>. HIDE DEF y
<1>6. client'[c] = y /\ shown'[c] = v
  BY <1>0, <1>1, <1>4 DEF ReadersTyped
<1>7. Plumbing(c)' /\ InOrder(c)'
  <2>1. \A k \in Callers : Sends(k, c)' <=> Sends(k, c)
    BY <1>2 DEF Sends
  <2>2. Plumbing(c)'
    BY <1>1, <1>2, <1>5, <1>6, <2>1 DEF Plumbing
  <2>3. InOrder(c)'
    BY <1>0, <1>1, <1>2, <1>3, <1>5, <1>6 DEF InOrder
  <2>. QED
    BY <2>2, <2>3
<1>8. shown' = [shown EXCEPT ![c] = shown'[c]] /\ client' = [client EXCEPT ![c] = client'[c]]
  BY <1>4, <1>6
<1>. QED
  BY <1>0, <1>2, <1>3, <1>5, <1>6, <1>7, <1>8, ClientAndPage

(* The stream starts with the history behind the last message shown.       *)
LEMMA StreamStarts ==
  ASSUME NodeConstants, RulesInv, PostsInv, ReadersInv, NEW c \in Browsers, StreamReplay(c)
  PROVE  ReadersInv'
<1>0. c \in Clients /\ c \notin IrcClients
  BY DEF Clients, NodeConstants
<1>1. ReadersTyped /\ Plumbing(c) /\ InOrder(c) /\ client[c] \in ClientStates
  BY <1>0 DEF ReadersInv, ReadersTyped
<1>2. /\ UNCHANGED <<rows, holder, queue, fanout, buffer, pump, shown>>
      /\ client[c].stream = "off"
  BY DEF StreamReplay, database, services
<1>. DEFINE h == HistorySince(client[c].room, LastShown(c))
            w == [client[c] EXCEPT !.stream = "replay"]
            x == [w EXCEPT !.cursor = LastShown(c)]
            y == [x EXCEPT !.batch = h]
<1>3. /\ h \subseteq Committed /\ h \subseteq IdsIn(client[c].room)
      /\ \A i \in h : i > LastShown(c)
  BY HistoryIsNewer, CommittedIds
<1>4. client' = [client EXCEPT ![c] = y]
  BY <1>0, <1>1 DEF StreamReplay, ReadersTyped
<1>. HIDE DEF h
<1>5. /\ y \in ClientStates /\ y.batch = h /\ y.cursor = LastShown(c)
      /\ y.stream = "replay" /\ y.room = client[c].room
  <2>1. w \in ClientStates /\ w.stream = "replay" /\ w.room = client[c].room
    BY <1>1 DEF ClientStates
  <2>. HIDE DEF w
  <2>2. /\ x \in ClientStates /\ x.stream = "replay" /\ x.room = client[c].room
        /\ x.cursor = LastShown(c)
    BY <1>0, <1>1, <2>1, ReaderTyped DEF ClientStates
  <2>. HIDE DEF x
  <2>. QED
    BY <1>3, <2>2 DEF ClientStates
<1>. HIDE DEF y
<1>6. client'[c] = y
  BY <1>0, <1>1, <1>4 DEF ReadersTyped
<1>7. Plumbing(c)' /\ InOrder(c)'
  <2>1. LastShown(c)' = LastShown(c) /\ \A k \in Callers : Sends(k, c)' <=> Sends(k, c)
    BY <1>2 DEF LastShown, Sends
  <2>2. Plumbing(c)'
    BY <1>1, <1>2, <1>5, <1>6, <2>1 DEF Plumbing
  <2>3. InOrder(c)'
    BY <1>0, <1>1, <1>2, <1>3, <1>5, <1>6, <2>1, TypesStay DEF InOrder
  <2>. QED
    BY <2>2, <2>3
<1>. QED
  BY <1>0, <1>2, <1>4, <1>5, <1>6, <1>7, OnlyClient

(* It subscribes while no Post of its process holds the mutex, so every    *)
(* message that reaches the subscription is newer than the room's last.    *)
LEMMA StreamGoesLive ==
  ASSUME NodeConstants, RulesInv, PostsInv, ReadersInv, NEW c \in Browsers, StreamSubscribe(c)
  PROVE  ReadersInv'
<1>0. c \in Clients /\ c \notin IrcClients
  BY DEF Clients, NodeConstants
<1>1. ReadersTyped /\ Plumbing(c) /\ InOrder(c) /\ client[c] \in ClientStates
  BY <1>0 DEF ReadersInv, ReadersTyped
<1>2. /\ UNCHANGED <<rows, holder, queue, fanout, buffer, pump, shown>>
      /\ client[c].stream = "replay" /\ client[c].batch = {}
      /\ holder[HostOf[c]] = Free
  BY DEF StreamSubscribe, database, services, Unlocked
<1>. DEFINE top == LatestID(client[c].room)
            x == [client[c] EXCEPT !.stream = "live"]
            y == [x EXCEPT !.last = top]
<1>3. top \in Places /\ \A i \in IdsIn(client[c].room) : i <= top
  BY LatestIsGreatest, CommittedIds DEF Places
<1>4. client' = [client EXCEPT ![c] = y]
  BY <1>0, <1>1 DEF StreamSubscribe, ReadersTyped
<1>. HIDE DEF top
<1>5. /\ y \in ClientStates /\ y.batch = {} /\ y.cursor = client[c].cursor
      /\ y.stream = "live" /\ y.last = top
  <2>1. x \in ClientStates /\ x.stream = "live" /\ x.cursor = client[c].cursor /\ x.batch = {}
    BY <1>1, <1>2 DEF ClientStates
  <2>. HIDE DEF x
  <2>. QED
    BY <1>3, <2>1 DEF ClientStates
<1>. HIDE DEF y
<1>6. client'[c] = y
  BY <1>0, <1>1, <1>4 DEF ReadersTyped
<1>7. Plumbing(c)' /\ InOrder(c)'
  <2>1. LastShown(c)' = LastShown(c) /\ \A k \in Callers : Sends(k, c)' <=> Sends(k, c)
    BY <1>2 DEF LastShown, Sends
  <2>2. Plumbing(c)'
    BY <1>1, <1>2, <1>5, <1>6, <2>1 DEF Plumbing
  <2>3. client[c].cursor = LastShown(c) \/ Above(c)'
    <3>1. SUFFICES ASSUME client[c].cursor # LastShown(c) PROVE Above(c)'
      OBVIOUS
    <3>2. LastShown(c) \in IdsIn(client[c].room)
      BY <1>1, <1>2, <3>1 DEF InOrder
    <3>3. LastShown(c) \in Nat /\ top \in Nat
      BY <1>0, <1>1, <1>3, ReaderTyped DEF Places
    <3>4. top >= LastShown(c)
      BY <1>3, <3>2, <3>3
    <3>5. buffer[c] = <<>> /\ pump[c] = Rest /\ \A k \in Callers : ~Sends(k, c)
      BY <1>1, <1>2 DEF Plumbing
    <3>. QED
      BY <1>2, <1>5, <1>6, <2>1, <3>4, <3>5 DEF Above, Rest, Free, Late
  <2>4. InOrder(c)'
    BY <1>0, <1>1, <1>2, <1>5, <1>6, <2>1, <2>3 DEF InOrder
  <2>. QED
    BY <2>2, <2>4
<1>. QED
  BY <1>0, <1>2, <1>4, <1>5, <1>6, <1>7, OnlyClient

LEMMA StreamCloses ==
  ASSUME NodeConstants, RulesInv, PostsInv, ReadersInv, NEW c \in Browsers, StreamEnd(c)
  PROVE  ReadersInv'
<1>0. c \in Clients /\ c \notin IrcClients
  BY DEF Clients, NodeConstants
<1>1. ReadersTyped /\ Plumbing(c) /\ InOrder(c) /\ client[c] \in ClientStates
  BY <1>0 DEF ReadersInv, ReadersTyped
<1>2. UNCHANGED <<rows, holder, queue, shown>> /\ CloseSub(c)
  BY DEF StreamEnd, database
<1>. DEFINE x == [client[c] EXCEPT !.stream = "off"]
            y == [x EXCEPT !.batch = {}]
<1>4. client' = [client EXCEPT ![c] = y]
  BY <1>0, <1>1 DEF StreamEnd, ReadersTyped
<1>5. y \in ClientStates /\ y.batch = {} /\ y.stream = "off"
  <2>1. x \in ClientStates /\ x.stream = "off"
    BY <1>1 DEF ClientStates
  <2>. HIDE DEF x
  <2>. QED
    BY <2>1 DEF ClientStates
<1>. HIDE DEF y
<1>6. client'[c] = y
  BY <1>0, <1>1, <1>4 DEF ReadersTyped
<1>7. /\ buffer'[c] = <<>> /\ buffer' = [buffer EXCEPT ![c] = buffer'[c]]
      /\ pump'[c] = Rest /\ pump' = [pump EXCEPT ![c] = pump'[c]]
      /\ fanout' \in [Callers -> Sendings]
      /\ \A k \in Callers : ~Sends(k, c)'
      /\ \A k \in Callers, d \in Clients \ {c} :
           Sends(k, d)' => Sends(k, d) /\ fanout'[k].id = fanout[k].id
  BY <1>0, <1>1, <1>2, Closes
<1>8. buffer'[c] \in Seq(Committed) /\ pump'[c] \in PumpStates
  BY <1>7 DEF Rest, PumpStates
<1>9. Plumbing(c)'
  BY <1>7 DEF Plumbing, Rest, NodeConstants
<1>10. InOrder(c)'
  BY <1>0, <1>1, <1>2, <1>5, <1>6 DEF InOrder
<1>11. shown'[c] \in Seq(Committed) /\ shown' = [shown EXCEPT ![c] = shown'[c]]
  BY <1>0, <1>1, <1>2 DEF ReadersTyped
<1>. QED
  BY <1>0, <1>2, <1>4, <1>5, <1>6, <1>7, <1>8, <1>9, <1>10, <1>11, OneClient

-----------------------------------------------------------------------------
(* Showing messages.                                                       *)

(* The ids of a batch are written in order, each above the last.           *)
LEMMA BatchIsWritten ==
  ASSUME NodeConstants, RulesInv, PostsInv, ReadersInv, NEW c \in Clients, WriteBatch(c)
  PROVE  ReadersInv'
<1>. DEFINE id == Lowest(client[c].batch)
            v  == Append(shown[c], id)
            x  == [client[c] EXCEPT !.batch = @ \ {id}]
            y  == [x EXCEPT !.cursor = IF c \in IrcClients THEN id ELSE @]
<1>1. ReadersTyped /\ Plumbing(c) /\ InOrder(c)
  BY DEF ReadersInv
<1>2. /\ UNCHANGED <<rows, holder, queue, fanout, buffer, pump>>
      /\ client[c].batch # {}
  BY DEF WriteBatch, database, services
<1>3. /\ client[c] \in ClientStates /\ shown[c] \in Seq(Committed)
      /\ Committed \subseteq Nat /\ client[c].batch \subseteq Committed
      /\ LastShown(c) \in Nat
  BY <1>1, ReaderTyped DEF ClientStates
<1>4. /\ id \in client[c].batch /\ \A i \in client[c].batch : id <= i
      /\ id > LastShown(c) /\ id \in Committed /\ id \in Nat
  <2>1. id \in client[c].batch /\ \A i \in client[c].batch : id <= i
    BY <1>2, <1>3, LowestIsLeast
  <2>. QED
    BY <1>1, <1>3, <2>1 DEF InOrder
<1>5. client' = [client EXCEPT ![c] = y] /\ shown' = [shown EXCEPT ![c] = v]
  <2>1. /\ shown'  = [shown EXCEPT ![c] = Append(@, id)]
        /\ client' = [client EXCEPT ![c].batch = @ \ {id},
                                    ![c].cursor = IF c \in IrcClients THEN id ELSE @]
        /\ client \in [Clients -> ClientStates] /\ shown \in [Clients -> Seq(Committed)]
    BY <1>1 DEF WriteBatch, ReadersTyped
  <2>. HIDE DEF id
  <2>2. shown' = [shown EXCEPT ![c] = v]
    BY <2>1
  <2>3. client' = [client EXCEPT ![c] = y]
    BY <2>1
  <2>. QED
    BY <2>2, <2>3
<1>. HIDE DEF id
<1>6. /\ y \in ClientStates /\ y.batch = client[c].batch \ {id}
      /\ y.cursor = IF c \in IrcClients THEN id ELSE client[c].cursor
      /\ y.stream = client[c].stream /\ y.room = client[c].room
  <2>1. /\ x \in ClientStates /\ x.batch = client[c].batch \ {id}
        /\ x.cursor = client[c].cursor
        /\ x.stream = client[c].stream /\ x.room = client[c].room
    BY <1>3 DEF ClientStates
  <2>. HIDE DEF x
  <2>. QED
    BY <1>4, <2>1 DEF ClientStates, Places
<1>. HIDE DEF y
<1>7. /\ v \in Seq(Committed) /\ Rising(v) /\ v # <<>> /\ v[Len(v)] = id
  <2>1. shown[c] \in Seq(Nat)
    BY <1>3, SeqMonotonic
  <2>2. Rising(shown[c]) /\ id > IF shown[c] = <<>> THEN 0 ELSE shown[c][Len(shown[c])]
    BY <1>1, <1>4 DEF InOrder, LastShown
  <2>. QED
    BY <1>3, <1>4, <2>1, <2>2, ShowsNext, AppendProperties
<1>. HIDE DEF v
<1>8. client'[c] = y /\ shown'[c] = v /\ LastShown(c)' = id
  BY <1>1, <1>5, <1>7 DEF ReadersTyped, LastShown
<1>9. Plumbing(c)'
  <2>1. \A k \in Callers : Sends(k, c)' <=> Sends(k, c)
    BY <1>2 DEF Sends
  <2>. QED
    BY <1>1, <1>2, <1>6, <1>8, <2>1 DEF Plumbing
<1>10. InOrder(c)'
  <2>1. \A i \in client'[c].batch : i > id
    <3>1. \A i \in client[c].batch : i \in Nat /\ id <= i
      BY <1>3, <1>4
    <3>2. client'[c].batch = client[c].batch \ {id}
      BY <1>6, <1>8
    <3>. QED
      BY <1>4, <3>1, <3>2
  <2>2. c \in Browsers => /\ client[c].stream = "replay"
                          /\ client[c].batch \subseteq IdsIn(client[c].room)
    BY <1>1, <1>2 DEF InOrder
  <2>3. c \in Browsers => c \notin IrcClients
    BY DEF NodeConstants
  <2>. QED
    BY <1>2, <1>4, <1>6, <1>7, <1>8, <2>1, <2>2, <2>3, TypesStay DEF InOrder
<1>11. shown' = [shown EXCEPT ![c] = shown'[c]] /\ client' = [client EXCEPT ![c] = client'[c]]
  BY <1>5, <1>8
<1>. QED
  BY <1>2, <1>6, <1>7, <1>8, <1>9, <1>10, <1>11, ClientAndPage

(* A live message is shown above the cursor, or above everything shown.    *)
LEMMA LiveIsTaken ==
  ASSUME NodeConstants, RulesInv, PostsInv, ReadersInv, NEW c \in Clients, TakeLive(c)
  PROVE  ReadersInv'
<1>. DEFINE id == Head(buffer[c])
            v  == Append(shown[c], id)
            y  == [client[c] EXCEPT !.cursor = id]
<1>1. ReadersTyped /\ Plumbing(c) /\ InOrder(c)
  BY DEF ReadersInv
<1>2. /\ UNCHANGED <<rows, holder, queue, fanout, pump>>
      /\ client[c].stream = "live" /\ client[c].batch = {}
      /\ buffer[c] # <<>> /\ buffer' = [buffer EXCEPT ![c] = Tail(buffer[c])]
  BY DEF TakeLive, database, services
<1>3. /\ client[c] \in ClientStates /\ shown[c] \in Seq(Committed)
      /\ buffer[c] \in Seq(Committed)
      /\ Committed \subseteq Nat /\ client[c].cursor \in Nat /\ LastShown(c) \in Nat
  BY <1>1, ReaderTyped DEF ClientStates, Places
<1>4. /\ id \in Committed /\ id = buffer[c][1] /\ Tail(buffer[c]) \in Seq(Committed)
      /\ Len(Tail(buffer[c])) = Len(buffer[c]) - 1
      /\ Len(buffer[c]) \in Nat /\ Len(buffer[c]) # 0
      /\ \A i \in 1..Len(Tail(buffer[c])) : Tail(buffer[c])[i] = buffer[c][i + 1]
  BY <1>2, <1>3, HeadTailProperties, EmptySeq, LenProperties
<1>5. buffer'[c] = Tail(buffer[c]) /\ buffer' = [buffer EXCEPT ![c] = buffer'[c]]
  BY <1>1, <1>2 DEF ReadersTyped
<1>6. c \in Clients => c \in IrcClients \/ c \in Browsers
  BY DEF Clients
<1>7. client[c].cursor = LastShown(c) \/ (c \in Browsers /\ Above(c))
  BY <1>1, <1>2, <1>6 DEF InOrder
<1>8. client[c].cursor = LastShown(c) \/ id > LastShown(c)
  <2>1. 1 \in 1..Len(buffer[c])
    BY <1>4
  <2>. QED
    BY <1>4, <1>7, <2>1 DEF Above
<1>. HIDE DEF id
<1>9. \A k \in Callers : Sends(k, c)' <=> Sends(k, c)
  BY <1>2 DEF Sends
<1>10. CASE id > client[c].cursor
  <2>1. client' = [client EXCEPT ![c] = y] /\ shown' = [shown EXCEPT ![c] = v]
    BY <1>1, <1>10 DEF TakeLive, ReadersTyped, id
  <2>2. /\ y \in ClientStates /\ y.cursor = id /\ y.batch = {} /\ y.stream = "live"
    BY <1>2, <1>3, <1>4 DEF ClientStates, Places
  <2>. HIDE DEF y
  <2>3. /\ v \in Seq(Committed) /\ Rising(v) /\ v # <<>> /\ v[Len(v)] = id
    <3>1. shown[c] \in Seq(Nat) /\ id \in Nat
      BY <1>3, <1>4, SeqMonotonic
    <3>2. Rising(shown[c]) /\ id > IF shown[c] = <<>> THEN 0 ELSE shown[c][Len(shown[c])]
      BY <1>1, <1>3, <1>8, <1>10, <3>1 DEF InOrder, LastShown
    <3>. QED
      BY <1>3, <1>4, <3>1, <3>2, ShowsNext, AppendProperties
  <2>. HIDE DEF v
  <2>4. client'[c] = y /\ shown'[c] = v /\ LastShown(c)' = id
    BY <1>1, <2>1, <2>3 DEF ReadersTyped, LastShown
  <2>5. Plumbing(c)'
    BY <1>1, <1>2, <1>4, <1>5, <1>9, <2>2, <2>4 DEF Plumbing, NodeConstants
  <2>6. InOrder(c)'
    BY <2>2, <2>3, <2>4 DEF InOrder
  <2>7. shown' = [shown EXCEPT ![c] = shown'[c]] /\ client' = [client EXCEPT ![c] = client'[c]]
    BY <2>1, <2>4
  <2>. QED
    BY <1>2, <1>4, <1>5, <2>2, <2>3, <2>4, <2>5, <2>6, <2>7, ClientAndBuffer
<1>11. CASE ~(id > client[c].cursor)
  <2>1. UNCHANGED <<client, shown>>
    BY <1>11 DEF TakeLive, id
  <2>2. Plumbing(c)'
    BY <1>1, <1>2, <1>4, <1>5, <1>9, <2>1 DEF Plumbing, NodeConstants
  <2>3. LastShown(c)' = LastShown(c)
    BY <2>1 DEF LastShown
  <2>4. Above(c) => Above(c)'
    <3>1. Above(c) => \A i \in 1..Len(buffer'[c]) : buffer'[c][i] > LastShown(c)
      <4>. SUFFICES ASSUME Above(c), NEW i \in 1..Len(buffer'[c])
                    PROVE  buffer'[c][i] > LastShown(c)
        OBVIOUS
      <4>1. i + 1 \in 1..Len(buffer[c]) /\ buffer'[c][i] = buffer[c][i + 1]
        BY <1>4, <1>5
      <4>. QED
        BY <4>1 DEF Above
    <3>. QED
      BY <1>2, <1>9, <2>1, <2>3, <3>1 DEF Above
  <2>5. InOrder(c)'
    BY <1>1, <1>2, <2>1, <2>3, <2>4 DEF InOrder
  <2>6. /\ client'[c] = client[c] /\ shown'[c] = shown[c]
        /\ shown' = [shown EXCEPT ![c] = shown'[c]] /\ client' = [client EXCEPT ![c] = client'[c]]
    BY <1>1, <2>1 DEF ReadersTyped
  <2>. QED
    BY <1>2, <1>3, <1>4, <1>5, <2>2, <2>5, <2>6, ClientAndBuffer
<1>. QED
  BY <1>10, <1>11

-----------------------------------------------------------------------------
(* Feeding a subscription.                                                 *)

LEMMA OnlyPump ==
  ASSUME NodeConstants, RulesInv, PostsInv, ReadersInv, NEW c \in Clients,
         UNCHANGED <<rows, holder, queue, fanout, client, buffer, shown>>,
         NEW w \in PumpStates, pump' = [pump EXCEPT ![c] = w],
         client[c].stream = "live",
         w.taken => /\ w.todo # {}
                    /\ Above(c) => \A i \in w.todo : i > LastShown(c)
  PROVE  ReadersInv'
<1>1. ReadersTyped /\ Plumbing(c) /\ InOrder(c)
  BY DEF ReadersInv
<1>2. pump'[c] = w /\ pump' = [pump EXCEPT ![c] = pump'[c]]
  BY <1>1 DEF ReadersTyped
<1>3. /\ client'[c] \in ClientStates   /\ client' = [client EXCEPT ![c] = client'[c]]
      /\ buffer'[c] \in Seq(Committed) /\ buffer' = [buffer EXCEPT ![c] = buffer'[c]]
      /\ shown'[c] \in Seq(Committed)  /\ shown'  = [shown EXCEPT ![c] = shown'[c]]
      /\ fanout' \in [Callers -> Sendings]
  BY <1>1 DEF ReadersTyped
<1>4. /\ LastShown(c)' = LastShown(c)
      /\ \A k \in Callers, d \in Clients : Sends(k, d)' => Sends(k, d) /\ fanout'[k].id = fanout[k].id
  BY DEF LastShown, Sends
<1>5. Plumbing(c)'
  BY <1>1, <1>2, <1>4 DEF Plumbing
<1>6. Above(c) => Above(c)'
  BY <1>2, <1>4 DEF Above
<1>7. InOrder(c)'
  BY <1>1, <1>4, <1>6 DEF InOrder
<1>. QED
  BY <1>2, <1>3, <1>4, <1>5, <1>7, OneClient

(* Only the goroutine of a live subscription is at work.                   *)
LEMMA PumpIsLive ==
  ASSUME ReadersInv, NEW c \in Clients, pump[c] # Rest
  PROVE  client[c].stream = "live"
  BY DEF ReadersInv, Plumbing

LEMMA PumpTakes ==
  ASSUME NodeConstants, RulesInv, PostsInv, ReadersInv, NEW c \in Clients,
         WatchPoll(c) \/ PumpTest(c)
  PROVE  ReadersInv'
<1>1. ReadersTyped /\ Plumbing(c) /\ InOrder(c)
  BY DEF ReadersInv
<1>2. /\ UNCHANGED <<rows, holder, queue, fanout, client, buffer, shown>>
      /\ ~pump[c].taken
  BY DEF WatchPoll, PumpTest, database, services, Rest
<1>3. /\ pump[c] \in PumpStates /\ pump \in [Clients -> PumpStates]
      /\ Committed \subseteq Nat /\ LastShown(c) \in Nat
      /\ client[c] \in ClientStates /\ client[c].last \in Nat
  BY <1>1, ReaderTyped DEF ReadersTyped, ClientStates, Places
<1>4. CASE WatchPoll(c)
  <2>. DEFINE h == HistorySince(client[c].room, client[c].last)
              w == [pump[c] EXCEPT !.todo = h]
  <2>1. pump' = [pump EXCEPT ![c] = w] /\ client[c].stream = "live"
    BY <1>3, <1>4 DEF WatchPoll
  <2>2. h \subseteq Committed
    BY HistoryIsNewer, CommittedIds
  <2>. HIDE DEF h
  <2>3. w \in PumpStates /\ ~w.taken
    BY <1>2, <1>3, <2>2 DEF PumpStates
  <2>. HIDE DEF w
  <2>. QED
    BY <1>2, <2>1, <2>3, OnlyPump
<1>5. CASE PumpTest(c)
  <2>. DEFINE low == Lowest(pump[c].todo)
  <2>1. /\ pump[c].todo # {} /\ pump[c].todo \subseteq Committed
        /\ pump[c].todo \in SUBSET Nat
    BY <1>3, <1>5 DEF PumpTest, PumpStates
  <2>2. low \in pump[c].todo /\ \A i \in pump[c].todo : low <= i
    BY <2>1, LowestIsLeast
  <2>3. client[c].stream = "live"
    BY <2>1, PumpIsLive DEF Rest
  <2>4. CASE low <= client[c].last
    <3>. DEFINE w == [pump[c] EXCEPT !.todo = @ \ {low}]
    <3>1. pump' = [pump EXCEPT ![c] = w]
      BY <1>3, <1>5, <2>4 DEF PumpTest
    <3>. HIDE DEF low
    <3>2. w \in PumpStates /\ ~w.taken
      BY <1>2, <1>3 DEF PumpStates
    <3>. HIDE DEF w
    <3>. QED
      BY <1>2, <2>3, <3>1, <3>2, OnlyPump
  <2>5. CASE ~(low <= client[c].last)
    <3>. DEFINE w == [pump[c] EXCEPT !.taken = TRUE]
    <3>1. pump' = [pump EXCEPT ![c] = w]
      BY <1>3, <1>5, <2>5 DEF PumpTest
    <3>. HIDE DEF low
    <3>2. w \in PumpStates /\ w.todo = pump[c].todo
      BY <1>3 DEF PumpStates
    <3>. HIDE DEF w
    <3>3. Above(c) => \A i \in w.todo : i > LastShown(c)
      <4>. SUFFICES ASSUME Above(c), NEW i \in w.todo PROVE i > LastShown(c)
        OBVIOUS
      <4>1. client[c].last >= LastShown(c) /\ low > client[c].last /\ low <= i
        BY <1>3, <2>1, <2>2, <2>5, <3>2 DEF Above
      <4>. QED
        BY <1>3, <2>1, <2>2, <3>2, <4>1
    <3>. QED
      BY <1>2, <2>1, <2>3, <3>1, <3>2, <3>3, OnlyPump
  <2>. QED
    BY <2>4, <2>5
<1>. QED
  BY <1>4, <1>5

(* What a channel holds once an id has been offered to it.                 *)
LEMMA Offered ==
  ASSUME NodeConstants, ReadersTyped, NEW c \in Clients, Len(buffer[c]) <= BufferCap,
         NEW id \in Committed, Offer(c, id)
  PROVE  /\ buffer' = [buffer EXCEPT ![c] = buffer'[c]]
         /\ buffer'[c] \in Seq(Committed) /\ Len(buffer'[c]) <= BufferCap
         /\ \A i \in 1..Len(buffer'[c]) :
              buffer'[c][i] = id \/ (i \in 1..Len(buffer[c]) /\ buffer'[c][i] = buffer[c][i])
<1>1. buffer \in [Clients -> Seq(Committed)] /\ buffer[c] \in Seq(Committed)
  BY DEF ReadersTyped
<1>2. CASE Len(buffer[c]) < BufferCap
  <2>1. buffer' = [buffer EXCEPT ![c] = Append(buffer[c], id)]
    BY <1>2 DEF Offer
  <2>2. buffer'[c] = Append(buffer[c], id) /\ buffer' = [buffer EXCEPT ![c] = buffer'[c]]
    BY <1>1, <2>1
  <2>3. /\ Append(buffer[c], id) \in Seq(Committed)
        /\ Len(Append(buffer[c], id)) = Len(buffer[c]) + 1
        /\ Len(buffer[c]) \in Nat
        /\ \A i \in 1..Len(buffer[c]) : Append(buffer[c], id)[i] = buffer[c][i]
        /\ Append(buffer[c], id)[Len(buffer[c]) + 1] = id
    BY <1>1, AppendProperties, LenProperties
  <2>4. \A i \in 1..(Len(buffer[c]) + 1) : i \in 1..Len(buffer[c]) \/ i = Len(buffer[c]) + 1
    BY <2>3
  <2>. QED
    BY <1>2, <2>2, <2>3, <2>4 DEF NodeConstants
<1>3. CASE ~(Len(buffer[c]) < BufferCap)
  <2>1. buffer' = buffer
    BY <1>3 DEF Offer
  <2>. QED
    BY <1>1, <2>1
<1>. QED
  BY <1>2, <1>3

(* The goroutine may lower lastID, but never below what the page showed    *)
(* before its first live message.                                          *)
LEMMA PumpSends ==
  ASSUME NodeConstants, RulesInv, PostsInv, ReadersInv, NEW c \in Clients, PumpSend(c)
  PROVE  ReadersInv'
<1>. DEFINE id == Lowest(pump[c].todo)
            y  == [client[c] EXCEPT !.last = id]
            w  == [todo |-> pump[c].todo \ {id}, taken |-> FALSE]
<1>1. ReadersTyped /\ Plumbing(c) /\ InOrder(c)
  BY DEF ReadersInv
<1>2. /\ UNCHANGED <<rows, holder, queue, fanout, shown>>
      /\ pump[c].taken /\ Offer(c, id)
      /\ client' = [client EXCEPT ![c].last = id]
      /\ pump' = [pump EXCEPT ![c] = w]
  BY <1>1 DEF PumpSend, database, services, ReadersTyped
<1>3. /\ client[c] \in ClientStates /\ pump[c] \in PumpStates /\ shown[c] \in Seq(Committed)
      /\ Committed \subseteq Nat /\ LastShown(c) \in Nat
  BY <1>1, ReaderTyped
<1>4. /\ pump[c].todo # {} /\ pump[c].todo \subseteq Committed
      /\ pump[c].todo \in SUBSET Nat
  BY <1>1, <1>2, <1>3 DEF Plumbing, PumpStates
<1>5. id \in pump[c].todo /\ id \in Committed
  BY <1>4, LowestIsLeast
<1>6. client[c].stream = "live"
  BY <1>2, PumpIsLive DEF Rest
<1>. HIDE DEF id
<1>7. /\ y \in ClientStates /\ y.last = id /\ y.stream = "live" /\ y.cursor = client[c].cursor
      /\ y.batch = client[c].batch /\ y.room = client[c].room
  BY <1>3, <1>5, <1>6 DEF ClientStates, Places
<1>8. client' = [client EXCEPT ![c] = y]
  BY <1>1, <1>2 DEF ReadersTyped
<1>. HIDE DEF y
<1>9. client'[c] = y /\ client' = [client EXCEPT ![c] = client'[c]]
  BY <1>1, <1>8 DEF ReadersTyped
<1>10. w \in PumpStates /\ ~w.taken
  BY <1>4 DEF PumpStates
<1>. HIDE DEF w
<1>11. pump'[c] = w /\ pump' = [pump EXCEPT ![c] = pump'[c]]
  BY <1>1, <1>2 DEF ReadersTyped
<1>12. /\ buffer' = [buffer EXCEPT ![c] = buffer'[c]]
       /\ buffer'[c] \in Seq(Committed) /\ Len(buffer'[c]) <= BufferCap
       /\ \A i \in 1..Len(buffer'[c]) :
            buffer'[c][i] = id \/ (i \in 1..Len(buffer[c]) /\ buffer'[c][i] = buffer[c][i])
  BY <1>1, <1>2, <1>5, Offered DEF Plumbing
<1>13. /\ LastShown(c)' = LastShown(c)
       /\ \A k \in Callers, d \in Clients : Sends(k, d)' => Sends(k, d) /\ fanout'[k].id = fanout[k].id
  BY <1>2 DEF LastShown, Sends
<1>14. Plumbing(c)'
  BY <1>7, <1>9, <1>10, <1>11, <1>12 DEF Plumbing
<1>15. Above(c) => Above(c)'
  <2>. SUFFICES ASSUME Above(c) PROVE Above(c)'
    OBVIOUS
  <2>1. id > LastShown(c)
    BY <1>2, <1>5 DEF Above
  <2>2. \A i \in 1..Len(buffer'[c]) : buffer'[c][i] > LastShown(c)
    BY <1>12, <2>1 DEF Above
  <2>3. client'[c].last >= LastShown(c)
    BY <1>3, <1>5, <1>7, <1>9, <2>1
  <2>. QED
    BY <1>2, <1>10, <1>11, <1>13, <2>2, <2>3 DEF Above
<1>16. InOrder(c)'
  BY <1>1, <1>2, <1>6, <1>7, <1>9, <1>13, <1>15 DEF InOrder
<1>17. /\ shown'[c] \in Seq(Committed) /\ shown' = [shown EXCEPT ![c] = shown'[c]]
       /\ fanout' \in [Callers -> Sendings]
  BY <1>1, <1>2 DEF ReadersTyped
<1>. QED
  BY <1>2, <1>7, <1>9, <1>10, <1>11, <1>12, <1>13, <1>14, <1>16, <1>17, OneClient

(* The listener takes a notification, or loses those under way.            *)
LEMMA ListenerFeeds ==
  ASSUME NodeConstants, RulesInv, PostsInv, ReadersInv, NEW p \in Procs,
         Dispatch(p) \/ ListenerReconnects(p)
  PROVE  ReadersInv'
<1>1. ReadersTyped /\ \A c \in Clients : Plumbing(c) /\ InOrder(c)
  BY DEF ReadersInv
<1>2. /\ UNCHANGED <<rows, holder, fanout, client, buffer, shown>>
      /\ queue[p] # <<>> /\ queue[p] \in Seq(Notes)
  BY <1>1 DEF Dispatch, ListenerReconnects, database, readers, ReadersTyped
<1>3. /\ Head(queue[p]) \in Notes /\ Head(queue[p]).id \in Committed
      /\ Tail(queue[p]) \in Seq(Notes)
  <2>1. Head(queue[p]) \in Notes /\ Tail(queue[p]) \in Seq(Notes)
    BY <1>2, HeadTailProperties
  <2>. QED
    BY <2>1 DEF Notes
<1>4. queue' \in [Procs -> Seq(Notes)]
  <2>1. queue \in [Procs -> Seq(Notes)] /\ <<>> \in Seq(Notes)
    BY <1>1, EmptySeq DEF ReadersTyped
  <2>2. \/ queue' = [queue EXCEPT ![p] = Tail(queue[p])]
        \/ queue' = [queue EXCEPT ![p] = <<>>]
    BY DEF Dispatch, ListenerReconnects
  <2>. QED
    BY <1>3, <2>1, <2>2
<1>5. ASSUME NEW c \in Clients
      PROVE  /\ pump'[c] \in PumpStates
             /\ pump'[c] = pump[c] \/ (client[c].stream = "live" /\ ~pump'[c].taken)
  <2>1. pump[c] \in PumpStates
    BY <1>1 DEF ReadersTyped
  <2>2. CASE Dispatch(p)
    <3>1. pump'[c] = IF c \in Live(p, Head(queue[p]).room)
                       THEN [todo |-> {Head(queue[p]).id}, taken |-> FALSE] ELSE pump[c]
      BY <2>2 DEF Dispatch
    <3>2. [todo |-> {Head(queue[p]).id}, taken |-> FALSE] \in PumpStates
      BY <1>3 DEF PumpStates
    <3>. QED
      BY <2>1, <3>1, <3>2 DEF Live
  <2>3. CASE ListenerReconnects(p)
    BY <2>1, <2>3 DEF ListenerReconnects, readers
  <2>. QED
    BY <2>2, <2>3
<1>6. pump' \in [Clients -> PumpStates]
  <2>1. pump' = [c \in Clients |-> pump'[c]]
    BY <1>1 DEF Dispatch, ListenerReconnects, readers, ReadersTyped
  <2>. QED
    BY <1>5, <2>1
<1>7. ReadersTyped'
  BY <1>1, <1>2, <1>4, <1>6, TypesStay DEF ReadersTyped
<1>8. ASSUME NEW c \in Clients PROVE (Plumbing(c) /\ InOrder(c))'
  <2>0. /\ LastShown(c)' = LastShown(c)
        /\ \A k \in Callers : Sends(k, c)' <=> Sends(k, c)
    BY <1>2 DEF LastShown, Sends
  <2>1. CASE pump'[c] = pump[c]
    <3>1. Same(c)
      BY <1>2, <2>1 DEF Same
    <3>. QED
      BY <1>2, <2>0, <3>1, OthersInOrder
  <2>2. CASE client[c].stream = "live" /\ ~pump'[c].taken
    <3>1. Plumbing(c)'
      BY <1>1, <1>2, <2>0, <2>2 DEF Plumbing
    <3>2. Above(c) => Above(c)'
      BY <1>2, <2>0, <2>2 DEF Above
    <3>3. InOrder(c)'
      BY <1>1, <1>2, <2>0, <2>2, <3>2 DEF InOrder
    <3>. QED
      BY <3>1, <3>3
  <2>. QED
    BY <1>5, <2>1, <2>2
<1>. QED
  BY <1>7, <1>8 DEF ReadersInv

-----------------------------------------------------------------------------
(* The fan-out of a Post.                                                  *)

LEMMA FanoutShrinks ==
  ASSUME ReadersTyped, NEW k \in Callers, fanout[k] # Done,
         NEW T \in SUBSET fanout[k].to, fanout' = Sending(k, T)
  PROVE  /\ fanout' \in [Callers -> Sendings]
         /\ \A j \in Callers, d \in Clients :
              Sends(j, d)' => Sends(j, d) /\ fanout'[j].id = fanout[j].id
<1>1. fanout \in [Callers -> Sendings] /\ fanout[k] \in Sendings
  BY DEF ReadersTyped
<1>2. CASE T = {}
  <2>1. fanout' = [fanout EXCEPT ![k] = Done]
    BY <1>2 DEF Sending
  <2>. QED
    BY <1>1, <2>1 DEF Sendings, Sends
<1>3. CASE T # {}
  <2>. DEFINE x == [fanout[k] EXCEPT !.stage = "send"]
              y == [x EXCEPT !.to = T]
  <2>1. fanout' = [fanout EXCEPT ![k] = y]
    BY <1>1, <1>3 DEF Sending
  <2>2. fanout[k] \in [stage : {"notify", "send"}, id : Committed, room : Rooms,
                       to : SUBSET Clients]
    BY <1>1 DEF Sendings
  <2>3. /\ x \in [stage : {"notify", "send"}, id : Committed, room : Rooms, to : SUBSET Clients]
        /\ x.id = fanout[k].id
    BY <2>2
  <2>. HIDE DEF x
  <2>4. y \in Sendings /\ y.id = fanout[k].id /\ y.to = T
    BY <2>2, <2>3 DEF Sendings
  <2>. HIDE DEF y
  <2>5. fanout'[k] = y /\ \A j \in Callers \ {k} : fanout'[j] = fanout[j]
    BY <1>1, <2>1
  <2>6. fanout' \in [Callers -> Sendings]
    BY <1>1, <2>1, <2>4
  <2>. QED
    BY <2>4, <2>5, <2>6 DEF Sends
<1>. QED
  BY <1>2, <1>3

LEMMA NotifyKeepsOrder ==
  ASSUME NodeConstants, RulesInv, PostsInv, ReadersInv, NEW k \in Callers, PostNotify(k)
  PROVE  ReadersInv'
<1>1. ReadersTyped
  BY DEF ReadersInv
<1>2. /\ UNCHANGED <<rows, holder, client, buffer, pump, shown>>
      /\ fanout[k].stage = "notify" /\ fanout' = Sending(k, fanout[k].to)
  BY DEF PostNotify, database, readers
<1>3. /\ fanout' \in [Callers -> Sendings]
      /\ \A j \in Callers, d \in Clients :
           Sends(j, d)' => Sends(j, d) /\ fanout'[j].id = fanout[j].id
  BY <1>1, <1>2, FanoutShrinks DEF Done
<1>4. queue' \in [Procs -> Seq(Notes)]
  <2>1. [id |-> fanout[k].id, room |-> fanout[k].room] \in Notes
    BY <1>1, <1>2 DEF ReadersTyped, Sendings, Done, Notes
  <2>2. \A p \in Procs : Append(queue[p], [id |-> fanout[k].id, room |-> fanout[k].room])
                           \in Seq(Notes)
    BY <1>1, <2>1, AppendProperties DEF ReadersTyped
  <2>. QED
    BY <1>1, <2>2 DEF PostNotify, ReadersTyped
<1>5. ReadersTyped'
  BY <1>1, <1>2, <1>3, <1>4, TypesStay DEF ReadersTyped
<1>6. ASSUME NEW c \in Clients PROVE (Plumbing(c) /\ InOrder(c))'
  <2>1. Same(c)
    BY <1>2 DEF Same
  <2>. QED
    BY <1>2, <1>3, <2>1, OthersInOrder
<1>. QED
  BY <1>5, <1>6 DEF ReadersInv

LEMMA SendKeepsOrder ==
  ASSUME NodeConstants, RulesInv, PostsInv, ReadersInv, NEW k \in Callers, NEW c \in Clients,
         PostSend(k, c)
  PROVE  ReadersInv'
<1>. DEFINE id == fanout[k].id
<1>1. ReadersTyped /\ Plumbing(c) /\ InOrder(c)
  BY DEF ReadersInv
<1>2. /\ UNCHANGED <<rows, holder, queue, client, pump, shown>>
      /\ fanout[k].stage = "send" /\ c \in fanout[k].to /\ Offer(c, id)
      /\ fanout' = Sending(k, fanout[k].to \ {c})
  BY DEF PostSend, database
<1>3. fanout[k] # Done /\ id \in Committed /\ Sends(k, c)
  BY <1>1, <1>2 DEF ReadersTyped, Sendings, Done, Sends
<1>4. /\ fanout' \in [Callers -> Sendings]
      /\ \A j \in Callers, d \in Clients :
           Sends(j, d)' => Sends(j, d) /\ fanout'[j].id = fanout[j].id
  <2>1. fanout[k].to \ {c} \in SUBSET fanout[k].to
    OBVIOUS
  <2>. QED
    BY <1>1, <1>2, <1>3, <2>1, FanoutShrinks
<1>5. client[c].stream = "live"
  BY <1>1, <1>3 DEF Plumbing
<1>6. /\ buffer' = [buffer EXCEPT ![c] = buffer'[c]]
      /\ buffer'[c] \in Seq(Committed) /\ Len(buffer'[c]) <= BufferCap
      /\ \A i \in 1..Len(buffer'[c]) :
           buffer'[c][i] = id \/ (i \in 1..Len(buffer[c]) /\ buffer'[c][i] = buffer[c][i])
  BY <1>1, <1>2, <1>3, Offered DEF Plumbing
<1>7. Plumbing(c)'
  BY <1>1, <1>2, <1>5, <1>6 DEF Plumbing
<1>8. LastShown(c)' = LastShown(c)
  BY <1>2 DEF LastShown
<1>9. Above(c) => Above(c)'
  <2>. SUFFICES ASSUME Above(c) PROVE Above(c)'
    OBVIOUS
  <2>1. id > LastShown(c)
    BY <1>3 DEF Above
  <2>2. \A i \in 1..Len(buffer'[c]) : buffer'[c][i] > LastShown(c)
    BY <1>6, <2>1 DEF Above
  <2>. QED
    BY <1>2, <1>4, <1>8, <2>2 DEF Above
<1>10. InOrder(c)'
  BY <1>1, <1>2, <1>5, <1>8, <1>9 DEF InOrder
<1>11. /\ client'[c] \in ClientStates  /\ client' = [client EXCEPT ![c] = client'[c]]
       /\ pump'[c] \in PumpStates      /\ pump' = [pump EXCEPT ![c] = pump'[c]]
       /\ shown'[c] \in Seq(Committed) /\ shown' = [shown EXCEPT ![c] = shown'[c]]
  BY <1>1, <1>2 DEF ReadersTyped
<1>. QED
  BY <1>2, <1>4, <1>6, <1>7, <1>10, <1>11, OneClient

(* Post raises lastID of the process's subscriptions; the id is newer than *)
(* anything their pages show, for it was drawn while they were live.       *)
LEMMA RaiseKeepsOrder ==
  ASSUME NodeConstants, RulesInv, PostsInv, ReadersInv, NEW p \in Procs, PostRaise(p)
  PROVE  ReadersInv'
<1>. DEFINE h    == holder[p]
            subs == Live(p, h.room)
            note == [stage |-> "notify", id |-> h.id, room |-> h.room, to |-> subs]
<1>1. ReadersTyped /\ \A c \in Clients : Plumbing(c) /\ InOrder(c)
  BY DEF ReadersInv
<1>2. /\ At(p, "raise")
      /\ UNCHANGED <<rows, queue, buffer, pump, shown>>
      /\ client' = [c \in Clients |->
                      IF c \in subs /\ h.id > client[c].last
                        THEN [client[c] EXCEPT !.last = h.id] ELSE client[c]]
      /\ fanout' = [fanout EXCEPT ![h.by] = note]
      /\ holder' = [holder EXCEPT ![p] = Free]
  BY DEF PostRaise, database
<1>3. /\ h.id \in Committed /\ h.id \in Nat /\ h.room \in Rooms /\ h.by \in Callers
      /\ subs \in SUBSET Clients /\ h.stage \in Late
  <2>1. HolderTyped /\ HolderOK(p) /\ holder[p] \in Held /\ ~Unlocked(p)
    <3>1. HolderTyped /\ HolderOK(p) /\ ~At(p, "free")
      BY <1>2 DEF RulesInv, RulesTyped, PostsInv, At
    <3>. QED
      BY <3>1, StageTyped DEF Unlocked, Free, At
  <2>2. [id |-> h.id, room |-> h.room] \in rows
    BY <1>2, <2>1 DEF HolderOK, At
  <2>3. h.id \in Committed
    BY <2>2 DEF Committed
  <2>. QED
    BY <1>2, <2>1, <2>3, CommittedIds DEF Held, Late, At, Live
<1>4. holder'[p] = Free /\ \A q \in Procs \ {p} : holder'[q] = holder[q]
  BY <1>2 DEF RulesInv, RulesTyped, HolderTyped
<1>5. note \in Sendings /\ note.id = h.id /\ note.to = subs
  <2>. HIDE DEF h, subs
  <2>. QED
    BY <1>3 DEF Sendings
<1>6. /\ fanout' \in [Callers -> Sendings] /\ fanout'[h.by] = note
      /\ \A k \in Callers \ {h.by} : fanout'[k] = fanout[k]
  <2>. HIDE DEF h, note
  <2>. QED
    BY <1>1, <1>2, <1>3, <1>5 DEF ReadersTyped
<1>7. ASSUME NEW c \in Clients
      PROVE  /\ client'[c] \in ClientStates
             /\ client'[c].stream = client[c].stream /\ client'[c].room = client[c].room
             /\ client'[c].cursor = client[c].cursor /\ client'[c].batch = client[c].batch
             /\ client'[c].last >= client[c].last
             /\ c \notin subs => client'[c] = client[c]
             /\ client[c].last \in Nat /\ client'[c].last \in Nat
  <2>1. client[c] \in ClientStates /\ Committed \subseteq Nat /\ client[c].last \in Nat
    BY <1>1, ReaderTyped DEF ReadersTyped, ClientStates, Places
  <2>2. CASE c \in subs /\ h.id > client[c].last
    <3>. DEFINE y == [client[c] EXCEPT !.last = h.id]
    <3>1. client'[c] = y
      BY <1>2, <2>2
    <3>. HIDE DEF h
    <3>2. /\ y \in ClientStates /\ y.last = h.id /\ y.stream = client[c].stream
          /\ y.room = client[c].room /\ y.cursor = client[c].cursor
          /\ y.batch = client[c].batch
      BY <1>3, <2>1 DEF ClientStates, Places
    <3>. HIDE DEF y
    <3>3. c \in subs /\ h.id > client[c].last
      BY <2>2
    <3>. HIDE DEF subs
    <3>. QED
      BY <1>3, <2>1, <3>1, <3>2, <3>3
  <2>3. CASE ~(c \in subs /\ h.id > client[c].last)
    <3>1. client'[c] = client[c]
      BY <1>2, <2>3
    <3>. QED
      BY <2>1, <3>1
  <2>. QED
    BY <2>2, <2>3
<1>. HIDE DEF h, subs, note
<1>8. ReadersTyped'
  <2>1. client' = [c \in Clients |-> client'[c]]
    BY <1>2
  <2>2. client' \in [Clients -> ClientStates]
    BY <1>7, <2>1
  <2>. QED
    BY <1>1, <1>2, <1>6, <2>2, TypesStay DEF ReadersTyped
<1>9. ASSUME NEW c \in Clients, c \notin subs PROVE (Plumbing(c) /\ InOrder(c))'
  <2>1. Same(c)
    BY <1>2, <1>7, <1>9 DEF Same
  <2>2. \A k \in Callers : Sends(k, c)' => Sends(k, c) /\ fanout'[k].id = fanout[k].id
    BY <1>5, <1>6, <1>9 DEF Sends
  <2>3. holder'[HostOf[c]].stage \in Late =>
          holder[HostOf[c]].stage \in Late /\ holder'[HostOf[c]].id = holder[HostOf[c]].id
    BY <1>4 DEF NodeConstants, Free, Late
  <2>. QED
    BY <1>2, <2>1, <2>2, <2>3, OthersInOrder
<1>10. ASSUME NEW c \in Clients, c \in subs PROVE (Plumbing(c) /\ InOrder(c))'
  <2>1. HostOf[c] = p /\ client[c].stream = "live"
    BY <1>10 DEF subs, Live
  <2>2. LastShown(c)' = LastShown(c) /\ LastShown(c) \in Nat
    BY <1>1, <1>2, ReaderTyped DEF LastShown
  <2>3. Plumbing(c)'
    BY <1>1, <1>2, <1>7, <2>1 DEF Plumbing
  <2>4. Above(c) => Above(c)'
    <3>. SUFFICES ASSUME Above(c) PROVE Above(c)'
      OBVIOUS
    <3>1. h.id > LastShown(c) /\ client[c].last >= LastShown(c)
      BY <1>3, <2>1 DEF Above, h
    <3>2. client'[c].last >= LastShown(c)
      BY <1>7, <2>2, <3>1
    <3>3. \A k \in Callers : Sends(k, c)' => fanout'[k].id > LastShown(c)
      BY <1>5, <1>6, <3>1 DEF Sends, Above
    <3>4. holder'[HostOf[c]].stage \notin Late
      BY <1>4, <2>1 DEF Free, Late
    <3>. QED
      BY <1>2, <2>2, <3>2, <3>3, <3>4 DEF Above
  <2>5. InOrder(c)'
    BY <1>1, <1>2, <1>7, <2>1, <2>2, <2>4 DEF InOrder
  <2>. QED
    BY <2>3, <2>5
<1>. QED
  BY <1>8, <1>9, <1>10 DEF ReadersInv

-----------------------------------------------------------------------------
(* What a Post that holds the mutex has drawn is new, or known already.    *)
LateIds ==
  \A q \in Procs : holder'[q].stage \in Late =>
    \/ holder'[q].id \in Nat /\ holder'[q].id > lastval
    \/ holder[q].stage \in Late /\ holder'[q].id = holder[q].id

LEMMA ReadersWait ==
  ASSUME NodeConstants, RulesInv, PostsInv, ReadersInv,
         UNCHANGED <<queue, fanout, client, buffer, pump, shown>>,
         rows \subseteq rows', LateIds
  PROVE  ReadersInv'
<1>1. ReadersTyped'
  <2>1. /\ queue \in [Procs -> Seq(Notes')] /\ fanout \in [Callers -> Sendings']
        /\ client \in [Clients -> ClientStates'] /\ pump \in [Clients -> PumpStates']
        /\ buffer \in [Clients -> Seq(Committed')] /\ shown \in [Clients -> Seq(Committed')]
    BY TypesGrow DEF ReadersInv, ReadersTyped
  <2>. QED
    BY <2>1 DEF ReadersTyped
<1>2. ASSUME NEW c \in Clients PROVE (Plumbing(c) /\ InOrder(c))'
  <2>1. Same(c) /\ HostOf[c] \in Procs
    BY DEF Same, NodeConstants
  <2>2. \A k \in Callers : Sends(k, c)' => Sends(k, c) /\ fanout'[k].id = fanout[k].id
    BY DEF Sends
  <2>. QED
    BY <2>1, <2>2, OthersInOrder DEF LateIds
<1>. QED
  BY <1>1, <1>2 DEF ReadersInv

LEMMA PostsDrawAbove ==
  ASSUME NodeConstants, RulesInv, NEW p \in Procs,
         \/ \E k \in Callers, r \in Rooms : p = ProcOf[k] /\ PostBegin(k, r)
         \/ PostCount(p) \/ PostCharge(p) \/ PostDraw(p) \/ PostCommit(p)
  PROVE  LateIds
<1>1. holder \in [Procs -> {Free} \cup Held] /\ lastval \in Nat
  BY DEF RulesInv, RulesTyped, HolderTyped
<1>2. CASE \E k \in Callers, r \in Rooms : p = ProcOf[k] /\ PostBegin(k, r)
  <2>1. PICK k \in Callers, r \in Rooms : p = ProcOf[k] /\ PostBegin(k, r)
    BY <1>2
  <2>2. \/ holder' = holder
        \/ holder' = [holder EXCEPT ![p] = [stage |-> "count", by |-> k, room |-> r]]
    BY <2>1 DEF PostBegin
  <2>. QED
    BY <1>1, <2>2 DEF LateIds, Late
<1>3. CASE PostCount(p) \/ PostCharge(p)
  <2>1. PICK s \in {"free", "charge", "draw"} :
          \/ s = "free" /\ holder' = [holder EXCEPT ![p] = Free]
          \/ s # "free" /\ holder' = [holder EXCEPT ![p].stage = s]
    BY <1>3 DEF PostCount, PostCharge, GoTo
  <2>2. holder[p] \in Held /\ holder[p].stage \notin Late
    BY <1>1, <1>3 DEF PostCount, PostCharge, At, Held, Free, Late
  <2>3. holder'[p].stage \notin Late /\ \A q \in Procs \ {p} : holder'[q] = holder[q]
    BY <1>1, <2>1, <2>2 DEF Late, Held, Early, Free
  <2>. QED
    BY <2>3 DEF LateIds
<1>4. CASE PostDraw(p)
  <2>1. /\ holder'[p] = [stage |-> "commit", by |-> holder[p].by, room |-> holder[p].room,
                         id |-> lastval + 1]
        /\ \A q \in Procs \ {p} : holder'[q] = holder[q]
    BY <1>1, <1>4 DEF PostDraw
  <2>2. holder'[p].id \in Nat /\ holder'[p].id > lastval
    BY <1>1, <2>1
  <2>. QED
    BY <2>1, <2>2 DEF LateIds
<1>5. CASE PostCommit(p)
  <2>1. \/ holder' = [holder EXCEPT ![p] = Free]
        \/ holder' = [holder EXCEPT ![p] = [holder[p] EXCEPT !.stage = "raise"]]
    BY <1>5 DEF PostCommit, GoTo
  <2>2. holder[p] \in [stage : Late, by : Callers, room : Rooms, id : Nat]
    BY <1>1, <1>5 DEF PostCommit, At, Held, Free, Early, Late
  <2>3. /\ holder'[p].stage \in Late => holder'[p].id = holder[p].id
        /\ \A q \in Procs \ {p} : holder'[q] = holder[q]
    BY <1>1, <2>1, <2>2 DEF Free, Late
  <2>. QED
    BY <2>2, <2>3 DEF LateIds
<1>. QED
  BY <1>2, <1>3, <1>4, <1>5

LEMMA StepKeepsReaders ==
  ASSUME NodeConstants, RulesInv, PostsInv, ReadersInv, [Next]_vars
  PROVE  ReadersInv'
<1>1. CASE PostStep
  <2>1. ASSUME NEW p \in Procs,
               \/ \E k \in Callers, r \in Rooms : p = ProcOf[k] /\ PostBegin(k, r)
               \/ PostCount(p) \/ PostCharge(p) \/ PostDraw(p) \/ PostCommit(p)
        PROVE  ReadersInv'
    <3>1. UNCHANGED <<queue, fanout, client, buffer, pump, shown>> /\ rows \subseteq rows'
      BY <2>1 DEF PostBegin, PostCount, PostCharge, PostDraw, PostCommit, database, readers
    <3>2. LateIds
      BY <2>1, PostsDrawAbove
    <3>. QED
      BY <3>1, <3>2, ReadersWait
  <2>2. CASE \E k \in Callers, r \in Rooms : PostBegin(k, r)
    BY <2>1, <2>2 DEF NodeConstants
  <2>3. CASE \E p \in Procs : \/ PostCount(p) \/ PostCharge(p) \/ PostDraw(p)
                              \/ PostCommit(p) \/ PostRaise(p)
    BY <2>1, <2>3, RaiseKeepsOrder
  <2>4. CASE \E k \in Callers : PostNotify(k) \/ \E c \in Clients : PostSend(k, c)
    BY <2>4, NotifyKeepsOrder, SendKeepsOrder
  <2>. QED
    BY <1>1, <2>2, <2>3, <2>4 DEF PostStep
<1>2. CASE RuleStep \/ UNCHANGED vars
  <2>1. UNCHANGED <<queue, fanout, client, buffer, pump, shown, rows, holder>>
    BY <1>2 DEF RuleStep, Ban, Unban, WindowMoves, vars, database, services, readers
  <2>2. LateIds
    BY <2>1 DEF LateIds
  <2>. QED
    BY <2>1, <2>2, ReadersWait
<1>3. CASE ReadStep
  <2>1. CASE \E p \in Procs : Dispatch(p) \/ ListenerReconnects(p)
    BY <2>1, ListenerFeeds
  <2>2. CASE \E c \in Clients : \/ WatchPoll(c) \/ PumpTest(c) \/ PumpSend(c)
                                \/ WriteBatch(c) \/ TakeLive(c)
    BY <2>2, PumpTakes, PumpSends, BatchIsWritten, LiveIsTaken
  <2>3. CASE \E c \in IrcClients : IrcPart(c) \/ IrcTick(c) \/ \E r \in Rooms : IrcJoin(c, r)
    BY <2>3, IrcMoves, IrcPolls
  <2>4. CASE \E c \in Browsers : \/ StreamReplay(c) \/ StreamSubscribe(c) \/ StreamEnd(c)
                                 \/ \E r \in Rooms : PageOpen(c, r)
    BY <2>4, StreamStarts, StreamGoesLive, StreamCloses, PageIsDrawn
  <2>. QED
    BY <1>3, <2>1, <2>2, <2>3, <2>4 DEF ReadStep
<1>. QED
  BY <1>1, <1>2, <1>3 DEF Next

LEMMA InitPosts ==
  ASSUME NodeConstants, Init
  PROVE  PostsInv
<1>1. Drawing = {}
  BY DEF Init, Drawing, Free, Early
<1>2. lastval = 0 /\ faults = 0 /\ Cardinality(Drawing) = 0 /\ rows = {}
  BY <1>1, FS_EmptySet DEF Init
<1>3. \A p \in Procs : HolderOK(p)
  BY DEF Init, HolderOK, Unlocked
<1>. QED
  BY <1>2, <1>3 DEF PostsInv, NodeConstants

LEMMA InitReaders ==
  ASSUME NodeConstants, Init
  PROVE  ReadersInv
<1>1. /\ Out \in ClientStates /\ Rest \in PumpStates /\ Done \in Sendings
      /\ \A S : <<>> \in Seq(S)
  BY DEF Out, ClientStates, Places, Rest, PumpStates, Sendings
<1>2. ReadersTyped
  BY <1>1 DEF Init, ReadersTyped
<1>3. ASSUME NEW c \in Clients PROVE Plumbing(c) /\ InOrder(c)
  <2>1. /\ client[c] = Out /\ buffer[c] = <<>> /\ pump[c] = Rest /\ shown[c] = <<>>
        /\ \A k \in Callers : ~Sends(k, c)
    BY DEF Init, Sends
  <2>2. Plumbing(c)
    BY <2>1 DEF Plumbing, Rest, NodeConstants
  <2>3. LastShown(c) = 0
    BY <2>1 DEF LastShown
  <2>. QED
    BY <2>1, <2>2, <2>3 DEF InOrder, Rising, Out
<1>. QED
  BY <1>2, <1>3 DEF ReadersInv

LEMMA NodesAlways == Spec => [](RulesInv /\ PostsInv /\ ReadersInv)
<1>1. Init => RulesInv /\ PostsInv /\ ReadersInv
  BY NodeConstants, InitRules, InitPosts, InitReaders
<1>2. RulesInv /\ PostsInv /\ ReadersInv /\ [Next]_vars => (RulesInv /\ PostsInv /\ ReadersInv)'
  BY NodeConstants, StepKeepsRules, StepKeepsPosts, StepKeepsReaders
<1>. QED
  BY <1>1, <1>2, PTL DEF Spec

(* Every id in a table, a mutex, a queue, a channel or a client's hands is *)
(* one that was drawn, each mutex is held by a caller of its process, and  *)
(* no subscription's channel is over its capacity.                         *)
THEOREM TypeCorrect == Spec => []TypeOK
<1>1. RulesInv /\ PostsInv /\ ReadersInv => TypeOK
  <2>. SUFFICES ASSUME RulesInv, PostsInv, ReadersInv PROVE TypeOK
    OBVIOUS
  <2>1. lastval \in 0..MaxMessages
    BY NodeConstants, DrawRoom
  <2>2. 1..lastval \subseteq Ids /\ Committed \subseteq Ids /\ Places \subseteq 0..MaxMessages
    BY <2>1, CommittedIds, NodeConstants DEF Ids, Places, NodeConstants
  <2>3. /\ rows \subseteq [id : Ids, room : Rooms]
        /\ faults \in 0..MaxFaults
    BY <2>2 DEF PostsInv
  <2>4. /\ holder \in [Procs -> Posts]
        /\ \A p \in Procs : Unlocked(p) \/ ProcOf[holder[p].by] = p
    <3>1. ASSUME NEW p \in Procs
          PROVE  holder[p] \in Posts /\ (Unlocked(p) \/ ProcOf[holder[p].by] = p)
      <4>1. HolderOK(p) /\ holder[p] \in {Free} \cup Held
        BY DEF PostsInv, RulesInv, RulesTyped, HolderTyped
      <4>2. CASE Unlocked(p)
        BY <4>2 DEF Unlocked, Posts
      <4>3. CASE ~Unlocked(p) /\ holder[p].stage \in Late
        <5>1. holder[p] \in [stage : Late, by : Callers, room : Rooms, id : Nat]
          BY <4>1, <4>3 DEF Unlocked, Held, Early, Late
        <5>2. holder[p].id \in Ids
          BY <2>2, <4>1, <4>3 DEF HolderOK
        <5>. QED
          BY <4>1, <4>3, <5>1, <5>2 DEF HolderOK, Posts, Late
      <4>4. CASE ~Unlocked(p) /\ holder[p].stage \notin Late
        <5>1. holder[p] \in [stage : Early, by : Callers, room : Rooms]
          BY <4>1, <4>4 DEF Unlocked, Held
        <5>. QED
          BY <4>1, <4>4, <5>1 DEF HolderOK, Posts, Early
      <4>. QED
        BY <4>2, <4>3, <4>4
    <3>2. holder \in [Procs -> Posts]
      BY <3>1 DEF RulesInv, RulesTyped, HolderTyped
    <3>. QED
      BY <3>1, <3>2
  <2>5. queue \in [Procs -> Seq([id : Ids, room : Rooms])]
    <3>1. Notes \subseteq [id : Ids, room : Rooms]
      BY <2>2 DEF Notes
    <3>2. Seq(Notes) \subseteq Seq([id : Ids, room : Rooms])
      BY <3>1, SeqMonotonic
    <3>. QED
      BY <3>2 DEF ReadersInv, ReadersTyped
  <2>6. buffer \in [Clients -> Seq(Ids)] /\ shown \in [Clients -> Seq(Ids)]
    <3>1. Seq(Committed) \subseteq Seq(Ids)
      BY <2>2, SeqMonotonic
    <3>. QED
      BY <3>1 DEF ReadersInv, ReadersTyped
  <2>7. fanout \in [Callers -> Fanouts] /\ pump \in [Clients -> [todo : SUBSET Ids, taken : BOOLEAN]]
    <3>1. Sendings \subseteq Fanouts
      BY <2>2 DEF Sendings, Fanouts
    <3>2. PumpStates \subseteq [todo : SUBSET Ids, taken : BOOLEAN]
      BY <2>2 DEF PumpStates
    <3>. QED
      BY <3>1, <3>2 DEF ReadersInv, ReadersTyped
  <2>8. client \in [Clients -> [room : Rooms \cup {NoRoom}, stream : {"off", "replay", "live"},
                                cursor : 0..MaxMessages, last : 0..MaxMessages,
                                batch : SUBSET Ids]]
    <3>1. ClientStates \subseteq [room : Rooms \cup {NoRoom}, stream : {"off", "replay", "live"},
                                  cursor : 0..MaxMessages, last : 0..MaxMessages,
                                  batch : SUBSET Ids]
      BY <2>2 DEF ClientStates
    <3>. QED
      BY <3>1 DEF ReadersInv, ReadersTyped
  <2>9. \A c \in Clients : Len(buffer[c]) <= BufferCap
    BY DEF ReadersInv, Plumbing
  <2>10. /\ rate \in [Nicks -> Nat] /\ banned \subseteq Pairs
         /\ known \in [Procs -> SUBSET Pairs] /\ slipped \in [Pairs -> Nat]
    BY DEF RulesInv, RulesTyped
  <2>. QED
    BY <2>1, <2>3, <2>4, <2>5, <2>6, <2>7, <2>8, <2>9, <2>10 DEF TypeOK
<1>. QED
  BY <1>1, NodesAlways, PTL

(* Reconnections, lost and repeated notifications, full channels, ids that *)
(* become visible out of order and a lastID that is lowered again: nothing *)
(* shows a user a message twice or an older one after a newer one.         *)
THEOREM MessagesAreShownInOrder == Spec => []ShownInOrder
<1>1. ReadersInv => ShownInOrder
  <2>. SUFFICES ASSUME ReadersInv, NEW c \in Clients
                PROVE  /\ Rising(shown[c])
                       /\ \A i \in 1..Len(shown[c]) : \E m \in rows : m.id = shown[c][i]
    BY DEF ShownInOrder, Rising
  <2>1. Rising(shown[c]) /\ shown[c] \in Seq(Committed)
    BY DEF ReadersInv, ReadersTyped, InOrder
  <2>2. \A i \in 1..Len(shown[c]) : shown[c][i] \in Committed
    BY <2>1, ElementOfSeq
  <2>. QED
    BY <2>1, <2>2 DEF Committed
<1>. QED
  BY <1>1, NodesAlways, PTL

=============================================================================
