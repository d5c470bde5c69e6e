--------------------------- MODULE DoorTurnsProofs ---------------------------
(***************************************************************************)
(* What the door runner guarantees where launches do not overlap, behind a *)
(* lock or by an account that is on once, for any number of sessions,      *)
(* accounts, doors and days, failing repository calls included.            *)
(* LaunchesAreCharged and DailyCap are not inductive: a launch reads a row *)
(* in one step and writes it in a later one, so the invariant must say     *)
(* that the row it works on is still the row of the ledger                 *)
(* (WorksOnLedger), and that holds because no other launch of the same     *)
(* account and door is inside the lock (Serial).                           *)
(* BankOnlySaves needs more: that the days of an account come in order     *)
(* (DaysInOrder), what its latest row still holds for later days           *)
(* (Savings), and that a launch under way draws on that row (DrawsOnBank). *)
(***************************************************************************)
EXTENDS DoorTurns, WellFoundedInduction, TLAPS

Serial ==
  \A s, t \in Sessions :
    (s # t /\ phase[s] \in Inside /\ phase[t] \in Inside) => ~Excludes(s, t)

HasDoor == \A s \in Sessions : phase[s] # "menu" => job[s].door \in Doors

WorksOnLedger ==
  \A s \in Sessions :
    (phase[s] \in Inside /\ InTurn(UserOf[s], job[s].door)) =>
      /\ phase[s] = "latest" => Row(s).used = 0
      /\ phase[s] = "charge" => /\ job[s].row.used = Row(s).used
                                /\ job[s].row.bank <= TimeBankMax[job[s].door]

Book ==
  \A u \in Users, d \in Doors, k \in Days :
    InTurn(u, d) => /\ ledger[u][d][k].used = launches[u][d][k]
                    /\ ledger[u][d][k].used <= DailyTurns[d] + TimeBankMax[d]
                    /\ ledger[u][d][k].bank <= TimeBankMax[d]


-----------------------------------------------------------------------------
(* The arithmetic of a row.                                                *)

LEMMA GreatestElement ==
  ASSUME NEW n \in Nat, NEW T \in SUBSET (1..n), T # {}
  PROVE  \E x \in T : \A y \in T : y <= x
<1> DEFINE Gaps == {n - x : x \in T}
<1>1. Gaps \in SUBSET Nat /\ Gaps # {}
  <2>1. \A x \in T : x \in Nat /\ x <= n /\ n - x \in Nat
    OBVIOUS
  <2>2. Gaps \in SUBSET Nat
    BY <2>1
  <2>3. PICK x \in T : TRUE
    OBVIOUS
  <2>4. n - x \in Gaps
    BY <2>3
  <2> QED BY <2>2, <2>4
<1>2. PICK g \in Gaps : \A h \in Gaps : <<h, g>> \notin OpToRel(<, Nat)
  <2> HIDE DEF Gaps
  <2> QED BY <1>1, WFMin, NatLessThanWellFounded, Zenon
<1>3. \A h \in Gaps : ~(h < g)
  <2> HIDE DEF Gaps
  <2> QED BY <1>1, <1>2, Zenon DEF OpToRel
<1>4. PICK x \in T : g = n - x
  BY <1>1
<1>5. \A y \in T : ~(n - y < n - x)
  BY <1>3, <1>4
<1>6. \A y \in T : y <= x
  <2> HIDE <1>2, <1>3 DEF Gaps
  <2> QED BY <1>5, SMT
<1> QED BY <1>6

LEMMA CarryBounded ==
  ASSUME DoorConstants, NEW d \in Doors, NEW row \in Rows
  PROVE  Carry(d, row) \in Nat /\ Carry(d, row) <= TimeBankMax[d]
<1>1. DailyTurns[d] \in Nat /\ TimeBankMax[d] \in Nat
  BY DEF DoorConstants
<1>2. row.used \in Nat /\ row.bank \in Nat
  BY DEF Rows
<1> QED BY <1>1, <1>2 DEF Carry, Smaller

LEMMA OpeningBankBounded ==
  ASSUME DoorConstants, TypeOK, NEW u \in Users, NEW d \in Doors
  PROVE  /\ OpeningBank(u, d) \in Nat
         /\ OpeningBank(u, d) <= TimeBankMax[d]
<1>1. CASE RowDays(u, d) = {}
  BY <1>1 DEF OpeningBank, DoorConstants
<1>2. CASE RowDays(u, d) # {}
  <2>1. RowDays(u, d) \in SUBSET (1..MaxDays) /\ MaxDays \in Nat
    BY DEF RowDays, Days, DoorConstants
  <2>2. \E k \in RowDays(u, d) : \A j \in RowDays(u, d) : j <= k
    BY <1>2, <2>1, GreatestElement
  <2>3. LatestDay(u, d) \in Days
    BY <2>1, <2>2 DEF LatestDay, Days
  <2>4. ledger[u][d][LatestDay(u, d)] \in Rows
    BY <2>3 DEF TypeOK
  <2> QED BY <1>2, <2>4, CarryBounded DEF OpeningBank
<1> QED BY <1>1, <1>2

LEMMA ChargedBounded ==
  ASSUME DoorConstants, NEW d \in Doors, NEW row \in Rows,
         row.bank <= TimeBankMax[d], Remaining(d, row) > 0
  PROVE  /\ Charged(d, row).used = row.used + 1
         /\ Charged(d, row).used <= DailyTurns[d] + TimeBankMax[d]
         /\ Charged(d, row).bank <= TimeBankMax[d]
<1>1. DailyTurns[d] \in Nat /\ TimeBankMax[d] \in Nat
  BY DEF DoorConstants
<1>2. row.used \in Nat /\ row.bank \in Nat
  BY DEF Rows
<1> QED BY <1>1, <1>2 DEF Charged, Remaining

LEMMA ChargedType ==
  ASSUME DoorConstants, NEW d \in Doors, NEW row \in Rows
  PROVE  Charged(d, row) \in Rows
BY DEF Charged, Rows, DoorConstants

-----------------------------------------------------------------------------
(* Types.                                                                  *)

LEMMA TypeInit == ASSUME DoorConstants, Init PROVE TypeOK
BY DEF DoorConstants, Init, TypeOK, Days, Out, NoRow, Rows, Inside

Jobs == [door : Doors \cup {NoDoor}, day : Days, row : Rows]

LEMMA JobWithRow ==
  ASSUME NEW s \in Sessions, NEW row \in Rows,
         job \in [Sessions -> Jobs], job' = [job EXCEPT ![s].row = row]
  PROVE  /\ job' \in [Sessions -> Jobs]
         /\ \A t \in Sessions : /\ job'[t].door = job[t].door
                                /\ job'[t].day = job[t].day
                                /\ t # s => job'[t] = job[t]
         /\ job'[s].row = row
<1>1. job[s] \in Jobs
  OBVIOUS
<1>2. job' = [job EXCEPT ![s] = [job[s] EXCEPT !.row = row]]
  OBVIOUS
<1> DEFINE new == [job[s] EXCEPT !.row = row]
<1>3. /\ new \in Jobs
      /\ new.door = job[s].door
      /\ new.day = job[s].day
      /\ new.row = row
  BY <1>1 DEF Jobs
<1>4. job'[s] = new /\ \A t \in Sessions \ {s} : job'[t] = job[t]
  BY <1>2
<1>5. job' \in [Sessions -> Jobs]
  <2> HIDE DEF new
  <2> QED BY <1>2, <1>3 DEF new
<1> HIDE DEF new
<1> QED BY <1>3, <1>4, <1>5

LEMMA ChargeType ==
  ASSUME DoorConstants, TypeOK, HasDoor, NEW s \in Sessions, Charge(s)
  PROVE  TypeOK'
<1> DEFINE u == UserOf[s]
           d == job[s].door
           k == job[s].day
<1>1. u \in Users /\ d \in Doors /\ k \in Days /\ job[s].row \in Rows
  BY DEF DoorConstants, TypeOK, HasDoor, Charge
<1>2. Charged(d, job[s].row) \in Rows
  BY <1>1, ChargedType
<1>3. ledger' \in [Users -> [Doors -> [Days -> Rows]]]
  BY <1>1, <1>2 DEF TypeOK, Charge
<1>4. /\ launches' \in [Users -> [Doors -> [Days -> Nat]]]
      /\ played' \in [Users -> [Doors -> [Days -> Nat]]]
  BY <1>1 DEF TypeOK, Charge
<1>5. job' \in [Sessions -> Jobs]
  <2>1. NoRow \in Rows
    BY DEF NoRow, Rows
  <2>2. job \in [Sessions -> Jobs]
    BY DEF TypeOK, Jobs
  <2>3. job' = [job EXCEPT ![s].row = NoRow]
    BY DEF Charge
  <2> QED BY <2>1, <2>2, <2>3, JobWithRow
<1>6. phase' \in [Sessions -> {"menu", "waiting"} \cup Inside]
  BY DEF TypeOK, Charge, Goto, Inside
<1> QED BY <1>3, <1>4, <1>5, <1>6 DEF TypeOK, Charge, Jobs

LEMMA TypeStep ==
  ASSUME DoorConstants, TypeOK, HasDoor, [Next]_vars
  PROVE  TypeOK'
<1> USE DEF TypeOK
<1>1. ASSUME NEW s \in Sessions, NEW d \in Doors, Ask(s, d) PROVE TypeOK'
  BY <1>1 DEF Ask, Goto, NoRow, Rows
<1>2. ASSUME NEW s \in Sessions, Acquire(s) PROVE TypeOK'
  BY <1>2 DEF Acquire, Goto, Inside
<1>3. ASSUME NEW s \in Sessions, ReadToday(s) PROVE TypeOK'
  <2>1. Row(s) \in Rows
    BY <1>3 DEF ReadToday, Row, HasDoor, DoorConstants
  <2>2. job' \in [Sessions -> Jobs]
    <3>1. job' = [job EXCEPT ![s].row = Row(s)]
      BY <1>3 DEF ReadToday
    <3> QED BY <2>1, <3>1, JobWithRow DEF Jobs
  <2>3. phase' \in [Sessions -> {"menu", "waiting"} \cup Inside]
    BY <1>3 DEF ReadToday, Goto, Inside
  <2> QED BY <1>3, <2>2, <2>3 DEF ReadToday, Jobs
<1>4. ASSUME NEW s \in Sessions, ReadLatest(s) PROVE TypeOK'
  <2>1. UserOf[s] \in Users /\ job[s].door \in Doors
    BY <1>4 DEF ReadLatest, HasDoor, DoorConstants
  <2>2. OpeningBank(UserOf[s], job[s].door) \in Nat
    BY <2>1, OpeningBankBounded
  <2>3. PICK bank \in Nat :
          job' = [job EXCEPT ![s].row = [used |-> 0, bank |-> bank]]
    BY <1>4, <2>2 DEF ReadLatest
  <2>4. [used |-> 0, bank |-> bank] \in Rows
    BY DEF Rows
  <2>5. job' \in [Sessions -> Jobs]
    BY <2>3, <2>4, JobWithRow DEF Jobs
  <2> QED BY <1>4, <2>5 DEF ReadLatest, Goto, Inside, Jobs
<1>5. ASSUME NEW s \in Sessions, Refuse(s) \/ Fail(s) \/ Leave(s) PROVE TypeOK'
  <2>1. Out \in [door : Doors \cup {NoDoor}, day : Days, row : Rows]
    BY DEF Out, NoRow, Rows, Days, DoorConstants
  <2>2. Return(s) /\ UNCHANGED <<today, ledger, launches, played>>
    BY <1>5 DEF Refuse, Fail, Leave
  <2> QED BY <2>1, <2>2 DEF Return, Goto
<1>6. ASSUME NEW s \in Sessions, Charge(s) PROVE TypeOK'
  BY <1>6, ChargeType
<1>7. ASSUME Midnight PROVE TypeOK'
  BY <1>7 DEF Midnight, Days, DoorConstants
<1>8. CASE UNCHANGED vars
  BY <1>8 DEF vars
<1> QED BY <1>1, <1>2, <1>3, <1>4, <1>5, <1>6, <1>7, <1>8 DEF Next

-----------------------------------------------------------------------------
(* The lock.                                                               *)

LEMMA LockStep ==
  ASSUME DoorConstants, TypeOK, HasDoor, Serial, [Next]_vars
  PROVE  HasDoor' /\ Serial'
<1>1. \A s, t \in Sessions : Excludes(s, t) <=> Excludes(t, s)
  BY DEF Excludes
<1>2. ASSUME NEW s \in Sessions, NEW d \in Doors, Ask(s, d)
      PROVE  HasDoor' /\ Serial'
  <2>1. \A t \in Sessions \ {s} : job'[t] = job[t] /\ phase'[t] = phase[t]
    BY <1>2 DEF Ask, Goto, TypeOK
  <2>2. phase'[s] = "waiting" /\ job'[s].door = d
    BY <1>2 DEF Ask, Goto, TypeOK
  <2>3. HasDoor'
    BY <2>1, <2>2 DEF HasDoor
  <2>4. Serial'
    BY <2>1, <2>2 DEF Serial, Excludes, Inside
  <2> QED BY <2>3, <2>4
<1>3. ASSUME NEW s \in Sessions, Acquire(s) PROVE HasDoor' /\ Serial'
  <2>1. \A t \in Sessions \ {s} : phase'[t] = phase[t]
    BY <1>3 DEF Acquire, Goto, TypeOK
  <2>2. phase[s] = "waiting" /\ phase'[s] = "today" /\ job' = job
    BY <1>3 DEF Acquire, Goto, TypeOK
  <2>3. HasDoor'
    BY <2>1, <2>2 DEF HasDoor
  <2>4. \A t \in Sessions \ {s} : phase[t] \in Inside => ~Excludes(s, t)
    BY <1>3 DEF Acquire
  <2>5. Serial'
    <3>1. \A p, q \in Sessions : Excludes(p, q)' <=> Excludes(p, q)
      BY <2>2 DEF Excludes
    <3> QED BY <1>1, <2>1, <2>4, <3>1 DEF Serial
  <2> QED BY <2>3, <2>5
<1>4. ASSUME NEW s \in Sessions,
             ReadToday(s) \/ ReadLatest(s) \/ Charge(s)
      PROVE  HasDoor' /\ Serial'
  <2>1. PICK row : job' = [job EXCEPT ![s].row = row]
    BY <1>4 DEF ReadToday, ReadLatest, Charge
  <2>2. \A t \in Sessions : job'[t].door = job[t].door
    BY <2>1 DEF TypeOK
  <2>3. \A t \in Sessions : phase'[t] \in Inside <=> phase[t] \in Inside
    BY <1>4 DEF ReadToday, ReadLatest, Charge, Goto, TypeOK, Inside
  <2>4. \A t \in Sessions : phase'[t] # "menu" => phase[t] # "menu"
    BY <1>4 DEF ReadToday, ReadLatest, Charge, Goto, TypeOK
  <2>5. HasDoor'
    BY <2>2, <2>4 DEF HasDoor
  <2>6. Serial'
    BY <2>2, <2>3 DEF Serial, Excludes
  <2> QED BY <2>5, <2>6
<1>5. ASSUME NEW s \in Sessions, Refuse(s) \/ Fail(s) \/ Leave(s)
      PROVE  HasDoor' /\ Serial'
  <2>1. Return(s)
    BY <1>5 DEF Refuse, Fail, Leave
  <2>2. \A t \in Sessions \ {s} : job'[t] = job[t] /\ phase'[t] = phase[t]
    BY <2>1 DEF Return, Goto, TypeOK
  <2>3. phase'[s] = "menu"
    BY <2>1 DEF Return, Goto, TypeOK
  <2>4. HasDoor'
    BY <2>2, <2>3 DEF HasDoor
  <2>5. Serial'
    BY <2>2, <2>3 DEF Serial, Excludes, Inside
  <2> QED BY <2>4, <2>5
<1>6. CASE Midnight \/ UNCHANGED vars
  <2>1. UNCHANGED <<phase, job>>
    BY <1>6 DEF Midnight, vars
  <2> QED BY <2>1 DEF HasDoor, Serial, Excludes
<1> QED BY <1>2, <1>3, <1>4, <1>5, <1>6 DEF Next

-----------------------------------------------------------------------------
(* The ledger.                                                             *)

(* A step that leaves the ledger alone leaves the rows of the other        *)
(* sessions as they were.                                                  *)
LEMMA OthersWork ==
  ASSUME WorksOnLedger, NEW s \in Sessions, UNCHANGED ledger,
         \A t \in Sessions \ {s} : job'[t] = job[t] /\ phase'[t] = phase[t]
  PROVE  \A t \in Sessions \ {s} :
           (phase'[t] \in Inside /\ InTurn(UserOf[t], job'[t].door)) =>
             /\ phase'[t] = "latest" => Row(t)'.used = 0
             /\ phase'[t] = "charge" =>
                  /\ job'[t].row.used = Row(t)'.used
                  /\ job'[t].row.bank <= TimeBankMax[job'[t].door]
BY DEF WorksOnLedger, Row

LEMMA ChargeStep ==
  ASSUME DoorConstants, TypeOK, HasDoor, Serial, WorksOnLedger, Book,
         NEW s \in Sessions, Charge(s)
  PROVE  WorksOnLedger' /\ Book'
<1> DEFINE u == UserOf[s]
           d == job[s].door
           k == job[s].day
<1>1. u \in Users /\ d \in Doors /\ k \in Days /\ job[s].row \in Rows
  BY DEF DoorConstants, TypeOK, HasDoor, Charge
<1>2. /\ \A t \in Sessions \ {s} : job'[t] = job[t] /\ phase'[t] = phase[t]
      /\ \A t \in Sessions : job'[t].door = job[t].door /\ job'[t].day = job[t].day
      /\ phase[s] = "charge" /\ phase'[s] = "playing"
  BY DEF Charge, Goto, TypeOK
<1>3. \A v \in Users, e \in Doors, j \in Days :
        /\ ledger'[v][e][j] = IF v = u /\ e = d /\ j = k
                                THEN Charged(d, job[s].row) ELSE ledger[v][e][j]
        /\ launches'[v][e][j] = IF v = u /\ e = d /\ j = k
                                  THEN launches[v][e][j] + 1 ELSE launches[v][e][j]
  BY <1>1 DEF Charge, TypeOK
<1>4. WorksOnLedger'
  <2> SUFFICES ASSUME NEW t \in Sessions, phase'[t] \in Inside,
                      InTurn(UserOf[t], job'[t].door)
               PROVE  /\ phase'[t] = "latest" => Row(t)'.used = 0
                      /\ phase'[t] = "charge" =>
                           /\ job'[t].row.used = Row(t)'.used
                           /\ job'[t].row.bank <= TimeBankMax[job'[t].door]
    BY DEF WorksOnLedger
  <2>1. CASE t = s
    BY <1>2, <2>1
  <2>2. CASE t # s
    <3>1. /\ job'[t] = job[t] /\ phase'[t] = phase[t]
          /\ UserOf[t] \in Users /\ job[t].door \in Doors /\ job[t].day \in Days
      BY <1>2, <2>2 DEF TypeOK, HasDoor, DoorConstants, Inside
    <3>2. ~Excludes(s, t)
      BY <1>2, <2>2, <3>1 DEF Serial, Inside
    <3>3. ~(UserOf[t] = u /\ job[t].door = d)
      BY <1>1, <2>2, <3>1, <3>2 DEF Excludes, InTurn, Locked, OnOnce, DoorConstants
    <3>4. Row(t)' = Row(t)
      BY <1>3, <3>1, <3>3 DEF Row
    <3> QED BY <3>1, <3>4 DEF WorksOnLedger
  <2> QED BY <2>1, <2>2
<1>5. Book'
  <2> SUFFICES ASSUME NEW v \in Users, NEW e \in Doors, NEW j \in Days, InTurn(v, e)
               PROVE  /\ ledger'[v][e][j].used = launches'[v][e][j]
                      /\ ledger'[v][e][j].used <= DailyTurns[e] + TimeBankMax[e]
                      /\ ledger'[v][e][j].bank <= TimeBankMax[e]
    BY DEF Book
  <2>1. CASE v = u /\ e = d /\ j = k
    <3>1. /\ job[s].row.used = ledger[u][d][k].used
          /\ job[s].row.bank <= TimeBankMax[d]
      BY <1>2, <2>1 DEF WorksOnLedger, Row, Inside
    <3>2. Remaining(d, job[s].row) > 0
      BY DEF Charge, MayPlay
    <3>3. /\ Charged(d, job[s].row).used = job[s].row.used + 1
          /\ Charged(d, job[s].row).used <= DailyTurns[d] + TimeBankMax[d]
          /\ Charged(d, job[s].row).bank <= TimeBankMax[d]
      BY <1>1, <3>1, <3>2, ChargedBounded
    <3>4. ledger[u][d][k].used = launches[u][d][k]
      BY <1>1, <2>1 DEF Book
    <3>5. /\ ledger'[v][e][j] = Charged(d, job[s].row)
          /\ launches'[v][e][j] = launches[u][d][k] + 1
      BY <1>3, <2>1
    <3> HIDE DEF u, d, k
    <3> QED BY <2>1, <3>1, <3>3, <3>4, <3>5
  <2>2. CASE ~(v = u /\ e = d /\ j = k)
    BY <1>3, <2>2 DEF Book
  <2> QED BY <2>1, <2>2
<1> QED BY <1>4, <1>5

LEMMA LedgerStep ==
  ASSUME DoorConstants, TypeOK, HasDoor, Serial, WorksOnLedger, Book, [Next]_vars
  PROVE  WorksOnLedger' /\ Book'
<1>1. ASSUME UNCHANGED <<ledger, launches>> PROVE Book'
  BY <1>1 DEF Book
<1>2. ASSUME NEW s \in Sessions, NEW d \in Doors, Ask(s, d)
      PROVE  WorksOnLedger' /\ Book'
  <2>1. /\ \A t \in Sessions \ {s} : job'[t] = job[t] /\ phase'[t] = phase[t]
        /\ phase'[s] = "waiting"
        /\ UNCHANGED <<ledger, launches>>
    BY <1>2 DEF Ask, Goto, TypeOK
  <2> QED BY <1>1, <2>1, OthersWork DEF WorksOnLedger, Inside
<1>3. ASSUME NEW s \in Sessions, Acquire(s) PROVE WorksOnLedger' /\ Book'
  <2>1. /\ \A t \in Sessions \ {s} : job'[t] = job[t] /\ phase'[t] = phase[t]
        /\ phase'[s] = "today"
        /\ UNCHANGED <<ledger, launches>>
    BY <1>3 DEF Acquire, Goto, TypeOK
  <2> QED BY <1>1, <2>1, OthersWork DEF WorksOnLedger
<1>4. ASSUME NEW s \in Sessions, ReadToday(s) PROVE WorksOnLedger' /\ Book'
  <2>1. /\ UserOf[s] \in Users /\ job[s].door \in Doors /\ job[s].day \in Days
        /\ Row(s) \in Rows
    BY <1>4 DEF ReadToday, Row, HasDoor, DoorConstants, TypeOK
  <2>2. /\ \A t \in Sessions : job'[t].door = job[t].door /\ job'[t].day = job[t].day
        /\ \A t \in Sessions \ {s} : job'[t] = job[t]
        /\ job'[s].row = Row(s)
    BY <1>4, <2>1, JobWithRow DEF ReadToday, TypeOK, Jobs
  <2>3. /\ \A t \in Sessions \ {s} : phase'[t] = phase[t]
        /\ phase'[s] = IF Row(s).used = 0 THEN "latest" ELSE "charge"
        /\ UNCHANGED <<ledger, launches>>
    BY <1>4 DEF ReadToday, Goto, TypeOK
  <2>4. Row(s)' = Row(s)
    BY <2>2, <2>3 DEF Row
  <2>5. InTurn(UserOf[s], job[s].door) => Row(s).bank <= TimeBankMax[job[s].door]
    BY <2>1 DEF Book, Row
  <2> QED BY <1>1, <2>2, <2>3, <2>4, <2>5, OthersWork DEF WorksOnLedger
<1>5. ASSUME NEW s \in Sessions, ReadLatest(s) PROVE WorksOnLedger' /\ Book'
  <2>1. UserOf[s] \in Users /\ job[s].door \in Doors
    BY <1>5 DEF ReadLatest, HasDoor, DoorConstants
  <2>2. /\ OpeningBank(UserOf[s], job[s].door) \in Nat
        /\ OpeningBank(UserOf[s], job[s].door) <= TimeBankMax[job[s].door]
        /\ TimeBankMax[job[s].door] \in Nat
    BY <2>1, OpeningBankBounded DEF DoorConstants
  <2>3. PICK bank \in {OpeningBank(UserOf[s], job[s].door)}
                       \cup (IF MayFail THEN {0} ELSE {}) :
          job' = [job EXCEPT ![s].row = [used |-> 0, bank |-> bank]]
    BY <1>5 DEF ReadLatest
  <2>4. bank \in Nat /\ bank <= TimeBankMax[job[s].door]
    BY <2>2
  <2>5. [used |-> 0, bank |-> bank] \in Rows
    BY <2>4 DEF Rows
  <2>6. /\ \A t \in Sessions : job'[t].door = job[t].door /\ job'[t].day = job[t].day
        /\ \A t \in Sessions \ {s} : job'[t] = job[t]
        /\ job'[s].row = [used |-> 0, bank |-> bank]
    BY <2>3, <2>5, JobWithRow DEF TypeOK, Jobs
  <2>7. /\ \A t \in Sessions \ {s} : phase'[t] = phase[t]
        /\ phase[s] = "latest" /\ phase'[s] = "charge"
        /\ UNCHANGED <<ledger, launches>>
    BY <1>5 DEF ReadLatest, Goto, TypeOK
  <2>8. Row(s)' = Row(s)
    BY <2>6, <2>7 DEF Row
  <2>9. InTurn(UserOf[s], job[s].door) => Row(s).used = 0
    BY <2>7 DEF WorksOnLedger, Inside
  <2> QED BY <1>1, <2>4, <2>6, <2>7, <2>8, <2>9, OthersWork DEF WorksOnLedger
<1>6. ASSUME NEW s \in Sessions, Refuse(s) \/ Fail(s) \/ Leave(s)
      PROVE  WorksOnLedger' /\ Book'
  <2>1. Return(s) /\ UNCHANGED <<ledger, launches>>
    BY <1>6 DEF Refuse, Fail, Leave
  <2>2. /\ \A t \in Sessions \ {s} : job'[t] = job[t] /\ phase'[t] = phase[t]
        /\ phase'[s] = "menu"
    BY <2>1 DEF Return, Goto, TypeOK
  <2> QED BY <1>1, <2>1, <2>2, OthersWork DEF WorksOnLedger, Inside
<1>7. ASSUME NEW s \in Sessions, Charge(s) PROVE WorksOnLedger' /\ Book'
  BY <1>7, ChargeStep
<1>8. CASE Midnight \/ UNCHANGED vars
  <2>1. UNCHANGED <<phase, job, ledger, launches>>
    BY <1>8 DEF Midnight, vars
  <2> QED BY <1>1, <2>1 DEF WorksOnLedger, Row
<1> QED BY <1>2, <1>3, <1>4, <1>5, <1>6, <1>7, <1>8 DEF Next

-----------------------------------------------------------------------------
(* The time bank.  For an account that is on once, its days come in order: *)
(* the latest row is never of a later day than the launch it has under     *)
(* way.  So a launch on a new day carries over what its latest row left,   *)
(* and what an account played up to that row, with the bank and the unused *)
(* turns of the row, stays within the turns of the days it has had.        *)

Leftover(d, row) == IF row.used < DailyTurns[d] THEN DailyTurns[d] - row.used
                                                ELSE 0

(* The daily turns of the days up to k.                                    *)
Allotted(d, k) == k * DailyTurns[d]

Last(u, d, k) == \A j \in Days : j > k => ledger[u][d][j].used = 0

DaysInOrder ==
  /\ \A u \in Users, d \in Doors, k \in Days :
       ledger[u][d][k].used > 0 => k <= today
  /\ \A s \in Sessions :
       phase[s] # "menu" =>
         /\ job[s].day <= today
         /\ OnOnce(UserOf[s]) => Last(UserOf[s], job[s].door, job[s].day)

Unused(u, d) ==
  (\A k \in Days : ledger[u][d][k].used = 0) => \A k \in Days : played[u][d][k] = 0

SavedUp(u, d, k) ==
  /\ played[u][d][k] <= Allotted(d, k)
  /\ Last(u, d, k) =>
       /\ \A j \in Days : j > k => played[u][d][j] = played[u][d][k]
       /\ ledger[u][d][k].used > 0 =>
            played[u][d][k] + ledger[u][d][k].bank + Leftover(d, ledger[u][d][k])
              <= Allotted(d, k)

Savings ==
  \A u \in Users, d \in Doors :
    OnOnce(u) => Unused(u, d) /\ \A k \in Days : SavedUp(u, d, k)

DrawsOnBank ==
  \A s \in Sessions, d \in Doors :
    (phase[s] = "charge" /\ job[s].door = d /\ OnOnce(UserOf[s])) =>
      job[s].row.bank <= IF Row(s).used > 0 THEN Row(s).bank
                                            ELSE OpeningBank(UserOf[s], d)

BankInv == DaysInOrder /\ Savings /\ DrawsOnBank

LEMMA TimesMonotone ==
  ASSUME NEW i \in Nat, NEW j \in Nat, i <= j, NEW n \in Nat
  PROVE  i * n \in Nat /\ i * n <= j * n /\ (i < j => i * n + n <= j * n)
<1>1. \A m \in Nat : m * n \in Nat
  OBVIOUS
<1>2. j - i \in Nat /\ j * n = i * n + (j - i) * n
  OBVIOUS
<1>3. i < j => j - i - 1 \in Nat /\ (j - i) * n = (j - i - 1) * n + n
  OBVIOUS
<1>4. i * n \in Nat /\ j * n \in Nat /\ (j - i) * n \in Nat
  BY <1>1, <1>2
<1>5. i < j => (j - i - 1) * n \in Nat
  BY <1>1, <1>3
<1> QED BY <1>2, <1>3, <1>4, <1>5

LEMMA AllottedGrows ==
  ASSUME DoorConstants, NEW d \in Doors, NEW k \in Days
  PROVE  /\ Allotted(d, k) \in Nat
         /\ DailyTurns[d] <= Allotted(d, k)
         /\ \A j \in Days : /\ k <= j => Allotted(d, k) <= Allotted(d, j)
                            /\ k < j => Allotted(d, k) + DailyTurns[d] <= Allotted(d, j)
<1>1. k \in Nat /\ k >= 1 /\ DailyTurns[d] \in Nat /\ \A j \in Days : j \in Nat
  BY DEF DoorConstants, Days
<1>2. 1 * DailyTurns[d] <= k * DailyTurns[d] /\ k * DailyTurns[d] \in Nat
  BY <1>1, TimesMonotone
<1>3. 1 * DailyTurns[d] = DailyTurns[d]
  BY <1>1
<1>4. ASSUME NEW j \in Days
      PROVE  /\ k <= j => k * DailyTurns[d] <= j * DailyTurns[d]
             /\ k < j => k * DailyTurns[d] + DailyTurns[d] <= j * DailyTurns[d]
  <2>1. j \in Nat /\ (k < j => k <= j)
    BY <1>1
  <2> QED BY <1>1, <2>1, TimesMonotone
<1> QED BY <1>2, <1>3, <1>4 DEF Allotted

LEMMA SmallerSum ==
  ASSUME NEW p \in Nat, NEW b \in Nat, NEW l \in Nat, NEW c \in Nat, NEW m \in Nat,
         NEW n \in Nat, p + c + m <= n, b <= c, l <= m
  PROVE  p + b + l <= n
OBVIOUS

LEMMA PaidSum ==
  ASSUME NEW p \in Nat, NEW q \in Nat, NEW b \in Nat, NEW l \in Nat,
         NEW c \in Nat, NEW m \in Nat, NEW n \in Nat,
         p + b + l <= n, c + m + 1 <= b + l, q = p + 1
  PROVE  q + c + m <= n /\ q <= n
OBVIOUS

LEMMA BankTyped ==
  ASSUME DoorConstants, TypeOK
  PROVE  /\ today \in Nat /\ MaxDays \in Nat
         /\ \A k \in Days : k \in Nat /\ k >= 1
         /\ \A d \in Doors : DailyTurns[d] \in Nat /\ TimeBankMax[d] \in Nat
         /\ \A s \in Sessions : UserOf[s] \in Users /\ job[s].day \in Days
         /\ \A u \in Users, d \in Doors, k \in Days :
              /\ played[u][d][k] \in Nat
              /\ ledger[u][d][k].used \in Nat
              /\ ledger[u][d][k].bank \in Nat
<1>1. MaxDays \in Nat /\ \A k \in Days : k \in Nat /\ k >= 1
  BY DEF DoorConstants, Days
<1>2. \A d \in Doors : DailyTurns[d] \in Nat /\ TimeBankMax[d] \in Nat
  BY DEF DoorConstants
<1>3. \A s \in Sessions : UserOf[s] \in Users /\ job[s].day \in Days
  BY DEF DoorConstants, TypeOK
<1>4. \A u \in Users, d \in Doors, k \in Days :
        ledger[u][d][k] \in Rows /\ played[u][d][k] \in Nat
  BY DEF TypeOK
<1>5. \A row \in Rows : row.used \in Nat /\ row.bank \in Nat
  BY DEF Rows
<1>6. today \in Nat
  BY <1>1 DEF TypeOK
<1> QED BY <1>1, <1>2, <1>3, <1>4, <1>5, <1>6

(* What a day opens with follows from the rows of the account and door.    *)
LEMMA SameOpening ==
  ASSUME DoorConstants, NEW u \in Users, NEW d \in Doors,
         \A k \in Days : ledger'[u][d][k] = ledger[u][d][k]
  PROVE  OpeningBank(u, d)' = OpeningBank(u, d)
<1>1. RowDays(u, d)' = RowDays(u, d)
  BY DEF RowDays
<1>2. LatestDay(u, d)' = LatestDay(u, d)
  BY <1>1 DEF LatestDay
<1>3. CASE RowDays(u, d) = {}
  BY <1>1, <1>3 DEF OpeningBank
<1>4. CASE RowDays(u, d) # {}
  <2>1. RowDays(u, d) \in SUBSET (1..MaxDays) /\ MaxDays \in Nat
    BY DEF RowDays, Days, DoorConstants
  <2>2. \E x \in RowDays(u, d) : \A j \in RowDays(u, d) : j <= x
    BY <1>4, <2>1, GreatestElement
  <2>3. LatestDay(u, d) \in Days
    BY <2>1, <2>2 DEF LatestDay, Days
  <2>4. ledger'[u][d][LatestDay(u, d)] = ledger[u][d][LatestDay(u, d)]
    BY <2>3
  <2> QED BY <1>1, <1>2, <1>4, <2>4 DEF OpeningBank
<1> QED BY <1>3, <1>4

(* What a new day opens with was not played on the days before it.         *)
LEMMA OpeningIsSaved ==
  ASSUME DoorConstants, TypeOK, NEW u \in Users, NEW d \in Doors,
         NEW k \in Days, Last(u, d, k), ledger[u][d][k].used = 0,
         Unused(u, d), \A j \in Days : SavedUp(u, d, j)
  PROVE  /\ played[u][d][k] + OpeningBank(u, d) + DailyTurns[d] <= Allotted(d, k)
<1>1. /\ DailyTurns[d] \in Nat /\ TimeBankMax[d] \in Nat /\ MaxDays \in Nat
      /\ k \in Nat /\ k >= 1
      /\ \A j \in Days : /\ j \in Nat
                         /\ played[u][d][j] \in Nat
                         /\ ledger[u][d][j].used \in Nat
                         /\ ledger[u][d][j].bank \in Nat
  BY BankTyped
<1>2. CASE RowDays(u, d) = {}
  <2>1. \A j \in Days : ledger[u][d][j].used = 0
    BY <1>1, <1>2 DEF RowDays
  <2>2. played[u][d][k] = 0
    BY <2>1 DEF Unused
  <2>3. DailyTurns[d] <= Allotted(d, k)
    BY AllottedGrows
  <2> QED BY <1>1, <1>2, <2>2, <2>3 DEF OpeningBank
<1>3. CASE RowDays(u, d) # {}
  <2> DEFINE l == LatestDay(u, d)
             r == ledger[u][d][l]
  <2>1. RowDays(u, d) \in SUBSET (1..MaxDays)
    BY DEF RowDays, Days
  <2>2. \E x \in RowDays(u, d) : \A j \in RowDays(u, d) : j <= x
    BY <1>1, <1>3, <2>1, GreatestElement
  <2>3. l \in RowDays(u, d) /\ \A j \in RowDays(u, d) : j <= l
    BY <2>2 DEF LatestDay
  <2>4. l \in Days /\ r.used > 0
    BY <2>3 DEF RowDays
  <2>5. OpeningBank(u, d) = Carry(d, r)
    BY <1>3 DEF OpeningBank
  <2> HIDE DEF l, r
  <2>6. l < k
    <3>1. ~(l > k)
      BY <1>1, <2>4 DEF Last, r
    <3>2. l # k
      BY <2>4 DEF r
    <3> QED BY <1>1, <2>4, <3>1, <3>2
  <2>7. Last(u, d, l)
    <3>1. \A j \in Days : j > l => j \notin RowDays(u, d)
      BY <1>1, <2>3, <2>4
    <3>2. \A j \in Days : j > l => ~(ledger[u][d][j].used > 0)
      BY <3>1 DEF RowDays
    <3> QED BY <1>1, <3>2 DEF Last
  <2>8. /\ played[u][d][k] = played[u][d][l]
        /\ played[u][d][l] + r.bank + Leftover(d, r) <= Allotted(d, l)
    BY <2>4, <2>6, <2>7 DEF SavedUp, r
  <2>9. OpeningBank(u, d) <= r.bank + Leftover(d, r)
    <3>1. r.used \in Nat /\ r.bank \in Nat
      BY <1>1, <2>4 DEF r
    <3> QED BY <1>1, <2>5, <3>1 DEF Carry, Leftover, Smaller
  <2>10. Allotted(d, l) + DailyTurns[d] <= Allotted(d, k)
    BY <1>1, <2>4, <2>6, AllottedGrows
  <2>11. /\ OpeningBank(u, d) \in Nat /\ played[u][d][l] \in Nat
         /\ r.bank \in Nat /\ Leftover(d, r) \in Nat
         /\ Allotted(d, l) \in Nat /\ Allotted(d, k) \in Nat
    <3>1. r.used \in Nat /\ r.bank \in Nat /\ played[u][d][l] \in Nat /\ l \in Nat
      BY <1>1, <2>4 DEF r
    <3>2. OpeningBank(u, d) \in Nat
      BY OpeningBankBounded
    <3>3. Allotted(d, l) \in Nat /\ Allotted(d, k) \in Nat
      BY <2>4, AllottedGrows
    <3> QED BY <1>1, <3>1, <3>2, <3>3 DEF Leftover
  <2> QED BY <1>1, <2>8, <2>9, <2>10, <2>11
<1> QED BY <1>2, <1>3

(* A row that is charged gives the launch out of its own turns, or its     *)
(* bank.                                                                   *)
LEMMA ChargePays ==
  ASSUME DoorConstants, NEW d \in Doors, NEW row \in Rows, Remaining(d, row) > 0
  PROVE  Charged(d, row).bank + Leftover(d, Charged(d, row)) + 1
           <= row.bank + Leftover(d, row)
<1>1. DailyTurns[d] \in Nat /\ row.used \in Nat /\ row.bank \in Nat
  BY DEF DoorConstants, Rows
<1>2. /\ Charged(d, row).used = row.used + 1
      /\ Charged(d, row).bank = IF row.used + 1 > DailyTurns[d] /\ row.bank > 0
                                  THEN row.bank - 1 ELSE row.bank
  BY DEF Charged
<1>3. CASE row.used < DailyTurns[d]
  BY <1>1, <1>2, <1>3 DEF Leftover
<1>4. CASE ~(row.used < DailyTurns[d])
  <2>1. row.bank > 0
    BY <1>1, <1>4 DEF Remaining
  <2> QED BY <1>1, <1>2, <1>4, <2>1 DEF Leftover
<1> QED BY <1>3, <1>4

(* A step that leaves the ledger alone, and every launch under way at its  *)
(* door and day or asked today, keeps the days in order.                   *)
LEMMA SameDays ==
  ASSUME DoorConstants, TypeOK, TypeOK', DaysInOrder, UNCHANGED ledger,
         today' >= today,
         \A t \in Sessions :
            phase'[t] # "menu" =>
              \/ /\ phase[t] # "menu"
                 /\ job'[t].door = job[t].door
                 /\ job'[t].day = job[t].day
              \/ job'[t].door \in Doors /\ job'[t].day = today'
  PROVE  DaysInOrder'
<1>1. /\ today \in Nat /\ today' \in Nat
      /\ \A k \in Days : k \in Nat
      /\ \A s \in Sessions : UserOf[s] \in Users /\ job[s].day \in Days
      /\ \A u \in Users, d \in Doors, k \in Days : ledger[u][d][k].used \in Nat
  BY BankTyped DEF TypeOK, Days, DoorConstants
<1>2. \A u \in Users, d \in Doors, k \in Days : ledger[u][d][k].used > 0 => k <= today
  BY DEF DaysInOrder
<1>3. \A u \in Users, d \in Doors, k \in Days : ledger'[u][d][k].used > 0 => k <= today'
  BY <1>1, <1>2
<1>4. ASSUME NEW t \in Sessions, phase'[t] # "menu"
      PROVE  /\ job'[t].day <= today'
             /\ OnOnce(UserOf[t]) => Last(UserOf[t], job[t].door, job[t].day)'
  <2>1. CASE job'[t].door \in Doors /\ job'[t].day = today'
    <3>1. \A j \in Days : j > today' => ledger'[UserOf[t]][job'[t].door][j].used = 0
      BY <1>1, <1>3, <2>1
    <3> QED BY <1>1, <2>1, <3>1 DEF Last
  <2>2. CASE /\ phase[t] # "menu"
             /\ job'[t].door = job[t].door
             /\ job'[t].day = job[t].day
    <3>1. job[t].day <= today /\ (OnOnce(UserOf[t]) => Last(UserOf[t], job[t].door, job[t].day))
      BY <2>2 DEF DaysInOrder
    <3> QED BY <1>1, <2>2, <3>1 DEF Last
  <2> QED BY <1>4, <2>1, <2>2
<1> QED BY <1>3, <1>4 DEF DaysInOrder

(* What the launches under way draw on does not change with a step of      *)
(* another session that leaves the ledger alone.                           *)
LEMMA SameDraws ==
  ASSUME DoorConstants, DrawsOnBank, UNCHANGED ledger, NEW s \in Sessions,
         \A t \in Sessions \ {s} : job'[t] = job[t] /\ phase'[t] = phase[t],
         NEW t \in Sessions, t # s, NEW d \in Doors,
         phase'[t] = "charge", job'[t].door = d, OnOnce(UserOf[t])
  PROVE  job'[t].row.bank <= IF Row(t)'.used > 0 THEN Row(t)'.bank
                                                 ELSE OpeningBank(UserOf[t], d)'
<1>1. UserOf[t] \in Users
  BY DEF DoorConstants
<1>2. OpeningBank(UserOf[t], d)' = OpeningBank(UserOf[t], d)
  BY <1>1, SameOpening
<1>3. Row(t)' = Row(t)
  BY DEF Row
<1>4. job[t].row.bank <= IF Row(t).used > 0 THEN Row(t).bank
                                            ELSE OpeningBank(UserOf[t], d)
  BY DEF DrawsOnBank
<1> QED BY <1>2, <1>3, <1>4

LEMMA BankChargeStep ==
  ASSUME DoorConstants, TypeOK, TypeOK', HasDoor, WorksOnLedger, BankInv,
         NEW s \in Sessions, Charge(s),
         NEW u \in Users, NEW d \in Doors, NEW k \in Days, NEW row \in Rows,
         u = UserOf[s], d = job[s].door, k = job[s].day, row = job[s].row
  PROVE  BankInv'
<1>1. /\ DailyTurns[d] \in Nat /\ MaxDays \in Nat
      /\ \A j \in Days : j \in Nat
      /\ \A t \in Sessions : UserOf[t] \in Users
      /\ today \in Nat
  BY BankTyped
<1>2. /\ \A t \in Sessions \ {s} : job'[t] = job[t] /\ phase'[t] = phase[t]
      /\ \A t \in Sessions : job'[t].door = job[t].door /\ job'[t].day = job[t].day
      /\ phase[s] = "charge" /\ phase'[s] = "playing" /\ today' = today
      /\ Remaining(d, row) > 0
  BY DEF Charge, Goto, TypeOK, MayPlay
<1>3. \A v \in Users, e \in Doors, j \in Days :
        ledger'[v][e][j] = IF v = u /\ e = d /\ j = k
                             THEN Charged(d, row) ELSE ledger[v][e][j]
  BY <1>1 DEF Charge, TypeOK
<1>4. \A v \in Users, e \in Doors, j \in Days :
        played'[v][e][j] = IF v = u /\ e = d /\ j >= k
                             THEN played[v][e][j] + 1 ELSE played[v][e][j]
  <2>1. played' = [played EXCEPT ![u][d] = [j \in Days |->
                     IF j < k THEN played[u][d][j] ELSE played[u][d][j] + 1]]
    BY DEF Charge
  <2>2. \A v \in Users, e \in Doors :
          played'[v][e] = IF v = u /\ e = d
                            THEN [j \in Days |-> IF j < k THEN played[u][d][j]
                                                          ELSE played[u][d][j] + 1]
                            ELSE played[v][e]
    BY <1>1, <2>1 DEF TypeOK
  <2> TAKE v \in Users, e \in Doors, j \in Days
  <2>3. CASE v = u /\ e = d
    <3>1. j >= k <=> ~(j < k)
      BY <1>1
    <3>2. played'[u][d] = [i \in Days |-> IF i < k THEN played[u][d][i]
                                                   ELSE played[u][d][i] + 1]
      BY <2>2
    <3>3. played'[u][d][j] = IF j < k THEN played[u][d][j] ELSE played[u][d][j] + 1
      BY <3>2
    <3> QED BY <2>3, <3>1, <3>3
  <2>4. CASE ~(v = u /\ e = d)
    BY <2>2, <2>4
  <2> QED BY <2>3, <2>4
<1>5. k <= today /\ (OnOnce(u) => Last(u, d, k))
  BY <1>2 DEF BankInv, DaysInOrder
<1>6. Charged(d, row).used = row.used + 1 /\ row.used \in Nat /\ row.bank \in Nat
      /\ Charged(d, row).bank \in Nat
  <2>1. Charged(d, row) \in Rows
    BY <1>1, ChargedType
  <2> QED BY <1>1, <2>1 DEF Charged, Rows
<1>7. DaysInOrder'
  <2>1. \A v \in Users, e \in Doors, j \in Days :
          ledger'[v][e][j].used > 0 => j <= today'
    BY <1>2, <1>3, <1>5 DEF BankInv, DaysInOrder
  <2>2. ASSUME NEW t \in Sessions, phase'[t] # "menu"
        PROVE  /\ job'[t].day <= today'
               /\ OnOnce(UserOf[t]) => Last(UserOf[t], job[t].door, job[t].day)'
    <3>1. phase[t] # "menu"
      BY <1>2, <2>2
    <3>2. /\ job[t].door \in Doors /\ job[t].day \in Days
          /\ job[t].day <= today
          /\ OnOnce(UserOf[t]) => Last(UserOf[t], job[t].door, job[t].day)
      BY <3>1 DEF HasDoor, BankInv, DaysInOrder, TypeOK
    <3>3. OnOnce(UserOf[t]) => (UserOf[t] = u => t = s)
      BY <1>1 DEF OnOnce
    <3>4. ASSUME OnOnce(UserOf[t]), NEW j \in Days, j > job[t].day
          PROVE  ledger'[UserOf[t]][job[t].door][j] = ledger[UserOf[t]][job[t].door][j]
      <4>1. ~(UserOf[t] = u /\ j = k)
        BY <1>1, <3>3, <3>4
      <4> QED BY <1>1, <1>3, <3>2, <4>1
    <3>5. OnOnce(UserOf[t]) => Last(UserOf[t], job[t].door, job[t].day)'
      BY <1>2, <3>2, <3>4 DEF Last
    <3> QED BY <1>2, <3>2, <3>5
  <2> QED BY <2>1, <2>2 DEF DaysInOrder
<1>8. DrawsOnBank'
  <2> SUFFICES ASSUME NEW t \in Sessions, NEW e \in Doors, phase'[t] = "charge",
                      job'[t].door = e, OnOnce(UserOf[t])
               PROVE  job'[t].row.bank <= IF Row(t)'.used > 0
                                            THEN Row(t)'.bank
                                            ELSE OpeningBank(UserOf[t], e)'
    BY DEF DrawsOnBank
  <2>1. /\ t # s /\ job'[t] = job[t] /\ phase[t] = "charge"
        /\ UserOf[t] # u /\ UserOf[t] \in Users /\ job[t].day \in Days
    BY <1>1, <1>2, BankTyped DEF OnOnce
  <2>2. \A j \in Days : ledger'[UserOf[t]][e][j] = ledger[UserOf[t]][e][j]
    BY <1>3, <2>1
  <2>3. Row(t)' = Row(t)
    BY <2>1, <2>2 DEF Row
  <2>4. OpeningBank(UserOf[t], e)' = OpeningBank(UserOf[t], e)
    BY <2>1, <2>2, SameOpening
  <2>5. job[t].row.bank <= IF Row(t).used > 0 THEN Row(t).bank
                                              ELSE OpeningBank(UserOf[t], e)
    BY <2>1 DEF BankInv, DrawsOnBank
  <2> QED BY <2>1, <2>3, <2>4, <2>5
<1>9. Savings'
  <2> SUFFICES ASSUME NEW v \in Users, NEW e \in Doors, OnOnce(v)
               PROVE  Unused(v, e)' /\ \A j \in Days : SavedUp(v, e, j)'
    BY DEF Savings
  <2>0. Unused(v, e) /\ \A j \in Days : SavedUp(v, e, j)
    BY DEF BankInv, Savings
  <2>1. CASE ~(v = u /\ e = d)
    <3>1. \A j \in Days : /\ ledger'[v][e][j] = ledger[v][e][j]
                          /\ played'[v][e][j] = played[v][e][j]
      BY <1>3, <1>4, <2>1
    <3> QED BY <2>0, <3>1 DEF Unused, SavedUp, Last
  <2>2. CASE v = u /\ e = d
    <3>1. Last(u, d, k) /\ OnOnce(u)
      BY <1>5, <2>2
    <3>2. /\ row.used = ledger[u][d][k].used
          /\ row.bank <= IF ledger[u][d][k].used > 0 THEN ledger[u][d][k].bank
                                                     ELSE OpeningBank(u, d)
      <4>1. row.used = Row(s).used
        BY <1>2, <3>1 DEF WorksOnLedger, Inside, InTurn
      <4>2. row.bank <= IF Row(s).used > 0 THEN Row(s).bank ELSE OpeningBank(u, d)
        BY <1>2, <3>1 DEF BankInv, DrawsOnBank
      <4> QED BY <4>1, <4>2 DEF Row
    <3>3. /\ \A j \in Days : /\ played[u][d][j] \in Nat
                             /\ ledger[u][d][j].used \in Nat
                             /\ ledger[u][d][j].bank \in Nat
          /\ played[u][d][k] \in Nat
          /\ ledger[u][d][k].bank \in Nat
          /\ OpeningBank(u, d) \in Nat
          /\ Allotted(d, k) \in Nat
          /\ Leftover(d, row) \in Nat
          /\ Leftover(d, Charged(d, row)) \in Nat
      <4>1. \A j \in Days : ledger[u][d][j] \in Rows /\ played[u][d][j] \in Nat
        BY <1>1 DEF TypeOK
      <4>2. OpeningBank(u, d) \in Nat
        BY <1>1, OpeningBankBounded
      <4>3. Allotted(d, k) \in Nat
        BY AllottedGrows
      <4>4. Leftover(d, row) \in Nat /\ Leftover(d, Charged(d, row)) \in Nat
        BY <1>1, <1>6 DEF Leftover
      <4> QED BY <4>1, <4>2, <4>3, <4>4 DEF Rows
    <3>4. played[u][d][k] + row.bank + Leftover(d, row) <= Allotted(d, k)
      <4>1. CASE ledger[u][d][k].used = 0
        <5>1. played[u][d][k] + OpeningBank(u, d) + DailyTurns[d] <= Allotted(d, k)
          BY <1>1, <2>0, <2>2, <3>1, <4>1, OpeningIsSaved
        <5>2. Leftover(d, row) <= DailyTurns[d]
          BY <1>1, <1>6 DEF Leftover
        <5>3. row.bank <= OpeningBank(u, d)
          BY <3>2, <4>1
        <5> QED BY <1>1, <1>6, <3>3, <5>1, <5>2, <5>3, SmallerSum
      <4>2. CASE ledger[u][d][k].used # 0
        <5>1. SavedUp(u, d, k)
          BY <2>0, <2>2
        <5>2. /\ ledger[u][d][k].used > 0
              /\ Leftover(d, row) = Leftover(d, ledger[u][d][k])
          <6>1. ledger[u][d][k].used \in Nat
            BY <3>3
          <6>2. row.used = ledger[u][d][k].used
            BY <3>2
          <6> QED BY <4>2, <6>1, <6>2 DEF Leftover
        <5>3. played[u][d][k] + ledger[u][d][k].bank + Leftover(d, row)
                <= Allotted(d, k)
          BY <3>1, <5>1, <5>2 DEF SavedUp
        <5>4. row.bank <= ledger[u][d][k].bank
          BY <3>2, <5>2
        <5>5. Leftover(d, row) <= Leftover(d, row)
          BY <3>3
        <5>6. /\ played[u][d][k] \in Nat /\ Allotted(d, k) \in Nat
              /\ Leftover(d, row) \in Nat /\ ledger[u][d][k].bank \in Nat
          BY <3>3
        <5> QED BY <1>6, <5>3, <5>4, <5>5, <5>6, SmallerSum
      <4> QED BY <4>1, <4>2
    <3>5. Charged(d, row).bank + Leftover(d, Charged(d, row)) + 1
            <= row.bank + Leftover(d, row)
      BY <1>1, <1>2, ChargePays
    <3>6. /\ ledger'[u][d][k] = Charged(d, row)
          /\ played'[u][d][k] = played[u][d][k] + 1
          /\ played'[u][d][k] + Charged(d, row).bank + Leftover(d, Charged(d, row))
               <= Allotted(d, k)
          /\ played'[u][d][k] <= Allotted(d, k)
      <4>1. ledger'[u][d][k] = Charged(d, row) /\ played'[u][d][k] = played[u][d][k] + 1
        BY <1>1, <1>3, <1>4
      <4>2. played'[u][d][k] \in Nat
        <5>1. played[u][d][k] \in Nat
          BY <3>3
        <5> QED BY <4>1, <5>1
      <4>3. /\ played'[u][d][k] + Charged(d, row).bank + Leftover(d, Charged(d, row))
                 <= Allotted(d, k)
            /\ played'[u][d][k] <= Allotted(d, k)
        <5>1. /\ played[u][d][k] \in Nat /\ Allotted(d, k) \in Nat
              /\ Leftover(d, row) \in Nat /\ Leftover(d, Charged(d, row)) \in Nat
          BY <3>3
        <5> QED BY <1>6, <3>4, <3>5, <4>1, <4>2, <5>1, PaidSum
      <4> QED BY <4>1, <4>3
    <3>7. Unused(u, d)'
      <4>1. ledger'[u][d][k].used # 0
        BY <1>6, <3>6
      <4> QED BY <4>1 DEF Unused
    <3>8. ASSUME NEW j \in Days PROVE SavedUp(u, d, j)'
      <4>1. CASE j < k
        <5>1. played'[u][d][j] = played[u][d][j]
          BY <1>1, <1>4, <4>1
        <5>2. ~Last(u, d, j)'
          <6>1. ledger'[u][d][k].used # 0
            BY <1>6, <3>6
          <6>2. k > j
            BY <1>1, <4>1
          <6> QED BY <6>1, <6>2 DEF Last
        <5>3. played[u][d][j] <= Allotted(d, j)
          BY <2>0, <2>2 DEF SavedUp
        <5> QED BY <5>1, <5>2, <5>3 DEF SavedUp
      <4>2. CASE j >= k
        <5>1. \A i \in Days : i >= k => played'[u][d][i] = played'[u][d][k]
          <6>1. \A i \in Days : i > k => played[u][d][i] = played[u][d][k]
            BY <1>1, <2>0, <2>2, <3>1 DEF SavedUp
          <6>2. \A i \in Days : i >= k => played[u][d][i] = played[u][d][k]
            BY <1>1, <6>1
          <6>3. \A i \in Days : i >= k => played'[u][d][i] = played[u][d][i] + 1
            BY <1>4
          <6>4. k >= k
            BY <1>1
          <6> QED BY <6>2, <6>3, <6>4
        <5>2. played'[u][d][j] = played'[u][d][k]
          BY <4>2, <5>1
        <5>3. Allotted(d, k) <= Allotted(d, j) /\ Allotted(d, j) \in Nat
          BY <1>1, <4>2, AllottedGrows
        <5>4. played'[u][d][j] <= Allotted(d, j)
          <6>1. /\ played'[u][d][k] \in Nat /\ Allotted(d, k) \in Nat
                /\ played'[u][d][k] <= Allotted(d, k)
            <7>1. played[u][d][k] \in Nat /\ Allotted(d, k) \in Nat
              BY <3>3
            <7>2. /\ played'[u][d][k] = played[u][d][k] + 1
                  /\ played'[u][d][k] <= Allotted(d, k)
              BY <3>6
            <7> QED BY <7>1, <7>2
          <6> QED BY <5>2, <5>3, <6>1
        <5>5. \A i \in Days : i > j => played'[u][d][i] = played'[u][d][j]
          BY <1>1, <4>2, <5>1
        <5>6. CASE j = k
          BY <3>6, <5>4, <5>5, <5>6 DEF SavedUp, Leftover
        <5>7. CASE j # k
          <6>1. ledger'[u][d][j] = ledger[u][d][j]
            BY <1>1, <1>3, <5>7
          <6>2. ~(ledger'[u][d][j].used > 0)
            BY <1>1, <3>1, <4>2, <5>7, <6>1 DEF Last
          <6> QED BY <5>4, <5>5, <6>2 DEF SavedUp
        <5> QED BY <5>6, <5>7
      <4> QED BY <1>1, <4>1, <4>2
    <3> QED BY <2>2, <3>7, <3>8
  <2> QED BY <2>1, <2>2
<1> QED BY <1>7, <1>8, <1>9 DEF BankInv

LEMMA BankStep ==
  ASSUME DoorConstants, TypeOK, TypeOK', HasDoor, HasDoor', WorksOnLedger,
         BankInv, [Next]_vars
  PROVE  BankInv'
<1> USE DEF BankInv
<1>1. ASSUME UNCHANGED <<ledger, played>> PROVE Savings'
  BY <1>1 DEF Savings, Unused, SavedUp, Last
<1>2. today \in Nat
  BY DEF TypeOK, Days, DoorConstants
<1>3. ASSUME NEW s \in Sessions, UNCHANGED <<today, ledger, played>>,
             \A t \in Sessions \ {s} : job'[t] = job[t] /\ phase'[t] = phase[t],
             phase'[s] # "menu" => /\ phase[s] # "menu"
                                   /\ job'[s].door = job[s].door
                                   /\ job'[s].day = job[s].day,
             \A d \in Doors :
               (phase'[s] = "charge" /\ job'[s].door = d /\ OnOnce(UserOf[s])) =>
                 job'[s].row.bank <= IF Row(s)'.used > 0
                                       THEN Row(s)'.bank
                                       ELSE OpeningBank(UserOf[s], d)'
      PROVE  BankInv'
  <2>1. DaysInOrder'
    <3>1. \A t \in Sessions : phase'[t] # "menu" => /\ phase[t] # "menu"
                                                    /\ job'[t].door = job[t].door
                                                    /\ job'[t].day = job[t].day
      BY <1>3
    <3>2. today' >= today
      BY <1>2, <1>3
    <3> QED BY <1>3, <3>1, <3>2, SameDays
  <2>2. DrawsOnBank'
    BY <1>3, SameDraws DEF DrawsOnBank
  <2> QED BY <1>1, <1>3, <2>1, <2>2
<1>4. ASSUME NEW s \in Sessions, NEW d \in Doors, Ask(s, d) PROVE BankInv'
  <2>1. /\ \A t \in Sessions \ {s} : job'[t] = job[t] /\ phase'[t] = phase[t]
        /\ phase'[s] = "waiting" /\ job'[s].door = d /\ job'[s].day = today'
        /\ UNCHANGED <<today, ledger, played>>
    BY <1>4 DEF Ask, Goto, TypeOK
  <2>2. DaysInOrder'
    <3>1. \A t \in Sessions \ {s} : phase'[t] # "menu" =>
            phase[t] # "menu" /\ job'[t].door = job[t].door /\ job'[t].day = job[t].day
      BY <2>1
    <3>2. today' >= today
      BY <1>2, <2>1
    <3> QED BY <2>1, <3>1, <3>2, SameDays
  <2>3. DrawsOnBank'
    BY <2>1, SameDraws DEF DrawsOnBank
  <2> QED BY <1>1, <2>1, <2>2, <2>3
<1>5. ASSUME NEW s \in Sessions, Acquire(s) PROVE BankInv'
  <2>1. /\ \A t \in Sessions \ {s} : job'[t] = job[t] /\ phase'[t] = phase[t]
        /\ phase[s] = "waiting" /\ phase'[s] = "today" /\ job'[s] = job[s]
        /\ UNCHANGED <<today, ledger, played>>
    BY <1>5 DEF Acquire, Goto, TypeOK
  <2>2. phase'[s] # "menu" => /\ phase[s] # "menu"
                              /\ job'[s].door = job[s].door
                              /\ job'[s].day = job[s].day
    BY <2>1
  <2>3. phase'[s] # "charge"
    BY <2>1
  <2> QED BY <1>3, <2>1, <2>2, <2>3
<1>6. ASSUME NEW s \in Sessions, ReadToday(s) PROVE BankInv'
  <2>1. Row(s) \in Rows
    <3>1. UserOf[s] \in Users /\ job[s].door \in Doors
      BY <1>6 DEF ReadToday, HasDoor, DoorConstants
    <3>2. job[s].day \in Days
      BY BankTyped
    <3> QED BY <3>1, <3>2 DEF Row, TypeOK
  <2>2. /\ \A t \in Sessions : job'[t].door = job[t].door /\ job'[t].day = job[t].day
        /\ \A t \in Sessions \ {s} : job'[t] = job[t]
        /\ job'[s].row = Row(s)
    BY <1>6, <2>1, JobWithRow DEF ReadToday, TypeOK, Jobs
  <2>3. /\ \A t \in Sessions \ {s} : phase'[t] = phase[t]
        /\ phase[s] = "today"
        /\ phase'[s] = IF Row(s).used = 0 THEN "latest" ELSE "charge"
        /\ UNCHANGED <<today, ledger, played>>
    BY <1>6 DEF ReadToday, Goto, TypeOK
  <2>4. Row(s)' = Row(s)
    BY <2>2, <2>3 DEF Row
  <2>5. Row(s).used \in Nat /\ Row(s).bank \in Nat
    BY <2>1 DEF Rows
  <2>6. phase'[s] = "charge" => /\ Row(s)'.used > 0
                                /\ job'[s].row.bank <= Row(s)'.bank
    BY <2>2, <2>3, <2>4, <2>5
  <2> QED BY <1>3, <2>2, <2>3, <2>6
<1>7. ASSUME NEW s \in Sessions, ReadLatest(s) PROVE BankInv'
  <2>1. UserOf[s] \in Users /\ job[s].door \in Doors
    BY <1>7 DEF ReadLatest, HasDoor, DoorConstants
  <2>2. OpeningBank(UserOf[s], job[s].door) \in Nat
    BY <2>1, OpeningBankBounded
  <2>3. PICK bank \in {OpeningBank(UserOf[s], job[s].door)}
                       \cup (IF MayFail THEN {0} ELSE {}) :
          job' = [job EXCEPT ![s].row = [used |-> 0, bank |-> bank]]
    BY <1>7 DEF ReadLatest
  <2>4. bank \in Nat /\ bank <= OpeningBank(UserOf[s], job[s].door)
    BY <2>2
  <2>5. [used |-> 0, bank |-> bank] \in Rows
    BY <2>4 DEF Rows
  <2>6. /\ \A t \in Sessions : job'[t].door = job[t].door /\ job'[t].day = job[t].day
        /\ \A t \in Sessions \ {s} : job'[t] = job[t]
        /\ job'[s].row = [used |-> 0, bank |-> bank]
    BY <2>3, <2>5, JobWithRow DEF TypeOK, Jobs
  <2>7. /\ \A t \in Sessions \ {s} : phase'[t] = phase[t]
        /\ phase[s] = "latest" /\ phase'[s] = "charge"
        /\ UNCHANGED <<today, ledger, played>>
    BY <1>7 DEF ReadLatest, Goto, TypeOK
  <2>8. Row(s)' = Row(s)
    BY <2>6, <2>7 DEF Row
  <2>9. OnOnce(UserOf[s]) => Row(s).used = 0
    BY <2>7 DEF WorksOnLedger, Inside, InTurn
  <2>10. \A d \in Doors : OpeningBank(UserOf[s], d)' = OpeningBank(UserOf[s], d)
    BY <2>1, <2>7, SameOpening
  <2>11. ASSUME NEW d \in Doors, job'[s].door = d, OnOnce(UserOf[s])
         PROVE  job'[s].row.bank <= IF Row(s)'.used > 0
                                      THEN Row(s)'.bank
                                      ELSE OpeningBank(UserOf[s], d)'
    BY <2>4, <2>6, <2>8, <2>9, <2>10, <2>11
  <2> QED BY <1>3, <2>6, <2>7, <2>11
<1>8. ASSUME NEW s \in Sessions, Refuse(s) \/ Fail(s) \/ Leave(s) PROVE BankInv'
  <2>1. Return(s) /\ UNCHANGED <<today, ledger, played>>
    BY <1>8 DEF Refuse, Fail, Leave
  <2>2. /\ \A t \in Sessions \ {s} : job'[t] = job[t] /\ phase'[t] = phase[t]
        /\ phase'[s] = "menu"
    BY <2>1 DEF Return, Goto, TypeOK
  <2> QED BY <1>3, <2>1, <2>2
<1>9. ASSUME NEW s \in Sessions, Charge(s) PROVE BankInv'
  <2>1. /\ UserOf[s] \in Users /\ job[s].door \in Doors
        /\ job[s].day \in Days /\ job[s].row \in Rows
    BY <1>9 DEF DoorConstants, TypeOK, HasDoor, Charge
  <2> QED BY <1>9, <2>1, BankChargeStep
<1>10. CASE Midnight \/ UNCHANGED vars
  <2>1. /\ UNCHANGED <<phase, job, ledger, played>>
        /\ today' = today \/ today' = today + 1
    BY <1>10 DEF Midnight, vars
  <2>2. DaysInOrder'
    <3>1. today' >= today
      BY <1>2, <2>1
    <3> QED BY <2>1, <3>1, SameDays
  <2>3. DrawsOnBank'
    <3>1. \A s \in Sessions : UserOf[s] \in Users /\ Row(s)' = Row(s)
      BY <2>1 DEF Row, DoorConstants
    <3>2. \A u \in Users, d \in Doors : OpeningBank(u, d)' = OpeningBank(u, d)
      BY <2>1, SameOpening
    <3> QED BY <2>1, <3>1, <3>2 DEF DrawsOnBank
  <2> QED BY <1>1, <2>1, <2>2, <2>3
<1> QED BY <1>4, <1>5, <1>6, <1>7, <1>8, <1>9, <1>10 DEF Next

LEMMA BankInit == ASSUME DoorConstants, Init PROVE BankInv
<1>1. DaysInOrder
  BY DEF Init, DaysInOrder, NoRow
<1>2. \A u \in Users, d \in Doors, k \in Days :
        ledger[u][d][k].used = 0 /\ played[u][d][k] = 0
  BY DEF Init, NoRow
<1>3. \A d \in Doors, k \in Days : 0 <= Allotted(d, k)
  <2>1. \A d \in Doors, k \in Days : Allotted(d, k) \in Nat
    BY AllottedGrows
  <2> QED BY <2>1
<1>4. Savings
  BY <1>2, <1>3 DEF Savings, Unused, SavedUp
<1>5. DrawsOnBank
  BY DEF Init, DrawsOnBank
<1> QED BY <1>1, <1>4, <1>5 DEF BankInv

-----------------------------------------------------------------------------
(* The theorems.                                                           *)

DoorInv == TypeOK /\ HasDoor /\ Serial /\ WorksOnLedger /\ Book /\ BankInv

LEMMA DoorInvariant == ASSUME DoorConstants PROVE Spec => []DoorInv
<1>1. Init => DoorInv
  <2> SUFFICES ASSUME Init PROVE DoorInv
    OBVIOUS
  <2>1. TypeOK
    BY TypeInit
  <2>2. HasDoor /\ Serial /\ WorksOnLedger
    BY DEF Init, HasDoor, Serial, WorksOnLedger, Inside
  <2>3. Book
    BY DEF Init, Book, NoRow, DoorConstants
  <2>4. BankInv
    BY BankInit
  <2> QED BY <2>1, <2>2, <2>3, <2>4 DEF DoorInv
<1>2. DoorInv /\ [Next]_vars => DoorInv'
  BY TypeStep, LockStep, LedgerStep, BankStep DEF DoorInv
<1> QED BY <1>1, <1>2, PTL DEF Spec

(* The sessions, their jobs and the ledger keep their types: no row goes   *)
(* negative, whatever is charged to it.                                    *)
THEOREM LedgerTyped == Spec => []TypeOK
<1>1. DoorInv => TypeOK
  BY DEF DoorInv
<1> QED BY <1>1, DoorConstants, DoorInvariant, PTL

(* consumeTurn forgets no launch: under its lock with any number of        *)
(* sessions of the account, without one while the account is on once.      *)
THEOREM NoLaunchForgotten == Spec => []LaunchesAreCharged
<1>1. DoorInv => LaunchesAreCharged
  BY DEF DoorInv, Book, LaunchesAreCharged
<1> QED BY <1>1, DoorConstants, DoorInvariant, PTL

(* No day has more launches than the daily turns and a full time bank,     *)
(* behind a lock or for an account that is on once.                        *)
THEOREM LaunchesCapped == Spec => []DailyCap
<1>1. DoorInv => DailyCap
  BY DEF DoorInv, Book, DailyCap
<1> QED BY <1>1, DoorConstants, DoorInvariant, PTL

(* The time bank only saves: an account that is on once never gets more    *)
(* launches than the daily turns of the days there have been, however its  *)
(* bank is filled and drawn on and whichever repository calls fail.        *)
THEOREM BankNeverLends == Spec => []BankOnlySaves
<1>1. DoorInv => BankOnlySaves
  <2>1. BankInv => \A u \in Users, d \in Doors, k \in Days :
                     OnOnce(u) => played[u][d][k] <= Allotted(d, k)
    BY DEF BankInv, Savings, SavedUp
  <2> QED BY <2>1 DEF DoorInv, BankOnlySaves, Allotted
<1> QED BY <1>1, DoorConstants, DoorInvariant, PTL

=============================================================================
