------------------------------ MODULE DoorTurns ------------------------------
(***************************************************************************)
(* Daily turns and the time bank of the door runner: Launch, consumeTurn   *)
(* and acquireConcurrencyLock of internal/doors/doors.go, over the turn    *)
(* ledger of internal/repository/door_repository.go.                       *)
(*                                                                         *)
(* A launch takes the time of day first, then waits for the lock its       *)
(* door's concurrency mode asks for, reads the ledger, and writes it back; *)
(* it keeps the lock until the door is left.  Each repository call is one  *)
(* step and may fail.  The doors here are those with daily turns: the      *)
(* others charge nothing.  The checks of role, terminal size and enabling  *)
(* come before all this and change nothing; a door's turn rules do not     *)
(* change while it is used.                                                *)
(***************************************************************************)
EXTENDS Integers

CONSTANTS
  Sessions,     \* callers that launch doors, one door at a time
  UserOf,       \* the account of each: one may be on several times
  Users,
  Doors,
  Mode,         \* concurrency_mode: "exclusive", "shared" or "per_user"
  DailyTurns,   \* daily_turns of each door
  TimeBankMax,  \* time_bank_max of each door
  NoDoor,       \* the door of a session that is not in a Launch
  MayFail,      \* whether a repository call can fail
  MaxDays,      \* bound of the model: days
  MaxLaunches   \* bound of the model: launches of a door by a user in a day

ASSUME DoorConstants ==
  /\ UserOf \in [Sessions -> Users]
  /\ Mode \in [Doors -> {"exclusive", "shared", "per_user"}]
  /\ DailyTurns \in [Doors -> Nat \ {0}]
  /\ TimeBankMax \in [Doors -> Nat]
  /\ NoDoor \notin Doors
  /\ MayFail \in BOOLEAN
  /\ MaxDays \in Nat \ {0}
  /\ MaxLaunches \in Nat

Days == 1..MaxDays

VARIABLES
  today,
  phase,    \* where each session is in its Launch
  job,      \* the door it launches, the day it asked, the row it works on
  ledger,   \* ledger[u][d][k]: the row of day k; used is 0 without a row
  launches, \* history variable: launches charged to day k
  played    \* history variable: launches charged to day k or before

vars == <<today, phase, job, ledger, launches, played>>

NoRow == [used |-> 0, bank |-> 0]
Out   == [door |-> NoDoor, day |-> 1, row |-> NoRow]

Init ==
  /\ today    = 1
  /\ phase    = [s \in Sessions |-> "menu"]
  /\ job      = [s \in Sessions |-> Out]
  /\ ledger   = [u \in Users |-> [d \in Doors |-> [k \in Days |-> NoRow]]]
  /\ launches = [u \in Users |-> [d \in Doors |-> [k \in Days |-> 0]]]
  /\ played   = launches

Row(s)     == ledger[UserOf[s]][job[s].door][job[s].day]
Goto(s, p) == phase' = [phase EXCEPT ![s] = p]

(* The end of Launch: the lock is released, the locals are gone. *)
Return(s) ==
  /\ Goto(s, "menu")
  /\ job' = [job EXCEPT ![s] = Out]

-----------------------------------------------------------------------------
(* The lock.                                                               *)

Inside == {"today", "latest", "charge", "playing"}

(* All exclusive doors share one lock; a per_user door has one for each of *)
(* its users; a shared door has none.                                      *)
Excludes(s, t) ==
  LET d == job[s].door
      e == job[t].door
  IN  \/ Mode[d] = "exclusive" /\ Mode[e] = "exclusive"
      \/ Mode[d] = "per_user" /\ d = e /\ UserOf[s] = UserOf[t]

(* Mutant: the day is rounded up. *)
AskNextDay(s, d) ==
  /\ phase[s] = "menu"
  /\ job' = [job EXCEPT ![s] = [door |-> d, day |-> today + 1, row |-> NoRow]]
  /\ Goto(s, "waiting")
  /\ UNCHANGED <<today, ledger, launches, played>>

(* Launch up to the lock: the day is that of doorCtx.Now. *)
Ask(s, d) ==
  /\ phase[s] = "menu"
  /\ job' = [job EXCEPT ![s] = [door |-> d, day |-> today, row |-> NoRow]]
  /\ Goto(s, "waiting")
  /\ UNCHANGED <<today, ledger, launches, played>>

(* Mutant: the lock only covers the same session. *)
AcquireUnchecked(s) ==
  /\ phase[s] = "waiting"
  /\ Goto(s, "today")
  /\ UNCHANGED <<today, job, ledger, launches, played>>

Acquire(s) ==
  /\ phase[s] = "waiting"
  /\ \A t \in Sessions \ {s} : phase[t] \in Inside => ~Excludes(s, t)
  /\ Goto(s, "today")
  /\ UNCHANGED <<today, job, ledger, launches, played>>

-----------------------------------------------------------------------------
(* consumeTurn.                                                            *)

(* GetTurn for the day the launch was asked on. *)
ReadToday(s) ==
  /\ phase[s] = "today"
  /\ job' = [job EXCEPT ![s].row = Row(s)]
  /\ Goto(s, IF Row(s).used = 0 THEN "latest" ELSE "charge")
  /\ UNCHANGED <<today, ledger, launches, played>>

Smaller(a, b) == IF a < b THEN a ELSE b

(* Mutant: the whole daily allotment is carried, used or not. *)
CarryAll(d, row) == Smaller(row.bank + DailyTurns[d], TimeBankMax[d])

(* What a row leaves for a later day. *)
Carry(d, row) ==
  LET leftover == IF row.used < DailyTurns[d] THEN DailyTurns[d] - row.used
                                              ELSE 0
  IN  Smaller(row.bank + leftover, TimeBankMax[d])

RowDays(u, d) == {k \in Days : ledger[u][d][k].used > 0}

LatestDay(u, d) == CHOOSE k \in RowDays(u, d) : \A j \in RowDays(u, d) : j <= k

(* The bank a new day starts with: from the latest row, if there is one. *)
OpeningBank(u, d) ==
  IF RowDays(u, d) = {} THEN 0 ELSE Carry(d, ledger[u][d][LatestDay(u, d)])

(* GetLatestTurn; a failure of it is taken for no row. *)
ReadLatest(s) ==
  /\ phase[s] = "latest"
  /\ \E bank \in {OpeningBank(UserOf[s], job[s].door)}
                   \cup (IF MayFail THEN {0} ELSE {}) :
       job' = [job EXCEPT ![s].row = [used |-> 0, bank |-> bank]]
  /\ Goto(s, "charge")
  /\ UNCHANGED <<today, ledger, launches, played>>

Remaining(d, row) == DailyTurns[d] + row.bank - row.used

(* Mutant: the last turn can be used twice. *)
MayPlayOnceMore(s) == Remaining(job[s].door, job[s].row) >= 0

MayPlay(s) == Remaining(job[s].door, job[s].row) > 0

Refuse(s) ==
  /\ phase[s] = "charge"
  /\ ~MayPlay(s)
  /\ Return(s)
  /\ UNCHANGED <<today, ledger, launches, played>>

(* The turn is counted, and beyond the daily ones it also comes out of the *)
(* bank: such a launch costs two of what Remaining counts.                 *)
Charged(d, row) ==
  LET used == row.used + 1
  IN  [used |-> used,
       bank |-> IF used > DailyTurns[d] /\ row.bank > 0 THEN row.bank - 1
                                                        ELSE row.bank]

(* UpsertTurn; the door is played when it succeeds. *)
Charge(s) ==
  LET u == UserOf[s]
      d == job[s].door
      k == job[s].day
  IN
  /\ phase[s] = "charge"
  /\ MayPlay(s)
  /\ launches[u][d][k] < MaxLaunches
  /\ ledger'   = [ledger EXCEPT ![u][d][k] = Charged(d, job[s].row)]
  /\ launches' = [launches EXCEPT ![u][d][k] = @ + 1]
  /\ played'   = [played EXCEPT ![u][d] = [j \in Days |->
                     IF j < k THEN played[u][d][j] ELSE played[u][d][j] + 1]]
  /\ Goto(s, "playing")
  /\ job' = [job EXCEPT ![s].row = NoRow]
  /\ UNCHANGED today

(* GetTurn or UpsertTurn fails: the launch is refused. *)
Fail(s) ==
  /\ MayFail
  /\ phase[s] \in {"today", "charge"}
  /\ Return(s)
  /\ UNCHANGED <<today, ledger, launches, played>>

(* The door is left, or its time is up: the lock is released. *)
Leave(s) ==
  /\ phase[s] = "playing"
  /\ Return(s)
  /\ UNCHANGED <<today, ledger, launches, played>>

Midnight ==
  /\ today < MaxDays
  /\ today' = today + 1
  /\ UNCHANGED <<phase, job, ledger, launches, played>>

-----------------------------------------------------------------------------
Next ==
  \/ \E s \in Sessions :
       \/ \E d \in Doors : Ask(s, d)
       \/ Acquire(s) \/ ReadToday(s) \/ ReadLatest(s)
       \/ Refuse(s) \/ Charge(s) \/ Fail(s) \/ Leave(s)
  \/ Midnight

Spec == Init /\ [][Next]_vars

-----------------------------------------------------------------------------
(* Properties.                                                             *)

Rows == [used : Nat, bank : Nat]

(* Type invariant of the sessions and the ledger. *)
TypeOK ==
  /\ today    \in Days
  /\ phase    \in [Sessions -> {"menu", "waiting"} \cup Inside]
  /\ job      \in [Sessions -> [door : Doors \cup {NoDoor}, day : Days, row : Rows]]
  /\ ledger   \in [Users -> [Doors -> [Days -> Rows]]]
  /\ launches \in [Users -> [Doors -> [Days -> Nat]]]
  /\ played   \in [Users -> [Doors -> [Days -> Nat]]]

Locked(d) == Mode[d] # "shared"

OnOnce(u) ==
  \A s, t \in Sessions : (UserOf[s] = u /\ UserOf[t] = u) => s = t

(* No two launches of the account and the door overlap: the door's lock    *)
(* sees to it, or the account is on only once, which is all that keeps the *)
(* turns of a shared door in order.                                        *)
InTurn(u, d) == Locked(d) \/ OnOnce(u)

(* No launch is forgotten: the ledger counts every launch of the day,      *)
(* though it is read and written back in separate calls, and an account    *)
(* may be on several times where the door has a lock.                      *)
LaunchesAreCharged ==
  \A u \in Users, d \in Doors :
    InTurn(u, d) => \A k \in Days : ledger[u][d][k].used = launches[u][d][k]

(* No day has more launches than the daily turns and a full time bank, and *)
(* the bank is never over its maximum.                                     *)
DailyCap ==
  \A u \in Users, d \in Doors :
    InTurn(u, d) =>
      \A k \in Days : /\ launches[u][d][k] <= DailyTurns[d] + TimeBankMax[d]
                       /\ ledger[u][d][k].bank <= TimeBankMax[d]

(* The time bank only saves: over the days since the first, an account     *)
(* that is on once at a time never gets more launches than the daily turns *)
(* of those days, shared doors included.  (An account that is on twice     *)
(* can: a launch that waits for the lock past midnight is charged to a day *)
(* whose unused turns were already carried over.)                          *)
BankOnlySaves ==
  \A u \in Users :
    OnOnce(u) => \A d \in Doors, k \in Days :
                   played[u][d][k] <= k * DailyTurns[d]

(* TurnsRemaining: what an account is told it has left today. *)
TurnsLeft(u, d) ==
  IF ledger[u][d][today].used = 0
    THEN DailyTurns[d] + OpeningBank(u, d)
    ELSE LET left == Remaining(d, ledger[u][d][today])
         IN  IF left < 0 THEN 0 ELSE left

(* Each launch consumes one turn: when a session that asked today is let   *)
(* into the door, its account has one turn less.                           *)
EachLaunchTakesOneTurn ==
  [][\A u \in Users, d \in Doors :
       launches'[u][d][today] > launches[u][d][today]
         => TurnsLeft(u, d)' = TurnsLeft(u, d) - 1]_vars

=============================================================================
