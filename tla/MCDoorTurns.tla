---------------------------- MODULE MCDoorTurns ----------------------------
(* TLC instances of DoorTurns: alice is on twice, bob once; a quest door   *)
(* with a lock per user and a time bank, a duel door for one caller at a   *)
(* time, without a bank, and a shared realm with one.  What an account may *)
(* enter is decided before the turns: alice's role opens the quest, bob's  *)
(* the realm, and both may duel.                                           *)
EXTENDS DoorTurns

CONSTANTS alice, bob, a1, a2, b1, quest, duel, realm

MCUserOf == [s \in Sessions |-> IF s = b1 THEN bob ELSE alice]

MCMode == [d \in Doors |-> CASE d = quest -> "per_user"
                             [] d = duel  -> "exclusive"
                             [] d = realm -> "shared"]

MCDailyTurns == [d \in Doors |-> IF d = duel THEN 1 ELSE 2]

MCTimeBankMax == [d \in Doors |-> CASE d = quest -> 2
                                    [] d = duel  -> 0
                                    [] d = realm -> 1]

Closed(s) == IF UserOf[s] = alice THEN realm ELSE quest

MCSpec == Init /\ [][Next /\ \A s \in Sessions : job'[s].door # Closed(s)]_vars
=============================================================================
