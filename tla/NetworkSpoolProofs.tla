------------------------- MODULE NetworkSpoolProofs -------------------------
(***************************************************************************)
(* Proofs about NetworkSpool: no message of a processed packet is lost,    *)
(* and none is stored twice without a cause, for any files, rows, number   *)
(* of runs and number of faults.                                           *)
(***************************************************************************)
EXTENDS NetworkSpool, TLAPS

RunStates == [dirs : SUBSET Dirs, files : SUBSET Files, open : Files \cup {NoFile},
              row : Nat \ {0}, byHand : BOOLEAN, defaults : BOOLEAN]

FileStates == {"away", "partial", "inbound", "processed"}

RowsOf(f) == 1..Len(Rows[f])

Typed ==
  /\ where    \in [Files -> FileStates]
  /\ DOMAIN stored = Files
  /\ stored = [f \in Files |-> stored[f]]
  /\ \A f \in Files : stored[f] \in [RowsOf(f) -> 0..2]
  /\ run      \in [Runs -> RunStates]
  /\ repeated \subseteq Files

(* The rows of f before row n that must be stored are.                     *)
Passed(f, n) ==
  \A r \in RowsOf(f) : r < n /\ Rows[f][r] # "skip" => stored[f][r] > 0

PutAway == \A f \in Files : where[f] = "processed" => Passed(f, Len(Rows[f]) + 1)

UpToRow == \A i \in Runs : run[i].open \in Files => Passed(run[i].open, run[i].row)

(* No row after r stops an import.                                         *)
Clear(f, r) ==
  \A s \in RowsOf(f) : s > r => Rows[f][s] \notin {"default", "refused"}

(* Without a cause, an open file has one run on it, the queue's, and is    *)
(* still inbound.                                                          *)
Alone ==
  \A f \in Files \ repeated : \A i \in Runs : run[i].open = f =>
    /\ ~run[i].byHand
    /\ where[f] = "inbound"
    /\ \A j \in Runs : run[j].open = f => j = i

Behind(f, r) == \E i \in Runs : run[i].open = f /\ run[i].row > r

(* Without a cause, a row is stored once, and only if its packet is put    *)
(* away or the one run on it has got past the row.                         *)
StoredOnce ==
  \A f \in Files \ repeated : \A r \in RowsOf(f) : Clear(f, r) =>
    /\ stored[f][r] <= 1
    /\ stored[f][r] > 0 => where[f] = "processed" \/ Behind(f, r)

(* A hand import has its file open.                                        *)
ByHandOpen == \A i \in Runs : run[i].open = NoFile => ~run[i].byHand

SpoolInv == Typed /\ ByHandOpen /\ PutAway /\ UpToRow /\ Alone /\ StoredOnce

-----------------------------------------------------------------------------
(* An idle process is in a run state, with no file open.                   *)
LEMMA IdleTyped ==
  Idle \in RunStates /\ Idle.open = NoFile /\ ~Idle.byHand /\ NoFile \notin Files
  BY SpoolConstants DEF Idle, RunStates

(* A row is a kind, and the number of rows a natural number.               *)
LEMMA RowsTyped ==
  ASSUME NEW f \in Files
  PROVE  /\ Len(Rows[f]) \in Nat
         /\ \A r \in RowsOf(f) : Rows[f][r] \in Kinds
  BY SpoolConstants DEF RowsOf

(* The invariant holds at first.                                           *)
LEMMA InitSpool == Init => SpoolInv
<1>. SUFFICES ASSUME Init PROVE SpoolInv
  OBVIOUS
<1>1. Typed
  BY IdleTyped DEF Init, Typed, FileStates, RowsOf
<1>2. PutAway /\ ByHandOpen
  BY IdleTyped DEF Init, PutAway, ByHandOpen
<1>3. UpToRow
  BY IdleTyped DEF Init, UpToRow
<1>4. Alone
  BY IdleTyped DEF Init, Alone
<1>5. StoredOnce
  BY DEF Init, StoredOnce, RowsOf
<1>. QED
  BY <1>1, <1>2, <1>3, <1>4, <1>5 DEF SpoolInv

-----------------------------------------------------------------------------
(* What a step does to the file it is about.  These are the ways in which  *)
(* the actions of the module touch the invariant.                          *)

(* A run i ends or drops its file, or never had one, and nothing else      *)
(* changes but perhaps the cause.                                          *)
LEMMA LetGo ==
  ASSUME SpoolInv, NEW i \in Runs, NEW s \in RunStates, s.open = NoFile, ~s.byHand,
         run' = [run EXCEPT ![i] = s],
         UNCHANGED <<where, stored>>,
         repeated \subseteq repeated', repeated' \subseteq Files,
         run[i].open \in Files \ repeated' =>
           \A r \in RowsOf(run[i].open) : Clear(run[i].open, r) => run[i].row <= r
  PROVE  SpoolInv'
<1>. USE DEF SpoolInv
<1>0. NoFile \notin Files /\ run'[i] = s /\ \A j \in Runs \ {i} : run'[j] = run[j]
  BY IdleTyped DEF Typed
<1>1. Typed'
  BY DEF Typed
<1>2. PutAway' /\ ByHandOpen'
  BY <1>0 DEF PutAway, Passed, ByHandOpen
<1>3. UpToRow'
  BY <1>0 DEF UpToRow, Passed
<1>4. Alone'
  BY <1>0 DEF Alone
<1>5. StoredOnce'
  <2>. SUFFICES ASSUME NEW f \in Files \ repeated', NEW r \in RowsOf(f), Clear(f, r),
                       stored[f][r] > 0, where[f] # "processed"
                PROVE  Behind(f, r)'
    BY DEF StoredOnce, Clear
  <2>1. PICK j \in Runs : run[j].open = f /\ run[j].row > r
    BY DEF StoredOnce, Behind
  <2>2. r \in Nat /\ run[i].row \in Nat
    BY DEF Typed, RunStates, RowsOf
  <2>3. j # i
    BY <2>1, <2>2
  <2>. QED
    BY <1>0, <2>1, <2>3 DEF Behind
<1>. QED
  BY <1>1, <1>2, <1>3, <1>4, <1>5

(* A run with no file open takes one that nobody shares without a cause.   *)
LEMMA TakesUp ==
  ASSUME SpoolInv, NEW i \in Runs, NEW g \in Files, NEW s \in RunStates,
         run[i].open = NoFile, s.open = g, s.row = 1, where[g] = "inbound",
         run' = [run EXCEPT ![i] = s],
         UNCHANGED <<where, stored>>,
         repeated \subseteq repeated', repeated' \subseteq Files,
         g \notin repeated' => ~s.byHand /\ ~Elsewhere(i, g)
  PROVE  SpoolInv'
<1>. USE DEF SpoolInv
<1>0. NoFile \notin Files /\ run'[i] = s /\ \A j \in Runs \ {i} : run'[j] = run[j]
  BY IdleTyped DEF Typed
<1>1. Typed'
  BY DEF Typed
<1>2. PutAway' /\ ByHandOpen'
  BY <1>0 DEF PutAway, Passed, ByHandOpen
<1>3. UpToRow'
  <2>1. Passed(g, 1)
    BY RowsTyped DEF Passed, RowsOf
  <2>. QED
    BY <1>0, <2>1 DEF UpToRow, Passed
<1>4. Alone'
  BY <1>0 DEF Alone, Elsewhere
<1>5. StoredOnce'
  BY <1>0 DEF StoredOnce, Behind, Clear
<1>. QED
  BY <1>1, <1>2, <1>3, <1>4, <1>5

(* A run gets to its next row, having stored the row it was at or passed   *)
(* over one that need not be stored.                                       *)
LEMMA GetsOn ==
  ASSUME SpoolInv, NEW i \in Runs, NEW g \in Files, NEW k \in RowsOf(g),
         run[i].open = g, run[i].row = k, NextRow(i),
         \/ UNCHANGED stored /\ Rows[g][k] = "skip"
         \/ stored' = [stored EXCEPT ![g][k] = IF @ = 0 THEN 1 ELSE 2],
         UNCHANGED <<where, repeated>>
  PROVE  SpoolInv'
<1>. USE DEF SpoolInv
<1>0. /\ k \in Nat \ {0}
      /\ run'[i] = [run[i] EXCEPT !.row = k + 1]
      /\ run'[i].open = g /\ run'[i].row = k + 1 /\ run'[i].byHand = run[i].byHand
      /\ \A j \in Runs \ {i} : run'[j] = run[j]
      /\ \A j \in Runs : run'[j].open = run[j].open /\ run'[j].byHand = run[j].byHand
  BY DEF Typed, NextRow, RowsOf, RunStates
<1>1. /\ DOMAIN stored' = Files
      /\ stored' = [f \in Files |-> stored'[f]]
      /\ \A f \in Files : stored'[f] \in [RowsOf(f) -> 0..2]
      /\ \A f \in Files : \A r \in RowsOf(f) : <<f, r>> # <<g, k>> => stored'[f][r] = stored[f][r]
      /\ Rows[g][k] # "skip" => stored'[g][k] > 0
  BY DEF Typed
<1>2. Typed'
  <2>1. [run[i] EXCEPT !.row = k + 1] \in RunStates
    <3>1. run[i] \in RunStates /\ k + 1 \in Nat \ {0}
      BY <1>0 DEF Typed
    <3>. QED
      BY <3>1 DEF RunStates
  <2>2. run' \in [Runs -> RunStates]
    BY <1>0, <2>1 DEF Typed, NextRow
  <2>. QED
    BY <1>1, <2>2 DEF Typed
<1>3. \A f \in Files : \A r \in RowsOf(f) : stored[f][r] > 0 => stored'[f][r] > 0
  BY DEF Typed
<1>4. PutAway' /\ ByHandOpen'
  BY <1>0, <1>3 DEF PutAway, Passed, ByHandOpen
<1>5. UpToRow'
  <2>. SUFFICES ASSUME NEW j \in Runs, run[j].open \in Files,
                       NEW r \in RowsOf(run[j].open), r < run'[j].row,
                       Rows[run[j].open][r] # "skip"
                PROVE  stored'[run[j].open][r] > 0
    BY <1>0 DEF UpToRow, Passed
  <2>1. CASE r < run[j].row
    BY <1>3, <2>1 DEF UpToRow, Passed
  <2>2. CASE ~(r < run[j].row)
    <3>1. r \in Nat /\ run[j].row \in Nat
      BY DEF RowsOf, Typed, RunStates
    <3>2. j = i
      BY <1>0, <2>2
    <3>3. r < k + 1 /\ ~(r < k)
      BY <1>0, <2>2, <3>2
    <3>4. r = k
      BY <1>0, <3>1, <3>3
    <3>. QED
      BY <1>1, <3>2, <3>4
  <2>. QED
    BY <2>1, <2>2
<1>6. Alone'
  BY <1>0 DEF Alone
<1>7. StoredOnce'
  <2>. SUFFICES ASSUME NEW f \in Files \ repeated, NEW r \in RowsOf(f), Clear(f, r)
                PROVE  /\ stored'[f][r] <= 1
                       /\ stored'[f][r] > 0 => where[f] = "processed" \/ Behind(f, r)'
    BY DEF StoredOnce, Clear
  <2>1. Behind(f, r) => Behind(f, r)'
    <3>. SUFFICES ASSUME NEW j \in Runs, run[j].open = f, run[j].row > r
                  PROVE  run'[j].open = f /\ run'[j].row > r
      BY DEF Behind
    <3>1. r \in Nat /\ run[i].row = k
      BY DEF RowsOf
    <3>2. CASE j = i
      <4>1. f = g /\ k > r
        BY <3>1, <3>2
      <4>2. k + 1 > r
        BY <1>0, <3>1, <4>1
      <4>. QED
        BY <1>0, <3>2, <4>1, <4>2
    <3>3. CASE j # i
      BY <1>0, <3>3
    <3>. QED
      BY <3>2, <3>3
  <2>2. CASE <<f, r>> # <<g, k>>
    BY <1>1, <2>1, <2>2 DEF StoredOnce
  <2>3. CASE f = g /\ r = k
    <3>1. stored[g][k] = 0
      <4>1. where[g] = "inbound" /\ \A j \in Runs : run[j].open = g => j = i
        BY <2>3 DEF Alone
      <4>2. ~Behind(g, k)
        BY <4>1, <1>0 DEF Behind
      <4>. QED
        BY <2>3, <4>1, <4>2 DEF StoredOnce, Typed
    <3>2. stored'[g][k] <= 1
      BY <3>1 DEF Typed
    <3>3. run'[i].open = g /\ run'[i].row > k
      BY <1>0
    <3>4. Behind(g, k)'
      BY <3>3 DEF Behind
    <3>. QED
      BY <2>3, <3>2, <3>4
  <2>. QED
    BY <2>2, <2>3
<1>. QED
  BY <1>2, <1>4, <1>5, <1>6, <1>7

(* A run puts its packet away, or finds that it is gone.                   *)
LEMMA PutsAway ==
  ASSUME SpoolInv, NEW i \in Runs, NEW g \in Files,
         run[i].open = g, ~run[i].byHand, run[i].row > Len(Rows[g]), where[g] = "inbound",
         where' = [where EXCEPT ![g] = "processed"], Closed(i),
         UNCHANGED <<stored, repeated>>
  PROVE  SpoolInv'
<1>. USE DEF SpoolInv
<1>0. /\ NoFile \notin Files
      /\ run'[i].open = NoFile
      /\ \A j \in Runs \ {i} : run'[j] = run[j]
      /\ \A f \in Files \ {g} : where'[f] = where[f]
      /\ where'[g] = "processed"
      /\ Len(Rows[g]) \in Nat /\ run[i].row \in Nat
  BY IdleTyped, RowsTyped DEF Typed, Closed, RunStates
<1>1. Typed'
  <2>1. [[run[i] EXCEPT !.open = NoFile] EXCEPT !.row = 1] \in RunStates
    <3>. DEFINE x == [run[i] EXCEPT !.open = NoFile]
    <3>0. run[i] \in RunStates
      BY DEF Typed
    <3>1. x \in RunStates
      BY <3>0 DEF RunStates
    <3>. HIDE DEF x
    <3>2. [x EXCEPT !.row = 1] \in RunStates
      BY <3>1 DEF RunStates
    <3>. QED
      BY <3>2 DEF x
  <2>2. run' \in [Runs -> RunStates]
    BY <2>1 DEF Typed, Closed
  <2>3. where' \in [Files -> FileStates]
    BY DEF Typed, FileStates
  <2>. QED
    BY <2>2, <2>3 DEF Typed
<1>2. PutAway'
  <2>1. Passed(g, Len(Rows[g]) + 1)
    <3>1. \A r \in RowsOf(g) : r < run[i].row
      BY <1>0 DEF RowsOf
    <3>. QED
      BY <3>1 DEF UpToRow, Passed
  <2>. QED
    BY <1>0, <2>1 DEF PutAway, Passed
<1>6. ByHandOpen'
  <2>1. ~run'[i].byHand
    BY DEF Typed, Closed, RunStates
  <2>. QED
    BY <1>0, <2>1 DEF ByHandOpen
<1>3. UpToRow'
  BY <1>0 DEF UpToRow, Passed
<1>4. Alone'
  <2>1. \A f \in Files \ repeated : \A j \in Runs : run'[j].open = f => f # g /\ j # i
    BY <1>0 DEF Alone
  <2>. QED
    BY <1>0, <2>1 DEF Alone
<1>5. StoredOnce'
  BY <1>0 DEF StoredOnce, Behind, Clear
<1>. QED
  BY <1>1, <1>2, <1>3, <1>4, <1>5, <1>6

(* The tosser's steps do not touch a file that a run can have open.        *)
LEMMA Tosses ==
  ASSUME SpoolInv, NEW g \in Files, where[g] \notin {"inbound", "processed"},
         NEW w \in FileStates \ {"processed"}, where' = [where EXCEPT ![g] = w],
         UNCHANGED <<stored, run, repeated>>
  PROVE  SpoolInv'
<1>. USE DEF SpoolInv
<1>0. /\ \A f \in Files \ {g} : where'[f] = where[f]
      /\ where'[g] # "processed" /\ where[g] # "processed"
  BY DEF Typed
<1>1. Typed'
  BY DEF Typed
<1>2. PutAway' /\ ByHandOpen'
  BY <1>0 DEF PutAway, Passed, ByHandOpen
<1>3. UpToRow'
  BY DEF UpToRow, Passed
<1>4. Alone'
  <2>1. \A f \in Files \ repeated : \A j \in Runs : run[j].open = f => f # g
    BY DEF Alone
  <2>. QED
    BY <1>0, <2>1 DEF Alone
<1>5. StoredOnce'
  BY <1>0 DEF StoredOnce, Behind, Clear
<1>. QED
  BY <1>1, <1>2, <1>3, <1>4, <1>5

-----------------------------------------------------------------------------
(* A run with no file open may be put in any state with none.              *)
LEMMA ChangesRun ==
  ASSUME SpoolInv, NEW i \in Runs, run[i].open = NoFile,
         NEW s \in RunStates, s.open = NoFile, ~s.byHand, run' = [run EXCEPT ![i] = s],
         UNCHANGED <<where, stored, repeated>>
  PROVE  SpoolInv'
<1>1. run[i].open \notin Files
  BY IdleTyped
<1>. QED
  BY <1>1, LetGo DEF SpoolInv, Typed

(* Every step of the queue and of a hand import keeps the invariant.       *)
LEMMA RunSpool ==
  ASSUME SpoolInv, NEW i \in Runs,
         Proceed(i) \/ Crash(i) \/ \E d \in BOOLEAN : StartQueue(i, d)
                                  \/ \E f \in Files : StartByHand(i, f, d)
  PROVE  SpoolInv'
<1>. USE DEF Opened
<1>0. /\ run[i] \in RunStates
      /\ Opened(i) => run[i].open \in Files
      /\ Idle \in RunStates /\ Idle.open = NoFile /\ ~Idle.byHand /\ NoFile \notin Files
      /\ repeated \subseteq Files
  BY IdleTyped DEF SpoolInv, Typed, RunStates
<1>1. CASE ListDir(i)
  <2>1. PICK d \in First(run[i].dirs) :
          run' = [run EXCEPT ![i].dirs = @ \ {d},
                             ![i].files = {f \in Files : DirOf[f] = d /\ Present(f)}]
    BY <1>1 DEF ListDir
  <2>. DEFINE s == [[run[i] EXCEPT !.dirs = @ \ {d}] EXCEPT
                      !.files = {f \in Files : DirOf[f] = d /\ Present(f)}]
  <2>2. run' = [run EXCEPT ![i] = s]
    <3>1. DOMAIN run = Runs
      BY DEF SpoolInv, Typed
    <3>. QED
      BY <2>1, <3>1
  <2>3. s \in RunStates /\ s.open = NoFile /\ ~s.byHand
    <3>1. run[i].dirs \ {d} \in SUBSET Dirs
      BY <1>0 DEF RunStates
    <3>. QED
      BY <1>0, <1>1, <3>1 DEF ListDir, SpoolInv, ByHandOpen, RunStates
  <2>. HIDE DEF s
  <2>. QED
    BY <1>1, <2>2, <2>3, ChangesRun DEF ListDir
<1>2. CASE OpenNext(i)
  <2>1. PICK f \in First(run[i].files) : Read(i, f)
    BY <1>2 DEF OpenNext
  <2>2. f \in Files /\ run[i].open = NoFile
    BY <1>0, <1>2, <2>1 DEF OpenNext, First, RunStates
  <2>3. CASE where[f] = "inbound" /\ f \in Parses
    <3>. DEFINE s == [[[run[i] EXCEPT !.files = @ \ {f}] EXCEPT !.open = f] EXCEPT !.row = 1]
    <3>1. run' = [run EXCEPT ![i] = s]
      BY <2>1, <2>3 DEF Read, SpoolInv, Typed, RunStates
    <3>2. s \in RunStates /\ s.open = f /\ s.row = 1 /\ ~s.byHand
      <4>1. run[i].files \ {f} \in SUBSET Files
        BY <1>0 DEF RunStates
      <4>. QED
        <5>. DEFINE x == [run[i] EXCEPT !.files = @ \ {f}]
                    y == [x EXCEPT !.open = f]
        <5>1. x \in RunStates /\ ~x.byHand
          BY <1>0, <2>2, <4>1 DEF SpoolInv, ByHandOpen, RunStates
        <5>. HIDE DEF x
        <5>2. y \in RunStates /\ ~y.byHand /\ y.open = f
          BY <2>2, <5>1 DEF RunStates
        <5>. HIDE DEF y
        <5>3. /\ [y EXCEPT !.row = 1] \in RunStates
              /\ ~[y EXCEPT !.row = 1].byHand
              /\ [y EXCEPT !.row = 1].open = f
              /\ [y EXCEPT !.row = 1].row = 1
          BY <5>2 DEF RunStates
        <5>. QED
          BY <5>3 DEF x, y
    <3>3. repeated' = IF Elsewhere(i, f) THEN repeated \cup {f} ELSE repeated
      BY <2>1, <2>3 DEF Read
    <3>. HIDE DEF s
    <3>. QED
      BY <1>0, <1>2, <2>2, <2>3, <3>1, <3>2, <3>3, TakesUp DEF OpenNext
  <2>4. CASE ~(where[f] = "inbound" /\ f \in Parses)
    BY <1>0, <1>2, <2>1, <2>2, <2>4, ChangesRun DEF Read, Ends, OpenNext
  <2>. QED
    BY <2>3, <2>4
<1>3. CASE StoreRow(i)
  <2>. DEFINE g == run[i].open
              k == run[i].row
  <2>1. g \in Files /\ k \in RowsOf(g) /\ Kind(i) \notin {"refused", "skip"}
    BY <1>0, <1>3, RowsTyped DEF StoreRow, AtRow, Usable, RowsOf, RunStates
  <2>2. CASE NoFault /\ NextRow(i)
             /\ stored' = [stored EXCEPT ![g][k] = IF @ = 0 THEN 1 ELSE 2]
    <3>1. UNCHANGED <<where, repeated>>
      BY <1>3, <2>2 DEF StoreRow, NoFault
    <3>. QED
      BY <2>1, <2>2, <3>1, GetsOn
  <2>3. CASE Fault(i) /\ Ends(i) /\ UNCHANGED stored
    <3>1. g \in repeated' /\ repeated \subseteq repeated' /\ repeated' \subseteq Files
      BY <1>0, <2>1, <2>3 DEF Fault
    <3>. QED
      BY <1>0, <1>3, <2>3, <3>1, LetGo DEF StoreRow, Ends
  <2>. QED
    BY <1>3, <2>2, <2>3 DEF StoreRow
<1>4. CASE SkipRow(i)
  <2>1. /\ run[i].open \in Files /\ run[i].row \in RowsOf(run[i].open)
        /\ Rows[run[i].open][run[i].row] = "skip"
    BY <1>0, <1>4, RowsTyped DEF SkipRow, AtRow, Kind, RowsOf, RunStates
  <2>. QED
    BY <1>4, <2>1, GetsOn DEF SkipRow
<1>5. CASE RefuseRow(i)
  <2>. DEFINE g == run[i].open
              k == run[i].row
  <2>1. /\ g \in Files /\ k \in RowsOf(g) /\ Rows[g][k] \in {"refused", "default"}
        /\ k \in Nat
    BY <1>0, <1>5, RowsTyped DEF RefuseRow, Refused, AtRow, Kind, RowsOf, RunStates
  <2>2. \A r \in RowsOf(g) : Clear(g, r) => k <= r
    BY <2>1 DEF Clear, RowsOf
  <2>3. run' = [run EXCEPT ![i] = Idle] /\ UNCHANGED <<where, stored, repeated>>
    BY <1>5 DEF RefuseRow, Ends
  <2>. QED
    BY <1>0, <2>2, <2>3, LetGo
<1>6. CASE Archive(i)
  <2>. DEFINE g == run[i].open
              s == [[run[i] EXCEPT !.open = NoFile] EXCEPT !.row = 1]
  <2>1. g \in Files /\ run[i].row > Len(Rows[g]) /\ ~run[i].byHand
    BY <1>0, <1>6 DEF Archive, AtEnd
  <2>2. s \in RunStates /\ s.open = NoFile /\ ~s.byHand
    <3>. DEFINE x == [run[i] EXCEPT !.open = NoFile]
    <3>1. x \in RunStates /\ x.open = NoFile /\ ~x.byHand
      BY <1>0, <2>1 DEF RunStates
    <3>. HIDE DEF x
    <3>2. /\ [x EXCEPT !.row = 1] \in RunStates
          /\ [x EXCEPT !.row = 1].open = NoFile
          /\ ~[x EXCEPT !.row = 1].byHand
      BY <3>1 DEF RunStates
    <3>. QED
      BY <3>2 DEF x
  <2>3. Closed(i) => run' = [run EXCEPT ![i] = s]
    BY DEF Closed, SpoolInv, Typed, RunStates
  <2>. HIDE DEF s
  <2>. DEFINE moved == where' = IF where[g] = "inbound"
                                  THEN [where EXCEPT ![g] = "processed"] ELSE where
  <2>4. CASE NoFault /\ Closed(i) /\ moved /\ where[g] = "inbound"
    <3>1. UNCHANGED <<stored, repeated>> /\ where' = [where EXCEPT ![g] = "processed"]
      BY <1>6, <2>4 DEF Archive, NoFault
    <3>. QED
      BY <2>1, <2>4, <3>1, PutsAway
  <2>5. CASE NoFault /\ Closed(i) /\ moved /\ where[g] # "inbound"
    <3>1. UNCHANGED <<where, stored, repeated>>
      BY <1>6, <2>5 DEF Archive, NoFault
    <3>2. g \in repeated
      BY <2>1, <2>5 DEF SpoolInv, Alone
    <3>. QED
      BY <1>0, <2>2, <2>3, <2>5, <3>1, <3>2, LetGo
  <2>6. CASE Fault(i) /\ (Closed(i) \/ Ends(i)) /\ UNCHANGED where
    <3>1. g \in repeated' /\ repeated \subseteq repeated' /\ repeated' \subseteq Files
      BY <1>0, <2>1, <2>6 DEF Fault
    <3>2. CASE Closed(i)
      BY <1>6, <2>2, <2>3, <2>6, <3>1, <3>2, LetGo DEF Archive
    <3>3. CASE Ends(i)
      BY <1>0, <1>6, <2>6, <3>1, <3>3, LetGo DEF Archive, Ends
    <3>. QED
      BY <2>6, <3>2, <3>3
  <2>. QED
    BY <1>6, <2>4, <2>5, <2>6 DEF Archive
<1>7. CASE Finish(i)
  <2>1. run[i].open \in Files => run[i].open \in repeated
    BY <1>0, <1>7 DEF Finish, AtEnd, SpoolInv, Alone
  <2>. QED
    BY <1>0, <1>7, <2>1, LetGo DEF Finish, Ends
<1>8. CASE Crash(i)
  <2>1. /\ run[i].open \in Files => run[i].open \in repeated'
        /\ repeated \subseteq repeated' /\ repeated' \subseteq Files
    BY <1>0, <1>8 DEF Crash, Fault, RunStates
  <2>. QED
    BY <1>0, <1>8, <2>1, LetGo DEF Crash, Ends
<1>9. CASE \E d \in BOOLEAN : StartQueue(i, d)
  <2>1. PICK d \in BOOLEAN : StartQueue(i, d)
    BY <1>9
  <2>. DEFINE s == [[Idle EXCEPT !.dirs = Dirs] EXCEPT !.defaults = d]
  <2>2. s \in RunStates /\ s.open = NoFile /\ ~s.byHand
    BY <1>0 DEF Idle, RunStates
  <2>3. run' = [run EXCEPT ![i] = s]
    BY <2>1 DEF StartQueue
  <2>. HIDE DEF s
  <2>. QED
    BY <1>0, <2>1, <2>2, <2>3, ChangesRun DEF StartQueue
<1>10. CASE \E d \in BOOLEAN : \E f \in Files : StartByHand(i, f, d)
  <2>1. PICK d \in BOOLEAN, f \in Files : StartByHand(i, f, d)
    BY <1>10
  <2>. DEFINE s == [[[Idle EXCEPT !.open = f] EXCEPT !.byHand = TRUE] EXCEPT !.defaults = d]
  <2>2. s \in RunStates /\ s.open = f /\ s.row = 1
    BY <1>0 DEF Idle, RunStates
  <2>3. run' = [run EXCEPT ![i] = s]
    BY <2>1 DEF StartByHand
  <2>4. repeated' = repeated \cup {f} /\ where[f] = "inbound" /\ UNCHANGED <<where, stored>>
    BY <2>1 DEF StartByHand
  <2>5. run[i].open = NoFile
    BY <1>0, <2>1 DEF StartByHand
  <2>. HIDE DEF s
  <2>. QED
    BY <1>0, <2>2, <2>3, <2>4, <2>5, TakesUp
<1>. QED
  BY <1>1, <1>2, <1>3, <1>4, <1>5, <1>6, <1>7, <1>8, <1>9, <1>10 DEF Proceed

(* Every step keeps the invariant.                                         *)
LEMMA NextSpool == SpoolInv /\ [Next]_vars => SpoolInv'
<1>. SUFFICES ASSUME SpoolInv, [Next]_vars PROVE SpoolInv'
  OBVIOUS
<1>1. CASE \E f \in Files : Arrive(f) \/ Complete(f)
  <2>1. PICK f \in Files : Arrive(f) \/ Complete(f)
    BY <1>1
  <2>2. PICK w \in {"partial", "inbound"} :
          /\ where' = [where EXCEPT ![f] = w]
          /\ where[f] \notin {"inbound", "processed"}
          /\ UNCHANGED <<stored, run, repeated>>
    BY <2>1 DEF Arrive, Complete
  <2>3. w \in FileStates \ {"processed"}
    BY DEF FileStates
  <2>. QED
    BY <2>2, <2>3, Tosses
<1>2. CASE \E i \in Runs : \/ Proceed(i) \/ Crash(i)
                           \/ \E d \in BOOLEAN : \/ StartQueue(i, d)
                                                 \/ \E f \in Files : StartByHand(i, f, d)
  BY <1>2, RunSpool
<1>3. CASE UNCHANGED vars
  <2>. USE DEF vars
  <2>1. Typed' /\ ByHandOpen'
    BY <1>3 DEF SpoolInv, Typed, ByHandOpen
  <2>2. PutAway' /\ UpToRow'
    BY <1>3 DEF SpoolInv, PutAway, UpToRow, Passed
  <2>3. Alone' /\ StoredOnce'
    BY <1>3 DEF SpoolInv, Alone, StoredOnce, Behind, Clear
  <2>. QED
    BY <2>1, <2>2, <2>3 DEF SpoolInv
<1>. QED
  BY <1>1, <1>2, <1>3 DEF Next

LEMMA SpoolSafe == Spec => []SpoolInv
  BY InitSpool, NextSpool, PTL DEF Spec

-----------------------------------------------------------------------------
(* What importBoardPacket, importNetmail and the move to processed of      *)
(* ImportInboundQueue promise together: a packet put away has had every    *)
(* message of it stored, however runs overlap, fail or are killed.         *)
THEOREM NoMessageLost == Spec => []NothingLost
<1>1. SpoolInv => NothingLost
  <2>. SUFFICES ASSUME SpoolInv, NEW f \in Files, where[f] = "processed",
                       NEW r \in RowsOf(f), Rows[f][r] # "skip"
                PROVE  stored[f][r] > 0
    BY DEF NothingLost, RowsOf
  <2>1. r < Len(Rows[f]) + 1
    BY RowsTyped DEF RowsOf
  <2>. QED
    BY <2>1 DEF SpoolInv, PutAway, Passed
<1>. QED
  BY <1>1, SpoolSafe, PTL

(* A second copy of a message, on a board or in a mailbox, is always the   *)
(* trace of a hand import, of two runs on one packet, of a crash or a      *)
(* failure while it was open, or of a row that made the run stop later.    *)
THEOREM NoDuplicateWithoutCause == Spec => []DuplicatesHaveACause
<1>1. SpoolInv => DuplicatesHaveACause
  <2>. SUFFICES ASSUME SpoolInv, NEW f \in Files, f \notin repeated,
                       NEW r \in RowsOf(f), stored[f][r] > 1,
                       ~ \E s \in (r + 1)..Len(Rows[f]) : Rows[f][s] \in {"default", "refused"}
                PROVE  FALSE
    BY DEF DuplicatesHaveACause, RowsOf
  <2>1. Clear(f, r)
    <3>. SUFFICES ASSUME NEW s \in RowsOf(f), s > r
                  PROVE  Rows[f][s] \notin {"default", "refused"}
      BY DEF Clear
    <3>1. s \in (r + 1)..Len(Rows[f])
      BY RowsTyped DEF RowsOf
    <3>. QED
      BY <3>1
  <2>2. stored[f][r] <= 1 /\ stored[f][r] \in 0..2
    BY <2>1 DEF SpoolInv, StoredOnce, Typed
  <2>. QED
    BY <2>2
<1>. QED
  BY <1>1, SpoolSafe, PTL

-----------------------------------------------------------------------------
(* A run has a packet open only at one of its rows or just past the last,  *)
(* and the packet decodes and was complete when it was opened.             *)
AtARow ==
  \A i \in Runs : Opened(i) => /\ run[i].open \in Parses
                              /\ run[i].row <= Len(Rows[run[i].open]) + 1
                              /\ where[run[i].open] \in {"inbound", "processed"}

Counted == faults \in 0..MaxFaults /\ AtARow

(* Files only move on: a complete one stays inbound or is put away.        *)
LEMMA FilesMoveOn ==
  ASSUME SpoolInv, [Next]_vars, NEW f \in Files, where[f] \in {"inbound", "processed"}
  PROVE  where'[f] \in {"inbound", "processed"}
<1>1. CASE \E g \in Files : Arrive(g) \/ Complete(g)
  BY <1>1 DEF Arrive, Complete, SpoolInv, Typed
<1>2. CASE \E i \in Runs : Archive(i)
  BY <1>2 DEF Archive, SpoolInv, Typed
<1>3. CASE UNCHANGED where
  BY <1>3
<1>. QED
  BY <1>1, <1>2, <1>3
  DEF Next, vars, Proceed, ListDir, OpenNext, StoreRow, SkipRow, RefuseRow, Finish, Crash,
      StartQueue, StartByHand

(* What a run's own step makes of its file: it lets go of it, goes on by   *)
(* one row, or opens a complete one at the first row; the other runs stay  *)
(* where they are.                                                         *)
LEMMA OwnFile ==
  ASSUME SpoolInv, NEW i \in Runs,
         Proceed(i) \/ Crash(i) \/ \E d \in BOOLEAN : StartQueue(i, d)
                                  \/ \E f \in Files : StartByHand(i, f, d)
  PROVE  /\ \A j \in Runs \ {i} : run'[j] = run[j]
         /\ \/ run'[i].open = NoFile
            \/ AtRow(i) /\ run'[i].open = run[i].open /\ run'[i].row = run[i].row + 1
            \/ /\ run'[i].open \in Parses /\ run'[i].row = 1
               /\ where[run'[i].open] = "inbound"
         /\ faults' = faults \/ (faults < MaxFaults /\ faults' = faults + 1)
<1>0. run \in [Runs -> RunStates] /\ run[i] \in RunStates
  BY DEF SpoolInv, Typed
<1>1. CASE ListDir(i)
  BY <1>0, <1>1 DEF ListDir, Opened, RunStates
<1>2. CASE OpenNext(i)
  BY <1>0, <1>2 DEF OpenNext, Read, Ends, Idle, RunStates
<1>3. CASE StoreRow(i) \/ SkipRow(i)
  <2>1. AtRow(i) /\ (NextRow(i) \/ Ends(i)) /\ (UNCHANGED faults \/ Fault(i))
    BY <1>3 DEF StoreRow, SkipRow, NoFault
  <2>2. /\ \A j \in Runs \ {i} : run'[j] = run[j]
        /\ \/ run'[i].open = NoFile
           \/ run'[i].open = run[i].open /\ run'[i].row = run[i].row + 1
    BY <1>0, <2>1 DEF NextRow, Ends, Idle, RunStates
  <2>. QED
    BY <2>1, <2>2 DEF Fault
<1>4. CASE Archive(i)
  <2>1. (NoFault \/ Fault(i)) /\ (Closed(i) \/ Ends(i))
    BY <1>4 DEF Archive
  <2>2. /\ \A j \in Runs \ {i} : run'[j] = run[j]
        /\ run'[i].open = NoFile
    BY <1>0, <2>1 DEF Closed, Ends, Idle, RunStates
  <2>. QED
    BY <2>1, <2>2 DEF NoFault, Fault
<1>5. CASE RefuseRow(i) \/ Finish(i) \/ Crash(i)
  <2>1. Ends(i) /\ (UNCHANGED faults \/ Fault(i))
    BY <1>5 DEF RefuseRow, Finish, Crash
  <2>2. /\ \A j \in Runs \ {i} : run'[j] = run[j]
        /\ run'[i].open = NoFile
    BY <1>0, <2>1 DEF Ends, Idle
  <2>. QED
    BY <2>1, <2>2 DEF Fault
<1>6. CASE \E d \in BOOLEAN : StartQueue(i, d)
  <2>1. PICK d \in BOOLEAN : StartQueue(i, d)
    BY <1>6
  <2>. DEFINE s == [[Idle EXCEPT !.dirs = Dirs] EXCEPT !.defaults = d]
  <2>2. s.open = NoFile
    BY DEF Idle
  <2>3. run' = [run EXCEPT ![i] = s] /\ faults' = faults
    BY <2>1 DEF StartQueue
  <2>. HIDE DEF s
  <2>. QED
    BY <1>0, <2>2, <2>3
<1>7. CASE \E d \in BOOLEAN : \E f \in Files : StartByHand(i, f, d)
  <2>1. PICK d \in BOOLEAN, f \in Files : StartByHand(i, f, d)
    BY <1>7
  <2>. DEFINE s == [[[Idle EXCEPT !.open = f] EXCEPT !.byHand = TRUE] EXCEPT !.defaults = d]
  <2>2. s.open = f /\ s.row = 1
    BY DEF Idle
  <2>3. run' = [run EXCEPT ![i] = s]
    BY <2>1 DEF StartByHand
  <2>. HIDE DEF s
  <2>4. run'[i] = s /\ \A j \in Runs \ {i} : run'[j] = run[j]
    BY <1>0, <2>3
  <2>5. f \in Parses /\ where[f] = "inbound" /\ faults' = faults
    BY <2>1 DEF StartByHand
  <2>. QED
    BY <2>2, <2>4, <2>5
<1>. QED
  BY <1>1, <1>2, <1>3, <1>4, <1>5, <1>6, <1>7 DEF Proceed

LEMMA NextCounted == SpoolInv /\ Counted /\ [Next]_vars => Counted'
<1>. SUFFICES ASSUME SpoolInv, Counted, [Next]_vars PROVE Counted'
  OBVIOUS
<1>1. CASE UNCHANGED <<run, faults>>
  BY <1>1, FilesMoveOn DEF Counted, AtARow, Opened, SpoolInv, Typed, RunStates
<1>2. ASSUME NEW i \in Runs,
             Proceed(i) \/ Crash(i) \/ \E d \in BOOLEAN : StartQueue(i, d)
                                      \/ \E f \in Files : StartByHand(i, f, d)
      PROVE  Counted'
  <2>1. faults' \in 0..MaxFaults
    BY <1>2, OwnFile, SpoolConstants DEF Counted
  <2>2. ASSUME NEW j \in Runs, run'[j].open # NoFile
        PROVE  /\ run'[j].open \in Parses
               /\ run'[j].row <= Len(Rows[run'[j].open]) + 1
               /\ where[run'[j].open] \in {"inbound", "processed"}
    <3>1. CASE run'[j] = run[j]
      BY <2>2, <3>1 DEF Counted, AtARow, Opened
    <3>2. CASE j = i /\ AtRow(i) /\ run'[i].open = run[i].open /\ run'[i].row = run[i].row + 1
      <4>1. run[i].open \in Files /\ run[i].row \in Nat
        BY <3>2 DEF AtRow, Opened, SpoolInv, Typed, RunStates
      <4>. QED
        BY <3>2, <4>1, RowsTyped DEF AtRow, Opened, Counted, AtARow
    <3>3. CASE j = i /\ run'[i].open \in Parses /\ run'[i].row = 1 /\ where[run'[i].open] = "inbound"
      <4>1. run'[i].open \in Files
        BY <3>3, SpoolConstants
      <4>. QED
        BY <3>3, <4>1, RowsTyped
    <3>. QED
      BY <1>2, <2>2, <3>1, <3>2, <3>3, OwnFile
  <2>3. ASSUME NEW j \in Runs, run'[j].open # NoFile
        PROVE  where'[run'[j].open] \in {"inbound", "processed"}
    BY <2>2, <2>3, FilesMoveOn, SpoolConstants
  <2>. QED
    BY <2>1, <2>2, <2>3 DEF Counted, AtARow, Opened
<1>3. CASE \E f \in Files : Arrive(f) \/ Complete(f)
  BY <1>1, <1>3 DEF Arrive, Complete
<1>4. CASE UNCHANGED vars
  BY <1>1, <1>4 DEF vars
<1>. QED
  BY <1>2, <1>3, <1>4 DEF Next

(* ImportPacket keeps no position but the row it is at, and neither a      *)
(* crash nor a file moved away under it takes it past the end of the       *)
(* packet or onto one that does not decode.                                *)
THEOREM TypeCorrect == Spec => []TypeOK
<1>1. Init => Counted
  BY IdleTyped, SpoolConstants DEF Init, Counted, AtARow, Opened
<1>2. SpoolInv /\ Counted => TypeOK
  <2>. SUFFICES ASSUME SpoolInv, Counted PROVE TypeOK
    OBVIOUS
  <2>1. stored \in [Files -> UNION {[1..Len(Rows[f]) -> 0..2] : f \in Files}]
    BY DEF SpoolInv, Typed, RowsOf
  <2>2. \A f \in Files : DOMAIN stored[f] = 1..Len(Rows[f])
    BY DEF SpoolInv, Typed, RowsOf
  <2>. QED
    BY <2>1, <2>2 DEF SpoolInv, Typed, Counted, AtARow, TypeOK, FileStates, RunStates
<1>. QED
  BY <1>1, <1>2, SpoolSafe, NextCounted, PTL DEF Spec

=============================================================================
