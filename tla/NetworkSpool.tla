---------------------------- MODULE NetworkSpool ----------------------------
(***************************************************************************)
(* The inbound side of the message network, internal/network/service.go:   *)
(* packets that a tosser leaves in the spool are imported row by row into  *)
(* boards and mailboxes and then moved to the processed directory.         *)
(*                                                                         *)
(* Each import is a run of oputil, a process of its own: nothing keeps two *)
(* of them apart, and a run may be killed anywhere.  A run that meets an   *)
(* error ends; there is no transaction around a packet.                    *)
(*                                                                         *)
(* A file is a number, in the order in which the queue takes files: by     *)
(* directory, then by name.  A row is named by what becomes of it:         *)
(*   "good"     has a board and an author, or a sender and a recipient     *)
(*   "default"  a board message that lacks one the command line may give   *)
(*   "skip"     an empty message, or netmail that resolves to nobody (an   *)
(*              empty board message that also lacks something is left out) *)
(*   "refused"  a message the repository rejects whenever it is offered    *)
(***************************************************************************)
EXTENDS Naturals, Sequences

CONSTANTS
  Files,     \* packet files, numbered in the order of the queue
  Dirs,      \* format directories, numbered likewise
  DirOf,     \* the directory of each file
  Rows,      \* the rows of each packet
  Parses,    \* files that decode to a packet of a known format
  Runs,      \* processes that import
  NoFile,    \* no file is open
  MaxFaults  \* bound of the model: crashes and failed operations

Kinds == {"good", "default", "skip", "refused"}

ASSUME SpoolConstants ==
  /\ Files \subseteq Nat
  /\ Dirs \subseteq Nat
  /\ DirOf \in [Files -> Dirs]
  /\ Rows \in [Files -> Seq(Kinds)]
  /\ Parses \subseteq Files
  /\ NoFile \notin Files
  /\ MaxFaults \in Nat

VARIABLES
  where,    \* a file is away, partial, inbound or processed
  stored,   \* how often each row was stored; 2 stands for twice or more
  run,      \* what each process is doing
  faults,   \* faults so far
  repeated  \* history: files opened again, or left, with cause

vars == <<where, stored, run, faults, repeated>>

-----------------------------------------------------------------------------
Idle == [dirs |-> {}, files |-> {}, open |-> NoFile, row |-> 1,
         byHand |-> FALSE, defaults |-> FALSE]

Init ==
  /\ where    = [f \in Files |-> "away"]
  /\ stored   = [f \in Files |-> [r \in 1..Len(Rows[f]) |-> 0]]
  /\ run      = [i \in Runs |-> Idle]
  /\ faults   = 0
  /\ repeated = {}

Present(f) == where[f] \in {"partial", "inbound"}

Opened(i) == run[i].open # NoFile

Ends(i) == run' = [run EXCEPT ![i] = Idle]

NoFault == UNCHANGED <<faults, repeated>>

(* Something fails while run i has its file open, or has none.             *)
Fault(i) ==
  /\ faults < MaxFaults
  /\ faults'   = faults + 1
  /\ repeated' = repeated \cup ({run[i].open} \ {NoFile})

-----------------------------------------------------------------------------
(* The tosser writes a file in place: what a run reads of it before it is  *)
(* complete decodes neither as JSON nor as a QWK archive.                  *)

Arrive(f) ==
  /\ where[f] = "away"
  /\ where' = [where EXCEPT ![f] = "partial"]
  /\ UNCHANGED <<stored, run, faults, repeated>>

Complete(f) ==
  /\ where[f] = "partial"
  /\ where' = [where EXCEPT ![f] = "inbound"]
  /\ UNCHANGED <<stored, run, faults, repeated>>

-----------------------------------------------------------------------------
(* ImportInboundQueue.                                                     *)

StartQueue(i, d) ==
  /\ run[i] = Idle
  /\ run' = [run EXCEPT ![i] = [Idle EXCEPT !.dirs = Dirs, !.defaults = d]]
  /\ UNCHANGED <<where, stored, faults, repeated>>

(* The first element of S, if there is one.                                *)
First(S) == {x \in S : \A y \in S : x <= y}

(* Mutant: an empty directory ends the run. *)
ListDirOrEnd(i) ==
  /\ run[i].files = {} /\ ~Opened(i)
  /\ \E d \in First(run[i].dirs) :
       IF \E f \in Files : DirOf[f] = d /\ Present(f)
         THEN run' = [run EXCEPT ![i].dirs = @ \ {d},
                                 ![i].files = {f \in Files : DirOf[f] = d /\ Present(f)}]
         ELSE Ends(i)
  /\ UNCHANGED <<where, stored, faults, repeated>>

(* The files of a directory are listed when the queue comes to it.         *)
ListDir(i) ==
  /\ run[i].files = {} /\ ~Opened(i)
  /\ \E d \in First(run[i].dirs) :
       run' = [run EXCEPT ![i].dirs  = @ \ {d},
                          ![i].files = {f \in Files : DirOf[f] = d /\ Present(f)}]
  /\ UNCHANGED <<where, stored, faults, repeated>>

Elsewhere(i, f) == \E j \in Runs \ {i} : run[j].open = f

(* Mutant: whatever is there of the file is taken for the packet. *)
ReadWhatIsThere(i, f) ==
  /\ run' = [run EXCEPT ![i].files = @ \ {f}, ![i].open = f, ![i].row = 1]
  /\ repeated' = IF Elsewhere(i, f) THEN repeated \cup {f} ELSE repeated

(* ImportPacket reads the whole file before it stores anything.  A file    *)
(* that another run has moved meanwhile, or that does not decode, ends the *)
(* run.                                                                    *)
Read(i, f) ==
  IF where[f] = "inbound" /\ f \in Parses
    THEN /\ run' = [run EXCEPT ![i].files = @ \ {f}, ![i].open = f, ![i].row = 1]
         /\ repeated' = IF Elsewhere(i, f) THEN repeated \cup {f} ELSE repeated
    ELSE Ends(i) /\ UNCHANGED repeated

OpenNext(i) ==
  /\ ~Opened(i)
  /\ \E f \in First(run[i].files) : Read(i, f)
  /\ UNCHANGED <<where, stored, faults>>

(* oputil network import --in names a file, and leaves it where it is.     *)
StartByHand(i, f, d) ==
  /\ run[i] = Idle
  /\ where[f] = "inbound" /\ f \in Parses
  /\ run' = [run EXCEPT ![i] = [Idle EXCEPT !.open = f, !.byHand = TRUE, !.defaults = d]]
  /\ repeated' = repeated \cup {f}
  /\ UNCHANGED <<where, stored, faults>>

Kind(i) == Rows[run[i].open][run[i].row]

AtRow(i) == Opened(i) /\ run[i].row <= Len(Rows[run[i].open])

NextRow(i) == run' = [run EXCEPT ![i].row = @ + 1]

Usable(i) == Kind(i) \in (IF run[i].defaults THEN {"good", "default"} ELSE {"good"})

Refused(i) == Kind(i) \in (IF run[i].defaults THEN {"refused"} ELSE {"refused", "default"})

(* CreateMessage and CreateMail, each on its own.                          *)
StoreRow(i) ==
  /\ AtRow(i)
  /\ Usable(i)
  /\ \/ /\ NoFault
        /\ stored' = [stored EXCEPT ![run[i].open][run[i].row] = IF @ = 0 THEN 1 ELSE 2]
        /\ NextRow(i)
     \/ /\ Fault(i)
        /\ Ends(i)
        /\ UNCHANGED stored
  /\ UNCHANGED where

SkipRow(i) ==
  /\ AtRow(i)
  /\ Kind(i) = "skip"
  /\ NextRow(i)
  /\ UNCHANGED <<where, stored, faults, repeated>>

(* Mutant: the import goes on behind a row it cannot store. *)
RefuseRowGoesOn(i) ==
  /\ AtRow(i)
  /\ Refused(i)
  /\ NextRow(i)
  /\ UNCHANGED <<where, stored, faults, repeated>>

(* The rows before this one stay stored, and the file stays inbound.       *)
RefuseRow(i) ==
  /\ AtRow(i)
  /\ Refused(i)
  /\ Ends(i)
  /\ UNCHANGED <<where, stored, faults, repeated>>

AtEnd(i) == Opened(i) /\ run[i].row > Len(Rows[run[i].open])

Closed(i) == run' = [run EXCEPT ![i].open = NoFile, ![i].row = 1]

(* Mutant: the packet is copied, not moved. *)
ArchiveCopies(i) ==
  /\ AtEnd(i) /\ ~run[i].byHand
  /\ Closed(i)
  /\ NoFault
  /\ UNCHANGED <<where, stored>>

(* The whole packet is stored: it is moved to the processed directory.     *)
(* The error of the move is ignored, that of making the directory is not.  *)
Archive(i) ==
  /\ AtEnd(i) /\ ~run[i].byHand
  /\ \/ /\ NoFault
        /\ where' = IF where[run[i].open] = "inbound"
                      THEN [where EXCEPT ![run[i].open] = "processed"] ELSE where
        /\ Closed(i)
     \/ /\ Fault(i)
        /\ Closed(i) \/ Ends(i)
        /\ UNCHANGED where
  /\ UNCHANGED stored

(* Nothing is left to do: the run ends by itself.                          *)
Finish(i) ==
  /\ run[i] # Idle
  /\ \/ AtEnd(i) /\ run[i].byHand
     \/ ~Opened(i) /\ run[i].files = {} /\ run[i].dirs = {}
  /\ Ends(i)
  /\ UNCHANGED <<where, stored, faults, repeated>>

(* The process is killed.                                                  *)
Crash(i) ==
  /\ run[i] # Idle
  /\ Fault(i)
  /\ Ends(i)
  /\ UNCHANGED <<where, stored>>

-----------------------------------------------------------------------------
(* What a started run does by itself.                                      *)
Proceed(i) ==
  \/ ListDir(i) \/ OpenNext(i)
  \/ StoreRow(i) \/ SkipRow(i) \/ RefuseRow(i)
  \/ Archive(i) \/ Finish(i)

Next ==
  \/ \E f \in Files : Arrive(f) \/ Complete(f)
  \/ \E i \in Runs : \/ Proceed(i) \/ Crash(i)
                     \/ \E d \in BOOLEAN : \/ StartQueue(i, d)
                                           \/ \E f \in Files : StartByHand(i, f, d)

Spec == Init /\ [][Next]_vars

(* A process that runs keeps running.  Nothing in the code starts one.     *)
FairSpec == Spec /\ \A i \in Runs : WF_vars(Proceed(i))

-----------------------------------------------------------------------------
(* Properties.                                                             *)

(* Type invariant: a run has a packet open only at one of its rows or just *)
(* past the last, and works on one thing at a time.                        *)
TypeOK ==
  /\ where    \in [Files -> {"away", "partial", "inbound", "processed"}]
  /\ stored   \in [Files -> UNION {[1..Len(Rows[f]) -> 0..2] : f \in Files}]
  /\ \A f \in Files : DOMAIN stored[f] = 1..Len(Rows[f])
  /\ run      \in [Runs -> [dirs : SUBSET Dirs, files : SUBSET Files,
                            open : Files \cup {NoFile}, row : Nat \ {0},
                            byHand : BOOLEAN, defaults : BOOLEAN]]
  /\ faults   \in 0..MaxFaults
  /\ repeated \subseteq Files
  /\ \A i \in Runs : Opened(i) => /\ run[i].open \in Parses
                                  /\ run[i].row <= Len(Rows[run[i].open]) + 1
                                  /\ where[run[i].open] \in {"inbound", "processed"}

(* A packet is only put away as processed once every one of its rows that  *)
(* is not an empty or undeliverable message has been stored: no crash,     *)
(* refused row, failed statement or second import running at the same time *)
(* makes a message disappear.                                              *)
NothingLost ==
  \A f \in Files : where[f] = "processed" =>
    \A r \in 1..Len(Rows[f]) : Rows[f][r] # "skip" => stored[f][r] > 0

(* A message is stored twice only for a cause: its packet was imported by  *)
(* hand, or by two runs at once, or an import of it crashed or failed, or  *)
(* the packet holds a later row that stops an import.                      *)
DuplicatesHaveACause ==
  \A f \in Files : f \notin repeated =>
    \A r \in 1..Len(Rows[f]) :
      stored[f][r] > 1 =>
        \E s \in (r + 1)..Len(Rows[f]) : Rows[f][s] \in {"default", "refused"}

Sound(f) == f \in Parses /\ \A r \in 1..Len(Rows[f]) : Rows[f][r] # "refused"

SysopKeepsRunning == []<><<\E i \in Runs : StartQueue(i, TRUE)>>_vars

TosserFinishes == []<>(\A f \in Files : where[f] # "partial")

(* One bad packet holds up those behind it, but only those: as long as the *)
(* sysop runs the queue again and again with a default board and author,   *)
(* and the tosser finishes the files it began, every packet with nothing   *)
(* bad at or before it in the queue is processed, whatever crashes, single *)
(* imports and runs without defaults come between.                         *)
QueueDrains ==
  (SysopKeepsRunning /\ TosserFinishes) =>
    \A f \in Files :
      (\A g \in Files : g <= f => Sound(g)) =>
        (where[f] = "inbound" ~> where[f] = "processed")

=============================================================================
