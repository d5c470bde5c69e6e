----------------------------- MODULE ChatNodes -----------------------------
(***************************************************************************)
(* The chat service of internal/chat/service.go when several processes     *)
(* (the SSH server, the web server, the IRC gateway) share one Postgres    *)
(* database, with the clients that read a room through it: the IRC poller  *)
(* of cmd/wolfbbs-irc and the browser's event stream of cmd/wolfbbs-web.   *)
(*                                                                         *)
(* The mutex of a Service excludes the goroutines of its own process only. *)
(* Post holds it over a series of SQL statements; each statement is a step *)
(* here, so the statements of different processes interleave.  What the    *)
(* code does without the mutex is a step of its own too: the notification, *)
(* each send to a subscription, and the test and the write of lastID in    *)
(* the goroutine that feeds a subscription.                                *)
(*                                                                         *)
(* Bans and mutes share one table and one treatment and are one kind of    *)
(* entry; expiry is that of ChatService.  Presence, members and retention  *)
(* do not meet the message path and are left out.                          *)
(***************************************************************************)
EXTENDS Integers, Sequences, FiniteSets

CONSTANTS
  Procs,       \* processes, each with one chat Service
  Listening,   \* those whose LISTEN succeeded; the others poll the table
  Nicks, Rooms,
  NoRoom,      \* a client that is in no room
  Callers,     \* goroutines that call Post, one Post at a time
  ProcOf,      \* the process of each caller
  NickOf,      \* the nick each caller speaks as
  IrcClients,  \* connections of the IRC gateway, each with its poller
  Browsers,    \* chat pages
  HostOf,      \* the process that serves each client
  RateBurst,   \* Service.rateBurst
  BufferCap,   \* capacity of a subscription channel (32 in the code)
  Batch,       \* LIMIT of a history query (20 and 50 in the code)
  MaxMessages, \* bound of the model: message ids ever drawn
  MaxFaults    \* bound of the model: failed statements

Clients == IrcClients \cup Browsers

ASSUME NodeConstants ==
  /\ IsFiniteSet(Procs)
  /\ Procs # {}
  /\ Listening \subseteq Procs
  /\ NoRoom \notin Rooms
  /\ ProcOf \in [Callers -> Procs]
  /\ NickOf \in [Callers -> Nicks]
  /\ HostOf \in [Clients -> Procs]
  /\ IrcClients \cap Browsers = {}
  /\ RateBurst \in Nat \ {0}
  /\ BufferCap \in Nat \ {0}
  /\ Batch \in Nat \ {0}
  /\ MaxMessages \in Nat
  /\ MaxFaults \in Nat

VARIABLES
  \* The database.
  lastval,  \* the sequence behind chat_messages.id
  rows,     \* chat_messages: the committed messages
  rate,     \* chat_rate_events: a nick's rows inside the window
  banned,   \* chat_moderation_state: the <<room, nick>> with an entry
  \* Each process.
  holder,   \* the Post that holds the mutex, and the statement it is at
  known,    \* Service.bans and mutes: the process's copy of banned
  queue,    \* notifications waiting for the process's listener
  \* Each caller and each client.
  fanout,   \* a caller's Post after it has unlocked
  client,   \* a client's room, stream, cursor, subscription and batch
  buffer,   \* the Go channel of a client's subscription
  pump,     \* what the goroutine feeding a subscription is working on
  shown,    \* what the client's user has been shown, in order
  \* History.
  faults,   \* failed statements so far
  slipped   \* messages of a nick that got in since its ban was recorded

database == <<lastval, rows, rate, banned>>
services == <<holder, known, queue, fanout>>
readers  == <<client, buffer, pump, shown>>
history  == <<faults, slipped>>
vars == <<database, services, readers, history>>

-----------------------------------------------------------------------------
Pairs == Rooms \X Nicks

Free == [stage |-> "free"]
Done == [stage |-> "done"]
Out  == [room |-> NoRoom, stream |-> "off", cursor |-> 0, last |-> 0, batch |-> {}]
Rest == [todo |-> {}, taken |-> FALSE]

Lowest(S) == CHOOSE i \in S : \A j \in S : i <= j

IdsIn(r) == {m.id : m \in {x \in rows : x.room = r}}

(* latestMessageID: COALESCE(MAX(id), 0).                                  *)
LatestID(r) == CHOOSE i \in IdsIn(r) \cup {0} : \A j \in IdsIn(r) : j <= i

(* WHERE id > after ORDER BY id ASC LIMIT Batch.                           *)
HistorySince(r, after) ==
  LET newer == {i \in IdsIn(r) : i > after}
  IN  {i \in newer : Cardinality({j \in newer : j < i}) < Batch}

Init ==
  /\ lastval = 0
  /\ rows    = {}
  /\ rate    = [n \in Nicks |-> 0]
  /\ banned  = {}
  /\ holder  = [p \in Procs |-> Free]
  /\ known   = [p \in Procs |-> {}]
  /\ queue   = [p \in Procs |-> <<>>]
  /\ fanout  = [k \in Callers |-> Done]
  /\ client  = [c \in Clients |-> Out]
  /\ buffer  = [c \in Clients |-> <<>>]
  /\ pump    = [c \in Clients |-> Rest]
  /\ shown   = [c \in Clients |-> <<>>]
  /\ faults  = 0
  /\ slipped = [b \in Pairs |-> 0]

Fault == faults < MaxFaults /\ faults' = faults + 1

NoFault == UNCHANGED faults

-----------------------------------------------------------------------------
(* Post, one SQL statement at a time.  k is the caller, p its process.     *)

Unlocked(p) == holder[p] = Free

Busy(k) == \/ fanout[k] # Done
           \/ ~Unlocked(ProcOf[k]) /\ holder[ProcOf[k]].by = k

(* Mutant: Post trusts the copy the process already has. *)
RefreshNever(p, b) == UNCHANGED known /\ NoFault

(* refreshModerationStateLocked: the process forgets what it knew of the   *)
(* nick and reads it again; a failed read leaves the old copy in place.    *)
Refresh(p, b) ==
  \/ /\ known' = [known EXCEPT ![p] = (@ \ {b}) \cup (banned \cap {b})]
     /\ NoFault
  \/ /\ UNCHANGED known
     /\ Fault

PostBegin(k, r) ==
  LET p == ProcOf[k]
      b == <<r, NickOf[k]>>
  IN
  /\ ~Busy(k)
  /\ Unlocked(p)
  /\ lastval + Cardinality({q \in Procs : ~Unlocked(q)}) < MaxMessages
  /\ Refresh(p, b)
  /\ holder' = IF b \in known'[p]
                 THEN holder
                 ELSE [holder EXCEPT ![p] = [stage |-> "count", by |-> k, room |-> r]]
  /\ UNCHANGED <<database, queue, fanout, readers, slipped>>

At(p, stage) == holder[p].stage = stage

GoTo(p, stage) == holder' = [holder EXCEPT ![p].stage = stage]

(* Mutant: the burst itself still passes. *)
PostCountAtBurst(p) ==
  /\ At(p, "count")
  /\ NoFault
  /\ IF rate[NickOf[holder[p].by]] > RateBurst
       THEN holder' = [holder EXCEPT ![p] = Free]
       ELSE GoTo(p, "charge")
  /\ UNCHANGED <<database, known, queue, fanout, readers, slipped>>

(* SELECT COUNT: at the burst the post is refused; a failed count lets it  *)
(* through without a charge.                                               *)
PostCount(p) ==
  /\ At(p, "count")
  /\ \/ /\ NoFault
        /\ IF rate[NickOf[holder[p].by]] >= RateBurst
             THEN holder' = [holder EXCEPT ![p] = Free]
             ELSE GoTo(p, "charge")
     \/ Fault /\ GoTo(p, "draw")
  /\ UNCHANGED <<database, known, queue, fanout, readers, slipped>>

(* INSERT INTO chat_rate_events; its error is ignored.                     *)
PostCharge(p) ==
  /\ At(p, "charge")
  /\ \/ NoFault /\ rate' = [rate EXCEPT ![NickOf[holder[p].by]] = @ + 1]
     \/ Fault /\ UNCHANGED rate
  /\ GoTo(p, "draw")
  /\ UNCHANGED <<lastval, rows, banned, known, queue, fanout, readers, slipped>>

(* INSERT INTO chat_messages: the id is drawn from the sequence before the *)
(* row commits, so ids may become visible out of order.                    *)
PostDraw(p) ==
  /\ At(p, "draw")
  /\ lastval' = lastval + 1
  /\ holder'  = [holder EXCEPT ![p] = [stage |-> "commit", by |-> @.by,
                                       room |-> @.room, id |-> lastval + 1]]
  /\ UNCHANGED <<rows, rate, banned, known, queue, fanout, readers, history>>

PostCommit(p) ==
  LET h == holder[p]
      b == <<h.room, NickOf[h.by]>>
  IN
  /\ At(p, "commit")
  /\ \/ /\ NoFault
        /\ rows'    = rows \cup {[id |-> h.id, room |-> h.room]}
        /\ slipped' = IF b \in banned THEN [slipped EXCEPT ![b] = @ + 1] ELSE slipped
        /\ GoTo(p, "raise")
     \/ /\ Fault
        /\ holder' = [holder EXCEPT ![p] = Free]
        /\ UNCHANGED <<rows, slipped>>
  /\ UNCHANGED <<lastval, rate, banned, known, queue, fanout, readers>>

Live(p, r) == {c \in Clients : /\ HostOf[c] = p
                               /\ client[c].stream = "live"
                               /\ client[c].room = r}

(* Post raises lastID of the process's subscriptions to the room, takes a  *)
(* snapshot of them and releases the mutex.                                *)
PostRaise(p) ==
  LET h    == holder[p]
      subs == Live(p, h.room)
  IN
  /\ At(p, "raise")
  /\ client' = [c \in Clients |->
                  IF c \in subs /\ h.id > client[c].last
                    THEN [client[c] EXCEPT !.last = h.id] ELSE client[c]]
  /\ fanout' = [fanout EXCEPT ![h.by] = [stage |-> "notify", id |-> h.id,
                                         room |-> h.room, to |-> subs]]
  /\ holder' = [holder EXCEPT ![p] = Free]
  /\ UNCHANGED <<database, known, queue, buffer, pump, shown, history>>

Sending(k, to) == IF to = {} THEN [fanout EXCEPT ![k] = Done]
                             ELSE [fanout EXCEPT ![k].stage = "send", ![k].to = to]

(* pg_notify reaches every listener, that of the sending process included. *)
PostNotify(k) ==
  /\ fanout[k].stage = "notify"
  /\ queue'  = [p \in Procs |-> IF p \in Listening
                   THEN Append(queue[p], [id |-> fanout[k].id, room |-> fanout[k].room])
                   ELSE queue[p]]
  /\ fanout' = Sending(k, fanout[k].to)
  /\ UNCHANGED <<database, holder, known, readers, history>>

(* Mutant: the channel grows instead of dropping. *)
OfferUnbounded(c, id) == buffer' = [buffer EXCEPT ![c] = Append(@, id)]

(* A send on a subscription channel never blocks: a full one drops it.     *)
Offer(c, id) ==
  buffer' = IF Len(buffer[c]) < BufferCap
              THEN [buffer EXCEPT ![c] = Append(@, id)] ELSE buffer

PostSend(k, c) ==
  /\ fanout[k].stage = "send"
  /\ c \in fanout[k].to
  /\ Offer(c, fanout[k].id)
  /\ fanout' = Sending(k, fanout[k].to \ {c})
  /\ UNCHANGED <<database, holder, known, queue, client, pump, shown, history>>

-----------------------------------------------------------------------------
(* Moderation, and the rate window.                                        *)

(* Ban and Mute write the process's copy and the table under the mutex;    *)
(* the error of the statement is ignored.                                  *)
Ban(p, b) ==
  /\ Unlocked(p)
  /\ known' = [known EXCEPT ![p] = @ \cup {b}]
  /\ \/ /\ NoFault
        /\ banned'  = banned \cup {b}
        /\ slipped' = IF b \in banned THEN slipped ELSE [slipped EXCEPT ![b] = 0]
     \/ Fault /\ UNCHANGED <<banned, slipped>>
  /\ UNCHANGED <<lastval, rows, rate, holder, queue, fanout, readers>>

Unban(p, b) ==
  /\ Unlocked(p)
  /\ known' = [known EXCEPT ![p] = @ \ {b}]
  /\ \/ NoFault /\ banned' = banned \ {b}
     \/ Fault /\ UNCHANGED banned
  /\ UNCHANGED <<lastval, rows, rate, holder, queue, fanout, readers, slipped>>

(* The oldest rate event of a nick leaves the window.                      *)
WindowMoves(n) ==
  /\ rate[n] > 0
  /\ rate' = [rate EXCEPT ![n] = @ - 1]
  /\ UNCHANGED <<lastval, rows, banned, services, readers, history>>

-----------------------------------------------------------------------------
(* Feeding the subscriptions.                                              *)

Hosted(p) == {c \in Clients : HostOf[c] = p}

(* The listener takes its next notification and a snapshot, under the      *)
(* mutex, of the subscriptions to offer it to.                             *)
Dispatch(p) ==
  /\ queue[p] # <<>>
  /\ Unlocked(p)
  /\ \A c \in Hosted(p) : pump[c] = Rest
  /\ queue' = [queue EXCEPT ![p] = Tail(@)]
  /\ pump'  = [c \in Clients |->
                 IF c \in Live(p, Head(queue[p]).room)
                   THEN [todo |-> {Head(queue[p]).id}, taken |-> FALSE] ELSE pump[c]]
  /\ UNCHANGED <<database, holder, known, fanout, client, buffer, shown, history>>

(* The listener's connection drops: what was under way to it is lost.      *)
ListenerReconnects(p) ==
  /\ queue[p] # <<>>
  /\ queue' = [queue EXCEPT ![p] = <<>>]
  /\ UNCHANGED <<database, holder, known, fanout, readers, history>>

(* watchSubscription, in a process without a listener.                     *)
WatchPoll(c) ==
  /\ HostOf[c] \notin Listening
  /\ client[c].stream = "live"
  /\ pump[c] = Rest
  /\ HistorySince(client[c].room, client[c].last) # {}
  /\ pump' = [pump EXCEPT ![c].todo = HistorySince(client[c].room, client[c].last)]
  /\ UNCHANGED <<database, services, client, buffer, shown, history>>

(* if msg.ID <= sub.lastID continue, without the mutex.                    *)
PumpTest(c) ==
  /\ pump[c].todo # {}
  /\ ~pump[c].taken
  /\ pump' = IF Lowest(pump[c].todo) <= client[c].last
               THEN [pump EXCEPT ![c].todo = @ \ {Lowest(@)}]
               ELSE [pump EXCEPT ![c].taken = TRUE]
  /\ UNCHANGED <<database, services, client, buffer, shown, history>>

(* sub.lastID = msg.ID and the send: by now Post may have raised lastID    *)
(* further, and this lowers it again.                                      *)
PumpSend(c) ==
  LET id == Lowest(pump[c].todo) IN
  /\ pump[c].taken
  /\ client' = [client EXCEPT ![c].last = id]
  /\ Offer(c, id)
  /\ pump'   = [pump EXCEPT ![c] = [todo |-> @.todo \ {id}, taken |-> FALSE]]
  /\ UNCHANGED <<database, services, shown, history>>

-----------------------------------------------------------------------------
(* Clients.                                                                *)

(* The old subscription is closed: what was on its way to it is dropped,   *)
(* by the goroutines that send to it as well.                              *)
CloseSub(c) ==
  /\ buffer' = [buffer EXCEPT ![c] = <<>>]
  /\ pump'   = [pump EXCEPT ![c] = Rest]
  /\ fanout' = [k \in Callers |->
                  IF fanout[k] = Done THEN Done
                  ELSE IF fanout[k].stage = "send" /\ fanout[k].to = {c} THEN Done
                  ELSE [fanout[k] EXCEPT !.to = @ \ {c}]]

(* The poller takes a channel update: it closes its subscription and opens *)
(* one to the new room.  Its cursor stays.                                 *)
IrcJoin(c, r) ==
  /\ client[c].batch = {}
  /\ Unlocked(HostOf[c])
  /\ CloseSub(c)
  /\ client' = [client EXCEPT ![c].room = r, ![c].stream = "live",
                              ![c].last = LatestID(r)]
  /\ UNCHANGED <<database, holder, known, queue, shown, history>>

IrcPart(c) ==
  /\ client[c].room # NoRoom
  /\ client[c].batch = {}
  /\ Unlocked(HostOf[c])
  /\ CloseSub(c)
  /\ client' = [client EXCEPT ![c].room = NoRoom, ![c].stream = "off"]
  /\ UNCHANGED <<database, holder, known, queue, shown, history>>

(* Mutant: the poll starts from the subscription's position. *)
IrcTickFromLast(c) ==
  /\ client[c].room # NoRoom
  /\ client[c].batch = {}
  /\ client' = [client EXCEPT ![c].batch = HistorySince(client[c].room, client[c].last)]
  /\ UNCHANGED <<database, services, buffer, pump, shown, history>>

(* The poller's ticker reads what is newer than the cursor.                *)
IrcTick(c) ==
  /\ client[c].room # NoRoom
  /\ client[c].batch = {}
  /\ HistorySince(client[c].room, client[c].cursor) # {}
  /\ client' = [client EXCEPT ![c].batch = HistorySince(client[c].room, client[c].cursor)]
  /\ UNCHANGED <<database, services, buffer, pump, shown, history>>

LastShown(c) == IF shown[c] = <<>> THEN 0 ELSE shown[c][Len(shown[c])]

(* loadHistory: the page is redrawn from the room's newest messages.  Of   *)
(* what it draws, only the last id matters to what may follow.             *)
PageOpen(c, r) ==
  /\ client[c].stream = "off"
  /\ client' = [client EXCEPT ![c].room = r]
  /\ shown'  = [shown EXCEPT ![c] = IF LatestID(r) = 0 THEN <<>> ELSE <<LatestID(r)>>]
  /\ UNCHANGED <<database, services, buffer, pump, history>>

(* watch: the page asks for what follows lastSeenId, and the handler reads *)
(* the history first.                                                      *)
StreamReplay(c) ==
  /\ client[c].room # NoRoom
  /\ client[c].stream = "off"
  /\ client' = [client EXCEPT ![c].stream = "replay", ![c].cursor = LastShown(c),
                              ![c].batch = HistorySince(client[c].room, LastShown(c))]
  /\ UNCHANGED <<database, services, buffer, pump, shown, history>>

(* Mutant: the subscription starts from nothing, not from MAX(id). *)
StreamSubscribeFromZero(c) ==
  /\ client[c].stream = "replay"
  /\ client[c].batch = {}
  /\ Unlocked(HostOf[c])
  /\ client' = [client EXCEPT ![c].stream = "live", ![c].last = 0]
  /\ UNCHANGED <<database, services, buffer, pump, shown, history>>

(* It subscribes only once the history is written.                         *)
StreamSubscribe(c) ==
  /\ client[c].stream = "replay"
  /\ client[c].batch = {}
  /\ Unlocked(HostOf[c])
  /\ client' = [client EXCEPT ![c].stream = "live", ![c].last = LatestID(client[c].room)]
  /\ UNCHANGED <<database, services, buffer, pump, shown, history>>

(* The connection drops or the page moves on; watch may start again.       *)
StreamEnd(c) ==
  /\ client[c].stream # "off"
  /\ CloseSub(c)
  /\ client' = [client EXCEPT ![c].stream = "off", ![c].batch = {}]
  /\ UNCHANGED <<database, holder, known, queue, shown, history>>

(* One message of the batch is written.  The poller advances its cursor;   *)
(* the stream handler leaves after where it was.                           *)
WriteBatch(c) ==
  LET id == Lowest(client[c].batch) IN
  /\ client[c].batch # {}
  /\ shown'  = [shown EXCEPT ![c] = Append(@, id)]
  /\ client' = [client EXCEPT ![c].batch = @ \ {id},
                              ![c].cursor = IF c \in IrcClients THEN id ELSE @]
  /\ UNCHANGED <<database, services, buffer, pump, history>>

(* The next message of the subscription is written, or skipped when its id *)
(* is not above the cursor.                                                *)
TakeLive(c) ==
  LET id == Head(buffer[c]) IN
  /\ client[c].stream = "live"
  /\ client[c].batch = {}
  /\ buffer[c] # <<>>
  /\ buffer' = [buffer EXCEPT ![c] = Tail(@)]
  /\ IF id > client[c].cursor
       THEN /\ shown'  = [shown EXCEPT ![c] = Append(@, id)]
            /\ client' = [client EXCEPT ![c].cursor = id]
       ELSE UNCHANGED <<shown, client>>
  /\ UNCHANGED <<database, services, pump, history>>

-----------------------------------------------------------------------------
PostStep ==
  \/ \E k \in Callers, r \in Rooms : PostBegin(k, r)
  \/ \E p \in Procs : \/ PostCount(p) \/ PostCharge(p) \/ PostDraw(p)
                      \/ PostCommit(p) \/ PostRaise(p)
  \/ \E k \in Callers : PostNotify(k) \/ \E c \in Clients : PostSend(k, c)

RuleStep ==
  \/ \E p \in Procs, b \in Pairs : Ban(p, b) \/ Unban(p, b)
  \/ \E n \in Nicks : WindowMoves(n)

ReadStep ==
  \/ \E p \in Procs : Dispatch(p) \/ ListenerReconnects(p)
  \/ \E c \in Clients : \/ WatchPoll(c) \/ PumpTest(c) \/ PumpSend(c)
                        \/ WriteBatch(c) \/ TakeLive(c)
  \/ \E c \in IrcClients : IrcPart(c) \/ IrcTick(c) \/ \E r \in Rooms : IrcJoin(c, r)
  \/ \E c \in Browsers : \/ StreamReplay(c) \/ StreamSubscribe(c) \/ StreamEnd(c)
                         \/ \E r \in Rooms : PageOpen(c, r)

Next == PostStep \/ RuleStep \/ ReadStep

Spec == Init /\ [][Next]_vars

(* The poller's loop selects among its ticker and its channels, and writes *)
(* out what a poll returned before it selects again.                       *)
Fairness == \A c \in IrcClients : WF_vars(IrcTick(c)) /\ WF_vars(WriteBatch(c))

FairSpec == Spec /\ Fairness

-----------------------------------------------------------------------------
(* Properties.                                                             *)

Ids == 1..MaxMessages

Posts == {Free}
  \cup [stage : {"count", "charge", "draw"}, by : Callers, room : Rooms]
  \cup [stage : {"commit", "raise"}, by : Callers, room : Rooms, id : Ids]

Fanouts == {Done}
  \cup [stage : {"notify", "send"}, id : Ids, room : Rooms, to : SUBSET Clients]

(* Type invariant: the tables hold committed rows, the Post that holds a   *)
(* mutex is one of that process's callers, and no channel is over capacity. *)
TypeOK ==
  /\ lastval \in 0..MaxMessages
  /\ rows    \subseteq [id : Ids, room : Rooms]
  /\ rate    \in [Nicks -> Nat]
  /\ banned  \subseteq Pairs
  /\ holder  \in [Procs -> Posts]
  /\ \A p \in Procs : Unlocked(p) \/ ProcOf[holder[p].by] = p
  /\ known   \in [Procs -> SUBSET Pairs]
  /\ queue   \in [Procs -> Seq([id : Ids, room : Rooms])]
  /\ fanout  \in [Callers -> Fanouts]
  /\ client  \in [Clients -> [room : Rooms \cup {NoRoom},
                              stream : {"off", "replay", "live"},
                              cursor : 0..MaxMessages, last : 0..MaxMessages,
                              batch : SUBSET Ids]]
  /\ buffer  \in [Clients -> Seq(Ids)]
  /\ \A c \in Clients : Len(buffer[c]) <= BufferCap
  /\ pump    \in [Clients -> [todo : SUBSET Ids, taken : BOOLEAN]]
  /\ shown   \in [Clients -> Seq(Ids)]
  /\ faults  \in 0..MaxFaults
  /\ slipped \in [Pairs -> Nat]

(* The rate limit of rateLimitedDB counts and then inserts, in separate    *)
(* statements under a mutex no other process shares.  It can be overrun,   *)
(* but never by more than one row for each other process.                  *)
RateOverrunBounded ==
  \A n \in Nicks : rate[n] <= RateBurst + Cardinality(Procs) - 1

(* A ban reaches every process: once it is recorded, what still gets in    *)
(* are the Posts that had read the table before it, at most one in each    *)
(* other process, and one more for each statement that fails.              *)
BanReachesEveryProcess ==
  \A b \in Pairs : slipped[b] <= Cardinality(Procs) - 1 + faults

(* Whatever the fan-out reorders or repeats, a user is shown each stored   *)
(* message at most once and in the order of the ids: across the history    *)
(* query and the stream of a page, its reconnections, and an IRC client's  *)
(* poll, stream and changes of room.                                       *)
ShownInOrder ==
  \A c \in Clients :
    /\ \A i, j \in 1..Len(shown[c]) : i < j => shown[c][i] < shown[c][j]
    /\ \A i \in 1..Len(shown[c]) : \E m \in rows : m.id = shown[c][i]

(* An IRC user who stays in a room is shown each message stored there or   *)
(* a newer one, however many notifications and buffer slots were lost.     *)
IrcCatchesUp ==
  \A c \in IrcClients, i \in Ids :
    i \in IdsIn(client[c].room)
      ~> (i \notin IdsIn(client[c].room) \/ LastShown(c) >= i)

=============================================================================
