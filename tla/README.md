# WolfBBS: TLA+ models, model checking and proofs

WolfBBS is a multi-node bulletin board in Go.  Callers come in over SSH, telnet,
websocket, the web console and an IRC gateway; they share one chat service, one
node manager, and one database.  This directory holds TLA+ models of the parts
where several callers meet in shared state, the TLC instances that model-check
them, and TLAPS proofs of their most important properties for all sizes.

Paths below are relative to `src/`.

## 1. Inventory

| Component | State it keeps | Operations | What makes it hard | What makes it correct |
|---|---|---|---|---|
| Node and session manager, `internal/session/manager.go` | node -> session id, session id -> NodeState, last callers, reconnect notices | Start, SetUser, SetArea, Touch, MarkCleanExit, End, TakeReconnectNotice, Get, Online, LastCallers | two maps kept in step by hand over long call sequences; bounded lists | no node is shared, lost or kept after its session; last callers are the newest; a notice tells of a real interruption |
| Caller sessions, `internal/sshserver/server.go` (handleSession), `internal/loginserver/session.go` (runLoginSession) | a goroutine per caller; rows in `node_sessions` and `caller_history` | connect, login, change screen, persistNode, sign off, disconnect, deferred clean-up | many goroutines over one manager, Get and upsert in two steps, crashes, a sysop's prune of rows, multiplexed channels | a stable node per session; every row has an owner; each caller is logged once; whoever leaves gives back what he held |
| Chat service in memory, `internal/chat/service.go` | members, presence, histories, rate windows, bans, mutes, subscriptions | Join, Leave, Post, Subscribe, unsubscribe, Ban, Unban, Mute, Unmute, Kick, queries | Post unlocks before it sends; bounded Go channels that drop; close racing send; expiry times | see section 3 |
| Chat service on a database, same file | the `chat_*` tables, LISTEN/NOTIFY, polling subscriptions | the same, plus dispatchDBMessage and watchSubscription | several processes; per-subscription `lastID` written by three goroutines; count-then-insert rate limit | a reader is shown messages in order and once; the burst and a ban hold over processes, within what the statements allow |
| Chat clients: SSE stream (`cmd/wolfbbs-web/main.go`), IRC poller (`cmd/wolfbbs-irc/main.go`), SSH room desk | a cursor over history and stream, the room joined | open stream, poll, switch room, close | history read, then subscribe; cursor over an out-of-order stream; shared membership of several tabs | a reader sees a message of its room at most once and in order; one who stays gets past every gap |
| Chat room locks, `cmd/wolfbbs-web/main.go` | `lockedChat` and its persisted copy | lock, unlock, post under lock | persisted after the unlock; consulted by some clients only | a locked room is read-only in every client |
| IRC registry, `cmd/wolfbbs-irc/main.go` | nick -> client, channel -> clients, connection counts, a channel of updates to each poller | PASS, NICK, USER, SASL, JOIN, PART, KICK, QUIT, disconnect | NICK unregisters before it tests for a collision; registration tests nothing; a KICK acts on another connection's state; updates are dropped when the poller is slow | the caps hold; an entry names a live client of that nick; no ghosts in a channel; the poller reads the channel the client is in |
| Accounts, `internal/auth/service.go` | user rows, reset tokens, recovery codes | login, setters, reset, second factor | read-modify-write of whole rows; token tested before it is consumed | no lost update; a token or code works once |
| Message boards, `internal/repository` | threads, posts, read pointers, locks | post, reply, move, lock, mark read | counters and pointers beside the rows | pointers never pass the last post |
| Network spool, `internal/network/service.go`, `cmd/oputil` | packet directories, boards and mailboxes | export, import by hand, import the queue | no transaction around a packet; rename at the end, its error ignored; an error stops the queue; two runs overlap | nothing is lost; a repeat has a cause; a bad packet holds up only those behind it |
| Doors, `internal/doors/doors.go`, `internal/repository/door_repository.go` | turn ledger with time bank, one lock per concurrency group, scores, favourites | Launch, consumeTurn, TurnsRemaining | read-then-upsert of the ledger in separate calls; two counters that bound each other; the day is taken before the wait for the lock | every launch is charged, once; no more launches than the day and the bank allow; the bank gives what was saved |
| File base, `cmd/wolfbbs-web/filebase.go` | files, one-time tickets | issue, redeem | look up, test and mark are separate | a ticket serves once |
| Event bus and modules, `internal/events/bus.go`, `internal/mods` | handlers, module states | subscribe, publish, start, stop, tick | handlers run from a snapshot; module code runs under the manager's lock | no wait for oneself; no tick after Stop |
| Web sessions and pages, mail, menus, ACS, MCI, UI, configuration, discovery, gateway, content, operator tools | mostly none between calls | request handling, rendering, one-shot commands | - | - |

How they interact: a caller's goroutine calls the node manager and the chat
service directly (shared memory, one mutex each); the database tables
`node_sessions` and `caller_history` carry the state of a session to the web
console, which may delete rows; a chat message goes from the poster's goroutine
to the subscribers through bounded Go channels; all services publish notices on
the event bus, synchronously.

The hazards, each at its line, with the properties that cover it or the reason
that none does yet, are the `hazards` of `PROJECT.json`.

## 2. Modules

| Module | Models | Used by |
|---|---|---|
| `SessionManager` | the node manager, every state-changing method an action | `MCSessionManager`, `SessionManagerProofs`, instanced by `NodeSessions` |
| `NodeSessions` | the goroutines of SSH, telnet and websocket callers over `SessionManager`, with the tables, crash and prune | `MCNodeSessions`, `NodeSessionsProofs` |
| `ChatFeed` | abstract: what a subscription promises its reader | instanced by `ChatService` |
| `ChatService` | the chat service in memory | `MCChatRooms`, `ChatServiceProofs`, `ChatFeedProofs` |
| `ChatNodes` | the chat service of several processes on one database, with the IRC poller and the event stream that read it | `MCChatNodes`, `ChatNodesProofs` |
| `IrcGateway` | connections, registration, nick and channel registries and pollers of the IRC gateway | `MCIrcGateway`, `IrcGatewayProofs` |
| `NetworkSpool` | the import of packets from the network spool by several processes | `MCNetworkSpool`, `NetworkSpoolProofs` |
| `DoorTurns` | `Launch` and `consumeTurn` of the door runner over its locks and the turn ledger | `MCDoorTurns`, `DoorTurnsProofs` |
| `MC*` | constants for TLC, and the narrowed next-state relations named in section 3 | |
| `*Proofs` | theorems and their proofs | |

In the component modules a definition whose comment begins with "Mutant:" is a deliberately wrong variant of a definition that
follows it: a dropped call, a swapped order, the wrong end of a slice.  Nothing
in the specifications uses these variants.  Putting one in the place of its
original (`PROJECT.json`, `mutants`) makes TLC find the named property violated,
which shows that the property can fail and that its run reaches the case.

### SessionManager

`nodeToSID`, `sessions`, `lastCallers`, `reconnect` are the fields of `Manager`.
A session that is not in the Go map is `Offline` (node 0).  Every method holds
the mutex throughout and is one action.  A `Start` that is refused, or finds its
session on, changes nothing in the manager; `NodeSessions` models what the
caller does then.  `starts` bounds the instance, `ended` is a history variable
with every session that ended and whether it had been marked clean.  `Touch`
only changes a time and is left out, as are `Get`, `Online` and `LastCallers`,
which only read.

### NodeSessions

Each terminal of `SSH` is one run of `handleSession`, each of `Text` one of
`runLoginSession`; `phase` is the line the goroutine is at:

    off -> saving -> writing -> on -> leaving -> ending -> deleting -> logging -> gone   (SSH)
    off -> on -> ending -> gone                                                          (text)

`saving`/`writing` are the two halves of `persistNode`: `nodes.Get`, then
`UpsertNodeSession` with what Get saw.  A login passes through
`savingLogin`/`writingLogin` and `greet` (TakeReconnectNotice).
`leaving`..`logging` are the four calls of the deferred function, in its order:
Get, End, DeleteNodeSession, AddCallerHistory.  `SidOf` gives the session id:
the id of the SSH *connection*, so channels multiplexed on one connection have
the same one; text transports make theirs from the transport's name and
`time.Now().UnixNano()`, taken to be distinct.  The database repository is taken
to be configured and its calls to succeed.  `Crash` loses the manager and all
goroutines and keeps the rows.  `Prune` is the web console's
`prune_idle_sessions`: any row may be old enough, so any row may go at any time.

### ChatService and ChatFeed

All exported methods hold the mutex and are one action each, except `Post`,
which is `Post` (up to the unlock: prune expired bans and mutes, test them, test
the rate limit, number and store the message, join the room, snapshot the
subscribers) and then one `Send` per subscriber in the snapshot, in any order
(Go map iteration), without the mutex.  `Send` never blocks: it drops on a full
channel, and a panic on a closed channel is recovered per subscriber.
`outgoing[p]` is what caller p's loop has left to send.  `Receive` is the
reader's side of the Go channel; it is modelled from the loop of
`handleChatStream`.

`posted` and `received` are history variables (every accepted message, every
message taken out of a stream), and so is the `since` of a subscription.

`ChatFeed` has a log of messages and, per subscription, a feed that only grows.
A message may enter an open feed if it was posted to its room since it was
opened, is not in it yet, and comes after the same caller's earlier messages.
It allows a message to be missing, and messages of different callers to arrive
out of order: both are what the code does.  `ChatService!Feed` is the refinement
mapping: the log is `posted`, the feed of a subscription is what its reader has
taken out followed by what waits in the channel.

### ChatNodes

With a database the mutex of a `Service` excludes only the goroutines of its own
process, while the tables are shared by the SSH server, the web server and the
IRC gateway.  So `Post` is cut at its SQL statements, in their order:

    PostBegin (refresh bans, test them) -> PostCount -> PostCharge -> PostDraw -> PostCommit
      -> PostRaise (raise lastID, snapshot, unlock) -> PostNotify -> PostSend, one per subscriber

`holder[p]` is the Post that has the mutex of process p and the statement it is
at; `fanout[k]` is what a Post does after its unlock.  `PostDraw` and
`PostCommit` are the one `INSERT`: a Postgres sequence hands out an id before
the row becomes visible, so a higher id can be seen first.  Every statement may
fail, with the consequence the code gives it: a failed refresh keeps the old
copy of the bans, a failed count lets the post through without a charge, a
failed charge, ban or unban is ignored, a failed insert ends the Post.

A process in `Listening` has a listener that dispatches notifications
(`Dispatch`), and may lose those under way while it reconnects
(`ListenerReconnects`); in the others each subscription polls the table
(`WatchPoll`).  Either way a goroutine holding the messages found (`pump`)
tests `lastID` (`PumpTest`), sets it and sends (`PumpSend`), without the mutex
that `PostRaise` has when it writes the same field.  In the code a listener runs
`dispatchDBMessage` to its end before the next notification, hence the guard of
`Dispatch`.

A client is one IRC connection's poller or one chat page with its event stream.
`client[c]` has the room, the state of the stream, the cursor (`lastMessage`, or
`after` of the stream handler), the `lastID` of the subscription and the batch a
history query returned; `shown[c]` is what the user sees.  A page redraws from
the history (`PageOpen`), asks for what follows its last id (`StreamReplay`),
and the handler subscribes after that (`StreamSubscribe`).  Bans and mutes are
one kind of entry here; their expiry is the business of `ChatService`, as are
members.  Presence rows, retention by age and the audit rows are left out, and a
poll or subscription query that fails reads as a poll that has not happened yet.

What the model shows of the code, beside the properties: the rate limit is
overrun by one row for each other process (count, then insert); a message that
is overtaken by one with a higher id is never shown to a reader who has seen the
higher one; a page misses what is stored between its history query and its
subscription until it reconnects.  No document promises otherwise, so the
properties say what does hold.

### IrcGateway

`phase[c]` is how far a connection is: `new`, `open` (accepted, in the read
loop), `done` (the loop has ended, and with it the poller), `gone`
(`unregisterClientByConn` is done), `closed` (`releaseConnection` is done).  Each
deferred call is a step, so what other connections do comes between them.
`state[c]` is the `ircState`; a password stands for the account that it opens.
A command that ends in `tryAuthenticate` leaves `command[c]` at `auth`: NICK
releases the mutex before it.  JOIN, PART and KICK end in `setClientChannel`,
which is `Move` (`moveClient`, under the mutex) and then `Tell` (the send to
`linePoll`, dropped when it is full), and the target of a KICK is looked up one
step before that.  `reading[c]` is the channel of the poller; its messages are
the matter of `ChatNodes`.

`Nick` is `NickInUse` (the old entry is deleted, the new one refused) or
`NickTaken`.  `Complete` is `completeRegistration`, which writes the registry
without a collision test.  The histories `astray` and `raced` name the causes
that the properties except: a nick changed inside a channel or an entry of the
registry lost to somebody else, and an update dropped or overtaken.  A connection
that has hung up keeps only its nick and channel, since its other fields are
never read again.

What the model shows: a refused NICK leaves the client without an entry; a nick
changed inside a channel leaves its old name there; a KICK in flight can move a
client that has already gone.

### NetworkSpool

Every import is an `oputil` process; `run[i]` is what it is doing: the
directories and files still listed, the file open, the row it is at, and whether
it was given a default board and author.  A file goes from `away` over `partial`
(the tosser is writing it) to `inbound` and `processed`.  `Read` decodes the
whole file before a row is stored; a file that is not complete, does not decode,
or was moved by another run ends the run, as does a row that lacks a board or
author (`RefuseRow`) or a failing statement.  `Archive` is the rename, whose
error is ignored: the queue goes on with the file where it was.  A row is named
by what becomes of it.  An empty board message that also lacks a board or author
is left out: without defaults it stops the import, with them it is skipped.
`stored` counts a row up to two.  `Crash` kills a process anywhere.

The history `repeated` has the files that were imported by hand, by two runs at
once, or whose import crashed or failed.

### DoorTurns

Each session is one run of `Registry.Launch` after another; `phase` is the line
it is at:

    menu -> waiting -> today -> latest -> charge -> playing -> menu

`waiting` is `acquireConcurrencyLock`; `today` the `GetTurn` of `consumeTurn`;
`latest` its `GetLatestTurn`, when there is no row of today; `charge` the test
of the turns that remain and the `UpsertTurn`; `playing` the door itself, which
the deferred unlock ends.  `job` holds the locals of the call: the door, the day
(of `doorCtx.Now`, taken before the wait for the lock) and the row worked on.
Every repository call is one step and may fail: a failed GetTurn or UpsertTurn
ends the launch, a failed GetLatestTurn is taken for no row, as in the code.  A
failed UpsertTurn is taken to have written nothing.

`ledger` is the table of turns: a row is only ever written with one turn used or
more, so `used = 0` stands for a row that is not there.  `launches` and `played`
are history variables: the launches charged to a day, and to the days up to it.
`Midnight` moves the day on at any time.  Doors without daily turns
return from consumeTurn at once and are left out; a door's turn rules are
constants (the sysop can change them in the web console while a door is in use:
not modelled).  Days are days: the time zone of the day boundary (Launch takes
the UTC day, the door menu asks `TurnsRemaining` with local time) is left out.
One process launches doors (the SSH server), so one set of locks
is enough.

`InTurn` says when launches of an account and a door cannot overlap: the door
has a lock, or the account is on once.  Two of the safety properties are stated
for it.  A `shared` door has no lock, and two sessions of one account may then
be charged once for two launches (`doors/exitilus-realms` is shared and has
daily turns); no document promises otherwise, and what remains true of such a
door, for an account that is on once, is checked and proved with the rest.
`BankOnlySaves` is stated for accounts that are on once: an account
that is on twice can launch before midnight, wait for the lock while its other
session carries the unused turns over, and then use a turn of the day that is
over.

## 3. Runs

| Run | Question | Properties | Bounds, and why they are enough |
|---|---|---|---|
| `chat_rooms` | do members and presence stay in step, and do the rate limit and moderation hold over time? | `PresenceInRoom`, `RateRespected`, `SilenceHolds` | 1 nick with 2 callers, 2 rooms, clock, window, burst and lengths of bans as in `MCChatRooms.cfg`: each of the five methods can act on either room of a nick that is in both, in none, or in the other; an entry can be set, in force, at its expiry, past it; the burst can be used up, slide out and be used again |
| `chat_feed` | does the service give readers what `ChatFeed` promises, and does every message arrive? | `TypeOK`, `HistoryIsRecentPosts`, `NoLossWithinCapacity`, `FeedPromise`, `EveryMessageArrives` | 2 callers, 2 subscriptions, 2 rooms, 3 messages, channel capacity and history limit as in `MCChatFeed.cfg`, fair: fan-outs of two callers overlap, channels overflow, subscriptions open and close in the middle of a fan-out |
| `session_manager` | does the manager keep its books in any order of calls? | `TypeOK`, `NodeAssignment`, `RefusedOnlyWhenFull`, `LastCallersAreLatest`, `NoticesAreTrue` | 3 session ids, 2 nodes, 2 last callers, 3 starts: refusal, reuse of a freed node, an id used again, a full list |
| `node_sessions` | do the goroutines keep nodes, rows and history right, and clean up when they leave? | `TypeOK`, `StableNode`, `RowHasOwner`, `CallerLoggedOnce`, `NoNoticeAfterSSHSignOff`, `LeavingReleases` | 2 SSH and 1 telnet session on 2 nodes, 1 crash, prune at any time, fair |
| `door_turns` | are turns charged once, capped, and saved honestly? | `TypeOK`, `LaunchesAreCharged`, `DailyCap`, `BankOnlySaves` | 3 sessions of 2 accounts, a per-user door with 2 turns and a bank of 2, an exclusive door with 1 turn and no bank, a shared door with 2 turns and a bank of 1, 2 days, failing calls: two sessions of one account contend for a lock, two accounts for the exclusive one, turns are carried over midnight, the bank fills and is used up.  Each account may enter two of the doors (roles decide that before any turn is looked at), which keeps the run finite in minutes |
| `chat_rules` | how far do the rate limit and a ban reach over processes? | `RateOverrunBounded`, `BanReachesEveryProcess` | 3 processes (SSH server, web server, IRC gateway), 4 callers of one nick, two of them in the web server, burst 1, 4 messages, 1 failing statement: two processes count before either inserts, a Post that has read the bans stores its message after the ban; `Next` without clients |
| `chat_readers` | what does a reader get to see, and does he catch up? | `TypeOK`, `ShownInOrder`, `IrcCatchesUp` | an IRC client in a process that listens, a chat page in one that polls, 2 rooms, 2 messages, channel capacity 1, history queries of 2, notifications lost, fair (`FairReaderSpec`): every order of storing, notifying, sending, polling and reconnecting two messages; a channel overflows, rooms are changed |
| `irc_gateway` | do the gateway's tables stay in step? | `TypeOK`, `ConnectionsCounted`, `RegistryNamesLiveClients`, `GhostsHaveACause`, `PollerFollowsClient` | 3 connections from one address, caps of 2, 2 nicks, 1 channel, `linePoll` of 1: refusal at the cap, two connections that compete for a nick, both channel operators, a KICK that crosses a JOIN and a dropped update |
| `network_spool` | does the import lose, repeat or hold up messages? | `TypeOK`, `NothingLost`, `DuplicatesHaveACause`, `QueueDrains` | 2 processes, 3 packets in 2 directories, one of netmail, one that needs defaults, one that is refused; 1 crash or failure, fair: two runs over one file, a crash between two rows, a bad packet last in the queue |
| `door_bank` | finding 3 | `EachLaunchTakesOneTurn` violated | 1 session, 1 door, 3 days |
| `node_signoff_text` | finding 1 | `NoNoticeAfterSignOff` violated | 1 SSH and 1 telnet session |
| `node_multiplexed` | finding 2 | `StableNode` violated | 2 channels on one SSH connection |

The named bounds of the models are `MaxMessages` and `MaxClock` (chat),
`MaxStarts` (manager), `MaxCrashes` (sessions), `MaxDays` and `MaxLaunches`
(doors; the latter is above what the doors of the run can ever give);
`MaxMessages` and `MaxFaults` in `ChatNodes`, where the first bounds the ids
drawn, and `MaxFaults` in `NetworkSpool` (crashes and failed operations).  Moderation and membership do not touch logs or streams, so `chat_feed`
uses `FairFeedSpec` (`MCChatRooms`), which leaves out those actions;
`chat_rooms` uses the whole `Spec` without subscriptions.  `chat_readers` uses
`FairReaderSpec` (`MCChatNodes`), which leaves out bans and the rate window:
they decide whether a message is stored, which the runs take as open anyhow.
`irc_gateway` uses `MCSpec` (`MCIrcGateway`): two connections of one person who
knows one password, the third connecting and hanging up before the first comes;
one logs on with SASL, the other with PASS and USER, and both may take any nick
at any time.  The proofs are about the whole `Spec`.  Between them every action
fires.  Runs with `CHECK_DEADLOCK FALSE` are those whose system stops by
itself: all messages of the bound are posted, all sessions are over.

**Fairness.**  `ChatService!FairSpec`: weak fairness of each `Send` (the loop
body neither blocks nor fails, so a running goroutine finishes it) and of
`Receive` while the subscription is open (the loops of the SSE stream and of the
IRC gateway do nothing but read until they stop, and then they close their
subscription, which the property allows; the SSH room desk does not subscribe).
Nothing is assumed of posters or of new subscriptions.
`NodeSessions!FairSpec`: weak fairness of the steps of a deferred function,
which waits for no caller; none of what callers do, of the sysop or of the
crash, which disables those steps and is allowed for in the property.
`ChatNodes!Fairness`: weak fairness of an IRC poller's history poll and of the
writing of what it returned; the poller's loop has a ticker that is ready again
and again, and Go's `select` chooses among the ready cases at random.  Nothing
is assumed of notifications, sends or the stream, so `IrcCatchesUp` does not rest
on any of them.  `NetworkSpool!FairSpec`: weak fairness of what a process that
has been started does by itself; a crash ends it.  That somebody runs the queue
again and again with defaults, and that the tosser finishes its files, are
premises of `QueueDrains` (`SysopKeepsRunning`, `TosserFinishes`), since nothing
in the code sees to it.

### Findings

1. **A telnet or websocket sign-off leaves a reconnect notice**
   (`node_signoff_text`).  `Q`, `QUIT` and `EXIT` return without MarkCleanExit
   (`internal/loginserver/session.go:84`), so `End` takes the sign-off for an
   interruption and the caller's next SSH login shows the notice.  The manager's
   test calls for no notice after a clean sign-off
   (`internal/session/manager_test.go:112`).  The SSH menu does mark it, and
   `node_sessions` (`NoNoticeAfterSSHSignOff`) shows that it never leaves a
   notice.
2. **Channels multiplexed on one SSH connection share a node**
   (`node_multiplexed`).  The session id is that of the connection
   (`internal/sshserver/server.go:208`), Start returns the state that is already
   there, and the first channel to close ends it for all: the node is free while
   a caller is still on it.  `docs/prd/PRD-01-session-and-rendering.md:10` says
   "Every SSH session has a stable node id."  With one channel per connection
   (`node_sessions`) the statement holds.
3. **A turn from the time bank costs two** (`door_bank`).  Past the daily turns
   a launch raises `TurnsUsed` and also lowers `TimeBank`
   (`internal/doors/doors.go:537`), and what is left is daily + bank - used, so
   half of what was saved is lost.  `docs/doors.md:171` says "If a door has
   `daily_turns > 0`, each launch consumes one turn."  `BankOnlySaves` and
   `DailyCap` hold all the same: the error is never in the caller's favour.

## 4. What is proved

For every value of the constants that satisfies the named assumptions
(`SessionConstants`, `NodeSessionConstants`, `ChatConstants`, `DoorConstants`,
`NodeConstants`, `IrcConstants`, `SpoolConstants`), so for any number of callers,
terminals, nodes, rooms, messages, doors, turns, days, channel capacities,
processes, connections, packets and faults.  Every invariant and action property
that a passing run checks is the subject of a theorem.  Three theorems about
`NodeSessions` have one more hypothesis, `OwnIds`: no two terminals have the same
session id.  It holds where a client opens one channel on its SSH connection;
where it opens more, `StableNode` is false (finding 2), so the hypothesis is
needed.

`SessionManagerProofs`
- `TypeCorrect`: `Spec => []TypeOK`.
- `NodesAreAssigned`: `NodeAssignment`.  It is inductive relative to `TypeOK`;
  the step for Start needs that `LowestFree` is a free node, which is the
  well-foundedness of the naturals (`LeastElement`, `LowestFreeIsFree`).
- `RefusalMeansFull`: from `NodeAssignment`, the free nodes are none exactly
  when the map from live sessions to nodes is a bijection onto all nodes, so the
  cardinalities agree.
- `LastCallersCorrect`, `NoticesCorrect`: inductive relative to `TypeOK`; the
  work is in the index arithmetic of appending to `ended` while cutting
  `lastCallers`.

`NodeSessionsProofs`
- It instantiates `SessionManagerProofs` for the manager of the callers, so what
  is proved there of the manager holds here for every step that is one of its
  calls (`CallsManager`), and a crash makes it empty.
- `TypeCorrect` and `RowsAreOwned` (`RowHasOwner`), without `OwnIds`: a row
  belongs to a session until its goroutine deletes it (`Owns`), even when another
  channel of the same connection has ended the session.
- `NodeStaysStable`, `CallersAreLoggedOnce`, `SignOffLeavesNoNotice`: `StableNode`,
  `CallerLoggedOnce` and `NoNoticeAfterSSHSignOff`.  None is inductive.  `OwnInv`
  says of each terminal what its goroutine finds and leaves at each phase (`Own`):
  the manager knows the session, with the node the caller was told, from Start to
  End and no longer (`Held`); Get finds it until then, so the deferred function
  does not skip the caller history (`Logged`); the clean mark of a sign-off stays
  until End reads it (`Noticed`).  A step of another terminal leaves all of that
  alone (`Apart`), because its calls name another id.

`ChatServiceProofs`
- `PresenceCorrect`: `PresenceInRoom`, inductive with `RoomsTyped`.
- `TypeCorrect`: `TypeOK`, with the rate windows, the entries of the moderation
  maps and the capacity of every Go channel.
- `RateIsRespected`: `RateRespected`.  `RateInv` adds that every message of a nick
  that is still within the window has its entry in the nick's rate list: pruning
  never drops one that may count, so a list that leaves room means that fewer
  than the burst were accepted.
- `SilenceIsKept`: `SilenceHolds`, an action property, from the types and from
  messages being numbered in the order of the log.
- `HistoriesAreRecentPosts`: `HistoryIsRecentPosts`, by the indices of appending
  to a bounded list.

`ChatFeedProofs`
- `FeedInvariant` and `FeedImplemented`: `Spec => FeedPromise`, the refinement.
  `FeedPromise` alone is not inductive: that a `Send` is an `Offer` needs to know
  what is in flight.  The invariant `FeedInv` says that message ids are positions
  of `posted` (`nextID = Len(posted)`), that a subscription starts no later than
  now (`SinceOK`), that a message in flight to s was posted by the caller that
  sends it, to the room of s and after s opened, and is not in the stream of s,
  nor is any later message of that caller (`InFlightOK`), and that the ids in
  a stream are posted messages (`StreamOK`).  Then every step maps to a step of
  `ChatFeed` or to a stutter: Post to Publish (or a stutter when it is refused),
  a Send that gets through to Offer, Subscribe to Attach, Unsubscribe to Detach,
  and Receive to a stutter, since it moves a message from the channel to
  `received` inside the same stream.
- `NothingLostWithinCapacity`: `NoLossWithinCapacity`, with `FeedInv` and with
  what is in a stream being there once (`DistinctOK`).  A `Send` drops only when
  the channel is full; then the messages in the stream and the one in hand are
  more than the capacity and all were addressed to the subscription.

`DoorTurnsProofs`
- `LedgerTyped`, `NoLaunchForgotten`, `LaunchesCapped`: `TypeOK`,
  `LaunchesAreCharged` and `DailyCap`.  They are not inductive, since a row is
  read in one step and written in a later one.  The invariant `DoorInv` adds that
  no two launches that exclude one another are inside the lock (`Serial`), and
  that the row a launch works on still is the row of the ledger
  (`WorksOnLedger`).  The step for Charge is the one that matters: the ledger row
  it changes can be the row of another launch inside only if both have the same
  account and door, which `Serial` rules out for doors with a lock, and having no
  other session rules out for an account that is on once.
- `BankNeverLends`: `BankOnlySaves`, which speaks of all days and of nothing a
  step can see, so it needs an invariant about the latest row (`Savings`): what
  was played up to that row, plus its bank, plus its unused turns, is within the
  daily turns of the days up to it, and nothing was played after it.  A launch on
  a new day opens with what that row leaves at most (`OpeningIsSaved`), and every
  charge takes one from a row's unused turns and bank together, or more
  (`ChargePays`).  Both need that no row is later than the day of the launch
  under way (`DaysInOrder`), which is where an account that is on twice fails,
  and that the row a launch works on holds no more than the ledger
  (`DrawsOnBank`).

`ChatNodesProofs`
- `RateOverrunIsBounded`.  The bound is not inductive: what matters are the
  processes between count and charge.  `RateRoom` bounds the rate of a nick plus
  the number of processes that are about to charge it; one that passes the count
  saw less than the burst, and each of the others has at most one charge under
  way.
- `BanReachesAll`: likewise, `SlipRoom` bounds `slipped` plus the number of
  processes whose Post is past the test of the ban.  The process that bans has its
  own mutex then, so no Post of it is among them.
- `TypeCorrect`: `TypeOK`, from `PostsInv` and `ReadersTyped`.  The ids drawn and
  the Posts that may still draw one are counted together against the bound, and
  every id that a queue, fan-out, goroutine, channel or client has is that of a
  committed message, so none is invented or shown before it is stored.
- `MessagesAreShownInOrder`: `ShownInOrder`.  `ReadersInv` says of each client
  that what a history query returned is newer than what it shows, that a poller's
  cursor is the last message it wrote (`InOrder`), that a channel that is closed
  has nothing on its way to it (`Plumbing`), and, of a live stream whose cursor
  lags behind what the page shows, that everything on its way is newer all the
  same (`Above`): what waits in the channel, what the feeding goroutine holds,
  what a Post has still to send, and the id that the Post under the process's
  mutex has drawn.  The last is the heart of it.  `Subscribe` waits for the mutex,
  so at that moment no Post of its process has an id in hand, and `lastID` is set
  to the highest id stored; without the mutex (drop `Unlocked` from
  `StreamSubscribe`) the step cannot be proved.

`IrcGatewayProofs`
- `IrcTypesHold`, `ConnectionsAreCounted`, `RegistryNamesOnlyLiveClients`,
  `GhostsHaveTheirCause`, `PollersFollow`, all from one invariant `IrcInv`, since
  they need each other: that an entry names a live client needs that a client in
  a channel or about to be moved has a nick; that a channel has no ghost needs
  that a connection which is not `astray` still has its registry entry
  (`Registered`), for only then does `unregisterClientByConn` clean up; the
  counts need the cardinality of a set that a step enlarges or shrinks by one.
  `Members` says more than `GhostsHaveACause`: the step for `Move` needs that a
  client has entries in no channel but its own.

`NetworkSpoolProofs`
- `NoMessageLost`: `UpToRow` says that the rows before the one a run is at are
  stored or skipped, whatever other runs do, so they all are when the run is past
  the last row and renames the file (`PutAway`).
- `NoDuplicateWithoutCause`: a file not in `repeated` has at most one run on it
  and is still inbound while it has (`Alone`); a row of it that no later row can
  stop is stored at most once, and then the file is processed or that run is past
  the row (`StoredOnce`).
- `TypeCorrect`: `TypeOK`.  The part beyond `SpoolInv` is that a run with a file
  open is at one of its rows or just past the last, and that the file decodes and
  was complete when it was opened (`AtARow`); files only move on (`FilesMoveOn`).

The invariants `BankInv`, `PostsInv` and `ReadersInv` were checked by TLC on the
instances of `door_turns` and `chat_readers` before they were proved.

Only model-checked: the four liveness properties, `EveryMessageArrives`,
`IrcCatchesUp`, `QueueDrains` and `LeavingReleases`, since the proof system does
neither fairness nor ENABLED; and the findings, which are counterexamples.

## 5. What is left out, and the plan

Abstracted: times other than those of bans and the rate window, addresses,
message bodies, reasons, the moderation audit list, event-bus notices, the
spelling of nicks, rooms and handles, screens between login and sign-off.
Message retention by age and all `chat_*` tables belong to database mode.

Not modelled for good: rendering, menus, ACS and MCI text, configuration,
discovery, gateway and content fetches, operator commands (no state between
calls, or only input and output); mail, whose operations are single-row writes.

Not modelled, though there is state: the room locks, accounts, download tickets,
message boards, the event bus and the module manager.  Their hazards are in
`PROJECT.json` without a property.  They are of one kind, single requests that
read, test and write without a lock around the three; a module for one of them
would be a handful of actions, and the order of worth is accounts, tickets, room
locks (`docs/chat.md:44`), modules with the event bus, boards.  Most of the
repository's lines are pages, scripts, styles, door games, repository code that
is SQL text, and rendering: a state machine of them would say nothing that the
text of the code does not, which is why the modules cover a small share of the
lines.

Of the modelled components: presence and members in database mode, retention,
and several tabs of one user, of which the first leaves the room for all
(`cmd/wolfbbs-web/main.go:16784`).  `docs/irc-compat.md:21` says that changes of
nick are guarded by collision checks; `completeRegistration` has none, which
`IrcGateway` models and `GhostsHaveACause` excepts by its cause.

Proofs to come: that `ChatNodes` gives a reader the subset of an abstract feed
(stated, so far, as `ShownInOrder` over the rows), and the safety half of
`LeavingReleases`, that a goroutine past its deferred function holds no node and
no row.

## 6. Running

    tlc -workers 2 -config MCChatFeed.cfg MCChatRooms.tla
    tlapm ChatFeedProofs.tla

The run names, modules and configurations are in `PROJECT.json`.
