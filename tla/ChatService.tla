---------------------------- MODULE ChatService ----------------------------
(***************************************************************************)
(* The shared chat service of internal/chat/service.go, in the in-memory   *)
(* mode the program uses when no database is configured: rooms and their   *)
(* members, presence, bans and mutes, the rate limit, the room histories,  *)
(* and the fan-out of a posted message to the subscribers of its room.     *)
(*                                                                         *)
(* Every exported method takes the service mutex for its whole effect and  *)
(* is one action here, with one exception: Post releases the mutex before  *)
(* it sends to the subscriptions it snapshotted, so its fan-out is a       *)
(* sequence of Send steps that interleave with everything else.            *)
(*                                                                         *)
(* Callers are goroutines (an SSH session, an IRC connection, one HTTP     *)
(* request): each has one nick and runs at most one Post at a time, but a  *)
(* nick may have several callers.  Nicks and channels are already in the   *)
(* normal form that normalizeNick and normalizeChannel produce.  Message   *)
(* bodies, reasons, the audit list and the event-bus notices are left out. *)
(***************************************************************************)
EXTENDS Integers, Sequences, FiniteSets

CONSTANTS
  Nicks,         \* normalised nicks
  Channels,      \* normalised channel names
  NoArea,        \* the empty Area of a Presence
  Callers,       \* goroutines that call Post
  NickOf,        \* the nick each caller speaks as
  Subs,          \* subscription identities (nextSubID): each is used once
  BanDurations,  \* durations of a Ban or Mute; 0 is "no expiry"
  HistoryLimit,  \* Service.historyLimit
  RateBurst,     \* Service.rateBurst
  RateWindow,    \* Service.rateWindowSz, in clock units
  BufferCap,     \* capacity of a subscription channel (32 in the code)
  MaxMessages,   \* bound of the model: messages ever accepted
  MaxClock       \* bound of the model: clock value

ASSUME ChatConstants ==
  /\ NoArea \notin Channels
  /\ NickOf \in [Callers -> Nicks]
  /\ BanDurations \subseteq Nat
  /\ HistoryLimit \in Nat \ {0}
  /\ RateBurst \in Nat \ {0}
  /\ RateWindow \in Nat \ {0}
  /\ BufferCap \in Nat \ {0}
  /\ MaxMessages \in Nat
  /\ MaxClock \in Nat

VARIABLES
  members,   \* channels[c]: the nicks of each channel
  presence,  \* presence[n]: Area and Online
  history,   \* history[c]: the retained messages of each channel
  nextID,    \* the last message id handed out
  rate,      \* rateWindow[n]: the accepted posts still kept, by time; the id
             \* tells apart two of the same time
  bans,      \* bans[c][n]: its ExpiresAt, see NoEntry and Permanent
  mutes,     \* mutes[c][n], likewise
  subs,      \* each subscription: its channel, phase and lastID
  buffer,    \* the messages waiting in each subscription's Go channel
  outgoing,  \* each caller's Post in its fan-out: the message, the subs left
  clock,     \* time.Now(), as a bounded counter
  posted,    \* history variable: every accepted message, by id
  received   \* history variable: the ids each subscriber has taken out

moderation == <<bans, mutes>>
rooms      == <<members, presence>>
log        == <<history, nextID, posted>>
streams    == <<subs, buffer, received>>
vars == <<members, presence, history, nextID, rate, bans, mutes, subs,
          buffer, outgoing, clock, posted, received>>

-----------------------------------------------------------------------------
(* An entry of bans or mutes is its ExpiresAt.  The zero time means it     *)
(* never expires; an absent entry is NoEntry.                              *)
NoEntry   == -1
Permanent == 0

InForce(e) == e = Permanent \/ e > clock

Expiry(d) == IF d = 0 THEN Permanent ELSE clock + d

(* Mutant: the zero time is taken for a time long past. *)
CleanExpiredZero(entries) ==
  [c \in Channels |-> [n \in Nicks |->
    IF clock > entries[c][n] THEN NoEntry ELSE entries[c][n]]]

(* cleanExpiredModeration deletes an entry strictly after its expiry. *)
CleanExpired(entries) ==
  [c \in Channels |-> [n \in Nicks |->
    IF entries[c][n] > Permanent /\ clock > entries[c][n]
      THEN NoEntry
      ELSE entries[c][n]]]

Silenced(n, c) == InForce(bans[c][n]) \/ InForce(mutes[c][n])

(* Mutant: the window is one unit short. *)
KeptTimesShort(n) == {e \in rate[n] : e.at > clock - RateWindow + 1}

(* The timestamps of a nick that are still inside the rate window. *)
KeptTimes(n) == {e \in rate[n] : e.at > clock - RateWindow}

(* Mutant: the wrong end of the slice is kept. *)
TrimNewest(h) == IF Len(h) > HistoryLimit THEN SubSeq(h, 1, HistoryLimit) ELSE h

(* The last HistoryLimit messages of a channel history. *)
Trim(h) == IF Len(h) > HistoryLimit
             THEN SubSeq(h, Len(h) - HistoryLimit + 1, Len(h))
             ELSE h

LatestMessageID(c) == IF history[c] = <<>>
                        THEN 0
                        ELSE history[c][Len(history[c])].id

NoSub  == [chan |-> NoArea, phase |-> "fresh", lastID |-> 0, since |-> 0]
Idle   == [id |-> 0, to |-> {}]
Absent == [area |-> NoArea, online |-> FALSE]

Init ==
  /\ members  = [c \in Channels |-> {}]
  /\ presence = [n \in Nicks |-> Absent]
  /\ history  = [c \in Channels |-> <<>>]
  /\ nextID   = 0
  /\ rate     = [n \in Nicks |-> {}]
  /\ bans     = [c \in Channels |-> [n \in Nicks |-> NoEntry]]
  /\ mutes    = [c \in Channels |-> [n \in Nicks |-> NoEntry]]
  /\ subs     = [s \in Subs |-> NoSub]
  /\ buffer   = [s \in Subs |-> <<>>]
  /\ outgoing = [p \in Callers |-> Idle]
  /\ clock    = 0
  /\ posted   = <<>>
  /\ received = [s \in Subs |-> <<>>]

-----------------------------------------------------------------------------
(* Rooms and presence.                                                     *)

Enter(n, c) ==
  /\ members'  = [members EXCEPT ![c] = @ \cup {n}]
  /\ presence' = [presence EXCEPT ![n] = [area |-> c, online |-> TRUE]]

JoinChannel(n, c) ==
  /\ Enter(n, c)
  /\ UNCHANGED <<log, rate, moderation, streams, outgoing, clock>>

(* firstChannelForNickLocked: a map iteration picks any room still joined. *)
RemainingRooms(n, c) ==
  LET rest == {d \in Channels \ {c} : n \in members[d]}
  IN  IF rest = {} THEN {NoArea} ELSE rest

LeaveChannel(n, c) ==
  /\ members' = [members EXCEPT ![c] = @ \ {n}]
  /\ \E next \in RemainingRooms(n, c) :
       presence' = IF presence[n].area = c
                     THEN [presence EXCEPT ![n] =
                             [area |-> next, online |-> next # NoArea]]
                     ELSE presence
  /\ UNCHANGED <<log, rate, moderation, streams, outgoing, clock>>

(* Mutant: only the member list is updated. *)
ExpelMemberOnly(n, c) ==
  /\ members' = [members EXCEPT ![c] = @ \ {n}]
  /\ UNCHANGED presence

(* What Ban and Kick share: the nick is put out of the room, and a         *)
(* presence in that room loses its Area but keeps its Online flag.         *)
Expel(n, c) ==
  /\ members'  = [members EXCEPT ![c] = @ \ {n}]
  /\ presence' = IF presence[n].area = c
                   THEN [presence EXCEPT ![n].area = NoArea]
                   ELSE presence

Kick(n, c) ==
  /\ Expel(n, c)
  /\ UNCHANGED <<log, rate, moderation, streams, outgoing, clock>>

Ban(n, c, d) ==
  /\ bans' = [bans EXCEPT ![c][n] = Expiry(d)]
  /\ Expel(n, c)
  /\ UNCHANGED <<log, rate, mutes, streams, outgoing, clock>>

Unban(n, c) ==
  /\ bans' = [bans EXCEPT ![c][n] = NoEntry]
  /\ UNCHANGED <<rooms, log, rate, mutes, streams, outgoing, clock>>

Mute(n, c, d) ==
  /\ mutes' = [mutes EXCEPT ![c][n] = Expiry(d)]
  /\ UNCHANGED <<rooms, log, rate, bans, streams, outgoing, clock>>

Unmute(n, c) ==
  /\ mutes' = [mutes EXCEPT ![c][n] = NoEntry]
  /\ UNCHANGED <<rooms, log, rate, bans, streams, outgoing, clock>>

(* IsBanned and IsMuted prune the expired entries before they answer. *)
QueryModeration ==
  /\ bans'  = CleanExpired(bans)
  /\ mutes' = CleanExpired(mutes)
  /\ UNCHANGED <<rooms, log, rate, streams, outgoing, clock>>

-----------------------------------------------------------------------------
(* Posting.                                                                *)

(* Mutant: the subscribers of all rooms. *)
OpenSubsAnywhere(c) == {s \in Subs : subs[s].phase = "open"}

OpenSubs(c) == {s \in Subs : subs[s].phase = "open" /\ subs[s].chan = c}

PostSilenced(p, c) ==
  /\ Silenced(NickOf[p], c)
  /\ UNCHANGED <<rooms, log, rate, streams, outgoing>>

PostRateLimited(p, c) ==
  LET n == NickOf[p] IN
  /\ ~Silenced(n, c)
  /\ Cardinality(KeptTimes(n)) >= RateBurst
  /\ rate' = [rate EXCEPT ![n] = KeptTimes(n)]
  /\ UNCHANGED <<rooms, log, streams, outgoing>>

PostAccepted(p, c) ==
  LET n   == NickOf[p]
      id  == nextID + 1
      msg == [id |-> id, chan |-> c, from |-> n, by |-> p, at |-> clock]
  IN
  /\ ~Silenced(n, c)
  /\ Cardinality(KeptTimes(n)) < RateBurst
  /\ id <= MaxMessages
  /\ rate'     = [rate EXCEPT ![n] =
                     KeptTimes(n) \cup {[id |-> id, at |-> clock]}]
  /\ nextID'   = id
  /\ history'  = [history EXCEPT ![c] = Trim(Append(@, msg))]
  /\ posted'   = Append(posted, msg)
  /\ Enter(n, c)
  /\ subs'     = [s \in Subs |-> IF s \in OpenSubs(c)
                                   THEN [subs[s] EXCEPT !.lastID = id]
                                   ELSE subs[s]]
  /\ outgoing' = IF OpenSubs(c) = {}
                   THEN outgoing
                   ELSE [outgoing EXCEPT ![p] = [id |-> id, to |-> OpenSubs(c)]]
  /\ UNCHANGED <<buffer, received>>

(* Post up to the point where it unlocks: expired entries are pruned, then *)
(* the bans, the mutes and the rate limit decide.                          *)
Post(p, c) ==
  /\ outgoing[p] = Idle
  /\ bans'  = CleanExpired(bans)
  /\ mutes' = CleanExpired(mutes)
  /\ PostSilenced(p, c) \/ PostRateLimited(p, c) \/ PostAccepted(p, c)
  /\ UNCHANGED clock

(* Mutant: the recover is around the loop, a closed channel ends it. *)
SendRecoverOutside(p, s) ==
  /\ s \in outgoing[p].to
  /\ LET left == outgoing[p].to \ {s}
     IN  outgoing' = [outgoing EXCEPT ![p] =
                        IF left = {} \/ subs[s].phase = "closed"
                          THEN Idle ELSE [@ EXCEPT !.to = left]]
  /\ buffer' = IF subs[s].phase = "open" /\ Len(buffer[s]) < BufferCap
                 THEN [buffer EXCEPT ![s] = Append(@, outgoing[p].id)]
                 ELSE buffer
  /\ UNCHANGED <<rooms, log, rate, moderation, subs, received, clock>>

(* Mutant: the buffer grows instead of dropping. *)
SendUnbounded(p, s) ==
  /\ s \in outgoing[p].to
  /\ LET left == outgoing[p].to \ {s}
     IN  outgoing' = [outgoing EXCEPT ![p] =
                        IF left = {} THEN Idle ELSE [@ EXCEPT !.to = left]]
  /\ buffer' = IF subs[s].phase = "open"
                 THEN [buffer EXCEPT ![s] = Append(@, outgoing[p].id)]
                 ELSE buffer
  /\ UNCHANGED <<rooms, log, rate, moderation, subs, received, clock>>

(* One iteration of the fan-out loop, without the mutex.  The send never   *)
(* blocks: a full channel drops the message, and a send on a channel that  *)
(* was closed meanwhile panics and is recovered.                           *)
Send(p, s) ==
  /\ s \in outgoing[p].to
  /\ LET left == outgoing[p].to \ {s}
     IN  outgoing' = [outgoing EXCEPT ![p] =
                        IF left = {} THEN Idle ELSE [@ EXCEPT !.to = left]]
  /\ buffer' = IF subs[s].phase = "open" /\ Len(buffer[s]) < BufferCap
                 THEN [buffer EXCEPT ![s] = Append(@, outgoing[p].id)]
                 ELSE buffer
  /\ UNCHANGED <<rooms, log, rate, moderation, subs, received, clock>>

-----------------------------------------------------------------------------
(* Subscriptions.                                                          *)

(* since is a history variable: the last id handed out when it was opened. *)
Subscribe(s, c) ==
  /\ subs[s].phase = "fresh"
  /\ subs' = [subs EXCEPT ![s] = [chan |-> c, phase |-> "open",
                                  lastID |-> LatestMessageID(c),
                                  since |-> nextID]]
  /\ UNCHANGED <<rooms, log, rate, moderation, buffer, received, outgoing,
                 clock>>

Unsubscribe(s) ==
  /\ subs[s].phase = "open"
  /\ subs' = [subs EXCEPT ![s].phase = "closed"]
  /\ UNCHANGED <<rooms, log, rate, moderation, buffer, received, outgoing,
                 clock>>

(* The subscriber takes one message out of its Go channel.  A closed       *)
(* channel still yields what was buffered before it was closed.            *)
Receive(s) ==
  /\ buffer[s] # <<>>
  /\ buffer'   = [buffer EXCEPT ![s] = Tail(@)]
  /\ received' = [received EXCEPT ![s] = Append(@, Head(buffer[s]))]
  /\ UNCHANGED <<rooms, log, rate, moderation, subs, outgoing, clock>>

Tick ==
  /\ clock < MaxClock
  /\ clock' = clock + 1
  /\ UNCHANGED <<rooms, log, rate, moderation, streams, outgoing>>

-----------------------------------------------------------------------------
RoomStep ==
  \E n \in Nicks, c \in Channels :
    \/ JoinChannel(n, c)
    \/ LeaveChannel(n, c)
    \/ Kick(n, c)
    \/ Unban(n, c)
    \/ Unmute(n, c)
    \/ \E d \in BanDurations : Ban(n, c, d) \/ Mute(n, c, d)

FeedStep ==
  \/ \E p \in Callers, c \in Channels : Post(p, c)
  \/ \E p \in Callers, s \in Subs : Send(p, s)
  \/ \E s \in Subs, c \in Channels : Subscribe(s, c)
  \/ \E s \in Subs : Unsubscribe(s) \/ Receive(s)

Next == RoomStep \/ FeedStep \/ QueryModeration \/ Tick

Spec == Init /\ [][Next]_vars

(* A goroutine inside the fan-out loop never blocks, so it finishes it; a  *)
(* subscriber loop (SSE stream, IRC poller) reads until it unsubscribes.   *)
Fairness ==
  /\ \A p \in Callers, s \in Subs : WF_vars(Send(p, s))
  /\ \A s \in Subs : WF_vars(subs[s].phase = "open" /\ Receive(s))

FairSpec == Spec /\ Fairness

-----------------------------------------------------------------------------
(* Properties.                                                             *)

Messages == [id : Nat, chan : Channels, from : Nicks, by : Callers, at : Nat]

Entries == [Channels -> [Nicks -> Int]]

RoomsTyped ==
  /\ members  \in [Channels -> SUBSET Nicks]
  /\ presence \in [Nicks -> [area : Channels \cup {NoArea}, online : BOOLEAN]]

ModerationTyped ==
  /\ bans  \in Entries
  /\ mutes \in Entries

Subscriptions == [chan : Channels \cup {NoArea},
                  phase : {"fresh", "open", "closed"},
                  lastID : Nat, since : Nat]

StreamsTyped ==
  /\ clock    \in Nat
  /\ history  \in [Channels -> Seq(Messages)]
  /\ posted   \in Seq(Messages)
  /\ nextID   \in Nat
  /\ subs     \in [Subs -> Subscriptions]
  /\ buffer   \in [Subs -> Seq(Nat)]
  /\ received \in [Subs -> Seq(Nat)]
  /\ outgoing \in [Callers -> [id : Nat, to : SUBSET Subs]]

(* Type invariant of the chat service: the shape of its maps, of the Go    *)
(* channels (never over capacity) and of the Post calls in flight.         *)
TypeOK ==
  /\ RoomsTyped
  /\ ModerationTyped
  /\ StreamsTyped
  /\ rate \in [Nicks -> SUBSET [id : Nat, at : Nat]]
  /\ \A s \in Subs : Len(buffer[s]) <= BufferCap

(* The roster never lies about where somebody is: whenever presence places *)
(* a nick in a room, the nick is a member of that room and is online.      *)
(* Join, Leave, Kick, Ban and Post keep the two maps of service.go in step *)
(* by hand, each in its own way.                                           *)
PresenceInRoom ==
  \A n \in Nicks : presence[n].area # NoArea =>
    /\ n \in members[presence[n].area]
    /\ presence[n].online

(* The history a room serves is exactly the last HistoryLimit messages     *)
(* accepted for that room, in the order they were accepted: nothing is     *)
(* lost, repeated, reordered or taken from another room (Post, 748-755).   *)
HistoryIsRecentPosts ==
  \A c \in Channels : LET kept == history[c] IN
    /\ Len(kept) <= HistoryLimit
    /\ \A k \in 1..Len(kept) :
         /\ kept[k].id \in 1..Len(posted)
         /\ kept[k] = posted[kept[k].id] /\ kept[k].chan = c
         /\ \A j \in 1..k-1 : kept[j].id < kept[k].id
    /\ \A i \in 1..Len(posted) : posted[i].chan = c =>
         \/ \E k \in 1..Len(kept) : kept[k].id = i
         \/ Len(kept) = HistoryLimit /\ i < kept[1].id

(* No nick gets more than RateBurst messages accepted within any window of *)
(* RateWindow, over all rooms and all of its callers together.             *)
RateRespected ==
  \A i \in 1..Len(posted) :
    Cardinality({j \in 1..i : /\ posted[j].from = posted[i].from
                              /\ posted[j].at > posted[i].at - RateWindow})
      <= RateBurst

(* A ban or mute in force lets no message of the nick into the room, and   *)
(* it stays in force until a moderator lifts or replaces it or its time    *)
(* runs out: pruning expired entries never takes it away.                  *)
SilenceHolds ==
  [][\A n \in Nicks, c \in Channels :
       /\ Silenced(n, c) =>
            \A i \in Len(posted)+1..Len(posted') :
              ~(posted'[i].chan = c /\ posted'[i].from = n)
       /\ InForce(bans[c][n]) =>
            \/ bans'[c][n] = bans[c][n]
            \/ Unban(n, c)
            \/ \E d \in BanDurations : Ban(n, c, d)
       /\ InForce(mutes[c][n]) =>
            \/ mutes'[c][n] = mutes[c][n]
            \/ Unmute(n, c)
            \/ \E d \in BanDurations : Mute(n, c, d)]_vars

(* What a subscriber has been given: taken out, or waiting in its channel. *)
Stream(s) == received[s] \o buffer[s]

Seen(s) == {Stream(s)[k] : k \in 1..Len(Stream(s))}

(* The ids addressed to a subscription: posted to its room since it opened. *)
Addressed(s) == {i \in 1..Len(posted) : /\ posted[i].chan = subs[s].chan
                                        /\ i > subs[s].since}

InFlight(s) == {outgoing[p].id : p \in {q \in Callers : s \in outgoing[q].to}}

(* Nothing is lost without overflow: while no more messages than one Go    *)
(* channel holds have been addressed to an open subscription, each of them *)
(* is in its stream or still in some caller's fan-out.                     *)
NoLossWithinCapacity ==
  \A s \in Subs :
    (subs[s].phase = "open" /\ Cardinality(Addressed(s)) <= BufferCap)
      => Addressed(s) = Seen(s) \cup InFlight(s)

(* The promise of ChatFeed, kept by the service: the ids of the posted     *)
(* messages are positions of the log, and a feed is the subscriber's       *)
(* stream.                                                                 *)
Feed == INSTANCE ChatFeed WITH
          log   <- [i \in 1..Len(posted) |-> [chan |-> posted[i].chan,
                                              by |-> posted[i].by]],
          scope <- [s \in Subs |-> [chan |-> subs[s].chan,
                                    phase |-> subs[s].phase,
                                    since |-> subs[s].since]],
          feed  <- [s \in Subs |-> Stream(s)]

(* Subscriptions give their readers what ChatFeed promises: at most once,  *)
(* own room only, only while open, each caller's messages in order.        *)
FeedPromise == Feed!Spec

(* Every message addressed to an open subscription eventually reaches its  *)
(* reader, unless the subscription is closed or falls a full buffer behind. *)
EveryMessageArrives ==
  \A s \in Subs, i \in 1..MaxMessages :
    (subs[s].phase = "open" /\ i \in Addressed(s))
      ~> \/ \E k \in 1..Len(received[s]) : received[s][k] = i
         \/ subs[s].phase = "closed"
         \/ Cardinality(Addressed(s)) > BufferCap

=============================================================================
