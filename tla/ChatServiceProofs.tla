------------------------- MODULE ChatServiceProofs -------------------------
(***************************************************************************)
(* What the chat service guarantees for every set of nicks, rooms, callers *)
(* and subscriptions, and for every limit.                                 *)
(***************************************************************************)
EXTENDS ChatFeedProofs

-----------------------------------------------------------------------------
(* Presence.                                                               *)

RoomsOK == RoomsTyped /\ PresenceInRoom

LEMMA EnterKeepsRooms ==
  ASSUME ChatConstants, RoomsOK, NEW n \in Nicks, NEW c \in Channels,
         Enter(n, c)
  PROVE  RoomsOK'
BY DEF RoomsOK, RoomsTyped, PresenceInRoom, Enter, ChatConstants

LEMMA ExpelKeepsRooms ==
  ASSUME ChatConstants, RoomsOK, NEW n \in Nicks, NEW c \in Channels,
         Expel(n, c)
  PROVE  RoomsOK'
<1>1. members' = [members EXCEPT ![c] = members[c] \ {n}]
  BY DEF Expel
<1>2. CASE presence[n].area = c
  <2>1. /\ presence' \in [Nicks -> [area : Channels \cup {NoArea},
                                   online : BOOLEAN]]
        /\ presence'[n].area = NoArea
        /\ \A x \in Nicks \ {n} : presence'[x] = presence[x]
    BY <1>2 DEF Expel, RoomsOK, RoomsTyped
  <2> QED BY <1>1, <2>1 DEF RoomsOK, RoomsTyped, PresenceInRoom
<1>3. CASE presence[n].area # c
  <2>1. presence' = presence
    BY <1>3 DEF Expel
  <2> QED BY <1>1, <1>3, <2>1 DEF RoomsOK, RoomsTyped, PresenceInRoom
<1> QED BY <1>2, <1>3

LEMMA LeaveKeepsRooms ==
  ASSUME ChatConstants, RoomsOK, NEW n \in Nicks, NEW c \in Channels,
         LeaveChannel(n, c)
  PROVE  RoomsOK'
<1>1. members' = [members EXCEPT ![c] = members[c] \ {n}]
  BY DEF LeaveChannel
<1>2. PICK next \in RemainingRooms(n, c) :
        presence' = IF presence[n].area = c
                      THEN [presence EXCEPT ![n] =
                              [area |-> next, online |-> next # NoArea]]
                      ELSE presence
  BY DEF LeaveChannel
<1>3. \/ next = NoArea
      \/ next \in Channels \ {c} /\ n \in members[next]
  BY <1>2 DEF RemainingRooms
<1>4. CASE presence[n].area = c
  BY <1>1, <1>2, <1>3, <1>4
     DEF RoomsOK, RoomsTyped, PresenceInRoom, ChatConstants
<1>5. CASE presence[n].area # c
  BY <1>1, <1>2, <1>5 DEF RoomsOK, RoomsTyped, PresenceInRoom
<1> QED BY <1>4, <1>5

(* Every step either enters, leaves or expels, or leaves the rooms alone. *)
LEMMA RoomsStep ==
  ASSUME ChatConstants, RoomsOK, [Next]_vars
  PROVE  RoomsOK'
<1>1. ASSUME UNCHANGED rooms PROVE RoomsOK'
  BY <1>1 DEF rooms, RoomsOK, RoomsTyped, PresenceInRoom
<1>2. CASE RoomStep
  <2>1. PICK n \in Nicks, c \in Channels :
          \/ JoinChannel(n, c) \/ LeaveChannel(n, c) \/ Kick(n, c)
          \/ Unban(n, c) \/ Unmute(n, c)
          \/ \E d \in BanDurations : Ban(n, c, d) \/ Mute(n, c, d)
    BY <1>2, Zenon DEF RoomStep
  <2> QED
    BY <1>1, <2>1, EnterKeepsRooms, ExpelKeepsRooms, LeaveKeepsRooms
       DEF JoinChannel, Kick, Unban, Unmute, Ban, Mute
<1>3. ASSUME NEW p \in Callers, NEW c \in Channels, Post(p, c)
      PROVE  RoomsOK'
  <2>1. NickOf[p] \in Nicks
    BY DEF ChatConstants
  <2> QED BY <1>1, <1>3, <2>1, EnterKeepsRooms
          DEF Post, PostSilenced, PostRateLimited, PostAccepted
<1>4. ASSUME NEW p \in Callers, NEW s \in Subs, Send(p, s) PROVE RoomsOK'
  BY <1>1, <1>4 DEF Send
<1>5. ASSUME NEW s \in Subs, NEW c \in Channels, Subscribe(s, c)
      PROVE  RoomsOK'
  BY <1>1, <1>5 DEF Subscribe
<1>6. ASSUME NEW s \in Subs, Unsubscribe(s) \/ Receive(s) PROVE RoomsOK'
  BY <1>1, <1>6 DEF Unsubscribe, Receive
<1>7. CASE QueryModeration \/ Tick
  BY <1>1, <1>7 DEF QueryModeration, Tick
<1>8. CASE UNCHANGED vars
  BY <1>1, <1>8 DEF vars, rooms
<1> QED BY <1>2, <1>3, <1>4, <1>5, <1>6, <1>7, <1>8 DEF Next, FeedStep

(* Presence never places a nick in a room it is not a member of.           *)
THEOREM PresenceCorrect == Spec => []PresenceInRoom
<1>1. Init => RoomsOK
  BY ChatConstants DEF Init, RoomsOK, RoomsTyped, PresenceInRoom, Absent
<1>2. RoomsOK /\ [Next]_vars => RoomsOK'
  BY ChatConstants, RoomsStep
<1>3. RoomsOK => PresenceInRoom
  BY DEF RoomsOK
<1> QED BY <1>1, <1>2, <1>3, PTL DEF Spec
-----------------------------------------------------------------------------
(* Types.                                                                  *)

RateTyped == rate \in [Nicks -> SUBSET [id : Nat, at : Nat]]

LEMMA CleanExpiredType ==
  ASSUME NEW e \in Entries
  PROVE  CleanExpired(e) \in Entries
BY DEF Entries, CleanExpired, NoEntry

LEMMA EntryUpdateType ==
  ASSUME NEW e \in Entries, NEW n \in Nicks, NEW c \in Channels, NEW x \in Int
  PROVE  [e EXCEPT ![c][n] = x] \in Entries
<1>1. e[c] \in [Nicks -> Int]
  BY DEF Entries
<1>2. [e[c] EXCEPT ![n] = x] \in [Nicks -> Int]
  BY <1>1
<1>3. [e EXCEPT ![c][n] = x] = [e EXCEPT ![c] = [e[c] EXCEPT ![n] = x]]
  OBVIOUS
<1> QED BY <1>2, <1>3 DEF Entries

LEMMA ExpiryType ==
  ASSUME ChatConstants, clock \in Nat, NEW d \in BanDurations
  PROVE  Expiry(d) \in Int
BY DEF ChatConstants, Expiry, Permanent

LEMMA ModerationStep ==
  ASSUME ChatConstants, clock \in Nat, ModerationTyped, [Next]_vars
  PROVE  ModerationTyped'
<1>1. ASSUME UNCHANGED moderation PROVE ModerationTyped'
  BY <1>1 DEF moderation, ModerationTyped
<1>2. ASSUME bans' = CleanExpired(bans), mutes' = CleanExpired(mutes) PROVE ModerationTyped'
  BY <1>2, CleanExpiredType DEF ModerationTyped
<1>3. ASSUME NEW n \in Nicks, NEW c \in Channels, NEW d \in BanDurations,
             Ban(n, c, d) \/ Mute(n, c, d)
      PROVE  ModerationTyped'
  <2>1. Expiry(d) \in Int
    BY ExpiryType
  <2> QED BY <1>3, <2>1, EntryUpdateType DEF Ban, Mute, ModerationTyped
<1>4. ASSUME NEW n \in Nicks, NEW c \in Channels, Unban(n, c) \/ Unmute(n, c)
      PROVE  ModerationTyped'
  <2>1. NoEntry \in Int
    BY DEF NoEntry
  <2> QED BY <1>4, <2>1, EntryUpdateType DEF Unban, Unmute, ModerationTyped
<1>5. CASE RoomStep
  BY <1>1, <1>3, <1>4, <1>5 DEF RoomStep, JoinChannel, LeaveChannel, Kick
<1>6. CASE FeedStep
  BY <1>1, <1>2, <1>6 DEF FeedStep, Post, Send, Subscribe, Unsubscribe, Receive
<1>7. CASE QueryModeration \/ Tick \/ UNCHANGED vars
  BY <1>1, <1>2, <1>7 DEF QueryModeration, Tick, vars, moderation
<1> QED BY <1>5, <1>6, <1>7 DEF Next

LEMMA RateTypedStep ==
  ASSUME ChatConstants, clock \in Nat, nextID \in Nat, RateTyped, [Next]_vars
  PROVE  RateTyped'
<1>1. ASSUME rate' = rate PROVE RateTyped'
  BY <1>1 DEF RateTyped
<1> DEFINE Posts == SUBSET [id : Nat, at : Nat]
<1>6. ASSUME NEW n \in Nicks, NEW r \in Posts, rate' = [rate EXCEPT ![n] = r]
      PROVE  RateTyped'
  BY <1>6 DEF RateTyped
<1>7. \A n \in Nicks : KeptTimes(n) \in Posts
  BY DEF KeptTimes, RateTyped
<1>2. ASSUME NEW p \in Callers, NEW c \in Channels, PostRateLimited(p, c)
      PROVE  RateTyped'
  <2>1. NickOf[p] \in Nicks
    BY DEF ChatConstants
  <2> HIDE DEF Posts
  <2> QED BY <1>2, <1>6, <1>7, <2>1 DEF PostRateLimited
<1>3. ASSUME NEW p \in Callers, NEW c \in Channels, PostAccepted(p, c)
      PROVE  RateTyped'
  <2>1. NickOf[p] \in Nicks
    BY DEF ChatConstants
  <2>2. [id |-> nextID + 1, at |-> clock] \in [id : Nat, at : Nat]
    OBVIOUS
  <2>3. KeptTimes(NickOf[p]) \cup {[id |-> nextID + 1, at |-> clock]} \in Posts
    BY <1>7, <2>1, <2>2
  <2>4. rate' = [rate EXCEPT ![NickOf[p]] =
                   KeptTimes(NickOf[p]) \cup {[id |-> nextID + 1, at |-> clock]}]
    BY <1>3 DEF PostAccepted
  <2> HIDE DEF Posts
  <2> QED BY <1>6, <2>1, <2>3, <2>4
<1>4. CASE RoomStep \/ QueryModeration \/ Tick \/ UNCHANGED vars
  BY <1>1, <1>4 DEF RoomStep, QueryModeration, Tick, JoinChannel, LeaveChannel, vars,
                    Kick, Unban, Unmute, Ban, Mute
<1>5. CASE FeedStep
  BY <1>1, <1>2, <1>3, <1>5
     DEF FeedStep, Post, PostSilenced, Send, Subscribe, Unsubscribe, Receive
<1> QED BY <1>4, <1>5 DEF Next

(* No Go channel is ever over its capacity.                                *)
BuffersBounded == \A s \in Subs : Len(buffer[s]) <= BufferCap

LEMMA BuffersStep ==
  ASSUME ChatConstants, StreamsTyped, BuffersBounded, [Next]_vars
  PROVE  BuffersBounded'
<1>1. ASSUME buffer' = buffer PROVE BuffersBounded'
  BY <1>1 DEF BuffersBounded
<1>2. ASSUME NEW p \in Callers, NEW r \in Subs, Send(p, r) PROVE BuffersBounded'
  <2>1. /\ \A s \in Subs \ {r} : buffer'[s] = buffer[s]
        /\ buffer[r] \in Seq(Nat) /\ outgoing[p].id \in Nat /\ BufferCap \in Nat
        /\ \/ buffer'[r] = buffer[r]
           \/ buffer'[r] = Append(buffer[r], outgoing[p].id) /\ Len(buffer[r]) < BufferCap
    BY <1>2 DEF Send, StreamsTyped, ChatConstants
  <2> QED BY <2>1 DEF BuffersBounded
<1>3. ASSUME NEW r \in Subs, Receive(r) PROVE BuffersBounded'
  <2>1. /\ \A s \in Subs \ {r} : buffer'[s] = buffer[s]
        /\ buffer[r] \in Seq(Nat) /\ buffer[r] # <<>> /\ buffer'[r] = Tail(buffer[r])
    BY <1>3 DEF Receive, StreamsTyped
  <2>2. BufferCap \in Nat /\ Len(buffer'[r]) = Len(buffer[r]) - 1 /\ Len(buffer[r]) \in Nat
    BY <2>1 DEF ChatConstants
  <2>3. Len(buffer[r]) <= BufferCap
    BY DEF BuffersBounded
  <2>4. Len(buffer'[r]) <= BufferCap
    BY <2>2, <2>3
  <2> QED BY <2>1, <2>4 DEF BuffersBounded
<1>4. CASE RoomStep \/ QueryModeration \/ Tick \/ UNCHANGED vars
  BY <1>1, <1>4 DEF RoomStep, QueryModeration, Tick, JoinChannel, LeaveChannel, vars,
                    Kick, Unban, Unmute, Ban, Mute, streams
<1>5. CASE FeedStep
  BY <1>1, <1>2, <1>3, <1>5
     DEF FeedStep, Post, PostSilenced, PostRateLimited, PostAccepted, Subscribe,
         Unsubscribe, streams
<1> QED BY <1>4, <1>5 DEF Next

(* Rooms, moderation, streams, rate windows and Go channels keep their     *)
(* shape, and no Go channel is over capacity.                              *)
THEOREM TypeCorrect == Spec => []TypeOK
<1> DEFINE Rest == ModerationTyped /\ RateTyped /\ BuffersBounded
<1>1. Init => Rest
  <2>1. Init => ModerationTyped /\ RateTyped
    BY DEF Init, ModerationTyped, Entries, NoEntry, RateTyped
  <2>2. Init => BuffersBounded
    BY ChatConstants DEF Init, BuffersBounded, ChatConstants
  <2> QED BY <2>1, <2>2
<1>2. FeedInv /\ Rest /\ [Next]_vars => Rest'
  <2>1. FeedInv => StreamsTyped /\ clock \in Nat /\ nextID \in Nat
    BY DEF FeedInv, StreamsTyped
  <2> QED BY <2>1, ChatConstants, ModerationStep, RateTypedStep, BuffersStep
<1>3. RoomsOK /\ FeedInv /\ Rest => TypeOK
  BY DEF RoomsOK, FeedInv, RateTyped, BuffersBounded, TypeOK
<1>4. Spec => []RoomsOK
  <2>1. Init => RoomsOK
    BY ChatConstants DEF Init, RoomsOK, RoomsTyped, PresenceInRoom, Absent
  <2>2. RoomsOK /\ [Next]_vars => RoomsOK'
    BY ChatConstants, RoomsStep
  <2> QED BY <2>1, <2>2, PTL DEF Spec
<1> QED BY <1>1, <1>2, <1>3, <1>4, FeedInvariant, PTL DEF Spec

-----------------------------------------------------------------------------
(* The log: every message carries its own number, and time does not go     *)
(* back.                                                                   *)

LogOK == \A i \in 1..Len(posted) : posted[i].id = i /\ posted[i].at <= clock

(* What an accepted Post does to the log; no other step touches it.        *)
LEMMA PostExtendsLog ==
  ASSUME ChatConstants, FeedInv, NEW p \in Callers, NEW c \in Channels, PostAccepted(p, c)
  PROVE  /\ nextID = Len(posted) /\ nextID \in Nat /\ Len(posted') = nextID + 1
         /\ posted'[nextID + 1] = NewMessage(p, c)
         /\ \A i \in 1..nextID : posted'[i] = posted[i]
<1>1. /\ StreamsTyped /\ nextID = Len(posted) /\ nextID \in Nat /\ posted \in Seq(Messages)
  BY DEF FeedInv, StreamsTyped
<1>2. posted' = Append(posted, NewMessage(p, c)) /\ NewMessage(p, c) \in Messages
  BY <1>1, NewMessageType DEF PostAccepted, NewMessage
<1> QED BY <1>1, <1>2

(* What changes the log, the histories and the rate windows.               *)
LEMMA OnlyPostPosts ==
  ASSUME [Next]_vars
  PROVE  \/ UNCHANGED <<log, rate, clock>>
         \/ UNCHANGED <<log, rate>> /\ clock' = clock + 1
         \/ \E p \in Callers, c \in Channels :
              PostRateLimited(p, c) /\ UNCHANGED <<log, clock>>
         \/ \E p \in Callers, c \in Channels :
              PostAccepted(p, c) /\ UNCHANGED clock
<1>1. CASE RoomStep \/ QueryModeration \/ Tick \/ UNCHANGED vars
  BY <1>1 DEF RoomStep, QueryModeration, Tick, JoinChannel, LeaveChannel, vars,
              Kick, Unban, Unmute, Ban, Mute, log
<1>2. ASSUME NEW p \in Callers, NEW c \in Channels, Post(p, c)
      PROVE  \/ UNCHANGED <<log, rate, clock>>
             \/ PostRateLimited(p, c) /\ UNCHANGED <<log, clock>>
             \/ PostAccepted(p, c) /\ UNCHANGED clock
  BY <1>2 DEF Post, PostSilenced, PostRateLimited
<1>3. CASE \/ \E p \in Callers, s \in Subs : Send(p, s)
           \/ \E s \in Subs, c \in Channels : Subscribe(s, c)
           \/ \E s \in Subs : Unsubscribe(s) \/ Receive(s)
  BY <1>3 DEF Send, Subscribe, Unsubscribe, Receive
<1> QED BY <1>1, <1>2, <1>3 DEF Next, FeedStep

LEMMA LogStep ==
  ASSUME ChatConstants, FeedInv, LogOK, [Next]_vars
  PROVE  LogOK'
<1>1. /\ clock \in Nat /\ Len(posted) \in Nat
      /\ \A i \in 1..Len(posted) : posted[i].at \in Nat
  <2>1. \A i \in 1..Len(posted) : posted[i] \in Messages
    BY DEF FeedInv, StreamsTyped
  <2> QED BY <2>1 DEF FeedInv, StreamsTyped, Messages
<1>2. CASE posted' = posted /\ (clock' = clock \/ clock' = clock + 1)
  BY <1>1, <1>2 DEF LogOK
<1>3. ASSUME NEW p \in Callers, NEW c \in Channels, PostAccepted(p, c), clock' = clock
      PROVE  LogOK'
  <2>1. /\ NewMessage(p, c).id = nextID + 1 /\ NewMessage(p, c).at = clock
    BY DEF NewMessage
  <2> QED BY <1>1, <1>3, <2>1, PostExtendsLog DEF LogOK
<1> QED BY <1>2, <1>3, OnlyPostPosts DEF log

LEMMA LogInvariant == Spec => []LogOK
<1>1. Init => LogOK
  BY DEF Init, LogOK
<1>2. FeedInv /\ LogOK /\ [Next]_vars => LogOK'
  BY ChatConstants, LogStep
<1> QED BY <1>1, <1>2, FeedInvariant, PTL DEF Spec
-----------------------------------------------------------------------------
(* The rate limit.  A message of n that may still count is in n's rate     *)
(* window, so a full window is never mistaken for a free one.              *)

RateInv ==
  /\ RateRespected
  /\ \A n \in Nicks : IsFiniteSet(rate[n])
  /\ \A n \in Nicks : \A i \in 1..Len(posted) :
       posted[i].from = n /\ posted[i].at > clock - RateWindow
         => [id |-> i, at |-> posted[i].at] \in rate[n]

Within(i) == {j \in 1..i : /\ posted[j].from = posted[i].from
                          /\ posted[j].at > posted[i].at - RateWindow}

LEMMA AcceptedIsWithinBurst ==
  ASSUME ChatConstants, FeedInv, LogOK, RateTyped, RateInv,
         NEW p \in Callers, NEW c \in Channels, PostAccepted(p, c),
         NEW next \in Nat, next = nextID + 1
  PROVE  Cardinality(Within(next)') <= RateBurst
<1> DEFINE n    == NickOf[p]
           Old  == {j \in 1..nextID : posted[j].from = n /\ posted[j].at > clock - RateWindow}
           Kept == KeptTimes(n)
           f    == [j \in Old |-> [id |-> j, at |-> posted[j].at]]
<1>1. /\ n \in Nicks /\ RateBurst \in Nat /\ RateWindow \in Nat /\ clock \in Nat
  BY DEF ChatConstants, FeedInv, StreamsTyped
<1>2. /\ nextID = Len(posted) /\ nextID \in Nat /\ posted'[next] = NewMessage(p, c)
      /\ \A i \in 1..nextID : posted'[i] = posted[i]
  BY PostExtendsLog
<1>3. Within(next)' \subseteq Old \cup {next}
  <2>1. posted'[next].from = n /\ posted'[next].at = clock
    BY <1>2 DEF NewMessage
  <2>2. Within(next)' = {j \in 1..next : /\ posted'[j].from = posted'[next].from
                                         /\ posted'[j].at > posted'[next].at - RateWindow}
    BY DEF Within
  <2> QED BY <1>2, <2>1, <2>2
<1>4. /\ IsFiniteSet(Kept) /\ Cardinality(Kept) \in Nat /\ Cardinality(Kept) < RateBurst
  <2>1. IsFiniteSet(rate[n])
    BY <1>1 DEF RateInv
  <2>2. IsFiniteSet(Kept) /\ Cardinality(Kept) \in Nat
    BY <2>1, FS_Subset, FS_CardinalityType DEF KeptTimes
  <2> QED BY <2>2 DEF PostAccepted
<1>5. f \in Injection(Old, Kept)
  <2>1. f \in [Old -> Kept]
    BY <1>1, <1>2 DEF RateInv, KeptTimes
  <2> QED BY <2>1 DEF Injection, IsInjective
<1>6. IsFiniteSet(Old) /\ Cardinality(Old) <= Cardinality(Kept) /\ Cardinality(Old) \in Nat
  BY <1>4, <1>5, FS_Injection, FS_CardinalityType
<1>7. /\ IsFiniteSet(Old \cup {next}) /\ Cardinality(Old \cup {next}) <= Cardinality(Old) + 1
      /\ Cardinality(Old \cup {next}) \in Nat
  <2>1. /\ IsFiniteSet(Old \cup {next})
        /\ Cardinality(Old \cup {next}) = IF next \in Old THEN Cardinality(Old)
                                                        ELSE Cardinality(Old) + 1
    <3> HIDE DEF Old
    <3> QED BY <1>6, FS_AddElement
  <2> QED BY <1>6, <2>1
<1>8. /\ Cardinality(Within(next)') <= Cardinality(Old \cup {next})
      /\ Cardinality(Within(next)') \in Nat
  BY <1>3, <1>7, FS_Subset, FS_CardinalityType
<1> QED BY <1>1, <1>4, <1>6, <1>7, <1>8

LEMMA RateStep ==
  ASSUME ChatConstants, FeedInv, LogOK, RateTyped, RateInv, [Next]_vars
  PROVE  RateInv'
<1>1. RateRespected <=> \A i \in 1..Len(posted) : Cardinality(Within(i)) <= RateBurst
  BY DEF RateRespected, Within
<1>2. RateRespected' <=> \A i \in 1..Len(posted') : Cardinality(Within(i)') <= RateBurst
  BY DEF RateRespected, Within
<1>3. clock \in Nat /\ RateWindow \in Nat /\ rate \in [Nicks -> SUBSET [id : Nat, at : Nat]]
  BY DEF FeedInv, StreamsTyped, ChatConstants, RateTyped
<1>4. \A i \in 1..Len(posted) : posted[i].at \in Nat
  <2>1. \A i \in 1..Len(posted) : posted[i] \in Messages
    BY DEF FeedInv, StreamsTyped
  <2> QED BY <2>1 DEF Messages
<1>5. ASSUME posted' = posted PROVE RateRespected'
  BY <1>1, <1>2, <1>5 DEF RateInv, Within
<1>6. CASE posted' = posted /\ rate' = rate /\ (clock' = clock \/ clock' = clock + 1)
  BY <1>3, <1>4, <1>5, <1>6 DEF RateInv
<1>7. ASSUME NEW p \in Callers, NEW c \in Channels, PostRateLimited(p, c),
             UNCHANGED <<posted, clock>>
      PROVE  RateInv'
  <2>1. \A n \in Nicks : rate'[n] = rate[n] \/ rate'[n] = KeptTimes(n)
    BY <1>3, <1>7 DEF PostRateLimited
  <2>2. \A n \in Nicks : IsFiniteSet(rate'[n])
    BY <2>1, FS_Subset DEF RateInv, KeptTimes
  <2>3. ASSUME NEW n \in Nicks, NEW i \in 1..Len(posted),
               posted[i].from = n, posted[i].at > clock - RateWindow
        PROVE  [id |-> i, at |-> posted[i].at] \in rate'[n]
    BY <2>1, <2>3 DEF RateInv, KeptTimes
  <2> QED BY <1>5, <1>7, <2>2, <2>3 DEF RateInv
<1>8. ASSUME NEW p \in Callers, NEW c \in Channels, PostAccepted(p, c), clock' = clock
      PROVE  RateInv'
  <2>1. /\ nextID = Len(posted) /\ nextID \in Nat /\ Len(posted') = nextID + 1
        /\ posted'[nextID + 1] = NewMessage(p, c)
        /\ \A i \in 1..nextID : posted'[i] = posted[i]
    BY <1>8, PostExtendsLog
  <2>2. RateRespected'
    <3>1. ASSUME NEW i \in 1..nextID PROVE Within(i)' = Within(i)
      <4>1. \A j \in 1..i : posted'[j] = posted[j]
        BY <2>1
      <4>2. i \in 1..i
        OBVIOUS
      <4> QED BY <4>1, <4>2 DEF Within
    <3>2. ASSUME NEW i \in 1..Len(posted') PROVE Cardinality(Within(i)') <= RateBurst
      <4>1. CASE i \in 1..nextID
        BY <1>1, <2>1, <3>1, <4>1 DEF RateInv
      <4>2. CASE i = nextID + 1
        BY <1>8, <2>1, <4>2, AcceptedIsWithinBurst
      <4> QED BY <2>1, <4>1, <4>2
    <3> QED BY <1>2, <3>2
  <2>3. \A n \in Nicks :
          \/ rate'[n] = rate[n] /\ n # NickOf[p]
          \/ rate'[n] = KeptTimes(n) \cup {[id |-> nextID + 1, at |-> clock]}
    <3>1. NickOf[p] \in Nicks
      BY DEF ChatConstants
    <3> QED BY <1>3, <1>8, <3>1 DEF PostAccepted
  <2>4. \A n \in Nicks : IsFiniteSet(rate'[n])
    <3>1. \A n \in Nicks : IsFiniteSet(rate[n]) /\ IsFiniteSet(KeptTimes(n))
      BY FS_Subset DEF RateInv, KeptTimes
    <3>2. \A n \in Nicks :
            IsFiniteSet(KeptTimes(n) \cup {[id |-> nextID + 1, at |-> clock]})
      BY <3>1, FS_AddElement
    <3> QED BY <2>3, <3>1, <3>2
  <2>5. ASSUME NEW n \in Nicks, NEW i \in 1..Len(posted'),
               posted'[i].from = n, posted'[i].at > clock - RateWindow
        PROVE  [id |-> i, at |-> posted'[i].at] \in rate'[n]
    <3>1. CASE i \in 1..nextID
      <4>1. [id |-> i, at |-> posted[i].at] \in KeptTimes(n)
        BY <2>1, <2>5, <3>1 DEF RateInv, KeptTimes
      <4>2. KeptTimes(n) \subseteq rate[n]
        BY DEF KeptTimes
      <4> QED BY <2>1, <2>3, <3>1, <4>1, <4>2
    <3>2. CASE i = nextID + 1
      <4>1. n = NickOf[p] /\ posted'[i].at = clock
        BY <2>1, <2>5, <3>2 DEF NewMessage
      <4> QED BY <2>3, <3>2, <4>1
    <3> QED BY <2>1, <3>1, <3>2
  <2> QED BY <1>8, <2>2, <2>4, <2>5 DEF RateInv
<1> QED BY <1>6, <1>7, <1>8, OnlyPostPosts DEF log

(* No nick gets more than RateBurst messages accepted within any window of *)
(* RateWindow, over all of its callers and rooms together.                 *)
THEOREM RateIsRespected == Spec => []RateRespected
<1>1. Init => RateInv
  BY FS_EmptySet DEF Init, RateInv, RateRespected
<1>2. FeedInv /\ LogOK /\ TypeOK /\ RateInv /\ [Next]_vars => RateInv'
  BY ChatConstants, RateStep DEF TypeOK, RateTyped
<1>3. RateInv => RateRespected
  BY DEF RateInv
<1> QED BY <1>1, <1>2, <1>3, FeedInvariant, LogInvariant, TypeCorrect, PTL DEF Spec

-----------------------------------------------------------------------------
(* Bans and mutes.                                                         *)

LEMMA PruningKeepsTheForce ==
  ASSUME clock \in Nat, NEW e \in Entries, NEW n \in Nicks, NEW c \in Channels,
         InForce(e[c][n])
  PROVE  CleanExpired(e)[c][n] = e[c][n]
<1>1. e[c][n] \in Int
  BY DEF Entries
<1>2. ~(e[c][n] > Permanent /\ clock > e[c][n])
  BY <1>1 DEF InForce, Permanent
<1> QED BY <1>2 DEF CleanExpired

LEMMA ForceHolds ==
  ASSUME FeedInv, ModerationTyped, NEW n \in Nicks, NEW c \in Channels, [Next]_vars
  PROVE  /\ InForce(bans[c][n]) =>
              \/ bans'[c][n] = bans[c][n]
              \/ Unban(n, c)
              \/ \E d \in BanDurations : Ban(n, c, d)
         /\ InForce(mutes[c][n]) =>
              \/ mutes'[c][n] = mutes[c][n]
              \/ Unmute(n, c)
              \/ \E d \in BanDurations : Mute(n, c, d)
<1> DEFINE Bans  == InForce(bans[c][n]) =>
                      \/ bans'[c][n] = bans[c][n]
                      \/ Unban(n, c)
                      \/ \E d \in BanDurations : Ban(n, c, d)
           Mutes == InForce(mutes[c][n]) =>
                      \/ mutes'[c][n] = mutes[c][n]
                      \/ Unmute(n, c)
                      \/ \E d \in BanDurations : Mute(n, c, d)
<1>1. clock \in Nat /\ bans \in Entries /\ mutes \in Entries
  BY DEF FeedInv, StreamsTyped, ModerationTyped
<1>2. ASSUME UNCHANGED moderation PROVE Bans /\ Mutes
  BY <1>2 DEF moderation
<1>3. ASSUME bans' = CleanExpired(bans), mutes' = CleanExpired(mutes) PROVE Bans /\ Mutes
  BY <1>1, <1>3, PruningKeepsTheForce
<1>4. ASSUME NEW x \in Nicks, NEW r \in Channels, x # n \/ r # c,
             NEW e \in Entries, NEW v
      PROVE  [e EXCEPT ![r][x] = v][c][n] = e[c][n]
  <2>1. CASE r # c
    BY <2>1 DEF Entries
  <2>2. CASE r = c /\ x # n
    BY <2>2 DEF Entries
  <2> QED BY <1>4, <2>1, <2>2
<1>5. ASSUME NEW x \in Nicks, NEW r \in Channels,
             \/ Unban(x, r) \/ Unmute(x, r)
             \/ \E d \in BanDurations : Ban(x, r, d) \/ Mute(x, r, d)
      PROVE  Bans /\ Mutes
  <2>1. CASE x = n /\ r = c
    BY <1>5, <2>1 DEF Unban, Unmute, Ban, Mute
  <2>2. CASE x # n \/ r # c
    <3>1. bans' = bans \/ \E v : bans' = [bans EXCEPT ![r][x] = v]
      BY <1>5 DEF Unban, Unmute, Ban, Mute
    <3>2. mutes' = mutes \/ \E v : mutes' = [mutes EXCEPT ![r][x] = v]
      BY <1>5 DEF Unban, Unmute, Ban, Mute
    <3>3. ASSUME NEW v, bans' = [bans EXCEPT ![r][x] = v] PROVE bans'[c][n] = bans[c][n]
      BY <1>1, <1>4, <2>2, <3>3
    <3>4. ASSUME NEW v, mutes' = [mutes EXCEPT ![r][x] = v] PROVE mutes'[c][n] = mutes[c][n]
      BY <1>1, <1>4, <2>2, <3>4
    <3> QED BY <3>1, <3>2, <3>3, <3>4
  <2> QED BY <2>1, <2>2
<1>6. CASE RoomStep
  BY <1>2, <1>5, <1>6 DEF RoomStep, JoinChannel, LeaveChannel, Kick
<1>7. CASE FeedStep
  BY <1>2, <1>3, <1>7 DEF FeedStep, Post, Send, Subscribe, Unsubscribe, Receive
<1>8. CASE QueryModeration \/ Tick \/ UNCHANGED vars
  BY <1>2, <1>3, <1>8 DEF QueryModeration, Tick, vars, moderation
<1> QED BY <1>6, <1>7, <1>8 DEF Next

LEMMA SilencedPostsNothing ==
  ASSUME ChatConstants, FeedInv, NEW n \in Nicks, NEW c \in Channels, Silenced(n, c),
         [Next]_vars, NEW i \in Len(posted)+1..Len(posted')
  PROVE  ~(posted'[i].chan = c /\ posted'[i].from = n)
<1>1. Len(posted) \in Nat
  BY DEF FeedInv, StreamsTyped
<1>2. ASSUME posted' = posted PROVE FALSE
  BY <1>1, <1>2
<1>3. PICK p \in Callers, r \in Channels : PostAccepted(p, r)
  BY <1>2, OnlyPostPosts DEF log
<1>4. i = Len(posted) + 1 /\ posted'[i] = NewMessage(p, r)
  BY <1>1, <1>3, PostExtendsLog
<1>5. ~Silenced(NickOf[p], r)
  BY <1>3 DEF PostAccepted
<1> QED BY <1>4, <1>5 DEF NewMessage

(* While a ban or a mute is in force no message of the nick enters the     *)
(* room, and nothing but a moderator or the clock ends it.                 *)
THEOREM SilenceIsKept == Spec => SilenceHolds
<1>1. FeedInv /\ TypeOK /\ [Next]_vars =>
        [\A n \in Nicks, c \in Channels :
           /\ Silenced(n, c) =>
                \A i \in Len(posted)+1..Len(posted') :
                  ~(posted'[i].chan = c /\ posted'[i].from = n)
           /\ InForce(bans[c][n]) =>
                \/ bans'[c][n] = bans[c][n]
                \/ Unban(n, c)
                \/ \E d \in BanDurations : Ban(n, c, d)
           /\ InForce(mutes[c][n]) =>
                \/ mutes'[c][n] = mutes[c][n]
                \/ Unmute(n, c)
                \/ \E d \in BanDurations : Mute(n, c, d)]_vars
  BY ChatConstants, ForceHolds, SilencedPostsNothing DEF TypeOK
<1> QED BY <1>1, FeedInvariant, TypeCorrect, PTL DEF Spec, SilenceHolds

-----------------------------------------------------------------------------
(* Histories.                                                              *)

(* A message appended to a history that is full pushes out the oldest.     *)
LEMMA TrimmedAppend ==
  ASSUME ChatConstants, NEW h \in Seq(Messages), NEW m \in Messages, Len(h) <= HistoryLimit
  PROVE  LET t == Trim(Append(h, m)) IN
         /\ t \in Seq(Messages)
         /\ \/ /\ Len(h) < HistoryLimit /\ Len(t) = Len(h) + 1
               /\ \A k \in 1..Len(h) : t[k] = h[k]
            \/ /\ Len(h) = HistoryLimit /\ Len(t) = HistoryLimit
               /\ \A k \in 1..HistoryLimit-1 : t[k] = h[k + 1]
         /\ t[Len(t)] = m
<1> DEFINE a == Append(h, m)
<1>1. /\ HistoryLimit \in Nat \ {0} /\ Len(h) \in Nat
      /\ a \in Seq(Messages) /\ Len(a) = Len(h) + 1 /\ a[Len(h) + 1] = m
      /\ \A k \in 1..Len(h) : a[k] = h[k]
  BY DEF ChatConstants
<1> HIDE DEF a
<1>2. CASE Len(h) < HistoryLimit
  <2>1. Trim(a) = a
    BY <1>1, <1>2 DEF Trim
  <2> QED BY <1>1, <1>2, <2>1 DEF a
<1>3. CASE Len(h) = HistoryLimit
  <2>1. Trim(a) = SubSeq(a, 2, Len(a))
    BY <1>1, <1>3 DEF Trim
  <2>2. /\ Len(SubSeq(a, 2, Len(a))) = HistoryLimit
        /\ SubSeq(a, 2, Len(a)) \in Seq(Messages)
        /\ \A k \in 1..HistoryLimit : SubSeq(a, 2, Len(a))[k] = a[k + 1]
    BY <1>1, <1>3
  <2> QED BY <1>1, <1>3, <2>1, <2>2 DEF a
<1> QED BY <1>1, <1>2, <1>3

HistoryOf(c) ==
  LET kept == history[c] IN
  /\ Len(kept) <= HistoryLimit
  /\ \A k \in 1..Len(kept) :
       /\ kept[k].id \in 1..Len(posted)
       /\ kept[k] = posted[kept[k].id] /\ kept[k].chan = c
       /\ \A j \in 1..k-1 : kept[j].id < kept[k].id
  /\ \A i \in 1..Len(posted) : posted[i].chan = c =>
       \/ \E k \in 1..Len(kept) : kept[k].id = i
       \/ Len(kept) = HistoryLimit /\ i < kept[1].id

LEMMA HistoryStep ==
  ASSUME ChatConstants, FeedInv, LogOK, HistoryIsRecentPosts, [Next]_vars
  PROVE  HistoryIsRecentPosts'
<1> SUFFICES ASSUME NEW c \in Channels PROVE HistoryOf(c)'
  BY DEF HistoryIsRecentPosts, HistoryOf
<1>1. HistoryOf(c)
  BY DEF HistoryIsRecentPosts, HistoryOf
<1>2. /\ history \in [Channels -> Seq(Messages)] /\ history[c] \in Seq(Messages)
      /\ Len(history[c]) \in Nat /\ HistoryLimit \in Nat \ {0}
  BY DEF FeedInv, StreamsTyped, ChatConstants
<1>3. CASE UNCHANGED <<history, posted>>
  BY <1>1, <1>3 DEF HistoryOf
<1>4. ASSUME NEW p \in Callers, NEW r \in Channels, PostAccepted(p, r)
      PROVE  HistoryOf(c)'
  <2> DEFINE h == history[c]
             t == history'[c]
             m == NewMessage(p, r)
  <2>1. /\ nextID = Len(posted) /\ nextID \in Nat /\ Len(posted') = nextID + 1
        /\ posted'[nextID + 1] = m
        /\ \A i \in 1..nextID : posted'[i] = posted[i]
    BY <1>4, PostExtendsLog
  <2>2. m.id = nextID + 1 /\ m.chan = r /\ m \in Messages
    BY NewMessageType DEF NewMessage, FeedInv
  <2>3. history' = [history EXCEPT ![r] = Trim(Append(history[r], m))]
    BY <1>4 DEF PostAccepted, NewMessage
  <2>4. CASE c # r
    <3>1. t = h
      BY <1>2, <2>3, <2>4
    <3>2. \A k \in 1..Len(h) : /\ h[k].id \in 1..nextID + 1
                               /\ h[k] = posted'[h[k].id] /\ h[k].chan = c
                               /\ \A j \in 1..k-1 : h[j].id < h[k].id
      <4>1. \A k \in 1..Len(h) : /\ h[k].id \in 1..nextID
                                 /\ h[k] = posted[h[k].id] /\ h[k].chan = c
                                 /\ \A j \in 1..k-1 : h[j].id < h[k].id
        BY <1>1, <2>1 DEF HistoryOf
      <4> QED BY <2>1, <4>1
    <3>3. \A i \in 1..nextID + 1 : posted'[i].chan = c =>
            /\ i \in 1..nextID /\ posted[i].chan = c
      BY <2>1, <2>2, <2>4
    <3>4. \A i \in 1..nextID : posted[i].chan = c =>
            \/ \E k \in 1..Len(h) : h[k].id = i
            \/ Len(h) = HistoryLimit /\ i < h[1].id
      BY <1>1, <2>1 DEF HistoryOf
    <3>5. Len(h) <= HistoryLimit
      BY <1>1 DEF HistoryOf
    <3> HIDE DEF h, t
    <3> QED BY <2>1, <3>1, <3>2, <3>3, <3>4, <3>5 DEF HistoryOf, t
  <2>5. CASE c = r
    <3>1. t = Trim(Append(h, m))
      BY <1>2, <2>3, <2>5
    <3>2. /\ \/ /\ Len(h) < HistoryLimit /\ Len(t) = Len(h) + 1
                /\ \A k \in 1..Len(h) : t[k] = h[k]
             \/ /\ Len(h) = HistoryLimit /\ Len(t) = HistoryLimit
                /\ \A k \in 1..HistoryLimit-1 : t[k] = h[k + 1]
          /\ t[Len(t)] = m
      BY <1>1, <1>2, <2>2, <3>1, TrimmedAppend DEF HistoryOf
    <3>3. /\ \A k \in 1..Len(h) : /\ h[k].id \in 1..nextID
                                   /\ h[k] = posted'[h[k].id] /\ h[k].chan = c
                                   /\ \A j \in 1..k-1 : h[j].id < h[k].id
          /\ \A i \in 1..nextID : posted'[i].chan = c =>
               \/ \E k \in 1..Len(h) : h[k].id = i
               \/ Len(h) = HistoryLimit /\ i < h[1].id
      BY <1>1, <2>1 DEF HistoryOf
    <3> HIDE DEF h, t, m
    <3>4. CASE Len(h) < HistoryLimit /\ Len(t) = Len(h) + 1 /\ \A k \in 1..Len(h) : t[k] = h[k]
      <4>1. \A k \in 1..Len(t) : \/ k \in 1..Len(h) /\ t[k] = h[k]
                                 \/ k = Len(h) + 1 /\ t[k] = m
        BY <1>2, <3>2, <3>4 DEF h
      <4>2. /\ Len(t) <= HistoryLimit
            /\ \A k \in 1..Len(t) : /\ t[k].id \in 1..nextID + 1
                                     /\ t[k] = posted'[t[k].id] /\ t[k].chan = c
        BY <1>2, <2>1, <2>2, <2>5, <3>3, <3>4, <4>1 DEF h
      <4>3. ASSUME NEW k \in 1..Len(t), NEW j \in 1..k-1 PROVE t[j].id < t[k].id
        <5>1. j \in 1..Len(h) /\ t[j] = h[j] /\ h[j].id \in 1..nextID
          BY <1>2, <3>3, <3>4 DEF h
        <5>2. CASE k \in 1..Len(h) /\ t[k] = h[k]
          BY <3>3, <5>1, <5>2
        <5>3. CASE k = Len(h) + 1 /\ t[k] = m
          BY <2>1, <2>2, <5>1, <5>3
        <5> QED BY <4>1, <5>2, <5>3
      <4>4. ASSUME NEW i \in 1..nextID + 1, posted'[i].chan = c
            PROVE  \E k \in 1..Len(t) : t[k].id = i
        <5>1. Len(h) \in Nat /\ \A k \in 1..Len(h) : k \in 1..Len(t)
          BY <1>2, <3>4 DEF h
        <5>2. CASE i = nextID + 1
          <6>1. Len(t) \in 1..Len(t) /\ t[Len(t)].id = i
            BY <2>2, <3>2, <3>4, <5>1, <5>2
          <6> QED BY <6>1
        <5>3. CASE i \in 1..nextID
          <6>1. PICK k \in 1..Len(h) : h[k].id = i
            BY <1>2, <3>3, <3>4, <4>4, <5>1, <5>3
          <6> QED BY <3>4, <5>1, <6>1
        <5> QED BY <2>1, <5>2, <5>3
      <4> QED BY <2>1, <4>2, <4>3, <4>4 DEF HistoryOf, t
    <3>5. CASE Len(h) = HistoryLimit /\ Len(t) = HistoryLimit
               /\ \A k \in 1..HistoryLimit-1 : t[k] = h[k + 1]
      <4>1. \A k \in 1..Len(t) : \/ k \in 1..HistoryLimit-1 /\ t[k] = h[k + 1]
                                 \/ k = HistoryLimit /\ t[k] = m
        BY <1>2, <3>2, <3>5
      <4>2. \A k \in 1..Len(t) : /\ t[k].id \in 1..nextID + 1
                                 /\ t[k] = posted'[t[k].id] /\ t[k].chan = c
        BY <1>2, <2>1, <2>2, <2>5, <3>3, <3>5, <4>1
      <4>3. ASSUME NEW k \in 1..Len(t), NEW j \in 1..k-1 PROVE t[j].id < t[k].id
        <5>1. /\ j \in 1..HistoryLimit-1 /\ j + 1 \in 1..Len(h) /\ t[j] = h[j + 1]
              /\ h[j + 1].id \in 1..nextID
          BY <1>2, <3>3, <3>5
        <5>2. CASE k \in 1..HistoryLimit-1 /\ t[k] = h[k + 1]
          <6>1. k + 1 \in 1..Len(h) /\ j + 1 \in 1..(k + 1)-1
            BY <1>2, <3>5, <5>2
          <6> QED BY <3>3, <5>1, <5>2, <6>1
        <5>3. CASE k = HistoryLimit /\ t[k] = m
          BY <2>1, <2>2, <5>1, <5>3
        <5> QED BY <4>1, <5>2, <5>3
      <4>4. ASSUME NEW i \in 1..nextID + 1, posted'[i].chan = c
            PROVE  \/ \E k \in 1..Len(t) : t[k].id = i
                   \/ i < t[1].id
        <5>1. CASE i = nextID + 1
          BY <1>2, <2>2, <3>2, <3>5, <5>1
        <5>2. CASE i \in 1..nextID /\ \E k \in 1..Len(h) : h[k].id = i
          <6>1. PICK k \in 1..HistoryLimit : h[k].id = i
            BY <3>5, <5>2
          <6>2. CASE k = 1
            <7>1. 1 \in 1..Len(t)
              BY <1>2, <3>5
            <7>2. \/ t[1].id = nextID + 1
                  \/ 2 \in 1..Len(h) /\ t[1] = h[2]
              BY <1>2, <2>2, <3>5, <4>1, <7>1
            <7>3. 2 \in 1..Len(h) => h[1].id < h[2].id /\ h[2].id \in Int
              BY <3>3
            <7>4. h[1].id = i /\ i \in Int /\ i < nextID + 1
              BY <2>1, <5>2, <6>1, <6>2
            <7>5. i < t[1].id
              BY <7>2, <7>3, <7>4
            <7> QED BY <7>5
          <6>3. CASE k > 1
            <7>1. k-1 \in 1..HistoryLimit-1 /\ k-1 \in 1..Len(t) /\ (k-1) + 1 = k
              BY <1>2, <3>5, <6>3
            <7>2. t[k-1].id = i
              BY <3>5, <6>1, <7>1
            <7> QED BY <7>1, <7>2
          <6> QED BY <1>2, <6>2, <6>3
        <5>3. CASE i \in 1..nextID /\ i < h[1].id
          <6>1. h[1].id \in 1..nextID
            BY <1>2, <3>3, <3>5
          <6>2. 1 \in 1..Len(t)
            BY <1>2, <3>5
          <6>3. \/ t[1].id = nextID + 1
                \/ 2 \in 1..Len(h) /\ t[1] = h[2]
            BY <1>2, <2>2, <3>5, <4>1, <6>2
          <6>4. 2 \in 1..Len(h) => h[1].id < h[2].id /\ h[2].id \in 1..nextID
            BY <3>3
          <6> QED BY <2>1, <5>3, <6>1, <6>3, <6>4
        <5> QED BY <2>1, <3>3, <4>4, <5>1, <5>2, <5>3
      <4> QED BY <1>2, <2>1, <3>5, <4>2, <4>3, <4>4 DEF HistoryOf, t
    <3> QED BY <3>2, <3>4, <3>5
  <2> QED BY <2>4, <2>5
<1> QED BY <1>3, <1>4, OnlyPostPosts DEF log

(* The history of a room is the last HistoryLimit messages accepted there, *)
(* in order: none lost, repeated or of another room.                       *)
THEOREM HistoriesAreRecentPosts == Spec => []HistoryIsRecentPosts
<1>1. Init => HistoryIsRecentPosts
  BY ChatConstants DEF Init, HistoryIsRecentPosts, ChatConstants
<1>2. FeedInv /\ LogOK /\ HistoryIsRecentPosts /\ [Next]_vars => HistoryIsRecentPosts'
  BY ChatConstants, HistoryStep
<1> QED BY <1>1, <1>2, FeedInvariant, LogInvariant, PTL DEF Spec
=============================================================================
