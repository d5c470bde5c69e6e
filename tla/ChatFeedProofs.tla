--------------------------- MODULE ChatFeedProofs ---------------------------
(***************************************************************************)
(* The chat service implements ChatFeed: a subscription of the real        *)
(* service, with its bounded Go channel, its fan-out outside the mutex and *)
(* its snapshots of the subscribers, keeps the promise of the abstract     *)
(* feed, for every set of callers, rooms and subscriptions.                *)
(*                                                                         *)
(* A fan-out step appends the id of a message posted some time ago, so the *)
(* proof needs to know what is in flight: InFlightOK says that a message   *)
(* still to be sent to a subscription is one of its room, younger than the *)
(* subscription, and younger than all that the subscription has from the   *)
(* same caller.  The last part holds because a caller runs one Post at a   *)
(* time.                                                                   *)
(***************************************************************************)
EXTENDS ChatService, SequenceTheorems, FiniteSetTheorems, TLAPS

(* The message that caller p has still to send to subscription s. *)
InFlightOK ==
  \A p \in Callers, s \in Subs : s \in outgoing[p].to =>
    /\ outgoing[p].id \in 1..nextID
    /\ posted[outgoing[p].id].by = p
    /\ posted[outgoing[p].id].chan = subs[s].chan
    /\ outgoing[p].id > subs[s].since
    /\ subs[s].phase # "fresh"

(* What is in a stream was posted, and before what is in flight to it from *)
(* the same caller.                                                        *)
StreamOK ==
  \A s \in Subs : \A k \in 1..Len(Stream(s)) :
    /\ Stream(s)[k] \in 1..nextID
    /\ \A p \in Callers :
         (s \in outgoing[p].to /\ posted[Stream(s)[k]].by = p)
           => Stream(s)[k] < outgoing[p].id

(* A subscription starts after a message already posted. *)
SinceOK == \A s \in Subs : subs[s].since <= nextID

FeedInv ==
  /\ StreamsTyped
  /\ nextID = Len(posted)
  /\ SinceOK
  /\ InFlightOK
  /\ StreamOK

-----------------------------------------------------------------------------
(* The effect of each step on the streams, the log and the subscriptions.  *)

NewMessage(p, c) == [id |-> nextID + 1, chan |-> c, from |-> NickOf[p],
                     by |-> p, at |-> clock]

LEMMA MoveHead ==
  ASSUME NEW a \in Seq(Nat), NEW b \in Seq(Nat), b # <<>>
  PROVE  Append(a, Head(b)) \o Tail(b) = a \o b
<1>1. Head(b) \in Nat /\ Tail(b) \in Seq(Nat) /\ <<Head(b)>> \in Seq(Nat)
  OBVIOUS
<1>2. <<Head(b)>> \o Tail(b) = b
  BY <1>1
<1>3. Append(a, Head(b)) = a \o <<Head(b)>>
  BY <1>1, AppendIsConcat
<1>4. (a \o <<Head(b)>>) \o Tail(b) = a \o (<<Head(b)>> \o Tail(b))
  <2> HIDE <1>2
  <2> QED BY <1>1, ConcatAssociative
<1> QED BY <1>2, <1>3, <1>4

LEMMA AppendToConcat ==
  ASSUME NEW a \in Seq(Nat), NEW b \in Seq(Nat), NEW x \in Nat
  PROVE  a \o Append(b, x) = Append(a \o b, x)
<1>1. Append(b, x) = b \o <<x>> /\ <<x>> \in Seq(Nat) /\ a \o b \in Seq(Nat)
  BY AppendIsConcat
<1>2. Append(a \o b, x) = (a \o b) \o <<x>>
  BY <1>1, AppendIsConcat
<1> QED BY <1>1, <1>2, ConcatAssociative

LEMMA NewMessageType ==
  ASSUME ChatConstants, StreamsTyped, NEW p \in Callers, NEW c \in Channels
  PROVE  NewMessage(p, c) \in Messages
BY DEF ChatConstants, StreamsTyped, Messages, NewMessage

(* A subscription keeps its shape when Post or Unsubscribe writes a field. *)
LEMMA SubscriptionUpdate ==
  ASSUME NEW r \in Subscriptions, NEW i \in Nat
  PROVE  /\ [r EXCEPT !.lastID = i] \in Subscriptions
         /\ [r EXCEPT !.phase = "closed"] \in Subscriptions
BY DEF Subscriptions

LEMMA TrimType ==
  ASSUME ChatConstants, NEW h \in Seq(Messages)
  PROVE  Trim(h) \in Seq(Messages)
BY DEF ChatConstants, Trim

LEMMA StreamType ==
  ASSUME StreamsTyped, NEW s \in Subs
  PROVE  /\ Stream(s) \in Seq(Nat)
         /\ Len(Stream(s)) \in Nat
BY DEF StreamsTyped, Stream

(* Receive moves the head of the channel to the reader: no stream changes. *)
LEMMA ReceiveKeepsStreams ==
  ASSUME StreamsTyped, NEW r \in Subs, Receive(r), NEW s \in Subs
  PROVE  Stream(s)' = Stream(s)
<1>1. CASE s # r
  BY <1>1 DEF Receive, Stream, StreamsTyped
<1>2. CASE s = r
  <2>1. buffer[s] \in Seq(Nat) /\ buffer[s] # <<>> /\ received[s] \in Seq(Nat)
    BY <1>2 DEF Receive, StreamsTyped
  <2>2. /\ buffer'[s] = Tail(buffer[s])
        /\ received'[s] = Append(received[s], Head(buffer[s]))
    BY <1>2 DEF Receive, StreamsTyped
  <2>3. Append(received[s], Head(buffer[s])) \o Tail(buffer[s])
          = received[s] \o buffer[s]
    BY <2>1, MoveHead
  <2> QED BY <2>2, <2>3 DEF Stream
<1> QED BY <1>1, <1>2

(* A fan-out step either appends its message to one stream, of a           *)
(* subscription that is open, or changes no stream.                        *)
LEMMA SendAppends ==
  ASSUME StreamsTyped, NEW p \in Callers, NEW r \in Subs, Send(p, r)
  PROVE  /\ \A s \in Subs \ {r} : Stream(s)' = Stream(s)
         /\ \/ Stream(r)' = Stream(r)
            \/ /\ Stream(r)' = Append(Stream(r), outgoing[p].id)
               /\ subs[r].phase = "open"
<1>1. received' = received
  BY DEF Send
<1>2. \A s \in Subs \ {r} : Stream(s)' = Stream(s)
  BY <1>1 DEF Send, Stream, StreamsTyped
<1>3. CASE buffer' = buffer
  BY <1>1, <1>2, <1>3 DEF Stream
<1>4. CASE buffer' # buffer
  <2>1. /\ subs[r].phase = "open"
        /\ buffer'[r] = Append(buffer[r], outgoing[p].id)
    BY <1>4 DEF Send, StreamsTyped
  <2>2. received[r] \in Seq(Nat) /\ buffer[r] \in Seq(Nat)
    BY DEF StreamsTyped
  <2>3. outgoing[p].id \in Nat
    BY DEF StreamsTyped
  <2>4. received[r] \o Append(buffer[r], outgoing[p].id)
          = Append(received[r] \o buffer[r], outgoing[p].id)
    BY <2>2, <2>3, AppendToConcat
  <2> QED BY <1>1, <1>2, <2>1, <2>4 DEF Stream
<1> QED BY <1>3, <1>4

(* What a fan-out step leaves in flight. *)
LEMMA SendFinishes ==
  ASSUME StreamsTyped, NEW p \in Callers, NEW r \in Subs, Send(p, r)
  PROVE  /\ r \in outgoing[p].to
         /\ r \notin outgoing'[p].to
         /\ \A q \in Callers, s \in Subs : s \in outgoing'[q].to =>
              s \in outgoing[q].to /\ outgoing'[q].id = outgoing[q].id
         /\ outgoing' \in [Callers -> [id : Nat, to : SUBSET Subs]]
<1> DEFINE left == outgoing[p].to \ {r}
<1>1. r \in outgoing[p].to /\ outgoing[p] \in [id : Nat, to : SUBSET Subs]
  BY DEF Send, StreamsTyped
<1>2. PICK o \in [id : Nat, to : SUBSET Subs] :
        /\ outgoing' = [outgoing EXCEPT ![p] = o]
        /\ o = Idle \/ (o.id = outgoing[p].id /\ o.to = left)
  <2>1. CASE left = {}
    BY <2>1 DEF Send, Idle
  <2>2. CASE left # {}
    <3>1. [outgoing[p] EXCEPT !.to = left] = [id |-> outgoing[p].id, to |-> left]
      BY <1>1
    <3>2. outgoing' = [outgoing EXCEPT ![p] = [id |-> outgoing[p].id, to |-> left]]
      BY <2>2, <3>1 DEF Send
    <3>3. [id |-> outgoing[p].id, to |-> left] \in [id : Nat, to : SUBSET Subs]
      BY <1>1
    <3> QED BY <3>2, <3>3
  <2> QED BY <2>1, <2>2
<1> QED BY <1>1, <1>2 DEF StreamsTyped, Idle

-----------------------------------------------------------------------------
LEMMA StreamsTypedStep ==
  ASSUME ChatConstants, StreamsTyped, [Next]_vars
  PROVE  StreamsTyped'
<1>1. ASSUME UNCHANGED <<log, streams, outgoing>>, clock' \in Nat
      PROVE  StreamsTyped'
  BY <1>1 DEF log, streams, StreamsTyped
<1>2. CASE RoomStep \/ QueryModeration
  BY <1>1, <1>2 DEF RoomStep, QueryModeration, JoinChannel, LeaveChannel,
                    Kick, Unban, Unmute, Ban, Mute, StreamsTyped
<1>3. CASE Tick \/ UNCHANGED vars
  BY <1>1, <1>3 DEF Tick, vars, log, streams, StreamsTyped
<1>4. ASSUME NEW p \in Callers, NEW c \in Channels, Post(p, c)
      PROVE  StreamsTyped'
  <2>1. CASE PostSilenced(p, c) \/ PostRateLimited(p, c)
    BY <1>1, <1>4, <2>1 DEF Post, PostSilenced, PostRateLimited, StreamsTyped
  <2>2. CASE PostAccepted(p, c)
    <3>1. posted' = Append(posted, NewMessage(p, c))
      BY <2>2 DEF PostAccepted, NewMessage
    <3>2. posted' \in Seq(Messages)
      BY <3>1, NewMessageType DEF StreamsTyped
    <3>3. nextID' \in Nat /\ nextID' = nextID + 1
      BY <2>2 DEF PostAccepted, StreamsTyped
    <3>4. subs' \in [Subs -> Subscriptions]
      <4>1. \A s \in Subs : [subs[s] EXCEPT !.lastID = nextID'] \in Subscriptions
        BY <3>3, SubscriptionUpdate DEF StreamsTyped
      <4>2. \A s \in Subs : subs[s] \in Subscriptions
        BY DEF StreamsTyped
      <4>3. subs' = [s \in Subs |-> IF s \in OpenSubs(c)
                                     THEN [subs[s] EXCEPT !.lastID = nextID']
                                     ELSE subs[s]]
        BY <2>2 DEF PostAccepted
      <4> QED BY <4>1, <4>2, <4>3
    <3>5. outgoing' \in [Callers -> [id : Nat, to : SUBSET Subs]]
      BY <2>2, <3>3 DEF PostAccepted, StreamsTyped, OpenSubs
    <3>6. UNCHANGED <<buffer, received, clock>>
      BY <1>4, <2>2 DEF Post, PostAccepted
    <3>7. history' \in [Channels -> Seq(Messages)]
      <4>1. history' = [history EXCEPT ![c] =
                          Trim(Append(history[c], NewMessage(p, c)))]
        BY <2>2 DEF PostAccepted, NewMessage
      <4>2. Append(history[c], NewMessage(p, c)) \in Seq(Messages)
        BY NewMessageType DEF StreamsTyped
      <4> QED BY <4>1, <4>2, TrimType DEF StreamsTyped
    <3> QED BY <3>2, <3>3, <3>4, <3>5, <3>6, <3>7 DEF StreamsTyped
  <2> QED BY <1>4, <2>1, <2>2 DEF Post
<1>5. ASSUME NEW p \in Callers, NEW s \in Subs, Send(p, s)
      PROVE  StreamsTyped'
  <2>1. buffer' \in [Subs -> Seq(Nat)]
    BY <1>5 DEF Send, StreamsTyped
  <2>2. outgoing' \in [Callers -> [id : Nat, to : SUBSET Subs]]
    BY <1>5, SendFinishes
  <2> QED BY <1>5, <2>1, <2>2 DEF Send, log, StreamsTyped
<1>6. ASSUME NEW s \in Subs, NEW c \in Channels, Subscribe(s, c)
      PROVE  StreamsTyped'
  <2>1. subs' \in [Subs -> Subscriptions]
    <3>1. LatestMessageID(c) \in Nat
      <4>1. history[c] \in Seq(Messages)
        BY DEF StreamsTyped
      <4>2. CASE history[c] = <<>>
        BY <4>2 DEF LatestMessageID
      <4>3. CASE history[c] # <<>>
        <5>1. history[c][Len(history[c])] \in Messages
          BY <4>1, <4>3
        <5> QED BY <4>3, <5>1 DEF LatestMessageID, Messages
      <4> QED BY <4>2, <4>3
    <3> QED BY <1>6, <3>1 DEF Subscribe, StreamsTyped, Subscriptions
  <2> QED BY <1>6, <2>1 DEF Subscribe, log, StreamsTyped
<1>7. ASSUME NEW s \in Subs, Unsubscribe(s) PROVE StreamsTyped'
  <2>1. subs' = [subs EXCEPT ![s] = [subs[s] EXCEPT !.phase = "closed"]]
    BY <1>7 DEF Unsubscribe
  <2>2. subs' \in [Subs -> Subscriptions]
    BY <2>1, SubscriptionUpdate DEF StreamsTyped
  <2> QED BY <1>7, <2>2 DEF Unsubscribe, log, StreamsTyped
<1>8. ASSUME NEW s \in Subs, Receive(s) PROVE StreamsTyped'
  BY <1>8 DEF Receive, log, StreamsTyped
<1> QED BY <1>2, <1>3, <1>4, <1>5, <1>6, <1>7, <1>8 DEF Next, FeedStep

-----------------------------------------------------------------------------
(* FeedInv is inductive.                                                   *)

(* Steps that touch neither the log, the streams, nor what is in flight. *)
LEMMA QuietStep ==
  ASSUME FeedInv, StreamsTyped', UNCHANGED <<log, streams, outgoing>>
  PROVE  FeedInv'
BY DEF log, streams, FeedInv, SinceOK, InFlightOK, StreamOK, Stream

LEMMA PostKeepsFeedInv ==
  ASSUME ChatConstants, FeedInv, StreamsTyped',
         NEW p \in Callers, NEW c \in Channels,
         outgoing[p] = Idle, PostAccepted(p, c)
  PROVE  FeedInv'
<1>1. StreamsTyped /\ nextID = Len(posted) /\ nextID \in Nat
  BY DEF FeedInv, StreamsTyped
<1>2. /\ nextID' = nextID + 1
      /\ Len(posted') = Len(posted) + 1
      /\ posted'[nextID + 1].by = p /\ posted'[nextID + 1].chan = c
      /\ \A i \in 1..nextID : posted'[i] = posted[i]
  <2>1. posted' = Append(posted, NewMessage(p, c))
    BY DEF PostAccepted, NewMessage
  <2>2. NewMessage(p, c) \in Messages
    BY <1>1, NewMessageType
  <2>3. /\ Len(posted') = Len(posted) + 1
        /\ posted'[nextID + 1] = NewMessage(p, c)
        /\ \A i \in 1..nextID : posted'[i] = posted[i]
    BY <1>1, <2>1, <2>2 DEF StreamsTyped
  <2>4. nextID' = nextID + 1
    BY DEF PostAccepted
  <2>5. NewMessage(p, c).by = p /\ NewMessage(p, c).chan = c
    BY DEF NewMessage
  <2> QED BY <2>3, <2>4, <2>5
<1>3. \A s \in Subs : /\ subs'[s].chan = subs[s].chan
                      /\ subs'[s].phase = subs[s].phase
                      /\ subs'[s].since = subs[s].since
  <2> SUFFICES ASSUME NEW s \in Subs
               PROVE  /\ subs'[s].chan = subs[s].chan
                      /\ subs'[s].phase = subs[s].phase
                      /\ subs'[s].since = subs[s].since
    OBVIOUS
  <2>1. subs[s] \in Subscriptions
    BY <1>1 DEF StreamsTyped
  <2>2. subs'[s] = subs[s] \/ subs'[s] = [subs[s] EXCEPT !.lastID = nextID + 1]
    BY DEF PostAccepted
  <2> QED BY <2>1, <2>2 DEF Subscriptions
<1>4. \A s \in Subs : Stream(s)' = Stream(s)
  BY DEF PostAccepted, Stream
<1>5. \A q \in Callers \ {p} : outgoing'[q] = outgoing[q]
  BY <1>1 DEF PostAccepted, StreamsTyped
<1>6. \A s \in outgoing'[p].to : /\ outgoing'[p].id = nextID + 1
                                 /\ subs[s].phase = "open" /\ subs[s].chan = c
                                 /\ s \in Subs
  BY <1>1 DEF PostAccepted, StreamsTyped, OpenSubs, Idle
<1>7. /\ \A s \in Subs : subs[s].since <= nextID /\ subs[s].since \in Nat
      /\ SinceOK'
  <2>1. \A s \in Subs : subs[s].since \in Nat
    BY <1>1 DEF StreamsTyped, Subscriptions
  <2> QED BY <1>1, <1>2, <1>3, <2>1 DEF FeedInv, SinceOK
<1>8. InFlightOK'
  <2> SUFFICES ASSUME NEW q \in Callers, NEW s \in Subs, s \in outgoing'[q].to
               PROVE  /\ outgoing'[q].id \in 1..nextID'
                      /\ posted'[outgoing'[q].id].by = q
                      /\ posted'[outgoing'[q].id].chan = subs'[s].chan
                      /\ outgoing'[q].id > subs'[s].since
                      /\ subs'[s].phase # "fresh"
    BY DEF InFlightOK
  <2>1. CASE q = p
    BY <1>1, <1>2, <1>3, <1>6, <1>7, <2>1
  <2>2. CASE q # p
    <3>1. /\ outgoing'[q] = outgoing[q]
          /\ outgoing[q].id \in 1..nextID
          /\ posted[outgoing[q].id].by = q
          /\ posted[outgoing[q].id].chan = subs[s].chan
          /\ outgoing[q].id > subs[s].since
          /\ subs[s].phase # "fresh"
      BY <1>5, <2>2 DEF FeedInv, InFlightOK
    <3> QED BY <1>1, <1>2, <1>3, <3>1
  <2> QED BY <2>1, <2>2
<1>9. StreamOK'
  <2> SUFFICES ASSUME NEW s \in Subs, NEW k \in 1..Len(Stream(s))
               PROVE  /\ Stream(s)[k] \in 1..nextID'
                      /\ \A q \in Callers :
                           (s \in outgoing'[q].to
                            /\ posted'[Stream(s)[k]].by = q)
                             => Stream(s)[k] < outgoing'[q].id
    BY <1>4 DEF StreamOK
  <2>1. /\ Stream(s)[k] \in 1..nextID
        /\ \A q \in Callers :
             (s \in outgoing[q].to /\ posted[Stream(s)[k]].by = q)
               => Stream(s)[k] < outgoing[q].id
    BY DEF FeedInv, StreamOK
  <2>2. posted'[Stream(s)[k]] = posted[Stream(s)[k]]
    BY <1>2, <2>1
  <2> QED BY <1>1, <1>2, <1>5, <1>6, <2>1, <2>2
<1> QED BY <1>1, <1>2, <1>7, <1>8, <1>9 DEF FeedInv

LEMMA SendKeepsFeedInv ==
  ASSUME FeedInv, StreamsTyped', NEW p \in Callers, NEW r \in Subs, Send(p, r)
  PROVE  FeedInv'
<1>1. StreamsTyped
  BY DEF FeedInv
<1>2. UNCHANGED <<nextID, posted, subs>>
  BY DEF Send, log
<1>3. /\ r \in outgoing[p].to /\ r \notin outgoing'[p].to
      /\ \A q \in Callers, s \in Subs : s \in outgoing'[q].to =>
           s \in outgoing[q].to /\ outgoing'[q].id = outgoing[q].id
  BY <1>1, SendFinishes
<1>4. InFlightOK'
  BY <1>2, <1>3 DEF FeedInv, InFlightOK
<1>5. StreamOK'
  <2> SUFFICES ASSUME NEW s \in Subs, NEW k \in 1..Len(Stream(s)')
               PROVE  /\ Stream(s)'[k] \in 1..nextID
                      /\ \A q \in Callers :
                           (s \in outgoing'[q].to
                            /\ posted[Stream(s)'[k]].by = q)
                             => Stream(s)'[k] < outgoing'[q].id
    BY <1>2 DEF StreamOK
  <2>1. ASSUME NEW i \in 1..Len(Stream(s)), Stream(s)'[k] = Stream(s)[i]
        PROVE  /\ Stream(s)'[k] \in 1..nextID
               /\ \A q \in Callers :
                    (s \in outgoing'[q].to /\ posted[Stream(s)'[k]].by = q)
                      => Stream(s)'[k] < outgoing'[q].id
    BY <1>3, <2>1 DEF FeedInv, StreamOK
  <2>2. CASE Stream(s)' = Stream(s)
    BY <2>1, <2>2
  <2>3. CASE s = r /\ Stream(r)' = Append(Stream(r), outgoing[p].id)
    <3>1. /\ outgoing[p].id \in 1..nextID
          /\ posted[outgoing[p].id].by = p
      BY <1>3 DEF FeedInv, InFlightOK
    <3>2. Stream(s) \in Seq(Nat) /\ Len(Stream(s)) \in Nat /\ outgoing[p].id \in Nat
      BY <1>1, StreamType DEF StreamsTyped
    <3>3. \/ k \in 1..Len(Stream(s)) /\ Stream(s)'[k] = Stream(s)[k]
          \/ Stream(s)'[k] = outgoing[p].id
      BY <2>3, <3>2
    <3> QED BY <1>3, <2>1, <2>3, <3>1, <3>3
  <2> QED BY <1>1, <2>2, <2>3, SendAppends
<1> QED BY <1>2, <1>4, <1>5 DEF FeedInv, SinceOK

LEMMA SubscribeKeepsFeedInv ==
  ASSUME FeedInv, StreamsTyped', NEW r \in Subs, NEW c \in Channels,
         Subscribe(r, c)
  PROVE  FeedInv'
<1>1. StreamsTyped /\ nextID \in Nat
  BY DEF FeedInv, StreamsTyped
<1>2. UNCHANGED <<nextID, posted, buffer, received, outgoing>>
  BY DEF Subscribe, log
<1>3. /\ subs[r].phase = "fresh"
      /\ subs'[r].since = nextID
      /\ \A s \in Subs \ {r} : subs'[s] = subs[s]
  BY <1>1 DEF Subscribe, StreamsTyped
<1>4. SinceOK'
  BY <1>1, <1>2, <1>3 DEF FeedInv, SinceOK
<1>5. InFlightOK'
  BY <1>2, <1>3 DEF FeedInv, InFlightOK
<1>6. StreamOK'
  BY <1>2 DEF FeedInv, StreamOK, Stream
<1> QED BY <1>2, <1>4, <1>5, <1>6 DEF FeedInv

LEMMA UnsubscribeKeepsFeedInv ==
  ASSUME FeedInv, StreamsTyped', NEW r \in Subs, Unsubscribe(r)
  PROVE  FeedInv'
<1>1. UNCHANGED <<nextID, posted, buffer, received, outgoing>>
  BY DEF Unsubscribe, log
<1>2. \A s \in Subs : /\ subs'[s].chan = subs[s].chan
                      /\ subs'[s].since = subs[s].since
                      /\ subs'[s].phase = "fresh" => subs[s].phase = "fresh"
  <2> SUFFICES ASSUME NEW s \in Subs
               PROVE  /\ subs'[s].chan = subs[s].chan
                      /\ subs'[s].since = subs[s].since
                      /\ subs'[s].phase = "fresh" => subs[s].phase = "fresh"
    OBVIOUS
  <2>1. subs[s] \in Subscriptions
    BY DEF FeedInv, StreamsTyped
  <2>2. \/ subs'[s] = subs[s]
        \/ subs'[s] = [subs[s] EXCEPT !.phase = "closed"]
    BY DEF FeedInv, StreamsTyped, Unsubscribe
  <2> QED BY <2>1, <2>2 DEF Subscriptions
<1>3. SinceOK' /\ InFlightOK'
  BY <1>1, <1>2 DEF FeedInv, SinceOK, InFlightOK
<1>4. StreamOK'
  BY <1>1 DEF FeedInv, StreamOK, Stream
<1> QED BY <1>1, <1>3, <1>4 DEF FeedInv

LEMMA ReceiveKeepsFeedInv ==
  ASSUME FeedInv, StreamsTyped', NEW r \in Subs, Receive(r)
  PROVE  FeedInv'
<1>1. UNCHANGED <<nextID, posted, subs, outgoing>>
  BY DEF Receive, log
<1>2. \A s \in Subs : Stream(s)' = Stream(s)
  BY ReceiveKeepsStreams DEF FeedInv
<1>3. StreamOK'
  BY <1>1, <1>2 DEF FeedInv, StreamOK
<1> QED BY <1>1, <1>3 DEF FeedInv, SinceOK, InFlightOK

LEMMA FeedInvStep ==
  ASSUME ChatConstants, FeedInv, [Next]_vars
  PROVE  FeedInv'
<1>1. StreamsTyped'
  BY StreamsTypedStep DEF FeedInv
<1>2. CASE RoomStep \/ QueryModeration \/ Tick
  BY <1>1, <1>2, QuietStep
     DEF RoomStep, QueryModeration, Tick, JoinChannel, LeaveChannel,
         Kick, Unban, Unmute, Ban, Mute
<1>3. ASSUME NEW p \in Callers, NEW c \in Channels, Post(p, c)
      PROVE  FeedInv'
  BY <1>1, <1>3, QuietStep, PostKeepsFeedInv
     DEF Post, PostSilenced, PostRateLimited
<1>4. ASSUME NEW p \in Callers, NEW s \in Subs, Send(p, s) PROVE FeedInv'
  BY <1>1, <1>4, SendKeepsFeedInv
<1>5. ASSUME NEW s \in Subs, NEW c \in Channels, Subscribe(s, c)
      PROVE  FeedInv'
  BY <1>1, <1>5, SubscribeKeepsFeedInv
<1>6. ASSUME NEW s \in Subs, Unsubscribe(s) \/ Receive(s) PROVE FeedInv'
  BY <1>1, <1>6, UnsubscribeKeepsFeedInv, ReceiveKeepsFeedInv
<1>7. CASE UNCHANGED vars
  BY <1>1, <1>7, QuietStep DEF vars, log, streams
<1> QED BY <1>2, <1>3, <1>4, <1>5, <1>6, <1>7 DEF Next, FeedStep

THEOREM FeedInvariant == Spec => []FeedInv
<1>1. Init => FeedInv
  <2> SUFFICES ASSUME Init PROVE FeedInv
    OBVIOUS
  <2>1. StreamsTyped
    BY ChatConstants
       DEF Init, StreamsTyped, NoSub, Idle, Messages, Subscriptions, ChatConstants
  <2>2. \A s \in Subs : Len(Stream(s)) = 0
    BY DEF Init, Stream
  <2> QED BY <2>1, <2>2
          DEF Init, FeedInv, SinceOK, InFlightOK, StreamOK, NoSub, Idle
<1>2. FeedInv /\ [Next]_vars => FeedInv'
  BY ChatConstants, FeedInvStep
<1> QED BY <1>1, <1>2, PTL DEF Spec

-----------------------------------------------------------------------------
(* The refinement: what ChatFeed sees of a state of the service.           *)

FeedLog   == [i \in 1..Len(posted) |-> [chan |-> posted[i].chan,
                                        by |-> posted[i].by]]
FeedScope == [s \in Subs |-> [chan |-> subs[s].chan, phase |-> subs[s].phase,
                              since |-> subs[s].since]]
FeedFeed  == [s \in Subs |-> Stream(s)]

(* A step that changes no posted message, no stream, and of a subscription *)
(* only its lastID is a stutter of the abstract feed.                      *)
LEMMA StutterStep ==
  ASSUME posted' = posted,
         \A s \in Subs : /\ subs'[s].chan = subs[s].chan
                         /\ subs'[s].phase = subs[s].phase
                         /\ subs'[s].since = subs[s].since
                         /\ Stream(s)' = Stream(s)
  PROVE  UNCHANGED Feed!feedVars
<1>1. FeedLog' = FeedLog
  BY DEF FeedLog
<1>2. FeedScope' = FeedScope
  BY DEF FeedScope
<1>3. FeedFeed' = FeedFeed
  BY DEF FeedFeed
<1> QED BY <1>1, <1>2, <1>3 DEF Feed!feedVars, FeedLog, FeedScope, FeedFeed

LEMMA PostPublishes ==
  ASSUME ChatConstants, FeedInv, NEW p \in Callers, NEW c \in Channels,
         PostAccepted(p, c)
  PROVE  Feed!Publish(p, c)
<1>1. StreamsTyped /\ posted \in Seq(Messages)
  BY DEF FeedInv, StreamsTyped
<1>2. posted' = Append(posted, NewMessage(p, c)) /\ NewMessage(p, c) \in Messages
  BY <1>1, NewMessageType DEF PostAccepted, NewMessage
<1>3. NewMessage(p, c).chan = c /\ NewMessage(p, c).by = p
  BY DEF NewMessage
<1>4. FeedLog' = Append(FeedLog, [chan |-> c, by |-> p])
  <2> DEFINE Entry == [chan : Channels, by : Callers]
  <2>1. /\ Len(posted') = Len(posted) + 1 /\ Len(posted) \in Nat
        /\ \A i \in 1..Len(posted) : posted'[i] = posted[i]
        /\ posted'[Len(posted) + 1] = NewMessage(p, c)
    BY <1>1, <1>2
  <2>2. \A i \in 1..Len(posted) : [chan |-> posted[i].chan,
                                   by |-> posted[i].by] \in Entry
    <3>1. \A i \in 1..Len(posted) : posted[i] \in Messages
      BY <1>1
    <3>2. \A i \in 1..Len(posted) : posted[i].chan \in Channels
                                    /\ posted[i].by \in Callers
      BY <3>1 DEF Messages
    <3> QED BY <3>2
  <2>3. FeedLog \in Seq(Entry) /\ Len(FeedLog) = Len(posted)
    BY <2>1, <2>2 DEF FeedLog
  <2>4. [chan |-> c, by |-> p] \in Entry
    OBVIOUS
  <2>5. /\ Append(FeedLog, [chan |-> c, by |-> p]) \in Seq(Entry)
        /\ Len(Append(FeedLog, [chan |-> c, by |-> p])) = Len(posted) + 1
    BY <2>3, <2>4
  <2>6. FeedLog' \in Seq(Entry) /\ Len(FeedLog') = Len(posted) + 1
    BY <1>3, <2>1, <2>2, <2>4 DEF FeedLog
  <2>7. \A i \in 1..Len(posted) + 1 :
          FeedLog'[i] = Append(FeedLog, [chan |-> c, by |-> p])[i]
    BY <1>3, <2>1, <2>3, <2>4 DEF FeedLog
  <2> QED BY <2>5, <2>6, <2>7, SeqEqual
<1>5. FeedScope' = FeedScope
  <2> SUFFICES ASSUME NEW s \in Subs
               PROVE  /\ subs'[s].chan = subs[s].chan
                      /\ subs'[s].phase = subs[s].phase
                      /\ subs'[s].since = subs[s].since
    BY DEF FeedScope
  <2>1. subs[s] \in Subscriptions
    BY <1>1 DEF StreamsTyped
  <2>2. subs'[s] = subs[s] \/ subs'[s] = [subs[s] EXCEPT !.lastID = nextID + 1]
    BY DEF PostAccepted
  <2> QED BY <2>1, <2>2 DEF Subscriptions
<1>6. FeedFeed' = FeedFeed
  BY DEF PostAccepted, FeedFeed, Stream
<1> QED BY <1>4, <1>5, <1>6 DEF Feed!Publish, FeedLog, FeedScope, FeedFeed

LEMMA SendOffers ==
  ASSUME FeedInv, NEW p \in Callers, NEW r \in Subs, Send(p, r)
  PROVE  \/ UNCHANGED Feed!feedVars
         \/ \E i \in Feed!Eligible(r) : Feed!Offer(r, i)
<1> DEFINE id == outgoing[p].id
<1>1. StreamsTyped /\ nextID = Len(posted)
  BY DEF FeedInv
<1>2. UNCHANGED <<posted, subs>>
  BY DEF Send, log
<1>3. \A s \in Subs \ {r} : Stream(s)' = Stream(s)
  BY <1>1, SendAppends
<1>4. CASE Stream(r)' = Stream(r)
  BY <1>2, <1>3, <1>4, StutterStep
<1>5. CASE Stream(r)' = Append(Stream(r), id) /\ subs[r].phase = "open"
  <2>1. /\ r \in outgoing[p].to
        /\ id \in 1..Len(posted) /\ posted[id].by = p
        /\ posted[id].chan = subs[r].chan /\ id > subs[r].since
    BY <1>1, SendFinishes DEF FeedInv, InFlightOK
  <2>2. \A k \in 1..Len(Stream(r)) :
          /\ Stream(r)[k] \in 1..Len(posted)
          /\ Stream(r)[k] # id
          /\ posted[Stream(r)[k]].by = posted[id].by => Stream(r)[k] < id
    <3>1. \A k \in 1..Len(Stream(r)) :
            /\ Stream(r)[k] \in 1..Len(posted)
            /\ posted[Stream(r)[k]].by = p => Stream(r)[k] < id
      BY <1>1, <2>1 DEF FeedInv, StreamOK
    <3> QED BY <2>1, <3>1
  <2>3. id \in Feed!Eligible(r)
    <3>1. Len(FeedLog) = Len(posted)
      BY <1>1 DEF FeedLog, StreamsTyped
    <3>2. \A i \in 1..Len(posted) : /\ FeedLog[i].chan = posted[i].chan
                                    /\ FeedLog[i].by = posted[i].by
      BY DEF FeedLog
    <3>3. /\ FeedScope[r].phase = "open"
          /\ FeedScope[r].chan = subs[r].chan
          /\ FeedScope[r].since = subs[r].since
          /\ FeedFeed[r] = Stream(r)
      BY <1>5 DEF FeedScope, FeedFeed
    <3>4. /\ id \in 1..Len(FeedLog)
          /\ FeedScope[r].phase = "open"
          /\ FeedLog[id].chan = FeedScope[r].chan
          /\ id > FeedScope[r].since
          /\ \A k \in 1..Len(FeedFeed[r]) :
               /\ FeedFeed[r][k] # id
               /\ FeedLog[FeedFeed[r][k]].by = FeedLog[id].by => FeedFeed[r][k] < id
      BY <2>1, <2>2, <3>1, <3>2, <3>3
    <3> QED BY <3>4 DEF Feed!Eligible, FeedLog, FeedScope, FeedFeed
  <2>4. FeedFeed' = [FeedFeed EXCEPT ![r] = Append(FeedFeed[r], id)]
    BY <1>3, <1>5 DEF FeedFeed
  <2>5. FeedLog' = FeedLog /\ FeedScope' = FeedScope
    BY <1>2 DEF FeedLog, FeedScope
  <2> QED BY <2>3, <2>4, <2>5 DEF Feed!Offer, FeedLog, FeedScope, FeedFeed
<1> QED BY <1>1, <1>4, <1>5, SendAppends

LEMMA SubscribeAttaches ==
  ASSUME FeedInv, NEW r \in Subs, NEW c \in Channels, Subscribe(r, c)
  PROVE  Feed!Attach(r, c)
<1>1. StreamsTyped /\ nextID = Len(posted) /\ Len(posted) \in Nat
  BY DEF FeedInv, StreamsTyped
<1>2. /\ FeedLog' = FeedLog /\ Len(FeedLog) = Len(posted)
      /\ FeedFeed' = FeedFeed
  BY <1>1 DEF Subscribe, log, FeedLog, FeedFeed, Stream
<1>3. /\ FeedScope[r].phase = "fresh"
      /\ FeedScope' = [FeedScope EXCEPT ![r] =
                         [chan |-> c, phase |-> "open", since |-> Len(FeedLog)]]
  BY <1>1, <1>2 DEF Subscribe, FeedScope, StreamsTyped
<1> QED BY <1>2, <1>3 DEF Feed!Attach, FeedLog, FeedScope, FeedFeed

LEMMA UnsubscribeDetaches ==
  ASSUME FeedInv, NEW r \in Subs, Unsubscribe(r)
  PROVE  Feed!Detach(r)
<1>1. subs \in [Subs -> Subscriptions]
  BY DEF FeedInv, StreamsTyped
<1>2. FeedLog' = FeedLog /\ FeedFeed' = FeedFeed
  BY DEF Unsubscribe, log, FeedLog, FeedFeed, Stream
<1>3. FeedScope[r] = [chan |-> subs[r].chan, phase |-> "open",
                      since |-> subs[r].since]
  BY DEF Unsubscribe, FeedScope
<1>4. /\ subs'[r].chan = subs[r].chan
      /\ subs'[r].phase = "closed"
      /\ subs'[r].since = subs[r].since
      /\ \A s \in Subs \ {r} : subs'[s] = subs[s]
  <2>1. subs' = [subs EXCEPT ![r] = [subs[r] EXCEPT !.phase = "closed"]]
    BY DEF Unsubscribe
  <2>2. subs[r] \in Subscriptions
    BY <1>1
  <2>3. [subs[r] EXCEPT !.phase = "closed"] =
          [chan |-> subs[r].chan, phase |-> "closed",
           lastID |-> subs[r].lastID, since |-> subs[r].since]
    BY <2>2 DEF Subscriptions
  <2> QED BY <1>1, <2>1, <2>3
<1>5. FeedScope' = [FeedScope EXCEPT ![r] =
                      [chan |-> subs[r].chan, phase |-> "closed",
                       since |-> subs[r].since]]
  BY <1>4 DEF FeedScope
<1>6. [FeedScope[r] EXCEPT !.phase = "closed"] =
        [chan |-> subs[r].chan, phase |-> "closed", since |-> subs[r].since]
  BY <1>3
<1>7. FeedScope' = [FeedScope EXCEPT ![r].phase = "closed"]
  BY <1>5, <1>6
<1> QED BY <1>2, <1>3, <1>7 DEF Feed!Detach, FeedLog, FeedScope, FeedFeed

LEMMA FeedStepSimulation ==
  ASSUME ChatConstants, FeedInv, [Next]_vars
  PROVE  [Feed!Next]_Feed!feedVars
<1>1. ASSUME UNCHANGED <<posted, subs, buffer, received>>
      PROVE  UNCHANGED Feed!feedVars
  BY <1>1, StutterStep DEF Stream
<1>2. CASE RoomStep \/ QueryModeration \/ Tick \/ UNCHANGED vars
  BY <1>1, <1>2
     DEF RoomStep, QueryModeration, Tick, JoinChannel, LeaveChannel, vars,
         Kick, Unban, Unmute, Ban, Mute, log, streams
<1>3. ASSUME NEW p \in Callers, NEW c \in Channels, Post(p, c)
      PROVE  Feed!Next \/ UNCHANGED Feed!feedVars
  <2>1. CASE PostSilenced(p, c) \/ PostRateLimited(p, c)
    BY <1>1, <2>1 DEF PostSilenced, PostRateLimited, log, streams
  <2>2. CASE PostAccepted(p, c)
    BY <2>2, PostPublishes DEF Feed!Next
  <2> QED BY <1>3, <2>1, <2>2 DEF Post
<1>4. ASSUME NEW p \in Callers, NEW s \in Subs, Send(p, s)
      PROVE  Feed!Next \/ UNCHANGED Feed!feedVars
  BY <1>4, SendOffers DEF Feed!Next
<1>5. ASSUME NEW s \in Subs, NEW c \in Channels, Subscribe(s, c)
      PROVE  Feed!Next
  BY <1>5, SubscribeAttaches DEF Feed!Next
<1>6. ASSUME NEW s \in Subs, Unsubscribe(s) PROVE Feed!Next
  BY <1>6, UnsubscribeDetaches DEF Feed!Next
<1>7. ASSUME NEW s \in Subs, Receive(s) PROVE UNCHANGED Feed!feedVars
  <2>1. UNCHANGED <<posted, subs>>
    BY <1>7 DEF Receive, log
  <2>2. \A x \in Subs : Stream(x)' = Stream(x)
    BY <1>7, ReceiveKeepsStreams DEF FeedInv
  <2> QED BY <2>1, <2>2, StutterStep
<1> QED BY <1>2, <1>3, <1>4, <1>5, <1>6, <1>7 DEF Next, FeedStep

(* Every behaviour of the chat service is one ChatFeed allows: each reader *)
(* gets messages of its own room only, posted while it was subscribed,     *)
(* each at most once, and those of one caller in the order of their ids.   *)
THEOREM FeedImplemented == Spec => FeedPromise
<1>1. Init => Feed!Init
  <2> SUFFICES ASSUME Init PROVE Feed!Init
    OBVIOUS
  <2>1. FeedLog = <<>>
    BY DEF Init, FeedLog
  <2>2. \A s \in Subs : FeedScope[s].phase = "fresh"
    BY DEF Init, FeedScope, NoSub
  <2>3. FeedFeed = [s \in Subs |-> <<>>]
    BY DEF Init, FeedFeed, Stream
  <2> QED BY <2>1, <2>2, <2>3 DEF Feed!Init, FeedLog, FeedScope, FeedFeed
<1>2. FeedInv /\ [Next]_vars => [Feed!Next]_Feed!feedVars
  BY ChatConstants, FeedStepSimulation
<1> QED BY <1>1, <1>2, FeedInvariant, PTL DEF Spec, FeedPromise, Feed!Spec
-----------------------------------------------------------------------------
(* Nothing is lost within the capacity of a Go channel.                    *)

(* No id is twice in a stream, and a stream starts with its subscription.  *)
DistinctOK ==
  \A s \in Subs :
    /\ \A j, k \in 1..Len(Stream(s)) : Stream(s)[j] = Stream(s)[k] => j = k
    /\ subs[s].phase = "fresh" => Len(Stream(s)) = 0

LossInv == DistinctOK /\ NoLossWithinCapacity

LEMMA AddressedFinite ==
  ASSUME StreamsTyped, NEW s \in Subs
  PROVE  IsFiniteSet(Addressed(s)) /\ Cardinality(Addressed(s)) \in Nat
<1>1. IsFiniteSet(1..Len(posted))
  BY FS_Interval DEF StreamsTyped
<1> QED BY <1>1, FS_Subset, FS_CardinalityType DEF Addressed

(* A message in flight to a subscription is not yet in its stream.         *)
LEMMA InFlightIsNew ==
  ASSUME FeedInv, NEW p \in Callers, NEW s \in Subs, s \in outgoing[p].to,
         NEW k \in 1..Len(Stream(s))
  PROVE  Stream(s)[k] # outgoing[p].id
<1>1. /\ outgoing[p].id \in 1..nextID /\ posted[outgoing[p].id].by = p /\ nextID \in Nat
      /\ posted[Stream(s)[k]].by = p => Stream(s)[k] < outgoing[p].id
  BY DEF FeedInv, InFlightOK, StreamOK, StreamsTyped
<1> QED BY <1>1

(* A Go channel that is full, and one more message for it: more messages   *)
(* are addressed to the subscription than the channel holds.               *)
LEMMA FullMeansBehind ==
  ASSUME ChatConstants, FeedInv, DistinctOK, NEW p \in Callers, NEW s \in Subs,
         s \in outgoing[p].to, Len(buffer[s]) >= BufferCap,
         Addressed(s) = Seen(s) \cup InFlight(s)
  PROVE  Cardinality(Addressed(s)) > BufferCap
<1> DEFINE id   == outgoing[p].id
           last == Len(received[s])
           f    == [k \in 1..BufferCap |-> Stream(s)[last + k]]
           T    == Addressed(s) \ {id}
<1>1. /\ StreamsTyped /\ BufferCap \in Nat /\ last \in Nat /\ Len(buffer[s]) \in Nat
      /\ received[s] \in Seq(Nat) /\ buffer[s] \in Seq(Nat)
  BY DEF FeedInv, StreamsTyped, ChatConstants
<1>2. \A k \in 1..BufferCap : last + k \in 1..Len(Stream(s))
  <2>1. Len(Stream(s)) = last + Len(buffer[s])
    BY <1>1 DEF Stream
  <2>2. \A l, m, b, k \in Nat : m >= b /\ 1 <= k /\ k <= b => 1 <= l + k /\ l + k <= l + m
    OBVIOUS
  <2> SUFFICES ASSUME NEW k \in 1..BufferCap
               PROVE  1 <= last + k /\ last + k <= Len(Stream(s)) /\ last + k \in Int
                      /\ Len(Stream(s)) \in Int
    OBVIOUS
  <2> HIDE DEF last
  <2> QED BY <1>1, <2>1, <2>2
<1>3. id \in Addressed(s)
  BY DEF InFlight
<1>4. f \in Injection(1..BufferCap, T)
  <2>1. ASSUME NEW k \in 1..BufferCap PROVE f[k] \in T
    <3>1. f[k] = Stream(s)[last + k] /\ last + k \in 1..Len(Stream(s))
      BY <1>2
    <3>2. f[k] \in Seen(s) /\ f[k] # id
      BY <3>1, InFlightIsNew DEF Seen
    <3> QED BY <3>2
  <2>2. ASSUME NEW j \in 1..BufferCap, NEW k \in 1..BufferCap, f[j] = f[k] PROVE j = k
    <3>1. last + j = last + k
      BY <1>2, <2>2 DEF DistinctOK
    <3> QED BY <1>1, <3>1
  <2>3. f \in [1..BufferCap -> T]
    BY <2>1
  <2> QED BY <2>2, <2>3 DEF Injection, IsInjective
<1>5. /\ IsFiniteSet(Addressed(s)) /\ Cardinality(Addressed(s)) \in Nat
      /\ IsFiniteSet(T) /\ Cardinality(T) = Cardinality(Addressed(s)) - 1
  BY <1>1, <1>3, AddressedFinite, FS_RemoveElement
<1>6. Cardinality(1..BufferCap) = BufferCap
  BY <1>1, FS_Interval
<1>7. Cardinality(1..BufferCap) <= Cardinality(T)
  BY <1>4, <1>5, FS_Injection
<1> QED BY <1>1, <1>5, <1>6, <1>7

(* Steps that touch neither the log, nor a stream, nor what is in flight.  *)
LEMMA QuietLossStep ==
  ASSUME LossInv, posted' = posted, outgoing' = outgoing,
         \A s \in Subs : /\ subs'[s].chan = subs[s].chan
                         /\ subs'[s].since = subs[s].since
                         /\ subs'[s].phase = subs[s].phase \/ subs'[s].phase = "closed"
                         /\ Stream(s)' = Stream(s)
  PROVE  LossInv'
<1>1. DistinctOK'
  BY DEF LossInv, DistinctOK
<1>2. \A s \in Subs : /\ Addressed(s)' = Addressed(s)
                      /\ Seen(s)' = Seen(s) /\ InFlight(s)' = InFlight(s)
  BY DEF Addressed, Seen, InFlight
<1> QED BY <1>1, <1>2 DEF LossInv, NoLossWithinCapacity

LEMMA PostKeepsLossInv ==
  ASSUME ChatConstants, FeedInv, StreamsTyped', LossInv,
         NEW p \in Callers, NEW c \in Channels,
         outgoing[p] = Idle, PostAccepted(p, c)
  PROVE  LossInv'
<1>1. /\ StreamsTyped /\ nextID = Len(posted) /\ nextID \in Nat
      /\ outgoing \in [Callers -> [id : Nat, to : SUBSET Subs]]
  BY DEF FeedInv, StreamsTyped
<1>2. /\ Len(posted') = nextID + 1
      /\ posted'[nextID + 1].chan = c
      /\ \A i \in 1..nextID : posted'[i] = posted[i]
  <2>1. posted' = Append(posted, NewMessage(p, c))
    BY DEF PostAccepted, NewMessage
  <2>2. NewMessage(p, c).chan = c /\ NewMessage(p, c) \in Messages /\ posted \in Seq(Messages)
    BY <1>1, NewMessageType DEF NewMessage, StreamsTyped
  <2> QED BY <1>1, <2>1, <2>2
<1>3. \A s \in Subs : /\ subs'[s].chan = subs[s].chan
                      /\ subs'[s].phase = subs[s].phase
                      /\ subs'[s].since = subs[s].since
                      /\ subs[s].since <= nextID /\ subs[s].since \in Nat
  <2> SUFFICES ASSUME NEW s \in Subs
               PROVE  /\ subs'[s].chan = subs[s].chan
                      /\ subs'[s].phase = subs[s].phase
                      /\ subs'[s].since = subs[s].since
                      /\ subs[s].since <= nextID /\ subs[s].since \in Nat
    OBVIOUS
  <2>1. subs[s] \in Subscriptions
    BY <1>1 DEF StreamsTyped
  <2>2. subs'[s] = subs[s] \/ subs'[s] = [subs[s] EXCEPT !.lastID = nextID + 1]
    BY DEF PostAccepted
  <2> QED BY <2>1, <2>2 DEF Subscriptions, FeedInv, SinceOK
<1>4. \A s \in Subs : Stream(s)' = Stream(s) /\ Seen(s)' = Seen(s)
  BY DEF PostAccepted, Stream, Seen
<1>5. DistinctOK'
  BY <1>3, <1>4 DEF LossInv, DistinctOK
<1>6. ASSUME NEW s \in Subs, subs'[s].phase = "open",
             Cardinality(Addressed(s)') <= BufferCap
      PROVE  Addressed(s)' = Seen(s)' \cup InFlight(s)'
  <2>1. Addressed(s)' = Addressed(s) \cup (IF subs[s].chan = c THEN {nextID + 1} ELSE {})
    BY <1>1, <1>2, <1>3 DEF Addressed
  <2>2. InFlight(s)' = InFlight(s) \cup (IF subs[s].chan = c THEN {nextID + 1} ELSE {})
    <3>1. outgoing' = IF OpenSubs(c) = {} THEN outgoing
                        ELSE [outgoing EXCEPT ![p] = [id |-> nextID + 1, to |-> OpenSubs(c)]]
      BY DEF PostAccepted
    <3>2. s \in OpenSubs(c) <=> subs[s].chan = c
      BY <1>3, <1>6 DEF OpenSubs
    <3>3. outgoing[p].to = {}
      BY DEF Idle
    <3>4. CASE OpenSubs(c) = {}
      BY <3>1, <3>2, <3>4 DEF InFlight
    <3>5. CASE OpenSubs(c) # {}
      <4>1. /\ outgoing'[p].id = nextID + 1 /\ outgoing'[p].to = OpenSubs(c)
            /\ \A q \in Callers \ {p} : outgoing'[q] = outgoing[q]
        BY <1>1, <3>1, <3>5
      <4> QED BY <3>2, <3>3, <4>1 DEF InFlight
    <3> QED BY <3>4, <3>5
  <2>3. Cardinality(Addressed(s)) <= BufferCap
    <3>1. /\ IsFiniteSet(Addressed(s)) /\ Cardinality(Addressed(s)) \in Nat
          /\ IsFiniteSet(Addressed(s)') /\ Cardinality(Addressed(s)') \in Nat
      <4>1. IsFiniteSet(Addressed(s)) /\ Cardinality(Addressed(s)) \in Nat
        BY <1>1, AddressedFinite
      <4>2. IsFiniteSet(Addressed(s) \cup {nextID + 1})
        BY <4>1, FS_AddElement
      <4>3. IsFiniteSet(Addressed(s)')
        BY <2>1, <4>1, <4>2
      <4> QED BY <4>1, <4>3, FS_CardinalityType
    <3>2. Cardinality(Addressed(s)) <= Cardinality(Addressed(s)')
      BY <2>1, <3>1, FS_Subset
    <3> QED BY <1>6, <3>1, <3>2 DEF ChatConstants
  <2>4. Addressed(s) = Seen(s) \cup InFlight(s)
    BY <1>3, <1>6, <2>3 DEF LossInv, NoLossWithinCapacity
  <2> QED BY <1>4, <2>1, <2>2, <2>4
<1> QED BY <1>5, <1>6 DEF LossInv, NoLossWithinCapacity

LEMMA SendKeepsLossInv ==
  ASSUME ChatConstants, FeedInv, LossInv, NEW p \in Callers, NEW r \in Subs, Send(p, r)
  PROVE  LossInv'
<1> DEFINE id == outgoing[p].id
<1>1. /\ StreamsTyped /\ BufferCap \in Nat
      /\ outgoing \in [Callers -> [id : Nat, to : SUBSET Subs]]
  BY DEF FeedInv, StreamsTyped, ChatConstants
<1>2. UNCHANGED <<nextID, posted, subs>> /\ r \in outgoing[p].to
  BY DEF Send, log
<1>3. \A s \in Subs : Addressed(s)' = Addressed(s)
  BY <1>2 DEF Addressed
<1>4. /\ \A s \in Subs \ {r} : Stream(s)' = Stream(s)
      /\ \/ Stream(r)' = Stream(r)
         \/ Stream(r)' = Append(Stream(r), id) /\ subs[r].phase = "open"
  BY <1>1, SendAppends
<1>5. Stream(r) \in Seq(Nat) /\ Len(Stream(r)) \in Nat /\ id \in Nat
  BY <1>1, StreamType
<1>6. DistinctOK'
  <2>1. ASSUME NEW s \in Subs, Stream(s)' = Stream(s)
        PROVE  /\ \A j, k \in 1..Len(Stream(s)') : Stream(s)'[j] = Stream(s)'[k] => j = k
               /\ subs'[s].phase = "fresh" => Len(Stream(s)') = 0
    BY <1>2, <2>1 DEF LossInv, DistinctOK
  <2>2. ASSUME Stream(r)' = Append(Stream(r), id), subs[r].phase = "open"
        PROVE  /\ \A j, k \in 1..Len(Stream(r)') : Stream(r)'[j] = Stream(r)'[k] => j = k
               /\ subs'[r].phase = "fresh" => Len(Stream(r)') = 0
    <3>1. /\ Len(Stream(r)') = Len(Stream(r)) + 1
          /\ Stream(r)'[Len(Stream(r)) + 1] = id
          /\ \A k \in 1..Len(Stream(r)) : Stream(r)'[k] = Stream(r)[k]
      BY <1>5, <2>2
    <3>2. \A k \in 1..Len(Stream(r)) : Stream(r)[k] # id
      BY <1>2, InFlightIsNew
    <3> QED BY <1>2, <1>5, <2>2, <3>1, <3>2 DEF LossInv, DistinctOK
  <2> QED BY <1>4, <2>1, <2>2 DEF DistinctOK
<1>7. ASSUME NEW s \in Subs, s # r PROVE InFlight(s)' = InFlight(s)
  <2>1. \A q \in Callers \ {p} : outgoing'[q] = outgoing[q]
    BY <1>1 DEF Send
  <2>2. s \in outgoing[p].to => outgoing'[p].id = id /\ s \in outgoing'[p].to
    <3>1. ASSUME s \in outgoing[p].to
          PROVE  outgoing'[p].id = id /\ outgoing'[p].to = outgoing[p].to \ {r}
      <4>1. outgoing[p].to \ {r} # {}
        BY <1>7, <3>1
      <4> QED BY <1>1, <4>1 DEF Send
    <3> QED BY <1>7, <3>1
  <2>3. s \in outgoing'[p].to => s \in outgoing[p].to
    BY <1>1, SendFinishes
  <2> QED BY <2>1, <2>2, <2>3 DEF InFlight
<1>8. InFlight(r) = InFlight(r)' \cup {id}
  <2>1. /\ r \notin outgoing'[p].to
        /\ \A q \in Callers \ {p} : outgoing'[q] = outgoing[q]
    BY <1>1, SendFinishes DEF Send
  <2> QED BY <1>2, <2>1 DEF InFlight
<1>9. ASSUME NEW s \in Subs, subs'[s].phase = "open",
             Cardinality(Addressed(s)') <= BufferCap
      PROVE  Addressed(s)' = Seen(s)' \cup InFlight(s)'
  <2>1. Addressed(s) = Seen(s) \cup InFlight(s)
    BY <1>2, <1>3, <1>9 DEF LossInv, NoLossWithinCapacity
  <2>2. CASE s # r
    BY <1>3, <1>4, <1>7, <2>1, <2>2 DEF Seen
  <2>3. CASE s = r
    <3>1. Len(buffer[r]) < BufferCap
      <4>1. Cardinality(Addressed(r)) \in Nat /\ Cardinality(Addressed(r)) <= BufferCap
        BY <1>1, <1>3, <1>9, <2>3, AddressedFinite
      <4>2. Len(buffer[r]) \in Nat
        BY <1>1 DEF StreamsTyped
      <4> QED BY <1>1, <1>2, <2>1, <2>3, <4>1, <4>2, FullMeansBehind DEF LossInv
    <3>2. Stream(r)' = Append(Stream(r), id)
      <4>1. buffer'[r] = Append(buffer[r], id) /\ received' = received
        BY <1>1, <1>2, <1>9, <2>3, <3>1 DEF Send, StreamsTyped
      <4>2. received[r] \in Seq(Nat) /\ buffer[r] \in Seq(Nat)
        BY <1>1 DEF StreamsTyped
      <4>3. received[r] \o Append(buffer[r], id) = Append(received[r] \o buffer[r], id)
        BY <1>5, <4>2, AppendToConcat
      <4> QED BY <4>1, <4>3 DEF Stream
    <3>3. Seen(r)' = Seen(r) \cup {id}
      <4>1. /\ Len(Stream(r)') = Len(Stream(r)) + 1
            /\ Stream(r)'[Len(Stream(r)) + 1] = id
            /\ \A k \in 1..Len(Stream(r)) : Stream(r)'[k] = Stream(r)[k]
        BY <1>5, <3>2
      <4>2. 1..(Len(Stream(r)) + 1) = 1..Len(Stream(r)) \cup {Len(Stream(r)) + 1}
        BY <1>5
      <4> QED BY <4>1, <4>2 DEF Seen
    <3> QED BY <1>3, <1>8, <2>1, <2>3, <3>3
  <2> QED BY <2>2, <2>3
<1> QED BY <1>6, <1>9 DEF LossInv, NoLossWithinCapacity

LEMMA SubscribeKeepsLossInv ==
  ASSUME FeedInv, LossInv, NEW r \in Subs, NEW c \in Channels, Subscribe(r, c)
  PROVE  LossInv'
<1>1. /\ nextID = Len(posted) /\ nextID \in Nat
      /\ UNCHANGED <<nextID, posted, buffer, received, outgoing>>
      /\ subs[r].phase = "fresh" /\ subs'[r].since = nextID
      /\ \A s \in Subs \ {r} : subs'[s] = subs[s]
  BY DEF FeedInv, StreamsTyped, Subscribe, log
<1>2. \A s \in Subs : /\ Stream(s)' = Stream(s) /\ Seen(s)' = Seen(s)
                      /\ InFlight(s)' = InFlight(s)
  BY <1>1 DEF Stream, Seen, InFlight
<1>3. DistinctOK'
  <2>1. \A s \in Subs : subs'[s].phase = "fresh" => subs[s].phase = "fresh"
    BY <1>1
  <2> QED BY <1>2, <2>1 DEF LossInv, DistinctOK
<1>4. \A s \in Subs \ {r} : Addressed(s)' = Addressed(s)
  BY <1>1 DEF Addressed
<1>5. Addressed(r)' = {} /\ Seen(r) = {} /\ InFlight(r) = {}
  <2>1. Addressed(r)' = {}
    BY <1>1 DEF Addressed
  <2>2. Len(Stream(r)) = 0
    BY <1>1 DEF LossInv, DistinctOK
  <2>3. InFlight(r) = {}
    BY <1>1 DEF FeedInv, InFlightOK, InFlight
  <2> QED BY <2>1, <2>2, <2>3 DEF Seen
<1>6. ASSUME NEW s \in Subs, subs'[s].phase = "open",
             Cardinality(Addressed(s)') <= BufferCap
      PROVE  Addressed(s)' = Seen(s)' \cup InFlight(s)'
  BY <1>1, <1>2, <1>4, <1>5, <1>6 DEF LossInv, NoLossWithinCapacity
<1> QED BY <1>3, <1>6 DEF LossInv, NoLossWithinCapacity

LEMMA LossInvStep ==
  ASSUME ChatConstants, FeedInv, LossInv, [Next]_vars
  PROVE  LossInv'
<1>1. StreamsTyped /\ StreamsTyped'
  BY StreamsTypedStep DEF FeedInv
<1>2. ASSUME UNCHANGED <<posted, outgoing, subs, buffer, received>> PROVE LossInv'
  BY <1>2, QuietLossStep DEF Stream
<1>3. CASE RoomStep \/ QueryModeration \/ Tick \/ UNCHANGED vars
  BY <1>2, <1>3 DEF RoomStep, QueryModeration, Tick, JoinChannel, LeaveChannel, vars,
                    Kick, Unban, Unmute, Ban, Mute, log, streams
<1>4. ASSUME NEW p \in Callers, NEW c \in Channels, Post(p, c) PROVE LossInv'
  BY <1>1, <1>2, <1>4, PostKeepsLossInv DEF Post, PostSilenced, PostRateLimited, log, streams
<1>5. ASSUME NEW p \in Callers, NEW s \in Subs, Send(p, s) PROVE LossInv'
  BY <1>5, SendKeepsLossInv
<1>6. ASSUME NEW s \in Subs, NEW c \in Channels, Subscribe(s, c) PROVE LossInv'
  BY <1>6, SubscribeKeepsLossInv
<1>7. ASSUME NEW r \in Subs, Unsubscribe(r) PROVE LossInv'
  <2>1. \A s \in Subs : /\ subs'[s].chan = subs[s].chan
                        /\ subs'[s].since = subs[s].since
                        /\ subs'[s].phase = subs[s].phase \/ subs'[s].phase = "closed"
    <3> SUFFICES ASSUME NEW s \in Subs
                 PROVE  /\ subs'[s].chan = subs[s].chan
                        /\ subs'[s].since = subs[s].since
                        /\ subs'[s].phase = subs[s].phase \/ subs'[s].phase = "closed"
      OBVIOUS
    <3>1. subs[s] \in Subscriptions
      BY <1>1 DEF StreamsTyped
    <3>2. subs'[s] = subs[s] \/ subs'[s] = [subs[s] EXCEPT !.phase = "closed"]
      BY <1>1, <1>7 DEF StreamsTyped, Unsubscribe
    <3> QED BY <3>1, <3>2 DEF Subscriptions
  <2> QED BY <1>7, <2>1, QuietLossStep DEF Unsubscribe, log, Stream
<1>8. ASSUME NEW r \in Subs, Receive(r) PROVE LossInv'
  BY <1>1, <1>8, QuietLossStep, ReceiveKeepsStreams DEF Receive, log
<1> QED BY <1>3, <1>4, <1>5, <1>6, <1>7, <1>8 DEF Next, FeedStep

(* While no more messages than a Go channel holds have been addressed to   *)
(* an open subscription, none of them is lost, however the fan-outs of the *)
(* callers interleave.                                                     *)
THEOREM NothingLostWithinCapacity == Spec => []NoLossWithinCapacity
<1>1. Init => LossInv
  <2> SUFFICES ASSUME Init PROVE LossInv
    OBVIOUS
  <2>1. \A s \in Subs : Len(Stream(s)) = 0 /\ subs[s].phase = "fresh"
    BY DEF Init, Stream, NoSub
  <2> QED BY <2>1 DEF LossInv, DistinctOK, NoLossWithinCapacity
<1>2. FeedInv /\ LossInv /\ [Next]_vars => LossInv'
  BY ChatConstants, LossInvStep
<1>3. LossInv => NoLossWithinCapacity
  BY DEF LossInv
<1> QED BY <1>1, <1>2, <1>3, FeedInvariant, PTL DEF Spec
=============================================================================
