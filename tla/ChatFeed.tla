------------------------------ MODULE ChatFeed ------------------------------
(***************************************************************************)
(* What a chat subscription promises its reader, whatever the service does *)
(* inside (internal/chat/service.go, Subscribe and Post): the feed of a    *)
(* subscription only ever grows, and every message that enters it          *)
(*   - was posted to the room the subscription was opened on,              *)
(*   - after the subscription was opened and while it was still open,      *)
(*   - enters it at most once,                                             *)
(*   - and enters after the earlier messages of the same caller that are   *)
(*     in the feed at all.                                                 *)
(* A message may be missing from a feed: a subscriber that is behind by a  *)
(* full buffer loses it.  Messages of different callers may enter in an    *)
(* order that is not the order of their ids.                               *)
(***************************************************************************)
EXTENDS Integers, Sequences

CONSTANTS Callers, Channels, Subs

VARIABLES
  log,    \* the messages of all rooms, by id: [chan, by]
  scope,  \* the room, the phase and the starting point of a subscription
  feed    \* the ids each subscription has been given, in order

feedVars == <<log, scope, feed>>

Init ==
  /\ log = <<>>
  /\ \A s \in Subs : scope[s].phase = "fresh"
  /\ feed = [s \in Subs |-> <<>>]

Publish(p, c) ==
  /\ log' = Append(log, [chan |-> c, by |-> p])
  /\ UNCHANGED <<scope, feed>>

Attach(s, c) ==
  /\ scope[s].phase = "fresh"
  /\ scope' = [scope EXCEPT ![s] =
                 [chan |-> c, phase |-> "open", since |-> Len(log)]]
  /\ UNCHANGED <<log, feed>>

Detach(s) ==
  /\ scope[s].phase = "open"
  /\ scope' = [scope EXCEPT ![s].phase = "closed"]
  /\ UNCHANGED <<log, feed>>

(* The ids a subscription may still be given. *)
Eligible(s) ==
  {i \in 1..Len(log) :
     /\ scope[s].phase = "open"
     /\ log[i].chan = scope[s].chan
     /\ i > scope[s].since
     /\ \A k \in 1..Len(feed[s]) :
          /\ feed[s][k] # i
          /\ log[feed[s][k]].by = log[i].by => feed[s][k] < i}

Offer(s, i) ==
  /\ i \in Eligible(s)
  /\ feed' = [feed EXCEPT ![s] = Append(@, i)]
  /\ UNCHANGED <<log, scope>>

Next ==
  \/ \E p \in Callers, c \in Channels : Publish(p, c)
  \/ \E s \in Subs, c \in Channels : Attach(s, c)
  \/ \E s \in Subs : Detach(s)
  \/ \E s \in Subs : \E i \in Eligible(s) : Offer(s, i)

Spec == Init /\ [][Next]_feedVars

=============================================================================
