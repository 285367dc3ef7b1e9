------------------------------- MODULE EventBus -------------------------------
(***************************************************************************)
(* The event bus (engine/src/event_bus.c): the subscriber table, the       *)
(* topic patterns, and the loop that calls the subscribers, who publish,   *)
(* subscribe and unsubscribe in turn.  An event published by a callback    *)
(* reaches all its subscribers before the outer one reaches the rest.      *)
(*                                                                         *)
(* Topics and patterns are sequences of letters.                           *)
(***************************************************************************)
EXTENDS Naturals, Sequences

CONSTANTS
  Topics,    \* topics the engine publishes
  Patterns,  \* topic filters clients subscribe with
  MaxSubs,   \* MAX_SUBSCRIBERS
  Depth      \* bound: events published inside each other

Star == "*"

VARIABLES
  subs,   \* e->subscribers: [pattern, active], never removed
  inside  \* events being delivered, the innermost first

vars == <<subs, inside>>

Init == subs = <<>> /\ inside = <<>>

-----------------------------------------------------------------------------
(* eb_topic_match, from letter i of the pattern and letter j of the topic.  *)
Matches(pattern, topic) ==
  LET m == Len(pattern)
      n == Len(topic)
      after(i, j) == {k \in j .. n : topic[k] = pattern[i + 1]}
      from[i \in 1 .. m + 1] == [j \in 1 .. n + 1 |->
        IF i > m \/ j > n
          THEN (i = m /\ pattern[m] = Star) \/ (i > m /\ j > n)
        ELSE IF pattern[i] = Star
          THEN \/ i = m
               \/ /\ after(i, j) # {}
                  /\ from[i + 1][CHOOSE k \in after(i, j) : \A l \in after(i, j) : k <= l]
        ELSE pattern[i] = topic[j] /\ from[i + 1][j + 1]]
  IN from[1][1]

(* eb_subscribe. *)
Subscribe(pattern) ==
  /\ Len(subs) < MaxSubs
  /\ subs' = Append(subs, [pattern |-> pattern, active |-> TRUE])
  /\ UNCHANGED inside

(* Mutant: the entry is taken out of the table. *)
UnsubscribeCompacts(i) ==
  /\ i \in DOMAIN subs
  /\ subs' = SubSeq(subs, 1, i - 1) \o SubSeq(subs, i + 1, Len(subs))
  /\ inside' = [d \in DOMAIN inside |->
                  [inside[d] EXCEPT !.steady = {IF s > i THEN s - 1 ELSE s : s \in @ \ {i}},
                                    !.got = {IF s > i THEN s - 1 ELSE s : s \in @ \ {i}}]]

(* eb_unsubscribe: the entry keeps its place. *)
Unsubscribe(i) ==
  /\ i \in DOMAIN subs
  /\ subs[i].active
  /\ subs' = [subs EXCEPT ![i].active = FALSE]
  /\ inside' = [d \in DOMAIN inside |-> [inside[d] EXCEPT !.steady = @ \ {i}]]

(* eb_publish begins its loop.  "steady" and "got" are history: who was     *)
(* subscribed then and still is, and who was called.                        *)
Publish(topic) ==
  /\ Len(inside) < Depth
  /\ inside' = <<[topic |-> topic, next |-> 1, got |-> {},
                  steady |-> {i \in DOMAIN subs : subs[i].active}]>> \o inside
  /\ UNCHANGED subs

(* One round of the loop: the callback, in which anything above may happen  *)
(* before the next round.  The bound of the loop is read each time.         *)
Round ==
  /\ inside # <<>>
  /\ LET ev == Head(inside)
         called == subs[ev.next].active /\ Matches(subs[ev.next].pattern, ev.topic)
     IN /\ ev.next <= Len(subs)
        /\ inside' = [inside EXCEPT ![1].next = @ + 1,
                                    ![1].got = IF called THEN @ \cup {ev.next} ELSE @]
  /\ UNCHANGED subs

Return ==
  /\ inside # <<>>
  /\ Head(inside).next > Len(subs)
  /\ inside' = Tail(inside)
  /\ UNCHANGED subs

Next ==
  \/ \E pattern \in Patterns : Subscribe(pattern)
  \/ \E i \in 1 .. MaxSubs : Unsubscribe(i)
  \/ \E topic \in Topics : Publish(topic)
  \/ Round
  \/ Return

-----------------------------------------------------------------------------
(* What a pattern means: itself, or what begins with the letters before a   *)
(* trailing star.                                                           *)
Meant(pattern, topic) ==
  LET last == Len(pattern) IN
  IF pattern # <<>> /\ pattern[last] = Star
    THEN last <= Len(topic) + 1 /\ \A k \in 1 .. last - 1 : pattern[k] = topic[k]
    ELSE pattern = topic

(* Who stays subscribed while an event is delivered is called for it, once, *)
(* whatever the callbacks before it published, subscribed or unsubscribed.  *)
SteadyAreCalled ==
  \A d \in DOMAIN inside :
    {i \in inside[d].steady \cap DOMAIN subs :
       i < inside[d].next /\ Meant(subs[i].pattern, inside[d].topic)}
      \subseteq inside[d].got
=============================================================================
