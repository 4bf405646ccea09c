----------------------------- MODULE Notifier ------------------------------
(***************************************************************************)
(* The wake-up registry under every long poll (class Notifier of           *)
(* store.py): one asyncio.Event per key, reference counts of the waiters,  *)
(* and a least-recently-used bound on the number of keys.                  *)
(*                                                                         *)
(* An event has no identity here. What matters of the one a waiter holds   *)
(* is whether it is still the one on register ("current"), has been set    *)
(* ("fired"), or was dropped from the register unset ("lost"): nobody can  *)
(* set that one any more.                                                  *)
(***************************************************************************)
EXTENDS Naturals, FiniteSets

CONSTANTS
  Tasks,      \* coroutines that call wait_for, one call at a time
  Keys,       \* inbox:<session>, pubsub:<channel>, outbox:<id>, ...
  InboxKeys,  \* those that start with inbox:
  MaxEvents,  \* max_events
  NoKey       \* key of a task that is not waiting

ASSUME NotifierAssumption ==
  /\ InboxKeys \subseteq Keys
  /\ MaxEvents \in Nat \ {0}
  /\ NoKey \notin Keys

VARIABLES
  events,   \* keys of _events
  older,    \* their order there: <<j, k>> when k was used after j
  refs,     \* _waiters, 0 where there is no entry
  counted,  \* keys of _waiters
  pc,       \* where each task stands in wait_for
  key,      \* the key it waits for
  ev        \* the event it holds

vars == <<events, older, refs, counted, pc, key, ev>>

Active == {k \in Keys : refs[k] > 0}

Init ==
  /\ events = {}
  /\ older = {}
  /\ refs = [k \in Keys |-> 0]
  /\ counted = {}
  /\ pc = [t \in Tasks |-> "idle"]
  /\ key = [t \in Tasks |-> NoKey]
  /\ ev = [t \in Tasks |-> "none"]

\* move_to_end of the keys ks, one after the other in the order they have.
MovedToEnd(ks) == {p \in older : p[1] \in ks => p[2] \in ks} \cup ((events \ ks) \X ks)

Surplus(keys) == IF Cardinality(keys) > MaxEvents THEN Cardinality(keys) - MaxEvents ELSE 0

\* _evict_if_over_capacity: of these keys, in this order, it drops the least recently used
\* without a waiter.
Evicted(keys, order) ==
  LET idle == keys \ Active
  IN {k \in idle : Cardinality({j \in idle : <<j, k>> \in order}) < Surplus(keys)}

\* What is left of an order.
Among(keys, order) == {p \in order : p[1] \in keys /\ p[2] \in keys}

\* Whoever holds the event of a dropped key holds one that nobody will set.
Dropped(gone, held) ==
  [t \in Tasks |-> IF key[t] \in gone /\ held[t] = "current" THEN "lost" ELSE held[t]]

\* _get(k) by task t: an unknown key is registered and the capacity enforced at once, which
\* may drop that very key.
Get(t, k) ==
  LET keys == events \cup {k}
      gone == IF k \in events THEN {} ELSE Evicted(keys, MovedToEnd({k}))
  IN /\ events' = keys \ gone
     /\ older' = Among(keys \ gone, MovedToEnd({k}))
     /\ counted' = (counted \ gone) \cup {k}
     /\ ev' = [Dropped(gone, ev) EXCEPT ![t] = IF k \in gone THEN "lost" ELSE "current"]

\* wait_for with a positive timeout: _get, then the count, with no await between the two.
Begin(t, k) ==
  /\ pc[t] = "idle"
  /\ Get(t, k)
  /\ refs' = [refs EXCEPT ![k] = @ + 1]
  /\ pc' = [pc EXCEPT ![t] = "check"]
  /\ key' = [key EXCEPT ![t] = k]

\* The first check() found nothing.
Park(t) ==
  /\ pc[t] = "check"
  /\ pc' = [pc EXCEPT ![t] = "parked"]
  /\ UNCHANGED <<events, older, refs, counted, key, ev>>

Wake(t) ==
  /\ pc[t] = "parked" /\ ev[t] = "fired"
  /\ pc' = [pc EXCEPT ![t] = "recheck"]
  /\ UNCHANGED <<events, older, refs, counted, key, ev>>

\* A later check() found nothing: the event is fetched afresh.
ParkAgain(t) ==
  /\ pc[t] = "recheck"
  /\ Get(t, key[t])
  /\ pc' = [pc EXCEPT ![t] = "parked"]
  /\ UNCHANGED <<refs, key>>

\* check() found something, the time is up, or the request is cancelled: the finally.
Leave(t) ==
  /\ pc[t] # "idle"
  /\ refs' = [refs EXCEPT ![key[t]] = @ - 1]
  /\ pc' = [pc EXCEPT ![t] = "idle"]
  /\ key' = [key EXCEPT ![t] = NoKey]
  /\ ev' = [ev EXCEPT ![t] = "none"]
  /\ UNCHANGED <<events, older, counted>>

\* The events of ks are set and replaced; the keys become the most recently used, in order.
Fired(ks) ==
  /\ older' = MovedToEnd(ks)
  /\ ev' = [t \in Tasks |-> IF key[t] \in ks /\ ev[t] = "current" THEN "fired" ELSE ev[t]]
  /\ UNCHANGED <<events, refs, counted, pc, key>>

Notify(k) == k \in events /\ Fired({k})

\* notify_prefix("inbox:"), for a broadcast.
NotifyPrefix == InboxKeys \cap events # {} /\ Fired(InboxKeys \cap events)

\* Mutant: forget drops the key under its waiters.
ForgetAlways(k) ==
  /\ k \in events \ InboxKeys
  /\ events' = events \ {k}
  /\ older' = Among(events \ {k}, older)
  /\ counted' = counted \ {k}
  /\ ev' = Dropped({k}, ev)
  /\ UNCHANGED <<refs, pc, key>>

\* forget(k), by the sweep for rows it has deleted; inbox: keys are never forgotten by name.
Forget(k) ==
  /\ k \notin InboxKeys
  /\ k \in events \cup counted
  /\ refs[k] = 0
  /\ events' = events \ {k}
  /\ older' = Among(events \ {k}, older)
  /\ counted' = counted \ {k}
  /\ ev' = Dropped({k}, ev)
  /\ UNCHANGED <<refs, pc, key>>

Next ==
  \/ \E t \in Tasks :
       \/ \E k \in Keys : Begin(t, k)
       \/ Park(t) \/ Wake(t) \/ ParkAgain(t) \/ Leave(t)
  \/ \E k \in Keys : Notify(k) \/ Forget(k)
  \/ NotifyPrefix

Spec == Init /\ [][Next]_vars

-----------------------------------------------------------------------------
(* Properties *)

\* The keys on register are in a row: of any of them one was used before the others.
InARow ==
  /\ \A p \in older : <<p[2], p[1]>> \notin older
  /\ \A keys \in SUBSET events :
       keys # {} => \E k \in keys : \A j \in keys \ {k} : <<k, j>> \in older

\* Types. A task that waits holds a key and an event.
TypeOK ==
  /\ events \subseteq Keys /\ older \subseteq events \X events /\ InARow
  /\ refs \in [Keys -> Nat]
  /\ counted \subseteq Keys
  /\ pc \in [Tasks -> {"idle", "check", "parked", "recheck"}]
  /\ key \in [Tasks -> Keys \cup {NoKey}]
  /\ ev \in [Tasks -> {"none", "current", "fired", "lost"}]
  /\ \A t \in Tasks : (pc[t] = "idle") <=> (key[t] = NoKey)
  /\ \A t \in Tasks : (pc[t] = "idle") <=> (ev[t] = "none")

\* The counters that eviction and forget trust are exact, however a wait ends.
RefsAreWaiters ==
  \A k \in Keys : refs[k] = Cardinality({t \in Tasks : key[t] = k})

\* Whatever keys are made up, the register never holds more than max_events of them.
EventsBounded == Cardinality(events) <= MaxEvents

\* A waiter can be woken: its event has been set already, or is the one on register that
\* the next notify of its key will set.
WaitersAreReachable ==
  \A t \in Tasks :
    pc[t] # "idle" =>
      \/ ev[t] = "fired"
      \/ (ev[t] = "current" /\ key[t] \in events)

\* _waiters has no entry for a key that _events has dropped, so one bound serves both.
CountersBounded == counted \subseteq events

Waiting == {t \in Tasks : pc[t] # "idle"}

\* There is a place for the key of every task that waits. Beyond that the eviction drops a key
\* that is waited for: the one that wait_for has just made and not counted yet.
Room == Cardinality(Waiting) <= MaxEvents

\* The register stays within its bound and counts right, and no waiter falls out of it.
Inv == TypeOK /\ RefsAreWaiters /\ EventsBounded /\ CountersBounded /\ WaitersAreReachable
=============================================================================
