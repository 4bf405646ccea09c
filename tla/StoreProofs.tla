---------------------------- MODULE StoreProofs ----------------------------
(***************************************************************************)
(* Proofs about two small parts of services/store.py, each by itself.  The *)
(* wake-up registry, for any tasks, keys and bound: its counts are exact   *)
(* whatever happens, and as long as there is room for the keys that are    *)
(* waited for, it keeps its bound and every waiter can be woken.  The      *)
(* presence row of one identity, for any number of processes and any       *)
(* window: one at most claims for the identity.                            *)
(***************************************************************************)
EXTENDS Notifier, Presence, FiniteSetTheorems, TLAPS

WaitersOf(k) == {t \in Tasks : key[t] = k}

\* What holds however many tasks wait. The counts are of finite sets, as tasks come one by one.
CountsInv ==
  /\ TypeOK /\ RefsAreWaiters
  /\ IsFiniteSet(Waiting) /\ IsFiniteSet(events)

\* What holds as long as there is room. The eviction, which trusts the counts, finds an older
\* key without a waiter than the one just made; so the key of a waiter never leaves the
\* register, and the event it holds is on register or set.
KeptInv ==
  /\ EventsBounded /\ CountersBounded
  /\ \A t \in Waiting : key[t] \in events /\ ev[t] \in {"current", "fired"}

IInv == CountsInv /\ KeptInv

-----------------------------------------------------------------------------
(* The order of the keys *)

\* InARow, of any keys and any order.
Row(keys, order) ==
  /\ order \subseteq keys \X keys
  /\ \A p \in order : <<p[2], p[1]>> \notin order
  /\ \A some \in SUBSET keys :
       some # {} => \E k \in some : \A j \in some \ {k} : <<k, j>> \in order

LEMMA RowIsInARow == TypeOK => Row(events, older)
  BY DEF TypeOK, InARow, Row

\* What is left of a row is a row.
LEMMA AmongRow ==
  ASSUME NEW keys, NEW order, NEW left, Row(keys, order), left \subseteq keys
  PROVE  Row(left, Among(left, order))
<1>1. Among(left, order) \subseteq left \X left
  BY DEF Among, Row
<1>2. \A p \in Among(left, order) : <<p[2], p[1]>> \notin Among(left, order)
  BY DEF Among, Row
<1>3. ASSUME NEW some \in SUBSET left, some # {}
      PROVE  \E k \in some : \A j \in some \ {k} : <<k, j>> \in Among(left, order)
  <2>1. PICK k \in some : \A j \in some \ {k} : <<k, j>> \in order
    BY <1>3 DEF Row
  <2>2. \A j \in some \ {k} : <<k, j>> \in Among(left, order)
    BY <1>3, <2>1 DEF Among
  <2>3. QED BY <2>2
<1>4. QED BY <1>1, <1>2, <1>3 DEF Row

\* Keys that move to the end keep it a row, and so does a key that is new there.
LEMMA MovedRow ==
  ASSUME TypeOK, NEW ks, ks \subseteq events \/ \E k : ks = {k}
  PROVE  Row(events \cup ks, MovedToEnd(ks))
<1>1. Row(events, older)
  BY RowIsInARow
<1>2. MovedToEnd(ks) \subseteq (events \cup ks) \X (events \cup ks)
  BY <1>1 DEF MovedToEnd, Row
<1>3. ASSUME NEW a, NEW b, <<a, b>> \in MovedToEnd(ks), <<b, a>> \in MovedToEnd(ks)
      PROVE  FALSE
  <2>1. /\ <<a, b>> \in older \/ (a \notin ks /\ b \in ks)
        /\ <<b, a>> \in older \/ (b \notin ks /\ a \in ks)
        /\ a \in ks <=> b \in ks
    BY <1>3 DEF MovedToEnd
  <2>2. <<a, b>> \in older /\ <<b, a>> \in older
    BY <2>1
  <2>3. QED BY <1>1, <2>2 DEF Row
<1>4. ASSUME NEW some \in SUBSET (events \cup ks), some # {}
      PROVE  \E k \in some : \A j \in some \ {k} : <<k, j>> \in MovedToEnd(ks)
  <2>1. CASE some \ ks # {}
    <3>1. PICK k \in some \ ks : \A j \in (some \ ks) \ {k} : <<k, j>> \in older
      <4>1. some \ ks \in SUBSET events
        BY <1>4
      <4>2. QED BY <1>1, <2>1, <4>1 DEF Row
    <3>2. \A j \in some \ {k} : <<k, j>> \in MovedToEnd(ks)
      BY <1>4, <3>1 DEF MovedToEnd
    <3>3. QED BY <3>1, <3>2
  <2>2. CASE some \subseteq ks /\ ks \subseteq events
    <3>1. PICK k \in some : \A j \in some \ {k} : <<k, j>> \in older
      BY <1>1, <1>4, <2>2 DEF Row
    <3>2. \A j \in some \ {k} : <<k, j>> \in MovedToEnd(ks)
      BY <2>2, <3>1 DEF MovedToEnd
    <3>3. QED BY <3>2
  <2>3. CASE some \subseteq ks /\ \E k : ks = {k}
    BY <1>4, <2>3
  <2>4. QED BY <2>1, <2>2, <2>3
<1>5. \A p \in MovedToEnd(ks) : <<p[2], p[1]>> \notin MovedToEnd(ks)
  <2> SUFFICES ASSUME NEW p \in MovedToEnd(ks), <<p[2], p[1]>> \in MovedToEnd(ks) PROVE FALSE
    OBVIOUS
  <2>1. p = <<p[1], p[2]>>
    BY <1>2
  <2>2. QED BY <1>3, <2>1
<1>6. QED BY <1>2, <1>4, <1>5 DEF Row

-----------------------------------------------------------------------------
(* The counts *)

LEMMA WaitersAreFinite ==
  ASSUME CountsInv, NEW k \in Keys
  PROVE  /\ IsFiniteSet(WaitersOf(k)) /\ refs[k] = Cardinality(WaitersOf(k))
         /\ refs[k] > 0 <=> \E t \in Waiting : key[t] = k
<1>1. WaitersOf(k) \subseteq Waiting
  BY NotifierAssumption DEF CountsInv, TypeOK, WaitersOf, Waiting
<1>2. IsFiniteSet(WaitersOf(k))
  BY <1>1, FS_Subset DEF CountsInv
<1>3. refs[k] = Cardinality(WaitersOf(k))
  BY DEF CountsInv, RefsAreWaiters, WaitersOf
<1>4. refs[k] > 0 <=> WaitersOf(k) # {}
  <2>1. Cardinality(WaitersOf(k)) \in Nat /\ (Cardinality(WaitersOf(k)) = 0 <=> WaitersOf(k) = {})
    BY <1>2, FS_CardinalityType, FS_EmptySet
  <2>2. QED BY <1>3, <2>1
<1>5. QED BY <1>1, <1>2, <1>3, <1>4 DEF WaitersOf, Waiting

\* The keys that are waited for are no more than the tasks that wait.
LEMMA ActiveAreFew ==
  ASSUME CountsInv
  PROVE  IsFiniteSet(Active) /\ Cardinality(Active) <= Cardinality(Waiting)
<1> DEFINE f == [t \in Waiting |-> key[t]]
<1>1. f \in Surjection(Waiting, Active)
  <2>1. \A t \in Waiting : key[t] \in Active
    BY WaitersAreFinite DEF Active, Waiting, CountsInv, TypeOK
  <2>2. \A k \in Active : \E t \in Waiting : key[t] = k
    BY WaitersAreFinite DEF Active
  <2>3. QED BY <2>1, <2>2 DEF Surjection
<1>2. IsFiniteSet(Waiting)
  BY DEF CountsInv
<1> HIDE DEF f
<1>3. QED BY <1>1, <1>2, FS_Surjection

\* What a fetch of an event leaves, whatever the eviction takes.
LEMMA GetFacts ==
  ASSUME CountsInv, NEW t \in Tasks, NEW k \in Keys, Get(t, k)
  PROVE  /\ events' \subseteq Keys /\ Row(events', older') /\ IsFiniteSet(events')
         /\ counted' \subseteq Keys
         /\ ev' \in [Tasks -> {"none", "current", "fired", "lost"}]
         /\ ev'[t] # "none" /\ \A u \in Tasks \ {t} : ev'[u] = "none" <=> ev[u] = "none"
<1> DEFINE keys == events \cup {k}
           gone == IF k \in events THEN {} ELSE Evicted(keys, MovedToEnd({k}))
<1>1. /\ events' = keys \ gone /\ older' = Among(keys \ gone, MovedToEnd({k}))
      /\ counted' = (counted \ gone) \cup {k}
      /\ ev' = [Dropped(gone, ev) EXCEPT ![t] = IF k \in gone THEN "lost" ELSE "current"]
  BY DEF Get
<1>2. Row(keys, MovedToEnd({k})) /\ IsFiniteSet(keys) /\ keys \subseteq Keys
  BY MovedRow, FS_AddElement DEF CountsInv, TypeOK
<1> HIDE DEF keys, gone
<1>3. keys \ gone \subseteq keys
  OBVIOUS
<1>4. Row(events', older') /\ IsFiniteSet(events') /\ events' \subseteq Keys
  BY <1>1, <1>2, <1>3, AmongRow, FS_Subset
<1>5. counted' \subseteq Keys
  BY <1>1 DEF CountsInv, TypeOK
<1>6. /\ ev' \in [Tasks -> {"none", "current", "fired", "lost"}]
      /\ ev'[t] # "none" /\ \A u \in Tasks \ {t} : ev'[u] = "none" <=> ev[u] = "none"
  BY <1>1 DEF Dropped, CountsInv, TypeOK
<1>7. QED BY <1>4, <1>5, <1>6

\* A task more that waits, for the key k.
LEMMA BeginCounts ==
  ASSUME CountsInv, NEW t \in Tasks, NEW k \in Keys, Begin(t, k)
  PROVE  CountsInv'
<1>1. /\ pc[t] = "idle" /\ key[t] = NoKey /\ Get(t, k)
      /\ refs' = [refs EXCEPT ![k] = @ + 1] /\ pc' = [pc EXCEPT ![t] = "check"]
      /\ key' = [key EXCEPT ![t] = k]
  BY DEF Begin, CountsInv, TypeOK
<1>2. TypeOK'
  <2>1. refs' \in [Keys -> Nat] /\ pc' \in [Tasks -> {"idle", "check", "parked", "recheck"}]
        /\ key' \in [Tasks -> Keys \cup {NoKey}]
    BY <1>1 DEF CountsInv, TypeOK
  <2>2. \A u \in Tasks : /\ pc'[u] = "idle" <=> key'[u] = NoKey
                         /\ pc'[u] = "idle" <=> ev'[u] = "none"
    BY <1>1, GetFacts, NotifierAssumption DEF CountsInv, TypeOK
  <2>3. InARow' /\ older' \subseteq events' \X events'
    BY <1>1, GetFacts DEF InARow, Row
  <2>4. QED BY <1>1, <2>1, <2>2, <2>3, GetFacts DEF TypeOK
<1>3. Waiting' = Waiting \cup {t}
  BY <1>1 DEF Waiting, CountsInv, TypeOK
<1>4. RefsAreWaiters'
  <2> SUFFICES ASSUME NEW x \in Keys PROVE refs'[x] = Cardinality({u \in Tasks : key'[u] = x})
    BY DEF RefsAreWaiters
  <2>1. refs[x] = Cardinality(WaitersOf(x)) /\ IsFiniteSet(WaitersOf(x))
    BY WaitersAreFinite
  <2>2. CASE x = k
    <3>1. {u \in Tasks : key'[u] = x} = WaitersOf(x) \cup {t} /\ t \notin WaitersOf(x)
      BY <1>1, <2>2, NotifierAssumption DEF WaitersOf, CountsInv, TypeOK
    <3>2. Cardinality(WaitersOf(x) \cup {t}) = Cardinality(WaitersOf(x)) + 1
      BY <2>1, <3>1, FS_AddElement
    <3>3. QED BY <1>1, <2>1, <2>2, <3>1, <3>2 DEF CountsInv, TypeOK
  <2>3. CASE x # k
    <3>1. {u \in Tasks : key'[u] = x} = WaitersOf(x)
      BY <1>1, <2>3, NotifierAssumption DEF WaitersOf, CountsInv, TypeOK
    <3>2. QED BY <1>1, <2>1, <2>3, <3>1 DEF CountsInv, TypeOK
  <2>4. QED BY <2>2, <2>3
<1>5. QED BY <1>1, <1>2, <1>3, <1>4, FS_AddElement, GetFacts DEF CountsInv

\* The finally of a wait.
LEMMA LeaveCounts ==
  ASSUME CountsInv, NEW t \in Tasks, Leave(t)
  PROVE  CountsInv'
<1>1. /\ pc[t] # "idle" /\ key[t] \in Keys /\ key[t] # NoKey
      /\ refs' = [refs EXCEPT ![key[t]] = @ - 1] /\ pc' = [pc EXCEPT ![t] = "idle"]
      /\ key' = [key EXCEPT ![t] = NoKey] /\ ev' = [ev EXCEPT ![t] = "none"]
      /\ UNCHANGED <<events, older, counted>>
  BY NotifierAssumption DEF Leave, CountsInv, TypeOK
<1>2. refs[key[t]] \in Nat \ {0}
  BY <1>1, WaitersAreFinite DEF CountsInv, TypeOK, Waiting
<1>3. TypeOK'
  <2>1. refs' \in [Keys -> Nat]
    BY <1>1, <1>2 DEF CountsInv, TypeOK
  <2>2. QED BY <1>1, <2>1 DEF CountsInv, TypeOK, InARow
<1>4. Waiting' = Waiting \ {t}
  BY <1>1 DEF Waiting, CountsInv, TypeOK
<1>5. RefsAreWaiters'
  <2> SUFFICES ASSUME NEW x \in Keys PROVE refs'[x] = Cardinality({u \in Tasks : key'[u] = x})
    BY DEF RefsAreWaiters
  <2>1. refs[x] = Cardinality(WaitersOf(x)) /\ IsFiniteSet(WaitersOf(x))
    BY WaitersAreFinite
  <2>2. CASE x = key[t]
    <3>1. {u \in Tasks : key'[u] = x} = WaitersOf(x) \ {t} /\ t \in WaitersOf(x)
      BY <1>1, <2>2 DEF WaitersOf, CountsInv, TypeOK
    <3>2. Cardinality(WaitersOf(x) \ {t}) = Cardinality(WaitersOf(x)) - 1
      BY <2>1, <3>1, FS_RemoveElement
    <3>3. QED BY <1>1, <2>1, <2>2, <3>1, <3>2 DEF CountsInv, TypeOK
  <2>3. CASE x # key[t]
    <3>1. {u \in Tasks : key'[u] = x} = WaitersOf(x)
      BY <1>1, <2>3, NotifierAssumption DEF WaitersOf, CountsInv, TypeOK
    <3>2. QED BY <1>1, <2>1, <2>3, <3>1 DEF CountsInv, TypeOK
  <2>4. QED BY <2>2, <2>3
<1>6. QED BY <1>1, <1>3, <1>4, <1>5, FS_RemoveElement DEF CountsInv

LEMMA StepCounts ==
  ASSUME CountsInv, [Next]_vars
  PROVE  CountsInv'
<1>1. ASSUME UNCHANGED <<refs, key>>, TypeOK', Waiting' = Waiting, IsFiniteSet(events')
      PROVE  CountsInv'
  BY <1>1 DEF CountsInv, RefsAreWaiters
<1>2. ASSUME NEW t \in Tasks, Park(t) \/ Wake(t)
      PROVE  CountsInv'
  <2>1. TypeOK' /\ Waiting' = Waiting
    BY <1>2 DEF Park, Wake, CountsInv, TypeOK, Waiting, InARow
  <2>2. QED BY <1>1, <1>2, <2>1 DEF Park, Wake, CountsInv
<1>3. ASSUME NEW t \in Tasks, ParkAgain(t)
      PROVE  CountsInv'
  <2>1. /\ pc[t] = "recheck" /\ key[t] \in Keys /\ Get(t, key[t])
        /\ pc' = [pc EXCEPT ![t] = "parked"] /\ UNCHANGED <<refs, key>>
    BY <1>3, NotifierAssumption DEF ParkAgain, CountsInv, TypeOK
  <2>2. InARow' /\ older' \subseteq events' \X events' /\ Waiting' = Waiting
    BY <2>1, GetFacts DEF InARow, Row, Waiting, CountsInv, TypeOK
  <2>3. TypeOK'
    BY <2>1, <2>2, GetFacts DEF CountsInv, TypeOK
  <2>4. QED BY <1>1, <2>1, <2>2, <2>3, GetFacts
<1>4. ASSUME NEW ks, ks \subseteq events, Fired(ks)
      PROVE  CountsInv'
  <2>1. Row(events, MovedToEnd(ks))
    <3>1. events \cup ks = events
      BY <1>4
    <3>2. QED BY <1>4, <3>1, MovedRow DEF CountsInv
  <2>2. TypeOK' /\ Waiting' = Waiting
    BY <1>4, <2>1 DEF Fired, CountsInv, TypeOK, Waiting, InARow, Row
  <2>3. QED BY <1>1, <1>4, <2>2 DEF Fired, CountsInv
<1>5. ASSUME NEW k \in Keys, Forget(k)
      PROVE  CountsInv'
  <2>1. Row(events \ {k}, Among(events \ {k}, older)) /\ IsFiniteSet(events \ {k})
    BY RowIsInARow, AmongRow, FS_RemoveElement DEF CountsInv
  <2>2. TypeOK' /\ Waiting' = Waiting
    BY <1>5, <2>1 DEF Forget, Dropped, CountsInv, TypeOK, Waiting, InARow, Row
  <2>3. QED BY <1>1, <1>5, <2>1, <2>2 DEF Forget
<1>6. CASE UNCHANGED vars
  <2>1. TypeOK' /\ Waiting' = Waiting
    BY <1>6 DEF vars, CountsInv, TypeOK, Waiting, InARow
  <2>2. QED BY <1>1, <1>6, <2>1 DEF vars, CountsInv
<1>7. QED BY <1>2, <1>3, <1>4, <1>5, <1>6, BeginCounts, LeaveCounts DEF Next, Notify, NotifyPrefix

-----------------------------------------------------------------------------
(* The eviction *)

\* With a place to spare for a key that is new, the eviction takes one key at most, and one that
\* nobody waits for: an older one than the new key.
LEMMA EvictionSpares ==
  ASSUME IInv, NEW k \in Keys, k \notin events, Cardinality(Waiting) < MaxEvents
  PROVE  LET keys == events \cup {k}
             gone == Evicted(keys, MovedToEnd({k}))
         IN /\ k \notin gone /\ gone \cap Active = {}
            /\ Cardinality(keys \ gone) <= MaxEvents
<1> DEFINE keys == events \cup {k}
           order == MovedToEnd({k})
           idle == keys \ Active
           before(x) == {j \in idle : <<j, x>> \in order}
           gone == Evicted(keys, order)
<1>1. /\ IsFiniteSet(keys) /\ Cardinality(keys) = Cardinality(events) + 1
      /\ Cardinality(events) \in Nat /\ Cardinality(events) <= MaxEvents
      /\ MaxEvents \in Nat \ {0} /\ keys \subseteq Keys
  BY FS_AddElement, FS_CardinalityType, NotifierAssumption
     DEF IInv, CountsInv, KeptInv, EventsBounded, TypeOK
<1>2. Row(keys, order)
  BY MovedRow DEF IInv, CountsInv
<1>3. k \notin Active
  <2>1. ~ \E t \in Waiting : key[t] = k
    BY DEF IInv, KeptInv
  <2>2. QED BY <2>1, WaitersAreFinite DEF IInv, Active
<1>4. \A e \in events : <<e, k>> \in order
  BY DEF MovedToEnd
<1>5. gone = {x \in idle : Cardinality(before(x)) < Surplus(keys)}
  BY DEF Evicted
<1> HIDE DEF keys, order, gone
<1>6. ASSUME NEW x \in idle
      PROVE  /\ ~(Cardinality(before(x)) < 0)
             /\ Cardinality(before(x)) < 1 <=> before(x) = {}
  <2>1. before(x) \in SUBSET keys
    OBVIOUS
  <2> HIDE DEF before
  <2>2. IsFiniteSet(before(x))
    BY <1>1, <2>1, FS_Subset
  <2>3. Cardinality(before(x)) \in Nat /\ (Cardinality(before(x)) = 0 <=> before(x) = {})
    BY <2>2, FS_CardinalityType, FS_EmptySet
  <2>4. QED BY <2>3
<1>7. CASE Cardinality(keys) <= MaxEvents
  <2>1. Surplus(keys) = 0
    BY <1>1, <1>7 DEF Surplus
  <2> HIDE DEF before
  <2> HIDE DEF idle
  <2>2. gone = {}
    BY <1>5, <1>6, <2>1
  <2>3. QED BY <1>7, <2>2 DEF keys, order, gone
<1>8. CASE Cardinality(keys) > MaxEvents
  <2>1. Cardinality(events) = MaxEvents /\ Surplus(keys) = 1
    BY <1>1, <1>8 DEF Surplus
  <2>2. \E e \in events : e \notin Active
    <3>1. IsFiniteSet(Active) /\ Cardinality(Active) <= Cardinality(Waiting)
      BY ActiveAreFew DEF IInv
    <3>2. Cardinality(Active) \in Nat /\ Cardinality(Waiting) \in Nat
      BY <3>1, FS_CardinalityType DEF IInv, CountsInv
    <3>3. events \subseteq Active => Cardinality(events) <= Cardinality(Active)
      BY <3>1, FS_Subset
    <3>4. ~(events \subseteq Active)
      BY <1>1, <2>1, <3>1, <3>2, <3>3
    <3>5. QED BY <3>4
  <2>3. PICK e \in events : e \in idle /\ <<e, k>> \in order
    BY <1>4, <2>2 DEF keys
  <2>4. PICK l \in idle : \A j \in idle \ {l} : <<l, j>> \in order
    <3>1. idle \in SUBSET keys /\ idle # {}
      BY <2>3
    <3> HIDE DEF idle
    <3>2. QED BY <1>2, <3>1 DEF Row
  <2>5. l # k
    BY <1>2, <2>3, <2>4 DEF Row
  <2>6. before(l) = {}
    BY <1>2, <2>4 DEF Row
  <2>7. \A x \in idle : x # l => before(x) # {}
    BY <2>4
  <2> HIDE DEF before
  <2>8. gone = {l}
    <3> HIDE DEF idle
    <3>1. QED BY <1>5, <1>6, <2>1, <2>6, <2>7
  <2>9. Cardinality(keys \ {l}) = Cardinality(keys) - 1
    BY <1>1, FS_RemoveElement
  <2>10. Cardinality(keys \ gone) <= MaxEvents
    BY <1>1, <2>1, <2>8, <2>9
  <2>11. QED BY <2>5, <2>8, <2>10 DEF keys, order, gone
<1>9. Cardinality(keys) <= MaxEvents \/ Cardinality(keys) > MaxEvents
  BY <1>1
<1>10. QED BY <1>7, <1>8, <1>9

\* The fetch of an event keeps the register within its bound and drops no key that is waited for.
LEMMA GetKeeps ==
  ASSUME IInv, NEW t \in Tasks, NEW k \in Keys, Get(t, k),
         k \in events \/ Cardinality(Waiting) < MaxEvents
  PROVE  /\ Cardinality(events') <= MaxEvents /\ counted' \subseteq events'
         /\ k \in events' /\ ev'[t] = "current"
         /\ \A u \in Waiting : key[u] \in events' /\ (u # t => ev'[u] = ev[u])
<1> DEFINE keys == events \cup {k}
           gone == IF k \in events THEN {} ELSE Evicted(keys, MovedToEnd({k}))
<1>1. /\ events' = keys \ gone /\ counted' = (counted \ gone) \cup {k}
      /\ ev' = [Dropped(gone, ev) EXCEPT ![t] = IF k \in gone THEN "lost" ELSE "current"]
  BY DEF Get
<1>2. k \notin gone /\ gone \cap Active = {} /\ Cardinality(keys \ gone) <= MaxEvents
  <2>1. CASE k \in events
    <3>1. keys \ gone = events
      BY <2>1
    <3>2. QED BY <2>1, <3>1 DEF IInv, KeptInv, EventsBounded
  <2>2. CASE k \notin events
    BY <2>2, EvictionSpares
  <2>3. QED BY <2>1, <2>2
<1>3. \A u \in Waiting : key[u] \in Active /\ key[u] \in events
  BY WaitersAreFinite DEF IInv, KeptInv, Active, CountsInv, TypeOK, Waiting
<1>4. counted \subseteq events
  BY DEF IInv, KeptInv, CountersBounded
<1> HIDE DEF gone
<1>5. ev'[t] = "current" /\ \A u \in Waiting : u # t => ev'[u] = ev[u]
  BY <1>1, <1>2, <1>3 DEF Dropped, IInv, CountsInv, TypeOK, Waiting
<1>6. QED BY <1>1, <1>2, <1>3, <1>4, <1>5

LEMMA StepKept ==
  ASSUME IInv, [Next]_vars, Room'
  PROVE  KeptInv'
<1>1. CountsInv /\ CountsInv'
  BY StepCounts DEF IInv
<1>2. ASSUME NEW t \in Tasks, NEW k \in Keys, Begin(t, k)
      PROVE  KeptInv'
  <2>1. /\ pc[t] = "idle" /\ Get(t, k) /\ key' = [key EXCEPT ![t] = k]
        /\ pc' = [pc EXCEPT ![t] = "check"]
    BY <1>2 DEF Begin
  <2>2. Waiting' = Waiting \cup {t} /\ t \notin Waiting
    BY <1>1, <2>1 DEF Waiting, CountsInv, TypeOK
  <2>3. Cardinality(Waiting) < MaxEvents
    <3>1. Cardinality(Waiting') = Cardinality(Waiting) + 1 /\ Cardinality(Waiting) \in Nat
      BY <1>1, <2>2, FS_AddElement, FS_CardinalityType DEF CountsInv
    <3>2. QED BY <3>1, NotifierAssumption DEF Room
  <2>4. /\ Cardinality(events') <= MaxEvents /\ counted' \subseteq events'
        /\ k \in events' /\ ev'[t] = "current"
        /\ \A u \in Waiting : key[u] \in events' /\ (u # t => ev'[u] = ev[u])
    BY <2>1, <2>3, GetKeeps
  <2>5. QED BY <1>1, <2>1, <2>2, <2>4
            DEF IInv, KeptInv, EventsBounded, CountersBounded, CountsInv, TypeOK, Waiting
<1>3. ASSUME NEW t \in Tasks, ParkAgain(t)
      PROVE  KeptInv'
  <2>1. /\ pc[t] = "recheck" /\ Get(t, key[t]) /\ pc' = [pc EXCEPT ![t] = "parked"] /\ key' = key
    BY <1>3 DEF ParkAgain
  <2>2. Waiting' = Waiting /\ t \in Waiting /\ key[t] \in Keys /\ key[t] \in events
    BY <1>1, <2>1, NotifierAssumption DEF Waiting, CountsInv, TypeOK, IInv, KeptInv
  <2>3. /\ Cardinality(events') <= MaxEvents /\ counted' \subseteq events'
        /\ ev'[t] = "current"
        /\ \A u \in Waiting : key[u] \in events' /\ (u # t => ev'[u] = ev[u])
    BY <2>1, <2>2, GetKeeps
  <2>4. QED BY <2>1, <2>2, <2>3 DEF IInv, KeptInv, EventsBounded, CountersBounded
<1>4. ASSUME NEW t \in Tasks, Park(t) \/ Wake(t)
      PROVE  KeptInv'
  <2>1. Waiting' = Waiting /\ UNCHANGED <<events, counted, key, ev>>
    BY <1>1, <1>4 DEF Park, Wake, Waiting, CountsInv, TypeOK
  <2>2. QED BY <2>1 DEF IInv, KeptInv, EventsBounded, CountersBounded
<1>5. ASSUME NEW t \in Tasks, Leave(t)
      PROVE  KeptInv'
  <2>1. /\ UNCHANGED <<events, counted>>
        /\ \A u \in Waiting' : u \in Waiting /\ key'[u] = key[u] /\ ev'[u] = ev[u]
    BY <1>1, <1>5 DEF Leave, Waiting, CountsInv, TypeOK
  <2>2. QED BY <2>1 DEF IInv, KeptInv, EventsBounded, CountersBounded
<1>6. ASSUME NEW ks, Fired(ks)
      PROVE  KeptInv'
  <2>1. /\ UNCHANGED <<events, counted, key>> /\ Waiting' = Waiting
        /\ \A u \in Waiting : ev'[u] \in {"fired", ev[u]}
    BY <1>1, <1>6 DEF Fired, Waiting, CountsInv, TypeOK
  <2>2. QED BY <2>1 DEF IInv, KeptInv, EventsBounded, CountersBounded
<1>7. ASSUME NEW k \in Keys, Forget(k)
      PROVE  KeptInv'
  <2>1. /\ refs[k] = 0 /\ events' = events \ {k} /\ counted' = counted \ {k}
        /\ key' = key /\ Waiting' = Waiting /\ ev' = Dropped({k}, ev)
    BY <1>7 DEF Forget, Waiting
  <2>2. \A u \in Waiting : key[u] # k
    BY <1>1, <2>1, WaitersAreFinite
  <2>3. \A u \in Waiting : ev'[u] = ev[u]
    BY <2>1, <2>2 DEF Dropped, Waiting
  <2>4. Cardinality(events') <= MaxEvents
    <3>1. IsFiniteSet(events) /\ Cardinality(events) <= MaxEvents
      BY DEF IInv, CountsInv, KeptInv, EventsBounded
    <3>2. /\ events' \in SUBSET events /\ Cardinality(events') <= Cardinality(events)
          /\ Cardinality(events') \in Nat /\ Cardinality(events) \in Nat
      BY <2>1, <3>1, FS_Subset, FS_CardinalityType
    <3>3. QED BY <3>1, <3>2, NotifierAssumption
  <2>5. QED BY <2>1, <2>2, <2>3, <2>4 DEF IInv, KeptInv, EventsBounded, CountersBounded
<1>8. CASE UNCHANGED vars
  <2>1. Waiting' = Waiting
    BY <1>8 DEF vars, Waiting
  <2>2. QED BY <1>8, <2>1 DEF vars, IInv, KeptInv, EventsBounded, CountersBounded
<1>9. QED BY <1>2, <1>3, <1>4, <1>5, <1>6, <1>7, <1>8 DEF Next, Notify, NotifyPrefix

-----------------------------------------------------------------------------
(* The theorems *)

LEMMA InitIInv ==
  ASSUME Init
  PROVE  IInv
<1>1. \A k \in Keys : {t \in Tasks : key[t] = k} = {}
  BY NotifierAssumption DEF Init
<1>2. Waiting = {} /\ events = {}
  BY DEF Init, Waiting
<1>3. TypeOK /\ RefsAreWaiters
  BY <1>1, FS_EmptySet DEF Init, TypeOK, InARow, RefsAreWaiters
<1>4. QED BY <1>2, <1>3, FS_EmptySet, NotifierAssumption
          DEF Init, IInv, CountsInv, KeptInv, EventsBounded, CountersBounded

\* The counters that forget and the eviction trust are exact, however many tasks wait and however
\* their waits end (the finally of wait_for).
THEOREM CountsAreExact == Spec => [](TypeOK /\ RefsAreWaiters)
<1>1. Init => CountsInv
  BY InitIInv DEF IInv
<1>2. CountsInv /\ [Next]_vars => CountsInv'
  BY StepCounts
<1>3. CountsInv => TypeOK /\ RefsAreWaiters
  BY DEF CountsInv
<1>4. QED BY <1>1, <1>2, <1>3, PTL DEF Spec

\* While no more tasks wait than the register has places, it keeps its bound whatever keys are
\* made up, its counters with it, and every waiter can be woken: the eviction and forget never
\* take the key of one (FMC-5, FMC-12).
THEOREM RoomSuffices == Spec /\ []Room => []Inv
<1>1. Init => IInv
  BY InitIInv
<1>2. IInv /\ [Next]_vars /\ Room' => IInv'
  BY StepCounts, StepKept DEF IInv
<1>3. IInv => Inv
  BY DEF IInv, CountsInv, KeptInv, Inv, WaitersAreReachable, Waiting
<1>4. QED BY <1>1, <1>2, <1>3, PTL DEF Spec

---------------------------------------------------------------------------
(* The presence row *)

\* The values of its state.
RowTypeOK ==
  /\ owner \in Peers \cup {Nobody, Anonymous}
  /\ age \in 0..(Window + 1)
  /\ life \in [Announcers -> {"off", "up", "leaving", "gone"}]
  /\ call \in [Peers -> {"none", "due", "sent", "ok", "refused"}]
  /\ confirmed \in [Peers -> BOOLEAN]
  /\ since \in [Peers -> 0..(Window + 1)]
  /\ late \in BOOLEAN
  /\ overwritten \in BOOLEAN

NotBornYet ==
  \A p \in Peers : life[p] = "off" => call[p] = "none" /\ ~confirmed[p]

\* The row is as old as the server's last answer to its owner.
AgeIsSince ==
  \A p \in Peers : owner = p => since[p] = age

\* Whoever the server accepted within the window owns the row while it is up.
AcceptedOwns ==
  ~overwritten =>
    \A p \in Peers \cap Up :
      (confirmed[p] \/ call[p] = "ok") /\ since[p] <= Window => owner = p

\* While every announce is answered within its heartbeat, whoever is armed was accepted in
\* this heartbeat or the last.
AnswersAreFresh ==
  ~late =>
    \A p \in Peers \cap Up :
      /\ call[p] = "ok" => since[p] = 0
      /\ confirmed[p] => since[p] <= 1
      /\ confirmed[p] /\ call[p] = "none" => since[p] = 0

RowInv ==
  /\ RowTypeOK
  /\ NotBornYet
  /\ AgeIsSince
  /\ AcceptedOwns
  /\ AnswersAreFresh

LEMMA InitRowInv == PresenceInit => RowInv
<1> SUFFICES ASSUME PresenceInit PROVE RowInv
  OBVIOUS
<1>1. RowTypeOK
  <2>1. late \in BOOLEAN /\ overwritten \in BOOLEAN /\ confirmed \in [Peers -> BOOLEAN]
    BY DEF PresenceInit
  <2>2. QED BY <2>1, PresenceAssumption DEF PresenceInit, RowTypeOK
<1>2. NotBornYet /\ AgeIsSince
  BY PresenceAssumption DEF PresenceInit, NotBornYet, AgeIsSince
<1>3. AcceptedOwns /\ AnswersAreFresh
  BY DEF PresenceInit, AcceptedOwns, AnswersAreFresh, Up, Announcers
<1>4. QED BY <1>1, <1>2, <1>3 DEF RowInv

\* A process that comes up has announced nothing; one that goes has no claim left.
LEMMA LifeRowInv ==
  ASSUME RowInv, NEW p \in Announcers, Start(p) \/ Depart(p) \/ Crash(p)
  PROVE  RowInv'
<1>1. /\ UNCHANGED <<row, confirmed, since, late, overwritten>>
      /\ \A q \in Announcers : q # p => life'[q] = life[q]
      /\ \A q \in Peers : q # p => call'[q] = call[q]
      /\ p \in Peers =>
           \/ life'[p] \in {"leaving", "gone"}
           \/ life[p] = "off" /\ life'[p] = "up" /\ call'[p] = "due"
  BY DEF RowInv, RowTypeOK, Start, Depart, Crash, Announcers
<1>2. RowTypeOK'
  BY <1>1 DEF RowInv, RowTypeOK, Start, Depart, Crash, row, Announcers
<1>3. NotBornYet' /\ AgeIsSince'
  BY <1>1 DEF RowInv, NotBornYet, AgeIsSince, row, Announcers
<1>4. AcceptedOwns' /\ AnswersAreFresh'
  BY <1>1 DEF RowInv, NotBornYet, AcceptedOwns, AnswersAreFresh, Up, row, Announcers
<1>5. QED BY <1>2, <1>3, <1>4 DEF RowInv

\* The loop of one process sends, hears or fails; the row stays.
LEMMA LoopRowInv ==
  ASSUME RowInv, NEW p \in Peers, Heartbeat(p) \/ Answered(p) \/ CallFails(p)
  PROVE  RowInv'
<1>1. /\ UNCHANGED <<row, life, since, late, overwritten>>
      /\ p \in Up
  BY DEF Heartbeat, Answered, CallFails, ConnectionLost
<1>2. RowTypeOK'
  BY <1>1
  DEF RowInv, RowTypeOK, Heartbeat, Answered, CallFails, ConnectionLost, row
<1>3. NotBornYet' /\ AgeIsSince'
  BY <1>1
  DEF RowInv, RowTypeOK, NotBornYet, AgeIsSince, Heartbeat, Answered, CallFails,
      ConnectionLost,
      Up, row
<1>4. AcceptedOwns'
  BY <1>1
  DEF RowInv, RowTypeOK, AcceptedOwns, Heartbeat, Answered, CallFails,
      ConnectionLost, Up, row
<1>5. AnswersAreFresh'
  BY <1>1
  DEF RowInv, RowTypeOK, AnswersAreFresh, Heartbeat, Answered, CallFails,
      ConnectionLost, Up
<1>6. QED BY <1>2, <1>3, <1>4, <1>5 DEF RowInv

\* The server refuses the announce of one process while the row of another is fresh, so the
\* one it accepts is the only one accepted within the window.
LEMMA AnnounceRowInv ==
  ASSUME RowInv, NEW p \in Peers, Announce(p)
  PROVE  RowInv'
<1>1. RowTypeOK'
  BY PresenceAssumption DEF RowInv, RowTypeOK, Announce, row
<1>2. CASE LiveElsewhere(p)
  BY <1>1, <1>2
  DEF RowInv, RowTypeOK, NotBornYet, AgeIsSince, AcceptedOwns, AnswersAreFresh, Announce,
              Up, row
<1>3. CASE ~LiveElsewhere(p)
  <2>1. NotBornYet' /\ AgeIsSince' /\ AnswersAreFresh'
    BY <1>3 DEF RowInv, RowTypeOK, NotBornYet, AgeIsSince, AnswersAreFresh, Announce, Up
  <2>2. ASSUME NEW q \in Peers \cap Up, q # p, owner = q
        PROVE  since[q] > Window
    BY <1>3, <2>2, PresenceAssumption DEF RowInv, RowTypeOK, AgeIsSince, LiveElsewhere
  <2>3. AcceptedOwns'
    BY <1>3, <2>2, PresenceAssumption
    DEF RowInv, RowTypeOK, AcceptedOwns, Announce, Up
  <2>4. QED BY <1>1, <2>1, <2>3 DEF RowInv
<1>4. QED BY <1>2, <1>3

LEMMA AnnounceTokenlessRowInv ==
  ASSUME RowInv, NEW s \in Tokenless, AnnounceTokenless(s)
  PROVE  RowInv'
<1>1. overwritten' /\ overwritten' \in BOOLEAN
  BY DEF AnnounceTokenless
<1>2. RowTypeOK'
  BY <1>1, PresenceAssumption DEF RowInv, RowTypeOK, AnnounceTokenless
<1>3. NotBornYet' /\ AgeIsSince'
  BY PresenceAssumption DEF RowInv, NotBornYet, AgeIsSince, AnnounceTokenless
<1>4. AcceptedOwns'
  BY <1>1 DEF AcceptedOwns
<1>5. AnswersAreFresh'
  BY DEF RowInv, AnswersAreFresh, AnnounceTokenless, Up
<1>6. QED BY <1>2, <1>3, <1>4, <1>5 DEF RowInv

\* Whoever forgets its row is no longer up, and a row is swept once it is old.
LEMMA RowGoesInv ==
  ASSUME RowInv, Sweep \/ \E p \in Peers : GracefulForget(p)
  PROVE  RowInv'
<1>1. CASE Sweep
  <2>1. RowTypeOK'
    BY <1>1 DEF RowInv, RowTypeOK, Sweep
  <2>2. NotBornYet' /\ AgeIsSince' /\ AnswersAreFresh'
    BY <1>1, PresenceAssumption
    DEF RowInv, NotBornYet, AgeIsSince, AnswersAreFresh, Sweep, Up
  <2>3. AcceptedOwns'
    BY <1>1, PresenceAssumption
    DEF RowInv, RowTypeOK, AgeIsSince, AcceptedOwns, Sweep, Up
  <2>4. QED BY <2>1, <2>2, <2>3 DEF RowInv
<1>2. ASSUME NEW p \in Peers, GracefulForget(p) PROVE RowInv'
  <2>1. /\ UNCHANGED <<age, call, confirmed, since, late, overwritten>>
        /\ \/ owner' = owner
           \/ owner = p /\ owner' = Nobody
        /\ life[p] = "leaving" /\ life' = [life EXCEPT ![p] = "gone"]
    BY <1>2 DEF GracefulForget, ForgetPresence, row
  <2>2. RowTypeOK'
    BY <2>1 DEF RowInv, RowTypeOK, Announcers
  <2>3. NotBornYet' /\ AgeIsSince'
    BY <2>1, PresenceAssumption DEF RowInv, RowTypeOK, NotBornYet, AgeIsSince, Announcers
  <2>4. AcceptedOwns' /\ AnswersAreFresh'
    BY <2>1, PresenceAssumption
    DEF RowInv, RowTypeOK, AcceptedOwns, AnswersAreFresh, Up, Announcers
  <2>5. QED BY <2>2, <2>3, <2>4 DEF RowInv
<1>3. QED BY <1>1, <1>2

\* The row and everyone's last answer grow old together.
LEMMA TickRowInv ==
  ASSUME RowInv, Tick
  PROVE  RowInv'
<1>1. RowTypeOK'
  BY PresenceAssumption DEF RowInv, RowTypeOK, Tick, Up
<1>2. NotBornYet' /\ AgeIsSince'
  BY DEF RowInv, RowTypeOK, NotBornYet, AgeIsSince, Tick, Up
<1>3. AcceptedOwns'
  BY PresenceAssumption DEF RowInv, RowTypeOK, AcceptedOwns, Tick, Up
<1>4. AnswersAreFresh'
  <2>1. SUFFICES ASSUME ~late', NEW p \in Peers \cap Up
                 PROVE  /\ call'[p] # "ok"
                        /\ confirmed'[p] => since'[p] <= 1 /\ call'[p] = "due"
    BY DEF AnswersAreFresh, Tick, Up
  <2>2. /\ ~late
        /\ call[p] \notin {"sent", "ok", "refused"}
        /\ confirmed[p] => call[p] # "due"
    BY <2>1 DEF Tick
  <2>3. call[p] \in {"none", "due"}
    BY <2>2 DEF RowInv, RowTypeOK
  <2>4. call'[p] = "due" /\ confirmed'[p] = confirmed[p]
    BY <2>3 DEF Tick
  <2>5. confirmed[p] => since[p] = 0
    BY <2>2, <2>3 DEF RowInv, AnswersAreFresh
  <2>6. QED BY <2>4, <2>5, PresenceAssumption DEF Tick
<1>5. QED BY <1>1, <1>2, <1>3, <1>4 DEF RowInv

LEMMA NextRowInv == RowInv /\ [PresenceNext]_PresenceVars => RowInv'
<1> SUFFICES ASSUME RowInv, [PresenceNext]_PresenceVars PROVE RowInv'
  OBVIOUS
<1>1. CASE UNCHANGED PresenceVars
  BY <1>1
  DEF RowInv, RowTypeOK, NotBornYet, AgeIsSince, AcceptedOwns, AnswersAreFresh, Up,
      PresenceVars, row
<1>2. CASE PresenceNext
  BY <1>2, LifeRowInv, LoopRowInv, AnnounceRowInv, AnnounceTokenlessRowInv, RowGoesInv, TickRowInv
  DEF PresenceNext
<1>3. QED BY <1>1, <1>2

\* The inductive invariant, which says that the peer accepted last within the window owns the
\* row, holds in every reachable state.
THEOREM RowInvariance == PresenceSpec => []RowInv
  BY InitRowInv, NextRowInv, PTL DEF PresenceSpec

(* However many processes announce one identity with a token, one at most of those accepted *)
(* within the window is armed, and one at most of all while every announce is answered      *)
(* within its heartbeat: announce's LIVE_ELSEWHERE check and the sidecar's flag (ECA-71,    *)
(* ECA-82).                                                                                 *)
THEOREM OneClaimer == PresenceSpec => []SoleClaimer
<1>1. RowInv => SoleClaimer
  <2> SUFFICES ASSUME RowInv, ~overwritten,
                      NEW p \in Peers, NEW q \in Peers, Claiming(p), Claiming(q),
                      late => since[p] <= Window /\ since[q] <= Window
               PROVE  p = q
    BY DEF SoleClaimer
  <2>1. since[p] <= Window /\ since[q] <= Window
    BY PresenceAssumption DEF RowInv, RowTypeOK, AnswersAreFresh, Claiming
  <2>2. owner = p /\ owner = q
    BY <2>1 DEF RowInv, AcceptedOwns, Claiming
  <2>3. QED BY <2>2
<1>2. QED BY <1>1, RowInvariance, PTL
=============================================================================
