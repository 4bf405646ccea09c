-------------------------- MODULE MessageLifecycle --------------------------
(***************************************************************************)
(* What the message queue promises its clients, whatever it does inside: a *)
(* message is handed to one worker at most, gets one outcome at most, and  *)
(* what a controller is told is the outcome it got.  Module Inbox          *)
(* implements it.                                                          *)
(***************************************************************************)
CONSTANTS
  Messages, Workers, Watchers,
  Target,     \* the message each watcher waits for
  Outcomes,   \* what a message can end as
  Gone,       \* what a watcher is told of a message that has been forgotten
  Nothing     \* no taker, no outcome, not told

VARIABLES
  stage,      \* "new", "waiting", "taken", "resolved", "forgotten"
  taker,      \* the worker the message was handed to
  outcome,    \* the outcome of a resolved message
  told        \* what each watcher was told

vars == <<stage, taker, outcome, told>>

Init ==
  /\ stage = [m \in Messages |-> "new"]
  /\ taker = [m \in Messages |-> Nothing]
  /\ outcome = [m \in Messages |-> Nothing]
  /\ told = [c \in Watchers |-> Nothing]

Submit(m) ==
  /\ stage[m] = "new"
  /\ stage' = [stage EXCEPT ![m] = "waiting"]
  /\ UNCHANGED <<taker, outcome, told>>

\* Only a waiting message is handed out, so nobody else has it.
Take(m, w) ==
  /\ stage[m] = "waiting"
  /\ taker[m] = Nothing
  /\ stage' = [stage EXCEPT ![m] = "taken"]
  /\ taker' = [taker EXCEPT ![m] = w]
  /\ UNCHANGED <<outcome, told>>

\* Several messages may be resolved at once (expiry); each still has no outcome.
Resolve(S, o) ==
  /\ \A m \in S : stage[m] \in {"waiting", "taken"}
  /\ stage' = [m \in Messages |-> IF m \in S THEN "resolved" ELSE stage[m]]
  /\ outcome' = [m \in Messages |-> IF m \in S THEN o ELSE outcome[m]]
  /\ UNCHANGED <<taker, told>>

Tell(c) ==
  /\ told[c] = Nothing
  /\ \/ /\ stage[Target[c]] = "resolved"
        /\ told' = [told EXCEPT ![c] = outcome[Target[c]]]
     \/ /\ stage[Target[c]] = "forgotten"
        /\ told' = [told EXCEPT ![c] = Gone]
  /\ UNCHANGED <<stage, taker, outcome>>

\* Only a resolved message is forgotten.
Forget(S) ==
  /\ \A m \in S : stage[m] = "resolved"
  /\ stage' = [m \in Messages |-> IF m \in S THEN "forgotten" ELSE stage[m]]
  /\ outcome' = [m \in Messages |-> IF m \in S THEN Nothing ELSE outcome[m]]
  /\ UNCHANGED <<taker, told>>

Next ==
  \/ \E m \in Messages : Submit(m)
  \/ \E m \in Messages, w \in Workers : Take(m, w)
  \/ \E S \in SUBSET Messages, o \in Outcomes : Resolve(S, o)
  \/ \E S \in SUBSET Messages : Forget(S)
  \/ \E c \in Watchers : Tell(c)

Spec == Init /\ [][Next]_vars
=============================================================================
