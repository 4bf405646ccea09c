------------------------------ MODULE Presence ------------------------------
(***************************************************************************)
(* Who owns an identity: the presence table of services/store.py, the      *)
(* tools of tools/presence.py, the heartbeat and the exit of the channel   *)
(* sidecars (channel.py) that carry one identity, each process with a      *)
(* token of its own, and the sidecars without a token (session.py).        *)
(*                                                                         *)
(* Time is counted in heartbeats.  A sidecar claims messages while its     *)
(* announce_confirmed is set.                                              *)
(***************************************************************************)
EXTENDS Naturals, FiniteSets

CONSTANTS
  Peers,      \* processes that announce the identity with a token
  Tokenless,  \* processes that announce it without one
  Window,     \* heartbeats for which a row is fresh (3 in the code)
  Faults,     \* which faults occur: "network", "crash"
  Nobody,     \* no row
  Anonymous   \* a row without a token

ASSUME PresenceAssumption ==
  /\ Window \in Nat \ {0}
  /\ Peers \cap Tokenless = {}
  /\ Nobody \notin Peers \cup {Anonymous}
  /\ Anonymous \notin Peers

Announcers == Peers \cup Tokenless

VARIABLES
  owner,       \* announce_token of the row
  age,         \* heartbeats since updated_at, up to Window + 1
  life,        \* "off", "up", "leaving" while it forgets its row, "gone"
  call,        \* its announce: "none", "due", "sent", answered "ok" or "refused"
  confirmed,   \* announce_confirmed
  since,       \* heartbeats since the server last accepted it (history)
  late,        \* an announce was overtaken by the next heartbeat (history)
  overwritten  \* a process without a token has taken the row (history)

row == <<owner, age>>
PresenceVars == <<row, life, call, confirmed, since, late, overwritten>>

Up == {p \in Announcers : life[p] = "up"}

PresenceInit ==
  /\ owner = Nobody /\ age = 0
  /\ life = [p \in Announcers |-> "off"]
  /\ call = [p \in Peers |-> "none"]
  /\ confirmed = [p \in Peers |-> FALSE]
  /\ since = [p \in Peers |-> 0]
  /\ late = FALSE
  /\ overwritten = FALSE

-----------------------------------------------------------------------------
(* The server *)

\* The row belongs to another token and is fresh.  Mutant: the window is not looked at,
\* and a row is held for good.
HeldForGood(p) == owner \notin {p, Nobody, Anonymous}

\* announce's check of a request with a token; a row without one never refuses it.
LiveElsewhere(p) ==
  /\ owner \notin {p, Nobody, Anonymous}
  /\ age <= Window

\* The read, the check and the upsert are one critical section.  The process that asked
\* may be gone by now.
Announce(p) ==
  /\ call[p] = "sent"
  /\ IF LiveElsewhere(p)
       THEN /\ call' = [call EXCEPT ![p] = "refused"]
            /\ UNCHANGED <<row, since>>
       ELSE /\ call' = [call EXCEPT ![p] = "ok"]
            /\ owner' = p /\ age' = 0
            /\ since' = [since EXCEPT ![p] = 0]
  /\ UNCHANGED <<life, confirmed, late, overwritten>>

\* The heartbeat of session.py's _bridge: it has no flag to set, so its call is one step.
AnnounceTokenless(s) ==
  /\ life[s] = "up"
  /\ owner' = Anonymous /\ age' = 0
  /\ overwritten' = TRUE
  /\ UNCHANGED <<life, call, confirmed, since, late>>

\* forget_presence with a token: the row goes only if it is still the caller's.
ForgetPresence(p) ==
  /\ owner' = IF owner = p THEN Nobody ELSE owner
  /\ UNCHANGED age

\* The sweep deletes a row that is old.
Sweep ==
  /\ owner # Nobody /\ age > Window
  /\ owner' = Nobody
  /\ UNCHANGED <<age, life, call, confirmed, since, late, overwritten>>

\* Mutant: every row is listed, however old.
ListedForGood == owner # Nobody

\* who() with its default stale_seconds.
Listed == owner # Nobody /\ age <= Window

-----------------------------------------------------------------------------
(* The sidecars *)

Start(p) ==
  /\ life[p] = "off"
  /\ life' = [life EXCEPT ![p] = "up"]
  /\ call' = [q \in Peers |-> IF q = p THEN "due" ELSE call[q]]
  /\ UNCHANGED <<row, confirmed, since, late, overwritten>>

\* _presence_loop sends its heartbeat.
Heartbeat(p) ==
  /\ p \in Up /\ call[p] = "due"
  /\ call' = [call EXCEPT ![p] = "sent"]
  /\ UNCHANGED <<row, life, confirmed, since, late, overwritten>>

\* The answer arms the inbox loop, or disarms it.
Answered(p) ==
  /\ p \in Up /\ call[p] \in {"ok", "refused"}
  /\ confirmed' = [confirmed EXCEPT ![p] = call[p] = "ok"]
  /\ call' = [call EXCEPT ![p] = "none"]
  /\ UNCHANGED <<row, life, since, late, overwritten>>

\* Mutant: the loop swallows the error and keeps its flag.
FailsQuietly(p) ==
  /\ call' = [call EXCEPT ![p] = "none"]
  /\ UNCHANGED <<row, life, confirmed, since, late, overwritten>>

\* The connection fails: the loop is no longer sure, and reconnects.  The server may have
\* accepted the announce, or never see it.
ConnectionLost(p) ==
  /\ call' = [call EXCEPT ![p] = "none"]
  /\ confirmed' = [confirmed EXCEPT ![p] = FALSE]
  /\ UNCHANGED <<row, life, since, late, overwritten>>

CallFails(p) ==
  /\ "network" \in Faults
  /\ p \in Up /\ call[p] \in {"sent", "ok", "refused"}
  /\ ConnectionLost(p)

\* A heartbeat passes.  An announce has no timeout: one that hangs is overtaken by time.
Tick ==
  /\ age' = IF age > Window THEN age ELSE age + 1
  /\ since' = [p \in Peers |-> IF since[p] > Window THEN since[p] ELSE since[p] + 1]
  /\ call' = [p \in Peers |-> IF p \in Up /\ call[p] = "none" THEN "due" ELSE call[p]]
  /\ late' = (late \/ \E p \in Peers \cap Up :
                        \/ call[p] \in {"sent", "ok", "refused"}
                        \/ confirmed[p] /\ call[p] = "due")
  /\ UNCHANGED <<owner, life, confirmed, overwritten>>

\* The session ends: the loops are cancelled first.  An announce on its way to the server
\* is not called back.
Depart(p) ==
  /\ p \in Up
  /\ life' = [life EXCEPT ![p] = IF p \in Peers /\ confirmed[p] THEN "leaving" ELSE "gone"]
  /\ UNCHANGED <<row, call, confirmed, since, late, overwritten>>

\* _graceful_forget: best effort, for a confirmed owner.
GracefulForget(p) ==
  /\ life[p] = "leaving"
  /\ \/ ForgetPresence(p)
     \/ "network" \in Faults /\ UNCHANGED row
  /\ life' = [life EXCEPT ![p] = "gone"]
  /\ UNCHANGED <<call, confirmed, since, late, overwritten>>

Crash(p) ==
  /\ "crash" \in Faults
  /\ life[p] \in {"up", "leaving"}
  /\ life' = [life EXCEPT ![p] = "gone"]
  /\ UNCHANGED <<row, call, confirmed, since, late, overwritten>>

PresenceNext ==
  \/ \E p \in Announcers : Start(p) \/ Depart(p) \/ Crash(p)
  \/ \E p \in Peers :
       Heartbeat(p) \/ Announce(p) \/ Answered(p) \/ CallFails(p) \/ GracefulForget(p)
  \/ \E s \in Tokenless : AnnounceTokenless(s)
  \/ Tick \/ Sweep

PresenceSpec == PresenceInit /\ [][PresenceNext]_PresenceVars

\* Time passes, a running sidecar's loop goes round, the server serves what reaches it, and
\* of a connection's many calls some get through.
FairSpec ==
  /\ PresenceSpec
  /\ WF_PresenceVars(Tick)
  /\ \A p \in Peers :
       /\ WF_PresenceVars(Heartbeat(p)) /\ WF_PresenceVars(GracefulForget(p))
       /\ SF_PresenceVars(Announce(p)) /\ SF_PresenceVars(Answered(p))

-----------------------------------------------------------------------------

Claiming(p) == p \in Up /\ confirmed[p]

(* Two processes do not both claim for one identity, so long as nobody announces it without *)
(* a token: of those the server accepted within the window one at most is armed, and while  *)
(* no announce took longer than a heartbeat, one at most of all (ECA-71, ECA-82).           *)
SoleClaimer ==
  ~overwritten =>
    \A p, q \in Peers :
      /\ Claiming(p) /\ Claiming(q)
      /\ late => since[p] <= Window /\ since[q] <= Window
      => p = q

(* However the owner went, a process that is left alone with the identity is armed in the  *)
(* end, and again after each failure.                                                      *)
Succession ==
  \A p \in Peers : <>[](Up = {p}) => []<>confirmed[p]

(* Once no process is up, who() stops listing the identity, and no announce or forget that *)
(* was on its way brings it back for good.                                                 *)
TheDeadDropOff == <>[](Up = {}) => <>[]~Listed
=============================================================================
