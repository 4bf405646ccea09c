------------------------------ MODULE Envelopes ------------------------------
(***************************************************************************)
(* Which task envelopes the launcher accepts, and what it gives the worker *)
(* of one it has accepted.                                                 *)
(*                                                                         *)
(* A field of an envelope is a tuple: left out, of the wrong type, or      *)
(* given.  A path is the sequence of its names.                            *)
(***************************************************************************)
EXTENDS Integers, Sequences

CONSTANT Resolved   \* where the paths that lead to a directory do, with every link followed

Missing == <<>>
Wrong == <<"wrong type">>
Given(v) == <<"given", v>>
IsGiven(field) == Len(field) = 2
Accepts(v) == [error |-> "", value |-> v]
Refuses(error) == [error |-> error, value |-> Missing]

\* Path.relative_to: a path is not under a root by its name alone starting with the root's.
RelativeTo(root, path) == Len(root) <= Len(path) /\ SubSeq(path, 1, Len(root)) = root

\* Path(raw).resolve(strict=True), then relative_to each root.
ResolveCwd(raw, allowlist) ==
  IF allowlist = {} THEN Refuses("cwd_not_allowed")
  ELSE IF raw = "nul" THEN Refuses("bad_envelope")
  ELSE IF raw \notin DOMAIN Resolved THEN Refuses("cwd_not_allowed")
  ELSE IF \E root \in allowlist : RelativeTo(root, Resolved[raw]) THEN Accepts(Resolved[raw])
  ELSE Refuses("cwd_not_allowed")

ResolveEngine(raw, enabled) ==
  LET engine == IF raw = Missing THEN "claude" ELSE raw[2] IN
  IF raw # Missing /\ (~IsGiven(raw) \/ engine \notin {"claude", "codex"})
  THEN Refuses("bad_envelope")
  ELSE IF engine \in enabled THEN Accepts(engine) ELSE Refuses("engine_not_allowed")

ResolveTools(raw, ceiling) ==
  CASE raw = Missing -> Accepts(ceiling)
    [] raw = Wrong -> Refuses("bad_envelope")
    [] OTHER -> IF raw[2] \subseteq ceiling THEN Accepts(raw[2])
                ELSE Refuses("tools_exceed_ceiling")

Sandboxes == {"read-only", "workspace-write", "danger-full-access"}
SandboxOrder ==
  [s \in Sandboxes |-> CASE s = "read-only" -> 0
                         [] s = "workspace-write" -> 1
                         [] s = "danger-full-access" -> 2]

ResolveSandbox(raw, ceiling) ==
  CASE raw = Missing -> Accepts(ceiling)
    [] raw = Wrong -> Refuses("bad_envelope")
    [] OTHER -> IF SandboxOrder[raw[2]] > SandboxOrder[ceiling]
                THEN Refuses("codex_sandbox_exceeds_ceiling") ELSE Accepts(raw[2])

\* Mutant: a timeout that is not positive is not replaced.
TimeoutClamped(raw, cap) ==
  CASE raw = Missing -> Accepts(cap)
    [] raw = Wrong -> Refuses("bad_envelope")
    [] OTHER -> Accepts(IF cap < raw[2] THEN cap ELSE raw[2])

ResolveTimeout(raw, cap) ==
  CASE raw = Missing -> Accepts(cap)
    [] raw = Wrong -> Refuses("bad_envelope")
    [] OTHER -> Accepts(IF raw[2] <= 0 \/ cap < raw[2] THEN cap ELSE raw[2])

\* allowed_tools goes with engine "claude" and codex_sandbox with "codex" only.
ResolvePowers(e, engine, policy) ==
  IF engine = "codex"
  THEN IF e.allowed_tools # Missing THEN Refuses("bad_envelope")
       ELSE ResolveSandbox(e.codex_sandbox, policy.sandbox)
  ELSE LET tools == ResolveTools(e.allowed_tools, policy.tools) IN
       IF tools.error = "" /\ e.codex_sandbox # Missing THEN Refuses("bad_envelope") ELSE tools

\* The first check that fails names the error.
ParseEnvelope(e, policy) ==
  LET cwd == ResolveCwd(e.cwd[2], policy.allowlist)
      engine == ResolveEngine(e.engine, policy.engines)
      powers == ResolvePowers(e, engine.value, policy)
      timeout == ResolveTimeout(e.timeout_s, policy.cap)
  IN CASE ~IsGiven(e.task) \/ ~IsGiven(e.cwd) -> Refuses("bad_envelope")
       [] OTHER -> IF cwd.error # "" THEN cwd ELSE IF engine.error # "" THEN engine
                   ELSE IF powers.error # "" THEN powers
                   ELSE IF e.model = Wrong THEN Refuses("bad_envelope")
                   ELSE IF timeout.error # "" THEN timeout
                   ELSE Accepts([cwd |-> cwd.value, engine |-> engine.value,
                                 powers |-> powers.value, timeout |-> timeout.value])

\* _build_cmd and _build_codex_cmd: a grant is a tool and a matcher; --tools takes the base
\* names, and only those tools exist for the worker.
BaseToolNames(grants) == {g[1] : g \in grants}
Argv(env) ==
  IF env.engine = "codex" THEN [sandbox |-> env.powers, cwd |-> env.cwd]
  ELSE [tools |-> BaseToolNames(env.powers), allowed |-> env.powers, cwd |-> env.cwd]

-----------------------------------------------------------------------------

\* The worker of an accepted envelope is started under an allowlisted root, by an enabled
\* engine, with no tool or sandbox beyond the ceiling and for no longer than the cap.
WithinPolicy(env, policy) ==
  /\ \E root \in policy.allowlist : RelativeTo(root, Argv(env).cwd)
  /\ env.engine \in policy.engines
  /\ IF env.engine = "codex"
     THEN SandboxOrder[Argv(env).sandbox] <= SandboxOrder[policy.sandbox]
     ELSE /\ Argv(env).allowed \subseteq policy.tools
          /\ Argv(env).tools \subseteq BaseToolNames(policy.tools)
  /\ env.timeout <= policy.cap
  /\ policy.cap > 0 => env.timeout > 0
=============================================================================
