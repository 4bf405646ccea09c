-------------------------------- MODULE Grants --------------------------------
(***************************************************************************)
(* The vocabulary of a worker's tool policy (worker_supervisor/gate.py):   *)
(* the grants a policy row lists, and the built-in tools that exist for a  *)
(* session under them.  Ceiling says what they let pass, Gate when it is   *)
(* asked.                                                                  *)
(*                                                                         *)
(* A command is a sequence of characters, a tool name a sequence of parts: *)
(* the prefix that names an MCP server, then the rest.                     *)
(***************************************************************************)
EXTENDS Naturals, Sequences

(* What a policy grants.  A grant is bare (the tool, whatever its input),  *)
(* a prefix of tool names, or a pattern for the tool's command.            *)

BareGrant(tool) == [kind |-> "bare", base |-> tool, pattern |-> <<>>]
PrefixGrant(prefix) == [kind |-> "prefix", base |-> prefix, pattern |-> <<>>]
CommandGrant(tool, pattern) == [kind |-> "matcher", base |-> tool, pattern |-> pattern]

AskUserQuestion == <<"AskUserQuestion">>
AlwaysBaseTools == {AskUserQuestion, <<"Skill">>}

McpPrefix == "mcp__"

(* The built-in tools that exist for the session.                          *)
BaseTools(grants) ==
  {g.base : g \in {h \in grants : h.base[1] # McpPrefix}} \cup AlwaysBaseTools
===============================================================================
