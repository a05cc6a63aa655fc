----------------------------- MODULE AgentLoader -----------------------------
(***************************************************************************)
(* Loading the configuration: what load_global_config and one turn of the  *)
(* loop of load_agent_files make of what is on disk and in the environment.*)
(***************************************************************************)
EXTENDS Integers, Sequences, Functions

CONSTANTS
  Environment,   \* the variables that are set
  GUIDANCE_KEYS  \* the placeholders SAGA knows

(* A file is a record of what the loaders ask of it.  An agent file:         *)
(*   text               how far its frame goes: "unreadable", "unopened",    *)
(*                      "unclosed", "bodiless" or "framed"                   *)
(*   needs, commented   variables without a default, in values and comments  *)
(*   yaml               its frontmatter: "broken", "scalar" or "mapping"     *)
(*   keys               the saga placeholders of its body                    *)
(*   typed              its fields have the types of AgentDefinition         *)
(*   id, enabled, crons, allow, write    the fields themselves               *)
(* The global file has text ("unreadable", "broken" or "tree"), needs, the   *)
(* sections it gives, and typed.                                             *)

Resolves(variables) == variables \subseteq Environment

\* The other sections, and most fields, have defaults.
GlobalConfig(config) == config.typed /\ {"mcp", "ollama", "redis"} \subseteq config.sections
ToolsSpec(file) == file.write \subseteq file.allow
AgentDefinition(file) == file.typed /\ ToolsSpec(file)
KnownPlaceholders(file) == file.keys \subseteq GUIDANCE_KEYS

\* The tokens are resolved in the parsed tree, where there are no comments left.
ConfigLoads(config) ==
  config.text = "tree" /\ Resolves(config.needs) /\ GlobalConfig(config)

\* The tokens are resolved in the raw text, comments included, before it is parsed.
Parses(file) ==
  /\ file.text = "framed" /\ Resolves(file.needs \union file.commented)
  /\ file.yaml = "mapping"
  /\ KnownPlaceholders(file) /\ AgentDefinition(file)

\* What parse_agent_markdown raises: only a read and yaml.safe_load raise
\* something of their own.
ParseError(file) ==
  CASE Parses(file) -> "none"
    [] file.text = "unreadable" -> "OSError"
    [] /\ file.text = "framed" /\ Resolves(file.needs \union file.commented)
       /\ file.yaml = "broken" -> "YAMLError"
    [] OTHER -> "ConfigError"

\* What one file more raises after those already loaded: its own error, or a
\* repeated id, of a disabled agent too.
SameId(agents, file) == \E i \in DOMAIN agents : agents[i].id = file.id
LoadErrorUnlessDisabled(agents, file) ==                         \* mutant
  IF file.enabled /\ SameId(agents, file) THEN "ConfigError" ELSE ParseError(file)
LoadError(agents, file) ==
  IF Parses(file) /\ SameId(agents, file) THEN "ConfigError" ELSE ParseError(file)
=============================================================================
