------------------------------ MODULE MCService ------------------------------
(***************************************************************************)
(* Small instances of Service for TLC.                                     *)
(***************************************************************************)
EXTENDS Service, TLC

CONSTANTS a, b, ra, ra2, ea, ea2, hb, hx, SET, UNSET

\* Two firings of a's schedules, two events for a, and
\* HTTP requests for b with and without the token.
Triggers ==
  ra :> "cron" @@ ra2 :> "cron" @@ ea :> "event" @@ ea2 :> "event" @@ hb :> "http" @@ hx :> "http"
Targets == ra :> a @@ ra2 :> a @@ ea :> a @@ ea2 :> a @@ hb :> b @@ hx :> b
Limits == a :> 2 @@ b :> 1

Good ==
  [text |-> "framed", needs |-> {SET}, commented |-> {}, yaml |-> "mapping",
   keys |-> {"language"}, typed |-> TRUE, id |-> a, enabled |-> TRUE,
   crons |-> <<"3am", "4am">>, allow |-> {"search", "merge"}, write |-> {"merge"}]

GoodFiles ==
  {Good, [Good EXCEPT !.enabled = FALSE],
   [Good EXCEPT !.id = b, !.crons = <<>>, !.write = {}],
   [Good EXCEPT !.id = b, !.enabled = FALSE, !.crons = <<"noon">>]}
BadFiles ==
  {[Good EXCEPT !.text = "unreadable"], [Good EXCEPT !.text = "unclosed"],
   [Good EXCEPT !.text = "bodiless"], [Good EXCEPT !.needs = {UNSET}],
   [Good EXCEPT !.commented = {UNSET}], [Good EXCEPT !.yaml = "broken"],
   [Good EXCEPT !.yaml = "scalar"], [Good EXCEPT !.keys = {"folders"}],
   [Good EXCEPT !.typed = FALSE], [Good EXCEPT !.crons = <<"3am", "noon">>],
   [Good EXCEPT !.allow = {"search"}]}

Tree ==
  [text |-> "tree", needs |-> {SET}, sections |-> {"mcp", "ollama", "redis"}, typed |-> TRUE]
Configs ==
  {Tree, [Tree EXCEPT !.sections = {"mcp", "redis"}], [Tree EXCEPT !.text = "broken"], [Tree EXCEPT !.needs = {UNSET}],
   [Tree EXCEPT !.typed = FALSE]}

Files == GoodFiles \union BadFiles

\* Up to three files, of which the last may be bad, with a good global file; and
\* a bad one with one agent.
Disks ==
  {[config |-> Tree, files |-> fs] :
     fs \in UNION {[1..n -> GoodFiles] : n \in 0..2}
            \union [1..3 -> GoodFiles]
            \union {<<g, f>> : g \in GoodFiles, f \in BadFiles}
            \union {<<f, g>> : g \in GoodFiles, f \in BadFiles}}
  \union {[config |-> c, files |-> <<Good>>] : c \in Configs}

\* One agent with two schedules.
OneAgent == {[config |-> Tree, files |-> <<Good>>]}
=============================================================================
