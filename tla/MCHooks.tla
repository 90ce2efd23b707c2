-------------------------------- MODULE MCHooks --------------------------------
(* Small instances of the hooks and the commands for TLC. *)
EXTENDS Hooks

Raw(choice, p, confidence) == [object |-> TRUE, choice |-> choice, probabilities |-> p, confidence |-> confidence]

(* Certain, too close when the margin stands in for a confidence, reported *)
(* at and under the floor, trailing its own runner-up, and no object.      *)
MCChoices(keys) ==
  LET two(a, x) == LET b == CHOOSE b \in keys \ {a} : TRUE
                   IN  [k \in keys |-> IF k = a THEN x ELSE IF k = b THEN 100 - x ELSE 0]
  IN  {[object |-> FALSE]}
        \cup UNION {{Raw(a, two(a, 100), Absent), Raw(a, two(a, 60), Absent), Raw(a, two(a, 60), 50),
                     Raw(a, two(a, 60), 49), Raw(a, two(a, 40), 90)} : a \in keys}

MCNouls == {0, 69, 70, 101}

MCAnswers(j) ==
  CASE j.hook = "gate" /\ j.tool = "Bash" ->
         {[effect |-> e, destructive_intent |-> n] :
            e \in MCChoices({"read_only", "reversible", "irreversible"}), n \in MCNouls}
           \cup {[effect |-> [object |-> FALSE]], [destructive_intent |-> 0]}
    [] j.hook = "gate" /\ Writes(j) -> {[secret_content |-> n] : n \in MCNouls} \cup {[other |-> 0]}
    [] j.hook = "gate" /\ j.tool = "Read" -> {[question |-> c] : c \in MCChoices({"allow", "deny"})} \cup {[other |-> 0]}
    [] j.hook = "screen" -> {[question |-> n] : n \in MCNouls} \cup {[other |-> 0]}
    [] OTHER -> {[question |-> c] : c \in MCChoices(Ids(j))} \cup {[other |-> 0]}

Rows == {{}, {"auto"}, {"auto", "review"}, {"review", "escalate"}}

MCPayloads(tool) ==
  CASE tool \in {"jev_gate", "jev_gate_range", "jev_review", "jev_extract", "jev_compare"} ->
         {[action |-> a] : a \in {"auto", "review", "escalate", "none"}}
    [] tool = "jev_screen" -> {[action |-> a] : a \in {"pass", "flag", "none"}}
    [] tool \in {"jev_verify", "jev_classify"} -> {[rows |-> r] : r \in Rows}
    [] tool = "jev_files_judge" -> {[rows |-> r] : r \in {{}, {"ok"}, {"ok", "error"}}}
    [] tool = "jev_decide" -> {[selected |-> s, escaped |-> e] : s, e \in BOOLEAN}
    [] OTHER -> {[status |-> s] : s \in {"ok", "invalid_response"}}

Ordinary == [usage |-> TRUE, stdin |-> "object", required |-> TRUE, settings |-> TRUE, configured |-> TRUE]

Shell == [tool |-> "Bash", cwd |-> TRUE, target |-> "none", units |-> 1,
          json |-> TRUE, input |-> {"plain", "shell", "format", "double"}, description |-> {"plain"}]
WriteIn == [Shell EXCEPT !.tool = "Write", !.target = "inside", !.input = {"plain", "shell"},
                         !.description = {"plain", "double"}]

GateEvents ==
  {Shell, [Shell EXCEPT !.tool = "Read", !.json = FALSE], [Shell EXCEPT !.units = 3, !.description = {"single"}],
   WriteIn, [WriteIn EXCEPT !.cwd = FALSE, !.input = {"plain", "double"}],
   [WriteIn EXCEPT !.target = "outside", !.units = 3], [WriteIn EXCEPT !.tool = "Edit", !.input = {"plain", "pem"}]}

Environments ==
  {[Ordinary EXCEPT !.required = r, !.settings = s, !.configured = c] : r, s, c \in BOOLEAN}
    \cup {[Ordinary EXCEPT !.stdin = s, !.required = r] : s \in {"garbage", "list"}, r \in BOOLEAN}
    \cup {[Ordinary EXCEPT !.usage = FALSE]}

GateJobs == {[hook |-> "gate"] @@ e @@ v : e \in GateEvents, v \in Environments}

ScreenJobs ==
  {[hook |-> "screen", tool |-> t, instructions |-> i, input |-> x, json |-> z, binary |-> b] @@ v :
     t \in {"Bash", "Read"}, i, b, z \in BOOLEAN, x \in {{}, {"plain", "double", "shell"}}, v \in Environments}

Line(kind, id, text) == [kind |-> kind, id |-> id, text |-> text]
T1 == Line("user", "t1", {"plain", "double", "missed"})
T2 == Line("user", "t2", {"plain", "pem", "shell", "single"})
T3 == Line("user", "t3", {"plain"})
Noise == {Line("meta", "m", {"plain"}), Line("user", "none", {"plain"}), Line("user", "t4", {})}

Transcripts == {<<T1>>, <<T1, T2>>, <<T1, T2, T3>>, <<T1, T2, T1, T3>>} \cup {<<T1, n, T2>> : n \in Noise}

CompactJobs ==
  {[hook |-> "compact", compacted |-> c, readable |-> r, lines |-> l] @@ v :
     c, r \in BOOLEAN, l \in Transcripts, v \in Environments}

CommandLines ==
  {<<"git", "push">>, <<"cd", "x", "&&", "git", "-C", "x", "--no-pager", "push", "-f">>, <<"git", "-C", "push">>,
   <<"ls", "|", "gh", "pr", "create">>, <<"echo", "git", "push">>, <<"git", "status", ";", ";;">>}

Change(old, new, text, plus) == [old |-> old, new |-> new, text |-> text, plus |-> plus]
Code == Change("a", "a", {"plain", "format", "double", "missed", "pem"}, "none")
Dotenv == Change(".env", ".env", {"plain"}, "x")
Renamed == Change(".env", "b", {"plain", "single"}, "none")

(* Names that git quotes: a file, a secret store, and one with a ` b/`. *)
MCQuoted == ("q" :> "none") @@ ("q/.env" :> "none") @@ ("q b/c" :> "c")
QuotedStore(plus) == Change("q/.env", "q/.env", {"plain"}, plus)

GoodRange == [empty |-> FALSE, dash |-> FALSE, nul |-> FALSE, ends |-> {"commit", "tree"}]
BadRanges == {[GoodRange EXCEPT !.empty = TRUE], [GoodRange EXCEPT !.dash = TRUE], [GoodRange EXCEPT !.nul = TRUE],
              [GoodRange EXCEPT !.ends = {"commit", "blob"}]}

Repo == [repo |-> TRUE, paths |-> "ok", claims |-> TRUE, range |-> GoodRange, git |-> "ok", total |-> 2,
         changes |-> {Code, Renamed}]

Repos ==
  {[Repo EXCEPT !.git = g, !.total = n] : g \in {"ok", "fails", "hangs"}, n \in {0, 2, 3, 4}}
    \cup {[Repo EXCEPT !.changes = c] : c \in {{Code, Dotenv}, {Dotenv}, {Code, Change("q", "q", {"plain"}, "none")},
                                         {Code, QuotedStore("x")}, {QuotedStore(".env")}, {QuotedStore("..")},
                                         {Change("q b/c", "q b/c", {"plain"}, "none")}}}
    \cup {[Repo EXCEPT !.range = r] : r \in BadRanges}
    \cup {[Repo EXCEPT !.repo = FALSE], [Repo EXCEPT !.claims = FALSE], [Repo EXCEPT !.git = "missing"],
          [Repo EXCEPT !.paths = "outside"]}

CompletionJobs ==
  {[hook |-> "completion", name |-> "jev_gate", tokenizes |-> TRUE, line |-> l, explicit |-> TRUE, quiet |-> <<>>]
     @@ r @@ v : l \in CommandLines, r \in {Repo, [Repo EXCEPT !.paths = "unset"]}, v \in Environments}
    \cup {[hook |-> "completion", name |-> "jev_gate", tokenizes |-> t, line |-> <<"git", "push">>, explicit |-> x,
           quiet |-> q] @@ r @@ [Ordinary EXCEPT !.required = b, !.configured = c] :
            t, x, b, c \in BOOLEAN, q \in {<<1>>, <<128, 0>>, <<128, 128, 1>>, <<128, 128, 128>>, <<128, Never>>}, r \in Repos}

RangeJobs == {[hook |-> "range", name |-> "jev_gate_range"] @@ r @@ Ordinary : r \in Repos}

CliJobs == {[hook |-> "gate_cli", name |-> "jev_gate"] @@ r @@ Ordinary : r \in Repos}

JudgeJobs == {[hook |-> "judge", name |-> t, known |-> k] @@ v : t \in Tools \ {"jev_gate_range"}, k \in BOOLEAN, v \in Environments}

MCJobs == GateJobs \cup ScreenJobs \cup CompactJobs \cup CompletionJobs \cup RangeJobs \cup CliJobs \cup JudgeJobs

================================================================================
