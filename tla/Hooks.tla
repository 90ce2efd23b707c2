--------------------------------- MODULE Hooks ---------------------------------
(***************************************************************************)
(* The short-lived processes a harness or a person starts: `hook gate`,    *)
(* `hook screen`, `hook compact-cut` (hook*.py), `completion-hook`, `gate` *)
(* and `judge` (cli.py), and the server-side call of jev_gate_range, which *)
(* reads a git range the same way.  A process reads one event, may run git *)
(* (GitDiff), asks Jev at most once, and prints a decision or stays silent.*)
(***************************************************************************)
EXTENDS GitDiff, Validation, Sequences, SequencesExt

CONSTANTS Jobs,             \* the events, environments and repositories
          Answers(_),       \* what Jev may answer a job's questions with
          Payloads(_),      \* what a tool may return
          ToolErrors,       \* the codes a tool may fail with, once asked
          InputMax,         \* HOOK_INPUT_UNITS
          TurnsMax,         \* TURNS_MAX
          TailMax           \* TRANSCRIPT_TAIL_BYTES, in lines

(* The fields of a tool's reply that a decision is read from.              *)
ReplyFields(tool) ==
  CASE tool \in {"jev_verify", "jev_classify"} -> [rows : SUBSET {"auto", "review", "escalate"}]
    [] tool = "jev_files_judge" -> [rows : SUBSET {"ok", "error"}]
    [] tool = "jev_decide" -> [selected : BOOLEAN, escaped : BOOLEAN]
    [] tool \in {"jev_find", "jev_rerank", "jev_score", "jev_file_judge", "jev_ask"} -> [status : STRING]
    [] tool \in {"jev_gate", "jev_gate_range", "jev_review", "jev_extract", "jev_compare", "jev_screen"} -> [action : STRING]

Tools == {"jev_gate", "jev_gate_range", "jev_review", "jev_extract", "jev_screen", "jev_verify", "jev_classify",
          "jev_compare", "jev_find", "jev_rerank", "jev_score", "jev_file_judge", "jev_ask", "jev_files_judge", "jev_decide"}

ASSUME HooksAssumption ==
  /\ TailMax \in Nat
  /\ \A tool \in Tools : Payloads(tool) \subseteq ReplyFields(tool)
  /\ \A j \in Jobs :
       /\ j.hook \in {"gate", "screen", "compact", "completion", "gate_cli", "judge", "range"}
       /\ j.hook = "compact" =>
            j.lines \in Seq([kind : STRING, id : STRING, text : SUBSET Kinds])
       /\ j.hook \in {"completion", "gate_cli", "range"} => j.git \in {"ok", "fails", "hangs", "missing"}
       /\ j.hook \in {"completion", "gate_cli", "range", "judge"} => j.name \in Tools

VARIABLES stage,   \* how far the process is
          job,     \* its arguments, standard input and environment
          client,  \* the provider's HTTP client
          answer,  \* what came back
          sent,    \* the lines that have left for the provider
          out      \* what the process printed and its exit code

hookVars == <<git, stage, job, client, answer, sent, out>>

NoAnswer == [failure |-> "none"]
Failed(kind) == [failure |-> kind]
Silent == [exit |-> 0, stdout |-> "none", action |-> "none", unresolved |-> TRUE, code |-> "none"]

Exit(result) == stage' = "done" /\ out' = result /\ UNCHANGED <<job, client, answer, sent>>

Say(stdout) == Exit([Silent EXCEPT !.stdout = stdout])
ExitWith(code) == Exit([Silent EXCEPT !.exit = code])

Move(to) == stage' = to /\ UNCHANGED <<job, client, answer, sent, out>>

PreToolUse == {"gate", "completion"}
Judged == {"gate", "screen", "compact"}
Ranged == {"completion", "gate_cli", "range"}
CliCommands == {"completion", "gate_cli", "judge"}

fail_open_or_ask(j) == IF j.required THEN "ask" ELSE "none"

--------------------------------------------------------------------------------
(* hook.py *)

Writes(j) == j.tool \in {"Write", "Edit"}

_containment(j) == IF Writes(j) /\ j.cwd /\ j.target # "none" THEN j.target ELSE "unknown"

(* A tool's input and its response are JSON unless they are a string. *)
_render_input(j) == IF j.json THEN stringify_compact(j.input) ELSE j.input

Matched(j) == Writes(j) /\ _containment(j) # "outside" /\ has_credential_literal(_render_input(j))

(* _questions: the ids asked for. *)
_questions(j) ==
  CASE j.hook = "gate" /\ j.tool = "Bash" -> {"effect", "destructive_intent"}
    [] j.hook = "gate" /\ Writes(j) -> {"secret_content"}
    [] OTHER -> {"question"}

Thresholds == [reported |-> 50, estimated |-> 40, destructive_intent |-> 70, secret_content |-> 70]

confidence_floor(parsed) ==
  IF parsed.confidence # Unknown THEN parsed.confidence >= Thresholds.reported
  ELSE margin(parsed.probabilities) >= Thresholds.estimated

_bash_outcome(a) ==
  LET effect == validate_choice(a.effect, {"read_only", "reversible", "irreversible"})
      destructive == validate_noul(a.destructive_intent)
  IN  IF ~({"effect", "destructive_intent"} \subseteq DOMAIN a) \/ ~effect.valid \/ destructive = Unknown THEN "ask"
      ELSE IF destructive >= Thresholds.destructive_intent THEN "deny"
      ELSE IF ~confidence_floor(effect) THEN "ask"
      ELSE IF effect.choice = "irreversible" THEN "deny" ELSE "allow"

_write_outcome(a) ==
  LET secret == validate_noul(a.secret_content)
  IN  IF "secret_content" \notin DOMAIN a \/ secret = Unknown THEN "ask"
      ELSE IF secret >= Thresholds.secret_content THEN "deny" ELSE "allow"

_generic_outcome(a) ==
  LET parsed == validate_choice(a.question, {"allow", "deny"})
  IN  IF "question" \notin DOMAIN a \/ ~parsed.valid \/ ~confidence_floor(parsed) THEN "ask"
      ELSE IF parsed.choice = "deny" THEN "deny" ELSE "allow"

_outcome(j, a) ==
  IF Writes(j) THEN _write_outcome(a) ELSE IF j.tool = "Bash" THEN _bash_outcome(a) ELSE _generic_outcome(a)

(* render_decision is never given an allow: that is silence. *)
render_decision(kind) == IF kind = "allow" THEN "none" ELSE kind

(* event_state: only a write is judged as code. *)
event_state(j) ==
  IF Writes(j) THEN redact_credential_literals(j.description) \cup redact_credential_literals(_render_input(j))
  ELSE redact_action(j.description) \cup redact_action(_render_input(j))

--------------------------------------------------------------------------------
(* hook_screen.py and hook_compact.py *)

_reads_instruction_file(j) == j.tool = "Read" /\ j.instructions

_output_text(j) == IF j.json THEN stringify_compact(j.input) ELSE j.input

screen_outcome(a) == IF "question" \in DOMAIN a /\ validate_noul(a.question) >= 70 THEN "annotation" ELSE "none"

(* Turns are the numbers of their lines.  The seek lands inside a line,    *)
(* and that line is dropped.                                               *)
read_tail(lines) == IF Len(lines) <= TailMax THEN DOMAIN lines ELSE (Len(lines) - TailMax + 2)..Len(lines)

parse_turns(lines) ==
  {i \in read_tail(lines) : lines[i].kind = "user" /\ lines[i].id # "none" /\ lines[i].text # {}}

window(turns) == {i \in turns : Cardinality({k \in turns : k > i}) < TurnsMax}

Turns(j) == window(parse_turns(j.lines))

Ids(j) == {j.lines[i].id : i \in Turns(j)}

_redacted(text) == redact_credential_literals(redact_action(text))

build_state(j) == UNION {_redacted(j.lines[i].text) : i \in Turns(j)}

pick(a, j) ==
  LET parsed == validate_choice(a.question, Ids(j))
  IN  IF "question" \in DOMAIN a /\ parsed.valid /\ confidence_floor(parsed) THEN parsed.choice ELSE "none"

--------------------------------------------------------------------------------
(* cli.py: which commands the completion hook judges, and over what range. *)

Operators == {"&&", "||", ";", ";;", "|", "&"}

OptionsWithValue == {"-C", "-c", "--git-dir", "--work-tree", "--namespace", "--exec-path"}
GitFlags == {"-p", "--paginate", "-P", "--no-pager", "--bare", "--no-replace-objects", "--literal-pathspecs", "--x=y"}

_after_git_options(rest) ==
  LET skip[i \in 1..(Len(rest) + 2)] == IF i > Len(rest) THEN i
                                        ELSE IF rest[i] \in OptionsWithValue THEN skip[i + 2]
                                        ELSE IF rest[i] \in GitFlags THEN skip[i + 1] ELSE i
  IN  SubSeq(rest, skip[1], Len(rest))

_COMPLETION_COMMANDS == {<<"git", "push">>, <<"gh", "pr", "create">>, <<"gh", "pr", "merge">>}

_is_completion_command(argv) ==
  LET read == IF argv[1] = "git" THEN <<"git">> \o _after_git_options(Tail(argv)) ELSE argv
  IN  \E prefix \in _COMPLETION_COMMANDS : IsPrefix(prefix, read)

(* The simple commands of a line: the runs of tokens between operators. *)
SimpleCommands(line) ==
  {SubSeq(line, r[1], r[2]) :
     r \in {r \in (DOMAIN line) \X (DOMAIN line) :
              /\ r[1] <= r[2] /\ \A k \in r[1]..r[2] : line[k] \notin Operators
              /\ r[1] = 1 \/ line[r[1] - 1] \in Operators
              /\ r[2] = Len(line) \/ line[r[2] + 1] \in Operators}}

completion_matches(j) == j.tokenizes /\ \E argv \in SimpleCommands(j.line) : _is_completion_command(argv)

(* One git diff --quiet after another, without a timeout: 1 differs, 0 is  *)
(* empty, any other code does not resolve, and one may never return.       *)
Never == -1

completion_range(j) ==
  LET ends == SelectSeq(j.quiet, LAMBDA rc : rc \in {0, 1, Never})
  IN  IF j.explicit THEN "explicit"
      ELSE IF ends = <<>> THEN "HEAD"
      ELSE CASE Head(ends) = 0 -> "none" [] Head(ends) = 1 -> "candidate" [] Head(ends) = Never -> "never"

--------------------------------------------------------------------------------
(* cli.py: a tool's payload as an action and whether anything is unresolved. *)

Report(action, clean) == [action |-> action, unresolved |-> ~clean]

_top_action(p) == Report(p.action, p.action = "auto")

_screen_action(p) == Report(p.action, p.action = "pass")

_row_action(p) ==
  LET actions == caller_actions(p.rows)
  IN  IF actions = {} THEN Report("none", FALSE) ELSE Report(worst_action(actions), worst_action(actions) = "auto")

_compare_action(p) ==
  IF p.action \in {"auto", "review"} THEN Report(p.action, p.action = "auto") ELSE Report("none", FALSE)

_status_clean(p) == Report("none", p.status # "invalid_response")

_score_clean(p) == Report("none", p.status = "ok")

_files_clean(p) == Report("none", p.rows = {"ok"})

_decide_clean(p) == Report("none", p.selected /\ ~p.escaped)

(* TOOL_DECISIONS and jev_extract, whose headline rides on the outcome. *)
_reported(tool, p) ==
  CASE tool \in {"jev_gate", "jev_gate_range", "jev_review", "jev_extract"} -> _top_action(p)
    [] tool = "jev_screen" -> _screen_action(p)
    [] tool \in {"jev_verify", "jev_classify"} -> _row_action(p)
    [] tool = "jev_compare" -> _compare_action(p)
    [] tool \in {"jev_find", "jev_rerank"} -> _status_clean(p)
    [] tool \in {"jev_score", "jev_file_judge", "jev_ask"} -> _score_clean(p)
    [] tool = "jev_files_judge" -> _files_clean(p)
    [] tool = "jev_decide" -> _decide_clean(p)

_failure(exit, code) == [Silent EXCEPT !.exit = exit, !.stdout = "decision", !.code = code]

_success(tool, p) ==
  [Silent EXCEPT !.stdout = "decision", !.action = _reported(tool, p).action,
                 !.unresolved = _reported(tool, p).unresolved]

ReachedProvider == {"timeout", "quota", "provider"}

(* Fault: a rejected key counts as a provider that was reached. *)
GateFailureAuthReached(j, code) == IF code \in ReachedProvider \cup {"auth"} THEN "none" ELSE fail_open_or_ask(j)

_gate_failure(j, code) == IF code \in ReachedProvider THEN "none" ELSE fail_open_or_ask(j)

--------------------------------------------------------------------------------
(* From the start to the provider. *)

HookInit ==
  /\ job \in Jobs /\ stage = "start" /\ git = NoGit /\ client = "none"
  /\ answer = NoAnswer /\ sent = {} /\ out = [Silent EXCEPT !.exit = -1]

(* server.main reads the settings before a command, and not before a hook. *)
Started(hooks) == stage = "start" /\ job.hook \in hooks /\ (job.hook \in CliCommands => job.settings)

MainCrashes == stage = "start" /\ job.hook \in CliCommands /\ ~job.settings /\ ExitWith(1)

Usage == Started(Judged \cup CliCommands) /\ ~job.usage /\ ExitWith(2)

BadStdin ==
  /\ Started(Judged \cup CliCommands) /\ job.usage /\ job.stdin # "object"
  /\ CASE job.hook \in PreToolUse -> Say(fail_open_or_ask(job))
       [] job.hook \in {"screen", "compact"} -> Say("none")
       [] OTHER -> Exit(_failure(2, "invalid_arguments"))

Ready(hook) == Started({hook}) /\ job.usage /\ job.stdin = "object"

Evidence(j) == _containment(j) = "outside" \/ Matched(j)

TooLarge(j) == j.required /\ j.units > InputMax

DenyOnEvidence == Ready("gate") /\ Evidence(job) /\ Say("deny")

AskTooLarge == Ready("gate") /\ ~Evidence(job) /\ TooLarge(job) /\ Say(fail_open_or_ask(job))

GatePlans == Ready("gate") /\ ~Evidence(job) /\ ~TooLarge(job) /\ Move("prepare")

Unscreened(j) == _reads_instruction_file(j) \/ j.input = {} \/ j.binary

ScreenAbstains == Ready("screen") /\ Unscreened(job) /\ Say("none")

ScreenPlans == Ready("screen") /\ ~Unscreened(job) /\ Move("prepare")

NoCut(j) == ~j.compacted \/ ~j.readable \/ Cardinality(Turns(j)) < 2

CompactAbstains == Ready("compact") /\ NoCut(job) /\ Say("none")

CompactPlans == Ready("compact") /\ ~NoCut(job) /\ Move("prepare")

(* hook_runtime.prepare catches no error but ProviderConfigError. *)
PrepareCrashes == stage = "prepare" /\ ~job.settings /\ ExitWith(1)

PrepareFails ==
  /\ stage = "prepare" /\ job.settings /\ ~job.configured
  /\ Say(IF job.hook = "gate" THEN fail_open_or_ask(job) ELSE "none")

Material(j) ==
  CASE j.hook = "gate" -> event_state(j)
    [] j.hook = "screen" -> redact_action(_output_text(j))
    [] j.hook = "compact" -> build_state(j)

Prepare ==
  /\ stage = "prepare" /\ job.settings /\ job.configured
  /\ stage' = "judging" /\ client' = "open" /\ sent' = Lines("event", Material(job))
  /\ UNCHANGED <<job, answer, out>>

Results(j) == Answers(j) \cup {Failed(kind) : kind \in {"timeout", "provider", "cancelled", "interrupted"}}

Returns(result, to) ==
  stage' = to /\ answer' = result /\ UNCHANGED <<job, client, sent, out>>

(* Fault: the client is closed after an answer only. *)
JudgeClosingAnswers ==
  stage = "judging" /\ \E r \in Results(job) : Returns(r, IF "failure" \in DOMAIN r THEN "decide" ELSE "closing")

(* hook_runtime._judge: the call ends, in its budget, and the finally runs. *)
_judge == stage = "judging" /\ \E r \in Results(job) : Returns(r, "closing")

CloseProvider == stage = "closing" /\ stage' = "decide" /\ client' = "closed" /\ UNCHANGED <<job, answer, sent, out>>

Unanswered == "failure" \in DOMAIN answer

Interrupted == Unanswered /\ answer.failure = "interrupted"

GateDecides ==
  stage = "decide" /\ job.hook = "gate" /\ ~Interrupted
    /\ Say(IF Unanswered THEN "ask" ELSE render_decision(_outcome(job, answer)))

ScreenAnnotates ==
  stage = "decide" /\ job.hook = "screen" /\ ~Interrupted /\ Say(IF Unanswered THEN "none" ELSE screen_outcome(answer))

CompactCuts ==
  /\ stage = "decide" /\ job.hook = "compact" /\ ~Interrupted
  /\ Say(IF Unanswered \/ pick(answer, job) = "none" THEN "none" ELSE "context")

(* hook_runtime.judge re-raises what is no cancellation. *)
Interrupt == stage \in {"decide", "report"} /\ Interrupted /\ ExitWith(130)

--------------------------------------------------------------------------------
(* Commands and ranges. *)

CompletionAbstains == Ready("completion") /\ ~completion_matches(job) /\ Say("none")

CompletionUnset == Ready("completion") /\ completion_matches(job) /\ job.paths = "unset" /\ Say(fail_open_or_ask(job))

Completing == Ready("completion") /\ completion_matches(job) /\ job.paths # "unset"

(* completion_range runs git outside the try. *)
RangeCrashes == Completing /\ ~job.explicit /\ job.git = "missing" /\ ExitWith(1)

RangeAsked == Completing /\ (job.explicit \/ job.git # "missing")

NothingToGate == RangeAsked /\ completion_range(job) = "none" /\ Say("none")

CompletionGates == RangeAsked /\ completion_range(job) \notin {"none", "never"} /\ Move("arguments")

(* The process waits for a git that does not return. *)
RangeHangs == RangeAsked /\ completion_range(job) = "never" /\ UNCHANGED hookVars

ReadArguments == (Ready("gate_cli") \/ Ready("range")) /\ Move("arguments")

JudgeUnknown == Ready("judge") /\ ~job.known /\ Exit(_failure(2, "invalid_arguments"))

JudgeRuns == Ready("judge") /\ job.known /\ Move("tool")

Refuse(code) ==
  CASE job.hook = "completion" -> Say(_gate_failure(job, code))
    [] job.hook = "gate_cli" -> Exit(_failure(2, code))
    [] OTHER -> Exit([Silent EXCEPT !.stdout = "error", !.code = code])

(* _gate_arguments; for jev_gate_range, the test log and the repository. *)
_gate_arguments(j) == j.repo /\ j.paths = "ok" /\ j.claims

BadArguments == stage = "arguments" /\ (~_gate_arguments(job) \/ refused_range(job.range)) /\ Refuse("invalid_arguments")

GoodArguments == stage = "arguments" /\ _gate_arguments(job) /\ ~refused_range(job.range)

DiffNotRun == GoodArguments /\ job.git = "missing" /\ Refuse("invalid_arguments")

_bounded_diff == GoodArguments /\ job.git # "missing" /\ Popen /\ Move("reading")

Elsewhere == UNCHANGED <<stage, job, client, answer, sent, out>>

Git ==
  /\ stage = "reading" /\ Elsewhere
  /\ \/ GitPrints(job.total)
     \/ GitStalls
     \/ job.git # "hangs" /\ GitExits(job.total, IF job.git = "fails" THEN "failed" ELSE "exited")

Timer == stage = "reading" /\ TimerFires /\ Elsewhere

ReadDiff == stage = "reading" /\ ReadPipe /\ Elsewhere

OverBudget ==
  stage = "reading" /\ PastCap /\ KillOverBudget
    /\ Refuse(IF job.hook = "range" THEN "input_too_large" ELSE "invalid_arguments")

Unreadable(j) == j.hook = "range" /\ ~splits(Patches(j.changes))

AllSecret(j) == j.hook = "range" /\ _guarded(split_unified(Patches(j.changes))) = {}

DiffFails ==
  /\ stage = "reading" /\ AtEof /\ Reaped
  /\ \/ (~SucceededDiff \/ job.total = 0 \/ Unreadable(job)) /\ Refuse("invalid_arguments")
     \/ SucceededDiff /\ job.total > 0 /\ ~Unreadable(job) /\ AllSecret(job) /\ Refuse("secret_file")

DiffReady ==
  /\ stage = "reading" /\ AtEof /\ Reaped
  /\ SucceededDiff /\ job.total > 0 /\ ~Unreadable(job) /\ ~AllSecret(job)
  /\ Move("tool")

DiffLines(j) ==
  CASE j.hook = "range" -> UNION {f.lines : f \in _guarded(split_unified(Patches(j.changes)))}
    [] j.hook = "judge" -> {}
    [] OTHER -> UNION {p.lines : p \in Patches(j.changes)}

(* Toolset.execute, as far as the commands see it; the client of a range   *)
(* call is the server's.                                                   *)
ToolRefuses ==
  /\ stage = "tool" /\ stage' = "aclose" /\ UNCHANGED <<job, client, sent, out>>
  /\ \E code \in {"invalid_arguments", "input_too_large"} \cup (IF job.configured THEN {} ELSE {"auth"}) :
       answer' = Failed(code)

ToolAsks ==
  /\ stage = "tool" /\ job.configured /\ stage' = "asking" /\ UNCHANGED <<job, answer, out>>
  /\ client' = IF job.hook = "range" THEN "shared" ELSE "open"
  /\ sent' = DiffLines(job)

ToolReturns ==
  /\ stage = "asking" /\ stage' = "aclose" /\ UNCHANGED <<job, client, sent, out>>
  /\ \/ \E p \in Payloads(job.name) : answer' = p
     \/ \E code \in ToolErrors \cup {"interrupted"} : answer' = Failed(code)

_execute ==
  /\ stage = "aclose" /\ stage' = "report" /\ UNCHANGED <<job, answer, sent, out>>
  /\ client' = IF client = "open" THEN "closed" ELSE client

CompletionReports ==
  /\ stage = "report" /\ job.hook = "completion" /\ ~Interrupted
  /\ Say(IF Unanswered THEN _gate_failure(job, answer.failure) ELSE IF answer.action = "auto" THEN "none" ELSE "ask")

_run_tool ==
  /\ stage = "report" /\ job.hook \in {"gate_cli", "judge"} /\ ~Interrupted
  /\ Exit(IF Unanswered THEN _failure(1, answer.failure) ELSE _success(job.name, answer))

RangeReports ==
  /\ stage = "report" /\ job.hook = "range" /\ ~Interrupted
  /\ Exit(IF Unanswered THEN [Silent EXCEPT !.stdout = "error", !.code = answer.failure]
          ELSE [Silent EXCEPT !.stdout = "decision", !.action = answer.action])

--------------------------------------------------------------------------------

Process ==
  \/ /\ UNCHANGED git
     /\ \/ MainCrashes \/ Usage \/ BadStdin
        \/ DenyOnEvidence \/ AskTooLarge \/ GatePlans
        \/ ScreenAbstains \/ ScreenPlans \/ CompactAbstains \/ CompactPlans
        \/ PrepareCrashes \/ PrepareFails \/ Prepare \/ _judge \/ CloseProvider
        \/ GateDecides \/ ScreenAnnotates \/ CompactCuts \/ Interrupt
        \/ CompletionAbstains \/ CompletionUnset \/ RangeCrashes \/ NothingToGate \/ CompletionGates
        \/ ReadArguments \/ JudgeUnknown \/ JudgeRuns \/ BadArguments \/ DiffNotRun
        \/ ToolRefuses \/ ToolAsks \/ ToolReturns \/ _execute \/ CompletionReports \/ _run_tool \/ RangeReports
  \/ _bounded_diff \/ ReadDiff \/ OverBudget \/ DiffFails \/ DiffReady

Done == stage = "done" /\ UNCHANGED hookVars

HookNext == Process \/ RangeHangs \/ Git \/ Timer \/ Done

(* The process and its timer thread run; git may stall for ever. *)
HookSpec == HookInit /\ [][HookNext]_hookVars /\ WF_hookVars(Process) /\ WF_hookVars(Timer)

--------------------------------------------------------------------------------

HookTypeOK ==
  /\ job.hook \in Judged \cup Ranged \cup CliCommands /\ client \in {"none", "open", "closed", "shared"}
  /\ stage \in {"start", "prepare", "judging", "closing", "decide", "arguments", "reading", "tool", "asking",
                "aclose", "report", "done"}
  /\ git.proc \in {"none", "running", "exited", "failed", "killed", "reaped"} /\ git.read <= git.printed
  /\ out.stdout \in {"none", "ask", "deny", "annotation", "context", "decision", "error"}

Ended == stage = "done"

(* A choice Jev stands behind: it is none of the bad ones, none is likelier*)
(* and, where no confidence is reported, it leads by a margin.             *)
Sure(raw, bad) ==
  LET p == raw.probabilities IN
  /\ raw.choice \notin bad /\ \A k \in DOMAIN p : p[k] <= p[raw.choice]
  /\ \/ raw.confidence \in 50..100
     \/ raw.confidence \notin 0..100 /\ \A k \in DOMAIN p \ {raw.choice} : p[raw.choice] - p[k] >= 40

(* Jev, asked everything, saw nothing wrong with an action no evidence denies. *)
Cleared ==
  /\ ~Unanswered /\ _questions(job) \subseteq DOMAIN answer /\ ~Evidence(job)
  /\ \A q \in {"destructive_intent", "secret_content"} \cap _questions(job) : answer[q] \in 0..69
  /\ \A q \in {"effect", "question"} \cap _questions(job) : Sure(answer[q], {"irreversible", "deny"})

(* Why the completion hook may say nothing about a command. *)
Passed ==
  \/ ~completion_matches(job) \/ completion_range(job) = "none"
  \/ ~Unanswered /\ answer.action = "auto"
  \/ Unanswered /\ answer.failure \in ReachedProvider

(* A hook that stays silent, which the harness reads as a pass, and a      *)
(* command that reports nothing unresolved have a reason to: Jev cleared   *)
(* the action, there was nothing to judge, the provider failed after it    *)
(* was reached, or the operator did not require the hook and the call was  *)
(* never made (hook.main, completion_hook_main, TOOL_DECISIONS).           *)
NoUnearnedPass ==
  /\ Ended /\ out.exit = 0 /\ out.stdout = "none" /\ job.hook = "gate" => Cleared \/ (~job.required /\ sent = {})
  /\ Ended /\ out.exit = 0 /\ out.stdout = "none" /\ job.hook = "completion" => Passed \/ ~job.required
  /\ Ended /\ ~out.unresolved =>
       /\ ~Unanswered
       /\ "rows" \in DOMAIN answer => answer.rows # {} /\ answer.rows \cap {"review", "escalate", "error"} = {}
       /\ "action" \in DOMAIN answer => answer.action \in {"auto", "pass"}

(* What each path's redactor looks for does not leave the process: no      *)
(* literal in a written file or a range, no shell secret, token format or  *)
(* double-quoted value in another tool's call or output, none of either    *)
(* from a transcript.  What that redactor does not match - a single-quoted *)
(* value on the shell's path, a value in escaped quotes on any - does.     *)
(* Of a range no line that a secret store held before or after the change  *)
(* leaves, whatever renamed it, unless git quotes the store's name: its    *)
(* patch may go by another name (hook.event_state, hook_compact._redacted, *)
(* gate_range._guarded, git_diff._path_from_header).                       *)
NothingSecretSent ==
  LET material == {l[2] : l \in sent} IN
  /\ job.hook = "range" =>
       /\ material \cap Literals = {}
       /\ \A l \in sent : l[1] \in SecretStores => l[1] \in DOMAIN Quoted
  /\ job.hook = "gate" /\ Writes(job) => material \cap Literals = {}
  /\ job.hook \in {"gate", "screen"} /\ ~Writes(job) => material \cap {"shell", "format", "double"} = {}
  /\ job.hook = "compact" => material \subseteq {"plain", "missed"}

(* A diff that is judged is all that git had to print: one cut short by    *)
(* the timer, by git's own failure or at the budget is refused             *)
(* (git_diff._bounded_diff).                                               *)
JudgesWholeDiff == job.hook \in Ranged /\ stage \in {"tool", "asking"} => git.read = job.total /\ job.git = "ok"

(* What a hook has sent for judgment is whole, and holds nothing that its  *)
(* redactor and guard can tell: neither a fault of git nor a rename        *)
(* changes what may leave the process.                                     *)
SentHonest == NothingSecretSent /\ JudgesWholeDiff

(* A process that has ended left no client open, no git running or unreaped*)
(* and no timer armed, whichever way it ended (hook_runtime._judge,        *)
(* cli._execute, the with block of git_diff._bounded_diff).                *)
NothingLeftBehind == Ended => client # "open" /\ git.proc \in {"none", "reaped"} /\ git.timer = "off"

(* Every hook and command ends, also when the git that prints its diff     *)
(* hangs, but for a completion hook that waits for a git diff --quiet      *)
(* which never returns: completion_range sets it no timeout.               *)
HookEnds == <>(Ended \/ (RangeAsked /\ completion_range(job) = "never"))

================================================================================
