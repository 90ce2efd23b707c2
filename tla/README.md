# A TLA+ model of jev-judge-mcp

`jev-judge-mcp` is an MCP server (Python, one asyncio event loop) whose tools ask a
judging model, Jev, about claims, diffs, files and text, and turn the answers into
advice: `auto`, `review` or `escalate`. Beside the tools it keeps a pool of killable
regex processes, a retrying HTTP client, an on-disk response cache shared between
processes, an installer that edits the config files of other programs, and an
evaluation harness that spends real money.

This directory holds TLA+ modules for the parts of it that are hard to test, the TLC
configurations that check them, and TLAPS proofs of the results that matter most.

    tlc -workers 2 -config MCRegexPool.cfg MCRegexPool     # one run
    tlapm RegexPool_proofs.tla                             # one proof module

`PROJECT.json` lists the runs, the mutants (a plausible bug per property, which the
property must catch), the source lines behind every definition, the hazards and the
theorems.  Paths below are relative to `src/src/jev_judge_mcp/` unless they start with
`evals/` or `docs/`.

## 1. Inventory

| Component | State | Operations | What makes it hard | What makes it correct |
|---|---|---|---|---|
| Regex pool, `extract/worker.py` | `_waiting`, `_limit` (semaphore), `_idle`, `_closed`, child processes | `find`, `warm`, `aclose`; the worker's loop | cancellation and deadlines at every await, processes that die, close while finds run, the server killed | permits conserved, no process leaked or shared, bounded pool, every find returns |
| Provider retry, `providers/base.py`, `providers/retry.py` | attempt number, clock, horizon | `evaluate`: attempt, classify, back off, give up | three time bounds, `Retry-After`, late wake-ups | ends within the horizon, retries only what may succeed, reports the failure that happened |
| Response cache, `cache.py`, `fsutil.py` | one file per key, staging files | lookup, store, sweep, evict | several processes on one directory without a lock, crashes between file-system steps | no torn record, no foreign or stale replay, bounded directory |
| Installer, `install/engine.py`, `install/fs.py`, `install/launch.py` | config files, backups, ownership record | plan, write one target, save the record, remove | edits by other programs, two installers, kills, one target failing | user's entries and keys survive, what is replaced is backed up |
| File-list calls, `tools/files.py`, `tools/base.py` | one task group per call, process-wide semaphore | ask per file, fold, fail, cancel | fan-out of concurrent paid requests, first failure cancels the rest | caps hold, nothing outlives its call, `auto` is earned |
| Claims tools, `tools/verify.py`, `tools/gate.py`, `policy/claims.py`, `policy/review.py`, `ids.py` | none between calls | build questions, validate answers, fold rows | unknown confidences, colliding ids, caller-written evidence | `auto` is earned, the reason codes explain the action |
| Spend ledger, `evals/spend.py`, `evals/study_runner.py`, `evals/ab/run.py` | ledger file, lock, logs and result files | load, admit a pair, run, grade, book, resume | kills while an agent runs and between paying and booking, lowered caps | no run whose agent ended is paid again, none starts past the cap as far as the ledger can know, bookings and cap kept |
| Providers' exchanges, `providers/typesafe.py`, `cloudflare.py`, `openrouter.py`, `compatible.py` | `_origin`, an HTTP client | `_send`: refuse, post, follow or block a redirect, read a status and an envelope | redirects, two layers that could retry, wrappers that fail under a 200 | the state stays at its origin, one owner of retries, only sound envelopes are answers |
| Server and transports, `server.py`, `stdio.py`, `http_auth.py`, `providers/resolver.py`, `telemetry.py` | phase, streams, handlers, key file as read, spans and metrics | startup gates, read, dispatch, handle, write, stop, close | replies racing cancellations, the end of input and signals; a setup meanwhile | every accepted request is settled once and before the close; the process stops and leaves nothing |
| One-question tools, `tools/*.py`, `policy/*.py`, `validation/*.py` | none between calls | check arguments, ask, validate, project | answers that are missing, malformed or at a boundary | nothing is settled without the answer that settles it; rankings are ordered |
| `jev_ask`, `tools/ask.py`, `tools/ask_state.py` | a process group, two drain threads, their buffers | compose, gate, run a command, ask | exits, deadline, overflow, cancellation and pipes still held, in any order | only gated commands run, their output is whole, their group dies with the call |
| File planning, `tools/files_judge.py` | none | globs, directories, links, skip list, budgets | the same file met several ways, bounds met part-way | each file is judged once, listed or counted, but for what a skip list prunes |
| Hooks and commands, `hook*.py`, `cli.py`, `git_diff.py`, `tools/gate_range.py` | a client, a git child with a timer | read an event, run git, judge, decide | failures, timeouts and kills between the steps | no silence that was not earned, nothing sent that the redactors match, whole diffs, nothing left behind |
| Confined agent runs, `evals/agent.py`, `evals/confinement/` | temp directories, containers, a volume, kept files, a broker with the keys | start, capture, scan, grade, scrub, tear down, reap | signals and kills at any step, partial transcripts, an agent that frames its own requests | verdicts rest on all that was piped; the broker's key stays home; only what cannot be removed is left |
| Relay, `evals/relay.py`, `evals/ab/proxy.py`, `evals/bench/proxy.py` | pending calls, a log, two threads | forward, record, abort | both threads fail or end at once, a disk that fails | each call has its row, each answer seen is logged, the relay ends |
| Config formats, dialect translation, serialization, calibration, scoring, charts | none | parsing, formatting, statistics | text and floating point | fixtures |

Interactions. A client's line enters through the transport (Server), whose handler asks
`providers/base.py` through the process-wide semaphore of `tools/base.py` (FileCalls),
which looks in the response cache (ResponseCache), then runs the retry loop
(ProviderRetry) around HTTP exchanges (ProviderExchange). `jev_extract` first runs its
pattern in the regex pool (RegexPool), which `server.py` warms before it serves and closes
after. The hooks are processes that make one such call and exit. The installer and the
harness are programs of their own that share only files with other processes.

The hazards of the code, each at its line and with the properties that would catch it,
are under `hazards` in `PROJECT.json`.

## 2. The modules

Each component has one module; `MC<module>.tla` adds the symmetry sets and the structured
constants that a `.cfg` cannot spell. Two of them, MCInstallAndStudy and MCCacheAndClaims, put
two components that share no state into one run: a variable that never changes says which of the
two moves, and the other stays where it began. A property of one component then holds of the run
exactly if it holds of the component alone. The theorems are in eight `_proofs` modules, some
for two components that the system keeps apart (section 4 says which). Between two awaits (event
loop) or two system calls (files), code is one atomic action. Definitions with names such as
`AttemptOwnCap` that no `Next` uses are the faulty variants the mutants put in.

### RegexPool

State: `waiting`, `permits`, `queue` are `_waiting` and the semaphore `_limit`; `idle`
is `_idle`; `pc[r]` says at which await request `r` is suspended; `slot[r]` is the
process it owns; `worker[s]` is the state of a process. A deadline is absolute in the
code, so time is one flag per request that rises once (`expired`). `Find`, `Admit`,
`Spawn`, `Ready`, `RunReturns`, `Reap` and so on are what `find` does from one await to
the next; the `Warm*` and `Close*` actions are `warm` and `aclose` as `serve` calls them;
the process actions are the worker's own loop, its `alarm`, its exit at end of input,
and death at any time. Cancelling is an action at every await the code can be cancelled
at; the kill is shielded and is not. Slots are process identities, reused once reaped.

### ProviderRetry

One `evaluate`. Time is discrete; `Tick` advances it, and may not pass a pending
deadline by more than `Lag`, the time an event loop may take to resume a task. An
attempt ends in success, one of the classified failures with or without a
`Retry-After`, or its own cap. The module leaves open what made an attempt fail;
ProviderExchange says so. `retry_delay` is exponential with jitter as a nondeterministic
choice of its range. The error the caller sees is the code `code_of` gives.

### ResponseCache

Processes (`Asks`) take one file-system call per step: stat, unlink, read, create the
staging file, write, rename, list, stat, unlink. A process may die at each of
them. A record remembers the request it answers and when it was written.

### Installer

Runs of the installer interleave with each other, with edits by the user or the agent,
and with kills. A config is reduced to the value of the entry the installer owns:
absent, foreign, or one written by a version with or without a literal key. The write
is the code's sequence: plan, compare, back up, stage, compare, rename, verify; the
ownership record is written once at the end. The clock only matters as the second in the
backup's name, so it advances where the stamp is taken, in `Confirm`.

### FileCalls

Concurrent calls of the three file-list tools. Each file is a task: waiting for the
call's fan-out, waiting for the process-wide cap, in flight, done, failed, cancelled. The
first failure cancels the siblings, and the call replies after all have unwound. The
headline action is the fold of the per-file actions with the files never asked.

### ClaimTools

`jev_verify` and `jev_gate` over one diff, from arguments to reply: evidence ids made
unique, questions chosen, each answer valid, invalid or of unknown confidence, rows,
headline, reason codes. Scores are integers `0..Scale`, where `Scale` stands for 1.0;
the policy only compares scores, so every order of score and threshold occurs at a
scale of 2. Ids are short sequences, so that a generated suffix can collide with
a caller's id.

### SpendLedger

The paid A/B study. Invocations of the harness share a directory: `ledger` is
`ledger.json`, `lock` the flock, `logs` and `result` the files a run leaves behind. An
invocation loads the ledger and its cap (`Load`), books the runs an earlier one left
behind (`Resume`), admits a pair (`NextPair`, `Blocked`), and takes each run through the
boundary, the agent, the grading and the booking. Each of these may fail in the ways the
code tells apart: `AgentRaises`, `IncurredStop`, `BookUnfinished`, `Interrupt` (Ctrl-C or
SIGTERM, which the code catches) and `Kill` (which it cannot). `paid` and `execs`
are history: what was really spent and how often a run's agent came to its end. An agent
that is at work when its invocation is killed outright has been paid too, but leaves
nothing on disk and is run again: `cut` and `lost` keep the account of those.

### ProviderExchange

Extends ProviderRetry: what the four `_send` methods make of one exchange. `Refuse` is
what fails before a request (credentials in the URL, the SDK missing), `_post` the request
with the hook that fixes the origin, `_reject_cross_origin` a redirect that is followed
or blocked, `_send` a response read by each provider's rules, `ConnectionFails` the
absence of one; `Loop` is what the retry loop does around them. Each step is one of
ProviderRetry or leaves its variables alone: `ImplementsRetry`.

### RequestLedger and Server

RequestLedger is the abstract specification of a server: a request accepted is settled
once, replied or dropped, while the door is open. Server is one process from `main` to its
exit. `Main` to `Startup` are the gates in their order; `phase` is the one it is at.
`inbox`, `line` and `writer` are the pipeline of `stdio_streams`, `h[r]` the handler of a
request: refused, running, asking, writing, done, dropped. The SDK's dispatcher and uvicorn
are external and get every choice the code has to live with. `SetupVerify` and
`SetupStore` are another process that runs `setup` meanwhile. `Ledger` maps `h` to the
ledger's status and `phase` to its door.

### Validation, Judgments, FilesPlan, AskCall

Each extends the one before. Validation is `validation/` as operators. Judgments is one call of
a one-question tool: `Jobs` are its parsed arguments, Jev answers anything of `RawChoices`,
`RawScores` and `Nouls` or leaves an answer out, and the projection is the code's. FilesPlan is
`plan` of `jev_files_judge`: a tree is a sequence of files with the file each resolves to, and
expansion, pruning, reading and the budgets follow the code's order. `Among` filters a listing,
`Deeper` is one segment of a glob; `Matches` and `StandsFor` are the reference: what an entry
means, path by path, without a walk. AskCall is `jev_ask`: composition, the budget with its
split suggestion, the gate, and the run of the command: the shell, a child in its group and a
stray that left it, two pipes with their drain threads, the deadline, the cap and a
cancellation.

### GitDiff and Hooks

GitDiff is the git child, its timer thread and its pipe, and what its output is split into: a
text is the set of kinds of material in it, a line remembers the file it came from. The kinds
are what the two redactors tell apart: secrets in a shell's forms, token formats, values in
double and in single quotes, and values that no pattern matches, such as one inside the
escaped quotes of a JSON string (`stringify_compact` makes those). A patch whose file name git
quotes takes its name from a line `+++ b/...` of the patch, an added line included, or from the
end of the header, so a store may go by another name (`_path_from_header`). The turns
of a transcript are the numbers of their lines. Hooks is one short-lived process (`hook gate`,
`screen`, `compact-cut`, `completion-hook`, `gate`, `judge`, and the tool `jev_gate_range`):
usage and stdin gates, settings, git, one bounded provider call, the decision and the exit
code.

### Canary, Capture, Broker, AgentRun

Canary says which transcripts void a run. Capture is `capture_output`: the agent or the
docker client of its container, a process it leaves behind with the pipes open, two reader
threads, cap, deadline and joins, and the stretch between `Popen` and the `try` in which a
signal leaves the process running.
Broker is the egress path of a confined agent, with its grant, allowlist and
deadlines. AgentRun composes them into the four forms of a run (on the host, preflight,
confined, probe), with what each step creates (`have`), what the kept files hold
(`records`), one SIGTERM or kill at any step, and the reaper of the next study. A confined
agent's container goes on after its client was killed (`AgentGoesOn`), unread, until the
teardown. Each removal of the cleanup may fail without anyone hearing of it (`stuck`). On the
host nothing confines the agent: it can read any login of the operator (`Readable`), whatever
the isolated environment holds.

### Relay

The upstream thread, the main thread and the server, with `abort` started by either. `at`
has one entry per thread; `rows` and `buf` are the log on disk and in the file object;
`faults` bounds the flushes that fail and the answers that are bad.

## 3. The runs

A property that is a conjunction of several named parts is checked as one; the parts
are in brackets.

| Run | Shows |
|---|---|
| `pool` | `PoolSafe` [`PermitsConserved`, `WaitingExact`, `NoLeakedWorker`, `NoSharedWorker`, `PoolBounded`]; `OutcomeHonest`; `EveryFindReturns`; `WorkersEnd` [`CloseReapsAll`, `OrphansEnd`]: after a close no process is left, and a worker whose server was killed ends too |
| `retry` | `RetrySafe` [`WithinHorizon`, `OutcomeHonest`, `RetriesEarned`]; `ExchangeHonest` [`StateStaysHome`, `OneRetryOwner`, `RetryBacked`, `AnswerBacked`]; `EvaluateEnds`; `ImplementsRetry`: with the four adapters, a call is still the loop that is proved |
| `installAndStudy` | `OwnedUnlessDisturbed`: an undisturbed install owns its entries although another target fails; `NothingLost` [`ForeignKept`, `KeyKept`, `ReplacedIsBackedUp`]; `SpendSafe` [`RunFitsCap`, `PaidOnce`]; `LedgerKept`: bookings stay and the recorded cap never rises |
| `cacheAndClaims` | `ReplaysHonest` [`NoTornEntry`, `ReplaysOwnRequest`, `ExpiredNotReplayed`, `ReplaysRecord`]; `DirectoryBounded` once the processes have come to rest; `IdsAreUnique`; `AutoEarned` [`GateAutoIsEarned`, `VerifyAutoIsEarned`, `CodesExplainAction`] |
| `files` | `CallsContained` [`InflightCapped`, `NothingLeftRunning`]; `ReplyEarned` [`EveryFileAccounted`, `AutoIsEarned`]; `EveryCallReturns` |
| `server` | `ImplementsLedger`; `ServerStops` after a signal or the end of input; `NothingOutlives` the process; `GatesHold` [`AuthorisedOnly`, `RunnableUnlessKeyChanged`]; `SpansCountExits`: every way out of a handler is counted once |
| `judgments` | `AnswersHonest` [`SettledIsBacked`, `RankingHonest`]; `CommandHonest` [`RunsOnlyGated`, `OutputComplete`]; `GroupDies`; `SplitWorks`; `PlanHonest`; `RunReturns` |
| `hooks` | `NoUnearnedPass`; `SentHonest` [`NothingSecretSent`, `JudgesWholeDiff`]; `NothingLeftBehind`; `HookEnds` |
| `agent` | `VerdictEarned`; `SecretsKept` [`RecordsClean`, `KeyStaysHome`]; `NothingLeft`; `AllEnds` |
| `relay` | `LogHonest` [`EveryCallLogged`, `AnswerIsLogged`]; `RelayEnds` |
| `verbatim` | violated: `VerbatimReplay`, a replay is the first answer |
| `noteAlone` | violated: `NoteAloneIsNoAuto`, a claim verified over a caller note alone is not `auto` |

### Where the code and its documents differ

The passing properties state what the code does guarantee; each of the following is where
that is less than a comment or a document says, or an oddity met while modelling. Two runs
check what the documents say, and TLC finds it violated:

- `verbatim`. `cache.py:5`: "Replay is verbatim, so every tool payload built from it is
  byte-identical to the first answer's"; so do `tools/base.py:160`,
  `docs/adr/0047-optional-response-cache-replays-verbatim.md:23` and
  `docs/reference/divergences.json:339`. `store` (`cache.py:180`) leaves out the `request_id`,
  which `frame` (`tools/base.py:107`) puts into the first payload. `ReplaysRecord` says what a
  replay is instead: the answer but for that id.
- `noteAlone`. `docs/adr/0067-evidence-metadata.md:10`: "A claim supported only by a
  `caller_note` is not `auto`"; `policy/claims.py:48`: "never auto on a caller note alone".
  Over a single item `jev_verify` asks for no source (`tools/verify.py:82`), so nothing
  demotes the claim; over several notes the answer `none` has the same effect.
  `VerifyAutoIsEarned` is about answers that name a source.

Comments and documents that promise more:

- `extract/worker.py:149`: the retry follows every failure of an idle worker, also one that
  took the job and died while it ran the pattern; the comment below it says "nothing
  ran". `OutcomeHonest` therefore bounds the runs of a pattern by two.
- `providers/base.py:293`: a first attempt that its own cap ends, with no time left for a
  back-off, is reported with the caller's seconds although the caller's time has not run
  out (comment at line 275).
- `evals/spend.py:114`: a cap lowered with `JEV_AB_MAX_USD` reaches the ledger only with
  the first booking; `docs/adr/0074-...:180` says it is persisted. `LedgerKept` is about
  the recorded cap.
- `hook_runtime.py:57`: invalid settings raise out of `load_settings`, so a required hook
  ends with a traceback and exit 1 instead of the one-line answer of the docstring above it;
  `NoUnearnedPass` is about processes that exit 0. `completion-hook` has the same way out
  in `server.main`.
- `tools/ask_state.py:394`: `docs/CONTEXT.md:114`, `docs/tools.md:287` and `tools/ask.py:69`
  promise first-fit or the fewest calls. The code only ever fills the last call: parts of 2, 2,
  1 and 1 under a capacity of 3 make three calls where two would do. `SplitWorks` says only
  that the split fits and loses nothing; `FewestInOrder`, which is proved and not run, that no
  cut of the same order has fewer calls.
- `tools/files_judge.py:315`: a file that a link reaches in a skip-listed directory is dropped
  without a row, where `docs/adr/0077-...:64` has every pruned path reported in `skipped`.
  `PlanHonest` excepts these files.
- `evals/spend.py:118`: the module's docstring says a run is "recorded whatever its outcome and
  never retried"; one whose harness is killed outright while the agent runs leaves no log, has
  been paid for, and is run again. `SpendSafe` allows for its cost (`lost`) and counts a run
  as done when its agent came to its end.
- `evals/confinement/launch.py:437`: the probe's container carries no label, although
  `OWNER_LABEL` says every container does; `NothingLeft` leaves the probe out of what the
  reaper finds.

Other observations:

- `extract/worker.py:122`: finds that have just taken a permit still count as waiting, so
  a burst larger than `queue_bound` is refused as saturated while workers are idle.
- `providers/retry.py:140`: a `Retry-After` of 0 is a delay of 0, where
  `docs/adr/0057-one-retry-owner-bounded-provider-retries.md` has strictly positive delays.
- `install/engine.py:632`: an install killed between a rename and `write_state` leaves an
  entry that no record owns, and `--remove` leaves it there.
- `install/fs.py:82`: an edit of the config between the last comparison and the rename is
  overwritten.
- `tools/gate.py:354`: a caller note whose id is `none` demotes the row, but its support is
  blanked before the reason codes are computed, so the gate says `review` without a code.
- `evals/spend.py:88`: an agent without a usable cost is charged the whole run bound and its
  Jev calls on top, a little more than the worst case a pair was admitted with; what is
  really paid stays within it.
- `evals/ab/run.py:630`: a `result.json` that a kill cut short makes every later `study` raise,
  although `book_outcome` reads past it.
- `tools/ask_state.py:320`: a process that left the group and floods a pipe between the check
  of the overflow flag and the check for live readers gets its output past the cap; the
  measure of the composed block mostly catches it. `OutputComplete` leaves this case out.
- `tools/files_judge.py`: an entry whose files are all skip-listed or already met leaves
  no row; neither does a glob that matches only a dangling link; a plain file named like a
  skip directory is silently passed over by globs; a link out of the scope that is met twice
  has two rows.
- `cli.py:552`, `cli.py:639`: `completion_range` runs git outside the `try` and without a
  timeout. A hook that waits for it may wait for ever (`RangeHangs`), and `HookEnds` excepts it.
- `git_diff.py:184`: the path of a patch whose header git quotes is read from any line that
  starts with `+++ b/`, an added line `++ b/name` included, or else from the last ` b/` of the
  header; a secret store of such a name may pass `_guarded` as another file. `NothingSecretSent`
  excepts stores with quoted names.
- `redact_action.py:39`: no rule matches a value in single quotes, or in the escaped quotes of a
  JSON string, after a secret's name; `credential_literal.py` misses the latter too. What leaves
  is free of what its path's redactor matches, and of nothing else.
- `credential_literal.py`: of a private key only the first line is redacted; `GitDiff`'s
  "pem" is that line. Events are clipped before they are redacted.
- `evals/confinement/launch.py`: a `docker` that times out inside `teardown` skips the
  rest of the cleanup, and so does a SIGTERM that lands there (`torn` in AgentRun); a
  timed-out grading container is left to end by itself; the refusals of `_confinement` after
  `mkdtemp` leave an empty directory; a `docker rm` or `volume rm` that fails goes unnoticed
  (`stuck`); the deadline kills the docker client, and the container works on, unread, while
  its tree is graded; a cut transcript is not written to the run's
  directory in confined mode; `diff.patch` is scrubbed but not scanned.
- `evals/agent.py`: after a normal exit of the leader, a process it left in its group is
  not killed; a SIGTERM between `Popen` (743) and its `try` (775) leaves the agent running.
  `models-store.json` is copied whole (899), the login keychain is linked (904), and nothing
  else of the host is out of an agent's reach (498); only the run's own key is scrubbed from
  its records, so another login that the agent printed stays in them (`RecordsClean`).
- `evals/relay.py`: a call sent after the server's end of output was handled has no row;
  the process may end while the upstream thread still writes rows; two failures, or a
  failure and a reused id, can lose a row; a row whose flush failed may appear twice.
  `EveryCallLogged` names these exceptions. With two failures an answer the client has seen may
  have no row either: the upstream thread's close gives up a row, and the answer then takes the
  call off the list the fallback would have written (`AnswerIsLogged` excepts this).
- `evals/ab/proxy.py`: when a client reuses the id of a call that is still open, the earlier
  call's answer is recorded under the later one.

### Bounds, and why they are enough

- `pool`: two requests, one permit, a queue of one, two slots: one request finishing or
  running and one queued, arriving or cancelled, a worker dying and its replacement. The
  run checks liveness, so it uses no symmetry; the safety invariants are proved for every
  number of requests and slots and every size (section 4).
- `retry`: three attempts, a per-attempt cap of 3, a budget of 10 and timeouts on both
  sides of the cap and of the budget, so each of the three bounds is the smallest in some
  behaviour; timers up to one tick late; each provider, one without its SDK and one with
  credentials in its URL; one response per case the adapters tell apart, and one redirect
  more than may be followed. The loop alone is proved for every policy.
- `cacheAndClaims`, the cache: two processes, two requests that share a text but not an endpoint,
  a cap of one entry, a lifetime of one tick and a clock of two, so each entry can be fresh, at
  the boundary and expired; the first answers have an id (`verbatim` has both kinds).
- `installAndStudy`, the installer: two runs over two configs, one of which the other program can
  change, one foreign edit, a clock of one tick (two backups may fall into the same second).
- `files`: two calls over two files each, a fan-out of one and one permit for the process, so a
  file waits for its sibling, and behind it for the other call, while one is cancelled or
  fails. Calls recur, so a permit lost in one call is missed in the next. The invariants
  are proved for every fan-out and number of permits.
- `cacheAndClaims`, the claims: one claim (the theorems hold for any number), up to three
  evidence items whose ids collide with each other, with suffixes, with fallbacks and with
  reserved ones, and thresholds in every order.
- `installAndStudy`, the study: three invocations, the shortest history in which a second one
  resumes what the first left behind and a third what the second did; they start in the
  order of their numbers, which only names them. Two pairs, a run bound of 1, a ceiling of 3 and
  operator caps of 2 and 5, one below and one above it: the second pair fits, or not,
  depending on what the first cost. Jev calls are free here; the theorems hold for every
  bound. `MaxRuns` is the size of the plan, as in the code.
- `server`: fourteen configurations, one per case a gate tells apart; two requests, so one
  can be in flight, cancelled or being written while the other is read; one line in the
  client's pipe; a snapshot every two calls.
- `judgments`: at most three items, candidates or classes and two fields, with ids that
  collide with generated ones; for each choice, answers that are certain, at and past
  each threshold and tolerance, trailing, incomplete, out of range and absent; a tree of
  eleven files with links, one of them under a skip-listed name, one into a skip-listed
  directory and one out of the scope, and every list of one or two of the nineteen entries; a
  command that writes up to twice its cap.
- `hooks`: every event shape that a branch of the hooks tells apart, each under every
  environment; diffs at, under and over the byte cap with a git that is slow, fails or
  hangs; each kind of material, as text and as JSON; a store whose name git quotes, with and
  without an added line that names another file; a `git diff --quiet` that does not return.
- `agent`: two events against a cap of one, one request through the broker, one signal, and
  `MaxRefusals` removals that fail by themselves.
- `relay`: two lines, two faults, both recorders. `FirstFixed` fixes the id and the tool of
  the first line, which are interchangeable with the others.

### Fairness, and what justifies it

- RegexPool: the event loop resumes a task whose await is over; deadlines pass; a
  killed process ends and a started one exists; a worker's alarm fires; an orphan that reads
  its input sees the end of it. Nothing is assumed of a pattern that runs
  (it may never return) or of clients.
- ProviderRetry: time passes, a sleep ends, an attempt is ended by its cap if nothing
  else ends it. The provider need not answer.
- FileCalls: the provider answers or fails each request it was sent, which is what
  ProviderRetry's `EvaluateEnds` establishes, and the loop resumes tasks. The semaphore
  is first-in first-out in asyncio and anyio.
- ProviderExchange: as ProviderRetry; no server owes a response.
- Server: tasks that can run are run, frames are flushed (the client reads), and a handler
  ends: `evaluate` does, by `EvaluateEnds`. Nothing is assumed of what the client sends.
- AskCall: the thread that runs the command goes on, and its waits and joins time out;
  nothing of the command, its children or the drain threads.
- Hooks: the process goes on and the timer of the diff fires; git may hang. Nothing is assumed
  of the `git diff --quiet` that has no timer: `RangeHangs` leaves the state as it is, for ever.
- AgentRun: the harness and its reader threads go on, deadlines pass and the broker's own
  timer fires; nothing of the agent. The harness may be killed all the same: that is a step.
- Relay: both threads go on; a server ends once its input or output has ended or it is
  killed. It need not heed SIGTERM nor answer.
- ResponseCache, Installer, ClaimTools and SpendLedger assume no fairness: a process may stop
  anywhere.

`CHECK_DEADLOCK FALSE` stands where the system may really come to rest with its
bounded work done (all finds returned, all installers ended, a run over).

## 4. The proofs

TLAPS proves the following for every value of the constants, from the named
assumptions only (finite sets of requests, positive sizes, and the like). Each proof has
the same shape: an inductive invariant `IInv` whose parts are named for what they say, a
lemma per action that keeps it, and the properties read off it. The parts were checked by
TLC on the runs' instances before they were proved.

**RegexPool_proofs.** `IInv` is `TypeOK /\ AdmissionInv /\ MainInv /\ OwnerInv /\ CountInv`.
None of the checked invariants is inductive alone. `PermitsConserved` needs to know that
nobody waits while a permit is free and that the queue lists exactly the queued
requests, or a release could grant a request that already has a permit
(`AdmissionInv`). `NoSharedWorker` and `NoLeakedWorker` need each other, and need
that a request has a slot exactly at the awaits in `HasSlot` (`OwnerInv`), and that
nothing runs before the warm-up is over and nothing is parked after close
(`MainInv`). `PoolBounded` needs the count of parked workers plus owners,
the starts under way included (`CountInv`): a request that owns a worker holds a permit, and
an idle worker is only replaced by one that took its place. Theorems: `TypeCorrect`,
`PermitsAreConserved`, `WaitingIsExact`, `WorkersAreNotShared`, `WorkersAreNotLeaked`,
`ClosedPoolIsEmpty`, `PoolIsBounded`, and `PoolIsSafe`, their conjunction, which is the
property of the run. `OutcomesAreHonest` (`OutcomeHonest`) adds `HistoryInv`: how often a
pattern may have begun at each await, given whether its worker is fresh and has taken the
job, and that a parked worker has none.

**ProviderExchange_proofs.** First the retry loop: `TypeCorrect`, `EvaluateIsBounded`
(never running later than the horizon plus the lag), `NoAttemptIsEmpty` (with no lag),
`OutcomeIsHonest`, `OnlyTransientIsRetried`, and `RetryIsSafe`, the run's `RetrySafe`. The
invariant relates the deadline of each await to the horizon: the loop sleeps only if the
delay ends before it, and caps each attempt by what is left. Then the loop with its
adapters. `ExchangeIsRetry`: every step of an exchange is a step of the retry loop or leaves
it alone, the safety part of `ImplementsRetry`; what is needed is that the failures and
hints a response turns into are among those the loop allows. `ExchangeIsSafe` carries
`RetrySafe` over. `ExchangeIsHonest` proves the run's `ExchangeHonest`, with the loop's
invariant and `ExchangeInv`: a request is in flight only inside an attempt, an attempt
that has not sent has one request to go, and an attempt under way has read no response.
The assumptions say that the hints are those of the responses and that a model has a name.

**ClaimTools_proofs.** `TypeCorrect` (the thresholds in use are ordered, whatever the
caller gave), `GateEarnsAuto`, `VerifyEarnsAuto`, `CodesAccountForAction`, and
`AutoIsAlwaysEarned`, the run's `AutoEarned`: over every scale, number of claims and answer.
The argument follows the code: a row is `auto` only through the tier function, the headline
is the worst row, and each demotion adds its code. `SourcesNameOneItem` proves
`IdsAreUnique` for lists of any length. A free suffix exists because the ids taken are
fewer than the suffixes tried (`FreshIsFree`, a pigeonhole), and the recursive function that
hands out ids is defined and distinct on every prefix (`UniqueIds`); both are inductions,
done by a least counterexample. It is assumed that raw ids are sequences.

**ToolCalls_proofs.** FileCalls: `CallsAreContained` and `RepliesAreEarned`, the run's two
invariants, for finitely many calls, any number of files, any fan-out and any number of
permits. `InflightCapped` alone is not inductive: a release hands its permit to the head of the
queue, so `SemaphoreInv` says that the queue holds tasks that wait, each once, and counts the
calls under way as a cardinality. `ReplyEarned` needs `CallInv`: an open scope has cancelled
nobody, a scope closed by a failure has a failed task, and a task that is done has an action.
The waiting queue and the cap are the only things calls share, so a step of one call keeps the
others' parts.

AskCall: `TheGroupDies` and `CommandsAreHonest`, the run's `GroupDies` and `CommandHonest`, for
every job, answer of the gate, amount of output, cap and chunk. `GroupInv` says which processes
there can be at each point of the call and of the thread that runs the command: once the group
is killed nothing in it runs, and the call goes on only after that. `GatedInv` says that a
command about to run, or run, had Jev's word and the operator's; the word is stated in terms of
the answer, so its proof goes through the validation of a choice. `OutputInv` says that a drain
thread that ended has read its pipe to the end or past the cap, and that a run whose output is
taken ended in time. It is assumed that a command's text is made of the kinds of material the
denylist tells apart, and that a read takes at least one unit. `AskTypes` adds the types of
the processes, flags and pipes: what a pipe holds and has yielded never exceeds what was written.

Judgments: `AnswersAreHonest`, the run's `AnswersHonest`, for every job, answer and threshold.
`JudgedInv` says which jobs and matches are at hand at each stage; what makes a settled row
backed is a fact about each projection. One lemma per tool (`ClassifyHonest` to `RerankHonest`)
follows it through the validation of a choice, and through the caller's ids. `_descending` puts a
candidate where as many others are ahead of it as its place says; `RanksAreDistinct` (two
candidates are never equally far behind) makes that an order, and `KeepsTheBest` says that
cutting it leaves nothing better out. A generated id is free by the pigeonhole `NameIsFree`. It
is assumed (`JudgmentsAssumption`) that lists are finite sequences and counts natural numbers.

`SplitsWork` proves `SplitWorks`, for every list of parts and every budget, and
`SplitsAreFewestInOrder` that among the cuts of the same order none has fewer calls. The
filling of the last call is greedy, and the proof is that it stays ahead (`Filled`): after each
part, any cut whose calls fit has used more calls, or as many and its last call holds all that
the last greedy call holds. `SplitIsBest` is the last part's case. When a part alone is over the
capacity no cut fits, and no split is told. The names of an asked state are distinct because
`FreeNames` is.

`PlansAreHonest` proves `PlanHonest`, for every tree, every list of paths and every cap; the
files that the code prunes unsaid are exempt in the theorem as in the property. Each
step of the expansion is characterised by the set of files it finds: a walk (`WalkFinds`), one
level of a glob (`DeeperFinds`, `LevelFinds`), its frontier (`FrontierFinds`) and the whole
pattern (`GlobFinds`), against `StandsFor`, whose `Matches` counts path components and never
walks. Then the plan's bookkeeping: a plan in the making never takes back a candidate or a row
(`Later`), an expanded entry has every file it asks for among the candidates unless discovery
stopped (`ExpandKeeps`), and the reader misses no more candidates than it counts
(`ReadAllKeeps`). `PlanAssumption` says what a tree is: every directory on the way to a file is
one, and no file has the path of a directory. The first attempt failed for a good reason: the
reference said that a trailing `**` stands for files, while the code takes it for directories,
which differ for a link with a skip-listed name; TLC found it once the tree held such a link,
and `StandsFor` now says what the code does.

**ResponseCache_proofs.** `ReplaysAreHonest` and `DirectoryIsBounded`, for any number of
processes, staging names and crashes and any finite, non-empty set of requests. What makes
the first inductive is that a staging name belongs to one process until it is renamed or
swept (`StageInv`), that what is under an entry's name is whole and of that digest
(`EntryInv`), and what each process remembers at each await (`AskInv`). The second is
about unlocked evictions that overlap: `BoundInv` says that, unless a crash is owed an
eviction, entries over the cap are covered by a process that has yet to list the
directory, or that listed it and will remove enough; the last process to finish covers
itself.

**CommandLine_proofs.** Installer: `NothingIsLost`, an action property, and
`OwnershipIsRecorded`, for any number of runs, targets, versions and keys. A plan is sound for
the config it was made for (`PlanInv`: it touches no foreign entry unforced and keeps a stored
key), and at the rename that config is on disk and in the backup, or the run has been raced or
shares its second (`FileInv`). So the three parts of `NothingLost` are facts about the plan.
For `OwnedUnlessDisturbed`, an entry an installer wrote is recorded in the memory of a run that
will save it, or in the state file and in every run that will rewrite that file (`OwnInv`);
with no run under way only the state file is left. It is assumed that the marker for nothing is
not a target, a number, an entry or a record.

Hooks: `PassesAreEarned`, `SentIsHonest` and `NothingIsLeftBehind`, the run's three invariants,
for every set of events, environments, answers and replies. `OwnedInv` says that the git child
lives only while it is read and the client only while Jev is asked, `DiffInv` that a git that
exited well has printed all it had, `SentInv` that what has left is redacted and that nothing
has before the question is built, and `AskedInv` that a gate which asks found no evidence to
deny and that the reply at hand is one of the tool that was called. The operators carry most of
it: `Sure` states, in terms of what Jev said, when `_outcome` may allow, and the proof goes
through `validate_choice`, the confidence floor and the thresholds; what `_guarded` and
`_redacted` let through, and what they miss, is read off GitDiff's lines. It is assumed that a
reply has the fields its tool's decision reads.

**Evals_proofs.** SpendLedger: `SpendIsSafe` and `LedgerIsKept`, for any number of invocations,
pairs, bounds and caps. `RunFitsCap` compares what was really paid with the cap, while the code
compares what is booked. `RunInv` says that a run whose agent came to its end has logs or a
booking and is never recorded or booked below its cost, `CutInv` that what agents cost which a
kill cut off at work (`lost`) is at most a bound for each of them, `HolderInv` that the lock's
holder has the ledger as it is on disk and every run with logs booked but the one at hand, and
`PendingInv` that what was paid and the runs still admitted fit the cap. Sums over runs are the
cardinalities of sets of units (`Units`), so that the facts about finite sets apply to them.

AgentRun: `VerdictsAreEarned`, `SecretsAreKept` and `NothingOfItIsLeft`, for every set of
transcripts, requests and upstream answers, any cap and every subset of the four forms of a run.
`StageInv` says how far which form can be, and where the leader and the reader of its output are
then. `TranscriptInv` carries the verdict: a reader that is done has kept all that was written
unless the cap or a join that gave up says otherwise, nothing is written once the reader is
done, and so the scan that decides `escape` saw all that went into the pipe. `HaveInv` carries
the cleanup: what a run may have built (`Items`) is among the steps still ahead (`Remaining`),
or was refused (`stuck`), with the broker and the unscrubbed records, so that the last step
leaves nothing but refusals; a signal inside it marks the run torn. `SecretInv` says that no
answer of the broker shows a credential and that what a confined agent can print is bounded by
what it was given; of an agent on the host it says only that the scrub is still ahead.

Relay: `LogIsHonest` and `RelayTypes`, for any number of lines, ids, tools and faults, and
either recorder. The hard part of `LogHonest` is the one failure it allows. `KeptInv` says where
a call that reached the server can be: in the log, among the pending calls, among the rows
that a closing thread has yet to write, or given up by a main thread whose abort will make
good for it. `CalmInv` and `FailedInv` say what cannot have happened before the failure and
after it, `NotedInv` that the calls the fallback would name are the ones without an answer's
row, and `OnceInv` that, until something fails, no call is in two of these places. The
fallback counts rows per tool, so its part of the proof counts too (`Counted`).

**Server_proofs.** `SpansAreCounted`, `NothingIsLeft` and `GatesAreKept`, the run's
invariants, for any number of requests and any set of settings, and `LedgerImplemented`:
every step of the server is a step of RequestLedger or leaves it alone, the safety part
of `ImplementsLedger`. `LifeInv` says what exists in each phase (no pool before the gates, no
handler after the close), `LineInv` that a request in the pipe or in the reader's hand has
no handler yet, so that none is accepted twice, and `GateInv` what each gate has
established and a later `setup` cannot undo. Tokens are absent, short or long enough.

**Only model-checked.** Liveness (`EveryFindReturns`, `WorkersEnd`, `EvaluateEnds`,
`EveryCallReturns`, `ServerStops`, `RunReturns`, `HookEnds`, `AllEnds`, `RelayEnds`) and the
fairness parts of `ImplementsRetry` and `ImplementsLedger`, which need `ENABLED`. Every
invariant and action property that a run checks is proved. The type invariants of Installer,
Server, Hooks and AgentRun are not stated as theorems; the proofs carry shapes of
their own, without the bounds on edits and lines.

## 5. Simplifications

- RegexPool: patterns, texts and matches are left out; a deadline is a flag; the wait for
  a killed process always ends.
- ProviderRetry: time is in whole units.
- ProviderExchange: a request's body is left out, a response's is the fields that are read;
  the SDK's own parsing is external; a timeout of the transport is the attempt's deadline.
- ResponseCache: the modification time is the time of writing; listing a directory is one
  step; errors of `unlink` other than a missing file are left out; a staging name is not
  reused while a process still remembers it.
- Installer: the exit code is left out; copying the backup is one step; an edit never
  restores older bytes; the config's text is one entry value, the format-preserving edits
  belong to the tests.
- FileCalls: what a request asks and what its answer says are reduced to its action.
- SpendLedger: money is in whole units; the two log files are written in one step; the study
  looks at the result files after the bookings of `runs_remain`, the order of `live`.
- ClaimTools: the sanitizing of ids and the arithmetic on probabilities are left out;
  the review's rubric is its composite score, `safe_to_apply` and its minimal confidence.
- Server: the SDK's session handling is external; a request is a tool call; the periodic
  metrics line is a counter.
- Judgments: texts are sizes, probabilities integer percents, so a tolerance of 0.01 is one
  percent; the matching of a pattern gives any of `Finds`.
- FilesPlan: a directory is not a link; a tree does not change while it is walked.
- AskCall: output is in units of which one read takes `Chunk`; one child and one stray stand
  for all of them.
- Hooks: a text is the set of kinds of material in it, a redactor takes a kind out of it or does
  not; the rendered reason is left out, and so is a SIGINT while git is read.
- AgentRun: a path is one of the places the canary tells apart; docker does what it is asked,
  refuses, fails or hangs. What a host agent can read is one kind, `login`, beside the run's own
  key; that a container goes on after its client is one flag (`overrun`) and its requests to the
  broker.
- Relay: a client that goes away and a full pipe are left out.

## 6. Not modelled, and the plan

Not modelled, for good: the config formats and the installer's front end, the
JavaScript-compatible serialization and the regex dialect's translation (character-level
conversions that fixtures test); calibration and offline scoring (floating-point
statistics); charts and reports; the doctor's report and the validation of single settings
(sequential, no state). The bench (`evals/bench/run.py`) repeats the study's protocol without
its ledger.

Planned, in this order:

1. *ToolCall*: an abstract specification of one call (asked, answered or failed once), with
   ProviderRetry and ResponseCache under the process-wide cap shown to implement it.
2. The bench's runs beside the study's, if they come to share the ledger.
