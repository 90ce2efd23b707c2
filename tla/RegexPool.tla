------------------------------- MODULE RegexPool -------------------------------
(***************************************************************************)
(* The pool of killable regex workers, extract/worker.py                   *)
(* (ProcessRegexExecutor), with the worker process' own loop.              *)
(*                                                                         *)
(* The pool lives on one event loop: what happens between two awaits is    *)
(* one atomic action here, and every await is a point where another        *)
(* request, the closing server, a deadline or a cancellation may step in.  *)
(* The worker processes run in parallel and may die at any time.           *)
(*                                                                         *)
(* A request is one call of `find`; its deadline is absolute, so time is   *)
(* one flag per request that rises once.  Patterns, texts and matches are  *)
(* abstracted away: a worker that takes a job answers, never answers, or   *)
(* dies.                                                                   *)
(***************************************************************************)
EXTENDS Integers, Sequences, FiniteSets

CONSTANTS Requests,    \* the calls of `find`
          Slots,       \* process identities; a reaped one may be reused
          NoSlot,
          Size,        \* workers in the pool
          QueueBound   \* callers admitted but not yet holding a slot

ASSUME RequestsAssumption == IsFiniteSet(Requests)
ASSUME SlotsAssumption == IsFiniteSet(Slots) /\ NoSlot \notin Slots
ASSUME SizeAssumption == Size \in Nat \ {0}
ASSUME QueueBoundAssumption == QueueBound \in Nat

VARIABLES alive,     \* the server process exists
          main,      \* what the server's own task does: warm, serve, close
          warmSlot,  \* the worker `warm` is starting
          closed,    \* _closed
          waiting,   \* _waiting
          permits,   \* the value of _limit
          queue,     \* the waiters of _limit, in arrival order
          idle,      \* _idle; its last element is popped first
          closing,   \* the workers `aclose` has taken and not yet killed
          pc,        \* where each request is suspended
          slot,      \* the worker a request owns
          fresh,     \* the request started that worker itself
          outcome,   \* what `find` returns, or will once its worker is reaped
          expired,   \* the request's deadline has passed
          cancelled, \* the request's task was cancelled
          worker,    \* the state of each process
          runs       \* how many workers began the request's pattern (history)

server == <<main, warmSlot, closed, closing>>
admission == <<waiting, permits, queue>>
request == <<pc, slot, fresh, outcome>>
vars == <<alive, server, admission, idle, request, expired, cancelled, worker, runs>>

(* The awaits of `find`: the semaphore's checkpoint with the permit taken  *)
(* ("yield"), its queue, the permit handed over, the spawn, the worker's   *)
(* ready byte, the worker's reply, and the shielded kill.                  *)
Admitting == {"yield", "queued", "granted"}
Owning == {"spawning", "starting", "running", "killing"}
PCs == {"idle", "done"} \cup Admitting \cup Owning
HasSlot == {"starting", "running", "killing"}

(* MatchResult: Matches, Timeout, Saturated, Invalid(NO_RESULT) and        *)
(* Invalid(NOT_STARTED), or the cancellation; "retry" is a failed attempt  *)
(* on an idle worker.                                                      *)
Outcomes == {"none", "matches", "timeout", "saturated", "no_result", "not_started",
             "cancelled", "retry"}

WorkerStates == {"none", "starting", "ready", "busy", "replied", "dead"}

Live == {s \in Slots : worker[s] # "none"}
Elems(seq) == {seq[i] : i \in DOMAIN seq}
Holders == {r \in Requests : pc[r] \in {"yield", "granted"} \cup Owning}
Waiters == {r \in Requests : pc[r] \in Admitting}
Owners == {r \in Requests : pc[r] \in Owning}

(* `serve` starts the pool warm before any transport runs; the command     *)
(* line serves from a cold pool.                                           *)
Init ==
  /\ alive = TRUE
  /\ main \in {"warming", "serving"}
  /\ warmSlot = NoSlot
  /\ closed = FALSE
  /\ waiting = 0
  /\ permits = Size
  /\ queue = <<>>
  /\ idle = <<>>
  /\ closing = <<>>
  /\ pc = [r \in Requests |-> "idle"]
  /\ slot = [r \in Requests |-> NoSlot]
  /\ fresh = [r \in Requests |-> FALSE]
  /\ outcome = [r \in Requests |-> "none"]
  /\ expired = [r \in Requests |-> FALSE]
  /\ cancelled = [r \in Requests |-> FALSE]
  /\ worker = [s \in Slots |-> "none"]
  /\ runs = [r \in Requests |-> 0]

--------------------------------------------------------------------------------
(* The semaphore: release hands the permit to the longest waiter.          *)
Release(r) ==
  \/ /\ queue = <<>>
     /\ permits' = permits + 1
     /\ pc' = [pc EXCEPT ![r] = "done"]
     /\ UNCHANGED queue
  \/ /\ queue # <<>>
     /\ pc' = [pc EXCEPT ![r] = "done", ![Head(queue)] = "granted"]
     /\ queue' = Tail(queue)
     /\ UNCHANGED permits

(* `find` returns `out` and its `finally` releases the permit. *)
Finish(r, out) ==
  /\ Release(r)
  /\ outcome' = [outcome EXCEPT ![r] = out]

(* `find` returns `out` without ever having held a permit. *)
Refuse(r, out) ==
  /\ pc' = [pc EXCEPT ![r] = "done"]
  /\ outcome' = [outcome EXCEPT ![r] = out]

(* slot.kill(): SIGKILL now, reaped at the end of the shielded scope. *)
Kill(r, out) ==
  /\ pc' = [pc EXCEPT ![r] = "killing"]
  /\ outcome' = [outcome EXCEPT ![r] = out]
  /\ worker' = [worker EXCEPT ![slot[r]] = "dead"]

(* Why a request's await raised: its budget ran out or its task was        *)
(* cancelled.                                                              *)
Interrupt(r, out) ==
  \/ expired[r] /\ out = "timeout"
  \/ cancelled[r] /\ out = "cancelled"

--------------------------------------------------------------------------------
(* find, up to its first await.  The semaphore raises at once in a spent   *)
(* or cancelled scope, takes a free permit and yields, or queues.          *)
Find(r) ==
  /\ alive
  /\ main \in {"serving", "closing", "closed"}
  /\ pc[r] = "idle"
  /\ \/ /\ closed
        /\ Refuse(r, "not_started")
        /\ UNCHANGED admission
     \/ /\ ~closed /\ waiting >= QueueBound
        /\ Refuse(r, "saturated")
        /\ UNCHANGED admission
     \/ /\ ~closed /\ waiting < QueueBound
        /\ \E out \in {"timeout", "cancelled"} : Interrupt(r, out) /\ Refuse(r, out)
        /\ UNCHANGED admission
     \/ /\ ~closed /\ waiting < QueueBound /\ ~expired[r] /\ ~cancelled[r]
        /\ waiting' = waiting + 1
        /\ \/ permits > 0 /\ permits' = permits - 1
              /\ pc' = [pc EXCEPT ![r] = "yield"] /\ UNCHANGED queue
           \/ permits = 0 /\ queue' = Append(queue, r)
              /\ pc' = [pc EXCEPT ![r] = "queued"] /\ UNCHANGED permits
        /\ UNCHANGED outcome
  /\ UNCHANGED <<alive, server, idle, slot, fresh, expired, cancelled, worker, runs>>

(* A queued caller's deadline passes or its task is cancelled. *)
LeaveQueue(r) ==
  /\ alive
  /\ pc[r] = "queued"
  /\ \E out \in {"timeout", "cancelled"} : Interrupt(r, out) /\ Refuse(r, out)
  /\ waiting' = waiting - 1
  /\ \E i \in DOMAIN queue :
       /\ queue[i] = r
       /\ queue' = SubSeq(queue, 1, i - 1) \o SubSeq(queue, i + 1, Len(queue))
  /\ UNCHANGED <<alive, server, permits, idle, slot, fresh, expired, cancelled, worker, runs>>

(* A caller interrupted after the permit was handed to it gives it back. *)
ReturnGrant(r) ==
  /\ alive
  /\ pc[r] = "granted"
  /\ \E out \in {"timeout", "cancelled"} : Interrupt(r, out) /\ Finish(r, out)
  /\ waiting' = waiting - 1
  /\ UNCHANGED <<alive, server, idle, slot, fresh, expired, cancelled, worker, runs>>

(* The permit is held: `_find` checks the budget, then pops an idle worker *)
(* or begins to start one, without looking at _closed again.               *)
Admit(r) ==
  /\ alive
  /\ pc[r] \in {"yield", "granted"}
  /\ waiting' = waiting - 1
  /\ \/ /\ expired[r]
        /\ Finish(r, "timeout")
        /\ UNCHANGED <<idle, slot, fresh>>
     \/ /\ ~expired[r] /\ idle # <<>>
        /\ slot' = [slot EXCEPT ![r] = idle[Len(idle)]]
        /\ idle' = SubSeq(idle, 1, Len(idle) - 1)
        /\ pc' = [pc EXCEPT ![r] = "running"]
        /\ UNCHANGED <<permits, queue, fresh, outcome>>
     \/ /\ ~expired[r] /\ idle = <<>>
        /\ pc' = [pc EXCEPT ![r] = "spawning"]
        /\ fresh' = [fresh EXCEPT ![r] = TRUE]
        /\ UNCHANGED <<permits, queue, idle, slot, outcome>>
  /\ UNCHANGED <<alive, server, expired, cancelled, worker, runs>>

(* _open_shielded returns a process: neither a deadline nor a cancellation *)
(* can leave it without an owner.                                          *)
Spawn(r) ==
  /\ alive
  /\ pc[r] = "spawning"
  /\ \E s \in Slots :
       /\ worker[s] = "none"
       /\ worker' = [worker EXCEPT ![s] = "starting"]
       /\ slot' = [slot EXCEPT ![r] = s]
  /\ pc' = [pc EXCEPT ![r] = "starting"]
  /\ UNCHANGED <<alive, server, admission, idle, fresh, outcome, expired, cancelled, runs>>

(* The spawn raised OSError: there is no process to own. *)
SpawnFails(r) ==
  /\ alive
  /\ pc[r] = "spawning"
  /\ Finish(r, "not_started")
  /\ UNCHANGED <<alive, server, waiting, idle, slot, fresh, expired, cancelled, worker, runs>>

(* Fault: a start cut short by the deadline or a cancellation kills nothing. *)
StartDropsSlot(r) ==
  /\ alive
  /\ pc[r] = "starting"
  /\ \E out \in {"timeout", "cancelled"} : Interrupt(r, out) /\ Finish(r, out)
  /\ slot' = [slot EXCEPT ![r] = NoSlot]
  /\ UNCHANGED <<alive, server, waiting, idle, fresh, expired, cancelled, worker, runs>>

(* Fault: the wait for the ready byte has no budget. *)
StartWithoutBudget(r) ==
  /\ alive
  /\ pc[r] = "starting" /\ worker[slot[r]] = "ready"
  /\ pc' = [pc EXCEPT ![r] = "running"]
  /\ UNCHANGED <<alive, server, admission, idle, slot, fresh, outcome, expired, cancelled, worker, runs>>

(* _start: the ready byte arrived, or the slot is killed first. *)
Start(r) ==
  /\ alive
  /\ pc[r] = "starting"
  /\ \/ /\ worker[slot[r]] = "ready"
        /\ pc' = [pc EXCEPT ![r] = "running"]
        /\ UNCHANGED <<outcome, worker>>
     \/ worker[slot[r]] = "dead" /\ Kill(r, "not_started")
     \/ \E out \in {"timeout", "cancelled"} : Interrupt(r, out) /\ Kill(r, out)
  /\ UNCHANGED <<alive, server, admission, idle, slot, fresh, expired, cancelled, runs>>

(* Fault: _closed is not read after the await. *)
RunReturnsAlwaysParks(r) ==
  /\ alive
  /\ pc[r] = "running"
  /\ worker[slot[r]] = "replied"
  /\ idle' = Append(idle, slot[r])
  /\ worker' = [worker EXCEPT ![slot[r]] = "ready"]
  /\ slot' = [slot EXCEPT ![r] = NoSlot]
  /\ Finish(r, "matches")
  /\ UNCHANGED <<alive, server, waiting, fresh, expired, cancelled, runs>>

(* The reply is complete: park the worker and return, unless closed. *)
RunReturns(r) ==
  /\ alive
  /\ pc[r] = "running"
  /\ worker[slot[r]] = "replied"
  /\ \/ /\ ~closed
        /\ idle' = Append(idle, slot[r])
        /\ worker' = [worker EXCEPT ![slot[r]] = "ready"]
        /\ slot' = [slot EXCEPT ![r] = NoSlot]
        /\ Finish(r, "matches")
     \/ /\ closed
        /\ Kill(r, "matches")
        /\ UNCHANGED <<permits, queue, idle, slot>>
  /\ UNCHANGED <<alive, server, waiting, fresh, expired, cancelled, runs>>

(* Fault: a fresh worker's failure is retried too. *)
RunFailsAlwaysRetries(r) ==
  /\ alive
  /\ pc[r] = "running"
  /\ worker[slot[r]] = "dead" /\ Kill(r, "retry")
  /\ UNCHANGED <<alive, server, admission, idle, slot, fresh, expired, cancelled, runs>>

(* The pipe broke, or the budget or the task ended first.  A worker that   *)
(* had been idle is replaced once; a fresh one's failure is the answer.    *)
RunFails(r) ==
  /\ alive
  /\ pc[r] = "running"
  /\ \/ worker[slot[r]] = "dead" /\ Kill(r, IF fresh[r] THEN "no_result" ELSE "retry")
     \/ \E out \in {"timeout", "cancelled"} : Interrupt(r, out) /\ Kill(r, out)
  /\ UNCHANGED <<alive, server, admission, idle, slot, fresh, expired, cancelled, runs>>

(* The killed worker is reaped: the request starts a fresh one or returns. *)
Reap(r) ==
  /\ alive
  /\ pc[r] = "killing"
  /\ worker' = [worker EXCEPT ![slot[r]] = "none"]
  /\ slot' = [slot EXCEPT ![r] = NoSlot]
  /\ \/ /\ outcome[r] = "retry"
        /\ pc' = [pc EXCEPT ![r] = "spawning"]
        /\ fresh' = [fresh EXCEPT ![r] = TRUE]
        /\ outcome' = [outcome EXCEPT ![r] = "none"]
        /\ UNCHANGED <<permits, queue>>
     \/ outcome[r] # "retry" /\ Finish(r, outcome[r]) /\ UNCHANGED fresh
  /\ UNCHANGED <<alive, server, waiting, idle, expired, cancelled, runs>>

--------------------------------------------------------------------------------
(* warm: one worker after the other until the pool is full. *)
WarmSpawn ==
  /\ alive
  /\ main = "warming" /\ warmSlot = NoSlot /\ Len(idle) < Size
  /\ \/ \E s \in Slots : /\ worker[s] = "none"
                         /\ worker' = [worker EXCEPT ![s] = "starting"]
                         /\ warmSlot' = s
                         /\ UNCHANGED main
     \/ main' = "failed" /\ UNCHANGED <<worker, warmSlot>>
  /\ UNCHANGED <<alive, closed, closing, admission, idle, request, expired, cancelled, runs>>

(* The started worker is ready; or it died, outlived its start budget, or  *)
(* the server was told to stop, and it is killed.                          *)
WarmStart ==
  /\ alive
  /\ main = "warming" /\ warmSlot # NoSlot
  /\ \/ /\ worker[warmSlot] = "ready"
        /\ idle' = Append(idle, warmSlot)
        /\ UNCHANGED <<main, worker>>
     \/ /\ main' = "failed"
        /\ worker' = [worker EXCEPT ![warmSlot] = "none"]
        /\ UNCHANGED idle
  /\ warmSlot' = NoSlot
  /\ UNCHANGED <<alive, closed, closing, admission, request, expired, cancelled, runs>>

WarmDone ==
  /\ alive
  /\ main = "warming" /\ warmSlot = NoSlot /\ Len(idle) >= Size
  /\ main' = "serving"
  /\ UNCHANGED <<alive, warmSlot, closed, closing, admission, idle, request, expired,
                 cancelled, worker, runs>>

(* aclose, from `serve`'s finally: take the idle workers, kill them one by *)
(* one; each kill is an await.                                             *)
Close ==
  /\ alive
  /\ main \in {"serving", "failed"}
  /\ main' = "closing"
  /\ closed' = TRUE
  /\ closing' = idle
  /\ idle' = <<>>
  /\ UNCHANGED <<alive, warmSlot, admission, request, expired, cancelled, worker, runs>>

CloseKill ==
  /\ alive
  /\ main = "closing"
  /\ \/ /\ closing # <<>>
        /\ worker' = [worker EXCEPT ![Head(closing)] = "none"]
        /\ closing' = Tail(closing)
        /\ UNCHANGED main
     \/ /\ closing = <<>>
        /\ main' = "closed"
        /\ UNCHANGED <<worker, closing>>
  /\ UNCHANGED <<alive, warmSlot, closed, admission, idle, request, expired, cancelled, runs>>

--------------------------------------------------------------------------------
(* The worker process: `main` of worker.py.                                *)
WorkerReady(s) ==
  /\ worker[s] = "starting"
  /\ worker' = [worker EXCEPT ![s] = "ready"]
  /\ UNCHANGED <<alive, server, admission, idle, request, expired, cancelled, runs>>

(* It reads the job its request sent, arms its alarm and starts to match.  *)
WorkerTakesJob(r) ==
  /\ pc[r] = "running" /\ worker[slot[r]] = "ready"
  /\ worker' = [worker EXCEPT ![slot[r]] = "busy"]
  /\ runs' = [runs EXCEPT ![r] = @ + 1]
  /\ UNCHANGED <<alive, server, admission, idle, request, expired, cancelled>>

WorkerReplies(s) ==
  /\ worker[s] = "busy"
  /\ worker' = [worker EXCEPT ![s] = "replied"]
  /\ UNCHANGED <<alive, server, admission, idle, request, expired, cancelled, runs>>

(* A process that ends is a zombie until the server reaps it. *)
Exit(s) ==
  /\ worker' = [worker EXCEPT ![s] = IF alive THEN "dead" ELSE "none"]
  /\ UNCHANGED <<alive, server, admission, idle, request, expired, cancelled, runs>>

(* SIGALRM's default action, armed with the job's deadline. *)
WorkerAlarm(r) ==
  /\ expired[r] /\ slot[r] # NoSlot
  /\ worker[slot[r]] = "busy"
  /\ Exit(slot[r])

(* A pattern that does not compile, the OOM killer, a crash. *)
WorkerDies(s) ==
  /\ worker[s] \in {"starting", "ready", "busy"}
  /\ Exit(s)

(* Without a server stdin is at its end and stdout is broken. *)
OrphanExits(s) ==
  /\ ~alive
  /\ worker[s] \in {"starting", "ready", "replied", "dead"}
  /\ Exit(s)

--------------------------------------------------------------------------------
(* The environment: time, the client's cancellations, SIGKILL of the       *)
(* server.                                                                 *)
Expire(r) ==
  /\ pc[r] # "done" /\ ~expired[r]
  /\ expired' = [expired EXCEPT ![r] = TRUE]
  /\ UNCHANGED <<alive, server, admission, idle, request, cancelled, worker, runs>>

Cancel(r) ==
  /\ alive
  /\ pc[r] # "done" /\ ~cancelled[r]
  /\ cancelled' = [cancelled EXCEPT ![r] = TRUE]
  /\ UNCHANGED <<alive, server, admission, idle, request, expired, worker, runs>>

ServerDies ==
  /\ alive
  /\ alive' = FALSE
  /\ UNCHANGED <<server, admission, idle, request, expired, cancelled, worker, runs>>

RequestStep(r) ==
  \/ Find(r) \/ LeaveQueue(r) \/ ReturnGrant(r) \/ Admit(r) \/ Spawn(r) \/ SpawnFails(r)
  \/ Start(r) \/ RunReturns(r) \/ RunFails(r) \/ Reap(r)

MainStep == WarmSpawn \/ WarmStart \/ WarmDone \/ Close \/ CloseKill

WorkerStep ==
  \/ \E s \in Slots : WorkerReady(s) \/ WorkerReplies(s) \/ WorkerDies(s) \/ OrphanExits(s)
  \/ \E r \in Requests : WorkerTakesJob(r) \/ WorkerAlarm(r)

Environment == (\E r \in Requests : Expire(r) \/ Cancel(r)) \/ ServerDies

Next == (\E r \in Requests : RequestStep(r)) \/ MainStep \/ WorkerStep \/ Environment

(* The loop resumes every task whose await is over; deadlines pass; kills  *)
(* and spawns end; a process that may exit does.  Nothing is assumed of a  *)
(* running pattern, of clients, or of the server being told to stop.       *)
Fairness ==
  /\ \A r \in Requests :
       /\ WF_vars(LeaveQueue(r) \/ ReturnGrant(r) \/ Admit(r) \/ Spawn(r) \/ SpawnFails(r)
                  \/ Start(r) \/ RunReturns(r) \/ RunFails(r) \/ Reap(r))
       /\ WF_vars(Expire(r))
       /\ WF_vars(WorkerAlarm(r))
  /\ WF_vars(CloseKill)
  /\ \A s \in Slots : WF_vars(OrphanExits(s))

Spec == Init /\ [][Next]_vars /\ Fairness

--------------------------------------------------------------------------------
TypeOK ==
  /\ alive \in BOOLEAN
  /\ main \in {"warming", "failed", "serving", "closing", "closed"}
  /\ warmSlot \in Slots \cup {NoSlot}
  /\ closed \in BOOLEAN
  /\ waiting \in Nat
  /\ permits \in Nat
  /\ queue \in Seq(Requests)
  /\ idle \in Seq(Slots)
  /\ closing \in Seq(Slots)
  /\ pc \in [Requests -> PCs]
  /\ slot \in [Requests -> Slots \cup {NoSlot}]
  /\ fresh \in [Requests -> BOOLEAN]
  /\ outcome \in [Requests -> Outcomes]
  /\ expired \in [Requests -> BOOLEAN]
  /\ cancelled \in [Requests -> BOOLEAN]
  /\ worker \in [Slots -> WorkerStates]
  /\ runs \in [Requests -> Nat]

(* `_limit` never loses or mints a permit, whichever of the four ways out  *)
(* of `find` a request takes, and nobody queues while a permit is free.    *)
PermitsConserved ==
  /\ permits + Cardinality(Holders) = Size
  /\ permits > 0 => queue = <<>>
  /\ Cardinality(Waiters \ Holders) = Len(queue)

(* `_waiting` counts the callers inside admission exactly, so the `finally` *)
(* of the admission block is never skipped, and they are at most           *)
(* `queue_bound`.                                                          *)
WaitingExact == waiting = Cardinality(Waiters) /\ waiting <= QueueBound

(* A worker that exists is reachable from the pool: parked, being closed,  *)
(* being warmed, or owned by a request that will park or kill it.          *)
NoLeakedWorker ==
  alive => \A s \in Live :
    \/ s \in Elems(idle) \cup Elems(closing)
    \/ s = warmSlot
    \/ \E r \in Requests : slot[r] = s /\ pc[r] \in HasSlot

(* No worker serves two requests, and none is parked or being killed by    *)
(* `aclose` while a request still talks to it.                             *)
NoSharedWorker ==
  /\ \A r1, r2 \in Requests : slot[r1] = slot[r2] /\ slot[r1] # NoSlot => r1 = r2
  /\ \A r \in Requests : slot[r] \notin Elems(idle) \cup Elems(closing)
  /\ Elems(idle) \cap Elems(closing) = {}
  /\ \A i, j \in DOMAIN idle : idle[i] = idle[j] => i = j
  /\ \A i, j \in DOMAIN closing : closing[i] = closing[j] => i = j

(* The pool never has more than `size` processes, retries of a dead idle   *)
(* worker included.  While it closes, a request admitted before the close  *)
(* may start one of its own next to each one being killed.                 *)
PoolBounded ==
  alive => Cardinality(Live) <= IF closed THEN 2 * Size ELSE Size

(* aclose: "a slot still running when the close happens is killed when it  *)
(* finishes instead of parked": nothing is parked once the pool is closed, *)
(* and when `aclose` and every call have returned no process is left.      *)
ClosedParksNothing ==
  /\ closed => idle = <<>>
  /\ alive /\ main = "closed" /\ (\A r \in Requests : pc[r] \in {"idle", "done"}) => Live = {}

(* A refusal at admission ran nothing; a match was found by a worker that  *)
(* ran the pattern; an idle worker's failure is retried once, never twice. *)
OutcomeHonest ==
  \A r \in Requests :
    /\ outcome[r] = "saturated" => runs[r] = 0
    /\ outcome[r] = "matches" => runs[r] >= 1
    /\ runs[r] <= 2

(* A call that began returns, whatever its pattern does: the deadline ends *)
(* every stage of it.                                                      *)
EveryFindReturns ==
  \A r \in Requests : pc[r] \notin {"idle", "done"} ~> (pc[r] = "done" \/ ~alive)

(* "No worker outlives the pool": after aclose every process is reaped,    *)
(* even one running a pattern that never returns.                          *)
CloseReapsAll == closed ~> (Live = {})

(* The self-alarm: when the server dies without killing its workers, even  *)
(* a worker stuck in a pattern ends.                                       *)
OrphansEnd == ~alive ~> (Live = {})

(* The books of the pool: however finds, cancels, deaths, the warm-up and  *)
(* the close interleave, permits and the waiting count are exact, and each *)
(* of at most `size` processes has exactly one owner that will reap it.    *)
PoolSafe == PermitsConserved /\ WaitingExact /\ NoLeakedWorker /\ NoSharedWorker /\ PoolBounded

(* No worker outlives the pool, and none outlives the server.              *)
WorkersEnd == CloseReapsAll /\ OrphansEnd
================================================================================
