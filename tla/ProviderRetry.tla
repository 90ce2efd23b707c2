----------------------------- MODULE ProviderRetry -----------------------------
(***************************************************************************)
(* One call of JevProvider.evaluate (providers/base.py) under its retry    *)
(* policy (providers/retry.py): attempts, each under a deadline of its     *)
(* own, the classification of their failures, and the bounded sleep        *)
(* between them, all inside the caller's deadline when there is one.       *)
(*                                                                         *)
(* Time is in ticks since the call began.  The event loop may run a due    *)
(* timer up to `Lag` ticks late.  A failure is what the loop tells apart   *)
(* about the exception `_send` raised; texts are left out except for which *)
(* of the three the caller sees: the failure's own, the exhausted retries' *)
(* or none.                                                                *)
(***************************************************************************)
EXTENDS Integers

CONSTANTS MaxAttempts, PerAttempt, BackoffInitial, BackoffMax, Jitter, Budget,
          Timeouts,   \* the deadlines callers pass; NoTimeout is `None`
          NoTimeout,
          Hints,      \* the Retry-After hints servers send; NoHint is none
          NoHint,
          Lag         \* how late the event loop serves a due timer

(* RetryPolicy.__post_init__; Jitter is in percent. *)
ASSUME PolicyAssumption ==
  /\ MaxAttempts \in Nat \ {0}
  /\ PerAttempt \in Nat \ {0}
  /\ BackoffInitial \in Nat \ {0}
  /\ BackoffMax \in Nat \ {0}
  /\ Budget \in Nat \ {0}
  /\ Jitter \in 0..100
ASSUME TimeoutsAssumption == Timeouts \subseteq Nat \cup {NoTimeout} /\ NoTimeout \notin Nat
ASSUME HintsAssumption == Hints \subseteq Nat \cup {NoHint} /\ NoHint \notin Nat
ASSUME LagAssumption == Lag \in Nat

VARIABLES timeout,  \* the caller's deadline
          now,      \* retries.clock() - start
          pc,       \* "begin", in `_send`, in the backoff sleep, or "done"
          attempt, retried,
          began,    \* `now` as this attempt read it
          cap,      \* the seconds this attempt has; not positive: none
          wakeAt,   \* when the backoff sleep ends
          last,     \* the last failure
          outcome,  \* how `evaluate` ended
          sent      \* attempts that reached the wire (history)

vars == <<timeout, now, pc, attempt, retried, began, cap, wakeAt, last, outcome, sent>>

(* What `_send` may raise: ProviderConfigError, a 401, a 400 for too many  *)
(* tokens, a 429, a 408 or 5xx, a connection failure (wrapped or not), a   *)
(* missed deadline, and whatever else (other statuses, an invalid          *)
(* envelope, a refused redirect, a local protocol error).                  *)
StatusFailures == {"unauthorized", "too_large", "quota", "unavailable"}
Failures == {"config", "connect", "timeout", "other"} \cup StatusFailures
Codes == {"auth", "timeout", "quota", "input_too_large", "provider"}

(* code_of, on what `evaluate` raised. *)
CodeOf(failure) ==
  CASE failure \in {"config", "unauthorized"} -> "auth"
    [] failure = "timeout" -> "timeout"
    [] failure = "quota" -> "quota"
    [] failure = "too_large" -> "input_too_large"
    [] OTHER -> "provider"

(* _transient *)
Transient(failure) == failure \in {"connect", "quota", "unavailable", "timeout"}

Least(a, b) == IF a <= b THEN a ELSE b

Horizon == IF timeout = NoTimeout THEN Budget ELSE Least(Budget, timeout)

(* backoff_delay, with any jitter the random source may give. *)
BackoffDelays(n) ==
  LET exponential == Least(BackoffMax, BackoffInitial * 2^(n - 1))
  IN  {d \in 0..BackoffMax : d <= exponential /\ 100 * d >= exponential * (100 - Jitter)}

(* The delay retry_delay weighs against the budget. *)
Delays(n, hint) == IF hint = NoHint THEN BackoffDelays(n) ELSE {Least(hint, BackoffMax)}

Init ==
  /\ timeout \in Timeouts
  /\ now = 0
  /\ pc = "begin"
  /\ attempt = 0
  /\ retried = FALSE
  /\ began = 0
  /\ cap = 0
  /\ wakeAt = 0
  /\ last = "none"
  /\ outcome = [kind |-> "none", code |-> "none"]
  /\ sent = 0

--------------------------------------------------------------------------------
(* Fault: the attempt is capped by its own timeout only. *)
AttemptOwnCap ==
  /\ pc' = "sending"
  /\ attempt' = attempt + 1
  /\ began' = now
  /\ cap' = PerAttempt
  /\ sent' = sent + 1
  /\ UNCHANGED <<timeout, now, wakeAt, last, outcome>>

(* The head of the loop up to `_send`; a scope whose time is over raises   *)
(* before anything is sent.                                                *)
Attempt ==
  /\ pc' = "sending"
  /\ attempt' = attempt + 1
  /\ began' = now
  /\ cap' = Least(PerAttempt, Horizon - now)
  /\ sent' = IF Horizon - now > 0 THEN sent + 1 ELSE sent
  /\ UNCHANGED <<timeout, now, wakeAt, last, outcome>>

(* The caller's own remaining time bounds this attempt. *)
CallerCapped == timeout # NoTimeout /\ cap >= timeout - began

CallerExpired == timeout # NoTimeout /\ now >= timeout

(* `evaluate` ends. *)
Return(kind, code) ==
  /\ pc' = "done"
  /\ outcome' = [kind |-> kind, code |-> code]
  /\ UNCHANGED wakeAt

(* No retry is left: the first failure as it is, or _exhausted. *)
Stop(failure) ==
  \/ ~retried /\ Return("raised", CodeOf(failure))
  \/ retried /\ Return("exhausted", CodeOf(failure))

(* retry_delay: the attempts are spent, the delay would reach the horizon, *)
(* or the loop sleeps.                                                     *)
RetryOrStop(failure, hint) ==
  \/ attempt >= MaxAttempts /\ Stop(failure)
  \/ /\ attempt < MaxAttempts
     /\ \E delay \in Delays(attempt, hint) :
          \/ now + delay >= Horizon /\ Stop(failure)
          \/ /\ now + delay < Horizon
             /\ pc' = "sleeping"
             /\ wakeAt' = now + delay
             /\ UNCHANGED outcome

(* The `except` clause around the attempt.  whole.cancel_called may still  *)
(* be false in the turn in which the caller's deadline passes.             *)
Fail(failure, hint) ==
  /\ last' = failure
  /\ \/ CallerCapped /\ failure = "timeout" /\ Return("raised", "timeout")
     \/ CallerExpired /\ Return("raised", CodeOf(failure))
     \/ /\ ~(CallerCapped /\ failure = "timeout")
        /\ \/ ~Transient(failure) /\ Return("raised", CodeOf(failure))
           \/ Transient(failure) /\ RetryOrStop(failure, hint)
  /\ UNCHANGED <<timeout, now, attempt, retried, began, cap, sent>>

--------------------------------------------------------------------------------
Begin == pc = "begin" /\ Attempt /\ UNCHANGED retried

Answer ==
  /\ pc = "sending" /\ cap > 0
  /\ Return("answer", "none")
  /\ UNCHANGED <<timeout, now, attempt, retried, began, cap, last, sent>>

(* `_send` raised something of its own; only a status carries a hint. *)
AttemptFails ==
  /\ pc = "sending" /\ cap > 0
  /\ \E failure \in Failures \ {"timeout"}, hint \in Hints :
       /\ hint # NoHint => failure \in StatusFailures
       /\ Fail(failure, hint)

(* Fault: only a caller's deadline bounds an attempt. *)
AttemptTimesOutForCallers ==
  /\ pc = "sending" /\ timeout # NoTimeout /\ now >= began + cap
  /\ Fail("timeout", NoHint)

(* fail_after(cap) *)
AttemptTimesOut ==
  /\ pc = "sending" /\ now >= began + cap
  /\ Fail("timeout", NoHint)

(* The backoff sleep is over: the next attempt begins in the same turn. *)
Wake == pc = "sleeping" /\ now >= wakeAt /\ Attempt /\ retried' = TRUE

(* fail_after(timeout) around the whole loop cuts a send or a sleep. *)
CallerTimesOut ==
  /\ pc \in {"sending", "sleeping"} /\ CallerExpired
  /\ Return("raised", "timeout")
  /\ UNCHANGED <<timeout, now, attempt, retried, began, cap, last, sent>>

(* The client cancelled the call: never classified, never retried. *)
Cancelled ==
  /\ pc \in {"sending", "sleeping"}
  /\ Return("cancelled", "none")
  /\ UNCHANGED <<timeout, now, attempt, retried, began, cap, last, sent>>

(* The timer the call waits for next. *)
Due == IF pc = "sending" THEN began + cap ELSE wakeAt

Tick ==
  /\ pc \in {"sending", "sleeping"}
  /\ now < Due + Lag
  /\ now' = now + 1
  /\ UNCHANGED <<timeout, pc, attempt, retried, began, cap, wakeAt, last, outcome, sent>>

Next ==
  \/ Begin \/ Answer \/ AttemptFails \/ AttemptTimesOut \/ Wake
  \/ CallerTimesOut \/ Cancelled \/ Tick

(* Time passes and the loop serves due timers; no reply is ever owed. *)
Fairness == WF_vars(Begin) /\ WF_vars(Tick) /\ WF_vars(AttemptTimesOut) /\ WF_vars(Wake)

Spec == Init /\ [][Next]_vars /\ Fairness

--------------------------------------------------------------------------------
TypeOK ==
  /\ timeout \in Timeouts
  /\ now \in Nat
  /\ pc \in {"begin", "sending", "sleeping", "done"}
  /\ attempt \in 0..MaxAttempts
  /\ retried \in BOOLEAN
  /\ began \in Nat
  /\ cap \in Int
  /\ wakeAt \in Nat
  /\ last \in Failures \cup {"none"}
  /\ outcome \in [kind : {"none", "answer", "raised", "exhausted", "cancelled"},
                  code : Codes \cup {"none"}]
  /\ sent \in 0..attempt

(* base.py, "evaluate never runs past it": attempts and sleeps together    *)
(* stay inside the budget and the caller's deadline, up to the lateness of *)
(* one timer, however often the call is retried.                           *)
WithinHorizon == now <= Horizon + Lag

(* With punctual timers a retry is only begun while there is time to send  *)
(* it: no attempt is spent on an empty deadline.                           *)
NoEmptyAttempt ==
  Lag = 0 /\ (timeout = NoTimeout \/ timeout > 0) /\ pc \in {"sending", "done"} => sent = attempt

(* The code the client sees is the last failure's, also after retries: a   *)
(* 429 stays `quota`, a missed deadline `timeout`; only the caller's own   *)
(* deadline may replace it.  The exhausted text is only for a call that    *)
(* was retried, and a failure that must not be retried ends the call.      *)
OutcomeHonest ==
  /\ outcome.kind = "exhausted" => /\ outcome.code = CodeOf(last)
                                   /\ attempt > 1
                                   /\ Transient(last)
  /\ outcome.kind = "raised" => \/ outcome.code = CodeOf(last) /\ (attempt > 1 => retried)
                                \/ outcome.code = "timeout" /\ CallerExpired
  /\ outcome.kind = "answer" => sent > 0

(* ADR-0057's "never retried": configuration, any other 4xx, an invalid    *)
(* envelope, a request that cannot be sent.  While a call goes on, none of *)
(* its attempts has failed that way, and it was retried exactly when an    *)
(* attempt before this one failed.                                         *)
RetriesEarned ==
  pc \in {"sending", "sleeping"} =>
    /\ last \notin {"config", "unauthorized", "too_large", "other"}
    /\ pc = "sending" => (retried <=> attempt > 1)

(* Every call ends, also when no reply ever comes: ADR-0057's reason for   *)
(* the policy.                                                             *)
EvaluateEnds == <>(pc = "done")

(* One evaluate: inside its horizon, retrying only what ADR-0057 lets it,  *)
(* and reporting the failure that ended it, whatever failed before.        *)
RetrySafe == WithinHorizon /\ OutcomeHonest /\ RetriesEarned
================================================================================
