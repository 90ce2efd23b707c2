------------------------ MODULE ProviderExchange_proofs ------------------------
(***************************************************************************)
(* Proofs about ProviderRetry and ProviderExchange, for every policy,      *)
(* every set of deadlines, hints, responses and providers and every        *)
(* lateness of the timers.                                                 *)
(*                                                                         *)
(* The loop: its bound on the whole call needs what it knows while it      *)
(* waits: the running attempt's deadline does not lie past the horizon,    *)
(* and a sleep is only begun when it ends before it.                       *)
(*                                                                         *)
(* The exchange: whatever `_send` meets, the call is a behaviour of the    *)
(* loop, so what is proved of the loop holds of it, and the exchange       *)
(* itself is honest.                                                       *)
(***************************************************************************)
EXTENDS ProviderExchange, SequenceTheorems, TLAPS

(* The retry loop. *)

(* The deadlines a waiting call has armed. *)
TimingInv ==
  /\ now <= Horizon + Lag
  /\ pc = "begin" => now = 0
  /\ pc = "sending" => began + cap <= Horizon
  /\ pc = "sleeping" => wakeAt < Horizon /\ now <= wakeAt + Lag

(* How many attempts there were, and that the call has not ended yet. *)
LoopInv ==
  /\ pc = "begin" => attempt = 0 /\ ~retried
  /\ pc # "begin" => attempt > 0
  /\ pc = "sleeping" => attempt < MaxAttempts
  /\ pc # "done" => last \notin {"config", "unauthorized", "too_large", "other"}
  /\ pc \in {"sending", "sleeping"} => (retried <=> attempt > 1)
  /\ pc # "done" => outcome.kind = "none"

(* What reached the wire. *)
SentInv ==
  /\ pc = "sending" /\ cap > 0 => sent > 0
  /\ Lag = 0 /\ (timeout = NoTimeout \/ timeout > 0) => sent = attempt

IInv == TypeOK /\ TimingInv /\ LoopInv /\ SentInv /\ OutcomeHonest

(* The horizon is the budget or, when it is sooner, the caller's deadline. *)
LEMMA HorizonType ==
  ASSUME timeout \in Timeouts
  PROVE  /\ Horizon \in Nat
         /\ timeout # NoTimeout => timeout \in Nat /\ Horizon <= timeout
         /\ (timeout = NoTimeout \/ timeout > 0) => Horizon > 0
BY PolicyAssumption, TimeoutsAssumption DEF Horizon, Least

(* A delay is a number of ticks, and no hint raises it above BackoffMax. *)
LEMMA DelayType ==
  ASSUME NEW n \in Nat, NEW hint \in Hints \cup {NoHint}, NEW delay \in Delays(n, hint)
  PROVE  delay \in 0..BackoffMax
<1>1. CASE hint = NoHint
  BY <1>1 DEF Delays, BackoffDelays
<1>2. CASE hint # NoHint
  <2>1. hint \in Nat /\ delay = Least(hint, BackoffMax)
    BY <1>2, HintsAssumption DEF Delays
  <2> QED BY <2>1, PolicyAssumption DEF Least
<1> QED BY <1>1, <1>2

(* The code of a failure is one of the published codes. *)
LEMMA CodeType ==
  ASSUME NEW failure \in Failures
  PROVE  CodeOf(failure) \in Codes
BY DEF CodeOf, Failures, StatusFailures, Codes

(* The initial state satisfies the inductive invariant. *)
LEMMA InitIInv == Init => IInv
<1> SUFFICES ASSUME Init PROVE IInv
  OBVIOUS
<1>1. TypeOK
  <2>1. 0 \in 0..MaxAttempts /\ 0 \in 0..0 /\ 0 \in Nat /\ 0 \in Int
    BY PolicyAssumption
  <2> QED BY <2>1, Zenon DEF Init, TypeOK
<1>2. TimingInv
  BY HorizonType, LagAssumption DEF Init, TimingInv
<1> QED BY <1>1, <1>2 DEF Init, IInv, LoopInv, SentInv, OutcomeHonest

(* The next attempt, begun while attempts are left. *)
LEMMA AttemptIInv ==
  ASSUME IInv, Attempt, pc = "begin" \/ pc = "sleeping", retried' \in BOOLEAN,
         retried' <=> attempt > 0
  PROVE  IInv'
<1> USE PolicyAssumption, LagAssumption
<1>1. Horizon \in Nat /\ Horizon' = Horizon
  BY HorizonType DEF IInv, TypeOK, Attempt, Horizon
<1>2. TypeOK'
  BY <1>1 DEF IInv, TypeOK, LoopInv, Attempt, Least
<1>3. TimingInv'
  BY <1>1 DEF IInv, TypeOK, TimingInv, Attempt, Least
<1>4. LoopInv'
  <2>1. attempt \in Nat /\ attempt' = attempt + 1
    BY DEF IInv, TypeOK, Attempt
  <2>2. attempt' > 0 /\ (attempt' > 1 <=> attempt > 0)
    BY <2>1
  <2>3. /\ pc' = "sending"
        /\ last' \notin {"config", "unauthorized", "too_large", "other"}
        /\ outcome'.kind = "none"
    BY DEF IInv, TypeOK, LoopInv, Attempt
  <2> QED BY <2>2, <2>3 DEF LoopInv
<1>5. SentInv'
  <2>1. (pc = "sending" /\ cap > 0 => sent > 0)'
    BY <1>1 DEF IInv, TypeOK, SentInv, Attempt, Least
  <2>2. ASSUME Lag = 0, timeout = NoTimeout \/ timeout > 0
        PROVE  sent' = attempt'
    <3>1. now < Horizon
      BY <1>1, <2>2, HorizonType DEF IInv, TypeOK, TimingInv
    <3> QED BY <1>1, <2>2, <3>1 DEF IInv, TypeOK, SentInv, Attempt
  <2> QED BY <2>1, <2>2 DEF SentInv, Attempt
<1>6. OutcomeHonest'
  BY DEF IInv, LoopInv, OutcomeHonest, Attempt
<1> QED BY <1>2, <1>3, <1>4, <1>5, <1>6 DEF IInv

(* A failed attempt leaves the call sleeping inside the horizon or ended   *)
(* with the failure's own code.                                            *)
LEMMA FailIInv ==
  ASSUME IInv, pc = "sending",
         NEW failure \in Failures, NEW hint \in Hints \cup {NoHint}, Fail(failure, hint)
  PROVE  IInv'
<1> USE PolicyAssumption, LagAssumption
<1>1. /\ last' = failure
      /\ UNCHANGED <<timeout, now, attempt, retried, began, cap, sent>>
      /\ \/ pc' = "done" /\ wakeAt' = wakeAt /\ outcome' = [kind |-> "raised", code |-> CodeOf(failure)]
         \/ /\ pc' = "done" /\ wakeAt' = wakeAt
            /\ outcome' = [kind |-> "exhausted", code |-> CodeOf(failure)]
            /\ retried /\ Transient(failure)
         \/ /\ pc' = "sleeping" /\ outcome' = outcome
            /\ attempt < MaxAttempts /\ Transient(failure)
            /\ \E delay \in Delays(attempt, hint) : now + delay < Horizon /\ wakeAt' = now + delay
  BY DEF Fail, RetryOrStop, Stop, Return, CodeOf
<1>2. Horizon \in Nat /\ Horizon' = Horizon
  BY <1>1, HorizonType DEF IInv, TypeOK, Horizon
<1>3. CodeOf(failure) \in Codes
  BY CodeType
<1>4. CASE pc' = "done" /\ outcome' = [kind |-> "raised", code |-> CodeOf(failure)]
  <2>1. TypeOK'
    BY <1>1, <1>3, <1>4 DEF IInv, TypeOK
  <2>2. TimingInv' /\ LoopInv' /\ SentInv'
    BY <1>1, <1>2, <1>4 DEF IInv, TypeOK, TimingInv, LoopInv, SentInv
  <2>3. OutcomeHonest'
    BY <1>1, <1>4 DEF IInv, TypeOK, LoopInv, OutcomeHonest
  <2> QED BY <2>1, <2>2, <2>3 DEF IInv
<1>5. CASE /\ pc' = "done" /\ outcome' = [kind |-> "exhausted", code |-> CodeOf(failure)]
           /\ retried /\ Transient(failure)
  <2>1. TypeOK'
    BY <1>1, <1>3, <1>5 DEF IInv, TypeOK
  <2>2. TimingInv' /\ LoopInv' /\ SentInv'
    BY <1>1, <1>2, <1>5 DEF IInv, TypeOK, TimingInv, LoopInv, SentInv
  <2>3. OutcomeHonest'
    BY <1>1, <1>5 DEF IInv, TypeOK, LoopInv, OutcomeHonest
  <2> QED BY <2>1, <2>2, <2>3 DEF IInv
<1>6. CASE /\ pc' = "sleeping" /\ outcome' = outcome
           /\ attempt < MaxAttempts /\ Transient(failure)
           /\ \E delay \in Delays(attempt, hint) : now + delay < Horizon /\ wakeAt' = now + delay
  <2>1. PICK delay \in Delays(attempt, hint) : now + delay < Horizon /\ wakeAt' = now + delay
    BY <1>6
  <2>2. attempt \in Nat /\ delay \in Nat
    BY <2>1, DelayType DEF IInv, TypeOK
  <2>3. TypeOK'
    BY <1>1, <1>6, <2>1, <2>2 DEF IInv, TypeOK
  <2>4. TimingInv'
    BY <1>1, <1>2, <1>6, <2>1, <2>2 DEF IInv, TypeOK, TimingInv
  <2>5. LoopInv'
    BY <1>1, <1>6 DEF IInv, TypeOK, LoopInv, Transient
  <2>6. SentInv' /\ OutcomeHonest'
    BY <1>1, <1>6 DEF IInv, TypeOK, LoopInv, SentInv, OutcomeHonest
  <2> QED BY <2>3, <2>4, <2>5, <2>6 DEF IInv
<1> QED BY <1>1, <1>4, <1>5, <1>6

(* Every step keeps the inductive invariant. *)
LEMMA NextIInv == IInv /\ [Next]_vars => IInv'
<1> SUFFICES ASSUME IInv, [Next]_vars PROVE IInv'
  OBVIOUS
<1> USE PolicyAssumption, LagAssumption
<1>1. CASE Begin
  BY <1>1, AttemptIInv DEF Begin, IInv, TypeOK, LoopInv
<1>2. CASE Wake
  <2>1. attempt > 0 /\ retried' = TRUE
    BY <1>2 DEF Wake, IInv, LoopInv
  <2> QED BY <1>2, <2>1, AttemptIInv DEF Wake
<1>3. CASE Answer
  <2>1. Horizon' = Horizon
    BY <1>3 DEF Answer, Horizon
  <2> QED BY <1>3, <2>1 DEF Answer, Return, IInv, TypeOK, TimingInv, LoopInv, SentInv, OutcomeHonest
<1>4. CASE AttemptFails
  BY <1>4, FailIInv DEF AttemptFails
<1>5. CASE AttemptTimesOut
  <2>1. "timeout" \in Failures
    BY DEF Failures
  <2> QED BY <1>5, <2>1, FailIInv DEF AttemptTimesOut
<1>6. CASE CallerTimesOut
  <2>1. Horizon' = Horizon
    BY <1>6 DEF CallerTimesOut, Horizon
  <2>2. TypeOK'
    BY <1>6 DEF CallerTimesOut, Return, IInv, TypeOK, Codes
  <2>3. TimingInv' /\ LoopInv' /\ SentInv'
    BY <1>6, <2>1 DEF CallerTimesOut, Return, IInv, TypeOK, TimingInv, LoopInv, SentInv
  <2>4. OutcomeHonest'
    BY <1>6 DEF CallerTimesOut, CallerExpired, Return, OutcomeHonest
  <2> QED BY <2>2, <2>3, <2>4 DEF IInv
<1>7. CASE Cancelled
  <2>1. Horizon' = Horizon
    BY <1>7 DEF Cancelled, Horizon
  <2> QED BY <1>7, <2>1 DEF Cancelled, Return, IInv, TypeOK, TimingInv, LoopInv, SentInv, OutcomeHonest
<1>8. CASE Tick
  <2>1. Horizon \in Nat /\ Horizon' = Horizon
    BY <1>8, HorizonType DEF Tick, Horizon, IInv, TypeOK
  <2>2. TypeOK' /\ LoopInv' /\ SentInv' /\ OutcomeHonest'
    BY <1>8 DEF Tick, IInv, TypeOK, LoopInv, SentInv, OutcomeHonest
  <2>3. TimingInv'
    BY <1>8, <2>1 DEF Tick, Due, IInv, TypeOK, TimingInv
  <2> QED BY <2>2, <2>3 DEF IInv
<1>9. CASE UNCHANGED vars
  BY <1>9 DEF vars, IInv, TypeOK, TimingInv, LoopInv, SentInv, OutcomeHonest, Horizon, CallerExpired
<1> QED BY <1>1, <1>2, <1>3, <1>4, <1>5, <1>6, <1>7, <1>8, <1>9 DEF Next

(* IInv is an invariant of the retry loop. *)
THEOREM Inductive == Spec => []IInv
BY InitIInv, NextIInv, PTL DEF Spec

(* Type correctness; `attempt` and with it the number of requests a call   *)
(* may be billed for never exceed `max_attempts`.                          *)
THEOREM TypeCorrect == Spec => []TypeOK
<1>1. IInv => TypeOK
  BY DEF IInv
<1> QED BY <1>1, Inductive, PTL

(* "evaluate never runs past it": for every policy the call ends inside    *)
(* the budget and the caller's deadline, up to the lateness of one timer.  *)
THEOREM EvaluateIsBounded == Spec => []WithinHorizon
<1>1. IInv => WithinHorizon
  BY DEF IInv, TimingInv, WithinHorizon
<1> QED BY <1>1, Inductive, PTL

(* With punctual timers no attempt begins without time to send it. *)
THEOREM NoAttemptIsEmpty == Spec => []NoEmptyAttempt
<1>1. IInv => NoEmptyAttempt
  BY DEF IInv, SentInv, NoEmptyAttempt
<1> QED BY <1>1, Inductive, PTL

(* The code of the error `evaluate` raises is the last failure's, or the   *)
(* caller's timeout.                                                       *)
THEOREM OutcomeIsHonest == Spec => []OutcomeHonest
<1>1. IInv => OutcomeHonest
  BY DEF IInv
<1> QED BY <1>1, Inductive, PTL

(* A failure that must not be retried is never followed by an attempt. *)
THEOREM OnlyTransientIsRetried == Spec => []RetriesEarned
<1>1. IInv => RetriesEarned
  BY DEF IInv, LoopInv, RetriesEarned
<1> QED BY <1>1, Inductive, PTL

(* For every policy, timeout and scheduler lag, one evaluate stays inside  *)
(* its horizon, retries only what may be retried and reports what ended it.*)
THEOREM RetryIsSafe == Spec => []RetrySafe
<1>1. WithinHorizon /\ OutcomeHonest /\ RetriesEarned => RetrySafe
  BY DEF RetrySafe
<1> QED BY <1>1, EvaluateIsBounded, OutcomeIsHonest, OnlyTransientIsRetried, PTL

--------------------------------------------------------------------------------
(* The exchange. *)

(* A request is in flight only inside an attempt, which sends one; what is *)
(* known of a response was learnt in the attempt that ended the call or is *)
(* followed by a sleep.                                                    *)
ExchangeInv ==
  /\ conf \in Confs
  /\ x \in {"idle", "flight"} /\ (x = "flight" => pc = "sending" /\ origin = "home")
  /\ origin \in {None, "home"}
  /\ posts \in Nat
  /\ pc = "sending" /\ x = "idle" => posts < attempt
  /\ pc \in {"begin", "sending"} => reply = NoReply

XInv == IInv /\ ExchangeInv /\ ExchangeHonest

(* The failure a response stands for is one `_send` may raise, and only    *)
(* with a status of the policy is it one that is retried.                  *)
LEMMA StatusErrorType ==
  ASSUME NEW r \in Replies
  PROVE  /\ _status_error(r) \in Failures \ {"timeout"}
         /\ Transient(_status_error(r)) => r.status \in Retried
BY RepliesAssumption DEF _status_error, Failures, StatusFailures, Transient, Retried

(* What a provider hands to the loop is a hint of some response, or none. *)
LEMMA HintType ==
  ASSUME NEW r \in Replies
  PROVE  HintOf(r) \in Hints
BY RepliesAssumption DEF HintOf

(* `_send` raises what an attempt may fail with. *)
LEMMA RaiseFails ==
  ASSUME Sending, NEW failure \in Failures \ {"timeout"}, NEW hint \in Hints, Raise(failure, hint)
  PROVE  AttemptFails
<1>1. CASE failure \in StatusFailures
  BY <1>1 DEF Raise, AttemptFails, Sending
<1>2. CASE failure \notin StatusFailures
  BY <1>2, RepliesAssumption DEF Raise, AttemptFails, Sending
<1> QED BY <1>1, <1>2

(* Every step of an exchange is one of the retry loop, or none of its. *)
LEMMA ExchangeStep == [XNext]_xvars => [Next]_vars
<1> SUFFICES ASSUME [XNext]_xvars PROVE [Next]_vars
  OBVIOUS
<1>0. "connect" \in Failures \ {"timeout"} /\ "other" \in Failures \ {"timeout"} /\ NoHint \in Hints
  BY RepliesAssumption DEF Failures
<1>1. CASE Refuse
  BY <1>0, <1>1, RaiseFails DEF Refuse, Next
<1>2. CASE _post
  BY <1>2 DEF _post
<1>3. CASE ConnectionFails
  BY <1>0, <1>3, RaiseFails DEF ConnectionFails, Next
<1>4. CASE _reject_cross_origin
  <2>1. PICK r \in Replies :
          IF r.to = origin /\ hops < MaxHops THEN UNCHANGED vars ELSE Raise("other", NoHint)
    BY <1>4 DEF _reject_cross_origin
  <2>2. Sending
    BY <1>4 DEF _reject_cross_origin
  <2> QED BY <1>0, <2>1, <2>2, RaiseFails DEF Next
<1>5. CASE _send
  <2>1. PICK r \in Replies : Raise(_status_error(r), HintOf(r)) \/ Raise("other", NoHint) \/ Answer
    BY <1>5 DEF _send
  <2>2. Sending
    BY <1>5 DEF _send
  <2> QED BY <1>0, <2>1, <2>2, RaiseFails, StatusErrorType, HintType DEF Next
<1>6. CASE Loop
  BY <1>6 DEF Loop, Next
<1>7. CASE Tick /\ UNCHANGED exchange
  BY <1>7 DEF Next
<1>8. CASE UNCHANGED xvars
  BY <1>8 DEF xvars
<1> QED BY <1>1, <1>2, <1>3, <1>4, <1>5, <1>6, <1>7, <1>8 DEF XNext

(* A call with its adapters is a behaviour of the retry loop: the safety   *)
(* part of ImplementsRetry.                                                *)
THEOREM ExchangeIsRetry == XSpec => Init /\ [][Next]_vars
<1>1. XInit => Init
  BY DEF XInit
<1> QED BY <1>1, ExchangeStep, PTL DEF XSpec

(* What is proved of the loop holds of every provider: inside the horizon, *)
(* retrying only what may be, reporting what ended the call.               *)
THEOREM ExchangeIsSafe == XSpec => []RetrySafe
<1>1. IInv => RetrySafe
  BY DEF IInv, TimingInv, LoopInv, WithinHorizon, RetriesEarned, RetrySafe
<1> QED BY <1>1, ExchangeIsRetry, InitIInv, NextIInv, PTL

--------------------------------------------------------------------------------
(* A one-element sequence. *)
LEMMA Singleton ==
  ASSUME NEW S, NEW e \in S
  PROVE  <<e>> \in Seq(S) /\ Len(<<e>>) = 1
OBVIOUS

(* The evaluation names the model that served, or the one asked for. *)
LEMMA ReportedName ==
  ASSUME conf \in Confs, NEW r \in Replies
  PROVE  \/ Reported(r) = <<"served">>
         \/ Len(Reported(r)) = Len(conf.model)
         \/ Head(Reported(r)) = "typesafe"
<1> DEFINE Prefixed(m) == <<"typesafe">> \o m
<1>1. \A m \in Seq(Aliases) : Head(Prefixed(m)) = "typesafe"
  <2> SUFFICES ASSUME NEW m \in Seq(Aliases) PROVE Head(Prefixed(m)) = "typesafe"
    OBVIOUS
  <2>1. <<"typesafe">> \in Seq(Aliases) /\ Len(<<"typesafe">>) = 1
    BY ConfsAssumption, Singleton
  <2>2. Prefixed(m) \in Seq(Aliases) /\ Prefixed(m) # << >>
    BY <2>1, ConcatProperties
  <2>3. Prefixed(m)[1] = "typesafe"
    BY <2>1, ConcatProperties
  <2> QED BY <2>2, <2>3, HeadTailProperties
<1>2. conf.model \in Seq(Aliases)
  BY ConfsAssumption
<1>3. <<"jev">> \in Seq(Aliases) /\ <<"jev-1.13">> \in Seq(Aliases)
  BY ConfsAssumption, Singleton
<1> HIDE DEF Prefixed
<1>4. Head(openrouter_slug(conf.model)) = "typesafe"
  BY <1>1, <1>2, <1>3 DEF openrouter_slug, Prefixed
<1>5. Head(cloudflare_slug(conf.model)) = "typesafe"
  BY <1>1, <1>2, <1>3 DEF cloudflare_slug, Prefixed
<1> QED BY <1>4, <1>5 DEF Reported

(* A failed attempt ends the call, without an answer, or is followed by a  *)
(* sleep if the failure may be retried.                                    *)
LEMMA FailEnds ==
  ASSUME NEW failure, NEW hint, Fail(failure, hint)
  PROVE  /\ attempt' = attempt
         /\ \/ pc' = "done" /\ outcome'.kind \in {"raised", "exhausted"}
            \/ pc' = "sleeping" /\ outcome' = outcome /\ Transient(failure)
BY DEF Fail, RetryOrStop, Stop, Return

(* No request has been made, and no response read. *)
LEMMA InitXInv == XInit => XInv
<1> SUFFICES ASSUME XInit PROVE XInv
  OBVIOUS
<1>1. IInv
  BY InitIInv DEF XInit
<1>2. ExchangeInv
  BY DEF XInit, Init, ExchangeInv
<1>3. ExchangeHonest
  BY DEF XInit, Init, ExchangeHonest, StateStaysHome, OneRetryOwner, RetryBacked, AnswerBacked
<1> QED BY <1>1, <1>2, <1>3 DEF XInv

(* An attempt that fails without having read a response. *)
LEMMA UnreadFails ==
  ASSUME XInv, pc = "sending", NEW failure, NEW hint, Fail(failure, hint), x' = "idle",
         UNCHANGED <<conf, origin, reply, evaluation, posts, reached>>
  PROVE  ExchangeInv' /\ ExchangeHonest'
<1>1. attempt' = attempt /\ attempt \in Nat /\ outcome.kind = "none" /\ reply' = NoReply
  BY FailEnds, PolicyAssumption DEF XInv, IInv, TypeOK, LoopInv, ExchangeInv
<1>2. pc' \in {"done", "sleeping"} /\ outcome'.kind # "answer"
  BY <1>1, FailEnds
<1>3. ExchangeInv'
  BY <1>2 DEF XInv, ExchangeInv
<1>4. ExchangeHonest'
  BY <1>1, <1>2 DEF XInv, ExchangeInv, ExchangeHonest, StateStaysHome, OneRetryOwner, RetryBacked, AnswerBacked
<1> QED BY <1>3, <1>4

(* One step per action: a request is one per attempt, a hop stays at the   *)
(* origin, and a response that was read ends the attempt.                  *)
LEMMA NextXInv == XInv /\ [XNext]_xvars => XInv'
<1> SUFFICES ASSUME XInv, [XNext]_xvars PROVE XInv'
  OBVIOUS
<1>0. IInv'
  BY ExchangeStep, NextIInv DEF XInv
<1>a. attempt \in Nat /\ (pc # "done" => outcome.kind = "none")
  BY PolicyAssumption DEF XInv, IInv, TypeOK, LoopInv
<1> SUFFICES ExchangeInv' /\ ExchangeHonest'
  BY <1>0 DEF XInv
<1> USE DEF Sending
<1>1. CASE Refuse
  BY <1>1, UnreadFails DEF Refuse, Raise, exchange
<1>2. CASE _post
  <2>1. ExchangeInv'
    BY <1>2 DEF _post, vars, XInv, ExchangeInv
  <2>2. posts' <= attempt' /\ reached' \subseteq {"home"}
    BY <1>2, <1>a DEF _post, vars, XInv, ExchangeInv, ExchangeHonest, StateStaysHome
  <2>3. RetryBacked' /\ AnswerBacked'
    BY <1>2, <1>a DEF _post, vars, RetryBacked, AnswerBacked
  <2> QED BY <2>1, <2>2, <2>3 DEF ExchangeHonest, StateStaysHome, OneRetryOwner
<1>3. CASE ConnectionFails
  BY <1>3, UnreadFails DEF ConnectionFails, Raise
<1>4. CASE _reject_cross_origin
  <2>1. PICK r \in Replies :
          IF r.to = origin /\ hops < MaxHops
          THEN hops' = hops + 1 /\ reached' = reached \cup {r.to} /\ UNCHANGED <<vars, x>>
          ELSE Raise("other", NoHint) /\ x' = "idle" /\ UNCHANGED <<hops, reached>>
    BY <1>4 DEF _reject_cross_origin
  <2>2. pc = "sending" /\ x = "flight" /\ UNCHANGED <<conf, origin, reply, evaluation, posts>>
    BY <1>4 DEF _reject_cross_origin
  <2>3. CASE r.to = origin /\ hops < MaxHops
    <3>1. reached' = reached \cup {r.to} /\ UNCHANGED vars /\ x' = x
      BY <2>1, <2>3
    <3>2. ExchangeInv'
      BY <2>2, <3>1 DEF vars, XInv, ExchangeInv
    <3>3. StateStaysHome' /\ OneRetryOwner'
      BY <2>2, <2>3, <3>1 DEF vars, XInv, ExchangeInv, ExchangeHonest, StateStaysHome, OneRetryOwner
    <3>4. RetryBacked' /\ AnswerBacked'
      BY <2>2, <3>1, <1>a DEF vars, RetryBacked, AnswerBacked
    <3> QED BY <3>2, <3>3, <3>4 DEF ExchangeHonest
  <2>4. CASE ~(r.to = origin /\ hops < MaxHops)
    BY <2>1, <2>2, <2>4, UnreadFails DEF Raise
  <2> QED BY <2>3, <2>4
<1>5. CASE _send
  <2>1. PICK r \in Replies :
          /\ reply' = r
          /\ \/ Raise(_status_error(r), HintOf(r))
             \/ Raise("other", NoHint)
             \/ /\ is_success(r) /\ ~CloudflareFailed(r) /\ ~RunEnded(r) /\ parse_envelope(r.body)
                /\ Answer /\ evaluation' = [model |-> Reported(r), id |-> request_id_of(r)]
    BY <1>5 DEF _send
  <2>2. pc = "sending" /\ x' = "idle" /\ UNCHANGED <<conf, origin, hops, posts, reached>>
    BY <1>5 DEF _send
  <2>3. CASE Answer /\ is_success(r) /\ ~CloudflareFailed(r) /\ ~RunEnded(r) /\ parse_envelope(r.body)
             /\ evaluation' = [model |-> Reported(r), id |-> request_id_of(r)]
    <3>1. pc' = "done" /\ attempt' = attempt
      BY <2>3 DEF Answer, Return
    <3>2. ExchangeInv'
      BY <2>2, <3>1 DEF XInv, ExchangeInv
    <3>3. StateStaysHome' /\ OneRetryOwner' /\ RetryBacked'
      BY <2>2, <3>1 DEF XInv, ExchangeHonest, StateStaysHome, OneRetryOwner, RetryBacked
    <3>4. AnswerBacked'
      <4>1. conf' = conf /\ reply' = r /\ evaluation'.model = Reported(r)
        BY <2>1, <2>2, <2>3
      <4>2. \/ Reported(r) = <<"served">> \/ Len(Reported(r)) = Len(conf.model)
            \/ Head(Reported(r)) = "typesafe"
        BY ReportedName DEF XInv, ExchangeInv
      <4>3. ~RunEnded(reply)' /\ ~CloudflareFailed(reply)'
        BY <2>3, <4>1 DEF RunEnded, CloudflareFailed
      <4> QED BY <2>3, <4>1, <4>2, <4>3 DEF AnswerBacked
    <3> QED BY <3>2, <3>3, <3>4 DEF ExchangeHonest
  <2>4. ASSUME NEW failure, NEW hint, Fail(failure, hint), Transient(failure) => r.status \in Retried
        PROVE  ExchangeInv' /\ ExchangeHonest'
    <3>1. attempt' = attempt /\ pc' \in {"done", "sleeping"} /\ outcome'.kind # "answer"
          /\ (pc' = "sleeping" => r.status \in Retried)
      BY <1>a, <2>2, <2>4, FailEnds
    <3>2. ExchangeInv'
      BY <2>2, <3>1 DEF XInv, ExchangeInv
    <3>3. ExchangeHonest'
      BY <2>1, <2>2, <3>1 DEF XInv, ExchangeHonest, StateStaysHome, OneRetryOwner, RetryBacked, AnswerBacked
    <3> QED BY <3>2, <3>3
  <2>5. CASE Raise(_status_error(r), HintOf(r))
    BY <2>4, <2>5, StatusErrorType DEF Raise
  <2>6. CASE Raise("other", NoHint)
    BY <2>4, <2>6 DEF Raise, Transient
  <2> QED BY <2>1, <2>3, <2>5, <2>6
<1>6. CASE Loop
  <2>1. x' = "idle" /\ reply' = NoReply /\ UNCHANGED <<conf, origin, evaluation, posts, reached>>
    BY <1>6 DEF Loop
  <2>2. /\ attempt' \in Nat /\ attempt <= attempt' /\ outcome'.kind # "answer"
        /\ pc' = "sending" => attempt < attempt'
        /\ pc' # "begin"
    <3>1. CASE Begin \/ Wake
      BY <3>1, <1>a DEF Begin, Wake, Attempt
    <3>2. CASE AttemptTimesOut
      BY <3>2, <1>a, FailEnds DEF AttemptTimesOut
    <3>3. CASE CallerTimesOut \/ Cancelled
      BY <3>3, <1>a DEF CallerTimesOut, Cancelled, Return
    <3> QED BY <1>6, <3>1, <3>2, <3>3 DEF Loop
  <2>3. ExchangeInv'
    BY <1>a, <2>1, <2>2 DEF XInv, ExchangeInv, ExchangeHonest, OneRetryOwner
  <2>4. ExchangeHonest'
    BY <1>a, <2>1, <2>2 DEF XInv, ExchangeInv, ExchangeHonest, StateStaysHome, OneRetryOwner, RetryBacked, AnswerBacked
  <2> QED BY <2>3, <2>4
<1>7. CASE Tick /\ UNCHANGED exchange
  BY <1>7, <1>a DEF Tick, exchange, XInv, ExchangeInv, ExchangeHonest, StateStaysHome, OneRetryOwner, RetryBacked, AnswerBacked
<1>8. CASE UNCHANGED xvars
  BY <1>8 DEF xvars, vars, exchange, XInv, ExchangeInv, ExchangeHonest, StateStaysHome, OneRetryOwner,
              RetryBacked, AnswerBacked, RunEnded, CloudflareFailed
<1> QED BY <1>1, <1>2, <1>3, <1>4, <1>5, <1>6, <1>7, <1>8 DEF XNext

(* ADR-0023 and ADR-0057 for every provider, set of responses and policy:  *)
(* the state stays at its origin, one request per attempt, a retry only    *)
(* after a status of the policy, and an answer only from a sound envelope. *)
THEOREM ExchangeIsHonest == XSpec => []ExchangeHonest
<1>1. XInv => ExchangeHonest
  BY DEF XInv
<1> QED BY <1>1, InitXInv, NextXInv, PTL DEF XSpec
================================================================================
