--------------------------- MODULE ProviderExchange ----------------------------
(***************************************************************************)
(* What `_send` of the four providers (providers/typesafe.py,              *)
(* openrouter.py, cloudflare.py, compatible.py) makes of one HTTP          *)
(* exchange, inside the retry loop of ProviderRetry: the refusals before a *)
(* request, redirects, statuses with their hints, and the envelope.        *)
(*                                                                         *)
(* A reply is a status, where it redirects to, the headers that are read   *)
(* and a body, reduced to the fields that parse_envelope, the error path   *)
(* and Cloudflare's wrapper look at (its payload is the innermost result). *)
(***************************************************************************)
EXTENDS ProviderRetry, Sequences

CONSTANTS Confs,    \* provider, base URL, installation and model asked for
          Aliases,  \* what the parts of a model's name are called
          Replies,  \* the responses servers and proxies give
          MaxHops   \* httpx's cap on redirects

VARIABLES conf,
          origin,      \* `_origin`: the first request's, None before it
          x,           \* is a request in flight?
          hops,        \* the redirects this request has followed
          reply,       \* the last response of this attempt
          evaluation,  \* what `_send` returned
          \* history:
          posts,       \* requests that attempts have begun
          reached      \* the origins that were sent a request

exchange == <<conf, origin, x, hops, reply, evaluation, posts, reached>>
xvars == <<vars, exchange>>

None == "none"
NoReply == [status |-> 0]
NoEvaluation == [model |-> <<>>, id |-> None]

XInit ==
  /\ Init
  /\ conf \in Confs
  /\ origin \in {None, "home"}
  /\ x = "idle" /\ hops = 0 /\ reply = NoReply /\ evaluation = NoEvaluation
  /\ posts = 0 /\ reached = {}

--------------------------------------------------------------------------------
cloudflare_slug(model) ==
  IF Head(model) = "typesafe" THEN model
  ELSE <<"typesafe">> \o IF model = <<"jev-latest">> THEN <<"jev">> ELSE model

openrouter_slug(model) ==
  LET effective == IF model = <<"jev-latest">> THEN <<"jev-1.13">> ELSE model
  IN  IF Head(effective) = "typesafe" THEN effective ELSE <<"typesafe">> \o effective

refuse_credentials_in_url == conf.provider \in {"typesafe", "compatible"} /\ conf.userinfo

(* _sdk_client: the extra is not installed. *)
SdkMissing == conf.provider = "typesafe" /\ ~conf.sdk

is_success(r) == r.status \in 200..299

(* Both counts finite and not negative. *)
usage_counts(usage) == usage.input_tokens >= 0 /\ usage.output_tokens >= 0

parse_envelope(body) ==
  /\ body.json /\ body.answers
  /\ body.usage # <<>> => usage_counts(Head(body.usage))
  /\ body.model # "not_a_string"

(* The body's own id, else a header's, never one made up. *)
request_id_of(r) == IF r.body.id THEN "body" ELSE IF r.idHeader THEN "header" ELSE None

(* What a status error keeps of the body.  Cloudflare hands over its list  *)
(* of errors when it has one, which has no detail.                         *)
upstream_error_type(r) ==
  IF ~r.body.json \/ (conf.provider = "cloudflare" /\ r.body.errors) THEN None ELSE r.body.error_type

(* `retry-after-ms`, else `Retry-After` as a number or a date in the       *)
(* future; a value that is neither is no hint.                             *)
_finite_seconds(header) == header.kind = "number" /\ header.value >= 0
retry_after_seconds(r) ==
  IF _finite_seconds(r.ms) THEN r.ms.value
  ELSE IF _finite_seconds(r.after) THEN r.after.value
  ELSE IF r.after.kind = "date" THEN IF r.after.value > 0 THEN r.after.value ELSE 0
  ELSE NoHint

(* The hints of ProviderRetry are those of the responses there are, and a  *)
(* model has a name.                                                       *)
ASSUME RepliesAssumption ==
  NoHint \in Hints /\ \A r \in Replies : r.status \in Nat /\ retry_after_seconds(r) \in Hints
ASSUME ConfsAssumption ==
  /\ {"typesafe", "jev", "jev-1.13"} \subseteq Aliases
  /\ \A c \in Confs : c.model \in Seq(Aliases) /\ c.model # <<>>

(* The SDK passes a hint on for a 429 only. *)
HintOf(r) ==
  IF conf.provider = "typesafe" /\ r.status # 429 THEN NoHint ELSE retry_after_seconds(r)

Retried == {408, 429} \cup 500..599

(* _status_error, as the retry loop and code_of tell statuses apart. *)
_status_error(r) ==
  CASE r.status = 401 -> "unauthorized"
    [] r.status = 429 -> "quota"
    [] r.status \in Retried \ {429} -> "unavailable"
    [] r.status = 400 /\ upstream_error_type(r) = "max_tokens_exceeded" -> "too_large"
    [] OTHER -> "other"

(* A v4 envelope may say no under a 200. *)
CloudflareFailed(r) == conf.provider = "cloudflare" /\ r.body.json /\ ~r.body.success
(* The state of an ended run is no HTTP status and is never retried. *)
RunEnded(r) == conf.provider = "cloudflare" /\ r.body.state \notin {None, "Completed"}

Reported(r) ==
  LET asked == CASE conf.provider = "openrouter" -> openrouter_slug(conf.model)
                 [] conf.provider = "cloudflare" -> cloudflare_slug(conf.model)
                 [] OTHER -> conf.model
  IN  IF conf.provider \in {"cloudflare", "compatible"} /\ r.body.model = "named" THEN <<"served">> ELSE asked

--------------------------------------------------------------------------------
Sending == pc = "sending" /\ cap > 0

(* `_send` raises: AttemptFails with this failure. *)
Raise(failure, hint) == Fail(failure, IF failure \in StatusFailures THEN hint ELSE NoHint)

Refuse ==
  /\ Sending /\ x = "idle" /\ (refuse_credentials_in_url \/ SdkMissing)
  /\ Raise("other", NoHint)
  /\ UNCHANGED exchange

(* The request hook: the first request fixes the origin. *)
_post ==
  /\ Sending /\ x = "idle" /\ ~refuse_credentials_in_url /\ ~SdkMissing
  /\ origin' = "home"
  /\ x' = "flight" /\ hops' = 0 /\ posts' = posts + 1 /\ reached' = reached \cup {"home"}
  /\ UNCHANGED <<vars, conf, reply, evaluation>>

(* Fault: the SDK's own policy sends a request that got no answer again. *)
SdkRetriesConnection ==
  /\ Sending /\ x = "flight"
  /\ \/ conf.provider = "typesafe" /\ posts < 2 * MaxAttempts /\ posts' = posts + 1 /\ UNCHANGED <<vars, x>>
     \/ Raise("connect", NoHint) /\ x' = "idle" /\ UNCHANGED posts
  /\ UNCHANGED <<conf, origin, hops, reply, evaluation, reached>>

(* No response: a connection failure, wrapped or not, or a request that    *)
(* could not be made.                                                      *)
ConnectionFails ==
  /\ Sending /\ x = "flight"
  /\ \E failure \in {"connect", "other"} : Raise(failure, NoHint)
  /\ x' = "idle"
  /\ UNCHANGED <<conf, origin, hops, reply, evaluation, posts, reached>>

Redirects(r) == r.status \in 300..399 /\ r.to # None /\ conf.provider # "typesafe"

(* Fault: a followed redirect starts the attempt's deadline again, as a    *)
(* timeout of each request would.                                          *)
HopRestartsDeadline ==
  /\ Sending /\ x = "flight"
  /\ \E r \in {s \in Replies : Redirects(s)} :
       IF r.to = origin /\ hops < MaxHops
       THEN /\ hops' = hops + 1 /\ reached' = reached \cup {r.to}
            /\ began' = now
            /\ UNCHANGED <<timeout, now, pc, attempt, retried, cap, wakeAt, last, outcome, sent, x>>
       ELSE Raise("other", NoHint) /\ x' = "idle" /\ UNCHANGED <<hops, reached>>
  /\ UNCHANGED <<conf, origin, reply, evaluation, posts>>

(* httpx follows a redirect of the raw providers unless _reject_cross_origin *)
(* refuses the hop or there were too many; the SDK's client follows none.  *)
_reject_cross_origin ==
  /\ Sending /\ x = "flight"
  /\ \E r \in {s \in Replies : Redirects(s)} :
       IF r.to = origin /\ hops < MaxHops
       THEN hops' = hops + 1 /\ reached' = reached \cup {r.to} /\ UNCHANGED <<vars, x>>
       ELSE Raise("other", NoHint) /\ x' = "idle" /\ UNCHANGED <<hops, reached>>
  /\ UNCHANGED <<conf, origin, reply, evaluation, posts>>

(* The response, as each provider's `_send` reads it. *)
_send ==
  /\ Sending /\ x = "flight"
  /\ \E r \in {s \in Replies : ~Redirects(s)} :
       /\ reply' = r
       /\ \/ /\ ~is_success(r) \/ CloudflareFailed(r)
             /\ Raise(_status_error(r), HintOf(r)) /\ UNCHANGED evaluation
          \/ /\ is_success(r) /\ ~CloudflareFailed(r) /\ (RunEnded(r) \/ ~parse_envelope(r.body))
             /\ Raise("other", NoHint) /\ UNCHANGED evaluation
          \/ /\ is_success(r) /\ ~CloudflareFailed(r) /\ ~RunEnded(r) /\ parse_envelope(r.body)
             /\ Answer
             /\ evaluation' = [model |-> Reported(r), id |-> request_id_of(r)]
  /\ x' = "idle"
  /\ UNCHANGED <<conf, origin, hops, posts, reached>>

(* The loop goes on or ends around the exchange; a request in flight is    *)
(* dropped with its scope.                                                 *)
Loop ==
  /\ Begin \/ AttemptTimesOut \/ Wake \/ CallerTimesOut \/ Cancelled
  /\ x' = "idle" /\ hops' = 0 /\ reply' = NoReply
  /\ UNCHANGED <<conf, origin, evaluation, posts, reached>>

XNext ==
  \/ Refuse \/ _post \/ ConnectionFails \/ _reject_cross_origin \/ _send
  \/ Loop
  \/ (Tick /\ UNCHANGED exchange)

(* As in ProviderRetry: no server owes a response. *)
XSpec ==
  /\ XInit /\ [][XNext]_xvars
  /\ WF_xvars(Begin /\ Loop) /\ WF_xvars(Tick /\ UNCHANGED exchange)
  /\ WF_xvars(AttemptTimesOut /\ Loop) /\ WF_xvars(Wake /\ Loop)

--------------------------------------------------------------------------------
(* ADR-0023: the state goes to the configured origin and nowhere else,     *)
(* whatever servers redirect to and in whichever attempt.                  *)
StateStaysHome == reached \subseteq {"home"}

(* ADR-0057, one retry owner: a transport never sends what the loop did    *)
(* not ask for, so a call is billed at most once per attempt.              *)
OneRetryOwner == posts <= attempt

(* A retry follows a missed deadline, a connection that gave no response,  *)
(* or a status of the policy; never a response that was read.              *)
RetryBacked == pc = "sleeping" => reply = NoReply \/ reply.status \in Retried

(* An evaluation is a success with a sound envelope, and the model it      *)
(* names is the one that served it, or has as many parts as the one that   *)
(* was asked for or the vendor's prefix before them.                       *)
AnswerBacked ==
  outcome.kind = "answer" =>
    /\ is_success(reply) /\ parse_envelope(reply.body) /\ ~RunEnded(reply) /\ ~CloudflareFailed(reply)
    /\ evaluation.model = <<"served">> \/ Len(evaluation.model) = Len(conf.model)
         \/ Head(evaluation.model) = "typesafe"

(* One exchange within a call is what the providers' adapters say it is.   *)
ExchangeHonest == StateStaysHome /\ OneRetryOwner /\ RetryBacked /\ AnswerBacked

(* With its adapters, a call is still the retry loop that is proved.       *)
ImplementsRetry == Spec
================================================================================
