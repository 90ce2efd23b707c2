---------------------------- MODULE MCProviderRetry ----------------------------
(* Small instances of the retry loop and its HTTP exchanges for TLC. *)
EXTENDS ProviderExchange

Conf(provider, model) == [provider |-> provider, userinfo |-> FALSE, sdk |-> TRUE, model |-> model]

MCConfs ==
  {Conf("typesafe", <<"jev-1">>), Conf("openrouter", <<"jev-latest">>), Conf("cloudflare", <<"jev-latest">>),
   Conf("compatible", <<"typesafe", "jev-1">>), [Conf("typesafe", <<"jev-1">>) EXCEPT !.sdk = FALSE],
   [Conf("compatible", <<"jev-1">>) EXCEPT !.userinfo = TRUE]}

Header(kind, value) == [kind |-> kind, value |-> value]
Absent == Header("absent", 0)

Body == [json |-> TRUE, answers |-> TRUE, usage |-> <<>>, model |-> "absent", id |-> FALSE, success |-> TRUE,
         state |-> None, errors |-> FALSE, error_type |-> None]

Reply(status, body) ==
  [status |-> status, to |-> None, ms |-> Absent, after |-> Absent, idHeader |-> FALSE, body |-> body]

Usage(a, b) == <<[input_tokens |-> a, output_tokens |-> b]>>

MCReplies ==
  {[Reply(307, Body) EXCEPT !.to = t] : t \in {"home", "away"}}
    \cup {Reply(200, b) : b \in {
            [Body EXCEPT !.usage = Usage(1, 0), !.model = "named", !.id = TRUE], [Body EXCEPT !.json = FALSE],
            [Body EXCEPT !.usage = Usage(1, -1)], [Body EXCEPT !.model = "not_a_string"],
            [Body EXCEPT !.success = FALSE, !.errors = TRUE], [Body EXCEPT !.state = "Failed"]}}
    \cup {[Reply(200, Body) EXCEPT !.idHeader = TRUE],
          Reply(401, [Body EXCEPT !.json = FALSE]),
          Reply(400, [Body EXCEPT !.error_type = "max_tokens_exceeded", !.errors = TRUE]),
          [Reply(404, Body) EXCEPT !.after = Header("number", 2)],
          [Reply(429, Body) EXCEPT !.ms = Header("number", 2), !.after = Header("number", 5)],
          [Reply(429, Body) EXCEPT !.ms = Header("text", 0), !.after = Header("date", -3)],
          [Reply(503, Body) EXCEPT !.after = Header("number", 5)],
          [Reply(503, [Body EXCEPT !.answers = FALSE]) EXCEPT !.after = Header("text", 1)]}
================================================================================
