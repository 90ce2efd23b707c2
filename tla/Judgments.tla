------------------------------- MODULE Judgments -------------------------------
(***************************************************************************)
(* The tools that ask Jev once and project its answers: jev_classify,      *)
(* jev_compare, jev_decide, jev_find, jev_rerank, jev_score, jev_screen,   *)
(* jev_extract and jev_file_judge (tools/), and the policy that turns an   *)
(* answer into an action (policy/).  Jev may answer anything, or leave an  *)
(* answer out.                                                             *)
(*                                                                         *)
(* Probabilities, confidences and thresholds are integer percents; a raw   *)
(* number outside 0..100 is one the code refuses.  Ids and wire keys are   *)
(* sequences: <<"item", 0>> is `item0`, <<"c", 1>> is `c1`.                *)
(***************************************************************************)
EXTENDS Validation, Sequences, SequencesExt

CONSTANTS Jobs,           \* the calls a client may make
          RawChoices(_),  \* what Jev may answer a choice over these keys with
          RawScores(_),   \* ... and a score over a rubric of that many levels
          Nouls,          \* ... and a yes-or-no question
          Finds,          \* what matching one field of a document may give
          Caps            \* limits.py, scaled down

List(s) == Len(s) \in Nat /\ s = [i \in 1..Len(s) |-> s[i]]

ASSUME JudgmentsAssumption ==
  /\ \A j \in Jobs :
       /\ j.tool = "classify" => List(j.items) /\ List(j.classes)
       /\ j.tool = "compare" => j.aspects \in Nat
       /\ j.tool \in {"find", "rerank", "extract"} => List(j.ids) /\ \A i \in DOMAIN j.ids : List(j.ids[i])
  /\ \A f \in Finds : f.candidates \in Nat /\ f.too_long \in Nat
  /\ Caps.top_k \in Nat /\ Caps.candidates \in Nat

VARIABLES stage,   \* how far the call is
          job,     \* its arguments, parsed
          fields,  \* what jev_extract matched so far
          result   \* the reply, with the raw answers it was made from

judging == <<stage, job, fields, result>>

NoJob == [tool |-> "none"]
NoResult == [status |-> "none"]

Refused(code) == [status |-> "error", code |-> code]

--------------------------------------------------------------------------------
(* policy/ *)

classification_decision(answer, t) ==
  IF top_probability(answer) >= t.auto_accept /\ margin(answer.probabilities) >= t.minimum_margin
  THEN "auto" ELSE "review"

fail_closed(tool) ==
  CASE tool \in {"review", "gate"} -> "escalate"
    [] tool \in {"verify", "classify", "compare"} -> "review"
    [] OTHER -> "status"

(* base.py: the worst of the actions, when there is one. *)
headline(actions) == IF actions = {} THEN "none" ELSE worst_action(actions)

NoneOfThem == <<"none_of_them">>

(* Gate the pick; a negative answer is gated like a positive one. *)
FieldDecision(field, answer, t, incomplete) ==
  CASE field.candidates = 0 /\ field.too_long > 0 /\ incomplete -> [status |-> "review", reason |-> "matches_too_long"]
    [] field.candidates = 0 /\ field.too_long = 0 /\ incomplete -> [status |-> "review", reason |-> "candidate_limit"]
    [] field.candidates = 0 /\ ~incomplete -> [status |-> "not_found", reason |-> "no_regex_matches"]
    [] field.candidates > 0 /\ incomplete -> [status |-> "review", reason |-> "candidate_limit"]
    [] field.candidates > 0 /\ ~incomplete /\ answer.choice = NoneOfThem ->
         IF classification_decision(answer, t) = "auto" THEN [status |-> "not_found", reason |-> "none_matched"]
         ELSE [status |-> "review", reason |-> "none_matched_ambiguous"]
    [] OTHER -> [status |-> classification_decision(answer, t), reason |-> "none"]

(* Fault: matches skipped as too long are forgotten. *)
DecideWithoutTooLong(field, answer, t) == FieldDecision(field, answer, t, field.truncated)

(* An incomplete universe is never auto and never a definite not_found. *)
decide_extract_field(field, answer, t) == FieldDecision(field, answer, t, field.truncated \/ field.too_long > 0)

(* What the command line reports: not_found is neutral, a broken row reviews. *)
extract_call_action(statuses) ==
  worst_action({IF s = "auto" THEN "auto" ELSE "review" : s \in statuses \ {"not_found"}})

exists_verdict(exists) ==
  CASE exists >= 70 -> "answered" [] exists < 35 -> "absent" [] OTHER -> "partial"

(* The positions by score, highest first; ties keep the caller's order: *)
(* the n-th is the one with n - 1 ahead of it.                          *)
Ahead(score, i) == {k \in DOMAIN score : score[k] > score[i] \/ (score[k] = score[i] /\ k < i)}

_descending(score) == [n \in DOMAIN score |-> CHOOSE i \in DOMAIN score : Cardinality(Ahead(score, i)) = n - 1]

Keep(ranked, top_k) == SubSeq(ranked, 1, IF top_k = Absent \/ top_k > Len(ranked) THEN Len(ranked) ELSE top_k)

(* A relevance that was not asked for is Absent. *)
screen_recommendation(injection, substance, relevance, t) ==
  CASE injection >= t.block_at -> "block"
    [] injection < t.block_at /\ injection >= t.review_at -> "review"
    [] injection < t.block_at /\ injection < t.review_at /\ substance < 30 -> "skip"
    [] injection < t.block_at /\ injection < t.review_at /\ substance >= 30 /\ relevance # Absent /\ relevance < 30 ->
         "skip"
    [] OTHER -> "pass"

screen_fail_closed == "review"

--------------------------------------------------------------------------------
(* Ids. *)

Omitted == <<>>

(* _opaque: an omitted id is filled in, and no id may repeat. *)
Externals(ids, kind) == [i \in DOMAIN ids |-> IF ids[i] = Omitted THEN <<kind, i - 1>> ELSE ids[i]]

_opaque(ids, kind) == IsInjective(Externals(ids, kind))

(* A name that is free, or its first free suffix. *)
FreeName(base, used, from, n) ==
  IF base \notin used THEN base
  ELSE Append(base, Min({k \in from..(from + n) : Append(base, k) \notin used}))

(* Every name in turn, past the ones before it. *)
FreeNames(bases, from) ==
  LET out[i \in 0..Len(bases)] ==
        IF i = 0 THEN <<>>
        ELSE Append(out[i - 1], FreeName(bases[i], Range(out[i - 1]), from, Len(bases)))
  IN  out[Len(bases)]

(* jev_rerank keeps the caller's ids and suffixes its own past every one. *)
_external_ids(ids) ==
  LET given == {ids[i] : i \in DOMAIN ids} \ {Omitted}
      out[i \in 0..Len(ids)] ==
        IF i = 0 THEN <<>>
        ELSE Append(out[i - 1], IF ids[i] # Omitted THEN ids[i]
                                ELSE FreeName(<<"candidate", i - 1>>, given \cup Range(out[i - 1]), 2, Len(ids)))
  IN  out[Len(ids)]

Repeats(ids) == \E i, j \in DOMAIN ids : i # j /\ ids[i] # Omitted /\ ids[i] = ids[j]

(* ensure_unique_ids, as jev_find uses it. *)
unique_ids(ids) == FreeNames(Externals(ids, "candidate"), 1)

(* What a renamed candidate is told: sent id, returned id. *)
caller_renames(ids) ==
  {<<ids[i], unique_ids(ids)[i]>> : i \in {j \in DOMAIN ids : ids[j] # Omitted /\ ids[j] # unique_ids(ids)[j]}}

--------------------------------------------------------------------------------
(* The handlers.  Each tool has its published schema, the refusals before  *)
(* anything is asked, and the reply made of the answers.                   *)

WireKeys(prefix, n) == {<<prefix, i>> : i \in 0..(n - 1)}
Thresholds(j) == j.auto_accept \in 0..100 /\ j.minimum_margin \in 0..100
First(checks) ==
  LET failed == {i \in DOMAIN checks : checks[i][1]} IN IF failed = {} THEN "none" ELSE checks[Min(failed)][2]

(* j.sized: every text is within its own bounds. *)
classify_schema(j) == j.sized /\ Len(j.items) \in 1..Caps.items /\ Len(j.classes) \in 2..Caps.classes /\ Thresholds(j)

classify_refusal(j) ==
  First(<< <<~classify_schema(j), "invalid_arguments">>,
           <<~_opaque(j.items, "item") \/ ~_opaque(j.classes, "class"), "invalid_arguments">>,
           <<Len(j.items) * Len(j.classes) > Caps.pairs, "input_too_large">> >>)

ClassKeys(j) == WireKeys("c", Len(j.classes))

classify(j, raw) ==
  LET row(i) == LET a == validate_choice(raw[i], ClassKeys(j))
                IN  IF a.valid
                    THEN [id |-> Externals(j.items, "item")[i], status |-> "ok", decision |-> classification_decision(a, j),
                          class |-> Externals(j.classes, "class")[a.choice[2] + 1]]
                    ELSE [id |-> Externals(j.items, "item")[i], status |-> "invalid_response",
                          decision |-> fail_closed("classify"), class |-> Omitted]
      rows == [i \in DOMAIN j.items |-> row(i)]
  IN  [status |-> "ok", raw |-> raw, rows |-> rows,
       action |-> headline(caller_actions({rows[i].decision : i \in DOMAIN rows}))]

Relations == {<<"same_fact">>, <<"contradicts">>, <<"different_facts">>}

compare_schema(j) == j.sized /\ j.aspects \in 0..Caps.aspects /\ Thresholds(j)

judge(raw, j) ==
  LET a == validate_choice(raw, Relations)
  IN  IF a.valid THEN [relation |-> a.choice, decision |-> classification_decision(a, j)]
      ELSE [relation |-> Omitted, decision |-> fail_closed("compare")]

(* The headline is the overall decision; an aspect that contradicts warns. *)
compare(j, overall, aspects) ==
  LET whole == judge(overall, j)
      judged == [i \in 1..j.aspects |-> judge(aspects[i], j)]
  IN  [status |-> "ok", raw |-> <<overall>> \o aspects, rows |-> <<whole>> \o judged,
       warns |-> whole.relation # <<"contradicts">> /\ \E i \in DOMAIN judged : judged[i].relation = <<"contradicts">>,
       action |-> headline(caller_actions({whole.decision}))]

ESCAPE_HATCHES == {<<"ask_user">>, <<"investigate">>, <<"none">>}
RELATION_CRITERIA == {<<"supported">>, <<"contradicted">>, <<"unknown">>}

decide_schema(j) == j.sized /\ Len(j.ids) \in 2..Caps.options /\ j.requirements \in 0..Caps.requirements

decide_refusal(j) ==
  First(<< <<~decide_schema(j), "invalid_arguments">>,
           <<Repeats(j.ids) \/ (j.hatches /\ Range(j.ids) \cap ESCAPE_HATCHES # {}), "invalid_arguments">> >>)

OptionKeys(j) == WireKeys("option", Len(j.ids)) \cup IF j.hatches THEN ESCAPE_HATCHES ELSE {}

contradicts_recommendation(check, option) ==
  {r \in DOMAIN check[option] : check[option][r] = <<"contradicted">>}

decide(j, raw, checks) ==
  LET rec == validate_choice(raw, OptionKeys(j))
      check == [i \in DOMAIN j.ids |-> [r \in 1..j.requirements |->
                 LET a == validate_choice(checks[i][r], RELATION_CRITERIA) IN IF a.valid THEN a.choice ELSE Omitted]]
      option == IF rec.valid /\ rec.choice \notin ESCAPE_HATCHES THEN rec.choice[2] + 1 ELSE 0
  IN  [status |-> IF rec.valid THEN "ok" ELSE "invalid_response", raw |-> <<raw>>, action |-> "none",
       selected |-> IF option > 0 THEN j.ids[option] ELSE IF rec.valid THEN rec.choice ELSE Omitted,
       escaped |-> rec.valid /\ option = 0,
       warned |-> IF option > 0 THEN contradicts_recommendation(check, option) ELSE {}]

candidates_schema(j) == Len(j.ids) \in 1..Caps.candidates

find_schema(j) == j.sized /\ candidates_schema(j) /\ j.top_k \in {Absent} \cup 1..Caps.top_k

(* A missing answer is neither "no match" nor "no ranking". *)
find(j, best, exists) ==
  LET ids == unique_ids(j.ids)
      a == validate_choice(best, Range(ids))
      p == [i \in DOMAIN ids |-> a.probabilities[ids[i]]]
  IN  IF ~a.valid \/ validate_noul(exists) = Unknown
      THEN [status |-> "invalid_response", raw |-> <<best>>, action |-> "none"]
      ELSE [status |-> "ok", raw |-> <<best>>, action |-> "none", exists_verdict |-> exists_verdict(exists),
            score |-> p, ids |-> ids, top |-> Keep(_descending(p), j.top_k), renamed |-> caller_renames(j.ids)]

rerank_schema(j) == j.sized /\ candidates_schema(j) /\ j.top_k \in {Absent} \cup 1..Caps.candidates

rerank_refusal(j) ==
  First(<< <<~rerank_schema(j), "invalid_arguments">>, <<Repeats(j.ids), "invalid_arguments">>,
           <<j.units > Caps.units, "input_too_large">> >>)

(* One invalid answer makes the whole order untrustworthy. *)
rerank(j, raw) ==
  LET score == [i \in DOMAIN raw |-> validate_noul(raw[i])]
  IN  IF Unknown \in Range(score) THEN [status |-> "invalid_response", raw |-> raw, action |-> "none"]
      ELSE [status |-> "ok", raw |-> raw, action |-> "none", score |-> score, ids |-> _external_ids(j.ids),
            top |-> Keep(_descending(score), j.top_k)]

score_schema(j) == j.sized /\ j.levels \in 2..Caps.levels

(* Ties go to the lower level. *)
Nearest(score, levels) ==
  LET off(i) == IF 100 * i > score THEN 100 * i - score ELSE score - 100 * i
  IN  Min({i \in 0..(levels - 1) : \A k \in 0..(levels - 1) : off(i) <= off(k)})

score(j, raw) ==
  LET a == validate_rubric_answer(raw, j.levels)
  IN  IF a.valid THEN [status |-> "ok", raw |-> <<raw>>, action |-> "none", nearest_level |-> Nearest(a.score, j.levels)]
      ELSE [status |-> "invalid_response", raw |-> <<raw>>, action |-> "none"]

screen_schema(j) == j.sized /\ j.block_at \in 0..100 /\ j.review_at \in 0..100

(* A missing answer fails closed; only `review` is an action. *)
screen(j, injection, substance, relevance) ==
  LET asked == <<injection, substance>> \o IF j.purpose THEN <<relevance>> ELSE <<>>
      failed == \E i \in DOMAIN asked : validate_noul(asked[i]) = Unknown
      recommendation == IF failed THEN screen_fail_closed
                        ELSE screen_recommendation(injection, substance, IF j.purpose THEN relevance ELSE Absent, j)
  IN  [status |-> IF failed THEN "invalid_response" ELSE "ok", raw |-> asked, recommendation |-> recommendation,
       action |-> IF recommendation = "review" THEN "review" ELSE "none"]

extract_schema(j) == j.sized /\ Len(j.ids) \in 1..Caps.fields /\ Thresholds(j)

extract_refusal(j) ==
  First(<< <<~extract_schema(j), "invalid_arguments">>, <<Repeats(j.ids), "invalid_arguments">> >>)

CandidateKeys(field) == WireKeys("c", field.candidates) \cup {NoneOfThem}

Askable(field) == ~field.error /\ field.candidates > 0

(* _result: the row of one field. *)
_result(j, field, raw) ==
  LET a == validate_extract_choice(raw, CandidateKeys(field))
      d == decide_extract_field(field, a, j)
  IN  CASE field.error -> [status |-> "invalid_pattern", reason |-> "pattern", value |-> Omitted]
        [] ~field.error /\ field.candidates = 0 -> [status |-> d.status, reason |-> d.reason, value |-> Omitted]
        [] Askable(field) /\ ~a.valid -> [status |-> "invalid_response", reason |-> "none", value |-> Omitted]
        [] OTHER -> [status |-> d.status, reason |-> d.reason,
                     value |-> IF a.choice = NoneOfThem THEN Omitted ELSE a.choice]

(* _headlines, and the cut an incomplete universe leaves on the ledger. *)
extract(j, found, raw) ==
  LET rows == [i \in DOMAIN found |-> _result(j, found[i], raw[i])]
      statuses == {rows[i].status : i \in DOMAIN rows}
  IN  [status |-> "ok", raw |-> raw, rows |-> rows, found |-> found,
       truncated |-> \E i \in DOMAIN found : found[i].truncated \/ found[i].too_long > 0,
       action |-> headline(caller_actions(statuses)), call_action |-> extract_call_action(statuses)]

(* criteria are checked against their kind before any file is read. *)
build_question(q) ==
  CASE q.kind = "score" -> /\ q.shape = "array" /\ q.wellFormed /\ q.size \in 2..Caps.levels
    [] q.kind = "noul" -> q.shape = "object" /\ ~q.unknownKeys /\ q.wellFormed
    [] q.kind = "choice" -> q.shape = "object" /\ q.size \in 2..Caps.classes /\ q.wellFormed
    [] OTHER -> FALSE

is_secret_store(file) == file.name = "secret"

resolve_scoped(file) == file.scoped

(* Cheapest first; every UTF-16 unit takes one to four bytes, so the byte  *)
(* early-out only refuses what the exact measure would.                    *)
read_state(file) ==
  First(<< <<~resolve_scoped(file), "path_outside_scope">>,
           <<is_secret_store(file), "secret_file">>,
           <<file.kind = "missing", "not_found">>,
           <<file.kind \in {"unstatable", "directory"}, "not_a_file">>,
           <<file.bytes > 4 * Caps.file_units, "file_too_large">>,
           <<file.kind = "unreadable", "not_a_file">>,
           <<file.kind = "binary", "binary_file">>,
           <<file.units > Caps.file_units, "file_too_large">> >>)

(* What a question of each kind may be answered with, and its projection. *)
RawAnswers(q) ==
  CASE q.kind = "noul" -> Nouls
    [] q.kind = "choice" -> RawChoices(WireKeys("o", q.size))
    [] OTHER -> RawScores(q.size)

project_answer(q, raw) ==
  LET ok == CASE q.kind = "noul" -> validate_noul(raw) # Unknown
              [] q.kind = "choice" -> validate_choice(raw, WireKeys("o", q.size)).valid
              [] OTHER -> validate_rubric_answer(raw, q.size).valid
  IN  IF ok THEN "ok" ELSE "invalid_response"

file_judge_schema(j) == j.sized /\ j.question.kind \in {"noul", "choice", "score"}

file_judge_refusal(j) ==
  IF ~file_judge_schema(j) \/ ~build_question(j.question) THEN "invalid_arguments" ELSE read_state(j.file)

file_judge(j, raw) == [status |-> project_answer(j.question, raw), raw |-> <<raw>>, action |-> "none"]

--------------------------------------------------------------------------------
Refusal(j) ==
  CASE j.tool = "classify" -> classify_refusal(j)
    [] j.tool = "compare" -> IF compare_schema(j) THEN "none" ELSE "invalid_arguments"
    [] j.tool = "decide" -> decide_refusal(j)
    [] j.tool = "find" -> IF find_schema(j) THEN "none" ELSE "invalid_arguments"
    [] j.tool = "rerank" -> rerank_refusal(j)
    [] j.tool = "score" -> IF score_schema(j) THEN "none" ELSE "invalid_arguments"
    [] j.tool = "screen" -> IF screen_schema(j) THEN "none" ELSE "invalid_arguments"
    [] j.tool = "extract" -> extract_refusal(j)
    [] j.tool = "file_judge" -> file_judge_refusal(j)

JudgmentInit == stage = "idle" /\ job = NoJob /\ fields = <<>> /\ result = NoResult

Done(r) == stage' = "done" /\ result' = r

Call ==
  /\ stage = "idle"
  /\ \E j \in Jobs :
       /\ job' = j
       /\ IF Refusal(j) # "none" THEN Done(Refused(Refusal(j)))
          ELSE stage' = (IF j.tool = "extract" THEN "matching" ELSE "asked") /\ UNCHANGED result
  /\ UNCHANGED fields

(* find_candidates: the fields are matched one after another; a refusal by *)
(* the dialect, the queue bound, the deadline or a worker is a broken row. *)
find_candidates ==
  /\ stage = "matching" /\ Len(fields) < Len(job.ids)
  /\ \E found \in Finds : fields' = Append(fields, found)
  /\ UNCHANGED <<stage, job, result>>

(* The candidates of all fields share one budget; nothing is asked when no *)
(* field has any.                                                          *)
BuildExtract ==
  /\ stage = "matching" /\ Len(fields) = Len(job.ids)
  /\ LET askable == {i \in DOMAIN fields : Askable(fields[i])}
         units == MapThenSumSet(LAMBDA i : fields[i].units, DOMAIN fields)
     IN  CASE units > Caps.units -> Done(Refused("input_too_large"))
           [] units <= Caps.units /\ askable = {} ->
                Done(extract(job, fields, [i \in DOMAIN fields |-> [object |-> FALSE]]))
           [] OTHER -> stage' = "asked" /\ UNCHANGED result
  /\ UNCHANGED <<job, fields>>

Asked(tool) == stage = "asked" /\ job.tool = tool /\ UNCHANGED <<job, fields>>

AnswerClassify ==
  /\ Asked("classify")
  /\ \E raw \in [DOMAIN job.items -> RawChoices(ClassKeys(job))] : Done(classify(job, raw))

AnswerCompare ==
  /\ Asked("compare")
  /\ \E overall \in RawChoices(Relations), aspects \in [1..job.aspects -> RawChoices(Relations)] :
       Done(compare(job, overall, aspects))

AnswerDecide ==
  /\ Asked("decide")
  /\ \E raw \in RawChoices(OptionKeys(job)),
        checks \in [DOMAIN job.ids -> [1..job.requirements -> RawChoices(RELATION_CRITERIA)]] :
       Done(decide(job, raw, checks))

AnswerFind ==
  /\ Asked("find")
  /\ \E best \in RawChoices(Range(unique_ids(job.ids))), exists \in Nouls : Done(find(job, best, exists))

AnswerRerank ==
  /\ Asked("rerank")
  /\ \E raw \in [DOMAIN job.ids -> Nouls] : Done(rerank(job, raw))

AnswerScore ==
  /\ Asked("score")
  /\ \E raw \in RawScores(job.levels) : Done(score(job, raw))

AnswerScreen ==
  /\ Asked("screen")
  /\ \E injection, substance \in Nouls, relevance \in IF job.purpose THEN Nouls ELSE {Absent} :
       Done(screen(job, injection, substance, relevance))

AnswerExtract ==
  /\ Asked("extract")
  /\ \E raw \in {f \in [DOMAIN fields -> UNION {RawChoices(CandidateKeys(fields[i])) : i \in DOMAIN fields}] :
                   \A i \in DOMAIN fields : IF Askable(fields[i]) THEN f[i] \in RawChoices(CandidateKeys(fields[i]))
                                            ELSE f[i] = [object |-> FALSE]} :
       Done(extract(job, fields, raw))

AnswerFileJudge ==
  /\ Asked("file_judge")
  /\ \E raw \in RawAnswers(job.question) : Done(file_judge(job, raw))

Reset ==
  /\ stage = "done"
  /\ stage' = "idle" /\ job' = NoJob /\ fields' = <<>> /\ result' = NoResult

JudgmentNext ==
  \/ Call \/ find_candidates \/ BuildExtract \/ AnswerClassify \/ AnswerCompare \/ AnswerDecide \/ AnswerFind
  \/ AnswerRerank \/ AnswerScore \/ AnswerScreen \/ AnswerExtract \/ AnswerFileJudge

--------------------------------------------------------------------------------
Replied(tool) == stage = "done" /\ job.tool = tool /\ result.status # "error"

(* The answer names this pick, gives it the probability asked for, and     *)
(* leaves every other option that far behind.                              *)
Backs(raw, pick, keys) ==
  /\ raw.object /\ raw.choice = pick /\ raw.probabilities[pick] >= job.auto_accept
  /\ \A k \in keys \ {pick} : raw.probabilities[pick] - raw.probabilities[k] >= job.minimum_margin

(* ADR-0002: nothing is settled without the answer that settles it.  A row *)
(* that says auto has an answer whose pick is at auto_accept and that far  *)
(* ahead of every other option (ADR-0031: under the caller's own id); an   *)
(* extracted value or a definite not_found comes from a universe that is   *)
(* whole; content passes the screen only when every question was answered. *)
SettledIsBacked ==
  /\ Replied("classify") => \A i \in DOMAIN result.rows : result.rows[i].decision = "auto" =>
       \E c \in DOMAIN job.classes : /\ Externals(job.classes, "class")[c] = result.rows[i].class
                                     /\ Backs(result.raw[i], <<"c", c - 1>>, ClassKeys(job))
  /\ Replied("compare") => \A i \in DOMAIN result.rows : result.rows[i].decision = "auto" =>
       Backs(result.raw[i], result.rows[i].relation, Relations)
  /\ Replied("compare") /\ result.action = "auto" => result.rows[1].decision = "auto"
  /\ Replied("extract") => \A i \in DOMAIN result.rows : result.rows[i].status \in {"auto", "not_found"} =>
       LET field == result.found[i]
       IN  /\ ~field.error /\ ~field.truncated /\ field.too_long = 0
           /\ field.candidates > 0 =>
                Backs(result.raw[i], IF result.rows[i].status = "auto" THEN result.rows[i].value ELSE NoneOfThem,
                      CandidateKeys(field))
  /\ Replied("extract") /\ result.call_action = "auto" =>
       \A i \in DOMAIN result.rows : result.rows[i].status \in {"auto", "not_found"}
  /\ Replied("screen") /\ result.recommendation = "pass" =>
       /\ \A i \in DOMAIN result.raw : result.raw[i] \in 30..100 \/ i = 1
       /\ result.raw[1] < job.block_at /\ result.raw[1] < job.review_at

(* What jev_find and jev_rerank return is ordered: by score, ties in the   *)
(* caller's order, each candidate once under an id of its own, and nothing *)
(* left out beats anything returned.                                       *)
RankingHonest ==
  (Replied("find") \/ Replied("rerank")) /\ result.status = "ok" =>
    LET before(i, j) == result.score[i] > result.score[j] \/ (result.score[i] = result.score[j] /\ i < j)
    IN  /\ IsInjective(result.ids) /\ Omitted \notin Range(result.ids)
        /\ \A m, n \in DOMAIN result.top : m < n => before(result.top[m], result.top[n])
        /\ \A n \in DOMAIN result.top, i \in DOMAIN result.ids :
             i \in Range(result.top) \/ before(result.top[n], i)
        /\ Len(result.top) < Len(result.ids) => Len(result.top) = job.top_k

(* Nothing a one-question tool returns says more than the answers it got.  *)
AnswersHonest == SettledIsBacked /\ RankingHonest
================================================================================
