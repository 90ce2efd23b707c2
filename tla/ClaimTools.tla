------------------------------ MODULE ClaimTools ------------------------------
(***************************************************************************)
(* jev_verify and jev_gate over one diff (tools/verify.py, tools/gate.py,  *)
(* tools/review_half.py) with the policy they apply (policy/actions.py,    *)
(* claims.py, review.py, thresholds.py) and the ids they give to evidence  *)
(* (ids.py).  Jev may answer anything; what the reply then says is the     *)
(* policy's doing.                                                         *)
(*                                                                         *)
(* Scores, confidences and thresholds in [0, 1] are integers in 0..Scale.  *)
(* An id is a sequence: <<"diff">> is `diff`, <<"diff", 1>> is `diff_1`.   *)
(***************************************************************************)
EXTENDS Integers, FiniteSets, FiniteSetsExt, Sequences, SequencesExt

CONSTANTS Scale,
          Claims,        \* the claims of a call
          RawIds,        \* the ids callers give to evidence, sanitized; <<>> is none
          MaxItems,      \* bound: evidence items of a call
          EvidenceMax,   \* GATE.evidence_items
          Settings,      \* the auto_accept, review_at and composite_floor of calls
          Reviews        \* what Jev may answer to the review rubric

VARIABLES phase, tool, args, evidence, reply

claimVars == <<phase, tool, args, evidence, reply>>

Unknown == -1     \* a confidence that is absent, or None
Malformed == -2   \* a confidence that is no number in [0, 1]

NoneHatch == <<"none">>  \* the id of the `none` hatch, and of an item that calls itself that
Invalid == <<"invalid", 0>>

Unit == 0..Scale

ASSUME ClaimToolsAssumption ==
  /\ Scale \in Nat /\ MaxItems \in Nat \ {0} /\ EvidenceMax \in Nat
  /\ \A id \in RawIds : Len(id) \in Nat /\ id = [i \in 1..Len(id) |-> id[i]]
  /\ Settings \subseteq [auto_accept : Unit, review_at : Unit \cup {Unknown}, floor : Unit]
  /\ Reviews \subseteq [valid : BOOLEAN, composite : Unit, safe_to_apply : Unit,
                        min_confidence : Unit \cup {Unknown}]

Verdicts == {"verified", "contradicted", "unsupported"}

NoArgs == [auto_accept |-> 0, review_at |-> 0, floor |-> 0, truncated |-> FALSE]
NoReply == [status |-> "none"]

--------------------------------------------------------------------------------
(* actions.py *)

WorstAction(actions) ==
  CASE "escalate" \in actions -> "escalate"
    [] "escalate" \notin actions /\ "review" \in actions -> "review"
    [] OTHER -> "auto"

RequireCompleteContext(action, truncated) == IF truncated /\ action = "auto" THEN "review" ELSE action

VerifyAction(confidence, auto_accept) == IF confidence >= auto_accept THEN "auto" ELSE "review"

(* claims.py *)

(* Fault: an unknown confidence is compared like a number. *)
ClaimActionUnguarded(verdict, confidence, auto_accept, review_at) ==
  CASE verdict = "contradicted" /\ confidence >= auto_accept -> "escalate"
    [] verdict = "verified" -> "auto"
    [] OTHER -> "review"

ClaimAction(verdict, confidence, auto_accept, review_at) ==
  CASE confidence = Unknown \/ confidence < review_at -> "escalate"
    [] /\ confidence # Unknown /\ confidence >= review_at
       /\ verdict = "contradicted" /\ confidence >= auto_accept -> "escalate"
    [] /\ confidence # Unknown /\ confidence >= review_at
       /\ verdict = "verified" /\ confidence >= auto_accept -> "auto"
    [] OTHER -> "review"

(* An item is a record of its id and whether it is a caller note; a source *)
(* that was not asked for, or not valid, names none of them.               *)
NoteBlocksAuto(action, source, items) ==
  action = "auto" /\ \E i \in DOMAIN items : items[i].id = source /\ items[i].note

VerifyClaimAction(confidence, auto_accept, source, items) ==
  LET action == IF confidence = Unknown THEN "review" ELSE VerifyAction(confidence, auto_accept)
  IN  IF NoteBlocksAuto(action, source, items) THEN "review" ELSE action

GateClaimAction(verdict, confidence, t, truncated, source, items) ==
  LET action == RequireCompleteContext(ClaimAction(verdict, confidence, t.auto_accept, t.review_at), truncated)
  IN  IF NoteBlocksAuto(action, source, items) THEN "review" ELSE action

BelowAutoAccept(c, t) == t.review_at <= c.confidence /\ c.confidence < t.auto_accept

(* gate_reason_codes; claims are the valid ones' [verdict, confidence]. *)
GateReasonCodes(truncated, review, invalid, valid, action, t, caller_note) ==
  {code \in {"incomplete_context", "invalid_response", "review_escalated", "review_required",
             "claims_contradicted", "claims_unsupported", "claim_confidence_low",
             "claim_confidence_below_auto_accept", "caller_note_only", "accepted"} :
     CASE code = "incomplete_context" -> truncated
       [] code = "invalid_response" -> invalid
       [] code = "review_escalated" -> review = "escalate"
       [] code = "review_required" -> review = "review"
       [] code = "claims_contradicted" -> \E c \in valid : c.verdict = "contradicted"
       [] code = "claims_unsupported" -> \E c \in valid : c.verdict = "unsupported"
       [] code = "claim_confidence_low" -> \E c \in valid : c.confidence < t.review_at
       [] code = "claim_confidence_below_auto_accept" -> \E c \in valid : BelowAutoAccept(c, t)
       [] code = "caller_note_only" -> caller_note
       [] code = "accepted" -> action = "auto"}

(* review.py: answers to the rubric, reduced to what the action depends    *)
(* on: the composite, safe_to_apply and the lowest confidence.             *)
ReviewAction(r, t, floor) ==
  CASE r.min_confidence = Unknown \/ r.min_confidence < t.review_at \/ r.safe_to_apply < t.review_at -> "escalate"
    [] /\ r.min_confidence # Unknown /\ r.min_confidence >= t.review_at /\ r.safe_to_apply >= t.review_at
       /\ r.safe_to_apply >= t.auto_accept /\ r.composite >= floor /\ r.min_confidence >= t.auto_accept -> "auto"
    [] OTHER -> "review"

(* project_review: any malformed answer escalates. *)
ProjectReview(r, t, floor, truncated) ==
  IF ~r.valid THEN "escalate" ELSE RequireCompleteContext(ReviewAction(r, t, floor), truncated)

--------------------------------------------------------------------------------
(* ids.py *)

(* Fault: a suffixed id is not compared with those in use. *)
FreshFirstSuffix(base, used) == IF base \in used THEN Append(base, 1) ELSE base

(* The first of base, base_1, base_2, ... that is not in use. *)
Fresh(base, used) ==
  IF base \notin used THEN base
  ELSE Append(base, Min({k \in 1..(Cardinality(used) + 1) : Append(base, k) \notin used}))

(* An empty id becomes `evidence{index}`, here <<"evidence", 0, index>>. *)
Fallback(i) == <<"evidence", 0, i - 1>>

EnsureUniqueIds(items) ==
  LET out[i \in 0..Len(items)] ==
        IF i = 0 THEN <<>>
        ELSE LET done == out[i - 1]
                 base == IF items[i].id = <<>> THEN Fallback(i) ELSE items[i].id
             IN  Append(done, [items[i] EXCEPT !.id = Fresh(base, {done[j].id : j \in 1..(i - 1)})])
  IN  out[Len(items)]

(* _implicit_evidence: the diff, and the tests when there are any. *)
Implicit(tests) == <<[id |-> <<"diff">>, note |-> FALSE]>>
                     \o (IF tests THEN <<[id |-> <<"tests">>, note |-> FALSE]>> ELSE <<>>)

EvidenceIds(items) == {items[i].id : i \in DOMAIN items}

(* resolve_policy_thresholds: an omitted review_at is the cap (0.5) or     *)
(* auto_accept, whichever is lower.                                        *)
ResolvedReviewAt(a) ==
  IF a.review_at # Unknown THEN a.review_at
  ELSE IF a.auto_accept < Scale \div 2 THEN a.auto_accept ELSE Scale \div 2

Thresholds(a) == [auto_accept |-> a.auto_accept, review_at |-> ResolvedReviewAt(a)]

--------------------------------------------------------------------------------
Items == UNION {[1..n -> [id : RawIds, note : BOOLEAN]] : n \in 1..MaxItems}

(* What validate_choice makes of an answer to a claim question. *)
ClaimAnswers ==
  [valid : {TRUE}, verdict : Verdicts, confidence : Unit \cup {Unknown, Malformed}]
    \cup {[valid |-> FALSE, verdict |-> "unsupported", confidence |-> Unknown]}

ClaimInit ==
  /\ phase = "idle" /\ tool = "none"
  /\ args = NoArgs /\ evidence = <<>> /\ reply = NoReply

(* jev_verify, up to the question; it has no review_at. *)
CallVerify ==
  /\ phase = "idle"
  /\ \E items \in Items, s \in Settings :
       /\ args' = [auto_accept |-> s.auto_accept, review_at |-> 0, floor |-> 0, truncated |-> FALSE]
       /\ evidence' = EnsureUniqueIds(items)
  /\ tool' = "verify" /\ phase' = "asked"
  /\ UNCHANGED reply

Given(s, truncated) ==
  [auto_accept |-> s.auto_accept, review_at |-> s.review_at, floor |-> s.floor, truncated |-> truncated]

(* jev_gate, up to the question: an inverted pair of thresholds and the    *)
(* two evidence budgets are refused first.                                 *)
CallGate ==
  /\ phase = "idle"
  /\ \E items \in Items, s \in Settings, tests, truncated, oversize \in BOOLEAN :
       IF ResolvedReviewAt(s) > s.auto_accept \/ Len(items) > EvidenceMax \/ oversize
       THEN /\ phase' = "done" /\ reply' = [status |-> "error"]
            /\ UNCHANGED <<args, evidence>>
       ELSE /\ phase' = "asked" /\ args' = Given(s, truncated)
            /\ evidence' = EnsureUniqueIds(EnsureUniqueIds(items) \o Implicit(tests))
            /\ UNCHANGED reply
  /\ tool' = "gate"

(* The `source` questions are asked only over several items; an invalid    *)
(* answer names none.                                                      *)
Sources == IF Len(evidence) > 1 THEN EvidenceIds(evidence) \cup {NoneHatch, Invalid} ELSE {Invalid}

(* jev_verify refuses a malformed confidence, and reviews an unknown one. *)
VerifyRow(answer, source) ==
  IF answer.valid /\ answer.confidence # Malformed
  THEN VerifyClaimAction(answer.confidence, args.auto_accept, source, evidence)
  ELSE "review"

AnswerVerify ==
  /\ phase = "asked" /\ tool = "verify"
  /\ \E claim \in [Claims -> ClaimAnswers], source \in [Claims -> Sources] :
       reply' = [status |-> "ok", claim |-> claim, source |-> source,
                 row |-> [c \in Claims |-> VerifyRow(claim[c], source[c])]]
  /\ phase' = "done"
  /\ UNCHANGED <<tool, args, evidence>>

(* For jev_gate a malformed confidence is an unknown one. *)
Known(confidence) == IF confidence = Malformed THEN Unknown ELSE confidence

(* _verify_claims: the row of a claim, *)
GateRow(answer, source) ==
  IF answer.valid
  THEN GateClaimAction(answer.verdict, Known(answer.confidence), Thresholds(args), args.truncated, source, evidence)
  ELSE "escalate"

(* the judgments of the valid ones, *)
Judgments(claim) ==
  {[verdict |-> claim[c].verdict, confidence |-> Known(claim[c].confidence)] :
     c \in {d \in Claims : claim[d].valid}}

(* and whether a row cites a note: `none` is blanked before that is asked. *)
CallerNote(claim, source) ==
  \E c \in Claims : claim[c].valid /\ source[c] # NoneHatch /\ NoteBlocksAuto("auto", source[c], evidence)

(* _ask_gate once Jev has answered. *)
GateReply(claim, source, review) ==
  LET reviewed == ProjectReview(review, Thresholds(args), args.floor, args.truncated)
      row == [c \in Claims |-> GateRow(claim[c], source[c])]
      action == WorstAction({reviewed} \cup {row[c] : c \in Claims})
  IN  [status |-> "ok", claim |-> claim, source |-> source, row |-> row, review |-> review,
       action |-> action,
       codes |-> GateReasonCodes(args.truncated, reviewed, ~review.valid \/ \E c \in Claims : ~claim[c].valid,
                                 Judgments(claim), action, Thresholds(args), CallerNote(claim, source))]

AnswerGate ==
  /\ phase = "asked" /\ tool = "gate"
  /\ \E claim \in [Claims -> ClaimAnswers], source \in [Claims -> Sources], review \in Reviews :
       reply' = GateReply(claim, source, review)
  /\ phase' = "done"
  /\ UNCHANGED <<tool, args, evidence>>

(* The next call. *)
Recycle ==
  /\ phase = "done"
  /\ phase' = "idle" /\ tool' = "none" /\ args' = NoArgs /\ evidence' = <<>> /\ reply' = NoReply

ClaimNext == CallVerify \/ CallGate \/ AnswerVerify \/ AnswerGate \/ Recycle

ClaimSpec == ClaimInit /\ [][ClaimNext]_claimVars
--------------------------------------------------------------------------------
ClaimTypeOK ==
  /\ phase \in {"idle", "asked", "done"} /\ tool \in {"none", "verify", "gate"}
  /\ args \in [auto_accept : Unit, review_at : Unit \cup {Unknown}, floor : Unit, truncated : BOOLEAN]
  /\ phase = "asked" => ResolvedReviewAt(args) <= args.auto_accept
  /\ reply.status \in {"none", "ok", "error"}

(* A source names one evidence item: the ids asked about are distinct,     *)
(* whatever the caller called its items, and none of them is empty.        *)
IdsAreUnique ==
  /\ Cardinality(EvidenceIds(evidence)) = Len(evidence)
  /\ <<>> \notin EvidenceIds(evidence)
  /\ phase = "asked" => evidence # <<>>

Replied(t) == tool = t /\ reply.status = "ok"

Notes == {evidence[i].id : i \in {j \in DOMAIN evidence : evidence[j].note}}

(* ADR-0002, ADR-0067: the gate says auto only over uncut input, a valid   *)
(* review safe enough, and claims all verified with a known confidence of  *)
(* at least auto_accept and resting on something else than a caller note.  *)
GateAutoIsEarned ==
  Replied("gate") /\ reply.action = "auto" =>
    /\ ~args.truncated
    /\ reply.review.valid /\ reply.review.safe_to_apply >= args.auto_accept
    /\ reply.review.min_confidence >= args.auto_accept /\ reply.review.composite >= args.floor
    /\ \A c \in Claims : /\ reply.claim[c].valid /\ reply.claim[c].verdict = "verified"
                         /\ reply.claim[c].confidence >= args.auto_accept
                         /\ reply.source[c] \notin Notes

(* jev_verify lets a verdict stand only with a known confidence of at      *)
(* least auto_accept, and not when the source answer names a caller note.  *)
(* A source is asked for only over several items: this says nothing of a   *)
(* claim whose one item is a note, which NoteAloneIsNoAuto is about.       *)
VerifyAutoIsEarned ==
  Replied("verify") =>
    \A c \in Claims : reply.row[c] = "auto" =>
      /\ reply.claim[c].valid /\ reply.claim[c].confidence >= args.auto_accept
      /\ reply.source[c] \notin Notes

(* The reason codes account for the action: an escalation names what may   *)
(* escalate, a review what may demote, auto is `accepted` and nothing      *)
(* speaks against it.  Left out: a note that calls itself `none`.          *)
CodesExplainAction ==
  Replied("gate") /\ NoneHatch \notin Notes =>
    /\ reply.action = "escalate" => reply.codes \cap {"invalid_response", "review_escalated",
                                                      "claims_contradicted", "claim_confidence_low"} # {}
    /\ reply.action = "review" => reply.codes \cap {"incomplete_context", "review_required", "claims_contradicted",
                                                    "claims_unsupported", "claim_confidence_below_auto_accept",
                                                    "caller_note_only"} # {}
    /\ reply.action = "auto" => reply.codes = {"accepted"}

(* ADR-0067, claims.py, "never auto on a caller note alone": a claim that  *)
(* jev_verify finds verified is auto only when some item is more than a    *)
(* note.  The code does not keep this: over a single note it asks for no   *)
(* source, and over several notes the answer may be none of them, and then *)
(* nothing blocks auto.                                                    *)
NoteAloneIsNoAuto ==
  Replied("verify") =>
    \A c \in Claims : reply.row[c] = "auto" /\ reply.claim[c].verdict = "verified" =>
      \E i \in DOMAIN evidence : ~evidence[i].note

(* jev_verify and jev_gate let a claim through only with the confidence    *)
(* asked for, the gate only when it is verified, none on a source that is  *)
(* named as a caller note; and the gate's codes say why it let nothing     *)
(* through.                                                                *)
AutoEarned == GateAutoIsEarned /\ VerifyAutoIsEarned /\ CodesExplainAction
================================================================================
