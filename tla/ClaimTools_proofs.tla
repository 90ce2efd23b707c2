--------------------------- MODULE ClaimTools_proofs ---------------------------
(***************************************************************************)
(* Proofs about ClaimTools, for every scale, every number of claims and    *)
(* evidence items and every id: what an `auto` of jev_gate and of          *)
(* jev_verify rests on, and that the gate's reason codes account for its   *)
(* action.  The thresholds of a question are ordered (TypeOK); the rest    *)
(* follows from one reply.                                                 *)
(***************************************************************************)
EXTENDS ClaimTools, FiniteSetTheorems, SequenceTheorems, WellFoundedInduction, TLAPS

Tiers == {"auto", "review", "escalate"}

(* worst_action is the worst of what it is given. *)
LEMMA WorstIsWorst ==
  ASSUME NEW S \in SUBSET Tiers
  PROVE  /\ WorstAction(S) \in Tiers
         /\ WorstAction(S) = "auto" => \A a \in S : a = "auto"
         /\ WorstAction(S) = "review" => "review" \in S
         /\ WorstAction(S) = "escalate" => "escalate" \in S
BY DEF WorstAction, Tiers

(* An omitted review_at is a number of the scale. *)
LEMMA ReviewAtType ==
  ASSUME NEW s, s.auto_accept \in Unit, s.review_at \in Unit \cup {Unknown}
  PROVE  ResolvedReviewAt(s) \in Nat
BY ClaimToolsAssumption DEF ResolvedReviewAt, Unit, Unknown

(* A usable answer's confidence is unknown or in the scale. *)
LEMMA ConfidenceType ==
  ASSUME NEW answer \in ClaimAnswers
  PROVE  /\ Known(answer.confidence) \in Int
         /\ Known(answer.confidence) = Unknown \/ Known(answer.confidence) >= 0
         /\ Known(answer.confidence) >= 0 => answer.confidence = Known(answer.confidence)
         /\ answer.valid \in BOOLEAN
         /\ answer.verdict \in Verdicts
<1> DEFINE x == answer.confidence
<1>0. \/ answer \in [valid : {TRUE}, verdict : Verdicts, confidence : Unit \cup {Unknown, Malformed}]
      \/ answer = [valid |-> FALSE, verdict |-> "unsupported", confidence |-> Unknown]
  BY DEF ClaimAnswers
<1>1. /\ answer.valid = TRUE \/ answer.valid = FALSE
      /\ answer.verdict \in Verdicts /\ x \in Unit \cup {-1, -2}
  <2>1. CASE answer \in [valid : {TRUE}, verdict : Verdicts, confidence : Unit \cup {Unknown, Malformed}]
    BY <2>1 DEF Unknown, Malformed
  <2>2. CASE answer = [valid |-> FALSE, verdict |-> "unsupported", confidence |-> Unknown]
    <3>1. answer.valid = FALSE /\ answer.verdict = "unsupported" /\ answer.confidence = -1
      BY <2>2 DEF Unknown
    <3> QED BY <3>1 DEF Verdicts
  <2> QED BY <1>0, <2>1, <2>2
<1>2. answer.valid \in BOOLEAN
  BY <1>1
<1>3. x \in Int /\ (x = -2 \/ x = -1 \/ x >= 0)
  BY <1>1, ClaimToolsAssumption DEF Unit
<1>4. Known(x) = IF x = -2 THEN -1 ELSE x
  BY DEF Known, Unknown, Malformed
<1> HIDE DEF x
<1>5. /\ Known(x) \in Int
      /\ Known(x) = -1 \/ Known(x) >= 0
      /\ Known(x) >= 0 => x = Known(x)
  BY <1>3, <1>4
<1> QED BY <1>1, <1>2, <1>5 DEF x, Unknown

(* The action of one gate claim, tier by tier. *)
LEMMA GateClaimTiers ==
  ASSUME NEW verdict \in Verdicts, NEW confidence \in Int, confidence = Unknown \/ confidence >= 0,
         NEW t, t.auto_accept \in Int, t.review_at \in Nat, t.review_at <= t.auto_accept,
         NEW truncated \in BOOLEAN, NEW source, NEW items,
         NEW action, action = GateClaimAction(verdict, confidence, t, truncated, source, items)
  PROVE  /\ action \in Tiers
         /\ action = "auto" => /\ ~truncated /\ verdict = "verified" /\ confidence >= t.auto_accept
                               /\ ~NoteBlocksAuto("auto", source, items)
         /\ action = "review" => \/ truncated
                                 \/ NoteBlocksAuto("auto", source, items)
                                 \/ verdict \in {"contradicted", "unsupported"}
                                 \/ t.review_at <= confidence /\ confidence < t.auto_accept
         /\ action = "escalate" => confidence < t.review_at \/ verdict = "contradicted"
<1> DEFINE plain == ClaimAction(verdict, confidence, t.auto_accept, t.review_at)
           whole == RequireCompleteContext(plain, truncated)
<1>1. /\ plain \in Tiers
      /\ plain = "auto" => verdict = "verified" /\ confidence >= t.auto_accept
      /\ plain = "review" => \/ verdict \in {"contradicted", "unsupported"}
                             \/ t.review_at <= confidence /\ confidence < t.auto_accept
      /\ plain = "escalate" => confidence < t.review_at \/ verdict = "contradicted"
  BY DEF ClaimAction, Tiers, Verdicts, Unknown
<1> HIDE DEF plain
<1>2. /\ whole = "auto" => plain = "auto" /\ ~truncated
      /\ whole = "review" => plain = "review" \/ truncated
      /\ whole = "escalate" => plain = "escalate"
      /\ whole \in Tiers
  BY <1>1 DEF RequireCompleteContext, Tiers
<1>3. action = IF NoteBlocksAuto(whole, source, items) THEN "review" ELSE whole
  BY DEF GateClaimAction, plain
<1> HIDE DEF whole
<1>4. NoteBlocksAuto(whole, source, items) => whole = "auto" /\ NoteBlocksAuto("auto", source, items)
  BY DEF NoteBlocksAuto
<1>5. whole = "auto" => (NoteBlocksAuto(whole, source, items) <=> NoteBlocksAuto("auto", source, items))
  BY DEF NoteBlocksAuto
<1> QED BY <1>1, <1>2, <1>3, <1>4, <1>5 DEF Tiers

(* The action of the review half. *)
LEMMA ReviewTiers ==
  ASSUME NEW r \in Reviews,
         NEW t, t.auto_accept \in Int, t.review_at \in Nat, t.review_at <= t.auto_accept,
         NEW floor \in Int, NEW truncated \in BOOLEAN,
         NEW action, action = ProjectReview(r, t, floor, truncated)
  PROVE  /\ action \in Tiers
         /\ action = "auto" => /\ ~truncated /\ r.valid /\ r.safe_to_apply >= t.auto_accept
                               /\ r.min_confidence >= t.auto_accept /\ r.composite >= floor
<1>1. /\ r.safe_to_apply \in Int /\ r.min_confidence \in Int /\ r.composite \in Int
      /\ r.valid \in BOOLEAN
  BY ClaimToolsAssumption DEF Unit, Unknown
<1> DEFINE plain == ReviewAction(r, t, floor)
<1>2. /\ plain \in Tiers
      /\ plain = "auto" => /\ r.safe_to_apply >= t.auto_accept
                           /\ r.min_confidence >= t.auto_accept /\ r.composite >= floor
  BY <1>1 DEF ReviewAction, Tiers, Unknown
<1> HIDE DEF plain
<1>3. action = IF ~r.valid THEN "escalate" ELSE IF truncated /\ plain = "auto" THEN "review" ELSE plain
  BY DEF ProjectReview, RequireCompleteContext, plain
<1> QED BY <1>1, <1>2, <1>3 DEF Tiers

--------------------------------------------------------------------------------
(* The thresholds a question is asked under. *)
LEMMA AskedThresholds ==
  ASSUME ClaimTypeOK, phase = "asked"
  PROVE  /\ args.auto_accept \in Int /\ args.floor \in Int /\ args.truncated \in BOOLEAN
         /\ Thresholds(args).auto_accept = args.auto_accept
         /\ Thresholds(args).auto_accept \in Int /\ Thresholds(args).review_at \in Nat
         /\ Thresholds(args).review_at <= Thresholds(args).auto_accept
<1>1. /\ args.auto_accept \in Unit /\ args.review_at \in Unit \cup {Unknown}
      /\ args.floor \in Unit /\ args.truncated \in BOOLEAN
      /\ ResolvedReviewAt(args) <= args.auto_accept
  BY DEF ClaimTypeOK
<1>2. ResolvedReviewAt(args) \in Nat
  BY <1>1, ReviewAtType
<1> QED BY <1>1, <1>2, ClaimToolsAssumption DEF Thresholds, Unit

(* The rows of one gate reply. *)
LEMMA GateRowTiers ==
  ASSUME ClaimTypeOK, phase = "asked", NEW answer \in ClaimAnswers, NEW source, NEW row, row = GateRow(answer, source)
  PROVE  LET t == Thresholds(args)
             k == Known(answer.confidence)
         IN  /\ row \in Tiers
             /\ row = "auto" => /\ ~args.truncated /\ answer.valid /\ answer.verdict = "verified"
                                /\ k >= args.auto_accept /\ answer.confidence = k
                                /\ ~NoteBlocksAuto("auto", source, evidence)
             /\ row = "review" => /\ answer.valid
                                  /\ \/ args.truncated
                                     \/ NoteBlocksAuto("auto", source, evidence)
                                     \/ answer.verdict \in {"contradicted", "unsupported"}
                                     \/ t.review_at <= k /\ k < t.auto_accept
             /\ row = "escalate" => \/ ~answer.valid
                                    \/ answer.valid /\ (k < t.review_at \/ answer.verdict = "contradicted")
<1> DEFINE t == Thresholds(args)
           k == Known(answer.confidence)
<1>1. /\ t.auto_accept = args.auto_accept /\ t.auto_accept \in Int /\ t.review_at \in Nat
      /\ t.review_at <= t.auto_accept /\ args.truncated \in BOOLEAN
  BY AskedThresholds
<1>2. /\ k \in Int /\ (k = Unknown \/ k >= 0) /\ (k >= 0 => answer.confidence = k)
      /\ answer.valid \in BOOLEAN /\ answer.verdict \in Verdicts
  BY ConfidenceType
<1>3. CASE ~answer.valid
  BY <1>3 DEF GateRow, Tiers
<1>4. CASE answer.valid
  <2>1. row = GateClaimAction(answer.verdict, k, t, args.truncated, source, evidence)
    BY <1>4 DEF GateRow
  <2> HIDE DEF t, k
  <2>2. /\ row \in Tiers
        /\ row = "auto" => /\ ~args.truncated /\ answer.verdict = "verified" /\ k >= t.auto_accept
                           /\ ~NoteBlocksAuto("auto", source, evidence)
        /\ row = "review" => \/ args.truncated
                             \/ NoteBlocksAuto("auto", source, evidence)
                             \/ answer.verdict \in {"contradicted", "unsupported"}
                             \/ t.review_at <= k /\ k < t.auto_accept
        /\ row = "escalate" => k < t.review_at \/ answer.verdict = "contradicted"
    BY <1>1, <1>2, <2>1, GateClaimTiers
  <2>3. k >= t.auto_accept => k >= 0
    BY <1>1, <1>2
  <2> QED BY <1>1, <1>2, <1>4, <2>2, <2>3 DEF t, k
<1> QED BY <1>2, <1>3, <1>4

(* The parts of one gate reply. *)
LEMMA GateReplyParts ==
  ASSUME ClaimTypeOK, phase = "asked",
         NEW claim \in [Claims -> ClaimAnswers], NEW source, NEW review \in Reviews
  PROVE  LET reviewed == ProjectReview(review, Thresholds(args), args.floor, args.truncated)
             answer == GateReply(claim, source, review)
         IN  /\ answer.claim = claim /\ answer.source = source /\ answer.review = review
             /\ answer.codes = GateReasonCodes(args.truncated, reviewed,
                                               ~review.valid \/ \E c \in Claims : ~claim[c].valid,
                                               Judgments(claim), answer.action, Thresholds(args),
                                               CallerNote(claim, source))
             /\ answer.action \in Tiers
             /\ answer.action = "auto" => /\ reviewed = "auto"
                                          /\ \A c \in Claims : GateRow(claim[c], source[c]) = "auto"
             /\ answer.action = "review" => \/ reviewed = "review"
                                            \/ \E c \in Claims : GateRow(claim[c], source[c]) = "review"
             /\ answer.action = "escalate" => \/ reviewed = "escalate"
                                              \/ \E c \in Claims : GateRow(claim[c], source[c]) = "escalate"
<1> DEFINE reviewed == ProjectReview(review, Thresholds(args), args.floor, args.truncated)
           answer == GateReply(claim, source, review)
<1> DEFINE S == {reviewed} \cup {GateRow(claim[c], source[c]) : c \in Claims}
<1>1. /\ answer.action = WorstAction(S)
      /\ answer.claim = claim /\ answer.source = source /\ answer.review = review
      /\ answer.codes = GateReasonCodes(args.truncated, reviewed,
                                        ~review.valid \/ \E c \in Claims : ~claim[c].valid,
                                        Judgments(claim), answer.action, Thresholds(args),
                                        CallerNote(claim, source))
  <2>1. {reviewed} \cup {[d \in Claims |-> GateRow(claim[d], source[d])][c] : c \in Claims} = S
    OBVIOUS
  <2> QED BY <2>1 DEF GateReply
<1>2. reviewed \in Tiers
  BY AskedThresholds, ReviewTiers
<1>3. \A c \in Claims : GateRow(claim[c], source[c]) \in Tiers
  BY GateRowTiers
<1>4. S \in SUBSET Tiers
  BY <1>2, <1>3
<1> HIDE DEF S
<1>5. /\ WorstAction(S) \in Tiers
      /\ WorstAction(S) = "auto" => \A a \in S : a = "auto"
      /\ WorstAction(S) = "review" => "review" \in S
      /\ WorstAction(S) = "escalate" => "escalate" \in S
  BY <1>4, WorstIsWorst
<1> QED BY <1>1, <1>5 DEF S

--------------------------------------------------------------------------------
(* What every reachable state satisfies: no reply is left over from an     *)
(* earlier call while a call is being answered.                            *)
IInv ==
  /\ ClaimTypeOK
  /\ phase # "done" => reply.status = "none"
  /\ GateAutoIsEarned
  /\ VerifyAutoIsEarned
  /\ CodesExplainAction

(* The arguments of jev_verify. *)
LEMMA VerifyArgs ==
  ASSUME NEW s \in Settings
  PROVE  LET a == [auto_accept |-> s.auto_accept, review_at |-> 0, floor |-> 0, truncated |-> FALSE]
         IN  /\ a \in [auto_accept : Unit, review_at : Unit \cup {Unknown}, floor : Unit, truncated : BOOLEAN]
             /\ ResolvedReviewAt(a) <= a.auto_accept
<1> DEFINE a == [auto_accept |-> s.auto_accept, review_at |-> 0, floor |-> 0, truncated |-> FALSE]
<1>1. s.auto_accept \in Unit
  BY ClaimToolsAssumption
<1>2. a.auto_accept = s.auto_accept /\ a.review_at = 0
  OBVIOUS
<1>3. 0 \in Unit
  BY ClaimToolsAssumption DEF Unit
<1>4. ResolvedReviewAt(a) = 0
  BY <1>2 DEF ResolvedReviewAt, Unknown
<1>5. a \in [auto_accept : Unit, review_at : Unit \cup {Unknown}, floor : Unit, truncated : BOOLEAN]
  BY <1>1, <1>2, <1>3
<1>6. a.auto_accept = s.auto_accept
  BY <1>2
<1>7. ResolvedReviewAt(a) <= a.auto_accept
  BY <1>1, <1>4, <1>6, ClaimToolsAssumption DEF Unit
<1> QED BY <1>5, <1>7

(* The arguments of jev_gate, once its thresholds are found in order. *)
LEMMA GateArgs ==
  ASSUME NEW s \in Settings, NEW truncated \in BOOLEAN, ~(ResolvedReviewAt(s) > s.auto_accept)
  PROVE  LET a == Given(s, truncated)
         IN  /\ a \in [auto_accept : Unit, review_at : Unit \cup {Unknown}, floor : Unit, truncated : BOOLEAN]
             /\ ResolvedReviewAt(a) <= a.auto_accept
<1> DEFINE a == Given(s, truncated)
<1>1. s.auto_accept \in Unit /\ s.review_at \in Unit \cup {Unknown} /\ s.floor \in Unit
  BY ClaimToolsAssumption
<1>2. /\ a.auto_accept = s.auto_accept /\ a.review_at = s.review_at
      /\ a \in [auto_accept : Unit, review_at : Unit \cup {Unknown}, floor : Unit, truncated : BOOLEAN]
  BY <1>1 DEF Given
<1>3. ResolvedReviewAt(a) = ResolvedReviewAt(s)
  BY <1>2 DEF ResolvedReviewAt
<1>4. ResolvedReviewAt(s) \in Nat
  BY <1>1, ReviewAtType
<1>5. ResolvedReviewAt(a) <= a.auto_accept
  BY <1>1, <1>2, <1>3, <1>4, ClaimToolsAssumption DEF Unit
<1> QED BY <1>2, <1>5

(* Every step keeps the type invariant. *)
LEMMA TypeStep ==
  ASSUME ClaimTypeOK, [ClaimNext]_claimVars
  PROVE  ClaimTypeOK'
<1> USE DEF ClaimTypeOK
<1>1. CASE CallVerify
  <2>1. PICK s \in Settings : args' = [auto_accept |-> s.auto_accept, review_at |-> 0, floor |-> 0, truncated |-> FALSE]
    BY <1>1 DEF CallVerify
  <2>2. /\ args' \in [auto_accept : Unit, review_at : Unit \cup {Unknown}, floor : Unit, truncated : BOOLEAN]
        /\ ResolvedReviewAt(args') <= args'.auto_accept
    BY <2>1, VerifyArgs, Zenon
  <2> QED BY <1>1, <2>2 DEF CallVerify
<1>2. CASE CallGate
  <2>1. PICK items \in Items, s \in Settings, tests \in BOOLEAN, truncated \in BOOLEAN, oversize \in BOOLEAN :
          IF ResolvedReviewAt(s) > s.auto_accept \/ Len(items) > EvidenceMax \/ oversize
          THEN /\ phase' = "done" /\ reply' = [status |-> "error"]
               /\ UNCHANGED <<args, evidence>>
          ELSE /\ phase' = "asked" /\ args' = Given(s, truncated)
               /\ evidence' = EnsureUniqueIds(EnsureUniqueIds(items) \o Implicit(tests))
               /\ UNCHANGED reply
    BY <1>2, Zenon DEF CallGate
  <2>2. tool' = "gate"
    BY <1>2 DEF CallGate
  <2>3. CASE phase' = "done" /\ reply' = [status |-> "error"] /\ UNCHANGED <<args, evidence>>
    BY <2>2, <2>3
  <2>4. CASE /\ ~(ResolvedReviewAt(s) > s.auto_accept)
             /\ phase' = "asked" /\ args' = Given(s, truncated) /\ UNCHANGED reply
    <3>1. /\ args' \in [auto_accept : Unit, review_at : Unit \cup {Unknown}, floor : Unit, truncated : BOOLEAN]
          /\ ResolvedReviewAt(args') <= args'.auto_accept
      BY <2>4, GateArgs, Zenon
    <3> QED BY <2>2, <2>4, <3>1
  <2> QED BY <2>1, <2>3, <2>4
<1>3. CASE AnswerVerify
  <2>1. reply'.status = "ok"
    BY <1>3 DEF AnswerVerify
  <2> QED BY <1>3, <2>1 DEF AnswerVerify
<1>4. CASE AnswerGate
  <2>1. reply'.status = "ok"
    BY <1>4 DEF AnswerGate, GateReply
  <2> QED BY <1>4, <2>1 DEF AnswerGate
<1>5. CASE Recycle
  BY <1>5, ClaimToolsAssumption DEF Recycle, NoArgs, NoReply, Unit
<1>6. CASE UNCHANGED claimVars
  BY <1>6 DEF claimVars
<1> QED BY <1>1, <1>2, <1>3, <1>4, <1>5, <1>6 DEF ClaimNext

--------------------------------------------------------------------------------
(* Which codes a gate gives. *)
LEMMA CodesGiven ==
  ASSUME NEW truncated \in BOOLEAN, NEW review, NEW invalid \in BOOLEAN, NEW valid, NEW action, NEW t,
         NEW caller_note \in BOOLEAN,
         NEW codes
  PROVE  codes = GateReasonCodes(truncated, review, invalid, valid, action, t, caller_note) =>
         /\ truncated <=> "incomplete_context" \in codes
         /\ invalid <=> "invalid_response" \in codes
         /\ review = "escalate" <=> "review_escalated" \in codes
         /\ review = "review" <=> "review_required" \in codes
         /\ (\E c \in valid : c.verdict = "contradicted") <=> "claims_contradicted" \in codes
         /\ (\E c \in valid : c.verdict = "unsupported") <=> "claims_unsupported" \in codes
         /\ (\E c \in valid : c.confidence < t.review_at) <=> "claim_confidence_low" \in codes
         /\ (\E c \in valid : BelowAutoAccept(c, t)) <=> "claim_confidence_below_auto_accept" \in codes
         /\ caller_note <=> "caller_note_only" \in codes
         /\ action = "auto" <=> "accepted" \in codes
         /\ codes \subseteq {"incomplete_context", "invalid_response", "review_escalated", "review_required",
                             "claims_contradicted", "claims_unsupported", "claim_confidence_low",
                             "claim_confidence_below_auto_accept", "caller_note_only", "accepted"}
BY DEF GateReasonCodes

(* An answer of jev_gate, claim by claim: what its judgments hold. *)
LEMMA JudgmentOf ==
  ASSUME NEW claim, NEW c \in Claims, claim[c].valid
  PROVE  \E j \in Judgments(claim) : j.verdict = claim[c].verdict /\ j.confidence = Known(claim[c].confidence)
<1> DEFINE j == [verdict |-> claim[c].verdict, confidence |-> Known(claim[c].confidence)]
<1>1. j \in Judgments(claim)
  BY Zenon DEF Judgments
<1>2. j.verdict = claim[c].verdict /\ j.confidence = Known(claim[c].confidence)
  OBVIOUS
<1> QED BY <1>1, <1>2, Zenon

(* and that each judgment is the one of a valid answer. *)
LEMMA JudgmentFrom ==
  ASSUME NEW claim, NEW j \in Judgments(claim)
  PROVE  \E c \in Claims : /\ claim[c].valid
                           /\ j.verdict = claim[c].verdict /\ j.confidence = Known(claim[c].confidence)
<1>1. PICK c \in {d \in Claims : claim[d].valid} :
        j = [verdict |-> claim[c].verdict, confidence |-> Known(claim[c].confidence)]
  BY DEF Judgments
<1> QED BY <1>1

(* The gate's answer earns its auto. *)
LEMMA GateAutoStep ==
  ASSUME ClaimTypeOK, AnswerGate
  PROVE  GateAutoIsEarned'
<1>1. PICK claim \in [Claims -> ClaimAnswers], source \in [Claims -> Sources], review \in Reviews :
        reply' = GateReply(claim, source, review)
  BY Zenon DEF AnswerGate
<1>2. phase = "asked" /\ args' = args /\ evidence' = evidence
  BY DEF AnswerGate
<1> DEFINE reviewed == ProjectReview(review, Thresholds(args), args.floor, args.truncated)
<1>3. /\ reply'.claim = claim /\ reply'.source = source /\ reply'.review = review
      /\ reply'.action = "auto" => reviewed = "auto" /\ \A c \in Claims : GateRow(claim[c], source[c]) = "auto"
  <2> DEFINE answer == GateReply(claim, source, review)
  <2>1. /\ answer.claim = claim /\ answer.source = source /\ answer.review = review
        /\ answer.action = "auto" => reviewed = "auto" /\ \A c \in Claims : GateRow(claim[c], source[c]) = "auto"
    BY <1>2, GateReplyParts
  <2> QED BY <1>1, <2>1, Zenon
<1>4. /\ args.auto_accept \in Int /\ args.floor \in Int /\ args.truncated \in BOOLEAN
      /\ Thresholds(args).auto_accept = args.auto_accept
      /\ Thresholds(args).auto_accept \in Int /\ Thresholds(args).review_at \in Nat
      /\ Thresholds(args).review_at <= Thresholds(args).auto_accept
  BY <1>2, AskedThresholds
<1> SUFFICES ASSUME reply'.action = "auto"
             PROVE  /\ ~args.truncated
                    /\ review.valid /\ review.safe_to_apply >= args.auto_accept
                    /\ review.min_confidence >= args.auto_accept /\ review.composite >= args.floor
                    /\ \A c \in Claims : /\ claim[c].valid /\ claim[c].verdict = "verified"
                                         /\ claim[c].confidence >= args.auto_accept
                                         /\ source[c] \notin Notes
  BY <1>2, <1>3 DEF GateAutoIsEarned, Notes
<1>5. /\ ~args.truncated /\ review.valid /\ review.safe_to_apply >= args.auto_accept
      /\ review.min_confidence >= args.auto_accept /\ review.composite >= args.floor
  <2>1. reviewed = "auto"
    BY <1>3
  <2> HIDE DEF reviewed
  <2>2. reviewed = ProjectReview(review, Thresholds(args), args.floor, args.truncated)
    BY DEF reviewed
  <2> QED BY <1>4, <2>1, <2>2, ReviewTiers
<1>6. ASSUME NEW c \in Claims
      PROVE  /\ claim[c].valid /\ claim[c].verdict = "verified"
             /\ claim[c].confidence >= args.auto_accept
             /\ source[c] \notin Notes
  <2>1. GateRow(claim[c], source[c]) = "auto" /\ claim[c] \in ClaimAnswers
    BY <1>3
  <2>2. /\ claim[c].valid /\ claim[c].verdict = "verified"
        /\ claim[c].confidence >= args.auto_accept
        /\ ~NoteBlocksAuto("auto", source[c], evidence)
    BY <1>2, <2>1, GateRowTiers
  <2>3. source[c] \notin Notes
    BY <2>2 DEF NoteBlocksAuto, Notes
  <2> QED BY <2>2, <2>3
<1> QED BY <1>5, <1>6

(* jev_verify's answer earns its autos. *)
LEMMA VerifyAutoStep ==
  ASSUME ClaimTypeOK, AnswerVerify
  PROVE  VerifyAutoIsEarned'
<1>1. PICK claim \in [Claims -> ClaimAnswers], source \in [Claims -> Sources] :
        reply' = [status |-> "ok", claim |-> claim, source |-> source,
                  row |-> [c \in Claims |-> VerifyRow(claim[c], source[c])]]
  BY Zenon DEF AnswerVerify
<1>2. args' = args /\ evidence' = evidence
  BY DEF AnswerVerify
<1>3. reply'.claim = claim /\ reply'.source = source
      /\ \A c \in Claims : reply'.row[c] = VerifyRow(claim[c], source[c])
  BY <1>1
<1>4. ASSUME NEW c \in Claims, VerifyRow(claim[c], source[c]) = "auto"
      PROVE  claim[c].valid /\ claim[c].confidence >= args.auto_accept /\ source[c] \notin Notes
  <2> DEFINE x == claim[c].confidence
             act == IF x = Unknown THEN "review" ELSE VerifyAction(x, args.auto_accept)
  <2>1. claim[c].valid /\ VerifyClaimAction(x, args.auto_accept, source[c], evidence) = "auto"
    BY <1>4 DEF VerifyRow
  <2>2. act = "auto" /\ ~NoteBlocksAuto(act, source[c], evidence)
    BY <2>1 DEF VerifyClaimAction
  <2>3. x >= args.auto_accept
    BY <2>2 DEF VerifyAction
  <2>4. source[c] \notin Notes
    BY <2>2 DEF NoteBlocksAuto, Notes
  <2> QED BY <2>1, <2>3, <2>4
<1> QED BY <1>2, <1>3, <1>4 DEF VerifyAutoIsEarned, Notes

(* A row that an item's being a note holds back makes the gate say so,     *)
(* unless that note is called `none`.                                      *)
LEMMA NoteIsSaid ==
  ASSUME NEW claim, NEW source, NEW c \in Claims, claim[c].valid,
         NoteBlocksAuto("auto", source[c], evidence), NoneHatch \notin Notes
  PROVE  CallerNote(claim, source)
<1>1. source[c] \in Notes
  BY DEF NoteBlocksAuto, Notes
<1>2. source[c] # NoneHatch
  BY <1>1
<1> QED BY <1>2 DEF CallerNote

(* and it says so of no other row. *)
LEMMA NoteIsSaidOfNotes ==
  ASSUME NEW claim, NEW source, CallerNote(claim, source)
  PROVE  \E c \in Claims : NoteBlocksAuto("auto", source[c], evidence)
BY DEF CallerNote

(* The gate's answer explains its action. *)
LEMMA CodesStep ==
  ASSUME ClaimTypeOK, AnswerGate
  PROVE  CodesExplainAction'
<1>1. PICK claim \in [Claims -> ClaimAnswers], source \in [Claims -> Sources], review \in Reviews :
        reply' = GateReply(claim, source, review)
  BY Zenon DEF AnswerGate
<1>2. phase = "asked" /\ args' = args /\ evidence' = evidence
  BY DEF AnswerGate
<1> DEFINE reviewed == ProjectReview(review, Thresholds(args), args.floor, args.truncated)
           answer == GateReply(claim, source, review)
           t == Thresholds(args)
           invalid == ~review.valid \/ \E c \in Claims : ~claim[c].valid
           note == CallerNote(claim, source)
           row(c) == GateRow(claim[c], source[c])
           k(c) == Known(claim[c].confidence)
           blocked(c) == NoteBlocksAuto("auto", source[c], evidence)
<1>3. /\ answer.codes = GateReasonCodes(args.truncated, reviewed, invalid, Judgments(claim), answer.action, t, note)
      /\ answer.action \in Tiers
      /\ answer.action = "auto" => reviewed = "auto" /\ \A c \in Claims : row(c) = "auto"
      /\ answer.action = "review" => reviewed = "review" \/ \E c \in Claims : row(c) = "review"
      /\ answer.action = "escalate" => reviewed = "escalate" \/ \E c \in Claims : row(c) = "escalate"
  BY <1>2, GateReplyParts
<1>4. /\ t.auto_accept = args.auto_accept /\ t.auto_accept \in Int /\ t.review_at \in Nat
      /\ t.review_at <= t.auto_accept /\ args.truncated \in BOOLEAN /\ args.floor \in Int
  BY <1>2, AskedThresholds
<1>5. ASSUME NEW c \in Claims
      PROVE  /\ claim[c].valid \in BOOLEAN /\ k(c) \in Int
             /\ row(c) = "auto" => /\ ~args.truncated /\ claim[c].valid /\ claim[c].verdict = "verified"
                                   /\ k(c) >= t.auto_accept /\ ~blocked(c)
             /\ row(c) = "review" => /\ claim[c].valid
                                     /\ \/ args.truncated
                                        \/ blocked(c)
                                        \/ claim[c].verdict \in {"contradicted", "unsupported"}
                                        \/ t.review_at <= k(c) /\ k(c) < t.auto_accept
             /\ row(c) = "escalate" => \/ ~claim[c].valid
                                       \/ claim[c].valid /\ (k(c) < t.review_at \/ claim[c].verdict = "contradicted")
  <2>1. claim[c] \in ClaimAnswers
    OBVIOUS
  <2>2. claim[c].valid \in BOOLEAN /\ k(c) \in Int
    BY <2>1, ConfidenceType
  <2> QED BY <1>2, <1>4, <2>1, <2>2, GateRowTiers
<1>6. /\ reviewed = "auto" => ~args.truncated /\ review.valid
  BY <1>4, ReviewTiers
<1>7. ASSUME NEW c \in Claims, claim[c].valid
      PROVE  \E j \in Judgments(claim) : j.verdict = claim[c].verdict /\ j.confidence = k(c)
  BY <1>7, JudgmentOf
<1>8. ASSUME NEW j \in Judgments(claim)
      PROVE  \E c \in Claims : claim[c].valid /\ j.verdict = claim[c].verdict /\ j.confidence = k(c)
  BY <1>8, JudgmentFrom
<1>9. invalid \in BOOLEAN /\ note \in BOOLEAN
  BY DEF CallerNote
<1> SUFFICES ASSUME NoneHatch \notin Notes
             PROVE  /\ answer.action = "escalate" => answer.codes \cap {"invalid_response", "review_escalated",
                                                      "claims_contradicted", "claim_confidence_low"} # {}
                    /\ answer.action = "review" => answer.codes \cap {"incomplete_context", "review_required",
                                                      "claims_contradicted", "claims_unsupported",
                                                      "claim_confidence_below_auto_accept", "caller_note_only"} # {}
                    /\ answer.action = "auto" => answer.codes = {"accepted"}
  <2>1. reply' = answer
    BY <1>1
  <2> HIDE DEF answer
  <2>2. Notes' = Notes
    BY <1>2 DEF Notes
  <2> QED BY <2>1, <2>2 DEF CodesExplainAction
<1> HIDE DEF answer, reviewed, t, row, k, blocked, note, invalid
<1> DEFINE codes == answer.codes
<1>10. /\ args.truncated <=> "incomplete_context" \in codes
       /\ invalid <=> "invalid_response" \in codes
       /\ reviewed = "escalate" <=> "review_escalated" \in codes
       /\ reviewed = "review" <=> "review_required" \in codes
       /\ (\E c \in Judgments(claim) : c.verdict = "contradicted") <=> "claims_contradicted" \in codes
       /\ (\E c \in Judgments(claim) : c.verdict = "unsupported") <=> "claims_unsupported" \in codes
       /\ (\E c \in Judgments(claim) : c.confidence < t.review_at) <=> "claim_confidence_low" \in codes
       /\ (\E c \in Judgments(claim) : BelowAutoAccept(c, t)) <=> "claim_confidence_below_auto_accept" \in codes
       /\ note <=> "caller_note_only" \in codes
       /\ answer.action = "auto" <=> "accepted" \in codes
       /\ codes \subseteq {"incomplete_context", "invalid_response", "review_escalated", "review_required",
                           "claims_contradicted", "claims_unsupported", "claim_confidence_low",
                           "claim_confidence_below_auto_accept", "caller_note_only", "accepted"}
  <2>1. args.truncated \in BOOLEAN /\ invalid \in BOOLEAN /\ note \in BOOLEAN
    BY <1>4, <1>9
  <2>2. codes = GateReasonCodes(args.truncated, reviewed, invalid, Judgments(claim), answer.action, t, note)
    BY <1>3
  <2> HIDE DEF codes
  <2> QED BY <2>1, <2>2, CodesGiven, SMTT(60)
<1> HIDE DEF codes
<1>11. CASE answer.action = "escalate"
  <2>1. CASE reviewed = "escalate"
    BY <1>10, <1>11, <2>1 DEF codes
  <2>2. ASSUME NEW c \in Claims, row(c) = "escalate"
        PROVE  codes \cap {"invalid_response", "claims_contradicted", "claim_confidence_low"} # {}
    <3>1. CASE ~claim[c].valid
      <4>1. invalid
        BY <3>1 DEF invalid
      <4> QED BY <1>10, <4>1
    <3>2. CASE claim[c].valid /\ (k(c) < t.review_at \/ claim[c].verdict = "contradicted")
      <4>1. PICK j \in Judgments(claim) : j.verdict = claim[c].verdict /\ j.confidence = k(c)
        BY <1>7, <3>2
      <4> QED BY <1>10, <3>2, <4>1
    <3> QED BY <1>5, <2>2, <3>1, <3>2
  <2> QED BY <1>3, <1>11, <2>1, <2>2 DEF codes
<1>12. CASE answer.action = "review"
  <2>1. CASE reviewed = "review"
    BY <1>10, <1>12, <2>1 DEF codes
  <2>2. ASSUME NEW c \in Claims, row(c) = "review"
        PROVE  codes \cap {"incomplete_context", "claims_contradicted", "claims_unsupported",
                           "claim_confidence_below_auto_accept", "caller_note_only"} # {}
    <3>1. claim[c].valid
      BY <1>5, <2>2
    <3>2. PICK j \in Judgments(claim) : j.verdict = claim[c].verdict /\ j.confidence = k(c)
      BY <1>7, <3>1
    <3>3. CASE args.truncated
      BY <1>10, <3>3
    <3>4. CASE blocked(c)
      <4>1. note
        BY <3>1, <3>4, NoteIsSaid DEF blocked, note
      <4> QED BY <1>10, <4>1
    <3>5. CASE claim[c].verdict \in {"contradicted", "unsupported"}
      BY <1>10, <3>2, <3>5
    <3>6. CASE t.review_at <= k(c) /\ k(c) < t.auto_accept
      <4>1. BelowAutoAccept(j, t)
        BY <3>2, <3>6 DEF BelowAutoAccept
      <4> QED BY <1>10, <4>1
    <3> QED BY <1>5, <2>2, <3>3, <3>4, <3>5, <3>6
  <2> QED BY <1>3, <1>12, <2>1, <2>2 DEF codes
<1>13. CASE answer.action = "auto"
  <2>1. reviewed = "auto" /\ \A c \in Claims : row(c) = "auto"
    BY <1>3, <1>13
  <2>2. ~args.truncated /\ ~invalid
    BY <1>5, <1>6, <2>1 DEF invalid
  <2>3. ~note
    <3>1. \A c \in Claims : ~blocked(c)
      BY <1>5, <2>1
    <3> QED BY <3>1, NoteIsSaidOfNotes DEF note, blocked
  <2>4. ASSUME NEW j \in Judgments(claim)
        PROVE  j.verdict = "verified" /\ ~(j.confidence < t.review_at) /\ ~BelowAutoAccept(j, t)
    <3>1. PICK c \in Claims : claim[c].valid /\ j.verdict = claim[c].verdict /\ j.confidence = k(c)
      BY <1>8
    <3>2. claim[c].verdict = "verified" /\ k(c) >= t.auto_accept /\ k(c) \in Int
      BY <1>5, <2>1
    <3>3. ~(j.confidence < t.review_at) /\ ~(j.confidence < t.auto_accept)
      BY <1>4, <3>1, <3>2
    <3> QED BY <3>1, <3>2, <3>3 DEF BelowAutoAccept
  <2>5. codes = {"accepted"}
    BY <1>10, <1>13, <2>1, <2>2, <2>3, <2>4
  <2> QED BY <1>13, <2>5 DEF codes
<1> QED BY <1>3, <1>11, <1>12, <1>13 DEF Tiers

--------------------------------------------------------------------------------
(* No call has been made: the invariant holds at the start. *)
LEMMA InitIInv == ASSUME ClaimInit PROVE IInv
<1>1. reply.status = "none"
  BY DEF ClaimInit, NoReply
<1>2. ClaimTypeOK
  BY <1>1, ClaimToolsAssumption DEF ClaimInit, ClaimTypeOK, NoArgs, Unit
<1> QED BY <1>1, <1>2 DEF IInv, GateAutoIsEarned, VerifyAutoIsEarned, CodesExplainAction, Replied

(* Each step of each tool keeps it. *)
LEMMA NextIInv ==
  ASSUME IInv, [ClaimNext]_claimVars
  PROVE  IInv'
<1>1. ClaimTypeOK /\ ClaimTypeOK'
  BY TypeStep DEF IInv
<1> DEFINE Quiet == reply'.status # "ok"
<1>2. Quiet => (GateAutoIsEarned /\ VerifyAutoIsEarned /\ CodesExplainAction)'
  BY DEF GateAutoIsEarned, VerifyAutoIsEarned, CodesExplainAction, Replied
<1>3. CASE CallVerify
  <2>1. reply'.status = "none"
    BY <1>3 DEF CallVerify, IInv
  <2> QED BY <1>1, <1>2, <2>1 DEF IInv
<1>4. CASE CallGate
  <2>1. reply'.status \in {"none", "error"} /\ (phase' # "done" => reply'.status = "none")
    BY <1>4 DEF CallGate, IInv
  <2> QED BY <1>1, <1>2, <2>1 DEF IInv
<1>5. CASE AnswerVerify
  <2>1. tool' = "verify" /\ phase' = "done"
    BY <1>5 DEF AnswerVerify
  <2>2. (GateAutoIsEarned /\ CodesExplainAction)'
    BY <2>1 DEF GateAutoIsEarned, CodesExplainAction, Replied
  <2>3. VerifyAutoIsEarned'
    BY <1>1, <1>5, VerifyAutoStep
  <2> QED BY <1>1, <2>1, <2>2, <2>3 DEF IInv
<1>6. CASE AnswerGate
  <2>1. tool' = "gate" /\ phase' = "done"
    BY <1>6 DEF AnswerGate
  <2>2. VerifyAutoIsEarned'
    BY <2>1 DEF VerifyAutoIsEarned, Replied
  <2>3. GateAutoIsEarned' /\ CodesExplainAction'
    BY <1>1, <1>6, GateAutoStep, CodesStep
  <2> QED BY <1>1, <2>1, <2>2, <2>3 DEF IInv
<1>7. CASE Recycle
  <2>1. reply'.status = "none"
    BY <1>7 DEF Recycle, NoReply
  <2> QED BY <1>1, <1>2, <2>1 DEF IInv
<1>8. CASE UNCHANGED claimVars
  BY <1>8 DEF claimVars, IInv, ClaimTypeOK, GateAutoIsEarned, VerifyAutoIsEarned, CodesExplainAction, Replied, Notes
<1> QED BY <1>3, <1>4, <1>5, <1>6, <1>7, <1>8 DEF ClaimNext

(* The invariant of the two tools is inductive. *)
THEOREM Inductive == ClaimSpec => []IInv
<1>1. ClaimInit => IInv
  BY InitIInv
<1>2. IInv /\ [ClaimNext]_claimVars => IInv'
  BY NextIInv
<1> QED BY <1>1, <1>2, PTL DEF ClaimSpec

(* The arguments in use are those a call may have, in order. *)
THEOREM TypeCorrect == ClaimSpec => []ClaimTypeOK
<1>1. IInv => ClaimTypeOK
  BY DEF IInv
<1> QED BY <1>1, Inductive, PTL

(* _ask_gate and the policy: an auto of jev_gate rests on uncut input, a   *)
(* safe review and claims all verified confidently, none with a note named *)
(* as its source.                                                          *)
THEOREM GateEarnsAuto == ClaimSpec => []GateAutoIsEarned
<1>1. IInv => GateAutoIsEarned
  BY DEF IInv
<1> QED BY <1>1, Inductive, PTL

(* jev_verify: an auto row has a known confidence of at least auto_accept  *)
(* and its source answer, where one was asked for, names no caller note.   *)
THEOREM VerifyEarnsAuto == ClaimSpec => []VerifyAutoIsEarned
<1>1. IInv => VerifyAutoIsEarned
  BY DEF IInv
<1> QED BY <1>1, Inductive, PTL

(* gate_reason_codes: the codes account for the action of jev_gate. *)
THEOREM CodesAccountForAction == ClaimSpec => []CodesExplainAction
<1>1. IInv => CodesExplainAction
  BY DEF IInv
<1> QED BY <1>1, Inductive, PTL

(* For every scale, number of claims and answer, neither tool says auto    *)
(* without having earned it, and the gate's codes account for its action.  *)
THEOREM AutoIsAlwaysEarned == ClaimSpec => []AutoEarned
<1>1. GateAutoIsEarned /\ VerifyAutoIsEarned /\ CodesExplainAction => AutoEarned
  BY DEF AutoEarned
<1> QED BY <1>1, GateEarnsAuto, VerifyEarnsAuto, CodesAccountForAction, PTL

--------------------------------------------------------------------------------
(* The ids. *)

(* What ids are made of. *)
Parts == (UNION {{id[i] : i \in 1..Len(id)} : id \in RawIds}) \cup Nat \cup {"evidence", "diff", "tests"}

Item == [id : Seq(Parts), note : BOOLEAN]

(* Some numbers have a least one. *)
LEMMA LeastNat ==
  ASSUME NEW S \in SUBSET Nat, S # {}
  PROVE  \E x \in S : \A y \in S : x <= y
<1> DEFINE T == {1..k : k \in S}
<1>1. \A k \in S : IsFiniteSet(1..k) /\ (1..k) \in SUBSET Nat
  BY FS_Interval
<1>2. T \subseteq FiniteSubsetsOf(Nat) /\ T # {}
  BY <1>1 DEF FiniteSubsetsOf
<1>3. PICK t \in T : \A y \in T : ~(<<y, t>> \in StrictSubsetOrdering(Nat))
  BY <1>2, FS_StrictSubsetOrderingWellFounded, WFMin
<1>4. PICK x \in S : t = 1..x
  OBVIOUS
<1>5. ASSUME NEW y \in S, ~(x <= y) PROVE FALSE
  <2>1. x \in Nat /\ y \in Nat /\ y < x
    BY <1>5
  <2>2. x \in 1..x /\ x \notin 1..y /\ (1..y) \subseteq 1..x /\ (1..y) \in SUBSET Nat /\ (1..x) \in SUBSET Nat
    BY <2>1
  <2>3. <<1..y, 1..x>> \in StrictSubsetOrdering(Nat)
    BY <2>2 DEF StrictSubsetOrdering
  <2> QED
    BY <1>3, <1>4, <2>3
<1> QED
  BY <1>5

(* unique_id: some suffix up to one more than the ids in use is free. *)
LEMMA FreshIsFree ==
  ASSUME NEW used, IsFiniteSet(used), NEW base \in Seq(Parts), base # <<>>
  PROVE  /\ Fresh(base, used) \in Seq(Parts) /\ Fresh(base, used) # <<>>
         /\ Fresh(base, used) \notin used
<1>1. CASE base \notin used
  BY <1>1 DEF Fresh
<1>2. CASE base \in used
  <2> DEFINE n == Cardinality(used) + 1
             K == {k \in 1..n : Append(base, k) \notin used}
  <2>1. n \in Nat /\ Cardinality(used) < n /\ IsFiniteSet(1..n) /\ Cardinality(1..n) = n
    <3>1. Cardinality(used) \in Nat
      BY FS_CardinalityType
    <3>2. 1 \in Int /\ n \in Int
      BY <3>1
    <3>3. IsFiniteSet(1..n) /\ Cardinality(1..n) = IF 1 > n THEN 0 ELSE n - 1 + 1
      BY <3>2, FS_Interval
    <3> QED
      BY <3>1, <3>3
  <2>2. ASSUME NEW k \in Nat
        PROVE  /\ Append(base, k) \in Seq(Parts) /\ Append(base, k) # <<>>
               /\ Append(base, k)[Len(base) + 1] = k
    <3>1. k \in Parts
      BY DEF Parts
    <3>2. /\ Append(base, k) \in Seq(Parts) /\ Len(Append(base, k)) = Len(base) + 1
          /\ Append(base, k)[Len(base) + 1] = k /\ Len(base) \in Nat
      BY <3>1, AppendProperties
    <3> QED
      BY <3>2, EmptySeq
  <2> HIDE DEF n
  <2>3. K # {}
    <3> SUFFICES ASSUME K = {} PROVE FALSE
      OBVIOUS
    <3> DEFINE f == [k \in 1..n |-> Append(base, k)]
    <3>1. f \in [1..n -> used]
      OBVIOUS
    <3>2. PICK x \in 1..n, y \in 1..n : x # y /\ f[x] = f[y]
      <4> HIDE DEF f
      <4> QED
        BY <2>1, <3>1, FS_PigeonHole
    <3>3. x \in Nat /\ y \in Nat /\ Append(base, x) = Append(base, y)
      BY <2>1, <3>2
    <3> QED
      BY <2>2, <3>2, <3>3
  <2>4. K \in SUBSET Nat
    BY <2>1
  <2>5. Min(K) \in K
    <3> HIDE DEF K
    <3>1. \E x \in K : \A y \in K : x <= y
      BY <2>3, <2>4, LeastNat
    <3> QED
      BY <3>1 DEF Min
  <2>6. Fresh(base, used) = Append(base, Min(K))
    BY <1>2 DEF Fresh, n
  <2> QED
    BY <2>2, <2>4, <2>5, <2>6
<1> QED
  BY <1>1, <1>2

(* ensure_unique_ids: as many items as before, with ids that are distinct  *)
(* and not empty.                                                          *)
LEMMA UniqueIds ==
  ASSUME NEW items \in Seq(Item)
  PROVE  /\ EnsureUniqueIds(items) \in Seq(Item)
         /\ Len(EnsureUniqueIds(items)) = Len(items)
         /\ \A j \in 1..Len(items) : EnsureUniqueIds(items)[j].id # <<>>
         /\ \A j, k \in 1..Len(items) :
              EnsureUniqueIds(items)[j].id = EnsureUniqueIds(items)[k].id => j = k
<1> DEFINE n == Len(items)
           base(i) == IF items[i].id = <<>> THEN Fallback(i) ELSE items[i].id
           used(done, i) == {done[j].id : j \in 1..(i - 1)}
           Put(done, i) == Append(done, [items[i] EXCEPT !.id = Fresh(base(i), used(done, i))])
           Good(f, m) == f = [i \in 0..m |-> IF i = 0 THEN <<>> ELSE Put(f[i - 1], i)]
<1>1. n \in Nat
  BY LenProperties
<1>2. \E f : Good(f, n)
  <2> DEFINE Bad == {m \in 0..n : ~\E f : Good(f, m)}
  <2> HIDE DEF Put, n
  <2> SUFFICES ASSUME Bad # {} PROVE FALSE
    <3>1. n \in 0..n
      BY <1>1
    <3> HIDE DEF Good
    <3> QED
      BY <3>1
  <2>1. PICK m \in Bad : \A y \in Bad : m <= y
    <3>1. Bad \in SUBSET Nat
      BY <1>1
    <3> HIDE DEF Bad
    <3> QED
      BY <3>1, LeastNat
  <2>2. m \in Nat /\ m \in 0..n /\ ~\E f : Good(f, m)
    BY <1>1
  <2>3. CASE m = 0
    <3> DEFINE f == [i \in 0..0 |-> <<>>]
    <3>1. f = [i \in 0..0 |-> IF i = 0 THEN <<>> ELSE Put(f[i - 1], i)]
      OBVIOUS
    <3> QED
      BY <2>2, <2>3, <3>1
  <2>4. CASE m # 0
    <3>1. m - 1 \in 0..n /\ m - 1 \in Nat /\ ~(m <= m - 1)
      BY <1>1, <2>2, <2>4
    <3>2. PICK g : Good(g, m - 1)
      BY <2>1, <3>1
    <3> DEFINE f == [i \in 0..m |-> IF i = m THEN Put(g[m - 1], m) ELSE g[i]]
    <3>3. ASSUME NEW i \in 0..m PROVE f[i] = IF i = 0 THEN <<>> ELSE Put(f[i - 1], i)
      <4>1. CASE i = m
        <5>1. m - 1 \in 0..m /\ m - 1 # m
          BY <2>2, <2>4, <3>1
        <5>2. f[m - 1] = g[m - 1]
          BY <5>1
        <5>3. f[m] = Put(g[m - 1], m)
          BY <2>2
        <5> QED
          BY <2>4, <4>1, <5>2, <5>3
      <4>2. CASE i # m /\ i # 0
        <5>1. i \in 0..(m - 1) /\ i - 1 \in 0..m /\ i - 1 # m
          BY <2>2, <4>2
        <5>2. f[i] = g[i] /\ f[i - 1] = g[i - 1]
          BY <4>2, <5>1
        <5> HIDE DEF f
        <5>3. g[i] = Put(g[i - 1], i)
          BY <3>2, <4>2, <5>1
        <5> QED
          BY <4>2, <5>2, <5>3
      <4>3. CASE i # m /\ i = 0
        <5>1. 0 \in 0..(m - 1)
          BY <3>1
        <5>2. g[0] = <<>>
          BY <3>2, <5>1
        <5> QED
          BY <4>3, <5>2
      <4> QED
        BY <4>1, <4>2, <4>3
    <3>4. f = [i \in 0..m |-> f[i]]
      OBVIOUS
    <3>5. Good(f, m)
      <4> HIDE DEF f
      <4> QED
        BY <3>3, <3>4
    <3> QED
      BY <2>2, <3>5
  <2> QED
    BY <2>3, <2>4
<1> DEFINE out == CHOOSE f : Good(f, n)
<1>3. EnsureUniqueIds(items) = out[n]
  BY DEF EnsureUniqueIds
<1>4. /\ out[0] = <<>>
      /\ \A i \in 1..n : out[i] = Put(out[i - 1], i)
  <2>1. Good(out, n)
    BY <1>2
  <2> HIDE DEF out, Put, n
  <2> QED
    BY <1>1, <2>1
<1> HIDE DEF out
<1> DEFINE Fine(i) == /\ out[i] \in Seq(Item) /\ Len(out[i]) = i
                      /\ \A j \in 1..i : out[i][j].id # <<>>
                      /\ \A j, k \in 1..i : out[i][j].id = out[i][k].id => j = k
<1>5. Fine(0)
  BY <1>1, <1>4, EmptySeq
<1>6. ASSUME NEW i \in 1..n, Fine(i - 1) PROVE Fine(i)
  <2> DEFINE done == out[i - 1]
             x == Fresh(base(i), used(done, i))
             new == [items[i] EXCEPT !.id = x]
  <2>1. i \in Nat /\ i - 1 \in Nat /\ items[i] \in Item
    BY <1>1, ElementOfSeq
  <2>2. base(i) \in Seq(Parts) /\ base(i) # <<>>
    <3>1. "evidence" \in Parts /\ 0 \in Parts /\ i - 1 \in Parts
      BY <2>1 DEF Parts
    <3>2. Fallback(i) \in Seq(Parts) /\ Fallback(i) # <<>>
      BY <3>1 DEF Fallback
    <3>3. items[i].id \in Seq(Parts)
      BY <2>1 DEF Item
    <3> QED
      BY <3>2, <3>3
  <2>3. IsFiniteSet(used(done, i))
    <3> DEFINE U == used(done, i)
               f == [j \in 1..(i - 1) |-> done[j].id]
    <3>1. f \in Surjection(1..(i - 1), U)
      BY DEF Surjection
    <3>2. IsFiniteSet(1..(i - 1))
      BY <2>1, FS_Interval
    <3> HIDE DEF U, f
    <3>3. IsFiniteSet(U)
      BY <3>1, <3>2, FS_Surjection
    <3> QED
      BY <3>3 DEF U
  <2>4. x \in Seq(Parts) /\ x # <<>> /\ x \notin used(done, i)
    <3> HIDE DEF base, used
    <3> QED
      BY <2>2, <2>3, FreshIsFree
  <2>5. out[i] = Append(done, new)
    BY <1>4
  <2> HIDE DEF x, base
  <2>6. new \in Item /\ new.id = x
    BY <2>1, <2>4 DEF Item
  <2> HIDE DEF new
  <2>7. /\ out[i] \in Seq(Item) /\ Len(out[i]) = i /\ out[i][i] = new
        /\ \A j \in 1..(i - 1) : out[i][j] = done[j]
    <3>1. done \in Seq(Item) /\ Len(done) = i - 1
      BY <1>6
    <3> HIDE DEF done
    <3>2. /\ Append(done, new) \in Seq(Item) /\ Len(Append(done, new)) = i - 1 + 1
          /\ \A j \in 1..(i - 1) : Append(done, new)[j] = done[j]
          /\ Append(done, new)[i - 1 + 1] = new
      BY <2>6, <3>1, AppendProperties
    <3>3. i - 1 + 1 = i
      BY <2>1
    <3> QED
      BY <2>5, <3>2, <3>3
  <2>8. \A j \in 1..(i - 1) : done[j].id # x /\ done[j].id # <<>>
    BY <1>6, <2>4
  <2>9. \A j \in 1..i : j = i \/ j \in 1..(i - 1)
    BY <2>1
  <2>10. \A j \in 1..i : out[i][j].id # <<>>
    BY <2>4, <2>6, <2>7, <2>8, <2>9
  <2>11. ASSUME NEW j \in 1..i, NEW k \in 1..i, out[i][j].id = out[i][k].id PROVE j = k
    BY <1>6, <2>6, <2>7, <2>8, <2>9, <2>11
  <2> QED
    BY <2>7, <2>10, <2>11
<1>7. Fine(n)
  <2> DEFINE Bad == {i \in 0..n : ~Fine(i)}
  <2> SUFFICES ASSUME Bad # {} PROVE FALSE
    BY <1>1
  <2> HIDE DEF Fine, n
  <2>1. PICK m \in Bad : \A y \in Bad : m <= y
    <3>1. Bad \in SUBSET Nat
      BY <1>1
    <3> HIDE DEF Bad
    <3> QED
      BY <3>1, LeastNat
  <2>2. m \in 1..n /\ m - 1 \in 0..n /\ ~(m <= m - 1)
    BY <1>1, <1>5
  <2>3. Fine(m - 1)
    BY <2>1, <2>2
  <2> QED
    BY <1>6, <2>2, <2>3
<1> QED
  BY <1>3, <1>7

(* A list of distinct, non-empty ids is one id for each item. *)
LEMMA DistinctIds ==
  ASSUME NEW items \in Seq(Item),
         \A j \in 1..Len(items) : items[j].id # <<>>,
         \A j, k \in 1..Len(items) : items[j].id = items[k].id => j = k
  PROVE  Cardinality(EvidenceIds(items)) = Len(items) /\ <<>> \notin EvidenceIds(items)
<1> DEFINE n == Len(items)
           f == [i \in 1..n |-> items[i].id]
<1>1. n \in Nat /\ DOMAIN items = 1..n
  BY LenProperties
<1>2. EvidenceIds(items) = {items[i].id : i \in 1..n} /\ <<>> \notin EvidenceIds(items)
  BY <1>1 DEF EvidenceIds
<1>3. f \in Bijection(1..n, EvidenceIds(items))
  BY <1>2 DEF Bijection, Injection, Surjection, IsInjective
<1>4. IsFiniteSet(1..n) /\ Cardinality(1..n) = n
  <2>1. 1 \in Int /\ n \in Int
    BY <1>1
  <2>2. IsFiniteSet(1..n) /\ Cardinality(1..n) = IF 1 > n THEN 0 ELSE n - 1 + 1
    BY <2>1, FS_Interval
  <2> QED
    BY <1>1, <2>2
<1> HIDE DEF f, n
<1>5. Cardinality(EvidenceIds(items)) = Cardinality(1..n)
  BY <1>3, <1>4, FS_Bijection DEF ExistsBijection
<1> QED
  BY <1>2, <1>4, <1>5 DEF n

(* The evidence a caller may send. *)
LEMMA ItemsAreItems ==
  ASSUME NEW items \in Items
  PROVE  items \in Seq(Item) /\ Len(items) \in Nat \ {0}
<1>1. RawIds \subseteq Seq(Parts)
  <2> SUFFICES ASSUME NEW id \in RawIds PROVE id \in Seq(Parts)
    OBVIOUS
  <2>1. Len(id) \in Nat /\ id = [i \in 1..Len(id) |-> id[i]]
    BY ClaimToolsAssumption
  <2>2. \A i \in 1..Len(id) : id[i] \in Parts
    BY DEF Parts
  <2> QED
    BY <2>1, <2>2, SeqDef
<1>2. PICK m \in 1..MaxItems : items \in [1..m -> [id : RawIds, note : BOOLEAN]]
  BY DEF Items
<1>3. m \in Nat \ {0}
  BY ClaimToolsAssumption
<1>4. items \in [1..m -> Item]
  BY <1>1, <1>2 DEF Item
<1> QED
  BY <1>3, <1>4, SeqDef, LenProperties

(* The diff, and the tests. *)
LEMMA ImplicitItems ==
  ASSUME NEW tests \in BOOLEAN
  PROVE  Implicit(tests) \in Seq(Item) /\ Len(Implicit(tests)) \in Nat
<1>1. "diff" \in Parts /\ "tests" \in Parts
  BY DEF Parts
<1>2. [id |-> <<"diff">>, note |-> FALSE] \in Item /\ [id |-> <<"tests">>, note |-> FALSE] \in Item
  BY <1>1 DEF Item
<1> DEFINE d == [id |-> <<"diff">>, note |-> FALSE]
           t == [id |-> <<"tests">>, note |-> FALSE]
<1> HIDE DEF d, t
<1>3. <<d>> \in Seq(Item) /\ <<t>> \in Seq(Item) /\ <<>> \in Seq(Item)
  BY <1>2 DEF d, t
<1>4. Implicit(tests) = <<d>> \o (IF tests THEN <<t>> ELSE <<>>)
  BY DEF Implicit, d, t
<1> QED
  BY <1>3, <1>4, ConcatProperties, LenProperties

(* Whatever ids a caller gives its evidence, the ids jev_verify and        *)
(* jev_gate ask about are distinct and not empty, the implicit `diff` and  *)
(* `tests` included: a `source` names one item.                            *)
THEOREM SourcesNameOneItem == ClaimSpec => []IdsAreUnique
<1>1. ClaimInit => IdsAreUnique
  BY FS_EmptySet DEF ClaimInit, IdsAreUnique, EvidenceIds
<1>2. IdsAreUnique /\ [ClaimNext]_claimVars => IdsAreUnique'
  <2> SUFFICES ASSUME IdsAreUnique, [ClaimNext]_claimVars PROVE IdsAreUnique'
    OBVIOUS
  <2>1. ASSUME NEW items \in Seq(Item), Len(items) \in Nat \ {0}, evidence' = EnsureUniqueIds(items)
        PROVE  IdsAreUnique'
    <3> DEFINE u == EnsureUniqueIds(items)
    <3>1. /\ u \in Seq(Item) /\ Len(u) = Len(items)
          /\ \A j \in 1..Len(u) : u[j].id # <<>>
          /\ \A j, k \in 1..Len(u) : u[j].id = u[k].id => j = k
      BY UniqueIds
    <3> HIDE DEF u
    <3>2. Cardinality(EvidenceIds(u)) = Len(u) /\ <<>> \notin EvidenceIds(u)
      BY <3>1, DistinctIds
    <3>3. u # <<>>
      BY <2>1, <3>1, EmptySeq
    <3>4. evidence' = u
      BY <2>1 DEF u
    <3> QED
      BY <3>2, <3>3, <3>4 DEF IdsAreUnique, EvidenceIds
  <2>2. CASE CallVerify
    BY <2>1, <2>2, ItemsAreItems DEF CallVerify
  <2>3. CASE CallGate
    <3>1. CASE UNCHANGED evidence /\ phase' = "done"
      BY <3>1 DEF IdsAreUnique, EvidenceIds
    <3>2. ASSUME NEW items \in Items, NEW tests \in BOOLEAN,
                 evidence' = EnsureUniqueIds(EnsureUniqueIds(items) \o Implicit(tests))
          PROVE  IdsAreUnique'
      <4> DEFINE u == EnsureUniqueIds(items)
                 all == u \o Implicit(tests)
      <4>1. items \in Seq(Item) /\ Len(items) \in Nat \ {0}
        BY ItemsAreItems
      <4>2. u \in Seq(Item) /\ Len(u) \in Nat \ {0}
        BY <4>1, UniqueIds
      <4> HIDE DEF u
      <4>3. all \in Seq(Item) /\ Len(all) = Len(u) + Len(Implicit(tests))
        BY <4>2, ImplicitItems, ConcatProperties
      <4>4. evidence' = EnsureUniqueIds(all)
        BY <3>2 DEF u
      <4> HIDE DEF all
      <4>5. Len(all) \in Nat \ {0}
        BY <4>2, <4>3, ImplicitItems
      <4> QED
        BY <2>1, <4>3, <4>4, <4>5
    <3> QED
      BY <2>3, <3>1, <3>2 DEF CallGate
  <2>4. CASE AnswerVerify \/ AnswerGate
    BY <2>4 DEF AnswerVerify, AnswerGate, IdsAreUnique, EvidenceIds
  <2>5. CASE Recycle
    <3>1. evidence' = <<>> /\ phase' = "idle"
      BY <2>5 DEF Recycle
    <3>2. EvidenceIds(<<>>) = {} /\ Len(<<>>) = 0 /\ Cardinality({}) = 0
      BY FS_EmptySet DEF EvidenceIds
    <3>3. EvidenceIds(evidence)' = EvidenceIds(<<>>)
      BY <3>1 DEF EvidenceIds
    <3> QED
      BY <3>1, <3>2, <3>3 DEF IdsAreUnique
  <2>6. CASE UNCHANGED claimVars
    BY <2>6 DEF claimVars, IdsAreUnique, EvidenceIds
  <2> QED
    BY <2>2, <2>3, <2>4, <2>5, <2>6 DEF ClaimNext
<1> QED
  BY <1>1, <1>2, PTL DEF ClaimSpec
================================================================================
