------------------------------ MODULE SpendLedger ------------------------------
(***************************************************************************)
(* The money of the paid A/B study: the ledger (evals/spend.py), the       *)
(* protocol of a recorded run (evals/study_runner.py) and the study loop   *)
(* over pairs of runs (evals/ab/run.py), over several invocations that may *)
(* overlap, be interrupted or be killed at any step.                       *)
(*                                                                         *)
(* Money is in whole units.  A run costs at most AgentBudget, which the    *)
(* agent's own budget flag enforces, and JevBound for its Jev calls.  An   *)
(* invocation that is killed outright while the agent runs has paid for    *)
(* it too, but nothing on disk tells of it: lost and cut keep its account. *)
(***************************************************************************)
EXTENDS Integers, Sequences, FiniteSetsExt

CONSTANTS Invocations, NoInvocation,
          NPairs,                \* the plan: pairs in their scheduled order
          AgentBudget, JevBound, \* a run's worst case, RUN_BOUND_USD
          MaxUsd, MaxRuns,       \* SpendPolicy
          EnvCaps,               \* what JEV_AB_MAX_USD may say
          Unbooked

ASSUME SpendAssumption ==
  /\ NoInvocation \notin Invocations
  /\ {NPairs, AgentBudget, JevBound, MaxUsd, MaxRuns} \subseteq Nat
  /\ EnvCaps \subseteq Nat /\ Unbooked \notin Nat

VARIABLES ledger,     \* ledger.json: the cap it records and the runs booked
          lock,       \* who holds the flock
          logs,       \* the runs with a stream.jsonl or claude.stderr
          resultFile, \* each run's result.json
          spendPc, cap, book,
          pending,    \* the runs left of the pair an invocation has admitted
          charge,     \* what the finished run will be recorded to cost
          \* history:
          paid,       \* what each run's agent and Jev calls cost
          execs,      \* how often each run's agent came to its end
          cut,        \* the runs whose agent was at work when its invocation was killed
          lost        \* what those agents and their Jev calls cost

studyFiles == <<ledger, logs, resultFile>>
invocation == <<spendPc, lock, cap, book, pending, charge>>
spendHistory == <<paid, execs, cut, lost>>
spendVars == <<studyFiles, invocation, spendHistory>>

Arms == {1, 2}
StudyRuns == (1..NPairs) \X Arms
Bound == AgentBudget + JevBound
Batch == Cardinality(Arms) * Bound
Least(a, b) == IF a <= b THEN a ELSE b

NoRecord == [kind |-> "none", cost |-> 0, escape |-> FALSE]
Torn == [NoRecord EXCEPT !.kind = "torn"]
RunRecord(cost, escape) == [kind |-> "record", cost |-> cost, escape |-> escape]

Booked(runs) == {r \in StudyRuns : runs[r] # Unbooked}
SumOf(amount, runs) == MapThenSumSet(LAMBDA r : amount[r], runs)
Total(runs) == SumOf(runs, Booked(runs))
Paid == SumOf(paid, StudyRuns)

SpendInit ==
  /\ ledger = [cap |-> MaxUsd, runs |-> [r \in StudyRuns |-> Unbooked]]
  /\ lock = NoInvocation
  /\ logs = {}
  /\ resultFile = [r \in StudyRuns |-> NoRecord]
  /\ spendPc = [p \in Invocations |-> "idle"]
  /\ cap = [p \in Invocations |-> 0]
  /\ book = [p \in Invocations |-> [r \in StudyRuns |-> Unbooked]]
  /\ pending = [p \in Invocations |-> <<>>]
  /\ charge = [p \in Invocations |-> 0]
  /\ paid = [r \in StudyRuns |-> 0]
  /\ execs = [r \in StudyRuns |-> 0]
  /\ cut = <<>> /\ lost = 0

--------------------------------------------------------------------------------
Advance(p, l) == spendPc' = [spendPc EXCEPT ![p] = l] /\ UNCHANGED lock

(* The process is gone, and the kernel drops its flock. *)
End(p) ==
  /\ spendPc' = [spendPc EXCEPT ![p] = "ended"]
  /\ lock' = IF lock = p THEN NoInvocation ELSE lock

(* record and _persist: the invocation's own view and its cap, renamed     *)
(* into place at once.                                                     *)
Record(p, r, cost) ==
  /\ ledger' = [cap |-> cap[p], runs |-> [book[p] EXCEPT ![r] = cost]]
  /\ book' = [book EXCEPT ![p][r] = cost]

(* book_outcome's amount: the cost in a readable result file, or the run   *)
(* bound.                                                                  *)
FileCost(r) == IF resultFile[r].kind = "record" THEN resultFile[r].cost ELSE Bound

(* capped: the operator's variable may only lower the policy's cap. *)
EffectiveCap(env) == Least(MaxUsd, env)

(* Fault: the cap that the file records is not read back. *)
LoadOwnCap(p) ==
  /\ spendPc[p] = "idle"
  /\ lock = NoInvocation
  /\ lock' = p
  /\ \E env \in EnvCaps : cap' = [cap EXCEPT ![p] = EffectiveCap(env)]
  /\ book' = [book EXCEPT ![p] = ledger.runs]
  /\ spendPc' = [spendPc EXCEPT ![p] = "resume"]
  /\ UNCHANGED <<studyFiles, pending, charge, spendHistory>>

(* SpendLedger.load: the lock or a refusal; then the lower of the cap the  *)
(* operator allows and the one the file records.                           *)
Load(p) ==
  /\ spendPc[p] = "idle"
  /\ \/ /\ lock # NoInvocation
        /\ spendPc' = [spendPc EXCEPT ![p] = "ended"]
        /\ UNCHANGED <<lock, cap, book>>
     \/ /\ lock = NoInvocation
        /\ lock' = p
        /\ \E env \in EnvCaps : cap' = [cap EXCEPT ![p] = Least(EffectiveCap(env), ledger.cap)]
        /\ book' = [book EXCEPT ![p] = ledger.runs]
        /\ spendPc' = [spendPc EXCEPT ![p] = "resume"]
  /\ UNCHANGED <<studyFiles, pending, charge, spendHistory>>

(* Fault: only runs whose record was written are booked on resume. *)
ResumeRecordedOnly(p) ==
  /\ spendPc[p] = "resume"
  /\ LET started == {r \in logs : book[p][r] = Unbooked /\ resultFile[r].kind = "record"}
     IN  \/ /\ \E r \in started : Record(p, r, FileCost(r))
            /\ UNCHANGED <<spendPc, lock>>
         \/ /\ started = {}
            /\ Advance(p, "pair")
            /\ UNCHANGED <<ledger, book>>
  /\ UNCHANGED <<logs, resultFile, cap, pending, charge, spendHistory>>

(* _load_book: each run that left logs and was never booked, one write     *)
(* after the other.  Then study looks at the result files: one it cannot   *)
(* parse raises, and an escape of an earlier run stops the study.          *)
Resume(p) ==
  /\ spendPc[p] = "resume"
  /\ LET started == {r \in logs : book[p][r] = Unbooked}
     IN  \/ /\ \E r \in started : Record(p, r, FileCost(r))
            /\ UNCHANGED <<spendPc, lock>>
         \/ /\ started = {}
            /\ \/ \E r \in StudyRuns : (resultFile[r] = Torn \/ resultFile[r].escape) /\ End(p)
               \/ (\A r \in StudyRuns : resultFile[r] # Torn /\ ~resultFile[r].escape) /\ Advance(p, "pair")
            /\ UNCHANGED <<ledger, book>>
  /\ UNCHANGED <<logs, resultFile, cap, pending, charge, spendHistory>>

(* blocker *)
Blocked(p, n) ==
  Cardinality(Booked(book[p])) + n > MaxRuns \/ Total(book[p]) + Batch > cap[p]

(* The runs of pair k that are not booked, in the order of the plan. *)
IfUnbooked(b, r) == IF b[r] = Unbooked THEN <<r>> ELSE <<>>
Unrun(b, k) == IfUnbooked(b, <<k, 1>>) \o IfUnbooked(b, <<k, 2>>)

(* study: the next pair that is not wholly booked, when the caps allow it. *)
NextPair(p) ==
  /\ spendPc[p] = "pair"
  /\ LET left == {k \in 1..NPairs : Unrun(book[p], k) # <<>>}
         next == Unrun(book[p], Min(left))
     IN  \/ left = {} /\ End(p) /\ UNCHANGED pending
         \/ left # {} /\ Blocked(p, Len(next)) /\ End(p) /\ UNCHANGED pending
         \/ /\ left # {} /\ ~Blocked(p, Len(next))
            /\ pending' = [pending EXCEPT ![p] = next]
            /\ Advance(p, "start")
  /\ UNCHANGED <<studyFiles, cap, book, charge, spendHistory>>

--------------------------------------------------------------------------------
Cur(p) == Head(pending[p])

(* run_one up to the agent: the boundary may fail to come up, which stops  *)
(* the study with nothing paid and nothing booked.                         *)
Begin(p) ==
  /\ spendPc[p] = "start"
  /\ \/ pending[p] = <<>> /\ Advance(p, "pair")
     \/ pending[p] # <<>> /\ (Advance(p, "agent") \/ End(p))
  /\ UNCHANGED <<studyFiles, cap, book, pending, charge, spendHistory>>

(* The agent and its Jev calls cost a and j. *)
Pay(r, a, j) ==
  /\ paid' = [paid EXCEPT ![r] = @ + a + j]
  /\ execs' = [execs EXCEPT ![r] = @ + 1]

(* cost_of: without a usable report the agent is charged the run bound. *)
CostOf(a, j, reported) == IF reported THEN a + j ELSE Bound + j

(* The agent exits or is timed out, and its transcript is written. *)
AgentEnds(p) ==
  /\ spendPc[p] = "agent"
  /\ \E a \in 0..AgentBudget, j \in 0..JevBound, reported \in BOOLEAN :
       /\ Pay(Cur(p), a, j)
       /\ charge' = [charge EXCEPT ![p] = CostOf(a, j, reported)]
  /\ logs' = logs \cup {Cur(p)}
  /\ Advance(p, "grade")
  /\ UNCHANGED <<ledger, resultFile, cap, book, pending, cut, lost>>

(* The agent's run raises (its output passed the cap, a transcript was     *)
(* cut), or Ctrl-C or SIGTERM reaches it: it is booked at the run bound,   *)
(* with or without its logs, and the study ends.                           *)
AgentRaises(p) ==
  /\ spendPc[p] = "agent"
  /\ \E a \in 0..AgentBudget, j \in 0..JevBound : Pay(Cur(p), a, j)
  /\ \/ logs' = logs \cup {Cur(p)}
     \/ UNCHANGED logs
  /\ Record(p, Cur(p), Bound)
  /\ End(p)
  /\ UNCHANGED <<resultFile, cap, pending, charge, cut, lost>>

(* An isolation failure of the grading passes write_record and             *)
(* run_recorded by; the study books what was incurred and stops.           *)
IncurredStop(p) ==
  /\ Record(p, Cur(p), charge[p])
  /\ End(p)
  /\ UNCHANGED resultFile

(* write_record around the grading: the record, or the failed one. *)
Grade(p) ==
  /\ spendPc[p] = "grade"
  /\ \/ /\ \E escape \in BOOLEAN : resultFile' = [resultFile EXCEPT ![Cur(p)] = RunRecord(charge[p], escape)]
        /\ Advance(p, "book")
        /\ UNCHANGED <<ledger, book>>
     \/ /\ \E escape \in BOOLEAN : resultFile' = [resultFile EXCEPT ![Cur(p)] = RunRecord(Bound, escape)]
        /\ Advance(p, "unfinished")
        /\ UNCHANGED <<ledger, book>>
     \/ IncurredStop(p)
  /\ UNCHANGED <<logs, cap, pending, charge, spendHistory>>

(* run_recorded books the record; an escape ends the study. *)
Book(p) ==
  /\ spendPc[p] = "book"
  /\ Record(p, Cur(p), charge[p])
  /\ \/ resultFile[Cur(p)].escape /\ End(p) /\ UNCHANGED pending
     \/ /\ ~resultFile[Cur(p)].escape
        /\ pending' = [pending EXCEPT ![p] = Tail(@)]
        /\ Advance(p, "start")
  /\ UNCHANGED <<logs, resultFile, cap, charge, spendHistory>>

(* record_unfinished, and the exception leaves the study. *)
BookUnfinished(p) ==
  /\ spendPc[p] = "unfinished"
  /\ Record(p, Cur(p), Bound)
  /\ End(p)
  /\ UNCHANGED <<logs, resultFile, cap, pending, charge, spendHistory>>

--------------------------------------------------------------------------------
(* Ctrl-C or SIGTERM while a run is graded or torn down: book_outcome.     *)
Interrupt(p) ==
  /\ spendPc[p] \in {"grade", "book"}
  /\ Record(p, Cur(p), FileCost(Cur(p)))
  /\ End(p)
  /\ UNCHANGED <<logs, resultFile, cap, pending, charge, spendHistory>>

(* SIGKILL, a power cut; and an interrupt where nothing catches it.  A     *)
(* result file may be cut short.  While the agent runs its logs are not    *)
(* written: what it cost is paid and no file tells of it.                  *)
Kill(p) ==
  /\ spendPc[p] \notin {"idle", "ended"}
  /\ End(p)
  /\ \/ UNCHANGED resultFile
     \/ spendPc[p] = "grade" /\ resultFile' = [resultFile EXCEPT ![Cur(p)] = Torn]
  /\ \/ /\ spendPc[p] = "agent"
        /\ cut' = Append(cut, Cur(p))
        /\ \E a \in 0..AgentBudget, j \in 0..JevBound : lost' = lost + a + j
     \/ spendPc[p] # "agent" /\ UNCHANGED <<cut, lost>>
  /\ UNCHANGED <<ledger, logs, cap, book, pending, charge, paid, execs>>

InvocationStep(p) ==
  \/ Load(p) \/ Resume(p) \/ NextPair(p) \/ Begin(p) \/ AgentEnds(p) \/ AgentRaises(p)
  \/ Grade(p) \/ Book(p) \/ BookUnfinished(p) \/ Interrupt(p) \/ Kill(p)

SpendNext == \E p \in Invocations : InvocationStep(p)

SpendSpec == SpendInit /\ [][SpendNext]_spendVars

--------------------------------------------------------------------------------
Costs == Nat \cup {Unbooked}

SpendTypeOK ==
  /\ ledger.cap \in 0..MaxUsd /\ ledger.runs \in [StudyRuns -> Costs]
  /\ lock \in Invocations \cup {NoInvocation}
  /\ logs \subseteq StudyRuns
  /\ \A r \in StudyRuns : resultFile[r].kind # "none" => r \in logs
  /\ spendPc \in [Invocations -> {"idle", "resume", "pair", "start", "agent", "grade", "book",
                             "unfinished", "ended"}]
  /\ \A p \in Invocations : spendPc[p] \notin {"idle", "ended"} <=> lock = p
  /\ \A p \in Invocations : spendPc[p] \in {"agent", "grade", "book", "unfinished"} =>
       pending[p] # <<>> /\ book[p][Cur(p)] = Unbooked

(* ab/ledger.py: a pair starts only if its worst case fits.  Whatever      *)
(* earlier invocations did and wherever they were cut off, a run's agent   *)
(* starts only when all that was ever paid and the worst case of the runs  *)
(* still admitted stay within the cap in force, but for the bound of each  *)
(* run that an outright kill cut off at work: the ledger cannot know it.   *)
RunFitsCap ==
  \A p \in Invocations : spendPc[p] = "agent" =>
    Paid + lost + Len(pending[p]) * Bound <= cap[p] + Len(cut) * Bound

(* spend.py, "so a resume never pays twice": once a run's agent came to    *)
(* its end the run is not started again, also when the invocation died     *)
(* before it booked it.  A run whose agent was still at work when its      *)
(* invocation was killed outright is started and paid for again.           *)
PaidOnce ==
  /\ \A r \in StudyRuns : execs[r] <= 1
  /\ \A p \in Invocations : spendPc[p] = "agent" => execs[Cur(p)] = 0

(* What is booked stays booked at its amount and the recorded cap is never *)
(* raised, however invocations overlap and whatever caps they are given.   *)
LedgerKept ==
  [][/\ \A r \in Booked(ledger.runs) : ledger'.runs[r] = ledger.runs[r]
     /\ ledger'.cap <= ledger.cap]_spendVars

(* Across resumes, crashes and overlapping invocations a run is paid for   *)
(* once and inside the cap, apart from agents that were at work when their *)
(* invocation was killed outright.                                         *)
SpendSafe == RunFitsCap /\ PaidOnce
================================================================================
