----------------------------- MODULE Evals_proofs ------------------------------
(***************************************************************************)
(* Proofs about the paid evaluations.                                      *)
(*                                                                         *)
(* SpendLedger, for any number of invocations, pairs and runs and any      *)
(* caps: a run whose agent came to its end is not paid for again, a run    *)
(* starts only inside the cap, but for the bounds of agents that were cut  *)
(* off with their invocation, and what the ledger has booked stays booked. *)
(*                                                                         *)
(* AgentRun, for any transcripts, requests, replies and caps: when a       *)
(* verdict rests on the whole transcript and when on a part of it, where   *)
(* the credentials do not come, and what an ended run may leave on the     *)
(* host.                                                                   *)
(*                                                                         *)
(* Relay, for any lines, ids, tools and failures: the call log accounts    *)
(* for every call that reached the server and every answer that the        *)
(* client has seen.                                                        *)
(***************************************************************************)
EXTENDS SpendLedger, AgentRun, Relay, FiniteSetTheorems, SequenceTheorems, WellFoundedInduction, TLAPS

--------------------------------------------------------------------------------
(* The spend ledger. *)

(* Sums of money as numbers of units. *)

(* The units of the amounts v of the elements of S. *)
Units(v, S) == UNION {{r} \X (1..v[r]) : r \in S}

(* How many numbers there are up to n. *)
LEMMA UpTo ==
  ASSUME NEW n \in Nat
  PROVE  IsFiniteSet(1..n) /\ Cardinality(1..n) = n
<1>1. 1 \in Int /\ n \in Int
  OBVIOUS
<1>2. IsFiniteSet(1..n) /\ Cardinality(1..n) = IF 1 > n THEN 0 ELSE n - 1 + 1
  BY <1>1, FS_Interval
<1> QED
  BY <1>2

(* A finite number of amounts has finitely many units. *)
LEMMA UnitsFinite ==
  ASSUME NEW S, IsFiniteSet(S), NEW v, \A r \in S : v[r] \in Nat
  PROVE  IsFiniteSet(Units(v, S))
<1> DEFINE f == [r \in S |-> {r} \X (1..v[r])]
           T == {{r} \X (1..v[r]) : r \in S}
<1>1. f \in Surjection(S, T)
  BY DEF Surjection
<1>2. IsFiniteSet(T)
  BY <1>1, FS_Surjection
<1>3. ASSUME NEW r \in S PROVE IsFiniteSet({r} \X (1..v[r]))
  <2>1. IsFiniteSet({r}) /\ IsFiniteSet(1..v[r])
    BY FS_Singleton, UpTo
  <2> QED
    BY <2>1, FS_Product
<1>4. \A u \in T : IsFiniteSet(u)
  BY <1>3
<1> QED
  BY <1>2, <1>4, FS_UNION DEF Units

(* One amount is split off. *)
LEMMA UnitsAdd ==
  ASSUME NEW S, IsFiniteSet(S), NEW v, \A r \in S : v[r] \in Nat, NEW x \in S
  PROVE  Cardinality(Units(v, S)) = v[x] + Cardinality(Units(v, S \ {x}))
<1> DEFINE A == {x} \X (1..v[x])
           B == Units(v, S \ {x})
<1>1. Units(v, S) = A \cup B /\ A \cap B = {}
  BY DEF Units
<1>2. IsFiniteSet(S \ {x})
  BY FS_RemoveElement
<1>3. IsFiniteSet(B) /\ Cardinality(B) \in Nat
  BY <1>2, UnitsFinite, FS_CardinalityType
<1>4. IsFiniteSet({x}) /\ Cardinality({x}) = 1
  BY FS_Singleton
<1>5. IsFiniteSet(1..v[x]) /\ Cardinality(1..v[x]) = v[x] /\ v[x] \in Nat
  BY UpTo
<1>6. IsFiniteSet(A) /\ Cardinality(A) = v[x]
  <2>1. IsFiniteSet(A) /\ Cardinality(A) = Cardinality({x}) * Cardinality(1..v[x])
    BY <1>4, <1>5, FS_Product
  <2> QED
    BY <1>4, <1>5, <2>1
<1> HIDE DEF A, B
<1>7. Cardinality(A \cup B) = Cardinality(A) + Cardinality(B) - Cardinality(A \cap B)
  BY <1>3, <1>6, FS_Union
<1>8. Cardinality(A \cap B) = 0
  BY <1>1, FS_EmptySet
<1> QED
  BY <1>1, <1>3, <1>5, <1>6, <1>7, <1>8 DEF B

(* A sum over a finite set counts its units: the counting function solves  *)
(* the equation of the fold, and by well-founded induction on the subsets  *)
(* nothing else does.                                                      *)
LEMMA SumIsCount ==
  ASSUME NEW S, IsFiniteSet(S), NEW v, \A r \in S : v[r] \in Nat
  PROVE  SumOf(v, S) = Cardinality(Units(v, S))
<1> DEFINE Is(f) == f = [s \in SUBSET S |->
                           IF s = {} THEN 0
                           ELSE v[CHOOSE x \in s : TRUE] + f[s \ {CHOOSE x \in s : TRUE}]]
           count == [s \in SUBSET S |-> Cardinality(Units(v, s))]
           iter == CHOOSE f : Is(f)
<1>1. \A s \in SUBSET S : IsFiniteSet(s)
  BY FS_Subset
<1>2. \A s \in SUBSET S : s # {} => (CHOOSE x \in s : TRUE) \in s
  OBVIOUS
<1>3. Is(count)
  <2>1. ASSUME NEW s \in SUBSET S
        PROVE  count[s] = IF s = {} THEN 0
                          ELSE v[CHOOSE x \in s : TRUE] + count[s \ {CHOOSE x \in s : TRUE}]
    <3>1. CASE s = {}
      <4>1. Units(v, s) = {}
        BY <3>1 DEF Units
      <4> QED
        BY <3>1, <4>1, FS_EmptySet
    <3>2. CASE s # {}
      <4> DEFINE x == CHOOSE x \in s : TRUE
      <4>1. x \in s
        BY <1>2, <3>2
      <4>2. IsFiniteSet(s) /\ \A r \in s : v[r] \in Nat
        BY <1>1
      <4> HIDE DEF x
      <4>3. Cardinality(Units(v, s)) = v[x] + Cardinality(Units(v, s \ {x}))
        BY <4>1, <4>2, UnitsAdd
      <4>4. count[s] = v[x] + count[s \ {x}]
        BY <4>3
      <4> QED
        BY <3>2, <4>4 DEF x
    <3> QED
      BY <3>1, <3>2
  <2> HIDE DEF count
  <2>2. count = [s \in SUBSET S |-> count[s]]
    BY DEF count
  <2>3. [s \in SUBSET S |-> count[s]] = [s \in SUBSET S |->
                           IF s = {} THEN 0
                           ELSE v[CHOOSE x \in s : TRUE] + count[s \ {CHOOSE x \in s : TRUE}]]
    BY <2>1
  <2> QED
    BY <2>2, <2>3
<1>4. Is(iter)
  <2> HIDE DEF Is
  <2> QED
    BY <1>3
<1>5. SumOf(v, S) = iter[S]
  BY DEF SumOf, MapThenSumSet, MapThenFoldSet
<1>6. \A s \in SUBSET S : iter[s] = count[s]
  <2> DEFINE Bad == {s \in SUBSET S : iter[s] # count[s]}
  <2>a. \A s \in SUBSET S : iter[s] = IF s = {} THEN 0
                           ELSE v[CHOOSE x \in s : TRUE] + iter[s \ {CHOOSE x \in s : TRUE}]
    <3> HIDE DEF iter
    <3> QED
      BY <1>4
  <2>b. \A s \in SUBSET S : count[s] = IF s = {} THEN 0
                           ELSE v[CHOOSE x \in s : TRUE] + count[s \ {CHOOSE x \in s : TRUE}]
    <3> HIDE DEF count
    <3> QED
      BY <1>3
  <2> HIDE DEF iter, count, Is
  <2> SUFFICES ASSUME Bad # {} PROVE FALSE
    OBVIOUS
  <2>1. Bad \subseteq FiniteSubsetsOf(S)
    BY <1>1 DEF FiniteSubsetsOf
  <2>2. IsWellFoundedOn(StrictSubsetOrdering(S), FiniteSubsetsOf(S))
    BY FS_StrictSubsetOrderingWellFounded
  <2>3. PICK s \in Bad : \A y \in Bad : ~(<<y, s>> \in StrictSubsetOrdering(S))
    BY <2>1, <2>2, WFMin
  <2> DEFINE x == CHOOSE x \in s : TRUE
  <2>4. s # {}
    BY <2>a, <2>b, <2>3
  <2>5. x \in s
    BY <1>2, <2>4
  <2>6. s \ {x} \in SUBSET S /\ <<s \ {x}, s>> \in StrictSubsetOrdering(S)
    <3> HIDE DEF x
    <3> QED
      BY <2>5 DEF StrictSubsetOrdering
  <2>7. iter[s \ {x}] = count[s \ {x}]
    BY <2>3, <2>6
  <2> QED
    BY <2>a, <2>b, <2>3, <2>4, <2>7
<1>7. S \in SUBSET S /\ count[S] = Cardinality(Units(v, S))
  OBVIOUS
<1> QED
  BY <1>5, <1>6, <1>7

--------------------------------------------------------------------------------
(* The money. *)

(* There are finitely many runs. *)
LEMMA RunsFinite == IsFiniteSet(StudyRuns) /\ IsFiniteSet(Arms) /\ Cardinality(Arms) = 2
<1>1. NPairs \in Nat
  BY SpendAssumption
<1>2. IsFiniteSet(1..NPairs)
  BY <1>1, UpTo
<1>3. Arms = 1..2
  BY DEF Arms
<1>4. IsFiniteSet(Arms) /\ Cardinality(Arms) = 2
  BY <1>3, UpTo
<1>5. IsFiniteSet(StudyRuns)
  BY <1>2, <1>4, FS_Product DEF StudyRuns
<1> QED
  BY <1>4, <1>5

(* What a run may cost. *)
LEMMA BoundType == Bound \in Nat /\ AgentBudget \in Nat /\ JevBound \in Nat /\ Batch = 2 * Bound
<1>1. AgentBudget \in Nat /\ JevBound \in Nat
  BY SpendAssumption
<1> QED
  BY <1>1, RunsFinite DEF Bound, Batch

(* What was paid is a number. *)
LEMMA PaidType ==
  ASSUME paid \in [StudyRuns -> Nat]
  PROVE  Paid = Cardinality(Units(paid, StudyRuns)) /\ Paid \in Nat
<1>1. Paid = Cardinality(Units(paid, StudyRuns))
  BY RunsFinite, SumIsCount DEF Paid
<1>2. IsFiniteSet(Units(paid, StudyRuns))
  BY RunsFinite, UnitsFinite
<1> QED
  BY <1>1, <1>2, FS_CardinalityType

(* One more payment adds its amount. *)
LEMMA PaidMore ==
  ASSUME paid \in [StudyRuns -> Nat], NEW r \in StudyRuns, NEW a \in Nat, NEW j \in Nat, Pay(r, a, j)
  PROVE  paid' \in [StudyRuns -> Nat] /\ Paid' = Paid + a + j
<1>1. /\ paid' \in [StudyRuns -> Nat] /\ paid'[r] = paid[r] + a + j
      /\ \A s \in StudyRuns \ {r} : paid'[s] = paid[s]
  BY DEF Pay
<1>2. Paid = Cardinality(Units(paid, StudyRuns)) /\ Paid \in Nat
  BY PaidType
<1>3. Paid' = Cardinality(Units(paid', StudyRuns))
  BY <1>1, RunsFinite, SumIsCount DEF Paid
<1>4. Cardinality(Units(paid, StudyRuns)) = paid[r] + Cardinality(Units(paid, StudyRuns \ {r}))
  BY RunsFinite, UnitsAdd
<1>5. Cardinality(Units(paid', StudyRuns)) = paid'[r] + Cardinality(Units(paid', StudyRuns \ {r}))
  BY <1>1, RunsFinite, UnitsAdd
<1>6. Units(paid', StudyRuns \ {r}) = Units(paid, StudyRuns \ {r})
  BY <1>1 DEF Units
<1>7. Cardinality(Units(paid, StudyRuns \ {r})) \in Nat
  <2>1. IsFiniteSet(StudyRuns \ {r}) /\ \A s \in StudyRuns \ {r} : paid[s] \in Nat
    BY RunsFinite, FS_RemoveElement
  <2>2. IsFiniteSet(Units(paid, StudyRuns \ {r}))
    BY <2>1, UnitsFinite
  <2> QED
    BY <2>2, FS_CardinalityType
<1>8. paid[r] \in Nat
  OBVIOUS
<1> QED
  BY <1>1, <1>2, <1>3, <1>4, <1>5, <1>6, <1>7, <1>8

(* What is booked covers what was paid. *)
LEMMA PaidBooked ==
  ASSUME paid \in [StudyRuns -> Nat], NEW b \in [StudyRuns -> Costs],
         \A r \in StudyRuns : paid[r] # 0 => b[r] # Unbooked /\ paid[r] <= b[r]
  PROVE  Paid <= Total(b) /\ Total(b) \in Nat
<1>1. Booked(b) \in SUBSET StudyRuns /\ \A r \in Booked(b) : b[r] \in Nat
  BY DEF Booked, Costs
<1>2. IsFiniteSet(Booked(b))
  BY <1>1, RunsFinite, FS_Subset
<1>3. Total(b) = Cardinality(Units(b, Booked(b)))
  BY <1>1, <1>2, SumIsCount DEF Total
<1>4. IsFiniteSet(Units(b, Booked(b)))
  BY <1>1, <1>2, UnitsFinite
<1>5. Units(paid, StudyRuns) \in SUBSET Units(b, Booked(b))
  <2>1. ASSUME NEW r \in StudyRuns, NEW i \in 1..paid[r]
        PROVE  r \in Booked(b) /\ i \in 1..b[r]
    <3>1. paid[r] \in Nat /\ paid[r] # 0
      OBVIOUS
    <3>2. b[r] # Unbooked /\ paid[r] <= b[r] /\ r \in Booked(b)
      BY <3>1 DEF Booked
    <3>3. b[r] \in Nat
      BY <1>1, <3>2
    <3> QED
      BY <3>1, <3>2, <3>3
  <2> QED
    BY <2>1 DEF Units
<1>6. Paid = Cardinality(Units(paid, StudyRuns))
  BY PaidType
<1> QED
  BY <1>3, <1>4, <1>5, <1>6, FS_Subset, FS_CardinalityType

--------------------------------------------------------------------------------
(* The invariant. *)

InRun == {"agent", "grade", "book", "unfinished"}
Active == {"resume", "pair", "start"} \cup InRun

(* The types the steps rely on. *)
ShapeInv ==
  /\ ledger \in [cap : Nat, runs : [StudyRuns -> Costs]]
  /\ lock \in Invocations \cup {NoInvocation}
  /\ logs \in SUBSET StudyRuns
  /\ resultFile \in [StudyRuns -> [kind : {"none", "torn", "record"}, cost : Nat, escape : BOOLEAN]]
  /\ spendPc \in [Invocations -> Active \cup {"idle", "ended"}]
  /\ cap \in [Invocations -> Nat]
  /\ book \in [Invocations -> [StudyRuns -> Costs]]
  /\ pending \in [Invocations -> Seq(StudyRuns)]
  /\ charge \in [Invocations -> Nat]
  /\ paid \in [StudyRuns -> Nat] /\ execs \in [StudyRuns -> Nat]
  /\ ledger.cap <= MaxUsd

(* A run: paid for at most once, known by its logs or its booking, and     *)
(* never booked or recorded below what it cost.                            *)
RunInv(r) ==
  /\ execs[r] \in {0, 1}
  /\ execs[r] = 0 => paid[r] = 0
  /\ execs[r] = 1 => r \in logs \/ ledger.runs[r] # Unbooked
  /\ paid[r] <= Bound
  /\ ledger.runs[r] # Unbooked => paid[r] <= ledger.runs[r]
  /\ resultFile[r].kind = "record" => paid[r] <= resultFile[r].cost
  /\ resultFile[r].kind # "none" => r \in logs

(* What the holder of the lock knows of the ledger and of the runs whose   *)
(* logs are there: all of them are booked, but the one at hand.            *)
HolderInv(p) ==
  /\ spendPc[p] \in Active <=> lock = p
  /\ lock = p => book[p] = ledger.runs /\ cap[p] <= ledger.cap
  /\ spendPc[p] \in {"pair", "start", "agent"} => \A r \in logs : book[p][r] # Unbooked
  /\ spendPc[p] \in InRun \ {"agent"} =>
       /\ Cur(p) \in logs /\ paid[Cur(p)] <= charge[p]
       /\ \A r \in logs \ {Cur(p)} : book[p][r] # Unbooked

(* The runs still admitted: distinct, unbooked, and inside the cap with    *)
(* all that was paid.                                                      *)
PendingInv(p) ==
  /\ spendPc[p] \in InRun \cup {"start"} =>
       \A i \in 1..Len(pending[p]) :
         /\ book[p][pending[p][i]] = Unbooked
         /\ \A j \in 1..Len(pending[p]) : pending[p][i] = pending[p][j] => i = j
  /\ spendPc[p] \in InRun => pending[p] # <<>>
  /\ spendPc[p] \in {"start", "agent"} => Paid + Len(pending[p]) * Bound <= cap[p]
  /\ spendPc[p] \in {"grade", "book"} => Paid + (Len(pending[p]) - 1) * Bound <= cap[p]

IInv ==
  /\ ShapeInv
  /\ \A r \in StudyRuns : RunInv(r)
  /\ \A p \in Invocations : HolderInv(p) /\ PendingInv(p)

(* The study before its first invocation. *)
LEMMA InitIInv == SpendInit => IInv
<1> SUFFICES ASSUME SpendInit PROVE IInv
  OBVIOUS
<1>1. MaxUsd \in Nat /\ Bound \in Nat /\ NoInvocation \notin Invocations
  BY SpendAssumption, BoundType
<1>2. ShapeInv
  <2>1. <<>> \in Seq(StudyRuns)
    OBVIOUS
  <2> QED
    BY <1>1, <2>1 DEF SpendInit, ShapeInv, Costs, NoRecord
<1>3. \A r \in StudyRuns : RunInv(r)
  BY <1>1 DEF SpendInit, RunInv, NoRecord
<1>4. \A p \in Invocations : HolderInv(p) /\ PendingInv(p)
  BY <1>1 DEF SpendInit, HolderInv, PendingInv, Active, InRun
<1> QED
  BY <1>2, <1>3, <1>4 DEF IInv

(* Nothing is known of an invocation that does not hold the lock, so the   *)
(* steps of the holder cannot falsify it.                                  *)
LEMMA Together ==
  ASSUME IInv, NEW p \in Invocations, lock \in {p, NoInvocation}, lock' \in {p, NoInvocation},
         \A q \in Invocations \ {p} : spendPc'[q] = spendPc[q],
         ShapeInv', \A r \in StudyRuns : RunInv(r)', HolderInv(p)', PendingInv(p)'
  PROVE  IInv'
<1>1. ASSUME NEW q \in Invocations \ {p} PROVE HolderInv(q)' /\ PendingInv(q)'
  <2>1. lock # q /\ lock' # q
    BY SpendAssumption
  <2>2. spendPc'[q] \notin Active
    BY <2>1 DEF IInv, HolderInv
  <2> QED
    BY <2>1, <2>2 DEF HolderInv, PendingInv, Active, InRun
<1> QED
  BY <1>1 DEF IInv

(* An invocation that leaves drops its lock. *)
LEMMA EndIInv ==
  ASSUME IInv, NEW p \in Invocations, lock = p, End(p), ShapeInv', \A r \in StudyRuns : RunInv(r)'
  PROVE  IInv'
<1>1. /\ spendPc'[p] = "ended" /\ lock' = NoInvocation
      /\ \A q \in Invocations \ {p} : spendPc'[q] = spendPc[q]
  BY DEF End, IInv, ShapeInv
<1>2. HolderInv(p)' /\ PendingInv(p)'
  BY <1>1, SpendAssumption DEF HolderInv, PendingInv, Active, InRun
<1> QED
  BY <1>1, <1>2, Together

(* A step of the holder that stays in the study. *)
LEMMA GotoIInv ==
  ASSUME IInv, NEW p \in Invocations, lock = p, NEW l \in Active, spendPc' = [spendPc EXCEPT ![p] = l],
         UNCHANGED lock, ShapeInv', \A r \in StudyRuns : RunInv(r)', HolderInv(p)', PendingInv(p)'
  PROVE  IInv'
<1>1. \A q \in Invocations \ {p} : spendPc'[q] = spendPc[q]
  BY DEF IInv, ShapeInv
<1> QED
  BY <1>1, Together

(* An active invocation is the one that holds the lock. *)
LEMMA Holds ==
  ASSUME IInv, NEW p \in Invocations, spendPc[p] \in Active
  PROVE  lock = p /\ book[p] = ledger.runs /\ cap[p] <= ledger.cap
BY DEF IInv, HolderInv

(* record and _persist: exactly one run is added to the file. *)
LEMMA RecordStep ==
  ASSUME IInv, NEW p \in Invocations, lock = p, NEW r \in StudyRuns, book[p][r] = Unbooked,
         NEW cost \in Nat, Record(p, r, cost)
  PROVE  /\ ledger' \in [cap : Nat, runs : [StudyRuns -> Costs]]
         /\ ledger'.cap = cap[p] /\ cap[p] <= ledger.cap /\ ledger'.cap <= MaxUsd
         /\ ledger.runs[r] = Unbooked /\ ledger'.runs[r] = cost /\ cost # Unbooked
         /\ \A s \in StudyRuns \ {r} : ledger'.runs[s] = ledger.runs[s]
         /\ book' \in [Invocations -> [StudyRuns -> Costs]] /\ book'[p] = ledger'.runs
         /\ book[p] = ledger.runs
<1>1. ShapeInv /\ book[p] = ledger.runs /\ cap[p] <= ledger.cap
  BY DEF IInv, HolderInv
<1>2. cap[p] \in Nat /\ ledger.cap \in Nat /\ ledger.cap <= MaxUsd /\ MaxUsd \in Nat
  BY <1>1, SpendAssumption DEF ShapeInv
<1>3. cap[p] <= MaxUsd
  BY <1>1, <1>2
<1> DEFINE b == [book[p] EXCEPT ![r] = cost]
<1>4. book[p] \in [StudyRuns -> Costs] /\ b \in [StudyRuns -> Costs]
      /\ b[r] = cost /\ \A s \in StudyRuns \ {r} : b[s] = book[p][s]
  BY <1>1 DEF ShapeInv, Costs
<1>5. cost # Unbooked
  BY SpendAssumption
<1>6. ledger' = [cap |-> cap[p], runs |-> b] /\ book' = [book EXCEPT ![p] = b]
  BY <1>1 DEF Record, ShapeInv
<1> HIDE DEF b
<1>7. book' \in [Invocations -> [StudyRuns -> Costs]] /\ book'[p] = b
  BY <1>1, <1>4, <1>6 DEF ShapeInv
<1>8. /\ ledger' \in [cap : Nat, runs : [StudyRuns -> Costs]]
      /\ ledger'.cap = cap[p] /\ ledger'.runs = b
  BY <1>2, <1>4, <1>6
<1> QED
  BY <1>1, <1>3, <1>4, <1>5, <1>7, <1>8

(* A booking at no less than what was paid keeps what is known of runs. *)
LEMMA RecordRuns ==
  ASSUME IInv, NEW p \in Invocations, lock = p, NEW r \in StudyRuns, book[p][r] = Unbooked,
         NEW cost \in Nat, Record(p, r, cost), paid[r] <= cost,
         UNCHANGED <<logs, resultFile, paid, execs>>
  PROVE  \A s \in StudyRuns : RunInv(s)'
<1>1. /\ ledger'.runs[r] = cost /\ cost # Unbooked
      /\ \A s \in StudyRuns \ {r} : ledger'.runs[s] = ledger.runs[s]
  BY RecordStep
<1>2. ASSUME NEW s \in StudyRuns PROVE RunInv(s)'
  <2>1. RunInv(s)
    BY DEF IInv
  <2>2. CASE s = r
    BY <1>1, <2>1, <2>2 DEF RunInv
  <2>3. CASE s # r
    BY <1>1, <2>1, <2>3 DEF RunInv
  <2> QED
    BY <2>2, <2>3
<1> QED
  BY <1>2

(* Steps that touch no run. *)
LEMMA RunsKept ==
  ASSUME IInv, UNCHANGED <<ledger, logs, resultFile, paid, execs>>
  PROVE  \A r \in StudyRuns : RunInv(r)'
BY DEF IInv, RunInv

--------------------------------------------------------------------------------
(* The lock is taken, or the invocation refused. *)
LEMMA LoadIInv ==
  ASSUME IInv, NEW p \in Invocations, Load(p)
  PROVE  IInv'
<1>1. ShapeInv /\ HolderInv(p) /\ spendPc[p] = "idle" /\ lock # p
  BY DEF IInv, HolderInv, Load, Active, InRun
<1>2. UNCHANGED <<ledger, logs, resultFile, pending, charge, paid, execs>>
  BY DEF Load, studyFiles, spendHistory
<1>3. \A r \in StudyRuns : RunInv(r)'
  BY <1>2, RunsKept
<1>4. CASE spendPc' = [spendPc EXCEPT ![p] = "ended"] /\ UNCHANGED <<lock, cap, book>>
  <2>1. ShapeInv'
    BY <1>1, <1>2, <1>4 DEF ShapeInv
  <2>2. spendPc'[p] = "ended" /\ \A q \in Invocations \ {p} : spendPc'[q] = spendPc[q]
    BY <1>1, <1>4 DEF ShapeInv
  <2>3. HolderInv(p)' /\ PendingInv(p)'
    BY <1>1, <1>4, <2>2 DEF HolderInv, PendingInv, Active, InRun
  <2>4. ASSUME NEW q \in Invocations \ {p} PROVE HolderInv(q)' /\ PendingInv(q)'
    BY <1>2, <1>4, <2>2 DEF IInv, HolderInv, PendingInv, Cur, Paid
  <2> QED
    BY <1>3, <2>1, <2>3, <2>4 DEF IInv
<1>5. ASSUME lock = NoInvocation, lock' = p, spendPc' = [spendPc EXCEPT ![p] = "resume"],
             book' = [book EXCEPT ![p] = ledger.runs], NEW env \in EnvCaps,
             cap' = [cap EXCEPT ![p] = Least(EffectiveCap(env), ledger.cap)]
      PROVE  IInv'
  <2> DEFINE c == Least(EffectiveCap(env), ledger.cap)
  <2>1. c \in Nat /\ c <= ledger.cap
    <3>1. env \in Nat /\ MaxUsd \in Nat /\ ledger.cap \in Nat
      BY <1>1, SpendAssumption DEF ShapeInv
    <3> QED
      BY <3>1 DEF Least, EffectiveCap
  <2> HIDE DEF c
  <2>2. cap' = [cap EXCEPT ![p] = c]
    BY <1>5 DEF c
  <2>3. ShapeInv'
    BY <1>1, <1>2, <1>5, <2>1, <2>2 DEF ShapeInv, Active
  <2>4. /\ spendPc'[p] = "resume" /\ cap'[p] = c /\ book'[p] = ledger.runs
        /\ \A q \in Invocations \ {p} : spendPc'[q] = spendPc[q]
    BY <1>1, <1>5, <2>2 DEF ShapeInv
  <2>5. HolderInv(p)' /\ PendingInv(p)'
    BY <1>2, <1>5, <2>1, <2>4 DEF HolderInv, PendingInv, Active, InRun
  <2> QED
    BY <1>3, <1>5, <2>3, <2>4, <2>5, Together
<1> QED
  BY <1>4, <1>5 DEF Load

(* _load_book: a run that left logs is booked at its record or its bound. *)
LEMMA ResumeIInv ==
  ASSUME IInv, NEW p \in Invocations, Resume(p)
  PROVE  IInv'
<1>1. /\ spendPc[p] = "resume" /\ UNCHANGED <<logs, resultFile, cap, pending, charge, paid, execs>>
      /\ ShapeInv
  BY DEF Resume, spendHistory, IInv
<1>2. lock = p /\ book[p] = ledger.runs /\ cap[p] <= ledger.cap
  BY <1>1, Holds DEF Active
<1>3. ASSUME NEW r \in logs, book[p][r] = Unbooked, Record(p, r, FileCost(r)), UNCHANGED <<spendPc, lock>>
      PROVE  IInv'
  <2>1. r \in StudyRuns /\ FileCost(r) \in Nat /\ paid[r] <= FileCost(r)
    <3>1. r \in StudyRuns /\ resultFile[r].cost \in Nat /\ Bound \in Nat /\ RunInv(r)
      BY <1>1, BoundType DEF ShapeInv, IInv
    <3> QED
      BY <3>1 DEF FileCost, RunInv
  <2>2. \A s \in StudyRuns : RunInv(s)'
    BY <1>1, <1>2, <1>3, <2>1, RecordRuns
  <2>3. /\ ledger' \in [cap : Nat, runs : [StudyRuns -> Costs]]
        /\ ledger'.cap = cap[p] /\ ledger'.cap <= MaxUsd
        /\ book' \in [Invocations -> [StudyRuns -> Costs]] /\ book'[p] = ledger'.runs
    BY <1>2, <1>3, <2>1, RecordStep
  <2>4. cap[p] \in Nat /\ cap[p] <= cap[p]
    BY <1>1 DEF ShapeInv
  <2>5. ShapeInv'
    BY <1>1, <1>3, <2>3 DEF ShapeInv
  <2>6. HolderInv(p)' /\ PendingInv(p)'
    BY <1>1, <1>2, <1>3, <2>3, <2>4 DEF HolderInv, PendingInv, Active, InRun
  <2> QED
    BY <1>2, <1>3, <2>2, <2>5, <2>6, Together
<1>4. CASE UNCHANGED <<ledger, book>> /\ End(p)
  <2>1. \A r \in StudyRuns : RunInv(r)'
    BY <1>1, <1>4, RunsKept
  <2>2. ShapeInv'
    BY <1>1, <1>2, <1>4 DEF ShapeInv, End
  <2> QED
    BY <1>2, <1>4, <2>1, <2>2, EndIInv
<1>5. CASE /\ {r \in logs : book[p][r] = Unbooked} = {}
           /\ UNCHANGED <<ledger, book>> /\ spendPc' = [spendPc EXCEPT ![p] = "pair"] /\ UNCHANGED lock
  <2>1. \A r \in StudyRuns : RunInv(r)'
    BY <1>1, <1>5, RunsKept
  <2>2. ShapeInv'
    BY <1>1, <1>5 DEF ShapeInv, Active
  <2>3. spendPc'[p] = "pair"
    BY <1>1, <1>5 DEF ShapeInv
  <2>4. HolderInv(p)' /\ PendingInv(p)'
    BY <1>1, <1>2, <1>5, <2>3 DEF HolderInv, PendingInv, Active, InRun
  <2> QED
    BY <1>2, <1>5, <2>1, <2>2, <2>4, GotoIInv DEF Active
<1> QED
  BY <1>3, <1>4, <1>5 DEF Resume, Advance

(* The process dies: a result file may be cut short. *)
LEMMA KillIInv ==
  ASSUME IInv, NEW p \in Invocations, Kill(p)
  PROVE  IInv'
<1>1. /\ spendPc[p] \notin {"idle", "ended"} /\ End(p)
      /\ UNCHANGED <<ledger, logs, cap, book, pending, charge, paid, execs>> /\ ShapeInv
  BY DEF Kill, IInv
<1>2. spendPc[p] \in Active /\ lock = p
  <2>1. spendPc[p] \in Active
    BY <1>1 DEF ShapeInv
  <2> QED
    BY <2>1, Holds
<1>3. CASE UNCHANGED resultFile
  <2>1. \A r \in StudyRuns : RunInv(r)'
    BY <1>1, <1>3, RunsKept
  <2>2. ShapeInv'
    BY <1>1, <1>2, <1>3 DEF ShapeInv, End
  <2> QED
    BY <1>1, <1>2, <2>1, <2>2, EndIInv
<1>4. CASE spendPc[p] = "grade" /\ resultFile' = [resultFile EXCEPT ![Cur(p)] = Torn]
  <2>1. Cur(p) \in logs /\ Cur(p) \in StudyRuns
    BY <1>1, <1>4 DEF IInv, HolderInv, InRun, ShapeInv
  <2>2. /\ Torn \in [kind : {"none", "torn", "record"}, cost : Nat, escape : BOOLEAN]
        /\ Torn.kind = "torn"
    BY DEF Torn, NoRecord
  <2>3. /\ resultFile' \in [StudyRuns -> [kind : {"none", "torn", "record"}, cost : Nat, escape : BOOLEAN]]
        /\ resultFile'[Cur(p)] = Torn
        /\ \A s \in StudyRuns : s # Cur(p) => resultFile'[s] = resultFile[s]
    BY <1>1, <1>4, <2>1, <2>2 DEF ShapeInv
  <2>4. ShapeInv'
    BY <1>1, <1>2, <2>3 DEF ShapeInv, End
  <2>5. ASSUME NEW s \in StudyRuns PROVE RunInv(s)'
    <3>1. RunInv(s)
      BY DEF IInv
    <3>2. CASE s = Cur(p)
      BY <1>1, <2>1, <2>2, <2>3, <3>1, <3>2 DEF RunInv
    <3>3. CASE s # Cur(p)
      BY <1>1, <2>3, <3>1, <3>3 DEF RunInv
    <3> QED
      BY <3>2, <3>3
  <2> QED
    BY <1>1, <1>2, <2>4, <2>5, EndIInv
<1> QED
  BY <1>3, <1>4 DEF Kill

--------------------------------------------------------------------------------
(* A pair. *)

(* The first of some pairs is one of them. *)
LEMMA MinIn ==
  ASSUME NEW S \in SUBSET (1..NPairs), S # {}
  PROVE  Min(S) \in S
<1> DEFINE T == {1..k : k \in S}
<1>1. S \subseteq Nat
  BY SpendAssumption
<1>2. \A k \in S : 1..k \in FiniteSubsetsOf(Nat)
  BY <1>1, UpTo DEF FiniteSubsetsOf
<1>3. T \subseteq FiniteSubsetsOf(Nat) /\ T # {}
  BY <1>2
<1>4. PICK t \in T : \A y \in T : ~(<<y, t>> \in StrictSubsetOrdering(Nat))
  BY <1>3, FS_StrictSubsetOrderingWellFounded, WFMin
<1>5. PICK x \in S : t = 1..x
  OBVIOUS
<1>6. ASSUME NEW y \in S, ~(x <= y) PROVE FALSE
  <2>1. x \in Nat /\ y \in Nat /\ y < x
    BY <1>1, <1>6
  <2>2. x \in 1..x
    BY <1>1, <2>1
  <2>3. x \notin 1..y /\ (1..y) \subseteq 1..x /\ (1..y) \in SUBSET Nat /\ (1..x) \in SUBSET Nat
    BY <2>1
  <2>4. <<1..y, 1..x>> \in StrictSubsetOrdering(Nat)
    BY <2>2, <2>3 DEF StrictSubsetOrdering
  <2> QED
    BY <1>4, <1>5, <2>4
<1>7. \E z \in S : \A y \in S : z <= y
  BY <1>6
<1> QED
  BY <1>7 DEF Min

(* The runs of a pair that are left: at most its two, distinct, unbooked. *)
LEMMA UnrunProperties ==
  ASSUME NEW b, NEW k \in 1..NPairs
  PROVE  /\ Unrun(b, k) \in Seq(StudyRuns) /\ Len(Unrun(b, k)) \in 0..2
         /\ \A i \in 1..Len(Unrun(b, k)) :
              /\ b[Unrun(b, k)[i]] = Unbooked
              /\ \A j \in 1..Len(Unrun(b, k)) : Unrun(b, k)[i] = Unrun(b, k)[j] => i = j
<1> DEFINE r == <<k, 1>>
           s == <<k, 2>>
           u == Unrun(b, k)
<1>1. r \in StudyRuns /\ s \in StudyRuns /\ r # s
  BY DEF StudyRuns, Arms
<1>2. u = IfUnbooked(b, r) \o IfUnbooked(b, s)
  BY DEF Unrun
<1> HIDE DEF r, s, u
<1>3. CASE b[r] = Unbooked /\ b[s] = Unbooked
  <2>1. u = <<r>> \o <<s>>
    BY <1>2, <1>3 DEF IfUnbooked
  <2>2. <<r>> \in Seq(StudyRuns) /\ <<s>> \in Seq(StudyRuns) /\ Len(<<r>>) = 1 /\ Len(<<s>>) = 1
        /\ <<r>>[1] = r /\ <<s>>[1] = s
    BY <1>1
  <2>3. u \in Seq(StudyRuns) /\ Len(u) = 2 /\ u[1] = r /\ u[2] = s
    BY <2>1, <2>2, ConcatProperties, SMTT(30)
  <2>4. 1..Len(u) = {1, 2}
    BY <2>3
  <2> QED
    BY <1>1, <1>3, <2>3, <2>4 DEF u
<1>4. CASE b[r] = Unbooked /\ b[s] # Unbooked
  <2>1. u = <<r>> \o <<>>
    BY <1>2, <1>4 DEF IfUnbooked
  <2>2. u = <<r>>
    BY <2>1
  <2> QED
    BY <1>1, <1>4, <2>2 DEF u
<1>5. CASE b[r] # Unbooked /\ b[s] = Unbooked
  <2>1. u = <<>> \o <<s>>
    BY <1>2, <1>5 DEF IfUnbooked
  <2>2. u = <<s>>
    BY <2>1
  <2> QED
    BY <1>1, <1>5, <2>2 DEF u
<1>6. CASE b[r] # Unbooked /\ b[s] # Unbooked
  <2>1. u = <<>> \o <<>>
    BY <1>2, <1>6 DEF IfUnbooked
  <2>2. u = <<>>
    BY <2>1
  <2> QED
    BY <1>1, <1>6, <2>2 DEF u
<1> QED
  BY <1>3, <1>4, <1>5, <1>6

(* study admits a pair: its worst case fits beside all that was paid. *)
LEMMA NextPairIInv ==
  ASSUME IInv, NEW p \in Invocations, NextPair(p)
  PROVE  IInv'
<1> DEFINE unrun == {k \in 1..NPairs : Unrun(book[p], k) # <<>>}
           next == Unrun(book[p], Min(unrun))
<1>1. /\ spendPc[p] = "pair" /\ UNCHANGED <<ledger, logs, resultFile, cap, book, charge, paid, execs>>
      /\ ShapeInv /\ HolderInv(p)
  BY DEF NextPair, studyFiles, spendHistory, IInv
<1>2. lock = p /\ book[p] = ledger.runs
  BY <1>1, Holds DEF Active
<1>3. \A r \in StudyRuns : RunInv(r)'
  BY <1>1, RunsKept
<1>4. CASE End(p) /\ UNCHANGED pending
  <2>1. ShapeInv'
    BY <1>1, <1>2, <1>4 DEF ShapeInv, End
  <2> QED
    BY <1>2, <1>3, <1>4, <2>1, EndIInv
<1>5. CASE /\ unrun # {} /\ ~Blocked(p, Len(next))
           /\ pending' = [pending EXCEPT ![p] = next]
           /\ spendPc' = [spendPc EXCEPT ![p] = "start"] /\ UNCHANGED lock
  <2>1. Min(unrun) \in 1..NPairs
    BY <1>5, MinIn
  <2>2. /\ next \in Seq(StudyRuns) /\ Len(next) \in 0..2
        /\ \A i \in 1..Len(next) :
             /\ book[p][next[i]] = Unbooked
             /\ \A j \in 1..Len(next) : next[i] = next[j] => i = j
    BY <2>1, UnrunProperties
  <2> HIDE DEF next, unrun
  <2>3. Paid <= Total(book[p]) /\ Total(book[p]) \in Nat /\ Paid \in Nat
    <3>1. ASSUME NEW r \in StudyRuns, paid[r] # 0
          PROVE  book[p][r] # Unbooked /\ paid[r] <= book[p][r]
      <4>1. RunInv(r) /\ \A s \in logs : book[p][s] # Unbooked
        BY <1>1 DEF IInv, HolderInv
      <4> QED
        BY <1>2, <3>1, <4>1 DEF RunInv
    <3> QED
      BY <1>1, <3>1, PaidBooked, PaidType DEF ShapeInv
  <2>4. cap[p] \in Nat /\ Bound \in Nat /\ Batch = 2 * Bound
    BY <1>1, BoundType DEF ShapeInv
  <2>5. Total(book[p]) + 2 * Bound <= cap[p]
    BY <1>5, <2>3, <2>4 DEF Blocked
  <2>6. Paid + Len(next) * Bound <= cap[p]
    <3>1. Len(next) * Bound <= 2 * Bound /\ Len(next) * Bound \in Nat
      <4>1. CASE Len(next) = 0
        BY <2>4, <4>1
      <4>2. CASE Len(next) = 1
        BY <2>4, <4>2
      <4>3. CASE Len(next) = 2
        BY <2>4, <4>3
      <4> QED
        BY <2>2, <4>1, <4>2, <4>3
    <3> QED
      BY <2>3, <2>4, <2>5, <3>1
  <2>7. ShapeInv'
    BY <1>1, <1>5, <2>2 DEF ShapeInv, Active
  <2>8. spendPc'[p] = "start" /\ pending'[p] = next /\ Paid' = Paid
    BY <1>1, <1>5 DEF ShapeInv, Paid
  <2>9. HolderInv(p)'
    BY <1>1, <1>2, <1>5, <2>8 DEF HolderInv, Active, InRun
  <2>10. PendingInv(p)'
    BY <1>1, <2>2, <2>6, <2>8 DEF PendingInv, InRun
  <2> QED
    BY <1>2, <1>3, <1>5, <2>7, <2>9, <2>10, GotoIInv DEF Active
<1> QED
  BY <1>4, <1>5 DEF NextPair, Advance

(* The run at hand: unbooked, the first of those admitted. *)
LEMMA CurRun ==
  ASSUME IInv, NEW p \in Invocations, spendPc[p] \in InRun
  PROVE  /\ Cur(p) \in StudyRuns /\ book[p][Cur(p)] = Unbooked /\ Cur(p) = pending[p][1]
         /\ Len(pending[p]) \in Nat \ {0} /\ pending[p] \in Seq(StudyRuns)
         /\ lock = p /\ book[p] = ledger.runs
<1>1. pending[p] \in Seq(StudyRuns) /\ pending[p] # <<>>
  BY DEF IInv, ShapeInv, PendingInv
<1>2. /\ Cur(p) = pending[p][1] /\ Cur(p) \in StudyRuns /\ Len(pending[p]) \in Nat \ {0}
  BY <1>1, HeadTailProperties, EmptySeq, LenProperties DEF Cur
<1>3. 1 \in 1..Len(pending[p])
  BY <1>2
<1>4. book[p][pending[p][1]] = Unbooked
  BY <1>3 DEF IInv, PendingInv
<1> QED
  BY <1>1, <1>2, <1>4, Holds DEF Active

(* run_one up to the agent. *)
LEMMA BeginIInv ==
  ASSUME IInv, NEW p \in Invocations, Begin(p)
  PROVE  IInv'
<1>1. /\ spendPc[p] = "start" /\ ShapeInv /\ HolderInv(p) /\ PendingInv(p)
      /\ UNCHANGED <<ledger, logs, resultFile, cap, book, pending, charge, paid, execs>>
  BY DEF Begin, studyFiles, spendHistory, IInv
<1>2. lock = p /\ book[p] = ledger.runs
  BY <1>1, Holds DEF Active
<1>3. \A r \in StudyRuns : RunInv(r)'
  BY <1>1, RunsKept
<1>4. CASE End(p)
  <2>1. ShapeInv'
    BY <1>1, <1>2, <1>4 DEF ShapeInv, End
  <2> QED
    BY <1>2, <1>3, <1>4, <2>1, EndIInv
<1>5. ASSUME NEW l \in {"pair", "agent"}, spendPc' = [spendPc EXCEPT ![p] = l], UNCHANGED lock,
             l = "agent" => pending[p] # <<>>
      PROVE  IInv'
  <2>1. ShapeInv'
    BY <1>1, <1>5 DEF ShapeInv, Active, InRun
  <2>2. spendPc'[p] = l /\ Paid' = Paid
    BY <1>1, <1>5 DEF ShapeInv, Paid
  <2>3. HolderInv(p)'
    BY <1>1, <1>2, <1>5, <2>2 DEF HolderInv, Active, InRun
  <2>4. PendingInv(p)'
    BY <1>1, <1>5, <2>2 DEF PendingInv, InRun
  <2> QED
    BY <1>2, <1>3, <1>5, <2>1, <2>3, <2>4, GotoIInv DEF Active, InRun
<1> QED
  BY <1>4, <1>5 DEF Begin, Advance

(* The run whose agent starts has never run and was never paid. *)
LEMMA FirstPay ==
  ASSUME IInv, NEW p \in Invocations, spendPc[p] = "agent",
         NEW a \in 0..AgentBudget, NEW j \in 0..JevBound, Pay(Cur(p), a, j)
  PROVE  /\ paid' \in [StudyRuns -> Nat] /\ execs' \in [StudyRuns -> Nat]
         /\ execs'[Cur(p)] = 1 /\ paid'[Cur(p)] = a + j
         /\ a + j \in Nat /\ a + j <= Bound /\ Paid' = Paid + a + j /\ Paid \in Nat
         /\ \A s \in StudyRuns \ {Cur(p)} : paid'[s] = paid[s] /\ execs'[s] = execs[s]
<1>1. /\ Cur(p) \in StudyRuns /\ book[p][Cur(p)] = Unbooked /\ book[p] = ledger.runs
      /\ ShapeInv /\ RunInv(Cur(p)) /\ HolderInv(p)
  BY CurRun DEF IInv, InRun
<1>2. execs[Cur(p)] = 0 /\ paid[Cur(p)] = 0
  BY <1>1 DEF HolderInv, RunInv
<1>3. a \in Nat /\ j \in Nat /\ a + j <= Bound
  BY BoundType DEF Bound
<1>4. paid' \in [StudyRuns -> Nat] /\ Paid' = Paid + a + j /\ Paid \in Nat
  BY <1>1, <1>3, PaidMore, PaidType DEF ShapeInv
<1>5. /\ paid'[Cur(p)] = 0 + a + j /\ execs'[Cur(p)] = 0 + 1
      /\ execs' \in [StudyRuns -> Nat]
      /\ \A s \in StudyRuns \ {Cur(p)} : paid'[s] = paid[s] /\ execs'[s] = execs[s]
  BY <1>1, <1>2, <1>3 DEF Pay, ShapeInv
<1> QED
  BY <1>3, <1>4, <1>5

(* The agent ends: its logs are there before anything is booked. *)
LEMMA AgentEndsIInv ==
  ASSUME IInv, NEW p \in Invocations, AgentEnds(p)
  PROVE  IInv'
<1>1. /\ spendPc[p] = "agent" /\ logs' = logs \cup {Cur(p)} /\ spendPc' = [spendPc EXCEPT ![p] = "grade"]
      /\ UNCHANGED <<lock, ledger, resultFile, cap, book, pending>>
      /\ ShapeInv /\ HolderInv(p) /\ PendingInv(p)
  BY DEF AgentEnds, Advance, IInv
<1>2. PICK a \in 0..AgentBudget, j \in 0..JevBound, reported \in BOOLEAN :
        /\ Pay(Cur(p), a, j)
        /\ charge' = [charge EXCEPT ![p] = CostOf(a, j, reported)]
  BY DEF AgentEnds
<1>3. /\ Cur(p) \in StudyRuns /\ Len(pending[p]) \in Nat \ {0} /\ lock = p /\ book[p] = ledger.runs
  BY <1>1, CurRun DEF InRun
<1>4. /\ paid' \in [StudyRuns -> Nat] /\ execs' \in [StudyRuns -> Nat]
      /\ execs'[Cur(p)] = 1 /\ paid'[Cur(p)] = a + j
      /\ a + j \in Nat /\ a + j <= Bound /\ Paid' = Paid + a + j /\ Paid \in Nat
      /\ \A s \in StudyRuns \ {Cur(p)} : paid'[s] = paid[s] /\ execs'[s] = execs[s]
  BY <1>1, <1>2, FirstPay
<1>5. a \in Nat /\ j \in Nat /\ Bound \in Nat
  BY BoundType
<1>6. CostOf(a, j, reported) \in Nat /\ a + j <= CostOf(a, j, reported)
  BY <1>4, <1>5 DEF CostOf
<1>7. ShapeInv'
  BY <1>1, <1>2, <1>3, <1>4, <1>6 DEF ShapeInv, Active, InRun
<1>8. ASSUME NEW s \in StudyRuns PROVE RunInv(s)'
  <2>1. RunInv(s) /\ RunInv(Cur(p))
    BY <1>3 DEF IInv
  <2>2. CASE s = Cur(p)
    <3>1. ledger.runs[Cur(p)] = Unbooked /\ Cur(p) \notin logs
      BY <1>1, <1>3, CurRun DEF HolderInv, InRun
    <3>2. resultFile[Cur(p)].kind = "none"
      BY <2>1, <3>1 DEF RunInv
    <3> QED
      BY <1>1, <1>4, <2>2, <3>1, <3>2 DEF RunInv
  <2>3. CASE s # Cur(p)
    BY <1>1, <1>4, <2>1, <2>3 DEF RunInv
  <2> QED
    BY <2>2, <2>3
<1>9. /\ spendPc'[p] = "grade" /\ charge'[p] = CostOf(a, j, reported) /\ Cur(p)' = Cur(p)
  BY <1>1, <1>2 DEF ShapeInv, Cur
<1>10. HolderInv(p)'
  BY <1>1, <1>3, <1>4, <1>6, <1>9 DEF HolderInv, Active, InRun
<1>11. PendingInv(p)'
  <2>1. Paid + Len(pending[p]) * Bound <= cap[p] /\ cap[p] \in Nat
    BY <1>1 DEF PendingInv, ShapeInv
  <2> DEFINE m == (Len(pending[p]) - 1) * Bound
  <2>2. Len(pending[p]) * Bound = m + Bound /\ m \in Nat
    <3>1. ASSUME NEW n \in Nat \ {0}, NEW x \in Nat PROVE n * x = (n - 1) * x + x /\ (n - 1) * x \in Nat
      <4>1. (n - 1) * x = n * x - x /\ n - 1 \in Nat
        OBVIOUS
      <4>2. (n - 1) * x \in Nat
        BY <4>1
      <4> QED
        BY <4>1, <4>2
    <3> QED
      BY <1>3, <1>5, <3>1
  <2> HIDE DEF m
  <2>3. Paid' + (Len(pending[p]) - 1) * Bound <= cap[p]
    <3>1. Paid' + m <= cap[p]
      <4> DEFINE was == Paid
                 n == Len(pending[p]) * Bound
      <4>1. Paid' = was + a + j /\ was \in Nat /\ a + j <= Bound
        BY <1>4
      <4>2. was + n <= cap[p] /\ cap[p] \in Nat /\ n = m + Bound /\ m \in Nat /\ Bound \in Nat /\ a \in Nat /\ j \in Nat
        BY <1>5, <2>1, <2>2
      <4> HIDE DEF was, n
      <4> QED
        BY ONLY <4>1, <4>2
    <3> QED
      BY <3>1 DEF m
  <2> QED
    BY <1>1, <1>9, <2>3 DEF PendingInv, InRun
<1> QED
  BY <1>1, <1>3, <1>7, <1>8, <1>10, <1>11, GotoIInv DEF Active, InRun

(* The agent's run raises: booked at the bound, with or without its logs. *)
LEMMA AgentRaisesIInv ==
  ASSUME IInv, NEW p \in Invocations, AgentRaises(p)
  PROVE  IInv'
<1>1. /\ spendPc[p] = "agent" /\ (logs' = logs \cup {Cur(p)} \/ logs' = logs)
      /\ Record(p, Cur(p), Bound) /\ End(p)
      /\ UNCHANGED <<resultFile, cap, pending, charge>> /\ ShapeInv /\ HolderInv(p)
  BY DEF AgentRaises, IInv
<1>2. PICK a \in 0..AgentBudget, j \in 0..JevBound : Pay(Cur(p), a, j)
  BY DEF AgentRaises
<1>3. /\ Cur(p) \in StudyRuns /\ lock = p /\ book[p] = ledger.runs /\ book[p][Cur(p)] = Unbooked
  BY <1>1, CurRun DEF InRun
<1>4. /\ paid' \in [StudyRuns -> Nat] /\ execs' \in [StudyRuns -> Nat]
      /\ execs'[Cur(p)] = 1 /\ paid'[Cur(p)] = a + j /\ a + j <= Bound
      /\ \A s \in StudyRuns \ {Cur(p)} : paid'[s] = paid[s] /\ execs'[s] = execs[s]
  BY <1>1, <1>2, FirstPay
<1>5. Bound \in Nat
  BY BoundType
<1>6. /\ ledger' \in [cap : Nat, runs : [StudyRuns -> Costs]] /\ ledger'.cap <= MaxUsd
      /\ ledger'.runs[Cur(p)] = Bound /\ Bound # Unbooked
      /\ \A s \in StudyRuns \ {Cur(p)} : ledger'.runs[s] = ledger.runs[s]
      /\ book' \in [Invocations -> [StudyRuns -> Costs]]
  BY <1>1, <1>3, <1>5, RecordStep
<1>7. ShapeInv'
  BY <1>1, <1>3, <1>4, <1>6 DEF ShapeInv, End
<1>8. ASSUME NEW s \in StudyRuns PROVE RunInv(s)'
  <2>1. RunInv(s)
    BY DEF IInv
  <2>2. CASE s = Cur(p)
    <3>1. Cur(p) \notin logs
      BY <1>1, <1>3 DEF HolderInv
    <3>2. resultFile[Cur(p)].kind = "none"
      BY <2>1, <2>2, <3>1 DEF RunInv
    <3> QED
      BY <1>1, <1>4, <1>6, <2>2, <3>2 DEF RunInv
  <2>3. CASE s # Cur(p)
    BY <1>1, <1>4, <1>6, <2>1, <2>3 DEF RunInv
  <2> QED
    BY <2>2, <2>3
<1> QED
  BY <1>1, <1>3, <1>7, <1>8, EndIInv

(* The run at hand is booked and the study ends. *)
LEMMA RecordAndEnd ==
  ASSUME IInv, NEW p \in Invocations, spendPc[p] \in InRun, NEW cost \in Nat,
         Record(p, Cur(p), cost), paid[Cur(p)] <= cost, End(p),
         UNCHANGED <<logs, resultFile, cap, pending, charge, paid, execs>>
  PROVE  IInv'
<1>1. Cur(p) \in StudyRuns /\ book[p][Cur(p)] = Unbooked /\ lock = p /\ ShapeInv
  BY CurRun DEF IInv
<1>2. \A s \in StudyRuns : RunInv(s)'
  BY <1>1, RecordRuns
<1>3. /\ ledger' \in [cap : Nat, runs : [StudyRuns -> Costs]] /\ ledger'.cap <= MaxUsd
      /\ book' \in [Invocations -> [StudyRuns -> Costs]]
  BY <1>1, RecordStep
<1>4. ShapeInv'
  BY <1>1, <1>3 DEF ShapeInv, End
<1> QED
  BY <1>1, <1>2, <1>4, EndIInv

(* write_record: no record is below what the run cost. *)
LEMMA GradeIInv ==
  ASSUME IInv, NEW p \in Invocations, Grade(p)
  PROVE  IInv'
<1>1. /\ spendPc[p] = "grade" /\ spendPc[p] \in InRun /\ ShapeInv /\ HolderInv(p) /\ PendingInv(p)
      /\ UNCHANGED <<logs, cap, pending, charge, paid, execs>>
  BY DEF Grade, spendHistory, IInv, InRun
<1>2. /\ Cur(p) \in StudyRuns /\ lock = p /\ book[p] = ledger.runs
      /\ Cur(p) \in logs /\ paid[Cur(p)] <= charge[p] /\ charge[p] \in Nat
  BY <1>1, CurRun DEF HolderInv, InRun, ShapeInv
<1>3. CASE IncurredStop(p)
  BY <1>1, <1>2, <1>3, RecordAndEnd DEF IncurredStop
<1>4. ASSUME NEW l \in {"book", "unfinished"}, NEW cost \in Nat, paid[Cur(p)] <= cost,
             NEW void \in BOOLEAN, resultFile' = [resultFile EXCEPT ![Cur(p)] = RunRecord(cost, void)],
             spendPc' = [spendPc EXCEPT ![p] = l], UNCHANGED <<lock, ledger, book>>
      PROVE  IInv'
  <2>1. /\ RunRecord(cost, void) \in [kind : {"none", "torn", "record"}, cost : Nat, escape : BOOLEAN]
        /\ RunRecord(cost, void).cost = cost
    BY DEF RunRecord
  <2>2. /\ resultFile' \in [StudyRuns -> [kind : {"none", "torn", "record"}, cost : Nat, escape : BOOLEAN]]
        /\ resultFile'[Cur(p)].cost = cost
        /\ \A s \in StudyRuns : s # Cur(p) => resultFile'[s] = resultFile[s]
    BY <1>1, <1>2, <1>4, <2>1 DEF ShapeInv
  <2>3. ShapeInv'
    BY <1>1, <1>4, <2>2 DEF ShapeInv, Active, InRun
  <2>4. ASSUME NEW s \in StudyRuns PROVE RunInv(s)'
    <3>1. RunInv(s)
      BY DEF IInv
    <3>2. CASE s = Cur(p)
      BY <1>1, <1>2, <1>4, <2>2, <3>1, <3>2 DEF RunInv
    <3>3. CASE s # Cur(p)
      BY <1>1, <1>4, <2>2, <3>1, <3>3 DEF RunInv
    <3> QED
      BY <3>2, <3>3
  <2>5. spendPc'[p] = l /\ Cur(p)' = Cur(p) /\ Paid' = Paid
    BY <1>1, <1>4 DEF ShapeInv, Cur, Paid
  <2>6. HolderInv(p)'
    BY <1>1, <1>2, <1>4, <2>5 DEF HolderInv, Active, InRun
  <2>7. PendingInv(p)'
    BY <1>1, <1>4, <2>5 DEF PendingInv, InRun
  <2> QED
    BY <1>2, <1>4, <2>3, <2>4, <2>6, <2>7, GotoIInv DEF Active, InRun
<1>5. Bound \in Nat /\ paid[Cur(p)] <= Bound
  BY <1>2, BoundType DEF IInv, RunInv
<1> QED
  BY <1>2, <1>3, <1>4, <1>5 DEF Grade, Advance

(* run_recorded books the record; the runs that are left stay admitted. *)
LEMMA BookIInv ==
  ASSUME IInv, NEW p \in Invocations, Book(p)
  PROVE  IInv'
<1>1. /\ spendPc[p] = "book" /\ spendPc[p] \in InRun /\ ShapeInv /\ HolderInv(p) /\ PendingInv(p)
      /\ Record(p, Cur(p), charge[p]) /\ UNCHANGED <<logs, resultFile, cap, charge, paid, execs>>
  BY DEF Book, spendHistory, IInv, InRun
<1>2. /\ Cur(p) \in StudyRuns /\ lock = p /\ book[p] = ledger.runs /\ book[p][Cur(p)] = Unbooked
      /\ paid[Cur(p)] <= charge[p] /\ charge[p] \in Nat /\ Cur(p) = pending[p][1]
      /\ Len(pending[p]) \in Nat \ {0} /\ pending[p] \in Seq(StudyRuns) /\ pending[p] # <<>>
  BY <1>1, CurRun DEF HolderInv, InRun, ShapeInv, PendingInv
<1>3. CASE End(p) /\ UNCHANGED pending
  BY <1>1, <1>2, <1>3, RecordAndEnd
<1>4. CASE /\ pending' = [pending EXCEPT ![p] = Tail(@)]
           /\ spendPc' = [spendPc EXCEPT ![p] = "start"] /\ UNCHANGED lock
  <2> DEFINE t == Tail(pending[p])
  <2>1. /\ t \in Seq(StudyRuns) /\ Len(t) = Len(pending[p]) - 1
        /\ \A i \in 1..Len(t) : t[i] = pending[p][i + 1]
    BY <1>2, HeadTailProperties
  <2> HIDE DEF t
  <2>2. pending' = [pending EXCEPT ![p] = t] /\ pending'[p] = t
    BY <1>1, <1>4 DEF ShapeInv, t
  <2>3. /\ ledger' \in [cap : Nat, runs : [StudyRuns -> Costs]] /\ ledger'.cap <= MaxUsd
        /\ ledger'.cap = cap[p]
        /\ ledger'.runs[Cur(p)] = charge[p] /\ charge[p] # Unbooked
        /\ \A s \in StudyRuns \ {Cur(p)} : ledger'.runs[s] = ledger.runs[s]
        /\ book' \in [Invocations -> [StudyRuns -> Costs]] /\ book'[p] = ledger'.runs
    BY <1>1, <1>2, RecordStep
  <2>4. \A s \in StudyRuns : RunInv(s)'
    BY <1>1, <1>2, RecordRuns
  <2>5. ShapeInv'
    BY <1>1, <1>4, <2>1, <2>2, <2>3 DEF ShapeInv, Active
  <2>6. spendPc'[p] = "start" /\ Paid' = Paid /\ cap'[p] = cap[p]
    BY <1>1, <1>4 DEF ShapeInv, Paid
  <2>7. \A r \in logs' : book'[p][r] # Unbooked
    <3>1. logs' = logs /\ logs \subseteq StudyRuns /\ \A r \in logs \ {Cur(p)} : book[p][r] # Unbooked
      BY <1>1 DEF HolderInv, InRun, ShapeInv
    <3>2. ASSUME NEW r \in logs PROVE ledger'.runs[r] # Unbooked
      <4>1. CASE r = Cur(p)
        BY <2>3, <4>1
      <4>2. CASE r # Cur(p)
        BY <1>2, <2>3, <3>1, <4>2
      <4> QED
        BY <4>1, <4>2
    <3> QED
      BY <2>3, <3>1, <3>2
  <2>8. HolderInv(p)'
    <3>1. cap'[p] <= ledger'.cap
      BY <1>1, <2>3, <2>6 DEF ShapeInv
    <3> QED
      BY <1>2, <1>4, <2>3, <2>6, <2>7, <3>1 DEF HolderInv, Active, InRun
  <2>9. ASSUME NEW i \in 1..Len(t)
        PROVE  /\ book'[p][t[i]] = Unbooked
               /\ \A j \in 1..Len(t) : t[i] = t[j] => i = j
    <3>1. /\ \A k \in 1..Len(t) : k + 1 \in 1..Len(pending[p]) /\ k + 1 # 1 /\ k \in Nat
          /\ 1 \in 1..Len(pending[p])
      BY <1>2, <2>1
    <3>2. \A k \in 1..Len(pending[p]) :
            /\ book[p][pending[p][k]] = Unbooked
            /\ \A m \in 1..Len(pending[p]) : pending[p][k] = pending[p][m] => k = m
      BY <1>1 DEF PendingInv
    <3>3. t[i] # Cur(p) /\ t[i] \in StudyRuns
      <4>1. t[i] = pending[p][i + 1] /\ i + 1 \in 1..Len(pending[p]) /\ i + 1 # 1
        BY <2>1, <3>1
      <4>2. pending[p][i + 1] # pending[p][1]
        BY <3>1, <3>2, <4>1
      <4>3. t[i] \in StudyRuns
        BY <1>2, <4>1, ElementOfSeq
      <4> QED
        BY <1>2, <4>1, <4>2, <4>3
    <3>4. book'[p][t[i]] = Unbooked
      <4>1. t[i] = pending[p][i + 1] /\ i + 1 \in 1..Len(pending[p])
        BY <2>1, <3>1
      <4>2. book[p][t[i]] = Unbooked
        BY <3>2, <4>1
      <4>3. book'[p] = ledger'.runs /\ ledger'.runs[t[i]] = ledger.runs[t[i]] /\ book[p] = ledger.runs
        BY <1>2, <2>3, <3>3
      <4> QED
        BY ONLY <4>2, <4>3
    <3>5. ASSUME NEW j \in 1..Len(t), t[i] = t[j] PROVE i = j
      BY <2>1, <3>1, <3>2, <3>5
    <3> QED
      BY <3>4, <3>5
  <2>10. Paid + Len(t) * Bound <= cap[p]
    BY <1>1, <2>1 DEF PendingInv
  <2>11. PendingInv(p)'
    BY <2>2, <2>6, <2>9, <2>10 DEF PendingInv, InRun
  <2> QED
    BY <1>2, <1>4, <2>4, <2>5, <2>8, <2>11, GotoIInv DEF Active
<1> QED
  BY <1>3, <1>4 DEF Book, Advance

(* record_unfinished *)
LEMMA BookUnfinishedIInv ==
  ASSUME IInv, NEW p \in Invocations, BookUnfinished(p)
  PROVE  IInv'
<1>1. /\ spendPc[p] \in InRun /\ Record(p, Cur(p), Bound) /\ End(p)
      /\ UNCHANGED <<logs, resultFile, cap, pending, charge, paid, execs>>
  BY DEF BookUnfinished, spendHistory, InRun
<1>2. Bound \in Nat /\ Cur(p) \in StudyRuns /\ paid[Cur(p)] <= Bound
  BY <1>1, CurRun, BoundType DEF IInv, RunInv
<1> QED
  BY <1>1, <1>2, RecordAndEnd

(* book_outcome: the amount of the file, or the bound. *)
LEMMA InterruptIInv ==
  ASSUME IInv, NEW p \in Invocations, Interrupt(p)
  PROVE  IInv'
<1>1. /\ spendPc[p] \in InRun /\ Record(p, Cur(p), FileCost(Cur(p))) /\ End(p)
      /\ UNCHANGED <<logs, resultFile, cap, pending, charge, paid, execs>>
  BY DEF Interrupt, spendHistory, InRun
<1>2. Bound \in Nat /\ Cur(p) \in StudyRuns /\ RunInv(Cur(p)) /\ resultFile[Cur(p)].cost \in Nat
  BY <1>1, CurRun, BoundType DEF IInv, ShapeInv
<1>3. FileCost(Cur(p)) \in Nat /\ paid[Cur(p)] <= FileCost(Cur(p))
  BY <1>2 DEF FileCost, RunInv
<1> QED
  BY <1>1, <1>3, RecordAndEnd

(* Every step keeps the invariant. *)
LEMMA NextIInv == IInv /\ [SpendNext]_spendVars => IInv'
<1> SUFFICES ASSUME IInv, [SpendNext]_spendVars PROVE IInv'
  OBVIOUS
<1>1. CASE UNCHANGED spendVars
  BY <1>1 DEF spendVars, studyFiles, invocation, spendHistory, IInv, ShapeInv, RunInv, HolderInv, PendingInv, Cur, Paid
<1>2. ASSUME NEW p \in Invocations, InvocationStep(p) PROVE IInv'
  BY <1>2, LoadIInv, ResumeIInv, NextPairIInv, BeginIInv, AgentEndsIInv, AgentRaisesIInv,
     GradeIInv, BookIInv, BookUnfinishedIInv, InterruptIInv, KillIInv DEF InvocationStep
<1> QED
  BY <1>1, <1>2 DEF SpendNext

(* The study's money in every reachable state: whatever was paid is booked *)
(* or has logs, and the runs admitted fit the cap beside it.               *)
THEOREM Invariant == SpendSpec => []IInv
BY InitIInv, NextIInv, PTL DEF SpendSpec

--------------------------------------------------------------------------------
(* What the invariant says. *)

(* What the agents cost whose invocation was killed while they worked. *)
CutInv == cut \in Seq(StudyRuns) /\ lost \in Nat /\ lost <= Len(cut) * Bound

(* Only a kill while the agent works adds to it, and at most the bound.    *)
LEMMA CutStep == IInv /\ CutInv /\ [SpendNext]_spendVars => CutInv'
<1> SUFFICES ASSUME IInv, CutInv, [SpendNext]_spendVars PROVE CutInv'
  OBVIOUS
<1>1. CASE UNCHANGED <<cut, lost>>
  BY <1>1 DEF CutInv
<1>2. ASSUME NEW p \in Invocations, spendPc[p] = "agent", cut' = Append(cut, Cur(p)),
             NEW a \in 0..AgentBudget, NEW j \in 0..JevBound, lost' = lost + a + j
      PROVE  CutInv'
  <2>1. Cur(p) \in StudyRuns
    BY <1>2, CurRun DEF InRun
  <2>2. cut' \in Seq(StudyRuns) /\ Len(cut') = Len(cut) + 1 /\ Len(cut) \in Nat
    BY <1>2, <2>1 DEF CutInv
  <2>3. a \in Nat /\ j \in Nat /\ a + j <= Bound /\ Bound \in Nat
    BY BoundType DEF Bound
  <2>4. (Len(cut) + 1) * Bound = Len(cut) * Bound + Bound
    <3>1. ASSUME NEW n \in Nat, NEW x \in Nat PROVE (n + 1) * x = n * x + x
      OBVIOUS
    <3> QED
      BY <2>2, <2>3, <3>1
  <2>5. lost' \in Nat /\ lost' <= Len(cut) * Bound + Bound
    <3> DEFINE m == Len(cut) * Bound
    <3>1. m \in Nat
      <4>1. ASSUME NEW n \in Nat, NEW x \in Nat PROVE n * x \in Nat
        OBVIOUS
      <4> QED
        BY <2>2, <2>3, <4>1
    <3>2. lost \in Nat /\ lost <= m
      BY DEF CutInv
    <3> HIDE DEF m
    <3>3. lost' \in Nat /\ lost' <= m + Bound
      BY <1>2, <2>3, <3>1, <3>2
    <3> QED
      BY <3>3 DEF m
  <2> QED
    BY <2>2, <2>4, <2>5 DEF CutInv
<1>3. ASSUME NEW p \in Invocations, InvocationStep(p) PROVE CutInv'
  <2>1. CASE Kill(p)
    BY <1>1, <1>2, <2>1 DEF Kill
  <2>2. CASE ~Kill(p)
    BY <1>1, <1>3, <2>2 DEF InvocationStep, Load, Resume, NextPair, Begin, AgentEnds, AgentRaises, Grade, Book,
         BookUnfinished, Interrupt, spendHistory
  <2> QED
    BY <2>1, <2>2
<1> QED
  BY <1>1, <1>3 DEF SpendNext, spendVars, spendHistory

(* A run's agent starts only inside the cap and never again once it came   *)
(* to its end, for every plan, every bound and any number of invocations;  *)
(* what agents cost that were cut off with their invocation stays within   *)
(* their own bounds.                                                       *)
THEOREM SpendIsSafe == SpendSpec => []SpendSafe
<1>1. SpendInit => CutInv
  <2>1. 0 * Bound = 0
    BY BoundType
  <2> QED
    BY <2>1 DEF SpendInit, CutInv
<1>2. IInv /\ CutInv => SpendSafe
  <2> SUFFICES ASSUME IInv, CutInv PROVE SpendSafe
    OBVIOUS
  <2>1. ASSUME NEW p \in Invocations, spendPc[p] = "agent"
        PROVE  Paid + lost + Len(pending[p]) * Bound <= cap[p] + Len(cut) * Bound
    <3>1. Paid + Len(pending[p]) * Bound <= cap[p]
      BY <2>1 DEF IInv, PendingInv
    <3>2. /\ Paid \in Nat /\ cap[p] \in Nat /\ lost \in Nat /\ lost <= Len(cut) * Bound
          /\ Len(pending[p]) \in Nat /\ Len(cut) \in Nat /\ Bound \in Nat
      BY PaidType, BoundType DEF IInv, ShapeInv, CutInv
    <3>3. ASSUME NEW n \in Nat, NEW x \in Nat PROVE n * x \in Nat
      OBVIOUS
    <3>4. Len(pending[p]) * Bound \in Nat /\ Len(cut) * Bound \in Nat
      BY <3>2, <3>3
    <3> DEFINE was == Paid
               m == Len(pending[p]) * Bound
               c == Len(cut) * Bound
    <3>5. was + m <= cap[p] /\ lost <= c
      BY <3>1, <3>2
    <3>6. was \in Nat /\ m \in Nat /\ c \in Nat /\ lost \in Nat /\ cap[p] \in Nat
      BY <3>2, <3>4
    <3> HIDE DEF was, m, c
    <3>7. was + lost + m <= cap[p] + c
      BY ONLY <3>5, <3>6
    <3> QED
      BY <3>7 DEF was, m, c
  <2>2. ASSUME NEW p \in Invocations, spendPc[p] = "agent" PROVE execs[Cur(p)] = 0
    <3>1. /\ Cur(p) \in StudyRuns /\ book[p][Cur(p)] = Unbooked /\ book[p] = ledger.runs
          /\ RunInv(Cur(p)) /\ HolderInv(p)
      BY <2>2, CurRun DEF IInv, InRun
    <3> QED
      BY <2>2, <3>1 DEF HolderInv, RunInv
  <2>3. \A r \in StudyRuns : execs[r] <= 1
    BY DEF IInv, RunInv
  <2> QED
    BY <2>1, <2>2, <2>3 DEF SpendSafe, RunFitsCap, PaidOnce
<1> QED
  BY <1>1, <1>2, CutStep, Invariant, PTL DEF SpendSpec

(* A step leaves ledger.json alone or adds the one run at hand to it. *)
LEMMA LedgerStep ==
  ASSUME IInv, NEW p \in Invocations, InvocationStep(p)
  PROVE  \/ UNCHANGED ledger
         \/ \E r \in StudyRuns, cost \in Nat : book[p][r] = Unbooked /\ lock = p /\ Record(p, r, cost)
<1>1. ShapeInv /\ Bound \in Nat
  BY BoundType DEF IInv
<1>2. CASE Load(p) \/ NextPair(p) \/ Begin(p) \/ AgentEnds(p) \/ Kill(p)
  BY <1>2 DEF Load, NextPair, Begin, AgentEnds, Kill, studyFiles
<1>3. ASSUME NEW r \in StudyRuns PROVE FileCost(r) \in Nat
  BY <1>1 DEF FileCost, ShapeInv
<1>4. CASE Resume(p)
  <2>1. spendPc[p] \in Active /\ lock = p
    BY <1>4, Holds DEF Resume, Active
  <2> QED
    BY <1>1, <1>3, <1>4, <2>1 DEF Resume, ShapeInv
<1>5. ASSUME spendPc[p] \in InRun, NEW cost \in Nat, Record(p, Cur(p), cost)
      PROVE  \E r \in StudyRuns, c \in Nat : book[p][r] = Unbooked /\ lock = p /\ Record(p, r, c)
  BY <1>5, CurRun
<1>6. ASSUME spendPc[p] \in InRun PROVE charge[p] \in Nat /\ FileCost(Cur(p)) \in Nat
  BY <1>1, <1>3, <1>6, CurRun DEF ShapeInv
<1>7. CASE AgentRaises(p) \/ BookUnfinished(p)
  BY <1>1, <1>5, <1>7 DEF AgentRaises, BookUnfinished, InRun
<1>8. CASE Grade(p)
  BY <1>5, <1>6, <1>8 DEF Grade, IncurredStop, InRun
<1>9. CASE Book(p)
  BY <1>5, <1>6, <1>9 DEF Book, InRun
<1>10. CASE Interrupt(p)
  BY <1>5, <1>6, <1>10 DEF Interrupt, InRun
<1> QED
  BY <1>2, <1>4, <1>7, <1>8, <1>9, <1>10 DEF InvocationStep

(* What is booked stays booked at its amount and the recorded cap is never *)
(* raised: only the holder of the lock writes, and what it writes is what  *)
(* the file held with one unbooked run added.                              *)
THEOREM LedgerIsKept == SpendSpec => LedgerKept
<1> DEFINE Kept == /\ \A r \in Booked(ledger.runs) : ledger'.runs[r] = ledger.runs[r]
                   /\ ledger'.cap <= ledger.cap
<1>1. IInv /\ [SpendNext]_spendVars => [Kept]_spendVars
  <2> SUFFICES ASSUME IInv, NEW p \in Invocations, InvocationStep(p) PROVE Kept
    BY DEF SpendNext
  <2>1. ledger.cap \in Nat
    BY DEF IInv, ShapeInv
  <2>2. CASE UNCHANGED ledger
    BY <2>1, <2>2
  <2>3. ASSUME NEW r \in StudyRuns, NEW cost \in Nat, book[p][r] = Unbooked, lock = p, Record(p, r, cost)
        PROVE  Kept
    BY <2>3, RecordStep DEF Booked
  <2> QED
    BY <2>2, <2>3, LedgerStep
<1> QED
  BY <1>1, Invariant, PTL DEF SpendSpec, LedgerKept

(* Types; and only the holder of the lock is inside the study, with a run  *)
(* at hand that is not booked yet.                                         *)
THEOREM TypesHold == SpendSpec => []SpendTypeOK
<1>1. IInv => SpendTypeOK
  <2> SUFFICES ASSUME IInv PROVE SpendTypeOK
    OBVIOUS
  <2>1. ShapeInv /\ MaxUsd \in Nat
    BY SpendAssumption DEF IInv
  <2>2. ledger.cap \in 0..MaxUsd /\ ledger.runs \in [StudyRuns -> Costs]
    BY <2>1 DEF ShapeInv
  <2>3. \A r \in StudyRuns : resultFile[r].kind # "none" => r \in logs
    BY DEF IInv, RunInv
  <2>4. spendPc \in [Invocations -> {"idle", "resume", "pair", "start", "agent", "grade", "book",
                                "unfinished", "ended"}]
    <3>1. Active \cup {"idle", "ended"} =
            {"idle", "resume", "pair", "start", "agent", "grade", "book", "unfinished", "ended"}
      BY DEF Active, InRun
    <3> QED
      BY <2>1, <3>1 DEF ShapeInv
  <2>5. ASSUME NEW p \in Invocations PROVE spendPc[p] \notin {"idle", "ended"} <=> lock = p
    <3>1. spendPc[p] \in Active \cup {"idle", "ended"} /\ (spendPc[p] \in Active <=> lock = p)
      BY <2>1 DEF ShapeInv, IInv, HolderInv
    <3> QED
      BY <3>1 DEF Active, InRun
  <2>6. ASSUME NEW p \in Invocations, spendPc[p] \in {"agent", "grade", "book", "unfinished"}
        PROVE  pending[p] # <<>> /\ book[p][Cur(p)] = Unbooked
    <3>1. spendPc[p] \in InRun
      BY <2>6 DEF InRun
    <3> QED
      BY <3>1, CurRun DEF IInv, PendingInv
  <2> QED
    BY <2>1, <2>2, <2>3, <2>4, <2>5, <2>6 DEF SpendTypeOK, ShapeInv
<1> QED
  BY <1>1, Invariant, PTL

--------------------------------------------------------------------------------
(* One agent run. *)

(* The stages before the agent is started, and those of its capture. *)
Before == {"study", "start", "entered", "prepare", "volume", "broker", "wait", "spawn", "probe", "probing"}
Capturing == {"spawned", "loop", "join", "reap", "collect"}
Over == {"cleanup", "ended", "killed"}

(* What a run of each form may build. *)
Items ==
  CASE mode = "plain"     -> {"root", "workdir"}
    [] mode = "preflight" -> {"root", "workdir", "records"}
    [] mode = "probe"     -> {"agent", "broker", "volume", "root", "scoped"}
    [] mode = "confined"  -> {"agent", "broker", "volume", "root", "workdir", "scoped", "grade"}

(* The cleanup steps that are left. *)
Remaining == {Cleanup[i] : i \in step..Len(Cleanup)}

AgentShape ==
  /\ mode \in Modes
  /\ stage \in Before \cup Capturing \cup {"yielded"} \cup Over
  /\ leader \in {"none", "running", "exited", "killed"}
  /\ leader = "killed" => kid # "group"
  /\ stuck \subseteq have
  /\ outReader \in {"off", "reading", "done"}
  /\ written \in Seq(Transcript) /\ got \in 0..Len(written)
  /\ torn \in {"no", "capture", "cleanup"}

(* How far a run of which form can be, and its leader with it. *)
StageInv ==
  /\ stage \in Before => leader = "none" /\ outReader = "off" /\ got = 0 /\ records = {}
  /\ stage \in {"study", "start", "entered", "prepare", "volume", "broker"} => ~brokerUp
  /\ stage \in {"study", "volume", "broker", "wait", "probe", "probing"} => ~Host
  /\ mode = "probe" => stage \in (Before \ {"spawn"}) \cup Over /\ records = {}
  /\ stage = "spawned" => outReader = "off"
  /\ stage \in {"loop", "join"} => outReader # "off"
  /\ stage \in {"reap", "collect", "yielded"} => outReader = "done"
  /\ stage \in {"collect", "yielded"} => leader # "running"
  /\ stage \in {"cleanup", "ended"} /\ torn = "no" => leader # "running"
  /\ stage \notin Over => step = 1 /\ torn = "no" /\ booked = "none" /\ ~reaped /\ stuck = {}
  /\ reaped => stage \in {"ended", "killed"}

(* What the verdict rests on. *)
TranscriptInv ==
  /\ stage \in Capturing /\ outReader = "done" /\ ~exceeded /\ ~incomplete => got = Len(written)
  /\ stage = "collect" /\ exc = "none" => ~exceeded /\ ~incomplete
  /\ stage = "yielded" \/ booked # "none" =>
       /\ outReader # "reading"
       /\ escape \/ (~escape_scan(written, box) /\ "key" \notin Leaks(written))
  /\ booked \in {"success", "failure"} => ~escape

(* What the cleanup has still to remove. *)
HaveInv ==
  /\ have \subseteq Items
  /\ stage = "study" => have = {}
  /\ Host => ~brokerUp
  /\ stage = "cleanup" => /\ step \in 1..Len(Cleanup)
                          /\ have \subseteq {"grade"} \cup stuck \cup Remaining
                          /\ brokerUp => "broker" \in stuck \cup Remaining
                          /\ records \subseteq {"login"} \/ "scrub" \in Remaining
  /\ RecordsClean
  /\ NothingLeft

SecretInv ==
  /\ knows = {} /\ records \subseteq {"key", "token", "login"}
  /\ ~Host => "login" \notin records /\ Leaks(written) \subseteq {"token"}

AgentInv == AgentShape /\ StageInv /\ TranscriptInv /\ HaveInv /\ SecretInv

(* A run's cleanup removes all that its form may build. *)
LEMMA CleanupCovers ==
  ASSUME mode \in Modes
  PROVE  /\ Len(Cleanup) \in Nat \ {0} /\ DOMAIN Cleanup = 1..Len(Cleanup)
         /\ Items \subseteq {"grade"} \cup {Cleanup[i] : i \in 1..Len(Cleanup)}
         /\ ~Host => \E i \in 1..Len(Cleanup) : Cleanup[i] = "broker"
         /\ mode # "probe" => \E i \in 1..Len(Cleanup) : Cleanup[i] = "scrub"
<1>1. CASE mode = "plain"
  <2>1. Cleanup = <<"root", "workdir", "scrub">> /\ Items = {"root", "workdir"} /\ Host
    BY <1>1 DEF Cleanup, Items, Host
  <2>2. Len(Cleanup) = 3 /\ Cleanup[1] = "root" /\ Cleanup[2] = "workdir" /\ Cleanup[3] = "scrub"
    BY <2>1
  <2>3. DOMAIN Cleanup = 1..3
    BY <2>1
  <2> QED
    BY <2>1, <2>2, <2>3
<1>2. CASE mode = "preflight"
  <2>1. /\ Cleanup = <<"root", "workdir", "scrub", "records">>
        /\ Items = {"root", "workdir", "records"} /\ Host
    BY <1>2 DEF Cleanup, Items, Host
  <2>2. /\ Len(Cleanup) = 4 /\ Cleanup[1] = "root" /\ Cleanup[2] = "workdir" /\ Cleanup[3] = "scrub"
        /\ Cleanup[4] = "records"
    BY <2>1
  <2>3. DOMAIN Cleanup = 1..4
    BY <2>1
  <2> QED
    BY <2>1, <2>2, <2>3
<1>3. CASE mode = "probe"
  <2>1. /\ Cleanup = <<"agent", "broker", "volume", "root", "scoped">>
        /\ Items = {"agent", "broker", "volume", "root", "scoped"}
    BY <1>3 DEF Cleanup, Items
  <2>2. /\ Len(Cleanup) = 5 /\ Cleanup[1] = "agent" /\ Cleanup[2] = "broker" /\ Cleanup[3] = "volume"
        /\ Cleanup[4] = "root" /\ Cleanup[5] = "scoped"
    BY <2>1
  <2>3. DOMAIN Cleanup = 1..5
    BY <2>1
  <2> QED
    BY <1>3, <2>1, <2>2, <2>3
<1>4. CASE mode = "confined"
  <2>1. /\ Cleanup = <<"agent", "broker", "volume", "root", "workdir", "scrub", "scoped">>
        /\ Items = {"agent", "broker", "volume", "root", "workdir", "scoped", "grade"}
    BY <1>4 DEF Cleanup, Items
  <2>2. /\ Len(Cleanup) = 7 /\ Cleanup[1] = "agent" /\ Cleanup[2] = "broker" /\ Cleanup[3] = "volume"
        /\ Cleanup[4] = "root" /\ Cleanup[5] = "workdir" /\ Cleanup[6] = "scrub" /\ Cleanup[7] = "scoped"
    BY <2>1
  <2>3. DOMAIN Cleanup = 1..7
    BY <2>1
  <2> QED
    BY <2>1, <2>2, <2>3
<1> QED
  BY <1>1, <1>2, <1>3, <1>4, AgentAssumption

(* The form of a run never changes. *)
LEMMA ModeStays ==
  ASSUME mode' = mode
  PROVE  /\ Host' = Host /\ box' = box /\ Cleanup' = Cleanup /\ Items' = Items
         /\ step' = step => Remaining' = Remaining
BY DEF Host, box, Cleanup, Items, Remaining

(* What is read of a transcript leaks no more than all of it. *)
LEMMA KeptLeaks ==
  ASSUME AgentShape
  PROVE  Leaks(kept) \subseteq Leaks(written)
<1>1. got \in Nat /\ Len(written) \in Nat /\ got <= Len(written)
  BY LenProperties DEF AgentShape
<1>2. written \in Seq(Transcript)
  BY DEF AgentShape
<1>3. Len(kept) = got /\ \A i \in 1..got : kept[i] = written[i]
  BY <1>1, <1>2, SubSeqProperties DEF kept
<1>4. kept \in Seq(Transcript)
  BY <1>1, <1>2, SubSeqProperties DEF kept
<1>5. DOMAIN kept = 1..got /\ DOMAIN written = 1..Len(written)
  BY <1>2, <1>3, <1>4, LenProperties
<1>6. Range(kept) \subseteq Range(written)
  BY <1>1, <1>3, <1>5 DEF Range
<1> QED
  BY <1>6 DEF Leaks

(* All of it, once it is whole. *)
LEMMA KeptIsAll ==
  ASSUME AgentShape, got = Len(written)
  PROVE  kept = written
<1>1. got \in Nat /\ written \in Seq(Transcript)
  BY LenProperties DEF AgentShape
<1>2. Len(kept) = got /\ kept \in Seq(Transcript) /\ \A i \in 1..got : kept[i] = written[i]
  BY <1>1, SubSeqProperties DEF kept
<1> QED
  BY <1>1, <1>2, SeqEqual

(* One more event. *)
LEMMA AppendLeaks ==
  ASSUME NEW w \in Seq(Transcript), NEW e \in Transcript
  PROVE  /\ Append(w, e) \in Seq(Transcript)
         /\ Len(Append(w, e)) = Len(w) + 1
         /\ Leaks(Append(w, e)) \subseteq Leaks(w) \cup ({e.leak} \ {"none"})
<1>1. /\ Append(w, e) \in Seq(Transcript) /\ Len(Append(w, e)) = Len(w) + 1
      /\ \A i \in 1..Len(w) : Append(w, e)[i] = w[i]
      /\ Append(w, e)[Len(w) + 1] = e
  BY AppendProperties
<1>2. Len(w) \in Nat /\ DOMAIN w = 1..Len(w) /\ DOMAIN Append(w, e) = 1..(Len(w) + 1)
  BY <1>1, LenProperties
<1>3. Range(Append(w, e)) \subseteq Range(w) \cup {e}
  <2>1. \A i \in 1..(Len(w) + 1) : i \in 1..Len(w) \/ i = Len(w) + 1
    BY <1>2
  <2> QED
    BY <1>1, <1>2, <2>1 DEF Range
<1> QED
  BY <1>1, <1>3 DEF Leaks

LEMMA InitAgentInv == AgentInit => AgentInv
<1> SUFFICES ASSUME AgentInit PROVE AgentInv
  OBVIOUS
<1>1. written = <<>> /\ written \in Seq(Transcript) /\ Len(written) = 0 /\ Leaks(written) = {}
  BY DEF AgentInit, CaptureInit, Leaks, Range
<1>2. AgentShape /\ StageInv
  BY <1>1, AgentAssumption DEF AgentInit, CaptureInit, BrokerInit, AgentShape, StageInv, Before, Over, Host
<1>3. TranscriptInv
  BY DEF AgentInit, TranscriptInv, Capturing, Host
<1>4. HaveInv /\ SecretInv
  BY <1>1, AgentAssumption DEF AgentInit, CaptureInit, BrokerInit, HaveInv, SecretInv, RecordsClean, NothingLeft, Items, Host
<1> QED
  BY <1>2, <1>3, <1>4 DEF AgentInv

--------------------------------------------------------------------------------
(* The steps. *)

(* When the cleanup begins, all that the run may have built lies ahead. *)
LEMMA CleanupBegins ==
  ASSUME AgentInv, mode' = mode, stage' = "cleanup", step' = 1, ~reaped',
         have' \subseteq Items, Host => ~brokerUp', mode = "probe" => records' = {}
  PROVE  HaveInv'
<1>1. mode \in Modes
  BY DEF AgentInv, AgentShape
<1>2. Host' = Host /\ Cleanup' = Cleanup /\ Items' = Items
  BY ModeStays
<1>3. Remaining' = {Cleanup[i] : i \in 1..Len(Cleanup)}
  BY <1>2 DEF Remaining
<1>4. /\ step' \in 1..Len(Cleanup') /\ have' \subseteq {"grade"} \cup stuck' \cup Remaining'
      /\ brokerUp' => "broker" \in stuck' \cup Remaining'
      /\ records' \subseteq {"login"} \/ "scrub" \in Remaining'
  <2>1. 1 \in 1..Len(Cleanup)
    BY <1>1, CleanupCovers
  <2>2. have' \subseteq {"grade"} \cup Remaining'
    BY <1>1, <1>3, CleanupCovers
  <2>3. brokerUp' => "broker" \in Remaining'
    BY <1>1, <1>3, CleanupCovers
  <2>4. records' # {} => "scrub" \in Remaining'
    BY <1>1, <1>3, CleanupCovers
  <2> QED
    BY <1>2, <2>1, <2>2, <2>3, <2>4
<1> QED
  BY <1>2, <1>4 DEF HaveInv, RecordsClean, NothingLeft

(* A run that is not over has nothing to show for RecordsClean and         *)
(* NothingLeft yet.                                                        *)
LEMMA StillRunning ==
  ASSUME stage' \notin Over, ~reaped'
  PROVE  RecordsClean' /\ NothingLeft'
BY DEF Over, RecordsClean, NothingLeft

(* Building the run, up to the agent's start. *)
LEMMA BuildKeeps ==
  ASSUME AgentInv,
         \/ _confinement \/ Enter \/ EnterTry \/ Prepare \/ CreateVolume \/ StartBroker \/ wait_for_broker
         \/ Probe \/ Probed
  PROVE  AgentInv'
<1>1. /\ stage \in Before \ {"spawn"} /\ stage' \in Before \cup {"cleanup", "ended"}
      /\ UNCHANGED <<age, capture, mode, stuck, records, escape, booked, step, reaped, knows>>
      /\ torn' = torn \/ (stage' = "ended" /\ torn' = "cleanup")
  <2>1. CASE _confinement \/ Enter \/ EnterTry
    BY <2>1 DEF _confinement, Enter, EnterTry, Before, egress, run
  <2>2. CASE Prepare \/ CreateVolume \/ StartBroker \/ wait_for_broker
    BY <2>2 DEF Prepare, CreateVolume, StartBroker, wait_for_broker, Raise, Before, egress, run
  <2>3. CASE Probe \/ Probed
    BY <2>3 DEF Probe, Probed, _forward, Raise, Before, egress
  <2> QED
    BY <2>1, <2>2, <2>3
<1>2. /\ UNCHANGED <<leader, kid, written, got, outReader, exceeded, incomplete>>
      /\ Host' = Host /\ box' = box /\ Cleanup' = Cleanup /\ Items' = Items
  BY <1>1, ModeStays DEF capture
<1>3. /\ leader = "none" /\ outReader = "off" /\ records = {} /\ step = 1 /\ torn = "no" /\ booked = "none" /\ ~reaped
      /\ stage \notin {"cleanup", "ended"} /\ stuck = {}
  BY <1>1 DEF AgentInv, StageInv, Before, Over
<1>4. AgentShape'
  <2>1. stuck' \subseteq have'
    BY <1>1, <1>3
  <2> QED
    BY <1>1, <1>2, <2>1 DEF AgentInv, AgentShape, Over
<1>5. /\ stage' = "ended" => stage = "study" /\ (have' = have \/ torn' = "cleanup")
      /\ have' \subseteq Items
      /\ Host => ~brokerUp'
      /\ stage' \in {"study", "start", "entered", "prepare", "volume", "broker"} => ~brokerUp'
      /\ stage' \in {"study", "volume", "broker", "wait", "probe", "probing"} => ~Host
      /\ mode = "probe" => stage' # "spawn"
      /\ stage' # "study"
  <2>1. /\ have \subseteq Items /\ (Host => ~brokerUp) /\ mode \in {"plain", "preflight", "confined", "probe"}
        /\ stage \in {"study", "start", "entered", "prepare", "volume", "broker"} => ~brokerUp
        /\ stage \in {"study", "volume", "broker", "wait", "probe", "probing"} => ~Host
    BY AgentAssumption DEF AgentInv, AgentShape, HaveInv, StageInv
  <2>2. CASE _confinement
    BY <2>1, <2>2 DEF _confinement, egress, Items, Host
  <2>3. CASE Enter
    BY <2>1, <2>3 DEF Enter, egress, Items
  <2>4. CASE EnterTry
    BY <2>1, <2>4 DEF EnterTry, egress, run
  <2>5. CASE Prepare
    BY <2>1, <2>5 DEF Prepare, Raise, run, Host
  <2>6. CASE CreateVolume
    BY <2>1, <2>6 DEF CreateVolume, Raise, egress, Items, Host
  <2>7. CASE StartBroker
    BY <2>1, <2>7 DEF StartBroker, Raise, Items, Host
  <2>8. CASE wait_for_broker
    BY <2>1, <2>8 DEF wait_for_broker, Raise, egress, run
  <2>9. CASE Probe
    BY <2>1, <2>9 DEF Probe, _forward, Items, Host
  <2>10. CASE Probed
    BY <2>1, <2>10 DEF Probed, Raise, egress
  <2> QED
    BY <2>2, <2>3, <2>4, <2>5, <2>6, <2>7, <2>8, <2>9, <2>10
<1>6. StageInv'
  BY <1>1, <1>2, <1>3, <1>5 DEF AgentInv, StageInv, Before, Over
<1>7. TranscriptInv'
  BY <1>1, <1>2, <1>3 DEF TranscriptInv, Capturing, Before
<1>8. HaveInv'
  <2>1. CASE stage' = "cleanup"
    BY <1>1, <1>3, <1>5, <2>1, CleanupBegins
  <2>2. CASE stage' = "ended"
    <3>1. (torn' = "no" => have' = {}) /\ ~brokerUp'
      BY <1>3, <1>5, <2>2 DEF AgentInv, HaveInv, StageInv, _confinement, egress, Enter, EnterTry, Prepare, CreateVolume,
         StartBroker, wait_for_broker, Probe, Probed, Raise
    <3> QED
      BY <1>1, <1>2, <1>3, <1>5, <2>2, <3>1 DEF HaveInv, RecordsClean, NothingLeft
  <2>3. CASE stage' \in Before
    <3>1. RecordsClean' /\ NothingLeft'
      BY <1>1, <1>3, <2>3, StillRunning DEF Before, Over
    <3> QED
      BY <1>2, <1>5, <2>3, <3>1 DEF HaveInv, Before
  <2> QED
    BY <1>1, <2>1, <2>2, <2>3
<1>9. SecretInv'
  BY <1>1, <1>2 DEF AgentInv, SecretInv
<1> QED
  BY <1>4, <1>6, <1>7, <1>8, <1>9 DEF AgentInv

(* capture_output: the start of the agent. *)
LEMMA SpawnKeeps ==
  ASSUME AgentInv, Spawn
  PROVE  AgentInv'
<1>1. /\ stage = "spawn" /\ stage' \in {"spawned", "cleanup"}
      /\ UNCHANGED <<mode, stuck, records, escape, booked, step, torn, reaped, knows, brokerUp>>
      /\ UNCHANGED <<written, got>>
  BY DEF Spawn, Raise, Popen, egress, capture
<1>2. /\ outReader' = outReader
      /\ stage' = "cleanup" => have' = have /\ leader' = leader
      /\ stage' = "spawned" => leader' = "running"
      /\ have' \in {have, have \cup {"agent"}} /\ (Host => have' = have)
  BY DEF Spawn, Raise, Popen, capture
<1>3. Host' = Host /\ box' = box /\ Cleanup' = Cleanup /\ Items' = Items
  BY <1>1, ModeStays
<1>4. /\ leader = "none" /\ outReader = "off" /\ records = {} /\ step = 1 /\ torn = "no" /\ booked = "none" /\ ~reaped
      /\ mode # "probe" /\ mode \in {"plain", "preflight", "confined"} /\ stuck = {}
  <2>1. /\ leader = "none" /\ outReader = "off" /\ records = {} /\ step = 1 /\ torn = "no" /\ booked = "none" /\ ~reaped
        /\ stuck = {}
    BY <1>1 DEF AgentInv, StageInv, Before, Over
  <2>2. mode \in Modes /\ mode # "probe"
    <3>1. mode \in Modes /\ have \subseteq Items
      BY DEF AgentInv, AgentShape, HaveInv
    <3>2. mode # "probe"
      BY <1>1 DEF AgentInv, StageInv, Before, Over
    <3> QED
      BY <3>1, <3>2
  <2> QED
    BY <2>1, <2>2, AgentAssumption
<1>5. AgentShape'
  BY <1>1, <1>2, <1>4 DEF AgentInv, AgentShape, Before, Capturing, Over
<1>6. StageInv'
  BY <1>1, <1>2, <1>3, <1>4 DEF AgentInv, StageInv, Before, Capturing, Over
<1>7. TranscriptInv'
  BY <1>1, <1>2, <1>4 DEF TranscriptInv, Capturing
<1>8. have' \subseteq Items /\ (Host => ~brokerUp')
  BY <1>1, <1>2, <1>4 DEF AgentInv, HaveInv, Items, Host
<1>9. HaveInv'
  <2>1. CASE stage' = "cleanup"
    BY <1>1, <1>4, <1>8, <2>1, CleanupBegins
  <2>2. CASE stage' = "spawned"
    <3>1. RecordsClean' /\ NothingLeft'
      BY <1>1, <1>4, <2>2, StillRunning DEF Over
    <3> QED
      BY <1>3, <1>8, <2>2, <3>1 DEF HaveInv
  <2> QED
    BY <1>1, <2>1, <2>2
<1>10. SecretInv'
  BY <1>1, <1>3, <1>4 DEF AgentInv, SecretInv
<1> QED
  BY <1>5, <1>6, <1>7, <1>9, <1>10 DEF AgentInv

(* The readers, the wait, the joins and the reaped child. *)
LEMMA CaptureKeeps ==
  ASSUME AgentInv, StartReaders \/ Watch(age >= 1) \/ Join \/ Finish, UNCHANGED <<age, egress, run>>
  PROVE  AgentInv'
<1>1. UNCHANGED <<mode, have, stuck, records, escape, booked, step, torn, reaped, knows, brokerUp, written, got, exceeded>>
  BY DEF StartReaders, Watch, Join, Finish, egress, run
<1>2. Host' = Host /\ box' = box /\ Cleanup' = Cleanup /\ Items' = Items
  BY <1>1, ModeStays
<1>3. /\ stage \in {"spawned", "loop", "join", "reap"} /\ stage' \in {"loop", "join", "reap", "collect"}
      /\ stage = "spawned" => stage' = "loop" /\ outReader' = "reading" /\ incomplete' = incomplete
      /\ stage = "loop" => stage' = "join" /\ outReader' = outReader /\ incomplete' = incomplete
      /\ stage = "join" => /\ stage' = "reap" /\ outReader' # "reading" /\ leader' = leader
                           /\ \/ incomplete' /\ outReader' = "done"
                              \/ incomplete' = incomplete /\ outReader' = outReader
      /\ stage = "reap" => /\ stage' = "collect" /\ outReader' = outReader /\ incomplete' = incomplete
                           /\ leader' # "running"
                           /\ exc' = "none" => ~incomplete /\ ~exceeded
  <2>0. CASE StartReaders
    BY <2>0 DEF StartReaders
  <2>1. CASE Watch(age >= 1)
    BY <2>1 DEF Watch
  <2>2. CASE Join
    BY <2>2 DEF Join, Reading
  <2>3. CASE Finish
    BY <2>3 DEF Finish, _kill_group
  <2> QED
    BY <2>0, <2>1, <2>2, <2>3
<1>4. leader' \in {"none", "running", "exited", "killed"} /\ (leader' = "killed" => kid' # "group")
  <2>1. leader \in {"none", "running", "exited", "killed"} /\ (leader = "killed" => kid # "group")
    BY DEF AgentInv, AgentShape
  <2> QED
    BY <2>1 DEF StartReaders, Watch, Join, Finish, _kill_group
<1>5. AgentShape'
  BY <1>1, <1>3, <1>4 DEF AgentInv, AgentShape, Capturing
<1>6. StageInv'
  BY <1>1, <1>2, <1>3 DEF AgentInv, AgentShape, StageInv, Before, Over, Capturing
<1>7. TranscriptInv'
  BY <1>1, <1>2, <1>3 DEF AgentInv, AgentShape, StageInv, TranscriptInv, Capturing, Over
<1>8. HaveInv'
  <2>1. RecordsClean' /\ NothingLeft'
    BY <1>1, <1>3, StillRunning DEF AgentInv, StageInv, Over
  <2> QED
    BY <1>1, <1>2, <1>3, <2>1 DEF AgentInv, HaveInv
<1>9. SecretInv'
  BY <1>1, <1>2 DEF AgentInv, SecretInv
<1> QED
  BY <1>5, <1>6, <1>7, <1>8, <1>9 DEF AgentInv

(* The logs, the scan of the whole transcript, and the result. *)
LEMMA CollectKeeps ==
  ASSUME AgentInv, Collect
  PROVE  AgentInv'
<1>1. /\ stage = "collect" /\ stage' \in {"cleanup", "yielded"} /\ got' = 0
      /\ UNCHANGED <<mode, leader, kid, written, outReader, stuck, booked, step, torn, reaped, knows, brokerUp>>
      /\ have' \subseteq have
  BY DEF Collect, RemovesRoot, egress
<1>2. Host' = Host /\ box' = box /\ Cleanup' = Cleanup /\ Items' = Items
  BY <1>1, ModeStays
<1>3. /\ leader # "running" /\ outReader = "done" /\ step = 1 /\ torn = "no" /\ booked = "none" /\ ~reaped
      /\ mode # "probe" /\ stuck = {}
  BY <1>1 DEF AgentInv, StageInv, Before, Over
<1>4. AgentShape'
  <2>1. Len(written) \in Nat
    BY LenProperties DEF AgentInv, AgentShape
  <2> QED
    BY <1>1, <1>3, <2>1 DEF AgentInv, AgentShape, Over
<1>5. StageInv'
  BY <1>1, <1>2, <1>3 DEF AgentInv, StageInv, Before, Over, Capturing
<1>6. TranscriptInv'
  <2>1. CASE stage' = "cleanup"
    BY <1>1, <1>3, <2>1 DEF TranscriptInv, Capturing
  <2>2. CASE stage' = "yielded"
    <3>1. /\ exc = "none" /\ Leaks(kept) \subseteq records'
          /\ escape' = (escape_scan(kept, box) \/ secret_scan(records', Secrets))
      BY <2>2 DEF Collect, WriteLogs
    <3>2. got = Len(written)
      BY <1>1, <1>3, <3>1 DEF AgentInv, TranscriptInv, Capturing
    <3>3. kept = written
      BY <3>2, KeptIsAll DEF AgentInv
    <3>4. escape' \/ (~escape_scan(written, box) /\ "key" \notin Leaks(written))
      BY <3>1, <3>3 DEF secret_scan, Secrets
    <3> QED
      BY <1>1, <1>2, <1>3, <2>2, <3>4 DEF TranscriptInv, Capturing
  <2> QED
    BY <1>1, <2>1, <2>2
<1>7. records' \subseteq {"key", "token", "login"} /\ (~Host => "login" \notin records')
  <2>1. Leaks(kept) \subseteq Leaks(written)
    BY KeptLeaks DEF AgentInv
  <2>2. Leaks(written) \subseteq {"key", "token", "login"}
    <3>1. \A i \in DOMAIN written : written[i] \in Transcript
      BY ElementOfSeq, LenProperties DEF AgentInv, AgentShape
    <3> QED
      BY <3>1, CaptureAssumption DEF Leaks, Range, IsEvent
  <2>3. /\ records \subseteq {"key", "token", "login"} /\ Readable \subseteq {"key", "token", "login"}
        /\ ~Host => /\ "login" \notin records /\ "login" \notin Leaks(written)
                    /\ "login" \notin Readable
    BY DEF AgentInv, SecretInv, Readable
  <2>4. \E more \in SUBSET Readable : records' \in {records, records \cup Leaks(kept), records \cup Leaks(kept) \cup more}
    BY DEF Collect, WriteLogs
  <2> QED
    BY <2>1, <2>2, <2>3, <2>4
<1>8. have' \subseteq Items /\ (Host => ~brokerUp')
  BY <1>1 DEF AgentInv, HaveInv
<1>9. HaveInv'
  <2>1. CASE stage' = "cleanup"
    BY <1>1, <1>3, <1>8, <2>1, CleanupBegins
  <2>2. CASE stage' = "yielded"
    <3>1. RecordsClean' /\ NothingLeft'
      BY <1>1, <1>3, <2>2, StillRunning DEF Over
    <3> QED
      BY <1>2, <1>8, <2>2, <3>1 DEF HaveInv
  <2> QED
    BY <1>1, <2>1, <2>2
<1>10. SecretInv'
  BY <1>1, <1>2, <1>7 DEF AgentInv, SecretInv
<1> QED
  BY <1>4, <1>5, <1>6, <1>9, <1>10 DEF AgentInv

(* The grading books a success or a failure only of a run without escape. *)
LEMMA GradeKeeps ==
  ASSUME AgentInv, GradeRun \/ run_preflight
  PROVE  AgentInv'
<1>1. /\ stage = "yielded" /\ stage' = "cleanup"
      /\ UNCHANGED <<mode, stuck, escape, step, torn, reaped, knows, brokerUp>>
      /\ UNCHANGED <<leader, kid, written, got, outReader, exceeded, incomplete>>
  BY DEF GradeRun, run_preflight, egress, run, capture
<1>2. /\ leader # "running" /\ outReader = "done" /\ step = 1 /\ torn = "no" /\ booked = "none" /\ ~reaped
      /\ mode # "probe" /\ stuck = {}
  BY <1>1 DEF AgentInv, StageInv, Before, Over
<1>3. Host' = Host /\ box' = box /\ Cleanup' = Cleanup /\ Items' = Items
  BY <1>1, ModeStays
<1>4. /\ booked' \in {"success", "failure"} => ~escape
      /\ records' \subseteq {"key", "token", "login"} /\ (~Host => "login" \notin records')
      /\ have' \subseteq have \cup (IF Host THEN {} ELSE {"grade"})
  <2>1. /\ records \subseteq {"key", "token", "login"} /\ Readable \subseteq {"key", "token", "login"}
        /\ ~Host => "login" \notin records /\ "login" \notin Readable
    BY DEF AgentInv, SecretInv, Readable
  <2>2. CASE run_preflight
    BY <1>2, <2>1, <2>2 DEF run_preflight, run
  <2>3. CASE GradeRun
    <3>1. PICK d \in Drivers, correct \in BOOLEAN :
            LET verdict == IF ~Host THEN confined_postprocess(d)
                           ELSE IF d.end = "ok" THEN "graded" ELSE "failed"
            IN  /\ booked' = CASE verdict = "graded" -> _record(correct)
                               [] verdict = "failed" -> failed_record
                               [] verdict = "infra"  -> "infra"
                /\ have' = IF ~Host /\ d.end = "timeout" THEN have \cup {"grade"} ELSE have
                /\ \E diff \in SUBSET Readable :
                     records' = IF verdict = "graded" THEN records \cup diff ELSE records
      BY <2>3 DEF GradeRun
    <3> DEFINE verdict == IF ~Host THEN confined_postprocess(d)
                          ELSE IF d.end = "ok" THEN "graded" ELSE "failed"
    <3>2. verdict \in {"graded", "failed", "infra"}
      BY DEF confined_postprocess, _grade_container
    <3> HIDE DEF verdict
    <3>3. booked' \in {_record(correct), failed_record, "infra"}
      BY <3>1, <3>2 DEF verdict
    <3>4. booked' \in {"success", "failure"} => ~escape
      BY <3>3 DEF _record, failed_record
    <3>5. records' \subseteq {"key", "token", "login"} /\ (~Host => "login" \notin records')
      BY <2>1, <3>1
    <3> QED
      BY <3>1, <3>4, <3>5
  <2> QED
    BY <2>2, <2>3
<1>5. AgentShape'
  BY <1>1, <1>2 DEF AgentInv, AgentShape, Over
<1>6. StageInv'
  BY <1>1, <1>2, <1>3 DEF AgentInv, StageInv, Before, Over, Capturing
<1>7. TranscriptInv'
  BY <1>1, <1>2, <1>3, <1>4 DEF AgentInv, TranscriptInv, Capturing
<1>8. have' \subseteq Items /\ (Host => ~brokerUp')
  <2>1. ~Host => mode = "confined"
    BY <1>2, AgentAssumption DEF AgentInv, AgentShape, Host
  <2> QED
    BY <1>1, <1>4, <2>1 DEF AgentInv, HaveInv, Items
<1>9. HaveInv'
  BY <1>1, <1>2, <1>8, CleanupBegins
<1>10. SecretInv'
  BY <1>1, <1>3, <1>4 DEF AgentInv, SecretInv
<1> QED
  BY <1>5, <1>6, <1>7, <1>9, <1>10 DEF AgentInv

(* One step of the cleanup: what it removes is no longer ahead, and what   *)
(* it fails to remove is stuck.                                            *)
LEMMA CleanUpKeeps ==
  ASSUME AgentInv, CleanUp
  PROVE  AgentInv'
<1> DEFINE what == Cleanup[step]
<1>1. /\ stage = "cleanup" /\ stage' = (IF step = Len(Cleanup) THEN "ended" ELSE "cleanup")
      /\ UNCHANGED <<exc, kid, written, got, outReader, exceeded, incomplete, knows, mode, escape, booked, torn, reaped>>
      /\ step' = step + 1
      /\ \/ /\ have' = have \ {what} /\ brokerUp' = (brokerUp /\ what # "broker") /\ stuck' = stuck \ {what}
            /\ records' = IF what = "scrub" THEN records \ {"key", "token"}
                          ELSE IF what = "records" THEN {} ELSE records
            /\ leader' = IF what = "agent" /\ leader = "running" THEN "exited" ELSE leader
         \/ /\ what \in have /\ stuck' = stuck \cup {what}
            /\ UNCHANGED <<have, brokerUp, records, leader>>
  BY DEF CleanUp, Removes, RemovalFails, secret_scrub
<1>2. Host' = Host /\ box' = box /\ Cleanup' = Cleanup /\ Items' = Items
  BY <1>1, ModeStays
<1>3. mode \in Modes /\ Len(Cleanup) \in Nat /\ step \in 1..Len(Cleanup) /\ ~reaped
  BY <1>1, CleanupCovers DEF AgentInv, AgentShape, HaveInv, StageInv
<1>4. Remaining \subseteq {what} \cup {Cleanup[i] : i \in (step + 1)..Len(Cleanup)}
  <2>1. \A i \in step..Len(Cleanup) : i = step \/ i \in (step + 1)..Len(Cleanup)
    BY <1>3
  <2> QED
    BY <2>1 DEF Remaining
<1>5. Remaining' = {Cleanup[i] : i \in (step + 1)..Len(Cleanup)}
  BY <1>1, <1>2 DEF Remaining
<1> HIDE DEF what
<1>6. AgentShape'
  <2>1. stuck' \subseteq have'
    <3>1. stuck \subseteq have
      BY DEF AgentInv, AgentShape
    <3> QED
      BY <1>1, <3>1
  <2>2. stage' \in Over
    BY <1>1 DEF Over
  <2> QED
    BY <1>1, <2>1, <2>2 DEF AgentInv, AgentShape
<1>7. StageInv'
  <2>1. mode = "probe" => records' = {}
    BY <1>1 DEF AgentInv, StageInv
  <2>2. torn = "no" => leader' # "running"
    BY <1>1 DEF AgentInv, StageInv
  <2> QED
    BY <1>1, <1>3, <2>1, <2>2 DEF AgentInv, StageInv, Before, Over
<1>8. TranscriptInv'
  BY <1>1, <1>2 DEF AgentInv, TranscriptInv, Capturing
<1>9. HaveInv'
  <2>1. /\ have \subseteq Items /\ have \subseteq {"grade"} \cup stuck \cup Remaining
        /\ brokerUp => "broker" \in stuck \cup Remaining
        /\ records \subseteq {"login"} \/ "scrub" \in Remaining
        /\ Host => ~brokerUp
        /\ records \subseteq {"key", "token", "login"} /\ (~Host => "login" \notin records)
    BY <1>1 DEF AgentInv, HaveInv, SecretInv
  <2>2. /\ have' \subseteq {"grade"} \cup stuck' \cup Remaining'
        /\ brokerUp' => "broker" \in stuck' \cup Remaining'
    <3>1. have \subseteq {"grade"} \cup stuck \cup {what} \cup Remaining'
      BY <1>4, <1>5, <2>1
    <3>2. brokerUp => "broker" \in stuck \cup {what} \cup Remaining'
      BY <1>4, <1>5, <2>1
    <3>3. CASE have' = have \ {what} /\ brokerUp' = (brokerUp /\ what # "broker") /\ stuck' = stuck \ {what}
      BY <3>1, <3>2, <3>3
    <3>4. CASE what \in have /\ stuck' = stuck \cup {what} /\ UNCHANGED <<have, brokerUp>>
      BY <3>1, <3>2, <3>4
    <3> QED
      BY <1>1, <3>3, <3>4
  <2>5. have' \subseteq Items' /\ (Host' => ~brokerUp')
    <3>1. have' \subseteq have
      BY <1>1
    <3>2. brokerUp' = (brokerUp /\ what # "broker") \/ brokerUp' = brokerUp
      BY <1>1, Zenon
    <3>3. Host' => ~brokerUp'
      BY <1>2, <2>1, <3>2
    <3>4. have' \subseteq Items'
      BY <1>2, <2>1, <3>1
    <3> QED
      BY <3>3, <3>4
  <2>s. records' \subseteq {"login"} \/ "scrub" \in Remaining'
    <3>1. "scrub" \notin have
      BY <1>3, <2>1, AgentAssumption DEF Items
    <3>2. what = "scrub" => records' \subseteq {"login"}
      BY <1>1, <2>1, <3>1
    <3>3. what # "scrub" => records' \subseteq records
      BY <1>1
    <3> QED
      BY <1>4, <1>5, <2>1, <3>2, <3>3
  <2>3. CASE step = Len(Cleanup)
    <3>1. Remaining' = {}
      BY <1>3, <1>5, <2>3
    <3>2. have' \subseteq {"grade"} \cup stuck' /\ (brokerUp' => "broker" \in stuck') /\ records' \subseteq {"login"}
      BY <2>2, <2>s, <3>1
    <3>3. (torn' = "no" => leader' # "running") /\ (leader' = "killed" => kid' # "group")
      BY <1>6, <1>7, <1>1, <2>3 DEF AgentShape, StageInv
    <3>4. ~Host => records' = {}
      BY <1>1, <2>1, <3>2
    <3>5. RecordsClean'
      BY <1>2, <3>2, <3>4 DEF RecordsClean
    <3>6. NothingLeft'
      BY <1>1, <1>3, <3>2, <3>3 DEF NothingLeft
    <3> QED
      BY <1>1, <2>3, <2>5, <3>5, <3>6 DEF HaveInv
  <2>4. CASE step # Len(Cleanup)
    <3>1. step' \in 1..Len(Cleanup') /\ stage' = "cleanup"
      BY <1>1, <1>2, <1>3, <2>4
    <3>2. RecordsClean' /\ NothingLeft'
      BY <1>1, <1>3, <3>1 DEF RecordsClean, NothingLeft
    <3> QED
      BY <2>2, <2>5, <2>s, <3>1, <3>2 DEF HaveInv
  <2> QED
    BY <2>3, <2>4
<1>10. SecretInv'
  BY <1>1, <1>2 DEF AgentInv, SecretInv
<1> QED
  BY <1>6, <1>7, <1>8, <1>9, <1>10 DEF AgentInv

(* A signal, a hung docker or a kill: what it cuts short is marked torn,   *)
(* or the cleanup begins.                                                  *)
LEMMA CutKeeps ==
  ASSUME AgentInv, DockerHangs \/ Sigterm \/ Sigkill
  PROVE  AgentInv'
<1>1. /\ stage \notin {"study", "start", "ended", "killed"}
      /\ UNCHANGED <<leader, kid, written, got, exceeded, incomplete, knows, brokerUp, mode, have, stuck, records,
                     escape, booked, step, reaped>>
      /\ outReader' = (IF stage' = "killed" THEN "off" ELSE outReader)
      /\ \/ stage' = "killed" /\ torn' = torn
         \/ stage \in {"entered", "cleanup"} /\ stage' = "ended" /\ torn' = "cleanup"
         \/ stage \in {"spawned", "join", "reap"} /\ stage' = "cleanup" /\ torn' = "capture" /\ torn = "no"
         \/ stage = "loop" /\ stage' = "join" /\ torn' = torn
         \/ /\ stage \in (Before \ {"study", "start", "entered"}) \cup {"collect", "yielded"}
            /\ stage' = "cleanup" /\ torn' = torn
  <2>1. CASE DockerHangs
    BY <2>1 DEF DockerHangs, capture, egress
  <2>2. CASE Sigterm
    BY <2>2 DEF Sigterm, capture, egress, Before
  <2>3. CASE Sigkill
    BY <2>3 DEF Sigkill, egress, run
  <2> QED
    BY <2>1, <2>2, <2>3
<1>2. Host' = Host /\ box' = box /\ Cleanup' = Cleanup /\ Items' = Items
  BY <1>1, ModeStays
<1>3. ~reaped
  BY <1>1 DEF AgentInv, StageInv
<1>4. AgentShape'
  BY <1>1 DEF AgentInv, AgentShape, Over, Capturing
<1>5. StageInv'
  BY <1>1, <1>2, <1>3 DEF AgentInv, StageInv, Before, Over, Capturing
<1>6. TranscriptInv'
  <2>1. stage \notin Over => booked = "none"
    BY DEF AgentInv, StageInv
  <2> QED
    BY <1>1, <1>2, <2>1 DEF AgentInv, TranscriptInv, Over, Capturing
<1>7. HaveInv'
  <2>1. have \subseteq Items /\ (Host => ~brokerUp) /\ (mode = "probe" => records = {})
    BY DEF AgentInv, HaveInv, StageInv
  <2>2. CASE stage' = "cleanup"
    <3>1. step = 1
      BY <1>1, <2>2 DEF AgentInv, StageInv, Over, Before
    <3> QED
      BY <1>1, <1>3, <2>1, <2>2, <3>1, CleanupBegins
  <2>3. CASE stage' # "cleanup"
    BY <1>1, <1>2, <1>3, <2>1, <2>3 DEF HaveInv, RecordsClean, NothingLeft
  <2> QED
    BY <2>2, <2>3
<1>8. SecretInv'
  BY <1>1, <1>2 DEF AgentInv, SecretInv
<1> QED
  BY <1>4, <1>5, <1>6, <1>7, <1>8 DEF AgentInv

(* A step that only takes away from what a run has on the host, and not    *)
(* its broker.                                                             *)
LEMMA LessIsLeft ==
  ASSUME AgentInv, UNCHANGED <<stage, mode, records, step, torn, reaped>>,
         have' \subseteq have, have \ {"agent", "grade"} \subseteq have', stuck' = stuck \cap have',
         brokerUp' => brokerUp, leader' = "running" => leader = "running", leader' = "killed" => kid' # "group"
  PROVE  HaveInv'
<1>1. Host' = Host /\ Cleanup' = Cleanup /\ Items' = Items /\ Remaining' = Remaining
  BY ModeStays
<1>2. RecordsClean'
  BY <1>1 DEF AgentInv, HaveInv, RecordsClean
<1>3. \A x : x \in stuck => x \in have
  BY DEF AgentInv, AgentShape
<1>4. "broker" \in stuck => "broker" \in stuck'
  BY <1>3
<1>5. NothingLeft'
  BY <1>4 DEF AgentInv, HaveInv, NothingLeft
<1>6. stage' = "cleanup" => /\ step' \in 1..Len(Cleanup')
                            /\ have' \subseteq {"grade"} \cup stuck' \cup Remaining'
                            /\ brokerUp' => "broker" \in stuck' \cup Remaining'
                            /\ records' \subseteq {"login"} \/ "scrub" \in Remaining'
  BY <1>1, <1>4 DEF AgentInv, HaveInv
<1>7. have' \subseteq Items' /\ (stage' = "study" => have' = {}) /\ (Host' => ~brokerUp')
  BY <1>1 DEF AgentInv, HaveInv
<1> QED
  BY <1>2, <1>5, <1>6, <1>7 DEF HaveInv

(* The next study's reap. *)
LEMMA ReapKeeps ==
  ASSUME AgentInv, reap
  PROVE  AgentInv'
<1>1. /\ stage \in {"ended", "killed"} /\ reaped' /\ brokerUp' = (brokerUp /\ "broker" \in have')
      /\ UNCHANGED <<stage, exc, capture, knows, mode, records, escape, booked, step, torn>>
  BY DEF reap
<1>2. /\ have' \subseteq have /\ stuck' \subseteq have'
      /\ mode # "probe" => have' \cap ({"volume"} \cup Containers) \subseteq stuck'
      /\ have' \cap stuck \subseteq stuck'
  <2>1. PICK fails \in SUBSET (have \cap ({"volume"} \cup Containers)) :
          LET labelled == {"broker", "grade"} \cup (IF mode = "probe" THEN {} ELSE {"agent"})
              staying == have \ (labelled \ fails)
              idle == IF VolumeHeld(staying) \/ "volume" \in fails THEN staying ELSE staying \ {"volume"}
          IN  /\ have' \in {idle, idle \ {"workdir", "root", "scoped"}}
              /\ stuck' = have' \cap (stuck \cup fails \cup (IF VolumeHeld(staying) THEN {"volume"} ELSE {}))
    BY DEF reap
  <2> DEFINE labelled == {"broker", "grade"} \cup (IF mode = "probe" THEN {} ELSE {"agent"})
             staying == have \ (labelled \ fails)
             idle == IF VolumeHeld(staying) \/ "volume" \in fails THEN staying ELSE staying \ {"volume"}
  <2>2. /\ have' \in {idle, idle \ {"workdir", "root", "scoped"}}
        /\ stuck' = have' \cap (stuck \cup fails \cup (IF VolumeHeld(staying) THEN {"volume"} ELSE {}))
    BY <2>1
  <2>3. staying \subseteq have /\ (mode # "probe" => staying \cap Containers \subseteq fails)
    BY DEF Containers
  <2> HIDE DEF staying
  <2>4. /\ idle \subseteq have
        /\ mode # "probe" =>
             idle \cap ({"volume"} \cup Containers) \subseteq fails \cup (IF VolumeHeld(staying) THEN {"volume"} ELSE {})
    <3>1. CASE VolumeHeld(staying) \/ "volume" \in fails
      BY <2>3, <3>1
    <3>2. CASE ~(VolumeHeld(staying) \/ "volume" \in fails)
      BY <2>3, <3>2
    <3> QED
      BY <3>1, <3>2
  <2> HIDE DEF idle
  <2> QED
    BY <2>2, <2>4
<1>3. UNCHANGED <<leader, kid, written, got, outReader, exceeded, incomplete>>
  BY <1>1 DEF capture
<1>4. Host' = Host /\ box' = box /\ Cleanup' = Cleanup /\ Items' = Items
  BY <1>1, ModeStays
<1>5. AgentShape'
  BY <1>1, <1>2, <1>3 DEF AgentInv, AgentShape
<1>6. StageInv'
  BY <1>1, <1>3, <1>4 DEF AgentInv, StageInv, Before, Over
<1>7. TranscriptInv'
  BY <1>1, <1>3, <1>4 DEF AgentInv, TranscriptInv
<1>8. HaveInv'
  BY <1>1, <1>2, <1>3, <1>4 DEF AgentInv, HaveInv, RecordsClean, NothingLeft
<1>9. SecretInv'
  BY <1>1, <1>3, <1>4 DEF AgentInv, SecretInv
<1> QED
  BY <1>5, <1>6, <1>7, <1>8, <1>9 DEF AgentInv

(* What the agent prints. *)
LEMMA AgentWritesKeeps ==
  ASSUME AgentInv, AgentWrites(Says),
         UNCHANGED <<stage, exc, egress, mode, have, stuck, records, escape, booked, step, torn, reaped>>
  PROVE  AgentInv'
<1>1. PICK e \in Says : written' = Append(written, e)
  BY DEF AgentWrites
<1>2. outReader = "reading" /\ UNCHANGED <<leader, kid, got, outReader, exceeded, incomplete, brokerUp, knows>>
  BY DEF AgentWrites, egress
<1>3. written \in Seq(Transcript) /\ e \in Transcript
  BY <1>1 DEF AgentInv, AgentShape, Says
<1>4. /\ written' \in Seq(Transcript) /\ Len(written') = Len(written) + 1
      /\ Leaks(written)' \subseteq Leaks(written) \cup ({e.leak} \ {"none"})
  BY <1>1, <1>3, AppendLeaks
<1>5. Host' = Host /\ box' = box
  BY ModeStays
<1>6. ~Host => e.leak \in {"none", "token"}
  BY <1>1 DEF Says, Readable, AgentInv, SecretInv
<1>7. AgentShape'
  <2>1. Len(written) \in Nat
    BY <1>3, LenProperties
  <2> QED
    BY <1>2, <1>4, <2>1 DEF AgentInv, AgentShape
<1>8. stage \notin Before \cup {"spawned", "reap", "collect", "yielded"} /\ booked = "none"
  BY <1>2 DEF AgentInv, StageInv, TranscriptInv
<1>9. StageInv'
  BY <1>2, <1>5 DEF AgentInv, StageInv
<1>10. TranscriptInv'
  BY <1>2, <1>8 DEF TranscriptInv
<1>11. HaveInv'
  <2>1. stuck' = stuck \cap have' /\ (leader' = "killed" => kid' # "group")
    BY <1>2 DEF AgentInv, AgentShape
  <2> QED
    BY <1>2, <2>1, LessIsLeft
<1>12. SecretInv'
  BY <1>2, <1>4, <1>5, <1>6 DEF AgentInv, SecretInv
<1> QED
  BY <1>7, <1>9, <1>10, <1>11, <1>12 DEF AgentInv

(* The ends of the agent, of what it left behind and of the containers.    *)
LEMMA EndsKeep ==
  ASSUME AgentInv, UNCHANGED <<stage, exc, mode, records, escape, booked, step, torn, reaped, knows>>,
         UNCHANGED <<written, got, outReader, exceeded, incomplete>>,
         have' \subseteq have, have \ {"agent", "grade"} \subseteq have', stuck' = stuck \cap have',
         brokerUp' => brokerUp, kid' \in {kid, "none"},
         leader' = leader \/ (leader = "running" /\ leader' = "exited")
  PROVE  AgentInv'
<1>1. Host' = Host /\ box' = box
  BY ModeStays
<1>2. AgentShape'
  BY DEF AgentInv, AgentShape
<1>3. StageInv'
  BY <1>1 DEF AgentInv, StageInv
<1>4. TranscriptInv'
  BY <1>1 DEF AgentInv, TranscriptInv
<1>5. HaveInv'
  BY <1>2, LessIsLeft DEF AgentShape
<1>6. SecretInv'
  BY <1>1 DEF AgentInv, SecretInv
<1> QED
  BY <1>2, <1>3, <1>4, <1>5, <1>6 DEF AgentInv

(* What is stuck is still there. *)
LEMMA StuckThere ==
  ASSUME AgentInv
  PROVE  stuck = stuck \cap have
BY DEF AgentInv, AgentShape

(* The broker shows the agent no credential, and nothing starts it again. *)
LEMMA BrokerShowsNothing ==
  ASSUME AgentInv, AgentCalls \/ BrokerStep \/ BrokerEnds
  PROVE  UNCHANGED knows /\ (brokerUp' => brokerUp) /\ UNCHANGED <<stage, exc, capture, run>>
<1>1. CASE AgentCalls
  BY <1>1 DEF AgentCalls, _forward
<1>2. CASE BrokerEnds
  BY <1>2 DEF BrokerEnds, Deadline
<1>3. CASE BrokerStep
  <2>1. CASE handle \/ Hangup
    BY <1>3, <2>1 DEF BrokerStep, handle, Hangup
  <2>2. CASE Answer
    <3>1. \A a \in Replies : forward(a) = {}
      BY DEF forward, _redact
    <3> QED
      BY <1>3, <2>2, <3>1 DEF BrokerStep, Answer
  <2> QED
    BY <1>3, <2>1, <2>2 DEF BrokerStep
<1> QED
  BY <1>1, <1>2, <1>3

(* The reader of the agent's output: at its end it has read all of it, or  *)
(* has said that it did not.                                               *)
LEMMA ReadersKeep ==
  ASSUME AgentInv, Readers
  PROVE  AgentInv'
<1>1. UNCHANGED <<stage, exc, egress, run>>
  BY DEF Readers
<1>2. /\ UNCHANGED <<mode, have, stuck, records, escape, booked, step, torn, reaped, knows, brokerUp>>
      /\ stuck' = stuck \cap have'
  BY <1>1, StuckThere DEF egress, run
<1>3. CASE ReadErr
  BY <1>1, <1>2, <1>3, EndsKeep DEF ReadErr
<1>4. CASE ReadOut
  <2>1. /\ outReader = "reading" /\ UNCHANGED <<written, incomplete>>
        /\ \/ leader' = leader /\ kid' \in {kid, "none"}
           \/ leader = "running" /\ leader' = "killed" /\ kid' # "group"
        /\ \/ outReader' = "reading" /\ got < Len(written) /\ got' = got + 1
           \/ outReader' = "done" /\ got' = got /\ exceeded'
           \/ outReader' = "done" /\ got' = got /\ got = Len(written)
    BY <1>4 DEF ReadOut, _kill_group
  <2>2. Host' = Host /\ box' = box
    BY <1>2, ModeStays
  <2>3. stage \notin Before \cup {"spawned", "reap", "collect", "yielded"} /\ booked = "none"
    BY <2>1 DEF AgentInv, StageInv, TranscriptInv
  <2>4. AgentShape'
    <3>1. Len(written) \in Nat /\ got \in 0..Len(written)
      BY LenProperties DEF AgentInv, AgentShape
    <3>2. got' \in 0..Len(written)
      BY <2>1, <3>1
    <3> QED
      BY <1>1, <1>2, <2>1, <3>2 DEF AgentInv, AgentShape
  <2>5. StageInv'
    BY <1>1, <1>2, <2>1, <2>2, <2>3 DEF AgentInv, StageInv
  <2>6. TranscriptInv'
    BY <1>1, <1>2, <2>1, <2>3 DEF TranscriptInv, Capturing
  <2>7. HaveInv'
    BY <1>1, <1>2, <2>1, <2>4, LessIsLeft DEF AgentShape
  <2>8. SecretInv'
    BY <1>1, <1>2, <2>1, <2>2 DEF AgentInv, SecretInv
  <2> QED
    BY <2>4, <2>5, <2>6, <2>7, <2>8 DEF AgentInv
<1> QED
  BY <1>3, <1>4 DEF Readers

LEMMA NextAgentInv == AgentInv /\ [AgentNext]_agentVars => AgentInv'
<1> SUFFICES ASSUME AgentInv, [AgentNext]_agentVars PROVE AgentInv'
  OBVIOUS
<1>1. CASE Harness
  BY <1>1, BuildKeeps, SpawnKeeps, CaptureKeeps, CollectKeeps, GradeKeeps, CleanUpKeeps DEF Harness
<1>2. CASE DockerHangs \/ Sigterm \/ Sigkill
  BY <1>2, CutKeeps
<1>3. CASE reap
  BY <1>3, ReapKeeps
<1>4. CASE Agent
  <2>1. UNCHANGED <<stage, exc, egress, mode, records, escape, booked, step, torn, reaped>> /\ stuck' = stuck \cap have'
    BY <1>4 DEF Agent
  <2>2. CASE AgentWrites(Says) /\ UNCHANGED have
    <3>1. stuck' = stuck
      BY <2>1, <2>2, StuckThere
    <3> QED
      BY <2>1, <2>2, <3>1, AgentWritesKeeps
  <2>3. CASE AgentExits /\ have' = have \ {"agent"}
    BY <2>1, <2>3, EndsKeep DEF AgentExits, egress
  <2>4. CASE KidExits /\ UNCHANGED have
    BY <2>1, <2>4, EndsKeep DEF KidExits, egress
  <2> QED
    BY <1>4, <2>2, <2>3, <2>4 DEF Agent
<1>5. CASE AgentCalls \/ BrokerStep \/ BrokerEnds
  BY <1>5, BrokerShowsNothing, StuckThere, EndsKeep DEF capture, run
<1>6. CASE ContainerEnds
  BY <1>6, EndsKeep DEF ContainerEnds, capture, egress
<1>7. CASE Readers
  BY <1>7, ReadersKeep
<1>8. CASE AgentGoesOn \/ Clock \/ UNCHANGED agentVars
  BY <1>8, StuckThere, EndsKeep DEF AgentGoesOn, Clock, agentVars, capture, egress, run
<1> QED
  BY <1>1, <1>2, <1>3, <1>4, <1>5, <1>6, <1>7, <1>8 DEF AgentNext

(* The inductive invariant of one agent run. *)
THEOREM AgentInvariant == AgentSpec => []AgentInv
BY InitAgentInv, NextAgentInv, PTL DEF AgentSpec

(* A success or a failure that the study books (_record, failed_record of  *)
(* evals/ab/run.py) rests on a scan of all that went into the pipe the run *)
(* was read from: no cap, lost join or left-behind process ever hid an     *)
(* escape or the key of it from the scan, for any transcript, cap and      *)
(* interleaving of the readers.                                            *)
THEOREM VerdictsAreEarned == AgentSpec => []VerdictEarned
<1>1. AgentInv => VerdictEarned
  BY DEF AgentInv, TranscriptInv, VerdictEarned
<1> QED
  BY <1>1, AgentInvariant, PTL

(* No injected credential reaches a confined agent's answers or            *)
(* transcript (the broker's forward), and neither the key nor the          *)
(* capability stays in what any run keeps (secret_scrub), unless the       *)
(* cleanup itself was cut short.                                           *)
THEOREM SecretsAreKept == AgentSpec => []SecretsKept
<1>1. AgentInv => SecretsKept
  BY DEF AgentInv, HaveInv, SecretInv, SecretsKept, KeyStaysHome
<1> QED
  BY <1>1, AgentInvariant, PTL

(* A run that ended untorn has its leader dead, its group too where the    *)
(* harness killed it, and nothing of what it built left but a given-up     *)
(* grading container and what a removal failed on (run_agent's and         *)
(* run_confined's finally blocks); a reap (launch.py) takes what the       *)
(* others left in docker, within the same limit.                           *)
THEOREM NothingOfItIsLeft == AgentSpec => []NothingLeft
<1>1. AgentInv => NothingLeft
  BY DEF AgentInv, HaveInv
<1> QED
  BY <1>1, AgentInvariant, PTL

--------------------------------------------------------------------------------
(* The recording relay. *)

RowKinds == {"answered", "unanswered", "dup", "refused", "fallback"}

(* Where each thread may be, and where it is when nothing has failed. *)
UpCalm == {"read", "displaced", "note", "send", "done"}
MainLoop == {"read", "check", "pop", "write", "relay"}
MainCalm == MainLoop \cup {"eofclose", "eofrows", "eofend", "wait", "done"}
UpPlaces == UpCalm \cup {"raised", "abort", "close", "rows", "fallback", "closeclient", "terminate", "wait"}
MainPlaces == MainCalm \cup {"abort", "abortnoclose", "close", "rows", "fallback", "closeclient", "terminate"}
AtAnswer == {"check", "pop", "write", "relay"}
Losing == {"abortnoclose", "fallback"}

Logged(c) == \E r \in rows \cup buf : r[1] = c
LeftOf(t) == {r[1] : r \in left[t]}
Held(c) == pendingCalls[line[c].id] = c
IsCall(c) == line[c].shape = "call"
Queued == IF at["up"] \in {"displaced", "note", "send"} THEN {LineNo} ELSE {}
Unfailed == faults = MaxFaults

ThreadShape ==
  /\ at \in [Threads -> UpPlaces \cup MainPlaces] /\ at["up"] \in UpPlaces /\ at["main"] \in MainPlaces
  /\ cutOff => at["up"] = "done" /\ at["main"] = "done"
  /\ left \in [Threads -> SUBSET (Calls \X RowKinds)]
  /\ at["up"] \notin {"displaced", "rows"} /\ ~cutOff => left["up"] = {}
  /\ at["main"] \notin {"write", "rows", "eofrows"} => left["main"] = {}
  /\ at["up"] = "displaced" => \E c \in Calls : left["up"] = {<<c, "dup">>}
  /\ \A t \in Threads : at[t] \in {"rows", "eofrows"} => \A r \in left[t] : r[2] = "unanswered"
  /\ at["main"] = "write" => \E c \in Calls : left["main"] = {<<c, "answered">>} /\ line[c].id = line[answer.call].id /\ IsCall(c)
  /\ before \in [Threads -> SUBSET (Calls \X RowKinds)]
  /\ at["up"] \in {"displaced", "note", "raised", "send"} => LineNo \in Calls \ sent
  /\ at["main"] \in AtAnswer => answer.call \in sent \ inbox

LogShape ==
  /\ DOMAIN line = Calls /\ LineNo \in Nat /\ \A c \in Calls : line[c].id \in Ids /\ line[c].tool \in Tools
  /\ pendingCalls \in [Ids -> {0} \cup Calls] /\ noted \in [Ids -> {0} \cup Calls]
  /\ \A i \in Ids : pendingCalls[i] # 0 => line[pendingCalls[i]].id = i /\ IsCall(pendingCalls[i])
  /\ \A i \in Ids : noted[i] # 0 => line[noted[i]].id = i
  /\ rows \cup buf \subseteq Calls \X RowKinds
  /\ sent \subseteq Calls /\ inbox \subseteq sent /\ late \subseteq sent /\ relayed \subseteq sent
  /\ faults \in 0..MaxFaults

(* Who has begun to end, and who closed the recorder. *)
AbortInv ==
  /\ aborted /\ ~sealed /\ ~cutOff => at["up"] = "close" \/ at["main"] = "close"
  /\ at["main"] \in {"eofrows", "eofend", "abortnoclose", "rows", "fallback", "closeclient", "terminate"} => sealed
  /\ at["up"] \in {"rows", "fallback", "closeclient", "terminate"} => sealed
  /\ at["main"] = "wait" => sealed \/ aborted
  /\ at["main"] = "done" => at["up"] = "done" /\ (cutOff \/ sealed)

(* Before anything has failed. *)
CalmInv ==
  Unfailed =>
    /\ ~aborted /\ ~answer.bad /\ at["up"] \in UpCalm /\ at["main"] \in MainCalm
    /\ sealed => at["main"] \in {"eofrows", "eofend", "wait", "done"}
    /\ before["main"] = {}
    /\ \A r \in rows \cup buf : r[2] # "fallback" /\ (r[2] = "unanswered" => sealed)

(* After the one failure. *)
FailedInv ==
  OneFailure =>
    /\ at["up"] # "fallback"
    /\ at["main"] \in Losing =>
         /\ faults < MaxFaults /\ at["up"] \in UpCalm /\ before["main"] = {}
         /\ at["main"] = "abortnoclose" => ~aborted
         /\ \A r \in rows \cup buf : r[2] # "fallback"

Counted ==
  DistinctIds => \A t \in Tools :
    Cardinality(RowsOf(OfTool(t))) >= Cardinality(Paired(sent \ late) \cap OfTool(t))

Lost ==
  /\ faults < MaxFaults
  /\ at["main"] \in Losing \/ (at["main"] \in {"closeclient", "terminate", "wait", "done"} /\ sealed /\ Counted)

(* No call that reached the server is forgotten; after a close only what   *)
(* has a row is taken back; no answer is relayed of a call that is still   *)
(* pending, nor of one without a row.                                      *)
Kept(c) == Logged(c) \/ Held(c) \/ c \in LeftOf("up") \/ c \in LeftOf("main") \/ Lost
AllKept == \A c \in sent \cup Queued : IsCall(c) => Kept(c)
TakenBackLogged == sealed => \A c \in sent \ late : IsCall(c) /\ Held(c) => Logged(c)
RelayedLogged == \A c \in relayed : IsCall(c) => Logged(c) \/ c \in LeftOf("up")
PoppedFree == at["main"] \in {"write", "relay"} /\ IsCall(answer.call) => ~Held(answer.call)
KeptInv == OneFailure /\ ~cutOff => AllKept /\ TakenBackLogged /\ RelayedLogged /\ PoppedFree

AnsweredRow(c) == <<c, "answered">> \in rows \cup buf

Sending == IF at["up"] = "send" THEN {LineNo} ELSE {}

(* The calls the fallback would name, before the failure and while main    *)
(* has lost rows.                                                          *)
NotedAll == Unfailed => \A c \in sent \cup Sending : IsCall(c) => noted[line[c].id] = c \/ AnsweredRow(c)
NotedLost ==
  OneFailure /\ at["main"] \in Losing => \A c \in sent \ late : IsCall(c) => noted[line[c].id] = c \/ AnsweredRow(c)

(* The call on its way stays pending until its answer is popped, and what  *)
(* is popped is rowed before it is relayed.                                *)
OnItsWay ==
  Unfailed /\ ~sealed =>
    /\ \A c \in inbox \cup Queued : IsCall(c) => Held(c)
    /\ at["main"] \in AtAnswer /\ IsCall(answer.call) =>
         /\ at["main"] \in {"check", "pop"} => Held(answer.call)
         /\ at["main"] = "write" => left["main"] = {<<answer.call, "answered">>}
         /\ at["main"] = "relay" => AnsweredRow(answer.call)

NotedInv == DistinctIds => NotedAll /\ NotedLost /\ OnItsWay

(* No call is in two places: in the book, among a thread's rows, pending. *)
Once(inLog, rest, pend) ==
  /\ \A r, s \in inLog : r[1] = s[1] => r = s
  /\ \A t \in Threads : \A r \in rest[t] : (\A s \in inLog : s[1] # r[1]) /\ \A s \in rest[t] : r[1] = s[1] => r = s
  /\ \A r \in rest["up"], s \in rest["main"] : r[1] # s[1]
  /\ \A i \in Ids : pend[i] # 0 =>
       (\A s \in inLog : s[1] # pend[i]) /\ \A t \in Threads : \A r \in rest[t] : r[1] # pend[i]

(* Until something fails. *)
OnceInv == Unfailed => Once(rows \cup buf, left, pendingCalls)

RelayInv == ThreadShape /\ LogShape /\ AbortInv /\ CalmInv /\ FailedInv /\ KeptInv /\ NotedInv /\ OnceInv

(* What a line read adds. *)
OneLineMore(m) ==
  /\ m \in Lines /\ m.id \in Ids /\ m.tool \in Tools /\ m.shape \in Shapes
  /\ LineNo' = LineNo + 1 /\ LineNo' \in Nat /\ LineNo' \notin Calls /\ LineNo' # 0
  /\ Calls' = Calls \cup {LineNo'} /\ DOMAIN line' = Calls'
  /\ line'[LineNo'] = m /\ \A c \in Calls : line'[c] = line[c]

LEMMA ReadLineAdds ==
  ASSUME LogShape, NEW m \in Lines, line' = [c \in 1..(LineNo + 1) |-> IF c <= LineNo THEN line[c] ELSE m]
  PROVE  OneLineMore(m)
<1> DEFINE n == LineNo
<1>1. n \in Nat /\ Calls = 1..n
  BY DEF LogShape, Calls, LineNo
<1>2. m.id \in Ids /\ m.tool \in Tools /\ m.shape \in Shapes
  BY DEF Lines
<1>3. DOMAIN line' = 1..(n + 1)
  OBVIOUS
<1>4. LineNo' = n + 1
  <2>1. n + 1 \in Nat
    BY <1>1
  <2> HIDE DEF n
  <2> QED
    BY <1>3, <2>1, UpTo DEF LineNo
<1>5. Calls' = 1..(n + 1)
  BY <1>4 DEF Calls, LineNo
<1> HIDE DEF n
<1>6. Calls' = Calls \cup {n + 1} /\ n + 1 \notin Calls
  BY <1>1, <1>5
<1>7. line'[n + 1] = m /\ \A c \in Calls : line'[c] = line[c]
  BY <1>1 DEF n
<1> QED
  BY <1>1, <1>2, <1>3, <1>4, <1>5, <1>6, <1>7 DEF OneLineMore, n

(* No line is read. *)
LEMMA SameLines ==
  ASSUME line' = line
  PROVE  LineNo' = LineNo /\ Calls' = Calls
BY DEF LineNo, Calls

(* What Write takes back is the call whose row failed. *)
LEMMA TakenBack ==
  ASSUME NEW c \in Calls, NEW S, S = {<<c, "answered">>}
  PROVE  (CHOOSE d \in Calls : <<d, "answered">> \in S) = c
<1>1. \A d \in Calls : <<d, "answered">> \in S <=> d = c
  OBVIOUS
<1> QED
  BY <1>1

(* The rows of the fallback are of noted calls. *)
LEMMA FallbackNames ==
  ASSUME NEW fresh, NEW r \in FallbackRows(fresh)
  PROVE  \E c \in Range(noted) \ {0} : r = <<c, "fallback">>
<1> DEFINE named == Range(noted) \ {0}
           keeps(d) == Cardinality({e \in named : e < d /\ line[e].tool = line[d].tool})
                         >= Cardinality({q \in fresh : line[q[1]].tool = line[d].tool})
<1>1. FallbackRows(fresh) = {<<c, "fallback">> : c \in {d \in named : keeps(d)}}
  BY DEF FallbackRows
<1> HIDE DEF named, keeps
<1>2. r \in {<<c, "fallback">> : c \in {d \in named : keeps(d)}}
  BY <1>1
<1>3. \E c \in named : r = <<c, "fallback">>
  BY <1>2
<1> QED
  BY <1>3 DEF named

Shape == ThreadShape /\ LogShape

LEMMA InitShape == RelayInit => Shape
<1> SUFFICES ASSUME RelayInit PROVE Shape
  OBVIOUS
<1>1. DOMAIN line = {}
  BY DEF RelayInit
<1>2. LineNo = 0 /\ Calls = {}
  <2>1. LineNo = 0
    BY <1>1, FS_EmptySet DEF LineNo
  <2> QED
    BY <2>1 DEF Calls, LineNo
<1>3. MaxFaults \in Nat
  BY RelayAssumption
<1> QED
  BY <1>1, <1>2, <1>3 DEF RelayInit, Shape, ThreadShape, LogShape, NoAnswer, NoKeys, Threads, UpPlaces, UpCalm, MainPlaces,
    MainCalm, MainLoop, AtAnswer

LEMMA ReadLineShape ==
  ASSUME Shape, ReadLine
  PROVE  Shape'
<1> USE DEF Shape
<1>1. PICK m \in Lines :
        /\ line' = [c \in 1..(LineNo + 1) |-> IF c <= LineNo THEN line[c] ELSE m]
        /\ IF rec = "ab" THEN AbRequest(m) ELSE BenchRequest(m) /\ UNCHANGED left
  BY DEF ReadLine
<1>2. OneLineMore(m)
  BY <1>1, ReadLineAdds
<1>3. at["up"] = "read" /\ UNCHANGED <<answer, before, noted, inbox, sent, late, sealed, relayed, cutOff>>
  BY DEF ReadLine, process, ghosts
<1>4. /\ pendingCalls' \in [Ids -> {0} \cup Calls']
      /\ \A i \in Ids : pendingCalls'[i] # 0 => line'[pendingCalls'[i]].id = i /\ line'[pendingCalls'[i]].shape = "call"
  <2>1. pendingCalls' = pendingCalls \/ (m.shape = "call" /\ pendingCalls' = [pendingCalls EXCEPT ![m.id] = LineNo + 1])
    BY <1>1 DEF AbRequest, BenchRequest
  <2>2. /\ pendingCalls \in [Ids -> {0} \cup Calls]
        /\ \A i \in Ids : pendingCalls[i] # 0 => line[pendingCalls[i]].id = i /\ line[pendingCalls[i]].shape = "call"
    BY DEF LogShape, IsCall
  <2>3. CASE pendingCalls' = pendingCalls
    BY <1>2, <2>2, <2>3 DEF OneLineMore
  <2>4. CASE m.shape = "call" /\ pendingCalls' = [pendingCalls EXCEPT ![m.id] = LineNo + 1]
    <3>1. LineNo + 1 = LineNo'
      BY <1>2 DEF OneLineMore
    <3>2. ASSUME NEW i \in Ids PROVE pendingCalls'[i] = IF i = m.id THEN LineNo' ELSE pendingCalls[i]
      BY <2>2, <2>4, <3>1
    <3>3. pendingCalls' \in [Ids -> {0} \cup Calls']
      BY <1>2, <2>2, <2>4, <3>1 DEF OneLineMore
    <3> QED
      BY <1>2, <2>2, <2>4, <3>2, <3>3 DEF OneLineMore
  <2> QED
    BY <2>1, <2>3, <2>4
<1>5. /\ rows' \cup buf' \subseteq Calls' \X RowKinds
      /\ faults' \in 0..MaxFaults
      /\ left' \in [Threads -> SUBSET (Calls' \X RowKinds)] /\ left'["main"] = left["main"]
      /\ at' \in [Threads -> UpPlaces \cup MainPlaces] /\ at'["main"] = at["main"]
      /\ at'["up"] \in {"displaced", "note", "read", "raised"}
      /\ at'["up"] # "displaced" => left'["up"] = {}
      /\ at'["up"] = "displaced" => \E c \in Calls' : left'["up"] = {<<c, "dup">>}
  <2>0. rows \cup buf \subseteq Calls \X RowKinds /\ faults \in 0..MaxFaults /\ pendingCalls \in [Ids -> {0} \cup Calls]
        /\ left \in [Threads -> SUBSET (Calls \X RowKinds)] /\ left["up"] = {}
        /\ at \in [Threads -> UpPlaces \cup MainPlaces]
    BY <1>3 DEF LogShape, ThreadShape
  <2>1. CASE rec = "ab"
    <3> DEFINE old == pendingCalls[m.id]
               went == m.shape = "call" /\ old # 0
               rest == IF went THEN {<<old, "dup">>} ELSE {}
    <3>1. /\ at' = [at EXCEPT !["up"] = IF went THEN "displaced" ELSE "note"]
          /\ left' = [left EXCEPT !["up"] = rest]
          /\ rows' = rows /\ buf' = buf /\ faults' = faults
      BY <1>1, <2>1 DEF AbRequest, log, StepTo
    <3>2. went => old \in Calls
      BY <1>2, <2>0 DEF OneLineMore
    <3> HIDE DEF old, went
    <3>3. at' \in [Threads -> UpPlaces \cup MainPlaces] /\ at'["main"] = at["main"] /\ at'["up"] = IF went THEN "displaced" ELSE "note"
      BY <2>0, <3>1 DEF Threads, UpPlaces, UpCalm
    <3>4. rest \in SUBSET (Calls' \X RowKinds)
      BY <1>2, <3>2 DEF OneLineMore, RowKinds
    <3>5. ~went => rest = {}
      OBVIOUS
    <3>5a. went => rest = {<<old, "dup">>}
      OBVIOUS
    <3> HIDE DEF rest
    <3>6. left' \in [Threads -> SUBSET (Calls' \X RowKinds)] /\ left'["main"] = left["main"] /\ left'["up"] = rest
      BY <1>2, <2>0, <3>1, <3>4 DEF Threads, OneLineMore
    <3> QED
      BY <1>2, <2>0, <3>1, <3>2, <3>3, <3>5, <3>5a, <3>6 DEF OneLineMore
  <2>2. CASE rec # "ab"
    <3>1. left' = left
      BY <1>1, <2>2
    <3>2. (at' = [at EXCEPT !["up"] = "note"] \/ at' = [at EXCEPT !["up"] = "read"] \/ at' = [at EXCEPT !["up"] = "raised"])
      BY <1>1, <2>2 DEF BenchRequest, StepTo
    <3>3. PICK new \in SUBSET (Calls' \X RowKinds) : UNCHANGED log \/ Flushed(new) \/ FlushFails(new)
      <4> DEFINE d == IF pendingCalls[m.id] # 0 THEN {<<pendingCalls[m.id], "dup">>} ELSE {}
      <4>1. d \in SUBSET (Calls' \X RowKinds) /\ RefusalRow \in SUBSET (Calls' \X RowKinds)
        BY <1>2, <2>0 DEF OneLineMore, RefusalRow, RowKinds
      <4>2. UNCHANGED log \/ Flushed(RefusalRow) \/ FlushFails(RefusalRow) \/ Flushed(d) \/ FlushFails(d)
        BY <1>1, <2>2 DEF BenchRequest
      <4> HIDE DEF d
      <4> QED
        BY <4>1, <4>2
    <3>4. rows' \cup buf' \subseteq Calls' \X RowKinds /\ faults' \in 0..MaxFaults
      BY <1>2, <2>0, <3>3, RelayAssumption DEF OneLineMore, Flushed, FlushFails, log
    <3>5. at' \in [Threads -> UpPlaces \cup MainPlaces] /\ at'["main"] = at["main"] /\ at'["up"] \in {"note", "read", "raised"}
      BY <2>0, <3>2 DEF Threads, UpPlaces, UpCalm
    <3> QED
      BY <1>2, <2>0, <3>1, <3>4, <3>5 DEF OneLineMore
  <2> QED
    BY <2>1, <2>2
<1>6. LogShape'
  BY <1>2, <1>3, <1>4, <1>5 DEF LogShape, OneLineMore, IsCall
<1>7. ThreadShape'
  BY <1>2, <1>3, <1>5 DEF LogShape, ThreadShape, OneLineMore, UpPlaces, UpCalm, IsCall, RowKinds, AtAnswer, Threads
<1> QED
  BY <1>6, <1>7

LEMMA OtherShape ==
  ASSUME Shape, RelayNext, ~ReadLine
  PROVE  Shape'
<1> USE DEF Shape
<1>0. line' = line /\ LineNo' = LineNo /\ Calls' = Calls /\ MaxFaults \in Nat
  <2>1. line' = line
    BY DEF RelayNext, Up, Main, Abort, Displaced, Note, Send, ClientEnds, ReadAnswer, Check, Pop, Write, RelayLine, AtEof,
      UpWaited, MainWaited, ServerEnds, WaitTimesOut, BeginAbort, Close, CloseRow, Fallback, CloseClient, Terminate
  <2> QED
    BY <2>1, SameLines, RelayAssumption
<1> USE DEF LogShape, ThreadShape, StepTo, Threads, UpPlaces, UpCalm, MainPlaces, MainCalm, MainLoop, IsCall, RowKinds, AtAnswer,
      Flushed, FlushFails, log, process, ghosts
<1>1. CASE Displaced
  BY <1>0, <1>1 DEF Displaced
<1>2. CASE Note
  BY <1>0, <1>2 DEF Note, Notes
<1>3. CASE Send
  BY <1>0, <1>3 DEF Send
<1>4. CASE ClientEnds
  BY <1>0, <1>4 DEF ClientEnds
<1>5. CASE ReadAnswer
  BY <1>0, <1>5 DEF ReadAnswer
<1>6. CASE Check
  BY <1>0, <1>6 DEF Check, Answered
<1>7. CASE Pop
  BY <1>0, <1>7 DEF Pop, Answered
<1>8. CASE Write
  BY <1>0, <1>8, TakenBack DEF Write, Answered
<1>9. CASE RelayLine
  BY <1>0, <1>9 DEF RelayLine, Answered, NoAnswer
<1>10. CASE AtEof
  BY <1>0, <1>10 DEF AtEof, Unanswered
<1>11. CASE UpWaited \/ ServerEnds \/ \E t \in Threads : WaitTimesOut(t)
  BY <1>0, <1>11 DEF UpWaited, ServerEnds, WaitTimesOut
<1>12. CASE MainWaited
  <2>1. at'["up"] = "done" /\ at'["main"] = "done" /\ at' \in [Threads -> {"done"}] /\ (cutOff' = UpWrites) /\ at["main"] = "wait"
        /\ UNCHANGED <<left, before, line, pendingCalls, noted, answer, inbox, sent, late, relayed>>
        /\ (Flushed({}) \/ FlushFails({}))
    BY <1>12 DEF MainWaited
  <2>2. LogShape'
    BY <1>0, <2>1
  <2>3. ~UpWrites /\ ~cutOff => left["up"] = {}
    BY DEF UpWrites
  <2> QED
    <3>1. ThreadShape'
      BY ONLY ThreadShape, LogShape, <1>0, <2>1, <2>3 DEF ThreadShape, UpPlaces, UpCalm, MainPlaces, MainCalm, MainLoop, AtAnswer, Threads, IsCall
    <3> HIDE DEF ThreadShape, LogShape
    <3> QED
      BY <3>1, <2>2
<1>13. ASSUME NEW t \in Threads, BeginAbort(t) PROVE Shape'
  BY <1>0, <1>13 DEF BeginAbort, Unanswered, NoAnswer
<1>14. ASSUME NEW t \in Threads, Close(t) PROVE Shape'
  BY <1>0, <1>14 DEF Close, NoKeys, Range
<1>15. ASSUME NEW t \in Threads, CloseRow(t) PROVE Shape'
  BY <1>0, <1>15 DEF CloseRow
<1>16. ASSUME NEW t \in Threads, Fallback(t) PROVE Shape'
  <2>1. ASSUME NEW fresh PROVE FallbackRows(fresh) \subseteq Calls \X RowKinds
    <3>1. Range(noted) \ {0} \subseteq Calls
      BY DEF Range
    <3> QED
      BY <3>1, FallbackNames DEF RowKinds
  <2>2. PICK new \in SUBSET (Calls \X RowKinds), l \in {"closeclient", "terminate"} :
          rows' \cup buf' \subseteq rows \cup buf \cup new /\ (faults' = faults \/ (faults > 0 /\ faults' = faults - 1)) /\ StepTo(t, l)
    <3> DEFINE fresh == {r \in rows \cup buf : r[2] \in {"unanswered", "fallback"}} \ before[t]
    <3>1. FallbackRows(fresh) \in SUBSET (Calls \X RowKinds) /\ FallbackRows({}) \in SUBSET (Calls \X RowKinds)
      BY <2>1
    <3>2. \/ Flushed(FallbackRows(fresh)) /\ StepTo(t, "closeclient")
          \/ faults > 0 /\ faults' = faults - 1 /\ rows' = rows \cup buf \cup FallbackRows({}) /\ buf' = {} /\ StepTo(t, "closeclient")
          \/ faults > 0 /\ faults' = faults - 1 /\ rows' = rows \cup buf /\ buf' = FallbackRows(fresh) /\ StepTo(t, "terminate")
      BY <1>16 DEF Fallback
    <3> HIDE DEF fresh
    <3> QED
      BY ONLY <3>1, <3>2 DEF Flushed
  <2>3. at[t] = "fallback" /\ UNCHANGED <<answer, left, before, pendingCalls, noted, inbox, sent, late, relayed, cutOff>>
    BY <1>16 DEF Fallback
  <2> QED
    BY <1>0, <2>2, <2>3
<1>17. ASSUME NEW t \in Threads, CloseClient(t) \/ Terminate(t) PROVE Shape'
  BY <1>0, <1>17 DEF CloseClient, Terminate
<1> QED
  BY <1>1, <1>2, <1>3, <1>4, <1>5, <1>6, <1>7, <1>8, <1>9, <1>10, <1>11, <1>12, <1>13, <1>14, <1>15, <1>16, <1>17
     DEF RelayNext, Up, Main, Abort

LEMMA AbortStep ==
  ASSUME Shape, AbortInv, RelayNext
  PROVE  AbortInv'
<1> USE DEF Shape, AbortInv, StepTo
<1>0. at \in [Threads -> UpPlaces \cup MainPlaces] /\ at["up"] \in UpPlaces /\ at["main"] \in MainPlaces /\ Threads = {"up", "main"}
      /\ (cutOff => at["up"] = "done" /\ at["main"] = "done")
  BY DEF ThreadShape, Threads
<1> USE DEF UpPlaces, UpCalm, MainPlaces, MainCalm, MainLoop
<1>1. CASE ReadLine
  <2>1. UNCHANGED <<aborted, sealed, cutOff>> /\ \E l \in {"displaced", "note", "read", "raised"} : at' = [at EXCEPT !["up"] = l]
    BY <1>1 DEF ReadLine, AbRequest, BenchRequest, ghosts
  <2> QED
    BY <1>0, <1>1, <2>1 DEF ReadLine
<1>2. CASE Displaced \/ Note \/ Send \/ ClientEnds
  BY <1>0, <1>2 DEF Displaced, Note, Send, ClientEnds, ghosts
<1>3. CASE ReadAnswer \/ Check \/ Pop \/ Write \/ RelayLine \/ AtEof
  BY <1>0, <1>3 DEF ReadAnswer, Check, Pop, Write, RelayLine, AtEof, ghosts
<1>4. CASE UpWaited \/ ServerEnds \/ \E t \in Threads : WaitTimesOut(t)
  BY <1>0, <1>4 DEF UpWaited, ServerEnds, WaitTimesOut, ghosts
<1>5. CASE MainWaited
  BY <1>0, <1>5 DEF MainWaited, UpWrites
<1>6. ASSUME NEW t \in Threads, BeginAbort(t) PROVE AbortInv'
  BY <1>0, <1>6 DEF BeginAbort, ghosts
<1>7. ASSUME NEW t \in Threads, Close(t) PROVE AbortInv'
  BY <1>0, <1>7 DEF Close, ghosts
<1>8. ASSUME NEW t \in Threads, CloseRow(t) PROVE AbortInv'
  BY <1>0, <1>8 DEF CloseRow, ghosts
<1>9. ASSUME NEW t \in Threads, Fallback(t) PROVE AbortInv'
  BY <1>0, <1>9 DEF Fallback, ghosts
<1>10. ASSUME NEW t \in Threads, CloseClient(t) \/ Terminate(t) PROVE AbortInv'
  BY <1>0, <1>10 DEF CloseClient, Terminate, ghosts
<1> QED
  BY <1>1, <1>2, <1>3, <1>4, <1>5, <1>6, <1>7, <1>8, <1>9, <1>10 DEF RelayNext, Up, Main, Abort

(* A step that leaves nothing failed met no failure. *)
LEMMA CalmStep ==
  ASSUME Shape, AbortInv, CalmInv, RelayNext
  PROVE  CalmInv'
<1> SUFFICES ASSUME Unfailed' PROVE CalmInv'
  BY DEF CalmInv
<1> USE DEF Shape, StepTo
<1>0. at \in [Threads -> UpPlaces \cup MainPlaces] /\ at["up"] \in UpPlaces /\ at["main"] \in MainPlaces /\ Threads = {"up", "main"}
      /\ faults \in 0..MaxFaults /\ MaxFaults \in Nat /\ faults' = MaxFaults
  BY RelayAssumption DEF ThreadShape, LogShape, Threads, Unfailed
<1>a. faults = MaxFaults /\ Unfailed
  <2>1. faults' = faults \/ faults' = faults - 1
    BY DEF RelayNext, Up, Main, Abort, ReadLine, AbRequest, BenchRequest, Displaced, Note, Send, ClientEnds, ReadAnswer, Check, Pop, Write, RelayLine, AtEof,
      UpWaited, MainWaited, ServerEnds, WaitTimesOut, BeginAbort, Close, CloseRow, Fallback, CloseClient, Terminate, Flushed, FlushFails, log
  <2> QED
    BY <1>0, <2>1 DEF Unfailed
<1>b. /\ ~aborted /\ ~answer.bad /\ at["up"] \in UpCalm /\ at["main"] \in MainCalm
      /\ sealed => at["main"] \in {"eofrows", "eofend", "wait", "done"}
      /\ before["main"] = {}
      /\ \A r \in rows \cup buf : r[2] # "fallback" /\ (r[2] = "unanswered" => sealed)
  BY <1>a DEF CalmInv
<1>c. \A new : ~FlushFails(new)
  BY <1>0, <1>a DEF FlushFails
<1> USE DEF UpPlaces, UpCalm, MainPlaces, MainCalm, MainLoop
<1>1. CASE ReadLine
  <2>1. PICK m \in Lines :
        /\ line' = [c \in 1..(LineNo + 1) |-> IF c <= LineNo THEN line[c] ELSE m]
        /\ IF rec = "ab" THEN AbRequest(m) ELSE BenchRequest(m) /\ UNCHANGED left
    BY <1>1 DEF ReadLine
  <2>2. UNCHANGED <<aborted, sealed, cutOff, answer, before>> /\ at["up"] = "read"
    BY <1>1 DEF ReadLine, ghosts
  <2>3. \E l \in {"displaced", "note", "read"} : at' = [at EXCEPT !["up"] = l]
    BY <1>c, <2>1 DEF AbRequest, BenchRequest
  <2>4. PICK new : (\A r \in new : r[2] \in {"dup", "refused"}) /\ rows' \cup buf' = rows \cup buf \cup new
    <3> DEFINE d == IF pendingCalls[m.id] # 0 THEN {<<pendingCalls[m.id], "dup">>} ELSE {}
    <3>1. (\A r \in d : r[2] = "dup") /\ (\A r \in RefusalRow : r[2] = "refused")
      BY DEF RefusalRow
    <3>2. UNCHANGED <<rows, buf>> \/ Flushed(d) \/ Flushed(RefusalRow)
      BY <1>c, <2>1 DEF AbRequest, BenchRequest, log
    <3> HIDE DEF d
    <3>3. CASE UNCHANGED <<rows, buf>>
      <4>1. (\A r \in {} : r[2] \in {"dup", "refused"}) /\ rows' \cup buf' = rows \cup buf \cup {}
        BY <3>3
      <4> QED
        BY <4>1
    <3>4. CASE Flushed(d)
      BY <3>1, <3>4 DEF Flushed
    <3>5. CASE Flushed(RefusalRow)
      BY <3>1, <3>5 DEF Flushed
    <3> QED
      BY <3>2, <3>3, <3>4, <3>5
  <2>5. \A r \in rows' \cup buf' : r[2] # "fallback" /\ (r[2] = "unanswered" => sealed')
    BY <1>b, <2>2, <2>4
  <2> QED
    BY <1>0, <1>b, <2>2, <2>3, <2>5 DEF CalmInv
<1>2. CASE Displaced \/ Note \/ Send \/ ClientEnds
  BY <1>0, <1>b, <1>c, <1>2 DEF Displaced, Note, Send, ClientEnds, ghosts, log, Flushed, CalmInv, ThreadShape
<1>3. CASE ReadAnswer \/ Check \/ Pop \/ RelayLine \/ AtEof
  BY <1>0, <1>b, <1>c, <1>3 DEF ReadAnswer, Check, Pop, RelayLine, AtEof, ghosts, log, Flushed, CalmInv, NoAnswer, Unanswered, ThreadShape
<1>3a. CASE Write
  BY <1>0, <1>b, <1>c, <1>3a DEF Write, ghosts, log, Flushed, CalmInv, ThreadShape
<1>4. CASE UpWaited \/ ServerEnds \/ \E t \in Threads : WaitTimesOut(t)
  BY <1>0, <1>b, <1>4 DEF UpWaited, ServerEnds, WaitTimesOut, ghosts, log, CalmInv
<1>5. CASE MainWaited
  BY <1>0, <1>b, <1>c, <1>5 DEF MainWaited, CalmInv, Flushed, AbortInv
<1>6. ASSUME NEW t \in Threads, BeginAbort(t) PROVE CalmInv'
  BY <1>0, <1>b, <1>6 DEF BeginAbort
<1>7. ASSUME NEW t \in Threads, Close(t) PROVE CalmInv'
  BY <1>0, <1>b, <1>7 DEF Close, ghosts, CalmInv, log
<1>8. ASSUME NEW t \in Threads, CloseRow(t) PROVE CalmInv'
  <2>1. t = "main" /\ at["main"] = "eofrows" /\ sealed
    BY <1>0, <1>b, <1>8 DEF CloseRow, AbortInv
  <2>2. \A r \in left["main"] : r[2] = "unanswered"
    BY <1>0, <2>1 DEF ThreadShape
  <2>3. UNCHANGED <<aborted, sealed, answer, before>> /\ (at' = at \/ at' = [at EXCEPT !["main"] = "eofend"])
    BY <1>c, <1>8, <2>1 DEF CloseRow, ghosts
  <2>4. UNCHANGED <<rows, buf>> \/ \E r \in left["main"] : Flushed({r})
    BY <1>c, <1>8, <2>1 DEF CloseRow, log
  <2>5. \A r \in rows' \cup buf' : r[2] # "fallback" /\ (r[2] = "unanswered" => sealed')
    BY <1>b, <2>1, <2>2, <2>3, <2>4 DEF Flushed
  <2> QED
    BY <1>0, <1>b, <2>1, <2>3, <2>5 DEF CalmInv
<1>9. ASSUME NEW t \in Threads, Fallback(t) \/ CloseClient(t) \/ Terminate(t) PROVE CalmInv'
  BY <1>0, <1>b, <1>9 DEF Fallback, CloseClient, Terminate, ghosts, CalmInv, log
<1> QED
  BY <1>1, <1>2, <1>3, <1>3a, <1>4, <1>5, <1>6, <1>7, <1>8, <1>9 DEF RelayNext, Up, Main, Abort

(* The second failure is not within OneFailure. *)
LEMMA FailedStep ==
  ASSUME Shape, AbortInv, CalmInv, FailedInv, RelayNext
  PROVE  FailedInv'
<1> SUFFICES ASSUME OneFailure' PROVE FailedInv'
  BY DEF FailedInv
<1> USE DEF Shape, StepTo
<1>0. at \in [Threads -> UpPlaces \cup MainPlaces] /\ at["up"] \in UpPlaces /\ at["main"] \in MainPlaces /\ Threads = {"up", "main"}
      /\ faults \in 0..MaxFaults /\ MaxFaults \in Nat /\ MaxFaults - faults' <= 1
  BY RelayAssumption DEF ThreadShape, LogShape, Threads, OneFailure
<1>a. OneFailure /\ (faults' = faults \/ (faults = MaxFaults /\ faults' = faults - 1))
  <2>1. faults' = faults \/ faults' = faults - 1
    BY DEF RelayNext, Up, Main, Abort, ReadLine, AbRequest, BenchRequest, Displaced, Note, Send, ClientEnds, ReadAnswer, Check, Pop, Write, RelayLine, AtEof,
      UpWaited, MainWaited, ServerEnds, WaitTimesOut, BeginAbort, Close, CloseRow, Fallback, CloseClient, Terminate, Flushed, FlushFails, log
  <2> QED
    BY <1>0, <2>1 DEF OneFailure
<1>b. /\ at["up"] # "fallback"
      /\ at["main"] \in Losing =>
         /\ faults < MaxFaults /\ at["up"] \in UpCalm /\ before["main"] = {}
         /\ at["main"] = "abortnoclose" => ~aborted
         /\ \A r \in rows \cup buf : r[2] # "fallback"
  BY <1>a DEF FailedInv
<1>d. faults = MaxFaults =>
      /\ ~aborted /\ at["up"] \in UpCalm /\ at["main"] \in MainCalm
      /\ before["main"] = {}
      /\ \A r \in rows \cup buf : r[2] # "fallback"
  BY DEF CalmInv, Unfailed
<1>e. at["main"] \in Losing => faults' = faults /\ \A new : ~FlushFails(new)
  BY <1>0, <1>a, <1>b DEF FlushFails
<1> USE DEF UpPlaces, UpCalm, MainPlaces, MainCalm, MainLoop
<1>1. CASE ReadLine
  <2>1. PICK m \in Lines :
        /\ line' = [c \in 1..(LineNo + 1) |-> IF c <= LineNo THEN line[c] ELSE m]
        /\ IF rec = "ab" THEN AbRequest(m) ELSE BenchRequest(m) /\ UNCHANGED left
    BY <1>1 DEF ReadLine
  <2>2. UNCHANGED <<aborted, before>> /\ at["up"] = "read"
    BY <1>1 DEF ReadLine, ghosts
  <2>3. \E l \in {"displaced", "note", "read", "raised"} : at' = [at EXCEPT !["up"] = l]
    BY <2>1 DEF AbRequest, BenchRequest
  <2>3a. at'["main"] = at["main"] /\ at'["up"] # "fallback"
    BY <1>0, <2>3
  <2>4. CASE at["main"] \in Losing
    <3> DEFINE d == IF pendingCalls[m.id] # 0 THEN {<<pendingCalls[m.id], "dup">>} ELSE {}
    <3>1. (\A r \in d : r[2] = "dup") /\ (\A r \in RefusalRow : r[2] = "refused")
      BY DEF RefusalRow
    <3>2. UNCHANGED <<rows, buf>> \/ Flushed(d) \/ Flushed(RefusalRow)
      BY <1>e, <2>1, <2>4 DEF AbRequest, BenchRequest, log
    <3> HIDE DEF d
    <3>3. \A r \in rows' \cup buf' : r[2] # "fallback"
      BY <1>b, <2>4, <3>1, <3>2 DEF Flushed
    <3>4. at'["up"] \in UpCalm
      BY <1>0, <1>e, <2>1, <2>4 DEF AbRequest, BenchRequest
    <3> QED
      BY <1>b, <1>e, <2>2, <2>3a, <2>4, <3>3, <3>4 DEF FailedInv
  <2> QED
    BY <2>3a, <2>4 DEF FailedInv
<1>2. CASE Displaced
  <2>1. \A r \in left["up"] : r[2] # "fallback"
    BY <1>2 DEF Displaced, ThreadShape
  <2> QED
    BY <1>0, <1>b, <1>e, <1>2, <2>1 DEF Displaced, Flushed, FailedInv
<1>3. CASE Note \/ Send \/ ClientEnds
  BY <1>0, <1>b, <1>e, <1>3 DEF Note, Send, ClientEnds, ghosts, log, FailedInv
<1>4. CASE ReadAnswer \/ Check \/ Pop \/ RelayLine \/ AtEof \/ Write
  BY <1>0, <1>b, <1>4 DEF ReadAnswer, Check, Pop, RelayLine, AtEof, Write, FailedInv, Losing
<1>5. CASE UpWaited \/ ServerEnds \/ \E t \in Threads : WaitTimesOut(t)
  BY <1>0, <1>b, <1>5 DEF UpWaited, ServerEnds, WaitTimesOut, ghosts, log, FailedInv
<1>6. CASE MainWaited
  BY <1>0, <1>b, <1>6 DEF MainWaited, FailedInv, Losing
<1>7. ASSUME NEW t \in Threads, BeginAbort(t) PROVE FailedInv'
  <2>1. CASE t = "main"
    BY <1>0, <1>a, <1>b, <1>d, <1>7, <2>1 DEF BeginAbort, FailedInv, Losing, log
  <2>2. CASE t = "up"
    BY <1>0, <1>a, <1>b, <1>d, <1>7, <2>2 DEF BeginAbort, FailedInv, AbortInv, Losing
  <2> QED
    BY <1>0, <2>1, <2>2
<1>8. ASSUME NEW t \in Threads, Close(t) PROVE FailedInv'
  BY <1>0, <1>b, <1>8 DEF Close, ghosts, FailedInv, log, Losing
<1>9. ASSUME NEW t \in Threads, CloseRow(t) PROVE FailedInv'
  <2>1. CASE at[t] = "rows"
    <3>1. \A new : ~FlushFails(new)
      BY <1>0, <1>a, <1>d, <2>1 DEF FlushFails
    <3> QED
      BY <1>0, <1>b, <1>d, <1>9, <2>1, <3>1 DEF CloseRow, Flushed, FailedInv, Losing, log
  <2>2. CASE at[t] = "eofrows"
    <3>1. t = "main"
      BY <1>0, <2>2
    <3>2. UNCHANGED <<aborted, before>>
      BY <1>9 DEF CloseRow
    <3>3. CASE \E r \in left["main"] : FlushFails({r}) /\ StepTo("main", "abortnoclose")
      <4>1. PICK r \in left["main"] : FlushFails({r}) /\ StepTo("main", "abortnoclose")
        BY <3>3
      <4>2. r[2] = "unanswered"
        BY <1>0, <2>2, <3>1 DEF ThreadShape
      <4>3. faults = MaxFaults /\ faults' < MaxFaults
        BY <1>0, <1>a, <4>1 DEF FlushFails
      <4> QED
        BY <1>0, <1>d, <3>2, <4>1, <4>2, <4>3 DEF FlushFails, FailedInv, Losing
    <3>4. CASE at' = at \/ at' = [at EXCEPT !["main"] = "eofend"]
      BY <1>0, <1>b, <2>2, <3>1, <3>4 DEF FailedInv, Losing
    <3> QED
      BY <1>9, <2>2, <3>1, <3>3, <3>4 DEF CloseRow
  <2> QED
    BY <1>9, <2>1, <2>2 DEF CloseRow
<1>10. ASSUME NEW t \in Threads, Fallback(t) \/ CloseClient(t) \/ Terminate(t) PROVE FailedInv'
  <2>1. CASE t = "main"
    BY <1>0, <1>b, <1>10, <2>1 DEF Fallback, CloseClient, Terminate, FailedInv, Losing
  <2>2. CASE t = "up"
    BY <1>0, <1>b, <1>10, <2>2 DEF Fallback, CloseClient, Terminate, FailedInv, Losing
  <2> QED
    BY <1>0, <2>1, <2>2
<1> QED
  BY <1>1, <1>2, <1>3, <1>4, <1>5, <1>6, <1>7, <1>8, <1>9, <1>10 DEF RelayNext, Up, Main, Abort

(* Rows a thread has left are written. *)
LEMMA OnceWritten ==
  ASSUME NEW inLog, NEW rest, NEW pend, Once(inLog, rest, pend), NEW t \in Threads, NEW S \in SUBSET rest[t],
         NEW rest2, rest2[t] = rest[t] \ S, \A o \in Threads \ {t} : rest2[o] = rest[o]
  PROVE  Once(inLog \cup S, rest2, pend)
<1> USE DEF Threads
<1>1. \A r, s \in inLog \cup S : r[1] = s[1] => r = s
  BY DEF Once
<1>2. \A o \in Threads : \A r \in rest2[o] : (\A s \in inLog \cup S : s[1] # r[1]) /\ \A s \in rest2[o] : r[1] = s[1] => r = s
  BY DEF Once
<1>3. \A r \in rest2["up"], s \in rest2["main"] : r[1] # s[1]
  BY DEF Once
<1>4. \A i \in Ids : pend[i] # 0 =>
       (\A s \in inLog \cup S : s[1] # pend[i]) /\ \A o \in Threads : \A r \in rest2[o] : r[1] # pend[i]
  BY DEF Once
<1> QED
  BY <1>1, <1>2, <1>3, <1>4 DEF Once

(* The rows of what is pending under some ids. *)
Taken(pend, I, kind) == {<<pend[i], kind>> : i \in {j \in I : pend[j] # 0}}

(* A pending call goes to a thread that had no rows. *)
LEMMA OnceTaken ==
  ASSUME NEW inLog, NEW rest, NEW pend, Once(inLog, rest, pend), NEW t \in Threads, rest[t] = {},
         NEW I \in SUBSET Ids, NEW kind, NEW rest2, rest2[t] = Taken(pend, I, kind), \A o \in Threads \ {t} : rest2[o] = rest[o],
         NEW pend2, \A i \in Ids : pend2[i] # 0 =>
           \/ i \notin I /\ pend2[i] = pend[i]
           \/ (\A s \in inLog : s[1] # pend2[i]) /\ (\A o \in Threads : \A r \in rest2[o] : r[1] # pend2[i]),
         \A i, j \in Ids : pend[i] # 0 /\ pend[i] = pend[j] => i = j
  PROVE  Once(inLog, rest2, pend2)
<1> USE DEF Threads
<1>0. \A r \in rest2[t] : \E i \in I : pend[i] # 0 /\ r = <<pend[i], kind>> /\ r[1] = pend[i]
  BY DEF Taken
<1>2. \A o \in Threads : \A r \in rest2[o] : (\A s \in inLog : s[1] # r[1]) /\ \A s \in rest2[o] : r[1] = s[1] => r = s
  BY <1>0 DEF Once
<1>3. \A r \in rest2["up"], s \in rest2["main"] : r[1] # s[1]
  BY <1>0 DEF Once
<1>4. \A i \in Ids : pend2[i] # 0 =>
       (\A s \in inLog : s[1] # pend2[i]) /\ \A o \in Threads : \A r \in rest2[o] : r[1] # pend2[i]
  BY <1>0 DEF Once
<1> QED
  BY <1>2, <1>3, <1>4 DEF Once

(* A new row, of a call that is nowhere. *)
LEMMA OnceRowed ==
  ASSUME NEW inLog, NEW rest, NEW pend, Once(inLog, rest, pend), NEW n, NEW kind,
         \A s \in inLog : s[1] # n, \A t \in Threads : \A r \in rest[t] : r[1] # n, \A i \in Ids : pend[i] # n
  PROVE  Once(inLog \cup {<<n, kind>>}, rest, pend)
<1> DEFINE b == inLog \cup {<<n, kind>>}
<1>1. (\A r, s \in b : r[1] = s[1] => r = s) /\ (\A r \in b : r \in inLog \/ r[1] = n)
  BY DEF Once
<1> HIDE DEF b
<1>2. Once(b, rest, pend)
  BY <1>1 DEF Once, Threads
<1> QED
  BY <1>2 DEF b

(* A new call is pending. *)
LEMMA OncePending ==
  ASSUME NEW inLog, NEW rest, NEW pend, Once(inLog, rest, pend), NEW n, NEW i \in Ids, NEW pend2,
         \A s \in inLog : s[1] # n, \A t \in Threads : \A r \in rest[t] : r[1] # n,
         \A j \in Ids : pend2[j] = IF j = i THEN n ELSE pend[j]
  PROVE  Once(inLog, rest, pend2)
BY DEF Once, Threads

(* A pending call's row is written and the call makes way. *)
LEMMA OnceDisplaced ==
  ASSUME NEW inLog, NEW rest, NEW pend, Once(inLog, rest, pend), NEW i \in Ids, pend[i] # 0, NEW kind,
         NEW pend2, pend2[i] = 0, \A j \in Ids \ {i} : pend2[j] = pend[j] /\ (pend[j] # 0 => pend[j] # pend[i])
  PROVE  Once(inLog \cup {<<pend[i], kind>>}, rest, pend2)
<1> DEFINE n == pend[i]
           b == inLog \cup {<<n, kind>>}
<1>0. (\A s \in inLog : s[1] # n) /\ (\A t \in Threads : \A r \in rest[t] : r[1] # n)
  BY DEF Once
<1>00. \A j \in Ids : pend2[j] # 0 => pend2[j] = pend[j] /\ pend[j] # n
  OBVIOUS
<1> HIDE DEF n
<1>1. (\A r, s \in b : r[1] = s[1] => r = s) /\ (\A r \in b : r \in inLog \/ r[1] = n)
  BY <1>0 DEF Once
<1> HIDE DEF b
<1>2. Once(b, rest, pend2)
  BY <1>0, <1>00, <1>1 DEF Once, Threads
<1> QED
  BY <1>2 DEF b, n

(* Each pending call is of its id. *)
LEMMA PendingApart ==
  ASSUME LogShape
  PROVE  /\ \A i, j \in Ids : pendingCalls[i] # 0 /\ pendingCalls[i] = pendingCalls[j] => i = j
         /\ \A i \in Ids : pendingCalls[i] # 0 => pendingCalls[i] \in Calls
         /\ 0 \notin Calls /\ Calls = 1..LineNo /\ LineNo \in Nat
<1>1. LineNo \in Nat /\ Calls = 1..LineNo
  BY DEF LogShape, Calls, LineNo
<1>2. /\ pendingCalls \in [Ids -> {0} \cup Calls]
      /\ \A i \in Ids : pendingCalls[i] # 0 => line[pendingCalls[i]].id = i
  BY DEF LogShape
<1> QED
  BY <1>1, <1>2

LEMMA OnceStep ==
  ASSUME Shape, AbortInv, CalmInv, OnceInv, RelayNext
  PROVE  OnceInv'
<1> SUFFICES ASSUME Unfailed' PROVE Once(rows' \cup buf', left', pendingCalls')
  BY DEF OnceInv
<1> USE DEF Shape, StepTo
<1>0. /\ faults \in 0..MaxFaults /\ MaxFaults \in Nat /\ faults' = MaxFaults
      /\ at \in [Threads -> UpPlaces \cup MainPlaces] /\ left \in [Threads -> SUBSET (Calls \X RowKinds)] /\ Threads = {"up", "main"}
  BY RelayAssumption DEF ThreadShape, LogShape, Threads, Unfailed
<1>a. faults = MaxFaults /\ Unfailed
  <2>1. faults' = faults \/ faults' = faults - 1
    BY DEF RelayNext, Up, Main, Abort, ReadLine, AbRequest, BenchRequest, Displaced, Note, Send, ClientEnds, ReadAnswer, Check, Pop, Write, RelayLine, AtEof,
      UpWaited, MainWaited, ServerEnds, WaitTimesOut, BeginAbort, Close, CloseRow, Fallback, CloseClient, Terminate, Flushed, FlushFails, log
  <2> QED
    BY <1>0, <2>1 DEF Unfailed
<1>b. Once(rows \cup buf, left, pendingCalls)
  BY <1>a DEF OnceInv
<1>c. \A new : ~FlushFails(new)
  BY <1>0, <1>a DEF FlushFails
<1>d. /\ \A i, j \in Ids : pendingCalls[i] # 0 /\ pendingCalls[i] = pendingCalls[j] => i = j
      /\ \A i \in Ids : pendingCalls[i] # 0 => pendingCalls[i] \in Calls
      /\ 0 \notin Calls /\ Calls = 1..LineNo /\ LineNo \in Nat
      /\ pendingCalls \in [Ids -> {0} \cup Calls] /\ rows \cup buf \subseteq Calls \X RowKinds
  BY PendingApart DEF LogShape
<1>f. ASSUME rows' \cup buf' = rows \cup buf, left' = left, pendingCalls' = pendingCalls PROVE Once(rows' \cup buf', left', pendingCalls')
  BY <1>b, <1>f
<1>g. ASSUME NEW t \in Threads, NEW S \in SUBSET left[t], left' = [left EXCEPT ![t] = @ \ S], rows' \cup buf' = (rows \cup buf) \cup S,
        pendingCalls' = pendingCalls
      PROVE Once(rows' \cup buf', left', pendingCalls')
  <2>1. left'[t] = left[t] \ S /\ \A o \in Threads \ {t} : left'[o] = left[o]
    BY <1>0, <1>g
  <2>2. Once((rows \cup buf) \cup S, left', pendingCalls)
    BY <1>b, <2>1, OnceWritten
  <2> QED
    BY <1>g, <2>2
<1>h. at["up"] \in UpCalm /\ at["main"] \in MainCalm /\ ~aborted
  BY <1>a DEF CalmInv
<1>1. CASE ReadLine
  <2>1. PICK m \in Lines :
        /\ line' = [c \in 1..(LineNo + 1) |-> IF c <= LineNo THEN line[c] ELSE m]
        /\ IF rec = "ab" THEN AbRequest(m) ELSE BenchRequest(m) /\ UNCHANGED left
    BY <1>1 DEF ReadLine
  <2>2. m.id \in Ids
    BY DEF Lines
  <2> DEFINE n == LineNo + 1
             i == m.id
             mid == [pendingCalls EXCEPT ![i] = 0]
  <2>3. n \notin Calls /\ n # 0 /\ (\A s \in rows \cup buf : s[1] # n) /\ (\A t \in Threads : \A r \in left[t] : r[1] # n)
        /\ (\A j \in Ids : pendingCalls[j] # n)
    BY <1>0, <1>d
  <2>4. left["up"] = {}
    BY <1>1 DEF ReadLine, ThreadShape
  <2>5. i \in Ids /\ mid[i] = 0 /\ \A j \in Ids \ {i} : mid[j] = pendingCalls[j]
    BY <1>d, <2>2
  <2>6. CASE rec = "ab" /\ m.shape = "call"
    <3> DEFINE S == Taken(pendingCalls, {i}, "dup")
    <3>1. rows' = rows /\ buf' = buf /\ left'["up"] = S /\ (\A o \in Threads \ {"up"} : left'[o] = left[o])
          /\ pendingCalls' = [pendingCalls EXCEPT ![i] = n]
      BY <1>0, <2>1, <2>6 DEF AbRequest, log, Taken
    <3>2. \A j \in Ids : pendingCalls'[j] = IF j = i THEN n ELSE pendingCalls[j]
      BY <1>d, <2>5, <3>1
    <3>3. \A t \in Threads : \A r \in left'[t] : r[1] # n
      BY <1>0, <2>3, <2>5, <3>1 DEF Taken
    <3>4. \A j \in Ids : pendingCalls'[j] # 0 =>
           \/ j \notin {i} /\ pendingCalls'[j] = pendingCalls[j]
           \/ (\A s \in rows \cup buf : s[1] # pendingCalls'[j]) /\ (\A o \in Threads : \A r \in left'[o] : r[1] # pendingCalls'[j])
      BY <2>3, <3>2, <3>3
    <3>5. "up" \in Threads /\ {i} \in SUBSET Ids
      BY <2>5 DEF Threads
    <3> HIDE DEF n, i, mid
    <3>7. Once(rows \cup buf, left', pendingCalls')
      <4>1. left'["up"] = Taken(pendingCalls, {i}, "dup") /\ (\A o \in Threads \ {"up"} : left'[o] = left[o])
        BY <3>1
      <4>2. \A j, k \in Ids : pendingCalls[j] # 0 /\ pendingCalls[j] = pendingCalls[k] => j = k
        BY <1>d
      <4> HIDE DEF S
      <4> QED
        BY ONLY <1>b, <2>4, <3>4, <3>5, <4>1, <4>2, OnceTaken
    <3> QED
      BY <3>1, <3>7
  <2>7. CASE rec = "ab" /\ m.shape # "call"
    <3>1. left' = [left EXCEPT !["up"] = {}] /\ pendingCalls' = pendingCalls /\ rows' = rows /\ buf' = buf
      BY <2>1, <2>7 DEF AbRequest, log
    <3>2. left' = left
      BY <1>0, <2>4, <3>1
    <3> QED
      BY <1>f, <3>1, <3>2
  <2>8. CASE rec # "ab"
    <3> DEFINE d == IF pendingCalls[i] # 0 THEN {<<pendingCalls[i], "dup">>} ELSE {}
    <3>1. left' = left
      BY <2>1, <2>8
    <3>2. \/ pendingCalls' = pendingCalls /\ Flushed({<<n, "refused">>})
          \/ pendingCalls' = pendingCalls /\ rows' = rows /\ buf' = buf
          \/ pendingCalls' = [pendingCalls EXCEPT ![i] = n] /\ pendingCalls[i] = 0 /\ rows' = rows /\ buf' = buf
          \/ pendingCalls' = [pendingCalls EXCEPT ![i] = n] /\ pendingCalls[i] # 0 /\ Flushed(d)
      BY <1>c, <2>1, <2>8 DEF BenchRequest, log, RefusalRow
    <3> HIDE DEF n, i, mid
    <3>3. CASE pendingCalls' = pendingCalls /\ Flushed({<<n, "refused">>})
      <4>1. Once((rows \cup buf) \cup {<<n, "refused">>}, left, pendingCalls)
        BY <1>b, <2>3, OnceRowed
      <4> QED
        BY <3>1, <3>3, <4>1 DEF Flushed
    <3>4. CASE pendingCalls' = pendingCalls /\ rows' = rows /\ buf' = buf
      BY <1>f, <3>1, <3>4
    <3>5. CASE pendingCalls' = [pendingCalls EXCEPT ![i] = n] /\ pendingCalls[i] = 0 /\ rows' = rows /\ buf' = buf
      <4>1. \A j \in Ids : pendingCalls'[j] = IF j = i THEN n ELSE pendingCalls[j]
        BY <1>d, <2>5, <3>5
      <4>2. Once(rows \cup buf, left, pendingCalls')
        <5>1. (\A s \in rows \cup buf : s[1] # n) /\ (\A t \in Threads : \A r \in left[t] : r[1] # n) /\ i \in Ids
          BY <2>3, <2>5
        <5> QED
          BY ONLY <1>b, <4>1, <5>1, OncePending
      <4> QED
        BY <3>1, <3>5, <4>2
    <3>6. CASE pendingCalls' = [pendingCalls EXCEPT ![i] = n] /\ pendingCalls[i] # 0 /\ Flushed(d)
      <4>0. d = {<<pendingCalls[i], "dup">>}
        BY <3>6
      <4> HIDE DEF d
      <4> DEFINE inLog == (rows \cup buf) \cup {<<pendingCalls[i], "dup">>}
      <4>1. \A j \in Ids \ {i} : pendingCalls[j] # 0 => pendingCalls[j] # pendingCalls[i]
        BY <1>d, <2>5
      <4>2. Once(inLog, left, mid)
        BY <1>b, <2>5, <3>6, <4>1, OnceDisplaced
      <4>3. (\A s \in inLog : s[1] # n) /\ (\A j \in Ids : mid[j] # n)
        BY <1>d, <2>3, <2>5
      <4>4. \A j \in Ids : pendingCalls'[j] = IF j = i THEN n ELSE mid[j]
        BY <1>d, <2>5, <3>6
      <4>5. rows' \cup buf' = inLog
        BY <3>6, <4>0 DEF Flushed
      <4> HIDE DEF inLog
      <4>6. Once(inLog, left, pendingCalls')
        <5>1. (\A s \in inLog : s[1] # n) /\ (\A t \in Threads : \A r \in left[t] : r[1] # n) /\ i \in Ids
          BY <2>3, <2>5, <4>3
        <5> QED
          BY ONLY <4>2, <4>4, <5>1, OncePending
      <4> QED
        BY <3>1, <4>5, <4>6
    <3> QED
      BY <3>2, <3>3, <3>4, <3>5, <3>6
  <2> QED
    BY <2>6, <2>7, <2>8
<1>2. CASE Displaced
  <2>1. "up" \in Threads /\ left["up"] \in SUBSET left["up"]
    BY <1>0
  <2>2. left' = [left EXCEPT !["up"] = @ \ left["up"]] /\ rows' \cup buf' = (rows \cup buf) \cup left["up"] /\ pendingCalls' = pendingCalls
    BY <1>0, <1>c, <1>2 DEF Displaced, Flushed
  <2> QED
    BY <1>g, <2>1, <2>2
<1>3. CASE Note \/ Send \/ ClientEnds
  BY <1>f, <1>3 DEF Note, Send, ClientEnds, log
<1>4. CASE ReadAnswer \/ Check \/ RelayLine \/ AtEof
  BY <1>c, <1>f, <1>4 DEF ReadAnswer, Check, RelayLine, AtEof, log, Flushed
<1>5. CASE Pop
  <2> DEFINE i == Answered.id
             S == Taken(pendingCalls, {i}, "answered")
  <2>1. i \in Ids
    BY <1>5 DEF Pop, Answered, ThreadShape, LogShape, AtAnswer
  <2>2. left["main"] = {}
    BY <1>5 DEF Pop, ThreadShape
  <2>3. left'["main"] = S /\ (\A o \in Threads \ {"main"} : left'[o] = left[o]) /\ rows' = rows /\ buf' = buf
    BY <1>0, <1>5 DEF Pop, log, Taken
  <2>4. pendingCalls' = [pendingCalls EXCEPT ![i] = 0]
    BY <1>5 DEF Pop
  <2> HIDE DEF i
  <2>5. \A j \in Ids : pendingCalls'[j] # 0 => j \notin {i} /\ pendingCalls'[j] = pendingCalls[j]
    BY <1>d, <2>1, <2>4
  <2>6. "main" \in Threads /\ {i} \in SUBSET Ids
    BY <2>1 DEF Threads
  <2>7. Once(rows \cup buf, left', pendingCalls')
    BY <1>b, <1>d, <2>2, <2>3, <2>5, <2>6, OnceTaken
  <2> QED
    BY <2>3, <2>7
<1>6. CASE Write
  <2>1. "main" \in Threads /\ left["main"] \in SUBSET left["main"]
    BY <1>0
  <2>2. left' = [left EXCEPT !["main"] = @ \ left["main"]] /\ rows' \cup buf' = (rows \cup buf) \cup left["main"] /\ pendingCalls' = pendingCalls
    BY <1>0, <1>c, <1>6 DEF Write, Flushed
  <2> QED
    BY <1>g, <2>1, <2>2
<1>7. CASE UpWaited \/ ServerEnds \/ \E t \in Threads : WaitTimesOut(t)
  BY <1>f, <1>7 DEF UpWaited, ServerEnds, WaitTimesOut, log
<1>8. CASE MainWaited
  BY <1>c, <1>f, <1>8 DEF MainWaited, Flushed
<1>9. ASSUME NEW t \in Threads, BeginAbort(t) PROVE Once(rows' \cup buf', left', pendingCalls')
  BY <1>0, <1>h, <1>9 DEF BeginAbort, UpCalm, MainCalm, MainLoop
<1>10. ASSUME NEW t \in Threads, Close(t) PROVE Once(rows' \cup buf', left', pendingCalls')
  <2> DEFINE S == Taken(pendingCalls, Ids, "unanswered")
  <2>1. left[t] = {}
    BY <1>0, <1>10, <1>h DEF Close, ThreadShape, UpCalm
  <2>2. {<<c, "unanswered">> : c \in Range(pendingCalls) \ {0}} = S
    BY <1>d DEF Range, Taken
  <2>3. left'[t] = S /\ (\A o \in Threads \ {t} : left'[o] = left[o]) /\ rows' = rows /\ buf' = buf
    BY <1>0, <1>10, <2>2 DEF Close, log
  <2>4. \A i \in Ids : pendingCalls'[i] = 0
    BY <1>10 DEF Close, NoKeys
  <2>7. Once(rows \cup buf, left', pendingCalls')
    BY <1>b, <1>d, <2>1, <2>3, <2>4, OnceTaken
  <2> QED
    BY <2>3, <2>7
<1>11. ASSUME NEW t \in Threads, CloseRow(t) PROVE Once(rows' \cup buf', left', pendingCalls')
  <2>1. CASE UNCHANGED <<left, rows, buf>>
    BY <1>f, <1>11, <2>1 DEF CloseRow
  <2>2. CASE \E r \in left[t] : Flushed({r}) /\ left' = [left EXCEPT ![t] = @ \ {r}]
    <3>1. PICK r \in left[t] : Flushed({r}) /\ left' = [left EXCEPT ![t] = @ \ {r}]
      BY <2>2
    <3>2. {r} \in SUBSET left[t] /\ rows' \cup buf' = (rows \cup buf) \cup {r} /\ pendingCalls' = pendingCalls
      BY <1>11, <3>1 DEF CloseRow, Flushed
    <3> QED
      BY <1>g, <3>1, <3>2
  <2> QED
    BY <1>c, <1>11, <2>1, <2>2 DEF CloseRow, log
<1>12. ASSUME NEW t \in Threads, Fallback(t) PROVE Once(rows' \cup buf', left', pendingCalls')
  BY <1>0, <1>h, <1>12 DEF Fallback, UpCalm, MainCalm, MainLoop
<1>13. ASSUME NEW t \in Threads, CloseClient(t) \/ Terminate(t) PROVE Once(rows' \cup buf', left', pendingCalls')
  BY <1>f, <1>13 DEF CloseClient, Terminate, log
<1> QED
  BY <1>1, <1>2, <1>3, <1>4, <1>5, <1>6, <1>7, <1>8, <1>9, <1>10, <1>11, <1>12, <1>13 DEF RelayNext, Up, Main, Abort

(* No row is taken from the book. *)
LEMMA BookGrows ==
  ASSUME RelayNext
  PROVE  rows \cup buf \subseteq rows' \cup buf'
<1> USE DEF Flushed, FlushFails, log
<1>1. CASE ReadLine
  <2>1. PICK m \in Lines : AbRequest(m) \/ BenchRequest(m)
    BY <1>1 DEF ReadLine
  <2>2. UNCHANGED log \/ \E new : Flushed(new) \/ FlushFails(new)
    BY <2>1 DEF AbRequest, BenchRequest
  <2> QED
    BY <2>2
<1>2. CASE \E t \in Threads : Fallback(t)
  BY <1>2 DEF Fallback
<1>3. CASE UNCHANGED log \/ (\E new : Flushed(new) \/ FlushFails(new)) \/ UNCHANGED <<rows, buf>>
  BY <1>3
<1>4. ReadLine \/ (\E t \in Threads : Fallback(t)) \/ UNCHANGED <<rows, buf>> \/ (\E new : Flushed(new) \/ FlushFails(new))
  <2> HIDE DEF Flushed, FlushFails
  <2> QED
    BY DEF RelayNext, Up, Main, Abort, Displaced, Note, Send, ClientEnds, ReadAnswer, Check, Pop, Write, RelayLine, AtEof,
      UpWaited, MainWaited, ServerEnds, WaitTimesOut, BeginAbort, Close, CloseRow, CloseClient, Terminate
<1> QED
  BY <1>1, <1>2, <1>3, <1>4

(* Nor a line. *)
LEMMA LinesStay ==
  ASSUME Shape, RelayNext
  PROVE  /\ Calls \subseteq Calls' /\ \A c \in Calls : line'[c] = line[c]
         /\ ReadLine \/ (line' = line /\ LineNo' = LineNo /\ Calls' = Calls)
         /\ DistinctIds' => DistinctIds
<1>1. CASE ReadLine
  <2>1. PICK m \in Lines : line' = [c \in 1..(LineNo + 1) |-> IF c <= LineNo THEN line[c] ELSE m]
    BY <1>1 DEF ReadLine
  <2>2. OneLineMore(m)
    BY <2>1, ReadLineAdds DEF Shape
  <2> QED
    BY <1>1, <2>2 DEF OneLineMore, DistinctIds
<1>2. CASE ~ReadLine
  <2>1. line' = line
    BY <1>2 DEF RelayNext, Up, Main, Abort, Displaced, Note, Send, ClientEnds, ReadAnswer, Check, Pop, Write, RelayLine, AtEof,
      UpWaited, MainWaited, ServerEnds, WaitTimesOut, BeginAbort, Close, CloseRow, Fallback, CloseClient, Terminate
  <2> QED
    BY <2>1, SameLines DEF DistinctIds
<1> QED
  BY <1>1, <1>2

(* The failures so far only grow in number. *)
LEMMA FailuresStay ==
  ASSUME Shape, RelayNext
  PROVE  /\ faults \in 0..MaxFaults /\ MaxFaults \in Nat /\ (faults' = faults \/ faults' = faults - 1)
         /\ Unfailed' => Unfailed /\ faults' = faults
         /\ OneFailure' => OneFailure /\ (~Unfailed => faults' = faults)
         /\ Unfailed => OneFailure
<1>0. faults \in 0..MaxFaults /\ MaxFaults \in Nat
  BY RelayAssumption DEF Shape, LogShape
<1>1. faults' = faults \/ faults' = faults - 1
  BY DEF RelayNext, Up, Main, Abort, ReadLine, AbRequest, BenchRequest, Displaced, Note, Send, ClientEnds, ReadAnswer, Check, Pop, Write, RelayLine, AtEof,
    UpWaited, MainWaited, ServerEnds, WaitTimesOut, BeginAbort, Close, CloseRow, Fallback, CloseClient, Terminate, Flushed, FlushFails, log
<1> QED
  BY <1>0, <1>1 DEF Unfailed, OneFailure

(* What only Note, Send and RelayLine change. *)
LEMMA NotesFrame ==
  ASSUME Shape, RelayNext, ~Note, ~Send, ~RelayLine
  PROVE  UNCHANGED <<noted, sent, late>> /\ (at'["up"] = "send" => at["up"] = "send")
<1>0. at \in [Threads -> UpPlaces \cup MainPlaces] /\ Threads = {"up", "main"}
  BY DEF Shape, ThreadShape, Threads
<1>1. UNCHANGED <<noted, sent, late>>
  BY DEF RelayNext, Up, Main, Abort, ReadLine, Displaced, ClientEnds, ReadAnswer, Check, Pop, Write, AtEof,
      UpWaited, MainWaited, ServerEnds, WaitTimesOut, BeginAbort, Close, CloseRow, Fallback, CloseClient, Terminate, ghosts
<1>2. at' = at \/ (\E t \in Threads : \E l : at' = [at EXCEPT ![t] = l] /\ l # "send") \/ at' = [t \in Threads |-> "done"]
  <2>1. CASE ReadLine
    BY <1>0, <2>1 DEF ReadLine, AbRequest, BenchRequest, StepTo
  <2>2. CASE ~ReadLine /\ ~(\E t \in Threads : Abort(t))
    BY <1>0, <2>2 DEF RelayNext, Up, Main, Displaced, ClientEnds, ReadAnswer, Check, Pop, Write, AtEof,
      UpWaited, MainWaited, ServerEnds, WaitTimesOut, StepTo
  <2>3. ASSUME NEW t \in Threads, Abort(t) PROVE \E l : at' = at \/ (at' = [at EXCEPT ![t] = l] /\ l # "send")
    <3>1. CASE BeginAbort(t)
      BY <3>1 DEF BeginAbort, StepTo
    <3>2. CASE Close(t)
      <4>1. at' = [at EXCEPT ![t] = "rows"] \/ at' = [at EXCEPT ![t] = "eofrows"]
        BY <3>2 DEF Close, StepTo
      <4> QED
        BY <4>1
    <3>3. CASE CloseRow(t)
      BY <3>3 DEF CloseRow, StepTo
    <3>4. CASE Fallback(t)
      BY <3>4 DEF Fallback, StepTo
    <3>5. CASE CloseClient(t) \/ Terminate(t)
      BY <3>5 DEF CloseClient, Terminate, StepTo
    <3> QED
      BY <2>3, <3>1, <3>2, <3>3, <3>4, <3>5 DEF Abort
  <2> QED
    BY <2>1, <2>2, <2>3
<1>3. at'["up"] = "send" => at["up"] = "send"
  BY <1>0, <1>2
<1> QED
  BY <1>1, <1>3

(* The first call of an id stays noted until its answer is relayed. *)
LEMMA NoteNotes ==
  ASSUME Shape, Note
  PROVE  /\ \A c \in Calls : noted[line[c].id] = c => noted'[line[c].id] = c
         /\ DistinctIds /\ IsCall(LineNo) /\ ~aborted => noted'[line[LineNo].id] = LineNo
<1>1. LineNo \in Calls /\ noted' = Notes(line[LineNo])
  BY DEF Note, Shape, ThreadShape
<1>2. noted \in [Ids -> {0} \cup Calls] /\ \A c \in Calls : line[c].id \in Ids
  BY DEF Shape, LogShape
<1>3. 0 \notin Calls
  BY PendingApart DEF Shape
<1>4. \A i \in Ids : noted[i] # 0 => line[noted[i]].id = i
  BY DEF Shape, LogShape
<1> QED
  BY <1>1, <1>2, <1>3, <1>4 DEF Notes, IsCall, DistinctIds

LEMMA NotedAllStep ==
  ASSUME Shape, CalmInv, NotedAll, OnItsWay, RelayNext, DistinctIds'
  PROVE  NotedAll'
<1> SUFFICES ASSUME Unfailed', NEW c \in (sent \cup Sending)', IsCall(c)' PROVE noted'[line'[c].id] = c \/ AnsweredRow(c)'
  BY DEF NotedAll
<1>0. Unfailed /\ DistinctIds
  BY FailuresStay, LinesStay
<1>a. sent \subseteq Calls /\ (at["up"] \in {"note", "send"} => LineNo \in Calls)
  BY DEF Shape, LogShape, ThreadShape
<1>b. AnsweredRow(c) => AnsweredRow(c)'
  BY BookGrows DEF AnsweredRow
<1>d. at \in [Threads -> UpPlaces \cup MainPlaces] /\ Threads = {"up", "main"}
  BY DEF Shape, ThreadShape, Threads
<1>1. ASSUME c \in sent \cup Sending PROVE c \in Calls /\ line'[c] = line[c] /\ IsCall(c) /\ (noted[line[c].id] = c \/ AnsweredRow(c))
  <2>1. c \in Calls
    BY <1>a, <1>1 DEF Sending
  <2>2. line'[c] = line[c] /\ IsCall(c)
    BY <2>1, LinesStay DEF IsCall
  <2> QED
    BY <1>0, <1>1, <2>1, <2>2 DEF NotedAll
<1>2. CASE Note
  <2>0. line' = line /\ sent' = sent /\ ~aborted
    BY <1>0, <1>2 DEF Note, CalmInv, ghosts
  <2>00. LineNo' = LineNo /\ LineNo \in Calls
    <3>1. LineNo \in Calls
      BY <1>2 DEF Note, Shape, ThreadShape
    <3> QED
      BY <2>0, <3>1, SameLines
  <2>1. line' = line /\ sent' = sent /\ ~aborted /\ Sending' \subseteq {LineNo} /\ LineNo \in Calls /\ LineNo' = LineNo
    BY <2>0, <2>00 DEF Sending
  <2>2. CASE c \in sent
    BY <1>1, <1>2, <1>b, <2>1, <2>2, NoteNotes
  <2>3. CASE c = LineNo
    BY <1>0, <1>2, <2>1, <2>3, NoteNotes DEF IsCall
  <2> QED
    BY <2>1, <2>2, <2>3
<1>3. CASE Send
  <2>1. line' = line /\ noted' = noted /\ sent' \subseteq sent \cup Sending /\ Sending' = {}
    BY <1>3, <1>d DEF Send, Sending, StepTo
  <2> QED
    BY <1>1, <1>b, <2>1
<1>4. CASE RelayLine
  <2>1. line' = line /\ sent' = sent /\ Sending' = Sending
    BY <1>4, <1>d DEF RelayLine, Sending, StepTo, LineNo
  <2>2. c \in Calls /\ IsCall(c) /\ line'[c] = line[c] /\ (noted[line[c].id] = c \/ AnsweredRow(c))
    BY <1>1, <2>1
  <2>3. CASE noted' = noted
    BY <1>b, <2>1, <2>2, <2>3
  <2>4. CASE noted' # noted
    <3>1. noted' = [noted EXCEPT ![line[answer.call].id] = 0] /\ at["main"] = "relay"
      BY <1>4, <2>4 DEF RelayLine, Answered
    <3>2. answer.call \in Calls /\ noted \in [Ids -> {0} \cup Calls]
      BY <1>a, <3>1 DEF Shape, LogShape, ThreadShape, AtAnswer
    <3>3. CASE c = answer.call
      <4>1. ~sealed
        BY <1>0, <3>1 DEF CalmInv
      <4>2. AnsweredRow(c)
        BY <1>0, <2>2, <3>1, <3>3, <4>1 DEF OnItsWay, AtAnswer
      <4> QED
        BY <1>b, <4>2
    <3>4. CASE c # answer.call
      <4>1. line[c].id # line[answer.call].id
        BY <1>0, <2>2, <3>2, <3>4 DEF DistinctIds
      <4>2. line[c].id \in Ids
        BY <2>2 DEF Shape, LogShape
      <4> QED
        BY <1>b, <2>1, <2>2, <3>1, <3>2, <4>1, <4>2
    <3> QED
      BY <3>3, <3>4
  <2> QED
    BY <2>3, <2>4
<1>5. CASE ~Note /\ ~Send /\ ~RelayLine
  <2>1. noted' = noted /\ sent' = sent /\ (at'["up"] = "send" => at["up"] = "send")
    BY <1>5, NotesFrame
  <2>2. ReadLine => at'["up"] # "send"
    BY <1>d, <2>1 DEF ReadLine
  <2>3. c \in sent \cup Sending
    BY <2>1, <2>2, LinesStay DEF Sending
  <2> QED
    BY <1>1, <1>b, <2>1, <2>3
<1> QED
  BY <1>2, <1>3, <1>4, <1>5

LEMMA NotedLostStep ==
  ASSUME Shape, AbortInv, CalmInv, FailedInv, NotedAll, NotedLost, RelayNext
  PROVE  NotedLost'
<1> SUFFICES ASSUME OneFailure', at'["main"] \in Losing, NEW c \in (sent \ late)', IsCall(c)' PROVE noted'[line'[c].id] = c \/ AnsweredRow(c)'
  BY DEF NotedLost
<1>0. OneFailure
  BY FailuresStay
<1>b. AnsweredRow(c) => AnsweredRow(c)'
  BY BookGrows DEF AnsweredRow
<1>d. at \in [Threads -> UpPlaces \cup MainPlaces] /\ Threads = {"up", "main"} /\ sent \subseteq Calls
  BY DEF Shape, ThreadShape, LogShape, Threads
<1>1. at["main"] \in Losing => sealed
  BY DEF AbortInv, Losing
<1>2. CASE at["main"] \in Losing
  <2>1. c \in sent \ late
    <3>1. CASE Send
      BY <1>1, <1>2, <3>1 DEF Send
    <3>2. CASE RelayLine \/ Note
      BY <3>2 DEF RelayLine, Note, ghosts
    <3>3. CASE ~Note /\ ~Send /\ ~RelayLine
      BY <3>3, NotesFrame
    <3> QED
      BY <3>1, <3>2, <3>3
  <2>2. c \in Calls /\ line'[c] = line[c] /\ IsCall(c)
    BY <1>d, <2>1, LinesStay DEF IsCall
  <2>3. noted[line[c].id] = c \/ AnsweredRow(c)
    BY <1>0, <1>2, <2>1, <2>2 DEF NotedLost
  <2>4. CASE Note
    BY <1>b, <2>2, <2>3, <2>4, NoteNotes
  <2>5. CASE ~Note
    <3>1. ~RelayLine
      BY <1>2 DEF RelayLine, Losing
    <3>2. noted' = noted
      BY <2>5, <3>1, NotesFrame DEF Send
    <3> QED
      BY <1>b, <2>2, <2>3, <3>2
  <2> QED
    BY <2>4, <2>5
<1>3. CASE at["main"] \notin Losing
  <2>1. \E t \in Threads : CloseRow(t)
    <3>1. CASE ReadLine
      BY <1>3, <1>d, <3>1 DEF ReadLine, AbRequest, BenchRequest, StepTo
    <3>2. ASSUME NEW t \in Threads, Abort(t), ~CloseRow(t) PROVE FALSE
      BY <1>3, <1>d, <3>2 DEF Abort, BeginAbort, Close, Fallback, CloseClient, Terminate, StepTo, Losing
    <3>3. CASE ~ReadLine /\ ~(\E t \in Threads : Abort(t))
      BY <1>3, <1>d, <3>3 DEF RelayNext, Up, Main, Note, Send, RelayLine, Displaced, ClientEnds, ReadAnswer, Check, Pop, Write, AtEof,
        UpWaited, MainWaited, ServerEnds, WaitTimesOut, StepTo, Losing
    <3> QED
      BY <3>1, <3>2, <3>3
  <2>2. PICK t \in Threads : CloseRow(t)
    BY <2>1
  <2>3. Unfailed
    <3>1. faults' # faults
      <4>1. PICK new : FlushFails(new)
        BY <1>3, <1>d, <2>2 DEF CloseRow, StepTo, Losing
      <4> QED
        BY <4>1, FailuresStay DEF FlushFails
    <3> QED
      BY <3>1, FailuresStay
  <2>4. sent' = sent /\ late' = late /\ noted' = noted /\ line' = line
    BY <2>2 DEF CloseRow, ghosts
  <2> QED
    BY <1>b, <2>3, <2>4 DEF NotedAll, IsCall
<1> QED
  BY <1>2, <1>3

(* What the lines read do to what is pending. *)
LEMMA ReadLinePending ==
  ASSUME Shape, ReadLine
  PROVE  \E m \in Lines :
           /\ OneLineMore(m)
           /\ \/ pendingCalls' = pendingCalls /\ (m.shape = "call" => at'["up"] \in {"read", "raised"})
              \/ /\ pendingCalls' = [pendingCalls EXCEPT ![m.id] = LineNo + 1] /\ m.shape = "call"
                 /\ pendingCalls[m.id] # 0 => \/ <<pendingCalls[m.id], "dup">> \in left'["up"]
                                             \/ <<pendingCalls[m.id], "dup">> \in rows' \cup buf'
<1>0. at \in [Threads -> UpPlaces \cup MainPlaces] /\ left \in [Threads -> SUBSET (Calls \X RowKinds)] /\ Threads = {"up", "main"}
  BY DEF Shape, ThreadShape, Threads
<1>1. PICK m \in Lines :
        /\ line' = [c \in 1..(LineNo + 1) |-> IF c <= LineNo THEN line[c] ELSE m]
        /\ IF rec = "ab" THEN AbRequest(m) ELSE BenchRequest(m) /\ UNCHANGED left
  BY DEF ReadLine
<1>2. OneLineMore(m)
  BY <1>1, ReadLineAdds DEF Shape
<1>3. CASE rec = "ab"
  BY <1>0, <1>1, <1>2, <1>3 DEF AbRequest
<1>4. CASE rec # "ab"
  BY <1>0, <1>1, <1>2, <1>4 DEF BenchRequest, StepTo, Flushed, FlushFails
<1> QED
  BY <1>3, <1>4

LEMMA OnItsWayStep ==
  ASSUME Shape, AbortInv, CalmInv, OnItsWay, RelayNext, DistinctIds'
  PROVE  OnItsWay'
<1> SUFFICES ASSUME Unfailed', ~sealed' PROVE OnItsWay'
  BY DEF OnItsWay
<1>0. Unfailed /\ DistinctIds /\ faults' = faults /\ faults = MaxFaults /\ MaxFaults \in Nat
  BY FailuresStay, LinesStay DEF Unfailed
<1>a. ~sealed
  BY DEF RelayNext, Up, Main, Abort, ReadLine, Displaced, ClientEnds, ReadAnswer, Check, Pop, Write, AtEof, Note, Send, RelayLine,
      UpWaited, MainWaited, ServerEnds, WaitTimesOut, BeginAbort, Close, CloseRow, Fallback, CloseClient, Terminate, ghosts
<1>b. /\ at \in [Threads -> UpPlaces \cup MainPlaces] /\ Threads = {"up", "main"}
      /\ left \in [Threads -> SUBSET (Calls \X RowKinds)]
      /\ sent \subseteq Calls /\ inbox \subseteq sent /\ (at["main"] \in AtAnswer => answer.call \in sent \ inbox)
      /\ (at["up"] \in {"displaced", "note", "raised", "send"} => LineNo \in Calls \ sent)
      /\ pendingCalls \in [Ids -> {0} \cup Calls] /\ (\A c \in Calls : line[c].id \in Ids)
      /\ 0 \notin Calls
  BY PendingApart DEF Shape, ThreadShape, LogShape, Threads
<1>c. \A new : ~FlushFails(new)
  BY <1>0 DEF FlushFails
<1>d. at["up"] \in UpCalm /\ at["main"] \in MainLoop \cup {"eofclose", "wait", "done"} /\ ~aborted /\ ~answer.bad
      /\ (at["main"] \notin {"wait", "done"} \/ cutOff)
  BY <1>0, <1>a DEF CalmInv, MainCalm, AbortInv, MainLoop
<1>e. /\ \A c \in inbox \cup Queued : IsCall(c) => Held(c)
      /\ at["main"] \in AtAnswer /\ IsCall(answer.call) =>
         /\ at["main"] \in {"check", "pop"} => Held(answer.call)
         /\ at["main"] = "write" => left["main"] = {<<answer.call, "answered">>}
         /\ at["main"] = "relay" => AnsweredRow(answer.call)
  BY <1>0, <1>a DEF OnItsWay
<1>f. \A c : AnsweredRow(c) => AnsweredRow(c)'
  BY BookGrows DEF AnsweredRow
<1>g. ~ReadLine => line' = line /\ LineNo' = LineNo
  BY LinesStay
<1>1. CASE ReadLine
  <2>1. PICK m \in Lines :
           /\ OneLineMore(m)
           /\ \/ pendingCalls' = pendingCalls /\ (m.shape = "call" => at'["up"] \in {"read", "raised"})
              \/ pendingCalls' = [pendingCalls EXCEPT ![m.id] = LineNo + 1] /\ m.shape = "call"
    BY <1>1, ReadLinePending
  <2>2. UNCHANGED <<inbox, answer>> /\ at["up"] = "read" /\ left'["main"] = left["main"] /\ at'["main"] = at["main"]
    BY <1>1, <1>b DEF ReadLine, process, AbRequest, BenchRequest, StepTo
  <2>3. ASSUME NEW c \in Calls, IsCall(c), Held(c) PROVE Held(c)'
    <3>1. line'[c] = line[c] /\ c # LineNo' /\ LineNo' \in Calls' /\ c \in Calls' /\ line'[LineNo'] = m /\ LineNo' = LineNo + 1 /\ m.id \in Ids
      BY <2>1 DEF OneLineMore
    <3>2. line[c].id # m.id
      BY <3>1 DEF DistinctIds
    <3> QED
      BY <1>b, <2>1, <2>3, <3>1, <3>2 DEF Held
  <2>4. \A c \in Calls : IsCall(c)' => IsCall(c)
    BY <2>1 DEF OneLineMore, IsCall
  <2>5. IsCall(LineNo)' => Held(LineNo)' \/ Queued' = {}
    <3>1. LineNo' = LineNo + 1 /\ line'[LineNo'] = m /\ m.id \in Ids
      BY <2>1 DEF OneLineMore
    <3>2. CASE at'["up"] \in {"read", "raised"}
      BY <3>2 DEF Queued
    <3>3. CASE pendingCalls' = [pendingCalls EXCEPT ![m.id] = LineNo + 1]
      BY <1>b, <3>1, <3>3 DEF Held
    <3> QED
      BY <2>1, <3>1, <3>2, <3>3 DEF IsCall
  <2>6. \A c \in inbox' : IsCall(c)' => Held(c)'
    BY <1>b, <1>e, <2>2, <2>3, <2>4
  <2>7. Queued' \subseteq {LineNo'}
    BY DEF Queued
  <2>8. at["main"] \in AtAnswer => answer.call \in Calls
    BY <1>b
  <2>9. \A c \in (inbox \cup Queued)' : IsCall(c)' => Held(c)'
    BY <2>5, <2>6, <2>7
  <2>10. at'["main"] \in AtAnswer /\ IsCall(answer.call)' =>
         /\ at'["main"] \in {"check", "pop"} => Held(answer.call)'
         /\ at'["main"] = "write" => left'["main"] = {<<answer.call, "answered">>}
         /\ at'["main"] = "relay" => AnsweredRow(answer.call)'
    BY <1>e, <1>f, <2>2, <2>3, <2>4, <2>8 DEF IsCall, Held, AnsweredRow
  <2> QED
    BY <2>2, <2>9, <2>10 DEF OnItsWay
<1>2. CASE Displaced \/ Note \/ Send \/ ClientEnds
  <2>1. line' = line /\ LineNo' = LineNo
    <3>1. line' = line
      BY <1>2 DEF Displaced, Note, Send, ClientEnds
    <3> QED
      BY <3>1, SameLines
  <2>2. UNCHANGED <<pendingCalls, answer>> /\ left'["main"] = left["main"] /\ at'["main"] = at["main"]
    BY <1>2, <1>b DEF Displaced, Note, Send, ClientEnds, StepTo
  <2>3. inbox' \cup Queued' \subseteq inbox \cup Queued
    BY <1>2, <1>b, <2>1 DEF Displaced, Note, Send, ClientEnds, StepTo, Queued, process
  <2> QED
    BY <1>e, <1>f, <2>1, <2>2, <2>3 DEF OnItsWay, IsCall, Held, AnsweredRow
<1>3. CASE ReadAnswer \/ Check \/ Write \/ RelayLine \/ AtEof
  <2>1. line' = line /\ LineNo' = LineNo /\ at'["up"] = at["up"] /\ Queued' = Queued
    <3>1. line' = line /\ at'["up"] = at["up"]
      BY <1>3, <1>b DEF ReadAnswer, Check, Write, RelayLine, AtEof, StepTo
    <3> QED
      BY <3>1, SameLines DEF Queued
  <2>2. UNCHANGED pendingCalls /\ inbox' \subseteq inbox
    BY <1>3, <1>c DEF ReadAnswer, Check, Write, RelayLine, AtEof, process
  <2>3. \A c \in (inbox \cup Queued)' : IsCall(c)' => Held(c)'
    BY <1>e, <2>1, <2>2 DEF IsCall, Held
  <2>4. at'["main"] \in AtAnswer /\ IsCall(answer.call)' =>
         /\ at'["main"] \in {"check", "pop"} => Held(answer.call)'
         /\ at'["main"] = "write" => left'["main"] = {<<answer.call, "answered">>}'
         /\ at'["main"] = "relay" => AnsweredRow(answer.call)'
    <3>1. CASE ReadAnswer
      BY <1>b, <1>e, <2>1, <3>1 DEF ReadAnswer, StepTo, IsCall, Held
    <3>2. CASE Check
      BY <1>b, <1>d, <1>e, <2>1, <3>2 DEF Check, StepTo, IsCall, Held, AtAnswer, Answered
    <3>3. CASE Write
      BY <1>b, <1>c, <1>e, <2>1, <3>3 DEF Write, StepTo, IsCall, AtAnswer, Answered, AnsweredRow, Flushed
    <3>4. CASE RelayLine \/ AtEof
      BY <1>b, <3>4 DEF RelayLine, AtEof, StepTo, AtAnswer
    <3> QED
      BY <1>3, <3>1, <3>2, <3>3, <3>4
  <2> QED
    BY <2>3, <2>4 DEF OnItsWay
<1>4. CASE Pop
  <2> DEFINE i == line[answer.call].id
  <2>1. line' = line /\ LineNo' = LineNo /\ Queued' = Queued
    <3>1. line' = line /\ at'["up"] = at["up"]
      BY <1>4, <1>b DEF Pop, StepTo
    <3> QED
      BY <3>1, SameLines DEF Queued
  <2>2. pendingCalls' = [pendingCalls EXCEPT ![i] = 0] /\ inbox' = inbox /\ answer' = answer
    BY <1>4 DEF Pop, process, Answered
  <2>3. answer.call \in Calls /\ answer.call \notin inbox \cup Queued /\ inbox \cup Queued \subseteq Calls /\ at["main"] = "pop"
    BY <1>4, <1>b DEF Pop, Queued, AtAnswer
  <2>4. ASSUME NEW c \in inbox \cup Queued, IsCall(c) PROVE pendingCalls'[line[c].id] = c
    <3>1. line[c].id # i /\ line[c].id \in Ids
      BY <1>0, <1>b, <2>3 DEF DistinctIds
    <3>2. Held(c)
      BY <1>e, <2>4
    <3> QED
      BY <1>b, <2>2, <3>1, <3>2 DEF Held
  <2>5. \A c \in (inbox \cup Queued)' : IsCall(c)' => Held(c)'
    BY <2>1, <2>2, <2>4 DEF IsCall, Held
  <2>6. at'["main"] \in AtAnswer /\ IsCall(answer.call)' =>
         /\ at'["main"] \in {"check", "pop"} => Held(answer.call)'
         /\ at'["main"] = "write" => left'["main"] = {<<answer.call, "answered">>}'
         /\ at'["main"] = "relay" => AnsweredRow(answer.call)'
    BY <1>4, <1>b, <1>e, <2>1, <2>2, <2>3 DEF Pop, StepTo, IsCall, Held, AtAnswer, Answered
  <2> QED
    BY <2>5, <2>6 DEF OnItsWay
<1>5. CASE UpWaited \/ ServerEnds \/ \E t \in Threads : WaitTimesOut(t)
  <2>1. line' = line /\ LineNo' = LineNo /\ Queued' \subseteq Queued
    <3>1. line' = line /\ (at'["up"] = at["up"] \/ at'["up"] = "done")
      BY <1>5, <1>b DEF UpWaited, ServerEnds, WaitTimesOut, StepTo
    <3> QED
      BY <3>1, SameLines DEF Queued
  <2>2. UNCHANGED <<pendingCalls, answer, left, rows, buf>> /\ inbox' \subseteq inbox /\ at'["main"] = at["main"]
    BY <1>5, <1>b DEF UpWaited, ServerEnds, WaitTimesOut, StepTo, process, log
  <2> QED
    BY <1>e, <2>1, <2>2 DEF OnItsWay, IsCall, Held, AnsweredRow
<1>6. CASE MainWaited
  BY <1>6, <1>d DEF MainWaited, Shape, ThreadShape
<1>7. ASSUME NEW t \in Threads, Abort(t) PROVE FALSE
  <2>1. at[t] \in UpCalm \cup MainLoop \cup {"eofclose", "wait", "done"}
    BY <1>b, <1>d
  <2>2. ~Close(t)
    BY DEF Close
  <2>3. ~BeginAbort(t) /\ ~CloseRow(t) /\ ~Fallback(t)
    BY <2>1 DEF BeginAbort, CloseRow, Fallback, UpCalm, MainLoop
  <2>4. ~CloseClient(t) /\ ~Terminate(t)
    BY <2>1 DEF CloseClient, Terminate, UpCalm, MainLoop
  <2> QED
    BY <1>7, <2>2, <2>3, <2>4 DEF Abort
<1> QED
  BY <1>1, <1>2, <1>3, <1>4, <1>5, <1>6, <1>7 DEF RelayNext, Up, Main

(* All but k of a finite set of numbers have k smaller ones in it. *)
LEMMA AllButFirst ==
  ASSUME NEW N, IsFiniteSet(N), N \subseteq Nat, NEW k \in Nat
  PROVE  LET G == {d \in N : Cardinality({e \in N : e < d}) >= k}
         IN  IsFiniteSet(G) /\ Cardinality(N) <= Cardinality(G) + k
<1> DEFINE under(d) == {e \in N : e < d}
           rank(d) == Cardinality(under(d))
           G == {d \in N : rank(d) >= k}
           L == N \ G
           f == [d \in L |-> rank(d) + 1]
<1>1. ASSUME NEW d \in N PROVE IsFiniteSet(under(d)) /\ rank(d) \in Nat
  <2>1. under(d) \in SUBSET N
    OBVIOUS
  <2>2. IsFiniteSet(under(d))
    BY <2>1, FS_Subset
  <2> HIDE DEF under
  <2> QED
    BY <2>2, FS_CardinalityType
<1>2. ASSUME NEW d \in N, NEW e \in N, d < e PROVE rank(d) # rank(e)
  <2>1. under(d) \in SUBSET under(e) /\ d \in under(e) /\ d \notin under(d)
    <3>1. d \in Nat /\ e \in Nat /\ \A x \in N : x \in Nat
      OBVIOUS
    <3>2. \A x \in Nat : x < d => x < e
      BY <1>2, <3>1
    <3>3. \A x \in N : x < d => x < e
      BY <3>1, <3>2
    <3>4. d \in {x \in N : x < e}
      BY <1>2
    <3>5. ~(d < d)
      BY <3>1
    <3> QED
      BY <3>3, <3>4, <3>5
  <2>2. IsFiniteSet(under(e))
    BY <1>1
  <2> HIDE DEF under
  <2>3. Cardinality(under(e)) = Cardinality(under(d)) => under(e) = under(d)
    BY <2>1, <2>2, FS_Subset
  <2> QED
    BY <2>1, <2>3
<1> HIDE DEF under, rank
<1>3. \A d, e \in N : rank(d) = rank(e) => d = e
  BY <1>2
<1>4. \A d \in L : rank(d) + 1 \in 1..k
  BY <1>1
<1>5. f \in Injection(L, 1..k)
  <2>1. f \in [L -> 1..k]
    BY <1>4
  <2>2. \A d, e \in L : f[d] = f[e] => d = e
    BY <1>1, <1>3
  <2> HIDE DEF f
  <2> QED
    BY <2>1, <2>2 DEF Injection, IsInjective
<1>6. IsFiniteSet(1..k) /\ Cardinality(1..k) = k
  BY UpTo
<1>7. IsFiniteSet(L) /\ Cardinality(L) <= k
  <2> HIDE DEF f, L
  <2> QED
    BY <1>5, <1>6, FS_Injection
<1>8. IsFiniteSet(G)
  <2>1. G \in SUBSET N
    OBVIOUS
  <2> HIDE DEF G
  <2> QED
    BY <2>1, FS_Subset
<1>9. N = G \cup L /\ G \cap L = {}
  OBVIOUS
<1> HIDE DEF G, L
<1>10. Cardinality(N) = Cardinality(G) + Cardinality(L)
  <2>1. Cardinality(G \cup L) = Cardinality(G) + Cardinality(L) - Cardinality(G \cap L)
    BY <1>7, <1>8, FS_Union
  <2>2. Cardinality(G \cap L) = 0
    BY <1>9, FS_EmptySet
  <2>3. Cardinality(G) \in Nat /\ Cardinality(L) \in Nat
    BY <1>7, <1>8, FS_CardinalityType
  <2> QED
    BY <1>9, <2>1, <2>2, <2>3
<1>11. Cardinality(G) \in Nat /\ Cardinality(L) \in Nat
  BY <1>7, <1>8, FS_CardinalityType
<1>12. IsFiniteSet(G) /\ Cardinality(N) <= Cardinality(G) + k
  BY <1>7, <1>8, <1>10, <1>11
<1> QED
  BY <1>12 DEF G, rank, under

(* Calls that each have a row of their own. *)
LEMMA RowEach ==
  ASSUME NEW S, NEW T, IsFiniteSet(T), \A c \in S : \E r \in T : r[1] = c
  PROVE  IsFiniteSet(S) /\ Cardinality(S) <= Cardinality(T)
<1> DEFINE f == [c \in S |-> CHOOSE r \in T : r[1] = c]
<1>1. \A c \in S : f[c] \in T /\ f[c][1] = c
  OBVIOUS
<1>2. f \in Injection(S, T)
  <2>1. f \in [S -> T]
    BY <1>1
  <2>2. \A c, d \in S : f[c] = f[d] => c = d
    BY <1>1
  <2> HIDE DEF f
  <2> QED
    BY <2>1, <2>2 DEF Injection, IsInjective
<1> HIDE DEF f
<1> QED
  BY <1>2, FS_Injection

(* There are finitely many rows. *)
LEMMA RowsFinite ==
  ASSUME NEW n \in Nat, NEW B \in SUBSET ((1..n) \X RowKinds)
  PROVE  IsFiniteSet(B)
<1>1. IsFiniteSet(1..n)
  BY UpTo
<1>2. IsFiniteSet(RowKinds)
  <2>1. IsFiniteSet({"answered", "unanswered", "dup", "refused"})
    <3>1. IsFiniteSet({}) /\ {} \cup {"answered"} = {"answered"}
      BY FS_EmptySet
    <3>2. IsFiniteSet({"answered"})
      BY <3>1, FS_AddElement
    <3>3. IsFiniteSet({"answered"} \cup {"unanswered"})
      BY <3>2, FS_AddElement
    <3>4. IsFiniteSet(({"answered"} \cup {"unanswered"}) \cup {"dup"})
      BY <3>3, FS_AddElement
    <3>5. IsFiniteSet((({"answered"} \cup {"unanswered"}) \cup {"dup"}) \cup {"refused"})
      BY <3>4, FS_AddElement
    <3>6. {"answered", "unanswered", "dup", "refused"} = (({"answered"} \cup {"unanswered"}) \cup {"dup"}) \cup {"refused"}
      OBVIOUS
    <3> QED
      BY <3>5, <3>6
  <2>2. RowKinds = {"answered", "unanswered", "dup", "refused"} \cup {"fallback"}
    BY DEF RowKinds
  <2> QED
    BY <2>1, <2>2, FS_AddElement
<1>3. IsFiniteSet((1..n) \X RowKinds)
  BY <1>1, <1>2, FS_Product
<1> QED
  BY <1>3, FS_Subset

LEMMA BookFinite ==
  ASSUME Shape
  PROVE  IsFiniteSet(Calls) /\ IsFiniteSet(rows \cup buf)
<1>1. LineNo \in Nat /\ Calls = 1..LineNo
  BY PendingApart DEF Shape
<1>2. rows \cup buf \in SUBSET ((1..LineNo) \X RowKinds)
  BY <1>1 DEF Shape, LogShape
<1> QED
  BY <1>1, <1>2, RowsFinite, UpTo

LEMMA BookFinitePrime ==
  ASSUME Shape'
  PROVE  IsFiniteSet(rows' \cup buf')
<1>1. LineNo' \in Nat /\ Calls' = 1..LineNo'
  BY DEF Shape, LogShape, Calls, LineNo
<1>2. rows' \cup buf' \in SUBSET ((1..LineNo') \X RowKinds)
  BY <1>1 DEF Shape, LogShape
<1> QED
  BY <1>1, <1>2, RowsFinite

ToolRows(S, t) == {r \in S : line[r[1]].tool = t}

(* What a close leaves behind after its failure is made up for: the noted  *)
(* calls of a tool, less one for each unanswered row of it, are rowed, and *)
(* the others have their answered row.                                     *)
LEMMA FallbackCounts ==
  ASSUME NEW B, IsFiniteSet(B), NEW fresh, fresh \subseteq B, NEW t, NEW P,
         \A r \in B : r[2] # "fallback",
         \A r \in fresh : r[2] = "unanswered",
         noted \in [Ids -> {0} \cup Calls], IsFiniteSet(Calls), Calls \subseteq Nat,
         \A c \in P : c \in Calls /\ line[c].tool = t /\ (c \in Range(noted) \ {0} \/ <<c, "answered">> \in B)
  PROVE  IsFiniteSet(ToolRows(B \cup FallbackRows(fresh), t)) => Cardinality(P) <= Cardinality(ToolRows(B \cup FallbackRows(fresh), t))
<1> DEFINE named == Range(noted) \ {0}
           N == {c \in named : line[c].tool = t}
           U == {r \in fresh : line[r[1]].tool = t}
           k == Cardinality(U)
           G == {d \in N : Cardinality({e \in N : e < d}) >= k}
           F == {<<c, "fallback">> : c \in G}
           A == {r \in B : r[2] = "answered" /\ line[r[1]].tool = t}
           R == {r \in B \cup FallbackRows(fresh) : line[r[1]].tool = t}
           keeps(d) == Cardinality({e \in named : e < d /\ line[e].tool = line[d].tool})
                         >= Cardinality({q \in fresh : line[q[1]].tool = line[d].tool})
<1>1. FallbackRows(fresh) = {<<c, "fallback">> : c \in {d \in named : keeps(d)}}
  BY DEF FallbackRows
<1>2. \A d \in N : {e \in named : e < d /\ line[e].tool = line[d].tool} = {e \in N : e < d}
                   /\ {q \in fresh : line[q[1]].tool = line[d].tool} = U
  OBVIOUS
<1>3. \A d \in G : d \in named /\ keeps(d) /\ line[d].tool = t
  BY <1>2
<1>4. F \subseteq R
  <2> HIDE DEF keeps, G, named
  <2> QED
    BY <1>1, <1>3
<1>5. named \in SUBSET Calls /\ N \in SUBSET Calls
  BY DEF Range
<1>6. IsFiniteSet(N) /\ N \subseteq Nat /\ IsFiniteSet(U) /\ k \in Nat /\ IsFiniteSet(A)
  <2>1. IsFiniteSet(N) /\ N \subseteq Nat
    <3> HIDE DEF N, named
    <3> QED
      BY <1>5, FS_Subset
  <2>2. U \in SUBSET B /\ A \in SUBSET B
    OBVIOUS
  <2>3. IsFiniteSet(U) /\ IsFiniteSet(A)
    <3> HIDE DEF U, A
    <3> QED
      BY <2>2, FS_Subset
  <2> HIDE DEF U, A, N
  <2> QED
    BY <2>1, <2>3, FS_CardinalityType
<1>7. IsFiniteSet(G) /\ Cardinality(N) <= Cardinality(G) + k
  <2> HIDE DEF N, U, named, k
  <2> QED
    BY <1>6, AllButFirst
<1>8. IsFiniteSet(F) /\ Cardinality(G) <= Cardinality(F)
  <2>1. \A c \in G : \E r \in F : r[1] = c
    <3> HIDE DEF G
    <3>1. \A c \in G : <<c, "fallback">> \in F /\ <<c, "fallback">>[1] = c
      OBVIOUS
    <3> HIDE DEF F
    <3> QED
      BY <3>1
  <2>2. IsFiniteSet(F)
    <3> DEFINE h == [c \in G |-> <<c, "fallback">>]
    <3> HIDE DEF G
    <3>1. h \in Surjection(G, F)
      BY DEF Surjection
    <3> HIDE DEF h, F
    <3> QED
      BY <1>7, <3>1, FS_Surjection
  <2> HIDE DEF G, F
  <2> QED
    BY <2>1, <2>2, RowEach
<1>9. A \cup U \cup F \subseteq R /\ A \cap U = {} /\ (A \cup U) \cap F = {}
  <2>1. A \subseteq R /\ U \subseteq R
    OBVIOUS
  <2>2. A \cap U = {}
    OBVIOUS
  <2>3. \A r \in F : r[2] = "fallback"
    <3> HIDE DEF G
    <3> QED
      OBVIOUS
  <2>4. \A r \in A \cup U : r \in B /\ r[2] # "fallback"
    OBVIOUS
  <2> HIDE DEF A, U, F, R
  <2> QED
    BY <1>4, <2>1, <2>2, <2>3, <2>4
<1>10. P \ N \subseteq {r[1] : r \in A} /\ \A c \in P \ N : \E r \in A : r[1] = c
  <2>1. ASSUME NEW c \in P \ N PROVE <<c, "answered">> \in A /\ <<c, "answered">>[1] = c
    OBVIOUS
  <2> HIDE DEF A, N
  <2> QED
    BY <2>1
<1> HIDE DEF A, U, F, R, G, N, named
<1>11. IsFiniteSet(P \ N) /\ Cardinality(P \ N) <= Cardinality(A)
  BY <1>6, <1>10, RowEach
<1>12. IsFiniteSet(P \cap N) /\ Cardinality(P \cap N) <= Cardinality(N)
  <2>1. P \cap N \in SUBSET N
    OBVIOUS
  <2> QED
    BY <1>6, <2>1, FS_Subset
<1>13. Cardinality(P) = Cardinality(P \ N) + Cardinality(P \cap N)
  <2>1. P = (P \ N) \cup (P \cap N) /\ (P \ N) \cap (P \cap N) = {}
    OBVIOUS
  <2>2. Cardinality((P \ N) \cup (P \cap N)) = Cardinality(P \ N) + Cardinality(P \cap N) - Cardinality((P \ N) \cap (P \cap N))
    BY <1>11, <1>12, FS_Union
  <2>3. Cardinality(P \ N) \in Nat /\ Cardinality(P \cap N) \in Nat
    BY <1>11, <1>12, FS_CardinalityType
  <2> QED
    <3>1. Cardinality((P \ N) \cap (P \cap N)) = 0
      BY <2>1, FS_EmptySet
    <3>2. Cardinality(P) = Cardinality((P \ N) \cup (P \cap N))
      BY <2>1
    <3> QED
      BY <2>2, <2>3, <3>1, <3>2
<1>14. IsFiniteSet(A \cup U) /\ Cardinality(A \cup U) = Cardinality(A) + Cardinality(U)
  <2>1. IsFiniteSet(A \cup U) /\ Cardinality(A \cup U) = Cardinality(A) + Cardinality(U) - Cardinality(A \cap U)
    BY <1>6, FS_Union
  <2>2. Cardinality(A) \in Nat /\ Cardinality(U) \in Nat /\ Cardinality(A \cap U) = 0
    BY <1>6, <1>9, FS_CardinalityType, FS_EmptySet
  <2> QED
    BY <2>1, <2>2
<1>15. IsFiniteSet(A \cup U \cup F) /\ Cardinality(A \cup U \cup F) = Cardinality(A) + Cardinality(U) + Cardinality(F)
  <2>1. IsFiniteSet((A \cup U) \cup F) /\ Cardinality((A \cup U) \cup F) = Cardinality(A \cup U) + Cardinality(F) - Cardinality((A \cup U) \cap F)
    BY <1>8, <1>14, FS_Union
  <2>2. Cardinality(A) \in Nat /\ Cardinality(U) \in Nat /\ Cardinality(F) \in Nat /\ Cardinality((A \cup U) \cap F) = 0
    BY <1>6, <1>8, <1>9, FS_CardinalityType, FS_EmptySet
  <2> QED
    BY <1>14, <2>1, <2>2
<1>16. /\ Cardinality(A) \in Nat /\ Cardinality(U) \in Nat /\ Cardinality(F) \in Nat /\ Cardinality(N) \in Nat /\ Cardinality(G) \in Nat
       /\ Cardinality(P \ N) \in Nat /\ Cardinality(P \cap N) \in Nat
  BY <1>6, <1>7, <1>8, <1>11, <1>12, FS_CardinalityType
<1>17. Cardinality(P) <= Cardinality(A \cup U \cup F)
  <2>1. k = Cardinality(U)
    OBVIOUS
  <2> HIDE DEF k
  <2> QED
    BY <1>7, <1>8, <1>11, <1>12, <1>13, <1>15, <1>16, <2>1
<1>18. ASSUME IsFiniteSet(R) PROVE Cardinality(P) <= Cardinality(R)
  <2>1. A \cup U \cup F \in SUBSET R
    BY <1>9
  <2>2. Cardinality(A \cup U \cup F) <= Cardinality(R)
    BY <1>18, <2>1, FS_Subset
  <2>3. Cardinality(A \cup U \cup F) \in Nat /\ Cardinality(R) \in Nat /\ Cardinality(P) \in Nat
    BY <1>13, <1>15, <1>16, <1>18, FS_CardinalityType
  <2> QED
    BY <1>17, <2>2, <2>3
<1> QED
  BY <1>18 DEF R, ToolRows

LEMMA ShapeStep ==
  ASSUME Shape, RelayNext
  PROVE  Shape'
BY ReadLineShape, OtherShape

(* A recorder once closed stays so, and nothing it might have had is sent. *)
LEMMA SealedStays ==
  ASSUME Shape, RelayNext, sealed
  PROVE  sealed' /\ (sent \ late)' = sent \ late
<1>1. sealed'
  BY DEF RelayNext, Up, Main, Abort, ReadLine, Displaced, ClientEnds, ReadAnswer, Check, Pop, Write, AtEof, Note, Send, RelayLine,
      UpWaited, MainWaited, ServerEnds, WaitTimesOut, BeginAbort, Close, CloseRow, Fallback, CloseClient, Terminate, ghosts
<1>2. CASE Send
  <2>1. LineNo \notin sent
    BY <1>2 DEF Send, Shape, ThreadShape
  <2> QED
    BY <1>1, <1>2, <2>1 DEF Send
<1>3. CASE Note \/ RelayLine
  BY <1>1, <1>3 DEF Note, RelayLine, ghosts
<1>4. CASE ~Note /\ ~Send /\ ~RelayLine
  BY <1>1, <1>4, NotesFrame
<1> QED
  BY <1>2, <1>3, <1>4

LEMMA CountedStays ==
  ASSUME Shape, RelayNext, sealed, Counted
  PROVE  Counted'
<1> SUFFICES ASSUME DistinctIds', NEW t \in Tools
             PROVE  Cardinality(RowsOf(OfTool(t))') >= Cardinality((Paired(sent \ late) \cap OfTool(t))')
  BY DEF Counted
<1>1. Cardinality(RowsOf(OfTool(t))) >= Cardinality(Paired(sent \ late) \cap OfTool(t))
  BY LinesStay DEF Counted
<1>2. sent \subseteq Calls /\ Calls \subseteq Calls' /\ (\A c \in Calls : line'[c] = line[c])
  BY LinesStay DEF Shape, LogShape
<1>3. (Paired(sent \ late) \cap OfTool(t))' = Paired(sent \ late) \cap OfTool(t)
  BY <1>2, SealedStays DEF Paired, OfTool
<1>4. RowsOf(OfTool(t)) \in SUBSET (RowsOf(OfTool(t))')
  BY <1>2, BookGrows DEF RowsOf, OfTool
<1>5. IsFiniteSet((rows \cup buf)')
  <2>1. Shape'
    BY ShapeStep
  <2> QED
    BY <2>1, BookFinitePrime
<1>6. IsFiniteSet(RowsOf(OfTool(t))')
  <2>1. RowsOf(OfTool(t))' \in SUBSET ((rows \cup buf)')
    BY DEF RowsOf
  <2> QED
    BY <1>5, <2>1, FS_Subset
<1>7. IsFiniteSet(RowsOf(OfTool(t))) /\ Cardinality(RowsOf(OfTool(t))) <= Cardinality(RowsOf(OfTool(t))')
  BY <1>4, <1>6, FS_Subset
<1>8. IsFiniteSet(Paired(sent \ late) \cap OfTool(t))
  <2>1. Paired(sent \ late) \cap OfTool(t) \in SUBSET Calls
    BY DEF OfTool
  <2> QED
    BY <2>1, BookFinite, FS_Subset
<1>9. Cardinality(RowsOf(OfTool(t))) \in Nat /\ Cardinality(RowsOf(OfTool(t))') \in Nat /\ Cardinality(Paired(sent \ late) \cap OfTool(t)) \in Nat
  BY <1>6, <1>7, <1>8, FS_CardinalityType
<1> QED
  BY <1>1, <1>3, <1>7, <1>9

(* The fallback makes up for what main's close has lost. *)
LEMMA FallbackMakesUp ==
  ASSUME Shape, AbortInv, FailedInv, NotedInv, RelayNext, Fallback("main"), OneFailure'
  PROVE  Counted' /\ at'["main"] = "closeclient" /\ sealed'
<1> DEFINE B == rows \cup buf
           fresh == {r \in B : r[2] \in {"unanswered", "fallback"}} \ before["main"]
<1>0. at["main"] = "fallback" /\ OneFailure /\ sealed /\ line' = line /\ Calls' = Calls /\ UNCHANGED <<sent, late>>
  BY FailuresStay, SameLines DEF Fallback, AbortInv, ghosts
<1>1. /\ faults < MaxFaults /\ before["main"] = {} /\ \A r \in B : r[2] # "fallback"
  BY <1>0 DEF FailedInv, Losing
<1>2. faults' = faults
  BY <1>0, <1>1, FailuresStay DEF Unfailed
<1>3. Flushed(FallbackRows(fresh)) /\ StepTo("main", "closeclient")
  BY <1>2, FailuresStay DEF Fallback
<1>4. at'["main"] = "closeclient"
  BY <1>3 DEF StepTo, Shape, ThreadShape, Threads
<1>5. \A r \in fresh : r[2] = "unanswered"
  BY <1>1
<1>6. fresh \subseteq B
  OBVIOUS
<1>7. rows' \cup buf' = B \cup FallbackRows(fresh)
  BY <1>3 DEF Flushed
<1>8. IsFiniteSet(B) /\ IsFiniteSet(Calls) /\ Calls \subseteq Nat /\ noted \in [Ids -> {0} \cup Calls] /\ sent \subseteq Calls /\ 0 \notin Calls
      /\ \A c \in Calls : line[c].id \in Ids
  BY BookFinite, PendingApart DEF Shape, LogShape
<1>9. Shape'
  BY ShapeStep
<1>10. IsFiniteSet(rows' \cup buf') /\ rows' \cup buf' \subseteq Calls \X RowKinds
  BY <1>0, <1>9, BookFinitePrime DEF Shape, LogShape
<1> HIDE DEF fresh
<1>11. ASSUME DistinctIds', NEW t \in Tools
       PROVE  Cardinality(RowsOf(OfTool(t))') >= Cardinality((Paired(sent \ late) \cap OfTool(t))')
  <2> DEFINE P == Paired(sent \ late) \cap OfTool(t)
             R == ToolRows(B \cup FallbackRows(fresh), t)
  <2>1. DistinctIds
    BY <1>11, LinesStay
  <2>2. \A c \in P : c \in Calls /\ line[c].tool = t /\ (c \in Range(noted) \ {0} \/ <<c, "answered">> \in B)
    <3>1. ASSUME NEW c \in P PROVE c \in Calls /\ line[c].tool = t /\ (noted[line[c].id] = c \/ <<c, "answered">> \in B)
      BY <1>0, <1>8, <2>1 DEF NotedInv, NotedLost, Losing, Paired, OfTool, IsCall, AnsweredRow
    <3>2. ASSUME NEW c \in P, noted[line[c].id] = c PROVE c \in Range(noted) \ {0}
      BY <1>8, <3>1, <3>2 DEF Range
    <3> HIDE DEF P
    <3> QED
      BY <3>1, <3>2
  <2>3. RowsOf(OfTool(t))' = R
    BY <1>0, <1>7, <1>10 DEF RowsOf, OfTool, ToolRows
  <2>4. P' = P
    BY <1>0 DEF Paired, OfTool
  <2>5. IsFiniteSet(R)
    <3>1. R \in SUBSET (rows' \cup buf')
      BY <1>7 DEF ToolRows
    <3> HIDE DEF R
    <3> QED
      BY <1>10, <3>1, FS_Subset
  <2>6. Cardinality(P) <= Cardinality(R)
    <3> HIDE DEF P, B
    <3> QED
      BY <1>1, <1>5, <1>6, <1>8, <2>2, <2>5, FallbackCounts
  <2>7. IsFiniteSet(P)
    <3>1. P \in SUBSET Calls
      BY DEF OfTool
    <3> HIDE DEF P
    <3> QED
      BY <1>8, <3>1, FS_Subset
  <2>8. Cardinality(P) \in Nat /\ Cardinality(R) \in Nat
    <3> HIDE DEF P, R
    <3> QED
      BY <2>5, <2>7, FS_CardinalityType
  <2>9. Cardinality(R) >= Cardinality(P)
    <3> HIDE DEF P, R
    <3> QED
      BY <2>6, <2>8
  <2> QED
    BY <2>3, <2>4, <2>9
<1>12. Counted'
  BY <1>11 DEF Counted
<1>13. sealed'
  BY <1>0, SealedStays
<1> QED
  BY <1>4, <1>12, <1>13

(* Main loses rows only once, and makes up for them. *)
LEMMA LostStays ==
  ASSUME Shape, AbortInv, FailedInv, NotedInv, RelayNext, OneFailure', Lost
  PROVE  Lost'
<1>0. at \in [Threads -> UpPlaces \cup MainPlaces] /\ Threads = {"up", "main"}
  BY DEF Shape, ThreadShape, Threads
<1>1. faults < MaxFaults /\ faults' < MaxFaults /\ OneFailure
  BY FailuresStay DEF Lost, Unfailed
<1>2. sealed /\ sealed'
  <2>1. sealed
    BY DEF Lost, AbortInv, Losing
  <2> QED
    BY <2>1, SealedStays
<1>3. Counted => Counted'
  BY <1>2, CountedStays
<1>4. at'["main"] = at["main"] \/ BeginAbort("main") \/ Fallback("main") \/ CloseClient("main") \/ Terminate("main") \/ MainWaited
  <2>1. at["main"] \in {"abortnoclose", "fallback", "closeclient", "terminate", "wait", "done"}
    BY DEF Lost, Losing
  <2>2. CASE ReadLine
    BY <1>0, <2>2 DEF ReadLine, AbRequest, BenchRequest, StepTo
  <2>3. CASE Displaced \/ Note \/ Send \/ ClientEnds
    BY <1>0, <2>3 DEF Displaced, Note, Send, ClientEnds, StepTo
  <2>4. CASE Main
    BY <2>1, <2>4 DEF Main, ReadAnswer, Check, Pop, Write, RelayLine, AtEof
  <2>5. CASE UpWaited \/ ServerEnds \/ \E t \in Threads : WaitTimesOut(t)
    BY <1>0, <2>5 DEF UpWaited, ServerEnds, WaitTimesOut, StepTo
  <2>6. ASSUME Abort("up") PROVE at'["main"] = at["main"]
    BY <1>0, <2>6 DEF Abort, BeginAbort, Close, CloseRow, Fallback, CloseClient, Terminate, StepTo
  <2>7. ASSUME Abort("main") PROVE BeginAbort("main") \/ Fallback("main") \/ CloseClient("main") \/ Terminate("main")
    BY <2>1, <2>7 DEF Abort, Close, CloseRow
  <2> QED
    BY <1>0, <2>2, <2>3, <2>4, <2>5, <2>6, <2>7 DEF RelayNext, Up
<1>5. CASE at'["main"] = at["main"]
  BY <1>1, <1>2, <1>3, <1>5 DEF Lost
<1>6. CASE BeginAbort("main")
  <2>1. at["main"] = "abortnoclose" /\ ~aborted
    BY <1>1, <1>6 DEF BeginAbort, Lost, Losing, FailedInv
  <2>2. at'["main"] = "fallback"
    BY <1>0, <1>6, <2>1 DEF BeginAbort, StepTo
  <2> QED
    BY <1>1, <2>2 DEF Lost, Losing
<1>7. CASE Fallback("main")
  <2>1. Counted' /\ at'["main"] = "closeclient" /\ sealed'
    BY <1>7, FallbackMakesUp
  <2> QED
    BY <1>1, <2>1 DEF Lost
<1>8. CASE CloseClient("main") \/ Terminate("main") \/ MainWaited
  <2>1. Counted /\ at'["main"] \in {"terminate", "wait", "done"}
    BY <1>0, <1>8 DEF CloseClient, Terminate, MainWaited, StepTo, Lost, Losing
  <2> QED
    BY <1>1, <1>2, <1>3, <2>1 DEF Lost
<1> QED
  BY <1>4, <1>5, <1>6, <1>7, <1>8

LEMMA LoggedStays ==
  ASSUME RelayNext, NEW c, Logged(c)
  PROVE  Logged(c)'
BY BookGrows DEF Logged

(* Where a pending call may go. *)
LEMMA HeldGoes ==
  ASSUME Shape, RelayNext, NEW c \in Calls, Held(c)
  PROVE  Held(c)' \/ Logged(c)' \/ c \in LeftOf("up")' \/ c \in LeftOf("main")'
<1>0. /\ pendingCalls \in [Ids -> {0} \cup Calls] /\ line[c].id \in Ids /\ 0 \notin Calls /\ line'[c] = line[c]
      /\ left \in [Threads -> SUBSET (Calls \X RowKinds)] /\ Threads = {"up", "main"}
      /\ at \in [Threads -> UpPlaces \cup MainPlaces]
  BY PendingApart, LinesStay DEF Shape, LogShape, ThreadShape, Threads
<1>1. CASE pendingCalls' = pendingCalls
  BY <1>0, <1>1 DEF Held
<1>2. CASE ReadLine
  <2>1. PICK m \in Lines :
           /\ OneLineMore(m)
           /\ \/ pendingCalls' = pendingCalls
              \/ /\ pendingCalls' = [pendingCalls EXCEPT ![m.id] = LineNo + 1]
                 /\ pendingCalls[m.id] # 0 => \/ <<pendingCalls[m.id], "dup">> \in left'["up"]
                                             \/ <<pendingCalls[m.id], "dup">> \in rows' \cup buf'
    BY <1>2, ReadLinePending
  <2>2. CASE line[c].id = m.id /\ pendingCalls' # pendingCalls
    <3>1. pendingCalls[m.id] = c /\ c # 0
      BY <1>0, <2>2 DEF Held
    <3>2. <<c, "dup">> \in left'["up"] \/ <<c, "dup">> \in rows' \cup buf'
      BY <2>1, <2>2, <3>1
    <3>3. <<c, "dup">>[1] = c
      OBVIOUS
    <3> QED
      BY <3>2, <3>3 DEF LeftOf, Logged
  <2>3. CASE line[c].id # m.id
    BY <1>0, <2>1, <2>3 DEF Held
  <2> QED
    BY <1>1, <2>2, <2>3
<1>3. CASE Pop
  <2>1. pendingCalls' = [pendingCalls EXCEPT ![line[answer.call].id] = 0]
        /\ left'["main"] = IF pendingCalls[line[answer.call].id] = 0 THEN {} ELSE {<<pendingCalls[line[answer.call].id], "answered">>}
    BY <1>0, <1>3 DEF Pop, Answered
  <2>2. CASE line[c].id = line[answer.call].id
    <3>1. left'["main"] = {<<c, "answered">>}
      BY <1>0, <2>1, <2>2 DEF Held
    <3> QED
      BY <3>1 DEF LeftOf
  <2>3. CASE line[c].id # line[answer.call].id
    BY <1>0, <2>1, <2>3 DEF Held
  <2> QED
    BY <2>2, <2>3
<1>4. CASE Write
  BY <1>0, <1>4 DEF Write, Held
<1>5. ASSUME NEW t \in Threads, Close(t) PROVE c \in LeftOf(t)'
  <2>1. c \in Range(pendingCalls) \ {0}
    BY <1>0 DEF Held, Range
  <2>2. <<c, "unanswered">> \in left'[t]
    BY <1>0, <1>5, <2>1 DEF Close
  <2> QED
    BY <2>2 DEF LeftOf
<1>6. ReadLine \/ Pop \/ Write \/ (\E t \in Threads : Close(t)) \/ pendingCalls' = pendingCalls
  BY DEF RelayNext, Up, Main, Abort, Displaced, ClientEnds, ReadAnswer, Check, AtEof, Note, Send, RelayLine,
      UpWaited, MainWaited, ServerEnds, WaitTimesOut, BeginAbort, CloseRow, Fallback, CloseClient, Terminate
<1> QED
  BY <1>0, <1>1, <1>2, <1>3, <1>4, <1>5, <1>6

(* Where a row that a thread has left may go. *)
LEMMA LeftGoes ==
  ASSUME Shape, CalmInv, RelayNext, OneFailure', ~cutOff, NEW t \in Threads, NEW c \in LeftOf(t)
  PROVE  c \in LeftOf(t)' \/ Logged(c)' \/ (t = "main" /\ Lost')
<1>0. /\ left \in [Threads -> SUBSET (Calls \X RowKinds)] /\ Threads = {"up", "main"}
      /\ at \in [Threads -> UpPlaces \cup MainPlaces]
  BY DEF Shape, ThreadShape, Threads
<1>1. PICK r \in left[t] : r[1] = c
  BY DEF LeftOf
<1>2. at["up"] \notin {"displaced", "rows"} => left["up"] = {}
  BY DEF Shape, ThreadShape
<1>3. at["main"] \notin {"write", "rows", "eofrows"} => left["main"] = {}
  BY DEF Shape, ThreadShape
<1>4. CASE left'[t] = left[t]
  BY <1>1, <1>4 DEF LeftOf
<1>5. CASE r \in rows' \cup buf'
  BY <1>1, <1>5 DEF Logged
<1>6. CASE ReadLine
  <2>1. at["up"] = "read" /\ left'["main"] = left["main"]
    BY <1>0, <1>6 DEF ReadLine, AbRequest, BenchRequest
  <2> QED
    BY <1>0, <1>1, <1>2, <1>4, <2>1
<1>7. CASE Displaced
  BY <1>0, <1>4, <1>5, <1>7 DEF Displaced, Flushed, FlushFails
<1>8. CASE Pop
  BY <1>0, <1>1, <1>3, <1>4, <1>8 DEF Pop
<1>9. CASE Write
  BY <1>0, <1>4, <1>5, <1>9 DEF Write, Flushed, FlushFails
<1>10. ASSUME NEW o \in Threads, Close(o) PROVE left'[t] = left[t]
  BY <1>0, <1>1, <1>2, <1>3, <1>10 DEF Close
<1>11. ASSUME NEW o \in Threads, CloseRow(o) PROVE left'[t] = left[t] \/ c \in LeftOf(t)' \/ r \in rows' \cup buf' \/ (t = "main" /\ Lost')
  <2>1. CASE o # t \/ left' = left
    BY <1>0, <1>11, <2>1 DEF CloseRow
  <2>2. CASE o = t /\ \E q \in left[t] : Flushed({q}) /\ left' = [left EXCEPT ![t] = @ \ {q}]
    BY <1>0, <1>1, <2>2 DEF Flushed, LeftOf
  <2>3. CASE o = t /\ \E q \in left[t] : FlushFails({q}) /\ StepTo(t, IF at[t] = "rows" THEN "fallback" ELSE "abortnoclose")
    <3>1. faults' = faults - 1 /\ faults' # faults
      BY <2>3, FailuresStay DEF FlushFails
    <3>2. Unfailed /\ faults' < MaxFaults
      BY <3>1, FailuresStay DEF Unfailed
    <3>3. at["up"] \in UpCalm /\ at["main"] \in MainCalm
      BY <3>2 DEF CalmInv
    <3>4. at[t] = "eofrows" /\ t = "main"
      BY <1>0, <1>11, <2>3, <3>3 DEF CloseRow, UpCalm, MainCalm, MainLoop
    <3>5. at'["main"] = "abortnoclose"
      BY <1>0, <2>3, <3>4 DEF StepTo
    <3> QED
      BY <3>2, <3>4, <3>5 DEF Lost, Losing
  <2> QED
    BY <1>11, <2>1, <2>2, <2>3 DEF CloseRow
<1>12. ReadLine \/ Displaced \/ Pop \/ Write \/ (\E o \in Threads : Close(o) \/ CloseRow(o)) \/ left' = left
  BY DEF RelayNext, Up, Main, Abort, ClientEnds, ReadAnswer, Check, AtEof, Note, Send, RelayLine,
      UpWaited, MainWaited, ServerEnds, WaitTimesOut, BeginAbort, Fallback, CloseClient, Terminate
<1> QED
  BY <1>4, <1>5, <1>6, <1>7, <1>8, <1>9, <1>10, <1>11, <1>12

(* Only a line just read is new on its way, and it is pending. *)
LEMMA OnlyNewQueued ==
  ASSUME Shape, RelayNext, NEW c \in (sent \cup Queued)', IsCall(c)'
  PROVE  (c \in sent \cup Queued /\ c \in Calls /\ IsCall(c)) \/ Held(c)'
<1>0. at \in [Threads -> UpPlaces \cup MainPlaces] /\ Threads = {"up", "main"} /\ sent \subseteq Calls
      /\ (at["up"] \in {"displaced", "note", "raised", "send"} => LineNo \in Calls \ sent)
      /\ pendingCalls \in [Ids -> {0} \cup Calls]
  BY DEF Shape, LogShape, ThreadShape, Threads
<1>1. CASE ReadLine
  <2>1. PICK m \in Lines :
           /\ OneLineMore(m)
           /\ \/ pendingCalls' = pendingCalls /\ (m.shape = "call" => at'["up"] \in {"read", "raised"})
              \/ pendingCalls' = [pendingCalls EXCEPT ![m.id] = LineNo + 1]
    BY <1>1, ReadLinePending
  <2>2. sent' = sent
    BY <1>1 DEF ReadLine, ghosts
  <2>3. CASE c \in sent
    BY <1>0, <2>1, <2>3 DEF OneLineMore, IsCall
  <2>4. CASE c \notin sent
    <3>1. c = LineNo' /\ at'["up"] \in {"displaced", "note", "send"} /\ line'[c] = m /\ m.id \in Ids /\ LineNo' = LineNo + 1
      BY <2>1, <2>2, <2>4 DEF Queued, OneLineMore
    <3>2. pendingCalls' = [pendingCalls EXCEPT ![m.id] = LineNo + 1]
      BY <2>1, <3>1 DEF IsCall
    <3> QED
      BY <1>0, <3>1, <3>2 DEF Held
  <2> QED
    BY <2>3, <2>4
<1>2. CASE ~ReadLine
  <2>1. line' = line /\ LineNo' = LineNo
    BY <1>2, LinesStay
  <2>2. at' = at \/ (\E l : at' = [at EXCEPT !["main"] = l]) \/ at' = [t \in Threads |-> "done"] \/ Displaced \/ Note \/ Send \/ ClientEnds \/ UpWaited \/ Abort("up")
    <3>1. CASE Main \/ MainWaited \/ ServerEnds \/ \E t \in Threads : WaitTimesOut(t)
      BY <3>1 DEF Main, ReadAnswer, Check, Pop, Write, RelayLine, AtEof, MainWaited, ServerEnds, WaitTimesOut, StepTo
    <3>2. CASE Abort("main")
      <4>1. CASE BeginAbort("main")
        BY <4>1 DEF BeginAbort, StepTo
      <4>2. CASE Close("main")
        BY <4>2 DEF Close, StepTo
      <4>3. CASE CloseRow("main")
        BY <4>3 DEF CloseRow, StepTo
      <4>4. CASE Fallback("main") \/ CloseClient("main") \/ Terminate("main")
        BY <4>4 DEF Fallback, CloseClient, Terminate, StepTo
      <4> QED
        BY <3>2, <4>1, <4>2, <4>3, <4>4 DEF Abort
    <3> QED
      BY <1>0, <1>2, <3>1, <3>2 DEF RelayNext, Up
  <2>3. at'["up"] \in {"displaced", "note", "send"} => at["up"] \in {"displaced", "note", "send"}
    <3>1. CASE at' = at \/ (\E l : at' = [at EXCEPT !["main"] = l]) \/ at' = [t \in Threads |-> "done"]
      BY <1>0, <3>1
    <3>2. CASE Displaced \/ Note \/ Send \/ ClientEnds \/ UpWaited
      BY <1>0, <3>2 DEF Displaced, Note, Send, ClientEnds, UpWaited, StepTo
    <3>3. CASE Abort("up")
      BY <1>0, <3>3 DEF Abort, BeginAbort, Close, CloseRow, Fallback, CloseClient, Terminate, StepTo
    <3> QED
      BY <2>2, <3>1, <3>2, <3>3
  <2>4. Queued' \subseteq Queued
    BY <2>1, <2>3 DEF Queued
  <2>5. sent' \subseteq sent \cup Queued
    <3>1. CASE Send
      BY <3>1 DEF Send, Queued
    <3>2. CASE RelayLine \/ Note
      BY <3>2 DEF RelayLine, Note, ghosts
    <3>3. CASE ~Send /\ ~RelayLine /\ ~Note
      BY <3>3, NotesFrame
    <3> QED
      BY <3>1, <3>2, <3>3
  <2>6. Queued \subseteq Calls
    BY <1>0 DEF Queued
  <2> QED
    BY <1>0, <2>1, <2>4, <2>5, <2>6 DEF IsCall
<1> QED
  BY <1>1, <1>2

LEMMA AllKeptStep ==
  ASSUME Shape, AbortInv, CalmInv, FailedInv, NotedInv, RelayNext, OneFailure', ~cutOff, AllKept
  PROVE  AllKept'
<1> SUFFICES ASSUME NEW c \in (sent \cup Queued)', IsCall(c)' PROVE Kept(c)'
  BY DEF AllKept
<1>1. CASE Held(c)'
  BY <1>1 DEF Kept
<1>2. CASE c \in sent \cup Queued /\ c \in Calls /\ IsCall(c)
  <2>1. Kept(c)
    BY <1>2 DEF AllKept
  <2>2. CASE Logged(c)
    BY <2>2, LoggedStays DEF Kept
  <2>3. CASE Held(c)
    BY <1>2, <2>3, HeldGoes DEF Kept
  <2>4. CASE c \in LeftOf("up") \/ c \in LeftOf("main")
    BY <2>4, LeftGoes DEF Kept, Threads
  <2>5. CASE Lost
    BY <2>5, LostStays DEF Kept
  <2> QED
    BY <2>1, <2>2, <2>3, <2>4, <2>5 DEF Kept
<1> QED
  BY <1>1, <1>2, OnlyNewQueued

(* What is pending anew: the line just read, or a call whose row failed. *)
LEMMA HeldAnew ==
  ASSUME Shape, RelayNext, NEW c \in Calls, Held(c)', ~Held(c)
  PROVE  Write /\ <<c, "answered">> \in rows' \cup buf' /\ at'["main"] = "abort"
<1>0. /\ pendingCalls \in [Ids -> {0} \cup Calls] /\ line[c].id \in Ids /\ 0 \notin Calls /\ line'[c] = line[c]
      /\ at \in [Threads -> UpPlaces \cup MainPlaces] /\ Threads = {"up", "main"} /\ c # 0
  BY PendingApart, LinesStay DEF Shape, LogShape, ThreadShape, Threads
<1>1. pendingCalls' # pendingCalls
  BY <1>0 DEF Held
<1>2. ~ReadLine
  <2> SUFFICES ASSUME ReadLine PROVE FALSE
    OBVIOUS
  <2>1. PICK m \in Lines : OneLineMore(m) /\ pendingCalls' = [pendingCalls EXCEPT ![m.id] = LineNo + 1]
    BY <1>1, ReadLinePending
  <2>2. LineNo + 1 \notin Calls
    BY <2>1 DEF OneLineMore
  <2> QED
    BY <1>0, <2>1, <2>2 DEF Held
<1>3. ~Pop
  BY <1>0 DEF Pop, Held
<1>4. ASSUME NEW t \in Threads PROVE ~Close(t)
  BY <1>0 DEF Close, Held, NoKeys
<1>5. Write
  BY <1>1, <1>2, <1>3, <1>4 DEF RelayNext, Up, Main, Abort, Displaced, ClientEnds, ReadAnswer, Check, AtEof, Note, Send, RelayLine,
      UpWaited, MainWaited, ServerEnds, WaitTimesOut, BeginAbort, CloseRow, Fallback, CloseClient, Terminate
<1>6. PICK d \in Calls : left["main"] = {<<d, "answered">>}
  BY <1>5 DEF Write, Shape, ThreadShape
<1>7. (CHOOSE x \in Calls : <<x, "answered">> \in left["main"]) = d
  BY <1>6, TakenBack
<1>8. /\ FlushFails(left["main"]) /\ StepTo("main", "abort")
      /\ pendingCalls' = [pendingCalls EXCEPT ![Answered.id] = IF @ = 0 THEN d ELSE @]
  BY <1>1, <1>5, <1>7 DEF Write
<1>9. d = c
  BY <1>0, <1>8 DEF Held
<1> QED
  BY <1>0, <1>5, <1>6, <1>8, <1>9 DEF FlushFails, StepTo

LEMMA TakenBackStep ==
  ASSUME Shape, RelayNext, TakenBackLogged
  PROVE  TakenBackLogged'
<1> SUFFICES ASSUME sealed', NEW c \in (sent \ late)', IsCall(c)', Held(c)' PROVE Logged(c)'
  BY DEF TakenBackLogged
<1>0. pendingCalls \in [Ids -> {0} \cup Calls] /\ sent \subseteq Calls /\ 0 \notin Calls /\ \A x \in Calls : line[x].id \in Ids
  BY PendingApart DEF Shape, LogShape
<1>1. CASE sealed
  <2>1. c \in sent \ late /\ c \in Calls /\ IsCall(c)
    BY <1>0, <1>1, SealedStays, LinesStay DEF IsCall
  <2>2. CASE Held(c)
    BY <1>1, <2>1, <2>2, LoggedStays DEF TakenBackLogged
  <2>3. CASE ~Held(c)
    <3>1. <<c, "answered">> \in rows' \cup buf' /\ <<c, "answered">>[1] = c
      BY <2>1, <2>3, HeldAnew
    <3> QED
      BY <3>1 DEF Logged
  <2> QED
    BY <2>2, <2>3
<1>2. CASE ~sealed
  <2>1. PICK t \in Threads : Close(t)
    BY <1>2 DEF RelayNext, Up, Main, Abort, ReadLine, Displaced, ClientEnds, ReadAnswer, Check, Pop, Write, AtEof, Note, Send, RelayLine,
      UpWaited, MainWaited, ServerEnds, WaitTimesOut, BeginAbort, CloseRow, Fallback, CloseClient, Terminate, ghosts
  <2>2. pendingCalls' = NoKeys /\ line' = line /\ sent' = sent /\ late' = late
    BY <2>1 DEF Close
  <2>3. c \in Calls /\ line[c].id \in Ids /\ c # 0
    BY <1>0, <2>2
  <2> QED
    BY <2>2, <2>3 DEF Held, NoKeys
<1> QED
  BY <1>1, <1>2

LEMMA RelayedStep ==
  ASSUME Shape, CalmInv, RelayNext, OneFailure', ~cutOff, AllKept, RelayedLogged, PoppedFree
  PROVE  RelayedLogged'
<1> SUFFICES ASSUME NEW c \in relayed', IsCall(c)' PROVE Logged(c)' \/ c \in LeftOf("up")'
  BY DEF RelayedLogged
<1>0. sent \subseteq Calls /\ relayed \subseteq sent /\ (at["main"] \in AtAnswer => answer.call \in sent)
  BY DEF Shape, LogShape, ThreadShape
<1>1. relayed' \subseteq relayed \cup (IF RelayLine THEN {answer.call} ELSE {})
  BY DEF RelayNext, Up, Main, Abort, ReadLine, Displaced, ClientEnds, ReadAnswer, Check, Pop, Write, AtEof, Note, Send, RelayLine,
      UpWaited, MainWaited, ServerEnds, WaitTimesOut, BeginAbort, Close, CloseRow, Fallback, CloseClient, Terminate, ghosts
<1>2. RelayLine => at["main"] = "relay"
  BY DEF RelayLine
<1>3. c \in Calls /\ IsCall(c)
  BY <1>0, <1>1, <1>2, LinesStay DEF IsCall, AtAnswer
<1>4. Logged(c) \/ c \in LeftOf("up")
  <2>1. CASE c \in relayed
    BY <1>3, <2>1 DEF RelayedLogged
  <2>2. CASE at["main"] = "relay" /\ c = answer.call
    <3>1. ~Held(c) /\ Kept(c)
      BY <1>0, <1>3, <2>2 DEF PoppedFree, AllKept, AtAnswer
    <3>2. ~Lost /\ c \notin LeftOf("main")
      BY <2>2 DEF Lost, Losing, LeftOf, Shape, ThreadShape
    <3> QED
      BY <3>1, <3>2 DEF Kept
  <2> QED
    BY <1>1, <1>2, <2>1, <2>2
<1> QED
  BY <1>4, LoggedStays, LeftGoes DEF Threads

LEMMA PoppedStep ==
  ASSUME Shape, RelayNext, PoppedFree
  PROVE  PoppedFree'
<1> SUFFICES ASSUME at'["main"] \in {"write", "relay"}, IsCall(answer.call)', Held(answer.call)' PROVE FALSE
  BY DEF PoppedFree
<1>0. /\ at \in [Threads -> UpPlaces \cup MainPlaces] /\ Threads = {"up", "main"} /\ sent \subseteq Calls
      /\ (at["main"] \in AtAnswer => answer.call \in sent) /\ pendingCalls \in [Ids -> {0} \cup Calls] /\ 0 \notin Calls
      /\ \A x \in Calls : line[x].id \in Ids
  BY PendingApart DEF Shape, LogShape, ThreadShape, Threads
<1>1. (at["main"] = at'["main"] /\ answer' = answer) \/ Check \/ Pop \/ Write
  <2>1. CASE ReadLine
    BY <1>0, <2>1 DEF ReadLine, AbRequest, BenchRequest, StepTo
  <2>2. CASE Displaced \/ Note \/ Send \/ ClientEnds
    BY <1>0, <2>2 DEF Displaced, Note, Send, ClientEnds, StepTo
  <2>3. CASE ReadAnswer \/ RelayLine \/ AtEof \/ MainWaited
    BY <1>0, <2>3 DEF ReadAnswer, RelayLine, AtEof, MainWaited, StepTo
  <2>4. CASE UpWaited \/ ServerEnds \/ \E t \in Threads : WaitTimesOut(t)
    BY <1>0, <2>4 DEF UpWaited, ServerEnds, WaitTimesOut, StepTo
  <2>5. CASE Abort("up")
    BY <1>0, <2>5 DEF Abort, BeginAbort, Close, CloseRow, Fallback, CloseClient, Terminate, StepTo
  <2>6. CASE Abort("main")
    BY <1>0, <2>6 DEF Abort, BeginAbort, Close, CloseRow, Fallback, CloseClient, Terminate, StepTo
  <2> QED
    BY <1>0, <2>1, <2>2, <2>3, <2>4, <2>5, <2>6 DEF RelayNext, Up, Main
<1>2. answer' = answer /\ answer.call \in Calls /\ (at["main"] = at'["main"] \/ Check \/ Pop \/ Write)
  <2>1. at["main"] \in AtAnswer
    BY <1>1 DEF AtAnswer, Check, Pop, Write
  <2> QED
    BY <1>0, <1>1, <2>1 DEF Check, Pop, Write
<1>3. IsCall(answer.call)
  BY <1>2, LinesStay DEF IsCall
<1>4. ~Write
  <2>1. Write => (at'["main"] = "relay" /\ UNCHANGED <<pendingCalls, line>> /\ at["main"] = "write") \/ at'["main"] = "abort"
    BY <1>0 DEF Write, StepTo
  <2> QED
    BY <1>2, <1>3, <2>1 DEF PoppedFree, Held
<1>5. ~Check
  <2>1. ASSUME Check, pendingCalls[Answered.id] = 0 PROVE FALSE
    BY <1>0, <1>2, <2>1 DEF Check, Answered, Held
  <2>2. ASSUME Check, pendingCalls[Answered.id] # 0 PROVE FALSE
    BY <1>0, <1>2, <1>3, <2>2 DEF Check, Answered, IsCall, StepTo
  <2> QED
    BY <2>1, <2>2
<1>6. ~Pop
  BY <1>0, <1>2 DEF Pop, Held, Answered
<1>7. at["main"] = at'["main"] /\ ~Held(answer.call)
  BY <1>2, <1>3, <1>4, <1>5, <1>6 DEF PoppedFree
<1> QED
  BY <1>2, <1>4, <1>7, HeldAnew

LEMMA KeptStep ==
  ASSUME Shape, AbortInv, CalmInv, FailedInv, NotedInv, KeptInv, RelayNext
  PROVE  KeptInv'
<1> SUFFICES ASSUME OneFailure', ~cutOff' PROVE AllKept' /\ TakenBackLogged' /\ RelayedLogged' /\ PoppedFree'
  BY DEF KeptInv
<1>1. ~cutOff
  <2>1. MainWaited => at["main"] = "wait"
    BY DEF MainWaited
  <2>2. ~MainWaited => cutOff' = cutOff
    BY DEF RelayNext, Up, Main, Abort, ReadLine, Displaced, ClientEnds, ReadAnswer, Check, Pop, Write, AtEof, Note, Send, RelayLine,
      UpWaited, ServerEnds, WaitTimesOut, BeginAbort, Close, CloseRow, Fallback, CloseClient, Terminate, ghosts
  <2> QED
    BY <2>1, <2>2 DEF Shape, ThreadShape
<1>2. OneFailure
  BY FailuresStay
<1>3. AllKept /\ TakenBackLogged /\ RelayedLogged /\ PoppedFree
  BY <1>1, <1>2 DEF KeptInv
<1> QED
  BY <1>1, <1>3, AllKeptStep, TakenBackStep, RelayedStep, PoppedStep

LEMMA RelayInvInit == RelayInit => RelayInv
<1> SUFFICES ASSUME RelayInit PROVE RelayInv
  OBVIOUS
<1>1. Shape
  BY InitShape
<1>2. AbortInv /\ CalmInv /\ FailedInv
  BY DEF RelayInit, AbortInv, CalmInv, FailedInv, Threads, UpCalm, MainCalm, MainLoop, Losing, NoAnswer
<1>3. KeptInv
  BY DEF RelayInit, KeptInv, AllKept, TakenBackLogged, RelayedLogged, PoppedFree, Queued, Threads
<1>4. NotedInv
  BY DEF RelayInit, NotedInv, NotedAll, NotedLost, OnItsWay, Queued, Sending, Threads, AtAnswer, Losing
<1>5. OnceInv
  BY DEF RelayInit, OnceInv, Once, NoKeys, Threads
<1> QED
  BY <1>1, <1>2, <1>3, <1>4, <1>5 DEF RelayInv, Shape

LEMMA RelayInvNext == RelayInv /\ [RelayNext]_relayVars => RelayInv'
<1> SUFFICES ASSUME RelayInv, [RelayNext]_relayVars PROVE RelayInv'
  OBVIOUS
<1>1. CASE RelayNext
  <2>0. Shape /\ AbortInv /\ CalmInv /\ FailedInv /\ KeptInv /\ NotedInv /\ OnceInv
    BY DEF RelayInv, Shape
  <2>1. NotedInv'
    <3>1. DistinctIds' => DistinctIds
      BY <1>1, <2>0, LinesStay
    <3> QED
      BY <1>1, <2>0, <3>1, NotedAllStep, NotedLostStep, OnItsWayStep DEF NotedInv
  <2>2. Shape' /\ AbortInv' /\ CalmInv' /\ FailedInv' /\ KeptInv' /\ OnceInv'
    BY <1>1, <2>0, ShapeStep, AbortStep, CalmStep, FailedStep, KeptStep, OnceStep
  <2> QED
    BY <2>1, <2>2 DEF RelayInv, Shape
<1>2. CASE UNCHANGED relayVars
  <2>0. UNCHANGED <<rec, line, at, answer, left, before, pendingCalls, forwarded, noted, aborted, rows, buf, faults, client,
               server, signal, inbox, stdin, sent, late, sealed, relayed, cutOff>>
    BY <1>2 DEF relayVars, log, process, ghosts
  <2>1. ThreadShape' /\ LogShape'
    BY <2>0 DEF RelayInv, ThreadShape, LogShape, Calls, LineNo, IsCall
  <2>2. AbortInv' /\ CalmInv' /\ FailedInv'
    BY <2>0 DEF RelayInv, AbortInv, CalmInv, FailedInv, Unfailed, OneFailure
  <2>3. KeptInv'
    BY <2>0 DEF RelayInv, KeptInv, AllKept, TakenBackLogged, RelayedLogged, PoppedFree, Queued, OneFailure, IsCall, Kept, Logged, Held, LeftOf,
      Lost, Counted, DistinctIds, RowsOf, OfTool, Paired, Calls, LineNo
  <2>4. NotedInv'
    BY <2>0 DEF RelayInv, NotedInv, NotedAll, NotedLost, OnItsWay, Queued, Sending, Unfailed, OneFailure, IsCall, Held, AnsweredRow, DistinctIds, Calls, LineNo
  <2>5. OnceInv'
    BY <2>0 DEF RelayInv, OnceInv, Unfailed
  <2> QED
    BY <2>1, <2>2, <2>3, <2>4, <2>5 DEF RelayInv
<1> QED
  BY <1>1, <1>2

LEMMA RelayInvHonest == RelayInv => LogHonest
<1> SUFFICES ASSUME RelayInv PROVE LogHonest
  OBVIOUS
<1>0. Shape /\ AbortInv /\ KeptInv /\ OnceInv
  BY DEF RelayInv, Shape
<1>1. AnswerIsLogged
  <2> SUFFICES ASSUME ~UpWrites, ~cutOff, OneFailure, NEW c \in Paired(relayed \ late) PROVE RowsOf({c}) # {}
    BY DEF AnswerIsLogged
  <2>1. Logged(c) \/ c \in LeftOf("up")
    BY <1>0 DEF KeptInv, RelayedLogged, Paired, IsCall
  <2>2. c \notin LeftOf("up")
    BY <1>0 DEF Shape, ThreadShape, LeftOf, UpWrites
  <2> QED
    BY <2>1, <2>2 DEF Logged, RowsOf
<1>2. ASSUME faults = MaxFaults, NEW c \in Calls PROVE Cardinality(RowsOf({c})) <= 1
  <2>1. \A r, s \in RowsOf({c}) : r = s
    BY <1>0, <1>2 DEF OnceInv, Once, Unfailed, RowsOf
  <2>2. CASE RowsOf({c}) = {}
    BY <2>2, FS_EmptySet
  <2>3. CASE RowsOf({c}) # {}
    <3>1. PICK r : r \in RowsOf({c})
      BY <2>3
    <3>2. RowsOf({c}) = {r}
      BY <2>1, <3>1
    <3> QED
      <4>1. Cardinality({r}) = 1
        BY FS_Singleton
      <4> QED
        BY <3>2, <4>1
  <2> QED
    BY <2>2, <2>3
<1>3. ASSUME at["main"] = "done", ~cutOff, OneFailure, faults = MaxFaults \/ DistinctIds, NEW t \in Tools
      PROVE  Cardinality(RowsOf(OfTool(t))) >= Cardinality(Paired(sent \ late) \cap OfTool(t))
  <2>1. sealed /\ at["up"] = "done"
    BY <1>0, <1>3 DEF AbortInv
  <2>2. LeftOf("up") = {} /\ LeftOf("main") = {}
    BY <1>0, <1>3, <2>1 DEF Shape, ThreadShape, LeftOf
  <2>3. CASE Lost
    BY <1>3, <2>3, RelayAssumption DEF Lost, Counted, Losing
  <2>4. CASE ~Lost
    <3> DEFINE P == Paired(sent \ late) \cap OfTool(t)
               R == RowsOf(OfTool(t))
    <3>1. ASSUME NEW c \in P PROVE c \in OfTool(t) /\ Logged(c)
      <4>1. c \in sent \ late /\ IsCall(c) /\ c \in OfTool(t)
        BY DEF Paired, IsCall
      <4>2. Kept(c)
        BY <1>0, <1>3, <4>1 DEF KeptInv, AllKept
      <4> QED
        BY <1>0, <1>3, <2>1, <2>2, <2>4, <4>1, <4>2 DEF Kept, KeptInv, TakenBackLogged
    <3>2. \A c \in P : \E r \in R : r[1] = c
      BY <3>1 DEF Logged, RowsOf
    <3>3. IsFiniteSet(R)
      <4>1. R \in SUBSET (rows \cup buf)
        BY DEF RowsOf
      <4> HIDE DEF R
      <4> QED
        BY <1>0, <4>1, BookFinite, FS_Subset
    <3> HIDE DEF P, R
    <3>4. IsFiniteSet(P) /\ Cardinality(P) <= Cardinality(R)
      BY <3>2, <3>3, RowEach
    <3>5. Cardinality(P) \in Nat /\ Cardinality(R) \in Nat
      BY <3>3, <3>4, FS_CardinalityType
    <3>6. Cardinality(R) >= Cardinality(P)
      BY <3>4, <3>5
    <3> QED
      BY <3>6 DEF P, R
  <2> QED
    BY <2>3, <2>4
<1>4. EveryCallLogged
  BY <1>2, <1>3 DEF EveryCallLogged
<1> QED
  BY <1>1, <1>4 DEF LogHonest

(* The relay's call log (relay.py and both proxies) accounts for the       *)
(* session, for any lines, ids, tools and recorder: with at most one       *)
(* failure of the disk or the server each tool has a row for every call    *)
(* that reached the server before the recorder was closed, every answer    *)
(* that the client has seen has its row, and without a failure no call has *)
(* two.                                                                    *)
THEOREM LogIsHonest == RelaySpec => []LogHonest
<1>1. RelayInit => RelayInv
  BY RelayInvInit
<1>2. RelayInv /\ [RelayNext]_relayVars => RelayInv'
  BY RelayInvNext
<1>3. RelayInv => LogHonest
  BY RelayInvHonest
<1> QED
  BY <1>1, <1>2, <1>3, PTL DEF RelaySpec

(* What the types need beyond the invariant: the lines are few and proper. *)
RelayWorld ==
  /\ rec \in Recorders /\ LineNo <= MaxLines /\ \A c \in Calls : line[c] \in Lines
  /\ server \in {"up", "eof", "dead"} /\ signal \in {"none", "term", "kill"}

LEMMA WorldStep ==
  ASSUME RelayInv, RelayWorld, [RelayNext]_relayVars
  PROVE  RelayWorld'
<1>0. Shape /\ MaxLines \in Nat
  BY RelayAssumption DEF RelayInv, Shape
<1>1. CASE ReadLine
  <2>1. PICK m \in Lines : line' = [c \in 1..(LineNo + 1) |-> IF c <= LineNo THEN line[c] ELSE m]
    BY <1>1 DEF ReadLine
  <2>2. OneLineMore(m)
    BY <1>0, <2>1, ReadLineAdds DEF Shape
  <2>3. LineNo < MaxLines /\ UNCHANGED <<rec, server, signal>>
    BY <1>1 DEF ReadLine, process
  <2>4. LineNo' <= MaxLines
    BY <1>0, <2>2, <2>3 DEF OneLineMore, Shape, LogShape
  <2> QED
    BY <2>2, <2>3, <2>4 DEF RelayWorld, OneLineMore
<1>2. CASE RelayNext /\ ~ReadLine
  <2>1. line' = line /\ LineNo' = LineNo /\ Calls' = Calls
    BY <1>0, <1>2, LinesStay
  <2>2. rec' = rec /\ server' \in {"up", "eof", "dead"} /\ signal' \in {"none", "term", "kill"}
    BY <1>2 DEF RelayWorld, RelayNext, Up, Main, Abort, Displaced, ClientEnds, ReadAnswer, Check, Pop, Write, AtEof, Note, Send, RelayLine,
      UpWaited, MainWaited, ServerEnds, WaitTimesOut, BeginAbort, Close, CloseRow, Fallback, CloseClient, Terminate, process
  <2> QED
    BY <2>1, <2>2 DEF RelayWorld
<1>3. CASE UNCHANGED relayVars
  <2>1. UNCHANGED <<rec, line, server, signal>>
    BY <1>3 DEF relayVars, process
  <2> QED
    BY <2>1, SameLines DEF RelayWorld
<1> QED
  BY <1>1, <1>2, <1>3

(* The relay's state (relay.py, both proxies) is of its types: what is     *)
(* pending or noted is a line the client has sent, and so is what is on    *)
(* its way to the server or in the log.                                    *)
THEOREM RelayTypes == RelaySpec => []RelayTypeOK
<1>1. RelayInit => RelayWorld
  <2> SUFFICES ASSUME RelayInit PROVE RelayWorld
    OBVIOUS
  <2>1. DOMAIN line = {} /\ MaxLines \in Nat
    BY RelayAssumption DEF RelayInit
  <2>2. LineNo = 0
    BY <2>1, FS_EmptySet DEF LineNo
  <2>3. Calls = {}
    BY <2>2 DEF Calls, LineNo
  <2> QED
    BY <2>1, <2>2, <2>3 DEF RelayInit, RelayWorld
<1>2. RelayInv /\ RelayWorld /\ [RelayNext]_relayVars => RelayWorld'
  BY WorldStep
<1>3. RelayInv /\ RelayWorld => RelayTypeOK
  <2> SUFFICES ASSUME RelayInv, RelayWorld PROVE RelayTypeOK
    OBVIOUS
  <2>1. Shape /\ MaxLines \in Nat
    BY RelayAssumption DEF RelayInv, Shape
  <2>2. Calls \subseteq 0..MaxLines
    BY <2>1, PendingApart DEF RelayWorld, Shape
  <2>3. pendingCalls \in [Ids -> {0} \cup Calls] /\ noted \in [Ids -> {0} \cup Calls] /\ {0} \cup Calls \subseteq 0..MaxLines
    BY <2>1, <2>2 DEF Shape, LogShape
  <2>4. pendingCalls \in [Ids -> 0..MaxLines] /\ noted \in [Ids -> 0..MaxLines]
    BY <2>3
  <2> QED
    BY <2>1, <2>4 DEF RelayTypeOK, RelayWorld, Shape, LogShape, RowKinds
<1> QED
  BY <1>1, <1>2, <1>3, RelayInvInit, RelayInvNext, PTL DEF RelaySpec
================================================================================
