---------------------------- MODULE RegexPool_proofs ----------------------------
(***************************************************************************)
(* Proofs about RegexPool for every pool size, queue bound, number of      *)
(* requests and number of processes.                                       *)
(***************************************************************************)
EXTENDS RegexPool, FiniteSetTheorems, SequenceTheorems, TLAPS

Queued == {r \in Requests : pc[r] = "queued"}

(* Admission: the semaphore, its queue and the counter agree with where    *)
(* the requests are suspended.                                             *)
AdmissionInv ==
  /\ permits + Cardinality(Holders) = Size
  /\ permits > 0 => queue = <<>>
  /\ Cardinality(Queued) = Len(queue)
  /\ waiting = Cardinality(Waiters)
  /\ waiting <= QueueBound
  /\ \A i \in 1..Len(queue) : pc[queue[i]] = "queued"
  /\ \A i, j \in 1..Len(queue) : queue[i] = queue[j] => i = j

(* The server's own task: nothing is served before the pool is warm, and   *)
(* `closed` follows it.                                                    *)
MainInv ==
  /\ closed <=> main \in {"closing", "closed"}
  /\ main \in {"warming", "failed"} => \A r \in Requests : pc[r] = "idle"
  /\ main # "warming" => warmSlot = NoSlot
  /\ closed => idle = <<>>
  /\ main # "closing" => closing = <<>>

(* Ownership: what a request, the idle list, the closing list and `warm`   *)
(* own is disjoint, and is exactly what exists.                            *)
OwnerInv ==
  /\ NoSharedWorker
  /\ \A r \in Requests : slot[r] # NoSlot <=> pc[r] \in HasSlot
  /\ warmSlot # NoSlot => warmSlot \notin Elems(idle)
  /\ alive => \A r \in Requests : slot[r] # NoSlot => worker[slot[r]] # "none"
  /\ alive => \A s \in Elems(idle) \cup Elems(closing) : worker[s] # "none"
  /\ alive /\ warmSlot # NoSlot => worker[warmSlot] # "none"
  /\ NoLeakedWorker

(* What is parked or being warmed and what requests own, the spawn under   *)
(* way included, fit into the pool together.                               *)
CountInv ==
  /\ Len(idle) + Cardinality(Owners) + (IF warmSlot = NoSlot THEN 0 ELSE 1) <= Size
  /\ Len(closing) <= Size

IInv == TypeOK /\ AdmissionInv /\ MainInv /\ OwnerInv /\ CountInv

--------------------------------------------------------------------------------
(* Sequences: dropping one element, appending one, popping the last.       *)

(* Removing one request from a sequence of distinct requests leaves a       *)
(* sequence of the others, still distinct: what the semaphore's waiter list *)
(* is when a cancelled find leaves it.                                      *)
LEMMA DropElement ==
  ASSUME NEW S, NEW q \in Seq(S), NEW k \in 1..Len(q), NEW t,
         t = SubSeq(q, 1, k - 1) \o SubSeq(q, k + 1, Len(q))
  PROVE  /\ t \in Seq(S)
         /\ Len(t) = Len(q) - 1
         /\ \A i \in 1..Len(t) : t[i] = IF i < k THEN q[i] ELSE q[i + 1]
<1> DEFINE a == SubSeq(q, 1, k - 1)
           b == SubSeq(q, k + 1, Len(q))
<1>1. Len(q) \in Nat /\ k \in 1..Len(q) /\ \A i \in 1..Len(q) : q[i] \in S
  BY LenProperties, ElementOfSeq
<1>2. /\ a \in Seq(S)
      /\ Len(a) = k - 1
      /\ \A i \in 1..(k - 1) : a[i] = q[i]
  BY <1>1, SubSeqProperties
<1>3. /\ b \in Seq(S)
      /\ Len(b) = Len(q) - k
      /\ \A i \in 1..(Len(q) - k) : b[i] = q[k + i]
  BY <1>1, SubSeqProperties
<1>t. t = a \o b
  OBVIOUS
<1> HIDE DEF a, b
<1>4. /\ t \in Seq(S)
      /\ Len(t) = Len(a) + Len(b)
      /\ \A i \in 1..(Len(a) + Len(b)) : t[i] = IF i <= Len(a) THEN a[i] ELSE b[i - Len(a)]
  <2>1. /\ a \o b \in Seq(S)
        /\ Len(a \o b) = Len(a) + Len(b)
        /\ \A i \in 1..(Len(a) + Len(b)) :
             (a \o b)[i] = IF i <= Len(a) THEN a[i] ELSE b[i - Len(a)]
    BY <1>2, <1>3, ConcatProperties
  <2> QED
    BY <1>t, <2>1, Zenon
<1>5. Len(t) = Len(q) - 1
  <2>1. Len(t) = Len(a) + Len(b)
    BY <1>4
  <2>2. Len(a) = k - 1 /\ Len(b) = Len(q) - k
    BY <1>2, <1>3
  <2>3. (k - 1) + (Len(q) - k) = Len(q) - 1
    BY <1>1
  <2> QED
    BY <2>1, <2>2, <2>3, Zenon
<1>n. Len(q) \in Nat /\ k \in 1..Len(q) /\ Len(a) = k - 1 /\ Len(b) = Len(q) - k
  BY <1>1, <1>2, <1>3, Zenon
<1>6. ASSUME NEW i \in 1..(Len(q) - 1) PROVE t[i] = IF i < k THEN q[i] ELSE q[i + 1]
  <2>1. CASE i < k
    <3>1. i \in 1..(k - 1) /\ i \in 1..(Len(a) + Len(b)) /\ i <= Len(a)
      BY <1>n, <2>1
    <3> QED
      BY <1>2, <1>4, <2>1, <3>1, Zenon
  <2>2. CASE ~(i < k)
    <3>1. /\ i - Len(a) \in 1..(Len(q) - k) /\ i \in 1..(Len(a) + Len(b)) /\ ~(i <= Len(a))
          /\ k + (i - Len(a)) = i + 1
      BY <1>n, <2>2
    <3>2. t[i] = b[i - Len(a)]
      BY <1>4, <3>1, Zenon
    <3>3. b[i - Len(a)] = q[k + (i - Len(a))]
      BY <1>3, <3>1, Zenon
    <3> QED
      BY <2>2, <3>1, <3>2, <3>3, Zenon
  <2> QED
    BY <2>1, <2>2
<1> QED
  BY <1>4, <1>5, <1>6

(* Popping the idle list yields a worker that was parked and a list of the  *)
(* rest.                                                                    *)
LEMMA PopLast ==
  ASSUME NEW S, NEW q \in Seq(S), q # <<>>, NEW t, t = SubSeq(q, 1, Len(q) - 1)
  PROVE  /\ t \in Seq(S)
         /\ Len(t) = Len(q) - 1
         /\ Len(q) \in Nat \ {0}
         /\ q[Len(q)] \in S
         /\ \A i \in 1..Len(t) : t[i] = q[i]
<1>1. Len(q) \in Nat \ {0}
  BY EmptySeq
<1>2. \A i \in 1..Len(q) : q[i] \in S
  BY ElementOfSeq
<1> DEFINE n == Len(q) - 1
<1>3. n \in Nat /\ \A i \in 1..n : q[i] \in S
  BY <1>1, <1>2
<1>4. t = SubSeq(q, 1, n)
  OBVIOUS
<1> HIDE DEF n
<1>5. /\ SubSeq(q, 1, n) \in Seq(S)
      /\ Len(SubSeq(q, 1, n)) = n
      /\ \A i \in 1..n : SubSeq(q, 1, n)[i] = q[i]
  BY <1>3, SubSeqProperties
<1>6. t \in Seq(S) /\ Len(t) = n /\ \A i \in 1..n : t[i] = q[i]
  BY <1>4, <1>5, Zenon
<1> QED
  BY <1>1, <1>2, <1>6 DEF n

--------------------------------------------------------------------------------
(* Type correctness. *)

(* A release of the semaphore keeps its value, its waiters and the grants   *)
(* in their types.                                                          *)
LEMMA ReleaseType ==
  ASSUME TypeOK, NEW r \in Requests, Release(r)
  PROVE  permits' \in Nat /\ queue' \in Seq(Requests) /\ pc' \in [Requests -> PCs]
<1>1. "done" \in PCs /\ "granted" \in PCs
  BY DEF PCs, Admitting
<1>2. CASE queue = <<>> /\ permits' = permits + 1 /\ pc' = [pc EXCEPT ![r] = "done"] /\ queue' = queue
  BY <1>1, <1>2 DEF TypeOK
<1>3. CASE /\ queue # <<>>
           /\ pc' = [pc EXCEPT ![r] = "done", ![Head(queue)] = "granted"]
           /\ queue' = Tail(queue)
           /\ permits' = permits
  <2>1. queue' \in Seq(Requests)
    BY <1>3, HeadTailProperties DEF TypeOK
  <2>2. pc' \in [Requests -> PCs]
    BY <1>1, <1>3 DEF TypeOK
  <2> QED
    BY <1>3, <2>1, <2>2 DEF TypeOK
<1> QED
  BY <1>2, <1>3 DEF Release

(* A kill keeps the workers' states in their type.                          *)
LEMMA KillType ==
  ASSUME TypeOK, NEW r \in Requests, NEW out \in Outcomes, Kill(r, out)
  PROVE  /\ pc' \in [Requests -> PCs]
         /\ outcome' \in [Requests -> Outcomes]
         /\ worker' \in [Slots -> WorkerStates]
<1>1. "killing" \in PCs /\ "dead" \in WorkerStates
  BY DEF PCs, Owning, WorkerStates
<1> QED
  BY <1>1 DEF TypeOK, Kill

(* Every step keeps the state in its types.                                 *)
LEMMA TypeStep ==
  ASSUME TypeOK, waiting = Cardinality(Waiters), [Next]_vars,
         \A r \in Requests : slot[r] # NoSlot <=> pc[r] \in HasSlot
  PROVE  TypeOK'
<1>0. \A r \in Requests : pc[r] \in Admitting => waiting > 0
  <2> SUFFICES ASSUME NEW r \in Requests, pc[r] \in Admitting PROVE waiting > 0
    OBVIOUS
  <2>1. IsFiniteSet(Waiters)
    BY RequestsAssumption, FS_Subset DEF Waiters
  <2>2. Waiters # {}
    BY DEF Waiters
  <2> QED
    BY <2>1, <2>2, FS_EmptySet, FS_CardinalityType
<1>a. CASE UNCHANGED vars
  BY <1>a DEF TypeOK, vars, server, admission, request
<1>b. ASSUME NEW r \in Requests, RequestStep(r) PROVE TypeOK'
  <2>1. CASE Find(r)
    <3>1. Append(queue, r) \in Seq(Requests)
      BY AppendProperties DEF TypeOK
    <3>2. {"done", "yield", "queued"} \subseteq PCs
      BY DEF PCs, Admitting
    <3>3. {"not_started", "saturated", "timeout", "cancelled"} \subseteq Outcomes
      BY DEF Outcomes
    <3>4. CASE (\E out \in Outcomes : Refuse(r, out)) /\ UNCHANGED admission
      BY <2>1, <3>2, <3>4 DEF Find, Refuse, TypeOK, server, admission
    <3>5. CASE /\ waiting' = waiting + 1 /\ permits > 0 /\ permits' = permits - 1
               /\ pc' = [pc EXCEPT ![r] = "yield"] /\ UNCHANGED <<queue, outcome>>
      BY <2>1, <3>2, <3>5 DEF Find, TypeOK, server
    <3>6. CASE /\ waiting' = waiting + 1 /\ queue' = Append(queue, r)
               /\ pc' = [pc EXCEPT ![r] = "queued"] /\ UNCHANGED <<permits, outcome>>
      BY <2>1, <3>1, <3>2, <3>6 DEF Find, TypeOK, server
    <3> QED
      BY <2>1, <3>3, <3>4, <3>5, <3>6 DEF Find
  <2>2. CASE LeaveQueue(r)
    <3>1. queue' \in Seq(Requests)
      <4>1. queue \in Seq(Requests) /\ DOMAIN queue = 1..Len(queue)
        BY LenProperties DEF TypeOK
      <4>2. PICK i \in DOMAIN queue :
              queue' = SubSeq(queue, 1, i - 1) \o SubSeq(queue, i + 1, Len(queue))
        BY <2>2 DEF LeaveQueue
      <4> QED
        BY <4>1, <4>2, DropElement
    <3>2. waiting' \in Nat
      <4>1. waiting' = waiting - 1 /\ pc[r] \in Admitting
        BY <2>2 DEF LeaveQueue, Admitting
      <4> QED
        BY <1>0, <4>1 DEF TypeOK
    <3>3. pc' \in [Requests -> PCs] /\ outcome' \in [Requests -> Outcomes]
      BY <2>2 DEF LeaveQueue, Refuse, TypeOK, PCs, Outcomes
    <3> QED
      BY <2>2, <3>1, <3>2, <3>3 DEF LeaveQueue, TypeOK, server
  <2>3. CASE ReturnGrant(r)
    <3>1. waiting' \in Nat
      BY <2>3, <1>0 DEF ReturnGrant, TypeOK, Admitting
    <3> QED
      BY <2>3, <3>1, ReleaseType DEF ReturnGrant, Finish, TypeOK, server, Outcomes
  <2>4. CASE Admit(r)
    <3>1. waiting' \in Nat
      BY <2>4, <1>0 DEF Admit, TypeOK, Admitting
    <3>2. CASE expired[r]
      BY <2>4, <3>1, <3>2, ReleaseType DEF Admit, Finish, TypeOK, server, Outcomes
    <3>3. CASE ~expired[r] /\ idle # <<>>
      <4>1. idle' \in Seq(Slots) /\ slot' \in [Requests -> Slots \cup {NoSlot}]
        <5>1. /\ idle \in Seq(Slots)
              /\ idle' = SubSeq(idle, 1, Len(idle) - 1)
              /\ slot' = [slot EXCEPT ![r] = idle[Len(idle)]]
          BY <2>4, <3>3 DEF Admit, TypeOK
        <5>2. idle' \in Seq(Slots) /\ idle[Len(idle)] \in Slots
          BY <3>3, <5>1, PopLast
        <5> QED
          BY <5>1, <5>2 DEF TypeOK
      <4> QED
        BY <2>4, <3>1, <3>3, <4>1 DEF Admit, TypeOK, server, PCs, Admitting, Owning, Outcomes
    <3>4. CASE ~expired[r] /\ idle = <<>>
      BY <2>4, <3>1, <3>4 DEF Admit, TypeOK, server, PCs, Admitting, Owning, Outcomes
    <3> QED
      BY <3>2, <3>3, <3>4
  <2>5. CASE Spawn(r)
    BY <2>5 DEF Spawn, TypeOK, server, admission, PCs, Owning, WorkerStates
  <2>6. CASE SpawnFails(r)
    BY <2>6, ReleaseType DEF SpawnFails, Finish, TypeOK, server, Outcomes
  <2>7. CASE Start(r)
    <3>1. {"timeout", "cancelled", "not_started", "no_result", "retry"} \subseteq Outcomes
      BY DEF Outcomes
    <3>2. CASE \E out \in Outcomes : Kill(r, out)
      BY <2>7, <3>2, KillType DEF Start, TypeOK, server, admission
    <3>3. CASE pc' = [pc EXCEPT ![r] = "running"] /\ UNCHANGED <<outcome, worker>>
      BY <2>7, <3>3 DEF Start, TypeOK, server, admission, PCs, Owning
    <3> QED
      BY <2>7, <3>1, <3>2, <3>3 DEF Start
  <2>8. CASE RunReturns(r)
    <3>1. slot[r] \in Slots
      BY <2>8 DEF RunReturns, TypeOK, HasSlot
    <3>2. Append(idle, slot[r]) \in Seq(Slots)
      BY <3>1, AppendProperties DEF TypeOK
    <3> QED
      BY <2>8, <3>1, <3>2, ReleaseType
      DEF RunReturns, Kill, Finish, TypeOK, server, PCs, Owning, Outcomes, WorkerStates
  <2>9. CASE RunFails(r)
    <3>1. {"timeout", "cancelled", "not_started", "no_result", "retry"} \subseteq Outcomes
      BY DEF Outcomes
    <3>2. CASE \E out \in Outcomes : Kill(r, out)
      BY <2>9, <3>2, KillType DEF RunFails, TypeOK, server, admission
    <3> QED
      BY <2>9, <3>1, <3>2 DEF RunFails
  <2>10. CASE Reap(r)
    BY <2>10, ReleaseType DEF Reap, Finish, TypeOK, server, PCs, Owning, Outcomes, WorkerStates
  <2> QED
    BY <1>b, <2>1, <2>2, <2>3, <2>4, <2>5, <2>6, <2>7, <2>8, <2>9, <2>10 DEF RequestStep
<1>c. CASE MainStep
  <2>1. CASE WarmSpawn
    BY <2>1 DEF WarmSpawn, TypeOK, admission, request, WorkerStates
  <2>2. CASE WarmStart
    <3>1. warmSlot \in Slots
      BY <2>2 DEF WarmStart, TypeOK
    <3>2. Append(idle, warmSlot) \in Seq(Slots)
      BY <3>1, AppendProperties DEF TypeOK
    <3> QED
      BY <2>2, <3>1, <3>2 DEF WarmStart, TypeOK, admission, request, WorkerStates
  <2>3. CASE WarmDone
    BY <2>3 DEF WarmDone, TypeOK, admission, request
  <2>4. CASE Close
    BY <2>4, EmptySeq DEF Close, TypeOK, admission, request
  <2>5. CASE CloseKill
    <3>1. closing # <<>> => Tail(closing) \in Seq(Slots)
      BY HeadTailProperties DEF TypeOK
    <3>2. worker' \in [Slots -> WorkerStates] /\ closing' \in Seq(Slots)
      BY <2>5, <3>1 DEF CloseKill, TypeOK, WorkerStates
    <3> QED
      BY <2>5, <3>2 DEF CloseKill, TypeOK, admission, request
  <2> QED
    BY <1>c, <2>1, <2>2, <2>3, <2>4, <2>5 DEF MainStep
<1>d. CASE WorkerStep
  <2>1. ASSUME NEW s \in Slots, WorkerReady(s) \/ WorkerReplies(s) \/ WorkerDies(s) \/ OrphanExits(s)
        PROVE  TypeOK'
    BY <2>1 DEF WorkerReady, WorkerReplies, WorkerDies, OrphanExits, Exit, TypeOK, server, admission,
                request, WorkerStates
  <2>2. ASSUME NEW r \in Requests, WorkerTakesJob(r) PROVE TypeOK'
    <3>1. runs' \in [Requests -> Nat]
      BY <2>2 DEF WorkerTakesJob, TypeOK
    <3>2. worker' \in [Slots -> WorkerStates]
      BY <2>2 DEF WorkerTakesJob, TypeOK, WorkerStates
    <3> QED
      BY <2>2, <3>1, <3>2 DEF WorkerTakesJob, TypeOK, server, admission, request
  <2>3. ASSUME NEW r \in Requests, WorkerAlarm(r) PROVE TypeOK'
    BY <2>3 DEF WorkerAlarm, Exit, TypeOK, server, admission, request, WorkerStates
  <2> QED
    BY <1>d, <2>1, <2>2, <2>3 DEF WorkerStep
<1>e. CASE Environment
  BY <1>e DEF Environment, Expire, Cancel, ServerDies, TypeOK, server, admission, request
<1> QED
  BY <1>a, <1>b, <1>c, <1>d, <1>e DEF Next
--------------------------------------------------------------------------------
(* Counting requests by where they are suspended. *)

Count(f, V) == Cardinality({q \in Requests : f[q] \in V})

In(v, V) == IF v \in V THEN 1 ELSE 0

Holding == {"yield", "granted"} \cup Owning

(* How a count over the requests changes when one request's await changes.  *)
LEMMA CountUpdate ==
  ASSUME NEW f, NEW g, NEW r \in Requests, \A q \in Requests : q # r => g[q] = f[q], NEW V
  PROVE  /\ Count(f, V) \in Nat
         /\ Count(g, V) = Count(f, V) + In(g[r], V) - In(f[r], V)
         /\ f[r] \in V => Count(f, V) > 0
<1> DEFINE S == {q \in Requests : f[q] \in V}
           T == {q \in Requests : g[q] \in V}
<1>1. IsFiniteSet(S) /\ Cardinality(S) \in Nat
  BY RequestsAssumption, FS_Subset, FS_CardinalityType
<1>3. r \in S <=> f[r] \in V
  OBVIOUS
<1>4. T = IF g[r] \in V THEN S \cup {r} ELSE S \ {r}
  OBVIOUS
<1> HIDE DEF S, T
<1>5. Cardinality(S \cup {r}) = IF r \in S THEN Cardinality(S) ELSE Cardinality(S) + 1
  BY <1>1, FS_AddElement
<1>6. Cardinality(S \ {r}) = IF r \in S THEN Cardinality(S) - 1 ELSE Cardinality(S)
  BY <1>1, FS_RemoveElement
<1>7. r \in S => Cardinality(S) > 0
  BY <1>1, FS_EmptySet
<1>8. Cardinality(T) = Cardinality(S) + In(g[r], V) - In(f[r], V)
  BY <1>1, <1>3, <1>4, <1>5, <1>6 DEF In
<1> QED
  BY <1>1, <1>3, <1>7, <1>8 DEF S, T, Count

(* The holders, the waiters, the owners and the queued are counts of        *)
(* awaits, in a state and in the next one.                                  *)
LEMMA Counted ==
  /\ Cardinality(Holders) = Count(pc, Holding) /\ Cardinality(Holders)' = Count(pc', Holding)
  /\ Cardinality(Waiters) = Count(pc, Admitting) /\ Cardinality(Waiters)' = Count(pc', Admitting)
  /\ Cardinality(Owners) = Count(pc, Owning) /\ Cardinality(Owners)' = Count(pc', Owning)
  /\ Cardinality(Queued) = Count(pc, {"queued"}) /\ Cardinality(Queued)' = Count(pc', {"queued"})
<1>1. Queued = {q \in Requests : pc[q] \in {"queued"}} /\ Queued' = {q \in Requests : pc'[q] \in {"queued"}}
  BY DEF Queued
<1> QED
  BY <1>1 DEF Holders, Waiters, Owners, Count, Holding, Admitting, Owning

(* A request moves from one await to another. *)
LEMMA Move ==
  ASSUME NEW r \in Requests, \A q \in Requests : q # r => pc'[q] = pc[q], NEW V
  PROVE  /\ Count(pc, V) \in Nat
         /\ Count(pc', V) = Count(pc, V) + In(pc'[r], V) - In(pc[r], V)
         /\ pc[r] \in V => Count(pc, V) > 0
BY CountUpdate, ZenonT(40)

(* The same, while the permit passes to the longest waiter. *)
LEMMA MoveAndGrant ==
  ASSUME NEW r \in Requests, NEW h \in Requests, h # r,
         pc \in [Requests -> PCs],
         \A q \in Requests : q # r /\ q # h => pc'[q] = pc[q], NEW V
  PROVE  /\ Count(pc, V) \in Nat
         /\ Count(pc', V) = Count(pc, V) + In(pc'[r], V) - In(pc[r], V) + In(pc'[h], V) - In(pc[h], V)
<1>1. PICK f : f[r] = pc'[r] /\ \A q \in Requests : q # r => f[q] = pc[q]
  <2> WITNESS [pc EXCEPT ![r] = pc'[r]]
  <2> QED OBVIOUS
<1>2. f[h] = pc[h] /\ \A q \in Requests : q # h => pc'[q] = f[q]
  BY <1>1
<1>3. /\ Count(pc, V) \in Nat
      /\ Count(f, V) = Count(pc, V) + In(f[r], V) - In(pc[r], V)
  BY <1>1, CountUpdate
<1>4. /\ Count(f, V) \in Nat
      /\ Count(pc', V) = Count(f, V) + In(pc'[h], V) - In(f[h], V)
  BY <1>2, CountUpdate
<1>5. \A x : In(x, V) \in Int
  BY DEF In
<1> QED
  BY <1>1, <1>2, <1>3, <1>4, <1>5

--------------------------------------------------------------------------------
(* Admission. *)

(* A release either grants the longest waiter or frees a permit, and keeps  *)
(* the admission facts.                                                     *)
LEMMA ReleaseAdmission ==
  ASSUME TypeOK, AdmissionInv, NEW r \in Requests, pc[r] \in Holding, Release(r)
  PROVE  /\ permits' + Cardinality(Holders)' = Size
         /\ permits' > 0 => queue' = <<>>
         /\ Cardinality(Queued)' = Len(queue')
         /\ Cardinality(Waiters)' = Cardinality(Waiters) - In(pc[r], Admitting)
         /\ Cardinality(Owners)' = Cardinality(Owners) - In(pc[r], Owning)
         /\ \A i \in 1..Len(queue') : pc'[queue'[i]] = "queued"
         /\ \A i, j \in 1..Len(queue') : queue'[i] = queue'[j] => i = j
<1>1. /\ permits \in Nat /\ queue \in Seq(Requests) /\ pc \in [Requests -> PCs]
      /\ Len(queue) \in Nat /\ \A i \in 1..Len(queue) : queue[i] \in Requests
  BY LenProperties, ElementOfSeq DEF TypeOK
<1>2. /\ In("done", Holding) = 0 /\ In("done", Admitting) = 0 /\ In("done", Owning) = 0
      /\ In("done", {"queued"}) = 0 /\ In(pc[r], Holding) = 1 /\ In(pc[r], {"queued"}) = 0
      /\ In(pc[r], Admitting) \in Int /\ In(pc[r], Owning) \in Int /\ pc[r] # "queued"
  BY DEF In, Holding, Admitting, Owning
<1>3. /\ In("granted", Holding) = 1 /\ In("granted", Admitting) = 1 /\ In("granted", Owning) = 0
      /\ In("granted", {"queued"}) = 0 /\ In("queued", Holding) = 0 /\ In("queued", Admitting) = 1
      /\ In("queued", Owning) = 0 /\ In("queued", {"queued"}) = 1
  BY DEF In, Holding, Admitting, Owning
<1>4. Size \in Nat
  BY SizeAssumption
<1>5. CASE queue = <<>>
  <2>1. /\ permits' = permits + 1 /\ queue' = queue
        /\ pc'[r] = "done" /\ \A q \in Requests : q # r => pc'[q] = pc[q]
    BY <1>1, <1>5 DEF Release
  <2>2. \A V : /\ Count(pc, V) \in Nat
               /\ Count(pc', V) = Count(pc, V) + In("done", V) - In(pc[r], V)
    BY <2>1, Move
  <2>3. Count(pc, Holding) \in Nat /\ Count(pc', Holding) = Count(pc, Holding) - 1
    BY <1>2, <2>2
  <2>4. Count(pc, Admitting) \in Nat /\ Count(pc', Admitting) = Count(pc, Admitting) - In(pc[r], Admitting)
    BY <1>2, <2>2
  <2>5. Count(pc, Owning) \in Nat /\ Count(pc', Owning) = Count(pc, Owning) - In(pc[r], Owning)
    BY <1>2, <2>2
  <2>6. Count(pc, {"queued"}) \in Nat /\ Count(pc', {"queued"}) = Count(pc, {"queued"})
    BY <1>2, <2>2
  <2>7. permits' + Cardinality(Holders)' = Size
    BY <1>1, <1>4, <2>1, <2>3, Counted DEF AdmissionInv
  <2>8. \A i \in 1..Len(queue') : pc'[queue'[i]] = "queued"
    BY <1>1, <1>2, <2>1 DEF AdmissionInv
  <2> QED
    BY <1>5, <2>1, <2>4, <2>5, <2>6, <2>7, <2>8, Counted DEF AdmissionInv
<1>6. CASE queue # <<>>
  <2> DEFINE h == Head(queue)
  <2>1. /\ Len(queue) > 0 /\ h = queue[1] /\ h \in Requests /\ pc[h] = "queued" /\ h # r
    BY <1>1, <1>2, <1>6, EmptySeq DEF AdmissionInv
  <2>2. /\ permits' = permits /\ queue' = Tail(queue)
        /\ pc' = [pc EXCEPT ![r] = "done", ![h] = "granted"]
    BY <1>6 DEF Release
  <2> HIDE DEF h
  <2>3. /\ pc'[r] = "done" /\ pc'[h] = "granted"
        /\ \A q \in Requests : q # r /\ q # h => pc'[q] = pc[q]
    BY <1>1, <2>1, <2>2
  <2>4. \A V : /\ Count(pc, V) \in Nat
               /\ Count(pc', V) = Count(pc, V) + In("done", V) - In(pc[r], V) + In("granted", V) - In("queued", V)
    BY <1>1, <2>1, <2>3, MoveAndGrant
  <2>5. /\ Len(queue') = Len(queue) - 1
        /\ \A i \in 1..Len(queue') : queue'[i] = queue[i + 1]
    BY <1>1, <1>6, <2>2, HeadTailProperties
  <2>6. /\ permits' + Cardinality(Holders)' = Size
        /\ Cardinality(Waiters)' = Cardinality(Waiters) - In(pc[r], Admitting)
        /\ Cardinality(Owners)' = Cardinality(Owners) - In(pc[r], Owning)
        /\ Cardinality(Queued)' = Len(queue')
    <3>1. Count(pc, Holding) \in Nat /\ Count(pc', Holding) = Count(pc, Holding)
      BY <1>2, <1>3, <2>4
    <3>2. Count(pc, Admitting) \in Nat /\ Count(pc', Admitting) = Count(pc, Admitting) - In(pc[r], Admitting)
      BY <1>2, <1>3, <2>4
    <3>3. Count(pc, Owning) \in Nat /\ Count(pc', Owning) = Count(pc, Owning) - In(pc[r], Owning)
      BY <1>2, <1>3, <2>4
    <3>4. Count(pc, {"queued"}) \in Nat /\ Count(pc', {"queued"}) = Count(pc, {"queued"}) - 1
      BY <1>2, <1>3, <2>4
    <3> QED
      BY <2>2, <2>5, <3>1, <3>2, <3>3, <3>4, Counted DEF AdmissionInv
  <2>7. ASSUME NEW i \in 1..Len(queue') PROVE pc'[queue'[i]] = "queued"
    <3>1. /\ queue'[i] = queue[i + 1] /\ i + 1 \in 1..Len(queue) /\ 1 \in 1..Len(queue) /\ i + 1 # 1
      BY <1>1, <2>5
    <3>2. /\ pc[queue[i + 1]] = "queued" /\ queue[i + 1] # h /\ queue[i + 1] # r /\ queue[i + 1] \in Requests
      BY <1>1, <1>2, <2>1, <3>1 DEF AdmissionInv
    <3> QED
      BY <2>3, <3>1, <3>2
  <2>8. ASSUME NEW i \in 1..Len(queue'), NEW j \in 1..Len(queue'), queue'[i] = queue'[j] PROVE i = j
    <3>1. /\ queue[i + 1] = queue[j + 1] /\ i + 1 \in 1..Len(queue) /\ j + 1 \in 1..Len(queue)
      BY <1>1, <2>5, <2>8
    <3>2. i + 1 = j + 1
      BY <3>1 DEF AdmissionInv
    <3> QED
      BY <3>2
  <2>9. permits' > 0 => queue' = <<>>
    BY <1>6, <2>2 DEF AdmissionInv
  <2> QED
    BY <2>6, <2>7, <2>8, <2>9
<1> QED
  BY <1>5, <1>6

(* Leaving the admission phase by a release. *)
LEMMA ReleaseStep ==
  ASSUME TypeOK, AdmissionInv, NEW r \in Requests, Release(r),
         \/ pc[r] \in {"yield", "granted"} /\ waiting' = waiting - 1
         \/ pc[r] \in Owning /\ waiting' = waiting
  PROVE  AdmissionInv'
<1>1. pc[r] \in Holding /\ waiting \in Nat /\ QueueBound \in Nat
  BY QueueBoundAssumption DEF Holding, TypeOK
<1>2. waiting' = waiting - In(pc[r], Admitting) /\ In(pc[r], Admitting) \in {0, 1}
  <2>1. CASE pc[r] \in {"yield", "granted"} /\ waiting' = waiting - 1
    <3>1. In(pc[r], Admitting) = 1
      BY <2>1 DEF In, Admitting
    <3> QED
      BY <2>1, <3>1
  <2>2. CASE pc[r] \in Owning /\ waiting' = waiting
    <3>1. In(pc[r], Admitting) = 0
      BY <2>2 DEF In, Admitting, Owning
    <3> QED
      BY <1>1, <2>2, <3>1
  <2> QED
    BY <2>1, <2>2
<1> QED
  BY <1>1, <1>2, ReleaseAdmission DEF AdmissionInv

(* A request that owns, or is starting, a worker stays its owner; a call   *)
(* refused at once never entered admission.                                *)
LEMMA SameAdmission ==
  ASSUME TypeOK, AdmissionInv, UNCHANGED admission, NEW r \in Requests, NEW v,
         pc' = [pc EXCEPT ![r] = v],
         \/ pc[r] \in Owning /\ v \in Owning
         \/ pc[r] = "idle" /\ v = "done"
  PROVE  AdmissionInv' /\ Cardinality(Owners)' = Cardinality(Owners)
<1>1. \A V \in {Holding, Admitting, Owning, {"queued"}} : In(pc[r], V) = In(v, V) /\ In(v, V) \in Int
  BY DEF In, Holding, Admitting, Owning
<1>2. pc'[r] = v /\ \A q \in Requests : q # r => pc'[q] = pc[q]
  BY DEF TypeOK
<1>3. pc[r] # "queued"
  BY DEF Owning
<1>4. queue \in Seq(Requests) /\ \A i \in 1..Len(queue) : queue[i] \in Requests
  BY ElementOfSeq DEF TypeOK
<1>5. \A V \in {Holding, Admitting, Owning, {"queued"}} : Count(pc', V) = Count(pc, V)
  <2> SUFFICES ASSUME NEW V \in {Holding, Admitting, Owning, {"queued"}} PROVE Count(pc', V) = Count(pc, V)
    OBVIOUS
  <2>1. /\ Count(pc, V) \in Nat
        /\ Count(pc', V) = Count(pc, V) + In(v, V) - In(pc[r], V)
    BY <1>2, Move
  <2>2. In(pc[r], V) = In(v, V) /\ In(v, V) \in Int
    BY <1>1, Zenon
  <2>3. \A m, n \in Int : m + n - n = m
    OBVIOUS
  <2> QED
    BY <2>1, <2>2, <2>3
<1>6. \A i \in 1..Len(queue) : pc'[queue[i]] = "queued"
  BY <1>2, <1>3, <1>4 DEF AdmissionInv
<1> QED
  BY <1>5, <1>6, Counted DEF AdmissionInv, admission

(* A new find enters admission, waits or is refused, and keeps the          *)
(* admission facts.                                                         *)
LEMMA FindAdmission ==
  ASSUME TypeOK, AdmissionInv, NEW r \in Requests, Find(r)
  PROVE  AdmissionInv'
<1>1. pc[r] = "idle"
  BY DEF Find
<1>2. /\ permits \in Nat /\ waiting \in Nat /\ Size \in Nat /\ QueueBound \in Nat
      /\ queue \in Seq(Requests) /\ Len(queue) \in Nat /\ pc \in [Requests -> PCs]
      /\ \A i \in 1..Len(queue) : queue[i] \in Requests
  BY SizeAssumption, QueueBoundAssumption, ElementOfSeq, LenProperties DEF TypeOK
<1>3. /\ In("idle", Holding) = 0 /\ In("idle", Admitting) = 0 /\ In("idle", {"queued"}) = 0
      /\ In("yield", Holding) = 1 /\ In("yield", Admitting) = 1 /\ In("yield", {"queued"}) = 0
      /\ In("queued", Holding) = 0 /\ In("queued", Admitting) = 1 /\ In("queued", {"queued"}) = 1
  BY DEF In, Holding, Admitting, Owning
<1>4. CASE (\E out \in Outcomes : Refuse(r, out)) /\ UNCHANGED admission
  <2>1. pc' = [pc EXCEPT ![r] = "done"]
    BY <1>4 DEF Refuse
  <2> QED
    BY <1>1, <1>4, <2>1, SameAdmission
<1>5. CASE /\ waiting < QueueBound /\ waiting' = waiting + 1 /\ permits > 0 /\ permits' = permits - 1
           /\ pc' = [pc EXCEPT ![r] = "yield"] /\ queue' = queue
  <2>1. pc'[r] = "yield" /\ \A q \in Requests : q # r => pc'[q] = pc[q]
    BY <1>2, <1>5
  <2>2. \A V : Count(pc, V) \in Nat /\ Count(pc', V) = Count(pc, V) + In("yield", V) - In("idle", V)
    BY <1>1, <2>1, Move
  <2>3. Count(pc, Holding) \in Nat /\ Count(pc', Holding) = Count(pc, Holding) + 1
    BY <1>3, <2>2
  <2>4. Count(pc, Admitting) \in Nat /\ Count(pc', Admitting) = Count(pc, Admitting) + 1
    BY <1>3, <2>2
  <2>5. Count(pc, {"queued"}) \in Nat /\ Count(pc', {"queued"}) = Count(pc, {"queued"})
    BY <1>3, <2>2
  <2>6. permits' + Cardinality(Holders)' = Size
    BY <1>2, <1>5, <2>3, Counted DEF AdmissionInv
  <2>7. waiting' = Cardinality(Waiters)' /\ waiting' <= QueueBound
    BY <1>2, <1>5, <2>4, Counted DEF AdmissionInv
  <2>8. queue' = <<>>
    BY <1>5 DEF AdmissionInv
  <2>9. \A i \in 1..Len(queue') : pc'[queue'[i]] = "queued"
    BY <1>1, <1>2, <1>5, <2>1 DEF AdmissionInv
  <2> QED
    BY <1>5, <2>5, <2>6, <2>7, <2>8, <2>9, Counted DEF AdmissionInv
<1>6. CASE /\ waiting < QueueBound /\ waiting' = waiting + 1 /\ permits = 0 /\ queue' = Append(queue, r)
           /\ pc' = [pc EXCEPT ![r] = "queued"] /\ permits' = permits
  <2>1. pc'[r] = "queued" /\ \A q \in Requests : q # r => pc'[q] = pc[q]
    BY <1>2, <1>6
  <2>2. \A V : Count(pc, V) \in Nat /\ Count(pc', V) = Count(pc, V) + In("queued", V) - In("idle", V)
    BY <1>1, <2>1, Move
  <2>3. Count(pc, Holding) \in Nat /\ Count(pc', Holding) = Count(pc, Holding)
    BY <1>3, <2>2
  <2>4. Count(pc, Admitting) \in Nat /\ Count(pc', Admitting) = Count(pc, Admitting) + 1
    BY <1>3, <2>2
  <2>5. Count(pc, {"queued"}) \in Nat /\ Count(pc', {"queued"}) = Count(pc, {"queued"}) + 1
    BY <1>3, <2>2
  <2>6. /\ Len(queue') = Len(queue) + 1 /\ queue'[Len(queue) + 1] = r
        /\ \A i \in 1..Len(queue) : queue'[i] = queue[i]
    BY <1>2, <1>6, AppendProperties
  <2>7. permits' + Cardinality(Holders)' = Size /\ ~(permits' > 0)
    BY <1>2, <1>6, <2>3, Counted DEF AdmissionInv
  <2>8. waiting' = Cardinality(Waiters)' /\ waiting' <= QueueBound
    BY <1>2, <1>6, <2>4, Counted DEF AdmissionInv
  <2>9. Cardinality(Queued)' = Len(queue')
    BY <1>2, <2>5, <2>6, Counted DEF AdmissionInv
  <2>10. \A i \in 1..Len(queue) : pc[queue[i]] = "queued" /\ queue[i] # r
    BY <1>1 DEF AdmissionInv
  <2>11. \A i \in 1..Len(queue') : pc'[queue'[i]] = "queued"
    BY <1>2, <2>1, <2>6, <2>10
  <2>12. ASSUME NEW i \in 1..Len(queue'), NEW j \in 1..Len(queue'), queue'[i] = queue'[j] PROVE i = j
    BY <1>2, <2>6, <2>10, <2>12 DEF AdmissionInv
  <2> QED
    BY <2>7, <2>8, <2>9, <2>11, <2>12 DEF AdmissionInv
<1>7. {"not_started", "saturated", "timeout", "cancelled"} \subseteq Outcomes
  BY DEF Outcomes
<1> QED
  BY <1>4, <1>5, <1>6, <1>7 DEF Find

(* A find that is cancelled or times out in the queue leaves the waiters,   *)
(* passing on a grant it was given.                                         *)
LEMMA LeaveQueueAdmission ==
  ASSUME TypeOK, AdmissionInv, NEW r \in Requests, LeaveQueue(r)
  PROVE  AdmissionInv'
<1>1. /\ permits \in Nat /\ waiting \in Nat /\ Size \in Nat /\ QueueBound \in Nat
      /\ queue \in Seq(Requests) /\ Len(queue) \in Nat /\ pc \in [Requests -> PCs]
      /\ DOMAIN queue = 1..Len(queue)
      /\ \A i \in 1..Len(queue) : queue[i] \in Requests
  BY SizeAssumption, QueueBoundAssumption, ElementOfSeq, LenProperties DEF TypeOK
<1>2. /\ In("done", Holding) = 0 /\ In("done", Admitting) = 0 /\ In("done", {"queued"}) = 0
      /\ In("queued", Holding) = 0 /\ In("queued", Admitting) = 1 /\ In("queued", {"queued"}) = 1
  BY DEF In, Holding, Admitting, Owning
<1>3. pc[r] = "queued" /\ pc' = [pc EXCEPT ![r] = "done"] /\ waiting' = waiting - 1 /\ permits' = permits
  BY DEF LeaveQueue, Refuse
<1>4. PICK k \in 1..Len(queue) :
        /\ queue[k] = r
        /\ queue' = SubSeq(queue, 1, k - 1) \o SubSeq(queue, k + 1, Len(queue))
  BY <1>1 DEF LeaveQueue
<1>5. /\ queue' \in Seq(Requests) /\ Len(queue') = Len(queue) - 1
      /\ \A i \in 1..Len(queue') : queue'[i] = IF i < k THEN queue[i] ELSE queue[i + 1]
  <2>1. queue \in Seq(Requests) /\ k \in 1..Len(queue)
    BY <1>1, <1>4
  <2>2. queue' = SubSeq(queue, 1, k - 1) \o SubSeq(queue, k + 1, Len(queue))
    BY <1>4
  <2> QED
    BY <2>1, <2>2, DropElement, ZenonT(40)
<1>6. pc'[r] = "done" /\ \A q \in Requests : q # r => pc'[q] = pc[q]
  BY <1>1, <1>3
<1>7. \A V : Count(pc, V) \in Nat /\ Count(pc', V) = Count(pc, V) + In("done", V) - In("queued", V)
  <2>1. \A V : Count(pc, V) \in Nat /\ Count(pc', V) = Count(pc, V) + In(pc'[r], V) - In(pc[r], V)
    BY <1>6, Move
  <2>2. pc[r] = "queued" /\ pc'[r] = "done"
    BY <1>3, <1>6
  <2> QED
    BY <2>1, <2>2
<1>8. Count(pc, Holding) \in Nat /\ Count(pc', Holding) = Count(pc, Holding)
  BY <1>2, <1>7
<1>9. Count(pc, Admitting) \in Nat /\ Count(pc', Admitting) = Count(pc, Admitting) - 1
  BY <1>2, <1>7
<1>10. Count(pc, {"queued"}) \in Nat /\ Count(pc', {"queued"}) = Count(pc, {"queued"}) - 1
  BY <1>2, <1>7
<1>11. permits' + Cardinality(Holders)' = Size
  BY <1>3, <1>8, Counted DEF AdmissionInv
<1>12. waiting' = Cardinality(Waiters)' /\ waiting' <= QueueBound
  BY <1>1, <1>3, <1>9, Counted DEF AdmissionInv
<1>13. Cardinality(Queued)' = Len(queue')
  BY <1>5, <1>10, Counted DEF AdmissionInv
<1>14. ~(permits' > 0)
  BY <1>1, <1>3, <1>4, EmptySeq DEF AdmissionInv
<1>15. ASSUME NEW i \in 1..Len(queue') PROVE pc'[queue'[i]] = "queued"
  <2>1. PICK m \in 1..Len(queue) : m # k /\ queue'[i] = queue[m]
    BY <1>1, <1>5
  <2>2. queue[m] \in Requests /\ queue[m] # r /\ pc[queue[m]] = "queued"
    BY <1>1, <1>4, <2>1 DEF AdmissionInv
  <2> QED
    BY <1>6, <2>1, <2>2
<1>16. ASSUME NEW i \in 1..Len(queue'), NEW j \in 1..Len(queue'), queue'[i] = queue'[j] PROVE i = j
  <2> DEFINE m == IF i < k THEN i ELSE i + 1
             n == IF j < k THEN j ELSE j + 1
  <2>1. m \in 1..Len(queue) /\ n \in 1..Len(queue) /\ (m = n => i = j)
    BY <1>1, <1>5
  <2>2. queue'[i] = queue[m] /\ queue'[j] = queue[n]
    BY <1>5
  <2>3. m = n
    <3> HIDE DEF m, n
    <3> QED
      BY <1>16, <2>1, <2>2 DEF AdmissionInv
  <2> QED
    BY <2>1, <2>3
<1> QED
  BY <1>11, <1>12, <1>13, <1>14, <1>15, <1>16 DEF AdmissionInv

(* Every step keeps the admission facts: permits, waiting count and         *)
(* waiters.                                                                 *)
LEMMA AdmissionStep ==
  ASSUME TypeOK, AdmissionInv, [Next]_vars
  PROVE  AdmissionInv'
<1>1. CASE UNCHANGED <<admission, pc>>
  BY <1>1 DEF AdmissionInv, admission, Holders, Waiters, Queued
<1>2. ASSUME NEW r \in Requests, RequestStep(r) PROVE AdmissionInv'
  <2>1. CASE ReturnGrant(r)
    BY <2>1, ReleaseStep DEF ReturnGrant, Finish
  <2>2. CASE Admit(r)
    <3>1. CASE Finish(r, "timeout")
      BY <2>2, <3>1, ReleaseStep DEF Admit, Finish
    <3>2. CASE \E v \in {"running", "spawning"} : pc' = [pc EXCEPT ![r] = v] /\ UNCHANGED <<permits, queue>>
      <4>1. PICK v \in {"running", "spawning"} : pc' = [pc EXCEPT ![r] = v]
        BY <3>2
      <4>2. /\ waiting' = waiting - 1 /\ permits' = permits /\ queue' = queue /\ pc[r] \in {"yield", "granted"}
        BY <2>2, <3>2 DEF Admit
      <4>3. pc'[r] = v /\ \A q \in Requests : q # r => pc'[q] = pc[q]
        BY <4>1 DEF TypeOK
      <4>4. \A V : Count(pc, V) \in Nat /\ Count(pc', V) = Count(pc, V) + In(pc'[r], V) - In(pc[r], V)
        <5> HIDE <4>1
        <5> QED
          BY <4>3, Move
      <4>5. /\ In(pc'[r], Holding) = 1 /\ In(pc[r], Holding) = 1 /\ In(pc'[r], Admitting) = 0
            /\ In(pc[r], Admitting) = 1 /\ In(pc'[r], {"queued"}) = 0 /\ In(pc[r], {"queued"}) = 0
        BY <4>2, <4>3 DEF In, Holding, Admitting, Owning
      <4>6. Count(pc, Holding) \in Nat /\ Count(pc', Holding) = Count(pc, Holding)
        BY <4>4, <4>5
      <4>7. Count(pc, Admitting) \in Nat /\ Count(pc', Admitting) = Count(pc, Admitting) - 1
        BY <4>4, <4>5
      <4>8. Count(pc, {"queued"}) \in Nat /\ Count(pc', {"queued"}) = Count(pc, {"queued"})
        BY <4>4, <4>5
      <4>9. waiting' = Cardinality(Waiters)' /\ waiting' <= QueueBound
        BY <4>2, <4>7, Counted, QueueBoundAssumption DEF AdmissionInv, TypeOK
      <4>10. \A i \in 1..Len(queue) : queue[i] \in Requests
        BY ElementOfSeq DEF TypeOK
      <4>11. \A i \in 1..Len(queue') : pc'[queue'[i]] = "queued"
        BY <4>2, <4>3, <4>10 DEF AdmissionInv
      <4> QED
        BY <4>2, <4>6, <4>8, <4>9, <4>11, Counted DEF AdmissionInv
    <3> QED
      BY <2>2, <3>1, <3>2 DEF Admit
  <2>3. CASE Spawn(r)
    BY <2>3, SameAdmission DEF Spawn, Owning
  <2>4. CASE SpawnFails(r)
    BY <2>4, ReleaseStep DEF SpawnFails, Finish, Owning
  <2>5. CASE Start(r)
    BY <2>5, SameAdmission DEF Start, Kill, Owning
  <2>6. CASE RunReturns(r)
    BY <2>6, ReleaseStep, SameAdmission DEF RunReturns, Finish, Kill, Owning, admission
  <2>7. CASE RunFails(r)
    BY <2>7, SameAdmission DEF RunFails, Kill, Owning
  <2>8. CASE Reap(r)
    BY <2>8, ReleaseStep, SameAdmission DEF Reap, Finish, Owning, admission
  <2> QED
    BY <1>2, <2>1, <2>2, <2>3, <2>4, <2>5, <2>6, <2>7, <2>8, FindAdmission, LeaveQueueAdmission
    DEF RequestStep
<1>3. CASE MainStep
  BY <1>1, <1>3 DEF MainStep, WarmSpawn, WarmStart, WarmDone, Close, CloseKill, request
<1>4. CASE WorkerStep
  BY <1>1, <1>4 DEF WorkerStep, WorkerReady, WorkerReplies, WorkerDies, OrphanExits, WorkerTakesJob,
                    WorkerAlarm, Exit, request
<1>5. CASE Environment
  BY <1>1, <1>5 DEF Environment, Expire, Cancel, ServerDies, request
<1> QED
  BY <1>1, <1>2, <1>3, <1>4, <1>5 DEF Next, vars, request

--------------------------------------------------------------------------------
(* The server's own task. *)

(* A release leaves every other request inside, or outside, the states in  *)
(* which it has a worker.                                                  *)
LEMMA ReleaseKeeps ==
  ASSUME TypeOK, AdmissionInv, NEW r \in Requests, pc[r] \in Holding, Release(r)
  PROVE  /\ pc'[r] = "done"
         /\ \A q \in Requests : q # r => pc'[q] = pc[q] \/ (pc[q] = "queued" /\ pc'[q] = "granted")
<1>1. queue \in Seq(Requests) /\ pc \in [Requests -> PCs]
  BY DEF TypeOK
<1>2. CASE queue = <<>>
  <2>1. pc' = [pc EXCEPT ![r] = "done"]
    BY <1>2 DEF Release
  <2>2. pc'[r] = "done" /\ \A q \in Requests : q # r => pc'[q] = pc[q]
    BY <1>1, <2>1
  <2> QED
    BY <2>2, Zenon
<1>3. CASE queue # <<>>
  <2> DEFINE h == Head(queue)
  <2>1. Len(queue) \in Nat /\ Len(queue) > 0 /\ h = queue[1] /\ h \in Requests
    BY <1>1, <1>3, EmptySeq, HeadTailProperties
  <2>2. pc[h] = "queued" /\ h # r
    BY <2>1 DEF AdmissionInv, Holding, Owning
  <2>3. pc' = [pc EXCEPT ![r] = "done", ![h] = "granted"]
    BY <1>3 DEF Release
  <2> HIDE DEF h
  <2>4. pc'[r] = "done" /\ pc'[h] = "granted" /\ \A q \in Requests : q # r /\ q # h => pc'[q] = pc[q]
    BY <1>1, <2>1, <2>2, <2>3
  <2> QED
    BY <2>2, <2>4, Zenon
<1> QED
  BY <1>2, <1>3

(* Every step keeps the facts about the warm-up and the closer.             *)
LEMMA MainInvStep ==
  ASSUME TypeOK, AdmissionInv, MainInv, [Next]_vars
  PROVE  MainInv'
<1>1. CASE UNCHANGED <<server, idle, pc>>
  BY <1>1 DEF MainInv, server
<1>2. ASSUME NEW r \in Requests, RequestStep(r) PROVE MainInv'
  <2>1. main \notin {"warming", "failed"}
    <3>1. CASE Find(r)
      BY <3>1 DEF Find
    <3>2. CASE ~Find(r)
      <4>1. pc[r] # "idle"
        BY <1>2, <3>2 DEF RequestStep, LeaveQueue, ReturnGrant, Admit, Spawn, SpawnFails, Start,
                          RunReturns, RunFails, Reap
      <4> QED
        BY <4>1 DEF MainInv
    <3> QED
      BY <3>1, <3>2
  <2>2. UNCHANGED server
    BY <1>2 DEF RequestStep, Find, LeaveQueue, ReturnGrant, Admit, Spawn, SpawnFails, Start,
                RunReturns, RunFails, Reap
  <2>3. closed => idle' = <<>>
    BY <1>2 DEF MainInv, RequestStep, Find, LeaveQueue, ReturnGrant, Admit, Spawn, SpawnFails, Start,
                RunReturns, RunFails, Reap
  <2> QED
    BY <2>1, <2>2, <2>3 DEF MainInv, server
<1>3. CASE MainStep
  BY <1>3 DEF MainStep, WarmSpawn, WarmStart, WarmDone, Close, CloseKill, MainInv, TypeOK, request
<1>4. CASE WorkerStep
  BY <1>1, <1>4 DEF WorkerStep, WorkerReady, WorkerReplies, WorkerDies, OrphanExits, WorkerTakesJob,
                    WorkerAlarm, Exit, request
<1>5. CASE Environment
  BY <1>1, <1>5 DEF Environment, Expire, Cancel, ServerDies, request
<1> QED
  BY <1>1, <1>2, <1>3, <1>4, <1>5 DEF Next, vars, request

--------------------------------------------------------------------------------
(* Ownership. *)

Inj(q) == \A i, j \in DOMAIN q : q[i] = q[j] => i = j

(* Appending to a sequence adds one element to its range.                   *)
LEMMA ElemsAppend ==
  ASSUME NEW S, NEW q \in Seq(S), NEW x \in S, NEW t, t = Append(q, x)
  PROVE  /\ Elems(t) = Elems(q) \cup {x}
         /\ Inj(q) /\ x \notin Elems(q) => Inj(t)
<1>1. /\ DOMAIN q = 1..Len(q) /\ Len(q) \in Nat
      /\ DOMAIN t = 1..(Len(q) + 1)
      /\ t[Len(q) + 1] = x
      /\ \A i \in 1..Len(q) : t[i] = q[i]
  BY LenProperties, AppendProperties
<1>2. Elems(t) = Elems(q) \cup {x}
  BY <1>1 DEF Elems
<1>3. ASSUME Inj(q), x \notin Elems(q) PROVE Inj(t)
  BY <1>1, <1>3 DEF Elems, Inj
<1> QED
  BY <1>2, <1>3

(* Popping a sequence of distinct elements removes the last one from its    *)
(* range.                                                                   *)
LEMMA ElemsPop ==
  ASSUME NEW S, NEW q \in Seq(S), Len(q) \in Nat \ {0}, Inj(q),
         NEW t \in Seq(S), Len(t) = Len(q) - 1, \A i \in 1..Len(t) : t[i] = q[i]
  PROVE  /\ q[Len(q)] \in Elems(q)
         /\ Elems(t) = Elems(q) \ {q[Len(q)]}
         /\ Inj(t)
<1>1. /\ t \in Seq(S) /\ Len(t) = Len(q) - 1 /\ Len(q) \in Nat \ {0}
      /\ \A i \in 1..Len(t) : t[i] = q[i]
  OBVIOUS
<1>2. DOMAIN q = 1..Len(q) /\ DOMAIN t = 1..(Len(q) - 1)
  BY <1>1, LenProperties
<1>3. Len(q) \in 1..Len(q) /\ \A i \in 1..(Len(q) - 1) : t[i] = q[i] /\ i \in 1..Len(q) /\ i # Len(q)
  BY <1>1
<1>4. \A i \in 1..Len(q) : i = Len(q) \/ i \in 1..(Len(q) - 1)
  BY <1>1
<1>5. Elems(t) = Elems(q) \ {q[Len(q)]}
  <2>1. ASSUME NEW x \in Elems(t) PROVE x \in Elems(q) \ {q[Len(q)]}
    <3>1. PICK i \in 1..(Len(q) - 1) : x = t[i]
      BY <1>2 DEF Elems
    <3>2. x = q[i] /\ i \in DOMAIN q /\ Len(q) \in DOMAIN q /\ i # Len(q)
      BY <1>2, <1>3, <3>1
    <3> QED
      BY <3>2, Zenon DEF Elems, Inj
  <2>2. ASSUME NEW x \in Elems(q) \ {q[Len(q)]} PROVE x \in Elems(t)
    BY <1>2, <1>3, <1>4, Zenon DEF Elems
  <2> QED
    BY <2>1, <2>2
<1>6. Inj(t)
  BY <1>2, <1>3, Zenon DEF Inj
<1>7. q[Len(q)] \in Elems(q)
  BY <1>2, <1>3 DEF Elems
<1> QED
  BY <1>5, <1>6, <1>7

(* The tail of a sequence of distinct elements has every element but the    *)
(* head.                                                                    *)
LEMMA ElemsTail ==
  ASSUME NEW S, NEW q \in Seq(S), q # <<>>, Inj(q), NEW t, t = Tail(q)
  PROVE  /\ Head(q) \in Elems(q)
         /\ Elems(t) = Elems(q) \ {Head(q)}
         /\ Inj(t)
<1>1. /\ t \in Seq(S) /\ Len(t) = Len(q) - 1 /\ Len(q) \in Nat \ {0} /\ Head(q) = q[1]
      /\ \A i \in 1..Len(t) : t[i] = q[i + 1]
  BY HeadTailProperties, EmptySeq
<1>2. DOMAIN q = 1..Len(q) /\ DOMAIN t = 1..(Len(q) - 1)
  BY <1>1, LenProperties
<1>3. \A i \in 1..(Len(q) - 1) : t[i] = q[i + 1] /\ i + 1 \in 1..Len(q) /\ i + 1 # 1
  BY <1>1
<1>4. Elems(t) = Elems(q) \ {Head(q)}
  <2>1. ASSUME NEW x \in Elems(t) PROVE x \in Elems(q) \ {Head(q)}
    BY <1>1, <1>2, <1>3 DEF Elems, Inj
  <2>2. ASSUME NEW x \in Elems(q) \ {Head(q)} PROVE x \in Elems(t)
    <3>1. PICK i \in 1..Len(q) : q[i] = x /\ i # 1
      BY <1>1, <1>2 DEF Elems
    <3>2. i - 1 \in 1..(Len(q) - 1) /\ (i - 1) + 1 = i
      BY <1>1, <3>1
    <3> QED
      BY <1>2, <1>3, <3>1, <3>2 DEF Elems
  <2> QED
    BY <2>1, <2>2
<1>5. Inj(t)
  BY <1>1, <1>2, <1>3 DEF Inj
<1>6. 1 \in DOMAIN q
  BY <1>1, <1>2
<1>7. Head(q) \in Elems(q)
  BY <1>1, <1>6, Zenon DEF Elems
<1> QED
  BY <1>4, <1>5, <1>7

(* A step that moves no worker from one owner to another. *)
LEMMA SameOwners ==
  ASSUME TypeOK, OwnerInv, UNCHANGED <<slot, idle, closing, warmSlot>>, alive' => alive,
         \A q \in Requests : pc'[q] \in HasSlot <=> pc[q] \in HasSlot,
         alive' => \A s \in Slots : worker'[s] = "none" <=> worker[s] = "none"
  PROVE  OwnerInv'
<1>1. /\ slot \in [Requests -> Slots \cup {NoSlot}]
      /\ \A s \in Elems(idle) \cup Elems(closing) : s \in Slots
      /\ warmSlot \in Slots \cup {NoSlot}
  BY ElementOfSeq, LenProperties DEF TypeOK, Elems
<1>2. NoSharedWorker'
  BY DEF OwnerInv, NoSharedWorker, Elems
<1>3. NoLeakedWorker'
  BY DEF OwnerInv, NoLeakedWorker, Live, Elems
<1>4. Elems(idle)' = Elems(idle) /\ Elems(closing)' = Elems(closing)
  BY DEF Elems
<1> QED
  BY <1>1, <1>2, <1>3, <1>4 DEF OwnerInv

(* The facts about ownership every step starts from. *)
LEMMA OwnerFacts ==
  ASSUME TypeOK, OwnerInv
  PROVE  /\ idle \in Seq(Slots) /\ closing \in Seq(Slots) /\ Inj(idle) /\ Inj(closing)
         /\ Elems(idle) \subseteq Slots /\ Elems(closing) \subseteq Slots
         /\ NoSlot \notin Slots
         /\ slot \in [Requests -> Slots \cup {NoSlot}] /\ worker \in [Slots -> WorkerStates]
         /\ warmSlot \in Slots \cup {NoSlot} /\ pc \in [Requests -> PCs]
<1>1. idle \in Seq(Slots) /\ closing \in Seq(Slots)
  BY DEF TypeOK
<1>2. Elems(idle) \subseteq Slots /\ Elems(closing) \subseteq Slots
  BY <1>1, ElementOfSeq, LenProperties DEF Elems
<1>3. Inj(idle) /\ Inj(closing)
  BY DEF OwnerInv, NoSharedWorker, Inj
<1> QED
  BY <1>1, <1>2, <1>3, SlotsAssumption DEF TypeOK

(* Admission hands at most one parked worker to the find that was admitted. *)
LEMMA AdmitOwner ==
  ASSUME TypeOK, AdmissionInv, MainInv, OwnerInv, NEW r \in Requests, Admit(r)
  PROVE  OwnerInv'
<1>1. /\ pc[r] \in Holding /\ pc[r] \notin HasSlot /\ UNCHANGED <<alive, worker, closing, warmSlot>>
      /\ {"running"} \subseteq HasSlot /\ "spawning" \notin HasSlot /\ "done" \notin HasSlot
      /\ "queued" \notin HasSlot /\ "granted" \notin HasSlot
  BY DEF Admit, Holding, HasSlot, server
<1>2. CASE Finish(r, "timeout") /\ UNCHANGED <<idle, slot>>
  <2>1. \A q \in Requests : pc'[q] \in HasSlot <=> pc[q] \in HasSlot
    BY <1>1, <1>2, ReleaseKeeps DEF Finish
  <2> QED
    BY <1>1, <1>2, <2>1, SameOwners
<1>3. CASE pc' = [pc EXCEPT ![r] = "spawning"] /\ UNCHANGED <<idle, slot>>
  <2>1. \A q \in Requests : pc'[q] \in HasSlot <=> pc[q] \in HasSlot
    BY <1>1, <1>3 DEF TypeOK
  <2> QED
    BY <1>1, <1>3, <2>1, SameOwners
<1>4. CASE /\ idle # <<>> /\ slot' = [slot EXCEPT ![r] = idle[Len(idle)]]
           /\ idle' = SubSeq(idle, 1, Len(idle) - 1) /\ pc' = [pc EXCEPT ![r] = "running"]
  <2> DEFINE s == idle[Len(idle)]
  <2>1. /\ idle' \in Seq(Slots) /\ Len(idle') = Len(idle) - 1 /\ Len(idle) \in Nat \ {0}
        /\ \A i \in 1..Len(idle') : idle'[i] = idle[i]
    <3>1. idle \in Seq(Slots) /\ idle # <<>>
      BY <1>4, OwnerFacts
    <3>2. /\ Len(idle) \in Nat \ {0} /\ \A i \in 1..Len(idle) : idle[i] \in Slots
      BY <3>1, EmptySeq, ElementOfSeq
    <3> DEFINE n == Len(idle) - 1
    <3>3. n \in Nat /\ \A i \in 1..n : idle[i] \in Slots
      BY <3>2
    <3>4. idle' = SubSeq(idle, 1, n)
      BY <1>4
    <3> HIDE DEF n
    <3>5. /\ SubSeq(idle, 1, n) \in Seq(Slots)
          /\ Len(SubSeq(idle, 1, n)) = n
          /\ \A i \in 1..n : SubSeq(idle, 1, n)[i] = idle[i]
      BY <3>3, SubSeqProperties
    <3>6. idle' \in Seq(Slots) /\ Len(idle') = n /\ \A i \in 1..n : idle'[i] = idle[i]
      BY <3>4, <3>5, Zenon
    <3> QED
      BY <3>2, <3>6 DEF n
  <2>2. s \in Elems(idle) /\ Elems(idle') = Elems(idle) \ {s} /\ Inj(idle')
    BY <2>1, ElemsPop, OwnerFacts
  <2>3. slot' = [slot EXCEPT ![r] = s]
    BY <1>4
  <2> HIDE DEF s
  <2>4. slot[r] = NoSlot
    BY <1>1 DEF OwnerInv
  <2>5. s \in Slots /\ s \notin Elems(closing) /\ s # NoSlot /\ s # warmSlot
    BY <2>2, OwnerFacts DEF OwnerInv, NoSharedWorker
  <2>6. /\ slot'[r] = s /\ pc'[r] = "running"
        /\ \A q \in Requests : q # r => slot'[q] = slot[q] /\ pc'[q] = pc[q]
    BY <1>4, <2>3, OwnerFacts
  <2>7. \A q \in Requests : q # r => slot'[q] # s
    BY <2>2, <2>6 DEF OwnerInv, NoSharedWorker
  <2>8. NoSharedWorker'
    BY <1>1, <2>2, <2>5, <2>6, <2>7, SMTT(30) DEF OwnerInv, NoSharedWorker, Inj, Elems
  <2>9. NoLeakedWorker'
    <3> SUFFICES ASSUME alive, NEW x \in Slots, worker[x] # "none"
                 PROVE  \/ x \in Elems(idle') \cup Elems(closing)
                        \/ x = warmSlot
                        \/ \E q \in Requests : slot'[q] = x /\ pc'[q] \in HasSlot
      BY <1>1 DEF NoLeakedWorker, Live, Elems
    <3>1. CASE x = s
      BY <1>1, <2>6, <3>1
    <3>2. CASE x # s
      BY <1>1, <2>2, <2>6, <3>2 DEF OwnerInv, NoLeakedWorker, Live
    <3> QED
      BY <3>1, <3>2
  <2>10. /\ \A q \in Requests : slot'[q] # NoSlot <=> pc'[q] \in HasSlot
         /\ alive => \A q \in Requests : slot'[q] # NoSlot => worker[slot'[q]] # "none"
    BY <1>1, <2>2, <2>5, <2>6 DEF OwnerInv
  <2>11. /\ warmSlot # NoSlot => warmSlot \notin Elems(idle')
         /\ alive => \A x \in Elems(idle') \cup Elems(closing) : worker[x] # "none"
    BY <2>2 DEF OwnerInv
  <2>12. Elems(idle)' = Elems(idle') /\ Elems(closing)' = Elems(closing)
    BY <1>1 DEF Elems
  <2> QED
    BY <1>1, <2>8, <2>9, <2>10, <2>11, <2>12 DEF OwnerInv
<1> QED
  BY <1>2, <1>3, <1>4 DEF Admit

(* A worker that starts belongs to the find that started it and to nobody   *)
(* else.                                                                    *)
LEMMA SpawnOwner ==
  ASSUME TypeOK, MainInv, OwnerInv, NEW r \in Requests, Spawn(r)
  PROVE  OwnerInv'
<1>1. PICK s \in Slots : worker[s] = "none" /\ worker' = [worker EXCEPT ![s] = "starting"]
                         /\ slot' = [slot EXCEPT ![r] = s]
  BY DEF Spawn
<1>2. /\ alive /\ alive' /\ pc[r] \notin HasSlot /\ pc[r] = "spawning" /\ pc' = [pc EXCEPT ![r] = "starting"]
      /\ UNCHANGED <<idle, closing, warmSlot>>
  BY DEF Spawn, HasSlot, server
<1>3. /\ slot'[r] = s /\ pc'[r] = "starting" /\ worker'[s] # "none"
      /\ \A q \in Requests : q # r => slot'[q] = slot[q] /\ pc'[q] = pc[q]
      /\ \A x \in Slots : x # s => worker'[x] = worker[x]
  BY <1>1, <1>2, OwnerFacts
<1>4. slot[r] = NoSlot /\ s # NoSlot /\ "starting" \in HasSlot
  BY <1>2, OwnerFacts DEF OwnerInv, HasSlot
<1>5. /\ s \notin Elems(idle) /\ s \notin Elems(closing) /\ s # warmSlot
      /\ \A q \in Requests : slot[q] # s
  BY <1>1, <1>2, <1>4 DEF OwnerInv
<1>6. NoSharedWorker'
  BY <1>2, <1>3, <1>4, <1>5 DEF OwnerInv, NoSharedWorker, Elems
<1>7. NoLeakedWorker'
  <2> SUFFICES ASSUME NEW x \in Slots, worker'[x] # "none"
               PROVE  \/ x \in Elems(idle) \cup Elems(closing)
                      \/ x = warmSlot
                      \/ \E q \in Requests : slot'[q] = x /\ pc'[q] \in HasSlot
    BY <1>2 DEF NoLeakedWorker, Live, Elems
  <2>1. CASE x = s
    BY <1>3, <1>4, <2>1
  <2>2. CASE x # s
    BY <1>2, <1>3, <2>2 DEF OwnerInv, NoLeakedWorker, Live
  <2> QED
    BY <2>1, <2>2
<1>8. /\ \A q \in Requests : slot'[q] # NoSlot <=> pc'[q] \in HasSlot
      /\ \A q \in Requests : slot'[q] # NoSlot => worker'[slot'[q]] # "none"
  BY <1>2, <1>3, <1>4, <1>5, OwnerFacts DEF OwnerInv
<1>9. /\ warmSlot # NoSlot => warmSlot \notin Elems(idle)
      /\ \A x \in Elems(idle) \cup Elems(closing) : worker'[x] # "none"
      /\ warmSlot # NoSlot => worker'[warmSlot] # "none"
  BY <1>2, <1>3, <1>5, OwnerFacts DEF OwnerInv
<1>10. Elems(idle)' = Elems(idle) /\ Elems(closing)' = Elems(closing)
  BY <1>2 DEF Elems
<1> QED
  BY <1>2, <1>6, <1>7, <1>8, <1>9, <1>10 DEF OwnerInv

(* A worker that is parked moves from its find to the idle list.            *)
LEMMA ParkOwner ==
  ASSUME TypeOK, AdmissionInv, MainInv, OwnerInv, NEW r \in Requests, RunReturns(r), ~closed
  PROVE  OwnerInv'
<1> DEFINE s == slot[r]
<1>1. /\ alive /\ alive' /\ pc[r] = "running" /\ Release(r) /\ idle' = Append(idle, s)
      /\ worker' = [worker EXCEPT ![s] = "ready"] /\ slot' = [slot EXCEPT ![r] = NoSlot]
      /\ UNCHANGED <<closing, warmSlot>>
  BY DEF RunReturns, Finish, server
<1>2. /\ pc[r] \in HasSlot /\ pc[r] \in Holding /\ "done" \notin HasSlot /\ "queued" \notin HasSlot
      /\ "granted" \notin HasSlot
  BY <1>1 DEF HasSlot, Holding, Owning
<1>3. s # NoSlot /\ s \in Slots
  BY <1>2, OwnerFacts DEF OwnerInv
<1>4. s \notin Elems(idle) /\ s \notin Elems(closing)
  BY DEF OwnerInv, NoSharedWorker
<1> HIDE DEF s
<1>5. Elems(idle') = Elems(idle) \cup {s} /\ Inj(idle')
  BY <1>1, <1>3, <1>4, ElemsAppend, OwnerFacts
<1>6. /\ slot'[r] = NoSlot /\ \A q \in Requests : q # r => slot'[q] = slot[q] /\ slot[q] # s
  BY <1>1, <1>3, OwnerFacts DEF OwnerInv, NoSharedWorker, s
<1>7. /\ pc'[r] = "done"
      /\ \A q \in Requests : q # r => (pc'[q] \in HasSlot <=> pc[q] \in HasSlot)
  BY <1>1, <1>2, ReleaseKeeps
<1>8. \A x \in Slots : worker'[x] = "none" <=> worker[x] = "none"
  <2>1. worker[s] # "none" /\ worker'[s] = "ready" /\ \A x \in Slots : x # s => worker'[x] = worker[x]
    BY <1>1, <1>3, OwnerFacts DEF OwnerInv, s
  <2> QED
    BY <2>1
<1>9. warmSlot = NoSlot
  BY <1>1 DEF MainInv
<1>10. NoSharedWorker'
  <2>1. \A r1, r2 \in Requests : slot'[r1] = slot'[r2] /\ slot'[r1] # NoSlot => r1 = r2
    BY <1>6 DEF OwnerInv, NoSharedWorker
  <2>2. \A q \in Requests : slot'[q] \notin Elems(idle') \cup Elems(closing)
    BY <1>3, <1>5, <1>6, OwnerFacts DEF OwnerInv, NoSharedWorker
  <2>3. Elems(idle') \cap Elems(closing) = {}
    BY <1>4, <1>5 DEF OwnerInv, NoSharedWorker
  <2>4. Elems(idle)' = Elems(idle') /\ Elems(closing)' = Elems(closing) /\ closing' = closing
    BY <1>1 DEF Elems
  <2>5. \A i, j \in DOMAIN idle' : idle'[i] = idle'[j] => i = j
    BY <1>5 DEF Inj
  <2>6. \A i, j \in DOMAIN closing : closing[i] = closing[j] => i = j
    BY DEF OwnerInv, NoSharedWorker
  <2> QED
    BY <2>1, <2>2, <2>3, <2>4, <2>5, <2>6 DEF NoSharedWorker
<1>11. NoLeakedWorker'
  <2> SUFFICES ASSUME NEW x \in Slots, worker'[x] # "none"
               PROVE  \/ x \in Elems(idle') \cup Elems(closing)
                      \/ \E q \in Requests : slot'[q] = x /\ pc'[q] \in HasSlot
    BY <1>1 DEF NoLeakedWorker, Live, Elems
  <2>1. CASE x = s
    BY <1>5, <2>1
  <2>2. CASE x # s
    <3>1. \/ x \in Elems(idle) \cup Elems(closing)
          \/ \E q \in Requests : q # r /\ slot[q] = x /\ pc[q] \in HasSlot
      BY <1>1, <1>8, <1>9, <2>2, OwnerFacts DEF OwnerInv, NoLeakedWorker, Live, s
    <3> QED
      BY <1>5, <1>6, <1>7, <3>1
  <2> QED
    BY <2>1, <2>2
<1>12. /\ \A q \in Requests : slot'[q] # NoSlot <=> pc'[q] \in HasSlot
       /\ \A q \in Requests : slot'[q] # NoSlot => worker'[slot'[q]] # "none"
  BY <1>1, <1>2, <1>6, <1>7, <1>8, OwnerFacts DEF OwnerInv
<1>13. \A x \in Elems(idle') \cup Elems(closing) : worker'[x] # "none"
  BY <1>1, <1>3, <1>5, <1>8, OwnerFacts DEF OwnerInv, s
<1>14. Elems(idle)' = Elems(idle') /\ Elems(closing)' = Elems(closing)
  BY <1>1 DEF Elems
<1> QED
  BY <1>1, <1>9, <1>10, <1>11, <1>12, <1>13, <1>14 DEF OwnerInv

(* A worker that is reaped leaves its find, and its slot is free.           *)
LEMMA ReapOwner ==
  ASSUME TypeOK, AdmissionInv, MainInv, OwnerInv, NEW r \in Requests, Reap(r)
  PROVE  OwnerInv'
<1> DEFINE s == slot[r]
<1>1. /\ alive /\ alive' /\ pc[r] = "killing" /\ UNCHANGED <<idle, closing, warmSlot>>
      /\ worker' = [worker EXCEPT ![s] = "none"] /\ slot' = [slot EXCEPT ![r] = NoSlot]
  BY DEF Reap, server
<1>2. /\ pc[r] \in HasSlot /\ pc[r] \in Holding /\ "done" \notin HasSlot /\ "queued" \notin HasSlot
      /\ "granted" \notin HasSlot /\ "spawning" \notin HasSlot
  BY <1>1 DEF HasSlot, Holding, Owning
<1>3. /\ pc'[r] \notin HasSlot
      /\ \A q \in Requests : q # r => (pc'[q] \in HasSlot <=> pc[q] \in HasSlot)
  <2>1. CASE pc' = [pc EXCEPT ![r] = "spawning"]
    BY <1>2, <2>1 DEF TypeOK
  <2>2. CASE Release(r)
    BY <1>2, <2>2, ReleaseKeeps
  <2> QED
    BY <2>1, <2>2 DEF Reap, Finish
<1>4. s # NoSlot /\ s \in Slots
  BY <1>2, OwnerFacts DEF OwnerInv
<1>5. s \notin Elems(idle) /\ s \notin Elems(closing)
  BY DEF OwnerInv, NoSharedWorker
<1> HIDE DEF s
<1>6. /\ slot'[r] = NoSlot /\ \A q \in Requests : q # r => slot'[q] = slot[q] /\ slot[q] # s
  BY <1>1, <1>4, OwnerFacts DEF OwnerInv, NoSharedWorker, s
<1>7. worker'[s] = "none" /\ \A x \in Slots : x # s => worker'[x] = worker[x]
  BY <1>1, <1>4, OwnerFacts
<1>8. warmSlot = NoSlot
  BY <1>1 DEF MainInv
<1>9. NoSharedWorker'
  <2>1. \A r1, r2 \in Requests : slot'[r1] = slot'[r2] /\ slot'[r1] # NoSlot => r1 = r2
    BY <1>6 DEF OwnerInv, NoSharedWorker
  <2>2. \A q \in Requests : slot'[q] \notin Elems(idle) \cup Elems(closing)
    BY <1>6, OwnerFacts DEF OwnerInv, NoSharedWorker
  <2>3. Elems(idle)' = Elems(idle) /\ Elems(closing)' = Elems(closing)
    BY <1>1 DEF Elems
  <2>4. /\ Elems(idle) \cap Elems(closing) = {}
        /\ \A i, j \in DOMAIN idle : idle[i] = idle[j] => i = j
        /\ \A i, j \in DOMAIN closing : closing[i] = closing[j] => i = j
    BY DEF OwnerInv, NoSharedWorker
  <2> QED
    BY <1>1, <2>1, <2>2, <2>3, <2>4 DEF NoSharedWorker
<1>10. NoLeakedWorker'
  <2> SUFFICES ASSUME NEW x \in Slots, worker'[x] # "none"
               PROVE  \/ x \in Elems(idle) \cup Elems(closing)
                      \/ \E q \in Requests : slot'[q] = x /\ pc'[q] \in HasSlot
    BY <1>1 DEF NoLeakedWorker, Live, Elems
  <2>1. x # s /\ worker[x] # "none"
    BY <1>7
  <2>2. \/ x \in Elems(idle) \cup Elems(closing)
        \/ \E q \in Requests : q # r /\ slot[q] = x /\ pc[q] \in HasSlot
    BY <1>1, <1>8, <2>1, OwnerFacts DEF OwnerInv, NoLeakedWorker, Live, s
  <2> QED
    BY <1>3, <1>6, <2>2
<1>11. /\ \A q \in Requests : slot'[q] # NoSlot <=> pc'[q] \in HasSlot
       /\ \A q \in Requests : slot'[q] # NoSlot => worker'[slot'[q]] # "none"
  BY <1>1, <1>3, <1>6, <1>7, OwnerFacts DEF OwnerInv
<1>12. \A x \in Elems(idle) \cup Elems(closing) : worker'[x] # "none"
  BY <1>1, <1>5, <1>7, OwnerFacts DEF OwnerInv
<1>13. Elems(idle)' = Elems(idle) /\ Elems(closing)' = Elems(closing)
  BY <1>1 DEF Elems
<1> QED
  BY <1>1, <1>8, <1>9, <1>10, <1>11, <1>12, <1>13 DEF OwnerInv

(* While the pool is warmed no request has a worker and none is closing. *)
LEMMA WarmFacts ==
  ASSUME TypeOK, MainInv, OwnerInv, main = "warming"
  PROVE  closing = <<>> /\ Elems(closing) = {} /\ \A q \in Requests : slot[q] = NoSlot /\ pc[q] \notin HasSlot
<1>1. closing = <<>> /\ \A q \in Requests : pc[q] = "idle"
  BY DEF MainInv
<1> QED
  BY <1>1 DEF OwnerInv, HasSlot, Elems

(* The warm-up and the closer's steps move each worker between one pair of  *)
(* owners.                                                                  *)
LEMMA MainOwner ==
  ASSUME TypeOK, MainInv, OwnerInv, MainStep
  PROVE  OwnerInv'
<1>0. UNCHANGED <<alive, slot, pc>>
  BY DEF MainStep, WarmSpawn, WarmStart, WarmDone, Close, CloseKill, request
<1>1. CASE UNCHANGED <<idle, closing, warmSlot, worker>>
  BY <1>0, <1>1, SameOwners
<1>2. ASSUME NEW s \in Slots, WarmSpawn, worker[s] = "none",
             worker' = [worker EXCEPT ![s] = "starting"], warmSlot' = s
      PROVE  OwnerInv'
  <2>1. /\ alive /\ main = "warming" /\ warmSlot = NoSlot /\ UNCHANGED <<idle, closing>>
    BY <1>2 DEF WarmSpawn
  <2>2. s \notin Elems(idle) /\ Elems(idle)' = Elems(idle) /\ Elems(closing)' = Elems(closing)
    BY <1>2, <2>1 DEF OwnerInv, Elems
  <2>3. worker'[s] # "none" /\ \A x \in Slots : x # s => worker'[x] = worker[x]
    BY <1>2, OwnerFacts
  <2>4. NoSharedWorker'
    BY <1>0, <2>1, <2>2 DEF OwnerInv, NoSharedWorker
  <2>5. NoLeakedWorker'
    BY <1>0, <1>2, <2>1, <2>2, <2>3, OwnerFacts DEF OwnerInv, NoLeakedWorker, Live
  <2> QED
    BY <1>0, <1>2, <2>1, <2>2, <2>3, <2>4, <2>5, WarmFacts, OwnerFacts DEF OwnerInv
<1>3. CASE WarmStart
  <2>1. /\ alive /\ main = "warming" /\ warmSlot \in Slots /\ warmSlot # NoSlot /\ warmSlot' = NoSlot
        /\ closing' = closing
    BY <1>3, OwnerFacts DEF WarmStart
  <2>2. warmSlot \notin Elems(idle) /\ worker[warmSlot] # "none"
    BY <2>1 DEF OwnerInv
  <2>3. CASE idle' = Append(idle, warmSlot) /\ worker' = worker
    <3>1. Elems(idle') = Elems(idle) \cup {warmSlot} /\ Inj(idle')
      BY <2>1, <2>2, <2>3, ElemsAppend, OwnerFacts, ZenonT(40)
    <3>2. Elems(idle)' = Elems(idle') /\ Elems(closing)' = {} /\ Elems(closing) = {}
      BY <2>1, WarmFacts DEF Elems
    <3>3. NoSharedWorker'
      BY <1>0, <2>1, <3>1, <3>2, WarmFacts, OwnerFacts DEF NoSharedWorker, OwnerInv, Inj
    <3>4. NoLeakedWorker'
      BY <1>0, <2>1, <2>3, <3>1, <3>2, WarmFacts DEF OwnerInv, NoLeakedWorker, Live
    <3> QED
      BY <1>0, <2>1, <2>2, <2>3, <3>1, <3>2, <3>3, <3>4, WarmFacts DEF OwnerInv
  <2>4. CASE idle' = idle /\ worker' = [worker EXCEPT ![warmSlot] = "none"]
    <3>1. worker'[warmSlot] = "none" /\ \A x \in Slots : x # warmSlot => worker'[x] = worker[x]
      BY <2>1, <2>4, OwnerFacts
    <3>2. Elems(idle)' = Elems(idle) /\ Elems(closing)' = {} /\ Elems(closing) = {}
      BY <2>1, <2>4, WarmFacts DEF Elems
    <3>3. NoSharedWorker'
      BY <1>0, <2>1, <2>4, <3>2 DEF NoSharedWorker, OwnerInv
    <3>4. NoLeakedWorker'
      BY <1>0, <2>1, <2>4, <3>1, <3>2, WarmFacts DEF OwnerInv, NoLeakedWorker, Live
    <3> QED
      BY <1>0, <2>1, <2>2, <3>1, <3>2, <3>3, <3>4, WarmFacts, OwnerFacts DEF OwnerInv
  <2> QED
    BY <1>3, <2>3, <2>4 DEF WarmStart
<1>4. CASE Close
  <2>1. /\ closing' = idle /\ idle' = <<>> /\ worker' = worker /\ warmSlot' = warmSlot /\ warmSlot = NoSlot
        /\ closing = <<>>
    BY <1>4 DEF Close, MainInv
  <2>2. Elems(idle)' = {} /\ Elems(closing)' = Elems(idle) /\ Elems(closing) = {}
    BY <2>1 DEF Elems
  <2>3. NoSharedWorker'
    BY <1>0, <2>1, <2>2 DEF NoSharedWorker, OwnerInv
  <2>4. NoLeakedWorker'
    BY <1>0, <2>1, <2>2 DEF OwnerInv, NoLeakedWorker, Live
  <2> QED
    BY <1>0, <2>1, <2>2, <2>3, <2>4 DEF OwnerInv
<1>5. CASE CloseKill /\ closing # <<>>
  <2> DEFINE s == Head(closing)
  <2>1. /\ alive /\ worker' = [worker EXCEPT ![s] = "none"] /\ closing' = Tail(closing)
        /\ UNCHANGED <<idle, warmSlot>> /\ warmSlot = NoSlot
    BY <1>5 DEF CloseKill, MainInv
  <2>2. s \in Elems(closing) /\ Elems(closing') = Elems(closing) \ {s} /\ Inj(closing')
    BY <1>5, <2>1, ElemsTail, OwnerFacts
  <2> HIDE DEF s
  <2>3. Elems(idle)' = Elems(idle) /\ Elems(closing)' = Elems(closing')
    BY <2>1 DEF Elems
  <2>4. worker'[s] = "none" /\ \A x \in Slots : x # s => worker'[x] = worker[x]
    BY <2>1, <2>2, OwnerFacts
  <2>5. s \notin Elems(idle) /\ \A q \in Requests : slot[q] # s
    BY <2>2 DEF OwnerInv, NoSharedWorker
  <2>6. NoSharedWorker'
    BY <1>0, <2>1, <2>2, <2>3 DEF NoSharedWorker, OwnerInv, Inj
  <2>7. NoLeakedWorker'
    BY <1>0, <2>1, <2>2, <2>3, <2>4, OwnerFacts DEF OwnerInv, NoLeakedWorker, Live
  <2> QED
    BY <1>0, <2>1, <2>2, <2>3, <2>4, <2>5, <2>6, <2>7, OwnerFacts DEF OwnerInv
<1> QED
  BY <1>0, <1>1, <1>2, <1>3, <1>4, <1>5 DEF MainStep, WarmSpawn, WarmDone, CloseKill

(* Every step keeps each live worker with exactly one owner.                *)
LEMMA OwnerStep ==
  ASSUME TypeOK, AdmissionInv, MainInv, OwnerInv, [Next]_vars
  PROVE  OwnerInv'
<1>1. CASE UNCHANGED <<alive, slot, idle, closing, warmSlot, pc, worker>>
  BY <1>1, SameOwners
<1>2. ASSUME NEW r \in Requests, RequestStep(r) PROVE OwnerInv'
  <2>0. /\ "idle" \notin HasSlot /\ "done" \notin HasSlot /\ "yield" \notin HasSlot /\ "queued" \notin HasSlot
        /\ "granted" \notin HasSlot /\ "spawning" \notin HasSlot
        /\ {"starting", "running", "killing"} \subseteq HasSlot /\ HasSlot \subseteq Holding
    BY DEF HasSlot, Holding, Owning
  <2>a. pc \in [Requests -> PCs]
    BY DEF TypeOK
  <2>1. CASE Find(r)
    <3>1. \A q \in Requests : pc'[q] \in HasSlot <=> pc[q] \in HasSlot
      BY <2>0, <2>1, <2>a DEF Find, Refuse
    <3> QED
      BY <2>1, <3>1, SameOwners DEF Find, server
  <2>2. CASE LeaveQueue(r)
    <3>1. \A q \in Requests : pc'[q] \in HasSlot <=> pc[q] \in HasSlot
      BY <2>0, <2>2, <2>a DEF LeaveQueue, Refuse
    <3> QED
      BY <2>2, <3>1, SameOwners DEF LeaveQueue, server
  <2>3. CASE ReturnGrant(r)
    <3>1. \A q \in Requests : pc'[q] \in HasSlot <=> pc[q] \in HasSlot
      BY <2>0, <2>3, ReleaseKeeps DEF ReturnGrant, Finish, Holding
    <3> QED
      BY <2>3, <3>1, SameOwners DEF ReturnGrant, server
  <2>4. CASE SpawnFails(r)
    <3>1. \A q \in Requests : pc'[q] \in HasSlot <=> pc[q] \in HasSlot
      BY <2>0, <2>4, ReleaseKeeps DEF SpawnFails, Finish, Holding, Owning
    <3> QED
      BY <2>4, <3>1, SameOwners DEF SpawnFails, server
  <2>5. ASSUME NEW out, Kill(r, out), pc[r] \in HasSlot, UNCHANGED <<alive, slot, idle, closing, warmSlot>>
        PROVE  OwnerInv'
    <3>1. \A q \in Requests : pc'[q] \in HasSlot <=> pc[q] \in HasSlot
      BY <2>0, <2>5, <2>a DEF Kill
    <3>2. slot[r] \in Slots
      BY <2>5, OwnerFacts DEF OwnerInv
    <3>3. alive => \A s \in Slots : worker'[s] = "none" <=> worker[s] = "none"
      <4>1. alive => worker[slot[r]] # "none"
        BY <3>2, OwnerFacts DEF OwnerInv
      <4>2. worker'[slot[r]] = "dead" /\ \A s \in Slots : s # slot[r] => worker'[s] = worker[s]
        BY <2>5, <3>2, OwnerFacts DEF Kill
      <4> QED
        BY <4>1, <4>2
    <3> QED
      BY <2>5, <3>1, <3>3, SameOwners
  <2>6. CASE Start(r)
    <3>1. CASE pc' = [pc EXCEPT ![r] = "running"] /\ worker' = worker
      <4>1. \A q \in Requests : pc'[q] \in HasSlot <=> pc[q] \in HasSlot
        BY <2>0, <2>6, <2>a, <3>1 DEF Start
      <4> QED
        BY <2>6, <3>1, <4>1, SameOwners DEF Start, server
    <3> QED
      BY <2>0, <2>5, <2>6, <3>1 DEF Start, server
  <2>7. CASE RunReturns(r)
    <3>1. CASE closed
      BY <2>0, <2>5, <2>7, <3>1 DEF RunReturns, server
    <3> QED
      BY <2>7, <3>1, ParkOwner
  <2>8. CASE RunFails(r)
    BY <2>0, <2>5, <2>8 DEF RunFails, server
  <2> QED
    BY <1>2, <2>1, <2>2, <2>3, <2>4, <2>6, <2>7, <2>8, AdmitOwner, SpawnOwner, ReapOwner DEF RequestStep
<1>3. CASE WorkerStep
  <2>1. ASSUME NEW s \in Slots, worker[s] # "none" \/ ~alive, UNCHANGED <<alive, slot, idle, closing, warmSlot, pc>>,
               \E v : worker' = [worker EXCEPT ![s] = v] /\ (alive => v # "none")
        PROVE  OwnerInv'
    <3>1. alive => \A x \in Slots : worker'[x] = "none" <=> worker[x] = "none"
      BY <2>1, OwnerFacts
    <3> QED
      BY <2>1, <3>1, SameOwners
  <2>2. ASSUME NEW s \in Slots, WorkerReady(s) \/ WorkerReplies(s) \/ WorkerDies(s) \/ OrphanExits(s)
        PROVE  OwnerInv'
    BY <2>1, <2>2 DEF WorkerReady, WorkerReplies, WorkerDies, OrphanExits, Exit, server, request
  <2>3. ASSUME NEW r \in Requests, WorkerTakesJob(r) \/ WorkerAlarm(r) PROVE OwnerInv'
    <3>1. slot[r] \in Slots
      BY <2>3, OwnerFacts DEF WorkerTakesJob, WorkerAlarm, OwnerInv, HasSlot
    <3> QED
      BY <2>1, <2>3, <3>1 DEF WorkerTakesJob, WorkerAlarm, Exit, server, request
  <2> QED
    BY <1>3, <2>2, <2>3 DEF WorkerStep
<1>4. CASE Environment
  <2>1. UNCHANGED <<slot, idle, closing, warmSlot, pc, worker>> /\ (alive' => alive)
    BY <1>4 DEF Environment, Expire, Cancel, ServerDies, server, request
  <2> QED
    BY <2>1, SameOwners
<1> QED
  BY <1>1, <1>2, <1>3, <1>4, MainOwner DEF Next, vars, request, server

--------------------------------------------------------------------------------
(* How many workers there can be. *)

(* Those that own a worker's slot are no more than those that hold a        *)
(* permit.                                                                  *)
LEMMA CountMonotone ==
  ASSUME NEW f
  PROVE  Count(f, Owning) <= Count(f, Holding) /\ Count(f, Owning) \in Nat /\ Count(f, Holding) \in Nat
<1> DEFINE S == {q \in Requests : f[q] \in Owning}
           T == {q \in Requests : f[q] \in Holding}
<1>1. IsFiniteSet(T) /\ S \in SUBSET T
  BY RequestsAssumption, FS_Subset DEF Holding
<1>2. IsFiniteSet(S) /\ Cardinality(S) <= Cardinality(T)
  BY <1>1, FS_Subset
<1>3. Cardinality(S) \in Nat /\ Cardinality(T) \in Nat
  BY <1>1, <1>2, FS_CardinalityType
<1> QED
  BY <1>2, <1>3 DEF Count

(* Every step keeps the count of workers behind the pool's bound.           *)
LEMMA CountStep ==
  ASSUME IInv, [Next]_vars, TypeOK', AdmissionInv'
  PROVE  CountInv'
<1> DEFINE warm == IF warmSlot = NoSlot THEN 0 ELSE 1
           n == Cardinality(Owners)
<1>0. /\ TypeOK /\ AdmissionInv /\ MainInv /\ OwnerInv /\ CountInv
      /\ idle \in Seq(Slots) /\ Len(idle) \in Nat /\ closing \in Seq(Slots) /\ Len(closing) \in Nat
      /\ Size \in Nat /\ n \in Nat /\ warm \in {0, 1} /\ pc \in [Requests -> PCs]
  BY SizeAssumption, LenProperties, CountMonotone, Counted DEF IInv, TypeOK
<1>1. /\ Len(idle) + n + warm <= Size
      /\ Len(closing) <= Size
  BY <1>0 DEF CountInv
<1>2. ASSUME Cardinality(Owners)' = n, UNCHANGED <<idle, closing, warmSlot>> PROVE CountInv'
  BY <1>1, <1>2 DEF CountInv
<1>3. ASSUME NEW r \in Requests, RequestStep(r) PROVE CountInv'
  <2>0. UNCHANGED <<closing, warmSlot>>
    BY <1>3 DEF RequestStep, Find, LeaveQueue, ReturnGrant, Admit, Spawn, SpawnFails, Start,
                RunReturns, RunFails, Reap, server
  <2>1. /\ In("idle", Owning) = 0 /\ In("done", Owning) = 0 /\ In("yield", Owning) = 0
        /\ In("queued", Owning) = 0 /\ In("granted", Owning) = 0
        /\ In("running", Owning) = 1 /\ In("spawning", Owning) = 1
        /\ {"spawning", "starting", "running", "killing"} \subseteq Holding
        /\ {"yield", "granted"} \subseteq Holding
        /\ Owning = {"spawning", "starting", "running", "killing"}
    BY DEF In, Owning, Holding
  <2>2. ASSUME pc[r] \in Owning, Release(r) PROVE Cardinality(Owners)' = n - 1
    <3>1. In(pc[r], Owning) = 1 /\ pc[r] \in Holding
      BY <2>2 DEF In, Holding
    <3> QED
      BY <1>0, <2>2, <3>1, ReleaseAdmission
  <2>3. ASSUME pc[r] \in {"yield", "granted"}, Release(r) PROVE Cardinality(Owners)' = n
    <3>1. In(pc[r], Owning) = 0 /\ pc[r] \in Holding
      BY <2>1, <2>3
    <3> QED
      BY <1>0, <2>3, <3>1, ReleaseAdmission
  <2>4. ASSUME NEW v, pc[r] \in Owning, v \in Owning, pc' = [pc EXCEPT ![r] = v]
        PROVE  Cardinality(Owners)' = n
    <3>1. pc'[r] = v /\ \A q \in Requests : q # r => pc'[q] = pc[q]
      BY <1>0, <2>4
    <3>2. Owners' = Owners
      BY <2>4, <3>1 DEF Owners
    <3> QED
      BY <3>2
  <2>5. ASSUME NEW v, pc[r] \notin Owning, v \notin Owning, pc' = [pc EXCEPT ![r] = v]
        PROVE  Cardinality(Owners)' = n
    <3>1. pc'[r] = v /\ \A q \in Requests : q # r => pc'[q] = pc[q]
      BY <1>0, <2>5
    <3>2. Owners' = Owners
      BY <2>5, <3>1 DEF Owners
    <3> QED
      BY <3>2
  <2>6. CASE Find(r)
    BY <1>2, <2>0, <2>1, <2>5, <2>6 DEF Find, Refuse
  <2>7. CASE LeaveQueue(r)
    BY <1>2, <2>0, <2>1, <2>5, <2>7 DEF LeaveQueue, Refuse
  <2>8. CASE ReturnGrant(r)
    BY <1>2, <2>0, <2>3, <2>8 DEF ReturnGrant, Finish
  <2>9. CASE Admit(r)
    <3>1. CASE Finish(r, "timeout") /\ UNCHANGED idle
      BY <1>2, <2>0, <2>3, <2>9, <3>1 DEF Admit, Finish
    <3>2. ASSUME NEW v \in {"running", "spawning"}, pc' = [pc EXCEPT ![r] = v]
          PROVE  Cardinality(Owners)' = n + 1 /\ Cardinality(Owners)' <= Size
      <4>1. pc'[r] = v /\ (\A q \in Requests : q # r => pc'[q] = pc[q]) /\ pc[r] \in {"yield", "granted"}
        BY <1>0, <2>9, <3>2 DEF Admit
      <4>2. Owners' = Owners \cup {r} /\ r \notin Owners
        BY <2>1, <4>1 DEF Owners
      <4>3. IsFiniteSet(Owners)
        BY RequestsAssumption, FS_Subset DEF Owners
      <4>4. Cardinality(Owners)' = n + 1
        BY <4>2, <4>3, FS_AddElement
      <4>5. /\ permits' \in Nat /\ permits' + Count(pc', Holding) = Size
            /\ Cardinality(Owners)' = Count(pc', Owning)
        BY Counted DEF TypeOK, AdmissionInv
      <4>6. Count(pc', Owning) <= Count(pc', Holding) /\ Count(pc', Owning) \in Nat /\ Count(pc', Holding) \in Nat
        <5>1. \A f : Count(f, Owning) <= Count(f, Holding) /\ Count(f, Owning) \in Nat /\ Count(f, Holding) \in Nat
          BY CountMonotone
        <5> HIDE <3>2
        <5> QED
          BY <5>1, Zenon
      <4> QED
        BY <1>0, <4>4, <4>5, <4>6
    <3>3. CASE idle # <<>> /\ idle' = SubSeq(idle, 1, Len(idle) - 1) /\ pc' = [pc EXCEPT ![r] = "running"]
      <4>1. Len(idle') = Len(idle) - 1
        BY <1>0, <3>3, PopLast
      <4>2. Cardinality(Owners)' = n + 1
        BY <3>2, <3>3
      <4> QED
        BY <1>0, <1>1, <2>0, <4>1, <4>2 DEF CountInv
    <3>4. CASE idle = <<>> /\ idle' = idle /\ pc' = [pc EXCEPT ![r] = "spawning"]
      <4>1. Len(idle') = 0 /\ warmSlot = NoSlot
        <5>1. pc[r] # "idle"
          BY <2>9 DEF Admit
        <5> QED
          BY <1>0, <3>4, <5>1, EmptySeq DEF MainInv
      <4>2. Cardinality(Owners)' = n + 1 /\ Cardinality(Owners)' <= Size
        BY <3>2, <3>4
      <4> QED
        BY <1>0, <1>1, <2>0, <4>1, <4>2 DEF CountInv
    <3> QED
      BY <2>9, <3>1, <3>3, <3>4 DEF Admit
  <2>10. CASE Spawn(r)
    BY <1>2, <2>0, <2>1, <2>4, <2>10 DEF Spawn
  <2>11. ASSUME pc[r] \in Owning, Release(r), idle' = idle PROVE CountInv'
    BY <1>0, <1>1, <2>0, <2>2, <2>11 DEF CountInv
  <2>12. CASE SpawnFails(r)
    BY <2>1, <2>11, <2>12 DEF SpawnFails, Finish
  <2>13. CASE Start(r)
    BY <1>2, <2>0, <2>1, <2>4, <2>13 DEF Start, Kill
  <2>14. CASE RunReturns(r)
    <3>1. pc[r] \in Owning
      BY <2>1, <2>14 DEF RunReturns
    <3>2. CASE closed
      BY <1>2, <2>0, <2>1, <2>4, <2>14, <3>1, <3>2 DEF RunReturns, Kill
    <3>3. CASE ~closed
      <4>1. Release(r) /\ idle' = Append(idle, slot[r])
        BY <2>14, <3>3 DEF RunReturns, Finish
      <4>2. slot[r] \in Slots
        BY <1>0, <2>14 DEF RunReturns, OwnerInv, HasSlot, TypeOK
      <4>3. Len(idle') = Len(idle) + 1
        BY <1>0, <4>1, <4>2, AppendProperties
      <4>4. Cardinality(Owners)' = n - 1
        BY <2>2, <3>1, <4>1
      <4> QED
        BY <1>0, <1>1, <2>0, <4>3, <4>4 DEF CountInv
    <3> QED
      BY <3>2, <3>3
  <2>15. CASE RunFails(r)
    BY <1>2, <2>0, <2>1, <2>4, <2>15 DEF RunFails, Kill
  <2>16. CASE Reap(r)
    BY <1>2, <2>0, <2>1, <2>4, <2>11, <2>16 DEF Reap, Finish
  <2> QED
    BY <1>3, <2>6, <2>7, <2>8, <2>9, <2>10, <2>12, <2>13, <2>14, <2>15, <2>16 DEF RequestStep
<1>4. ASSUME UNCHANGED pc PROVE Cardinality(Owners)' = n
  BY <1>4 DEF Owners
<1>5. CASE MainStep
  <2>1. UNCHANGED pc /\ Cardinality(Owners)' = n
    BY <1>4, <1>5 DEF MainStep, WarmSpawn, WarmStart, WarmDone, Close, CloseKill, request
  <2>2. main = "warming" => n = 0
    <3>1. main = "warming" => Owners = {}
      BY <1>0 DEF MainInv, Owners, Owning
    <3> QED
      BY <3>1, FS_EmptySet
  <2>3. CASE WarmSpawn
    <3>1. main = "warming" /\ warmSlot = NoSlot /\ Len(idle) < Size /\ UNCHANGED <<idle, closing>>
      BY <2>3 DEF WarmSpawn
    <3> QED
      BY <1>0, <1>1, <2>1, <2>2, <3>1 DEF CountInv
  <2>4. CASE WarmStart
    <3>1. main = "warming" /\ warmSlot # NoSlot /\ warmSlot \in Slots /\ warmSlot' = NoSlot /\ closing' = closing
      BY <1>0, <2>4 DEF WarmStart, TypeOK
    <3>2. Len(idle') <= Len(idle) + 1 /\ Len(idle') \in Nat
      <4>1. Len(Append(idle, warmSlot)) = Len(idle) + 1
        BY <1>0, <3>1, AppendProperties
      <4> QED
        BY <1>0, <2>4, <4>1 DEF WarmStart
    <3> QED
      BY <1>0, <1>1, <2>1, <3>1, <3>2 DEF CountInv
  <2>5. CASE WarmDone
    BY <1>2, <2>1, <2>5 DEF WarmDone
  <2>6. CASE Close
    <3>1. closing' = idle /\ idle' = <<>> /\ warmSlot' = warmSlot /\ Len(idle') = 0
      BY <2>6, EmptySeq DEF Close
    <3> QED
      BY <1>0, <1>1, <2>1, <3>1 DEF CountInv
  <2>7. CASE CloseKill
    <3>1. Len(closing') <= Len(closing) /\ Len(closing') \in Nat
      <4>1. CASE closing # <<>>
        <5>1. closing' = Tail(closing) /\ Len(Tail(closing)) = Len(closing) - 1 /\ Len(closing) # 0
          BY <1>0, <2>7, <4>1, HeadTailProperties, EmptySeq DEF CloseKill
        <5> QED
          BY <1>0, <5>1
      <4>2. CASE closing = <<>>
        BY <1>0, <2>7, <4>2 DEF CloseKill
      <4> QED
        BY <4>1, <4>2
    <3>2. UNCHANGED <<idle, warmSlot>>
      BY <2>7 DEF CloseKill
    <3> QED
      BY <1>0, <1>1, <2>1, <3>1, <3>2 DEF CountInv
  <2> QED
    BY <1>5, <2>3, <2>4, <2>5, <2>6, <2>7 DEF MainStep
<1>6. CASE WorkerStep
  <2>1. UNCHANGED <<pc, idle, closing, warmSlot>>
    BY <1>6 DEF WorkerStep, WorkerReady, WorkerReplies, WorkerDies, OrphanExits, WorkerTakesJob,
                WorkerAlarm, Exit, request, server
  <2> QED
    BY <1>2, <1>4, <2>1
<1>7. CASE Environment
  <2>1. UNCHANGED <<pc, idle, closing, warmSlot>>
    BY <1>7 DEF Environment, Expire, Cancel, ServerDies, request, server
  <2> QED
    BY <1>2, <1>4, <2>1
<1>8. CASE UNCHANGED vars
  <2>1. UNCHANGED <<pc, idle, closing, warmSlot>>
    BY <1>8 DEF vars, request, server
  <2> QED
    BY <1>2, <1>4, <2>1
<1> QED
  BY <1>3, <1>5, <1>6, <1>7, <1>8 DEF Next

--------------------------------------------------------------------------------
(* The theorems. *)

(* The initial states satisfy the inductive invariant.                      *)
LEMMA InitIInv == Init => IInv
<1> SUFFICES ASSUME Init PROVE IInv
  OBVIOUS
<1>1. TypeOK
  BY SizeAssumption, EmptySeq DEF Init, TypeOK, PCs, Outcomes, WorkerStates
<1>2. Holders = {} /\ Waiters = {} /\ Queued = {} /\ Owners = {}
  BY DEF Init, Holders, Waiters, Queued, Owners, Admitting, Owning
<1>3. Cardinality({}) = 0 /\ Len(<<>>) = 0 /\ Size \in Nat /\ QueueBound \in Nat
  BY FS_EmptySet, EmptySeq, SizeAssumption, QueueBoundAssumption
<1>4. AdmissionInv
  BY <1>2, <1>3 DEF Init, AdmissionInv
<1>5. MainInv
  BY DEF Init, MainInv
<1>6. Elems(<<>>) = {}
  BY DEF Elems
<1>7. OwnerInv
  BY <1>6 DEF Init, OwnerInv, NoSharedWorker, NoLeakedWorker, Live, HasSlot
<1>8. CountInv
  BY <1>2, <1>3 DEF Init, CountInv
<1> QED
  BY <1>1, <1>4, <1>5, <1>7, <1>8 DEF IInv

(* Every step preserves the inductive invariant.                            *)
LEMMA NextIInv == IInv /\ [Next]_vars => IInv'
<1> SUFFICES ASSUME IInv, [Next]_vars PROVE IInv'
  OBVIOUS
<1>1. TypeOK /\ AdmissionInv /\ MainInv /\ OwnerInv /\ CountInv
  BY DEF IInv
<1>2. TypeOK'
  BY <1>1, TypeStep DEF AdmissionInv, OwnerInv
<1>3. AdmissionInv'
  BY <1>1, AdmissionStep
<1>4. MainInv'
  BY <1>1, MainInvStep
<1>5. OwnerInv'
  BY <1>1, OwnerStep
<1>6. CountInv'
  BY <1>2, <1>3, CountStep
<1> QED
  BY <1>2, <1>3, <1>4, <1>5, <1>6 DEF IInv

(* Every reachable state of the pool satisfies the inductive invariant. *)
THEOREM Inductive == Spec => []IInv
  BY InitIInv, NextIInv, PTL DEF Spec

(* Every variable of the pool keeps its type: in particular _waiting and   *)
(* the semaphore's value are never decremented below zero.                 *)
THEOREM TypeCorrect == Spec => []TypeOK
<1>1. IInv => TypeOK
  BY DEF IInv
<1> QED
  BY <1>1, Inductive, PTL

(* No way out of `find`, a return, a timeout, a cancellation or a failed   *)
(* spawn, loses or duplicates a permit, and no caller queues beside a free *)
(* one.                                                                    *)
THEOREM PermitsAreConserved == Spec => []PermitsConserved
<1>1. IInv => PermitsConserved
  <2> SUFFICES ASSUME IInv PROVE PermitsConserved
    OBVIOUS
  <2>1. Waiters \ Holders = Queued
    BY DEF IInv, TypeOK, Waiters, Holders, Queued, Admitting, Owning
  <2> QED
    BY <2>1 DEF IInv, AdmissionInv, PermitsConserved
<1> QED
  BY <1>1, Inductive, PTL

(* _waiting is exactly the number of callers inside admission, and never   *)
(* more than queue_bound of them are there.                                *)
THEOREM WaitingIsExact == Spec => []WaitingExact
<1>1. IInv => WaitingExact
  BY DEF IInv, AdmissionInv, WaitingExact
<1> QED
  BY <1>1, Inductive, PTL

(* A worker has at most one owner: `find` calls never share a process and  *)
(* `aclose` never kills one that a call still uses.                        *)
THEOREM WorkersAreNotShared == Spec => []NoSharedWorker
<1>1. IInv => NoSharedWorker
  BY DEF IInv, OwnerInv
<1> QED
  BY <1>1, Inductive, PTL

(* A worker has at least one owner, so some `finally` will kill or park    *)
(* it, whatever combination of crash, deadline and cancellation occurred.  *)
THEOREM WorkersAreNotLeaked == Spec => []NoLeakedWorker
<1>1. IInv => NoLeakedWorker
  BY DEF IInv, OwnerInv
<1> QED
  BY <1>1, Inductive, PTL

(* After aclose nothing is parked, and once aclose and every call have     *)
(* returned no worker process is left.                                     *)
THEOREM ClosedPoolIsEmpty == Spec => []ClosedParksNothing
<1>1. IInv => ClosedParksNothing
  <2> SUFFICES ASSUME IInv PROVE ClosedParksNothing
    OBVIOUS
  <2>1. closed => idle = <<>>
    BY DEF IInv, MainInv
  <2>2. ASSUME alive, main = "closed", \A r \in Requests : pc[r] \in {"idle", "done"} PROVE Live = {}
    <3>1. closed /\ idle = <<>> /\ closing = <<>> /\ warmSlot = NoSlot
      BY <2>2 DEF IInv, MainInv
    <3>2. Elems(idle) = {} /\ Elems(closing) = {}
      BY <3>1 DEF Elems
    <3>3. \A r \in Requests : pc[r] \notin HasSlot
      BY <2>2 DEF HasSlot
    <3> QED
      BY <2>2, <3>1, <3>2, <3>3, SlotsAssumption DEF IInv, OwnerInv, NoLeakedWorker, Live
  <2> QED
    BY <2>1, <2>2 DEF ClosedParksNothing
<1> QED
  BY <1>1, Inductive, PTL

(* A sequence has no more elements than its length.                         *)
LEMMA ElemsBound ==
  ASSUME NEW S, NEW q \in Seq(S)
  PROVE  IsFiniteSet(Elems(q)) /\ Cardinality(Elems(q)) <= Len(q) /\ Cardinality(Elems(q)) \in Nat
<1>1. Len(q) \in Nat /\ DOMAIN q = 1..Len(q) /\ q \in [1..Len(q) -> S]
  BY LenProperties
<1>2. q \in Surjection(1..Len(q), Elems(q))
  BY <1>1 DEF Surjection, Elems
<1>3. IsFiniteSet(1..Len(q)) /\ Cardinality(1..Len(q)) = Len(q)
  BY <1>1, FS_Interval
<1>4. IsFiniteSet(Elems(q)) /\ Cardinality(Elems(q)) <= Cardinality(1..Len(q))
  BY <1>2, <1>3, FS_Surjection
<1> QED
  BY <1>3, <1>4, FS_CardinalityType

(* The cardinality of a union is at most the sum of the cardinalities.      *)
LEMMA UnionBound ==
  ASSUME NEW S, IsFiniteSet(S), NEW T, IsFiniteSet(T)
  PROVE  /\ IsFiniteSet(S \cup T)
         /\ Cardinality(S \cup T) <= Cardinality(S) + Cardinality(T)
         /\ Cardinality(S) \in Nat /\ Cardinality(T) \in Nat /\ Cardinality(S \cup T) \in Nat
<1>1. /\ IsFiniteSet(S \cup T)
      /\ Cardinality(S \cup T) = Cardinality(S) + Cardinality(T) - Cardinality(S \cap T)
  BY FS_Union
<1>2. IsFiniteSet(S \cap T)
  <2>1. S \cap T \in SUBSET S
    OBVIOUS
  <2> QED
    BY <2>1, FS_Subset
<1>3. Cardinality(S) \in Nat /\ Cardinality(T) \in Nat /\ Cardinality(S \cap T) \in Nat /\ Cardinality(S \cup T) \in Nat
  BY <1>1, <1>2, FS_CardinalityType
<1> QED
  BY <1>1, <1>3

(* There are never more worker processes than `size` before the close, and *)
(* never more than twice as many after it, for every pool size, number of  *)
(* callers and pattern of crashes.                                         *)
THEOREM PoolIsBounded == Spec => []PoolBounded
<1>1. IInv => PoolBounded
  <2> SUFFICES ASSUME IInv, alive PROVE Cardinality(Live) <= IF closed THEN 2 * Size ELSE Size
    BY DEF PoolBounded
  <2> DEFINE W == IF warmSlot = NoSlot THEN {} ELSE {warmSlot}
             f == [r \in Owners |-> slot[r]]
             R == {slot[r] : r \in Owners}
             A == Elems(idle) \cup Elems(closing)
             B == W \cup R
             w == IF warmSlot = NoSlot THEN 0 ELSE 1
  <2>1. /\ idle \in Seq(Slots) /\ closing \in Seq(Slots) /\ Len(idle) \in Nat /\ Len(closing) \in Nat
        /\ Size \in Nat
    BY LenProperties, SizeAssumption DEF IInv, TypeOK
  <2>2. IsFiniteSet(Owners) /\ Cardinality(Owners) \in Nat
    BY RequestsAssumption, FS_Subset, FS_CardinalityType DEF Owners
  <2>3. IsFiniteSet(R) /\ Cardinality(R) <= Cardinality(Owners)
    <3>1. f \in Surjection(Owners, R)
      BY DEF Surjection
    <3> QED
      BY <2>2, <3>1, FS_Surjection
  <2>4. IsFiniteSet(W) /\ Cardinality(W) = w
    BY FS_EmptySet, FS_Singleton
  <2>5. Live \subseteq A \cup B
    <3> SUFFICES ASSUME NEW s \in Live PROVE s \in A \cup B
      OBVIOUS
    <3>1. \/ s \in Elems(idle) \cup Elems(closing)
          \/ s = warmSlot
          \/ \E r \in Requests : slot[r] = s /\ pc[r] \in HasSlot
      BY DEF IInv, OwnerInv, NoLeakedWorker
    <3>2. s # NoSlot
      BY SlotsAssumption DEF Live
    <3>3. \A r \in Requests : pc[r] \in HasSlot => r \in Owners
      BY DEF HasSlot, Owners, Owning
    <3>4. s = warmSlot => s \in W
      BY <3>2
    <3>5. (\E r \in Requests : slot[r] = s /\ pc[r] \in HasSlot) => s \in R
      BY <3>3
    <3> HIDE DEF W, R
    <3> QED
      BY <3>1, <3>4, <3>5
  <2>6. /\ IsFiniteSet(Elems(idle)) /\ Cardinality(Elems(idle)) <= Len(idle) /\ Cardinality(Elems(idle)) \in Nat
        /\ IsFiniteSet(Elems(closing)) /\ Cardinality(Elems(closing)) <= Len(closing)
        /\ Cardinality(Elems(closing)) \in Nat
    BY <2>1, ElemsBound
  <2> HIDE DEF W, R
  <2>7. /\ IsFiniteSet(A) /\ Cardinality(A) <= Len(idle) + Len(closing) /\ Cardinality(A) \in Nat
    <3>1. /\ IsFiniteSet(A) /\ Cardinality(A) \in Nat
          /\ Cardinality(A) <= Cardinality(Elems(idle)) + Cardinality(Elems(closing))
      BY <2>6, UnionBound
    <3> HIDE DEF A
    <3> QED
      BY <2>1, <2>6, <3>1
  <2>8. /\ IsFiniteSet(B) /\ Cardinality(B) <= w + Cardinality(Owners) /\ Cardinality(B) \in Nat
    <3>1. /\ IsFiniteSet(B) /\ Cardinality(B) \in Nat /\ Cardinality(R) \in Nat
          /\ Cardinality(B) <= Cardinality(W) + Cardinality(R)
      BY <2>3, <2>4, UnionBound
    <3> HIDE DEF B
    <3> QED
      BY <2>2, <2>3, <2>4, <3>1
  <2> HIDE DEF A, B
  <2>9. /\ IsFiniteSet(A \cup B) /\ Cardinality(A \cup B) \in Nat
        /\ Cardinality(A \cup B) <= Cardinality(A) + Cardinality(B)
    BY <2>7, <2>8, UnionBound
  <2>10. Cardinality(Live) <= Cardinality(A \cup B) /\ Cardinality(Live) \in Nat
    BY <2>5, <2>9, FS_Subset, FS_CardinalityType
  <2>11. /\ Len(idle) + Cardinality(Owners) + w <= Size /\ Len(closing) <= Size
         /\ (~closed => Len(closing) = 0)
    BY EmptySeq DEF IInv, CountInv, MainInv
  <2>12. w \in {0, 1}
    OBVIOUS
  <2> HIDE DEF w
  <2> QED
    BY <2>1, <2>2, <2>7, <2>8, <2>9, <2>10, <2>11, <2>12, SMTT(30)
<1> QED
  BY <1>1, Inductive, PTL

(* The pool's books are exact for every number of callers, every size and  *)
(* every queue bound: what the run checks of two finds, put together.      *)
THEOREM PoolIsSafe == Spec => []PoolSafe
<1>1. PermitsConserved /\ WaitingExact /\ NoLeakedWorker /\ NoSharedWorker /\ PoolBounded => PoolSafe
  BY DEF PoolSafe
<1> QED
  BY <1>1, PermitsAreConserved, WaitingIsExact, WorkersAreNotLeaked, WorkersAreNotShared, PoolIsBounded, PTL

--------------------------------------------------------------------------------
(* How often a pattern runs. *)

(* The states of a worker that has taken a job. *)
Fed == {"busy", "replied"}

(* A parked worker has no job. *)
ParkedInv == \A s \in Elems(idle) : worker[s] \notin {"starting"} \cup Fed

(* A request's pattern began at most once on an idle worker and at most    *)
(* once on a fresh one, and a worker that is not fed has not begun it.     *)
RunsInv(r) ==
  /\ runs[r] <= 2
  /\ pc[r] \in {"idle"} \cup Admitting => runs[r] = 0 /\ ~fresh[r] /\ outcome[r] = "none"
  /\ outcome[r] = "saturated" => runs[r] = 0 /\ pc[r] = "done"
  /\ outcome[r] = "matches" => runs[r] >= 1
  /\ pc[r] \in {"spawning", "starting"} => fresh[r] /\ runs[r] <= 1
  /\ pc[r] = "starting" => worker[slot[r]] \notin Fed
  /\ pc[r] = "running" =>
       /\ worker[slot[r]] \in Fed => runs[r] >= 1
       /\ worker[slot[r]] \in {"starting", "ready"} => runs[r] <= IF fresh[r] THEN 1 ELSE 0
       /\ ~fresh[r] => runs[r] <= 1
  /\ pc[r] = "killing" /\ outcome[r] = "retry" => runs[r] <= 1

HistoryInv == ParkedInv /\ \A r \in Requests : RunsInv(r)

(* A step of somebody else that leaves the request's worker alone. *)
LEMMA OtherRuns ==
  ASSUME NEW q \in Requests, RunsInv(q), pc'[q] = pc[q] \/ (pc[q] = "queued" /\ pc'[q] = "granted"),
         slot'[q] = slot[q], fresh'[q] = fresh[q], outcome'[q] = outcome[q], runs'[q] = runs[q],
         pc[q] \in HasSlot => worker'[slot[q]] = worker[slot[q]]
  PROVE  RunsInv(q)'
<1>1. CASE pc'[q] = pc[q]
  BY <1>1 DEF RunsInv, HasSlot
<1>2. CASE pc[q] = "queued" /\ pc'[q] = "granted"
  BY <1>2 DEF RunsInv, Admitting
<1> QED
  BY <1>1, <1>2

(* The worker of a request is its own. *)
LEMMA OwnWorker ==
  ASSUME IInv, NEW r \in Requests, pc[r] \in HasSlot
  PROVE  /\ slot[r] \in Slots /\ slot[r] \notin Elems(idle)
         /\ \A q \in Requests \ {r} : pc[q] \in HasSlot => slot[q] \in Slots /\ slot[q] # slot[r]
BY DEF IInv, TypeOK, OwnerInv, NoSharedWorker

(* A request that is refused, times out in the queue, or gives its permit  *)
(* back ran nothing; and a step of one request feeds no other's worker.    *)
LEMMA RequestRuns ==
  ASSUME IInv, HistoryInv, NEW r \in Requests, RequestStep(r), NEW q \in Requests
  PROVE  RunsInv(q)'
<1>1. /\ TypeOK /\ AdmissionInv /\ OwnerInv /\ alive /\ RunsInv(r) /\ RunsInv(q)
      /\ pc \in [Requests -> PCs] /\ slot \in [Requests -> Slots \cup {NoSlot}]
      /\ fresh \in [Requests -> BOOLEAN] /\ outcome \in [Requests -> Outcomes]
      /\ worker \in [Slots -> WorkerStates] /\ runs[r] \in Nat /\ runs' = runs
  BY DEF IInv, TypeOK, HistoryInv, RequestStep, Find, LeaveQueue, ReturnGrant, Admit, Spawn, SpawnFails,
         Start, RunReturns, RunFails, Reap
<1>2. CASE q # r
  <2>1. pc'[q] = pc[q] \/ (pc[q] = "queued" /\ pc'[q] = "granted")
    <3>1. CASE pc[r] \in Holding /\ Release(r)
      BY <1>1, <1>2, <3>1, ReleaseKeeps
    <3>2. CASE \E l \in PCs : pc' = [pc EXCEPT ![r] = l]
      BY <1>1, <1>2, <3>2
    <3>3. PCs = {"idle", "done", "yield", "queued", "granted", "spawning", "starting", "running", "killing"}
      BY DEF PCs, Admitting, Owning
    <3>4. (pc[r] \in Holding /\ Release(r)) \/ (\E l \in PCs : pc' = [pc EXCEPT ![r] = l])
      BY <3>3 DEF RequestStep, Find, LeaveQueue, ReturnGrant, Admit, Spawn, SpawnFails, Start,
         RunReturns, RunFails, Reap, Refuse, Kill, Finish, Holding, Owning
    <3> QED
      BY <3>1, <3>2, <3>4
  <2>2. slot'[q] = slot[q] /\ fresh'[q] = fresh[q] /\ outcome'[q] = outcome[q]
    BY <1>1, <1>2 DEF RequestStep, Find, LeaveQueue, ReturnGrant, Admit, Spawn, SpawnFails, Start,
         RunReturns, RunFails, Reap, Refuse, Kill, Finish
  <2>3. ASSUME pc[q] \in HasSlot PROVE worker'[slot[q]] = worker[slot[q]]
    <3>1. slot[q] \in Slots /\ worker[slot[q]] # "none"
      BY <1>1, <2>3 DEF OwnerInv
    <3>2. CASE worker' = worker
      BY <3>2
    <3>3. CASE Spawn(r)
      BY <1>1, <3>1, <3>3 DEF Spawn
    <3>4. CASE pc[r] \in HasSlot /\ \E v : worker' = [worker EXCEPT ![slot[r]] = v]
      <4>1. slot[q] # slot[r]
        BY <1>2, <2>3, <3>4, OwnWorker
      <4> QED
        BY <1>1, <3>1, <3>4, <4>1
    <3> QED
      BY <3>2, <3>3, <3>4 DEF RequestStep, Find, LeaveQueue, ReturnGrant, Admit, SpawnFails, Start,
         RunReturns, RunFails, Reap, Kill, HasSlot
  <2> QED
    BY <1>1, <2>1, <2>2, <2>3, OtherRuns
<1>3. CASE q = r
  <2>1. CASE Find(r)
    BY <1>1, <1>3, <2>1 DEF Find, Refuse, RunsInv, Admitting
  <2>2. CASE LeaveQueue(r)
    BY <1>1, <1>3, <2>2 DEF LeaveQueue, Refuse, RunsInv, Admitting
  <2>3. ASSUME NEW out \in {"timeout", "cancelled", "not_started"}, pc[r] \in Holding, Finish(r, out),
               fresh' = fresh
        PROVE  RunsInv(r)'
    <3>1. pc'[r] = "done" /\ outcome'[r] = out
      BY <1>1, <2>3, ReleaseKeeps DEF Finish
    <3> QED
      BY <1>1, <2>3, <3>1 DEF RunsInv, Admitting
  <2>4. CASE ReturnGrant(r) \/ SpawnFails(r)
    BY <1>3, <2>3, <2>4 DEF ReturnGrant, SpawnFails, Holding, Owning
  <2>5. CASE Admit(r)
    <3>1. CASE Finish(r, "timeout") /\ UNCHANGED fresh
      BY <1>3, <2>3, <2>5, <3>1 DEF Admit, Holding
    <3>2. CASE /\ idle # <<>> /\ slot' = [slot EXCEPT ![r] = idle[Len(idle)]]
               /\ pc' = [pc EXCEPT ![r] = "running"] /\ UNCHANGED <<fresh, outcome>>
      <4>1. idle \in Seq(Slots) /\ DOMAIN idle = 1..Len(idle) /\ Len(idle) \in Nat \ {0}
        BY <1>1, <3>2, EmptySeq, LenProperties DEF TypeOK
      <4>2. idle[Len(idle)] \in Elems(idle)
        BY <4>1 DEF Elems
      <4>3. worker' = worker
        BY <2>5 DEF Admit
      <4>4. runs[r] = 0 /\ ~fresh[r] /\ outcome[r] = "none"
        BY <1>1, <2>5 DEF Admit, RunsInv, Admitting
      <4>5. worker'[slot'[r]] \notin {"starting"} \cup Fed /\ pc'[r] = "running"
        BY <1>1, <3>2, <4>2, <4>3 DEF HistoryInv, ParkedInv
      <4> QED
        BY <1>1, <1>3, <3>2, <4>4, <4>5 DEF RunsInv, Admitting
    <3>3. CASE /\ pc' = [pc EXCEPT ![r] = "spawning"] /\ fresh' = [fresh EXCEPT ![r] = TRUE]
               /\ UNCHANGED outcome
      BY <1>1, <1>3, <2>5, <3>3 DEF Admit, RunsInv, Admitting
    <3> QED
      BY <2>5, <3>1, <3>2, <3>3 DEF Admit
  <2>6. CASE Spawn(r)
    <3>1. PICK s \in Slots : /\ worker' = [worker EXCEPT ![s] = "starting"]
                             /\ slot' = [slot EXCEPT ![r] = s]
      BY <2>6 DEF Spawn
    <3>2. worker'[slot'[r]] = "starting"
      BY <1>1, <3>1
    <3> QED
      BY <1>1, <1>3, <2>6, <3>2 DEF Spawn, RunsInv, Admitting, Fed
  <2>7. ASSUME NEW out \in Outcomes \ {"saturated"}, Kill(r, out), out = "matches" => runs[r] >= 1,
               out = "retry" => runs[r] <= 1
        PROVE  RunsInv(r)'
    BY <1>1, <2>7 DEF Kill, RunsInv, Admitting
  <2>8. CASE Start(r)
    <3>1. CASE pc' = [pc EXCEPT ![r] = "running"] /\ UNCHANGED <<outcome, worker>>
      BY <1>1, <1>3, <2>8, <3>1 DEF Start, RunsInv, Admitting, Fed
    <3> QED
      BY <1>3, <2>7, <2>8, <3>1 DEF Start, Outcomes
  <2>9. CASE RunReturns(r)
    <3>1. runs[r] >= 1
      BY <1>1, <2>9 DEF RunReturns, RunsInv, Fed
    <3>2. CASE Finish(r, "matches")
      <4>1. pc'[r] = "done" /\ outcome'[r] = "matches"
        BY <1>1, <2>9, <3>2, ReleaseKeeps DEF Finish, RunReturns, Holding, Owning
      <4> QED
        BY <1>1, <1>3, <3>1, <4>1 DEF RunsInv, Admitting
    <3> QED
      BY <1>3, <2>7, <2>9, <3>1, <3>2 DEF RunReturns, Outcomes
  <2>10. CASE RunFails(r)
    <3>1. ~fresh[r] => runs[r] <= 1
      BY <1>1, <2>10 DEF RunFails, RunsInv
    <3>2. {"no_result", "retry", "timeout", "cancelled"} \subseteq Outcomes \ {"saturated"}
      BY DEF Outcomes
    <3> QED
      BY <1>3, <2>7, <2>10, <3>1, <3>2 DEF RunFails
  <2>11. CASE Reap(r)
    <3>1. CASE Finish(r, outcome[r])
      <4>1. pc'[r] = "done" /\ outcome'[r] = outcome[r]
        BY <1>1, <2>11, <3>1, ReleaseKeeps DEF Finish, Reap, Holding, Owning
      <4> QED
        BY <1>1, <1>3, <2>11, <4>1 DEF Reap, RunsInv, Admitting
    <3>2. CASE ~Finish(r, outcome[r])
      BY <1>1, <1>3, <2>11, <3>2 DEF Reap, RunsInv, Admitting
    <3> QED
      BY <3>1, <3>2
  <2> QED
    BY <2>1, <2>2, <2>4, <2>5, <2>6, <2>8, <2>9, <2>10, <2>11 DEF RequestStep
<1> QED
  BY <1>2, <1>3

(* A worker takes a job only from the request that owns it, and once. *)
LEMMA WorkerRuns ==
  ASSUME IInv, HistoryInv, WorkerStep, NEW q \in Requests
  PROVE  RunsInv(q)'
<1>1. /\ UNCHANGED <<pc, slot, fresh, outcome, idle>> /\ RunsInv(q) /\ worker \in [Slots -> WorkerStates]
      /\ runs \in [Requests -> Nat] /\ runs[q] \in Nat
  BY DEF IInv, TypeOK, HistoryInv, WorkerStep, WorkerReady, WorkerReplies, WorkerDies, OrphanExits,
         WorkerTakesJob, WorkerAlarm, Exit, server, request
<1>2. ASSUME NEW s \in Slots, runs' = runs,
             \/ worker[s] = "starting" /\ worker' = [worker EXCEPT ![s] = "ready"]
             \/ worker[s] = "busy" /\ worker' = [worker EXCEPT ![s] = "replied"]
             \/ worker' = [worker EXCEPT ![s] = IF alive THEN "dead" ELSE "none"]
      PROVE  RunsInv(q)'
  <2>1. CASE pc[q] \in HasSlot /\ slot[q] = s
    BY <1>1, <1>2, <2>1 DEF RunsInv, Fed
  <2>2. CASE pc[q] \in HasSlot /\ slot[q] # s
    <3>1. worker'[slot[q]] = worker[slot[q]]
      BY <1>1, <1>2, <2>2, OwnWorker
    <3> QED
      BY <1>1, <1>2, <3>1, OtherRuns
  <2>3. CASE pc[q] \notin HasSlot
    BY <1>1, <1>2, <2>3, OtherRuns
  <2> QED
    BY <2>1, <2>2, <2>3
<1>3. ASSUME NEW r \in Requests, WorkerTakesJob(r) PROVE RunsInv(q)'
  <2>1. /\ pc[r] = "running" /\ worker[slot[r]] = "ready" /\ pc[r] \in HasSlot
        /\ worker' = [worker EXCEPT ![slot[r]] = "busy"] /\ runs' = [runs EXCEPT ![r] = @ + 1]
    BY <1>3 DEF WorkerTakesJob, HasSlot
  <2>2. slot[r] \in Slots /\ \A p \in Requests \ {r} : pc[p] \in HasSlot => slot[p] \in Slots /\ slot[p] # slot[r]
    BY <2>1, OwnWorker
  <2>3. CASE q = r
    <3>1. worker'[slot[r]] = "busy" /\ runs'[r] = runs[r] + 1
      BY <1>1, <2>1, <2>2
    <3> QED
      BY <1>1, <2>1, <2>3, <3>1 DEF RunsInv, Fed, Admitting
  <2>4. CASE q # r
    <3>1. runs'[q] = runs[q] /\ (pc[q] \in HasSlot => worker'[slot[q]] = worker[slot[q]])
      BY <1>1, <2>1, <2>2, <2>4
    <3> QED
      BY <1>1, <3>1, OtherRuns
  <2> QED
    BY <2>3, <2>4
<1>4. ASSUME NEW r \in Requests, WorkerAlarm(r) PROVE RunsInv(q)'
  <2>1. slot[r] \in Slots
    BY <1>4 DEF WorkerAlarm, IInv, TypeOK
  <2> QED
    BY <1>2, <1>4, <2>1 DEF WorkerAlarm, Exit
<1> QED
  BY <1>2, <1>3, <1>4 DEF WorkerStep, WorkerReady, WorkerReplies, WorkerDies, OrphanExits, Exit

(* Warming and closing touch no request's worker. *)
LEMMA MainRuns ==
  ASSUME IInv, HistoryInv, MainStep, NEW q \in Requests
  PROVE  RunsInv(q)'
<1>1. /\ UNCHANGED <<pc, slot, fresh, outcome, runs>> /\ RunsInv(q) /\ alive
      /\ TypeOK /\ OwnerInv /\ MainInv /\ worker \in [Slots -> WorkerStates]
  BY DEF IInv, TypeOK, HistoryInv, MainStep, WarmSpawn, WarmStart, WarmDone, Close, CloseKill, request
<1>2. ASSUME pc[q] \in HasSlot PROVE worker'[slot[q]] = worker[slot[q]]
  <2>1. slot[q] \in Slots /\ main \notin {"warming", "failed"}
    BY <1>1, <1>2, OwnWorker DEF MainInv, HasSlot
  <2>2. CASE worker' = worker
    BY <2>2
  <2>3. CASE CloseKill /\ closing # <<>> /\ worker' = [worker EXCEPT ![Head(closing)] = "none"]
    <3>1. Head(closing) \in Elems(closing)
      <4>1. closing \in Seq(Slots) /\ Len(closing) \in Nat \ {0} /\ DOMAIN closing = 1..Len(closing)
        BY <1>1, <2>3, EmptySeq, LenProperties DEF TypeOK
      <4>2. Head(closing) = closing[1] /\ 1 \in DOMAIN closing
        BY <2>3, <4>1, HeadTailProperties
      <4> QED
        BY <4>2 DEF Elems
    <3>2. slot[q] # Head(closing)
      BY <1>1, <3>1 DEF OwnerInv, NoSharedWorker
    <3> QED
      BY <1>1, <2>1, <2>3, <3>2
  <2> QED
    BY <2>1, <2>2, <2>3 DEF MainStep, WarmSpawn, WarmStart, WarmDone, Close, CloseKill
<1> QED
  BY <1>1, <1>2, OtherRuns

(* What is parked has replied, or never had a job. *)
LEMMA ParkedStep ==
  ASSUME IInv, HistoryInv, [Next]_vars
  PROVE  ParkedInv'
<1>1. /\ TypeOK /\ OwnerInv /\ ParkedInv /\ worker \in [Slots -> WorkerStates] /\ idle \in Seq(Slots)
      /\ Elems(idle) \subseteq Slots /\ Inj(idle)
  BY OwnerFacts DEF IInv, TypeOK, HistoryInv
<1>2. ASSUME Elems(idle') \subseteq Elems(idle), \A x \in Elems(idle) : worker'[x] = worker[x]
      PROVE  ParkedInv'
  BY <1>1, <1>2 DEF ParkedInv, Elems
<1>3. ASSUME NEW s \in Slots, s \notin Elems(idle), NEW v, worker' = [worker EXCEPT ![s] = v],
             Elems(idle') \subseteq Elems(idle)
      PROVE  ParkedInv'
  BY <1>1, <1>2, <1>3
<1>4. ASSUME NEW s \in Slots, s \notin Elems(idle), idle' = Append(idle, s),
             \A x \in Elems(idle) : worker'[x] = worker[x], worker'[s] = "ready"
      PROVE  ParkedInv'
  <2>1. Elems(idle') = Elems(idle) \cup {s}
    BY <1>1, <1>4, ElemsAppend, ZenonT(40)
  <2>2. Elems(idle)' = Elems(idle')
    BY DEF Elems
  <2> QED
    BY <1>1, <1>4, <2>1, <2>2 DEF ParkedInv, Fed
<1>5. CASE UNCHANGED <<idle, worker>>
  BY <1>2, <1>5
<1>6. ASSUME NEW r \in Requests, RequestStep(r) PROVE ParkedInv'
  <2>1. CASE Admit(r) /\ idle # <<>> /\ idle' = SubSeq(idle, 1, Len(idle) - 1)
    <3>1. \A i \in DOMAIN idle' : i \in DOMAIN idle /\ idle'[i] = idle[i]
      BY <1>1, <2>1, PopLast, EmptySeq, LenProperties
    <3>2. Elems(idle') \subseteq Elems(idle)
      BY <3>1 DEF Elems
    <3> QED
      BY <1>2, <2>1, <3>2 DEF Admit
  <2>2. CASE Spawn(r)
    <3>1. PICK s \in Slots : worker[s] = "none" /\ worker' = [worker EXCEPT ![s] = "starting"]
      BY <2>2 DEF Spawn
    <3>2. s \notin Elems(idle) /\ idle' = idle
      BY <1>1, <2>2, <3>1 DEF Spawn, OwnerInv
    <3> QED
      BY <1>3, <3>1, <3>2
  <2>3. ASSUME pc[r] \in HasSlot, idle' = idle, NEW v, worker' = [worker EXCEPT ![slot[r]] = v]
        PROVE  ParkedInv'
    BY <1>3, <2>3, OwnWorker
  <2>4. ASSUME pc[r] \in HasSlot, idle' = Append(idle, slot[r]), worker' = [worker EXCEPT ![slot[r]] = "ready"]
        PROVE  ParkedInv'
    <3>1. slot[r] \in Slots /\ slot[r] \notin Elems(idle)
      BY <2>4, OwnWorker
    <3>2. worker'[slot[r]] = "ready" /\ \A x \in Elems(idle) : worker'[x] = worker[x]
      BY <1>1, <2>4, <3>1
    <3> QED
      BY <1>4, <2>4, <3>1, <3>2
  <2>5. CASE Find(r) \/ LeaveQueue(r) \/ ReturnGrant(r) \/ SpawnFails(r)
    BY <1>5, <2>5 DEF Find, LeaveQueue, ReturnGrant, SpawnFails
  <2>6. CASE Start(r) \/ RunFails(r) \/ Reap(r)
    BY <1>5, <2>3, <2>6 DEF Start, RunFails, Reap, Kill, HasSlot
  <2>7. CASE RunReturns(r)
    BY <2>3, <2>4, <2>7 DEF RunReturns, Kill, HasSlot
  <2>8. CASE Admit(r)
    BY <1>5, <2>1, <2>8 DEF Admit
  <2> QED
    BY <1>6, <2>2, <2>5, <2>6, <2>7, <2>8 DEF RequestStep
<1>7. CASE MainStep
  <2>1. CASE WarmSpawn
    BY <1>1, <1>3, <1>5, <2>1 DEF WarmSpawn, OwnerInv
  <2>2. CASE WarmStart
    <3>1. warmSlot \in Slots /\ warmSlot \notin Elems(idle)
      BY <1>1, <2>2 DEF WarmStart, TypeOK, OwnerInv
    <3> QED
      BY <1>3, <1>4, <2>2, <3>1 DEF WarmStart
  <2>3. CASE WarmDone
    BY <1>5, <2>3 DEF WarmDone
  <2>4. CASE Close
    <3>1. Elems(idle') = {}
      BY <2>4 DEF Close, Elems
    <3> QED
      BY <1>2, <2>4, <3>1 DEF Close
  <2>5. CASE CloseKill
    <3>1. CASE closing # <<>> /\ worker' = [worker EXCEPT ![Head(closing)] = "none"]
      <4>1. Head(closing) \in Elems(closing) /\ Head(closing) \in Slots
        <5>1. closing \in Seq(Slots) /\ Len(closing) \in Nat \ {0} /\ DOMAIN closing = 1..Len(closing)
          BY <1>1, <3>1, EmptySeq, LenProperties DEF TypeOK
        <5>2. Head(closing) = closing[1] /\ 1 \in DOMAIN closing /\ closing[1] \in Slots
          BY <3>1, <5>1, HeadTailProperties, ElementOfSeq
        <5> QED
          BY <5>2 DEF Elems
      <4>2. Head(closing) \notin Elems(idle) /\ idle' = idle
        BY <1>1, <2>5, <4>1 DEF OwnerInv, NoSharedWorker, CloseKill
      <4> QED
        BY <1>3, <3>1, <4>1, <4>2
    <3> QED
      BY <1>5, <2>5, <3>1 DEF CloseKill
  <2> QED
    BY <1>7, <2>1, <2>2, <2>3, <2>4, <2>5 DEF MainStep
<1>8. CASE WorkerStep
  <2>1. idle' = idle
    BY <1>8 DEF WorkerStep, WorkerReady, WorkerReplies, WorkerDies, OrphanExits, WorkerTakesJob,
         WorkerAlarm, Exit
  <2>2. ASSUME NEW s \in Slots, WorkerReady(s) \/ WorkerReplies(s) PROVE ParkedInv'
    <3>1. s \notin Elems(idle)
      BY <1>1, <2>2 DEF WorkerReady, WorkerReplies, ParkedInv, Fed
    <3> QED
      BY <1>3, <2>1, <2>2, <3>1 DEF WorkerReady, WorkerReplies
  <2>3. ASSUME NEW s \in Slots, Exit(s) PROVE ParkedInv'
    <3>1. \A x \in Slots : worker'[x] = worker[x] \/ worker'[x] \in {"dead", "none"}
      BY <1>1, <2>3 DEF Exit
    <3> QED
      BY <1>1, <2>1, <3>1 DEF ParkedInv, Elems, Fed
  <2>4. ASSUME NEW r \in Requests, WorkerTakesJob(r) PROVE ParkedInv'
    BY <1>3, <2>1, <2>4, OwnWorker DEF WorkerTakesJob, HasSlot
  <2>5. ASSUME NEW r \in Requests, WorkerAlarm(r) PROVE ParkedInv'
    BY <1>1, <2>3, <2>5 DEF WorkerAlarm, TypeOK
  <2> QED
    BY <1>8, <2>2, <2>3, <2>4, <2>5 DEF WorkerStep, WorkerDies, OrphanExits
<1>9. CASE Environment
  BY <1>5, <1>9 DEF Environment, Expire, Cancel, ServerDies
<1>10. CASE UNCHANGED vars
  BY <1>5, <1>10 DEF vars
<1> QED
  BY <1>6, <1>7, <1>8, <1>9, <1>10 DEF Next

(* Every step keeps the account of the runs. *)
LEMMA HistoryStep ==
  ASSUME IInv, HistoryInv, [Next]_vars
  PROVE  HistoryInv'
<1>1. ASSUME NEW q \in Requests PROVE RunsInv(q)'
  <2>1. CASE UNCHANGED <<pc, slot, fresh, outcome, runs, worker>>
    BY <2>1, OtherRuns DEF HistoryInv
  <2> QED
    BY <2>1, RequestRuns, WorkerRuns, MainRuns
    DEF Next, Environment, Expire, Cancel, ServerDies, vars, request
<1> QED
  BY <1>1, ParkedStep DEF HistoryInv

(* A refusal at admission ran nothing, a match was found by a worker that  *)
(* ran the pattern, and a pattern runs at most twice: once on an idle      *)
(* worker that died of it or before it, and once on a fresh one.           *)
THEOREM OutcomesAreHonest == Spec => []OutcomeHonest
<1>1. Init => HistoryInv
  <2> SUFFICES ASSUME Init PROVE HistoryInv
    OBVIOUS
  <2>1. Elems(idle) = {}
    BY DEF Init, Elems
  <2> QED
    BY <2>1 DEF Init, HistoryInv, ParkedInv, RunsInv, Admitting
<1>2. HistoryInv => OutcomeHonest
  BY DEF HistoryInv, RunsInv, OutcomeHonest
<1> QED
  BY <1>1, <1>2, HistoryStep, Inductive, PTL DEF Spec
================================================================================
