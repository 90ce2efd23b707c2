---------------------------- MODULE ToolCalls_proofs ----------------------------
(***************************************************************************)
(* Proofs about the tools' calls. FileCalls, for any number of concurrent  *)
(* calls, of files in a call and of permits: the process-wide cap survives *)
(* every failure and cancellation, a call that has returned leaves nothing *)
(* running, and a reply that is no error speaks for every file. AskCall,   *)
(* for any jobs, chunk, cap and output: only a gated command runs, and its *)
(* process group dies with the call; an over-budget call is told a split   *)
(* that works. Judgments, for any answer: nothing is settled that no       *)
(* answer settles. FilesPlan, for any tree and paths: the plan judges what *)
(* the paths stand for and lets none of them vanish.                       *)
(***************************************************************************)
EXTENDS FileCalls, AskCall, FiniteSetTheorems, SequenceTheorems, WellFoundedInduction, TLAPS

Slots == Calls \X (0..NFiles)
TaskMaps == [Calls -> [0..NFiles -> TaskStates]]

WaitersWait == \A i \in 1..Len(waiting) : task[waiting[i][1]][waiting[i][2]] = "waiting"

(* The semaphore: its queue holds tasks that wait, none of them twice, and *)
(* its permits are conserved.                                              *)
SemaphoreInv ==
  /\ task \in TaskMaps /\ permits \in 0..MaxInflight
  /\ waiting \in Seq(Slots)
  /\ WaitersWait
  /\ \A i, j \in 1..Len(waiting) : waiting[i] = waiting[j] => i = j
  /\ InflightCapped

(* The rest of the types. *)
CallShape ==
  /\ pc \in [Calls -> {"idle", "files", "verify", "done"}]
  /\ kind \in [Calls -> Kinds \cup {"none"}]
  /\ over \in [Calls -> SUBSET Files]
  /\ half \in [Calls -> [0..NFiles -> Actions \cup {"none"}]]
  /\ scope \in [Calls -> {"open", "failure", "client"}]
  /\ reply = [c \in Calls |-> reply[c]]

Failed(c) == Tasks(c, {"config"}) \cup (IF kind[c] = "judge" THEN {} ELSE Tasks(c, {"failed"}))

(* One call, from its arguments to its reply. *)
CallInv(c) ==
  /\ pc[c] \in {"idle", "done"} => Tasks(c, Live) = {}
  /\ pc[c] = "idle" => \A f \in 0..NFiles : task[c][f] = "none"
  /\ pc[c] = "idle" => scope[c] = "open"
  /\ pc[c] # "done" => reply[c] = NoReply
  /\ pc[c] # "idle" => \A f \in Files : task[c][f] = "none" => f \in over[c]
  /\ pc[c] = "files" => task[c][Verification] = "none"
  /\ pc[c] = "verify" => task[c][Verification] # "none"
  /\ \A f \in 0..NFiles : task[c][f] = "done" => half[c][f] \in Actions
  /\ scope[c] = "failure" => Failed(c) # {}
  /\ scope[c] = "open" => Tasks(c, {"cancelled"}) = {}

IInv == CallShape /\ SemaphoreInv /\ (\A c \in Calls : CallInv(c)) /\ ReplyEarned

--------------------------------------------------------------------------------
(* The tasks of all calls as one function, and the provider calls under    *)
(* way in it.                                                              *)
AskingIn(t) == {s \in Slots : t[s[1]][s[2]] = "asking"}
Cell(t, c, f, s) == [t EXCEPT ![c][f] = s]

(* Only finitely many provider calls can be under way. *)
LEMMA AskingFinite ==
  ASSUME NEW t \in TaskMaps
  PROVE  IsFiniteSet(AskingIn(t)) /\ Cardinality(AskingIn(t)) \in Nat
<1>1. IsFiniteSet(0..NFiles)
  BY FileCallsAssumption, FS_Interval
<1>2. IsFiniteSet(Slots)
  BY <1>1, FileCallsAssumption, FS_Product DEF Slots
<1>3. AskingIn(t) \in SUBSET Slots
  BY DEF AskingIn
<1> QED
  BY <1>2, <1>3, FS_Subset, FS_CardinalityType

(* Moving one task to a state: the other tasks stay, and the number of     *)
(* provider calls under way moves with it.                                 *)
CellMoved(t, u, c, f, s) ==
  /\ u \in TaskMaps
  /\ u[c][f] = s
  /\ \A d \in Calls, g \in 0..NFiles : <<d, g>> # <<c, f>> => u[d][g] = t[d][g]
  /\ Cardinality(AskingIn(u)) = Cardinality(AskingIn(t)) + (IF s = "asking" THEN 1 ELSE 0)
                                                        - (IF t[c][f] = "asking" THEN 1 ELSE 0)

LEMMA CellStep ==
  ASSUME NEW t \in TaskMaps, NEW c \in Calls, NEW f \in 0..NFiles, NEW s \in TaskStates
  PROVE  CellMoved(t, Cell(t, c, f, s), c, f, s)
<1> DEFINE u == Cell(t, c, f, s)
<1>1. u \in TaskMaps
  BY DEF TaskMaps, Cell
<1>2. u[c][f] = s
  BY DEF TaskMaps, Cell
<1>3. \A d \in Calls, g \in 0..NFiles : <<d, g>> # <<c, f>> => u[d][g] = t[d][g]
  BY DEF TaskMaps, Cell
<1> HIDE DEF u
<1>4. <<c, f>> \in Slots
  BY DEF Slots
<1>5. \A w \in Slots : w # <<c, f>> => u[w[1]][w[2]] = t[w[1]][w[2]]
  BY <1>3 DEF Slots
<1>6. <<c, f>> \in AskingIn(t) <=> t[c][f] = "asking"
  BY <1>4 DEF AskingIn
<1> DEFINE Counted == Cardinality(AskingIn(u)) =
                        Cardinality(AskingIn(t)) + (IF s = "asking" THEN 1 ELSE 0)
                                                 - (IF t[c][f] = "asking" THEN 1 ELSE 0)
<1>7. ASSUME s = "asking" PROVE Counted
  <2>1. AskingIn(u) = AskingIn(t) \cup {<<c, f>>}
    BY <1>2, <1>4, <1>5, <1>7 DEF AskingIn
  <2>2. Cardinality(AskingIn(u)) = IF <<c, f>> \in AskingIn(t) THEN Cardinality(AskingIn(t))
                                    ELSE Cardinality(AskingIn(t)) + 1
    BY <2>1, AskingFinite, FS_AddElement, Zenon
  <2> QED
    BY <1>6, <1>7, <2>2, AskingFinite
<1>8. ASSUME s # "asking" PROVE Counted
  <2>1. AskingIn(u) = AskingIn(t) \ {<<c, f>>}
    BY <1>2, <1>4, <1>5, <1>8 DEF AskingIn
  <2>2. Cardinality(AskingIn(u)) = IF <<c, f>> \in AskingIn(t) THEN Cardinality(AskingIn(t)) - 1
                                    ELSE Cardinality(AskingIn(t))
    BY <2>1, AskingFinite, FS_RemoveElement, Zenon
  <2> QED
    BY <1>6, <1>8, <2>2, AskingFinite
<1>9. Counted
  BY <1>7, <1>8
<1> HIDE DEF Counted
<1> QED
  BY <1>1, <1>2, <1>3, <1>9 DEF u, Counted, CellMoved

--------------------------------------------------------------------------------
(* Taking the entry at k out of the semaphore's queue of distinct tasks    *)
(* leaves the others, still distinct and without it.                       *)
LEMMA RemoveAtFacts ==
  ASSUME NEW S, NEW q \in Seq(S), NEW k \in 1..Len(q),
         \A i, j \in 1..Len(q) : q[i] = q[j] => i = j
  PROVE  /\ RemoveAt(q, k) \in Seq(S)
         /\ \A i \in 1..Len(RemoveAt(q, k)) :
              \E j \in 1..Len(q) : RemoveAt(q, k)[i] = q[j] /\ j # k
         /\ \A i, j \in 1..Len(RemoveAt(q, k)) : RemoveAt(q, k)[i] = RemoveAt(q, k)[j] => i = j
<1> DEFINE t == RemoveAt(q, k)
           a == SubSeq(q, 1, k - 1)
           b == SubSeq(q, k + 1, Len(q))
<1>1. Len(q) \in Nat /\ k \in 1..Len(q) /\ \A i \in 1..Len(q) : q[i] \in S
  BY LenProperties, ElementOfSeq
<1>2. /\ a \in Seq(S)
      /\ Len(a) = k - 1
      /\ \A i \in 1..(k - 1) : a[i] = q[i]
  BY <1>1, SubSeqProperties
<1>3. /\ b \in Seq(S)
      /\ Len(b) = Len(q) - k
      /\ \A i \in 1..(Len(q) - k) : b[i] = q[k + i]
  BY <1>1, SubSeqProperties
<1>t. t = a \o b
  BY DEF RemoveAt
<1> HIDE DEF a, b, t
<1>4. /\ t \in Seq(S)
      /\ Len(t) = Len(a) + Len(b)
      /\ \A i \in 1..(Len(a) + Len(b)) : t[i] = IF i <= Len(a) THEN a[i] ELSE b[i - Len(a)]
  <2>0. a \in Seq(S) /\ b \in Seq(S)
    BY <1>2, <1>3
  <2>1. /\ a \o b \in Seq(S)
        /\ Len(a \o b) = Len(a) + Len(b)
        /\ \A i \in 1..(Len(a) + Len(b)) :
             (a \o b)[i] = IF i <= Len(a) THEN a[i] ELSE b[i - Len(a)]
    BY <2>0, ConcatProperties, SMTT(30)
  <2> QED
    BY <1>t, <2>1, Zenon
<1> DEFINE at(i) == IF i < k THEN i ELSE i + 1
<1>5. ASSUME NEW i \in 1..Len(t) PROVE at(i) \in 1..Len(q) /\ at(i) # k /\ t[i] = q[at(i)]
  <2>1. Len(a) = k - 1 /\ Len(b) = Len(q) - k /\ i \in 1..(Len(a) + Len(b)) /\ i \in Int
    BY <1>1, <1>2, <1>3, <1>4
  <2>2. CASE i < k
    <3>1. i \in 1..(k - 1) /\ i <= Len(a) /\ i \in 1..Len(q) /\ i # k
      BY <1>1, <2>1, <2>2
    <3> QED
      BY <1>2, <1>4, <2>1, <2>2, <3>1, Zenon
  <2>3. CASE ~(i < k)
    <3>1. /\ ~(i <= Len(a)) /\ i - Len(a) \in 1..(Len(q) - k) /\ k + (i - Len(a)) = i + 1
          /\ i + 1 \in 1..Len(q) /\ i + 1 # k
      BY <1>1, <2>1, <2>3
    <3>2. t[i] = b[i - Len(a)]
      BY <1>4, <2>1, <3>1, Zenon
    <3>3. b[i - Len(a)] = q[k + (i - Len(a))]
      BY <1>3, <3>1, Zenon
    <3> QED
      BY <2>3, <3>1, <3>2, <3>3, Zenon
  <2> QED
    BY <2>2, <2>3
<1>6. ASSUME NEW i \in 1..Len(t), NEW j \in 1..Len(t), t[i] = t[j] PROVE i = j
  <2>1. at(i) = at(j)
    <3> HIDE DEF at
    <3> QED
      BY <1>5, <1>6
  <2>2. i \in Int /\ j \in Int /\ k \in Int
    OBVIOUS
  <2> QED
    BY <2>1, <2>2
<1>7. ASSUME NEW i \in 1..Len(t) PROVE \E j \in 1..Len(q) : t[i] = q[j] /\ j # k
  <2> HIDE DEF at
  <2> QED
    BY <1>5
<1> QED
  BY <1>4, <1>6, <1>7 DEF t

(* Joining the queue: the new task is last, nobody is in it twice.         *)
Joined(S, q, x, t) ==
  /\ t \in Seq(S)
  /\ t # <<>>
  /\ \A i \in 1..Len(t) : t[i] = x \/ \E j \in 1..Len(q) : t[i] = q[j]
  /\ \A i, j \in 1..Len(t) : t[i] = t[j] => i = j

LEMMA AppendFacts ==
  ASSUME NEW S, NEW q \in Seq(S), NEW x \in S,
         \A i, j \in 1..Len(q) : q[i] = q[j] => i = j,
         \A i \in 1..Len(q) : q[i] # x,
         NEW t, t = Append(q, x)
  PROVE  Joined(S, q, x, t)
<1>1. /\ t \in Seq(S) /\ t # <<>> /\ Len(t) = Len(q) + 1
      /\ \A i \in 1..Len(q) : t[i] = q[i]
      /\ t[Len(q) + 1] = x
  BY AppendProperties
<1>2. Len(q) \in Nat
  BY LenProperties
<1>3. \A i \in 1..Len(t) : i \in 1..Len(q) \/ i = Len(q) + 1
  BY <1>1, <1>2
<1>4. ASSUME NEW i \in 1..Len(t), NEW j \in 1..Len(t), t[i] = t[j] PROVE i = j
  <2>1. CASE i \in 1..Len(q) /\ j \in 1..Len(q)
    BY <1>1, <1>4, <2>1
  <2>2. CASE i = Len(q) + 1 /\ j \in 1..Len(q)
    BY <1>1, <1>4, <2>2
  <2>3. CASE i \in 1..Len(q) /\ j = Len(q) + 1
    BY <1>1, <1>4, <2>3
  <2> QED
    BY <1>3, <2>1, <2>2, <2>3
<1> QED
  BY <1>1, <1>3, <1>4 DEF Joined

(* The first of the queue is served: the rest is still distinct and        *)
(* without it.                                                             *)
LEMMA TailFacts ==
  ASSUME NEW S, NEW q \in Seq(S), q # <<>>,
         \A i, j \in 1..Len(q) : q[i] = q[j] => i = j,
         NEW t, t = Tail(q)
  PROVE  /\ t \in Seq(S)
         /\ Head(q) \in S
         /\ 1 \in 1..Len(q) /\ Head(q) = q[1]
         /\ \A i \in 1..Len(t) : \E j \in 1..Len(q) : t[i] = q[j] /\ j # 1
         /\ \A i, j \in 1..Len(t) : t[i] = t[j] => i = j
<1>1. /\ Len(q) \in Nat \ {0} /\ Head(q) \in S /\ t \in Seq(S) /\ Len(t) = Len(q) - 1
      /\ Head(q) = q[1]
  BY HeadTailProperties, EmptySeq, LenProperties
<1>2. \A i \in 1..Len(t) : t[i] = q[i + 1]
  BY HeadTailProperties
<1>3. \A i \in 1..Len(t) : i + 1 \in 1..Len(q) /\ i + 1 # 1
  BY <1>1
<1>4. ASSUME NEW i \in 1..Len(t), NEW j \in 1..Len(t), t[i] = t[j] PROVE i = j
  <2>1. i + 1 = j + 1
    BY <1>2, <1>3, <1>4
  <2> QED
    BY <2>1
<1> QED
  BY <1>1, <1>2, <1>3, <1>4

--------------------------------------------------------------------------------
(* The semaphore. *)

(* What a step that moves task f of call c to s does to the tasks: of the  *)
(* others at most one changes, from the queue to its provider call.        *)
Moves(c, f, s) ==
  /\ task'[c][f] = s
  /\ \A d \in Calls, g \in 0..NFiles : <<d, g>> # <<c, f>> =>
       \/ task'[d][g] = task[d][g]
       \/ task[d][g] = "waiting" /\ task'[d][g] = "asking"

(* Where a slot is, as a pair. *)
LEMMA SlotPair ==
  ASSUME NEW w \in Slots
  PROVE  w[1] \in Calls /\ w[2] \in 0..NFiles /\ w = <<w[1], w[2]>>
BY DEF Slots

(* A task that ends while it holds a permit passes it to the first in the   *)
(* queue, or back; one that ends in the queue leaves it: no permit is lost  *)
(* or made up.                                                              *)
LEMMA EndStep ==
  ASSUME SemaphoreInv, NEW c \in Calls, NEW f \in 0..NFiles,
         NEW s \in TaskStates \ Live, task[c][f] \in Live, End(c, f, s)
  PROVE  SemaphoreInv' /\ Moves(c, f, s)
<1> DEFINE left == Cell(task, c, f, s)
           next == Head(waiting)
           held == task[c][f] = "asking" /\ MaxInflight > 0
<1>1. task \in TaskMaps /\ waiting \in Seq(Slots) /\ permits \in 0..MaxInflight /\ MaxInflight \in Nat
  BY FileCallsAssumption DEF SemaphoreInv
<1>2. \A i, j \in 1..Len(waiting) : waiting[i] = waiting[j] => i = j
  BY DEF SemaphoreInv
<1>3. s \in TaskStates /\ s # "asking" /\ s # "waiting"
  BY DEF Live
<1>4. /\ left \in TaskMaps /\ left[c][f] = s
      /\ \A d \in Calls, g \in 0..NFiles : <<d, g>> # <<c, f>> => left[d][g] = task[d][g]
      /\ Cardinality(AskingIn(left)) =
           Cardinality(AskingIn(task)) - (IF task[c][f] = "asking" THEN 1 ELSE 0)
  <2>1. CellMoved(task, left, c, f, s)
    BY <1>1, <1>3, CellStep
  <2> HIDE DEF left
  <2> QED
    BY <1>1, <1>3, <2>1, AskingFinite DEF CellMoved
<1>5. Asking = AskingIn(task) /\ Asking' = AskingIn(task')
  BY DEF Asking, AskingIn, Slots
<1>6. Cardinality(AskingIn(task)) \in Nat
  BY <1>1, AskingFinite
<1>7. MaxInflight > 0 => /\ permits + Cardinality(AskingIn(task)) = MaxInflight
                         /\ waiting # <<>> => permits = 0
  BY <1>5 DEF SemaphoreInv, InflightCapped
<1>8. \A i \in 1..Len(waiting) : /\ waiting[i] \in Slots
                                 /\ task[waiting[i][1]][waiting[i][2]] = "waiting"
  BY <1>1, ElementOfSeq DEF SemaphoreInv, WaitersWait
<1> HIDE DEF left
<1>a. CASE held /\ waiting # <<>>
  <2> DEFINE t == Cell(left, next[1], next[2], "asking")
  <2>1. task' = t /\ waiting' = Tail(waiting) /\ permits' = permits
    BY <1>a DEF End, Cell, left
  <2>2. /\ waiting' \in Seq(Slots) /\ next \in Slots
        /\ 1 \in 1..Len(waiting) /\ next = waiting[1]
        /\ \A i \in 1..Len(waiting') : \E j \in 1..Len(waiting) : waiting'[i] = waiting[j] /\ j # 1
        /\ \A i, j \in 1..Len(waiting') : waiting'[i] = waiting'[j] => i = j
    BY <1>1, <1>2, <1>a, <2>1, TailFacts
  <2>3. next[1] \in Calls /\ next[2] \in 0..NFiles /\ next = <<next[1], next[2]>>
    BY <2>2, SlotPair
  <2>4. task[next[1]][next[2]] = "waiting"
    BY <1>8, <2>2
  <2>5. next # <<c, f>> /\ <<next[1], next[2]>> # <<c, f>>
    BY <1>a, <2>3, <2>4
  <2> HIDE DEF next
  <2>6. left[next[1]][next[2]] = "waiting"
    BY <1>4, <2>3, <2>4, <2>5
  <2>7. /\ t \in TaskMaps /\ t[next[1]][next[2]] = "asking"
        /\ \A d \in Calls, g \in 0..NFiles : <<d, g>> # <<next[1], next[2]>> => t[d][g] = left[d][g]
        /\ Cardinality(AskingIn(t)) =
             Cardinality(AskingIn(left)) + 1 - (IF left[next[1]][next[2]] = "asking" THEN 1 ELSE 0)
    <3>1. "asking" \in TaskStates
      BY DEF TaskStates, Live
    <3>2. left \in TaskMaps
      BY <1>4
    <3>3. next[1] \in Calls /\ next[2] \in 0..NFiles
      BY <2>3
    <3>4. CellMoved(left, t, next[1], next[2], "asking")
      BY <3>1, <3>2, <3>3, CellStep
    <3> HIDE DEF t
    <3> QED
      BY <3>4 DEF CellMoved
  <2> HIDE DEF t
  <2>8. Moves(c, f, s)
    <3>1. t[c][f] = s
      BY <1>4, <2>5, <2>7
    <3>2. ASSUME NEW d \in Calls, NEW g \in 0..NFiles, <<d, g>> # <<c, f>>
          PROVE  t[d][g] = task[d][g] \/ (task[d][g] = "waiting" /\ t[d][g] = "asking")
      <4>1. CASE <<d, g>> = <<next[1], next[2]>>
        BY <2>4, <2>7, <4>1
      <4>2. CASE <<d, g>> # <<next[1], next[2]>>
        BY <1>4, <2>7, <3>2, <4>2
      <4> QED
        BY <4>1, <4>2
    <3> QED
      BY <2>1, <3>1, <3>2 DEF Moves
  <2>9. WaitersWait'
    <3> SUFFICES ASSUME NEW i \in 1..Len(waiting')
                 PROVE  task'[waiting'[i][1]][waiting'[i][2]] = "waiting"
      BY DEF WaitersWait
    <3>1. PICK j \in 1..Len(waiting) : waiting'[i] = waiting[j] /\ j # 1
      BY <2>2
    <3> DEFINE w == waiting[j]
    <3>2. w \in Slots /\ task[w[1]][w[2]] = "waiting"
      BY <1>8
    <3>3. w # next
      BY <1>2, <2>2, <3>1
    <3>4. w[1] \in Calls /\ w[2] \in 0..NFiles /\ w = <<w[1], w[2]>>
      BY <3>2, SlotPair
    <3> HIDE DEF w
    <3>5. <<w[1], w[2]>> # <<next[1], next[2]>> /\ <<w[1], w[2]>> # <<c, f>>
      BY <1>a, <2>3, <3>2, <3>3, <3>4
    <3>6. t[w[1]][w[2]] = "waiting"
      BY <1>4, <2>7, <3>2, <3>4, <3>5
    <3> QED
      BY <2>1, <3>1, <3>6 DEF w
  <2>10. InflightCapped'
    <3>1. Cardinality(AskingIn(t)) = Cardinality(AskingIn(task))
      BY <1>4, <1>6, <1>a, <2>6, <2>7
    <3> QED
      BY <1>5, <1>7, <1>a, <2>1, <3>1 DEF InflightCapped
  <2> QED
    BY <1>1, <2>1, <2>2, <2>7, <2>8, <2>9, <2>10 DEF SemaphoreInv
<1>b. CASE held /\ waiting = <<>>
  <2>1. task' = left /\ waiting' = waiting /\ permits' = permits + 1
    BY <1>b DEF End, Cell, left
  <2>2. Moves(c, f, s)
    BY <1>4, <2>1 DEF Moves
  <2>3. WaitersWait' /\ waiting' = <<>>
    BY <1>b, <2>1, EmptySeq DEF WaitersWait
  <2>4. permits' + Cardinality(AskingIn(task')) = MaxInflight
    BY <1>1, <1>4, <1>6, <1>7, <1>b, <2>1
  <2>5. Cardinality(AskingIn(task')) \in Nat
    BY <1>4, <2>1, AskingFinite
  <2>6. permits' \in 0..MaxInflight
    BY <1>1, <2>1, <2>4, <2>5
  <2>7. InflightCapped'
    BY <1>5, <2>3, <2>4 DEF InflightCapped
  <2> QED
    BY <1>1, <1>2, <1>4, <2>1, <2>2, <2>3, <2>6, <2>7 DEF SemaphoreInv
<1>c. CASE ~held
  <2>1. task' = left /\ permits' = permits
    BY <1>c DEF End, Cell, left
  <2>2. Moves(c, f, s)
    BY <1>4, <2>1 DEF Moves
  <2>3. /\ waiting' \in Seq(Slots)
        /\ \A i, j \in 1..Len(waiting') : waiting'[i] = waiting'[j] => i = j
        /\ \A i \in 1..Len(waiting') :
             \E j \in 1..Len(waiting) : waiting'[i] = waiting[j] /\ waiting[j] # <<c, f>>
    <3>1. CASE task[c][f] = "waiting"
      <4>1. PICK k \in 1..Len(waiting) : waiting[k] = <<c, f>> /\ waiting' = RemoveAt(waiting, k)
        BY <1>c, <3>1 DEF End
      <4>2. /\ waiting' \in Seq(Slots)
            /\ \A i \in 1..Len(waiting') : \E j \in 1..Len(waiting) : waiting'[i] = waiting[j] /\ j # k
            /\ \A i, j \in 1..Len(waiting') : waiting'[i] = waiting'[j] => i = j
        <5>1. waiting \in Seq(Slots) /\ waiting' = RemoveAt(waiting, k)
          BY <1>1, <4>1
        <5>2. /\ RemoveAt(waiting, k) \in Seq(Slots)
              /\ \A i \in 1..Len(RemoveAt(waiting, k)) :
                   \E j \in 1..Len(waiting) : RemoveAt(waiting, k)[i] = waiting[j] /\ j # k
              /\ \A i, j \in 1..Len(RemoveAt(waiting, k)) :
                   RemoveAt(waiting, k)[i] = RemoveAt(waiting, k)[j] => i = j
          BY <1>2, <5>1, RemoveAtFacts, Zenon
        <5> QED
          BY <5>1, <5>2, Zenon
      <4>3. \A j \in 1..Len(waiting) : j # k => waiting[j] # <<c, f>>
        BY <1>2, <4>1
      <4> QED
        BY <4>2, <4>3
    <3>2. CASE task[c][f] # "waiting"
      <4>1. waiting' = waiting
        BY <1>c, <3>2 DEF End
      <4>2. \A j \in 1..Len(waiting) : waiting[j] # <<c, f>>
        BY <1>8, <3>2
      <4> QED
        BY <1>1, <1>2, <4>1, <4>2
    <3> QED
      BY <3>1, <3>2
  <2>4. WaitersWait'
    <3> SUFFICES ASSUME NEW i \in 1..Len(waiting')
                 PROVE  task'[waiting'[i][1]][waiting'[i][2]] = "waiting"
      BY DEF WaitersWait
    <3>1. PICK j \in 1..Len(waiting) : waiting'[i] = waiting[j] /\ waiting[j] # <<c, f>>
      BY <2>3
    <3> DEFINE w == waiting[j]
    <3>2. w \in Slots /\ task[w[1]][w[2]] = "waiting"
      BY <1>8
    <3>3. w[1] \in Calls /\ w[2] \in 0..NFiles /\ w = <<w[1], w[2]>> /\ <<w[1], w[2]>> # <<c, f>>
      BY <3>1, <3>2, SlotPair
    <3> HIDE DEF w
    <3>4. left[w[1]][w[2]] = "waiting"
      BY <1>4, <3>2, <3>3
    <3> QED
      BY <2>1, <3>1, <3>4 DEF w
  <2>5. waiting' # <<>> => waiting # <<>>
    <3>1. SUFFICES ASSUME waiting = <<>>, waiting' # <<>> PROVE FALSE
      OBVIOUS
    <3>2. Len(waiting) = 0 /\ Len(waiting') \in Nat \ {0}
      BY <2>3, <3>1, EmptySeq, LenProperties
    <3>3. 1 \in 1..Len(waiting') /\ ~(\E j \in 1..Len(waiting) : TRUE)
      BY <3>2
    <3> QED
      BY <2>3, <3>3
  <2>6. InflightCapped'
    <3>1. MaxInflight > 0 => Cardinality(AskingIn(left)) = Cardinality(AskingIn(task))
      BY <1>4, <1>6, <1>c
    <3> QED
      BY <1>5, <1>7, <2>1, <2>5, <3>1 DEF InflightCapped
  <2> QED
    BY <1>1, <1>4, <2>1, <2>2, <2>3, <2>4, <2>6 DEF SemaphoreInv
<1> QED
  BY <1>a, <1>b, <1>c

(* A task enters: it takes a permit, or joins the queue when there is none. *)
LEMMA EnterStep ==
  ASSUME SemaphoreInv, NEW c \in Calls, NEW f \in 0..NFiles, Enter(c, f)
  PROVE  SemaphoreInv' /\ (Moves(c, f, "asking") \/ Moves(c, f, "waiting"))
<1>1. /\ task \in TaskMaps /\ waiting \in Seq(Slots) /\ permits \in 0..MaxInflight
      /\ MaxInflight \in Nat /\ task[c][f] = "ready"
      /\ \A i, j \in 1..Len(waiting) : waiting[i] = waiting[j] => i = j
  BY FileCallsAssumption DEF SemaphoreInv, Enter
<1>2. Asking = AskingIn(task) /\ Asking' = AskingIn(task')
  BY DEF Asking, AskingIn, Slots
<1>3. Cardinality(AskingIn(task)) \in Nat
  BY <1>1, AskingFinite
<1>4. MaxInflight > 0 => /\ permits + Cardinality(AskingIn(task)) = MaxInflight
                         /\ waiting # <<>> => permits = 0
  BY <1>2 DEF SemaphoreInv, InflightCapped
<1>5. \A i \in 1..Len(waiting) : /\ waiting[i] \in Slots
                                 /\ task[waiting[i][1]][waiting[i][2]] = "waiting"
  BY <1>1, ElementOfSeq DEF SemaphoreInv, WaitersWait
<1>6. <<c, f>> \in Slots /\ \A i \in 1..Len(waiting) : waiting[i] # <<c, f>>
  BY <1>1, <1>5 DEF Slots
<1>7. ASSUME NEW s \in TaskStates PROVE CellMoved(task, Cell(task, c, f, s), c, f, s)
  BY <1>1, CellStep
<1>8. "asking" \in TaskStates /\ "waiting" \in TaskStates
  BY DEF TaskStates, Live
<1>9. \A i \in 1..Len(waiting) :
        /\ waiting[i][1] \in Calls /\ waiting[i][2] \in 0..NFiles
        /\ <<waiting[i][1], waiting[i][2]>> # <<c, f>>
  BY <1>5, <1>6, SlotPair
<1>a. ASSUME task' = Cell(task, c, f, "asking"), UNCHANGED waiting,
             \/ MaxInflight = 0 /\ permits' = permits
             \/ MaxInflight > 0 /\ permits > 0 /\ permits' = permits - 1
      PROVE  SemaphoreInv' /\ Moves(c, f, "asking")
  <2>0. CellMoved(task, task', c, f, "asking")
    BY <1>7, <1>8, <1>a
  <2>1. /\ task' \in TaskMaps /\ task'[c][f] = "asking"
        /\ \A d \in Calls, g \in 0..NFiles : <<d, g>> # <<c, f>> => task'[d][g] = task[d][g]
    BY <2>0 DEF CellMoved
  <2>2. Cardinality(AskingIn(task')) = Cardinality(AskingIn(task)) + 1
    BY <1>1, <1>3, <2>0 DEF CellMoved
  <2>3. Moves(c, f, "asking")
    BY <2>1 DEF Moves
  <2>4. WaitersWait'
    BY <1>5, <1>9, <1>a, <2>1 DEF WaitersWait
  <2>5. InflightCapped'
    <3>1. MaxInflight > 0 => waiting = <<>>
      BY <1>1, <1>4, <1>a
    <3> QED
      BY <1>1, <1>2, <1>3, <1>4, <1>a, <2>2, <3>1 DEF InflightCapped
  <2>6. permits' \in 0..MaxInflight
    BY <1>1, <1>a
  <2> QED
    BY <1>1, <1>a, <2>1, <2>3, <2>4, <2>5, <2>6 DEF SemaphoreInv
<1>b. ASSUME task' = Cell(task, c, f, "waiting"), waiting' = Append(waiting, <<c, f>>),
             UNCHANGED permits, permits = 0, MaxInflight > 0
      PROVE  SemaphoreInv' /\ Moves(c, f, "waiting")
  <2>0. CellMoved(task, task', c, f, "waiting")
    BY <1>7, <1>8, <1>b
  <2>1. /\ task' \in TaskMaps /\ task'[c][f] = "waiting"
        /\ \A d \in Calls, g \in 0..NFiles : <<d, g>> # <<c, f>> => task'[d][g] = task[d][g]
    BY <2>0 DEF CellMoved
  <2>2. Cardinality(AskingIn(task')) = Cardinality(AskingIn(task))
    BY <1>1, <1>3, <2>0 DEF CellMoved
  <2>3. Moves(c, f, "waiting")
    BY <2>1 DEF Moves
  <2>4. /\ waiting' \in Seq(Slots)
        /\ \A i \in 1..Len(waiting') : \/ waiting'[i] = <<c, f>>
                                       \/ \E j \in 1..Len(waiting) : waiting'[i] = waiting[j]
        /\ \A i, j \in 1..Len(waiting') : waiting'[i] = waiting'[j] => i = j
    <3>1. Joined(Slots, waiting, <<c, f>>, waiting')
      BY <1>1, <1>2, <1>6, <1>b, AppendFacts
    <3> QED
      BY <3>1 DEF Joined
  <2>5. WaitersWait'
    <3> SUFFICES ASSUME NEW i \in 1..Len(waiting')
                 PROVE  task'[waiting'[i][1]][waiting'[i][2]] = "waiting"
      BY DEF WaitersWait
    <3>1. CASE waiting'[i] = <<c, f>>
      BY <2>1, <3>1
    <3>2. CASE \E j \in 1..Len(waiting) : waiting'[i] = waiting[j]
      <4>1. PICK j \in 1..Len(waiting) : waiting'[i] = waiting[j]
        BY <3>2
      <4>2. task'[waiting[j][1]][waiting[j][2]] = task[waiting[j][1]][waiting[j][2]]
        BY <1>9, <2>1
      <4> QED
        BY <1>5, <4>1, <4>2
    <3> QED
      BY <2>4, <3>1, <3>2
  <2>6. InflightCapped'
    BY <1>2, <1>4, <1>b, <2>2 DEF InflightCapped
  <2> QED
    BY <1>1, <1>b, <2>1, <2>3, <2>4, <2>5, <2>6 DEF SemaphoreInv
<1> QED
  BY <1>a, <1>b DEF Enter, Cell, sem

(* A step of a call that touches neither a waiting task nor a provider     *)
(* call leaves the semaphore as it was.                                    *)
LEMMA SemaphoreKept ==
  ASSUME SemaphoreInv, UNCHANGED sem, task' \in TaskMaps,
         \A d \in Calls, g \in 0..NFiles :
           \/ task'[d][g] = task[d][g]
           \/ {task[d][g], task'[d][g]} \cap {"waiting", "asking"} = {}
  PROVE  SemaphoreInv'
<1>1. waiting \in Seq(Slots) /\ waiting' = waiting /\ permits' = permits
  BY DEF SemaphoreInv, sem
<1>2. \A w \in Slots : w[1] \in Calls /\ w[2] \in 0..NFiles
  BY SlotPair
<1>3. Asking' = Asking
  BY <1>2 DEF Asking, Slots
<1>4. \A i \in 1..Len(waiting) : waiting[i] \in Slots
  BY <1>1, ElementOfSeq
<1>5. WaitersWait'
  BY <1>1, <1>2, <1>4 DEF WaitersWait, SemaphoreInv
<1> QED
  BY <1>1, <1>3, <1>5 DEF SemaphoreInv, InflightCapped

--------------------------------------------------------------------------------
(* The calls. *)

(* A task moves while its call runs.  It may leave the task group failed   *)
(* only with a failed task, or cancelled only when something cancelled it. *)
LEMMA CallsKept ==
  ASSUME CallShape, CallShape', SemaphoreInv, SemaphoreInv',
         \A d \in Calls : CallInv(d), ReplyEarned,
         NEW c \in Calls, NEW f \in 0..NFiles,
         NEW s \in {"asking", "waiting", "done", "failed", "config", "cancelled"},
         task[c][f] \in Live, Moves(c, f, s), UNCHANGED call,
         \A d \in Calls, g \in 0..NFiles : <<d, g>> # <<c, f>> => half'[d][g] = half[d][g],
         s = "done" => half'[c][f] \in Actions,
         \A d \in Calls : d # c => scope'[d] = scope[d],
         scope'[c] = "open" => scope[c] = "open" /\ s # "cancelled",
         scope'[c] = "failure" => \/ scope[c] = "failure"
                                  \/ s = "config"
                                  \/ s = "failed" /\ kind[c] # "judge"
  PROVE  (\A d \in Calls : CallInv(d)') /\ ReplyEarned'
<1>1. \A d \in Calls, g \in 0..NFiles : task[d][g] \notin Live =>
        <<d, g>> # <<c, f>> /\ task'[d][g] = task[d][g]
  BY DEF Moves, Live
<1>2. \A d \in Calls, g \in 0..NFiles : task[d][g] \in Live => task'[d][g] # "none"
  BY DEF Moves, Live
<1>3. \A d \in Calls, g \in 0..NFiles : task[d][g] \in Live /\ <<d, g>> # <<c, f>> => task'[d][g] \in Live
  BY DEF Moves, Live
<1>4. task'[c][f] = s /\ pc' = pc /\ kind' = kind /\ over' = over /\ reply' = reply
  BY DEF Moves, call
<1>5. \A d \in Calls : pc[d] \in {"idle", "done"} =>
        d # c /\ \A g \in 0..NFiles : task[d][g] \notin Live /\ task'[d][g] = task[d][g]
  BY <1>1 DEF CallInv, Tasks
<1>6. ASSUME NEW d \in Calls PROVE CallInv(d)'
  <2>1. CallInv(d)
    OBVIOUS
  <2>2. /\ (pc[d] \in {"idle", "done"} => Tasks(d, Live) = {})'
        /\ (pc[d] = "idle" => \A g \in 0..NFiles : task[d][g] = "none")'
        /\ (pc[d] = "idle" => scope[d] = "open")'
    BY <1>4, <1>5, <2>1 DEF CallInv, Tasks
  <2>3. (pc[d] # "done" => reply[d] = NoReply)'
    BY <1>4, <2>1 DEF CallInv
  <2>4. (pc[d] # "idle" => \A g \in Files : task[d][g] = "none" => g \in over[d])'
    <3>1. \A g \in Files : g \in 0..NFiles
      BY FileCallsAssumption DEF Files
    <3>2. \A g \in 0..NFiles : task'[d][g] = "none" => task[d][g] = "none"
      BY <1>1, <1>2
    <3> QED
      BY <1>4, <2>1, <3>1, <3>2 DEF CallInv
  <2>5. /\ (pc[d] = "files" => task[d][Verification] = "none")'
        /\ (pc[d] = "verify" => task[d][Verification] # "none")'
    <3>1. Verification \in 0..NFiles
      BY FileCallsAssumption DEF Verification
    <3>2. task'[d][Verification] = "none" <=> task[d][Verification] = "none"
      BY <1>1, <1>2, <3>1 DEF Live
    <3> QED
      BY <1>4, <2>1, <3>2 DEF CallInv
  <2>6. (\A g \in 0..NFiles : task[d][g] = "done" => half[d][g] \in Actions)'
    <3> SUFFICES ASSUME NEW g \in 0..NFiles, task'[d][g] = "done" PROVE half'[d][g] \in Actions
      OBVIOUS
    <3>1. CASE <<d, g>> = <<c, f>>
      BY <1>4, <3>1
    <3>2. CASE <<d, g>> # <<c, f>>
      <4>1. task[d][g] = "done"
        BY <1>1, <1>3, <3>2 DEF Live
      <4> QED
        BY <2>1, <3>2, <4>1 DEF CallInv
    <3> QED
      BY <3>1, <3>2
  <2>7. (scope[d] = "failure" => Failed(d) # {})'
    <3> SUFFICES ASSUME scope'[d] = "failure" PROVE Failed(d)' # {}
      OBVIOUS
    <3>1. CASE scope[d] = "failure"
      <4>1. PICK g \in 0..NFiles : g \in Failed(d)
        BY <2>1, <3>1 DEF CallInv, Failed, Tasks
      <4>2. task[d][g] \notin Live
        BY <4>1 DEF Failed, Tasks, Live
      <4>3. g \in Failed(d)'
        BY <1>1, <1>4, <4>1, <4>2 DEF Failed, Tasks
      <4> QED
        BY <4>3
    <3>2. CASE scope[d] # "failure"
      <4>0. d = c
        BY <3>2, Zenon
      <4>1. s = "config" \/ (s = "failed" /\ kind[c] # "judge")
        <5>1. scope'[c] = "failure" /\ scope[c] # "failure"
          BY <3>2, <4>0, Zenon
        <5> QED
          BY <5>1, Zenon
      <4>2. f \in Failed(c)'
        BY <1>4, <4>1 DEF Failed, Tasks
      <4> QED
        BY <4>0, <4>2
    <3> QED
      BY <3>1, <3>2
  <2>8. (scope[d] = "open" => Tasks(d, {"cancelled"}) = {})'
    <3> SUFFICES ASSUME scope'[d] = "open", NEW g \in 0..NFiles, task'[d][g] = "cancelled" PROVE FALSE
      BY DEF Tasks
    <3>1. scope[d] = "open" /\ (d = c => s # "cancelled")
      OBVIOUS
    <3>2. <<d, g>> # <<c, f>>
      BY <1>4, <3>1
    <3>3. task[d][g] = "cancelled"
      BY <1>1, <1>3, <3>2 DEF Live
    <3> QED
      BY <2>1, <3>1, <3>3 DEF CallInv, Tasks
  <2> QED
    BY <2>2, <2>3, <2>4, <2>5, <2>6, <2>7, <2>8 DEF CallInv
<1>7. \A d \in Calls : reply[d].status = "ok" => pc[d] = "done"
  BY DEF CallInv, NoReply
<1>8. \A d \in Calls, g \in 0..NFiles : pc[d] = "done" =>
        half'[d][g] = half[d][g] /\ task'[d][g] = task[d][g]
  BY <1>5
<1>9. Verification \in 0..NFiles /\ \A g \in Files : g \in 0..NFiles
  BY FileCallsAssumption DEF Files, Verification
<1>10. EveryFileAccounted'
  BY <1>4, <1>7, <1>8, <1>9 DEF EveryFileAccounted, ReplyEarned
<1>11. AutoIsEarned'
  BY <1>4, <1>7, <1>8, <1>9 DEF AutoIsEarned, ReplyEarned
<1> QED
  BY <1>6, <1>10, <1>11 DEF ReplyEarned

(* Nothing is asked, waited for or replied before the first call. *)
LEMMA InitIInv == Init => IInv
<1> SUFFICES ASSUME Init PROVE IInv
  OBVIOUS
<1>1. CallShape
  BY DEF Init, CallShape
<1>2. waiting \in Seq(Slots) /\ Len(waiting) = 0
  BY EmptySeq DEF Init
<1>3. task \in TaskMaps /\ permits \in 0..MaxInflight
  BY FileCallsAssumption DEF Init, TaskMaps, TaskStates
<1>4. WaitersWait /\ \A i, j \in 1..Len(waiting) : waiting[i] = waiting[j] => i = j
  BY <1>2 DEF WaitersWait
<1>5. InflightCapped
  <2>1. Asking = {}
    BY SlotPair DEF Init, Asking, Slots
  <2>2. Cardinality(Asking) = 0 /\ permits = MaxInflight /\ waiting = <<>>
    BY <2>1, FS_EmptySet DEF Init
  <2> QED
    BY <2>2, FileCallsAssumption DEF InflightCapped
<1>6. \A c \in Calls : CallInv(c)
  BY FileCallsAssumption DEF Init, CallInv, Tasks, Live, Failed, Files, Verification
<1>7. ReplyEarned
  BY DEF Init, ReplyEarned, EveryFileAccounted, AutoIsEarned, NoReply
<1> QED
  BY <1>1, <1>2, <1>3, <1>4, <1>5, <1>6, <1>7 DEF IInv, SemaphoreInv

(* The steps of a task. *)
LEMMA TaskStepIInv ==
  ASSUME IInv, NEW c \in Calls, NEW f \in 0..NFiles, TaskStep(c, f)
  PROVE  IInv'
<1> DEFINE Rest == /\ \A d \in Calls, g \in 0..NFiles : <<d, g>> # <<c, f>> => half'[d][g] = half[d][g]
                   /\ \A d \in Calls : d # c => scope'[d] = scope[d]
<1>1. CallShape /\ SemaphoreInv /\ (\A d \in Calls : CallInv(d)) /\ ReplyEarned
  BY DEF IInv
<1>2. CASE Enter(c, f)
  <2>1. task[c][f] \in Live /\ UNCHANGED <<call, half, scope>>
    BY <1>2 DEF Enter, Live
  <2>2. CallShape'
    BY <1>1, <2>1 DEF CallShape, call
  <2>3. SemaphoreInv'
    BY <1>1, <1>2, EnterStep
  <2>4. PICK s \in {"asking", "waiting"} : Moves(c, f, s)
    BY <1>1, <1>2, EnterStep
  <2>5. UNCHANGED call /\ Rest /\ scope'[c] = scope[c]
    BY <2>1
  <2>6. (\A d \in Calls : CallInv(d)') /\ ReplyEarned'
    BY <1>1, <2>1, <2>2, <2>3, <2>4, <2>5, CallsKept
  <2> QED
    BY <2>2, <2>3, <2>6 DEF IInv
<1>3. CASE Answer(c, f)
  <2>1. PICK a \in Actions : half' = [half EXCEPT ![c][f] = a]
    BY <1>3 DEF Answer
  <2>2. task[c][f] \in Live /\ End(c, f, "done") /\ UNCHANGED call /\ UNCHANGED scope
    BY <1>3 DEF Answer, Live
  <2>3. CallShape'
    BY <1>1, <2>1, <2>2 DEF CallShape, call
  <2>4. "done" \in TaskStates \ Live
    BY DEF TaskStates, Live
  <2>5. SemaphoreInv' /\ Moves(c, f, "done")
    BY <1>1, <2>2, <2>4, EndStep
  <2>6. Rest /\ scope'[c] = scope[c] /\ half'[c][f] \in Actions
    BY <1>1, <2>1, <2>2 DEF CallShape
  <2>7. (\A d \in Calls : CallInv(d)') /\ ReplyEarned'
    BY <1>1, <2>2, <2>3, <2>5, <2>6, CallsKept
  <2> QED
    BY <2>3, <2>5, <2>7 DEF IInv
<1>4. CASE Fail(c, f)
  <2>1. /\ task[c][f] \in Live /\ End(c, f, "failed") /\ UNCHANGED call /\ UNCHANGED half
        /\ scope' = [scope EXCEPT ![c] = IF kind[c] # "judge" /\ scope[c] = "open" THEN "failure" ELSE scope[c]]
    BY <1>4 DEF Fail, Live
  <2>2. CallShape'
    BY <1>1, <2>1 DEF CallShape, call
  <2>3. "failed" \in TaskStates \ Live
    BY DEF TaskStates, Live
  <2>4. SemaphoreInv' /\ Moves(c, f, "failed")
    BY <1>1, <2>1, <2>3, EndStep
  <2>5. /\ Rest /\ scope'[c] = "open" => scope[c] = "open"
        /\ scope'[c] = "failure" => scope[c] = "failure" \/ kind[c] # "judge"
    BY <1>1, <2>1 DEF CallShape
  <2>6. (\A d \in Calls : CallInv(d)') /\ ReplyEarned'
    BY <1>1, <2>1, <2>2, <2>4, <2>5, CallsKept
  <2> QED
    BY <2>2, <2>4, <2>6 DEF IInv
<1>5. CASE ConfigError(c, f)
  <2> DEFINE s == IF kind[c] = "judge" THEN "config" ELSE "failed"
  <2>1. /\ task[c][f] \in Live /\ End(c, f, s) /\ UNCHANGED call /\ UNCHANGED half
        /\ scope' = [scope EXCEPT ![c] = "failure"]
    BY <1>5 DEF ConfigError, Live
  <2>2. CallShape'
    BY <1>1, <2>1 DEF CallShape, call
  <2>3. s \in TaskStates \ Live /\ s \in {"config", "failed"} /\ (s = "failed" => kind[c] # "judge")
    BY DEF TaskStates, Live
  <2> HIDE DEF s
  <2>4. SemaphoreInv' /\ Moves(c, f, s)
    BY <1>1, <2>1, <2>3, EndStep
  <2>5. Rest /\ scope'[c] = "failure"
    BY <1>1, <2>1 DEF CallShape
  <2>6. (\A d \in Calls : CallInv(d)') /\ ReplyEarned'
    BY <1>1, <2>1, <2>2, <2>3, <2>4, <2>5, CallsKept
  <2> QED
    BY <2>2, <2>4, <2>6 DEF IInv
<1>6. CASE Unwind(c, f)
  <2>1. /\ task[c][f] \in Live /\ End(c, f, "cancelled") /\ scope[c] # "open"
        /\ UNCHANGED call /\ UNCHANGED half /\ UNCHANGED scope
    BY <1>6 DEF Unwind
  <2>2. CallShape'
    BY <1>1, <2>1 DEF CallShape, call
  <2>3. "cancelled" \in TaskStates \ Live
    BY DEF TaskStates, Live
  <2>4. SemaphoreInv' /\ Moves(c, f, "cancelled")
    BY <1>1, <2>1, <2>3, EndStep
  <2>5. Rest /\ scope'[c] = scope[c]
    BY <2>1
  <2>6. (\A d \in Calls : CallInv(d)') /\ ReplyEarned'
    BY <1>1, <2>1, <2>2, <2>4, <2>5, CallsKept
  <2> QED
    BY <2>2, <2>4, <2>6 DEF IInv
<1> QED
  BY <1>2, <1>3, <1>4, <1>5, <1>6 DEF TaskStep

(* A reply that is no error speaks for every file: of one call. *)
Earned(c) ==
  reply[c].status = "ok" =>
    /\ \A f \in Files \ over[c] : task[c][f] = "done" \/ (kind[c] = "judge" /\ f \in reply[c].skipped)
    /\ reply[c].action = "auto" =>
         /\ over[c] = {} /\ \A f \in Files : half[c][f] = "auto"
         /\ kind[c] = "gate" => half[c][Verification] = "auto"

(* ReplyEarned, call by call. *)
LEMMA EarnedIsReplyEarned == ReplyEarned <=> \A c \in Calls : Earned(c)
BY DEF ReplyEarned, EveryFileAccounted, AutoIsEarned, Earned

(* A step of call c leaves the other calls alone: only call c is to be     *)
(* looked at.                                                              *)
LEMMA OneCall ==
  ASSUME IInv, CallShape', SemaphoreInv', NEW c \in Calls,
         \A d \in Calls : d # c => /\ pc'[d] = pc[d] /\ kind'[d] = kind[d] /\ over'[d] = over[d]
                                   /\ task'[d] = task[d] /\ half'[d] = half[d]
                                   /\ scope'[d] = scope[d] /\ reply'[d] = reply[d],
         CallInv(c)', Earned(c)'
  PROVE  IInv'
<1>1. ASSUME NEW d \in Calls, d # c PROVE CallInv(d)' /\ Earned(d)'
  <2>1. CallInv(d) /\ Earned(d)
    BY EarnedIsReplyEarned DEF IInv
  <2>2. /\ pc'[d] = pc[d] /\ kind'[d] = kind[d] /\ over'[d] = over[d]
        /\ task'[d] = task[d] /\ half'[d] = half[d]
        /\ scope'[d] = scope[d] /\ reply'[d] = reply[d]
    BY <1>1
  <2>3. CallInv(d)'
    BY <2>1, <2>2 DEF CallInv, Tasks, Failed
  <2>4. Earned(d)'
    BY <2>1, <2>2 DEF Earned
  <2> QED
    BY <2>3, <2>4
<1>2. (\A d \in Calls : CallInv(d)') /\ (\A d \in Calls : Earned(d)')
  BY <1>1
<1>3. ReplyEarned'
  <2>1. ReplyEarned' <=> \A d \in Calls : Earned(d)'
    BY DEF ReplyEarned, EveryFileAccounted, AutoIsEarned, Earned
  <2> QED
    BY <1>2, <2>1
<1> QED
  BY <1>2, <1>3 DEF IInv

(* A call begins: its files to ask about get their tasks. *)
LEMMA StartIInv ==
  ASSUME IInv, NEW c \in Calls, Start(c)
  PROVE  IInv'
<1>1. PICK k \in Kinds, o \in SUBSET Files :
        /\ kind' = [kind EXCEPT ![c] = k]
        /\ over' = [over EXCEPT ![c] = o]
        /\ task' = [task EXCEPT ![c] = [f \in 0..NFiles |-> IF f \in Files \ o THEN "ready" ELSE "none"]]
  BY DEF Start
<1>2. /\ pc[c] = "idle" /\ pc' = [pc EXCEPT ![c] = "files"]
      /\ half' = half /\ scope' = scope /\ reply' = reply /\ UNCHANGED sem
  BY DEF Start
<1>3. CallShape /\ SemaphoreInv /\ CallInv(c)
  BY DEF IInv
<1>4. CallShape'
  BY <1>1, <1>2, <1>3 DEF CallShape
<1>5. task \in TaskMaps /\ task' \in TaskMaps
  BY <1>1, <1>3 DEF SemaphoreInv, TaskMaps, TaskStates, Live
<1>6. /\ \A f \in 0..NFiles : task[c][f] = "none"
      /\ \A f \in 0..NFiles : task'[c][f] = IF f \in Files \ o THEN "ready" ELSE "none"
      /\ \A d \in Calls : d # c => task'[d] = task[d]
  BY <1>1, <1>2, <1>3, <1>5 DEF CallInv, TaskMaps
<1>7. SemaphoreInv'
  <2>1. \A d \in Calls, g \in 0..NFiles :
          \/ task'[d][g] = task[d][g]
          \/ {task[d][g], task'[d][g]} \cap {"waiting", "asking"} = {}
    BY <1>6
  <2> QED
    BY <1>2, <1>3, <1>5, <2>1, SemaphoreKept
<1>8. CallInv(c)'
  <2>1. pc'[c] = "files" /\ over'[c] = o /\ reply'[c] = NoReply /\ scope'[c] = "open"
    BY <1>1, <1>2, <1>3 DEF CallShape, CallInv
  <2>2. Verification \in 0..NFiles /\ Verification \notin Files
        /\ \A f \in Files : f \in 0..NFiles
    BY FileCallsAssumption DEF Verification, Files
  <2> QED
    BY <1>6, <2>1, <2>2 DEF CallInv, Tasks, Failed, Live
<1>9. Earned(c)'
  BY <1>2, <1>3 DEF Earned, CallInv, NoReply
<1> QED
  BY <1>1, <1>2, <1>3, <1>4, <1>6, <1>7, <1>8, <1>9, OneCall DEF CallShape

(* A client's cancellation changes nothing but the scope. *)
LEMMA ClientCancelsIInv ==
  ASSUME IInv, NEW c \in Calls, ClientCancels(c)
  PROVE  IInv'
<1>1. /\ pc[c] \in {"files", "verify"} /\ scope' = [scope EXCEPT ![c] = "client"]
      /\ UNCHANGED sem /\ task' = task /\ half' = half
      /\ pc' = pc /\ kind' = kind /\ over' = over /\ reply' = reply
  BY DEF ClientCancels, call
<1>2. CallShape /\ SemaphoreInv /\ CallInv(c) /\ Earned(c)
  BY EarnedIsReplyEarned DEF IInv
<1>3. CallShape' /\ scope'[c] = "client" /\ \A d \in Calls : d # c => scope'[d] = scope[d]
  BY <1>1, <1>2 DEF CallShape
<1>4. SemaphoreInv'
  BY <1>1, <1>2, SemaphoreKept DEF SemaphoreInv
<1>5. CallInv(c)'
  BY <1>1, <1>2, <1>3 DEF CallInv, Tasks, Failed
<1>6. Earned(c)'
  BY <1>1, <1>2 DEF Earned
<1> QED
  BY <1>1, <1>3, <1>4, <1>5, <1>6, OneCall

(* The next call starts from nothing: the last one left no task behind. *)
LEMMA RecycleIInv ==
  ASSUME IInv, NEW c \in Calls, Recycle(c)
  PROVE  IInv'
<1>1. /\ pc[c] = "done"
      /\ pc' = [pc EXCEPT ![c] = "idle"]
      /\ kind' = [kind EXCEPT ![c] = "none"]
      /\ over' = [over EXCEPT ![c] = {}]
      /\ task' = [task EXCEPT ![c] = [f \in 0..NFiles |-> "none"]]
      /\ half' = [half EXCEPT ![c] = [f \in 0..NFiles |-> "none"]]
      /\ scope' = [scope EXCEPT ![c] = "open"]
      /\ reply' = [reply EXCEPT ![c] = NoReply]
      /\ UNCHANGED sem
  BY DEF Recycle
<1>2. CallShape /\ SemaphoreInv /\ CallInv(c)
  BY DEF IInv
<1>3. CallShape'
  BY <1>1, <1>2 DEF CallShape
<1>4. task \in TaskMaps /\ task' \in TaskMaps
  BY <1>1, <1>2 DEF SemaphoreInv, TaskMaps, TaskStates, Live
<1>5. /\ \A f \in 0..NFiles : task[c][f] \notin Live /\ task'[c][f] = "none"
      /\ \A d \in Calls : d # c => task'[d] = task[d]
  BY <1>1, <1>2, <1>4 DEF CallInv, Tasks, TaskMaps
<1>6. SemaphoreInv'
  <2>1. \A d \in Calls, g \in 0..NFiles :
          \/ task'[d][g] = task[d][g]
          \/ {task[d][g], task'[d][g]} \cap {"waiting", "asking"} = {}
    BY <1>5 DEF Live
  <2> QED
    BY <1>1, <1>2, <1>4, <2>1, SemaphoreKept
<1>7. pc'[c] = "idle" /\ scope'[c] = "open" /\ reply'[c] = NoReply
  BY <1>1, <1>2 DEF CallShape
<1>8. CallInv(c)'
  BY <1>5, <1>7 DEF CallInv, Tasks, Failed, Live
<1>9. Earned(c)'
  BY <1>7 DEF Earned, NoReply
<1> QED
  BY <1>1, <1>2, <1>3, <1>5, <1>6, <1>8, <1>9, OneCall DEF CallShape

(* worst_action says auto only of what is all auto. *)
LEMMA WorstIsAuto ==
  ASSUME NEW S, S \subseteq {"auto", "review", "escalate"}, Worst(S) = "auto"
  PROVE  \A a \in S : a = "auto"
BY DEF Worst

(* The reply: by then the task group has ended, so every file has an       *)
(* answer, a skip row or a failure, and a gate has its verification.       *)
LEMMA FinishIInv ==
  ASSUME IInv, NEW c \in Calls, Finish(c)
  PROVE  IInv'
<1> DEFINE asked == Tasks(c, {"done"})
<1>1. /\ pc[c] \in {"files", "verify"} /\ Tasks(c, Live) = {}
      /\ kind' = kind /\ over' = over /\ half' = half /\ scope' = scope /\ UNCHANGED sem
  BY DEF Finish
<1>2. CallShape /\ SemaphoreInv /\ CallInv(c)
  BY DEF IInv
<1>3. task \in TaskMaps /\ \A f \in 0..NFiles : task[c][f] \in TaskStates \ Live
  BY <1>1, <1>2 DEF SemaphoreInv, TaskMaps, Tasks
<1>0. Verification \in 0..NFiles /\ Verification \notin Files /\ (\A f \in Files : f \in 0..NFiles)
      /\ Files # {}
  BY FileCallsAssumption DEF Verification, Files
<1>4. ASSUME NEW r, Return(c, r), UNCHANGED task,
             r.status = "ok" =>
               /\ \A f \in Files \ over[c] : task[c][f] = "done" \/ (kind[c] = "judge" /\ f \in r.skipped)
               /\ r.action = "auto" =>
                    /\ over[c] = {} /\ \A f \in Files : half[c][f] = "auto"
                    /\ kind[c] = "gate" => half[c][Verification] = "auto"
      PROVE  IInv'
  <2>1. /\ pc' = [pc EXCEPT ![c] = "done"] /\ reply' = [reply EXCEPT ![c] = r]
        /\ task' = task
    BY <1>4 DEF Return
  <2>2. CallShape' /\ pc'[c] = "done" /\ reply'[c] = r
        /\ \A d \in Calls : d # c => pc'[d] = pc[d] /\ reply'[d] = reply[d]
    BY <1>1, <1>2, <2>1 DEF CallShape
  <2>3. SemaphoreInv'
    BY <1>1, <1>2, <1>3, <2>1, SemaphoreKept
  <2>4. CallInv(c)'
    BY <1>1, <1>2, <2>1, <2>2 DEF CallInv, Tasks, Failed
  <2>5. Earned(c)'
    BY <1>1, <1>4, <2>1, <2>2 DEF Earned
  <2> QED
    BY <1>1, <2>1, <2>2, <2>3, <2>4, <2>5, OneCall
<1>5. CASE \E r : Return(c, r) /\ r.status \in {"error", "cancelled"} /\ UNCHANGED task
  BY <1>4, <1>5
<1>6. CASE /\ Failed(c) = {} /\ (scope[c] = "client" => Tasks(c, {"cancelled"}) = {})
           /\ kind[c] = "gate" /\ pc[c] = "files" /\ asked # {}
           /\ pc' = [pc EXCEPT ![c] = "verify"]
           /\ task' = [task EXCEPT ![c][Verification] = "ready"]
           /\ UNCHANGED reply
  <2>1. task[c][Verification] = "none"
    BY <1>2, <1>6 DEF CallInv
  <2>2. /\ task' \in TaskMaps /\ task'[c][Verification] = "ready"
        /\ \A f \in 0..NFiles : f # Verification => task'[c][f] = task[c][f]
        /\ \A d \in Calls : d # c => task'[d] = task[d]
    BY <1>0, <1>3, <1>6 DEF TaskMaps, TaskStates, Live
  <2>3. CallShape' /\ pc'[c] = "verify" /\ reply' = reply
        /\ \A d \in Calls : d # c => pc'[d] = pc[d]
    BY <1>1, <1>2, <1>6 DEF CallShape
  <2>4. SemaphoreInv'
    <3>1. \A d \in Calls, g \in 0..NFiles :
            \/ task'[d][g] = task[d][g]
            \/ {task[d][g], task'[d][g]} \cap {"waiting", "asking"} = {}
      BY <2>1, <2>2
    <3> QED
      BY <1>1, <1>2, <2>2, <3>1, SemaphoreKept
  <2>5. CallInv(c)'
    <3>1. reply'[c] = NoReply /\ scope'[c] # "failure"
      BY <1>1, <1>2, <1>6, <2>3 DEF CallInv
    <3>2. \A f \in Files : task'[c][f] = "none" => f \in over'[c]
      BY <1>0, <1>1, <1>2, <2>2 DEF CallInv
    <3>3. \A f \in 0..NFiles : task'[c][f] = "done" => half'[c][f] \in Actions
      BY <1>1, <1>2, <2>2 DEF CallInv
    <3>4. scope'[c] = "open" => Tasks(c, {"cancelled"})' = {}
      BY <1>1, <1>2, <2>2 DEF CallInv, Tasks
    <3> QED
      BY <2>2, <2>3, <3>1, <3>2, <3>3, <3>4 DEF CallInv
  <2>6. Earned(c)'
    BY <1>1, <1>2, <2>3 DEF Earned, CallInv, NoReply
  <2> QED
    BY <1>1, <2>2, <2>3, <2>4, <2>5, <2>6, OneCall
<1>7. CASE /\ Failed(c) = {} /\ (scope[c] = "client" => Tasks(c, {"cancelled"}) = {})
           /\ ~(kind[c] = "gate" /\ pc[c] = "files" /\ asked # {})
           /\ Return(c, [status |-> "ok",
                         action |-> IF kind[c] = "judge" THEN "none" ELSE FileListAction(c, asked),
                         skipped |-> Tasks(c, {"failed"})])
           /\ UNCHANGED task
  <2> DEFINE r == [status |-> "ok",
                   action |-> IF kind[c] = "judge" THEN "none" ELSE FileListAction(c, asked),
                   skipped |-> Tasks(c, {"failed"})]
  <2>1. scope[c] # "failure" /\ Tasks(c, {"cancelled"}) = {}
    BY <1>2, <1>7 DEF CallInv, CallShape
  <2>2. \A f \in 0..NFiles : /\ task[c][f] \in {"none", "done", "failed"}
                             /\ task[c][f] = "failed" => kind[c] = "judge"
    BY <1>3, <1>7, <2>1 DEF Failed, Tasks, TaskStates
  <2>3. \A f \in Files \ over[c] : task[c][f] = "done" \/ (kind[c] = "judge" /\ f \in Tasks(c, {"failed"}))
    BY <1>0, <1>1, <1>2, <2>2 DEF CallInv, Tasks
  <2>4. ASSUME kind[c] # "judge", FileListAction(c, asked) = "auto"
        PROVE  /\ over[c] = {} /\ \A f \in Files : half[c][f] = "auto"
               /\ kind[c] = "gate" => half[c][Verification] = "auto"
    <3> DEFINE S == {half[c][f] : f \in asked} \cup (IF over[c] # {} THEN {"review"} ELSE {})
    <3>1. \A f \in asked : half[c][f] \in Actions
      BY <1>2 DEF CallInv, Tasks
    <3>2. S \subseteq {"auto", "review", "escalate"} /\ Worst(S) = "auto"
      BY <2>4, <3>1, FileCallsAssumption DEF FileListAction
    <3>3. \A a \in S : a = "auto"
      <4> HIDE DEF S
      <4> QED
        BY <3>2, WorstIsAuto
    <3>4. over[c] = {}
      BY <3>3
    <3>5. \A f \in asked : half[c][f] = "auto"
      BY <3>3
    <3>6. \A f \in Files : f \in asked
      BY <1>0, <2>3, <2>4, <3>4 DEF Tasks
    <3>7. kind[c] = "gate" => Verification \in asked
      <4>1. asked # {}
        BY <1>0, <3>6
      <4>2. kind[c] = "gate" => pc[c] = "verify"
        BY <1>1, <1>7, <4>1
      <4>3. pc[c] = "verify" => task[c][Verification] # "none"
        BY <1>2 DEF CallInv
      <4> QED
        BY <1>0, <2>2, <4>2, <4>3 DEF Tasks
    <3> QED
      BY <3>4, <3>5, <3>6, <3>7
  <2>5. r.status = "ok" /\ r.skipped = Tasks(c, {"failed"})
        /\ (r.action = "auto" => kind[c] # "judge" /\ FileListAction(c, asked) = "auto")
    OBVIOUS
  <2>6. Return(c, r) /\ UNCHANGED task
    BY <1>7
  <2> HIDE DEF r, asked
  <2> QED
    BY <1>4, <2>3, <2>4, <2>5, <2>6
<1>8. \/ \E r : Return(c, r) /\ r.status \in {"error", "cancelled"} /\ UNCHANGED task
      \/ /\ Failed(c) = {} /\ (scope[c] = "client" => Tasks(c, {"cancelled"}) = {})
         /\ kind[c] = "gate" /\ pc[c] = "files" /\ asked # {}
         /\ pc' = [pc EXCEPT ![c] = "verify"]
         /\ task' = [task EXCEPT ![c][Verification] = "ready"]
         /\ UNCHANGED reply
      \/ /\ Failed(c) = {} /\ (scope[c] = "client" => Tasks(c, {"cancelled"}) = {})
         /\ ~(kind[c] = "gate" /\ pc[c] = "files" /\ asked # {})
         /\ Return(c, [status |-> "ok",
                       action |-> IF kind[c] = "judge" THEN "none" ELSE FileListAction(c, asked),
                       skipped |-> Tasks(c, {"failed"})])
         /\ UNCHANGED task
  BY DEF Finish, Failed
<1> QED
  BY <1>5, <1>6, <1>7, <1>8

(* Every step of the process keeps the invariant. *)
LEMMA NextIInv == IInv /\ [Next]_vars => IInv'
<1> SUFFICES ASSUME IInv, [Next]_vars PROVE IInv'
  OBVIOUS
<1>1. ASSUME NEW c \in Calls, Start(c) PROVE IInv'
  BY <1>1, StartIInv
<1>2. ASSUME NEW c \in Calls, ClientCancels(c) PROVE IInv'
  BY <1>2, ClientCancelsIInv
<1>3. ASSUME NEW c \in Calls, Finish(c) PROVE IInv'
  BY <1>3, FinishIInv
<1>4. ASSUME NEW c \in Calls, Recycle(c) PROVE IInv'
  BY <1>4, RecycleIInv
<1>5. ASSUME NEW c \in Calls, NEW f \in 0..NFiles, TaskStep(c, f) PROVE IInv'
  BY <1>5, TaskStepIInv
<1>6. CASE UNCHANGED vars
  <2> USE <1>6 DEF vars, call, sem
  <2>1. CallShape'
    BY DEF IInv, CallShape
  <2>2. SemaphoreInv'
    BY DEF IInv, SemaphoreInv, WaitersWait, InflightCapped, Asking
  <2>3. \A c \in Calls : CallInv(c)'
    BY DEF IInv, CallInv, Tasks, Failed
  <2>4. ReplyEarned'
    BY DEF IInv, ReplyEarned, EveryFileAccounted, AutoIsEarned
  <2> QED
    BY <2>1, <2>2, <2>3, <2>4 DEF IInv
<1> QED
  BY <1>1, <1>2, <1>3, <1>4, <1>5, <1>6 DEF Next

(* Together: the invariant of the process. *)
LEMMA Invariant == Spec => []IInv
BY InitIInv, NextIInv, PTL DEF Spec

--------------------------------------------------------------------------------
(* The types. *)
THEOREM TypesHold == Spec => []TypeOK
<1>1. IInv => TypeOK
  BY DEF IInv, CallShape, SemaphoreInv, WaitersWait, TaskMaps, TypeOK
<1> QED
  BY <1>1, Invariant, PTL

(* Runtime._inflight and the task groups: whatever calls fail, are         *)
(* cancelled and overlap, every permit is free or held by exactly one      *)
(* provider call, nobody waits while one is free, and a call that has      *)
(* returned has no task running or waiting.                                *)
THEOREM CallsAreContained == Spec => []CallsContained
<1>1. IInv => CallsContained
  BY DEF IInv, SemaphoreInv, CallInv, CallsContained, NothingLeftRunning
<1> QED
  BY <1>1, Invariant, PTL

(* review_file_list, jev_gate and jev_files_judge: a reply that is no      *)
(* error has an answer or a skip row for every file asked about, and says  *)
(* auto only when every file and the gate's claims came to auto.           *)
THEOREM RepliesAreEarned == Spec => []ReplyEarned
<1>1. IInv => ReplyEarned
  BY DEF IInv
<1> QED
  BY <1>1, Invariant, PTL

--------------------------------------------------------------------------------
(* Counting up, and functions defined by counting up. *)

(* A set that holds 0 and the successor of what it holds. *)
LEMMA CountUp ==
  ASSUME NEW n \in Nat, NEW S, 0 \in S, \A i \in 1..n : i - 1 \in S => i \in S
  PROVE  \A i \in 0..n : i \in S
<1> DEFINE B == {i \in 0..n : i \notin S}
           T == {1..k : k \in B}
<1> SUFFICES ASSUME B # {} PROVE FALSE
  OBVIOUS
<1>0. B \subseteq Nat
  OBVIOUS
<1>1. \A k \in B : IsFiniteSet(1..k) /\ (1..k) \in SUBSET Nat
  BY <1>0, FS_Interval
<1>2. T \subseteq FiniteSubsetsOf(Nat) /\ T # {}
  BY <1>1 DEF FiniteSubsetsOf
<1>3. PICK t \in T : \A y \in T : ~(<<y, t>> \in StrictSubsetOrdering(Nat))
  <2> HIDE DEF T
  <2> QED
    BY <1>2, FS_StrictSubsetOrderingWellFounded, WFMin
<1>4. PICK x \in B : t = 1..x
  OBVIOUS
<1>5. x \in 1..n /\ x \notin S /\ x - 1 \in 0..n /\ x - 1 \notin S
  BY <1>4
<1>6. x - 1 \in B /\ x \in Nat /\ x - 1 \in Nat
  BY <1>5
<1>7. <<1..(x - 1), 1..x>> \in StrictSubsetOrdering(Nat)
  <2>1. x \in 1..x /\ x \notin 1..(x - 1) /\ (1..(x - 1)) \subseteq 1..x /\ (1..(x - 1)) \in SUBSET Nat
        /\ (1..x) \in SUBSET Nat
    BY <1>5, <1>6
  <2> QED
    BY <2>1 DEF StrictSubsetOrdering
<1> QED
  BY <1>3, <1>4, <1>6, <1>7

(* A step for each number, taken from a in the set D, has its trace. *)
Steps(n, D) == [1..n -> [D -> D]]
IsTrace(g, n, D, a, step) == g \in [0..n -> D] /\ g[0] = a /\ \A i \in 1..n : g[i] = step[i][g[i - 1]]

LEMMA Iterate ==
  ASSUME NEW n \in Nat, NEW D, NEW a \in D, NEW step \in Steps(n, D)
  PROVE  \E g : IsTrace(g, n, D, a, step)
<1> USE DEF Steps
<1> DEFINE Trace(g, m) == g[0] = a /\ \A i \in 1..m : g[i] = step[i][g[i - 1]]
           S == {m \in 0..n : \E g \in [0..m -> D] : Trace(g, m)}
<1>1. 0 \in S
  <2> DEFINE g == [i \in 0..0 |-> a]
  <2>1. g \in [0..0 -> D] /\ Trace(g, 0)
    OBVIOUS
  <2>2. 0 \in 0..n
    OBVIOUS
  <2> QED
    BY <2>1, <2>2
<1>2. ASSUME NEW m \in 1..n, m - 1 \in S PROVE m \in S
  <2>1. PICK h \in [0..(m - 1) -> D] : Trace(h, m - 1)
    BY <1>2
  <2> DEFINE g == [i \in 0..m |-> IF i = m THEN step[m][h[m - 1]] ELSE h[i]]
  <2>2. m \in Nat /\ m - 1 \in 0..(m - 1) /\ h[m - 1] \in D /\ step[m] \in [D -> D] /\ m \in 0..n
    OBVIOUS
  <2>3. step[m][h[m - 1]] \in D
    BY <2>2
  <2>4. g \in [0..m -> D]
    BY <2>2, <2>3
  <2>5. \A i \in 0..(m - 1) : g[i] = h[i] /\ i \in 0..m
    BY <2>2
  <2>6. g[m] = step[m][h[m - 1]] /\ g[m - 1] = h[m - 1]
    BY <2>2, <2>5
  <2> HIDE DEF g
  <2>7. ASSUME NEW i \in 1..m PROVE g[i] = step[i][g[i - 1]]
    <3>1. CASE i = m
      BY <2>6, <3>1
    <3>2. CASE i # m
      <4>1. i \in 1..(m - 1) /\ i \in 0..(m - 1) /\ i - 1 \in 0..(m - 1)
        BY <2>2, <3>2
      <4> QED
        BY <2>1, <2>5, <4>1
    <3> QED
      BY <3>1, <3>2
  <2>8. g[0] = a
    <3>1. 0 \in 0..(m - 1)
      BY <2>2
    <3> QED
      BY <2>1, <2>5, <3>1
  <2> QED
    BY <2>2, <2>4, <2>7, <2>8
<1>3. n \in S
  <2> HIDE DEF S
  <2>1. \A i \in 0..n : i \in S
    BY <1>1, <1>2, CountUp
  <2> QED
    BY <2>1
<1> QED
  BY <1>3 DEF IsTrace

--------------------------------------------------------------------------------
(* The least of some naturals. *)
LEMMA LeastOf ==
  ASSUME NEW S \in SUBSET Nat, S # {}
  PROVE  Min(S) \in S /\ \A y \in S : Min(S) <= y
<1>1. PICK m \in S : TRUE
  OBVIOUS
<1> DEFINE Lower == {i \in Nat : \A y \in S : i <= y}
<1>2. 0 \in Lower
  OBVIOUS
<1>3. \E x \in S : \A y \in S : x <= y
  <2> SUFFICES ASSUME ~\E x \in S : \A y \in S : x <= y PROVE FALSE
    OBVIOUS
  <2>1. ASSUME NEW i \in 1..(m + 1), i - 1 \in Lower PROVE i \in Lower
    <3>1. i \in Nat /\ i - 1 \in Nat /\ \A y \in S : i - 1 <= y
      BY <1>1, <2>1
    <3>2. i - 1 \notin S
      BY <3>1
    <3>3. \A y \in S : y \in Nat /\ y # i - 1
      BY <3>2
    <3> QED
      BY <3>1, <3>3
  <2>2. m + 1 \in Nat /\ m + 1 \in 0..(m + 1)
    BY <1>1
  <2> HIDE DEF Lower
  <2>3. m + 1 \in Lower
    BY <1>2, <2>1, <2>2, CountUp
  <2>4. m + 1 <= m
    BY <1>1, <2>3 DEF Lower
  <2> QED
    BY <1>1, <2>4
<1> QED
  BY <1>3 DEF Min

(* The largest of some naturals under a bound. *)
LEMMA LargestOf ==
  ASSUME NEW S, S # {}, NEW b \in Nat, \A x \in S : x \in Nat /\ x <= b
  PROVE  Max(S) \in S /\ \A x \in S : Max(S) >= x
<1> DEFINE T == {k \in Nat : \A x \in S : x <= k}
<1>1. T \in SUBSET Nat /\ T # {}
  <2>1. b \in T
    OBVIOUS
  <2> QED
    BY <2>1
<1>2. Min(T) \in T /\ \A y \in T : Min(T) <= y
  <2> HIDE DEF T
  <2> QED
    BY <1>1, LeastOf
<1> DEFINE m == Min(T)
<1>3. m \in Nat /\ \A x \in S : x <= m
  BY <1>2
<1>4. m \in S
  <2> SUFFICES ASSUME m \notin S PROVE FALSE
    OBVIOUS
  <2>1. \A x \in S : x <= m - 1 /\ x \in Nat
    <3> HIDE DEF m
    <3> QED
      BY <1>3
  <2>2. m - 1 \in Nat
    <3>1. PICK x \in S : TRUE
      OBVIOUS
    <3> HIDE DEF m
    <3> QED
      BY <1>3, <2>1, <3>1
  <2>3. m - 1 \in T
    <3> HIDE DEF m
    <3> QED
      BY <2>1, <2>2
  <2>4. m <= m - 1
    BY <1>2, <2>3
  <2> HIDE DEF m
  <2> QED
    BY <1>3, <2>4
<1>5. \A x \in S : m >= x
  <2> HIDE DEF m
  <2> QED
    BY <1>3
<1> HIDE DEF m
<1> QED
  BY <1>4, <1>5 DEF Max

(* The lead over the runner-up is a lead over every other option. *)
LEMMA MarginLeads ==
  ASSUME NEW K, IsFiniteSet(K), NEW p, DOMAIN p = K, \A k \in K : p[k] \in 0..100,
         NEW pick \in K, \A k \in K : p[k] <= p[pick], NEW m \in Int, margin(p) >= m
  PROVE  \A k \in K \ {pick} : p[pick] - p[k] >= m
<1> SUFFICES ASSUME NEW k \in K, k # pick PROVE p[pick] - p[k] >= m
  OBVIOUS
<1> DEFINE top == CHOOSE x \in DOMAIN p : \A j \in DOMAIN p : p[j] <= p[x]
           rest == {p[j] : j \in DOMAIN p \ {top}}
<1>1. top \in K /\ \A j \in K : p[j] <= p[top]
  BY Zenon
<1>2. \A j \in K : p[j] \in Nat /\ p[j] <= 100
  OBVIOUS
<1>3. p[top] = p[pick]
  <2> HIDE DEF top
  <2> QED
    BY <1>1, <1>2
<1>4. ~(Cardinality(K) < 2)
  <2>1. {k} \cup {pick} \in SUBSET K
    OBVIOUS
  <2>2. IsFiniteSet({k}) /\ Cardinality({k}) = 1
    BY FS_Singleton
  <2>3. Cardinality({k} \cup {pick}) = 2
    BY <2>2, FS_AddElement
  <2>4. 2 <= Cardinality(K) /\ Cardinality(K) \in Nat
    BY <2>1, <2>3, FS_Subset, FS_CardinalityType
  <2> QED
    BY <2>4
<1>5. margin(p) = p[top] - Max(rest)
  BY <1>4 DEF margin
<1>6. rest # {} /\ \A x \in rest : x \in Nat /\ x <= 100
  <2> HIDE DEF top
  <2>1. p[k] \in rest \/ p[pick] \in rest
    OBVIOUS
  <2> QED
    BY <1>2, <2>1
<1>7. Max(rest) \in rest /\ \A x \in rest : Max(rest) >= x
  <2> HIDE DEF rest
  <2> QED
    BY <1>6, LargestOf
<1>8. Max(rest) >= p[k]
  <2>1. CASE k = top
    <3>1. p[pick] \in rest
      BY <2>1
    <3> QED
      BY <1>3, <1>7, <2>1, <3>1
  <2>2. CASE k # top
    BY <1>7, <2>2
  <2> QED
    BY <2>1, <2>2
<1>9. Max(rest) \in Nat /\ p[top] \in Nat /\ p[k] \in Nat
  BY <1>1, <1>2, <1>6, <1>7
<1> HIDE DEF rest, top
<1> QED
  BY <1>3, <1>5, <1>8, <1>9

(* The checks of a handler, whose codes are not "none", all passed. *)
LEMMA NoneFailed ==
  ASSUME NEW n \in Nat, NEW checks, DOMAIN checks = 1..n, \A i \in 1..n : checks[i][2] # "none",
         First(checks) = "none"
  PROVE  \A i \in 1..n : ~checks[i][1]
<1> DEFINE failed == {i \in DOMAIN checks : checks[i][1]}
<1>1. failed \in SUBSET Nat /\ failed \subseteq 1..n
  OBVIOUS
<1>2. failed = {}
  <2> SUFFICES ASSUME failed # {} PROVE FALSE
    OBVIOUS
  <2>1. Min(failed) \in failed
    <3> HIDE DEF failed
    <3> QED
      BY <1>1, LeastOf
  <2>2. First(checks) = checks[Min(failed)][2]
    BY DEF First
  <2> HIDE DEF failed
  <2> QED
    BY <1>1, <2>1, <2>2
<1> QED
  BY <1>2

--------------------------------------------------------------------------------
(* jev_ask and its command. *)

(* The wait is over: the group has been killed. *)
Killed == {"joining", "checking", "alive", "decoding"}

(* Jev's word that the command only reads. *)
ReadsOnly(g) ==
  LET p == g.effect.probabilities IN
  /\ g.destructive \in 0..69
  /\ g.effect.choice = <<"read_only">> /\ \A e \in Effects : p[e] <= p[<<"read_only">>]
  /\ \/ g.effect.confidence \in 50..100
     \/ /\ g.effect.confidence \notin 0..100
        /\ \A e \in Effects \ {<<"read_only">>} : p[<<"read_only">>] - p[e] >= 40

Permitted(j) == j.ask_commands /\ j.command \subseteq {"plain"}

(* The types the steps rely on. *)
AskShape ==
  /\ stage \in {"idle", "matching", "asked", "gate", "ask", "done"}
  /\ watch \in {"none", "spawning", "waiting", "killing"} \cup Killed
  /\ unread \in [Streams -> Nat] /\ got \in [Streams -> Nat]
  /\ reader \in [Streams -> {"none", "reading", "eof", "full"}]

(* The processes, by where the call and its thread are. *)
GroupInv ==
  /\ watch # "none" => stage = "gate"
  /\ watch \in {"none"} \cup Killed => shell # "running" /\ child # "running"
  /\ stage \in {"idle", "matching", "asked"} \/ (stage = "gate" /\ watch \in {"none", "spawning"}) =>
       shell = "none" /\ child = "none"

(* A command that is about to run, or ran, was let through. *)
GatedInv ==
  /\ stage = "gate" => Permitted(job)
  /\ watch # "none" \/ shell # "none" => Permitted(job) /\ ReadsOnly(gate)

(* A drain thread that ended has read its pipe to the end, or too much of  *)
(* it; a run whose output is taken ended in time, and both threads ended.  *)
OutputInv ==
  /\ \A s \in Streams : reader[s] = "eof" => unread[s] = 0
  /\ \A s \in Streams : reader[s] = "full" => got[s] > ByteCap
  /\ watch \in {"alive", "decoding"} => ~timed_out
  /\ watch = "decoding" => \A s \in Streams : Ended(s)
  /\ stage = "ask" /\ Given(job) => ~timed_out /\ \A s \in Streams : Ended(s)

AskInv == AskShape /\ GroupInv /\ GatedInv /\ OutputInv

LEMMA InitAskInv == AskInit => AskInv
BY DEF AskInit, JudgmentInit, NotRunning, AskInv, AskShape, GroupInv, GatedInv, OutputInv, Killed

(* The gate's margin over the three effects. *)
LEMMA MarginOfEffects ==
  ASSUME NEW p, DOMAIN p = Effects, \A e \in Effects : p[e] \in 0..100,
         \A e \in Effects : p[e] <= p[<<"read_only">>], margin(p) >= 40
  PROVE  \A e \in Effects \ {<<"read_only">>} : p[<<"read_only">>] - p[e] >= 40
<1>1. <<"read_only">> \in Effects /\ 40 \in Int
  BY DEF Effects
<1>2. IsFiniteSet(Effects)
  <2>1. IsFiniteSet({<<"read_only">>}) /\ IsFiniteSet({<<"read_only">>} \cup {<<"reversible">>})
    BY FS_Singleton, FS_AddElement
  <2>2. IsFiniteSet(({<<"read_only">>} \cup {<<"reversible">>}) \cup {<<"irreversible">>})
    BY <2>1, FS_AddElement
  <2>3. ({<<"read_only">>} \cup {<<"reversible">>}) \cup {<<"irreversible">>} = Effects
    BY DEF Effects
  <2> QED
    BY <2>2, <2>3
<1> QED
  BY <1>1, <1>2, MarginLeads

(* What the gate lets through reads only. *)
LEMMA NotRefused ==
  ASSUME NEW effect, NEW destructive, ~command_refusal(effect, destructive)
  PROVE  ReadsOnly([effect |-> effect, destructive |-> destructive])
<1> DEFINE a == validate_choice(effect, Effects)
           p == effect.probabilities
<1>1. /\ a.valid /\ validate_noul(destructive) # Unknown /\ ~(destructive >= 70)
      /\ ConfidentEnough(a) /\ a.choice = <<"read_only">>
  BY DEF command_refusal
<1>2. Shaped(effect, Effects) /\ Argmax(effect) /\ a = Choice(effect)
  BY <1>1 DEF validate_choice, Invalid
<1>3. destructive \in 0..69
  BY <1>1 DEF validate_noul, unit_interval, Unknown
<1>4. /\ effect.choice = <<"read_only">> /\ DOMAIN p = Effects /\ \A e \in Effects : p[e] \in 0..100
      /\ \A e \in Effects : p[e] <= p[<<"read_only">>]
      /\ a.probabilities = p /\ a.confidence = unit_interval(effect.confidence)
  BY <1>1, <1>2 DEF Choice, Shaped, Argmax, confidence_of
<1>5. CASE effect.confidence \in 0..100
  <2>1. effect.confidence \in 50..100
    BY <1>1, <1>4, <1>5 DEF ConfidentEnough, unit_interval, Unknown
  <2> QED
    BY <1>3, <1>4, <2>1 DEF ReadsOnly
<1>6. CASE effect.confidence \notin 0..100
  <2>1. margin(p) >= 40
    BY <1>1, <1>4, <1>6 DEF ConfidentEnough, unit_interval, Unknown
  <2>2. \A e \in Effects \ {<<"read_only">>} : p[<<"read_only">>] - p[e] >= 40
    BY <1>4, <2>1, MarginOfEffects
  <2> QED
    BY <1>3, <1>4, <1>6, <2>2 DEF ReadsOnly
<1> QED
  BY <1>5, <1>6

(* The other tools' calls never come near the run. *)
LEMMA JudgmentsKeepAskInv ==
  ASSUME AskInv, JudgmentNext \/ PlanFiles, UNCHANGED <<parts, gate, run, cancelled>>
  PROVE  AskInv'
<1>1. UNCHANGED <<gate, watch, shell, child, stray, unread, got, reader, timed_out, overflow>>
  BY DEF run, processes, drains, flags
<1>2. stage \in {"idle", "matching", "asked"} /\ stage' \in {"matching", "asked", "done"}
  <2>1. CASE Call \/ find_candidates \/ BuildExtract
    BY <2>1 DEF Call, find_candidates, BuildExtract, Done
  <2>2. CASE AnswerClassify \/ AnswerCompare \/ AnswerDecide \/ AnswerFind \/ AnswerRerank
    BY <2>2 DEF AnswerClassify, AnswerCompare, AnswerDecide, AnswerFind, AnswerRerank, Asked, Done
  <2>3. CASE AnswerScore \/ AnswerScreen \/ AnswerExtract \/ AnswerFileJudge \/ PlanFiles
    BY <2>3 DEF AnswerScore, AnswerScreen, AnswerExtract, AnswerFileJudge, PlanFiles, Asked, Done
  <2> QED
    BY <2>1, <2>2, <2>3 DEF JudgmentNext
<1>3. watch = "none" /\ shell = "none" /\ child = "none"
  BY <1>2 DEF AskInv, AskShape, GroupInv
<1> QED
  BY <1>1, <1>2, <1>3 DEF AskInv, AskShape, GroupInv, GatedInv, OutputInv, Killed, Ended

(* A call of jev_ask waits for its gate only behind the operator's flag    *)
(* and off the denylist.                                                   *)
LEMMA CallAskKeeps ==
  ASSUME AskInv, CallAsk
  PROVE  AskInv'
<1>1. UNCHANGED <<gate, watch, shell, child, stray, unread, got, reader, timed_out, overflow>>
  BY DEF CallAsk, run, processes, drains, flags
<1>2. stage = "idle" /\ watch = "none" /\ shell = "none" /\ child = "none"
  BY DEF CallAsk, AskInv, AskShape, GroupInv
<1>3. PICK j \in AskJobs :
        LET code == First(<< <<~ask_schema(j), "invalid_arguments">>,
                             <<~_build_questions(j.questions), "invalid_arguments">>,
                             <<Given(j) /\ ~j.ask_commands, "command_disabled">>,
                             <<command_denylist_refusal(j.command), "command_refused">>,
                             <<j.own > Caps.state, "input_too_large">>,
                             <<~Given(j) /\ Composed(j) = <<>>, "invalid_arguments">> >>)
        IN  /\ job' = j
            /\ CASE code # "none" -> Done(Refused(code)) /\ UNCHANGED parts
                 [] code = "none" /\ OverBudget(Composed(j), j.questions) ->
                      Done(split_refusal(Composed(j), question_units(j.questions))) /\ UNCHANGED parts
                 [] OTHER -> /\ stage' = IF Given(j) THEN "gate" ELSE "ask"
                             /\ parts' = Composed(j) /\ UNCHANGED result
  BY DEF CallAsk
<1>4. /\ job' = j
      /\ \/ stage' = "done"
         \/ stage' = "ask" /\ ~Given(j)
         \/ stage' = "gate" /\ Given(j) /\ ~(Given(j) /\ ~j.ask_commands) /\ ~command_denylist_refusal(j.command)
  <2> DEFINE checks == << <<~ask_schema(j), "invalid_arguments">>,
                          <<~_build_questions(j.questions), "invalid_arguments">>,
                          <<Given(j) /\ ~j.ask_commands, "command_disabled">>,
                          <<command_denylist_refusal(j.command), "command_refused">>,
                          <<j.own > Caps.state, "input_too_large">>,
                          <<~Given(j) /\ Composed(j) = <<>>, "invalid_arguments">> >>
             code == First(checks)
  <2>1. code = "none" => ~(Given(j) /\ ~j.ask_commands) /\ ~command_denylist_refusal(j.command)
    <3>1. DOMAIN checks = 1..6 /\ \A i \in 1..6 : checks[i][2] # "none"
      OBVIOUS
    <3>2. checks[3][1] = (Given(j) /\ ~j.ask_commands)
      OBVIOUS
    <3>3. checks[4][1] = command_denylist_refusal(j.command)
      OBVIOUS
    <3> HIDE DEF checks
    <3>4. ASSUME code = "none" PROVE ~checks[3][1] /\ ~checks[4][1]
      <4>1. \A i \in 1..6 : ~checks[i][1]
        BY <3>1, <3>4, NoneFailed
      <4> QED
        BY <4>1
    <3> QED
      BY <3>2, <3>3, <3>4, Zenon
  <2> HIDE DEF code
  <2>2. /\ job' = j
        /\ \/ code # "none" /\ stage' = "done"
           \/ code = "none" /\ stage' = "done"
           \/ code = "none" /\ stage' = IF Given(j) THEN "gate" ELSE "ask"
    BY <1>3 DEF code, checks, Done
  <2> QED
    BY <2>1, <2>2
<1>5. stage' = "gate" => Permitted(j)
  BY <1>4, AskAssumption DEF command_denylist_refusal, Permitted
<1> QED
  BY <1>1, <1>2, <1>4, <1>5 DEF AskInv, AskShape, GroupInv, GatedInv, OutputInv, Killed, Ended, Given

(* The gate lets a command run on Jev's word only. *)
LEMMA GateAnswerKeeps ==
  ASSUME AskInv, GateAnswer
  PROVE  AskInv'
<1>1. UNCHANGED <<job, shell, child, stray, unread, got, reader, timed_out, overflow>>
  BY DEF GateAnswer, processes, drains, flags
<1>2. stage = "gate" /\ watch = "none" /\ shell = "none" /\ child = "none" /\ Permitted(job)
  BY DEF GateAnswer, AskInv, AskShape, GroupInv, GatedInv
<1>3. \/ stage' = "done" /\ watch' = "none"
      \/ stage' = "gate" /\ watch' = "spawning" /\ ReadsOnly(gate')
  BY <1>2, NotRefused DEF GateAnswer, Done
<1> QED
  BY <1>1, <1>2, <1>3 DEF AskInv, AskShape, GroupInv, GatedInv, OutputInv, Killed, Ended

(* The end of a run, with the group dead. *)
LEMMA RunEndsKeeps ==
  ASSUME AskInv, NEW r, RunEnds(r), UNCHANGED <<processes, drains, flags>>,
         watch \in {"spawning"} \cup Killed, r.status # "error" => watch = "decoding"
  PROVE  AskInv'
<1>1. UNCHANGED <<job, gate, shell, child, stray, unread, got, reader, timed_out, overflow>>
  BY DEF RunEnds, processes, drains, flags
<1>2. watch' = "none" /\ (stage' = "done" \/ (stage' = "ask" /\ watch = "decoding"))
  BY DEF RunEnds, Done
<1>3. stage = "gate" /\ shell # "running" /\ child # "running"
  BY DEF AskInv, GroupInv, Killed
<1> QED
  BY <1>1, <1>2, <1>3 DEF AskInv, AskShape, GroupInv, GatedInv, OutputInv, Killed, Ended

(* The thread that runs the command, step by step. *)
LEMMA ThreadKeeps ==
  ASSUME AskInv, Thread
  PROVE  AskInv'
<1>1. CASE Spawn
  <2>1. watch = "spawning" /\ stage = "gate" /\ shell = "none" /\ child = "none"
    BY <1>1 DEF Spawn, AskInv, GroupInv
  <2>2. CASE RunEnds(Refused("command_failed")) /\ UNCHANGED <<processes, drains, flags>>
    BY <2>1, <2>2, RunEndsKeeps DEF Refused
  <2>3. CASE /\ watch' = "waiting" /\ shell' = "running"
             /\ reader' = [s \in Streams |-> "reading"]
             /\ Calling /\ UNCHANGED <<child, stray, unread, got, flags>>
    BY <2>1, <2>3 DEF Calling, judging, flags, AskInv, AskShape, GroupInv, GatedInv, OutputInv, Killed, Ended
  <2> QED
    BY <1>1, <2>2, <2>3 DEF Spawn
<1>2. CASE WaitEnds
  BY <1>2 DEF WaitEnds, Calling, judging, processes, drains, AskInv, AskShape, GroupInv, GatedInv, OutputInv,
              Killed, Ended
<1>3. CASE _kill_group
  BY <1>3 DEF _kill_group, Calling, judging, drains, flags, AskInv, AskShape, GroupInv, GatedInv, OutputInv,
              Killed, Ended
<1>4. CASE JoinReaders
  BY <1>4 DEF JoinReaders, Calling, judging, processes, drains, flags, AskInv, AskShape, GroupInv, GatedInv,
              OutputInv, Killed, Ended
<1>5. CASE CheckOutcome
  <2>1. watch = "checking" /\ UNCHANGED <<processes, drains, flags>>
    BY <1>5 DEF CheckOutcome
  <2>2. CASE timed_out
    BY <1>5, <2>1, <2>2, RunEndsKeeps DEF CheckOutcome, Refused, Killed
  <2>3. CASE ~timed_out /\ overflow
    BY <1>5, <2>1, <2>3, RunEndsKeeps DEF CheckOutcome, Refused, Killed
  <2>4. CASE ~timed_out /\ ~overflow
    BY <1>5, <2>1, <2>4 DEF CheckOutcome, Calling, judging, processes, drains, flags, AskInv, AskShape,
                            GroupInv, GatedInv, OutputInv, Killed, Ended
  <2> QED
    BY <2>2, <2>3, <2>4
<1>6. CASE CheckReaders
  <2>1. watch = "alive" /\ UNCHANGED <<processes, drains, flags>>
    BY <1>6 DEF CheckReaders
  <2>2. CASE \E s \in Streams : ~Ended(s)
    BY <1>6, <2>1, <2>2, RunEndsKeeps DEF CheckReaders, Refused, Killed
  <2>3. CASE \A s \in Streams : Ended(s)
    BY <1>6, <2>1, <2>3 DEF CheckReaders, Calling, judging, processes, drains, flags, AskInv, AskShape,
                            GroupInv, GatedInv, OutputInv, Killed, Ended
  <2> QED
    BY <2>2, <2>3
<1>7. CASE Measure
  BY <1>7, RunEndsKeeps DEF Measure, Killed
<1> QED
  BY <1>1, <1>2, <1>3, <1>4, <1>5, <1>6, <1>7 DEF Thread

(* The command's processes and the drain threads, at any time. *)
LEMMA ProcessesKeep ==
  ASSUME AskInv, Fork \/ ProcessExits \/ \E s \in Streams : Write(s) \/ drain(s)
  PROVE  AskInv'
<1>1. CASE Fork
  BY <1>1 DEF Fork, Calling, judging, drains, flags, AskInv, AskShape, GroupInv, GatedInv, OutputInv, Killed,
              Ended
<1>2. CASE ProcessExits
  BY <1>2 DEF ProcessExits, Calling, judging, drains, flags, AskInv, AskShape, GroupInv, GatedInv, OutputInv,
              Killed, Ended
<1>3. ASSUME NEW s \in Streams, Write(s) PROVE AskInv'
  BY <1>3 DEF Write, Calling, judging, processes, flags, AskInv, AskShape, GroupInv, GatedInv, OutputInv,
              Killed, Ended
<1>4. ASSUME NEW s \in Streams, drain(s) PROVE AskInv'
  <2> DEFINE n == IF unread[s] >= Chunk THEN Chunk ELSE unread[s]
  <2>1. UNCHANGED <<stage, job, gate, watch, shell, child, stray, timed_out>>
    BY <1>4 DEF drain, Calling, judging, processes
  <2>2. /\ reader[s] = "reading"
        /\ unread' = [unread EXCEPT ![s] = @ - n] /\ got' = [got EXCEPT ![s] = @ + n]
        /\ \/ n > 0 /\ got[s] + n > ByteCap /\ reader' = [reader EXCEPT ![s] = "full"]
           \/ n = 0 /\ reader' = [reader EXCEPT ![s] = "eof"]
           \/ reader' = reader
    BY <1>4 DEF drain
  <2>3. /\ unread[s] \in Nat /\ got[s] \in Nat /\ n \in Nat /\ n <= unread[s]
        /\ (n = 0 => unread[s] = 0)
    BY AskAssumption DEF AskInv, AskShape
  <2> HIDE DEF n
  <2>4. AskShape'
    BY <2>1, <2>2, <2>3 DEF AskInv, AskShape
  <2>5. ~Ended(s) /\ \A u \in Streams \ {s} : unread'[u] = unread[u] /\ got'[u] = got[u] /\ reader'[u] = reader[u]
    BY <2>2 DEF AskInv, AskShape, Ended
  <2>6. (reader'[s] = "eof" => unread'[s] = 0) /\ (reader'[s] = "full" => got'[s] > ByteCap)
    BY <2>2, <2>3 DEF AskInv, AskShape
  <2>7. OutputInv'
    BY <2>1, <2>5, <2>6 DEF AskInv, OutputInv, Ended
  <2>8. GroupInv' /\ GatedInv'
    BY <2>1 DEF AskInv, GroupInv, GatedInv
  <2> QED
    BY <2>4, <2>7, <2>8 DEF AskInv
<1> QED
  BY <1>1, <1>2, <1>3, <1>4

(* The ask, its cancellation, and the next call. *)
LEMMA AsksKeep ==
  ASSUME AskInv, OverBudgetAfter \/ AskAnswer \/ Cancel \/ AskReset
  PROVE  AskInv'
<1>1. CASE OverBudgetAfter \/ AskAnswer
  <2>1. UNCHANGED <<job, gate, watch, shell, child, stray, unread, got, reader, timed_out, overflow>>
    BY <1>1 DEF OverBudgetAfter, AskAnswer, run, processes, drains, flags
  <2>2. stage = "ask" /\ stage' = "done"
    BY <1>1 DEF OverBudgetAfter, AskAnswer, Done
  <2> QED
    BY <2>1, <2>2 DEF AskInv, AskShape, GroupInv, GatedInv, OutputInv, Killed, Ended
<1>2. CASE Cancel
  <2>1. UNCHANGED <<job, gate, watch, shell, child, stray, unread, got, reader, timed_out, overflow>>
    BY <1>2 DEF Cancel, run, processes, drains, flags
  <2>2. stage' = stage \/ (stage' = "done" /\ watch = "none")
    BY <1>2 DEF Cancel, Done
  <2> QED
    BY <2>1, <2>2 DEF AskInv, AskShape, GroupInv, GatedInv, OutputInv, Killed, Ended
<1>3. CASE AskReset
  BY <1>3 DEF AskReset, Reset, AskInv, AskShape, GroupInv, GatedInv, OutputInv, Killed, Ended
<1> QED
  BY <1>1, <1>2, <1>3

LEMMA NextAskInv == AskInv /\ [AskNext]_askVars => AskInv'
<1> SUFFICES ASSUME AskInv, [AskNext]_askVars PROVE AskInv'
  OBVIOUS
<1>1. CASE UNCHANGED askVars
  BY <1>1 DEF askVars, judging, run, processes, drains, flags, AskInv, AskShape, GroupInv, GatedInv, OutputInv,
              Ended
<1>2. CASE AskNext
  BY <1>2, JudgmentsKeepAskInv, CallAskKeeps, GateAnswerKeeps, ThreadKeeps, ProcessesKeep, AsksKeep DEF AskNext
<1> QED
  BY <1>1, <1>2

(* The inductive invariant holds throughout: where the call, its thread and *)
(* its processes stand, what was gated and what was read.                   *)
THEOREM AskInvariant == AskSpec => []AskInv
BY InitAskInv, NextAskInv, PTL DEF AskSpec

(* tools/ask_state.py, _kill_group: however the exit, the deadline, the    *)
(* cap and a cancellation meet, a call that ended finds its command's      *)
(* group dead and its thread gone.                                         *)
THEOREM TheGroupDies == AskSpec => []GroupDies
<1>1. AskInv => GroupDies
  BY DEF AskInv, GroupInv, GroupDies
<1> QED
  BY <1>1, AskInvariant, PTL

(* ADR-0077 and tools/ask_state.py: whatever Jev answers the gate, only a  *)
(* permitted command that it calls read-only runs, and its output becomes  *)
(* state only when it is whole.                                            *)
THEOREM CommandsAreHonest == AskSpec => []CommandHonest
<1>1. AskInv => RunsOnlyGated
  BY DEF AskInv, GatedInv, RunsOnlyGated, Permitted, ReadsOnly
<1>2. AskInv => OutputComplete
  BY DEF AskInv, AskShape, OutputInv, OutputComplete, Ended
<1> QED
  BY <1>1, <1>2, AskInvariant, PTL DEF CommandHonest

--------------------------------------------------------------------------------
(* The one-question tools. *)

(* An answer that settles a row: its pick, its probability and its lead. *)
Leads(raw, t, keys) ==
  /\ raw.object /\ raw.choice \in keys /\ raw.probabilities[raw.choice] >= t.auto_accept
  /\ \A k \in keys \ {raw.choice} : raw.probabilities[raw.choice] - raw.probabilities[k] >= t.minimum_margin

LEMMA AutoLeads ==
  ASSUME NEW raw, NEW keys, IsFiniteSet(keys), NEW t, Thresholds(t),
         Shaped(raw, keys), raw.choice \in keys, Argmax(raw),
         classification_decision(Choice(raw), t) = "auto"
  PROVE  Leads(raw, t, keys)
<1> DEFINE p == raw.probabilities
<1>1. raw.object /\ DOMAIN p = keys /\ (\A k \in keys : p[k] \in 0..100) /\ \A k \in keys : p[k] <= p[raw.choice]
  BY DEF Shaped, Argmax
<1>2. Choice(raw).probabilities = p /\ Choice(raw).choice = raw.choice
  BY DEF Choice
<1>3. p[raw.choice] >= t.auto_accept /\ margin(p) >= t.minimum_margin
  <2> HIDE DEF p
  <2> QED
    BY <1>2 DEF classification_decision, top_probability
<1>4. t.minimum_margin \in Int
  BY DEF Thresholds
<1>5. \A k \in keys \ {raw.choice} : p[raw.choice] - p[k] >= t.minimum_margin
  <2> HIDE DEF p
  <2> QED
    BY <1>1, <1>3, <1>4, MarginLeads
<1> QED
  BY <1>1, <1>3, <1>5 DEF Leads

LEMMA ValidChoice ==
  ASSUME NEW raw, NEW keys, validate_choice(raw, keys).valid
  PROVE  validate_choice(raw, keys) = Choice(raw) /\ Shaped(raw, keys) /\ raw.choice \in keys /\ Argmax(raw)
BY DEF validate_choice, Invalid

LEMMA ValidExtractChoice ==
  ASSUME NEW raw, NEW keys, validate_extract_choice(raw, keys).valid
  PROVE  validate_extract_choice(raw, keys) = Choice(raw) /\ Shaped(raw, keys) /\ raw.choice \in keys /\ Argmax(raw)
BY DEF validate_extract_choice, Invalid

(* Wire keys, and the keys of the other questions, are finitely many. *)
LEMMA KeysFinite ==
  /\ \A prefix : \A n \in Nat : IsFiniteSet(WireKeys(prefix, n))
  /\ IsFiniteSet(Relations)
  /\ \A field : field.candidates \in Nat => IsFiniteSet(CandidateKeys(field))
<1>1. ASSUME NEW prefix, NEW n \in Nat PROVE IsFiniteSet(WireKeys(prefix, n))
  <2> DEFINE f == [i \in 0..(n - 1) |-> <<prefix, i>>]
  <2>1. f \in Surjection(0..(n - 1), WireKeys(prefix, n))
    BY DEF Surjection, WireKeys
  <2>2. IsFiniteSet(0..(n - 1))
    BY FS_Interval
  <2> HIDE DEF f
  <2> QED
    BY <2>1, <2>2, FS_Surjection
<1>2. IsFiniteSet(Relations)
  <2>1. IsFiniteSet({<<"same_fact">>}) /\ IsFiniteSet({<<"same_fact">>} \cup {<<"contradicts">>})
    BY FS_Singleton, FS_AddElement
  <2>2. IsFiniteSet(({<<"same_fact">>} \cup {<<"contradicts">>}) \cup {<<"different_facts">>})
    BY <2>1, FS_AddElement
  <2>3. ({<<"same_fact">>} \cup {<<"contradicts">>}) \cup {<<"different_facts">>} = Relations
    BY DEF Relations
  <2> QED
    BY <2>2, <2>3
<1>3. ASSUME NEW field, field.candidates \in Nat PROVE IsFiniteSet(CandidateKeys(field))
  BY <1>1, <1>3, FS_AddElement DEF CandidateKeys
<1> QED
  BY <1>1, <1>2, <1>3

(* A list is a sequence. *)
LEMMA ListIsSeq ==
  ASSUME NEW s, List(s)
  PROVE  Len(s) \in Nat /\ DOMAIN s = 1..Len(s) /\ s \in Seq(Range(s))
<1>1. Len(s) \in Nat /\ s = [i \in 1..Len(s) |-> s[i]]
  BY DEF List
<1>2. DOMAIN s = 1..Len(s)
  BY <1>1
<1>3. \A i \in 1..Len(s) : s[i] \in Range(s)
  BY <1>2 DEF Range
<1>4. s \in [1..Len(s) -> Range(s)]
  BY <1>1, <1>3
<1>5. s \in Seq(Range(s))
  BY <1>1, <1>4, SeqDef
<1> QED
  BY <1>1, <1>2, <1>5

(* What a call that was let through has passed. *)
LEMMA LetThrough ==
  ASSUME NEW j, Refusal(j) = "none"
  PROVE  /\ j.tool = "classify" => Thresholds(j)
         /\ j.tool = "compare" => Thresholds(j)
         /\ j.tool = "extract" => Thresholds(j)
         /\ j.tool = "screen" => screen_schema(j)
         /\ j.tool = "rerank" => ~Repeats(j.ids) /\ rerank_schema(j)
         /\ j.tool = "find" => find_schema(j)
<1>1. ASSUME j.tool = "classify" PROVE Thresholds(j)
  <2>1. classify_refusal(j) = "none"
    BY <1>1 DEF Refusal
  <2> DEFINE checks == << <<~classify_schema(j), "invalid_arguments">>,
           <<~_opaque(j.items, "item") \/ ~_opaque(j.classes, "class"), "invalid_arguments">>,
           <<Len(j.items) * Len(j.classes) > Caps.pairs, "input_too_large">> >>
  <2>2. First(checks) = "none"
    BY <2>1 DEF classify_refusal
  <2>3. DOMAIN checks = 1..3 /\ (\A i \in 1..3 : checks[i][2] # "none") /\ 3 \in Nat
    OBVIOUS
  <2>4. ~checks[1][1]
    <3> HIDE DEF checks
    <3>1. \A i \in 1..3 : ~checks[i][1]
      BY <2>2, <2>3, NoneFailed
    <3> QED
      BY <3>1
  <2>5. checks[1][1] = ~classify_schema(j)
    OBVIOUS
  <2> QED
    BY <2>4, <2>5 DEF classify_schema
<1>2. ASSUME j.tool = "extract" PROVE Thresholds(j)
  <2>1. extract_refusal(j) = "none"
    BY <1>2 DEF Refusal
  <2> DEFINE checks == << <<~extract_schema(j), "invalid_arguments">>, <<Repeats(j.ids), "invalid_arguments">> >>
  <2>2. First(checks) = "none"
    BY <2>1 DEF extract_refusal
  <2>3. DOMAIN checks = 1..2 /\ (\A i \in 1..2 : checks[i][2] # "none") /\ 2 \in Nat
    OBVIOUS
  <2>4. ~checks[1][1]
    <3> HIDE DEF checks
    <3>1. \A i \in 1..2 : ~checks[i][1]
      BY <2>2, <2>3, NoneFailed
    <3> QED
      BY <3>1
  <2>5. checks[1][1] = ~extract_schema(j)
    OBVIOUS
  <2> QED
    BY <2>4, <2>5 DEF extract_schema
<1>3. ASSUME j.tool = "rerank" PROVE ~Repeats(j.ids) /\ rerank_schema(j)
  <2>1. rerank_refusal(j) = "none"
    BY <1>3 DEF Refusal
  <2> DEFINE checks == << <<~rerank_schema(j), "invalid_arguments">>, <<Repeats(j.ids), "invalid_arguments">>,
           <<j.units > Caps.units, "input_too_large">> >>
  <2>2. First(checks) = "none"
    BY <2>1 DEF rerank_refusal
  <2>3. DOMAIN checks = 1..3 /\ (\A i \in 1..3 : checks[i][2] # "none") /\ 3 \in Nat
    OBVIOUS
  <2>4. ~checks[1][1] /\ ~checks[2][1]
    <3> HIDE DEF checks
    <3>1. \A i \in 1..3 : ~checks[i][1]
      BY <2>2, <2>3, NoneFailed
    <3> QED
      BY <3>1
  <2>5. checks[1][1] = ~rerank_schema(j) /\ checks[2][1] = Repeats(j.ids)
    OBVIOUS
  <2> QED
    BY <2>4, <2>5
<1>4. ASSUME j.tool = "compare" PROVE Thresholds(j)
  <2>1. compare_schema(j)
    BY <1>4 DEF Refusal
  <2> QED
    BY <2>1 DEF compare_schema
<1>5. ASSUME j.tool = "screen" PROVE screen_schema(j)
  BY <1>5 DEF Refusal
<1>6. ASSUME j.tool = "find" PROVE find_schema(j)
  BY <1>6 DEF Refusal
<1> QED
  BY <1>1, <1>2, <1>3, <1>4, <1>5, <1>6

(* A row of jev_classify that is auto names a class its answer picks. *)
LEMMA ClassifyBacked ==
  ASSUME NEW j \in Jobs, j.tool = "classify", Refusal(j) = "none", NEW raw,
         NEW i \in DOMAIN classify(j, raw).rows, classify(j, raw).rows[i].decision = "auto"
  PROVE  \E c \in DOMAIN j.classes :
           /\ Externals(j.classes, "class")[c] = classify(j, raw).rows[i].class
           /\ raw[i].choice = <<"c", c - 1>> /\ Leads(raw[i], j, ClassKeys(j))
<1> DEFINE a == validate_choice(raw[i], ClassKeys(j))
           row(x) == LET b == validate_choice(raw[x], ClassKeys(j))
                     IN  IF b.valid
                         THEN [id |-> Externals(j.items, "item")[x], status |-> "ok", decision |-> classification_decision(b, j),
                               class |-> Externals(j.classes, "class")[b.choice[2] + 1]]
                         ELSE [id |-> Externals(j.items, "item")[x], status |-> "invalid_response",
                               decision |-> fail_closed("classify"), class |-> Omitted]
<1>1. classify(j, raw).rows = [x \in DOMAIN j.items |-> row(x)]
  BY DEF classify
<1>2. i \in DOMAIN j.items /\ classify(j, raw).rows[i] = row(i)
  BY <1>1
<1>3. a.valid
  BY <1>2 DEF fail_closed
<1>4. a = Choice(raw[i]) /\ Shaped(raw[i], ClassKeys(j)) /\ raw[i].choice \in ClassKeys(j) /\ Argmax(raw[i])
  BY <1>3, ValidChoice
<1>5. /\ classification_decision(a, j) = "auto"
      /\ classify(j, raw).rows[i].class = Externals(j.classes, "class")[a.choice[2] + 1]
  BY <1>2, <1>3
<1>6. List(j.classes) /\ Thresholds(j)
  BY LetThrough, JudgmentsAssumption
<1>7. Len(j.classes) \in Nat /\ DOMAIN j.classes = 1..Len(j.classes)
  BY <1>6, ListIsSeq
<1>8. IsFiniteSet(ClassKeys(j))
  BY <1>7, KeysFinite DEF ClassKeys
<1>9. Leads(raw[i], j, ClassKeys(j))
  <2> HIDE DEF a
  <2> QED
    BY <1>4, <1>5, <1>6, <1>8, AutoLeads
<1>10. PICK n \in 0..(Len(j.classes) - 1) : raw[i].choice = <<"c", n>>
  BY <1>4 DEF ClassKeys, WireKeys
<1>11. a.choice = raw[i].choice
  BY <1>4 DEF Choice
<1>12. n + 1 \in DOMAIN j.classes /\ (n + 1) - 1 = n /\ a.choice[2] + 1 = n + 1
  BY <1>7, <1>10, <1>11
<1> HIDE DEF a
<1> QED
  BY <1>5, <1>9, <1>10, <1>12

(* An aspect, or the whole, that jev_compare settles. *)
LEMMA JudgeBacked ==
  ASSUME NEW j, Thresholds(j), NEW raw, judge(raw, j).decision = "auto"
  PROVE  raw.choice = judge(raw, j).relation /\ Leads(raw, j, Relations)
<1> DEFINE a == validate_choice(raw, Relations)
<1>1. a.valid
  BY DEF judge, fail_closed
<1>2. a = Choice(raw) /\ Shaped(raw, Relations) /\ raw.choice \in Relations /\ Argmax(raw)
  BY <1>1, ValidChoice
<1>3. classification_decision(a, j) = "auto" /\ judge(raw, j).relation = a.choice
  BY <1>1 DEF judge
<1>4. a.choice = raw.choice
  BY <1>2 DEF Choice
<1> HIDE DEF a
<1>5. Leads(raw, j, Relations)
  BY <1>2, <1>3, KeysFinite, AutoLeads
<1> QED
  BY <1>3, <1>4, <1>5

LEMMA CompareBacked ==
  ASSUME NEW j \in Jobs, j.tool = "compare", Refusal(j) = "none",
         NEW overall, NEW aspects, DOMAIN aspects = 1..j.aspects, aspects = [i \in DOMAIN aspects |-> aspects[i]]
  PROVE  LET r == compare(j, overall, aspects)
         IN  /\ \A i \in DOMAIN r.rows : r.rows[i].decision = "auto" =>
                  r.raw[i].choice = r.rows[i].relation /\ Leads(r.raw[i], j, Relations)
             /\ r.action = "auto" => r.rows[1].decision = "auto"
<1> DEFINE r == compare(j, overall, aspects)
           whole == judge(overall, j)
           judged == [i \in 1..j.aspects |-> judge(aspects[i], j)]
           S == {judge(x, j) : x \in Range(aspects) \cup {overall}} \cup Range(aspects) \cup {overall}
<1>1. r.raw = <<overall>> \o aspects /\ r.rows = <<whole>> \o judged /\ r.action = headline(caller_actions({whole.decision}))
  BY DEF compare
<1>2. j.aspects \in Nat /\ Thresholds(j)
  BY LetThrough, JudgmentsAssumption
<1>3. \A i \in 1..j.aspects : aspects[i] \in S /\ judge(aspects[i], j) \in S
  BY DEF Range
<1>4. overall \in S /\ whole \in S
  OBVIOUS
<1> HIDE DEF S
<1>5. aspects \in Seq(S) /\ judged \in Seq(S)
  <2>1. aspects \in [1..j.aspects -> S] /\ judged \in [1..j.aspects -> S]
    BY <1>3
  <2> QED
    BY <1>2, <2>1, SeqDef
<1>6. Len(aspects) = j.aspects /\ Len(judged) = j.aspects
  <2>1. DOMAIN judged = 1..j.aspects
    OBVIOUS
  <2>2. \A q \in Seq(S) : Len(q) \in Nat /\ DOMAIN q = 1..Len(q)
    BY LenProperties
  <2>3. \A x, y \in Nat : 1..x = 1..y => x = y
    <3> SUFFICES ASSUME NEW x \in Nat, NEW y \in Nat, 1..x = 1..y PROVE x = y
      OBVIOUS
    <3>1. x \in 1..x \/ x = 0
      OBVIOUS
    <3>2. y \in 1..y \/ y = 0
      OBVIOUS
    <3> QED
      BY <3>1, <3>2
  <2> HIDE DEF judged
  <2> QED
    BY <1>2, <1>5, <2>1, <2>2, <2>3
<1>7. <<overall>> \in Seq(S) /\ <<whole>> \in Seq(S) /\ Len(<<overall>>) = 1 /\ Len(<<whole>>) = 1
  BY <1>4
<1> HIDE DEF judged, whole
<1>8. /\ <<whole>> \o judged \in Seq(S) /\ Len(<<whole>> \o judged) = 1 + j.aspects
      /\ \A i \in 1..(1 + j.aspects) :
           /\ (<<whole>> \o judged)[i] = IF i <= 1 THEN <<whole>>[i] ELSE judged[i - 1]
           /\ (<<overall>> \o aspects)[i] = IF i <= 1 THEN <<overall>>[i] ELSE aspects[i - 1]
  <2>1. /\ <<whole>> \o judged \in Seq(S) /\ Len(<<whole>> \o judged) = Len(<<whole>>) + Len(judged)
        /\ \A i \in 1..(Len(<<whole>>) + Len(judged)) :
             (<<whole>> \o judged)[i] = IF i <= Len(<<whole>>) THEN <<whole>>[i] ELSE judged[i - Len(<<whole>>)]
    BY <1>5, <1>7, ConcatProperties
  <2>2. \A i \in 1..(Len(<<overall>>) + Len(aspects)) :
           (<<overall>> \o aspects)[i] = IF i <= Len(<<overall>>) THEN <<overall>>[i] ELSE aspects[i - Len(<<overall>>)]
    BY <1>5, <1>7, ConcatProperties
  <2> QED
    BY <1>6, <1>7, <2>1, <2>2
<1>9. DOMAIN r.rows = 1..(1 + j.aspects) /\ r.rows[1] = whole
  <2>1. DOMAIN (<<whole>> \o judged) = 1..Len(<<whole>> \o judged)
    BY <1>8, LenProperties
  <2>2. 1 \in 1..(1 + j.aspects)
    BY <1>2
  <2>3. (<<whole>> \o judged)[1] = whole
    BY <1>8, <2>2
  <2> HIDE DEF r
  <2> QED
    BY <1>1, <1>8, <2>1, <2>3
<1>10. ASSUME NEW i \in DOMAIN r.rows PROVE \E x : r.raw[i] = x /\ r.rows[i] = judge(x, j)
  <2>1. i \in 1..(1 + j.aspects)
    BY <1>9
  <2>2. CASE i = 1
    <3>1. r.raw[1] = overall
      <4>1. (<<overall>> \o aspects)[1] = overall
        BY <1>8, <2>1, <2>2
      <4> HIDE DEF r
      <4> QED
        BY <1>1, <4>1
    <3> HIDE DEF r
    <3> QED
      BY <1>9, <2>2, <3>1 DEF whole
  <2>3. CASE i # 1
    <3>1. ~(i <= 1) /\ i - 1 \in 1..j.aspects
      BY <1>2, <2>1, <2>3
    <3>2. (<<overall>> \o aspects)[i] = aspects[i - 1] /\ (<<whole>> \o judged)[i] = judged[i - 1]
      BY <1>8, <2>1, <3>1
    <3>3. judged[i - 1] = judge(aspects[i - 1], j)
      BY <3>1 DEF judged
    <3> HIDE DEF r
    <3> QED
      BY <1>1, <3>2, <3>3
  <2> QED
    BY <2>2, <2>3
<1> HIDE DEF r
<1>11. ASSUME NEW i \in DOMAIN r.rows, r.rows[i].decision = "auto"
       PROVE  r.raw[i].choice = r.rows[i].relation /\ Leads(r.raw[i], j, Relations)
  BY <1>2, <1>10, <1>11, JudgeBacked
<1>12. r.action = "auto" => r.rows[1].decision = "auto"
  <2>1. headline(caller_actions({whole.decision})) = "auto" => whole.decision = "auto"
    BY DEF headline, caller_actions, worst_action
  <2> QED
    BY <1>1, <1>9, <2>1
<1> QED
  BY <1>11, <1>12 DEF r

(* A field that is settled was matched whole, and its answer settles it. *)
LEMMA FieldBacked ==
  ASSUME NEW j, Thresholds(j), NEW field, field.candidates \in Nat, field.too_long \in Nat, NEW raw,
         _result(j, field, raw).status \in {"auto", "not_found"}
  PROVE  /\ ~field.error /\ ~field.truncated /\ field.too_long = 0
         /\ field.candidates > 0 =>
              /\ raw.choice = IF _result(j, field, raw).status = "auto" THEN _result(j, field, raw).value ELSE NoneOfThem
              /\ Leads(raw, j, CandidateKeys(field))
<1> DEFINE a == validate_extract_choice(raw, CandidateKeys(field))
           d == decide_extract_field(field, a, j)
           row == _result(j, field, raw)
           incomplete == field.truncated \/ field.too_long > 0
<1>1. ~field.error
  <2>1. field.error => row.status = "invalid_pattern"
    BY DEF _result
  <2> QED
    BY <2>1
<1>2. d = FieldDecision(field, a, j, incomplete)
  BY DEF decide_extract_field
<1>3. classification_decision(a, j) \in {"auto", "review"}
  BY DEF classification_decision
<1>4. CASE field.candidates = 0
  <2>1. row.status = d.status
    BY <1>1, <1>4 DEF _result
  <2>2. ~incomplete
    <3> HIDE DEF incomplete
    <3> SUFFICES ASSUME incomplete PROVE FALSE
      OBVIOUS
    <3>1. field.too_long > 0 \/ field.too_long = 0
      OBVIOUS
    <3>2. FieldDecision(field, a, j, incomplete).status = "review"
      BY <1>4, <3>1 DEF FieldDecision
    <3> QED
      BY <1>2, <2>1, <3>2
  <2> QED
    BY <1>1, <1>4, <2>2
<1>5. CASE field.candidates > 0
  <2>0. field.candidates # 0
    BY <1>5
  <2>1. a.valid
    <3>1. ~a.valid => row.status = "invalid_response"
      BY <1>1, <1>5, <2>0 DEF _result, Askable
    <3> QED
      BY <3>1
  <2>2. row.status = d.status /\ row.value = IF a.choice = NoneOfThem THEN Omitted ELSE a.choice
    BY <1>1, <1>5, <2>0, <2>1 DEF _result, Askable
  <2>3. ~incomplete
    <3> HIDE DEF incomplete
    <3> SUFFICES ASSUME incomplete PROVE FALSE
      OBVIOUS
    <3>1. FieldDecision(field, a, j, incomplete).status = "review"
      BY <1>5, <2>0 DEF FieldDecision
    <3> QED
      BY <1>2, <2>2, <3>1
  <2>4. /\ classification_decision(a, j) = "auto"
        /\ row.status = IF a.choice = NoneOfThem THEN "not_found" ELSE "auto"
    <3> HIDE DEF incomplete, a
    <3>1. CASE a.choice = NoneOfThem
      <4>1. FieldDecision(field, a, j, incomplete) =
              IF classification_decision(a, j) = "auto" THEN [status |-> "not_found", reason |-> "none_matched"]
              ELSE [status |-> "review", reason |-> "none_matched_ambiguous"]
        BY <1>5, <2>0, <2>3, <3>1 DEF FieldDecision
      <4> QED
        BY <1>2, <2>2, <3>1, <4>1
    <3>2. CASE a.choice # NoneOfThem
      <4>1. FieldDecision(field, a, j, incomplete) = [status |-> classification_decision(a, j), reason |-> "none"]
        BY <1>5, <2>0, <2>3, <3>2 DEF FieldDecision
      <4> QED
        BY <1>2, <1>3, <2>2, <3>2, <4>1
    <3> QED
      BY <3>1, <3>2
  <2>5. /\ a = Choice(raw) /\ Shaped(raw, CandidateKeys(field)) /\ raw.choice \in CandidateKeys(field)
        /\ Argmax(raw)
    BY <2>1, ValidExtractChoice
  <2>6. a.choice = raw.choice
    BY <2>5 DEF Choice
  <2>7. Leads(raw, j, CandidateKeys(field))
    <3> HIDE DEF a
    <3> QED
      BY <2>4, <2>5, KeysFinite, AutoLeads
  <2>8. raw.choice = IF row.status = "auto" THEN row.value ELSE NoneOfThem
    <3> HIDE DEF a, row
    <3> QED
      BY <2>2, <2>4, <2>6
  <2>9. ~field.truncated /\ field.too_long = 0
    BY <2>3
  <2> QED
    BY <1>1, <2>7, <2>8, <2>9
<1> QED
  BY <1>4, <1>5

LEMMA TwoAndOne ==
  ASSUME NEW a, NEW b, NEW c
  PROVE  <<a, b>> \o <<c>> = <<a, b, c>>
<1> DEFINE S == {a, b, c}
<1>1. <<a, b>> \in Seq(S) /\ <<c>> \in Seq(S) /\ <<a, b, c>> \in Seq(S)
  OBVIOUS
<1>2. Len(<<a, b>>) = 2 /\ Len(<<c>>) = 1 /\ Len(<<a, b, c>>) = 3
  OBVIOUS
<1> HIDE DEF S
<1>3. /\ <<a, b>> \o <<c>> \in Seq(S) /\ Len(<<a, b>> \o <<c>>) = Len(<<a, b>>) + Len(<<c>>)
      /\ \A i \in 1..(Len(<<a, b>>) + Len(<<c>>)) :
           (<<a, b>> \o <<c>>)[i] = IF i <= Len(<<a, b>>) THEN <<a, b>>[i] ELSE <<c>>[i - Len(<<a, b>>)]
  BY <1>1, ConcatProperties
<1> DEFINE t == <<a, b>> \o <<c>>
<1> HIDE DEF t
<1>4. t \in Seq(S) /\ Len(t) = 3 /\ t[1] = a /\ t[2] = b /\ t[3] = c
  BY <1>2, <1>3 DEF t
<1>5. \A i \in 1..3 : t[i] = <<a, b, c>>[i]
  BY <1>4
<1> QED
  BY <1>1, <1>2, <1>4, <1>5, SeqEqual DEF t

(* Content passes the screen only with every question answered. *)
LEMMA ScreenBacked ==
  ASSUME NEW j, screen_schema(j), NEW injection, NEW substance, NEW relevance,
         screen(j, injection, substance, relevance).recommendation = "pass"
  PROVE  LET raw == screen(j, injection, substance, relevance).raw
         IN  /\ \A i \in DOMAIN raw : raw[i] \in 30..100 \/ i = 1
             /\ raw[1] < j.block_at /\ raw[1] < j.review_at
<1> DEFINE asked == <<injection, substance>> \o IF j.purpose THEN <<relevance>> ELSE <<>>
           failed == \E i \in DOMAIN asked : validate_noul(asked[i]) = Unknown
           r == screen(j, injection, substance, relevance)
<1>1. /\ r.raw = asked
      /\ r.recommendation = IF failed THEN screen_fail_closed
                            ELSE screen_recommendation(injection, substance, IF j.purpose THEN relevance ELSE Absent, j)
  BY DEF screen
<1>2. ~failed
  BY <1>1 DEF screen_fail_closed
<1>3. screen_recommendation(injection, substance, IF j.purpose THEN relevance ELSE Absent, j) = "pass"
  BY <1>1, <1>2
<1>4. \A v : validate_noul(v) # Unknown => v \in 0..100
  BY DEF validate_noul, unit_interval
<1>5. j.block_at \in 0..100 /\ j.review_at \in 0..100
  BY DEF screen_schema
<1>6. CASE j.purpose
  <2>1. asked = <<injection, substance, relevance>>
    BY <1>6, TwoAndOne
  <2>2. injection \in 0..100 /\ substance \in 0..100 /\ relevance \in 0..100
    <3>1. DOMAIN asked = 1..3 /\ asked[1] = injection /\ asked[2] = substance /\ asked[3] = relevance
      BY <2>1
    <3> HIDE DEF asked
    <3> QED
      BY <1>2, <1>4, <3>1
  <2>3. screen_recommendation(injection, substance, relevance, j) = "pass" /\ relevance # Absent
    BY <1>3, <1>6, <2>2 DEF Absent
  <2> DEFINE b == j.block_at
             v == j.review_at
  <2>a. /\ b \in 0..100 /\ v \in 0..100 /\ injection \in 0..100 /\ substance \in 0..100 /\ relevance \in 0..100
        /\ ~(injection >= b) /\ ~(injection < b /\ injection >= v)
        /\ ~(injection < b /\ injection < v /\ substance < 30)
        /\ ~(injection < b /\ injection < v /\ substance >= 30 /\ relevance < 30)
    <3>1. /\ ~(injection >= b) /\ ~(injection < b /\ injection >= v)
          /\ ~(injection < b /\ injection < v /\ substance < 30)
      BY <2>3 DEF screen_recommendation
    <3>2. ~(injection < b /\ injection < v /\ substance >= 30 /\ relevance < 30)
      BY <2>3, <3>1 DEF screen_recommendation
    <3> QED
      BY <1>5, <2>2, <3>1, <3>2
  <2>4. injection < j.block_at /\ injection < j.review_at /\ substance >= 30 /\ relevance >= 30
    <3> HIDE DEF b, v
    <3>1. injection < b /\ injection < v
      BY <2>a
    <3>2. substance >= 30 /\ relevance >= 30
      BY <2>a, <3>1
    <3> QED
      BY <3>1, <3>2 DEF b, v
  <2>5. DOMAIN r.raw = 1..3 /\ r.raw[1] = injection /\ r.raw[2] = substance /\ r.raw[3] = relevance
    <3> HIDE DEF r, asked
    <3> QED
      BY <1>1, <2>1
  <2> HIDE DEF r
  <2>6. \A i \in DOMAIN r.raw : r.raw[i] \in 30..100 \/ i = 1
    BY <2>2, <2>4, <2>5
  <2> QED
    BY <2>4, <2>5, <2>6 DEF r
<1>7. CASE ~j.purpose
  <2>1. asked = <<injection, substance>>
    BY <1>7
  <2>2. injection \in 0..100 /\ substance \in 0..100
    <3>1. DOMAIN asked = 1..2 /\ asked[1] = injection /\ asked[2] = substance
      BY <2>1
    <3> HIDE DEF asked
    <3> QED
      BY <1>2, <1>4, <3>1
  <2>3. screen_recommendation(injection, substance, Absent, j) = "pass"
    BY <1>3, <1>7
  <2>4. injection < j.block_at /\ injection < j.review_at /\ substance >= 30
    <3> DEFINE b == j.block_at
               v == j.review_at
    <3>1. /\ ~(injection >= b) /\ ~(injection < b /\ injection >= v)
          /\ ~(injection < b /\ injection < v /\ substance < 30)
      BY <2>3 DEF screen_recommendation
    <3>2. b \in Int /\ v \in Int
      BY <1>5
    <3> HIDE DEF b, v
    <3>3. injection < b /\ injection < v
      BY <2>2, <3>1, <3>2
    <3>4. substance >= 30
      BY <2>2, <3>1, <3>3
    <3> QED
      BY <3>3, <3>4 DEF b, v
  <2>5. DOMAIN r.raw = 1..2 /\ r.raw[1] = injection /\ r.raw[2] = substance
    <3> HIDE DEF r, asked
    <3> QED
      BY <1>1, <2>1
  <2> HIDE DEF r
  <2>6. \A i \in DOMAIN r.raw : r.raw[i] \in 30..100 \/ i = 1
    BY <2>2, <2>4, <2>5
  <2> QED
    BY <2>4, <2>5, <2>6 DEF r
<1> QED
  BY <1>6, <1>7

(* The command line settles a call of jev_extract only if every row is. *)
LEMMA CallActionBacked ==
  ASSUME NEW statuses, extract_call_action(statuses) = "auto"
  PROVE  statuses \subseteq {"auto", "not_found"}
<1> DEFINE A == {IF s = "auto" THEN "auto" ELSE "review" : s \in statuses \ {"not_found"}}
<1>1. "review" \notin A
  BY DEF extract_call_action, worst_action
<1> QED
  BY <1>1

--------------------------------------------------------------------------------
(* The ranking. *)

Before(marks, i, j) == marks[i] > marks[j] \/ (marks[i] = marks[j] /\ i < j)

(* The positions are a total order, and each has as many ahead as its rank. *)
LEMMA RanksAreDistinct ==
  ASSUME NEW n \in Nat, NEW marks, DOMAIN marks = 1..n, \A i \in 1..n : marks[i] \in Int
  PROVE  /\ \A i, j \in 1..n : i = j \/ Before(marks, i, j) \/ Before(marks, j, i)
         /\ \A i \in 1..n : IsFiniteSet(Ahead(marks, i)) /\ Cardinality(Ahead(marks, i)) \in 0..(n - 1)
         /\ \A i, j \in 1..n : Before(marks, i, j) => Cardinality(Ahead(marks, i)) < Cardinality(Ahead(marks, j))
<1>1. \A i, j \in 1..n : i = j \/ Before(marks, i, j) \/ Before(marks, j, i)
  BY DEF Before
<1>2. IsFiniteSet(1..n) /\ Cardinality(1..n) = n
  <2>1. 1 \in Int /\ n \in Int
    OBVIOUS
  <2>2. IsFiniteSet(1..n) /\ Cardinality(1..n) = IF 1 > n THEN 0 ELSE n - 1 + 1
    BY <2>1, FS_Interval
  <2> QED
    BY <2>2
<1>3. ASSUME NEW i \in 1..n
      PROVE  IsFiniteSet(Ahead(marks, i)) /\ Cardinality(Ahead(marks, i)) \in 0..(n - 1) /\ Ahead(marks, i) \in SUBSET (1..n)
  <2>1. Ahead(marks, i) \in SUBSET (1..n) /\ i \notin Ahead(marks, i)
    BY DEF Ahead
  <2>2. /\ IsFiniteSet(Ahead(marks, i)) /\ Cardinality(Ahead(marks, i)) <= n
        /\ (Cardinality(1..n) = Cardinality(Ahead(marks, i)) => 1..n = Ahead(marks, i))
    BY <1>2, <2>1, FS_Subset
  <2>3. Cardinality(Ahead(marks, i)) \in Nat
    BY <2>2, FS_CardinalityType
  <2> QED
    BY <1>2, <2>1, <2>2, <2>3
<1>4. ASSUME NEW i \in 1..n, NEW j \in 1..n, Before(marks, i, j)
      PROVE  Cardinality(Ahead(marks, i)) < Cardinality(Ahead(marks, j))
  <2> DEFINE A == Ahead(marks, i)
             B == Ahead(marks, j)
  <2>1. A \subseteq B
    <3> SUFFICES ASSUME NEW k \in A PROVE k \in B
      OBVIOUS
    <3>1. k \in 1..n /\ (marks[k] > marks[i] \/ (marks[k] = marks[i] /\ k < i))
      BY DEF Ahead
    <3>2. marks[i] > marks[j] \/ (marks[i] = marks[j] /\ i < j)
      BY <1>4 DEF Before
    <3>3. marks[k] \in Int /\ marks[i] \in Int /\ marks[j] \in Int
      BY <3>1
    <3>4. marks[k] > marks[j] \/ (marks[k] = marks[j] /\ k < j)
      BY <3>1, <3>2, <3>3
    <3> QED
      BY <3>1, <3>4 DEF Ahead
  <2>2. i \in B /\ i \notin A
    BY <1>4 DEF Before, Ahead
  <2>3. IsFiniteSet(B) /\ Cardinality(A) \in Nat /\ Cardinality(B) \in Nat
    BY <1>3
  <2> HIDE DEF A, B
  <2>4. Cardinality(A) <= Cardinality(B) /\ (Cardinality(B) = Cardinality(A) => B = A)
    BY <2>1, <2>3, FS_Subset
  <2> QED
    BY <2>2, <2>3, <2>4 DEF A, B
<1> QED
  BY <1>1, <1>3, <1>4

(* The n-th of the ranking has n - 1 ahead of it, and everything is in it. *)
LEMMA Descends ==
  ASSUME NEW n \in Nat, NEW marks, DOMAIN marks = 1..n, \A i \in 1..n : marks[i] \in Int
  PROVE  /\ _descending(marks) \in [1..n -> 1..n]
         /\ \A i, j \in 1..n : i < j => Before(marks, _descending(marks)[i], _descending(marks)[j])
         /\ \A i \in 1..n : \E r \in 1..n : _descending(marks)[r] = i
<1> DEFINE rank == [i \in 1..n |-> Cardinality(Ahead(marks, i)) + 1]
           d == _descending(marks)
<1>1. \A i \in 1..n : rank[i] \in 1..n /\ rank[i] = Cardinality(Ahead(marks, i)) + 1
  <2>1. \A i \in 1..n : Cardinality(Ahead(marks, i)) \in 0..(n - 1)
    BY RanksAreDistinct
  <2>2. \A i \in 1..n : rank[i] = Cardinality(Ahead(marks, i)) + 1
    OBVIOUS
  <2> QED
    BY <2>1, <2>2
<1>2. \A i, j \in 1..n : Before(marks, i, j) => rank[i] < rank[j]
  <2> SUFFICES ASSUME NEW i \in 1..n, NEW j \in 1..n, Before(marks, i, j) PROVE rank[i] < rank[j]
    OBVIOUS
  <2>1. Cardinality(Ahead(marks, i)) < Cardinality(Ahead(marks, j))
    BY RanksAreDistinct
  <2>2. Cardinality(Ahead(marks, i)) \in 0..(n - 1) /\ Cardinality(Ahead(marks, j)) \in 0..(n - 1)
    BY RanksAreDistinct
  <2> QED
    BY <1>1, <2>1, <2>2
<1>3. \A i, j \in 1..n : i = j \/ Before(marks, i, j) \/ Before(marks, j, i)
  BY RanksAreDistinct
<1>4. rank \in [1..n -> 1..n]
  BY <1>1
<1>a. \A x \in 1..n, i \in 1..n : (Cardinality(Ahead(marks, i)) = x - 1) <=> (rank[i] = x)
  <2> SUFFICES ASSUME NEW x \in 1..n, NEW i \in 1..n PROVE (Cardinality(Ahead(marks, i)) = x - 1) <=> (rank[i] = x)
    OBVIOUS
  <2> DEFINE c == Cardinality(Ahead(marks, i))
  <2>1. c \in 0..(n - 1)
    BY RanksAreDistinct
  <2>2. rank[i] = c + 1
    BY <1>1
  <2> HIDE DEF c, rank
  <2>3. (c = x - 1) <=> (rank[i] = x)
    BY <2>1, <2>2
  <2> QED
    BY <2>3 DEF c
<1>5. \A i, j \in 1..n : rank[i] = rank[j] => i = j
  <2> HIDE DEF rank
  <2> QED
    BY <1>1, <1>2, <1>3
<1>6. rank \in Surjection(1..n, 1..n)
  <2>1. IsFiniteSet(1..n)
    <3>1. 1 \in Int /\ n \in Int
      OBVIOUS
    <3> QED
      BY <3>1, FS_Interval
  <2> HIDE DEF rank
  <2>2. rank \in Injection(1..n, 1..n)
    BY <1>4, <1>5 DEF Injection, IsInjective
  <2> QED
    BY <2>1, <2>2, FS_Injection
<1>7. ASSUME NEW x \in 1..n PROVE d[x] \in 1..n /\ rank[d[x]] = x
  <2>1. d[x] = CHOOSE i \in 1..n : Cardinality(Ahead(marks, i)) = x - 1
    BY DEF _descending
  <2>2. \E i \in 1..n : rank[i] = x
    BY <1>6 DEF Surjection
  <2>3. \E i \in 1..n : Cardinality(Ahead(marks, i)) = x - 1
    BY <1>a, <2>2
  <2>4. d[x] \in 1..n /\ Cardinality(Ahead(marks, d[x])) = x - 1
    <3> HIDE DEF d
    <3> QED
      BY <2>1, <2>3
  <2> HIDE DEF d, rank
  <2> QED
    BY <1>a, <2>4
<1>8. d = [x \in 1..n |-> d[x]]
  BY DEF _descending
<1> HIDE DEF d, rank
<1>9. d \in [1..n -> 1..n]
  BY <1>7, <1>8
<1>10. ASSUME NEW i \in 1..n, NEW j \in 1..n, i < j PROVE Before(marks, d[i], d[j])
  <2>1. d[i] \in 1..n /\ d[j] \in 1..n /\ rank[d[i]] = i /\ rank[d[j]] = j
    BY <1>7
  <2>2. d[i] # d[j] /\ ~Before(marks, d[j], d[i])
    BY <1>2, <1>10, <2>1
  <2> QED
    BY <1>3, <2>1, <2>2
<1>11. ASSUME NEW i \in 1..n PROVE \E r \in 1..n : d[r] = i
  <2>1. rank[i] \in 1..n
    BY <1>1
  <2>2. d[rank[i]] \in 1..n /\ rank[d[rank[i]]] = rank[i]
    BY <1>7, <2>1
  <2> QED
    BY <1>5, <2>1, <2>2
<1> QED
  BY <1>9, <1>10, <1>11 DEF d

(* What is kept of it. *)
LEMMA KeepsTheBest ==
  ASSUME NEW n \in Nat, NEW marks, DOMAIN marks = 1..n, \A i \in 1..n : marks[i] \in Int,
         NEW k, k = Absent \/ k \in Nat
  PROVE  LET top == Keep(_descending(marks), k)
         IN  /\ \A i, j \in DOMAIN top : i < j => Before(marks, top[i], top[j])
             /\ \A x \in DOMAIN top, i \in 1..n : i \in Range(top) \/ Before(marks, top[x], i)
             /\ Len(top) < n => Len(top) = k
<1> DEFINE d == _descending(marks)
           m == IF k = Absent \/ k > n THEN n ELSE k
           top == SubSeq(d, 1, m)
<1>1. /\ d \in [1..n -> 1..n]
      /\ \A i, j \in 1..n : i < j => Before(marks, d[i], d[j])
      /\ \A i \in 1..n : \E r \in 1..n : d[r] = i
  BY Descends
<1> HIDE DEF d
<1>2. d \in Seq(1..n) /\ Len(d) = n
  <2>1. d \in [1..n -> 1..n]
    BY <1>1
  <2>2. d \in Seq(1..n)
    BY <2>1, SeqDef
  <2> QED
    BY <2>1, <2>2, LenProperties
<1>3. Keep(d, k) = top
  BY <1>2 DEF Keep
<1>4. m \in 0..n /\ m \in Int /\ (m < n => m = k)
  BY DEF Absent
<1> HIDE DEF m
<1>5. top \in Seq(1..n) /\ Len(top) = m /\ \A i \in 1..m : top[i] = d[i]
  <2>1. \A i \in 1..m : d[i] \in 1..n
    <3>1. d \in [1..n -> 1..n]
      BY <1>1
    <3>2. \A i \in 1..m : i \in 1..n
      BY <1>4
    <3> QED
      BY <3>1, <3>2
  <2>2. /\ SubSeq(d, 1, m) \in Seq(1..n)
        /\ Len(SubSeq(d, 1, m)) = IF 1 <= m THEN m - 1 + 1 ELSE 0
        /\ \A i \in 1..(m - 1 + 1) : SubSeq(d, 1, m)[i] = d[1 + i - 1]
    BY <1>4, <2>1, SubSeqProperties
  <2>3. m - 1 + 1 = m /\ \A i \in 1..m : 1 + i - 1 = i
    BY <1>4
  <2> QED
    BY <1>4, <2>2, <2>3
<1> HIDE DEF top
<1>6. DOMAIN top = 1..m /\ \A i \in 1..m : i \in 1..n
  BY <1>4, <1>5, LenProperties
<1>7. ASSUME NEW x \in DOMAIN top, NEW i \in 1..n, i \notin Range(top) PROVE Before(marks, top[x], i)
  <2>1. PICK r \in 1..n : d[r] = i
    BY <1>1
  <2>2. r \notin 1..m
    <3> SUFFICES ASSUME r \in 1..m PROVE FALSE
      OBVIOUS
    <3>1. top[r] = i /\ r \in DOMAIN top
      BY <1>5, <1>6, <2>1
    <3> QED
      BY <1>7, <3>1 DEF Range
  <2>3. x < r /\ x \in 1..n /\ top[x] = d[x]
    BY <1>4, <1>5, <1>6, <2>2
  <2> QED
    BY <1>1, <2>1, <2>3
<1>8. \A i, j \in DOMAIN top : i < j => Before(marks, top[i], top[j])
  BY <1>1, <1>5, <1>6
<1>9. Len(top) < n => Len(top) = k
  BY <1>4, <1>5
<1> QED
  BY <1>3, <1>7, <1>8, <1>9 DEF d

(* The elements of a sequence are no more than its length. *)
LEMMA RangeSmall ==
  ASSUME NEW D, NEW s \in Seq(D)
  PROVE  IsFiniteSet(Range(s)) /\ Cardinality(Range(s)) \in Nat /\ Cardinality(Range(s)) <= Len(s)
<1> DEFINE n == Len(s)
<1>1. n \in Nat /\ DOMAIN s = 1..n /\ s = [i \in 1..n |-> s[i]]
  BY LenProperties
<1>2. s \in Surjection(1..n, Range(s))
  BY <1>1 DEF Surjection, Range
<1>3. IsFiniteSet(1..n) /\ Cardinality(1..n) = n
  <2>1. 1 \in Int /\ n \in Int
    BY <1>1
  <2>2. IsFiniteSet(1..n) /\ Cardinality(1..n) = IF 1 > n THEN 0 ELSE n - 1 + 1
    BY <2>1, FS_Interval
  <2> QED
    BY <1>1, <2>2
<1> HIDE DEF n
<1>4. IsFiniteSet(Range(s)) /\ Cardinality(Range(s)) <= n
  BY <1>2, <1>3, FS_Surjection
<1> QED
  BY <1>4, FS_CardinalityType DEF n

(* With fewer names taken than there are suffixes to try, one is free. *)
LEMMA NameIsFree ==
  ASSUME NEW P, Nat \subseteq P, NEW base \in Seq(P), base # <<>>,
         NEW used, IsFiniteSet(used), NEW from \in Nat, NEW n \in Nat, Cardinality(used) <= n
  PROVE  /\ FreeName(base, used, from, n) \in Seq(P) /\ FreeName(base, used, from, n) # <<>>
         /\ FreeName(base, used, from, n) \notin used
<1>1. CASE base \notin used
  BY <1>1 DEF FreeName
<1>2. CASE base \in used
  <2> DEFINE T == from..(from + n)
             K == {k \in T : Append(base, k) \notin used}
  <2>1. IsFiniteSet(T) /\ Cardinality(used) < Cardinality(T)
    <3>1. from \in Int /\ from + n \in Int
      OBVIOUS
    <3>2. IsFiniteSet(T) /\ Cardinality(T) = IF from > from + n THEN 0 ELSE (from + n) - from + 1
      BY <3>1, FS_Interval
    <3>3. Cardinality(used) \in Nat
      BY FS_CardinalityType
    <3> QED
      BY <3>2, <3>3
  <2>2. ASSUME NEW k \in Nat
        PROVE  /\ Append(base, k) \in Seq(P) /\ Append(base, k) # <<>>
               /\ Append(base, k)[Len(base) + 1] = k
    <3>1. k \in P
      OBVIOUS
    <3> QED
      BY <3>1, AppendProperties
  <2>3. K # {}
    <3> SUFFICES ASSUME K = {} PROVE FALSE
      OBVIOUS
    <3> DEFINE f == [k \in T |-> Append(base, k)]
    <3>1. f \in [T -> used]
      OBVIOUS
    <3>2. PICK x \in T, y \in T : x # y /\ f[x] = f[y]
      <4> HIDE DEF f, T
      <4> QED
        BY <2>1, <3>1, FS_PigeonHole
    <3>3. x \in Nat /\ y \in Nat /\ Append(base, x) = Append(base, y)
      BY <3>2
    <3> QED
      BY <2>2, <3>2, <3>3
  <2>4. K \in SUBSET Nat
    OBVIOUS
  <2>5. Min(K) \in K
    <3> HIDE DEF K
    <3> QED
      BY <2>3, <2>4, LeastOf
  <2>6. FreeName(base, used, from, n) = Append(base, Min(K))
    BY <1>2 DEF FreeName
  <2>7. Min(K) \in Nat /\ Append(base, Min(K)) \notin used
    BY <2>4, <2>5
  <2> HIDE DEF K
  <2> QED
    BY <2>2, <2>6, <2>7
<1> QED
  BY <1>1, <1>2

(* A list that grows by one element for each number has its trace. *)
Additions(n, D) == [1..n -> [Seq(D) -> D]]
Grows(g, n, D, add) ==
  /\ g \in [0..n -> Seq(D)]
  /\ g[0] = <<>> /\ \A i \in 1..n : g[i] = Append(g[i - 1], add[i][g[i - 1]])
  /\ \A i \in 0..n : Len(g[i]) = i

LEMMA GrowingList ==
  ASSUME NEW n \in Nat, NEW D, NEW add \in Additions(n, D)
  PROVE  \E g : Grows(g, n, D, add)
<1> USE DEF Additions
<1> DEFINE step == [i \in 1..n |-> [s \in Seq(D) |-> Append(s, add[i][s])]]
<1>1. step \in [1..n -> [Seq(D) -> Seq(D)]]
  <2> SUFFICES ASSUME NEW i \in 1..n, NEW s \in Seq(D) PROVE Append(s, add[i][s]) \in Seq(D)
    OBVIOUS
  <2>1. add[i][s] \in D
    OBVIOUS
  <2> QED
    BY <2>1, AppendProperties
<1>2. <<>> \in Seq(D)
  OBVIOUS
<1>3. PICK g \in [0..n -> Seq(D)] : g[0] = <<>> /\ \A i \in 1..n : g[i] = step[i][g[i - 1]]
  <2>1. step \in Steps(n, Seq(D))
    BY <1>1 DEF Steps
  <2> HIDE DEF step
  <2>2. \E g : IsTrace(g, n, Seq(D), <<>>, step)
    BY <1>2, <2>1, Iterate
  <2> QED
    BY <2>2 DEF IsTrace
<1>4. ASSUME NEW i \in 1..n PROVE g[i] = Append(g[i - 1], add[i][g[i - 1]]) /\ Len(g[i]) = Len(g[i - 1]) + 1
  <2>1. g[i - 1] \in Seq(D)
    OBVIOUS
  <2>2. step[i][g[i - 1]] = Append(g[i - 1], add[i][g[i - 1]])
    BY <2>1
  <2>3. add[i][g[i - 1]] \in D
    BY <2>1
  <2> HIDE DEF step
  <2>4. g[i] = Append(g[i - 1], add[i][g[i - 1]])
    BY <1>3, <2>2
  <2>5. Len(Append(g[i - 1], add[i][g[i - 1]])) = Len(g[i - 1]) + 1
    BY <2>1, <2>3, AppendProperties
  <2> QED
    BY <2>4, <2>5
<1> HIDE DEF step
<1> DEFINE S == {i \in 0..n : Len(g[i]) = i}
<1>5. 0 \in S
  BY <1>3
<1>6. \A i \in 1..n : i - 1 \in S => i \in S
  BY <1>4
<1>7. \A i \in 0..n : i \in S
  <2> HIDE DEF S
  <2> QED
    BY <1>5, <1>6, CountUp
<1> QED
  BY <1>3, <1>4, <1>7 DEF Grows

(* FreeNames: as many names as before, none empty, none twice. *)
LEMMA NamesAreFree ==
  ASSUME NEW P, Nat \subseteq P, NEW bases \in Seq(Seq(P)), \A i \in 1..Len(bases) : bases[i] # <<>>,
         NEW from \in Nat
  PROVE  /\ FreeNames(bases, from) \in Seq(Seq(P))
         /\ Len(FreeNames(bases, from)) = Len(bases)
         /\ \A i \in 1..Len(bases) : FreeNames(bases, from)[i] # <<>>
         /\ \A i, j \in 1..Len(bases) : FreeNames(bases, from)[i] = FreeNames(bases, from)[j] => i = j
<1> DEFINE n == Len(bases)
           D == Seq(P)
           name(i, s) == FreeName(bases[i], Range(s), from, n)
           Good(f) == f = [i \in 0..n |-> IF i = 0 THEN <<>> ELSE Append(f[i - 1], name(i, f[i - 1]))]
<1>1. n \in Nat /\ \A i \in 1..n : bases[i] \in D
  BY LenProperties, ElementOfSeq
<1>2. ASSUME NEW i \in 1..n, NEW s \in Seq(D), Len(s) = i - 1
      PROVE  name(i, s) \in D /\ name(i, s) # <<>> /\ name(i, s) \notin Range(s)
  <2>1. IsFiniteSet(Range(s)) /\ Cardinality(Range(s)) \in Nat /\ Cardinality(Range(s)) <= Len(s)
    BY RangeSmall
  <2>2. Cardinality(Range(s)) <= n
    BY <1>1, <1>2, <2>1
  <2> HIDE DEF n
  <2> QED
    BY <1>1, <2>1, <2>2, NameIsFree DEF n
<1>3. \E f : Good(f)
  <2> DEFINE add == [i \in 1..n |-> [s \in Seq(D) |-> IF name(i, s) \in D THEN name(i, s) ELSE <<>>]]
  <2>1. add \in Additions(n, D)
    <3>1. <<>> \in D
      OBVIOUS
    <3> HIDE DEF D, name, n
    <3> QED
      BY <3>1 DEF Additions
  <2> HIDE DEF D
  <2>2. PICK g \in [0..n -> Seq(D)] :
           /\ g[0] = <<>> /\ \A i \in 1..n : g[i] = Append(g[i - 1], add[i][g[i - 1]])
           /\ \A i \in 0..n : Len(g[i]) = i
    <3> HIDE DEF add, n
    <3>1. \E g : Grows(g, n, D, add)
      BY <1>1, <2>1, GrowingList
    <3> QED
      BY <3>1 DEF Grows
  <2> HIDE DEF name, n
  <2>3. ASSUME NEW i \in 1..n PROVE add[i][g[i - 1]] = name(i, g[i - 1])
    <3>1. i - 1 \in 0..n /\ g[i - 1] \in Seq(D) /\ Len(g[i - 1]) = i - 1
      BY <1>1, <2>2
    <3>2. name(i, g[i - 1]) \in D
      BY <1>2, <3>1
    <3> QED
      BY <3>1, <3>2
  <2> HIDE DEF add
  <2>4. \A i \in 0..n : g[i] = IF i = 0 THEN <<>> ELSE Append(g[i - 1], name(i, g[i - 1]))
    <3> SUFFICES ASSUME NEW i \in 0..n PROVE g[i] = IF i = 0 THEN <<>> ELSE Append(g[i - 1], name(i, g[i - 1]))
      OBVIOUS
    <3>1. i = 0 \/ i \in 1..n
      BY <1>1
    <3> QED
      BY <2>2, <2>3, <3>1
  <2>5. g = [i \in 0..n |-> g[i]]
    OBVIOUS
  <2>6. Good(g)
    BY <2>4, <2>5
  <2> QED
    BY <2>6
<1> DEFINE out == CHOOSE f : Good(f)
<1>4. FreeNames(bases, from) = out[n]
  BY DEF FreeNames
<1>5. out[0] = <<>> /\ \A i \in 1..n : out[i] = Append(out[i - 1], name(i, out[i - 1]))
  <2>1. Good(out)
    BY <1>3
  <2> HIDE DEF out, name, n
  <2>2. \A i \in 0..n : out[i] = IF i = 0 THEN <<>> ELSE Append(out[i - 1], name(i, out[i - 1]))
    BY <2>1
  <2>3. 0 \in 0..n /\ \A i \in 1..n : i \in 0..n /\ i # 0
    BY <1>1
  <2> QED
    BY <2>2, <2>3
<1> HIDE DEF out
<1> DEFINE Fine(i) == /\ out[i] \in Seq(D) /\ Len(out[i]) = i
                      /\ \A j \in 1..i : out[i][j] # <<>>
                      /\ \A j, k \in 1..i : out[i][j] = out[i][k] => j = k
           S == {i \in 0..n : Fine(i)}
<1>6. 0 \in S
  <2>1. <<>> \in Seq(D) /\ Len(<<>>) = 0 /\ 1..0 = {}
    OBVIOUS
  <2>2. Fine(0)
    <3> HIDE DEF D, n, name
    <3> QED
      BY <1>5, <2>1
  <2> QED
    BY <1>1, <2>2
<1>7. ASSUME NEW i \in 1..n, i - 1 \in S PROVE i \in S
  <2> DEFINE s == out[i - 1]
             x == name(i, s)
  <2>0. Fine(i - 1) /\ i \in Nat /\ i - 1 \in Nat /\ i \in 0..n
    <3>1. i \in Nat /\ i - 1 \in Nat /\ i \in 0..n
      BY <1>1
    <3> HIDE DEF Fine
    <3> QED
      BY <1>7, <3>1
  <2>1. s \in Seq(D) /\ Len(s) = i - 1
    BY <2>0
  <2>2. x \in D /\ x # <<>> /\ x \notin Range(s)
    <3> HIDE DEF name, s, D, n
    <3> QED
      BY <1>2, <2>1
  <2>3. out[i] = Append(s, x)
    BY <1>5
  <2> HIDE DEF x, D
  <2>4. /\ out[i] \in Seq(D) /\ Len(out[i]) = i /\ out[i][i] = x
        /\ \A j \in 1..(i - 1) : out[i][j] = s[j]
    <3> HIDE DEF s
    <3>1. /\ Append(s, x) \in Seq(D) /\ Len(Append(s, x)) = Len(s) + 1
          /\ \A j \in 1..Len(s) : Append(s, x)[j] = s[j]
          /\ Append(s, x)[Len(s) + 1] = x
      BY <2>1, <2>2, AppendProperties
    <3>2. i - 1 + 1 = i
      BY <2>0
    <3> QED
      BY <2>1, <2>3, <3>1, <3>2
  <2>5. \A j \in 1..(i - 1) : s[j] # x /\ s[j] # <<>>
    <3>1. DOMAIN s = 1..(i - 1)
      BY <2>1, LenProperties
    <3> QED
      BY <2>0, <2>2, <3>1 DEF Range
  <2>6. \A j \in 1..i : j = i \/ j \in 1..(i - 1)
    BY <2>0
  <2>7. \A j \in 1..i : out[i][j] # <<>>
    BY <2>2, <2>4, <2>5, <2>6
  <2>8. ASSUME NEW j \in 1..i, NEW k \in 1..i, out[i][j] = out[i][k] PROVE j = k
    BY <2>0, <2>4, <2>5, <2>6, <2>8
  <2> QED
    BY <2>0, <2>4, <2>7, <2>8
<1>8. Fine(n)
  <2>1. n \in S
    <3>1. \A i \in 0..n : i \in S
      <4> HIDE DEF S, n
      <4> QED
        BY <1>1, <1>6, <1>7, CountUp
    <3>2. n \in 0..n
      BY <1>1
    <3> HIDE DEF S, n
    <3> QED
      BY <3>1, <3>2
  <2> HIDE DEF Fine, n
  <2> QED
    BY <2>1
<1> QED
  BY <1>4, <1>8

(* The parts an id may be made of. *)
IdParts(ids) == (UNION {Range(ids[i]) : i \in DOMAIN ids}) \cup Nat \cup {"candidate"}

LEMMA IdsAreSequences ==
  ASSUME NEW ids, List(ids), \A i \in DOMAIN ids : List(ids[i])
  PROVE  /\ Nat \subseteq IdParts(ids) /\ Len(ids) \in Nat /\ DOMAIN ids = 1..Len(ids)
         /\ ids \in Seq(Seq(IdParts(ids)))
         /\ \A i \in DOMAIN ids : <<"candidate", i - 1>> \in Seq(IdParts(ids)) /\ <<"candidate", i - 1>> # <<>>
<1>1. Len(ids) \in Nat /\ DOMAIN ids = 1..Len(ids) /\ ids = [i \in 1..Len(ids) |-> ids[i]]
  BY ListIsSeq DEF List
<1>2. ASSUME NEW i \in DOMAIN ids PROVE ids[i] \in Seq(IdParts(ids))
  <2>1. ids[i] \in Seq(Range(ids[i]))
    BY ListIsSeq
  <2>2. Range(ids[i]) \subseteq IdParts(ids)
    BY DEF IdParts
  <2> QED
    BY <2>1, <2>2, SeqMonotonic
<1>3. ids \in Seq(Seq(IdParts(ids)))
  <2>1. ids \in [1..Len(ids) -> Seq(IdParts(ids))]
    BY <1>1, <1>2
  <2> QED
    BY <1>1, <2>1, SeqDef
<1>4. ASSUME NEW i \in DOMAIN ids PROVE <<"candidate", i - 1>> \in Seq(IdParts(ids)) /\ <<"candidate", i - 1>> # <<>>
  <2>1. i - 1 \in Nat
    BY <1>1
  <2>2. "candidate" \in IdParts(ids) /\ i - 1 \in IdParts(ids)
    BY <2>1 DEF IdParts
  <2> HIDE DEF IdParts
  <2> QED
    BY <2>2
<1>5. Nat \subseteq IdParts(ids)
  BY DEF IdParts
<1> QED
  BY <1>1, <1>3, <1>4, <1>5

(* An id for each candidate, and none of them empty or used twice. *)
OneIdEach(out, n) ==
  /\ Len(out) = n /\ DOMAIN out = 1..n
  /\ \A i \in 1..n : out[i] # Omitted
  /\ \A i, j \in 1..n : out[i] = out[j] => i = j

LEMMA UniqueIdsAreUnique ==
  ASSUME NEW ids, List(ids), \A i \in DOMAIN ids : List(ids[i])
  PROVE  OneIdEach(unique_ids(ids), Len(ids))
<1> DEFINE P == IdParts(ids)
           bases == Externals(ids, "candidate")
           n == Len(ids)
<1>1. Nat \subseteq P /\ n \in Nat /\ DOMAIN ids = 1..n /\ ids \in Seq(Seq(P))
      /\ \A i \in 1..n : <<"candidate", i - 1>> \in Seq(P) /\ <<"candidate", i - 1>> # <<>>
  BY IdsAreSequences
<1>2. \A i \in 1..n : ids[i] \in Seq(P)
  BY <1>1, ElementOfSeq
<1>3. bases = [i \in 1..n |-> IF ids[i] = Omitted THEN <<"candidate", i - 1>> ELSE ids[i]]
  BY <1>1 DEF Externals
<1> HIDE DEF P, n, bases
<1>4. bases \in [1..n -> Seq(P)] /\ \A i \in 1..n : bases[i] # <<>>
  BY <1>1, <1>2, <1>3 DEF Omitted
<1>5. bases \in Seq(Seq(P)) /\ Len(bases) = n
  <2>1. bases \in Seq(Seq(P))
    BY <1>1, <1>4, SeqDef
  <2>2. Len(bases) \in Nat /\ DOMAIN bases = 1..Len(bases) /\ DOMAIN bases = 1..n
    BY <1>4, <2>1, LenProperties
  <2>3. \A x, y \in Nat : 1..x = 1..y => x = y
    OBVIOUS
  <2>4. Len(bases) = n
    BY <1>1, <2>2, <2>3
  <2> QED
    BY <2>1, <2>4
<1> DEFINE out == FreeNames(bases, 1)
<1>6. /\ out \in Seq(Seq(P)) /\ Len(out) = n
      /\ \A i \in 1..n : out[i] # <<>>
      /\ \A i, j \in 1..n : out[i] = out[j] => i = j
  <2>1. 1 \in Nat /\ \A i \in 1..Len(bases) : bases[i] # <<>>
    BY <1>4, <1>5
  <2>2. /\ FreeNames(bases, 1) \in Seq(Seq(P)) /\ Len(FreeNames(bases, 1)) = Len(bases)
        /\ \A i \in 1..Len(bases) : FreeNames(bases, 1)[i] # <<>>
        /\ \A i, j \in 1..Len(bases) : FreeNames(bases, 1)[i] = FreeNames(bases, 1)[j] => i = j
    <3>1. Nat \subseteq P /\ bases \in Seq(Seq(P))
      BY <1>1, <1>5
    <3> QED
      BY <2>1, <3>1, NamesAreFree, Zenon
  <2> QED
    BY <1>5, <2>2
<1>7. unique_ids(ids) = out
  BY DEF unique_ids, bases
<1> HIDE DEF out
<1>8. DOMAIN out = 1..n
  BY <1>6, LenProperties
<1> QED
  BY <1>6, <1>7, <1>8 DEF OneIdEach, Omitted, n

LEMMA ExternalIdsAreUnique ==
  ASSUME NEW ids, List(ids), \A i \in DOMAIN ids : List(ids[i]), ~Repeats(ids)
  PROVE  OneIdEach(_external_ids(ids), Len(ids))
<1> DEFINE P == IdParts(ids) \cup {Min({})}
           D == Seq(P)
           n == Len(ids)
           given == {ids[i] : i \in DOMAIN ids} \ {Omitted}
           name(i, s) == IF ids[i] # Omitted THEN ids[i]
                         ELSE FreeName(<<"candidate", i - 1>>, given \cup Range(s), 2, n)
           Good(f) == f = [i \in 0..n |-> IF i = 0 THEN <<>> ELSE Append(f[i - 1], name(i, f[i - 1]))]
<1>1. /\ Nat \subseteq P /\ n \in Nat /\ DOMAIN ids = 1..n
      /\ \A i \in 1..n : ids[i] \in D /\ <<"candidate", i - 1>> \in D /\ <<"candidate", i - 1>> # <<>>
  <2>1. /\ Nat \subseteq IdParts(ids) /\ n \in Nat /\ DOMAIN ids = 1..n /\ ids \in Seq(Seq(IdParts(ids)))
        /\ \A i \in 1..n : <<"candidate", i - 1>> \in Seq(IdParts(ids)) /\ <<"candidate", i - 1>> # <<>>
    BY IdsAreSequences
  <2>2. \A i \in 1..n : ids[i] \in Seq(IdParts(ids))
    BY <2>1, ElementOfSeq
  <2>3. \A s \in Seq(IdParts(ids)) : s \in Seq(P)
    <3>1. IdParts(ids) \subseteq P
      OBVIOUS
    <3> HIDE DEF P
    <3> QED
      BY <3>1, SeqMonotonic
  <2> QED
    BY <2>1, <2>2, <2>3
<1>2. ASSUME NEW i \in 1..n, NEW s PROVE name(i, s) \in D
  <2> DEFINE base == <<"candidate", i - 1>>
             used == given \cup Range(s)
             K == {k \in 2..(2 + n) : Append(base, k) \notin used}
  <2>1. base \in D
    BY <1>1
  <2>2. FreeName(base, used, 2, n) = base \/ FreeName(base, used, 2, n) = Append(base, Min(K))
    BY DEF FreeName
  <2>3. Min(K) \in P
    <3>1. CASE K = {}
      BY <3>1
    <3>2. CASE K # {}
      <4>1. K \in SUBSET Nat
        BY <1>1
      <4> HIDE DEF K, P
      <4>2. Min(K) \in K
        BY <3>2, <4>1, LeastOf
      <4> QED
        BY <1>1, <4>1, <4>2
    <3> QED
      BY <3>1, <3>2
  <2>4. Append(base, Min(K)) \in D
    <3> HIDE DEF base, K, P
    <3> QED
      BY <2>1, <2>3, AppendProperties
  <2> HIDE DEF base, used, K, P, D
  <2> QED
    BY <1>1, <2>1, <2>2, <2>4 DEF base, used
<1>3. \E f : Good(f)
  <2> DEFINE add == [i \in 1..n |-> [s \in Seq(D) |-> name(i, s)]]
  <2> HIDE DEF D, name, n
  <2>1. add \in Additions(n, D)
    BY <1>2 DEF Additions
  <2>2. PICK g : Grows(g, n, D, add)
    <3> HIDE DEF add
    <3> QED
      BY <1>1, <2>1, GrowingList
  <2>3. ASSUME NEW i \in 0..n PROVE g[i] = IF i = 0 THEN <<>> ELSE Append(g[i - 1], name(i, g[i - 1]))
    <3>1. CASE i = 0
      BY <2>2, <3>1 DEF Grows
    <3>2. CASE i # 0
      <4>1. i \in 1..n /\ i - 1 \in 0..n
        BY <1>1, <3>2
      <4>2. g[i - 1] \in Seq(D) /\ g[i] = Append(g[i - 1], add[i][g[i - 1]])
        <5> HIDE DEF add
        <5> QED
          BY <2>2, <4>1 DEF Grows
      <4>3. add[i][g[i - 1]] = name(i, g[i - 1])
        BY <4>1, <4>2
      <4> QED
        BY <3>2, <4>2, <4>3
    <3> QED
      BY <3>1, <3>2
  <2>4. g = [i \in 0..n |-> g[i]]
    BY <2>2 DEF Grows
  <2>5. Good(g)
    BY <2>3, <2>4
  <2> QED
    BY <2>5
<1> DEFINE out == CHOOSE f : Good(f)
<1>4. _external_ids(ids) = out[n]
  BY DEF _external_ids
<1>5. out[0] = <<>> /\ \A i \in 1..n : out[i] = Append(out[i - 1], name(i, out[i - 1]))
  <2>1. Good(out)
    BY <1>3
  <2> HIDE DEF out, name, n
  <2>2. \A i \in 0..n : out[i] = IF i = 0 THEN <<>> ELSE Append(out[i - 1], name(i, out[i - 1]))
    BY <2>1
  <2>3. 0 \in 0..n /\ \A i \in 1..n : i \in 0..n /\ i # 0
    BY <1>1
  <2> QED
    BY <2>2, <2>3
<1> HIDE DEF out
<1> DEFINE Fine(i) == /\ out[i] \in Seq(D) /\ Len(out[i]) = i
                      /\ \A j \in 1..i : out[i][j] # <<>>
                      /\ \A j \in 1..i : IF ids[j] # Omitted THEN out[i][j] = ids[j] ELSE out[i][j] \notin given
                      /\ \A j, k \in 1..i : out[i][j] = out[i][k] => j = k
           S == {i \in 0..n : Fine(i)}
<1>6. 0 \in S
  <2>1. <<>> \in Seq(D) /\ Len(<<>>) = 0 /\ 1..0 = {}
    OBVIOUS
  <2>2. Fine(0)
    <3> HIDE DEF D, n, name, given
    <3> QED
      BY <1>5, <2>1
  <2> QED
    BY <1>1, <2>2
<1>7. ASSUME NEW i \in 1..n, i - 1 \in S PROVE i \in S
  <2> DEFINE s == out[i - 1]
             x == name(i, s)
             used == given \cup Range(s)
  <2>0. Fine(i - 1) /\ i \in Nat /\ i - 1 \in Nat /\ i \in 0..n
    <3>1. i \in Nat /\ i - 1 \in Nat /\ i \in 0..n
      BY <1>1
    <3> HIDE DEF Fine
    <3> QED
      BY <1>7, <3>1
  <2>1. s \in Seq(D) /\ Len(s) = i - 1 /\ DOMAIN s = 1..(i - 1)
    <3>1. s \in Seq(D) /\ Len(s) = i - 1
      BY <2>0
    <3> HIDE DEF s, D
    <3> QED
      BY <3>1, LenProperties
  <2>2. IsFiniteSet(used) /\ Cardinality(used) <= n
    <3> DEFINE v == [j \in 1..n |-> IF ids[j] # Omitted THEN ids[j] ELSE IF j <= i - 1 THEN s[j] ELSE <<>>]
    <3>1. used \subseteq Range(v)
      <4>1. \A j \in 1..n : ids[j] # Omitted => ids[j] \in Range(v)
        BY DEF Range
      <4>2. \A j \in 1..(i - 1) : s[j] \in Range(v)
        <5> SUFFICES ASSUME NEW j \in 1..(i - 1) PROVE s[j] \in Range(v)
          OBVIOUS
        <5>1. j \in 1..n /\ j <= i - 1
          BY <1>1
        <5>2. s[j] = v[j]
          BY <2>0, <5>1
        <5> QED
          BY <5>1, <5>2 DEF Range
      <4> HIDE DEF v
      <4>3. given \subseteq Range(v)
        BY <1>1, <4>1
      <4>4. Range(s) \subseteq Range(v)
        <5> HIDE DEF s
        <5> QED
          BY <2>1, <4>2 DEF Range
      <4> QED
        BY <4>3, <4>4
    <3> HIDE DEF used
    <3>2. IsFiniteSet(Range(v)) /\ Cardinality(Range(v)) \in Nat /\ Cardinality(Range(v)) <= n
      <4> DEFINE V == Range(v)
      <4>1. DOMAIN v = 1..n /\ v = [j \in 1..n |-> v[j]]
        OBVIOUS
      <4> HIDE DEF v
      <4>2. v \in [1..n -> V]
        BY <4>1 DEF Range
      <4> HIDE DEF V, n
      <4>3. v \in Seq(V)
        BY <1>1, <4>2, SeqDef
      <4>4. Len(v) \in Nat /\ DOMAIN v = 1..Len(v)
        BY <4>3, LenProperties
      <4>5. Len(v) = n
        BY <1>1, <4>1, <4>4
      <4> QED
        BY <4>3, <4>5, RangeSmall
    <3> HIDE DEF v
    <3>3. IsFiniteSet(used) /\ Cardinality(used) <= Cardinality(Range(v))
      BY <3>1, <3>2, FS_Subset
    <3>4. Cardinality(used) \in Nat
      BY <3>3, FS_CardinalityType
    <3> QED
      BY <1>1, <3>2, <3>3, <3>4
  <2>3. x \in D /\ x # <<>> /\ x \notin Range(s) /\ (IF ids[i] # Omitted THEN x = ids[i] ELSE x \notin given)
    <3>1. CASE ids[i] # Omitted
      <4>1. x = ids[i] /\ ids[i] \in given
        BY <1>1, <3>1
      <4>2. ASSUME NEW j \in 1..(i - 1) PROVE s[j] # ids[i]
        <5>1. j \in 1..n /\ j # i
          BY <1>1
        <5>2. CASE ids[j] # Omitted
          <6>1. s[j] = ids[j]
            BY <2>0, <5>2
          <6> QED
            BY <1>1, <5>1, <5>2, <6>1 DEF Repeats
        <5>3. CASE ids[j] = Omitted
          <6>1. s[j] \notin given
            BY <2>0, <5>3
          <6> QED
            BY <4>1, <6>1
        <5> QED
          BY <5>2, <5>3
      <4>3. x \notin Range(s)
        <5> HIDE DEF s, x
        <5> QED
          BY <2>1, <4>1, <4>2 DEF Range
      <4> HIDE DEF s, x, given
      <4> QED
        BY <1>1, <3>1, <4>1, <4>3 DEF Omitted
    <3>2. CASE ids[i] = Omitted
      <4>1. x = FreeName(<<"candidate", i - 1>>, used, 2, n)
        BY <3>2
      <4> HIDE DEF used, x, n
      <4> DEFINE base == <<"candidate", i - 1>>
      <4>a. Nat \subseteq P /\ base \in Seq(P) /\ base # <<>> /\ 2 \in Nat /\ n \in Nat
        BY <1>1
      <4>b. IsFiniteSet(used) /\ Cardinality(used) <= n
        BY <2>2
      <4>c. x = FreeName(base, used, 2, n)
        BY <4>1
      <4> HIDE DEF base, P
      <4>2. x \in Seq(P) /\ x # <<>> /\ x \notin used
        BY <4>a, <4>b, <4>c, NameIsFree
      <4> QED
        BY <3>2, <4>2 DEF used
    <3> QED
      BY <3>1, <3>2
  <2>4. out[i] = Append(s, x)
    BY <1>5
  <2> HIDE DEF x, D, given, used
  <2>5. /\ out[i] \in Seq(D) /\ Len(out[i]) = i /\ out[i][i] = x
        /\ \A j \in 1..(i - 1) : out[i][j] = s[j]
    <3> HIDE DEF s
    <3>1. /\ Append(s, x) \in Seq(D) /\ Len(Append(s, x)) = Len(s) + 1
          /\ \A j \in 1..Len(s) : Append(s, x)[j] = s[j]
          /\ Append(s, x)[Len(s) + 1] = x
      BY <2>1, <2>3, AppendProperties
    <3>2. i - 1 + 1 = i
      BY <2>0
    <3> QED
      BY <2>1, <2>4, <3>1, <3>2
  <2>6. \A j \in 1..(i - 1) : s[j] # x /\ s[j] # <<>>
    BY <2>0, <2>1, <2>3 DEF Range
  <2>7. \A j \in 1..i : j = i \/ j \in 1..(i - 1)
    BY <2>0
  <2>8. \A j \in 1..i : out[i][j] # <<>>
    BY <2>3, <2>5, <2>6, <2>7
  <2>9. ASSUME NEW j \in 1..i, NEW k \in 1..i, out[i][j] = out[i][k] PROVE j = k
    BY <2>0, <2>5, <2>6, <2>7, <2>9
  <2>10. \A j \in 1..i : IF ids[j] # Omitted THEN out[i][j] = ids[j] ELSE out[i][j] \notin given
    BY <2>0, <2>3, <2>5, <2>7
  <2> QED
    BY <2>0, <2>5, <2>8, <2>9, <2>10
<1>8. Fine(n)
  <2>1. n \in S
    <3>1. \A i \in 0..n : i \in S
      <4> HIDE DEF S, n
      <4> QED
        BY <1>1, <1>6, <1>7, CountUp
    <3>2. n \in 0..n
      BY <1>1
    <3> HIDE DEF S, n
    <3> QED
      BY <3>1, <3>2
  <2> HIDE DEF Fine, n
  <2> QED
    BY <2>1
<1> HIDE DEF D
<1>9. DOMAIN out[n] = 1..n
  BY <1>8, LenProperties
<1> QED
  BY <1>4, <1>8, <1>9 DEF OneIdEach, Omitted

(* What each tool replies with, once its answers are in. *)
JudgeReplies(r) == stage' = "done" /\ job' = job /\ result' = r

(* A reply that settles nothing. *)
LEMMA NothingSettled ==
  ASSUME stage' # "done" \/ result'.status = "error"
           \/ job'.tool \notin {"classify", "compare", "extract", "screen", "find", "rerank"}
  PROVE  AnswersHonest'
BY DEF AnswersHonest, SettledIsBacked, RankingHonest, Replied

LEMMA SameReply ==
  ASSUME AnswersHonest, UNCHANGED <<stage, job, result>>
  PROVE  AnswersHonest'
<1>1. SettledIsBacked'
  <2> USE DEF AnswersHonest, SettledIsBacked, Replied, Backs
  <2>1. CASE job.tool = "classify"
    BY <2>1
  <2>2. CASE job.tool = "compare"
    BY <2>2
  <2>3. CASE job.tool = "extract"
    BY <2>3
  <2>4. CASE job.tool = "screen"
    BY <2>4
  <2>5. CASE job.tool \notin {"classify", "compare", "extract", "screen"}
    BY <2>5
  <2> QED
    BY <2>1, <2>2, <2>3, <2>4, <2>5
<1>2. RankingHonest'
  BY DEF AnswersHonest, RankingHonest, Replied
<1> QED
  BY <1>1, <1>2 DEF AnswersHonest

LEMMA ClassifyHonest ==
  ASSUME job \in Jobs, job.tool = "classify", Refusal(job) = "none", NEW raw, JudgeReplies(classify(job, raw))
  PROVE  AnswersHonest'
<1> DEFINE r == classify(job, raw)
<1>1. r.raw = raw
  BY DEF classify
<1>2. ASSUME NEW i \in DOMAIN r.rows, r.rows[i].decision = "auto"
      PROVE  \E c \in DOMAIN job.classes :
               /\ Externals(job.classes, "class")[c] = r.rows[i].class
               /\ raw[i].choice = <<"c", c - 1>> /\ Leads(raw[i], job, ClassKeys(job))
  BY <1>2, ClassifyBacked
<1> HIDE DEF r
<1>3. ASSUME NEW i \in DOMAIN r.rows, r.rows[i].decision = "auto"
      PROVE  \E c \in DOMAIN job.classes : /\ Externals(job.classes, "class")[c] = r.rows[i].class
                                           /\ Backs(r.raw[i], <<"c", c - 1>>, ClassKeys(job))
  BY <1>1, <1>2, <1>3 DEF Leads, Backs
<1>4. stage' = "done" /\ job' = job /\ result' = r
  BY DEF JudgeReplies, r
<1>5. SettledIsBacked'
  BY <1>3, <1>4 DEF SettledIsBacked, Replied, Backs
<1>6. RankingHonest'
  BY <1>4 DEF RankingHonest, Replied
<1> QED
  BY <1>5, <1>6 DEF AnswersHonest

LEMMA CompareHonest ==
  ASSUME job \in Jobs, job.tool = "compare", Refusal(job) = "none",
         NEW overall, NEW aspects, DOMAIN aspects = 1..job.aspects, aspects = [i \in DOMAIN aspects |-> aspects[i]],
         JudgeReplies(compare(job, overall, aspects))
  PROVE  AnswersHonest'
<1> DEFINE r == compare(job, overall, aspects)
<1>1. /\ \A i \in DOMAIN r.rows : r.rows[i].decision = "auto" =>
           r.raw[i].choice = r.rows[i].relation /\ Leads(r.raw[i], job, Relations)
      /\ r.action = "auto" => r.rows[1].decision = "auto"
  BY CompareBacked
<1>2. stage' = "done" /\ job' = job /\ result' = r
  BY DEF JudgeReplies
<1> HIDE DEF r
<1>3. SettledIsBacked'
  BY <1>1, <1>2 DEF SettledIsBacked, Replied, Backs, Leads
<1>4. RankingHonest'
  BY <1>2 DEF RankingHonest, Replied
<1> QED
  BY <1>3, <1>4 DEF AnswersHonest

LEMMA ScreenHonest ==
  ASSUME job.tool = "screen", Refusal(job) = "none", NEW injection, NEW substance, NEW relevance,
         JudgeReplies(screen(job, injection, substance, relevance))
  PROVE  AnswersHonest'
<1> DEFINE r == screen(job, injection, substance, relevance)
<1>1. r.recommendation = "pass" =>
        /\ \A i \in DOMAIN r.raw : r.raw[i] \in 30..100 \/ i = 1
        /\ r.raw[1] < job.block_at /\ r.raw[1] < job.review_at
  BY LetThrough, ScreenBacked
<1>2. stage' = "done" /\ job' = job /\ result' = r
  BY DEF JudgeReplies
<1> HIDE DEF r
<1>3. SettledIsBacked'
  BY <1>1, <1>2 DEF SettledIsBacked, Replied
<1>4. RankingHonest'
  BY <1>2 DEF RankingHonest, Replied
<1> QED
  BY <1>3, <1>4 DEF AnswersHonest

LEMMA ExtractHonest ==
  ASSUME job \in Jobs, job.tool = "extract", Refusal(job) = "none", fields \in Seq(Finds), NEW raw,
         JudgeReplies(extract(job, fields, raw))
  PROVE  AnswersHonest'
<1> DEFINE r == extract(job, fields, raw)
           rows == [i \in DOMAIN fields |-> _result(job, fields[i], raw[i])]
           statuses == {rows[i].status : i \in DOMAIN rows}
<1>1. r.raw = raw /\ r.rows = rows /\ r.found = fields /\ r.call_action = extract_call_action(statuses)
  BY DEF extract
<1>2. stage' = "done" /\ job' = job /\ result' = r
  BY DEF JudgeReplies
<1>3. ASSUME NEW i \in DOMAIN fields, rows[i].status \in {"auto", "not_found"}
      PROVE  /\ ~fields[i].error /\ ~fields[i].truncated /\ fields[i].too_long = 0
             /\ fields[i].candidates > 0 =>
                  /\ raw[i].choice = IF rows[i].status = "auto" THEN rows[i].value ELSE NoneOfThem
                  /\ Leads(raw[i], job, CandidateKeys(fields[i]))
  <2>1. fields[i].candidates \in Nat /\ fields[i].too_long \in Nat
    <3>1. fields[i] \in Finds
      BY ElementOfSeq, LenProperties
    <3> QED
      BY <3>1, JudgmentsAssumption
  <2>2. Thresholds(job)
    BY LetThrough
  <2>3. rows[i] = _result(job, fields[i], raw[i])
    OBVIOUS
  <2> HIDE DEF rows
  <2> QED
    BY <1>3, <2>1, <2>2, <2>3, FieldBacked
<1>4. DOMAIN rows = DOMAIN fields
  OBVIOUS
<1>5. extract_call_action(statuses) = "auto" => \A i \in DOMAIN rows : rows[i].status \in {"auto", "not_found"}
  <2>1. extract_call_action(statuses) = "auto" => statuses \subseteq {"auto", "not_found"}
    <3> HIDE DEF statuses
    <3> QED
      BY CallActionBacked
  <2> HIDE DEF rows
  <2> QED
    BY <2>1
<1> HIDE DEF r, rows, statuses
<1>6. SettledIsBacked'
  <2>1. ~Replied("classify")' /\ ~Replied("compare")' /\ ~Replied("screen")'
    BY <1>2 DEF Replied
  <2>2. ASSUME NEW i \in DOMAIN rows, rows[i].status \in {"auto", "not_found"}
        PROVE  /\ ~fields[i].error /\ ~fields[i].truncated /\ fields[i].too_long = 0
               /\ fields[i].candidates > 0 =>
                    LET pick == IF rows[i].status = "auto" THEN rows[i].value ELSE NoneOfThem
                    IN  /\ raw[i].object /\ raw[i].choice = pick /\ raw[i].probabilities[pick] >= job.auto_accept
                        /\ \A k \in CandidateKeys(fields[i]) \ {pick} :
                             raw[i].probabilities[pick] - raw[i].probabilities[k] >= job.minimum_margin
    BY <1>3, <1>4, <2>2 DEF Leads
  <2>3. /\ result'.rows = rows /\ result'.raw = raw /\ result'.found = fields
        /\ result'.call_action = "auto" => \A i \in DOMAIN rows : rows[i].status \in {"auto", "not_found"}
    BY <1>1, <1>2, <1>5
  <2> QED
    BY <1>2, <2>1, <2>2, <2>3 DEF SettledIsBacked, Backs
<1>7. RankingHonest'
  BY <1>2 DEF RankingHonest, Replied
<1> QED
  BY <1>6, <1>7 DEF AnswersHonest

(* A ranking of n candidates with an id and a score each. *)
Ranked(r, n, k) ==
  /\ OneIdEach(r.ids, n)
  /\ DOMAIN r.score = 1..n /\ \A i \in 1..n : r.score[i] \in Int
  /\ r.top = Keep(_descending(r.score), k)

LEMMA RankedHonest ==
  ASSUME job.tool \in {"find", "rerank"}, NEW r, NEW n \in Nat, job.top_k = Absent \/ job.top_k \in Nat,
         r.status = "ok" => Ranked(r, n, job.top_k), JudgeReplies(r)
  PROVE  AnswersHonest'
<1>1. stage' = "done" /\ job' = job /\ result' = r
  BY DEF JudgeReplies
<1>2. SettledIsBacked'
  BY <1>1 DEF SettledIsBacked, Replied
<1>3. ASSUME r.status = "ok"
      PROVE  /\ IsInjective(r.ids) /\ Omitted \notin Range(r.ids) /\ Len(r.ids) = n /\ DOMAIN r.ids = 1..n
             /\ \A x, y \in DOMAIN r.top : x < y => Before(r.score, r.top[x], r.top[y])
             /\ \A x \in DOMAIN r.top, i \in 1..n : i \in Range(r.top) \/ Before(r.score, r.top[x], i)
             /\ Len(r.top) < n => Len(r.top) = job.top_k
  <2>1. Ranked(r, n, job.top_k)
    BY <1>3
  <2>2. IsInjective(r.ids) /\ Omitted \notin Range(r.ids) /\ Len(r.ids) = n /\ DOMAIN r.ids = 1..n
    BY <2>1 DEF Ranked, OneIdEach, IsInjective, Range
  <2> DEFINE s == r.score
             top == Keep(_descending(s), job.top_k)
  <2>3. DOMAIN s = 1..n /\ (\A i \in 1..n : s[i] \in Int) /\ r.top = top
    BY <2>1 DEF Ranked
  <2> HIDE DEF s
  <2>4. /\ \A x, y \in DOMAIN top : x < y => Before(s, top[x], top[y])
        /\ \A x \in DOMAIN top, i \in 1..n : i \in Range(top) \/ Before(s, top[x], i)
        /\ Len(top) < n => Len(top) = job.top_k
    BY <2>3, KeepsTheBest
  <2> HIDE DEF top
  <2> QED
    BY <2>2, <2>3, <2>4 DEF s
<1>4. RankingHonest'
  BY <1>1, <1>3 DEF RankingHonest, Replied, Before
<1> QED
  BY <1>2, <1>4 DEF AnswersHonest

LEMMA FindHonest ==
  ASSUME job \in Jobs, job.tool = "find", Refusal(job) = "none", NEW best, NEW exists,
         JudgeReplies(find(job, best, exists))
  PROVE  AnswersHonest'
<1> DEFINE r == find(job, best, exists)
           ids == unique_ids(job.ids)
           n == Len(job.ids)
           a == validate_choice(best, Range(ids))
           p == [i \in DOMAIN ids |-> a.probabilities[ids[i]]]
<1>1. List(job.ids) /\ \A i \in DOMAIN job.ids : List(job.ids[i])
  BY JudgmentsAssumption
<1>2. n \in Nat /\ OneIdEach(ids, n)
  BY <1>1, UniqueIdsAreUnique, ListIsSeq
<1>3. job.top_k = Absent \/ job.top_k \in Nat
  BY LetThrough, JudgmentsAssumption DEF find_schema
<1>4. ASSUME r.status = "ok" PROVE Ranked(r, n, job.top_k)
  <2>1. a.valid
    BY <1>4 DEF find
  <2>2. r.ids = ids /\ r.score = p /\ r.top = Keep(_descending(p), job.top_k)
    <3> HIDE DEF n
    <3> QED
      BY <1>4 DEF find
  <2>3. a = Choice(best) /\ Shaped(best, Range(ids))
    <3> HIDE DEF ids
    <3> QED
      BY <2>1, ValidChoice
  <2>4. \A i \in DOMAIN ids : a.probabilities[ids[i]] \in Int
    <3>1. a.probabilities = best.probabilities
      BY <2>3 DEF Choice
    <3> HIDE DEF ids, a
    <3>2. \A i \in DOMAIN ids : ids[i] \in Range(ids)
      BY DEF Range
    <3> QED
      BY <2>3, <3>1, <3>2 DEF Shaped
  <2>5. DOMAIN ids = 1..n
    BY <1>2 DEF OneIdEach
  <2> HIDE DEF ids, a, n
  <2>6. DOMAIN p = 1..n /\ \A i \in 1..n : p[i] \in Int
    BY <2>4, <2>5
  <2> HIDE DEF p, r
  <2> QED
    BY <1>2, <2>2, <2>6 DEF Ranked
<1> HIDE DEF n
<1> QED
  BY <1>2, <1>3, <1>4, RankedHonest

LEMMA RerankHonest ==
  ASSUME job \in Jobs, job.tool = "rerank", Refusal(job) = "none", NEW raw, DOMAIN raw = DOMAIN job.ids,
         JudgeReplies(rerank(job, raw))
  PROVE  AnswersHonest'
<1> DEFINE r == rerank(job, raw)
           ids == _external_ids(job.ids)
           n == Len(job.ids)
           s == [i \in DOMAIN raw |-> validate_noul(raw[i])]
<1>1. List(job.ids) /\ (\A i \in DOMAIN job.ids : List(job.ids[i])) /\ ~Repeats(job.ids)
  BY LetThrough, JudgmentsAssumption
<1>2. n \in Nat /\ DOMAIN job.ids = 1..n /\ OneIdEach(ids, n)
  BY <1>1, ExternalIdsAreUnique, ListIsSeq
<1>3. job.top_k = Absent \/ job.top_k \in Nat
  BY LetThrough, JudgmentsAssumption DEF rerank_schema
<1>4. ASSUME r.status = "ok" PROVE Ranked(r, n, job.top_k)
  <2>2. r.ids = ids /\ r.score = s /\ r.top = Keep(_descending(s), job.top_k)
    <3> HIDE DEF n
    <3> QED
      BY <1>4 DEF rerank
  <2>3. \A i \in DOMAIN raw : validate_noul(raw[i]) \in Int
    BY DEF validate_noul, unit_interval, Unknown
  <2> HIDE DEF ids, n
  <2>4. DOMAIN s = 1..n /\ \A i \in 1..n : s[i] \in Int
    BY <1>2, <2>3
  <2> HIDE DEF s, r
  <2> QED
    BY <1>2, <2>2, <2>4 DEF Ranked
<1> HIDE DEF n
<1> QED
  BY <1>2, <1>3, <1>4, RankedHonest

(* Where a call is says what it was let through with. *)
JudgedShape ==
  /\ fields \in Seq(Finds)
  /\ stage \in {"matching", "asked"} => job \in Jobs /\ Refusal(job) = "none"
  /\ stage = "matching" => job.tool = "extract"
  /\ stage \in {"gate", "ask"} => job.tool = "ask"

JudgedInv == JudgedShape /\ AnswersHonest

LEMMA InitJudgedInv == AskInit => JudgedInv
BY DEF AskInit, JudgmentInit, JudgedInv, JudgedShape, AnswersHonest, SettledIsBacked, RankingHonest, Replied

(* The steps of the one-question tools. *)
LEMMA JudgmentsKeepJudged ==
  ASSUME JudgedInv, JudgmentNext
  PROVE  JudgedInv'
<1> USE DEF JudgedInv, Done
<1>1. CASE Call
  <2>1. PICK j \in Jobs :
          /\ job' = j
          /\ IF Refusal(j) # "none" THEN Done(Refused(Refusal(j)))
             ELSE stage' = (IF j.tool = "extract" THEN "matching" ELSE "asked") /\ UNCHANGED result
    BY <1>1 DEF Call
  <2>2. JudgedShape'
    BY <1>1, <2>1 DEF Call, JudgedShape
  <2>3. stage' # "done" \/ result'.status = "error"
    BY <2>1 DEF Refused
  <2> QED
    BY <2>2, <2>3, NothingSettled
<1>2. CASE find_candidates
  <2>1. UNCHANGED <<stage, job, result>> /\ fields' \in Seq(Finds)
    BY <1>2 DEF find_candidates, JudgedShape
  <2> QED
    BY <2>1, SameReply DEF JudgedShape
<1>3. CASE BuildExtract
  <2>1. stage = "matching" /\ job' = job /\ fields' = fields
    BY <1>3 DEF BuildExtract
  <2>2. \/ stage' = "done" /\ result'.status = "error"
        \/ stage' = "done" /\ result' = extract(job, fields, [i \in DOMAIN fields |-> [object |-> FALSE]])
        \/ stage' = "asked"
    BY <1>3 DEF BuildExtract, Refused
  <2>3. JudgedShape'
    BY <2>1, <2>2 DEF JudgedShape
  <2>4. AnswersHonest'
    <3>1. job \in Jobs /\ job.tool = "extract" /\ Refusal(job) = "none" /\ fields \in Seq(Finds)
      BY <2>1 DEF JudgedShape
    <3> QED
      BY <2>1, <2>2, <3>1, ExtractHonest, NothingSettled DEF JudgeReplies
  <2> QED
    BY <2>3, <2>4
<1>4. ASSUME NEW tool, Asked(tool), stage' = "done" PROVE JudgedShape' /\ job \in Jobs /\ Refusal(job) = "none" /\ job.tool = tool /\ job' = job
  BY <1>4 DEF Asked, JudgedShape
<1>5. CASE AnswerClassify
  BY <1>4, <1>5, ClassifyHonest DEF AnswerClassify, JudgeReplies
<1>6. CASE AnswerCompare
  <2>1. PICK overall \in RawChoices(Relations), aspects \in [1..job.aspects -> RawChoices(Relations)] :
          stage' = "done" /\ result' = compare(job, overall, aspects)
    BY <1>6 DEF AnswerCompare
  <2>2. DOMAIN aspects = 1..job.aspects /\ aspects = [i \in DOMAIN aspects |-> aspects[i]]
    OBVIOUS
  <2>3. Asked("compare")
    BY <1>6 DEF AnswerCompare
  <2> QED
    BY <1>4, <2>1, <2>2, <2>3, CompareHonest DEF JudgeReplies
<1>7. CASE AnswerFind
  <2>1. PICK best \in RawChoices(Range(unique_ids(job.ids))), exists \in Nouls :
          stage' = "done" /\ result' = find(job, best, exists)
    BY <1>7 DEF AnswerFind
  <2>2. Asked("find")
    BY <1>7 DEF AnswerFind
  <2> QED
    BY <1>4, <2>1, <2>2, FindHonest DEF JudgeReplies
<1>8. CASE AnswerRerank
  <2>1. PICK raw \in [DOMAIN job.ids -> Nouls] : stage' = "done" /\ result' = rerank(job, raw)
    BY <1>8 DEF AnswerRerank
  <2>2. Asked("rerank") /\ DOMAIN raw = DOMAIN job.ids
    BY <1>8 DEF AnswerRerank
  <2> QED
    BY <1>4, <2>1, <2>2, RerankHonest DEF JudgeReplies
<1>9. CASE AnswerScreen
  <2>1. PICK injection \in Nouls, substance \in Nouls, relevance \in IF job.purpose THEN Nouls ELSE {Absent} :
          stage' = "done" /\ result' = screen(job, injection, substance, relevance)
    BY <1>9 DEF AnswerScreen
  <2>2. Asked("screen")
    BY <1>9 DEF AnswerScreen
  <2> QED
    BY <1>4, <2>1, <2>2, ScreenHonest DEF JudgeReplies
<1>10. CASE AnswerExtract
  <2>1. PICK raw : stage' = "done" /\ result' = extract(job, fields, raw)
    BY <1>10 DEF AnswerExtract
  <2>2. Asked("extract") /\ fields \in Seq(Finds)
    BY <1>10 DEF AnswerExtract, JudgedShape
  <2> QED
    BY <1>4, <2>1, <2>2, ExtractHonest DEF JudgeReplies
<1>11. CASE AnswerDecide
  <2>1. Asked("decide") /\ stage' = "done"
    BY <1>11 DEF AnswerDecide
  <2> QED
    BY <1>4, <2>1, NothingSettled
<1>12. CASE AnswerScore
  <2>1. Asked("score") /\ stage' = "done"
    BY <1>12 DEF AnswerScore
  <2> QED
    BY <1>4, <2>1, NothingSettled
<1>13. CASE AnswerFileJudge
  <2>1. Asked("file_judge") /\ stage' = "done"
    BY <1>13 DEF AnswerFileJudge
  <2> QED
    BY <1>4, <2>1, NothingSettled
<1> QED
  BY <1>1, <1>2, <1>3, <1>5, <1>6, <1>7, <1>8, <1>9, <1>10, <1>11, <1>12, <1>13 DEF JudgmentNext

(* The end of a command's run leaves the call jev_ask's. *)
LEMMA RunEndsJudged ==
  ASSUME JudgedInv, NEW r, RunEnds(r), stage = "gate"
  PROVE  JudgedInv'
<1>1. job.tool = "ask" /\ job' = job /\ fields' = fields /\ stage' \in {"ask", "done"}
  BY DEF RunEnds, Done, JudgedInv, JudgedShape
<1>2. JudgedShape'
  BY <1>1 DEF JudgedInv, JudgedShape
<1> QED
  BY <1>1, <1>2, NothingSettled DEF JudgedInv

(* The steps of jev_ask, and of what it runs. *)
LEMMA AsksKeepJudged ==
  ASSUME JudgedInv, AskInv,
         \/ CallAsk \/ GateAnswer \/ Thread \/ Fork \/ ProcessExits
         \/ \E s \in Streams : Write(s) \/ drain(s)
         \/ OverBudgetAfter \/ AskAnswer \/ Cancel \/ AskReset \/ PlanFiles
  PROVE  JudgedInv'
<1> USE DEF Done
<1>0. ASSUME UNCHANGED judging PROVE JudgedInv'
  BY <1>0, SameReply DEF judging, JudgedInv, JudgedShape
<1>1. ASSUME fields' = fields, job'.tool \in {"ask", "files_judge"}, stage' \in {"gate", "ask"} => job'.tool = "ask",
             stage' \in {"gate", "ask", "done"}
      PROVE  JudgedInv'
  BY <1>1, NothingSettled DEF JudgedInv, JudgedShape
<1>2. watch # "none" => stage = "gate"
  BY DEF AskInv, GroupInv
<1>3. CASE CallAsk
  <2>1. fields' = fields /\ \E j \in AskJobs : job' = j /\ stage' \in {"gate", "ask", "done"}
    BY <1>3 DEF CallAsk
  <2> QED
    BY <1>1, <2>1, AskAssumption
<1>4. CASE GateAnswer
  <2>1. fields' = fields /\ job' = job /\ stage = "gate" /\ stage' \in {"gate", "done"}
    BY <1>4 DEF GateAnswer
  <2> QED
    BY <1>1, <2>1 DEF JudgedInv, JudgedShape
<1>5. CASE Thread
  <2>1. (\E r : RunEnds(r) /\ watch # "none") \/ UNCHANGED judging
    BY <1>5 DEF Thread, Spawn, WaitEnds, _kill_group, JoinReaders, CheckOutcome, CheckReaders, Measure, Calling
  <2> QED
    BY <1>0, <1>2, <2>1, RunEndsJudged
<1>6. CASE Fork \/ ProcessExits \/ \E s \in Streams : Write(s) \/ drain(s)
  BY <1>0, <1>6 DEF Fork, ProcessExits, Write, drain, Calling
<1>7. CASE OverBudgetAfter \/ AskAnswer
  <2>1. fields' = fields /\ job' = job /\ stage = "ask" /\ stage' = "done"
    BY <1>7 DEF OverBudgetAfter, AskAnswer
  <2> QED
    BY <1>1, <2>1 DEF JudgedInv, JudgedShape
<1>8. CASE Cancel
  <2>1. fields' = fields /\ job' = job /\ stage \in {"gate", "ask"} /\ stage' \in {stage, "done"}
    BY <1>8 DEF Cancel
  <2> QED
    BY <1>1, <2>1 DEF JudgedInv, JudgedShape
<1>9. CASE AskReset
  <2>1. stage' = "idle" /\ fields' = <<>>
    BY <1>9 DEF AskReset, Reset
  <2> QED
    BY <2>1, NothingSettled DEF JudgedInv, JudgedShape
<1>10. CASE PlanFiles
  <2>1. fields' = fields /\ job'.tool = "files_judge" /\ stage' = "done"
    BY <1>10 DEF PlanFiles
  <2> QED
    BY <1>1, <2>1
<1> QED
  BY <1>3, <1>4, <1>5, <1>6, <1>7, <1>8, <1>9, <1>10

LEMMA NextJudgedInv == JudgedInv /\ AskInv /\ [AskNext]_askVars => JudgedInv'
<1> SUFFICES ASSUME JudgedInv, AskInv, [AskNext]_askVars PROVE JudgedInv'
  OBVIOUS
<1>1. CASE UNCHANGED askVars
  BY <1>1, SameReply DEF askVars, judging, JudgedInv, JudgedShape
<1>2. CASE AskNext
  BY <1>2, JudgmentsKeepJudged, AsksKeepJudged DEF AskNext
<1> QED
  BY <1>1, <1>2

(* ADR-0002: whatever Jev answers, and whatever ids and candidates the     *)
(* caller sends.                                                           *)
THEOREM AnswersAreHonest == AskSpec => []AnswersHonest
<1>1. AskSpec => []JudgedInv
  BY InitJudgedInv, NextJudgedInv, AskInvariant, PTL DEF AskSpec
<1>2. JudgedInv => AnswersHonest
  BY DEF JudgedInv
<1> QED
  BY <1>1, <1>2, PTL

--------------------------------------------------------------------------------
(* jev_ask: the split it suggests, and the names of its state. *)

(* Two functions that take the same steps from the same start agree. *)
InStep(g, h, n) == g[0] = h[0] /\ \A i \in 1..n : g[i - 1] = h[i - 1] => g[i] = h[i]

LEMMA SameStart ==
  ASSUME NEW n \in Nat, NEW g, NEW h, InStep(g, h, n)
  PROVE  \A i \in 0..n : g[i] = h[i]
<1> USE DEF InStep
<1> DEFINE S == {i \in 0..n : g[i] = h[i]}
<1>1. 0 \in S
  OBVIOUS
<1>2. \A i \in 1..n : i - 1 \in S => i \in S
  OBVIOUS
<1>3. \A i \in 0..n : i \in S
  <2> HIDE DEF S
  <2> QED
    BY <1>1, <1>2, CountUp
<1> QED
  BY <1>3

(* The running sums behind Units. *)
Weighed(D) == \A x \in D : x.units \in Nat
Sums(f, ps) ==
  /\ f \in [0..Len(ps) -> Nat] /\ f[0] = 0
  /\ \A i \in 1..Len(ps) : f[i] = f[i - 1] + ps[i].units

LEMMA UnitsIsASum ==
  ASSUME NEW D, Weighed(D), NEW ps \in Seq(D)
  PROVE  \E f : Sums(f, ps) /\ Units(ps) = f[Len(ps)]
<1> DEFINE n == Len(ps)
           Good(f) == f = [i \in 0..n |-> IF i = 0 THEN 0 ELSE f[i - 1] + ps[i].units]
           step == [i \in 1..n |-> [x \in Nat |-> x + ps[i].units]]
<1>1. n \in Nat /\ \A i \in 1..n : ps[i].units \in Nat
  BY LenProperties, ElementOfSeq DEF Weighed
<1> HIDE DEF n
<1>2. step \in Steps(n, Nat) /\ 0 \in Nat
  BY <1>1 DEF Steps
<1>3. PICK g : IsTrace(g, n, Nat, 0, step)
  <2> HIDE DEF step
  <2> QED
    BY <1>1, <1>2, Iterate
<1>4. g \in [0..n -> Nat] /\ g[0] = 0 /\ \A i \in 1..n : g[i] = g[i - 1] + ps[i].units
  <2>1. g \in [0..n -> Nat] /\ g[0] = 0 /\ \A i \in 1..n : g[i] = step[i][g[i - 1]]
    <3> HIDE DEF step
    <3> QED
      BY <1>3 DEF IsTrace
  <2>2. \A i \in 1..n : g[i - 1] \in Nat /\ step[i][g[i - 1]] = g[i - 1] + ps[i].units
    BY <1>1, <2>1
  <2> HIDE DEF step
  <2> QED
    BY <2>1, <2>2
<1> HIDE DEF step
<1>5. Good(g)
  <2>1. g = [i \in 0..n |-> g[i]]
    BY <1>4
  <2>2. \A i \in 0..n : g[i] = IF i = 0 THEN 0 ELSE g[i - 1] + ps[i].units
    <3>1. \A i \in 0..n : i = 0 \/ i \in 1..n
      BY <1>1
    <3> QED
      BY <1>4, <3>1
  <2> QED
    BY <2>1, <2>2
<1> DEFINE f == CHOOSE h : Good(h)
<1>6. Good(f)
  BY <1>5
<1>7. Units(ps) = f[n]
  BY DEF Units, n
<1> HIDE DEF f
<1>8. f[0] = 0 /\ \A i \in 1..n : f[i] = f[i - 1] + ps[i].units
  <2>1. \A i \in 0..n : f[i] = IF i = 0 THEN 0 ELSE f[i - 1] + ps[i].units
    BY <1>6
  <2>2. 0 \in 0..n /\ \A i \in 1..n : i \in 0..n /\ i # 0
    BY <1>1
  <2> QED
    BY <2>1, <2>2
<1>9. \A i \in 0..n : f[i] = g[i]
  <2>1. InStep(f, g, n)
    BY <1>4, <1>8 DEF InStep
  <2> QED
    BY <1>1, <2>1, SameStart
<1>10. f[n] = g[n]
  BY <1>1, <1>9
<1> QED
  BY <1>4, <1>7, <1>10 DEF Sums, n

(* Units, part by part. *)
LEMMA UnitsGrow ==
  ASSUME NEW D, Weighed(D), NEW ps \in Seq(D)
  PROVE  /\ Units(ps) \in Nat /\ Units(<<>>) = 0
         /\ \A x \in D : Units(Append(ps, x)) = Units(ps) + x.units
         /\ \A x \in D : Units(<<x>>) = x.units
<1>1. ASSUME NEW s \in Seq(D) PROVE Units(s) \in Nat
  <2>1. PICK f : Sums(f, s) /\ Units(s) = f[Len(s)]
    BY UnitsIsASum
  <2>2. Len(s) \in Nat
    BY LenProperties
  <2> QED
    BY <2>1, <2>2 DEF Sums
<1>2. Units(<<>>) = 0
  <2>1. <<>> \in Seq(D) /\ Len(<<>>) = 0
    OBVIOUS
  <2>2. PICK f : Sums(f, <<>>) /\ Units(<<>>) = f[Len(<<>>)]
    BY <2>1, UnitsIsASum
  <2> QED
    BY <2>1, <2>2 DEF Sums
<1>3. ASSUME NEW s \in Seq(D), NEW x \in D PROVE Units(Append(s, x)) = Units(s) + x.units
  <2> DEFINE t == Append(s, x)
             n == Len(s)
  <2>1. n \in Nat /\ t \in Seq(D) /\ Len(t) = n + 1 /\ t[n + 1] = x /\ \A i \in 1..n : t[i] = s[i]
    BY AppendProperties, LenProperties
  <2> HIDE DEF t
  <2>2. PICK f : Sums(f, s) /\ Units(s) = f[Len(s)]
    BY UnitsIsASum
  <2>3. PICK g : Sums(g, t) /\ Units(t) = g[Len(t)]
    BY <2>1, UnitsIsASum
  <2>4. f[0] = 0 /\ \A i \in 1..n : f[i] = f[i - 1] + s[i].units
    BY <2>2 DEF Sums
  <2>5. g[0] = 0 /\ \A i \in 1..(n + 1) : g[i] = g[i - 1] + t[i].units
    BY <2>1, <2>3 DEF Sums
  <2>6. \A i \in 1..n : i \in 1..(n + 1)
    BY <2>1
  <2> HIDE DEF n
  <2>7. \A i \in 1..n : f[i - 1] = g[i - 1] => f[i] = g[i]
    BY <2>1, <2>4, <2>5, <2>6
  <2>8. \A i \in 0..n : f[i] = g[i]
    <3>1. InStep(f, g, n)
      BY <2>4, <2>5, <2>7 DEF InStep
    <3>2. n \in Nat
      BY <2>1
    <3> QED
      BY <3>1, <3>2, SameStart
  <2>9. g[n + 1] = g[n] + x.units
    <3>1. n + 1 \in 1..(n + 1) /\ n + 1 - 1 = n
      BY <2>1
    <3> QED
      BY <2>1, <2>5, <3>1
  <2>10. f[n] = g[n]
    BY <2>1, <2>8
  <2> QED
    BY <2>1, <2>2, <2>3, <2>9, <2>10 DEF t, n
<1>4. ASSUME NEW x \in D PROVE Units(<<x>>) = x.units
  <2>1. <<>> \in Seq(D) /\ Append(<<>>, x) = <<x>> /\ x.units \in Nat
    BY DEF Weighed
  <2>2. Units(Append(<<>>, x)) = Units(<<>>) + x.units
    BY <1>3, <2>1
  <2> QED
    BY <1>2, <2>1, <2>2
<1> QED
  BY <1>1, <1>2, <1>3, <1>4

--------------------------------------------------------------------------------
(* FlattenSeq, one sequence at a time. *)
Flat(f, d, D) ==
  /\ f \in [0..Len(d) -> Seq(D)] /\ f[0] = <<>>
  /\ \A i \in 1..Len(d) : f[i] = f[i - 1] \o d[i]

LEMMA FlattenIsFlat ==
  ASSUME NEW D, NEW d \in Seq(Seq(D))
  PROVE  \E f : Flat(f, d, D) /\ FlattenSeq(d) = f[Len(d)]
<1> DEFINE n == Len(d)
           Good(f) == f = [i \in 1..n |-> IF i = 1 THEN d[i] ELSE f[i - 1] \o d[i]]
           step == [i \in 1..n |-> [x \in Seq(D) |-> x \o d[i]]]
<1>1. n \in Nat /\ \A i \in 1..n : d[i] \in Seq(D)
  BY LenProperties, ElementOfSeq
<1> HIDE DEF n
<1>2. step \in Steps(n, Seq(D)) /\ <<>> \in Seq(D)
  <2>1. \A i \in 1..n, x \in Seq(D) : x \o d[i] \in Seq(D)
    BY <1>1, ConcatProperties
  <2> QED
    BY <2>1 DEF Steps
<1>3. PICK g : IsTrace(g, n, Seq(D), <<>>, step)
  <2> HIDE DEF step
  <2> QED
    BY <1>1, <1>2, Iterate
<1>4. g \in [0..n -> Seq(D)] /\ g[0] = <<>> /\ \A i \in 1..n : g[i] = g[i - 1] \o d[i]
  <2>1. g \in [0..n -> Seq(D)] /\ g[0] = <<>> /\ \A i \in 1..n : g[i] = step[i][g[i - 1]]
    <3> HIDE DEF step
    <3> QED
      BY <1>3 DEF IsTrace
  <2>2. \A i \in 1..n : i - 1 \in 0..n
    BY <1>1
  <2>3. \A i \in 1..n : step[i][g[i - 1]] = g[i - 1] \o d[i]
    BY <1>1, <2>1, <2>2
  <2> HIDE DEF step
  <2> QED
    BY <2>1, <2>3
<1> HIDE DEF step
<1>5. CASE n = 0
  <2>1. d = <<>>
    BY <1>5, EmptySeq DEF n
  <2>2. FlattenSeq(d) = <<>>
    BY <2>1 DEF FlattenSeq
  <2> QED
    BY <1>4, <1>5, <2>2 DEF Flat, n
<1>6. CASE n # 0
  <2> DEFINE h == [i \in 1..n |-> g[i]]
             f == CHOOSE k : Good(k)
  <2>1. \A i \in 1..n : h[i] = IF i = 1 THEN d[i] ELSE h[i - 1] \o d[i]
    <3> SUFFICES ASSUME NEW i \in 1..n PROVE g[i] = IF i = 1 THEN d[i] ELSE h[i - 1] \o d[i]
      OBVIOUS
    <3>1. CASE i = 1
      <4>1. g[1] = <<>> \o d[1] /\ d[1] \in Seq(D)
        <5>1. 1 \in 1..n /\ 1 - 1 = 0
          BY <3>1
        <5>2. g[1] = g[1 - 1] \o d[1]
          BY <1>4, <5>1
        <5> QED
          BY <1>1, <1>4, <5>1, <5>2
      <4> QED
        BY <3>1, <4>1, ConcatEmptySeq
    <3>2. CASE i # 1
      <4>1. i - 1 \in 1..n
        BY <1>1, <3>2
      <4> QED
        BY <1>4, <3>2, <4>1
    <3> QED
      BY <3>1, <3>2
  <2>2. Good(h)
    <3>1. h = [i \in 1..n |-> h[i]]
      OBVIOUS
    <3> HIDE DEF h
    <3> QED
      BY <2>1, <3>1
  <2>3. Good(f)
    <3> HIDE DEF h
    <3> QED
      BY <2>2
  <2>4. FlattenSeq(d) = f[n]
    BY <1>6 DEF FlattenSeq, n
  <2> HIDE DEF f
  <2>5. \A i \in 1..n : f[i] = IF i = 1 THEN d[i] ELSE f[i - 1] \o d[i]
    BY <2>3
  <2> DEFINE e == [i \in 0..n |-> IF i = 0 THEN <<>> ELSE f[i]]
  <2>6. e[0] = g[0]
    BY <1>1, <1>4
  <2>7. ASSUME NEW i \in 1..n, e[i - 1] = g[i - 1] PROVE e[i] = g[i]
    <3>1. i \in 0..n /\ i # 0 /\ i - 1 \in 0..n /\ e[i] = f[i]
      BY <1>1
    <3>2. CASE i = 1
      <4>1. g[1] = <<>> \o d[1] /\ d[1] \in Seq(D) /\ f[1] = d[1]
        <5>1. 1 \in 1..n /\ 1 - 1 = 0
          BY <3>2
        <5>2. g[1] = g[1 - 1] \o d[1]
          BY <1>4, <5>1
        <5> QED
          BY <1>1, <1>4, <2>5, <5>1, <5>2
      <4> QED
        BY <3>1, <3>2, <4>1, ConcatEmptySeq
    <3>3. CASE i # 1
      <4>1. i - 1 # 0 /\ e[i - 1] = f[i - 1]
        BY <3>1, <3>3
      <4> QED
        BY <1>4, <2>5, <2>7, <3>1, <3>3, <4>1
    <3> QED
      BY <3>2, <3>3
  <2>8. n \in 0..n /\ e[n] = f[n]
    BY <1>1, <1>6
  <2> HIDE DEF e
  <2>9. \A i \in 0..n : e[i] = g[i]
    <3>1. InStep(e, g, n)
      BY <2>6, <2>7 DEF InStep
    <3> QED
      BY <1>1, <3>1, SameStart
  <2> QED
    BY <1>4, <2>4, <2>8, <2>9 DEF Flat, n
<1> QED
  BY <1>5, <1>6

LEMMA FlattenGrows ==
  ASSUME NEW D, NEW d \in Seq(Seq(D))
  PROVE  /\ FlattenSeq(d) \in Seq(D) /\ FlattenSeq(<<>>) = <<>>
         /\ \A e \in Seq(D) : FlattenSeq(Append(d, e)) = FlattenSeq(d) \o e
<1>1. FlattenSeq(d) \in Seq(D)
  <2>1. PICK f : Flat(f, d, D) /\ FlattenSeq(d) = f[Len(d)]
    BY FlattenIsFlat
  <2>2. Len(d) \in Nat
    BY LenProperties
  <2>3. Len(d) \in 0..Len(d)
    BY <2>2
  <2> QED
    BY <2>1, <2>3 DEF Flat
<1>2. FlattenSeq(<<>>) = <<>>
  BY DEF FlattenSeq
<1>3. ASSUME NEW e \in Seq(D) PROVE FlattenSeq(Append(d, e)) = FlattenSeq(d) \o e
  <2> DEFINE t == Append(d, e)
             n == Len(d)
  <2>1. n \in Nat /\ t \in Seq(Seq(D)) /\ Len(t) = n + 1 /\ t[n + 1] = e /\ \A i \in 1..n : t[i] = d[i]
    BY AppendProperties, LenProperties
  <2> HIDE DEF t
  <2>2. PICK f : Flat(f, d, D) /\ FlattenSeq(d) = f[Len(d)]
    BY FlattenIsFlat
  <2>3. PICK g : Flat(g, t, D) /\ FlattenSeq(t) = g[Len(t)]
    BY <2>1, FlattenIsFlat
  <2>4. f[0] = <<>> /\ \A i \in 1..n : f[i] = f[i - 1] \o d[i]
    BY <2>2 DEF Flat
  <2>5. g[0] = <<>> /\ \A i \in 1..(n + 1) : g[i] = g[i - 1] \o t[i]
    BY <2>1, <2>3 DEF Flat
  <2>6. \A i \in 1..n : i \in 1..(n + 1)
    BY <2>1
  <2> HIDE DEF n
  <2>7. \A i \in 1..n : f[i - 1] = g[i - 1] => f[i] = g[i]
    BY <2>1, <2>4, <2>5, <2>6
  <2>8. \A i \in 0..n : f[i] = g[i]
    <3>1. InStep(f, g, n)
      BY <2>4, <2>5, <2>7 DEF InStep
    <3>2. n \in Nat
      BY <2>1
    <3> QED
      BY <3>1, <3>2, SameStart
  <2>9. g[n + 1] = g[n] \o e
    <3> DEFINE m == n + 1
    <3>1. m \in 1..(n + 1) /\ m - 1 = n
      BY <2>1
    <3> HIDE DEF m
    <3>2. g[m] = g[m - 1] \o t[m]
      BY <2>5, <3>1
    <3> QED
      BY <2>1, <3>1, <3>2 DEF m
  <2>10. f[n] = g[n]
    BY <2>1, <2>8
  <2> QED
    BY <2>1, <2>2, <2>3, <2>9, <2>10 DEF t, n
<1> QED
  BY <1>1, <1>2, <1>3

LEMMA FrontAndLast ==
  ASSUME NEW D, NEW d \in Seq(D), d # <<>>
  PROVE  /\ Front(d) \in Seq(D) /\ Last(d) \in D /\ Last(d) = d[Len(d)]
         /\ Len(Front(d)) = Len(d) - 1 /\ Len(d) \in Nat \ {0}
         /\ \A i \in 1..(Len(d) - 1) : Front(d)[i] = d[i]
         /\ d = Append(Front(d), Last(d))
<1> DEFINE n == Len(d)
           f == SubSeq(d, 1, n - 1)
<1>1. n \in Nat /\ n # 0
  BY EmptySeq
<1>2. \A i \in 1..n : d[i] \in D
  BY ElementOfSeq
<1> HIDE DEF n
<1>3. 1 \in Int /\ n - 1 \in Int /\ \A i \in 1..(n - 1) : d[i] \in D
  BY <1>1, <1>2
<1>4. /\ f \in Seq(D) /\ Len(f) = IF 1 <= n - 1 THEN n - 1 - 1 + 1 ELSE 0
      /\ \A i \in 1..(n - 1 - 1 + 1) : f[i] = d[1 + i - 1]
  BY <1>3, SubSeqProperties
<1> HIDE DEF f
<1>5. Len(f) = n - 1 /\ \A i \in 1..(n - 1) : f[i] = d[i]
  BY <1>1, <1>4
<1>6. d[n] \in D
  BY <1>1, <1>2
<1> DEFINE a == Append(f, d[n])
<1>7. a \in Seq(D) /\ Len(a) = n /\ \A i \in 1..n : a[i] = d[i]
  <2>1. /\ a \in Seq(D) /\ Len(a) = Len(f) + 1
        /\ \A i \in 1..Len(f) : a[i] = f[i]
        /\ a[Len(f) + 1] = d[n]
    BY <1>4, <1>6, AppendProperties
  <2> HIDE DEF a
  <2>2. n - 1 + 1 = n /\ \A i \in 1..n : i = n \/ i \in 1..(n - 1)
    BY <1>1
  <2> QED
    BY <1>5, <2>1, <2>2
<1>8. a = d
  <2> HIDE DEF a
  <2> QED
    BY <1>7, SeqEqual DEF n
<1> QED
  BY <1>1, <1>4, <1>5, <1>6, <1>8 DEF Front, Last, f, n

(* What a part does to the calls suggested so far. *)
NextCalls(d, x, capacity) ==
  IF d = <<>> \/ Units(Last(d)) + x.units > capacity THEN Append(d, <<x>>)
  ELSE Front(d) \o <<Append(Last(d), x)>>

CallsGrow(d, x, capacity, D) ==
  /\ NextCalls(d, x, capacity) \in Seq(Seq(D))
  /\ FlattenSeq(NextCalls(d, x, capacity)) = FlattenSeq(d) \o <<x>>
  /\ d = <<>> \/ Units(Last(d)) + x.units > capacity =>
       NextCalls(d, x, capacity) = Append(d, <<x>>)
  /\ ~(d = <<>> \/ Units(Last(d)) + x.units > capacity) =>
       NextCalls(d, x, capacity) = Append(Front(d), Append(Last(d), x))

LEMMA NextCallsAre ==
  ASSUME NEW D, Weighed(D), NEW d \in Seq(Seq(D)), NEW x \in D, NEW capacity
  PROVE  CallsGrow(d, x, capacity, D)
<1> USE DEF CallsGrow
<1>1. <<x>> \in Seq(D)
  OBVIOUS
<1>2. CASE d = <<>> \/ Units(Last(d)) + x.units > capacity
  <2>1. NextCalls(d, x, capacity) = Append(d, <<x>>)
    BY <1>2 DEF NextCalls
  <2>2. Append(d, <<x>>) \in Seq(Seq(D))
    BY <1>1, AppendProperties
  <2>3. FlattenSeq(Append(d, <<x>>)) = FlattenSeq(d) \o <<x>>
    BY <1>1, FlattenGrows
  <2> QED
    BY <1>2, <2>1, <2>2, <2>3
<1>3. CASE ~(d = <<>> \/ Units(Last(d)) + x.units > capacity)
  <2> DEFINE f == Front(d)
             l == Last(d)
             y == Append(l, x)
  <2>1. f \in Seq(Seq(D)) /\ l \in Seq(D) /\ d = Append(f, l)
    BY <1>3, FrontAndLast
  <2>2. NextCalls(d, x, capacity) = f \o <<y>>
    BY <1>3 DEF NextCalls
  <2> HIDE DEF f, l
  <2>3. y \in Seq(D) /\ y = l \o <<x>>
    BY <2>1, AppendProperties, AppendIsConcat
  <2> HIDE DEF y
  <2>4. f \o <<y>> = Append(f, y) /\ Append(f, y) \in Seq(Seq(D))
    BY <2>1, <2>3, AppendProperties, AppendIsConcat
  <2>5. FlattenSeq(Append(f, y)) = FlattenSeq(f) \o y /\ FlattenSeq(Append(f, l)) = FlattenSeq(f) \o l
    BY <2>1, <2>3, FlattenGrows
  <2>6. FlattenSeq(f) \in Seq(D)
    BY <2>1, FlattenGrows
  <2>7. (FlattenSeq(f) \o l) \o <<x>> = FlattenSeq(f) \o (l \o <<x>>)
    BY <1>1, <2>1, <2>6, ConcatAssociative
  <2> QED
    BY <1>3, <2>1, <2>2, <2>3, <2>4, <2>5, <2>7 DEF f, l, y
<1> QED
  BY <1>2, <1>3

LEMMA SplitRuns ==
  ASSUME NEW D, Weighed(D), NEW ps \in Seq(D), NEW capacity
  PROVE  \E g : /\ g[0] = <<>> /\ Split(ps, capacity) = g[Len(ps)]
                /\ \A i \in 1..Len(ps) : g[i] = NextCalls(g[i - 1], ps[i], capacity)
<1> DEFINE n == Len(ps)
           Good(f) == f = [i \in 0..n |-> IF i = 0 THEN <<>>
                           ELSE LET done == f[i - 1] IN
                                IF done = <<>> \/ Units(Last(done)) + ps[i].units > capacity THEN Append(done, <<ps[i]>>)
                                ELSE Front(done) \o <<Append(Last(done), ps[i])>>]
           step == [i \in 1..n |-> [d \in Seq(Seq(D)) |-> NextCalls(d, ps[i], capacity)]]
<1>1. n \in Nat /\ \A i \in 1..n : ps[i] \in D
  BY LenProperties, ElementOfSeq
<1>a. Split(ps, capacity) = (CHOOSE f : Good(f))[n]
  BY DEF Split
<1> HIDE DEF n
<1>2. step \in Steps(n, Seq(Seq(D))) /\ <<>> \in Seq(Seq(D))
  <2>1. \A i \in 1..n, d \in Seq(Seq(D)) : NextCalls(d, ps[i], capacity) \in Seq(Seq(D))
    BY <1>1, NextCallsAre DEF CallsGrow
  <2> QED
    BY <2>1 DEF Steps
<1>3. PICK g : IsTrace(g, n, Seq(Seq(D)), <<>>, step)
  <2> HIDE DEF step
  <2> QED
    BY <1>1, <1>2, Iterate
<1>4. g \in [0..n -> Seq(Seq(D))] /\ g[0] = <<>> /\ \A i \in 1..n : g[i] = NextCalls(g[i - 1], ps[i], capacity)
  <2>1. g \in [0..n -> Seq(Seq(D))] /\ g[0] = <<>> /\ \A i \in 1..n : g[i] = step[i][g[i - 1]]
    <3> HIDE DEF step
    <3> QED
      BY <1>3 DEF IsTrace
  <2>2. \A i \in 1..n : i - 1 \in 0..n
    BY <1>1
  <2>3. \A i \in 1..n : step[i][g[i - 1]] = NextCalls(g[i - 1], ps[i], capacity)
    BY <1>1, <2>1, <2>2
  <2> HIDE DEF step
  <2> QED
    BY <2>1, <2>3
<1> HIDE DEF step
<1>5. Good(g)
  <2>1. g = [i \in 0..n |-> g[i]]
    BY <1>4
  <2>2. \A i \in 0..n : i = 0 \/ i \in 1..n
    BY <1>1
  <2>3. \A i \in 0..n : g[i] = IF i = 0 THEN <<>>
                           ELSE LET done == g[i - 1] IN
                                IF done = <<>> \/ Units(Last(done)) + ps[i].units > capacity THEN Append(done, <<ps[i]>>)
                                ELSE Front(done) \o <<Append(Last(done), ps[i])>>
    BY <1>4, <2>2 DEF NextCalls
  <2> QED
    BY <2>1, <2>3
<1> DEFINE f == CHOOSE h : Good(h)
<1>6. Good(f)
  BY <1>5
<1> HIDE DEF f
<1>7. f[0] = <<>> /\ \A i \in 1..n : f[i] = NextCalls(f[i - 1], ps[i], capacity)
  <2>1. \A i \in 0..n : f[i] = IF i = 0 THEN <<>>
                           ELSE LET done == f[i - 1] IN
                                IF done = <<>> \/ Units(Last(done)) + ps[i].units > capacity THEN Append(done, <<ps[i]>>)
                                ELSE Front(done) \o <<Append(Last(done), ps[i])>>
    BY <1>6
  <2>2. 0 \in 0..n /\ \A i \in 1..n : i \in 0..n /\ i # 0
    BY <1>1
  <2> QED
    BY <2>1, <2>2 DEF NextCalls
<1> QED
  BY <1>a, <1>7 DEF f, n

--------------------------------------------------------------------------------
(* Ways to cut the parts, in their order, into calls that fit. *)

(* The calls a cut makes of the first i parts. *)
CallsOf(cut, i) == Cardinality(cut \cap 1..(i - 1)) + 1

(* The last call starts at s; no cut that fits has fewer calls, and where  *)
(* one has as many, its last call starts no later.                         *)
LastStarts(d, s, i, ps, capacity) ==
  /\ Last(d) = SubSeq(ps, s, i)
  /\ \A cut \in Cuts(Len(ps)) : Fits(ps, capacity, cut) =>
       \/ Len(d) < CallsOf(cut, i)
       \/ Len(d) = CallsOf(cut, i) /\ (cut \cap s..(i - 1)) = {}

(* The calls so far hold the first i parts, each fits, and there is no     *)
(* better way.                                                             *)
Filled(d, i, ps, capacity, D) ==
  /\ d \in Seq(Seq(D)) /\ d # <<>> /\ FlattenSeq(d) = SubSeq(ps, 1, i)
  /\ \A k \in 1..Len(d) : Units(d[k]) <= capacity
  /\ \E s \in 1..i : LastStarts(d, s, i, ps, capacity)

LEMMA CutsCounted ==
  ASSUME NEW n \in Nat, NEW cut \in Cuts(n), NEW i \in Nat \ {0}
  PROVE  /\ CallsOf(cut, i) \in Nat /\ CallsOf(cut, 1) = 1
         /\ i \in cut => CallsOf(cut, i + 1) = CallsOf(cut, i) + 1
         /\ i \notin cut => CallsOf(cut, i + 1) = CallsOf(cut, i)
         /\ i >= n => CallsOf(cut, i) = Cardinality(cut) + 1
<1>1. cut \subseteq 1..(n - 1)
  BY DEF Cuts
<1>2. IsFiniteSet(cut)
  <2>1. 1 \in Int /\ n - 1 \in Int
    OBVIOUS
  <2>2. IsFiniteSet(1..(n - 1))
    BY <2>1, FS_Interval
  <2> QED
    BY <1>1, <2>2, FS_Subset
<1> DEFINE A == cut \cap 1..(i - 1)
           B == cut \cap 1..(i + 1 - 1)
<1>3. IsFiniteSet(A) /\ Cardinality(A) \in Nat
  <2>1. A \subseteq cut
    OBVIOUS
  <2> HIDE DEF A
  <2> QED
    BY <1>2, <2>1, FS_Subset, FS_CardinalityType
<1>4. i \in cut => B = A \cup {i}
  <2>1. \A x \in 1..(i + 1 - 1) : x = i \/ x \in 1..(i - 1)
    OBVIOUS
  <2>2. i \in 1..(i + 1 - 1) /\ (1..(i - 1)) \subseteq 1..(i + 1 - 1)
    OBVIOUS
  <2> QED
    BY <2>1, <2>2
<1>5. i \notin cut => B = A
  <2>1. \A x \in 1..(i + 1 - 1) : x = i \/ x \in 1..(i - 1)
    OBVIOUS
  <2>2. (1..(i - 1)) \subseteq 1..(i + 1 - 1)
    OBVIOUS
  <2> QED
    BY <2>1, <2>2
<1>6. i \notin A
  OBVIOUS
<1>7. i \in cut => Cardinality(B) = Cardinality(A) + 1
  <2> HIDE DEF A, B
  <2> QED
    BY <1>3, <1>4, <1>6, FS_AddElement
<1>8. (cut \cap 1..(1 - 1)) = {}
  OBVIOUS
<1>9. i >= n => A = cut
  <2> SUFFICES ASSUME i >= n PROVE A = cut
    OBVIOUS
  <2>1. \A x \in 1..(n - 1) : x \in 1..(i - 1)
    OBVIOUS
  <2> QED
    BY <1>1, <2>1
<1>10. CallsOf(cut, 1) = 1
  BY <1>8, FS_EmptySet DEF CallsOf
<1> QED
  BY <1>3, <1>5, <1>7, <1>9, <1>10 DEF CallsOf

LEMMA FirstPartFilled ==
  ASSUME NEW D, Weighed(D), NEW ps \in Seq(D), NEW capacity \in Int, 1 <= Len(ps), ps[1].units <= capacity
  PROVE  Filled(NextCalls(<<>>, ps[1], capacity), 1, ps, capacity, D)
<1> DEFINE x == ps[1]
           d == NextCalls(<<>>, x, capacity)
<1>1. Len(ps) \in Nat /\ 1 \in 1..Len(ps)
  BY LenProperties
<1>2. x \in D
  BY <1>1, ElementOfSeq
<1> HIDE DEF x
<1>3. <<>> \in Seq(Seq(D)) /\ Append(<<>>, <<x>>) = << <<x>> >> /\ <<x>> \in Seq(D)
  BY <1>2
<1>4. d \in Seq(Seq(D)) /\ FlattenSeq(d) = FlattenSeq(<<>>) \o <<x>> /\ d = << <<x>> >>
  <2>1. d = Append(<<>>, <<x>>)
    BY DEF NextCalls
  <2>2. NextCalls(<<>>, x, capacity) \in Seq(Seq(D))
        /\ FlattenSeq(NextCalls(<<>>, x, capacity)) = FlattenSeq(<<>>) \o <<x>>
    <3> DEFINE e == <<>>
    <3>1. e \in Seq(Seq(D))
      BY <1>3
    <3> HIDE DEF e
    <3>2. NextCalls(e, x, capacity) \in Seq(Seq(D)) /\ FlattenSeq(NextCalls(e, x, capacity)) = FlattenSeq(e) \o <<x>>
      BY <1>2, <3>1, NextCallsAre DEF CallsGrow
    <3> QED
      BY <3>2 DEF e
  <2> QED
    BY <1>3, <2>1, <2>2
<1> HIDE DEF d
<1>5. FlattenSeq(d) = <<x>>
  <2>1. FlattenSeq(<<>>) = <<>>
    BY <1>3, FlattenGrows
  <2> QED
    BY <1>3, <1>4, <2>1, ConcatEmptySeq
<1>6. SubSeq(ps, 1, 1) = <<x>>
  <2>1. SubSeq(ps, 1, 1) = SubSeq(ps, 1, 1 - 1) \o <<ps[1]>>
    <3>1. 1 \in 1..Len(ps)
      BY <1>1
    <3> QED
      BY <3>1, SubSeqRecursiveSecond
  <2>2. SubSeq(ps, 1, 1 - 1) = <<>>
    BY SubSeqEmpty
  <2> QED
    BY <1>3, <2>1, <2>2, ConcatEmptySeq DEF x
<1>7. Len(d) = 1 /\ d[1] = <<x>> /\ d # <<>> /\ Last(d) = <<x>>
  BY <1>4 DEF Last
<1>8. Units(<<x>>) = x.units
  BY <1>2, UnitsGrow
<1>9. \A k \in 1..Len(d) : Units(d[k]) <= capacity
  BY <1>7, <1>8 DEF x
<1>10. \A cut \in Cuts(Len(ps)) : CallsOf(cut, 1) = 1 /\ (cut \cap 1..(1 - 1)) = {}
  <2>1. 1 \in Nat \ {0}
    OBVIOUS
  <2> QED
    BY <1>1, <2>1, CutsCounted
<1>11. 1 \in 1..1
  OBVIOUS
<1>12. Filled(d, 1, ps, capacity, D)
  <2>1. LastStarts(d, 1, 1, ps, capacity)
    BY <1>6, <1>7, <1>10 DEF LastStarts
  <2> QED
    BY <1>4, <1>5, <1>6, <1>7, <1>9, <1>11, <2>1 DEF Filled
<1> QED
  BY <1>12 DEF d, x

(* A stretch of the parts, and the one after it. *)
OneMore(ps, s, i, D) ==
  /\ SubSeq(ps, s, i) \in Seq(D) /\ ps[i + 1] \in D
  /\ SubSeq(ps, s, i + 1) = SubSeq(ps, s, i) \o <<ps[i + 1]>>
  /\ SubSeq(ps, s, i + 1) = Append(SubSeq(ps, s, i), ps[i + 1])
  /\ SubSeq(ps, i + 1, i + 1) = <<ps[i + 1]>>

LEMMA SubSeqGrows ==
  ASSUME NEW D, NEW ps \in Seq(D), NEW s \in Nat \ {0}, NEW i \in Nat, s <= i + 1, i + 1 <= Len(ps)
  PROVE  OneMore(ps, s, i, D)
<1> DEFINE n == Len(ps)
           m == i + 1
<1>1. n \in Nat /\ \A k \in 1..n : ps[k] \in D
  BY LenProperties, ElementOfSeq
<1>2. s \in 1..n /\ m \in s..n /\ m \in 1..n /\ m - 1 = i /\ m \in m..n
  BY <1>1
<1> HIDE DEF m
<1>3. SubSeq(ps, s, m) = SubSeq(ps, s, m - 1) \o <<ps[m]>>
  BY <1>2, SubSeqRecursiveSecond
<1>4. SubSeq(ps, m, m) = SubSeq(ps, m, m - 1) \o <<ps[m]>>
  BY <1>2, SubSeqRecursiveSecond
<1>5. SubSeq(ps, m, m - 1) = <<>>
  <2>1. m \in Int /\ m - 1 \in Int /\ m - 1 < m
    BY <1>2
  <2> QED
    BY <2>1, SubSeqEmpty
<1>6. ps[m] \in D /\ <<ps[m]>> \in Seq(D)
  BY <1>1, <1>2
<1>7. SubSeq(ps, s, i) \in Seq(D)
  <2>1. s \in Int /\ i \in Int /\ \A k \in s..i : ps[k] \in D
    BY <1>1, <1>2
  <2> QED
    BY <2>1, SubSeqProperties
<1>8. SubSeq(ps, m, m) = <<ps[m]>>
  BY <1>4, <1>5, <1>6, ConcatEmptySeq
<1>9. Append(SubSeq(ps, s, i), ps[m]) = SubSeq(ps, s, i) \o <<ps[m]>>
  BY <1>6, <1>7, AppendIsConcat
<1> QED
  BY <1>2, <1>3, <1>6, <1>7, <1>8, <1>9 DEF m, OneMore

(* A sequence and its next element. *)
Extended(d, c, S) ==
  /\ Append(d, c) \in Seq(S) /\ Append(d, c) # <<>>
  /\ Len(Append(d, c)) = Len(d) + 1 /\ Append(d, c)[Len(d) + 1] = c
  /\ \A k \in 1..Len(d) : Append(d, c)[k] = d[k]

LEMMA AppendExtends ==
  ASSUME NEW S, NEW d \in Seq(S), NEW c \in S
  PROVE  Extended(d, c, S)
<1>1. Len(d) \in Nat
  BY LenProperties
<1> QED
  BY <1>1, AppendProperties DEF Extended

LEMMA NextPartFilled ==
  ASSUME NEW D, Weighed(D), NEW ps \in Seq(D), NEW capacity \in Int, NEW i \in Nat \ {0}, i + 1 <= Len(ps),
         ps[i + 1].units <= capacity, NEW d, Filled(d, i, ps, capacity, D)
  PROVE  Filled(NextCalls(d, ps[i + 1], capacity), i + 1, ps, capacity, D)
<1> DEFINE x == ps[i + 1]
           e == NextCalls(d, x, capacity)
           n == Len(ps)
<1>0. n \in Nat /\ i + 1 \in Nat \ {0}
  BY LenProperties
<1>1. /\ d \in Seq(Seq(D)) /\ d # <<>> /\ FlattenSeq(d) = SubSeq(ps, 1, i)
      /\ \A k \in 1..Len(d) : Units(d[k]) <= capacity
  BY DEF Filled
<1>2. PICK s \in 1..i :
        /\ Last(d) = SubSeq(ps, s, i)
        /\ \A cut \in Cuts(Len(ps)) : Fits(ps, capacity, cut) =>
             \/ Len(d) < CallsOf(cut, i)
             \/ Len(d) = CallsOf(cut, i) /\ (cut \cap s..(i - 1)) = {}
  <2>1. PICK s \in 1..i : LastStarts(d, s, i, ps, capacity)
    BY DEF Filled
  <2> QED
    BY <2>1 DEF LastStarts
<1>3. /\ x \in D /\ SubSeq(ps, 1, i + 1) = SubSeq(ps, 1, i) \o <<x>>
      /\ SubSeq(ps, s, i + 1) = Append(SubSeq(ps, s, i), x)
      /\ SubSeq(ps, i + 1, i + 1) = <<x>> /\ SubSeq(ps, s, i) \in Seq(D)
  <2>1. s \in Nat \ {0} /\ s <= i + 1 /\ 1 \in Nat \ {0} /\ 1 <= i + 1 /\ i \in Nat
    OBVIOUS
  <2>2. OneMore(ps, s, i, D) /\ OneMore(ps, 1, i, D)
    BY <2>1, SubSeqGrows
  <2> QED
    BY <2>2 DEF OneMore
<1>a. x.units <= capacity
  OBVIOUS
<1> HIDE DEF x
<1>4. x.units \in Nat /\ Units(<<x>>) = x.units /\ <<x>> \in Seq(D)
  <2>1. x.units \in Nat /\ <<x>> \in Seq(D)
    BY <1>3 DEF Weighed
  <2>2. \A y \in D : Units(<<y>>) = y.units
    BY UnitsGrow
  <2> QED
    BY <1>3, <2>1, <2>2
<1>5. /\ e \in Seq(Seq(D)) /\ FlattenSeq(e) = SubSeq(ps, 1, i + 1)
      /\ Units(Last(d)) + x.units > capacity => e = Append(d, <<x>>)
      /\ ~(Units(Last(d)) + x.units > capacity) => e = Append(Front(d), Append(Last(d), x))
  <2>1. /\ NextCalls(d, x, capacity) \in Seq(Seq(D))
        /\ FlattenSeq(NextCalls(d, x, capacity)) = FlattenSeq(d) \o <<x>>
        /\ d = <<>> \/ Units(Last(d)) + x.units > capacity =>
             NextCalls(d, x, capacity) = Append(d, <<x>>)
        /\ ~(d = <<>> \/ Units(Last(d)) + x.units > capacity) =>
             NextCalls(d, x, capacity) = Append(Front(d), Append(Last(d), x))
    <3>1. CallsGrow(d, x, capacity, D)
      BY <1>1, <1>3, NextCallsAre
    <3> QED
      BY <3>1 DEF CallsGrow
  <2> QED
    BY <1>1, <1>3, <2>1
<1> HIDE DEF e
<1>6. /\ Front(d) \in Seq(Seq(D)) /\ Last(d) \in Seq(D) /\ Len(Front(d)) = Len(d) - 1 /\ Len(d) \in Nat \ {0}
      /\ \A k \in 1..(Len(d) - 1) : Front(d)[k] = d[k]
  BY <1>1, FrontAndLast
<1>7. \A cut \in Cuts(n) : /\ CallsOf(cut, i) \in Nat
                           /\ i \in cut => CallsOf(cut, i + 1) = CallsOf(cut, i) + 1
                           /\ i \notin cut => CallsOf(cut, i + 1) = CallsOf(cut, i)
  BY <1>0, CutsCounted
<1>8. Units(Append(Last(d), x)) = Units(Last(d)) + x.units /\ Units(Last(d)) \in Nat
  BY <1>3, <1>6, UnitsGrow
<1>9. CASE Units(Last(d)) + x.units > capacity
  <2>1. e = Append(d, <<x>>)
    BY <1>5, <1>9
  <2>2. /\ Len(e) = Len(d) + 1 /\ e # <<>> /\ e[Len(d) + 1] = <<x>>
        /\ \A k \in 1..Len(d) : e[k] = d[k]
    <3> DEFINE c == <<x>>
    <3>1. c \in Seq(D) /\ e = Append(d, c)
      BY <1>4, <2>1
    <3> HIDE DEF c
    <3>2. /\ Len(Append(d, c)) = Len(d) + 1 /\ Append(d, c) # <<>> /\ Append(d, c)[Len(d) + 1] = c
          /\ \A k \in 1..Len(d) : Append(d, c)[k] = d[k]
      <4>1. Extended(d, c, Seq(D))
        BY <1>1, <3>1, AppendExtends
      <4> QED
        BY <4>1 DEF Extended
    <3> QED
      BY <3>1, <3>2 DEF c
  <2>3. Last(e) = SubSeq(ps, i + 1, i + 1)
    BY <1>3, <2>2 DEF Last
  <2>4. \A k \in 1..Len(e) : Units(e[k]) <= capacity
    <3>1. \A k \in 1..Len(e) : k = Len(d) + 1 \/ k \in 1..Len(d)
      BY <1>6, <2>2
    <3> QED
      BY <1>a, <1>1, <1>4, <2>2, <3>1
  <2>5. ASSUME NEW cut \in Cuts(n), Fits(ps, capacity, cut)
        PROVE  \/ Len(e) < CallsOf(cut, i + 1)
               \/ Len(e) = CallsOf(cut, i + 1) /\ (cut \cap (i + 1)..(i + 1 - 1)) = {}
    <3>1. (cut \cap (i + 1)..(i + 1 - 1)) = {}
      OBVIOUS
    <3>2. Len(e) <= CallsOf(cut, i + 1)
      <4>0. Len(d) <= CallsOf(cut, i) /\ CallsOf(cut, i) \in Nat
        <5>1. CallsOf(cut, i) \in Nat /\ (Len(d) < CallsOf(cut, i) \/ Len(d) = CallsOf(cut, i))
          BY <1>2, <1>7, <2>5
        <5> QED
          BY <1>6, <5>1
      <4>1. CASE i \in cut
        <5>1. CallsOf(cut, i + 1) = CallsOf(cut, i) + 1
          BY <1>7, <4>1
        <5> QED
          BY <1>6, <2>2, <4>0, <5>1
      <4>2. CASE i \notin cut
        <5>1. (cut \cap s..(i - 1)) # {}
          <6> SUFFICES ASSUME (cut \cap s..(i - 1)) = {} PROVE FALSE
            OBVIOUS
          <6>1. (cut \cap s..(i + 1 - 1)) = {}
            <7>1. \A y \in s..(i + 1 - 1) : y = i \/ y \in s..(i - 1)
              OBVIOUS
            <7> QED
              BY <4>2, <7>1
          <6>2. Units(SubSeq(ps, s, i + 1)) <= capacity
            <7>1. s \in 1..Len(ps) /\ i + 1 \in 1..Len(ps) /\ s <= i + 1
              BY <1>0
            <7> QED
              BY <2>5, <6>1, <7>1 DEF Fits
          <6>3. Units(Last(d)) + x.units <= capacity
            BY <1>2, <1>3, <1>8, <6>2
          <6> QED
            BY <1>4, <1>8, <1>9, <6>3
        <5>2. Len(d) < CallsOf(cut, i)
          BY <1>2, <2>5, <5>1
        <5> QED
          BY <1>6, <1>7, <2>2, <4>2, <5>2
      <4> QED
        BY <4>1, <4>2
    <3>3. CallsOf(cut, i + 1) \in Nat /\ Len(e) \in Nat
      <4>1. CallsOf(cut, i + 1) \in Nat
        <5>1. CallsOf(cut, i + 1) = CallsOf(cut, i) + 1 \/ CallsOf(cut, i + 1) = CallsOf(cut, i)
          BY <1>7
        <5> QED
          BY <1>7, <5>1
      <4> QED
        BY <1>6, <2>2, <4>1
    <3> QED
      BY <3>1, <3>2, <3>3
  <2>6. i + 1 \in 1..(i + 1)
    OBVIOUS
  <2>7. Filled(e, i + 1, ps, capacity, D)
    <3>1. LastStarts(e, i + 1, i + 1, ps, capacity)
      BY <2>3, <2>5 DEF LastStarts
    <3> QED
      BY <1>5, <2>2, <2>4, <2>6, <3>1 DEF Filled
  <2> QED
    BY <2>7 DEF e, x
<1>10. CASE ~(Units(Last(d)) + x.units > capacity)
  <2> DEFINE y == Append(Last(d), x)
  <2>1. e = Append(Front(d), y)
    BY <1>5, <1>10
  <2>2. y \in Seq(D) /\ Units(y) <= capacity /\ y = SubSeq(ps, s, i + 1)
    BY <1>2, <1>3, <1>4, <1>6, <1>8, <1>10, AppendProperties
  <2> HIDE DEF y
  <2>3. /\ Len(e) = Len(d) /\ e # <<>> /\ e[Len(d)] = y
        /\ \A k \in 1..(Len(d) - 1) : e[k] = d[k]
    <3>1. /\ Len(e) = Len(Front(d)) + 1 /\ e # <<>> /\ e[Len(Front(d)) + 1] = y
          /\ \A k \in 1..Len(Front(d)) : e[k] = Front(d)[k]
      <4> DEFINE f == Front(d)
      <4> HIDE DEF f
      <4>1. /\ Len(Append(f, y)) = Len(f) + 1 /\ Append(f, y) # <<>> /\ Append(f, y)[Len(f) + 1] = y
            /\ \A k \in 1..Len(f) : Append(f, y)[k] = f[k]
        <5>1. f \in Seq(Seq(D)) /\ y \in Seq(D)
          BY <1>6, <2>2 DEF f
        <5> QED
          BY <5>1, AppendProperties
      <4> QED
        BY <2>1, <4>1 DEF f
    <3>2. Len(Front(d)) + 1 = Len(d)
      BY <1>6
    <3> QED
      BY <1>6, <3>1, <3>2
  <2>4. Last(e) = SubSeq(ps, s, i + 1)
    BY <2>2, <2>3 DEF Last
  <2>5. \A k \in 1..Len(e) : Units(e[k]) <= capacity
    <3>1. \A k \in 1..Len(e) : k = Len(d) \/ (k \in 1..(Len(d) - 1) /\ k \in 1..Len(d))
      BY <1>6, <2>3
    <3> QED
      BY <1>1, <2>2, <2>3, <3>1
  <2>6. ASSUME NEW cut \in Cuts(n), Fits(ps, capacity, cut)
        PROVE  \/ Len(e) < CallsOf(cut, i + 1)
               \/ Len(e) = CallsOf(cut, i + 1) /\ (cut \cap s..(i + 1 - 1)) = {}
    <3>1. \/ Len(d) < CallsOf(cut, i)
          \/ Len(d) = CallsOf(cut, i) /\ (cut \cap s..(i - 1)) = {}
      BY <1>2, <2>6
    <3>2. CASE i \in cut
      BY <1>6, <1>7, <2>3, <3>1, <3>2
    <3>3. CASE i \notin cut
      <4>1. \A z \in s..(i + 1 - 1) : z = i \/ z \in s..(i - 1)
        OBVIOUS
      <4>2. (cut \cap s..(i - 1)) = {} => (cut \cap s..(i + 1 - 1)) = {}
        BY <3>3, <4>1
      <4> QED
        BY <1>7, <2>3, <3>1, <3>3, <4>2
    <3> QED
      BY <3>2, <3>3
  <2>7. s \in 1..(i + 1)
    OBVIOUS
  <2>8. Filled(e, i + 1, ps, capacity, D)
    <3>1. LastStarts(e, s, i + 1, ps, capacity)
      BY <2>4, <2>6 DEF LastStarts
    <3> QED
      BY <1>5, <2>3, <2>5, <2>7, <3>1 DEF Filled
  <2> QED
    BY <2>8 DEF e, x
<1> QED
  BY <1>9, <1>10

(* Greedy is optimal: the calls suggested hold every part once and in      *)
(* order, each fits, and no cut of the same order has fewer.               *)
BestSplit(ps, capacity, D) ==
  /\ Split(ps, capacity) \in Seq(Seq(D)) /\ Split(ps, capacity) # <<>>
  /\ FlattenSeq(Split(ps, capacity)) = ps
  /\ \A c \in DOMAIN Split(ps, capacity) : Units(Split(ps, capacity)[c]) <= capacity
  /\ \A cut \in Cuts(Len(ps)) :
       Fits(ps, capacity, cut) => Len(Split(ps, capacity)) <= Cardinality(cut) + 1

LEMMA SplitIsBest ==
  ASSUME NEW D, Weighed(D), NEW ps \in Seq(D), ps # <<>>, NEW capacity \in Int,
         \A i \in 1..Len(ps) : ps[i].units <= capacity
  PROVE  BestSplit(ps, capacity, D)
<1> DEFINE n == Len(ps)
<1>1. n \in Nat /\ n >= 1
  BY EmptySeq
<1>2. PICK g : /\ g[0] = <<>> /\ Split(ps, capacity) = g[Len(ps)]
               /\ \A i \in 1..Len(ps) : g[i] = NextCalls(g[i - 1], ps[i], capacity)
  BY SplitRuns
<1> DEFINE S == {i \in 0..n : i = 0 \/ Filled(g[i], i, ps, capacity, D)}
<1>3. 0 \in S
  BY <1>1
<1>4. ASSUME NEW i \in 1..n, i - 1 \in S PROVE i \in S
  <2>1. CASE i = 1
    <3>1. 1 \in 1..n /\ 1 - 1 = 0
      BY <1>1
    <3>2. g[1] = NextCalls(g[1 - 1], ps[1], capacity)
      BY <1>2, <3>1
    <3>3. g[1] = NextCalls(<<>>, ps[1], capacity)
      BY <1>2, <3>1, <3>2
    <3>4. Filled(g[1], 1, ps, capacity, D)
      BY <1>1, <3>1, <3>3, FirstPartFilled
    <3> QED
      BY <1>1, <2>1, <3>4
  <2>2. CASE i # 1
    <3> DEFINE j == i - 1
    <3>1. j \in Nat \ {0} /\ j + 1 = i /\ i \in 0..n /\ j + 1 <= Len(ps)
      BY <1>1, <2>2
    <3>2. Filled(g[j], j, ps, capacity, D) /\ g[i] = NextCalls(g[j], ps[i], capacity)
      BY <1>2, <1>4, <3>1
    <3> HIDE DEF j, n
    <3>3. ps[j + 1].units <= capacity
      BY <3>1 DEF n
    <3>4. Filled(NextCalls(g[j], ps[j + 1], capacity), j + 1, ps, capacity, D)
      BY <3>1, <3>2, <3>3, NextPartFilled
    <3> QED
      BY <3>1, <3>2, <3>4
  <2> QED
    BY <2>1, <2>2
<1>5. n \in S
  <2>1. \A i \in 0..n : i \in S
    <3> HIDE DEF S, n
    <3> QED
      BY <1>1, <1>3, <1>4, CountUp
  <2>2. n \in 0..n
    BY <1>1
  <2> HIDE DEF S
  <2> QED
    BY <2>1, <2>2
<1> DEFINE d == Split(ps, capacity)
<1>6. Filled(d, n, ps, capacity, D)
  BY <1>1, <1>2, <1>5
<1> HIDE DEF d
<1>7. SubSeq(ps, 1, Len(ps)) = ps
  BY SubSeqFull
<1>8. d \in Seq(Seq(D)) /\ d # <<>> /\ FlattenSeq(d) = ps /\ \A k \in 1..Len(d) : Units(d[k]) <= capacity
  BY <1>6, <1>7 DEF Filled
<1>9. DOMAIN d = 1..Len(d) /\ Len(d) \in Nat
  BY <1>8, LenProperties
<1>10. ASSUME NEW cut \in Cuts(n), Fits(ps, capacity, cut) PROVE Len(d) <= Cardinality(cut) + 1
  <2>1. Len(d) < CallsOf(cut, n) \/ Len(d) = CallsOf(cut, n)
    <3>1. PICK s \in 1..n : LastStarts(d, s, n, ps, capacity)
      BY <1>6 DEF Filled
    <3> QED
      BY <1>10, <3>1 DEF LastStarts
  <2>2. CallsOf(cut, n) = Cardinality(cut) + 1 /\ CallsOf(cut, n) \in Nat
    <3>1. n \in Nat \ {0} /\ n >= n
      BY <1>1
    <3> HIDE DEF n
    <3> QED
      BY <1>1, <3>1, CutsCounted
  <2> QED
    BY <1>9, <2>1, <2>2
<1> QED
  BY <1>8, <1>9, <1>10 DEF d, BestSplit

(* The words a part's name is made of, and the parts. *)
PathWords(j) == UNION {Range(j.paths[i].name) : i \in DOMAIN j.paths}
AskWords == Nat \cup {"state", "command output"} \cup UNION {PathWords(j) : j \in AskJobs}
AskParts == [name : Seq(AskWords) \ {<<>>}, units : Nat]

LEMMA PartsWeigh == Weighed(AskParts)
BY DEF Weighed, AskParts

(* What a path adds to the parts. *)
ReadStep(paths, i, s) ==
  IF \/ \E k \in 1..(i - 1) : paths[k].name = paths[i].name
     \/ read_state(paths[i].file) # "none" THEN s
  ELSE Append(s, [name |-> paths[i].name, units |-> paths[i].file.units])

LEMMA FilesAreParts ==
  ASSUME NEW j \in AskJobs
  PROVE  file_parts(j.paths) \in Seq(AskParts)
<1> DEFINE paths == j.paths
           n == Len(paths)
           D == AskParts
           Good(f) == f = [i \in 0..n |->
                             IF i = 0 THEN <<>>
                             ELSE IF \/ \E k \in 1..(i - 1) : paths[k].name = paths[i].name
                                     \/ read_state(paths[i].file) # "none" THEN f[i - 1]
                             ELSE Append(f[i - 1], [name |-> paths[i].name, units |-> paths[i].file.units])]
           step == [i \in 1..n |-> [s \in Seq(D) |-> ReadStep(paths, i, s)]]
<1>1. n \in Nat /\ DOMAIN paths = 1..n
  BY AskAssumption, ListIsSeq
<1>2. ASSUME NEW i \in 1..n PROVE [name |-> paths[i].name, units |-> paths[i].file.units] \in D
  <2>1. List(paths[i].name) /\ paths[i].name # <<>> /\ paths[i].file.units \in Nat
    BY <1>1, AskAssumption
  <2>2. paths[i].name \in Seq(Range(paths[i].name))
    BY <2>1, ListIsSeq
  <2>3. Range(paths[i].name) \subseteq AskWords
    <3>1. Range(paths[i].name) \subseteq PathWords(j)
      BY <1>1 DEF PathWords
    <3> QED
      BY <3>1 DEF AskWords
  <2>4. paths[i].name \in Seq(AskWords)
    <3> DEFINE nm == paths[i].name
    <3>1. nm \in Seq(Range(nm)) /\ Range(nm) \subseteq AskWords
      BY <2>2, <2>3
    <3> HIDE DEF nm
    <3>2. Len(nm) \in Nat /\ nm \in [1..Len(nm) -> Range(nm)]
      BY <3>1, LenProperties
    <3>3. nm \in [1..Len(nm) -> AskWords]
      BY <3>1, <3>2
    <3>4. nm \in Seq(AskWords)
      BY <3>2, <3>3, SeqDef
    <3> QED
      BY <3>4 DEF nm
  <2> QED
    BY <2>1, <2>4 DEF AskParts
<1>a. file_parts(paths) = (CHOOSE f : Good(f))[n]
  BY DEF file_parts
<1> HIDE DEF n, paths, D
<1>3. \A i \in 1..n, s \in Seq(D) : ReadStep(paths, i, s) \in Seq(D)
  BY <1>2, AppendProperties DEF ReadStep
<1>4. step \in Steps(n, Seq(D)) /\ <<>> \in Seq(D)
  BY <1>3 DEF Steps
<1>5. PICK g : IsTrace(g, n, Seq(D), <<>>, step)
  <2> HIDE DEF step
  <2> QED
    BY <1>1, <1>4, Iterate
<1>6. g \in [0..n -> Seq(D)] /\ g[0] = <<>> /\ \A i \in 1..n : g[i] = ReadStep(paths, i, g[i - 1])
  <2>1. g \in [0..n -> Seq(D)] /\ g[0] = <<>> /\ \A i \in 1..n : g[i] = step[i][g[i - 1]]
    <3> HIDE DEF step
    <3> QED
      BY <1>5 DEF IsTrace
  <2>2. \A i \in 1..n : i - 1 \in 0..n
    BY <1>1
  <2>3. \A i \in 1..n : step[i][g[i - 1]] = ReadStep(paths, i, g[i - 1])
    BY <1>1, <2>1, <2>2
  <2> HIDE DEF step
  <2> QED
    BY <2>1, <2>3
<1> HIDE DEF step
<1>7. Good(g)
  <2>1. g = [i \in 0..n |-> g[i]]
    BY <1>6
  <2>2. \A i \in 0..n : i = 0 \/ i \in 1..n
    BY <1>1
  <2>3. \A i \in 0..n : g[i] = IF i = 0 THEN <<>> ELSE ReadStep(paths, i, g[i - 1])
    BY <1>6, <2>2
  <2>4. g = [i \in 0..n |-> IF i = 0 THEN <<>> ELSE ReadStep(paths, i, g[i - 1])]
    BY <2>1, <2>3
  <2> QED
    BY <2>4 DEF ReadStep
<1> DEFINE f == CHOOSE h : Good(h)
<1>8. Good(f)
  <2>1. \E h : Good(h)
    BY <1>7
  <2> HIDE DEF Good
  <2> QED
    BY <2>1
<1> HIDE DEF f
<1>9. f[0] = <<>> /\ \A i \in 1..n : f[i] = ReadStep(paths, i, f[i - 1])
  <2>1. f = [i \in 0..n |-> IF i = 0 THEN <<>> ELSE ReadStep(paths, i, f[i - 1])]
    BY <1>8 DEF ReadStep
  <2>2. \A i \in 0..n : f[i] = IF i = 0 THEN <<>> ELSE ReadStep(paths, i, f[i - 1])
    BY <2>1
  <2>3. 0 \in 0..n /\ \A i \in 1..n : i \in 0..n /\ i # 0
    BY <1>1
  <2> QED
    BY <2>2, <2>3
<1>10. \A i \in 0..n : f[i] = g[i]
  <2>1. InStep(f, g, n)
    BY <1>6, <1>9 DEF InStep
  <2> QED
    BY <1>1, <2>1, SameStart
<1>11. f[n] \in Seq(D)
  <2>1. n \in 0..n
    BY <1>1
  <2> QED
    BY <1>6, <1>10, <2>1
<1> QED
  BY <1>a, <1>11 DEF f, D, paths

(* The composed state is a list of parts; the questions weigh something. *)
LEMMA ComposedIsParts ==
  ASSUME NEW j \in AskJobs
  PROVE  Composed(j) \in Seq(AskParts) /\ question_units(j.questions) \in Nat
<1>1. own_part(j.own) \in Seq(AskParts)
  <2>1. "state" \in AskWords /\ j.own \in Nat
    BY AskAssumption DEF AskWords
  <2>2. <<"state">> \in Seq(AskWords) \ {<<>>}
    BY <2>1
  <2>3. [name |-> <<"state">>, units |-> j.own] \in AskParts
    BY <2>1, <2>2 DEF AskParts
  <2> QED
    BY <2>3 DEF own_part
<1>2. Composed(j) \in Seq(AskParts)
  BY <1>1, FilesAreParts, ConcatProperties DEF Composed
<1>3. question_units(j.questions) \in Nat
  <2> DEFINE qs == j.questions
             Q == Range(qs)
  <2>1. List(qs) /\ \A i \in DOMAIN qs : qs[i].units \in Nat
    BY AskAssumption
  <2>2. qs \in Seq(Q)
    BY <2>1, ListIsSeq
  <2>3. Weighed(Q)
    BY <2>1 DEF Weighed, Range
  <2> HIDE DEF Q
  <2>4. Units(qs) \in Nat
    BY <2>2, <2>3, UnitsGrow
  <2> QED
    BY <2>4 DEF question_units
<1> QED
  BY <1>2, <1>3

(* What is said of the calls suggested. *)
SplitSays(r) ==
  IF r.calls = <<>> THEN ~\E cut \in Cuts(Len(r.composed)) : Fits(r.composed, r.capacity, cut) /\ r.capacity >= 0
  ELSE /\ FlattenSeq(r.calls) = r.composed
       /\ \A c \in DOMAIN r.calls : Units(r.calls[c]) <= r.capacity
       /\ \A cut \in Cuts(Len(r.composed)) :
            Fits(r.composed, r.capacity, cut) => Len(r.calls) <= Cardinality(cut) + 1

LEMMA RefusalSays ==
  ASSUME NEW D, Weighed(D), NEW ps \in Seq(D), NEW q \in Nat, q + Units(ps) > Caps.request
  PROVE  SplitSays(split_refusal(ps, q))
<1> DEFINE r == split_refusal(ps, q)
           capacity == Caps.request - q
<1> SUFFICES SplitSays(r)
  OBVIOUS
<1>1. capacity \in Int /\ Len(ps) \in Nat /\ DOMAIN ps = 1..Len(ps) /\ \A i \in 1..Len(ps) : ps[i] \in D
  BY AskAssumption, LenProperties, ElementOfSeq
<1>2. r.composed = ps /\ r.capacity = capacity
  BY DEF split_refusal
<1>3. r.calls = IF capacity < 0 \/ \E i \in 1..Len(ps) : ps[i].units > capacity THEN <<>> ELSE Split(ps, capacity)
  BY <1>1 DEF split_refusal
<1>4. capacity >= 0 => ps # <<>>
  <2>1. Units(<<>>) = 0 /\ Units(ps) \in Nat
    BY UnitsGrow
  <2> QED
    BY <2>1, AskAssumption
<1> HIDE DEF r, capacity
<1>5. CASE capacity < 0
  <2>1. r.calls = <<>>
    BY <1>3, <1>5
  <2>2. ~(r.capacity >= 0)
    BY <1>1, <1>2, <1>5
  <2> QED
    BY <2>1, <2>2, Zenon DEF SplitSays
<1>6. ASSUME NEW i \in 1..Len(ps), ps[i].units > capacity PROVE SplitSays(r)
  <2> SUFFICES ASSUME NEW cut \in Cuts(Len(ps)), Fits(ps, capacity, cut) PROVE FALSE
    BY <1>2, <1>3, <1>6 DEF SplitSays
  <2> DEFINE h == i - 1
  <2>1. h \in Nat /\ h + 1 = i /\ i \in Nat \ {0} /\ i <= h + 1 /\ h + 1 <= Len(ps)
    BY <1>1
  <2> HIDE DEF h
  <2>2. OneMore(ps, i, h, D)
    BY <2>1, SubSeqGrows
  <2>3. SubSeq(ps, i, i) = <<ps[i]>> /\ ps[i] \in D
    BY <1>1, <2>1, <2>2 DEF OneMore
  <2>4. (cut \cap i..(i - 1)) = {} /\ i <= i
    BY <1>1
  <2>5. Units(SubSeq(ps, i, i)) <= capacity
    BY <2>4 DEF Fits
  <2>6. Units(<<ps[i]>>) = ps[i].units /\ ps[i].units \in Nat
    BY <2>3, UnitsGrow DEF Weighed
  <2> QED
    BY <1>1, <1>6, <2>3, <2>5, <2>6
<1>7. CASE capacity >= 0 /\ \A i \in 1..Len(ps) : ~(ps[i].units > capacity)
  <2>1. \A i \in 1..Len(ps) : ps[i].units <= capacity
    BY <1>1, <1>7 DEF Weighed
  <2>2. r.calls = Split(ps, capacity)
    BY <1>1, <1>3, <1>7
  <2>3. BestSplit(ps, capacity, D)
    BY <1>1, <1>4, <1>7, <2>1, SplitIsBest
  <2> QED
    <3>1. r.calls # <<>> /\ FlattenSeq(r.calls) = r.composed
      BY <1>2, <2>2, <2>3 DEF BestSplit
    <3>2. \A c \in DOMAIN r.calls : Units(r.calls[c]) <= r.capacity
      BY <1>2, <2>2, <2>3 DEF BestSplit
    <3>3. \A cut \in Cuts(Len(r.composed)) :
            Fits(r.composed, r.capacity, cut) => Len(r.calls) <= Cardinality(cut) + 1
      BY <1>2, <2>2, <2>3 DEF BestSplit
    <3> QED
      BY <3>1, <3>2, <3>3, Zenon DEF SplitSays
<1>8. capacity < 0 \/ capacity >= 0
  BY <1>1
<1> QED
  BY <1>5, <1>6, <1>7, <1>8

(* The names of the state's fields: one for each part, no two the same. *)
LEMMA StateNamed ==
  ASSUME NEW ps \in Seq(AskParts)
  PROVE  IsInjective(_named_state(ps)) /\ Len(_named_state(ps)) = Len(ps)
<1> DEFINE n == Len(ps)
           bases == [i \in DOMAIN ps |-> ps[i].name]
           P == AskWords
           names == FreeNames(bases, 2)
<1>1. n \in Nat /\ DOMAIN ps = 1..n /\ \A i \in 1..n : ps[i] \in AskParts
  BY LenProperties, ElementOfSeq
<1>2. bases = [i \in 1..n |-> ps[i].name] /\ \A i \in 1..n : bases[i] \in Seq(P) /\ bases[i] # <<>>
  BY <1>1 DEF AskParts
<1> HIDE DEF n, P
<1>3. bases \in Seq(Seq(P)) /\ Len(bases) = n
  <2>1. bases \in [1..n -> Seq(P)]
    BY <1>2
  <2> HIDE DEF bases
  <2>2. bases \in Seq(Seq(P))
    BY <1>1, <2>1, SeqDef
  <2> QED
    BY <1>1, <2>1, <2>2, LenProperties
<1>4. Nat \subseteq P /\ 2 \in Nat
  BY DEF P, AskWords
<1> HIDE DEF bases
<1>5. /\ names \in Seq(Seq(P)) /\ Len(names) = Len(bases)
      /\ \A i, j \in 1..Len(bases) : names[i] = names[j] => i = j
  <2>1. \A i \in 1..Len(bases) : bases[i] # <<>>
    BY <1>2, <1>3
  <2> QED
    BY <1>3, <1>4, <2>1, NamesAreFree
<1>6. _named_state(ps) = names
  BY DEF _named_state, bases
<1> HIDE DEF names
<1>7. DOMAIN names = 1..n
  BY <1>3, <1>5, LenProperties
<1> QED
  BY <1>3, <1>5, <1>6, <1>7 DEF IsInjective, n

(* A reply says nothing of a split, or says what works. *)
LEMMA SplitKept ==
  ASSUME stage' = "done" => result'.status # "error" \/ "calls" \notin DOMAIN result' \/ SplitSays(result'),
         stage' = "done" => \/ job'.tool # "ask" \/ "state" \notin DOMAIN result'
                            \/ IsInjective(result'.state) /\ Len(result'.state) = Len(parts')
  PROVE  SplitWorks' /\ FewestInOrder'
<1>1. Suggests' => SplitSays(result')
  BY DEF Suggests
<1> QED
  BY <1>1 DEF SplitWorks, FewestInOrder, SplitSays

(* A refusal holds its code only. *)
LEMMA RefusalIsBare ==
  ASSUME NEW code
  PROVE  "calls" \notin DOMAIN Refused(code) /\ "state" \notin DOMAIN Refused(code) /\ Refused(code).status = "error"
BY DEF Refused

(* The parts are parts, and the call under way is one that was sent. *)
PartsInv ==
  /\ parts \in Seq(AskParts)
  /\ stage \in {"gate", "ask"} => job \in AskJobs
  /\ SplitWorks /\ FewestInOrder

LEMMA InitPartsInv == AskInit => PartsInv
BY DEF AskInit, JudgmentInit, PartsInv, SplitWorks, FewestInOrder, Suggests

LEMMA SamePartsInv ==
  ASSUME PartsInv, UNCHANGED <<stage, job, result, parts>>
  PROVE  PartsInv'
BY DEF PartsInv, SplitWorks, FewestInOrder, Suggests

LEMMA AnswersSayNoSplit ==
  ASSUME NEW j, NEW a, NEW b, NEW c
  PROVE  /\ classify(j, a).status # "error" /\ compare(j, a, b).status # "error" /\ find(j, a, b).status # "error"
         /\ rerank(j, a).status # "error" /\ screen(j, a, b, c).status # "error" /\ extract(j, a, b).status # "error"
         /\ score(j, a).status # "error" /\ file_judge(j, a).status # "error" /\ decide(j, a, b).status # "error"
BY DEF classify, compare, find, rerank, screen, extract, score, file_judge, decide, project_answer

(* The steps of the one-question tools, and of the list call. *)
LEMMA JudgmentsKeepParts ==
  ASSUME PartsInv, JudgedInv, JudgmentNext \/ PlanFiles, parts' = parts
  PROVE  PartsInv'
<1>1. stage' \notin {"gate", "ask"}
  BY DEF JudgmentNext, PlanFiles, Call, find_candidates, BuildExtract, AnswerClassify, AnswerCompare, AnswerDecide,
         AnswerFind, AnswerRerank, AnswerScore, AnswerScreen, AnswerExtract, AnswerFileJudge, Asked, Done
<1>2. ASSUME stage' = "done" => result'.status # "error" \/ "calls" \notin DOMAIN result',
             stage' = "done" => job'.tool # "ask" \/ "state" \notin DOMAIN result'
      PROVE  PartsInv'
  BY <1>1, <1>2, SplitKept DEF PartsInv
<1>3. CASE Call
  BY <1>2, <1>3, RefusalIsBare DEF Call, Done
<1>4. CASE find_candidates
  BY <1>4, SamePartsInv DEF find_candidates
<1>5. CASE BuildExtract
  <2>1. job.tool = "extract" /\ job' = job
    BY <1>5 DEF BuildExtract, JudgedInv, JudgedShape
  <2> QED
    BY <1>2, <1>5, <2>1, RefusalIsBare, AnswersSayNoSplit DEF BuildExtract, Done
<1>6. ASSUME NEW tool, Asked(tool), tool # "ask", result'.status # "error" PROVE PartsInv'
  <2>1. job' = job /\ job.tool = tool
    BY <1>6 DEF Asked
  <2> QED
    BY <1>2, <1>6, <2>1
<1>7. CASE AnswerClassify
  BY <1>6, <1>7, AnswersSayNoSplit DEF AnswerClassify, Done
<1>8. CASE AnswerCompare
  BY <1>6, <1>8, AnswersSayNoSplit DEF AnswerCompare, Done
<1>9. CASE AnswerFind
  BY <1>6, <1>9, AnswersSayNoSplit DEF AnswerFind, Done
<1>10. CASE AnswerRerank
  BY <1>6, <1>10, AnswersSayNoSplit DEF AnswerRerank, Done
<1>11. CASE AnswerScreen
  BY <1>6, <1>11, AnswersSayNoSplit DEF AnswerScreen, Done
<1>12. CASE AnswerExtract
  BY <1>6, <1>12, AnswersSayNoSplit DEF AnswerExtract, Done
<1>13. CASE AnswerDecide
  BY <1>6, <1>13, AnswersSayNoSplit DEF AnswerDecide, Done
<1>14. CASE AnswerScore
  BY <1>6, <1>14, AnswersSayNoSplit DEF AnswerScore, Done
<1>15. CASE AnswerFileJudge
  BY <1>6, <1>15, AnswersSayNoSplit DEF AnswerFileJudge, Done
<1>16. CASE PlanFiles
  <2>1. job'.tool = "files_judge" /\ result'.status = "planned"
    BY <1>16 DEF PlanFiles, Done
  <2> QED
    BY <1>2, <2>1
<1> QED
  BY <1>3, <1>4, <1>5, <1>7, <1>8, <1>9, <1>10, <1>11, <1>12, <1>13, <1>14, <1>15, <1>16 DEF JudgmentNext

(* A command's run ends: its output is one part more. *)
LEMMA RunEndsParts ==
  ASSUME PartsInv, stage = "gate", NEW r, RunEnds(r),
         r.status = "error" => "calls" \notin DOMAIN r /\ "state" \notin DOMAIN r,
         r.status # "error" => r.units \in Nat
  PROVE  PartsInv'
<1>1. job' = job /\ job \in AskJobs
  BY DEF RunEnds, PartsInv
<1>2. CASE stage' = "done"
  <2>1. parts' = parts /\ (result' = [status |-> "cancelled"] \/ (result' = r /\ r.status = "error"))
    BY <1>2 DEF RunEnds, Done
  <2> QED
    BY <1>2, <2>1, SplitKept DEF PartsInv
<1>3. CASE stage' # "done"
  <2>1. parts' = Append(parts, [name |-> <<"command output">>, units |-> r.units]) /\ r.units \in Nat
    BY <1>3 DEF RunEnds, Done
  <2>2. <<"command output">> \in Seq(AskWords) /\ <<"command output">> # <<>>
    <3>1. "command output" \in AskWords
      BY DEF AskWords
    <3> DEFINE w == "command output"
    <3> HIDE DEF w
    <3>2. w \in AskWords => <<w>> \in Seq(AskWords) /\ <<w>> # <<>>
      OBVIOUS
    <3> QED
      BY <3>1, <3>2 DEF w
  <2>3. [name |-> <<"command output">>, units |-> r.units] \in AskParts
    BY <2>1, <2>2 DEF AskParts
  <2>4. parts' \in Seq(AskParts)
    BY <2>1, <2>3, AppendProperties DEF PartsInv
  <2> QED
    BY <1>1, <1>3, <2>4, SplitKept DEF PartsInv
<1> QED
  BY <1>2, <1>3

(* The steps of jev_ask, and of what it runs. *)
LEMMA AsksKeepParts ==
  ASSUME PartsInv, AskInv,
         \/ CallAsk \/ GateAnswer \/ Thread \/ Fork \/ ProcessExits
         \/ \E s \in Streams : Write(s) \/ drain(s)
         \/ OverBudgetAfter \/ AskAnswer \/ Cancel \/ AskReset
  PROVE  PartsInv'
<1>1. watch # "none" => stage = "gate"
  BY DEF AskInv, GroupInv
<1>2. CASE CallAsk
  <2>1. PICK j \in AskJobs :
          /\ job' = j
          /\ \/ (\E code : Done(Refused(code))) /\ UNCHANGED parts
             \/ /\ OverBudget(Composed(j), j.questions)
                /\ Done(split_refusal(Composed(j), question_units(j.questions))) /\ UNCHANGED parts
             \/ stage' # "done" /\ parts' = Composed(j)
    BY <1>2 DEF CallAsk, Done
  <2>2. Composed(j) \in Seq(AskParts) /\ question_units(j.questions) \in Nat
    BY ComposedIsParts
  <2>3. CASE (\E code : Done(Refused(code))) /\ UNCHANGED parts
    BY <2>1, <2>3, RefusalIsBare, SplitKept DEF Done, PartsInv
  <2>4. CASE /\ OverBudget(Composed(j), j.questions)
             /\ Done(split_refusal(Composed(j), question_units(j.questions))) /\ UNCHANGED parts
    <3>1. SplitSays(split_refusal(Composed(j), question_units(j.questions)))
      BY <2>2, <2>4, PartsWeigh, RefusalSays DEF OverBudget
    <3>2. "state" \notin DOMAIN split_refusal(Composed(j), question_units(j.questions))
      BY DEF split_refusal
    <3> QED
      BY <2>1, <2>4, <3>1, <3>2, SplitKept DEF Done, PartsInv
  <2>5. CASE stage' # "done" /\ parts' = Composed(j)
    BY <2>1, <2>2, <2>5, SplitKept DEF PartsInv
  <2> QED
    BY <2>1, <2>3, <2>4, <2>5
<1>3. CASE GateAnswer
  <2>1. /\ stage = "gate" /\ job' = job /\ parts' = parts
        /\ (\E code : Done(Refused(code))) \/ UNCHANGED <<stage, result>>
    BY <1>3 DEF GateAnswer
  <2> QED
    BY <2>1, SamePartsInv, RefusalIsBare, SplitKept DEF Done, PartsInv
<1>4. CASE Thread
  <2>1. \/ UNCHANGED <<stage, job, result, parts>>
        \/ watch # "none" /\ \E code : RunEnds(Refused(code))
        \/ watch # "none" /\ \E u \in Nat : RunEnds([status |-> "ok", units |-> u])
    <3>1. CASE Spawn \/ WaitEnds \/ _kill_group \/ JoinReaders \/ CheckOutcome \/ CheckReaders
      BY <3>1 DEF Spawn, WaitEnds, _kill_group, JoinReaders, CheckOutcome, CheckReaders, Calling, judging
    <3>2. CASE Measure
      <4>1. PICK u \in 0..(Caps.output + 1) :
              RunEnds(IF u > Caps.output THEN Refused("output_too_large") ELSE [status |-> "ok", units |-> u])
        BY <3>2 DEF Measure
      <4>2. u \in Nat /\ watch # "none"
        BY <3>2, AskAssumption DEF Measure
      <4> QED
        BY <4>1, <4>2
    <3> QED
      BY <1>4, <3>1, <3>2 DEF Thread
  <2>2. ASSUME NEW code, RunEnds(Refused(code)), watch # "none" PROVE PartsInv'
    BY <1>1, <2>2, RefusalIsBare, RunEndsParts
  <2>3. ASSUME NEW u \in Nat, RunEnds([status |-> "ok", units |-> u]), watch # "none" PROVE PartsInv'
    <3> DEFINE r == [status |-> "ok", units |-> u]
    <3>1. r.status = "ok" /\ r.units = u
      OBVIOUS
    <3> HIDE DEF r
    <3>2. RunEnds(r)
      BY <2>3 DEF r
    <3> QED
      BY <1>1, <2>3, <3>1, <3>2, RunEndsParts
  <2> QED
    BY <2>1, <2>2, <2>3, SamePartsInv
<1>5. CASE Fork \/ ProcessExits \/ \E s \in Streams : Write(s) \/ drain(s)
  BY <1>5, SamePartsInv DEF Fork, ProcessExits, Write, drain, Calling, judging
<1>6. CASE OverBudgetAfter
  <2> DEFINE q == question_units(job.questions)
             r == split_refusal(parts, q)
  <2>1. stage = "ask" /\ q + Units(parts) > Caps.request /\ Done(r) /\ UNCHANGED <<job, parts>>
    BY <1>6 DEF OverBudgetAfter, OverBudget
  <2>2. q \in Nat /\ parts \in Seq(AskParts)
    BY <2>1, ComposedIsParts DEF PartsInv
  <2>3. "state" \notin DOMAIN r
    BY DEF split_refusal
  <2> HIDE DEF q
  <2>4. SplitSays(r)
    BY <2>1, <2>2, PartsWeigh, RefusalSays
  <2> HIDE DEF r
  <2> QED
    BY <2>1, <2>3, <2>4, SplitKept DEF Done, PartsInv
<1>7. CASE AskAnswer
  <2>1. PICK a, s : /\ result' = [status |-> s, answers |-> a, state |-> _named_state(parts)]
                    /\ s \in {"ok", "invalid_response"}
    BY <1>7 DEF AskAnswer, Done
  <2>2. UNCHANGED <<job, parts>> /\ stage' = "done"
    BY <1>7 DEF AskAnswer, Done
  <2>3. IsInjective(_named_state(parts)) /\ Len(_named_state(parts)) = Len(parts)
    BY StateNamed DEF PartsInv
  <2>4. result'.status # "error" /\ result'.state = _named_state(parts)
    BY <2>1
  <2> QED
    BY <2>2, <2>3, <2>4, SplitKept DEF PartsInv
<1>8. CASE Cancel
  <2>1. /\ stage \in {"gate", "ask"} /\ job' = job /\ parts' = parts
        /\ Done([status |-> "cancelled"]) \/ UNCHANGED <<stage, result>>
    BY <1>8 DEF Cancel
  <2> QED
    BY <2>1, SamePartsInv, SplitKept DEF Done, PartsInv
<1>9. CASE AskReset
  <2>1. stage' = "idle" /\ parts' = <<>> /\ <<>> \in Seq(AskParts)
    BY <1>9 DEF AskReset, Reset
  <2> QED
    BY <2>1, SplitKept DEF PartsInv
<1> QED
  BY <1>2, <1>3, <1>4, <1>5, <1>6, <1>7, <1>8, <1>9

LEMMA NextPartsInv == PartsInv /\ JudgedInv /\ AskInv /\ [AskNext]_askVars => PartsInv'
<1> SUFFICES ASSUME PartsInv, JudgedInv, AskInv, [AskNext]_askVars PROVE PartsInv'
  OBVIOUS
<1>1. CASE UNCHANGED askVars
  BY <1>1, SamePartsInv DEF askVars, judging
<1>2. CASE AskNext
  <2>1. CASE JudgmentNext /\ parts' = parts
    BY <2>1, JudgmentsKeepParts
  <2>2. CASE PlanFiles /\ parts' = parts
    BY <2>2, JudgmentsKeepParts
  <2> QED
    BY <1>2, <2>1, <2>2, AsksKeepParts DEF AskNext
<1> QED
  BY <1>1, <1>2

(* An over-budget call is told a way that works, for every list of parts   *)
(* and every budget: split_refusal's calls hold every part once, in order, *)
(* and fit; it says so when no cut fits, and the named state of a call     *)
(* that was asked lost no part.                                            *)
THEOREM SplitsWork == AskSpec => []SplitWorks
<1>0. AskSpec => []JudgedInv
  BY InitJudgedInv, NextJudgedInv, AskInvariant, PTL DEF AskSpec
<1>1. AskSpec => []PartsInv
  BY <1>0, InitPartsInv, NextPartsInv, AskInvariant, PTL DEF AskSpec
<1>2. PartsInv => SplitWorks
  BY DEF PartsInv
<1> QED
  BY <1>1, <1>2, PTL

(* For every list of parts, split_refusal's filling of the last call needs *)
(* no more calls than the best cut of the same order.                      *)
THEOREM SplitsAreFewestInOrder == AskSpec => []FewestInOrder
<1>0. AskSpec => []JudgedInv
  BY InitJudgedInv, NextJudgedInv, AskInvariant, PTL DEF AskSpec
<1>1. AskSpec => []PartsInv
  BY <1>0, InitPartsInv, NextPartsInv, AskInvariant, PTL DEF AskSpec
<1>2. PartsInv => FewestInOrder
  BY DEF PartsInv
<1> QED
  BY <1>1, <1>2, PTL

--------------------------------------------------------------------------------
(* jev_files_judge: what its plan finds, and what it tells of it. *)

(* The elements of a sequence that grows. *)
LEMMA RangeOfAppend ==
  ASSUME NEW D, NEW s \in Seq(D), NEW x \in D
  PROVE  Append(s, x) \in Seq(D) /\ Range(Append(s, x)) = Range(s) \cup {x}
<1> DEFINE a == Append(s, x)
           n == Len(s)
<1>1. n \in Nat /\ DOMAIN s = 1..n
  BY LenProperties
<1>2. a \in Seq(D) /\ Len(a) = n + 1 /\ (\A i \in 1..n : a[i] = s[i]) /\ a[n + 1] = x
  BY AppendProperties
<1>3. DOMAIN a = 1..(n + 1)
  BY <1>2, LenProperties
<1> HIDE DEF a, n
<1>4. \A i \in 1..(n + 1) : i = n + 1 \/ i \in 1..n
  BY <1>1
<1>5. n + 1 \in 1..(n + 1) /\ \A i \in 1..n : i \in 1..(n + 1)
  BY <1>1
<1>6. ASSUME NEW y \in Range(a) PROVE y \in Range(s) \cup {x}
  <2>1. PICK i \in 1..(n + 1) : y = a[i]
    BY <1>3 DEF Range
  <2> QED
    BY <1>1, <1>2, <1>4, <2>1 DEF Range
<1>7. ASSUME NEW y \in Range(s) PROVE y \in Range(a)
  <2>1. PICK i \in 1..n : y = s[i]
    BY <1>1 DEF Range
  <2> QED
    BY <1>2, <1>3, <1>5, <2>1 DEF Range
<1>8. x \in Range(a)
  BY <1>2, <1>3, <1>5 DEF Range
<1> QED
  BY <1>2, <1>6, <1>7, <1>8 DEF a

LEMMA RangeOfConcat ==
  ASSUME NEW D, NEW s \in Seq(D), NEW t \in Seq(D)
  PROVE  s \o t \in Seq(D) /\ Range(s \o t) = Range(s) \cup Range(t)
<1> DEFINE a == s \o t
           m == Len(s)
           n == Len(t)
<1>1. m \in Nat /\ n \in Nat /\ DOMAIN s = 1..m /\ DOMAIN t = 1..n
  BY LenProperties
<1>2. a \in Seq(D) /\ Len(a) = m + n /\ \A i \in 1..(m + n) : a[i] = IF i <= m THEN s[i] ELSE t[i - m]
  BY ConcatProperties
<1>3. DOMAIN a = 1..(m + n)
  BY <1>2, LenProperties
<1> HIDE DEF a, m, n
<1>4. ASSUME NEW y \in Range(a) PROVE y \in Range(s) \cup Range(t)
  <2>1. PICK i \in 1..(m + n) : y = a[i]
    BY <1>3 DEF Range
  <2>2. CASE i <= m
    <3>1. i \in 1..m /\ y = s[i]
      BY <1>1, <1>2, <2>1, <2>2
    <3> QED
      BY <1>1, <3>1 DEF Range
  <2>3. CASE ~(i <= m)
    <3>1. i - m \in 1..n /\ y = t[i - m]
      BY <1>1, <1>2, <2>1, <2>3
    <3> QED
      BY <1>1, <3>1 DEF Range
  <2> QED
    BY <2>2, <2>3
<1>5. ASSUME NEW y \in Range(s) PROVE y \in Range(a)
  <2>1. PICK i \in 1..m : y = s[i]
    BY <1>1 DEF Range
  <2>2. i \in 1..(m + n) /\ i <= m
    BY <1>1
  <2> QED
    BY <1>2, <1>3, <2>1, <2>2 DEF Range
<1>6. ASSUME NEW y \in Range(t) PROVE y \in Range(a)
  <2>1. PICK i \in 1..n : y = t[i]
    BY <1>1 DEF Range
  <2> DEFINE k == m + i
  <2>2. k \in 1..(m + n) /\ ~(k <= m) /\ k - m = i
    BY <1>1
  <2> HIDE DEF k
  <2>3. a[k] = t[k - m]
    BY <1>2, <2>2
  <2> QED
    BY <1>3, <2>1, <2>2, <2>3 DEF Range
<1> QED
  BY <1>2, <1>4, <1>5, <1>6 DEF a

(* Among keeps what it should. *)
LEMMA AmongKeeps ==
  ASSUME NEW D, NEW s \in Seq(D), NEW S
  PROVE  Among(s, S) \in Seq(D) /\ Range(Among(s, S)) = Range(s) \cap S
<1> DEFINE n == Len(s)
           Good(f) == f = [k \in 0..n |-> IF k = 0 THEN <<>>
                                          ELSE IF s[k] \in S THEN Append(f[k - 1], s[k]) ELSE f[k - 1]]
           step == [k \in 1..n |-> [x \in Seq(D) |-> IF s[k] \in S THEN Append(x, s[k]) ELSE x]]
<1>1. n \in Nat /\ (\A k \in 1..n : s[k] \in D) /\ DOMAIN s = 1..n
  BY LenProperties, ElementOfSeq
<1> HIDE DEF n
<1>2. step \in Steps(n, Seq(D)) /\ <<>> \in Seq(D)
  <2>1. \A k \in 1..n, x \in Seq(D) : Append(x, s[k]) \in Seq(D)
    BY <1>1, AppendProperties
  <2> QED
    BY <2>1 DEF Steps
<1>3. PICK g : IsTrace(g, n, Seq(D), <<>>, step)
  <2> HIDE DEF step
  <2> QED
    BY <1>1, <1>2, Iterate
<1>4. /\ g \in [0..n -> Seq(D)] /\ g[0] = <<>>
      /\ \A k \in 1..n : g[k] = IF s[k] \in S THEN Append(g[k - 1], s[k]) ELSE g[k - 1]
  <2>1. g \in [0..n -> Seq(D)] /\ g[0] = <<>> /\ \A k \in 1..n : g[k] = step[k][g[k - 1]]
    <3> HIDE DEF step
    <3> QED
      BY <1>3 DEF IsTrace
  <2>2. \A k \in 1..n : g[k - 1] \in Seq(D)
    BY <1>1, <2>1
  <2>3. \A k \in 1..n : step[k][g[k - 1]] = IF s[k] \in S THEN Append(g[k - 1], s[k]) ELSE g[k - 1]
    BY <2>2
  <2> HIDE DEF step
  <2> QED
    BY <2>1, <2>3
<1> HIDE DEF step
<1>5. Good(g)
  <2>1. g = [k \in 0..n |-> g[k]]
    BY <1>4
  <2>2. \A k \in 0..n : k = 0 \/ k \in 1..n
    BY <1>1
  <2> QED
    BY <1>4, <2>1, <2>2
<1> DEFINE f == CHOOSE h : Good(h)
<1>6. Good(f)
  BY <1>5
<1>7. Among(s, S) = f[n]
  BY DEF Among, n
<1> HIDE DEF f
<1>8. f[0] = <<>> /\ \A k \in 1..n : f[k] = IF s[k] \in S THEN Append(f[k - 1], s[k]) ELSE f[k - 1]
  <2>1. 0 \in 0..n /\ \A k \in 1..n : k \in 0..n /\ k # 0
    BY <1>1
  <2> QED
    BY <1>6, <2>1
<1> HIDE DEF Good
<1> DEFINE Upto(k) == {s[i] : i \in 1..k}
           T == {k \in 0..n : f[k] \in Seq(D) /\ Range(f[k]) = Upto(k) \cap S}
<1>9. 0 \in T
  <2>1. Range(f[0]) = {}
    BY <1>8 DEF Range
  <2> QED
    <3>1. Upto(0) = {}
      OBVIOUS
    <3> HIDE DEF Upto
    <3> QED
      <4>1. f[0] \in Seq(D) /\ 0 \in 0..n
        BY <1>1, <1>2, <1>8
      <4>2. Range(f[0]) = Upto(0) \cap S
        BY <2>1, <3>1
      <4> QED
        BY <4>1, <4>2
<1>10. ASSUME NEW k \in 1..n, k - 1 \in T PROVE k \in T
  <2>1. f[k - 1] \in Seq(D) /\ Range(f[k - 1]) = Upto(k - 1) \cap S /\ s[k] \in D
    BY <1>1, <1>10
  <2>2. Upto(k) = Upto(k - 1) \cup {s[k]}
    BY <1>1
  <2>3. CASE s[k] \in S
    <3>1. f[k] \in Seq(D) /\ Range(f[k]) = Range(f[k - 1]) \cup {s[k]}
      <4>1. f[k] = Append(f[k - 1], s[k])
        BY <1>8, <2>3
      <4> DEFINE x == s[k]
                 t == f[k - 1]
      <4>2. t \in Seq(D) /\ x \in D
        BY <2>1
      <4> HIDE DEF x, t
      <4>3. Append(t, x) \in Seq(D) /\ Range(Append(t, x)) = Range(t) \cup {x}
        BY <4>2, RangeOfAppend
      <4> QED
        BY <4>1, <4>3 DEF x, t
    <3> HIDE DEF Upto
    <3> QED
      BY <1>1, <2>1, <2>2, <2>3, <3>1
  <2>4. CASE s[k] \notin S
    <3>1. f[k] = f[k - 1]
      BY <1>8, <2>4
    <3> HIDE DEF Upto
    <3> QED
      BY <1>1, <2>1, <2>2, <2>4, <3>1
  <2> QED
    BY <2>3, <2>4
<1>11. n \in T
  <2> HIDE DEF T
  <2> QED
    BY <1>1, <1>9, <1>10, CountUp
<1>12. Upto(n) = Range(s)
  BY <1>1 DEF Range
<1> QED
  BY <1>7, <1>11, <1>12

(* What FlattenSeq puts together. *)
LEMMA RangeOfFlatten ==
  ASSUME NEW D, NEW d \in Seq(Seq(D))
  PROVE  FlattenSeq(d) \in Seq(D) /\ Range(FlattenSeq(d)) = UNION {Range(d[k]) : k \in 1..Len(d)}
<1> DEFINE n == Len(d)
           Upto(k) == UNION {Range(d[i]) : i \in 1..k}
<1>1. n \in Nat /\ \A k \in 1..n : d[k] \in Seq(D)
  BY LenProperties, ElementOfSeq
<1>2. PICK f : Flat(f, d, D) /\ FlattenSeq(d) = f[n]
  BY FlattenIsFlat
<1> DEFINE T == {k \in 0..n : Range(f[k]) = Upto(k)}
<1>3. f \in [0..n -> Seq(D)] /\ f[0] = <<>> /\ \A k \in 1..n : f[k] = f[k - 1] \o d[k]
  BY <1>2 DEF Flat
<1> HIDE DEF n
<1>4. 0 \in T
  BY <1>1, <1>3 DEF Range
<1>5. ASSUME NEW k \in 1..n, k - 1 \in T PROVE k \in T
  <2>1. k - 1 \in 0..n /\ k \in 0..n
    BY <1>1
  <2>2. f[k - 1] \in Seq(D) /\ d[k] \in Seq(D) /\ Range(f[k - 1]) = Upto(k - 1)
    BY <1>1, <1>3, <1>5, <2>1
  <2>3. Range(f[k]) = Range(f[k - 1]) \cup Range(d[k])
    <3> DEFINE s == f[k - 1]
               t == d[k]
    <3>1. s \in Seq(D) /\ t \in Seq(D) /\ f[k] = s \o t
      BY <1>3, <2>2
    <3> HIDE DEF s, t
    <3>2. Range(s \o t) = Range(s) \cup Range(t)
      BY <3>1, RangeOfConcat
    <3> QED
      BY <3>1, <3>2 DEF s, t
  <2>4. Upto(k) = Upto(k - 1) \cup Range(d[k])
    <3>1. \A i : i \in 1..k <=> i \in 1..(k - 1) \/ i = k
      BY <1>1
    <3> QED
      BY <3>1
  <2> HIDE DEF Upto
  <2> QED
    BY <2>1, <2>2, <2>3, <2>4
<1>6. n \in T
  <2> HIDE DEF T
  <2>1. \A k \in 0..n : k \in T
    BY <1>1, <1>4, <1>5, CountUp
  <2> QED
    BY <1>1, <2>1
<1>7. f[n] \in Seq(D)
  BY <1>1, <1>3
<1> QED
  BY <1>2, <1>6, <1>7 DEF n

(* A sequence for each element of x, put together. *)
Mapped(y, x, F, S, D) ==
  F \in [S -> Seq(D)] /\ y \in [DOMAIN x -> Seq(D)] /\ \A k \in DOMAIN x : y[k] = F[x[k]]

LEMMA FlatMap ==
  ASSUME NEW S, NEW x \in Seq(S), NEW D, NEW F, NEW y, Mapped(y, x, F, S, D)
  PROVE  FlattenSeq(y) \in Seq(D) /\ \A z : z \in Range(FlattenSeq(y)) <=> \E d \in Range(x) : z \in Range(F[d])
<1> DEFINE n == Len(x)
<1>1. n \in Nat /\ DOMAIN x = 1..n /\ \A k \in 1..n : x[k] \in S
  BY LenProperties, ElementOfSeq
<1>2. y \in [1..n -> Seq(D)] /\ \A k \in 1..n : y[k] = F[x[k]]
  BY <1>1 DEF Mapped
<1> HIDE DEF n
<1>3. y \in Seq(Seq(D))
  BY <1>1, <1>2, SeqDef
<1>4. Len(y) = n
  <2>1. DOMAIN y = 1..n /\ Len(y) \in Nat /\ DOMAIN y = 1..Len(y)
    BY <1>2, <1>3, LenProperties
  <2> QED
    BY <1>1, <2>1
<1>5. FlattenSeq(y) \in Seq(D) /\ Range(FlattenSeq(y)) = UNION {Range(y[k]) : k \in 1..n}
  BY <1>3, <1>4, RangeOfFlatten
<1>6. \A z : z \in Range(FlattenSeq(y)) <=> \E k \in 1..n : z \in Range(y[k])
  BY <1>5
<1>7. \A d \in Range(x) : \E k \in 1..n : d = x[k]
  BY <1>1 DEF Range
<1>8. \A k \in 1..n : x[k] \in Range(x)
  BY <1>1 DEF Range
<1>9. \A z : (\E k \in 1..n : z \in Range(y[k])) => \E d \in Range(x) : z \in Range(F[d])
  BY <1>2, <1>8
<1>10. \A z : (\E d \in Range(x) : z \in Range(F[d])) => \E k \in 1..n : z \in Range(y[k])
  BY <1>2, <1>7
<1> QED
  BY <1>5, <1>6, <1>9, <1>10

(* The tree, as sequences. *)
Nodes == 1..Len(Tree)

LEMMA TreeFacts ==
  /\ Len(Tree) \in Nat /\ DOMAIN Tree = Nodes /\ Numbers \in Seq(Nodes) /\ Range(Numbers) = Nodes
  /\ Dirs \in Seq(Range(Dirs)) /\ Names \in Seq(Range(Names))
  /\ <<>> \in Range(Dirs) /\ Range(Dirs) \subseteq Seq(Range(Names))
  /\ \A d \in Range(Dirs), k \in Nat : k <= Len(d) => SubSeq(d, 1, k) \in Range(Dirs)
  /\ \A i \in Nodes : /\ Tree[i].dir \in Range(Dirs) /\ Tree[i].base \in Range(Names)
                      /\ Append(Tree[i].dir, Tree[i].base) \notin Range(Dirs)
                      /\ Tree[i].real \in Nat
<1> USE PlanAssumption DEF PlanAssumption
<1>1. List(Tree) /\ List(Dirs) /\ List(Names)
  OBVIOUS
<1>2. Len(Tree) \in Nat /\ DOMAIN Tree = Nodes
  BY <1>1, ListIsSeq DEF Nodes
<1>3. Dirs \in Seq(Range(Dirs)) /\ Names \in Seq(Range(Names))
  BY <1>1, ListIsSeq
<1>4. Numbers \in Seq(Nodes) /\ Range(Numbers) = Nodes
  <2>1. Numbers = [i \in Nodes |-> i]
    BY <1>2 DEF Numbers
  <2>2. Numbers \in [1..Len(Tree) -> Nodes] /\ DOMAIN Numbers = Nodes /\ \A i \in Nodes : Numbers[i] = i
    BY <2>1 DEF Nodes
  <2>3. Numbers \in Seq(Nodes)
    BY <1>2, <2>2, SeqDef
  <2>4. Range(Numbers) = Nodes
    BY <2>2 DEF Range
  <2> QED
    BY <2>3, <2>4
<1>5. ASSUME NEW d \in Range(Dirs) PROVE /\ d \in Seq(Range(Names))
                                         /\ \A k \in Nat : k <= Len(d) => SubSeq(d, 1, k) \in Range(Dirs)
  <2>1. List(d) /\ Range(d) \subseteq Range(Names) /\ \A k \in 0..Len(d) : SubSeq(d, 1, k) \in Range(Dirs)
    OBVIOUS
  <2>2. d \in Seq(Range(d)) /\ Len(d) \in Nat
    BY <2>1, ListIsSeq
  <2>3. d \in Seq(Range(Names))
    BY <2>1, <2>2, SeqMonotonic
  <2>4. \A k \in Nat : k <= Len(d) => k \in 0..Len(d)
    BY <2>2
  <2> QED
    BY <2>1, <2>3, <2>4
<1>6. ASSUME NEW i \in Nodes PROVE /\ Tree[i].dir \in Range(Dirs) /\ Tree[i].base \in Range(Names)
                                   /\ Append(Tree[i].dir, Tree[i].base) \notin Range(Dirs)
                                   /\ Tree[i].real \in Nat
  <2>1. i \in DOMAIN Tree
    BY <1>2
  <2>2. Tree[i].real \in 0..Len(Tree)
    BY <2>1
  <2>3. Tree[i].real \in Nat
    BY <1>2, <2>2
  <2> QED
    BY <2>1, <2>3
<1> QED
  BY <1>2, <1>3, <1>4, <1>5, <1>6

--------------------------------------------------------------------------------
(* Prefixes, and the skip list along a path. *)

(* The part of a path up to k, and the rest. *)
LEMMA Cut ==
  ASSUME NEW W, NEW e \in Seq(W), NEW k \in Nat, k <= Len(e)
  PROVE  /\ SubSeq(e, 1, k) \in Seq(W) /\ Len(SubSeq(e, 1, k)) = k
         /\ \A j \in 1..k : SubSeq(e, 1, k)[j] = e[j]
         /\ SubSeq(e, k + 1, Len(e)) \in Seq(W)
         /\ Range(e) = Range(SubSeq(e, 1, k)) \cup Range(SubSeq(e, k + 1, Len(e)))
<1> DEFINE n == Len(e)
           a == SubSeq(e, 1, k)
           b == SubSeq(e, k + 1, n)
<1>1. n \in Nat /\ \A j \in 1..n : e[j] \in W
  BY LenProperties, ElementOfSeq
<1>2. a \in Seq(W) /\ Len(a) = k /\ \A j \in 1..k : a[j] = e[j]
  <2>1. 1 \in Int /\ k \in Int /\ \A j \in 1..k : e[j] \in W
    BY <1>1
  <2>2. /\ a \in Seq(W) /\ Len(a) = IF 1 <= k THEN k - 1 + 1 ELSE 0
        /\ \A j \in 1..(k - 1 + 1) : a[j] = e[1 + j - 1]
    BY <2>1, SubSeqProperties
  <2> HIDE DEF a
  <2> QED
    BY <2>2
<1>3. b \in Seq(W)
  <2>1. k + 1 \in Int /\ n \in Int /\ \A j \in (k + 1)..n : e[j] \in W
    BY <1>1
  <2> QED
    BY <2>1, SubSeqProperties
<1>4. a \o b = e
  <2>1. 1 \in 1..(n + 1) /\ k \in (1 - 1)..n /\ n \in k..n
    BY <1>1
  <2>2. a \o b = SubSeq(e, 1, n)
    BY <2>1, ConcatAdjacentSubSeq
  <2> QED
    BY <2>2, SubSeqFull
<1> HIDE DEF a, b
<1>5. Range(a \o b) = Range(a) \cup Range(b)
  BY <1>2, <1>3, RangeOfConcat
<1> QED
  BY <1>2, <1>3, <1>4, <1>5 DEF a, b, n

LEMMA PrefixIsCut ==
  ASSUME NEW W, NEW d \in Seq(W), NEW e \in Seq(W)
  PROVE  IsPrefix(d, e) <=> Len(d) <= Len(e) /\ d = SubSeq(e, 1, Len(d))
<1>1. SubSeq(d, 1, Len(d)) = d
  BY SubSeqFull
<1> QED
  BY <1>1 DEF IsPrefix

(* Below a directory that is itself not under the skip list: nothing on    *)
(* the way is.                                                             *)
LEMMA BelowIs ==
  ASSUME NEW W, NEW d \in Seq(W), NEW e \in Seq(W), ~Skips(d)
  PROVE  Below(d, e) <=> IsPrefix(d, e) /\ ~Skips(e)
<1> SUFFICES ASSUME IsPrefix(d, e)
             PROVE  ~Skips(SubSeq(e, Len(d) + 1, Len(e))) <=> ~Skips(e)
  BY DEF Below
<1> DEFINE k == Len(d)
<1>1. k \in Nat /\ k <= Len(e) /\ d = SubSeq(e, 1, k)
  BY PrefixIsCut, LenProperties
<1>2. Range(e) = Range(d) \cup Range(SubSeq(e, k + 1, Len(e)))
  <2> HIDE DEF k
  <2> QED
    BY <1>1, Cut
<1> QED
  BY <1>2 DEF Skips

LEMMA SkipsOfAppend ==
  ASSUME NEW W, NEW d \in Seq(W), NEW x \in W
  PROVE  Skips(Append(d, x)) <=> Skips(d) \/ Skips(<<x>>)
<1>1. Range(Append(d, x)) = Range(d) \cup {x}
  BY RangeOfAppend
<1>2. Range(<<x>>) = {x}
  BY DEF Range
<1> QED
  BY <1>1, <1>2 DEF Skips

(* A path and its last name. *)
LEMMA PathEnds ==
  ASSUME NEW W, NEW d \in Seq(W), NEW x \in W
  PROVE  /\ Append(d, x) \in Seq(W) /\ Append(d, x) # <<>>
         /\ Last(Append(d, x)) = x /\ Front(Append(d, x)) = d
<1> DEFINE a == Append(d, x)
           n == Len(d)
<1>1. n \in Nat
  BY LenProperties
<1>2. a \in Seq(W) /\ Len(a) = n + 1 /\ (\A i \in 1..n : a[i] = d[i]) /\ a[n + 1] = x
  BY AppendProperties
<1> HIDE DEF a
<1>3. a # <<>>
  BY <1>1, <1>2
<1>4. Last(a) = a[Len(a)] /\ Front(a) \in Seq(W) /\ Len(Front(a)) = Len(a) - 1
      /\ \A i \in 1..(Len(a) - 1) : Front(a)[i] = a[i]
  BY <1>2, <1>3, FrontAndLast
<1>5. Len(Front(a)) = Len(d) /\ \A i \in 1..Len(Front(a)) : Front(a)[i] = d[i]
  BY <1>1, <1>2, <1>4
<1>6. Front(a) = d
  BY <1>4, <1>5, SeqEqual
<1> QED
  BY <1>2, <1>3, <1>4, <1>6 DEF a

--------------------------------------------------------------------------------
(* What a walk and a scan find. *)
Walked(d, recursive) ==
  {i \in Nodes : IF recursive THEN Below(d, Tree[i].dir) ELSE Tree[i].dir = d /\ is_file(i)}

LEMMA WalkFinds ==
  ASSUME NEW d, NEW recursive
  PROVE  _walk(d, recursive) \in Seq(Nodes) /\ Range(_walk(d, recursive)) = Walked(d, recursive)
<1> DEFINE S == {i \in DOMAIN Tree : IF recursive THEN Below(d, Tree[i].dir) ELSE Tree[i].dir = d /\ is_file(i)}
<1>1. S = Walked(d, recursive) /\ S \subseteq Nodes
  BY TreeFacts DEF Walked
<1>2. _walk(d, recursive) = Among(Numbers, S)
  BY DEF _walk
<1> HIDE DEF S
<1>3. Among(Numbers, S) \in Seq(Nodes) /\ Range(Among(Numbers, S)) = Range(Numbers) \cap S
  BY TreeFacts, AmongKeeps
<1> QED
  BY <1>1, <1>2, <1>3, TreeFacts

LEMMA FilesAtFind ==
  ASSUME NEW d, NEW x
  PROVE  /\ FileAt(d, x) \in Seq(Nodes)
         /\ Range(FileAt(d, x)) = {i \in Nodes : Tree[i].dir = d /\ Tree[i].base = x}
         /\ FileAt(d, x) # <<>> <=> \E i \in Nodes : Tree[i].dir = d /\ Tree[i].base = x
<1> DEFINE S == {i \in DOMAIN Tree : Tree[i].dir = d /\ Tree[i].base = x}
           s == FileAt(d, x)
<1>1. S = {i \in Nodes : Tree[i].dir = d /\ Tree[i].base = x}
  BY TreeFacts
<1>2. s = Among(Numbers, S)
  BY DEF FileAt
<1> HIDE DEF S
<1>3. Among(Numbers, S) \in Seq(Nodes) /\ Range(Among(Numbers, S)) = Range(Numbers) \cap S
  BY TreeFacts, AmongKeeps
<1>4. s \in Seq(Nodes) /\ Range(s) = S
  BY <1>1, <1>2, <1>3, TreeFacts
<1> HIDE DEF s
<1>5. s # <<>> <=> Range(s) # {}
  <2>1. Len(s) \in Nat /\ DOMAIN s = 1..Len(s) /\ (s # <<>> => Len(s) # 0)
    BY <1>4, LenProperties, EmptySeq
  <2>2. Range(<<>>) = {}
    BY DEF Range
  <2>3. s # <<>> => s[1] \in Range(s)
    BY <2>1 DEF Range
  <2> QED
    BY <2>2, <2>3
<1> QED
  BY <1>1, <1>4, <1>5 DEF s

Scanned(d, segment) ==
  {x \in Range(Names) : /\ ~Skips(<<x>>) /\ fnmatchcase(x, segment)
                        /\ \/ Append(d, x) \in Range(Dirs)
                           \/ \E i \in Nodes : Tree[i].dir = d /\ Tree[i].base = x}

LEMMA ScanFinds ==
  ASSUME NEW d, NEW segment
  PROVE  scan(d, segment) \in Seq(Range(Names)) /\ Range(scan(d, segment)) = Scanned(d, segment)
<1> DEFINE S == {x \in Range(Names) : /\ ~Skips(<<x>>) /\ fnmatchcase(x, segment)
                                      /\ Directory(d, x) \/ FileAt(d, x) # <<>>}
<1>1. S = Scanned(d, segment)
  BY FilesAtFind DEF Directory, Scanned
<1>2. scan(d, segment) = Among(Names, S)
  BY DEF scan
<1>3. S \subseteq Range(Names)
  OBVIOUS
<1> HIDE DEF S
<1>4. Among(Names, S) \in Seq(Range(Names)) /\ Range(Among(Names, S)) = Range(Names) \cap S
  BY TreeFacts, AmongKeeps
<1> QED
  BY <1>1, <1>2, <1>3, <1>4

(* The directories one segment further. *)
LEMMA DeeperFinds ==
  ASSUME NEW d \in Range(Dirs), NEW segment
  PROVE  /\ Deeper(d, segment) \in Seq(Range(Dirs))
         /\ segment = "**" => Range(Deeper(d, segment)) = {e \in Range(Dirs) : Below(d, e)}
         /\ segment # "**" => Range(Deeper(d, segment)) =
              {Append(d, x) : x \in {y \in Range(Names) : /\ ~Skips(<<y>>) /\ fnmatchcase(y, segment)
                                                          /\ Append(d, y) \in Range(Dirs)}}
<1>1. CASE segment = "**"
  <2> DEFINE S == {e \in Range(Dirs) : Below(d, e)}
  <2>1. Deeper(d, segment) = Among(Dirs, S)
    BY <1>1 DEF Deeper
  <2>2. S \subseteq Range(Dirs)
    OBVIOUS
  <2> HIDE DEF S
  <2>3. Among(Dirs, S) \in Seq(Range(Dirs)) /\ Range(Among(Dirs, S)) = Range(Dirs) \cap S
    BY TreeFacts, AmongKeeps
  <2>4. Deeper(d, segment) \in Seq(Range(Dirs)) /\ Range(Deeper(d, segment)) = S
    BY <2>1, <2>2, <2>3
  <2> QED
    BY <1>1, <2>4 DEF S
<1>2. CASE segment # "**"
  <2> DEFINE T == {x \in Range(Names) : Directory(d, x)}
             kept == Among(scan(d, segment), T)
             n == Len(kept)
             out == [i \in DOMAIN kept |-> Append(d, kept[i])]
             K == {y \in Range(Names) : /\ ~Skips(<<y>>) /\ fnmatchcase(y, segment)
                                        /\ Append(d, y) \in Range(Dirs)}
  <2>1. Deeper(d, segment) = out
    BY <1>2 DEF Deeper
  <2>2. kept \in Seq(Range(Names)) /\ Range(kept) = K
    <3>1. Scanned(d, segment) \cap T = K
      BY DEF Scanned, Directory
    <3> HIDE DEF T
    <3>2. kept \in Seq(Range(Names)) /\ Range(kept) = Range(scan(d, segment)) \cap T
      BY ScanFinds, AmongKeeps
    <3> QED
      BY <3>1, <3>2, ScanFinds
  <2>3. n \in Nat /\ DOMAIN kept = 1..n
    BY <2>2, LenProperties
  <2>4. \A y \in K : Append(d, y) \in Range(Dirs)
    OBVIOUS
  <2> HIDE DEF kept, n, K
  <2>5. \A i \in 1..n : kept[i] \in K
    BY <2>2, <2>3 DEF Range
  <2>6. out \in [1..n -> Range(Dirs)] /\ DOMAIN out = 1..n /\ \A i \in 1..n : out[i] = Append(d, kept[i])
    BY <2>3, <2>4, <2>5
  <2>7. out \in Seq(Range(Dirs))
    BY <2>3, <2>6, SeqDef
  <2> HIDE DEF out
  <2>8. Range(out) = {Append(d, x) : x \in K}
    <3>1. \A y \in Range(out) : \E i \in 1..n : y = Append(d, kept[i])
      BY <2>6 DEF Range
    <3>2. \A x \in K : \E i \in 1..n : x = kept[i]
      BY <2>2, <2>3 DEF Range
    <3>3. \A i \in 1..n : Append(d, kept[i]) \in Range(out)
      BY <2>6 DEF Range
    <3> QED
      BY <2>5, <3>1, <3>2, <3>3
  <2> QED
    BY <1>2, <2>1, <2>7, <2>8 DEF K
<1> QED
  BY <1>1, <1>2

(* Matching a path, one segment at a time. *)
MatchStep(S, segment, names) ==
  {j \in 0..Len(names) : IF segment = "**" THEN \E k \in 0..j : k \in S
                         ELSE j > 0 /\ fnmatchcase(names[j], segment) /\ j - 1 \in S}

MatchSteps(f, segments, names) ==
  f[0] = {0} /\ \A i \in 1..Len(segments) : f[i] = MatchStep(f[i - 1], segments[i], names)

LEMMA MatchTrace ==
  ASSUME NEW P, NEW segments \in Seq(P), NEW W, NEW names \in Seq(W)
  PROVE  \E f : /\ MatchSteps(f, segments, names)
                /\ Matches(segments, names) <=> Len(names) \in f[Len(segments)]
<1> DEFINE n == Len(segments)
           D == SUBSET (0..Len(names))
           Good(f) == f = [i \in 0..n |-> IF i = 0 THEN {0} ELSE
                             {j \in 0..Len(names) : IF segments[i] = "**" THEN \E k \in 0..j : k \in f[i - 1]
                                                    ELSE j > 0 /\ fnmatchcase(names[j], segments[i]) /\ j - 1 \in f[i - 1]}]
           step == [i \in 1..n |-> [S \in D |-> MatchStep(S, segments[i], names)]]
<1>1. n \in Nat /\ Len(names) \in Nat
  BY LenProperties
<1> HIDE DEF n
<1>2. step \in Steps(n, D) /\ {0} \in D
  <2>1. \A i \in 1..n, S \in D : MatchStep(S, segments[i], names) \in D
    BY DEF MatchStep
  <2>2. {0} \in D
    BY <1>1
  <2> HIDE DEF D
  <2> QED
    BY <2>1, <2>2 DEF Steps
<1> HIDE DEF D
<1>3. PICK g : IsTrace(g, n, D, {0}, step)
  <2> HIDE DEF step
  <2> QED
    BY <1>1, <1>2, Iterate
<1>4. /\ g \in [0..n -> D] /\ g[0] = {0}
      /\ \A i \in 1..n : g[i] = MatchStep(g[i - 1], segments[i], names)
  <2>1. g \in [0..n -> D] /\ g[0] = {0} /\ \A i \in 1..n : g[i] = step[i][g[i - 1]]
    <3> HIDE DEF step
    <3> QED
      BY <1>3 DEF IsTrace
  <2>2. \A i \in 1..n : g[i - 1] \in D
    BY <1>1, <2>1
  <2>3. \A i \in 1..n : step[i][g[i - 1]] = MatchStep(g[i - 1], segments[i], names)
    BY <2>2
  <2> HIDE DEF step
  <2> QED
    BY <2>1, <2>3
<1> HIDE DEF step
<1>5. Good(g)
  <2>1. g = [i \in 0..n |-> g[i]]
    BY <1>4
  <2>2. \A i \in 0..n : i = 0 \/ i \in 1..n
    BY <1>1
  <2>3. \A i \in 0..n : g[i] = IF i = 0 THEN {0} ELSE MatchStep(g[i - 1], segments[i], names)
    BY <1>4, <2>2
  <2> QED
    BY <2>1, <2>3 DEF MatchStep
<1> DEFINE f == CHOOSE h : Good(h)
<1>6. Good(f)
  BY <1>5
<1>7. Matches(segments, names) <=> Len(names) \in f[n]
  BY DEF Matches, n
<1> HIDE DEF f
<1>8. f[0] = {0} /\ \A i \in 1..n : f[i] = MatchStep(f[i - 1], segments[i], names)
  <2>1. 0 \in 0..n /\ \A i \in 1..n : i \in 0..n /\ i # 0
    BY <1>1
  <2> QED
    BY <1>6, <2>1 DEF MatchStep
<1> HIDE DEF Good
<1> QED
  BY <1>7, <1>8 DEF MatchSteps, n

(* A shorter path is matched as far as the longer one: the same segments   *)
(* use the same names.                                                     *)
LEMMA MatchPrefix ==
  ASSUME NEW P, NEW segments \in Seq(P), NEW others \in Seq(P), NEW n \in Nat,
         n <= Len(segments), n <= Len(others), \A i \in 1..n : segments[i] = others[i],
         NEW W, NEW names \in Seq(W), NEW k \in Nat, k <= Len(names),
         NEW f, MatchSteps(f, segments, names), NEW g, MatchSteps(g, others, SubSeq(names, 1, k))
  PROVE  g[n] = f[n] \cap 0..k
<1> DEFINE e == SubSeq(names, 1, k)
           S == {i \in 0..n : g[i] = f[i] \cap 0..k}
<1>1. Len(segments) \in Nat /\ Len(others) \in Nat /\ Len(names) \in Nat
  BY LenProperties
<1>2. Len(e) = k /\ \A j \in 1..k : e[j] = names[j]
  BY Cut
<1>3. f[0] = {0} /\ \A i \in 1..n : f[i] = MatchStep(f[i - 1], segments[i], names)
  BY <1>1 DEF MatchSteps
<1>4. g[0] = {0} /\ \A i \in 1..n : g[i] = MatchStep(g[i - 1], segments[i], e)
  BY <1>1 DEF MatchSteps
<1> HIDE DEF e
<1>5. 0 \in S
  BY <1>3, <1>4
<1>6. ASSUME NEW i \in 1..n, i - 1 \in S PROVE i \in S
  <2> DEFINE F == f[i - 1]
             G == g[i - 1]
             s == segments[i]
  <2>1. G = F \cap 0..k
    BY <1>6
  <2> HIDE DEF F, G, s
  <2>2. MatchStep(G, s, e) = MatchStep(F, s, names) \cap 0..k
    <3>1. \A j \in 0..k : j \in 0..Len(names) /\ j \in 0..Len(e) /\ (j > 0 => j \in 1..k)
      BY <1>1, <1>2
    <3>2. CASE s = "**"
      <4>1. \A j \in 0..k : (\E l \in 0..j : l \in G) <=> (\E l \in 0..j : l \in F)
        BY <2>1
      <4> QED
        BY <1>2, <3>1, <3>2, <4>1 DEF MatchStep
    <3>3. CASE s # "**"
      <4>1. \A j \in 0..k : j > 0 => (j - 1 \in G <=> j - 1 \in F)
        BY <2>1
      <4> QED
        BY <1>2, <3>1, <3>3, <4>1 DEF MatchStep
    <3> QED
      BY <3>2, <3>3
  <2>3. f[i] = MatchStep(F, s, names) /\ g[i] = MatchStep(G, s, e)
    BY <1>3, <1>4 DEF F, G, s
  <2> QED
    BY <2>2, <2>3
<1>7. \A i \in 0..n : i \in S
  <2> HIDE DEF S
  <2> QED
    BY <1>5, <1>6, CountUp
<1> QED
  BY <1>7

(* No segment matches only the empty path. *)
LEMMA MatchesNothing ==
  ASSUME NEW W, NEW names \in Seq(W)
  PROVE  Matches(<<>>, names) <=> names = <<>>
<1>1. PICK f : MatchSteps(f, <<>>, names) /\ (Matches(<<>>, names) <=> Len(names) \in f[Len(<<>>)])
  <2>1. <<>> \in Seq({})
    OBVIOUS
  <2> QED
    BY <2>1, MatchTrace
<1>2. Matches(<<>>, names) <=> Len(names) \in {0}
  BY <1>1 DEF MatchSteps
<1> QED
  BY <1>2, EmptySeq

(* One segment more: `**` takes any rest of the path, a name takes one. *)
LEMMA MatchesOneMore ==
  ASSUME NEW P, NEW s \in Seq(P), NEW segment \in P, NEW W, NEW names \in Seq(W)
  PROVE  Matches(Append(s, segment), names) <=>
           IF segment = "**" THEN \E k \in 0..Len(names) : Matches(s, SubSeq(names, 1, k))
           ELSE names # <<>> /\ fnmatchcase(Last(names), segment) /\ Matches(s, Front(names))
<1> DEFINE t == Append(s, segment)
           n == Len(s)
           m == Len(names)
<1>1. n \in Nat /\ m \in Nat
  BY LenProperties
<1>2. t \in Seq(P) /\ Len(t) = n + 1 /\ (\A i \in 1..n : t[i] = s[i]) /\ t[n + 1] = segment
  BY AppendProperties
<1> HIDE DEF t
<1>3. PICK f : MatchSteps(f, t, names) /\ (Matches(t, names) <=> m \in f[n + 1])
  BY <1>2, MatchTrace
<1>4. ASSUME NEW k \in 0..m PROVE Matches(s, SubSeq(names, 1, k)) <=> k \in f[n]
  <2> DEFINE e == SubSeq(names, 1, k)
  <2>1. k \in Nat /\ k <= Len(names)
    BY <1>1
  <2>2. e \in Seq(W) /\ Len(e) = k
    BY <2>1, Cut
  <2>3. PICK g : MatchSteps(g, s, e) /\ (Matches(s, e) <=> Len(e) \in g[n])
    <3> HIDE DEF e
    <3> QED
      BY <2>2, MatchTrace
  <2>4. n <= Len(t) /\ n <= Len(s)
    BY <1>1, <1>2
  <2>5. g[n] = f[n] \cap 0..k
    <3>1. MatchSteps(f, t, names) /\ MatchSteps(g, s, SubSeq(names, 1, k))
      BY <1>3, <2>3
    <3>2. n \in Nat /\ t \in Seq(P) /\ \A i \in 1..n : t[i] = s[i]
      BY <1>1, <1>2
    <3> HIDE DEF n, m, e
    <3> QED
      BY <2>1, <2>4, <3>1, <3>2, MatchPrefix
  <2>6. k \in 0..k
    BY <2>1
  <2> QED
    BY <2>2, <2>3, <2>5, <2>6
<1>5. f[n + 1] = MatchStep(f[n], segment, names)
  <2> DEFINE l == n + 1
  <2>1. l \in 1..Len(t) /\ l - 1 = n
    BY <1>1, <1>2
  <2> HIDE DEF l
  <2>2. f[l] = MatchStep(f[l - 1], t[l], names)
    BY <1>3, <2>1 DEF MatchSteps
  <2> QED
    BY <1>2, <2>1, <2>2 DEF l
<1>6. CASE segment = "**"
  <2>1. Matches(t, names) <=> \E k \in 0..m : k \in f[n]
    BY <1>1, <1>3, <1>5, <1>6 DEF MatchStep
  <2>2. Matches(t, names) <=> \E k \in 0..m : Matches(s, SubSeq(names, 1, k))
    BY <1>4, <2>1
  <2> QED
    BY <1>6, <2>2 DEF t
<1>7. CASE segment # "**"
  <2>1. Matches(t, names) <=> m > 0 /\ fnmatchcase(names[m], segment) /\ m - 1 \in f[n]
    BY <1>1, <1>3, <1>5, <1>7 DEF MatchStep
  <2>2. names # <<>> <=> m > 0
    BY <1>1, EmptySeq
  <2>3. CASE m > 0
    <3>1. m - 1 \in 0..m /\ Front(names) = SubSeq(names, 1, m - 1) /\ Last(names) = names[m]
      BY <1>1, <2>3 DEF Front, Last
    <3>2. Matches(s, Front(names)) <=> m - 1 \in f[n]
      <4> DEFINE k == m - 1
      <4>1. k \in 0..m /\ Front(names) = SubSeq(names, 1, k)
        BY <3>1
      <4> HIDE DEF k
      <4>2. Matches(s, SubSeq(names, 1, k)) <=> k \in f[n]
        BY <1>4, <4>1
      <4> QED
        BY <4>1, <4>2 DEF k
    <3> QED
      BY <1>7, <2>1, <2>2, <2>3, <3>1, <3>2 DEF t
  <2>4. CASE ~(m > 0)
    BY <1>7, <2>1, <2>2, <2>4 DEF t
  <2> QED
    BY <2>3, <2>4
<1> QED
  BY <1>6, <1>7

--------------------------------------------------------------------------------
(* The directories a pattern's head leads to. *)
Reached(heads) == {d \in Range(Dirs) : ~Skips(d) /\ Matches(heads, d)}

LEMMA ReachedOneMore ==
  ASSUME NEW P, NEW s \in Seq(P), NEW segment \in P
  PROVE  Reached(Append(s, segment)) = UNION {Range(Deeper(d, segment)) : d \in Reached(s)}
<1> DEFINE W == Range(Names)
           R == Reached(s)
<1>1. \A d \in Range(Dirs) : d \in Seq(W)
  BY TreeFacts
<1>2. CASE segment = "**"
  <2>1. ASSUME NEW e \in Range(Dirs) PROVE e \in Reached(Append(s, segment)) <=> \E d \in R : Below(d, e)
    <3>1. e \in Seq(W) /\ Len(e) \in Nat
      BY <1>1, LenProperties
    <3>2. Matches(Append(s, segment), e) <=> \E k \in 0..Len(e) : Matches(s, SubSeq(e, 1, k))
      BY <1>2, <3>1, MatchesOneMore
    <3>3. ASSUME e \in Reached(Append(s, segment)) PROVE \E d \in R : Below(d, e)
      <4>1. PICK k \in 0..Len(e) : Matches(s, SubSeq(e, 1, k))
        BY <3>2, <3>3 DEF Reached
      <4> DEFINE d == SubSeq(e, 1, k)
      <4>2. k \in Nat /\ k <= Len(e) /\ ~Skips(e)
        BY <3>1, <3>3 DEF Reached
      <4>3. d \in Range(Dirs) /\ d \in Seq(W) /\ Len(d) = k /\ Range(d) \subseteq Range(e)
        BY <3>1, <4>2, Cut, TreeFacts
      <4>4. ~Skips(d)
        BY <4>2, <4>3 DEF Skips
      <4>5. IsPrefix(d, e)
        <5>1. Len(d) <= Len(e) /\ d = SubSeq(e, 1, Len(d))
          BY <4>2, <4>3
        <5> HIDE DEF d
        <5> QED
          BY <3>1, <4>3, <5>1, PrefixIsCut
      <4>6. d \in R
        BY <4>1, <4>3, <4>4 DEF Reached
      <4> HIDE DEF d
      <4>7. Below(d, e)
        BY <3>1, <4>2, <4>3, <4>4, <4>5, BelowIs
      <4> QED
        BY <4>6, <4>7
    <3>4. ASSUME NEW d \in R, Below(d, e) PROVE e \in Reached(Append(s, segment))
      <4>1. d \in Seq(W) /\ ~Skips(d) /\ Matches(s, d) /\ Len(d) \in Nat
        BY <1>1, LenProperties DEF Reached
      <4>2. IsPrefix(d, e) /\ ~Skips(e)
        BY <3>1, <3>4, <4>1, BelowIs
      <4>3. Len(d) <= Len(e) /\ d = SubSeq(e, 1, Len(d))
        BY <3>1, <4>1, <4>2, PrefixIsCut
      <4>4. Len(d) \in 0..Len(e)
        BY <3>1, <4>1, <4>3
      <4>5. Matches(s, SubSeq(e, 1, Len(d)))
        BY <4>1, <4>3
      <4> QED
        BY <3>2, <4>2, <4>4, <4>5 DEF Reached
    <3> QED
      BY <3>3, <3>4
  <2>2. ASSUME NEW d \in R PROVE Range(Deeper(d, segment)) = {e \in Range(Dirs) : Below(d, e)}
    <3>1. d \in Range(Dirs)
      BY DEF Reached
    <3> QED
      BY <1>2, <3>1, DeeperFinds
  <2>3. Reached(Append(s, segment)) \subseteq Range(Dirs)
    BY DEF Reached
  <2> HIDE DEF R
  <2>4. \A e : e \in Reached(Append(s, segment)) <=> \E d \in R : e \in Range(Deeper(d, segment))
    BY <2>1, <2>2, <2>3
  <2> QED
    BY <2>4 DEF R
<1>3. CASE segment # "**"
  <2> DEFINE K(d) == {y \in W : /\ ~Skips(<<y>>) /\ fnmatchcase(y, segment) /\ Append(d, y) \in Range(Dirs)}
  <2>1. ASSUME NEW d \in R PROVE Range(Deeper(d, segment)) = {Append(d, x) : x \in K(d)}
    <3>1. d \in Range(Dirs)
      BY DEF Reached
    <3> QED
      BY <1>3, <3>1, DeeperFinds
  <2>2. ASSUME NEW e \in Reached(Append(s, segment))
        PROVE  \E d \in R : \E x \in K(d) : e = Append(d, x)
    <3>1. e \in Range(Dirs) /\ e \in Seq(W) /\ ~Skips(e) /\ Len(e) \in Nat
      BY <1>1, LenProperties DEF Reached
    <3>2. e # <<>> /\ fnmatchcase(Last(e), segment) /\ Matches(s, Front(e))
      BY <1>3, <2>2, <3>1, MatchesOneMore DEF Reached
    <3> DEFINE d == Front(e)
               x == Last(e)
    <3>3. d \in Seq(W) /\ x \in W /\ e = Append(d, x) /\ Len(e) # 0
      BY <3>1, <3>2, FrontAndLast
    <3>4. d = SubSeq(e, 1, Len(e) - 1) /\ Len(e) - 1 \in Nat /\ Len(e) - 1 <= Len(e)
      BY <3>1, <3>3 DEF Front
    <3>5. d \in Range(Dirs)
      <4> DEFINE k == Len(e) - 1
      <4>1. k \in Nat /\ k <= Len(e) /\ d = SubSeq(e, 1, k)
        BY <3>4
      <4> HIDE DEF k, d
      <4> QED
        BY <3>1, <4>1, TreeFacts
    <3> HIDE DEF d, x
    <3>6. ~Skips(d) /\ ~Skips(<<x>>)
      BY <3>1, <3>3, SkipsOfAppend
    <3>7. d \in R /\ x \in K(d)
      BY <3>1, <3>2, <3>3, <3>5, <3>6 DEF Reached, d, x
    <3> QED
      BY <3>3, <3>7
  <2>3. ASSUME NEW d \in R, NEW x \in K(d) PROVE Append(d, x) \in Reached(Append(s, segment))
    <3>1. d \in Seq(W) /\ ~Skips(d) /\ Matches(s, d) /\ x \in W /\ ~Skips(<<x>>) /\ fnmatchcase(x, segment)
          /\ Append(d, x) \in Range(Dirs)
      BY <1>1 DEF Reached
    <3> DEFINE e == Append(d, x)
    <3>2. e \in Seq(W) /\ e # <<>> /\ Last(e) = x /\ Front(e) = d
      BY <3>1, PathEnds
    <3>3. ~Skips(e)
      BY <3>1, SkipsOfAppend
    <3>4. e \in Range(Dirs)
      BY <3>1
    <3> HIDE DEF e
    <3>5. Matches(Append(s, segment), e)
      BY <1>3, <3>1, <3>2, MatchesOneMore
    <3>6. e \in Reached(Append(s, segment))
      BY <3>3, <3>4, <3>5 DEF Reached
    <3> QED
      BY <3>6 DEF e
  <2> HIDE DEF R, K
  <2>4. \A e : e \in Reached(Append(s, segment)) <=> \E d \in R : e \in Range(Deeper(d, segment))
    <3>1. ASSUME NEW e \in Reached(Append(s, segment)) PROVE \E d \in R : e \in Range(Deeper(d, segment))
      <4>1. PICK d \in R : \E x \in K(d) : e = Append(d, x)
        BY <2>2
      <4>2. e \in {Append(d, x) : x \in K(d)}
        BY <4>1
      <4> QED
        BY <2>1, <4>2
    <3>2. ASSUME NEW d \in R, NEW e \in Range(Deeper(d, segment)) PROVE e \in Reached(Append(s, segment))
      <4>1. e \in {Append(d, x) : x \in K(d)}
        BY <2>1
      <4>2. PICK x \in K(d) : e = Append(d, x)
        BY <4>1
      <4> QED
        BY <2>3, <4>2
    <3> QED
      BY <3>1, <3>2
  <2> QED
    BY <2>4 DEF R
<1> QED
  BY <1>2, <1>3

(* One level of _glob_files. *)
Level(x, segment) == FlattenSeq([k \in DOMAIN x |-> Deeper(x[k], segment)])

LEMMA LevelFinds ==
  ASSUME NEW x \in Seq(Range(Dirs)), NEW segment
  PROVE  /\ Level(x, segment) \in Seq(Range(Dirs))
         /\ Range(Level(x, segment)) = UNION {Range(Deeper(d, segment)) : d \in Range(x)}
<1> DEFINE S == Range(Dirs)
           F == [d \in S |-> Deeper(d, segment)]
<1>1. F \in [S -> Seq(S)] /\ \A d \in S : F[d] = Deeper(d, segment)
  BY DeeperFinds
<1>2. DOMAIN x = 1..Len(x) /\ \A k \in 1..Len(x) : x[k] \in S
  BY LenProperties, ElementOfSeq
<1> HIDE DEF F, S
<1>3. x \in Seq(S)
  BY DEF S
<1>4. [k \in DOMAIN x |-> Deeper(x[k], segment)] = [k \in DOMAIN x |-> F[x[k]]]
  BY <1>1, <1>2
<1> DEFINE y == [k \in DOMAIN x |-> F[x[k]]]
<1>5. Level(x, segment) = FlattenSeq(y)
  BY <1>4 DEF Level
<1>6. Mapped(y, x, F, S, S)
  BY <1>1, <1>2 DEF Mapped
<1> HIDE DEF y
<1>7. FlattenSeq(y) \in Seq(S) /\ \A z : z \in Range(FlattenSeq(y)) <=> \E d \in Range(x) : z \in Range(F[d])
  BY <1>3, <1>6, FlatMap
<1>8. \A d \in Range(x) : F[d] = Deeper(d, segment)
  BY <1>1, <1>2 DEF Range
<1>9. \A z : z \in Range(Level(x, segment)) <=> \E d \in Range(x) : z \in Range(Deeper(d, segment))
  BY <1>5, <1>7, <1>8
<1> QED
  BY <1>5, <1>7, <1>9 DEF S

LEMMA FrontierFinds ==
  ASSUME NEW P, NEW heads \in Seq(P)
  PROVE  Frontier(heads) \in Seq(Range(Dirs)) /\ Range(Frontier(heads)) = Reached(heads)
<1> DEFINE n == Len(heads)
           D == Seq(Range(Dirs))
           Good(f) == f = [i \in 0..n |-> IF i = 0 THEN << <<>> >> ELSE
                             FlattenSeq([k \in DOMAIN f[i - 1] |-> Deeper(f[i - 1][k], heads[i])])]
           step == [i \in 1..n |-> [x \in D |-> Level(x, heads[i])]]
<1>1. n \in Nat /\ \A i \in 1..n : heads[i] \in P
  BY LenProperties, ElementOfSeq
<1>2. step \in Steps(n, D) /\ << <<>> >> \in D
  <2>1. \A i \in 1..n, x \in D : Level(x, heads[i]) \in D
    BY LevelFinds
  <2>2. << <<>> >> \in D
    BY TreeFacts
  <2> HIDE DEF D
  <2> QED
    BY <2>1, <2>2 DEF Steps
<1> HIDE DEF D, n
<1>3. PICK g : IsTrace(g, n, D, << <<>> >>, step)
  <2> HIDE DEF step
  <2> QED
    BY <1>1, <1>2, Iterate
<1>4. g \in [0..n -> D] /\ g[0] = << <<>> >> /\ \A i \in 1..n : g[i] = Level(g[i - 1], heads[i])
  <2>1. g \in [0..n -> D] /\ g[0] = << <<>> >> /\ \A i \in 1..n : g[i] = step[i][g[i - 1]]
    <3> HIDE DEF step
    <3> QED
      BY <1>3 DEF IsTrace
  <2>2. \A i \in 1..n : g[i - 1] \in D
    BY <1>1, <2>1
  <2>3. \A i \in 1..n : step[i][g[i - 1]] = Level(g[i - 1], heads[i])
    BY <2>2
  <2> HIDE DEF step
  <2> QED
    BY <2>1, <2>3
<1> HIDE DEF step
<1>5. Good(g)
  <2>1. g = [i \in 0..n |-> g[i]]
    BY <1>4
  <2>2. \A i \in 0..n : i = 0 \/ i \in 1..n
    BY <1>1
  <2>3. \A i \in 0..n : g[i] = IF i = 0 THEN << <<>> >> ELSE Level(g[i - 1], heads[i])
    BY <1>4, <2>2
  <2> QED
    BY <2>1, <2>3 DEF Level
<1> DEFINE f == CHOOSE h : Good(h)
<1>6. Good(f)
  BY <1>5
<1>7. Frontier(heads) = f[n]
  BY DEF Frontier, n
<1> HIDE DEF f
<1>8. f[0] = << <<>> >> /\ \A i \in 1..n : f[i] = Level(f[i - 1], heads[i])
  <2>1. 0 \in 0..n /\ \A i \in 1..n : i \in 0..n /\ i # 0
    BY <1>1
  <2> QED
    BY <1>6, <2>1 DEF Level
<1> HIDE DEF Good
<1> DEFINE S == {i \in 0..n : f[i] \in D /\ Range(f[i]) = Reached(SubSeq(heads, 1, i))}
<1>9. 0 \in S
  <2>1. SubSeq(heads, 1, 0) = <<>>
    BY SubSeqEmpty
  <2>2. Range(<< <<>> >>) = {<<>>}
    BY DEF Range
  <2>3. Reached(<<>>) = {<<>>}
    <3>1. ~Skips(<<>>) /\ <<>> \in Range(Dirs)
      BY TreeFacts DEF Skips, Range
    <3>2. \A d \in Range(Dirs) : Matches(<<>>, d) <=> d = <<>>
      BY TreeFacts, MatchesNothing
    <3> QED
      BY <3>1, <3>2 DEF Reached
  <2> QED
    <3>1. f[0] \in D /\ 0 \in 0..n
      BY <1>1, <1>2, <1>8
    <3>2. Range(f[0]) = Reached(SubSeq(heads, 1, 0))
      BY <1>8, <2>1, <2>2, <2>3
    <3> QED
      BY <3>1, <3>2
<1>10. ASSUME NEW i \in 1..n, i - 1 \in S PROVE i \in S
  <2> DEFINE s == SubSeq(heads, 1, i - 1)
             x == f[i - 1]
  <2>1. x \in D /\ Range(x) = Reached(s) /\ i \in 0..n /\ f[i] = Level(x, heads[i]) /\ heads[i] \in P
    BY <1>1, <1>8, <1>10
  <2>2. s \in Seq(P) /\ SubSeq(heads, 1, i) = Append(s, heads[i])
    <3> DEFINE l == i - 1
    <3>1. 1 \in Nat \ {0} /\ l \in Nat /\ 1 <= l + 1 /\ l + 1 <= Len(heads) /\ l + 1 = i
      BY <1>1 DEF n
    <3> HIDE DEF l
    <3>2. OneMore(heads, 1, l, P)
      BY <3>1, SubSeqGrows
    <3> QED
      BY <3>1, <3>2 DEF OneMore, l
  <2> HIDE DEF s, x
  <2>3. f[i] \in D /\ Range(f[i]) = UNION {Range(Deeper(d, heads[i])) : d \in Reached(s)}
    <3>1. x \in Seq(Range(Dirs))
      BY <2>1 DEF D
    <3>2. /\ Level(x, heads[i]) \in Seq(Range(Dirs))
          /\ Range(Level(x, heads[i])) = UNION {Range(Deeper(d, heads[i])) : d \in Range(x)}
      BY <3>1, LevelFinds
    <3> QED
      BY <2>1, <3>2 DEF D
  <2>4. Reached(Append(s, heads[i])) = UNION {Range(Deeper(d, heads[i])) : d \in Reached(s)}
    BY <2>1, <2>2, ReachedOneMore
  <2> QED
    BY <2>1, <2>2, <2>3, <2>4
<1>11. n \in S
  <2> HIDE DEF S
  <2>1. \A i \in 0..n : i \in S
    BY <1>1, <1>9, <1>10, CountUp
  <2> QED
    BY <1>1, <2>1
<1>12. SubSeq(heads, 1, n) = heads
  BY SubSeqFull DEF n
<1> QED
  BY <1>7, <1>11, <1>12 DEF D

(* What _glob_files gives for one directory of the frontier. *)
Regulars == {i \in DOMAIN Tree : is_file(i)}
Matched(tail, d) == IF tail = "**" THEN _walk(d, TRUE) ELSE scan(d, tail)
Expanded(d, x, recursive) ==
  IF Directory(d, x) THEN _walk(Append(d, x), recursive) ELSE Among(FileAt(d, x), Regulars)
FilesIn(tail, d, recursive) ==
  IF tail = "**" THEN Among(Matched(tail, d), Regulars)
  ELSE FlattenSeq([k \in DOMAIN Matched(tail, d) |-> Expanded(d, Matched(tail, d)[k], recursive)])

LEMMA GlobParts ==
  ASSUME NEW segments, NEW recursive
  PROVE  LET frontier == Frontier(Front(segments))
             tail == Last(segments)
         IN  /\ _glob_files(segments, recursive).any <=> \E d \in Range(frontier) : Matched(tail, d) # <<>>
             /\ _glob_files(segments, recursive).files =
                  FlattenSeq([k \in DOMAIN frontier |-> FilesIn(tail, frontier[k], recursive)])
  BY DEF _glob_files, Matched, Expanded, FilesIn, Regulars

LEMMA ExpandedFinds ==
  ASSUME NEW d, NEW x, NEW recursive
  PROVE  /\ Expanded(d, x, recursive) \in Seq(Nodes)
         /\ Range(Expanded(d, x, recursive)) =
              IF Append(d, x) \in Range(Dirs) THEN Walked(Append(d, x), recursive)
              ELSE {i \in Nodes : Tree[i].dir = d /\ Tree[i].base = x /\ is_file(i)}
<1>1. CASE Append(d, x) \in Range(Dirs)
  BY <1>1, WalkFinds DEF Expanded, Directory
<1>2. CASE Append(d, x) \notin Range(Dirs)
  <2>1. Expanded(d, x, recursive) = Among(FileAt(d, x), Regulars)
    BY <1>2 DEF Expanded, Directory
  <2>2. FileAt(d, x) \in Seq(Nodes) /\ Range(FileAt(d, x)) = {i \in Nodes : Tree[i].dir = d /\ Tree[i].base = x}
    BY FilesAtFind
  <2>3. Among(FileAt(d, x), Regulars) \in Seq(Nodes) /\ Range(Among(FileAt(d, x), Regulars)) = Range(FileAt(d, x)) \cap Regulars
    BY <2>2, AmongKeeps
  <2>4. Regulars = {i \in Nodes : is_file(i)}
    BY TreeFacts DEF Regulars
  <2>5. {i \in Nodes : Tree[i].dir = d /\ Tree[i].base = x} \cap {i \in Nodes : is_file(i)} =
          {i \in Nodes : Tree[i].dir = d /\ Tree[i].base = x /\ is_file(i)}
    OBVIOUS
  <2> QED
    BY <1>2, <2>1, <2>2, <2>3, <2>4, <2>5
<1> QED
  BY <1>1, <1>2

LEMMA FilesInFind ==
  ASSUME NEW tail, NEW d, NEW recursive
  PROVE  /\ FilesIn(tail, d, recursive) \in Seq(Nodes)
         /\ tail = "**" => Range(FilesIn(tail, d, recursive)) = {i \in Nodes : Below(d, Tree[i].dir) /\ is_file(i)}
         /\ tail # "**" => Range(FilesIn(tail, d, recursive)) =
                             UNION {Range(Expanded(d, x, recursive)) : x \in Scanned(d, tail)}
         /\ Matched(tail, d) = <<>> => Range(FilesIn(tail, d, recursive)) = {}
<1>0. Range(<<>>) = {}
  BY DEF Range
<1>1. CASE tail = "**"
  <2> DEFINE s == _walk(d, TRUE)
  <2>1. FilesIn(tail, d, recursive) = Among(s, Regulars) /\ Matched(tail, d) = s
    BY <1>1 DEF FilesIn, Matched
  <2>2. s \in Seq(Nodes) /\ Range(s) = {i \in Nodes : Below(d, Tree[i].dir)}
    <3>1. s \in Seq(Nodes) /\ Range(s) = Walked(d, TRUE)
      BY WalkFinds
    <3> QED
      BY <3>1 DEF Walked
  <2> HIDE DEF s
  <2>3. Among(s, Regulars) \in Seq(Nodes) /\ Range(Among(s, Regulars)) = Range(s) \cap Regulars
    BY <2>2, AmongKeeps
  <2>4. Regulars = {i \in Nodes : is_file(i)}
    BY TreeFacts DEF Regulars
  <2>5. {i \in Nodes : Below(d, Tree[i].dir)} \cap {i \in Nodes : is_file(i)} =
          {i \in Nodes : Below(d, Tree[i].dir) /\ is_file(i)}
    OBVIOUS
  <2>6. s = <<>> => Range(s) \cap Regulars = {}
    BY <1>0
  <2> QED
    BY <1>1, <2>1, <2>2, <2>3, <2>4, <2>5, <2>6
<1>2. CASE tail # "**"
  <2> DEFINE S == Range(Names)
             s == scan(d, tail)
             F == [x \in S |-> Expanded(d, x, recursive)]
  <2>1. F \in [S -> Seq(Nodes)] /\ \A x \in S : F[x] = Expanded(d, x, recursive)
    BY ExpandedFinds
  <2>2. s \in Seq(S) /\ Range(s) = Scanned(d, tail)
    BY ScanFinds
  <2>3. DOMAIN s = 1..Len(s) /\ \A k \in 1..Len(s) : s[k] \in S
    BY <2>2, LenProperties, ElementOfSeq
  <2>4. FilesIn(tail, d, recursive) = FlattenSeq([k \in DOMAIN s |-> Expanded(d, s[k], recursive)]) /\ Matched(tail, d) = s
    BY <1>2 DEF FilesIn, Matched
  <2> HIDE DEF S, s, F
  <2>6. /\ FilesIn(tail, d, recursive) \in Seq(Nodes)
        /\ \A z : z \in Range(FilesIn(tail, d, recursive)) <=> \E x \in Range(s) : z \in Range(F[x])
    <3> DEFINE y == [k \in DOMAIN s |-> Expanded(d, s[k], recursive)]
    <3>1. Mapped(y, s, F, S, Nodes)
      BY <2>1, <2>3 DEF Mapped
    <3>3. FilesIn(tail, d, recursive) = FlattenSeq(y)
      BY <2>4
    <3> HIDE DEF y
    <3>2. FlattenSeq(y) \in Seq(Nodes) /\ \A z : z \in Range(FlattenSeq(y)) <=> \E x \in Range(s) : z \in Range(F[x])
      BY <2>2, <3>1, FlatMap
    <3> QED
      BY <3>2, <3>3
  <2>7. \A x \in Range(s) : F[x] = Expanded(d, x, recursive)
    BY <2>1, <2>3 DEF Range
  <2>8. \A z : z \in Range(FilesIn(tail, d, recursive)) <=> \E x \in Scanned(d, tail) : z \in Range(Expanded(d, x, recursive))
    BY <2>2, <2>6, <2>7
  <2>9. s = <<>> => Range(FilesIn(tail, d, recursive)) = {}
    BY <1>0, <2>6
  <2>10. Range(FilesIn(tail, d, recursive)) = UNION {Range(Expanded(d, x, recursive)) : x \in Scanned(d, tail)}
    BY <2>8
  <2> QED
    BY <1>2, <2>4, <2>6, <2>9, <2>10
<1> QED
  BY <1>1, <1>2

--------------------------------------------------------------------------------
(* A glob finds the files it stands for, and no others. *)
LEMMA GlobFinds ==
  ASSUME NEW e, e.what = "glob", e.inside, List(e.parts), e.parts # <<>>, NEW recursive \in BOOLEAN
  PROVE  LET found == _glob_files(e.parts, recursive)
         IN  /\ found.files \in Seq(Nodes)
             /\ Range(found.files) = {i \in Nodes : StandsFor(e, i, recursive)}
             /\ ~found.any => Range(found.files) = {}
<1> DEFINE s == e.parts
           P == Range(s)
           W == Range(Names)
           heads == Front(s)
           tail == Last(s)
           R == Reached(heads)
           x == Frontier(heads)
           files == _glob_files(s, recursive).files
           FI == [d \in Range(Dirs) |-> FilesIn(tail, d, recursive)]
<1>1. s \in Seq(P)
  BY ListIsSeq
<1>2. heads \in Seq(P) /\ tail \in P /\ s = Append(heads, tail)
  BY <1>1, FrontAndLast
<1>3. x \in Seq(Range(Dirs)) /\ Range(x) = R
  BY <1>2, FrontierFinds
<1>4. files = FlattenSeq([k \in DOMAIN x |-> FilesIn(tail, x[k], recursive)])
  BY GlobParts
<1>5. _glob_files(s, recursive).any <=> \E d \in R : Matched(tail, d) # <<>>
  BY <1>3, GlobParts
<1>6. FI \in [Range(Dirs) -> Seq(Nodes)] /\ \A d \in Range(Dirs) : FI[d] = FilesIn(tail, d, recursive)
  BY FilesInFind
<1>7. DOMAIN x = 1..Len(x) /\ \A k \in 1..Len(x) : x[k] \in Range(Dirs)
  BY <1>3, LenProperties, ElementOfSeq
<1> HIDE DEF s, P, heads, tail, R, x, files, FI
<1>9. files \in Seq(Nodes) /\ \A z : z \in Range(files) <=> \E d \in R : z \in Range(FI[d])
  <2> DEFINE y == [k \in DOMAIN x |-> FilesIn(tail, x[k], recursive)]
  <2>1. Mapped(y, x, FI, Range(Dirs), Nodes)
    BY <1>6, <1>7 DEF Mapped
  <2>3. files = FlattenSeq(y)
    BY <1>4
  <2> HIDE DEF y
  <2>2. FlattenSeq(y) \in Seq(Nodes) /\ \A z : z \in Range(FlattenSeq(y)) <=> \E d \in Range(x) : z \in Range(FI[d])
    BY <1>3, <2>1, FlatMap
  <2> QED
    BY <1>3, <2>2, <2>3
<1>10. \A d \in R : d \in Range(Dirs) /\ d \in Seq(W) /\ ~Skips(d) /\ Matches(heads, d)
  BY TreeFacts DEF R, Reached
<1>11. \A i : i \in Range(files) <=> \E d \in R : i \in Range(FilesIn(tail, d, recursive))
  BY <1>6, <1>9, <1>10
<1>12. ~_glob_files(s, recursive).any => Range(files) = {}
  BY <1>5, <1>11, FilesInFind
<1>13. CASE tail = "**"
  <2>1. ASSUME NEW i \in Nodes
        PROVE  i \in Range(files) <=> Matches(s, Tree[i].dir) /\ is_file(i) /\ ~Skips(Tree[i].dir)
    <3> DEFINE f == Tree[i].dir
    <3>1. f \in Range(Dirs) /\ f \in Seq(W)
      BY TreeFacts
    <3>2. i \in Range(files) <=> is_file(i) /\ \E d \in R : Below(d, f)
      BY <1>11, <1>13, FilesInFind
    <3> HIDE DEF f
    <3>3. Reached(s) = UNION {Range(Deeper(d, tail)) : d \in R}
      BY <1>2, ReachedOneMore DEF R
    <3>4. \A d \in R : Range(Deeper(d, tail)) = {g \in Range(Dirs) : Below(d, g)}
      BY <1>10, <1>13, DeeperFinds
    <3>5. f \in Reached(s) <=> \E d \in R : Below(d, f)
      BY <3>1, <3>3, <3>4
    <3>6. f \in Reached(s) <=> Matches(s, f) /\ ~Skips(f)
      BY <3>1 DEF Reached
    <3> QED
      BY <3>2, <3>5, <3>6 DEF f
  <2>2. \A i \in Nodes : StandsFor(e, i, recursive) <=> Matches(s, Tree[i].dir) /\ is_file(i) /\ ~Skips(Tree[i].dir)
    BY <1>13 DEF StandsFor, s, tail
  <2>3. Range(files) \subseteq Nodes
    <3>1. DOMAIN files = 1..Len(files) /\ \A k \in 1..Len(files) : files[k] \in Nodes
      BY <1>9, LenProperties, ElementOfSeq
    <3> QED
      BY <3>1 DEF Range
  <2>4. Range(files) = {i \in Nodes : StandsFor(e, i, recursive)}
    BY <2>1, <2>2, <2>3
  <2> QED
    BY <1>9, <1>12, <2>4 DEF files, s
<1>14. CASE tail # "**"
  <2> DEFINE under(d, i) == IF recursive THEN IsPrefix(d, Tree[i].dir) ELSE Tree[i].dir = d /\ is_file(i)
             path(i) == Append(Tree[i].dir, Tree[i].base)
             Direct(i) == Matches(s, path(i)) /\ is_file(i) /\ ~Skips(path(i))
             Through(i) == \E d \in Range(Dirs) : Matches(s, d) /\ under(d, i) /\ ~Skips(Tree[i].dir)
  <2>1. \A i \in Nodes : StandsFor(e, i, recursive) <=> Direct(i) \/ Through(i)
    BY <1>14 DEF StandsFor, s, tail
  <2>2. \A i : i \in Range(files) <=> \E d \in R : \E y \in Scanned(d, tail) : i \in Range(Expanded(d, y, recursive))
    BY <1>11, <1>14, FilesInFind
  <2>3. ASSUME NEW i \in Nodes, Direct(i) PROVE i \in Range(files)
    <3> DEFINE d == Tree[i].dir
               y == Tree[i].base
    <3>1. d \in Range(Dirs) /\ d \in Seq(W) /\ y \in W /\ Append(d, y) \notin Range(Dirs)
      BY TreeFacts
    <3>2. Append(d, y) \in Seq(W) /\ Last(Append(d, y)) = y /\ Front(Append(d, y)) = d
      BY <3>1, PathEnds
    <3>3. Matches(s, Append(d, y)) /\ is_file(i) /\ ~Skips(Append(d, y))
      BY <2>3
    <3> HIDE DEF d, y
    <3>4. fnmatchcase(y, tail) /\ Matches(heads, d)
      <4> DEFINE g == Append(d, y)
      <4>1. g \in Seq(W) /\ Last(g) = y /\ Front(g) = d /\ Matches(Append(heads, tail), g)
        BY <1>2, <3>2, <3>3
      <4> HIDE DEF g, W
      <4>2. fnmatchcase(Last(g), tail) /\ Matches(heads, Front(g))
        BY <1>2, <1>14, <4>1, MatchesOneMore
      <4> QED
        BY <4>1, <4>2
    <3>5. ~Skips(d) /\ ~Skips(<<y>>)
      BY <3>1, <3>3, SkipsOfAppend
    <3>6. d \in R
      BY <3>1, <3>4, <3>5 DEF R, Reached
    <3>7. y \in Scanned(d, tail)
      BY <3>1, <3>4, <3>5 DEF Scanned, d, y
    <3>8. i \in Range(Expanded(d, y, recursive))
      BY <3>1, <3>3, ExpandedFinds DEF d, y
    <3> QED
      BY <2>2, <3>6, <3>7, <3>8
  <2>4. ASSUME NEW i \in Nodes, Through(i) PROVE i \in Range(files)
    <3>1. PICK g \in Range(Dirs) : Matches(s, g) /\ under(g, i) /\ ~Skips(Tree[i].dir)
      BY <2>4
    <3> DEFINE f == Tree[i].dir
    <3>2. f \in Seq(W) /\ g \in Seq(W)
      BY TreeFacts
    <3>3. ~Skips(g) /\ i \in Walked(g, recursive)
      <4>1. CASE recursive
        <5>1. IsPrefix(g, f)
          BY <3>1, <4>1
        <5>2. Len(g) <= Len(f) /\ g = SubSeq(f, 1, Len(g)) /\ Len(g) \in Nat
          BY <3>2, <5>1, PrefixIsCut, LenProperties
        <5>3. Range(g) \subseteq Range(f)
          <6> DEFINE k == Len(g)
          <6>1. k \in Nat /\ k <= Len(f) /\ g = SubSeq(f, 1, k)
            BY <5>2
          <6> HIDE DEF k, f
          <6> QED
            BY <3>2, <6>1, Cut
        <5>4. ~Skips(g)
          BY <3>1, <5>3 DEF Skips
        <5>5. Below(g, f)
          <6> HIDE DEF f
          <6> QED
            BY <3>1, <3>2, <5>1, <5>4, BelowIs DEF f
        <5> QED
          BY <4>1, <5>4, <5>5 DEF Walked
      <4>2. CASE ~recursive
        BY <3>1, <4>2 DEF Walked
      <4> QED
        BY <4>1, <4>2
    <3>4. g \in Reached(s)
      BY <3>1, <3>3 DEF Reached
    <3>5. PICK d \in R : g \in Range(Deeper(d, tail))
      <4>1. Reached(s) = UNION {Range(Deeper(d, tail)) : d \in R}
        BY <1>2, ReachedOneMore DEF R
      <4> QED
        BY <3>4, <4>1
    <3> DEFINE K == {y \in W : /\ ~Skips(<<y>>) /\ fnmatchcase(y, tail) /\ Append(d, y) \in Range(Dirs)}
    <3>6. Range(Deeper(d, tail)) = {Append(d, y) : y \in K}
      BY <1>10, <1>14, DeeperFinds
    <3>7. PICK y \in K : g = Append(d, y)
      BY <3>5, <3>6
    <3>8. y \in Scanned(d, tail) /\ Append(d, y) \in Range(Dirs)
      BY DEF Scanned
    <3>9. i \in Range(Expanded(d, y, recursive))
      BY <3>3, <3>7, <3>8, ExpandedFinds
    <3> QED
      BY <2>2, <3>8, <3>9
  <2>5. ASSUME NEW i \in Range(files) PROVE i \in Nodes /\ (Direct(i) \/ Through(i))
    <3>0. PICK d \in R : \E y \in Scanned(d, tail) : i \in Range(Expanded(d, y, recursive))
      BY <2>2
    <3>1. PICK y \in Scanned(d, tail) : i \in Range(Expanded(d, y, recursive))
      BY <3>0
    <3>2. d \in Range(Dirs) /\ d \in Seq(W) /\ ~Skips(d) /\ Matches(heads, d)
      BY <1>10
    <3>3. y \in W /\ ~Skips(<<y>>) /\ fnmatchcase(y, tail)
      BY <3>1 DEF Scanned
    <3> DEFINE g == Append(d, y)
    <3>4. g \in Seq(W) /\ g # <<>> /\ Last(g) = y /\ Front(g) = d
      BY <3>2, <3>3, PathEnds
    <3>5. ~Skips(g)
      BY <3>2, <3>3, SkipsOfAppend
    <3>6. Range(Expanded(d, y, recursive)) = IF g \in Range(Dirs) THEN Walked(g, recursive)
              ELSE {j \in Nodes : Tree[j].dir = d /\ Tree[j].base = y /\ is_file(j)}
      BY ExpandedFinds
    <3> HIDE DEF g
    <3>7. Matches(s, g)
      BY <1>2, <1>14, <3>2, <3>3, <3>4, MatchesOneMore
    <3>8. CASE g \in Range(Dirs)
      <4>1. i \in Walked(g, recursive)
        BY <3>1, <3>6, <3>8
      <4>2. i \in Nodes /\ (recursive => Below(g, Tree[i].dir)) /\ (~recursive => Tree[i].dir = g /\ is_file(i))
        BY <4>1 DEF Walked
      <4>3. Tree[i].dir \in Seq(W)
        BY <4>2, TreeFacts
      <4>4. recursive => IsPrefix(g, Tree[i].dir) /\ ~Skips(Tree[i].dir)
        BY <3>4, <3>5, <4>2, <4>3, BelowIs
      <4> QED
        BY <3>5, <3>7, <3>8, <4>2, <4>4
    <3>9. CASE g \notin Range(Dirs)
      <4>1. i \in Nodes /\ Tree[i].dir = d /\ Tree[i].base = y /\ is_file(i)
        BY <3>1, <3>6, <3>9
      <4> QED
        BY <3>5, <3>7, <4>1 DEF g
    <3> QED
      BY <3>8, <3>9
  <2>6. Range(files) = {i \in Nodes : StandsFor(e, i, recursive)}
    <3> HIDE DEF Direct, Through
    <3> QED
      BY <2>1, <2>3, <2>4, <2>5
  <2> QED
    BY <1>9, <1>12, <2>6 DEF files, s
<1> QED
  BY <1>13, <1>14

(* A plan, while paths are expanded. *)
Reasons == {"outside_scope", "not_found", "skipped_directory", "empty"}
             \cup {_SKIP_REASONS[read_state(Tree[r].file)] : r \in Nat}
Candidates == [at : Nodes, real : Nat]
SkipRows == [path : Int, reason : Reasons]
Plans == [candidates : Seq(Candidates), skipped : Seq(SkipRows), more : Seq(Reasons), unexpanded : Nat, full : BOOLEAN]

Reals(p) == {c.real : c \in Range(p.candidates)}
RowPaths(p) == {r.path : r \in Range(p.skipped)}
Told(p, path) == path \in RowPaths(p) \/ p.more # <<>>

Bounded(p) == Len(p.skipped) <= Caps.skip_rows /\ (p.more # <<>> => Len(p.skipped) = Caps.skip_rows)
TakenOnce(p) == \A j, k \in 1..Len(p.candidates) : p.candidates[j].real = p.candidates[k].real => j = k
Resolved(p) == \A c \in Range(p.candidates) : c.real = Tree[c.at].real /\ c.real # 0
SoundPlans == {p \in Plans : Bounded(p) /\ TakenOnce(p) /\ Resolved(p)}

(* What the rest of the expansion may not take back. *)
Later(p, q) ==
  /\ q.unexpanded >= p.unexpanded
  /\ Reals(p) \subseteq Reals(q) /\ RowPaths(p) \subseteq RowPaths(q)
  /\ p.more # <<>> => q.more # <<>>

(* A file a traversal drops for where it really is. *)
Pruned(i) == Tree[i].real # 0 /\ Skips(Append(Tree[Tree[i].real].dir, Tree[Tree[i].real].base))

LEMMA LaterStill ==
  ASSUME NEW p \in Plans, NEW q \in Plans, NEW r \in Plans, Later(p, q), Later(q, r)
  PROVE  Later(p, r)
<1>1. p.unexpanded \in Nat /\ q.unexpanded \in Nat /\ r.unexpanded \in Nat
  BY DEF Plans
<1>2. r.unexpanded >= p.unexpanded
  BY <1>1 DEF Later
<1> QED
  BY <1>2 DEF Later

LEMMA CapsAreNat == Caps.skip_rows \in Nat /\ Caps.discovery \in Nat /\ Caps.survivors \in Nat
  BY PlanAssumption DEF PlanAssumption

(* A skipped path has a row or is counted. *)
LEMMA SkipKeeps ==
  ASSUME NEW p \in SoundPlans, NEW path \in Int, NEW reason \in Reasons
  PROVE  LET q == skip(p, path, reason)
         IN  /\ q \in SoundPlans /\ Later(p, q) /\ Told(q, path)
             /\ q.candidates = p.candidates /\ q.unexpanded = p.unexpanded /\ q.full = p.full
             /\ Len(p.more) \in Nat /\ Len(q.more) \in Nat
             /\ \/ Len(q.more) = Len(p.more) /\ path \in RowPaths(q)
                \/ Len(q.more) = Len(p.more) + 1
<1> DEFINE q == skip(p, path, reason)
           row == [path |-> path, reason |-> reason]
<1>1. /\ p \in Plans /\ Bounded(p) /\ TakenOnce(p) /\ Resolved(p)
      /\ p.skipped \in Seq(SkipRows) /\ p.more \in Seq(Reasons)
  BY DEF SoundPlans, Plans
<1>2. row \in SkipRows /\ row.path = path
  BY DEF SkipRows
<1>3. Len(p.skipped) \in Nat /\ Len(p.more) \in Nat /\ Caps.skip_rows \in Nat
  BY <1>1, LenProperties, CapsAreNat
<1> HIDE DEF row
<1>4. CASE Len(p.skipped) < Caps.skip_rows
  <2> DEFINE s == Append(p.skipped, row)
  <2>1. q = [p EXCEPT !.skipped = s]
    BY <1>4 DEF skip, row
  <2>2. s \in Seq(SkipRows) /\ Range(s) = Range(p.skipped) \cup {row}
    BY <1>1, <1>2, RangeOfAppend
  <2>3. Len(s) = Len(p.skipped) + 1
    BY <1>1, <1>2, AppendProperties
  <2> HIDE DEF s
  <2>4. /\ q \in Plans /\ q.skipped = s /\ q.more = p.more /\ q.candidates = p.candidates
        /\ q.unexpanded = p.unexpanded /\ q.full = p.full
    BY <1>1, <2>1, <2>2 DEF Plans
  <2> HIDE DEF q
  <2>5. p.more = <<>>
    BY <1>1, <1>3, <1>4 DEF Bounded
  <2>6. Bounded(q)
    BY <1>3, <1>4, <2>3, <2>4, <2>5 DEF Bounded
  <2>7. TakenOnce(q) /\ Resolved(q) /\ Reals(q) = Reals(p)
    BY <1>1, <2>4 DEF TakenOnce, Resolved, Reals
  <2>8. q \in SoundPlans
    BY <2>4, <2>6, <2>7 DEF SoundPlans
  <2>9. path \in RowPaths(q) /\ RowPaths(p) \subseteq RowPaths(q)
    BY <1>2, <2>2, <2>4 DEF RowPaths
  <2>10. p.unexpanded \in Nat
    BY <1>1 DEF Plans
  <2>11. Later(p, q)
    BY <2>4, <2>7, <2>9, <2>10 DEF Later
  <2>12. Told(q, path)
    BY <2>9 DEF Told
  <2> QED
    BY <1>3, <2>4, <2>8, <2>9, <2>11, <2>12 DEF q
<1>5. CASE ~(Len(p.skipped) < Caps.skip_rows)
  <2> DEFINE s == Append(p.more, reason)
  <2>1. q = [p EXCEPT !.more = s]
    BY <1>5 DEF skip
  <2>2. s \in Seq(Reasons) /\ Len(s) = Len(p.more) + 1
    BY <1>1, AppendProperties
  <2> HIDE DEF s
  <2>3. /\ q \in Plans /\ q.more = s /\ q.skipped = p.skipped /\ q.candidates = p.candidates
        /\ q.unexpanded = p.unexpanded /\ q.full = p.full
    BY <1>1, <2>1, <2>2 DEF Plans
  <2> HIDE DEF q
  <2>4. q.more # <<>>
    BY <1>3, <2>2, <2>3
  <2>5. Bounded(q)
    BY <1>1, <1>3, <1>5, <2>3 DEF Bounded
  <2>6. TakenOnce(q) /\ Resolved(q) /\ Reals(q) = Reals(p) /\ RowPaths(q) = RowPaths(p)
    BY <1>1, <2>3 DEF TakenOnce, Resolved, Reals, RowPaths
  <2>7. q \in SoundPlans
    BY <2>3, <2>5, <2>6 DEF SoundPlans
  <2>8. p.unexpanded \in Nat
    BY <1>1 DEF Plans
  <2>9. Later(p, q)
    BY <2>3, <2>4, <2>6, <2>8 DEF Later
  <2>10. Told(q, path)
    BY <2>4 DEF Told
  <2> QED
    BY <1>3, <2>2, <2>3, <2>7, <2>9, <2>10 DEF q
<1> QED
  BY <1>4, <1>5

(* The candidate discover adds. *)
Taken(p, q, i) ==
  /\ q.candidates = Append(p.candidates, [at |-> i, real |-> Tree[i].real])
  /\ q.skipped = p.skipped /\ q.more = p.more /\ q.unexpanded = p.unexpanded /\ q.full = p.full

LEMMA TakenKeeps ==
  ASSUME NEW p \in SoundPlans, NEW i \in Nodes, NEW q, q \in Plans, Taken(p, q, i),
         Tree[i].real # 0, Tree[i].real \notin Reals(p)
  PROVE  /\ q \in SoundPlans /\ Later(p, q) /\ Tree[i].real \in Reals(q)
         /\ \A c \in Range(q.candidates) : c \in Range(p.candidates) \/ c.at = i
<1> DEFINE c == [at |-> i, real |-> Tree[i].real]
           n == Len(p.candidates)
<1>1. /\ p \in Plans /\ Bounded(p) /\ TakenOnce(p) /\ Resolved(p) /\ p.candidates \in Seq(Candidates)
      /\ p.unexpanded \in Nat
  BY DEF SoundPlans, Plans
<1>2. c \in Candidates /\ c.at = i /\ c.real = Tree[i].real
  BY TreeFacts DEF Candidates
<1> HIDE DEF c
<1>3. q.candidates = Append(p.candidates, c) /\ q.skipped = p.skipped /\ q.more = p.more /\ q.unexpanded = p.unexpanded
  BY DEF Taken, c
<1>4. Range(q.candidates) = Range(p.candidates) \cup {c}
  BY <1>1, <1>2, <1>3, RangeOfAppend
<1>5. /\ n \in Nat /\ DOMAIN p.candidates = 1..n /\ Len(q.candidates) = n + 1
      /\ (\A j \in 1..n : q.candidates[j] = p.candidates[j]) /\ q.candidates[n + 1] = c
  BY <1>1, <1>2, <1>3, AppendProperties, LenProperties
<1> HIDE DEF n
<1>6. \A j \in 1..n : p.candidates[j].real # c.real
  <2>1. \A j \in 1..n : p.candidates[j] \in Range(p.candidates)
    BY <1>5 DEF Range
  <2> QED
    BY <1>2, <2>1 DEF Reals
<1>7. TakenOnce(q)
  <2> SUFFICES ASSUME NEW j \in 1..(n + 1), NEW k \in 1..(n + 1), q.candidates[j].real = q.candidates[k].real
               PROVE  j = k
    BY <1>5 DEF TakenOnce
  <2>1. (j = n + 1 \/ j \in 1..n) /\ (k = n + 1 \/ k \in 1..n)
    BY <1>5
  <2>2. CASE j \in 1..n /\ k \in 1..n
    <3>1. p.candidates[j].real = p.candidates[k].real
      BY <1>5, <2>2
    <3> QED
      BY <1>1, <2>2, <3>1 DEF TakenOnce, n
  <2> QED
    BY <1>5, <1>6, <2>1, <2>2
<1>8. Resolved(q)
  BY <1>1, <1>2, <1>4 DEF Resolved
<1>9. Bounded(q)
  BY <1>1, <1>3 DEF Bounded
<1>10. q \in SoundPlans
  BY <1>7, <1>8, <1>9 DEF SoundPlans
<1>11. Reals(p) \subseteq Reals(q) /\ Tree[i].real \in Reals(q) /\ RowPaths(q) = RowPaths(p)
  BY <1>2, <1>3, <1>4 DEF Reals, RowPaths
<1>12. Later(p, q)
  BY <1>1, <1>3, <1>11 DEF Later
<1> QED
  BY <1>2, <1>4, <1>10, <1>11, <1>12

(* One file that was met. *)
Kept(i, traversed) == Tree[i].real # 0 /\ ~(traversed /\ Pruned(i))

LEMMA DiscoverKeeps ==
  ASSUME NEW p \in SoundPlans, NEW i \in Nodes, NEW traversed \in BOOLEAN
  PROVE  LET q == discover(p, i, traversed)
         IN  /\ q \in SoundPlans /\ Later(p, q)
             /\ \A c \in Range(q.candidates) : c \in Range(p.candidates) \/ (c.at = i /\ Kept(i, traversed))
             /\ Kept(i, traversed) /\ q.unexpanded = 0 => Tree[i].real \in Reals(q)
             /\ q.full => p.full \/ q.unexpanded > 0
<1> DEFINE q == discover(p, i, traversed)
           real == Tree[i].real
           n == Len(p.candidates)
<1>1. /\ p \in Plans /\ Bounded(p) /\ TakenOnce(p) /\ Resolved(p) /\ p.candidates \in Seq(Candidates)
      /\ p.unexpanded \in Nat
  BY DEF SoundPlans, Plans
<1>2. n \in Nat /\ Caps.discovery \in Nat /\ real \in Nat
  BY <1>1, LenProperties, CapsAreNat, TreeFacts
<1>3. Reals(p) = {c.real : c \in Range(p.candidates)} /\ 0 \notin Reals(p)
  BY <1>1 DEF Reals, Resolved
<1>4. Later(p, p)
  BY <1>1 DEF Later
<1>5. CASE n >= Caps.discovery
  <2> DEFINE u == p.unexpanded + 1
  <2>1. q = [p EXCEPT !.unexpanded = u, !.full = TRUE]
    BY <1>2, <1>5 DEF discover
  <2>2. u \in Nat /\ u > 0 /\ u >= p.unexpanded
    BY <1>1
  <2> HIDE DEF u
  <2>3. /\ q \in Plans /\ q.candidates = p.candidates /\ q.skipped = p.skipped /\ q.more = p.more
        /\ q.unexpanded = u
    BY <1>1, <2>1, <2>2 DEF Plans
  <2> HIDE DEF q
  <2>4. /\ TakenOnce(q) /\ Resolved(q) /\ Bounded(q) /\ Reals(q) = Reals(p) /\ RowPaths(q) = RowPaths(p)
    BY <1>1, <2>3 DEF TakenOnce, Resolved, Bounded, Reals, RowPaths
  <2>5. q \in SoundPlans
    BY <2>3, <2>4 DEF SoundPlans
  <2>6. Later(p, q)
    BY <2>2, <2>3, <2>4 DEF Later
  <2>7. q.unexpanded # 0 /\ q.unexpanded > 0
    BY <2>2, <2>3
  <2> QED
    BY <2>3, <2>5, <2>6, <2>7 DEF q
<1>6. CASE ~(n >= Caps.discovery) /\ real \in Reals(p)
  <2>1. n < Caps.discovery
    BY <1>2, <1>6
  <2>2. q = p
    BY <1>2, <1>3, <1>6, <2>1 DEF discover
  <2> QED
    BY <1>4, <1>6, <2>2
<1>7. CASE ~(n >= Caps.discovery) /\ real = 0
  <2>1. n < Caps.discovery
    BY <1>2, <1>7
  <2>2. q = skip(p, i, "outside_scope")
    BY <1>2, <1>3, <1>7, <2>1 DEF discover
  <2>3. i \in Int /\ "outside_scope" \in Reasons
    BY TreeFacts DEF Nodes, Reasons
  <2>4. q \in SoundPlans /\ Later(p, q) /\ q.candidates = p.candidates /\ q.full = p.full
    BY <2>2, <2>3, SkipKeeps
  <2> QED
    BY <1>7, <2>4 DEF Kept
<1>8. CASE ~(n >= Caps.discovery) /\ real \notin Reals(p) \cup {0}
  <2>1. n < Caps.discovery /\ ~(real \in Reals(p)) /\ real # 0
    BY <1>2, <1>8
  <2>2. q = IF traversed /\ Skips(Append(Tree[real].dir, Tree[real].base)) THEN p
            ELSE [p EXCEPT !.candidates = Append(@, [at |-> i, real |-> real])]
    BY <1>2, <1>3, <1>8, <2>1 DEF discover
  <2>3. traversed /\ Skips(Append(Tree[real].dir, Tree[real].base)) <=> ~Kept(i, traversed)
    BY <2>1 DEF Kept, Pruned
  <2>4. CASE ~Kept(i, traversed)
    BY <1>4, <2>2, <2>3, <2>4
  <2>5. CASE Kept(i, traversed)
    <3> DEFINE c == [at |-> i, real |-> real]
               s == Append(p.candidates, c)
    <3>1. q = [p EXCEPT !.candidates = s]
      BY <2>2, <2>3, <2>5
    <3>2. c \in Candidates
      BY <1>2 DEF Candidates
    <3>3. s \in Seq(Candidates)
      <4> HIDE DEF c
      <4> QED
        BY <1>1, <3>2, AppendProperties
    <3>4. s = Append(p.candidates, [at |-> i, real |-> Tree[i].real])
      OBVIOUS
    <3> HIDE DEF s, c
    <3>5. q \in Plans /\ q.candidates = s /\ q.skipped = p.skipped /\ q.more = p.more /\ q.unexpanded = p.unexpanded
          /\ q.full = p.full
      BY <1>1, <3>1, <3>3 DEF Plans
    <3> HIDE DEF q
    <3>6. Taken(p, q, i)
      BY <3>4, <3>5 DEF Taken
    <3>7. /\ q \in SoundPlans /\ Later(p, q) /\ Tree[i].real \in Reals(q)
          /\ \A d \in Range(q.candidates) : d \in Range(p.candidates) \/ d.at = i
      BY <2>1, <3>5, <3>6, TakenKeeps
    <3> QED
      BY <2>5, <3>5, <3>7 DEF q
  <2> QED
    BY <2>4, <2>5
<1> QED
  BY <1>5, <1>6, <1>7, <1>8

(* What expanding the files S may do to a plan. *)
Discovers(p, q, S) ==
  /\ Later(p, q)
  /\ \A c \in Range(q.candidates) : c \in Range(p.candidates) \/ (c.at \in S /\ Kept(c.at, TRUE))
  /\ q.unexpanded = 0 => \A i \in S : Kept(i, TRUE) => Tree[i].real \in Reals(q)

LEMMA DiscoverAllKeeps ==
  ASSUME NEW p \in SoundPlans, NEW files \in Seq(Nodes)
  PROVE  DiscoverAll(p, files) \in SoundPlans /\ Discovers(p, DiscoverAll(p, files), Range(files))
<1> DEFINE n == Len(files)
           a == [p EXCEPT !.full = FALSE]
           Next1(x, k) == IF x.full THEN x ELSE discover(x, files[k], TRUE)
           Good(f) == f = [k \in 0..n |-> IF k = 0 THEN [p EXCEPT !.full = FALSE]
                             ELSE IF f[k - 1].full THEN f[k - 1] ELSE discover(f[k - 1], files[k], TRUE)]
           step == [k \in 1..n |-> [x \in SoundPlans |-> Next1(x, k)]]
<1>1. n \in Nat /\ DOMAIN files = 1..n /\ \A k \in 1..n : files[k] \in Nodes
  BY LenProperties, ElementOfSeq
<1>2. a \in SoundPlans /\ Later(p, a) /\ a.candidates = p.candidates /\ ~a.full
  <2>1. p \in Plans /\ Bounded(p) /\ TakenOnce(p) /\ Resolved(p) /\ p.unexpanded \in Nat
    BY DEF SoundPlans, Plans
  <2>2. a \in Plans /\ a.candidates = p.candidates /\ a.skipped = p.skipped /\ a.more = p.more
        /\ a.unexpanded = p.unexpanded /\ ~a.full
    BY <2>1 DEF Plans
  <2> HIDE DEF a
  <2>3. TakenOnce(a) /\ Resolved(a) /\ Bounded(a) /\ Reals(a) = Reals(p) /\ RowPaths(a) = RowPaths(p)
    BY <2>1, <2>2 DEF TakenOnce, Resolved, Bounded, Reals, RowPaths
  <2> QED
    BY <2>1, <2>2, <2>3 DEF SoundPlans, Later
<1>3. ASSUME NEW k \in 1..n, NEW x \in SoundPlans PROVE Next1(x, k) \in SoundPlans
  BY <1>1, DiscoverKeeps
<1> HIDE DEF n
<1>4. step \in Steps(n, SoundPlans)
  <2> HIDE DEF Next1
  <2> QED
    BY <1>3 DEF Steps
<1>5. PICK g : IsTrace(g, n, SoundPlans, a, step)
  <2> HIDE DEF step, a
  <2> QED
    BY <1>1, <1>2, <1>4, Iterate
<1>6. g \in [0..n -> SoundPlans] /\ g[0] = a /\ \A k \in 1..n : g[k] = Next1(g[k - 1], k)
  <2> HIDE DEF Next1
  <2>1. g \in [0..n -> SoundPlans] /\ g[0] = a /\ \A k \in 1..n : g[k] = step[k][g[k - 1]]
    <3> HIDE DEF step, a
    <3> QED
      BY <1>5 DEF IsTrace
  <2>2. \A k \in 1..n : g[k - 1] \in SoundPlans
    <3> HIDE DEF step, a
    <3> QED
      BY <1>1, <2>1
  <2>3. \A k \in 1..n : step[k][g[k - 1]] = Next1(g[k - 1], k)
    BY <2>2
  <2> HIDE DEF step, a
  <2> QED
    BY <2>1, <2>3
<1> HIDE DEF step
<1>7. Good(g)
  <2>1. g = [k \in 0..n |-> g[k]]
    BY <1>6
  <2>2. \A k \in 0..n : k = 0 \/ k \in 1..n
    BY <1>1
  <2>3. \A k \in 0..n : g[k] = IF k = 0 THEN a ELSE Next1(g[k - 1], k)
    <3> HIDE DEF a, Next1
    <3> QED
      BY <1>6, <2>2
  <2> QED
    BY <2>1, <2>3
<1> DEFINE f == CHOOSE h : Good(h)
<1>8. Good(f)
  BY <1>7
<1>9. DiscoverAll(p, files) = f[n]
  BY DEF DiscoverAll, n
<1> HIDE DEF f
<1>10. f[0] = a /\ \A k \in 1..n : f[k] = Next1(f[k - 1], k)
  <2>1. 0 \in 0..n /\ \A k \in 1..n : k \in 0..n /\ k # 0
    BY <1>1
  <2> QED
    BY <1>8, <2>1
<1> HIDE DEF Good, a
<1> DEFINE Upto(k) == {files[j] : j \in 1..k}
           Fine(x) == x.full => x.unexpanded > 0
           S == {k \in 0..n : f[k] \in SoundPlans /\ Discovers(p, f[k], Upto(k)) /\ Fine(f[k])}
<1>11. 0 \in S
  <2>1. 0 \in 0..n /\ Upto(0) = {}
    BY <1>1
  <2>2. Discovers(p, a, Upto(0)) /\ Fine(a)
    BY <1>2, <2>1 DEF Discovers
  <2> HIDE DEF Upto, Fine
  <2> QED
    BY <1>2, <1>10, <2>1, <2>2
<1>12. ASSUME NEW k \in 1..n, k - 1 \in S PROVE k \in S
  <2> DEFINE x == f[k - 1]
             q == f[k]
             i == files[k]
             U == Upto(k - 1)
             V == Upto(k)
  <2>1. x \in SoundPlans /\ Discovers(p, x, U) /\ Fine(x) /\ k \in 0..n /\ i \in Nodes
    BY <1>1, <1>12
  <2>2. V = U \cup {i}
    BY <1>1
  <2>3. q = Next1(x, k)
    BY <1>10
  <2> HIDE DEF x, q, U, V, Upto
  <2>4. CASE x.full
    <3>1. q = x /\ x.unexpanded > 0
      BY <2>1, <2>3, <2>4
    <3>2. x.unexpanded # 0
      BY <3>1
    <3>3. \A c \in Range(x.candidates) : c \in Range(p.candidates) \/ (c.at \in V /\ Kept(c.at, TRUE))
      BY <2>1, <2>2 DEF Discovers
    <3>4. Discovers(p, q, V)
      BY <2>1, <3>1, <3>2, <3>3 DEF Discovers
    <3> QED
      BY <2>1, <3>1, <3>4 DEF q, V
  <2>5. CASE ~x.full
    <3>1. q = discover(x, i, TRUE)
      BY <2>3, <2>5
    <3> HIDE DEF i
    <3>2. /\ q \in SoundPlans /\ Later(x, q)
          /\ \A c \in Range(q.candidates) : c \in Range(x.candidates) \/ (c.at = i /\ Kept(i, TRUE))
          /\ Kept(i, TRUE) /\ q.unexpanded = 0 => Tree[i].real \in Reals(q)
          /\ q.full => x.full \/ q.unexpanded > 0
      BY <2>1, <3>1, DiscoverKeeps
    <3>3. Later(p, q)
      <4>1. p \in Plans /\ x \in Plans /\ q \in Plans
        BY <2>1, <3>2 DEF SoundPlans
      <4> QED
        BY <2>1, <3>2, <4>1, LaterStill DEF Discovers
    <3>4. \A c \in Range(q.candidates) : c \in Range(p.candidates) \/ (c.at \in V /\ Kept(c.at, TRUE))
      BY <2>1, <2>2, <3>2 DEF Discovers
    <3>5. q.unexpanded = 0 => \A j \in V : Kept(j, TRUE) => Tree[j].real \in Reals(q)
      <4>1. q.unexpanded = 0 => x.unexpanded = 0
        <5>1. x.unexpanded \in Nat /\ q.unexpanded >= x.unexpanded
          BY <2>1, <3>2 DEF SoundPlans, Plans, Later
        <5> QED
          BY <5>1
      <4>2. Reals(x) \subseteq Reals(q)
        BY <3>2 DEF Later
      <4> QED
        BY <2>1, <2>2, <3>2, <4>1, <4>2 DEF Discovers
    <3>6. Fine(q)
      BY <2>5, <3>2
    <3>7. Discovers(p, q, V)
      BY <3>3, <3>4, <3>5 DEF Discovers
    <3> QED
      BY <2>1, <3>2, <3>6, <3>7 DEF q, V
  <2> QED
    BY <2>4, <2>5
<1>13. n \in S
  <2> HIDE DEF S
  <2>1. \A k \in 0..n : k \in S
    BY <1>1, <1>11, <1>12, CountUp
  <2> QED
    BY <1>1, <2>1
<1>14. Upto(n) = Range(files)
  BY <1>1 DEF Range
<1> QED
  BY <1>9, <1>13, <1>14

--------------------------------------------------------------------------------
(* An entry, as PlanAssumption has it. *)
IsEntry(e) ==
  \/ e.what \in {"outside", "missing"}
  \/ e.what = "glob" /\ List(e.parts) /\ e.parts # <<>> /\ e.inside \in BOOLEAN
  \/ e.what = "dir" /\ e.dir \in Range(Dirs)
  \/ e.what = "file" /\ e.node \in Nodes

(* The files an entry has judged: what it stands for, and unless it names  *)
(* the file, only where no skip-listed directory is on the way.            *)
AskedFor(e, i, recursive) == StandsFor(e, i, recursive) /\ Kept(i, e.what # "file")

Silent(e, recursive) == (\A i \in Nodes : ~StandsFor(e, i, recursive)) /\ e.what # "glob"

Expands(p, q, n, e, recursive) ==
  /\ Later(p, q)
  /\ \A c \in Range(q.candidates) : c \in Range(p.candidates) \/ AskedFor(e, c.at, recursive)
  /\ q.unexpanded = 0 => \A i \in Nodes : AskedFor(e, i, recursive) => Tree[i].real \in Reals(q)
  /\ Silent(e, recursive) => Told(q, -n)

LEMMA ExpandKeeps ==
  ASSUME NEW p \in SoundPlans, NEW n \in Nat, NEW e, IsEntry(e), NEW recursive \in BOOLEAN
  PROVE  Expand(p, n, e, recursive) \in SoundPlans /\ Expands(p, Expand(p, n, e, recursive), n, e, recursive)
<1> DEFINE q == Expand(p, n, e, recursive)
           S == {i \in Nodes : StandsFor(e, i, recursive)}
<1> SUFFICES q \in SoundPlans /\ Expands(p, q, n, e, recursive)
  OBVIOUS
<1>1. p \in Plans /\ p.unexpanded \in Nat /\ -n \in Int
  BY DEF SoundPlans, Plans
<1>2. {"outside_scope", "not_found", "skipped_directory"} \subseteq Reasons
  BY DEF Reasons
<1>3. ASSUME NEW reason \in Reasons, q = skip(p, -n, reason), S = {}
      PROVE  q \in SoundPlans /\ Expands(p, q, n, e, recursive)
  <2> DEFINE m == -n
  <2>1. m \in Int /\ q = skip(p, m, reason)
    BY <1>1, <1>3
  <2> HIDE DEF m, q, S
  <2>2. q \in SoundPlans /\ Later(p, q) /\ Told(q, m) /\ q.candidates = p.candidates
    BY <2>1, SkipKeeps
  <2>3. \A i \in Nodes : ~AskedFor(e, i, recursive)
    BY <1>3 DEF AskedFor, S
  <2> QED
    BY <2>2, <2>3 DEF Expands, m
<1>4. ASSUME NEW files \in Seq(Nodes), q = DiscoverAll(p, files), Range(files) = S, S # {} \/ e.what = "glob",
             e.what # "file"
      PROVE  q \in SoundPlans /\ Expands(p, q, n, e, recursive)
  <2> HIDE DEF q, S
  <2>1. q \in SoundPlans /\ Discovers(p, q, S)
    BY <1>4, DiscoverAllKeeps
  <2>2. \A i \in Nodes : AskedFor(e, i, recursive) <=> i \in S /\ Kept(i, TRUE)
    BY <1>4 DEF AskedFor, S
  <2>3. S \subseteq Nodes
    BY DEF S
  <2>4. ~Silent(e, recursive)
    BY <1>4 DEF Silent, S
  <2>5. \A c \in Range(q.candidates) : c \in Range(p.candidates) \/ AskedFor(e, c.at, recursive)
    BY <2>1, <2>2, <2>3 DEF Discovers
  <2>6. q.unexpanded = 0 => \A i \in Nodes : AskedFor(e, i, recursive) => Tree[i].real \in Reals(q)
    BY <2>1, <2>2 DEF Discovers
  <2>7. Later(p, q)
    BY <2>1 DEF Discovers
  <2> QED
    BY <2>1, <2>4, <2>5, <2>6, <2>7 DEF Expands
<1>5. CASE e.what \in {"outside", "missing"}
  <2>1. S = {}
    BY <1>5 DEF StandsFor
  <2>2. \/ q = skip(p, -n, "outside_scope") \/ q = skip(p, -n, "not_found")
    BY <1>5 DEF Expand
  <2> HIDE DEF q, S
  <2> QED
    BY <1>2, <1>3, <2>1, <2>2
<1>6. CASE e.what = "glob" /\ List(e.parts) /\ e.parts # <<>> /\ e.inside \in BOOLEAN
  <2> DEFINE found == _glob_files(e.parts, recursive)
  <2>1. q = ExpandGlob(p, n, e, recursive)
    BY <1>6 DEF Expand
  <2>2. CASE ~e.inside
    <3>1. q = skip(p, -n, "outside_scope")
      BY <2>1, <2>2 DEF ExpandGlob
    <3>2. S = {}
      BY <1>6, <2>2 DEF StandsFor
    <3> HIDE DEF q, S
    <3> QED
      BY <1>2, <1>3, <3>1, <3>2
  <2>3. CASE e.inside
    <3>1. found.files \in Seq(Nodes) /\ Range(found.files) = S /\ (~found.any => Range(found.files) = {})
      BY <1>6, <2>3, GlobFinds
    <3>2. q = IF ~found.any THEN skip(p, -n, "not_found") ELSE DiscoverAll(p, found.files)
      BY <2>1, <2>3 DEF ExpandGlob
    <3> HIDE DEF q, S, found
    <3>3. CASE found.any
      BY <1>4, <1>6, <3>1, <3>2, <3>3
    <3>4. CASE ~found.any
      BY <1>2, <1>3, <3>1, <3>2, <3>4
    <3> QED
      BY <3>3, <3>4
  <2> QED
    BY <1>6, <2>2, <2>3
<1>7. CASE e.what = "dir" /\ e.dir \in Range(Dirs)
  <2> DEFINE hidden == e.dir # <<>> /\ Skips(<<Last(e.dir)>>)
             files == _walk(e.dir, recursive)
  <2>1. q = ExpandDirectory(p, n, e, recursive)
    BY <1>7 DEF Expand
  <2>2. CASE hidden
    <3>1. q = skip(p, -n, "skipped_directory")
      BY <2>1, <2>2 DEF ExpandDirectory
    <3>2. S = {}
      BY <1>7, <2>2 DEF StandsFor
    <3> HIDE DEF q, S
    <3> QED
      BY <1>2, <1>3, <3>1, <3>2
  <2>3. CASE ~hidden
    <3>1. files \in Seq(Nodes) /\ Range(files) = Walked(e.dir, recursive)
      BY WalkFinds
    <3>2. Walked(e.dir, recursive) = S
      <4> SUFFICES ASSUME NEW i \in Nodes
                   PROVE  i \in Walked(e.dir, recursive) <=> StandsFor(e, i, recursive)
        BY DEF Walked
      <4>1. StandsFor(e, i, recursive) <=> (IF recursive THEN IsPrefix(e.dir, Tree[i].dir) ELSE Tree[i].dir = e.dir /\ is_file(i))
                                           /\ Below(e.dir, Tree[i].dir)
        BY <1>7, <2>3 DEF StandsFor
      <4>2. Below(e.dir, Tree[i].dir) => IsPrefix(e.dir, Tree[i].dir)
        BY DEF Below
      <4>3. Tree[i].dir = e.dir => Below(e.dir, Tree[i].dir)
        <5> DEFINE d == e.dir
                   W == Range(Names)
        <5>1. d \in Seq(W) /\ Len(d) \in Nat
          BY <1>7, TreeFacts, LenProperties
        <5> HIDE DEF d
        <5>2. IsPrefix(d, d)
          BY <5>1, PrefixIsCut, SubSeqFull
        <5>3. SubSeq(d, Len(d) + 1, Len(d)) = <<>>
          <6>1. Len(d) + 1 \in Int /\ Len(d) \in Int /\ Len(d) < Len(d) + 1
            BY <5>1
          <6> QED
            BY <6>1, SubSeqEmpty
        <5>4. ~Skips(<<>>)
          BY DEF Skips, Range
        <5>5. Below(d, d)
          BY <5>2, <5>3, <5>4 DEF Below
        <5> QED
          BY <5>5 DEF d
      <4> QED
        BY <4>1, <4>2, <4>3 DEF Walked
    <3>3. q = IF files = <<>> THEN skip(p, -n, "not_found") ELSE DiscoverAll(p, files)
      BY <2>1, <2>3 DEF ExpandDirectory
    <3> HIDE DEF q, S, files, hidden
    <3>4. CASE files = <<>>
      <4>1. Range(files) = {}
        BY <3>4 DEF Range
      <4> QED
        BY <1>2, <1>3, <3>1, <3>2, <3>3, <3>4, <4>1
    <3>5. CASE files # <<>>
      <4>1. Len(files) # 0 /\ Len(files) \in Nat /\ DOMAIN files = 1..Len(files)
        BY <3>1, <3>5, EmptySeq, LenProperties
      <4>2. files[1] \in Range(files)
        BY <4>1 DEF Range
      <4>3. S # {}
        BY <3>1, <3>2, <4>2
      <4> QED
        BY <1>4, <1>7, <3>1, <3>2, <3>3, <3>5, <4>3
    <3> QED
      BY <3>4, <3>5
  <2> QED
    BY <2>2, <2>3
<1>8. CASE e.what = "file" /\ e.node \in Nodes
  <2> DEFINE i == e.node
  <2>1. q = IF Tree[i].real = 0 THEN skip(p, -n, "outside_scope") ELSE discover(p, i, FALSE)
    BY <1>8 DEF Expand
  <2>2. \A j \in Nodes : StandsFor(e, j, recursive) <=> j = i
    BY <1>8 DEF StandsFor
  <2>3. i \in Nodes /\ ~Silent(e, recursive)
    BY <1>8, <2>2 DEF Silent
  <2>4. \A j \in Nodes : AskedFor(e, j, recursive) <=> j = i /\ Tree[i].real # 0
    BY <1>8, <2>2 DEF AskedFor, Kept
  <2> HIDE DEF q, i, S
  <2>5. CASE Tree[i].real = 0
    <3> DEFINE m == -n
    <3>1. m \in Int /\ q = skip(p, m, "outside_scope")
      BY <1>1, <2>1, <2>5
    <3> HIDE DEF m
    <3>2. q \in SoundPlans /\ Later(p, q) /\ q.candidates = p.candidates
      BY <1>2, <3>1, SkipKeeps
    <3> QED
      BY <2>3, <2>4, <2>5, <3>2 DEF Expands
  <2>6. CASE Tree[i].real # 0
    <3>1. q = discover(p, i, FALSE) /\ Kept(i, FALSE)
      BY <2>1, <2>6 DEF Kept
    <3>2. /\ q \in SoundPlans /\ Later(p, q)
          /\ \A c \in Range(q.candidates) : c \in Range(p.candidates) \/ (c.at = i /\ Kept(i, FALSE))
          /\ Kept(i, FALSE) /\ q.unexpanded = 0 => Tree[i].real \in Reals(q)
      BY <2>3, <3>1, DiscoverKeeps
    <3> QED
      BY <2>3, <2>4, <2>6, <3>1, <3>2 DEF Expands
  <2> QED
    BY <2>5, <2>6
<1> QED
  BY <1>5, <1>6, <1>7, <1>8 DEF IsEntry

(* What the plan holds once every path is expanded. *)
AllExpanded(p, paths, recursive, n) ==
  /\ \A c \in Range(p.candidates) : \E m \in 1..n : AskedFor(paths[m], c.at, recursive)
  /\ p.unexpanded = 0 => \A m \in 1..n : \A i \in Nodes : AskedFor(paths[m], i, recursive) => Tree[i].real \in Reals(p)
  /\ \A m \in 1..n : Silent(paths[m], recursive) => Told(p, -m)

LEMMA EntriesExpand ==
  ASSUME NEW paths \in PathLists, NEW recursive \in BOOLEAN
  PROVE  \E p \in SoundPlans : /\ plan(paths, recursive) = ReadAll(p)
                               /\ AllExpanded(p, paths, recursive, Len(paths))
<1> DEFINE n == Len(paths)
           Good(f) == f = [k \in 0..n |-> IF k = 0 THEN Empty ELSE Expand(f[k - 1], k, paths[k], recursive)]
           step == [k \in 1..n |-> [x \in SoundPlans |-> Expand(x, k, paths[k], recursive)]]
<1>1. n \in Nat /\ DOMAIN paths = 1..n /\ \A k \in 1..n : IsEntry(paths[k])
  <2>1. List(paths)
    BY PlanAssumption DEF PlanAssumption
  <2>2. n \in Nat /\ DOMAIN paths = 1..n
    BY <2>1, ListIsSeq
  <2>3. \A k \in 1..n : paths[k] \in Range(paths)
    BY <2>2 DEF Range
  <2>4. \A e \in Range(paths) : IsEntry(e)
    BY PlanAssumption, TreeFacts DEF PlanAssumption, IsEntry
  <2> QED
    BY <2>2, <2>3, <2>4
<1>2. Empty \in SoundPlans /\ Empty.candidates = <<>> /\ Empty.unexpanded = 0
  <2>1. Empty \in Plans /\ Empty.candidates = <<>> /\ Empty.skipped = <<>> /\ Empty.more = <<>> /\ Empty.unexpanded = 0
    BY DEF Empty, Plans
  <2>2. Range(<<>>) = {} /\ Len(<<>>) = 0
    BY DEF Range
  <2>3. Bounded(Empty)
    BY <2>1, <2>2, CapsAreNat DEF Bounded
  <2>4. TakenOnce(Empty) /\ Resolved(Empty)
    BY <2>1, <2>2 DEF TakenOnce, Resolved
  <2> QED
    BY <2>1, <2>3, <2>4 DEF SoundPlans
<1> HIDE DEF n
<1>3. step \in Steps(n, SoundPlans)
  <2>1. \A k \in 1..n, x \in SoundPlans : Expand(x, k, paths[k], recursive) \in SoundPlans
    BY <1>1, ExpandKeeps
  <2> QED
    BY <2>1 DEF Steps
<1>4. PICK g : IsTrace(g, n, SoundPlans, Empty, step)
  <2> HIDE DEF step
  <2> QED
    BY <1>1, <1>2, <1>3, Iterate
<1>5. g \in [0..n -> SoundPlans] /\ g[0] = Empty /\ \A k \in 1..n : g[k] = Expand(g[k - 1], k, paths[k], recursive)
  <2>1. g \in [0..n -> SoundPlans] /\ g[0] = Empty /\ \A k \in 1..n : g[k] = step[k][g[k - 1]]
    <3> HIDE DEF step
    <3> QED
      BY <1>4 DEF IsTrace
  <2>2. \A k \in 1..n : g[k - 1] \in SoundPlans
    BY <1>1, <2>1
  <2>3. \A k \in 1..n : step[k][g[k - 1]] = Expand(g[k - 1], k, paths[k], recursive)
    BY <2>2
  <2> HIDE DEF step
  <2> QED
    BY <2>1, <2>3
<1> HIDE DEF step
<1>6. Good(g)
  <2>1. g = [k \in 0..n |-> g[k]]
    BY <1>5
  <2>2. \A k \in 0..n : k = 0 \/ k \in 1..n
    BY <1>1
  <2>3. \A k \in 0..n : g[k] = IF k = 0 THEN Empty ELSE Expand(g[k - 1], k, paths[k], recursive)
    BY <1>5, <2>2
  <2> QED
    BY <2>1, <2>3
<1> DEFINE f == CHOOSE h : Good(h)
<1>7. Good(f)
  BY <1>6
<1>8. plan(paths, recursive) = ReadAll(f[n])
  BY DEF plan, n
<1> HIDE DEF f
<1>9. f[0] = Empty /\ \A k \in 1..n : f[k] = Expand(f[k - 1], k, paths[k], recursive)
  <2>1. 0 \in 0..n /\ \A k \in 1..n : k \in 0..n /\ k # 0
    BY <1>1
  <2> QED
    BY <1>7, <2>1
<1> HIDE DEF Good
<1> DEFINE S == {k \in 0..n : f[k] \in SoundPlans /\ AllExpanded(f[k], paths, recursive, k)}
<1>10. 0 \in S
  <2>1. Range(<<>>) = {}
    BY DEF Range
  <2>2. AllExpanded(Empty, paths, recursive, 0)
    BY <1>2, <2>1 DEF AllExpanded
  <2> QED
    BY <1>1, <1>2, <1>9, <2>2
<1>11. ASSUME NEW k \in 1..n, k - 1 \in S PROVE k \in S
  <2> DEFINE x == f[k - 1]
             q == f[k]
             l == k - 1
             e == paths[k]
  <2>1. x \in SoundPlans /\ AllExpanded(x, paths, recursive, l) /\ k \in 0..n /\ k \in Nat /\ IsEntry(e)
    BY <1>1, <1>11
  <2>2. q = Expand(x, k, e, recursive)
    BY <1>9
  <2>3. \A m \in 1..k : m \in 1..l \/ m = k
    BY <1>1
  <2>4. k \in 1..k /\ \A m \in 1..l : m \in 1..k
    BY <1>1
  <2> HIDE DEF x, q, l, e
  <2>5. q \in SoundPlans /\ Expands(x, q, k, e, recursive)
    BY <2>1, <2>2, ExpandKeeps
  <2>6. Later(x, q)
    BY <2>5 DEF Expands
  <2>7. \A c \in Range(q.candidates) : \E m \in 1..k : AskedFor(paths[m], c.at, recursive)
    <3> SUFFICES ASSUME NEW c \in Range(q.candidates)
                 PROVE  \E m \in 1..k : AskedFor(paths[m], c.at, recursive)
      OBVIOUS
    <3>1. CASE c \in Range(x.candidates)
      <4>1. PICK m \in 1..l : AskedFor(paths[m], c.at, recursive)
        BY <2>1, <3>1 DEF AllExpanded
      <4> QED
        BY <2>4, <4>1
    <3>2. CASE AskedFor(e, c.at, recursive)
      BY <2>4, <3>2 DEF e
    <3> QED
      BY <2>5, <3>1, <3>2 DEF Expands
  <2>8. ASSUME q.unexpanded = 0, NEW m \in 1..k, NEW i \in Nodes, AskedFor(paths[m], i, recursive)
        PROVE  Tree[i].real \in Reals(q)
    <3>1. x.unexpanded = 0
      <4>1. x.unexpanded \in Nat /\ q.unexpanded >= x.unexpanded
        BY <2>1, <2>6 DEF SoundPlans, Plans, Later
      <4> QED
        BY <2>8, <4>1
    <3>2. Reals(x) \subseteq Reals(q)
      BY <2>6 DEF Later
    <3>3. CASE m \in 1..l
      BY <2>1, <2>8, <3>1, <3>2, <3>3 DEF AllExpanded
    <3>4. CASE m = k
      BY <2>5, <2>8, <3>4 DEF Expands, e
    <3> QED
      BY <2>3, <3>3, <3>4
  <2>9. ASSUME NEW m \in 1..k, Silent(paths[m], recursive) PROVE Told(q, -m)
    <3>1. CASE m \in 1..l
      <4>1. Told(x, -m)
        BY <2>1, <2>9, <3>1 DEF AllExpanded
      <4> QED
        BY <2>6, <4>1 DEF Told, Later
    <3>2. CASE m = k
      BY <2>5, <2>9, <3>2 DEF Expands, e
    <3> QED
      BY <2>3, <3>1, <3>2
  <2>10. AllExpanded(q, paths, recursive, k)
    BY <2>7, <2>8, <2>9 DEF AllExpanded
  <2> QED
    BY <2>1, <2>5, <2>10 DEF q
<1>12. n \in S
  <2> HIDE DEF S
  <2>1. \A k \in 0..n : k \in S
    BY <1>1, <1>10, <1>11, CountUp
  <2> QED
    BY <1>1, <2>1
<1> QED
  BY <1>8, <1>12 DEF n

--------------------------------------------------------------------------------
(* The candidates, read in order. *)
Readings == {r \in [plan : SoundPlans, survivors : Seq(Nat), over : Nat] : Len(r.survivors) <= Caps.survivors}

ReadOne(before, c) ==
  LET code == read_state(Tree[c.real].file)
  IN  CASE Len(before.survivors) = Caps.survivors -> [before EXCEPT !.over = @ + 1]
        [] Len(before.survivors) < Caps.survivors /\ code # "none" ->
             [before EXCEPT !.plan = skip(@, c.at, _SKIP_REASONS[code])]
        [] Len(before.survivors) < Caps.survivors /\ code = "none" ->
             IF Tree[c.real].file.units = 0 THEN [before EXCEPT !.plan = skip(@, c.at, "empty")]
             ELSE [before EXCEPT !.survivors = Append(@, c.real)]

Readable(s) == read_state(Tree[s].file) = "none" /\ Tree[s].file.units # 0

(* What one reading does. *)
Passed(r, q, c) == q.plan = r.plan /\ q.survivors = r.survivors /\ q.over = r.over + 1 /\ Len(r.survivors) = Caps.survivors
Refuses(r, q, c) ==
  /\ q.survivors = r.survivors /\ q.over = r.over /\ Later(r.plan, q.plan)
  /\ q.plan.candidates = r.plan.candidates /\ q.plan.unexpanded = r.plan.unexpanded
  /\ \/ Len(q.plan.more) = Len(r.plan.more) /\ c.at \in RowPaths(q.plan)
     \/ Len(q.plan.more) = Len(r.plan.more) + 1
Survives(r, q, c) ==
  /\ q.plan = r.plan /\ q.over = r.over /\ q.survivors = Append(r.survivors, c.real)
  /\ Len(r.survivors) < Caps.survivors /\ Readable(c.real)

LEMMA ReadOneKeeps ==
  ASSUME NEW r \in Readings, NEW c \in Candidates
  PROVE  LET q == ReadOne(r, c)
         IN  q \in Readings /\ (Passed(r, q, c) \/ Refuses(r, q, c) \/ Survives(r, q, c))
<1> DEFINE q == ReadOne(r, c)
           code == read_state(Tree[c.real].file)
<1>1. r \in [plan : SoundPlans, survivors : Seq(Nat), over : Nat] /\ Len(r.survivors) <= Caps.survivors
  BY DEF Readings
<1>2. Len(r.survivors) \in Nat /\ Caps.survivors \in Nat /\ r.plan \in SoundPlans /\ r.survivors \in Seq(Nat) /\ r.over \in Nat
  BY <1>1, LenProperties, CapsAreNat
<1>3. c.at \in Int /\ c.real \in Nat
  BY TreeFacts DEF Candidates, Nodes
<1>4. ASSUME NEW reason \in Reasons, q = [r EXCEPT !.plan = skip(r.plan, c.at, reason)]
      PROVE  q \in Readings /\ Refuses(r, q, c)
  <2> DEFINE p == skip(r.plan, c.at, reason)
  <2>1. /\ p \in SoundPlans /\ Later(r.plan, p) /\ p.candidates = r.plan.candidates /\ p.unexpanded = r.plan.unexpanded
        /\ \/ Len(p.more) = Len(r.plan.more) /\ c.at \in RowPaths(p)
           \/ Len(p.more) = Len(r.plan.more) + 1
    BY <1>2, <1>3, SkipKeeps
  <2>2. q = [r EXCEPT !.plan = p]
    BY <1>4
  <2> HIDE DEF p, q
  <2>3. q \in [plan : SoundPlans, survivors : Seq(Nat), over : Nat] /\ q.plan = p /\ q.survivors = r.survivors /\ q.over = r.over
    BY <1>1, <2>1, <2>2
  <2> QED
    BY <1>1, <2>1, <2>3 DEF Readings, Refuses
<1>5. CASE Len(r.survivors) = Caps.survivors
  <2>1. q = [r EXCEPT !.over = r.over + 1]
    BY <1>2, <1>5 DEF ReadOne
  <2> HIDE DEF q
  <2>2. q \in [plan : SoundPlans, survivors : Seq(Nat), over : Nat] /\ q.plan = r.plan /\ q.survivors = r.survivors
        /\ q.over = r.over + 1
    BY <1>1, <1>2, <2>1
  <2>3. q \in Readings /\ Passed(r, q, c)
    BY <1>1, <1>5, <2>2 DEF Readings, Passed
  <2> QED
    BY <2>3 DEF q
<1>6. CASE Len(r.survivors) # Caps.survivors
  <2>1. Len(r.survivors) < Caps.survivors
    BY <1>1, <1>2, <1>6
  <2>2. CASE code # "none"
    <3>1. q = [r EXCEPT !.plan = skip(r.plan, c.at, _SKIP_REASONS[code])]
      BY <1>6, <2>1, <2>2 DEF ReadOne
    <3>2. _SKIP_REASONS[code] \in Reasons
      BY <1>3 DEF Reasons
    <3>3. q \in Readings /\ Refuses(r, q, c)
      <4> HIDE DEF q
      <4> QED
        BY <1>4, <3>1, <3>2
    <3> QED
      BY <3>3
  <2>3. CASE code = "none" /\ Tree[c.real].file.units = 0
    <3>1. q = [r EXCEPT !.plan = skip(r.plan, c.at, "empty")]
      BY <1>6, <2>1, <2>3 DEF ReadOne
    <3>2. "empty" \in Reasons
      BY DEF Reasons
    <3>3. q \in Readings /\ Refuses(r, q, c)
      <4> HIDE DEF q
      <4> QED
        BY <1>4, <3>1, <3>2
    <3> QED
      BY <3>3
  <2>4. CASE code = "none" /\ Tree[c.real].file.units # 0
    <3> DEFINE s == Append(r.survivors, c.real)
    <3>1. q = [r EXCEPT !.survivors = s]
      BY <1>6, <2>1, <2>4 DEF ReadOne
    <3>2. s \in Seq(Nat) /\ Len(s) = Len(r.survivors) + 1
      BY <1>2, <1>3, AppendProperties
    <3>3. Len(s) <= Caps.survivors
      BY <1>2, <2>1, <3>2
    <3>4. s = Append(r.survivors, c.real)
      OBVIOUS
    <3> HIDE DEF s, q
    <3>5. q \in [plan : SoundPlans, survivors : Seq(Nat), over : Nat] /\ q.plan = r.plan /\ q.survivors = s /\ q.over = r.over
      BY <1>1, <3>1, <3>2
    <3>6. q \in Readings
      BY <3>3, <3>5 DEF Readings
    <3>7. Survives(r, q, c)
      BY <2>1, <2>4, <3>4, <3>5 DEF Survives, Readable
    <3> QED
      BY <3>6, <3>7 DEF q
  <2> QED
    BY <2>2, <2>3, <2>4
<1> QED
  BY <1>5, <1>6

Met(p, k) == {p.candidates[l].real : l \in 1..k}
Listed(q) == {Tree[i].real : i \in RowPaths(q) \cap Nodes}
Missed(p, r, k) == Met(p, k) \ (Range(r.survivors) \cup Listed(r.plan))

(* What the reader holds after k candidates. *)
ReadInv(p, r, k) ==
  /\ Later(p, r.plan) /\ r.plan.unexpanded = p.unexpanded
  /\ r.over > 0 => Len(r.survivors) = Caps.survivors
  /\ Range(r.survivors) \subseteq Met(p, k)
  /\ IsInjective(r.survivors)
  /\ \A s \in Range(r.survivors) : Readable(s)
  /\ IsFiniteSet(Missed(p, r, k)) /\ Cardinality(Missed(p, r, k)) <= r.over + Len(r.plan.more)

LEMMA OneMoreMissed ==
  ASSUME NEW S, IsFiniteSet(S), NEW x, NEW T, T \subseteq S \cup {x}
  PROVE  IsFiniteSet(T) /\ Cardinality(T) <= Cardinality(S) + 1
<1>0. Cardinality(S) \in Nat
  BY FS_CardinalityType
<1>1. IsFiniteSet(S \cup {x}) /\ Cardinality(S \cup {x}) <= Cardinality(S) + 1
  <2>1. IsFiniteSet(S \cup {x}) /\ (Cardinality(S \cup {x}) = Cardinality(S) \/ Cardinality(S \cup {x}) = Cardinality(S) + 1)
    BY FS_AddElement
  <2> QED
    BY <1>0, <2>1
<1>2. IsFiniteSet(T) /\ Cardinality(T) <= Cardinality(S \cup {x})
  BY <1>1, FS_Subset
<1>3. Cardinality(S) \in Nat /\ Cardinality(T) \in Nat /\ Cardinality(S \cup {x}) \in Nat
  BY <1>1, <1>2, FS_CardinalityType
<1> QED
  BY <1>1, <1>2, <1>3

LEMMA ReadingKeeps ==
  ASSUME NEW p \in SoundPlans, NEW k \in 1..Len(p.candidates), NEW r \in Readings, NEW q \in Readings,
         ReadInv(p, r, k - 1),
         Passed(r, q, p.candidates[k]) \/ Refuses(r, q, p.candidates[k]) \/ Survives(r, q, p.candidates[k])
  PROVE  ReadInv(p, q, k)
<1> DEFINE n == Len(p.candidates)
           c == p.candidates[k]
           l == k - 1
           R == Missed(p, r, l)
           Q == Missed(p, q, k)
<1>1. /\ p \in Plans /\ Bounded(p) /\ TakenOnce(p) /\ Resolved(p) /\ p.candidates \in Seq(Candidates)
      /\ p.unexpanded \in Nat
  BY DEF SoundPlans, Plans
<1>2. n \in Nat /\ DOMAIN p.candidates = 1..n /\ \A j \in 1..n : p.candidates[j] \in Candidates
  BY <1>1, LenProperties, ElementOfSeq
<1>3. c \in Candidates /\ c \in Range(p.candidates) /\ c.at \in Nodes /\ c.real \in Nat /\ c.real = Tree[c.at].real
  <2>1. c \in Candidates /\ c \in Range(p.candidates)
    BY <1>2 DEF Range
  <2> QED
    BY <1>1, <2>1 DEF Candidates, Resolved
<1>4. k \in Nat /\ l \in Nat /\ l < k /\ k <= n /\ k = l + 1 /\ \A j \in 1..k : j \in 1..l \/ j = k
  BY <1>2
<1>5. Met(p, k) = Met(p, l) \cup {c.real}
  <2>1. \A x \in Met(p, k) : x \in Met(p, l) \cup {c.real}
    BY <1>4 DEF Met
  <2>2. \A x \in Met(p, l) : x \in Met(p, k)
    <3>1. \A j \in 1..l : j \in 1..k
      BY <1>4
    <3> QED
      BY <3>1 DEF Met
  <2>3. c.real \in Met(p, k)
    <3>1. k \in 1..k
      BY <1>4
    <3> QED
      BY <3>1 DEF Met
  <2> QED
    BY <2>1, <2>2, <2>3
<1>6. c.real \notin Met(p, l)
  <2>1. \A j \in 1..l : j \in 1..n /\ j # k
    BY <1>2, <1>4
  <2>2. \A j \in 1..l : p.candidates[j].real # c.real
    BY <1>1, <2>1 DEF TakenOnce
  <2> QED
    BY <2>2 DEF Met
<1>7. /\ r.plan \in SoundPlans /\ q.plan \in SoundPlans /\ r.survivors \in Seq(Nat) /\ q.survivors \in Seq(Nat)
      /\ r.over \in Nat /\ q.over \in Nat /\ r.plan \in Plans /\ q.plan \in Plans
  BY DEF Readings, SoundPlans
<1>8. Len(r.plan.more) \in Nat /\ Len(q.plan.more) \in Nat /\ Len(r.survivors) \in Nat
  BY <1>7, LenProperties DEF Plans
<1>9. /\ Later(p, r.plan) /\ r.plan.unexpanded = p.unexpanded
      /\ r.over > 0 => Len(r.survivors) = Caps.survivors
      /\ Range(r.survivors) \subseteq Met(p, l)
      /\ IsInjective(r.survivors)
      /\ \A s \in Range(r.survivors) : Readable(s)
      /\ IsFiniteSet(R) /\ Cardinality(R) <= r.over + Len(r.plan.more)
  BY DEF ReadInv
<1>10. Cardinality(R) \in Nat
  BY <1>9, FS_CardinalityType
<1> HIDE DEF n, c, l
<1>11. ASSUME RowPaths(r.plan) \subseteq RowPaths(q.plan), Range(r.survivors) \subseteq Range(q.survivors)
       PROVE  /\ Q \subseteq R \cup {c.real} /\ IsFiniteSet(Q) /\ Cardinality(Q) \in Nat /\ Cardinality(Q) <= Cardinality(R) + 1
              /\ c.real \in Range(q.survivors) \cup Listed(q.plan) => Cardinality(Q) <= Cardinality(R)
  <2>1. Listed(r.plan) \subseteq Listed(q.plan)
    BY <1>11 DEF Listed
  <2>2. Q \subseteq R \cup {c.real}
    BY <1>5, <1>11, <2>1 DEF Missed
  <2>3. c.real \in Range(q.survivors) \cup Listed(q.plan) => Q \subseteq R
    BY <2>2 DEF Missed
  <2> HIDE DEF R, Q
  <2>4. IsFiniteSet(Q) /\ Cardinality(Q) <= Cardinality(R) + 1
    BY <1>9, <2>2, OneMoreMissed
  <2>5. Cardinality(Q) \in Nat
    BY <2>4, FS_CardinalityType
  <2>6. Q \subseteq R => Cardinality(Q) <= Cardinality(R)
    BY <1>9, FS_Subset
  <2> QED
    BY <2>2, <2>3, <2>4, <2>5, <2>6
<1>12. CASE Passed(r, q, c)
  <2>1. q.plan = r.plan /\ q.survivors = r.survivors /\ q.over = r.over + 1 /\ Len(r.survivors) = Caps.survivors
    BY <1>12 DEF Passed
  <2>2. IsFiniteSet(Q) /\ Cardinality(Q) \in Nat /\ Cardinality(Q) <= Cardinality(R) + 1
    BY <1>11, <2>1
  <2> HIDE DEF R, Q
  <2>3. Cardinality(Q) <= q.over + Len(q.plan.more)
    <3>1. Len(q.plan.more) = Len(r.plan.more) /\ r.over \in Nat
      BY <1>7, <2>1
    <3> QED
      BY <1>8, <1>9, <1>10, <2>1, <2>2, <3>1
  <2> QED
    BY <1>5, <1>9, <2>1, <2>2, <2>3 DEF ReadInv, Q
<1>13. CASE Refuses(r, q, c)
  <2>1. /\ q.survivors = r.survivors /\ q.over = r.over /\ Later(r.plan, q.plan)
        /\ q.plan.unexpanded = r.plan.unexpanded
        /\ \/ Len(q.plan.more) = Len(r.plan.more) /\ c.at \in RowPaths(q.plan)
           \/ Len(q.plan.more) = Len(r.plan.more) + 1
    BY <1>13 DEF Refuses
  <2>2. RowPaths(r.plan) \subseteq RowPaths(q.plan)
    BY <2>1 DEF Later
  <2>3. IsFiniteSet(Q) /\ Cardinality(Q) \in Nat /\ Cardinality(Q) <= Cardinality(R) + 1
    BY <1>11, <2>1, <2>2
  <2>4. c.at \in RowPaths(q.plan) => Cardinality(Q) <= Cardinality(R)
    <3>1. c.at \in RowPaths(q.plan) => c.real \in Listed(q.plan)
      BY <1>3 DEF Listed
    <3> QED
      BY <1>11, <2>1, <2>2, <3>1
  <2> HIDE DEF R, Q
  <2>5. Cardinality(Q) <= q.over + Len(q.plan.more)
    BY <1>7, <1>8, <1>9, <1>10, <2>1, <2>3, <2>4
  <2>6. Later(p, q.plan)
    BY <1>1, <1>7, <1>9, <2>1, LaterStill
  <2> QED
    BY <1>5, <1>9, <2>1, <2>3, <2>5, <2>6 DEF ReadInv, Q
<1>14. CASE Survives(r, q, c)
  <2>1. /\ q.plan = r.plan /\ q.over = r.over /\ q.survivors = Append(r.survivors, c.real)
        /\ Len(r.survivors) < Caps.survivors /\ Readable(c.real)
    BY <1>14 DEF Survives
  <2>2. Range(q.survivors) = Range(r.survivors) \cup {c.real}
    BY <1>3, <1>7, <2>1, RangeOfAppend
  <2>3. IsFiniteSet(Q) /\ Cardinality(Q) \in Nat /\ Cardinality(Q) <= Cardinality(R)
    BY <1>11, <2>1, <2>2
  <2> HIDE DEF R, Q
  <2>4. Cardinality(Q) <= q.over + Len(q.plan.more)
    BY <1>7, <1>8, <1>9, <1>10, <2>1, <2>3
  <2>5. ~(q.over > 0)
    BY <1>7, <1>8, <1>9, <2>1, CapsAreNat
  <2>6. IsInjective(q.survivors)
    <3> DEFINE m == Len(r.survivors)
    <3>1. /\ m \in Nat /\ DOMAIN r.survivors = 1..m /\ DOMAIN q.survivors = 1..(m + 1)
          /\ (\A j \in 1..m : q.survivors[j] = r.survivors[j]) /\ q.survivors[m + 1] = c.real
      BY <1>3, <1>7, <2>1, AppendProperties, LenProperties
    <3>2. \A j \in 1..m : r.survivors[j] # c.real
      <4>1. \A j \in 1..m : r.survivors[j] \in Range(r.survivors)
        BY <3>1 DEF Range
      <4> QED
        BY <1>6, <1>9, <4>1
    <3>3. \A j \in 1..(m + 1) : j \in 1..m \/ j = m + 1
      BY <3>1
    <3>4. \A i, j \in 1..m : r.survivors[i] = r.survivors[j] => i = j
      BY <1>9, <3>1 DEF IsInjective
    <3> HIDE DEF m
    <3>5. \A i, j \in 1..(m + 1) : q.survivors[i] = q.survivors[j] => i = j
      BY <3>1, <3>2, <3>3, <3>4
    <3> QED
      BY <3>1, <3>5 DEF IsInjective
  <2> QED
    BY <1>5, <1>9, <2>1, <2>2, <2>3, <2>4, <2>5, <2>6 DEF ReadInv, Q
<1> QED
  BY <1>12, <1>13, <1>14 DEF c

LEMMA ReadAllKeeps ==
  ASSUME NEW p \in SoundPlans
  PROVE  ReadAll(p) \in Readings /\ ReadInv(p, ReadAll(p), Len(p.candidates))
<1> DEFINE n == Len(p.candidates)
           cs == p.candidates
           a == [plan |-> p, survivors |-> <<>>, over |-> 0]
           Good(f) == f = [k \in 0..n |->
             IF k = 0 THEN [plan |-> p, survivors |-> <<>>, over |-> 0]
             ELSE LET before == f[k - 1]
                      c == p.candidates[k]
                      code == read_state(Tree[c.real].file)
                  IN  CASE Len(before.survivors) = Caps.survivors -> [before EXCEPT !.over = @ + 1]
                        [] Len(before.survivors) < Caps.survivors /\ code # "none" ->
                             [before EXCEPT !.plan = skip(@, c.at, _SKIP_REASONS[code])]
                        [] Len(before.survivors) < Caps.survivors /\ code = "none" ->
                             IF Tree[c.real].file.units = 0 THEN [before EXCEPT !.plan = skip(@, c.at, "empty")]
                             ELSE [before EXCEPT !.survivors = Append(@, c.real)]]
           Read(f) == f = [k \in 0..n |-> IF k = 0 THEN a ELSE ReadOne(f[k - 1], cs[k])]
           step == [k \in 1..n |-> [x \in Readings |-> ReadOne(x, cs[k])]]
<1>1. /\ p \in Plans /\ cs \in Seq(Candidates) /\ n \in Nat /\ \A k \in 1..n : cs[k] \in Candidates
      /\ Len(p.more) \in Nat /\ p.unexpanded \in Nat
  <2>1. p \in Plans /\ cs \in Seq(Candidates) /\ p.more \in Seq(Reasons) /\ p.unexpanded \in Nat
    BY DEF SoundPlans, Plans
  <2> QED
    BY <2>1, LenProperties, ElementOfSeq
<1>2. a \in Readings /\ a.plan = p /\ a.survivors = <<>> /\ a.over = 0
  BY CapsAreNat DEF Readings
<1>3. \A f : Read(f) <=> Good(f)
  BY DEF ReadOne
<1> HIDE DEF n, cs, a
<1>4. step \in Steps(n, Readings)
  <2>1. \A k \in 1..n, x \in Readings : ReadOne(x, cs[k]) \in Readings
    BY <1>1, ReadOneKeeps
  <2> QED
    BY <2>1 DEF Steps
<1>5. PICK g : IsTrace(g, n, Readings, a, step)
  <2> HIDE DEF step
  <2> QED
    BY <1>1, <1>2, <1>4, Iterate
<1>6. g \in [0..n -> Readings] /\ g[0] = a /\ \A k \in 1..n : g[k] = ReadOne(g[k - 1], cs[k])
  <2>1. g \in [0..n -> Readings] /\ g[0] = a /\ \A k \in 1..n : g[k] = step[k][g[k - 1]]
    <3> HIDE DEF step
    <3> QED
      BY <1>5 DEF IsTrace
  <2>2. \A k \in 1..n : g[k - 1] \in Readings
    BY <1>1, <2>1
  <2>3. \A k \in 1..n : step[k][g[k - 1]] = ReadOne(g[k - 1], cs[k])
    BY <2>2
  <2> HIDE DEF step
  <2> QED
    BY <2>1, <2>3
<1> HIDE DEF step
<1>7. Read(g)
  <2>1. g = [k \in 0..n |-> g[k]]
    BY <1>6
  <2>2. \A k \in 0..n : k = 0 \/ k \in 1..n
    BY <1>1
  <2>3. \A k \in 0..n : g[k] = IF k = 0 THEN a ELSE ReadOne(g[k - 1], cs[k])
    BY <1>6, <2>2
  <2> QED
    BY <2>1, <2>3
<1> DEFINE f == CHOOSE h : Good(h)
<1>8. Read(f)
  <2> HIDE DEF Read, Good
  <2>1. Good(f)
    BY <1>3, <1>7
  <2> QED
    BY <1>3, <2>1
<1>9. ReadAll(p) = f[n]
  BY DEF ReadAll, n
<1> HIDE DEF f, Good
<1>10. f[0] = a /\ \A k \in 1..n : f[k] = ReadOne(f[k - 1], cs[k])
  <2>1. 0 \in 0..n /\ \A k \in 1..n : k \in 0..n /\ k # 0
    BY <1>1
  <2> QED
    BY <1>8, <2>1
<1> HIDE DEF Read
<1> DEFINE S == {k \in 0..n : f[k] \in Readings /\ ReadInv(p, f[k], k)}
<1>11. 0 \in S
  <2>1. Range(<<>>) = {} /\ IsInjective(<<>>)
    BY DEF Range, IsInjective
  <2>2. Met(p, 0) = {}
    BY DEF Met
  <2>3. Missed(p, a, 0) = {}
    BY <2>2 DEF Missed
  <2>4. IsFiniteSet({}) /\ Cardinality({}) = 0
    BY FS_EmptySet
  <2>5. Later(p, p)
    BY <1>1 DEF Later
  <2>6. ReadInv(p, a, 0)
    <3>1. Later(p, a.plan) /\ a.plan.unexpanded = p.unexpanded /\ ~(a.over > 0)
      BY <1>2, <2>5
    <3>2. Range(a.survivors) = {} /\ IsInjective(a.survivors)
      BY <1>2, <2>1
    <3>3. IsFiniteSet(Missed(p, a, 0)) /\ Cardinality(Missed(p, a, 0)) <= a.over + Len(a.plan.more)
      <4>1. IsFiniteSet(Missed(p, a, 0)) /\ Cardinality(Missed(p, a, 0)) = 0
        BY <2>3, <2>4
      <4>2. 0 <= a.over + Len(a.plan.more)
        BY <1>1, <1>2
      <4> QED
        BY <4>1, <4>2
    <3> QED
      BY <3>1, <3>2, <3>3 DEF ReadInv
  <2> QED
    BY <1>1, <1>2, <1>10, <2>6
<1>12. ASSUME NEW k \in 1..n, k - 1 \in S PROVE k \in S
  <2> DEFINE x == f[k - 1]
             q == f[k]
  <2>1. x \in Readings /\ ReadInv(p, x, k - 1) /\ k \in 0..n /\ cs[k] \in Candidates
    BY <1>1, <1>12
  <2>2. q = ReadOne(x, cs[k])
    BY <1>10
  <2> HIDE DEF x, q
  <2>3. q \in Readings /\ (Passed(x, q, cs[k]) \/ Refuses(x, q, cs[k]) \/ Survives(x, q, cs[k]))
    BY <2>1, <2>2, ReadOneKeeps
  <2>4. ReadInv(p, q, k)
    <3>1. k \in 1..Len(p.candidates) /\ cs[k] = p.candidates[k]
      BY DEF n, cs
    <3>2. \/ Passed(x, q, p.candidates[k])
          \/ Refuses(x, q, p.candidates[k])
          \/ Survives(x, q, p.candidates[k])
      BY <2>3, <3>1
    <3> QED
      BY <2>1, <2>3, <3>1, <3>2, ReadingKeeps
  <2> QED
    BY <2>1, <2>3, <2>4 DEF q
<1>13. n \in S
  <2> HIDE DEF S
  <2>1. \A k \in 0..n : k \in S
    BY <1>1, <1>11, <1>12, CountUp
  <2> QED
    BY <1>1, <2>1
<1> QED
  BY <1>9, <1>13 DEF n

(* What read_state lets through. *)
LEMMA ReadableIs ==
  ASSUME NEW s \in Nodes, Readable(s)
  PROVE  Tree[s].file.kind = "regular" /\ Tree[s].file.name # "secret" /\ Tree[s].file.units > 0
<1> DEFINE file == Tree[s].file
           checks == << <<~resolve_scoped(file), "path_outside_scope">>,
                        <<is_secret_store(file), "secret_file">>,
                        <<file.kind = "missing", "not_found">>,
                        <<file.kind \in {"unstatable", "directory"}, "not_a_file">>,
                        <<file.bytes > 4 * Caps.file_units, "file_too_large">>,
                        <<file.kind = "unreadable", "not_a_file">>,
                        <<file.kind = "binary", "binary_file">>,
                        <<file.units > Caps.file_units, "file_too_large">> >>
<1>1. file.kind \in FileKinds /\ file.units \in Nat /\ file.units # 0
  BY PlanAssumption, TreeFacts DEF PlanAssumption, Readable
<1>2. First(checks) = "none"
  BY DEF Readable, read_state
<1> HIDE DEF file
<1>3. DOMAIN checks = 1..8 /\ (\A i \in 1..8 : checks[i][2] # "none") /\ 8 \in Nat
  OBVIOUS
<1>4. /\ checks[2][1] = is_secret_store(file)
      /\ checks[3][1] = (file.kind = "missing") /\ checks[4][1] = (file.kind \in {"unstatable", "directory"})
      /\ checks[6][1] = (file.kind = "unreadable") /\ checks[7][1] = (file.kind = "binary")
  OBVIOUS
<1>5. ~checks[2][1] /\ ~checks[3][1] /\ ~checks[4][1] /\ ~checks[6][1] /\ ~checks[7][1]
  <2> HIDE DEF checks
  <2>1. \A i \in 1..8 : ~checks[i][1]
    BY <1>2, <1>3, NoneFailed
  <2> QED
    BY <2>1
<1> HIDE DEF checks
<1>6. /\ ~is_secret_store(file) /\ file.kind # "missing" /\ file.kind \notin {"unstatable", "directory"}
      /\ file.kind # "unreadable" /\ file.kind # "binary"
  BY <1>4, <1>5, Zenon
<1>7. file.kind = "regular" /\ file.name # "secret"
  BY <1>1, <1>6 DEF FileKinds, is_secret_store
<1>8. file.units > 0
  BY <1>1
<1> QED
  BY <1>7, <1>8 DEF file

--------------------------------------------------------------------------------
(* PlanHonest, of the arguments and the reply it is about. *)
Meant(paths, recursive) == {i \in DOMAIN Tree : \E e \in Range(paths) : StandsFor(e, i, recursive)}
Named(paths) == {e.node : e \in {x \in Range(paths) : x.what = "file"}}
PrunedOf(paths, recursive) == {i \in Meant(paths, recursive) \ Named(paths) : Pruned(i)}
Wanted(paths, recursive) == {Tree[i].real : i \in Meant(paths, recursive) \ PrunedOf(paths, recursive)} \ {0}

HonestPlan(paths, recursive, r) ==
  /\ IsInjective(r.survivors) /\ Range(r.survivors) \subseteq Wanted(paths, recursive)
  /\ \A s \in Range(r.survivors) : Tree[s].file.kind = "regular" /\ Tree[s].file.name # "secret" /\ Tree[s].file.units > 0
  /\ r.plan.unexpanded = 0 =>
       Cardinality(Wanted(paths, recursive) \ (Range(r.survivors) \cup {Tree[i].real : i \in RowPaths(r.plan) \cap DOMAIN Tree}))
         <= r.over + Len(r.plan.more)
  /\ r.over > 0 => Len(r.survivors) = Caps.survivors
  /\ r.plan.more # <<>> => Len(r.plan.skipped) = Caps.skip_rows
  /\ \A n \in DOMAIN paths :
       (\A i \in DOMAIN Tree : ~StandsFor(paths[n], i, recursive)) /\ paths[n].what # "glob" =>
         -n \in RowPaths(r.plan) \/ r.plan.more # <<>>

(* A file is wanted when an entry asks for it. *)
LEMMA WantedIs ==
  ASSUME NEW paths \in PathLists, NEW recursive \in BOOLEAN
  PROVE  /\ \A x \in Wanted(paths, recursive) :
              \E m \in 1..Len(paths), i \in Nodes : AskedFor(paths[m], i, recursive) /\ x = Tree[i].real
         /\ \A m \in 1..Len(paths), i \in Nodes :
              AskedFor(paths[m], i, recursive) => Tree[i].real \in Wanted(paths, recursive)
<1>1. DOMAIN paths = 1..Len(paths) /\ DOMAIN Tree = Nodes
  <2>1. List(paths)
    BY PlanAssumption DEF PlanAssumption
  <2> QED
    BY <2>1, ListIsSeq, TreeFacts
<1>2. \A e \in Range(paths) : \E m \in 1..Len(paths) : e = paths[m]
  BY <1>1 DEF Range
<1>3. \A m \in 1..Len(paths) : paths[m] \in Range(paths)
  BY <1>1 DEF Range
<1>4. \A e, i : e.what = "file" => (StandsFor(e, i, recursive) <=> i = e.node)
  BY DEF StandsFor
<1>5. ASSUME NEW x \in Wanted(paths, recursive)
      PROVE  \E m \in 1..Len(paths), i \in Nodes : AskedFor(paths[m], i, recursive) /\ x = Tree[i].real
  <2>1. PICK i \in Nodes : /\ i \in Meant(paths, recursive) /\ i \notin PrunedOf(paths, recursive)
                           /\ x = Tree[i].real /\ Tree[i].real # 0
    BY <1>1 DEF Wanted, Meant
  <2>2. CASE i \in Named(paths)
    <3>1. PICK e \in Range(paths) : e.what = "file" /\ e.node = i
      BY <2>2 DEF Named
    <3>2. AskedFor(e, i, recursive)
      BY <1>4, <2>1, <3>1 DEF AskedFor, Kept
    <3> QED
      BY <1>2, <2>1, <3>2
  <2>3. CASE i \notin Named(paths)
    <3>1. ~Pruned(i)
      BY <2>1, <2>3 DEF PrunedOf
    <3>2. PICK e \in Range(paths) : StandsFor(e, i, recursive)
      BY <2>1 DEF Meant
    <3>3. AskedFor(e, i, recursive)
      BY <2>1, <3>1, <3>2 DEF AskedFor, Kept
    <3> QED
      BY <1>2, <2>1, <3>3
  <2> QED
    BY <2>2, <2>3
<1>6. ASSUME NEW m \in 1..Len(paths), NEW i \in Nodes, AskedFor(paths[m], i, recursive)
      PROVE  Tree[i].real \in Wanted(paths, recursive)
  <2>1. StandsFor(paths[m], i, recursive) /\ Tree[i].real # 0 /\ ~(paths[m].what # "file" /\ Pruned(i))
    BY <1>6 DEF AskedFor, Kept
  <2>2. i \in Meant(paths, recursive)
    BY <1>1, <1>3, <2>1 DEF Meant
  <2>3. i \notin PrunedOf(paths, recursive)
    <3>1. CASE paths[m].what = "file"
      <4>1. i = paths[m].node
        BY <1>4, <2>1, <3>1
      <4>2. i \in Named(paths)
        BY <1>3, <3>1, <4>1 DEF Named
      <4> QED
        BY <4>2 DEF PrunedOf
    <3>2. CASE paths[m].what # "file"
      BY <2>1, <3>2 DEF PrunedOf
    <3> QED
      BY <3>1, <3>2
  <2> QED
    BY <2>1, <2>2, <2>3 DEF Wanted
<1> QED
  BY <1>5, <1>6

LEMMA PlanIsHonest ==
  ASSUME NEW paths \in PathLists, NEW recursive \in BOOLEAN
  PROVE  HonestPlan(paths, recursive, plan(paths, recursive))
<1> DEFINE r == plan(paths, recursive)
           W == Wanted(paths, recursive)
           m == Len(paths)
<1>1. PICK p \in SoundPlans : r = ReadAll(p) /\ AllExpanded(p, paths, recursive, m)
  BY EntriesExpand
<1> DEFINE n == Len(p.candidates)
<1> HIDE DEF r, W, m
<1>2. r \in Readings /\ ReadInv(p, r, n)
  BY <1>1, ReadAllKeeps
<1>3. /\ Later(p, r.plan) /\ r.plan.unexpanded = p.unexpanded
      /\ r.over > 0 => Len(r.survivors) = Caps.survivors
      /\ Range(r.survivors) \subseteq Met(p, n)
      /\ IsInjective(r.survivors)
      /\ \A s \in Range(r.survivors) : Readable(s)
      /\ IsFiniteSet(Missed(p, r, n)) /\ Cardinality(Missed(p, r, n)) <= r.over + Len(r.plan.more)
  BY <1>2 DEF ReadInv
<1>4. /\ r.plan \in SoundPlans /\ r.over \in Nat /\ Len(r.plan.more) \in Nat
  <2>1. r.plan \in SoundPlans /\ r.over \in Nat
    BY <1>2 DEF Readings
  <2>2. r.plan.more \in Seq(Reasons)
    BY <2>1 DEF SoundPlans, Plans
  <2> QED
    BY <2>1, <2>2, LenProperties
<1>5. /\ p.candidates \in Seq(Candidates) /\ Resolved(p) /\ n \in Nat /\ DOMAIN p.candidates = 1..n
  <2>1. p.candidates \in Seq(Candidates) /\ Resolved(p)
    BY DEF SoundPlans, Plans
  <2> QED
    BY <2>1, LenProperties
<1> HIDE DEF n
<1>6. Met(p, n) = Reals(p)
  BY <1>5 DEF Met, Reals, Range
<1>7. Reals(p) \subseteq W
  <2> SUFFICES ASSUME NEW c \in Range(p.candidates) PROVE c.real \in W
    BY DEF Reals
  <2>1. PICK k \in 1..m : AskedFor(paths[k], c.at, recursive)
    BY <1>1 DEF AllExpanded
  <2>2. c \in Candidates
    <3>1. PICK j \in 1..n : c = p.candidates[j]
      BY <1>5 DEF Range
    <3> QED
      BY <1>5, <3>1, ElementOfSeq DEF n
  <2>3. c.at \in Nodes /\ c.real = Tree[c.at].real
    BY <1>5, <2>2 DEF Candidates, Resolved
  <2> QED
    BY <2>1, <2>3, WantedIs DEF W, m
<1>8. Range(r.survivors) \subseteq W
  BY <1>3, <1>6, <1>7
<1>9. ASSUME NEW s \in Range(r.survivors)
      PROVE  Tree[s].file.kind = "regular" /\ Tree[s].file.name # "secret" /\ Tree[s].file.units > 0
  <2>1. PICK i \in Nodes : s = Tree[i].real
    BY <1>8, WantedIs DEF W
  <2>2. s # 0
    BY <1>8 DEF W, Wanted
  <2>3. s \in 0..Len(Tree) /\ Len(Tree) \in Nat
    BY <2>1, PlanAssumption, TreeFacts DEF PlanAssumption
  <2>4. s \in Nodes
    BY <2>2, <2>3 DEF Nodes
  <2> QED
    BY <1>3, <2>4, ReadableIs
<1>10. ASSUME r.plan.unexpanded = 0
       PROVE  Cardinality(W \ (Range(r.survivors) \cup Listed(r.plan))) <= r.over + Len(r.plan.more)
  <2> DEFINE V == W \ (Range(r.survivors) \cup Listed(r.plan))
             M == Missed(p, r, n)
  <2>1. \A k \in 1..m : \A i \in Nodes : AskedFor(paths[k], i, recursive) => Tree[i].real \in Reals(p)
    BY <1>1, <1>3, <1>10 DEF AllExpanded
  <2>2. W \subseteq Reals(p)
    <3> SUFFICES ASSUME NEW x \in W PROVE x \in Reals(p)
      OBVIOUS
    <3>1. PICK k \in 1..m, i \in Nodes : AskedFor(paths[k], i, recursive) /\ x = Tree[i].real
      BY WantedIs DEF W, m
    <3> QED
      BY <2>1, <3>1
  <2>3. V \subseteq M
    BY <1>6, <2>2 DEF Missed
  <2>4. IsFiniteSet(M) /\ Cardinality(M) <= r.over + Len(r.plan.more)
    BY <1>3
  <2> HIDE DEF V, M
  <2>5. IsFiniteSet(V) /\ Cardinality(V) <= Cardinality(M)
    BY <2>3, <2>4, FS_Subset
  <2>6. Cardinality(V) \in Nat /\ Cardinality(M) \in Nat
    BY <2>4, <2>5, FS_CardinalityType
  <2>7. Cardinality(V) <= r.over + Len(r.plan.more)
    BY <1>4, <2>4, <2>5, <2>6
  <2> QED
    BY <2>7 DEF V
<1>11. Listed(r.plan) = {Tree[i].real : i \in RowPaths(r.plan) \cap DOMAIN Tree}
  BY TreeFacts DEF Listed
<1>12. r.plan.more # <<>> => Len(r.plan.skipped) = Caps.skip_rows
  BY <1>4 DEF SoundPlans, Bounded
<1>13. ASSUME NEW k \in DOMAIN paths, \A i \in DOMAIN Tree : ~StandsFor(paths[k], i, recursive), paths[k].what # "glob"
       PROVE  -k \in RowPaths(r.plan) \/ r.plan.more # <<>>
  <2>1. k \in 1..m
    <3>1. List(paths)
      BY PlanAssumption DEF PlanAssumption
    <3> QED
      BY <3>1, ListIsSeq DEF m
  <2>2. Silent(paths[k], recursive)
    BY <1>13, TreeFacts DEF Silent
  <2>3. Told(p, -k)
    BY <1>1, <2>1, <2>2 DEF AllExpanded
  <2> QED
    BY <1>3, <2>3 DEF Told, Later
<1> QED
  BY <1>3, <1>8, <1>9, <1>10, <1>11, <1>12, <1>13 DEF HonestPlan, W, r

--------------------------------------------------------------------------------
(* A plan is a reply, and its job is the call it was made for. *)
PlannedInv == (stage # "done" => result.status # "planned") /\ PlanHonest

LEMMA PlannedSays ==
  ASSUME NEW paths \in PathLists, NEW recursive \in BOOLEAN,
         job' = [tool |-> "files_judge", paths |-> paths, recursive |-> recursive],
         LET p == plan(paths, recursive)
         IN  result' = [status |-> "planned", plan |-> p.plan, survivors |-> p.survivors, over |-> p.over]
  PROVE  PlanHonest'
<1> DEFINE p == plan(paths, recursive)
<1>1. HonestPlan(paths, recursive, p)
  BY PlanIsHonest
<1>2. job'.paths = paths /\ job'.recursive = recursive
  OBVIOUS
<1>3. result'.plan = p.plan /\ result'.survivors = p.survivors /\ result'.over = p.over
  OBVIOUS
<1> HIDE DEF p
<1>4. HonestPlan(paths, recursive, result')
  BY <1>1, <1>3 DEF HonestPlan
<1>5. HonestPlan(job'.paths, job'.recursive, result')
  BY <1>2, <1>4
<1> QED
  BY <1>5 DEF PlanHonest, HonestPlan, Wanted, PrunedOf, Named, Meant, Pruned, RowPaths

LEMMA NoPlan ==
  ASSUME result'.status # "planned"
  PROVE  PlannedInv'
BY DEF PlannedInv, PlanHonest

LEMMA SamePlan ==
  ASSUME PlannedInv, UNCHANGED <<job, result>>, stage' = stage \/ stage # "done"
  PROVE  PlannedInv'
<1>1. PlanHonest'
  BY DEF PlannedInv, PlanHonest
<1> QED
  BY <1>1 DEF PlannedInv

LEMMA StillNoPlan ==
  ASSUME PlannedInv, stage # "done", result' = result
  PROVE  PlannedInv'
BY NoPlan DEF PlannedInv

LEMMA AnswersAreNoPlans ==
  ASSUME NEW j, NEW a, NEW b, NEW c
  PROVE  /\ classify(j, a).status # "planned" /\ compare(j, a, b).status # "planned" /\ find(j, a, b).status # "planned"
         /\ rerank(j, a).status # "planned" /\ screen(j, a, b, c).status # "planned" /\ extract(j, a, b).status # "planned"
         /\ score(j, a).status # "planned" /\ file_judge(j, a).status # "planned" /\ decide(j, a, b).status # "planned"
BY DEF classify, compare, find, rerank, screen, extract, score, file_judge, decide, project_answer

LEMMA RefusalIsNoPlan ==
  ASSUME NEW code
  PROVE  Refused(code).status = "error"
BY DEF Refused

LEMMA JudgmentsKeepPlan ==
  ASSUME PlannedInv, JudgmentNext
  PROVE  PlannedInv'
<1> USE DEF Done
<1>1. CASE Call
  BY <1>1, StillNoPlan, NoPlan, RefusalIsNoPlan DEF Call
<1>2. CASE find_candidates
  BY <1>2, StillNoPlan DEF find_candidates
<1>3. CASE BuildExtract
  BY <1>3, StillNoPlan, NoPlan, RefusalIsNoPlan, AnswersAreNoPlans DEF BuildExtract
<1>4. CASE AnswerClassify
  BY <1>4, NoPlan, AnswersAreNoPlans DEF AnswerClassify
<1>5. CASE AnswerCompare
  BY <1>5, NoPlan, AnswersAreNoPlans DEF AnswerCompare
<1>6. CASE AnswerDecide
  BY <1>6, NoPlan, AnswersAreNoPlans DEF AnswerDecide
<1>7. CASE AnswerFind
  BY <1>7, NoPlan, AnswersAreNoPlans DEF AnswerFind
<1>8. CASE AnswerRerank
  BY <1>8, NoPlan, AnswersAreNoPlans DEF AnswerRerank
<1>9. CASE AnswerScore
  BY <1>9, NoPlan, AnswersAreNoPlans DEF AnswerScore
<1>10. CASE AnswerScreen
  BY <1>10, NoPlan, AnswersAreNoPlans DEF AnswerScreen
<1>11. CASE AnswerExtract
  BY <1>11, NoPlan, AnswersAreNoPlans DEF AnswerExtract
<1>12. CASE AnswerFileJudge
  BY <1>12, NoPlan, AnswersAreNoPlans DEF AnswerFileJudge
<1> QED
  BY <1>1, <1>2, <1>3, <1>4, <1>5, <1>6, <1>7, <1>8, <1>9, <1>10, <1>11, <1>12 DEF JudgmentNext

LEMMA AsksKeepPlan ==
  ASSUME PlannedInv, AskInv,
         \/ CallAsk \/ GateAnswer \/ Thread \/ Fork \/ ProcessExits
         \/ \E s \in Streams : Write(s) \/ drain(s)
         \/ OverBudgetAfter \/ AskAnswer \/ Cancel \/ AskReset
  PROVE  PlannedInv'
<1> USE DEF Done
<1>1. watch # "none" => stage = "gate"
  BY DEF AskInv, GroupInv
<1>2. CASE CallAsk
  <2>1. stage = "idle" /\ (result' = result \/ result'.status = "error")
    BY <1>2, RefusalIsNoPlan DEF CallAsk, split_refusal
  <2> QED
    BY <2>1, StillNoPlan, NoPlan
<1>3. CASE GateAnswer
  BY <1>3, StillNoPlan, NoPlan, RefusalIsNoPlan DEF GateAnswer
<1>4. CASE Thread
  <2>1. (\E r : RunEnds(r) /\ watch # "none") \/ UNCHANGED judging
    BY <1>4 DEF Thread, Spawn, WaitEnds, _kill_group, JoinReaders, CheckOutcome, CheckReaders, Measure, Calling
  <2>2. CASE UNCHANGED judging
    BY <2>2, SamePlan DEF judging
  <2>3. ASSUME NEW r, RunEnds(r), watch # "none" PROVE PlannedInv'
    <3>1. result' = result \/ result'.status \in {"cancelled", "error"}
      <4>1. result' = [status |-> "cancelled"] \/ (r.status = "error" /\ result' = r) \/ result' = result
        BY <2>3, Zenon DEF RunEnds
      <4> QED
        BY <4>1
    <3> QED
      BY <1>1, <2>3, <3>1, StillNoPlan, NoPlan
  <2> QED
    BY <2>1, <2>2, <2>3
<1>5. CASE Fork \/ ProcessExits \/ \E s \in Streams : Write(s) \/ drain(s)
  BY <1>5, SamePlan DEF Fork, ProcessExits, Write, drain, Calling, judging
<1>6. CASE OverBudgetAfter
  BY <1>6, NoPlan DEF OverBudgetAfter, split_refusal
<1>7. CASE AskAnswer
  <2>1. result'.status \in {"ok", "invalid_response"}
    BY <1>7 DEF AskAnswer
  <2> QED
    BY <2>1, NoPlan
<1>8. CASE Cancel
  BY <1>8, StillNoPlan, NoPlan DEF Cancel
<1>9. CASE AskReset
  BY <1>9, NoPlan DEF AskReset, Reset, NoResult
<1> QED
  BY <1>2, <1>3, <1>4, <1>5, <1>6, <1>7, <1>8, <1>9

LEMMA NextPlannedInv == PlannedInv /\ AskInv /\ [AskNext]_askVars => PlannedInv'
<1> SUFFICES ASSUME PlannedInv, AskInv, [AskNext]_askVars PROVE PlannedInv'
  OBVIOUS
<1>1. CASE UNCHANGED askVars
  BY <1>1, SamePlan DEF askVars, judging
<1>2. CASE PlanFiles
  <2>1. PICK paths \in PathLists, recursive \in BOOLEAN :
          /\ job' = [tool |-> "files_judge", paths |-> paths, recursive |-> recursive]
          /\ LET p == plan(paths, recursive)
             IN  result' = [status |-> "planned", plan |-> p.plan, survivors |-> p.survivors, over |-> p.over]
    BY <1>2 DEF PlanFiles, Done
  <2>2. stage' = "done"
    BY <1>2 DEF PlanFiles, Done
  <2>3. PlanHonest'
    BY <2>1, PlannedSays
  <2> QED
    BY <2>2, <2>3 DEF PlannedInv
<1>3. CASE JudgmentNext
  BY <1>3, JudgmentsKeepPlan
<1> QED
  BY <1>1, <1>2, <1>3, AsksKeepPlan DEF AskNext

(* plan's docstring, for every tree, every list of paths and every cap:    *)
(* what the globs, walks and directories of a call find is what its paths  *)
(* stand for, a file is judged once and only when it may be, and every     *)
(* other file has a row or is counted, but for those that discover drops   *)
(* unsaid because a link to them leads into a skip-listed directory.       *)
THEOREM PlansAreHonest == AskSpec => []PlanHonest
<1>1. AskInit => PlannedInv
  BY DEF AskInit, JudgmentInit, NoResult, PlannedInv, PlanHonest
<1>2. AskSpec => []PlannedInv
  BY <1>1, NextPlannedInv, AskInvariant, PTL DEF AskSpec
<1>3. PlannedInv => PlanHonest
  BY DEF PlannedInv
<1> QED
  BY <1>2, <1>3, PTL

(* What AskShape leaves to say of the types. *)
RunTypes ==
  /\ {shell, child, stray} \subseteq {"none", "running", "exited"}
  /\ {timed_out, overflow, cancelled} \subseteq BOOLEAN
PipesCapped == \A s \in Streams : unread[s] + got[s] <= WriteMax

LEMMA NextPipesCapped == PipesCapped /\ AskInv /\ [AskNext]_askVars => PipesCapped'
<1> SUFFICES ASSUME PipesCapped, AskInv, [AskNext]_askVars PROVE PipesCapped'
  OBVIOUS
<1>1. unread \in [Streams -> Nat] /\ got \in [Streams -> Nat] /\ WriteMax \in Nat /\ Chunk \in Nat
  BY AskAssumption DEF AskInv, AskShape
<1>2. ASSUME UNCHANGED <<unread, got>> PROVE PipesCapped'
  BY <1>2 DEF PipesCapped
<1>3. CASE UNCHANGED askVars \/ CallAsk \/ GateAnswer \/ OverBudgetAfter \/ AskAnswer \/ Cancel
  BY <1>2, <1>3 DEF askVars, run, drains, CallAsk, GateAnswer, OverBudgetAfter, AskAnswer, Cancel
<1>4. CASE Fork \/ ProcessExits
  BY <1>2, <1>4 DEF Fork, ProcessExits, drains
<1>5. CASE Thread
  BY <1>2, <1>5 DEF Thread, Spawn, WaitEnds, _kill_group, JoinReaders, CheckOutcome, CheckReaders, Measure, drains
<1>6. ASSUME NEW s \in Streams, Write(s) PROVE PipesCapped'
  <2>1. got[s] + unread[s] < WriteMax /\ unread' = [unread EXCEPT ![s] = @ + 1] /\ got' = got
    BY <1>6 DEF Write
  <2> QED
    BY <1>1, <2>1 DEF PipesCapped
<1>7. ASSUME NEW s \in Streams, drain(s) PROVE PipesCapped'
  <2> DEFINE n == IF unread[s] >= Chunk THEN Chunk ELSE unread[s]
  <2>1. unread' = [unread EXCEPT ![s] = @ - n] /\ got' = [got EXCEPT ![s] = @ + n] /\ n \in Nat
    BY <1>1, <1>7 DEF drain
  <2> HIDE DEF n
  <2> QED
    BY <1>1, <2>1 DEF PipesCapped
<1>8. CASE AskReset
  <2>1. unread' = [s \in Streams |-> 0] /\ got' = [s \in Streams |-> 0]
    BY <1>8 DEF AskReset
  <2> QED
    BY <1>1, <2>1 DEF PipesCapped
<1>9. CASE UNCHANGED run
  BY <1>2, <1>9 DEF run, drains
<1> QED
  BY <1>3, <1>4, <1>5, <1>6, <1>7, <1>8, <1>9 DEF AskNext

LEMMA NextRunTypes == RunTypes /\ [AskNext]_askVars => RunTypes'
<1> SUFFICES ASSUME RunTypes, [AskNext]_askVars PROVE RunTypes'
  OBVIOUS
<1>1. ASSUME UNCHANGED <<shell, child, stray, timed_out, overflow, cancelled>> PROVE RunTypes'
  BY <1>1 DEF RunTypes
<1>2. CASE UNCHANGED askVars \/ CallAsk \/ GateAnswer \/ OverBudgetAfter \/ AskAnswer
  BY <1>1, <1>2 DEF askVars, run, processes, flags, CallAsk, GateAnswer, OverBudgetAfter, AskAnswer
<1>3. CASE Cancel
  BY <1>3 DEF Cancel, run, processes, flags, RunTypes
<1>4. CASE Fork \/ ProcessExits
  BY <1>4 DEF Fork, ProcessExits, Calling, flags, RunTypes
<1>5. CASE Spawn \/ WaitEnds \/ _kill_group
  BY <1>5 DEF Spawn, WaitEnds, _kill_group, RunEnds, Calling, processes, flags, RunTypes
<1>6. CASE JoinReaders \/ CheckOutcome \/ CheckReaders \/ Measure
  <2>1. UNCHANGED <<processes, flags>> /\ cancelled' = cancelled
    BY <1>6 DEF JoinReaders, CheckOutcome, CheckReaders, Measure, RunEnds, Calling
  <2> QED
    BY <1>1, <2>1 DEF processes, flags
<1>7. ASSUME NEW s \in Streams, Write(s) \/ drain(s) PROVE RunTypes'
  BY <1>7 DEF Write, drain, Calling, processes, flags, RunTypes
<1>8. CASE AskReset
  BY <1>8 DEF AskReset, RunTypes
<1>9. CASE UNCHANGED <<run, cancelled>>
  BY <1>1, <1>9 DEF run, processes, flags
<1> QED
  BY <1>2, <1>3, <1>4, <1>5, <1>6, <1>7, <1>8, <1>9 DEF AskNext, Thread

(* The types of a call and of the command it runs, in whatever order the   *)
(* processes write and end; no pipe holds more than was written.           *)
THEOREM AskTypes == AskSpec => []AskTypeOK
<1>1. AskInit => PipesCapped /\ RunTypes
  <2>1. \A s \in Streams : [x \in Streams |-> 0][s] + [x \in Streams |-> 0][s] <= WriteMax
    BY AskAssumption
  <2> QED
    BY <2>1 DEF AskInit, NotRunning, PipesCapped, RunTypes
<1>2. AskSpec => [](PipesCapped /\ RunTypes)
  BY <1>1, NextPipesCapped, NextRunTypes, AskInvariant, PTL DEF AskSpec
<1>3. AskInv /\ PipesCapped /\ RunTypes => AskTypeOK
  BY DEF AskInv, AskShape, PipesCapped, RunTypes, AskTypeOK, Killed
<1> QED
  BY <1>2, <1>3, AskInvariant, PTL
================================================================================
