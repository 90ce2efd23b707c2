------------------------------- MODULE FileCalls -------------------------------
(***************************************************************************)
(* The tool calls that ask Jev once per file: jev_review and jev_gate over *)
(* a file list (tools/files.py, tools/review.py, tools/gate.py) and        *)
(* jev_files_judge (tools/files_judge.py).  Each call starts one task per  *)
(* file; a file list lets Fanout of them in at a time, and the process lets *)
(* MaxInflight provider calls run (tools/base.py); 0 is no cap.  A         *)
(* failing file cancels its siblings or becomes a skip row, and the client *)
(* may cancel the whole call at any time.                                  *)
(*                                                                         *)
(* File 0 stands for jev_gate's verification ask, which follows the files. *)
(***************************************************************************)
EXTENDS Integers, FiniteSets, FiniteSetsExt, Sequences, SequencesExt

CONSTANTS Calls, NFiles, Fanout, MaxInflight,
          Kinds,   \* of the calls made: "review", "gate", "judge"
          Actions  \* what a file's review may come to

ASSUME FileCallsAssumption ==
  /\ IsFiniteSet(Calls)
  /\ NFiles \in Nat \ {0} /\ Fanout \in Nat \ {0} /\ MaxInflight \in Nat
  /\ Kinds \subseteq {"review", "gate", "judge"}
  /\ Actions \subseteq {"auto", "review", "escalate"}

VARIABLES pc, kind,
          over,     \* the files over the document cap (unreviewed), or pruned
          task,     \* the task of each file
          half,     \* its action
          scope,    \* what cancelled the task group, if anything
          permits, waiting, \* Runtime._inflight: its value and its queue
          reply

call == <<pc, kind, over, reply>>
sem == <<permits, waiting>>
vars == <<call, task, half, scope, sem>>

Files == 1..NFiles
Verification == 0

NoReply == [status |-> "none"]

Init ==
  /\ pc = [c \in Calls |-> "idle"]
  /\ kind = [c \in Calls |-> "none"]
  /\ over = [c \in Calls |-> {}]
  /\ task = [c \in Calls |-> [f \in 0..NFiles |-> "none"]]
  /\ half = [c \in Calls |-> [f \in 0..NFiles |-> "none"]]
  /\ scope = [c \in Calls |-> "open"]
  /\ permits = MaxInflight
  /\ waiting = <<>>
  /\ reply = [c \in Calls |-> NoReply]

Live == {"ready", "waiting", "asking"}

Tasks(c, states) == {f \in 0..NFiles : task[c][f] \in states}

(* worst_action *)
Worst(actions) ==
  CASE "escalate" \in actions -> "escalate"
    [] "escalate" \notin actions /\ "review" \in actions -> "review"
    [] OTHER -> "auto"

--------------------------------------------------------------------------------
(* The arguments are in: jev_files_judge has pruned its paths, a file list *)
(* is split at the document cap.  Every file to ask gets a task.           *)
Start(c) ==
  /\ pc[c] = "idle"
  /\ \E k \in Kinds, o \in SUBSET Files :
       /\ kind' = [kind EXCEPT ![c] = k]
       /\ over' = [over EXCEPT ![c] = o]
       /\ task' = [task EXCEPT ![c] = [f \in 0..NFiles |-> IF f \in Files \ o THEN "ready" ELSE "none"]]
  /\ pc' = [pc EXCEPT ![c] = "files"]
  /\ UNCHANGED <<half, scope, sem, reply>>

(* The CapacityLimiter of a file list; jev_files_judge and the             *)
(* verification have none.                                                 *)
LetIn(c, f) ==
  kind[c] = "judge" \/ f = Verification \/ Cardinality(Tasks(c, {"waiting", "asking"})) < Fanout

(* Runtime._evaluate_capped, up to the provider call. *)
Enter(c, f) ==
  /\ task[c][f] = "ready" /\ scope[c] = "open" /\ LetIn(c, f)
  /\ LET Become(s) == task' = [task EXCEPT ![c][f] = s]
     IN  \/ MaxInflight = 0 /\ Become("asking") /\ UNCHANGED sem
         \/ MaxInflight > 0 /\ permits > 0 /\ Become("asking") /\ permits' = permits - 1 /\ UNCHANGED waiting
         \/ MaxInflight > 0 /\ permits = 0 /\ Become("waiting") /\ waiting' = Append(waiting, <<c, f>>)
            /\ UNCHANGED permits
  /\ UNCHANGED <<call, half, scope>>

(* Task f of call c comes to an end: it leaves the queue, or hands its     *)
(* permit to the first task that waits for one.                            *)
End(c, f, s) ==
  LET held == task[c][f] = "asking" /\ MaxInflight > 0
      left == [task EXCEPT ![c][f] = s]
      next == Head(waiting)
  IN  \/ /\ held /\ waiting # <<>>
         /\ task' = [left EXCEPT ![next[1]][next[2]] = "asking"]
         /\ waiting' = Tail(waiting)
         /\ UNCHANGED permits
      \/ /\ held /\ waiting = <<>>
         /\ task' = left /\ permits' = permits + 1 /\ UNCHANGED waiting
      \/ /\ ~held /\ task' = left
         /\ IF task[c][f] = "waiting"
            THEN \E i \in 1..Len(waiting) : waiting[i] = <<c, f>> /\ waiting' = RemoveAt(waiting, i)
            ELSE UNCHANGED waiting
         /\ UNCHANGED permits

(* Jev answers, or the cache does without a permit. *)
Answer(c, f) ==
  /\ task[c][f] = "asking" \/ (task[c][f] = "ready" /\ scope[c] = "open" /\ LetIn(c, f))
  /\ End(c, f, "done")
  /\ \E a \in Actions : half' = [half EXCEPT ![c][f] = a]
  /\ UNCHANGED <<call, scope>>

(* The provider fails.  On a file list one failed file cancels the others; *)
(* for jev_files_judge it is a skip row.                                   *)
Fail(c, f) ==
  /\ task[c][f] = "asking"
  /\ End(c, f, "failed")
  /\ scope' = [scope EXCEPT ![c] = IF kind[c] # "judge" /\ @ = "open" THEN "failure" ELSE @]
  /\ UNCHANGED <<call, half>>

(* The provider cannot be built: no permit is asked for, and every kind of *)
(* call stops.                                                             *)
ConfigError(c, f) ==
  /\ task[c][f] = "ready" /\ scope[c] = "open" /\ LetIn(c, f)
  /\ End(c, f, IF kind[c] = "judge" THEN "config" ELSE "failed")
  /\ scope' = [scope EXCEPT ![c] = "failure"]
  /\ UNCHANGED <<call, half>>

(* Fault: the task group is shielded from the client's cancellation, which *)
(* then only keeps tasks from starting.                                    *)
UnwindShielded(c, f) ==
  /\ scope[c] = "failure" /\ task[c][f] \in Live
  /\ End(c, f, "cancelled")
  /\ UNCHANGED <<call, half, scope>>

(* The cancellation reaches a task; one whose answer is already there may  *)
(* still take it (Answer, Fail).                                           *)
Unwind(c, f) ==
  /\ scope[c] # "open" /\ task[c][f] \in Live
  /\ End(c, f, "cancelled")
  /\ UNCHANGED <<call, half, scope>>

(* notifications/cancelled from the client, or the server's own stop. *)
ClientCancels(c) ==
  /\ pc[c] \in {"files", "verify"}
  /\ scope' = [scope EXCEPT ![c] = "client"]
  /\ UNCHANGED <<call, task, half, sem>>

--------------------------------------------------------------------------------
Return(c, r) ==
  /\ pc' = [pc EXCEPT ![c] = "done"]
  /\ reply' = [reply EXCEPT ![c] = r]

(* Fault: unreviewed files do not count. *)
FileListActionReviewed(c, asked) == Worst({half[c][f] : f \in asked})

(* file_list_action: never auto while a file is unreviewed. *)
FileListAction(c, asked) == Worst({half[c][f] : f \in asked} \cup (IF over[c] # {} THEN {"review"} ELSE {}))

(* Fault: the reply does not wait for the task group. *)
FinishEarly(c) ==
  /\ pc[c] \in {"files", "verify"}
  /\ Tasks(c, {"failed", "config"}) # {} /\ kind[c] # "judge"
  /\ Return(c, [status |-> "error", file |-> Min(Tasks(c, {"failed", "config"}))])
  /\ UNCHANGED <<kind, over, task, half, scope, sem>>

(* The task group has ended: the first failure, or the reply. *)
Finish(c) ==
  LET failed == Tasks(c, {"config"}) \cup (IF kind[c] = "judge" THEN {} ELSE Tasks(c, {"failed"}))
      asked == Tasks(c, {"done"})
  IN  /\ pc[c] \in {"files", "verify"} /\ Tasks(c, Live) = {}
      /\ \/ /\ failed # {}
            /\ Return(c, [status |-> "error", file |-> Min(failed)])
            /\ UNCHANGED task
         \/ /\ scope[c] = "client"
            /\ Return(c, [status |-> "cancelled"])
            /\ UNCHANGED task
         \/ /\ failed = {} /\ (scope[c] = "client" => Tasks(c, {"cancelled"}) = {})
            /\ IF kind[c] = "gate" /\ pc[c] = "files" /\ asked # {}
               THEN /\ pc' = [pc EXCEPT ![c] = "verify"]
                    /\ task' = [task EXCEPT ![c][Verification] = "ready"]
                    /\ UNCHANGED reply
               ELSE /\ Return(c, [status |-> "ok",
                                  action |-> IF kind[c] = "judge" THEN "none" ELSE FileListAction(c, asked),
                                  skipped |-> Tasks(c, {"failed"})])
                    /\ UNCHANGED task
      /\ UNCHANGED <<kind, over, half, scope, sem>>

(* The next call comes in. *)
Recycle(c) ==
  /\ pc[c] = "done"
  /\ pc' = [pc EXCEPT ![c] = "idle"]
  /\ kind' = [kind EXCEPT ![c] = "none"]
  /\ over' = [over EXCEPT ![c] = {}]
  /\ task' = [task EXCEPT ![c] = [f \in 0..NFiles |-> "none"]]
  /\ half' = [half EXCEPT ![c] = [f \in 0..NFiles |-> "none"]]
  /\ scope' = [scope EXCEPT ![c] = "open"]
  /\ reply' = [reply EXCEPT ![c] = NoReply]
  /\ UNCHANGED sem

TaskStep(c, f) == Enter(c, f) \/ Answer(c, f) \/ Fail(c, f) \/ ConfigError(c, f) \/ Unwind(c, f)

Next ==
  \E c \in Calls : \/ Start(c) \/ ClientCancels(c) \/ Finish(c) \/ Recycle(c)
                   \/ \E f \in 0..NFiles : TaskStep(c, f)

Spec == Init /\ [][Next]_vars

(* The event loop runs what can run, and a provider call ends              *)
(* (ProviderRetry!EvaluateEnds); nothing is assumed of the client.         *)
Fairness ==
  \A c \in Calls : /\ WF_vars(Finish(c))
                   /\ \A f \in 0..NFiles : WF_vars(TaskStep(c, f))

LiveSpec == Spec /\ Fairness
--------------------------------------------------------------------------------
TaskStates == Live \cup {"none", "done", "failed", "config", "cancelled"}

TypeOK ==
  /\ pc \in [Calls -> {"idle", "files", "verify", "done"}]
  /\ kind \in [Calls -> Kinds \cup {"none"}]
  /\ over \in [Calls -> SUBSET Files]
  /\ task \in [Calls -> [0..NFiles -> TaskStates]]
  /\ half \in [Calls -> [0..NFiles -> Actions \cup {"none"}]]
  /\ scope \in [Calls -> {"open", "failure", "client"}]
  /\ permits \in 0..MaxInflight
  /\ \A i \in 1..Len(waiting) : task[waiting[i][1]][waiting[i][2]] = "waiting"

(* The tasks with a provider call under way, as <<call, file>>. *)
Asking == {s \in Calls \X (0..NFiles) : task[s[1]][s[2]] = "asking"}

(* However calls are cancelled and fail, the process has MaxInflight       *)
(* permits: each is free or held by one provider call, and a task waits    *)
(* for one only while none is free.                                        *)
InflightCapped ==
  MaxInflight > 0 =>
    /\ permits + Cardinality(Asking) = MaxInflight
    /\ waiting # <<>> => permits = 0

(* "Cancel the siblings so no paid review keeps running": once a call has  *)
(* returned, none of its tasks runs or waits.                              *)
NothingLeftRunning == \A c \in Calls : pc[c] \in {"idle", "done"} => Tasks(c, Live) = {}

(* review_file_list's assertion, and jev_files_judge's rows: a reply that  *)
(* is no error has an answer for every file asked about, or for            *)
(* jev_files_judge an answer or a skip row.                                *)
EveryFileAccounted ==
  \A c \in Calls : reply[c].status = "ok" =>
    \A f \in Files \ over[c] : task[c][f] = "done" \/ (kind[c] = "judge" /\ f \in reply[c].skipped)

(* jev_review and jev_gate say auto only when every file was reviewed and  *)
(* found auto, and jev_gate's claims were verified too.                    *)
AutoIsEarned ==
  \A c \in Calls : reply[c].status = "ok" /\ reply[c].action = "auto" =>
    /\ over[c] = {} /\ \A f \in Files : half[c][f] = "auto"
    /\ kind[c] = "gate" => half[c][Verification] = "auto"

(* Every call returns: no file waits for ever behind the two limits, and   *)
(* no call behind another one's files.                                     *)
EveryCallReturns == \A c \in Calls : pc[c] = "files" ~> pc[c] = "done"

(* Calls that fail, are cancelled and overlap leave no permit taken and no *)
(* paid request running.                                                   *)
CallsContained == InflightCapped /\ NothingLeftRunning

(* A reply that is no error speaks for every file it was asked about.      *)
ReplyEarned == EveryFileAccounted /\ AutoIsEarned
================================================================================
