-------------------------------- MODULE AskCall --------------------------------
(***************************************************************************)
(* jev_ask (tools/ask.py, tools/ask_state.py): the caller's questions over *)
(* a state composed of its own text, files the server reads, and the       *)
(* output of a command that runs only behind the operator's flag, a        *)
(* denylist and a gate Jev answers.  The run is the shell, the processes   *)
(* it leaves behind, two threads that drain its pipes and the thread that  *)
(* waits for it; the call may be cancelled meanwhile.                      *)
(***************************************************************************)
EXTENDS FilesPlan

CONSTANTS AskJobs,
          Chunk,      \* what one read of a pipe takes, in units
          ByteCap,    \* bytes past which the output is over the cap
          WriteMax    \* bound: units written to a stream

ASSUME AskAssumption ==
  /\ Chunk \in Nat \ {0} /\ ByteCap \in Nat /\ WriteMax \in Nat
  /\ \A j \in AskJobs :
       /\ j.tool = "ask" /\ j.command \subseteq {"plain", "network", "environment", "private", "secret"}
       /\ j.own \in Nat /\ List(j.questions) /\ \A i \in DOMAIN j.questions : j.questions[i].units \in Nat
       /\ List(j.paths)
       /\ \A i \in DOMAIN j.paths :
            List(j.paths[i].name) /\ j.paths[i].name # <<>> /\ j.paths[i].file.units \in Nat
  /\ Caps.request \in Nat /\ Caps.output \in Nat

VARIABLES parts,      \* the composed state so far, a sequence of [name, units]
          gate,       \* what Jev answered the gate
          watch,      \* where the thread running run_command is
          shell, child, stray,  \* the processes: the group's two, and one that left it
          unread, got, reader,  \* each pipe, what was read of it, its drain thread
          timed_out, overflow, cancelled

processes == <<shell, child, stray>>
drains == <<unread, got, reader>>
flags == <<timed_out, overflow>>
run == <<watch, processes, drains, flags>>
askVars == <<judging, parts, gate, run, cancelled>>

Streams == {"stdout", "stderr"}
NoGate == [effect |-> [object |-> FALSE], destructive |-> Absent]

NotRunning ==
  /\ watch = "none" /\ shell = "none" /\ child = "none" /\ stray = "none"
  /\ unread = [s \in Streams |-> 0] /\ got = [s \in Streams |-> 0] /\ reader = [s \in Streams |-> "none"]
  /\ timed_out = FALSE /\ overflow = FALSE

AskInit == JudgmentInit /\ parts = <<>> /\ gate = NoGate /\ NotRunning /\ cancelled = FALSE

Units(ps) ==
  LET sum[i \in 0..Len(ps)] == IF i = 0 THEN 0 ELSE sum[i - 1] + ps[i].units
  IN  sum[Len(ps)]

--------------------------------------------------------------------------------
(* Composition, before anything is asked. *)

_build_questions(qs) ==
  Len(qs) \in 1..Caps.questions /\ \A i \in DOMAIN qs : qs[i].named /\ build_question(qs[i])

question_units(qs) == Units(qs)

(* Blank text is no part. *)
own_part(own) == IF own = 0 THEN <<>> ELSE <<[name |-> <<"state">>, units |-> own]>>

(* A path that repeats is read once; a refusal is a skip, never a failure. *)
file_parts(paths) ==
  LET read[i \in 0..Len(paths)] ==
        IF i = 0 THEN <<>>
        ELSE IF \/ \E k \in 1..(i - 1) : paths[k].name = paths[i].name
                \/ read_state(paths[i].file) # "none" THEN read[i - 1]
        ELSE Append(read[i - 1], [name |-> paths[i].name, units |-> paths[i].file.units])
  IN  read[Len(paths)]

(* Fault: a call may be filled past the brim by one unit. *)
SplitLoosely(ps, capacity) ==
  LET calls[i \in 0..Len(ps)] ==
        IF i = 0 THEN <<>>
        ELSE LET done == calls[i - 1] IN
             IF done = <<>> \/ Units(Last(done)) + ps[i].units > capacity + 1 THEN Append(done, <<ps[i]>>)
             ELSE Front(done) \o <<Append(Last(done), ps[i])>>
  IN  calls[Len(ps)]

(* split_refusal: the suggestion fills each call before it opens the next. *)
Split(ps, capacity) ==
  LET calls[i \in 0..Len(ps)] ==
        IF i = 0 THEN <<>>
        ELSE LET done == calls[i - 1] IN
             IF done = <<>> \/ Units(Last(done)) + ps[i].units > capacity THEN Append(done, <<ps[i]>>)
             ELSE Front(done) \o <<Append(Last(done), ps[i])>>
  IN  calls[Len(ps)]

split_refusal(ps, questions) ==
  LET capacity == Caps.request - questions
  IN  [status |-> "error", code |-> "input_too_large", composed |-> ps, capacity |-> capacity,
       advice |-> CASE capacity < 0 -> "trim"
                    [] capacity >= 0 /\ (\E i \in DOMAIN ps : ps[i].units > capacity) -> "shrink"
                    [] OTHER -> "split",
       calls |-> IF capacity < 0 \/ \E i \in DOMAIN ps : ps[i].units > capacity THEN <<>> ELSE Split(ps, capacity)]

OverBudget(ps, qs) == question_units(qs) + Units(ps) > Caps.request

(* The parts as named fields: a name that is taken gets a suffix. *)
_named_state(ps) == FreeNames([i \in DOMAIN ps |-> ps[i].name], 2)

(* A command is the kinds of the words in it; these families are refused   *)
(* before anything is read, asked or run.                                  *)
command_denylist_refusal(words) == words \cap {"network", "environment", "private", "secret"} # {}

Given(j) == j.command # {}

ask_schema(j) == j.sized /\ Len(j.paths) <= Caps.files

Composed(j) == own_part(j.own) \o file_parts(j.paths)

(* handle up to its first await. *)
CallAsk ==
  /\ stage = "idle"
  /\ \E j \in AskJobs :
       LET code == First(<< <<~ask_schema(j), "invalid_arguments">>,
                            <<~_build_questions(j.questions), "invalid_arguments">>,
                            <<Given(j) /\ ~j.ask_commands, "command_disabled">>,
                            <<command_denylist_refusal(j.command), "command_refused">>,
                            <<j.own > Caps.state, "input_too_large">>,
                            <<~Given(j) /\ Composed(j) = <<>>, "invalid_arguments">> >>)
       IN  /\ job' = j
           /\ CASE code # "none" -> Done(Refused(code)) /\ UNCHANGED parts
                [] code = "none" /\ OverBudget(Composed(j), j.questions) ->
                     Done(split_refusal(Composed(j), question_units(j.questions))) /\ UNCHANGED parts
                [] OTHER -> /\ stage' = IF Given(j) THEN "gate" ELSE "ask"
                            /\ parts' = Composed(j) /\ UNCHANGED result
  /\ UNCHANGED <<fields, gate, run, cancelled>>

--------------------------------------------------------------------------------
(* The gate. *)

Effects == {<<"read_only">>, <<"reversible">>, <<"irreversible">>}

(* hook.confidence_floor: the reported confidence, or the margin. *)
ConfidentEnough(a) ==
  IF a.confidence # Unknown THEN a.confidence >= 50 ELSE margin(a.probabilities) >= 40

command_refusal(effect, destructive) ==
  LET a == validate_choice(effect, Effects)
  IN  \/ ~a.valid \/ validate_noul(destructive) = Unknown
      \/ destructive >= 70 \/ ~ConfidentEnough(a) \/ a.choice # <<"read_only">>

GateAnswer ==
  /\ stage = "gate" /\ watch = "none"
  /\ \E effect \in RawChoices(Effects), destructive \in Nouls :
       /\ gate' = [effect |-> effect, destructive |-> destructive]
       /\ IF command_refusal(effect, destructive)
          THEN Done(Refused("command_refused")) /\ UNCHANGED watch
          ELSE watch' = "spawning" /\ UNCHANGED <<stage, result>>
  /\ UNCHANGED <<job, fields, parts, processes, drains, flags, cancelled>>

--------------------------------------------------------------------------------
(* The run: run_gated_command hands it to a thread that is not abandoned   *)
(* when the call is cancelled.                                             *)

Calling == UNCHANGED <<judging, parts, gate, cancelled>>

(* A cancelled call ends when its thread has. *)
RunEnds(r) ==
  /\ watch' = "none"
  /\ IF cancelled THEN Done([status |-> "cancelled"]) /\ UNCHANGED parts
     ELSE IF r.status = "error" THEN Done(r) /\ UNCHANGED parts
     ELSE /\ parts' = Append(parts, [name |-> <<"command output">>, units |-> r.units])
          /\ stage' = "ask" /\ UNCHANGED result
  /\ UNCHANGED <<job, fields, gate, cancelled>>

Spawn ==
  /\ watch = "spawning"
  /\ \/ RunEnds(Refused("command_failed")) /\ UNCHANGED <<processes, drains, flags>>
     \/ /\ watch' = "waiting" /\ shell' = "running"
        /\ reader' = [s \in Streams |-> "reading"]
        /\ Calling /\ UNCHANGED <<child, stray, unread, got, flags>>

Holders == {p \in {shell, child, stray} : p = "running"}

Write(s) ==
  /\ Holders # {} /\ reader[s] = "reading" /\ got[s] + unread[s] < WriteMax
  /\ unread' = [unread EXCEPT ![s] = @ + 1]
  /\ Calling /\ UNCHANGED <<watch, processes, got, reader, flags>>

(* The shell starts a background child, or one in a session of its own. *)
Fork ==
  /\ shell = "running"
  /\ \/ child = "none" /\ child' = "running" /\ UNCHANGED stray
     \/ stray = "none" /\ stray' = "running" /\ UNCHANGED child
  /\ Calling /\ UNCHANGED <<watch, shell, drains, flags>>

ProcessExits ==
  /\ \/ shell = "running" /\ shell' = "exited" /\ UNCHANGED <<child, stray>>
     \/ child = "running" /\ child' = "exited" /\ UNCHANGED <<shell, stray>>
     \/ stray = "running" /\ stray' = "exited" /\ UNCHANGED <<shell, child>>
  /\ Calling /\ UNCHANGED <<watch, drains, flags>>

(* One read of a drain thread: it blocks until a whole chunk or the end of *)
(* the stream; past the byte cap the thread stops.                         *)
drain(s) ==
  /\ reader[s] = "reading"
  /\ unread[s] >= Chunk \/ Holders = {}
  /\ LET n == IF unread[s] >= Chunk THEN Chunk ELSE unread[s] IN
     /\ unread' = [unread EXCEPT ![s] = @ - n]
     /\ got' = [got EXCEPT ![s] = @ + n]
     /\ IF n > 0 /\ got[s] + n > ByteCap
        THEN overflow' = TRUE /\ reader' = [reader EXCEPT ![s] = "full"]
        ELSE /\ reader' = IF n = 0 THEN [reader EXCEPT ![s] = "eof"] ELSE reader
             /\ UNCHANGED overflow
  /\ Calling /\ UNCHANGED <<watch, processes, timed_out>>

(* The wait ends at an overflow, at the shell's exit or at the deadline. *)
WaitEnds ==
  /\ watch = "waiting"
  /\ \/ (overflow \/ shell = "exited") /\ UNCHANGED timed_out
     \/ shell = "running" /\ ~overflow /\ timed_out' = TRUE
  /\ watch' = "killing"
  /\ Calling /\ UNCHANGED <<processes, drains, overflow>>

(* Fault: only the shell is killed. *)
KillShellOnly ==
  /\ watch = "killing"
  /\ shell' = "exited" /\ watch' = "joining"
  /\ Calling /\ UNCHANGED <<child, stray, drains, flags>>

(* Whatever ended the wait, the group dies; a process that left it lives. *)
_kill_group ==
  /\ watch = "killing"
  /\ shell' = "exited" /\ child' = (IF child = "running" THEN "exited" ELSE child)
  /\ watch' = "joining"
  /\ Calling /\ UNCHANGED <<stray, drains, flags>>

Ended(s) == reader[s] \in {"eof", "full"}

(* Fault: the readers are joined without a timeout. *)
JoinForever ==
  /\ watch = "joining" /\ \A s \in Streams : Ended(s)
  /\ watch' = "checking"
  /\ Calling /\ UNCHANGED <<processes, drains, flags>>

(* Each join ends with its reader or after five seconds. *)
JoinReaders ==
  /\ watch = "joining"
  /\ watch' = "checking"
  /\ Calling /\ UNCHANGED <<processes, drains, flags>>

CheckOutcome ==
  /\ watch = "checking"
  /\ IF timed_out THEN RunEnds(Refused("command_timeout"))
     ELSE IF overflow THEN RunEnds(Refused("output_too_large"))
     ELSE watch' = "alive" /\ Calling
  /\ UNCHANGED <<processes, drains, flags>>

(* Fault: a reader that is still blocked is not looked at. *)
TakeWhatWasRead ==
  /\ watch = "alive"
  /\ watch' = "decoding" /\ Calling
  /\ UNCHANGED <<processes, drains, flags>>

CheckReaders ==
  /\ watch = "alive"
  /\ IF \E s \in Streams : ~Ended(s) THEN RunEnds(Refused("command_failed"))
     ELSE watch' = "decoding" /\ Calling
  /\ UNCHANGED <<processes, drains, flags>>

(* Redaction may shrink the text or grow it before it is measured. *)
Measure ==
  /\ watch = "decoding"
  /\ \E units \in 0..(Caps.output + 1) :
       RunEnds(IF units > Caps.output THEN Refused("output_too_large") ELSE [status |-> "ok", units |-> units])
  /\ UNCHANGED <<processes, drains, flags>>

--------------------------------------------------------------------------------
(* The ask itself. *)

OverBudgetAfter ==
  /\ stage = "ask" /\ OverBudget(parts, job.questions)
  /\ Done(split_refusal(parts, question_units(job.questions)))
  /\ UNCHANGED <<job, fields, parts, gate, run, cancelled>>

AskAnswer ==
  /\ stage = "ask" /\ ~OverBudget(parts, job.questions)
  /\ \E raw \in [DOMAIN job.questions -> UNION {RawAnswers(job.questions[i]) : i \in DOMAIN job.questions}] :
       /\ \A i \in DOMAIN raw : raw[i] \in RawAnswers(job.questions[i])
       /\ LET status == [i \in DOMAIN raw |-> project_answer(job.questions[i], raw[i])]
          IN  Done([status |-> IF Range(status) = {"ok"} THEN "ok" ELSE "invalid_response",
                    answers |-> status, state |-> _named_state(parts)])
  /\ UNCHANGED <<job, fields, parts, gate, run, cancelled>>

(* A cancelled call stops at its await, unless a run's thread holds it. *)
Cancel ==
  /\ stage \in {"gate", "ask"} /\ ~cancelled
  /\ IF watch = "none" THEN Done([status |-> "cancelled"]) /\ UNCHANGED cancelled
     ELSE cancelled' = TRUE /\ UNCHANGED <<stage, result>>
  /\ UNCHANGED <<job, fields, parts, gate, run>>

(* The next call; a process that left the group is nobody's by then. *)
AskReset ==
  /\ Reset
  /\ parts' = <<>> /\ gate' = NoGate /\ cancelled' = FALSE
  /\ watch' = "none" /\ shell' = "none" /\ child' = "none" /\ stray' = "none"
  /\ unread' = [s \in Streams |-> 0] /\ got' = [s \in Streams |-> 0]
  /\ reader' = [s \in Streams |-> "none"] /\ timed_out' = FALSE /\ overflow' = FALSE

Thread == Spawn \/ WaitEnds \/ _kill_group \/ JoinReaders \/ CheckOutcome \/ CheckReaders \/ Measure

AskNext ==
  \/ CallAsk \/ GateAnswer \/ Thread \/ Fork \/ ProcessExits
  \/ \E s \in Streams : Write(s) \/ drain(s)
  \/ OverBudgetAfter \/ AskAnswer \/ Cancel \/ AskReset
  \/ ((JudgmentNext \/ PlanFiles) /\ UNCHANGED <<parts, gate, run, cancelled>>)

AskSpec == AskInit /\ [][AskNext]_askVars /\ WF_askVars(Thread)
--------------------------------------------------------------------------------
AskTypeOK ==
  /\ stage \in {"idle", "matching", "asked", "gate", "ask", "done"}
  /\ watch \in {"none", "spawning", "waiting", "killing", "joining", "checking", "alive", "decoding"}
  /\ {shell, child, stray} \subseteq {"none", "running", "exited"}
  /\ \A s \in Streams : unread[s] + got[s] <= WriteMax /\ reader[s] \in {"none", "reading", "eof", "full"}
  /\ {timed_out, overflow, cancelled} \subseteq BOOLEAN

(* "refuse rather than return a part that is silently incomplete": output  *)
(* becomes state only when the run ended in time and both streams were     *)
(* read to their end, whoever still held them.  Left out: a process that   *)
(* left the group and floods the pipe between the two checks of            *)
(* run_command, which the measure of the block mostly catches.             *)
OutputComplete ==
  stage = "ask" /\ Given(job) =>
    /\ ~timed_out
    /\ \A s \in Streams : (reader[s] = "eof" /\ unread[s] = 0) \/ got[s] > ByteCap

(* ADR-0077: a command runs only where the operator allows it, off the     *)
(* denylist, and on Jev's word that it only reads: read_only the likeliest *)
(* effect, with the confidence asked for, and no intent to destroy.        *)
RunsOnlyGated ==
  shell # "none" =>
    LET p == gate.effect.probabilities IN
    /\ job.ask_commands /\ job.command \subseteq {"plain"}
    /\ gate.destructive \in 0..69
    /\ gate.effect.choice = <<"read_only">> /\ \A e \in Effects : p[e] <= p[<<"read_only">>]
    /\ \/ gate.effect.confidence \in 50..100
       \/ /\ gate.effect.confidence \notin 0..100
          /\ \A e \in Effects \ {<<"read_only">>} : p[<<"read_only">>] - p[e] >= 40

(* The run never outlives the call, and never leaves its group behind: a   *)
(* reply, a refusal or a cancellation finds the shell and its children     *)
(* dead and the thread gone, whatever order they ended in.                 *)
GroupDies ==
  stage \in {"ask", "done"} => watch = "none" /\ shell # "running" /\ child # "running"

(* A run ends whatever the command does: at its exit, at the deadline or   *)
(* at the cap, and five seconds per pipe later even if one stays open.     *)
RunReturns == watch # "none" ~> watch = "none"

Cuts(n) == SUBSET (1..(n - 1))

(* No stretch of the parts between two neighbouring cuts is too long. *)
Fits(ps, capacity, cut) ==
  \A a, b \in 1..Len(ps) : a <= b /\ (cut \cap a..(b - 1)) = {} => Units(SubSeq(ps, a, b)) <= capacity

Suggests == stage = "done" /\ result.status = "error" /\ "calls" \in DOMAIN result

(* An over-budget call is told a way that works: the suggested calls hold  *)
(* every part once and in the order of composition and each fits beside    *)
(* the questions; there is no suggestion only where no cut would fit.  No  *)
(* part is lost to its name.  How many calls it takes is not claimed: the  *)
(* documents say first-fit, the code fills the last call only.             *)
SplitWorks ==
  /\ Suggests =>
       IF result.calls = <<>>
       THEN ~\E cut \in Cuts(Len(result.composed)) :
               Fits(result.composed, result.capacity, cut) /\ result.capacity >= 0
       ELSE /\ FlattenSeq(result.calls) = result.composed
            /\ \A c \in DOMAIN result.calls : Units(result.calls[c]) <= result.capacity
  /\ stage = "done" /\ job.tool = "ask" /\ "state" \in DOMAIN result =>
       IsInjective(result.state) /\ Len(result.state) = Len(parts)

(* Among the ways that keep the parts in order none takes fewer calls than *)
(* the suggestion; one that regroups them may (2, 2, 1 and 1 units in      *)
(* calls of 3), and first-fit would find it.                               *)
FewestInOrder ==
  Suggests /\ result.calls # <<>> =>
    \A cut \in Cuts(Len(result.composed)) :
      Fits(result.composed, result.capacity, cut) => Len(result.calls) <= Cardinality(cut) + 1

(* A command's output is state only when the gate let the command run and  *)
(* nothing of what it wrote is missing.                                    *)
CommandHonest == RunsOnlyGated /\ OutputComplete
================================================================================
