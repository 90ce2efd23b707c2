------------------------------- MODULE AgentRun --------------------------------
(***************************************************************************)
(* One agent run of the evaluations: run_agent on the host (evals/agent.py)*)
(* and as a preflight, run_confined and probe_provider in containers       *)
(* (evals/confinement/launch.py), the record the study makes of it         *)
(* (evals/ab/run.py), and the reaper of the next study.  The harness may   *)
(* be sent one SIGTERM at any step, or be killed.                          *)
(*                                                                         *)
(* `have' is what a run leaves on the host while it exists: the workdir,   *)
(* the private root (config, scratch, grants), the preflight's scratch     *)
(* records, the socket volume, the broker's and the agent's containers,    *)
(* the grading container and the study's scoped key file.                  *)
(***************************************************************************)
EXTENDS Capture, Broker

CONSTANTS Modes,      \* the forms of a run to start
          MaxRefusals \* bound on the removals that fail by themselves

ASSUME AgentAssumption ==
  Modes \subseteq {"plain", "preflight", "confined", "probe"} /\ MaxRefusals \in Nat

VARIABLES mode,
          have,
          stuck,   \* history: what a removal left there, its failure ignored
          overrun, \* history: the container went on after its docker client
          records, \* the secrets that the kept files of the run hold
          escape,  \* why the result says the run is void, or not
          booked,  \* what the study recorded of the run
          step,    \* the cleanup step under way
          torn,    \* which cleanup a signal, a hung docker or a refusal cut short
          reaped   \* the next study's reap has run

run == <<mode, have, stuck, overrun, records, escape, booked, step, torn, reaped>>
agentVars == <<stage, exc, age, capture, egress, run>>

Host == mode \in {"plain", "preflight"}
box == IF Host THEN boundary ELSE container_boundary
Secrets == {"key"}
Containers == {"broker", "agent", "grade"}

(* What each container is given; the credentials go to the broker alone. *)
Mounts == [broker |-> {"volume", "grants", "key"},
           agent  |-> {"workdir", "scratch", "volume", "grant"},
           grade  |-> {"workdir", "code"}]

AgentTypeOK ==
  /\ mode \in Modes
  /\ stage \in {"study", "start", "entered", "prepare", "volume", "broker", "wait", "spawn", "probe",
             "probing", "spawned", "loop", "join", "reap", "collect", "yielded", "cleanup", "ended", "killed"}
  /\ exc \in {"none", "error", "cap", "incomplete", "sigterm"}
  /\ have \subseteq Containers \cup {"workdir", "root", "volume", "records", "scoped"}
  /\ stuck \subseteq have
  /\ records \subseteq {"key", "token", "login"}
  /\ booked \in {"none", "success", "failure", "escape", "infra"}
  /\ torn \in {"no", "capture", "cleanup"}
  /\ got <= Len(written) /\ Len(written) <= MaxEvents
  /\ age \in 0..3

AgentInit ==
  /\ mode \in Modes
  /\ stage = (IF Host THEN "start" ELSE "study") /\ exc = "none" /\ age = 0
  /\ CaptureInit /\ BrokerInit
  /\ have = IF mode = "preflight" THEN {"records"} ELSE {}
  /\ stuck = {} /\ overrun = FALSE
  /\ records = {} /\ escape = FALSE /\ booked = "none"
  /\ step = 1 /\ torn = "no" /\ reaped = FALSE

--------------------------------------------------------------------------------
(* Fault: teardown trusts the agent container's own --rm. *)
CleanupTrustsRm ==
  IF Host THEN <<"root", "workdir", "scrub">> \o (IF mode = "preflight" THEN <<"records">> ELSE <<>>)
  ELSE IF mode = "probe" THEN <<"broker", "volume", "root", "scoped">>
  ELSE <<"broker", "volume", "root", "workdir", "scrub", "scoped">>

(* What the finally blocks do, in order: run_agent's and the preflight's;  *)
(* teardown and the rest of run_confined's or probe_provider's, and        *)
(* live's.                                                                 *)
Cleanup ==
  CASE mode = "plain"     -> <<"root", "workdir", "scrub">>
    [] mode = "preflight" -> <<"root", "workdir", "scrub", "records">>
    [] mode = "probe"     -> <<"agent", "broker", "volume", "root", "scoped">>
    [] mode = "confined"  -> <<"agent", "broker", "volume", "root", "workdir", "scrub", "scoped">>

Raise(e) == exc' = e /\ stage' = "cleanup"

(* A live study refuses when docker, the image, a key file or the          *)
(* provider's entry is missing, in part after the directory for the key    *)
(* was made, which then stays; otherwise the provider's key is written to  *)
(* a file of its own in it.                                                *)
_confinement ==
  /\ stage = "study"
  /\ \/ stage' = "ended" /\ UNCHANGED <<have, torn>>
     \/ stage' = "ended" /\ have' = have \cup {"scoped"} /\ torn' = "cleanup"
     \/ stage' = "start" /\ have' = have \cup {"scoped"} /\ UNCHANGED torn
  /\ UNCHANGED <<exc, age, capture, egress, mode, stuck, overrun, records, escape, booked, step, reaped>>

(* mkdtemp and the directories, before the try. *)
Enter ==
  /\ stage = "start"
  /\ have' = have \cup (IF mode = "probe" THEN {"root"} ELSE {"workdir", "root"})
  /\ stage' = "entered"
  /\ UNCHANGED <<exc, age, capture, egress, mode, stuck, overrun, records, escape, booked, step, torn, reaped>>

EnterTry ==
  /\ stage = "entered"
  /\ stage' = "prepare"
  /\ UNCHANGED <<exc, age, capture, egress, run>>

(* The token's file in grants_dir, which the broker reads. *)
mint_capability == grant' = TRUE

(* The task, the config, the isolated environment; confined, the modules,  *)
(* the broker's config and the capability (mint_capability).  Any of them  *)
(* may fail.                                                               *)
Prepare ==
  /\ stage = "prepare"
  /\ \/ Raise("error") /\ UNCHANGED grant
     \/ Host /\ stage' = "spawn" /\ UNCHANGED <<exc, grant>>
     \/ ~Host /\ stage' = "volume" /\ mint_capability /\ UNCHANGED exc
  /\ UNCHANGED <<age, capture, brokerUp, call, calls, knows, run>>

CreateVolume ==
  /\ stage = "volume"
  /\ \/ Raise("error") /\ UNCHANGED have
     \/ stage' = "broker" /\ have' = have \cup {"volume"} /\ UNCHANGED exc
  /\ UNCHANGED <<age, capture, egress, mode, stuck, overrun, records, escape, booked, step, torn, reaped>>

(* docker run -d of the broker: one that fails or is given up on may have  *)
(* made the container; one that succeeds may hold a broker that exits at   *)
(* startup.                                                                *)
StartBroker ==
  /\ stage = "broker"
  /\ \/ Raise("error") /\ have' \in {have, have \cup {"broker"}} /\ UNCHANGED brokerUp
     \/ /\ stage' = "wait" /\ have' = have \cup {"broker"} /\ brokerUp' \in BOOLEAN
        /\ UNCHANGED exc
  /\ UNCHANGED <<age, capture, grant, call, calls, knows, mode, stuck, overrun, records, escape, booked, step, torn, reaped>>

(* wait_for_broker: its socket appears, or it has exited, or the wait is   *)
(* over.                                                                   *)
wait_for_broker ==
  /\ stage = "wait"
  /\ \/ brokerUp /\ stage' = (IF mode = "probe" THEN "probe" ELSE "spawn") /\ UNCHANGED exc
     \/ Raise("error")
  /\ UNCHANGED <<age, capture, egress, run>>

(* probe_provider: one allowlisted request through the boundary. *)
Probe ==
  /\ stage = "probe"
  /\ have' = have \cup {"agent"}
  /\ \E r \in Requests : check_allowlist(r) /\ _forward(r)
  /\ stage' = "probing"
  /\ UNCHANGED <<exc, age, capture, mode, stuck, overrun, records, escape, booked, step, torn, reaped>>

(* Its container ends with the answer, or docker_run gives up on it. *)
Probed ==
  /\ stage = "probing"
  /\ \/ call = NoCall /\ have' = have \ {"agent"} /\ stage' = "cleanup" /\ UNCHANGED exc
     \/ age >= 1 /\ Raise("error") /\ UNCHANGED have
  /\ UNCHANGED <<age, capture, egress, mode, stuck, overrun, records, escape, booked, step, torn, reaped>>

(* capture_output's Popen, before its try: the agent itself, or the docker *)
(* client of its container.  On the host the agent may leave a process     *)
(* behind.                                                                 *)
Spawn ==
  /\ stage = "spawn"
  /\ \/ Raise("error") /\ UNCHANGED <<have, capture>>
     \/ /\ Popen
        /\ kid' \in (IF Host THEN {"none", "group", "session"} ELSE {"none"})
        /\ have' = IF Host THEN have ELSE have \cup {"agent"}
        /\ stage' = "spawned" /\ UNCHANGED exc
  /\ UNCHANGED <<age, egress, mode, stuck, overrun, records, escape, booked, step, torn, reaped>>

(* What the agent can read and so may write into a file, the relay's log   *)
(* or the tree among them: on the host, which does not confine it, any     *)
(* credential of the operator; in the container its own capability and     *)
(* what the broker showed it.                                              *)
Readable == IF Host THEN {"key", "login"} ELSE knows \cup {"token"}

(* write_run_logs and the relay's log. *)
WriteLogs == \E log \in SUBSET Readable : records' = records \cup Leaks(kept) \cup log

(* The private root goes, or the finally block tries again. *)
RemovesRoot == have' \in {have \ {"root"}, have}

(* The end of the capture.  On the host a transcript over the cap or an    *)
(* incomplete one is written before the raise; in a container it is not.   *)
(* Otherwise the logs are kept and scanned, and the result is yielded.     *)
(* What capture_output held goes out of scope.                             *)
Collect ==
  /\ stage = "collect"
  /\ \/ /\ exc \in Unfinished /\ Host
        /\ RemovesRoot
        /\ records' = records \cup Leaks(kept)
        /\ stage' = "cleanup"
        /\ UNCHANGED escape
     \/ /\ exc # "none" /\ ~(exc \in Unfinished /\ Host)
        /\ stage' = "cleanup"
        /\ UNCHANGED <<have, records, escape>>
     \/ /\ exc = "none"
        /\ IF Host THEN RemovesRoot ELSE UNCHANGED have
        /\ WriteLogs
        /\ escape' = (escape_scan(kept, box) \/ secret_scan(records', Secrets))
        /\ stage' = "yielded"
  /\ got' = 0 /\ timed_out' = FALSE /\ exceeded' = FALSE /\ incomplete' = FALSE
  /\ UNCHANGED <<exc, age, leader, kid, written, outReader, errReader,
                 egress, mode, stuck, overrun, booked, step, torn, reaped>>

(* The grading container: whether the driver wrote its mark, how docker    *)
(* ended, and the file and the payload it left.                            *)
Drivers == {d \in [started: BOOLEAN, end: {"ok", "nonzero", "timeout", "no_docker"},
                   file: {"regular", "symlink", "oversized"}, payload: {"grade", "drifted"}] :
              /\ d.end = "no_docker" => ~d.started
              /\ d.end = "ok" => d.started}

_container_did_not_start(d) == ~d.started /\ d.end # "ok"
read_untrusted_text(d) == d.file = "regular"
parse_grade_payload(d) == d.payload = "grade"

_grade_container(d) ==
  IF d.end = "timeout" THEN IF d.started THEN "failed" ELSE "infra"
  ELSE IF d.end # "ok" THEN IF _container_did_not_start(d) THEN "infra" ELSE "failed"
  ELSE IF read_untrusted_text(d) THEN "written" ELSE "failed"

confined_postprocess(d) ==
  IF _grade_container(d) = "written"
    THEN IF parse_grade_payload(d) THEN "graded" ELSE "failed"
    ELSE _grade_container(d)

(* The study's record: an escape is an escape however the grading went;    *)
(* only a grade that passes is a success.                                  *)
failed_record == IF escape THEN "escape" ELSE "failure"
_record(correct) == IF escape THEN "escape" ELSE IF correct THEN "success" ELSE "failure"

(* The body of the with statement: the tree is graded, in a container of   *)
(* its own when confined, and its diff written to the run's records, after *)
(* the scan.  A driver that is given up on goes on by itself.              *)
GradeRun ==
  /\ stage = "yielded" /\ mode # "preflight"
  /\ \E d \in Drivers, correct \in BOOLEAN :
       LET verdict == IF ~Host THEN confined_postprocess(d)
                      ELSE IF d.end = "ok" THEN "graded" ELSE "failed"
       IN  /\ booked' = CASE verdict = "graded" -> _record(correct)
                          [] verdict = "failed" -> failed_record
                          [] verdict = "infra"  -> "infra"
           /\ exc' = IF verdict = "infra" THEN "error" ELSE "none"
           /\ have' = IF ~Host /\ d.end = "timeout" THEN have \cup {"grade"} ELSE have
           /\ \E diff \in SUBSET Readable :
                records' = IF verdict = "graded" THEN records \cup diff ELSE records
  /\ stage' = "cleanup"
  /\ UNCHANGED <<age, capture, egress, mode, stuck, overrun, escape, step, torn, reaped>>

(* run_preflight asks the trace only whether the model was reached; one    *)
(* that was not is an error once the run is cleaned up.                    *)
run_preflight ==
  /\ stage = "yielded" /\ mode = "preflight"
  /\ \/ UNCHANGED exc
     \/ exc' = "error"
  /\ stage' = "cleanup"
  /\ UNCHANGED <<age, capture, egress, run>>

--------------------------------------------------------------------------------
(* A volume cannot be removed while a container that mounts it is there.   *)
VolumeHeld(there) == \E c \in there \cap Containers : "volume" \in Mounts[c]

(* What one cleanup step does when it succeeds. *)
Removes(what) ==
  /\ have' = have \ {what}
  /\ brokerUp' = (brokerUp /\ what # "broker")
  /\ grant' = (grant /\ what # "root")
  /\ records' = IF what = "scrub" THEN secret_scrub(records, {"key", "token"})
                ELSE IF what = "records" THEN {} ELSE records
  /\ leader' = IF what = "agent" /\ leader = "running" THEN "exited" ELSE leader
  /\ stuck' = stuck \ {what}

(* docker rm -f, docker volume rm and rmtree(ignore_errors) fail without   *)
(* anyone hearing of it.                                                   *)
RemovalFails(what) ==
  /\ what \in have
  /\ Cardinality(stuck) < MaxRefusals \/ (what = "volume" /\ VolumeHeld(have))
  /\ stuck' = stuck \cup {what}
  /\ UNCHANGED <<have, brokerUp, grant, records, leader>>

CleanUp ==
  /\ stage = "cleanup"
  /\ LET what == Cleanup[step]
     IN  RemovalFails(what) \/ (~(what = "volume" /\ VolumeHeld(have)) /\ Removes(what))
  /\ step' = step + 1
  /\ stage' = IF step = Len(Cleanup) THEN "ended" ELSE "cleanup"
  /\ UNCHANGED <<exc, age, kid, written, got, outReader, errReader, exceeded, timed_out,
                 incomplete, call, calls, knows, mode, overrun, escape, booked, torn, reaped>>

(* docker_run's own timeout is an exception that teardown does not catch:  *)
(* what is left of the finally block is skipped.                           *)
DockerHangs ==
  /\ stage = "cleanup" /\ Cleanup[step] \in {"agent", "broker", "volume"}
  /\ torn' = "cleanup" /\ stage' = "ended"
  /\ UNCHANGED <<exc, age, capture, egress, mode, have, stuck, overrun, records, escape, booked, step, reaped>>

(* exit_on_sigterm: SystemExit in the thread, wherever it is.  In a        *)
(* finally block it ends that block; before the try there is none, so that *)
(* between Popen and its try the process is left running.                  *)
Sigterm ==
  /\ stage \notin {"study", "start", "ended", "killed"} /\ exc # "sigterm" /\ torn = "no"
  /\ exc' = "sigterm"
  /\ \/ stage \in {"entered", "cleanup"} /\ stage' = "ended" /\ torn' = "cleanup"
     \/ stage \in {"spawned", "join", "reap"} /\ stage' = "cleanup" /\ torn' = "capture"
     \/ stage = "loop" /\ stage' = "join" /\ UNCHANGED torn
     \/ /\ stage \in {"prepare", "volume", "broker", "wait", "spawn", "probe", "probing", "collect", "yielded"}
        /\ stage' = "cleanup" /\ UNCHANGED torn
  /\ UNCHANGED <<age, capture, egress, mode, have, stuck, overrun, records, escape, booked, step, reaped>>

Sigkill ==
  /\ stage \notin {"study", "start", "ended", "killed"}
  /\ stage' = "killed"
  /\ outReader' = "off" /\ errReader' = "off"
  /\ UNCHANGED <<exc, age, leader, kid, written, got, exceeded, timed_out, incomplete, egress, run>>

(* reap, at the next study: the labelled containers, then the labelled     *)
(* volumes that no container holds, then the run directories old enough.   *)
(* The probe's container carries no label.  A removal that fails is passed *)
(* over.                                                                   *)
reap ==
  /\ stage \in {"ended", "killed"} /\ ~reaped
  /\ \E fails \in SUBSET (have \cap ({"volume"} \cup Containers)) :
       /\ fails = {} \/ Cardinality(stuck \cup fails) <= MaxRefusals
       /\ LET labelled == {"broker", "grade"} \cup (IF mode = "probe" THEN {} ELSE {"agent"})
              staying == have \ (labelled \ fails)
              idle == IF VolumeHeld(staying) \/ "volume" \in fails THEN staying ELSE staying \ {"volume"}
          IN  /\ have' \in {idle, idle \ {"workdir", "root", "scoped"}}
              /\ stuck' = have' \cap (stuck \cup fails \cup (IF VolumeHeld(staying) THEN {"volume"} ELSE {}))
  /\ brokerUp' = (brokerUp /\ "broker" \in have')
  /\ grant' = (grant /\ "root" \in have')
  /\ reaped' = TRUE
  /\ UNCHANGED <<stage, exc, age, capture, call, calls, knows, mode, overrun, records, escape, booked, step, torn>>

--------------------------------------------------------------------------------
(* What the agent prints. *)
Says == {e \in Transcript : e.leak \in {"none"} \cup Readable}

Agent ==
  /\ \/ AgentWrites(Says) /\ UNCHANGED have
     \/ AgentExits /\ have' = have \ {"agent"}
     \/ KidExits /\ UNCHANGED have
  /\ stuck' = stuck \cap have'
  /\ UNCHANGED <<stage, exc, age, egress, mode, overrun, records, escape, booked, step, torn, reaped>>

(* The container of a confined agent outlives its docker client: a kill of *)
(* the client's group does not reach it.  It works on in the workdir, and  *)
(* nobody reads what it prints.                                            *)
AgentGoesOn ==
  /\ mode = "confined" /\ "agent" \in have /\ leader \notin {"none", "running"}
  /\ overrun' = TRUE
  /\ UNCHANGED <<stage, exc, age, capture, egress, mode, have, stuck, records, escape, booked, step, torn, reaped>>

AgentCalls ==
  /\ mode = "confined" /\ "agent" \in have
  /\ \E r \in Requests : _forward(r)
  /\ UNCHANGED <<stage, exc, age, capture, run>>

BrokerStep ==
  /\ handle \/ Answer \/ Hangup
  /\ UNCHANGED <<stage, exc, age, capture, run>>

BrokerEnds == Deadline /\ UNCHANGED <<stage, exc, age, capture, run>>

(* A probe's container ends with its one answer, a driver with its grading *)
(* and an agent's with the agent, whoever waits for them.                  *)
ContainerEnds ==
  /\ \/ "grade" \in have /\ have' = have \ {"grade"}
     \/ /\ "agent" \in have /\ have' = have \ {"agent"}
        /\ IF mode = "probe" THEN stage # "probing" ELSE leader # "running"
  /\ stuck' = stuck \cap have'
  /\ UNCHANGED <<stage, exc, age, capture, egress, mode, overrun, records, escape, booked, step, torn, reaped>>

Readers == (ReadOut \/ ReadErr) /\ UNCHANGED <<stage, exc, age, egress, run>>

Clock ==
  /\ age < (IF Host THEN 1 ELSE 3) /\ (leader = "running" \/ brokerUp)
  /\ age' = age + 1
  /\ UNCHANGED <<stage, exc, capture, egress, run>>

Harness ==
  \/ _confinement \/ Enter \/ EnterTry \/ Prepare \/ CreateVolume \/ StartBroker \/ wait_for_broker
  \/ Probe \/ Probed \/ Spawn
  \/ (StartReaders \/ Watch(age >= 1) \/ Join \/ Finish) /\ UNCHANGED <<age, egress, run>>
  \/ Collect \/ GradeRun \/ run_preflight \/ CleanUp

AgentNext ==
  \/ Harness \/ DockerHangs \/ Sigterm \/ Sigkill \/ reap
  \/ Agent \/ AgentGoesOn \/ AgentCalls \/ BrokerStep \/ BrokerEnds \/ ContainerEnds \/ Readers \/ Clock

(* The harness and its reader threads run, the clock does and the broker's *)
(* own deadline ends it; nothing is assumed of the agent or of docker.     *)
AgentFairness ==
  WF_agentVars(Harness) /\ WF_agentVars(Readers) /\ WF_agentVars(BrokerEnds) /\ WF_agentVars(Clock)

AgentSpec == AgentInit /\ [][AgentNext]_agentVars /\ AgentFairness

--------------------------------------------------------------------------------
(* A run that the study records as its agent's own success or failure was  *)
(* judged on all that went into the pipe it was read from: a scan of the   *)
(* whole of it would have found no escape and no key, wherever the cap,    *)
(* the joins or a process left behind cut the reading.  What the container *)
(* of a confined agent does after its client is gone is not in it.         *)
VerdictEarned ==
  booked \in {"success", "failure"} =>
    ~escape_scan(written, box) /\ "key" \notin Leaks(written)

(* However a run ends - a result, an error, a transcript over the cap or   *)
(* incomplete, a signal that does not land in the cleanup itself - its     *)
(* kept files hold neither the key nor the capability token; those of a    *)
(* confined run hold no credential, while a login that a host agent read   *)
(* stays in them.                                                          *)
RecordsClean ==
  (stage = "ended" /\ torn # "cleanup") => records \subseteq (IF Host THEN {"login"} ELSE {})

(* A run whose cleanup was not cut short leaves of what it built only what *)
(* docker or the file system refused to remove and a grading container     *)
(* that was given up on.  The process it started is gone, and its group    *)
(* too if the harness had to kill it; what an agent that exited by itself  *)
(* left running, or a session of its own, stays.  What a killed or torn    *)
(* run left in docker is gone after the next reap, but for refusals.       *)
NothingLeft ==
  /\ (stage = "ended" /\ torn = "no") =>
       /\ have \subseteq {"grade"} \cup stuck
       /\ brokerUp => "broker" \in stuck
       /\ leader # "running" /\ (leader = "killed" => kid # "group")
  /\ (reaped /\ mode # "probe") => have \cap ({"volume"} \cup Containers) \subseteq stuck

(* The credentials that the broker injects reach a confined agent neither  *)
(* in an answer nor, so, in what it prints.                                *)
KeyStaysHome == ~Host => "key" \notin (knows \cup Leaks(written))

(* A confined agent is shown no credential, and no run keeps the key in    *)
(* its files, through whichever of the answers, the transcript, the        *)
(* relay's log and the diff.                                               *)
SecretsKept == RecordsClean /\ KeyStaysHome

(* The run ends, and a broker never outlives its deadline, the harness     *)
(* that was to remove it killed or not.                                    *)
AllEnds == <>[](stage \in {"ended", "killed"} /\ ~brokerUp)
================================================================================
