-------------------------------- MODULE Capture --------------------------------
(***************************************************************************)
(* capture_output (evals/agent.py): the harness starts the agent in its    *)
(* own session and reads its pipes with two threads, until it exits, is    *)
(* timed out or writes more than the cap.                                  *)
(*                                                                         *)
(* `leader' is the process that the harness started and leads its group:   *)
(* the agent on the host, the docker client of its container when          *)
(* confined.  `kid' is a process that a host agent leaves behind with the  *)
(* pipes open, in its group or in a session of its own.  Stdout is counted *)
(* in tool events.  A thread's join(5) gives up at any time while the      *)
(* thread reads: a slow machine is no faster than that.                    *)
(***************************************************************************)
EXTENDS Canary

CONSTANTS Transcript, \* the events an agent may write
          MaxEvents,  \* bound on what it writes
          Cap         \* STDOUT_CAP_BYTES, in events

ASSUME CaptureAssumption == (\A e \in Transcript : IsEvent(e)) /\ Cap \in Nat /\ MaxEvents \in Nat

VARIABLES stage,         \* the harness's thread
          exc,        \* the exception under way, or "none"
          leader, kid,
          written,    \* all that went into the stdout pipe
          got,        \* how much of it the reader has kept
          outReader, errReader,
          exceeded, timed_out, incomplete

capture == <<leader, kid, written, got, outReader, errReader,
             exceeded, timed_out, incomplete>>

CaptureInit ==
  /\ leader = "none" /\ kid = "none"
  /\ written = <<>> /\ got = 0
  /\ outReader = "off" /\ errReader = "off"
  /\ exceeded = FALSE /\ timed_out = FALSE /\ incomplete = FALSE

(* _StdoutCapExceeded and _IncompleteTranscript: a transcript that is not  *)
(* whole is raised with what was read of it, never returned.               *)
Unfinished == {"cap", "incomplete"}

kept == SubSeq(written, 1, got)

--------------------------------------------------------------------------------
(* The agent and what it leaves behind.  A write after the last read is    *)
(* one into a broken pipe.                                                 *)
Writers == {leader, kid} \cap {"running", "group", "session"}

AgentWrites(events) ==
  /\ Writers # {} /\ outReader = "reading" /\ Len(written) < MaxEvents
  /\ \E e \in events : written' = Append(written, e)
  /\ UNCHANGED <<leader, kid, got, outReader, errReader, exceeded, timed_out, incomplete>>

(* It exits by itself. *)
AgentExits ==
  /\ leader = "running"
  /\ leader' = "exited"
  /\ UNCHANGED <<kid, written, got, outReader, errReader, exceeded, timed_out, incomplete>>

KidExits ==
  /\ kid \in {"group", "session"}
  /\ kid' = "none"
  /\ UNCHANGED <<leader, written, got, outReader, errReader, exceeded, timed_out, incomplete>>

(* _kill_group: SIGKILL to the group; one that is gone is no error. *)
_kill_group ==
  /\ leader' = IF leader = "running" THEN "killed" ELSE leader
  /\ kid' = IF kid = "group" THEN "none" ELSE kid

(* _read_pipe over stdout: each read keeps what the cap has room for; past *)
(* it the reader kills the group and returns.  Over stderr: the rest is    *)
(* discarded and the pipe drained to its end.                              *)
ReadOut ==
  /\ outReader = "reading"
  /\ \/ /\ got < Len(written) /\ got < Cap
        /\ got' = got + 1
        /\ UNCHANGED <<leader, kid, outReader, exceeded>>
     \/ /\ got < Len(written) /\ got = Cap
        /\ exceeded' = TRUE /\ _kill_group
        /\ outReader' = "done"
        /\ UNCHANGED got
     \/ /\ got = Len(written) /\ Writers = {}
        /\ outReader' = "done"
        /\ UNCHANGED <<leader, kid, got, exceeded>>
  /\ UNCHANGED <<written, errReader, timed_out, incomplete>>

ReadErr ==
  /\ errReader = "reading" /\ Writers = {}
  /\ errReader' = "done"
  /\ UNCHANGED <<leader, kid, written, got, outReader, exceeded, timed_out, incomplete>>

--------------------------------------------------------------------------------
(* The harness's thread: the process is there before its readers are.      *)
Popen ==
  /\ leader' = "running"
  /\ UNCHANGED <<written, got, outReader, errReader, exceeded, timed_out, incomplete>>

StartReaders ==
  /\ stage = "spawned"
  /\ outReader' = "reading" /\ errReader' = "reading"
  /\ stage' = "loop"
  /\ UNCHANGED <<exc, leader, kid, written, got, exceeded, timed_out, incomplete>>

Reading == "reading" \in {outReader, errReader}

(* The wait: the agent exits, the cap trips, or the deadline passes; past  *)
(* the cap or the deadline its group is killed.                            *)
Watch(late) ==
  /\ stage = "loop"
  /\ leader # "running" \/ exceeded \/ late
  /\ timed_out' = (leader = "running" /\ ~exceeded)
  /\ IF exceeded \/ timed_out' THEN _kill_group ELSE UNCHANGED <<leader, kid>>
  /\ stage' = "join"
  /\ UNCHANGED <<exc, written, got, outReader, errReader, exceeded, incomplete>>

(* Fault: a join that gives up is taken for the end of the output. *)
JoinSilently ==
  /\ stage = "join"
  /\ stage' = "reap"
  /\ UNCHANGED <<exc, capture>>

(* The joins: a reader still alive makes the capture incomplete, and the   *)
(* pipes are closed under it.                                              *)
Join ==
  /\ stage = "join"
  /\ \/ ~Reading /\ stage' = "reap" /\ UNCHANGED <<outReader, errReader, incomplete>>
     \/ /\ Reading
        /\ incomplete' = TRUE
        /\ outReader' = "done" /\ errReader' = "done"
        /\ stage' = "reap"
  /\ UNCHANGED <<exc, leader, kid, written, got, exceeded, timed_out>>

(* The end of the finally block, and what capture_output returns or        *)
(* raises.                                                                 *)
Finish ==
  /\ stage = "reap"
  /\ IF leader = "running" THEN _kill_group ELSE UNCHANGED <<leader, kid>>
  /\ exc' = IF exc # "none" THEN exc
            ELSE IF incomplete THEN "incomplete"
            ELSE IF exceeded THEN "cap" ELSE "none"
  /\ stage' = "collect"
  /\ UNCHANGED <<written, got, outReader, errReader, exceeded, timed_out, incomplete>>
================================================================================
