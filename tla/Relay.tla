--------------------------------- MODULE Relay ---------------------------------
(***************************************************************************)
(* The recording stdio relay (evals/relay.py) and its two recorders, the   *)
(* A/B study's (evals/ab/proxy.py) and the bench's (evals/bench/proxy.py): *)
(* the thread that takes the client's lines to the server, the main thread *)
(* that takes the server's lines to the client, the abort either may start *)
(* and the call log both write, with a disk that fails and a server that   *)
(* answers badly, ignores SIGTERM or goes away.                            *)
(*                                                                         *)
(* Left out: a client that goes away (the relay is killed with it) and a   *)
(* full pipe.  The rows of one abort are written in less than the 5 s that *)
(* the other thread waits for the server.                                  *)
(***************************************************************************)
EXTENDS Integers, FiniteSets, Functions

CONSTANTS Ids,        \* JSON-RPC request ids, which a client may reuse
          Tools, MaxLines, MaxFaults,
          RequestCap, \* BENCH_REQUEST_CAP
          Recorders   \* subset of {"ab", "bench"}

ASSUME RelayAssumption ==
  /\ {MaxLines, MaxFaults, RequestCap} \subseteq Nat /\ Recorders \subseteq {"ab", "bench"}

VARIABLES rec,      \* the recorder that serves
          line,     \* the client's lines so far, by number
          at,       \* where the upstream thread and the main thread are
          answer,   \* the server's answer that main has read
          left,     \* the rows each thread's Recorder.close has left to write
          before,   \* the unanswered rows each thread saw before it closed
          pendingCalls, \* Recorder.pending: the last call of each id, or 0
          forwarded,\* BenchRecorder.forwarded
          noted,    \* _Pending.calls
          aborted,  \* _Pending.aborted
          rows, buf,\* the log: on disk, and in the file object's buffer
          client,   \* is the client's stdout still open
          stdin,    \* is the server's stdin still open
          server,   \* "up", "eof" (its stdout ended), "dead"
          signal,   \* what it was sent
          inbox,    \* the calls it has and has not answered
          faults,   \* flushes that may still fail and answers that may still be bad
          \* history:
          sent,     \* the calls that reached the server
          late,     \* those that did after a Recorder.close had begun
          sealed,   \* a Recorder.close has begun
          relayed,  \* the calls whose answer reached the client
          cutOff    \* the process ended while upstream was writing the log

log == <<rows, buf, faults>>
process == <<server, signal, inbox, stdin>>
ghosts == <<sent, late, sealed, relayed, cutOff>>
relayVars == <<rec, line, at, answer, left, before, pendingCalls, forwarded, noted, aborted, log, client,
               process, ghosts>>

Threads == {"up", "main"}
Shapes == {"call", "noid", "positional", "batch"}
(* A line; where the id or the tool of a shape plays no part it is fixed. *)
Lines ==
  LET i == CHOOSE x \in Ids : TRUE
      t == CHOOSE x \in Tools : TRUE
  IN  {m \in [id : Ids, tool : Tools, shape : Shapes] :
         m.shape \notin {"call", "positional"} => m.id = i /\ m.tool = t}
Calls == 1..Cardinality(DOMAIN line)
LineNo == Cardinality(DOMAIN line)
NoAnswer == [call |-> 0, bad |-> FALSE]
NoKeys == [i \in Ids |-> 0]

RelayInit ==
  /\ rec \in Recorders
  /\ line = << >>
  /\ at = [t \in Threads |-> "read"]
  /\ answer = NoAnswer
  /\ left = [t \in Threads |-> {}] /\ before = [t \in Threads |-> {}]
  /\ pendingCalls = NoKeys /\ noted = NoKeys
  /\ forwarded = 0 /\ faults = MaxFaults
  /\ rows = {} /\ buf = {} /\ inbox = {}
  /\ aborted = FALSE /\ client = TRUE /\ stdin = TRUE
  /\ server = "up" /\ signal = "none"
  /\ sent = {} /\ late = {} /\ relayed = {} /\ sealed = FALSE /\ cutOff = FALSE

--------------------------------------------------------------------------------
StepTo(t, l) == at' = [at EXCEPT ![t] = l]

(* BenchRecorder.close holds the lock until its last row. *)
LockFree == rec = "bench" => \A t \in Threads : at[t] \notin {"rows", "eofrows"}

(* _write: the rows go to the file's buffer and are flushed. *)
Flushed(new) == rows' = rows \cup buf \cup new /\ buf' = {} /\ UNCHANGED faults

(* A flush that fails keeps what it could not write for the next one. *)
FlushFails(new) ==
  faults > 0 /\ faults' = faults - 1 /\ buf' = buf \cup new /\ UNCHANGED rows

(* What read_log finds: the unanswered rows on disk. *)
Unanswered == {r \in rows' : r[2] \in {"unanswered", "fallback"}}

--------------------------------------------------------------------------------
(* Recorder.request of the A/B proxy, under its lock: a call with an id    *)
(* and named params is pending; what it displaced is rowed afterwards.     *)
AbRequest(m) ==
  /\ pendingCalls' = IF m.shape = "call" THEN [pendingCalls EXCEPT ![m.id] = LineNo + 1] ELSE pendingCalls
  /\ StepTo("up", IF m.shape = "call" /\ pendingCalls[m.id] # 0 THEN "displaced" ELSE "note")
  /\ left' = [left EXCEPT !["up"] =
                IF m.shape = "call" /\ pendingCalls[m.id] # 0 THEN {<<pendingCalls[m.id], "dup">>} ELSE {}]
  /\ UNCHANGED <<forwarded, log>>

(* BenchRecorder.request refuses what it cannot pair or count. *)
Refused(m) == m.shape \in {"noid", "positional", "batch"} \/ (m.shape = "call" /\ forwarded >= RequestCap)

(* _refuse and _refuse_batch: the row of a line that is answered here. *)
RefusalRow == {<<LineNo + 1, "refused">>}

(* BenchRecorder.request, all of it under the lock. *)
BenchRequest(m) ==
  LET displaced == IF pendingCalls[m.id] # 0 THEN {<<pendingCalls[m.id], "dup">>} ELSE {}
  IN  \/ /\ Refused(m)
         /\ \/ Flushed(RefusalRow) /\ StepTo("up", "read")
            \/ FlushFails(RefusalRow) /\ StepTo("up", "raised")
         /\ UNCHANGED <<forwarded, pendingCalls>>
      \/ /\ ~Refused(m) /\ m.shape = "call"
         /\ forwarded' = forwarded + 1
         /\ \/ /\ (IF displaced = {} THEN UNCHANGED log ELSE Flushed(displaced))
               /\ pendingCalls' = [pendingCalls EXCEPT ![m.id] = LineNo + 1]
               /\ StepTo("up", "note")
            \/ displaced # {} /\ FlushFails(displaced) /\ StepTo("up", "raised") /\ UNCHANGED pendingCalls
      \/ /\ ~Refused(m) /\ m.shape # "call"
         /\ StepTo("up", "note")
         /\ UNCHANGED <<forwarded, pendingCalls, log>>

(* _upstream: one line of the client, shown to the recorder. *)
ReadLine ==
  /\ at["up"] = "read" /\ LineNo < MaxLines /\ LockFree
  /\ \E m \in Lines :
       /\ line' = [c \in 1..(LineNo + 1) |-> IF c <= LineNo THEN line[c] ELSE m]
       /\ IF rec = "ab" THEN AbRequest(m) ELSE BenchRequest(m) /\ UNCHANGED left
  /\ UNCHANGED <<rec, answer, before, noted, aborted, client, process, ghosts>>

(* The row of the call that was displaced. *)
Displaced ==
  /\ at["up"] = "displaced"
  /\ \/ Flushed(left["up"]) /\ StepTo("up", "note")
     \/ FlushFails(left["up"]) /\ StepTo("up", "raised")
  /\ left' = [left EXCEPT !["up"] = {}]
  /\ UNCHANGED <<rec, line, answer, before, pendingCalls, forwarded, noted, aborted, client, process, ghosts>>

(* _Pending.note: the first call of an id, until an abort has begun. *)
Notes(m) ==
  IF m.shape \in {"call", "positional"} /\ ~aborted /\ noted[m.id] = 0
  THEN [noted EXCEPT ![m.id] = LineNo] ELSE noted

(* The line was let through, or request raised. *)
Note ==
  /\ at["up"] \in {"note", "raised"}
  /\ noted' = Notes(line[LineNo])
  /\ StepTo("up", IF at["up"] = "note" THEN "send" ELSE "abort")
  /\ UNCHANGED <<rec, line, answer, left, before, pendingCalls, forwarded, aborted, log, client, process, ghosts>>

(* server.write and flush; a broken pipe ends the thread. *)
Send ==
  /\ at["up"] = "send"
  /\ \/ /\ server # "dead"
        /\ inbox' = inbox \cup {LineNo}
        /\ sent' = sent \cup {LineNo}
        /\ late' = IF sealed THEN late \cup {LineNo} ELSE late
        /\ StepTo("up", "read")
     \/ server = "dead" /\ StepTo("up", "done") /\ UNCHANGED <<inbox, sent, late>>
  /\ UNCHANGED <<rec, line, answer, left, before, pendingCalls, forwarded, noted, aborted, log, client,
                 server, signal, stdin, sealed, relayed, cutOff>>

(* The client's end of input: the server's stdin is closed. *)
ClientEnds ==
  /\ at["up"] = "read"
  /\ stdin' = FALSE
  /\ StepTo("up", "done")
  /\ UNCHANGED <<rec, line, answer, left, before, pendingCalls, forwarded, noted, aborted, log, client,
                 server, signal, inbox, ghosts>>

--------------------------------------------------------------------------------
(* The server's next line.  Only one with an id and no method is shown to  *)
(* the recorder; a request of the server's own goes straight through.      *)
ReadAnswer ==
  /\ at["main"] = "read" /\ server = "up"
  /\ \E c \in inbox :
       /\ line[c].shape # "noid"
       /\ \/ answer' = [call |-> c, bad |-> FALSE] /\ UNCHANGED faults
          \/ answer' = [call |-> c, bad |-> TRUE] /\ faults > 0 /\ faults' = faults - 1
       /\ inbox' = inbox \ {c}
  /\ StepTo("main", "check")
  /\ UNCHANGED <<rec, line, left, before, pendingCalls, forwarded, noted, aborted, rows, buf, client,
                 server, signal, stdin, ghosts>>

Answered == line[answer.call]

(* Recorder.response: a batch's answer is a list, which is not shown to    *)
(* it; an id that is not pending is none of its business; result_fields    *)
(* may choke on the body, which leaves the call pending.                   *)
Check ==
  /\ at["main"] = "check" /\ LockFree
  /\ StepTo("main", IF Answered.shape = "batch" \/ pendingCalls[Answered.id] = 0 THEN "relay"
                  ELSE IF answer.bad THEN "abort" ELSE "pop")
  /\ UNCHANGED <<rec, line, answer, left, before, pendingCalls, forwarded, noted, aborted, log, client,
                 process, ghosts>>

(* The call leaves pending under the lock, if it is still there. *)
Pop ==
  /\ at["main"] = "pop" /\ LockFree
  /\ LET c == pendingCalls[Answered.id]
     IN  /\ left' = [left EXCEPT !["main"] = IF c = 0 THEN {} ELSE {<<c, "answered">>}]
         /\ StepTo("main", IF c = 0 THEN "relay" ELSE "write")
  /\ pendingCalls' = [pendingCalls EXCEPT ![Answered.id] = 0]
  /\ UNCHANGED <<rec, line, answer, before, forwarded, noted, aborted, log, client, process, ghosts>>

(* Fault: a row that could not be written is forgotten. *)
WriteForgets ==
  /\ at["main"] = "write" /\ LockFree
  /\ \/ Flushed(left["main"]) /\ StepTo("main", "relay")
     \/ FlushFails({}) /\ StepTo("main", "abort")
  /\ left' = [left EXCEPT !["main"] = {}]
  /\ UNCHANGED <<rec, line, answer, before, pendingCalls, forwarded, noted, aborted, client, process, ghosts>>

(* Its row; when that fails the call is pending again, unless the id has   *)
(* been reused meanwhile.                                                  *)
Write ==
  /\ at["main"] = "write" /\ LockFree
  /\ \/ Flushed(left["main"]) /\ StepTo("main", "relay") /\ UNCHANGED pendingCalls
     \/ /\ FlushFails(left["main"]) /\ StepTo("main", "abort")
        /\ pendingCalls' = [pendingCalls EXCEPT ![Answered.id] =
                         IF @ = 0 THEN CHOOSE c \in Calls : <<c, "answered">> \in left["main"] ELSE @]
  /\ left' = [left EXCEPT !["main"] = {}]
  /\ UNCHANGED <<rec, line, answer, before, forwarded, noted, aborted, client, process, ghosts>>

(* _Pending.drop, for what was shown to the recorder, and _Client.write,   *)
(* which is silent once closed.                                            *)
RelayLine ==
  /\ at["main"] = "relay"
  /\ noted' = IF Answered.shape = "batch" THEN noted ELSE [noted EXCEPT ![Answered.id] = 0]
  /\ relayed' = IF client THEN relayed \cup {answer.call} ELSE relayed
  /\ answer' = NoAnswer
  /\ StepTo("main", "read")
  /\ UNCHANGED <<rec, line, left, before, pendingCalls, forwarded, aborted, log, client, process, sent,
                 late, sealed, cutOff>>

(* The server's stdout has ended: an abort that has begun is waited for,   *)
(* otherwise the log is read and the recorder closed.                      *)
AtEof ==
  /\ at["main"] = "read" /\ server # "up"
  /\ \/ aborted /\ StepTo("main", "abort") /\ UNCHANGED <<before, log>>
     \/ /\ ~aborted /\ StepTo("main", "eofclose")
        /\ \/ Flushed({}) /\ before' = [before EXCEPT !["main"] = Unanswered]
           \/ FlushFails({}) /\ UNCHANGED before
  /\ UNCHANGED <<rec, line, answer, left, pendingCalls, forwarded, noted, aborted, client, process, ghosts>>

--------------------------------------------------------------------------------
(* abort: the first to begin closes the recorder, which must log what is   *)
(* still pending; the other only waits.  After main's close has raised it  *)
(* is not closed again.                                                    *)
BeginAbort(t) ==
  /\ at[t] \in {"abort", "abortnoclose"}
  /\ aborted' = TRUE
  /\ \/ aborted /\ StepTo(t, "wait") /\ UNCHANGED <<before, log>>
     \/ ~aborted /\ at[t] = "abortnoclose" /\ StepTo(t, "fallback") /\ UNCHANGED <<before, log>>
     \/ /\ ~aborted /\ at[t] = "abort" /\ StepTo(t, "close")
        /\ \/ Flushed({}) /\ before' = [before EXCEPT ![t] = Unanswered]
           \/ FlushFails({}) /\ before' = [before EXCEPT ![t] = {}]
  /\ answer' = IF t = "main" THEN NoAnswer ELSE answer
  /\ UNCHANGED <<rec, line, left, pendingCalls, forwarded, noted, client, process, ghosts>>

(* Recorder.close: what is pending is taken under the lock... *)
Close(t) ==
  /\ at[t] \in {"close", "eofclose"} /\ LockFree
  /\ left' = [left EXCEPT ![t] = {<<c, "unanswered">> : c \in Range(pendingCalls) \ {0}}]
  /\ pendingCalls' = NoKeys
  /\ sealed' = TRUE
  /\ StepTo(t, IF at[t] = "close" THEN "rows" ELSE "eofrows")
  /\ UNCHANGED <<rec, line, answer, before, forwarded, noted, aborted, log, client, process, sent,
                 late, relayed, cutOff>>

(* ... and rowed, row by row.  A row that fails leaves the others unwritten.*)
CloseRow(t) ==
  /\ at[t] \in {"rows", "eofrows"}
  /\ \/ /\ left[t] = {}
        /\ StepTo(t, IF at[t] = "rows" THEN "closeclient" ELSE "eofend")
        /\ UNCHANGED <<left, log>>
     \/ \E r \in left[t] :
          \/ /\ Flushed({r})
             /\ left' = [left EXCEPT ![t] = @ \ {r}]
             /\ UNCHANGED at
          \/ /\ FlushFails({r})
             /\ left' = [left EXCEPT ![t] = {}]
             /\ StepTo(t, IF at[t] = "rows" THEN "fallback" ELSE "abortnoclose")
  /\ UNCHANGED <<rec, line, answer, before, pendingCalls, forwarded, noted, aborted, client, process, ghosts>>

(* _fallback_rows: the noted calls, less one of a tool for each unanswered *)
(* row of that tool that is new in the log.                                *)
FallbackRows(fresh) ==
  LET calls == Range(noted) \ {0}
      counted(tool) == Cardinality({r \in fresh : line[r[1]].tool = tool})
      earlier(c) == {d \in calls : d < c /\ line[d].tool = line[c].tool}
  IN  {<<c, "fallback">> : c \in {d \in calls : Cardinality(earlier(d)) >= counted(line[d].tool)}}

(* write_fallback: read_log flushes the buffer; when that fails no row is  *)
(* known to be new.  When the rows' own flush fails the client stays open. *)
Fallback(t) ==
  /\ at[t] = "fallback"
  /\ LET fresh == {r \in rows \cup buf : r[2] \in {"unanswered", "fallback"}} \ before[t]
     IN  \/ Flushed(FallbackRows(fresh)) /\ StepTo(t, "closeclient")
         \/ /\ faults > 0 /\ faults' = faults - 1
            /\ \/ /\ rows' = rows \cup buf \cup FallbackRows({}) /\ buf' = {}
                  /\ StepTo(t, "closeclient")
               \/ /\ rows' = rows \cup buf /\ buf' = FallbackRows(fresh)
                  /\ StepTo(t, "terminate")
  /\ UNCHANGED <<rec, line, answer, left, before, pendingCalls, forwarded, noted, aborted, client, process, ghosts>>

CloseClient(t) ==
  /\ at[t] \in {"closeclient", "eofend"}
  /\ client' = FALSE
  /\ StepTo(t, IF at[t] = "closeclient" THEN "terminate" ELSE "wait")
  /\ UNCHANGED <<rec, line, answer, left, before, pendingCalls, forwarded, noted, aborted, log, process, ghosts>>

Terminate(t) ==
  /\ at[t] = "terminate"
  /\ signal' = IF signal = "none" THEN "term" ELSE signal
  /\ StepTo(t, "wait")
  /\ UNCHANGED <<rec, line, answer, left, before, pendingCalls, forwarded, noted, aborted, log, client,
                 server, stdin, inbox, ghosts>>

UpWrites == at["up"] \in {"displaced", "close", "rows", "fallback"}

(* child.wait: the thread is over when the server is. *)
UpWaited ==
  /\ at["up"] = "wait" /\ server = "dead"
  /\ StepTo("up", "done")
  /\ UNCHANGED <<rec, line, answer, left, before, pendingCalls, forwarded, noted, aborted, log, client,
                 process, ghosts>>

(* With main's return the log is closed, and the process ends whatever     *)
(* upstream is doing.                                                      *)
MainWaited ==
  /\ at["main"] = "wait" /\ server = "dead"
  /\ at' = [t \in Threads |-> "done"]
  /\ cutOff' = UpWrites
  /\ Flushed({}) \/ FlushFails({})
  /\ UNCHANGED <<rec, line, answer, left, before, pendingCalls, forwarded, noted, aborted, client,
                 process, sent, late, sealed, relayed>>

(* Fault: an abort waits for the server as long as it takes. *)
WaitForever(t) == FALSE /\ UNCHANGED relayVars

(* The 5 s of an abort are over. *)
WaitTimesOut(t) ==
  /\ at[t] = "wait" /\ aborted /\ server # "dead"
  /\ \A o \in Threads : at[o] \notin {"close", "rows", "fallback", "closeclient", "terminate"}
  /\ signal' = "kill"
  /\ UNCHANGED <<rec, line, at, answer, left, before, pendingCalls, forwarded, noted, aborted, log,
                 client, server, stdin, inbox, ghosts>>

--------------------------------------------------------------------------------
(* The server closes its stdout, of its own accord, for its end of input   *)
(* or for a signal; and it is gone.                                        *)
ServerEnds ==
  /\ \/ server = "up" /\ server' = "eof"
     \/ server # "dead" /\ server' = "dead"
  /\ inbox' = {}
  /\ UNCHANGED <<rec, line, at, answer, left, before, pendingCalls, forwarded, noted, aborted, log,
                 client, signal, stdin, sent, late, sealed, relayed, cutOff>>

Up == ReadLine \/ Displaced \/ Note \/ Send \/ ClientEnds
Main == ReadAnswer \/ Check \/ Pop \/ Write \/ RelayLine \/ AtEof
Abort(t) == BeginAbort(t) \/ Close(t) \/ CloseRow(t) \/ Fallback(t) \/ CloseClient(t) \/ Terminate(t)

RelayNext ==
  \/ Up \/ Main \/ UpWaited \/ MainWaited \/ ServerEnds
  \/ \E t \in Threads : Abort(t) \/ WaitTimesOut(t)

(* The threads run on.  A server ends once its stdin or its stdout has, or *)
(* when it is killed; it need not heed SIGTERM, nor ever answer.           *)
RelayFairness ==
  /\ WF_relayVars(Displaced \/ Note \/ Send \/ UpWaited)
  /\ WF_relayVars(Check \/ Pop \/ Write \/ RelayLine \/ AtEof \/ MainWaited)
  /\ \A t \in Threads : WF_relayVars(Abort(t)) /\ WF_relayVars(WaitTimesOut(t))
  /\ WF_relayVars((~stdin \/ server = "eof" \/ signal = "kill") /\ ServerEnds)

RelaySpec == RelayInit /\ [][RelayNext]_relayVars /\ RelayFairness

--------------------------------------------------------------------------------
RelayTypeOK ==
  /\ rec \in Recorders /\ \A c \in Calls : line[c] \in Lines
  /\ pendingCalls \in [Ids -> 0..MaxLines] /\ noted \in [Ids -> 0..MaxLines]
  /\ (rows \cup buf) \subseteq (Calls \X {"answered", "unanswered", "dup", "refused", "fallback"})
  /\ server \in {"up", "eof", "dead"} /\ signal \in {"none", "term", "kill"}
  /\ inbox \subseteq sent /\ sent \subseteq Calls

RowsOf(S) == {r \in rows \cup buf : r[1] \in S}
Paired(S) == {c \in S : line[c].shape = "call"}
OfTool(t) == {c \in Calls : line[c].tool = t}
OneFailure == MaxFaults - faults <= 1
DistinctIds == \A c, d \in Calls : line[c].id = line[d].id => c = d

(* relay.py:10-14: once the relay is over, whatever was answered, cut off  *)
(* or aborted, each tool has a row for every call of it that reached the   *)
(* server.  Not for a call sent after the recorder was closed, not when    *)
(* the process ended while upstream was still writing the log, and not     *)
(* when two things failed or a failure met a reused id.  With no failure   *)
(* no call has two rows.                                                   *)
EveryCallLogged ==
  /\ at["main"] = "done" /\ buf = {} /\ ~cutOff /\ OneFailure /\ (faults = MaxFaults \/ DistinctIds) =>
       \A t \in Tools :
         Cardinality(RowsOf(OfTool(t))) >= Cardinality(Paired(sent \ late) \cap OfTool(t))
  /\ faults = MaxFaults => \A c \in Calls : Cardinality(RowsOf({c})) <= 1

(* An answer that the client has seen has its row in the log, whatever the *)
(* other thread did since it was read; but for the rows upstream is about  *)
(* to write.  Not when two things failed: the answer of a call whose row   *)
(* upstream's close gave up takes the call off the fallback's list too.    *)
AnswerIsLogged == ~UpWrites /\ ~cutOff /\ OneFailure => \A c \in Paired(relayed \ late) : RowsOf({c}) # {}

(* After the server, the client's input or the recorder has failed or      *)
(* ended the relay ends, also when the server ignores SIGTERM and when     *)
(* both threads abort at once.                                             *)
RelayEnds == (aborted \/ server # "up" \/ ~stdin) ~> at["main"] = "done"

(* The log accounts for the session: every call that reached the server,   *)
(* and every answer that the client has seen.                              *)
LogHonest == EveryCallLogged /\ AnswerIsLogged
================================================================================
