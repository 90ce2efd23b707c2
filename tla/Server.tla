--------------------------------- MODULE Server ---------------------------------
(***************************************************************************)
(* One server process: the startup gates of main (server.py), the provider *)
(* selection they consult (providers/resolver.py), the stdio pipeline of   *)
(* reader, dispatcher, handlers and writer (stdio.py), the HTTP transport  *)
(* behind its bearer gate (http_auth.py), the tool kernel with its spans   *)
(* and metrics (tools/toolset.py, telemetry.py), signals and shutdown.     *)
(* Another process may run `jev-judge-mcp setup` meanwhile (setup.py).     *)
(*                                                                         *)
(* The SDK's dispatcher and uvicorn are external: they are given every     *)
(* choice the code here has to live with.                                  *)
(***************************************************************************)
EXTENDS Integers, FiniteSets, Sequences, SequencesExt

CONSTANTS NRequests, Configs, MetricsInterval,
          SetupConfigs,             \* where someone runs setup meanwhile
          BindAttempts, BindBudget, \* ticks; one gap is one tick
          InboxBound                \* lines a client has in flight

ASSUME ServerAssumption ==
  /\ NRequests \in Nat /\ MetricsInterval \in Nat \ {0} /\ InboxBound \in Nat
  /\ BindAttempts \in Nat \ {0} /\ BindBudget \in Nat
  /\ \A c \in Configs : c.token \in {"none", "short", "ok"}

VARIABLES conf,              \* the settings the process loaded
          phase,             \* how far main and serve are
          tries, clock,      \* ensure_http_port_free
          stored, setup,     \* the key file, and a concurrent setup
          seen,              \* the key file as ensure_provider_runnable read it
          provider, pool,    \* Runtime._provider and the regex pool
          inbox, eof,        \* the client's end of stdin
          reader, line, writer, \* the tasks of stdio_streams
          signalled, cancelled,
          call, h,           \* each request and its handler
          calls, since, snapshots \* telemetry

gates == <<conf, tries, clock>>
keys == <<stored, setup, seen>>
client == <<inbox, eof>>
tasks == <<reader, line, writer>>
stops == <<signalled, cancelled>>
metrics == <<calls, since, snapshots>>
vars == <<gates, phase, keys, provider, pool, client, tasks, stops, call, h, metrics>>

None == "none"

(* A client numbers its requests in the order it sends them. *)
Requests == 1..NRequests

(* The shapes of a call: null arguments, an unknown tool or arguments that do *)
(* not parse, a handler that asks the provider, and one that never does       *)
(* (jev_extract without candidates).                                          *)
Kinds == {"null", "invalid", "ask", "local"}
Idle == 0
NoLine == [type |-> None]
NoCall == [kind |-> None, auth |-> FALSE]
Live == {"running", "asking", "replying"}

Init ==
  /\ conf \in Configs
  /\ phase = "main"
  /\ tries = 0 /\ clock = 0
  /\ stored = conf.stored /\ setup = "idle" /\ seen = None
  /\ provider = None /\ pool = "cold"
  /\ inbox = <<>> /\ eof = FALSE
  /\ reader = None /\ line = NoLine /\ writer = Idle
  /\ signalled = FALSE /\ cancelled = FALSE
  /\ call = [r \in Requests |-> NoCall]
  /\ h = [r \in Requests |-> "none"]
  /\ calls = 0 /\ since = 0 /\ snapshots = 0

--------------------------------------------------------------------------------
(* Startup. *)

Serving == UNCHANGED <<keys, provider, client, tasks, stops, call, h, metrics>>

Exit(how) == phase' = how

(* A key file that is missing, unreadable, oversized or blank holds no key. *)
stored_key(file) == IF file \in {"short", "ok"} THEN file ELSE None

(* A TypeSafe key that is a whole unexpanded reference counts as unset; every *)
(* other credential keeps the reference, so its gate still judges it.         *)
Configured(c) == c.creds \ (IF c.unexpanded THEN {"typesafe"} ELSE {})

(* The stored key fills an unset variable, which otherwise wins. *)
typesafe_key(c, file) ==
  CASE "typesafe" \in Configured(c) -> "environment"
    [] "typesafe" \notin Configured(c) /\ stored_key(file) # None -> "key_file"
    [] OTHER -> None

Credentials(c, file) ==
  Configured(c) \cup (IF typesafe_key(c, file) = None THEN {} ELSE {"typesafe"})

Selectable == <<"typesafe", "openrouter", "cloudflare", "vercel", "compatible">>

(* The match on JEV_PROVIDER, then the order of the catalog. *)
Chosen(c, credentials) ==
  LET has == SelectSeq(Selectable, LAMBDA p : p \in credentials)
      chosen == IF c.explicit \in Range(Selectable)
                THEN IF c.explicit \in credentials THEN c.explicit ELSE None
                ELSE IF has = <<>> THEN None ELSE Head(has)
  IN IF chosen \in {None, "vercel"} THEN "config_error" ELSE chosen

select_provider(c, file) == Chosen(c, Credentials(c, file))

require_posix == conf.posix

(* The subcommands that end main before any gate, and those behind one. *)
Ungated == {"version", "help", "install", "hook", "doctor", "setup", "calibrate"}
Gated == {"judge", "gate", "completion-hook"}

(* main up to the server: the subcommands return before any gate but one. *)
Main ==
  /\ phase = "main"
  /\ \/ ~require_posix /\ Exit("refused")
     \/ /\ require_posix
        /\ conf.command \in Ungated
        /\ Exit("delegated")
     \/ /\ require_posix
        /\ conf.command \in Gated \cup {"serve"}
        /\ phase' = "secrets"
  /\ Serving /\ UNCHANGED <<gates, pool>>

(* Exact replacement of a value this short would blank ordinary text. *)
Redactable == ~conf.shortSecret /\ stored_key(stored) # "short"

ensure_secrets_redactable ==
  /\ phase = "secrets"
  /\ phase' = CASE ~Redactable -> "refused"
                [] Redactable /\ conf.command = "serve" -> "access"
                [] OTHER -> "delegated"
  /\ Serving /\ UNCHANGED <<gates, pool>>

ensure_http_access_control ==
  /\ phase = "access"
  /\ phase' = IF /\ conf.transport = "http"
                 /\ \/ conf.token = "short"
                    \/ conf.token = None /\ conf.host # "protected"
              THEN "refused" ELSE "port"
  /\ Serving /\ UNCHANGED <<gates, pool>>

(* What binding every address of the host may meet.  A host that does not *)
(* resolve binds nothing and is left to the server.                       *)
Binds == IF conf.resolves THEN {"free", "in_use", "error"} ELSE {"nothing"}

(* One try of the probe, which takes no or one tick, and the wait after it. *)
ensure_http_port_free ==
  /\ phase = "port"
  /\ \E b \in IF conf.transport = "http" THEN Binds ELSE {"nothing"}, d \in 0..1 :
       LET attempt == tries + 1
           remaining == BindBudget - (clock + d)
           again == b = "in_use" /\ attempt < BindAttempts /\ remaining > 0
       IN /\ phase' = CASE again -> "port"
                        [] b \in {"free", "nothing"} -> "provider"
                        [] b = "error" -> "crashed"
                        [] OTHER -> "refused"
          /\ tries' = IF again THEN attempt ELSE 0
          /\ clock' = IF again THEN clock + d + 1 ELSE 0
  /\ UNCHANGED <<conf, pool>> /\ Serving

(* Fault: the gate overlooks the key file. *)
RunnableByEnvironment ==
  /\ phase = "provider"
  /\ seen' = stored_key(stored)
  /\ phase' = IF select_provider(conf, "missing") = "typesafe" /\ ~conf.sdk THEN "refused" ELSE "warm"
  /\ UNCHANGED <<gates, stored, setup, provider, pool, client, tasks, stops, call, h, metrics>>

ensure_provider_runnable ==
  /\ phase = "provider"
  /\ seen' = stored_key(stored)
  /\ phase' = IF select_provider(conf, stored) = "typesafe" /\ ~conf.sdk THEN "refused" ELSE "warm"
  /\ UNCHANGED <<gates, stored, setup, provider, pool, client, tasks, stops, call, h, metrics>>

(* serve fills the pool, best effort, before any transport runs. *)
Warm ==
  /\ phase = "warm"
  /\ phase' = "bind"
  /\ pool' \in {"warm", "cold"}
  /\ Serving /\ UNCHANGED gates

(* Fault: the second bind is refused outside serve's finally. *)
BindLeavesPool ==
  /\ phase = "bind"
  /\ IF conf.transport = "stdio"
     THEN phase' = "running" /\ reader' = "reading" /\ UNCHANGED <<line, writer, pool>>
     ELSE \E b \in Binds :
            /\ UNCHANGED <<tasks, pool>>
            /\ phase' = CASE b = "free" -> "running" [] b = "in_use" -> "refused" [] OTHER -> "crashed"
  /\ UNCHANGED <<gates, keys, provider, client, stops, call, h, metrics>>

(* http_serve_sockets binds again: the probe closed its sockets, so the port *)
(* may be taken by now.  A refusal still closes the toolset.                 *)
Bind ==
  /\ phase = "bind"
  /\ IF conf.transport = "stdio"
     THEN phase' = "running" /\ reader' = "reading" /\ UNCHANGED <<line, writer, pool>>
     ELSE \E b \in Binds :
            /\ UNCHANGED tasks
            /\ IF b = "free" THEN phase' = "running" /\ UNCHANGED pool
               ELSE Exit(IF b = "in_use" THEN "refused" ELSE "crashed") /\ pool' = "closed"
  /\ UNCHANGED <<gates, keys, provider, client, stops, call, h, metrics>>

Startup ==
  \/ Main \/ ensure_secrets_redactable \/ ensure_http_access_control
  \/ ensure_http_port_free \/ ensure_provider_runnable \/ Warm \/ Bind

--------------------------------------------------------------------------------
(* `jev-judge-mcp setup` in another process: prove the key, then store it. *)

SetupVerify ==
  /\ setup = "idle" /\ conf \in SetupConfigs
  /\ setup' \in {"verified", "rejected"}
  /\ UNCHANGED <<gates, phase, stored, seen, provider, pool, client, tasks, stops, call, h, metrics>>

SetupStore ==
  /\ setup = "verified"
  /\ setup' = "stored"
  /\ stored' = "ok"
  /\ UNCHANGED <<gates, phase, seen, provider, pool, client, tasks, stops, call, h, metrics>>

--------------------------------------------------------------------------------
(* The client and the signals. *)

Untouched == UNCHANGED <<gates, keys, pool>>
Sent == {r \in Requests : call[r] # NoCall}

SendCall(r, k) ==
  /\ phase = "running" /\ conf.transport = "stdio" /\ ~eof
  /\ r = Cardinality(Sent) + 1 /\ Len(inbox) < InboxBound
  /\ call' = [call EXCEPT ![r] = [kind |-> k, auth |-> TRUE]]
  /\ inbox' = Append(inbox, [type |-> "call", id |-> r])
  /\ UNCHANGED <<phase, eof, provider, tasks, stops, h, metrics>> /\ Untouched

SendCancel(r) ==
  /\ phase = "running" /\ conf.transport = "stdio" /\ ~eof
  /\ r \in Sent /\ Len(inbox) < InboxBound
  /\ inbox' = Append(inbox, [type |-> "cancel", id |-> r])
  /\ UNCHANGED <<phase, eof, provider, tasks, stops, call, h, metrics>> /\ Untouched

SendGarbage ==
  /\ phase = "running" /\ conf.transport = "stdio" /\ ~eof /\ inbox = <<>>
  /\ inbox' = Append(inbox, [type |-> "garbage"])
  /\ UNCHANGED <<phase, eof, provider, tasks, stops, call, h, metrics>> /\ Untouched

CloseStdin ==
  /\ phase = "running" /\ conf.transport = "stdio" /\ ~eof
  /\ eof' = TRUE
  /\ UNCHANGED <<phase, inbox, provider, tasks, stops, call, h, metrics>> /\ Untouched

Signal ==
  /\ phase = "running" /\ ~signalled
  /\ signalled' = TRUE
  /\ UNCHANGED <<phase, cancelled, client, provider, tasks, call, h, metrics>> /\ Untouched

(* _stop_on_signal: cancel the stdio task group, or ask uvicorn to leave. *)
StopOnSignal ==
  /\ phase = "running" /\ signalled /\ ~cancelled
  /\ cancelled' = TRUE
  /\ UNCHANGED <<phase, signalled, client, provider, tasks, call, h, metrics>> /\ Untouched

--------------------------------------------------------------------------------
(* The stdio reader: one line at a time, parsed, handed over in a rendezvous. *)

ReadLine ==
  /\ phase = "running" /\ reader = "reading" /\ ~cancelled
  /\ IF inbox # <<>>
     THEN reader' = "holding" /\ line' = Head(inbox) /\ inbox' = Tail(inbox)
     ELSE eof /\ reader' = "ended" /\ UNCHANGED <<line, inbox>>
  /\ UNCHANGED <<phase, eof, writer, provider, stops, call, h, metrics>> /\ Untouched

(* Every way out of a span records it: a result, an exception, a cancellation. *)
Record ==
  /\ calls' = calls + 1
  /\ since' = IF since + 1 >= MetricsInterval THEN 0 ELSE since + 1
  /\ snapshots' = IF since + 1 >= MetricsInterval THEN snapshots + 1 ELSE snapshots

(* A null `arguments` is refused before the toolset, outside any span. *)
Spanned(r) == call[r].kind # "null" /\ h[r] \in {"running", "asking"}

(* Fault: a span left by cancellation is not recorded. *)
RecordOnlyExceptions(r) == UNCHANGED metrics

RecordCancel(r) == IF Spanned(r) THEN Record ELSE UNCHANGED metrics

(* The dispatcher takes the line: it starts the handler, cancels one, or    *)
(* drops an unparsable line.  A cancelled call gives no result; the SDK may *)
(* or may not answer the request with an error of its own.                  *)
Dispatch ==
  /\ phase = "running" /\ reader = "holding" /\ ~cancelled
  /\ reader' = "reading" /\ line' = NoLine
  /\ CASE line.type = "call" ->
            h' = [h EXCEPT ![line.id] = "running"] /\ UNCHANGED metrics
       [] line.type = "cancel" /\ h[line.id] \in {"running", "asking"} ->
            /\ \E s \in {"dropped", "replying"} : h' = [h EXCEPT ![line.id] = s]
            /\ RecordCancel(line.id)
       [] OTHER -> UNCHANGED <<h, metrics>>
  /\ UNCHANGED <<phase, client, writer, provider, stops, call>> /\ Untouched

(* HTTP: uvicorn runs each request on its own; the bearer gate comes first. *)
BearerTokenMiddleware(auth) == conf.token = None \/ auth

HttpRequest(r, k, auth) ==
  /\ phase = "running" /\ conf.transport = "http" /\ ~cancelled
  /\ r = Cardinality(Sent) + 1
  /\ call' = [call EXCEPT ![r] = [kind |-> k, auth |-> auth]]
  /\ h' = [h EXCEPT ![r] = IF BearerTokenMiddleware(auth) THEN "running" ELSE "denied"]
  /\ UNCHANGED <<phase, client, tasks, provider, stops, metrics>> /\ Untouched

--------------------------------------------------------------------------------
(* The kernel: Toolset.execute around one handler. *)

(* call_tool and _execute: the calls that never reach a handler. *)
Refuse(r) ==
  /\ h[r] = "running" /\ call[r].kind \in {"null", "invalid"}
  /\ h' = [h EXCEPT ![r] = "replying"]
  /\ IF call[r].kind = "null" THEN UNCHANGED metrics ELSE Record
  /\ UNCHANGED <<phase, client, tasks, provider, stops, call>> /\ Untouched

(* Runtime.ask resolves the provider on the first question, from the key     *)
(* file as it is now; a configuration error is raised to every call that asks. *)
Ask(r) ==
  /\ h[r] = "running" /\ call[r].kind = "ask"
  /\ LET p == IF provider = None THEN select_provider(conf, stored) ELSE provider
     IN IF p = "config_error"
        THEN /\ h' = [h EXCEPT ![r] = "replying"]
             /\ Record /\ UNCHANGED provider
        ELSE /\ h' = [h EXCEPT ![r] = "asking"]
             /\ provider' = p /\ UNCHANGED metrics
  /\ UNCHANGED <<phase, client, tasks, stops, call>> /\ Untouched

(* The handler returns or raises; an Exception becomes an error outcome, and *)
(* either leaves the span the same way.                                      *)
HandlerEnd(r) ==
  /\ \/ h[r] = "asking"
     \/ h[r] = "running" /\ call[r].kind = "local"
  /\ h' = [h EXCEPT ![r] = "replying"]
  /\ Record
  /\ UNCHANGED <<phase, client, tasks, provider, stops, call>> /\ Untouched

--------------------------------------------------------------------------------
(* Replies. *)

(* The writer takes one reply in a rendezvous and encodes and writes it. *)
WriteFrame(r) ==
  /\ phase = "running" /\ conf.transport = "stdio" /\ ~cancelled
  /\ h[r] = "replying" /\ writer = Idle
  /\ writer' = r
  /\ h' = [h EXCEPT ![r] = "writing"]
  /\ UNCHANGED <<phase, client, reader, line, provider, stops, call, metrics>> /\ Untouched

FlushFrame ==
  /\ phase = "running" /\ ~cancelled /\ writer \in Requests
  /\ h' = [h EXCEPT ![writer] = "done"]
  /\ writer' = Idle
  /\ UNCHANGED <<phase, client, reader, line, provider, stops, call, metrics>> /\ Untouched

HttpReply(r) ==
  /\ phase = "running" /\ conf.transport = "http" /\ h[r] = "replying"
  /\ h' = [h EXCEPT ![r] = "done"]
  /\ UNCHANGED <<phase, client, tasks, provider, stops, call, metrics>> /\ Untouched

--------------------------------------------------------------------------------
(* Ending: the client's end of file, or the cancelled task group. *)

(* A handler is dropped because the scope was cancelled, or because the     *)
(* dispatcher, its input ended, did not wait for it.                        *)
Unwind(r) ==
  /\ phase = "running" /\ conf.transport = "stdio" /\ (cancelled \/ reader = "ended")
  /\ h[r] \in Live
  /\ h' = [h EXCEPT ![r] = "dropped"]
  /\ RecordCancel(r)
  /\ UNCHANGED <<phase, client, tasks, provider, stops, call>> /\ Untouched

(* Fault: readline runs in a thread that shutdown waits for. *)
JoinRead ==
  /\ phase = "running" /\ cancelled /\ reader \in {"reading", "holding"}
  /\ reader = "reading" => (inbox # <<>> \/ eof)
  /\ reader' = "abandoned" /\ line' = NoLine
  /\ UNCHANGED <<phase, client, writer, provider, stops, call, h, metrics>> /\ Untouched

(* The blocked readline is abandoned, a line in hand is dropped. *)
AbandonRead ==
  /\ phase = "running" /\ cancelled /\ reader \in {"reading", "holding"}
  /\ reader' = "abandoned" /\ line' = NoLine
  /\ UNCHANGED <<phase, client, writer, provider, stops, call, h, metrics>> /\ Untouched

(* The writer is cancelled between write and flush at the earliest: closing *)
(* the descriptor flushes a frame that outgrew the text layer's buffer, and *)
(* loses a smaller one whole.                                               *)
CancelWriter ==
  /\ phase = "running" /\ cancelled /\ writer \in Requests
  /\ \E s \in {"done", "dropped"} : h' = [h EXCEPT ![writer] = s]
  /\ writer' = Idle
  /\ UNCHANGED <<phase, client, reader, line, provider, stops, call, metrics>> /\ Untouched

(* Fault: HTTP leaves at the signal, whatever is in flight. *)
ServeEndsAtOnce ==
  /\ phase = "running"
  /\ IF conf.transport = "stdio"
     THEN /\ reader \in {"ended", "abandoned"} /\ writer = Idle
          /\ \A r \in Requests : h[r] \notin Live
     ELSE cancelled
  /\ phase' = "closing"
  /\ UNCHANGED <<client, tasks, provider, stops, call, h, metrics>> /\ Untouched

(* Both transports leave when nothing of theirs runs any more. *)
ServeEnds ==
  /\ phase = "running"
  /\ \A r \in Requests : h[r] \notin Live
  /\ IF conf.transport = "stdio"
     THEN reader \in {"ended", "abandoned"} /\ writer = Idle
     ELSE cancelled
  /\ phase' = "closing"
  /\ UNCHANGED <<client, tasks, provider, stops, call, h, metrics>> /\ Untouched

(* The shielded aclose, then os._exit past the abandoned read. *)
CloseToolset ==
  /\ phase = "closing"
  /\ pool' = "closed" /\ provider' = None
  /\ phase' = "exited"
  /\ UNCHANGED <<gates, keys, client, tasks, stops, call, h, metrics>>

--------------------------------------------------------------------------------
Serve ==
  \/ ReadLine \/ Dispatch \/ FlushFrame
  \/ \E r \in Requests : Refuse(r) \/ Ask(r) \/ WriteFrame(r) \/ HttpReply(r)
  \/ \E r \in Requests : HandlerEnd(r) \/ Unwind(r)

Shutdown == StopOnSignal \/ AbandonRead \/ CancelWriter \/ ServeEnds \/ CloseToolset

Environment ==
  \/ SetupVerify \/ SetupStore
  \/ SendGarbage \/ CloseStdin \/ Signal
  \/ \E r \in Requests, k \in Kinds : SendCall(r, k)
  \/ \E r \in Requests : SendCancel(r)
  \/ \E r \in Requests, k \in Kinds, auth \in BOOLEAN : HttpRequest(r, k, auth)

Stopped == phase \in {"exited", "refused", "crashed", "delegated"}

(* A process that has left takes no step. *)
Terminated == Stopped /\ UNCHANGED vars

Next == Startup \/ Environment \/ Serve \/ Shutdown \/ Terminated

(* The event loop runs every ready task; a handler ends because the provider's *)
(* retry horizon and the regex deadline end it; the client reads its replies.  *)
Fairness ==
  /\ WF_vars(ReadLine) /\ WF_vars(Dispatch) /\ WF_vars(FlushFrame)
  /\ WF_vars(StopOnSignal) /\ WF_vars(AbandonRead) /\ WF_vars(CancelWriter)
  /\ WF_vars(ServeEnds) /\ WF_vars(CloseToolset)
  /\ \A r \in Requests :
       /\ WF_vars(Refuse(r)) /\ WF_vars(Ask(r)) /\ WF_vars(WriteFrame(r)) /\ WF_vars(HttpReply(r))
       /\ WF_vars(HandlerEnd(r))
       /\ WF_vars(cancelled /\ Unwind(r))

Spec == Init /\ [][Next]_vars /\ Fairness

--------------------------------------------------------------------------------
(* Types. *)
TypeOK ==
  /\ conf \in Configs
  /\ phase \in {"main", "secrets", "access", "port", "provider", "warm", "bind", "running",
                "closing", "exited", "refused", "crashed", "delegated"}
  /\ tries \in 0..(BindAttempts - 1) /\ clock \in 0..(BindBudget + 1)
  /\ stored \in {"missing", "oversized", "short", "ok"} /\ seen \in {None, "short", "ok"}
  /\ setup \in {"idle", "verified", "rejected", "stored"}
  /\ provider \in Range(Selectable) \cup {None} /\ pool \in {"cold", "warm", "closed"}
  /\ call \in [Requests -> [kind : Kinds \cup {None}, auth : BOOLEAN]]
  /\ h \in [Requests -> Live \cup {"none", "denied", "writing", "done", "dropped"}]
  /\ writer \in 0..NRequests
  /\ calls \in Nat /\ since \in Nat /\ snapshots \in Nat

Entered == {r \in Requests : call[r].kind # "null" /\ h[r] \notin {"none", "denied"}}
Left == {r \in Entered : h[r] \notin {"running", "asking"}}

(* Every way out of Toolset.execute is counted once, an exception or a       *)
(* cancellation included, and the periodic snapshot loses none of them       *)
(* (telemetry.py: _Scope.__exit__, Telemetry.record).                        *)
SpansCountExits ==
  /\ calls = Cardinality(Left)
  /\ snapshots * MetricsInterval + since = calls

(* A tool runs for an HTTP caller only if it showed the token, or there is   *)
(* none and the SDK guards the host (ensure_http_access_control with         *)
(* BearerTokenMiddleware).                                                   *)
AuthorisedOnly ==
  \A r \in Requests :
    (conf.transport = "http" /\ h[r] \notin {"none", "denied"}) =>
      \/ conf.token = "ok" /\ call[r].auth
      \/ conf.token = None /\ conf.host = "protected"

(* However the process leaves, no worker pool, no handler and no reader      *)
(* outlives it, and no open provider (serve's finally, _serve).              *)
NothingOutlives ==
  Stopped =>
    /\ pool # "warm" /\ provider = None
    /\ \A r \in Requests : h[r] \notin Live \cup {"writing"}
    /\ reader \notin {"reading", "holding"}

(* A server that asks through a provider whose SDK is missing can only have  *)
(* got there by a key stored after the gate read the key file                *)
(* (ensure_provider_runnable, Runtime.ask).                                  *)
RunnableUnlessKeyChanged ==
  (provider = "typesafe" /\ ~conf.sdk) => (seen = None /\ setup = "stored")

(* The gates of startup hold for the whole life of the process: who may     *)
(* call it and which provider it can run.                                    *)
GatesHold == AuthorisedOnly /\ RunnableUnlessKeyChanged

(* After a signal or the end of its input the server exits: a parked         *)
(* readline, a handler or a frame in the writer does not hold it             *)
(* (stdio.py: _AbandonableLines; server.py: _stop_on_signal).                *)
ServerStops == (phase = "running" /\ (signalled \/ eof)) ~> phase = "exited"

(* A request as its client sees it, by the state of its handler, and the door *)
(* of the transport: the refinement mapping to RequestLedger.                 *)
Standing(s) ==
  CASE s \in {"none", "denied"} -> "new"
    [] s \in Live \cup {"writing"} -> "open"
    [] s = "done" -> "replied"
    [] OTHER -> "dropped"
Door(p) ==
  CASE p = "running" -> "open"
    [] p \in {"closing", "exited"} -> "closed"
    [] OTHER -> "unopened"
Standings == [r \in Requests |-> Standing(h[r])]
DoorNow == Door(phase)

Ledger == INSTANCE RequestLedger WITH status <- Standings, door <- DoorNow

(* A request the dispatcher accepted is settled exactly once, by a reply or  *)
(* by being dropped, and before the transport closes; nothing is settled     *)
(* afterwards (stdio.py and server.py against RequestLedger).                *)
ImplementsLedger == Ledger!Spec
================================================================================
