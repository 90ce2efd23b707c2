------------------------------ MODULE Server_proofs ------------------------------
(***************************************************************************)
(* Proofs about Server, for any number of requests, any set of settings    *)
(* and any client: spans are counted once, nothing outlives the process,   *)
(* the gates of startup hold for its whole life, and every request is      *)
(* settled as RequestLedger says.                                          *)
(***************************************************************************)
EXTENDS Server, FiniteSetTheorems, SequenceTheorems, TLAPS

Lines == [type : {"call", "cancel"}, id : Requests] \cup {[type |-> "garbage"]}

(* The types the steps rely on. *)
ShapeInv ==
  /\ conf \in Configs
  /\ call \in [Requests -> [kind : Kinds \cup {None}, auth : BOOLEAN]]
  /\ h \in [Requests -> Live \cup {"none", "denied", "writing", "done", "dropped"}]
  /\ writer \in Requests \cup {Idle}
  /\ inbox \in Seq(Lines)
  /\ line \in Lines \cup {NoLine}
  /\ reader \in {None, "reading", "holding", "ended", "abandoned"}

(* What runs while the transport is open runs only then, and a reply in    *)
(* the writer's hands is the one it is writing.                            *)
LifeInv ==
  /\ \A r \in Requests : h[r] \in Live => phase = "running"
  /\ \A r \in Requests : h[r] = "writing" <=> writer = r
  /\ writer # Idle => phase = "running" /\ conf.transport = "stdio"
  /\ reader # None => conf.transport = "stdio"
  /\ reader \in {"reading", "holding"} => phase = "running"
  /\ provider # None => phase \in {"running", "closing"}
  /\ pool = "warm" => phase \in {"bind", "running", "closing"}
  /\ phase \notin {"running", "closing", "exited"} => \A r \in Requests : h[r] = "none"

(* A client's calls are numbered in order, and each is on its way to the   *)
(* dispatcher at most once.                                                *)
LineInv ==
  /\ \E n \in 0..NRequests : Sent = 1..n
  /\ \A r \in Requests : h[r] # "none" => call[r] # NoCall
  /\ \A r \in Requests : h[r] = "asking" => call[r].kind = "ask"
  /\ line.type = "call" => h[line.id] = "none" /\ call[line.id] # NoCall
  /\ \A i \in 1..Len(inbox) : inbox[i].type = "call" =>
       /\ h[inbox[i].id] = "none" /\ call[inbox[i].id] # NoCall
       /\ (line.type = "call" => line.id # inbox[i].id)
       /\ \A j \in 1..Len(inbox) : inbox[j].type = "call" /\ inbox[j].id = inbox[i].id => i = j

(* What the gates established, and how the key file may differ from what   *)
(* ensure_provider_runnable read.                                          *)
GateInv ==
  /\ phase \in {"port", "provider", "warm", "bind", "running", "closing", "exited"} =>
       \/ conf.transport # "http" \/ conf.token = "ok"
       \/ conf.token = None /\ conf.host = "protected"
  /\ phase \in {"access", "port", "provider", "warm", "bind", "running", "closing", "exited"} =>
       stored_key(stored) # "short"
  /\ phase \in {"warm", "bind", "running", "closing", "exited"} =>
       /\ seen \in {None, "ok"}
       /\ stored_key(stored) = seen \/ (setup = "stored" /\ stored = "ok")
       /\ \A file : stored_key(file) = seen =>
            ~(select_provider(conf, file) = "typesafe" /\ ~conf.sdk)

(* The counters. *)
CountInv ==
  /\ calls \in Nat /\ since \in 0..(MetricsInterval - 1) /\ snapshots \in Nat
  /\ SpansCountExits

IInv == ShapeInv /\ LifeInv /\ LineInv /\ GateInv /\ CountInv /\ GatesHold

--------------------------------------------------------------------------------
(* What a step leaves alone. *)

(* Neither a gate nor the key file is touched: what they established stays. *)
LEMMA GatesKept ==
  ASSUME GateInv, UNCHANGED <<conf, phase, stored, setup, seen>>
  PROVE  GateInv'
BY DEF GateInv

(* No line moves and no request changes. *)
LEMMA LinesKept ==
  ASSUME LineInv, UNCHANGED <<call, h, inbox, line>>
  PROVE  LineInv'
BY DEF LineInv, Sent

(* The spans that have ended are the same, and so are the counters. *)
LEMMA CountKept ==
  ASSUME CountInv, Left' = Left, UNCHANGED metrics
  PROVE  CountInv'
BY DEF CountInv, SpansCountExits, metrics

(* One more span has ended, and it is recorded: the snapshot that falls    *)
(* due takes exactly what was counted since the last one.                  *)
LEMMA CountOneMore ==
  ASSUME CountInv, NEW r \in Requests, r \notin Left, Left' = Left \cup {r}, Record
  PROVE  CountInv'
<1>1. NRequests \in Nat /\ MetricsInterval \in Nat \ {0}
  BY ServerAssumption
<1>2. IsFiniteSet(Left)
  <2>1. IsFiniteSet(Requests)
    BY <1>1, FS_Interval DEF Requests
  <2>2. Left \in SUBSET Requests
    BY DEF Left, Entered
  <2> QED
    BY <2>1, <2>2, FS_Subset
<1>3. calls \in Nat /\ since \in 0..(MetricsInterval - 1) /\ snapshots \in Nat
      /\ calls = Cardinality(Left) /\ snapshots * MetricsInterval + since = calls
  BY DEF CountInv, SpansCountExits
<1>4. Cardinality(Left') = Cardinality(Left) + 1
  BY <1>2, FS_AddElement
<1>5. calls' = calls + 1
      /\ since' = (IF since + 1 >= MetricsInterval THEN 0 ELSE since + 1)
      /\ snapshots' = (IF since + 1 >= MetricsInterval THEN snapshots + 1 ELSE snapshots)
  BY DEF Record
<1>6. calls' \in Nat /\ since' \in 0..(MetricsInterval - 1) /\ snapshots' \in Nat
  BY <1>1, <1>3, <1>5
<1>7. snapshots' * MetricsInterval + since' = calls'
  <2>1. CASE since + 1 >= MetricsInterval
    <3>1. since + 1 = MetricsInterval /\ snapshots' = snapshots + 1 /\ since' = 0
      BY <1>1, <1>3, <1>5, <2>1
    <3>2. (snapshots + 1) * MetricsInterval = snapshots * MetricsInterval + MetricsInterval
      BY <1>1, <1>3
    <3>3. snapshots * MetricsInterval \in Nat
      BY <1>1, <1>3
    <3> QED
      BY <1>1, <1>3, <1>5, <3>1, <3>2, <3>3
  <2>2. CASE ~(since + 1 >= MetricsInterval)
    <3>1. snapshots * MetricsInterval \in Nat
      BY <1>1, <1>3
    <3> QED
      BY <1>1, <1>3, <1>5, <2>2, <3>1
  <2> QED
    BY <2>1, <2>2
<1> QED
  BY <1>3, <1>4, <1>5, <1>6, <1>7 DEF CountInv, SpansCountExits

(* A step that changes neither the settings nor what a request is or came  *)
(* to.                                                                     *)
LEMMA QuietStep ==
  ASSUME IInv, UNCHANGED <<conf, call, h, writer, inbox, line>>, UNCHANGED metrics,
         reader' \in {None, "reading", "holding", "ended", "abandoned"}
  PROVE  ShapeInv' /\ LineInv' /\ CountInv' /\ AuthorisedOnly'
<1>1. ShapeInv'
  BY DEF IInv, ShapeInv
<1>2. LineInv'
  BY LinesKept DEF IInv
<1>3. Left' = Left
  BY DEF Left, Entered
<1>4. CountInv'
  BY <1>3, CountKept DEF IInv
<1>5. AuthorisedOnly'
  BY DEF IInv, GatesHold, AuthorisedOnly
<1> QED
  BY <1>1, <1>2, <1>4, <1>5

--------------------------------------------------------------------------------
(* The key file and the provider it selects. *)

(* Selection depends on the key file only through the key it holds. *)
LEMMA SelectByKey ==
  ASSUME NEW c, NEW file, NEW other, stored_key(file) = stored_key(other)
  PROVE  select_provider(c, file) = select_provider(c, other)
<1>1. typesafe_key(c, file) = typesafe_key(c, other)
  BY DEF typesafe_key
<1>2. Credentials(c, file) = Credentials(c, other)
  BY <1>1 DEF Credentials
<1> QED
  BY <1>2 DEF select_provider

(* Nothing was sent, opened or counted before main. *)
LEMMA InitIInv == Init => IInv
<1> SUFFICES ASSUME Init PROVE IInv
  OBVIOUS
<1>1. ShapeInv
  <2>1. inbox \in Seq(Lines)
    BY EmptySeq DEF Init
  <2> QED
    BY <2>1 DEF Init, ShapeInv, NoCall, NoLine, Live, Idle, None
<1>2. LifeInv
  BY DEF Init, LifeInv, Live, Idle, None, Requests
<1>3. LineInv
  <2>1. Sent = 1..0 /\ 0 \in 0..NRequests
    BY ServerAssumption DEF Init, Sent
  <2>2. Len(inbox) = 0
    BY EmptySeq DEF Init
  <2> QED
    BY <2>1, <2>2 DEF Init, LineInv, NoLine, None
<1>4. GateInv
  BY DEF Init, GateInv
<1>5. CountInv
  <2>1. Left = {}
    BY DEF Init, Left, Entered
  <2>2. Cardinality(Left) = 0
    BY <2>1, FS_EmptySet
  <2>3. 0 * MetricsInterval + 0 = 0 /\ 0 \in 0..(MetricsInterval - 1)
    BY ServerAssumption
  <2> QED
    BY <2>2, <2>3 DEF Init, CountInv, SpansCountExits
<1>6. GatesHold
  BY DEF Init, GatesHold, AuthorisedOnly, RunnableUnlessKeyChanged, None
<1> QED
  BY <1>1, <1>2, <1>3, <1>4, <1>5, <1>6 DEF IInv

(* A step that leaves the requests alone keeps the invariant when it keeps *)
(* the phases in order and what the gates established.                     *)
LEMMA QuietIInv ==
  ASSUME IInv, UNCHANGED <<conf, call, h, writer, inbox, line>>, UNCHANGED metrics,
         reader' \in {None, "reading", "holding", "ended", "abandoned"},
         LifeInv', GateInv', RunnableUnlessKeyChanged'
  PROVE  IInv'
BY QuietStep DEF IInv, GatesHold

(* Startup: each gate before the next, and nothing served before the last. *)
LEMMA StartupIInv ==
  ASSUME IInv, Startup
  PROVE  IInv'
<1>1. LifeInv /\ GateInv /\ ShapeInv /\ RunnableUnlessKeyChanged
  BY DEF IInv, GatesHold
<1>2. CASE Main
  <2>1. /\ phase = "main" /\ phase' \in {"refused", "delegated", "secrets"}
        /\ Serving /\ UNCHANGED <<gates, pool>>
    BY <1>2 DEF Main, Exit
  <2> USE <2>1 DEF Serving, gates, keys, client, tasks, stops
  <2>2. LifeInv'
    BY <1>1 DEF LifeInv
  <2>3. GateInv'
    BY <1>1 DEF GateInv
  <2>4. RunnableUnlessKeyChanged'
    BY <1>1 DEF RunnableUnlessKeyChanged
  <2> QED
    BY <1>1, <2>2, <2>3, <2>4, QuietIInv DEF ShapeInv
<1>3. CASE ensure_secrets_redactable
  <2>1. /\ phase = "secrets" /\ phase' \in {"refused", "access", "delegated"}
        /\ phase' = "access" => stored_key(stored) # "short"
        /\ Serving /\ UNCHANGED <<gates, pool>>
    BY <1>3 DEF ensure_secrets_redactable, Redactable
  <2> USE <2>1 DEF Serving, gates, keys, client, tasks, stops
  <2>2. LifeInv'
    BY <1>1 DEF LifeInv
  <2>3. GateInv'
    BY <1>1 DEF GateInv
  <2>4. RunnableUnlessKeyChanged'
    BY <1>1 DEF RunnableUnlessKeyChanged
  <2> QED
    BY <1>1, <2>2, <2>3, <2>4, QuietIInv DEF ShapeInv
<1>4. CASE ensure_http_access_control
  <2>1. /\ phase = "access" /\ phase' \in {"refused", "port"}
        /\ phase' = "port" => ~(/\ conf.transport = "http"
                                /\ \/ conf.token = "short"
                                   \/ conf.token = None /\ conf.host # "protected")
        /\ Serving /\ UNCHANGED <<gates, pool>>
    BY <1>4 DEF ensure_http_access_control
  <2>2. conf.token \in {None, "short", "ok"}
    BY <1>1, ServerAssumption DEF ShapeInv, None
  <2> USE <2>1 DEF Serving, gates, keys, client, tasks, stops
  <2>3. LifeInv'
    BY <1>1 DEF LifeInv
  <2>4. GateInv'
    BY <1>1, <2>2 DEF GateInv
  <2>5. RunnableUnlessKeyChanged'
    BY <1>1 DEF RunnableUnlessKeyChanged
  <2> QED
    BY <1>1, <2>3, <2>4, <2>5, QuietIInv DEF ShapeInv
<1>5. CASE ensure_http_port_free
  <2>1. /\ phase = "port" /\ phase' \in {"refused", "port", "provider", "crashed"}
        /\ Serving /\ UNCHANGED <<conf, pool>>
    BY <1>5 DEF ensure_http_port_free
  <2> USE <2>1 DEF Serving, keys, client, tasks, stops
  <2>2. LifeInv'
    BY <1>1 DEF LifeInv
  <2>3. GateInv'
    BY <1>1 DEF GateInv
  <2>4. RunnableUnlessKeyChanged'
    BY <1>1 DEF RunnableUnlessKeyChanged
  <2> QED
    BY <1>1, <2>2, <2>3, <2>4, QuietIInv DEF ShapeInv
<1>6. CASE ensure_provider_runnable
  <2>1. /\ phase = "provider" /\ phase' \in {"refused", "warm"}
        /\ seen' = stored_key(stored)
        /\ phase' = "warm" => ~(select_provider(conf, stored) = "typesafe" /\ ~conf.sdk)
        /\ UNCHANGED <<gates, stored, setup, provider, pool, client, tasks, stops, call, h, metrics>>
    BY <1>6 DEF ensure_provider_runnable
  <2> USE <2>1 DEF gates, client, tasks, stops
  <2>2. LifeInv'
    BY <1>1 DEF LifeInv
  <2>3. GateInv'
    <3>1. phase' = "warm" => \A file : stored_key(file) = seen' =>
            ~(select_provider(conf, file) = "typesafe" /\ ~conf.sdk)
      BY SelectByKey
    <3>2. stored_key(stored) \in {None, "ok"}
      BY <1>1 DEF GateInv, stored_key
    <3> QED
      BY <1>1, <3>1, <3>2 DEF GateInv
  <2>4. RunnableUnlessKeyChanged'
    BY <1>1 DEF RunnableUnlessKeyChanged, LifeInv, None
  <2> QED
    BY <1>1, <2>2, <2>3, <2>4, QuietIInv DEF ShapeInv
<1>7. CASE Warm
  <2>1. /\ phase = "warm" /\ phase' = "bind" /\ pool' \in {"warm", "cold"}
        /\ Serving /\ UNCHANGED gates
    BY <1>7 DEF Warm
  <2> USE <2>1 DEF Serving, gates, keys, client, tasks, stops
  <2>2. LifeInv'
    BY <1>1 DEF LifeInv
  <2>3. GateInv'
    BY <1>1 DEF GateInv
  <2>4. RunnableUnlessKeyChanged'
    BY <1>1 DEF RunnableUnlessKeyChanged
  <2> QED
    BY <1>1, <2>2, <2>3, <2>4, QuietIInv DEF ShapeInv
<1>8. CASE Bind
  <2>1. /\ phase = "bind" /\ phase' \in {"running", "refused", "crashed"}
        /\ \/ phase' = "running" /\ pool' = pool
           \/ pool' = "closed"
        /\ \/ conf.transport = "stdio" /\ reader' = "reading" /\ phase' = "running"
           \/ reader' = reader
        /\ line' = line /\ writer' = writer
        /\ UNCHANGED <<gates, keys, provider, client, stops, call, h, metrics>>
    BY <1>8 DEF Bind, Exit, tasks
  <2> USE <2>1 DEF gates, keys, client, stops
  <2>2. LifeInv'
    BY <1>1 DEF LifeInv
  <2>3. GateInv'
    BY <1>1 DEF GateInv
  <2>4. RunnableUnlessKeyChanged'
    BY <1>1 DEF RunnableUnlessKeyChanged
  <2> QED
    BY <1>1, <2>2, <2>3, <2>4, QuietIInv DEF ShapeInv
<1> QED
  BY <1>2, <1>3, <1>4, <1>5, <1>6, <1>7, <1>8 DEF Startup

(* Another process stores a key: the gate may have read the file before.   *)
LEMMA SetupIInv ==
  ASSUME IInv, SetupVerify \/ SetupStore
  PROVE  IInv'
<1>1. LifeInv /\ GateInv /\ ShapeInv /\ RunnableUnlessKeyChanged
  BY DEF IInv, GatesHold
<1>2. CASE SetupVerify
  <2>1. /\ setup = "idle" /\ setup' # "idle"
        /\ UNCHANGED <<gates, phase, stored, seen, provider, pool, client, tasks, stops, call, h, metrics>>
    BY <1>2 DEF SetupVerify
  <2> USE <2>1 DEF gates, client, tasks, stops
  <2>2. LifeInv'
    BY <1>1 DEF LifeInv
  <2>3. GateInv'
    BY <1>1 DEF GateInv
  <2>4. RunnableUnlessKeyChanged'
    BY <1>1 DEF RunnableUnlessKeyChanged
  <2> QED
    BY <1>1, <2>2, <2>3, <2>4, QuietIInv DEF ShapeInv
<1>3. CASE SetupStore
  <2>1. /\ setup' = "stored" /\ stored' = "ok"
        /\ UNCHANGED <<gates, phase, seen, provider, pool, client, tasks, stops, call, h, metrics>>
    BY <1>3 DEF SetupStore
  <2> USE <2>1 DEF gates, client, tasks, stops
  <2>2. LifeInv'
    BY <1>1 DEF LifeInv
  <2>3. GateInv'
    BY <1>1 DEF GateInv, stored_key
  <2>4. RunnableUnlessKeyChanged'
    BY <1>1 DEF RunnableUnlessKeyChanged
  <2> QED
    BY <1>1, <2>2, <2>3, <2>4, QuietIInv DEF ShapeInv
<1> QED
  BY <1>2, <1>3

(* The signal, the end of the input and the two steps of leaving.          *)
LEMMA LeavingIInv ==
  ASSUME IInv, CloseStdin \/ Signal \/ StopOnSignal \/ ServeEnds \/ CloseToolset
  PROVE  IInv'
<1>1. LifeInv /\ GateInv /\ ShapeInv /\ RunnableUnlessKeyChanged
  BY DEF IInv, GatesHold
<1>2. CASE CloseStdin \/ Signal \/ StopOnSignal
  <2>1. /\ phase' = phase /\ provider' = provider /\ inbox' = inbox
        /\ UNCHANGED <<tasks, call, h, metrics>> /\ Untouched
    BY <1>2 DEF CloseStdin, Signal, StopOnSignal, client
  <2> USE <2>1 DEF Untouched, gates, keys, tasks
  <2>2. LifeInv'
    BY <1>1 DEF LifeInv
  <2>3. GateInv'
    BY <1>1 DEF GateInv
  <2>4. RunnableUnlessKeyChanged'
    BY <1>1 DEF RunnableUnlessKeyChanged
  <2> QED
    BY <1>1, <2>2, <2>3, <2>4, QuietIInv DEF ShapeInv
<1>3. CASE ServeEnds
  <2>1. /\ phase = "running" /\ phase' = "closing" /\ \A r \in Requests : h[r] \notin Live
        /\ conf.transport = "stdio" => reader \in {"ended", "abandoned"} /\ writer = Idle
        /\ UNCHANGED <<client, tasks, provider, stops, call, h, metrics>> /\ Untouched
    BY <1>3 DEF ServeEnds
  <2> USE <2>1 DEF Untouched, gates, keys, client, tasks, stops
  <2>2. LifeInv'
    BY <1>1 DEF LifeInv, None
  <2>3. GateInv'
    BY <1>1 DEF GateInv
  <2>4. RunnableUnlessKeyChanged'
    BY <1>1 DEF RunnableUnlessKeyChanged
  <2> QED
    BY <1>1, <2>2, <2>3, <2>4, QuietIInv DEF ShapeInv
<1>4. CASE CloseToolset
  <2>1. /\ phase = "closing" /\ phase' = "exited" /\ pool' = "closed" /\ provider' = None
        /\ UNCHANGED <<gates, keys, client, tasks, stops, call, h, metrics>>
    BY <1>4 DEF CloseToolset
  <2> USE <2>1 DEF gates, keys, client, tasks, stops
  <2>2. LifeInv'
    BY <1>1 DEF LifeInv
  <2>3. GateInv'
    BY <1>1 DEF GateInv
  <2>4. RunnableUnlessKeyChanged'
    BY <1>1 DEF RunnableUnlessKeyChanged, None
  <2> QED
    BY <1>1, <2>2, <2>3, <2>4, QuietIInv DEF ShapeInv
<1> QED
  BY <1>2, <1>3, <1>4

--------------------------------------------------------------------------------
(* The client's lines. *)

(* A client takes the next number, which no request has yet. *)
LEMMA NextCall ==
  ASSUME ShapeInv, LineInv, NEW r \in Requests, r = Cardinality(Sent) + 1,
         NEW c \in [kind : Kinds, auth : BOOLEAN], call' = [call EXCEPT ![r] = c]
  PROVE  /\ call[r] = NoCall /\ h[r] = "none"
         /\ call' \in [Requests -> [kind : Kinds \cup {None}, auth : BOOLEAN]]
         /\ call'[r] = c /\ call'[r] # NoCall
         /\ \A d \in Requests : d # r => call'[d] = call[d]
         /\ \E n \in 0..NRequests : Sent' = 1..n
<1>1. PICK n \in 0..NRequests : Sent = 1..n
  BY DEF LineInv
<1>2. n \in Int /\ NRequests \in Nat
  BY ServerAssumption
<1>3. Cardinality(Sent) = n
  <2>1. Cardinality(1..n) = IF 1 > n THEN 0 ELSE n - 1 + 1
    BY <1>2, FS_Interval
  <2> QED
    BY <1>1, <1>2, <2>1
<1>4. r = n + 1 /\ r \notin Sent
  BY <1>1, <1>2, <1>3
<1>5. call[r] = NoCall
  BY <1>4 DEF Sent
<1>6. h[r] = "none"
  BY <1>5 DEF LineInv
<1>7. /\ call' \in [Requests -> [kind : Kinds \cup {None}, auth : BOOLEAN]]
      /\ call'[r] = c /\ \A d \in Requests : d # r => call'[d] = call[d]
  BY DEF ShapeInv
<1>8. c # NoCall
  BY DEF NoCall, Kinds, None
<1>9. Sent' = Sent \cup {r}
  BY <1>7, <1>8 DEF Sent
<1>10. Sent' = 1..(n + 1) /\ n + 1 \in 0..NRequests
  BY <1>1, <1>2, <1>4, <1>9 DEF Requests
<1> QED
  BY <1>5, <1>6, <1>7, <1>8, <1>10

(* A line is added to the client's end of stdin. *)
LEMMA Sending ==
  ASSUME NEW x \in Lines, inbox \in Seq(Lines), inbox' = Append(inbox, x)
  PROVE  /\ inbox' \in Seq(Lines) /\ Len(inbox) \in Nat /\ Len(inbox') = Len(inbox) + 1
         /\ \A i \in 1..Len(inbox) : inbox'[i] = inbox[i]
         /\ inbox'[Len(inbox) + 1] = x
         /\ \A i \in 1..Len(inbox') : i \in 1..Len(inbox) \/ i = Len(inbox) + 1
         /\ \A i \in 1..Len(inbox) : inbox[i] \in Lines
<1>1. /\ inbox' \in Seq(Lines) /\ Len(inbox') = Len(inbox) + 1
      /\ \A i \in 1..Len(inbox) : inbox'[i] = inbox[i]
      /\ inbox'[Len(inbox) + 1] = x
  BY AppendProperties
<1>2. Len(inbox) \in Nat
  BY LenProperties
<1>3. \A i \in 1..Len(inbox) : inbox[i] \in Lines
  BY ElementOfSeq
<1> QED
  BY <1>1, <1>2, <1>3

(* The client sends its next call: a number no line carries yet. *)
LEMMA SendCallIInv ==
  ASSUME IInv, NEW r \in Requests, NEW k \in Kinds, SendCall(r, k)
  PROVE  IInv'
<1> DEFINE x == [type |-> "call", id |-> r]
           c == [kind |-> k, auth |-> TRUE]
<1>1. ShapeInv /\ LifeInv /\ LineInv /\ GateInv /\ CountInv /\ AuthorisedOnly /\ RunnableUnlessKeyChanged
  BY DEF IInv, GatesHold
<1>2. /\ r = Cardinality(Sent) + 1 /\ call' = [call EXCEPT ![r] = c] /\ inbox' = Append(inbox, x)
      /\ UNCHANGED <<phase, provider, tasks, h, metrics>> /\ Untouched
  BY DEF SendCall
<1> USE DEF Untouched, gates, keys, tasks
<1>3. c \in [kind : Kinds, auth : BOOLEAN] /\ x \in Lines /\ x.type = "call" /\ x.id = r
  BY DEF Lines
<1> HIDE DEF c, x
<1>4. /\ call[r] = NoCall /\ h[r] = "none"
      /\ call' \in [Requests -> [kind : Kinds \cup {None}, auth : BOOLEAN]]
      /\ call'[r] # NoCall /\ \A d \in Requests : d # r => call'[d] = call[d]
      /\ \E n \in 0..NRequests : Sent' = 1..n
  BY <1>1, <1>2, <1>3, NextCall
<1>5. /\ inbox' \in Seq(Lines) /\ Len(inbox) \in Nat /\ Len(inbox') = Len(inbox) + 1
      /\ \A i \in 1..Len(inbox) : inbox'[i] = inbox[i]
      /\ inbox'[Len(inbox) + 1] = x
      /\ \A i \in 1..Len(inbox') : i \in 1..Len(inbox) \/ i = Len(inbox) + 1
      /\ \A i \in 1..Len(inbox) : inbox[i] \in Lines
  BY <1>1, <1>2, <1>3, Sending DEF ShapeInv
<1>6. ShapeInv'
  BY <1>1, <1>2, <1>4, <1>5 DEF ShapeInv
<1>7. LifeInv'
  BY <1>1, <1>2 DEF LifeInv
<1>8. LineInv'
  <2>1. /\ \A d \in Requests : h'[d] # "none" => call'[d] # NoCall
        /\ \A d \in Requests : h'[d] = "asking" => call'[d].kind = "ask"
    BY <1>1, <1>2, <1>4 DEF LineInv
  <2>2. line' = line /\ h' = h /\ \A l \in Lines : l.type = "call" => l.id \in Requests
    BY <1>2 DEF Lines
  <2>3. line.type = "call" => line.id \in Requests
    BY <1>1, <2>2 DEF ShapeInv, NoLine, None
  <2>4. line.type = "call" => h[line.id] = "none" /\ call'[line.id] # NoCall /\ line.id # r
    BY <1>1, <1>4, <2>3 DEF LineInv
  <2>5. \A i \in 1..Len(inbox) : inbox[i].type = "call" =>
          /\ h[inbox[i].id] = "none" /\ call'[inbox[i].id] # NoCall /\ inbox[i].id # r
          /\ (line.type = "call" => line.id # inbox[i].id)
          /\ \A j \in 1..Len(inbox) : inbox[j].type = "call" /\ inbox[j].id = inbox[i].id => i = j
    BY <1>1, <1>4, <1>5, <2>2 DEF LineInv
  <2>6. \A i \in 1..Len(inbox') : inbox'[i].type = "call" =>
          /\ h[inbox'[i].id] = "none" /\ call'[inbox'[i].id] # NoCall
          /\ (line.type = "call" => line.id # inbox'[i].id)
    BY <1>3, <1>4, <1>5, <2>4, <2>5
  <2>7. ASSUME NEW i \in 1..Len(inbox'), NEW j \in 1..Len(inbox'),
               inbox'[i].type = "call", inbox'[j].type = "call", inbox'[j].id = inbox'[i].id
        PROVE  i = j
    <3>1. CASE i \in 1..Len(inbox) /\ j \in 1..Len(inbox)
      BY <1>5, <2>5, <2>7, <3>1
    <3>2. CASE i = Len(inbox) + 1 /\ j = Len(inbox) + 1
      BY <3>2
    <3>3. CASE i \in 1..Len(inbox) /\ j = Len(inbox) + 1
      BY <1>3, <1>5, <2>5, <2>7, <3>3
    <3>4. CASE i = Len(inbox) + 1 /\ j \in 1..Len(inbox)
      BY <1>3, <1>5, <2>5, <2>7, <3>4
    <3> QED
      BY <1>5, <3>1, <3>2, <3>3, <3>4
  <2> QED
    BY <1>4, <2>1, <2>2, <2>4, <2>6, <2>7 DEF LineInv
<1>9. GateInv'
  BY <1>1, <1>2, GatesKept
<1>10. CountInv'
  <2>1. Left' = Left
    BY <1>2, <1>4 DEF Left, Entered
  <2> QED
    BY <1>1, <1>2, <2>1, CountKept
<1>11. GatesHold'
  BY <1>1, <1>2, <1>4 DEF GatesHold, AuthorisedOnly, RunnableUnlessKeyChanged
<1> QED
  BY <1>6, <1>7, <1>8, <1>9, <1>10, <1>11 DEF IInv

(* A cancellation and a line that is no JSON: no request changes. *)
LEMMA SendOtherIInv ==
  ASSUME IInv, SendGarbage \/ \E r \in Requests : SendCancel(r)
  PROVE  IInv'
<1>1. ShapeInv /\ LifeInv /\ LineInv /\ GateInv /\ CountInv /\ GatesHold
  BY DEF IInv
<1>2. PICK x \in Lines : x.type # "call" /\ inbox' = Append(inbox, x)
  BY DEF SendGarbage, SendCancel, Lines
<1>3. UNCHANGED <<phase, provider, tasks, call, h, metrics>> /\ Untouched
  BY DEF SendGarbage, SendCancel
<1> USE DEF Untouched, gates, keys, tasks
<1>4. /\ inbox' \in Seq(Lines) /\ Len(inbox) \in Nat /\ Len(inbox') = Len(inbox) + 1
      /\ \A i \in 1..Len(inbox) : inbox'[i] = inbox[i]
      /\ inbox'[Len(inbox) + 1] = x
      /\ \A i \in 1..Len(inbox') : i \in 1..Len(inbox) \/ i = Len(inbox) + 1
  BY <1>1, <1>2, Sending DEF ShapeInv
<1>5. ShapeInv'
  BY <1>1, <1>3, <1>4 DEF ShapeInv
<1>6. LifeInv'
  BY <1>1, <1>3 DEF LifeInv
<1>7. LineInv'
  <2>1. \A i \in 1..Len(inbox') : inbox'[i].type = "call" => i \in 1..Len(inbox) /\ inbox'[i] = inbox[i]
    BY <1>2, <1>4
  <2>2. \E n \in 0..NRequests : Sent' = 1..n
    BY <1>1, <1>3 DEF LineInv, Sent
  <2> QED
    BY <1>1, <1>3, <2>1, <2>2 DEF LineInv
<1>8. GateInv'
  BY <1>1, <1>3, GatesKept
<1>9. CountInv'
  <2>1. Left' = Left
    BY <1>3 DEF Left, Entered
  <2> QED
    BY <1>1, <1>3, <2>1, CountKept
<1>10. GatesHold'
  BY <1>1, <1>3 DEF GatesHold, AuthorisedOnly, RunnableUnlessKeyChanged
<1> QED
  BY <1>5, <1>6, <1>7, <1>8, <1>9, <1>10 DEF IInv

(* The reader takes the first line, or stops at the end of the input; on   *)
(* shutdown it drops the line it holds.                                    *)
LEMMA ReaderIInv ==
  ASSUME IInv, ReadLine \/ AbandonRead
  PROVE  IInv'
<1>1. ShapeInv /\ LifeInv /\ LineInv /\ GateInv /\ CountInv /\ GatesHold
  BY DEF IInv
<1>2. /\ UNCHANGED <<phase, writer, provider, call, h, metrics>> /\ Untouched
      /\ phase = "running" /\ reader \in {"reading", "holding"}
      /\ reader' \in {"holding", "ended", "abandoned"}
  BY DEF ReadLine, AbandonRead
<1> USE DEF Untouched, gates, keys
<1>3. \/ inbox # <<>> /\ line' = Head(inbox) /\ inbox' = Tail(inbox)
      \/ line' = line /\ inbox' = inbox
      \/ line' = NoLine /\ inbox' = inbox
  BY DEF ReadLine, AbandonRead, client
<1>4. inbox \in Seq(Lines)
  BY <1>1 DEF ShapeInv
<1>a. LifeInv'
  BY <1>1, <1>2 DEF LifeInv, None
<1>b. GateInv'
  BY <1>1, <1>2, GatesKept
<1>c. CountInv'
  <2>1. Left' = Left
    BY <1>2 DEF Left, Entered
  <2> QED
    BY <1>1, <1>2, <2>1, CountKept
<1>d. GatesHold'
  BY <1>1, <1>2 DEF GatesHold, AuthorisedOnly, RunnableUnlessKeyChanged
<1>5. CASE inbox # <<>> /\ line' = Head(inbox) /\ inbox' = Tail(inbox)
  <2>1. /\ Len(inbox) \in Nat \ {0} /\ line' = inbox[1] /\ line' \in Lines
        /\ inbox' \in Seq(Lines) /\ Len(inbox') = Len(inbox) - 1
        /\ \A i \in 1..Len(inbox') : inbox'[i] = inbox[i + 1]
    BY <1>4, <1>5, HeadTailProperties, EmptySeq, LenProperties
  <2>2. 1 \in 1..Len(inbox) /\ \A i \in 1..Len(inbox') : i + 1 \in 1..Len(inbox) /\ i + 1 # 1
    BY <2>1
  <2>3. ShapeInv'
    BY <1>1, <1>2, <2>1 DEF ShapeInv
  <2>4. LineInv'
    <3>1. \E n \in 0..NRequests : Sent' = 1..n
      BY <1>1, <1>2 DEF LineInv, Sent
    <3>2. /\ \A d \in Requests : h'[d] # "none" => call'[d] # NoCall
          /\ \A d \in Requests : h'[d] = "asking" => call'[d].kind = "ask"
      BY <1>1, <1>2 DEF LineInv
    <3>3. line'.type = "call" => h'[line'.id] = "none" /\ call'[line'.id] # NoCall
      BY <1>1, <1>2, <2>1, <2>2 DEF LineInv
    <3>4. ASSUME NEW i \in 1..Len(inbox'), inbox'[i].type = "call"
          PROVE  /\ h'[inbox'[i].id] = "none" /\ call'[inbox'[i].id] # NoCall
                 /\ (line'.type = "call" => line'.id # inbox'[i].id)
      BY <1>1, <1>2, <2>1, <2>2, <3>4 DEF LineInv
    <3>5. ASSUME NEW i \in 1..Len(inbox'), NEW j \in 1..Len(inbox'),
                 inbox'[i].type = "call", inbox'[j].type = "call", inbox'[j].id = inbox'[i].id
          PROVE  i = j
      <4>1. /\ i + 1 \in 1..Len(inbox) /\ j + 1 \in 1..Len(inbox)
            /\ inbox[i + 1].type = "call" /\ inbox[j + 1].type = "call"
            /\ inbox[j + 1].id = inbox[i + 1].id
        BY <2>1, <2>2, <3>5
      <4>2. \A m, n \in 1..Len(inbox) :
              inbox[m].type = "call" /\ inbox[n].type = "call" /\ inbox[n].id = inbox[m].id => m = n
        BY <1>1 DEF LineInv
      <4>3. i + 1 = j + 1
        BY <4>1, <4>2
      <4> QED
        BY <4>3
    <3> QED
      BY <3>1, <3>2, <3>3, <3>4, <3>5 DEF LineInv
  <2> QED
    BY <1>a, <1>b, <1>c, <1>d, <2>3, <2>4 DEF IInv
<1>6. CASE (line' = line \/ line' = NoLine) /\ inbox' = inbox
  <2>1. ShapeInv'
    BY <1>1, <1>2, <1>6 DEF ShapeInv
  <2>2. LineInv'
    <3>1. \E n \in 0..NRequests : Sent' = 1..n
      BY <1>1, <1>2 DEF LineInv, Sent
    <3>2. line'.type = "call" => line' = line
      BY <1>6 DEF NoLine, None
    <3> QED
      BY <1>1, <1>2, <1>6, <3>1, <3>2 DEF LineInv
  <2> QED
    BY <1>a, <1>b, <1>c, <1>d, <2>1, <2>2 DEF IInv
<1> QED
  BY <1>3, <1>5, <1>6

--------------------------------------------------------------------------------
(* The handlers. *)

Inside == {"running", "asking"}
Outside == {"none", "denied"}
HandlerStates == Live \cup {"none", "denied", "writing", "done", "dropped"}

(* The counters move with request r: a span that ends is recorded, and     *)
(* nothing else is.                                                        *)
Counted(r, s) ==
  \/ Record /\ call[r].kind # "null" /\ h[r] \in Inside /\ s \notin Inside
  \/ /\ UNCHANGED metrics
     /\ \/ call[r].kind = "null"
        \/ h[r] \in Inside \cup Outside /\ s \in Inside
        \/ h[r] \notin Inside \cup Outside /\ s \notin Inside

(* The writer's hands: untouched, taking the reply of r, or done with it.  *)
Handed(r, s) ==
  \/ writer' = writer /\ h[r] # "writing" /\ s # "writing"
  \/ writer = Idle /\ writer' = r /\ s = "writing" /\ conf.transport = "stdio"
  \/ writer = r /\ writer' = Idle /\ s # "writing"

(* One handler moves while the transport is open. *)
LEMMA MoveIInv ==
  ASSUME IInv, NEW r \in Requests, NEW s \in HandlerStates \ Outside,
         h' = [h EXCEPT ![r] = s], phase = "running",
         UNCHANGED <<conf, phase, stored, setup, seen, pool, call, inbox>>,
         \/ h[r] \notin Outside /\ line' \in {line, NoLine}
         \/ h[r] = "none" /\ reader # None /\ line.type = "call" /\ line.id = r /\ line' = NoLine,
         \/ reader' = reader
         \/ reader = "holding" /\ reader' = "reading",
         s = "asking" => call[r].kind = "ask",
         Counted(r, s), Handed(r, s), RunnableUnlessKeyChanged'
  PROVE  IInv'
<1>1. ShapeInv /\ LifeInv /\ LineInv /\ GateInv /\ CountInv /\ AuthorisedOnly
  BY DEF IInv, GatesHold
<1>2. /\ h \in [Requests -> HandlerStates] /\ h' \in [Requests -> HandlerStates]
      /\ h'[r] = s /\ \A d \in Requests : d # r => h'[d] = h[d]
  BY <1>1 DEF ShapeInv, HandlerStates
<1>3. Requests \cap {Idle} = {}
  BY ServerAssumption DEF Requests, Idle
<1>4. ShapeInv'
  BY <1>1, <1>2 DEF ShapeInv, HandlerStates, Handed, None
<1>5. LifeInv'
  <2>1. \A d \in Requests : h'[d] = "writing" <=> writer' = d
    BY <1>1, <1>2, <1>3 DEF LifeInv, Handed
  <2>2. writer' # Idle => conf.transport = "stdio"
    BY <1>1, <1>3 DEF LifeInv, Handed
  <2>3. reader' # None => conf.transport = "stdio"
    BY <1>1 DEF LifeInv, None
  <2> QED
    BY <1>1, <2>1, <2>2, <2>3 DEF LifeInv
<1>6. LineInv'
  <2>1. \E n \in 0..NRequests : Sent' = 1..n
    BY <1>1 DEF LineInv, Sent
  <2>2. /\ \A d \in Requests : h'[d] # "none" => call'[d] # NoCall
        /\ \A d \in Requests : h'[d] = "asking" => call'[d].kind = "ask"
    BY <1>1, <1>2 DEF LineInv, Outside
  <2>3. \A l \in Lines : l.type = "call" => l.id \in Requests
    BY DEF Lines
  <2>4. line'.type = "call" => line' = line /\ line.id \in Requests /\ h[r] \notin Outside
    BY <1>1, <2>3 DEF ShapeInv, NoLine, None
  <2>5. line'.type = "call" => h'[line'.id] = "none" /\ call'[line'.id] # NoCall
    <3>1. line'.type = "call" => h[line.id] = "none" /\ line.id # r
      BY <1>1, <2>4 DEF LineInv, Outside
    <3> QED
      BY <1>1, <1>2, <2>4, <3>1 DEF LineInv
  <2>6. \A i \in 1..Len(inbox) : inbox[i] \in Lines
    BY <1>1, ElementOfSeq DEF ShapeInv
  <2>7. \A i \in 1..Len(inbox) : inbox[i].type = "call" =>
          inbox[i].id \in Requests /\ inbox[i].id # r /\ h'[inbox[i].id] = "none"
    BY <1>1, <1>2, <2>3, <2>6 DEF LineInv, Outside
  <2> QED
    BY <1>1, <2>1, <2>2, <2>4, <2>5, <2>7 DEF LineInv
<1>7. GateInv'
  BY <1>1, GatesKept
<1>8. CountInv'
  <2>1. CASE Record /\ call[r].kind # "null" /\ h[r] \in Inside /\ s \notin Inside
    <3>1. r \notin Left /\ Left' = Left \cup {r}
      BY <1>2, <2>1 DEF Left, Entered, Inside, Outside
    <3> QED
      BY <1>1, <2>1, <3>1, CountOneMore
  <2>2. CASE /\ UNCHANGED metrics
             /\ \/ call[r].kind = "null"
                \/ h[r] \in Inside \cup Outside /\ s \in Inside
                \/ h[r] \notin Inside \cup Outside /\ s \notin Inside
    <3>1. Left' = Left
      BY <1>2, <2>2 DEF Left, Entered, Inside, Outside
    <3> QED
      BY <1>1, <2>2, <3>1, CountKept
  <2> QED
    BY <2>1, <2>2 DEF Counted
<1>9. AuthorisedOnly'
  <2>1. conf.transport = "http" => h[r] \notin Outside
    BY <1>1 DEF LifeInv
  <2> QED
    BY <1>1, <1>2, <2>1 DEF AuthorisedOnly, Outside
<1> QED
  BY <1>4, <1>5, <1>6, <1>7, <1>8, <1>9 DEF IInv, GatesHold

(* A step that leaves the provider, the settings and the key file alone.   *)
LEMMA ProviderKept ==
  ASSUME IInv, UNCHANGED <<conf, provider, seen, setup>>
  PROVE  RunnableUnlessKeyChanged'
BY DEF IInv, GatesHold, RunnableUnlessKeyChanged

(* The dispatcher starts a handler, cancels one, or drops the line. *)
LEMMA DispatchIInv ==
  ASSUME IInv, Dispatch
  PROVE  IInv'
<1>1. ShapeInv /\ LifeInv /\ LineInv /\ GateInv /\ CountInv /\ GatesHold
  BY DEF IInv
<1>2. /\ phase = "running" /\ reader = "holding" /\ reader' = "reading" /\ line' = NoLine
      /\ UNCHANGED <<phase, client, writer, provider, stops, call>> /\ Untouched
  BY DEF Dispatch
<1> USE DEF Untouched, gates, keys, client
<1>3. RunnableUnlessKeyChanged'
  BY <1>2, ProviderKept
<1>4. \A l \in Lines : l.type \in {"call", "cancel"} => l.id \in Requests
  BY DEF Lines
<1>5. line.type \in {"call", "cancel"} => line.id \in Requests
  BY <1>1, <1>4 DEF ShapeInv, NoLine, None
<1>6. CASE line.type = "call"
  <2> DEFINE r == line.id
  <2>1. r \in Requests /\ h[r] = "none" /\ h' = [h EXCEPT ![r] = "running"] /\ UNCHANGED metrics
    BY <1>1, <1>5, <1>6 DEF Dispatch, LineInv
  <2>2. "running" \in HandlerStates \ Outside /\ Counted(r, "running") /\ Handed(r, "running")
    BY <1>2, <2>1 DEF HandlerStates, Live, Outside, Inside, Counted, Handed
  <2>3. reader # None
    BY <1>2 DEF None
  <2> QED
    BY <1>2, <1>3, <1>6, <2>1, <2>2, <2>3, MoveIInv
<1>7. CASE line.type = "cancel" /\ h[line.id] \in {"running", "asking"}
  <2> DEFINE r == line.id
  <2>1. r \in Requests /\ RecordCancel(r)
    BY <1>5, <1>7 DEF Dispatch
  <2>2. PICK s \in {"dropped", "replying"} : h' = [h EXCEPT ![r] = s]
    BY <1>7 DEF Dispatch
  <2>3. s \in HandlerStates \ Outside /\ h[r] \notin Outside
    BY <1>7 DEF HandlerStates, Live, Outside
  <2>4. Counted(r, s)
    BY <1>7, <2>1 DEF Counted, RecordCancel, Spanned, Inside
  <2>5. Handed(r, s)
    BY <1>2, <1>7 DEF Handed
  <2> QED
    BY <1>2, <1>3, <2>1, <2>2, <2>3, <2>4, <2>5, MoveIInv
<1>8. CASE /\ line.type # "call"
           /\ ~(line.type = "cancel" /\ h[line.id] \in {"running", "asking"})
  <2>1. UNCHANGED <<h, metrics>>
    BY <1>8 DEF Dispatch
  <2>2. ShapeInv'
    BY <1>1, <1>2, <2>1 DEF ShapeInv
  <2>3. LifeInv'
    BY <1>1, <1>2, <2>1 DEF LifeInv, None
  <2>4. LineInv'
    <3>1. \E n \in 0..NRequests : Sent' = 1..n
      BY <1>1, <1>2 DEF LineInv, Sent
    <3>2. line'.type # "call"
      BY <1>2 DEF NoLine, None
    <3> QED
      BY <1>1, <1>2, <2>1, <3>1, <3>2 DEF LineInv
  <2>5. GateInv'
    BY <1>1, <1>2, GatesKept
  <2>6. Left' = Left
    BY <1>2, <2>1 DEF Left, Entered
  <2>7. CountInv'
    BY <1>1, <2>1, <2>6, CountKept
  <2>8. AuthorisedOnly'
    BY <1>1, <1>2, <2>1 DEF GatesHold, AuthorisedOnly
  <2> QED
    BY <1>3, <2>2, <2>3, <2>4, <2>5, <2>7, <2>8 DEF IInv, GatesHold
<1> QED
  BY <1>6, <1>7, <1>8

(* An HTTP request meets the bearer gate first. *)
LEMMA HttpRequestIInv ==
  ASSUME IInv, NEW r \in Requests, NEW k \in Kinds, NEW auth \in BOOLEAN, HttpRequest(r, k, auth)
  PROVE  IInv'
<1> DEFINE c == [kind |-> k, auth |-> auth]
           s == IF BearerTokenMiddleware(auth) THEN "running" ELSE "denied"
<1>1. ShapeInv /\ LifeInv /\ LineInv /\ GateInv /\ CountInv /\ AuthorisedOnly
  BY DEF IInv, GatesHold
<1>2. /\ phase = "running" /\ conf.transport = "http" /\ r = Cardinality(Sent) + 1
      /\ call' = [call EXCEPT ![r] = c] /\ h' = [h EXCEPT ![r] = s]
      /\ UNCHANGED <<phase, client, tasks, provider, stops, metrics>> /\ Untouched
  BY DEF HttpRequest
<1> USE DEF Untouched, gates, keys, client, tasks
<1>3. c \in [kind : Kinds, auth : BOOLEAN] /\ c.auth = auth
  OBVIOUS
<1>4. s \in {"running", "denied"} /\ (s = "running" => conf.token = None \/ auth)
  BY DEF BearerTokenMiddleware
<1> HIDE DEF c, s
<1>5. /\ call[r] = NoCall /\ h[r] = "none"
      /\ call' \in [Requests -> [kind : Kinds \cup {None}, auth : BOOLEAN]]
      /\ call'[r] = c /\ call'[r] # NoCall /\ \A d \in Requests : d # r => call'[d] = call[d]
      /\ \E n \in 0..NRequests : Sent' = 1..n
  BY <1>1, <1>2, <1>3, NextCall
<1>6. /\ h' \in [Requests -> HandlerStates] /\ h'[r] = s
      /\ \A d \in Requests : d # r => h'[d] = h[d]
  BY <1>1, <1>2, <1>4 DEF ShapeInv, HandlerStates, Live
<1>7. ShapeInv'
  BY <1>1, <1>2, <1>5, <1>6 DEF ShapeInv, HandlerStates
<1>8. LifeInv'
  <2>1. \A d \in Requests : h'[d] = "writing" <=> writer' = d
    BY <1>1, <1>2, <1>4, <1>5, <1>6 DEF LifeInv
  <2> QED
    BY <1>1, <1>2, <2>1 DEF LifeInv
<1>9. LineInv'
  <2>1. \A l \in Lines : l.type = "call" => l.id \in Requests
    BY DEF Lines
  <2>2. line.type = "call" => line.id \in Requests
    BY <1>1, <2>1 DEF ShapeInv, NoLine, None
  <2>3. line.type = "call" => line.id # r /\ h'[line.id] = "none" /\ call'[line.id] # NoCall
    BY <1>1, <1>5, <1>6, <2>2 DEF LineInv
  <2>4. \A i \in 1..Len(inbox) : inbox[i] \in Lines
    BY <1>1, ElementOfSeq DEF ShapeInv
  <2>5. \A i \in 1..Len(inbox) : inbox[i].type = "call" =>
          inbox[i].id # r /\ h'[inbox[i].id] = "none" /\ call'[inbox[i].id] # NoCall
    BY <1>1, <1>5, <1>6, <2>1, <2>4 DEF LineInv
  <2>6. /\ \A d \in Requests : h'[d] # "none" => call'[d] # NoCall
        /\ \A d \in Requests : h'[d] = "asking" => call'[d].kind = "ask"
    BY <1>1, <1>4, <1>5, <1>6 DEF LineInv
  <2> QED
    BY <1>1, <1>2, <1>5, <2>3, <2>5, <2>6 DEF LineInv
<1>10. GateInv'
  BY <1>1, <1>2, GatesKept
<1>11. CountInv'
  <2>1. Left' = Left
    BY <1>4, <1>5, <1>6 DEF Left, Entered
  <2> QED
    BY <1>1, <1>2, <2>1, CountKept
<1>12. AuthorisedOnly'
  <2>1. h'[r] \notin {"none", "denied"} => \/ conf.token = "ok" /\ call'[r].auth
                                           \/ conf.token = None /\ conf.host = "protected"
    <3>1. conf.token = "ok" \/ (conf.token = None /\ conf.host = "protected")
      BY <1>1, <1>2 DEF GateInv
    <3> QED
      BY <1>3, <1>4, <1>5, <1>6, <3>1 DEF None
  <2> QED
    BY <1>1, <1>2, <1>5, <1>6, <2>1 DEF AuthorisedOnly
<1>13. RunnableUnlessKeyChanged'
  BY <1>2, ProviderKept
<1> QED
  BY <1>7, <1>8, <1>9, <1>10, <1>11, <1>12, <1>13 DEF IInv, GatesHold

(* A call refused before any handler: only one past the null check has a   *)
(* span.                                                                   *)
LEMMA RefuseIInv ==
  ASSUME IInv, NEW r \in Requests, Refuse(r)
  PROVE  IInv'
<1>1. /\ h[r] = "running" /\ h' = [h EXCEPT ![r] = "replying"]
      /\ UNCHANGED <<phase, client, tasks, provider, stops, call>> /\ Untouched
      /\ IF call[r].kind = "null" THEN UNCHANGED metrics ELSE Record
  BY DEF Refuse
<1> USE DEF Untouched, gates, keys, client, tasks
<1>2. phase = "running"
  BY <1>1 DEF IInv, LifeInv, Live
<1>3. "replying" \in HandlerStates \ Outside /\ h[r] \notin Outside
  BY <1>1 DEF HandlerStates, Live, Outside
<1>4. Counted(r, "replying") /\ Handed(r, "replying")
  BY <1>1 DEF Counted, Handed, Inside, Outside
<1>5. RunnableUnlessKeyChanged'
  BY <1>1, ProviderKept
<1> QED
  BY <1>1, <1>2, <1>3, <1>4, <1>5, MoveIInv

(* The first question resolves the provider, from the key file as it is    *)
(* then: what it selects differs from what the gate saw only by a key      *)
(* stored since.                                                           *)
LEMMA AskIInv ==
  ASSUME IInv, NEW r \in Requests, Ask(r)
  PROVE  IInv'
<1> DEFINE p == IF provider = None THEN select_provider(conf, stored) ELSE provider
<1>1. /\ h[r] = "running" /\ call[r].kind = "ask"
      /\ UNCHANGED <<phase, client, tasks, stops, call>> /\ Untouched
      /\ \/ h' = [h EXCEPT ![r] = "replying"] /\ Record /\ provider' = provider
         \/ h' = [h EXCEPT ![r] = "asking"] /\ provider' = p /\ UNCHANGED metrics
  BY DEF Ask
<1> USE DEF Untouched, gates, keys, client, tasks
<1>2. phase = "running"
  BY <1>1 DEF IInv, LifeInv, Live
<1>3. h[r] \notin Outside /\ {"replying", "asking"} \subseteq HandlerStates \ Outside
  BY <1>1 DEF HandlerStates, Live, Outside
<1>4. RunnableUnlessKeyChanged'
  <2>1. CASE provider' = provider
    BY <1>1, <2>1, ProviderKept
  <2>2. CASE provider' = p /\ provider = None
    <3>1. provider' = select_provider(conf, stored)
      BY <2>2
    <3>2. /\ seen \in {None, "ok"}
          /\ stored_key(stored) = seen \/ (setup = "stored" /\ stored = "ok")
          /\ stored_key(stored) = seen =>
               ~(select_provider(conf, stored) = "typesafe" /\ ~conf.sdk)
      BY <1>2 DEF IInv, GateInv
    <3>3. stored = "ok" => stored_key(stored) = "ok"
      BY DEF stored_key
    <3> HIDE DEF p
    <3> QED
      BY <1>1, <3>1, <3>2, <3>3 DEF RunnableUnlessKeyChanged
  <2> QED
    BY <1>1, <2>1, <2>2
<1>5. CASE h' = [h EXCEPT ![r] = "replying"] /\ Record
  <2>1. Counted(r, "replying") /\ Handed(r, "replying")
    BY <1>1, <1>5 DEF Counted, Handed, Inside
  <2> QED
    BY <1>1, <1>2, <1>3, <1>4, <1>5, <2>1, MoveIInv
<1>6. CASE h' = [h EXCEPT ![r] = "asking"] /\ UNCHANGED metrics
  <2>1. Counted(r, "asking") /\ Handed(r, "asking")
    BY <1>1, <1>6 DEF Counted, Handed, Inside
  <2> QED
    BY <1>1, <1>2, <1>3, <1>4, <1>6, <2>1, MoveIInv
<1> QED
  BY <1>1, <1>5, <1>6

(* A handler returns or raises. *)
LEMMA HandlerEndIInv ==
  ASSUME IInv, NEW r \in Requests, HandlerEnd(r)
  PROVE  IInv'
<1>1. /\ h[r] \in Inside
      /\ h[r] = "running" => call[r].kind = "local"
      /\ h' = [h EXCEPT ![r] = "replying"] /\ Record
      /\ UNCHANGED <<phase, client, tasks, provider, stops, call>> /\ Untouched
  BY DEF HandlerEnd, Inside
<1> USE DEF Untouched, gates, keys, client, tasks
<1>2. phase = "running"
  BY <1>1 DEF IInv, LifeInv, Live, Inside
<1>3. "replying" \in HandlerStates \ Outside /\ h[r] \notin Outside
  BY <1>1 DEF HandlerStates, Live, Outside, Inside
<1>4. call[r].kind # "null"
  BY <1>1 DEF IInv, LineInv, Inside
<1>5. Counted(r, "replying") /\ Handed(r, "replying")
  BY <1>1, <1>4 DEF Counted, Handed, Inside
<1>6. RunnableUnlessKeyChanged'
  BY <1>1, ProviderKept
<1> QED
  BY <1>1, <1>2, <1>3, <1>5, <1>6, MoveIInv

(* A reply passes through the writer's hands, or straight to uvicorn. *)
LEMMA ReplyIInv ==
  ASSUME IInv, NEW r \in Requests, WriteFrame(r) \/ HttpReply(r)
  PROVE  IInv'
<1> USE DEF Untouched, gates, keys, client, tasks
<1>1. /\ phase = "running" /\ h[r] = "replying" /\ UNCHANGED metrics
      /\ UNCHANGED <<phase, inbox, reader, line, provider, call>> /\ Untouched
  BY DEF WriteFrame, HttpReply
<1>2. h[r] \notin Outside /\ {"writing", "done"} \subseteq HandlerStates \ Outside
  BY <1>1 DEF HandlerStates, Outside
<1>3. RunnableUnlessKeyChanged'
  BY <1>1, ProviderKept
<1>4. CASE WriteFrame(r)
  <2>1. h' = [h EXCEPT ![r] = "writing"] /\ Counted(r, "writing") /\ Handed(r, "writing")
    BY <1>1, <1>4 DEF WriteFrame, Counted, Handed, Inside, Outside
  <2> QED
    BY <1>1, <1>2, <1>3, <2>1, MoveIInv
<1>5. CASE HttpReply(r)
  <2>1. h' = [h EXCEPT ![r] = "done"] /\ Counted(r, "done") /\ Handed(r, "done")
    BY <1>1, <1>5 DEF HttpReply, Counted, Handed, Inside, Outside
  <2> QED
    BY <1>1, <1>2, <1>3, <2>1, MoveIInv
<1> QED
  BY <1>4, <1>5

(* The frame in the writer's hands is flushed, or its task is cancelled.   *)
LEMMA WrittenIInv ==
  ASSUME IInv, FlushFrame \/ CancelWriter
  PROVE  IInv'
<1> USE DEF Untouched, gates, keys, client, tasks
<1> DEFINE r == writer
<1>1. /\ phase = "running" /\ r \in Requests /\ writer' = Idle /\ UNCHANGED metrics
      /\ UNCHANGED <<phase, inbox, reader, line, provider, call>> /\ Untouched
  BY DEF FlushFrame, CancelWriter
<1>2. h[r] = "writing"
  BY <1>1 DEF IInv, LifeInv
<1>3. PICK s \in {"done", "dropped"} : h' = [h EXCEPT ![r] = s]
  BY DEF FlushFrame, CancelWriter
<1>4. h[r] \notin Outside /\ s \in HandlerStates \ Outside
  BY <1>2 DEF HandlerStates, Outside
<1>5. Counted(r, s) /\ Handed(r, s)
  BY <1>1, <1>2 DEF Counted, Handed, Inside, Outside
<1>6. RunnableUnlessKeyChanged'
  BY <1>1, ProviderKept
<1> HIDE DEF r
<1> QED
  BY <1>1, <1>3, <1>4, <1>5, <1>6, MoveIInv

(* A handler dropped by the shutdown: its span, if any, is recorded. *)
LEMMA UnwindIInv ==
  ASSUME IInv, NEW r \in Requests, Unwind(r)
  PROVE  IInv'
<1>1. /\ phase = "running" /\ h[r] \in Live /\ h' = [h EXCEPT ![r] = "dropped"]
      /\ RecordCancel(r)
      /\ UNCHANGED <<phase, client, tasks, provider, stops, call>> /\ Untouched
  BY DEF Unwind
<1> USE DEF Untouched, gates, keys, client, tasks
<1>2. "dropped" \in HandlerStates \ Outside /\ h[r] \notin Outside
  BY <1>1 DEF HandlerStates, Live, Outside
<1>3. Counted(r, "dropped")
  BY <1>1 DEF Counted, RecordCancel, Spanned, Live, Inside, Outside
<1>4. Handed(r, "dropped")
  BY <1>1 DEF Handed, Live
<1>5. RunnableUnlessKeyChanged'
  BY <1>1, ProviderKept
<1> QED
  BY <1>1, <1>2, <1>3, <1>4, <1>5, MoveIInv

--------------------------------------------------------------------------------
(* The invariant. *)

(* Every step preserves it. *)
LEMMA NextIInv ==
  ASSUME IInv, [Next]_vars
  PROVE  IInv'
<1>1. CASE Startup
  BY <1>1, StartupIInv
<1>2. CASE Environment
  <2>1. CASE SetupVerify \/ SetupStore
    BY <2>1, SetupIInv
  <2>2. CASE SendGarbage \/ \E r \in Requests : SendCancel(r)
    BY <2>2, SendOtherIInv
  <2>3. CASE CloseStdin \/ Signal
    BY <2>3, LeavingIInv
  <2>4. CASE \E r \in Requests, k \in Kinds : SendCall(r, k)
    BY <2>4, SendCallIInv
  <2>5. CASE \E r \in Requests, k \in Kinds, auth \in BOOLEAN : HttpRequest(r, k, auth)
    BY <2>5, HttpRequestIInv
  <2> QED
    BY <1>2, <2>1, <2>2, <2>3, <2>4, <2>5 DEF Environment
<1>3. CASE Serve
  <2>1. CASE ReadLine
    BY <2>1, ReaderIInv
  <2>2. CASE Dispatch
    BY <2>2, DispatchIInv
  <2>3. CASE FlushFrame
    BY <2>3, WrittenIInv
  <2>4. ASSUME NEW r \in Requests, Refuse(r) PROVE IInv'
    BY <2>4, RefuseIInv
  <2>5. ASSUME NEW r \in Requests, Ask(r) PROVE IInv'
    BY <2>5, AskIInv
  <2>6. ASSUME NEW r \in Requests, WriteFrame(r) \/ HttpReply(r) PROVE IInv'
    BY <2>6, ReplyIInv
  <2>7. ASSUME NEW r \in Requests, HandlerEnd(r) PROVE IInv'
    BY <2>7, HandlerEndIInv
  <2>8. ASSUME NEW r \in Requests, Unwind(r) PROVE IInv'
    BY <2>8, UnwindIInv
  <2> QED
    BY <1>3, <2>1, <2>2, <2>3, <2>4, <2>5, <2>6, <2>7, <2>8 DEF Serve
<1>4. CASE Shutdown
  <2>1. CASE StopOnSignal \/ ServeEnds \/ CloseToolset
    BY <2>1, LeavingIInv
  <2>2. CASE AbandonRead
    BY <2>2, ReaderIInv
  <2>3. CASE CancelWriter
    BY <2>3, WrittenIInv
  <2> QED
    BY <1>4, <2>1, <2>2, <2>3 DEF Shutdown
<1>5. CASE UNCHANGED vars
  <2> USE <1>5 DEF vars, gates, keys, client, tasks, stops
  <2>1. LifeInv' /\ GateInv' /\ RunnableUnlessKeyChanged' /\ reader' = reader
    BY DEF IInv, GatesHold, LifeInv, GateInv, RunnableUnlessKeyChanged
  <2> QED
    BY <2>1, QuietIInv DEF IInv, ShapeInv
<1> QED
  BY <1>1, <1>2, <1>3, <1>4, <1>5 DEF Next, Terminated

(* The invariant holds of every state. *)
THEOREM Invariant == Spec => []IInv
<1>1. Init => IInv
  BY InitIInv
<1>2. IInv /\ [Next]_vars => IInv'
  BY NextIInv
<1> QED
  BY <1>1, <1>2, PTL DEF Spec

(* Every way out of Toolset.execute is counted once, whatever the          *)
(* interleaving of replies, cancellations and shutdown, and the periodic   *)
(* snapshots lose none of them (telemetry.py: _Scope.__exit__, record).    *)
THEOREM SpansAreCounted == Spec => []SpansCountExits
<1>1. IInv => SpansCountExits
  BY DEF IInv, CountInv
<1> QED
  BY <1>1, Invariant, PTL

(* However the process leaves, nothing of it is left behind: no pool, no   *)
(* provider, no handler, no frame, no reader (serve's finally, _serve).    *)
THEOREM NothingIsLeft == Spec => []NothingOutlives
<1>1. ASSUME IInv, Stopped PROVE NothingOutlives
  <2>1. phase \in {"exited", "refused", "crashed", "delegated"} /\ LifeInv /\ ShapeInv
    BY <1>1 DEF Stopped, IInv
  <2>2. writer = Idle
    BY <2>1 DEF LifeInv
  <2>3. Idle \notin Requests
    BY ServerAssumption DEF Idle, Requests
  <2> QED
    BY <2>1, <2>2, <2>3 DEF NothingOutlives, LifeInv, Live
<1>2. IInv => NothingOutlives
  BY <1>1 DEF NothingOutlives
<1> QED
  BY <1>2, Invariant, PTL

(* The gates of startup hold for the whole life of the process: only an    *)
(* authorised HTTP caller reaches a tool, and a provider whose SDK is      *)
(* missing is asked only through a key stored after the gate.              *)
THEOREM GatesAreKept == Spec => []GatesHold
<1>1. IInv => GatesHold
  BY DEF IInv
<1> QED
  BY <1>1, Invariant, PTL

--------------------------------------------------------------------------------
(* RequestLedger, step by step. *)

(* Moving one handler moves that one request in the ledger. *)
LEMMA StandingMoves ==
  ASSUME NEW r \in Requests, NEW s, h \in [Requests -> HandlerStates],
         h' = [h EXCEPT ![r] = s]
  PROVE  Standings' = [Standings EXCEPT ![r] = Standing(s)]
BY DEF Standings

(* What the ledger knows of a request before its step. *)
LEMMA StandingOf ==
  ASSUME NEW r \in Requests
  PROVE  Standings[r] = Standing(h[r])
BY DEF Standings

(* A handler's step inside one standing is no step of the ledger. *)
LEMMA StandingSame ==
  ASSUME NEW r \in Requests, NEW s, h \in [Requests -> HandlerStates],
         h' = [h EXCEPT ![r] = s], Standing(s) = Standing(h[r])
  PROVE  Standings' = Standings
<1>1. Standings' = [Standings EXCEPT ![r] = Standing(s)]
  BY StandingMoves
<1> QED
  BY <1>1, StandingOf DEF Standings

(* An open request that leaves its handler, or its writer, is settled. *)
LEMMA Settles ==
  ASSUME NEW r \in Requests, NEW s \in {"done", "dropped"}, h \in [Requests -> HandlerStates],
         h' = [h EXCEPT ![r] = s], h[r] \in Live \cup {"writing"},
         phase = "running", phase' = phase
  PROVE  Ledger!Next
<1>1. Standings' = [Standings EXCEPT ![r] = Standing(s)] /\ Standings[r] = "open"
  <2>1. Standing(h[r]) = "open"
    BY DEF Standing, Live
  <2>2. Standings' = [Standings EXCEPT ![r] = Standing(s)]
    BY StandingMoves
  <2>3. Standings[r] = Standing(h[r])
    BY StandingOf
  <2> QED
    BY <2>1, <2>2, <2>3
<1>2. Standing(s) \in {"replied", "dropped"}
  BY DEF Standing, Live
<1>3. DoorNow = "open" /\ DoorNow' = DoorNow
  BY DEF DoorNow, Door
<1>4. Ledger!Settle(r)
  BY <1>1, <1>2, <1>3 DEF Ledger!Settle
<1> QED
  BY <1>4 DEF Ledger!Next

(* A call the dispatcher or the bearer gate lets through is accepted. *)
LEMMA Accepts ==
  ASSUME NEW r \in Requests, h \in [Requests -> HandlerStates],
         h' = [h EXCEPT ![r] = "running"], h[r] = "none",
         phase = "running", phase' = phase
  PROVE  Ledger!Next
<1>1. Standings' = [Standings EXCEPT ![r] = "open"] /\ Standings[r] = "new"
  <2>1. Standing(h[r]) = "new" /\ Standing("running") = "open"
    BY DEF Standing, Live
  <2>2. Standings' = [Standings EXCEPT ![r] = Standing("running")]
    BY StandingMoves
  <2>3. Standings[r] = Standing(h[r])
    BY StandingOf
  <2> QED
    BY <2>1, <2>2, <2>3
<1>2. DoorNow = "open" /\ DoorNow' = DoorNow
  BY DEF DoorNow, Door
<1>3. Ledger!Accept(r)
  BY <1>1, <1>2 DEF Ledger!Accept
<1> QED
  BY <1>3 DEF Ledger!Next

(* A step that moves neither a handler nor the phase. *)
LEMMA LedgerSame ==
  ASSUME h' = h, DoorNow' = DoorNow
  PROVE  UNCHANGED Ledger!vars
BY DEF Ledger!vars, Standings

(* A handler's step that neither starts nor settles a request. *)
LEMMA LedgerMove ==
  ASSUME NEW r \in Requests, NEW s, h \in [Requests -> HandlerStates],
         h' = [h EXCEPT ![r] = s], Standing(s) = Standing(h[r]), phase' = phase
  PROVE  UNCHANGED Ledger!vars
<1>1. Standings' = Standings
  BY StandingSame
<1> QED
  BY <1>1 DEF Ledger!vars, DoorNow

(* Every step of the server is a step of the ledger, or none. *)
LEMMA NextLedger ==
  ASSUME IInv, [Next]_vars
  PROVE  [Ledger!Next]_(Ledger!vars)
<1>1. h \in [Requests -> HandlerStates] /\ LifeInv /\ LineInv /\ ShapeInv
  BY DEF IInv, ShapeInv, HandlerStates
<1>2. \A s \in Live \cup {"writing"} : Standing(s) = "open"
  BY DEF Standing, Live
<1>3. CASE Startup
  <2>1. h' = h /\ phase \notin {"running", "closing", "exited"}
    BY <1>3 DEF Startup, Main, ensure_secrets_redactable, ensure_http_access_control,
         ensure_http_port_free, ensure_provider_runnable, Warm, Bind, Serving
  <2>2. phase' \notin {"closing", "exited"}
    BY <1>3 DEF Startup, Main, ensure_secrets_redactable, ensure_http_access_control,
         ensure_http_port_free, ensure_provider_runnable, Warm, Bind, Exit
  <2>3. Standings' = Standings
    BY <2>1 DEF Standings
  <2>4. CASE phase' = "running"
    <3>1. Ledger!Open
      BY <2>1, <2>3, <2>4 DEF Ledger!Open, DoorNow, Door
    <3> QED
      BY <3>1 DEF Ledger!Next
  <2>5. CASE phase' # "running"
    <3>1. DoorNow' = DoorNow
      BY <2>1, <2>2, <2>5 DEF DoorNow, Door
    <3> QED
      BY <2>1, <3>1, LedgerSame
  <2> QED
    BY <2>4, <2>5
<1>4. CASE Environment
  <2>1. CASE \/ SetupVerify \/ SetupStore \/ SendGarbage \/ CloseStdin \/ Signal
             \/ \E r \in Requests, k \in Kinds : SendCall(r, k)
             \/ \E r \in Requests : SendCancel(r)
    <3>1. h' = h /\ phase' = phase
      BY <2>1 DEF SetupVerify, SetupStore, SendGarbage, CloseStdin, Signal, SendCall, SendCancel
    <3> QED
      BY <3>1, LedgerSame DEF DoorNow
  <2>2. ASSUME NEW r \in Requests, NEW k \in Kinds, NEW auth \in BOOLEAN, HttpRequest(r, k, auth)
        PROVE  [Ledger!Next]_(Ledger!vars)
    <3>1. call[r] = NoCall /\ h[r] = "none"
      <4> DEFINE c == [kind |-> k, auth |-> auth]
      <4>1. r = Cardinality(Sent) + 1 /\ call' = [call EXCEPT ![r] = c]
        BY <2>2 DEF HttpRequest
      <4>2. c \in [kind : Kinds, auth : BOOLEAN]
        OBVIOUS
      <4> HIDE DEF c
      <4> QED
        BY <1>1, <4>1, <4>2, NextCall
    <3>2. CASE BearerTokenMiddleware(auth)
      <4>1. h' = [h EXCEPT ![r] = "running"] /\ phase = "running" /\ phase' = phase
        BY <2>2, <3>2 DEF HttpRequest
      <4> QED
        BY <1>1, <3>1, <4>1, Accepts
    <3>3. CASE ~BearerTokenMiddleware(auth)
      <4>1. h' = [h EXCEPT ![r] = "denied"] /\ phase' = phase
        BY <2>2, <3>3 DEF HttpRequest
      <4>2. Standing("denied") = Standing(h[r])
        BY <3>1 DEF Standing, Live
      <4> QED
        BY <1>1, <4>1, <4>2, LedgerMove
    <3> QED
      BY <3>2, <3>3
  <2> QED
    BY <1>4, <2>1, <2>2 DEF Environment
<1>5. CASE Serve
  <2>1. CASE ReadLine
    BY <2>1, LedgerSame DEF ReadLine, DoorNow
  <2>2. CASE Dispatch
    <3>1. phase = "running" /\ phase' = phase
      BY <2>2 DEF Dispatch
    <3>2. \A l \in Lines : l.type \in {"call", "cancel"} => l.id \in Requests
      BY DEF Lines
    <3>3. line.type \in {"call", "cancel"} => line.id \in Requests
      BY <1>1, <3>2 DEF ShapeInv, NoLine, None
    <3>4. CASE line.type = "call"
      <4>1. h' = [h EXCEPT ![line.id] = "running"] /\ h[line.id] = "none" /\ line.id \in Requests
        BY <1>1, <2>2, <3>3, <3>4 DEF Dispatch, LineInv
      <4> QED
        BY <1>1, <3>1, <4>1, Accepts
    <3>5. CASE line.type = "cancel" /\ h[line.id] \in {"running", "asking"}
      <4>1. PICK s \in {"dropped", "replying"} : h' = [h EXCEPT ![line.id] = s]
        BY <2>2, <3>5 DEF Dispatch
      <4>2. line.id \in Requests /\ h[line.id] \in Live
        BY <3>3, <3>5 DEF Live
      <4>3. CASE s = "dropped"
        BY <1>1, <3>1, <4>1, <4>2, <4>3, Settles
      <4>4. CASE s = "replying"
        <5>1. Standing(s) = Standing(h[line.id])
          BY <1>2, <4>2, <4>4 DEF Live
        <5> QED
          BY <1>1, <3>1, <4>1, <4>2, <5>1, LedgerMove
      <4> QED
        BY <4>3, <4>4
    <3>6. CASE /\ line.type # "call"
               /\ ~(line.type = "cancel" /\ h[line.id] \in {"running", "asking"})
      <4>1. h' = h
        BY <2>2, <3>6 DEF Dispatch
      <4> QED
        BY <3>1, <4>1, LedgerSame DEF DoorNow
    <3> QED
      BY <3>4, <3>5, <3>6
  <2>3. CASE FlushFrame
    <3>1. /\ writer \in Requests /\ h' = [h EXCEPT ![writer] = "done"]
          /\ phase = "running" /\ phase' = phase
      BY <2>3 DEF FlushFrame
    <3>2. h[writer] = "writing"
      BY <1>1, <3>1 DEF LifeInv
    <3> QED
      BY <1>1, <3>1, <3>2, Settles
  <2>4. ASSUME NEW r \in Requests, Refuse(r) \/ Ask(r) \/ HandlerEnd(r) \/ WriteFrame(r)
        PROVE  [Ledger!Next]_(Ledger!vars)
    <3>1. PICK s \in Live \cup {"writing"} : h' = [h EXCEPT ![r] = s]
      BY <2>4 DEF Refuse, Ask, HandlerEnd, WriteFrame, Live
    <3>2. h[r] \in Live /\ phase' = phase
      BY <2>4 DEF Refuse, Ask, HandlerEnd, WriteFrame, Live
    <3>3. Standing(s) = Standing(h[r])
      BY <1>2, <3>2
    <3> QED
      BY <1>1, <3>1, <3>2, <3>3, LedgerMove
  <2>5. ASSUME NEW r \in Requests, HttpReply(r) \/ Unwind(r)
        PROVE  [Ledger!Next]_(Ledger!vars)
    <3>1. PICK s \in {"done", "dropped"} : h' = [h EXCEPT ![r] = s]
      BY <2>5 DEF HttpReply, Unwind
    <3>2. h[r] \in Live /\ phase = "running" /\ phase' = phase
      BY <2>5 DEF HttpReply, Unwind, Live
    <3> QED
      BY <1>1, <3>1, <3>2, Settles
  <2> QED
    BY <1>5, <2>1, <2>2, <2>3, <2>4, <2>5 DEF Serve
<1>6. CASE Shutdown
  <2>1. CASE StopOnSignal \/ AbandonRead
    BY <2>1, LedgerSame DEF StopOnSignal, AbandonRead, DoorNow
  <2>2. CASE CancelWriter
    <3>1. /\ writer \in Requests /\ phase = "running" /\ phase' = phase
          /\ \E s \in {"done", "dropped"} : h' = [h EXCEPT ![writer] = s]
      BY <2>2 DEF CancelWriter
    <3>2. h[writer] = "writing"
      BY <1>1, <3>1 DEF LifeInv
    <3> QED
      BY <1>1, <3>1, <3>2, Settles
  <2>3. CASE ServeEnds
    <3>1. /\ phase = "running" /\ phase' = "closing" /\ h' = h
          /\ \A r \in Requests : h[r] \notin Live
          /\ conf.transport = "stdio" => writer = Idle
      BY <2>3 DEF ServeEnds
    <3>2. Idle \notin Requests
      BY ServerAssumption DEF Idle, Requests
    <3>3. \A r \in Requests : h[r] # "writing"
      BY <1>1, <3>1, <3>2 DEF LifeInv
    <3>4. \A s \in HandlerStates \ (Live \cup {"writing"}) : Standing(s) # "open"
      BY DEF Standing, HandlerStates
    <3>5. \A r \in Requests : Standing(h[r]) # "open"
      BY <1>1, <3>1, <3>3, <3>4
    <3>6. \A r \in Requests : Standings[r] # "open"
      BY <3>5, StandingOf
    <3>7. DoorNow = "open" /\ DoorNow' = "closed" /\ Standings' = Standings
      BY <3>1 DEF DoorNow, Door, Standings
    <3>8. Ledger!Close
      BY <3>6, <3>7 DEF Ledger!Close
    <3> QED
      BY <3>8 DEF Ledger!Next
  <2>4. CASE CloseToolset
    <3>1. h' = h /\ phase = "closing" /\ phase' = "exited"
      BY <2>4 DEF CloseToolset
    <3>2. DoorNow' = DoorNow
      BY <3>1 DEF DoorNow, Door
    <3> QED
      BY <3>1, <3>2, LedgerSame
  <2> QED
    BY <1>6, <2>1, <2>2, <2>3, <2>4 DEF Shutdown
<1>7. CASE UNCHANGED vars
  BY <1>7, LedgerSame DEF vars, DoorNow
<1> QED
  BY <1>3, <1>4, <1>5, <1>6, <1>7 DEF Next, Terminated

(* The server settles requests as RequestLedger says: an accepted call is   *)
(* replied to or dropped exactly once, before the transport closes, and     *)
(* never after (the safety part of ImplementsLedger).                       *)
THEOREM LedgerImplemented == Spec => Ledger!Init /\ [][Ledger!Next]_(Ledger!vars)
<1>1. Init => Ledger!Init
  <2> SUFFICES ASSUME Init PROVE Ledger!Init
    OBVIOUS
  <2>1. Standing("none") = "new" /\ DoorNow = "unopened"
    BY DEF Init, Standing, Live, DoorNow, Door
  <2>2. \A r \in Requests : h[r] = "none"
    BY DEF Init
  <2>3. Standings = [r \in Requests |-> "new"]
    BY <2>1, <2>2 DEF Standings
  <2> QED
    BY <2>1, <2>3 DEF Ledger!Init
<1>2. IInv /\ [Next]_vars => [Ledger!Next]_(Ledger!vars)
  BY NextLedger
<1> QED
  BY <1>1, <1>2, Invariant, PTL DEF Spec
================================================================================
