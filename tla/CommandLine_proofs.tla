-------------------------- MODULE CommandLine_proofs ---------------------------
(***************************************************************************)
(* Proofs about the programs a user or an agent starts from a shell.       *)
(*                                                                         *)
(* Installer, for any number of runs, targets, versions and keys: what a   *)
(* rename replaces is the installer's to replace and backed up, and what   *)
(* an installer wrote is recorded as its own.  Both need what a run in     *)
(* flight knows.  A plan is as good as the config it was made for, and     *)
(* until a rename lands that config is the one on disk or the run has been *)
(* raced.  An entry is recorded in the state file, or in the memory of a   *)
(* run that has not saved yet.                                             *)
(*                                                                         *)
(* Hooks, for any jobs, transcripts, replies and caps: a hook passes       *)
(* nothing that its judge or its own failure did not pass, sends only what *)
(* it read, and leaves no child and no client behind.                      *)
(***************************************************************************)
EXTENDS Installer, Hooks, SequenceTheorems, TLAPS

--------------------------------------------------------------------------------
(* The installer. *)

Files == [exists : BOOLEAN, entry : Entries \cup {None}, rest : Nat]
Records == [launch : Versions, literal : BOOLEAN]
Plans == [kind : {"none", "add", "update", "remove"}, before : Files, after : Entries \cup {None}]
Busy == {"final", "rename", "verify"}

(* The types the steps rely on; the state file never records a foreign     *)
(* entry.                                                                  *)
ShapeInv ==
  /\ config \in [Targets -> Files]
  /\ state \in [Targets -> Records \cup {None}]
  /\ backup \in [Targets -> [0..MaxClock -> Files \cup {None}]]
  /\ clock \in 0..MaxClock
  /\ pc \in [Runs -> {"idle", "plan", "done"} \cup Applying]
  /\ req \in [Runs -> Commands \cup {NoRequest}]
  /\ todo \in [Runs -> SUBSET Targets]
  /\ plan \in [Runs -> [Targets -> Plans \cup {NoPlan}]]
  /\ cur \in [Runs -> Targets \cup {None}]
  /\ mine \in [Runs -> [Targets -> Records \cup {None}]]
  /\ changed \in [Runs -> BOOLEAN]
  /\ stamp \in [Runs -> (0..MaxClock) \cup {None}]
  /\ raced \in [Runs -> BOOLEAN]
  /\ disturbed \in BOOLEAN

(* Where a run is and what it has left to do. *)
RunInv(i) ==
  /\ pc[i] = "idle" => \A t \in Targets : plan[i][t] = NoPlan
  /\ pc[i] \in {"idle", "plan"} => stamp[i] = None
  /\ pc[i] \in {"plan"} \cup Applying => req[i] \in Commands
  /\ pc[i] \in Applying => stamp[i] \in 0..MaxClock
  /\ pc[i] \in Applying => \A t \in todo[i] : plan[i][t].kind # "none"
  /\ pc[i] \in Busy => cur[i] \in todo[i]

(* What is planned for an entry that the run may not touch, or whose key   *)
(* it must keep.                                                           *)
Sound(r, p) ==
  /\ p.after = None \/ p.after.launch \in Versions
  /\ ~r.force => p.before.entry = None \/ p.before.entry.launch # Foreign
  /\ ~r.force /\ ~r.remove /\ r.key = NoKey /\ p.before.entry # None =>
       p.after # None /\ p.after.key = p.before.entry.key

PlanInv(i) == \A t \in Targets : plan[i][t].kind # "none" => Sound(req[i], plan[i][t])

(* No other run shares the name of the run's backups. *)
Alone(i) == \A j \in Runs \ {i} : stamp[j] # stamp[i]

(* The config being written: the one planned for, and set aside. *)
FileInv(i) ==
  /\ pc[i] = "rename" /\ ~raced[i] => config[cur[i]] = plan[i][cur[i]].before
  /\ pc[i] \in {"final", "rename"} /\ plan[i][cur[i]].before.exists /\ Alone(i) =>
       backup[cur[i]][stamp[i]] = plan[i][cur[i]].before

(* The record of an entry, and what a run will record of a target. *)
HashOf(entry) == IF entry = None THEN None ELSE Hash(entry)

View(i, t) == IF pc[i] = "verify" /\ cur[i] = t THEN HashOf(plan[i][t].after) ELSE mine[i][t]

Writers == {i \in Runs : pc[i] \in Applying /\ changed[i]}

Ours(entry) == entry # None /\ entry.launch # Foreign

(* An installer's entry is in the memory of a run that wrote something, or *)
(* in the state file and so in every run that will rewrite that file.      *)
Accounted(t) ==
  \/ \E i \in Writers : View(i, t) = Hash(config[t].entry)
  \/ /\ state[t] = Hash(config[t].entry)
     /\ \A i \in Runs : pc[i] \in Applying => View(i, t) = state[t]

OwnInv == ~disturbed => \A t \in Targets : Ours(config[t].entry) => Accounted(t)

IInv == ShapeInv /\ OwnInv /\ \A i \in Runs : RunInv(i) /\ PlanInv(i) /\ FileInv(i)

--------------------------------------------------------------------------------
(* Before the first run. *)
LEMMA InitIInv == Init => IInv
<1> SUFFICES ASSUME Init PROVE IInv
  OBVIOUS
<1>1. MaxClock \in Nat /\ 0 \in 0..MaxClock
  BY InstallerAssumption
<1>2. ShapeInv
  BY <1>1 DEF Init, ShapeInv, Files
<1>3. OwnInv
  BY DEF Init, OwnInv, Ours
<1>4. ASSUME NEW i \in Runs PROVE RunInv(i) /\ PlanInv(i) /\ FileInv(i)
  BY DEF Init, RunInv, PlanInv, FileInv, Applying, Busy, NoPlan
<1> QED
  BY <1>2, <1>3, <1>4 DEF IInv

(* A run's own variables stay as they were. *)
Same(j) ==
  /\ pc'[j] = pc[j] /\ req'[j] = req[j] /\ todo'[j] = todo[j] /\ plan'[j] = plan[j]
  /\ cur'[j] = cur[j] /\ mine'[j] = mine[j] /\ changed'[j] = changed[j] /\ stamp'[j] = stamp[j]

(* A run's step leaves the others' variables alone. *)
LEMMA OthersSame ==
  ASSUME ShapeInv, NEW i \in Runs, Step(i), NEW j \in Runs \ {i}
  PROVE  Same(j)
<1>1. CASE Start(i) \/ Plan(i) \/ Check(i) \/ Final(i) \/ Verify(i)
  BY <1>1 DEF Start, Plan, Check, Final, Verify, Fail, Goto, ShapeInv, Same
<1>2. CASE Rename(i)
  BY <1>2 DEF Rename, Fail, Goto, ShapeInv, Same
<1>3. CASE Confirm(i) \/ Save(i) \/ Die(i)
  BY <1>3 DEF Confirm, Save, Die, Quit, Goto, ShapeInv, Same
<1> QED
  BY <1>1, <1>2, <1>3 DEF Step

(* What is known of a run's own variables is kept with them. *)
LEMMA SameKnown ==
  ASSUME NEW j \in Runs, Same(j), RunInv(j), PlanInv(j)
  PROVE  RunInv(j)' /\ PlanInv(j)'
BY DEF Same, RunInv, PlanInv

(* The config another run writes: untouched, or the run is raced. *)
LEMMA SameFile ==
  ASSUME NEW j \in Runs, Same(j), FileInv(j),
         pc[j] = "rename" /\ ~raced'[j] => ~raced[j] /\ config'[cur[j]] = config[cur[j]],
         pc[j] \in {"final", "rename"} /\ Alone(j)' =>
           Alone(j) /\ backup'[cur[j]][stamp[j]] = backup[cur[j]][stamp[j]]
  PROVE  FileInv(j)'
BY DEF Same, FileInv

(* The others keep their stamps, so a name that is unshared was. *)
LEMMA AloneKept ==
  ASSUME NEW i \in Runs, UNCHANGED stamp
  PROVE  Alone(i)' <=> Alone(i)
BY DEF Alone

(* Nothing is written and nobody learns anything. *)
LEMMA OwnKept ==
  ASSUME OwnInv, disturbed' = disturbed, state' = state,
         \A t \in Targets : config'[t].entry = config[t].entry,
         \A j \in Writers : j \in Writers' /\ \A t \in Targets : View(j, t)' = View(j, t),
         \A j \in Runs : pc'[j] \in Applying =>
           \/ pc[j] \in Applying /\ \A t \in Targets : View(j, t)' = View(j, t)
           \/ \A t \in Targets : View(j, t)' = state[t]
  PROVE  OwnInv'
<1> SUFFICES ASSUME ~disturbed, NEW t \in Targets, Ours(config[t].entry) PROVE Accounted(t)'
  BY DEF OwnInv, Ours
<1>1. Accounted(t)
  BY DEF OwnInv
<1>2. CASE \E i \in Writers : View(i, t) = Hash(config[t].entry)
  BY <1>2 DEF Accounted, Hash
<1>3. CASE /\ state[t] = Hash(config[t].entry)
           /\ \A i \in Runs : pc[i] \in Applying => View(i, t) = state[t]
  BY <1>3 DEF Accounted, Hash
<1> QED
  BY <1>1, <1>2, <1>3 DEF Accounted

(* The others of a step that touches neither config nor backup nor stamp. *)
LEMMA OthersKept ==
  ASSUME IInv, NEW i \in Runs, Step(i), UNCHANGED <<config, backup, stamp>>,
         \A j \in Runs \ {i} : raced'[j] = raced[j],
         NEW j \in Runs \ {i}
  PROVE  RunInv(j)' /\ PlanInv(j)' /\ FileInv(j)'
<1>1. Same(j) /\ RunInv(j) /\ PlanInv(j) /\ FileInv(j)
  BY OthersSame DEF IInv
<1> QED
  BY <1>1, SameKnown, SameFile, AloneKept

(* The views of the runs that a step leaves alone. *)
LEMMA ViewsKept ==
  ASSUME NEW j \in Runs, Same(j), NEW t \in Targets
  PROVE  View(j, t)' = View(j, t)
BY DEF Same, View

(* A step that leaves the configs and the state file as they were. *)
LEMMA StepOwn ==
  ASSUME IInv, NEW i \in Runs, Step(i), UNCHANGED <<config, state, disturbed>>,
         i \in Writers => i \in Writers' /\ \A t \in Targets : View(i, t)' = View(i, t),
         pc'[i] \in Applying =>
           \/ pc[i] \in Applying /\ \A t \in Targets : View(i, t)' = View(i, t)
           \/ \A t \in Targets : View(i, t)' = state[t]
  PROVE  OwnInv'
<1>1. ASSUME NEW j \in Runs \ {i}
      PROVE  /\ pc'[j] = pc[j] /\ changed'[j] = changed[j]
             /\ \A t \in Targets : View(j, t)' = View(j, t)
  BY OthersSame, ViewsKept DEF IInv, Same
<1>2. ASSUME NEW j \in Writers
      PROVE  j \in Writers' /\ \A t \in Targets : View(j, t)' = View(j, t)
  <2>1. CASE j = i
    BY <2>1
  <2>2. CASE j # i
    BY <1>1, <2>2 DEF Writers
  <2> QED
    BY <2>1, <2>2
<1>3. ASSUME NEW j \in Runs, pc'[j] \in Applying
      PROVE  \/ pc[j] \in Applying /\ \A t \in Targets : View(j, t)' = View(j, t)
             \/ \A t \in Targets : View(j, t)' = state[t]
  <2>1. CASE j = i
    BY <2>1, <1>3
  <2>2. CASE j # i
    BY <1>1, <1>3, <2>2
  <2> QED
    BY <2>1, <2>2
<1> QED
  BY <1>2, <1>3, OwnKept DEF IInv

(* The parts of the invariant, put together again. *)
LEMMA Assemble ==
  ASSUME IInv, NEW i \in Runs, Step(i), UNCHANGED <<config, backup, stamp>>,
         \A j \in Runs \ {i} : raced'[j] = raced[j],
         ShapeInv', OwnInv', RunInv(i)', PlanInv(i)', FileInv(i)'
  PROVE  IInv'
<1>1. ASSUME NEW j \in Runs PROVE RunInv(j)' /\ PlanInv(j)' /\ FileInv(j)'
  <2>1. CASE j = i
    BY <2>1
  <2>2. CASE j # i
    BY <2>2, OthersKept
  <2> QED
    BY <2>1, <2>2
<1> QED
  BY <1>1 DEF IInv

(* The facts about a run that its steps use. *)
LEMMA RunFacts ==
  ASSUME IInv, NEW i \in Runs
  PROVE  ShapeInv /\ RunInv(i) /\ PlanInv(i) /\ FileInv(i)
BY DEF IInv

--------------------------------------------------------------------------------
(* Start and Plan: what a run plans is sound for the config it read. *)
LEMMA StartKeeps ==
  ASSUME IInv, NEW i \in Runs, Start(i)
  PROVE  IInv'
<1>0. Step(i) /\ UNCHANGED <<config, backup, stamp>> /\ UNCHANGED <<config, state, disturbed>>
  BY DEF Start, Step, disk, history
<1>1. PICK r \in Commands, selected \in (SUBSET Targets) \ {{}} :
        /\ req' = [req EXCEPT ![i] = r]
        /\ todo' = [todo EXCEPT ![i] = selected]
  BY DEF Start
<1>2. ShapeInv'
  BY <1>1 DEF IInv, ShapeInv, Start, Goto, disk, history
<1>3. pc'[i] = "plan" /\ pc[i] = "idle" /\ req'[i] = r /\ plan' = plan /\ stamp' = stamp
  BY <1>1 DEF IInv, ShapeInv, Start, Goto
<1>4. RunInv(i)' /\ PlanInv(i)' /\ FileInv(i)'
  BY <1>3, RunFacts DEF RunInv, PlanInv, FileInv, Applying, Busy, NoPlan
<1>5. OwnInv'
  BY <1>0, <1>3, StepOwn DEF Writers, Applying
<1> QED
  BY <1>0, <1>2, <1>4, <1>5, Assemble DEF Start, history

LEMMA PlanFacts ==
  ASSUME ShapeInv, NEW r \in Commands, NEW t \in Targets,
         NEW p, p = [kind |-> Classify(r, t), before |-> config[t],
                     after |-> IF r.remove THEN None ELSE Desired(r, t, config[t].entry)]
  PROVE  p \in Plans /\ (p.kind # "none" => Sound(r, p))
<1>1. /\ r.remove \in BOOLEAN /\ r.force \in BOOLEAN /\ r.launch \in Versions
      /\ r.key \in Keys \cup {NoKey}
  BY InstallerAssumption
<1>2. config[t] \in Files /\ config[t].entry \in Entries \cup {None}
  BY DEF ShapeInv, Files
<1>3. Owned(t, config[t].entry) =>
        /\ config[t].entry \in Entries /\ config[t].entry.launch \in Versions
        /\ config[t].entry.key \in Keys \cup {NoKey}
  <2> SUFFICES ASSUME Owned(t, config[t].entry)
               PROVE  /\ config[t].entry \in Entries /\ config[t].entry.launch \in Versions
                      /\ config[t].entry.key \in Keys \cup {NoKey}
    OBVIOUS
  <2>1. config[t].entry \in Entries /\ state[t] = Hash(config[t].entry)
    BY <1>2 DEF Owned
  <2>2. Hash(config[t].entry) \in Hashes
    BY <2>1 DEF Hash, Hashes, Entries
  <2>3. state[t] \in Records
    BY <2>1, <2>2, InstallerAssumption DEF ShapeInv
  <2> QED
    BY <2>1, <2>3 DEF Hash, Records, Entries
<1>4. Desired(r, t, config[t].entry) \in Entries /\ Desired(r, t, config[t].entry).launch \in Versions
  BY <1>1, <1>3 DEF Desired, Entries
<1>5. Desired(r, t, config[t].entry) # None
  BY <1>4, InstallerAssumption
<1>6. Classify(r, t) \in {"none", "add", "update", "remove"}
  BY <1>1 DEF Classify
<1>7. p \in Plans
  BY <1>1, <1>2, <1>4, <1>6 DEF Plans
<1>8. ASSUME p.kind # "none", ~r.force
      PROVE  config[t].entry = None \/ Owned(t, config[t].entry)
  BY <1>8 DEF Classify
<1>9. ASSUME p.kind # "none" PROVE Sound(r, p)
  <2>1. p.after = None \/ p.after.launch \in Versions
    BY <1>4
  <2>2. ~r.force => p.before.entry = None \/ p.before.entry.launch # Foreign
    BY <1>3, <1>8, <1>9, InstallerAssumption
  <2>3. ASSUME ~r.force, ~r.remove, r.key = NoKey, p.before.entry # None
        PROVE  p.after # None /\ p.after.key = p.before.entry.key
    BY <1>5, <1>8, <1>9, <2>3 DEF Desired
  <2> QED
    BY <2>1, <2>2, <2>3 DEF Sound
<1> QED
  BY <1>7, <1>9

LEMMA PlanKeeps ==
  ASSUME IInv, NEW i \in Runs, Plan(i)
  PROVE  IInv'
<1>0. /\ Step(i) /\ UNCHANGED <<config, backup, stamp>> /\ UNCHANGED <<config, state, disturbed>>
      /\ pc[i] = "plan" /\ pc' = pc /\ req' = req /\ raced' = raced
  BY DEF Plan, Step, disk, history
<1>1. req[i] \in Commands
  BY <1>0, RunFacts DEF RunInv
<1>2. PICK t \in todo[i] :
        /\ \/ plan' = [plan EXCEPT ![i][t] =
                         [kind |-> Classify(req[i], t), before |-> config[t],
                          after |-> IF req[i].remove THEN None
                                    ELSE Desired(req[i], t, config[t].entry)]]
           \/ UNCHANGED plan
        /\ todo' = [todo EXCEPT ![i] = @ \ {t}]
  BY DEF Plan
<1>3. t \in Targets
  BY <1>2 DEF IInv, ShapeInv
<1> DEFINE p == [kind |-> Classify(req[i], t), before |-> config[t],
                 after |-> IF req[i].remove THEN None ELSE Desired(req[i], t, config[t].entry)]
<1>4. p \in Plans /\ (p.kind # "none" => Sound(req[i], p))
  BY <1>1, <1>3, PlanFacts, RunFacts
<1> HIDE DEF p
<1>5. plan' = [plan EXCEPT ![i][t] = p] \/ plan' = plan
  BY <1>2 DEF p
<1>a. plan \in [Runs -> [Targets -> Plans \cup {NoPlan}]]
  BY RunFacts DEF ShapeInv
<1>b. /\ plan' \in [Runs -> [Targets -> Plans \cup {NoPlan}]]
      /\ \A u \in Targets : plan'[i][u] = plan[i][u] \/ (u = t /\ plan'[i][u] = p)
  <2>1. CASE plan' = plan
    BY <2>1, <1>a
  <2>2. CASE plan' = [plan EXCEPT ![i][t] = p]
    BY <2>2, <1>a, <1>3, <1>4
  <2> QED
    BY <2>1, <2>2, <1>5
<1>6. ShapeInv'
  BY <1>0, <1>2, <1>3, <1>b DEF IInv, ShapeInv, Plan, disk, history
<1>7. PlanInv(i)'
  BY <1>0, <1>4, <1>b, RunFacts DEF PlanInv
<1>8. RunInv(i)' /\ FileInv(i)'
  BY <1>0, RunFacts DEF RunInv, FileInv, Applying, Busy
<1>9. OwnInv'
  BY <1>0, StepOwn DEF Writers, Applying
<1> QED
  BY <1>0, <1>6, <1>7, <1>8, <1>9, Assemble

(* A run that ended knows nothing any more. *)
LEMMA QuitFacts ==
  ASSUME ShapeInv, NEW i \in Runs, Quit(i)
  PROVE  /\ pc' \in [Runs -> {"idle", "plan", "done"} \cup Applying]
         /\ req' \in [Runs -> Commands \cup {NoRequest}]
         /\ todo' \in [Runs -> SUBSET Targets]
         /\ plan' \in [Runs -> [Targets -> Plans \cup {NoPlan}]]
         /\ cur' \in [Runs -> Targets \cup {None}]
         /\ mine' \in [Runs -> [Targets -> Records \cup {None}]]
         /\ changed' \in [Runs -> BOOLEAN]
         /\ raced' \in [Runs -> BOOLEAN]
         /\ stamp' = stamp /\ pc'[i] = "done" /\ pc'[i] \notin Applying
         /\ RunInv(i)' /\ PlanInv(i)' /\ FileInv(i)'
         /\ \A j \in Runs \ {i} : raced'[j] = raced[j]
<1>1. /\ req' \in [Runs -> Commands \cup {NoRequest}]
      /\ todo' \in [Runs -> SUBSET Targets]
      /\ plan' \in [Runs -> [Targets -> Plans \cup {NoPlan}]]
      /\ cur' \in [Runs -> Targets \cup {None}]
      /\ mine' \in [Runs -> [Targets -> Records \cup {None}]]
      /\ changed' \in [Runs -> BOOLEAN]
      /\ raced' \in [Runs -> BOOLEAN]
  BY DEF ShapeInv, Quit
<1>2. /\ pc' \in [Runs -> {"idle", "plan", "done"} \cup Applying]
      /\ stamp' = stamp /\ pc'[i] = "done" /\ pc'[i] \notin Applying
      /\ \A j \in Runs \ {i} : raced'[j] = raced[j]
  BY DEF ShapeInv, Quit, Goto, Applying
<1>3. \A t \in Targets : plan'[i][t] = NoPlan
  BY DEF ShapeInv, Quit
<1>4. RunInv(i)' /\ PlanInv(i)' /\ FileInv(i)'
  BY <1>2, <1>3 DEF RunInv, PlanInv, FileInv, Busy, NoPlan, Applying
<1> QED
  BY <1>1, <1>2, <1>4

(* Confirm: a run that begins to write knows the state file as it is, and  *)
(* shares the name of its backups at most with runs of the same second.    *)
LEMMA ConfirmKeeps ==
  ASSUME IInv, NEW i \in Runs, Confirm(i)
  PROVE  IInv'
<1>0. /\ Step(i) /\ pc[i] = "plan"
      /\ UNCHANGED <<config, state, disturbed>> /\ UNCHANGED <<config, state, backup, disturbed>>
  BY DEF Confirm, Step
<1>1. ShapeInv /\ RunInv(i) /\ PlanInv(i)
  BY RunFacts
<1>2. CASE Quit(i) /\ UNCHANGED clock
  <2>1. ShapeInv'
    BY <1>0, <1>1, <1>2, QuitFacts DEF ShapeInv
  <2>2. OwnInv'
    BY <1>0, <1>1, <1>2, QuitFacts, StepOwn DEF Writers, Applying
  <2> QED
    BY <1>0, <1>1, <1>2, <2>1, <2>2, QuitFacts, Assemble
<1>3. CASE /\ Goto(i, "write")
           /\ mine' = [mine EXCEPT ![i] = state]
           /\ clock' \in {clock, clock + 1} \cap 0..MaxClock
           /\ stamp' = [stamp EXCEPT ![i] = clock']
           /\ todo' = [todo EXCEPT ![i] = {t \in Targets : plan[i][t].kind # "none"}]
           /\ UNCHANGED <<req, plan, cur, changed, raced>>
  <2>1. clock' \in 0..MaxClock
    BY <1>3
  <2>2. ShapeInv'
    BY <1>0, <1>1, <1>3, <2>1 DEF ShapeInv, Goto, Applying
  <2>3. /\ pc'[i] = "write" /\ mine'[i] = state /\ stamp'[i] = clock' /\ req' = req
        /\ plan' = plan /\ raced' = raced
        /\ todo'[i] = {t \in Targets : plan[i][t].kind # "none"}
    BY <1>1, <1>3 DEF ShapeInv, Goto
  <2>4. RunInv(i)' /\ PlanInv(i)' /\ FileInv(i)'
    BY <1>0, <1>1, <2>1, <2>3 DEF RunInv, PlanInv, FileInv, Applying, Busy
  <2>5. OwnInv'
    <3>1. \A t \in Targets : View(i, t)' = state[t]
      BY <2>3 DEF View
    <3> QED
      BY <1>0, <3>1, StepOwn DEF Writers, Applying
  <2>6. ASSUME NEW j \in Runs \ {i} PROVE RunInv(j)' /\ PlanInv(j)' /\ FileInv(j)'
    <3>1. Same(j) /\ RunInv(j) /\ PlanInv(j) /\ FileInv(j)
      BY <1>0, <1>1, OthersSame, RunFacts
    <3>2. stamp[i] = None
      BY <1>0, <1>1 DEF RunInv
    <3>3. ASSUME pc[j] \in {"final", "rename"}, Alone(j)' PROVE Alone(j)
      <4>1. stamp[j] \in 0..MaxClock
        BY <3>1, <3>3 DEF RunInv, Applying
      <4>2. stamp[j] # stamp[i]
        BY <3>2, <4>1, InstallerAssumption
      <4>3. ASSUME NEW k \in Runs \ {i} PROVE stamp'[k] = stamp[k]
        BY <1>0, <1>1, <4>3, OthersSame DEF Same
      <4> QED
        BY <3>3, <4>2, <4>3 DEF Alone
    <3> QED
      BY <1>0, <2>3, <3>1, <3>3, SameKnown, SameFile
  <2>7. ASSUME NEW j \in Runs PROVE RunInv(j)' /\ PlanInv(j)' /\ FileInv(j)'
    BY <2>4, <2>6
  <2> QED
    BY <2>2, <2>5, <2>7 DEF IInv
<1> QED
  BY <1>2, <1>3 DEF Confirm

--------------------------------------------------------------------------------
(* A target that fails: the run goes on with the others. *)
LEMMA FailFacts ==
  ASSUME ShapeInv, NEW i \in Runs, RunInv(i), NEW t, pc[i] \in Applying, Fail(i, t),
         UNCHANGED <<req, plan, stamp>>
  PROVE  /\ pc' \in [Runs -> {"idle", "plan", "done"} \cup Applying]
         /\ todo' \in [Runs -> SUBSET Targets]
         /\ cur' \in [Runs -> Targets \cup {None}]
         /\ pc'[i] = "write" /\ RunInv(i)' /\ FileInv(i)'
<1>1. /\ pc' \in [Runs -> {"idle", "plan", "done"} \cup Applying]
      /\ todo' \in [Runs -> SUBSET Targets]
      /\ cur' \in [Runs -> Targets \cup {None}]
      /\ pc'[i] = "write" /\ todo'[i] = todo[i] \ {t}
  BY DEF ShapeInv, Fail, Goto, Applying
<1>2. RunInv(i)' /\ FileInv(i)'
  BY <1>1 DEF RunInv, FileInv, Applying, Busy
<1> QED
  BY <1>1, <1>2

(* Check: the copy set aside is the config planned for. *)
LEMMA CheckKeeps ==
  ASSUME IInv, NEW i \in Runs, Check(i)
  PROVE  IInv'
<1>0. /\ Step(i) /\ pc[i] = "write" /\ pc[i] \in Applying
      /\ UNCHANGED <<config, state, clock, req, plan, mine, changed, stamp, raced, disturbed>>
  BY DEF Check, Step, history, Applying
<1>1. ShapeInv /\ RunInv(i) /\ PlanInv(i) /\ FileInv(i)
  BY RunFacts
<1>2. PICK t \in todo[i] :
        \/ /\ config[t] = plan[i][t].before
           /\ backup' = IF config[t].exists THEN [backup EXCEPT ![t][stamp[i]] = config[t]] ELSE backup
           /\ cur' = [cur EXCEPT ![i] = t]
           /\ Goto(i, "final")
           /\ UNCHANGED todo
        \/ config[t] # plan[i][t].before /\ Fail(i, t) /\ UNCHANGED backup
  BY DEF Check
<1>3. PlanInv(i)'
  BY <1>0, <1>1 DEF PlanInv
<1>4. ASSUME pc'[i] \in {"final", "write"} PROVE OwnInv'
  <2>1. \A u \in Targets : View(i, u)' = View(i, u)
    BY <1>0, <1>4 DEF View
  <2> QED
    BY <1>0, <1>4, <2>1, StepOwn DEF Writers, Applying
<1>5. CASE Fail(i, t) /\ UNCHANGED backup
  <2>1. /\ pc'[i] = "write" /\ RunInv(i)' /\ FileInv(i)'
        /\ pc' \in [Runs -> {"idle", "plan", "done"} \cup Applying]
        /\ todo' \in [Runs -> SUBSET Targets]
        /\ cur' \in [Runs -> Targets \cup {None}]
    BY <1>0, <1>1, <1>5, FailFacts
  <2>2. ShapeInv'
    BY <1>0, <1>1, <1>5, <2>1 DEF ShapeInv
  <2> QED
    BY <1>0, <1>3, <1>4, <1>5, <2>1, <2>2, Assemble
<1>6. CASE /\ config[t] = plan[i][t].before
           /\ backup' = IF config[t].exists THEN [backup EXCEPT ![t][stamp[i]] = config[t]] ELSE backup
           /\ cur' = [cur EXCEPT ![i] = t]
           /\ Goto(i, "final")
           /\ UNCHANGED todo
  <2>1. t \in Targets /\ stamp[i] \in 0..MaxClock /\ config[t] \in Files
    BY <1>0, <1>1, <1>2 DEF ShapeInv, RunInv, Applying
  <2>2. pc'[i] = "final" /\ cur'[i] = t
    BY <1>1, <1>6 DEF ShapeInv, Goto
  <2>3. backup \in [Targets -> [0..MaxClock -> Files \cup {None}]]
    BY <1>1 DEF ShapeInv
  <2>4. /\ backup' \in [Targets -> [0..MaxClock -> Files \cup {None}]]
        /\ config[t].exists => backup'[t][stamp[i]] = config[t]
        /\ \A u \in Targets, s \in 0..MaxClock : s # stamp[i] => backup'[u][s] = backup[u][s]
    <3>1. CASE config[t].exists
      BY <1>6, <2>1, <2>3, <3>1
    <3>2. CASE ~config[t].exists
      BY <1>6, <2>3, <3>2
    <3> QED
      BY <3>1, <3>2
  <2>5. ShapeInv'
    BY <1>0, <1>1, <1>6, <2>1, <2>4 DEF ShapeInv, Goto, Applying
  <2>6. RunInv(i)' /\ FileInv(i)'
    BY <1>0, <1>1, <1>2, <1>6, <2>2, <2>4 DEF RunInv, FileInv, Applying, Busy
  <2>7. ASSUME NEW j \in Runs \ {i} PROVE RunInv(j)' /\ PlanInv(j)' /\ FileInv(j)'
    <3>1. Same(j) /\ RunInv(j) /\ PlanInv(j) /\ FileInv(j)
      BY <1>0, <1>1, OthersSame, RunFacts
    <3>2. ASSUME pc[j] \in {"final", "rename"}, Alone(j)'
          PROVE  Alone(j) /\ backup'[cur[j]][stamp[j]] = backup[cur[j]][stamp[j]]
      <4>1. Alone(j)
        BY <1>0, <3>2, AloneKept
      <4>2. stamp[j] \in 0..MaxClock /\ stamp[j] # stamp[i] /\ cur[j] \in Targets
        BY <1>1, <3>1, <3>2, <4>1 DEF RunInv, Applying, Busy, Alone, ShapeInv
      <4> QED
        BY <2>4, <4>1, <4>2
    <3> QED
      BY <1>0, <3>1, <3>2, SameKnown, SameFile
  <2>8. ASSUME NEW j \in Runs PROVE RunInv(j)' /\ PlanInv(j)' /\ FileInv(j)'
    BY <1>3, <2>6, <2>7
  <2> QED
    BY <1>4, <2>2, <2>5, <2>8 DEF IInv
<1> QED
  BY <1>2, <1>5, <1>6

(* Final: the config was still the one planned for. *)
LEMMA FinalKeeps ==
  ASSUME IInv, NEW i \in Runs, Final(i)
  PROVE  IInv'
<1>0. /\ Step(i) /\ pc[i] = "final" /\ pc[i] \in Applying
      /\ UNCHANGED <<config, state, backup, clock, req, plan, mine, changed, stamp, raced, disturbed>>
  BY DEF Final, Step, history, disk, Applying
<1>1. ShapeInv /\ RunInv(i) /\ PlanInv(i) /\ FileInv(i)
  BY RunFacts
<1>2. PlanInv(i)'
  BY <1>0, <1>1 DEF PlanInv
<1>3. ASSUME pc'[i] \in {"rename", "write"} PROVE OwnInv'
  <2>1. \A u \in Targets : View(i, u)' = View(i, u)
    BY <1>0, <1>3 DEF View
  <2> QED
    BY <1>0, <1>3, <2>1, StepOwn DEF Writers, Applying
<1>4. CASE Fail(i, cur[i])
  <2>1. /\ pc'[i] = "write" /\ RunInv(i)' /\ FileInv(i)'
        /\ pc' \in [Runs -> {"idle", "plan", "done"} \cup Applying]
        /\ todo' \in [Runs -> SUBSET Targets]
        /\ cur' \in [Runs -> Targets \cup {None}]
    BY <1>0, <1>1, <1>4, FailFacts
  <2>2. ShapeInv'
    BY <1>0, <1>1, <2>1 DEF ShapeInv
  <2> QED
    BY <1>0, <1>2, <1>3, <2>1, <2>2, Assemble
<1>5. CASE /\ config[cur[i]] = plan[i][cur[i]].before
           /\ Goto(i, "rename")
           /\ UNCHANGED <<todo, cur>>
  <2>1. ShapeInv' /\ pc'[i] = "rename"
    BY <1>0, <1>1, <1>5 DEF ShapeInv, Goto, Applying
  <2>2. RunInv(i)'
    BY <1>0, <1>1, <1>5, <2>1 DEF RunInv, Applying, Busy
  <2>3. FileInv(i)'
    BY <1>0, <1>1, <1>5, <2>1, AloneKept DEF FileInv
  <2> QED
    BY <1>0, <1>2, <1>3, <2>1, <2>2, <2>3, Assemble
<1> QED
  BY <1>4, <1>5 DEF Final

(* What a run writes next is planned and allowed. *)
LEMMA BusyFacts ==
  ASSUME IInv, NEW i \in Runs, pc[i] \in Busy
  PROVE  /\ cur[i] \in Targets /\ cur[i] \in todo[i]
         /\ plan[i][cur[i]] \in Plans /\ Sound(req[i], plan[i][cur[i]])
<1>1. ShapeInv /\ RunInv(i) /\ PlanInv(i)
  BY RunFacts
<1>2. cur[i] \in todo[i] /\ cur[i] \in Targets
  BY <1>1 DEF RunInv, ShapeInv
<1>3. plan[i][cur[i]].kind # "none"
  BY <1>1, <1>2 DEF RunInv, Applying, Busy
<1>4. plan[i][cur[i]] \in Plans
  BY <1>1, <1>2, <1>3 DEF ShapeInv, NoPlan
<1> QED
  BY <1>1, <1>2, <1>3, <1>4 DEF PlanInv

(* Rename: whoever else was about to write that config is raced, and what  *)
(* is written is in this run's memory.                                     *)
LEMMA RenameKeeps ==
  ASSUME IInv, NEW i \in Runs, Rename(i)
  PROVE  IInv'
<1> DEFINE t == cur[i]
           p == plan[i][t]
<1>0. /\ Step(i) /\ pc[i] = "rename" /\ pc[i] \in Applying /\ pc[i] \in Busy
      /\ UNCHANGED <<state, backup, clock, req, plan, mine, stamp>>
      /\ config' = [config EXCEPT ![t] = [exists |-> TRUE, entry |-> p.after, rest |-> p.before.rest]]
      /\ raced' = [j \in Runs |-> j # i /\ (raced[j] \/ (pc[j] = "rename" /\ cur[j] = t))]
  BY DEF Rename, Step, Applying, Busy
<1>1. ShapeInv /\ RunInv(i) /\ PlanInv(i) /\ FileInv(i)
  BY RunFacts
<1>2. t \in Targets /\ t \in todo[i] /\ p \in Plans /\ Sound(req[i], p)
  BY <1>0, BusyFacts
<1>3. /\ config' \in [Targets -> Files] /\ config'[t].entry = p.after
      /\ \A u \in Targets : u # t => config'[u] = config[u]
  BY <1>0, <1>1, <1>2 DEF ShapeInv, Files, Plans
<1>4. raced' \in [Runs -> BOOLEAN]
  BY <1>0, <1>1 DEF ShapeInv
<1> HIDE DEF t, p
<1>5. PlanInv(i)'
  BY <1>0, <1>1 DEF PlanInv
<1>6. ASSUME NEW j \in Runs \ {i} PROVE RunInv(j)' /\ PlanInv(j)' /\ FileInv(j)'
  <2>1. Same(j) /\ RunInv(j) /\ PlanInv(j) /\ FileInv(j)
    BY <1>0, <1>1, OthersSame, RunFacts
  <2>2. ASSUME pc[j] = "rename", ~raced'[j]
        PROVE  ~raced[j] /\ config'[cur[j]] = config[cur[j]]
    <3>1. ~raced[j] /\ cur[j] # t
      BY <1>0, <2>2
    <3>2. cur[j] \in Targets
      BY <2>2, BusyFacts DEF Busy
    <3> QED
      BY <1>3, <3>1, <3>2
  <2>3. Alone(j)' <=> Alone(j)
    BY <1>0, AloneKept
  <2> QED
    BY <1>0, <2>1, <2>2, <2>3, SameKnown, SameFile
<1>7. CASE /\ changed' = [changed EXCEPT ![i] = TRUE]
           /\ Goto(i, "verify")
           /\ UNCHANGED <<todo, cur, disturbed>>
  <2>1. ShapeInv' /\ pc'[i] = "verify" /\ changed'[i] = TRUE
    BY <1>0, <1>1, <1>3, <1>4, <1>7 DEF ShapeInv, Goto, Applying
  <2>2. RunInv(i)' /\ FileInv(i)'
    BY <1>0, <1>1, <1>2, <1>7, <2>1 DEF RunInv, FileInv, Applying, Busy, t
  <2>3. ASSUME NEW u \in Targets, ~disturbed, Ours(config'[u].entry) PROVE Accounted(u)'
    <3>1. i \in Writers'
      BY <2>1 DEF Writers, Applying
    <3>2. CASE u = t
      <4>1. View(i, u)' = Hash(config'[u].entry)
        BY <1>0, <1>3, <1>7, <2>1, <2>3, <3>2 DEF View, HashOf, Ours, t, p
      <4> QED
        BY <3>1, <4>1 DEF Accounted, Hash
    <3>3. CASE u # t
      <4>1. config'[u] = config[u] /\ Accounted(u)
        BY <1>3, <2>3, <3>3 DEF IInv, OwnInv
      <4>2. View(i, u)' = View(i, u)
        BY <1>0, <1>7, <2>1, <3>3 DEF View, t
      <4>3. ASSUME NEW j \in Runs \ {i}
            PROVE  View(j, u)' = View(j, u) /\ pc'[j] = pc[j] /\ changed'[j] = changed[j]
        BY <1>0, <1>1, OthersSame, ViewsKept DEF Same
      <4>4. CASE \E j \in Writers : View(j, u) = Hash(config[u].entry)
        <5>1. PICK j \in Writers : View(j, u) = Hash(config[u].entry)
          BY <4>4
        <5>2. j \in Writers' /\ View(j, u)' = Hash(config'[u].entry)
          BY <3>1, <4>1, <4>2, <4>3, <5>1 DEF Writers
        <5> QED
          BY <5>2 DEF Accounted, Hash
      <4>5. CASE /\ state[u] = Hash(config[u].entry)
                 /\ \A j \in Runs : pc[j] \in Applying => View(j, u) = state[u]
        <5>1. \A j \in Runs : pc'[j] \in Applying => View(j, u)' = state[u]
          BY <1>0, <4>2, <4>3, <4>5
        <5> QED
          BY <1>0, <4>1, <4>5, <5>1 DEF Accounted, Hash
      <4> QED
        BY <4>1, <4>4, <4>5 DEF Accounted
    <3> QED
      BY <3>2, <3>3
  <2>4. OwnInv'
    BY <1>7, <2>3 DEF OwnInv, Ours
  <2>5. ASSUME NEW j \in Runs PROVE RunInv(j)' /\ PlanInv(j)' /\ FileInv(j)'
    BY <1>5, <1>6, <2>2
  <2> QED
    BY <2>1, <2>4, <2>5 DEF IInv
<1>8. CASE Fail(i, t) /\ disturbed' = TRUE /\ UNCHANGED changed
  <2>1. /\ RunInv(i)' /\ FileInv(i)'
        /\ pc' \in [Runs -> {"idle", "plan", "done"} \cup Applying]
        /\ todo' \in [Runs -> SUBSET Targets]
        /\ cur' \in [Runs -> Targets \cup {None}]
    BY <1>0, <1>1, <1>8, FailFacts
  <2>2. ShapeInv'
    BY <1>0, <1>1, <1>3, <1>4, <1>8, <2>1 DEF ShapeInv
  <2>3. OwnInv'
    BY <1>8 DEF OwnInv
  <2>4. ASSUME NEW j \in Runs PROVE RunInv(j)' /\ PlanInv(j)' /\ FileInv(j)'
    BY <1>5, <1>6, <2>1
  <2> QED
    BY <2>2, <2>3, <2>4 DEF IInv
<1> QED
  BY <1>7, <1>8 DEF Rename, t

(* Verify: the record in memory is the one the run would have made. *)
LEMMA VerifyKeeps ==
  ASSUME IInv, NEW i \in Runs, Verify(i)
  PROVE  IInv'
<1> DEFINE t == cur[i]
           p == plan[i][t]
<1>0. /\ Step(i) /\ pc[i] = "verify" /\ pc[i] \in Applying /\ pc[i] \in Busy
      /\ UNCHANGED <<config, state, backup, clock, req, plan, changed, stamp, raced, disturbed>>
      /\ mine' = [mine EXCEPT ![i][t] = IF p.after = None THEN None ELSE Hash(p.after)]
      /\ todo' = [todo EXCEPT ![i] = @ \ {t}]
      /\ cur' = [cur EXCEPT ![i] = None]
      /\ Goto(i, "write")
  BY DEF Verify, Step, Applying, Busy, disk, history
<1>1. ShapeInv /\ RunInv(i) /\ PlanInv(i) /\ FileInv(i)
  BY RunFacts
<1>2. t \in Targets /\ t \in todo[i] /\ p \in Plans /\ Sound(req[i], p)
  BY <1>0, BusyFacts
<1>3. HashOf(p.after) \in Records \cup {None}
  <2>1. p.after \in Entries \cup {None} /\ (p.after = None \/ p.after.launch \in Versions)
    BY <1>2 DEF Plans, Sound
  <2> QED
    BY <2>1 DEF HashOf, Hash, Records
<1>4. mine' = [mine EXCEPT ![i][t] = HashOf(p.after)]
  BY <1>0 DEF HashOf
<1>5. mine \in [Runs -> [Targets -> Records \cup {None}]]
  BY <1>1 DEF ShapeInv
<1>6. /\ mine' \in [Runs -> [Targets -> Records \cup {None}]]
      /\ mine'[i][t] = HashOf(p.after)
      /\ \A u \in Targets : u # t => mine'[i][u] = mine[i][u]
  <2> HIDE DEF t, p
  <2> QED
    BY <1>2, <1>3, <1>4, <1>5
<1>7. pc'[i] = "write" /\ todo'[i] = todo[i] \ {t} /\ ShapeInv'
  BY <1>0, <1>1, <1>6 DEF ShapeInv, Goto, Applying
<1>8. RunInv(i)' /\ PlanInv(i)' /\ FileInv(i)'
  BY <1>0, <1>1, <1>7 DEF RunInv, PlanInv, FileInv, Applying, Busy
<1>9. OwnInv'
  <2>1. ASSUME NEW u \in Targets PROVE View(i, u)' = View(i, u)
    BY <1>0, <1>6, <1>7 DEF View
  <2> QED
    BY <1>0, <1>7, <2>1, StepOwn DEF Writers, Applying
<1> QED
  BY <1>0, <1>7, <1>8, <1>9, Assemble

--------------------------------------------------------------------------------
(* A run that wrote nothing takes nothing with it. *)
LEMMA QuitOwn ==
  ASSUME IInv, NEW i \in Runs, Step(i), Quit(i), ~changed[i],
         UNCHANGED <<config, state, disturbed>>
  PROVE  OwnInv'
<1>1. pc'[i] \notin Applying
  BY QuitFacts, RunFacts
<1> QED
  BY <1>1, StepOwn DEF Writers

(* Save: the state file becomes the run's memory, and nobody else is about *)
(* to replace it.                                                          *)
LEMMA SaveKeeps ==
  ASSUME IInv, NEW i \in Runs, Save(i)
  PROVE  IInv'
<1>0. /\ Step(i) /\ pc[i] = "write" /\ pc[i] \in Applying /\ Quit(i)
      /\ state' = IF changed[i] THEN mine[i] ELSE state
      /\ disturbed' = (disturbed \/ (changed[i] /\ \E j \in Runs \ {i} : pc[j] \in Applying))
      /\ UNCHANGED <<config, backup, clock>>
  BY DEF Save, Step, Applying
<1>1. ShapeInv /\ RunInv(i) /\ changed[i] \in BOOLEAN /\ disturbed \in BOOLEAN
  BY RunFacts DEF ShapeInv
<1>2. ShapeInv'
  <2>1. state' \in [Targets -> Records \cup {None}] /\ disturbed' \in BOOLEAN
    BY <1>0, <1>1 DEF ShapeInv
  <2> QED
    BY <1>0, <1>1, <2>1, QuitFacts DEF ShapeInv
<1>3. CASE ~changed[i]
  <2>1. OwnInv'
    BY <1>0, <1>1, <1>3, QuitOwn
  <2> QED
    BY <1>0, <1>1, <1>2, <2>1, QuitFacts, Assemble
<1>4. CASE changed[i]
  <2>1. ASSUME NEW t \in Targets, ~disturbed', Ours(config[t].entry) PROVE Accounted(t)'
    <3>1. ~disturbed /\ \A j \in Runs \ {i} : pc[j] \notin Applying
      BY <1>0, <1>4, <2>1
    <3>2. \A j \in Runs : pc'[j] \notin Applying
      BY <1>0, <1>1, <3>1, QuitFacts, OthersSame DEF Same
    <3>3. Accounted(t)
      BY <2>1, <3>1 DEF IInv, OwnInv
    <3>4. View(i, t) = Hash(config[t].entry)
      BY <1>0, <3>1, <3>3 DEF Accounted, Writers
    <3>5. state'[t] = Hash(config[t].entry)
      BY <1>0, <1>4, <3>4 DEF View
    <3> QED
      BY <1>0, <3>2, <3>5 DEF Accounted, Hash
  <2>2. OwnInv'
    BY <1>0, <2>1 DEF OwnInv
  <2> QED
    BY <1>0, <1>1, <1>2, <2>2, QuitFacts, Assemble
<1> QED
  BY <1>1, <1>3, <1>4

LEMMA DieKeeps ==
  ASSUME IInv, NEW i \in Runs, Die(i)
  PROVE  IInv'
<1>0. /\ Step(i) /\ Quit(i)
      /\ disturbed' = (disturbed \/ changed[i])
      /\ UNCHANGED <<config, state, backup, clock>>
  BY DEF Die, Step, disk
<1>1. ShapeInv /\ RunInv(i) /\ changed[i] \in BOOLEAN /\ disturbed \in BOOLEAN
  BY RunFacts DEF ShapeInv
<1>2. ShapeInv'
  BY <1>0, <1>1, QuitFacts DEF ShapeInv
<1>3. OwnInv'
  <2>1. CASE changed[i]
    BY <1>0, <2>1 DEF OwnInv
  <2>2. CASE ~changed[i]
    BY <1>0, <1>1, <2>2, QuitOwn
  <2> QED
    BY <1>1, <2>1, <2>2
<1> QED
  BY <1>0, <1>1, <1>2, <1>3, QuitFacts, Assemble

(* Edit: an editor's config is as it was, or nobody's to account for. *)
LEMMA EditKeeps ==
  ASSUME IInv, NEW t \in Targets, Edit(t)
  PROVE  IInv'
<1>1. PICK entry \in {config[t].entry, None, [launch |-> Foreign, key |-> NoKey]} :
        config' = [config EXCEPT ![t] = [exists |-> TRUE, entry |-> entry, rest |-> @.rest + 1]]
  BY DEF Edit
<1>2. /\ UNCHANGED <<state, backup, clock, disturbed>>
      /\ UNCHANGED <<pc, req, todo, plan, cur, mine, changed, stamp>>
      /\ raced' = [i \in Runs |-> raced[i] \/ (pc[i] = "rename" /\ cur[i] = t)]
  BY DEF Edit, run, Race
<1>3. ShapeInv
  BY DEF IInv
<1>4. config[t] \in Files /\ entry \in Entries \cup {None}
  BY <1>1, <1>3 DEF ShapeInv, Files, Entries
<1>5. /\ config' \in [Targets -> Files] /\ config'[t].entry = entry
      /\ \A u \in Targets : u # t => config'[u] = config[u]
  BY <1>1, <1>3, <1>4 DEF ShapeInv, Files
<1>6. raced' \in [Runs -> BOOLEAN]
  BY <1>2, <1>3 DEF ShapeInv
<1>7. ShapeInv'
  BY <1>2, <1>3, <1>5, <1>6 DEF ShapeInv
<1>8. ASSUME NEW u \in Targets, Ours(config'[u].entry) PROVE config'[u].entry = config[u].entry
  BY <1>1, <1>5, <1>8 DEF Ours
<1>9. OwnInv'
  <2> SUFFICES ASSUME ~disturbed, NEW u \in Targets, Ours(config'[u].entry) PROVE Accounted(u)'
    BY <1>2 DEF OwnInv, Ours
  <2>1. config'[u].entry = config[u].entry
    BY <1>8
  <2>2. Accounted(u)
    BY <2>1 DEF IInv, OwnInv
  <2> QED
    BY <1>2, <2>1, <2>2 DEF Accounted, Writers, View, Hash
<1>a. ASSUME NEW j \in Runs PROVE RunInv(j)' /\ PlanInv(j)' /\ FileInv(j)'
  <2>1. Same(j) /\ RunInv(j) /\ PlanInv(j) /\ FileInv(j)
    BY <1>2, RunFacts DEF Same
  <2>2. ASSUME pc[j] = "rename", ~raced'[j]
        PROVE  ~raced[j] /\ config'[cur[j]] = config[cur[j]]
    <3>1. ~raced[j] /\ cur[j] # t
      BY <1>2, <2>2
    <3>2. cur[j] \in Targets
      BY <2>2, BusyFacts DEF Busy
    <3> QED
      BY <1>5, <3>1, <3>2
  <2>3. Alone(j)' <=> Alone(j)
    BY <1>2, AloneKept
  <2> QED
    BY <1>2, <2>1, <2>2, <2>3, SameKnown, SameFile
<1> QED
  BY <1>7, <1>9, <1>a DEF IInv

--------------------------------------------------------------------------------
LEMMA StutterKeeps ==
  ASSUME IInv, UNCHANGED vars
  PROVE  IInv'
<1>1. /\ UNCHANGED <<config, state, backup, clock>>
      /\ UNCHANGED <<pc, req, todo, plan, cur, mine, changed, stamp>>
      /\ UNCHANGED <<raced, disturbed>>
  BY DEF vars, disk, run, history
<1>2. ShapeInv'
  BY <1>1 DEF IInv, ShapeInv
<1>a. OwnInv'
  <2>1. ASSUME NEW j \in Runs, NEW t \in Targets PROVE View(j, t)' = View(j, t)
    BY <1>1, ViewsKept DEF Same
  <2> QED
    BY <1>1, <2>1, OwnKept DEF IInv, Writers
<1>3. ASSUME NEW j \in Runs PROVE RunInv(j)' /\ PlanInv(j)' /\ FileInv(j)'
  BY <1>1, RunFacts DEF RunInv, PlanInv, FileInv, Alone, Sound
<1> QED
  BY <1>2, <1>a, <1>3 DEF IInv

LEMMA NextIInv == IInv /\ [Next]_vars => IInv'
<1> SUFFICES ASSUME IInv, [Next]_vars PROVE IInv'
  OBVIOUS
<1>1. ASSUME NEW i \in Runs, Step(i) PROVE IInv'
  BY <1>1, StartKeeps, PlanKeeps, ConfirmKeeps, CheckKeeps, FinalKeeps, RenameKeeps, VerifyKeeps,
     SaveKeeps, DieKeeps DEF Step
<1>2. ASSUME NEW t \in Targets, Edit(t) PROVE IInv'
  BY <1>2, EditKeeps
<1> QED
  BY <1>1, <1>2, StutterKeeps DEF Next

(* What the installers in flight know of the disk, in every state. *)
THEOREM Invariant == Spec => []IInv
BY InitIInv, NextIInv, PTL DEF Spec

(* With no run under way the record of an installer's entry is in the      *)
(* state file: nobody else holds it.                                       *)
LEMMA OwnedAtRest == IInv => OwnedUnlessDisturbed
<1> SUFFICES ASSUME IInv, ~disturbed, \A i \in Runs : pc[i] \in {"idle", "done"},
                    NEW t \in Targets, Ours(config[t].entry)
             PROVE  Owned(t, config[t].entry)
  BY DEF OwnedUnlessDisturbed, Ours
<1>1. Writers = {}
  BY DEF Writers, Applying
<1>2. Accounted(t)
  BY DEF IInv, OwnInv
<1> QED
  BY <1>1, <1>2 DEF Accounted, Owned, Ours

(* install/engine.py: an entry an installer wrote is recorded as its own   *)
(* once no run is under way, whatever the runs' order, failed handshakes,  *)
(* refused writes and edits in between.                                    *)
THEOREM OwnershipIsRecorded == Spec => []OwnedUnlessDisturbed
BY Invariant, OwnedAtRest, PTL

--------------------------------------------------------------------------------
(* Only a run's own rename takes it from "rename" to "verify" or "write".  *)
LEMMA OnlyRenameRenames ==
  ASSUME IInv, Next, NEW i \in Runs, Renames(i)
  PROVE  Rename(i)
<1>0. ShapeInv
  BY DEF IInv
<1>1. ASSUME NEW t \in Targets, Edit(t) PROVE FALSE
  BY <1>1 DEF Edit, run, Renames
<1>2. ASSUME NEW j \in Runs, Step(j), j # i PROVE FALSE
  <2>1. pc'[i] = pc[i]
    BY <1>0, <1>2, OthersSame DEF Same
  <2> QED
    BY <2>1 DEF Renames
<1>3. Step(i)
  BY <1>1, <1>2 DEF Next
<1>4. ~(Save(i) \/ Start(i) \/ Plan(i) \/ Confirm(i) \/ Check(i) \/ Final(i) \/ Verify(i))
  BY DEF Renames, Save, Start, Plan, Confirm, Check, Final, Verify
<1>5. ~Die(i)
  BY <1>0 DEF Renames, Die, Quit, Goto, ShapeInv
<1> QED
  BY <1>3, <1>4, <1>5 DEF Step

(* What a rename replaces when nobody raced it. *)
LEMMA RenameReplaces ==
  ASSUME IInv, Next, NEW i \in Runs, Renames(i), ~raced[i]
  PROVE  LET p == plan[i][cur[i]]
         IN  /\ config[cur[i]] = p.before /\ config'[cur[i]].entry = p.after
             /\ Sound(req[i], p)
             /\ p.before.exists /\ Alone(i) => backup[cur[i]][stamp[i]] = p.before
<1>1. Rename(i) /\ pc[i] = "rename"
  BY OnlyRenameRenames DEF Renames
<1>2. /\ cur[i] \in Targets /\ Sound(req[i], plan[i][cur[i]])
  BY <1>1, BusyFacts DEF Busy
<1>3. /\ config[cur[i]] = plan[i][cur[i]].before
      /\ plan[i][cur[i]].before.exists /\ Alone(i) =>
           backup[cur[i]][stamp[i]] = plan[i][cur[i]].before
  BY <1>1, RunFacts DEF FileInv
<1>4. config'[cur[i]].entry = plan[i][cur[i]].after
  BY <1>1, <1>2, RunFacts DEF Rename, ShapeInv
<1> QED
  BY <1>2, <1>3, <1>4

(* ADR-0033 and install/engine.py: however a run interleaves with others   *)
(* and with editors, its rename replaces no foreign entry without --force, *)
(* strips no stored key, and leaves the content it replaced in its backup. *)
THEOREM NothingIsLost == Spec => NothingLost
<1>1. IInv /\ [Next]_vars =>
        [\A i \in Runs : Renames(i) /\ ~raced[i] /\ ~req[i].force =>
           config[cur[i]].entry = None \/ config[cur[i]].entry.launch # Foreign]_vars
  <2> SUFFICES ASSUME IInv, Next, NEW i \in Runs, Renames(i), ~raced[i], ~req[i].force
               PROVE  config[cur[i]].entry = None \/ config[cur[i]].entry.launch # Foreign
    OBVIOUS
  <2> QED
    BY RenameReplaces DEF Sound
<1>2. IInv /\ [Next]_vars =>
        [\A i \in Runs : Renames(i) /\ ~raced[i] /\ ~req[i].force /\ ~req[i].remove
                                   /\ req[i].key = NoKey =>
           LET entry == config[cur[i]].entry
           IN  entry # None => config'[cur[i]].entry.key = entry.key]_vars
  <2> SUFFICES ASSUME IInv, Next, NEW i \in Runs, Renames(i), ~raced[i], ~req[i].force,
                      ~req[i].remove, req[i].key = NoKey, config[cur[i]].entry # None
               PROVE  config'[cur[i]].entry.key = config[cur[i]].entry.key
    OBVIOUS
  <2> QED
    BY RenameReplaces DEF Sound
<1>3. IInv /\ [Next]_vars =>
        [\A i \in Runs : Renames(i) /\ ~raced[i] /\ (\A j \in Runs \ {i} : stamp[j] # stamp[i])
                                   /\ config[cur[i]].exists =>
           backup[cur[i]][stamp[i]] = config[cur[i]]]_vars
  <2> SUFFICES ASSUME IInv, Next, NEW i \in Runs, Renames(i), ~raced[i],
                      \A j \in Runs \ {i} : stamp[j] # stamp[i], config[cur[i]].exists
               PROVE  backup[cur[i]][stamp[i]] = config[cur[i]]
    OBVIOUS
  <2> QED
    BY RenameReplaces DEF Alone
<1> QED
  BY <1>1, <1>2, <1>3, Invariant, PTL DEF NothingLost, ForeignKept, KeyKept, ReplacedIsBackedUp, Spec

--------------------------------------------------------------------------------
(* The hooks and the commands. *)

Procs == {"none", "running", "exited", "failed", "killed", "reaped"}

(* Where a process is, and its child and its client with it. *)
HookShape ==
  /\ job \in Jobs
  /\ git \in [proc : Procs, timer : {"armed", "off"}, printed : Int, read : Int]
  /\ stage \in {"start", "prepare", "judging", "closing", "decide", "arguments", "reading", "tool", "asking",
                "aclose", "report", "done"}
  /\ stage \in {"prepare", "judging", "closing", "decide"} => job.hook \in Judged
  /\ stage \in {"arguments", "reading"} => job.hook \in Ranged
  /\ stage \in {"tool", "asking", "aclose", "report"} => job.hook \in Ranged \cup {"judge"}

(* The child lives while it is read, the client while Jev is asked. *)
OwnedInv ==
  /\ stage # "reading" => git.proc \in {"none", "reaped"} /\ git.timer = "off"
  /\ client = "open" => stage \in {"judging", "closing", "asking", "aclose"}

(* A git that exited well has printed all it had. *)
DiffInv ==
  /\ stage = "reading" => job.git # "missing"
  /\ stage = "reading" /\ git.proc = "exited" => git.printed = job.total /\ job.git \notin {"fails", "hangs"}
  /\ stage = "tool" /\ job.hook = "range" => splits(Patches(job.changes))
  /\ JudgesWholeDiff

(* What has left, and what came back. *)
SentInv ==
  /\ stage \in {"start", "prepare"} => sent = {}
  /\ NothingSecretSent

(* Who is asked, and what for. *)
AskedInv ==
  /\ stage \in {"prepare", "judging", "closing", "decide"} /\ job.hook = "gate" => ~Evidence(job)
  /\ stage \in {"aclose", "report"} => Unanswered \/ answer \in Payloads(job.name)

HookInv == HookShape /\ OwnedInv /\ DiffInv /\ SentInv /\ AskedInv /\ NoUnearnedPass

(* The largest of a set that has one. *)
LEMMA LargestIsMax ==
  ASSUME NEW S, NEW m \in S, \A x \in S : m >= x
  PROVE  Max(S) \in S /\ \A x \in S : Max(S) >= x
BY DEF Max

(* Leading by the margin is leading everyone by it. *)
LEMMA MarginLeads ==
  ASSUME NEW a, NEW b, NEW c, a # b, NEW p, DOMAIN p = {a, b, c},
         \A k \in DOMAIN p : p[k] \in 0..100,
         NEW x \in DOMAIN p, \A k \in DOMAIN p : p[k] <= p[x],
         margin(p) >= 40
  PROVE  \A k \in DOMAIN p \ {x} : p[x] - p[k] >= 40
<1> DEFINE keys == DOMAIN p
           top == CHOOSE k \in keys : \A j \in keys : p[j] <= p[k]
           rest == {p[j] : j \in keys \ {top}}
<1>1. \A k \in keys : p[k] \in Int
  OBVIOUS
<1>2. top \in keys /\ \A j \in keys : p[j] <= p[top]
  OBVIOUS
<1>3. p[top] - Max(rest) >= 40
  BY DEF margin
<1>4. keys = {a, b, c}
  OBVIOUS
<1> HIDE DEF keys, top
<1>5. \E m \in rest : \A y \in rest : m >= y
  <2>1. PICK u, v \in keys : keys \ {top} = {u, v}
    <3>1. top = a \/ top = b \/ top = c
      BY <1>2, <1>4
    <3>2. CASE top = a
      BY <1>4, <3>2
    <3>3. CASE top = b
      BY <1>4, <3>3
    <3>4. CASE top = c
      BY <1>4, <3>4
    <3> QED
      BY <3>1, <3>2, <3>3, <3>4
  <2>2. rest = {p[u], p[v]}
    BY <2>1
  <2>3. p[u] \in Int /\ p[v] \in Int
    BY <1>1, <2>1
  <2> HIDE DEF rest
  <2>4. p[u] >= p[v] \/ p[v] >= p[u]
    BY <2>3
  <2> QED
    BY <2>2, <2>3, <2>4
<1>6. Max(rest) \in rest /\ \A y \in rest : Max(rest) >= y
  <2> HIDE DEF rest
  <2> QED
    BY <1>5, LargestIsMax
<1>7. Max(rest) \in Int
  BY <1>1, <1>6
<1>8. ASSUME NEW k \in keys, k # top PROVE p[top] - p[k] >= 40
  <2>1. p[k] \in rest
    BY <1>8
  <2> HIDE DEF rest
  <2> QED
    BY <1>1, <1>2, <1>3, <1>6, <1>7, <2>1
<1>9. x = top
  <2>1. SUFFICES ASSUME x # top PROVE FALSE
    OBVIOUS
  <2>2. x \in keys /\ p[top] <= p[x]
    BY <1>2 DEF keys
  <2>3. p[top] - p[x] >= 40
    BY <1>8, <2>1, <2>2
  <2> QED
    BY <1>1, <1>2, <2>2, <2>3
<1> QED
  BY <1>8, <1>9 DEF keys

(* A choice that is valid and over the floor is one that Jev stands behind. *)
LEMMA FloorIsSure ==
  ASSUME NEW a, NEW b, NEW c, a # b, NEW raw, NEW bad,
         validate_choice(raw, {a, b, c}).valid,
         confidence_floor(validate_choice(raw, {a, b, c})),
         validate_choice(raw, {a, b, c}).choice \notin bad
  PROVE  /\ raw.choice = validate_choice(raw, {a, b, c}).choice
         /\ raw.choice \in {a, b, c}
         /\ Sure(raw, bad)
<1> DEFINE p == raw.probabilities
           parsed == validate_choice(raw, {a, b, c})
<1>1. /\ Shaped(raw, {a, b, c}) /\ raw.choice \in {a, b, c} /\ Argmax(raw)
      /\ parsed = Choice(raw)
  BY DEF validate_choice, Invalid
<1>2. /\ parsed.choice = raw.choice /\ parsed.probabilities = p
      /\ parsed.confidence = confidence_of(raw)
  BY <1>1 DEF Choice
<1>3. /\ DOMAIN p = {a, b, c} /\ \A k \in DOMAIN p : p[k] \in 0..100
      /\ \A k \in DOMAIN p : p[k] <= p[raw.choice]
  BY <1>1 DEF Shaped, Argmax
<1> HIDE DEF parsed, p
<1>4. \/ confidence_of(raw) # Unknown /\ confidence_of(raw) >= 50
      \/ confidence_of(raw) = Unknown /\ margin(p) >= 40
  BY <1>2 DEF confidence_floor, Thresholds, parsed
<1>5. CASE confidence_of(raw) # Unknown /\ confidence_of(raw) >= 50
  <2>1. raw.confidence \in 50..100
    BY <1>5 DEF confidence_of, unit_interval
  <2> QED
    BY <1>1, <1>2, <1>3, <2>1 DEF Sure, p, parsed
<1>6. CASE confidence_of(raw) = Unknown /\ margin(p) >= 40
  <2>1. raw.confidence \notin 0..100
    BY <1>6 DEF confidence_of, unit_interval, Unknown
  <2>2. \A k \in DOMAIN p \ {raw.choice} : p[raw.choice] - p[k] >= 40
    BY <1>1, <1>3, <1>6, MarginLeads
  <2> QED
    BY <1>1, <1>2, <1>3, <2>1, <2>2 DEF Sure, p, parsed
<1> QED
  BY <1>4, <1>5, <1>6

(* A gate that says nothing on an answer has been told that all is well. *)
LEMMA SilenceIsCleared ==
  ASSUME job.hook = "gate", ~Evidence(job), ~Unanswered,
         render_decision(_outcome(job, answer)) = "none"
  PROVE  Cleared
<1>1. _outcome(job, answer) \in {"allow", "none"}
  BY DEF render_decision
<1>2. CASE Writes(job)
  <2>1. _questions(job) = {"secret_content"}
    BY <1>2 DEF _questions, Writes
  <2>2. _write_outcome(answer) \in {"allow", "none"}
    BY <1>1, <1>2 DEF _outcome
  <2>3. "secret_content" \in DOMAIN answer /\ answer.secret_content \in 0..69
    BY <2>2 DEF _write_outcome, validate_noul, unit_interval, Thresholds, Unknown
  <2> QED
    BY <2>1, <2>3 DEF Cleared
<1>3. CASE ~Writes(job) /\ job.tool = "Bash"
  <2>1. _questions(job) = {"effect", "destructive_intent"}
    BY <1>3 DEF _questions
  <2>2. _bash_outcome(answer) \in {"allow", "none"}
    BY <1>1, <1>3 DEF _outcome
  <2> DEFINE parsed == validate_choice(answer.effect, {"read_only", "reversible", "irreversible"})
  <2>3. /\ {"effect", "destructive_intent"} \subseteq DOMAIN answer
        /\ parsed.valid /\ confidence_floor(parsed) /\ parsed.choice # "irreversible"
        /\ answer.destructive_intent \in 0..69
    BY <2>2 DEF _bash_outcome, validate_noul, unit_interval, Thresholds, Unknown
  <2>4. /\ answer.effect.choice = parsed.choice
        /\ answer.effect.choice \in {"read_only", "reversible", "irreversible"}
        /\ Sure(answer.effect, {"irreversible"})
    <3>1. parsed.valid /\ confidence_floor(parsed) /\ parsed.choice \notin {"irreversible"}
      BY <2>3
    <3> QED
      BY <3>1, FloorIsSure
  <2> HIDE DEF parsed
  <2>5. Sure(answer.effect, {"irreversible", "deny"})
    BY <2>4 DEF Sure
  <2> QED
    BY <2>1, <2>3, <2>5 DEF Cleared
<1>4. CASE ~Writes(job) /\ job.tool # "Bash"
  <2>1. _questions(job) = {"question"}
    BY <1>4 DEF _questions
  <2>2. _generic_outcome(answer) \in {"allow", "none"}
    BY <1>1, <1>4 DEF _outcome
  <2> DEFINE parsed == validate_choice(answer.question, {"allow", "deny"})
  <2>3. /\ "question" \in DOMAIN answer
        /\ parsed.valid /\ confidence_floor(parsed) /\ parsed.choice # "deny"
    BY <2>2 DEF _generic_outcome
  <2>4. {"allow", "deny"} = {"allow", "deny", "deny"}
    OBVIOUS
  <2> DEFINE again == validate_choice(answer.question, {"allow", "deny", "deny"})
  <2>5. again = parsed
    BY <2>4
  <2>6. /\ answer.question.choice = again.choice
        /\ answer.question.choice \in {"allow", "deny", "deny"}
        /\ Sure(answer.question, {"deny"})
    <3>1. again.valid /\ confidence_floor(again) /\ again.choice \notin {"deny"}
      BY <2>3, <2>5
    <3> QED
      BY <3>1, FloorIsSure
  <2> HIDE DEF parsed, again
  <2>7. Sure(answer.question, {"irreversible", "deny"})
    BY <2>6 DEF Sure
  <2> QED
    BY <2>1, <2>3, <2>7 DEF Cleared
<1> QED
  BY <1>2, <1>3, <1>4

LEMMA ReportIsClean ==
  ASSUME NEW action, NEW clean \in BOOLEAN, ~Report(action, clean).unresolved
  PROVE  clean
<1>1. Report(action, clean).unresolved = ~clean
  BY DEF Report
<1> QED
  BY <1>1

(* A command that reports nothing unresolved read it off the reply. *)
LEMMA ResolvedIsClean ==
  ASSUME NEW tool \in Tools, NEW p \in ReplyFields(tool), ~_reported(tool, p).unresolved
  PROVE  /\ "rows" \in DOMAIN p => p.rows # {} /\ p.rows \cap {"review", "escalate", "error"} = {}
         /\ "action" \in DOMAIN p => p.action \in {"auto", "pass"}
<1>1. CASE tool \in {"jev_gate", "jev_gate_range", "jev_review", "jev_extract"}
  <2>1. p \in [action : STRING]
    BY <1>1 DEF ReplyFields
  <2>2. _reported(tool, p) = Report(p.action, p.action = "auto")
    BY <1>1 DEF _reported, _top_action
  <2>3. p.action = "auto"
    BY <2>2, ReportIsClean
  <2> QED
    BY <2>1, <2>3
<1>2. CASE tool = "jev_screen"
  <2>1. p \in [action : STRING]
    BY <1>2 DEF ReplyFields
  <2>2. _reported(tool, p) = Report(p.action, p.action = "pass")
    BY <1>2 DEF _reported, _screen_action
  <2>3. p.action = "pass"
    BY <2>2, ReportIsClean
  <2> QED
    BY <2>1, <2>3
<1>3. CASE tool \in {"jev_verify", "jev_classify"}
  <2>1. p \in [rows : SUBSET {"auto", "review", "escalate"}]
    BY <1>3 DEF ReplyFields
  <2>2. _reported(tool, p) = _row_action(p)
    BY <1>3 DEF _reported
  <2>3. caller_actions(p.rows) # {} /\ worst_action(caller_actions(p.rows)) = "auto"
    <3> DEFINE actions == caller_actions(p.rows)
    <3>1. \/ actions = {} /\ _reported(tool, p) = Report("none", FALSE)
          \/ actions # {} /\ _reported(tool, p) = Report(worst_action(actions), worst_action(actions) = "auto")
      BY <2>2 DEF _row_action
    <3> HIDE DEF actions
    <3> QED
      BY <3>1, ReportIsClean DEF actions
  <2>4. caller_actions(p.rows) = p.rows
    BY <2>1 DEF caller_actions
  <2>5. "review" \notin p.rows /\ "escalate" \notin p.rows
    BY <2>3, <2>4 DEF worst_action
  <2> QED
    BY <2>1, <2>3, <2>4, <2>5
<1>4. CASE tool = "jev_compare"
  <2>1. p \in [action : STRING]
    BY <1>4 DEF ReplyFields
  <2>2. \/ _reported(tool, p) = Report(p.action, p.action = "auto")
        \/ _reported(tool, p) = Report("none", FALSE)
    BY <1>4 DEF _reported, _compare_action
  <2>3. p.action = "auto"
    BY <2>2, ReportIsClean
  <2> QED
    BY <2>1, <2>3
<1>5. CASE tool \in {"jev_find", "jev_rerank", "jev_score", "jev_file_judge", "jev_ask"}
  BY <1>5 DEF ReplyFields
<1>6. CASE tool = "jev_files_judge"
  <2>1. p \in [rows : SUBSET {"ok", "error"}]
    BY <1>6 DEF ReplyFields
  <2>2. _reported(tool, p) = Report("none", p.rows = {"ok"})
    BY <1>6 DEF _reported, _files_clean
  <2>3. p.rows = {"ok"}
    BY <2>2, ReportIsClean
  <2> QED
    BY <2>1, <2>3
<1>7. CASE tool = "jev_decide"
  BY <1>7 DEF ReplyFields
<1> QED
  BY <1>1, <1>2, <1>3, <1>4, <1>5, <1>6, <1>7 DEF Tools

(* What leaves of an event holds nothing that its redactor matches. *)
LEMMA MaterialIsClean ==
  ASSUME job \in Jobs, job.hook \in Judged, sent' = Lines("event", Material(job)), job' = job
  PROVE  NothingSecretSent'
<1>1. \A l \in sent' : l[2] \in Material(job)
  BY DEF Lines
<1>2. CASE job.hook = "gate"
  <2>1. Material(job) = event_state(job)
    BY <1>2 DEF Material
  <2>2. Writes(job) => \A x \in event_state(job) : x \notin Literals
    BY DEF event_state, redact_credential_literals
  <2>3. ~Writes(job) => \A x \in event_state(job) : x \notin {"shell", "format", "double"}
    BY DEF event_state, redact_action
  <2>4. Writes(job)' = Writes(job)
    BY DEF Writes
  <2> QED
    BY <1>1, <1>2, <2>1, <2>2, <2>3, <2>4 DEF NothingSecretSent
<1>3. CASE job.hook = "screen"
  <2>1. Material(job) = redact_action(_output_text(job))
    BY <1>3 DEF Material
  <2>2. \A x \in Material(job) : x \notin {"shell", "format", "double"}
    BY <2>1 DEF redact_action
  <2> QED
    BY <1>1, <1>3, <2>2 DEF NothingSecretSent
<1>4. CASE job.hook = "compact"
  <2>1. Material(job) = build_state(job)
    BY <1>4 DEF Material
  <2>2. job.lines \in Seq([kind : STRING, id : STRING, text : SUBSET Kinds])
    BY <1>4, HooksAssumption
  <2>3. Turns(job) \subseteq DOMAIN job.lines
    <3>1. Len(job.lines) \in Nat /\ DOMAIN job.lines = 1..Len(job.lines)
      BY <2>2, LenProperties
    <3>2. read_tail(job.lines) \subseteq DOMAIN job.lines
      BY <3>1, HooksAssumption DEF read_tail
    <3> QED
      BY <3>2 DEF Turns, window, parse_turns
  <2>4. \A i \in DOMAIN job.lines : job.lines[i].text \subseteq Kinds
    <3> DEFINE Line == [kind : STRING, id : STRING, text : SUBSET Kinds]
    <3>1. \A l \in Line : l.text \subseteq Kinds
      OBVIOUS
    <3>2. job.lines \in Seq(Line)
      BY <2>2
    <3> HIDE DEF Line
    <3>3. \A i \in DOMAIN job.lines : job.lines[i] \in Line
      BY <3>2, ElementOfSeq, LenProperties
    <3> QED
      BY <3>1, <3>3
  <2>5. \A text \in SUBSET Kinds : _redacted(text) \subseteq {"plain", "missed"}
    BY DEF _redacted, redact_credential_literals, redact_action, Kinds, Literals
  <2>6. \A x \in build_state(job) : x \in {"plain", "missed"}
    BY <2>3, <2>4, <2>5 DEF build_state
  <2> QED
    BY <1>1, <1>4, <2>1, <2>6 DEF NothingSecretSent
<1> QED
  BY <1>2, <1>3, <1>4 DEF Judged

(* A patch goes by its own name when git does not quote it. *)
LEMMA NamedByItself ==
  ASSUME NEW path, NEW lines, NEW plus, path \notin DOMAIN Quoted,
         _path_from_header(Patch(path, lines, plus)) # "none"
  PROVE  _path_from_header(Patch(path, lines, plus)) = path
BY DEF _path_from_header, Patch

(* What leaves of a range holds no literal, and no secret store that goes  *)
(* by its own name.                                                        *)
LEMMA DiffIsClean ==
  ASSUME job.hook \in Ranged \cup {"judge"}, job.hook = "range" => splits(Patches(job.changes)),
         sent' = DiffLines(job), job' = job
  PROVE  NothingSecretSent'
<1>1. CASE job.hook = "range"
  <2>1. ASSUME NEW l \in sent'
        PROVE  l[2] \notin Literals /\ (l[1] \in SecretStores => l[1] \in DOMAIN Quoted)
    <3>1. PICK g \in _guarded(split_unified(Patches(job.changes))) : l \in g.lines
      BY <1>1 DEF DiffLines
    <3>2. PICK f \in split_unified(Patches(job.changes)) :
            /\ ~is_secret_store(f.name)
            /\ g = [f EXCEPT !.lines = {k \in @ : k[2] \in redact_credential_literals({k[2]})}]
      BY <3>1 DEF _guarded
    <3>3. PICK r \in Patches(job.changes) : f = [name |-> _path_from_header(r), lines |-> r.lines]
      BY <3>2 DEF split_unified
    <3>4. \E c \in job.changes : \E path \in {c.old, c.new} : r = Patch(path, Lines(path, c.text), c.plus)
      BY <3>3 DEF Patches
    <3>5. PICK c \in job.changes : \E path \in {c.old, c.new} : r = Patch(path, Lines(path, c.text), c.plus)
      BY <3>4
    <3>6. PICK path \in {c.old, c.new} : r = Patch(path, Lines(path, c.text), c.plus)
      BY <3>5
    <3>7. l \in r.lines /\ l[2] \in redact_credential_literals({l[2]})
      BY <3>1, <3>2, <3>3
    <3>8. l[1] = path
      BY <3>6, <3>7 DEF Lines, Patch
    <3>9. path \notin DOMAIN Quoted => f.name = path
      BY <1>1, <3>3, <3>6, NamedByItself DEF splits
    <3> QED
      BY <3>2, <3>7, <3>8, <3>9 DEF is_secret_store, redact_credential_literals
  <2> QED
    BY <1>1, <2>1 DEF NothingSecretSent
<1>2. CASE job.hook # "range"
  BY <1>2 DEF NothingSecretSent, Ranged
<1> QED
  BY <1>1, <1>2

--------------------------------------------------------------------------------
(* The steps. *)

LEMMA InitHookInv == HookInit => HookInv
BY DEF HookInit, HookInv, HookShape, OwnedInv, DiffInv, SentInv, AskedInv, NoUnearnedPass, NothingSecretSent,
       JudgesWholeDiff, NoGit, Procs, Ended

(* The reasons a process that ends with this result must have. *)
Earned(result) ==
  /\ job.hook = "gate" /\ result.exit = 0 /\ result.stdout = "none" => Cleared \/ (~job.required /\ sent = {})
  /\ job.hook = "completion" /\ result.exit = 0 /\ result.stdout = "none" => Passed \/ ~job.required
  /\ ~result.unresolved =>
       /\ ~Unanswered
       /\ "rows" \in DOMAIN answer => answer.rows # {} /\ answer.rows \cap {"review", "escalate", "error"} = {}
       /\ "action" \in DOMAIN answer => answer.action \in {"auto", "pass"}

(* The child is gone. *)
ChildGone ==
  /\ git' \in [proc : Procs, timer : {"armed", "off"}, printed : Int, read : Int]
  /\ git'.proc \in {"none", "reaped"} /\ git'.timer = "off"

LEMMA ExitKeeps ==
  ASSUME HookInv, NEW result, Exit(result), ChildGone, client # "open", Earned(result)
  PROVE  HookInv'
<1>1. /\ stage' = "done" /\ out' = result
      /\ job' = job /\ client' = client /\ answer' = answer /\ sent' = sent
  BY DEF Exit
<1>2. HookShape' /\ OwnedInv' /\ DiffInv' /\ AskedInv'
  BY <1>1 DEF HookInv, HookShape, OwnedInv, DiffInv, AskedInv, JudgesWholeDiff, ChildGone
<1>3. SentInv'
  BY <1>1 DEF HookInv, SentInv, NothingSecretSent
<1>4. Cleared' = Cleared /\ Passed' = Passed /\ Unanswered' = Unanswered
  BY <1>1 DEF Cleared, Passed, Unanswered
<1>5. NoUnearnedPass'
  BY <1>1, <1>4 DEF Earned, NoUnearnedPass
<1> QED
  BY <1>2, <1>3, <1>5 DEF HookInv

(* A process that says one word, or dies, has nothing resolved. *)
LEMMA SayFacts ==
  ASSUME NEW word
  PROVE  /\ [Silent EXCEPT !.stdout = word].exit = 0
         /\ [Silent EXCEPT !.stdout = word].stdout = word
         /\ [Silent EXCEPT !.stdout = word].unresolved
         /\ [Silent EXCEPT !.exit = word].exit = word
         /\ [Silent EXCEPT !.exit = word].unresolved
BY DEF Silent

LEMMA SayKeeps ==
  ASSUME HookInv, NEW word, Say(word), ChildGone, client # "open",
         word = "none" => /\ job.hook = "gate" => Cleared \/ (~job.required /\ sent = {})
                          /\ job.hook = "completion" => Passed \/ ~job.required
  PROVE  HookInv'
<1> DEFINE result == [Silent EXCEPT !.stdout = word]
<1>1. Exit(result)
  BY DEF Say
<1>2. result.stdout = word /\ result.unresolved
  BY SayFacts
<1> HIDE DEF result
<1>3. Earned(result)
  BY <1>2 DEF Earned
<1> QED
  BY <1>1, <1>3, ExitKeeps

LEMMA ExitWithKeeps ==
  ASSUME HookInv, NEW code, code # 0, ExitWith(code), ChildGone, client # "open"
  PROVE  HookInv'
<1> DEFINE result == [Silent EXCEPT !.exit = code]
<1>1. Exit(result)
  BY DEF ExitWith
<1>2. result.exit = code /\ result.unresolved
  BY SayFacts
<1> HIDE DEF result
<1>3. Earned(result)
  BY <1>2 DEF Earned
<1> QED
  BY <1>1, <1>3, ExitKeeps

(* A refusal reports nothing resolved; the completion hook is silent about *)
(* it when it is not required.                                             *)
LEMMA RefuseKeeps ==
  ASSUME HookInv, NEW code \in {"invalid_arguments", "input_too_large", "secret_file"}, Refuse(code), ChildGone, client # "open"
  PROVE  HookInv'
<1>1. CASE job.hook = "completion"
  <2>1. Say(_gate_failure(job, code))
    BY <1>1 DEF Refuse
  <2>2. _gate_failure(job, code) = "none" => ~job.required
    BY DEF _gate_failure, ReachedProvider, fail_open_or_ask
  <2> HIDE DEF HookInv
  <2> QED
    BY <1>1, <2>1, <2>2, SayKeeps
<1>2. CASE job.hook # "completion"
  <2> DEFINE r1 == _failure(2, code)
             r2 == [Silent EXCEPT !.stdout = "error", !.code = code]
  <2>1. Exit(r1) \/ Exit(r2)
    BY <1>2 DEF Refuse
  <2>2. r1.stdout # "none" /\ r1.unresolved /\ r2.stdout # "none" /\ r2.unresolved
    BY DEF _failure, Silent
  <2> HIDE DEF r1, r2
  <2>3. Earned(r1) /\ Earned(r2)
    BY <2>2 DEF Earned
  <2> QED
    BY <2>1, <2>3, ExitKeeps
<1> QED
  BY <1>1, <1>2

(* Outside the reading of a diff the child is gone, and the client is      *)
(* closed but while Jev is asked.                                          *)
LEMMA Rest ==
  ASSUME HookInv, stage # "reading", UNCHANGED git
  PROVE  /\ ChildGone
         /\ stage \notin {"judging", "closing", "asking", "aclose"} => client # "open"
BY DEF HookInv, HookShape, OwnedInv, ChildGone

(* From the start to the provider: the early ends. *)
LEMMA EarlyEndsKeep ==
  ASSUME HookInv, UNCHANGED git,
         \/ MainCrashes \/ Usage \/ BadStdin \/ DenyOnEvidence \/ AskTooLarge \/ ScreenAbstains \/ CompactAbstains
         \/ PrepareCrashes \/ PrepareFails
  PROVE  HookInv'
<1>1. stage \in {"start", "prepare"} /\ sent = {} /\ ChildGone /\ client # "open"
  <2>1. stage \in {"start", "prepare"}
    BY DEF MainCrashes, Usage, BadStdin, DenyOnEvidence, AskTooLarge, ScreenAbstains, CompactAbstains,
           PrepareCrashes, PrepareFails, Started, Ready
  <2> QED
    BY <2>1, Rest DEF HookInv, SentInv
<1>2. CASE MainCrashes
  BY <1>1, <1>2, ExitWithKeeps DEF MainCrashes
<1>3. CASE Usage
  BY <1>1, <1>3, ExitWithKeeps DEF Usage
<1>4. CASE BadStdin
  <2>1. CASE job.hook \in PreToolUse
    <3>1. Say(fail_open_or_ask(job))
      BY <1>4, <2>1 DEF BadStdin, PreToolUse
    <3>2. fail_open_or_ask(job) = "none" => ~job.required
      BY DEF fail_open_or_ask
    <3> QED
      BY <1>1, <3>1, <3>2, SayKeeps
  <2>2. CASE job.hook \notin PreToolUse /\ job.hook \in {"screen", "compact"}
    <3>1. Say("none")
      BY <1>4, <2>2 DEF BadStdin
    <3> QED
      BY <1>1, <2>2, <3>1, SayKeeps
  <2>3. CASE job.hook \notin PreToolUse /\ job.hook \notin {"screen", "compact"}
    <3> DEFINE r == _failure(2, "invalid_arguments")
    <3>1. Exit(r)
      BY <1>4, <2>3 DEF BadStdin
    <3>2. r.stdout # "none" /\ r.unresolved
      BY DEF _failure, Silent
    <3> HIDE DEF r
    <3>3. Earned(r)
      BY <3>2 DEF Earned
    <3> QED
      BY <1>1, <3>1, <3>3, ExitKeeps
  <2> QED
    BY <2>1, <2>2, <2>3
<1>5. CASE DenyOnEvidence
  BY <1>1, <1>5, SayKeeps DEF DenyOnEvidence
<1>6. CASE AskTooLarge
  <2>1. fail_open_or_ask(job) = "ask" /\ Say(fail_open_or_ask(job))
    BY <1>6 DEF AskTooLarge, TooLarge, fail_open_or_ask
  <2> QED
    BY <1>1, <2>1, SayKeeps
<1>7. CASE ScreenAbstains \/ CompactAbstains
  <2>1. Say("none") /\ job.hook \in {"screen", "compact"}
    BY <1>7 DEF ScreenAbstains, CompactAbstains, Ready, Started
  <2> QED
    BY <1>1, <2>1, SayKeeps
<1>8. CASE PrepareCrashes
  BY <1>1, <1>8, ExitWithKeeps DEF PrepareCrashes
<1>9. CASE PrepareFails
  <2>1. CASE job.hook = "gate"
    <3>1. Say(fail_open_or_ask(job))
      BY <1>9, <2>1 DEF PrepareFails
    <3>2. fail_open_or_ask(job) = "none" => ~job.required
      BY DEF fail_open_or_ask
    <3> QED
      BY <1>1, <2>1, <3>1, <3>2, SayKeeps
  <2>2. CASE job.hook # "gate"
    <3>1. Say("none") /\ job.hook \in {"screen", "compact"}
      BY <1>9, <2>2 DEF PrepareFails, HookInv, HookShape, Judged
    <3> QED
      BY <1>1, <3>1, SayKeeps
  <2> QED
    BY <2>1, <2>2
<1> QED
  BY <1>2, <1>3, <1>4, <1>5, <1>6, <1>7, <1>8, <1>9

(* Where a process goes on without ending or asking. *)
LEMMA MoveKeeps ==
  ASSUME HookInv, UNCHANGED git,
         \/ GatePlans \/ ScreenPlans \/ CompactPlans \/ CompletionGates \/ ReadArguments \/ JudgeRuns
  PROVE  HookInv'
<1>1. /\ stage = "start" /\ stage' \in {"prepare", "arguments", "tool"}
      /\ stage' = "prepare" => job.hook \in Judged /\ (job.hook = "gate" => ~Evidence(job))
      /\ stage' = "arguments" => job.hook \in Ranged
      /\ stage' = "tool" => job.hook = "judge"
      /\ UNCHANGED <<job, client, answer, sent, out>>
  <2>1. CASE GatePlans \/ ScreenPlans \/ CompactPlans
    BY <2>1 DEF GatePlans, ScreenPlans, CompactPlans, Ready, Started, Move, Judged
  <2>2. CASE CompletionGates \/ ReadArguments \/ JudgeRuns
    BY <2>2 DEF CompletionGates, RangeAsked, Completing, ReadArguments, JudgeRuns, Ready, Started, Move, Ranged
  <2> QED
    BY <2>1, <2>2
<1>2. HookShape' /\ OwnedInv'
  BY <1>1 DEF HookInv, HookShape, OwnedInv
<1>3. DiffInv'
  BY <1>1 DEF HookInv, DiffInv, JudgesWholeDiff, Ranged
<1>4. SentInv'
  BY <1>1 DEF HookInv, SentInv, NothingSecretSent
<1>5. AskedInv' /\ NoUnearnedPass'
  BY <1>1 DEF AskedInv, NoUnearnedPass, Ended
<1> QED
  BY <1>2, <1>3, <1>4, <1>5 DEF HookInv

(* hook_runtime: the question, its answer and the closed client. *)
LEMMA RuntimeKeeps ==
  ASSUME HookInv, UNCHANGED git, Prepare \/ _judge \/ CloseProvider
  PROVE  HookInv'
<1>1. /\ stage \in {"prepare", "judging", "closing"} /\ stage' \in {"judging", "closing", "decide"}
      /\ job' = job /\ out' = out /\ (stage' = "decide" => client' = "closed")
      /\ sent' = sent \/ Prepare
  BY DEF Prepare, _judge, Returns, CloseProvider
<1>2. job.hook \in Judged
  BY <1>1 DEF HookInv, HookShape
<1>3. HookShape' /\ OwnedInv'
  BY <1>1, <1>2 DEF HookInv, HookShape, OwnedInv
<1>4. DiffInv'
  BY <1>1 DEF DiffInv, JudgesWholeDiff
<1>5. SentInv'
  <2>1. CASE sent' = sent
    BY <1>1, <2>1 DEF HookInv, SentInv, NothingSecretSent
  <2>2. CASE Prepare
    <3>1. NothingSecretSent'
      BY <1>1, <1>2, <2>2, MaterialIsClean DEF Prepare, HookInv, HookShape
    <3> QED
      BY <1>1, <3>1 DEF SentInv
  <2> QED
    BY <1>1, <2>1, <2>2
<1>6. AskedInv' /\ NoUnearnedPass'
  BY <1>1 DEF HookInv, AskedInv, NoUnearnedPass, Ended
<1> QED
  BY <1>3, <1>4, <1>5, <1>6 DEF HookInv

(* The decisions of the hooks. *)
LEMMA DecidesKeep ==
  ASSUME HookInv, UNCHANGED git, GateDecides \/ ScreenAnnotates \/ CompactCuts \/ Interrupt
  PROVE  HookInv'
<1>1. stage \in {"decide", "report"} /\ ChildGone /\ client # "open"
  <2>1. stage \in {"decide", "report"}
    BY DEF GateDecides, ScreenAnnotates, CompactCuts, Interrupt
  <2> QED
    BY <2>1, Rest
<1>2. CASE GateDecides
  <2> DEFINE word == IF Unanswered THEN "ask" ELSE render_decision(_outcome(job, answer))
  <2>1. Say(word) /\ job.hook = "gate" /\ ~Evidence(job)
    BY <1>2 DEF GateDecides, HookInv, AskedInv
  <2>2. word = "none" => Cleared
    BY <2>1, SilenceIsCleared
  <2> HIDE DEF word
  <2> QED
    BY <1>1, <2>1, <2>2, SayKeeps
<1>3. CASE ScreenAnnotates
  <2>1. job.hook = "screen" /\ \E word : Say(word)
    BY <1>3 DEF ScreenAnnotates
  <2> QED
    BY <1>1, <2>1, SayKeeps
<1>4. CASE CompactCuts
  <2>1. job.hook = "compact" /\ \E word : Say(word)
    BY <1>4 DEF CompactCuts
  <2> QED
    BY <1>1, <2>1, SayKeeps
<1>5. CASE Interrupt
  BY <1>1, <1>5, ExitWithKeeps DEF Interrupt
<1> QED
  BY <1>2, <1>3, <1>4, <1>5

(* The completion hook and the commands before git runs. *)
LEMMA CommandEndsKeep ==
  ASSUME HookInv, UNCHANGED git,
         \/ CompletionAbstains \/ CompletionUnset \/ RangeCrashes \/ NothingToGate \/ JudgeUnknown
         \/ BadArguments \/ DiffNotRun
  PROVE  HookInv'
<1>1. stage \in {"start", "arguments"} /\ ChildGone /\ client # "open"
  <2>1. stage \in {"start", "arguments"}
    BY DEF CompletionAbstains, CompletionUnset, RangeCrashes, NothingToGate, RangeAsked, Completing, JudgeUnknown,
           BadArguments, DiffNotRun, GoodArguments, Ready, Started
  <2> QED
    BY <2>1, Rest
<1>2. CASE CompletionAbstains
  <2>1. Say("none") /\ job.hook = "completion" /\ Passed
    BY <1>2 DEF CompletionAbstains, Ready, Started, Passed
  <2> QED
    BY <1>1, <2>1, SayKeeps
<1>3. CASE CompletionUnset
  <2>1. Say(fail_open_or_ask(job)) /\ job.hook = "completion"
    BY <1>3 DEF CompletionUnset, Ready, Started
  <2>2. fail_open_or_ask(job) = "none" => ~job.required
    BY DEF fail_open_or_ask
  <2> QED
    BY <1>1, <2>1, <2>2, SayKeeps
<1>4. CASE RangeCrashes
  BY <1>1, <1>4, ExitWithKeeps DEF RangeCrashes
<1>5. CASE NothingToGate
  <2>1. Say("none") /\ job.hook = "completion" /\ Passed
    BY <1>5 DEF NothingToGate, RangeAsked, Completing, Ready, Started, Passed
  <2> QED
    BY <1>1, <2>1, SayKeeps
<1>6. CASE JudgeUnknown
  <2> DEFINE r == _failure(2, "invalid_arguments")
  <2>1. Exit(r)
    BY <1>6 DEF JudgeUnknown
  <2>2. r.stdout # "none" /\ r.unresolved
    BY DEF _failure, Silent
  <2> HIDE DEF r
  <2>3. Earned(r)
    BY <2>2 DEF Earned
  <2> QED
    BY <1>1, <2>1, <2>3, ExitKeeps
<1>7. CASE BadArguments \/ DiffNotRun
  <2>1. Refuse("invalid_arguments")
    BY <1>7 DEF BadArguments, DiffNotRun
  <2> QED
    BY <1>1, <2>1, RefuseKeeps
<1> QED
  BY <1>2, <1>3, <1>4, <1>5, <1>6, <1>7

(* git and its timer, and the bytes read. *)
LEMMA ReadingKeeps ==
  ASSUME HookInv, _bounded_diff \/ Git \/ Timer \/ ReadDiff
  PROVE  HookInv'
<1>1. /\ stage \in {"arguments", "reading"} /\ stage' = "reading"
      /\ UNCHANGED <<job, client, answer, sent, out>>
  BY DEF _bounded_diff, GoodArguments, Move, Git, Timer, ReadDiff, Elsewhere
<1>2. /\ git' \in [proc : Procs, timer : {"armed", "off"}, printed : Int, read : Int]
      /\ job.git # "missing"
      /\ git'.proc = "exited" => git'.printed = job.total /\ job.git \notin {"fails", "hangs"}
  <2>1. git \in [proc : Procs, timer : {"armed", "off"}, printed : Int, read : Int]
    BY DEF HookInv, HookShape
  <2>2. CASE _bounded_diff
    <3>1. git' = [proc |-> "running", timer |-> "armed", printed |-> 0, read |-> 0]
      BY <2>2 DEF _bounded_diff, Popen, NoGit
    <3>2. job.git # "missing"
      BY <2>2 DEF _bounded_diff
    <3> QED
      BY <3>1, <3>2 DEF Procs
  <2>3. ASSUME stage = "reading"
        PROVE  job.git # "missing" /\ (git.proc = "exited" => git.printed = job.total /\ job.git \notin {"fails", "hangs"})
    BY <2>3 DEF HookInv, DiffInv
  <2>4. CASE Git
    <3>1. stage = "reading"
      BY <2>4 DEF Git
    <3>2. CASE GitPrints(job.total)
      BY <2>1, <2>3, <3>1, <3>2 DEF GitPrints, Procs
    <3>3. CASE GitStalls
      BY <2>1, <2>3, <3>1, <3>3 DEF GitStalls
    <3>4. CASE job.git # "hangs" /\ GitExits(job.total, IF job.git = "fails" THEN "failed" ELSE "exited")
      BY <2>1, <2>3, <3>1, <3>4 DEF GitExits, Procs
    <3> QED
      BY <2>4, <3>2, <3>3, <3>4 DEF Git
  <2>5. CASE Timer
    BY <2>1, <2>3, <2>5 DEF Timer, TimerFires, Procs
  <2>6. CASE ReadDiff
    BY <2>1, <2>3, <2>6 DEF ReadDiff, ReadPipe
  <2> QED
    BY <2>2, <2>4, <2>5, <2>6
<1>3. HookShape' /\ OwnedInv'
  BY <1>1, <1>2 DEF HookInv, HookShape, OwnedInv
<1>4. DiffInv'
  BY <1>1, <1>2 DEF DiffInv, JudgesWholeDiff
<1>5. SentInv'
  BY <1>1 DEF HookInv, SentInv, NothingSecretSent
<1>6. AskedInv' /\ NoUnearnedPass'
  BY <1>1 DEF AskedInv, NoUnearnedPass, Ended
<1> QED
  BY <1>3, <1>4, <1>5, <1>6 DEF HookInv

(* The child is reaped on every way out of the reading. *)
LEMMA ReadEndsKeep ==
  ASSUME HookInv, OverBudget \/ DiffFails \/ DiffReady
  PROVE  HookInv'
<1>1. /\ stage = "reading" /\ client # "open"
      /\ git' = [git EXCEPT !.proc = "reaped", !.timer = "off"]
      /\ git \in [proc : Procs, timer : {"armed", "off"}, printed : Int, read : Int]
  BY DEF OverBudget, DiffFails, DiffReady, KillOverBudget, Reaped, HookInv, HookShape, OwnedInv
<1>2. ChildGone /\ git'.read = git.read
  BY <1>1 DEF ChildGone, Procs
<1>3. CASE OverBudget \/ DiffFails
  <2>1. \E code \in {"invalid_arguments", "input_too_large", "secret_file"} : Refuse(code)
    BY <1>3 DEF OverBudget, DiffFails
  <2> QED
    BY <1>1, <1>2, <2>1, RefuseKeeps
<1>4. CASE DiffReady
  <2>1. /\ stage' = "tool" /\ UNCHANGED <<job, client, answer, sent, out>>
        /\ git.proc = "exited" /\ git.read = git.printed
    BY <1>4 DEF DiffReady, Move, SucceededDiff, AtEof
  <2>2. job.hook \in Ranged /\ job \in Jobs
    BY <1>1 DEF HookInv, HookShape
  <2>3. git'.read = job.total /\ job.git = "ok"
    <3>1. job.git \in {"ok", "fails", "hangs", "missing"}
      BY <2>2, HooksAssumption DEF Ranged
    <3> QED
      BY <1>1, <1>2, <2>1, <3>1 DEF HookInv, DiffInv
  <2>4. HookShape' /\ OwnedInv'
    BY <1>1, <1>2, <2>1, <2>2 DEF HookInv, HookShape, OwnedInv, ChildGone
  <2>5. DiffInv'
    <3>1. job.hook = "range" => splits(Patches(job.changes))
      BY <1>4 DEF DiffReady, Unreadable
    <3> QED
      BY <2>1, <2>3, <3>1 DEF DiffInv, JudgesWholeDiff
  <2>6. SentInv'
    BY <2>1 DEF HookInv, SentInv, NothingSecretSent
  <2>7. AskedInv' /\ NoUnearnedPass'
    BY <2>1 DEF AskedInv, NoUnearnedPass, Ended
  <2> QED
    BY <2>4, <2>5, <2>6, <2>7 DEF HookInv
<1> QED
  BY <1>3, <1>4

(* The tool's call, and its end. *)
LEMMA ToolKeeps ==
  ASSUME HookInv, UNCHANGED git, ToolRefuses \/ ToolAsks \/ ToolReturns \/ _execute
  PROVE  HookInv'
<1>1. /\ stage \in {"tool", "asking", "aclose"} /\ stage' \in {"asking", "aclose", "report"}
      /\ job' = job /\ out' = out /\ (sent' = sent \/ ToolAsks)
      /\ stage' = "asking" => stage = "tool"
      /\ stage' = "report" => stage = "aclose" /\ answer' = answer /\ client' # "open"
  BY DEF ToolRefuses, ToolAsks, ToolReturns, _execute
<1>2. job.hook \in Ranged \cup {"judge"}
  BY <1>1 DEF HookInv, HookShape
<1>3. HookShape' /\ OwnedInv'
  BY <1>1, <1>2 DEF HookInv, HookShape, OwnedInv
<1>4. DiffInv'
  BY <1>1 DEF HookInv, DiffInv, JudgesWholeDiff
<1>5. SentInv'
  <2>1. CASE sent' = sent
    BY <1>1, <2>1 DEF HookInv, SentInv, NothingSecretSent
  <2>2. CASE ToolAsks
    <3>1. NothingSecretSent'
      BY <1>1, <1>2, <2>2, DiffIsClean DEF ToolAsks, HookInv, DiffInv
    <3> QED
      BY <1>1, <3>1 DEF SentInv
  <2> QED
    BY <1>1, <2>1, <2>2
<1>6. AskedInv'
  <2>1. CASE ToolRefuses
    BY <1>1, <2>1 DEF ToolRefuses, AskedInv, Unanswered, Failed
  <2>2. CASE ToolReturns
    BY <1>1, <2>2 DEF ToolReturns, AskedInv, Unanswered, Failed
  <2>3. CASE ToolAsks
    BY <1>1, <2>3 DEF ToolAsks, AskedInv
  <2>4. CASE _execute
    BY <1>1, <2>4 DEF _execute, HookInv, AskedInv, Unanswered
  <2> QED
    BY <2>1, <2>2, <2>3, <2>4
<1>7. NoUnearnedPass'
  BY <1>1 DEF NoUnearnedPass, Ended
<1> QED
  BY <1>3, <1>4, <1>5, <1>6, <1>7 DEF HookInv

(* What the commands report. *)
LEMMA ReportsKeep ==
  ASSUME HookInv, UNCHANGED git, CompletionReports \/ _run_tool \/ RangeReports
  PROVE  HookInv'
<1>1. stage = "report" /\ ChildGone /\ client # "open"
  <2>1. stage = "report"
    BY DEF CompletionReports, _run_tool, RangeReports
  <2> QED
    BY <2>1, Rest
<1>2. CASE CompletionReports
  <2> DEFINE word == IF Unanswered THEN _gate_failure(job, answer.failure)
                     ELSE IF answer.action = "auto" THEN "none" ELSE "ask"
  <2>1. Say(word) /\ job.hook = "completion"
    BY <1>2 DEF CompletionReports
  <2>2. word = "none" => Passed \/ ~job.required
    BY DEF _gate_failure, fail_open_or_ask, Passed
  <2> HIDE DEF word
  <2> QED
    BY <1>1, <2>1, <2>2, SayKeeps
<1>3. CASE _run_tool
  <2>1. job.hook \in {"gate_cli", "judge"}
    BY <1>3 DEF _run_tool
  <2>2. CASE Unanswered
    <3> DEFINE r == _failure(1, answer.failure)
    <3>1. Exit(r)
      BY <1>3, <2>2 DEF _run_tool
    <3>2. r.stdout # "none" /\ r.unresolved
      BY DEF _failure, Silent
    <3> HIDE DEF r
    <3>3. Earned(r)
      BY <3>2 DEF Earned
    <3> QED
      BY <1>1, <3>1, <3>3, ExitKeeps
  <2>3. CASE ~Unanswered
    <3> DEFINE r == _success(job.name, answer)
    <3>1. Exit(r)
      BY <1>3, <2>3 DEF _run_tool
    <3>2. r.stdout = "decision" /\ r.unresolved = _reported(job.name, answer).unresolved
      BY DEF _success, Silent
    <3>3. job.name \in Tools /\ answer \in ReplyFields(job.name)
      BY <1>1, <2>1, <2>3, HooksAssumption DEF HookInv, HookShape, AskedInv
    <3> HIDE DEF r
    <3>4. Earned(r)
      BY <2>3, <3>2, <3>3, ResolvedIsClean DEF Earned
    <3> QED
      BY <1>1, <3>1, <3>4, ExitKeeps
  <2> QED
    BY <2>2, <2>3
<1>4. CASE RangeReports
  <2> DEFINE r1 == [Silent EXCEPT !.stdout = "error", !.code = answer.failure]
             r2 == [Silent EXCEPT !.stdout = "decision", !.action = answer.action]
  <2>1. Exit(r1) \/ Exit(r2)
    BY <1>4 DEF RangeReports
  <2>2. r1.stdout # "none" /\ r1.unresolved /\ r2.stdout # "none" /\ r2.unresolved
    BY DEF Silent
  <2> HIDE DEF r1, r2
  <2>3. Earned(r1) /\ Earned(r2)
    BY <2>2 DEF Earned
  <2> QED
    BY <1>1, <2>1, <2>3, ExitKeeps
<1> QED
  BY <1>2, <1>3, <1>4

LEMMA NextHookInv ==
  ASSUME HookInv, [HookNext]_hookVars
  PROVE  HookInv'
<1>1. CASE UNCHANGED hookVars
  <2>1. UNCHANGED <<git, stage, job, client, answer, sent, out>>
    BY <1>1 DEF hookVars
  <2>2. Cleared' = Cleared /\ Passed' = Passed /\ Unanswered' = Unanswered
    BY <2>1 DEF Cleared, Passed, Unanswered
  <2>3. HookShape' /\ OwnedInv' /\ DiffInv' /\ AskedInv'
    BY <2>1, <2>2 DEF HookInv, HookShape, OwnedInv, DiffInv, AskedInv, JudgesWholeDiff
  <2>4. SentInv'
    BY <2>1 DEF HookInv, SentInv, NothingSecretSent
  <2>5. NoUnearnedPass'
    BY <2>1, <2>2 DEF HookInv, NoUnearnedPass, Ended
  <2> QED
    BY <2>3, <2>4, <2>5 DEF HookInv
<1>2. CASE Process
  BY <1>2, EarlyEndsKeep, MoveKeeps, RuntimeKeeps, DecidesKeep, CommandEndsKeep, ReadingKeeps, ReadEndsKeep,
     ToolKeeps, ReportsKeep DEF Process
<1>3. CASE Git \/ Timer
  BY <1>3, ReadingKeeps
<1> QED
  BY <1>1, <1>2, <1>3 DEF HookNext, Done, RangeHangs

(* The inductive invariant holds throughout: who owns the child and the    *)
(* client, what was read, what left and what came back.                    *)
THEOREM HookInvariant == HookSpec => []HookInv
BY InitHookInv, NextHookInv, PTL DEF HookSpec

(* hook.main, completion_hook_main, TOOL_DECISIONS: whatever the event, the *)
(* range, Jev's answer and the failures, silence and a clean report have a  *)
(* reason.                                                                  *)
THEOREM PassesAreEarned == HookSpec => []NoUnearnedPass
<1>1. HookInv => NoUnearnedPass
  BY DEF HookInv
<1> QED
  BY <1>1, HookInvariant, PTL

(* hook.event_state, hook_compact._redacted, gate_range._guarded and        *)
(* git_diff._bounded_diff: for any transcript, change and race of git with  *)
(* its timer, what leaves is whole and holds nothing that its redactor      *)
(* matches, and no store's patch that goes by the store's name.             *)
THEOREM SentIsHonest == HookSpec => []SentHonest
<1>1. HookInv => SentHonest
  BY DEF HookInv, SentInv, DiffInv, SentHonest
<1> QED
  BY <1>1, HookInvariant, PTL

(* hook_runtime._judge, cli._execute and the with block of                  *)
(* git_diff._bounded_diff: however a process ends, it leaves no client, no  *)
(* child and no timer.                                                      *)
THEOREM NothingIsLeftBehind == HookSpec => []NothingLeftBehind
<1>1. HookInv => NothingLeftBehind
  BY DEF HookInv, OwnedInv, NothingLeftBehind, Ended
<1> QED
  BY <1>1, HookInvariant, PTL
================================================================================
