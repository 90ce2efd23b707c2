------------------------------- MODULE Installer -------------------------------
(***************************************************************************)
(* `jev-judge-mcp install` (install/engine.py, install/fs.py): it plans    *)
(* one entry per agent config, asks, writes the configs one by one and     *)
(* then the state file that says which entries are its own.                *)
(*                                                                         *)
(* The agents and their users edit the same files at any time, several     *)
(* installers may run at once, and each may die between two system calls.  *)
(* A config is the entry under the server's name and everything else       *)
(* (`rest`, which every edit changes); an entry is the launch it names and *)
(* the literal key it stores, if any.  The exit code is left out: nothing  *)
(* a run does depends on it.                                               *)
(***************************************************************************)
EXTENDS Integers, FiniteSetsExt

CONSTANTS Runs,              \* invocations of the command
          Targets,
          Shared,            \* targets whose config a desktop app shares
          Versions,          \* the launches an installer may write
          Keys, NoKey,       \* literal API keys
          Commands,          \* the command lines users give
          Foreign,           \* the launch of an entry somebody else wrote
          None,              \* no entry, no record, no target
          MaxEdits, MaxClock \* bounds: edits, seconds

Entries == [launch : Versions \cup {Foreign}, key : Keys \cup {NoKey}]

Hashes == [launch : Versions \cup {Foreign}, literal : BOOLEAN]

ASSUME InstallerAssumption ==
  /\ MaxEdits \in Nat /\ MaxClock \in Nat /\ Shared \subseteq Targets
  /\ None \notin Targets /\ None \notin Nat /\ None \notin Entries /\ None \notin Hashes
  /\ NoKey \notin Keys /\ Foreign \notin Versions
  /\ Commands \subseteq [remove : BOOLEAN, force : BOOLEAN, launch : Versions, key : Keys \cup {NoKey}]

VARIABLES config, state, backup, clock,
          pc, req,
          todo,     \* the selected targets the current loop has left
          plan,     \* the _Action of each selected target
          cur,      \* the target being written
          mine,     \* _apply's copy of the state file's targets
          changed, stamp,
          \* history:
          raced,    \* the config changed between the last check and the rename
          disturbed \* a run died, was refused a chmod, or was overlapped by
                    \* another one before its state was saved

disk == <<config, state, backup, clock>>
run == <<pc, req, todo, plan, cur, mine, changed, stamp>>
history == <<raced, disturbed>>
vars == <<disk, run, history>>

(* entry_hash: of the redacted entry, so every literal key looks the same. *)
Hash(entry) == [launch |-> entry.launch, literal |-> entry.key # NoKey]

NoPlan == [kind |-> "none"]
NoRequest == [remove |-> FALSE]

Init ==
  /\ config = [t \in Targets |-> [exists |-> FALSE, entry |-> None, rest |-> 0]]
  /\ state = [t \in Targets |-> None]
  /\ backup = [t \in Targets |-> [s \in 0..MaxClock |-> None]]
  /\ clock = 0
  /\ pc = [i \in Runs |-> "idle"]
  /\ req = [i \in Runs |-> NoRequest]
  /\ todo = [i \in Runs |-> {}]
  /\ plan = [i \in Runs |-> [t \in Targets |-> NoPlan]]
  /\ cur = [i \in Runs |-> None]
  /\ mine = [i \in Runs |-> [t \in Targets |-> None]]
  /\ changed = [i \in Runs |-> FALSE]
  /\ stamp = [i \in Runs |-> None]
  /\ raced = [i \in Runs |-> FALSE]
  /\ disturbed = FALSE

Goto(i, label) == pc' = [pc EXCEPT ![i] = label]

(* The process is gone, and its memory with it; its backups stay. *)
Quit(i) ==
  /\ Goto(i, "done")
  /\ req' = [req EXCEPT ![i] = NoRequest]
  /\ todo' = [todo EXCEPT ![i] = {}]
  /\ plan' = [plan EXCEPT ![i] = [t \in Targets |-> NoPlan]]
  /\ cur' = [cur EXCEPT ![i] = None]
  /\ mine' = [mine EXCEPT ![i] = [t \in Targets |-> None]]
  /\ changed' = [changed EXCEPT ![i] = FALSE]
  /\ UNCHANGED stamp
  /\ raced' = [raced EXCEPT ![i] = FALSE]

--------------------------------------------------------------------------------
Owned(t, current) == current # None /\ state[t] = Hash(current)

(* _literal_key, _desired and with_preserved_literal: only a shared config *)
(* is given the key, and a run without one keeps what this installer       *)
(* stored.                                                                 *)
Desired(r, t, current) ==
  [launch |-> r.launch,
   key |-> IF t \in Shared /\ r.key # NoKey THEN r.key
           ELSE IF Owned(t, current) THEN current.key
           ELSE NoKey]

(* Fault: a record for the target is enough to own its entry. *)
ClassifyByRecord(r, t) ==
  LET current == config[t].entry
      desired == Desired(r, t, current)
  IN  CASE r.remove -> IF current # None /\ state[t] # None THEN "remove" ELSE "none"
        [] current = None -> "add"
        [] current = desired -> "none"
        [] OTHER -> IF state[t] # None \/ r.force THEN "update" ELSE "none"

(* _classify; "none" is a skip or an entry that is up to date. *)
Classify(r, t) ==
  LET current == config[t].entry
      desired == Desired(r, t, current)
  IN  CASE r.remove -> IF Owned(t, current) THEN "remove" ELSE "none"
        [] current = None -> "add"
        [] current = desired -> "none"
        [] OTHER -> IF Owned(t, current) \/ r.force THEN "update" ELSE "none"

(* _select: the targets named or detected, less those that cannot be run. *)
Start(i) ==
  /\ pc[i] = "idle"
  /\ \E r \in Commands, selected \in (SUBSET Targets) \ {{}} :
       /\ req' = [req EXCEPT ![i] = r]
       /\ todo' = [todo EXCEPT ![i] = selected]
  /\ Goto(i, "plan")
  /\ UNCHANGED <<disk, plan, cur, mine, changed, stamp, history>>

(* _plan: a target that cannot be planned (wrong platform, a broken link,  *)
(* a config that does not parse, a key asked for and not given) is left    *)
(* alone.                                                                  *)
Plan(i) ==
  /\ pc[i] = "plan"
  /\ \E t \in todo[i] :
       /\ \/ plan' = [plan EXCEPT ![i][t] =
                        [kind |-> Classify(req[i], t), before |-> config[t],
                         after |-> IF req[i].remove THEN None
                                   ELSE Desired(req[i], t, config[t].entry)]]
          \/ UNCHANGED plan
       /\ todo' = [todo EXCEPT ![i] = @ \ {t}]
  /\ UNCHANGED <<disk, pc, req, cur, mine, changed, stamp, history>>

(* A dry run, a refusal at the prompt, or a key about to reach the state   *)
(* file: nothing is written.  Otherwise _apply begins, in the second of    *)
(* the last run that did or in a later one.                                *)
Confirm(i) ==
  /\ pc[i] = "plan" /\ todo[i] = {}
  /\ \/ Quit(i) /\ UNCHANGED clock
     \/ /\ Goto(i, "write")
        /\ mine' = [mine EXCEPT ![i] = state]
        /\ clock' \in {clock, clock + 1} \cap 0..MaxClock
        /\ stamp' = [stamp EXCEPT ![i] = clock']
        /\ todo' = [todo EXCEPT ![i] = {t \in Targets : plan[i][t].kind # "none"}]
        /\ UNCHANGED <<req, plan, cur, changed, raced>>
  /\ UNCHANGED <<config, state, backup, disturbed>>

--------------------------------------------------------------------------------
(* Fault: a target that fails ends the run, and nothing is recorded. *)
FailAborts(i, t) ==
  /\ Goto(i, "done")
  /\ todo' = [todo EXCEPT ![i] = {}]
  /\ cur' = [cur EXCEPT ![i] = None]

(* One target fails, the others go on. *)
Fail(i, t) ==
  /\ Goto(i, "write")
  /\ todo' = [todo EXCEPT ![i] = @ \ {t}]
  /\ cur' = [cur EXCEPT ![i] = None]

(* _write_one up to the temporary file: the config is still the one        *)
(* planned for, and a copy of it is set aside.                             *)
Check(i) ==
  /\ pc[i] = "write"
  /\ \E t \in todo[i] :
       \/ /\ config[t] = plan[i][t].before
          /\ backup' = IF config[t].exists THEN [backup EXCEPT ![t][stamp[i]] = config[t]] ELSE backup
          /\ cur' = [cur EXCEPT ![i] = t]
          /\ Goto(i, "final")
          /\ UNCHANGED todo
       \/ config[t] # plan[i][t].before /\ Fail(i, t) /\ UNCHANGED backup
  /\ UNCHANGED <<config, state, clock, req, plan, mine, changed, stamp, history>>

(* atomic_write's last look at the config, with the temporary file ready;  *)
(* or the system refused to write one.                                     *)
Final(i) ==
  /\ pc[i] = "final"
  /\ \/ /\ config[cur[i]] = plan[i][cur[i]].before
        /\ Goto(i, "rename")
        /\ UNCHANGED <<todo, cur>>
     \/ Fail(i, cur[i])
  /\ UNCHANGED <<disk, req, plan, mine, changed, stamp, history>>

(* Whoever is about to rename over t has not seen this change. *)
Race(t) == raced' = [i \in Runs |-> raced[i] \/ (pc[i] = "rename" /\ cur[i] = t)]

(* os.replace, and the chmod after it: if that one is refused the target   *)
(* counts as failed, although its config has been replaced.                *)
Rename(i) ==
  LET t == cur[i]
      p == plan[i][t]
  IN  /\ pc[i] = "rename"
      /\ config' = [config EXCEPT ![t] = [exists |-> TRUE, entry |-> p.after, rest |-> p.before.rest]]
      /\ raced' = [j \in Runs |-> j # i /\ (raced[j] \/ (pc[j] = "rename" /\ cur[j] = t))]
      /\ \/ /\ changed' = [changed EXCEPT ![i] = TRUE]
            /\ Goto(i, "verify")
            /\ UNCHANGED <<todo, cur, disturbed>>
         \/ /\ Fail(i, t)
            /\ disturbed' = TRUE
            /\ UNCHANGED changed
      /\ UNCHANGED <<state, backup, clock, req, plan, mine, stamp>>

(* The record for the state file; the handshake with a written entry may   *)
(* fail, and the entry stays owned.                                        *)
Verify(i) ==
  LET t == cur[i]
      p == plan[i][t]
  IN  /\ pc[i] = "verify"
      /\ mine' = [mine EXCEPT ![i][t] = IF p.after = None THEN None ELSE Hash(p.after)]
      /\ todo' = [todo EXCEPT ![i] = @ \ {t}]
      /\ cur' = [cur EXCEPT ![i] = None]
      /\ Goto(i, "write")
      /\ UNCHANGED <<disk, req, plan, changed, stamp, history>>

Applying == {"write", "final", "rename", "verify"}

(* write_state, once, when anything was written. *)
Save(i) ==
  /\ pc[i] = "write" /\ todo[i] = {}
  /\ state' = IF changed[i] THEN mine[i] ELSE state
  /\ disturbed' = (disturbed \/ (changed[i] /\ \E j \in Runs \ {i} : pc[j] \in Applying))
  /\ Quit(i)
  /\ UNCHANGED <<config, backup, clock>>

--------------------------------------------------------------------------------
(* Ctrl-C, a kill, an error out of write_state. *)
Die(i) ==
  /\ pc[i] \notin {"idle", "done"}
  /\ disturbed' = (disturbed \/ changed[i])
  /\ Quit(i)
  /\ UNCHANGED disk

(* An agent or its user rewrites the config: with the entry as it was,     *)
(* without it, or with one of their own.                                   *)
Edit(t) ==
  /\ MapThenSumSet(LAMBDA u : config[u].rest, Targets) < MaxEdits
  /\ \E entry \in {config[t].entry, None, [launch |-> Foreign, key |-> NoKey]} :
       config' = [config EXCEPT ![t] = [exists |-> TRUE, entry |-> entry, rest |-> @.rest + 1]]
  /\ Race(t)
  /\ UNCHANGED <<state, backup, clock, run, disturbed>>

Step(i) ==
  \/ Start(i) \/ Plan(i) \/ Confirm(i) \/ Check(i) \/ Final(i) \/ Rename(i) \/ Verify(i)
  \/ Save(i) \/ Die(i)

Next == (\E i \in Runs : Step(i)) \/ (\E t \in Targets : Edit(t))

Spec == Init /\ [][Next]_vars

--------------------------------------------------------------------------------
TypeOK ==
  /\ \A t \in Targets : /\ config[t].entry \in Entries \cup {None}
                        /\ config[t].entry # None => config[t].exists
                        /\ config[t].rest \in 0..MaxEdits
  /\ state \in [Targets -> Hashes \cup {None}]
  /\ clock \in 0..MaxClock
  /\ pc \in [Runs -> {"idle", "plan", "done"} \cup Applying]
  /\ \A i \in Runs : cur[i] # None <=> pc[i] \in {"final", "rename", "verify"}
  /\ \A i \in Runs : cur[i] # None => /\ cur[i] \in todo[i]
                                      /\ plan[i][cur[i]].kind # "none"
  /\ mine \in [Runs -> [Targets -> Hashes \cup {None}]]

Renames(i) == pc[i] = "rename" /\ pc'[i] \in {"verify", "write"}

(* ADR-0033: an entry somebody else wrote is replaced or removed only with *)
(* --force, however old the plan is and whatever other runs and editors    *)
(* did since; except for an edit between the last check and the rename.    *)
ForeignKept ==
  [][\A i \in Runs : Renames(i) /\ ~raced[i] /\ ~req[i].force =>
       config[cur[i]].entry = None \/ config[cur[i]].entry.launch # Foreign]_vars

(* "Re-running without --desktop-key does not strip a literal key this     *)
(* installer already stored", whichever run stored it and however it       *)
(* interleaved with this one.                                              *)
KeyKept ==
  [][\A i \in Runs : Renames(i) /\ ~raced[i] /\ ~req[i].force /\ ~req[i].remove
                             /\ req[i].key = NoKey =>
       LET entry == config[cur[i]].entry
       IN  entry # None => config'[cur[i]].entry.key = entry.key]_vars

(* What a rename replaces is in that run's backup, unless another run      *)
(* began in the same second and so shares the backup's name.               *)
ReplacedIsBackedUp ==
  [][\A i \in Runs : Renames(i) /\ ~raced[i] /\ (\A j \in Runs \ {i} : stamp[j] # stamp[i])
                             /\ config[cur[i]].exists =>
       backup[cur[i]][stamp[i]] = config[cur[i]]]_vars

(* An entry an installer wrote is recorded as its own once no run is under *)
(* way, a failed handshake, a refused write of another target or an edit   *)
(* of the rest of the file notwithstanding, provided no run died, was      *)
(* refused the chmod after a rename, or overlapped another one's save.     *)
OwnedUnlessDisturbed ==
  ~disturbed /\ (\A i \in Runs : pc[i] \in {"idle", "done"}) =>
    \A t \in Targets : LET entry == config[t].entry
                        IN  entry # None /\ entry.launch # Foreign => Owned(t, entry)

(* A rename destroys nothing that is not the installer's to replace: no    *)
(* foreign entry, no literal key, no content without its backup.           *)
NothingLost == ForeignKept /\ KeyKept /\ ReplacedIsBackedUp
================================================================================
