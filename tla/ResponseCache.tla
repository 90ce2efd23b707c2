----------------------------- MODULE ResponseCache -----------------------------
(***************************************************************************)
(* The response cache on disk (cache.py, fsutil.write_private_atomic) and  *)
(* Runtime.ask (tools/base.py), the only code that reads and writes it.    *)
(*                                                                         *)
(* Asks run in the threads of any number of servers that share the cache   *)
(* directory; nothing locks it, so every system call is a step of its own  *)
(* and any ask may be killed between two of them.  An answer is known by   *)
(* the request it answers, a request by its endpoint and the rest of its   *)
(* body.                                                                   *)
(***************************************************************************)
EXTENDS Integers, FiniteSets

CONSTANTS Asks,       \* threads that ask
          Requests,   \* records [scope, body]
          Temps,      \* the names mkstemp may pick
          Ids,        \* whether replies carry a request id
          NoFile, NoTemp,
          TTL, Cap,   \* cache_ttl_seconds and cache_max_entries; 0 is off
          MaxWall     \* bound of the model's clock

ASSUME CacheAssumption ==
  /\ TTL \in Nat /\ Cap \in Nat /\ MaxWall \in Nat \ {0}
  /\ IsFiniteSet(Requests) /\ Requests # {} /\ NoTemp \notin Temps /\ Ids \subseteq BOOLEAN

VARIABLES wall,     \* time.time(), also the mtime of what is written now
          entry,    \* the `.json` files, by digest
          tmp,      \* the staging files, by name
          askPc, request,
          now,      \* the clock as `lookup` read it
          seen,     \* the file `_stale` looked at (history)
          temp,     \* the ask's staging file
          listed,   \* what the eviction still has to look at
          result,   \* what the ask returned
          owed      \* a store died and no eviction listed the directory since (history)

cacheDir == <<entry, tmp>>
cacheVars == <<wall, cacheDir, askPc, request, now, seen, temp, listed, result, owed>>

(* _key: the whole request body, endpoint included. *)
Digest(r) == r

Digests == {Digest(r) : r \in Requests}

(* An Evaluation: the request it answers and whether the provider's reply  *)
(* carried a request id.                                                   *)
Evaluations == [of : Requests, id : BOOLEAN]

(* A file: its contents, when they were written, and whether they are a    *)
(* complete record, the beginning of one, or not ours.  `first` is the     *)
(* evaluation the record was made from (history).                          *)
Records == [eval : Evaluations, first : Evaluations, mtime : 0..MaxWall,
            kind : {"whole", "torn", "foreign"}]

(* The dict `store` writes: no request id in it. *)
Recorded(eval) == [eval EXCEPT !.id = FALSE]

Reading == {"stat", "unlink", "read"}
Storing == {"mkstemp", "write", "replace", "list", "sweep", "rank", "evict"}

NoListing == [live |-> {}, temps |-> {}]
NoResult == [source |-> "none"]

CacheInit ==
  /\ wall = 0
  /\ entry \in [Digests -> {NoFile} \cup
                           {[eval |-> e, first |-> e, mtime |-> 0, kind |-> "foreign"] :
                              e \in {CHOOSE e \in Evaluations : TRUE}}]
  /\ tmp = [t \in Temps |-> NoFile]
  /\ askPc = [a \in Asks |-> "idle"]
  /\ request = [a \in Asks |-> CHOOSE r \in Requests : TRUE]
  /\ now = [a \in Asks |-> 0]
  /\ seen = [a \in Asks |-> NoFile]
  /\ temp = [a \in Asks |-> NoTemp]
  /\ listed = [a \in Asks |-> NoListing]
  /\ result = [a \in Asks |-> NoResult]
  /\ owed = TRUE

AskAt(a, label) == askPc' = [askPc EXCEPT ![a] = label]

(* `lookup` returned None: its locals are gone. *)
Forget(a) == now' = [now EXCEPT ![a] = 0] /\ seen' = [seen EXCEPT ![a] = NoFile]

--------------------------------------------------------------------------------
(* Runtime.ask begins: `lookup` reads the clock. *)
Ask(a) ==
  /\ askPc[a] = "idle"
  /\ \E r \in Requests : request' = [request EXCEPT ![a] = r]
  /\ now' = [now EXCEPT ![a] = wall]
  /\ result' = [result EXCEPT ![a] = NoResult]
  /\ AskAt(a, "stat")
  /\ UNCHANGED <<wall, cacheDir, seen, temp, listed, owed>>

Entry(a) == entry[Digest(request[a])]

(* Fault: the age is compared the wrong way round. *)
StaleReversed(a) == TTL > 0 /\ Entry(a) # NoFile /\ Entry(a).mtime - now[a] > TTL

(* _stale; a file that is not there is not stale. *)
Stale(a) == TTL > 0 /\ Entry(a) # NoFile /\ now[a] - Entry(a).mtime > TTL

Stat(a) ==
  /\ askPc[a] = "stat"
  /\ seen' = [seen EXCEPT ![a] = Entry(a)]
  /\ AskAt(a, IF Stale(a) THEN "unlink" ELSE "read")
  /\ UNCHANGED <<wall, cacheDir, request, now, temp, listed, result, owed>>

(* The expired entry is deleted by name, whatever bears it by now. *)
Unlink(a) ==
  /\ askPc[a] = "unlink"
  /\ entry' = [entry EXCEPT ![Digest(request[a])] = NoFile]
  /\ AskAt(a, "evaluate")
  /\ Forget(a)
  /\ UNCHANGED <<wall, tmp, request, temp, listed, result, owed>>

Hit(a) == Entry(a) # NoFile /\ Entry(a).kind = "whole"

(* A complete record is a hit; no file, a torn or a foreign one is a miss. *)
Read(a) ==
  /\ askPc[a] = "read"
  /\ \/ /\ Hit(a)
        /\ result' = [result EXCEPT ![a] = [source |-> "cache", eval |-> Entry(a).eval,
                                            file |-> Entry(a)]]
        /\ AskAt(a, "idle")
        /\ UNCHANGED <<now, seen>>
     \/ /\ ~Hit(a)
        /\ AskAt(a, "evaluate")
        /\ Forget(a)
        /\ UNCHANGED result
  /\ UNCHANGED <<wall, cacheDir, request, temp, listed, owed>>

(* The provider answers, or raises or is cancelled: then nothing is stored. *)
Evaluate(a) ==
  /\ askPc[a] = "evaluate"
  /\ \/ \E id \in Ids :
          /\ result' = [result EXCEPT ![a] = [source |-> "provider",
                                              eval |-> [of |-> request[a], id |-> id]]]
          /\ AskAt(a, "mkstemp")
     \/ /\ result' = [result EXCEPT ![a] = [source |-> "error"]]
        /\ AskAt(a, "idle")
  /\ UNCHANGED <<wall, cacheDir, request, now, seen, temp, listed, owed>>

--------------------------------------------------------------------------------
(* write_private_atomic: the directory and an empty staging file; when     *)
(* they cannot be made, the answer is simply not cached.  mkstemp's random *)
(* names do not come back while somebody still remembers one.              *)
Mkstemp(a) ==
  /\ askPc[a] = "mkstemp"
  /\ \/ \E t \in Temps :
          /\ tmp[t] = NoFile
          /\ \A b \in Asks : temp[b] # t /\ t \notin listed[b].temps
          /\ tmp' = [tmp EXCEPT ![t] = [eval |-> Recorded(result[a].eval), first |-> result[a].eval,
                                        mtime |-> wall, kind |-> "torn"]]
          /\ temp' = [temp EXCEPT ![a] = t]
          /\ AskAt(a, "write")
     \/ AskAt(a, "idle") /\ UNCHANGED <<tmp, temp>>
  /\ UNCHANGED <<wall, entry, request, now, seen, listed, result, owed>>

(* The text is written and synced; on an error the staging file goes.  A   *)
(* sweep may have unlinked it, which the open descriptor does not notice.  *)
Write(a) ==
  /\ askPc[a] = "write"
  /\ \/ /\ tmp' = [tmp EXCEPT ![temp[a]] =
                     IF @ = NoFile THEN @ ELSE [@ EXCEPT !.mtime = wall, !.kind = "whole"]]
        /\ AskAt(a, "replace")
        /\ UNCHANGED temp
     \/ /\ tmp' = [tmp EXCEPT ![temp[a]] = NoFile]
        /\ temp' = [temp EXCEPT ![a] = NoTemp]
        /\ AskAt(a, "idle")
  /\ UNCHANGED <<wall, entry, request, now, seen, listed, result, owed>>

(* os.replace, unless a concurrent sweep took the staging file: then the   *)
(* store ends without an eviction.                                         *)
Replace(a) ==
  /\ askPc[a] = "replace"
  /\ \/ /\ tmp[temp[a]] # NoFile
        /\ entry' = [entry EXCEPT ![Digest(request[a])] = tmp[temp[a]]]
        /\ tmp' = [tmp EXCEPT ![temp[a]] = NoFile]
        /\ AskAt(a, "list")
     \/ tmp[temp[a]] = NoFile /\ AskAt(a, "idle") /\ UNCHANGED cacheDir
  /\ temp' = [temp EXCEPT ![a] = NoTemp]
  /\ UNCHANGED <<wall, request, now, seen, listed, result, owed>>

(* _evict lists the directory once. *)
List(a) ==
  /\ askPc[a] = "list"
  /\ listed' = [listed EXCEPT ![a] = [live |-> {d \in Digests : entry[d] # NoFile},
                                      temps |-> {t \in Temps : tmp[t] # NoFile}]]
  /\ owed' = FALSE
  /\ AskAt(a, "sweep")
  /\ UNCHANGED <<wall, cacheDir, request, now, seen, temp, result>>

(* The staging files go first, one by one, dead or not. *)
Sweep(a) ==
  /\ askPc[a] = "sweep"
  /\ \/ \E t \in listed[a].temps :
          /\ tmp' = [tmp EXCEPT ![t] = NoFile]
          /\ listed' = [listed EXCEPT ![a].temps = @ \ {t}]
          /\ UNCHANGED askPc
     \/ listed[a].temps = {} /\ AskAt(a, "rank") /\ UNCHANGED <<tmp, listed>>
  /\ UNCHANGED <<wall, entry, request, now, seen, temp, result, owed>>

Stamp(d) == IF entry[d] = NoFile THEN 0 ELSE entry[d].mtime

(* Fault: one entry too many stays. *)
OldestButOne(live) ==
  {old \in SUBSET live :
     /\ Cardinality(old) = Cardinality(live) - Cap - 1
     /\ \A d \in old, e \in live \ old : Stamp(d) <= Stamp(e)}

(* The entries past the cap, oldest first; an entry that is gone is the    *)
(* oldest.  Equal stamps are settled by name, here either way.             *)
Oldest(live) ==
  {old \in SUBSET live :
     /\ Cardinality(old) = Cardinality(live) - Cap
     /\ \A d \in old, e \in live \ old : Stamp(d) <= Stamp(e)}

Rank(a) ==
  /\ askPc[a] = "rank"
  /\ \/ /\ Cap = 0 \/ Cardinality(listed[a].live) <= Cap
        /\ listed' = [listed EXCEPT ![a] = NoListing]
        /\ AskAt(a, "idle")
     \/ /\ Cap > 0 /\ Cardinality(listed[a].live) > Cap
        /\ \E old \in Oldest(listed[a].live) : listed' = [listed EXCEPT ![a].live = old]
        /\ AskAt(a, "evict")
  /\ UNCHANGED <<wall, cacheDir, request, now, seen, temp, result, owed>>

(* The ranked entries are unlinked by name, whatever bears it by now. *)
Evict(a) ==
  /\ askPc[a] = "evict"
  /\ \/ \E d \in listed[a].live :
          /\ entry' = [entry EXCEPT ![d] = NoFile]
          /\ listed' = [listed EXCEPT ![a].live = @ \ {d}]
          /\ UNCHANGED askPc
     \/ listed[a].live = {} /\ AskAt(a, "idle") /\ UNCHANGED <<entry, listed>>
  /\ UNCHANGED <<wall, tmp, request, now, seen, temp, result, owed>>

--------------------------------------------------------------------------------
(* The server is killed.  What it had on disk stays. *)
Crash(a) ==
  /\ askPc[a] # "idle"
  /\ AskAt(a, "idle")
  /\ temp' = [temp EXCEPT ![a] = NoTemp]
  /\ listed' = [listed EXCEPT ![a] = NoListing]
  /\ result' = [result EXCEPT ![a] = NoResult]
  /\ owed' = (owed \/ askPc[a] \in Storing)
  /\ Forget(a)
  /\ UNCHANGED <<wall, cacheDir, request>>

Tick ==
  /\ wall < MaxWall
  /\ wall' = wall + 1
  /\ UNCHANGED <<cacheDir, askPc, request, now, seen, temp, listed, result, owed>>

AskStep(a) ==
  \/ Ask(a) \/ Stat(a) \/ Unlink(a) \/ Read(a) \/ Evaluate(a)
  \/ Mkstemp(a) \/ Write(a) \/ Replace(a) \/ List(a) \/ Sweep(a) \/ Rank(a) \/ Evict(a)
  \/ Crash(a)

CacheNext == (\E a \in Asks : AskStep(a)) \/ Tick

CacheSpec == CacheInit /\ [][CacheNext]_cacheVars

--------------------------------------------------------------------------------
CacheTypeOK ==
  /\ wall \in 0..MaxWall
  /\ \A d \in Digests : entry[d] = NoFile \/ entry[d] \in Records
  /\ \A t \in Temps : tmp[t] = NoFile \/ tmp[t] \in Records
  /\ askPc \in [Asks -> {"idle", "evaluate"} \cup Reading \cup Storing]
  /\ request \in [Asks -> Requests]
  /\ now \in [Asks -> 0..MaxWall]
  /\ \A a \in Asks : seen[a] = NoFile \/ seen[a] \in Records
  /\ temp \in [Asks -> Temps \cup {NoTemp}]
  /\ \A a \in Asks : askPc[a] \in {"write", "replace"} <=> temp[a] # NoTemp
  /\ listed \in [Asks -> [live : SUBSET Digests, temps : SUBSET Temps]]
  /\ \A a \in Asks :
       /\ result[a].source \in {"none", "cache", "provider", "error"}
       /\ result[a].source \in {"cache", "provider"} => result[a].eval \in Evaluations
       /\ askPc[a] \in Storing => result[a].source = "provider"
  /\ owed \in BOOLEAN

(* fsutil: "A crash mid-write leaves at most the temporary file; a reader  *)
(* never sees a partial record", whoever crashes, sweeps or fails where.   *)
NoTornEntry == \A d \in Digests : entry[d] # NoFile => entry[d].kind # "torn"

(* A hit is the provider's answer to this very request: the same endpoint  *)
(* and the same body.                                                      *)
ReplaysOwnRequest ==
  \A a \in Asks : result[a].source \in {"cache", "provider"} => result[a].eval.of = request[a]

(* The TTL bounds how long an entry replays: an entry that was expired     *)
(* when the lookup began and is still the one on disk is not replayed.     *)
ExpiredNotReplayed ==
  \A a \in Asks : result[a].source = "cache" /\ result[a].file = seen[a] /\ TTL > 0 =>
                    now[a] - seen[a].mtime <= TTL

(* When no store is under way, and every one that died was followed by an  *)
(* eviction, the directory holds at most `cap` entries and no staging      *)
(* file, however the stores and evictions of several servers overlapped.   *)
DirectoryBounded ==
  ~owed /\ (\A a \in Asks : askPc[a] \notin Storing) =>
    /\ \A t \in Temps : tmp[t] = NoFile
    /\ Cap > 0 => Cardinality({d \in Digests : entry[d] # NoFile}) <= Cap

(* What is replayed is what store recorded of the first answer: all of it  *)
(* but the provider's request id.                                          *)
ReplaysRecord ==
  \A a \in Asks : result[a].source = "cache" => result[a].eval = Recorded(result[a].file.first)

(* cache.py, ADR-0047, "Replay is verbatim, so every tool payload built    *)
(* from it is byte-identical to the first answer's".  The code does not    *)
(* keep this: store leaves out the request id, which Runtime's frame puts  *)
(* into the first payload and not into the replayed one.                   *)
VerbatimReplay ==
  \A a \in Asks : result[a].source = "cache" => result[a].eval = result[a].file.first

(* A replay is a whole record of an answer to this very request that had   *)
(* not expired, whatever other servers store, sweep, evict and leave half- *)
(* written; it is that answer but for the request id.                      *)
ReplaysHonest == NoTornEntry /\ ReplaysOwnRequest /\ ExpiredNotReplayed /\ ReplaysRecord
================================================================================
