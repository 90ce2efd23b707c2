------------------------- MODULE ResponseCache_proofs -------------------------
(***************************************************************************)
(* Proofs about ResponseCache, for any number of asks, requests, staging   *)
(* names and crashes: what is replayed is an honest, whole and unexpired   *)
(* record of the same request, and the evictions of unlocked servers keep  *)
(* the directory within its cap.                                           *)
(***************************************************************************)
EXTENDS ResponseCache, FiniteSetTheorems, TLAPS

Files == Records \cup {NoFile}
Labels == {"idle", "evaluate"} \cup Reading \cup Storing
Results == [source : {"none", "error"}]
           \cup [source : {"provider"}, eval : Evaluations]
           \cup [source : {"cache"}, eval : Evaluations, file : Records]

(* The types the steps rely on. *)
ShapeInv ==
  /\ wall \in 0..MaxWall
  /\ entry \in [Digests -> Files] /\ tmp \in [Temps -> Files]
  /\ askPc \in [Asks -> Labels] /\ request \in [Asks -> Requests]
  /\ now \in [Asks -> 0..MaxWall] /\ seen \in [Asks -> Files]
  /\ temp \in [Asks -> Temps \cup {NoTemp}]
  /\ listed \in [Asks -> [live : SUBSET Digests, temps : SUBSET Temps]]
  /\ result \in [Asks -> Results]
  /\ owed \in BOOLEAN

(* File f records the first answer to request r. *)
RecordOf(f, r) == f.eval.of = r /\ f.eval = Recorded(f.first)

(* What an ask knows, by how far it is. *)
AskInv(a) ==
  /\ askPc[a] \in Reading \cup {"evaluate"} => result[a] = NoResult
  /\ askPc[a] \in Storing => result[a].source = "provider"
  /\ askPc[a] \in {"write", "replace"} <=> temp[a] # NoTemp
  /\ result[a].source \in {"cache", "provider"} => result[a].eval.of = request[a]
  /\ result[a].source = "cache" =>
       /\ askPc[a] = "idle" /\ result[a].eval = Recorded(result[a].file.first)
       /\ result[a].file = seen[a] /\ TTL > 0 => now[a] - seen[a].mtime <= TTL
  /\ askPc[a] = "read" /\ seen[a] # NoFile /\ TTL > 0 => now[a] - seen[a].mtime <= TTL

(* The staging file of an ask is its own, and holds its answer unless a    *)
(* sweep took it.                                                          *)
StageInv(a) ==
  temp[a] # NoTemp =>
    /\ \A b \in Asks : temp[b] = temp[a] => a = b
    /\ tmp[temp[a]] # NoFile =>
         /\ RecordOf(tmp[temp[a]], request[a])
         /\ askPc[a] = "replace" => tmp[temp[a]].kind = "whole"

(* The entries: never the beginning of a record, and filed under the       *)
(* request they answer.                                                    *)
EntryInv ==
  \A d \in Digests : entry[d] # NoFile =>
    /\ entry[d].kind # "torn"
    /\ entry[d].kind = "whole" => RecordOf(entry[d], d)

Stored == {d \in Digests : entry[d] # NoFile}

(* Since the last listing, every staging file is somebody's: its ask will  *)
(* move or remove it, or a sweep will.                                     *)
TempsCovered ==
  \A t \in Temps : tmp[t] # NoFile =>
    \E a \in Asks : temp[a] = t \/ (askPc[a] = "sweep" /\ t \in listed[a].temps)

(* Since the last listing, the entries fit, or an eviction that has seen   *)
(* them all is under way or is to come.                                    *)
EntriesCovered ==
  \/ Cardinality(Stored) <= Cap
  \/ \E a \in Asks :
       \/ askPc[a] = "list"
       \/ askPc[a] \in {"sweep", "rank"} /\ Stored \subseteq listed[a].live
       \/ askPc[a] = "evict" /\ Cardinality(Stored \ listed[a].live) <= Cap

BoundInv == ~owed => TempsCovered /\ (Cap > 0 => EntriesCovered)

IInv ==
  /\ ShapeInv /\ EntryInv /\ BoundInv
  /\ \A a \in Asks : AskInv(a) /\ StageInv(a)

--------------------------------------------------------------------------------
(* What a step of one ask leaves of the others. *)

Others(a) ==
  \A b \in Asks \ {a} :
    /\ askPc'[b] = askPc[b] /\ request'[b] = request[b] /\ now'[b] = now[b] /\ seen'[b] = seen[b]
    /\ temp'[b] = temp[b] /\ listed'[b] = listed[b] /\ result'[b] = result[b]

(* A step of ask a keeps everything but its own part, for the caller to    *)
(* show: the files it may touch are its own, or it removes them.           *)
LEMMA OthersKept ==
  ASSUME IInv, NEW a \in Asks, Others(a),
         \A t \in Temps : tmp'[t] = tmp[t] \/ tmp'[t] = NoFile \/ temp[a] = t \/ temp'[a] = t,
         temp'[a] \in {temp[a], NoTemp} \/ \A b \in Asks : temp[b] # temp'[a]
  PROVE  \A b \in Asks \ {a} : AskInv(b)' /\ StageInv(b)'
<1> SUFFICES ASSUME NEW b \in Asks \ {a} PROVE AskInv(b)' /\ StageInv(b)'
  OBVIOUS
<1>1. /\ askPc'[b] = askPc[b] /\ request'[b] = request[b] /\ now'[b] = now[b] /\ seen'[b] = seen[b]
      /\ temp'[b] = temp[b] /\ listed'[b] = listed[b] /\ result'[b] = result[b]
  BY DEF Others
<1>2. AskInv(b) /\ StageInv(b) /\ StageInv(a)
  BY DEF IInv
<1>3. AskInv(b)'
  BY <1>1, <1>2 DEF AskInv
<1>4. ASSUME temp[b] # NoTemp PROVE StageInv(b)'
  <2>1. temp[b] \in Temps
    BY <1>4 DEF IInv, ShapeInv
  <2>2. temp[a] # temp[b] /\ temp'[a] # temp[b]
    BY <1>2, <1>4 DEF StageInv
  <2>3. tmp'[temp[b]] = tmp[temp[b]] \/ tmp'[temp[b]] = NoFile
    BY <2>1, <2>2
  <2>4. \A c \in Asks : temp'[c] = temp'[b] => b = c
    <3> TAKE c \in Asks
    <3>1. CASE c = a
      BY <1>1, <2>2, <3>1
    <3>2. CASE c # a
      BY <1>1, <1>2, <1>4, <3>2 DEF StageInv, Others
    <3> QED
      BY <3>1, <3>2
  <2> QED
    BY <1>1, <1>2, <1>4, <2>3, <2>4 DEF StageInv
<1>5. StageInv(b)'
  BY <1>1, <1>4 DEF StageInv
<1> QED
  BY <1>3, <1>5

(* Staging files stay somebody's when ask a keeps, or removes, those it is *)
(* answerable for.                                                         *)
LEMMA TempsKept ==
  ASSUME NEW a \in Asks, Others(a), TempsCovered,
         \A t \in Temps : tmp'[t] # NoFile =>
           \/ temp'[a] = t
           \/ /\ tmp[t] # NoFile /\ temp[a] # t
              /\ askPc[a] = "sweep" /\ t \in listed[a].temps =>
                   askPc'[a] = "sweep" /\ t \in listed'[a].temps
  PROVE  TempsCovered'
<1> SUFFICES ASSUME NEW t \in Temps, tmp'[t] # NoFile
             PROVE  \E b \in Asks : temp'[b] = t \/ (askPc'[b] = "sweep" /\ t \in listed'[b].temps)
  BY DEF TempsCovered
<1>1. CASE temp'[a] = t
  BY <1>1
<1>2. CASE /\ tmp[t] # NoFile /\ temp[a] # t
           /\ askPc[a] = "sweep" /\ t \in listed[a].temps =>
                askPc'[a] = "sweep" /\ t \in listed'[a].temps
  <2>1. PICK b \in Asks : temp[b] = t \/ (askPc[b] = "sweep" /\ t \in listed[b].temps)
    BY <1>2 DEF TempsCovered
  <2>2. CASE b = a
    BY <1>2, <2>1, <2>2
  <2>3. CASE b # a
    BY <2>1, <2>3 DEF Others
  <2> QED
    BY <2>2, <2>3
<1> QED
  BY <1>1, <1>2

(* Sets of entries are finite. *)
LEMMA StoredFinite ==
  ASSUME NEW S \in SUBSET Digests
  PROVE  IsFiniteSet(S) /\ Cardinality(S) \in Nat
<1>1. Digests = Requests
  BY DEF Digests, Digest
<1> QED
  BY <1>1, CacheAssumption, FS_Subset, FS_CardinalityType

(* Fewer entries are covered as well. *)
LEMMA Fewer ==
  ASSUME NEW S \in SUBSET Digests, NEW T \in SUBSET S, Cardinality(S) <= Cap
  PROVE  Cardinality(T) <= Cap
<1>1. IsFiniteSet(S) /\ T \in SUBSET S /\ Cardinality(S) \in Nat
  BY StoredFinite
<1>2. Cardinality(T) <= Cardinality(S) /\ Cardinality(T) \in Nat
  BY <1>1, FS_Subset, FS_CardinalityType
<1>3. Cap \in Nat
  BY CacheAssumption
<1> QED
  BY <1>1, <1>2, <1>3

(* The eviction of ask a covers the entries. *)
Covers(a) ==
  \/ askPc[a] = "list"
  \/ askPc[a] \in {"sweep", "rank"} /\ Stored \subseteq listed[a].live
  \/ askPc[a] = "evict" /\ Cardinality(Stored \ listed[a].live) <= Cap

(* Entries stay covered by the evictions of the others, and by that of ask *)
(* a if its step sees to it.                                               *)
LEMMA EntriesKept ==
  ASSUME NEW a \in Asks, Others(a), EntriesCovered, Stored' \in SUBSET Stored,
         Covers(a) => EntriesCovered'
  PROVE  EntriesCovered'
<1>1. Stored \in SUBSET Digests
  BY DEF Stored
<1>2. CASE Cardinality(Stored) <= Cap
  BY <1>1, <1>2, Fewer DEF EntriesCovered
<1>3. ASSUME NEW b \in Asks \ {a}, askPc[b] = "list" PROVE EntriesCovered'
  BY <1>3 DEF EntriesCovered, Others
<1>4. ASSUME NEW b \in Asks \ {a}, askPc[b] \in {"sweep", "rank"}, Stored \subseteq listed[b].live
      PROVE  EntriesCovered'
  <2>1. askPc'[b] \in {"sweep", "rank"} /\ Stored' \subseteq listed'[b].live
    BY <1>4 DEF Others
  <2> QED
    BY <2>1 DEF EntriesCovered
<1>5. ASSUME NEW b \in Asks \ {a}, askPc[b] = "evict", Cardinality(Stored \ listed[b].live) <= Cap
      PROVE  EntriesCovered'
  <2>1. askPc'[b] = "evict" /\ listed'[b] = listed[b]
    BY <1>5 DEF Others
  <2>2. /\ Stored \ listed[b].live \in SUBSET Digests
        /\ Stored' \ listed[b].live \in SUBSET (Stored \ listed[b].live)
    BY <1>1
  <2>3. Cardinality(Stored' \ listed'[b].live) <= Cap
    BY <1>5, <2>1, <2>2, Fewer
  <2> QED
    BY <2>1, <2>3 DEF EntriesCovered
<1> QED
  BY <1>2, <1>3, <1>4, <1>5 DEF EntriesCovered, Covers

(* The invariant, put together from a step's parts. *)
LEMMA Together ==
  ASSUME NEW a \in Asks, ShapeInv', EntryInv', BoundInv', AskInv(a)', StageInv(a)',
         \A b \in Asks \ {a} : AskInv(b)' /\ StageInv(b)'
  PROVE  IInv'
BY DEF IInv

--------------------------------------------------------------------------------
(* The cache as a server finds it: foreign files at most. *)
LEMMA InitIInv == CacheInit => IInv
<1> SUFFICES ASSUME CacheInit PROVE IInv
  OBVIOUS
<1>1. \E r : r \in Requests
  BY CacheAssumption
<1>2. (CHOOSE r \in Requests : TRUE) \in Requests
  BY <1>1
<1>3. (CHOOSE e \in Evaluations : TRUE) \in Evaluations
  <2>1. \E e : e \in Evaluations
    <3>1. [of |-> CHOOSE r \in Requests : TRUE, id |-> TRUE] \in Evaluations
      BY <1>2 DEF Evaluations
    <3> QED
      BY <3>1
  <2> QED
    BY <2>1
<1> DEFINE e == CHOOSE e \in Evaluations : TRUE
           f == [eval |-> e, first |-> e, mtime |-> 0, kind |-> "foreign"]
<1>4. MaxWall \in Nat
  BY CacheAssumption
<1>5. f \in Records /\ f.kind = "foreign"
  BY <1>3, <1>4 DEF Records
<1>6. entry \in [Digests -> {NoFile, f}]
  BY DEF CacheInit
<1> HIDE DEF f
<1>7. ShapeInv
  <2>1. entry \in [Digests -> Files]
    BY <1>5, <1>6 DEF Files
  <2> QED
    BY <1>2, <1>4, <2>1 DEF CacheInit, ShapeInv, Files, Labels, Results, NoListing, NoResult
<1>8. EntryInv
  BY <1>5, <1>6 DEF EntryInv
<1>9. BoundInv
  BY DEF CacheInit, BoundInv
<1>10. \A a \in Asks : AskInv(a) /\ StageInv(a)
  BY DEF CacheInit, AskInv, StageInv, NoResult, Reading, Storing
<1> QED
  BY <1>7, <1>8, <1>9, <1>10 DEF IInv

(* An ask that is not storing holds no staging file and no listing: its    *)
(* steps leave the directory's bound alone.                                *)
LEMMA NotStoring ==
  ASSUME IInv, NEW a \in Asks, Others(a), tmp' = tmp, temp' = temp, owed' = owed,
         Stored' \in SUBSET Stored, askPc[a] \notin Storing
  PROVE  BoundInv' /\ StageInv(a)' /\ \A b \in Asks \ {a} : AskInv(b)' /\ StageInv(b)'
<1>1. temp[a] = NoTemp /\ NoTemp \notin Temps
  BY CacheAssumption DEF IInv, AskInv, Storing
<1>2. StageInv(a)'
  BY <1>1 DEF StageInv
<1>3. \A b \in Asks \ {a} : AskInv(b)' /\ StageInv(b)'
  BY OthersKept
<1>4. BoundInv'
  <2> SUFFICES ASSUME ~owed PROVE TempsCovered' /\ (Cap > 0 => EntriesCovered')
    BY DEF BoundInv
  <2>1. TempsCovered /\ (Cap > 0 => EntriesCovered)
    BY DEF IInv, BoundInv
  <2>2. askPc[a] \notin {"list", "sweep", "rank", "evict"}
    BY DEF Storing
  <2>3. TempsCovered'
    BY <1>1, <2>1, <2>2, TempsKept
  <2>4. Cap > 0 => EntriesCovered'
    BY <2>1, <2>2, EntriesKept DEF Covers
  <2> QED
    BY <2>3, <2>4
<1> QED
  BY <1>2, <1>3, <1>4

(* The lookup begins. *)
LEMMA AskIInv ==
  ASSUME IInv, NEW a \in Asks, Ask(a)
  PROVE  IInv'
<1>1. ShapeInv /\ EntryInv /\ AskInv(a)
  BY DEF IInv
<1>2. PICK r \in Requests : request' = [request EXCEPT ![a] = r]
  BY DEF Ask
<1>3. /\ askPc[a] = "idle" /\ askPc' = [askPc EXCEPT ![a] = "stat"]
      /\ now' = [now EXCEPT ![a] = wall] /\ result' = [result EXCEPT ![a] = NoResult]
      /\ UNCHANGED <<wall, entry, tmp, seen, temp, listed, owed>>
  BY DEF Ask, AskAt, cacheDir
<1>4. ShapeInv'
  BY <1>1, <1>2, <1>3 DEF ShapeInv, Labels, Reading, Results, NoResult
<1>5. /\ Others(a)
      /\ askPc'[a] = "stat" /\ result'[a] = NoResult /\ temp'[a] = temp[a]
  BY <1>1, <1>2, <1>3 DEF ShapeInv, Others
<1>6. AskInv(a)'
  BY <1>1, <1>3, <1>5 DEF AskInv, Reading, Storing, NoResult
<1>7. EntryInv' /\ Stored' = Stored
  BY <1>1, <1>3 DEF EntryInv, Stored
<1>8. BoundInv' /\ StageInv(a)' /\ \A b \in Asks \ {a} : AskInv(b)' /\ StageInv(b)'
  BY <1>3, <1>5, <1>7, NotStoring DEF Storing
<1> QED
  BY <1>4, <1>6, <1>7, <1>8, Together

(* _stale looks at the file. *)
LEMMA StatIInv ==
  ASSUME IInv, NEW a \in Asks, Stat(a)
  PROVE  IInv'
<1>1. ShapeInv /\ EntryInv /\ AskInv(a)
  BY DEF IInv
<1>2. /\ askPc[a] = "stat" /\ seen' = [seen EXCEPT ![a] = Entry(a)]
      /\ askPc' = [askPc EXCEPT ![a] = IF Stale(a) THEN "unlink" ELSE "read"]
      /\ UNCHANGED <<wall, entry, tmp, request, now, temp, listed, result, owed>>
  BY DEF Stat, AskAt, cacheDir
<1>3. Entry(a) \in Files
  BY <1>1 DEF ShapeInv, Entry, Digest, Digests
<1>4. ShapeInv'
  BY <1>1, <1>2, <1>3 DEF ShapeInv, Labels, Reading
<1>5. /\ Others(a) /\ seen'[a] = Entry(a)
      /\ askPc'[a] = IF Stale(a) THEN "unlink" ELSE "read"
  BY <1>1, <1>2 DEF ShapeInv, Others
<1>6. AskInv(a)'
  <2>1. result[a] = NoResult /\ temp[a] = NoTemp
    BY <1>1, <1>2 DEF AskInv, Reading
  <2>2. askPc'[a] = "read" /\ seen'[a] # NoFile /\ TTL > 0 => now[a] - seen'[a].mtime <= TTL
    <3>1. ASSUME ~Stale(a), Entry(a) # NoFile, TTL > 0 PROVE now[a] - Entry(a).mtime <= TTL
      <4>1. ~(now[a] - Entry(a).mtime > TTL)
        BY <3>1 DEF Stale
      <4>2. now[a] \in Int /\ TTL \in Int
        BY <1>1, CacheAssumption DEF ShapeInv
      <4>3. Entry(a).mtime \in Int
        BY <1>3, <3>1, CacheAssumption DEF Files, Records
      <4> QED
        BY <4>1, <4>2, <4>3
    <3> QED
      BY <1>5, <3>1
  <2> QED
    BY <1>2, <1>5, <2>1, <2>2 DEF AskInv, Reading, Storing, NoResult
<1>7. EntryInv' /\ Stored' = Stored
  BY <1>1, <1>2 DEF EntryInv, Stored
<1>8. BoundInv' /\ StageInv(a)' /\ \A b \in Asks \ {a} : AskInv(b)' /\ StageInv(b)'
  BY <1>2, <1>5, <1>7, NotStoring DEF Storing
<1> QED
  BY <1>4, <1>6, <1>7, <1>8, Together

(* The expired entry is unlinked: one entry fewer. *)
LEMMA UnlinkIInv ==
  ASSUME IInv, NEW a \in Asks, Unlink(a)
  PROVE  IInv'
<1>1. ShapeInv /\ EntryInv /\ AskInv(a)
  BY DEF IInv
<1>2. /\ askPc[a] = "unlink" /\ entry' = [entry EXCEPT ![Digest(request[a])] = NoFile]
      /\ askPc' = [askPc EXCEPT ![a] = "evaluate"]
      /\ now' = [now EXCEPT ![a] = 0] /\ seen' = [seen EXCEPT ![a] = NoFile]
      /\ UNCHANGED <<wall, tmp, request, temp, listed, result, owed>>
  BY DEF Unlink, AskAt, Forget
<1>3. entry' \in [Digests -> Files] /\ \A d \in Digests : entry'[d] = NoFile \/ entry'[d] = entry[d]
  BY <1>1, <1>2 DEF ShapeInv, Files
<1>4. 0 \in 0..MaxWall
  BY CacheAssumption
<1>5. ShapeInv'
  BY <1>1, <1>2, <1>3, <1>4 DEF ShapeInv, Labels, Reading, Files
<1>6. Others(a) /\ askPc'[a] = "evaluate"
  BY <1>1, <1>2 DEF ShapeInv, Others
<1>7. AskInv(a)'
  BY <1>1, <1>2, <1>6 DEF AskInv, Reading, Storing, NoResult
<1>8. EntryInv' /\ Stored' \in SUBSET Stored
  BY <1>1, <1>3 DEF EntryInv, Stored
<1>9. BoundInv' /\ StageInv(a)' /\ \A b \in Asks \ {a} : AskInv(b)' /\ StageInv(b)'
  BY <1>2, <1>6, <1>8, NotStoring DEF Storing
<1> QED
  BY <1>5, <1>7, <1>8, <1>9, Together

(* A hit replays the entry, a miss goes to the provider. *)
LEMMA ReadIInv ==
  ASSUME IInv, NEW a \in Asks, Read(a)
  PROVE  IInv'
<1>1. ShapeInv /\ EntryInv /\ AskInv(a)
  BY DEF IInv
<1>2. askPc[a] = "read" /\ UNCHANGED <<wall, entry, tmp, request, temp, listed, owed>>
  BY DEF Read, cacheDir
<1>3. result[a] = NoResult /\ temp[a] = NoTemp
  BY <1>1, <1>2 DEF AskInv, Reading
<1>4. EntryInv' /\ Stored' = Stored
  BY <1>1, <1>2 DEF EntryInv, Stored
<1>5. CASE Hit(a)
  <2> DEFINE out == [source |-> "cache", eval |-> Entry(a).eval, file |-> Entry(a)]
  <2>1. /\ result' = [result EXCEPT ![a] = out] /\ askPc' = [askPc EXCEPT ![a] = "idle"]
        /\ UNCHANGED <<now, seen>>
    BY <1>5 DEF Read, AskAt
  <2>2. Entry(a) \in Records /\ RecordOf(Entry(a), request[a])
    <3>1. request[a] \in Digests /\ Entry(a) = entry[request[a]]
      BY <1>1 DEF ShapeInv, Digests, Digest, Entry
    <3> QED
      BY <1>1, <1>5, <3>1 DEF ShapeInv, Files, EntryInv, Hit
  <2>3. out \in Results
    BY <2>2 DEF Results, Records
  <2>4. /\ out.source = "cache" /\ out.file = Entry(a)
        /\ out.eval.of = request[a] /\ out.eval = Recorded(out.file.first)
    BY <2>2 DEF RecordOf
  <2> HIDE DEF out
  <2>5. ShapeInv'
    BY <1>1, <1>2, <2>1, <2>3 DEF ShapeInv, Labels
  <2>6. Others(a) /\ askPc'[a] = "idle" /\ result'[a] = out
    BY <1>1, <1>2, <2>1 DEF ShapeInv, Others
  <2>7. out.file = seen[a] /\ TTL > 0 => now[a] - seen[a].mtime <= TTL
    BY <1>1, <1>2, <1>5, <2>4 DEF AskInv, Hit
  <2>8. AskInv(a)'
    BY <1>2, <1>3, <2>1, <2>4, <2>6, <2>7 DEF AskInv, Reading, Storing
  <2>9. BoundInv' /\ StageInv(a)' /\ \A b \in Asks \ {a} : AskInv(b)' /\ StageInv(b)'
    BY <1>2, <1>4, <2>6, NotStoring DEF Storing
  <2> QED
    BY <1>4, <2>5, <2>8, <2>9, Together
<1>6. CASE ~Hit(a)
  <2>1. /\ askPc' = [askPc EXCEPT ![a] = "evaluate"] /\ result' = result
        /\ now' = [now EXCEPT ![a] = 0] /\ seen' = [seen EXCEPT ![a] = NoFile]
    BY <1>6 DEF Read, AskAt, Forget
  <2>2. 0 \in 0..MaxWall
    BY CacheAssumption
  <2>3. ShapeInv'
    BY <1>1, <1>2, <2>1, <2>2 DEF ShapeInv, Labels, Files
  <2>4. Others(a) /\ askPc'[a] = "evaluate"
    BY <1>1, <1>2, <2>1 DEF ShapeInv, Others
  <2>5. AskInv(a)'
    BY <1>2, <1>3, <2>1, <2>4 DEF AskInv, Reading, Storing, NoResult
  <2>6. BoundInv' /\ StageInv(a)' /\ \A b \in Asks \ {a} : AskInv(b)' /\ StageInv(b)'
    BY <1>2, <1>4, <2>4, NotStoring DEF Storing
  <2> QED
    BY <1>4, <2>3, <2>5, <2>6, Together
<1> QED
  BY <1>5, <1>6

(* The provider answers this request, or none. *)
LEMMA EvaluateIInv ==
  ASSUME IInv, NEW a \in Asks, Evaluate(a)
  PROVE  IInv'
<1>1. ShapeInv /\ EntryInv /\ AskInv(a)
  BY DEF IInv
<1>2. /\ askPc[a] = "evaluate"
      /\ UNCHANGED <<wall, entry, tmp, request, now, seen, temp, listed, owed>>
  BY DEF Evaluate, cacheDir
<1>3. temp[a] = NoTemp
  BY <1>1, <1>2 DEF AskInv
<1>4. EntryInv' /\ Stored' = Stored
  BY <1>1, <1>2 DEF EntryInv, Stored
<1>5. PICK out \in Results :
        /\ result' = [result EXCEPT ![a] = out]
        /\ \/ /\ askPc' = [askPc EXCEPT ![a] = "mkstemp"]
              /\ out.source = "provider" /\ out.eval.of = request[a]
           \/ /\ askPc' = [askPc EXCEPT ![a] = "idle"]
              /\ out.source = "error"
  <2>1. ASSUME NEW id \in Ids,
               result' = [result EXCEPT ![a] = [source |-> "provider",
                                                eval |-> [of |-> request[a], id |-> id]]]
        PROVE  \E out \in Results : /\ result' = [result EXCEPT ![a] = out]
                                    /\ out.source = "provider" /\ out.eval.of = request[a]
    <3> DEFINE out == [source |-> "provider", eval |-> [of |-> request[a], id |-> id]]
    <3>1. [of |-> request[a], id |-> id] \in Evaluations
      BY <1>1, CacheAssumption DEF ShapeInv, Evaluations
    <3>2. out \in Results
      BY <3>1 DEF Results
    <3>3. out.source = "provider" /\ out.eval.of = request[a]
      OBVIOUS
    <3> QED
      BY <2>1, <3>2, <3>3
  <2>2. [source |-> "error"] \in Results /\ [source |-> "error"].source = "error"
    BY DEF Results
  <2> QED
    BY <2>1, <2>2 DEF Evaluate, AskAt
<1>6. ShapeInv'
  BY <1>1, <1>2, <1>5 DEF ShapeInv, Labels, Storing
<1>7. /\ Others(a) /\ result'[a] = out
      /\ \/ askPc'[a] = "mkstemp" /\ out.source = "provider" /\ out.eval.of = request[a]
         \/ askPc'[a] = "idle" /\ out.source = "error"
  BY <1>1, <1>2, <1>5 DEF ShapeInv, Others
<1>8. AskInv(a)'
  BY <1>2, <1>3, <1>7 DEF AskInv, Reading, Storing
<1>9. BoundInv' /\ StageInv(a)' /\ \A b \in Asks \ {a} : AskInv(b)' /\ StageInv(b)'
  BY <1>2, <1>4, <1>7, NotStoring DEF Storing
<1> QED
  BY <1>4, <1>6, <1>8, <1>9, Together

--------------------------------------------------------------------------------
(* The store. *)

(* An ask that stores but is not evicting: the bound is kept when its      *)
(* staging file stays its own or goes.                                     *)
LEMMA StagingBound ==
  ASSUME IInv, NEW a \in Asks, Others(a), owed' = owed, Stored' \in SUBSET Stored,
         askPc[a] \in {"mkstemp", "write", "replace"},
         \A t \in Temps : tmp'[t] # NoFile => temp'[a] = t \/ (tmp[t] # NoFile /\ temp[a] # t)
  PROVE  BoundInv'
<1> SUFFICES ASSUME ~owed PROVE TempsCovered' /\ (Cap > 0 => EntriesCovered')
  BY DEF BoundInv
<1>1. TempsCovered /\ (Cap > 0 => EntriesCovered)
  BY DEF IInv, BoundInv
<1>2. TempsCovered'
  BY <1>1, TempsKept
<1>3. Cap > 0 => EntriesCovered'
  BY <1>1, EntriesKept DEF Covers
<1> QED
  BY <1>2, <1>3

(* mkstemp: a fresh name, for this ask alone. *)
LEMMA MkstempIInv ==
  ASSUME IInv, NEW a \in Asks, Mkstemp(a)
  PROVE  IInv'
<1>1. ShapeInv /\ EntryInv /\ AskInv(a)
  BY DEF IInv
<1>2. /\ askPc[a] = "mkstemp"
      /\ UNCHANGED <<wall, entry, request, now, seen, listed, result, owed>>
  BY DEF Mkstemp
<1>3. temp[a] = NoTemp /\ NoTemp \notin Temps /\ result[a].source = "provider"
      /\ result[a].eval.of = request[a]
  BY <1>1, <1>2, CacheAssumption DEF AskInv, Storing
<1>4. EntryInv' /\ Stored' = Stored
  BY <1>1, <1>2 DEF EntryInv, Stored
<1>5. ASSUME NEW t \in Temps, tmp[t] = NoFile, \A b \in Asks : temp[b] # t,
             tmp' = [tmp EXCEPT ![t] = [eval |-> Recorded(result[a].eval), first |-> result[a].eval,
                                        mtime |-> wall, kind |-> "torn"]],
             temp' = [temp EXCEPT ![a] = t], askPc' = [askPc EXCEPT ![a] = "write"]
      PROVE  IInv'
  <2> DEFINE f == [eval |-> Recorded(result[a].eval), first |-> result[a].eval,
                   mtime |-> wall, kind |-> "torn"]
  <2>1. result[a].eval \in Evaluations
    BY <1>1, <1>3 DEF ShapeInv, Results
  <2>2. Recorded(result[a].eval) \in Evaluations /\ Recorded(result[a].eval).of = request[a]
    BY <1>3, <2>1 DEF Recorded, Evaluations
  <2>3. f \in Records /\ RecordOf(f, request[a])
    BY <1>1, <2>1, <2>2 DEF ShapeInv, Records, RecordOf
  <2> HIDE DEF f
  <2>4. ShapeInv'
    BY <1>1, <1>2, <1>5, <2>3 DEF ShapeInv, Labels, Storing, Files, f
  <2>5. /\ Others(a) /\ askPc'[a] = "write" /\ temp'[a] = t /\ tmp'[t] = f
        /\ \A u \in Temps : u # t => tmp'[u] = tmp[u]
    BY <1>1, <1>2, <1>5 DEF ShapeInv, Others, f
  <2>6. AskInv(a)'
    BY <1>1, <1>2, <1>3, <2>5 DEF AskInv, Reading, Storing
  <2>7. StageInv(a)'
    <3>1. \A b \in Asks : temp'[b] = t => a = b
      BY <1>5, <2>5 DEF Others
    <3> QED
      BY <1>2, <2>3, <2>5, <3>1 DEF StageInv
  <2>8. \A b \in Asks \ {a} : AskInv(b)' /\ StageInv(b)'
    BY <1>5, <2>5, OthersKept
  <2>9. BoundInv'
    BY <1>2, <1>3, <1>4, <2>5, StagingBound
  <2> QED
    BY <1>4, <2>4, <2>6, <2>7, <2>8, <2>9, Together
<1>6. CASE askPc' = [askPc EXCEPT ![a] = "idle"] /\ UNCHANGED <<tmp, temp>>
  <2>1. ShapeInv'
    BY <1>1, <1>2, <1>6 DEF ShapeInv, Labels
  <2>2. Others(a) /\ askPc'[a] = "idle"
    BY <1>1, <1>2, <1>6 DEF ShapeInv, Others
  <2>3. AskInv(a)'
    BY <1>1, <1>2, <1>3, <1>6, <2>2 DEF AskInv, Reading, Storing
  <2>4. StageInv(a)'
    BY <1>3, <1>6 DEF StageInv
  <2>5. \A b \in Asks \ {a} : AskInv(b)' /\ StageInv(b)'
    BY <1>6, <2>2, OthersKept
  <2>6. BoundInv'
    BY <1>2, <1>3, <1>4, <1>6, <2>2, StagingBound
  <2> QED
    BY <1>4, <2>1, <2>3, <2>4, <2>5, <2>6, Together
<1> QED
  BY <1>5, <1>6 DEF Mkstemp, AskAt

(* The text is written into the staging file, unless it is gone; on an     *)
(* error the file goes.                                                    *)
LEMMA WriteIInv ==
  ASSUME IInv, NEW a \in Asks, Write(a)
  PROVE  IInv'
<1>1. ShapeInv /\ EntryInv /\ AskInv(a) /\ StageInv(a)
  BY DEF IInv
<1>2. askPc[a] = "write" /\ UNCHANGED <<wall, entry, request, now, seen, listed, result, owed>>
  BY DEF Write
<1>3. temp[a] # NoTemp /\ temp[a] \in Temps
  BY <1>1, <1>2 DEF AskInv, ShapeInv
<1>4. EntryInv' /\ Stored' = Stored
  BY <1>1, <1>2 DEF EntryInv, Stored
<1>5. CASE /\ tmp' = [tmp EXCEPT ![temp[a]] =
                        IF @ = NoFile THEN @ ELSE [@ EXCEPT !.mtime = wall, !.kind = "whole"]]
           /\ askPc' = [askPc EXCEPT ![a] = "replace"] /\ temp' = temp
  <2> DEFINE f == tmp[temp[a]]
             g == [f EXCEPT !.mtime = wall, !.kind = "whole"]
  <2>1. f \in Files /\ tmp'[temp[a]] = (IF f = NoFile THEN f ELSE g)
        /\ \A t \in Temps : t # temp[a] => tmp'[t] = tmp[t]
    BY <1>1, <1>3, <1>5 DEF ShapeInv
  <2>2. f # NoFile => /\ g \in Records /\ g.kind = "whole"
                      /\ RecordOf(g, request[a])
    <3>1. ASSUME f # NoFile PROVE f \in Records /\ RecordOf(f, request[a])
      BY <1>1, <1>3, <2>1, <3>1 DEF StageInv, Files
    <3>2. wall \in 0..MaxWall
      BY <1>1 DEF ShapeInv
    <3> HIDE DEF f
    <3> QED
      BY <3>1, <3>2 DEF Records, RecordOf
  <2>3. tmp' \in [Temps -> Files]
    <3> HIDE DEF g
    <3>1. tmp' = [tmp EXCEPT ![temp[a]] = IF f = NoFile THEN f ELSE g]
      BY <1>1, <1>3, <1>5 DEF ShapeInv, g
    <3> QED
      BY <1>1, <2>1, <2>2, <3>1 DEF ShapeInv, Files
  <2> HIDE DEF f, g
  <2>4. ShapeInv'
    BY <1>1, <1>2, <1>5, <2>3 DEF ShapeInv, Labels, Storing
  <2>5. Others(a) /\ askPc'[a] = "replace"
    BY <1>1, <1>2, <1>5 DEF ShapeInv, Others
  <2>6. AskInv(a)'
    BY <1>1, <1>2, <1>3, <1>5, <2>5 DEF AskInv, Reading, Storing
  <2>7. StageInv(a)'
    BY <1>1, <1>2, <1>3, <1>5, <2>1, <2>2 DEF StageInv
  <2>8. \A b \in Asks \ {a} : AskInv(b)' /\ StageInv(b)'
    BY <1>5, <2>1, <2>5, OthersKept
  <2>9. BoundInv'
    BY <1>2, <1>4, <1>5, <2>1, <2>5, StagingBound
  <2> QED
    BY <1>4, <2>4, <2>6, <2>7, <2>8, <2>9, Together
<1>6. CASE /\ tmp' = [tmp EXCEPT ![temp[a]] = NoFile] /\ temp' = [temp EXCEPT ![a] = NoTemp]
           /\ askPc' = [askPc EXCEPT ![a] = "idle"]
  <2>1. ShapeInv'
    BY <1>1, <1>2, <1>6 DEF ShapeInv, Labels, Files
  <2>2. /\ Others(a) /\ askPc'[a] = "idle" /\ temp'[a] = NoTemp /\ tmp'[temp[a]] = NoFile
        /\ \A t \in Temps : t # temp[a] => tmp'[t] = tmp[t]
    BY <1>1, <1>2, <1>3, <1>6 DEF ShapeInv, Others
  <2>3. AskInv(a)'
    BY <1>1, <1>2, <2>2 DEF AskInv, Reading, Storing
  <2>4. StageInv(a)'
    BY <2>2 DEF StageInv
  <2>5. \A b \in Asks \ {a} : AskInv(b)' /\ StageInv(b)'
    BY <2>2, OthersKept
  <2>6. BoundInv'
    BY <1>2, <1>4, <2>2, StagingBound
  <2> QED
    BY <1>4, <2>1, <2>3, <2>4, <2>5, <2>6, Together
<1> QED
  BY <1>5, <1>6 DEF Write, AskAt

(* os.replace: a whole record becomes the entry of its own request, and    *)
(* its eviction is to come.                                                *)
LEMMA ReplaceIInv ==
  ASSUME IInv, NEW a \in Asks, Replace(a)
  PROVE  IInv'
<1>1. ShapeInv /\ EntryInv /\ AskInv(a) /\ StageInv(a)
  BY DEF IInv
<1>2. /\ askPc[a] = "replace" /\ temp' = [temp EXCEPT ![a] = NoTemp]
      /\ UNCHANGED <<wall, request, now, seen, listed, result, owed>>
  BY DEF Replace
<1>3. temp[a] # NoTemp /\ temp[a] \in Temps
  BY <1>1, <1>2 DEF AskInv, ShapeInv
<1>4. CASE /\ tmp[temp[a]] # NoFile
           /\ entry' = [entry EXCEPT ![Digest(request[a])] = tmp[temp[a]]]
           /\ tmp' = [tmp EXCEPT ![temp[a]] = NoFile]
           /\ askPc' = [askPc EXCEPT ![a] = "list"]
  <2> DEFINE f == tmp[temp[a]]
  <2>1. f \in Files /\ f.kind = "whole" /\ RecordOf(f, request[a])
    BY <1>1, <1>2, <1>3, <1>4 DEF ShapeInv, StageInv
  <2>2. request[a] \in Digests /\ Digest(request[a]) = request[a]
    BY <1>1 DEF ShapeInv, Digests, Digest
  <2> HIDE DEF f
  <2>3. entry' \in [Digests -> Files] /\ entry'[request[a]] = f
        /\ \A d \in Digests : d # request[a] => entry'[d] = entry[d]
    BY <1>1, <1>4, <2>1, <2>2 DEF ShapeInv, f
  <2>4. ShapeInv'
    BY <1>1, <1>2, <1>4, <2>3 DEF ShapeInv, Labels, Storing, Files
  <2>5. /\ Others(a) /\ askPc'[a] = "list" /\ temp'[a] = NoTemp /\ tmp'[temp[a]] = NoFile
        /\ \A t \in Temps : t # temp[a] => tmp'[t] = tmp[t]
    BY <1>1, <1>2, <1>3, <1>4 DEF ShapeInv, Others
  <2>6. AskInv(a)'
    BY <1>1, <1>2, <2>5 DEF AskInv, Reading, Storing
  <2>7. StageInv(a)'
    BY <2>5 DEF StageInv
  <2>8. \A b \in Asks \ {a} : AskInv(b)' /\ StageInv(b)'
    BY <2>5, OthersKept
  <2>9. EntryInv'
    BY <1>1, <2>1, <2>3 DEF EntryInv
  <2>10. BoundInv'
    <3>1. ~owed => TempsCovered'
      <4>1. ~owed => TempsCovered
        BY DEF IInv, BoundInv
      <4> QED
        BY <1>2, <2>5, <4>1, TempsKept
    <3>2. EntriesCovered'
      BY <2>5 DEF EntriesCovered
    <3> QED
      BY <1>2, <3>1, <3>2 DEF BoundInv
  <2> QED
    BY <2>4, <2>6, <2>7, <2>8, <2>9, <2>10, Together
<1>5. CASE tmp[temp[a]] = NoFile /\ askPc' = [askPc EXCEPT ![a] = "idle"] /\ UNCHANGED cacheDir
  <2>1. entry' = entry /\ tmp' = tmp
    BY <1>5 DEF cacheDir
  <2>2. ShapeInv'
    BY <1>1, <1>2, <1>5, <2>1 DEF ShapeInv, Labels
  <2>3. Others(a) /\ askPc'[a] = "idle" /\ temp'[a] = NoTemp
    BY <1>1, <1>2, <1>5 DEF ShapeInv, Others
  <2>4. AskInv(a)'
    BY <1>1, <1>2, <2>3 DEF AskInv, Reading, Storing
  <2>5. StageInv(a)'
    BY <2>3 DEF StageInv
  <2>6. \A b \in Asks \ {a} : AskInv(b)' /\ StageInv(b)'
    BY <2>1, <2>3, OthersKept
  <2>7. EntryInv' /\ Stored' = Stored
    BY <1>1, <2>1 DEF EntryInv, Stored
  <2>8. BoundInv'
    BY <1>2, <1>5, <2>1, <2>3, <2>7, StagingBound
  <2> QED
    BY <2>2, <2>4, <2>5, <2>6, <2>7, <2>8, Together
<1> QED
  BY <1>4, <1>5 DEF Replace, AskAt

--------------------------------------------------------------------------------
(* The eviction. *)

(* The listing sees everything, so whatever died before it is covered. *)
LEMMA ListIInv ==
  ASSUME IInv, NEW a \in Asks, List(a)
  PROVE  IInv'
<1>1. ShapeInv /\ EntryInv /\ AskInv(a)
  BY DEF IInv
<1> DEFINE l == [live |-> {d \in Digests : entry[d] # NoFile},
                 temps |-> {t \in Temps : tmp[t] # NoFile}]
<1>2. /\ askPc[a] = "list" /\ listed' = [listed EXCEPT ![a] = l] /\ owed' = FALSE
      /\ askPc' = [askPc EXCEPT ![a] = "sweep"]
      /\ UNCHANGED <<wall, entry, tmp, request, now, seen, temp, result>>
  BY DEF List, AskAt, cacheDir
<1>3. /\ l \in [live : SUBSET Digests, temps : SUBSET Temps]
      /\ l.live = Stored /\ l.temps = {t \in Temps : tmp[t] # NoFile}
  BY DEF Stored
<1> HIDE DEF l
<1>4. ShapeInv'
  BY <1>1, <1>2, <1>3 DEF ShapeInv, Labels, Storing
<1>5. Others(a) /\ askPc'[a] = "sweep" /\ listed'[a] = l
  BY <1>1, <1>2 DEF ShapeInv, Others
<1>6. temp[a] = NoTemp
  BY <1>1, <1>2 DEF AskInv
<1>7. AskInv(a)'
  BY <1>1, <1>2, <1>5, <1>6 DEF AskInv, Reading, Storing
<1>8. StageInv(a)'
  BY <1>2, <1>6 DEF StageInv
<1>9. \A b \in Asks \ {a} : AskInv(b)' /\ StageInv(b)'
  BY <1>2, <1>5, OthersKept
<1>10. EntryInv' /\ Stored' = Stored
  BY <1>1, <1>2 DEF EntryInv, Stored
<1>11. BoundInv'
  <2>1. TempsCovered'
    BY <1>2, <1>3, <1>5 DEF TempsCovered
  <2>2. EntriesCovered'
    BY <1>3, <1>5, <1>10 DEF EntriesCovered
  <2> QED
    BY <2>1, <2>2 DEF BoundInv
<1> QED
  BY <1>4, <1>7, <1>8, <1>9, <1>10, <1>11, Together

(* The staging files go, whoever's they are. *)
LEMMA SweepIInv ==
  ASSUME IInv, NEW a \in Asks, Sweep(a)
  PROVE  IInv'
<1>1. ShapeInv /\ EntryInv /\ AskInv(a)
  BY DEF IInv
<1>2. askPc[a] = "sweep" /\ UNCHANGED <<wall, entry, request, now, seen, temp, result, owed>>
  BY DEF Sweep
<1>3. temp[a] = NoTemp /\ NoTemp \notin Temps
  BY <1>1, <1>2, CacheAssumption DEF AskInv
<1>4. EntryInv' /\ Stored' = Stored
  BY <1>1, <1>2 DEF EntryInv, Stored
<1>5. ~owed => TempsCovered /\ (Cap > 0 => EntriesCovered)
  BY DEF IInv, BoundInv
<1>6. ASSUME NEW t \in listed[a].temps, tmp' = [tmp EXCEPT ![t] = NoFile],
             listed' = [listed EXCEPT ![a].temps = @ \ {t}], askPc' = askPc
      PROVE  IInv'
  <2>1. listed[a] \in [live : SUBSET Digests, temps : SUBSET Temps]
    BY <1>1 DEF ShapeInv
  <2>2. t \in Temps /\ tmp' \in [Temps -> Files] /\ tmp'[t] = NoFile
        /\ \A u \in Temps : u # t => tmp'[u] = tmp[u]
    BY <1>1, <1>6, <2>1 DEF ShapeInv, Files
  <2>3. listed' = [listed EXCEPT ![a] = [listed[a] EXCEPT !.temps = listed[a].temps \ {t}]]
    BY <1>1, <1>6 DEF ShapeInv
  <2>4. /\ listed' \in [Asks -> [live : SUBSET Digests, temps : SUBSET Temps]]
        /\ listed'[a].live = listed[a].live /\ listed'[a].temps = listed[a].temps \ {t}
        /\ \A b \in Asks \ {a} : listed'[b] = listed[b]
    BY <1>1, <2>1, <2>3 DEF ShapeInv
  <2>5. ShapeInv'
    BY <1>1, <1>2, <1>6, <2>2, <2>4 DEF ShapeInv
  <2>6. Others(a)
    BY <1>2, <1>6, <2>4 DEF Others
  <2>7. AskInv(a)'
    BY <1>1, <1>2, <1>6 DEF AskInv
  <2>8. StageInv(a)'
    BY <1>2, <1>3 DEF StageInv
  <2>9. \A b \in Asks \ {a} : AskInv(b)' /\ StageInv(b)'
    BY <1>2, <2>2, <2>6, OthersKept
  <2>10. ~owed => TempsCovered'
    BY <1>2, <1>3, <1>5, <1>6, <2>2, <2>4, <2>6, TempsKept
  <2>11. Covers(a) => EntriesCovered'
    BY <1>2, <1>4, <1>6, <2>4 DEF Covers, EntriesCovered
  <2>12. ~owed /\ Cap > 0 => EntriesCovered'
    BY <1>4, <1>5, <2>6, <2>11, EntriesKept
  <2>13. BoundInv'
    BY <1>2, <2>10, <2>12 DEF BoundInv
  <2> QED
    BY <1>4, <2>5, <2>7, <2>8, <2>9, <2>13, Together
<1>7. CASE listed[a].temps = {} /\ askPc' = [askPc EXCEPT ![a] = "rank"] /\ UNCHANGED <<tmp, listed>>
  <2>1. ShapeInv'
    BY <1>1, <1>2, <1>7 DEF ShapeInv, Labels, Storing
  <2>2. Others(a) /\ askPc'[a] = "rank"
    BY <1>1, <1>2, <1>7 DEF ShapeInv, Others
  <2>3. AskInv(a)'
    BY <1>1, <1>2, <1>3, <2>2 DEF AskInv, Reading, Storing
  <2>4. StageInv(a)'
    BY <1>2, <1>3 DEF StageInv
  <2>5. \A b \in Asks \ {a} : AskInv(b)' /\ StageInv(b)'
    BY <1>2, <1>7, <2>2, OthersKept
  <2>6. ~owed => TempsCovered'
    BY <1>2, <1>3, <1>5, <1>7, <2>2, TempsKept
  <2>7. Covers(a) => EntriesCovered'
    BY <1>2, <1>4, <1>7, <2>2 DEF Covers, EntriesCovered
  <2>8. ~owed /\ Cap > 0 => EntriesCovered'
    BY <1>4, <1>5, <2>2, <2>7, EntriesKept
  <2>9. BoundInv'
    BY <1>2, <2>6, <2>8 DEF BoundInv
  <2> QED
    BY <1>4, <2>1, <2>3, <2>4, <2>5, <2>9, Together
<1> QED
  BY <1>6, <1>7 DEF Sweep, AskAt

(* The entries past the cap are chosen: what is left of a listing that saw *)
(* them all fits.                                                          *)
LEMMA RankFits ==
  ASSUME NEW S \in SUBSET Digests, NEW live \in SUBSET Digests, S \in SUBSET live,
         NEW old \in SUBSET live, Cardinality(live) > Cap,
         Cardinality(old) = Cardinality(live) - Cap
  PROVE  Cardinality(S \ old) <= Cap
<1>1. IsFiniteSet(live) /\ Cardinality(live) \in Nat /\ Cap \in Nat
  BY StoredFinite, CacheAssumption
<1>2. /\ live \cap old = old
      /\ Cardinality(live \ old) = Cardinality(live) - Cardinality(live \cap old)
  BY <1>1, FS_Difference
<1>3. Cardinality(live \ old) <= Cap
  BY <1>1, <1>2
<1>4. live \ old \in SUBSET Digests /\ S \ old \in SUBSET (live \ old)
  OBVIOUS
<1> QED
  BY <1>3, <1>4, Fewer

(* The ranking. *)
LEMMA RankIInv ==
  ASSUME IInv, NEW a \in Asks, Rank(a)
  PROVE  IInv'
<1>1. ShapeInv /\ EntryInv /\ AskInv(a)
  BY DEF IInv
<1>2. askPc[a] = "rank" /\ UNCHANGED <<wall, entry, tmp, request, now, seen, temp, result, owed>>
  BY DEF Rank, cacheDir
<1>3. temp[a] = NoTemp /\ NoTemp \notin Temps
  BY <1>1, <1>2, CacheAssumption DEF AskInv
<1>4. EntryInv' /\ Stored' = Stored /\ Stored \in SUBSET Digests
  BY <1>1, <1>2 DEF EntryInv, Stored
<1>5. ~owed => TempsCovered /\ (Cap > 0 => EntriesCovered)
  BY DEF IInv, BoundInv
<1>6. listed[a] \in [live : SUBSET Digests, temps : SUBSET Temps]
  BY <1>1 DEF ShapeInv
<1>7. PICK l \in [live : SUBSET Digests, temps : SUBSET Temps], p \in {"idle", "evict"} :
        /\ listed' = [listed EXCEPT ![a] = l] /\ askPc' = [askPc EXCEPT ![a] = p]
        /\ \/ p = "idle" /\ (Cap = 0 \/ Cardinality(listed[a].live) <= Cap)
           \/ /\ p = "evict" /\ Cardinality(listed[a].live) > Cap /\ l.live \in SUBSET listed[a].live
              /\ Cardinality(l.live) = Cardinality(listed[a].live) - Cap
  <2>1. ASSUME NEW old \in Oldest(listed[a].live), listed' = [listed EXCEPT ![a].live = old]
        PROVE  \E l \in [live : SUBSET Digests, temps : SUBSET Temps] :
                 /\ listed' = [listed EXCEPT ![a] = l] /\ l.live \in SUBSET listed[a].live
                 /\ Cardinality(l.live) = Cardinality(listed[a].live) - Cap
    <3> DEFINE l == [listed[a] EXCEPT !.live = old]
    <3>1. old \in SUBSET listed[a].live /\ Cardinality(old) = Cardinality(listed[a].live) - Cap
      BY DEF Oldest
    <3>2. l \in [live : SUBSET Digests, temps : SUBSET Temps] /\ l.live = old
      BY <1>6, <3>1
    <3>3. listed' = [listed EXCEPT ![a] = l]
      BY <1>1, <2>1 DEF ShapeInv
    <3> HIDE DEF l
    <3> QED
      BY <3>1, <3>2, <3>3
  <2>2. NoListing \in [live : SUBSET Digests, temps : SUBSET Temps]
    BY DEF NoListing
  <2> QED
    BY <2>1, <2>2 DEF Rank, AskAt
<1>8. ShapeInv'
  BY <1>1, <1>2, <1>7 DEF ShapeInv, Labels, Storing
<1>9. Others(a) /\ askPc'[a] = p /\ listed'[a] = l
  BY <1>1, <1>2, <1>7 DEF ShapeInv, Others
<1>10. AskInv(a)'
  BY <1>1, <1>2, <1>3, <1>9 DEF AskInv, Reading, Storing
<1>11. StageInv(a)'
  BY <1>2, <1>3 DEF StageInv
<1>12. \A b \in Asks \ {a} : AskInv(b)' /\ StageInv(b)'
  BY <1>2, <1>9, OthersKept
<1>13. ~owed => TempsCovered'
  BY <1>2, <1>3, <1>5, <1>9, TempsKept
<1>14. Cap > 0 /\ Covers(a) => EntriesCovered'
  <2> SUFFICES ASSUME Cap > 0, Stored \in SUBSET listed[a].live PROVE EntriesCovered'
    BY <1>2 DEF Covers
  <2>1. CASE p = "idle"
    <3>1. Cardinality(listed[a].live) <= Cap
      BY <1>7, <2>1
    <3>2. listed[a].live \in SUBSET Digests
      BY <1>6
    <3>3. Cardinality(Stored) <= Cap
      BY <3>1, <3>2, Fewer
    <3> QED
      BY <1>4, <3>3 DEF EntriesCovered
  <2>2. CASE p = "evict"
    <3>1. Cardinality(Stored \ l.live) <= Cap
      BY <1>4, <1>6, <1>7, <2>2, RankFits
    <3> QED
      BY <1>4, <1>9, <2>2, <3>1 DEF EntriesCovered
  <2> QED
    BY <2>1, <2>2
<1>15. ~owed /\ Cap > 0 => EntriesCovered'
  BY <1>4, <1>5, <1>9, <1>14, EntriesKept
<1>16. BoundInv'
  BY <1>2, <1>13, <1>15 DEF BoundInv
<1> QED
  BY <1>4, <1>8, <1>10, <1>11, <1>12, <1>16, Together

(* One ranked entry goes, or the eviction is over. *)
LEMMA EvictIInv ==
  ASSUME IInv, NEW a \in Asks, Evict(a)
  PROVE  IInv'
<1>1. ShapeInv /\ EntryInv /\ AskInv(a)
  BY DEF IInv
<1>2. askPc[a] = "evict" /\ UNCHANGED <<wall, tmp, request, now, seen, temp, result, owed>>
  BY DEF Evict
<1>3. temp[a] = NoTemp /\ NoTemp \notin Temps
  BY <1>1, <1>2, CacheAssumption DEF AskInv
<1>4. ~owed => TempsCovered /\ (Cap > 0 => EntriesCovered)
  BY DEF IInv, BoundInv
<1>5. ASSUME NEW d \in listed[a].live, entry' = [entry EXCEPT ![d] = NoFile],
             listed' = [listed EXCEPT ![a].live = @ \ {d}], askPc' = askPc
      PROVE  IInv'
  <2>1. listed[a] \in [live : SUBSET Digests, temps : SUBSET Temps]
    BY <1>1 DEF ShapeInv
  <2>2. d \in Digests /\ entry' \in [Digests -> Files] /\ entry'[d] = NoFile
        /\ \A e \in Digests : e # d => entry'[e] = entry[e]
    BY <1>1, <1>5, <2>1 DEF ShapeInv, Files
  <2>3. listed' = [listed EXCEPT ![a] = [listed[a] EXCEPT !.live = listed[a].live \ {d}]]
    BY <1>1, <1>5 DEF ShapeInv
  <2>4. /\ listed' \in [Asks -> [live : SUBSET Digests, temps : SUBSET Temps]]
        /\ listed'[a].live = listed[a].live \ {d} /\ listed'[a].temps = listed[a].temps
        /\ \A b \in Asks \ {a} : listed'[b] = listed[b]
    BY <1>1, <2>1, <2>3 DEF ShapeInv
  <2>5. ShapeInv'
    BY <1>1, <1>2, <1>5, <2>2, <2>4 DEF ShapeInv
  <2>6. Others(a)
    BY <1>2, <1>5, <2>4 DEF Others
  <2>7. AskInv(a)'
    BY <1>1, <1>2, <1>5 DEF AskInv
  <2>8. StageInv(a)'
    BY <1>2, <1>3 DEF StageInv
  <2>9. \A b \in Asks \ {a} : AskInv(b)' /\ StageInv(b)'
    BY <1>2, <2>6, OthersKept
  <2>10. EntryInv' /\ Stored' = Stored \ {d} /\ Stored \in SUBSET Digests
    BY <1>1, <2>2 DEF EntryInv, Stored
  <2>11. ~owed => TempsCovered'
    BY <1>2, <1>3, <1>4, <2>6, TempsKept
  <2>12. Covers(a) => EntriesCovered'
    <3> SUFFICES ASSUME Cardinality(Stored \ listed[a].live) <= Cap PROVE EntriesCovered'
      BY <1>2 DEF Covers
    <3>1. /\ Stored \ listed[a].live \in SUBSET Digests
          /\ Stored' \ listed'[a].live \in SUBSET (Stored \ listed[a].live)
      BY <2>4, <2>10
    <3>2. Cardinality(Stored' \ listed'[a].live) <= Cap
      BY <3>1, Fewer
    <3> QED
      BY <1>2, <1>5, <3>2 DEF EntriesCovered
  <2>13. Stored' \in SUBSET Stored
    BY <2>10
  <2>14. ~owed /\ Cap > 0 => EntriesCovered'
    BY <1>4, <2>6, <2>12, <2>13, EntriesKept
  <2>15. BoundInv'
    BY <1>2, <2>11, <2>14 DEF BoundInv
  <2> QED
    BY <2>5, <2>7, <2>8, <2>9, <2>10, <2>15, Together
<1>6. CASE listed[a].live = {} /\ askPc' = [askPc EXCEPT ![a] = "idle"] /\ UNCHANGED <<entry, listed>>
  <2>1. ShapeInv'
    BY <1>1, <1>2, <1>6 DEF ShapeInv, Labels
  <2>2. Others(a) /\ askPc'[a] = "idle"
    BY <1>1, <1>2, <1>6 DEF ShapeInv, Others
  <2>3. AskInv(a)'
    BY <1>1, <1>2, <1>3, <2>2 DEF AskInv, Reading, Storing
  <2>4. StageInv(a)'
    BY <1>2, <1>3 DEF StageInv
  <2>5. \A b \in Asks \ {a} : AskInv(b)' /\ StageInv(b)'
    BY <1>2, <2>2, OthersKept
  <2>6. EntryInv' /\ Stored' = Stored
    BY <1>1, <1>6 DEF EntryInv, Stored
  <2>7. ~owed => TempsCovered'
    BY <1>2, <1>3, <1>4, <1>6, <2>2, TempsKept
  <2>8. Covers(a) => EntriesCovered'
    <3> SUFFICES ASSUME Cardinality(Stored \ listed[a].live) <= Cap PROVE EntriesCovered'
      BY <1>2 DEF Covers
    <3>1. Stored \ listed[a].live = Stored'
      BY <1>6, <2>6
    <3> QED
      BY <3>1 DEF EntriesCovered
  <2>9. ~owed /\ Cap > 0 => EntriesCovered'
    BY <1>4, <2>2, <2>6, <2>8, EntriesKept
  <2>10. BoundInv'
    BY <1>2, <2>7, <2>9 DEF BoundInv
  <2> QED
    BY <2>1, <2>3, <2>4, <2>5, <2>6, <2>10, Together
<1> QED
  BY <1>5, <1>6 DEF Evict, AskAt

(* A server dies: a store that was under way is owed an eviction. *)
LEMMA CrashIInv ==
  ASSUME IInv, NEW a \in Asks, Crash(a)
  PROVE  IInv'
<1>1. ShapeInv /\ EntryInv /\ AskInv(a)
  BY DEF IInv
<1>2. /\ askPc' = [askPc EXCEPT ![a] = "idle"] /\ temp' = [temp EXCEPT ![a] = NoTemp]
      /\ listed' = [listed EXCEPT ![a] = NoListing] /\ result' = [result EXCEPT ![a] = NoResult]
      /\ owed' = (owed \/ askPc[a] \in Storing)
      /\ now' = [now EXCEPT ![a] = 0] /\ seen' = [seen EXCEPT ![a] = NoFile]
      /\ UNCHANGED <<wall, entry, tmp, request>>
  BY DEF Crash, AskAt, Forget, cacheDir
<1>3. 0 \in 0..MaxWall
  BY CacheAssumption
<1>4. ShapeInv'
  <2>1. owed' \in BOOLEAN
    BY <1>2
  <2> QED
    BY <1>1, <1>2, <1>3, <2>1 DEF ShapeInv, Labels, Files, Results, NoResult, NoListing
<1>5. /\ Others(a) /\ askPc'[a] = "idle" /\ temp'[a] = NoTemp /\ result'[a] = NoResult
  BY <1>1, <1>2 DEF ShapeInv, Others
<1>6. AskInv(a)'
  BY <1>5 DEF AskInv, Reading, Storing, NoResult
<1>7. StageInv(a)'
  BY <1>5 DEF StageInv
<1>8. \A b \in Asks \ {a} : AskInv(b)' /\ StageInv(b)'
  BY <1>2, <1>5, OthersKept
<1>9. EntryInv' /\ Stored' = Stored
  BY <1>1, <1>2 DEF EntryInv, Stored
<1>10. BoundInv'
  <2> SUFFICES ASSUME ~owed, askPc[a] \notin Storing PROVE TempsCovered' /\ (Cap > 0 => EntriesCovered')
    BY <1>2 DEF BoundInv
  <2>1. TempsCovered /\ (Cap > 0 => EntriesCovered)
    BY DEF IInv, BoundInv
  <2>2. temp[a] = NoTemp /\ NoTemp \notin Temps /\ askPc[a] \notin {"list", "sweep", "rank", "evict"}
    BY <1>1, CacheAssumption DEF AskInv, Storing
  <2>3. TempsCovered'
    BY <1>2, <1>5, <2>1, <2>2, TempsKept
  <2>4. Cap > 0 => EntriesCovered'
    BY <1>5, <1>9, <2>1, <2>2, EntriesKept DEF Covers
  <2> QED
    BY <2>3, <2>4
<1> QED
  BY <1>4, <1>6, <1>7, <1>8, <1>9, <1>10, Together

(* Steps that touch nothing but the clock. *)
LEMMA TickIInv ==
  ASSUME IInv, wall' \in 0..MaxWall,
         UNCHANGED <<cacheDir, askPc, request, now, seen, temp, listed, result, owed>>
  PROVE  IInv'
<1> USE DEF cacheDir
<1>1. ShapeInv'
  BY DEF IInv, ShapeInv
<1>2. EntryInv'
  BY DEF IInv, EntryInv
<1>3. BoundInv'
  BY DEF IInv, BoundInv, TempsCovered, EntriesCovered, Stored
<1>4. \A a \in Asks : AskInv(a)' /\ StageInv(a)'
  BY DEF IInv, AskInv, StageInv
<1> QED
  BY <1>1, <1>2, <1>3, <1>4 DEF IInv

--------------------------------------------------------------------------------
(* The invariant. *)

(* Every step preserves it. *)
LEMMA NextIInv ==
  ASSUME IInv, [CacheNext]_cacheVars
  PROVE  IInv'
<1>1. ASSUME NEW a \in Asks, AskStep(a) PROVE IInv'
  BY <1>1, AskIInv, StatIInv, UnlinkIInv, ReadIInv, EvaluateIInv, MkstempIInv, WriteIInv,
     ReplaceIInv, ListIInv, SweepIInv, RankIInv, EvictIInv, CrashIInv DEF AskStep
<1>2. CASE Tick
  <2>1. wall' \in 0..MaxWall
    BY <1>2, CacheAssumption DEF Tick, IInv, ShapeInv
  <2> QED
    BY <1>2, <2>1, TickIInv DEF Tick
<1>3. CASE UNCHANGED cacheVars
  <2>1. wall' \in 0..MaxWall
    BY <1>3 DEF cacheVars, IInv, ShapeInv
  <2> QED
    BY <1>3, <2>1, TickIInv DEF cacheVars
<1> QED
  BY <1>1, <1>2, <1>3 DEF CacheNext

(* The invariant holds of every state. *)
THEOREM Invariant == CacheSpec => []IInv
<1>1. CacheInit => IInv
  BY InitIInv
<1>2. IInv /\ [CacheNext]_cacheVars => IInv'
  BY NextIInv
<1> QED
  BY <1>1, <1>2, PTL DEF CacheSpec

(* Every variable keeps its type, and an ask that stores holds an answer   *)
(* of the provider.                                                        *)
THEOREM TypesHold == CacheSpec => []CacheTypeOK
<1>1. ASSUME IInv PROVE CacheTypeOK
  <2>1. \A a \in Asks : /\ result[a] \in Results /\ AskInv(a)
    BY <1>1 DEF IInv, ShapeInv
  <2>2. \A a \in Asks :
          /\ result[a].source \in {"none", "cache", "provider", "error"}
          /\ result[a].source \in {"cache", "provider"} => result[a].eval \in Evaluations
    BY <2>1 DEF Results
  <2>3. \A a \in Asks : /\ askPc[a] \in Storing => result[a].source = "provider"
                        /\ askPc[a] \in {"write", "replace"} <=> temp[a] # NoTemp
    BY <2>1 DEF AskInv
  <2>4. ShapeInv
    BY <1>1 DEF IInv
  <2> QED
    BY <2>2, <2>3, <2>4 DEF ShapeInv, CacheTypeOK, Files, Labels
<1>2. IInv => CacheTypeOK
  BY <1>1
<1> QED
  BY <1>2, Invariant, PTL

(* What a lookup replays is a whole record of the answer to this very       *)
(* request, all of it but the request id, which had not expired when the    *)
(* lookup looked at it, whatever other servers store, sweep, evict or leave *)
(* half-written meanwhile (cache.py: lookup, store;                         *)
(* fsutil.write_private_atomic).                                            *)
THEOREM ReplaysAreHonest == CacheSpec => []ReplaysHonest
<1>1. ASSUME IInv PROVE ReplaysHonest
  <2>1. EntryInv /\ \A a \in Asks : AskInv(a)
    BY <1>1 DEF IInv
  <2>2. NoTornEntry
    BY <2>1 DEF EntryInv, NoTornEntry
  <2>3. ReplaysOwnRequest /\ ExpiredNotReplayed /\ ReplaysRecord
    BY <2>1 DEF AskInv, ReplaysOwnRequest, ExpiredNotReplayed, ReplaysRecord
  <2> QED
    BY <2>2, <2>3 DEF ReplaysHonest
<1>2. IInv => ReplaysHonest
  BY <1>1
<1> QED
  BY <1>2, Invariant, PTL

(* Once no store is under way, and unless a dead one is still owed an       *)
(* eviction, the directory holds no staging file and at most `cap` entries, *)
(* however many unlocked servers stored and evicted at once (_evict).       *)
THEOREM DirectoryIsBounded == CacheSpec => []DirectoryBounded
<1>1. ASSUME IInv, ~owed, \A a \in Asks : askPc[a] \notin Storing
      PROVE  /\ \A t \in Temps : tmp[t] = NoFile
             /\ Cap > 0 => Cardinality({d \in Digests : entry[d] # NoFile}) <= Cap
  <2>1. TempsCovered /\ (Cap > 0 => EntriesCovered)
    BY <1>1 DEF IInv, BoundInv
  <2>2. \A a \in Asks : temp[a] = NoTemp /\ askPc[a] \notin {"list", "sweep", "rank", "evict"}
    BY <1>1 DEF IInv, AskInv, Storing
  <2>3. NoTemp \notin Temps
    BY CacheAssumption
  <2>4. \A t \in Temps : tmp[t] = NoFile
    BY <2>1, <2>2, <2>3 DEF TempsCovered
  <2>5. Cap > 0 => Cardinality(Stored) <= Cap
    BY <2>1, <2>2 DEF EntriesCovered
  <2> QED
    BY <2>4, <2>5 DEF Stored
<1>2. IInv => DirectoryBounded
  BY <1>1 DEF DirectoryBounded
<1> QED
  BY <1>2, Invariant, PTL
================================================================================
