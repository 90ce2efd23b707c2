------------------------------- MODULE FilesPlan -------------------------------
(***************************************************************************)
(* The deterministic half of jev_files_judge (tools/files_judge.py, plan): *)
(* the caller's paths are expanded inside the working directory, pruned,   *)
(* read and bounded before Jev is asked about any file.  FileCalls takes   *)
(* over from there.                                                        *)
(*                                                                         *)
(* A tree is a sequence of files in the order a walk meets them, each in a *)
(* directory (a sequence of names), with its own name, the file it         *)
(* resolves to (0: one outside the scope) and what read_state sees of it.  *)
(* A row's path is a file's number, or -n for the n-th of the caller's     *)
(* entries.                                                                *)
(***************************************************************************)
EXTENDS Judgments

CONSTANTS Tree,
          Dirs,             \* its directories, in the order a walk meets them
          Names,            \* the names in it, sorted
          SKIP_DIRECTORIES, \* names traversal never enters
          PathLists         \* the paths a caller may name

FileKinds == {"regular", "binary", "unreadable", "directory", "unstatable", "missing"}

(* The working directory and a file's own are directories, and so is every *)
(* directory on the way to one; no file has the path of a directory.       *)
ASSUME PlanAssumption ==
  /\ Caps.skip_rows \in Nat /\ Caps.discovery \in Nat /\ Caps.survivors \in Nat
  /\ List(Tree) /\ List(Dirs) /\ List(Names) /\ <<>> \in Range(Dirs)
  /\ \A d \in Range(Dirs) : /\ List(d) /\ Range(d) \subseteq Range(Names)
                            /\ \A k \in 0..Len(d) : SubSeq(d, 1, k) \in Range(Dirs)
  /\ \A i \in DOMAIN Tree : /\ Tree[i].dir \in Range(Dirs) /\ Tree[i].base \in Range(Names)
                            /\ Append(Tree[i].dir, Tree[i].base) \notin Range(Dirs)
                            /\ Tree[i].real \in 0..Len(Tree)
                            /\ Tree[i].file.kind \in FileKinds /\ Tree[i].file.units \in Nat
  /\ \A paths \in PathLists :
       /\ List(paths)
       /\ \A e \in Range(paths) : \/ e.what \in {"outside", "missing"}
                                  \/ e.what = "glob" /\ List(e.parts) /\ e.parts # <<>> /\ e.inside \in BOOLEAN
                                  \/ e.what = "dir" /\ e.dir \in Range(Dirs)
                                  \/ e.what = "file" /\ e.node \in DOMAIN Tree

(* The elements of s that are in S, in their order. *)
Among(s, S) ==
  LET upTo[k \in 0..Len(s)] ==
        IF k = 0 THEN <<>> ELSE IF s[k] \in S THEN Append(upTo[k - 1], s[k]) ELSE upTo[k - 1]
  IN  upTo[Len(s)]

is_file(i) == Tree[i].file.kind \notin {"missing", "unstatable", "directory"}
Skips(names) == Range(names) \cap SKIP_DIRECTORIES # {}
Below(d, e) == IsPrefix(d, e) /\ ~Skips(SubSeq(e, Len(d) + 1, Len(e)))
Numbers == [i \in DOMAIN Tree |-> i]

_walk(d, recursive) ==
  Among(Numbers, {i \in DOMAIN Tree : IF recursive THEN Below(d, Tree[i].dir) ELSE Tree[i].dir = d /\ is_file(i)})

fnmatchcase(name, segment) == segment \in {"*", name}

(* scan: the children a segment matches, skip-listed names aside. *)
Directory(d, name) == Append(d, name) \in Range(Dirs)
FileAt(d, name) == Among(Numbers, {i \in DOMAIN Tree : Tree[i].dir = d /\ Tree[i].base = name})
scan(d, segment) ==
  Among(Names, {x \in Range(Names) : /\ ~Skips(<<x>>) /\ fnmatchcase(x, segment)
                                     /\ Directory(d, x) \/ FileAt(d, x) # <<>>})

(* The directories a segment leads to from d: `**` any number of levels    *)
(* down, a name one.                                                       *)
Deeper(d, segment) ==
  LET kept == Among(scan(d, segment), {x \in Range(Names) : Directory(d, x)})
  IN  IF segment = "**" THEN Among(Dirs, {e \in Range(Dirs) : Below(d, e)})
      ELSE [i \in DOMAIN kept |-> Append(d, kept[i])]

(* _glob_files up to the last segment: the directories it is tried in. *)
Frontier(heads) ==
  LET level[n \in 0..Len(heads)] ==
        IF n = 0 THEN << <<>> >>
        ELSE FlattenSeq([k \in DOMAIN level[n - 1] |-> Deeper(level[n - 1][k], heads[n])])
  IN  level[Len(heads)]

(* Each directory of the frontier gives what the last segment matches, in  *)
(* the order of the names; a directory it matches is walked like one named.*)
_glob_files(segments, recursive) ==
  LET tail == Last(segments)
      frontier == Frontier(Front(segments))
      expanded(d, x) == IF Directory(d, x) THEN _walk(Append(d, x), recursive) ELSE Among(FileAt(d, x), {i \in DOMAIN Tree : is_file(i)})
      matched(d) == IF tail = "**" THEN _walk(d, TRUE) ELSE scan(d, tail)
      files(d) == IF tail = "**" THEN Among(matched(d), {i \in DOMAIN Tree : is_file(i)})
                  ELSE FlattenSeq([k \in DOMAIN matched(d) |-> expanded(d, matched(d)[k])])
  IN  [any |-> \E d \in Range(frontier) : matched(d) # <<>>,
       files |-> FlattenSeq([k \in DOMAIN frontier |-> files(frontier[k])])]

--------------------------------------------------------------------------------
Empty == [candidates |-> <<>>, skipped |-> <<>>, more |-> <<>>, unexpanded |-> 0, full |-> FALSE]

(* A row while there is room for it, and a count per reason afterwards. *)
skip(p, path, reason) ==
  IF Len(p.skipped) < Caps.skip_rows THEN [p EXCEPT !.skipped = Append(@, [path |-> path, reason |-> reason])]
  ELSE [p EXCEPT !.more = Append(@, reason)]

(* Fault: a file that another name has led to already is taken again. *)
discover_again(p, i, traversed) ==
  LET real == Tree[i].real
  IN  CASE Len(p.candidates) >= Caps.discovery -> [p EXCEPT !.unexpanded = @ + 1, !.full = TRUE]
        [] Len(p.candidates) < Caps.discovery /\ real = 0 -> skip(p, i, "outside_scope")
        [] Len(p.candidates) < Caps.discovery /\ real # 0 ->
             IF traversed /\ Skips(Append(Tree[real].dir, Tree[real].base)) THEN p
             ELSE [p EXCEPT !.candidates = Append(@, [at |-> i, real |-> real])]

(* One file: refused when discovery is full, taken once however often it   *)
(* is met, and judged by where it really is.  The skip list governs        *)
(* traversal, not a file the caller names.                                 *)
discover(p, i, traversed) ==
  LET real == Tree[i].real
      seen == {c.real : c \in Range(p.candidates)}
  IN  CASE Len(p.candidates) >= Caps.discovery -> [p EXCEPT !.unexpanded = @ + 1, !.full = TRUE]
        [] Len(p.candidates) < Caps.discovery /\ real \in seen -> p
        [] Len(p.candidates) < Caps.discovery /\ real = 0 -> skip(p, i, "outside_scope")
        [] Len(p.candidates) < Caps.discovery /\ real \notin seen \cup {0} ->
             IF traversed /\ Skips(Append(Tree[real].dir, Tree[real].base)) THEN p
             ELSE [p EXCEPT !.candidates = Append(@, [at |-> i, real |-> real])]

(* The files of one entry, until discovery is full. *)
DiscoverAll(p, files) ==
  LET upTo[k \in 0..Len(files)] ==
        IF k = 0 THEN [p EXCEPT !.full = FALSE]
        ELSE IF upTo[k - 1].full THEN upTo[k - 1] ELSE discover(upTo[k - 1], files[k], TRUE)
  IN  upTo[Len(files)]

(* _glob_pattern: an absolute pattern or one with `..` is refused. *)
ExpandGlob(p, n, e, recursive) ==
  LET found == _glob_files(e.parts, recursive)
  IN  IF ~e.inside THEN skip(p, -n, "outside_scope")
      ELSE IF ~found.any THEN skip(p, -n, "not_found") ELSE DiscoverAll(p, found.files)

ExpandDirectory(p, n, e, recursive) ==
  IF e.dir # <<>> /\ Skips(<<Last(e.dir)>>) THEN skip(p, -n, "skipped_directory")
  ELSE IF _walk(e.dir, recursive) = <<>> THEN skip(p, -n, "not_found")
  ELSE DiscoverAll(p, _walk(e.dir, recursive))

(* One of the caller's entries. *)
Expand(p, n, e, recursive) ==
  CASE e.what = "glob" -> ExpandGlob(p, n, e, recursive)
    [] e.what = "outside" -> skip(p, -n, "outside_scope")
    [] e.what = "missing" -> skip(p, -n, "not_found")
    [] e.what = "dir" -> ExpandDirectory(p, n, e, recursive)
    [] e.what = "file" -> IF Tree[e.node].real = 0 THEN skip(p, -n, "outside_scope")
                          ELSE discover(p, e.node, FALSE)

(* A refusal of the read, in the words of the batch. *)
_SKIP_REASONS == [not_found |-> "not_found", not_a_file |-> "not_found", binary_file |-> "binary",
                  secret_file |-> "secret_file", file_too_large |-> "too_large", path_outside_scope |-> "outside_scope"]

(* The candidates are read in order until enough of them survive. *)
ReadAll(p) ==
  LET upTo[k \in 0..Len(p.candidates)] ==
        IF k = 0 THEN [plan |-> p, survivors |-> <<>>, over |-> 0]
        ELSE LET before == upTo[k - 1]
                 c == p.candidates[k]
                 code == read_state(Tree[c.real].file)
             IN  CASE Len(before.survivors) = Caps.survivors -> [before EXCEPT !.over = @ + 1]
                   [] Len(before.survivors) < Caps.survivors /\ code # "none" ->
                        [before EXCEPT !.plan = skip(@, c.at, _SKIP_REASONS[code])]
                   [] Len(before.survivors) < Caps.survivors /\ code = "none" ->
                        IF Tree[c.real].file.units = 0 THEN [before EXCEPT !.plan = skip(@, c.at, "empty")]
                        ELSE [before EXCEPT !.survivors = Append(@, c.real)]
  IN  upTo[Len(p.candidates)]

plan(paths, recursive) ==
  LET upTo[n \in 0..Len(paths)] ==
        IF n = 0 THEN Empty ELSE Expand(upTo[n - 1], n, paths[n], recursive)
  IN  ReadAll(upTo[Len(paths)])

PlanFiles ==
  /\ stage = "idle"
  /\ \E paths \in PathLists, recursive \in BOOLEAN :
       LET p == plan(paths, recursive)
       IN  /\ job' = [tool |-> "files_judge", paths |-> paths, recursive |-> recursive]
           /\ Done([status |-> "planned", plan |-> p.plan, survivors |-> p.survivors, over |-> p.over])
  /\ UNCHANGED fields

--------------------------------------------------------------------------------
(* Do these path components match the pattern?  `**` is any number of      *)
(* them. m[i] is how many of them the first i segments may have used.      *)
Matches(segments, names) ==
  LET m[i \in 0..Len(segments)] ==
        IF i = 0 THEN {0}
        ELSE {j \in 0..Len(names) : IF segments[i] = "**" THEN \E k \in 0..j : k \in m[i - 1]
                                    ELSE j > 0 /\ fnmatchcase(names[j], segments[i]) /\ j - 1 \in m[i - 1]}
  IN  Len(names) \in m[Len(segments)]

(* What an entry stands for, file by file. A trailing `**` stands for      *)
(* directories; any other pattern for the files it matches and for what a  *)
(* directory it matches would stand for.                                   *)
StandsFor(e, i, recursive) ==
  LET under(d) == IF recursive THEN IsPrefix(d, Tree[i].dir) ELSE Tree[i].dir = d /\ is_file(i)
      path == Append(Tree[i].dir, Tree[i].base)
  IN  CASE e.what = "glob" -> /\ e.inside
                              /\ IF Last(e.parts) = "**"
                                 THEN Matches(e.parts, Tree[i].dir) /\ is_file(i) /\ ~Skips(Tree[i].dir)
                                 ELSE \/ Matches(e.parts, path) /\ is_file(i) /\ ~Skips(path)
                                      \/ \E d \in Range(Dirs) : Matches(e.parts, d) /\ under(d) /\ ~Skips(Tree[i].dir)
        [] e.what = "dir" -> under(e.dir) /\ Below(e.dir, Tree[i].dir) /\ ~(e.dir # <<>> /\ Skips(<<Last(e.dir)>>))
        [] e.what = "file" -> i = e.node
        [] OTHER -> FALSE

(* plan's docstring: a file is judged once, only if it is in scope, can be *)
(* read and is no secret store, in a skip-listed directory only if it was  *)
(* named.  Unless discovery stopped, a file that the caller's paths stand  *)
(* for is judged, has a row, or is counted under a bound that was met --   *)
(* but for those in `pruned`: discover drops without a row a file that is  *)
(* reached by a link and not by its name when it lies in a skip-listed     *)
(* directory.  ADR-0077 has every pruned path reported; the code does not. *)
PlanHonest ==
  result.status = "planned" =>
    LET named == {e.node : e \in {x \in Range(job.paths) : x.what = "file"}}
        meant == {i \in DOMAIN Tree : \E e \in Range(job.paths) : StandsFor(e, i, job.recursive)}
        pruned == {i \in meant \ named : Tree[i].real # 0 /\
                     Skips(Append(Tree[Tree[i].real].dir, Tree[Tree[i].real].base))}
        wanted == {Tree[i].real : i \in meant \ pruned} \ {0}
        rows == {r.path : r \in Range(result.plan.skipped)}
        listed == {Tree[i].real : i \in rows \cap DOMAIN Tree}
        judged == Range(result.survivors)
    IN  /\ IsInjective(result.survivors) /\ judged \subseteq wanted
        /\ \A r \in judged : Tree[r].file.kind = "regular" /\ Tree[r].file.name # "secret" /\ Tree[r].file.units > 0
        /\ result.plan.unexpanded = 0 =>
             Cardinality(wanted \ (judged \cup listed)) <= result.over + Len(result.plan.more)
        /\ result.over > 0 => Len(result.survivors) = Caps.survivors
        /\ result.plan.more # <<>> => Len(result.plan.skipped) = Caps.skip_rows
        /\ \A n \in DOMAIN job.paths :
             (\A i \in DOMAIN Tree : ~StandsFor(job.paths[n], i, job.recursive)) /\ job.paths[n].what # "glob" =>
               -n \in rows \/ result.plan.more # <<>>
================================================================================
