------------------------------- MODULE MCAskCall -------------------------------
(* Small instances of jev_ask and of the one-question tools for TLC. *)
EXTENDS AskCall

MCCaps == [items |-> 3, classes |-> 3, pairs |-> 4, aspects |-> 1, options |-> 2, requirements |-> 1,
           candidates |-> 3, top_k |-> 2, files |-> 4, units |-> 2, levels |-> 3, fields |-> 2, file_units |-> 2,
           questions |-> 2, state |-> 2, output |-> 2, request |-> 4, discovery |-> 4, survivors |-> 2, skip_rows |-> 2]

MCNouls == {Absent, 29, 30, 70, 101}

Over(keys, choice, p, confidence) ==
  [object |-> TRUE, choice |-> choice, probabilities |-> [k \in keys |-> p[k]], confidence |-> confidence]

(* For each pick: certain; 60 against 40; sums at and past the tolerance;  *)
(* a pick that trails; a key too few; out of range; and a foreign choice.  *)
MCRawChoices(keys) ==
  LET spread(a, x, y) == LET b == CHOOSE b \in keys \ {a} : TRUE
                         IN  [k \in keys |-> IF k = a THEN x ELSE IF k = b THEN y ELSE 0]
      sound(a) == {Over(keys, a, spread(a, 100, 0), 50), Over(keys, a, spread(a, 60, 40), 49),
                   Over(keys, a, spread(a, 85, 15), 101), Over(keys, a, spread(a, 60, 40), Absent),
                   Over(keys, a, spread(a, 99, 0), 50)}
      broken(a) == {Over(keys, a, spread(a, 98, 0), 50), Over(keys, a, spread(a, 40, 60), 50),
                    Over(keys, a, spread(a, 101, 0), 50), Over(keys \ {a}, a, spread(a, 0, 100), 50),
                    Over(keys, <<"other", 9>>, spread(a, 100, 0), 50)}
  IN  {[object |-> FALSE]} \cup UNION {sound(a) : a \in keys} \cup broken(CHOOSE a \in keys : TRUE)

MCRawScores(levels) ==
  LET keys == 0..(levels - 1)
      sure(k) == [i \in keys |-> IF i = k THEN 100 ELSE 0]
  IN  {[object |-> FALSE], [object |-> TRUE, score |-> 50, probabilities |-> sure(0)],
       [object |-> TRUE, score |-> 100 * levels, probabilities |-> sure(0)],
       [object |-> TRUE, score |-> 100, probabilities |-> [i \in keys |-> 100]]}

Field(n, units, long, cut) ==
  [error |-> FALSE, candidates |-> n, units |-> units, too_long |-> long, truncated |-> cut]

MCFinds == {[Field(0, 0, 0, FALSE) EXCEPT !.error = TRUE], Field(0, 0, 0, FALSE), Field(0, 0, 1, FALSE),
            Field(0, 0, 0, TRUE), Field(1, 1, 0, FALSE), Field(1, 1, 1, FALSE), Field(2, 2, 0, TRUE)}

Strict == [auto_accept |-> 85, minimum_margin |-> 50]
Loose == [auto_accept |-> 40, minimum_margin |-> 20]
Inverted == [auto_accept |-> 101, minimum_margin |-> 50]

Classify(items, classes, t) ==
  [tool |-> "classify", items |-> items, classes |-> classes,
   auto_accept |-> t.auto_accept, minimum_margin |-> t.minimum_margin]

Generated == <<"item", 1>>
TwoClasses == <<<<"bug">>, Omitted>>

ClassifyJobs ==
  {Classify(i, TwoClasses, t) : i \in {<<Omitted>>, <<<<"x">>, Omitted>>}, t \in {Strict, Loose}}
    \cup {Classify(<<Generated, Omitted>>, TwoClasses, Strict), Classify(<<Omitted>>, <<<<"bug">>>>, Strict),
          Classify(<<Omitted, Omitted, Omitted>>, TwoClasses, Strict), Classify(<<Omitted>>, TwoClasses, Inverted)}

CompareJobs == {[tool |-> "compare", aspects |-> n, auto_accept |-> t.auto_accept,
                 minimum_margin |-> t.minimum_margin] : n \in 0..2, t \in {Strict, Loose}}

DecideJobs ==
  {[tool |-> "decide", ids |-> ids, requirements |-> n, hatches |-> h] :
     ids \in {<<<<"a">>, <<"b">>>>, <<<<"a">>, <<"a">>>>, <<<<"a">>, <<"none">>>>, <<<<"a">>>>}, n \in {1}, h \in BOOLEAN}

CandidateIds == {<<<<"a">>>>, <<Omitted, <<"candidate", 0>>>>, <<<<"a">>, <<"a">>, <<"a", 1>>>>,
                 <<<<"candidate", 1>>, Omitted, Omitted>>, <<>>}

RankJobs == {[tool |-> t, ids |-> ids, top_k |-> k, units |-> u] :
               t \in {"find", "rerank"}, ids \in CandidateIds, k \in {Absent, 2, 4}, u \in {1}}
              \cup {[tool |-> "rerank", ids |-> <<<<"a">>, <<"b">>>>, top_k |-> Absent, units |-> 3]}

ExtractJobs == {[tool |-> "extract", ids |-> ids, auto_accept |-> t.auto_accept, minimum_margin |-> t.minimum_margin] :
                  ids \in {<<<<"a">>, <<"b">>>>, <<<<"a">>, <<"a">>>>}, t \in {Strict}}
                \cup {[tool |-> "extract", ids |-> <<<<"a">>>>, auto_accept |-> 40, minimum_margin |-> 20]}

Question(kind, shape, size) ==
  [kind |-> kind, shape |-> shape, size |-> size, unknownKeys |-> FALSE, wellFormed |-> TRUE, named |-> TRUE, units |-> 1]

File(kind, bytes, units) ==
  [scoped |-> TRUE, name |-> "plain", kind |-> kind, bytes |-> bytes, units |-> units]
Plain == File("regular", 2, 1)

FileJobs ==
  {[tool |-> "file_judge", question |-> q, file |-> Plain] :
     q \in {Question("noul", "object", 2), Question("choice", "object", 2), Question("score", "array", 3),
            Question("score", "object", 3), Question("choice", "object", 1), Question("other", "object", 2)}}
    \cup {[tool |-> "file_judge", question |-> Question("noul", "object", 2), file |-> f] :
            f \in {[Plain EXCEPT !.scoped = FALSE], [Plain EXCEPT !.name = "secret"], File("missing", 0, 0),
                   File("directory", 0, 0), File("unstatable", 0, 0), File("unreadable", 1, 1), File("binary", 1, 1),
                   File("regular", 9, 3), File("regular", 8, 3)}}

Sized(jobs) == {j @@ [sized |-> TRUE] : j \in jobs} \cup {(CHOOSE j \in jobs : TRUE) @@ [sized |-> FALSE]}

MCJobs == UNION {Sized(jobs) : jobs \in {ClassifyJobs, CompareJobs, DecideJobs, RankJobs, ExtractJobs, FileJobs,
  {[tool |-> "score", levels |-> n] : n \in 1..3},
  {[tool |-> "screen", purpose |-> b, block_at |-> 70, review_at |-> r] : b \in BOOLEAN, r \in {30, 100, 101}}}}

Ask(own, paths, command, q) ==
  [tool |-> "ask", own |-> own, paths |-> paths, command |-> command, ask_commands |-> TRUE,
   questions |-> <<q>>]

Path(name, units) == [name |-> name, file |-> [File("regular", units, 1) EXCEPT !.units = units, !.bytes = units]]
Noul == Question("noul", "object", 2)
Paths(a, b, c) == <<Path(<<"f">>, a), Path(<<"f">>, a), Path(<<"state">>, b), Path(<<"g">>, c)>>

MCAskJobs == Sized(
  {Ask(own, <<>>, {}, Noul) : own \in 0..3}
    \cup {Ask(own, Paths(a, b, c), {}, Noul) : own \in 0..2, a, b, c \in 0..2}
    \cup {Ask(0, <<>>, {"plain"}, Noul), Ask(1, <<Path(<<"command output">>, 1)>>, {"plain"}, Noul)}
    \cup {[Ask(1, <<>>, {"plain"}, Noul) EXCEPT !.ask_commands = FALSE], Ask(1, <<>>, {"plain", "secret"}, Noul),
          Ask(1, <<>>, {}, Question("choice", "array", 2)), Ask(1, <<>>, {}, [Noul EXCEPT !.units = 5]), Ask(2, <<>>, {"plain"}, [Noul EXCEPT !.units = 3])})

(* jev_files_judge: links to a file, one of them with a skip-listed name,  *)
(* out of the scope and into a skip-listed directory, a secret, an empty   *)
(* and a dangling file.                                                    *)
Node(dir, base, real, file) == [dir |-> dir, base |-> base, real |-> real, file |-> file]

MCNames == <<"a", "b", "dist", "e", "f", "g", "h", "k", "l", "o">>
MCDirs == << <<>>, <<"a">>, <<"a", "dist">>, <<"b">> >>
MCTree ==
  << Node(<<>>, "dist", 3, Plain), Node(<<>>, "f", 2, Plain), Node(<<"a">>, "f", 3, Plain),
     Node(<<"a">>, "g", 2, Plain), Node(<<"a", "dist">>, "f", 5, Plain), Node(<<"b">>, "dist", 6, Plain),
     Node(<<"b">>, "e", 7, File("regular", 0, 0)), Node(<<"b">>, "h", 5, Plain),
     Node(<<"b">>, "k", 9, [Plain EXCEPT !.name = "secret"]), Node(<<"b">>, "l", 10, File("missing", 0, 0)),
     Node(<<"b">>, "o", 0, Plain) >>

Glob(segments, inside) == [what |-> "glob", parts |-> segments, inside |-> inside]
Entries ==
  {[what |-> "outside"], [what |-> "missing"]}
    \cup {[what |-> "dir", dir |-> d] : d \in Range(MCDirs)}
    \cup {[what |-> "file", node |-> n] : n \in {2, 4, 5, 9, 11}}
    \cup {Glob(p, TRUE) : p \in {<<"*">>, <<"**">>, <<"**", "f">>, <<"*", "*">>, <<"a", "**">>, <<"f", "**">>, <<"c", "*">>}}
    \cup {Glob(<<"*">>, FALSE)}

MCPathLists == {<<e>> : e \in Entries} \cup {<<d, e>> : d, e \in Entries}
================================================================================
