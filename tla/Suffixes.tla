------------------------------- MODULE Suffixes -------------------------------
(***************************************************************************)
(* How a file that a tool names is found among the sources: PathSuffixTree *)
(* of src/path_suffix.rs over the tree of utils/path_suffix_tree.py, and   *)
(* the coverage that is kept by the names it gives: CoverageMap and        *)
(* query_coverage_raw of crs/modules/coverage.py.                          *)
(*                                                                         *)
(* A path is the sequence of its parts.  Compilers put directories of      *)
(* their own in front of the paths they report.                            *)
(***************************************************************************)
EXTENDS Integers, Sequences, FiniteSets, FiniteSetsExt, SequencesExt

CONSTANTS
  Names,     \* of directories and files
  Trees,     \* the sets of source files to begin with
  Reported,  \* paths that coverage may name
  Lines,     \* line numbers
  NameEnds,  \* pairs <<n, m>> of different names: n ends in the letters of m
  MaxHits,   \* bound: lines in the coverage of one run
  None

VARIABLES
  files,   \* the source files
  nodes,   \* their tree: a node is the end of a path, last part first
  told,    \* what the run covered: <<path, line>>
  lines,   \* CoverageMap.lines: normalized path -> lines that were hit
  answer   \* of query_coverage_raw: [target, line, reached, before, after], or None

suffixVars == <<files, nodes, told, lines, answer>>

Missing == <<>>  \* a CRSError; no path here is empty
Prefix(s, n) == SubSeq(s, 1, n)

SuffixAssumption ==
  /\ \A t \in Trees : t \subseteq Seq(Names) \ {<<>>} /\ IsFiniteSet(t)
  /\ Reported \subseteq Seq(Names) \ {<<>>}
  /\ \E n \in Lines \union {0} : Lines \subseteq 1..n
  /\ NameEnds \subseteq Names \X Names

Init ==
  /\ files \in Trees
  /\ nodes = UNION {{Prefix(Reverse(f), n) : n \in 0..Len(f)} : f \in files}
  /\ told = {}
  /\ lines = [p \in {} |-> {}]
  /\ answer = None

(***************************************************************************)
(* PathSuffixTree.                                                         *)
(***************************************************************************)
Children(n) == {m \in nodes : Len(m) = Len(n) + 1 /\ IsPrefix(n, m)}
Under(n) == {m \in nodes : IsPrefix(n, m)}
Leaves(n) == {m \in Under(n) : Children(m) = {}}

IsUnique(n) == \A m \in Under(n) : Cardinality(Children(m)) <= 1

\* normalize_path: walk in until the node is unique or the path ends.
Normalize(path) ==
  LET back == Reverse(path)
      stops == {n \in 1..Len(path) : Prefix(back, n) \notin nodes \/ IsUnique(Prefix(back, n))}
      last == IF stops = {} THEN Len(path) ELSE Min(stops)
  IN IF Prefix(back, last) \notin nodes THEN Missing ELSE Reverse(Prefix(back, last))

GetFullPaths(part) ==
  IF Reverse(part) \notin nodes THEN {} ELSE {Reverse(m) : m \in Leaves(Reverse(part))}

CheckPath(path) ==
  /\ Normalize(path) # Missing
  /\ GetFullPaths(Normalize(path)) = {path}

(***************************************************************************)
(* compute_coverage: each line of the run goes into the map.               *)
(***************************************************************************)
LinesOf(p) == IF p \in DOMAIN lines THEN lines[p] ELSE {}

\* Mutant: the path is used as the tool wrote it.
Verbatim(path) == path
Key(path) == Normalize(path)
AddLineHit(path, line) ==
  LET p == Key(path)
  IN /\ <<path, line>> \notin told /\ Cardinality(told) < MaxHits /\ answer = None
     /\ told' = told \union {<<path, line>>}
     /\ lines' = IF p = Missing THEN lines  \* an Err, which compute_coverage drops
                 ELSE [q \in DOMAIN lines \union {p} |-> IF q = p THEN LinesOf(p) \union {line} ELSE lines[q]]
     /\ UNCHANGED <<files, nodes, answer>>

(***************************************************************************)
(* query_coverage_raw.                                                     *)
(***************************************************************************)
LineCovered(target, line) == line \in LinesOf(Normalize(target))

\* str.endswith: the first part of p may begin inside a name of the target.
EndsWith(target, p) ==
  /\ Len(p) <= Len(target)
  /\ LET end == SubSeq(target, Len(target) - Len(p) + 1, Len(target))
     IN Tail(end) = Tail(p) /\ (Head(end) = Head(p) \/ <<Head(end), Head(p)>> \in NameEnds)

Nearby(target) == UNION {lines[p] : p \in {q \in DOMAIN lines : EndsWith(target, q)}}
Before(target, line) == LET s == {n \in Nearby(target) : n < line} IN IF s = {} THEN 0 ELSE Max(s)
After(target, line) == LET s == {n \in Nearby(target) : n > line} IN IF s = {} THEN 0 ELSE Min(s)

Query(target, line) ==
  /\ answer = None
  /\ Normalize(target) # Missing
  /\ LET hit == LineCovered(target, line)
     IN answer' = [target |-> target, line |-> line, reached |-> hit,
                   before |-> IF hit THEN 0 ELSE Before(target, line),
                   after |-> IF hit THEN 0 ELSE After(target, line)]
  /\ UNCHANGED <<files, nodes, told, lines>>

Next ==
  \/ \E p \in Reported, n \in Lines : AddLineHit(p, n)
  \/ \E f \in files, n \in Lines : Query(f, n)
SuffixSpec == Init /\ [][Next]_suffixVars

(***************************************************************************)
(* Properties.                                                             *)
(***************************************************************************)
\* The source file that a reported path means: the one whose end it shares, once only one
\* file is left that shares it.
Sharing(path, n) ==
  {f \in files : Len(f) >= n /\ Len(path) >= n /\ Prefix(Reverse(f), n) = Prefix(Reverse(path), n)}
Meant(path) == {f \in files : \E n \in 1..Len(path) : Sharing(path, n) = {f}}
HitLines(f) == {h[2] : h \in {x \in told : f \in Meant(x[1])}}

\* "Ensure *p* exists and is unambiguous": of the source files exactly those are found that
\* no other ends in.  "Return the unique suffix for *p*": two files share one only if one is
\* the end of the other, and a path that is reported gets one of the file it means.
PathsAreFound ==
  /\ \A f \in files : CheckPath(f) <=> \A g \in files : IsSuffix(f, g) => g = f
  /\ \A f, g \in files : Normalize(f) = Normalize(g) => IsSuffix(f, g) \/ IsSuffix(g, f)
  /\ \A p \in Reported : Normalize(p) # Missing => Meant(p) \subseteq GetFullPaths(Normalize(p))

\* The lines of the run that may be taken for lines of f: its own, and those of paths whose
\* suffix f ends in letter by letter, as src/xy.c ends in y.c.
Taken(f) == {h \in told : Normalize(h[1]) # Missing /\ EndsWith(f, Normalize(h[1]))}
Namesake(f) == \E g \in files \ {f} : IsSuffix(f, g) \/ IsSuffix(g, f)
Mistaken(f) == \E h \in Taken(f) : Normalize(h[1]) # Normalize(f)

\* The answer about a line of a file: what the run covered of the file is never said to be
\* missed, nor a nearer line left out; and it is of that file only, but for a file that is
\* the end of another, and for lines near by that endswith takes from another file.
AnswersAreOfTheFile ==
  answer # None =>
    LET f == answer.target
        lineHits == {h[2] : h \in Taken(f)}
    IN /\ HitLines(f) \subseteq lineHits
       /\ answer.line \in HitLines(f) => answer.reached
       /\ ~Namesake(f) => (answer.reached => answer.line \in HitLines(f))
       /\ ~Namesake(f) /\ ~Mistaken(f) => lineHits = HitLines(f)
       /\ ~answer.reached =>
            /\ answer.before = Max({0} \union {n \in lineHits : n < answer.line})
            /\ answer.after = LET s == {n \in lineHits : n > answer.line} IN IF s = {} THEN 0 ELSE Min(s)
CoverageIsTold == (told = {} => PathsAreFound) /\ AnswersAreOfTheFile  \* the tree never changes
===============================================================================
