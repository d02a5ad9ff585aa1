--------------------------------- MODULE Edits ---------------------------------
(***************************************************************************)
(* How the patch agent's edits change a file, are listed and taken back:   *)
(* apply_hunk and fuzzy_patch of crs/common/fuzzy_patch.py, the alignment  *)
(* and compute_edit of src/patch.rs, Editor of crs/modules/source_editor.  *)
(*                                                                         *)
(* A hunk is aligned with the file by its lines, the added ones as gaps;   *)
(* an edit remembers the lines that changed, for undo and for the places   *)
(* of definitions that were indexed before.  A line is a token: equal or   *)
(* not alike at all.                                                       *)
(***************************************************************************)
EXTENDS Integers, Sequences, FiniteSets, SequencesExt, FiniteSetsExt

CONSTANTS
  Files,       \* what the file may hold at first
  Additions,   \* what a hunk may add
  Context,     \* bound: context lines an agent writes around the changed ones
  MaxLines,    \* bound: the longest file that is changed
  MaxPatches,  \* bound
  New, None    \* NEW_SENTINEL

VARIABLES
  original,  \* the file as it was indexed
  content,   \* vfs.files of the file
  patches,   \* editor.patches: the edits of each
  wanted,    \* history: what the file was to be, before and after each patch in force
  raised     \* history: undo_last_patch failed

editVars == <<original, content, patches, wanted, raised>>

Init ==
  /\ original \in Files /\ content = original
  /\ patches = <<>> /\ wanted = <<original>> /\ raised = FALSE

(***************************************************************************)
(* sw_align: Smith-Waterman, with the scores of long lines, times 100.     *)
(* Lines are counted from 1; None stands for a gap.                        *)
(***************************************************************************)
Score(x, y) == IF x = y THEN 200 ELSE -50
Gap(x) == IF x = New THEN 1 ELSE -50

NextRow(above, x, b) ==
  FoldLeft(LAMBDA row, j :
      Append(row, Max({0, above[j] + Score(x, b[j]), above[j + 1] + Gap(x), row[j] + Gap(b[j])})),
    <<0>>, [j \in 1..Len(b) |-> j])
Matrix(a, b) ==
  FoldLeft(LAMBDA rows, x : Append(rows, NextRow(Last(rows), x, b)), <<[j \in 1..Len(b) + 1 |-> 0]>>, a)

Top(m) == Max({Max(Range(m[i])) : i \in DOMAIN m})
Winners(m, top) ==
  {c \in (0..Len(m) - 1) \X (0..Len(m[1]) - 1) : m[c[1] + 1][c[2] + 1] = top}

Back(m, a, b, at) == \* one step of backtrack: match before delete before insert
  LET i == at.i  j == at.j
      best == m[i + 1][j + 1]
  IN IF i > 0 /\ j > 0 /\ best = m[i][j] + Score(a[i], b[j])
       THEN [i |-> i - 1, j |-> j - 1, path |-> <<[orig |-> i, hunk |-> j]>> \o at.path]
     ELSE IF i > 0 /\ best = m[i][j + 1] + Gap(a[i])
       THEN [at EXCEPT !.i = i - 1, !.path = <<[orig |-> i, hunk |-> None]>> \o @]
     ELSE [at EXCEPT !.j = j - 1, !.path = <<[orig |-> None, hunk |-> j]>> \o @]

Align(a, b) == \* the path, or none: no match, or several as good
  LET m == Matrix(a, b)
      best == Winners(m, Top(m))
      top == CHOOSE c \in best : TRUE
  IN IF a = <<>> THEN [j \in DOMAIN b |-> [orig |-> None, hunk |-> j]]
     ELSE IF Cardinality(best) # 1 \/ Top(m) < 200 THEN <<>>
     ELSE FoldLeft(LAMBDA at, k : IF m[at.i + 1][at.j + 1] = 0 THEN at ELSE Back(m, a, b, at),
                   [i |-> top[1], j |-> top[2], path |-> <<>>], [k \in 1..Len(a) + Len(b) |-> k]).path

(***************************************************************************)
(* apply_hunk.  A hunk is a sequence of <<type, line>>.                    *)
(***************************************************************************)
Pattern(elines) == [k \in DOMAIN elines |-> IF elines[k][1] = "+" THEN New ELSE elines[k][2]]

Kept(text, elines, pair) ==
  CASE pair.orig = None -> <<elines[pair.hunk][2]>>
    [] pair.hunk # None /\ elines[pair.hunk][1] = "-" -> <<>>
    [] OTHER -> <<text[pair.orig]>>

\* Up to where matching started: text[0:first], which is all of it when first is None.
Before(text, path) == IF Head(path).orig = None THEN text ELSE SubSeq(text, 1, Head(path).orig - 1)
LastOrig(path) == Max({0} \union {path[k].orig : k \in {k \in DOMAIN path : path[k].orig # None}})

Rest(text, path) == SubSeq(text, LastOrig(path) + 1, Len(text))

Fits(text, path) == path # <<>> /\ (LastOrig(path) > 0 \/ text = <<>>)
Patched(text, elines, path) ==
  Before(text, path) \o FlattenSeq([k \in DOMAIN path |-> Kept(text, elines, path[k])]) \o Rest(text, path)

(***************************************************************************)
(* compute_edit: the lines between the common start and the common end;    *)
(* nothing at all if one file starts with the other.  Lines count from 0.  *)
(***************************************************************************)
NoEdit == [none |-> TRUE, start |-> 0, end |-> 0, oldEnd |-> 0, before |-> <<>>]
Differ(a, b) == {i \in 0..Min({Len(a), Len(b)}) - 1 : a[i + 1] # b[i + 1]}

CommonEnd(a, b, start) == \* how many lines, from the end, until one differs or start is met
  Min({k \in 1..Min({Len(a), Len(b)}) :
         Len(a) - k = start \/ Len(b) - k = start \/ a[Len(a) - k + 1] # b[Len(b) - k + 1]})

ComputeEdit(a, b) ==
  IF Differ(a, b) = {} THEN NoEdit
  ELSE LET start == Min(Differ(a, b))
           k == CommonEnd(a, b, start)
       IN [none |-> FALSE, start |-> start, end |-> Len(b) - k + 1, oldEnd |-> Len(a) - k + 1,
           before |-> SubSeq(a, start + 1, Len(a) - k + 1)]

(***************************************************************************)
(* fuzzy_patch: hunk by hunk on an overlay; written back if all apply.     *)
(***************************************************************************)
Applied(text, hunks) ==
  FoldLeft(LAMBDA done, h :
      LET path == Align(done.text, Pattern(h))
          text2 == Patched(done.text, h, path)
      IN IF ~done.ok \/ ~Fits(done.text, path) THEN [done EXCEPT !.ok = FALSE]
         ELSE [ok |-> TRUE, text |-> text2, edits |-> Append(done.edits, ComputeEdit(done.text, text2))],
    [ok |-> TRUE, text |-> text, edits |-> <<>>], hunks)

\* A change: at a place of the file, how many lines are removed and which are added, and how
\* many lines around them the hunk shows.
Changes == [at : 0..MaxLines, del : 0..1, add : Additions \union {<<>>}, pre : 0..Context, post : 0..Context]
Sensible(text, p) ==
  /\ p.at - p.pre >= 0 /\ p.at + p.del + p.post <= Len(text)
  /\ p.del > 0 \/ p.add # <<>>
Places(text) == {p \in Changes : Sensible(text, p)}
Typed(type, lines) == [k \in DOMAIN lines |-> <<type, lines[k]>>]
HunkOf(text, p) ==
  Typed("", SubSeq(text, p.at - p.pre + 1, p.at)) \o Typed("-", SubSeq(text, p.at + 1, p.at + p.del))
    \o Typed("+", p.add) \o Typed("", SubSeq(text, p.at + p.del + 1, p.at + p.del + p.post))
Asked(text, p) ==
  SubSeq(text, 1, p.at) \o p.add \o SubSeq(text, p.at + p.del + 1, Len(text))

\* A hunk that begins with what it adds is not held by a line before it: at the start of the
\* file its first lines are lost, elsewhere text[0:None] is the whole file, once more.
Anchored(hunk) == Head(hunk)[1] # "+"

Ask(hunks, want) ==
  LET done == Applied(content, hunks)
  IN /\ done.ok /\ ~raised /\ Len(content) <= MaxLines
     /\ content' = done.text /\ patches' = Append(patches, done.edits)
     /\ wanted' = Append(wanted, IF \A k \in DOMAIN hunks : Anchored(hunks[k]) THEN want
                                 ELSE done.text)
     /\ UNCHANGED <<original, raised>>

ApplyPatch ==
  /\ Len(patches) < MaxPatches
  /\ \E p \in Places(content) : Ask(<<HunkOf(content, p)>>, Asked(content, p))

\* Bound: both hunks show as much of what is around them.
ApplyTwoHunks ==
  /\ Len(patches) < MaxPatches
  /\ \E p, q \in Places(content) :
       /\ p.pre = q.pre /\ p.post = q.post /\ p.at + p.del + p.post <= q.at - q.pre
       /\ Ask(<<HunkOf(content, p), HunkOf(content, q)>>, Asked(Asked(content, q), p))

\* rewrite_lines: the patch is a diff of the whole file, with three lines of context.  (A line
\* that is removed and added again would be context: such a rewrite is left out.)
CommonStart(a, b) == Min({Min({Len(a), Len(b)})} \union Differ(a, b))
CommonTail(a, b) ==
  LET k == CommonStart(a, b)
  IN Max({n \in 0..Min({Len(a), Len(b)}) - k : \A i \in 0..n - 1 : a[Len(a) - i] = b[Len(b) - i]})
DiffOf(a, b) ==
  LET k == CommonStart(a, b)  n == CommonTail(a, b)
  IN [at |-> k, del |-> Len(a) - k - n, add |-> SubSeq(b, k + 1, Len(b) - n),
      pre |-> Min({3, k}), post |-> Min({3, n})]

RewriteLines ==
  /\ Len(patches) < MaxPatches
  /\ \E start, end \in 0..Len(content), new \in Additions \union {<<>>} :
       /\ start <= end
       /\ LET want == SubSeq(content, 1, start) \o new \o SubSeq(content, end + 1, Len(content))
              p == DiffOf(content, want)
          IN /\ want # content /\ Sensible(content, p)
             /\ \A x \in ToSet(p.add) : ~Contains(SubSeq(content, p.at + 1, p.at + p.del), x)
             /\ Ask(<<HunkOf(content, p)>>, want)

(***************************************************************************)
(* undo_last_patch: the edits backwards.  An edit without a file cannot be *)
(* read, and the call fails with those before it already taken back; what  *)
(* is done after that is left out.                                         *)
(***************************************************************************)
Restored(text, e) == SubSeq(text, 1, e.start) \o e.before \o SubSeq(text, e.end + 1, Len(text))

\* Mutant: the edits of a patch are taken back in the order they were made.
Forwards(edits) == edits
Backwards(edits) == Reverse(edits)

UndoLastPatch ==
  /\ patches # <<>> /\ ~raised
  /\ LET edits == Backwards(Last(patches))
         bad == {k \in DOMAIN edits : edits[k].none}
         usable == IF bad = {} THEN edits ELSE SubSeq(edits, 1, Min(bad) - 1)
     IN /\ content' = FoldLeft(Restored, content, usable)
        /\ raised' = (bad # {})
        /\ patches' = IF bad = {} THEN Front(patches) ELSE patches
        /\ wanted' = IF bad = {} THEN Front(wanted) ELSE wanted
  /\ UNCHANGED original

Next == ApplyPatch \/ ApplyTwoHunks \/ RewriteLines \/ UndoLastPatch
EditsSpec == Init /\ [][Next]_editVars

(***************************************************************************)
(* fixup_line: where a line of the indexed file is now; a line of a hunk   *)
(* is rounded to its start, or to its end.  read_definition reads from the *)
(* first line of a definition up to the line behind its last.              *)
(***************************************************************************)
Moved(line, e, isStart) ==
  IF line > e.end THEN line + e.end - e.oldEnd
  ELSE IF line < e.start THEN line ELSE IF isStart THEN e.start ELSE e.end
FixupLine(line, isStart) ==
  FoldLeft(LAMBDA at, e : Moved(at, e, isStart), line, FlattenSeq(patches))

(***************************************************************************)
(* Properties.                                                             *)
(***************************************************************************)
\* The file holds what the patches in force asked for, one by one, wherever their hunks are
\* anchored, and after an undo exactly what it held before the patch (test_source_editor.py:42);
\* this is over when an undo has failed, which leaves the patch half taken back.
EditsAreExact == ~raised => content = Last(wanted)

Once(text, x) == Cardinality({k \in DOMAIN text : text[k] = x}) = 1
Position(text, x) == CHOOSE k \in DOMAIN text : text[k] = x
EditsInForce == FlattenSeq(patches)
Untouched(x) == \A k \in DOMAIN EditsInForce : ~Contains(EditsInForce[k].before, x)

\* fixup_line compares with the end of a hunk's new lines: where there are more of them than
\* before, those that were just behind are taken for lines of the hunk, and where there are
\* fewer, its own last lines for lines behind it.
Misjudged(line, isStart, Wrongly(_, _)) ==
  FoldLeft(LAMBDA at, e : [line |-> Moved(at.line, e, isStart),
                           wrong |-> at.wrong \/ Wrongly(at.line, e)],
           [line |-> line, wrong |-> FALSE], EditsInForce).wrong
Overrun(line) == Misjudged(line, TRUE, LAMBDA l, e : e.oldEnd < l /\ l <= e.end)
Mistaken(line) ==
  Misjudged(line, FALSE, LAMBDA l, e : (e.oldEnd < l /\ l <= e.end) \/ (e.end < l /\ l <= e.oldEnd))

\* A line outside the hunks, and not overrun by one, is found where it is now; and of a
\* definition whose ends are taken for what they are all the lines that are left are read,
\* whatever hunks are in it or over its ends (search_code.py:1045-1053).
Follows(x) == Untouched(x) /\ \A k \in DOMAIN wanted : Once(wanted[k], x)
LinesFollow ==
  ~raised =>
    \A x \in {x \in ToSet(original) : Follows(x)} :
      LET place == Position(original, x)
          now == Position(content, x)
      IN /\ ~Overrun(place) => FixupLine(place, TRUE) = now
         /\ \A first \in 1..place, behind \in place + 1..Len(original) + 1 :
              /\ ~Overrun(first) => FixupLine(first, TRUE) <= now
              /\ ~Mistaken(behind) => now < FixupLine(behind, FALSE)
EditsAreTracked == EditsAreExact /\ LinesFollow

\* "ensure we can undo": what was applied can be taken back.
UndoWorks == ~raised
=============================================================================
