---------------------------------- MODULE Vfs ----------------------------------
(***************************************************************************)
(* The sources of a project: crs/common/vfs.  A tar with /src of the image *)
(* (TarFS); over its repository the tar of the task's (MountFS), which in  *)
(* a delta task has the diff applied to it (DiffOverlayFS); over that the  *)
(* edits of each fork of the project (EditableOverlayFS).                  *)
(*                                                                         *)
(* What is read file by file and what is built, from the layers, must be   *)
(* the same sources.  Builds and file trees are kept on disk under the     *)
(* hash of the sources, for the project as it was and with the diff, in    *)
(* one place.  (What a Project remembers in memory: module Patching.)      *)
(* A path is a sequence of names; a tree is a function on paths.           *)
(***************************************************************************)
EXTENDS Integers, Sequences, FiniteSets, SequencesExt, FiniteSetsExt, Functions

CONSTANTS
  Names,      \* of files and directories
  Forks,      \* the project as it was ("base"), with the diff ("head"), and forks of them
  Image,      \* the tree of the image's /src
  Repo,       \* the tree of the repository's tar
  Commit,     \* the repository's files at an older commit
  Deltas,     \* what the diff may be: name |-> new contents, or Gone
  Edited,     \* the files that are edited
  Contents,   \* what an edit may write
  MaxWrites,  \* bound, of all forks
  MaxCalls,   \* bound: calls under way and what they have kept
  Gone        \* what a diff says of a file that it deletes

Given == {"base", "head"}
Mount == <<"repo">>   \* where the project's image has the repository
Folder == <<"top">>   \* the folder that the repository's tar consists of

IsTree(t) == DOMAIN t \subseteq Seq(Names) /\ t \in [DOMAIN t -> Range(t) \ {Gone}]
VfsAssumption ==
  /\ "repo" \in Names /\ "top" \in Names
  /\ IsTree(Image) /\ IsTree(Repo) /\ IsTree(Commit)
  /\ \A p \in DOMAIN Repo : IsPrefix(Folder, p)
  /\ \A d \in Deltas : DOMAIN d \subseteq Seq(Names)
  /\ Edited \subseteq Seq(Names) /\ Gone \notin Contents

VARIABLES
  delta,    \* the diff of the task
  overlay,  \* fork |-> [project, files, deleted, hash, writes], or of project "none"
  doing,    \* calls under way, between their awaits
  builds,   \* get_build_tar: hash |-> the tree that was built
  trees,    \* VFS_TREE_CACHE_DIR: hash |-> paths
  torn,     \* history: hashes of forks that were written before their layers were read
  sources   \* history: what the files of a fork should be

vfsVars == <<delta, overlay, doing, builds, trees, torn, sources>>

NoHash == <<>>
Empty == <<>>
Unread == [p \in {<<>>} |-> Gone]
Fresh(project) == [project |-> project, files |-> Empty, deleted |-> {}, hash |-> NoHash, writes |-> 0]

(***************************************************************************)
(* Layers.  extract_under strips a prefix; a command's arguments keep it.  *)
(***************************************************************************)
Tar(files) == [kind |-> "tar", at |-> <<>>, under |-> <<>>, files |-> files, paths |-> {}]
RmRf(paths) == [kind |-> "rm", at |-> <<>>, under |-> <<>>, files |-> Empty, paths |-> paths]
Checkout == [kind |-> "checkout", at |-> Mount, under |-> <<>>, files |-> Commit, paths |-> {}]

Over(files, tree) ==
  [p \in DOMAIN files \union DOMAIN tree |-> IF p \in DOMAIN files THEN files[p] ELSE tree[p]]
Only(p, value) == [q \in {p} |-> value]

Placed(l) ==
  LET here == {p \in DOMAIN l.files : IsPrefix(l.under, p)}
      Source(q) == l.under \o SubSeq(q, Len(l.at) + 1, Len(q))
  IN [q \in {l.at \o SubSeq(p, Len(l.under) + 1, Len(p)) : p \in here} |-> l.files[Source(q)]]

Without(tree, dirs) == Restrict(tree, {p \in DOMAIN tree : \A d \in dirs : ~IsPrefix(d, p)})

ApplyLayer(tree, l) ==
  CASE l.kind = "tar" -> Over(Placed(l), tree)
    [] l.kind = "rm" -> Without(tree, {l.at \o d : d \in l.paths})
    [] l.kind = "checkout" -> Over(Placed(l), Without(tree, {l.at}))
Materialized(layers) == FoldLeft(ApplyLayer, Empty, layers)

OverlayLayers(parent, files, deleted) ==
  IF files = Empty THEN parent
  ELSE parent \o <<Tar(files)>> \o IF deleted = {} THEN <<>> ELSE <<RmRf(deleted)>>

(***************************************************************************)
(* DiffOverlayFS: files the diff touches are taken from the tar, patched   *)
(* and kept.  (Sections on binary files are dropped first.)                *)
(***************************************************************************)
Patched == {n \in DOMAIN delta : delta[n] # Gone}
DiffFiles == [p \in {Folder \o n : n \in Patched} |-> delta[Tail(p)]]
DiffDeleted == {Folder \o n : n \in DOMAIN delta \ Patched}

OfTree(tree, p) == IF p \in DOMAIN tree THEN tree[p] ELSE Gone
Overlaid(files, deleted, below, p) ==
  IF p \in deleted THEN Gone ELSE IF p \in DOMAIN files THEN files[p] ELSE below

RepoRead(project, p) ==
  IF project = "base" THEN OfTree(Repo, p) ELSE Overlaid(DiffFiles, DiffDeleted, OfTree(Repo, p), p)
RepoIsFile(project, p) == p \in DOMAIN Repo \/ (project = "head" /\ p \in DOMAIN DiffFiles)
RepoLayers(project) ==
  IF project = "base" THEN <<Tar(Repo)>> ELSE OverlayLayers(<<Tar(Repo)>>, DiffFiles, DiffDeleted)
RepoHash(project) ==
  IF project = "base" \/ DiffFiles = Empty THEN <<>> ELSE <<DiffFiles, DiffDeleted>>

(***************************************************************************)
(* MountFS, and the overlay of a fork.                                     *)
(***************************************************************************)
MountRead(project, p) ==
  IF IsPrefix(Mount, p) THEN RepoRead(project, Folder \o Tail(p)) ELSE OfTree(Image, p)
MountIsFile(project, p) ==
  IF IsPrefix(Mount, p) THEN RepoIsFile(project, Folder \o Tail(p)) ELSE p \in DOMAIN Image
MountLayers(project) ==
  <<Tar(Image), RmRf({Mount})>> \o
    [k \in DOMAIN RepoLayers(project) |-> [RepoLayers(project)[k] EXCEPT !.at = Mount, !.under = Folder]]

Read(o, p) == Overlaid(o.files, o.deleted, MountRead(o.project, p), p)
IsFile(o, p) == p \in DOMAIN o.files \/ MountIsFile(o.project, p) \* a deleted file too
Layers(o) == OverlayLayers(MountLayers(o.project), o.files, o.deleted)
ComputeHash(o) == [repo |-> RepoHash(o.project), edits |-> IF o.files = Empty THEN <<>> ELSE <<o.files, o.deleted>>]
Hash(o) == IF o.hash = NoHash THEN <<ComputeHash(o)>> ELSE o.hash

\* GitTreeFS: the files at another commit, and those that were not in it as they are.
GitRead(o, p) == IF p \in DOMAIN Placed(Checkout) THEN Placed(Checkout)[p] ELSE Read(o, p)
GitLayers(o) == Append(Layers(o), Checkout)

(***************************************************************************)
(* What the sources should be, said without layers.                        *)
(***************************************************************************)
Changes(project) == IF project = "base" THEN Empty ELSE delta
NamesOf(project) == {Tail(p) : p \in DOMAIN Repo} \union DOMAIN Changes(project)
FileOf(project, n) == IF n \in DOMAIN Changes(project) THEN Changes(project)[n] ELSE Repo[Folder \o n]
Kept(project) == {n \in NamesOf(project) : FileOf(project, n) # Gone}
Intended(project) ==
  Over([p \in {Mount \o n : n \in Kept(project)} |-> FileOf(project, Tail(p))], Without(Image, {Mount}))

Paths == (UNION {DOMAIN sources[f] : f \in Forks}) \union DOMAIN Image
           \union {Mount \o Tail(p) : p \in DOMAIN Repo} \union {Mount \o n : n \in DOMAIN delta}

Init ==
  /\ delta \in Deltas
  /\ overlay = [f \in Forks |-> Fresh(IF f \in Given THEN f ELSE "none")]
  /\ sources = [f \in Forks |-> IF f \in Given THEN Intended(f) ELSE Empty]
  /\ doing = {} /\ builds = Empty /\ trees = Empty /\ torn = {}

Free(f) ==
  /\ overlay[f].project # "none"
  /\ Cardinality(doing) + Cardinality(DOMAIN builds) + Cardinality(DOMAIN trees) < MaxCalls
Call(f, tool, path, data, key) ==
  [fork |-> f, tool |-> tool, path |-> path, data |-> data, key |-> key,
   written |-> FALSE, tree |-> Unread]

NewFork(f, g) == \* fork(): the dictionaries are copied, the hash is not
  /\ overlay[f].project # "none" /\ overlay[g].project = "none"
  /\ overlay' = [overlay EXCEPT ![g] = [overlay[f] EXCEPT !.hash = NoHash]]
  /\ sources' = [sources EXCEPT ![g] = sources[f]]
  /\ UNCHANGED <<delta, doing, builds, trees, torn>>

\* write, of a file that could be read: it waits for the parent's mode of the file first.
Writes == MapThenSumSet(LAMBDA g : overlay[g].writes, Forks) + Cardinality({call \in doing : call.tool = "write"})
BeginWrite(f) ==
  /\ Free(f) /\ Writes < MaxWrites
  /\ \E p \in {q \in Edited : Read(overlay[f], q) # Gone}, d \in Contents :
       doing' = doing \union {Call(f, "write", p, d, NoHash)}
  /\ UNCHANGED <<delta, overlay, builds, trees, torn, sources>>

\* Mutant: the hash that was computed before the edit is kept.
WrittenOnly(o, p, d) ==
  [o EXCEPT !.files = Over(Only(p, d), @), !.deleted = @ \ {p}, !.writes = @ + 1]
Written(o, p, d) ==
  [o EXCEPT !.files = Over(Only(p, d), @), !.deleted = @ \ {p}, !.writes = @ + 1, !.hash = NoHash]

EndWrite(call) ==
  /\ call.tool = "write"
  /\ overlay' = [overlay EXCEPT ![call.fork] = Written(@, call.path, call.data)]
  /\ sources' = [sources EXCEPT ![call.fork] = Over(Only(call.path, call.data), @)]
  /\ doing' = {[c EXCEPT !.written = @ \/ c.fork = call.fork] : c \in doing \ {call}}
  /\ UNCHANGED <<delta, builds, trees, torn>>

\* _build and _tree: the name of the result is the hash now, the layers are read later.
BeginUse(f, tool, cache) ==
  LET h == Hash(overlay[f])
  IN /\ Free(f)
     /\ overlay' = [overlay EXCEPT ![f].hash = h]
     /\ doing' = IF h[1] \in DOMAIN cache THEN doing ELSE doing \union {Call(f, tool, <<>>, Gone, h)}
     /\ UNCHANGED <<delta, builds, trees, torn, sources>>
BeginBuild(f) == BeginUse(f, "build", builds)
BeginTree(f) == BeginUse(f, "tree", trees)

ReadLayers(call) ==
  /\ call.tool # "write" /\ call.tree = Unread
  /\ doing' = (doing \ {call}) \union {[call EXCEPT !.tree = Materialized(Layers(overlay[call.fork]))]}
  /\ torn' = IF call.written THEN torn \union {call.key[1]} ELSE torn
  /\ UNCHANGED <<delta, overlay, builds, trees, sources>>

EndBuild(call) ==
  /\ call.tool = "build" /\ call.tree # Unread
  /\ builds' = Over(Only(call.key[1], call.tree), builds)
  /\ doing' = doing \ {call}
  /\ UNCHANGED <<delta, overlay, trees, torn, sources>>

EndTree(call) == \* what another has written meanwhile stays
  /\ call.tool = "tree" /\ call.tree # Unread
  /\ trees' = Over(trees, Only(call.key[1], DOMAIN call.tree))
  /\ doing' = doing \ {call}
  /\ UNCHANGED <<delta, overlay, builds, torn, sources>>

Next ==
  \/ \E f, g \in Forks : NewFork(f, g)
  \/ \E f \in Forks : BeginWrite(f) \/ BeginBuild(f) \/ BeginTree(f)
  \/ \E call \in doing : EndWrite(call) \/ ReadLayers(call) \/ EndBuild(call) \/ EndTree(call)
VfsSpec == Init /\ [][Next]_vfsVars

(***************************************************************************)
(* Properties.                                                             *)
(***************************************************************************)
Used == {f \in Forks : overlay[f].project # "none"}

\* What a diff deletes stays in the layers: rm is given the name with the folder that extraction
\* leaves out.  (So it removes what lies below a folder of that name, if there is one.)
DeletedIn(project) == IF project = "base" THEN {} ELSE {n \in DOMAIN delta : delta[n] = Gone}
Astray(o, p) ==
  /\ p \notin DOMAIN o.files
  /\ \E n \in DeletedIn(o.project) : p = Mount \o n \/ IsPrefix(Mount \o Folder \o n, p)

\* A file reads as it should, deleted ones too, and the layers that are built hold the same
\* files, but for what the diff deletes.
LayersAreTheSources ==
  \A f \in Used :
    LET o == overlay[f]
        built == Materialized(Layers(o))
    IN /\ \A p \in Paths : Read(o, p) = OfTree(sources[f], p)
       /\ \A p \in Paths \union DOMAIN built : ~Astray(o, p) =>
            OfTree(built, p) = OfTree(sources[f], p) /\ IsFile(o, p) = (p \in DOMAIN sources[f])

\* At another commit too, but for files that were added to the repository since then.
CommitReadsAsBuilt ==
  \A f \in Used : \A p \in Paths :
    p \in DOMAIN Placed(Checkout) \/ ~IsPrefix(Mount, p) =>
      GitRead(overlay[f], p) = OfTree(Materialized(GitLayers(overlay[f])), p)

\* "hash() should never collide unless the contents are identical": a build, or a tree, that is
\* found on disk under the hash of a fork holds the fork's own layers, however builds, writes
\* and forks interleave; but for one whose fork was written between its hash and its layers.
CachesFit ==
  \A f \in Used :
    LET h == Hash(overlay[f])[1]
        built == Materialized(Layers(overlay[f]))
    IN h \notin torn =>
       /\ h \in DOMAIN builds => builds[h] = built
       /\ h \in DOMAIN trees => trees[h] = DOMAIN built
VfsIsCoherent == LayersAreTheSources /\ CommitReadsAsBuilt /\ CachesFit
=============================================================================
