------------------------------ MODULE FastImport ------------------------------
(***************************************************************************)
(* fast_import_tables (src/kart/fast_import.py): importing a table source *)
(* into a dataset of the HEAD branch through `git fast-import`.            *)
(*                                                                         *)
(* The import streams a commit onto a temporary ref refs/kart-import/<uuid>*)
(* whose parent is from_commit: first the deletes of fast_import_clear_    *)
(* tree, then the features (or, with replace_ids, a delete and a write per *)
(* id), then the meta items.  When git-fast-import has finished, the      *)
(* branch is set by repo.create_commit to a copy of that commit, unless   *)
(* its tree is the tree it started from (NO_CHANGES); the `finally`       *)
(* deletes the temporary ref.                                              *)
(*                                                                         *)
(* Several importers (kart processes) run at once against one branch; any *)
(* of them may be killed at any step, and any git-fast-import subprocess  *)
(* may die while it is being written to.  A tree is a function from leaf  *)
(* paths <<dataset, item>> to blobs, item being a primary key or "meta";  *)
(* attachments and legends are left out (their blobs are copied back      *)
(* unchanged).                                                             *)
(***************************************************************************)
EXTENDS Naturals, Sequences, FiniteSets

CONSTANTS
    Importers,    \* concurrent kart processes running an import
    DS,           \* dataset paths
    KeyOrder,     \* the primary keys, in the order source.features() yields them
    Values,       \* feature and meta blobs
    Absent,       \* no blob at a path
    None,         \* None, for replace_ids and limit
    Branch,       \* the HEAD branch (repo.head_branch)
    InitTree,     \* the tree of the branch's first commit
    Opts,         \* the imports that may be run: [mode, src, ids, limit, allowEmpty]
    MaxCommits    \* bound on the number of commits

Keys == {KeyOrder[i] : i \in DOMAIN KeyOrder}
Items == Keys \cup {"meta"}
Leaves == DS \X Items
Blob == Values \cup {Absent}
Trees == [Leaves -> Blob]
NoCommit == 0

\* `source.dest_path in from_tree`
DatasetIn(d, t) == \E i \in Items : t[<<d, i>>] # Absent

-----------------------------------------------------------------------------
(* The command stream written to git-fast-import, and what it does.       *)
(* A "D" with item "dataset" deletes the whole dataset directory.          *)

Del(d, i) == [op |-> "D", ds |-> d, item |-> i, val |-> Absent]
Mod(d, i, v) == [op |-> "M", ds |-> d, item |-> i, val |-> v]

\* git fast-import applying one file command to the tree being built.
ApplyOp(t, c) ==
    [l \in Leaves |->
        IF l[1] # c.ds THEN t[l]
        ELSE IF c.op = "M" THEN (IF l[2] = c.item THEN c.val ELSE t[l])
        ELSE IF c.item = "dataset" \/ l[2] = c.item THEN Absent ELSE t[l]]

RECURSIVE Apply(_, _)
Apply(t, s) == IF s = <<>> THEN t ELSE Apply(ApplyOp(t, Head(s)), Tail(s))

\* Mutant: the dataset is never deleted, only its meta directory.
ClearTreeMetaOnly(o, fromTree) ==
    IF DatasetIn(o.src.dest, fromTree) THEN <<Del(o.src.dest, "meta")>> ELSE <<>>

\* fast_import_clear_tree: nothing when the dataset is new; else delete
\* the dataset, or with replace_ids only its meta items.
ClearTree(o, fromTree) ==
    IF ~DatasetIn(o.src.dest, fromTree) THEN <<>>
    ELSE IF o.ids = None THEN <<Del(o.src.dest, "dataset")>>
    ELSE <<Del(o.src.dest, "meta")>>

\* Whether the enumerate loop breaks after writing its n-th feature
\* (`i == limit - 1`).
AtLimit(o, n) == o.limit # None /\ n = o.limit

Present(o, k) == o.src.feats[k] # Absent

\* The features loop over source.features(): a write per feature, in
\* order, until the limit.
RECURSIVE FeatureOps(_, _, _)
FeatureOps(o, ks, n) ==
    IF ks = <<>> THEN <<>>
    ELSE IF Present(o, Head(ks))
         THEN <<Mod(o.src.dest, Head(ks), o.src.feats[Head(ks)])>>
              \o (IF AtLimit(o, n + 1) THEN <<>> ELSE FeatureOps(o, Tail(ks), n + 1))
         ELSE FeatureOps(o, Tail(ks), n)

\* Mutant: get_features without ignore_missing yields a missing id too.
RECURSIVE IdOpsNoIgnoreMissing(_, _, _)
IdOpsNoIgnoreMissing(o, ids, n) ==
    IF ids = <<>> THEN <<>>
    ELSE <<Del(o.src.dest, Head(ids)), Mod(o.src.dest, Head(ids), o.src.feats[Head(ids)])>>
         \o (IF AtLimit(o, n + 1) THEN <<>> ELSE IdOpsNoIgnoreMissing(o, Tail(ids), n + 1))

\* The features loop over get_features(_ids(), ignore_missing=True): the
\* generator _ids writes "D path" for each id it hands out; a feature the
\* source has is then written; the loop breaks after the limit-th feature,
\* and the ids after it are never handed out.
RECURSIVE IdOps(_, _, _)
IdOps(o, ids, n) ==
    IF ids = <<>> THEN <<>>
    ELSE IF Present(o, Head(ids))
         THEN <<Del(o.src.dest, Head(ids)), Mod(o.src.dest, Head(ids), o.src.feats[Head(ids)])>>
              \o (IF AtLimit(o, n + 1) THEN <<>> ELSE IdOps(o, Tail(ids), n + 1))
         ELSE <<Del(o.src.dest, Head(ids))>> \o IdOps(o, Tail(ids), n)

\* _import_single_source: clear (replace GIVEN only), features, meta.
SourceOps(o, fromTree) ==
    (IF o.mode = "GIVEN" THEN ClearTree(o, fromTree) ELSE <<>>)
    \o (IF o.ids = None THEN FeatureOps(o, KeyOrder, 0) ELSE IdOps(o, o.ids, 0))
    \o <<Mod(o.src.dest, "meta", o.src.meta)>>

-----------------------------------------------------------------------------

VARIABLES
    commits,    \* the commit store: sequence of [parents, tree, msg]
    branch,     \* the commit the branch points at
    tmp,        \* importer -> the commit of its refs/kart-import/<uuid>, or NoCommit
    pc,         \* importer -> "idle", "stream", "close", "commit", "cleanup"
    opt,        \* importer -> the import it runs
    from,       \* importer -> from_commit
    stream,     \* importer -> the commands written so far
    alive       \* importer -> whether its git-fast-import still reads its stdin

vars == <<commits, branch, tmp, pc, opt, from, stream, alive>>
imp == <<pc, opt, from, stream, alive>>

TreeOf(c) == IF c = NoCommit THEN [l \in Leaves |-> Absent] ELSE commits[c].tree

Init ==
    /\ commits = <<[parents |-> <<>>, tree |-> InitTree, msg |-> None]>>
    /\ branch = 1
    /\ tmp = [i \in Importers |-> NoCommit]
    /\ pc = [i \in Importers |-> "idle"]
    /\ opt = [i \in Importers |-> CHOOSE o \in Opts : TRUE]
    /\ from = [i \in Importers |-> NoCommit]
    /\ stream = [i \in Importers |-> <<>>]
    /\ alive = [i \in Importers |-> FALSE]

\* The commits an importer and the ones running beside it may still add
\* (a temporary commit and the branch commit each) fit under MaxCommits.
Room(i) ==
    Len(commits) + 2 * Cardinality({j \in Importers : pc[j] # "idle"} \cup {i}) <= MaxCommits

\* fast_import_tables up to the first write: from_commit is the branch
\* head, orig_branch = repo.head_branch, and git-fast-import is started.
\* DONT_REPLACE onto an existing dataset raises InvalidOperation before
\* anything is written, so that import is not started at all.
Start(i, o) ==
    /\ pc[i] = "idle"
    /\ Room(i)
    /\ o.mode = "DONT_REPLACE" => ~DatasetIn(o.src.dest, TreeOf(branch)) /\ o.ids = None
    /\ pc' = [pc EXCEPT ![i] = "stream"]
    /\ opt' = [opt EXCEPT ![i] = o]
    /\ from' = [from EXCEPT ![i] = branch]
    /\ stream' = [stream EXCEPT ![i] = <<>>]
    /\ alive' = [alive EXCEPT ![i] = TRUE]
    /\ UNCHANGED <<commits, branch, tmp>>

\* The loop over sources (one source per import): _import_single_source.
ImportSource(i) ==
    /\ pc[i] = "stream"
    /\ alive[i]
    /\ stream' = [stream EXCEPT ![i] = @ \o SourceOps(opt[i], TreeOf(from[i]))]
    /\ pc' = [pc EXCEPT ![i] = "close"]
    /\ UNCHANGED <<commits, branch, tmp, opt, from, alive>>

\* A write to a git-fast-import that has exited raises BrokenPipeError;
\* git_fast_import swallows it, waits, and raises SubprocessError for
\* the non-zero exit code.  The `finally` of fast_import_tables follows.
BrokenPipe(i) ==
    /\ pc[i] \in {"stream", "close"}
    /\ ~alive[i]
    /\ pc' = [pc EXCEPT ![i] = "cleanup"]
    /\ UNCHANGED <<commits, branch, tmp, opt, from, stream, alive>>

\* Any other exception inside the `with` (a source failing to read):
\* git_fast_import neither writes "done" nor waits, so its git-fast-import
\* ends on end of input without setting a ref; the `finally` follows.
SourceRaises(i) ==
    /\ pc[i] = "stream"
    /\ pc' = [pc EXCEPT ![i] = "cleanup"]
    /\ alive' = [alive EXCEPT ![i] = FALSE]
    /\ UNCHANGED <<commits, branch, tmp, opt, from, stream>>

\* git-fast-import exits early (bad input, disk full, signal).
FastImportDies(i) ==
    /\ pc[i] \in {"stream", "close"}
    /\ alive[i]
    /\ alive' = [alive EXCEPT ![i] = FALSE]
    /\ UNCHANGED <<commits, branch, tmp, pc, opt, from, stream>>

\* "done" is written and stdin closed: git-fast-import writes the commit
\* `from from_commit` with the streamed changes and sets the temporary ref.
Done(i) ==
    /\ pc[i] = "close"
    /\ alive[i]
    /\ commits' = Append(commits, [parents |-> <<from[i]>>,
                                   tree |-> Apply(TreeOf(from[i]), stream[i]),
                                   msg |-> opt[i]])
    /\ tmp' = [tmp EXCEPT ![i] = Len(commits')]
    /\ alive' = [alive EXCEPT ![i] = FALSE]
    /\ pc' = [pc EXCEPT ![i] = "commit"]
    /\ UNCHANGED <<branch, opt, from, stream>>

\* Mutant: the commit is written whatever the branch points at.
create_commit_unchecked(i, tree) ==
    /\ commits' = Append(commits, [parents |-> <<from[i]>>, tree |-> tree, msg |-> opt[i]])
    /\ branch' = Len(commits')

\* repo.create_commit(orig_branch, ..., existing_commit.parent_ids):
\* libgit2 refuses to update a ref that no longer points at the first
\* parent (GIT_EMODIFIED).
create_commit(i, tree) ==
    /\ branch = from[i]
    /\ commits' = Append(commits, [parents |-> <<from[i]>>, tree |-> tree, msg |-> opt[i]])
    /\ branch' = Len(commits')

\* After the `with`: NO_CHANGES when the imported tree is from_tree and
\* allow_empty is False, else the branch commit; then the `finally`.
CommitImport(i) ==
    /\ pc[i] = "commit"
    /\ LET newTree == commits[tmp[i]].tree IN
       \/ /\ ~opt[i].allowEmpty /\ newTree = TreeOf(from[i])
          /\ UNCHANGED <<commits, branch>>
       \/ /\ opt[i].allowEmpty \/ newTree # TreeOf(from[i])
          /\ create_commit(i, newTree)
       \/ /\ opt[i].allowEmpty \/ newTree # TreeOf(from[i])
          /\ branch # from[i]
          /\ UNCHANGED <<commits, branch>>
    /\ pc' = [pc EXCEPT ![i] = "cleanup"]
    /\ UNCHANGED <<tmp, opt, from, stream, alive>>

\* The `finally`: the temporary ref is deleted if it exists.
Cleanup(i) ==
    /\ pc[i] = "cleanup"
    /\ tmp' = [tmp EXCEPT ![i] = NoCommit]
    /\ pc' = [pc EXCEPT ![i] = "idle"]
    /\ UNCHANGED <<commits, branch, opt, from, stream, alive>>

\* The kart process is killed: no `finally` runs; its git-fast-import
\* sees stdin close without "done" and exits without setting any ref.
Crash(i) ==
    /\ pc[i] # "idle"
    /\ tmp' = [tmp EXCEPT ![i] = NoCommit]
    /\ pc' = [pc EXCEPT ![i] = "idle"]
    /\ alive' = [alive EXCEPT ![i] = FALSE]
    /\ UNCHANGED <<commits, branch, opt, from, stream>>

Next ==
    \E i \in Importers :
        \/ \E o \in Opts : Start(i, o)
        \/ ImportSource(i)
        \/ BrokenPipe(i)
        \/ SourceRaises(i)
        \/ FastImportDies(i)
        \/ Done(i)
        \/ CommitImport(i)
        \/ Cleanup(i)
        \/ Crash(i)

Spec == Init /\ [][Next]_vars

-----------------------------------------------------------------------------

Cmds == [op : {"D"}, ds : DS, item : Items \cup {"dataset"}, val : {Absent}]
        \cup [op : {"M"}, ds : DS, item : Items, val : Values]

TypeOK ==
    /\ \A c \in DOMAIN commits :
          /\ commits[c].tree \in Trees
          /\ \A p \in DOMAIN commits[c].parents : commits[c].parents[p] \in 1..(c - 1)
    /\ branch \in DOMAIN commits
    /\ \A i \in Importers :
          /\ pc[i] \in {"idle", "stream", "close", "commit", "cleanup"}
          /\ stream[i] \in Seq(Cmds)
          /\ tmp[i] \in {NoCommit} \cup DOMAIN commits

\* What an import means, read from the docstrings of fast_import_tables
\* and ReplaceExisting: the dataset's meta items are the source's; with
\* no replace_ids its features are the first `limit` features of the
\* source; with replace_ids, each id up to the one that reaches the
\* limit takes the source's feature, or is deleted when the source has
\* none, and every other feature is kept.
Before(s, j) == {p \in DOMAIN s : p < j}
FirstFeatures(o) ==
    {KeyOrder[j] : j \in {j \in DOMAIN KeyOrder :
        /\ Present(o, KeyOrder[j])
        /\ o.limit = None \/ Cardinality({p \in Before(KeyOrder, j) : Present(o, KeyOrder[p])}) < o.limit}}
ReplacedIds(o) ==
    {o.ids[j] : j \in {j \in DOMAIN o.ids :
        o.limit = None \/ Cardinality({p \in Before(o.ids, j) : Present(o, o.ids[p])}) < o.limit}}

ImportedTree(t, o) ==
    [l \in Leaves |->
        CASE l[1] # o.src.dest -> t[l]
          [] l[2] = "meta" -> o.src.meta
          [] o.ids = None -> IF l[2] \in FirstFeatures(o) THEN o.src.feats[l[2]] ELSE Absent
          [] l[2] \in ReplacedIds(o) -> o.src.feats[l[2]]
          [] OTHER -> t[l]]

\* The trees of the branch's first-parent chain, oldest first.
RECURSIVE FirstParentTrees(_)
FirstParentTrees(c) ==
    IF commits[c].parents = <<>> THEN <<commits[c].tree>>
    ELSE Append(FirstParentTrees(commits[c].parents[1]), commits[c].tree)

Abs == INSTANCE ImportAbstract WITH
           history <- FirstParentTrees(branch),
           Result <- ImportedTree

\* fast_import_tables implements ImportAbstract: whatever importers run
\* beside each other and whichever of them or their git-fast-import dies,
\* the branch only ever gains a commit whose parent is the commit it
\* pointed at and whose tree is that commit's tree with one whole import
\* applied (ImportedTree), never a tree equal to its parent's without
\* allow_empty, and never loses a commit (fast_import_clear_tree, the
\* features loops, the NO_CHANGES check and create_commit).
RefinesImportAbstract == Abs!Spec

=============================================================================
