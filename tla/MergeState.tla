----------------------------- MODULE MergeState -----------------------------
(***************************************************************************)
(* The merge / resolve state machine of Kart (src/kart/merge.py,          *)
(* src/kart/resolve.py, KartRepo.state in src/kart/repo.py).              *)
(*                                                                         *)
(* Every `kart merge`, `kart resolve`, `kart merge --continue` and         *)
(* `kart merge --abort` is a separate process that runs to completion or  *)
(* dies; each of the Procs runs one command at a time, and nothing in the *)
(* code keeps two of them from running at once.  A command's persistent  *)
(* effects (a ref update, one gitdir file written or removed, the working *)
(* copy reset) are separate steps, and a Crash may happen between any two *)
(* of them.  The "merging" state lives    *)
(* only in the gitdir files MERGE_HEAD, MERGED_INDEX, MERGED_TREE,         *)
(* MERGE_MSG and MERGE_BRANCH, so whatever a crash leaves behind is what   *)
(* the next command sees.                                                  *)
(*                                                                         *)
(* Data is abstracted to what the properties tell apart: a tree is a       *)
(* function from a few feature keys to a few blob values (or Absent), a    *)
(* commit is a record of parents, tree and message, and the Git object     *)
(* store's three-way tree merge is a per-key rule.                         *)
(***************************************************************************)
EXTENDS Naturals, Sequences, FiniteSets, TLC

CONSTANTS
    Keys,           \* feature paths in the merged dataset
    Values,         \* feature blob contents
    Absent,         \* no blob at that path
    ConflictMark,   \* result of a three-way merge that does not resolve
    HeadBranch,     \* the branch HEAD is attached to
    ForkBranch,     \* a branch forked from the root commit
    AheadBranch,    \* a branch whose tip descends from HEAD
    BaseTree,       \* tree of the root commit
    InitTrees,      \* trees the other initial commits may have
    MaxCommits,     \* bound on the number of commits in the object store
    Procs,          \* kart processes that may run a command at the same time
    IntoRefs        \* values of `kart merge --into`: "HEAD" and branches

MergeBranches == {ForkBranch, AheadBranch}
Branches == {HeadBranch} \cup MergeBranches
Blob == Values \cup {Absent}
Trees == [Keys -> Blob]
NoCommit == 0

\* Gitdir files of the merging state (KartRepoFiles, repo.py).
MERGE_HEAD == "MERGE_HEAD"
MERGED_INDEX == "MERGED_INDEX"
MERGED_TREE == "MERGED_TREE"
MERGE_MSG == "MERGE_MSG"
MERGE_BRANCH == "MERGE_BRANCH"
MergeFiles == {MERGE_HEAD, MERGED_INDEX, MERGED_TREE, MERGE_MSG, MERGE_BRANCH}

VARIABLES
    commits,      \* the object store: commit id i is commits[i]
    refs,         \* branch -> commit id
    files,        \* merge-state files present in the gitdir
    mergedIndex,  \* content of MERGED_INDEX (last written)
    mergeCtx,     \* content of MERGE_HEAD / ORIG_HEAD / MERGE_BRANCH
    mergeMsg,     \* content of MERGE_MSG
    wc,           \* working-copy contents of the dataset
    wcBase,       \* commit the working copy was last reset to
    pc,           \* process -> step of its command, "idle" when it runs none
    cmd           \* process -> local variables of its command

vars == <<commits, refs, files, mergedIndex, mergeCtx, mergeMsg, wc, wcBase, pc, cmd>>

-----------------------------------------------------------------------------
(* The commit graph and the Git object store's contracts.                 *)

RECURSIVE Ancestors(_, _)
\* A commit and every commit reachable through its parents.
Ancestors(g, c) ==
    {c} \cup UNION {Ancestors(g, g[c].parents[i]) : i \in DOMAIN g[c].parents}

\* `git merge-base`: the common ancestor that every other one is an ancestor of.
merge_base(g, x, y) ==
    LET common == Ancestors(g, x) \cap Ancestors(g, y)
        best == {m \in common : \A d \in common : d \in Ancestors(g, m)}
    IN IF best = {} THEN NoCommit ELSE CHOOSE m \in best : TRUE

\* Git's three-way merge of one path, with find_renames=False.
MergeKey(a, o, t) ==
    IF o = t THEN o
    ELSE IF o = a THEN t
    ELSE IF t = a THEN o
    ELSE ConflictMark

\* Mutant: a ref update that does not check the ref's current tip.
create_commit_unchecked(branch, parents, tree, msg) ==
    /\ Len(commits) < MaxCommits
    /\ commits' = Append(commits, [parents |-> parents, tree |-> tree, msg |-> msg])
    /\ refs' = [refs EXCEPT ![branch] = Len(commits) + 1]

\* repo.create_commit(ref, ..., tree, parents): appends a commit and moves
\* the ref.  libgit2 refuses to move a ref whose tip is not the first parent.
create_commit(branch, parents, tree, msg) ==
    /\ refs[branch] = parents[1]
    /\ Len(commits) < MaxCommits
    /\ commits' = Append(commits, [parents |-> parents, tree |-> tree, msg |-> msg])
    /\ refs' = [refs EXCEPT ![branch] = Len(commits) + 1]

-----------------------------------------------------------------------------
(* MergedIndex: the result of merge_trees(ancestor, ours, theirs) plus the *)
(* resolutions recorded by `kart resolve`.                                 *)

\* do_merge: tree3 = commit_with_ref3.map(lambda c: c.tree); merge_trees(**tree3)
MergedIndexOf(anc, ours, theirs) ==
    [anc |-> commits[anc].tree, ours |-> commits[ours].tree,
     theirs |-> commits[theirs].tree, resolves |-> <<>>]

MergedValue(idx, k) == MergeKey(idx.anc[k], idx.ours[k], idx.theirs[k])

Conflicts(idx) == {k \in Keys : MergedValue(idx, k) = ConflictMark}

Unresolved(idx) == Conflicts(idx) \ DOMAIN idx.resolves

\* Mutant: the resolved tree takes "ours" wherever there was no conflict.
ResolvedTreeOursOnly(idx) ==
    [k \in Keys |-> IF k \in Conflicts(idx) THEN idx.resolves[k] ELSE idx.ours[k]]

\* MergedIndex.write_resolved_tree: clean entries plus every resolution.
ResolvedTree(idx) ==
    [k \in Keys |-> IF k \in Conflicts(idx) THEN idx.resolves[k] ELSE MergedValue(idx, k)]

EmptyIndex == [anc |-> BaseTree, ours |-> BaseTree, theirs |-> BaseTree, resolves |-> <<>>]
NoCtx == [ours |-> NoCommit, theirs |-> NoCommit, branch |-> "none"]
NoCmd == [i |-> 0, ongoing |-> FALSE, ctx |-> NoCtx, index |-> EmptyIndex]

-----------------------------------------------------------------------------
(* KartRepo.state and the working-copy checks.                            *)

\* repo.state raises NotFound when MERGE_HEAD exists without MERGED_INDEX.
StateReadable == MERGE_HEAD \in files => MERGED_INDEX \in files
Merging == MERGE_HEAD \in files
Dirty == wc # commits[wcBase].tree

\* Mutant: MERGE_HEAD written before MERGED_INDEX.
MergingWriteOrderHeadFirst == <<MERGE_HEAD, MERGED_INDEX, MERGE_MSG, MERGED_TREE>>

\* The order move_repo_to_merging_state writes the merging-state files.
MergingWriteOrder == <<MERGED_INDEX, MERGE_HEAD, MERGE_MSG, MERGED_TREE>>

\* merge_util.ALL_MERGE_FILES: the order --continue and --abort remove them.
AllMergeFiles == <<MERGE_HEAD, MERGED_INDEX, MERGED_TREE, MERGE_MSG, MERGE_BRANCH>>

-----------------------------------------------------------------------------
(* kart merge COMMIT [--no-ff] [--ff-only] [--fail-on-conflict]           *)

\* merge(): get_repo(allowed_states=NORMAL) reads repo.state, then
\* check_not_dirty.
MergeAllowed == StateReadable /\ ~Merging /\ ~Dirty

\* merge(): `--into` another ref than "HEAD" forces fail_on_conflict.
FailOnConflict(into, failOnConflict) == failOnConflict \/ into # "HEAD"

\* merge() after do_merge: reset_to_head only when merging into "HEAD";
\* a merge into another ref, or one that fails on conflicts, returns.
AfterMerge(into) == IF into = "HEAD" THEN "reset_wc" ELSE "idle"

\* do_merge(), up to its first persistent effect.  `into` is the ref
\* merged into: "HEAD" (the default) resolves to HEAD's branch.
Merge(p, into, b, ff, ffOnly, failOnConflict) ==
    LET target == IF into = "HEAD" THEN HeadBranch ELSE into
        ours == refs[target]
        theirs == refs[b]
        anc == merge_base(commits, theirs, ours)
        canFF == anc = ours
        idx == MergedIndexOf(anc, ours, theirs)
        after == AfterMerge(into)
    IN
    /\ pc[p] = "idle"
    /\ MergeAllowed
    /\ ~(ffOnly /\ ~ff)
    /\ anc # NoCommit
    /\ ~(ffOnly /\ ~canFF)
    /\ anc # theirs
    /\ \/ /\ canFF /\ ff
          /\ refs' = [refs EXCEPT ![target] = theirs]
          /\ pc' = [pc EXCEPT ![p] = after]
          /\ UNCHANGED <<commits, cmd>>
       \/ /\ ~(canFF /\ ff)
          /\ Conflicts(idx) = {}
          /\ create_commit(target, <<ours, theirs>>, ResolvedTree(idx), b)
          /\ pc' = [pc EXCEPT ![p] = after]
          /\ UNCHANGED cmd
       \/ /\ ~(canFF /\ ff)
          /\ Conflicts(idx) # {}
          /\ ~FailOnConflict(into, failOnConflict)
          /\ cmd' = [cmd EXCEPT ![p] = [NoCmd EXCEPT !.i = 1, !.index = idx,
                                  !.ctx = [ours |-> ours, theirs |-> theirs, branch |-> b]]]
          /\ pc' = [pc EXCEPT ![p] = "merge_write"]
          /\ UNCHANGED <<commits, refs>>
    /\ UNCHANGED <<files, mergedIndex, mergeCtx, mergeMsg, wc, wcBase>>

\* move_repo_to_merging_state: one merging-state file per step.
WriteMergingFile(p) ==
    LET f == MergingWriteOrder[cmd[p].i] IN
    /\ pc[p] = "merge_write"
    /\ files' = files \cup (IF f = MERGE_HEAD THEN {MERGE_HEAD, MERGE_BRANCH} ELSE {f})
    /\ mergedIndex' = IF f = MERGED_INDEX THEN cmd[p].index ELSE mergedIndex
    /\ mergeCtx' = IF f = MERGE_HEAD THEN cmd[p].ctx ELSE mergeCtx
    /\ mergeMsg' = IF f = MERGE_MSG THEN cmd[p].ctx.branch ELSE mergeMsg
    /\ IF cmd[p].i = Len(MergingWriteOrder)
          THEN pc' = [pc EXCEPT ![p] = "merge_wc"] /\ cmd' = cmd
          ELSE pc' = pc /\ cmd' = [cmd EXCEPT ![p].i = @ + 1]
    /\ UNCHANGED <<commits, refs, wc, wcBase>>

\* WorkingCopyMerger.update_working_copy: cleanly merged features are
\* written to the working copy, conflicted ones are left as they were.
UpdateMergingWorkingCopy(p) ==
    /\ pc[p] = "merge_wc"
    /\ wc' = [k \in Keys |-> IF k \in Conflicts(cmd[p].index) THEN wc[k]
                             ELSE MergedValue(cmd[p].index, k)]
    /\ pc' = [pc EXCEPT ![p] = "idle"]
    /\ cmd' = [cmd EXCEPT ![p] = NoCmd]
    /\ UNCHANGED <<commits, refs, files, mergedIndex, mergeCtx, mergeMsg, wcBase>>

\* working_copy.reset_to_head(), the last step of a merge, --continue, --abort.
ResetWorkingCopy(p) ==
    /\ pc[p] = "reset_wc"
    /\ wc' = commits[refs[HeadBranch]].tree
    /\ wcBase' = refs[HeadBranch]
    /\ pc' = [pc EXCEPT ![p] = "idle"]
    /\ cmd' = [cmd EXCEPT ![p] = NoCmd]
    /\ UNCHANGED <<commits, refs, files, mergedIndex, mergeCtx, mergeMsg>>

-----------------------------------------------------------------------------
(* kart resolve LABEL --with=VERSION | --with-file=FILE                    *)

\* The version a resolve strategy picks; Absent means "resolve by deleting".
ResolveValues(idx, k) ==
    [ancestor |-> {idx.anc[k]}, ours |-> {idx.ours[k]}, theirs |-> {idx.theirs[k]},
     delete |-> {Absent},
     workingcopy |-> IF wc[k] = Absent THEN {} ELSE {wc[k]},
     file |-> Values]

\* resolve() reads MERGED_INDEX and MERGE_HEAD, finds the conflict and
\* builds the resolution in memory: add_resolve.
Resolve(p, k, with) ==
    /\ pc[p] = "idle"
    /\ StateReadable /\ Merging
    /\ k \in Conflicts(mergedIndex)
    /\ k \notin DOMAIN mergedIndex.resolves
    /\ \E v \in ResolveValues(mergedIndex, k)[with] :
          cmd' = [cmd EXCEPT ![p] = [NoCmd EXCEPT !.index =
                      [mergedIndex EXCEPT !.resolves = (k :> v) @@ @]]]
    /\ pc' = [pc EXCEPT ![p] = "resolve_write"]
    /\ UNCHANGED <<commits, refs, files, mergedIndex, mergeCtx, mergeMsg, wc, wcBase>>

\* merge_index.write_to_repo(repo): the whole index read before, with the
\* new resolution, replaces MERGED_INDEX.
WriteResolve(p) ==
    /\ pc[p] = "resolve_write"
    /\ files' = files \cup {MERGED_INDEX}
    /\ mergedIndex' = cmd[p].index
    /\ pc' = [pc EXCEPT ![p] = "idle"]
    /\ cmd' = [cmd EXCEPT ![p] = NoCmd]
    /\ UNCHANGED <<commits, refs, mergeCtx, mergeMsg, wc, wcBase>>

-----------------------------------------------------------------------------
(* kart merge --continue                                                   *)

\* read_gitdir_file(MERGE_MSG, missing_ok=True): None when the file is absent.
ReadMergeMsg == IF MERGE_MSG \in files THEN mergeMsg ELSE "none"

\* Mutant: the draft message is used even when there is none.
CommitMessageNoDefault(ctx) == ReadMergeMsg

\* get_commit_message(read_msg_file=True) without an editor: the draft in
\* MERGE_MSG, else the default message of the merge context.
CommitMessage(ctx) == IF ReadMergeMsg = "none" THEN ctx.branch ELSE ReadMergeMsg

\* complete_merging_state up to and including the merge commit.
Continue(p) ==
    /\ pc[p] = "idle"
    /\ StateReadable /\ Merging
    /\ Unresolved(mergedIndex) = {}
    /\ create_commit(HeadBranch, <<mergeCtx.ours, mergeCtx.theirs>>,
                     ResolvedTree(mergedIndex),
                     CommitMessage(mergeCtx))
    /\ pc' = [pc EXCEPT ![p] = "continue_rm"]
    /\ cmd' = [cmd EXCEPT ![p] = [NoCmd EXCEPT !.i = 1]]
    /\ UNCHANGED <<files, mergedIndex, mergeCtx, mergeMsg, wc, wcBase>>

\* for filename in ALL_MERGE_FILES: repo.remove_gitdir_file(filename), then
\* `assert repo.state != MERGING`, which raises (and the command ends) if
\* another command has written MERGE_HEAD meanwhile.
RemoveMergeFile(p, step, next) ==
    /\ pc[p] = step
    /\ files' = files \ {AllMergeFiles[cmd[p].i]}
    /\ IF cmd[p].i = Len(AllMergeFiles)
          THEN /\ pc' = [pc EXCEPT ![p] = IF MERGE_HEAD \in files' THEN "idle" ELSE next]
               /\ cmd' = cmd
          ELSE pc' = pc /\ cmd' = [cmd EXCEPT ![p].i = @ + 1]
    /\ UNCHANGED <<commits, refs, mergedIndex, mergeCtx, mergeMsg, wc, wcBase>>

ContinueRemoveFile(p) == RemoveMergeFile(p, "continue_rm", "reset_wc")

-----------------------------------------------------------------------------
(* kart merge --abort                                                      *)

Abort(p) ==
    /\ pc[p] = "idle"
    /\ pc' = [pc EXCEPT ![p] = "abort_rm"]
    /\ cmd' = [cmd EXCEPT ![p] = [NoCmd EXCEPT !.i = 1, !.ongoing = Merging]]
    /\ UNCHANGED <<commits, refs, files, mergedIndex, mergeCtx, mergeMsg, wc, wcBase>>

\* After the last file: reset the working copy if a merge was ongoing,
\* otherwise raise InvalidOperation.
AbortRemoveFile(p) ==
    RemoveMergeFile(p, "abort_rm", IF cmd[p].ongoing THEN "reset_wc" ELSE "idle")

-----------------------------------------------------------------------------
(* The environment: the user edits the working copy between commands, and *)
(* a running command may die after any of its steps.  Edits are made while *)
(* a merge is in progress, where --with=workingcopy reads them; outside a  *)
(* merge their only effect is that check_not_dirty refuses `kart merge`,   *)
(* which a crash before reset_to_head already produces.                    *)

EditWorkingCopy(k, v) ==
    /\ \A p \in Procs : pc[p] = "idle"
    /\ Merging
    /\ wc' = [wc EXCEPT ![k] = v]
    /\ UNCHANGED <<commits, refs, files, mergedIndex, mergeCtx, mergeMsg, wcBase, pc, cmd>>

Crash(p) ==
    /\ pc[p] # "idle"
    /\ pc' = [pc EXCEPT ![p] = "idle"]
    /\ cmd' = [cmd EXCEPT ![p] = NoCmd]
    /\ UNCHANGED <<commits, refs, files, mergedIndex, mergeCtx, mergeMsg, wc, wcBase>>

-----------------------------------------------------------------------------
(* Initial states: a root commit, the HEAD branch one commit ahead of it,  *)
(* a branch forked from the root and a branch that is a descendant of      *)
(* HEAD (a fast-forward), with any trees; no merge in progress.            *)

Init ==
    /\ \E o, a, c \in InitTrees :
          commits = <<[parents |-> <<>>, tree |-> BaseTree, msg |-> "user"],
                      [parents |-> <<1>>, tree |-> o, msg |-> "user"],
                      [parents |-> <<1>>, tree |-> a, msg |-> "user"],
                      [parents |-> <<2>>, tree |-> c, msg |-> "user"]>>
    /\ refs = [b \in Branches |-> CASE b = HeadBranch -> 2
                                    [] b = ForkBranch -> 3
                                    [] b = AheadBranch -> 4]
    /\ files = {}
    /\ mergedIndex = EmptyIndex
    /\ mergeCtx = NoCtx
    /\ mergeMsg = "none"
    /\ wc = commits[2].tree
    /\ wcBase = 2
    /\ pc = [p \in Procs |-> "idle"]
    /\ cmd = [p \in Procs |-> NoCmd]

Next ==
    \/ \E p \in Procs :
          \/ \E into \in IntoRefs, b \in MergeBranches,
                ff, ffOnly, failOnConflict \in BOOLEAN :
                Merge(p, into, b, ff, ffOnly, failOnConflict)
          \/ WriteMergingFile(p)
          \/ UpdateMergingWorkingCopy(p)
          \/ ResetWorkingCopy(p)
          \/ \E k \in Keys, with \in {"ancestor", "ours", "theirs", "delete", "workingcopy", "file"} :
                Resolve(p, k, with)
          \/ WriteResolve(p)
          \/ Continue(p)
          \/ ContinueRemoveFile(p)
          \/ Abort(p)
          \/ AbortRemoveFile(p)
          \/ Crash(p)
    \/ \E k \in Keys, v \in Blob : EditWorkingCopy(k, v)

Spec == Init /\ [][Next]_vars

-----------------------------------------------------------------------------
(* Properties                                                               *)

TypeOK ==
    /\ commits \in Seq([parents : Seq(Nat), tree : Trees, msg : MergeBranches \cup {"user"}])
    /\ refs \in [Branches -> 1..Len(commits)]
    /\ files \subseteq MergeFiles
    /\ mergeCtx.ours \in 0..Len(commits) /\ mergeCtx.theirs \in 0..Len(commits)
    /\ mergeMsg \in MergeBranches \cup {"none"}
    /\ wc \in Trees
    /\ wcBase \in 1..Len(commits)
    /\ pc \in [Procs -> {"idle", "merge_write", "merge_wc", "reset_wc", "resolve_write",
                       "continue_rm", "abort_rm"}]

\* Whatever a crash interrupts, a repository whose MERGE_HEAD exists also
\* has a MERGED_INDEX, and that index holds the conflicts of the merge
\* MERGE_HEAD names (move_repo_to_merging_state's write order, the removal
\* order of ALL_MERGE_FILES).  Otherwise repo.state raises, or --continue
\* commits the resolutions of a different merge.
MergingStateIsWhole ==
    Merging =>
        /\ MERGED_INDEX \in files
        /\ mergedIndex.ours = commits[mergeCtx.ours].tree
        /\ mergedIndex.theirs = commits[mergeCtx.theirs].tree

\* Every two-parent commit, whether written by a clean merge or by
\* --continue after any number of resolves and crashes, keeps each path
\* that merges cleanly from its parents and their merge base.
MergeCommitsKeepCleanChanges ==
    \A c \in DOMAIN commits :
        Len(commits[c].parents) = 2 =>
            LET o == commits[c].parents[1]
                t == commits[c].parents[2]
                a == merge_base(commits, o, t)
            IN \A k \in Keys :
                 LET m == MergeKey(commits[a].tree[k], commits[o].tree[k], commits[t].tree[k])
                 IN m # ConflictMark => commits[c].tree[k] = m

\* `kart merge --abort` "puts things back how they were before the merge
\* began" (abort_merging_state docstring, --abort help): when an ongoing
\* merge is aborted, HEAD is the commit the merge started from.
AbortRestoresPreMergeHead ==
    [][\A p \in Procs :
          (pc[p] = "abort_rm" /\ cmd[p].ongoing /\ pc'[p] = "reset_wc")
              => refs[HeadBranch] = mergeCtx.ours]_vars

\* The abstract two-state machine (MergeAbstract) under the mapping: the
\* repository is merging while MERGE_HEAD exists and HEAD has not moved
\* off the commit the merge started from.
Abs == INSTANCE MergeAbstract WITH
    state <- IF Merging /\ refs[HeadBranch] = mergeCtx.ours THEN "merging" ELSE "normal",
    head <- refs[HeadBranch],
    parents <- [c \in DOMAIN commits |-> commits[c].parents],
    mergingWith <- mergeCtx.theirs

RefinesMergeAbstract == Abs!Spec

=============================================================================
