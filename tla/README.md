# TLA+ models of Kart

Kart keeps versioned geospatial datasets in a Git repository. This directory
holds TLA+ models of the parts of `src/` that have state and control worth
model checking, the TLC configurations that check them, and `PROJECT.json`.
`PROJECT.json` records the components, runs, mutants, the source lines behind
every definition, the findings, and the hazards.

## 1. The system: parts, state, operations and interactions

| Part | Source | State | Operations | Interacts with |
|---|---|---|---|---|
| Merge / resolve state machine | `merge.py`, `resolve.py`, `repo.py` (`KartRepo.state`, gitdir file helpers, `merge_base`) | branch refs; commit objects; the gitdir files `MERGE_HEAD`, `MERGED_INDEX`, `MERGED_TREE`, `MERGE_MSG`, `MERGE_BRANCH`; the working copy | `kart merge` (fast-forward, clean merge, conflicts → MERGING), `kart resolve`, `kart merge --continue`, `kart merge --abort` | the working copy (dirty check, reset, conflict update); the Git object store (`merge_trees`, `create_commit`) |
| Diff structures | `diff_structs.py` | in-memory `Delta`, `DeltaDiff`, `LazyDeltaDiff`, `DatasetDiff`, `RepoDiff` | delta concatenation and inversion, `diff_dicts`, `Diff.__add__`, `__iadd__`, `concatenated`, lazy resolve, prune | diff/show commands; the point-cloud dataset (`point_cloud/v1.py`) |
| Key filters | `key_filters.py` | `RepoKeyFilter`: dataset glob → `DatasetKeyFilter` → `UserStringKeyFilter` | `add_user_pattern`, matching, negation, `DeltaFilter` | diff, export and import commands |
| Fast-import streaming | `fast_import.py` | a temporary import ref; a `git fast-import` subprocess; the feature stream | `fast_import_tables`, `_import_single_source` (limit, replace_ids), `fast_import_clear_tree`, `git_fast_import` | Git refs; the working copy afterwards |
| Tile importer | `tile/importer.py` | a temporary branch; a thread pool; the per-source metadata dicts; the LFS cache | metadata extraction in workers, conversion, homogeneity check, streaming to fast-import, amend, cleanup | fast-import; the LFS object store |
| Repository lifecycle | `repo.py` | the `.kart`/`.git` directories and config | init, clone, activate (the `.git` file is written last), gc | every command |
| Annotations DB | `annotations/db.py` | a thread-local SQLAlchemy session; a file database or an in-memory read-only fallback | `annotations_session` (reentrant) | diff feature-count estimates |
| Point-cloud v1, PostGIS adapter, exec, `sno` package, binding setup | the other files | none of their own, or only type tables | conversions, process exec, exit codes, build | (not modelled, see §6) |

The behaviours that are hard to test:

* Every Kart command is a separate process. The merging state exists only as
  gitdir files, written and removed one by one. A command that dies between
  two writes leaves a state that the next command must handle. Nothing
  keeps two commands from running on one repository at once.
* `--continue` moves HEAD before it removes the merge files.
* `--abort` removes the files before it checks whether a merge was ongoing.
* Deltas are concatenated through a type table. The table raises `Conflict`
  on some cases, and `maybe_update` drops a change that cancels out.
* The importers stream into a temporary ref and must remove it in every case.
* Tile metadata is produced by worker threads and collected in completion
  order.

Properties we want, per part:

* Merge: the gitdir files are never half-written in a way that `repo.state`
  rejects or that mixes two merges. A merge commit keeps every clean change.
  HEAD moves only at the points the abstract NORMAL/MERGING machine allows.
  `--abort` returns to the pre-merge HEAD.
* Diff: the concatenation of per-step diffs equals the diff of the whole
  range.
* Key filters: the filter built from a list of patterns matches the union of
  the patterns, whatever their order.
* Import: no temporary ref and no partial commit survives. `NO_CHANGES`
  leaves the branch where it was. `limit` and `replace_ids` do what they
  say at 0 and at the limit.
* Tile importer: every import ends, and a successful one commits exactly
  the expected tree.

## 2. Plan

The order is most important behaviour first:

1. **MergeState** + **MergeAbstract** (done): the merge/resolve state
   machine with crashes, refined to the abstract two-state machine.
2. **DiffAlgebra** (done for the RepoDiff/DatasetDiff/DeltaDiff tree,
   `LazyDeltaDiff` and the boolean `data_changes` child). Still out:
   renames (the `FIXME` in `Diff.__add__`) and delta flags.
3. **KeyFilter** (done for `add_user_pattern` and lookups). It is checked
   against a reference "union of patterns" operator over all short lists
   of patterns. Four order dependences are found by one violation run.
4. **FastImport** and **ShouldCompare** (done): the temporary ref, the
   `finally`, `NO_CHANGES`, the subprocess and `BrokenPipe`, `limit` and
   `replace_ids`, with two concurrent importers, refined to
   **ImportAbstract** ("the branch gains one whole import at a time").
5. **TileImporter** (done): both pools as interleaved worker and collector
   actions, the checks, the stream and the commit, with termination under
   weak fairness. Still to add: an abstract "the branch moves once or not at
   all" spec shared with FastImport, and a concurrent writer, for the
   unconditional `set_target`.
6. **MergeState extensions**: two concurrent commands without the lock that
   spec.md §5 describes, and `--into` (done); stale `MERGE_MSG` (explored, not a run: see §6).
7. **AnnotationsSession** (done): reentrancy on one thread, the read-only
   cases and the in-memory fallback. Still out: two repositories in one
   thread.
8. **RepoLifecycle** (done): the writes of `kart init`/`kart clone` with a
   crash between any two, and what `KartRepo.__init__` finds afterwards.

## 3. Modules

### MergeAbstract.tla — what merging promises

The variables are `state` ∈ {normal, merging}, `head`, the commit graph
`parents`, and `mergingWith`. The actions are:

* `FastForward`: HEAD moves to a descendant.
* `MergeCommit`: a new commit with parents ⟨head, t⟩.
* `MergeInto`: a new commit on another branch (`kart merge --into`), HEAD
  unchanged.
* `EnterMerging`.
* `Complete`: a commit with parents ⟨head, mergingWith⟩.
* `Abort`: HEAD unchanged.

HEAD moves in no other way.

### MergeState.tla — `merge.py`, `resolve.py`, `KartRepo.state`

The state, and how it corresponds to the code:

| Variable | Code |
|---|---|
| `commits` | the object store, a sequence of `[parents, tree, msg]` |
| `refs` | branch refs |
| `files` | which merge-state gitdir files exist |
| `mergedIndex` | content of `MERGED_INDEX`: the ancestor/ours/theirs trees and the resolves |
| `mergeCtx` | content of `MERGE_HEAD`/`MERGE_BRANCH` |
| `mergeMsg` | content of `MERGE_MSG` |
| `wc`, `wcBase` | the working copy, and the commit it was last reset to (dirty = they differ) |
| `pc`, `cmd` | per process of `Procs`: the step of the command it runs and its locals |

A tree is a function from feature paths to blob values or `Absent`.
`MergeKey` is Git's per-path three-way merge with renames off.

Every command action takes the process `p` that runs it. With one process
the model is the sequential one: commands one after another, with crashes.
With two, their steps interleave, as two `kart` processes started on one
repository do, since no code under `src/` takes a lock.

Actions:

* `Merge(p, into, b, ff, ffOnly, failOnConflict)`: `do_merge` with every
  guard and early return. `into` is `"HEAD"` or a branch; any other value
  than `"HEAD"` forces `--fail-on-conflict` and skips `reset_to_head`, as
  `merge()` does. This covers the ff-only checks, "not related", the no-op,
  the fast-forward, the clean merge commit, `--fail-on-conflict`, and entry
  into the merging path. `merge()`'s state and dirty checks are
  `MergeAllowed`.
* `WriteMergingFile`: one file per step, in the order of
  `move_repo_to_merging_state`.
* `UpdateMergingWorkingCopy`.
* `ResetWorkingCopy`: the trailing `reset_to_head` of merge, `--continue`
  and `--abort`.
* `Resolve(p, k, with)`: `resolve()` reads `MERGED_INDEX` and adds the
  resolution, with all six strategies, the "already resolved" guard and
  "workingcopy" when the feature is absent. `WriteResolve(p)` then writes
  the whole index back (`write_to_repo`), as a separate step.
* `Continue`: the unresolved check, then the merge commit with the message
  from `get_commit_message`.
* `ContinueRemoveFile`, `Abort` and `AbortRemoveFile`: the removal loop
  over `ALL_MERGE_FILES`. After the last removal, `assert repo.state !=
  MERGING` raises if another process has written `MERGE_HEAD` meanwhile.
  Otherwise the step either raises (no merge was ongoing) or resets.
* `EditWorkingCopy`: the user edits the working copy while merging.
* `Crash(p)`: the command of `p` dies after any step.

`create_commit` carries libgit2's contract: the ref's current tip must be the
first parent.

Refinement mapping: the repository is abstractly *merging* while
`MERGE_HEAD` exists and HEAD still equals `MERGE_HEAD`'s "ours".
`mergingWith` is `MERGE_HEAD`'s "theirs".

### DiffAlgebra.tla — `diff_structs.py`

A diff is a tagged value `[t, v]`: `"repo"` (`RepoDiff`) and `"ds"`
(`DatasetDiff`) map keys to children, `"dd"` (`DeltaDiff`) maps feature
or meta keys to `Delta`s, `"lazy"` is a `LazyDeltaDiff` holding the
DeltaDiff it would produce, `"bool"` is the `data_changes` flag, and
`"raise"` is an exception that ends the computation. These are operators:

* `DeltaAdd`: the 3×3 table of `Delta.__add__`; `MaybeUpdate`;
* `DiffDicts` (`DeltaDiff.diff_dicts`), `Prune` (`RichDict.prune`);
* `Resolve` (`Diff.resolve` and the lazy/delta overrides), `Truthy`
  (`LazyDeltaDiff.__bool__`), `ChildOK` (`ensure_child_type`);
* `DiffAdd` (`Diff.__add__`: resolve the right side, check types, then the
  per-key loop `Merge`), `DiffIAdd` (`Diff.__iadd__`, unresolved), `Add`
  (dispatch: `LazyDeltaDiff.__add__` resolves itself then adds in place;
  `bool + bool` is Python's int). `Diff.__invert__` is left out: no code
  under `src/` inverts a diff.

The producers `DatasetDiffOf` and `RepoDiffOf` are modelled from spec.md
4.3: a dataset diff has a `"feature"` and a `"meta"` section, pruned when
empty; with `DataChangesFormat` the feature section is reported as the
bool `data_changes`; any changed section may be produced lazily.

A state machine walks the datasets through snapshots. It concatenates
each step's RepoDiff into `acc`, in place (`Diff.concatenated`, with any
subset of changed sections lazy) or with `+`, and may restart at the
current snapshot.

### KeyFilter.tla — `key_filters.py`

Dataset names and globs are sequences of characters, so that `fnmatch`
is a RECURSIVE operator on them with `*` as its only special character
(`RepoKeyFilter.__setitem__` escapes the others). The filters are records:

* `UserStringKeyFilter`: `[all, keys]`;
* `DatasetKeyFilter`: `[all, subs]`, from `"feature"`/`"meta"` to the
  former;
* `RepoKeyFilter`: `[entries, globs]`, where `globs` keeps the glob keys in
  insertion order, as the dict `_dataset_glob_filters` does.

`all = TRUE` stands for the shared `MATCH_ALL` objects, which ignore
`add` and `__setitem__`. `AddUserPattern` is `add_user_pattern` with its
CASE arms in the code's order. The arm that yields `Null` is the `KeyError`
of `ds_filter[subdataset]` on a dataset filter without that sub-dataset.
`Owner` is `RepoKeyFilter.get`: the exact key first, else the first
matching glob. `RecursiveGet` and `FilterKeys` are the two ways callers
consult the filter.

The state is the filter being built and the patterns given so far.
`AddPattern` is one iteration of `build_from_user_patterns`, and
`NextCommand` starts a new command with an empty filter.

`FilterIsUnionOfPatterns` compares the filter with `PatternSelects`, a
direct definition of what a list of patterns means: an item is selected
when some pattern names its dataset, and its sub-dataset and key where the
pattern gives them. For `filter_keys`, a dataset is kept when some pattern
names it.

### AnnotationsSession.tla — `annotations/db.py`

One thread's command. `slot` is `_local.session`; `stack` holds the open
`annotations_session` blocks, each either reusing the slot or having opened
a session; `sessions` lists every SQLAlchemy session opened, with its store
(the file or `:memory:`), whether it is open, and its uncommitted writes;
`exc` is the exception unwinding the innermost body. `db` is the state of
`annotations.db` and its directory, which decides what `create_all`
raises (`CreateAllError`): nothing, `readonly database` (swallowed by
`_annotations_session`, `IgnoredOnCreate`), `unable to open database file`
(the in-memory fallback, `Fallback`) or another error (re-raised).

Actions: `Reenter` (the reentrant branch), `EnterFileSession`,
`EnterMemoryFallback`, `EnterFails`, `ExitReuse`, `ExitSession` (commit on a
clean exit, then the `finally`, then the `with` closes the session), and
`Write` (a write under `ignore_readonly_db`, which rolls back on a read-only
database). The callers are not under `src/`; `Raise`, `Catch` and `Finish`
model them from spec.md: a body may raise, catch what a nested block
raised, and the command returns.

### FastImport.tla — `fast_import.py`

A tree is a function from leaf paths `<<dataset, item>>` to blobs, where an
item is a primary key or `"meta"`. The stream written to git-fast-import is
a sequence of `D` and `M` commands, and `Apply` is what git-fast-import does
with it. The stream comes from:

* `ClearTree`: `fast_import_clear_tree`;
* `FeatureOps`: the loop over `source.features()`;
* `IdOps`: the `_ids` generator with `get_features(..., ignore_missing=True)`.
  It writes a `D` as each id is handed out, and stops handing ids out at the
  limit;
* `SourceOps`: all of `_import_single_source`.

Each importer (a kart process) steps through `pc`:

| `pc` | Action | Code |
|---|---|---|
| `idle` → `stream` | `Start` | `fast_import_tables` up to `with git_fast_import(...)`: `from_commit` is the branch head, and `DONT_REPLACE` onto an existing dataset is refused |
| `stream` → `close` | `ImportSource` | the `for source in sources` loop |
| `close` → `commit` | `Done` | `"done"`, close and wait; git-fast-import writes the commit and sets `refs/kart-import/<uuid>` (`tmp`) |
| `commit` → `cleanup` | `CommitImport` | `NO_CHANGES`, or `create_commit` with libgit2's first-parent check, or its `GIT_EMODIFIED` |
| `cleanup` → `idle` | `Cleanup` | the `finally` |

Failures can happen at any step:

* `FastImportDies`: git-fast-import exits, and the next write raises
  `BrokenPipe` (`BrokenPipe` → `SubprocessError`).
* `SourceRaises`: any other exception; nothing is waited for.
* `Crash`: the kart process is killed, and no `finally` runs. A temporary ref
  that was already set stays in the repository; it is outside the branch's
  history, which is what the refinement is about. spec.md §7 promises the
  cleanup "in a final block", which a killed process never reaches, so a
  leaked ref is not counted as a disagreement with it.

`ImportedTree` is a direct per-leaf definition of what an import means,
read from the docstrings of `fast_import_tables` and `ReplaceExisting`:

* meta items are the source's;
* without `replace_ids`, the dataset holds the first `limit` features;
* with `replace_ids`, each id handed out takes the source's feature or is
  deleted, and everything else is kept.

### ImportAbstract.tla — what an import promises the branch

The branch's history is a sequence of trees. `Import(o)` appends, in one
step, `Result(t, o)` for the current tree `t`, unless that equals `t`
and `o` does not allow empty commits. `Result` is an operator constant.
FastImport instantiates it with `Result <- ImportedTree` and maps
`history` to the trees of the branch's first-parent chain
(`FirstParentTrees(branch)`). Temporary refs, subprocesses and the other
importers are invisible at this level: their steps are stuttering steps.

### ShouldCompare.tla — the should-compare heuristic

`should_compare_imported_features_against_old_features` and its walk are
operators over a history, read newest first. An entry of the history is one
of:

* the dataset's schema at that commit;
* `NoDataset`;
* `Missing` (a shallow clone, `_CommitMissing`).

`WalksFrom` gives every walk of up to `MaxHistory` commits that
`_safe_walk_repo` can yield: it goes past a commit only while that commit
holds the dataset. The module has no variables: the property quantifies
over every replaced schema, source schema and history. MC_FastImport
instantiates it and checks it whenever an importer is streaming, which is
where `fast_import_tables` calls the heuristic. TLC evaluates the constant
part once, so the check adds no time to the run. `Expected` states the rule as
spec.md §4.4 gives it, over consecutive schemas. The code instead compares
every older schema with the source's.

### TileImporter.tla — `tile/importer.py`

One `kart point-cloud-import` (`TileImporter.import_tiles`), from the
dataset checks to the `finally`. Its state is:

* `ex`: the dataset already at the path, absent or a cloud-optimized one;
* `cfg`: the command's options (`--replace-existing`/`--update-existing`,
  `--delete`, `--amend`, `--allow-empty`, conversion, worker count), only
  combinations `import_tiles` accepts;
* `task`, `consumed`, `raised`: the tasks of the current pool, the futures
  the calling thread has taken, and whether one re-raised;
* `localCopy`: local copies of S3 tiles on disk; `lfs`: the LFS cache;
* `imported`: `source_to_imported_metadata`; `includeEx`:
  `include_existing_metadata`;
* `building`, `tmpRef`, `head`: the tree being streamed, the temporary
  ref's commit and the branch's commit;
* `pc`: `extract`, `check`, `stream`, `copy`, `finish`, `commit`,
  `cleanup`, `ended`.

The two pools (`extract_multiple_tiles_metadata`,
`copy_multiple_files_to_lfs_cache`) are one set of actions, used with the
phase in `pc`:

* `WorkerStart`, `ExtractDone`/`CopyDone`, `TaskFails` are the worker
  threads. With one worker the calling thread runs each task itself and
  starts the next only after consuming the last one.
* `Consume` is `as_completed` in the calling thread. `PoolRaises` is the
  exception leaving `import_tiles` after the executor's shutdown has waited
  for the other tasks. `PoolDone` ends the phase.

`Check`, `Stream`, `Finish`, `CommitTiles` and `Cleanup` are the main
thread's steps between and after the pools. Tile metadata is reduced to a
CRS and a format (`laz` or `copc`), which is what the homogeneity checks
and the reuse rule tell apart. A tile's content is its source and whether
it was converted. `existing_tile_matches_source` is in a subclass, not
under `src/`; it is modelled from spec.md (a tile matches when it holds the
source's bytes or was converted from them).

### RepoLifecycle.tla — `KartRepo.init_repository`, `clone_repository`

`kart init` and `kart clone` are modelled as the sequence of file-system
writes they make after `_ensure_exists_and_empty` (`Start`, which refuses
a non-empty path). These writes are: the git command (`git init`/`git
clone`, `--bare` or `--separate-git-dir=.kart` with a temporary work tree),
removing that work tree's `.git` and directory, `lock_git_index`,
`write_config`, `write_attributes`, `write_readme`, `activate` (the `.git`
file of a tidy repository) and the LFS hooks. `disk` is the set of entries
that exist, named for what they are. Their contents are left out. `step` is
the next write; `bare` the style. `Step` makes one write. `GitFails` is the
`SubprocessError` of a non-zero exit, which leaves nothing. `ReadmeFails`
is `write_readme` swallowing its exception. `Crash` is the process dying
between two writes. `KartRepoFinds` is `KartRepo.__init__`: it opens
`path/.kart` whenever that exists, and pygit2 opens it once git has made it
a git directory.

## 4. Runs

| Run | Config | Checks | Shows |
|---|---|---|---|
| `merge_safety` (pass) | `MC_MergeState.cfg` | `TypeOK`, `MergingStateIsWhole`, `MergeCommitsKeepCleanChanges`, `RefinesMergeAbstract` | See below. |
| `merge_abort_after_crashed_continue` (violation) | `MC_MergeState_abort.cfg` | `AbortRestoresPreMergeHead` | See below. |
| `merge_concurrent_commands` (violation) | `MC_MergeState_concurrent.cfg` | `MergingStateIsWhole` | See below. |
| `diff_concatenation` (pass) | `MC_DiffAlgebra.cfg` | `TypeOK`, `ConcatenationIsRangeDiff` | See below. |
| `diff_data_changes_concatenation` (violation) | `MC_DiffAlgebra_datachanges.cfg` | `ConcatenationIsRangeDiff` | See below. |
| `keyfilter_datasets_and_keys` (pass) | `MC_KeyFilter_datasets.cfg` | `TypeOK`, `FilterIsUnionOfPatterns` | See below. |
| `keyfilter_pattern_orders` (violation) | `MC_KeyFilter_orders.cfg` | `FilterIsUnionOfPatterns` | See below. |
| `annotations_session_scope` (pass) | `MC_AnnotationsSession.cfg` | `TypeOK`, `SessionScope` | See below. |
| `fastimport_concurrent_imports` (pass) | `MC_FastImport.cfg` | `TypeOK`, `ShouldCompareIsMostRecentChange`, `RefinesImportAbstract` | See below. |
| `tileimport_pools_and_commit` (pass) | `MC_TileImporter.cfg` | `TypeOK`, `ImportIsExpected`, `Termination` | See below. |
| `tileimport_failed_import_leaves_local_copies` (violation) | `MC_TileImporter_localcopies.cfg` | `LocalCopiesRemoved` | See below. |
| `repo_init_crash_found_unactivated` (violation) | `RepoLifecycle.cfg` | `FoundOnlyOnceActivated` | See below. |

**`merge_safety`** (about 2.4M states, under three minutes) shows that, with crashes
anywhere:

* `MERGE_HEAD` always comes with a `MERGED_INDEX` of the same merge;
* every two-parent commit keeps each cleanly merging path;
* the whole system implements MergeAbstract.

**`merge_abort_after_crashed_continue`** (14 steps):

1. A conflicting merge.
2. A resolve.
3. `--continue` dies after `create_commit`.
4. `--abort` then keeps the merge commit.

The `--abort` help, `abort_merging_state`'s docstring and the `ORIG_HEAD`
comment in `repo.py` all promise a return to the pre-merge state. This is
recorded as a finding.

**`merge_concurrent_commands`** (7 states deep, seconds) runs two processes.
TLC finds this interleaving:

1. A conflicting `kart merge` writes `MERGED_INDEX`.
2. A `kart merge --abort` starts in NORMAL and removes `MERGE_HEAD`, which
   is not there yet.
3. The merge writes `MERGE_HEAD`.
4. The abort removes `MERGED_INDEX`.

`MERGE_HEAD` is left without `MERGED_INDEX`. `repo.state` then raises
`NotFound` for every command that checks the state, until the user runs
`kart merge --abort`, as its message suggests; the conflicting merge the
user started is lost.
spec.md §5 says a repository-wide advisory lock guards NORMAL↔MERGING, and
that every merge operation takes it before it reads or writes state files.
No code under `src/` takes such a lock. This is recorded as a finding.

**`diff_concatenation`** (about 10k states, under two minutes) shows that
any three steps over two datasets, concatenated in place or with `+`,
with any changed sections produced as `LazyDeltaDiff`s, give the range
diff at every level (no `Conflict`, no exception, empty datasets and
sections pruned).

**`diff_data_changes_concatenation`** produces the feature section as the
bool `data_changes`, as `DatasetDiff.child_type` allows. The first `+`
fails: `Diff.__add__` resolves its right side and `Diff.resolve` calls
`.resolve()` on the bool, raising `AttributeError`. This was reproduced by
running `diff_structs.py`, together with `~` on such a diff raising
`TypeError`; it is recorded as a finding.

**`annotations_session_scope`** (a few hundred states, seconds) covers every
database state with blocks nested three deep and three sessions in a row.
It shows that the thread holds at most one open session, that every
nested block gets the one the outermost block opened, and that after the
outermost block exits, by any path, the slot is empty and every session
closed.

A nested block that raises, inside a caller that catches, has its writes
committed by the outer block: the commit follows the outermost block only.
This is the reentrancy's design and is listed as a hazard.

**The key-filter runs** use up to three patterns per command.

* **`keyfilter_datasets_and_keys`** uses exact dataset names with whole
  datasets and `DS:PK` patterns. It passes: for these the filter is the
  union of the patterns in every order.
* **`keyfilter_pattern_orders`** adds meta and sub-dataset patterns and the
  glob `a*` beside the names `ab` and `ac` it matches. Four orders go
  wrong; TLC reports one, and each was also found by checking the pattern
  kinds separately:
  * `a:1` then `a:meta:x` raises `KeyError`: the dataset filter made for
    `a:1` has no `meta` child;
  * `a:1` then `a:feature` adds `None` to the key set instead of selecting
    the whole sub-dataset, so feature 2 stays unselected;
  * `a*:1` then `ab:2`: `get("ab")` returns the glob's filter, and `ab:2` is
    added to it, so `ac:2` is selected too;
  * `ab:1` then `a*`: the exact entry `ab` answers first, so `a*` never
    selects feature 2 of `ab`.

Each of the four disagreements was reproduced with the repository's own
`RepoKeyFilter.build_from_user_patterns`, and is recorded as a finding.

**`fastimport_concurrent_imports`** (about 1.7M states, two minutes)
runs two importers against one branch. Each one may have its git-fast-import
die or be killed at any step. The run shows that FastImport implements
ImportAbstract:

* the branch only moves to a commit whose parent is the commit it pointed
  at, holding exactly that commit's tree with one import applied;
* without `allow_empty`, that tree never equals the parent's;
* so no commit the branch pointed at is ever lost. The second of two
  imports started from the same head fails in `create_commit`.

**`ShouldCompareIsMostRecentChange`**, in `fastimport_concurrent_imports`: the code's walk agrees with the rule on every
history of up to three commits. Column-type-only changes are passed over in
both. The check covers two key columns, two other columns and two types.

**`tileimport_pools_and_commit`** (about 6,400 states, seconds) covers every
valid option combination, with one and two workers. Each task may fail, and
the pools may finish in any order. The run shows that:

* after a successful import, the branch holds exactly the expected tiles,
  meta and parents. A reused tile keeps its existing blob. A `--delete`'d
  tile is gone. Other existing tiles stay only with `--update-existing`.
  `--amend` takes HEAD's parents;
* every import ends, under weak fairness of the threads.

**`tileimport_failed_import_leaves_local_copies`**: a two-worker import
fetches the S3 tile, and then the other tile's metadata extraction raises.
The import ends with the download still on disk. The only code that
removes local copies is the `finally` at `importer.py:344`. That `finally`
follows the `with git_fast_import` block, so no failure before it reaches
it. spec.md §7 says files downloaded only for the import are deleted. This
is recorded as a finding.

**`repo_init_crash_found_unactivated`** (13 states): `kart init` of a tidy
repository runs `git init --separate-git-dir=.kart`, and then the process
dies. `KartRepo.__init__` now opens `.kart`, although there is no `.git`
file, Kart config or locked index. `activate`'s docstring
(`repo.py:509-513`) says that until the `.git` file is written "git or kart
commands won't find the repo", so that a failed creation "doesn't work at
all". A second `kart init` is refused because the path is not empty. This
is recorded as a finding. The model has no initial state with a repository
already there: it checks one creation from an empty or missing path.

Each property of a passing run has a mutant in `PROJECT.json`. Each mutant is
a plausible bug in the mapped code, and TLC finds the property violated under
the run's own config:

| Mutant | Property it violates |
|---|---|
| `MERGE_HEAD` written before `MERGED_INDEX` | `MergingStateIsWhole` |
| The resolved tree takes "ours" on clean paths | `MergeCommitsKeepCleanChanges` |
| `create_commit` without the first-parent check | `RefinesMergeAbstract`, through a second `--continue` after a crash |
| No default commit message | `TypeOK` |
| `maybe_update` replaced by `update` | `ConcatenationIsRangeDiff` |
| ins+del taken as a delete | `TypeOK` (an empty delta) |
| The reentrancy check dropped (a `None` session yielded) | `TypeOK` |
| No `finally`: the slot kept after an exception | `SessionScope` |
| `MATCH_ALL` of a dataset taken as the string filter's | `TypeOK` |
| A new dataset filter without the pattern's key | `FilterIsUnionOfPatterns` |
| A missing id written as a feature (`ignore_missing` dropped) | `TypeOK` |
| `fast_import_clear_tree` deleting only the meta items | `RefinesImportAbstract` |
| A missing commit read as "dataset added" | `ShouldCompareIsMostRecentChange` |
| A local copy recorded for a local source | `TypeOK` |
| The dataset not deleted before a replacing import | `ImportIsExpected` |
| `as_completed` never handing out a failed future | `Termination` |

## 5. Bounds and fairness

**MC_MergeState.** The bounds are:

* two feature paths and two blob values;
* a root commit whose tree has both paths at `v1`;
* HEAD (`main`) one commit ahead;
* a branch `a` forked from the root, which gives real three-way merges;
* a branch `c` ahead of HEAD, which gives fast-forwards;
* at most 6 commits, which allows two merges, or a merge plus a repeated
  `--continue`;
* `--into` is `"HEAD"` or the branch `c`, ahead of HEAD, into which `a`
  merges for real;
* one process for `merge_safety` and the abort run, and two for
  `merge_concurrent_commands`. Two are enough for any interleaving of two
  commands, and the shortest one is found at depth 7.

The initial commits may change the first path in any way (value, delete,
keep) and the second path to another value. So the model contains:

* every conflict kind: modify/modify, delete/modify and add/add after a
  delete;
* a clean change beside a conflict.

Working-copy edits are made while merging, which is where
`--with=workingcopy` reads them. Outside a merge, an edit only makes
`check_not_dirty` refuse, and a crash before `reset_to_head` already
produces that.

**MC_DiffAlgebra.** The bounds are two datasets (one with a feature and a
meta item, one with a feature), two values and three steps. That is enough
for every ordered pair of delta types at one key, for delete/re-insert of
the same value, for a dataset or a section that changes and changes back
(pruning at both levels), and for a lazy section met by a lazy or eager
one. A fourth layout path made the run take over fifteen minutes.

**MC_KeyFilter.** The bounds are:

* two sub-datasets and two keys;
* two names (`a`, `b`) for the exact runs, and `ab`, `ac` with the glob
  `a*` for the glob runs;
* three patterns per command.

Three patterns are enough for every ordering of a whole-dataset, a
sub-dataset and a key pattern on one dataset. Each bug above needs two.

**MC_FastImport.** The bounds are:

* two importers;
* two datasets of two features each, with two values;
* at most 7 commits, which allows three imports.

The imports are:

* a replace of `d1` that drops a feature;
* a re-import of the same content, with and without `allow_empty`;
* `--replace-ids 2,1` with a source lacking 2 and `--limit 1`;
* a new `d2` with `--limit 1`.

Together they reach every arm of `fast_import_clear_tree`, a missing id, the
limit in both loops, `NO_CHANGES` and `GIT_EMODIFIED`. Deadlock is not
checked: with every importer idle the repository is at rest, and the commit
bound then stops new imports.

**ShouldCompare, in MC_FastImport.** Histories of up to three commits,
which is the first check plus two steps of the walk.

**MC_TileImporter.** The bounds are:

* two sources, `t1` local and `t2` on S3, with one CRS;
* three tile names;
* the dataset at the path is either absent or cloud-optimized. It holds
  `t0`, `t1` converted from the same source, and `t2` of other bytes;
* every option combination, with one and two workers.

So the model contains:

* a reused tile, a replaced tile and an untouched one;
* a `--delete` of `t0`, and of a name that is absent;
* a non-homogenous format when the sources are not converted but an
  existing cloud-optimized tile is kept;
* `NO_CHANGES`, by re-importing the same content.

Deadlock is not checked, because an import ends.

**MC_AnnotationsSession.** Depth 3 allows a reused block inside a reused
block. Three sessions allow a failed open (or the fallback, which uses
two) followed by a new session after the exception is caught, which is
what shows the slot was cleared. Two writes let a rollback on a read-only
database and a commit of several writes happen. Deadlock is not checked:
the command returns (`Finish`) and stops.

**Fairness.** The merge, diff, filter, fast-import and annotations modules have none.
These are user-driven CLI commands, and nothing in the code makes any of
them eventually happen, so no liveness is claimed for them. TileImporter
assumes weak fairness of `Next`. Its steps are those of one process: the
calling thread and the pool's threads, scheduled by the OS. A step that
stays enabled is eventually taken.

## 6. Not modelled, and why

* **Merge:**
  * `--dry-run`, because it changes nothing;
  * `-m` and the editor, because they only change the message text;
  * the `MERGE_HEAD`/`MERGE_BRANCH` split into two writes, because
    `MERGE_BRANCH` is optional when read;
  * the content of `MERGED_TREE`, which is only used to update the working
    copy;
  * `kart merge` reading the state and computing the merge in one step:
    another process can change the repository only before the checks or
    after the first write. The writes and removals of the two still
    interleave step by step.
* **Diff:**
  * renames: keys are the feature's primary key, and a rename is a
    change of key, which `Diff.__add__` (its `FIXME`) concatenates key by
    key; the producer of renamed deltas is outside `src/`;
  * delta flags, because `Delta.__eq__` ignores them and no property
    tells them apart;
  * object identity: `Diff.concatenated` may mutate the diffs passed in,
    and a caller that reused them would see it; values are immutable in
    the model;
  * `Diff.concatenated` of `DatasetDiff`s, which fails when a section is
    lazy in two steps (a hazard): every caller concatenates `RepoDiff`s.
* **Key filters:** negated patterns and `DeltaFilter`, because no command
  builds them from a list of patterns; planned.
* **Fast-import:**
  * `ReplaceExisting.ALL` and the `header` argument, which only `kart upgrade`
    uses, and whose caller is not under `src/`;
  * several sources per import;
  * attachments and legends;
  * `limit=0`, which the code treats as no limit;
  * merges in the history walked by the should-compare heuristic.
* **Tile importer:**
  * argument checks, `infer_dataset_path`, glob and S3 expansion;
  * sidecar files, which are copied like their tile;
  * progress bars and messages;
  * the working-copy reset after the commit;
  * other writers to the branch, which spec.md calls a non-goal.
* **Annotations:** two repositories in one thread, whose blocks would
  share the first one's session (a hazard); `is_db_writable`, a probe
  whose answer the model reads from `db`; other threads, which have their
  own slot and share only the SQLite file, whose locking is SQLite's.
* **Repository lifecycle:** `RepoLifecycle` keeps the order of the writes
  and leaves out what they write: the config's keys (working-copy location,
  spatial filter, LFS filters), the readme text, the hook scripts.
  `check_valid_creation_location`, `gc`, the branding and version lookups
  and the accessors only read or check, so they are left out.
* **Stale `MERGE_MSG` (hazard at `merge.py:40`):** `ALL_MERGE_FILES` is
  defined in `merge_util.py`, which is not in this repository. spec.md lists
  `MERGE_HEAD` first and `MERGE_MSG` later. With that removal order, TLC
  reaches a merge commit whose message is an earlier merge's draft:
  `--continue` dies after removing `MERGE_HEAD` and before `MERGE_MSG`; a
  new conflicting merge dies before writing its `MERGE_MSG`; after a
  `resolve`, `--continue` commits with the old message. Because this rests
  on an order taken from the spec, no run checks it.
* **Not modelled at all:**
  * the PostGIS adapter: type tables and SQL text;
  * `exec.py`: process exec;
  * `src/sno`: constants and serialisation;
  * the bindings' `setup.py`: build;
  * the point-cloud v1 paths: naming only.
