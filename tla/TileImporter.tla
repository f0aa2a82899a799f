----------------------------- MODULE TileImporter -----------------------------
(***************************************************************************)
(* TileImporter.import_tiles (src/kart/tile/importer.py): one import of   *)
(* tiles into a point-cloud or raster dataset of the HEAD branch.          *)
(*                                                                         *)
(* Two thread pools do the slow work: extract_multiple_tiles_metadata     *)
(* (fetching remote tiles to a local temporary copy) and                   *)
(* copy_multiple_files_to_lfs_cache (converting and copying each tile into *)
(* the LFS cache).  The calling thread consumes their futures with         *)
(* as_completed, in completion order, and writes the git-fast-import       *)
(* stream: the dataset delete, --delete'd tiles, reused tiles, then a      *)
(* pointer blob per copied tile, then the merged meta items.  The commit   *)
(* lands on a temporary ref; inside try/finally the branch is moved to it  *)
(* (or to a squashed commit with --amend), and the temporary ref and the   *)
(* local copies of remote tiles are removed.                               *)
(*                                                                         *)
(* A tile is named after its source; its content is a model value.  The   *)
(* homogenous meta items are one value per tile (e.g. the CRS) and the    *)
(* format, which conversion to a cloud-optimized variant changes.          *)
(***************************************************************************)
EXTENDS Naturals, FiniteSets

CONSTANTS
    Sources,      \* the tiles given on the command line
    Remote,       \* the sources that are S3 URLs
    Names,        \* tile names of the dataset, Sources among them
    SrcCrs,       \* source -> its CRS
    Datasets,     \* what may be at the dataset path: [tiles, meta], meta Absent if nothing
    Configs,      \* the option sets an import may be run with
    Absent,       \* no tile / no dataset
    NoCommit

Status == {"none", "pending", "running", "done", "failed"}

\* The bytes of a tile: a source as given, or its cloud-optimized copy.
Content(s, conv) == [src |-> s, conv |-> conv]

\* The homogenous meta items of a tile.
SourceMeta(s) == [crs |-> SrcCrs[s], fmt |-> "laz"]
ConvertedMeta(s) == [crs |-> SrcCrs[s], fmt |-> "copc"]

\* get_merged_source_metadata / get_predicted_merged_metadata /
\* get_actual_merged_metadata followed by check_for_non_homogenous_metadata:
\* a field with two values becomes a ListOfConflicts, which raises.
Homogenous(metas) == Cardinality(metas) <= 1
MergedMeta(metas) == CHOOSE m \in metas : TRUE

VARIABLES
    ex,         \* the dataset at the path when the import starts: [tiles, meta]
    cfg,        \* the command's options: update, delete, amend, allowEmpty, convert, workers
    pc,         \* the calling thread's place in import_tiles
    task,       \* source -> status of its future in the current thread pool
    consumed,   \* sources whose future the calling thread has taken from as_completed
    raised,     \* the calling thread got an exception from a future
    localCopy,  \* remote sources whose temporary local copy is on disk
    lfs,        \* tile contents in the LFS cache
    imported,   \* source_to_imported_metadata: source -> meta, or Absent
    includeEx,  \* include_existing_metadata
    building,   \* the tree git-fast-import is building: tiles and meta
    tmpRef,     \* the commit of refs/kart-import/<uuid>, or NoCommit
    head,       \* the branch head: [tiles, meta, parents]
    prevHead,   \* the head when the import started
    result      \* "running", "ok" or "error"

vars == <<ex, cfg, pc, task, consumed, raised, localCopy, lfs, imported, includeEx,
          building, tmpRef, head, prevHead, result>>

\* existing_tile_matches_source: the existing tile is the source's bytes,
\* or was converted from them (its sourceOid).
ExistingMatches(s) ==
    ex.tiles[s] # Absent /\ (ex.tiles[s].oid = Content(s, FALSE) \/ ex.tiles[s].srcOid = s)

DatasetExists == ex.meta # Absent


Serial == cfg.workers = 1
Running == {s \in Sources : task[s] = "running"}
Tiles == [Names -> {Content(s, c) : s \in Sources, c \in BOOLEAN} \cup {Absent} \cup
                   {ex.tiles[n].oid : n \in {n \in Names : ex.tiles[n] # Absent}}]

\* The checks of import_tiles before any work: --delete needs an existing
\* dataset, and without --replace-existing / --update-existing the
\* dataset path must be new (validate_dataset_paths).  A command that
\* fails them does nothing.
Valid(c) ==
    /\ c.mode = "new" => ~DatasetExists
    /\ c.delete # {} => DatasetExists
    /\ c.mode = "update" \/ c.delete = {}

\* PredictedMeta: get_conversion_func converts every non-cloud-optimized
\* source when converting.
PredictedMeta(s) == IF cfg.convert THEN ConvertedMeta(s) ELSE SourceMeta(s)

Init ==
    /\ ex \in Datasets
    /\ cfg \in {c \in Configs : Valid(c)}
    /\ pc = "extract"
    /\ task = [s \in Sources |-> "pending"]
    /\ consumed = {}
    /\ raised = FALSE
    /\ localCopy = {}
    /\ lfs = {ex.tiles[n].oid : n \in {n \in Names : ex.tiles[n] # Absent}}
    /\ imported = [s \in Sources |-> Absent]
    /\ includeEx = (cfg.mode = "update" /\ DatasetExists)
    /\ head = [id |-> "c1", parents |-> <<"c0">>, meta |-> ex.meta,
               tiles |-> [n \in Names |-> IF ex.tiles[n] = Absent THEN Absent ELSE ex.tiles[n].oid]]
    /\ prevHead = head
    /\ building = head
    /\ tmpRef = NoCommit
    /\ result = "running"

-----------------------------------------------------------------------------
(* The two thread pools.  With one worker the calling thread runs each    *)
(* task itself and stops at the first exception; with more, the pool runs *)
(* up to `workers` tasks at once, and leaving the `with                    *)
(* ThreadPoolExecutor` block waits for every submitted task, even after   *)
(* an exception.                                                           *)

\* A worker thread (or, with one worker, the calling thread) starts a task.
WorkerStart(s) ==
    /\ pc \in {"extract", "copy"}
    /\ task[s] = "pending"
    /\ Cardinality(Running) < cfg.workers
    /\ Serial => ~raised /\ \A t \in Sources : task[t] = "done" => t \in consumed
    /\ task' = [task EXCEPT ![s] = "running"]
    /\ UNCHANGED <<ex, cfg, pc, consumed, raised, localCopy, lfs, imported, includeEx,
                   building, tmpRef, head, prevHead, result>>

\* Mutant: a local copy is recorded for every source, remote or not.
ExtractDoneAlwaysCopies(s) ==
    /\ pc = "extract"
    /\ task[s] = "running"
    /\ task' = [task EXCEPT ![s] = "done"]
    /\ localCopy' = localCopy \cup {s}
    /\ UNCHANGED <<ex, cfg, pc, consumed, raised, lfs, imported, includeEx,
                   building, tmpRef, head, prevHead, result>>

\* extract_tile_metadata fetches a remote tile to a local copy first.
ExtractDone(s) ==
    /\ pc = "extract"
    /\ task[s] = "running"
    /\ task' = [task EXCEPT ![s] = "done"]
    /\ localCopy' = IF s \in Remote THEN localCopy \cup {s} ELSE localCopy
    /\ UNCHANGED <<ex, cfg, pc, consumed, raised, lfs, imported, includeEx,
                   building, tmpRef, head, prevHead, result>>

\* copy_file_to_local_lfs_cache: the (converted) tile lands in the LFS
\* cache; a local copy of a remote tile is moved there (preserve_original
\* is False); wrapped_func records the converted tile's metadata.
CopyDone(s) ==
    /\ pc = "copy"
    /\ task[s] = "running"
    /\ task' = [task EXCEPT ![s] = "done"]
    /\ lfs' = lfs \cup {Content(s, cfg.convert)}
    /\ localCopy' = localCopy \ {s}
    /\ imported' = IF cfg.convert THEN [imported EXCEPT ![s] = ConvertedMeta(s)] ELSE imported
    /\ UNCHANGED <<ex, cfg, pc, consumed, raised, includeEx, building, tmpRef, head, prevHead, result>>

\* A task raises: an S3 fetch, a tile that cannot be read or converted.
TaskFails(s) ==
    /\ task[s] = "running"
    /\ task' = [task EXCEPT ![s] = "failed"]
    /\ UNCHANGED <<ex, cfg, pc, consumed, raised, localCopy, lfs, imported, includeEx,
                   building, tmpRef, head, prevHead, result>>

\* Mutant: as_completed hands out only futures that succeeded.
CompletedDoneOnly(st) == st = "done"

\* concurrent.futures.as_completed hands out a future once it has
\* finished, with a result or with an exception.
Completed(st) == st \in {"done", "failed"}

\* merge_dicts_to_pointer_file_bytes(imported["tile"], pointer_dict): the
\* oid of the pointer is the one of the file copied to the LFS cache.
PointerContent(s) == Content(s, cfg.convert)

\* The calling thread takes the next finished future: future.result()
\* re-raises a task's exception; in the second pool the tile's pointer
\* blob is written to the stream.
Consume(s) ==
    /\ pc \in {"extract", "copy"}
    /\ ~raised
    /\ s \notin consumed
    /\ Completed(task[s])
    /\ \/ /\ task[s] = "failed"
          /\ raised' = TRUE
          /\ UNCHANGED <<consumed, building>>
       \/ /\ task[s] = "done"
          /\ consumed' = consumed \cup {s}
          /\ building' = IF pc = "copy"
                         THEN [building EXCEPT !.tiles[s] = PointerContent(s)]
                         ELSE building
          /\ UNCHANGED raised
    /\ UNCHANGED <<ex, cfg, pc, task, localCopy, lfs, imported, includeEx, tmpRef, head, prevHead, result>>

\* The exception leaves import_tiles, after the pool's shutdown has waited
\* for every submitted task.  Nothing of the `finally` at the end of
\* import_tiles runs: the first pool is before it, and the second pool is
\* inside `with git_fast_import`, whose git-fast-import then ends without
\* "done" and sets no ref.
PoolRaises ==
    /\ pc \in {"extract", "copy"}
    /\ raised
    /\ Serial \/ \A s \in Sources : task[s] = "none" \/ Completed(task[s])
    /\ pc' = "ended"
    /\ result' = "error"
    /\ UNCHANGED <<ex, cfg, task, consumed, raised, localCopy, lfs, imported, includeEx,
                   building, tmpRef, head, prevHead>>

\* Every future of the pool has been consumed.
PoolDone ==
    /\ pc \in {"extract", "copy"}
    /\ ~raised
    /\ \A s \in Sources : task[s] = "none" \/ s \in consumed
    /\ pc' = IF pc = "extract" THEN "check" ELSE "finish"
    /\ UNCHANGED <<ex, cfg, task, consumed, raised, localCopy, lfs, imported, includeEx,
                   building, tmpRef, head, prevHead, result>>

\* The homogeneity checks after the first pool: the sources as given, then
\* as they will be after conversion (with the existing dataset's meta
\* when updating it).
Check ==
    /\ pc = "check"
    /\ LET given == {SourceMeta(s) : s \in Sources}
           predicted == {PredictedMeta(s) : s \in Sources}
                        \cup (IF includeEx THEN {ex.meta} ELSE {})
       IN IF Homogenous(given) /\ Homogenous(predicted)
          THEN pc' = "stream" /\ result' = result
          ELSE pc' = "ended" /\ result' = "error"
    /\ UNCHANGED <<ex, cfg, task, consumed, raised, localCopy, lfs, imported, includeEx,
                   building, tmpRef, head, prevHead>>

\* Sources whose tile the existing dataset already holds.
Reused == IF DatasetExists THEN {s \in Sources : ExistingMatches(s)} ELSE {}

\* Mutant: the whole dataset is not deleted before a replacing import.
StreamedTileKeepsDataset(n) ==
    CASE n \in Reused -> ex.tiles[n].oid
      [] n \in cfg.delete -> Absent
      [] OTHER -> head.tiles[n]

\* The tile at name n once the stream's deletes and reused pointers are
\* written, before the second pool: the existing blob of a reused tile,
\* nothing for a --delete'd one, HEAD's when updating, else nothing (the
\* "D <dataset>" line).
StreamedTile(n) ==
    CASE n \in Reused -> ex.tiles[n].oid
      [] n \in cfg.delete -> Absent
      [] cfg.mode = "update" -> head.tiles[n]
      [] OTHER -> Absent

\* The first writes inside `with git_fast_import`: the whole dataset is
\* deleted unless updating, each --delete'd tile is checked against HEAD
\* (NotFound) and deleted, and the first pass of import_tiles_to_stream
\* rewrites the existing pointer of a reused tile and sets up a copy task
\* for every other source.
Stream ==
    /\ pc = "stream"
    /\ \/ /\ \E d \in cfg.delete : head.tiles[d] = Absent
          /\ pc' = "ended"
          /\ result' = "error"
          /\ UNCHANGED <<task, consumed, imported, includeEx, building>>
       \/ /\ \A d \in cfg.delete : head.tiles[d] # Absent
          /\ building' = [building EXCEPT
                !.tiles = [n \in Names |-> StreamedTile(n)],
                !.meta = IF cfg.mode = "update" THEN head.meta ELSE Absent]
          /\ includeEx' = (includeEx \/ Reused # {})
          /\ imported' = [s \in Sources |->
                IF s \notin Reused /\ ~cfg.convert THEN SourceMeta(s) ELSE imported[s]]
          /\ task' = [s \in Sources |-> IF s \in Reused THEN "none" ELSE "pending"]
          /\ consumed' = {}
          /\ pc' = "copy"
          /\ UNCHANGED result
    /\ UNCHANGED <<ex, cfg, raised, localCopy, lfs, tmpRef, head, prevHead>>

\* After the second pool: the actual merged metadata is checked and
\* written; leaving the `with`, git-fast-import gets "done" and sets the
\* temporary ref, or exits non-zero (SubprocessError).
Finish ==
    /\ pc = "finish"
    /\ LET actual == {imported[s] : s \in {s \in Sources : imported[s] # Absent}}
                     \cup (IF includeEx THEN {ex.meta} ELSE {})
       IN \/ /\ ~Homogenous(actual)
             /\ pc' = "ended" /\ result' = "error"
             /\ UNCHANGED <<building, tmpRef>>
          \/ /\ Homogenous(actual)
             /\ building' = [building EXCEPT !.meta = MergedMeta(actual)]
             /\ tmpRef' = [building' EXCEPT !.id = "c2", !.parents = <<prevHead.id>>]
             /\ pc' = "commit" /\ result' = result
          \/ /\ Homogenous(actual)
             /\ pc' = "ended" /\ result' = "error"
             /\ UNCHANGED <<building, tmpRef>>
    /\ UNCHANGED <<ex, cfg, task, consumed, raised, localCopy, lfs, imported, includeEx, head, prevHead>>

SameTree(a, b) == a.tiles = b.tiles /\ a.meta = b.meta

\* The `try`: with --amend a commit with the temporary commit's tree and
\* HEAD's parents; else NO_CHANGES when the tree is HEAD's; then the
\* branch is set to the new commit.
CommitTiles ==
    /\ pc = "commit"
    /\ \/ /\ cfg.amend
          /\ head' = [tmpRef EXCEPT !.id = "c3", !.parents = head.parents]
          /\ result' = "ok"
       \/ /\ ~cfg.amend
          /\ ~cfg.allowEmpty /\ SameTree(tmpRef, head)
          /\ result' = "error"
          /\ UNCHANGED head
       \/ /\ ~cfg.amend
          /\ cfg.allowEmpty \/ ~SameTree(tmpRef, head)
          /\ head' = tmpRef
          /\ result' = "ok"
    /\ pc' = "cleanup"
    /\ UNCHANGED <<ex, cfg, task, consumed, raised, localCopy, lfs, imported, includeEx,
                   building, tmpRef, prevHead>>

\* The `finally`: the temporary ref and every local copy are removed.
Cleanup ==
    /\ pc = "cleanup"
    /\ tmpRef' = NoCommit
    /\ localCopy' = {}
    /\ pc' = "ended"
    /\ UNCHANGED <<ex, cfg, task, consumed, raised, lfs, imported, includeEx,
                   building, head, prevHead, result>>

Next ==
    \/ \E s \in Sources :
          WorkerStart(s) \/ ExtractDone(s) \/ CopyDone(s) \/ TaskFails(s) \/ Consume(s)
    \/ PoolRaises \/ PoolDone \/ Check \/ Stream \/ Finish \/ CommitTiles \/ Cleanup

\* The pool's threads and the calling thread are scheduled by the OS: a
\* step that stays enabled is taken.
Fairness == WF_vars(Next)

Spec == Init /\ [][Next]_vars /\ Fairness

-----------------------------------------------------------------------------

Metas == [crs : {SrcCrs[s] : s \in Sources}, fmt : {"laz", "copc"}] \cup {ex.meta}
Trees == [id : {"c1", "c2", "c3"}, parents : {<<"c0">>, <<"c1">>}, tiles : Tiles, meta : Metas \cup {Absent}]

TypeOK ==
    /\ pc \in {"extract", "check", "stream", "copy", "finish", "commit", "cleanup", "ended"}
    /\ task \in [Sources -> Status]
    /\ consumed \subseteq Sources
    /\ localCopy \subseteq Remote
    /\ imported \in [Sources -> Metas \cup {Absent}]
    /\ head \in Trees /\ building \in Trees
    /\ tmpRef \in Trees \cup {NoCommit}
    /\ result \in {"running", "ok", "error"}

\* What a successful import leaves on the branch: each source's tile
\* (the existing one when it already held these bytes), no --delete'd
\* tile, the other existing tiles only when updating, the merged meta of
\* all these tiles, and as parents the old head, or its parents with
\* --amend.
TileMeta(n) ==
    IF n \in Sources \ Reused THEN PredictedMeta(n) ELSE ex.meta
ExpectedTiles ==
    [n \in Names |->
        CASE n \in Sources -> IF n \in Reused THEN ex.tiles[n].oid ELSE Content(n, cfg.convert)
          [] n \in cfg.delete \/ cfg.mode # "update" -> Absent
          [] OTHER -> prevHead.tiles[n]]
ImportIsExpected ==
    result = "ok" =>
        /\ head.tiles = ExpectedTiles
        /\ head.meta = MergedMeta({TileMeta(n) : n \in {n \in Names : ExpectedTiles[n] # Absent}})
        /\ head.parents = IF cfg.amend THEN prevHead.parents ELSE <<prevHead.id>>

\* Every import ends, successful or not: the calling thread never waits
\* for a future that cannot finish (as_completed, the pools' shutdown
\* after an exception).
Termination == <>(pc = "ended")

\* Once the import has ended, no temporary local copy of a remote tile is
\* left on disk (the `finally` of import_tiles; spec.md section 7: tiles
\* downloaded only for the import are deleted).
LocalCopiesRemoved == pc = "ended" => localCopy = {}

=============================================================================
