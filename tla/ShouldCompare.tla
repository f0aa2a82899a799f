---------------------------- MODULE ShouldCompare ----------------------------
(***************************************************************************)
(* should_compare_imported_features_against_old_features                  *)
(* (src/kart/fast_import.py): whether an import that replaces a dataset   *)
(* compares each new feature blob with the old one.                        *)
(*                                                                         *)
(* The history is what _safe_walk_repo yields from from_commit backwards, *)
(* as the dataset's schema at each commit, NoDataset for a commit without *)
(* the dataset, or Missing where the walk hits a commit absent from a     *)
(* shallow clone (KeyError, turned into _CommitMissing).  The walk is     *)
(* linear: merges of the history are left out.  A schema is its primary   *)
(* key column, its other columns and a column type.                       *)
(***************************************************************************)
EXTENDS Naturals, Sequences

CONSTANTS
    PKs,          \* primary key columns
    Cols,         \* other columns
    Types,        \* column types
    None,         \* replacing_dataset is None
    Missing,      \* the walk reached a commit missing from the repository
    NoDataset,    \* the dataset is not in this commit
    MaxHistory    \* bound on the number of commits walked

Schemas == [pk : PKs, cols : SUBSET Cols, typ : Types]

\* Schema.diff_type_counts(old, new), reduced to the counts the code reads.
DiffTypeCounts(old, new) ==
    [pk_updates |-> old.pk # new.pk,
     inserts |-> new.cols \ old.cols # {},
     deletes |-> old.cols \ new.cols # {}]

\* Mutant: a missing commit ends the walk as if the dataset were new.
RECURSIVE WalkMissingAsNew(_, _)
WalkMissingAsNew(h, source) ==
    IF h = <<>> THEN FALSE
    ELSE LET types == DiffTypeCounts(Head(h), source) IN
         CASE Head(h) \in {Missing, NoDataset} -> FALSE
           [] Head(h) # source /\ types.pk_updates -> FALSE
           [] Head(h) # source /\ (types.inserts \/ types.deletes) -> TRUE
           [] OTHER -> WalkMissingAsNew(Tail(h), source)

\* The loop over _safe_walk_repo(repo, from_commit): the first commit whose
\* schema differs from the source's by more than column types decides.
RECURSIVE Walk(_, _)
Walk(h, source) ==
    IF h = <<>> THEN FALSE
    ELSE LET types == DiffTypeCounts(Head(h), source) IN
         CASE Head(h) = Missing -> TRUE
           [] Head(h) = NoDataset -> FALSE
           [] Head(h) # source /\ types.pk_updates -> FALSE
           [] Head(h) # source /\ (types.inserts \/ types.deletes) -> TRUE
           [] OTHER -> Walk(Tail(h), source)

\* should_compare_imported_features_against_old_features: the schema of
\* the replaced dataset against the source's first, then the walk.
should_compare(replacing, source, h) ==
    IF replacing = None THEN FALSE
    ELSE LET types == DiffTypeCounts(replacing, source) IN
         CASE replacing # source /\ types.pk_updates -> FALSE
           [] replacing # source /\ (types.inserts \/ types.deletes) -> TRUE
           [] OTHER -> Walk(h, source)

-----------------------------------------------------------------------------

\* What _safe_walk_repo yields from from_commit backwards, as the dataset
\* at each commit: the walk continues past a commit only while it holds
\* the dataset, and ends at NoDataset, at Missing (_CommitMissing) or at
\* the root; n more commits at most.
RECURSIVE WalksFrom(_, _)
WalksFrom(h, n) ==
    {h} \cup
        IF n = 0 \/ h[Len(h)] \notin Schemas THEN {}
        ELSE UNION {WalksFrom(Append(h, e), n - 1) : e \in Schemas \cup {Missing, NoDataset}}

\* The histories of a replaced dataset: none when it is new, else a walk
\* from from_commit, which holds the replaced schema.
Histories(replacing) ==
    IF replacing = None THEN {<<>>} ELSE WalksFrom(<<replacing>>, MaxHistory - 1)

\* The rule of the should-compare heuristic, over the changes between
\* consecutive schemas (the import itself being the newest): the most
\* recent change of primary key or of columns decides, a primary key
\* change for no comparison; no such change since the dataset was added
\* means no comparison; reaching a missing commit first means comparison.
Relevant(old, new) ==
    LET types == DiffTypeCounts(old, new) IN
    types.pk_updates \/ types.inserts \/ types.deletes
Expected(replacing, source, history) ==
    LET Schema(j) == IF j = 0 THEN source ELSE history[j]
        Decisive == {j \in DOMAIN history :
                        history[j] \in {Missing, NoDataset} \/ Relevant(history[j], Schema(j - 1))}
    IN IF replacing = None \/ Decisive = {} THEN FALSE
       ELSE LET j == CHOOSE j \in Decisive : \A k \in Decisive : j <= k IN
            CASE history[j] = Missing -> TRUE
              [] history[j] = NoDataset -> FALSE
              [] OTHER -> ~DiffTypeCounts(history[j], Schema(j - 1)).pk_updates

\* should_compare_imported_features_against_old_features, which compares
\* every older schema with the source's rather than with its successor,
\* agrees with the rule for every replaced dataset, source schema and
\* history (the first schema check, the walk, _safe_walk_repo's
\* _CommitMissing).  A constant-level property, checked once.
ShouldCompareIsMostRecentChange ==
    \A replacing \in Schemas \cup {None}, source \in Schemas :
        \A h \in Histories(replacing) :
            should_compare(replacing, source, h) = Expected(replacing, source, h)

=============================================================================
