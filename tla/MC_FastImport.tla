---------------------------- MODULE MC_FastImport ----------------------------
(* FastImport for TLC: two datasets of two features; the branch starts    *)
(* with d1 holding both features, and d2 absent.  The imports replace d1  *)
(* whole, by ids or with the same content, or create d2, with and without *)
(* a limit.                                                                *)
EXTENDS FastImport, TLC

MC_KeyOrder == <<"1", "2">>
MC_DS == {"d1", "d2"}

MC_InitTree ==
    [l \in MC_DS \X ({"1", "2"} \cup {"meta"}) |-> IF l[1] = "d1" THEN "v1" ELSE Absent]

Src(d, f1, f2, m) == [dest |-> d, feats |-> ("1" :> f1 @@ "2" :> f2), meta |-> m]
Opt(mode, s, ids, lim, ae) == [mode |-> mode, src |-> s, ids |-> ids, limit |-> lim, allowEmpty |-> ae]

MC_Opts ==
    \* kart import --replace-existing of d1 without feature 2
    {Opt("GIVEN", Src("d1", "v2", Absent, "v1"), None, None, FALSE),
    \* the same content again: NO_CHANGES, or an empty commit
     Opt("GIVEN", Src("d1", "v1", "v1", "v1"), None, None, FALSE),
     Opt("GIVEN", Src("d1", "v1", "v1", "v1"), None, None, TRUE),
    \* --replace-ids 2,1 with a source lacking 2, and --limit 1
     Opt("GIVEN", Src("d1", "v2", Absent, "v2"), <<"2", "1">>, 1, FALSE),
    \* a new dataset d2, with --limit 1
     Opt("DONT_REPLACE", Src("d2", "v1", "v2", "v1"), None, 1, FALSE)}

(* should_compare_imported_features_against_old_features, which decides   *)
(* whether these imports compare features with the old blobs, over two   *)
(* primary keys, two columns, two types and walks of up to three commits. *)
CONSTANTS Missing, NoDataset

SC == INSTANCE ShouldCompare WITH
        PKs <- {"p1", "p2"}, Cols <- {"c1", "c2"}, Types <- {"t1", "t2"},
        MaxHistory <- 3

(* Whenever an importer streams its features, the decision it takes on     *)
(* comparing them with the old blobs (fast_import_tables calls            *)
(* should_compare_imported_features_against_old_features there) agrees,   *)
(* whatever the schemas of the dataset along the walk from from_commit,   *)
(* with the rule that the most recent primary-key or column change        *)
(* decides.  The schemas are not part of this model's trees, so the       *)
(* decision is checked over every history; TLC evaluates it once.         *)
ShouldCompareIsMostRecentChange ==
    \A i \in Importers : pc[i] = "stream" => SC!ShouldCompareIsMostRecentChange
=============================================================================
