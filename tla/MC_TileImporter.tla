--------------------------- MODULE MC_TileImporter ---------------------------
(* TileImporter for TLC: two sources, one of them on S3, into a dataset   *)
(* path that is empty or holds a cloud-optimized dataset of three tiles:  *)
(* t0, t1 converted from the same source t1, and t2 of other bytes.        *)
EXTENDS TileImporter, TLC

MC_Names == {"t0", "t1", "t2"}
MC_SrcCrs == "t1" :> "A" @@ "t2" :> "A"

MC_Existing ==
    "t0" :> [oid |-> Content("t0", TRUE), srcOid |-> "t0"]
    @@ "t1" :> [oid |-> Content("t1", TRUE), srcOid |-> "t1"]
    @@ "t2" :> [oid |-> Content("old", TRUE), srcOid |-> "old"]

MC_Datasets ==
    {[tiles |-> [n \in MC_Names |-> Absent], meta |-> Absent],
     [tiles |-> MC_Existing, meta |-> [crs |-> "A", fmt |-> "copc"]]}

MC_Configs ==
    [mode : {"new", "replace", "update"}, delete : {{}, {"t0"}}, amend : BOOLEAN,
     allowEmpty : BOOLEAN, convert : BOOLEAN, workers : {1, 2}]
=============================================================================
