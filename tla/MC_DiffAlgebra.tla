--------------------------- MODULE MC_DiffAlgebra ---------------------------
(* DiffAlgebra for TLC: dataset d1 with one feature and one meta item,    *)
(* dataset d2 with one feature, two values, up to three steps: enough for  *)
(* every pair of delta types at one key, for a key inserted, deleted and   *)
(* inserted again, and for a dataset or section changed in one step only.  *)
EXTENDS DiffAlgebra

MC_DS == {"d1", "d2"}
MC_Layout ==
    {<<"d1", "feature", "1">>, <<"d1", "meta", "m">>, <<"d2", "feature", "1">>}
MC_Values == {"v1", "v2"}

=============================================================================
