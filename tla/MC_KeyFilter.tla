---------------------------- MODULE MC_KeyFilter ----------------------------
(* KeyFilter for TLC.  Dataset names are short character sequences; each  *)
(* pattern set below is the kind of pattern list one command line may    *)
(* carry, up to three patterns.                                          *)
EXTENDS KeyFilter

MC_Subs == {"feature", "meta"}
MC_Keys == {"1", "2"}

Pattern(d, s, r) == [ds |-> d, sub |-> s, rest |-> r]

\* Exact dataset names: whole datasets and primary keys.
MC_ExactNames == {<<"a">>, <<"b">>}
MC_DatasetsAndKeys ==
    {Pattern(d, Null, r) : d \in MC_ExactNames, r \in MC_Keys \cup {Null}}

\* A primary key and a meta item of the same dataset.
MC_FeatureAndMeta ==
    {Pattern(<<"a">>, Null, r) : r \in MC_Keys} \cup {Pattern(<<"a">>, "meta", r) : r \in MC_Keys}

\* A primary key and all features of the same dataset.
MC_KeyAndSubdataset ==
    {Pattern(<<"a">>, "feature", r) : r \in MC_Keys \cup {Null}}

\* Globs over two datasets.
MC_GlobNames == {<<"a", "b">>, <<"a", "c">>}
MC_Globs == {<<"a", "*">>}
MC_GlobKeys ==
    {Pattern(d, Null, r) : d \in MC_GlobNames \cup MC_Globs, r \in MC_Keys}
MC_GlobWhole ==
    {Pattern(d, Null, Null) : d \in MC_Globs} \cup {Pattern(d, Null, r) : d \in MC_GlobNames, r \in MC_Keys}

\* The orderings that matter: a key pattern followed by a meta item or by
\* the whole sub-dataset of the same dataset, and a glob with exact names
\* of the datasets it matches, each with keys or whole.
MC_OrderNames == MC_ExactNames \cup MC_GlobNames
MC_OrderPatterns == MC_FeatureAndMeta \cup MC_KeyAndSubdataset \cup MC_GlobKeys \cup MC_GlobWhole

=============================================================================
