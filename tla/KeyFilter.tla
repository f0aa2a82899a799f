------------------------------ MODULE KeyFilter ------------------------------
(***************************************************************************)
(* RepoKeyFilter built from user patterns (src/kart/key_filters.py).      *)
(*                                                                         *)
(* `kart diff`, `show`, `export` ... take patterns "DS", "DS:PK",          *)
(* "DS:feature", "DS:meta:NAME"; DS may hold '*' globs.  build_from_user_ *)
(* patterns adds them one by one to a RepoKeyFilter, a dict from dataset  *)
(* key to DatasetKeyFilter (a dict from "feature"/"meta" to a             *)
(* UserStringKeyFilter set), with a side dict of glob keys.  A consumer    *)
(* asks repo_filter.recursive_get([ds, sub, key]) and filter_keys(paths).  *)
(*                                                                         *)
(* Dataset names and globs are sequences of characters so that fnmatch can *)
(* be defined on them.  A filter that matches all is a record with         *)
(* all = TRUE; it stands for the shared MATCH_ALL objects, which ignore    *)
(* add and __setitem__.                                                     *)
(***************************************************************************)
EXTENDS Naturals, Sequences, FiniteSets, TLC

CONSTANTS
    Names,        \* dataset paths, as sequences of characters without "*"
    Globs,        \* dataset globs, sequences of characters with "*"
    Subs,         \* sub-dataset names, e.g. {"feature", "meta"}
    Keys,         \* primary keys / meta item names
    Null,         \* None
    Patterns,     \* the user patterns a command may be given, as parsed records
    MaxPatterns   \* bound on the number of patterns of one command

DatasetKeys == Names \cup Globs

\* fnmatch.fnmatch(name, glob) where only "*" is special (the other glob
\* characters are escaped by RepoKeyFilter.__setitem__).
RECURSIVE fnmatch(_, _)
fnmatch(s, g) ==
    IF g = <<>> THEN s = <<>>
    ELSE IF Head(g) = "*" THEN fnmatch(s, Tail(g)) \/ (s # <<>> /\ fnmatch(Tail(s), g))
    ELSE s # <<>> /\ Head(s) = Head(g) /\ fnmatch(Tail(s), Tail(g))

IsGlob(key) == \E i \in DOMAIN key : key[i] = "*"

\* _parse_user_pattern: "DS:PK" without a sub-dataset means "DS:feature:PK".
ParseUserPattern(p) ==
    IF p.sub = Null /\ p.rest # Null THEN [p EXCEPT !.sub = "feature"] ELSE p

MatchAllStrings == [all |-> TRUE, keys |-> {}]      \* UserStringKeyFilter.MATCH_ALL
MatchAllDataset == [all |-> TRUE, subs |-> <<>>]    \* DatasetKeyFilter.MATCH_ALL
EmptyRepoFilter == [entries |-> <<>>, globs |-> <<>>]

-----------------------------------------------------------------------------
(* RepoKeyFilter lookups                                                   *)

\* _dataset_glob_pattern_matching_key: the first glob, in insertion order,
\* that matches the key; Null if none does.
GlobMatchingKey(f, key) ==
    LET hits == {i \in DOMAIN f.globs : fnmatch(key, f.globs[i])}
    IN IF hits = {} THEN Null ELSE f.globs[CHOOSE i \in hits : \A j \in hits : i <= j]

\* RepoKeyFilter.get / __getitem__: the dict key whose DatasetKeyFilter
\* answers for `key` (the exact key first, else the first matching glob).
Owner(f, key) ==
    IF key \in DOMAIN f.entries THEN key ELSE GlobMatchingKey(f, key)

\* RepoKeyFilter.__setitem__: a glob key is also recorded in the glob dict
\* (a dict keeps the position of a key that is set again).
SetItem(f, key, value) ==
    [entries |-> [k \in DOMAIN f.entries \cup {key} |->
                    IF k = key THEN value ELSE f.entries[k]],
     globs |-> IF IsGlob(key) /\ \A i \in DOMAIN f.globs : f.globs[i] # key
               THEN Append(f.globs, key) ELSE f.globs]

\* KeyFilterDict.get on a DatasetKeyFilter: the child for a sub-dataset.
SubFilter(df, sub) ==
    IF df.all THEN MatchAllStrings
    ELSE IF sub \in DOMAIN df.subs THEN df.subs[sub] ELSE Null

\* UserStringKeyFilter.__contains__
ContainsKey(u, key) == u.all \/ key \in u.keys

\* repo_key_filter.recursive_get([ds, sub, key]) (RichDict.recursive_get).
RecursiveGet(f, ds, sub, key) ==
    LET o == Owner(f, ds) IN
    /\ o # Null
    /\ LET u == SubFilter(f.entries[o], sub) IN u # Null /\ ContainsKey(u, key)

\* RepoKeyFilter.filter_keys: exact keys plus keys some glob matches.
FilterKeys(f, paths) ==
    (paths \cap DOMAIN f.entries) \cup {k \in paths : GlobMatchingKey(f, k) # Null}

-----------------------------------------------------------------------------
(* RepoKeyFilter.add_user_pattern                                          *)

\* Mutant: the new DatasetKeyFilter is created but the key is never added.
NewDatasetFilterWithoutKey(p) ==
    [all |-> FALSE,
     subs |-> (p.sub :> IF p.rest # Null THEN [all |-> FALSE, keys |-> {}] ELSE MatchAllStrings)]

\* A new DatasetKeyFilter for a pattern with a sub-dataset, after
\* ds_filter[subdataset].add(rest).
NewDatasetFilter(p) ==
    [all |-> FALSE,
     subs |-> (p.sub :> IF p.rest # Null THEN [all |-> FALSE, keys |-> {p.rest}] ELSE MatchAllStrings)]

\* The filter after the pattern, or Null when add_user_pattern raises
\* KeyError (ds_filter[subdataset] on a filter without that sub-dataset).
AddUserPattern(f, up) ==
    LET p == ParseUserPattern(up)
        o == Owner(f, p.ds)
        df == f.entries[o]
    IN
    CASE p.sub = Null -> SetItem(f, p.ds, MatchAllDataset)
      [] o = Null -> SetItem(f, p.ds, NewDatasetFilter(p))
      [] df.all \/ SubFilter(df, p.sub) = MatchAllStrings -> f
      [] p.sub \notin DOMAIN df.subs -> Null
      [] OTHER ->
           [f EXCEPT !.entries[o].subs[p.sub].keys = @ \cup {p.rest}]

-----------------------------------------------------------------------------
(* What a list of patterns means: an item is selected when some pattern    *)
(* names its dataset (exactly or by glob), and its sub-dataset and key     *)
(* where the pattern gives them.  No patterns select everything.           *)

PatternSelects(up, ds, sub, key) ==
    LET p == ParseUserPattern(up) IN
    /\ fnmatch(ds, p.ds)
    /\ p.sub = Null \/ (p.sub = sub /\ (p.rest = Null \/ p.rest = key))

-----------------------------------------------------------------------------

VARIABLES
    filter,    \* the RepoKeyFilter being built, or Null after KeyError
    given      \* the patterns added so far, in order

vars == <<filter, given>>

Init ==
    /\ filter = EmptyRepoFilter
    /\ given = <<>>

\* One iteration of build_from_user_patterns.
AddPattern(up) ==
    /\ filter # Null
    /\ Len(given) < MaxPatterns
    /\ filter' = AddUserPattern(filter, up)
    /\ given' = Append(given, up)

\* The command ends; the next one builds a new filter.
NextCommand ==
    /\ given # <<>>
    /\ filter' = EmptyRepoFilter
    /\ given' = <<>>

Next == (\E up \in Patterns : AddPattern(up)) \/ NextCommand

Spec == Init /\ [][Next]_vars

-----------------------------------------------------------------------------

UserStringFilters == [all : BOOLEAN, keys : SUBSET (Keys \cup {Null})]
DatasetFilters ==
    [all : BOOLEAN, subs : UNION {[S -> UserStringFilters] : S \in SUBSET Subs}]

TypeOK ==
    /\ given \in Seq(Patterns)
    /\ filter = Null \/
         /\ DOMAIN filter.entries \subseteq DatasetKeys
         /\ \A k \in DOMAIN filter.entries : filter.entries[k] \in DatasetFilters

\* build_from_user_patterns returns RepoKeyFilter.MATCH_ALL when the
\* filter is empty.
Selected(ds, sub, key) ==
    DOMAIN filter.entries = {} \/ RecursiveGet(filter, ds, sub, key)

\* The filter built from any list of patterns, in any order, selects
\* exactly the features and meta items some pattern names, and
\* filter_keys keeps exactly the datasets some pattern names
\* (add_user_pattern, RepoKeyFilter.get/__setitem__ with globs,
\* KeyFilterDict MATCH_ALL children).
FilterIsUnionOfPatterns ==
    LET ps == {given[i] : i \in DOMAIN given} IN
    /\ filter # Null
    /\ \A ds \in Names, sub \in Subs, key \in Keys :
          Selected(ds, sub, key) <=> (ps = {} \/ \E up \in ps : PatternSelects(up, ds, sub, key))
    /\ ps # {} => FilterKeys(filter, Names) = {ds \in Names : \E up \in ps : fnmatch(ds, up.ds)}

=============================================================================
