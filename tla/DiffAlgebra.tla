----------------------------- MODULE DiffAlgebra -----------------------------
(***************************************************************************)
(* Delta and Diff concatenation and inversion (src/kart/diff_structs.py). *)
(*                                                                         *)
(* A diff over a range of commits is built by concatenating the RepoDiff  *)
(* of each step, with Diff.__add__ or in place with Diff.__iadd__ (the    *)
(* loop of Diff.concatenated).  A RepoDiff maps dataset paths to          *)
(* DatasetDiffs; a DatasetDiff maps "feature" and "meta" to a DeltaDiff or *)
(* a LazyDeltaDiff, and may hold the bool "data_changes"; a DeltaDiff maps *)
(* keys to Deltas.  The model walks a repository through a bounded        *)
(* sequence of snapshots and concatenates the diff of every step into an  *)
(* accumulated diff.                                                        *)
(*                                                                         *)
(* A Python value of a diff is a record [t, v]: t is its class ("repo",    *)
(* "ds", "dd", "lazy", "bool", "int") and v its contents; an exception is  *)
(* [t |-> "raise", v |-> its class].  The objects are fresh at every step  *)
(* and dropped once concatenated, so their identity is left out.  A delta *)
(* keeps its key in the diff's domain; renames (old key # new key) are not *)
(* produced by diff_dicts and are left out, and so are delta flags.        *)
(***************************************************************************)
EXTENDS Naturals, FiniteSets, TLC

CONSTANTS
    DS,         \* dataset paths
    Layout,     \* the items of the repository: <<dataset, "feature" or "meta", key>>
    Values,     \* feature values
    Absent,     \* the key has no feature (KeyValue None)
    NoDelta,    \* a concatenation that cancels out (None)
    Conflict,   \* the Conflict exception of Delta.__add__
    MaxSteps,   \* bound on the number of concatenated steps
    DataChangesFormat  \* whether step diffs give "data_changes" instead of features

Blob == Values \cup {Absent}
Snapshots == [Layout -> Blob]

\* A Delta of one key: old or new is Absent for an insert or a delete.
Deltas == {d \in [old : Blob, new : Blob] : ~(d.old = Absent /\ d.new = Absent)}

\* Delta.type
DeltaType(d) ==
    IF d.old = Absent THEN "insert" ELSE IF d.new = Absent THEN "delete" ELSE "update"

\* Mutant: Delta.update where maybe_update is called.
MaybeUpdateAlways(old, new) == [old |-> old, new |-> new]

\* Delta.maybe_update: no delta when the values are equal.
MaybeUpdate(old, new) == IF old # new THEN [old |-> old, new |-> new] ELSE NoDelta

\* Mutant: ins + del taken as a delete of the insert's old value.
DeltaAddInsDelAsDelete(d, e) ==
    LET t == <<DeltaType(d), DeltaType(e)>> IN
    CASE t = <<"insert", "insert">> -> Conflict
      [] t = <<"insert", "update">> -> [old |-> Absent, new |-> e.new]
      [] t = <<"insert", "delete">> -> [old |-> d.old, new |-> Absent]
      [] t = <<"update", "insert">> -> Conflict
      [] t = <<"update", "update">> -> MaybeUpdate(d.old, e.new)
      [] t = <<"update", "delete">> -> [old |-> d.old, new |-> Absent]
      [] t = <<"delete", "insert">> -> MaybeUpdate(d.old, e.new)
      [] t[1] = "delete" /\ t[2] # "insert" -> Conflict

\* Delta.__add__: concatenate a delta with the subsequent one.
DeltaAdd(d, e) ==
    LET t == <<DeltaType(d), DeltaType(e)>> IN
    CASE t = <<"insert", "insert">> -> Conflict
      [] t = <<"insert", "update">> -> [old |-> Absent, new |-> e.new]
      [] t = <<"insert", "delete">> -> NoDelta
      [] t = <<"update", "insert">> -> Conflict
      [] t = <<"update", "update">> -> MaybeUpdate(d.old, e.new)
      [] t = <<"update", "delete">> -> [old |-> d.old, new |-> Absent]
      [] t = <<"delete", "insert">> -> MaybeUpdate(d.old, e.new)
      [] t[1] = "delete" /\ t[2] # "insert" -> Conflict


Val(t, v) == [t |-> t, v |-> v]
Exc(e) == [t |-> "raise", v |-> e]
IsExc(x) == x.t = "raise"

Secs(d) == {p[2] : p \in {p \in Layout : p[1] = d}}
SecKeys(d, s) == {p[3] : p \in {p \in Layout : p[1] = d /\ p[2] = s}}

\* DeltaDiff.diff_dicts: one delta for each key whose value differs.
DiffDicts(old, new, d, s) ==
    LET at(snap, k) == snap[<<d, s, k>>] IN
    [k \in {k \in SecKeys(d, s) : at(old, k) # at(new, k)} |->
        [old |-> at(old, k), new |-> at(new, k)]]

\* RichDict.prune on a DatasetDiff's children: "data_changes" False is
\* dropped when it is the only child (a DeltaDiff is only there when it
\* is not empty).
Prune(c) ==
    IF DOMAIN c = {"data_changes"} /\ c["data_changes"].v = FALSE
    THEN [k \in {} |-> c] ELSE c

\* The diff of one step as the diff producers build it (spec.md 4.3): per
\* dataset, a DeltaDiff, or a LazyDeltaDiff for the sections in `lazy`,
\* for each section with changes; with DataChangesFormat the features are
\* only reported as the bool "data_changes".
DatasetDiffOf(old, new, d, lazy) ==
    LET changed == {s \in Secs(d) : DOMAIN DiffDicts(old, new, d, s) # {}}
        shown == IF DataChangesFormat THEN changed \ {"feature"} ELSE changed
        sec(s) == Val(IF <<d, s>> \in lazy THEN "lazy" ELSE "dd", DiffDicts(old, new, d, s))
    IN Prune(IF DataChangesFormat
             THEN [k \in shown \cup {"data_changes"} |->
                     IF k = "data_changes" THEN Val("bool", "feature" \in changed) ELSE sec(k)]
             ELSE [k \in shown |-> sec(k)])

RepoDiffOf(old, new, lazy) ==
    LET dsd(d) == DatasetDiffOf(old, new, d, lazy) IN
    Val("repo", [d \in {d \in DS : DOMAIN dsd(d) # {}} |-> Val("ds", dsd(d))])

-----------------------------------------------------------------------------
(* Python's operators on these values                                      *)

\* Diff.resolve (replacing every LazyDeltaDiff child by a DeltaDiff),
\* DeltaDiff.resolve, LazyDeltaDiff.resolve; a bool has no resolve.
RECURSIVE Resolve(_)
Resolve(x) ==
    CASE x.t = "lazy" -> Val("dd", x.v)
      [] x.t = "dd" -> x
      [] x.t \in {"ds", "repo"} ->
           LET r == [k \in DOMAIN x.v |-> Resolve(x.v[k])] IN
           IF \E k \in DOMAIN r : IsExc(r[k]) THEN Exc("AttributeError") ELSE Val(x.t, r)
      [] OTHER -> Exc("AttributeError")

\* Truth value: a dict is true when not empty, a LazyDeltaDiff when its
\* iterator yields something (_bool), a number when not 0.
Truthy(x) ==
    CASE x.t \in {"dd", "ds", "repo", "lazy"} -> DOMAIN x.v # {}
      [] x.t = "bool" -> x.v
      [] OTHER -> x.v # 0

\* RichDict.ensure_child_type: RepoDiff.child_type, DatasetDiff.child_type.
ChildOK(t, c) ==
    IF t = "repo" THEN c.t = "ds" ELSE c.t \in {"lazy", "dd", "bool"}

RECURSIVE Merge(_, _, _), Add(_, _)

\* The loop of Diff.__add__ / __iadd__ over the keys: a key of one side
\* keeps that side's child; a key of both takes lhs + rhs, or is removed
\* when that is empty; the first exception ends the loop.  In a DeltaDiff
\* the children are Deltas and + is Delta.__add__.
Merge(t, l, r) ==
    LET both == DOMAIN l \cap DOMAIN r
        sum == [k \in both |-> IF t = "dd" THEN DeltaAdd(l[k], r[k]) ELSE Add(l[k], r[k])]
        failed(k) == IF t = "dd" THEN sum[k] = Conflict ELSE IsExc(sum[k])
        empty(k) == IF t = "dd" THEN sum[k] = NoDelta ELSE ~Truthy(sum[k])
        bad == {k \in both : failed(k)}
        kept == {k \in both \ bad : ~empty(k)}
        dom == ((DOMAIN l \cup DOMAIN r) \ both) \cup kept
    IN CASE bad # {} -> IF t = "dd" THEN Exc("Conflict") ELSE sum[CHOOSE k \in bad : TRUE]
         [] t # "dd" /\ \E k \in kept : ~ChildOK(t, sum[k]) -> Exc("TypeError")
         [] OTHER -> Val(t, [k \in dom |-> IF k \in both THEN sum[k]
                                          ELSE IF k \in DOMAIN l THEN l[k] ELSE r[k]])

\* Diff.__add__: other is resolved first, then a new diff is built.
DiffAdd(self, other) ==
    LET o == Resolve(other) IN
    CASE IsExc(o) -> o
      [] o.t # self.t -> Exc("TypeError")
      [] OTHER -> Merge(self.t, self.v, o.v)

\* Diff.__iadd__: self is updated key by key of other, unresolved.
DiffIAdd(self, other) ==
    IF other.t # self.t THEN Exc("TypeError") ELSE Merge(self.t, self.v, other.v)

\* `lhs + rhs` on two children: LazyDeltaDiff.__add__ resolves itself and
\* adds in place; bool + bool is an int; the rest is Diff.__add__.
Add(x, y) ==
    CASE x.t = "lazy" -> DiffIAdd(Resolve(x), y)
      [] x.t = "bool" -> Val("int", (IF x.v THEN 1 ELSE 0) + (IF y.v THEN 1 ELSE 0))
      [] OTHER -> DiffAdd(x, y)

-----------------------------------------------------------------------------

VARIABLES
    base,   \* the snapshot the accumulated diff starts from
    cur,    \* the current snapshot
    acc,    \* the accumulated RepoDiff, or the exception it raised
    steps   \* number of diffs concatenated into acc

vars == <<base, cur, acc, steps>>

\* The sections a step changes: the ones a producer may give lazily.
Lazyable(old, new) == {<<p[1], p[2]>> : p \in {p \in Layout : old[p] # new[p]}}

Init ==
    /\ base \in Snapshots
    /\ cur = base
    /\ acc = Val("repo", <<>>)
    /\ steps = 0

\* Diff.concatenated: result += diff for the diff of the next step.
ConcatenateInPlace(new, lazy) ==
    /\ steps < MaxSteps
    /\ ~IsExc(acc)
    /\ acc' = DiffIAdd(acc, RepoDiffOf(cur, new, lazy))
    /\ cur' = new
    /\ steps' = steps + 1
    /\ UNCHANGED base

\* result = lhs + rhs for the diff of the next step (which lhs + rhs
\* resolves first, so whether it was produced lazily makes no difference).
ConcatenateNew(new) ==
    /\ steps < MaxSteps
    /\ ~IsExc(acc)
    /\ acc' = DiffAdd(acc, RepoDiffOf(cur, new, {}))
    /\ cur' = new
    /\ steps' = steps + 1
    /\ UNCHANGED base

\* A new range of commits begins at the current snapshot.
Restart ==
    /\ steps > 0
    /\ base' = cur
    /\ acc' = Val("repo", <<>>)
    /\ steps' = 0
    /\ UNCHANGED cur

Next ==
    \/ \E new \in Snapshots :
          \/ \E lazy \in SUBSET Lazyable(cur, new) : ConcatenateInPlace(new, lazy)
          \/ ConcatenateNew(new)
    \/ Restart

Spec == Init /\ [][Next]_vars

-----------------------------------------------------------------------------

\* A diff with every LazyDeltaDiff resolved, for comparing contents.
RECURSIVE Normal(_)
Normal(x) ==
    CASE x.t = "lazy" -> Val("dd", x.v)
      [] x.t \in {"ds", "repo"} -> Val(x.t, [k \in DOMAIN x.v |-> Normal(x.v[k])])
      [] OTHER -> x

DeltaDiffOK(x) == x.t \in {"dd", "lazy"} /\ \A k \in DOMAIN x.v : x.v[k] \in Deltas

TypeOK ==
    /\ base \in Snapshots /\ cur \in Snapshots
    /\ steps \in 0..MaxSteps
    /\ IsExc(acc) \/
         /\ acc.t = "repo" /\ DOMAIN acc.v \subseteq DS
         /\ \A d \in DOMAIN acc.v :
              \A s \in DOMAIN acc.v[d].v :
                 IF s = "data_changes" THEN acc.v[d].v[s].t = "bool" ELSE DeltaDiffOK(acc.v[d].v[s])

\* Concatenating the diffs of every step, in place or not, whichever
\* sections were produced lazily, never raises and gives the diff of the
\* whole range (Delta.__add__'s table, maybe_update, the recursion of
\* Diff.__add__ / __iadd__ through RepoDiff and DatasetDiff,
\* LazyDeltaDiff.__add__ and resolve, the key removal when a sum is empty).
ConcatenationIsRangeDiff ==
    /\ ~IsExc(acc)
    /\ Normal(acc) = RepoDiffOf(base, cur, {})

=============================================================================
