---------------------------- MODULE MergeAbstract ----------------------------
(***************************************************************************)
(* What `kart merge` promises, without gitdir files, working copies or     *)
(* crashes: a repository is NORMAL or MERGING (spec.md 4.5).  From NORMAL *)
(* a merge either moves HEAD forward to a descendant, writes a merge       *)
(* commit whose first parent is HEAD, or enters MERGING with the commit    *)
(* being merged; a merge --into another branch only adds a commit.  From  *)
(* MERGING, --continue writes the merge commit of HEAD and that commit,   *)
(* and --abort returns to NORMAL with HEAD unchanged.  HEAD never moves   *)
(* otherwise.                                                              *)
(***************************************************************************)
EXTENDS Naturals, Sequences

VARIABLES
    state,        \* "normal" or "merging"
    head,         \* the commit HEAD points at
    parents,      \* the commit graph: commit id -> sequence of parent ids
    mergingWith   \* in MERGING, the commit being merged in

vars == <<state, head, parents, mergingWith>>

RECURSIVE Reach(_, _)
Reach(g, c) == {c} \cup UNION {Reach(g, g[c][i]) : i \in DOMAIN g[c]}

\* A new commit n with the given parents is appended to the graph.
NewCommit(ps, n) ==
    /\ n = Len(parents) + 1
    /\ parents' = Append(parents, ps)

FastForward ==
    /\ state = "normal"
    /\ \E c \in DOMAIN parents : c # head /\ head \in Reach(parents, c) /\ head' = c
    /\ UNCHANGED <<state, parents, mergingWith>>

MergeCommit ==
    /\ state = "normal"
    /\ \E t \in DOMAIN parents : NewCommit(<<head, t>>, head')
    /\ UNCHANGED <<state, mergingWith>>

\* A merge into a branch other than HEAD's: a merge commit on that branch,
\* HEAD unchanged.
MergeInto ==
    /\ state = "normal"
    /\ \E o, t \in DOMAIN parents : NewCommit(<<o, t>>, Len(parents) + 1)
    /\ UNCHANGED <<state, head, mergingWith>>

EnterMerging ==
    /\ state = "normal"
    /\ state' = "merging"
    /\ mergingWith' \in DOMAIN parents
    /\ UNCHANGED <<head, parents>>

Complete ==
    /\ state = "merging"
    /\ state' = "normal"
    /\ NewCommit(<<head, mergingWith>>, head')
    /\ UNCHANGED mergingWith

Abort ==
    /\ state = "merging"
    /\ state' = "normal"
    /\ UNCHANGED <<head, parents, mergingWith>>

Init ==
    /\ state = "normal"
    /\ head \in DOMAIN parents

Next == FastForward \/ MergeCommit \/ MergeInto \/ EnterMerging \/ Complete \/ Abort

Spec == Init /\ [][Next]_vars

=============================================================================
