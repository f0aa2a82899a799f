---------------------------- MODULE ImportAbstract ----------------------------
(***************************************************************************)
(* What an import promises the branch it imports onto (spec.md 4.6, the    *)
(* docstring of fast_import_tables), without temporary refs, subprocesses *)
(* or concurrent importers: the branch's history is a sequence of trees,   *)
(* and an import appends, in one step, the tree it produces from the       *)
(* branch's current tree, unless that is the current tree and empty        *)
(* commits are not allowed.  History is never rewritten.                   *)
(***************************************************************************)
EXTENDS Sequences

CONSTANTS
    InitTree,         \* the tree of the branch's first commit
    Opts,             \* the imports that may be run
    Result(_, _)      \* the tree an import o makes of a tree t

VARIABLE history      \* the trees of the branch's first-parent chain

Init == history = <<InitTree>>

Import(o) ==
    LET t == history[Len(history)]
    IN /\ o.allowEmpty \/ Result(t, o) # t
       /\ history' = Append(history, Result(t, o))

Next == \E o \in Opts : Import(o)

Spec == Init /\ [][Next]_history

=============================================================================
