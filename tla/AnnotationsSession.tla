------------------------- MODULE AnnotationsSession -------------------------
(***************************************************************************)
(* The annotations database session of src/kart/annotations/db.py, seen   *)
(* from one thread.  annotations_session(repo) either reuses the thread-  *)
(* local session _local.session (when a block is already open on this     *)
(* thread) or opens one with _annotations_session: a SQLAlchemy session   *)
(* on annotations.db, create_all, then _local.session = s, yield, commit   *)
(* on a clean exit and, in a finally, clear the slot; the session is      *)
(* closed by the enclosing `with sm() as s`.  When the file cannot be     *)
(* opened it falls back to an in-memory database; a read-only database    *)
(* is used as is.  Callers (outside src/) write through                   *)
(* ignore_readonly_db, may raise, and may catch what a nested block       *)
(* raised.                                                                 *)
(*                                                                         *)
(* The database is one of:                                                 *)
(*   "writable"       create_all and writes succeed;                      *)
(*   "readonly"       a read-only file holding the table: create_all      *)
(*                    succeeds, writes raise "readonly database";          *)
(*   "readonly_empty" a read-only file without it: create_all raises      *)
(*                    "readonly database";                                 *)
(*   "readonly_dir"   no file in a read-only directory: create_all        *)
(*                    raises "unable to open database file";               *)
(*   "broken"         create_all raises any other OperationalError.        *)
(***************************************************************************)
EXTENDS Naturals, Sequences

LOCAL SeqExt == INSTANCE SequencesExt

CONSTANTS
    None,          \* _local.session before any block and after the last
    MaxDepth,      \* nesting of annotations_session blocks
    MaxSessions,   \* sessions the command opens, in sequence
    MaxWrites      \* writes pending in one session

DBStates == {"writable", "readonly", "readonly_empty", "readonly_dir", "broken"}
Stores == {"file", "memory"}
NoExc == "none"
Exceptions == {NoExc, "Error", "OperationalError"}

VARIABLES
    db,         \* the state of .kart/annotations.db and its directory
    slot,       \* _local.session: an index into sessions, or None
    stack,      \* the open annotations_session blocks, outermost first
    sessions,   \* every session opened: [store, open, pending]
    exc,        \* the exception propagating in the innermost body
    committed,  \* writes committed, per store
    done        \* the command has returned

vars == <<db, slot, stack, sessions, exc, committed, done>>

Frames == [kind : {"reuse", "file", "memory"}, s : Nat]

(* What Base.metadata.create_all(engine) raises on each database, by the  *)
(* text of the OperationalError, or "ok".                                 *)
CreateAllError(store) ==
    IF store = "memory" THEN "ok"
    ELSE CASE db = "readonly_empty" -> "readonly database"
           [] db = "readonly_dir"   -> "unable to open database file"
           [] db = "broken"         -> "disk I/O error"
           [] OTHER                 -> "ok"

(* Whether a write on the store succeeds; the memory database is always   *)
(* writable, is_readonly notwithstanding.                                  *)
Writable(store) == store = "memory" \/ db = "writable"

(* _annotations_session swallows a create_all error on a read-only        *)
(* database.                                                               *)
IgnoredOnCreate(err) == err \in {"ok", "readonly database"}

(* annotations_session falls back to memory when the file cannot be       *)
(* opened.                                                                 *)
Fallback(err) == err = "unable to open database file"

Session(store) == [store |-> store, open |-> TRUE, pending |-> 0]
Closed(store) == [store |-> store, open |-> FALSE, pending |-> 0]

(* The thread runs and no exception is unwinding its body.                *)
Running == ~done /\ exc = NoExc

Init ==
    /\ db \in DBStates
    /\ slot = None
    /\ stack = <<>>
    /\ sessions = <<>>
    /\ exc = NoExc
    /\ committed = [st \in Stores |-> 0]
    /\ done = FALSE

-----------------------------------------------------------------------------
ReenterUnchecked ==
    /\ Running
    /\ Len(stack) < MaxDepth
    /\ stack' = Append(stack, [kind |-> "reuse", s |-> slot])
    /\ UNCHANGED <<db, slot, sessions, exc, committed, done>>

(* annotations_session on a thread that already holds a session: yield it. *)
Reenter ==
    /\ Running
    /\ slot # None
    /\ Len(stack) < MaxDepth
    /\ stack' = Append(stack, [kind |-> "reuse", s |-> slot])
    /\ UNCHANGED <<db, slot, sessions, exc, committed, done>>

(* No session on the thread: _annotations_session on annotations.db gets   *)
(* through create_all (or swallows its read-only error), sets the slot and *)
(* yields.                                                                 *)
EnterFileSession ==
    /\ Running
    /\ slot = None
    /\ Len(stack) < MaxDepth
    /\ Len(sessions) < MaxSessions
    /\ IgnoredOnCreate(CreateAllError("file"))
    /\ sessions' = Append(sessions, Session("file"))
    /\ slot' = Len(sessions) + 1
    /\ stack' = Append(stack, [kind |-> "file", s |-> Len(sessions) + 1])
    /\ UNCHANGED <<db, exc, committed, done>>

(* create_all cannot open the file: the file session is closed by its     *)
(* `with`, and a session on ":memory:" is opened, marked read-only, set as  *)
(* the slot and yielded.                                                   *)
EnterMemoryFallback ==
    /\ Running
    /\ slot = None
    /\ Len(stack) < MaxDepth
    /\ Len(sessions) + 2 <= MaxSessions
    /\ Fallback(CreateAllError("file"))
    /\ sessions' = sessions \o <<Closed("file"), Session("memory")>>
    /\ slot' = Len(sessions) + 2
    /\ stack' = Append(stack, [kind |-> "memory", s |-> Len(sessions) + 2])
    /\ UNCHANGED <<db, exc, committed, done>>

(* Any other create_all error: the session is closed and the              *)
(* OperationalError reaches the caller.                                   *)
EnterFails ==
    /\ Running
    /\ slot = None
    /\ Len(stack) < MaxDepth
    /\ Len(sessions) < MaxSessions
    /\ ~IgnoredOnCreate(CreateAllError("file"))
    /\ ~Fallback(CreateAllError("file"))
    /\ sessions' = Append(sessions, Closed("file"))
    /\ exc' = "OperationalError"
    /\ UNCHANGED <<db, slot, stack, committed, done>>

(* The body writes an annotation under ignore_readonly_db: on a database  *)
(* that refuses it the error is swallowed and the session rolled back.    *)
Write ==
    /\ Running
    /\ stack # <<>>
    /\ LET n == SeqExt!Last(stack).s IN
         /\ sessions[n].pending < MaxWrites
         /\ sessions' = [sessions EXCEPT ![n].pending =
                             IF Writable(sessions[n].store) THEN @ + 1 ELSE 0]
    /\ UNCHANGED <<db, slot, stack, exc, committed, done>>

(* The body raises.                                                        *)
Raise ==
    /\ Running
    /\ stack # <<>>
    /\ exc' = "Error"
    /\ UNCHANGED <<db, slot, stack, sessions, committed, done>>

(* The body catches what a nested block, or annotations_session, raised.  *)
Catch ==
    /\ ~done
    /\ exc # NoExc
    /\ exc' = NoExc
    /\ UNCHANGED <<db, slot, stack, sessions, committed, done>>

(* A reused block exits: annotations_session's `yield s` returns or       *)
(* re-raises, and nothing else happens.                                   *)
ExitReuse ==
    /\ ~done
    /\ stack # <<>>
    /\ SeqExt!Last(stack).kind = "reuse"
    /\ stack' = SeqExt!Front(stack)
    /\ UNCHANGED <<db, slot, sessions, exc, committed, done>>

ExitSessionNoFinally ==
    /\ ~done
    /\ stack # <<>>
    /\ SeqExt!Last(stack).kind # "reuse"
    /\ LET n == SeqExt!Last(stack).s IN
         /\ committed' = IF exc = NoExc
                           THEN [committed EXCEPT ![sessions[n].store] =
                                     @ + sessions[n].pending]
                           ELSE committed
         /\ slot' = IF exc = NoExc THEN None ELSE slot
         /\ sessions' = [sessions EXCEPT ![n] = Closed(@.store)]
    /\ stack' = SeqExt!Front(stack)
    /\ UNCHANGED <<db, exc, done>>

(* The block that opened the session exits: commit when the body did not  *)
(* raise, then the finally clears the slot, then `with sm()` closes the    *)
(* session, discarding what was not committed.                            *)
ExitSession ==
    /\ ~done
    /\ stack # <<>>
    /\ SeqExt!Last(stack).kind # "reuse"
    /\ LET n == SeqExt!Last(stack).s IN
         /\ committed' = IF exc = NoExc
                           THEN [committed EXCEPT ![sessions[n].store] =
                                     @ + sessions[n].pending]
                           ELSE committed
         /\ slot' = None
         /\ sessions' = [sessions EXCEPT ![n] = Closed(@.store)]
    /\ stack' = SeqExt!Front(stack)
    /\ UNCHANGED <<db, exc, done>>

(* The command returns, normally or with the exception.                  *)
Finish ==
    /\ ~done
    /\ stack = <<>>
    /\ done' = TRUE
    /\ UNCHANGED <<db, slot, stack, sessions, exc, committed>>

Next ==
    \/ Reenter \/ EnterFileSession \/ EnterMemoryFallback \/ EnterFails
    \/ Write \/ Raise \/ Catch
    \/ ExitReuse \/ ExitSession
    \/ Finish

Spec == Init /\ [][Next]_vars

-----------------------------------------------------------------------------
TypeOK ==
    /\ db \in DBStates
    /\ slot \in 1..MaxSessions \cup {None}
    /\ stack \in Seq(Frames)
    /\ sessions \in Seq([store : Stores, open : BOOLEAN, pending : 0..MaxWrites])
    /\ exc \in Exceptions
    /\ committed \in [Stores -> Nat]
    /\ done \in BOOLEAN

(* Scoped, reentrant session (spec.md 8, "thread-local slot with explicit *)
(* enter/leave guards", "guaranteed release on every exit path"): the     *)
(* thread has at most one open session; every nested annotations_session  *)
(* block yields the one the outermost block opened, which is the slot;    *)
(* and once the outermost block has exited, normally, by an exception or  *)
(* after a failed open, the slot is empty and every session is closed.    *)
SessionScope ==
    /\ \A i \in 1..Len(stack) :
          /\ stack[i].s = slot
          /\ (stack[i].kind = "reuse") <=> (i > 1)
    /\ \A n \in 1..Len(sessions) :
          sessions[n].open <=> (stack # <<>> /\ n = slot)
    /\ (stack = <<>>) => (slot = None)

=============================================================================
