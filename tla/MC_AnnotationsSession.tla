----------------------- MODULE MC_AnnotationsSession -----------------------
(* AnnotationsSession for TLC: every database state, blocks nested three  *)
(* deep, up to three sessions in sequence (a failed or fallback open      *)
(* followed by another), and two writes pending per session.              *)
EXTENDS AnnotationsSession

=============================================================================
