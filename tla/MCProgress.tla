----------------------------- MODULE MCProgress -----------------------------
(* Small instances of Progress for TLC. *)
EXTENDS Progress

\* The first slice has a cache of one byte, the others have none.
FirstCached == [i \in Slices |-> IF i = 1 THEN 1 ELSE 0]
=============================================================================
