-------------------------------- MODULE MCZoe --------------------------------
(* Small instances of Zoe for TLC: what servers may answer. *)
EXTENDS Zoe

Answer(kind, length, no_ranges) ==
  [kind |-> kind, length |-> length, no_ranges |-> no_ranges]

\* A resource of two bytes or none, with its length or without, behind a
\* redirect or an error page that have a length of their own.
SomeResponses ==
  {Answer("final", 2, FALSE), Answer("final", 0, FALSE), Answer("final", -1, TRUE),
   Answer("redirect", 1, FALSE), Answer("error", 1, TRUE)}
=============================================================================
