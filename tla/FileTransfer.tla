---------------------------- MODULE FileTransfer ----------------------------
(***************************************************************************)
(* What a download promises about the target file (zoe.h: start, and the   *)
(* result functor), with no slice, connection, temporary file or index in  *)
(* sight.  A session either places the whole resource at the target path,  *)
(* at one instant, and reports SUCCESSED, or it leaves the target alone    *)
(* and reports something else.  The process may die at any moment, between *)
(* the two as well.  A session may be misled by what an earlier one left   *)
(* behind; from then on nothing is promised of the file that is placed.    *)
(* EntryHandler implements it.                                             *)
(***************************************************************************)
CONSTANTS
  Contents,  \* what a server may hold
  Bytes,     \* the file a content is, a function on Contents
  Files,     \* all files
  NoFile,    \* no file has the target path
  Failures   \* the results that are no success

VARIABLES
  target,    \* the file at the target path
  src,       \* the content this session is to fetch
  phase,     \* of the session: "idle", "busy", then "placed" or back to idle
  result,    \* what the last session reported, "none" until it does
  misled     \* a session has taken up what does not belong together

vars == <<target, src, phase, result, misled>>

Init ==
  /\ target = NoFile /\ src \in Contents
  /\ phase = "idle" /\ result = "none" /\ misled = FALSE

Start ==
  /\ phase = "idle" /\ phase' = "busy"
  /\ src' \in Contents /\ result' = "none"
  /\ UNCHANGED <<target, misled>>

\* The session goes on from an index whose temporary file is gone.
Mislead ==
  /\ phase = "busy" /\ misled' = TRUE
  /\ UNCHANGED <<target, src, phase, result>>

\* All of the resource appears, in place of what was there.
Place ==
  /\ phase = "busy" /\ phase' = "placed"
  /\ target' = Bytes[src] \/ (misled /\ target' \in Files)
  /\ UNCHANGED <<src, result, misled>>

Report ==
  /\ phase' = "idle"
  /\ \/ phase = "placed" /\ result' = "SUCCESSED"
     \/ phase = "busy" /\ result' \in Failures
  /\ UNCHANGED <<target, src, misled>>

Crash ==
  /\ phase # "idle" /\ phase' = "idle"
  /\ UNCHANGED <<target, src, result, misled>>

Next == Start \/ Mislead \/ Place \/ Report \/ Crash

Spec == Init /\ [][Next]_vars
=============================================================================
