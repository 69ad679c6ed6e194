---------------------------- MODULE FetchFileInfo ----------------------------
(***************************************************************************)
(* How a worker learns the size of the resource (fetchFileInfo and the     *)
(* loop around it, src/entry_handler.cpp 184-195): a request that follows  *)
(* redirects, a callback for the header lines of EVERY response on the     *)
(* way, and new tries after a failure.  One FileInfo serves all tries and  *)
(* is never cleared in between.                                            *)
(*                                                                         *)
(* Only one worker fetches at a time, so one variable is enough.  The      *)
(* steps take as an argument whether a stop is requested; Zoe knows.       *)
(***************************************************************************)
EXTENDS Integers

CONSTANTS
  FetchRetry,  \* options_->fetch_file_info_retry
  Responses    \* what servers may answer

(* kind: "final" is 200 or 350, "redirect" a response libcurl follows,       *)
(* "error" any other code.  length: the Content-Length, -1 when no header    *)
(* line states it.  no_ranges: the line "Accept-Ranges: none" is there.      *)
Response == [kind : {"final", "redirect", "error"}, length : Nat \cup {-1},
             no_ranges : BOOLEAN]

ASSUME FetchAssumption == FetchRetry \in Nat /\ Responses \subseteq Response

VARIABLE fetch

(* at: "off" while nobody fetches, "try" before a request, "running" inside  *)
(* the perform loop, "received" when it has left the loop with a response,   *)
(* "got" and "failed" when the tries are over.  size and accept_ranges are   *)
(* the FileInfo, last is the response that came last.                        *)
FetchRecord ==
  [at : {"off", "try", "running", "received", "got", "failed"}, tries : Nat,
   size : Nat \cup {-1}, accept_ranges : BOOLEAN, last : Response]

NoResponse == [kind |-> "error", length |-> -1, no_ranges |-> FALSE]

FetchOff == [at |-> "off", tries |-> 0, size |-> -1, accept_ranges |-> TRUE,
             last |-> NoResponse]

\* A new FileInfo, and no try made yet.
FetchBegin == fetch' = [FetchOff EXCEPT !.at = "try"]

(* Mutant: the first Content-Length is kept. *)
FirstLengthKept(info, r) ==
  [info EXCEPT !.size = IF r.length >= 0 /\ @ = -1 THEN r.length ELSE @,
               !.accept_ranges = @ /\ ~r.no_ranges]

(* __WriteHeaderCallback over the header lines of response r: a line that is *)
(* there replaces what was known, one that is not leaves it.                 *)
WithHeaders(info, r) ==
  [info EXCEPT !.size = IF r.length >= 0 THEN r.length ELSE @,
               !.accept_ranges = @ /\ ~r.no_ranges]

(* A try is over.  A new one is made unless it went well, a stop is          *)
(* requested, or they are used up.                                           *)
TryOver(ok, stop) ==
  LET n == fetch.tries + 1 IN
  fetch' = IF ok THEN [fetch EXCEPT !.at = "got"]
           ELSE IF stop THEN [fetch EXCEPT !.at = "failed"]
           ELSE [fetch EXCEPT !.tries = n,
                              !.at = IF n <= FetchRetry THEN "try" ELSE "failed"]

\* The handles are made and the transfer begins.
BeginTry ==
  /\ fetch.at = "try"
  /\ fetch' = [fetch EXCEPT !.at = "running"]

(* A response arrives; libcurl goes on by itself after a redirect. *)
Respond(r) ==
  /\ fetch.at = "running"
  /\ fetch' = [WithHeaders(fetch, r) EXCEPT
                 !.last = r,
                 !.at = IF r.kind = "redirect" THEN "running" ELSE "received"]

(* A handle cannot be made, or the transfer ends with an error, before or    *)
(* after the headers of a response came.                                     *)
TryFails(stop) ==
  /\ fetch.at \in {"try", "running", "received"}
  /\ TryOver(FALSE, stop)

\* The perform loop is left because of a stop.
TryInterrupted(stop) ==
  /\ fetch.at \in {"try", "running"} /\ stop
  /\ TryOver(FALSE, stop)

\* The transfer is complete: stop and response code decide.
TryEnds(stop) ==
  /\ fetch.at = "received"
  /\ TryOver(~stop /\ fetch.last.kind = "final", stop)

(* What the worker's own thread does, a response apart. *)
FetchStep(stop) == BeginTry \/ TryInterrupted(stop) \/ TryEnds(stop)

FetchNetwork(stop) == TryFails(stop) \/ \E r \in Responses : Respond(r)

(* The size that is used is the one of the response that was accepted, not   *)
(* of a redirect before it or of the error page of an earlier try, whenever  *)
(* that response states one; and ranges are asked for only from a server     *)
(* that did not decline them (one FileInfo is filled by all responses).      *)
InfoOfFinalResponse ==
  fetch.at = "got" =>
    /\ fetch.last.length >= 0 => fetch.size = fetch.last.length
    /\ fetch.accept_ranges => ~fetch.last.no_ranges
=============================================================================
