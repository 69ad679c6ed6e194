------------------------------ MODULE ZoeProofs ------------------------------
(* The life of a Zoe object, for every number of calls, every user and every *)
(* server: one worker at a time, options that do not change under it,        *)
(* results that reach the functor they are for.                              *)
EXTENDS Zoe, TLAPS

-----------------------------------------------------------------------------
(* The inductive invariant. *)

\* Calls are numbered in order; what has not been called has left no trace.
Numbered ==
  \A c \in Calls :
    /\ c > calls => pc[c] = "none"
    /\ pc[c] = "none" => c \notin disturbed /\ asked[c] = {} /\ told[c] = <<>>
                         /\ ret[c] = "none" /\ reporters[c] = {} /\ ~manager[c]

\* A start that waits has stored its arguments, and its worker is still to come.
Waiting ==
  user = "joining" =>
    /\ handler \in Calls /\ handler < calls
    /\ pc[calls] = "none" /\ args = calls

\* Only a start or a setter that is accepted while a worker runs takes its
\* arguments from it.
OwnArguments ==
  \A c \in Calls :
    /\ Working(c) /\ c \notin disturbed => args = c
    /\ Working(c) \/ pc[c] = "rejected" => told[c] = <<>>

\* Where reporters run, and where there is a slice manager.
WithReporters == {"loop", "finish", "tail", "marked", "ended"}
Placed ==
  \A c \in Calls :
    /\ reporters[c] # {} => pc[c] \in WithReporters
    /\ manager[c] => pc[c] \in WithReporters \cup {"prepare", "joined"}

\* An event that is set while a worker has begun was set for this worker.
StopIsAsked ==
  \A c \in Calls :
    pc[c] \in {"unset", "fetch", "prepare", "loop", "finish"} /\ StopRequested
      => asked[c] # {}

\* A careful user is kept out by state_ while nobody has called stop.
KeptOut ==
  Careful =>
    \A c \in Calls :
      /\ pc[c] \in {"spawned", "unset"} => user = "free" /\ c \notin disturbed
      /\ Downloading(c) /\ "stop" \notin asked[c] =>
           /\ state[c] # "Stopped" /\ c \notin disturbed
           /\ user \notin {"stopping", "joining"}

\* FileInfo agrees with the response that came last, at every moment.
InfoOfLastResponse ==
  /\ fetch.last.length >= 0 => fetch.size = fetch.last.length
  /\ fetch.accept_ranges => ~fetch.last.no_ranges

ZoeInv ==
  /\ TypeOK /\ OneWorker /\ ResultToOwner /\ CanceledOnlyOnRequest
  /\ Numbered /\ Waiting /\ OwnArguments /\ Placed /\ StopIsAsked /\ KeptOut
  /\ InfoOfLastResponse

-----------------------------------------------------------------------------

(* The numbers among the variables. *)
LEMMA Bounds ==
  ASSUME TypeOK
  PROVE  /\ MaxCalls \in Nat /\ calls \in Nat /\ calls <= MaxCalls
         /\ handler \in Nat /\ handler <= calls
         /\ args \in Nat /\ args <= calls /\ args \in 0..MaxCalls
         /\ \A c \in Calls : c \in Nat /\ c > 0 /\ c \in 0..MaxCalls
         /\ calls > 0 => calls \in Calls
         /\ handler > 0 => handler \in Calls
<1>1. calls \in 0..MaxCalls /\ handler \in 0..calls /\ args \in 0..calls  BY DEF TypeOK
<1>. QED  BY <1>1, ZoeAssumption DEF Calls

LEMMA NextCall ==
  ASSUME TypeOK, Numbered, calls < MaxCalls
  PROVE  /\ calls + 1 \in Calls /\ pc[calls + 1] = "none"
         /\ \A d \in Calls : d > calls + 1 => d > calls
         /\ \A d \in Calls : d > calls /\ d # calls + 1 => d > calls + 1
<1>1. calls + 1 \in Calls  BY Bounds DEF Calls
<1>. QED  BY <1>1, Bounds DEF Numbered

(* A step of a worker leaves a start that waits alone. *)
LEMMA WaitingKept ==
  ASSUME NEW c \in Calls, TypeOK, Waiting, pc[c] # "none",
         NEW to, pc' = [pc EXCEPT ![c] = to],
         UNCHANGED <<user, calls, handler, args>>
  PROVE  Waiting'
<1>1. pc \in [Calls -> PC] /\ calls \in 0..MaxCalls  BY DEF TypeOK
<1>2. SUFFICES ASSUME user = "joining" PROVE pc'[calls] = "none"
  BY DEF Waiting
<1>3. pc[calls] = "none" /\ handler \in Calls /\ handler < calls  BY <1>2 DEF Waiting
<1>4. calls \in Calls  BY <1>1, <1>3, ZoeAssumption DEF Calls
<1>. QED  BY <1>1, <1>3, <1>4

(* What a step of fetchFileInfo does to FileInfo. *)
LEMMA FetchKept ==
  ASSUME FetchAssumption, fetch \in FetchRecord, InfoOfLastResponse, NEW stop \in BOOLEAN,
         FetchStep(stop) \/ FetchNetwork(stop)
  PROVE  fetch' \in FetchRecord /\ InfoOfLastResponse'
<1>1. ASSUME NEW ok \in BOOLEAN, TryOver(ok, stop)
      PROVE  fetch' \in FetchRecord /\ InfoOfLastResponse'
  <2>1. fetch.tries + 1 \in Nat /\ ok \in BOOLEAN  BY DEF FetchRecord
  <2>2. CASE fetch' = [fetch EXCEPT !.at = "got"]
    BY <2>2 DEF FetchRecord, InfoOfLastResponse
  <2>3. CASE fetch' = [fetch EXCEPT !.at = "failed"]
    BY <2>3 DEF FetchRecord, InfoOfLastResponse
  <2>4. CASE \E at \in {"try", "failed"} :
               fetch' = [fetch EXCEPT !.tries = fetch.tries + 1, !.at = at]
    BY <2>1, <2>4 DEF FetchRecord, InfoOfLastResponse
  <2>. QED  BY <1>1, <2>1, <2>2, <2>3, <2>4 DEF TryOver
<1>2. CASE BeginTry
  BY <1>2 DEF BeginTry, FetchRecord, InfoOfLastResponse, Response
<1>3. ASSUME NEW r \in Responses, Respond(r)
      PROVE  fetch' \in FetchRecord /\ InfoOfLastResponse'
  <2>1. r \in Response  BY FetchAssumption DEF FetchAssumption
  <2>2. /\ fetch' \in FetchRecord /\ fetch'.last = r
        /\ r.length >= 0 => fetch'.size = r.length
        /\ fetch'.accept_ranges => ~r.no_ranges
    BY <1>3, <2>1 DEF Respond, WithHeaders, FetchRecord, Response
  <2>. QED  BY <2>1, <2>2 DEF InfoOfLastResponse
<1>5. CASE TryEnds(stop)
  <2>1. CASE ~stop /\ fetch.last.kind = "final"
    <3>1. TryOver(TRUE, stop)  BY <1>5, <2>1 DEF TryEnds, TryOver
    <3>. QED  BY <1>1, <3>1
  <2>2. CASE ~(~stop /\ fetch.last.kind = "final")
    <3>1. TryOver(FALSE, stop)  BY <1>5, <2>2 DEF TryEnds, TryOver
    <3>. QED  BY <1>1, <3>1
  <2>. QED  BY <2>1, <2>2
<1>. QED  BY <1>1, <1>2, <1>3, <1>5 DEF FetchStep, FetchNetwork, TryFails, TryInterrupted

LEMMA StartRejectedInv ==
  ASSUME ZoeInv, StartRejected
  PROVE  ZoeInv'
<1>0. /\ calls + 1 \in Calls /\ pc[calls + 1] = "none"
      /\ \A d \in Calls : d > calls + 1 => d > calls
      /\ calls' = calls + 1 /\ pc' = [pc EXCEPT ![calls + 1] = "rejected"]
      /\ \E r \in ResultCode \ {"CANCELED"} : ret' = [ret EXCEPT ![calls + 1] = r]
      /\ user = "free"
      /\ UNCHANGED <<user, handler, shared, state, paused, manager, reporters, told,
                     history, fetch>>
  BY NextCall DEF ZoeInv, StartRejected, ResultCode, UserFree
<1>1. TypeOK'
  <2>1. pc' \in [Calls -> PC] /\ ret' \in [Calls -> ResultCode]
    BY <1>0 DEF ZoeInv, TypeOK, PC
  <2>2. calls' \in 0..MaxCalls /\ handler' \in 0..calls' /\ args' \in 0..calls'
    BY <1>0, Bounds DEF ZoeInv, shared
  <2>. QED  BY <1>0, <2>1, <2>2 DEF ZoeInv, TypeOK, shared, history
<1>2. OneWorker'
  BY <1>0 DEF ZoeInv, OneWorker, Working
<1>3. ResultToOwner'
  BY <1>0 DEF ZoeInv, ResultToOwner, history
<1>4. CanceledOnlyOnRequest'
  BY <1>0 DEF ZoeInv, CanceledOnlyOnRequest, history
<1>5. Numbered'
  <2>. SUFFICES ASSUME NEW d \in Calls
                PROVE  /\ d > calls' => pc'[d] = "none"
                       /\ pc'[d] = "none" => d \notin disturbed' /\ asked'[d] = {}
                            /\ told'[d] = <<>> /\ ret'[d] = "none"
                            /\ reporters'[d] = {} /\ ~manager'[d]
    BY DEF Numbered
  <2>1. pc \in [Calls -> PC] /\ ret \in [Calls -> ResultCode]  BY DEF ZoeInv, TypeOK
  <2>. QED  BY <1>0, <2>1 DEF ZoeInv, Numbered, history
<1>6. Waiting'
  BY <1>0 DEF ZoeInv, Waiting
<1>7. OwnArguments'
  BY <1>0 DEF ZoeInv, OwnArguments, Working, Numbered, shared, history
<1>8. Placed'
  BY <1>0 DEF ZoeInv, Placed, WithReporters
<1>9. StopIsAsked'
  BY <1>0 DEF ZoeInv, StopIsAsked, StopRequested, shared, history
<1>10. KeptOut'
  BY <1>0 DEF ZoeInv, KeptOut, Downloading, history
<1>11. InfoOfLastResponse'
  BY <1>0 DEF ZoeInv, InfoOfLastResponse
<1>. QED  BY <1>1, <1>2, <1>3, <1>4, <1>5, <1>6, <1>7, <1>8, <1>9, <1>10, <1>11 DEF ZoeInv

LEMMA StartAcceptedInv ==
  ASSUME ZoeInv, StartAccepted
  PROVE  ZoeInv'
<1>0. /\ calls + 1 \in Calls /\ pc[calls + 1] = "none"
      /\ \A d \in Calls : d > calls + 1 => d > calls
      /\ calls' = calls + 1 /\ args' = calls + 1
      /\ handler = 0 \/ state[handler] = "Stopped"
      /\ user = "free" /\ (Careful => CarefulUser)
      /\ disturbed' = disturbed \cup {d \in Calls : Working(d)}
      /\ \/ handler = 0 /\ handler' = calls + 1 /\ user' = user
            /\ pc' = [pc EXCEPT ![calls + 1] = "spawned"]
         \/ handler # 0 /\ user' = "joining" /\ UNCHANGED <<handler, pc>>
      /\ UNCHANGED <<stopEv, userEv, state, paused, manager, reporters, ret, told,
                     asked, fetch>>
  BY NextCall DEF ZoeInv, StartAccepted, IsDownloading, UserFree, Spawn
<1>1. TypeOK'
  <2>1. pc' \in [Calls -> PC]  BY <1>0 DEF ZoeInv, TypeOK, PC
  <2>2. calls' \in 0..MaxCalls /\ handler' \in 0..calls' /\ args' \in 0..calls'
    BY <1>0, Bounds DEF ZoeInv
  <2>3. disturbed' \subseteq Calls  BY <1>0 DEF ZoeInv, TypeOK
  <2>. QED  BY <1>0, <2>1, <2>2, <2>3 DEF ZoeInv, TypeOK
<1>2. OneWorker'
  <2>1. pc \in [Calls -> PC]  BY DEF ZoeInv, TypeOK
  <2>2. CASE handler = 0
    <3>1. \A d \in Calls : ~Working(d)  BY <2>2, Bounds DEF ZoeInv, OneWorker
    <3>. QED  BY <1>0, <2>1, <2>2, <3>1 DEF OneWorker, Working
  <2>3. CASE handler # 0
    BY <1>0, <2>3 DEF ZoeInv, OneWorker, Working
  <2>. QED  BY <2>2, <2>3
<1>3. ResultToOwner'
  BY <1>0 DEF ZoeInv, ResultToOwner, TypeOK
<1>4. CanceledOnlyOnRequest'
  BY <1>0 DEF ZoeInv, CanceledOnlyOnRequest
<1>5. Numbered'
  <2>. SUFFICES ASSUME NEW d \in Calls
                PROVE  /\ d > calls' => pc'[d] = "none"
                       /\ pc'[d] = "none" => d \notin disturbed' /\ asked'[d] = {}
                            /\ told'[d] = <<>> /\ ret'[d] = "none"
                            /\ reporters'[d] = {} /\ ~manager'[d]
    BY DEF Numbered
  <2>1. pc \in [Calls -> PC]  BY DEF ZoeInv, TypeOK
  <2>2. pc'[d] = "none" => pc[d] = "none" /\ d \notin disturbed'
    BY <1>0, <2>1 DEF ZoeInv, Numbered, Working
  <2>3. d > calls' => pc'[d] = "none"
    BY <1>0, <2>1 DEF ZoeInv, Numbered
  <2>. QED  BY <1>0, <2>2, <2>3 DEF ZoeInv, Numbered
<1>6. Waiting'
  <2>1. SUFFICES ASSUME user' = "joining"
                 PROVE  /\ handler' \in Calls /\ handler' < calls'
                        /\ pc'[calls'] = "none" /\ args' = calls'
    BY DEF Waiting
  <2>2. handler # 0 /\ UNCHANGED <<handler, pc>>  BY <1>0, <2>1
  <2>. QED  BY <1>0, <2>2, Bounds DEF ZoeInv
<1>7. OwnArguments'
  BY <1>0 DEF ZoeInv, OwnArguments, TypeOK, Working, Numbered
<1>8. Placed'
  BY <1>0 DEF ZoeInv, Placed, TypeOK, WithReporters
<1>9. StopIsAsked'
  BY <1>0 DEF ZoeInv, StopIsAsked, TypeOK, StopRequested
<1>10. KeptOut'
  <2>. SUFFICES ASSUME Careful, NEW d \in Calls
                PROVE  /\ pc'[d] \in {"spawned", "unset"} =>
                            user' = "free" /\ d \notin disturbed'
                       /\ Downloading(d)' /\ "stop" \notin asked'[d] =>
                            /\ state'[d] # "Stopped" /\ d \notin disturbed'
                            /\ user' \notin {"stopping", "joining"}
    BY DEF KeptOut
  <2>1. pc \in [Calls -> PC]  BY DEF ZoeInv, TypeOK
  <2>2. CASE handler = 0
    <3>1. \A e \in Calls : ~Working(e)  BY <2>2, Bounds DEF ZoeInv, OneWorker
    <3>2. d = calls + 1 => d \notin disturbed  BY <1>0 DEF ZoeInv, Numbered
    <3>. QED  BY <1>0, <2>1, <2>2, <3>1, <3>2 DEF Working, Downloading
  <2>3. CASE handler # 0
    <3>1. pc[d] \notin {"spawned", "unset"}
      BY <1>0, <2>3 DEF ZoeInv, OneWorker, Working, CarefulUser
    <3>2. ~(Downloading(d) /\ "stop" \notin asked[d])
      BY <1>0, <2>3 DEF ZoeInv, OneWorker, Working, Downloading, KeptOut
    <3>. QED  BY <1>0, <2>3, <3>1, <3>2 DEF Downloading
  <2>. QED  BY <2>2, <2>3
<1>11. InfoOfLastResponse'
  BY <1>0 DEF ZoeInv, InfoOfLastResponse
<1>. QED  BY <1>1, <1>2, <1>3, <1>4, <1>5, <1>6, <1>7, <1>8, <1>9, <1>10, <1>11 DEF ZoeInv

LEMMA StopInv ==
  ASSUME ZoeInv, Stop
  PROVE  ZoeInv'
<1>1. TypeOK'
  BY DEF ZoeInv, Stop, TypeOK, control
<1>2. OneWorker'
  BY DEF ZoeInv, Stop, OneWorker, Working, control
<1>3. ResultToOwner'
  BY DEF ZoeInv, Stop, ResultToOwner, control
<1>4. CanceledOnlyOnRequest'
  BY DEF ZoeInv, Stop, CanceledOnlyOnRequest, TypeOK, control
<1>5. Numbered'
  BY DEF ZoeInv, Stop, Numbered, TypeOK, Working, control
<1>6. Waiting'
  BY DEF ZoeInv, Stop, Waiting
<1>7. OwnArguments'
  BY DEF ZoeInv, Stop, OwnArguments, Working, control
<1>8. Placed'
  BY DEF ZoeInv, Stop, Placed, control
<1>9. StopIsAsked'
  BY DEF ZoeInv, Stop, StopIsAsked, TypeOK, OneWorker, Working, control
<1>10. KeptOut'
  BY DEF ZoeInv, Stop, UserFree, CarefulUser, KeptOut, TypeOK, Downloading, OneWorker,
     Working, control
<1>11. InfoOfLastResponse'
  BY DEF ZoeInv, Stop, InfoOfLastResponse
<1>. QED  BY <1>1, <1>2, <1>3, <1>4, <1>5, <1>6, <1>7, <1>8, <1>9, <1>10, <1>11 DEF ZoeInv

LEMMA PauseResumeInv ==
  ASSUME ZoeInv, PauseResume
  PROVE  ZoeInv'
<1>1. TypeOK'
  BY DEF ZoeInv, PauseResume, TypeOK, shared, history
<1>2. OneWorker'
  BY DEF ZoeInv, PauseResume, OneWorker, Working
<1>3. ResultToOwner'
  BY DEF ZoeInv, PauseResume, ResultToOwner, history
<1>4. CanceledOnlyOnRequest'
  BY DEF ZoeInv, PauseResume, CanceledOnlyOnRequest, history
<1>5. Numbered'
  BY DEF ZoeInv, PauseResume, Numbered, history
<1>6. Waiting'
  BY DEF ZoeInv, PauseResume, Waiting
<1>7. OwnArguments'
  BY DEF ZoeInv, PauseResume, OwnArguments, Working, shared, history
<1>8. Placed'
  BY DEF ZoeInv, PauseResume, Placed
<1>9. StopIsAsked'
  BY DEF ZoeInv, PauseResume, StopIsAsked, StopRequested, shared, history
<1>10. KeptOut'
  BY DEF ZoeInv, PauseResume, KeptOut, Downloading, OneWorker, Working, Placed,
     WithReporters, history
<1>11. InfoOfLastResponse'
  BY DEF ZoeInv, PauseResume, InfoOfLastResponse
<1>. QED  BY <1>1, <1>2, <1>3, <1>4, <1>5, <1>6, <1>7, <1>8, <1>9, <1>10, <1>11 DEF ZoeInv

LEMMA SetOptionInv ==
  ASSUME ZoeInv, SetOption
  PROVE  ZoeInv'
<1>1. TypeOK'
  BY DEF ZoeInv, SetOption, TypeOK, shared, control
<1>2. OneWorker'
  BY DEF ZoeInv, SetOption, OneWorker, Working, control
<1>3. ResultToOwner'
  BY DEF ZoeInv, SetOption, ResultToOwner, control
<1>4. CanceledOnlyOnRequest'
  BY DEF ZoeInv, SetOption, CanceledOnlyOnRequest, control
<1>5. Numbered'
  BY DEF ZoeInv, SetOption, Numbered, Working, control
<1>6. Waiting'
  BY DEF ZoeInv, SetOption, UserFree, Waiting
<1>7. OwnArguments'
  BY DEF ZoeInv, SetOption, OwnArguments, Working, control
<1>8. Placed'
  BY DEF ZoeInv, SetOption, Placed, control
<1>9. StopIsAsked'
  BY DEF ZoeInv, SetOption, StopIsAsked, StopRequested, shared, control
<1>10. KeptOut'
  <2>1. \A d \in Calls : Working(d) => state[d] = "Stopped"
    BY Bounds DEF ZoeInv, SetOption, IsDownloading, OneWorker
  <2>2. Careful => \A d \in Calls : pc[d] \notin {"spawned", "unset"}
    BY Bounds DEF ZoeInv, SetOption, UserFree, CarefulUser, OneWorker, Working
  <2>. QED  BY <2>1, <2>2 DEF ZoeInv, SetOption, KeptOut, Downloading, control
<1>11. InfoOfLastResponse'
  BY DEF ZoeInv, SetOption, InfoOfLastResponse
<1>. QED  BY <1>1, <1>2, <1>3, <1>4, <1>5, <1>6, <1>7, <1>8, <1>9, <1>10, <1>11 DEF ZoeInv

LEMMA SetUserEventInv ==
  ASSUME ZoeInv, SetUserEvent
  PROVE  ZoeInv'
<1>1. TypeOK'
  BY DEF ZoeInv, SetUserEvent, TypeOK, control
<1>2. OneWorker'
  BY DEF ZoeInv, SetUserEvent, OneWorker, Working, control
<1>3. ResultToOwner'
  BY DEF ZoeInv, SetUserEvent, ResultToOwner, control
<1>4. CanceledOnlyOnRequest'
  BY DEF ZoeInv, SetUserEvent, CanceledOnlyOnRequest, control
<1>5. Numbered'
  BY DEF ZoeInv, SetUserEvent, Numbered, Working, control
<1>6. Waiting'
  BY DEF ZoeInv, SetUserEvent, Waiting, control
<1>7. OwnArguments'
  BY DEF ZoeInv, SetUserEvent, OwnArguments, Working, control
<1>8. Placed'
  BY DEF ZoeInv, SetUserEvent, Placed, control
<1>9. StopIsAsked'
  BY DEF ZoeInv, SetUserEvent, StopIsAsked, Working, control
<1>10. KeptOut'
  BY DEF ZoeInv, SetUserEvent, KeptOut, Downloading, control
<1>11. InfoOfLastResponse'
  BY DEF ZoeInv, SetUserEvent, InfoOfLastResponse
<1>. QED  BY <1>1, <1>2, <1>3, <1>4, <1>5, <1>6, <1>7, <1>8, <1>9, <1>10, <1>11 DEF ZoeInv

LEMMA DeleteInv ==
  ASSUME ZoeInv, Delete
  PROVE  ZoeInv'
<1>1. TypeOK'
  BY DEF ZoeInv, Delete, TypeOK, shared, control, history
<1>2. OneWorker'
  BY DEF ZoeInv, Delete, OneWorker, Working, control
<1>3. ResultToOwner'
  BY DEF ZoeInv, Delete, ResultToOwner, control, history
<1>4. CanceledOnlyOnRequest'
  BY DEF ZoeInv, Delete, CanceledOnlyOnRequest, control, history
<1>5. Numbered'
  BY DEF ZoeInv, Delete, Numbered, control, history
<1>6. Waiting'
  BY DEF ZoeInv, Delete, Waiting
<1>7. OwnArguments'
  BY DEF ZoeInv, Delete, OwnArguments, Working, shared, control, history
<1>8. Placed'
  BY DEF ZoeInv, Delete, Placed, control
<1>9. StopIsAsked'
  BY DEF ZoeInv, Delete, StopIsAsked, StopRequested, shared, control, history
<1>10. KeptOut'
  <2>1. Careful => \A d \in Calls : pc[d] \notin {"spawned", "unset"}
    BY Bounds DEF ZoeInv, Delete, UserFree, CarefulUser, OneWorker, Working
  <2>. QED  BY <2>1 DEF ZoeInv, Delete, KeptOut, Downloading, control, history
<1>11. InfoOfLastResponse'
  BY DEF ZoeInv, Delete, InfoOfLastResponse
<1>. QED  BY <1>1, <1>2, <1>3, <1>4, <1>5, <1>6, <1>7, <1>8, <1>9, <1>10, <1>11 DEF ZoeInv

LEMMA JoinedInv ==
  ASSUME ZoeInv, Joined
  PROVE  ZoeInv'
<1>0. /\ calls \in Calls /\ calls # handler /\ pc[calls] = "none" /\ args = calls
      /\ user = "joining" /\ user' = "free" /\ pc[handler] = "done" /\ handler' = calls
      /\ pc' = [pc EXCEPT ![calls] = "spawned"]
      /\ UNCHANGED <<calls, shared, state, paused, manager, reporters, ret, told,
                     history, fetch>>
  BY Bounds DEF ZoeInv, Joined, Spawn, Waiting
<1>1. TypeOK'
  BY <1>0 DEF ZoeInv, TypeOK, PC, shared, history
<1>2. OneWorker'
  BY <1>0 DEF ZoeInv, OneWorker, Working
<1>3. ResultToOwner'
  BY <1>0 DEF ZoeInv, ResultToOwner, history
<1>4. CanceledOnlyOnRequest'
  BY <1>0 DEF ZoeInv, CanceledOnlyOnRequest, history
<1>5. Numbered'
  <2>. SUFFICES ASSUME NEW d \in Calls
                PROVE  /\ d > calls' => pc'[d] = "none"
                       /\ pc'[d] = "none" => d \notin disturbed' /\ asked'[d] = {}
                            /\ told'[d] = <<>> /\ ret'[d] = "none"
                            /\ reporters'[d] = {} /\ ~manager'[d]
    BY DEF Numbered
  <2>1. pc \in [Calls -> PC]  BY DEF ZoeInv, TypeOK
  <2>2. d > calls => d # calls  BY Bounds DEF ZoeInv
  <2>3. pc'[d] = "none" => pc[d] = "none"  BY <1>0, <2>1
  <2>. QED  BY <1>0, <2>1, <2>2, <2>3 DEF ZoeInv, Numbered, history
<1>6. Waiting'
  BY <1>0 DEF ZoeInv, Waiting
<1>7. OwnArguments'
  BY <1>0 DEF ZoeInv, OwnArguments, Working, OneWorker, Numbered, shared
<1>8. Placed'
  BY <1>0 DEF ZoeInv, Placed, WithReporters
<1>9. StopIsAsked'
  BY <1>0 DEF ZoeInv, StopIsAsked, OneWorker, Working
<1>10. KeptOut'
  BY <1>0 DEF ZoeInv, KeptOut, Downloading, Numbered, history
<1>11. InfoOfLastResponse'
  BY <1>0 DEF ZoeInv, InfoOfLastResponse
<1>. QED  BY <1>1, <1>2, <1>3, <1>4, <1>5, <1>6, <1>7, <1>8, <1>9, <1>10, <1>11 DEF ZoeInv

LEMMA StoreStateInv ==
  ASSUME ZoeInv, StoreState
  PROVE  ZoeInv'
<1>1. TypeOK'
  BY DEF ZoeInv, StoreState, StoredState, TypeOK, shared, history
<1>2. OneWorker'
  BY DEF ZoeInv, StoreState, OneWorker, Working
<1>3. ResultToOwner'
  BY DEF ZoeInv, StoreState, ResultToOwner, history
<1>4. CanceledOnlyOnRequest'
  BY DEF ZoeInv, StoreState, CanceledOnlyOnRequest, history
<1>5. Numbered'
  BY DEF ZoeInv, StoreState, Numbered, history
<1>6. Waiting'
  BY DEF ZoeInv, StoreState, Waiting
<1>7. OwnArguments'
  BY DEF ZoeInv, StoreState, OwnArguments, Working, shared, history
<1>8. Placed'
  BY DEF ZoeInv, StoreState, Placed
<1>9. StopIsAsked'
  BY DEF ZoeInv, StoreState, StopIsAsked, StopRequested, shared, history
<1>10. KeptOut'
  BY DEF ZoeInv, StoreState, StoredState, KeptOut, Downloading, history
<1>11. InfoOfLastResponse'
  BY DEF ZoeInv, StoreState, InfoOfLastResponse
<1>. QED  BY <1>1, <1>2, <1>3, <1>4, <1>5, <1>6, <1>7, <1>8, <1>9, <1>10, <1>11 DEF ZoeInv

LEMMA DeletedInv ==
  ASSUME ZoeInv, Deleted
  PROVE  ZoeInv'
<1>1. TypeOK'
  BY DEF ZoeInv, Deleted, TypeOK, shared, control, history
<1>2. OneWorker'
  <2>1. \A d \in Calls : ~Working(d)
    BY Bounds DEF ZoeInv, Deleted, OneWorker, Working
  <2>. QED  BY <2>1 DEF Deleted, OneWorker, Working, control
<1>3. ResultToOwner'
  BY DEF ZoeInv, Deleted, ResultToOwner, control, history
<1>4. CanceledOnlyOnRequest'
  BY DEF ZoeInv, Deleted, CanceledOnlyOnRequest, control, history
<1>5. Numbered'
  BY DEF ZoeInv, Deleted, Numbered, control, history
<1>6. Waiting'
  BY DEF ZoeInv, Deleted, Waiting
<1>7. OwnArguments'
  BY DEF ZoeInv, Deleted, OwnArguments, Working, shared, control, history
<1>8. Placed'
  BY DEF ZoeInv, Deleted, Placed, control
<1>9. StopIsAsked'
  BY DEF ZoeInv, Deleted, StopIsAsked, StopRequested, shared, control, history
<1>10. KeptOut'
  BY DEF ZoeInv, Deleted, KeptOut, Downloading, control, history
<1>11. InfoOfLastResponse'
  BY DEF ZoeInv, Deleted, InfoOfLastResponse
<1>. QED  BY <1>1, <1>2, <1>3, <1>4, <1>5, <1>6, <1>7, <1>8, <1>9, <1>10, <1>11 DEF ZoeInv

LEMMA UnsetStopEventInv ==
  ASSUME NEW c \in Calls, ZoeInv, UnsetStopEvent(c)
  PROVE  ZoeInv'
<1>1. TypeOK'
  BY DEF ZoeInv, UnsetStopEvent, Goto, TypeOK, PC
<1>2. OneWorker'
  BY DEF ZoeInv, UnsetStopEvent, Goto, OneWorker, Working
<1>3. ResultToOwner'
  BY DEF ZoeInv, UnsetStopEvent, Goto, ResultToOwner
<1>4. CanceledOnlyOnRequest'
  BY DEF ZoeInv, UnsetStopEvent, CanceledOnlyOnRequest
<1>5. Numbered'
  BY DEF ZoeInv, UnsetStopEvent, Goto, Numbered
<1>6. Waiting'
  BY WaitingKept DEF ZoeInv, UnsetStopEvent, Goto
<1>7. OwnArguments'
  BY DEF ZoeInv, UnsetStopEvent, Goto, OwnArguments, Working
<1>8. Placed'
  BY DEF ZoeInv, UnsetStopEvent, Goto, Placed, WithReporters
<1>9. StopIsAsked'
  BY DEF ZoeInv, UnsetStopEvent, Goto, StopIsAsked, TypeOK, StopRequested
<1>10. KeptOut'
  BY DEF ZoeInv, UnsetStopEvent, Goto, KeptOut, Downloading, shared, control, history
<1>11. InfoOfLastResponse'
  BY DEF ZoeInv, UnsetStopEvent, InfoOfLastResponse
<1>. QED  BY <1>1, <1>2, <1>3, <1>4, <1>5, <1>6, <1>7, <1>8, <1>9, <1>10, <1>11 DEF ZoeInv

LEMMA LaunchInv ==
  ASSUME NEW c \in Calls, ZoeInv, Launch(c)
  PROVE  ZoeInv'
<1>1. TypeOK'
  BY DEF ZoeInv, Launch, Goto, FetchBegin, FetchOff, NoResponse, FetchRecord, Response,
     TypeOK, PC, shared, history
<1>2. OneWorker'
  BY DEF ZoeInv, Launch, Goto, OneWorker, Working
<1>3. ResultToOwner'
  BY DEF ZoeInv, Launch, Goto, ResultToOwner, history
<1>4. CanceledOnlyOnRequest'
  BY DEF ZoeInv, Launch, CanceledOnlyOnRequest, history
<1>5. Numbered'
  BY DEF ZoeInv, Launch, Goto, Numbered, Working, Calls, shared, control, history
<1>6. Waiting'
  BY WaitingKept DEF ZoeInv, Launch, Goto, shared
<1>7. OwnArguments'
  BY DEF ZoeInv, Launch, Goto, OwnArguments, Working, Waiting, Calls, shared, control, history
<1>8. Placed'
  BY DEF ZoeInv, Launch, Goto, Placed, WithReporters, shared, control, history
<1>9. StopIsAsked'
  BY DEF ZoeInv, Launch, Goto, StopIsAsked, StopRequested, Working, shared, control, history
<1>10. KeptOut'
  BY DEF ZoeInv, Launch, Goto, Response, KeptOut, TypeOK, Downloading, OneWorker, Working,
     Numbered, Calls, Waiting, shared, control, history
<1>11. InfoOfLastResponse'
  BY DEF ZoeInv, Launch, FetchBegin, FetchOff, NoResponse, InfoOfLastResponse
<1>. QED  BY <1>1, <1>2, <1>3, <1>4, <1>5, <1>6, <1>7, <1>8, <1>9, <1>10, <1>11 DEF ZoeInv

LEMMA FetchInfoInv ==
  ASSUME NEW c \in Calls, ZoeInv, FetchInfo(c)
  PROVE  ZoeInv'
<1>0. fetch' \in FetchRecord /\ InfoOfLastResponse'
  <2>1. StopRequested \in BOOLEAN  BY DEF ZoeInv, StopRequested
  <2>. QED  BY <2>1, FetchKept, FetchAssumption DEF ZoeInv, TypeOK, FetchInfo
<1>1. TypeOK'
  BY <1>0 DEF ZoeInv, FetchInfo, TypeOK, shared, control, history
<1>2. OneWorker'
  BY DEF ZoeInv, FetchInfo, OneWorker, Working, control
<1>3. ResultToOwner'
  BY DEF ZoeInv, FetchInfo, ResultToOwner, control, history
<1>4. CanceledOnlyOnRequest'
  BY DEF ZoeInv, FetchInfo, CanceledOnlyOnRequest, control, history
<1>5. Numbered'
  BY DEF ZoeInv, FetchInfo, Numbered, control, history
<1>6. Waiting'
  BY DEF ZoeInv, FetchInfo, Waiting, shared, control
<1>7. OwnArguments'
  BY DEF ZoeInv, FetchInfo, OwnArguments, Working, shared, control, history
<1>8. Placed'
  BY DEF ZoeInv, FetchInfo, Placed, control
<1>9. StopIsAsked'
  BY DEF ZoeInv, FetchInfo, StopIsAsked, StopRequested, shared, control, history
<1>10. KeptOut'
  BY DEF ZoeInv, FetchInfo, KeptOut, Downloading, control, history
<1>11. InfoOfLastResponse'
  BY <1>0
<1>. QED  BY <1>1, <1>2, <1>3, <1>4, <1>5, <1>6, <1>7, <1>8, <1>9, <1>10, <1>11 DEF ZoeInv

LEMMA FetchedInv ==
  ASSUME NEW c \in Calls, ZoeInv, Fetched(c)
  PROVE  ZoeInv'
<1>0. /\ pc[c] = "fetch" /\ fetch' = FetchOff
      /\ \E to \in {"prepare", "tail"}, r \in ResultCode :
           /\ pc' = [pc EXCEPT ![c] = to]
           /\ ret' = IF to = "tail" THEN [ret EXCEPT ![c] = r] ELSE ret
           /\ manager' = IF to = "tail" THEN manager ELSE [manager EXCEPT ![c] = TRUE]
           /\ r = "CANCELED" => StopRequested
      /\ UNCHANGED <<user, calls, handler, shared, state, paused, reporters, told, history>>
  BY DEF Fetched, Return, Goto, ResultCode
<1>1. TypeOK'
  <2>1. pc' \in [Calls -> PC]  BY <1>0 DEF ZoeInv, TypeOK, PC
  <2>2. ret' \in [Calls -> ResultCode] /\ manager' \in [Calls -> BOOLEAN]
    BY <1>0 DEF ZoeInv, TypeOK
  <2>3. fetch' \in FetchRecord
    BY <1>0 DEF FetchOff, NoResponse, FetchRecord, Response
  <2>. QED  BY <1>0, <2>1, <2>2, <2>3 DEF ZoeInv, TypeOK, shared, history
<1>2. OneWorker'
  BY <1>0 DEF ZoeInv, OneWorker, Working
<1>3. ResultToOwner'
  BY <1>0 DEF ZoeInv, ResultToOwner, history
<1>4. CanceledOnlyOnRequest'
  BY <1>0 DEF ZoeInv, CanceledOnlyOnRequest, StopIsAsked, history
<1>5. Numbered'
  BY <1>0 DEF ZoeInv, Numbered, Working, Calls, shared, control, history
<1>6. Waiting'
  BY <1>0, WaitingKept DEF ZoeInv, shared
<1>7. OwnArguments'
  BY <1>0 DEF ZoeInv, OwnArguments, Working, shared, history
<1>8. Placed'
  BY <1>0 DEF ZoeInv, Placed, TypeOK, WithReporters, shared, control, history
<1>9. StopIsAsked'
  BY <1>0 DEF ZoeInv, StopIsAsked, StopRequested, shared, history
<1>10. KeptOut'
  BY <1>0 DEF ZoeInv, KeptOut, Downloading, history
<1>11. InfoOfLastResponse'
  BY <1>0 DEF InfoOfLastResponse, FetchOff, NoResponse
<1>. QED  BY <1>1, <1>2, <1>3, <1>4, <1>5, <1>6, <1>7, <1>8, <1>9, <1>10, <1>11 DEF ZoeInv

LEMMA PrepareInv ==
  ASSUME NEW c \in Calls, ZoeInv, Prepare(c)
  PROVE  ZoeInv'
<1>0. /\ pc[c] = "prepare"
      /\ \E to \in {"loop", "tail"}, r \in ResultCode \ {"CANCELED"} :
           /\ pc' = [pc EXCEPT ![c] = to]
           /\ ret' = IF to = "tail" THEN [ret EXCEPT ![c] = r] ELSE ret
           /\ reporters' = IF to = "tail" THEN reporters
                           ELSE [reporters EXCEPT ![c] = Reporters]
      /\ UNCHANGED <<user, calls, handler, shared, state, paused, manager, told, history,
                     fetch>>
  BY DEF Prepare, Return, Goto, ResultCode
<1>1. TypeOK'
  <2>1. pc' \in [Calls -> PC]  BY <1>0 DEF ZoeInv, TypeOK, PC
  <2>2. ret' \in [Calls -> ResultCode]  BY <1>0 DEF ZoeInv, TypeOK
  <2>3. reporters \in [Calls -> SUBSET Reporters]  BY DEF ZoeInv, TypeOK
  <2>4. reporters' \in [Calls -> SUBSET Reporters]  BY <1>0, <2>3
  <2>. QED  BY <1>0, <2>1, <2>2, <2>4 DEF ZoeInv, TypeOK, shared, history
<1>2. OneWorker'
  BY <1>0 DEF ZoeInv, OneWorker, Working
<1>3. ResultToOwner'
  BY <1>0 DEF ZoeInv, ResultToOwner, history
<1>4. CanceledOnlyOnRequest'
  BY <1>0 DEF ZoeInv, CanceledOnlyOnRequest, history
<1>5. Numbered'
  BY <1>0 DEF ZoeInv, Numbered, Working, Calls, shared, control, history
<1>6. Waiting'
  BY <1>0, WaitingKept DEF ZoeInv, shared
<1>7. OwnArguments'
  BY <1>0 DEF ZoeInv, OwnArguments, Working, shared, history
<1>8. Placed'
  BY <1>0 DEF ZoeInv, Placed, TypeOK, WithReporters, shared
<1>9. StopIsAsked'
  BY <1>0 DEF ZoeInv, StopIsAsked, StopRequested, shared, history
<1>10. KeptOut'
  BY <1>0 DEF ZoeInv, KeptOut, Downloading, history
<1>11. InfoOfLastResponse'
  BY <1>0 DEF ZoeInv, InfoOfLastResponse
<1>. QED  BY <1>1, <1>2, <1>3, <1>4, <1>5, <1>6, <1>7, <1>8, <1>9, <1>10, <1>11 DEF ZoeInv

LEMMA LeaveLoopInv ==
  ASSUME NEW c \in Calls, ZoeInv, LeaveLoop(c)
  PROVE  ZoeInv'
<1>1. TypeOK'
  BY DEF ZoeInv, LeaveLoop, Goto, TypeOK, PC, shared, history
<1>2. OneWorker'
  BY DEF ZoeInv, LeaveLoop, Goto, OneWorker, Working
<1>3. ResultToOwner'
  BY DEF ZoeInv, LeaveLoop, Goto, ResultToOwner, history
<1>4. CanceledOnlyOnRequest'
  BY DEF ZoeInv, LeaveLoop, CanceledOnlyOnRequest, history
<1>5. Numbered'
  BY DEF ZoeInv, LeaveLoop, Goto, Numbered, history
<1>6. Waiting'
  BY WaitingKept DEF ZoeInv, LeaveLoop, Goto, shared
<1>7. OwnArguments'
  BY DEF ZoeInv, LeaveLoop, Goto, OwnArguments, Working, shared, history
<1>8. Placed'
  BY DEF ZoeInv, LeaveLoop, Goto, Placed, WithReporters
<1>9. StopIsAsked'
  BY DEF ZoeInv, LeaveLoop, Goto, StopIsAsked, history
<1>10. KeptOut'
  BY DEF ZoeInv, LeaveLoop, Goto, KeptOut, Downloading, Calls, Waiting, shared, control, history
<1>11. InfoOfLastResponse'
  BY DEF ZoeInv, LeaveLoop, InfoOfLastResponse
<1>. QED  BY <1>1, <1>2, <1>3, <1>4, <1>5, <1>6, <1>7, <1>8, <1>9, <1>10, <1>11 DEF ZoeInv

LEMMA FinishInv ==
  ASSUME NEW c \in Calls, ZoeInv, Finish(c)
  PROVE  ZoeInv'
<1>0. /\ pc[c] = "finish" /\ pc' = [pc EXCEPT ![c] = "tail"]
      /\ state' = [state EXCEPT ![c] = "Stopped"]
      /\ \E r \in ResultCode : ret' = [ret EXCEPT ![c] = r] /\ (r = "CANCELED" => StopRequested)
      /\ UNCHANGED <<user, calls, handler, shared, paused, manager, reporters, told,
                     history, fetch>>
  BY DEF Finish, Return, Goto, ResultCode
<1>1. TypeOK'
  BY <1>0, Bounds DEF ZoeInv, TypeOK, Calls, PC, ResultCode, shared, control, history
<1>2. OneWorker'
  BY <1>0 DEF ZoeInv, OneWorker, Working
<1>3. ResultToOwner'
  BY <1>0 DEF ZoeInv, ResultToOwner, history
<1>4. CanceledOnlyOnRequest'
  BY <1>0 DEF ZoeInv, CanceledOnlyOnRequest, StopIsAsked, history
<1>5. Numbered'
  BY <1>0 DEF ZoeInv, Numbered, history
<1>6. Waiting'
  BY <1>0, WaitingKept DEF ZoeInv, shared
<1>7. OwnArguments'
  BY <1>0 DEF ZoeInv, OwnArguments, Working, shared, history
<1>8. Placed'
  BY <1>0 DEF ZoeInv, Placed, WithReporters
<1>9. StopIsAsked'
  BY <1>0 DEF ZoeInv, StopIsAsked, TypeOK, OneWorker, Working
<1>10. KeptOut'
  BY <1>0 DEF ZoeInv, KeptOut, TypeOK, Downloading, history
<1>11. InfoOfLastResponse'
  BY <1>0 DEF ZoeInv, InfoOfLastResponse
<1>. QED  BY <1>1, <1>2, <1>3, <1>4, <1>5, <1>6, <1>7, <1>8, <1>9, <1>10, <1>11 DEF ZoeInv

LEMMA MarkStoppedInv ==
  ASSUME NEW c \in Calls, ZoeInv, MarkStopped(c)
  PROVE  ZoeInv'
<1>1. TypeOK'
  BY DEF ZoeInv, MarkStopped, Goto, TypeOK, PC, shared, history
<1>2. OneWorker'
  BY DEF ZoeInv, MarkStopped, Goto, OneWorker, Working
<1>3. ResultToOwner'
  BY DEF ZoeInv, MarkStopped, Goto, ResultToOwner, history
<1>4. CanceledOnlyOnRequest'
  BY DEF ZoeInv, MarkStopped, CanceledOnlyOnRequest, history
<1>5. Numbered'
  BY DEF ZoeInv, MarkStopped, Goto, Numbered, history
<1>6. Waiting'
  BY WaitingKept DEF ZoeInv, MarkStopped, Goto, shared
<1>7. OwnArguments'
  BY DEF ZoeInv, MarkStopped, Goto, OwnArguments, Working, shared, history
<1>8. Placed'
  BY DEF ZoeInv, MarkStopped, Goto, Placed, WithReporters
<1>9. StopIsAsked'
  BY DEF ZoeInv, MarkStopped, Goto, StopIsAsked, OneWorker, Working
<1>10. KeptOut'
  BY DEF ZoeInv, MarkStopped, Goto, KeptOut, Downloading, Calls, Waiting, shared, control,
     history
<1>11. InfoOfLastResponse'
  BY DEF ZoeInv, MarkStopped, InfoOfLastResponse
<1>. QED  BY <1>1, <1>2, <1>3, <1>4, <1>5, <1>6, <1>7, <1>8, <1>9, <1>10, <1>11 DEF ZoeInv

LEMMA SetStopEventInv ==
  ASSUME NEW c \in Calls, ZoeInv, SetStopEvent(c)
  PROVE  ZoeInv'
<1>1. TypeOK'
  BY DEF ZoeInv, SetStopEvent, Goto, TypeOK, PC, history
<1>2. OneWorker'
  BY DEF ZoeInv, SetStopEvent, Goto, OneWorker, Working
<1>3. ResultToOwner'
  BY DEF ZoeInv, SetStopEvent, Goto, ResultToOwner, history
<1>4. CanceledOnlyOnRequest'
  BY DEF ZoeInv, SetStopEvent, CanceledOnlyOnRequest, history
<1>5. Numbered'
  BY DEF ZoeInv, SetStopEvent, Goto, Numbered, history
<1>6. Waiting'
  BY WaitingKept DEF ZoeInv, SetStopEvent, Goto
<1>7. OwnArguments'
  BY DEF ZoeInv, SetStopEvent, Goto, OwnArguments, Working, history
<1>8. Placed'
  BY DEF ZoeInv, SetStopEvent, Goto, Placed, WithReporters
<1>9. StopIsAsked'
  BY DEF ZoeInv, SetStopEvent, Goto, StopIsAsked, OneWorker, Working
<1>10. KeptOut'
  BY DEF ZoeInv, SetStopEvent, Goto, KeptOut, Downloading, Calls, Waiting, shared, control,
     history
<1>11. InfoOfLastResponse'
  BY DEF ZoeInv, SetStopEvent, InfoOfLastResponse
<1>. QED  BY <1>1, <1>2, <1>3, <1>4, <1>5, <1>6, <1>7, <1>8, <1>9, <1>10, <1>11 DEF ZoeInv

LEMMA JoinReportersInv ==
  ASSUME NEW c \in Calls, ZoeInv, JoinReporters(c)
  PROVE  ZoeInv'
<1>1. TypeOK'
  BY DEF ZoeInv, JoinReporters, Goto, TypeOK, PC, shared, history
<1>2. OneWorker'
  BY DEF ZoeInv, JoinReporters, Goto, OneWorker, Working
<1>3. ResultToOwner'
  BY DEF ZoeInv, JoinReporters, Goto, ResultToOwner, history
<1>4. CanceledOnlyOnRequest'
  BY DEF ZoeInv, JoinReporters, CanceledOnlyOnRequest, history
<1>5. Numbered'
  BY DEF ZoeInv, JoinReporters, Goto, Numbered, history
<1>6. Waiting'
  BY WaitingKept DEF ZoeInv, JoinReporters, Goto, shared
<1>7. OwnArguments'
  BY DEF ZoeInv, JoinReporters, Goto, OwnArguments, Working, shared, history
<1>8. Placed'
  BY DEF ZoeInv, JoinReporters, Goto, Placed
<1>9. StopIsAsked'
  BY DEF ZoeInv, JoinReporters, Goto, StopIsAsked, OneWorker, Working
<1>10. KeptOut'
  BY DEF ZoeInv, JoinReporters, Goto, KeptOut, Downloading, Calls, Waiting, shared, control,
     history
<1>11. InfoOfLastResponse'
  BY DEF ZoeInv, JoinReporters, InfoOfLastResponse
<1>. QED  BY <1>1, <1>2, <1>3, <1>4, <1>5, <1>6, <1>7, <1>8, <1>9, <1>10, <1>11 DEF ZoeInv

LEMMA ClearSlicesInv ==
  ASSUME NEW c \in Calls, ZoeInv, ClearSlices(c)
  PROVE  ZoeInv'
<1>1. TypeOK'
  BY DEF ZoeInv, ClearSlices, Goto, TypeOK, PC, shared, history
<1>2. OneWorker'
  BY DEF ZoeInv, ClearSlices, Goto, OneWorker, Working
<1>3. ResultToOwner'
  BY DEF ZoeInv, ClearSlices, Goto, ResultToOwner, history
<1>4. CanceledOnlyOnRequest'
  BY DEF ZoeInv, ClearSlices, CanceledOnlyOnRequest, history
<1>5. Numbered'
  BY DEF ZoeInv, ClearSlices, Goto, Numbered, history
<1>6. Waiting'
  BY WaitingKept DEF ZoeInv, ClearSlices, Goto, shared
<1>7. OwnArguments'
  BY DEF ZoeInv, ClearSlices, Goto, OwnArguments, Working, shared, history
<1>8. Placed'
  BY DEF ZoeInv, ClearSlices, Goto, Placed, TypeOK, WithReporters
<1>9. StopIsAsked'
  BY DEF ZoeInv, ClearSlices, Goto, StopIsAsked, OneWorker, Working
<1>10. KeptOut'
  BY DEF ZoeInv, ClearSlices, Goto, KeptOut, Downloading, Calls, Waiting, shared, control,
     history
<1>11. InfoOfLastResponse'
  BY DEF ZoeInv, ClearSlices, InfoOfLastResponse
<1>. QED  BY <1>1, <1>2, <1>3, <1>4, <1>5, <1>6, <1>7, <1>8, <1>9, <1>10, <1>11 DEF ZoeInv

LEMMA ReportInv ==
  ASSUME NEW c \in Calls, ZoeInv, Report(c)
  PROVE  ZoeInv'
<1>1. TypeOK'
  <2>1. told' \in [Calls -> Seq(0..MaxCalls)]
    <3>1. told \in [Calls -> Seq(0..MaxCalls)] /\ args \in 0..MaxCalls
      BY Bounds DEF ZoeInv, TypeOK
    <3>2. Append(told[c], args) \in Seq(0..MaxCalls)  BY <3>1
    <3>. QED  BY <3>1, <3>2 DEF Report
  <2>. QED  BY <2>1 DEF ZoeInv, Report, Goto, TypeOK, PC, shared, history
<1>2. OneWorker'
  BY DEF ZoeInv, Report, Goto, OneWorker, Working
<1>3. ResultToOwner'
  <2>1. told[c] = <<>>  BY DEF ZoeInv, Report, Goto, OwnArguments, Working
  <2>2. c \notin disturbed => args = c  BY DEF ZoeInv, Report, Goto, OwnArguments, Working
  <2>3. told' = [told EXCEPT ![c] = <<args>>]  BY <2>1 DEF Report
  <2>. QED  BY <2>2, <2>3 DEF ZoeInv, Report, Goto, ResultToOwner, TypeOK, history
<1>4. CanceledOnlyOnRequest'
  BY DEF ZoeInv, Report, CanceledOnlyOnRequest, history
<1>5. Numbered'
  BY DEF ZoeInv, Report, Goto, Numbered, history
<1>6. Waiting'
  BY WaitingKept DEF ZoeInv, Report, Goto, shared
<1>7. OwnArguments'
  BY DEF ZoeInv, Report, Goto, OwnArguments, TypeOK, Working, OneWorker, Waiting
<1>8. Placed'
  BY DEF ZoeInv, Report, Goto, Placed, WithReporters
<1>9. StopIsAsked'
  BY DEF ZoeInv, Report, Goto, StopIsAsked, OneWorker, Working
<1>10. KeptOut'
  BY DEF ZoeInv, Report, Goto, KeptOut, Downloading, Calls, Waiting, shared, control, history
<1>11. InfoOfLastResponse'
  BY DEF ZoeInv, Report, InfoOfLastResponse
<1>. QED  BY <1>1, <1>2, <1>3, <1>4, <1>5, <1>6, <1>7, <1>8, <1>9, <1>10, <1>11 DEF ZoeInv

LEMMA RejectInv ==
  ASSUME NEW c \in Calls, ZoeInv, Reject(c)
  PROVE  ZoeInv'
<1>1. TypeOK'
  <2>1. told' \in [Calls -> Seq(0..MaxCalls)]
    <3>1. told \in [Calls -> Seq(0..MaxCalls)] /\ c \in 0..MaxCalls
      BY Bounds DEF ZoeInv, TypeOK
    <3>2. Append(told[c], c) \in Seq(0..MaxCalls)  BY <3>1
    <3>. QED  BY <3>1, <3>2 DEF Reject
  <2>. QED  BY <2>1 DEF ZoeInv, Reject, Goto, TypeOK, PC, shared, history
<1>2. OneWorker'
  BY DEF ZoeInv, Reject, Goto, OneWorker, Working
<1>3. ResultToOwner'
  <2>1. told[c] = <<>>  BY DEF ZoeInv, Reject, Goto, OwnArguments
  <2>2. c \notin disturbed => c = c  BY DEF ZoeInv, Reject
  <2>3. told' = [told EXCEPT ![c] = <<c>>]  BY <2>1 DEF Reject
  <2>. QED  BY <2>2, <2>3 DEF ZoeInv, Reject, Goto, ResultToOwner, TypeOK, history
<1>4. CanceledOnlyOnRequest'
  BY DEF ZoeInv, Reject, CanceledOnlyOnRequest, history
<1>5. Numbered'
  BY DEF ZoeInv, Reject, Goto, Numbered, history
<1>6. Waiting'
  BY WaitingKept DEF ZoeInv, Reject, Goto, shared
<1>7. OwnArguments'
  BY DEF ZoeInv, Reject, Goto, OwnArguments, TypeOK, Working, shared, history
<1>8. Placed'
  BY DEF ZoeInv, Reject, Goto, Placed, WithReporters
<1>9. StopIsAsked'
  BY DEF ZoeInv, Reject, Goto, StopIsAsked, StopRequested, shared, history
<1>10. KeptOut'
  BY DEF ZoeInv, Reject, Goto, KeptOut, Downloading, Calls, Waiting, shared, control, history
<1>11. InfoOfLastResponse'
  BY DEF ZoeInv, Reject, InfoOfLastResponse
<1>. QED  BY <1>1, <1>2, <1>3, <1>4, <1>5, <1>6, <1>7, <1>8, <1>9, <1>10, <1>11 DEF ZoeInv

LEMMA ReporterEndsInv ==
  ASSUME NEW c \in Calls, ZoeInv, ReporterEnds(c)
  PROVE  ZoeInv'
<1>0. /\ reporters' \in [Calls -> SUBSET Reporters]
      /\ \A d \in Calls : reporters'[d] \subseteq reporters[d]
  <2>1. reporters \in [Calls -> SUBSET Reporters]  BY DEF ZoeInv, TypeOK
  <2>2. PICK t \in reporters[c] : reporters' = [reporters EXCEPT ![c] = @ \ {t}]
    BY DEF ReporterEnds
  <2>. QED  BY <2>1, <2>2
<1>1. TypeOK'
  BY <1>0 DEF ZoeInv, ReporterEnds, TypeOK, shared, history
<1>2. OneWorker'
  BY DEF ZoeInv, ReporterEnds, OneWorker, Working
<1>3. ResultToOwner'
  BY DEF ZoeInv, ReporterEnds, ResultToOwner, history
<1>4. CanceledOnlyOnRequest'
  BY DEF ZoeInv, ReporterEnds, CanceledOnlyOnRequest, history
<1>5. Numbered'
  BY DEF ZoeInv, ReporterEnds, Numbered, history
<1>6. Waiting'
  BY DEF ZoeInv, ReporterEnds, Waiting, shared
<1>7. OwnArguments'
  BY DEF ZoeInv, ReporterEnds, OwnArguments, Working, shared, history
<1>8. Placed'
  BY DEF ZoeInv, ReporterEnds, Placed
<1>9. StopIsAsked'
  BY DEF ZoeInv, ReporterEnds, StopIsAsked, history
<1>10. KeptOut'
  BY DEF ZoeInv, ReporterEnds, KeptOut, Downloading, history
<1>11. InfoOfLastResponse'
  BY DEF ZoeInv, ReporterEnds, InfoOfLastResponse
<1>. QED  BY <1>1, <1>2, <1>3, <1>4, <1>5, <1>6, <1>7, <1>8, <1>9, <1>10, <1>11 DEF ZoeInv

LEMMA LoopEndsInv ==
  ASSUME NEW c \in Calls, ZoeInv, LoopEnds(c)
  PROVE  ZoeInv'
<1>1. TypeOK'
  BY DEF ZoeInv, LoopEnds, Goto, TypeOK, PC, shared, history
<1>2. OneWorker'
  BY DEF ZoeInv, LoopEnds, Goto, OneWorker, Working
<1>3. ResultToOwner'
  BY DEF ZoeInv, LoopEnds, Goto, ResultToOwner, history
<1>4. CanceledOnlyOnRequest'
  BY DEF ZoeInv, LoopEnds, CanceledOnlyOnRequest, history
<1>5. Numbered'
  BY DEF ZoeInv, LoopEnds, Goto, Numbered, history
<1>6. Waiting'
  BY WaitingKept DEF ZoeInv, LoopEnds, Goto, shared
<1>7. OwnArguments'
  BY DEF ZoeInv, LoopEnds, Goto, OwnArguments, Working, shared, history
<1>8. Placed'
  BY DEF ZoeInv, LoopEnds, Goto, Placed, WithReporters
<1>9. StopIsAsked'
  BY DEF ZoeInv, LoopEnds, Goto, StopIsAsked, StopRequested, shared, history
<1>10. KeptOut'
  BY DEF ZoeInv, LoopEnds, Goto, KeptOut, Downloading, Working, Calls, Waiting, shared,
     control, history
<1>11. InfoOfLastResponse'
  BY DEF ZoeInv, LoopEnds, InfoOfLastResponse
<1>. QED  BY <1>1, <1>2, <1>3, <1>4, <1>5, <1>6, <1>7, <1>8, <1>9, <1>10, <1>11 DEF ZoeInv

LEMMA NetworkInv ==
  ASSUME NEW c \in Calls, ZoeInv, Network(c)
  PROVE  ZoeInv'
<1>0. fetch' \in FetchRecord /\ InfoOfLastResponse'
  <2>1. StopRequested \in BOOLEAN  BY DEF ZoeInv, StopRequested
  <2>. QED  BY <2>1, FetchKept, FetchAssumption DEF ZoeInv, TypeOK, Network
<1>1. TypeOK'
  BY <1>0 DEF ZoeInv, Network, TypeOK, shared, control, history
<1>2. OneWorker'
  BY DEF ZoeInv, Network, OneWorker, Working, control
<1>3. ResultToOwner'
  BY DEF ZoeInv, Network, ResultToOwner, control, history
<1>4. CanceledOnlyOnRequest'
  BY DEF ZoeInv, Network, CanceledOnlyOnRequest, control, history
<1>5. Numbered'
  BY DEF ZoeInv, Network, Numbered, control, history
<1>6. Waiting'
  BY DEF ZoeInv, Network, Waiting, shared, control
<1>7. OwnArguments'
  BY DEF ZoeInv, Network, OwnArguments, Working, shared, control, history
<1>8. Placed'
  BY DEF ZoeInv, Network, Placed, control
<1>9. StopIsAsked'
  BY DEF ZoeInv, Network, StopIsAsked, StopRequested, shared, control, history
<1>10. KeptOut'
  BY DEF ZoeInv, Network, KeptOut, Downloading, control, history
<1>11. InfoOfLastResponse'
  BY <1>0
<1>. QED  BY <1>1, <1>2, <1>3, <1>4, <1>5, <1>6, <1>7, <1>8, <1>9, <1>10, <1>11 DEF ZoeInv

-----------------------------------------------------------------------------
LEMMA InitInv == Init => ZoeInv
<1>. SUFFICES ASSUME Init PROVE ZoeInv  OBVIOUS
<1>1. TypeOK
  <2>1. fetch \in FetchRecord
    BY DEF Init, FetchOff, NoResponse, FetchRecord, Response
  <2>2. told \in [Calls -> Seq(0..MaxCalls)]
    <3>1. told = [c \in Calls |-> <<>>]  BY DEF Init
    <3>2. <<>> \in Seq(0..MaxCalls)  OBVIOUS
    <3>. QED  BY <3>1, <3>2
  <2>3. /\ calls \in 0..MaxCalls /\ handler \in 0..calls /\ args \in 0..calls
        /\ stopEv \in BOOLEAN /\ userEv \in BOOLEAN
    <3>1. MaxCalls \in Nat  BY ZoeAssumption
    <3>2. calls = 0 /\ handler = 0 /\ args = 0 /\ stopEv = TRUE /\ userEv = FALSE
      BY DEF Init
    <3>3. 0 \in 0..0 /\ 0 \in 0..MaxCalls  BY <3>1
    <3>. QED  BY <3>2, <3>3, Zenon
  <2>. QED  BY <2>1, <2>2, <2>3 DEF Init, TypeOK, PC, ResultCode
<1>2. OneWorker /\ ResultToOwner /\ CanceledOnlyOnRequest
  BY DEF Init, OneWorker, ResultToOwner, CanceledOnlyOnRequest, Working
<1>3. Numbered /\ Waiting /\ OwnArguments /\ Placed
  BY DEF Init, Numbered, Waiting, OwnArguments, Placed, Working
<1>4. StopIsAsked /\ KeptOut /\ InfoOfLastResponse
  BY DEF Init, StopIsAsked, KeptOut, Downloading, InfoOfLastResponse, FetchOff, NoResponse
<1>. QED  BY <1>1, <1>2, <1>3, <1>4 DEF ZoeInv

LEMMA StutterInv ==
  ASSUME ZoeInv, UNCHANGED vars
  PROVE  ZoeInv'
<1>. USE DEF ZoeInv, vars, shared, control, history
<1>1. TypeOK'  BY DEF TypeOK, Calls
<1>2. (OneWorker /\ ResultToOwner /\ CanceledOnlyOnRequest)'
  BY DEF OneWorker, ResultToOwner, CanceledOnlyOnRequest, Working
<1>3. (Numbered /\ Waiting /\ OwnArguments /\ Placed)'
  BY DEF Numbered, Waiting, OwnArguments, Placed, Working
<1>4. (StopIsAsked /\ KeptOut /\ InfoOfLastResponse)'
  BY DEF StopIsAsked, StopRequested, KeptOut, Downloading, InfoOfLastResponse
<1>. QED  BY <1>1, <1>2, <1>3, <1>4

LEMMA NextInv ==
  ASSUME ZoeInv, Next
  PROVE  ZoeInv'
<1>1. CASE UserCalls
  BY <1>1, StartRejectedInv, StartAcceptedInv, StopInv, PauseResumeInv, SetOptionInv,
     SetUserEventInv, DeleteInv DEF UserCalls
<1>2. CASE UserReturns
  BY <1>2, JoinedInv, StoreStateInv, DeletedInv DEF UserReturns
<1>3. ASSUME NEW c \in Calls, Worker(c)
      PROVE  ZoeInv'
  BY <1>3, UnsetStopEventInv, LaunchInv, FetchInfoInv, FetchedInv, PrepareInv,
     LeaveLoopInv, FinishInv, MarkStoppedInv, SetStopEventInv, JoinReportersInv,
     ClearSlicesInv, ReportInv, RejectInv DEF Worker
<1>4. ASSUME NEW c \in Calls, ReporterEnds(c) \/ LoopEnds(c) \/ Network(c)
      PROVE  ZoeInv'
  BY <1>4, ReporterEndsInv, LoopEndsInv, NetworkInv
<1>5. CASE Rest
  BY <1>5, StutterInv DEF Rest
<1>. QED  BY <1>1, <1>2, <1>3, <1>4, <1>5 DEF Next

(* The invariant holds of every run, for every number of calls, every set of *)
(* reporters and responses, and of careless users, too.                      *)
THEOREM ZoeInvariant == Spec => []ZoeInv
<1>1. ZoeInv /\ [Next]_vars => ZoeInv'  BY NextInv, StutterInv
<1>. QED  BY InitInv, <1>1, PTL DEF Spec

(* Every variable keeps its type. *)
THEOREM TypeCorrect == Spec => []TypeOK
<1>1. ZoeInv => TypeOK  BY DEF ZoeInv
<1>. QED  BY ZoeInvariant, <1>1, PTL

(* However starts, stops and destructors fall among the steps of a download, *)
(* no two workers run, none outlives the Zoe object.                         *)
THEOREM AtMostOneWorker == Spec => []OneWorker
<1>1. ZoeInv => OneWorker  BY DEF ZoeInv
<1>. QED  BY ZoeInvariant, <1>1, PTL

(* state_ keeps the options of a download as they were, for a user who lets  *)
(* a start take effect before the next call.                                 *)
THEOREM OptionsAreFrozen ==
  ASSUME Careful
  PROVE  Spec => []OptionsFrozen
<1>1. ZoeInv => OptionsFrozen
  BY DEF ZoeInv, OptionsFrozen, KeptOut, OwnArguments, Downloading, Working
<1>. QED  BY ZoeInvariant, <1>1, PTL

(* A result reaches the functor of its own start, once. *)
THEOREM ResultReachesOwner == Spec => []ResultToOwner
<1>1. ZoeInv => ResultToOwner  BY DEF ZoeInv
<1>. QED  BY ZoeInvariant, <1>1, PTL

(* No download is canceled that nobody stopped. *)
THEOREM CanceledIsAsked == Spec => []CanceledOnlyOnRequest
<1>1. ZoeInv => CanceledOnlyOnRequest  BY DEF ZoeInv
<1>. QED  BY ZoeInvariant, <1>1, PTL

(* The size a download works with is the one its last response states. *)
THEOREM InfoIsOfFinalResponse == Spec => []InfoOfFinalResponse
<1>1. ZoeInv => InfoOfFinalResponse
  BY DEF ZoeInv, InfoOfFinalResponse, InfoOfLastResponse
<1>. QED  BY ZoeInvariant, <1>1, PTL
=============================================================================
