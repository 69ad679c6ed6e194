--------------------------------- MODULE Zoe ---------------------------------
(***************************************************************************)
(* The life of a Zoe object over several downloads (src/zoe.cpp and the    *)
(* outer part of src/entry_handler.cpp): who runs at which time, and which *)
(* shared state it finds.                                                  *)
(*                                                                         *)
(* Threads: one of the user's, which calls the methods of Zoe; for every   *)
(* accepted start a worker (EntryHandler::asyncTaskProcess), and for every *)
(* worker up to two reporters (ProgressHandler and SpeedHandler).  All     *)
(* share Options, with the event that stops them, and the current          *)
(* EntryHandler.  Calls of start are numbered, and a worker, its handler   *)
(* and the functors given to it have the number of the call.               *)
(*                                                                         *)
(* What a download does with slices and files is EntryHandler.tla; here it *)
(* is a worker that fetches the file info, prepares, loops and finishes.   *)
(***************************************************************************)
EXTENDS FetchFileInfo, Sequences

CONSTANTS
  Careful,   \* TRUE: the user is as careful as CarefulUser says
  Reporters, \* the reporters that the user gave a functor for
  MaxCalls   \* bound: calls of start

ASSUME ZoeAssumption ==
  Careful \in BOOLEAN /\ Reporters \subseteq {"progress", "speed"} /\ MaxCalls \in Nat

VARIABLES
  user,      \* where the user's thread is
  calls,     \* calls of start so far
  handler,   \* impl_->entry_handler_: the call that made it, 0: null
  args,      \* the call whose url, target and functors options_ holds
  stopEv,    \* options_.internal_stop_event
  userEv,    \* *options_.user_stop_event
  pc,        \* where each worker is
  state,     \* state_ of each handler
  paused,    \* user_paused_ of each handler
  manager,   \* whether slice_manager_ of each handler is set
  reporters, \* the reporters of each handler that run
  ret,       \* the result each worker carries
  told,      \* the functors each worker has handed its result to
  asked,     \* history: how a stop was asked for while a worker ran
  disturbed  \* history: workers that options_ was changed under

shared  == <<args, stopEv, userEv>>
control == <<pc, state, paused, manager, reporters, ret, told>>
history == <<asked, disturbed>>
vars    == <<user, calls, handler, shared, control, history, fetch>>

Calls == 1..MaxCalls

(* The points of a worker's code, in their order; "rejected" is the task of  *)
(* a start that was not accepted.                                            *)
PC == {"none", "rejected", "spawned", "unset", "fetch", "prepare", "loop",
       "finish", "tail", "marked", "ended", "joined", "cleared", "done"}

\* The worker exists and has not returned.
Working(c) == pc[c] \notin {"none", "rejected", "done"}

\* It has not come to the store of Stopped in asyncTaskProcess.
Downloading(c) == pc[c] \in {"fetch", "prepare", "loop", "finish"}

StopRequested == stopEv \/ userEv

\* A stop was asked for that the worker has not undone by unsetting the event.
StopHeard(c) == asked[c] \cap {"stop", "event"} # {}

ResultCode == {"none", "SUCCESSED", "CANCELED", "ALREADY_DOWNLOADING", "INVALID_URL",
               "FETCH_FILE_INFO_FAILED", "CREATE_TARGET_FILE_FAILED",
               "SLICE_DOWNLOAD_FAILED"}

Init ==
  /\ user = "free" /\ calls = 0 /\ handler = 0 /\ args = 0
  /\ stopEv = TRUE /\ userEv = FALSE
  /\ pc = [c \in Calls |-> "none"]
  /\ state = [c \in Calls |-> "Stopped"]
  /\ paused = [c \in Calls |-> FALSE]
  /\ manager = [c \in Calls |-> FALSE]
  /\ reporters = [c \in Calls |-> {}]
  /\ ret = [c \in Calls |-> "none"]
  /\ told = [c \in Calls |-> <<>>]
  /\ asked = [c \in Calls |-> {}]
  /\ disturbed = {}
  /\ fetch = FetchOff

-----------------------------------------------------------------------------
(* The user's thread. *)

(* Mutant: a paused download does not count. *)
IsDownloadingButPaused == handler # 0 /\ state[handler] = "Downloading"

\* ZoeImpl::isDownloading
IsDownloading == handler # 0 /\ state[handler] # "Stopped"

(* What the tests do and no document asks for: after start, the user calls   *)
(* nothing but pause and resume until state() says that the download has     *)
(* begun or the future is ready.                                             *)
CarefulUser == handler # 0 => pc[handler] \notin {"spawned", "unset"}

UserFree == user = "free" /\ (Careful => CarefulUser)

\* A std::async task begins over a new EntryHandler.
Spawn(c) ==
  /\ handler' = c
  /\ pc' = [pc EXCEPT ![c] = "spawned"]

(* Mutant: the arguments are stored before the check. *)
StartRejectedLate ==
  LET c == calls + 1 IN
  /\ UserFree /\ calls < MaxCalls
  /\ calls' = c /\ pc' = [pc EXCEPT ![c] = "rejected"] /\ args' = c
  /\ ret' = [ret EXCEPT ![c] = IF IsDownloading THEN "ALREADY_DOWNLOADING"
                               ELSE "INVALID_URL"]
  /\ UNCHANGED <<user, handler, stopEv, userEv, state, paused, manager,
                 reporters, told, history, fetch>>

(* Zoe::start, not accepted: a task hands the reason to the functor. *)
StartRejected ==
  LET c == calls + 1 IN
  /\ UserFree /\ calls < MaxCalls
  /\ calls' = c /\ pc' = [pc EXCEPT ![c] = "rejected"]
  /\ ret' = [ret EXCEPT ![c] = IF IsDownloading THEN "ALREADY_DOWNLOADING"
                               ELSE "INVALID_URL"]
  /\ UNCHANGED <<user, handler, shared, state, paused, manager, reporters, told,
                 history, fetch>>

(* Zoe::start, accepted: the arguments are stored, and the handler of the    *)
(* download before is destroyed, which waits for its worker.                 *)
StartAccepted ==
  LET c == calls + 1 IN
  /\ UserFree /\ calls < MaxCalls /\ ~IsDownloading
  /\ calls' = c /\ args' = c
  /\ disturbed' = disturbed \cup {d \in Calls : Working(d)}
  /\ \/ handler = 0 /\ Spawn(c) /\ UNCHANGED user
     \/ handler # 0 /\ user' = "joining" /\ UNCHANGED <<handler, pc>>
  /\ UNCHANGED <<stopEv, userEv, state, paused, manager, reporters, ret, told,
                 asked, fetch>>

(* Mutant: ~EntryHandler does not wait. *)
JoinedUnasked ==
  /\ user = "joining"
  /\ user' = "free" /\ Spawn(calls)
  /\ UNCHANGED <<calls, shared, state, paused, manager, reporters, ret, told,
                 history, fetch>>

\* ~EntryHandler has seen the worker return; the new one begins.
Joined ==
  /\ user = "joining" /\ pc[handler] = "done"
  /\ user' = "free" /\ Spawn(calls)
  /\ UNCHANGED <<calls, shared, state, paused, manager, reporters, ret, told,
                 history, fetch>>

(* Mutant: only the state is set. *)
StopStateOnly ==
  /\ UserFree /\ handler # 0
  /\ user' = "stopping"
  /\ asked' = [asked EXCEPT ![handler] =
                 IF pc[handler] = "spawned" THEN @ \cup {"stop before launch"}
                 ELSE IF Working(handler) THEN @ \cup {"stop"} ELSE @]
  /\ UNCHANGED <<calls, handler, shared, control, disturbed, fetch>>

(* Zoe::stop sets the event, then the state. *)
Stop ==
  /\ UserFree /\ handler # 0
  /\ user' = "stopping" /\ stopEv' = TRUE
  /\ asked' = [asked EXCEPT ![handler] =
                 IF pc[handler] = "spawned" THEN @ \cup {"stop before launch"}
                 ELSE IF Working(handler) THEN @ \cup {"stop"} ELSE @]
  /\ UNCHANGED <<calls, handler, args, userEv, control, disturbed, fetch>>

\* Zoe::pause and Zoe::resume: the flag, then the state.
PauseResume ==
  /\ user = "free" /\ handler # 0 /\ manager[handler]
  /\ \/ user' = "pausing"  /\ paused' = [paused EXCEPT ![handler] = TRUE]
     \/ user' = "resuming" /\ paused' = [paused EXCEPT ![handler] = FALSE]
  /\ UNCHANGED <<calls, handler, shared, pc, state, manager, reporters, ret, told,
                 history, fetch>>

(* Mutant: what is stored is not a state. *)
StoredStateCall(at) == at

\* What stop, pause and resume store in state_.
StoredState(at) ==
  CASE at = "stopping" -> "Stopped"
    [] at = "pausing"  -> "Paused"
    [] at = "resuming" -> "Downloading"

StoreState ==
  /\ user \in {"stopping", "pausing", "resuming"}
  /\ state' = [state EXCEPT ![handler] = StoredState(user)]
  /\ user' = "free"
  /\ UNCHANGED <<calls, handler, shared, pc, paused, manager, reporters, ret, told,
                 history, fetch>>

(* setThreadNum, and every other setter that asks isDownloading first: what  *)
(* it changes matters only if a worker runs.                                 *)
SetOption ==
  /\ UserFree /\ ~IsDownloading
  /\ disturbed' = disturbed \cup {d \in Calls : Working(d)}
  /\ UNCHANGED <<user, calls, handler, shared, control, asked, fetch>>

(* The event of the user's own may be set from any thread, and stays set. *)
SetUserEvent ==
  /\ ~userEv /\ userEv' = TRUE
  /\ asked' = [c \in Calls |-> IF Working(c) THEN asked[c] \cup {"event"} ELSE asked[c]]
  /\ UNCHANGED <<user, calls, handler, args, stopEv, control, disturbed, fetch>>

(* ~Zoe waits for the worker as start does.  A careful user stops it first.  *)
Delete ==
  /\ UserFree
  /\ Careful => (handler # 0 /\ Working(handler) => StopHeard(handler))
  /\ user' = "deleting"
  /\ UNCHANGED <<calls, handler, shared, control, history, fetch>>

Deleted ==
  /\ user = "deleting" /\ (handler # 0 => pc[handler] = "done")
  /\ user' = "gone"
  /\ UNCHANGED <<calls, handler, shared, control, history, fetch>>

-----------------------------------------------------------------------------
(* The worker of call c. *)

Goto(c, from, to) == pc[c] = from /\ pc' = [pc EXCEPT ![c] = to]

(* Mutant: the event keeps what the last session left in it. *)
UnsetStopEventForgotten(c) ==
  /\ Goto(c, "spawned", "unset")
  /\ asked' = [asked EXCEPT ![c] = @ \cup IF userEv THEN {"event"} ELSE {}]
  /\ UNCHANGED <<user, calls, handler, shared, state, paused, manager, reporters, ret,
                 told, disturbed, fetch>>

(* asyncTaskProcess begins: the event is unset, whoever set it. *)
UnsetStopEvent(c) ==
  /\ Goto(c, "spawned", "unset")
  /\ stopEv' = FALSE
  /\ asked' = [asked EXCEPT ![c] = @ \cup IF userEv THEN {"event"} ELSE {}]
  /\ UNCHANGED <<user, calls, handler, args, userEv, state, paused, manager,
                 reporters, ret, told, disturbed, fetch>>

Launch(c) ==
  /\ Goto(c, "unset", "fetch")
  /\ paused' = [paused EXCEPT ![c] = FALSE]
  /\ state' = [state EXCEPT ![c] = "Downloading"]
  /\ FetchBegin
  /\ UNCHANGED <<user, calls, handler, shared, manager, reporters, ret, told, history>>

FetchInfo(c) ==
  /\ pc[c] = "fetch" /\ FetchStep(StopRequested)
  /\ UNCHANGED <<user, calls, handler, shared, control, history>>

Return(c, from, r) == Goto(c, from, "tail") /\ ret' = [ret EXCEPT ![c] = r]

(* After the tries: canceled, failed, an empty resource, or on to the slices *)
(* with a slice manager.                                                     *)
Fetched(c) ==
  /\ fetch.at \in {"got", "failed"}
  /\ \/ StopRequested /\ Return(c, "fetch", "CANCELED") /\ UNCHANGED manager
     \/ ~StopRequested /\ fetch.at = "failed"
        /\ Return(c, "fetch", "FETCH_FILE_INFO_FAILED") /\ UNCHANGED manager
     \/ /\ ~StopRequested /\ fetch.at = "got" /\ fetch.size = 0
        /\ \E r \in {"SUCCESSED", "CREATE_TARGET_FILE_FAILED"} : Return(c, "fetch", r)
        /\ UNCHANGED manager
     \/ ~StopRequested /\ fetch.at = "got" /\ fetch.size # 0
        /\ Goto(c, "fetch", "prepare")
        /\ manager' = [manager EXCEPT ![c] = TRUE] /\ UNCHANGED ret
  /\ fetch' = FetchOff
  /\ UNCHANGED <<user, calls, handler, shared, state, paused, reporters, told, history>>

(* Slices are loaded or made: there is nothing left to download, it cannot   *)
(* be done, or connections are opened and the reporters begin.               *)
Prepare(c) ==
  /\ \/ \E r \in {"SUCCESSED", "SLICE_DOWNLOAD_FAILED"} :
          Return(c, "prepare", r) /\ UNCHANGED reporters
     \/ /\ Goto(c, "prepare", "loop") /\ UNCHANGED ret
        /\ reporters' = [reporters EXCEPT ![c] = Reporters]
  /\ UNCHANGED <<user, calls, handler, shared, state, paused, manager, told, history,
                 fetch>>

(* Mutant: the inner loop that a pause holds the worker in looks at the      *)
(* user's event only.                                                        *)
LeaveLoopDeaf(c) ==
  /\ (paused[c] /\ userEv) \/ (~paused[c] /\ StopRequested)
  /\ Goto(c, "loop", "finish")
  /\ UNCHANGED <<user, calls, handler, shared, state, paused, manager, reporters, ret,
                 told, history, fetch>>

\* A stop ends the loop, from the wait that a pause holds it in, too.
LeaveLoop(c) ==
  /\ StopRequested
  /\ Goto(c, "loop", "finish")
  /\ UNCHANGED <<user, calls, handler, shared, state, paused, manager, reporters, ret,
                 told, history, fetch>>

\* Nothing runs any more: the network's doing.
LoopEnds(c) ==
  /\ ~paused[c]
  /\ Goto(c, "loop", "finish")
  /\ UNCHANGED <<user, calls, handler, shared, state, paused, manager, reporters, ret,
                 told, history, fetch>>

(* finishDownloadProgress: the file is placed, or it is not; a failure is a  *)
(* cancellation when a stop was requested.                                   *)
Finish(c) ==
  /\ \/ Return(c, "finish", "SUCCESSED")
     \/ Return(c, "finish", IF StopRequested THEN "CANCELED"
                            ELSE "SLICE_DOWNLOAD_FAILED")
  /\ state' = [state EXCEPT ![c] = "Stopped"]
  /\ UNCHANGED <<user, calls, handler, shared, paused, manager, reporters, told,
                 history, fetch>>

(* The tail of asyncTaskProcess, store by store. *)
MarkStopped(c) ==
  /\ Goto(c, "tail", "marked")
  /\ state' = [state EXCEPT ![c] = "Stopped"]
  /\ UNCHANGED <<user, calls, handler, shared, paused, manager, reporters, ret, told,
                 history, fetch>>

(* Mutant: the event is not set. *)
SetStopEventForgotten(c) ==
  /\ Goto(c, "marked", "ended")
  /\ UNCHANGED <<user, calls, handler, shared, state, paused, manager, reporters, ret,
                 told, history, fetch>>

SetStopEvent(c) ==
  /\ Goto(c, "marked", "ended")
  /\ stopEv' = TRUE
  /\ UNCHANGED <<user, calls, handler, args, userEv, state, paused, manager,
                 reporters, ret, told, history, fetch>>

\* ~SpeedHandler and ~ProgressHandler wait for their threads.
JoinReporters(c) ==
  /\ Goto(c, "ended", "joined") /\ reporters[c] = {}
  /\ UNCHANGED <<user, calls, handler, shared, state, paused, manager, reporters, ret,
                 told, history, fetch>>

ClearSlices(c) ==
  /\ Goto(c, "joined", "cleared")
  /\ manager' = [manager EXCEPT ![c] = FALSE]
  /\ UNCHANGED <<user, calls, handler, shared, state, paused, reporters, ret, told,
                 history, fetch>>

\* options_->result_functor is called, whosever it is by now.
Report(c) ==
  /\ Goto(c, "cleared", "done")
  /\ told' = [told EXCEPT ![c] = Append(@, args)]
  /\ UNCHANGED <<user, calls, handler, shared, state, paused, manager, reporters, ret,
                 history, fetch>>

\* The task of a start that was not accepted.
Reject(c) ==
  /\ Goto(c, "rejected", "done")
  /\ told' = [told EXCEPT ![c] = Append(@, c)]
  /\ UNCHANGED <<user, calls, handler, shared, state, paused, manager, reporters, ret,
                 history, fetch>>

(* A reporter wakes up, sees that the download is over or stopped, and       *)
(* returns; until then it goes on reporting.                                 *)
ReporterEnds(c) ==
  /\ StopRequested
  /\ \E t \in reporters[c] : reporters' = [reporters EXCEPT ![c] = @ \ {t}]
  /\ UNCHANGED <<user, calls, handler, shared, pc, state, paused, manager, ret, told,
                 history, fetch>>

\* Responses come, or transfers fail.
Network(c) ==
  /\ pc[c] = "fetch" /\ FetchNetwork(StopRequested)
  /\ UNCHANGED <<user, calls, handler, shared, control, history>>

-----------------------------------------------------------------------------
UserCalls ==
  \/ StartRejected \/ StartAccepted \/ Stop \/ PauseResume \/ SetOption
  \/ SetUserEvent \/ Delete

\* The user's thread inside a call.
UserReturns == Joined \/ StoreState \/ Deleted

Worker(c) ==
  \/ UnsetStopEvent(c) \/ Launch(c) \/ FetchInfo(c) \/ Fetched(c) \/ Prepare(c)
  \/ LeaveLoop(c) \/ Finish(c) \/ MarkStopped(c) \/ SetStopEvent(c)
  \/ JoinReporters(c) \/ ClearSlices(c) \/ Report(c) \/ Reject(c)

Rest == (\A c \in Calls : ~Working(c)) /\ user \in {"free", "gone"} /\ UNCHANGED vars

Next ==
  \/ UserCalls \/ UserReturns
  \/ \E c \in Calls : Worker(c) \/ ReporterEnds(c) \/ LoopEnds(c) \/ Network(c)
  \/ Rest

Spec == Init /\ [][Next]_vars

(* Threads run: a worker, a reporter, a call that has begun.  Nothing is     *)
(* asked of the network or of the user, whose next call may never come.      *)
FairSpec ==
  /\ Spec /\ WF_vars(UserReturns)
  /\ \A c \in Calls : WF_vars(Worker(c)) /\ WF_vars(ReporterEnds(c))

-----------------------------------------------------------------------------
(* Properties. *)

\* Every variable has its type.
TypeOK ==
  /\ user \in {"free", "joining", "stopping", "pausing", "resuming", "deleting", "gone"}
  /\ calls \in 0..MaxCalls /\ handler \in 0..calls /\ args \in 0..calls
  /\ stopEv \in BOOLEAN /\ userEv \in BOOLEAN
  /\ pc \in [Calls -> PC]
  /\ state \in [Calls -> {"Stopped", "Downloading", "Paused"}]
  /\ paused \in [Calls -> BOOLEAN]
  /\ manager \in [Calls -> BOOLEAN]
  /\ reporters \in [Calls -> SUBSET Reporters]
  /\ ret \in [Calls -> ResultCode]
  /\ told \in [Calls -> Seq(0..MaxCalls)]
  /\ asked \in [Calls -> SUBSET {"stop before launch", "stop", "event"}]
  /\ disturbed \subseteq Calls
  /\ fetch \in FetchRecord

(* There is at most one worker, it is the current handler's, and the Zoe     *)
(* object it points into still exists: a second start and the destructor     *)
(* wait in ~EntryHandler, whatever state() says.                             *)
OneWorker == \A c \in Calls : Working(c) => c = handler /\ user # "gone"

(* From its launch until its file is placed, and unless stop() was called, a *)
(* worker finds the arguments of its own start and the guarded options it    *)
(* began with: state_ is what keeps other starts and setters out, and pause  *)
(* and resume write to it from another thread.                               *)
OptionsFrozen ==
  \A c \in Calls :
    Downloading(c) /\ "stop" \notin asked[c] => args = c /\ c \notin disturbed

(* A result goes to the functor that was given for its download, exactly     *)
(* once, unless another start or a setter was accepted before the future was *)
(* ready; a start that is not accepted does not change that.                 *)
ResultToOwner ==
  \A c \in Calls : pc[c] = "done" /\ c \notin disturbed => told[c] = <<c>>

(* No download is reported as CANCELED that nobody stopped: the event is set *)
(* when a Zoe is made and at the end of every session, so a worker that did  *)
(* not unset it would cancel itself.                                         *)
CanceledOnlyOnRequest == \A c \in Calls : ret[c] = "CANCELED" => asked[c] # {}

(* Once a worker has a result it delivers it: the event wakes the reporters  *)
(* before it waits for them, and no other worker unsets it meanwhile.        *)
ResultDelivered == \A c \in Calls : (pc[c] = "tail") ~> (pc[c] = "done")

(* A stop that came after the launch ends the download, wherever it is:      *)
(* asking for the file info, paused, or with transfers that stall.           *)
StopTakesEffect ==
  \A c \in Calls : (StopHeard(c) /\ pc[c] # "spawned") ~> (pc[c] = "done")

(* A start that has to wait for the download before it, and the destructor   *)
(* of a stopped one, return: what a careful user waits for ends.             *)
UserNotHeld == user \in {"joining", "deleting"} ~> user \in {"free", "gone"}

(* "Will trigger CANCELED result in the result callback" (zoe.h, stop): a    *)
(* stop that comes before the worker has done anything.                      *)
StopCancels ==
  \A c \in Calls :
    pc[c] = "done" /\ "stop before launch" \in asked[c] => ret[c] = "CANCELED"

(* "A download is already in progress" (zoe.h, ALREADY_DOWNLOADING).         *)
RejectedOnlyWhileRunning ==
  [][\A c \in Calls :
       pc[c] = "none" /\ ret'[c] = "ALREADY_DOWNLOADING" =>
         \E d \in Calls : Working(d)]_vars
=============================================================================
