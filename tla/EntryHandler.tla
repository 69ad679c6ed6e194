----------------------------- MODULE EntryHandler -----------------------------
(***************************************************************************)
(* A download from start to result (src/entry_handler.cpp): the worker     *)
(* thread that asyncTaskProcess runs on, the user who stops, pauses and    *)
(* resumes it, the servers it reads from, and the process around it, which *)
(* may die at any moment and be started again over the same files.         *)
(*                                                                         *)
(* The worker is one thread: pc names the point it has reached, one action *)
(* is one stretch of its code between two moments at which the user, the   *)
(* network or a crash can make a difference.  src, slices and origin are   *)
(* memory and die with the process; tmp, index and target are files.       *)
(***************************************************************************)
EXTENDS SliceManager, FiniteSets

CONSTANTS
  ThreadNum,      \* options_->thread_num
  DiskCacheSize,  \* options_->disk_cache_size
  MaxSpeed,       \* options_->max_speed, -1: no limit
  MaxFailedTimes, \* options_->slice_max_failed_times
  Faults,         \* what may go wrong in the environment
  UserActions,    \* which calls the user makes besides start
  CrashPoints,    \* the values of pc at which the process may die
  MaxSlices,      \* bound: slices that fairness speaks of
  MaxSessions,    \* bound: calls of start
  MaxCrashes      \* bound: deaths of the process

FaultKinds ==
  {"fetch",   \* the file info cannot be fetched
   "create",  \* a file cannot be created, or cannot be opened then
   "curl",    \* a libcurl object cannot be made
   "malloc",  \* no memory for a cache
   "drop",    \* a transfer ends with an error
   "short",   \* a transfer ends early and without an error
   "fdset",   \* curl_multi_fdset fails
   "write",   \* the disk takes a part of a write only
   "index",   \* the index file cannot be opened for writing
   "rename",  \* the temporary file cannot be renamed
   "remove"}  \* the index file cannot be removed

(* The points of its code the worker may be at, in the order of the code. *)
PC == {"idle", "launched", "fetch", "load", "start",
       "perform0", "loop", "flush", "flush_open", "flush_write",
       "perform", "update", "schedule", "performNew",
       "stopping", "finish_open", "finish_write", "check", "hash",
       "rename", "remove_index", "end"}

ASSUME EntryHandlerAssumption ==
  /\ ThreadNum \in Nat \ {0}
  /\ DiskCacheSize \in Nat
  /\ MaxSpeed \in (Nat \ {0}) \cup {-1}    \* Zoe::setMaxDownloadSpeed
  /\ MaxFailedTimes \in Nat
  /\ Faults \subseteq FaultKinds
  /\ UserActions \subseteq {"stop", "event", "pause"}
  /\ CrashPoints \subseteq PC \ {"idle"}
  /\ MaxSlices \in Nat /\ MaxSessions \in Nat /\ MaxCrashes \in Nat

VARIABLES
  pc,        \* where the worker is
  src,       \* the content the server of this session holds
  origin,    \* slice_manager_->origin_file_size_
  slices,    \* slice_manager_->slices_
  cur,       \* the slice a loop over all slices has come to
  running,   \* still_running
  check,     \* need_check_completed of finishDownloadProgress
  ret,       \* the result the worker is carrying
  stopEv,    \* options_->internal_stop_event
  userEv,    \* *options_->user_stop_event
  paused,    \* user_paused_
  tmp,       \* the file at target_file_path + ".zoe"
  index,     \* the file at target_file_path + ".efdindex"
  target,    \* the file at target_file_path
  result,    \* what the last session reported, "none" until it does
  sessions,  \* calls of start so far
  crashes,   \* deaths of the process so far
  orphan     \* history: "left", the file that the index was written for is gone
             \* or emptied; "used", a session has gone on from such an index

memory == <<src, origin, slices, cur, running, check, ret>>
user   == <<stopEv, userEv, paused>>
disk   == <<tmp, index, target>>
history == <<sessions, crashes, orphan>>
vars   == <<pc, memory, user, disk, result, history>>

ResultCode ==
  {"none", "SUCCESSED", "CANCELED", "UNKNOWN_ERROR", "FETCH_FILE_INFO_FAILED",
   "CREATE_TARGET_FILE_FAILED", "INIT_CURL_FAILED", "INIT_CURL_MULTI_FAILED", "SET_CURL_OPTION_FAILED",
   "ADD_CURL_HANDLE_FAILED", "FLUSH_TMP_FILE_FAILED", "SLICE_DOWNLOAD_FAILED",
   "HASH_VERIFY_NOT_PASS", "CALCULATE_HASH_FAILED", "RENAME_TMP_FILE_FAILED"}

NoContent == CHOOSE c \in Contents : TRUE

Init ==
  /\ pc = "idle"
  /\ src = NoContent /\ origin = 0 /\ slices = <<>> /\ cur = 1
  /\ running = 0 /\ check = FALSE /\ ret = "none"
  /\ stopEv = TRUE /\ userEv = FALSE /\ paused = FALSE
  /\ tmp = NoFile /\ index = NoFile /\ target = NoFile
  /\ result = "none" /\ sessions = 0 /\ crashes = 0 /\ orphan = "no"

StopRequested == stopEv \/ userEv

Live == {i \in DOMAIN slices : slices[i].curl = "live"}

\* A DONE message waits in the queue of the multi handle.
Done == {i \in DOMAIN slices : slices[i].curl \in {"ok", "err"}}

\* How much of data a write to the temporary file may take.
Accepted(data) == IF "write" \in Faults THEN 0..Len(data) ELSE {Len(data)}

(* Mutant: what is written goes where the cache would end. *)
WriteTmpBehindCache(i, data, w) ==
  tmp' = Write(tmp, slices[i].begin + slices[i].disk + Len(slices[i].cache),
               SubSeq(data, 1, w))

\* Slice i writes the first w bytes of data where its data on disk ends.
WriteTmp(i, data, w) ==
  tmp' = Write(tmp, slices[i].begin + slices[i].disk, SubSeq(data, 1, w))

-----------------------------------------------------------------------------
(* The user, and the death of the process. *)

(* Zoe::start once isDownloading() is false; the worker has not run yet.    *)
(* Which content the server holds now is the environment's choice.          *)
Start ==
  /\ pc = "idle" /\ sessions < MaxSessions
  /\ src' \in Contents
  /\ pc' = "launched" /\ result' = "none" /\ sessions' = sessions + 1
  /\ UNCHANGED <<origin, slices, cur, running, check, ret, user, disk, crashes, orphan>>

Stop ==
  /\ "stop" \in UserActions /\ pc # "idle"
  /\ ~stopEv /\ stopEv' = TRUE
  /\ UNCHANGED <<pc, memory, userEv, paused, disk, result, history>>

\* The user sets an event of his own, and clears it when no download runs.
SetUserEvent ==
  /\ "event" \in UserActions
  /\ \/ pc # "idle" /\ ~userEv /\ userEv' = TRUE
     \/ pc = "idle" /\ userEv /\ userEv' = FALSE
  /\ UNCHANGED <<pc, memory, stopEv, paused, disk, result, history>>

(* pause and resume do nothing while there is no slice manager. *)
PauseResume ==
  /\ "pause" \in UserActions /\ pc \notin {"idle", "launched", "fetch"}
  /\ paused' = ~paused
  /\ UNCHANGED <<pc, memory, stopEv, userEv, disk, result, history>>

Crash ==
  /\ pc \in CrashPoints /\ crashes < MaxCrashes
  /\ pc' = "idle" /\ slices' = <<>> /\ origin' = 0 /\ cur' = 1 /\ running' = 0
  /\ check' = FALSE /\ ret' = "none"
  /\ stopEv' = TRUE /\ userEv' = FALSE /\ paused' = FALSE
  /\ crashes' = crashes + 1
  /\ UNCHANGED <<src, disk, result, sessions, orphan>>

\* Nothing is left to explore.
Rest ==
  /\ pc = "idle" /\ sessions = MaxSessions
  /\ UNCHANGED vars

-----------------------------------------------------------------------------
(* From the call to the first perform. *)

\* asyncTaskProcess begins; a stop that came before this is forgotten.
Launch ==
  /\ pc = "launched" /\ pc' = "fetch"
  /\ stopEv' = FALSE /\ paused' = FALSE
  /\ UNCHANGED <<memory, userEv, disk, result, history>>

Return(r) == pc' = "end" /\ ret' = r

(* fetchFileInfo with its retries, and what follows it: canceled, failed, an *)
(* empty resource (its target is made on the spot), or on to the slices.     *)
Fetch ==
  /\ pc = "fetch"
  /\ \/ StopRequested /\ Return("CANCELED") /\ UNCHANGED <<origin, target>>
     \/ /\ ~StopRequested /\ "fetch" \in Faults
        /\ Return("FETCH_FILE_INFO_FAILED") /\ UNCHANGED <<origin, target>>
     \/ /\ ~StopRequested /\ ReportedSize[src] = 0
        /\ \/ target' = CreateFixedSizeFile(target, 0) /\ Return("SUCCESSED")
           \/ /\ "create" \in Faults
              /\ Return("CREATE_TARGET_FILE_FAILED") /\ UNCHANGED target
        /\ UNCHANGED origin
     \/ /\ ~StopRequested /\ ReportedSize[src] # 0
        /\ origin' = ReportedSize[src]
        /\ pc' = "load" /\ UNCHANGED <<ret, target>>
  /\ UNCHANGED <<src, slices, cur, running, check, user, tmp, index, result, history>>

(* Enter finishDownloadProgress(need_check). *)
Finish(need_check) ==
  /\ pc' = "stopping" /\ cur' = 1 /\ check' = need_check /\ ret' = "SUCCESSED"

(* What follows once the slices are there: every byte is claimed and the     *)
(* download is finished without a check, or connections are opened.          *)
AfterLoad ==
  \/ /\ origin # -1 /\ AllCompletedBySize(slices', origin)
     /\ Finish(FALSE)
  \/ /\ ~(origin # -1 /\ AllCompletedBySize(slices', origin))
     /\ \/ pc' = "start" /\ UNCHANGED ret
        \/ "curl" \in Faults /\ Return("INIT_CURL_MULTI_FAILED")
     /\ UNCHANGED <<cur, check>>

\* loadExistSlice may find nothing to go on with.
NothingToLoad == MayExpire \/ "create" \in Faults \/ ~Usable(index, tmp, origin, src)

(* What CreateFixedSizeFile may leave at the temporary path for n bytes.  On  *)
(* Windows, when the end of the file cannot be moved, the file is opened      *)
(* "wb+" and made anew.                                                       *)
Created(n) ==
  {CreateFixedSizeFile(tmp, n)}
    \cup (IF Platform = "windows" /\ "create" \in Faults
          THEN {CreateFixedSizeFile(NoFile, n)} ELSE {})

\* Every byte of file f is in g.
Extends(f, g) == f = NoFile \/ \A k \in DOMAIN f : k \in DOMAIN g /\ g[k] = f[k]

\* History: the temporary file may have lost what the index claims of it; the
\* index is made anew or removed; a session goes on from it.
Outlive(lost) == orphan' = IF lost /\ orphan = "no" THEN "left" ELSE orphan
Renewed == orphan' = IF orphan = "left" THEN "no" ELSE orphan
GoOn == orphan' = IF orphan = "left" THEN "used" ELSE orphan

(* createNew fails: the temporary file is as it was, is there and no longer   *)
(* than before, or has its size and cannot be opened.  The index stays.      *)
CreateFails ==
  /\ "create" \in Faults
  /\ tmp' \in {tmp, CreateFixedSizeFile(tmp, 0)} \cup Created(Larger(origin, 0))
  /\ Return("CREATE_TARGET_FILE_FAILED")
  /\ UNCHANGED <<slices, cur, check>>

(* loadExistSlice, and makeSlices when it finds nothing to go on with. *)
Load ==
  /\ pc = "load"
  /\ \/ /\ Usable(index, tmp, origin, src)
        /\ slices' = LoadedSlices(index) /\ UNCHANGED tmp
        /\ AfterLoad /\ GoOn
     \/ /\ NothingToLoad
        /\ \/ /\ tmp' \in Created(Larger(origin, 0))
              /\ slices' = MakeSlices(origin, AcceptRanges[src])
              /\ AfterLoad
           \/ CreateFails
        /\ Outlive(~Extends(tmp, tmp'))
  /\ UNCHANGED <<src, origin, running, user, index, target, result, sessions, crashes>>

(* calculateSliceInfo: each of n connections gets its part of a total. *)
Share(total, n) == IF n <= 0 \/ total = -1 THEN total ELSE total \div n

(* slice_i->start: its outcome is code, a connection it opens is answered    *)
(* as the server likes.                                                      *)
StartSlice(i, n, code) ==
  \/ /\ code = "SUCCESSED"
     /\ \E r \in Replies(slices[i], src) :
        \E buffer \in {Share(DiskCacheSize, n)}
                        \cup (IF "malloc" \in Faults THEN {0} ELSE {}) :
          slices' = [slices EXCEPT ![i] =
                       Started(slices[i], buffer, Share(MaxSpeed, n), r)]
  \/ /\ "curl" \in Faults
     /\ code \in {"INIT_CURL_FAILED", "SET_CURL_OPTION_FAILED",
                  "ADD_CURL_HANDLE_FAILED"}
     /\ slices' = [slices EXCEPT ![i] = StartFailed(slices[i])]

StartCodes == {"SUCCESSED", "INIT_CURL_FAILED", "SET_CURL_OPTION_FAILED",
               "ADD_CURL_HANDLE_FAILED"}

(* Mutant: one connection too many. *)
SlotFreeOffByOne(n) == n <= ThreadNum

(* With n connections, another may be opened. *)
SlotFree(n) == n < ThreadNum

(* The loop that opens the first connections.  All of them get the share     *)
(* computed before it: a slice it has started is no longer UNFETCH.          *)
StartFirst ==
  LET unfetch == UnfetchAndUncompleted(slices)
      total   == Cardinality(unfetch) + Cardinality(Live)
      share   == IF total <= ThreadNum THEN total ELSE ThreadNum
      next    == FirstWithStatus(slices, "UNFETCH")
      stops   == ~SlotFree(Cardinality(Live)) \/ WithStatus(slices, "UNFETCH") = {}
  IN
  /\ pc = "start"
  /\ \/ /\ stops /\ UNCHANGED slices
        /\ IF Live = {} THEN Return("UNKNOWN_ERROR")
                        ELSE pc' = "perform0" /\ UNCHANGED ret
     \/ /\ ~stops
        /\ \E code \in StartCodes :
             /\ StartSlice(next, share, code)
             /\ IF code = "SUCCESSED" THEN UNCHANGED <<pc, ret>> ELSE Return(code)
  /\ UNCHANGED <<src, origin, cur, running, check, user, disk, result, history>>

-----------------------------------------------------------------------------
(* Inside curl_multi_perform. *)

(* A chunk of slice i arrives. *)
Deliver(i) ==
  /\ pc \in {"perform0", "perform", "performNew"} /\ i \in Live
  /\ \E n \in 1..MaxChunk :
       LET data == DataToWrite(slices[i], Chunk(slices[i], n))
       IN  /\ slices[i].reply.pos + n <= slices[i].reply.lim
           /\ \E w \in Accepted(data) :
                /\ WriteTmp(i, data, w)
                /\ slices' = [slices EXCEPT ![i] = OnNewData(slices[i], n, w)]
  /\ UNCHANGED <<pc, src, origin, cur, running, check, ret, user, index, target,
                 result, history>>

(* The transfer of slice i is over. *)
TransferEnd(i) ==
  /\ pc \in {"perform0", "perform", "performNew"} /\ i \in Live
  /\ \E how \in {"ok", "err"} :
       /\ how = "err" => "drop" \in Faults
       /\ how = "ok"  => \/ slices[i].reply.pos = slices[i].reply.lim
                         \/ "short" \in Faults
       /\ slices' = [slices EXCEPT ![i].curl = how]
  /\ UNCHANGED <<pc, src, origin, cur, running, check, ret, user, disk, result, history>>

(* Mutant: it takes one connection less for the loop to go on. *)
LoopEndOffByOne(still_running) ==
  IF still_running >= 0 \/ paused
  THEN pc' = "loop" /\ UNCHANGED <<cur, check, ret>>
  ELSE Finish(TRUE)

(* The end of an iteration of the loop. *)
LoopEnd(still_running) ==
  IF still_running > 0 \/ paused
  THEN pc' = "loop" /\ UNCHANGED <<cur, check, ret>>
  ELSE Finish(TRUE)

(* curl_multi_perform returns the number of transfers that still run. *)
PerformReturn ==
  /\ pc \in {"perform0", "perform", "performNew"}
  /\ running' = Cardinality(Live)
  /\ CASE pc = "perform0" -> pc' = "loop" /\ UNCHANGED <<cur, check, ret>>
       [] pc = "perform"  -> IF SlotFree(running')
                             THEN pc' = "update" /\ UNCHANGED <<cur, check, ret>>
                             ELSE LoopEnd(running')
       [] pc = "performNew" -> LoopEnd(running')
  /\ UNCHANGED <<src, origin, slices, user, disk, result, history>>

-----------------------------------------------------------------------------
(* The loop. *)

(* Mutant: the wait does not look at the events. *)
WaitsDeaf == paused

(* The inner loop that user_paused_ holds the worker in. *)
Waits == paused /\ ~StopRequested

(* The head of the loop: wait while paused, leave when stopped, flush every  *)
(* ten seconds.                                                              *)
LoopTop ==
  /\ pc = "loop"
  /\ ~Waits
  /\ \/ StopRequested /\ Finish(TRUE)
     \/ /\ ~StopRequested
        /\ \/ pc' = "flush" /\ cur' = 1 /\ UNCHANGED <<check, ret>>
           \/ pc' = "perform" /\ UNCHANGED <<cur, check, ret>>
           \/ "fdset" \in Faults /\ Finish(TRUE)
  /\ UNCHANGED <<src, origin, slices, running, user, disk, result, history>>

(* flushAllSlices; that it failed is not looked at. *)
FlushSlice ==
  /\ pc = "flush"
  /\ \/ /\ cur \in DOMAIN slices
        /\ \E w \in Accepted(slices[cur].cache) :
             /\ WriteTmp(cur, slices[cur].cache, w)
             /\ slices' = [slices EXCEPT ![cur] = FlushToDisk(slices[cur], w)]
        /\ cur' = cur + 1 /\ UNCHANGED pc
     \/ /\ cur \notin DOMAIN slices
        /\ pc' = "flush_open" /\ UNCHANGED <<slices, cur, tmp>>
  /\ UNCHANGED <<src, origin, running, check, ret, user, index, target, result, history>>

(* flushIndexFile: fopen "wb" empties the old index, then the new one is     *)
(* written.  Failing to open it is not looked at.                            *)
OpenIndex ==
  /\ \/ /\ pc = "flush_open"
        /\ \/ pc' = "flush_write" /\ index' = TornIndex /\ Renewed
           \/ "index" \in Faults /\ pc' = "perform" /\ UNCHANGED <<index, orphan>>
     \/ /\ pc = "finish_open"
        /\ \/ pc' = "finish_write" /\ index' = TornIndex /\ Renewed
           \/ "index" \in Faults /\ pc' = "check" /\ UNCHANGED <<index, orphan>>
  /\ UNCHANGED <<memory, user, tmp, target, result, sessions, crashes>>

(* What fwrite returns is not looked at: a part of the text cannot be parsed. *)
WriteIndex ==
  /\ \/ pc = "flush_write" /\ pc' = "perform"
     \/ pc = "finish_write" /\ pc' = "check"
  /\ \/ index' = IndexOf(slices, origin, src)
     \/ "write" \in Faults /\ index' = TornIndex
  /\ UNCHANGED <<memory, user, tmp, target, result, history>>

\* The status updateSliceStatus gives slice s when its transfer is over.
StatusAfter(s) ==
  IF s.curl = "err" THEN "DOWNLOAD_FAILED"
  ELSE IF IsDataCompletedClearly(s) THEN "DOWNLOAD_COMPLETED"
  ELSE IF s.end = -1 THEN "CURL_OK_BUT_COMPLETED_NOT_SURE"
  ELSE "DOWNLOAD_FAILED"

(* updateSliceStatus, one DONE message: the slice gets its new status and is *)
(* stopped; that its data could not be flushed is not looked at.             *)
UpdateSliceStatus ==
  /\ pc = "update"
  /\ \/ \E i \in Done :
          LET st == StatusAfter(slices[i])
              s  == [slices[i] EXCEPT !.status = st,
                                      !.failed = IF st = "DOWNLOAD_FAILED"
                                                 THEN @ + 1 ELSE @]
          IN  \E w \in Accepted(StopWrites(s)) :
                /\ WriteTmp(i, StopWrites(s), w)
                /\ slices' = [slices EXCEPT ![i] = Stopped(s, w)]
                /\ UNCHANGED pc
     \/ Done = {} /\ pc' = "schedule" /\ UNCHANGED <<slices, tmp>>
  /\ UNCHANGED <<src, origin, cur, running, check, ret, user, index, target,
                 result, history>>

(* With no slice left to fetch: a slice that ended well and has no end is    *)
(* taken for complete once nothing else is under way.  A failed slice is     *)
(* looked up, and left as it is.                                             *)
ScheduleNone ==
  LET unsure == WithStatus(slices, "CURL_OK_BUT_COMPLETED_NOT_SURE")
      first  == FirstWithStatus(slices, "CURL_OK_BUT_COMPLETED_NOT_SURE")
      settles == /\ WithStatus(slices, "DOWNLOAD_FAILED") = {}
                 /\ WithStatus(slices, "DOWNLOADING") = {}
                 /\ unsure # {}
                 /\ origin = -1 \/ AllCompletedBySize(slices, origin)
  IN
  /\ pc = "schedule" /\ WithStatus(slices, "UNFETCH") = {}
  /\ slices' = IF settles
               THEN [slices EXCEPT ![first].status = "DOWNLOAD_COMPLETED"]
               ELSE slices
  /\ LoopEnd(running)
  /\ UNCHANGED <<src, origin, running, user, disk, result, history>>

(* A free connection goes to the first slice not fetched yet.  It is driven  *)
(* at once only when nothing else runs; when it cannot be started then,      *)
(* still_running is set to 1 so that the loop looks for another.             *)
ScheduleNext ==
  LET next == FirstWithStatus(slices, "UNFETCH") IN
  /\ pc = "schedule" /\ WithStatus(slices, "UNFETCH") # {}
  /\ \E code \in StartCodes :
       /\ StartSlice(next, running + 1, code)
       /\ \/ /\ running > 0
             /\ LoopEnd(running) /\ UNCHANGED running
          \/ /\ running <= 0 /\ code = "SUCCESSED"
             /\ pc' = "performNew" /\ UNCHANGED <<cur, running, check, ret>>
          \/ /\ running <= 0 /\ code # "SUCCESSED"
             /\ running' = 1 /\ LoopEnd(1)
  /\ UNCHANGED <<src, origin, user, disk, result, history>>

-----------------------------------------------------------------------------
(* finishDownloadProgress and what follows it. *)

(* Every slice is stopped; one that cannot flush spoils the result. *)
StopSlice ==
  /\ pc = "stopping"
  /\ \/ /\ cur \in DOMAIN slices
        /\ \E w \in Accepted(StopWrites(slices[cur])) :
             /\ WriteTmp(cur, StopWrites(slices[cur]), w)
             /\ slices' = [slices EXCEPT ![cur] = Stopped(slices[cur], w)]
             /\ ret' = IF w = Len(StopWrites(slices[cur])) THEN ret
                       ELSE "FLUSH_TMP_FILE_FAILED"
        /\ cur' = cur + 1 /\ UNCHANGED pc
     \/ /\ cur \notin DOMAIN slices
        /\ pc' = "finish_open" /\ UNCHANGED <<slices, cur, tmp, ret>>
  /\ UNCHANGED <<src, origin, running, check, user, index, target, result, history>>

\* A failure on the way to the end is reported as a cancellation when a stop
\* was asked for, except on the way that never opened a connection.
Fail(r) == Return(IF check /\ StopRequested THEN "CANCELED" ELSE r)

(* The checks of finishDownloadProgress, in their order: what stopping the   *)
(* slices came to, the sizes, then (in VerifyHash) the hash.                 *)
CheckCompleted ==
  /\ pc = "check"
  /\ \/ ret # "SUCCESSED" /\ Fail(ret)
     \/ /\ ret = "SUCCESSED" /\ check
        /\ origin # -1 /\ ~AllCompletedBySize(slices, origin)
        /\ Fail("SLICE_DOWNLOAD_FAILED")
     \/ /\ ret = "SUCCESSED"
        /\ check => origin = -1 \/ AllCompletedBySize(slices, origin)
        /\ pc' = IF check /\ NeedVerifyHash(origin, src) THEN "hash" ELSE "rename"
        /\ UNCHANGED ret
  /\ UNCHANGED <<src, origin, slices, cur, running, check, user, disk, result, history>>

(* The hash of the temporary file; reading it gives way to a stop. *)
VerifyHash ==
  LET matches == HashMatches(tmp, src)
      gives_up == StopRequested /\ tmp # <<>>
  IN
  /\ pc = "hash"
  /\ \/ gives_up /\ Fail("CALCULATE_HASH_FAILED")
     \/ ~gives_up /\ ~matches /\ Fail("HASH_VERIFY_NOT_PASS")
     \/ ~gives_up /\ matches /\ pc' = "rename" /\ UNCHANGED ret
  /\ UNCHANGED <<src, origin, slices, cur, running, check, user, disk, result, history>>

RenameTmp ==
  /\ pc = "rename"
  /\ \/ /\ target' = tmp /\ tmp' = NoFile /\ Outlive(TRUE)
        /\ pc' = "remove_index" /\ UNCHANGED ret
     \/ /\ "rename" \in Faults
        /\ Fail("RENAME_TMP_FILE_FAILED") /\ UNCHANGED <<target, tmp, orphan>>
  /\ UNCHANGED <<src, origin, slices, cur, running, check, user, index, result,
                 sessions, crashes>>

(* That the index could not be removed is not looked at. *)
RemoveIndex ==
  /\ pc = "remove_index"
  /\ \/ index' = NoFile /\ Renewed
     \/ "remove" \in Faults /\ UNCHANGED <<index, orphan>>
  /\ Return("SUCCESSED")
  /\ UNCHANGED <<src, origin, slices, cur, running, check, user, tmp, target,
                 result, sessions, crashes>>

(* The tail of asyncTaskProcess: the slices are destroyed, the result is     *)
(* handed to the user.                                                       *)
Cleanup ==
  /\ pc = "end" /\ pc' = "idle"
  /\ result' = ret /\ ret' = "none"
  /\ stopEv' = TRUE
  /\ slices' = <<>> /\ origin' = 0 /\ cur' = 1 /\ running' = 0 /\ check' = FALSE
  /\ UNCHANGED <<src, userEv, paused, disk, history>>

-----------------------------------------------------------------------------
Network == \E i \in DOMAIN slices : Deliver(i) \/ TransferEnd(i)

Worker ==
  \/ Launch \/ Fetch \/ Load \/ StartFirst
  \/ PerformReturn \/ LoopTop \/ FlushSlice \/ OpenIndex \/ WriteIndex
  \/ UpdateSliceStatus \/ ScheduleNone \/ ScheduleNext
  \/ StopSlice \/ CheckCompleted \/ VerifyHash \/ RenameTmp \/ RemoveIndex
  \/ Cleanup

User == Start \/ Stop \/ SetUserEvent \/ PauseResume

Next == Worker \/ Network \/ User \/ Crash \/ Rest

Spec == Init /\ [][Next]_vars

(* The thread of std::async keeps running.  Nothing is asked of the user or  *)
(* of the network: a transfer may stall for ever.                            *)
WorkerFair == WF_vars(Worker)

(* A server that was asked goes on sending: a transfer that can make         *)
(* progress in infinitely many performs makes it.                            *)
ServersFair ==
  \A i \in 1..MaxSlices :
    SF_vars(i \in DOMAIN slices /\ (Deliver(i) \/ TransferEnd(i)))

FairSpec == Spec /\ WorkerFair

ServedSpec == FairSpec /\ ServersFair

-----------------------------------------------------------------------------
(* What a session is to somebody who sees no more than the target file. *)

Phase ==
  IF pc = "idle" THEN "idle"
  ELSE IF pc = "remove_index" \/ (pc = "end" /\ ret = "SUCCESSED") THEN "placed"
  ELSE "busy"

Transfer == INSTANCE FileTransfer WITH
  Bytes <- [x \in Contents |-> BytesOf(x)],
  Failures <- ResultCode \ {"none", "SUCCESSED"},
  Files <- File,
  phase <- Phase,
  misled <- (orphan = "used")

-----------------------------------------------------------------------------
(* Properties. *)

(* Every variable has its type. *)
TypeOK ==
  /\ pc \in PC
  /\ src \in Contents
  /\ origin \in Nat \cup {-1}
  /\ slices \in Seq(SliceRecord)
  /\ cur \in Nat \ {0}
  /\ running \in Nat
  /\ check \in BOOLEAN
  /\ ret \in ResultCode
  /\ stopEv \in BOOLEAN /\ userEv \in BOOLEAN /\ paused \in BOOLEAN
  /\ tmp \in File \cup {NoFile}
  /\ index \in Index \cup {NoFile, TornIndex}
  /\ target \in File \cup {NoFile}
  /\ result \in ResultCode
  /\ sessions \in Nat /\ crashes \in Nat
  /\ orphan \in {"no", "left", "used"}

\* File f holds bytes first+1 .. first+n of content c at their places.
Holds(f, c, first, n) ==
  /\ first + n <= Len(f)
  /\ \A k \in first + 1 .. first + n : f[k] = <<c, k>>

(* A download that reports SUCCESSED leaves exactly the bytes of the         *)
(* resource in the target file: nothing missing, nothing of another          *)
(* resource, nothing behind its end (start to finishDownloadProgress).       *)
SuccessIsExact == result = "SUCCESSED" => target = BytesOf(src)

(* A session places the whole resource at the target path at one instant, or *)
(* never touches what is there, and its result says which; nothing between   *)
(* the start and the result is seen at the target path.  Only behind a       *)
(* session that went on from an index whose file was gone may it be another  *)
(* file (EntryHandler implements FileTransfer).                              *)
ImplementsTransfer == Transfer!Spec

(* An index that a later session would go on from claims no byte that is     *)
(* not in the temporary file, whenever the process dies: data before index   *)
(* in the periodic flush and in finishDownloadProgress.  The one exception   *)
(* is an index that has outlived the file it was written for, and what came  *)
(* of a session that went on from one.                                       *)
IndexTruthful ==
  (/\ orphan = "no" /\ index \notin {NoFile, TornIndex}
   /\ Usable(index, tmp, index.size, index.md5))
    => \A i \in DOMAIN index.slices :
         Holds(tmp, index.md5, index.slices[i].begin, index.slices[i].capacity)

(* What a slice counts as downloaded is where it belongs: disk_capacity_     *)
(* bytes in the file from begin on, the cache holding the bytes that follow, *)
(* and none of it outside the range of the slice, so that no slice writes    *)
(* over another (Slice::onNewData, flushToDisk, stop); whatever happened     *)
(* before, unless a session has gone on from an index without its file.      *)
SlicesTruthful ==
  \A i \in DOMAIN slices :
    LET s == slices[i] IN
    pc \notin {"remove_index", "end"} /\ orphan # "used" =>
      /\ Holds(tmp, src, s.begin, s.disk)
      /\ s.cache = [k \in DOMAIN s.cache |-> <<src, s.begin + s.disk + k>>]
      /\ s.end # -1 => s.disk + Len(s.cache) <= Size(s)

(* No more handles are open at once than the user allowed threads, the ones  *)
(* whose DONE message is not read yet included (the still_running test).     *)
ConnectionLimit == Cardinality(Live \cup Done) <= ThreadNum

(* When slices_ is destroyed no slice holds an easy handle any more: the     *)
(* assertion of ~Slice.                                                      *)
NoHandleLeak == pc = "end" => Live \cup Done = {}

(* A session reports that a slice could not be downloaded only after that    *)
(* slice was tried as often as the user allowed: "Try to download the slice  *)
(* that is failed previous again" (the comment in the loop).                 *)
FailedOnlyAfterRetries ==
  (pc = "end" /\ ret = "SLICE_DOWNLOAD_FAILED") =>
    \E i \in DOMAIN slices : slices[i].failed >= MaxFailedTimes

(* "Always verify hash": under AlwaysVerify and a hash given by the user, no *)
(* download succeeds with other content (finishDownloadProgress).            *)
HashAlwaysVerified ==
  (HashVerifyPolicy = "AlwaysVerify" /\ HashValue # NoHash /\ result = "SUCCESSED")
    => target = BytesOf(HashValue)

(* A temporary file just created has the size it was created with            *)
(* (CreateFixedSizeFile; the size is 0 while the resource's is not known).   *)
CreatedAtItsSize == pc = "start" => Len(tmp) = Larger(origin, 0)

(* A byte that is in the temporary file is not asked for a second time: with *)
(* no failure and no crash, sessions that are stopped and started again      *)
(* fetch each byte once (the capacities in the index, Slice::start's range). *)
NothingRefetched ==
  [][\A i \in DOMAIN slices \cap DOMAIN slices' :
       (slices[i].curl = "none" /\ slices'[i].curl = "live") =>
         \A k \in slices'[i].reply.pos + 1 .. slices'[i].reply.lim :
           k <= Len(tmp) => tmp[k] # <<src, k>>]_vars

(* A stop that the worker has not forgotten ends the session, paused or      *)
(* stalled as it may be; only the worker's own steps are needed for it.      *)
StopEnds ==
  (StopRequested /\ pc \notin {"idle", "launched"}) ~> pc = "idle"

(* With servers that go on sending, every session comes to an end or is held *)
(* by a pause, whatever fails on the way: the loop is not kept alive by a    *)
(* count of transfers that is out of date (still_running).                   *)
SessionEnds == ServersFair => []<>(pc = "idle" \/ paused)

(* A download that is neither stopped nor paused succeeds unless a transfer  *)
(* fails, in a later session over what was left behind as in the first:      *)
(* every slice gets a connection in the end, and when the loop leaves        *)
(* nothing is missing.  The one way around this is a transfer that is over   *)
(* within the perform that began it, with slices still to fetch: the loop    *)
(* takes still_running = 0 for its end.                                      *)
Delivered ==
  (pc = "launched") ~>
    \/ result = "SUCCESSED"
    \/ paused \/ (StopRequested /\ pc \notin {"idle", "launched"})
    \/ \E i \in DOMAIN slices : slices[i].curl = "err"
    \/ pc = "performNew" /\ Live = {} /\ WithStatus(slices, "UNFETCH") # {}

(* A session says that a slice failed only when a slice did: each that was   *)
(* not complete in the end was tried, and its transfer ended in an error or  *)
(* short ("Failed to download a slice", zoe.h).                              *)
SliceFailureHappened ==
  (pc = "end" /\ ret = "SLICE_DOWNLOAD_FAILED") =>
    \E i \in DOMAIN slices : slices[i].failed > 0
=============================================================================
