--------------------------- MODULE ConnectionProofs ---------------------------
(* The connections of a download, for every number of threads and slices:    *)
(* never more of them are open than there are threads, and all of them are   *)
(* closed when the slices are destroyed.                                     *)
EXTENDS EntryHandlerProofs

-----------------------------------------------------------------------------
(* The inductive invariant.  ConnectionLimit alone is not inductive: where a *)
(* connection is opened, what was counted before has to count still.         *)

Open == Live \cup Done

\* The first connections are opened before any of them can end.
NoneDoneAtStart == pc = "start" => Done = {}

\* still_running is what it was when curl_multi_perform returned, and by the
\* time of scheduling all that ended has been taken out.
RunningIsCounted ==
  /\ pc \in {"update", "schedule"} => running = Cardinality(Live) /\ SlotFree(running)
  /\ pc = "schedule" => Done = {}

ConnInv == ConnectionLimit /\ NoneDoneAtStart /\ RunningIsCounted

-----------------------------------------------------------------------------
(* Counting. *)

LEMMA OpenIsFinite ==
  ASSUME slices \in Seq(SliceRecord)
  PROVE  /\ IsFiniteSet(Open) /\ Cardinality(Open) \in Nat
         /\ Live \subseteq Open /\ Done \subseteq Open
         /\ \A i \in DOMAIN slices : i \notin Open <=> slices[i].curl = "none"
  <1>1. Open \in SUBSET (1..Len(slices)) /\ Len(slices) \in Nat
    BY DEF Open, Live, Done
  <1>2. IsFiniteSet(1..Len(slices))
    BY <1>1, FS_Interval
  <1>3. IsFiniteSet(Open)
    BY <1>1, <1>2, FS_Subset
  <1>4. Cardinality(Open) \in Nat
    BY <1>3, FS_CardinalityType
  <1>5. ASSUME NEW i \in DOMAIN slices
        PROVE  i \notin Open <=> slices[i].curl = "none"
    <2>1. slices[i] \in SliceRecord
      OBVIOUS
    <2>2. slices[i].curl \in CurlState
      BY <2>1 DEF SliceRecord
    <2> QED BY <2>2 DEF Open, Live, Done, CurlState
  <1> QED BY <1>3, <1>4, <1>5 DEF Open

\* A set that gains at most one element grows by at most one.
LEMMA GrowsByOne ==
  ASSUME NEW S, IsFiniteSet(S), NEW i, NEW T \in SUBSET (S \cup {i})
  PROVE  Cardinality(T) <= Cardinality(S) + 1
  <1>1. /\ IsFiniteSet(S \cup {i})
        /\ Cardinality(S \cup {i}) = IF i \in S THEN Cardinality(S)
                                              ELSE Cardinality(S) + 1
    BY FS_AddElement
  <1>2. Cardinality(T) <= Cardinality(S \cup {i})
    BY <1>1, FS_Subset
  <1>3. Cardinality(S) \in Nat /\ Cardinality(T) \in Nat
    BY <1>1, FS_Subset, FS_CardinalityType
  <1> QED BY <1>1, <1>2, <1>3

LEMMA DoesNotGrow ==
  ASSUME NEW S, IsFiniteSet(S), NEW T \in SUBSET S
  PROVE  Cardinality(T) <= Cardinality(S) /\ Cardinality(T) \in Nat
  BY FS_Subset, FS_CardinalityType

-----------------------------------------------------------------------------
(* How the operations of Slice change the handle. *)

LEMMA CurlOf ==
  ASSUME NEW s \in SliceRecord, NEW w, NEW n, NEW buffer, NEW speed, NEW r
  PROVE  /\ Started(s, buffer, speed, r).curl = "live"
         /\ StartFailed(s).curl = s.curl
         /\ FlushToDisk(s, w).curl = s.curl
         /\ Stopped(s, w).curl = "none"
         /\ OnNewData(s, n, w).curl \in {s.curl, "err"}
  BY DEF SliceRecord, Started, StartFailed, FlushToDisk, Stopped, OnNewData

LEMMA NewCurl ==
  ASSUME NEW begin, NEW end, NEW capacity
  PROVE  NewSlice(begin, end, capacity).curl = "none"
  BY DEF NewSlice

\* Replacing slice i touches no other slice's handle.
LEMMA OneReplaced ==
  ASSUME NEW i, NEW v, slices' = [slices EXCEPT ![i] = v]
  PROVE  /\ DOMAIN slices' = DOMAIN slices
         /\ \A j \in DOMAIN slices : j # i => slices'[j] = slices[j]
         /\ i \in DOMAIN slices => slices'[i] = v
  OBVIOUS

\* What StartSlice does to the open connections: at most i joins them, and it
\* joins them live.
LEMMA StartSliceOpens ==
  ASSUME slices \in Seq(SliceRecord), NEW i, NEW n, NEW code, StartSlice(i, n, code)
  PROVE  Done' \subseteq Done /\ Open' \subseteq Open \cup {i}
  <1>1. PICK v : slices' = [slices EXCEPT ![i] = v]
                 /\ (i \in DOMAIN slices => v.curl \in {"live", slices[i].curl})
    <2>1. CASE \E buffer, speed, r :
                 slices' = [slices EXCEPT ![i] = Started(slices[i], buffer, speed, r)]
      <3>1. PICK buffer, speed, r :
              slices' = [slices EXCEPT ![i] = Started(slices[i], buffer, speed, r)]
        BY <2>1
      <3>2. i \in DOMAIN slices => slices[i] \in SliceRecord
        OBVIOUS
      <3>3. i \in DOMAIN slices => Started(slices[i], buffer, speed, r).curl = "live"
        BY <3>2, CurlOf
      <3> QED BY <3>1, <3>3
    <2>2. CASE slices' = [slices EXCEPT ![i] = StartFailed(slices[i])]
      <3>1. i \in DOMAIN slices => StartFailed(slices[i]).curl = slices[i].curl
        BY CurlOf
      <3> QED BY <2>2, <3>1
    <2> QED BY <2>1, <2>2 DEF StartSlice
  <1>2. /\ DOMAIN slices' = DOMAIN slices
        /\ \A j \in DOMAIN slices : j # i => slices'[j] = slices[j]
        /\ i \in DOMAIN slices => slices'[i].curl \in {"live", slices[i].curl}
    BY <1>1, OneReplaced
  <1> QED BY <1>2 DEF Open, Live, Done

-----------------------------------------------------------------------------
(* What is common to the steps. *)

\* Away from the points where connections are opened and counted, it is
\* enough that none is opened.
LEMMA Quiet ==
  ASSUME TypeInv, ConnInv, Open' \subseteq Open,
         pc' \notin {"start", "update", "schedule"}
  PROVE  ConnInv'
  <1>1. slices \in Seq(SliceRecord) /\ ThreadNum \in Nat
    BY EntryHandlerAssumption DEF TypeInv, TypeOK
  <1>2. Cardinality(Open') <= Cardinality(Open) /\ Cardinality(Open') \in Nat
    <2>1. IsFiniteSet(Open)
      BY <1>1, OpenIsFinite
    <2> HIDE DEF Open
    <2> QED BY <2>1, DoesNotGrow
  <1>3. Cardinality(Open) <= ThreadNum /\ Cardinality(Open) \in Nat
    BY <1>1, OpenIsFinite DEF ConnInv, ConnectionLimit, Open
  <1>4. Cardinality(Open') <= ThreadNum
    BY <1>1, <1>2, <1>3
  <1>5. ConnectionLimit'
    BY <1>4 DEF ConnectionLimit, Open
  <1> QED BY <1>5 DEF ConnInv, NoneDoneAtStart, RunningIsCounted

LEMMA SlicesKept ==
  ASSUME UNCHANGED slices
  PROVE  Live' = Live /\ Done' = Done /\ Open' = Open
  BY DEF Live, Done, Open

\* One slice is replaced, and its handle is not made by it.
LEMMA NotOpened ==
  ASSUME NEW i, NEW v, slices' = [slices EXCEPT ![i] = v],
         i \in DOMAIN slices => v.curl = "none" \/ i \in Open
  PROVE  Open' \subseteq Open
  <1>1. /\ DOMAIN slices' = DOMAIN slices
        /\ \A j \in DOMAIN slices : j # i => slices'[j] = slices[j]
        /\ i \in DOMAIN slices => slices'[i] = v
    BY OneReplaced
  <1> QED BY <1>1 DEF Open, Live, Done

\* One slice is replaced, and its handle stays what it was.
LEMMA SameHandle ==
  ASSUME NEW i, NEW v, slices' = [slices EXCEPT ![i] = v],
         i \in DOMAIN slices => v.curl = slices[i].curl
  PROVE  Open' \subseteq Open
  <1>1. /\ DOMAIN slices' = DOMAIN slices
        /\ \A j \in DOMAIN slices : j # i => slices'[j] = slices[j]
        /\ i \in DOMAIN slices => slices'[i] = v
    BY OneReplaced
  <1> QED BY <1>1 DEF Open, Live, Done

-----------------------------------------------------------------------------
(* The steps that open connections, count them or take them out. *)

\* Slices that were just loaded or made hold no handle.
LEMMA NewSlicesAreIdle ==
  ASSUME \/ slices' = LoadedSlices(index)
         \/ slices' = MakeSlices(origin, AcceptRanges[src])
  PROVE  \A i \in DOMAIN slices' : slices'[i].curl = "none"
  <1>1. CASE slices' = LoadedSlices(index)
    BY <1>1, NewCurl DEF LoadedSlices
  <1>2. CASE slices' = MakeSlices(origin, AcceptRanges[src])
    <2>1. CASE ~AcceptRanges[src] \/ origin = -1
      <3>1. PICK e : slices' = <<NewSlice(0, e, 0)>>
        BY <1>2, <2>1 DEF MakeSlices
      <3>2. NewSlice(0, e, 0).curl = "none"
        BY NewCurl
      <3> QED BY <3>1, <3>2
    <2>2. CASE ~(~AcceptRanges[src] \/ origin = -1)
      <3> DEFINE new(i) ==
            NewSlice((i - 1) * SliceSize(origin),
                     IF i = SliceNum(origin) THEN origin - 1
                     ELSE i * SliceSize(origin) - 1, 0)
      <3>1. slices' = [i \in 1..SliceNum(origin) |-> new(i)]
        BY <1>2, <2>2 DEF MakeSlices
      <3>2. \A i : new(i).curl = "none"
        BY NewCurl
      <3> HIDE DEF new
      <3> QED BY <3>1, <3>2
    <2> QED BY <2>1, <2>2
  <1> QED BY <1>1, <1>2

LEMMA LoadOpens == TypeInv /\ ConnInv /\ Load => ConnInv'
  <1> SUFFICES ASSUME TypeInv, ConnInv, Load PROVE ConnInv'
    OBVIOUS
  <1>1. pc' \notin {"update", "schedule"}
    BY DEF Load, CreateFails, AfterLoad, Finish, Return
  <1>2. CASE \/ slices' = LoadedSlices(index)
             \/ slices' = MakeSlices(origin, AcceptRanges[src])
    <2>1. (Live \cup Done)' = {} /\ Done' = {}
      BY <1>2, NewSlicesAreIdle DEF Live, Done
    <2>2. Cardinality((Live \cup Done)') = 0
      BY <2>1, FS_EmptySet
    <2>3. ConnectionLimit'
      BY <2>2, EntryHandlerAssumption DEF ConnectionLimit
    <2> QED BY <1>1, <2>1, <2>3 DEF ConnInv, NoneDoneAtStart, RunningIsCounted
  <1>3. CASE CreateFails
    <2>1. pc' = "end" /\ UNCHANGED slices
      BY <1>3 DEF CreateFails, Return
    <2>2. ConnectionLimit'
      BY <2>1 DEF ConnInv, ConnectionLimit, Live, Done
    <2> QED BY <2>1, <2>2 DEF ConnInv, NoneDoneAtStart, RunningIsCounted
  <1> QED BY <1>2, <1>3 DEF Load

\* A connection is opened while fewer are open than there are threads.
LEMMA OpensOne ==
  ASSUME TypeInv, ConnInv, Done = {}, SlotFree(Cardinality(Live)),
         NEW i, NEW n, NEW code, StartSlice(i, n, code)
  PROVE  ConnectionLimit' /\ Done' = {}
  <1>1. slices \in Seq(SliceRecord) /\ ThreadNum \in Nat
    BY EntryHandlerAssumption DEF TypeInv, TypeOK
  <1>2. Done' = {} /\ Open' \in SUBSET (Open \cup {i})
    BY <1>1, StartSliceOpens
  <1>3. Open = Live
    BY DEF Open
  <1>4. IsFiniteSet(Open)
    BY <1>1, OpenIsFinite
  <1>5. Cardinality(Open') <= Cardinality(Open) + 1 /\ Cardinality(Open') \in Nat
    <2>1. IsFiniteSet(Open \cup {i})
      BY <1>4, FS_AddElement
    <2>2. IsFiniteSet(Open')
      <3> HIDE DEF Open
      <3> QED BY <1>2, <2>1, FS_Subset
    <2>3. Cardinality(Open') \in Nat
      BY <2>2, FS_CardinalityType
    <2> HIDE DEF Open
    <2> QED BY <1>2, <1>4, <2>3, GrowsByOne
  <1>6. Cardinality(Open) \in Nat
    BY <1>1, OpenIsFinite
  <1>7. Cardinality(Open) < ThreadNum
    BY <1>3 DEF SlotFree
  <1>8. Cardinality(Open') <= ThreadNum
    BY <1>1, <1>5, <1>6, <1>7
  <1> QED BY <1>2, <1>8 DEF ConnectionLimit, Open

LEMMA StartFirstOpens == TypeInv /\ ConnInv /\ StartFirst => ConnInv'
  <1> SUFFICES ASSUME TypeInv, ConnInv, StartFirst PROVE ConnInv'
    OBVIOUS
  <1>1. Done = {} /\ pc' \in {"start", "end", "perform0"}
    BY DEF StartFirst, Return, ConnInv, NoneDoneAtStart
  <1>2. CASE UNCHANGED slices
    BY <1>1, <1>2, SlicesKept
       DEF ConnInv, ConnectionLimit, NoneDoneAtStart, RunningIsCounted
  <1>3. CASE /\ SlotFree(Cardinality(Live))
             /\ \E i, n, code : StartSlice(i, n, code)
    <2>1. ConnectionLimit' /\ Done' = {}
      BY <1>1, <1>3, OpensOne
    <2> QED BY <1>1, <2>1 DEF ConnInv, NoneDoneAtStart, RunningIsCounted
  <1> QED BY <1>2, <1>3 DEF StartFirst

LEMMA PerformReturnOpens == TypeInv /\ ConnInv /\ PerformReturn => ConnInv'
  <1> SUFFICES ASSUME TypeInv, ConnInv, PerformReturn PROVE ConnInv'
    OBVIOUS
  <1>1. Live' = Live /\ Done' = Done /\ running' = Cardinality(Live)
    BY SlicesKept DEF PerformReturn
  <1>2. pc' \notin {"start", "schedule"} /\ (pc' = "update" => SlotFree(running'))
    BY DEF PerformReturn, LoopEnd, Finish
  <1> QED BY <1>1, <1>2 DEF ConnInv, ConnectionLimit, NoneDoneAtStart, RunningIsCounted

LEMMA UpdateOpens == TypeInv /\ ConnInv /\ UpdateSliceStatus => ConnInv'
  <1> SUFFICES ASSUME TypeInv, ConnInv, UpdateSliceStatus PROVE ConnInv'
    OBVIOUS
  <1>1. /\ slices \in Seq(SliceRecord) /\ ThreadNum \in Nat
        /\ running' = running /\ pc = "update"
        /\ running = Cardinality(Live) /\ SlotFree(running)
    BY EntryHandlerAssumption
       DEF UpdateSliceStatus, TypeInv, TypeOK, ConnInv, RunningIsCounted
  <1>2. CASE Done = {} /\ pc' = "schedule" /\ UNCHANGED <<slices, tmp>>
    BY <1>1, <1>2, SlicesKept
       DEF ConnInv, ConnectionLimit, NoneDoneAtStart, RunningIsCounted
  <1>3. CASE pc' = pc /\ \E i \in Done : \E s, w : slices' = [slices EXCEPT ![i] = Stopped(s, w)]
    <2>0. PICK i \in Done : \E s, w : slices' = [slices EXCEPT ![i] = Stopped(s, w)]
      BY <1>3
    <2>1. PICK s, w : slices' = [slices EXCEPT ![i] = Stopped(s, w)]
      BY <2>0
    <2>2. Stopped(s, w).curl = "none"
      BY DEF Stopped
    <2>3. PICK v : slices' = [slices EXCEPT ![i] = v] /\ v.curl = "none"
      BY <2>1, <2>2
    <2>4. /\ DOMAIN slices' = DOMAIN slices
          /\ \A j \in DOMAIN slices : j # i => slices'[j] = slices[j]
          /\ slices'[i] = v
      BY <2>3, OneReplaced DEF Done
    <2>5. Live' = Live /\ Done' \subseteq Done
      BY <2>3, <2>4 DEF Live, Done
    <2>6. Open' \subseteq Open
      BY <2>5 DEF Open
    <2>7. ConnectionLimit'
      <3>1. Cardinality(Open') <= Cardinality(Open) /\ Cardinality(Open') \in Nat
        <4>1. IsFiniteSet(Open)
          BY <1>1, OpenIsFinite
        <4> HIDE DEF Open
        <4> QED BY <2>6, <4>1, DoesNotGrow
      <3>2. Cardinality(Open) <= ThreadNum /\ Cardinality(Open) \in Nat
        BY <1>1, OpenIsFinite DEF ConnInv, ConnectionLimit, Open
      <3>3. Cardinality(Open') <= ThreadNum
        BY <1>1, <3>1, <3>2
      <3> QED BY <3>3 DEF ConnectionLimit, Open
    <2> QED BY <1>1, <1>3, <2>5, <2>7 DEF ConnInv, NoneDoneAtStart, RunningIsCounted
  <1> QED BY <1>2, <1>3 DEF UpdateSliceStatus

LEMMA ScheduleNextOpens == TypeInv /\ ConnInv /\ ScheduleNext => ConnInv'
  <1> SUFFICES ASSUME TypeInv, ConnInv, ScheduleNext PROVE ConnInv'
    OBVIOUS
  <1>1. Done = {} /\ SlotFree(Cardinality(Live))
    BY DEF ScheduleNext, ConnInv, RunningIsCounted
  <1>2. \E i, n, code : StartSlice(i, n, code)
    BY DEF ScheduleNext
  <1>3. ConnectionLimit'
    BY <1>1, <1>2, OpensOne
  <1>4. pc' \notin {"start", "update", "schedule"}
    BY DEF ScheduleNext, LoopEnd, Finish
  <1> QED BY <1>3, <1>4 DEF ConnInv, NoneDoneAtStart, RunningIsCounted

-----------------------------------------------------------------------------
(* The other steps. *)

LEMMA NetworkOpens ==
  ASSUME TypeInv, ConnInv, NEW i \in DOMAIN slices, Deliver(i) \/ TransferEnd(i)
  PROVE  ConnInv'
  <1>1. i \in Open
    BY DEF Deliver, TransferEnd, Open
  <1>2. \E v : slices' = [slices EXCEPT ![i] = v]
    BY DEF Deliver, TransferEnd
  <1>3. Open' \subseteq Open
    BY <1>1, <1>2, NotOpened
  <1>4. pc' \notin {"start", "update", "schedule"}
    BY DEF Deliver, TransferEnd
  <1> QED BY <1>3, <1>4, Quiet

LEMMA FlushSliceOpens == TypeInv /\ ConnInv /\ FlushSlice => ConnInv'
  <1> SUFFICES ASSUME TypeInv, ConnInv, FlushSlice PROVE ConnInv'
    OBVIOUS
  <1>1. Open' \subseteq Open
    <2>1. CASE \E w : slices' = [slices EXCEPT ![cur] = FlushToDisk(slices[cur], w)]
      <3>1. PICK w : slices' = [slices EXCEPT ![cur] = FlushToDisk(slices[cur], w)]
        BY <2>1
      <3>2. cur \in DOMAIN slices => slices[cur] \in SliceRecord
        BY DEF TypeInv, TypeOK
      <3>3. cur \in DOMAIN slices
              => FlushToDisk(slices[cur], w).curl = slices[cur].curl
        BY <3>2, CurlOf
      <3> QED BY <3>1, <3>3, SameHandle
    <2>2. CASE UNCHANGED slices
      BY <2>2, SlicesKept
    <2> QED BY <2>1, <2>2 DEF FlushSlice
  <1>2. pc' \notin {"start", "update", "schedule"}
    BY DEF FlushSlice
  <1> QED BY <1>1, <1>2, Quiet

LEMMA ScheduleNoneOpens == TypeInv /\ ConnInv /\ ScheduleNone => ConnInv'
  <1> SUFFICES ASSUME TypeInv, ConnInv, ScheduleNone PROVE ConnInv'
    OBVIOUS
  <1>1. Open' \subseteq Open
    <2>1. CASE UNCHANGED slices
      BY <2>1, SlicesKept
    <2>2. CASE \E i, st : slices' = [slices EXCEPT ![i].status = st]
      <3>1. PICK i, st : slices' = [slices EXCEPT ![i].status = st]
        BY <2>2
      <3> DEFINE v == [slices[i] EXCEPT !.status = st]
      <3>2. slices' = [slices EXCEPT ![i] = v]
        BY <3>1
      <3>3. i \in DOMAIN slices => v.curl = slices[i].curl
        <4>1. i \in DOMAIN slices => slices[i] \in SliceRecord
          BY DEF TypeInv, TypeOK
        <4> QED BY <4>1 DEF SliceRecord
      <3> HIDE DEF v
      <3> QED BY <3>2, <3>3, SameHandle
    <2> QED BY <2>1, <2>2 DEF ScheduleNone
  <1>2. pc' \notin {"start", "update", "schedule"}
    BY DEF ScheduleNone, LoopEnd, Finish
  <1> QED BY <1>1, <1>2, Quiet

LEMMA StopSliceOpens == TypeInv /\ ConnInv /\ StopSlice => ConnInv'
  <1> SUFFICES ASSUME TypeInv, ConnInv, StopSlice PROVE ConnInv'
    OBVIOUS
  <1>1. Open' \subseteq Open
    <2>1. CASE \E w : slices' = [slices EXCEPT ![cur] = Stopped(slices[cur], w)]
      <3>1. PICK w : slices' = [slices EXCEPT ![cur] = Stopped(slices[cur], w)]
        BY <2>1
      <3>2. Stopped(slices[cur], w).curl = "none"
        BY DEF Stopped
      <3> QED BY <3>1, <3>2, NotOpened
    <2>2. CASE UNCHANGED slices
      BY <2>2, SlicesKept
    <2> QED BY <2>1, <2>2 DEF StopSlice
  <1>2. pc' \notin {"start", "update", "schedule"}
    BY DEF StopSlice
  <1> QED BY <1>1, <1>2, Quiet

\* Memory is given up, and with it every slice.
LEMMA ForgetOpens == TypeInv /\ ConnInv /\ (Crash \/ Cleanup) => ConnInv'
  <1> SUFFICES ASSUME TypeInv, ConnInv, Crash \/ Cleanup PROVE ConnInv'
    OBVIOUS
  <1>1. slices' = <<>> /\ pc' = "idle"
    BY DEF Crash, Cleanup
  <1>2. Open' \subseteq Open
    BY <1>1 DEF Open, Live, Done
  <1> QED BY <1>1, <1>2, Quiet

\* The steps of the worker that leave the slices alone and lead to no step that starts or settles one.
LEMMA ElsewhereOpens ==
  ASSUME TypeInv, ConnInv,
         \/ Start \/ Launch \/ Fetch \/ LoopTop \/ OpenIndex \/ WriteIndex
         \/ CheckCompleted \/ VerifyHash \/ RenameTmp \/ RemoveIndex
  PROVE  ConnInv'
  <1>1. UNCHANGED slices
    BY DEF Start, Launch, Fetch, LoopTop, OpenIndex, WriteIndex, CheckCompleted,
           VerifyHash, RenameTmp, RemoveIndex, memory
  <1>2. pc' \notin {"start", "update", "schedule"}
    BY DEF Start, Launch, Fetch, LoopTop, OpenIndex, WriteIndex, CheckCompleted,
           VerifyHash, RenameTmp, RemoveIndex, Fail, Return, Finish
  <1>3. Open' \subseteq Open
    BY <1>1, SlicesKept
  <1> QED BY <1>2, <1>3, Quiet

\* Where the worker is and what it counted is not touched at all.
LEMMA UntouchedOpens ==
  ASSUME ConnInv, UNCHANGED <<pc, slices, running>>
  PROVE  ConnInv'
  BY SlicesKept DEF ConnInv, ConnectionLimit, NoneDoneAtStart, RunningIsCounted

LEMMA NextOpens == TypeInv /\ ConnInv /\ [Next]_vars => ConnInv'
  <1> SUFFICES ASSUME TypeInv, ConnInv, [Next]_vars PROVE ConnInv'
    OBVIOUS
  <1>1. CASE Worker
    BY <1>1, ElsewhereOpens, LoadOpens, StartFirstOpens, PerformReturnOpens,
       FlushSliceOpens, UpdateOpens, ScheduleNoneOpens, ScheduleNextOpens,
       StopSliceOpens, ForgetOpens
       DEF Worker
  <1>2. CASE Network
    BY <1>2, NetworkOpens DEF Network
  <1>3. CASE User
    <2>1. CASE Start
      BY <2>1, ElsewhereOpens
    <2>2. CASE Stop \/ SetUserEvent \/ PauseResume
      <3>1. UNCHANGED <<pc, slices, running>>
        BY <2>2 DEF Stop, SetUserEvent, PauseResume, memory
      <3> QED BY <3>1, UntouchedOpens
    <2> QED BY <1>3, <2>1, <2>2 DEF User
  <1>4. CASE Crash
    BY <1>4, ForgetOpens
  <1>5. CASE Rest \/ UNCHANGED vars
    <2>1. UNCHANGED <<pc, slices, running>>
      BY <1>5 DEF Rest, vars, memory
    <2> QED BY <2>1, UntouchedOpens
  <1> QED BY <1>1, <1>2, <1>3, <1>4, <1>5 DEF Next

LEMMA InitOpens == Init => ConnInv
  <1> SUFFICES ASSUME Init PROVE ConnInv
    OBVIOUS
  <1>1. Live \cup Done = {}
    BY DEF Init, Live, Done
  <1>2. Cardinality(Live \cup Done) = 0
    BY <1>1, FS_EmptySet
  <1>3. ConnectionLimit
    BY <1>2, EntryHandlerAssumption DEF ConnectionLimit
  <1>4. pc = "idle"
    BY DEF Init
  <1> QED BY <1>3, <1>4 DEF ConnInv, NoneDoneAtStart, RunningIsCounted

(* However many slices there are, whatever servers answer and wherever the   *)
(* user steps in, no more connections are open than the user allowed         *)
(* threads: the tests of still_running against thread_num count right.       *)
THEOREM ConnectionsLimited == Spec => []ConnectionLimit
  <1>1. Init => TypeInv /\ ConnInv
    BY InitType, InitOpens
  <1>2. TypeInv /\ ConnInv /\ [Next]_vars => TypeInv' /\ ConnInv'
    BY NextType, NextOpens
  <1>3. TypeInv /\ ConnInv => ConnectionLimit
    BY DEF ConnInv
  <1> QED BY <1>1, <1>2, <1>3, PTL DEF Spec

-----------------------------------------------------------------------------
(* Every handle is closed before the slices are destroyed.                   *)

BeforeStart == {"idle", "launched", "fetch", "load"}
AfterStop == {"finish_open", "finish_write", "check", "hash", "rename",
              "remove_index", "end"}

\* Handles are open between the start of the first and the stopping of all,
\* which closes them one after the other.
HandleInv ==
  /\ pc \in BeforeStart \cup AfterStop => Open = {}
  /\ pc = "stopping" => \A i \in Open : cur <= i

\* The slices stay and no new part of the code is reached.
LEMMA HandlesKept ==
  ASSUME HandleInv, UNCHANGED slices,
         \/ UNCHANGED <<pc, cur>>
         \/ pc \in BeforeStart \cup AfterStop /\ pc' \in BeforeStart \cup AfterStop
  PROVE  HandleInv'
  BY SlicesKept DEF HandleInv, BeforeStart, AfterStop

\* The worker stays where handles may be open, or begins to stop the slices.
LEMMA StoppingBegins ==
  ASSUME TypeInv', pc' \notin BeforeStart \cup AfterStop, pc' = "stopping" => cur' = 1
  PROVE  HandleInv'
  <1>1. slices' \in Seq(SliceRecord)
    BY DEF TypeInv, TypeOK
  <1>2. \A i \in Open' : i \in Nat \ {0}
    BY <1>1 DEF Open, Live, Done
  <1> QED BY <1>2 DEF HandleInv

LEMMA LoadCloses ==
  ASSUME TypeInv', HandleInv, Load
  PROVE  HandleInv'
  <1>1. CASE \/ slices' = LoadedSlices(index)
             \/ slices' = MakeSlices(origin, AcceptRanges[src])
    <2>1. Open' = {}
      BY <1>1, NewSlicesAreIdle DEF Open, Live, Done
    <2> QED BY <2>1 DEF HandleInv
  <1>2. CASE CreateFails
    <2>1. UNCHANGED slices /\ pc' = "end" /\ pc = "load"
      BY <1>2 DEF CreateFails, Return, Load
    <2> QED BY <2>1, HandlesKept DEF BeforeStart, AfterStop
  <1> QED BY <1>1, <1>2 DEF Load

\* The worker gives up at the start only when it has opened nothing: with no
\* libcurl object failing, a slice that is started has its connection.
LEMMA StartFirstCloses ==
  ASSUME "curl" \notin Faults, TypeInv', ConnInv, StartFirst
  PROVE  HandleInv'
  <1>1. CASE pc' = "end"
    <2>1. Live = {} /\ UNCHANGED slices
      BY <1>1 DEF StartFirst, StartSlice, Return
    <2>2. Done = {}
      BY DEF StartFirst, ConnInv, NoneDoneAtStart
    <2>3. Open' = {}
      BY <2>1, <2>2, SlicesKept DEF Open
    <2> QED BY <2>3 DEF HandleInv
  <1>2. CASE pc' # "end"
    <2>1. pc' \in {"start", "perform0"}
      BY <1>2 DEF StartFirst, Return
    <2> QED BY <2>1, StoppingBegins DEF BeforeStart, AfterStop
  <1> QED BY <1>1, <1>2

LEMMA StopSliceCloses ==
  ASSUME TypeInv, HandleInv, StopSlice
  PROVE  HandleInv'
  <1>1. /\ slices \in Seq(SliceRecord) /\ cur \in Nat \ {0}
        /\ \A i \in Open : i \in DOMAIN slices /\ i \in Nat /\ cur <= i
    BY DEF TypeInv, TypeOK, HandleInv, StopSlice, Open, Live, Done
  <1>2. CASE cur \in DOMAIN slices /\ cur' = cur + 1 /\ pc' = pc
             /\ \E w : slices' = [slices EXCEPT ![cur] = Stopped(slices[cur], w)]
    <2>1. PICK w : slices' = [slices EXCEPT ![cur] = Stopped(slices[cur], w)]
      BY <1>2
    <2>2. Stopped(slices[cur], w).curl = "none"
      BY DEF Stopped
    <2>3. /\ DOMAIN slices' = DOMAIN slices
          /\ \A j \in DOMAIN slices : j # cur => slices'[j] = slices[j]
          /\ slices'[cur].curl = "none"
      BY <1>2, <2>1, <2>2, OneReplaced
    <2>4. Open' \subseteq Open \ {cur}
      BY <2>3 DEF Open, Live, Done
    <2>5. \A i \in Open' : cur' <= i
      <3> HIDE DEF Open
      <3> QED BY <1>1, <1>2, <2>4
    <2>6. pc' = "stopping"
      BY <1>2 DEF StopSlice
    <2> QED BY <2>5, <2>6 DEF HandleInv, BeforeStart, AfterStop
  <1>3. CASE cur \notin DOMAIN slices /\ UNCHANGED slices /\ pc' = "finish_open"
    <2>1. DOMAIN slices = 1..Len(slices) /\ Len(slices) \in Nat
      BY <1>1
    <2>2. Open = {}
      BY <1>1, <1>3, <2>1
    <2> QED BY <1>3, <2>2, SlicesKept DEF HandleInv
  <1> QED BY <1>2, <1>3 DEF StopSlice

LEMMA NextCloses ==
  ASSUME "curl" \notin Faults, TypeInv, TypeInv', ConnInv, HandleInv, [Next]_vars
  PROVE  HandleInv'
  <1>1. CASE Launch \/ Fetch \/ CheckCompleted \/ VerifyHash \/ RenameTmp \/ RemoveIndex
    <2>1. UNCHANGED slices
      BY <1>1 DEF Launch, Fetch, CheckCompleted, VerifyHash, RenameTmp, RemoveIndex, memory
    <2>2. /\ pc \in BeforeStart \cup AfterStop
          /\ pc' \in BeforeStart \cup AfterStop
      BY <1>1 DEF Launch, Fetch, CheckCompleted, VerifyHash, RenameTmp, RemoveIndex,
                  Fail, Return, BeforeStart, AfterStop
    <2> QED BY <2>1, <2>2, HandlesKept
  <1>2. CASE OpenIndex \/ WriteIndex
    <2>1. UNCHANGED slices
      BY <1>2 DEF OpenIndex, WriteIndex, memory
    <2>2. CASE pc \in {"finish_open", "finish_write"}
      <3>1. pc' \in {"finish_write", "check"}
        BY <1>2, <2>2 DEF OpenIndex, WriteIndex
      <3> QED BY <2>1, <2>2, <3>1, HandlesKept DEF AfterStop
    <2>3. CASE pc \notin {"finish_open", "finish_write"}
      <3>1. pc' \in {"flush_write", "perform"}
        BY <1>2, <2>3 DEF OpenIndex, WriteIndex
      <3> QED BY <3>1, StoppingBegins DEF BeforeStart, AfterStop
    <2> QED BY <2>2, <2>3
  <1>3. CASE PerformReturn \/ LoopTop \/ FlushSlice \/ UpdateSliceStatus
             \/ ScheduleNone \/ ScheduleNext
    <2>1. /\ pc' \notin BeforeStart \cup AfterStop
          /\ pc' = "stopping" => cur' = 1
      BY <1>3 DEF PerformReturn, LoopTop, FlushSlice, UpdateSliceStatus, ScheduleNone,
                  ScheduleNext, LoopEnd, Finish, BeforeStart, AfterStop
    <2> QED BY <2>1, StoppingBegins
  <1>4. CASE Cleanup \/ Crash
    <2>1. slices' = <<>>
      BY <1>4 DEF Cleanup, Crash
    <2>2. Open' = {}
      BY <2>1 DEF Open, Live, Done
    <2> QED BY <2>2 DEF HandleInv
  <1>5. CASE Network
    <2>1. pc' \in {"perform0", "perform", "performNew"}
      BY <1>5 DEF Network, Deliver, TransferEnd
    <2> QED BY <2>1, StoppingBegins DEF BeforeStart, AfterStop
  <1>6. CASE Start
    <2>1. UNCHANGED slices /\ pc = "idle" /\ pc' = "launched"
      BY <1>6 DEF Start
    <2> QED BY <2>1, HandlesKept DEF BeforeStart
  <1>7. CASE Stop \/ SetUserEvent \/ PauseResume \/ Rest \/ UNCHANGED vars
    <2>1. UNCHANGED <<pc, slices, cur>>
      BY <1>7 DEF Stop, SetUserEvent, PauseResume, Rest, vars, memory
    <2> QED BY <2>1, HandlesKept
  <1> QED BY <1>1, <1>2, <1>3, <1>4, <1>5, <1>6, <1>7, LoadCloses, StartFirstCloses,
             StopSliceCloses
          DEF Next, Worker, User

LEMMA InitCloses == Init => HandleInv
  BY DEF Init, HandleInv, Open, Live, Done

(* With libcurl objects that can always be made, no slice holds an easy      *)
(* handle when it is destroyed (the assertion of ~Slice), on whatever way    *)
(* the session ends: one that fails while the first connections are opened   *)
(* is the only one that leaks.                                               *)
THEOREM HandlesClosed == "curl" \notin Faults => (Spec => []NoHandleLeak)
  <1> SUFFICES ASSUME "curl" \notin Faults PROVE Spec => []NoHandleLeak
    OBVIOUS
  <1>1. Init => TypeInv /\ ConnInv /\ HandleInv
    BY InitType, InitOpens, InitCloses
  <1>2. TypeInv /\ ConnInv /\ HandleInv /\ [Next]_vars
          => TypeInv' /\ ConnInv' /\ HandleInv'
    BY NextType, NextOpens, NextCloses
  <1>3. HandleInv => NoHandleLeak
    BY DEF HandleInv, NoHandleLeak, AfterStop, Open
  <1> QED BY <1>1, <1>2, <1>3, PTL DEF Spec
=============================================================================
