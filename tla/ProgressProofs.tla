--------------------------- MODULE ProgressProofs ---------------------------
(* What progress is reported never runs ahead of the download, for any       *)
(* number of slices, caches and bytes: of the counters of a slice the one    *)
(* that bytes move to is loaded before the one that they move from.  And all *)
(* the speeds ever reported add up to no more than the bytes that came.      *)
EXTENDS Progress, Sums

-----------------------------------------------------------------------------
(* The inductive invariant. *)

\* Bytes of slice i that are in neither counter for now.
Moving(i) == IF worker.slice = i THEN worker.held + worker.chunk ELSE 0

CountersBounded == \A i \in Slices : disk[i] + cache[i] + Moving(i) <= received[i]

(* What was on disk a moment ago, and what is not there yet: had the bytes   *)
(* on their way been there already, their place in the cache would be free.  *)
LoadsBounded ==
  \A r \in Reporters :
    LET i == reader[r].slice IN
    reader[r].at = "second" => reader[r].first + cache[i] + Moving(i) <= received[i]

\* A free worker holds nothing.
WorkerSound ==
  /\ worker.at \in {"free", "discard"} => worker.held = 0 /\ worker.chunk = 0
  /\ worker.at = "rest" => worker.held = 0

\* TypeOK without the totals, whose types rest on a sum.
ReaderRecord == [at : {"wait", "first", "second", "total"}, slice : Slices,
                 first : Nat, part : [Slices -> Nat]]
Typed ==
  /\ disk \in [Slices -> Nat] /\ cache \in [Slices -> Nat]
  /\ received \in [Slices -> Nat] /\ over \in [Slices -> BOOLEAN]
  /\ worker \in [at : {"free", "flush", "rest", "discard"}, slice : Slices,
                 held : Nat, chunk : Nat]
  /\ reader \in [Reporters -> ReaderRecord]

ProgressInv ==
  Typed /\ WorkerSound /\ CountersBounded /\ LoadsBounded /\ NeverOvershoots

-----------------------------------------------------------------------------
LEMMA FirstSlice == 1 \in Slices
  BY ProgressAssumption DEF Slices

(* Types, whichever counter is loaded first. *)

LEMMA ReceiveType ==
  ASSUME Typed, WorkerSound, NEW i \in Slices, NEW n \in 1..MaxChunk, Receive(i, n)
  PROVE  Typed' /\ WorkerSound'
<1>1. n \in Nat /\ CacheSize[i] \in Nat /\ n > 0
  BY ProgressAssumption
<1>. QED  BY <1>1 DEF Typed, WorkerSound, Receive, Free

LEMMA FlushType ==
  ASSUME Typed, WorkerSound, NEW i \in Slices, Flush(i)
  PROVE  Typed' /\ WorkerSound'
  BY DEF Typed, WorkerSound, Flush, Free

LEMMA WriteType ==
  ASSUME Typed, WorkerSound, NEW w \in 0..worker.held, Write(w)
  PROVE  Typed' /\ WorkerSound'
<1>1. worker.held \in Nat /\ worker.chunk \in Nat /\ w \in Nat
  BY DEF Typed
<1>2. disk' \in [Slices -> Nat] /\ UNCHANGED <<cache, received, over, reader>>
  BY <1>1 DEF Typed, Write
<1>3. CASE worker' = Free
  BY <1>2, <1>3, FirstSlice DEF Typed, WorkerSound, Free
<1>4. CASE worker' = [worker EXCEPT !.at = "rest", !.held = 0]
  BY <1>2, <1>4 DEF Typed, WorkerSound
<1>. QED  BY <1>3, <1>4 DEF Write

LEMMA WriteRestType ==
  ASSUME Typed, WorkerSound, NEW w \in 0..worker.chunk, WriteRest(w)
  PROVE  Typed' /\ WorkerSound'
<1>1. worker.chunk \in Nat /\ w \in Nat /\ worker.slice \in Slices
  BY DEF Typed
<1>. QED  BY <1>1, FirstSlice DEF Typed, WorkerSound, WriteRest, Free

LEMMA DiscardType ==
  ASSUME Typed, WorkerSound, NEW i \in Slices, Discard(i) \/ Discarded
  PROVE  Typed' /\ WorkerSound'
<1>1. CASE Discard(i)
  BY <1>1 DEF Typed, WorkerSound, Discard
<1>2. CASE Discarded
  BY <1>2, FirstSlice DEF Typed, WorkerSound, Discarded, Free
<1>. QED  BY <1>1, <1>2

\* What the two loads leave of a reporter.
LEMMA LoadType ==
  ASSUME Typed, WorkerSound, NEW r \in Reporters, LoadFirst(r) \/ LoadSecond(r)
  PROVE  Typed' /\ WorkerSound'
<1>. DEFINE i == reader[r].slice
<1>0. /\ i \in Slices /\ reader[r].first \in Nat /\ reader[r] \in ReaderRecord
      /\ disk[i] \in Nat /\ cache[i] \in Nat /\ UNCHANGED counters
  BY DEF Typed, ReaderRecord, LoadFirst, LoadSecond
<1>1. CASE LoadFirst(r)
  <2>1. reader'[r] \in ReaderRecord /\ reader' = [reader EXCEPT ![r] = reader'[r]]
    BY <1>0, <1>1 DEF LoadFirst, Typed, ReaderRecord
  <2>2. reader' \in [Reporters -> ReaderRecord]
    BY <2>1 DEF Typed
  <2>. QED  BY <1>0, <2>2 DEF Typed, WorkerSound, counters
<1>2. CASE LoadSecond(r)
  <2>1. i + 1 \in Slices \/ i = SliceNum
    BY <1>0, ProgressAssumption DEF Slices
  <2>2. reader'[r] \in ReaderRecord /\ reader' = [reader EXCEPT ![r] = reader'[r]]
    <3>1. CASE i = SliceNum
      BY <1>0, <1>2, <3>1, FirstSlice DEF LoadSecond, Typed, ReaderRecord
    <3>2. CASE i # SliceNum
      BY <1>0, <1>2, <2>1, <3>2 DEF LoadSecond, Typed, ReaderRecord
    <3>. QED  BY <3>1, <3>2
  <2>3. reader' \in [Reporters -> ReaderRecord]
    BY <2>2 DEF Typed
  <2>. QED  BY <1>0, <2>3 DEF Typed, WorkerSound, counters
<1>. QED  BY <1>1, <1>2

\* A reporter begins a total, or has reported it.
LEMMA ReportStep ==
  ASSUME Typed, (\E r \in Reporters : Begin(r)) \/ ReportProgress \/ ReportSpeed
  PROVE  /\ UNCHANGED counters
         /\ \E r \in Reporters :
              \/ reader' = [reader EXCEPT ![r] = [Waiting EXCEPT !.at = "first"]]
              \/ reader' = [reader EXCEPT ![r] = [@ EXCEPT !.at = "wait"]]
  BY DEF Begin, ReportProgress, ReportSpeed, Reporters, Typed

LEMMA WaitingType == Waiting \in ReaderRecord /\ \A i \in Slices : Waiting.part[i] = 0
  BY FirstSlice DEF Waiting, ReaderRecord

LEMMA ReportType ==
  ASSUME Typed, WorkerSound,
         (\E r \in Reporters : Begin(r)) \/ ReportProgress \/ ReportSpeed
  PROVE  Typed' /\ WorkerSound'
<1>1. PICK r \in Reporters :
        \/ reader' = [reader EXCEPT ![r] = [Waiting EXCEPT !.at = "first"]]
        \/ reader' = [reader EXCEPT ![r] = [@ EXCEPT !.at = "wait"]]
  BY ReportStep
<1>2. [Waiting EXCEPT !.at = "first"] \in ReaderRecord
  BY WaitingType DEF ReaderRecord
<1>3. reader[r] \in ReaderRecord  BY DEF Typed
<1>4. [reader[r] EXCEPT !.at = "wait"] \in ReaderRecord
  BY <1>3 DEF ReaderRecord
<1>5. reader' \in [Reporters -> ReaderRecord]
  BY <1>1, <1>2, <1>4 DEF Typed
<1>. QED  BY <1>5, ReportStep DEF Typed, WorkerSound, counters

LEMMA StepType ==
  ASSUME Typed, WorkerSound, [Next]_vars
  PROVE  Typed' /\ WorkerSound'
<1>1. CASE Worker
  BY <1>1, ReceiveType, FlushType, WriteType, WriteRestType, DiscardType, FirstSlice
     DEF Worker
<1>2. CASE Reporter
  BY <1>2, LoadType, ReportType DEF Reporter
<1>3. CASE UNCHANGED vars
  BY <1>3 DEF Typed, WorkerSound, vars, counters
<1>. QED  BY <1>1, <1>2, <1>3 DEF Next

-----------------------------------------------------------------------------
(* The bounds. *)

LEMMA InitInv == Init => ProgressInv
<1>. SUFFICES ASSUME Init PROVE ProgressInv  OBVIOUS
<1>1. /\ disk \in [Slices -> Nat] /\ received = disk
      /\ cache = [i \in Slices |-> 0] /\ over = [i \in Slices |-> FALSE]
      /\ worker = [at |-> "free", slice |-> 1, held |-> 0, chunk |-> 0]
      /\ reader = [r \in Reporters |->
                     [at |-> "wait", slice |-> 1, first |-> 0, part |-> [i \in Slices |-> 0]]]
  BY ProgressAssumption DEF Init, Free, Waiting
<1>2. Typed  BY <1>1, FirstSlice DEF Typed, ReaderRecord
<1>3. WorkerSound /\ CountersBounded /\ LoadsBounded /\ NeverOvershoots
  BY <1>1, FirstSlice DEF WorkerSound, CountersBounded, LoadsBounded, NeverOvershoots, Moving
<1>. QED  BY <1>2, <1>3 DEF ProgressInv

(* The worker never makes the bytes of a slice more than were received, and  *)
(* never puts into the cache what was not on its way there.                  *)
LEMMA WorkerStep ==
  ASSUME ProgressInv, UNCHANGED reader, Typed', WorkerSound',
         \A i \in Slices :
           /\ received[i] <= received'[i]
           /\ disk'[i] + cache'[i] + Moving(i)' - received'[i]
                <= disk[i] + cache[i] + Moving(i) - received[i]
           /\ cache'[i] + Moving(i)' - received'[i] <= cache[i] + Moving(i) - received[i]
  PROVE  ProgressInv'
<1>1. \A i \in Slices :
        /\ disk[i] \in Nat /\ cache[i] \in Nat /\ Moving(i) \in Nat /\ received[i] \in Nat
        /\ disk'[i] \in Nat /\ cache'[i] \in Nat /\ Moving(i)' \in Nat /\ received'[i] \in Nat
  BY DEF ProgressInv, Typed, Moving
<1>2. CountersBounded'
  BY <1>1 DEF ProgressInv, CountersBounded
<1>3. LoadsBounded'
  <2>. SUFFICES ASSUME NEW r \in Reporters, reader[r].at = "second"
                PROVE  LET i == reader[r].slice
                       IN  reader[r].first + cache'[i] + Moving(i)' <= received'[i]
    BY DEF LoadsBounded
  <2>1. reader[r].slice \in Slices /\ reader[r].first \in Nat
    BY DEF ProgressInv, Typed, ReaderRecord
  <2>. QED  BY <1>1, <2>1 DEF ProgressInv, LoadsBounded
<1>4. NeverOvershoots'
  <2>. SUFFICES ASSUME NEW r \in Reporters, NEW i \in Slices
                PROVE  reader[r].part[i] <= received'[i]
    BY DEF NeverOvershoots
  <2>1. reader[r].part[i] \in Nat  BY DEF ProgressInv, Typed, ReaderRecord
  <2>. QED  BY <1>1, <2>1 DEF ProgressInv, NeverOvershoots
<1>. QED  BY <1>2, <1>3, <1>4 DEF ProgressInv

LEMMA ReceiveInv ==
  ASSUME ProgressInv, NEW i \in Slices, NEW n \in 1..MaxChunk, Receive(i, n)
  PROVE  ProgressInv'
<1>0. n \in Nat /\ CacheSize[i] \in Nat /\ n > 0
  BY ProgressAssumption
<1>1. Typed' /\ WorkerSound'
  BY ReceiveType DEF ProgressInv
<1>2. ASSUME NEW j \in Slices
      PROVE  /\ received[j] <= received'[j]
             /\ disk'[j] + cache'[j] + Moving(j)' - received'[j]
                  <= disk[j] + cache[j] + Moving(j) - received[j]
             /\ cache'[j] + Moving(j)' - received'[j] <= cache[j] + Moving(j) - received[j]
  BY <1>0 DEF ProgressInv, Typed, Receive, Free, Moving
<1>. QED  BY <1>1, <1>2, WorkerStep DEF Receive

LEMMA FlushInv ==
  ASSUME ProgressInv, NEW i \in Slices, Flush(i)
  PROVE  ProgressInv'
<1>1. Typed' /\ WorkerSound'
  BY FlushType DEF ProgressInv
<1>2. ASSUME NEW j \in Slices
      PROVE  /\ received[j] <= received'[j]
             /\ disk'[j] + cache'[j] + Moving(j)' - received'[j]
                  <= disk[j] + cache[j] + Moving(j) - received[j]
             /\ cache'[j] + Moving(j)' - received'[j] <= cache[j] + Moving(j) - received[j]
  BY DEF ProgressInv, Typed, Flush, Free, Moving
<1>. QED  BY <1>1, <1>2, WorkerStep DEF Flush

LEMMA WriteInv ==
  ASSUME ProgressInv, NEW w \in 0..worker.held, Write(w)
  PROVE  ProgressInv'
<1>0. worker.held \in Nat /\ worker.chunk \in Nat /\ w \in Nat /\ w <= worker.held
  BY DEF ProgressInv, Typed
<1>1. Typed' /\ WorkerSound'
  BY WriteType DEF ProgressInv
<1>2. ASSUME NEW j \in Slices
      PROVE  /\ received[j] <= received'[j]
             /\ disk'[j] + cache'[j] + Moving(j)' - received'[j]
                  <= disk[j] + cache[j] + Moving(j) - received[j]
             /\ cache'[j] + Moving(j)' - received'[j] <= cache[j] + Moving(j) - received[j]
  BY <1>0 DEF ProgressInv, Typed, Write, Free, Moving
<1>. QED  BY <1>1, <1>2, WorkerStep DEF Write

LEMMA WriteRestInv ==
  ASSUME ProgressInv, NEW w \in 0..worker.chunk, WriteRest(w)
  PROVE  ProgressInv'
<1>0. /\ worker.held = 0 /\ worker.chunk \in Nat /\ w \in Nat /\ w <= worker.chunk
      /\ worker.slice \in Slices
  BY DEF ProgressInv, Typed, WorkerSound, WriteRest
<1>1. Typed' /\ WorkerSound'
  BY WriteRestType DEF ProgressInv
<1>2. ASSUME NEW j \in Slices
      PROVE  /\ received[j] <= received'[j]
             /\ disk'[j] + cache'[j] + Moving(j)' - received'[j]
                  <= disk[j] + cache[j] + Moving(j) - received[j]
             /\ cache'[j] + Moving(j)' - received'[j] <= cache[j] + Moving(j) - received[j]
  BY <1>0 DEF ProgressInv, Typed, WriteRest, Free, Moving
<1>. QED  BY <1>1, <1>2, WorkerStep DEF WriteRest

LEMMA DiscardInv ==
  ASSUME ProgressInv, NEW i \in Slices, Discard(i) \/ Discarded
  PROVE  ProgressInv'
<1>1. Typed' /\ WorkerSound'
  BY DiscardType DEF ProgressInv
<1>2. ASSUME NEW j \in Slices
      PROVE  /\ received[j] <= received'[j]
             /\ disk'[j] + cache'[j] + Moving(j)' - received'[j]
                  <= disk[j] + cache[j] + Moving(j) - received[j]
             /\ cache'[j] + Moving(j)' - received'[j] <= cache[j] + Moving(j) - received[j]
  BY DEF ProgressInv, Typed, WorkerSound, Discard, Discarded, Free, Moving
<1>. QED  BY <1>1, <1>2, WorkerStep DEF Discard, Discarded

LEMMA LoadInv ==
  ASSUME DiskFirst, ProgressInv, NEW r \in Reporters, LoadFirst(r) \/ LoadSecond(r)
  PROVE  ProgressInv'
<1>. DEFINE i == reader[r].slice
<1>0. /\ i \in Slices /\ reader[r].first \in Nat
      /\ disk[i] \in Nat /\ cache[i] \in Nat /\ Moving(i) \in Nat /\ received[i] \in Nat
  BY DEF ProgressInv, Typed, ReaderRecord, Moving
<1>1. Typed' /\ WorkerSound' /\ UNCHANGED counters
  BY LoadType DEF ProgressInv, LoadFirst, LoadSecond
<1>2. CASE LoadFirst(r)
  <2>1. reader' = [reader EXCEPT ![r] = [@ EXCEPT !.at = "second", !.first = disk[i]]]
    BY <1>2 DEF LoadFirst, ProgressInv, Typed
  <2>2. LoadsBounded' /\ NeverOvershoots'
    BY <1>0, <1>1, <1>2, <2>1 DEF ProgressInv, Typed, ReaderRecord, LoadsBounded,
       CountersBounded, NeverOvershoots, Moving, LoadFirst, counters
  <2>. QED  BY <1>1, <2>2 DEF ProgressInv, CountersBounded, Moving, counters
<1>3. CASE LoadSecond(r)
  <2>1. /\ reader' = [reader EXCEPT ![r] = reader'[r]]
        /\ reader'[r].at \in {"first", "total"}
        /\ reader'[r].part = [reader[r].part EXCEPT ![i] = reader[r].first + cache[i]]
    BY <1>3 DEF LoadSecond, ProgressInv, Typed, ReaderRecord
  <2>2. reader[r].first + cache[i] <= received[i]
    BY <1>0, <1>3 DEF LoadSecond, ProgressInv, LoadsBounded
  <2>3. NeverOvershoots'
    BY <1>0, <1>1, <2>1, <2>2 DEF ProgressInv, Typed, ReaderRecord, NeverOvershoots, counters
  <2>4. LoadsBounded'
    BY <1>1, <2>1 DEF ProgressInv, Typed, LoadsBounded, Moving, counters
  <2>. QED  BY <1>1, <2>3, <2>4 DEF ProgressInv, CountersBounded, Moving, counters
<1>. QED  BY <1>2, <1>3

LEMMA ReportInv ==
  ASSUME ProgressInv,
         (\E r \in Reporters : Begin(r)) \/ ReportProgress \/ ReportSpeed
  PROVE  ProgressInv'
<1>1. PICK r \in Reporters :
        \/ reader' = [reader EXCEPT ![r] = [Waiting EXCEPT !.at = "first"]]
        \/ reader' = [reader EXCEPT ![r] = [@ EXCEPT !.at = "wait"]]
  BY ReportStep DEF ProgressInv
<1>2. Typed' /\ WorkerSound' /\ UNCHANGED counters
  BY ReportType, ReportStep DEF ProgressInv
<1>3. ASSUME NEW q \in Reporters
      PROVE  /\ reader'[q].at = "second" => reader'[q] = reader[q]
             /\ reader'[q].part = reader[q].part \/ reader'[q].part = Waiting.part
  BY <1>1 DEF ProgressInv, Typed, ReaderRecord, Waiting
<1>4. LoadsBounded'
  BY <1>2, <1>3 DEF ProgressInv, LoadsBounded, Moving, counters
<1>5. NeverOvershoots'
  <2>. SUFFICES ASSUME NEW q \in Reporters, NEW i \in Slices
                PROVE  reader'[q].part[i] <= received'[i]
    BY DEF NeverOvershoots
  <2>1. received[i] \in Nat /\ received' = received
    BY <1>2 DEF ProgressInv, Typed, counters
  <2>. QED  BY <1>3, <2>1, WaitingType DEF ProgressInv, NeverOvershoots
<1>. QED  BY <1>2, <1>4, <1>5 DEF ProgressInv, CountersBounded, Moving, counters

LEMMA StepInv ==
  ASSUME DiskFirst, ProgressInv, [Next]_vars
  PROVE  ProgressInv'
<1>1. CASE Worker
  BY <1>1, ReceiveInv, FlushInv, WriteInv, WriteRestInv, DiscardInv, FirstSlice DEF Worker
<1>2. CASE Reporter
  BY <1>2, LoadInv, ReportInv DEF Reporter
<1>3. CASE UNCHANGED vars
  BY <1>3 DEF ProgressInv, Typed, WorkerSound, CountersBounded, LoadsBounded,
     NeverOvershoots, Moving, vars, counters
<1>. QED  BY <1>1, <1>2, <1>3 DEF Next

-----------------------------------------------------------------------------
(* In a build that loads the count of bytes on disk before the count of      *)
(* bytes in the cache, no total has more of a slice than it was handed,      *)
(* wherever the worker is while a reporter adds up.                          *)
THEOREM ProgressNeverOvershoots ==
  ASSUME DiskFirst
  PROVE  Spec => []NeverOvershoots
<1>1. Init => ProgressInv  BY InitInv
<1>2. ProgressInv /\ [Next]_vars => ProgressInv'  BY StepInv
<1>3. ProgressInv => NeverOvershoots  BY DEF ProgressInv
<1>. QED  BY <1>1, <1>2, <1>3, PTL DEF Spec

-----------------------------------------------------------------------------
(* The totals.  last is what has been told on top of what was there when the *)
(* reporters began, and never more than the slices were handed.              *)

TotalsTyped == already \in Nat /\ last \in Nat /\ told \in Nat

TotalsInv ==
  /\ TotalsTyped
  /\ told = last - already
  /\ last <= SumFunction(received)

LEMMA SlicesFinite == IsFiniteSet(Slices)
  BY ProgressAssumption, FS_Interval DEF Slices

LEMMA InitTotals == Init => TotalsInv
<1>. SUFFICES ASSUME Init PROVE TotalsInv  OBVIOUS
<1>1. disk \in [Slices -> Nat]
  BY ProgressAssumption DEF Init
<1>2. SumFunction(disk) \in Nat
  BY <1>1, SlicesFinite, SumType
<1>. QED  BY <1>2 DEF Init, TotalsInv, TotalsTyped

\* What the speed reporter adds up is a number, and bounded part by part.
LEMMA TotalOfParts ==
  ASSUME Typed
  PROVE  LET now == SumFunction(reader["speed"].part)
         IN  /\ now \in Nat
             /\ NeverOvershoots => now <= SumFunction(received)
<1>. DEFINE part == reader["speed"].part
<1>1. part \in [Slices -> Nat] /\ received \in [Slices -> Nat] /\ "speed" \in Reporters
  BY DEF Typed, ReaderRecord, Reporters
<1>2. NeverOvershoots => \A i \in Slices : part[i] <= received[i]
  BY <1>1 DEF NeverOvershoots
<1>. HIDE DEF part
<1>3. SumFunction(part) \in Nat
  BY <1>1, SlicesFinite, SumType
<1>4. NeverOvershoots => SumFunction(part) <= SumFunction(received)
  BY <1>1, <1>2, SlicesFinite, SumMonotone
<1>. QED  BY <1>3, <1>4 DEF part

\* Only a report of the speed moves the totals.
LEMMA TotalsQuiet ==
  ASSUME [Next]_vars
  PROVE  ReportSpeed \/ UNCHANGED <<already, last, told>>
<1>1. CASE Worker
  BY <1>1 DEF Worker, Receive, Flush, Write, WriteRest, Discard, Discarded
<1>2. CASE Reporter
  BY <1>2 DEF Reporter, Begin, LoadFirst, LoadSecond, ReportProgress
<1>3. CASE UNCHANGED vars
  BY <1>3 DEF vars
<1>. QED  BY <1>1, <1>2, <1>3 DEF Next

LEMMA StepTotalsType ==
  ASSUME Typed, TotalsTyped, [Next]_vars
  PROVE  TotalsTyped'
<1>1. CASE ReportSpeed
  <2>1. SumFunction(reader["speed"].part) \in Nat
    BY TotalOfParts
  <2>. DEFINE now == SumFunction(reader["speed"].part)
  <2>2. /\ UNCHANGED already
        /\ \/ now >= last /\ told' = told + (now - last) /\ last' = now
           \/ UNCHANGED <<told, last>>
    BY <1>1 DEF ReportSpeed
  <2>. HIDE DEF now
  <2>3. now \in Nat  BY <2>1 DEF now
  <2>. QED  BY <2>2, <2>3 DEF TotalsTyped
<1>. QED  BY <1>1, TotalsQuiet DEF TotalsTyped

\* What slices were handed never becomes less.
LEMMA ReceivedGrows ==
  ASSUME Typed, Typed', [Next]_vars
  PROVE  /\ SumFunction(received) \in Nat /\ SumFunction(received') \in Nat
         /\ SumFunction(received) <= SumFunction(received')
<1>1. received \in [Slices -> Nat] /\ received' \in [Slices -> Nat]
  BY DEF Typed
<1>2. \A i \in Slices : received[i] <= received'[i]
  <2>1. CASE Worker
    <3>1. ASSUME NEW i \in Slices, NEW n \in 1..MaxChunk, Receive(i, n)
          PROVE  \A j \in Slices : received[j] <= received'[j]
      BY <1>1, <3>1, ProgressAssumption DEF Receive
    <3>. QED  BY <1>1, <2>1, <3>1
         DEF Worker, Flush, Write, WriteRest, Discard, Discarded
  <2>2. CASE Reporter
    <3>1. UNCHANGED received
      BY <2>2 DEF Reporter, Begin, LoadFirst, LoadSecond, ReportProgress, ReportSpeed, counters
    <3>. QED  BY <1>1, <3>1
  <2>3. CASE UNCHANGED vars
    BY <1>1, <2>3 DEF vars, counters
  <2>. QED  BY <2>1, <2>2, <2>3 DEF Next
<1>. QED  BY <1>1, <1>2, SlicesFinite, SumType, SumMonotone

LEMMA StepTotals ==
  ASSUME ProgressInv, TotalsInv, Typed', [Next]_vars
  PROVE  TotalsInv'
<1>1. TotalsTyped' /\ TotalsTyped
  BY StepTotalsType DEF ProgressInv, TotalsInv
<1>2. /\ SumFunction(received) \in Nat /\ SumFunction(received') \in Nat
      /\ SumFunction(received) <= SumFunction(received')
  BY ReceivedGrows DEF ProgressInv
<1>. DEFINE sum == SumFunction(received)
            more == SumFunction(received')
<1>3. /\ told = last - already /\ last <= sum
      /\ TotalsInv' <=> told' = last' - already' /\ last' <= more
  BY <1>1 DEF TotalsInv
<1>4. CASE UNCHANGED <<already, last, told>>
  <2>. HIDE DEF sum, more
  <2>1. sum <= more /\ sum \in Nat /\ more \in Nat  BY <1>2 DEF sum, more
  <2>. QED  BY <1>1, <1>3, <1>4, <2>1 DEF TotalsTyped
<1>5. CASE ReportSpeed
  <2>. DEFINE now == SumFunction(reader["speed"].part)
  <2>1. now \in Nat /\ now <= sum
    BY TotalOfParts DEF ProgressInv
  <2>2. /\ UNCHANGED already
        /\ \/ now >= last /\ told' = told + (now - last) /\ last' = now
           \/ UNCHANGED <<told, last>>
    BY <1>5 DEF ReportSpeed
  <2>. HIDE DEF now, sum, more
  <2>3. sum <= more /\ sum \in Nat /\ more \in Nat  BY <1>2 DEF sum, more
  <2>4. already \in Nat /\ last \in Nat /\ told \in Nat
    BY <1>1 DEF TotalsTyped
  <2>5. told' = last' - already'
    BY <1>3, <2>1, <2>2, <2>4
  <2>6. last' <= more
    BY <1>3, <2>1, <2>2, <2>3, <2>4
  <2>. QED  BY <1>3, <2>5, <2>6
<1>. QED  BY <1>4, <1>5, TotalsQuiet

-----------------------------------------------------------------------------
(* Every variable has its type, whichever counter is loaded first: the       *)
(* totals are sums of numbers.                                               *)
THEOREM ProgressTypeCorrect == Spec => []TypeOK
<1>1. Init => Typed /\ WorkerSound /\ TotalsTyped
  BY InitInv, InitTotals DEF ProgressInv, TotalsInv
<1>2. Typed /\ WorkerSound /\ TotalsTyped /\ [Next]_vars
        => Typed' /\ WorkerSound' /\ TotalsTyped'
  BY StepType, StepTotalsType
<1>3. Typed /\ TotalsTyped => TypeOK
  BY DEF Typed, TotalsTyped, TypeOK, ReaderRecord
<1>. QED  BY <1>1, <1>2, <1>3, PTL DEF Spec

(* All the speeds that are ever reported add up to no more than the bytes    *)
(* that came since the reporters began, though a total can dip while bytes   *)
(* are on their way from the cache to the disk, and come back.               *)
THEOREM SpeedsNeverExceed ==
  ASSUME DiskFirst
  PROVE  Spec => []SpeedsAddUp
<1>1. Init => ProgressInv /\ TotalsInv
  BY InitInv, InitTotals
<1>2. ProgressInv /\ TotalsInv /\ [Next]_vars => ProgressInv' /\ TotalsInv'
  <2>. SUFFICES ASSUME ProgressInv, TotalsInv, [Next]_vars PROVE ProgressInv' /\ TotalsInv'
    OBVIOUS
  <2>1. ProgressInv'  BY StepInv
  <2>. QED  BY <2>1, StepTotals DEF ProgressInv
<1>3. ProgressInv /\ TotalsInv => SpeedsAddUp
  <2>. SUFFICES ASSUME ProgressInv, TotalsInv PROVE SpeedsAddUp
    OBVIOUS
  <2>1. SumFunction(received) \in Nat
    BY SlicesFinite, SumType DEF ProgressInv, Typed
  <2>. QED  BY <2>1 DEF TotalsInv, TotalsTyped, SpeedsAddUp
<1>. QED  BY <1>1, <1>2, <1>3, PTL DEF Spec
=============================================================================
