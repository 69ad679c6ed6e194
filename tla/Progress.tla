------------------------------ MODULE Progress ------------------------------
(***************************************************************************)
(* The threads that report progress and speed while a download runs        *)
(* (src/progress_handler.cpp, src/speed_handler.cpp).  They add up two     *)
(* atomic counters of every slice without a lock, while the worker moves   *)
(* bytes from one counter to the other under the lock of the slice: every  *)
(* store of the worker and every load of a reporter is a step of its own.  *)
(*                                                                         *)
(* The bytes themselves, the file and the connections are in Slice and     *)
(* EntryHandler; here a slice is its counters.  That the reporters are     *)
(* gone before the slices are destroyed is shown in Zoe.                   *)
(***************************************************************************)
EXTENDS Integers, Functions

CONSTANTS
  SliceNum,     \* number of slices
  CacheSize,    \* disk_cache_size_ of each slice, 0: no buffer
  DiskFirst,    \* which counter a build loads first: C++ leaves it open
  MaxChunk,     \* bound: bytes handed over in one write callback
  MaxReceived   \* bound: bytes that a slice gets

Slices == 1..SliceNum

ASSUME ProgressAssumption ==
  /\ SliceNum \in Nat \ {0} /\ CacheSize \in [Slices -> Nat]
  /\ DiskFirst \in BOOLEAN /\ MaxChunk \in Nat /\ MaxReceived \in Nat

VARIABLES
  disk,     \* disk_capacity_
  cache,    \* disk_cache_capacity_
  received, \* history: bytes a slice began with, and has been handed since
  over,     \* the data of the slice was thrown away
  worker,   \* what the worker is about inside a slice
  reader,   \* how far each reporter is in totalDownloaded
  already,  \* already_download_
  last,     \* last_download_
  told      \* history: the sum of what speed_functor was given

counters == <<disk, cache, received, over, worker>>
vars     == <<counters, reader, already, last, told>>

Reporters == {"progress", "speed"}

(* The worker holds the lock of slice: held bytes have left the cache for    *)
(* the disk, chunk bytes of a callback wait behind them.                     *)
Free == [at |-> "free", slice |-> 1, held |-> 0, chunk |-> 0]

\* first is what the first load gave, part what each slice came to.
Waiting == [at |-> "wait", slice |-> 1, first |-> 0, part |-> [i \in Slices |-> 0]]

Init ==
  /\ disk \in [Slices -> 0..MaxReceived]
  /\ cache = [i \in Slices |-> 0] /\ received = disk
  /\ over = [i \in Slices |-> FALSE] /\ worker = Free
  /\ reader = [r \in Reporters |-> Waiting]
  /\ already = SumFunction(disk) /\ last = already /\ told = 0

Fits(i, n) == CacheSize[i] > 0 /\ CacheSize[i] - cache[i] >= n

-----------------------------------------------------------------------------
(* The worker inside Slice::onNewData, flushToDisk and stop. *)

(* n bytes arrive: into the cache; or to the disk, behind what is cached.    *)
Receive(i, n) ==
  /\ worker = Free /\ ~over[i] /\ received[i] + n <= MaxReceived
  /\ received' = [received EXCEPT ![i] = @ + n]
  /\ \/ Fits(i, n) /\ cache' = [cache EXCEPT ![i] = @ + n] /\ UNCHANGED worker
     \/ /\ ~Fits(i, n) /\ CacheSize[i] > 0
        /\ cache' = [cache EXCEPT ![i] = 0]
        /\ worker' = [at |-> "flush", slice |-> i, held |-> cache[i], chunk |-> n]
     \/ /\ CacheSize[i] = 0
        /\ worker' = [at |-> "rest", slice |-> i, held |-> 0, chunk |-> n]
        /\ UNCHANGED cache
  /\ UNCHANGED <<disk, over, reader, already, last, told>>

(* Mutant: the bytes are counted as on disk before they leave the cache. *)
FlushCountedFirst(i) ==
  /\ worker = Free /\ CacheSize[i] > 0 /\ cache[i] > 0
  /\ disk' = [disk EXCEPT ![i] = @ + cache[i]]
  /\ worker' = [at |-> "discard", slice |-> i, held |-> 0, chunk |-> 0]
  /\ UNCHANGED <<cache, received, over, reader, already, last, told>>

\* flushToDisk, every ten seconds and when a slice is stopped.
Flush(i) ==
  /\ worker = Free /\ CacheSize[i] > 0 /\ cache[i] > 0
  /\ cache' = [cache EXCEPT ![i] = 0]
  /\ worker' = [at |-> "flush", slice |-> i, held |-> cache[i], chunk |-> 0]
  /\ UNCHANGED <<disk, received, over, reader, already, last, told>>

(* w bytes of what left the cache are on disk.  When that is not all, what   *)
(* came behind them is dropped.                                              *)
Write(w) ==
  /\ worker.at = "flush"
  /\ disk' = [disk EXCEPT ![worker.slice] = @ + w]
  /\ worker' = IF w = worker.held /\ worker.chunk > 0
               THEN [worker EXCEPT !.at = "rest", !.held = 0] ELSE Free
  /\ UNCHANGED <<cache, received, over, reader, already, last, told>>

\* The chunk, once the cache is empty: into the cache, or w bytes of it to disk.
WriteRest(w) ==
  LET i == worker.slice IN
  /\ worker.at = "rest"
  /\ IF Fits(i, worker.chunk)
     THEN cache' = [cache EXCEPT ![i] = @ + worker.chunk] /\ UNCHANGED disk
     ELSE disk' = [disk EXCEPT ![i] = @ + w] /\ UNCHANGED cache
  /\ worker' = Free
  /\ UNCHANGED <<received, over, reader, already, last, told>>

\* stop throws the data of a slice away: one counter, then the other.
Discard(i) ==
  /\ worker = Free /\ ~over[i]
  /\ disk' = [disk EXCEPT ![i] = 0] /\ over' = [over EXCEPT ![i] = TRUE]
  /\ worker' = [at |-> "discard", slice |-> i, held |-> 0, chunk |-> 0]
  /\ UNCHANGED <<cache, received, reader, already, last, told>>

Discarded ==
  /\ worker.at = "discard"
  /\ cache' = [cache EXCEPT ![worker.slice] = 0] /\ worker' = Free
  /\ UNCHANGED <<disk, received, over, reader, already, last, told>>

-----------------------------------------------------------------------------
(* A reporter, each time its wait for the event runs out. *)

\* totalDownloaded begins.
Begin(r) ==
  /\ reader[r].at = "wait"
  /\ reader' = [reader EXCEPT ![r] = [Waiting EXCEPT !.at = "first"]]
  /\ UNCHANGED <<counters, already, last, told>>

LoadFirst(r) ==
  LET i == reader[r].slice IN
  /\ reader[r].at = "first"
  /\ reader' = [reader EXCEPT ![r].at = "second",
                              ![r].first = IF DiskFirst THEN disk[i] ELSE cache[i]]
  /\ UNCHANGED <<counters, already, last, told>>

(* Mutant: the loop goes one slice too far. *)
LoadSecondPastEnd(r) ==
  LET i == reader[r].slice IN
  /\ reader[r].at = "second"
  /\ reader' = [reader EXCEPT
       ![r].part[i] = reader[r].first + IF DiskFirst THEN cache[i] ELSE disk[i],
       ![r].slice = i + 1,
       ![r].at = IF i > SliceNum THEN "total" ELSE "first"]
  /\ UNCHANGED <<counters, already, last, told>>

\* The slice is done with; the next one, or the total.
LoadSecond(r) ==
  LET i == reader[r].slice IN
  /\ reader[r].at = "second"
  /\ reader' = [reader EXCEPT
       ![r].part[i] = reader[r].first + IF DiskFirst THEN cache[i] ELSE disk[i],
       ![r].slice = IF i = SliceNum THEN 1 ELSE i + 1,
       ![r].at = IF i = SliceNum THEN "total" ELSE "first"]
  /\ UNCHANGED <<counters, already, last, told>>

\* progress_functor gets the total.
ReportProgress ==
  /\ reader["progress"].at = "total"
  /\ reader' = [reader EXCEPT !["progress"].at = "wait"]
  /\ UNCHANGED <<counters, already, last, told>>

(* Mutant: a total that went down is remembered, too. *)
ReportSpeedDips ==
  LET now == SumFunction(reader["speed"].part) IN
  /\ reader["speed"].at = "total"
  /\ told' = IF now >= last THEN told + (now - last) ELSE told
  /\ last' = now
  /\ reader' = [reader EXCEPT !["speed"].at = "wait"]
  /\ UNCHANGED <<counters, already>>

(* speed_functor gets what has come since it was called last.  It is not     *)
(* called while the total is lower than it was then.                         *)
ReportSpeed ==
  LET now == SumFunction(reader["speed"].part) IN
  /\ reader["speed"].at = "total"
  /\ \/ now >= last /\ told' = told + (now - last) /\ last' = now
     \/ now < last /\ UNCHANGED <<told, last>>
  /\ reader' = [reader EXCEPT !["speed"].at = "wait"]
  /\ UNCHANGED <<counters, already>>

-----------------------------------------------------------------------------
Worker ==
  \/ \E i \in Slices : \/ \E n \in 1..MaxChunk : Receive(i, n)
                       \/ Flush(i) \/ Discard(i)
  \/ \E w \in 0..worker.held : Write(w)
  \/ \E w \in 0..worker.chunk : WriteRest(w)
  \/ Discarded

Reporter ==
  \/ \E r \in Reporters : Begin(r) \/ LoadFirst(r) \/ LoadSecond(r)
  \/ ReportProgress \/ ReportSpeed

Next == Worker \/ Reporter

Spec == Init /\ [][Next]_vars

-----------------------------------------------------------------------------
(* Properties. *)

\* Every variable has its type.
TypeOK ==
  /\ disk \in [Slices -> Nat] /\ cache \in [Slices -> Nat]
  /\ received \in [Slices -> Nat] /\ over \in [Slices -> BOOLEAN]
  /\ worker \in [at : {"free", "flush", "rest", "discard"}, slice : Slices,
                 held : Nat, chunk : Nat]
  /\ reader \in [Reporters -> [at : {"wait", "first", "second", "total"},
                               slice : Slices, first : Nat, part : [Slices -> Nat]]]
  /\ already \in Nat /\ last \in Nat /\ told \in Nat

(* No slice enters a total with more than it was handed, though its bytes    *)
(* move between the two counters while they are loaded, and though the data  *)
(* of a failed slice goes away: progress does not run ahead of the download. *)
NeverOvershoots ==
  \A r \in Reporters, i \in Slices : reader[r].part[i] <= received[i]

(* All speeds that were reported add up to no more than the bytes that came  *)
(* since the reporters began: bytes that drop out of a total for a moment    *)
(* and come back are not counted twice.                                      *)
SpeedsAddUp == told <= SumFunction(received) - already
=============================================================================
