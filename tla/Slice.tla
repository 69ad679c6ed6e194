-------------------------------- MODULE Slice --------------------------------
(***************************************************************************)
(* One slice of a download (src/slice.cpp): the range [begin, end] of the  *)
(* resource that it fetches over a connection of its own, the bytes of it  *)
(* that are on disk, and those still in its memory cache.                  *)
(*                                                                         *)
(* The module has operators only: a slice is a record, every operation of  *)
(* class Slice maps a slice to the slice it leaves.  An operation that     *)
(* writes takes w, the number of bytes the file system accepted, and a     *)
(* companion operator says which bytes it asked the file to take.          *)
(***************************************************************************)
EXTENDS TargetFile

CONSTANTS
  SavePolicy,   \* options_->uncompleted_slice_save_policy
  ReplyKinds,   \* how servers may answer: "range", "whole" or "error"
  MaxJunk,      \* bound: length of an error page
  MaxChunk      \* bound: bytes handed over in one write callback

ASSUME SliceAssumption ==
  /\ SavePolicy \in {"AlwaysDiscard", "SaveExceptFailed"}
  /\ ReplyKinds \subseteq {"range", "whole", "error"}
  /\ MaxJunk \in Nat
  /\ MaxChunk \in Nat \ {0}

SliceStatus == {"UNFETCH", "FETCHED", "DOWNLOADING", "DOWNLOAD_FAILED",
                "DOWNLOAD_COMPLETED", "CURL_OK_BUT_COMPLETED_NOT_SURE"}

(* The easy handle of a slice: "none" while curl_ is null, "live" while the *)
(* transfer runs, "ok" or "err" once libcurl has queued its DONE message.   *)
CurlState == {"none", "live", "ok", "err"}

(* What the server answered: bytes pos+1 .. lim of from are still to come.  *)
Reply == [from : Contents \cup {Junk}, pos : Nat, lim : Nat]
NoReply == [from |-> Junk, pos |-> 0, lim |-> 0]

SliceRecord == [begin  : Nat,
                end    : Int,           \* -1: the size is not known
                disk   : Nat,           \* disk_capacity_
                cache  : Seq(Byte),     \* the disk_cache_capacity_ bytes held
                csize  : Nat,           \* disk_cache_size_, 0: no buffer
                rate   : Nat,           \* speed limit of the handle, 0: none
                curl   : CurlState,
                reply  : Reply,
                status : SliceStatus,
                failed : Nat]           \* failed_times_

-----------------------------------------------------------------------------
(* Mutant: the end is taken as not part of the slice. *)
SizeExclusive(s) == s.end - s.begin

Size(s) == s.end - s.begin + 1

IsDataCompletedClearly(s) ==
  s.end # -1 /\ Size(s) = s.disk + Len(s.cache)

(* The constructor: a slice that is already whole starts out completed. *)
NewSlice(begin, end, capacity) ==
  LET s == [begin |-> begin, end |-> end, disk |-> capacity, cache |-> <<>>,
            csize |-> 0, rate |-> 0, curl |-> "none", reply |-> NoReply,
            status |-> "UNFETCH", failed |-> 0]
  IN  IF IsDataCompletedClearly(s)
      THEN [s EXCEPT !.status = "DOWNLOAD_COMPLETED"] ELSE s

-----------------------------------------------------------------------------
(* Slice::start.  The offset asked for is begin + disk. *)

(* The answers a server holding content c may give to the request of s:     *)
(* the range asked for; the whole resource, from a server that ignores      *)
(* Range; or an error page, whose body is taken as data because no          *)
(* CURLOPT_FAILONERROR is set.                                              *)
Replies(s, c) ==
  LET first == s.begin + s.disk
      last  == IF s.end # -1 /\ s.end < SizeOf[c] THEN s.end + 1 ELSE SizeOf[c]
  IN  {r \in {[from |-> c, pos |-> first, lim |-> Larger(first, last)]}
         : "range" \in ReplyKinds}
      \cup {r \in {[from |-> c, pos |-> 0, lim |-> SizeOf[c]]}
              : "whole" \in ReplyKinds}
      \cup {r \in {[from |-> Junk, pos |-> 0, lim |-> n] : n \in 1..MaxJunk}
              : "error" \in ReplyKinds}

(* Mutant: a limit is set whatever its sign. *)
StartedAnyLimit(s, buffer, max_speed, reply) ==
  [s EXCEPT !.status = "DOWNLOADING", !.csize = buffer, !.rate = max_speed,
            !.curl = "live", !.reply = reply]

(* start that succeeds: buffer is the cache size granted, 0 when malloc     *)
(* failed; a max_speed that is not positive sets no limit.                  *)
Started(s, buffer, max_speed, reply) ==
  [s EXCEPT !.status = "DOWNLOADING",
            !.csize  = IF buffer > 0 THEN buffer ELSE 0,
            !.rate   = IF max_speed > 0 THEN max_speed ELSE 0,
            !.curl   = "live",
            !.reply  = reply]

(* start that fails: handle and buffer are released on every error path. *)
StartFailed(s) ==
  [s EXCEPT !.status = "DOWNLOAD_FAILED", !.csize = 0, !.cache = <<>>]

-----------------------------------------------------------------------------
(* Slice::onNewData *)

(* The next n bytes of the reply. *)
Chunk(s, n) == [k \in 1..n |-> <<s.reply.from, s.reply.pos + k>>]

Fits(s, n) == s.csize > 0 /\ s.csize - Len(s.cache) >= n

(* Mutant: a chunk that does not fit is written ahead of the cache. *)
DataToWriteCacheSkipped(s, data) ==
  IF Fits(s, Len(data)) THEN <<>> ELSE data

(* What it writes at offset begin + disk: nothing while the chunk fits in   *)
(* the buffer; else the cache, followed by the chunk when the chunk is      *)
(* larger than the whole buffer (or when there is no buffer at all).        *)
DataToWrite(s, data) ==
  IF Fits(s, Len(data)) THEN <<>>
  ELSE IF s.csize >= Len(data) THEN s.cache
  ELSE s.cache \o data

(* The slice after n bytes arrived and w of DataToWrite were written.  A    *)
(* short write makes the callback return 0, which ends the transfer with    *)
(* CURLE_WRITE_ERROR; the cache has been emptied all the same.              *)
OnNewData(s, n, w) ==
  LET data    == Chunk(s, n)
      written == w = Len(DataToWrite(s, data))
      held    == IF Fits(s, n) THEN s.cache \o data
                 ELSE IF written /\ s.csize >= n THEN data
                 ELSE <<>>
  IN  [s EXCEPT !.disk  = @ + w,
                !.cache = held,
                !.curl  = IF written THEN @ ELSE "err",
                !.reply.pos = @ + n]

-----------------------------------------------------------------------------
(* Slice::flushToDisk, w bytes of the cache written: the cache counter is   *)
(* cleared before the write, so what was not written is dropped.            *)
FlushToDisk(s, w) == [s EXCEPT !.disk = @ + w, !.cache = <<>>]

(* stop throws the data of s away. *)
Discards(s) ==
  /\ s.status \in {"DOWNLOADING", "DOWNLOAD_FAILED"}
  /\ SavePolicy = "AlwaysDiscard" \/ s.status = "DOWNLOAD_FAILED"

(* What stop writes at offset begin + disk. *)
StopWrites(s) == IF Discards(s) THEN <<>> ELSE s.cache

(* Mutant: the handle of a slice that has no data pending is kept. *)
StoppedIdleKept(s, w) ==
  IF s.cache = <<>> /\ s.curl = "live" THEN s
  ELSE [s EXCEPT !.disk = @ + w, !.cache = <<>>, !.csize = 0, !.rate = 0,
                 !.curl = "none", !.reply = NoReply]

(* Slice::stop, w bytes of StopWrites written: the handle is removed and    *)
(* freed, the data flushed or discarded, the buffer freed.                  *)
Stopped(s, w) ==
  [s EXCEPT !.disk   = IF Discards(s) THEN 0 ELSE @ + w,
            !.cache  = <<>>,
            !.csize  = 0,
            !.rate   = 0,
            !.curl   = "none",
            !.reply  = NoReply]
=============================================================================
