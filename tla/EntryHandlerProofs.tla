-------------------------- MODULE EntryHandlerProofs --------------------------
(* Type correctness of EntryHandler, for every number of threads, servers    *)
(* and contents, every fault and every size.                                 *)
EXTENDS EntryHandler, Sums

-----------------------------------------------------------------------------
(* TargetFile *)

\* Creating a file gives a file, and so does writing to one.
LEMMA CreateType ==
  ASSUME NEW old \in File \cup {NoFile}, NEW n \in Nat
  PROVE  CreateFixedSizeFile(old, n) \in File
  <1> DEFINE kept == IF old = NoFile THEN <<>> ELSE old
             cuts == Platform = "windows" \/ (Platform = "macos" /\ n > 0)
             size == IF cuts THEN n ELSE Larger(n, Len(kept))
  <1>1. kept \in Seq(Byte) /\ Len(kept) \in Nat
    BY DEF File
  <1>2. size \in Nat
    BY <1>1 DEF Larger
  <1>3. \A k \in 1..size : (IF k <= Len(kept) THEN kept[k] ELSE Hole) \in Byte
    BY <1>1, <1>2 DEF Byte
  <1> HIDE DEF kept, cuts, size
  <1>4. [k \in 1..size |-> IF k <= Len(kept) THEN kept[k] ELSE Hole] \in Seq(Byte)
    BY <1>2, <1>3
  <1> QED BY <1>4 DEF CreateFixedSizeFile, File, kept, cuts, size

LEMMA WriteType ==
  ASSUME NEW f \in File, NEW pos \in Nat, NEW bytes \in Seq(Byte)
  PROVE  Write(f, pos, bytes) \in File
  <1> DEFINE end == pos + Len(bytes)
             size == Larger(Len(f), end)
             byte(k) == IF k > pos /\ k <= end THEN bytes[k - pos]
                        ELSE IF k <= Len(f) THEN f[k] ELSE Hole
  <1>1. f \in Seq(Byte) /\ Len(f) \in Nat /\ end \in Nat /\ size \in Nat
    BY DEF File, Larger
  <1>2. ASSUME NEW k \in 1..size PROVE byte(k) \in Byte
    <2>1. CASE k > pos /\ k <= end
      <3>1. k - pos \in 1..Len(bytes)
        BY <2>1, <1>1
      <3> QED BY <2>1, <3>1
    <2>2. CASE ~(k > pos /\ k <= end) /\ k <= Len(f)
      BY <1>1, <2>2
    <2>3. CASE ~(k > pos /\ k <= end) /\ ~(k <= Len(f))
      BY <2>3 DEF Byte
    <2> QED BY <2>1, <2>2, <2>3
  <1> HIDE DEF size, byte
  <1>3. [k \in 1..size |-> byte(k)] \in Seq(Byte)
    BY <1>1, <1>2
  <1> QED BY <1>3 DEF Write, File, size, byte

-----------------------------------------------------------------------------
(* Slice *)

LEMMA NewSliceType ==
  ASSUME NEW begin \in Nat, NEW end \in Int, NEW capacity \in Nat
  PROVE  NewSlice(begin, end, capacity) \in SliceRecord
  <1> DEFINE s == [begin |-> begin, end |-> end, disk |-> capacity, cache |-> <<>>,
                   csize |-> 0, rate |-> 0, curl |-> "none", reply |-> NoReply,
                   status |-> "UNFETCH", failed |-> 0]
  <1>1. NoReply \in Reply /\ <<>> \in Seq(Byte)
    BY DEF NoReply, Reply
  <1>2. s \in SliceRecord
    BY <1>1 DEF SliceRecord, CurlState, SliceStatus
  <1>3. [s EXCEPT !.status = "DOWNLOAD_COMPLETED"] \in SliceRecord
    BY <1>2 DEF SliceRecord, SliceStatus
  <1> QED BY <1>2, <1>3 DEF NewSlice

\* The answers of a server are replies.
LEMMA RepliesType ==
  ASSUME NEW s \in SliceRecord, NEW c \in Contents
  PROVE  Replies(s, c) \subseteq Reply
  <1> DEFINE first == s.begin + s.disk
             last  == IF s.end # -1 /\ s.end < SizeOf[c] THEN s.end + 1 ELSE SizeOf[c]
  <1>1. SizeOf[c] \in Nat /\ MaxJunk \in Nat
    BY ContentsAssumption, SliceAssumption
  <1>2. first \in Nat /\ last \in Int
    BY <1>1 DEF SliceRecord
  <1>3. Larger(first, last) \in Nat
    BY <1>2 DEF Larger
  <1> HIDE DEF first, last
  <1>4. [from |-> c, pos |-> first, lim |-> Larger(first, last)] \in Reply
    BY <1>2, <1>3 DEF Reply
  <1>5. [from |-> c, pos |-> 0, lim |-> SizeOf[c]] \in Reply
    BY <1>1 DEF Reply
  <1>6. \A n \in 1..MaxJunk : [from |-> Junk, pos |-> 0, lim |-> n] \in Reply
    BY <1>1 DEF Reply
  <1> QED BY <1>4, <1>5, <1>6 DEF Replies, first, last

LEMMA StartedType ==
  ASSUME NEW s \in SliceRecord, NEW buffer \in Int, NEW max_speed \in Int,
         NEW r \in Reply
  PROVE  Started(s, buffer, max_speed, r) \in SliceRecord
  <1> DEFINE size  == IF buffer > 0 THEN buffer ELSE 0
             limit == IF max_speed > 0 THEN max_speed ELSE 0
  <1>1. size \in Nat /\ limit \in Nat
    OBVIOUS
  <1>2. "DOWNLOADING" \in SliceStatus /\ "live" \in CurlState
    BY DEF SliceStatus, CurlState
  <1> HIDE DEF size, limit
  <1>3. [s EXCEPT !.status = "DOWNLOADING", !.csize = size, !.rate = limit,
                  !.curl = "live", !.reply = r] \in SliceRecord
    BY <1>1, <1>2 DEF SliceRecord
  <1> QED BY <1>3 DEF Started, size, limit

LEMMA StartFailedType ==
  ASSUME NEW s \in SliceRecord
  PROVE  StartFailed(s) \in SliceRecord
  <1>1. "DOWNLOAD_FAILED" \in SliceStatus /\ <<>> \in Seq(Byte)
    BY DEF SliceStatus
  <1> QED BY <1>1 DEF StartFailed, SliceRecord

\* A chunk, and what has to be written when it arrives, are bytes.
LEMMA ChunkType ==
  ASSUME NEW s \in SliceRecord, NEW n \in Nat
  PROVE  Chunk(s, n) \in Seq(Byte) /\ Len(Chunk(s, n)) = n
  <1>1. s.reply.from \in Contents \cup {Junk} /\ s.reply.pos \in Nat
    BY DEF SliceRecord, Reply
  <1>2. \A k \in 1..n : <<s.reply.from, s.reply.pos + k>> \in Byte
    BY <1>1 DEF Byte
  <1> QED BY <1>2 DEF Chunk

LEMMA DataToWriteType ==
  ASSUME NEW s \in SliceRecord, NEW data \in Seq(Byte)
  PROVE  DataToWrite(s, data) \in Seq(Byte)
  BY DEF DataToWrite, SliceRecord

LEMMA OnNewDataType ==
  ASSUME NEW s \in SliceRecord, NEW n \in Nat, NEW w \in Nat
  PROVE  OnNewData(s, n, w) \in SliceRecord
  <1> DEFINE data == Chunk(s, n)
             written == w = Len(DataToWrite(s, data))
             held == IF Fits(s, n) THEN s.cache \o data
                     ELSE IF written /\ s.csize >= n THEN data
                     ELSE <<>>
             sent == [s.reply EXCEPT !.pos = @ + n]
  <1>1. data \in Seq(Byte)
    BY ChunkType
  <1>2. s.cache \in Seq(Byte)
    BY DEF SliceRecord
  <1> HIDE DEF data
  <1>3. s.cache \o data \in Seq(Byte) /\ <<>> \in Seq(Byte)
    BY <1>1, <1>2
  <1>4. held \in Seq(Byte)
    BY <1>1, <1>3
  <1>5. s.disk + w \in Nat /\ s.curl \in CurlState /\ "err" \in CurlState
    BY DEF SliceRecord, CurlState
  <1>6. sent \in Reply
    BY DEF SliceRecord, Reply
  <1> HIDE DEF held, written, sent
  <1>7. [s EXCEPT !.disk  = s.disk + w, !.cache = held,
                  !.curl  = IF written THEN s.curl ELSE "err",
                  !.reply = sent] \in SliceRecord
    BY <1>4, <1>5, <1>6 DEF SliceRecord
  <1> QED BY <1>7 DEF OnNewData, SliceRecord, data, held, written, sent

LEMMA FlushType ==
  ASSUME NEW s \in SliceRecord, NEW w \in Nat
  PROVE  FlushToDisk(s, w) \in SliceRecord
  <1>1. s.disk + w \in Nat /\ <<>> \in Seq(Byte)
    BY DEF SliceRecord
  <1> QED BY <1>1 DEF FlushToDisk, SliceRecord

LEMMA StoppedType ==
  ASSUME NEW s \in SliceRecord, NEW w \in Nat
  PROVE  /\ Stopped(s, w) \in SliceRecord
         /\ StopWrites(s) \in Seq(Byte)
  <1>1. NoReply \in Reply /\ "none" \in CurlState /\ <<>> \in Seq(Byte)
    BY DEF NoReply, Reply, CurlState
  <1>2. StopWrites(s) \in Seq(Byte)
    BY <1>1 DEF StopWrites, SliceRecord
  <1> DEFINE kept == IF Discards(s) THEN 0 ELSE s.disk + w
  <1>3. kept \in Nat
    BY DEF SliceRecord
  <1> HIDE DEF kept
  <1>4. [s EXCEPT !.disk = kept, !.cache = <<>>, !.csize = 0, !.rate = 0,
                  !.curl = "none", !.reply = NoReply] \in SliceRecord
    BY <1>1, <1>3 DEF SliceRecord
  <1>5. Stopped(s, w) \in SliceRecord
    BY <1>4 DEF Stopped, kept, SliceRecord
  <1> QED BY <1>2, <1>5

-----------------------------------------------------------------------------
(* SliceManager *)

LEMMA SliceSizeType ==
  ASSUME NEW n \in Nat
  PROVE  SliceSize(n) \in Nat
  <1> USE SliceManagerAssumption
  <1>1. CASE SlicePolicy = "FixedSize"
    BY <1>1 DEF SliceSize
  <1>2. CASE SlicePolicy = "FixedNum"
    <2>1. SlicePolicyValue > 0 /\ n \div SlicePolicyValue \in Nat
      BY <1>2
    <2> QED BY <1>2, <2>1 DEF SliceSize
  <1>3. CASE SlicePolicy = "Auto"
    BY <1>3 DEF SliceSize
  <1> QED BY <1>1, <1>2, <1>3

LEMMA SliceNumType ==
  ASSUME NEW n \in Nat
  PROVE  SliceNum(n) \in Nat
  <1>1. SliceSize(n) \in Nat /\ SlicePolicyValue \in Nat
    BY SliceSizeType, SliceManagerAssumption
  <1>2. SliceSize(n) # 0 => (n + SliceSize(n) - 1) \div SliceSize(n) \in Nat
    <2> DEFINE s == SliceSize(n)
    <2> SUFFICES ASSUME s # 0 PROVE (n + s - 1) \div s \in Nat
      OBVIOUS
    <2>1. s \in Nat /\ s > 0 /\ n + s - 1 \in Nat
      BY <1>1
    <2> HIDE DEF s
    <2> QED BY <2>1
  <1> QED BY <1>1, <1>2 DEF SliceNum

LEMMA MakeSlicesType ==
  ASSUME NEW n \in Nat \cup {-1}, NEW accept_ranges
  PROVE  MakeSlices(n, accept_ranges) \in Seq(SliceRecord)
  <1>1. CASE ~accept_ranges \/ n = -1
    <2> DEFINE end == IF n = -1 THEN -1 ELSE n - 1
    <2>1. end \in Int
      OBVIOUS
    <2>2. MakeSlices(n, accept_ranges) = <<NewSlice(0, end, 0)>>
      BY <1>1 DEF MakeSlices
    <2> HIDE DEF end
    <2>3. NewSlice(0, end, 0) \in SliceRecord
      BY <2>1, NewSliceType
    <2> QED BY <2>2, <2>3
  <1>2. CASE accept_ranges /\ n # -1
    <2> DEFINE m == SliceNum(n)
               s == SliceSize(n)
               end(i) == IF i = m THEN n - 1 ELSE i * s - 1
    <2>1. n \in Nat /\ m \in Nat /\ s \in Nat
      BY <1>2, SliceNumType, SliceSizeType
    <2> HIDE DEF m, s
    <2>2. ASSUME NEW i \in 1..m
          PROVE  NewSlice((i - 1) * s, end(i), 0) \in SliceRecord
      <3>1. (i - 1) * s \in Nat /\ i * s \in Int
        BY <2>1
      <3>2. end(i) \in Int
        BY <2>1, <3>1
      <3> HIDE DEF end
      <3> QED BY <3>1, <3>2, NewSliceType
    <2>3. [i \in 1..m |-> NewSlice((i - 1) * s, end(i), 0)] \in Seq(SliceRecord)
      BY <2>1, <2>2
    <2> QED BY <1>2, <2>3 DEF MakeSlices, m, s
  <1> QED BY <1>1, <1>2

LEMMA IndexOfType ==
  ASSUME NEW all \in Seq(SliceRecord), NEW n \in Nat \cup {-1},
         NEW c \in Contents
  PROVE  IndexOf(all, n, c) \in Index
  <1> DEFINE R == [begin : Nat, end : Int, capacity : Nat]
             claim(s) == [begin |-> s.begin, end |-> s.end, capacity |-> s.disk]
             claims == [i \in DOMAIN all |-> claim(all[i])]
  <1>1. ASSUME NEW s \in SliceRecord PROVE claim(s) \in R
    BY DEF SliceRecord
  <1>2. DOMAIN all = 1..Len(all) /\ Len(all) \in Nat
    OBVIOUS
  <1>3. \A i \in 1..Len(all) : all[i] \in SliceRecord
    OBVIOUS
  <1>4. IndexOf(all, n, c)
          = [size |-> n, url |-> UrlOf[c], md5 |-> c, slices |-> claims]
    BY DEF IndexOf
  <1> HIDE DEF R, claim
  <1>5. claims \in Seq(R)
    BY <1>1, <1>2, <1>3
  <1> HIDE DEF claims
  <1> QED BY <1>4, <1>5 DEF Index, R

LEMMA LoadedSlicesType ==
  ASSUME NEW x \in Index
  PROVE  LoadedSlices(x) \in Seq(SliceRecord)
  <1> DEFINE R == [begin : Nat, end : Int, capacity : Nat]
             new(r) == NewSlice(r.begin, r.end, r.capacity)
             claims == x.slices
  <1>1. claims \in Seq(R)
    BY DEF Index
  <1>2. ASSUME NEW r \in R PROVE new(r) \in SliceRecord
    BY NewSliceType
  <1>3. LoadedSlices(x) = [i \in DOMAIN claims |-> new(claims[i])]
    BY DEF LoadedSlices
  <1> HIDE DEF R, new, claims
  <1>4. DOMAIN claims = 1..Len(claims) /\ Len(claims) \in Nat
    BY <1>1
  <1>5. \A i \in 1..Len(claims) : claims[i] \in R
    BY <1>1
  <1> QED BY <1>2, <1>3, <1>4, <1>5

-----------------------------------------------------------------------------
(* The strengthening that makes TypeOK inductive: the worker writes to the   *)
(* temporary file, so there has to be one wherever it does.                  *)

Writing == {"start", "perform0", "loop", "flush", "flush_open", "flush_write",
            "perform", "update", "schedule", "performNew", "stopping",
            "finish_open", "finish_write", "check", "hash", "rename"}

HasTmp == pc \in Writing => tmp \in File

TypeInv == TypeOK /\ HasTmp

-----------------------------------------------------------------------------
(* Lemmas on what several actions do. *)

\* Replacing one slice by a slice leaves a sequence of slices.
LEMMA ExceptType ==
  ASSUME NEW S, NEW s \in Seq(S), NEW i, NEW v, i \in DOMAIN s => v \in S
  PROVE  [s EXCEPT ![i] = v] \in Seq(S)
  <1>1. CASE i \in DOMAIN s
    BY <1>1
  <1>2. CASE i \notin DOMAIN s
    <2>1. [s EXCEPT ![i] = v] = s
      BY <1>2
    <2> QED BY <2>1
  <1> QED BY <1>1, <1>2

\* The number of open connections is a number.
LEMMA LiveIsFinite ==
  ASSUME slices \in Seq(SliceRecord)
  PROVE  Cardinality(Live) \in Nat
  <1>1. Live \in SUBSET (1..Len(slices)) /\ Len(slices) \in Nat
    BY DEF Live
  <1>2. IsFiniteSet(1..Len(slices))
    BY <1>1, FS_Interval
  <1>3. IsFiniteSet(Live)
    BY <1>1, <1>2, FS_Subset
  <1> QED BY <1>3, FS_CardinalityType

LEMMA UnfetchIsFinite ==
  ASSUME slices \in Seq(SliceRecord)
  PROVE  Cardinality(UnfetchAndUncompleted(slices)) \in Nat
  <1> DEFINE U == UnfetchAndUncompleted(slices)
  <1>1. U \in SUBSET (1..Len(slices)) /\ Len(slices) \in Nat
    BY DEF UnfetchAndUncompleted, WithStatus
  <1>2. IsFiniteSet(1..Len(slices))
    BY <1>1, FS_Interval
  <1>3. IsFiniteSet(U)
    BY <1>1, <1>2, FS_Subset
  <1> QED BY <1>3, FS_CardinalityType

\* Each connection's part of a budget is an integer.
LEMMA ShareType ==
  ASSUME NEW total \in Int, NEW n \in Nat
  PROVE  Share(total, n) \in Int
  <1>1. CASE n <= 0 \/ total = -1
    BY <1>1 DEF Share
  <1>2. CASE n > 0 /\ total # -1
    BY <1>2 DEF Share
  <1> QED BY <1>1, <1>2

\* Whatever comes of it, starting a slice leaves a sequence of slices.
LEMMA StartSliceType ==
  ASSUME slices \in Seq(SliceRecord), src \in Contents,
         NEW i, NEW n \in Nat, NEW code, StartSlice(i, n, code)
  PROVE  slices' \in Seq(SliceRecord)
  <1>1. Share(DiskCacheSize, n) \in Int /\ Share(MaxSpeed, n) \in Int
    <2>1. DiskCacheSize \in Int /\ MaxSpeed \in Int
      BY EntryHandlerAssumption
    <2> QED BY <2>1, ShareType
  <1>2. i \in DOMAIN slices => slices[i] \in SliceRecord
    OBVIOUS
  <1>3. ASSUME NEW r \in Replies(slices[i], src), NEW buffer \in Int,
               slices' = [slices EXCEPT ![i] =
                            Started(slices[i], buffer, Share(MaxSpeed, n), r)]
        PROVE  slices' \in Seq(SliceRecord)
    <2> DEFINE v == Started(slices[i], buffer, Share(MaxSpeed, n), r)
    <2>1. ASSUME i \in DOMAIN slices PROVE v \in SliceRecord
      <3>1. r \in Reply
        BY <1>2, <2>1, RepliesType
      <3> QED BY <1>1, <1>2, <2>1, <3>1, StartedType
    <2> HIDE DEF v
    <2>2. [slices EXCEPT ![i] = v] \in Seq(SliceRecord)
      BY <2>1, ExceptType
    <2> QED BY <1>3, <2>2 DEF v
  <1>4. ASSUME slices' = [slices EXCEPT ![i] = StartFailed(slices[i])]
        PROVE  slices' \in Seq(SliceRecord)
    <2> DEFINE v == StartFailed(slices[i])
    <2>1. i \in DOMAIN slices => v \in SliceRecord
      BY <1>2, StartFailedType
    <2> HIDE DEF v
    <2>2. [slices EXCEPT ![i] = v] \in Seq(SliceRecord)
      BY <2>1, ExceptType
    <2> QED BY <1>4, <2>2 DEF v
  <1> QED BY <1>1, <1>3, <1>4 DEF StartSlice

\* A write at the end of a slice's data leaves a file; so does writing nothing.
LEMMA WriteTmpType ==
  ASSUME slices \in Seq(SliceRecord), tmp \in File, NEW i \in DOMAIN slices,
         NEW data \in Seq(Byte), NEW w \in Accepted(data), WriteTmp(i, data, w)
  PROVE  tmp' \in File /\ w \in Nat
  <1>1. w \in 0..Len(data) /\ Len(data) \in Nat
    BY DEF Accepted
  <1>2. SubSeq(data, 1, w) \in Seq(Byte)
    BY <1>1
  <1> DEFINE s == slices[i]
             pos == s.begin + s.disk
             bytes == SubSeq(data, 1, w)
  <1>3. s \in SliceRecord
    OBVIOUS
  <1>4. tmp' = Write(tmp, pos, bytes)
    BY DEF WriteTmp
  <1> HIDE DEF s, bytes
  <1>5. s.begin \in Nat /\ s.disk \in Nat
    BY <1>3 DEF SliceRecord
  <1>6. pos \in Nat
    BY <1>5
  <1> HIDE DEF pos
  <1>7. Write(tmp, pos, bytes) \in File
    BY <1>2, <1>6, WriteType DEF bytes
  <1> QED BY <1>1, <1>4, <1>7

\* Slice i writes, and becomes v.
LEMMA SliceWriteType ==
  ASSUME TypeInv, pc \in Writing, NEW i \in DOMAIN slices,
         NEW data \in Seq(Byte), NEW w \in Accepted(data), WriteTmp(i, data, w),
         NEW v, slices' = [slices EXCEPT ![i] = v], w \in Nat => v \in SliceRecord
  PROVE  tmp' \in File /\ slices' \in Seq(SliceRecord)
  <1>1. slices \in Seq(SliceRecord) /\ tmp \in File
    BY DEF TypeInv, TypeOK, HasTmp
  <1>2. tmp' \in File /\ w \in Nat
    BY <1>1, WriteTmpType
  <1>3. [slices EXCEPT ![i] = v] \in Seq(SliceRecord)
    BY <1>1, <1>2, ExceptType
  <1> QED BY <1>2, <1>3

-----------------------------------------------------------------------------
(* The steps. *)

\* What becomes of the history of the index is one of its three values.
LEMMA OrphanType ==
  ASSUME TypeInv, NEW lost, Outlive(lost) \/ Renewed \/ GoOn \/ UNCHANGED orphan
  PROVE  orphan' \in {"no", "left", "used"}
  BY DEF Outlive, Renewed, GoOn, TypeInv, TypeOK

LEMMA InitType == Init => TypeInv
  <1> SUFFICES ASSUME Init PROVE TypeInv
    OBVIOUS
  <1>1. src \in Contents
    BY ContentsAssumption DEF Init, NoContent
  <1>2. slices \in Seq(SliceRecord)
    BY DEF Init
  <1>3. check \in BOOLEAN /\ stopEv \in BOOLEAN /\ userEv \in BOOLEAN /\ paused \in BOOLEAN
    BY DEF Init
  <1>4. /\ pc \in PC /\ pc \notin Writing /\ ret \in ResultCode /\ result \in ResultCode
        /\ origin \in Nat /\ cur \in Nat \ {0} /\ running \in Nat
        /\ sessions \in Nat /\ crashes \in Nat /\ orphan = "no"
    BY DEF Init, PC, ResultCode, Writing
  <1>5. tmp = NoFile /\ index = NoFile /\ target = NoFile
    BY DEF Init
  <1> QED BY <1>1, <1>2, <1>3, <1>4, <1>5 DEF TypeInv, TypeOK, HasTmp

LEMMA UserType == TypeInv /\ User => TypeInv'
  <1> SUFFICES ASSUME TypeInv, User PROVE TypeInv'
    OBVIOUS
  <1> USE DEF TypeInv, TypeOK, HasTmp, PC, ResultCode, Writing, memory, user,
              disk, history
  <1>1. CASE Start
    BY <1>1 DEF Start
  <1>2. CASE Stop
    BY <1>2 DEF Stop
  <1>3. CASE SetUserEvent
    <2>1. userEv' \in BOOLEAN
      BY <1>3 DEF SetUserEvent
    <2>2. UNCHANGED <<pc, memory, stopEv, paused, disk, result, history>>
      BY <1>3 DEF SetUserEvent
    <2> QED BY <2>1, <2>2
  <1>4. CASE PauseResume
    BY <1>4 DEF PauseResume
  <1> QED BY <1>1, <1>2, <1>3, <1>4 DEF User

LEMMA CrashType == TypeInv /\ Crash => TypeInv'
  <1> SUFFICES ASSUME TypeInv, Crash PROVE TypeInv'
    OBVIOUS
  <1>1. slices' \in Seq(SliceRecord)
    BY DEF Crash
  <1>2. check' \in BOOLEAN /\ stopEv' \in BOOLEAN /\ userEv' \in BOOLEAN /\ paused' \in BOOLEAN
    BY DEF Crash
  <1>3. /\ pc' \in PC /\ pc' \notin Writing /\ ret' \in ResultCode
        /\ origin' \in Nat /\ cur' \in Nat \ {0} /\ running' \in Nat
        /\ crashes' \in Nat
    BY DEF Crash, TypeInv, TypeOK, PC, ResultCode, Writing
  <1>4. UNCHANGED <<src, disk, result, sessions, orphan>>
    BY DEF Crash
  <1> QED BY <1>1, <1>2, <1>3, <1>4 DEF TypeInv, TypeOK, HasTmp, disk

-----------------------------------------------------------------------------
(* The steps of the worker, from the call to the first perform. *)

LEMMA LaunchType == TypeInv /\ Launch => TypeInv'
  BY DEF Launch, TypeInv, TypeOK, HasTmp, PC, Writing, memory, disk, history

LEMMA FetchType == TypeInv /\ Fetch => TypeInv'
  <1> SUFFICES ASSUME TypeInv, Fetch PROVE TypeInv'
    OBVIOUS
  <1>1. ReportedSize[src] \in Nat \cup {-1}
    BY SliceManagerAssumption, ContentsAssumption DEF TypeInv, TypeOK
  <1>2. origin' \in Nat \cup {-1}
    BY <1>1 DEF Fetch, TypeInv, TypeOK
  <1>3. CreateFixedSizeFile(target, 0) \in File
    BY CreateType DEF TypeInv, TypeOK
  <1>4. target' \in File \cup {NoFile}
    BY <1>3 DEF Fetch, TypeInv, TypeOK
  <1>5. pc' \in PC /\ pc' \notin Writing /\ ret' \in ResultCode
    BY DEF Fetch, Return, TypeInv, TypeOK, PC, Writing, ResultCode
  <1>6. UNCHANGED <<src, slices, cur, running, check, user, tmp, index, result, history>>
    BY DEF Fetch
  <1> QED BY <1>2, <1>4, <1>5, <1>6 DEF TypeInv, TypeOK, HasTmp, user, history

\* Whatever creating the temporary file leaves there is a file.
LEMMA CreatedType ==
  ASSUME TypeInv, NEW n \in Nat
  PROVE  Created(n) \subseteq File
  <1>1. CreateFixedSizeFile(tmp, n) \in File /\ CreateFixedSizeFile(NoFile, n) \in File
    BY CreateType DEF TypeInv, TypeOK
  <1> QED BY <1>1 DEF Created

LEMMA CreateFailsType == TypeInv /\ CreateFails => tmp' \in File \cup {NoFile}
  <1> SUFFICES ASSUME TypeInv, CreateFails PROVE tmp' \in File \cup {NoFile}
    OBVIOUS
  <1>1. Larger(origin, 0) \in Nat
    BY DEF Larger, TypeInv, TypeOK
  <1>2. CreateFixedSizeFile(tmp, 0) \in File
    BY CreateType DEF TypeInv, TypeOK
  <1>3. Created(Larger(origin, 0)) \subseteq File
    BY <1>1, CreatedType
  <1> QED BY <1>2, <1>3 DEF CreateFails, TypeInv, TypeOK

LEMMA LoadType == TypeInv /\ Load => TypeInv'
  <1> SUFFICES ASSUME TypeInv, Load PROVE TypeInv'
    OBVIOUS
  <1>1. /\ pc' \in PC /\ ret' \in ResultCode /\ cur' \in Nat \ {0}
        /\ check' \in BOOLEAN
    <2>1. CASE Finish(FALSE)
      <3>1. check' \in BOOLEAN
        BY <2>1 DEF Finish
      <3>2. pc' \in PC /\ ret' \in ResultCode /\ cur' \in Nat \ {0}
        BY <2>1 DEF Finish, PC, ResultCode
      <3> QED BY <3>1, <3>2
    <2>2. CASE UNCHANGED <<cur, check>>
      <3>1. pc' \in PC /\ ret' \in ResultCode
        BY DEF Load, CreateFails, AfterLoad, Finish, Return, TypeInv, TypeOK, PC,
               ResultCode
      <3> QED BY <2>2, <3>1 DEF TypeInv, TypeOK
    <2> QED BY <2>1, <2>2 DEF Load, CreateFails, AfterLoad
  <1>2. /\ slices' \in Seq(SliceRecord) /\ tmp' \in File \cup {NoFile}
        /\ pc' \in Writing => tmp' \in File
    <2>1. CASE /\ Usable(index, tmp, origin, src)
               /\ slices' = LoadedSlices(index) /\ UNCHANGED tmp
      <3>1. index \in Index /\ tmp \in File
        BY <2>1 DEF Usable, TypeInv, TypeOK
      <3> QED BY <2>1, <3>1, LoadedSlicesType
    <2>2. CASE /\ tmp' \in Created(Larger(origin, 0))
               /\ slices' = MakeSlices(origin, AcceptRanges[src])
      <3>1. Larger(origin, 0) \in Nat
        BY DEF Larger, TypeInv, TypeOK
      <3>2. Created(Larger(origin, 0)) \subseteq File
        BY <3>1, CreatedType
      <3>3. MakeSlices(origin, AcceptRanges[src]) \in Seq(SliceRecord)
        BY MakeSlicesType DEF TypeInv, TypeOK
      <3> QED BY <2>2, <3>2, <3>3
    <2>3. CASE CreateFails
      <3>1. pc' \notin Writing /\ UNCHANGED slices
        BY <2>3 DEF CreateFails, Return, Writing
      <3> QED BY <2>3, <3>1, CreateFailsType DEF TypeInv, TypeOK
    <2> QED BY <2>1, <2>2, <2>3 DEF Load
  <1>3. UNCHANGED <<src, origin, running, user, index, target, result, sessions, crashes>>
    BY DEF Load
  <1>4. orphan' \in {"no", "left", "used"}
    BY OrphanType DEF Load
  <1> QED BY <1>1, <1>2, <1>3, <1>4 DEF TypeInv, TypeOK, HasTmp, user

LEMMA StartFirstType == TypeInv /\ StartFirst => TypeInv'
  <1> SUFFICES ASSUME TypeInv, StartFirst PROVE TypeInv'
    OBVIOUS
  <1> DEFINE unfetch == UnfetchAndUncompleted(slices)
             total == Cardinality(unfetch) + Cardinality(Live)
             share == IF total <= ThreadNum THEN total ELSE ThreadNum
             next == FirstWithStatus(slices, "UNFETCH")
  <1>1. slices \in Seq(SliceRecord) /\ src \in Contents
    BY DEF TypeInv, TypeOK
  <1>2. share \in Nat
    <2>1. Cardinality(unfetch) \in Nat /\ Cardinality(Live) \in Nat
      BY <1>1, LiveIsFinite, UnfetchIsFinite
    <2> HIDE DEF unfetch
    <2> QED BY <2>1, EntryHandlerAssumption
  <1>3. \/ UNCHANGED slices
        \/ \E code \in StartCodes : StartSlice(next, share, code)
    BY DEF StartFirst
  <1> HIDE DEF share, next
  <1>4. slices' \in Seq(SliceRecord)
    BY <1>1, <1>2, <1>3, StartSliceType
  <1>5. pc' \in PC /\ ret' \in ResultCode
    BY DEF StartFirst, Return, StartCodes, TypeInv, TypeOK, PC, ResultCode
  <1>6. /\ pc \in Writing
        /\ UNCHANGED <<src, origin, cur, running, check, user, disk, result, history>>
    BY DEF StartFirst, Writing
  <1> QED BY <1>4, <1>5, <1>6 DEF TypeInv, TypeOK, HasTmp, user, disk, history

-----------------------------------------------------------------------------
(* Inside curl_multi_perform. *)

LEMMA DeliverType ==
  ASSUME TypeInv, NEW i \in DOMAIN slices, Deliver(i)
  PROVE  TypeInv'
  <1> DEFINE data(n) == DataToWrite(slices[i], Chunk(slices[i], n))
  <1>1. slices \in Seq(SliceRecord) /\ slices[i] \in SliceRecord /\ pc \in Writing
    BY DEF Deliver, TypeInv, TypeOK, Writing
  <1>2. PICK n \in 1..MaxChunk : \E w \in Accepted(data(n)) :
          /\ WriteTmp(i, data(n), w)
          /\ slices' = [slices EXCEPT ![i] = OnNewData(slices[i], n, w)]
    BY DEF Deliver
  <1>3. n \in Nat
    BY SliceAssumption
  <1>4. data(n) \in Seq(Byte)
    BY <1>1, <1>3, ChunkType, DataToWriteType
  <1> HIDE DEF data
  <1>5. PICK w \in Accepted(data(n)) :
          /\ WriteTmp(i, data(n), w)
          /\ slices' = [slices EXCEPT ![i] = OnNewData(slices[i], n, w)]
    BY <1>2
  <1> DEFINE v == OnNewData(slices[i], n, w)
  <1>6. w \in Nat => v \in SliceRecord
    BY <1>1, <1>3, OnNewDataType
  <1>7. slices' = [slices EXCEPT ![i] = v]
    BY <1>5
  <1> HIDE DEF v
  <1>8. tmp' \in File /\ slices' \in Seq(SliceRecord)
    BY <1>1, <1>4, <1>5, <1>6, <1>7, SliceWriteType
  <1>9. UNCHANGED <<pc, src, origin, cur, running, check, ret, user, index, target,
                    result, history>>
    BY DEF Deliver
  <1> QED BY <1>8, <1>9 DEF TypeInv, TypeOK, HasTmp, user, history

LEMMA TransferEndType ==
  ASSUME TypeInv, NEW i \in DOMAIN slices, TransferEnd(i)
  PROVE  TypeInv'
  <1>1. slices \in Seq(SliceRecord) /\ slices[i] \in SliceRecord
    BY DEF TypeInv, TypeOK
  <1>2. PICK how \in {"ok", "err"} : slices' = [slices EXCEPT ![i].curl = how]
    BY DEF TransferEnd
  <1> DEFINE v == [slices[i] EXCEPT !.curl = how]
  <1>3. v \in SliceRecord
    BY <1>1 DEF SliceRecord, CurlState
  <1>4. slices' = [slices EXCEPT ![i] = v]
    BY <1>2
  <1> HIDE DEF v
  <1>5. slices' \in Seq(SliceRecord)
    BY <1>1, <1>3, <1>4, ExceptType
  <1>6. UNCHANGED <<pc, src, origin, cur, running, check, ret, user, disk, result, history>>
    BY DEF TransferEnd
  <1> QED BY <1>5, <1>6 DEF TypeInv, TypeOK, HasTmp, user, disk, history

\* The end of an iteration leads back to the head of the loop or to the end.
LEMMA LoopEndType ==
  ASSUME TypeInv, NEW n, LoopEnd(n)
  PROVE  /\ pc' \in PC /\ ret' \in ResultCode /\ cur' \in Nat \ {0}
         /\ check' \in BOOLEAN
  <1>1. CASE Finish(TRUE)
    <2>1. check' \in BOOLEAN
      BY <1>1 DEF Finish
    <2>2. pc' \in PC /\ ret' \in ResultCode /\ cur' \in Nat \ {0}
      BY <1>1 DEF Finish, PC, ResultCode
    <2> QED BY <2>1, <2>2
  <1>2. CASE pc' = "loop" /\ UNCHANGED <<cur, check, ret>>
    BY <1>2 DEF TypeInv, TypeOK, PC
  <1> QED BY <1>1, <1>2 DEF LoopEnd

LEMMA PerformReturnType == TypeInv /\ PerformReturn => TypeInv'
  <1> SUFFICES ASSUME TypeInv, PerformReturn PROVE TypeInv'
    OBVIOUS
  <1>1. running' \in Nat
    BY LiveIsFinite DEF PerformReturn, TypeInv, TypeOK
  <1>2. /\ pc' \in PC /\ ret' \in ResultCode /\ cur' \in Nat \ {0}
        /\ check' \in BOOLEAN
    <2>1. CASE LoopEnd(running')
      BY <2>1, LoopEndType
    <2>2. CASE pc' \in {"loop", "update"} /\ UNCHANGED <<cur, check, ret>>
      BY <2>2 DEF TypeInv, TypeOK, PC
    <2> QED BY <2>1, <2>2 DEF PerformReturn
  <1>3. pc \in Writing /\ UNCHANGED <<src, origin, slices, user, disk, result, history>>
    BY DEF PerformReturn, Writing
  <1> QED BY <1>1, <1>2, <1>3 DEF TypeInv, TypeOK, HasTmp, user, disk, history

-----------------------------------------------------------------------------
(* The loop. *)

LEMMA LoopTopType == TypeInv /\ LoopTop => TypeInv'
  <1> SUFFICES ASSUME TypeInv, LoopTop PROVE TypeInv'
    OBVIOUS
  <1>1. /\ pc' \in PC /\ ret' \in ResultCode /\ cur' \in Nat \ {0}
        /\ check' \in BOOLEAN
    <2>1. CASE Finish(TRUE)
      <3>1. check' \in BOOLEAN
        BY <2>1 DEF Finish
      <3>2. pc' \in PC /\ ret' \in ResultCode /\ cur' \in Nat \ {0}
        BY <2>1 DEF Finish, PC, ResultCode
      <3> QED BY <3>1, <3>2
    <2>2. CASE /\ pc' \in {"flush", "perform"} /\ cur' \in {1, cur}
               /\ UNCHANGED <<check, ret>>
      BY <2>2 DEF TypeInv, TypeOK, PC
    <2> QED BY <2>1, <2>2 DEF LoopTop
  <1>2. pc \in Writing /\ UNCHANGED <<src, origin, slices, running, user, disk, result, history>>
    BY DEF LoopTop, Writing
  <1> QED BY <1>1, <1>2 DEF TypeInv, TypeOK, HasTmp, user, disk, history

LEMMA FlushSliceType == TypeInv /\ FlushSlice => TypeInv'
  <1> SUFFICES ASSUME TypeInv, FlushSlice PROVE TypeInv'
    OBVIOUS
  <1>1. slices \in Seq(SliceRecord) /\ tmp \in File /\ pc \in Writing
    BY DEF FlushSlice, TypeInv, TypeOK, HasTmp, Writing
  <1>2. tmp' \in File /\ slices' \in Seq(SliceRecord)
    <2>1. CASE cur \in DOMAIN slices
      <3> DEFINE data == slices[cur].cache
      <3>1. slices[cur] \in SliceRecord
        BY <1>1, <2>1
      <3>2. data \in Seq(Byte)
        BY <3>1 DEF SliceRecord
      <3>3. PICK w \in Accepted(data) :
              /\ WriteTmp(cur, data, w)
              /\ slices' = [slices EXCEPT ![cur] = FlushToDisk(slices[cur], w)]
        BY <2>1 DEF FlushSlice
      <3> DEFINE v == FlushToDisk(slices[cur], w)
      <3>4. w \in Nat => v \in SliceRecord
        BY <3>1, FlushType
      <3>5. slices' = [slices EXCEPT ![cur] = v]
        BY <3>3
      <3> HIDE DEF data, v
      <3> QED BY <1>1, <2>1, <3>2, <3>3, <3>4, <3>5, SliceWriteType
    <2>2. CASE cur \notin DOMAIN slices
      BY <1>1, <2>2 DEF FlushSlice
    <2> QED BY <2>1, <2>2
  <1>3. pc' \in PC /\ cur' \in Nat \ {0}
    BY DEF FlushSlice, TypeInv, TypeOK, PC
  <1>4. UNCHANGED <<src, origin, running, check, ret, user, index, target, result, history>>
    BY DEF FlushSlice
  <1> QED BY <1>2, <1>3, <1>4 DEF TypeInv, TypeOK, HasTmp, user, history

LEMMA OpenIndexType == TypeInv /\ OpenIndex => TypeInv'
  <1> SUFFICES ASSUME TypeInv, OpenIndex PROVE TypeInv'
    OBVIOUS
  <1>1. pc \in Writing /\ pc' \in PC
    BY DEF OpenIndex, PC, Writing
  <1>2. index' \in Index \cup {NoFile, TornIndex}
    BY DEF OpenIndex, TypeInv, TypeOK
  <1>3. UNCHANGED <<memory, user, tmp, target, result, sessions, crashes>>
    BY DEF OpenIndex
  <1>4. orphan' \in {"no", "left", "used"}
    BY OrphanType DEF OpenIndex
  <1> QED BY <1>1, <1>2, <1>3, <1>4 DEF TypeInv, TypeOK, HasTmp, memory, user

LEMMA WriteIndexType == TypeInv /\ WriteIndex => TypeInv'
  <1> SUFFICES ASSUME TypeInv, WriteIndex PROVE TypeInv'
    OBVIOUS
  <1>1. pc \in Writing /\ pc' \in PC
    BY DEF WriteIndex, PC, Writing
  <1>2. index' \in Index \cup {TornIndex}
    BY IndexOfType DEF WriteIndex, TypeInv, TypeOK
  <1>3. UNCHANGED <<memory, user, tmp, target, result, history>>
    BY DEF WriteIndex
  <1> QED BY <1>1, <1>2, <1>3 DEF TypeInv, TypeOK, HasTmp, memory, user, history

LEMMA UpdateSliceStatusType == TypeInv /\ UpdateSliceStatus => TypeInv'
  <1> SUFFICES ASSUME TypeInv, UpdateSliceStatus PROVE TypeInv'
    OBVIOUS
  <1> DEFINE updated(i) ==
        LET st == StatusAfter(slices[i])
        IN  [slices[i] EXCEPT !.status = st,
                              !.failed = IF st = "DOWNLOAD_FAILED" THEN @ + 1 ELSE @]
  <1>1. slices \in Seq(SliceRecord) /\ tmp \in File /\ pc \in Writing
    BY DEF UpdateSliceStatus, TypeInv, TypeOK, HasTmp, Writing
  <1>2. tmp' \in File /\ slices' \in Seq(SliceRecord)
    <2>1. CASE \E i \in Done : \E w \in Accepted(StopWrites(updated(i))) :
                 /\ WriteTmp(i, StopWrites(updated(i)), w)
                 /\ slices' = [slices EXCEPT ![i] = Stopped(updated(i), w)]
      <3>1. PICK i \in Done : \E w \in Accepted(StopWrites(updated(i))) :
                 /\ WriteTmp(i, StopWrites(updated(i)), w)
                 /\ slices' = [slices EXCEPT ![i] = Stopped(updated(i), w)]
        BY <2>1
      <3> DEFINE s == updated(i)
                 data == StopWrites(s)
      <3>2. i \in DOMAIN slices /\ slices[i] \in SliceRecord
        BY <1>1 DEF Done
      <3>3. StatusAfter(slices[i]) \in SliceStatus
        BY DEF StatusAfter, SliceStatus
      <3>4. s \in SliceRecord
        <4> DEFINE t == slices[i]
                   st == StatusAfter(t)
                   n == IF st = "DOWNLOAD_FAILED" THEN t.failed + 1 ELSE t.failed
        <4>1. s = [t EXCEPT !.status = st, !.failed = n]
          OBVIOUS
        <4>2. t \in SliceRecord /\ st \in SliceStatus
          BY <3>2, <3>3
        <4> HIDE DEF s, t, st
        <4>3. n \in Nat
          BY <4>2 DEF SliceRecord
        <4> HIDE DEF n
        <4> QED BY <4>1, <4>2, <4>3 DEF SliceRecord
      <3>5. PICK w \in Accepted(data) :
              WriteTmp(i, data, w) /\ slices' = [slices EXCEPT ![i] = Stopped(s, w)]
        BY <3>1
      <3> HIDE DEF s
      <3> DEFINE v == Stopped(s, w)
      <3>6. data \in Seq(Byte) /\ (w \in Nat => v \in SliceRecord)
        BY <3>4, StoppedType
      <3>7. slices' = [slices EXCEPT ![i] = v]
        BY <3>5
      <3> HIDE DEF data, v
      <3> QED BY <1>1, <3>2, <3>5, <3>6, <3>7, SliceWriteType
    <2>2. CASE UNCHANGED <<slices, tmp>>
      BY <1>1, <2>2
    <2> QED BY <2>1, <2>2 DEF UpdateSliceStatus
  <1>3. pc' \in PC
    BY DEF UpdateSliceStatus, TypeInv, TypeOK, PC
  <1>4. UNCHANGED <<src, origin, cur, running, check, ret, user, index, target,
                    result, history>>
    BY DEF UpdateSliceStatus
  <1> QED BY <1>2, <1>3, <1>4 DEF TypeInv, TypeOK, HasTmp, user, history

LEMMA ScheduleNoneType == TypeInv /\ ScheduleNone => TypeInv'
  <1> SUFFICES ASSUME TypeInv, ScheduleNone PROVE TypeInv'
    OBVIOUS
  <1> DEFINE first == FirstWithStatus(slices, "CURL_OK_BUT_COMPLETED_NOT_SURE")
             v == [slices[first] EXCEPT !.status = "DOWNLOAD_COMPLETED"]
  <1>1. slices \in Seq(SliceRecord) /\ pc \in Writing
    BY DEF ScheduleNone, TypeInv, TypeOK, Writing
  <1>2. slices' = slices \/ slices' = [slices EXCEPT ![first] = v]
    BY DEF ScheduleNone
  <1>3. first \in DOMAIN slices => v \in SliceRecord
    <2> HIDE DEF first
    <2>1. first \in DOMAIN slices => slices[first] \in SliceRecord
      BY <1>1
    <2> QED BY <2>1 DEF SliceRecord, SliceStatus
  <1> HIDE DEF first, v
  <1>4. slices' \in Seq(SliceRecord)
    BY <1>1, <1>2, <1>3, ExceptType
  <1>5. /\ pc' \in PC /\ ret' \in ResultCode /\ cur' \in Nat \ {0}
        /\ check' \in BOOLEAN
    BY LoopEndType DEF ScheduleNone
  <1>6. UNCHANGED <<src, origin, running, user, disk, result, history>>
    BY DEF ScheduleNone
  <1> QED BY <1>1, <1>4, <1>5, <1>6 DEF TypeInv, TypeOK, HasTmp, user, disk, history

LEMMA ScheduleNextType == TypeInv /\ ScheduleNext => TypeInv'
  <1> SUFFICES ASSUME TypeInv, ScheduleNext PROVE TypeInv'
    OBVIOUS
  <1>1. /\ slices \in Seq(SliceRecord) /\ src \in Contents /\ pc \in Writing
        /\ running + 1 \in Nat
    BY DEF ScheduleNext, TypeInv, TypeOK, Writing
  <1>2. slices' \in Seq(SliceRecord)
    BY <1>1, StartSliceType DEF ScheduleNext
  <1>3. /\ pc' \in PC /\ ret' \in ResultCode /\ cur' \in Nat \ {0}
        /\ check' \in BOOLEAN
    <2>1. CASE \E n : LoopEnd(n)
      BY <2>1, LoopEndType
    <2>2. CASE pc' = "performNew" /\ UNCHANGED <<cur, check, ret>>
      BY <2>2 DEF TypeInv, TypeOK, PC
    <2> QED BY <2>1, <2>2 DEF ScheduleNext
  <1>4. running' \in Nat
    BY DEF ScheduleNext, TypeInv, TypeOK
  <1>5. UNCHANGED <<src, origin, user, disk, result, history>>
    BY DEF ScheduleNext
  <1> QED BY <1>1, <1>2, <1>3, <1>4, <1>5
          DEF TypeInv, TypeOK, HasTmp, user, disk, history

-----------------------------------------------------------------------------
(* finishDownloadProgress and what follows it. *)

LEMMA StopSliceType == TypeInv /\ StopSlice => TypeInv'
  <1> SUFFICES ASSUME TypeInv, StopSlice PROVE TypeInv'
    OBVIOUS
  <1>1. slices \in Seq(SliceRecord) /\ tmp \in File /\ pc \in Writing
    BY DEF StopSlice, TypeInv, TypeOK, HasTmp, Writing
  <1>2. tmp' \in File /\ slices' \in Seq(SliceRecord)
    <2>1. CASE cur \in DOMAIN slices
      <3> DEFINE s == slices[cur]
                 data == StopWrites(s)
      <3>1. s \in SliceRecord
        BY <1>1, <2>1
      <3>2. PICK w \in Accepted(data) :
              /\ WriteTmp(cur, data, w)
              /\ slices' = [slices EXCEPT ![cur] = Stopped(s, w)]
        BY <2>1 DEF StopSlice
      <3> HIDE DEF s
      <3> DEFINE v == Stopped(s, w)
      <3>3. data \in Seq(Byte) /\ (w \in Nat => v \in SliceRecord)
        BY <3>1, StoppedType
      <3>4. slices' = [slices EXCEPT ![cur] = v]
        BY <3>2
      <3> HIDE DEF data, v
      <3> QED BY <1>1, <2>1, <3>2, <3>3, <3>4, SliceWriteType
    <2>2. CASE cur \notin DOMAIN slices
      BY <1>1, <2>2 DEF StopSlice
    <2> QED BY <2>1, <2>2
  <1>3. pc' \in PC /\ cur' \in Nat \ {0} /\ ret' \in ResultCode
    BY DEF StopSlice, TypeInv, TypeOK, PC, ResultCode
  <1>4. UNCHANGED <<src, origin, running, check, user, index, target, result, history>>
    BY DEF StopSlice
  <1> QED BY <1>2, <1>3, <1>4 DEF TypeInv, TypeOK, HasTmp, user, history

LEMMA CheckCompletedType == TypeInv /\ CheckCompleted => TypeInv'
  <1> SUFFICES ASSUME TypeInv, CheckCompleted PROVE TypeInv'
    OBVIOUS
  <1>1. pc \in Writing /\ pc' \in PC /\ ret' \in ResultCode
    BY DEF CheckCompleted, Fail, Return, TypeInv, TypeOK, PC, Writing, ResultCode
  <1>2. UNCHANGED <<src, origin, slices, cur, running, check, user, disk, result, history>>
    BY DEF CheckCompleted
  <1> QED BY <1>1, <1>2 DEF TypeInv, TypeOK, HasTmp, user, disk, history

LEMMA VerifyHashType == TypeInv /\ VerifyHash => TypeInv'
  <1> SUFFICES ASSUME TypeInv, VerifyHash PROVE TypeInv'
    OBVIOUS
  <1>1. pc \in Writing /\ pc' \in PC /\ ret' \in ResultCode
    BY DEF VerifyHash, Fail, Return, TypeInv, TypeOK, PC, Writing, ResultCode
  <1>2. UNCHANGED <<src, origin, slices, cur, running, check, user, disk, result, history>>
    BY DEF VerifyHash
  <1> QED BY <1>1, <1>2 DEF TypeInv, TypeOK, HasTmp, user, disk, history

LEMMA RenameTmpType == TypeInv /\ RenameTmp => TypeInv'
  <1> SUFFICES ASSUME TypeInv, RenameTmp PROVE TypeInv'
    OBVIOUS
  <1>1. tmp \in File /\ pc' \in PC /\ pc' \notin Writing /\ ret' \in ResultCode
    BY DEF RenameTmp, Fail, Return, TypeInv, TypeOK, HasTmp, PC, Writing, ResultCode
  <1>2. tmp' \in File \cup {NoFile} /\ target' \in File \cup {NoFile}
    BY <1>1 DEF RenameTmp, TypeInv, TypeOK
  <1>3. UNCHANGED <<src, origin, slices, cur, running, check, user, index, result,
                    sessions, crashes>>
    BY DEF RenameTmp
  <1>4. orphan' \in {"no", "left", "used"}
    BY OrphanType DEF RenameTmp
  <1> QED BY <1>1, <1>2, <1>3, <1>4 DEF TypeInv, TypeOK, HasTmp, user

LEMMA RemoveIndexType == TypeInv /\ RemoveIndex => TypeInv'
  <1> SUFFICES ASSUME TypeInv, RemoveIndex PROVE TypeInv'
    OBVIOUS
  <1>1. pc' \in PC /\ pc' \notin Writing /\ ret' \in ResultCode
    BY DEF RemoveIndex, Return, PC, Writing, ResultCode
  <1>2. index' \in Index \cup {NoFile, TornIndex}
    BY DEF RemoveIndex, TypeInv, TypeOK
  <1>3. orphan' \in {"no", "left", "used"}
    BY OrphanType DEF RemoveIndex
  <1>4. UNCHANGED <<src, origin, slices, cur, running, check, user, tmp, target, result,
                    sessions, crashes>>
    BY DEF RemoveIndex
  <1> QED BY <1>1, <1>2, <1>3, <1>4 DEF TypeInv, TypeOK, HasTmp, user

LEMMA CleanupType == TypeInv /\ Cleanup => TypeInv'
  <1> SUFFICES ASSUME TypeInv, Cleanup PROVE TypeInv'
    OBVIOUS
  <1>1. slices' \in Seq(SliceRecord)
    BY DEF Cleanup
  <1>2. check' \in BOOLEAN /\ stopEv' \in BOOLEAN
    BY DEF Cleanup
  <1>3. /\ pc' \in PC /\ pc' \notin Writing /\ ret' \in ResultCode
        /\ result' \in ResultCode
        /\ origin' \in Nat /\ cur' \in Nat \ {0} /\ running' \in Nat
    BY DEF Cleanup, TypeInv, TypeOK, PC, ResultCode, Writing
  <1>4. UNCHANGED <<src, userEv, paused, disk, history>>
    BY DEF Cleanup
  <1> QED BY <1>1, <1>2, <1>3, <1>4 DEF TypeInv, TypeOK, HasTmp, disk, history

-----------------------------------------------------------------------------
LEMMA WorkerType == TypeInv /\ Worker => TypeInv'
  BY LaunchType, FetchType, LoadType, StartFirstType, PerformReturnType,
     LoopTopType, FlushSliceType, OpenIndexType, WriteIndexType,
     UpdateSliceStatusType, ScheduleNoneType, ScheduleNextType, StopSliceType,
     CheckCompletedType, VerifyHashType, RenameTmpType, RemoveIndexType,
     CleanupType
     DEF Worker

LEMMA StutterType == TypeInv /\ UNCHANGED vars => TypeInv'
  BY DEF vars, memory, user, disk, history, TypeInv, TypeOK, HasTmp

LEMMA NextType == TypeInv /\ [Next]_vars => TypeInv'
  <1> SUFFICES ASSUME TypeInv, [Next]_vars PROVE TypeInv'
    OBVIOUS
  <1>1. CASE Worker
    BY <1>1, WorkerType
  <1>2. CASE Network
    BY <1>2, DeliverType, TransferEndType DEF Network
  <1>3. CASE User
    BY <1>3, UserType
  <1>4. CASE Crash
    BY <1>4, CrashType
  <1>5. CASE Rest \/ UNCHANGED vars
    BY <1>5, StutterType DEF Rest
  <1> QED BY <1>1, <1>2, <1>3, <1>4, <1>5 DEF Next

(* Every variable keeps its type, and wherever the worker writes to the      *)
(* temporary file there is one: whatever servers send, whatever fails and    *)
(* whenever the process dies (asyncTaskProcess and all it calls).            *)
THEOREM TypeCorrect == Spec => []TypeOK
  <1>1. Init => TypeInv
    BY InitType
  <1>2. TypeInv /\ [Next]_vars => TypeInv'
    BY NextType
  <1>3. TypeInv => TypeOK
    BY DEF TypeInv
  <1> QED BY <1>1, <1>2, <1>3, PTL DEF Spec

(* The temporary file is there in every state in which slices are at work.   *)
THEOREM TmpPresent == Spec => []HasTmp
  <1>1. Init => TypeInv
    BY InitType
  <1>2. TypeInv /\ [Next]_vars => TypeInv'
    BY NextType
  <1>3. TypeInv => HasTmp
    BY DEF TypeInv
  <1> QED BY <1>1, <1>2, <1>3, PTL DEF Spec
=============================================================================
