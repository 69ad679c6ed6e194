---------------------------- MODULE TransferProofs ----------------------------
(* The data of a download, for every size, content and number of slices,     *)
(* every cut of the data into chunks, every stop and every crash: as long as  *)
(* no session is misled, what slices and index claim is there, one succeeds  *)
(* with the resource only, EntryHandler implements FileTransfer, and no byte *)
(* that is in the file is asked for again.                                   *)
EXTENDS ConnectionProofs

-----------------------------------------------------------------------------
(* Files and slices. *)

\* What file f holds of content c, file g holds.
Keeps(f, g, c) ==
  \A first, n \in Nat : Holds(f, c, first, n) => Holds(g, c, first, n)

\* Every byte of f is in its place, or not there.
Clean(f, c) ==
  /\ f \in File
  /\ Len(f) <= SizeOf[c]
  /\ \A k \in 1..Len(f) : f[k] \in {Hole, <<c, k>>}

\* data is what content c has behind its first pos bytes.
Follows(data, c, pos) == data = [k \in 1..Len(data) |-> <<c, pos + k>>]

\* Writing what follows keeps a clean file clean, loses nothing that was there
\* and adds what is written.
LEMMA WriteKeeps ==
  ASSUME NEW c \in Contents, NEW f, Clean(f, c), NEW pos \in Nat, pos <= Len(f),
         NEW data \in Seq(Byte), Follows(data, c, pos), pos + Len(data) <= SizeOf[c]
  PROVE  LET g == Write(f, pos, data)
         IN  /\ Clean(g, c) /\ Keeps(f, g, c)
             /\ \A first, n \in Nat :
                  Holds(f, c, first, n) /\ first + n = pos
                    => Holds(g, c, first, n + Len(data))
  <1> DEFINE end == pos + Len(data)
             size == Larger(Len(f), end)
             byte(k) == IF k > pos /\ k <= end THEN data[k - pos]
                        ELSE IF k <= Len(f) THEN f[k] ELSE Hole
             g == Write(f, pos, data)
  <1>1. f \in Seq(Byte) /\ Len(f) \in Nat /\ Len(data) \in Nat /\ end \in Nat /\ size \in Nat
        /\ size >= Len(f) /\ size >= end /\ SizeOf[c] \in Nat
    BY ContentsAssumption DEF File, Larger, Clean
  <1>2. g \in File
    BY WriteType DEF Clean
  <1>3. CASE data = <<>>
    <2>1. g = f /\ Len(data) = 0
      BY <1>3 DEF Write
    <2> QED BY <2>1 DEF Keeps
  <1>4. CASE data # <<>>
    <2>1. g = [k \in 1..size |-> byte(k)]
      BY <1>4 DEF Write
    <2>2. Len(g) = size /\ \A k \in 1..size : g[k] = byte(k)
      <3> HIDE DEF byte, size, g
      <3>1. DOMAIN g = 1..size
        BY <2>1
      <3> QED BY <1>1, <1>2, <2>1, <3>1 DEF File
    <2>3. \A k \in 1..size : k > pos /\ k <= end => g[k] = <<c, k>>
      <3> SUFFICES ASSUME NEW k \in 1..size, k > pos, k <= end PROVE g[k] = <<c, k>>
        OBVIOUS
      <3>1. k - pos \in 1..Len(data)
        BY <1>1
      <3>2. data[k - pos] = <<c, pos + (k - pos)>>
        BY <3>1 DEF Follows
      <3>3. pos + (k - pos) = k
        BY <1>1
      <3> HIDE DEF g, size
      <3> QED BY <2>2, <3>2, <3>3
    <2>4. \A k \in 1..Len(f) : ~(k > pos /\ k <= end) => g[k] = f[k]
      <3> HIDE DEF g, size, end
      <3> QED BY <1>1, <2>2
    <2>5. \A k \in 1..size : (k > pos /\ k <= end) \/ k \in 1..Len(f)
      BY <1>1 DEF Larger
    <2> HIDE DEF g, byte
    <2>6. Clean(g, c)
      <3>1. Len(g) <= SizeOf[c]
        BY <1>1, <2>2 DEF Larger, Clean
      <3>2. \A k \in 1..Len(g) : g[k] \in {Hole, <<c, k>>}
        <4> HIDE DEF size, end
        <4> QED BY <2>2, <2>3, <2>4, <2>5 DEF Clean
      <3> QED BY <1>2, <3>1, <3>2 DEF Clean
    <2>7. Keeps(f, g, c)
      <3> SUFFICES ASSUME NEW first \in Nat, NEW n \in Nat, Holds(f, c, first, n)
                   PROVE  Holds(g, c, first, n)
        BY DEF Keeps
      <3>1. first + n <= Len(g)
        BY <1>1, <2>2 DEF Holds
      <3>2. ASSUME NEW k \in first + 1 .. first + n PROVE g[k] = <<c, k>>
        <4>1. k \in 1..Len(f) /\ f[k] = <<c, k>>
          BY <1>1 DEF Holds
        <4> HIDE DEF size, end
        <4> QED BY <1>1, <2>3, <2>4, <4>1
      <3> QED BY <3>1, <3>2 DEF Holds
    <2>8. ASSUME NEW first \in Nat, NEW n \in Nat, Holds(f, c, first, n), first + n = pos
          PROVE  Holds(g, c, first, n + Len(data))
      <3>1. first + (n + Len(data)) <= Len(g)
        BY <1>1, <2>2, <2>8
      <3>2. ASSUME NEW k \in first + 1 .. first + (n + Len(data)) PROVE g[k] = <<c, k>>
        <4>0. k \in 1..size
          BY <1>1, <2>8
        <4>1. CASE k > pos
          BY <1>1, <2>3, <2>8, <4>0, <4>1
        <4>2. CASE k <= pos
          <5>1. k \in 1..Len(f) /\ f[k] = <<c, k>>
            BY <1>1, <2>8, <4>2 DEF Holds
          <5> HIDE DEF size, end
          <5> QED BY <1>1, <2>3, <2>4, <5>1
        <4> QED BY <4>1, <4>2
      <3> QED BY <3>1, <3>2 DEF Holds
    <2> QED BY <2>6, <2>7, <2>8 DEF g
  <1> QED BY <1>3, <1>4

\* How far into content c the slice s may reach.
Within(s, c, k) == k <= SizeOf[c] /\ (s.end # -1 => k <= s.end + 1)

\* A slice and what arrives for it, against the file f of content c.
SliceOK(s, f, c) ==
  LET have == s.begin + s.disk + Len(s.cache) IN
  /\ Holds(f, c, s.begin, s.disk)
  /\ Follows(s.cache, c, s.begin + s.disk)
  /\ Within(s, c, have)
  /\ s.status = "UNFETCH" => s.cache = <<>> /\ s.curl = "none"
  /\ s.curl = "live" => /\ s.reply.from = c /\ s.reply.pos = have
                        /\ Within(s, c, s.reply.lim)

\* A slice has nothing to fear from a file that keeps what it holds.
LEMMA KeepsSlice ==
  ASSUME NEW c \in Contents, NEW f, NEW g, Keeps(f, g, c), NEW s \in SliceRecord,
         SliceOK(s, f, c)
  PROVE  SliceOK(s, g, c)
  <1>1. s.begin \in Nat /\ s.disk \in Nat
    BY DEF SliceRecord
  <1>2. Holds(g, c, s.begin, s.disk)
    BY <1>1 DEF Keeps, SliceOK
  <1> QED BY <1>2 DEF SliceOK

\* Which sequences follow.
LEMMA SeqFollows ==
  ASSUME NEW data \in Seq(Byte), NEW c, NEW pos,
         \A k \in 1..Len(data) : data[k] = <<c, pos + k>>
  PROVE  Follows(data, c, pos)
  <1>1. DOMAIN data = 1..Len(data) /\ data = [k \in DOMAIN data |-> data[k]]
    OBVIOUS
  <1> QED BY <1>1 DEF Follows

\* Nothing follows always.
LEMMA EmptyFollows ==
  ASSUME NEW c, NEW pos PROVE Follows(<<>>, c, pos)
  BY DEF Follows

\* A slice just made, or made of what an index claims.
LEMMA NewSliceOK ==
  ASSUME NEW c \in Contents, NEW f, Clean(f, c), NEW begin \in Nat, NEW end \in Int,
         NEW capacity \in Nat, Holds(f, c, begin, capacity),
         end # -1 => begin + capacity <= end + 1
  PROVE  SliceOK(NewSlice(begin, end, capacity), f, c)
  <1> DEFINE s == NewSlice(begin, end, capacity)
  <1>1. /\ s.begin = begin /\ s.end = end /\ s.disk = capacity /\ s.cache = <<>>
        /\ s.curl = "none"
    BY DEF NewSlice
  <1>2. begin + capacity <= SizeOf[c]
    BY ContentsAssumption DEF Clean, Holds, File
  <1> HIDE DEF s
  <1>3. SliceOK(s, f, c)
    BY <1>1, <1>2, EmptyFollows DEF SliceOK, Within
  <1> QED BY <1>3 DEF s

\* A transfer that is begun where the data of a slice ends.
LEMMA StartedOK ==
  ASSUME NEW c \in Contents, NEW f, NEW s \in SliceRecord, SliceOK(s, f, c),
         s.status = "UNFETCH", ReplyKinds \subseteq {"range"}, NEW r \in Replies(s, c),
         NEW buffer \in Int, NEW max_speed \in Int
  PROVE  SliceOK(Started(s, buffer, max_speed, r), f, c)
  <1> DEFINE v == Started(s, buffer, max_speed, r)
             first == s.begin + s.disk
             last == IF s.end # -1 /\ s.end < SizeOf[c] THEN s.end + 1 ELSE SizeOf[c]
  <1>1. r = [from |-> c, pos |-> first, lim |-> Larger(first, last)]
    BY DEF Replies
  <1>2. /\ v.begin = s.begin /\ v.end = s.end /\ v.disk = s.disk /\ v.cache = s.cache
        /\ v.status = "DOWNLOADING" /\ v.reply = r
    BY DEF Started, SliceRecord
  <1>3. s.cache = <<>> /\ Within(s, c, first)
    BY DEF SliceOK, SliceRecord
  <1>4. SizeOf[c] \in Nat /\ s.end \in Int /\ first \in Nat
    BY ContentsAssumption DEF SliceRecord
  <1>5. Within(s, c, Larger(first, last))
    BY <1>3, <1>4 DEF Within, Larger
  <1>6. r.from = c /\ r.pos = first /\ r.lim = Larger(first, last)
    BY <1>1
  <1> HIDE DEF v, last
  <1>7. SliceOK(v, f, c)
    BY <1>2, <1>3, <1>4, <1>5, <1>6 DEF SliceOK, Within
  <1> QED BY <1>7 DEF v

\* A transfer that could not be begun.
LEMMA StartFailedOK ==
  ASSUME NEW c \in Contents, NEW f, NEW s \in SliceRecord, SliceOK(s, f, c),
         s.status = "UNFETCH"
  PROVE  SliceOK(StartFailed(s), f, c)
  <1> DEFINE v == StartFailed(s)
  <1>1. /\ v.begin = s.begin /\ v.end = s.end /\ v.disk = s.disk /\ v.cache = s.cache
        /\ v.status = "DOWNLOAD_FAILED" /\ v.reply = s.reply /\ v.curl = s.curl
    BY DEF StartFailed, SliceRecord, SliceOK
  <1> HIDE DEF v
  <1>2. SliceOK(v, f, c)
    BY <1>1 DEF SliceOK, Within
  <1> QED BY <1>2 DEF v

\* What a live slice asks to be written when a chunk arrives.
LEMMA ChunkFollows ==
  ASSUME NEW c \in Contents, NEW f, NEW s \in SliceRecord, SliceOK(s, f, c),
         s.curl = "live", NEW n \in Nat \ {0}, s.reply.pos + n <= s.reply.lim
  PROVE  LET data == DataToWrite(s, Chunk(s, n))
             v == OnNewData(s, n, Len(data))
             pos == s.begin + s.disk
         IN  /\ data \in Seq(Byte) /\ Follows(data, c, pos)
             /\ pos + Len(data) <= SizeOf[c]
             /\ v.begin = s.begin /\ v.end = s.end /\ v.disk = s.disk + Len(data)
             /\ Follows(v.cache, c, pos + Len(data))
             /\ v.status = s.status /\ v.curl = "live" /\ v.reply.from = c
             /\ v.reply.pos = s.reply.pos + n /\ v.reply.lim = s.reply.lim
             /\ s.reply.pos + n = pos + Len(data) + Len(v.cache)
  <1> DEFINE chunk == Chunk(s, n)
             data == DataToWrite(s, chunk)
             v == OnNewData(s, n, Len(data))
             pos == s.begin + s.disk
             have == pos + Len(s.cache)
             held == IF Fits(s, n) THEN s.cache \o chunk
                     ELSE IF s.csize >= n THEN chunk ELSE <<>>
  <1>1. /\ s.cache \in Seq(Byte) /\ Len(s.cache) \in Nat /\ pos \in Nat
        /\ s.csize \in Nat /\ s.reply \in Reply
    BY DEF SliceRecord
  <1>2. /\ s.reply.from = c /\ s.reply.pos = have /\ s.reply.lim <= SizeOf[c]
        /\ s.reply.lim \in Nat /\ SizeOf[c] \in Nat
    BY <1>1, ContentsAssumption DEF SliceOK, Within, Reply
  <1>3. chunk \in Seq(Byte) /\ Len(chunk) = n
    BY ChunkType
  <1>4. \A k \in 1..n : chunk[k] = <<c, have + k>>
    BY <1>2 DEF Chunk
  <1>5. \A k \in 1..Len(s.cache) : s.cache[k] = <<c, pos + k>>
    BY DEF SliceOK, Follows
  <1> HIDE DEF chunk
  <1>6. Follows(s.cache, c, pos) /\ Follows(chunk, c, have)
    BY <1>3, <1>4, SeqFollows DEF SliceOK
  <1>7. /\ s.cache \o chunk \in Seq(Byte) /\ Len(s.cache \o chunk) = Len(s.cache) + n
        /\ Follows(s.cache \o chunk, c, pos)
    <2> DEFINE both == s.cache \o chunk
    <2>1. /\ both \in Seq(Byte) /\ Len(both) = Len(s.cache) + n
          /\ \A k \in 1..Len(s.cache) + n :
               both[k] = IF k <= Len(s.cache) THEN s.cache[k] ELSE chunk[k - Len(s.cache)]
      BY <1>1, <1>3
    <2>2. ASSUME NEW k \in 1..Len(both) PROVE both[k] = <<c, pos + k>>
      <3>1. CASE k <= Len(s.cache)
        BY <1>1, <1>5, <2>1, <3>1
      <3>2. CASE k > Len(s.cache)
        <4>1. k - Len(s.cache) \in 1..n
          BY <1>1, <2>1, <3>2
        <4>2. have + (k - Len(s.cache)) = pos + k
          BY <1>1
        <4> QED BY <1>1, <1>4, <2>1, <3>2, <4>1, <4>2
      <3> QED BY <1>1, <3>1, <3>2
    <2> HIDE DEF both
    <2>3. Follows(both, c, pos)
      BY <2>1, <2>2, SeqFollows
    <2> QED BY <2>1, <2>3 DEF both
  <1>8. /\ data \in Seq(Byte) /\ Follows(data, c, pos)
        /\ Follows(held, c, pos + Len(data))
        /\ pos + Len(data) + Len(held) = have + n
    <2>1. CASE Fits(s, n)
      <3>1. data = <<>> /\ held = s.cache \o chunk /\ Len(data) = 0
        BY <1>3, <2>1 DEF DataToWrite
      <3>2. Follows(data, c, pos) /\ data \in Seq(Byte)
        BY <3>1, EmptyFollows
      <3>3. pos + Len(data) = pos
        BY <1>1, <3>1
      <3>4. Follows(held, c, pos + Len(data))
        BY <1>7, <3>1, <3>3
      <3>5. pos + Len(data) + Len(held) = have + n
        BY <1>1, <1>7, <3>1
      <3> QED BY <3>2, <3>4, <3>5
    <2>2. CASE ~Fits(s, n) /\ s.csize >= n
      <3>1. data = s.cache /\ held = chunk
        BY <1>3, <2>2 DEF DataToWrite
      <3> QED BY <1>1, <1>3, <1>6, <3>1
    <2>3. CASE ~Fits(s, n) /\ ~(s.csize >= n)
      <3>1. data = s.cache \o chunk /\ held = <<>> /\ Len(held) = 0
        BY <1>3, <2>3 DEF DataToWrite
      <3>2. Follows(held, c, pos + Len(data))
        BY <3>1, EmptyFollows
      <3>3. pos + Len(data) + Len(held) = have + n
        BY <1>1, <1>7, <3>1
      <3> QED BY <1>7, <3>1, <3>2, <3>3
    <2> QED BY <2>1, <2>2, <2>3
  <1>9. /\ v.begin = s.begin /\ v.end = s.end /\ v.disk = s.disk + Len(data)
        /\ v.cache = held /\ v.status = s.status /\ v.curl = "live"
        /\ v.reply.from = c /\ v.reply.pos = s.reply.pos + n
        /\ v.reply.lim = s.reply.lim
    <2> HIDE DEF data
    <2>1. Chunk(s, n) = chunk /\ data = DataToWrite(s, chunk)
      BY DEF chunk, data
    <2>2. s.reply = [from |-> s.reply.from, pos |-> s.reply.pos, lim |-> s.reply.lim]
      BY <1>1 DEF Reply
    <2> QED BY <1>2, <2>1, <2>2 DEF OnNewData, SliceRecord, Reply
  <1> HIDE DEF held, v, data
  <1>10. Len(held) \in Nat /\ Len(data) \in Nat /\ pos + Len(data) <= SizeOf[c]
    <2>1. Len(held) \in Nat
      BY <1>1, <1>3, <1>7 DEF held
    <2>2. Len(data) \in Nat
      BY <1>8
    <2> QED BY <1>1, <1>2, <1>8, <2>1, <2>2
  <1>11. /\ data \in Seq(Byte) /\ Follows(data, c, pos)
         /\ pos + Len(data) <= SizeOf[c]
         /\ v.begin = s.begin /\ v.end = s.end /\ v.disk = s.disk + Len(data)
         /\ Follows(v.cache, c, pos + Len(data))
         /\ v.status = s.status /\ v.curl = "live" /\ v.reply.from = c
         /\ v.reply.pos = s.reply.pos + n /\ v.reply.lim = s.reply.lim
         /\ s.reply.pos + n = pos + Len(data) + Len(v.cache)
    BY <1>2, <1>8, <1>9, <1>10
  <1> HIDE DEF pos
  <1> QED BY <1>11 DEF v, data, chunk, pos

\* The write that goes with an operation on slice s: the file g it leaves, and
\* the slice that has the data on disk and nothing in its cache.
LEMMA WrittenOK ==
  ASSUME NEW c \in Contents, NEW f, Clean(f, c), NEW s \in SliceRecord, SliceOK(s, f, c),
         NEW data \in Seq(Byte), Follows(data, c, s.begin + s.disk),
         s.begin + s.disk + Len(data) <= SizeOf[c]
  PROVE  LET g == Write(f, s.begin + s.disk, data)
         IN  /\ Clean(g, c) /\ Keeps(f, g, c)
             /\ Holds(g, c, s.begin, s.disk + Len(data))
  <1>1. /\ s.begin \in Nat /\ s.disk \in Nat /\ s.begin + s.disk \in Nat
        /\ Holds(f, c, s.begin, s.disk) /\ s.begin + s.disk <= Len(f)
    BY DEF SliceRecord, SliceOK, Holds
  <1> QED BY <1>1, WriteKeeps

\* A chunk that arrives, and what of it goes to the file.
LEMMA OnNewDataOK ==
  ASSUME NEW c \in Contents, NEW f, Clean(f, c), NEW s \in SliceRecord, SliceOK(s, f, c),
         s.curl = "live", NEW n \in Nat \ {0}, s.reply.pos + n <= s.reply.lim
  PROVE  LET data == DataToWrite(s, Chunk(s, n))
             g == Write(f, s.begin + s.disk, data)
         IN  SliceOK(OnNewData(s, n, Len(data)), g, c)
  <1> DEFINE data == DataToWrite(s, Chunk(s, n))
             pos == s.begin + s.disk
             g == Write(f, pos, data)
             v == OnNewData(s, n, Len(data))
  <1>1. /\ data \in Seq(Byte) /\ Follows(data, c, pos)
        /\ pos + Len(data) <= SizeOf[c]
        /\ v.begin = s.begin /\ v.end = s.end /\ v.disk = s.disk + Len(data)
        /\ Follows(v.cache, c, pos + Len(data))
        /\ v.status = s.status /\ v.curl = "live" /\ v.reply.from = c
        /\ v.reply.pos = s.reply.pos + n /\ v.reply.lim = s.reply.lim
        /\ s.reply.pos + n = pos + Len(data) + Len(v.cache)
    BY ChunkFollows
  <1>2. /\ s.begin \in Nat /\ s.disk \in Nat /\ Len(data) \in Nat /\ s.end \in Int
        /\ SizeOf[c] \in Nat /\ s.reply.pos \in Nat /\ s.reply.lim \in Nat
    BY <1>1, ContentsAssumption DEF SliceRecord, Reply
  <1>3. Within(s, c, s.reply.lim) /\ s.status # "UNFETCH"
    BY DEF SliceOK
  <1> HIDE DEF data, v
  <1>4. Holds(g, c, s.begin, s.disk + Len(data))
    BY <1>1, WrittenOK
  <1>5. v.begin + v.disk = pos + Len(data)
    BY <1>1, <1>2
  <1>6. v.begin + v.disk + Len(v.cache) = s.reply.pos + n
    BY <1>1, <1>5
  <1>7. Within(v, c, s.reply.pos + n) /\ Within(v, c, v.reply.lim)
    BY <1>1, <1>2, <1>3 DEF Within
  <1> HIDE DEF g, pos
  <1>8. SliceOK(v, g, c)
    BY <1>1, <1>3, <1>4, <1>5, <1>6, <1>7 DEF SliceOK
  <1> QED BY <1>8 DEF data, v, g, pos

\* The cache of a slice is what follows its data on disk.
LEMMA CacheFollows ==
  ASSUME NEW c \in Contents, NEW f, NEW s \in SliceRecord, SliceOK(s, f, c)
  PROVE  /\ s.cache \in Seq(Byte) /\ Follows(s.cache, c, s.begin + s.disk)
         /\ s.begin + s.disk + Len(s.cache) <= SizeOf[c]
  BY DEF SliceRecord, SliceOK, Within

\* A cache that goes to the file.
LEMMA FlushOK ==
  ASSUME NEW c \in Contents, NEW f, Clean(f, c), NEW s \in SliceRecord, SliceOK(s, f, c)
  PROVE  SliceOK(FlushToDisk(s, Len(s.cache)), Write(f, s.begin + s.disk, s.cache), c)
  <1> DEFINE g == Write(f, s.begin + s.disk, s.cache)
             v == FlushToDisk(s, Len(s.cache))
  <1>1. Holds(g, c, s.begin, s.disk + Len(s.cache))
    BY CacheFollows, WrittenOK
  <1>2. /\ s.begin \in Nat /\ s.disk \in Nat /\ Len(s.cache) \in Nat /\ s.end \in Int
    BY DEF SliceRecord
  <1>3. /\ v.begin = s.begin /\ v.end = s.end /\ v.disk = s.disk + Len(s.cache)
        /\ v.cache = <<>> /\ v.status = s.status /\ v.curl = s.curl /\ v.reply = s.reply
    BY DEF FlushToDisk, SliceRecord
  <1> HIDE DEF g, v
  <1>4. v.begin + v.disk + Len(v.cache) = s.begin + s.disk + Len(s.cache)
    BY <1>2, <1>3
  <1>5. Follows(v.cache, c, v.begin + v.disk)
    BY <1>3, EmptyFollows
  <1>6. SliceOK(v, g, c)
    BY <1>1, <1>3, <1>4, <1>5 DEF SliceOK, Within
  <1> QED BY <1>6 DEF g, v

\* A slice that is stopped, its cache discarded or written.
LEMMA StoppedOK ==
  ASSUME NEW c \in Contents, NEW f, Clean(f, c), NEW s \in SliceRecord, SliceOK(s, f, c)
  PROVE  LET data == StopWrites(s)
         IN  /\ data \in Seq(Byte) /\ Follows(data, c, s.begin + s.disk)
             /\ s.begin + s.disk + Len(data) <= SizeOf[c]
             /\ SliceOK(Stopped(s, Len(data)), Write(f, s.begin + s.disk, data), c)
  <1> DEFINE data == StopWrites(s)
             g == Write(f, s.begin + s.disk, data)
             v == Stopped(s, Len(data))
  <1>1. /\ s.begin \in Nat /\ s.disk \in Nat /\ Len(s.cache) \in Nat /\ s.end \in Int
        /\ s.cache \in Seq(Byte) /\ SizeOf[c] \in Nat
    BY ContentsAssumption DEF SliceRecord
  <1>2. data = <<>> \/ (data = s.cache /\ ~Discards(s))
    BY DEF StopWrites
  <1>3. /\ data \in Seq(Byte) /\ Follows(data, c, s.begin + s.disk)
        /\ s.begin + s.disk + Len(data) <= SizeOf[c]
    <2>1. CASE data = <<>>
      <3>1. Follows(data, c, s.begin + s.disk)
        BY <2>1, EmptyFollows
      <3>2. s.begin + s.disk + Len(data) <= SizeOf[c]
        BY <1>1, <2>1 DEF SliceOK, Within
      <3> QED BY <2>1, <3>1, <3>2
    <2>2. CASE data = s.cache
      BY <2>2, CacheFollows
    <2> QED BY <1>2, <2>1, <2>2
  <1>4. /\ v.begin = s.begin /\ v.end = s.end
        /\ v.disk = (IF Discards(s) THEN 0 ELSE s.disk + Len(data))
        /\ v.cache = <<>> /\ v.status = s.status /\ v.curl = "none"
    BY DEF Stopped, SliceRecord
  <1> HIDE DEF data, v
  <1>5. Clean(g, c) /\ Keeps(f, g, c) /\ Holds(g, c, s.begin, s.disk + Len(data))
    BY <1>3, WrittenOK
  <1>6. Holds(g, c, v.begin, v.disk) /\ v.disk \in Nat /\ v.disk <= s.disk + Len(s.cache)
    <2>1. CASE Discards(s)
      <3>1. Len(g) \in Nat /\ s.begin + (s.disk + Len(data)) <= Len(g) /\ Len(data) \in Nat
        BY <1>3, <1>5 DEF Clean, File, Holds
      <3>2. v.disk = 0
        BY <1>4, <2>1
      <3>3. Holds(g, c, s.begin, 0)
        BY <1>1, <3>1 DEF Holds
      <3> QED BY <1>1, <1>4, <3>2, <3>3
    <2>2. CASE ~Discards(s)
      <3>1. data = s.cache
        BY <2>2 DEF data, StopWrites
      <3>2. v.disk = s.disk + Len(data)
        BY <1>4, <2>2
      <3> QED BY <1>1, <1>4, <1>5, <3>1, <3>2
    <2> QED BY <2>1, <2>2
  <1>7. Within(v, c, v.begin + v.disk + Len(v.cache))
    <2>1. Len(v.cache) = 0 /\ v.begin + v.disk + Len(v.cache) \in Nat
      BY <1>1, <1>4, <1>6
    <2>2. v.begin + v.disk + Len(v.cache) <= s.begin + s.disk + Len(s.cache)
      BY <1>1, <1>4, <1>6, <2>1
    <2>3. Within(s, c, s.begin + s.disk + Len(s.cache))
      BY DEF SliceOK
    <2> QED BY <1>1, <1>4, <2>1, <2>2, <2>3 DEF Within
  <1>8. Follows(v.cache, c, v.begin + v.disk)
    BY <1>4, EmptyFollows
  <1> HIDE DEF g
  <1>9. SliceOK(v, g, c)
    BY <1>4, <1>6, <1>7, <1>8 DEF SliceOK
  <1> QED BY <1>3, <1>9 DEF g, v, data

\* The status, the count of failures and the state of the handle of a slice
\* that has been started tell nothing of its data.
LEMMA StatusOK ==
  ASSUME NEW c \in Contents, NEW f, NEW s \in SliceRecord, SliceOK(s, f, c),
         NEW v \in SliceRecord, v.begin = s.begin, v.end = s.end, v.disk = s.disk,
         v.cache = s.cache, v.curl = s.curl \/ v.curl # "live", v.reply = s.reply,
         v.status # "UNFETCH"
  PROVE  SliceOK(v, f, c)
  BY DEF SliceOK, Within

-----------------------------------------------------------------------------
(* Creating the temporary file. *)

\* What CreateFixedSizeFile does to a file of the resource.
LEMMA CreateKeeps ==
  ASSUME NEW c \in Contents, NEW old, old = NoFile \/ Clean(old, c),
         NEW n \in Nat, n <= SizeOf[c]
  PROVE  LET g == CreateFixedSizeFile(old, n)
         IN  /\ Clean(g, c)
             /\ n = SizeOf[c] => Extends(old, g)
  <1> DEFINE kept == IF old = NoFile THEN <<>> ELSE old
             cuts == Platform = "windows" \/ (Platform = "macos" /\ n > 0)
             size == IF cuts THEN n ELSE Larger(n, Len(kept))
             g == CreateFixedSizeFile(old, n)
  <1>1. /\ kept \in Seq(Byte) /\ Len(kept) \in Nat /\ Len(kept) <= SizeOf[c]
        /\ SizeOf[c] \in Nat
        /\ \A k \in 1..Len(kept) : kept[k] \in {Hole, <<c, k>>}
    BY ContentsAssumption DEF Clean, File
  <1>2. size \in Nat /\ size <= SizeOf[c]
    BY <1>1 DEF Larger
  <1>3. g \in File
    <2>1. old \in File \cup {NoFile}
      BY DEF Clean
    <2> QED BY <2>1, CreateType
  <1>4. g = [k \in 1..size |-> IF k <= Len(kept) THEN kept[k] ELSE Hole]
    BY DEF CreateFixedSizeFile
  <1>5. n = SizeOf[c] => size >= Len(kept)
    BY <1>1 DEF Larger
  <1> HIDE DEF g, size
  <1>6. DOMAIN g = 1..size
    BY <1>4
  <1>7. Len(g) = size
    BY <1>2, <1>3, <1>6 DEF File
  <1>8. Clean(g, c)
    <2>1. ASSUME NEW k \in 1..Len(g) PROVE g[k] \in {Hole, <<c, k>>}
      <3> HIDE DEF kept
      <3> QED BY <1>1, <1>2, <1>4, <1>7
    <2> QED BY <1>2, <1>3, <1>7, <2>1 DEF Clean
  <1>9. ASSUME old # NoFile, size >= Len(kept)
        PROVE  Extends(old, g)
    <2>1. old = kept /\ DOMAIN kept = 1..Len(kept)
      BY <1>1, <1>9
    <2> HIDE DEF kept
    <2>2. \A k \in 1..Len(kept) : k \in 1..size /\ g[k] = kept[k]
      BY <1>1, <1>2, <1>4, <1>9
    <2> QED BY <1>6, <2>1, <2>2 DEF Extends
  <1> QED BY <1>5, <1>8, <1>9 DEF g, Extends

\* A file with every byte of another keeps what that holds.
LEMMA ExtendsKeeps ==
  ASSUME NEW f \in File, NEW g \in File, f # NoFile, Extends(f, g), NEW c
  PROVE  Keeps(f, g, c)
  <1>1. /\ DOMAIN f = 1..Len(f) /\ DOMAIN g = 1..Len(g) /\ Len(f) \in Nat /\ Len(g) \in Nat
        /\ \A k \in 1..Len(f) : k \in 1..Len(g) /\ g[k] = f[k]
    BY DEF File, Extends
  <1> SUFFICES ASSUME NEW first \in Nat, NEW n \in Nat, Holds(f, c, first, n)
               PROVE  Holds(g, c, first, n)
    BY DEF Keeps
  <1>2. first + n <= Len(f)
    BY DEF Holds
  <1>3. first + n <= Len(g)
    <2>1. CASE first + n = 0
      BY <1>1, <2>1
    <2>2. CASE first + n # 0
      <3>1. first + n \in 1..Len(f)
        BY <1>1, <1>2, <2>2
      <3> QED BY <1>1, <3>1
    <2> QED BY <2>1, <2>2
  <1>4. ASSUME NEW k \in first + 1 .. first + n PROVE g[k] = <<c, k>>
    <2>1. k \in 1..Len(f) /\ f[k] = <<c, k>>
      BY <1>1, <1>2 DEF Holds
    <2> QED BY <1>1, <2>1
  <1> QED BY <1>3, <1>4 DEF Holds

-----------------------------------------------------------------------------
(* The invariant of the files, and the circumstances it needs: one version   *)
(* of the resource, by a server that answers a range with the range, and a   *)
(* file that takes what is written to it.  Without any of these TLC finds a  *)
(* wrong file reported as a success.  It says nothing from the moment at     *)
(* which a session goes on from an index that has outlived its file.         *)
Environment ==
  /\ \A x, y \in Contents : x = y
  /\ ReplyKinds \subseteq {"range"}
  /\ "write" \notin Faults

\* There is an index that can be read.
Real == index \notin {NoFile, TornIndex}

\* What an index claims of one slice.
ClaimOK(r, f, c) ==
  /\ Holds(f, c, r.begin, r.capacity)
  /\ r.end # -1 => r.begin + r.capacity <= r.end + 1

\* The temporary file has nothing that is not of the resource,
TmpInv == tmp # NoFile => Clean(tmp, src)

\* the worker goes by the size of it,
SizeInv ==
  pc \in Writing \cup {"load"} => origin = ReportedSize[src] /\ origin # 0

\* the slices count what they have in the file,
SlicesInv ==
  pc \notin {"remove_index", "end"} =>
    \A i \in DOMAIN slices : SliceOK(slices[i], tmp, src)

\* and so does the index, unless it has outlived the file it was written for.
IndexInv ==
  Real /\ orphan = "no" =>
    /\ tmp # NoFile
    /\ index.size = ReportedSize[src]
    /\ index.size # -1 => \A i \in DOMAIN index.slices :
                            ClaimOK(index.slices[i], tmp, src)

\* Together they are inductive.
FileInv == TmpInv /\ SizeInv /\ SlicesInv /\ IndexInv

\* While the worker writes, there is a clean file.
LEMMA CleanWhileWriting ==
  ASSUME TypeInv, FileInv, pc \in Writing
  PROVE  tmp # NoFile /\ Clean(tmp, src)
  BY FileAssumption DEF TypeInv, HasTmp, FileInv, TmpInv

\* What a server reports of the size.
LEMMA ReportedType ==
  ASSUME NEW c \in Contents
  PROVE  ReportedSize[c] \in Nat \cup {-1} /\ SizeOf[c] \in Nat
         /\ (ReportedSize[c] # -1 => ReportedSize[c] = SizeOf[c])
  BY SliceManagerAssumption, ContentsAssumption

\* Steps that leave slices and files alone.
LEMMA QuietFiles ==
  ASSUME FileInv, UNCHANGED <<slices, tmp, index, src, orphan>>,
         pc' \in Writing \cup {"load"} => origin' = ReportedSize[src] /\ origin' # 0,
         pc \notin {"remove_index", "end"}
  PROVE  FileInv'
  BY DEF FileInv, TmpInv, SizeInv, SlicesInv, IndexInv, Real

\* Steps that change slices only.
LEMMA SlicesFiles ==
  ASSUME FileInv, UNCHANGED <<tmp, index, src, origin, orphan>>, pc \in Writing,
         \A i \in DOMAIN slices' : SliceOK(slices'[i], tmp, src)
  PROVE  FileInv'
  BY DEF FileInv, TmpInv, SizeInv, SlicesInv, IndexInv, Real, Writing

\* Steps that change one slice only.
LEMMA OneSliceFiles ==
  ASSUME FileInv, UNCHANGED <<tmp, index, src, origin, orphan>>, pc \in Writing,
         NEW i, NEW v, slices' = [slices EXCEPT ![i] = v],
         i \in DOMAIN slices => SliceOK(v, tmp, src)
  PROVE  FileInv'
  <1>1. /\ DOMAIN slices' = DOMAIN slices
        /\ \A j \in DOMAIN slices : j # i => slices'[j] = slices[j]
        /\ i \in DOMAIN slices => slices'[i] = v
    BY OneReplaced
  <1>2. \A j \in DOMAIN slices : SliceOK(slices[j], tmp, src)
    BY DEF FileInv, SlicesInv, Writing
  <1>3. \A j \in DOMAIN slices' : SliceOK(slices'[j], tmp, src)
    BY <1>1, <1>2
  <1> QED BY <1>3, SlicesFiles

\* An index has nothing to fear from a file that keeps what it claims.
LEMMA KeepsIndex ==
  ASSUME TypeInv, IndexInv, UNCHANGED <<index, src>>, orphan' = "no" => orphan = "no",
         Real /\ orphan' = "no" => tmp' # NoFile,
         Real /\ orphan' = "no" /\ index.size # -1 => Keeps(tmp, tmp', src)
  PROVE  IndexInv'
  <1> SUFFICES ASSUME Real, orphan' = "no", index.size # -1, NEW i \in DOMAIN index.slices
               PROVE  ClaimOK(index.slices[i], tmp', src)
    BY DEF IndexInv, Real
  <1>1. index \in Index
    BY DEF Real, TypeInv, TypeOK
  <1> DEFINE R == [begin : Nat, end : Int, capacity : Nat]
  <1>2. index.slices[i] \in R
    <2>1. index.slices \in Seq(R)
      BY <1>1 DEF Index
    <2> HIDE DEF R
    <2> QED BY <2>1
  <1>3. ClaimOK(index.slices[i], tmp, src)
    BY DEF IndexInv
  <1> QED BY <1>2, <1>3 DEF ClaimOK, Keeps

\* Steps that write what a slice has cached.
LEMMA WriteFiles ==
  ASSUME Environment, TypeInv, FileInv, UNCHANGED <<index, src, origin, orphan>>,
         pc \in Writing, NEW i \in DOMAIN slices, NEW data \in Seq(Byte),
         Follows(data, src, slices[i].begin + slices[i].disk),
         slices[i].begin + slices[i].disk + Len(data) <= SizeOf[src],
         NEW w \in Accepted(data), WriteTmp(i, data, w),
         NEW v, slices' = [slices EXCEPT ![i] = v],
         SliceOK(v, Write(tmp, slices[i].begin + slices[i].disk, data), src)
  PROVE  FileInv'
  <1> DEFINE g == Write(tmp, slices[i].begin + slices[i].disk, data)
  <1>1. slices \in Seq(SliceRecord) /\ slices[i] \in SliceRecord /\ src \in Contents
    BY DEF TypeInv, TypeOK
  <1>2. \A j \in DOMAIN slices : SliceOK(slices[j], tmp, src)
    BY DEF FileInv, SlicesInv, Writing
  <1>3. Clean(tmp, src)
    BY CleanWhileWriting
  <1>4. tmp' = g
    <2>1. w = Len(data)
      BY DEF Environment, Accepted
    <2>2. SubSeq(data, 1, w) = data
      BY <2>1
    <2> QED BY <2>2 DEF WriteTmp
  <1>5. Clean(g, src) /\ Keeps(tmp, g, src)
    BY <1>1, <1>2, <1>3, WrittenOK
  <1> HIDE DEF g
  <1>6. /\ DOMAIN slices' = DOMAIN slices
        /\ \A j \in DOMAIN slices : j # i => slices'[j] = slices[j]
        /\ slices'[i] = v
    BY OneReplaced
  <1>7. ASSUME NEW j \in DOMAIN slices' PROVE SliceOK(slices'[j], g, src)
    <2>1. CASE j = i
      BY <1>6, <2>1 DEF g
    <2>2. CASE j # i
      <3>1. slices[j] \in SliceRecord /\ SliceOK(slices[j], tmp, src)
        BY <1>1, <1>2, <1>6
      <3>2. SliceOK(slices[j], g, src)
        BY <1>1, <1>5, <3>1, KeepsSlice
      <3> QED BY <1>6, <2>2, <3>2
    <2> QED BY <2>1, <2>2
  <1>8. tmp' # NoFile
    BY <1>4, <1>5, FileAssumption DEF Clean
  <1>9. TmpInv'
    BY <1>4, <1>5 DEF TmpInv
  <1>10. SlicesInv'
    BY <1>4, <1>7 DEF SlicesInv
  <1>11. IndexInv'
    BY <1>4, <1>5, <1>8, KeepsIndex DEF FileInv, Writing
  <1>12. SizeInv'
    BY DEF FileInv, SizeInv
  <1> QED BY <1>9, <1>10, <1>11, <1>12 DEF FileInv

-----------------------------------------------------------------------------
(* The actions of the transfer. *)

\* Every set of naturals that is not empty has a least element.
LEMMA LeastExists ==
  ASSUME NEW T \in SUBSET Nat, T # {}
  PROVE  \E i \in T : \A j \in T : i <= j
  <1> DEFINE R == {p \in Nat \X Nat : p[1] < p[2]}
  <1>1. IsWellFoundedOn(R, Nat)
    BY NatLessThanWellFounded DEF OpToRel
  <1>2. \E i \in T : \A j \in T : ~(<<j, i>> \in R)
    <2> HIDE DEF R
    <2> QED BY <1>1, WFMin
  <1>3. PICK i \in T : \A j \in T : ~(<<j, i>> \in R)
    BY <1>2
  <1>4. \A a, b \in Nat : a < b => <<a, b>> \in R
    OBVIOUS
  <1> HIDE DEF R
  <1>5. \A j \in T : ~(j < i)
    BY <1>3, <1>4
  <1> QED BY <1>5

\* Among slices with a status there is a first one.
LEMMA FirstWith ==
  ASSUME NEW s \in Seq(SliceRecord), NEW st, WithStatus(s, st) # {}
  PROVE  FirstWithStatus(s, st) \in WithStatus(s, st)
  <1> DEFINE T == WithStatus(s, st)
  <1>1. T \in SUBSET Nat
    BY DEF WithStatus
  <1>2. \E i \in T : \A j \in T : i <= j
    <2> HIDE DEF T
    <2>1. T # {}
      BY DEF T
    <2> QED BY <1>1, <2>1, LeastExists
  <1> QED BY <1>2 DEF FirstWithStatus

\* The actions, one after the other: a slice is started,
LEMMA StartSliceFiles ==
  ASSUME Environment, TypeInv, FileInv, UNCHANGED <<tmp, index, src, origin, orphan>>,
         pc \in Writing, NEW i, i \in DOMAIN slices => slices[i].status = "UNFETCH",
         NEW n \in Nat, NEW code, StartSlice(i, n, code)
  PROVE  FileInv'
  <1>1. slices \in Seq(SliceRecord) /\ src \in Contents
    BY DEF TypeInv, TypeOK
  <1>2. i \in DOMAIN slices => slices[i] \in SliceRecord /\ SliceOK(slices[i], tmp, src)
    BY <1>1 DEF FileInv, SlicesInv, Writing
  <1>3. Share(DiskCacheSize, n) \in Int /\ Share(MaxSpeed, n) \in Int
    <2>1. DiskCacheSize \in Int /\ MaxSpeed \in Int
      BY EntryHandlerAssumption
    <2> QED BY <2>1, ShareType
  <1>4. ASSUME NEW r \in Replies(slices[i], src), NEW buffer \in Int, NEW speed \in Int,
               slices' = [slices EXCEPT ![i] = Started(slices[i], buffer, speed, r)]
        PROVE  FileInv'
    <2> DEFINE v == Started(slices[i], buffer, speed, r)
    <2>1. i \in DOMAIN slices => SliceOK(v, tmp, src)
      BY <1>1, <1>2, StartedOK DEF Environment
    <2> HIDE DEF v
    <2>2. slices' = [slices EXCEPT ![i] = v]
      BY <1>4 DEF v
    <2> QED BY <2>1, <2>2, OneSliceFiles
  <1>5. ASSUME slices' = [slices EXCEPT ![i] = StartFailed(slices[i])]
        PROVE  FileInv'
    <2>1. i \in DOMAIN slices => SliceOK(StartFailed(slices[i]), tmp, src)
      BY <1>1, <1>2, StartFailedOK
    <2> QED BY <1>5, <2>1, OneSliceFiles
  <1> QED BY <1>3, <1>4, <1>5 DEF StartSlice

\* the first connections are opened,
LEMMA StartFirstFiles == Environment /\ TypeInv /\ FileInv /\ StartFirst => FileInv'
  <1> SUFFICES ASSUME Environment, TypeInv, FileInv, StartFirst PROVE FileInv'
    OBVIOUS
  <1> DEFINE total == Cardinality(UnfetchAndUncompleted(slices)) + Cardinality(Live)
             share == IF total <= ThreadNum THEN total ELSE ThreadNum
             next == FirstWithStatus(slices, "UNFETCH")
  <1>1. slices \in Seq(SliceRecord)
    BY DEF TypeInv, TypeOK
  <1>2. share \in Nat
    <2>1. Cardinality(UnfetchAndUncompleted(slices)) \in Nat /\ Cardinality(Live) \in Nat
      BY <1>1, LiveIsFinite, UnfetchIsFinite
    <2> QED BY <2>1, EntryHandlerAssumption
  <1>3. pc \in Writing /\ UNCHANGED <<tmp, index, src, origin, orphan>>
    BY DEF StartFirst, Writing, disk, history
  <1>4. \/ UNCHANGED slices
        \/ /\ WithStatus(slices, "UNFETCH") # {}
           /\ \E code \in StartCodes : StartSlice(next, share, code)
    BY DEF StartFirst
  <1> HIDE DEF share, next
  <1>5. CASE UNCHANGED slices
    <2>1. \A i \in DOMAIN slices' : SliceOK(slices'[i], tmp, src)
      BY <1>3, <1>5 DEF FileInv, SlicesInv, Writing
    <2> QED BY <1>3, <2>1, SlicesFiles
  <1>6. CASE /\ WithStatus(slices, "UNFETCH") # {}
             /\ \E code \in StartCodes : StartSlice(next, share, code)
    <2>1. next \in WithStatus(slices, "UNFETCH")
      BY <1>1, <1>6, FirstWith DEF next
    <2>2. slices[next].status = "UNFETCH"
      BY <2>1 DEF WithStatus
    <2> QED BY <1>2, <1>3, <1>6, <2>2, StartSliceFiles
  <1> QED BY <1>4, <1>5, <1>6

\* a slice that waits is started,
LEMMA ScheduleNextFiles ==
  Environment /\ TypeInv /\ FileInv /\ ScheduleNext => FileInv'
  <1> SUFFICES ASSUME Environment, TypeInv, FileInv, ScheduleNext PROVE FileInv'
    OBVIOUS
  <1> DEFINE next == FirstWithStatus(slices, "UNFETCH")
  <1>1. slices \in Seq(SliceRecord) /\ running + 1 \in Nat
    BY DEF TypeInv, TypeOK
  <1>2. /\ pc \in Writing /\ UNCHANGED <<tmp, index, src, origin, orphan>>
        /\ WithStatus(slices, "UNFETCH") # {}
        /\ \E code \in StartCodes : StartSlice(next, running + 1, code)
    BY DEF ScheduleNext, Writing, disk, history
  <1> HIDE DEF next
  <1>3. next \in WithStatus(slices, "UNFETCH")
    BY <1>1, <1>2, FirstWith DEF next
  <1>4. slices[next].status = "UNFETCH"
    BY <1>3 DEF WithStatus
  <1> QED BY <1>1, <1>2, <1>4, StartSliceFiles

\* a chunk arrives,
LEMMA DeliverFiles ==
  ASSUME Environment, TypeInv, FileInv, NEW i \in DOMAIN slices, Deliver(i)
  PROVE  FileInv'
  <1> DEFINE s == slices[i]
             data(n) == DataToWrite(s, Chunk(s, n))
  <1>1. /\ s \in SliceRecord /\ src \in Contents /\ pc \in Writing
        /\ s.curl = "live" /\ SliceOK(s, tmp, src) /\ Clean(tmp, src)
        /\ UNCHANGED <<index, src, origin, orphan>>
    <2>1. pc \in Writing /\ pc \notin {"remove_index", "end"} /\ s.curl = "live"
          /\ UNCHANGED <<index, src, origin, orphan>>
      BY DEF Deliver, Live, Writing, history
    <2>2. slices \in Seq(SliceRecord) /\ src \in Contents
      BY DEF TypeInv, TypeOK
    <2> QED BY <2>1, <2>2, CleanWhileWriting DEF FileInv, SlicesInv
  <1>2. PICK n \in 1..MaxChunk :
          /\ s.reply.pos + n <= s.reply.lim
          /\ \E w \in Accepted(data(n)) :
               /\ WriteTmp(i, data(n), w)
               /\ slices' = [slices EXCEPT ![i] = OnNewData(slices[i], n, w)]
    BY DEF Deliver
  <1>3. n \in Nat \ {0}
    BY SliceAssumption
  <1>4. /\ data(n) \in Seq(Byte) /\ Follows(data(n), src, s.begin + s.disk)
        /\ s.begin + s.disk + Len(data(n)) <= SizeOf[src]
    BY <1>1, <1>2, <1>3, ChunkFollows
  <1>5. SliceOK(OnNewData(s, n, Len(data(n))), Write(tmp, s.begin + s.disk, data(n)), src)
    BY <1>1, <1>2, <1>3, OnNewDataOK
  <1> HIDE DEF data
  <1>6. PICK w \in Accepted(data(n)) :
          /\ WriteTmp(i, data(n), w)
          /\ slices' = [slices EXCEPT ![i] = OnNewData(slices[i], n, w)]
    BY <1>2
  <1>7. w = Len(data(n))
    BY DEF Environment, Accepted
  <1> QED BY <1>1, <1>4, <1>5, <1>6, <1>7, WriteFiles

\* the timer has a slice flushed,
LEMMA FlushSliceFiles == Environment /\ TypeInv /\ FileInv /\ FlushSlice => FileInv'
  <1> SUFFICES ASSUME Environment, TypeInv, FileInv, FlushSlice PROVE FileInv'
    OBVIOUS
  <1>1. /\ slices \in Seq(SliceRecord) /\ src \in Contents /\ pc \in Writing
        /\ Clean(tmp, src) /\ UNCHANGED <<index, src, origin, orphan>>
        /\ \A i \in DOMAIN slices : SliceOK(slices[i], tmp, src)
    <2>1. pc \in Writing /\ pc \notin {"remove_index", "end"} /\ UNCHANGED <<index, src, origin, orphan>>
      BY DEF FlushSlice, Writing, history
    <2> QED BY <2>1, CleanWhileWriting DEF FileInv, SlicesInv, TypeInv, TypeOK
  <1>2. CASE UNCHANGED <<slices, tmp>>
    BY <1>1, <1>2, SlicesFiles
  <1>3. CASE cur \in DOMAIN slices /\ \E w \in Accepted(slices[cur].cache) :
               /\ WriteTmp(cur, slices[cur].cache, w)
               /\ slices' = [slices EXCEPT ![cur] = FlushToDisk(slices[cur], w)]
    <2> DEFINE s == slices[cur]
    <2>1. s \in SliceRecord /\ SliceOK(s, tmp, src) /\ cur \in DOMAIN slices
      BY <1>1, <1>3
    <2>2. PICK w \in Accepted(s.cache) :
            /\ WriteTmp(cur, s.cache, w)
            /\ slices' = [slices EXCEPT ![cur] = FlushToDisk(s, w)]
      BY <1>3
    <2>3. w = Len(s.cache)
      BY DEF Environment, Accepted
    <2>4. /\ s.cache \in Seq(Byte) /\ Follows(s.cache, src, s.begin + s.disk)
          /\ s.begin + s.disk + Len(s.cache) <= SizeOf[src]
      BY <1>1, <2>1, CacheFollows
    <2>5. SliceOK(FlushToDisk(s, Len(s.cache)), Write(tmp, s.begin + s.disk, s.cache), src)
      BY <1>1, <2>1, FlushOK
    <2> QED BY <1>1, <2>1, <2>2, <2>3, <2>4, <2>5, WriteFiles
  <1> QED BY <1>2, <1>3 DEF FlushSlice

\* an ended transfer is looked at,
LEMMA UpdateFiles == Environment /\ TypeInv /\ FileInv /\ UpdateSliceStatus => FileInv'
  <1> SUFFICES ASSUME Environment, TypeInv, FileInv, UpdateSliceStatus PROVE FileInv'
    OBVIOUS
  <1>1. /\ slices \in Seq(SliceRecord) /\ src \in Contents /\ pc \in Writing
        /\ Clean(tmp, src) /\ UNCHANGED <<index, src, origin, orphan>>
        /\ \A i \in DOMAIN slices : SliceOK(slices[i], tmp, src)
    <2>1. pc \in Writing /\ pc \notin {"remove_index", "end"} /\ UNCHANGED <<index, src, origin, orphan>>
      BY DEF UpdateSliceStatus, Writing, history
    <2> QED BY <2>1, CleanWhileWriting DEF FileInv, SlicesInv, TypeInv, TypeOK
  <1>2. CASE UNCHANGED <<slices, tmp>>
    BY <1>1, <1>2, SlicesFiles
  <1> DEFINE st(i) == StatusAfter(slices[i])
             changed(i) == [slices[i] EXCEPT !.status = st(i),
                                            !.failed = IF st(i) = "DOWNLOAD_FAILED"
                                                       THEN @ + 1 ELSE @]
  <1>3. ASSUME NEW i \in Done, NEW w \in Accepted(StopWrites(changed(i))),
               WriteTmp(i, StopWrites(changed(i)), w),
               slices' = [slices EXCEPT ![i] = Stopped(changed(i), w)]
        PROVE  FileInv'
    <2> DEFINE s == slices[i]
               v == changed(i)
    <2>1. i \in DOMAIN slices /\ s \in SliceRecord /\ SliceOK(s, tmp, src) /\ s.curl # "live"
      BY <1>1 DEF Done
    <2>2. st(i) \in SliceStatus /\ st(i) # "UNFETCH"
      BY DEF StatusAfter, SliceStatus
    <2>3. v \in SliceRecord /\ v.status = st(i) /\ v.begin = s.begin /\ v.end = s.end
          /\ v.disk = s.disk /\ v.cache = s.cache /\ v.curl = s.curl /\ v.reply = s.reply
      <3> DEFINE tries == IF st(i) = "DOWNLOAD_FAILED" THEN s.failed + 1 ELSE s.failed
      <3>1. tries \in Nat
        BY <2>1 DEF SliceRecord
      <3>2. v = [s EXCEPT !.status = st(i), !.failed = tries]
        OBVIOUS
      <3> HIDE DEF st, tries, v
      <3> QED BY <2>1, <2>2, <3>1, <3>2 DEF SliceRecord
    <2> HIDE DEF v, st
    <2>4. SliceOK(v, tmp, src)
      BY <1>1, <2>1, <2>2, <2>3, StatusOK
    <2>5. /\ StopWrites(v) \in Seq(Byte) /\ Follows(StopWrites(v), src, v.begin + v.disk)
          /\ v.begin + v.disk + Len(StopWrites(v)) <= SizeOf[src]
          /\ SliceOK(Stopped(v, Len(StopWrites(v))),
                     Write(tmp, v.begin + v.disk, StopWrites(v)), src)
      BY <1>1, <2>3, <2>4, StoppedOK
    <2>6. w \in Accepted(StopWrites(v)) /\ WriteTmp(i, StopWrites(v), w)
          /\ slices' = [slices EXCEPT ![i] = Stopped(v, w)]
      BY <1>3 DEF v
    <2>7. w = Len(StopWrites(v))
      BY <2>6 DEF Environment, Accepted
    <2>8. v.begin + v.disk = slices[i].begin + slices[i].disk
      BY <2>3
    <2> DEFINE data == StopWrites(v)
               u == Stopped(v, w)
    <2>9. /\ data \in Seq(Byte) /\ Follows(data, src, slices[i].begin + slices[i].disk)
          /\ slices[i].begin + slices[i].disk + Len(data) <= SizeOf[src]
          /\ w \in Accepted(data) /\ WriteTmp(i, data, w)
          /\ slices' = [slices EXCEPT ![i] = u]
          /\ SliceOK(u, Write(tmp, slices[i].begin + slices[i].disk, data), src)
      BY <2>5, <2>6, <2>7, <2>8
    <2> HIDE DEF data, u
    <2> QED BY <1>1, <2>1, <2>9, WriteFiles
  <1> QED BY <1>2, <1>3 DEF UpdateSliceStatus

\* a slice is stopped,
LEMMA StopSliceFiles == Environment /\ TypeInv /\ FileInv /\ StopSlice => FileInv'
  <1> SUFFICES ASSUME Environment, TypeInv, FileInv, StopSlice PROVE FileInv'
    OBVIOUS
  <1>1. /\ slices \in Seq(SliceRecord) /\ src \in Contents /\ pc \in Writing
        /\ Clean(tmp, src) /\ UNCHANGED <<index, src, origin, orphan>>
        /\ \A i \in DOMAIN slices : SliceOK(slices[i], tmp, src)
    <2>1. pc \in Writing /\ pc \notin {"remove_index", "end"} /\ UNCHANGED <<index, src, origin, orphan>>
      BY DEF StopSlice, Writing, history
    <2> QED BY <2>1, CleanWhileWriting DEF FileInv, SlicesInv, TypeInv, TypeOK
  <1>2. CASE UNCHANGED <<slices, tmp>>
    BY <1>1, <1>2, SlicesFiles
  <1> DEFINE s == slices[cur]
             data == StopWrites(s)
  <1>3. CASE cur \in DOMAIN slices /\ \E w \in Accepted(data) :
               /\ WriteTmp(cur, data, w)
               /\ slices' = [slices EXCEPT ![cur] = Stopped(s, w)]
    <2>1. s \in SliceRecord /\ SliceOK(s, tmp, src) /\ cur \in DOMAIN slices
      BY <1>1, <1>3
    <2>2. PICK w \in Accepted(data) :
            /\ WriteTmp(cur, data, w)
            /\ slices' = [slices EXCEPT ![cur] = Stopped(s, w)]
      BY <1>3
    <2>3. w = Len(data)
      BY DEF Environment, Accepted
    <2>4. /\ data \in Seq(Byte) /\ Follows(data, src, s.begin + s.disk)
          /\ s.begin + s.disk + Len(data) <= SizeOf[src]
          /\ SliceOK(Stopped(s, w), Write(tmp, s.begin + s.disk, data), src)
      BY <1>1, <2>1, <2>3, StoppedOK
    <2> HIDE DEF data
    <2> QED BY <1>1, <2>1, <2>2, <2>4, WriteFiles
  <1> QED BY <1>2, <1>3 DEF StopSlice

\* nothing is left to start,
LEMMA ScheduleNoneFiles == TypeInv /\ FileInv /\ ScheduleNone => FileInv'
  <1> SUFFICES ASSUME TypeInv, FileInv, ScheduleNone PROVE FileInv'
    OBVIOUS
  <1>1. /\ slices \in Seq(SliceRecord) /\ src \in Contents /\ pc \in Writing
        /\ UNCHANGED <<tmp, index, src, origin, orphan>>
        /\ \A i \in DOMAIN slices : SliceOK(slices[i], tmp, src)
    BY DEF ScheduleNone, Writing, disk, history, FileInv, SlicesInv, TypeInv, TypeOK
  <1>2. CASE UNCHANGED slices
    BY <1>1, <1>2, SlicesFiles
  <1>3. CASE \E i : slices' = [slices EXCEPT ![i].status = "DOWNLOAD_COMPLETED"]
    <2>1. PICK i : slices' = [slices EXCEPT ![i].status = "DOWNLOAD_COMPLETED"]
      BY <1>3
    <2> DEFINE s == slices[i]
               v == [s EXCEPT !.status = "DOWNLOAD_COMPLETED"]
    <2>2. ASSUME i \in DOMAIN slices PROVE SliceOK(v, tmp, src)
      <3>1. s \in SliceRecord /\ SliceOK(s, tmp, src)
        BY <1>1, <2>2
      <3>2. /\ v \in SliceRecord /\ v.begin = s.begin /\ v.end = s.end
            /\ v.disk = s.disk /\ v.cache = s.cache /\ v.curl = s.curl
            /\ v.reply = s.reply /\ v.status # "UNFETCH"
        BY <3>1 DEF SliceRecord, SliceStatus
      <3> HIDE DEF v
      <3> QED BY <1>1, <3>1, <3>2, StatusOK
    <2>3. slices' = [slices EXCEPT ![i] = v]
      BY <2>1
    <2> HIDE DEF v
    <2> QED BY <1>1, <2>2, <2>3, OneSliceFiles
  <1> QED BY <1>2, <1>3 DEF ScheduleNone

\* a transfer ends.
LEMMA TransferEndFiles ==
  ASSUME TypeInv, FileInv, NEW i \in DOMAIN slices, TransferEnd(i)
  PROVE  FileInv'
  <1> DEFINE s == slices[i]
  <1>1. /\ slices \in Seq(SliceRecord) /\ src \in Contents /\ pc \in Writing
        /\ UNCHANGED <<tmp, index, src, origin, orphan>>
        /\ s \in SliceRecord /\ SliceOK(s, tmp, src) /\ s.curl = "live"
    BY DEF TransferEnd, Live, Writing, disk, history, FileInv, SlicesInv, TypeInv, TypeOK
  <1>2. PICK how \in {"ok", "err"} : slices' = [slices EXCEPT ![i].curl = how]
    BY DEF TransferEnd
  <1> DEFINE v == [s EXCEPT !.curl = how]
  <1>3. /\ v \in SliceRecord /\ v.begin = s.begin /\ v.end = s.end
        /\ v.disk = s.disk /\ v.cache = s.cache /\ v.curl = how
        /\ v.reply = s.reply /\ v.status = s.status
    BY <1>1 DEF SliceRecord, CurlState
  <1>4. slices' = [slices EXCEPT ![i] = v]
    BY <1>2
  <1>5. v.status # "UNFETCH" /\ v.curl # "live"
    BY <1>1, <1>3 DEF SliceOK
  <1> HIDE DEF v
  <1>6. SliceOK(v, tmp, src)
    BY <1>1, <1>3, <1>5, StatusOK
  <1> QED BY <1>1, <1>4, <1>6, OneSliceFiles

-----------------------------------------------------------------------------
(* The slices that a download begins with. *)

\* A product grows with its first factor.
LEMMA Monotone ==
  ASSUME NEW i \in Nat, NEW j \in Nat, NEW s \in Nat, i <= j
  PROVE  i * s <= j * s /\ i * s \in Nat /\ j * s \in Nat
  <1>1. j * s = i * s + (j - i) * s
    OBVIOUS
  <1>2. (j - i) * s >= 0 /\ i * s \in Nat
    OBVIOUS
  <1> QED BY <1>1, <1>2

\* The slices that are not the last end before the resource does.
LEMMA LastBegins ==
  ASSUME NEW n \in Nat \ {0}, SliceSize(n) # 0
  PROVE  /\ SliceNum(n) \in Nat \ {0} /\ SliceSize(n) \in Nat \ {0}
         /\ (SliceNum(n) - 1) * SliceSize(n) < n
  <1> DEFINE s == SliceSize(n)
             m == SliceNum(n)
             v == SlicePolicyValue
  <1>1. s \in Nat \ {0} /\ m \in Nat
    BY SliceSizeType, SliceNumType
  <1>2. CASE SlicePolicy = "FixedNum"
    <2>1. v \in Nat \ {0} /\ m = v /\ s = n \div v
      BY <1>2, SliceManagerAssumption DEF SliceSize, SliceNum
    <2> HIDE DEF s, m, v
    <2>2. v * (n \div v) <= n
      BY <2>1
    <2>3. (v - 1) * s = v * s - s
      BY <1>1, <2>1
    <2>4. v * s \in Int
      BY <1>1, <2>1
    <2>5. (m - 1) * s < n
      BY <1>1, <2>1, <2>2, <2>3, <2>4
    <2> QED BY <1>1, <2>1, <2>5 DEF s, m
  <1>3. CASE SlicePolicy # "FixedNum"
    <2>1. m = (n + s - 1) \div s
      BY <1>3 DEF SliceNum
    <2> HIDE DEF s, m
    <2>2. m * s <= n + s - 1 /\ n + s - 1 < (m + 1) * s
      BY <1>1, <2>1
    <2>3. (m - 1) * s = m * s - s /\ m * s \in Int
      BY <1>1
    <2>4. (m - 1) * s < n
      BY <1>1, <2>2, <2>3
    <2>5. m # 0
      BY <1>1, <2>2
    <2> QED BY <1>1, <2>4, <2>5 DEF s, m
  <1> QED BY <1>2, <1>3

\* The bounds of a new slice.
LEMMA NewRange ==
  ASSUME NEW begin, NEW end, NEW capacity
  PROVE  /\ NewSlice(begin, end, capacity).begin = begin
         /\ NewSlice(begin, end, capacity).end = end
         /\ NewSlice(begin, end, capacity).disk = capacity
         /\ NewSlice(begin, end, capacity).cache = <<>>
  BY DEF NewSlice

\* The slices of makeSlices lie one behind the other, within the resource.
LEMMA MadeRanges ==
  ASSUME NEW n \in Nat \ {0}, NEW accept_ranges, NEW i \in DOMAIN MakeSlices(n, accept_ranges)
  PROVE  /\ \E b \in Nat : \E e \in b..n - 1 :
              MakeSlices(n, accept_ranges)[i] = NewSlice(b, e, 0)
         /\ \A j \in DOMAIN MakeSlices(n, accept_ranges) :
              i < j => MakeSlices(n, accept_ranges)[i].end
                         < MakeSlices(n, accept_ranges)[j].begin
  <1> DEFINE made == MakeSlices(n, accept_ranges)
  <1>1. CASE ~accept_ranges
    <2>1. made = <<NewSlice(0, n - 1, 0)>>
      BY <1>1 DEF MakeSlices
    <2>2. 0 \in Nat /\ n - 1 \in 0..n - 1 /\ DOMAIN made = {1} /\ i = 1
      BY <2>1
    <2> HIDE DEF made
    <2>3. made[i] = NewSlice(0, n - 1, 0)
      BY <2>1, <2>2
    <2>4. \A j \in DOMAIN made : ~(i < j)
      BY <2>2
    <2> QED BY <2>2, <2>3, <2>4 DEF made
  <1>2. CASE accept_ranges
    <2> DEFINE m == SliceNum(n)
               s == SliceSize(n)
               begin(k) == (k - 1) * s
               end(k) == IF k = m THEN n - 1 ELSE k * s - 1
    <2>1. made = [k \in 1..m |-> NewSlice(begin(k), end(k), 0)]
      BY <1>2 DEF MakeSlices
    <2>2. m \in Nat /\ s \in Nat
      BY SliceSizeType, SliceNumType
    <2>3. s # 0
      <3>1. CASE s = 0
        <4>1. m = 0
          BY <3>1 DEF SliceNum
        <4>2. DOMAIN made = {}
          <5> HIDE DEF m, begin, end, made
          <5> QED BY <2>1, <4>1
        <4> QED BY <4>2
      <3> QED BY <3>1
    <2>4. m \in Nat \ {0} /\ s \in Nat \ {0} /\ (m - 1) * s < n
      BY <2>3, LastBegins
    <2> HIDE DEF m, s, made
    <2>5. DOMAIN made = 1..m
      BY <2>1
    <2>6. ASSUME NEW k \in 1..m PROVE made[k] = NewSlice(begin(k), end(k), 0)
      BY <2>1
    <2>7. ASSUME NEW k \in 1..m
          PROVE  begin(k) \in Nat /\ end(k) \in begin(k)..n - 1
      <3>1. k - 1 \in Nat /\ m - 1 \in Nat /\ k - 1 <= m - 1 /\ k \in Nat
        BY <2>4
      <3>2. (k - 1) * s <= (m - 1) * s /\ (k - 1) * s \in Nat /\ (m - 1) * s \in Nat
        BY <2>4, <3>1, Monotone
      <3>3. k * s = (k - 1) * s + s
        BY <2>4, <3>1
      <3>4. k # m => k <= m - 1
        BY <2>4
      <3>5. k # m => k * s <= (m - 1) * s
        BY <2>4, <3>1, <3>4, Monotone
      <3> QED BY <2>4, <3>2, <3>3, <3>5
    <2>8. ASSUME NEW k \in 1..m, NEW j \in 1..m, k < j
          PROVE  end(k) < begin(j)
      <3>1. k \in Nat /\ j - 1 \in Nat /\ k <= j - 1 /\ k # m
        BY <2>4, <2>8
      <3>2. k * s <= (j - 1) * s /\ k * s \in Nat /\ (j - 1) * s \in Nat
        BY <2>4, <3>1, Monotone
      <3> QED BY <3>1, <3>2
    <2> HIDE DEF begin, end
    <2>9. \A k \in 1..m : made[k].begin = begin(k) /\ made[k].end = end(k)
      BY <2>6, NewRange
    <2>10. i \in 1..m
      BY <2>5 DEF made
    <2>11. \A j \in 1..m : i < j => made[i].end < made[j].begin
      BY <2>8, <2>9, <2>10
    <2>12. \E b \in Nat : \E e \in b..n - 1 : made[i] = NewSlice(b, e, 0)
      BY <2>6, <2>7, <2>10
    <2> QED BY <2>5, <2>11, <2>12 DEF made
  <1> QED BY <1>1, <1>2

\* With no size there is one slice, from the start to wherever it ends.
LEMMA MadeUnknown ==
  ASSUME NEW accept_ranges
  PROVE  MakeSlices(-1, accept_ranges) = <<NewSlice(0, -1, 0)>>
  BY DEF MakeSlices

\* The slices of makeSlices claim nothing.
LEMMA MadeSlicesOK ==
  ASSUME NEW c \in Contents, NEW f, Clean(f, c),
         NEW n \in (Nat \ {0}) \cup {-1}, n <= Len(f), NEW accept_ranges
  PROVE  \A i \in DOMAIN MakeSlices(n, accept_ranges) :
           SliceOK(MakeSlices(n, accept_ranges)[i], f, c)
  <1>1. Len(f) \in Nat
    BY DEF Clean, File
  <1>2. CASE n = -1
    <2>1. Holds(f, c, 0, 0)
      BY <1>1 DEF Holds
    <2>2. SliceOK(NewSlice(0, -1, 0), f, c)
      BY <2>1, NewSliceOK
    <2>3. MakeSlices(n, accept_ranges) = <<NewSlice(0, -1, 0)>>
      BY <1>2, MadeUnknown
    <2> QED BY <2>2, <2>3
  <1>3. CASE n # -1
    <2> SUFFICES ASSUME NEW i \in DOMAIN MakeSlices(n, accept_ranges)
                 PROVE  SliceOK(MakeSlices(n, accept_ranges)[i], f, c)
      OBVIOUS
    <2>1. n \in Nat \ {0}
      BY <1>3
    <2>5. PICK b \in Nat : \E e \in b..n - 1 :
            MakeSlices(n, accept_ranges)[i] = NewSlice(b, e, 0)
      BY <2>1, MadeRanges
    <2>2. PICK e \in b..n - 1 : MakeSlices(n, accept_ranges)[i] = NewSlice(b, e, 0)
      BY <2>5
    <2>3. Holds(f, c, b, 0) /\ e \in Int /\ b + 0 <= e + 1
      BY <1>1, <2>1 DEF Holds
    <2>4. SliceOK(NewSlice(b, e, 0), f, c)
      BY <2>3, NewSliceOK
    <2> QED BY <2>2, <2>4
  <1> QED BY <1>2, <1>3

\* A file made anew has the size that was asked for.
LEMMA CreatedLength ==
  ASSUME NEW old \in File \cup {NoFile}, NEW n \in Nat
  PROVE  /\ Len(CreateFixedSizeFile(old, n)) >= n
         /\ Platform = "windows" \/ old = NoFile => Len(CreateFixedSizeFile(old, n)) = n
  <1> DEFINE kept == IF old = NoFile THEN <<>> ELSE old
             cuts == Platform = "windows" \/ (Platform = "macos" /\ n > 0)
             size == IF cuts THEN n ELSE Larger(n, Len(kept))
             g == CreateFixedSizeFile(old, n)
  <1>1. kept \in Seq(Byte) /\ Len(kept) \in Nat
    BY DEF File
  <1>2. size \in Nat /\ size >= n /\ (Platform = "windows" \/ old = NoFile => size = n)
    BY <1>1 DEF Larger
  <1>3. g = [k \in 1..size |-> IF k <= Len(kept) THEN kept[k] ELSE Hole]
    BY DEF CreateFixedSizeFile
  <1>4. g \in File
    BY CreateType
  <1> HIDE DEF g, size, kept
  <1>5. DOMAIN g = 1..size
    BY <1>3
  <1>6. Len(g) = size
    BY <1>2, <1>4, <1>5 DEF File
  <1> QED BY <1>2, <1>6 DEF g

\* Creating the temporary file of a session leaves a clean one, and takes nothing
\* from it that an index claims which goes on being trusted.
LEMMA CreatedFiles ==
  ASSUME TypeInv, FileInv, pc = "load", UNCHANGED <<index, src>>,
         \/ tmp' \in Created(Larger(origin, 0))
         \/ tmp' = CreateFixedSizeFile(tmp, 0),
         orphan' = "no" => orphan = "no" /\ Extends(tmp, tmp')
  PROVE  Clean(tmp', src) /\ TmpInv' /\ IndexInv'
  <1> DEFINE n == Larger(origin, 0)
  <1>1. /\ src \in Contents /\ origin = ReportedSize[src] /\ SizeOf[src] \in Nat
        /\ origin \in Nat \cup {-1} /\ (origin # -1 => origin = SizeOf[src])
        /\ tmp = NoFile \/ Clean(tmp, src)
    BY ReportedType DEF TypeInv, TypeOK, FileInv, SizeInv, TmpInv
  <1>2. n \in Nat /\ n <= SizeOf[src]
    BY <1>1 DEF Larger
  <1>3. \E old \in {tmp, NoFile}, m \in {n, 0} : tmp' = CreateFixedSizeFile(old, m)
    BY DEF Created
  <1> HIDE DEF n
  <1>4. PICK old \in {tmp, NoFile}, m \in {n, 0} : tmp' = CreateFixedSizeFile(old, m)
    BY <1>3
  <1>5. Clean(tmp', src)
    <2>1. m \in Nat /\ m <= SizeOf[src] /\ (old = NoFile \/ Clean(old, src))
      BY <1>1, <1>2
    <2> QED BY <1>1, <1>4, <2>1, CreateKeeps
  <1>6. tmp' # NoFile /\ tmp' \in File
    BY <1>5, FileAssumption DEF Clean
  <1>7. ASSUME Real, orphan' = "no" PROVE Keeps(tmp, tmp', src)
    <2>1. tmp # NoFile /\ tmp \in File
      BY <1>1, <1>7 DEF FileInv, IndexInv, Clean
    <2> QED BY <1>6, <1>7, <2>1, ExtendsKeeps
  <1>8. IndexInv'
    BY <1>6, <1>7, KeepsIndex DEF FileInv
  <1> QED BY <1>5, <1>8 DEF TmpInv

\* An index has slices.
LEMMA ClaimType ==
  ASSUME NEW x \in Index, NEW i \in DOMAIN x.slices
  PROVE  /\ x.slices[i].begin \in Nat /\ x.slices[i].end \in Int
         /\ x.slices[i].capacity \in Nat
  <1> DEFINE R == [begin : Nat, end : Int, capacity : Nat]
  <1>1. x.slices \in Seq(R)
    BY DEF Index
  <1>2. x.slices[i] \in R
    <2> HIDE DEF R
    <2> QED BY <1>1
  <1> QED BY <1>2

\* A session begins: with the index, or from nothing.
LEMMA LoadFiles ==
  ASSUME TypeInv, FileInv, Load, orphan' # "used"
  PROVE  FileInv'
  <1>1. /\ pc = "load" /\ UNCHANGED <<src, origin, index>>
        /\ src \in Contents /\ origin = ReportedSize[src] /\ origin # 0
        /\ origin \in Nat \cup {-1} /\ pc' # "remove_index"
    BY DEF Load, AfterLoad, CreateFails, Finish, Return, TypeInv, TypeOK, FileInv, SizeInv
  <1>2. SizeInv'
    BY <1>1 DEF SizeInv
  <1>3. CASE CreateFails /\ Outlive(~Extends(tmp, tmp'))
    <2>0. orphan' = "no" => orphan = "no" /\ Extends(tmp, tmp')
      BY <1>3 DEF Outlive
    <2>1. pc' = "end"
      BY <1>3 DEF CreateFails, Return
    <2>2. SlicesInv'
      BY <2>1 DEF SlicesInv
    <2>3. TmpInv' /\ IndexInv'
      <3>1. CASE tmp' = tmp
        BY <1>1, <2>0, <3>1 DEF FileInv, TmpInv, IndexInv, Real
      <3>2. CASE tmp' # tmp
        BY <1>1, <1>3, <2>0, <3>2, CreatedFiles DEF CreateFails
      <3> QED BY <3>1, <3>2
    <2> QED BY <1>2, <2>2, <2>3 DEF FileInv
  <1>4. CASE /\ tmp' \in Created(Larger(origin, 0))
             /\ slices' = MakeSlices(origin, AcceptRanges[src])
             /\ Outlive(~Extends(tmp, tmp'))
    <2>0. orphan' = "no" => orphan = "no" /\ Extends(tmp, tmp')
      BY <1>4 DEF Outlive
    <2>1. Clean(tmp', src) /\ TmpInv' /\ IndexInv'
      BY <1>1, <1>4, <2>0, CreatedFiles
    <2>2. origin <= Len(tmp')
      <3>1. Larger(origin, 0) \in Nat /\ origin <= Larger(origin, 0)
        BY <1>1 DEF Larger
      <3>2. PICK old \in {tmp, NoFile} : tmp' = CreateFixedSizeFile(old, Larger(origin, 0))
        BY <1>4 DEF Created
      <3>3. Len(tmp') >= Larger(origin, 0)
        BY <3>1, <3>2, CreatedLength DEF TypeInv, TypeOK
      <3>4. Len(tmp') \in Nat
        BY <2>1 DEF Clean, File
      <3> QED BY <1>1, <3>1, <3>3, <3>4
    <2>3. \A i \in DOMAIN slices' : SliceOK(slices'[i], tmp', src)
      BY <1>1, <1>4, <2>1, <2>2, MadeSlicesOK
    <2> QED BY <1>1, <1>2, <2>1, <2>3 DEF FileInv, SlicesInv
  <1>5. CASE /\ Usable(index, tmp, origin, src)
             /\ slices' = LoadedSlices(index) /\ UNCHANGED tmp /\ GoOn
    <2>0. orphan = "no"
      BY <1>5 DEF GoOn, TypeInv, TypeOK
    <2>1. /\ index \in Index /\ Real /\ tmp # NoFile /\ Len(tmp) = origin
          /\ index.size = origin
      BY <1>5 DEF Usable, Real, TypeInv, TypeOK
    <2>2. Clean(tmp, src)
      BY <2>1 DEF FileInv, TmpInv
    <2>3. index.size # -1
      <3>1. Len(tmp) \in Nat
        BY <2>2 DEF Clean, File
      <3> QED BY <2>1, <3>1
    <2>4. \A i \in DOMAIN index.slices : ClaimOK(index.slices[i], tmp, src)
      BY <1>1, <2>0, <2>1, <2>3 DEF FileInv, IndexInv
    <2>5. ASSUME NEW i \in DOMAIN slices' PROVE SliceOK(slices'[i], tmp, src)
      <3> DEFINE r == index.slices[i]
      <3>1. DOMAIN slices' = DOMAIN index.slices
            /\ slices'[i] = NewSlice(r.begin, r.end, r.capacity)
        BY <1>5, <2>5 DEF LoadedSlices
      <3>2. /\ r.begin \in Nat /\ r.end \in Int /\ r.capacity \in Nat
            /\ ClaimOK(r, tmp, src)
        BY <2>1, <2>4, <3>1, ClaimType
      <3> HIDE DEF r
      <3>3. SliceOK(NewSlice(r.begin, r.end, r.capacity), tmp, src)
        BY <1>1, <2>2, <3>2, NewSliceOK DEF ClaimOK
      <3> QED BY <3>1, <3>3
    <2>6. TmpInv' /\ IndexInv'
      BY <1>1, <1>5, <2>0 DEF FileInv, TmpInv, IndexInv, Real
    <2>7. SlicesInv'
      BY <1>1, <1>5, <2>5 DEF SlicesInv
    <2> QED BY <1>2, <2>6, <2>7 DEF FileInv
  <1> QED BY <1>3, <1>4, <1>5 DEF Load

-----------------------------------------------------------------------------
(* The other actions. *)

\* The steps outside the loop keep the invariant.
LEMMA FetchFiles == TypeInv /\ FileInv /\ Fetch => FileInv'
  <1> SUFFICES ASSUME TypeInv, FileInv, Fetch PROVE FileInv'
    OBVIOUS
  <1>1. /\ UNCHANGED <<slices, tmp, index, src, orphan>> /\ pc = "fetch"
        /\ pc' \in Writing \cup {"load"} => origin' = ReportedSize[src] /\ origin' # 0
    BY DEF Fetch, Return, Writing, history
  <1> QED BY <1>1, QuietFiles

\* Opening the index file tears what was in it.
LEMMA OpenIndexFiles == TypeInv /\ FileInv /\ OpenIndex => FileInv'
  <1> SUFFICES ASSUME TypeInv, FileInv, OpenIndex PROVE FileInv'
    OBVIOUS
  <1>1. /\ UNCHANGED <<slices, tmp, src, origin>> /\ pc \in Writing
        /\ pc' \notin {"remove_index", "end"} /\ pc \notin {"remove_index", "end"}
        /\ (index' = index /\ orphan' = orphan) \/ index' = TornIndex
    BY DEF OpenIndex, memory, Writing
  <1>2. TmpInv' /\ SizeInv' /\ SlicesInv'
    BY <1>1 DEF FileInv, TmpInv, SizeInv, SlicesInv
  <1>3. IndexInv'
    BY <1>1 DEF FileInv, IndexInv, Real
  <1> QED BY <1>2, <1>3 DEF FileInv

\* The index that is written claims what the slices have on disk.
LEMMA WriteIndexFiles == Environment /\ TypeInv /\ FileInv /\ WriteIndex => FileInv'
  <1> SUFFICES ASSUME Environment, TypeInv, FileInv, WriteIndex PROVE FileInv'
    OBVIOUS
  <1>1. /\ UNCHANGED <<slices, tmp, src, origin>> /\ pc \in Writing
        /\ pc' \notin {"remove_index", "end"} /\ pc \notin {"remove_index", "end"}
        /\ index' = IndexOf(slices, origin, src)
        /\ slices \in Seq(SliceRecord)
    BY DEF WriteIndex, memory, Writing, TypeInv, TypeOK, Environment
  <1>2. TmpInv' /\ SizeInv' /\ SlicesInv'
    BY <1>1 DEF FileInv, TmpInv, SizeInv, SlicesInv
  <1>3. index'.size = ReportedSize[src] /\ tmp # NoFile
    BY <1>1, CleanWhileWriting DEF IndexOf, FileInv, SizeInv
  <1>4. ASSUME NEW i \in DOMAIN index'.slices PROVE ClaimOK(index'.slices[i], tmp, src)
    <2> DEFINE r == index'.slices[i]
               s == slices[i]
    <2>1. /\ i \in DOMAIN slices /\ r.begin = s.begin /\ r.end = s.end
          /\ r.capacity = s.disk
      BY <1>1, <1>4 DEF IndexOf
    <2>2. s \in SliceRecord /\ SliceOK(s, tmp, src)
      BY <1>1, <2>1 DEF FileInv, SlicesInv
    <2>3. s.begin \in Nat /\ s.disk \in Nat /\ Len(s.cache) \in Nat /\ s.end \in Int
      BY <2>2 DEF SliceRecord
    <2> HIDE DEF r
    <2>4. ClaimOK(r, tmp, src)
      BY <2>1, <2>2, <2>3 DEF ClaimOK, SliceOK, Within
    <2> QED BY <2>4 DEF r
  <1>5. IndexInv'
    BY <1>1, <1>3, <1>4 DEF IndexInv
  <1> QED BY <1>2, <1>5 DEF FileInv

\* With the temporary file renamed, nothing is claimed of it,
LEMMA RenameFiles == FileInv /\ RenameTmp => FileInv'
  <1> SUFFICES ASSUME FileInv, RenameTmp PROVE FileInv'
    OBVIOUS
  <1>1. /\ UNCHANGED <<src, origin, slices, index>> /\ pc = "rename"
        /\ \/ tmp' = NoFile /\ pc' = "remove_index" /\ orphan' # "no"
           \/ UNCHANGED <<tmp, orphan>> /\ pc' = "end"
    BY DEF RenameTmp, Outlive, Fail, Return
  <1>2. TmpInv' /\ IndexInv'
    BY <1>1 DEF FileInv, TmpInv, IndexInv, Real
  <1> QED BY <1>1, <1>2 DEF FileInv, SizeInv, SlicesInv, Writing

\* and the index goes, or stays without its file.
LEMMA RemoveFiles == FileInv /\ RemoveIndex => FileInv'
  BY DEF RemoveIndex, Return, FileInv, TmpInv, SizeInv, SlicesInv, IndexInv, Real, Writing

\* With memory, the slices are gone.
LEMMA ForgetFiles == FileInv /\ (Crash \/ Cleanup) => FileInv'
  <1> SUFFICES ASSUME FileInv, Crash \/ Cleanup PROVE FileInv'
    OBVIOUS
  <1>1. UNCHANGED <<tmp, index, src, orphan>> /\ slices' = <<>> /\ pc' = "idle"
    BY DEF Crash, Cleanup, disk, history
  <1> QED BY <1>1 DEF FileInv, TmpInv, SizeInv, SlicesInv, IndexInv, Real, Writing

\* A start leaves the files of the last session.
LEMMA StartFiles == Environment /\ TypeInv /\ FileInv /\ Start => FileInv'
  <1> SUFFICES ASSUME Environment, TypeInv, FileInv, Start PROVE FileInv'
    OBVIOUS
  <1>1. src' = src
    BY DEF Start, Environment, TypeInv, TypeOK
  <1>2. /\ UNCHANGED <<slices, tmp, index, orphan>> /\ pc = "idle" /\ pc' = "launched"
    BY DEF Start, disk
  <1> QED BY <1>1, <1>2, QuietFiles DEF Writing

\* The steps that touch neither slices nor files.
LEMMA ElsewhereFiles ==
  ASSUME FileInv,
         \/ Launch \/ PerformReturn \/ LoopTop \/ CheckCompleted \/ VerifyHash
         \/ Stop \/ SetUserEvent \/ PauseResume \/ Rest \/ UNCHANGED vars
  PROVE  FileInv'
  <1>1. UNCHANGED <<slices, tmp, index, src, origin, orphan>>
    BY DEF Launch, PerformReturn, LoopTop, CheckCompleted, VerifyHash, Stop,
           SetUserEvent, PauseResume, Rest, vars, memory, disk, history
  <1>2. \/ UNCHANGED pc
        \/ pc = "launched" /\ pc' = "fetch"
        \/ pc \in Writing
    BY DEF Launch, PerformReturn, LoopTop, CheckCompleted, VerifyHash, Stop,
           SetUserEvent, PauseResume, Rest, vars, Writing
  <1>3. CASE UNCHANGED pc
    BY <1>1, <1>3 DEF FileInv, TmpInv, SizeInv, SlicesInv, IndexInv, Real
  <1>4. CASE pc = "launched" /\ pc' = "fetch"
    BY <1>1, <1>4, QuietFiles DEF Writing
  <1>5. CASE pc \in Writing
    BY <1>1, <1>5, QuietFiles DEF FileInv, SizeInv, Writing
  <1> QED BY <1>2, <1>3, <1>4, <1>5

\* Every step keeps the invariant, but the one that trusts an index in vain.
LEMMA NextFiles ==
  ASSUME Environment, TypeInv, FileInv, [Next]_vars, orphan' # "used"
  PROVE  FileInv'
  <1>1. CASE Worker
    BY <1>1, ElsewhereFiles, FetchFiles, LoadFiles, StartFirstFiles, FlushSliceFiles,
       OpenIndexFiles, WriteIndexFiles, UpdateFiles, ScheduleNoneFiles,
       ScheduleNextFiles, StopSliceFiles, RenameFiles, RemoveFiles, ForgetFiles
       DEF Worker
  <1>2. CASE Network
    BY <1>2, DeliverFiles, TransferEndFiles DEF Network
  <1>3. CASE User
    BY <1>3, StartFiles, ElsewhereFiles DEF User
  <1>4. CASE Crash
    BY <1>4, ForgetFiles
  <1>5. CASE Rest \/ UNCHANGED vars
    BY <1>5, ElsewhereFiles
  <1> QED BY <1>1, <1>2, <1>3, <1>4, <1>5 DEF Next

\* There are no files in the beginning.
LEMMA InitFiles == Init => FileInv
  BY DEF Init, FileInv, TmpInv, SizeInv, SlicesInv, IndexInv, Real, Writing

-----------------------------------------------------------------------------
(* The index that outlives its file. *)

\* A session goes on from one in one step only, and then for good.
LEMMA OrphanSteps ==
  ASSUME [Next]_vars
  PROVE  /\ orphan = "used" => orphan' = "used"
         /\ ~Load => (orphan' = "used" => orphan = "used")
  <1>1. CASE Load
    BY <1>1 DEF Load, GoOn, Outlive
  <1>2. CASE RenameTmp \/ OpenIndex \/ RemoveIndex
    BY <1>2 DEF RenameTmp, OpenIndex, RemoveIndex, Renewed, Outlive
  <1>3. CASE \/ Launch \/ Fetch \/ StartFirst \/ PerformReturn \/ LoopTop \/ FlushSlice
             \/ WriteIndex \/ UpdateSliceStatus \/ ScheduleNone \/ ScheduleNext
             \/ StopSlice \/ CheckCompleted \/ VerifyHash \/ Cleanup
    BY <1>3 DEF Launch, Fetch, StartFirst, PerformReturn, LoopTop, FlushSlice, WriteIndex,
       UpdateSliceStatus, ScheduleNone, ScheduleNext, StopSlice, CheckCompleted, VerifyHash,
       Cleanup, history
  <1>4. CASE Network \/ User \/ Crash \/ Rest \/ UNCHANGED vars
    BY <1>4 DEF Network, Deliver, TransferEnd, User, Start, Stop, SetUserEvent, PauseResume,
       Crash, Rest, vars, history
  <1> QED BY <1>1, <1>2, <1>3, <1>4 DEF Next, Worker

-----------------------------------------------------------------------------
(* What slices and index claim. *)

\* The invariant is stronger than SlicesTruthful,
LEMMA TruthOfSlices == TypeInv /\ FileInv => SlicesTruthful
  <1> SUFFICES ASSUME TypeInv, FileInv, NEW i \in DOMAIN slices,
                      pc \notin {"remove_index", "end"}
               PROVE  LET s == slices[i] IN
                      /\ Holds(tmp, src, s.begin, s.disk)
                      /\ s.cache = [k \in DOMAIN s.cache |-> <<src, s.begin + s.disk + k>>]
                      /\ s.end # -1 => s.disk + Len(s.cache) <= Size(s)
    BY DEF SlicesTruthful
  <1> DEFINE s == slices[i]
  <1>1. s \in SliceRecord /\ SliceOK(s, tmp, src)
    BY DEF TypeInv, TypeOK, FileInv, SlicesInv
  <1>2. /\ s.begin \in Nat /\ s.disk \in Nat /\ Len(s.cache) \in Nat /\ s.end \in Int
        /\ DOMAIN s.cache = 1..Len(s.cache)
    BY <1>1 DEF SliceRecord
  <1> HIDE DEF s
  <1>3. s.end # -1 => s.disk + Len(s.cache) <= Size(s)
    BY <1>1, <1>2 DEF SliceOK, Within, Size
  <1> QED BY <1>1, <1>2, <1>3 DEF SliceOK, Follows, s

\* and than IndexTruthful.
LEMMA TruthOfIndex == Environment /\ TypeInv /\ FileInv => IndexTruthful
  <1> SUFFICES ASSUME Environment, TypeInv, FileInv, Real, orphan = "no",
                      Usable(index, tmp, index.size, index.md5),
                      NEW i \in DOMAIN index.slices
               PROVE  Holds(tmp, index.md5, index.slices[i].begin, index.slices[i].capacity)
    BY DEF IndexTruthful, Real
  <1>1. index \in Index /\ src \in Contents
    BY DEF Real, TypeInv, TypeOK
  <1>2. index.md5 = src
    BY <1>1 DEF Environment, Index
  <1>3. tmp # NoFile /\ Len(tmp) = index.size
    BY DEF Usable
  <1>4. index.size # -1
    <2>1. Len(tmp) \in Nat
      BY <1>3 DEF FileInv, TmpInv, Clean, File
    <2> QED BY <1>3, <2>1
  <1> QED BY <1>2, <1>4 DEF FileInv, IndexInv, ClaimOK

\* Ranges that lie one behind the other, within n bytes.
Parts(r, n) ==
  /\ \A i \in DOMAIN r : r[i].end \in r[i].begin .. n - 1
  /\ \A i, j \in DOMAIN r : i < j => r[i].end < r[j].begin

\* When the parts have n bytes on disk between them, the file is the resource.
LEMMA WholeFile ==
  ASSUME NEW c \in Contents, NEW f, Clean(f, c), NEW s \in Seq(SliceRecord),
         \A i \in DOMAIN s : SliceOK(s[i], f, c) /\ s[i].cache = <<>>,
         \A i, j \in DOMAIN s : i < j => s[i].end < s[j].begin,
         \A i \in DOMAIN s : s[i].end # -1,
         TotalDownloaded(s) = SizeOf[c]
  PROVE  f = BytesOf(c)
  <1> DEFINE D == DOMAIN s
             n == SizeOf[c]
             got(i) == s[i].begin + 1 .. s[i].begin + s[i].disk
             G == [i \in D |-> got(i)]
             d == [i \in D |-> s[i].disk + Len(s[i].cache)]
             all == UNION {G[i] : i \in D}
  <1>1. n \in Nat
    BY ContentsAssumption
  <1>2. ASSUME NEW i \in D
        PROVE  /\ s[i].begin \in Nat /\ s[i].disk \in Nat /\ s[i].end \in Int
               /\ Len(s[i].cache) = 0
               /\ s[i].begin + s[i].disk <= n
               /\ s[i].begin + s[i].disk <= s[i].end + 1
               /\ Holds(f, c, s[i].begin, s[i].disk)
    <2>1. s[i] \in SliceRecord /\ SliceOK(s[i], f, c) /\ s[i].cache = <<>> /\ s[i].end # -1
      OBVIOUS
    <2>2. s[i].begin \in Nat /\ s[i].disk \in Nat /\ s[i].end \in Int /\ Len(s[i].cache) = 0
      BY <2>1 DEF SliceRecord
    <2> QED BY <2>1, <2>2 DEF SliceOK, Within
  <1>3. IsFiniteSet(D) /\ IsFiniteSet(1..n) /\ Cardinality(1..n) = n
    <2>1. D = 1..Len(s) /\ Len(s) \in Nat
      OBVIOUS
    <2> HIDE DEF D, n
    <2>2. IsFiniteSet(D)
      BY <2>1, FS_Interval
    <2>3. IsFiniteSet(1..n) /\ Cardinality(1..n) = n
      BY <1>1, FS_Interval
    <2> QED BY <2>2, <2>3
  <1>4. G \in [D -> SUBSET (1..n)]
    BY <1>1, <1>2
  <1>5. \A i, j \in D : i # j => G[i] \cap G[j] = {}
    <2> SUFFICES ASSUME NEW i \in D, NEW j \in D, i < j, NEW k \in got(i), k \in got(j)
                 PROVE  FALSE
      BY DEF D
    <2>1. s[i].end < s[j].begin
      OBVIOUS
    <2>2. /\ s[i].begin \in Nat /\ s[i].disk \in Nat /\ s[i].end \in Int
          /\ s[i].begin + s[i].disk <= s[i].end + 1 /\ s[j].begin \in Nat /\ s[j].disk \in Nat
      BY <1>2
    <2> DEFINE bi == s[i].begin
               di == s[i].disk
               ei == s[i].end
               bj == s[j].begin
               dj == s[j].disk
    <2>3. k \in bi + 1 .. bi + di /\ k \in bj + 1 .. bj + dj
      OBVIOUS
    <2>4. bi \in Nat /\ di \in Nat /\ ei \in Int /\ bi + di <= ei + 1 /\ bj \in Nat
          /\ dj \in Nat /\ ei < bj
      BY <2>1, <2>2
    <2> HIDE DEF bi, di, ei, bj, dj
    <2> QED BY <2>3, <2>4
  <1>6. \A i \in D : d[i] = Cardinality(G[i])
    <2> SUFFICES ASSUME NEW i \in D PROVE s[i].disk + Len(s[i].cache) = Cardinality(got(i))
      OBVIOUS
    <2> DEFINE b == s[i].begin
               m == s[i].disk
    <2>1. b \in Nat /\ m \in Nat /\ Len(s[i].cache) = 0
      BY <1>2
    <2> HIDE DEF b, m
    <2>2. Cardinality(b + 1 .. b + m) = m
      <3>1. CASE m = 0
        <4>1. b + 1 .. b + m = {}
          BY <2>1, <3>1
        <4> QED BY <3>1, <4>1, FS_EmptySet
      <3>2. CASE m # 0
        <4>1. /\ b + 1 \in Int /\ b + m \in Int /\ ~(b + 1 > b + m)
              /\ (b + m) - (b + 1) + 1 = m
          BY <2>1, <3>2
        <4> QED BY <4>1, FS_Interval
      <3> QED BY <3>1, <3>2
    <2> QED BY <2>1, <2>2 DEF b, m
  <1>7. SumFunction(d) = n
    BY DEF TotalDownloaded
  <1>8. DOMAIN d = D
    OBVIOUS
  <1> HIDE DEF d, G
  <1>9. Cardinality(all) = n
    <2> DEFINE U == 1..n
    <2>1. IsFiniteSet(D) /\ IsFiniteSet(U) /\ G \in [D -> SUBSET U]
      BY <1>3, <1>4
    <2> HIDE DEF D, U, n
    <2>2. SumFunction(d) = Cardinality(UNION {G[i] : i \in D})
      BY <1>5, <1>6, <1>8, <2>1, SumCounts
    <2> QED BY <1>7, <2>2
  <1>10. all = 1..n
    <2>1. all \in SUBSET (1..n)
      BY <1>4
    <2> HIDE DEF all, n
    <2> QED BY <1>3, <1>9, <2>1, FS_Subset
  <1>11. \A k \in 1..n : k <= Len(f) /\ f[k] = <<c, k>>
    <2> SUFFICES ASSUME NEW k \in 1..n PROVE k <= Len(f) /\ f[k] = <<c, k>>
      OBVIOUS
    <2>1. PICK i \in D : k \in G[i]
      BY <1>10
    <2>2. k \in got(i)
      BY <2>1 DEF G
    <2>3. Holds(f, c, s[i].begin, s[i].disk) /\ s[i].begin \in Nat /\ s[i].disk \in Nat
      BY <1>2
    <2>4. Len(f) \in Nat
      BY DEF Clean, File
    <2> HIDE DEF D, n
    <2> QED BY <2>2, <2>3, <2>4 DEF Holds
  <1>12. Len(f) = n /\ f \in Seq(Byte)
    <2>1. Len(f) \in Nat /\ Len(f) <= n /\ f \in Seq(Byte)
      BY DEF Clean, File
    <2>2. n # 0 => n <= Len(f)
      BY <1>1, <1>11
    <2> QED BY <1>1, <2>1, <2>2
  <1>13. f = [k \in 1..Len(f) |-> f[k]]
    BY <1>12
  <1> QED BY <1>11, <1>12, <1>13 DEF BytesOf

\* Every server states the size of its resource.
KnownSizes == \A x \in Contents : ReportedSize[x] # -1

\* Slice v is the same range as slice s.
SameRange(s, v) == v.begin = s.begin /\ v.end = s.end

\* A step that moves no bounds.
RangesKept ==
  /\ DOMAIN slices' = DOMAIN slices
  /\ \A i \in DOMAIN slices : SameRange(slices[i], slices'[i])

\* The bounds of a slice come through every operation.
LEMMA RangeOf ==
  ASSUME NEW s \in SliceRecord, NEW w, NEW n, NEW buffer, NEW speed, NEW r
  PROVE  /\ SameRange(s, Started(s, buffer, speed, r))
         /\ SameRange(s, StartFailed(s))
         /\ SameRange(s, FlushToDisk(s, w))
         /\ SameRange(s, Stopped(s, w))
         /\ SameRange(s, OnNewData(s, n, w))
  <1>1. SameRange(s, Started(s, buffer, speed, r))
    BY DEF SameRange, SliceRecord, Started
  <1>2. SameRange(s, StartFailed(s)) /\ SameRange(s, FlushToDisk(s, w))
    BY DEF SameRange, SliceRecord, StartFailed, FlushToDisk
  <1>3. SameRange(s, Stopped(s, w))
    BY DEF SameRange, SliceRecord, Stopped
  <1>4. SameRange(s, OnNewData(s, n, w))
    BY DEF SameRange, SliceRecord, OnNewData
  <1> QED BY <1>1, <1>2, <1>3, <1>4

\* Changing one slice.
LEMMA OneKept ==
  ASSUME NEW i, NEW v, slices' = [slices EXCEPT ![i] = v],
         i \in DOMAIN slices => SameRange(slices[i], v)
  PROVE  RangesKept
  BY OneReplaced DEF RangesKept, SameRange

\* Changing none.
LEMMA AllKept == UNCHANGED slices => RangesKept
  BY DEF RangesKept, SameRange

\* Starting one.
LEMMA StartSliceRanges ==
  ASSUME slices \in Seq(SliceRecord), NEW i, NEW n, NEW code, StartSlice(i, n, code)
  PROVE  RangesKept
  <1>1. i \in DOMAIN slices => slices[i] \in SliceRecord
    OBVIOUS
  <1>2. ASSUME NEW buffer, NEW speed, NEW r,
               slices' = [slices EXCEPT ![i] = Started(slices[i], buffer, speed, r)]
        PROVE  RangesKept
    BY <1>1, <1>2, RangeOf, OneKept
  <1>3. ASSUME slices' = [slices EXCEPT ![i] = StartFailed(slices[i])]
        PROVE  RangesKept
    BY <1>1, <1>3, RangeOf, OneKept
  <1> QED BY <1>2, <1>3 DEF StartSlice

\* No step of a session moves the bounds of a slice.
LEMMA StepRanges ==
  ASSUME TypeInv, [Next]_vars
  PROVE  RangesKept \/ slices' = <<>> \/ Load
  <1>1. slices \in Seq(SliceRecord) /\ \A i \in DOMAIN slices : slices[i] \in SliceRecord
    BY DEF TypeInv, TypeOK
  <1>2. CASE UNCHANGED slices \/ slices' = <<>>
    BY <1>2, AllKept
  <1>3. CASE \/ Start \/ Stop \/ SetUserEvent \/ PauseResume \/ Crash \/ Rest \/ UNCHANGED vars
             \/ Launch \/ Fetch \/ PerformReturn \/ LoopTop \/ OpenIndex \/ WriteIndex
             \/ CheckCompleted \/ VerifyHash \/ RenameTmp \/ RemoveIndex \/ Cleanup
    BY <1>2, <1>3 DEF Start, Stop, SetUserEvent, PauseResume, Crash, Rest, Launch, Fetch,
       PerformReturn, LoopTop, OpenIndex, WriteIndex, CheckCompleted, VerifyHash, RenameTmp,
       RemoveIndex, Cleanup, vars, memory
  <1>4. CASE StartFirst \/ ScheduleNext
    BY <1>1, <1>2, <1>4, StartSliceRanges DEF StartFirst, ScheduleNext
  <1>5. CASE FlushSlice
    BY <1>1, <1>2, <1>5, RangeOf, OneKept DEF FlushSlice
  <1>6. CASE UpdateSliceStatus
    <2> DEFINE changed(i) == [slices[i] EXCEPT !.status = StatusAfter(slices[i]),
                                !.failed = IF StatusAfter(slices[i]) = "DOWNLOAD_FAILED"
                                           THEN @ + 1 ELSE @]
    <2>1. CASE UNCHANGED slices
      BY <1>2, <2>1
    <2>2. ASSUME NEW i \in Done, NEW w, slices' = [slices EXCEPT ![i] = Stopped(changed(i), w)]
          PROVE  RangesKept
      <3>1. i \in DOMAIN slices /\ slices[i] \in SliceRecord
        BY <1>1 DEF Done
      <3>2. SameRange(slices[i], Stopped(changed(i), w))
        BY <3>1 DEF SameRange, Stopped, SliceRecord
      <3> QED BY <2>2, <3>2, OneKept
    <2> QED BY <1>6, <2>1, <2>2 DEF UpdateSliceStatus
  <1>7. CASE ScheduleNone
    <2>1. CASE \E i : slices' = [slices EXCEPT ![i].status = "DOWNLOAD_COMPLETED"]
      <3>1. PICK i : slices' = [slices EXCEPT ![i] = [slices[i] EXCEPT !.status = "DOWNLOAD_COMPLETED"]]
        BY <2>1
      <3>2. i \in DOMAIN slices =>
              SameRange(slices[i], [slices[i] EXCEPT !.status = "DOWNLOAD_COMPLETED"])
        BY <1>1 DEF SameRange, SliceRecord
      <3> QED BY <3>1, <3>2, OneKept
    <2> QED BY <1>2, <1>7, <2>1 DEF ScheduleNone
  <1>8. CASE StopSlice
    BY <1>1, <1>2, <1>8, RangeOf, OneKept DEF StopSlice
  <1>9. ASSUME NEW i \in DOMAIN slices, Deliver(i)
        PROVE  RangesKept
    BY <1>1, <1>9, RangeOf, OneKept DEF Deliver
  <1>10. ASSUME NEW i \in DOMAIN slices, TransferEnd(i)
         PROVE  RangesKept
    <2>1. PICK how : slices' = [slices EXCEPT ![i] = [slices[i] EXCEPT !.curl = how]]
      BY <1>10 DEF TransferEnd
    <2>2. SameRange(slices[i], [slices[i] EXCEPT !.curl = how])
      BY <1>1 DEF SameRange, SliceRecord
    <2> QED BY <2>1, <2>2, OneKept
  <1> QED BY <1>3, <1>4, <1>5, <1>6, <1>7, <1>8, <1>9, <1>10 DEF Next, Worker, User, Network

-----------------------------------------------------------------------------
(* The slices keep apart. *)

\* The slices, and those an index remembers, lie one behind the other.
PartsInv ==
  /\ Parts(slices, SizeOf[src])
  /\ Real => Parts(index.slices, SizeOf[src])

\* With the same bounds they lie as they did.
LEMMA SameParts ==
  ASSUME NEW r, NEW q, NEW n, Parts(r, n), DOMAIN q = DOMAIN r,
         \A i \in DOMAIN r : SameRange(r[i], q[i])
  PROVE  Parts(q, n)
  BY DEF Parts, SameRange

\* Those of makeSlices do.
LEMMA MadeParts ==
  ASSUME NEW n \in Nat \ {0}, NEW accept_ranges
  PROVE  Parts(MakeSlices(n, accept_ranges), n)
  <1> DEFINE made == MakeSlices(n, accept_ranges)
  <1>1. ASSUME NEW i \in DOMAIN made PROVE made[i].end \in made[i].begin .. n - 1
    <2>1. PICK b \in Nat : \E e \in b..n - 1 : made[i] = NewSlice(b, e, 0)
      BY MadeRanges
    <2>2. PICK e \in b..n - 1 : made[i] = NewSlice(b, e, 0)
      BY <2>1
    <2> HIDE DEF made
    <2> QED BY <2>2, NewRange
  <1>2. ASSUME NEW i \in DOMAIN made, NEW j \in DOMAIN made, i < j
        PROVE  made[i].end < made[j].begin
    BY <1>2, MadeRanges
  <1> QED BY <1>1, <1>2 DEF Parts

\* Every step leaves them so.
LEMMA NextParts ==
  Environment /\ KnownSizes /\ TypeInv /\ FileInv /\ PartsInv /\ [Next]_vars => PartsInv'
  <1> SUFFICES ASSUME Environment, KnownSizes, TypeInv, FileInv, PartsInv, [Next]_vars
               PROVE  PartsInv'
    OBVIOUS
  <1>1. src \in Contents /\ src' = src
    <2>1. src \in Contents /\ src' \in Contents
      BY NextType DEF TypeInv, TypeOK
    <2> QED BY <2>1 DEF Environment
  <1>2. Parts(slices', SizeOf[src])
    <2>1. CASE RangesKept
      BY <2>1, SameParts DEF PartsInv, RangesKept
    <2>2. CASE slices' = <<>>
      BY <2>2 DEF Parts
    <2>3. CASE Load
      <3>1. origin = SizeOf[src] /\ origin \in Nat \ {0}
        BY <1>1, <2>3, ReportedType DEF Load, FileInv, SizeInv, KnownSizes
      <3>2. CASE UNCHANGED slices
        BY <3>2 DEF PartsInv
      <3>3. CASE slices' = MakeSlices(origin, AcceptRanges[src])
        BY <3>1, <3>3, MadeParts
      <3>4. CASE Usable(index, tmp, origin, src) /\ slices' = LoadedSlices(index)
        <4>1. Parts(index.slices, SizeOf[src])
          BY <3>4 DEF PartsInv, Real, Usable
        <4>2. /\ DOMAIN slices' = DOMAIN index.slices
              /\ \A i \in DOMAIN index.slices : SameRange(index.slices[i], slices'[i])
          BY <3>4, NewRange DEF LoadedSlices, SameRange
        <4> QED BY <4>1, <4>2, SameParts
      <3> QED BY <2>3, <3>2, <3>3, <3>4 DEF Load, CreateFails
    <2> QED BY <2>1, <2>2, <2>3, StepRanges
  <1>3. Real' => Parts(index'.slices, SizeOf[src])
    <2>1. CASE WriteIndex
      <3>1. index' = IndexOf(slices, origin, src)
        BY <2>1 DEF WriteIndex, Environment
      <3>2. /\ DOMAIN index'.slices = DOMAIN slices
            /\ \A i \in DOMAIN slices : SameRange(slices[i], index'.slices[i])
        BY <3>1 DEF IndexOf, SameRange
      <3> QED BY <3>2, SameParts DEF PartsInv
    <2>2. CASE UNCHANGED index \/ index' = TornIndex \/ index' = NoFile
      BY <2>2 DEF PartsInv, Real
    <2>3. CASE Worker /\ ~WriteIndex
      BY <2>2, <2>3 DEF Worker, Launch, Fetch, Load, StartFirst, PerformReturn, LoopTop,
         FlushSlice, OpenIndex, UpdateSliceStatus, ScheduleNone, ScheduleNext, StopSlice,
         CheckCompleted, VerifyHash, RenameTmp, RemoveIndex, Cleanup, disk
    <2>4. CASE Network \/ User \/ Crash \/ Rest \/ UNCHANGED vars
      BY <2>2, <2>4 DEF Network, Deliver, TransferEnd, User, Start, Stop, SetUserEvent,
         PauseResume, Crash, Rest, vars, disk
    <2> QED BY <2>1, <2>3, <2>4 DEF Next
  <1> QED BY <1>1, <1>2, <1>3 DEF PartsInv

\* There are none in the beginning.
LEMMA InitParts == Init => PartsInv
  BY DEF Init, PartsInv, Parts, Real

-----------------------------------------------------------------------------
(* The end of a session. *)

\* Where the end of a session is worked on.
AfterLoop == {"stopping", "finish_open", "finish_write", "check"}

\* After the loop the caches are emptied slice by slice; and where the check
\* that all is completed was passed, or is not made, all of the resource is in
\* the temporary file.
FinishInv ==
  /\ pc = "stopping" => \A i \in DOMAIN slices : i < cur \/ ~check => slices[i].cache = <<>>
  /\ pc \in AfterLoop \ {"stopping"} => \A i \in DOMAIN slices : slices[i].cache = <<>>
  /\ pc \in AfterLoop /\ ~check => tmp = BytesOf(src)
  /\ pc \in {"hash", "rename"} => tmp = BytesOf(src)

\* Slices with nothing cached and all downloaded make up the resource.
LEMMA PartsFile ==
  ASSUME NEW c \in Contents, NEW f, Clean(f, c), NEW s \in Seq(SliceRecord),
         \A i \in DOMAIN s : SliceOK(s[i], f, c),
         \A i \in DOMAIN s : s[i].cache = <<>>,
         Parts(s, SizeOf[c]), AllCompletedBySize(s, SizeOf[c])
  PROVE  f = BytesOf(c)
  <1>1. ASSUME NEW i \in DOMAIN s PROVE s[i].end # -1
    <2>1. s[i] \in SliceRecord
      OBVIOUS
    <2>2. s[i].begin \in Nat /\ s[i].end \in s[i].begin .. SizeOf[c] - 1
      BY <2>1 DEF SliceRecord, Parts
    <2> QED BY <2>2
  <1>2. TotalDownloaded(s) = SizeOf[c]
    BY DEF AllCompletedBySize
  <1>3. \A i, j \in DOMAIN s : i < j => s[i].end < s[j].begin
    BY DEF Parts
  <1> QED BY <1>1, <1>2, <1>3, WholeFile

\* Slices with nothing in their caches and the size of the resource on disk
\* leave the resource in the temporary file.
LEMMA WholeTmp ==
  ASSUME KnownSizes, TypeInv, FileInv, PartsInv, pc \in Writing,
         \A i \in DOMAIN slices : slices[i].cache = <<>>,
         AllCompletedBySize(slices, origin)
  PROVE  tmp = BytesOf(src)
  <1>1. src \in Contents /\ slices \in Seq(SliceRecord) /\ Clean(tmp, src)
    BY CleanWhileWriting DEF TypeInv, TypeOK
  <1>2. \A i \in DOMAIN slices : SliceOK(slices[i], tmp, src)
    BY DEF FileInv, SlicesInv, Writing
  <1>3. origin = SizeOf[src]
    BY <1>1, ReportedType DEF FileInv, SizeInv, KnownSizes
  <1> QED BY <1>1, <1>2, <1>3, PartsFile DEF PartsInv

\* A step that does not enter or move within the end of a session.
LEMMA QuietFinish ==
  ASSUME pc' \notin AfterLoop \cup {"hash", "rename"}
  PROVE  FinishInv'
  BY DEF FinishInv, AfterLoop

\* Where the loop is left to.
LEMMA LoopLeft ==
  ASSUME TypeInv', Finish(TRUE)
  PROVE  FinishInv'
  <1>1. pc' = "stopping" /\ cur' = 1 /\ check' = TRUE /\ ret' = "SUCCESSED"
    BY DEF Finish
  <1>2. \A i \in DOMAIN slices' : ~(i < 1)
    BY DEF TypeInv, TypeOK
  <1> QED BY <1>1, <1>2 DEF FinishInv, AfterLoop

\* The loop ends,
LEMMA LoopEndFinish ==
  ASSUME TypeInv', NEW n, LoopEnd(n)
  PROVE  FinishInv'
  <1>1. Finish(TRUE) \/ pc' = "loop"
    BY DEF LoopEnd
  <1> QED BY <1>1, LoopLeft, QuietFinish DEF AfterLoop

\* or there was no need of it.
LEMMA LoadFinish ==
  ASSUME KnownSizes, TypeInv, TypeInv', FileInv', PartsInv', Load
  PROVE  FinishInv'
  <1>1. CASE CreateFails
    BY <1>1, QuietFinish DEF CreateFails, Return, AfterLoop
  <1>2. CASE AfterLoad /\ ~CreateFails
    <2>1. CASE Finish(FALSE)
      <3>1. pc' = "stopping" /\ ret' = "SUCCESSED" /\ check' = FALSE
        BY <2>1 DEF Finish
      <3>2. \A i \in DOMAIN slices' : slices'[i].cache = <<>>
        <4>1. CASE slices' = LoadedSlices(index)
          BY <4>1, NewRange DEF LoadedSlices
        <4>2. CASE slices' = MakeSlices(origin, AcceptRanges[src])
          BY <4>2, NewRange DEF MakeSlices
        <4> QED BY <1>2, <4>1, <4>2 DEF Load
      <3>3. AllCompletedBySize(slices', origin')
        BY <1>2, <3>1 DEF AfterLoad, Return, Load
      <3>4. tmp' = BytesOf(src')
        <4>1. /\ src' \in Contents /\ slices' \in Seq(SliceRecord)
              /\ tmp' # NoFile /\ Clean(tmp', src')
          BY <3>1, FileAssumption DEF TypeInv, TypeOK, HasTmp, FileInv, TmpInv, Writing
        <4>2. \A i \in DOMAIN slices' : SliceOK(slices'[i], tmp', src')
          BY <3>1 DEF FileInv, SlicesInv
        <4>3. origin' = SizeOf[src']
          BY <3>1, <4>1, ReportedType DEF FileInv, SizeInv, KnownSizes, Writing
        <4> QED BY <3>2, <3>3, <4>1, <4>2, <4>3, PartsFile DEF PartsInv
      <3> QED BY <3>1, <3>2, <3>4 DEF FinishInv, AfterLoop
    <2>2. CASE pc' = "start" \/ Return("INIT_CURL_MULTI_FAILED")
      BY <2>2, QuietFinish DEF Return, AfterLoop
    <2> QED BY <1>2, <2>1, <2>2 DEF AfterLoad
  <1> QED BY <1>1, <1>2 DEF Load

\* One more cache is emptied.
LEMMA StopSliceFinish == TypeInv /\ FinishInv /\ StopSlice => FinishInv'
  <1> SUFFICES ASSUME TypeInv, FinishInv, StopSlice PROVE FinishInv'
    OBVIOUS
  <1>1. /\ pc = "stopping" /\ UNCHANGED <<src, check>>
        /\ ~check => tmp = BytesOf(src)
        /\ slices \in Seq(SliceRecord) /\ cur \in Nat \ {0}
        /\ \A i \in DOMAIN slices : i < cur \/ ~check => slices[i].cache = <<>>
    BY DEF StopSlice, FinishInv, AfterLoop, TypeInv, TypeOK
  <1>2. CASE cur \in DOMAIN slices
    <2> DEFINE data == StopWrites(slices[cur])
    <2>1. PICK w \in Accepted(data) :
            /\ WriteTmp(cur, data, w)
            /\ slices' = [slices EXCEPT ![cur] = Stopped(slices[cur], w)]
            /\ ret' = IF w = Len(data) THEN ret ELSE "FLUSH_TMP_FILE_FAILED"
            /\ cur' = cur + 1 /\ UNCHANGED pc
      BY <1>2 DEF StopSlice
    <2>2. \A i \in DOMAIN slices' : i < cur' \/ ~check' => slices'[i].cache = <<>>
      <3>1. slices[cur] \in SliceRecord
        BY <1>1, <1>2
      <3>2. Stopped(slices[cur], w).cache = <<>>
        BY <3>1 DEF Stopped, SliceRecord
      <3>3. /\ DOMAIN slices' = DOMAIN slices /\ slices'[cur].cache = <<>>
            /\ \A j \in DOMAIN slices : j # cur => slices'[j] = slices[j]
        BY <1>2, <2>1, <3>2, OneReplaced
      <3>4. \A i \in DOMAIN slices : i < cur' /\ i # cur => i < cur
        BY <1>1, <2>1
      <3> QED BY <1>1, <3>3, <3>4
    <2>3. ~check' => tmp' = BytesOf(src')
      <3> SUFFICES ASSUME ~check PROVE tmp' = tmp
        BY <1>1
      <3>1. data = <<>>
        BY <1>1, <1>2 DEF StopWrites
      <3>2. w = 0
        BY <3>1 DEF Accepted
      <3>3. SubSeq(data, 1, w) = <<>>
        BY <3>1, <3>2
      <3> QED BY <2>1, <3>3 DEF WriteTmp, Write
    <2> QED BY <1>1, <2>1, <2>2, <2>3 DEF FinishInv, AfterLoop
  <1>3. CASE cur \notin DOMAIN slices
    <2>1. pc' = "finish_open" /\ UNCHANGED <<slices, tmp, ret>>
      BY <1>3 DEF StopSlice
    <2>2. \A i \in DOMAIN slices : i < cur
      <3>1. DOMAIN slices = 1..Len(slices) /\ Len(slices) \in Nat
        BY <1>1
      <3>2. cur > Len(slices)
        BY <1>1, <1>3, <3>1
      <3> QED BY <1>1, <3>1, <3>2
    <2> QED BY <1>1, <2>1, <2>2 DEF FinishInv, AfterLoop
  <1> QED BY <1>2, <1>3

\* The index is written.
LEMMA IndexFinish == FinishInv /\ (OpenIndex \/ WriteIndex) => FinishInv'
  <1> SUFFICES ASSUME FinishInv, OpenIndex \/ WriteIndex PROVE FinishInv'
    OBVIOUS
  <1>1. UNCHANGED <<src, slices, check, tmp>>
    BY DEF OpenIndex, WriteIndex, memory
  <1>2. \/ pc \in {"flush_open", "flush_write"} /\ pc' \in {"flush_write", "perform"}
        \/ pc \in {"finish_open", "finish_write"} /\ pc' \in {"finish_write", "check"}
    BY DEF OpenIndex, WriteIndex
  <1> QED BY <1>1, <1>2, QuietFinish DEF FinishInv, AfterLoop

\* The check is made.
LEMMA CheckFinish ==
  ASSUME KnownSizes, TypeInv, FileInv, PartsInv, FinishInv, CheckCompleted
  PROVE  FinishInv'
  <1>1. /\ pc = "check" /\ UNCHANGED <<src, origin, slices, tmp>>
        /\ src \in Contents /\ origin = ReportedSize[src]
    BY DEF CheckCompleted, disk, TypeInv, TypeOK, FileInv, SizeInv, Writing
  <1>2. CASE pc' = "end"
    BY <1>2, QuietFinish DEF AfterLoop
  <1>3. CASE /\ check => origin = -1 \/ AllCompletedBySize(slices, origin)
             /\ pc' \in {"hash", "rename"}
    <2>1. tmp = BytesOf(src)
      <3>1. CASE ~check
        BY <1>1, <3>1 DEF FinishInv, AfterLoop
      <3>2. CASE check
        <4>1. AllCompletedBySize(slices, origin)
          BY <1>1, <1>3, <3>2 DEF KnownSizes
        <4>2. \A i \in DOMAIN slices : slices[i].cache = <<>>
          BY <1>1 DEF FinishInv, AfterLoop
        <4> QED BY <1>1, <4>1, <4>2, WholeTmp DEF Writing
      <3> QED BY <3>1, <3>2
    <2> QED BY <1>1, <1>3, <2>1 DEF FinishInv, AfterLoop
  <1> QED BY <1>2, <1>3 DEF CheckCompleted, Fail, Return

\* The hash is verified, the file renamed, the index removed.
LEMMA TailFinish ==
  ASSUME FinishInv, VerifyHash \/ RenameTmp \/ RemoveIndex
  PROVE  FinishInv'
  <1>1. CASE pc' \in {"remove_index", "end"}
    BY <1>1, QuietFinish DEF AfterLoop
  <1>2. CASE pc = "hash" /\ pc' = "rename" /\ UNCHANGED <<src, tmp>>
    BY <1>2 DEF FinishInv, AfterLoop
  <1> QED BY <1>1, <1>2 DEF VerifyHash, RenameTmp, RemoveIndex, Fail, Return, disk

\* What leads neither to the end of a session nor onward within it.
LEMMA ElsewhereFinish ==
  ASSUME TypeInv', \/ Launch \/ Fetch \/ StartFirst \/ PerformReturn \/ LoopTop \/ FlushSlice
                   \/ UpdateSliceStatus \/ ScheduleNone \/ ScheduleNext \/ Cleanup
                   \/ Network \/ Start \/ Crash
  PROVE  FinishInv'
  <1>1. CASE Launch \/ FlushSlice \/ UpdateSliceStatus \/ Cleanup \/ Network \/ Start \/ Crash
    <2>1. pc' \notin AfterLoop \cup {"hash", "rename"}
      BY <1>1 DEF Launch, FlushSlice, UpdateSliceStatus, Cleanup, Network, Deliver,
         TransferEnd, Start, Crash, AfterLoop
    <2> QED BY <2>1, QuietFinish
  <1>2. CASE Fetch \/ StartFirst
    <2>1. pc' \in {"end", "load", "start", "perform0"}
      BY <1>2 DEF Fetch, StartFirst, Return
    <2> QED BY <2>1, QuietFinish DEF AfterLoop
  <1>3. CASE PerformReturn \/ LoopTop \/ ScheduleNone \/ ScheduleNext
    <2>1. \/ Finish(TRUE) \/ \E n : LoopEnd(n)
          \/ pc' \in {"loop", "update", "flush", "perform", "performNew"}
      BY <1>3 DEF PerformReturn, LoopTop, ScheduleNone, ScheduleNext
    <2> QED BY <2>1, LoopLeft, LoopEndFinish, QuietFinish DEF AfterLoop
  <1> QED BY <1>1, <1>2, <1>3

\* A stutter.
LEMMA StutterFinish ==
  ASSUME FinishInv, Stop \/ SetUserEvent \/ PauseResume \/ Rest \/ UNCHANGED vars
  PROVE  FinishInv'
  <1>1. UNCHANGED <<pc, src, slices, cur, check, tmp>>
    BY DEF Stop, SetUserEvent, PauseResume, Rest, vars, memory, disk
  <1> QED BY <1>1 DEF FinishInv, AfterLoop

\* Every step keeps it.
LEMMA NextFinish ==
  ASSUME Environment, KnownSizes, TypeInv, FileInv, PartsInv, FinishInv, [Next]_vars,
         orphan' # "used"
  PROVE  FinishInv'
  <1>1. TypeInv' /\ FileInv' /\ PartsInv'
    BY NextType, NextFiles, NextParts
  <1>2. CASE Worker
    BY <1>1, <1>2, LoadFinish, StopSliceFinish, IndexFinish, CheckFinish, TailFinish,
       ElsewhereFinish DEF Worker
  <1>3. CASE Network \/ User \/ Crash \/ Rest \/ UNCHANGED vars
    BY <1>1, <1>3, ElsewhereFinish, StutterFinish DEF User
  <1> QED BY <1>2, <1>3 DEF Next

\* Nothing is done in the beginning.
LEMMA InitFinish == Init => FinishInv
  BY DEF Init, FinishInv, AfterLoop

\* Whatever happened before, who is on the way to the end carries a result.
RetInv == pc \in AfterLoop \cup {"end"} => ret # "none"

\* Every step leaves him one.
LEMMA NextRet == RetInv /\ [Next]_vars => RetInv'
  <1> SUFFICES ASSUME RetInv, [Next]_vars PROVE RetInv'
    OBVIOUS
  <1>1. ASSUME NEW r, Return(r), r # "none" PROVE RetInv'
    BY <1>1 DEF Return, RetInv
  <1>2. ASSUME NEW need_check, Finish(need_check) PROVE RetInv'
    BY <1>2 DEF Finish, RetInv
  <1>3. CASE pc' \notin AfterLoop \cup {"end"}
    BY <1>3 DEF RetInv
  <1>4. CASE Launch \/ UpdateSliceStatus \/ FlushSlice \/ Cleanup \/ Network \/ Start \/ Crash
    BY <1>3, <1>4 DEF Launch, UpdateSliceStatus, FlushSlice, Cleanup, Network, Deliver,
       TransferEnd, Start, Crash, AfterLoop
  <1>5. CASE Fetch \/ Load \/ StartFirst
    BY <1>1, <1>2, <1>3, <1>5 DEF Fetch, Load, AfterLoad, CreateFails, StartFirst, StartCodes,
       Return, AfterLoop
  <1>6. CASE PerformReturn \/ LoopTop \/ ScheduleNone \/ ScheduleNext
    BY <1>2, <1>3, <1>6 DEF PerformReturn, LoopTop, ScheduleNone, ScheduleNext, LoopEnd, AfterLoop
  <1>7. CASE OpenIndex \/ WriteIndex \/ StopSlice
    BY <1>7 DEF OpenIndex, WriteIndex, StopSlice, memory, RetInv, AfterLoop
  <1>8. CASE CheckCompleted \/ VerifyHash
    BY <1>3, <1>8 DEF CheckCompleted, VerifyHash, Fail, Return, RetInv, AfterLoop
  <1>9. CASE RenameTmp \/ RemoveIndex
    BY <1>3, <1>9 DEF RenameTmp, RemoveIndex, Fail, Return, RetInv, AfterLoop
  <1>10. CASE Stop \/ SetUserEvent \/ PauseResume \/ Rest \/ UNCHANGED vars
    BY <1>10 DEF Stop, SetUserEvent, PauseResume, Rest, vars, memory, RetInv
  <1> QED BY <1>4, <1>5, <1>6, <1>7, <1>8, <1>9, <1>10 DEF Next, Worker, User

-----------------------------------------------------------------------------
(* The target. *)

\* What is at the target path is the resource, and is there when that is said.
TargetInv ==
  /\ target # NoFile => target = BytesOf(src)
  /\ Phase = "placed" => target # NoFile
  /\ pc # "idle" => result = "none"
  /\ result = "SUCCESSED" => target # NoFile

\* The inductive invariant of a download that was never misled.
DownloadInv == TypeInv /\ FileInv /\ PartsInv /\ FinishInv /\ TargetInv

\* Creating the target of an empty resource is creating the resource.
LEMMA EmptyTarget ==
  ASSUME NEW c \in Contents, SizeOf[c] = 0, NEW old, old = NoFile \/ old = BytesOf(c)
  PROVE  CreateFixedSizeFile(old, 0) = BytesOf(c)
  <1>1. BytesOf(c) = <<>>
    BY DEF BytesOf
  <1> DEFINE kept == IF old = NoFile THEN <<>> ELSE old
  <1>2. kept = <<>> /\ Len(kept) = 0
    BY <1>1
  <1> DEFINE cuts == Platform = "windows" \/ (Platform = "macos" /\ 0 > 0)
             size == IF cuts THEN 0 ELSE Larger(0, Len(kept))
  <1>3. size = 0
    BY <1>2 DEF Larger
  <1>4. CreateFixedSizeFile(old, 0) = [k \in 1..size |-> IF k <= Len(kept) THEN kept[k] ELSE Hole]
    BY DEF CreateFixedSizeFile
  <1> HIDE DEF size, kept
  <1>5. CreateFixedSizeFile(old, 0) = <<>>
    BY <1>3, <1>4
  <1> QED BY <1>1, <1>5

\* A resource is a file.
LEMMA BytesAreFile ==
  ASSUME NEW c \in Contents
  PROVE  BytesOf(c) \in File /\ BytesOf(c) # NoFile
  <1>1. SizeOf[c] \in Nat
    BY ContentsAssumption
  <1>2. BytesOf(c) \in Seq(Byte)
    BY <1>1 DEF BytesOf, Byte
  <1> QED BY <1>2, FileAssumption DEF File

\* The step places a file, the resource unless a session was misled before.
Placing ==
  /\ Phase = "busy" /\ Phase' = "placed"
  /\ target' \in File /\ UNCHANGED <<src, result>>
  /\ DownloadInv => target' = BytesOf(src)
  /\ pc # "idle" /\ ~Load

\* The step is not seen at the target path.
Unseen ==
  /\ UNCHANGED <<target, src, result>> /\ Phase' = Phase
  /\ \/ UNCHANGED pc
     \/ pc # "idle" /\ pc' # "idle"

\* What the worker does in a session.
LEMMA InnerSteps ==
  ASSUME TypeInv, Worker, ~Cleanup
  PROVE  Placing \/ Unseen
  <1>1. src \in Contents /\ tmp \in File \cup {NoFile} /\ target \in File \cup {NoFile}
    BY DEF TypeInv, TypeOK
  <1>2. CASE Fetch
    <2>1. pc = "fetch" /\ UNCHANGED <<src, result>> /\ pc' \in {"end", "load"}
      BY <1>2 DEF Fetch, Return
    <2>2. CASE pc' = "end" /\ ret' = "SUCCESSED"
      <3>1. ReportedSize[src] = 0 /\ target' = CreateFixedSizeFile(target, 0)
        BY <1>2, <2>2 DEF Fetch, Return
      <3>2. target' \in File
        BY <1>1, <3>1, CreateType
      <3>3. DownloadInv => target' = BytesOf(src)
        BY <1>1, <3>1, ReportedType, EmptyTarget DEF DownloadInv, TargetInv
      <3>4. ~Load
        BY <2>1 DEF Load
      <3> QED BY <2>1, <2>2, <3>2, <3>3, <3>4 DEF Placing, Phase
    <2>3. CASE ~(pc' = "end" /\ ret' = "SUCCESSED")
      <3>1. UNCHANGED target
        BY <1>2, <2>3 DEF Fetch, Return
      <3> QED BY <2>1, <2>3, <3>1 DEF Unseen, Phase
    <2> QED BY <2>2, <2>3
  <1>3. CASE RenameTmp
    <2>1. /\ pc = "rename" /\ UNCHANGED <<src, result>> /\ tmp \in File /\ ~Load
          /\ DownloadInv => tmp = BytesOf(src)
      BY <1>1, <1>3 DEF RenameTmp, Load, TypeInv, HasTmp, Writing, DownloadInv, FinishInv
    <2>2. \/ target' = tmp /\ pc' = "remove_index"
          \/ Fail("RENAME_TMP_FILE_FAILED") /\ UNCHANGED target
      BY <1>3 DEF RenameTmp
    <2>3. CASE target' = tmp /\ pc' = "remove_index"
      BY <2>1, <2>3 DEF Placing, Phase
    <2>4. CASE Fail("RENAME_TMP_FILE_FAILED") /\ UNCHANGED target
      BY <2>1, <2>4 DEF Unseen, Phase, Fail, Return
    <2> QED BY <2>2, <2>3, <2>4
  <1>4. CASE RemoveIndex
    BY <1>4 DEF RemoveIndex, Return, Unseen, Phase
  <1>5. CASE CheckCompleted \/ VerifyHash
    <2>1. /\ pc \in {"check", "hash"} /\ UNCHANGED <<target, src, result>>
          /\ pc' \in {"end", "hash", "rename"}
      BY <1>5 DEF CheckCompleted, VerifyHash, Fail, Return, disk
    <2>2. ~(pc' = "end" /\ ret' = "SUCCESSED")
      BY <1>5 DEF CheckCompleted, VerifyHash, Fail, Return
    <2> QED BY <2>1, <2>2 DEF Unseen, Phase
  <1>6. CASE Load \/ StartFirst
    <2>1. /\ pc \in {"load", "start"} /\ UNCHANGED <<target, src, result>>
          /\ pc' \in {"end", "start", "stopping", "perform0"}
          /\ pc' = "end" => ret' # "SUCCESSED"
      BY <1>6 DEF Load, AfterLoad, CreateFails, StartFirst, Finish, Return, disk
    <2> QED BY <2>1 DEF Unseen, Phase
  <1>7. CASE \/ Launch \/ PerformReturn \/ LoopTop \/ FlushSlice \/ OpenIndex \/ WriteIndex
             \/ UpdateSliceStatus \/ ScheduleNone \/ ScheduleNext \/ StopSlice
    <2> DEFINE Inside == /\ pc \notin {"idle", "remove_index", "end"}
                         /\ UNCHANGED <<target, src, result>>
                         /\ pc' \notin {"idle", "remove_index", "end"}
    <2>1. Inside
      <3>1. CASE Launch \/ PerformReturn \/ LoopTop
        BY <3>1 DEF Launch, PerformReturn, LoopTop, LoopEnd, Finish, disk, memory
      <3>2. CASE FlushSlice \/ OpenIndex \/ WriteIndex
        BY <3>2 DEF FlushSlice, OpenIndex, WriteIndex, memory
      <3>3. CASE UpdateSliceStatus \/ StopSlice
        BY <3>3 DEF UpdateSliceStatus, StopSlice
      <3>4. CASE ScheduleNone \/ ScheduleNext
        BY <3>4 DEF ScheduleNone, ScheduleNext, LoopEnd, Finish, disk
      <3> QED BY <1>7, <3>1, <3>2, <3>3, <3>4
    <2> QED BY <2>1 DEF Unseen, Phase
  <1> QED BY <1>2, <1>3, <1>4, <1>5, <1>6, <1>7 DEF Worker

\* What happens to it.
LEMMA OuterSteps ==
  ASSUME Network \/ Stop \/ SetUserEvent \/ PauseResume \/ Rest \/ UNCHANGED vars
  PROVE  Unseen
  <1>1. UNCHANGED <<pc, ret, target, src, result>>
    <2>1. CASE Network
      BY <2>1 DEF Network, Deliver, TransferEnd, disk
    <2>2. CASE Stop \/ SetUserEvent \/ PauseResume
      BY <2>2 DEF Stop, SetUserEvent, PauseResume, memory, disk
    <2>3. CASE Rest \/ UNCHANGED vars
      BY <2>3 DEF Rest, vars, memory, disk
    <2> QED BY <2>1, <2>2, <2>3
  <1>2. Phase' = Phase
    BY <1>1 DEF Phase
  <1> QED BY <1>1, <1>2 DEF Unseen

\* What can happen, seen from the target path.
LEMMA Visible ==
  ASSUME TypeInv, [Next]_vars
  PROVE  Start \/ Crash \/ Cleanup \/ Placing \/ Unseen
  BY InnerSteps, OuterSteps DEF Next, User

\* The target is the resource after every step.
LEMMA NextTarget ==
  ASSUME Environment, KnownSizes, DownloadInv, [Next]_vars
  PROVE  TargetInv'
  <1>1. TargetInv /\ src \in Contents /\ src' = src
    <2>1. src \in Contents /\ src' \in Contents
      BY NextType DEF DownloadInv, TypeInv, TypeOK
    <2> QED BY <2>1 DEF Environment, DownloadInv
  <1>2. CASE Start
    BY <1>1, <1>2 DEF Start, TargetInv, Phase, disk
  <1>3. CASE Crash
    BY <1>1, <1>3 DEF Crash, TargetInv, Phase, disk
  <1>4. CASE Cleanup
    <2>1. /\ pc = "end" /\ pc' = "idle" /\ result' = ret /\ UNCHANGED target
      BY <1>4 DEF Cleanup, disk
    <2> QED BY <1>1, <2>1 DEF TargetInv, Phase
  <1>5. CASE Placing
    <2>1. target' # NoFile
      BY <1>1, <1>5, BytesAreFile DEF Placing
    <2> QED BY <1>1, <1>5, <2>1 DEF Placing, TargetInv
  <1>6. CASE Unseen
    BY <1>1, <1>6 DEF Unseen, TargetInv
  <1> QED BY <1>2, <1>3, <1>4, <1>5, <1>6, Visible DEF DownloadInv

\* The invariant holds in the beginning,
LEMMA InitDownload == Init => DownloadInv
  <1> SUFFICES ASSUME Init PROVE DownloadInv
    OBVIOUS
  <1>1. TypeInv /\ FileInv /\ PartsInv /\ FinishInv
    BY InitType, InitFiles, InitParts, InitFinish
  <1>2. TargetInv
    BY DEF Init, TargetInv, Phase
  <1> QED BY <1>1, <1>2 DEF DownloadInv

\* and every step keeps it, but the one that trusts an index in vain.
LEMMA NextDownload ==
  ASSUME Environment, KnownSizes, DownloadInv, [Next]_vars, orphan' # "used"
  PROVE  DownloadInv'
  <1>1. TypeInv' /\ FileInv' /\ PartsInv' /\ FinishInv'
    BY NextType, NextFiles, NextParts, NextFinish DEF DownloadInv
  <1>2. TargetInv'
    BY NextTarget
  <1> QED BY <1>1, <1>2 DEF DownloadInv

-----------------------------------------------------------------------------
(* The theorems. *)

(* What a slice counts as downloaded is in the file, and what it caches is   *)
(* what follows, for any number of slices of any size, at every moment of    *)
(* onNewData, flushToDisk and stop, up to a session that goes on from an     *)
(* index without its file.                                                   *)
THEOREM SlicesAreTrue == Environment => (Spec => []SlicesTruthful)
  <1> SUFFICES ASSUME Environment PROVE Spec => []SlicesTruthful
    OBVIOUS
  <1> DEFINE Inv == TypeInv /\ (orphan # "used" => FileInv)
  <1>1. Init => Inv
    BY InitType, InitFiles
  <1>2. Inv /\ [Next]_vars => Inv'
    BY NextType, NextFiles, OrphanSteps
  <1>3. Inv => SlicesTruthful
    BY TruthOfSlices DEF SlicesTruthful
  <1> HIDE DEF Inv
  <1> QED BY <1>1, <1>2, <1>3, PTL DEF Spec

(* An index that a later session goes on from claims no byte that is not in  *)
(* the temporary file, wherever the process dies and whatever fails, the     *)
(* removal of the index included; only an index that was left behind when    *)
(* its file was renamed or emptied is not spoken of.                         *)
THEOREM IndexIsTrue == Environment => (Spec => []IndexTruthful)
  <1> SUFFICES ASSUME Environment PROVE Spec => []IndexTruthful
    OBVIOUS
  <1> DEFINE Inv == TypeInv /\ (orphan # "used" => FileInv)
  <1>1. Init => Inv
    BY InitType, InitFiles
  <1>2. Inv /\ [Next]_vars => Inv'
    BY NextType, NextFiles, OrphanSteps
  <1>3. Inv => IndexTruthful
    BY TruthOfIndex DEF IndexTruthful
  <1> HIDE DEF Inv
  <1> QED BY <1>1, <1>2, <1>3, PTL DEF Spec

\* The invariant as far as it goes.
TransferInv == TypeInv /\ RetInv /\ (orphan # "used" => DownloadInv)

\* It is inductive.
LEMMA TransferInvariant ==
  ASSUME Environment, KnownSizes
  PROVE  /\ Init => TransferInv
         /\ TransferInv /\ [Next]_vars => TransferInv'
  <1>1. Init => TransferInv
    BY InitType, InitDownload DEF TransferInv, RetInv, AfterLoop, Init
  <1>2. TransferInv /\ [Next]_vars => TransferInv'
    BY NextType, NextRet, NextDownload, OrphanSteps DEF TransferInv
  <1> QED BY <1>1, <1>2

(* A session reports SUCCESSED only when the file at the target path is the  *)
(* resource, byte by byte, however often it was stopped, failed or died      *)
(* before, unless it, or one before it, went on from an index that had       *)
(* outlived its file.                                                        *)
THEOREM SuccessExact ==
  Environment /\ KnownSizes => (Spec => [](orphan # "used" => SuccessIsExact))
  <1> SUFFICES ASSUME Environment, KnownSizes
               PROVE  Spec => [](orphan # "used" => SuccessIsExact)
    OBVIOUS
  <1>1. (Init => TransferInv) /\ (TransferInv /\ [Next]_vars => TransferInv')
    BY TransferInvariant
  <1>2. TransferInv => (orphan # "used" => SuccessIsExact)
    BY DEF TransferInv, DownloadInv, TargetInv, SuccessIsExact
  <1> QED BY <1>1, <1>2, PTL DEF Spec

\* Each step is one of FileTransfer, or is not seen there.
LEMMA StepOfTransfer ==
  ASSUME TransferInv, TransferInv', [Next]_vars
  PROVE  [Transfer!Next]_(Transfer!vars)
  <1>1. /\ src \in Contents /\ src' \in Contents /\ ret \in ResultCode
        /\ TypeInv /\ RetInv
    BY DEF TransferInv, TypeInv, TypeOK
  <1>2. ~Load => (orphan = "used")' = (orphan = "used")
    BY OrphanSteps
  <1>3. CASE Start
    <2>1. pc = "idle" /\ pc' = "launched" /\ ~Load
      BY <1>3 DEF Start, Load
    <2>2. Transfer!Start
      BY <1>1, <1>2, <1>3, <2>1 DEF Start, Transfer!Start, Phase, disk
    <2> QED BY <2>2 DEF Transfer!Next
  <1>4. CASE Crash
    <2>1. Phase # "idle" /\ Phase' = "idle" /\ UNCHANGED <<target, src, result, orphan>>
      BY <1>4, EntryHandlerAssumption DEF Crash, Phase, disk
    <2>2. Transfer!Crash
      BY <2>1 DEF Transfer!Crash
    <2> QED BY <2>2 DEF Transfer!Next
  <1>5. CASE Cleanup
    <2>1. /\ pc = "end" /\ pc' = "idle" /\ result' = ret /\ UNCHANGED <<target, src, orphan>>
          /\ ret # "none"
      BY <1>1, <1>5 DEF Cleanup, disk, history, RetInv, AfterLoop
    <2>2. /\ Phase' = "idle"
          /\ \/ Phase = "placed" /\ ret = "SUCCESSED"
             \/ Phase = "busy" /\ ret \in ResultCode \ {"none", "SUCCESSED"}
      BY <1>1, <2>1 DEF Phase
    <2> QED BY <2>1, <2>2 DEF Transfer!Next, Transfer!Report
  <1>6. CASE Placing
    <2>1. target' = BytesOf(src) \/ (orphan = "used" /\ target' \in File)
      BY <1>6 DEF TransferInv, Placing
    <2>2. Transfer!Place
      BY <1>1, <1>2, <1>6, <2>1 DEF Placing, Transfer!Place
    <2> QED BY <2>2 DEF Transfer!Next
  <1>7. CASE Unseen /\ ~Load
    BY <1>2, <1>7 DEF Unseen, Transfer!vars
  <1>8. CASE Unseen /\ Load
    <2>1. Phase = "busy"
      BY <1>8 DEF Load, Phase
    <2>2. CASE orphan' = "used" /\ orphan # "used"
      <3>1. Transfer!Mislead
        BY <1>8, <2>1, <2>2 DEF Unseen, Transfer!Mislead
      <3> QED BY <3>1 DEF Transfer!Next
    <2>3. CASE (orphan = "used")' = (orphan = "used")
      BY <1>8, <2>3 DEF Unseen, Transfer!vars
    <2> QED BY <2>2, <2>3, OrphanSteps
  <1> QED BY <1>1, <1>3, <1>4, <1>5, <1>6, <1>7, <1>8, Visible

(* EntryHandler implements FileTransfer: the resource appears at the target  *)
(* path in one step, before the result that says so, or not at all; and      *)
(* FileTransfer says when it may be another file.                            *)
THEOREM TransferImplemented ==
  Environment /\ KnownSizes => (Spec => ImplementsTransfer)
  <1> SUFFICES ASSUME Environment, KnownSizes PROVE Spec => ImplementsTransfer
    OBVIOUS
  <1>1. (Init => TransferInv) /\ (TransferInv /\ [Next]_vars => TransferInv')
    BY TransferInvariant
  <1>2. Init => Transfer!Init
    <2>1. Init => TypeInv
      BY InitType
    <2> QED BY <2>1 DEF Init, Transfer!Init, Phase, TypeInv, TypeOK
  <1>3. TransferInv /\ TransferInv' /\ [Next]_vars => [Transfer!Next]_(Transfer!vars)
    BY StepOfTransfer
  <1> QED BY <1>1, <1>2, <1>3, PTL DEF Spec, ImplementsTransfer, Transfer!Spec

-----------------------------------------------------------------------------
(* Nobody is misled. *)

(* Circumstances in which no index outlives its file: the process does not   *)
(* die between the renaming of the temporary file and the removal of the     *)
(* index, the index can be removed, and on Windows, where a file that cannot *)
(* be sized is made anew, no file fails to be created.                       *)
Orderly ==
  /\ Environment /\ KnownSizes
  /\ "remove_index" \notin CrashPoints /\ "remove" \notin Faults
  /\ Platform = "windows" => "create" \notin Faults

\* The index is without its file between those two steps only.
OrphanInv == orphan = "no" \/ (orphan = "left" /\ pc = "remove_index")

\* Where nothing is shortened, creating an empty file loses nothing.
LEMMA CreateExtendsByNone ==
  ASSUME NEW old, old = NoFile \/ old \in File, Platform # "windows"
  PROVE  Extends(old, CreateFixedSizeFile(old, 0))
  <1> SUFFICES ASSUME old # NoFile, old \in File
               PROVE  Extends(old, CreateFixedSizeFile(old, 0))
    BY DEF Extends
  <1> DEFINE g == CreateFixedSizeFile(old, 0)
  <1>1. Len(old) \in Nat /\ DOMAIN old = 1..Len(old) /\ Larger(0, Len(old)) = Len(old)
    BY DEF File, Larger
  <1>2. g = [k \in 1..Len(old) |-> IF k <= Len(old) THEN old[k] ELSE Hole]
    BY <1>1 DEF CreateFixedSizeFile
  <1> HIDE DEF g
  <1>3. DOMAIN g = 1..Len(old) /\ \A k \in 1..Len(old) : g[k] = old[k]
    BY <1>1, <1>2
  <1>4. Extends(old, g)
    BY <1>1, <1>3 DEF Extends
  <1> QED BY <1>4 DEF g

\* With one version and its size known, creating the file loses nothing.
LEMMA CreateExtends ==
  ASSUME Orderly, TypeInv, FileInv, pc = "load",
         \/ tmp' \in Created(Larger(origin, 0))
         \/ "create" \in Faults /\ tmp' \in {tmp, CreateFixedSizeFile(tmp, 0)}
  PROVE  Extends(tmp, tmp')
  <1> DEFINE n == Larger(origin, 0)
  <1>1. /\ src \in Contents /\ SizeOf[src] \in Nat /\ origin = SizeOf[src]
        /\ tmp = NoFile \/ Clean(tmp, src)
    BY ReportedType DEF TypeInv, TypeOK, FileInv, SizeInv, TmpInv, Orderly, KnownSizes
  <1>2. n = SizeOf[src]
    BY <1>1 DEF Larger
  <1> HIDE DEF n
  <1>3. CASE tmp' = CreateFixedSizeFile(tmp, n)
    BY <1>1, <1>2, <1>3, CreateKeeps
  <1>4. CASE tmp' = tmp
    BY <1>4 DEF Extends
  <1>5. CASE tmp' = CreateFixedSizeFile(tmp, 0) /\ Platform # "windows"
    BY <1>1, <1>5, CreateExtendsByNone DEF Clean
  <1> QED BY <1>3, <1>4, <1>5 DEF Created, Orderly, n

\* No step leads out of this.
LEMMA NextOrphan ==
  ASSUME Orderly, TypeInv, FileInv, OrphanInv, [Next]_vars
  PROVE  OrphanInv'
  <1>1. CASE Load
    <2>1. pc = "load" /\ orphan = "no"
      BY <1>1 DEF Load, OrphanInv
    <2>2. CASE GoOn
      BY <2>1, <2>2 DEF GoOn, OrphanInv
    <2>3. CASE ~GoOn
      <3>1. Extends(tmp, tmp') /\ Outlive(~Extends(tmp, tmp'))
        BY <1>1, <2>1, <2>3, CreateExtends DEF Load, CreateFails
      <3> QED BY <2>1, <3>1 DEF Outlive, OrphanInv
    <2> QED BY <2>2, <2>3
  <1>2. CASE RenameTmp
    BY <1>2 DEF RenameTmp, Outlive, Fail, Return, OrphanInv
  <1>3. CASE OpenIndex \/ RemoveIndex
    BY <1>3 DEF OpenIndex, RemoveIndex, Renewed, Return, OrphanInv, Orderly
  <1>4. CASE \/ Launch \/ Fetch \/ StartFirst \/ PerformReturn \/ LoopTop \/ FlushSlice
             \/ WriteIndex \/ UpdateSliceStatus \/ ScheduleNone \/ ScheduleNext
             \/ StopSlice \/ CheckCompleted \/ VerifyHash \/ Cleanup
    <2>1. pc # "remove_index" /\ UNCHANGED orphan
      BY <1>4 DEF Launch, Fetch, StartFirst, PerformReturn, LoopTop, FlushSlice, WriteIndex,
         UpdateSliceStatus, ScheduleNone, ScheduleNext, StopSlice, CheckCompleted, VerifyHash,
         Cleanup, history
    <2> QED BY <2>1 DEF OrphanInv
  <1>5. CASE Crash \/ Start
    <2>1. pc # "remove_index" /\ UNCHANGED orphan
      BY <1>5 DEF Crash, Start, Orderly
    <2> QED BY <2>1 DEF OrphanInv
  <1>6. CASE Network \/ Stop \/ SetUserEvent \/ PauseResume \/ Rest \/ UNCHANGED vars
    <2>1. UNCHANGED <<pc, orphan>>
      BY <1>6 DEF Network, Deliver, TransferEnd, Stop, SetUserEvent, PauseResume, Rest, vars,
         history
    <2> QED BY <2>1 DEF OrphanInv
  <1> QED BY <1>1, <1>2, <1>3, <1>4, <1>5, <1>6 DEF Next, Worker, User

\* The files of an orderly transfer.
OrderlyInv == TypeInv /\ FileInv /\ OrphanInv

\* Their invariant is inductive.
LEMMA OrderlyInvariant ==
  ASSUME Orderly
  PROVE  /\ Init => OrderlyInv
         /\ OrderlyInv /\ [Next]_vars => OrderlyInv' /\ orphan' # "used"
  <1>1. Init => OrderlyInv
    BY InitType, InitFiles DEF OrderlyInv, OrphanInv, Init
  <1>2. OrphanInv' => orphan' # "used"
    BY DEF OrphanInv
  <1>3. OrderlyInv /\ [Next]_vars => OrderlyInv' /\ orphan' # "used"
    BY <1>2, NextType, NextFiles, NextOrphan DEF OrderlyInv, Orderly
  <1> QED BY <1>1, <1>3

(* In these circumstances no session goes on from an index without its file, *)
(* and a download that reports SUCCESSED is exact.                           *)
THEOREM SuccessExactOrderly ==
  Orderly => (Spec => []SuccessIsExact /\ [](orphan # "used"))
  <1> SUFFICES ASSUME Orderly PROVE Spec => []SuccessIsExact /\ [](orphan # "used")
    OBVIOUS
  <1>1. Environment /\ KnownSizes
    BY DEF Orderly
  <1>2. Spec => [](orphan # "used" => SuccessIsExact)
    BY <1>1, SuccessExact
  <1>3. (Init => OrderlyInv) /\ (OrderlyInv /\ [Next]_vars => OrderlyInv')
    BY OrderlyInvariant
  <1>4. OrderlyInv => orphan # "used"
    BY DEF OrderlyInv, OrphanInv
  <1> QED BY <1>2, <1>3, <1>4, PTL DEF Spec

-----------------------------------------------------------------------------
(* The size of a temporary file that is new. *)

\* The platforms, or circumstances, in which CreateFixedSizeFile leaves no file
\* that is longer than it was asked for.
Fitting ==
  \/ Platform = "windows"
  \/ Platform = "macos" /\ KnownSizes
  \/ Orderly

\* At the start of the transfer the file has its size.
CreatedInv ==
  /\ pc = "load" => origin = ReportedSize[src] /\ origin # 0
  /\ CreatedAtItsSize

\* Every way in which a temporary file is created gives it its size.
LEMMA CreatedExactly ==
  ASSUME Fitting, TypeInv, origin = ReportedSize[src], origin # 0,
         Orderly => FileInv
  PROVE  LET n == Larger(origin, 0) IN
         \A g \in Created(n) : Len(g) = n
  <1> DEFINE n == Larger(origin, 0)
  <1>1. /\ src \in Contents /\ SizeOf[src] \in Nat /\ origin \in Nat \cup {-1}
        /\ (origin # -1 => origin = SizeOf[src])
        /\ tmp \in File \cup {NoFile}
    BY ReportedType DEF TypeInv, TypeOK
  <1>2. n \in Nat /\ (KnownSizes => n = origin /\ n > 0)
    BY <1>1 DEF Larger, KnownSizes
  <1> HIDE DEF n
  <1>3. ASSUME NEW old \in {tmp, NoFile} PROVE Len(CreateFixedSizeFile(old, n)) = n
    <2>1. CASE Platform = "windows" \/ old = NoFile
      BY <1>1, <1>2, <2>1, CreatedLength
    <2>2. CASE Platform # "windows" /\ old # NoFile
      <3> DEFINE size == IF Platform = "macos" THEN n ELSE Larger(n, Len(tmp))
                 g == CreateFixedSizeFile(tmp, n)
      <3>1. KnownSizes /\ n > 0 /\ n = origin /\ (Platform = "macos" \/ Orderly)
        BY <1>2, <2>2 DEF Fitting, Orderly
      <3>2. size = n
        <4>1. CASE Platform = "macos"
          BY <4>1
        <4>2. CASE Platform # "macos"
          <5>1. Clean(tmp, src)
            BY <2>2, <3>1, <4>2 DEF FileInv, TmpInv
          <5>2. Len(tmp) \in Nat /\ Len(tmp) <= n
            BY <1>1, <1>2, <3>1, <5>1 DEF Clean, File, KnownSizes
          <5> QED BY <1>2, <4>2, <5>2 DEF Larger
        <4> QED BY <4>1, <4>2
      <3>3. g = [k \in 1..size |-> IF k <= Len(tmp) THEN tmp[k] ELSE Hole]
        BY <2>2, <3>1 DEF CreateFixedSizeFile
      <3>4. g \in File
        BY <1>1, <1>2, CreateType
      <3> HIDE DEF g, size
      <3>5. DOMAIN g = 1..n
        BY <3>2, <3>3
      <3> QED BY <1>2, <2>2, <3>4, <3>5 DEF File, g
    <2> QED BY <2>1, <2>2
  <1>4. \A g \in Created(n) : \E old \in {tmp, NoFile} : g = CreateFixedSizeFile(old, n)
    BY DEF Created
  <1> QED BY <1>3, <1>4 DEF n

\* Load creates it.
LEMMA LoadCreated ==
  ASSUME Fitting, TypeInv, CreatedInv, Orderly => FileInv, Load
  PROVE  CreatedInv'
  <1>1. pc = "load" /\ UNCHANGED <<src, origin>> /\ pc' # "load"
    BY DEF Load, AfterLoad, CreateFails, Finish, Return
  <1>2. origin = ReportedSize[src] /\ origin # 0 /\ origin \in Nat \cup {-1}
    BY <1>1 DEF CreatedInv, TypeInv, TypeOK
  <1>3. CASE CreateFails
    BY <1>1, <1>3 DEF CreateFails, Return, CreatedInv, CreatedAtItsSize
  <1>4. CASE tmp' \in Created(Larger(origin, 0))
    BY <1>1, <1>2, <1>4, CreatedExactly DEF CreatedInv, CreatedAtItsSize
  <1>5. CASE Usable(index, tmp, origin, src) /\ UNCHANGED tmp
    <2>1. Len(tmp) = origin /\ tmp \in Seq(Byte)
      BY <1>5 DEF Usable, TypeInv, TypeOK, File
    <2>2. origin \in Nat
      BY <2>1
    <2> QED BY <1>1, <1>5, <2>1, <2>2 DEF Larger, CreatedInv, CreatedAtItsSize
  <1> QED BY <1>3, <1>4, <1>5 DEF Load

\* No other step comes there.
LEMMA NextCreated ==
  ASSUME Fitting, TypeInv, CreatedInv, Orderly => FileInv, [Next]_vars
  PROVE  CreatedInv'
  <1>1. CASE Load
    BY <1>1, LoadCreated
  <1>2. CASE StartFirst
    BY <1>2 DEF StartFirst, Return, disk, CreatedInv, CreatedAtItsSize
  <1>3. CASE Fetch
    BY <1>3 DEF Fetch, Return, CreatedInv, CreatedAtItsSize
  <1>4. CASE Start \/ Stop \/ SetUserEvent \/ PauseResume \/ Crash \/ Rest \/ UNCHANGED vars
    BY <1>4, EntryHandlerAssumption DEF Start, Stop, SetUserEvent, PauseResume, Crash, Rest,
       vars, memory, disk, CreatedInv, CreatedAtItsSize
  <1>5. CASE Network
    BY <1>5 DEF Network, Deliver, TransferEnd, CreatedInv, CreatedAtItsSize
  <1>6. CASE \/ Launch \/ PerformReturn \/ LoopTop \/ FlushSlice \/ OpenIndex \/ WriteIndex
             \/ CheckCompleted \/ VerifyHash \/ RenameTmp \/ RemoveIndex \/ Cleanup
    <2>1. pc' \notin {"load", "start"}
      BY <1>6 DEF Launch, PerformReturn, LoopTop, FlushSlice, OpenIndex, WriteIndex,
         CheckCompleted, VerifyHash, RenameTmp, RemoveIndex, Cleanup, LoopEnd, Finish,
         Fail, Return
    <2> QED BY <2>1 DEF CreatedInv, CreatedAtItsSize
  <1>7. CASE UpdateSliceStatus \/ ScheduleNone \/ ScheduleNext \/ StopSlice
    <2>1. pc' \notin {"load", "start"}
      BY <1>7 DEF UpdateSliceStatus, ScheduleNone, ScheduleNext, StopSlice, LoopEnd, Finish
    <2> QED BY <2>1 DEF CreatedInv, CreatedAtItsSize
  <1> QED BY <1>1, <1>2, <1>3, <1>4, <1>5, <1>6, <1>7 DEF Next, Worker, User

(* A temporary file has the size it was created with, whatever was left of   *)
(* an earlier one: on Windows always, on macOS when sizes are stated, and on *)
(* Linux, where nothing is shortened, in the circumstances above.            *)
THEOREM CreatedExact == Fitting => (Spec => []CreatedAtItsSize)
  <1> SUFFICES ASSUME Fitting PROVE Spec => []CreatedAtItsSize
    OBVIOUS
  <1>1. Init => TypeInv /\ CreatedInv /\ (Orderly => OrderlyInv)
    BY InitType, OrderlyInvariant DEF Init, CreatedInv, CreatedAtItsSize
  <1>2. TypeInv /\ CreatedInv /\ (Orderly => OrderlyInv) /\ [Next]_vars
          => TypeInv' /\ CreatedInv' /\ (Orderly => OrderlyInv)'
    BY NextType, NextCreated, OrderlyInvariant DEF Orderly, Environment, OrderlyInv
  <1>3. CreatedInv => CreatedAtItsSize
    BY DEF CreatedInv
  <1> QED BY <1>1, <1>2, <1>3, PTL DEF Spec
-----------------------------------------------------------------------------
(* Nothing is asked for twice. *)

\* Byte k is one of the n that follow the first begin.
Lies(k, begin, n) == begin < k /\ k <= begin + n

\* The bytes of content c that file f holds.
Present(f, c) == {k \in 1..Len(f) : f[k] = <<c, k>>}

\* Each of them is one that a slice of q has on disk.
SlicesKnow(q, f, c) ==
  \A k \in Present(f, c) : \E i \in DOMAIN q : Lies(k, q[i].begin, q[i].disk)

\* Each of them is one that index x claims.
IndexKnows(x, f, c) ==
  \A k \in Present(f, c) :
    /\ x \notin {NoFile, TornIndex}
    /\ \E i \in DOMAIN x.slices : Lies(k, x.slices[i].begin, x.slices[i].capacity)

\* A write behind which there is no gap adds what it writes and no more.
LEMMA WriteAdds ==
  ASSUME NEW c \in Contents, NEW f \in File, NEW pos \in Nat, pos <= Len(f),
         NEW data \in Seq(Byte)
  PROVE  /\ Len(Write(f, pos, data)) >= Len(f)
         /\ \A k \in Present(Write(f, pos, data), c) :
              k \in Present(f, c) \/ Lies(k, pos, Len(data))
  <1> DEFINE end == pos + Len(data)
             size == Larger(Len(f), end)
             byte(k) == IF k > pos /\ k <= end THEN data[k - pos]
                        ELSE IF k <= Len(f) THEN f[k] ELSE Hole
             g == Write(f, pos, data)
  <1>1. f \in Seq(Byte) /\ Len(f) \in Nat /\ Len(data) \in Nat /\ end \in Nat /\ size \in Nat
        /\ size >= Len(f)
    BY DEF File, Larger
  <1>2. g \in File
    BY WriteType
  <1>3. CASE data = <<>>
    <2>1. g = f
      BY <1>3 DEF Write
    <2> HIDE DEF g
    <2> QED BY <1>1, <2>1 DEF g
  <1>4. CASE data # <<>>
    <2>1. g = [k \in 1..size |-> byte(k)]
      BY <1>4 DEF Write
    <2>2. Len(g) = size /\ \A k \in 1..size : g[k] = byte(k)
      <3> HIDE DEF byte, size, g
      <3>1. DOMAIN g = 1..size
        BY <2>1
      <3> QED BY <1>1, <1>2, <2>1, <3>1 DEF File
    <2>3. ASSUME NEW k \in Present(g, c), ~Lies(k, pos, Len(data))
          PROVE  k \in Present(f, c)
      <3>1. k \in 1..size /\ g[k] = <<c, k>>
        BY <2>2, <2>3 DEF Present
      <3>2. ~(k > pos /\ k <= end) /\ k \in 1..Len(f)
        BY <1>1, <2>3, <3>1 DEF Lies, Larger
      <3>3. g[k] = f[k]
        <4> HIDE DEF g, size, end
        <4> QED BY <1>1, <2>2, <3>1, <3>2
      <3> QED BY <3>1, <3>2, <3>3 DEF Present
    <2> HIDE DEF g
    <2>4. Len(g) >= Len(f)
      BY <1>1, <2>2
    <2> QED BY <2>3, <2>4 DEF g
  <1> QED BY <1>3, <1>4

\* Creating a file adds nothing.
LEMMA CreateAdds ==
  ASSUME NEW c \in Contents, NEW old \in File \cup {NoFile}, NEW n \in Nat,
         old # NoFile => Len(old) = n
  PROVE  /\ Len(CreateFixedSizeFile(old, n)) = n
         /\ \A k \in Present(CreateFixedSizeFile(old, n), c) :
              old # NoFile /\ k \in Present(old, c)
  <1> DEFINE kept == IF old = NoFile THEN <<>> ELSE old
             cuts == Platform = "windows" \/ (Platform = "macos" /\ n > 0)
             size == IF cuts THEN n ELSE Larger(n, Len(kept))
             g == CreateFixedSizeFile(old, n)
  <1>1. kept \in Seq(Byte) /\ Len(kept) \in Nat /\ Len(kept) <= n
        /\ (old = NoFile => Len(kept) = 0)
    BY DEF File
  <1>2. size = n
    BY <1>1 DEF Larger
  <1>3. g = [k \in 1..n |-> IF k <= Len(kept) THEN kept[k] ELSE Hole]
    BY <1>2 DEF CreateFixedSizeFile
  <1>4. g \in File
    BY CreateType
  <1> HIDE DEF g
  <1>5. DOMAIN g = 1..n
    BY <1>3
  <1>6. Len(g) = n
    BY <1>4, <1>5 DEF File
  <1>7. ASSUME NEW k \in Present(g, c) PROVE old # NoFile /\ k \in Present(old, c)
    <2>1. k \in 1..n /\ g[k] = <<c, k>>
      BY <1>6, <1>7 DEF Present
    <2>2. <<c, k>> # Hole
      BY <2>1, FileAssumption
    <2>3. k <= Len(kept) /\ kept[k] = <<c, k>>
      <3> HIDE DEF kept
      <3> QED BY <1>3, <2>1, <2>2
    <2>4. old # NoFile /\ kept = old
      BY <1>1, <2>1, <2>3
    <2> HIDE DEF kept
    <2> QED BY <1>1, <2>1, <2>3, <2>4 DEF Present
  <1> QED BY <1>6, <1>7 DEF g

\* With what is written to it, a slice goes on knowing.
LEMMA WriteKnows ==
  ASSUME NEW c \in Contents, NEW f \in File, SlicesKnow(slices, f, c),
         NEW i \in DOMAIN slices, slices[i].begin \in Nat, slices[i].disk \in Nat,
         slices[i].begin + slices[i].disk <= Len(f),
         NEW data \in Seq(Byte), NEW v, slices' = [slices EXCEPT ![i] = v],
         v.begin = slices[i].begin, v.disk = slices[i].disk + Len(data)
  PROVE  SlicesKnow(slices', Write(f, slices[i].begin + slices[i].disk, data), c)
  <1> DEFINE pos == slices[i].begin + slices[i].disk
             g == Write(f, pos, data)
  <1>1. /\ DOMAIN slices' = DOMAIN slices
        /\ \A j \in DOMAIN slices : j # i => slices'[j] = slices[j]
        /\ slices'[i] = v
    BY OneReplaced
  <1>2. \A k \in Present(g, c) : k \in Present(f, c) \/ Lies(k, pos, Len(data))
    BY WriteAdds
  <1>3. Len(data) \in Nat
    OBVIOUS
  <1> SUFFICES ASSUME NEW k \in Present(g, c)
               PROVE  \E j \in DOMAIN slices : Lies(k, slices'[j].begin, slices'[j].disk)
    BY <1>1 DEF SlicesKnow
  <1> HIDE DEF g
  <1>4. k \in Nat
    BY DEF Present
  <1>5. CASE k \in Present(f, c)
    <2>1. PICK j \in DOMAIN slices : Lies(k, slices[j].begin, slices[j].disk)
      BY <1>5 DEF SlicesKnow
    <2>2. CASE j = i
      BY <1>1, <1>3, <1>4, <2>1, <2>2 DEF Lies
    <2>3. CASE j # i
      BY <1>1, <2>1, <2>3
    <2> QED BY <2>2, <2>3
  <1>6. CASE Lies(k, pos, Len(data))
    <2>1. Lies(k, v.begin, v.disk)
      BY <1>3, <1>4, <1>6 DEF Lies
    <2> QED BY <1>1, <2>1
  <1> QED BY <1>2, <1>5, <1>6

\* The circumstances: the size is known, what fails leaves slices, temporary
\* file and index alone, and the user keeps what is downloaded.  With any other
\* fault, with a crash, with a policy that discards or with files that expire
\* TLC finds a byte that is asked for again.
Smooth ==
  /\ Environment /\ KnownSizes
  /\ Faults \subseteq {"fetch", "malloc", "fdset", "rename"}
  /\ CrashPoints = {}
  /\ SavePolicy = "SaveExceptFailed" /\ ~MayExpire

\* A slice that has not failed and will not: its transfer runs up to its end,
\* and is not over before.
Sound(s) ==
  /\ s.status # "DOWNLOAD_FAILED" /\ s.curl # "err"
  /\ s.curl = "live" => s.reply.lim = s.end + 1
  /\ s.curl = "ok" => IsDataCompletedClearly(s)

\* What is asked for: the rest of the slice.
LEMMA RestIsAsked ==
  ASSUME NEW c \in Contents, NEW f, NEW s \in SliceRecord, SliceOK(s, f, c),
         s.end \in s.begin .. SizeOf[c] - 1, ReplyKinds \subseteq {"range"},
         NEW r \in Replies(s, c)
  PROVE  r.pos = s.begin + s.disk /\ r.lim = s.end + 1
  <1> DEFINE first == s.begin + s.disk
             last == IF s.end # -1 /\ s.end < SizeOf[c] THEN s.end + 1 ELSE SizeOf[c]
  <1>1. r = [from |-> c, pos |-> first, lim |-> Larger(first, last)]
    BY DEF Replies
  <1>2. /\ SizeOf[c] \in Nat /\ s.begin \in Nat /\ s.disk \in Nat /\ s.end \in Int
        /\ Len(s.cache) \in Nat
    BY ContentsAssumption DEF SliceRecord
  <1>3. last = s.end + 1 /\ first <= last
    BY <1>2 DEF SliceOK, Within
  <1>4. Larger(first, last) = last
    BY <1>2, <1>3 DEF Larger
  <1> QED BY <1>1, <1>3, <1>4

\* A slice stays sound through every operation on it: when it is started,
LEMMA StartedSound ==
  ASSUME NEW c \in Contents, NEW f, NEW s \in SliceRecord, SliceOK(s, f, c),
         s.end \in s.begin .. SizeOf[c] - 1, ReplyKinds \subseteq {"range"},
         NEW r \in Replies(s, c), NEW buffer, NEW max_speed
  PROVE  /\ Sound(Started(s, buffer, max_speed, r))
         /\ Started(s, buffer, max_speed, r).reply = r
         /\ Started(s, buffer, max_speed, r).begin = s.begin
         /\ Started(s, buffer, max_speed, r).disk = s.disk
  <1> DEFINE v == Started(s, buffer, max_speed, r)
  <1>1. /\ v.begin = s.begin /\ v.end = s.end /\ v.disk = s.disk
        /\ v.status = "DOWNLOADING" /\ v.curl = "live" /\ v.reply = r
    BY DEF Started, SliceRecord
  <1>2. r.lim = s.end + 1
    BY RestIsAsked
  <1> HIDE DEF v
  <1>3. Sound(v)
    BY <1>1, <1>2 DEF Sound
  <1> QED BY <1>1, <1>3 DEF v

\* when a chunk arrives,
LEMMA DeliveredSound ==
  ASSUME NEW c \in Contents, NEW f, NEW s \in SliceRecord, SliceOK(s, f, c), Sound(s),
         s.curl = "live", NEW n \in Nat \ {0}, s.reply.pos + n <= s.reply.lim
  PROVE  Sound(OnNewData(s, n, Len(DataToWrite(s, Chunk(s, n)))))
  <1> DEFINE v == OnNewData(s, n, Len(DataToWrite(s, Chunk(s, n))))
  <1>1. /\ v.end = s.end /\ v.status = s.status /\ v.curl = "live"
        /\ v.reply.lim = s.reply.lim
    BY ChunkFollows
  <1> HIDE DEF v
  <1>2. Sound(v)
    BY <1>1 DEF Sound
  <1> QED BY <1>2 DEF v

\* when its transfer is over,
LEMMA EndedSound ==
  ASSUME NEW c \in Contents, NEW f, NEW s \in SliceRecord, SliceOK(s, f, c), Sound(s),
         s.end \in s.begin .. SizeOf[c] - 1, s.curl = "live", s.reply.pos = s.reply.lim
  PROVE  /\ Sound([s EXCEPT !.curl = "ok"])
         /\ [s EXCEPT !.curl = "ok"].begin = s.begin
         /\ [s EXCEPT !.curl = "ok"].disk = s.disk
  <1> DEFINE v == [s EXCEPT !.curl = "ok"]
  <1>1. /\ v.begin = s.begin /\ v.end = s.end /\ v.disk = s.disk /\ v.cache = s.cache
        /\ v.status = s.status /\ v.curl = "ok"
    BY DEF SliceRecord
  <1>2. /\ s.begin \in Nat /\ s.disk \in Nat /\ s.end \in Int /\ Len(s.cache) \in Nat
        /\ SizeOf[c] \in Nat
    BY ContentsAssumption DEF SliceRecord
  <1>3. s.begin + s.disk + Len(s.cache) = s.end + 1
    BY DEF SliceOK, Sound
  <1>4. s.end # -1 /\ s.end - s.begin + 1 = s.disk + Len(s.cache)
    BY <1>2, <1>3
  <1> HIDE DEF v
  <1>5. Sound(v)
    BY <1>1, <1>4 DEF Sound, IsDataCompletedClearly, Size
  <1> QED BY <1>1, <1>5 DEF v

\* when it is flushed,
LEMMA FlushedSound ==
  ASSUME NEW s \in SliceRecord, Sound(s)
  PROVE  /\ Sound(FlushToDisk(s, Len(s.cache)))
         /\ FlushToDisk(s, Len(s.cache)).begin = s.begin
         /\ FlushToDisk(s, Len(s.cache)).disk = s.disk + Len(s.cache)
  <1> DEFINE v == FlushToDisk(s, Len(s.cache))
  <1>1. /\ v.begin = s.begin /\ v.end = s.end /\ v.disk = s.disk + Len(s.cache)
        /\ v.cache = <<>> /\ v.status = s.status /\ v.curl = s.curl /\ v.reply = s.reply
    BY DEF FlushToDisk, SliceRecord
  <1>2. s.disk \in Nat /\ Len(s.cache) \in Nat
    BY DEF SliceRecord
  <1> HIDE DEF v
  <1>3. v.disk + Len(v.cache) = s.disk + Len(s.cache)
    BY <1>1, <1>2
  <1>4. Sound(v)
    BY <1>1, <1>3 DEF Sound, IsDataCompletedClearly, Size
  <1> QED BY <1>1, <1>4 DEF v

\* and when it is stopped, which keeps what it has.
LEMMA StoppedSound ==
  ASSUME NEW s \in SliceRecord, s.status # "DOWNLOAD_FAILED",
         SavePolicy = "SaveExceptFailed"
  PROVE  /\ StopWrites(s) = s.cache
         /\ Sound(Stopped(s, Len(s.cache)))
         /\ Stopped(s, Len(s.cache)).begin = s.begin
         /\ Stopped(s, Len(s.cache)).disk = s.disk + Len(s.cache)
  <1> DEFINE v == Stopped(s, Len(s.cache))
  <1>1. ~Discards(s)
    BY DEF Discards
  <1>2. /\ v.begin = s.begin /\ v.disk = s.disk + Len(s.cache)
        /\ v.status = s.status /\ v.curl = "none"
    BY <1>1 DEF Stopped, SliceRecord
  <1> HIDE DEF v
  <1>3. Sound(v)
    BY <1>2 DEF Sound
  <1> QED BY <1>1, <1>2, <1>3 DEF v, StopWrites

\* A new slice is sound.
LEMMA NewSound ==
  ASSUME NEW begin, NEW end, NEW capacity
  PROVE  Sound(NewSlice(begin, end, capacity))
  <1> DEFINE s == NewSlice(begin, end, capacity)
  <1>1. s.status # "DOWNLOAD_FAILED" /\ s.curl = "none"
    BY DEF NewSlice
  <1> HIDE DEF s
  <1>2. Sound(s)
    BY <1>1 DEF Sound
  <1> QED BY <1>2 DEF s

\* Where slices know what is in the temporary file, and where the index does.
WithSlices == Writing \ {"check", "hash", "rename"}
WithIndex == {"idle", "launched", "fetch", "load", "start", "check", "hash", "rename", "end"}

\* The temporary file has the size of the resource,
FullInv == tmp # NoFile => Len(tmp) = SizeOf[src]

\* no slice has failed,
SoundInv == \A i \in DOMAIN slices : Sound(slices[i])

\* and what is in the file is known: to the slices during the transfer, to the
\* index before and after it.
KnownInv ==
  /\ pc \in WithSlices => SlicesKnow(slices, tmp, src)
  /\ pc \in WithIndex /\ tmp # NoFile => IndexKnows(index, tmp, src)

\* Together with the invariants above they are inductive.
OnceInv == FullInv /\ SoundInv /\ KnownInv

\* There is no version but one.
LEMMA SameVersion ==
  ASSUME Environment, TypeInv, TypeInv' PROVE src \in Contents /\ src' = src
  BY DEF Environment, TypeInv, TypeOK

\* Steps on what belongs to a slice.
LEMMA SliceFacts ==
  ASSUME TypeInv, FileInv, PartsInv, OnceInv, pc \in Writing, NEW i \in DOMAIN slices
  PROVE  /\ slices[i] \in SliceRecord /\ SliceOK(slices[i], tmp, src) /\ Sound(slices[i])
         /\ slices[i].end \in slices[i].begin .. SizeOf[src] - 1
         /\ slices[i].begin \in Nat /\ slices[i].disk \in Nat
         /\ slices[i].begin + slices[i].disk <= Len(tmp)
  <1>1. slices \in Seq(SliceRecord)
    BY DEF TypeInv, TypeOK
  <1>2. slices[i] \in SliceRecord
    BY <1>1
  <1>3. SliceOK(slices[i], tmp, src)
    BY DEF FileInv, SlicesInv, Writing
  <1>4. slices[i].end \in slices[i].begin .. SizeOf[src] - 1
    BY DEF PartsInv, Parts
  <1>5. slices[i].begin \in Nat /\ slices[i].disk \in Nat
    BY <1>2 DEF SliceRecord
  <1>6. slices[i].begin + slices[i].disk <= Len(tmp)
    BY <1>3 DEF SliceOK, Holds
  <1> QED BY <1>2, <1>3, <1>4, <1>5, <1>6 DEF OnceInv, SoundInv

\* Steps that write for one slice.
LEMMA WriteOnce ==
  ASSUME Environment, TypeInv, FileInv, PartsInv, OnceInv, FileInv', src' = src,
         pc \in WithSlices, pc' \notin WithIndex, NEW i \in DOMAIN slices,
         NEW data \in Seq(Byte), NEW w \in Accepted(data), WriteTmp(i, data, w),
         NEW v, slices' = [slices EXCEPT ![i] = v], v.begin = slices[i].begin,
         v.disk = slices[i].disk + Len(data), Sound(v)
  PROVE  OnceInv'
  <1> DEFINE pos == slices[i].begin + slices[i].disk
             g == Write(tmp, pos, data)
  <1>1. pc \in Writing /\ tmp # NoFile /\ Clean(tmp, src) /\ tmp \in File /\ src \in Contents
    BY CleanWhileWriting DEF WithSlices, Clean, TypeInv, TypeOK
  <1>2. tmp' = g
    <2>1. w = Len(data)
      BY DEF Environment, Accepted
    <2>2. SubSeq(data, 1, w) = data
      BY <2>1
    <2> QED BY <2>2 DEF WriteTmp
  <1>3. slices[i].begin \in Nat /\ slices[i].disk \in Nat /\ pos \in Nat /\ pos <= Len(tmp)
    BY <1>1, SliceFacts
  <1>4. SlicesKnow(slices', g, src)
    BY <1>1, <1>3, WriteKnows DEF OnceInv, KnownInv
  <1>5. Len(g) >= Len(tmp) /\ g \in File
    BY <1>1, <1>3, WriteAdds, WriteType
  <1> HIDE DEF g
  <1>6. FullInv'
    <2>1. tmp' # NoFile
      BY <1>2, <1>5, FileAssumption
    <2>2. Len(g) <= SizeOf[src]
      BY <1>2, <2>1 DEF FileInv, TmpInv, Clean
    <2>3. Len(tmp) = SizeOf[src] /\ Len(g) \in Nat /\ SizeOf[src] \in Nat
      BY <1>1, <1>5, ContentsAssumption DEF OnceInv, FullInv, File
    <2> QED BY <1>2, <1>5, <2>2, <2>3 DEF FullInv
  <1>7. SoundInv'
    BY OneReplaced DEF OnceInv, SoundInv
  <1>8. KnownInv'
    BY <1>2, <1>4 DEF KnownInv
  <1> QED BY <1>6, <1>7, <1>8 DEF OnceInv

\* Steps that change one slice, and nothing of where its data is.
LEMMA ChangeOnce ==
  ASSUME OnceInv, UNCHANGED <<src, tmp, index>>,
         pc \in WithSlices, pc' \in WithIndex => pc \in WithIndex,
         NEW i, NEW v, slices' = [slices EXCEPT ![i] = v],
         i \in DOMAIN slices => /\ v.begin = slices[i].begin /\ v.disk = slices[i].disk
                                /\ Sound(v)
  PROVE  OnceInv'
  <1>1. /\ DOMAIN slices' = DOMAIN slices
        /\ \A j \in DOMAIN slices : j # i => slices'[j] = slices[j]
        /\ i \in DOMAIN slices => slices'[i] = v
    BY OneReplaced
  <1>2. SoundInv'
    BY <1>1 DEF OnceInv, SoundInv
  <1>3. \A j \in DOMAIN slices : /\ slices'[j].begin = slices[j].begin
                                 /\ slices'[j].disk = slices[j].disk
    BY <1>1
  <1>4. SlicesKnow(slices', tmp, src)
    BY <1>1, <1>3 DEF OnceInv, KnownInv, SlicesKnow
  <1>5. KnownInv'
    BY <1>4 DEF OnceInv, KnownInv
  <1> QED BY <1>2, <1>5 DEF OnceInv, FullInv

\* Steps that leave slices, file and index alone.
LEMMA QuietOnce ==
  ASSUME OnceInv, UNCHANGED <<src, tmp, index>>, slices' = slices \/ slices' = <<>>,
         pc' \in WithSlices => pc \in WithSlices /\ slices' = slices,
         pc' \in WithIndex => pc \in WithIndex
  PROVE  OnceInv'
  BY DEF OnceInv, FullInv, SoundInv, KnownInv

-----------------------------------------------------------------------------
(* The actions: *)

LEMMA DeliverOnce ==
  ASSUME Environment, TypeInv, FileInv, PartsInv, OnceInv, FileInv', src' = src,
         NEW i \in DOMAIN slices, Deliver(i)
  PROVE  OnceInv'
  <1> DEFINE s == slices[i]
             data(n) == DataToWrite(s, Chunk(s, n))
  <1>1. pc \in WithSlices /\ pc' = pc /\ pc \notin WithIndex /\ s.curl = "live"
    BY DEF Deliver, Live, WithSlices, WithIndex, Writing
  <1>2. /\ s \in SliceRecord /\ SliceOK(s, tmp, src) /\ Sound(s) /\ src \in Contents
    BY <1>1, SliceFacts DEF WithSlices, TypeInv, TypeOK
  <1>3. PICK n \in 1..MaxChunk :
          /\ s.reply.pos + n <= s.reply.lim
          /\ \E w \in Accepted(data(n)) :
               /\ WriteTmp(i, data(n), w)
               /\ slices' = [slices EXCEPT ![i] = OnNewData(slices[i], n, w)]
    BY DEF Deliver
  <1>4. n \in Nat \ {0}
    BY SliceAssumption
  <1> DEFINE v == OnNewData(s, n, Len(data(n)))
  <1>5. /\ data(n) \in Seq(Byte) /\ v.begin = s.begin /\ v.disk = s.disk + Len(data(n))
    BY <1>1, <1>2, <1>3, <1>4, ChunkFollows
  <1>6. Sound(v)
    BY <1>1, <1>2, <1>3, <1>4, DeliveredSound
  <1> HIDE DEF data
  <1>7. PICK w \in Accepted(data(n)) :
          /\ WriteTmp(i, data(n), w)
          /\ slices' = [slices EXCEPT ![i] = OnNewData(slices[i], n, w)]
    BY <1>3
  <1>8. w = Len(data(n))
    BY DEF Environment, Accepted
  <1>9. slices' = [slices EXCEPT ![i] = v]
    BY <1>7, <1>8
  <1> HIDE DEF v
  <1> QED BY <1>1, <1>5, <1>6, <1>7, <1>9, WriteOnce

LEMMA FlushOnce ==
  ASSUME Environment, TypeInv, FileInv, PartsInv, OnceInv, FileInv', src' = src, FlushSlice
  PROVE  OnceInv'
  <1>1. /\ pc \in WithSlices /\ pc' \in WithSlices /\ pc' \notin WithIndex
        /\ UNCHANGED index
    BY DEF FlushSlice, WithSlices, WithIndex, Writing
  <1>2. CASE UNCHANGED <<slices, tmp>>
    BY <1>1, <1>2, QuietOnce
  <1>3. CASE cur \in DOMAIN slices /\ \E w \in Accepted(slices[cur].cache) :
               /\ WriteTmp(cur, slices[cur].cache, w)
               /\ slices' = [slices EXCEPT ![cur] = FlushToDisk(slices[cur], w)]
    <2> DEFINE s == slices[cur]
               data == s.cache
               v == FlushToDisk(s, Len(data))
    <2>1. s \in SliceRecord /\ Sound(s)
      BY <1>1, <1>3, SliceFacts DEF WithSlices
    <2>2. PICK w \in Accepted(data) :
            /\ WriteTmp(cur, data, w)
            /\ slices' = [slices EXCEPT ![cur] = FlushToDisk(s, w)]
      BY <1>3
    <2>3. w = Len(data)
      BY DEF Environment, Accepted
    <2>4. slices' = [slices EXCEPT ![cur] = v]
      BY <2>2, <2>3
    <2>5. v.begin = s.begin /\ v.disk = s.disk + Len(data) /\ Sound(v)
      BY <2>1, FlushedSound
    <2>6. data \in Seq(Byte)
      BY <2>1 DEF SliceRecord
    <2> HIDE DEF v, data
    <2> QED BY <1>1, <1>3, <2>2, <2>4, <2>5, <2>6, WriteOnce
  <1> QED BY <1>2, <1>3 DEF FlushSlice

LEMMA StopOnce ==
  ASSUME Smooth, TypeInv, FileInv, PartsInv, OnceInv, FileInv', src' = src, StopSlice
  PROVE  OnceInv'
  <1>1. /\ pc \in WithSlices /\ pc' \in WithSlices /\ pc' \notin WithIndex
        /\ UNCHANGED index /\ Environment
    BY DEF StopSlice, WithSlices, WithIndex, Writing, Smooth
  <1>2. CASE UNCHANGED <<slices, tmp>>
    BY <1>1, <1>2, QuietOnce
  <1>3. CASE cur \in DOMAIN slices /\ \E w \in Accepted(StopWrites(slices[cur])) :
               /\ WriteTmp(cur, StopWrites(slices[cur]), w)
               /\ slices' = [slices EXCEPT ![cur] = Stopped(slices[cur], w)]
    <2> DEFINE s == slices[cur]
               data == s.cache
               v == Stopped(s, Len(data))
    <2>1. s \in SliceRecord /\ Sound(s)
      BY <1>1, <1>3, SliceFacts DEF WithSlices
    <2>2. /\ StopWrites(s) = data /\ Sound(v) /\ v.begin = s.begin
          /\ v.disk = s.disk + Len(data)
      BY <2>1, StoppedSound DEF Sound, Smooth
    <2>3. PICK w \in Accepted(data) :
            /\ WriteTmp(cur, data, w)
            /\ slices' = [slices EXCEPT ![cur] = Stopped(s, w)]
      BY <1>3, <2>2
    <2>4. w = Len(data)
      BY <1>1 DEF Environment, Accepted
    <2>5. slices' = [slices EXCEPT ![cur] = v]
      BY <2>3, <2>4
    <2>6. data \in Seq(Byte)
      BY <2>1 DEF SliceRecord
    <2> HIDE DEF v, data
    <2> QED BY <1>1, <1>3, <2>2, <2>3, <2>5, <2>6, WriteOnce
  <1> QED BY <1>2, <1>3 DEF StopSlice

LEMMA UpdateOnce ==
  ASSUME Smooth, TypeInv, FileInv, PartsInv, OnceInv, FileInv', src' = src,
         UpdateSliceStatus
  PROVE  OnceInv'
  <1>1. /\ pc \in WithSlices /\ pc' \in WithSlices /\ pc' \notin WithIndex
        /\ UNCHANGED index /\ Environment
    BY DEF UpdateSliceStatus, WithSlices, WithIndex, Writing, Smooth
  <1>2. CASE UNCHANGED <<slices, tmp>>
    BY <1>1, <1>2, QuietOnce
  <1> DEFINE st(i) == StatusAfter(slices[i])
             changed(i) == [slices[i] EXCEPT !.status = st(i),
                                            !.failed = IF st(i) = "DOWNLOAD_FAILED"
                                                       THEN @ + 1 ELSE @]
  <1>3. ASSUME NEW i \in Done, NEW w \in Accepted(StopWrites(changed(i))),
               WriteTmp(i, StopWrites(changed(i)), w),
               slices' = [slices EXCEPT ![i] = Stopped(changed(i), w)]
        PROVE  OnceInv'
    <2> DEFINE s == slices[i]
               u == changed(i)
    <2>1. i \in DOMAIN slices /\ s.curl \in {"ok", "err"}
      BY DEF Done
    <2>2. s \in SliceRecord /\ Sound(s)
      BY <1>1, <2>1, SliceFacts DEF WithSlices
    <2>3. st(i) = "DOWNLOAD_COMPLETED"
      BY <2>1, <2>2 DEF Sound, StatusAfter
    <2>4. u = [s EXCEPT !.status = "DOWNLOAD_COMPLETED", !.failed = s.failed]
      BY <2>3
    <2>5. /\ u \in SliceRecord /\ u.begin = s.begin /\ u.disk = s.disk
          /\ u.status = "DOWNLOAD_COMPLETED"
      <3> HIDE DEF u, changed
      <3> QED BY <2>2, <2>4 DEF SliceRecord, SliceStatus
    <2>6. w \in Accepted(StopWrites(u)) /\ WriteTmp(i, StopWrites(u), w)
          /\ slices' = [slices EXCEPT ![i] = Stopped(u, w)]
      BY <1>3
    <2> HIDE DEF u, changed
    <2> DEFINE data == u.cache
               v == Stopped(u, Len(data))
    <2>7. /\ StopWrites(u) = data /\ Sound(v) /\ v.begin = s.begin
          /\ v.disk = s.disk + Len(data)
      BY <2>5, StoppedSound DEF Smooth
    <2>8. w \in Accepted(data) /\ WriteTmp(i, data, w) /\ w = Len(data)
      BY <1>1, <2>6, <2>7 DEF Environment, Accepted
    <2>9. slices' = [slices EXCEPT ![i] = v] /\ data \in Seq(Byte)
      BY <2>5, <2>6, <2>8 DEF SliceRecord
    <2> HIDE DEF v, data
    <2> QED BY <1>1, <2>1, <2>7, <2>8, <2>9, WriteOnce
  <1> QED BY <1>2, <1>3 DEF UpdateSliceStatus

LEMMA EndOnce ==
  ASSUME Smooth, TypeInv, FileInv, PartsInv, OnceInv, src' = src,
         NEW i \in DOMAIN slices, TransferEnd(i)
  PROVE  OnceInv'
  <1> DEFINE s == slices[i]
             v == [s EXCEPT !.curl = "ok"]
  <1>1. /\ pc \in WithSlices /\ pc' = pc /\ UNCHANGED <<tmp, index>> /\ s.curl = "live"
        /\ src \in Contents
    BY DEF TransferEnd, Live, WithSlices, Writing, disk, TypeInv, TypeOK
  <1>2. /\ s \in SliceRecord /\ SliceOK(s, tmp, src) /\ Sound(s)
        /\ s.end \in s.begin .. SizeOf[src] - 1
    BY <1>1, SliceFacts DEF WithSlices
  <1>3. s.reply.pos = s.reply.lim /\ slices' = [slices EXCEPT ![i].curl = "ok"]
    BY DEF TransferEnd, Smooth
  <1>4. slices' = [slices EXCEPT ![i] = v]
    BY <1>3
  <1>5. Sound(v) /\ v.begin = s.begin /\ v.disk = s.disk
    BY <1>1, <1>2, <1>3, EndedSound
  <1> HIDE DEF v
  <1> QED BY <1>1, <1>4, <1>5, ChangeOnce

LEMMA NoneOnce ==
  ASSUME Smooth, TypeInv, FileInv, PartsInv, OnceInv, src' = src, ScheduleNone
  PROVE  OnceInv'
  <1>1. /\ pc \in WithSlices /\ pc' \notin WithIndex /\ UNCHANGED <<tmp, index>>
        /\ pc' \in WithSlices
    BY DEF ScheduleNone, LoopEnd, Finish, WithSlices, WithIndex, Writing, disk
  <1>2. CASE UNCHANGED slices
    BY <1>1, <1>2, QuietOnce
  <1>3. CASE \E i : slices' = [slices EXCEPT ![i].status = "DOWNLOAD_COMPLETED"]
    <2>1. PICK i : slices' = [slices EXCEPT ![i].status = "DOWNLOAD_COMPLETED"]
      BY <1>3
    <2> DEFINE s == slices[i]
               v == [s EXCEPT !.status = "DOWNLOAD_COMPLETED"]
    <2>2. ASSUME i \in DOMAIN slices PROVE v.begin = s.begin /\ v.disk = s.disk /\ Sound(v)
      <3>1. s \in SliceRecord /\ Sound(s)
        BY <1>1, <2>2, SliceFacts DEF WithSlices
      <3>2. /\ v.begin = s.begin /\ v.end = s.end /\ v.disk = s.disk /\ v.cache = s.cache
            /\ v.curl = s.curl /\ v.reply = s.reply /\ v.status = "DOWNLOAD_COMPLETED"
        BY <3>1 DEF SliceRecord
      <3> HIDE DEF v
      <3> QED BY <3>1, <3>2 DEF Sound, IsDataCompletedClearly, Size
    <2>3. slices' = [slices EXCEPT ![i] = v]
      BY <2>1
    <2> HIDE DEF v
    <2> QED BY <1>1, <2>2, <2>3, ChangeOnce
  <1> QED BY <1>2, <1>3 DEF ScheduleNone

\* A step asks for nothing that is there.
AsksForNew ==
  \A i \in DOMAIN slices \cap DOMAIN slices' :
    (slices[i].curl = "none" /\ slices'[i].curl = "live") =>
      \A k \in slices'[i].reply.pos + 1 .. slices'[i].reply.lim :
        k <= Len(tmp) => tmp[k] # <<src, k>>

\* What is behind the data of a slice, and in it, is not there: it is in no
\* other slice.
LEMMA RestIsNew ==
  ASSUME TypeInv, FileInv, PartsInv, OnceInv, pc \in WithSlices, NEW i \in DOMAIN slices,
         NEW k \in slices[i].begin + slices[i].disk + 1 .. slices[i].end + 1,
         k <= Len(tmp)
  PROVE  tmp[k] # <<src, k>>
  <1> SUFFICES ASSUME tmp[k] = <<src, k>> PROVE FALSE
    OBVIOUS
  <1>1. /\ slices[i].begin \in Nat /\ slices[i].disk \in Nat
        /\ slices[i].end \in slices[i].begin .. SizeOf[src] - 1
    BY SliceFacts DEF WithSlices
  <1>2. k \in Present(tmp, src)
    <2>1. k \in Nat \ {0} /\ Len(tmp) \in Nat
      BY <1>1, ContentsAssumption DEF TypeInv, TypeOK, HasTmp, WithSlices, File
    <2> QED BY <2>1 DEF Present
  <1>3. PICK j \in DOMAIN slices : Lies(k, slices[j].begin, slices[j].disk)
    BY <1>2 DEF OnceInv, KnownInv, SlicesKnow
  <1>4. /\ slices[j].begin \in Nat /\ slices[j].disk \in Nat
        /\ slices[j] \in SliceRecord /\ SliceOK(slices[j], tmp, src)
        /\ slices[j].end \in slices[j].begin .. SizeOf[src] - 1
    BY SliceFacts DEF WithSlices
  <1>5. Len(slices[j].cache) \in Nat /\ SizeOf[src] \in Nat
    BY <1>4, ContentsAssumption DEF SliceRecord, TypeInv, TypeOK
  <1>6. slices[j].begin + slices[j].disk <= slices[j].end + 1
    BY <1>4, <1>5 DEF SliceOK, Within
  <1>7. k > slices[j].begin /\ k <= slices[j].begin + slices[j].disk
    BY <1>3 DEF Lies
  <1>8. i \in Nat /\ j \in Nat
    BY DEF TypeInv, TypeOK
  <1>9. CASE i = j
    BY <1>1, <1>7, <1>9
  <1>10. CASE i < j
    <2>1. slices[i].end < slices[j].begin
      BY <1>10 DEF PartsInv, Parts
    <2> QED BY <1>1, <1>4, <1>5, <1>7, <2>1
  <1>11. CASE j < i
    <2>1. slices[j].end < slices[i].begin
      BY <1>11 DEF PartsInv, Parts
    <2> QED BY <1>1, <1>4, <1>5, <1>6, <1>7, <2>1
  <1> QED BY <1>8, <1>9, <1>10, <1>11

LEMMA StartOnce ==
  ASSUME Smooth, TypeInv, FileInv, PartsInv, OnceInv, UNCHANGED <<src, tmp, index>>,
         pc \in WithSlices, pc' \in WithIndex => pc \in WithIndex,
         NEW i \in DOMAIN slices, NEW n, NEW code, StartSlice(i, n, code)
  PROVE  OnceInv' /\ AsksForNew
  <1> DEFINE s == slices[i]
  <1>1. /\ s \in SliceRecord /\ SliceOK(s, tmp, src)
        /\ s.end \in s.begin .. SizeOf[src] - 1 /\ src \in Contents
    BY SliceFacts DEF WithSlices, TypeInv, TypeOK
  <1>2. ReplyKinds \subseteq {"range"} /\ "curl" \notin Faults
    BY DEF Smooth, Environment
  <1>3. PICK r \in Replies(s, src) : \E buffer : slices' =
          [slices EXCEPT ![i] = Started(s, buffer, Share(MaxSpeed, n), r)]
    BY <1>2 DEF StartSlice
  <1>4. PICK buffer : slices' =
          [slices EXCEPT ![i] = Started(s, buffer, Share(MaxSpeed, n), r)]
    BY <1>3
  <1> DEFINE v == Started(s, buffer, Share(MaxSpeed, n), r)
  <1>5. Sound(v) /\ v.reply = r /\ v.begin = s.begin /\ v.disk = s.disk
    BY <1>1, <1>2, StartedSound
  <1>6. slices' = [slices EXCEPT ![i] = v]
    BY <1>4
  <1> HIDE DEF v
  <1>7. OnceInv'
    BY <1>5, <1>6, ChangeOnce
  <1>8. r.pos = s.begin + s.disk /\ r.lim = s.end + 1
    BY <1>1, <1>2, RestIsAsked
  <1>9. ASSUME NEW j \in DOMAIN slices, slices[j].curl = "none", slices'[j].curl = "live",
               NEW k \in slices'[j].reply.pos + 1 .. slices'[j].reply.lim, k <= Len(tmp)
        PROVE  tmp[k] # <<src, k>>
    <2>1. j = i /\ slices'[j] = v
      BY <1>6, <1>9, OneReplaced
    <2>2. k \in s.begin + s.disk + 1 .. s.end + 1
      BY <1>5, <1>8, <1>9, <2>1
    <2> QED BY <1>9, <2>2, RestIsNew
  <1> QED BY <1>7, <1>9 DEF AsksForNew

LEMMA FirstOnce ==
  ASSUME Smooth, TypeInv, FileInv, PartsInv, OnceInv, src' = src, StartFirst
  PROVE  OnceInv' /\ AsksForNew
  <1>1. slices \in Seq(SliceRecord)
    BY DEF TypeInv, TypeOK
  <1>2. pc \in WithSlices /\ pc \in WithIndex /\ UNCHANGED <<src, tmp, index>>
    BY DEF StartFirst, WithSlices, WithIndex, Writing, disk
  <1>3. \/ UNCHANGED slices
        \/ /\ WithStatus(slices, "UNFETCH") # {}
           /\ \E n, code : StartSlice(FirstWithStatus(slices, "UNFETCH"), n, code)
    BY DEF StartFirst
  <1>4. CASE UNCHANGED slices
    BY <1>2, <1>4, QuietOnce DEF AsksForNew
  <1>5. CASE /\ WithStatus(slices, "UNFETCH") # {}
             /\ \E n, code : StartSlice(FirstWithStatus(slices, "UNFETCH"), n, code)
    <2>1. FirstWithStatus(slices, "UNFETCH") \in DOMAIN slices
      BY <1>1, <1>5, FirstWith DEF WithStatus
    <2> QED BY <1>2, <1>5, <2>1, StartOnce
  <1> QED BY <1>3, <1>4, <1>5

LEMMA ScheduleOnce ==
  ASSUME Smooth, TypeInv, FileInv, PartsInv, OnceInv, src' = src, ScheduleNext
  PROVE  OnceInv' /\ AsksForNew
  <1>1. slices \in Seq(SliceRecord)
    BY DEF TypeInv, TypeOK
  <1>2. /\ pc \in WithSlices /\ pc' \notin WithIndex /\ UNCHANGED <<src, tmp, index>>
        /\ WithStatus(slices, "UNFETCH") # {}
        /\ \E n, code : StartSlice(FirstWithStatus(slices, "UNFETCH"), n, code)
    BY DEF ScheduleNext, LoopEnd, Finish, WithSlices, WithIndex, Writing, disk
  <1>3. FirstWithStatus(slices, "UNFETCH") \in DOMAIN slices
    BY <1>1, <1>2, FirstWith DEF WithStatus
  <1> QED BY <1>2, <1>3, StartOnce

LEMMA LoadOnce ==
  ASSUME Smooth, TypeInv, FileInv, OrphanInv, OnceInv, src' = src, Load
  PROVE  OnceInv'
  <1>1. /\ pc = "load" /\ index' = index /\ src \in Contents
        /\ origin = SizeOf[src] /\ origin \in Nat \ {0} /\ origin = ReportedSize[src]
        /\ tmp \in File \cup {NoFile} /\ index \in Index \cup {NoFile, TornIndex}
    BY ReportedType DEF Load, Smooth, KnownSizes, FileInv, SizeInv, TypeInv, TypeOK
  <1>2. ~CreateFails /\ "create" \notin Faults
    BY DEF CreateFails, Smooth
  <1>3. tmp # NoFile => IndexKnows(index, tmp, src) /\ Len(tmp) = origin
    BY <1>1 DEF OnceInv, KnownInv, WithIndex, FullInv
  <1>4. CASE /\ Usable(index, tmp, origin, src)
             /\ slices' = LoadedSlices(index) /\ UNCHANGED tmp
    <2>1. tmp # NoFile
      BY <1>4 DEF Usable
    <2>2. \A i \in DOMAIN index.slices :
            /\ Sound(slices'[i]) /\ slices'[i].begin = index.slices[i].begin
            /\ slices'[i].disk = index.slices[i].capacity
      BY <1>4, NewSound, NewRange DEF LoadedSlices
    <2>3. DOMAIN slices' = DOMAIN index.slices
      BY <1>4 DEF LoadedSlices
    <2>4. SlicesKnow(slices', tmp, src)
      BY <1>3, <2>1, <2>2, <2>3 DEF SlicesKnow, IndexKnows
    <2>5. KnownInv'
      BY <1>1, <1>3, <1>4, <2>1, <2>4 DEF KnownInv
    <2>6. SoundInv'
      BY <2>2, <2>3 DEF SoundInv
    <2> QED BY <1>4, <2>5, <2>6 DEF OnceInv, FullInv
  <1>5. CASE /\ NothingToLoad /\ tmp' \in Created(Larger(origin, 0))
             /\ slices' = MakeSlices(origin, AcceptRanges[src])
    <2>1. tmp' = CreateFixedSizeFile(tmp, origin)
      <3>1. Larger(origin, 0) = origin
        BY <1>1 DEF Larger
      <3> QED BY <1>2, <1>5, <3>1 DEF Created
    <2>2. /\ Len(tmp') = origin
          /\ \A k \in Present(tmp', src) : tmp # NoFile /\ k \in Present(tmp, src)
      BY <1>1, <1>3, <2>1, CreateAdds
    <2>3. ~Usable(index, tmp, origin, src)
      BY <1>2, <1>5 DEF NothingToLoad, Smooth
    <2>4. ASSUME tmp # NoFile, NEW k \in Present(tmp, src) PROVE FALSE
      <3>1. index \in Index /\ Real
        BY <1>1, <1>3, <2>4 DEF IndexKnows, Real
      <3>2. index.size = origin
        BY <1>1, <3>1 DEF FileInv, IndexInv, OrphanInv
      <3>3. index.md5 = src /\ index.url = UrlOf[src]
        <4>1. index.md5 \in Contents /\ \E x \in Contents : index.url = UrlOf[x]
          BY <3>1 DEF Index
        <4> QED BY <1>1, <4>1 DEF Smooth, Environment
      <3> QED BY <1>3, <2>3, <2>4, <3>1, <3>2, <3>3 DEF Usable, Real
    <2>5. Present(tmp', src) = {}
      BY <2>2, <2>4
    <2>6. KnownInv'
      BY <1>1, <2>5 DEF KnownInv, SlicesKnow, IndexKnows
    <2>7. SoundInv'
      <3> SUFFICES ASSUME NEW i \in DOMAIN slices' PROVE Sound(slices'[i])
        BY DEF SoundInv
      <3>1. PICK b \in Nat : \E e \in b..origin - 1 :
              MakeSlices(origin, AcceptRanges[src])[i] = NewSlice(b, e, 0)
        BY <1>1, <1>5, MadeRanges
      <3> QED BY <1>5, <3>1, NewSound
    <2> QED BY <1>1, <2>2, <2>6, <2>7 DEF OnceInv, FullInv
  <1> QED BY <1>2, <1>4, <1>5 DEF Load

LEMMA IndexOnce ==
  ASSUME Smooth, TypeInv, OnceInv, src' = src, OpenIndex \/ WriteIndex
  PROVE  OnceInv'
  <1>1. /\ UNCHANGED <<slices, tmp>> /\ pc \in WithSlices
        /\ pc' \in WithIndex => WriteIndex
    BY DEF OpenIndex, WriteIndex, memory, WithSlices, WithIndex, Writing, Smooth
  <1>2. SlicesKnow(slices, tmp, src)
    BY <1>1 DEF OnceInv, KnownInv
  <1>3. ASSUME WriteIndex PROVE IndexKnows(index', tmp, src)
    <2>1. index' = IndexOf(slices, origin, src)
      BY <1>3 DEF WriteIndex, Smooth
    <2>2. /\ slices \in Seq(SliceRecord) /\ src \in Contents /\ origin \in Nat \cup {-1}
      BY DEF TypeInv, TypeOK
    <2>3. index' \in Index
      BY <2>1, <2>2, IndexOfType
    <2>4. TornIndex \notin Index
      BY DEF TornIndex, Index
    <2>5. index' \notin {NoFile, TornIndex}
      BY <2>3, <2>4, IndexAssumption
    <2>6. /\ DOMAIN index'.slices = DOMAIN slices
          /\ \A i \in DOMAIN slices : /\ index'.slices[i].begin = slices[i].begin
                                      /\ index'.slices[i].capacity = slices[i].disk
      BY <2>1 DEF IndexOf
    <2> QED BY <1>2, <2>5, <2>6 DEF SlicesKnow, IndexKnows
  <1>4. KnownInv'
    BY <1>1, <1>2, <1>3 DEF KnownInv
  <1> QED BY <1>1, <1>4 DEF OnceInv, FullInv, SoundInv

\* Once the temporary file is renamed there is none.
GoneInv == pc = "remove_index" => tmp = NoFile

\* No other step ends there.
LEMMA NextGone == GoneInv /\ [Next]_vars => GoneInv'
  <1> SUFFICES ASSUME GoneInv, [Next]_vars, pc' = "remove_index" PROVE tmp' = NoFile
    BY DEF GoneInv
  <1>1. CASE RenameTmp
    BY <1>1 DEF RenameTmp, Fail, Return
  <1>2. CASE UNCHANGED <<pc, tmp>>
    BY <1>2 DEF GoneInv
  <1>3. CASE Stop \/ SetUserEvent \/ PauseResume \/ Rest \/ UNCHANGED vars
    BY <1>2, <1>3 DEF Stop, SetUserEvent, PauseResume, Rest, vars, disk
  <1>4. CASE Worker /\ ~RenameTmp
    BY <1>4 DEF Worker, Launch, Fetch, Load, AfterLoad, CreateFails, StartFirst, PerformReturn, LoopEnd, LoopTop,
       FlushSlice, OpenIndex, WriteIndex, UpdateSliceStatus, ScheduleNone, ScheduleNext,
       StopSlice, CheckCompleted, VerifyHash, RemoveIndex, Cleanup, Fail, Finish, Return
  <1>5. CASE Network \/ Start \/ Crash
    BY <1>5 DEF Network, Deliver, TransferEnd, Start, Crash
  <1> QED BY <1>1, <1>3, <1>4, <1>5 DEF Next, User

LEMMA RenameOnce ==
  ASSUME OnceInv, src' = src, RenameTmp
  PROVE  OnceInv'
  <1>1. /\ UNCHANGED <<slices, index>> /\ pc = "rename"
        /\ \/ tmp' = NoFile /\ pc' = "remove_index"
           \/ UNCHANGED tmp /\ pc' = "end"
    BY DEF RenameTmp, Fail, Return
  <1>2. CASE tmp' = NoFile /\ pc' = "remove_index"
    BY <1>1, <1>2 DEF OnceInv, FullInv, SoundInv, KnownInv, WithSlices, WithIndex, Writing
  <1>3. CASE UNCHANGED tmp /\ pc' = "end"
    BY <1>1, <1>3, QuietOnce DEF WithSlices, WithIndex, Writing
  <1> QED BY <1>1, <1>2, <1>3

LEMMA RemoveOnce ==
  ASSUME OnceInv, GoneInv, src' = src, RemoveIndex
  PROVE  OnceInv'
  <1>1. /\ UNCHANGED <<slices, tmp>> /\ pc = "remove_index" /\ pc' = "end"
    BY DEF RemoveIndex, Return
  <1>2. tmp' = NoFile
    BY <1>1 DEF GoneInv
  <1> QED BY <1>1, <1>2 DEF OnceInv, FullInv, SoundInv, KnownInv, WithSlices, WithIndex, Writing

LEMMA ElsewhereOnce ==
  ASSUME OnceInv, src' = src,
         \/ Launch \/ Fetch \/ PerformReturn \/ LoopTop \/ CheckCompleted \/ VerifyHash
         \/ Cleanup \/ Start \/ Stop \/ SetUserEvent \/ PauseResume \/ Rest \/ UNCHANGED vars
  PROVE  OnceInv'
  <1>1. CASE Launch \/ Fetch
    <2>1. /\ UNCHANGED <<slices, tmp, index>> /\ pc \in WithIndex /\ pc' \notin WithSlices
      BY <1>1 DEF Launch, Fetch, Return, memory, disk, WithSlices, WithIndex, Writing
    <2> QED BY <2>1, QuietOnce
  <1>2. CASE PerformReturn \/ LoopTop
    <2>1. /\ UNCHANGED <<slices, tmp, index>> /\ pc \in WithSlices /\ pc' \notin WithIndex
      BY <1>2 DEF PerformReturn, LoopTop, LoopEnd, Finish, disk, WithSlices, WithIndex, Writing
    <2> QED BY <2>1, QuietOnce
  <1>3. CASE CheckCompleted \/ VerifyHash
    <2>1. /\ UNCHANGED <<slices, tmp, index>> /\ pc \in WithIndex /\ pc' \notin WithSlices
      BY <1>3 DEF CheckCompleted, VerifyHash, Fail, Return, disk, WithSlices, WithIndex, Writing
    <2> QED BY <2>1, QuietOnce
  <1>4. CASE Cleanup
    <2>1. /\ slices' = <<>> /\ UNCHANGED <<tmp, index>> /\ pc \in WithIndex
          /\ pc' \notin WithSlices
      BY <1>4 DEF Cleanup, disk, WithSlices, WithIndex, Writing
    <2> QED BY <2>1, QuietOnce
  <1>5. CASE Start
    <2>1. UNCHANGED <<slices, tmp, index>> /\ pc \in WithIndex /\ pc' \notin WithSlices
      BY <1>5 DEF Start, disk, WithSlices, WithIndex, Writing
    <2> QED BY <2>1, QuietOnce
  <1>6. CASE Stop \/ SetUserEvent \/ PauseResume \/ Rest \/ UNCHANGED vars
    <2>1. UNCHANGED <<pc, slices, tmp, index>>
      BY <1>6 DEF Stop, SetUserEvent, PauseResume, Rest, vars, memory, disk
    <2> QED BY <2>1, QuietOnce
  <1> QED BY <1>1, <1>2, <1>3, <1>4, <1>5, <1>6

\* Every step keeps the invariant.
LEMMA NextOnce ==
  ASSUME Smooth, TypeInv, FileInv, PartsInv, GoneInv, OrphanInv, OnceInv, [Next]_vars,
         TypeInv', FileInv'
  PROVE  OnceInv'
  <1>1. Environment /\ ~Crash
    BY DEF Smooth, Crash
  <1>2. src' = src
    BY <1>1, SameVersion
  <1>3. CASE Worker
    BY <1>1, <1>2, <1>3, LoadOnce, FirstOnce, FlushOnce, IndexOnce, UpdateOnce, NoneOnce,
       ScheduleOnce, StopOnce, RenameOnce, RemoveOnce, ElsewhereOnce DEF Worker
  <1>4. CASE Network
    BY <1>1, <1>2, <1>4, DeliverOnce, EndOnce DEF Network
  <1>5. CASE User \/ Rest \/ UNCHANGED vars
    BY <1>2, <1>5, ElsewhereOnce DEF User
  <1> QED BY <1>1, <1>3, <1>4, <1>5 DEF Next

\* There is nothing in the beginning.
LEMMA InitOnce == Init => OnceInv
  BY DEF Init, OnceInv, FullInv, SoundInv, KnownInv, WithSlices, Writing

\* A step that opens no connection asks for nothing.
LEMMA OneQuiet ==
  ASSUME NEW i, NEW v, slices' = [slices EXCEPT ![i] = v],
         v.curl = "live" => slices[i].curl = "live"
  PROVE  AsksForNew
  BY OneReplaced DEF AsksForNew

\* Only the steps that start a slice open one.
LEMMA NextAsks ==
  ASSUME Smooth, TypeInv, FileInv, PartsInv, OnceInv, [Next]_vars, TypeInv'
  PROVE  AsksForNew
  <1>1. slices \in Seq(SliceRecord) /\ \A i \in DOMAIN slices : slices[i] \in SliceRecord
    BY DEF TypeInv, TypeOK
  <1>2. src' = src
    BY SameVersion DEF Smooth
  <1>3. CASE UNCHANGED slices \/ slices' = <<>>
    BY <1>3 DEF AsksForNew
  <1>4. CASE \/ Start \/ Stop \/ SetUserEvent \/ PauseResume \/ Crash \/ Rest \/ UNCHANGED vars
             \/ Launch \/ Fetch \/ PerformReturn \/ LoopTop \/ OpenIndex \/ WriteIndex
             \/ CheckCompleted \/ VerifyHash \/ RenameTmp \/ RemoveIndex \/ Cleanup
    BY <1>3, <1>4 DEF Start, Stop, SetUserEvent, PauseResume, Crash, Rest, Launch, Fetch,
       PerformReturn, LoopTop, OpenIndex, WriteIndex, CheckCompleted, VerifyHash, RenameTmp,
       RemoveIndex, Cleanup, vars, memory
  <1>5. CASE StartFirst \/ ScheduleNext
    BY <1>2, <1>5, FirstOnce, ScheduleOnce
  <1>6. CASE Load
    <2>1. ASSUME NEW i \in DOMAIN slices' PROVE slices'[i].curl # "live" \/ UNCHANGED slices
      <3>1. CASE slices' = LoadedSlices(index)
        BY <2>1, <3>1 DEF LoadedSlices, NewSlice
      <3>2. CASE slices' = MakeSlices(origin, AcceptRanges[src])
        <4>1. origin \in Nat \ {0}
          BY <1>6, ReportedType DEF Load, Smooth, KnownSizes, FileInv, SizeInv, TypeInv, TypeOK
        <4>2. PICK b \in Nat : \E e \in b..origin - 1 :
                MakeSlices(origin, AcceptRanges[src])[i] = NewSlice(b, e, 0)
          BY <2>1, <3>2, <4>1, MadeRanges
        <4> QED BY <3>2, <4>2 DEF NewSlice
      <3> QED BY <1>6, <3>1, <3>2 DEF Load, CreateFails
    <2> QED BY <2>1, <1>3 DEF AsksForNew
  <1>7. CASE FlushSlice
    <2>1. CASE UNCHANGED slices
      BY <1>3, <2>1
    <2>2. ASSUME NEW w, slices' = [slices EXCEPT ![cur] = FlushToDisk(slices[cur], w)],
                 cur \in DOMAIN slices
          PROVE  AsksForNew
      <3>1. FlushToDisk(slices[cur], w).curl = slices[cur].curl
        BY <1>1, <2>2 DEF FlushToDisk, SliceRecord
      <3> QED BY <2>2, <3>1, OneQuiet
    <2> QED BY <1>7, <2>1, <2>2 DEF FlushSlice
  <1>8. CASE UpdateSliceStatus
    <2> DEFINE changed(i) == [slices[i] EXCEPT !.status = StatusAfter(slices[i]),
                                !.failed = IF StatusAfter(slices[i]) = "DOWNLOAD_FAILED"
                                           THEN @ + 1 ELSE @]
    <2>1. CASE UNCHANGED slices
      BY <1>3, <2>1
    <2>2. ASSUME NEW i \in Done, NEW w, slices' = [slices EXCEPT ![i] = Stopped(changed(i), w)]
          PROVE  AsksForNew
      <3>1. i \in DOMAIN slices /\ slices[i] \in SliceRecord
        BY <1>1 DEF Done
      <3>2. Stopped(changed(i), w).curl = "none"
        BY <3>1 DEF Stopped, SliceRecord
      <3> QED BY <2>2, <3>2, OneQuiet
    <2> QED BY <1>8, <2>1, <2>2 DEF UpdateSliceStatus
  <1>9. CASE StopSlice
    <2>1. CASE UNCHANGED slices
      BY <1>3, <2>1
    <2>2. ASSUME NEW w, slices' = [slices EXCEPT ![cur] = Stopped(slices[cur], w)],
                 cur \in DOMAIN slices
          PROVE  AsksForNew
      <3>1. Stopped(slices[cur], w).curl # "live"
        BY <1>1, <2>2 DEF Stopped, SliceRecord
      <3> QED BY <2>2, <3>1, OneQuiet
    <2> QED BY <1>9, <2>1, <2>2 DEF StopSlice
  <1>10. CASE ScheduleNone
    <2>1. CASE \E i : slices' = [slices EXCEPT ![i].status = "DOWNLOAD_COMPLETED"]
      <3>1. PICK i : slices' = [slices EXCEPT ![i] = [slices[i] EXCEPT !.status = "DOWNLOAD_COMPLETED"]]
        BY <2>1
      <3>2. CASE i \in DOMAIN slices
        <4>1. [slices[i] EXCEPT !.status = "DOWNLOAD_COMPLETED"].curl = slices[i].curl
          BY <1>1, <3>2 DEF SliceRecord
        <4> QED BY <3>1, <4>1, OneQuiet
      <3>3. CASE i \notin DOMAIN slices
        BY <3>1, <3>3 DEF AsksForNew
      <3> QED BY <3>2, <3>3
    <2> QED BY <1>3, <1>10, <2>1 DEF ScheduleNone
  <1>11. ASSUME NEW i \in DOMAIN slices, Deliver(i)
         PROVE  AsksForNew
    <2>1. slices[i].curl = "live"
      BY <1>11 DEF Deliver, Live
    <2>2. \E v : slices' = [slices EXCEPT ![i] = v]
      BY <1>11 DEF Deliver
    <2> QED BY <2>1, <2>2, OneQuiet
  <1>12. ASSUME NEW i \in DOMAIN slices, TransferEnd(i)
         PROVE  AsksForNew
    <2>1. slices[i].curl = "live"
      BY <1>12 DEF TransferEnd, Live
    <2>2. \E v : slices' = [slices EXCEPT ![i] = v]
      BY <1>12 DEF TransferEnd
    <2> QED BY <2>1, <2>2, OneQuiet
  <1> QED BY <1>4, <1>5, <1>6, <1>7, <1>8, <1>9, <1>10, <1>11, <1>12
           DEF Next, Worker, User, Network

(* A byte that is in the temporary file is not asked for again, in the same  *)
(* session or a later one, however often the download is stopped, paused and *)
(* started again (the capacities of the index, Slice::start's range).        *)
THEOREM NothingAskedTwice == Smooth => (Spec => NothingRefetched)
  <1> SUFFICES ASSUME Smooth PROVE Spec => NothingRefetched
    OBVIOUS
  <1> DEFINE Inv == OrderlyInv /\ PartsInv /\ GoneInv /\ OnceInv
  <1>1. Orderly /\ Environment /\ KnownSizes
    BY DEF Smooth, Orderly
  <1>2. Init => Inv
    BY <1>1, OrderlyInvariant, InitParts, InitOnce DEF Init, GoneInv
  <1>3. Inv /\ [Next]_vars => Inv'
    <2> SUFFICES ASSUME Inv, [Next]_vars PROVE Inv'
      OBVIOUS
    <2>1. OrderlyInv' /\ orphan' # "used"
      BY <1>1, OrderlyInvariant
    <2> QED BY <1>1, <2>1, NextParts, NextGone, NextOnce DEF OrderlyInv
  <1>4. Inv /\ Inv' /\ [Next]_vars => [AsksForNew]_vars
    BY NextAsks DEF OrderlyInv
  <1> HIDE DEF Inv
  <1> QED BY <1>2, <1>3, <1>4, PTL DEF Spec, NothingRefetched, AsksForNew
===============================================================================
