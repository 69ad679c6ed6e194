------------------------------ MODULE FileHash ------------------------------
(***************************************************************************)
(* The hash of a file (src/md5.cpp, src/sha256.cpp): chunks of the file    *)
(* are read, cut into blocks whatever their lengths are, and the end is    *)
(* padded with its length.  What MD5Transform and sha256_transform compute *)
(* of a block is left out; what they are given, in which order, is all     *)
(* that this code has to get right.  CRC-32 has no blocks: its loop over   *)
(* the file is the one here.                                               *)
(*                                                                         *)
(* Byte k of the file is the number k.                                     *)
(***************************************************************************)
EXTENDS Integers, Sequences

CONSTANTS
  Algorithms,  \* of "MD5" and "SHA256"
  BlockSize,   \* 64 in the code
  LengthSize,  \* bytes of the length at the end of the padding, 8 in the code
  Word,        \* a counter is a number modulo Word, 2^32 in the code
  ReadSize,    \* what fread is asked for, 1024 in the code
  MaxSize      \* bound: bytes of the file

ASSUME FileHashAssumption ==
  /\ Algorithms \subseteq {"MD5", "SHA256"}
  /\ BlockSize \in Nat /\ LengthSize \in 1..BlockSize - 1
  /\ Word \in Nat /\ Word % (8 * BlockSize) = 0 /\ Word > 0
  /\ ReadSize \in 1..Word - 1 /\ MaxSize \in Nat

VARIABLES
  alg,     \* which of the algorithms
  size,    \* bytes of the file
  at,      \* where the code is
  read,    \* bytes read so far
  data,    \* what is left of the chunk
  buffer,  \* in of MD5Context, the first index bytes of block of sha256_ctx
  low,     \* bytes[0] of MD5Context, count_low of sha256_ctx
  high,    \* bytes[1] of MD5Context, count_high of sha256_ctx
  fed,     \* the bytes of all blocks that were transformed
  bits,    \* the length the last block ends with
  stop,    \* a stop is requested
  ret      \* what the caller gets

vars == <<alg, size, at, read, data, buffer, low, high, fed, bits, stop, ret>>

Mark == -1    \* the byte 0x80 that ends the message
Zero == 0
Zeros(n) == [k \in 1..n |-> Zero]

\* MD5Init, sha256_init
Init ==
  /\ alg \in Algorithms /\ size \in 0..MaxSize
  /\ at = "read" /\ read = 0 /\ data = <<>> /\ buffer = <<>>
  /\ low = 0 /\ high = 0 /\ fed = <<>> /\ bits = <<>>
  /\ stop = FALSE /\ ret = "none"

\* A counter of two words goes up by n.
Count(n) ==
  /\ low' = (low + n) % Word
  /\ high' = IF low + n >= Word THEN (high + 1) % Word ELSE high

-----------------------------------------------------------------------------
\* The loop of CalculateFileMd5 and CalculateFileSHA256: fread gives n bytes.
Read(n) ==
  /\ at = "read"
  /\ IF stop
     THEN at' = "done" /\ ret' = "CANCELED" /\ UNCHANGED <<read, data>>
     ELSE /\ at' = "fill" /\ read' = read + n
          /\ data' = [k \in 1..n |-> read + k] /\ UNCHANGED ret
  /\ UNCHANGED <<alg, size, buffer, low, high, fed, bits, stop>>

\* fread gives nothing: at the end of the file, or when it cannot be read.
ReadEnds ==
  /\ at = "read" /\ at' = "pad"
  /\ UNCHANGED <<alg, size, read, data, buffer, low, high, fed, bits, stop, ret>>

(* Mutant: MD5 keeps a block that has just become full. *)
FillNotFull ==
  LET held  == IF alg = "MD5" THEN low % BlockSize ELSE Len(buffer)
      space == BlockSize - held
      first == IF space <= Len(data) THEN space ELSE Len(data)
      begun == SubSeq(buffer, 1, held) \o SubSeq(data, 1, first)
  IN
  /\ at = "fill"
  /\ \/ /\ Len(data) <= space
        /\ buffer' = begun /\ data' = <<>> /\ at' = "read"
        /\ IF alg = "MD5" THEN Count(Len(data)) ELSE UNCHANGED <<low, high>>
        /\ UNCHANGED fed
     \/ /\ Len(data) > space /\ (alg = "MD5" \/ held > 0)
        /\ fed' = fed \o begun /\ buffer' = <<>>
        /\ data' = SubSeq(data, first + 1, Len(data)) /\ at' = "whole"
        /\ Count(IF alg = "MD5" THEN Len(data) ELSE 1)
     \/ /\ alg = "SHA256" /\ held = 0 /\ Len(data) > space
        /\ at' = "whole" /\ UNCHANGED <<fed, buffer, data, low, high>>
  /\ UNCHANGED <<alg, size, read, bits, stop, ret>>

(* MD5Update and sha256_update begin: what an earlier chunk left over is     *)
(* filled up to a block.  MD5 counts bytes and finds the place in the block  *)
(* from the count; SHA-256 counts blocks, and has an index.                  *)
Fill ==
  LET held  == IF alg = "MD5" THEN low % BlockSize ELSE Len(buffer)
      space == BlockSize - held
      first == IF space <= Len(data) THEN space ELSE Len(data)
      begun == SubSeq(buffer, 1, held) \o SubSeq(data, 1, first)
  IN
  /\ at = "fill"
  /\ \/ /\ Len(data) < space /\ (alg = "MD5" \/ held > 0)
        /\ buffer' = begun /\ data' = <<>> /\ at' = "read"
        /\ IF alg = "MD5" THEN Count(Len(data)) ELSE UNCHANGED <<low, high>>
        /\ UNCHANGED fed
     \/ /\ Len(data) >= space /\ (alg = "MD5" \/ held > 0)
        /\ fed' = fed \o begun /\ buffer' = <<>>
        /\ data' = SubSeq(data, first + 1, Len(data)) /\ at' = "whole"
        /\ Count(IF alg = "MD5" THEN Len(data) ELSE 1)
     \/ /\ alg = "SHA256" /\ held = 0
        /\ at' = "whole" /\ UNCHANGED <<fed, buffer, data, low, high>>
  /\ UNCHANGED <<alg, size, read, bits, stop, ret>>

(* Whole blocks from the chunk, then the rest of it is kept. *)
Whole ==
  /\ at = "whole"
  /\ \/ /\ Len(data) >= BlockSize
        /\ fed' = fed \o SubSeq(data, 1, BlockSize)
        /\ data' = SubSeq(data, BlockSize + 1, Len(data))
        /\ IF alg = "SHA256" THEN Count(1) ELSE UNCHANGED <<low, high>>
        /\ UNCHANGED <<at, buffer>>
     \/ /\ Len(data) < BlockSize
        /\ buffer' = data /\ data' = <<>> /\ at' = "read"
        /\ UNCHANGED <<fed, low, high>>
  /\ UNCHANGED <<alg, size, read, bits, stop, ret>>

(* Mutant: the mark is forgotten when the room is counted. *)
RoomWithoutMark == Len(buffer) <= BlockSize - LengthSize

\* The mark and the length still fit into the block that was begun.
Room == Len(buffer) < BlockSize - LengthSize

(* The length in bits, its low word first.  Shifted parts do not overlap, so *)
(* + stands for |.                                                           *)
LengthInBits ==
  IF alg = "MD5"
  THEN <<(8 * low) % Word, ((8 * high) % Word) + low \div (Word \div 8)>>
  ELSE <<((8 * BlockSize * low) % Word) + 8 * Len(buffer),
         ((8 * BlockSize * high) % Word) + low \div (Word \div (8 * BlockSize))>>

(* MD5Final and sha256_final: the mark, zeros up to the length, in a block   *)
(* of its own when there is no room, and the length.                         *)
Pad ==
  LET zeros == BlockSize - LengthSize - 1 - Len(buffer) IN
  /\ at = "pad"
  /\ fed' = fed \o buffer \o <<Mark>>
              \o Zeros(IF Room THEN zeros ELSE zeros + BlockSize)
  /\ bits' = LengthInBits
  /\ at' = "done" /\ ret' = "SUCCESSED"
  /\ UNCHANGED <<alg, size, read, data, buffer, low, high, stop>>

\* internal_stop_event or the event of the user is set, by another thread.
RequestStop ==
  /\ ~stop /\ stop' = TRUE
  /\ UNCHANGED <<alg, size, at, read, data, buffer, low, high, fed, bits, ret>>

Done == at = "done" /\ UNCHANGED vars

Next ==
  \/ \E n \in 1..ReadSize : read + n <= size /\ Read(n)
  \/ ReadEnds \/ Fill \/ Whole \/ Pad \/ RequestStop \/ Done

Spec == Init /\ [][Next]_vars

-----------------------------------------------------------------------------
(* Properties. *)

\* Every variable has its type; what is kept is less than a block.
TypeOK ==
  /\ alg \in Algorithms /\ size \in 0..MaxSize
  /\ at \in {"read", "fill", "whole", "pad", "done"}
  /\ read \in 0..size
  /\ data \in Seq(1..MaxSize) /\ Len(data) <= ReadSize
  /\ buffer \in Seq(1..MaxSize) /\ Len(buffer) < BlockSize
  /\ low \in 0..Word - 1 /\ high \in 0..Word - 1
  /\ fed \in Seq((1..MaxSize) \cup {Mark, Zero})
  /\ bits \in Seq(0..Word - 1)
  /\ stop \in BOOLEAN /\ ret \in {"none", "SUCCESSED", "CANCELED"}

(* The reference: a message of n bytes, padded: the mark, the fewest zeros   *)
(* that make room for the length at the end of a block, and the length.      *)
PaddedLength(n) ==
  CHOOSE m \in n + 1..n + BlockSize + LengthSize :
    /\ (m + LengthSize) % BlockSize = 0
    /\ \A k \in n + 1..m - 1 : (k + LengthSize) % BlockSize # 0

Padded(n) ==
  [k \in 1..PaddedLength(n) |-> IF k <= n THEN k ELSE IF k = n + 1 THEN Mark ELSE Zero]

(* Whatever chunks a file comes in, the transformation is given exactly the  *)
(* bytes that were read, in order, and their padding; and the length is      *)
(* right though counters wrap.  Two sessions that read the same bytes        *)
(* compare the same hash.                                                    *)
FedIsPadded ==
  ret = "SUCCESSED" =>
    /\ fed = Padded(read)
    /\ bits = <<(8 * read) % Word, ((8 * read) \div Word) % Word>>
=============================================================================
