----------------------------- MODULE TargetFile -----------------------------
(***************************************************************************)
(* The files of a download: the temporary file that slices are written     *)
(* into, and the target file it is renamed to (src/target_file.cpp,        *)
(* src/file_util.cpp).                                                     *)
(*                                                                         *)
(* A file is the sequence of its bytes; the byte at offset k is element    *)
(* k+1.  A byte is abstracted to where it came from: <<c, k>> is the k-th  *)
(* byte of content c, and Hole is a byte that was allocated and never      *)
(* written.                                                                *)
(***************************************************************************)
EXTENDS Integers, Sequences

CONSTANTS
  Contents,     \* what the servers hold: one value per version of a resource
  SizeOf,       \* its length in bytes, a function on Contents
  Junk,         \* stands for the body of an error page
  Hole,         \* a byte of the file that no write has reached
  NoFile,       \* no file has this path
  Platform      \* the branch of the #if in file_util.cpp that was compiled

ASSUME ContentsAssumption ==
  /\ Contents # {}
  /\ SizeOf \in [Contents -> Nat]
  /\ Junk \notin Contents
  /\ Platform \in {"windows", "macos", "linux"}

Byte == ((Contents \cup {Junk}) \X (Nat \ {0})) \cup {Hole}

File == Seq(Byte)

ASSUME FileAssumption ==
  /\ NoFile \notin File
  /\ Hole \notin (Contents \cup {Junk}) \X (Nat \ {0})

\* The bytes of content c: what a download of it must leave in the target.
BytesOf(c) == [k \in 1..SizeOf[c] |-> <<c, k>>]

Larger(a, b) == IF a >= b THEN a ELSE b

-----------------------------------------------------------------------------
(* CreateFixedSizeFile on a path that holds old.  Windows moves the end of  *)
(* file to n.  macOS truncates when n > 0.  The third branch opens with     *)
(* O_CREAT alone and calls fallocate, which extends and never shortens.     *)
CreateFixedSizeFile(old, n) ==
  LET kept == IF old = NoFile THEN <<>> ELSE old
      cuts == Platform = "windows" \/ (Platform = "macos" /\ n > 0)
      size == IF cuts THEN n ELSE Larger(n, Len(kept))
  IN  [k \in 1..size |-> IF k <= Len(kept) THEN kept[k] ELSE Hole]

(* Mutant: the position is not sought, every write begins at the start. *)
WriteUnsought(f, pos, bytes) ==
  [k \in 1..Larger(Len(f), Len(bytes)) |->
     IF k <= Len(bytes) THEN bytes[k] ELSE f[k]]

(* TargetFile::write of bytes at offset pos: the gap before pos, if the     *)
(* file is shorter, becomes holes.                                          *)
Write(f, pos, bytes) ==
  LET end == pos + Len(bytes)
  IN  IF bytes = <<>> THEN f
      ELSE [k \in 1..Larger(Len(f), end) |->
              IF k > pos /\ k <= end THEN bytes[k - pos]
              ELSE IF k <= Len(f) THEN f[k] ELSE Hole]
=============================================================================
