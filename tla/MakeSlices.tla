----------------------------- MODULE MakeSlices -----------------------------
(***************************************************************************)
(* The loop of SliceManager::makeSlices that cuts a resource of known size *)
(* into slices (src/slice_manager.cpp), step by step, for every size and   *)
(* every slice policy.  SliceManager has the ranges in closed form.        *)
(***************************************************************************)
EXTENDS Integers, Sequences

CONSTANTS
  FileSizes,     \* the sizes a server may report
  PolicyValues,  \* the values the user may give with a policy
  DefaultSize    \* ZOE_DEFAULT_FIXED_SLICE_SIZE_BYTE

ASSUME MakeSlicesAssumption ==
  /\ FileSizes \subseteq Nat \ {0}
  /\ PolicyValues \subseteq Nat \ {0}
  /\ DefaultSize \in Nat \ {0}

VARIABLES
  origin_file_size, slice_policy, slice_policy_value,  \* never change
  slice_size,   \* the size of every slice but the last
  slice_index,  \* slices made so far
  cur_begin,    \* where the next one begins
  slices,       \* the ranges made so far
  done          \* the loop is over, or was never entered

vars == <<origin_file_size, slice_policy, slice_policy_value, slice_size,
          slice_index, cur_begin, slices, done>>

(* Mutant: one byte is left for the remainder. *)
SliceSizeLessOne(n, policy, value) ==
  CASE policy = "FixedSize" -> value
    [] policy = "FixedNum"  -> n \div value - 1
    [] policy = "Auto"      -> IF 2 * n <= 3 * DefaultSize THEN n ELSE DefaultSize

\* How long a slice of a resource of n bytes is, under a policy and its value.
SliceSizeFor(n, policy, value) ==
  CASE policy = "FixedSize" -> value
    [] policy = "FixedNum"  -> IF value > 0 THEN n \div value ELSE 0
    [] policy = "Auto"      -> IF 2 * n <= 3 * DefaultSize THEN n ELSE DefaultSize

Init ==
  /\ origin_file_size \in FileSizes
  /\ slice_policy \in {"Auto", "FixedSize", "FixedNum"}
  /\ slice_policy_value \in PolicyValues
  /\ slice_size = SliceSizeFor(origin_file_size, slice_policy, slice_policy_value)
  /\ slice_index = 0 /\ cur_begin = 0 /\ slices = <<>>
  /\ done = (slice_size = 0)

Min2(x, y) == IF x <= y THEN x ELSE y

(* Mutant: the remainder behind the last of a fixed number is not taken. *)
CurEndNoRemainder(index) == Min2(cur_begin + slice_size - 1, origin_file_size - 1)

(* cur_end of slice number index: "final slice contains all of remainder    *)
(* space".                                                                  *)
CurEnd(index) ==
  IF slice_policy = "FixedNum" /\ index = slice_policy_value
  THEN origin_file_size - 1
  ELSE Min2(cur_begin + slice_size - 1, origin_file_size - 1)

(* Mutant: the next slice begins with the last byte of this one. *)
MakeSliceOverlapping ==
  LET cur_end == CurEnd(slice_index + 1) IN
  /\ ~done
  /\ slice_index' = slice_index + 1
  /\ slices' = Append(slices, [begin |-> cur_begin, end |-> cur_end])
  /\ cur_begin' = IF slice_size > 1 THEN cur_end ELSE cur_end + 1
  /\ done' = (cur_end = origin_file_size - 1)
  /\ UNCHANGED <<origin_file_size, slice_policy, slice_policy_value, slice_size>>

(* Mutant: a slice that would be short is passed over, and met again. *)
MakeSliceSkipping ==
  LET cur_end == CurEnd(slice_index + 1) IN
  /\ ~done
  /\ IF cur_end - cur_begin + 1 < slice_size THEN UNCHANGED vars
     ELSE /\ slice_index' = slice_index + 1
          /\ slices' = Append(slices, [begin |-> cur_begin, end |-> cur_end])
          /\ cur_begin' = cur_end + 1
          /\ done' = (cur_end = origin_file_size - 1)
          /\ UNCHANGED <<origin_file_size, slice_policy, slice_policy_value,
                         slice_size>>

(* One iteration of the do-while loop. *)
MakeSlice ==
  LET cur_end == CurEnd(slice_index + 1) IN
  /\ ~done
  /\ slice_index' = slice_index + 1
  /\ slices' = Append(slices, [begin |-> cur_begin, end |-> cur_end])
  /\ cur_begin' = cur_end + 1
  /\ done' = (cur_end = origin_file_size - 1)
  /\ UNCHANGED <<origin_file_size, slice_policy, slice_policy_value, slice_size>>

\* makeSlices has returned.
Returned == done /\ UNCHANGED vars

Next == MakeSlice \/ Returned

Spec == Init /\ [][Next]_vars

FairSpec == Spec /\ WF_vars(MakeSlice)

-----------------------------------------------------------------------------
(* Properties. *)

Range == [begin : Nat, end : Nat]

(* Every variable has its type. *)
TypeOK ==
  /\ origin_file_size \in FileSizes
  /\ slice_policy \in {"Auto", "FixedSize", "FixedNum"}
  /\ slice_policy_value \in PolicyValues
  /\ slice_size \in Nat
  /\ slice_index \in Nat
  /\ cur_begin \in Nat
  /\ slices \in Seq(Range)
  /\ done \in BOOLEAN

(* The slices made so far lie end to end from byte 0 on: none is empty, none *)
(* overlaps the one before it, none leaves a gap.                            *)
EndToEnd ==
  /\ slices # <<>> => slices[1].begin = 0
  /\ \A i \in 1..Len(slices) : slices[i].begin <= slices[i].end
  /\ \A i \in 1..Len(slices) - 1 : slices[i + 1].begin = slices[i].end + 1

(* When the loop is over the slices are exactly the resource: they lie end   *)
(* to end and the last one ends with the last byte.                          *)
Partition ==
  (done /\ slices # <<>>) =>
    /\ EndToEnd
    /\ slices[Len(slices)].end = origin_file_size - 1

(* A resource with at least as many bytes as the user asked for slices is    *)
(* cut into that many.                                                       *)
FixedNumCount ==
  (done /\ slice_policy = "FixedNum" /\ slice_policy_value <= origin_file_size)
    => Len(slices) = slice_policy_value

(* The loop ends. *)
Terminates == <>done
=============================================================================
