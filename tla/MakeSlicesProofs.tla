-------------------------- MODULE MakeSlicesProofs --------------------------
(* Proofs about MakeSlices, for every set of sizes and of policy values:     *)
(* what the loop makes, and that SliceManager's closed form is the same.     *)
EXTENDS MCMakeSlices, TLAPS

\* The quotient of a division that has one: at least 1, and no more than fits.
LEMMA Quotient ==
  ASSUME NEW n \in Nat, NEW v \in Nat, v > 0, v <= n
  PROVE  /\ n \div v \in Nat
         /\ n \div v >= 1
         /\ v * (n \div v) <= n
  OBVIOUS

\* Multiples of s grow with the factor.
LEMMA NextMultiple ==
  ASSUME NEW i \in Nat, NEW v \in Nat, NEW s \in Nat, i + 1 < v
  PROVE  /\ (i + 1) * s = i * s + s
         /\ (i + 1) * s + s <= v * s
  <1>1. (i + 1) * s = i * s + s
    OBVIOUS
  <1>2. PICK d \in Nat : v = i + 2 + d
    <2>1. v - (i + 2) \in Nat /\ v = i + 2 + (v - (i + 2))
      OBVIOUS
    <2> QED BY <2>1
  <1>3. v * s = i * s + s + s + d * s
    BY <1>2
  <1>4. d * s \in Nat
    BY <1>2
  <1> QED BY <1>1, <1>3, <1>4

-----------------------------------------------------------------------------
(* The ranges partition the resource. *)

(* What the loop keeps: the ranges made lie end to end up to cur_begin, and  *)
(* it goes on exactly while bytes are left.  Partition alone does not say    *)
(* where the next range begins, so a step could not be shown to keep it.     *)
Inv ==
  /\ TypeOK
  /\ EndToEnd
  /\ slices = <<>> => cur_begin = 0
  /\ slices # <<>> => slices[Len(slices)].end = cur_begin - 1
  /\ ~done => slice_size > 0 /\ cur_begin < origin_file_size
  /\ done /\ slices # <<>> => cur_begin = origin_file_size

LEMMA InitInv == Init => Inv
  <1> SUFFICES ASSUME Init PROVE Inv
    OBVIOUS
  <1> USE MakeSlicesAssumption
  <1>1. origin_file_size \in Nat \ {0} /\ slice_policy_value \in Nat \ {0}
    BY DEF Init
  <1>2. slice_size \in Nat
    <2>1. CASE slice_policy = "FixedSize"
      BY <1>1, <2>1 DEF Init, SliceSizeFor
    <2>2. CASE slice_policy = "FixedNum"
      <3>1. origin_file_size \div slice_policy_value \in Nat
        BY <1>1
      <3> QED BY <1>1, <2>2, <3>1 DEF Init, SliceSizeFor
    <2>3. CASE slice_policy = "Auto"
      BY <1>1, <2>3 DEF Init, SliceSizeFor
    <2> QED BY <2>1, <2>2, <2>3 DEF Init
  <1>3. TypeOK
    BY <1>2 DEF Init, TypeOK, Range
  <1>4. EndToEnd
    BY DEF Init, EndToEnd
  <1>5. slices = <<>> /\ cur_begin = 0 /\ (done <=> slice_size = 0)
    BY DEF Init
  <1>6. ~done => slice_size > 0 /\ cur_begin < origin_file_size
    BY <1>1, <1>2, <1>5
  <1> QED BY <1>3, <1>4, <1>5, <1>6, Zenon DEF Inv

\* Where a range ends: not before it begins, not behind the resource.
LEMMA CurEndInRange ==
  ASSUME Inv, ~done, NEW index
  PROVE  CurEnd(index) \in cur_begin .. origin_file_size - 1
  BY MakeSlicesAssumption DEF Inv, TypeOK, CurEnd, Min2

LEMMA StepInv == Inv /\ [Next]_vars => Inv'
  <1> SUFFICES ASSUME Inv, [Next]_vars PROVE Inv'
    OBVIOUS
  <1>1. CASE MakeSlice
    <2> DEFINE e == CurEnd(slice_index + 1)
               new == [begin |-> cur_begin, end |-> e]
               n == Len(slices)
    <2>1. e \in cur_begin .. origin_file_size - 1 /\ cur_begin \in Nat
          /\ origin_file_size \in Nat /\ e \in Nat
      BY <1>1, CurEndInRange, MakeSlicesAssumption DEF MakeSlice, Inv, TypeOK
    <2>2. /\ slices' = Append(slices, new)
          /\ cur_begin' = e + 1
          /\ done' = (e = origin_file_size - 1)
          /\ UNCHANGED <<origin_file_size, slice_policy, slice_policy_value, slice_size>>
          /\ slice_index' = slice_index + 1
          /\ slice_size > 0
      BY <1>1 DEF MakeSlice, Inv
    <2> HIDE DEF e
    <2>3. new \in Range
      BY <2>1 DEF Range
    <2>4. slices \in Seq(Range) /\ n \in Nat
      BY DEF Inv, TypeOK
    <2>5. /\ slices' \in Seq(Range) /\ Len(slices') = n + 1
          /\ slices'[n + 1] = new
          /\ \A i \in 1..n : slices'[i] = slices[i]
      BY <2>2, <2>3, <2>4
    <2>6. TypeOK'
      BY <2>1, <2>2, <2>5 DEF Inv, TypeOK
    <2>7. slices'[1].begin = 0
      <3>1. CASE n = 0
        BY <2>4, <2>5, <3>1 DEF Inv
      <3>2. CASE n # 0
        BY <2>4, <2>5, <3>2 DEF Inv, EndToEnd
      <3> QED BY <3>1, <3>2
    <2>8. ASSUME NEW i \in 1..Len(slices') PROVE slices'[i].begin <= slices'[i].end
      <3>1. CASE i = n + 1
        BY <2>1, <2>5, <3>1
      <3>2. CASE i # n + 1
        BY <2>4, <2>5, <3>2 DEF Inv, EndToEnd
      <3> QED BY <3>1, <3>2
    <2>9. ASSUME NEW i \in 1..Len(slices') - 1
          PROVE  slices'[i + 1].begin = slices'[i].end + 1
      <3>1. CASE i = n
        <4>1. n # 0 /\ slices[n].end = cur_begin - 1
          BY <2>4, <2>5, <3>1 DEF Inv
        <4> QED BY <2>1, <2>4, <2>5, <3>1, <4>1
      <3>2. CASE i # n
        BY <2>4, <2>5, <3>2 DEF Inv, EndToEnd
      <3> QED BY <3>1, <3>2
    <2>10. EndToEnd'
      BY <2>7, <2>8, <2>9 DEF EndToEnd
    <2>11. slices' # <<>>
      BY <2>4, <2>5
    <2>12. slices'[Len(slices')].end = cur_begin' - 1
      BY <2>1, <2>2, <2>4, <2>5
    <2>13. ~done' => slice_size' > 0 /\ cur_begin' < origin_file_size'
      <3>1. e # origin_file_size - 1 => e + 1 < origin_file_size
        BY <2>1
      <3> QED BY <2>2, <3>1, Zenon
    <2>14. done' => cur_begin' = origin_file_size'
      <3>1. e = origin_file_size - 1 => e + 1 = origin_file_size
        BY <2>1
      <3> QED BY <2>2, <3>1, Zenon
    <2> QED BY <2>6, <2>10, <2>11, <2>12, <2>13, <2>14, Zenon DEF Inv
  <1>2. CASE UNCHANGED vars
    BY <1>2 DEF vars, Inv, TypeOK, EndToEnd
  <1> QED BY <1>1, <1>2 DEF Next, Returned

\* Every variable keeps its type.
THEOREM TypeCorrect == Spec => []TypeOK
  <1>1. Inv => TypeOK
    BY DEF Inv
  <1> QED BY <1>1, InitInv, StepInv, PTL DEF Spec

(* Whatever the size and the policy, the slices that makeSlices has made     *)
(* when its loop ends are the whole resource, end to end: no byte is fetched *)
(* by two slices and none is left out.                                       *)
THEOREM SlicesPartition == Spec => []Partition
  <1>1. Inv => Partition
    BY MakeSlicesAssumption DEF Inv, TypeOK, Partition, Range
  <1> QED BY <1>1, InitInv, StepInv, PTL DEF Spec

-----------------------------------------------------------------------------
(* The number of slices under FixedNum. *)

(* While the loop of a FixedNum download runs it has made whole slices only, *)
(* fewer than asked for: so the last one is made by number, not by chance.   *)
CountInv ==
  (slice_policy = "FixedNum" /\ slice_policy_value <= origin_file_size) =>
    /\ slice_size >= 1
    /\ slice_policy_value * slice_size <= origin_file_size
    /\ slice_index = Len(slices)
    /\ ~done => slice_index < slice_policy_value /\ cur_begin = slice_index * slice_size
    /\ done => slice_index = slice_policy_value

LEMMA InitCount == Init => CountInv
  <1> SUFFICES ASSUME Init, slice_policy = "FixedNum",
                      slice_policy_value <= origin_file_size
               PROVE  /\ slice_size >= 1
                      /\ slice_policy_value * slice_size <= origin_file_size
                      /\ slice_index = Len(slices)
                      /\ ~done /\ slice_index < slice_policy_value
                      /\ cur_begin = slice_index * slice_size
    BY Zenon DEF CountInv
  <1>1. origin_file_size \in Nat \ {0} /\ slice_policy_value \in Nat \ {0}
    BY MakeSlicesAssumption DEF Init
  <1>2. slice_size = origin_file_size \div slice_policy_value
    BY <1>1 DEF Init, SliceSizeFor
  <1>3. /\ slice_size \in Nat /\ slice_size >= 1
        /\ slice_policy_value * slice_size <= origin_file_size
    BY <1>1, <1>2, Quotient
  <1>4. ~done
    <2>1. slice_size # 0
      BY <1>3
    <2> QED BY <2>1, Zenon DEF Init
  <1> QED BY <1>1, <1>3, <1>4 DEF Init

LEMMA StepCount == Inv /\ CountInv /\ [Next]_vars => CountInv'
  <1> SUFFICES ASSUME Inv, CountInv, [Next]_vars PROVE CountInv'
    OBVIOUS
  <1>1. CASE MakeSlice
    <2> SUFFICES ASSUME slice_policy = "FixedNum",
                        slice_policy_value <= origin_file_size
                 PROVE  /\ slice_size >= 1
                        /\ slice_policy_value * slice_size <= origin_file_size
                        /\ slice_index' = Len(slices')
                        /\ ~done' => /\ slice_index' < slice_policy_value
                                     /\ cur_begin' = slice_index' * slice_size
                        /\ done' => slice_index' = slice_policy_value
      BY <1>1 DEF MakeSlice, CountInv
    <2> DEFINE i == slice_index
               v == slice_policy_value
               s == slice_size
               n == origin_file_size
               e == CurEnd(i + 1)
    <2>1. /\ i \in Nat /\ v \in Nat /\ s \in Nat /\ n \in Nat
          /\ slices \in Seq(Range)
      BY MakeSlicesAssumption DEF Inv, TypeOK
    <2>2. s >= 1 /\ v * s <= n /\ i < v /\ cur_begin = i * s /\ i = Len(slices)
      BY <1>1, Zenon DEF CountInv, MakeSlice
    <2>3. /\ i' = i + 1 /\ cur_begin' = e + 1 /\ (done' <=> e = n - 1)
          /\ slices' = Append(slices, [begin |-> cur_begin, end |-> e])
      BY <1>1 DEF MakeSlice
    <2>4. i' = Len(slices')
      BY <2>1, <2>2, <2>3
    <2>5. CASE i + 1 = v
      <3>1. e = n - 1
        BY <2>5 DEF CurEnd
      <3> QED BY <2>2, <2>3, <2>4, <2>5, <3>1, Zenon
    <2>6. CASE i + 1 # v
      <3>1. i + 1 < v
        BY <2>1, <2>2, <2>6
      <3>2. (i + 1) * s = i * s + s /\ (i + 1) * s + s <= v * s
        BY <2>1, <3>1, NextMultiple
      <3>3. i * s \in Nat /\ v * s \in Nat
        BY <2>1
      <3>4. i * s + s - 1 < n - 1
        BY <2>1, <2>2, <3>2, <3>3
      <3>5. e = i * s + s - 1
        BY <2>1, <2>2, <2>6, <3>3, <3>4 DEF CurEnd, Min2
      <3>6. e # n - 1 /\ e + 1 = (i + 1) * s
        BY <2>1, <3>2, <3>3, <3>4, <3>5
      <3> QED BY <2>2, <2>3, <2>4, <3>1, <3>6, Zenon
    <2> QED BY <2>5, <2>6
  <1>2. CASE UNCHANGED vars
    BY <1>2, Zenon DEF vars, CountInv
  <1> QED BY <1>1, <1>2 DEF Next, Returned

(* A resource with at least as many bytes as slices were asked for is cut    *)
(* into exactly that many, the last one taking the remainder.                *)
THEOREM FixedNumIsExact == Spec => []FixedNumCount
  <1>1. CountInv => FixedNumCount
    BY Zenon DEF CountInv, FixedNumCount
  <1> QED BY <1>1, InitInv, StepInv, InitCount, StepCount, PTL DEF Spec

-----------------------------------------------------------------------------
(* The closed form. *)

(* What the loop has made is what the closed form says, but for the last     *)
(* range of a loop that is over, which takes what is left.                   *)
ClosedInv ==
  LET n == origin_file_size
      s == slice_size
      m == Len(slices)
  IN
  /\ s = SliceSizeFor(n, slice_policy, slice_policy_value)
  /\ slice_policy = "FixedNum" /\ s > 0 => slice_policy_value <= n
  /\ slice_index = m
  /\ done => (s = 0 <=> m = 0)
  /\ ~done => cur_begin = m * s
  /\ \A i \in 1..m : /\ slices[i].begin = (i - 1) * s
                     /\ slices[i].end = IF done /\ i = m THEN n - 1 ELSE i * s - 1
  /\ done /\ s > 0 /\ slice_policy # "FixedNum" => n - 1 - (m - 1) * s \in 0..s - 1

\* Nothing is made in the beginning.
LEMMA InitClosed == Init => ClosedInv
  <1> SUFFICES ASSUME Init PROVE ClosedInv
    OBVIOUS
  <1>1. origin_file_size \in Nat \ {0} /\ slice_policy_value \in Nat \ {0} /\ slice_size \in Nat
    BY InitInv, MakeSlicesAssumption DEF Init, Inv, TypeOK
  <1>2. slices = <<>> /\ Len(slices) = 0 /\ slice_index = 0 /\ cur_begin = 0 /\ (done <=> slice_size = 0)
    BY DEF Init
  <1>3. slice_size = SliceSizeFor(origin_file_size, slice_policy, slice_policy_value)
    BY DEF Init
  <1>4. slice_policy = "FixedNum" /\ slice_size > 0 => slice_policy_value <= origin_file_size
    <2> SUFFICES ASSUME slice_policy = "FixedNum", slice_size > 0,
                        origin_file_size < slice_policy_value
                 PROVE  FALSE
      BY <1>1
    <2>1. slice_size = origin_file_size \div slice_policy_value
      BY <1>1, <1>3 DEF SliceSizeFor
    <2>2. origin_file_size \div slice_policy_value = 0
      BY <1>1
    <2> QED BY <2>1, <2>2
  <1> QED BY <1>1, <1>2, <1>3, <1>4 DEF ClosedInv

\* Every iteration makes the next range of the closed form.
LEMMA StepClosed ==
  Inv /\ CountInv /\ ClosedInv /\ [Next]_vars => ClosedInv'
  <1> SUFFICES ASSUME Inv, CountInv, ClosedInv, [Next]_vars PROVE ClosedInv'
    OBVIOUS
  <1>1. CASE MakeSlice
    <2> DEFINE n == origin_file_size
               s == slice_size
               m == Len(slices)
               e == CurEnd(slice_index + 1)
               new == [begin |-> cur_begin, end |-> e]
    <2>1. /\ n \in Nat \ {0} /\ s \in Nat \ {0} /\ slice_policy_value \in Nat \ {0}
          /\ slices \in Seq(Range) /\ m \in Nat /\ ~done
      BY <1>1, MakeSlicesAssumption DEF Inv, TypeOK, MakeSlice
    <2>2. /\ s = SliceSizeFor(n, slice_policy, slice_policy_value)
          /\ slice_policy = "FixedNum" => slice_policy_value <= n
          /\ slice_index = m /\ cur_begin = m * s
          /\ \A i \in 1..m : slices[i].begin = (i - 1) * s /\ slices[i].end = i * s - 1
      BY <2>1 DEF ClosedInv
    <2>3. /\ slice_index' = m + 1 /\ slices' = Append(slices, new) /\ cur_begin' = e + 1
          /\ (done' <=> e = n - 1)
          /\ UNCHANGED <<origin_file_size, slice_policy, slice_policy_value, slice_size>>
      BY <1>1, <2>2 DEF MakeSlice
    <2>4. e \in cur_begin .. n - 1
      BY <2>1, CurEndInRange
    <2>5. e # n - 1 => e = (m + 1) * s - 1
      <3>1. CASE slice_policy = "FixedNum"
        <4>1. CountInv'
          BY StepCount
        <4>2. e # n - 1 => e + 1 = (m + 1) * s
          BY <2>2, <2>3, <3>1, <4>1, Zenon DEF CountInv
        <4> QED BY <2>1, <2>2, <2>4, <4>2
      <3>2. CASE slice_policy # "FixedNum"
        <4>1. e = Min2(m * s + s - 1, n - 1)
          BY <2>2, <3>2 DEF CurEnd
        <4>2. (m + 1) * s = m * s + s
          BY <2>1
        <4>3. m * s \in Int /\ n \in Int /\ s \in Int
          BY <2>1
        <4> HIDE DEF e
        <4> QED BY <4>1, <4>2, <4>3 DEF Min2
      <3> QED BY <3>1, <3>2
    <2>6. e = n - 1 /\ slice_policy # "FixedNum" => n - 1 - m * s \in 0..s - 1
      <3> SUFFICES ASSUME e = n - 1, slice_policy # "FixedNum"
                   PROVE  n - 1 - m * s \in 0..s - 1
        OBVIOUS
      <3>1. n - 1 = Min2(m * s + s - 1, n - 1)
        BY <2>2 DEF CurEnd
      <3>2. m * s \in Nat
        BY <2>1
      <3>3. m * s <= n - 1
        BY <2>1, <2>2, <2>4, <3>2
      <3> HIDE DEF m, s
      <3> DEFINE p == m * s
      <3>4. p \in Nat /\ p <= n - 1 /\ n - 1 = Min2(p + s - 1, n - 1)
        BY <3>1, <3>2, <3>3
      <3> HIDE DEF p
      <3>5. n - 1 - p \in 0..s - 1
        BY <2>1, <3>4 DEF Min2
      <3> QED BY <3>5 DEF p
    <2> HIDE DEF e
    <2>7. /\ Len(slices') = m + 1 /\ slices'[m + 1] = new
          /\ \A i \in 1..m : slices'[i] = slices[i]
      BY <2>1, <2>3
    <2>8. ASSUME NEW i \in 1..m + 1
          PROVE  /\ slices'[i].begin = (i - 1) * s
                 /\ slices'[i].end = IF done' /\ i = m + 1 THEN n - 1 ELSE i * s - 1
      <3>1. CASE i = m + 1
        BY <2>1, <2>2, <2>3, <2>5, <2>7, <3>1
      <3>2. CASE i # m + 1
        <4>1. i \in 1..m
          BY <2>1, <3>2
        <4> QED BY <2>2, <2>7, <3>2, <4>1
      <3> QED BY <3>1, <3>2
    <2>9. ~done' => cur_begin' = (m + 1) * s
      <3>1. e \in Int
        BY <2>1, <2>2, <2>4
      <3>2. (m + 1) * s \in Int
        BY <2>1
      <3> QED BY <2>3, <2>5, <3>1, <3>2
    <2>10. done' /\ slice_policy # "FixedNum" => n - 1 - ((m + 1) - 1) * s \in 0..s - 1
      <3>1. (m + 1) - 1 = m
        BY <2>1
      <3> QED BY <2>3, <2>6, <3>1
    <2>11. done' => (s = 0 <=> m + 1 = 0)
      BY <2>1
    <2> QED BY <2>2, <2>3, <2>7, <2>8, <2>9, <2>10, <2>11 DEF ClosedInv
  <1>2. CASE UNCHANGED vars
    BY <1>2 DEF vars, ClosedInv
  <1> QED BY <1>1, <1>2 DEF Next, Returned

\* The bounds of a new slice are those it was given.
LEMMA NewBounds ==
  ASSUME NEW begin, NEW end
  PROVE  SM!NewSlice(begin, end, 0).begin = begin /\ SM!NewSlice(begin, end, 0).end = end
  BY DEF SM!NewSlice

\* Whole slices and a last one that is not longer.
LEMMA Ceiling ==
  ASSUME NEW n \in Nat, NEW s \in Nat \ {0}, NEW m \in Nat,
         n - 1 - (m - 1) * s \in 0..s - 1
  PROVE  (n + s - 1) \div s = m
  <1> DEFINE r == n - 1 - (m - 1) * s
  <1>1. (m - 1) * s = m * s - s /\ m * s \in Nat
    OBVIOUS
  <1>2. n + s - 1 = s * m + r
    BY <1>1
  <1>3. r \in 0..s - 1
    OBVIOUS
  <1> HIDE DEF r
  <1>4. (s * m + r) \div s = m
    <2> DEFINE q == (s * m + r) \div s
               t == (s * m + r) % s
    <2>1. q \in Int /\ t \in 0..s - 1 /\ s * m + r = s * q + t
      BY <1>3
    <2> HIDE DEF q, t
    <2>2. s * (q - m) = r - t /\ r - t < s /\ r - t > -s
      BY <1>3, <2>1
    <2>3. q - m = 0
      <3> DEFINE d == q - m
      <3>1. d \in Int /\ s * d < s /\ s * d > -s
        BY <2>1, <2>2
      <3> HIDE DEF d
      <3>2. ~ (d >= 1)
        <4>1. d >= 1 => s * d >= s
          BY <3>1
        <4> QED BY <3>1, <4>1
      <3>3. ~ (d <= -1)
        <4>1. d <= -1 => s * d <= -s
          BY <3>1
        <4> QED BY <3>1, <4>1
      <3> QED BY <3>1, <3>2, <3>3 DEF d
    <2> QED BY <2>1, <2>3 DEF q
  <1> QED BY <1>2, <1>4

(* The slices that SliceManager!MakeSlices gives in one step, and that every *)
(* theorem about a download speaks of, are those of the loop, for every size *)
(* and policy.                                                               *)
THEOREM ClosedFormOfLoop == Spec => []ClosedForm
  <1>1. Inv /\ CountInv /\ ClosedInv => ClosedForm
    <2> SUFFICES ASSUME Inv, CountInv, ClosedInv, done PROVE ClosedForm
      BY DEF ClosedForm
    <2> DEFINE n == origin_file_size
               s == slice_size
               m == Len(slices)
               made == SM!MakeSlices(n, TRUE)
               begin(i) == (i - 1) * s
               end(i) == IF i = m THEN n - 1 ELSE i * s - 1
    <2>1. /\ n \in Nat \ {0} /\ s \in Nat /\ slice_policy_value \in Nat \ {0}
          /\ slices \in Seq(Range) /\ m \in Nat /\ slice_policy \in {"Auto", "FixedSize", "FixedNum"}
      BY MakeSlicesAssumption DEF Inv, TypeOK
    <2>2. /\ s = SM!SliceSize(n)
          /\ slice_policy = "FixedNum" /\ s > 0 => slice_policy_value <= n
          /\ slice_index = m /\ (s = 0 <=> m = 0)
          /\ \A i \in 1..m : slices[i].begin = begin(i) /\ slices[i].end = end(i)
          /\ s > 0 /\ slice_policy # "FixedNum" => n - 1 - (m - 1) * s \in 0..s - 1
      BY DEF ClosedInv, SM!SliceSize, SliceSizeFor
    <2>3. SM!SliceNum(n) = m
      <3>1. CASE s = 0
        BY <2>2, <3>1 DEF SM!SliceNum
      <3>2. CASE s > 0 /\ slice_policy = "FixedNum"
        <4>1. slice_policy_value = m
          BY <2>2, <3>2, Zenon DEF CountInv
        <4> QED BY <2>2, <3>2, <4>1 DEF SM!SliceNum
      <3>3. CASE s > 0 /\ slice_policy # "FixedNum"
        <4>1. (n + s - 1) \div s = m
          <5>1. /\ n \in Nat /\ s \in Nat \ {0} /\ m \in Nat
                /\ n - 1 - (m - 1) * s \in 0..s - 1
            BY <2>1, <2>2, <3>3
          <5> HIDE DEF n, s, m
          <5> QED BY ONLY <5>1, Ceiling, Zenon
        <4> QED BY <2>2, <3>3, <4>1 DEF SM!SliceNum
      <3> QED BY <2>1, <3>1, <3>2, <3>3
    <2>4. made = [i \in 1..m |-> SM!NewSlice(begin(i), end(i), 0)]
      BY <2>1, <2>2, <2>3 DEF SM!MakeSlices
    <2> HIDE DEF made, begin, end
    <2>5. DOMAIN made = 1..m /\ \A i \in 1..m : made[i].begin = begin(i) /\ made[i].end = end(i)
      BY <2>4, NewBounds
    <2>6. ASSUME NEW i \in 1..m
          PROVE  slices[i] = [begin |-> made[i].begin, end |-> made[i].end]
      <3>1. slices[i] \in Range
        BY <2>1
      <3>2. slices[i] = [begin |-> slices[i].begin, end |-> slices[i].end]
        BY <3>1 DEF Range
      <3> QED BY <2>2, <2>5, <3>2
    <2>7. slices = [i \in 1..m |-> slices[i]]
      BY <2>1
    <2>8. slices = [i \in DOMAIN made |-> [begin |-> made[i].begin, end |-> made[i].end]]
      BY <2>5, <2>6, <2>7
    <2> QED BY <2>8 DEF ClosedForm, made
  <1> QED BY <1>1, InitInv, StepInv, InitCount, StepCount, InitClosed, StepClosed, PTL DEF Spec
=============================================================================
