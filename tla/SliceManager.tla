----------------------------- MODULE SliceManager -----------------------------
(***************************************************************************)
(* The slices of one download as a whole (src/slice_manager.cpp): how a    *)
(* file is cut into slices, the index file that lets a later session take  *)
(* a download up again, and the decision that a download is complete.      *)
(*                                                                         *)
(* Operators only; slices is the sequence slices_, an index file that can  *)
(* be parsed is a record, and TornIndex is one that cannot.                *)
(***************************************************************************)
EXTENDS Slice, Functions

CONSTANTS
  UrlOf,            \* the URL a content is served under
  ReportedSize,     \* the size a HEAD request reports, -1 when it does not
  AcceptRanges,     \* whether the server announces Accept-Ranges: bytes
  SlicePolicy,      \* options_->slice_policy
  SlicePolicyValue, \* options_->slice_policy_value
  DefaultSliceSize, \* ZOE_DEFAULT_FIXED_SLICE_SIZE_BYTE
  HashVerifyPolicy, \* options_->hash_verify_policy
  HashValue,        \* the content whose hash the user expects, or NoHash
  NoHash,
  HashType,         \* options_->hash_type
  ContentMd5,       \* content_md5_enabled, and servers send Content-MD5
  MayExpire         \* tmp_file_expired_time is set and may have passed

ASSUME SliceManagerAssumption ==
  /\ ReportedSize \in [Contents -> Int]
  /\ \A c \in Contents : ReportedSize[c] \in {-1, SizeOf[c]}
  /\ AcceptRanges \in [Contents -> BOOLEAN]
  /\ SlicePolicy \in {"Auto", "FixedSize", "FixedNum"}
  /\ SlicePolicyValue \in Nat
  /\ SlicePolicy # "Auto" => SlicePolicyValue > 0    \* Zoe::setSlicePolicy
  /\ DefaultSliceSize \in Nat \ {0}
  /\ HashVerifyPolicy \in {"AlwaysVerify", "OnlyNoFileSize"}
  /\ HashValue \in Contents \cup {NoHash}
  /\ NoHash \notin Contents
  /\ HashType \in {"MD5", "CRC32", "SHA256"}
  /\ ContentMd5 \in BOOLEAN
  /\ MayExpire \in BOOLEAN

TornIndex == [torn |-> TRUE]

Index == [size : Nat \cup {-1}, url : {UrlOf[c] : c \in Contents}, md5 : Contents,
          slices : Seq([begin : Nat, end : Int, capacity : Nat])]

ASSUME IndexAssumption == NoFile \notin Index

-----------------------------------------------------------------------------
(* makeSlices: the ranges a resource of n bytes is cut into. *)

SliceSize(n) ==
  CASE SlicePolicy = "FixedSize" -> SlicePolicyValue
    [] SlicePolicy = "FixedNum"  ->
         IF SlicePolicyValue > 0 THEN n \div SlicePolicyValue ELSE 0
    [] SlicePolicy = "Auto"      ->
         IF 2 * n <= 3 * DefaultSliceSize THEN n ELSE DefaultSliceSize

(* How many slices the loop makes; its last one takes the remainder under   *)
(* FixedNum and is a short one otherwise.                                   *)
SliceNum(n) ==
  IF SliceSize(n) = 0 THEN 0
  ELSE IF SlicePolicy = "FixedNum" THEN SlicePolicyValue
  ELSE (n + SliceSize(n) - 1) \div SliceSize(n)

(* One slice for the whole when ranges are not accepted or the size is not  *)
(* known (end stays -1 then); equal parts and a last one otherwise.         *)
MakeSlices(n, accept_ranges) ==
  IF ~accept_ranges \/ n = -1
  THEN <<NewSlice(0, IF n = -1 THEN -1 ELSE n - 1, 0)>>
  ELSE [i \in 1..SliceNum(n) |->
          NewSlice((i - 1) * SliceSize(n),
                   IF i = SliceNum(n) THEN n - 1 ELSE i * SliceSize(n) - 1,
                   0)]

-----------------------------------------------------------------------------
(* The index file. *)

(* Mutant: only slices that are complete are claimed. *)
IndexOfCompleted(slices, n, c) ==
  [size   |-> n,
   url    |-> UrlOf[c],
   md5    |-> c,
   slices |-> [i \in DOMAIN slices |->
                 [begin    |-> slices[i].begin,
                  end      |-> slices[i].end,
                  capacity |-> IF IsDataCompletedClearly(slices[i])
                               THEN slices[i].disk ELSE 0]]]

(* flushIndexFile: it claims for a slice what is on disk, not its cache. *)
IndexOf(slices, n, c) ==
  [size   |-> n,
   url    |-> UrlOf[c],
   md5    |-> c,
   slices |-> [i \in DOMAIN slices |-> [begin    |-> slices[i].begin,
                                        end      |-> slices[i].end,
                                        capacity |-> slices[i].disk]]]

(* Mutant: Content-MD5 is not looked at. *)
UsableAnyVersion(index, tmp, n, c) ==
  /\ index # NoFile /\ index # TornIndex
  /\ index.size = n
  /\ tmp # NoFile /\ Len(tmp) = n
  /\ index.url = UrlOf[c]

(* loadExistSlice finds nothing against an index (the time check apart).    *)
(* A server that sends Content-MD5 sends that of the content it holds.      *)
Usable(index, tmp, n, c) ==
  /\ index # NoFile /\ index # TornIndex
  /\ index.size = n
  /\ ContentMd5 => index.md5 = c
  /\ tmp # NoFile /\ Len(tmp) = n
  /\ index.url = UrlOf[c]

LoadedSlices(index) ==
  [i \in DOMAIN index.slices |->
     NewSlice(index.slices[i].begin, index.slices[i].end,
              index.slices[i].capacity)]

-----------------------------------------------------------------------------
(* Totals and decisions. *)

TotalDownloaded(slices) ==
  SumFunction([i \in DOMAIN slices |-> slices[i].disk + Len(slices[i].cache)])

(* Mutant: one byte may be missing. *)
AllCompletedButOne(slices, n) == TotalDownloaded(slices) >= n - 1

(* checkAllSliceCompletedByFileSize for a known size n *)
AllCompletedBySize(slices, n) == TotalDownloaded(slices) = n

WithStatus(slices, st) == {i \in DOMAIN slices : slices[i].status = st}

(* getSlice(status): the first slice with that status. *)
FirstWithStatus(slices, st) ==
  CHOOSE i \in WithStatus(slices, st) :
    \A j \in WithStatus(slices, st) : i <= j

UnfetchAndUncompleted(slices) ==
  {i \in WithStatus(slices, "UNFETCH") : ~IsDataCompletedClearly(slices[i])}

(* The hash checked against: the user's, else the Content-MD5 of content c. *)
ExpectedHash(c) == IF HashValue # NoHash THEN HashValue
                   ELSE IF ContentMd5 THEN c ELSE NoHash

(* checkAllSliceCompletedByHash: file f against the expected hash.  The hash   *)
(* of the file is of HashType, a Content-MD5 is an MD5 whatever that is.      *)
HashMatches(f, c) ==
  /\ f = BytesOf(ExpectedHash(c))
  /\ HashValue # NoHash \/ HashType = "MD5"

(* Mutant: the policies are taken for one another. *)
NeedVerifyHashSwapped(n, c) ==
  /\ HashVerifyPolicy = "OnlyNoFileSize" \/ n = -1
  /\ ExpectedHash(c) # NoHash

(* needVerifyHash *)
NeedVerifyHash(n, c) ==
  /\ HashVerifyPolicy = "AlwaysVerify" \/ n = -1
  /\ ExpectedHash(c) # NoHash
=============================================================================
