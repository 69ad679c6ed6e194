---------------------------- MODULE MCMakeSlices ----------------------------
(* MakeSlices for TLC: all sizes and policy values up to small bounds, on    *)
(* both sides of 1.5 times the default size, and the ranges that the loop    *)
(* makes compared with the closed form that SliceManager uses.               *)
EXTENDS MakeSlices

CONSTANT c   \* the one content

(* SliceManager for the current size and policy.  What it says of servers,   *)
(* hashes and files is not used here.                                        *)
SM == INSTANCE SliceManager WITH
        Contents <- {c}, SizeOf <- [x \in {c} |-> origin_file_size],
        Junk <- "junk", Hole <- "hole", NoFile <- "no file",
        Platform <- "linux", SavePolicy <- "AlwaysDiscard",
        ReplyKinds <- {}, MaxJunk <- 0, MaxChunk <- 1,
        UrlOf <- [x \in {c} |-> "url"],
        ReportedSize <- [x \in {c} |-> origin_file_size],
        AcceptRanges <- [x \in {c} |-> TRUE],
        SlicePolicy <- slice_policy, SlicePolicyValue <- slice_policy_value,
        DefaultSliceSize <- DefaultSize,
        HashVerifyPolicy <- "AlwaysVerify", HashValue <- "none",
        NoHash <- "none", HashType <- "MD5", ContentMd5 <- FALSE,
        MayExpire <- FALSE

(* The closed form gives the ranges the loop makes, in their order. *)
ClosedForm ==
  done => slices = [i \in DOMAIN SM!MakeSlices(origin_file_size, TRUE) |->
                      [begin |-> SM!MakeSlices(origin_file_size, TRUE)[i].begin,
                       end   |-> SM!MakeSlices(origin_file_size, TRUE)[i].end]]
=============================================================================
