# A TLA+ model of zoe

zoe is a C++ library that downloads a file in slices, over several connections
at once, and can take a download up again after it was stopped or after the
process died. This directory holds TLA+ modules that model what a download
does, TLC configurations that check them on small instances, and proofs that
TLAPS checks for every value of the constants. Paths such as
`entry_handler.cpp:384` are below `src/src/`.

## 1. The system

| Part | State it keeps | Operations | Module |
| --- | --- | --- | --- |
| `Zoe`, `ZoeEvent` (zoe.cpp, options.h) | `Options` with the stop event, one `EntryHandler` | `start`, `stop`, `pause`, `resume`, setters, the destructor | `Zoe` |
| `EntryHandler` (entry_handler.cpp) | `state_`, `user_paused_`, the multi handle, the slice manager | `asyncTaskProcess` and its tail | `Zoe` |
| | | the worker: `_asyncTaskProcess`, `updateSliceStatus`, `calculateSliceInfo` | `EntryHandler` |
| `fetchFileInfo` (entry_handler.cpp) | `FileInfo` | HEAD or GET, redirects, header lines, tries | `FetchFileInfo` |
| `SliceManager` (slice_manager.cpp) | `slices_`, `origin_file_size_`, `content_md5_`, the index file | `makeSlices`, `loadExistSlice`, `flushAllSlices`, `flushIndexFile`, `finishDownloadProgress`, the checks | `SliceManager`, `MakeSlices` |
| `Slice` (slice.cpp) | range, `disk_capacity_`, the memory cache, the easy handle, `status_`, `failed_times_` | `start`, `onNewData`, `flushToDisk`, `stop` | `Slice` |
| `TargetFile` (target_file.cpp, file_util.cpp) | the temporary file | `createNew`, `write`, `renameTo` | `TargetFile` |
| `ProgressHandler`, `SpeedHandler` | a thread each, a remembered total | a loop until the stop event | `Progress` (and `Zoe`) |
| hash functions (md5.cpp, sha256.cpp, crc32.cpp) | a context of buffer and counters | update, final, the loop over a file | `FileHash` |
| strings, verbose output, `zoe_tool`, vendored headers | none that a download depends on | | not modelled |

How they interact. The user calls `Zoe::start`; `EntryHandler::start` runs
`asyncTaskProcess` on a thread of its own, the *worker*. Everything a download
does happens on the worker, including the callbacks libcurl makes into
`Slice::onNewData` from within `curl_multi_perform`. The user's threads touch
it through three variables only: `internal_stop_event`, an event of the user's
own, and `user_paused_`. Two reporting threads read the counters of the
slices. What outlives the process is three paths: the temporary file
(`.zoe`), the index file (`.efdindex`) and the target.

What is hard about it:

* the process may die between any two steps, and the next session has nothing
  but the files to go by;
* bytes move from the network to a cache to the file, with counters that must
  agree with the file whenever an index is written;
* transfers end in any order, between any two steps of the loop, well or with
  an error, and the loop must neither leave early nor wait for nothing;
* servers may not know a size, ignore a range, answer with an error page, or
  hold another resource than they did;
* a stop or a pause may come at any moment, a second start while the first
  worker is on its way out, and `state_`, the one thing that keeps calls out, is
  written from two threads;
* reporters add up counters, without a lock, that the worker moves bytes
  between.

What makes each part correct is stated as the properties of section 4, and
PROJECT.json lists the hazards, each at its line.

## 2. The modules

```
TargetFile  <-  Slice  <-  SliceManager  <-  EntryHandler  <-  MCEntryHandler
 (operators)   (operators)  (operators)      (one download)     (instances for TLC)
                            SliceManager ~ MakeSlices <- MCMakeSlices
                            (closed form)  (the loop)    (compares the two)
                                             EntryHandler  implements  FileTransfer

FetchFileInfo  <-  Zoe  <-  MCZoe            Progress  <-  MCProgress      FileHash
 (file info)      (a Zoe object over         (reporters and counters)
                   several downloads)

EntryHandler, Sums  <-  EntryHandlerProofs  <-  ConnectionProofs  <-  TransferProofs
MCMakeSlices        <-  MakeSlicesProofs        Zoe       <-  ZoeProofs
Progress, Sums      <-  ProgressProofs          FileHash  <-  FileHashProofs
```

The system is cut at the two places where its threads meet. `EntryHandler` is one
download and its files: the worker against network, crash and disk, over as
many sessions as are left behind. `Zoe` is the object around it: the thread of
the user against workers and reporters, where a download is no more than
fetch, prepare, loop and finish. `Progress` is what a reporter and a worker see of
each other inside a slice.

`TargetFile`, `Slice` and `SliceManager` declare constants and operators: an
object is a record, a method maps the record to the one it leaves. They are
operators because the three classes have no thread of their own: every one of
their methods runs inside a step of the worker. `EntryHandler` has the
variables and the actions.

**Bytes.** A file is the sequence of its bytes, and a byte is where it came
from: `<<c, k>>` is byte k of content c, `<<Junk, k>>` byte k of an error page,
`Hole` a byte nobody wrote. So "the file is right" is an equation, and an
offset that is one too high shows.

**Slices.** `disk` is `disk_capacity_`, `cache` the content of the cache buffer
(`disk_cache_capacity_` is its length), `csize` is `disk_cache_size_`, `curl` the
easy handle together with its queued message, `reply` the part of the server's
answer that is still to come, `rate` the limit set on the handle.

**The worker.** `pc` is the point of the code it has reached. One action is one
stretch of code between two moments at which somebody else can make a
difference:

| `pc` | Action | Code |
| --- | --- | --- |
| launched | `Launch` | asyncTaskProcess, 151-153 |
| fetch | `Fetch` | 184-213 |
| load | `Load` | 215-240: `loadExistSlice` or `makeSlices` with the failures of `createNew`, and the early finish |
| start | `StartFirst` | 242-282, one connection a step |
| perform0, perform, performNew | `Deliver`, `TransferEnd`, `PerformReturn` | 319, 382, 423: `curl_multi_perform` |
| loop | `LoopTop` | 324-380: pause, stop, the ten-second flush, fdset |
| flush, flush_open, flush_write | `FlushSlice`, `OpenIndex`, `WriteIndex` | 341-345 |
| update | `UpdateSliceStatus` | 385, one message a step |
| schedule | `ScheduleNone`, `ScheduleNext` | 387-434 |
| stopping, finish_open, finish_write | `StopSlice`, `OpenIndex`, `WriteIndex` | slice_manager.cpp 360-378 |
| check, hash, rename, remove_index | `CheckCompleted`, `VerifyHash`, `RenameTmp`, `RemoveIndex` | slice_manager.cpp 379-418 |
| end | `Cleanup` | asyncTaskProcess, its tail |

`Start`, `Stop`, `SetUserEvent` and `PauseResume` are the user's; `Crash` may strike
at every `pc` of the constant `CrashPoints`.

What is abstracted, and how:

* the size of the flush interval: a flush may come at every turn of the loop;
* the text of the index: it is a record, or `TornIndex` when the process died
  between emptying it and writing it; URL, size and Content-MD5 are in it, the
  update time is the choice `MayExpire`, the redirect URL is left out;
* a hash: two hashes are equal when the bytes are and the algorithms are
  (`HashMatches`; Content-MD5 is an MD5 whatever `HashType` the user set);
* `curl_easy_setopt` calls whose failure the code ignores;
* assertions, which a release build drops; where one matters it is a property
  (`NoHandleLeak`).

What may go wrong around the code is in `FaultKinds`: each kind is a second outcome
of the actions whose code meets it, with what the code does then. Some of these
outcomes are silent: `RemoveIndex` reports SUCCESSED whether the index went or not
(slice_manager.cpp 410), and `WriteIndex` does not look at what `fwrite` returns (455).
A transfer may deliver, end or fail within any `curl_multi_perform`, the one that
follows a new request (`performNew`, entry_handler.cpp 423) included.

**An index without its file.** `orphan` is a history variable, which no guard reads: it
is "left" from the moment the temporary file loses bytes an index may claim (it is
renamed, or remade smaller or empty) until the index is removed or written anew,
and "used" for good once a session goes on from such an index. The code cannot
tell it from a good one, so the properties of the files say what holds until it
is "used", and section 5 says when it never is.

**MakeSlices** is the loop of `makeSlices` step by step, and is what is proved
about. `SliceManager!MakeSlices` is its closed form, so that `EntryHandler` takes one
step for it; `ClosedForm` says the two agree.

**FileTransfer** is what a download promises, with these variables: the file at the
target path, the content to fetch, the phase of the session and its result. A
session places the whole resource in one step and reports SUCCESSED, or leaves
the target alone and reports something else; a crash may come between. A fifth,
`misled`, says that a session went on from an index without its file, behind which
another file may be placed: it is the one weakness the promise admits. Under
the mapping `Transfer` of `EntryHandler` the phase is "placed" from the rename (or
the creation of an empty target) to the report, "busy" before, and everything
else, slices, caches, index and temporary file, is hidden. `ImplementsTransfer`
says that every step of a download is a step of that machine or none.

**FetchFileInfo** is `doFetchFileInfo` and the loop around it. The header callback
runs for the lines of every response, redirects and error pages too, and one
`FileInfo` serves all tries. The module has the size and the ranges; Content-MD5
follows the same rule as the size. `Zoe` extends it and runs it as the first
stretch of a worker.

**Zoe** has one user's thread and, per accepted start, a worker and up to two
reporters. Each store of the tail of `asyncTaskProcess` is a step, because
`state_`, the event and `slice_manager_` are read by others in between:

| `pc` of a worker | Action | Code |
| --- | --- | --- |
| spawned | `UnsetStopEvent` | entry_handler.cpp 151 |
| unset | `Launch` | 152-153 |
| fetch | `FetchInfo`, `Network`, `Fetched` | 184-222 |
| prepare | `Prepare` | 222-288: slices, connections, reporters |
| loop | `LeaveLoop`, `LoopEnds` | 324-434 |
| finish | `Finish` | 436-456 |
| tail, marked, ended, joined, cleared | `MarkStopped`, `SetStopEvent`, `JoinReporters`, `ClearSlices`, `Report` | 157, 159, 161-165, 167-170, 172 |

`user` is where the user's thread is inside a call: `stop`, `pause` and `resume` are
two stores each, a start that finds a handler waits in `~EntryHandler`, and so
does the destructor. Every failure behind the file info is the one result
SLICE_DOWNLOAD_FAILED, every argument that is not accepted INVALID_URL.
`asked` and `disturbed` are history: how a stop was asked for, and which workers
had `Options` changed under them.

**Progress** has the two counters of each slice, every store of the worker and
every load of a reporter as a step of its own. In which order `s->capacity() +
s->diskCacheCapacity()` loads them C++ leaves open; the constant `DiskFirst` says
which a build does (compilers in use go from left to right).

**FileHash** gives a file its bytes as numbers, cuts it into chunks of every length
up to that of a read, and follows them through `MD5Update` or `sha256_update` into
the blocks that are transformed. Block, length field, word and read size are
constants, so that a small instance reaches every boundary: counters that wrap,
a rest that leaves room for the mark only. What the transformation computes is
left out. MD5 counts bytes and SHA-256 blocks: the two ways to find the length.

## 3. Bounds and fairness

A resource has two to five bytes, cut into one to four slices; two threads; a
chunk has one or two bytes; sessions and crashes are counted (`MaxSessions`,
`MaxCrashes`). Slices of one, one and two bytes with caches of one byte
(`resume`) are enough for every branch of `onNewData`: a chunk that fits, one that
makes the cache be written first, one larger than the cache; `hash` adds a cache
that could not be allocated. Three sessions are one that leaves something
behind, one that goes on from it and is disturbed again, and one that has to
get along with the result; one crash between any two steps of any of them, and
an index that stays where it should be removed, are what `resume` adds: an index
that outlives its file in the first session, fits the file made in the second
and is taken up in the third is within these bounds. Four slices on two threads
(`served`) are two waiting when the first pair is under way, so that a slot freed
by a pair that ends together and one freed by itself both occur. More slices than
threads (`resume`, `served`) are what
scheduling is about. `MaxJunk` bounds an error page, `MaxSlices` says how many
slices fairness speaks of.

`zoe` has two calls of start, because only two downloads can meet: a third start
waits for the second as the second does for the first. Two reporters, one
second try and answers with and without a length, before and after a redirect
or an error page, are each the least at which the order matters. `progress` has
a slice with a cache and one without, and chunks that fit the cache, fill it
and exceed it. `file_hash` has blocks of four bytes, a length of two and words of
32, so that 136 bytes are 34 blocks and 1088 bits: byte counter, block counter
and their upper words wrap.

`EntryHandler!FairSpec` has weak fairness of `Worker`: the thread runs. Nothing is
asked of transfers, which may stall for ever; `StopEnds` holds all the same,
because `curl_multi_perform` returns. `ServedSpec` adds strong fairness for each
slice's transfer: a server that was asked goes on sending, which is what
libcurl's own timeouts or a working network amount to. It is strong because a
transfer can move inside `curl_multi_perform` only and is disabled in between.
`SessionEnds` has the same assumption as its premise. `Zoe!FairSpec` has weak
fairness of each worker, each reporter (its wait has a timeout) and of a call
that the user has begun. The user is never asked to make a call, and the network
never to answer.

`CarefulUser` is an assumption on the user, of the run `zoe`: between `start` and the
launch of the worker he makes no call but `pause` and `resume`, and he destroys
a Zoe only when he stopped it or it is done. The tests of the repository behave
like that (`t_breakpoint.cpp` waits for the future before it goes on), and no
document asks for it. `stop_forgotten` is what happens otherwise. The proofs do
not need it but for `OptionsFrozen`.

## 4. What the runs show

Passing runs.

| Run | Properties | The question |
| --- | --- | --- |
| resume | TypeOK, IndexTruthful, SlicesTruthful, ConnectionLimit, NoHandleLeak, CreatedAtItsSize, ImplementsTransfer | A crash anywhere, stops, a temporary file that cannot be made, an index that cannot be removed, dropped and short transfers, three sessions, on Linux: are files, counters and handles right at every moment, and is the target never anything but whole, unless a session took up an index without its file? |
| served | Delivered, NothingRefetched | Nothing fails: does every slice get its connection, is there one way only to end without success, and does a stopped download go on exactly where it was? |
| stop | StopEnds, SessionEnds | Does a stop end the session whatever else fails, and can the loop wait for nothing? |
| hash | SuccessIsExact | Sizes that are not known, servers that ignore ranges or send error pages: does a hash keep wrong files out? |
| versions | SuccessIsExact | The resource changes between sessions, with Content-MD5, on Windows. |
| make_slices | TypeOK, Partition, FixedNumCount, ClosedForm, Terminates | Every small size and policy: do the slices cover the resource? |
| zoe | TypeOK, OneWorker, OptionsFrozen, ResultToOwner, CanceledOnlyOnRequest, InfoOfFinalResponse, ResultDelivered, StopTakesEffect, UserNotHeld | Calls at any moment between the stores of a worker: who runs, on whose options, and does everything that waits go on? |
| progress | TypeOK, NeverOvershoots, SpeedsAddUp | Loads between the stores of a worker: can a total be too high, can a byte be reported twice? |
| file_hash | TypeOK, FedIsPadded | Every length in every cut: is what is hashed the file? |

Runs in which TLC finds a property violated: what the code does differs from
what a document or comment says. PROJECT.json quotes each.

| Run | Property | What happens |
| --- | --- | --- |
| failed_not_retried | FailedOnlyAfterRetries | A failed slice is looked up for a new try and never started. |
| hash_skipped | HashAlwaysVerified | After HASH_VERIFY_NOT_PASS the next session finds all slices complete and skips the hash. |
| stop_forgotten | StopCancels | A stop before the worker has begun is undone by `internal_stop_event.unset()`; the download goes on. |

By its careful user `zoe` leaves out what `stop_forgotten` needs, and `hash` by its one
session what `hash_skipped` needs. `resume` and `served` have what the first two of
the next list need, and their properties say what holds all the same: until
`orphan` is "used", and unless `pc` is "performNew" with nothing live and a slice
UNFETCH. `versions` has no crash and runs on Windows; `hash` has one session and
always a hash.

Seen as well while modelling, and without a run of its own. TLC finds each when
the property named is checked in the run named, with the change named if there
is one. About files:

* an index that cannot be removed outlives its file (slice_manager.cpp 410: "do not
  return failed"), fits the file that `makeSlices` creates next, and when that
  session dies before its first flush, the third one finds every slice complete,
  checks nothing and reports SUCCESSED over holes. `resume` as it is: `SuccessIsExact`
  fails. A crash between rename and removal (398-410) does the same without any
  fault, with `MaxCrashes = 2`;
* a transfer that is over within the perform that follows its start
  (entry_handler.cpp 423), with nothing else running, leaves still_running at 0:
  the loop ends with slices nobody asked for, and the result is
  SLICE_DOWNLOAD_FAILED with no transfer having failed, where zoe.h 77 says "Failed to
  download a slice". `served` as it is: `SliceFailureHappened` fails;
* the Linux branch of `CreateFixedSizeFile` calls `fallocate` and never shortens
  (file_util.cpp 298): a temporary file left by a larger resource keeps its length,
  against `tests/unit_test/t_fixed_file.cpp:25`. `versions` with `Platform = "linux"`:
  `CreatedAtItsSize` fails. On Linux and macOS an empty resource leaves an existing
  target as it was, for the same reason (entry_handler.cpp 210);
* a Content-MD5 is compared with a hash of the type the user set
  (target_file.cpp 101-118): with a `HashType` other than "MD5" and no hash of the
  user, a correct file ends in HASH_VERIFY_NOT_PASS and never succeeds;
* with no size, nothing looks at the status of a slice when the download
  finishes (slice_manager.cpp 383): a failed transfer is renamed into place and
  SUCCESSED. `hash` without a hash: `SuccessIsExact` fails;
* the body of an error answer as long as its slice is taken for data: with
  `ReplyKinds = {"range", "error"}` and no hash, `SuccessIsExact` fails (slice.cpp 124,
  which sets no CURLOPT_FAILONERROR);
* when a connection after the first cannot be opened, those before it are never
  closed: with the fault "curl", `NoHandleLeak` fails (entry_handler.cpp 263), against
  the assertion in `~Slice`;
* a flush that falls short drops the rest of the cache and what follows is
  shifted: with the fault "write", `SuccessIsExact` fails (slice.cpp 340,
  entry_handler.cpp 342);
* the limits of connections opened at different times add up to more than
  `max_speed` (entry_handler.cpp 418), and a limit smaller than the number of
  threads is divided to zero, which sets none;
* more slices asked for than the resource has bytes give none, and the download
  ends with UNKNOWN_ERROR (slice_manager.cpp 234);
* after `makeSlices` keeps the index of another version, a crash before the next
  flush leaves an index and a file that do not belong together: with one crash,
  `SuccessIsExact` fails in `versions`;
* a file that cannot be read to its end is hashed as far as it goes: the loops
  take an error of `fread` for the end (md5.cpp 354). `FedIsPadded` speaks of the
  bytes that were read;
* a connection that cannot be opened to a slice an earlier session has fetched a
  part of throws this part away: the slice is DOWNLOAD_FAILED, and `stop` discards
  what such a slice has (slice.cpp 290). With the fault "curl"
  in `served`, `NothingRefetched` fails in the third session;
* a session that cannot open the index file for writing, or one whose temporary
  file expired, fetches again what is there: `NothingRefetched` fails with the
  fault "index" or `MayExpire` in `served`;
* on Windows, when the end of an existing temporary file cannot be moved the file is
  emptied (file_util.cpp 240), and its index stays: when the file then cannot be
  opened, the next session takes up both, and reports SUCCESSED over holes. `resume` with
  `Platform = "windows"` reaches `orphan = "used"` in this way too.

About calls and threads:

* a pause or resume whose second store comes behind the last store of a worker
  leaves `state_` at Paused or Downloading with nobody to change it: every later
  start answers ALREADY_DOWNLOADING, until a `stop`, against zoe.h 60. `zoe` as it is:
  `RejectedOnlyWhileRunning` fails;
* a start while a stopped worker is still on its way out is accepted, and this
  worker hands its result to the functor of the new call, and may rename to the
  new target; `ResultToOwner` and `OptionsFrozen` say when that cannot happen. With
  `Careful = FALSE` two starts one right after the other do it without any stop;
* a start from within the result functor waits for the thread it runs on, and
  a Zoe destroyed while its download is paused or stalled waits for ever;
* setters such as `setStopEvent`, `setHttpHeaders` and `setSlicePolicy` do not ask
  `isDownloading` (zoe.cpp 263-420), and `pause` reads the `shared_ptr` the worker
  resets: undefined behaviour, not modelled;
* `FileInfo` has a method `clear` that nobody calls: when the accepted response
  states no Content-Length, the length of an error page before it is taken for
  the size, where zoe.h 403 says "-1 if unknown";
* with `DiskFirst = FALSE` a total overshoots: bytes are counted in the cache and
  again on the disk.

Every property has a mutant in PROJECT.json, a small change of a mapped
definition that makes TLC find it violated. The mutated forms are operators of
the modules, each marked as such.

## 5. What is proved

Every safety invariant that a run checks, its action property and the refinement
of `FileTransfer` are theorems, for every value of the constants that the named
assumptions allow (`ContentsAssumption`, `FileAssumption`, `SliceAssumption`,
`SliceManagerAssumption`, `IndexAssumption`, `EntryHandlerAssumption`,
`MakeSlicesAssumption`, `FetchAssumption`, `ZoeAssumption`, `ProgressAssumption`,
`FileHashAssumption`). Most restate what a setter accepts or what a type holds.
Three are about the abstraction: `FileAssumption` and `IndexAssumption` say that
`NoFile` is no file and no index and `Hole` no byte of a resource.
`FileHashAssumption` has a read shorter than a word of the counter (1024 bytes,
2^32), so that one update carries once at most.

### Types, connections, slices

* `EntryHandlerProofs!TypeCorrect`, `Spec => []TypeOK`. `TypeOK` is not inductive: writing
  to the temporary file yields a file only if there is one. `TypeInv` adds
  `HasTmp`, that there is one from the point where slices exist up to the rename,
  and `TmpPresent` states that part. The module begins with what the operators of
  `TargetFile`, `Slice` and `SliceManager` return; then there is one lemma per action.
* `ConnectionProofs!ConnectionsLimited`, `Spec => []ConnectionLimit`. The code tests
  `selected` before the loop and `still_running` inside it, neither of which counts
  the handles that are open. The inductive invariant `ConnInv` says why it works:
  no transfer has ended while the first connections are opened; from the return
  of `curl_multi_perform` to the next start `still_running` is the number of live
  transfers; and by then every ended one has been taken out
  (`updateSliceStatus` comes first).
* `ConnectionProofs!HandlesClosed`, `NoHandleLeak` for a build in which no libcurl object
  fails (`"curl" \notin Faults`). The invariant `HandleInv` follows the stopping of
  the slices one by one, and says that none is open before the first start or
  after the last stop; that the start gives up with nothing open needs
  `NoneDoneAtStart` from above.
* `MakeSlicesProofs`: `TypeCorrect`; `SlicesPartition`, the slices are an exact partition
  of the resource; `FixedNumIsExact`, a fixed number is met. The invariant
  relates `cur_begin` to the number of slices made, and needs a lemma on integer
  division. `ClosedFormOfLoop` says that the loop computes the operator `EntryHandler`
  uses, for every size and policy: `ClosedInv` compares the slices made so far with
  the first ones of the closed form, and `Ceiling`, on division again, that the loop
  ends after as many as the closed form has.

### The data of a download (`TransferProofs`)

The circumstances are in three definitions. `Environment`: one version of the
resource, by a server that answers a range with the range, and no short write.
`KnownSizes`: sizes are stated. The constants of `resume` are within both, and
crashes at any point, stops, dropped and short transfers, failing creations,
connections and removals are not excluded. `Orderly` adds to both that no crash comes
between the rename and the removal of the index, that the index can be removed
and that on Windows files can be created. TLC finds each part needed, with
`resume` and

* `ReplyKinds` of "whole" or "error", or the fault "write": `SlicesTruthful` fails, and
  `SuccessIsExact` with `orphan = "no"`;
* an unknown size: `SuccessIsExact` fails, as in section 4;
* a crash at "remove_index", the fault "remove", or Windows with the fault "create",
  each without the other two: `SuccessIsExact` fails, with `orphan = "used"`; without
  any of them `orphan` never is.

The theorems:

* `SlicesAreTrue` and `IndexIsTrue`, `Environment => (Spec => []SlicesTruthful)` and the
  same of `IndexTruthful`. Both properties speak of the time before a session goes on
  from an index without its file. The inductive invariant is `TypeInv` and, as long as
  `orphan # "used"`, `FileInv`: every byte of the
  temporary file is in its place or a hole and none is behind the end (`TmpInv`); the
  worker goes by the right size (`SizeInv`); each slice has on disk what it counts,
  caches what follows and has a reply that goes on there and stays within its
  range (`SlicesInv`); an index, as soon as it can be read and while `orphan = "no"`,
  claims what is in the file (`IndexInv`). That a step which takes bytes from the file
  sets `orphan`, or leaves none that the index claims, is what each lemma on a step
  of the file has to show. It rests on one lemma about `Write` (`WriteKeeps`: what follows is added
  and nothing is lost), one about `CreateFixedSizeFile` (`CreateKeeps`), and one per
  operation of a slice (`StartedOK`, `OnNewDataOK`, `FlushOK`, `StoppedOK`).
* `SuccessExact`, `Environment /\ KnownSizes => (Spec => [](orphan # "used" =>
  SuccessIsExact))`: a session that goes on from an index without its file is the only
  way to a wrong success. The code adds up
  what slices have and compares the sum with the size. That this is enough needs
  `PartsInv`, that the slices lie one behind the other, in memory and in the index.
  Then the bytes claimed are disjoint sets, the sum is the number of elements of
  their union, and a union of all n positions leaves none out (`WholeFile`; sums of
  sequences are in `Sums`). `FinishInv` carries "the file is the resource" from the
  check, or from the early finish that makes none, over stopping, index and hash to
  the rename; `TargetInv` from there to the result. `DownloadInv` is all of them.
* `SuccessExactOrderly`, `Orderly => (Spec => []SuccessIsExact /\ [](orphan # "used"))`: in
  orderly circumstances the exception never happens. `OrphanInv` says that an index is
  without its file between rename and removal only, which needs that creating a
  file over what a session left behind loses nothing (`FileInv` bounds its length).
* `TransferImplemented`, `Environment /\ KnownSizes => (Spec => ImplementsTransfer)`: initial
  states map to initial states, and from `TransferInv` (`DownloadInv` until a session is
  misled; types, and a result for every session on its way out, `RetInv`, for ever)
  each step is a `Start`, `Mislead`, `Place`, `Crash` or `Report` of `FileTransfer`, or not seen
  there (`StepOfTransfer`).
* `CreatedExact`, `Fitting => (Spec => []CreatedAtItsSize)`: on Windows always, on macOS with
  `KnownSizes`, on Linux, where `fallocate` never shortens, within `Orderly`,
  where nothing longer can have been left behind.
* `NothingAskedTwice`, `Smooth => (Spec => NothingRefetched)`. It is the converse of the
  above: whatever is in the file is known, to the slices during the transfer and
  to the index before and after it (`KnownInv`). For that the file has its full size
  between sessions, or the next one would not go on from it (`FullInv`), and no
  slice fails, because a failed slice discards what it has (`SoundInv`: a transfer
  that ends, ends at the end of its slice). A new request is for what is behind the
  data of its slice, and by `PartsInv` no other slice has that. `Smooth` adds to
  `Environment` and `KnownSizes`, and implies `Orderly`, that there is no crash, that the
  policy keeps what is
  downloaded, that nothing expires, and no faults but "fetch", "malloc", "fdset" and
  "rename". TLC finds `NothingRefetched` violated in `served` with each of the others:
  "create", "curl", "drop", "short", "write", "index"; a crash; AlwaysDiscard; `MayExpire`;
  no size, together with "rename".

### Counters, hashes, the object

* `ProgressProofs!ProgressTypeCorrect`; `ProgressNeverOvershoots` and `SpeedsNeverExceed`,
  `NeverOvershoots` and `SpeedsAddUp` for every number of slices and every cache, when
  `DiskFirst` holds. A byte moves from the cache to the disk and never back, so a
  sum that takes the disk first can miss it and not count it twice; the
  invariant says so of a load that is half done: what was loaded, together with
  the cache as it is, does not exceed what the slice was handed. The differences
  a reporter takes then add up to its last total, which is one of these sums.
  That a sum grows with each of its terms is in `Sums`: the provers have no
  induction, so the fold is shown to be the cardinality of a set of pairs
  (`SumCounts`, `MarkedCount`), and sets of pairs grow.
* `FileHashProofs!FileHashTypeCorrect`, `HashOfWhatWasRead`: `FedIsPadded` for every file,
  every cut into reads and every size of block, length field and word, with both
  ways of counting, in bytes and in blocks. The invariant `HashInv` (theorem
  `HashInvariant`) says after each chunk which whole blocks have been transformed,
  what is in the buffer, and that the two words of the counter are the number of
  bytes or blocks so far, modulo their range. The padding is then one lemma on its
  length and one on its contents.
* `ZoeProofs`: for every number of calls, reporters and responses, `OneWorker`,
  `OptionsFrozen` (of a careful user), `ResultToOwner`, `CanceledOnlyOnRequest`,
  `InfoOfFinalResponse` and `TypeOK`, all from one inductive invariant
  `ZoeInv`. What it adds to them: calls are numbered in order and leave no trace
  before they are made (`Numbered`); a start that waits has stored its arguments and
  has no worker yet (`Waiting`), which is why the wait in `~EntryHandler` is enough for
  one worker; an undisturbed worker finds its own arguments up to the call of its
  functor (`OwnArguments`); reporters exist between loop and join only (`Placed`); an
  event found set after the unset was set for this worker (`StopIsAsked`), which
  needs that no other worker ends meanwhile; `state_` says Stopped of a downloading
  worker only after a stop (`KeptOut`); and `FileInfo` agrees with the last response
  at every moment, not only when it is accepted (`InfoOfLastResponse`). There is
  one lemma per action.

### Left to TLC

Liveness, which is beyond the prover: `StopEnds`, `SessionEnds`, `Delivered`,
`ResultDelivered`, `StopTakesEffect`, `UserNotHeld`, `Terminates`. `SuccessIsExact` where its
theorem does not reach: several versions of a resource (`versions`), and unknown
sizes or servers without ranges, where the hash keeps wrong files out (`hash`).
`NoHandleLeak` with failing libcurl objects is false, as section 4 says.

## 6. Plan

Done: all modules above, and theorems for all of the runs' safety properties.
What would add to it:

1. `SuccessIsExact` for several versions, without crashes: what an index claims would
   be of the version it names, and `TmpInv` of the length only.
2. `SuccessIsExact` and `HashAlwaysVerified` of the first session over a clean disk,
   whatever servers answer, when a hash is verified.
3. Setters that do not ask `isDownloading`, once what they race on is atomic.

## 7. Not modelled

`Zoe::GlobalInit` remembers for ever that it ran, so that after `GlobalUnInit` it does
nothing, and the unit tests, which call both in every case, go on with a libcurl
that was cleaned up; it initialises itself again. `string_helper.hpp`, `string_encode.cpp`, `verbose.cpp`, `time_meter.hpp` and
`curl_utils.cpp` are text and wrappers; no state of a download passes through them.
(`TimeMeter` uses `std::clock`, the time of the processor and not of the wall, so a
flush comes less often than every ten seconds; the model lets it come at any
turn of the loop.) `zoe_tool` is a command line around the library. `json.hpp` and
`filesystem.hpp` are third-party headers, 29,000 of the repository's 34,600 lines of
implementation; the library reads and writes one flat object with the first and
asks for existence, size and removal of files with the second, which is in
`SliceManager` and `TargetFile`. Header lines are split at ": " and end in CRLF;
`FetchFileInfo` starts behind that. The redirect URL in the index is left out:
`CURLINFO_REDIRECT_URL` stays null while libcurl follows redirects itself.
