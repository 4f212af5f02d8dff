# buildbox-common in TLA+

buildbox-common is the C++ library that the BuildBox tools share: a client for a
content-addressable storage (CAS) and its ByteStream API, the skeleton of a
*runner* that executes one action of the remote execution API, log streaming,
and utilities around them.  This directory holds a verification development for
its core: TLA+ modules translated from the code, TLC configurations that check
them on small instances, and theorems that TLAPS proves for every instance.
`PROJECT.json` maps every definition to the lines that it models.

All paths below are relative to `src/buildbox-common/buildboxcommon/`, without
the prefix `buildboxcommon_`.

## 1. Inventory

| component | state | operations | interacts with | what is hard | what makes it correct |
|---|---|---|---|---|---|
| `GrpcRetrier` (grpcretrier.cpp) | attempts, last status, delay base | `issueRequest()` | called by everything that talks gRPC; calls a lambda that it is given | limit and back-off at their boundaries, state kept between requests | only retryable errors are retried, the return value means what its users take it for |
| `Client`: batching (client.cpp) | negotiated limit | `init()`, `makeBatches()` | used by both blob loops | `size_t` arithmetic, exact fits | batches fit, partition the list, leave only what is too large |
| `Client`: ByteStream | offset, file position, digest context | `upload()` (string, fd), `fetchString()`, `download()` | retrier, server, files | retries in the middle of a stream, resumed downloads, damaged copies, files that change | success only with exactly the blob in place |
| `Client`: blob lists | results so far | `uploadBlobs()`, `downloadBlobs()` (three forms), `batchUpload()`, `batchDownload()` | the two above, files | partial failures, duplicates, exceptions in the middle | what is reported agrees with what was transferred |
| `Client`: directories, LocalCAS | none of its own | `downloadDirectory()`, `uploadDirectory()`, `findMissingBlobs()`, `stage()`, `captureTree()`, `captureFiles()` | the above, merklize | files that change while they are captured | no reference to a blob that is not stored |
| stat file monitor (streamingstandardoutputstatfilemonitor.cpp) | buffer, stop flag, thread | constructor, thread, `stop()` | a file that a process appends to; a callback | two threads and a process; construction order; stop at any point | nothing lost or repeated, data is delivered |
| inotify file monitor (streamingstandardoutputinotifyfilemonitor.cpp) | the same, inotify descriptors | the same | the same, and the kernel's events | merged events, time-outs, a descriptor that is polled before it exists | what was reported is delivered |
| `LogStreamWriter` | offset, committed flag, open stream | `write()`, `commit()`, `createLogStream()` | server | a stream kept open between calls, retries on a used stream | what is committed is what was written |
| `StandardOutputStreamer` | stop flag | constructor, `stop()`, `streamLogChunk()` | owns a monitor and a writer | write and commit in two threads, stopping from the callback | the log is a contiguous piece of the file; `stop()` tells the truth and returns |
| `Runner` (runner.cpp, systemutils.cpp) | signal status, child, ActionResult, files | `main()`, `executeAndStore()`, `uploadOutputs()`, signal handler | client, staged directory, kernel | signals and child at any time, failure of any step | no child left behind, exit code and digests are true, the runner ends |
| staged directories | staged path, descriptor | stage, `captureAllOutputs()`, destructors | client, file system | links and dots in paths, uploads that fail in part, clean-up after exceptions | the result has exactly the outputs there are, their blobs are in the CAS, nothing is left behind |
| `MergeUtil`, `Merklize` | none (pure) | `createMergedDigest()`, `make_nesteddirectory()` | staged directories | name collisions, empty trees | merged tree has exactly the union |
| `ReloadTokenAuthenticator` | token, refresh time, three locks | `GetMetadata()` | gRPC threads | concurrent refresh, a file that cannot be read | never an older token, in the end the newest |
| metrics | collectors, daemon thread | collect, publish | all threads | start and stop of the daemon | no sample lost or published twice |
| `CommandLine`, `ConnectionOptions`, `Runner::parseArguments()` | parsed values, connection settings | `parse()`, getters, `putArgs()`, `parseArg()`, `createChannel()` | a program, the runner it starts, gRPC | several passes and notations, settings that travel through two programs | what was typed is what is used, or it is refused for a reason |
| `FileUtils` paths | none (pure) | `normalizePath()`, `makePathAbsolute()`, `makePathRelative()`, `joinPathSegments[NoEscape]()` | staged directories, runner | prefixes, dots, the root | a path leads where its arguments lead, and escapes are found |
| logging, hashing | local | formatting, hashing | everyone | - | - |

The hazards that follow from this are listed in `PROJECT.json`, each at its
line, with the properties that watch it.

## 2. Plan

1. *(done)* `GrpcRetrier`, `MakeBatches`, with proofs: everything else rests on them.
2. *(done)* the ByteStream transfers, against the abstract `AtomicTransfer`.
3. *(done)* `UploadBlobs`, with proof, and `DownloadBlobs`, on top of 1 and 2.
4. *(done)* the log streamer: both file monitors, `LogStreamWriter`, and their
   composition `StandardOutputStreamer`.
5. *(done)* `Runner`.
6. *(done)* staged directories over a small file system, with the client's
   directory operations.
7. *(done)* `Merklize`, `MergeUtil` and the path functions as pure algorithms
   against reference definitions.
8. *(done)* the way of the settings from a command line to a channel, and the
   reloading of the access token.
9. *(done)* the proofs of section 5: all safety properties of the retrier, the
   batches, the transfers, the blob lists, the streamer, the runner, the token,
   the command line and the connection settings, and the step simulation
   `ByteStreamTransfer` => `AtomicTransfer`.
10. with TLC alone stay liveness and the modules that use a RECURSIVE operator:
    `Merklize` and what is built on it, the path calls.

## 3. Modules

| module | models |
|---|---|
| `GrpcRetrier` | `GrpcRetrier::issueRequest()`; one action per way through the loop |
| `MakeBatches` | `Client::makeBatches()` and the limit negotiated by `init()` |
| `AtomicTransfer` | abstract: what any transfer of one blob promises |
| `ByteStreamUpload` | `Client::upload()` from a string and from a descriptor; instance of `GrpcRetrier` |
| `ByteStreamDownload` | `Client::fetchString()` and `Client::download()`; instance of `GrpcRetrier` |
| `ByteStreamTransfer` | the two together: one call, in either direction; refines `AtomicTransfer` |
| `UploadBlobs` | `Client::uploadBlobs()` with `batchUpload()` and `uploadRequest()` |
| `DownloadBlobs` | `Client::downloadBlobs()`, its three forms, with `batchDownload()` |
| `BlobTransfers` | the two together: one call of either |
| `StatFileMonitor` | `StreamingStandardOutputStatFileMonitor`, and the process and `stop()` for both monitors |
| `InotifyFileMonitor` | `StreamingStandardOutputInotifyFileMonitor`: the kernel's queue, the constructor, the thread |
| `LogStreamWriter` | `LogStreamWriter::write()` and `commit()` |
| `StandardOutputStreamer` | `StandardOutputStreamer`, composed of either monitor and the writer |
| `Runner` | `Runner::main()`, `executeAndStore()`, `uploadOutputs()`, the child, signals |
| `FilePaths` | the path functions of `FileUtils`, on sequences of segments |
| `PathCalls` | one call of one of them, and what it has to answer |
| `Merklize` | `NestedDirectory`, `make_nesteddirectory()`, `to_digest()`, `to_tree()` |
| `MergeUtil` | `MergeUtil::createMergedDigest()` of two directories |
| `FileSystem` | the kernel as far as these classes use it: `lstat()`, `openat()` with `O_NOFOLLOW`, `mkdir()`; `createDirectoriesInPath()`, `deleteDirectory()`, the walk, `open{File,Directory}InInputRoot()` |
| `StagedDirectory` | the life of a staged directory, both implementations: staging, output directories, the command, `captureAllOutputs()`, destructors |
| `CommandLine` | `CommandLine::parse()` in its passes, and the getters |
| `ConnectionOptions` | `parseArg()`, `putArgs()`, `createChannel()`, the specification of its options and `configureChannel()` |
| `RunnerArguments` | composes the two with `Runner::parseArguments()`: a program, the runner it starts, and their channels |
| `ReloadTokenAuthenticator` | `GetMetadata()` by several threads |
| `GrpcRetrierProofs`, `MakeBatchesProofs`, `BlobTransfersProofs`, `ByteStreamTransferProofs`, `StandardOutputStreamerProofs`, `RunnerProofs`, `ReloadTokenProofs`, `RunnerArgumentsProofs` | theorems about the module of that name; `BlobTransfersProofs` is about its two halves, `UploadBlobs` and `DownloadBlobs`; `RunnerArgumentsProofs` also about `CommandLine` and `ConnectionOptions` as parts of it |
| `MCMakeBatches`, `MCByteStreamTransfer`, `MCAlgorithms`, `MCStagedDirectory`, `MCRunnerArguments` | values of constants for TLC |

Conventions.  Variables carry the names of the code's members and locals where
there is one (`d_retryAttempts`, `batch_end`, `digestContext`); `pc`, `lpc`,
`mpc`, ... are program counters; variables marked *history* are not in the code
and guard nothing.  An operator `Op_Something` marked *Mutant* is a wrong
variant of `Op` that no specification uses: it documents which mistake the
property named in `PROJECT.json` would catch.

### What is abstracted

* Bytes are small integers, blobs short sequences; a digest *is* the sequence it
  was computed from (no collisions).  Where a file is append-only (log
  streaming), byte counts stand for its contents.
* `MakeBatches` keeps only sizes.  Additions and the subtraction in
  `max_batch_size` wrap modulo `SizeMod`, as `size_t` does.
* `UploadBlobs` and `DownloadBlobs` take from the transfers what
  `AtomicTransfer` promises, and from `makeBatches()` any list of non-empty
  consecutive ranges from the first request on (theorem `Partition`).
* The delay of the retrier is the pair of base and exponent.
* The servers are external.  They may answer anything that the client's code
  distinguishes, may break a stream at any point, and may store a blob although
  the client gave up; they store a blob only if its bytes match its digest.
* `Runner::execute()` belongs to subclasses; it is taken to stage, to call
  `executeAndStore()` once and to capture the outputs.
* A Directory message is a record of sets, and its digest is the digest of that
  record; the order of the entries, which the code makes canonical by sorting,
  is thereby left out.  Time stamps are kept where they reach a digest.
* A path is the sequence of its segments between slashes, `<<"">>` the empty
  text; `makePathRelative()`, which works on characters, is modelled on
  characters.  Links in the file system hold absolute paths.
* Nothing but the command changes a staged directory, as stageddirectory.h
  assumes.  A command leaves one file, directory, link or socket.
* An argument of a command line is a text of which only what the parser asks is
  known: how it starts, its name and value around `=`, the number it reads as.
* Of the token's times only the outcome of the comparison is kept.  A token file
  that cannot be read throws out of `GetMetadata()`; the model takes it that the
  process survives this and the next call tries again.  Whether it does is up to
  gRPC, which calls it from a thread of its own: if the exception ends the
  process, `NewTokenIsUsed` says nothing after the first failed reading.
* `waitpid()` for the runner's own child fails with EINTR only; the exceptions for
  other errors and for a status that is neither (systemutils.cpp:165, 191) are
  left out.
* Undefined behaviour: the stat monitor's thread may run before its buffer
  exists (`mpc = "undefined"`, nothing is said of what follows); the inotify
  monitor's may poll a descriptor that is not set yet, which goes on, ends the
  thread or is undefined, depending on the value; and
  `StandardOutputStreamer::d_stopRequested` has an arbitrary value until it is
  initialized.
* `StandardOutputStreamer` is composed with both monitors; the build selects the
  inotify one where the system has it (`FILEMONITOR_USE_INOTIFY`).
* One event of each kind is all that the kernel's queue can hold here, since
  equal neighbours are merged and the file is closed once, by its only writer.

## 4. Runs

Bounds are in the `.cfg` files.

| run | checks | bounds, and why they are enough |
|---|---|---|
| `retrier` | `OnlyRetryableIsRetried`, `ReturnValueIsTheVerdict`, `BackoffIsExponential` | limit 2: a first, a middle and a last attempt; a code that is always, one that is optionally and one that is never retryable; two different server delays and none.  Requests follow one another for ever on one object, so deadlock is checked too. |
| `batches` | `BatchesFit`, `BatchesPartition`, `RestIsTooLarge`, `BatchesAreMaximal` | up to four sizes from 0 to 8; limits that hold nothing, one, some or all blobs, with a container of 2 and 1 per blob in place of 256 and the metadata size: every sum hits the limit exactly, one below and one above |
| `byte_stream` | `IntactDataFinishesIntact`, `ResumeIsExact`, `TransferIsAtomic` (refinement) | a blob of three bytes in chunks of at most two: an uneven last chunk, partial reads; two retries; sources and copies that are right, short, long (by more than a chunk) and changed; old files shorter and longer than the blob |
| `blobs` | `NothingIsForgotten`, `ReportedOnce`, `FutureIsUntouched`, `EveryDigestHasAStatus`, `OkMeansIntact` | three requests: a batch, a second one and a rest, in every combination; lists with duplicates within and across batches |
| `streamer` | `WriterIsNotShared`, `LogIsContiguous`, `StopTrueMeansCommitted`, `NothingLostOnTheWay`, `StopEnds`, `BatchIsDelivered` | either monitor; five bytes through a buffer of four (of which the stat monitor uses three), minimum batch one: full buffers, several chunks, a rest; one retry of commit |
| `runner` | `IncompleteResultIsFlagged`, `ExitCodeIsNotOfTheKill`, `NoChildIsLeftBehind`, `DigestsAreUploaded`, `RunnerEnds` | two signals (one noticed, one during the wait that follows), a zero and a non-zero exit code, all capture modes |
| `algorithms` | `MergeIsTheUnion`, `RefusesOnlyClashes`, `TreeAgreesWithDigest`, `PathsLeadToTheSamePlace`, `EscapesAreExact` | all pairs of directories with two names at the top and one below, so that every kind of entry meets every other and subdirectories agree or differ, with a Directory missing from a tree; all paths of up to three segments from two names, of which one is the start of the other, dots and nothing; all absolute texts of up to five characters |
| `staging` | `CaptureIsExact`, `OnlyDroppedReportsAreMissing`, `UnstagingIsExact` | an empty input root and one with a file, a subdirectory, a link out of it and one without target; fourteen commands with outputs at the top, below, behind the link, at the root, outside, malformed or with an empty name; ten effects of the command; every upload and every step failing |
| `commandline` | `ValuesAreAsTyped`, `RefusedForAReason`, `SettingsReachTheRunner`, `CredentialsAreUsedOrRefused` | four specifications, one with the options of a connection; every command line of up to three arguments out of 23, and longer ones between a URL and a positional; with and without prefix on the way; seven sets of other arguments of the runner, before or after |
| `token_reload` | `TokenNeverGoesBack`, `NewTokenIsUsed` | three threads: one reloads, one waits for the lock, one uses the token; two new tokens; a file that is unreadable at any time |

Calls that end stop there, so most runs do not check deadlock; `retrier` and
`token_reload`, which go on for ever, do.  That calls do end is what
`TransferIsAtomic`, `StopEnds` and `RunnerEnds` say.  The type invariants of the
modules are not part of the runs; where they are proved, section 5 says so.

### Disagreements with what the repository says

Two runs state what a comment of the repository says and fail:

* `upload_retry`: a retried `upload(fd)` of an unchanged file fails with
  "unexpected end of file", as the descriptor is rewound outside of the lambda
  (client.cpp:483).  It never commits wrong data.
* `streamer_write_failure`: a failed write makes the monitoring thread join
  itself, which terminates the program (standardoutputstreamer.cpp:75).

Others are built into the models, and the properties are stated around them:

* `downloadBlobs()` into an `OutputMap` returns normally although one blob of a
  batch has an error status (client.cpp:726; client.h:180 promises an
  exception).
* The stat monitor's `stop()` may lose data of a file that was closed before
  (streamingstandardoutputstatfilemonitor.cpp:69, 131, 135).  The inotify monitor
  loses nothing that the kernel has reported; what was in the file before the
  watch was set is read only with the next event, and a thread that polls
  before `inotify_init()` may end at once.
* A signal between the test of `d_signal_status` and `waitpid()` is noticed only
  when the command ends by itself or another signal comes (runner.cpp:494).
* `createMergedDigest()` does not notice that a directory has the name of a file
  or link of the other tree, against mergeutil.h, and lets
  `std::out_of_range` through when one of the trees is empty (mergeutil.cpp:296).
* `putArgs()` writes `--googleapi-auth` without the prefix that the other options
  get (connectionoptions.cpp:232), so a runner that reads with a prefix refuses
  it (`FlagLosesPrefix`).
* Google's credentials silently replace the certificates and the key that were
  given with them (`CredentialsAreUsedOrRefused` excepts them).
* The getter of a repeated scalar option returns its first value, the variable
  bound to it has the last; an argument whose second character is a dash is read
  as an option, an empty one is read past its end (`Readable`); required
  positionals are only counted, so that an optional one before them takes their
  place.
* `joinPathSegmentsNoEscape()` is not exact below `..`, nor below `.` for absolute
  paths (`InexactBase`); below `/` it refuses paths that cannot leave.
  `makePathRelative()` makes an absolute path of `/a//b` seen from `/a`.
* The uploads of single blobs of an output directory, and the status of
  `captureTree()`, are not looked at (fallbackstageddirectory.cpp:127,
  localcasstageddirectory.cpp:118): the result may refer to blobs that are not
  in the CAS (`ignored`).  An output directory named by the empty string, which
  remote_execution.proto:524 allows for the working directory and 1124 as the path
  of the result, is captured and uploaded, but missing from the result:
  `captureDirectory()` gives the entry that name, and an entry without path counts
  as not found (stageddirectory.cpp:70, 172); a file with an empty name likewise
  (58, 160).  `CaptureIsExact` excepts both.  `openDirectoryInInputRoot()` leaves a descriptor open
  when it fails below the first level (stageddirectory.cpp:303), and so does
  `captureFile()` when the file cannot be hashed (fallbackstageddirectory.cpp:151;
  `fds`).

### Fairness

* `GrpcRetrier`, the transfers, the blob loops: the calling thread runs on, and
  an invocation comes back.  The server owes an answer (or a broken stream)
  and nothing else; in particular it need not commit.
* `StandardOutputStreamer`: each of the two threads is scheduled (weak fairness
  of its steps, since none of them is disabled by the other for ever unless
  it waits for it), and RPCs are answered.  The process need not write or close,
  and nobody has to call `stop()`.
* `Runner`: the runner is scheduled, its RPCs are answered, and SIGKILL takes
  effect.  The command may run for ever.
* `ReloadTokenAuthenticator`: time passes, calls go on being made and each
  thread goes on.  Strong fairness of `TryLock`: `try_lock()` may fail for no
  reason, and when another thread has the lock, but not every time.  The file
  need not be readable; `NewTokenIsUsed` says what follows if it is from some
  time on, for a process that survives the failures before (section 3).
* The pure algorithms, `StagedDirectory` and `RunnerArguments` have only safety
  properties and no fairness.

## 5. Proofs

TLAPS proves, for every value of the constants within the named assumptions:

* `GrpcRetrierProofs`: type correctness and the three properties of `retrier`.
  The properties are not inductive: the invariant ties the length of the list of
  statuses and of sleeps to `d_retryAttempts` at each program counter
  (`CountInv`), says that all statuses but a final last one were retryable
  (`RetryableInv`), what a returned retrier has seen (`VerdictInv`), and that all
  sleeps have the current base as long as a first error has been seen
  (`SleepInv`).
* `MakeBatchesProofs`: type correctness and the four properties of `batches`, under
  `SaneServers`: no server states a limit that does not hold an empty request
  (1 to 255 bytes).  Without it the subtraction wraps around and `BatchesFit` is
  false.  The invariant says that the open batch is counted exactly and below
  the limit, so that no sum wraps around (`OpenBatchInv`, lemma `NoWrap`), and
  that the closed ones fit, follow one another and are maximal (`ClosedInv`).
  `RestIsTooLarge` then follows from the order of the list.  Sums of sizes are
  given by the constant operator `BytesUpTo`, specified by its recurrence in
  `BytesUpToAssumption`, which TLC evaluates.
* `BlobTransfersProofs`, of `uploadBlobs()`: type correctness, `NothingIsForgotten`,
  `ReportedOnce` and `FutureIsUntouched` for every number of requests, every
  batching and every sequence of failures.  The invariant: all requests before the
  current point are stored or reported, none twice, and none after it is either
  (`DoneUpTo`).
  Of `downloadBlobs()`: type correctness, `EveryDigestHasAStatus` and
  `OkMeansIntact`, for all lists of digests (`DownloadAssumption`: sequences over
  `Digests`) and any non-empty consecutive ranges.  The properties speak of the
  returned map; in between, the invariant says at each program counter up to
  which position every digest has been written or reported as failed (`Covered`)
  and beyond which none has (`Within`), and for the middle of a batch how much of
  this is only in the batch's own results yet (`ResponsesInv`).
* `ByteStreamTransferProofs`: `IntactDataFinishesIntact`, `ResumeIsExact`, and that
  the transfers implement `AtomicTransfer` without its fairness
  (`AtomicSafety`), for every blob, any data handed to `upload()`, any copies on
  the server, any chunk size and number of retries.  For `upload()` the invariant
  says which piece of the data the stream of this attempt has carried
  (`SentInv`): the string up to `offset`, or the last `offset` bytes before the
  position of the descriptor, which need not start at the beginning of the file
  after a retry.  That the whole size was sent then only leaves the piece that
  starts at 0.  For a download it says, between the attempts too, that the digest
  context has seen the file as far as it was written, and the blob as far if all
  copies were intact.  The refinement adds that the client takes no step once
  the call has an outcome (`UploadIsPending`, `DownloadIsPending`); every step
  is then one of `Move`, `Succeed`, `Fail`, or none.  `UploadAssumption` has
  `"OK" \notin ErrorCodes`: an error is not OK.
* `StandardOutputStreamerProofs`: type correctness and the four safety properties of
  `streamer`, with either monitor, for any file, buffer, minimum batch and number
  of retries.  The invariant relates the places of the two threads and the
  callback (`ThreadInv`), counts the bytes taken from the file as delivered or
  held (`ReadInv`) and the delivered ones as before the log, in it, or pending
  (`LogInv`), says that `commit()` comes after the last `write()`, also when the
  thread stops itself (`StopInv`), and that what was committed stays all
  (`CommitInv`).  None of the properties is inductive by itself, and
  `WriterIsNotShared` least: that the writer has one user at a time rests on where
  the thread is when `stop()` goes on to `commit()`.
* `RunnerProofs`: type correctness and the four safety properties of `runner`, for any
  exit codes and number of signals.  The invariant says what state the child is
  in wherever the runner is (`ChildInv`), that only an interrupted runner kills
  (`KillInv`), that it alone goes on without an exit code (`ResultInv`), and that
  a child that can be reaped has a status (`StatusInv`).  Lemma
  `ClearedAreStored`: the digests that `uploadOutputs()` keeps are of stored blobs,
  also when both outputs are the same blob.
* `ReloadTokenProofs`: `TokenNeverGoesBack`, an action property, for any number of
  threads and of new tokens.  It needs that at most one thread is between
  reading the file and setting the token (`LocksAreHeldWhereReleased`), and that
  what it has read is not older than the token in use (`ReadIsNotOlder`).
* `RunnerArgumentsProofs`: type correctness of `parse()` and the four properties of
  `commandline`, for any specifications, command lines of any length, any prefixes
  and any other arguments of the runner.

  `ValuesAreAsTyped` and `RefusedForAReason` compare the passes of `parse()` with a
  definition that reads the whole command line at once (`Reading`: which argument
  is an option, a value, or of the rest; `ItemsUpTo`: what has been typed for an
  option).  The invariant says for each pass how far the two agree (`ReadInv`):
  the loop over the options stands where an option may stand (`AtPlace`), and the
  entries and bound variables are those of the arguments before it
  (`EntriesUpTo`, `BoundUpTo`); after the checks everything required was typed
  (`RequiredTyped`); then the entries are complete, defaults included
  (`Entries`); and the loop over the positionals has used one argument for each
  that it has passed (`AtPositional`), of which there are `Enough`.  A refusal is
  compared with the definition's reasons where it happens (lemma `Refuses`).

  `SettingsReachTheRunner` needs that an argument that `parseArg()` would take for
  a setting is one that `putArgs()` wrote, and that each setting is the worker's
  already or still among the arguments to come, in whatever order they are
  (`RunnerInv`).  `CredentialsAreUsedOrRefused`, which relates the channel that the
  runner opens to the command line of the worker, follows from both invariants
  together (lemma `ChannelIsTyped`).

  What recursive functions such as `Reading` and `ItemsUpTo` compute, and that
  they exist, is proved from the smallest number for which it would be false
  (lemmas `Smallest` and `Recursion`), as the library's induction rules cannot be
  used here.

  Assumptions: texts have a start, a name and a value, and none of them is the
  marker for "not set" (`TextAssumption`); an option is specified once, positionals
  excepted (`SpecAssumption`: `d_parsedArgs` is a map by name, so that a second
  specification of a name is never looked at); the defaults of the retry settings
  are texts, as connectionoptions.h has them (`DefaultsAssumption`); a worker that
  has `--<prefix>remote` has all options of `ConnectionOptionsCommandLine`, which
  specifies them together (`WorkerAssumption`); and neither what the worker adds for the
  runner nor an option of the subclass is about the connection
  (`RunnerAssumption`), since it would then replace the setting, as it should.

Every inductive invariant was checked by TLC on the bounds of section 4 before
it was proved.

Only model-checked:

* liveness (`StopEnds`, `BatchIsDelivered`, `RunnerEnds`, `NewTokenIsUsed`, and that a
  transfer ends, in `TransferIsAtomic`): fairness and ENABLED are out of the
  prover's reach;
* the merging and merklizing of trees, staged directories and the path functions
  (`MergeIsTheUnion`, `RefusesOnlyClashes`, `TreeAgreesWithDigest`,
  `CaptureIsExact`, `OnlyDroppedReportsAreMissing`, `UnstagingIsExact`,
  `PathsLeadToTheSamePlace`, `EscapesAreExact`): they say what RECURSIVE operators
  over trees and paths compute, which the prover cannot reason about; a tree has
  no number along which the argument of `Smallest` would run without a
  definition of its depth, recursive again.

## 6. Not modelled

Formatting, usage texts, logging and hashing; the older `GrpcRetry`; request
metadata; metrics, a library of its own; the division of `FindMissingBlobs` into
requests (client.cpp:1184), `getTree()` and `fetchTree()`;
`copyFile()` and node properties; the setters of `ConnectionOptions`, which keep
a pointer into their caller's string (connectionoptions.cpp:59).  The component
list in `PROJECT.json` has the reasons.  Known weaknesses that the models show
but no property states: after a failed query of the write status the log starts
in the middle of the file and `stop()` may still return true; `uploadBlobs()`
lets a `std::logic_error` through; a digest requested twice in the directory
form may be truncated after it was reported as OK; a failed redirection makes
the child unwind as a second runner; the runner exits without an error status
when signals or the CAS client cannot be set up; and an error while the staged
directory is removed leaves a destructor and ends the process.
