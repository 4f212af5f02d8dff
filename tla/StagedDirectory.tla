--------------------------- MODULE StagedDirectory ---------------------------
(***************************************************************************)
(* The life of a staged directory: FallbackStagedDirectory downloads it    *)
(* with Client::downloadDirectory() into a TemporaryDirectory,             *)
(* LocalCasStagedDirectory has the server stage it; the runner creates the *)
(* directories its outputs need; the command runs; captureAllOutputs()     *)
(* turns its outputs into entries of the ActionResult and uploads them;    *)
(* the destructors remove the directory again.                             *)
(*                                                                         *)
(* Nothing but the command changes the input root, and it has ended when   *)
(* the outputs are captured (stageddirectory.h states this assumption).    *)
(***************************************************************************)
EXTENDS FileSystem, FilePaths

CONSTANTS InputRoots,   \* NestedDirectories
          Commands,     \* records: working_directory, uses, outputs
          Effects,      \* what a command may leave in its input root
          Surroundings, \* the file system without the staged directory
          NoDigest      \* the digest of a response without one

VARIABLES mechanism,    \* "Fallback" or "LocalCas"
          input,        \* the directory that is staged
          command,
          pc,
          fs,
          cas,          \* the digests of the blobs that the CAS holds
          next,         \* the next output to capture
          result,       \* the output entries of the ActionResult
          ignored,      \* digests whose upload failed and was not noticed
          fds           \* descriptors open in this process

vars == <<mechanism, input, command, pc, fs, cas, next, result, ignored, fds>>
args == <<mechanism, input, command>>

StagePath == <<"stage">>

\* The blobs a directory consists of: its files and its Directories.
RECURSIVE BlobsOf(_)
BlobsOf(dir) ==
    {dir.files[n].digest : n \in DOMAIN dir.files} \union digestMap(dir)
    \union UNION {BlobsOf(dir.subdirs[n]) : n \in DOMAIN dir.subdirs}

Init ==
    /\ mechanism \in {"Fallback", "LocalCas"}
    /\ input \in InputRoots
    /\ command \in Commands
    /\ pc = "stage"
    /\ fs = Surroundings
    /\ cas = BlobsOf(input)
    /\ next = 1
    /\ result = {}
    /\ ignored = {}
    /\ fds = 0

Throw == pc' = "unwinding"

-----------------------------------------------------------------------------
(* Staging.                                                                *)

\* Client::downloadDirectory(): files, then subdirectories, then links.  A
\* link without a target is skipped; the files in dropped are those for
\* which downloadBlobs() reports an error that is not looked at.
RECURSIVE downloadDirectory(_, _, _)
downloadDirectory(dir, path, dropped) ==
    LET at(n) == Append(path, n)
        links == {n \in DOMAIN dir.symlinks : dir.symlinks[n] # <<>>}
        files == {n \in DOMAIN dir.files : at(n) \notin dropped}
        subdirs == DOMAIN dir.subdirs
        placed(S, Node(_)) == [p \in {at(n) : n \in S} |-> Node(Last(p))]
        below == {downloadDirectory(dir.subdirs[n], at(n), dropped) : n \in subdirs}
    IN placed(files, LAMBDA n : FileNode(dir.files[n]))
       @@ placed(subdirs, LAMBDA n : DirNode)
       @@ placed(links, LAMBDA n : [kind |-> "symlink", target |-> dir.symlinks[n]])
       @@ FoldLeft(LAMBDA f, g : f @@ g, NoEntries, SetToSeq(below))

Staged(dropped) == fs @@ (StagePath :> DirNode) @@ downloadDirectory(input, StagePath, dropped)

\* The constructor of FallbackStagedDirectory.
DownloadToTemporaryDirectory ==
    /\ pc = "stage" /\ mechanism = "Fallback"
    /\ \E dropped \in SUBSET {p \in DOMAIN Staged({}) : IsKind(Staged({}), p, "file")
                                                        /\ IsPrefix(StagePath, p)} :
         fs' = Staged(dropped)
    /\ fds' = fds + 1
    /\ pc' = "prepare"
    /\ UNCHANGED <<args, cas, next, result, ignored>>

\* A Directory that cannot be fetched, or a download, mkdir() or symlink()
\* that fails, throws out of the constructor.  TemporaryDirectory removes
\* what is there by then; the descriptor is left, as the destructor that
\* closes it does not run.
DownloadFails ==
    /\ pc = "stage" /\ mechanism = "Fallback"
    /\ pc' = "failed"
    /\ fds' = fds + 1
    /\ fs' = deleteDirectory(Staged({}), StagePath)
    /\ UNCHANGED <<args, cas, next, result, ignored>>

\* mkdtemp() or the open() after it fails, or the LocalCAS server cannot be
\* written to or does not answer: nothing was staged.
StagingFails ==
    /\ pc = "stage"
    /\ pc' = "failed"
    /\ UNCHANGED <<args, fs, cas, next, result, ignored, fds>>

\* Client::stage() and the constructor of LocalCasStagedDirectory.
StageTree ==
    /\ pc = "stage" /\ mechanism = "LocalCas"
    /\ fs' = Staged({})
    /\ fds' = fds + 1
    /\ pc' = "prepare"
    /\ UNCHANGED <<args, cas, next, result, ignored>>

\* The staged directory cannot be opened: ~Client::StagedDirectory() still
\* tells the server to clean up.
StagedPathNotOpened ==
    /\ pc = "stage" /\ mechanism = "LocalCas"
    /\ fs' = deleteDirectory(Staged({}), StagePath)
    /\ pc' = "failed"
    /\ UNCHANGED <<args, cas, next, result, ignored, fds>>

-----------------------------------------------------------------------------
(* Runner::createOutputDirectories(), and the command.                     *)

\* The directories that lead to the outputs, in their order.
OutputParents ==
    LET nested == SelectSeq(command.outputs, LAMBDA o : Len(o.name) > 1)
        from == StagePath \o command.working_directory
        parent(o) == normalizePath(<<"">> \o from \o Front(o.name))
    IN [i \in DOMAIN nested |-> SelectSeq(parent(nested[i]), LAMBDA s : s # "")]

CreateOutputDirectories ==
    LET made == FoldLeft(LAMBDA m, dir : IF m.errno # "" THEN m
                                         ELSE createDirectoriesInPath(m.fs, dir),
                         [errno |-> "", fs |-> fs], OutputParents)
    IN /\ pc = "prepare"
       /\ fs' = made.fs
       /\ IF made.errno # "" THEN Throw ELSE pc' = "run"
       /\ UNCHANGED <<args, cas, next, result, ignored, fds>>

\* The command leaves something at a path, if it can get there.
RunCommand ==
    /\ pc = "run"
    /\ \E e \in Effects :
         LET path == StagePath \o e.path
             parent == Stat(fs, Front(path))
         IN fs' = IF parent.errno # "" \/ ~IsKind(fs, parent.path, "dir") THEN fs
                  ELSE LET here == Append(parent.path, Last(path))
                       IN [p \in {here \o Tail(q) : q \in DOMAIN e.nodes} |->
                             e.nodes[<<"*">> \o SubSeq(p, Len(here) + 1, Len(p))]]
                          @@ Without(fs, Below(fs, here))
    /\ pc' = "capture"
    /\ UNCHANGED <<args, cas, next, result, ignored, fds>>

-----------------------------------------------------------------------------
(* StagedDirectory::captureAllOutputs().                                   *)

\* getWorkingDirectory(): normalized, relative and inside, or it throws.
WorkingDirectory == normalizePath(command.working_directory)

WorkingDirectoryIsInvalid ==
    /\ command.working_directory # EmptyString
    /\ IsAbsolute(WorkingDirectory) \/ EscapesAboveAll(WorkingDirectory)

\* pathInInputRoot(), and the two assertions it makes.
PathInInputRoot(name) ==
    normalizePath((IF command.working_directory = EmptyString THEN <<>> ELSE WorkingDirectory) \o name)

NameIsInvalid(name) ==
    IsAbsolute(name) \/ EndsInSlash(name) \/ EscapesAboveAll(PathInInputRoot(name))

Output == command.outputs[next]
RelativePath == PathInInputRoot(Output.name)
AbsolutePath == Tail(makePathAbsolute(RelativePath, <<"">> \o StagePath))

\* With output_paths the kind of an output is that of the node, without it
\* the list that it is in decides.
Status == LStat(fs, AbsolutePath)
CaptureAs ==
    CASE command.uses = "lists" -> Output.as
      [] Status.errno = "ENOENT" -> "nothing"
      [] Status.errno # "" -> "error"
      [] fs[Status.path].kind \in {"file", "dir"} -> fs[Status.path].kind
      [] OTHER -> "error"

Capturing(kind) ==
    /\ pc = "capture"
    /\ next <= Len(command.outputs)
    /\ ~WorkingDirectoryIsInvalid
    /\ ~NameIsInvalid(Output.name)
    /\ CaptureAs = kind

\* What captureFile() or captureDirectory() returns: the path that the subclass
\* set, which is never empty, has been replaced by the output's name.
Entry(kind, digest, executable) ==
    [path |-> Output.name, kind |-> kind, digest |-> digest, is_executable |-> executable]

\* An empty path is taken for "not found": the entry of an output whose name is
\* empty is dropped, although it was captured.
Captured(entries) ==
    /\ result' = result \union {e \in entries : e.path # EmptyString}
    /\ next' = next + 1
    /\ UNCHANGED <<args, pc, fs>>

\* A path outside of the input root, or with slashes at its ends; a node that
\* is neither file nor directory; lstat() failing with ENOTDIR.
CaptureRefused ==
    /\ pc = "capture"
    /\ \/ WorkingDirectoryIsInvalid
       \/ next <= Len(command.outputs) /\ NameIsInvalid(Output.name)
       \/ Capturing("error")
    /\ Throw
    /\ UNCHANGED <<args, fs, cas, next, result, ignored, fds>>

\* "Do not fail with paths that do not exist".
OutputDoesNotExist ==
    /\ Capturing("nothing")
    /\ Captured({})
    /\ UNCHANGED <<cas, ignored, fds>>

OpenedFile == openFileInInputRoot(fs, StagePath, RelativePath)
FileFds == fds + DescriptorsLeft(fs, StagePath, Front(RelativePath))

\* captureFile() of both subclasses.  What is not there is left out; another
\* error leaves it out or throws.
FileNotFound ==
    /\ Capturing("file")
    /\ OpenedFile.errno # ""
    /\ fds' = FileFds
    /\ IF mechanism = "LocalCas" \/ OpenedFile.errno \in {"ENOENT", "ENOTDIR"}
       THEN Captured({})
       ELSE Throw /\ UNCHANGED <<args, fs, next, result>>
    /\ UNCHANGED <<cas, ignored>>

\* Hashed and uploaded through one descriptor, or captured by the server.
CaptureFile ==
    /\ Capturing("file")
    /\ OpenedFile.errno = ""
    /\ fs[OpenedFile.path].kind = "file"
    /\ LET node == fs[OpenedFile.path]
       IN /\ cas' = cas \union {node.digest}
          /\ Captured({Entry("file", node.digest, node.is_executable)})
    /\ fds' = FileFds
    /\ UNCHANGED ignored

\* The upload fails, the server answers with an error or with nothing, or the
\* file cannot be hashed, which is so for a directory.  A failed upload closes
\* the descriptor, an exception of CASHash::hash() leaves it open.
CaptureFileFails ==
    /\ Capturing("file")
    /\ OpenedFile.errno = ""
    /\ Throw
    /\ \/ /\ mechanism = "LocalCas" \/ fs[OpenedFile.path].kind = "file"
          /\ fds' = FileFds
       \/ /\ mechanism = "Fallback"
          /\ fds' = FileFds + 1
    /\ UNCHANGED <<args, fs, cas, next, result, ignored>>

OpenedDirectory == openDirectoryInInputRoot(fs, StagePath, RelativePath)
DirectoryFds == fds + DescriptorsLeft(fs, StagePath, RelativePath)

DirectoryNotFound ==
    /\ Capturing("dir")
    /\ OpenedDirectory.errno # ""
    /\ Captured({})
    /\ fds' = DirectoryFds
    /\ UNCHANGED <<cas, ignored>>

\* A captured directory and the digest of its Tree.
Walked(path) == make_nesteddirectory(EntriesOf(fs, path), {}, FALSE)
TreeDigest(dir) == make_digest(to_tree(dir))

\* Mutant: only the blobs of the top directory are sent.
UploadDirectory_TreeOnly ==
    /\ Capturing("dir") /\ mechanism = "Fallback"
    /\ OpenedDirectory.errno = ""
    /\ LET dir == Walked(OpenedDirectory.path)
       IN /\ cas' = cas \union {to_digest(dir), TreeDigest(dir)}
          /\ Captured({Entry("dir", TreeDigest(dir), FALSE)})
    /\ fds' = DirectoryFds
    /\ UNCHANGED ignored

\* FallbackStagedDirectory::uploadDirectory(): Client::uploadDirectory()
\* sends what findMissingBlobs() names and returns what failed; that is
\* dropped, and the Tree is uploaded.
UploadDirectory ==
    /\ Capturing("dir") /\ mechanism = "Fallback"
    /\ OpenedDirectory.errno = ""
    /\ LET dir == Walked(OpenedDirectory.path)
           missing == BlobsOf(dir) \ cas
       IN \E failed \in SUBSET missing :
            /\ cas' = cas \union (missing \ failed) \union {TreeDigest(dir)}
            /\ ignored' = ignored \union failed
            /\ Captured({Entry("dir", TreeDigest(dir), FALSE)})
    /\ fds' = DirectoryFds

\* LocalCasStagedDirectory::captureDirectory().  The status in the response
\* is not looked at: an error yields an entry without digest.
CaptureTree ==
    /\ Capturing("dir") /\ mechanism = "LocalCas"
    /\ OpenedDirectory.errno = ""
    /\ LET dir == Walked(OpenedDirectory.path)
       IN \/ /\ cas' = cas \union BlobsOf(dir) \union {TreeDigest(dir)}
             /\ Captured({Entry("dir", TreeDigest(dir), FALSE)})
             /\ UNCHANGED ignored
          \/ /\ ignored' = ignored \union {NoDigest}
             /\ Captured({Entry("dir", NoDigest, FALSE)})
             /\ UNCHANGED cas
    /\ fds' = DirectoryFds

\* The walk, findMissingBlobs(), uploadMessage() or the RPC fails.
CaptureDirectoryFails ==
    /\ Capturing("dir")
    /\ OpenedDirectory.errno = ""
    /\ Throw
    /\ fds' = DirectoryFds
    /\ UNCHANGED <<args, fs, cas, next, result, ignored>>

AllCaptured ==
    /\ pc = "capture"
    /\ ~WorkingDirectoryIsInvalid
    /\ next > Len(command.outputs)
    /\ pc' = "captured"
    /\ UNCHANGED <<args, fs, cas, next, result, ignored, fds>>

-----------------------------------------------------------------------------
(* The destructors.                                                        *)

Unstage ==
    /\ pc \in {"captured", "unwinding"}
    /\ pc' = IF pc = "captured" THEN "done" ELSE "failed"
    /\ fs' = deleteDirectory(fs, StagePath)
    /\ fds' = fds - 1
    /\ UNCHANGED <<args, cas, next, result, ignored>>

\* unlinkat() fails: the exception leaves ~TemporaryDirectory(), which ends
\* the process.
UnstageTerminates ==
    /\ pc \in {"captured", "unwinding"} /\ mechanism = "Fallback"
    /\ pc' = "terminated"
    /\ fds' = 0
    /\ UNCHANGED <<args, fs, cas, next, result, ignored>>

Next ==
    \/ DownloadToTemporaryDirectory \/ DownloadFails \/ StagingFails
    \/ StageTree \/ StagedPathNotOpened
    \/ CreateOutputDirectories \/ RunCommand
    \/ CaptureRefused \/ OutputDoesNotExist
    \/ FileNotFound \/ CaptureFile \/ CaptureFileFails
    \/ DirectoryNotFound \/ UploadDirectory \/ CaptureTree \/ CaptureDirectoryFails
    \/ AllCaptured \/ Unstage \/ UnstageTerminates

Spec == Init /\ [][Next]_vars

-----------------------------------------------------------------------------
(* What a path names when no link is followed anywhere: every directory on *)
(* the way is one.                                                         *)
ReachedPlainly(path) == \A i \in 0 .. Len(path) - 1 : IsKind(fs, SubSeq(path, 1, i), "dir")

ExpectedEntries ==
    LET node(o) == StagePath \o SelectSeq(PathInInputRoot(o.name), LAMBDA s : s # ".")
        kind(o) == IF ~ReachedPlainly(node(o)) \/ node(o) \notin DOMAIN fs THEN "none"
                   ELSE fs[node(o)].kind
        wanted == {o \in Range(command.outputs) :
                     kind(o) \in {"file", "dir"} /\ (command.uses = "lists" => kind(o) = o.as)}
        entry(o) ==
            IF kind(o) = "file"
            THEN [path |-> o.name, kind |-> "file", digest |-> fs[node(o)].digest,
                  is_executable |-> fs[node(o)].is_executable]
            ELSE [path |-> o.name, kind |-> "dir", digest |-> TreeDigest(Walked(node(o))),
                  is_executable |-> FALSE]
    IN {entry(o) : o \in wanted}

\* When captureAllOutputs() returns, the ActionResult holds exactly the
\* declared outputs that exist in the input root, with the digests of what is
\* there: nothing reached through a link or a .., nothing left out but what has
\* an empty name, which remote_execution.proto allows for the working directory
\* and the code drops.  (Of a tree whose capture failed unnoticed there is an
\* entry without digest.)
CaptureIsExact ==
    pc = "captured" =>
        {IF e.digest = NoDigest /\ e.kind = "dir" /\ NoDigest \in ignored
         THEN (CHOOSE x \in ExpectedEntries : x.path = e.path /\ x.kind = "dir") ELSE e : e \in result}
        = {e \in ExpectedEntries : e.path # EmptyString}

Needed(entry) ==
    IF entry.kind = "file" \/ entry.digest = NoDigest THEN {entry.digest}
    ELSE LET tree == entry.digest.hash
             dirs == {tree.root} \union tree.children
         IN {entry.digest} \union {make_digest(d) : d \in dirs}
            \union UNION {{f.digest : f \in d.files} : d \in dirs}

\* A blob that an entry of the result refers to is missing from the CAS only
\* if an upload or capture reported its failure and the report was dropped;
\* files, and anything not reported, are always there.
OnlyDroppedReportsAreMissing ==
    \A e \in result : Needed(e) \subseteq cas \union (IF e.kind = "dir" THEN ignored ELSE {})

\* When the staged directory is gone, by whatever way, so is all of its
\* content, and everything that was there before still is.
UnstagingIsExact ==
    pc \in {"done", "failed"} =>
        /\ Below(fs, StagePath) = {}
        /\ \A p \in DOMAIN Surroundings : p \in DOMAIN fs /\ fs[p] = Surroundings[p]
=============================================================================
