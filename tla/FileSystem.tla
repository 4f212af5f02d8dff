----------------------------- MODULE FileSystem -----------------------------
(***************************************************************************)
(* A file system as the code in FileUtils, DirentWrapper and               *)
(* StagedDirectoryUtils sees it: a function from absolute paths (sequences *)
(* of names) to nodes.  A node is a record of its kind: "file" with a      *)
(* digest and a mode, "dir", "symlink" with the absolute path it names, or *)
(* "other".  The system calls are external; what the functions above make  *)
(* of them is translated from the source.                                  *)
(***************************************************************************)
EXTENDS Merklize, SequencesExt

DirNode == [kind |-> "dir"]
FileNode(file) == [kind |-> "file"] @@ file

Ok(path) == [errno |-> "", path |-> path]
Err(errno) == [errno |-> errno, path |-> <<>>]

IsKind(fs, path, kind) == path \in DOMAIN fs /\ fs[path].kind = kind

\* lstat() follows links on the way and not at the end, stat() there as well.
RECURSIVE Stat(_, _)
LStat(fs, path) ==
    LET parent == Stat(fs, Front(path))
        here == Append(parent.path, Last(path))
    IN CASE parent.errno # "" -> parent
         [] ~IsKind(fs, parent.path, "dir") -> Err("ENOTDIR")
         [] here \notin DOMAIN fs -> Err("ENOENT")
         [] OTHER -> Ok(here)

Stat(fs, path) ==
    IF path = <<>> THEN Ok(<<>>)
    ELSE LET here == LStat(fs, path) IN
         CASE here.errno # "" -> here
           [] ~IsKind(fs, here.path, "symlink") -> here
           [] fs[here.path].target \in DOMAIN fs -> Ok(fs[here.path].target)
           [] OTHER -> Err("ENOENT")

mkdir(fs, path) ==
    LET parent == Stat(fs, Front(path))
        here == Append(parent.path, Last(path))
    IN CASE path = <<>> -> [errno |-> "EEXIST", fs |-> fs]
         [] parent.errno # "" -> [errno |-> parent.errno, fs |-> fs]
         [] ~IsKind(fs, parent.path, "dir") -> [errno |-> "ENOTDIR", fs |-> fs]
         [] here \in DOMAIN fs -> [errno |-> "EEXIST", fs |-> fs]
         [] OTHER -> [errno |-> "", fs |-> (here :> DirNode) @@ fs]

\* createDirectory(): whatever exists at the path counts as the directory,
\* unless the parent had to be made first.
RECURSIVE createDirectoriesInPath(_, _)
createDirectoriesInPath(fs, path) ==
    LET made == mkdir(fs, path)
        parents == createDirectoriesInPath(fs, Front(path))
    IN CASE made.errno \in {"", "EEXIST"} -> [made EXCEPT !.errno = ""]
         [] made.errno # "ENOENT" -> made
         [] parents.errno # "" -> parents
         [] OTHER -> mkdir(parents.fs, path)

Below(fs, path) == {p \in DOMAIN fs : IsPrefix(path, p)}

Without(fs, paths) == [p \in DOMAIN fs \ paths |-> fs[p]]

\* Mutant: DirentWrapper::currentEntryIsDirectory() follows links.
deleteDirectory_FollowsLinks(fs, path) ==
    LET links == {p \in Below(fs, path) : fs[p].kind = "symlink"}
    IN Without(fs, UNION {Below(fs, fs[p].target) : p \in links} \union Below(fs, path))

\* deleteRecursively(): a link is an entry to unlink, never a directory to
\* enter.
deleteDirectory(fs, path) == Without(fs, Below(fs, path))

\* The entries of a directory as make_nesteddirectory() walks them.
RECURSIVE EntriesOf(_, _)
EntriesOf(fs, dir) ==
    LET names == {Last(p) : p \in {q \in Below(fs, dir) : Len(q) = Len(dir) + 1}}
        entry(p) == IF fs[p].kind = "dir"
                    THEN [kind |-> "dir", entries |-> EntriesOf(fs, p)] ELSE fs[p]
    IN [n \in names |-> entry(Append(dir, n))]

-----------------------------------------------------------------------------
(* StagedDirectoryUtils: every component is opened below the one before    *)
(* with O_NOFOLLOW.                                                        *)

\* Where openDirectoryInInputRoot() arrives; "." stays where it is.  A link
\* is no directory.
RECURSIVE openDirectoryInInputRoot(_, _, _)
openDirectoryInInputRoot(fs, root, path) ==
    IF path = <<>> THEN Ok(root)
    ELSE LET next == IF Head(path) = "." THEN root ELSE Append(root, Head(path))
         IN CASE next \notin DOMAIN fs -> Err("ENOENT")
              [] fs[next].kind # "dir" -> Err("ENOTDIR")
              [] OTHER -> openDirectoryInInputRoot(fs, next, Tail(path))

\* The descriptor of the last directory but one is never closed.
DescriptorsLeft(fs, root, path) ==
    IF Len(path) > 1 /\ IsKind(fs, Append(root, Head(path)), "dir") THEN 1 ELSE 0

\* Mutant: the file is opened without O_NOFOLLOW.
openFileInInputRoot_FollowsLinks(fs, root, path) ==
    LET dir == openDirectoryInInputRoot(fs, root, Front(path))
    IN IF dir.errno # "" THEN dir ELSE Stat(fs, Append(dir.path, Last(path)))

\* The file itself may be a directory, but no link; a socket cannot be opened.
openFileInInputRoot(fs, root, path) ==
    LET dir == openDirectoryInInputRoot(fs, root, Front(path))
        here == IF Last(path) = "." THEN dir.path ELSE Append(dir.path, Last(path))
    IN CASE dir.errno # "" -> dir
         [] here \notin DOMAIN fs -> Err("ENOENT")
         [] fs[here].kind = "symlink" -> Err("ELOOP")
         [] fs[here].kind = "other" -> Err("ENXIO")
         [] OTHER -> Ok(here)
=============================================================================
