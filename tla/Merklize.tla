------------------------------ MODULE Merklize ------------------------------
(***************************************************************************)
(* buildboxcommon_merklize: the NestedDirectory a tree is built in, its    *)
(* conversion to Directory messages, digests and a Tree message, and the   *)
(* walk that builds one from a directory on disk.                          *)
(*                                                                         *)
(* A digest is the message it identifies, wrapped by make_digest(): two    *)
(* messages have one digest exactly when they are equal.  The repeated     *)
(* fields of a Directory are filled from maps sorted by name, so a set     *)
(* stands for them.  A path is the sequence of what lies between its       *)
(* slashes, so that "/a//b" is <<"", "a", "", "b">>.                       *)
(***************************************************************************)
EXTENDS Naturals, Sequences, FiniteSets, TLC

CONSTANT NoMtime    \* d_mtime_set is false

make_digest(message) == [hash |-> message]

NoEntries == [name \in {} |-> name]

\* The default-constructed NestedDirectory.
EmptyDirectory == [files |-> NoEntries, symlinks |-> NoEntries, subdirs |-> NoEntries]

File(digest, executable, mtime) ==
    [digest |-> digest, is_executable |-> executable, mtime |-> mtime]

-----------------------------------------------------------------------------
(* add(), addSymlink() and addDirectory() walk down the same way, creating *)
(* the subdirectories on the way (map::operator[]) and skipping the empty  *)
(* components of a path, and differ in what they leave at its end.         *)

Subdir(dir, name) ==
    IF name \in DOMAIN dir.subdirs THEN dir.subdirs[name] ELSE EmptyDirectory

Leaf(dir, kind, value, name) ==
    CASE kind = "file"    -> [dir EXCEPT !.files = (name :> value) @@ @]
      [] kind = "symlink" -> [dir EXCEPT !.symlinks = (name :> value) @@ @]
      [] kind = "dir"     -> [dir EXCEPT !.subdirs = @ @@ (name :> EmptyDirectory)]

RECURSIVE Insert(_, _, _, _)
Insert(dir, kind, value, path) ==
    CASE kind = "dir" /\ path = <<"", "">> -> dir     \* "/" is no directory
      [] Len(path) = 1 -> Leaf(dir, kind, value, path[1])
      [] path[1] = "" -> Insert(dir, kind, value, Tail(path))
      [] OTHER -> [dir EXCEPT !.subdirs =
                     (path[1] :> Insert(Subdir(dir, path[1]), kind, value, Tail(path))) @@ @]

add(dir, file, path) == Insert(dir, "file", file, path)
addSymlink(dir, target, path) == Insert(dir, "symlink", target, path)
addDirectory(dir, path) == Insert(dir, "dir", EmptyDirectory, path)

-----------------------------------------------------------------------------
to_filenode(file, name) ==
    [name |-> name, digest |-> file.digest, is_executable |-> file.is_executable,
     mtime |-> file.mtime]

\* The Directory of a node whose subdirectories have the given digests.
Message(dir, digests) ==
    [files |-> {to_filenode(dir.files[n], n) : n \in DOMAIN dir.files},
     symlinks |-> {[name |-> n, target |-> dir.symlinks[n]] : n \in DOMAIN dir.symlinks},
     directories |-> {[name |-> n, digest |-> digests[n]] : n \in DOMAIN dir.subdirs}]

RECURSIVE to_digest(_)
to_digest(dir) ==
    make_digest(Message(dir, [n \in DOMAIN dir.subdirs |-> to_digest(dir.subdirs[n])]))

\* The digestMap that to_digest() fills: the Directory of every subdirectory.
RECURSIVE digestMap(_)
digestMap(dir) ==
    {to_digest(dir)} \union UNION {digestMap(dir.subdirs[n]) : n \in DOMAIN dir.subdirs}

\* to_tree() computes the digests once more, from the roots of the subtrees.
RECURSIVE to_tree(_)

\* Mutant: the children of a subtree are copied, its root is not.
to_tree_WithoutSubtreeRoots(dir) ==
    LET subtree == [n \in DOMAIN dir.subdirs |-> to_tree(dir.subdirs[n])]
    IN [root |-> Message(dir, [n \in DOMAIN subtree |-> make_digest(subtree[n].root)]),
        children |-> UNION {subtree[n].children : n \in DOMAIN subtree}]

to_tree(dir) ==
    LET subtree == [n \in DOMAIN dir.subdirs |-> to_tree(dir.subdirs[n])]
    IN [root |-> Message(dir, [n \in DOMAIN subtree |-> make_digest(subtree[n].root)]),
        children |-> UNION {subtree[n].children \union {subtree[n].root} : n \in DOMAIN subtree}]

-----------------------------------------------------------------------------
(* make_nesteddirectory().  An entry on disk is a record of its kind:      *)
(* "file" (content and mode bits), "dir" (its entries), "symlink" (the     *)
(* target's text and the entry it leads to) or "other".  A dangling link   *)
(* leads to an entry of kind "none".                                       *)

\* fstatat() with or without AT_SYMLINK_NOFOLLOW.
Seen(entry, followSymlinks) ==
    IF entry.kind = "symlink" /\ followSymlinks THEN entry.leadsTo ELSE entry

WalkedFile(entry, properties) ==
    File(entry.digest, entry.is_executable, IF "mtime" \in properties THEN entry.mtime ELSE NoMtime)

\* Entries that cannot be stat'ed and entries of other kinds are left out.
RECURSIVE make_nesteddirectory(_, _, _)
make_nesteddirectory(entries, properties, followSymlinks) ==
    LET see(n) == Seen(entries[n], followSymlinks)
        named(kind) == {n \in DOMAIN entries : see(n).kind = kind}
    IN [files |-> [n \in named("file") |-> WalkedFile(see(n), properties)],
        symlinks |-> [n \in named("symlink") |-> see(n).target],
        subdirs |-> [n \in named("dir") |->
                       make_nesteddirectory(see(n).entries, properties, followSymlinks)]]

\* The pairs written into fileMap: for a digest, readdir()'s order decides
\* which of its paths stays.
RECURSIVE fileMap(_, _, _)
fileMap(entries, prefix, followSymlinks) ==
    LET see(n) == Seen(entries[n], followSymlinks)
        path(n) == Append(prefix, n)
    IN UNION {CASE see(n).kind = "file" -> {<<see(n).digest, path(n)>>}
                [] see(n).kind = "dir" -> fileMap(see(n).entries, path(n), followSymlinks)
                [] OTHER -> {} : n \in DOMAIN entries}
=============================================================================
