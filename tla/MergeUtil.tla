------------------------------ MODULE MergeUtil ------------------------------
(***************************************************************************)
(* MergeUtil::createMergedDigest(): two Directory trees are flattened into *)
(* one map of paths, collisions are looked for on the way, and the merged  *)
(* tree is built from the map with NestedDirectory.                        *)
(*                                                                         *)
(* The trees are those of two directories on disk that were walked with    *)
(* make_nesteddirectory(), turned into Trees and fetched back from the     *)
(* CAS; the answer of the CAS may lack a subdirectory.                     *)
(***************************************************************************)
EXTENDS Merklize

CONSTANTS Disks,        \* directories: functions from names to entries on disk
          NoTree,       \* an empty DirectoryTree
          NoDigest      \* the empty Digest of a symlink

VARIABLES disk,         \* the directories the two arguments describe
          missing,      \* the subdirectories the fetched trees lack
          pc,
          map,          \* PathNodeMetaDataMap
          added,        \* the paths already added to the result
          result,       \* the merged NestedDirectory
          ret           \* the outcome of createMergedDigest()

vars == <<disk, missing, pc, map, added, result, ret>>

Sides == {"input", "template"}

WalkedTree(side) == to_tree(make_nesteddirectory(disk[side], {"mtime"}, FALSE))

Empty(side) == disk[side] = NoTree

Fetched(side) ==
    IF Empty(side) THEN {}
    ELSE {WalkedTree(side).root} \union (WalkedTree(side).children \ missing)

\* buildDigestDirectoryMap() of both trees.
dsMap == {make_digest(d) : d \in Fetched("input") \union Fetched("template")}

Init ==
    /\ disk \in [Sides -> Disks \union {NoTree}]
    /\ missing \in {{}} \union
                   {{d} : d \in UNION {WalkedTree(s).children : s \in {t \in Sides : ~Empty(t)}}}
    /\ pc = "start"
    /\ map = [path \in {} |-> path]
    /\ added = {}
    /\ result = EmptyDirectory
    /\ ret = "none"

-----------------------------------------------------------------------------
\* FileNodeMetaData, SymlinkNodeMetaData and DirNodeMetaData.
Node(path, kind, digest, executable, target) ==
    [path |-> path, kind |-> kind, digest |-> digest, is_executable |-> executable,
     target |-> target]

\* What buildFlattenedPath() visits.  A subdirectory that dsMap does not know
\* is entered in the map, its contents are skipped.
RECURSIVE Visited(_, _)
Visited(directory, dirName) ==
    LET newPath(node) == Append(dirName, node.name)
    IN {Node(newPath(f), "file", f.digest, f.is_executable, "") : f \in directory.files}
       \union {Node(newPath(s), "symlink", NoDigest, FALSE, s.target) : s \in directory.symlinks}
       \union {Node(newPath(d), "dir", d.digest, FALSE, "") : d \in directory.directories}
       \union UNION {Visited(d.digest.hash, newPath(d)) :
                       d \in {e \in directory.directories : e.digest \in dsMap}}

\* Mutant: subdirectories of different contents count as a collision.
Collides_DirectoriesToo(existing, node) == existing.digest # node.digest

\* A file collides with any node of its path that differs in digest or mode,
\* a symlink with a symlink only, and a directory with nothing.
Collides(existing, node) ==
    \/ /\ node.kind = "file"
       /\ \/ existing.digest # node.digest
          \/ existing.is_executable # node.is_executable
    \/ /\ node.kind = "symlink" /\ existing.kind = "symlink"
       /\ existing.target # node.target

\* emplace() keeps the node that is already there.
buildFlattenedPath(nodes) ==
    map @@ [path \in {n.path : n \in nodes} |-> CHOOSE n \in nodes : n.path = path]

Done(outcome) == pc' = "done" /\ ret' = outcome

RejectEmptyTrees ==
    /\ pc = "start"
    /\ \A side \in Sides : Empty(side)
    /\ Done("false")
    /\ UNCHANGED <<disk, missing, map, added, result>>

\* tree.at(0) throws for an empty vector; of the two kinds of exception only
\* std::runtime_error is caught.
Flatten(side, before, after) ==
    /\ pc = before
    /\ \E s \in Sides : ~Empty(s)
    /\ IF Empty(side)
       THEN Done("std::out_of_range") /\ UNCHANGED map
       ELSE LET nodes == Visited(WalkedTree(side).root, <<>>)
                collision == \E n \in nodes : n.path \in DOMAIN map /\ Collides(map[n.path], n)
            IN IF collision
               THEN Done("false") /\ UNCHANGED map
               ELSE pc' = after /\ map' = buildFlattenedPath(nodes) /\ UNCHANGED ret
    /\ UNCHANGED <<disk, missing, added, result>>

FlattenInput == Flatten("input", "start", "template")
FlattenTemplate == Flatten("template", "template", "build")

addToNestedDirectory(dir, node) ==
    CASE node.kind = "file" -> add(dir, File(node.digest, node.is_executable, NoMtime), node.path)
      [] node.kind = "symlink" -> addSymlink(dir, node.target, node.path)
      [] node.kind = "dir" -> addDirectory(dir, node.path)

\* The map is unordered: its nodes are added in any order.
AddNode ==
    /\ pc = "build"
    /\ \E path \in DOMAIN map \ added :
         /\ result' = addToNestedDirectory(result, map[path])
         /\ added' = added \union {path}
    /\ UNCHANGED <<disk, missing, pc, map, ret>>

newDirectoryBlobs == digestMap(result)

\* Mutant: only the merged root is listed.
mergedDirectoryList_RootOnly == {to_digest(result)} \ dsMap

mergedDirectoryList == newDirectoryBlobs \ dsMap

Return ==
    /\ pc = "build"
    /\ added = DOMAIN map
    /\ Done("true")
    /\ UNCHANGED <<disk, missing, map, added, result>>

Next == RejectEmptyTrees \/ FlattenInput \/ FlattenTemplate \/ AddNode \/ Return

Spec == Init /\ [][Next]_vars

-----------------------------------------------------------------------------
(* Reference definitions: what a directory on disk, or a tree in a CAS,    *)
(* holds, as a set of paths with their contents.                           *)

RECURSIVE Listing(_, _)
Listing(entries, prefix) ==
    UNION {LET e == entries[n]
               path == Append(prefix, n)
           IN CASE e.kind = "file" -> {<<path, "file", <<e.digest, e.is_executable>>>>}
                [] e.kind = "symlink" -> {<<path, "symlink", <<e.target>>>>}
                [] e.kind = "dir" -> {<<path, "dir", <<>>>>} \union Listing(e.entries, path)
                [] OTHER -> {} : n \in DOMAIN entries}

RECURSIVE CasListing(_, _, _)
CasListing(digest, prefix, cas) ==
    IF digest \notin cas THEN {<<prefix, "not in the CAS", <<>>>>}
    ELSE LET d == digest.hash IN
         {<<Append(prefix, f.name), "file", <<f.digest, f.is_executable>>>> : f \in d.files}
         \union {<<Append(prefix, s.name), "symlink", <<s.target>>>> : s \in d.symlinks}
         \union {<<Append(prefix, s.name), "dir", <<>>>> : s \in d.directories}
         \union UNION {CasListing(s.digest, Append(prefix, s.name), cas) : s \in d.directories}

Listed(side) == IF Empty(side) THEN {} ELSE Listing(disk[side], <<>>)

\* Two entries of one path that no directory can hold both of.
Clash(e, f) == e[1] = f[1] /\ (e[2] # f[2] \/ e[3] # f[3])

Clashes == {p \in Listed("input") \X Listed("template") : Clash(p[1], p[2])}

\* A merge that succeeds on complete trees that do not clash yields their
\* union, read back from a CAS that holds the two trees and was sent nothing
\* but mergedDirectoryList; whatever order the map was iterated in.
MergeIsTheUnion ==
    (ret = "true" /\ missing = {} /\ Clashes = {}) =>
        CasListing(to_digest(result), <<>>, dsMap \union mergedDirectoryList)
            = Listed("input") \union Listed("template")

\* createMergedDigest() returns false for two empty trees and for trees that
\* clash, never for trees that can be merged; a subdirectory of which the
\* two trees hold different versions is no collision.
RefusesOnlyClashes ==
    ret = "false" => Clashes # {} \/ \A side \in Sides : Empty(side)

\* to_tree() and to_digest() are two traversals of one NestedDirectory: the
\* root of the Tree has the digest to_digest() returns, and its children are
\* the other Directories that to_digest() leaves in the digest map.
TreeAgreesWithDigest ==
    LET tree == to_tree(result)
    IN /\ make_digest(tree.root) = to_digest(result)
       /\ {make_digest(d) : d \in tree.children} \union {to_digest(result)} = digestMap(result)
=============================================================================
