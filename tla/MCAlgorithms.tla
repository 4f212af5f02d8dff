---------------------------- MODULE MCAlgorithms ----------------------------
(***************************************************************************)
(* The pure algorithms next to each other: a merge of two directories or   *)
(* a call of a path function.  The directories have two names at the top   *)
(* and one name below, files of two contents, one of them also executable, *)
(* links to two targets, and a socket, which a walk leaves out.            *)
(***************************************************************************)
EXTENDS MergeUtil

CONSTANTS d1, d2,       \* contents of files
          Escaping, Pending, NoCall

VARIABLES call, answer

FileEntry(d, x) == [kind |-> "file", digest |-> d, is_executable |-> x, mtime |-> 1]
Link(t) == [kind |-> "symlink", target |-> t, leadsTo |-> [kind |-> "none"]]
Dir(entries) == [kind |-> "dir", entries |-> entries]

Leaves == {FileEntry(d1, FALSE), FileEntry(d1, TRUE), FileEntry(d2, FALSE), Link("t1"), Link("t2")}

Below == {Dir(NoEntries)} \union {Dir("c" :> e) : e \in Leaves \ {FileEntry(d1, TRUE)}}

Named(name, entries) == {NoEntries} \union {name :> e : e \in entries}

MCDisks ==
    {x @@ y : x \in Named("a", Leaves \union Below),
              y \in Named("b", {FileEntry(d1, FALSE), Link("t1"), [kind |-> "other"],
                                Dir("c" :> FileEntry(d1, FALSE))})}

\* Paths of up to three segments, and absolute paths of up to five characters
\* that no two slashes follow each other in.
SegmentSeqs(n) == [1 .. n -> {"a", "ab", "..", ".", ""}]
PathArgs == UNION {SegmentSeqs(n) : n \in 1 .. 3}
TextArgs ==
    {t \in UNION {[1 .. n -> {"/", "a", "b"}] : n \in 1 .. 5} :
        t[1] = "/" /\ \A i \in 1 .. Len(t) - 1 : ~(t[i] = "/" /\ t[i + 1] = "/")}

P == INSTANCE PathCalls WITH Paths <- PathArgs, Texts <- TextArgs

AlgorithmsInit ==
    \/ Init /\ call = NoCall /\ answer = Pending
    \/ /\ P!Init
       /\ disk = [s \in Sides |-> NoTree] /\ missing = {} /\ pc = "done" /\ map = NoEntries
       /\ added = {} /\ result = EmptyDirectory /\ ret = "none"

AlgorithmsNext ==
    \/ Next /\ UNCHANGED <<call, answer>>
    \/ call # NoCall /\ P!Return /\ UNCHANGED vars

AlgorithmsSpec == AlgorithmsInit /\ [][AlgorithmsNext]_<<vars, call, answer>>

PathsLeadToTheSamePlace == call # NoCall => P!PathsLeadToTheSamePlace
EscapesAreExact == call # NoCall => P!EscapesAreExact
=============================================================================
