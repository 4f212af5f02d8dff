-------------------------- MODULE MCStagedDirectory --------------------------
(***************************************************************************)
(* Instances of StagedDirectory: an empty input root and one with a file,  *)
(* a subdirectory and a link that leads out of it; commands with outputs   *)
(* at the top, in a subdirectory, behind the link, at the root itself and  *)
(* outside; and commands that leave files, directories, links and a socket *)
(* where an output is expected.  An output may have an empty name.         *)
(***************************************************************************)
EXTENDS StagedDirectory

CONSTANTS d1, d2

F(d) == File(d, FALSE, NoMtime)

MCInputRoots ==
    {EmptyDirectory,
     [files |-> ("f" :> F(d1)), symlinks |-> ("l" :> <<"out">>) @@ ("e" :> <<>>),
      subdirs |-> ("a" :> [EmptyDirectory EXCEPT !.files = ("f" :> F(d1))])]}

MCSurroundings ==
    (<<>> :> DirNode) @@ (<<"out">> :> DirNode) @@ (<<"out", "x">> :> FileNode(F(d2)))

P(name) == [name |-> name, as |-> "any"]
LF(name) == [name |-> name, as |-> "file"]
LD(name) == [name |-> name, as |-> "dir"]
C(wd, uses, outputs) == [working_directory |-> wd, uses |-> uses, outputs |-> outputs]

MCCommands ==
    {C(EmptyString, "paths", <<P(<<"f">>), P(<<"a", "b">>)>>),
     C(EmptyString, "paths", <<P(<<"l", "x">>), P(<<"a">>)>>),
     C(EmptyString, "paths", <<P(<<"a", "b", "f">>)>>),
     C(EmptyString, "paths", <<P(<<"f", "g">>)>>),
     C(EmptyString, "lists", <<LF(<<"f">>), LD(<<"a">>), LD(<<"l">>)>>),
     C(EmptyString, "lists", <<LF(<<"l", "x">>), LF(<<"a", "b", "f">>)>>),
     C(EmptyString, "lists", <<LF(<<"a">>)>>),
     C(EmptyString, "lists", <<LD(EmptyString)>>),
     C(<<"a">>, "lists", <<LF(<<"f">>), LD(EmptyString)>>),
     C(<<"a", "b">>, "paths", <<P(EmptyString), P(<<"f">>)>>),
     C(<<"a">>, "paths", <<P(<<"..", "f">>), P(<<"b">>)>>),
     C(<<"a">>, "paths", <<P(<<"..", "..", "f">>)>>),
     C(<<"a", "..", "..">>, "lists", <<LF(<<"f">>)>>),
     C(<<"a">>, "lists", <<LF(<<"b", "">>)>>)}

MCEffects ==
    {[path |-> p, nodes |-> n] :
       p \in {<<"f">>, <<"a", "b">>},
       n \in {<<"*">> :> FileNode(File(d2, TRUE, NoMtime)),
              (<<"*">> :> DirNode) @@ (<<"*", "f">> :> FileNode(F(d2))),
              <<"*">> :> [kind |-> "symlink", target |-> <<"out", "x">>],
              <<"*">> :> [kind |-> "symlink", target |-> <<"nowhere">>],
              <<"*">> :> [kind |-> "other"]}}
=============================================================================
