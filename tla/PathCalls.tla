------------------------------ MODULE PathCalls ------------------------------
(***************************************************************************)
(* One call of a path function of FileUtils, and the reference that its    *)
(* answer is compared with: where a path leads, found by reading it from   *)
(* its end, and, for makePathRelative(), by going there.                   *)
(***************************************************************************)
EXTENDS FilePaths

CONSTANTS Paths,        \* arguments, as sequences of segments
          Texts,        \* absolute paths, as sequences of characters
          Pending       \* the call has not returned

VARIABLES call, answer

vars == <<call, answer>>

Calls ==
    [f : {"normalizePath", "pathBasename"}, path : Paths]
    \union [f : {"makePathAbsolute"}, path : Paths \ {EmptyString}, cwd : {p \in Paths : IsAbsolute(p)}]
    \union [f : {"joinPathSegments", "joinPathSegmentsNoEscape"}, base : Paths \ {EmptyString},
            path : Paths \ {EmptyString}, force : BOOLEAN]
    \union [f : {"makePathRelative"}, path : Texts, cwd : Texts]

Init == call \in Calls /\ answer = Pending

Return ==
    /\ answer = Pending
    /\ answer' = CASE call.f = "normalizePath" -> normalizePath(call.path)
                   [] call.f = "pathBasename" -> pathBasename(call.path)
                   [] call.f = "makePathAbsolute" -> makePathAbsolute(call.path, call.cwd)
                   [] call.f = "joinPathSegments" ->
                          joinPathSegments(call.base, call.path, call.force)
                   [] call.f = "joinPathSegmentsNoEscape" ->
                          joinPathSegmentsNoEscape(call.base, call.path, call.force)
                   [] call.f = "makePathRelative" -> makePathRelative(call.path, call.cwd)
    /\ UNCHANGED call

Next == Return

-----------------------------------------------------------------------------
(* The reference: a location is a number of levels above the start and the *)
(* names below.  From its end, a path has its last name removed by each .. *)
(* that follows and is not yet used up.                                    *)

RECURSIVE LeadsTo(_, _)
LeadsTo(path, dotdots) ==
    IF path = <<>> THEN [up |-> dotdots, down |-> <<>>]
    ELSE LET last == Last(path)
             rest == Front(path)
         IN CASE last = ".." -> LeadsTo(rest, dotdots + 1)
              [] last \in {".", ""} -> LeadsTo(rest, dotdots)
              [] dotdots > 0 -> LeadsTo(rest, dotdots - 1)
              [] OTHER -> LET above == LeadsTo(rest, 0)
                          IN [above EXCEPT !.down = Append(@, last)]

\* Above the root lies the root.
Location(path) ==
    IF IsAbsolute(path) THEN [start |-> "/", up |-> 0, down |-> LeadsTo(path, 0).down]
    ELSE [start |-> "cwd", up |-> LeadsTo(path, 0).up, down |-> LeadsTo(path, 0).down]

Within(inner, outer) ==
    inner.start = outer.start /\ inner.up = outer.up /\ IsPrefix(outer.down, inner.down)

\* Written without detours: equal locations have equal texts.
Canonical(path) ==
    \/ path \in {Root, <<".">>}
    \/ \A i \in DOMAIN path :
         /\ path[i] # "."
         /\ path[i] = "" => i = 1
         /\ path[i] = ".." => ~IsAbsolute(path) /\ \A j \in 1 .. i - 1 : path[j] = ".."

Segments(text) ==
    FoldLeft(LAMBDA s, c : IF c = "/" THEN Append(s, "")
                           ELSE Append(Front(s), Last(s) \o c), EmptyString, text)

\* A forced absolute path is one below base whose root is base.
Joined(base, path, force) ==
    CASE ~IsAbsolute(path) -> base \o path
      [] force -> base \o Location(path).down
      [] OTHER -> path

Answered(f) == answer # Pending /\ call.f = f

\* normalizePath(), makePathAbsolute(), joinPathSegments() and
\* makePathRelative() return a path that leads where their arguments lead:
\* in canonical form (but for the trailing slash that makePathAbsolute()
\* keeps), and, for makePathRelative(), seen from cwd.  pathBasename() of a
\* canonical absolute path is the last name on it.
PathsLeadToTheSamePlace ==
    /\ Answered("normalizePath") =>
         Canonical(answer) /\ Location(answer) = Location(call.path)
    /\ Answered("makePathAbsolute") =>
         /\ IsAbsolute(answer)
         /\ EndsInSlash(call.path) => EndsInSlash(answer)
         /\ Location(answer) = Location(Joined(call.cwd, call.path, FALSE))
    /\ Answered("joinPathSegments") =>
         /\ Canonical(answer)
         /\ Location(answer) = Location(Joined(call.base, call.path, call.force))
    /\ Answered("makePathRelative") =>
         /\ Head(answer) # "/"
         /\ Location(Segments(call.cwd) \o Segments(answer)) = Location(Segments(call.path))
    /\ Answered("pathBasename") /\ IsAbsolute(call.path) /\ Canonical(call.path) =>
         answer = (IF call.path = Root THEN "" ELSE Last(Location(call.path).down))

\* Bases below which the test of joinPathSegmentsNoEscape() is not exact: a
\* path above the working directory, which "../.." has as a prefix, and the
\* working directory itself joined with an absolute path.
InexactBase ==
    \/ Head(normalizePath(call.base)) = ".."
    \/ normalizePath(call.base) = <<".">> /\ IsAbsolute(call.path) /\ ~call.force

\* joinPathSegmentsNoEscape() throws exactly for the paths that leave the
\* base: neither a name that merely starts like the base's last one, nor
\* dots that leave and come back, deceive it.  (Below "/" it also refuses
\* relative paths that start with .., which cannot leave.)
EscapesAreExact ==
    Answered("joinPathSegmentsNoEscape") /\ ~InexactBase =>
        LET base == normalizePath(call.base)
            joined == Joined(call.base, normalizePath(call.path), call.force)
        IN IF answer = Escaping
           THEN \/ ~Within(Location(joined), Location(base))
                \/ base = Root /\ Head(normalizePath(call.path)) = ".."
           ELSE Within(Location(answer), Location(base)) /\ Location(answer) = Location(joined)
=============================================================================
