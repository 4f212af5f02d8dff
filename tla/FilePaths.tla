------------------------------ MODULE FilePaths ------------------------------
(***************************************************************************)
(* The path algorithms of FileUtils.  A path is the sequence of what lies  *)
(* between its slashes: "/a" is <<"", "a">>, "a/" is <<"a", "">>, "/" is   *)
(* <<"", "">> and the empty string is <<"">>.  Joining two strings with a  *)
(* slash is the concatenation of their sequences.                          *)
(***************************************************************************)
EXTENDS Naturals, Sequences, SequencesExt

CONSTANT Escaping       \* joinPathSegmentsNoEscape() throws

EmptyString == <<"">>
Root == <<"", "">>

\* path.front() == '/' and path.back() == '/'
IsAbsolute(path) == Len(path) > 1 /\ Head(path) = ""
EndsInSlash(path) == Len(path) > 1 /\ Last(path) = ""

\* One turn of the loop of normalizePath() on the vector of segments.
PushSegment(global, segments, segment) ==
    CASE segment = ".." /\ segments # <<>> /\ Last(segments) # ".." -> Front(segments)
      [] segment = ".." /\ segments = <<>> /\ global -> segments
      [] segment \in {".", ""} -> segments
      [] OTHER -> Append(segments, segment)

normalizePath(path) ==
    LET global == IsAbsolute(path)
        segments == FoldLeft(LAMBDA s, x : PushSegment(global, s, x), <<>>, path)
    IN CASE global /\ segments = <<>> -> Root
         [] global -> <<"">> \o segments
         [] segments = <<>> -> <<".">>
         [] OTHER -> segments

\* A relative path is prefixed by cwd, which must be absolute; a trailing
\* slash survives.
makePathAbsolute(path, cwd) ==
    LET normalized == normalizePath(IF IsAbsolute(path) THEN path ELSE cwd \o path)
    IN IF EndsInSlash(path) /\ ~EndsInSlash(normalized) THEN Append(normalized, "") ELSE normalized

joinPathSegments(first, second, forceSecondSegmentRelative) ==
    LET firstNormalized == normalizePath(first)
        secondNormalized == normalizePath(second)
    IN IF ~forceSecondSegmentRelative /\ IsAbsolute(secondNormalized)
       THEN secondNormalized
       ELSE normalizePath(firstNormalized \o secondNormalized)

EscapesAboveAll(path) == Head(path) = ".."

\* Mutant: any path that starts like the base counts as inside of it.
StaysWithin_AnyPrefix(base, within, joined) ==
    \/ joined = base
    \/ base \in {Root, <<".">>} /\ ~EscapesAboveAll(within)
    \/ IsPrefix(Front(base), joined)

\* The three cases in which the result is taken to lie inside of the base.
\* That the string of the base is a prefix and a slash follows it is to say
\* that the sequence of the base is a proper prefix.
StaysWithin(base, within, joined) ==
    \/ joined = base
    \/ base \in {Root, <<".">>} /\ ~EscapesAboveAll(within)
    \/ base \notin {Root, <<".">>} /\ IsStrictPrefix(base, joined)

joinPathSegmentsNoEscape(basedir, pathWithinBasedir, forceRelative) ==
    LET base == normalizePath(basedir)
        within == normalizePath(pathWithinBasedir)
        joined == joinPathSegments(basedir, within, forceRelative)
    IN IF StaysWithin(base, within, joined) THEN joined ELSE Escaping

\* "" stands for no name: the path is too short, or has no slash.
pathBasename(path) ==
    LET trimmed == IF EndsInSlash(path) THEN Front(path) ELSE path
    IN IF Len(trimmed) < 2 THEN "" ELSE Last(trimmed)

-----------------------------------------------------------------------------
(* makePathRelative() works on characters: text is the sequence of those   *)
(* of a path, and At() what path[i] gives, the terminating zero included.  *)

At(text, i) == IF i < Len(text) THEN text[i + 1] ELSE "zero"
Substr(text, i) == SubSeq(text, i + 1, Len(text))

\* The number of leading characters that agree.
MatchingPrefix(path, cwd) ==
    CHOOSE i \in 0 .. Len(path) :
        /\ \A j \in 0 .. i - 1 : At(path, j) = At(cwd, j)
        /\ i = Len(path) \/ At(path, i) # At(cwd, i)

\* The returns from inside of the first loop, taken when cwd ends at i + 1
\* and all of it matched.
InsideCwd(path, i) ==
    CASE Len(path) = i + 1 -> IF At(path, i) = "/" THEN <<".", "/">> ELSE <<".">>
      [] Len(path) = i + 2 /\ At(path, i + 1) = "/" -> <<".", "/">>
      [] At(path, i) = "/" -> Substr(path, i + 1)
      [] At(path, i + 1) = "/" -> Substr(path, i + 2)
      [] OTHER -> <<>>      \* no return: the segment goes on

DotDots(n) == [i \in 1 .. 3 * n - 1 |-> IF i % 3 = 0 THEN "/" ELSE "."]

\* Mutant: the trailing slash of cwd counts as one more directory.
DotDotsNeeded_TrailingSlash(cwd, from) ==
    1 + Len(SelectSeq(Substr(cwd, from), LAMBDA c : c = "/"))

\* The second loop: one .. for the segment at hand and one for each after it.
DotDotsNeeded(cwd, from) ==
    1 + Len(SelectSeq([k \in 1 .. Len(cwd) - from |-> <<At(cwd, from + k - 1), At(cwd, from + k)>>],
                      LAMBDA c : c[1] = "/" /\ c[2] # "zero"))

makePathRelative(path, cwd) ==
    LET matched == MatchingPrefix(path, cwd)
        inside == IF Len(cwd) <= matched THEN InsideCwd(path, Len(cwd) - 1) ELSE <<>>
        isPrefixOfCwd == matched = Len(path) /\ At(cwd, matched) = "/"
        slashes == {i \in 0 .. matched - 1 : At(path, i) = "/" /\ i + 1 # Len(cwd)}
        lastMatchingSegmentEnd ==
            IF isPrefixOfCwd THEN matched
            ELSE IF slashes = {} THEN 0 ELSE CHOOSE i \in slashes : \A j \in slashes : j <= i
        from == IF isPrefixOfCwd THEN matched + 1 ELSE matched
    IN CASE inside # <<>> -> inside
         [] isPrefixOfCwd /\ matched + 1 = Len(cwd) -> <<".">>
         [] OTHER -> DotDots(DotDotsNeeded(cwd, from)) \o Substr(path, lastMatchingSegmentEnd)
=============================================================================
