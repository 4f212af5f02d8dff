------------------------ MODULE RunnerArgumentsProofs ------------------------
(* Proofs about RunnerArguments: parse(), putArgs(), parseArguments() and    *)
(* the client made in the end, for any specifications, any command lines and *)
(* any prefixes.                                                             *)
EXTENDS RunnerArguments, SequenceTheorems, FiniteSetTheorems, NaturalsInduction, TLAPS

-----------------------------------------------------------------------------
(* Numbers, sequences and recursion.  What holds by induction is proved by   *)
(* looking at the smallest number for which it would not hold.               *)

\* A set of numbers has a smallest one, and Min() is it.
LEMMA Smallest ==
    ASSUME NEW S \in SUBSET Nat, S # {}
    PROVE  /\ Min(S) \in S
           /\ \A n \in S : Min(S) <= n
<1>1. PICK x \in S : \A y \in S : ~ (<<y, x>> \in OpToRel(<, Nat))
      BY WFMin, NatLessThanWellFounded
<1>2. \A y \in S : ~ (y < x)
      BY <1>1, Zenon DEF OpToRel
<1>3. \A y \in S : x <= y
      BY <1>2
<1>. QED  BY <1>3 DEF Min

\* A function on 0 .. n is defined by its value at 0 and its steps.
Defined(n, S, start, next) ==
    \E f \in [0 .. n -> S] :
        f[0] = start /\ \A k \in 1 .. n : f[k] = next[k][f[k - 1]]

LEMMA Recursion ==
    ASSUME NEW n \in Nat, NEW S, NEW start \in S, NEW next \in [1 .. n -> [S -> S]]
    PROVE  Defined(n, S, start, next)
<1>. DEFINE Good(m) == \E f \in [0 .. m -> S] :
                f[0] = start /\ \A k \in 1 .. m : f[k] = next[k][f[k - 1]]
            Bad == {m \in 0 .. n : ~ Good(m)}
<1>1. Good(0)
  <2>. DEFINE f == [k \in 0 .. 0 |-> start]
  <2>1. f \in [0 .. 0 -> S] /\ f[0] = start
        OBVIOUS
  <2>2. \A k \in 1 .. 0 : f[k] = next[k][f[k - 1]]
        OBVIOUS
  <2>. QED  BY <2>1, <2>2
<1>2. ASSUME NEW m \in 1 .. n, Good(m - 1)
      PROVE  Good(m)
  <2>1. PICK f \in [0 .. m - 1 -> S] :
            f[0] = start /\ \A k \in 1 .. m - 1 : f[k] = next[k][f[k - 1]]
        BY <1>2
  <2>. DEFINE g == [k \in 0 .. m |-> IF k = m THEN next[m][f[m - 1]] ELSE f[k]]
  <2>2. f[m - 1] \in S /\ next[m] \in [S -> S]
        BY <2>1
  <2>3. g \in [0 .. m -> S]
        BY <2>1, <2>2
  <2>4. g[0] = start
        BY <2>1
  <2>5. ASSUME NEW k \in 1 .. m
        PROVE  g[k] = next[k][g[k - 1]]
    <3>1. k - 1 \in 0 .. m /\ k - 1 # m /\ g[k - 1] = f[k - 1]
          OBVIOUS
    <3>2. CASE k = m
          BY <3>1, <3>2
    <3>3. CASE k # m
          BY <2>1, <3>1, <3>3
    <3>. QED  BY <3>2, <3>3
  <2>. HIDE DEF g
  <2>. QED  BY <2>3, <2>4, <2>5
<1>. HIDE DEF Good
<1>3. Bad = {}
  <2>. SUFFICES ASSUME Bad # {} PROVE FALSE
       OBVIOUS
  <2>1. Bad \in SUBSET Nat
        OBVIOUS
  <2>2. PICK m \in Bad : \A k \in Bad : m <= k
    <3>. HIDE DEF Bad
    <3>. QED  BY <2>1, Smallest
  <2>3. m \in 0 .. n /\ ~ Good(m) /\ m # 0
        BY <1>1
  <2>4. m - 1 \in 0 .. n /\ m - 1 \notin Bad
        BY <2>2, <2>3
  <2>5. m \in 1 .. n /\ Good(m - 1)
        BY <2>3, <2>4
  <2>. QED  BY <1>2, <2>3, <2>5
<1>4. Good(n)
      BY <1>3
<1>. QED  BY <1>4 DEF Good, Defined

\* How each argument of a command line is read.
LEMMA ReadingFacts ==
    ASSUME NEW s, NEW args \in Seq(Texts)
    PROVE  /\ Reading(s, args) \in [1 .. Len(args) -> {"option", "value", "rest"}]
           /\ \A k \in 1 .. Len(args) : Reading(s, args)[k] =
                 IF k = 1 THEN "option"
                 ELSE IF Reading(s, args)[k - 1] = "value" THEN "option"
                 ELSE IF Reading(s, args)[k - 1] = "rest" \/ ~ AnOption(args[k - 1]) THEN "rest"
                 ELSE IF TakesNext(s, args, k - 1) THEN "value" ELSE "option"
<1>. DEFINE S == {"option", "value", "rest"}
            n == Len(args)
            By(k, before) ==
                IF k = 1 THEN "option"
                ELSE IF before = "value" THEN "option"
                ELSE IF before = "rest" \/ ~ AnOption(args[k - 1]) THEN "rest"
                ELSE IF TakesNext(s, args, k - 1) THEN "value" ELSE "option"
            next == [k \in 1 .. n |-> [before \in S |-> By(k, before)]]
<1>1. n \in Nat /\ "option" \in S
      OBVIOUS
<1>2. next \in [1 .. n -> [S -> S]]
      OBVIOUS
<1>3. Defined(n, S, "option", next)
  <2>. HIDE DEF next, n, S
  <2>. QED  BY <1>1, <1>2, Recursion
<1>4. PICK f \in [0 .. n -> S] :
          f[0] = "option" /\ \A k \in 1 .. n : f[k] = next[k][f[k - 1]]
  <2>. HIDE DEF next, n, S
  <2>. QED  BY <1>3 DEF Defined
<1>. DEFINE g == [k \in 1 .. n |-> f[k]]
<1>5. g \in [1 .. n -> S]
      BY <1>4
<1>6. \A k \in 1 .. n : g[k] = By(k, g[k - 1])
  <2>. SUFFICES ASSUME NEW k \in 1 .. n PROVE g[k] = By(k, g[k - 1])
       OBVIOUS
  <2>1. g[k] = f[k] /\ k - 1 \in 0 .. n /\ f[k - 1] \in S
        BY <1>1, <1>4
  <2>2. g[k] = By(k, f[k - 1])
        BY <1>4, <2>1
  <2>3. CASE k = 1
        BY <2>2, <2>3
  <2>4. CASE k # 1
        BY <1>1, <2>2, <2>4
  <2>. QED  BY <2>3, <2>4
<1>7. g = [k \in 1 .. n |-> By(k, g[k - 1])]
      BY <1>6
<1>8. \E h : h = [k \in 1 .. n |-> By(k, h[k - 1])]
      BY <1>7
<1>9. Reading(s, args) = CHOOSE h : h = [k \in 1 .. n |-> By(k, h[k - 1])]
      BY DEF Reading
<1>10. Reading(s, args) = [k \in 1 .. n |-> By(k, Reading(s, args)[k - 1])]
      BY <1>8, <1>9
<1>11. Reading(s, args) \in [1 .. n -> S]
       BY <1>10
<1>. QED  BY <1>10, <1>11

\* The first specification with a name.
LEMMA FirstNamedFacts ==
    ASSUME NEW s \in Seq(ArgumentSpecs), NEW name
    PROVE  /\ FirstNamed(s, name) \in 0 .. Len(s)
           /\ FirstNamed(s, name) = 0 => \A i \in 1 .. Len(s) : s[i].name # name
           /\ FirstNamed(s, name) # 0 => s[FirstNamed(s, name)].name = name
<1>. DEFINE Named == {i \in 1 .. Len(s) : s[i].name = name}
<1>1. FirstNamed(s, name) = IF Named # {} THEN Min(Named) ELSE 0
      BY DEF FirstNamed, SelectInSeq
<1>2. Named \in SUBSET Nat
      OBVIOUS
<1>3. Named # {} => Min(Named) \in Named
  <2>. HIDE DEF Named
  <2>. QED  BY <1>2, Smallest
<1>. QED  BY <1>1, <1>3

\* The items that are typed for a specification, up to each argument.
ItemSet(s, args, i) == {Item(s[i], TextTyped(s, args, k)) : k \in 1 .. Len(args)}

LEMMA ItemsUpToFacts ==
    ASSUME NEW s, NEW args \in Seq(Texts), NEW i
    PROVE  /\ ItemsUpTo(s, args, i) \in [0 .. Len(args) -> Seq(ItemSet(s, args, i))]
           /\ ItemsUpTo(s, args, i)[0] = <<>>
           /\ \A k \in 1 .. Len(args) : ItemsUpTo(s, args, i)[k] =
                 IF k \in TypedAt(s, args, i)
                 THEN Append(ItemsUpTo(s, args, i)[k - 1], Item(s[i], TextTyped(s, args, k)))
                 ELSE ItemsUpTo(s, args, i)[k - 1]
<1>. DEFINE item(k) == Item(s[i], TextTyped(s, args, k))
            n == Len(args)
            S == Seq({item(k) : k \in 1 .. n})
            places == TypedAt(s, args, i)
            next == [k \in 1 .. n |->
                        [before \in S |-> IF k \in places THEN Append(before, item(k)) ELSE before]]
            By(k, f) == IF k = 0 THEN <<>>
                        ELSE IF k \in places THEN Append(f[k - 1], item(k)) ELSE f[k - 1]
<1>1. n \in Nat /\ <<>> \in S
      OBVIOUS
<1>2. next \in [1 .. n -> [S -> S]]
  <2>. SUFFICES ASSUME NEW k \in 1 .. n, NEW before \in S
                PROVE  Append(before, item(k)) \in S
       OBVIOUS
  <2>. HIDE DEF item
  <2>. QED  OBVIOUS
<1>3. Defined(n, S, <<>>, next)
  <2>. HIDE DEF next, n, S
  <2>. QED  BY <1>1, <1>2, Recursion
<1>4. PICK f \in [0 .. n -> S] :
          f[0] = <<>> /\ \A k \in 1 .. n : f[k] = next[k][f[k - 1]]
  <2>. HIDE DEF next, n, S
  <2>. QED  BY <1>3 DEF Defined
<1>5. \A k \in 0 .. n : f[k] = By(k, f)
  <2>. SUFFICES ASSUME NEW k \in 0 .. n PROVE f[k] = By(k, f)
       OBVIOUS
  <2>1. CASE k = 0
        BY <1>4, <2>1
  <2>2. CASE k # 0
    <3>1. k \in 1 .. n /\ k - 1 \in 0 .. n
          BY <1>1, <2>2
    <3>2. f[k - 1] \in S
          BY <1>4, <3>1
    <3>. HIDE DEF item, places, S, n
    <3>. QED  BY <1>4, <2>2, <3>1, <3>2
  <2>. QED  BY <2>1, <2>2
<1>6. f = [k \in 0 .. n |-> By(k, f)]
  <2>. HIDE DEF By, S
  <2>. QED  BY <1>5
<1>7. \E h : h = [k \in 0 .. n |-> By(k, h)]
      BY <1>6
<1>8. ItemsUpTo(s, args, i) = CHOOSE h : h = [k \in 0 .. n |-> By(k, h)]
      BY DEF ItemsUpTo
<1>. DEFINE g == ItemsUpTo(s, args, i)
<1>9. g = [k \in 0 .. n |-> By(k, g)]
      BY <1>7, <1>8
<1>. HIDE DEF g, item, places
<1>10. DOMAIN g = 0 .. n /\ \A k \in 0 .. n : g[k] = By(k, g)
  <2>. HIDE DEF By, n
  <2>. QED  BY <1>9
<1>11. g[0] = <<>>
       BY <1>1, <1>10
<1>12. ASSUME NEW k \in 1 .. n
       PROVE  g[k] = IF k \in places THEN Append(g[k - 1], item(k)) ELSE g[k - 1]
  <2>1. k \in 0 .. n /\ k # 0
        BY <1>1
  <2>. HIDE DEF n
  <2>. QED  BY <1>10, <2>1
<1>13. \A k \in 0 .. n : g[k] \in S
  <2>. DEFINE Bad == {k \in 0 .. n : g[k] \notin S}
  <2>. SUFFICES ASSUME Bad # {} PROVE FALSE
       OBVIOUS
  <2>1. Bad \in SUBSET Nat
        OBVIOUS
  <2>2. PICK m \in Bad : \A k \in Bad : m <= k
    <3>. HIDE DEF Bad
    <3>. QED  BY <2>1, Smallest
  <2>3. m \in 0 .. n /\ g[m] \notin S
        OBVIOUS
  <2>4. m # 0
        BY <1>1, <1>11, <2>3
  <2>5. m \in 1 .. n /\ m - 1 \in 0 .. n
        BY <1>1, <2>3, <2>4
  <2>6. g[m - 1] \in S
    <3>1. m - 1 \notin Bad
      <4>. HIDE DEF Bad
      <4>. QED  BY <2>2, <2>5
    <3>. QED  BY <2>5, <3>1
  <2>7. item(m) \in {item(k) : k \in 1 .. n}
        BY <2>5
  <2>8. Append(g[m - 1], item(m)) \in S
        BY <2>6, <2>7
  <2>. HIDE DEF S, n
  <2>. QED  BY <1>12, <2>3, <2>5, <2>6, <2>8
<1>14. g \in [0 .. n -> S]
  <2>. HIDE DEF S, By, n
  <2>. QED  BY <1>9, <1>10, <1>13
<1>. QED  BY <1>11, <1>12, <1>14 DEF g, item, places, ItemSet

LEMMA ItemsAt ==
    ASSUME NEW s, NEW args \in Seq(Texts), NEW i, NEW k \in 1 .. Len(args)
    PROVE  /\ k \in TypedAt(s, args, i) =>
                 ItemsUpTo(s, args, i)[k] =
                     Append(ItemsUpTo(s, args, i)[k - 1], Item(s[i], TextTyped(s, args, k)))
           /\ k \notin TypedAt(s, args, i) =>
                 ItemsUpTo(s, args, i)[k] = ItemsUpTo(s, args, i)[k - 1]
<1>1. \A m \in 1 .. Len(args) : ItemsUpTo(s, args, i)[m] =
          IF m \in TypedAt(s, args, i)
          THEN Append(ItemsUpTo(s, args, i)[m - 1], Item(s[i], TextTyped(s, args, m)))
          ELSE ItemsUpTo(s, args, i)[m - 1]
      BY ItemsUpToFacts, Zenon
<1>. QED  BY <1>1

\* Behind an argument that is no option there are no more options.
LEMMA RestIsRest ==
    ASSUME NEW s, NEW args \in Seq(Texts), NEW k \in Places(s, args), ~ AnOption(args[k])
    PROVE  \A m \in Places(s, args) : m <= k
<1>. DEFINE n == Len(args)
            r == Reading(s, args)
<1>1. n \in Nat /\ k \in 1 .. n /\ r[k] = "option" /\ Places(s, args) = {m \in 1 .. n : r[m] = "option"}
      BY DEF Places
<1>. DEFINE Bad == {m \in (k + 1) .. n : r[m] # "rest"}
<1>2. Bad = {}
  <2>. SUFFICES ASSUME Bad # {} PROVE FALSE
       OBVIOUS
  <2>1. Bad \in SUBSET Nat
        BY <1>1
  <2>2. PICK m \in Bad : \A j \in Bad : m <= j
    <3>. HIDE DEF Bad
    <3>. QED  BY <2>1, Smallest
  <2>3. m \in (k + 1) .. n /\ r[m] # "rest" /\ m - 1 \in k .. n /\ m \in 1 .. n /\ m # 1
        BY <1>1
  <2>4. m - 1 = k \/ r[m - 1] = "rest"
    <3>1. m - 1 \notin Bad
      <4>. HIDE DEF Bad, r
      <4>. QED  BY <1>1, <2>2, <2>3
    <3>. QED  BY <1>1, <2>3, <3>1
  <2>. HIDE DEF Bad
  <2>. QED  BY <1>1, <2>3, <2>4, ReadingFacts
<1>3. ASSUME NEW m \in Places(s, args)
      PROVE  m <= k
  <2>1. m \notin Bad /\ m \in 1 .. n /\ r[m] = "option"
        BY <1>1, <1>2
  <2>. QED  BY <1>1, <2>1
<1>. QED  BY <1>3

\* Where nothing is typed for a specification its items stay as they are, and
\* what is typed is never lost.
LEMMA ItemsStay ==
    ASSUME NEW s, NEW args \in Seq(Texts), NEW i, NEW k \in 0 .. Len(args)
    PROVE  /\ (\A m \in TypedAt(s, args, i) : m <= k) =>
                 ItemsTyped(s, args, i) = ItemsUpTo(s, args, i)[k]
           /\ \A m \in k .. Len(args) :
                 Range(ItemsUpTo(s, args, i)[k]) \subseteq Range(ItemsUpTo(s, args, i)[m])
<1>. DEFINE n == Len(args)
            g == ItemsUpTo(s, args, i)
            item(m) == Item(s[i], TextTyped(s, args, m))
            S == Seq(ItemSet(s, args, i))
            places == TypedAt(s, args, i)
<1>1. /\ n \in Nat
      /\ g \in [0 .. n -> S]
      /\ \A m \in 1 .. n : g[m] = IF m \in places THEN Append(g[m - 1], item(m)) ELSE g[m - 1]
  <2>1. n \in Nat
        OBVIOUS
  <2>2. g \in [0 .. n -> S]
        BY ItemsUpToFacts, Zenon
  <2>3. \A m \in 1 .. n : g[m] = IF m \in places THEN Append(g[m - 1], item(m)) ELSE g[m - 1]
        BY ItemsUpToFacts, Zenon
  <2>. QED  BY <2>1, <2>2, <2>3
<1>. HIDE DEF g, item, places, n
<1>2. ASSUME \A m \in places : m <= k
      PROVE  \A m \in k .. n : g[m] = g[k]
  <2>. DEFINE Bad == {m \in k .. n : g[m] # g[k]}
  <2>. SUFFICES ASSUME Bad # {} PROVE FALSE
       OBVIOUS
  <2>1. Bad \in SUBSET Nat
        BY <1>1 DEF n
  <2>2. PICK m \in Bad : \A j \in Bad : m <= j
    <3>. HIDE DEF Bad
    <3>. QED  BY <2>1, Smallest
  <2>3. m \in k .. n /\ g[m] # g[k]
        OBVIOUS
  <2>4. m - 1 \in k .. n /\ m \in 1 .. n /\ m > k
        BY <1>1, <2>3 DEF n
  <2>5. g[m - 1] = g[k]
    <3>1. m - 1 \notin Bad
      <4>. HIDE DEF Bad
      <4>. QED  BY <1>1, <2>2, <2>4 DEF n
    <3>. QED  BY <2>4, <3>1
  <2>6. m \notin places
        BY <1>2, <1>1, <2>4 DEF n
  <2>. QED  BY <1>1, <2>3, <2>4, <2>5, <2>6
<1>3. ASSUME NEW m \in 1 .. n
      PROVE  Range(g[m - 1]) \subseteq Range(g[m])
  <2>1. m - 1 \in 0 .. n /\ g[m - 1] \in S
        BY <1>1
  <2>2. CASE m \notin places
        BY <1>1, <2>2
  <2>3. CASE m \in places
    <3>1. g[m] = Append(g[m - 1], item(m))
          BY <1>1, <2>3
    <3>2. \A j \in DOMAIN g[m - 1] : j \in DOMAIN g[m] /\ g[m][j] = g[m - 1][j]
          BY <2>1, <3>1
    <3>. QED  BY <3>2 DEF Range
  <2>. QED  BY <2>2, <2>3
<1>4. \A m \in k .. n : Range(g[k]) \subseteq Range(g[m])
  <2>. DEFINE Bad == {m \in k .. n : ~ (Range(g[k]) \subseteq Range(g[m]))}
  <2>. SUFFICES ASSUME Bad # {} PROVE FALSE
       OBVIOUS
  <2>1. Bad \in SUBSET Nat
        BY <1>1 DEF n
  <2>2. PICK m \in Bad : \A j \in Bad : m <= j
    <3>. HIDE DEF Bad
    <3>. QED  BY <2>1, Smallest
  <2>3. m \in k .. n /\ ~ (Range(g[k]) \subseteq Range(g[m]))
        OBVIOUS
  <2>4. m - 1 \in k .. n /\ m \in 1 .. n /\ m > k
        BY <1>1, <2>3 DEF n
  <2>5. Range(g[k]) \subseteq Range(g[m - 1])
    <3>1. m - 1 \notin Bad
      <4>. HIDE DEF Bad
      <4>. QED  BY <1>1, <2>2, <2>4 DEF n
    <3>. QED  BY <2>4, <3>1
  <2>. QED  BY <1>3, <2>3, <2>4, <2>5
<1>5. n \in k .. n /\ ItemsTyped(s, args, i) = g[n]
      BY <1>1 DEF n, g, ItemsTyped
<1>. QED  BY <1>2, <1>4, <1>5 DEF n, g, places

\* One option, with the value behind it if it takes that: where the next option
\* may stand, and the items that are typed up to there.
IsOneOption(s, args, k, i, m) ==
    /\ m <= Len(args) => m \in Places(s, args)
    /\ \A j \in Places(s, args) : j < m => j <= k
    /\ ItemsUpTo(s, args, i)[m - 1] =
          Append(ItemsUpTo(s, args, i)[k - 1], Item(s[i], TextTyped(s, args, k)))
    /\ \A j : j # i => ItemsUpTo(s, args, j)[m - 1] = ItemsUpTo(s, args, j)[k - 1]

LEMMA OneOption ==
    ASSUME NEW s \in Seq(ArgumentSpecs), NEW args \in Seq(Texts),
           NEW k \in Places(s, args), AnOption(args[k]),
           NEW i \in 1 .. Len(s), i = FirstNamed(s, NameOf[args[k]]),
           NEW m, m = k + (IF s[i].withArg /\ ~ HasAssign[args[k]] THEN 2 ELSE 1),
           m <= Len(args) + 1
    PROVE  IsOneOption(s, args, k, i, m)
<1>. DEFINE n == Len(args)
            r == Reading(s, args)
<1>1. n \in Nat /\ k \in 1 .. n /\ r[k] = "option" /\ Places(s, args) = {j \in 1 .. n : r[j] = "option"}
      BY DEF Places
<1>2. TakesNext(s, args, k) <=> s[i].withArg /\ ~ HasAssign[args[k]]
      BY DEF TakesNext
<1>3. k \in TypedAt(s, args, i) /\ \A j : j # i => k \notin TypedAt(s, args, j)
      BY DEF TypedAt, OptionsTyped
<1>4. /\ ItemsUpTo(s, args, i)[k] =
             Append(ItemsUpTo(s, args, i)[k - 1], Item(s[i], TextTyped(s, args, k)))
      /\ \A j : j # i => ItemsUpTo(s, args, j)[k] = ItemsUpTo(s, args, j)[k - 1]
      BY <1>1, <1>3, ItemsAt
<1>5. k + 1 <= n => r[k + 1] = IF TakesNext(s, args, k) THEN "value" ELSE "option"
  <2>. SUFFICES ASSUME k + 1 <= n
                PROVE  r[k + 1] = IF TakesNext(s, args, k) THEN "value" ELSE "option"
       OBVIOUS
  <2>1. k + 1 \in 1 .. n /\ k + 1 # 1 /\ (k + 1) - 1 = k
        BY <1>1
  <2>. HIDE DEF r
  <2>. QED  BY <1>1, <2>1, ReadingFacts DEF r
<1>6. CASE m = k + 1
  <2>1. ~ TakesNext(s, args, k) /\ m - 1 = k
        BY <1>1, <1>2, <1>6
  <2>2. m <= n => m \in Places(s, args)
        BY <1>1, <1>5, <1>6, <2>1
  <2>3. \A j \in Places(s, args) : j < m => j <= k
        BY <1>1, <1>6
  <2>. QED  BY <1>4, <2>1, <2>2, <2>3 DEF IsOneOption
<1>7. CASE m = k + 2
  <2>1. TakesNext(s, args, k) /\ m - 1 = k + 1 /\ k + 1 \in 1 .. n /\ r[k + 1] = "value"
        BY <1>1, <1>2, <1>5, <1>7
  <2>2. k + 1 \notin Places(s, args)
        BY <1>1, <2>1
  <2>3. m <= n => m \in Places(s, args)
    <3>. SUFFICES ASSUME m <= n PROVE r[m] = "option" /\ m \in 1 .. n
         BY <1>1
    <3>1. m \in 1 .. n /\ m # 1
          BY <1>1, <1>7
    <3>. HIDE DEF r
    <3>. QED  BY <2>1, <3>1, ReadingFacts DEF r
  <2>4. \A j \in Places(s, args) : j < m => j <= k
        BY <1>1, <1>7, <2>2
  <2>5. \A j : k + 1 \notin TypedAt(s, args, j)
        BY <2>2 DEF TypedAt, OptionsTyped
  <2>6. \A j : ItemsUpTo(s, args, j)[k + 1] = ItemsUpTo(s, args, j)[k]
    <3>. TAKE j
    <3>. DEFINE h == k + 1
    <3>1. h \in 1 .. Len(args) /\ h - 1 = k /\ h \notin TypedAt(s, args, j)
          BY <1>1, <2>1, <2>5
    <3>. HIDE DEF h
    <3>2. ItemsUpTo(s, args, j)[h] = ItemsUpTo(s, args, j)[h - 1]
          BY <3>1, ItemsAt
    <3>. QED  BY <3>1, <3>2 DEF h
  <2>. QED  BY <1>4, <2>1, <2>3, <2>4, <2>6 DEF IsOneOption
<1>. QED  BY <1>6, <1>7

\* A specification that is not a positional is the first one with its name.
LEMMA OwnName ==
    ASSUME NEW s \in Specs, NEW i \in 1 .. Len(s), ~ isPositional(s[i])
    PROVE  /\ FirstNamed(s, s[i].name) = i
           /\ \A j \in 1 .. Len(s) : s[j].name = s[i].name => j = i
<1>1. s \in Seq(ArgumentSpecs) /\ \A j \in 1 .. Len(s) : s[i].name = s[j].name => i = j
      BY SpecAssumption
<1>2. /\ FirstNamed(s, s[i].name) \in 0 .. Len(s)
      /\ FirstNamed(s, s[i].name) # 0
      /\ s[FirstNamed(s, s[i].name)].name = s[i].name
      BY <1>1, FirstNamedFacts
<1>. QED  BY <1>1, <1>2

-----------------------------------------------------------------------------
(* The inductive invariant of parse().                                       *)

Steps == {"parse", "options", "checks", "defaults", "count", "positionals",
          "parsed", "refused", "thrown", "help"}

TypeOK ==
    /\ spec \in Specs
    /\ rawArgv \in Seq(Texts)
    /\ argIdx \in Nat \ {0}
    /\ positionalIdx \in 1 .. Len(spec) + 1
    /\ bound = [i \in 1 .. Len(spec) |-> bound[i]]
    /\ parsedArgs = [n \in DOMAIN parsedArgs |-> parsedArgs[n]]
    /\ step \in Steps

\* An entry has the type of the specification with its name; one that is a
\* string has a text.
EntriesOK ==
    \A n \in DOMAIN parsedArgs :
        \E i \in 1 .. Len(spec) :
            /\ i = FirstNamed(spec, n)
            /\ parsedArgs[n].type = spec[i].type
            /\ spec[i].type = "STRING" => parsedArgs[n].items \in [1 .. 1 -> [1 .. 1 -> Texts]]

\* Once the defaults are applied, what has a default has an entry.
DefaultsApplied ==
    step \in {"count", "positionals", "parsed"} =>
        \A i \in 1 .. Len(spec) :
            ~ isPositional(spec[i]) /\ hasDefaultValue(spec[i]) => exists(spec[i].name)

\* What a getter returns and a bound variable holds of the items typed.
Returned(s, typed) == IF s.type \in ArrayTypes THEN typed ELSE <<Head(typed)>>
Held(s, typed) == IF s.type \in ArrayTypes \/ typed = <<>> THEN typed ELSE <<Last(typed)>>

\* The entries are those of the options that were typed, and so are the bound
\* variables: up to an argument, and in the end with the defaults.
EntriesUpTo(n) ==
    \A i \in 1 .. Len(spec) : ~ isPositional(spec[i]) =>
        LET typed == ItemsUpTo(spec, rawArgv, i)[n]
        IN /\ exists(spec[i].name) <=> typed # <<>>
           /\ typed # <<>> => parsedArgs[spec[i].name] =
                 [type |-> spec[i].type, items |-> Returned(spec[i], typed)]
BoundUpTo(n) ==
    \A i \in 1 .. Len(spec) :
        spec[i].bindable => bound[i] = Held(spec[i], ItemsUpTo(spec, rawArgv, i)[n])
Entries ==
    \A i \in 1 .. Len(spec) : ~ isPositional(spec[i]) =>
        LET typed == ItemsTyped(spec, rawArgv, i)
        IN /\ exists(spec[i].name) <=> typed # <<>> \/ hasDefaultValue(spec[i])
           /\ typed # <<>> => parsedArgs[spec[i].name] =
                 [type |-> spec[i].type, items |-> Returned(spec[i], typed)]
           /\ typed = <<>> /\ hasDefaultValue(spec[i]) => parsedArgs[spec[i].name] =
                 [type |-> spec[i].type, items |-> <<spec[i].default.item>>]
RequiredTyped ==
    \A i \in 1 .. Len(spec) :
        spec[i].required /\ ~ isPositional(spec[i]) => ItemsTyped(spec, rawArgv, i) # <<>>

\* The loop over the options is at a place where an option may stand.
AtPlace ==
    /\ argIdx <= Len(rawArgv) + 1
    /\ argIdx <= Len(rawArgv) => argIdx \in Places(spec, rawArgv)
    /\ \A k \in Places(spec, rawArgv) : k < argIdx => AnOption(rawArgv[k])
From == PositionalsFrom(spec, rawArgv)
Enough == From - 1 + Cardinality(RequiredPositionals) <= Len(rawArgv)

\* The loop over the positionals: those before positionalIdx have been read, one
\* argument each.
AtPositional ==
    /\ argIdx <= Len(rawArgv) + 1
    /\ \/ argIdx = From + Cardinality(PositionalsBefore(spec, positionalIdx))
       \/ \A i \in Positionals : i < positionalIdx
    /\ \A i \in Positionals : i < positionalIdx =>
           From + Cardinality(PositionalsBefore(spec, i)) <= Len(rawArgv)
    /\ \A i \in 1 .. Len(spec) : spec[i].bindable =>
           bound[i] = Held(spec[i], IF i < positionalIdx
                                    THEN ItemsTyped(spec, rawArgv, i) \o PositionalTyped(spec, rawArgv, i)
                                    ELSE ItemsTyped(spec, rawArgv, i))
AllBound ==
    \A i \in 1 .. Len(spec) : spec[i].bindable =>
        bound[i] = Held(spec[i], ItemsTyped(spec, rawArgv, i) \o PositionalTyped(spec, rawArgv, i))

ReadInv ==
    /\ step = "options" =>
          AtPlace /\ EntriesUpTo(argIdx - 1) /\ BoundUpTo(argIdx - 1)
    /\ step \in {"checks", "defaults"} => EntriesUpTo(Len(rawArgv))
    /\ step \in {"checks", "defaults", "count"} =>
          argIdx = From /\ BoundUpTo(Len(rawArgv))
    /\ step \in {"defaults", "count", "positionals", "parsed"} => RequiredTyped
    /\ step \in {"count", "positionals", "parsed"} => Entries
    /\ step \in {"positionals", "parsed"} => Enough
    /\ step = "positionals" => AtPositional
    /\ step = "parsed" => AllBound

\* What has not been read yet is as it was in the beginning.
Unread ==
    /\ step = "parse" => /\ argIdx = 1 /\ parsedArgs = <<>>
                         /\ \A i \in 1 .. Len(spec) : bound[i] = <<>>
    /\ step \in {"parse", "options", "checks", "defaults", "count"} => positionalIdx = 1

ParseTypes == TypeOK /\ (step # "refused" => EntriesOK) /\ DefaultsApplied /\ Unread

ParseInv == ParseTypes /\ (Readable => ReadInv) /\ RefusedForAReason

-----------------------------------------------------------------------------
(* The inductive invariant of the runner.                                    *)

Fields == DOMAIN Defaults

\* An argument for a setting.
IsFor(arg, f) ==
    IF f = "useGoogleApiAuth" THEN arg.value = Unset
    ELSE arg.value # Unset /\ SettingOf[arg.key] = f

RunnerInv ==
    /\ stage \in {"worker", "runner", "exit", "refused", "valid", "accepted"}
    /\ stage = "worker" => casRemote = Defaults
    /\ stage # "worker" =>
          /\ step = "parsed"
          /\ existsInSpec(WorkerPrefix \o "remote")
          /\ options = configureChannel(WorkerPrefix)
          /\ readPrefix \in ReadPrefixes
    /\ stage = "runner" =>
          /\ argv \in Seq(ToSet(argv))
          /\ \A arg \in ToSet(argv) :
                Handled(arg, readPrefix) => arg \in ToSet(putArgs(options, readPrefix))
          /\ casRemote = [f \in Fields |-> casRemote[f]]
          /\ \A f \in Fields :
                \/ casRemote[f] = options[f]
                \/ \E arg \in ToSet(argv) \cap ToSet(putArgs(options, readPrefix)) : IsFor(arg, f)
    /\ SettingsReachTheRunner

-----------------------------------------------------------------------------
(* parse() keeps the types, whatever the command line.                       *)

LEMMA SpecFacts ==
    ASSUME TypeOK
    PROVE  /\ spec \in Seq(ArgumentSpecs)
           /\ Len(spec) \in Nat
           /\ \A i \in 1 .. Len(spec) : spec[i] \in ArgumentSpecs
           /\ Len(rawArgv) \in Nat
           /\ \A k \in 1 .. Len(rawArgv) : rawArgv[k] \in Texts
<1>1. spec \in Seq(ArgumentSpecs) /\ rawArgv \in Seq(Texts)
      BY SpecAssumption DEF TypeOK
<1>. QED  BY <1>1

LEMMA InitTypes ==
    ASSUME Init
    PROVE  ParseTypes
<1>1. spec \in Seq(ArgumentSpecs) /\ rawArgv \in Seq(Texts)
      BY SpecAssumption, TextAssumption DEF Init
<1>2. parsedArgs = <<>> /\ DOMAIN parsedArgs = {}
      BY DEF Init
<1>3. TypeOK
      BY <1>1, <1>2 DEF Init, TypeOK, Steps
<1>4. EntriesOK
      BY <1>2 DEF EntriesOK
<1>. QED  BY <1>3, <1>4 DEF Init, ParseTypes, DefaultsApplied, Unread

\* A step that only moves on.
LEMMA ReturnTypes ==
    ASSUME ParseTypes, step # "refused", NEW result \in Steps \ {"parse"}, Return(result),
           result \in {"count", "positionals", "parsed"} => step \in {"count", "positionals"},
           result \in {"options", "checks", "defaults", "count"} =>
               step \in {"parse", "options", "checks", "defaults"}
    PROVE  ParseTypes'
<1>1. TypeOK'
      BY DEF ParseTypes, TypeOK, Return
<1>2. EntriesOK'
      BY DEF ParseTypes, EntriesOK, Return
<1>3. DefaultsApplied'
      BY DEF ParseTypes, DefaultsApplied, Return, exists
<1>4. Unread'
      BY DEF ParseTypes, Unread, Return
<1>. QED  BY <1>1, <1>2, <1>3, <1>4 DEF ParseTypes

LEMMA ParseKeepsTypes ==
    ASSUME ParseTypes, Parse
    PROVE  ParseTypes'
<1>1. CASE rawArgv = <<>>
      BY <1>1, ReturnTypes DEF Parse, Steps
<1>2. CASE rawArgv # <<>>
  <2>1. /\ step = "parse" /\ rawArgv' = Tail(rawArgv) /\ step' = "options"
        /\ UNCHANGED <<spec, argIdx, parsedArgs, positionalIdx, bound>>
        BY <1>2 DEF Parse
  <2>2. TypeOK'
        BY <1>2, <2>1 DEF ParseTypes, TypeOK, Steps
  <2>3. EntriesOK'
        BY <2>1 DEF ParseTypes, EntriesOK
  <2>. QED  BY <2>1, <2>2, <2>3 DEF ParseTypes, DefaultsApplied, Unread
<1>. QED  BY <1>1, <1>2

\* The text of an option.
LEMMA OptionText ==
    ASSUME TypeOK, AtOption, NEW i \in 1 .. Len(spec), OptionValue(i) # Unset
    PROVE  OptionValue(i) \in Texts
<1>1. argIdx \in 1 .. Len(rawArgv) /\ Arg \in Texts
      BY SpecFacts DEF TypeOK, AtOption, Arg
<1>2. argIdx # Len(rawArgv) => rawArgv[argIdx + 1] \in Texts
      BY <1>1, SpecFacts
<1>. QED  BY <1>1, <1>2, TextAssumption DEF OptionValue

\* What Store() does.
IsStored(new, name, type, item) ==
    /\ new = [n \in DOMAIN parsedArgs \cup {name} |-> new[n]]
    /\ ~ exists(name) => new[name] = [type |-> type, items |-> <<item>>]
    /\ exists(name) /\ type \notin ArrayTypes => new[name] = parsedArgs[name]
    /\ exists(name) /\ type \in ArrayTypes =>
          new[name] = [type |-> parsedArgs[name].type, items |-> Append(parsedArgs[name].items, item)]
    /\ \A n \in DOMAIN parsedArgs : n # name => new[n] = parsedArgs[n]

LEMMA Stored ==
    ASSUME TypeOK, NEW name, NEW type, NEW item
    PROVE  IsStored(Store(name, type, item), name, type, item)
<1>. DEFINE new == Store(name, type, item)
<1>1. parsedArgs = [n \in DOMAIN parsedArgs |-> parsedArgs[n]]
      BY DEF TypeOK
<1>2. CASE ~ exists(name)
  <2>1. new = [n \in DOMAIN parsedArgs \cup {name} |->
                  IF n = name THEN [type |-> type, items |-> <<item>>] ELSE parsedArgs[n]]
        BY <1>2 DEF Store
  <2>. HIDE DEF new
  <2>. QED  BY <1>2, <2>1 DEF exists, new, IsStored
<1>3. CASE exists(name) /\ type \notin ArrayTypes
  <2>1. new = parsedArgs /\ DOMAIN parsedArgs \cup {name} = DOMAIN parsedArgs
        BY <1>3 DEF Store, exists
  <2>. QED  BY <1>1, <1>3, <2>1 DEF IsStored
<1>4. CASE exists(name) /\ type \in ArrayTypes
  <2>1. new = [parsedArgs EXCEPT ![name] = [type |-> @.type, items |-> Append(@.items, item)]]
        BY <1>4 DEF Store
  <2>2. DOMAIN parsedArgs \cup {name} = DOMAIN parsedArgs /\ name \in DOMAIN parsedArgs
        BY <1>4 DEF exists
  <2>3. new[name] = [type |-> parsedArgs[name].type, items |-> Append(parsedArgs[name].items, item)]
        BY <1>1, <2>1, <2>2
  <2>4. \A n \in DOMAIN parsedArgs : n # name => new[n] = parsedArgs[n]
        BY <1>1, <2>1, <2>2
  <2>5. new = [n \in DOMAIN parsedArgs |-> new[n]]
        BY <1>1, <2>1, <2>2
  <2>. QED  BY <1>4, <2>2, <2>3, <2>4, <2>5 DEF IsStored
<1>. QED  BY <1>2, <1>3, <1>4

\* What ParseOption does with an option that it takes.
LEMMA OptionTaken ==
    ASSUME TypeOK, ParseOption, step' # "refused"
    PROVE  LET i == FirstNamed(spec, NameOf[Arg])
               value == OptionValue(i)
           IN /\ step = "options" /\ argIdx \in 1 .. Len(rawArgv) /\ Arg \in Texts
              /\ i \in 1 .. Len(spec) /\ spec[i].name = NameOf[Arg]
              /\ value # Unset /\ value \in Texts
              /\ Item(spec[i], value) # Unset
              /\ parsedArgs' = Store(NameOf[Arg], spec[i].type, Item(spec[i], value))
              /\ bound' = Bind(i, Item(spec[i], value))
              /\ argIdx' = argIdx + (IF spec[i].withArg /\ ~ HasAssign[Arg] THEN 2 ELSE 1)
              /\ UNCHANGED <<spec, rawArgv, positionalIdx, step>>
<1>. DEFINE i == FirstNamed(spec, NameOf[Arg])
            value == OptionValue(i)
<1>1. /\ i # 0 /\ value # Unset /\ Item(spec[i], value) # Unset
      /\ parsedArgs' = Store(NameOf[Arg], spec[i].type, Item(spec[i], value))
      /\ bound' = Bind(i, Item(spec[i], value))
      /\ argIdx' = argIdx + (IF spec[i].withArg /\ ~ HasAssign[Arg] THEN 2 ELSE 1)
      /\ UNCHANGED <<spec, rawArgv, positionalIdx, step>>
      BY DEF ParseOption, Return, findOptionSpecByName
<1>2. i \in 1 .. Len(spec) /\ spec[i].name = NameOf[Arg]
      BY <1>1, SpecFacts, FirstNamedFacts
<1>3. AtOption /\ step = "options" /\ argIdx \in 1 .. Len(rawArgv) /\ Arg \in Texts
      BY SpecFacts DEF ParseOption, AtOption, TypeOK, Arg
<1>4. value \in Texts
      BY <1>1, <1>2, <1>3, OptionText
<1>. QED  BY <1>1, <1>2, <1>3, <1>4

LEMMA OptionKeepsTypes ==
    ASSUME ParseTypes, ParseOption
    PROVE  ParseTypes'
<1>. DEFINE i == FirstNamed(spec, NameOf[Arg])
            value == OptionValue(i)
            item == Item(spec[i], value)
<1>1. TypeOK
      BY DEF ParseTypes
<1>2. CASE step' = "refused"
  <2>1. step = "options"
        BY DEF ParseOption, AtOption
  <2>2. Return("refused")
        BY <1>2, <2>1 DEF ParseOption
  <2>. QED  BY <2>1, <2>2, ReturnTypes DEF Steps
<1>3. CASE step' # "refused"
  <2>1. /\ step = "options" /\ argIdx \in 1 .. Len(rawArgv)
        /\ i \in 1 .. Len(spec) /\ spec[i].name = NameOf[Arg]
        /\ value \in Texts
        /\ parsedArgs' = Store(NameOf[Arg], spec[i].type, item)
        /\ bound' = Bind(i, item)
        /\ argIdx' = argIdx + (IF spec[i].withArg /\ ~ HasAssign[Arg] THEN 2 ELSE 1)
        /\ UNCHANGED <<spec, rawArgv, positionalIdx, step>>
        BY <1>1, <1>3, OptionTaken
  <2>2. spec[i].type = "STRING" => item \in [1 .. 1 -> Texts]
        BY <2>1 DEF Item
  <2>. HIDE DEF item, value, i
  <2>3. IsStored(parsedArgs', NameOf[Arg], spec[i].type, item)
        BY <1>1, <2>1, Stored
  <2>4. bound' = [j \in 1 .. Len(spec) |-> bound'[j]]
        BY <1>1, <2>1 DEF Bind, TypeOK
  <2>5. parsedArgs' = [n \in DOMAIN parsedArgs \cup {NameOf[Arg]} |-> parsedArgs'[n]]
        BY <2>3 DEF IsStored
  <2>6. TypeOK'
    <3>1. parsedArgs' = [n \in DOMAIN (parsedArgs') |-> parsedArgs'[n]]
          BY <2>5
    <3>. QED  BY <1>1, <2>1, <2>4, <3>1 DEF TypeOK
  <2>7. EntriesOK'
    <3>. SUFFICES ASSUME NEW n \in DOMAIN (parsedArgs')
                  PROVE  \E j \in 1 .. Len(spec) :
                            /\ j = FirstNamed(spec, n)
                            /\ parsedArgs'[n].type = spec[j].type
                            /\ spec[j].type = "STRING" => parsedArgs'[n].items \in [1 .. 1 -> [1 .. 1 -> Texts]]
         BY <2>1 DEF EntriesOK
    <3>1. CASE n # NameOf[Arg]
      <4>1. n \in DOMAIN parsedArgs /\ parsedArgs'[n] = parsedArgs[n]
            BY <2>3, <2>5, <3>1 DEF IsStored
      <4>. QED  BY <2>1, <4>1 DEF ParseTypes, EntriesOK
    <3>2. CASE n = NameOf[Arg] /\ ~ exists(n)
      <4>1. parsedArgs'[n] = [type |-> spec[i].type, items |-> <<item>>]
            BY <2>3, <3>2 DEF IsStored
      <4>2. i = FirstNamed(spec, n)
            BY <3>2 DEF i
      <4>. QED  BY <2>1, <2>2, <4>1, <4>2
    <3>3. CASE n = NameOf[Arg] /\ exists(n)
      <4>1. PICK j \in 1 .. Len(spec) :
                /\ j = FirstNamed(spec, n)
                /\ parsedArgs[n].type = spec[j].type
                /\ spec[j].type = "STRING" => parsedArgs[n].items \in [1 .. 1 -> [1 .. 1 -> Texts]]
            BY <2>1, <3>3 DEF ParseTypes, EntriesOK, exists
      <4>2. j = i
            BY <3>3, <4>1 DEF i
      <4>3. CASE spec[i].type \notin ArrayTypes
        <5>1. parsedArgs'[n] = parsedArgs[n]
              BY <2>3, <3>3, <4>3 DEF IsStored
        <5>. QED  BY <4>1, <5>1
      <4>4. CASE spec[i].type \in ArrayTypes
        <5>1. parsedArgs'[n] = [type |-> parsedArgs[n].type, items |-> Append(parsedArgs[n].items, item)]
              BY <2>3, <3>3, <4>4 DEF IsStored
        <5>2. parsedArgs'[n].type = parsedArgs[n].type
              BY <5>1
        <5>3. spec[i].type # "STRING"
              BY <4>4 DEF ArrayTypes
        <5>. QED  BY <2>1, <4>1, <4>2, <5>2, <5>3
      <4>. QED  BY <4>3, <4>4
    <3>. QED  BY <3>1, <3>2, <3>3
  <2>. QED  BY <2>1, <2>6, <2>7 DEF ParseTypes, DefaultsApplied, Unread
<1>. QED  BY <1>2, <1>3

\* What applyDefaultValues() does when it refuses no specification.
LEMMA DefaultsTaken ==
    ASSUME TypeOK, applyDefaultValues, step' # "refused"
    PROVE  LET applied == {i \in 1 .. Len(spec) : /\ ~ isPositional(spec[i])
                                                  /\ hasDefaultValue(spec[i])
                                                  /\ ~ exists(spec[i].name)}
           IN /\ step = "defaults" /\ step' = "count"
              /\ UNCHANGED <<spec, rawArgv, argIdx, positionalIdx, bound>>
              /\ \A i \in 1 .. Len(spec) : ~ Refused(spec[i])
              /\ parsedArgs' = [n \in DOMAIN parsedArgs \cup {spec[i].name : i \in applied} |-> parsedArgs'[n]]
              /\ \A n \in DOMAIN parsedArgs : parsedArgs'[n] = parsedArgs[n]
              /\ \A i \in applied : parsedArgs'[spec[i].name] =
                    [type |-> spec[i].type, items |-> <<spec[i].default.item>>]
<1>. DEFINE applied == {i \in 1 .. Len(spec) : /\ ~ isPositional(spec[i])
                                               /\ hasDefaultValue(spec[i])
                                               /\ ~ exists(spec[i].name)}
            bad == {i \in 1 .. Len(spec) : Refused(spec[i])}
            s(n) == spec[Min({i \in applied : spec[i].name = n})]
<1>1. step = "defaults" /\ UNCHANGED <<spec, rawArgv, argIdx, positionalIdx, bound>>
      BY DEF applyDefaultValues
<1>2. bad = {} /\ step' = "count"
      BY DEF applyDefaultValues
<1>3. DefaultsBefore(Min(bad \cup {Len(spec) + 1})) = applied
  <2>1. bad \cup {Len(spec) + 1} = {Len(spec) + 1} /\ {Len(spec) + 1} \in SUBSET Nat
        BY <1>2, SpecFacts
  <2>2. Min({Len(spec) + 1}) = Len(spec) + 1
        BY <2>1, Smallest
  <2>3. 1 .. (Len(spec) + 1) - 1 = 1 .. Len(spec)
        BY SpecFacts
  <2>. QED  BY <2>1, <2>2, <2>3 DEF DefaultsBefore
<1>4. parsedArgs' = [n \in DOMAIN parsedArgs \cup {spec[i].name : i \in applied} |->
                        IF exists(n) THEN parsedArgs[n]
                        ELSE [type |-> s(n).type, items |-> <<s(n).default.item>>]]
  <2>. HIDE DEF applied
  <2>. QED  BY <1>3 DEF applyDefaultValues
<1>5. ASSUME NEW i \in applied
      PROVE  s(spec[i].name) = spec[i]
  <2>1. i \in 1 .. Len(spec) /\ ~ isPositional(spec[i]) /\ spec \in Specs
        BY DEF TypeOK
  <2>2. {j \in applied : spec[j].name = spec[i].name} = {i}
        BY <2>1, OwnName
  <2>3. {i} \in SUBSET Nat
        BY <2>1, SpecFacts
  <2>4. Min({i}) = i
        BY <2>3, Smallest
  <2>. QED  BY <2>2, <2>4
<1>6. \A i \in applied : ~ exists(spec[i].name)
      OBVIOUS
<1>. HIDE DEF applied, s
<1>7. \A i \in applied : parsedArgs'[spec[i].name] =
          [type |-> spec[i].type, items |-> <<spec[i].default.item>>]
      BY <1>4, <1>5, <1>6
<1>8. \A n \in DOMAIN parsedArgs : parsedArgs'[n] = parsedArgs[n]
      BY <1>4 DEF exists
<1>9. parsedArgs' = [n \in DOMAIN parsedArgs \cup {spec[i].name : i \in applied} |-> parsedArgs'[n]]
      BY <1>4
<1>. QED  BY <1>1, <1>2, <1>7, <1>8, <1>9 DEF applied

LEMMA DefaultsKeepTypes ==
    ASSUME ParseTypes, applyDefaultValues
    PROVE  ParseTypes'
<1>. DEFINE applied == {i \in 1 .. Len(spec) : /\ ~ isPositional(spec[i])
                                               /\ hasDefaultValue(spec[i])
                                               /\ ~ exists(spec[i].name)}
<1>1. /\ TypeOK /\ EntriesOK /\ step = "defaults" /\ step' \in {"count", "refused"} /\ positionalIdx = 1
      /\ UNCHANGED <<spec, rawArgv, argIdx, positionalIdx, bound>>
      BY DEF ParseTypes, applyDefaultValues, Unread
<1>2. TypeOK'
  <2>1. parsedArgs' = [n \in DOMAIN (parsedArgs') |-> parsedArgs'[n]]
        BY DEF applyDefaultValues
  <2>. QED  BY <1>1, <2>1 DEF TypeOK, Steps
<1>3. CASE step' = "refused"
      BY <1>2, <1>3 DEF ParseTypes, DefaultsApplied, Unread
<1>4. CASE step' # "refused"
  <2>1. /\ \A i \in 1 .. Len(spec) : ~ Refused(spec[i])
        /\ parsedArgs' = [n \in DOMAIN parsedArgs \cup {spec[i].name : i \in applied} |-> parsedArgs'[n]]
        /\ \A n \in DOMAIN parsedArgs : parsedArgs'[n] = parsedArgs[n]
        /\ \A i \in applied : parsedArgs'[spec[i].name] =
               [type |-> spec[i].type, items |-> <<spec[i].default.item>>]
        BY <1>1, <1>4, DefaultsTaken
  <2>2. EntriesOK'
    <3>. SUFFICES ASSUME NEW n \in DOMAIN (parsedArgs')
                  PROVE  \E j \in 1 .. Len(spec) :
                            /\ j = FirstNamed(spec, n)
                            /\ parsedArgs'[n].type = spec[j].type
                            /\ spec[j].type = "STRING" => parsedArgs'[n].items \in [1 .. 1 -> [1 .. 1 -> Texts]]
         BY <1>1 DEF EntriesOK
    <3>1. CASE n \in DOMAIN parsedArgs
          BY <1>1, <2>1, <3>1 DEF EntriesOK
    <3>2. ASSUME NEW i \in applied, n = spec[i].name
          PROVE  /\ i \in 1 .. Len(spec) /\ i = FirstNamed(spec, n)
                 /\ parsedArgs'[n].type = spec[i].type
                 /\ parsedArgs'[n].items \in [1 .. 1 -> [1 .. 1 -> Texts]]
      <4>1. i \in 1 .. Len(spec) /\ ~ isPositional(spec[i]) /\ hasDefaultValue(spec[i])
            OBVIOUS
      <4>2. i = FirstNamed(spec, n)
            BY <1>1, <3>2, <4>1, OwnName DEF TypeOK
      <4>3. spec[i].default.item \in [1 .. 1 -> Texts]
            BY <1>1, <4>1, SpecFacts DEF ArgumentSpecs, DefaultValues, hasDefaultValue
      <4>. HIDE DEF applied
      <4>4. parsedArgs'[n] = [type |-> spec[i].type, items |-> <<spec[i].default.item>>]
            BY <2>1, <3>2
      <4>5. parsedArgs'[n].type = spec[i].type /\ parsedArgs'[n].items = <<spec[i].default.item>>
            BY <4>4
      <4>. QED  BY <4>1, <4>2, <4>3, <4>5
    <3>. QED  BY <2>1, <3>1, <3>2
  <2>3. DefaultsApplied'
    <3>. SUFFICES ASSUME NEW i \in 1 .. Len(spec), ~ isPositional(spec[i]), hasDefaultValue(spec[i])
                  PROVE  spec[i].name \in DOMAIN (parsedArgs')
         BY <1>1 DEF DefaultsApplied, isPositional, hasDefaultValue, exists
    <3>1. exists(spec[i].name) \/ i \in applied
          OBVIOUS
    <3>. HIDE DEF applied
    <3>. QED  BY <2>1, <3>1 DEF exists
  <2>. QED  BY <1>1, <1>2, <2>2, <2>3 DEF ParseTypes, Unread
<1>. QED  BY <1>3, <1>4

\* The next positional, and what ParsePositional does.
LEMMA NextPositional ==
    ASSUME TypeOK, NEW i, i = Min({j \in Positionals : j >= positionalIdx}),
           {j \in Positionals : j >= positionalIdx} # {}
    PROVE  /\ i \in 1 .. Len(spec) /\ i \in Positionals /\ i >= positionalIdx
           /\ \A j \in Positionals : j >= positionalIdx => i <= j
<1>. DEFINE left == {j \in Positionals : j >= positionalIdx}
<1>1. left \in SUBSET Nat /\ left # {} /\ left \subseteq Positionals /\ Positionals \subseteq 1 .. Len(spec)
      BY SpecFacts DEF Positionals
<1>2. i \in left /\ \A j \in left : i <= j
  <2>. HIDE DEF left
  <2>. QED  BY <1>1, Smallest DEF left
<1>. QED  BY <1>1, <1>2

LEMMA PositionalKeepsTypes ==
    ASSUME ParseTypes, ParsePositional
    PROVE  ParseTypes'
<1>. DEFINE left == {j \in Positionals : j >= positionalIdx}
            i == Min(left)
<1>1. /\ TypeOK /\ EntriesOK /\ DefaultsApplied /\ step = "positionals" /\ step' \in {"positionals", "refused"}
      /\ UNCHANGED <<spec, rawArgv, parsedArgs>>
      /\ argIdx' \in {argIdx, argIdx + 1}
      BY DEF ParseTypes, ParsePositional
<1>2. positionalIdx' \in 1 .. Len(spec) + 1
  <2>1. CASE left = {}
        BY <1>1, <2>1, SpecFacts DEF ParsePositional
  <2>2. CASE left # {}
    <3>1. i \in 1 .. Len(spec) /\ positionalIdx' = i + 1
          BY <1>1, <2>2, NextPositional DEF ParsePositional
    <3>. HIDE DEF i
    <3>. QED  BY <1>1, <3>1, SpecFacts
  <2>. QED  BY <2>1, <2>2
<1>3. bound' = [j \in 1 .. Len(spec) |-> bound'[j]]
  <2>1. bound' = bound \/ \E item : bound' = Bind(i, item)
        BY DEF ParsePositional
  <2>. QED  BY <1>1, <2>1 DEF Bind, TypeOK
<1>4. TypeOK'
      BY <1>1, <1>2, <1>3 DEF TypeOK, Steps
<1>5. EntriesOK'
      BY <1>1 DEF EntriesOK
<1>. QED  BY <1>1, <1>4, <1>5 DEF ParseTypes, DefaultsApplied, Unread, exists

LEMMA ParseStepKeepsTypes ==
    ASSUME ParseTypes, ParseStep
    PROVE  ParseTypes'
<1>1. ASSUME RefuseShortOption \/ EmptyArgument \/ readyForPositionals
      PROVE  ParseTypes'
      BY <1>1, ReturnTypes DEF RefuseShortOption, EmptyArgument, readyForPositionals, AtOption, Steps
<1>2. ASSUME EndOfOptions \/ CheckOptions
      PROVE  ParseTypes'
      BY <1>2, ReturnTypes DEF EndOfOptions, CheckOptions, Steps
<1>3. ASSUME CountPositionals \/ EndOfPositionals
      PROVE  ParseTypes'
      BY <1>3, ReturnTypes DEF CountPositionals, EndOfPositionals, Steps
<1>. QED  BY <1>1, <1>2, <1>3, ParseKeepsTypes, OptionKeepsTypes, DefaultsKeepTypes,
             PositionalKeepsTypes DEF ParseStep

-----------------------------------------------------------------------------
(* The settings on their way from the worker to the runner.                  *)

KeyedFields == {"url", "instanceName", "serverCertPath", "clientKeyPath", "clientCertPath",
                "accessTokenPath", "tokenReloadInterval", "retryLimit", "retryDelay",
                "loadBalancingPolicy"}
Keys == {"remote", "instance", "server-cert", "client-key", "client-cert", "access-token",
         "token-reload-interval", "retry-limit", "retry-delay", "load-balancing-policy"}

LEMMA FieldsAre ==
    /\ Fields = KeyedFields \cup {"useGoogleApiAuth", "serverCert", "clientKey", "clientCert"}
    /\ Defaults = [f \in Fields |-> Defaults[f]]
    /\ \A f \in Fields \ {"useGoogleApiAuth", "retryLimit", "retryDelay"} : Defaults[f] = Unset
    /\ Defaults.useGoogleApiAuth = FALSE
BY DEF Fields, KeyedFields, Defaults

\* Every key is that of one setting.
LEMMA SettingOfFacts ==
    /\ DOMAIN SettingOf = Keys
    /\ SettingOf["remote"] = "url"
    /\ SettingOf["instance"] = "instanceName"
    /\ SettingOf["server-cert"] = "serverCertPath"
    /\ SettingOf["client-key"] = "clientKeyPath"
    /\ SettingOf["client-cert"] = "clientCertPath"
    /\ SettingOf["access-token"] = "accessTokenPath"
    /\ SettingOf["token-reload-interval"] = "tokenReloadInterval"
    /\ SettingOf["retry-limit"] = "retryLimit"
    /\ SettingOf["retry-delay"] = "retryDelay"
    /\ SettingOf["load-balancing-policy"] = "loadBalancingPolicy"
<1>1. DOMAIN SettingOf = Keys
      BY DEF SettingOf, Keys
<1>2. SettingOf["remote"] = "url" /\ SettingOf["instance"] = "instanceName"
      BY DEF SettingOf
<1>3. SettingOf["server-cert"] = "serverCertPath" /\ SettingOf["client-key"] = "clientKeyPath"
      BY DEF SettingOf
<1>4. SettingOf["client-cert"] = "clientCertPath" /\ SettingOf["access-token"] = "accessTokenPath"
      BY DEF SettingOf
<1>5. /\ SettingOf["token-reload-interval"] = "tokenReloadInterval"
      /\ SettingOf["retry-limit"] = "retryLimit"
      BY DEF SettingOf
<1>6. /\ SettingOf["retry-delay"] = "retryDelay"
      /\ SettingOf["load-balancing-policy"] = "loadBalancingPolicy"
      BY DEF SettingOf
<1>. QED  BY <1>1, <1>2, <1>3, <1>4, <1>5, <1>6

LEMMA KeysAndFields ==
    /\ \A key \in Keys : SettingOf[key] \in KeyedFields
    /\ \A f \in KeyedFields : \E key \in Keys : SettingOf[key] = f
    /\ \A j, k \in Keys : SettingOf[j] = SettingOf[k] => j = k
BY SettingOfFacts DEF Keys, KeyedFields

\* The options that a worker gets from its command line.
LEMMA Configured ==
    ASSUME NEW o, o = configureChannel(WorkerPrefix)
    PROVE  /\ o = [f \in Fields |-> o[f]]
           /\ \A key \in Keys : o[SettingOf[key]] = Setting(WorkerPrefix, key)
           /\ o.useGoogleApiAuth = Flag(WorkerPrefix, "googleapi-auth")
           /\ o.useGoogleApiAuth \in BOOLEAN
           /\ o.serverCert = Unset /\ o.clientKey = Unset /\ o.clientCert = Unset
<1>1. /\ o.url = Setting(WorkerPrefix, "remote")
      /\ o.instanceName = Setting(WorkerPrefix, "instance")
      /\ o.serverCertPath = Setting(WorkerPrefix, "server-cert")
      /\ o.clientKeyPath = Setting(WorkerPrefix, "client-key")
      /\ o.clientCertPath = Setting(WorkerPrefix, "client-cert")
      /\ o.accessTokenPath = Setting(WorkerPrefix, "access-token")
      /\ o.tokenReloadInterval = Setting(WorkerPrefix, "token-reload-interval")
      /\ o.retryLimit = Setting(WorkerPrefix, "retry-limit")
      /\ o.retryDelay = Setting(WorkerPrefix, "retry-delay")
      /\ o.loadBalancingPolicy = Setting(WorkerPrefix, "load-balancing-policy")
      BY DEF configureChannel, Defaults
<1>2. o.useGoogleApiAuth = Flag(WorkerPrefix, "googleapi-auth")
      BY DEF configureChannel, Defaults
<1>3. o.useGoogleApiAuth \in BOOLEAN
      BY <1>2 DEF Flag
<1>4. o.serverCert = Unset /\ o.clientKey = Unset /\ o.clientCert = Unset
      BY DEF configureChannel, Defaults
<1>5. o = [f \in Fields |-> o[f]]
      BY DEF configureChannel, Defaults, Fields
<1>6. \A key \in Keys : o[SettingOf[key]] = Setting(WorkerPrefix, key)
      BY <1>1, SettingOfFacts DEF Keys
<1>. QED  BY <1>2, <1>3, <1>4, <1>5, <1>6

\* The elements of a sequence, when it is put together or taken apart.
LEMMA Elements ==
    ASSUME NEW S, NEW a \in Seq(S), NEW b \in Seq(S)
    PROVE  /\ a \o b \in Seq(S)
           /\ ToSet(a \o b) = ToSet(a) \cup ToSet(b)
           /\ ToSet(a) \subseteq S
<1>1. a \o b \in Seq(S) /\ Len(a \o b) = Len(a) + Len(b) /\ Len(a) \in Nat /\ Len(b) \in Nat
      OBVIOUS
<1>2. ASSUME NEW x \in ToSet(a \o b)
      PROVE  x \in ToSet(a) \cup ToSet(b)
  <2>1. PICK i \in 1 .. Len(a) + Len(b) : x = (a \o b)[i]
        BY <1>1 DEF ToSet
  <2>2. CASE i <= Len(a)
    <3>1. i \in 1 .. Len(a) /\ x = a[i]
          BY <1>1, <2>1, <2>2
    <3>. QED  BY <3>1 DEF ToSet
  <2>3. CASE i > Len(a)
    <3>1. i - Len(a) \in 1 .. Len(b) /\ x = b[i - Len(a)]
          BY <1>1, <2>1, <2>3
    <3>. QED  BY <3>1 DEF ToSet
  <2>. QED  BY <1>1, <2>1, <2>2, <2>3
<1>3. ASSUME NEW x \in ToSet(a)
      PROVE  x \in ToSet(a \o b)
  <2>1. PICK i \in 1 .. Len(a) : x = a[i]
        BY DEF ToSet
  <2>2. i \in 1 .. Len(a) + Len(b) /\ x = (a \o b)[i]
        BY <1>1, <2>1
  <2>. QED  BY <1>1, <2>2 DEF ToSet
<1>4. ASSUME NEW x \in ToSet(b)
      PROVE  x \in ToSet(a \o b)
  <2>1. PICK i \in 1 .. Len(b) : x = b[i]
        BY DEF ToSet
  <2>2. Len(a) + i \in 1 .. Len(a) + Len(b) /\ x = (a \o b)[Len(a) + i]
        BY <1>1, <2>1
  <2>. QED  BY <1>1, <2>2 DEF ToSet
<1>5. ToSet(a) \subseteq S
      BY DEF ToSet
<1>. QED  BY <1>1, <1>2, <1>3, <1>4, <1>5

LEMMA OwnElements ==
    ASSUME NEW S, NEW a \in Seq(S)
    PROVE  a \in Seq(ToSet(a)) /\ \A i \in 1 .. Len(a) : a[i] \in ToSet(a)
<1>1. \A i \in 1 .. Len(a) : a[i] \in ToSet(a)
      BY DEF ToSet
<1>2. a \in [1 .. Len(a) -> ToSet(a)] /\ Len(a) \in Nat
      BY <1>1
<1>. QED  BY <1>1, <1>2

LEMMA HeadAndTail ==
    ASSUME NEW a, a \in Seq(ToSet(a)), a # <<>>
    PROVE  /\ Head(a) \in ToSet(a)
           /\ Tail(a) \in Seq(ToSet(Tail(a)))
           /\ ToSet(a) = {Head(a)} \cup ToSet(Tail(a))
<1>. DEFINE t == Tail(a)
<1>1. /\ Len(a) \in Nat \ {0} /\ Head(a) = a[1]
      /\ t \in Seq(ToSet(a)) /\ Len(t) = Len(a) - 1
      /\ \A i \in 1 .. Len(a) - 1 : t[i] = a[i + 1]
      OBVIOUS
<1>. HIDE DEF t
<1>2. \A x \in ToSet(t) : x \in ToSet(a)
      BY <1>1, Elements
<1>3. ASSUME NEW x \in ToSet(a), x # Head(a)
      PROVE  x \in ToSet(t)
  <2>1. PICK i \in 1 .. Len(a) : x = a[i]
        BY DEF ToSet
  <2>2. i - 1 \in 1 .. Len(t) /\ x = t[i - 1]
        BY <1>1, <1>3, <2>1
  <2>. QED  BY <1>1, <2>2, OwnElements
<1>4. Head(a) \in ToSet(a)
      BY <1>1, OwnElements
<1>5. t \in Seq(ToSet(t))
      BY <1>1, OwnElements
<1>. QED  BY <1>2, <1>3, <1>4, <1>5 DEF t

\* What putArgs() writes: an argument for every setting that is set.
Written(o, prefix) ==
    {Argument(prefix, key, o[SettingOf[key]]) : key \in {k \in Keys : o[SettingOf[k]] # Unset}}
    \cup (IF o.useGoogleApiAuth THEN {Argument("", "googleapi-auth", Unset)} ELSE {})

LEMMA PutArgsFacts ==
    ASSUME NEW o, NEW prefix
    PROVE  /\ putArgs(o, prefix) \in Seq(Written(o, prefix))
           /\ ToSet(putArgs(o, prefix)) = Written(o, prefix)
<1>. DEFINE W == Written(o, prefix)
            put(key) == PutArg(o, prefix, key)
            for(key) == IF o[SettingOf[key]] = Unset THEN {} ELSE {Argument(prefix, key, o[SettingOf[key]])}
            flag == IF o.useGoogleApiAuth THEN <<Argument("", "googleapi-auth", Unset)>> ELSE <<>>
            google == IF o.useGoogleApiAuth THEN {Argument("", "googleapi-auth", Unset)} ELSE {}
<1>1. ASSUME NEW key \in Keys
      PROVE  put(key) \in Seq(W) /\ ToSet(put(key)) = for(key)
  <2>1. CASE o[SettingOf[key]] = Unset
    <3>1. put(key) = <<>>
          BY <2>1 DEF PutArg
    <3>. QED  BY <2>1, <3>1 DEF ToSet
  <2>2. CASE o[SettingOf[key]] # Unset
    <3>. DEFINE arg == Argument(prefix, key, o[SettingOf[key]])
    <3>1. put(key) = <<arg>>
          BY <2>2 DEF PutArg
    <3>2. arg \in W
          BY <2>2 DEF Written
    <3>. HIDE DEF arg
    <3>3. <<arg>> \in Seq(W) /\ ToSet(<<arg>>) = {arg}
          BY <3>2 DEF ToSet
    <3>. QED  BY <2>2, <3>1, <3>3 DEF arg
  <2>. QED  BY <2>1, <2>2
<1>2. flag \in Seq(W) /\ ToSet(flag) = google
  <2>. DEFINE arg == Argument("", "googleapi-auth", Unset)
  <2>1. CASE o.useGoogleApiAuth
    <3>1. arg \in W
          BY <2>1 DEF Written
    <3>. HIDE DEF arg
    <3>2. <<arg>> \in Seq(W) /\ ToSet(<<arg>>) = {arg}
          BY <3>1 DEF ToSet
    <3>. QED  BY <2>1, <3>2 DEF arg
  <2>2. CASE ~ o.useGoogleApiAuth
        BY <2>2 DEF ToSet
  <2>. QED  BY <2>1, <2>2
<1>3. /\ "remote" \in Keys /\ "instance" \in Keys /\ "server-cert" \in Keys /\ "client-key" \in Keys
      /\ "client-cert" \in Keys /\ "access-token" \in Keys /\ "token-reload-interval" \in Keys
      /\ "retry-limit" \in Keys /\ "retry-delay" \in Keys /\ "load-balancing-policy" \in Keys
      BY DEF Keys
<1>. DEFINE a2 == put("remote") \o put("instance")
            a3 == a2 \o put("server-cert")
            a4 == a3 \o put("client-key")
            a5 == a4 \o put("client-cert")
            a6 == a5 \o put("access-token")
            a7 == a6 \o put("token-reload-interval")
            a8 == a7 \o put("retry-limit")
            a9 == a8 \o put("retry-delay")
            a10 == a9 \o flag
            a11 == a10 \o put("load-balancing-policy")
<1>4. putArgs(o, prefix) = a11
      BY DEF putArgs
<1>. HIDE DEF W, put, for, flag, google
<1>5. a2 \in Seq(W) /\ ToSet(a2) = for("remote") \cup for("instance")
      BY <1>1, <1>3, Elements
<1>. HIDE DEF a2
<1>6. a3 \in Seq(W) /\ ToSet(a3) = ToSet(a2) \cup for("server-cert")
      BY <1>1, <1>3, <1>5, Elements
<1>. HIDE DEF a3
<1>7. a4 \in Seq(W) /\ ToSet(a4) = ToSet(a3) \cup for("client-key")
      BY <1>1, <1>3, <1>6, Elements
<1>. HIDE DEF a4
<1>8. a5 \in Seq(W) /\ ToSet(a5) = ToSet(a4) \cup for("client-cert")
      BY <1>1, <1>3, <1>7, Elements
<1>. HIDE DEF a5
<1>9. a6 \in Seq(W) /\ ToSet(a6) = ToSet(a5) \cup for("access-token")
      BY <1>1, <1>3, <1>8, Elements
<1>. HIDE DEF a6
<1>10. a7 \in Seq(W) /\ ToSet(a7) = ToSet(a6) \cup for("token-reload-interval")
      BY <1>1, <1>3, <1>9, Elements
<1>. HIDE DEF a7
<1>11. a8 \in Seq(W) /\ ToSet(a8) = ToSet(a7) \cup for("retry-limit")
      BY <1>1, <1>3, <1>10, Elements
<1>. HIDE DEF a8
<1>12. a9 \in Seq(W) /\ ToSet(a9) = ToSet(a8) \cup for("retry-delay")
      BY <1>1, <1>3, <1>11, Elements
<1>. HIDE DEF a9
<1>13. a10 \in Seq(W) /\ ToSet(a10) = ToSet(a9) \cup google
      BY <1>2, <1>12, Elements
<1>. HIDE DEF a10
<1>14. a11 \in Seq(W) /\ ToSet(a11) = ToSet(a10) \cup for("load-balancing-policy")
      BY <1>1, <1>3, <1>13, Elements
<1>. HIDE DEF a11
<1>15. ASSUME NEW key \in Keys
       PROVE  for(key) \subseteq ToSet(a11)
  <2>1. \/ key = "remote" \/ key = "instance" \/ key = "server-cert" \/ key = "client-key"
        \/ key = "client-cert" \/ key = "access-token" \/ key = "token-reload-interval"
        \/ key = "retry-limit" \/ key = "retry-delay" \/ key = "load-balancing-policy"
        BY DEF Keys
  <2>. QED  BY <1>5, <1>6, <1>7, <1>8, <1>9, <1>10, <1>11, <1>12, <1>13, <1>14, <2>1
<1>16. google \subseteq ToSet(a11)
       BY <1>13, <1>14
<1>17. W \subseteq ToSet(a11)
  <2>. SUFFICES ASSUME NEW x \in W PROVE x \in ToSet(a11)
       OBVIOUS
  <2>1. CASE x \in google
        BY <1>16, <2>1
  <2>2. CASE x \notin google
    <3>1. PICK key \in Keys : o[SettingOf[key]] # Unset /\ x = Argument(prefix, key, o[SettingOf[key]])
          BY <2>2 DEF W, Written, google
    <3>2. x \in for(key)
          BY <3>1 DEF for
    <3>. QED  BY <1>15, <3>2
  <2>. QED  BY <2>1, <2>2
<1>18. ToSet(a11) \subseteq W
       BY <1>14, Elements
<1>. QED  BY <1>4, <1>14, <1>17, <1>18 DEF W

\* A program with a connection specifies each of its options.
LEMMA ConnectionIsSpecified ==
    ASSUME TypeOK, existsInSpec(WorkerPrefix \o "remote")
    PROVE  /\ \A key \in Keys : \E i \in 1 .. Len(spec) :
                 /\ spec[i].name = WorkerPrefix \o key /\ ~ isPositional(spec[i])
                 /\ spec[i].type = "STRING"
                 /\ key \in {"retry-limit", "retry-delay"} => hasDefaultValue(spec[i])
                 /\ key \notin {"instance", "retry-limit", "retry-delay"} => ~ hasDefaultValue(spec[i])
           /\ \E i \in 1 .. Len(spec) :
                 /\ spec[i].name = WorkerPrefix \o "googleapi-auth" /\ ~ isPositional(spec[i])
                 /\ spec[i].type = "BOOL"
                 /\ hasDefaultValue(spec[i]) /\ spec[i].default.item = <<"false">>
<1>1. PICK required \in BOOLEAN :
          \A option \in ToSet(ConnectionSpec(WorkerPrefix, required)) :
              option.name # "" /\ option \in ToSet(spec)
  <2>. DEFINE name == WorkerPrefix \o "remote"
  <2>1. FirstNamed(spec, name) # 0 /\ spec \in Seq(ArgumentSpecs)
        BY SpecFacts DEF existsInSpec, findOptionSpecByName
  <2>2. FirstNamed(spec, name) \in 1 .. Len(spec) /\ spec[FirstNamed(spec, name)].name = name
    <3>. HIDE DEF name
    <3>. QED  BY <2>1, FirstNamedFacts
  <2>. QED  BY <2>2, WorkerAssumption DEF TypeOK
<1>. DEFINE c == ConnectionSpec(WorkerPrefix, required)
            option(key, type, default) ==
                ArgumentSpec(WorkerPrefix \o key, type, FALSE, TRUE, default, FALSE)
<1>2. \A n \in 1 .. 11 : \E i \in 1 .. Len(spec) : spec[i] = c[n] /\ ~ isPositional(spec[i])
  <2>. SUFFICES ASSUME NEW n \in 1 .. 11
                PROVE  \E i \in 1 .. Len(spec) : spec[i] = c[n] /\ ~ isPositional(spec[i])
       OBVIOUS
  <2>1. DOMAIN c = 1 .. 11
        BY DEF ConnectionSpec
  <2>2. c[n] \in ToSet(c)
        BY <2>1 DEF ToSet
  <2>3. c[n].name # "" /\ c[n] \in ToSet(spec)
        BY <1>1, <2>2
  <2>4. PICK i \in 1 .. Len(spec) : spec[i] = c[n]
    <3>1. DOMAIN spec = 1 .. Len(spec)
          BY SpecFacts
    <3>. QED  BY <2>3, <3>1 DEF ToSet
  <2>. QED  BY <2>3, <2>4 DEF isPositional
<1>3. c[1].name = WorkerPrefix \o "remote" /\ c[1].type = "STRING" /\ c[1].default = Unset
      BY DEF ConnectionSpec, ArgumentSpec
<1>4. c[2].name = WorkerPrefix \o "instance" /\ c[2].type = "STRING"
       BY DEF ConnectionSpec, ArgumentSpec
<1>5. /\ c[3] = option("server-cert", "STRING", Unset)
      /\ c[4] = option("client-key", "STRING", Unset)
      /\ c[5] = option("client-cert", "STRING", Unset)
      /\ c[6] = option("access-token", "STRING", Unset)
      BY DEF ConnectionSpec
<1>6. /\ c[7] = option("token-reload-interval", "STRING", Unset)
      /\ c[8] = option("googleapi-auth", "BOOL", DefaultValue("BOOL", "false"))
      /\ c[9] = option("retry-limit", "STRING", DefaultValue("STRING", "4"))
      /\ c[10] = option("retry-delay", "STRING", DefaultValue("STRING", "1000"))
      /\ c[11] = option("load-balancing-policy", "STRING", Unset)
      BY DEF ConnectionSpec
<1>7. /\ DefaultValue("BOOL", "false") # Unset
      /\ DefaultValue("STRING", "4") # Unset
      /\ DefaultValue("STRING", "1000") # Unset
  <2>1. "false" \in Texts /\ "4" \in Texts /\ "1000" \in Texts
        BY TextAssumption, DefaultsAssumption DEF Defaults
  <2>2. /\ DefaultValue("BOOL", "false") \in DefaultValues
        /\ DefaultValue("STRING", "4") \in DefaultValues
        /\ DefaultValue("STRING", "1000") \in DefaultValues
        BY <2>1 DEF DefaultValue, DefaultValues, DataTypes
  <2>. QED  BY <2>2, TextAssumption
<1>8. DefaultValue("BOOL", "false").item = <<"false">>
      BY DEF DefaultValue
<1>. HIDE DEF c
<1>. DEFINE Is(o, key) ==
                /\ o.name = WorkerPrefix \o key
                /\ o.type = "STRING"
                /\ key \in {"retry-limit", "retry-delay"} => o.default # Unset
                /\ key \notin {"instance", "retry-limit", "retry-delay"} => o.default = Unset
<1>9. ASSUME NEW key \in Keys
      PROVE  \E n \in 1 .. 11 : Is(c[n], key)
  <2>1. Is(c[1], "remote") /\ Is(c[2], "instance")
        BY <1>3, <1>4 DEF ArgumentSpec
  <2>2. Is(c[3], "server-cert") /\ Is(c[4], "client-key")
        BY <1>5 DEF ArgumentSpec
  <2>3. Is(c[5], "client-cert") /\ Is(c[6], "access-token")
        BY <1>5 DEF ArgumentSpec
  <2>4. Is(c[7], "token-reload-interval")
        BY <1>6 DEF ArgumentSpec
  <2>5. Is(c[9], "retry-limit") /\ Is(c[10], "retry-delay") /\ Is(c[11], "load-balancing-policy")
        BY <1>6, <1>7 DEF ArgumentSpec
  <2>6. \/ key = "remote" \/ key = "instance" \/ key = "server-cert" \/ key = "client-key"
        \/ key = "client-cert" \/ key = "access-token" \/ key = "token-reload-interval"
        \/ key = "retry-limit" \/ key = "retry-delay" \/ key = "load-balancing-policy"
        BY DEF Keys
  <2>. HIDE DEF Is
  <2>. QED  BY <2>1, <2>3, <2>5, <2>6, <2>2, <2>4
<1>10. /\ c[8].name = WorkerPrefix \o "googleapi-auth" /\ c[8].type = "BOOL"
      /\ c[8].default # Unset /\ c[8].default.item = <<"false">>
      BY <1>6, <1>7, <1>8 DEF ArgumentSpec
<1>11. \A key \in Keys : \E i \in 1 .. Len(spec) : Is(spec[i], key) /\ ~ isPositional(spec[i])
  <2>. HIDE DEF Is
  <2>. QED  BY <1>2, <1>9
<1>12. PICK i \in 1 .. Len(spec) : spec[i] = c[8] /\ ~ isPositional(spec[i])
  <2>1. 8 \in 1 .. 11
        OBVIOUS
  <2>. QED  BY <1>2, <2>1
<1>13. \E j \in 1 .. Len(spec) :
           /\ spec[j].name = WorkerPrefix \o "googleapi-auth" /\ ~ isPositional(spec[j])
           /\ spec[j].type = "BOOL"
           /\ hasDefaultValue(spec[j]) /\ spec[j].default.item = <<"false">>
       BY <1>10, <1>12 DEF hasDefaultValue
<1>. QED  BY <1>11, <1>13 DEF hasDefaultValue

\* The worker has a retry limit and a retry delay, if only by default.
LEMMA RetriesAreSet ==
    ASSUME ParseTypes, step = "parsed", existsInSpec(WorkerPrefix \o "remote"),
           NEW key \in {"retry-limit", "retry-delay"}
    PROVE  Setting(WorkerPrefix, key) # Unset
<1>. DEFINE name == WorkerPrefix \o key
<1>1. TypeOK /\ EntriesOK /\ DefaultsApplied
      BY DEF ParseTypes
<1>2. PICK i \in 1 .. Len(spec) :
          spec[i].name = name /\ ~ isPositional(spec[i]) /\ spec[i].type = "STRING" /\ hasDefaultValue(spec[i])
      BY <1>1, ConnectionIsSpecified DEF Keys
<1>3. exists(name) /\ FirstNamed(spec, name) = i
      BY <1>1, <1>2, OwnName DEF DefaultsApplied, TypeOK
<1>4. parsedArgs[name].type = "STRING" /\ parsedArgs[name].items \in [1 .. 1 -> [1 .. 1 -> Texts]]
      BY <1>1, <1>2, <1>3 DEF EntriesOK, exists
<1>5. Setting(WorkerPrefix, key) = parsedArgs[name].items[1][1]
      BY <1>3, <1>4 DEF Setting, getString, Get
<1>6. parsedArgs[name].items[1][1] \in Texts
      BY <1>4
<1>. QED  BY <1>5, <1>6, TextAssumption

-----------------------------------------------------------------------------
(* The runner: its settings are the worker's, or still to be read.           *)

LEMMA FlagArgument ==
    /\ Argument("", "googleapi-auth", Unset).key = "googleapi-auth"
    /\ Argument("", "googleapi-auth", Unset).value = Unset
    /\ Argument("", "googleapi-auth", Unset).prefix = ""
BY DEF Argument

\* What putArgs() writes is read as a connection's argument, but for the flag
\* when there is a prefix.
LEMMA WrittenIsHandled ==
    ASSUME NEW o, NEW prefix, NEW arg \in Written(o, prefix)
    PROVE  /\ arg.key \notin SubclassKeys
           /\ \/ /\ arg.key \in Keys /\ arg.value # Unset /\ arg.value = o[SettingOf[arg.key]]
                 /\ Handled(arg, prefix)
              \/ /\ o.useGoogleApiAuth /\ arg = Argument("", "googleapi-auth", Unset)
                 /\ prefix = "" => Handled(arg, prefix)
<1>1. CASE o.useGoogleApiAuth /\ arg = Argument("", "googleapi-auth", Unset)
  <2>1. arg.key = "googleapi-auth" /\ arg.value = Unset /\ arg.prefix = ""
        BY <1>1 DEF Argument
  <2>2. arg.key \notin SubclassKeys
        BY <2>1, RunnerAssumption
  <2>3. prefix = "" => Handled(arg, prefix)
        BY <2>1 DEF Handled
  <2>. QED  BY <1>1, <2>2, <2>3
<1>2. CASE ~ (o.useGoogleApiAuth /\ arg = Argument("", "googleapi-auth", Unset))
  <2>1. PICK key \in Keys : o[SettingOf[key]] # Unset /\ arg = Argument(prefix, key, o[SettingOf[key]])
        BY <1>2 DEF Written
  <2>2. arg.key = key /\ arg.value = o[SettingOf[key]] /\ arg.prefix = prefix
        BY <2>1 DEF Argument
  <2>3. arg.key \in DOMAIN SettingOf
        BY <2>2, SettingOfFacts
  <2>. QED  BY <2>1, <2>2, <2>3, RunnerAssumption DEF Handled
<1>. QED  BY <1>1, <1>2

LEMMA SameConfiguration ==
    ASSUME UNCHANGED vars
    PROVE  /\ configureChannel(WorkerPrefix)' = configureChannel(WorkerPrefix)
           /\ existsInSpec(WorkerPrefix \o "remote")' = existsInSpec(WorkerPrefix \o "remote")
BY DEF vars, configureChannel, Setting, Flag, exists, getString, getBool, Get,
       existsInSpec, findOptionSpecByName

LEMMA InitRunner == ArgumentsInit => RunnerInv
BY DEF ArgumentsInit, RunnerInv, SettingsReachTheRunner

LEMMA StartKeepsRunner ==
    ASSUME ParseTypes, RunnerInv, StartRunner
    PROVE  RunnerInv'
<1>. DEFINE o == options'
            p == readPrefix'
            put == putArgs(o, p)
            W == Written(o, p)
<1>1. /\ stage = "worker" /\ stage' = "runner" /\ step = "parsed"
      /\ existsInSpec(WorkerPrefix \o "remote")
      /\ o = configureChannel(WorkerPrefix)
      /\ p \in ReadPrefixes
      /\ UNCHANGED <<vars, casRemote, runner>>
      BY DEF StartRunner
<1>2. casRemote = Defaults
      BY <1>1 DEF RunnerInv
<1>3. PICK own \in RunnerArgvs : argv' = own \o put \/ argv' = put \o own
      BY DEF StartRunner
<1>4. put \in Seq(W) /\ ToSet(put) = W
      BY PutArgsFacts
<1>5. own \in Seq(ToSet(own)) /\ \A arg \in ToSet(own) : ~ Handled(arg, p)
      BY <1>1, RunnerAssumption
<1>. HIDE DEF o, p, put, W
<1>6. ToSet(argv') = ToSet(own) \cup W /\ argv' \in Seq(ToSet(argv'))
  <2>. DEFINE S == ToSet(own) \cup W
  <2>1. own \in Seq(S) /\ put \in Seq(S)
        BY <1>4, <1>5
  <2>. HIDE DEF S
  <2>2. own \o put \in Seq(S) /\ ToSet(own \o put) = ToSet(own) \cup W
        BY <1>4, <2>1, Elements
  <2>3. put \o own \in Seq(S) /\ ToSet(put \o own) = ToSet(own) \cup W
        BY <1>4, <2>1, Elements
  <2>4. argv' \in Seq(S) /\ ToSet(argv') = ToSet(own) \cup W
        BY <1>3, <2>2, <2>3
  <2>. QED  BY <2>4, OwnElements
<1>7. \A arg \in ToSet(argv') : Handled(arg, p) => arg \in ToSet(put)
      BY <1>4, <1>5, <1>6
<1>8. /\ o = [f \in Fields |-> o[f]]
      /\ \A key \in Keys : o[SettingOf[key]] = Setting(WorkerPrefix, key)
      /\ o.useGoogleApiAuth \in BOOLEAN
      /\ o.serverCert = Unset /\ o.clientKey = Unset /\ o.clientCert = Unset
      BY <1>1, Configured
<1>9. o.retryLimit # Unset /\ o.retryDelay # Unset
  <2>1. Setting(WorkerPrefix, "retry-limit") # Unset /\ Setting(WorkerPrefix, "retry-delay") # Unset
        BY <1>1, RetriesAreSet
  <2>. QED  BY <1>8, <2>1, SettingOfFacts DEF Keys
<1>10. ASSUME NEW f \in Fields
       PROVE  \/ Defaults[f] = o[f]
              \/ \E arg \in ToSet(argv') \cap ToSet(put) : IsFor(arg, f)
  <2>1. CASE f = "useGoogleApiAuth"
    <3>1. CASE o.useGoogleApiAuth
      <4>. DEFINE arg == Argument("", "googleapi-auth", Unset)
      <4>1. arg \in W
            BY <3>1 DEF W, Written
      <4>2. IsFor(arg, f)
            BY <2>1 DEF IsFor, Argument
      <4>. HIDE DEF arg
      <4>. QED  BY <1>4, <1>6, <4>1, <4>2
    <3>2. CASE ~ o.useGoogleApiAuth
          BY <1>8, <2>1, <3>2, FieldsAre
    <3>. QED  BY <3>1, <3>2
  <2>2. CASE f \in KeyedFields
    <3>1. PICK key \in Keys : SettingOf[key] = f
          BY <2>2, KeysAndFields
    <3>2. CASE o[f] = Unset
      <4>1. f \notin {"retryLimit", "retryDelay", "useGoogleApiAuth"}
            BY <1>9, <2>2, <3>2 DEF KeyedFields
      <4>. QED  BY <3>2, <4>1, FieldsAre
    <3>3. CASE o[f] # Unset
      <4>. DEFINE arg == Argument(p, key, o[SettingOf[key]])
      <4>1. arg \in W
            BY <3>1, <3>3 DEF W, Written
      <4>2. f # "useGoogleApiAuth"
            BY <2>2 DEF KeyedFields
      <4>3. IsFor(arg, f)
            BY <3>1, <3>3, <4>2 DEF IsFor, Argument
      <4>. HIDE DEF arg
      <4>. QED  BY <1>4, <1>6, <4>1, <4>3
    <3>. QED  BY <3>2, <3>3
  <2>3. CASE f \in {"serverCert", "clientKey", "clientCert"}
        BY <1>8, <2>3, FieldsAre
  <2>. QED  BY <2>1, <2>2, <2>3, FieldsAre
<1>11. casRemote' = [f \in Fields |-> casRemote'[f]] /\ \A f \in Fields : casRemote'[f] = Defaults[f]
       BY <1>1, <1>2, FieldsAre
<1>12. SettingsReachTheRunner'
       BY <1>1 DEF SettingsReachTheRunner
<1>13. options' = configureChannel(WorkerPrefix)' /\ existsInSpec(WorkerPrefix \o "remote")' /\ step' = "parsed"
       BY <1>1, SameConfiguration DEF o, vars
<1>14. (ToSet(argv))' = ToSet(argv') /\ (putArgs(options, readPrefix))' = put
       BY DEF put, o, p
<1>. QED  BY <1>1, <1>6, <1>7, <1>10, <1>11, <1>12, <1>13, <1>14 DEF RunnerInv, o, p

LEMMA ConnectionKeepsRunner ==
    ASSUME RunnerInv, ParseArguments_Connection
    PROVE  RunnerInv'
<1>. DEFINE arg == Head(argv)
            put == putArgs(options, readPrefix)
<1>1. /\ stage = "runner" /\ argv # <<>> /\ stage' = "runner"
      /\ Handled(arg, readPrefix)
      /\ casRemote' = parseArg(casRemote, arg)
      /\ argv' = Tail(argv)
      /\ UNCHANGED vars /\ UNCHANGED <<options, readPrefix>>
      BY DEF ParseArguments_Connection, AtArgument
<1>2. /\ argv \in Seq(ToSet(argv))
      /\ \A x \in ToSet(argv) : Handled(x, readPrefix) => x \in ToSet(put)
      /\ casRemote = [f \in Fields |-> casRemote[f]]
      /\ \A f \in Fields : \/ casRemote[f] = options[f]
                           \/ \E x \in ToSet(argv) \cap ToSet(put) : IsFor(x, f)
      BY <1>1 DEF RunnerInv
<1>3. arg \in ToSet(argv) /\ argv' \in Seq(ToSet(argv')) /\ ToSet(argv) = {arg} \cup ToSet(argv')
      BY <1>1, <1>2, HeadAndTail
<1>4. arg \in Written(options, readPrefix)
      BY <1>1, <1>2, <1>3, PutArgsFacts
<1>. HIDE DEF arg, put
<1>5. \/ /\ arg.key \in Keys /\ arg.value # Unset /\ arg.value = options[SettingOf[arg.key]]
      \/ options.useGoogleApiAuth /\ arg.value = Unset
  <2>1. \/ /\ arg.key \in Keys /\ arg.value # Unset /\ arg.value = options[SettingOf[arg.key]]
        \/ options.useGoogleApiAuth /\ arg = Argument("", "googleapi-auth", Unset)
    <3>. DEFINE o == options
                p == readPrefix
    <3>1. arg \in Written(o, p)
          BY <1>4
    <3>. HIDE DEF o, p
    <3>2. \/ /\ arg.key \in Keys /\ arg.value # Unset /\ arg.value = o[SettingOf[arg.key]]
             /\ Handled(arg, p)
          \/ /\ o.useGoogleApiAuth /\ arg = Argument("", "googleapi-auth", Unset)
             /\ p = "" => Handled(arg, p)
          BY <3>1, WrittenIsHandled
    <3>. QED  BY <3>2, Zenon DEF o, p
  <2>. QED  BY <2>1, FlagArgument, Zenon
<1>6. options.useGoogleApiAuth \in BOOLEAN
      BY <1>1, Configured DEF RunnerInv
<1>7. /\ casRemote' = [f \in Fields |-> casRemote'[f]]
      /\ \A f \in Fields : IF IsFor(arg, f) THEN casRemote'[f] = options[f]
                           ELSE casRemote'[f] = casRemote[f]
  <2>1. CASE arg.value = Unset
    <3>1. casRemote' = [casRemote EXCEPT !["useGoogleApiAuth"] = TRUE] /\ options.useGoogleApiAuth = TRUE
          BY <1>1, <1>5, <1>6, <2>1 DEF parseArg
    <3>2. \A f \in Fields : IsFor(arg, f) <=> f = "useGoogleApiAuth"
          BY <2>1 DEF IsFor
    <3>. QED  BY <1>2, <3>1, <3>2
  <2>2. CASE arg.value # Unset
    <3>1. /\ casRemote' = [casRemote EXCEPT ![SettingOf[arg.key]] = arg.value]
          /\ arg.value = options[SettingOf[arg.key]]
          BY <1>1, <1>5, <2>2 DEF parseArg
    <3>2. SettingOf[arg.key] # "useGoogleApiAuth"
          BY <1>5, <2>2, KeysAndFields DEF KeyedFields
    <3>3. \A f \in Fields : IsFor(arg, f) <=> f = SettingOf[arg.key]
          BY <2>2, <3>2 DEF IsFor
    <3>. QED  BY <1>2, <3>1, <3>3
  <2>. QED  BY <2>1, <2>2
<1>8. \A f \in Fields : \/ casRemote'[f] = options[f]
                        \/ \E x \in ToSet(argv') \cap ToSet(put) : IsFor(x, f)
      BY <1>2, <1>3, <1>7
<1>9. \A x \in ToSet(argv') : Handled(x, readPrefix) => x \in ToSet(put)
      BY <1>2, <1>3
<1>10. options' = configureChannel(WorkerPrefix)' /\ existsInSpec(WorkerPrefix \o "remote")' /\ step' = "parsed"
       BY <1>1, SameConfiguration DEF RunnerInv, vars
<1>11. SettingsReachTheRunner'
       BY <1>1 DEF SettingsReachTheRunner
<1>12. readPrefix' \in ReadPrefixes
       BY <1>1 DEF RunnerInv
<1>. QED  BY <1>1, <1>3, <1>7, <1>8, <1>9, <1>10, <1>11, <1>12 DEF RunnerInv, put

LEMMA OwnKeepsRunner ==
    ASSUME RunnerInv, ParseArguments_Own
    PROVE  RunnerInv'
<1>. DEFINE arg == Head(argv)
            put == putArgs(options, readPrefix)
<1>1. /\ stage = "runner" /\ argv # <<>> /\ stage' = "runner"
      /\ arg.key \in SubclassKeys \/ (Ours(arg) /\ ~ Invalid(arg) /\ arg.key \notin {"help", "capabilities"})
      /\ argv' = Tail(argv)
      /\ UNCHANGED vars /\ UNCHANGED <<options, readPrefix, casRemote>>
      BY DEF ParseArguments_Own, AtArgument
<1>2. /\ argv \in Seq(ToSet(argv))
      /\ \A x \in ToSet(argv) : Handled(x, readPrefix) => x \in ToSet(put)
      /\ casRemote = [f \in Fields |-> casRemote[f]]
      /\ \A f \in Fields : \/ casRemote[f] = options[f]
                           \/ \E x \in ToSet(argv) \cap ToSet(put) : IsFor(x, f)
      BY <1>1 DEF RunnerInv
<1>3. arg \in ToSet(argv) /\ argv' \in Seq(ToSet(argv')) /\ ToSet(argv) = {arg} \cup ToSet(argv')
      BY <1>1, <1>2, HeadAndTail
<1>. HIDE DEF arg, put
<1>4. arg \notin ToSet(put)
  <2>. SUFFICES ASSUME arg \in ToSet(put) PROVE FALSE
       OBVIOUS
  <2>1. arg \in Written(options, readPrefix)
        BY PutArgsFacts DEF put
  <2>2. /\ arg.key \notin SubclassKeys
        /\ Handled(arg, readPrefix) \/ arg = Argument("", "googleapi-auth", Unset)
        BY <2>1, WrittenIsHandled
  <2>3. Ours(arg) /\ ~ Invalid(arg)
        BY <1>1, <2>2
  <2>4. arg.key = "googleapi-auth" /\ arg.value = Unset
    <3>1. arg = Argument("", "googleapi-auth", Unset)
          BY <2>2, <2>3 DEF Ours
    <3>. QED  BY <3>1, FlagArgument, Zenon
  <2>5. arg.key \notin DOMAIN OwnFlags \cup {"help", "capabilities"}
        BY <2>4 DEF OwnFlags
  <2>. QED  BY <2>3, <2>4, <2>5 DEF Invalid
<1>5. \A f \in Fields : \/ casRemote'[f] = options[f]
                        \/ \E x \in ToSet(argv') \cap ToSet(put) : IsFor(x, f)
      BY <1>1, <1>2, <1>3, <1>4
<1>6. \A x \in ToSet(argv') : Handled(x, readPrefix) => x \in ToSet(put)
      BY <1>2, <1>3
<1>7. options' = configureChannel(WorkerPrefix)' /\ existsInSpec(WorkerPrefix \o "remote")' /\ step' = "parsed"
      BY <1>1, SameConfiguration DEF RunnerInv, vars
<1>8. SettingsReachTheRunner'
      BY <1>1 DEF SettingsReachTheRunner
<1>9. readPrefix' \in ReadPrefixes
      BY <1>1 DEF RunnerInv
<1>. QED  BY <1>1, <1>2, <1>3, <1>5, <1>6, <1>7, <1>8, <1>9 DEF RunnerInv, put

\* How the runner's parsing ends.
LEMMA EndKeepsRunner ==
    ASSUME RunnerInv, ParseArguments_Exit \/ ParseArguments_Invalid \/ ParseArguments_End
    PROVE  RunnerInv'
<1>. DEFINE put == putArgs(options, readPrefix)
<1>1. /\ stage = "runner" /\ stage' \in {"exit", "refused", "valid", "accepted"}
      /\ UNCHANGED vars /\ UNCHANGED <<options, readPrefix, argv, casRemote, runner>>
      BY DEF ParseArguments_Exit, ParseArguments_Invalid, ParseArguments_End, AtArgument, End
<1>2. /\ argv \in Seq(ToSet(argv))
      /\ casRemote = [f \in Fields |-> casRemote[f]]
      /\ \A f \in Fields : \/ casRemote[f] = options[f]
                           \/ \E x \in ToSet(argv) \cap ToSet(put) : IsFor(x, f)
      BY <1>1 DEF RunnerInv
<1>3. argv = <<>> => casRemote = options
  <2>. SUFFICES ASSUME argv = <<>> PROVE casRemote = options
       OBVIOUS
  <2>1. ToSet(argv) = {}
        BY DEF ToSet
  <2>2. options = [f \in Fields |-> options[f]]
        BY <1>1, Configured DEF RunnerInv
  <2>3. \A f \in Fields : casRemote[f] = options[f]
        BY <1>2, <2>1
  <2>. QED  BY <1>2, <2>2, <2>3
<1>4. CASE ParseArguments_Exit
  <2>1. stage' = "exit"
        BY <1>4 DEF ParseArguments_Exit, End
  <2>. QED  BY <1>1, <2>1, SameConfiguration DEF RunnerInv, SettingsReachTheRunner, vars
<1>5. CASE ParseArguments_Invalid
  <2>1. stage' = "refused" /\ argv # <<>> /\ Ours(Head(argv))
        BY <1>5 DEF ParseArguments_Invalid, End, Invalid, AtArgument
  <2>2. ~ FlagLosesPrefix => Head(argv) \notin ToSet(put)
    <3>. SUFFICES ASSUME ~ FlagLosesPrefix, Head(argv) \in ToSet(put) PROVE FALSE
         OBVIOUS
    <3>1. Head(argv) \in Written(options, readPrefix)
          BY PutArgsFacts
    <3>2. Handled(Head(argv), readPrefix)
          BY <3>1, WrittenIsHandled DEF FlagLosesPrefix
    <3>. QED  BY <2>1, <3>2 DEF Ours
  <2>3. SettingsReachTheRunner'
        BY <1>1, <2>1, <2>2 DEF SettingsReachTheRunner, FlagLosesPrefix
  <2>. QED  BY <1>1, <2>1, <2>3, SameConfiguration DEF RunnerInv, vars
<1>6. CASE ParseArguments_End
  <2>1. casRemote = options /\ stage' = IF casRemote.url = Unset THEN "refused"
                                        ELSE IF runner.validateOnly THEN "valid" ELSE "accepted"
        BY <1>3, <1>6 DEF ParseArguments_End, End
  <2>2. SettingsReachTheRunner'
        BY <1>1, <2>1 DEF SettingsReachTheRunner
  <2>. QED  BY <1>1, <2>2, SameConfiguration DEF RunnerInv, vars
<1>. QED  BY <1>4, <1>5, <1>6

\* The worker's own parsing.
LEMMA WorkerKeepsRunner ==
    ASSUME RunnerInv, WorkerParses
    PROVE  RunnerInv'
BY DEF RunnerInv, WorkerParses, argvars, SettingsReachTheRunner

LEMMA StutterKeepsRunner ==
    ASSUME RunnerInv, UNCHANGED allvars
    PROVE  RunnerInv'
<1>1. UNCHANGED vars /\ UNCHANGED <<options, readPrefix, argv, casRemote, runner, stage>>
      BY DEF allvars, argvars
<1>. QED  BY <1>1, SameConfiguration DEF RunnerInv, vars, SettingsReachTheRunner, FlagLosesPrefix

\* The steps of the runner leave what parse() has made alone.
LEMMA RunnerKeepsTypes ==
    ASSUME ParseTypes, UNCHANGED vars
    PROVE  ParseTypes'
BY DEF vars, ParseTypes, TypeOK, EntriesOK, DefaultsApplied, Unread, exists

\* A step of the worker is one of parse(); every other step leaves parse()
\* where it is.
LEMMA ParseOrNot == ArgumentsNext => (stage = "worker" /\ ParseStep) \/ UNCHANGED vars
BY DEF ArgumentsNext, WorkerParses, StartRunner, ParseArguments_Connection, ParseArguments_Own,
       ParseArguments_Exit, ParseArguments_Invalid, ParseArguments_End, End

LEMMA TypesStep == ParseTypes /\ [ArgumentsNext]_allvars => ParseTypes'
<1>. SUFFICES ASSUME ParseTypes, [ArgumentsNext]_allvars PROVE ParseTypes'
     OBVIOUS
<1>1. ParseStep \/ UNCHANGED vars
      BY ParseOrNot DEF allvars
<1>. QED  BY <1>1, ParseStepKeepsTypes, RunnerKeepsTypes

LEMMA RunnerStep == ParseTypes /\ RunnerInv /\ [ArgumentsNext]_allvars => RunnerInv'
<1>. SUFFICES ASSUME ParseTypes, RunnerInv, [ArgumentsNext]_allvars PROVE RunnerInv'
     OBVIOUS
<1>. QED  BY WorkerKeepsRunner, StartKeepsRunner, ConnectionKeepsRunner, OwnKeepsRunner,
             EndKeepsRunner, StutterKeepsRunner DEF ArgumentsNext

\* The parser's state is well typed at every step of parse(), whatever the
\* specification and the command line: an entry of d_parsedArgs has the type of
\* the first specification with its name, a string has one text, and every
\* option with a default has an entry once the defaults are applied.
THEOREM ParseTypeCorrect == ArgumentsSpec => []ParseTypes
<1>1. ArgumentsInit => ParseTypes
      BY InitTypes DEF ArgumentsInit
<1>. QED  BY <1>1, TypesStep, PTL DEF ArgumentsSpec

\* What putArgs() writes for the runner, Runner::parseArguments() reads back:
\* the runner's connection options are the worker's, for any options and any
\* prefix, and only the flag that loses its prefix is refused.
THEOREM SettingsReach == ArgumentsSpec => []SettingsReachTheRunner
<1>1. ArgumentsInit => ParseTypes /\ RunnerInv
      BY InitTypes, InitRunner DEF ArgumentsInit
<1>2. RunnerInv => SettingsReachTheRunner
      BY DEF RunnerInv
<1>. QED  BY <1>1, <1>2, TypesStep, RunnerStep, PTL DEF ArgumentsSpec

-----------------------------------------------------------------------------
(* parse() reads what was typed.                                             *)

\* Where the options end and the positionals begin.
LEMMA FromIs ==
    ASSUME NEW s, NEW args \in Seq(Texts)
    PROVE  /\ PositionalsFrom(s, args) \in 1 .. Len(args) + 1
           /\ \A k \in Places(s, args) : ~ AnOption(args[k]) => PositionalsFrom(s, args) = k
           /\ (\A k \in Places(s, args) : AnOption(args[k])) =>
                  PositionalsFrom(s, args) = Len(args) + 1
<1>. DEFINE others == {k \in Places(s, args) : ~ AnOption(args[k])}
            ends == others \cup {Len(args) + 1}
<1>1. Len(args) \in Nat /\ Places(s, args) \subseteq 1 .. Len(args)
      BY DEF Places
<1>2. ends \in SUBSET Nat /\ ends # {} /\ ends \subseteq 1 .. Len(args) + 1
      BY <1>1
<1>3. PositionalsFrom(s, args) \in ends /\ \A k \in ends : PositionalsFrom(s, args) <= k
  <2>1. PositionalsFrom(s, args) = Min(ends)
        BY DEF PositionalsFrom
  <2>. HIDE DEF ends
  <2>. QED  BY <1>2, <2>1, Smallest
<1>. DEFINE from == PositionalsFrom(s, args)
<1>. HIDE DEF from
<1>4. ASSUME NEW k \in Places(s, args), ~ AnOption(args[k])
      PROVE  from = k
  <2>1. from <= k /\ k \in 1 .. Len(args)
        BY <1>1, <1>3, <1>4 DEF from
  <2>2. from \in Places(s, args) /\ ~ AnOption(args[from])
        BY <1>1, <1>3, <2>1 DEF from
  <2>3. k <= from
        BY <2>2, RestIsRest
  <2>. QED  BY <1>1, <2>1, <2>2, <2>3
<1>5. ASSUME \A k \in Places(s, args) : AnOption(args[k])
      PROVE  from = Len(args) + 1
      BY <1>3, <1>5 DEF from
<1>. QED  BY <1>2, <1>3, <1>4, <1>5 DEF from

\* The items up to an argument are a sequence.
LEMMA ItemsAreSeq ==
    ASSUME NEW s, NEW args \in Seq(Texts), NEW i, NEW k \in 0 .. Len(args)
    PROVE  /\ ItemsUpTo(s, args, i)[k] \in Seq(ItemSet(s, args, i))
           /\ ItemsTyped(s, args, i) \in Seq(ItemSet(s, args, i))
           /\ ItemsTyped(s, args, i) = ItemsUpTo(s, args, i)[Len(args)]
<1>1. ItemsUpTo(s, args, i) \in [0 .. Len(args) -> Seq(ItemSet(s, args, i))]
      BY ItemsUpToFacts, Zenon
<1>2. Len(args) \in 0 .. Len(args)
      OBVIOUS
<1>. QED  BY <1>1, <1>2 DEF ItemsTyped

\* When the loop over the options ends, all that was typed has been read.
LEMMA AllRead ==
    ASSUME TypeOK, AtPlace, argIdx <= Len(rawArgv) => ~ AnOption(rawArgv[argIdx])
    PROVE  /\ argIdx = From /\ argIdx - 1 \in 0 .. Len(rawArgv)
           /\ \A i : ItemsUpTo(spec, rawArgv, i)[argIdx - 1] = ItemsTyped(spec, rawArgv, i)
           /\ \A i : ItemsUpTo(spec, rawArgv, i)[Len(rawArgv)] = ItemsTyped(spec, rawArgv, i)
<1>. DEFINE n == Len(rawArgv)
<1>1. rawArgv \in Seq(Texts) /\ n \in Nat /\ argIdx \in 1 .. n + 1
      BY SpecFacts DEF TypeOK, AtPlace
<1>2. Places(spec, rawArgv) \subseteq 1 .. n
      BY DEF Places
<1>3. \A k \in Places(spec, rawArgv) : AnOption(rawArgv[k]) => k <= argIdx - 1
  <2>1. CASE argIdx <= n
    <3>1. argIdx \in Places(spec, rawArgv) /\ ~ AnOption(rawArgv[argIdx])
          BY <2>1 DEF AtPlace
    <3>2. \A k \in Places(spec, rawArgv) : k <= argIdx
          BY <1>1, <3>1, RestIsRest
    <3>. QED  BY <1>1, <1>2, <3>1, <3>2
  <2>2. CASE argIdx = n + 1
        BY <1>1, <1>2, <2>2
  <2>. QED  BY <1>1, <2>1, <2>2
<1>4. argIdx = From
  <2>1. CASE argIdx <= n
        BY <1>1, <2>1, FromIs DEF AtPlace, From
  <2>2. CASE argIdx = n + 1
    <3>1. \A k \in Places(spec, rawArgv) : AnOption(rawArgv[k])
          BY <1>1, <1>2, <2>2 DEF AtPlace
    <3>. QED  BY <1>1, <2>2, <3>1, FromIs DEF From
  <2>. QED  BY <1>1, <2>1, <2>2
<1>5. ASSUME NEW i
      PROVE  ItemsUpTo(spec, rawArgv, i)[argIdx - 1] = ItemsTyped(spec, rawArgv, i)
  <2>1. \A k \in TypedAt(spec, rawArgv, i) : k <= argIdx - 1
        BY <1>3 DEF TypedAt, OptionsTyped
  <2>2. argIdx - 1 \in 0 .. n
        BY <1>1
  <2>. QED  BY <1>1, <2>1, <2>2, ItemsStay
<1>. QED  BY <1>1, <1>4, <1>5 DEF ItemsTyped

\* What RefusedForAReason asks for.
Reason(s, args) ==
    \/ args = <<>>
    \/ \E k \in Places(s, args) : Start[args[k]] = "-"
    \/ \E k \in OptionsTyped(s, args) :
           \/ \A i \in 1 .. Len(s) : s[i].name # NameOf[args[k]]
           \/ /\ TakesNext(s, args, k)
              /\ k = Len(args) \/ AnOption(args[k + 1])
    \/ \E i \in 1 .. Len(s) :
           Unset \in Range(ItemsTyped(s, args, i) \o PositionalTyped(s, args, i))
    \/ \E k \in Places(s, args), i \in 1 .. Len(s) : args[k] = s[i].name
    \/ \E i \in 1 .. Len(s) :
           \/ s[i].required /\ ~ isPositional(s[i]) /\ ItemsTyped(s, args, i) = <<>>
           \/ s[i].required /\ isPositional(s[i]) /\ PositionalTyped(s, args, i) = <<>>
           \/ /\ hasDefaultValue(s[i])
              /\ s[i].required \/ s[i].type # s[i].default.type

LEMMA ReasonIsReason ==
    RefusedForAReason <=> (step = "refused" /\ Readable => Reason(spec, rawArgv))
BY DEF RefusedForAReason, Reason

LEMMA Refuses ==
    ASSUME UNCHANGED <<spec, rawArgv>>,
           Readable /\ step' = "refused" => Reason(spec, rawArgv)
    PROVE  RefusedForAReason'
<1>1. Readable' <=> Readable
      BY DEF Readable
<1>2. step' = "refused" /\ Readable => Reason(spec', rawArgv')
      OBVIOUS
<1>. QED  BY <1>1, <1>2 DEF RefusedForAReason, Reason

LEMMA ParseReads ==
    ASSUME ParseTypes, Parse
    PROVE  (Readable => ReadInv)' /\ RefusedForAReason'
<1>1. CASE rawArgv = <<>>
  <2>1. step' = "refused" /\ UNCHANGED <<spec, rawArgv>> /\ Reason(spec, rawArgv)
        BY <1>1 DEF Parse, Return, Reason
  <2>. QED  BY <2>1, Refuses DEF ReadInv
<1>2. CASE rawArgv # <<>>
  <2>1. /\ step = "parse" /\ rawArgv' = Tail(rawArgv) /\ step' = "options"
        /\ UNCHANGED <<spec, argIdx, parsedArgs, positionalIdx, bound>>
        BY <1>2 DEF Parse
  <2>2. argIdx = 1 /\ parsedArgs = <<>> /\ \A i \in 1 .. Len(spec) : bound[i] = <<>>
        BY <2>1 DEF ParseTypes, Unread
  <2>. DEFINE args == rawArgv'
  <2>3. args \in Seq(Texts) /\ Len(args) \in Nat
        BY <1>2, <2>1 DEF ParseTypes, TypeOK
  <2>. HIDE DEF args
  <2>4. \A i : ItemsUpTo(spec, args, i)[0] = <<>>
        BY <2>3, ItemsUpToFacts
  <2>5. 1 <= Len(args) => 1 \in Places(spec, args)
        BY <2>3, ReadingFacts DEF Places
  <2>6. Places(spec, args) \subseteq 1 .. Len(args)
        BY DEF Places
  <2>7. AtPlace'
        BY <2>1, <2>2, <2>3, <2>5, <2>6 DEF AtPlace, args
  <2>8. EntriesUpTo(0)'
        BY <2>1, <2>2, <2>4 DEF EntriesUpTo, exists, args
  <2>9. BoundUpTo(0)'
        BY <2>1, <2>2, <2>4 DEF BoundUpTo, Held, args
  <2>10. (argIdx - 1)' = 0
         BY <2>1, <2>2
  <2>11. EntriesUpTo(argIdx - 1)' /\ BoundUpTo(argIdx - 1)'
         BY <2>8, <2>9, <2>10 DEF EntriesUpTo, BoundUpTo
  <2>. QED  BY <2>1, <2>7, <2>11 DEF ReadInv, RefusedForAReason
<1>. QED  BY <1>1, <1>2

\* The loop over the options ends at an argument that is no option.
LEMMA ReadyReads ==
    ASSUME ParseTypes, Readable => ReadInv,
           RefuseShortOption \/ EmptyArgument \/ readyForPositionals \/ EndOfOptions
    PROVE  (Readable => ReadInv)' /\ RefusedForAReason'
<1>1. /\ TypeOK /\ step = "options" /\ step' \in {"refused", "thrown", "checks"}
      /\ UNCHANGED <<spec, rawArgv, argIdx, parsedArgs, positionalIdx, bound>>
      BY DEF ParseTypes, RefuseShortOption, EmptyArgument, readyForPositionals, EndOfOptions,
             AtOption, Return
<1>. SUFFICES ASSUME Readable PROVE ReadInv' /\ RefusedForAReason'
     BY <1>1 DEF RefusedForAReason, Readable
<1>2. AtPlace /\ EntriesUpTo(argIdx - 1) /\ BoundUpTo(argIdx - 1)
      BY <1>1 DEF ReadInv
<1>3. argIdx \in Nat \ {0} /\ Len(rawArgv) \in Nat
      BY <1>1, SpecFacts DEF TypeOK
<1>4. argIdx <= Len(rawArgv) => argIdx \in Places(spec, rawArgv) /\ Start[rawArgv[argIdx]] \notin {"?-", ""}
  <2>1. argIdx <= Len(rawArgv) => argIdx \in 1 .. Len(rawArgv)
        BY <1>3
  <2>2. argIdx <= Len(rawArgv) => argIdx \in Places(spec, rawArgv)
        BY <1>2 DEF AtPlace
  <2>. QED  BY <2>1, <2>2 DEF Readable
<1>5. CASE RefuseShortOption
  <2>1. step' = "refused" /\ argIdx <= Len(rawArgv) /\ Start[rawArgv[argIdx]] = "-"
        BY <1>5 DEF RefuseShortOption, AtOption, Arg, Return
  <2>2. Reason(spec, rawArgv)
        BY <1>4, <2>1 DEF Reason
  <2>. QED  BY <1>1, <2>1, <2>2, Refuses DEF ReadInv
<1>6. CASE EmptyArgument
      BY <1>4, <1>6 DEF EmptyArgument, AtOption, Arg
<1>7. CASE readyForPositionals \/ EndOfOptions
  <2>1. argIdx <= Len(rawArgv) => ~ AnOption(rawArgv[argIdx])
    <3>1. CASE readyForPositionals
          BY <3>1 DEF readyForPositionals, Arg, AnOption
    <3>2. CASE EndOfOptions
          BY <1>3, <3>2 DEF EndOfOptions
    <3>. QED  BY <1>7, <3>1, <3>2
  <2>2. /\ argIdx = From /\ argIdx - 1 \in 0 .. Len(rawArgv)
        /\ \A i : ItemsUpTo(spec, rawArgv, i)[argIdx - 1] = ItemsTyped(spec, rawArgv, i)
        /\ \A i : ItemsUpTo(spec, rawArgv, i)[Len(rawArgv)] = ItemsTyped(spec, rawArgv, i)
        BY <1>1, <1>2, <2>1, AllRead
  <2>3. CASE step' = "checks"
    <3>1. EntriesUpTo(Len(rawArgv))
      <4>1. \A i : ItemsUpTo(spec, rawArgv, i)[Len(rawArgv)] = ItemsUpTo(spec, rawArgv, i)[argIdx - 1]
            BY <2>2
      <4>. QED  BY <1>2, <4>1, Zenon DEF EntriesUpTo
    <3>2. BoundUpTo(Len(rawArgv))
          BY <1>2, <2>2 DEF BoundUpTo
    <3>3. EntriesUpTo(Len(rawArgv))' /\ BoundUpTo(Len(rawArgv))'
          BY <1>1, <3>1, <3>2 DEF EntriesUpTo, BoundUpTo, exists
    <3>4. (argIdx = From)'
          BY <1>1, <2>2 DEF From
    <3>. QED  BY <2>3, <3>3, <3>4 DEF ReadInv, RefusedForAReason
  <2>4. CASE step' # "checks"
    <3>1. /\ argIdx <= Len(rawArgv) /\ step' = "refused"
          /\ existsInSpec(rawArgv[argIdx]) \/ ~ validateRequiredArgs
          BY <1>7, <2>4 DEF readyForPositionals, EndOfOptions, AtOption, Arg, Return
    <3>2. CASE existsInSpec(rawArgv[argIdx])
      <4>1. spec \in Seq(ArgumentSpecs) /\ FirstNamed(spec, rawArgv[argIdx]) # 0
            BY <1>1, <3>2, SpecFacts DEF existsInSpec, findOptionSpecByName
      <4>2. \E i \in 1 .. Len(spec) : rawArgv[argIdx] = spec[i].name
            BY <4>1, FirstNamedFacts
      <4>3. Reason(spec, rawArgv)
            BY <1>4, <3>1, <4>2 DEF Reason
      <4>. QED  BY <1>1, <3>1, <4>3, Refuses DEF ReadInv
    <3>3. CASE ~ validateRequiredArgs
      <4>1. PICK i \in 1 .. Len(spec) :
                spec[i].required /\ ~ isPositional(spec[i]) /\ ~ exists(spec[i].name)
            BY <3>3 DEF validateRequiredArgs
      <4>2. ItemsTyped(spec, rawArgv, i) = <<>>
            BY <1>2, <2>2, <4>1 DEF EntriesUpTo
      <4>3. Reason(spec, rawArgv)
            BY <4>1, <4>2 DEF Reason
      <4>. QED  BY <1>1, <3>1, <4>3, Refuses DEF ReadInv
    <3>. QED  BY <3>1, <3>2, <3>3
  <2>. QED  BY <2>3, <2>4
<1>. QED  BY <1>5, <1>6, <1>7

\* The elements of a sequence are still there when something is put behind it.
LEMMA RangeGrows ==
    ASSUME NEW S, NEW a \in Seq(S), NEW x, NEW y
    PROVE  /\ y \in Range(a) => y \in Range(a \o <<>>) /\ y \in Range(a \o <<x>>)
           /\ x \in Range(a \o <<x>>) /\ x \in Range(Append(a, x))
           /\ a \o <<x>> = Append(a, x) /\ a \o <<>> = a
<1>. DEFINE b == Append(a, x)
<1>1. a \o <<x>> = b /\ a \o <<>> = a
      OBVIOUS
<1>2. Len(a) \in Nat /\ DOMAIN a = 1 .. Len(a) /\ DOMAIN b = 1 .. Len(a) + 1
      OBVIOUS
<1>3. b[Len(a) + 1] = x /\ \A k \in 1 .. Len(a) : b[k] = a[k]
      OBVIOUS
<1>. HIDE DEF b
<1>4. x \in Range(b)
      BY <1>2, <1>3 DEF Range
<1>5. y \in Range(a) => y \in Range(b)
      BY <1>2, <1>3 DEF Range
<1>. QED  BY <1>1, <1>4, <1>5 DEF b

LEMMA InAllItems ==
    ASSUME NEW s, NEW args \in Seq(Texts), NEW i, NEW y,
           y \in Range(ItemsTyped(s, args, i))
    PROVE  y \in Range(ItemsTyped(s, args, i) \o PositionalTyped(s, args, i))
<1>1. ItemsTyped(s, args, i) \in Seq(ItemSet(s, args, i))
  <2>1. 0 \in 0 .. Len(args)
        OBVIOUS
  <2>. QED  BY <2>1, ItemsAreSeq
<1>2. PositionalTyped(s, args, i) = <<>> \/ \E x : PositionalTyped(s, args, i) = <<x>>
      BY DEF PositionalTyped
<1>. QED  BY <1>1, <1>2, RangeGrows

\* The value that an option is given is the text typed for it.
LEMMA ValueIsTyped ==
    ASSUME AnOption(Arg), NEW i \in 1 .. Len(spec), i = FirstNamed(spec, NameOf[Arg]),
           OptionValue(i) # Unset
    PROVE  TextTyped(spec, rawArgv, argIdx) = OptionValue(i)
<1>1. TakesNext(spec, rawArgv, argIdx) <=> spec[i].withArg /\ ~ HasAssign[Arg]
      BY DEF TakesNext, Arg
<1>2. CASE HasAssign[Arg]
      BY <1>2 DEF TextTyped, OptionValue, Arg
<1>3. CASE ~ HasAssign[Arg] /\ ~ spec[i].withArg
      BY <1>1, <1>3 DEF TextTyped, OptionValue, Arg
<1>4. CASE ~ HasAssign[Arg] /\ spec[i].withArg
      BY <1>1, <1>4 DEF TextTyped, OptionValue, Arg
<1>. QED  BY <1>2, <1>3, <1>4

\* An option that is refused is unknown, lacks its argument or has one that
\* cannot be converted.
LEMMA OptionRefused ==
    ASSUME TypeOK, AtPlace, ParseOption, Start[Arg] = "--", step' = "refused"
    PROVE  Reason(spec, rawArgv)
<1>. DEFINE i == FirstNamed(spec, NameOf[Arg])
            value == OptionValue(i)
<1>1. /\ AtOption /\ argIdx \in 1 .. Len(rawArgv) /\ Arg \in Texts /\ rawArgv \in Seq(Texts)
      /\ Len(rawArgv) \in Nat
      BY SpecFacts DEF ParseOption, AtOption, TypeOK, Arg
<1>2. argIdx \in OptionsTyped(spec, rawArgv)
      BY <1>1 DEF AtPlace, OptionsTyped, AnOption, Arg
<1>3. i = 0 \/ value = Unset \/ Item(spec[i], value) = Unset
      BY <1>1 DEF ParseOption, findOptionSpecByName, AtOption
<1>4. /\ i \in 0 .. Len(spec)
      /\ i = 0 => \A j \in 1 .. Len(spec) : spec[j].name # NameOf[Arg]
      BY SpecFacts, FirstNamedFacts
<1>5. CASE i = 0
      BY <1>2, <1>4, <1>5 DEF Reason, Arg
<1>6. CASE i # 0 /\ value = Unset
  <2>1. ValueOf[Arg] # Unset /\ "" # Unset
        BY <1>1, TextAssumption
  <2>2. argIdx # Len(rawArgv) => rawArgv[argIdx + 1] # Unset
    <3>1. argIdx # Len(rawArgv) => rawArgv[argIdx + 1] \in Texts
          BY <1>1
    <3>. QED  BY <3>1, TextAssumption
  <2>3. /\ ~ HasAssign[Arg] /\ spec[i].withArg
        /\ argIdx = Len(rawArgv) \/ AnOption(rawArgv[argIdx + 1])
        BY <1>6, <2>1, <2>2 DEF OptionValue
  <2>4. TakesNext(spec, rawArgv, argIdx)
        BY <1>2, <1>4, <1>6, <2>3 DEF TakesNext, Arg, OptionsTyped
  <2>. QED  BY <1>2, <2>3, <2>4 DEF Reason
<1>7. CASE i # 0 /\ value # Unset /\ Item(spec[i], value) = Unset
  <2>1. i \in 1 .. Len(spec) /\ argIdx \in TypedAt(spec, rawArgv, i)
        BY <1>2, <1>4, <1>7, SpecFacts DEF TypedAt, Arg
  <2>2. TextTyped(spec, rawArgv, argIdx) = value
        BY <1>7, <2>1, ValueIsTyped DEF AnOption
  <2>. HIDE DEF i, value
  <2>3. ItemsUpTo(spec, rawArgv, i)[argIdx] = Append(ItemsUpTo(spec, rawArgv, i)[argIdx - 1], Unset)
        BY <1>1, <1>7, <2>1, <2>2, ItemsAt
  <2>4. argIdx - 1 \in 0 .. Len(rawArgv) /\ argIdx \in 0 .. Len(rawArgv)
        /\ Len(rawArgv) \in argIdx .. Len(rawArgv)
        BY <1>1
  <2>5. Unset \in Range(ItemsUpTo(spec, rawArgv, i)[argIdx])
    <3>. DEFINE a == ItemsUpTo(spec, rawArgv, i)[argIdx - 1]
    <3>1. a \in Seq(ItemSet(spec, rawArgv, i))
          BY <1>1, <2>4, ItemsAreSeq
    <3>. HIDE DEF a
    <3>2. Unset \in Range(Append(a, Unset))
          BY <3>1, RangeGrows
    <3>. QED  BY <2>3, <3>2 DEF a
  <2>6. Unset \in Range(ItemsTyped(spec, rawArgv, i))
    <3>1. Range(ItemsUpTo(spec, rawArgv, i)[argIdx]) \subseteq
              Range(ItemsUpTo(spec, rawArgv, i)[Len(rawArgv)])
          BY <1>1, <2>4, ItemsStay
    <3>. QED  BY <2>5, <3>1 DEF ItemsTyped
  <2>7. Unset \in Range(ItemsTyped(spec, rawArgv, i) \o PositionalTyped(spec, rawArgv, i))
        BY <1>1, <2>6, InAllItems
  <2>. QED  BY <2>1, <2>7 DEF Reason
<1>. QED  BY <1>3, <1>5, <1>6, <1>7

\* One item more: what a getter returns and what a bound variable holds.
IsOneMore(s, typed, item) ==
    /\ Append(typed, item) # <<>>
    /\ typed = <<>> => Returned(s, Append(typed, item)) = <<item>>
    /\ typed # <<>> /\ s.type \notin ArrayTypes =>
          Returned(s, Append(typed, item)) = Returned(s, typed)
    /\ typed # <<>> /\ s.type \in ArrayTypes =>
          Returned(s, Append(typed, item)) = Append(Returned(s, typed), item)
    /\ Held(s, Append(typed, item)) =
          IF s.type \in ArrayTypes THEN Append(Held(s, typed), item) ELSE <<item>>

LEMMA OneMore ==
    ASSUME NEW S, NEW typed \in Seq(S), NEW item, NEW s
    PROVE  IsOneMore(s, typed, item)
<1>. DEFINE more == Append(typed, item)
<1>1. more # <<>> /\ Len(more) = Len(typed) + 1 /\ Len(typed) \in Nat
      OBVIOUS
<1>2. more[Len(typed) + 1] = item /\ \A k \in 1 .. Len(typed) : more[k] = typed[k]
      OBVIOUS
<1>3. typed = <<>> => more = <<item>>
      OBVIOUS
<1>4. typed # <<>> => Head(more) = Head(typed)
      OBVIOUS
<1>5. Last(more) = item
  <2>. HIDE DEF more
  <2>. QED  BY <1>1, <1>2 DEF Last
<1>6. typed = <<>> => Head(more) = item
      BY <1>3
<1>. HIDE DEF more
<1>7. typed = <<>> => Returned(s, more) = <<item>>
      BY <1>3, <1>6 DEF Returned
<1>8. typed # <<>> /\ s.type \notin ArrayTypes => Returned(s, more) = Returned(s, typed)
      BY <1>4 DEF Returned
<1>9. typed # <<>> /\ s.type \in ArrayTypes => Returned(s, more) = Append(Returned(s, typed), item)
      BY DEF Returned, more
<1>10. Held(s, more) = IF s.type \in ArrayTypes THEN Append(Held(s, typed), item) ELSE <<item>>
  <2>1. CASE s.type \in ArrayTypes
        BY <2>1 DEF Held, more
  <2>2. CASE s.type \notin ArrayTypes
        BY <1>1, <1>5, <2>2 DEF Held
  <2>. QED  BY <2>1, <2>2
<1>. QED  BY <1>1, <1>7, <1>8, <1>9, <1>10 DEF more, IsOneMore

\* An option that is taken: its item is stored and bound behind those that were
\* typed before it, and the loop goes on where the next option may stand.
LEMMA OptionRead ==
    ASSUME TypeOK, AtPlace, EntriesUpTo(argIdx - 1), BoundUpTo(argIdx - 1),
           ParseOption, Start[Arg] = "--", step' # "refused"
    PROVE  AtPlace' /\ EntriesUpTo(argIdx - 1)' /\ BoundUpTo(argIdx - 1)'
<1>. DEFINE i == FirstNamed(spec, NameOf[Arg])
            value == OptionValue(i)
            item == Item(spec[i], value)
            n == Len(rawArgv)
            m == argIdx'
            upTo(j) == ItemsUpTo(spec, rawArgv, j)[argIdx - 1]
            next(j) == ItemsUpTo(spec, rawArgv, j)[m - 1]
<1>1. /\ argIdx \in 1 .. n /\ Arg \in Texts
      /\ i \in 1 .. Len(spec) /\ spec[i].name = NameOf[Arg] /\ value # Unset
      /\ parsedArgs' = Store(NameOf[Arg], spec[i].type, item)
      /\ bound' = Bind(i, item)
      /\ m = argIdx + (IF spec[i].withArg /\ ~ HasAssign[Arg] THEN 2 ELSE 1)
      /\ UNCHANGED <<spec, rawArgv>>
      BY OptionTaken
<1>2. /\ spec \in Seq(ArgumentSpecs) /\ rawArgv \in Seq(Texts) /\ n \in Nat
      /\ argIdx \in Places(spec, rawArgv) /\ AnOption(Arg) /\ Arg = rawArgv[argIdx]
      BY <1>1, SpecFacts DEF TypeOK, AtPlace, AnOption, Arg
<1>3. m <= n + 1 /\ m \in Nat
  <2>1. CASE spec[i].withArg /\ ~ HasAssign[Arg]
    <3>1. argIdx # n
          BY <1>1, <2>1 DEF OptionValue
    <3>2. m = argIdx + 2
          BY <1>1, <2>1
    <3>. HIDE DEF m
    <3>. QED  BY <1>1, <1>2, <3>1, <3>2
  <2>2. CASE ~ (spec[i].withArg /\ ~ HasAssign[Arg])
    <3>1. m = argIdx + 1
          BY <1>1, <2>2
    <3>. HIDE DEF m
    <3>. QED  BY <1>1, <1>2, <3>1
  <2>. QED  BY <2>1, <2>2
<1>4. TextTyped(spec, rawArgv, argIdx) = value
      BY <1>1, <1>2, ValueIsTyped
<1>. HIDE DEF i, value, n, m
<1>5. /\ m <= n => m \in Places(spec, rawArgv)
      /\ \A j \in Places(spec, rawArgv) : j < m => j <= argIdx
      /\ ItemsUpTo(spec, rawArgv, i)[m - 1] =
            Append(ItemsUpTo(spec, rawArgv, i)[argIdx - 1],
                   Item(spec[i], TextTyped(spec, rawArgv, argIdx)))
      /\ \A j : j # i => ItemsUpTo(spec, rawArgv, j)[m - 1] = ItemsUpTo(spec, rawArgv, j)[argIdx - 1]
  <2>1. AnOption(rawArgv[argIdx]) /\ i = FirstNamed(spec, NameOf[rawArgv[argIdx]])
        BY <1>2 DEF i
  <2>2. m = argIdx + (IF spec[i].withArg /\ ~ HasAssign[rawArgv[argIdx]] THEN 2 ELSE 1)
        BY <1>1, <1>2
  <2>3. IsOneOption(spec, rawArgv, argIdx, i, m)
        BY <1>1, <1>2, <1>3, <2>1, <2>2, OneOption DEF n
  <2>. QED  BY <2>3 DEF IsOneOption, n
<1>6. next(i) = Append(upTo(i), item) /\ \A j : j # i => next(j) = upTo(j)
      BY <1>4, <1>5
<1>7. \A j : upTo(j) \in Seq(ItemSet(spec, rawArgv, j))
  <2>1. argIdx - 1 \in 0 .. n
        BY <1>1, <1>2
  <2>. QED  BY <1>2, <2>1, ItemsAreSeq DEF n
<1>8. AtPlace'
  <2>1. \A k \in Places(spec, rawArgv) : k < m => AnOption(rawArgv[k])
    <3>. SUFFICES ASSUME NEW k \in Places(spec, rawArgv), k < m PROVE AnOption(rawArgv[k])
         OBVIOUS
    <3>1. k <= argIdx /\ k \in Nat
          BY <1>5 DEF Places
    <3>2. CASE k = argIdx
          BY <1>2, <3>2
    <3>3. CASE k < argIdx
          BY <3>3 DEF AtPlace
    <3>. QED  BY <1>1, <3>1, <3>2, <3>3
  <2>. QED  BY <1>1, <1>3, <1>5, <2>1 DEF AtPlace, n, m
<1>9. IsStored(parsedArgs', NameOf[Arg], spec[i].type, item)
      BY <1>1, Stored
<1>. HIDE DEF item, upTo, next
<1>10. ASSUME NEW j \in 1 .. Len(spec), ~ isPositional(spec[j])
       PROVE  /\ spec[j].name \in DOMAIN (parsedArgs') <=> next(j) # <<>>
              /\ next(j) # <<>> => parsedArgs'[spec[j].name] =
                    [type |-> spec[j].type, items |-> Returned(spec[j], next(j))]
  <2>. DEFINE name == spec[j].name
  <2>1. /\ exists(name) <=> upTo(j) # <<>>
        /\ upTo(j) # <<>> => parsedArgs[name] = [type |-> spec[j].type, items |-> Returned(spec[j], upTo(j))]
        BY <1>10 DEF EntriesUpTo, upTo
  <2>2. DOMAIN (parsedArgs') = DOMAIN parsedArgs \cup {NameOf[Arg]}
    <3>1. parsedArgs' = [x \in DOMAIN parsedArgs \cup {NameOf[Arg]} |-> parsedArgs'[x]]
          BY <1>9 DEF IsStored
    <3>. QED  BY <3>1
  <2>3. CASE j # i
    <3>1. name # NameOf[Arg]
          BY <1>1, <1>10, <2>3, OwnName DEF TypeOK
    <3>2. name \in DOMAIN (parsedArgs') <=> exists(name)
          BY <2>2, <3>1 DEF exists
    <3>3. exists(name) => parsedArgs'[name] = parsedArgs[name]
          BY <1>9, <3>1 DEF IsStored, exists
    <3>. QED  BY <1>6, <2>1, <2>3, <3>2, <3>3
  <2>4. CASE j = i
    <3>1. name = NameOf[Arg] /\ name \in DOMAIN (parsedArgs') /\ next(j) = Append(upTo(j), item)
          BY <1>1, <1>6, <2>2, <2>4
    <3>2. IsOneMore(spec[j], upTo(j), item)
          BY <1>7, OneMore
    <3>3. next(j) # <<>>
          BY <3>1, <3>2 DEF IsOneMore
    <3>4. CASE ~ exists(name)
      <4>1. parsedArgs'[name] = [type |-> spec[j].type, items |-> <<item>>]
            BY <1>9, <2>4, <3>1, <3>4 DEF IsStored
      <4>2. Returned(spec[j], next(j)) = <<item>>
            BY <2>1, <3>1, <3>4, <3>2, Zenon DEF IsOneMore
      <4>. QED  BY <3>1, <3>3, <4>1, <4>2
    <3>5. CASE exists(name) /\ spec[j].type \notin ArrayTypes
      <4>1. parsedArgs'[name] = parsedArgs[name]
            BY <1>9, <2>4, <3>1, <3>5 DEF IsStored
      <4>2. Returned(spec[j], next(j)) = Returned(spec[j], upTo(j))
            BY <2>1, <3>1, <3>5, <3>2, Zenon DEF IsOneMore
      <4>. QED  BY <2>1, <3>1, <3>3, <3>5, <4>1, <4>2
    <3>6. CASE exists(name) /\ spec[j].type \in ArrayTypes
      <4>1. parsedArgs'[name] = [type |-> parsedArgs[name].type, items |-> Append(parsedArgs[name].items, item)]
            BY <1>9, <2>4, <3>1, <3>6 DEF IsStored
      <4>2. Returned(spec[j], next(j)) = Append(Returned(spec[j], upTo(j)), item)
            BY <2>1, <3>1, <3>6, <3>2, Zenon DEF IsOneMore
      <4>3. parsedArgs[name].type = spec[j].type /\ parsedArgs[name].items = Returned(spec[j], upTo(j))
            BY <2>1, <3>6
      <4>. QED  BY <3>1, <3>3, <4>1, <4>2, <4>3
    <3>. QED  BY <3>4, <3>5, <3>6
  <2>. QED  BY <2>3, <2>4
<1>11. ASSUME NEW j \in 1 .. Len(spec), spec[j].bindable
       PROVE  bound'[j] = Held(spec[j], next(j))
  <2>1. bound[j] = Held(spec[j], upTo(j)) /\ bound = [k \in 1 .. Len(spec) |-> bound[k]]
        BY <1>11 DEF BoundUpTo, TypeOK, upTo
  <2>2. CASE j # i
    <3>1. bound'[j] = bound[j]
          BY <1>1, <2>1, <2>2 DEF Bind
    <3>. QED  BY <1>6, <2>1, <2>2, <3>1
  <2>3. CASE j = i
    <3>1. bound'[j] = IF spec[j].type \in ArrayTypes THEN Append(bound[j], item) ELSE <<item>>
          BY <1>1, <1>11, <2>1, <2>3 DEF Bind
    <3>2. Held(spec[j], next(j)) =
              IF spec[j].type \in ArrayTypes THEN Append(Held(spec[j], upTo(j)), item) ELSE <<item>>
      <4>1. IsOneMore(spec[j], upTo(j), item)
            BY <1>7, OneMore
      <4>. QED  BY <1>6, <2>3, <4>1, Zenon DEF IsOneMore
    <3>. QED  BY <2>1, <3>1, <3>2
  <2>. QED  BY <2>2, <2>3
<1>12. EntriesUpTo(argIdx - 1)'
       BY <1>1, <1>10 DEF EntriesUpTo, exists, next, m
<1>13. BoundUpTo(argIdx - 1)'
       BY <1>1, <1>11 DEF BoundUpTo, next, m
<1>. QED  BY <1>8, <1>12, <1>13

LEMMA OptionReads ==
    ASSUME ParseTypes, Readable => ReadInv, ParseOption
    PROVE  (Readable => ReadInv)' /\ RefusedForAReason'
<1>1. /\ TypeOK /\ step = "options" /\ step' \in {"options", "refused"} /\ UNCHANGED <<spec, rawArgv>>
      /\ argIdx \in 1 .. Len(rawArgv)
      BY SpecFacts DEF ParseTypes, TypeOK, ParseOption, AtOption, Return
<1>. SUFFICES ASSUME Readable PROVE ReadInv' /\ RefusedForAReason'
     BY <1>1 DEF RefusedForAReason, Readable
<1>2. AtPlace /\ EntriesUpTo(argIdx - 1) /\ BoundUpTo(argIdx - 1)
      BY <1>1 DEF ReadInv
<1>3. Start[Arg] = "--"
      BY <1>1 DEF ParseOption, Readable, Arg
<1>4. CASE step' = "refused"
  <2>1. Reason(spec, rawArgv)
        BY <1>1, <1>2, <1>3, <1>4, OptionRefused
  <2>. QED  BY <1>1, <1>4, <2>1, Refuses DEF ReadInv
<1>5. CASE step' # "refused"
  <2>1. AtPlace' /\ EntriesUpTo(argIdx - 1)' /\ BoundUpTo(argIdx - 1)'
        BY <1>1, <1>2, <1>3, <1>5, OptionRead
  <2>. QED  BY <1>1, <1>5, <2>1 DEF ReadInv, RefusedForAReason
<1>. QED  BY <1>4, <1>5

\* The check of the required options, which have been typed if it passes.
LEMMA ChecksRead ==
    ASSUME ParseTypes, Readable => ReadInv, CheckOptions
    PROVE  (Readable => ReadInv)' /\ RefusedForAReason'
<1>1. /\ TypeOK /\ step = "checks" /\ step' \in {"help", "defaults", "refused"}
      /\ step' # "help" => (step' = "defaults" <=> validateRequiredArgs)
      /\ UNCHANGED <<spec, rawArgv, argIdx, parsedArgs, positionalIdx, bound>>
      BY DEF ParseTypes, CheckOptions, Return
<1>. SUFFICES ASSUME Readable PROVE ReadInv' /\ RefusedForAReason'
     BY <1>1 DEF RefusedForAReason, Readable
<1>2. EntriesUpTo(Len(rawArgv)) /\ argIdx = From /\ BoundUpTo(Len(rawArgv))
      BY <1>1 DEF ReadInv
<1>3. \A i \in 1 .. Len(spec) : ~ isPositional(spec[i]) =>
          (exists(spec[i].name) <=> ItemsTyped(spec, rawArgv, i) # <<>>)
      BY <1>2 DEF EntriesUpTo, ItemsTyped
<1>4. CASE step' = "help"
      BY <1>4 DEF ReadInv, RefusedForAReason
<1>5. CASE step' = "defaults"
  <2>1. RequiredTyped
        BY <1>1, <1>3, <1>5 DEF RequiredTyped, validateRequiredArgs
  <2>2. EntriesUpTo(Len(rawArgv))' /\ BoundUpTo(Len(rawArgv))'
        BY <1>1, <1>2 DEF EntriesUpTo, BoundUpTo, exists
  <2>3. (argIdx = From)'
        BY <1>1, <1>2 DEF From
  <2>4. RequiredTyped'
        BY <1>1, <2>1 DEF RequiredTyped
  <2>. QED  BY <1>5, <2>2, <2>3, <2>4 DEF ReadInv, RefusedForAReason
<1>6. CASE step' = "refused"
  <2>1. PICK i \in 1 .. Len(spec) :
            spec[i].required /\ ~ isPositional(spec[i]) /\ ~ exists(spec[i].name)
        BY <1>1, <1>6 DEF validateRequiredArgs
  <2>2. Reason(spec, rawArgv)
        BY <1>3, <2>1 DEF Reason
  <2>. QED  BY <1>1, <1>6, <2>2, Refuses DEF ReadInv
<1>. QED  BY <1>1, <1>4, <1>5, <1>6

\* The defaults: what was not typed gets one, what was typed is kept.
LEMMA DefaultsRead ==
    ASSUME ParseTypes, Readable => ReadInv, applyDefaultValues
    PROVE  (Readable => ReadInv)' /\ RefusedForAReason'
<1>. DEFINE applied == {i \in 1 .. Len(spec) : /\ ~ isPositional(spec[i])
                                               /\ hasDefaultValue(spec[i])
                                               /\ ~ exists(spec[i].name)}
<1>1. /\ TypeOK /\ step = "defaults" /\ step' \in {"count", "refused"}
      /\ UNCHANGED <<spec, rawArgv, argIdx, positionalIdx, bound>>
      BY DEF ParseTypes, applyDefaultValues
<1>. SUFFICES ASSUME Readable PROVE ReadInv' /\ RefusedForAReason'
     BY <1>1 DEF RefusedForAReason, Readable
<1>2. EntriesUpTo(Len(rawArgv)) /\ argIdx = From /\ BoundUpTo(Len(rawArgv)) /\ RequiredTyped
      BY <1>1 DEF ReadInv
<1>3. CASE step' = "refused"
  <2>1. PICK i \in 1 .. Len(spec) : Refused(spec[i])
        BY <1>3 DEF applyDefaultValues
  <2>2. Reason(spec, rawArgv)
        BY <2>1 DEF Reason, Refused
  <2>. QED  BY <1>1, <1>3, <2>2, Refuses DEF ReadInv
<1>4. CASE step' # "refused"
  <2>1. /\ step' = "count"
        /\ parsedArgs' = [n \in DOMAIN parsedArgs \cup {spec[i].name : i \in applied} |-> parsedArgs'[n]]
        /\ \A n \in DOMAIN parsedArgs : parsedArgs'[n] = parsedArgs[n]
        /\ \A i \in applied : parsedArgs'[spec[i].name] =
               [type |-> spec[i].type, items |-> <<spec[i].default.item>>]
        BY <1>1, <1>4, DefaultsTaken
  <2>2. DOMAIN (parsedArgs') = DOMAIN parsedArgs \cup {spec[i].name : i \in applied}
        BY <2>1
  <2>3. ASSUME NEW i \in 1 .. Len(spec), ~ isPositional(spec[i])
        PROVE  LET typed == ItemsTyped(spec, rawArgv, i)
               IN /\ spec[i].name \in DOMAIN (parsedArgs') <=> typed # <<>> \/ hasDefaultValue(spec[i])
                  /\ typed # <<>> => parsedArgs'[spec[i].name] =
                        [type |-> spec[i].type, items |-> Returned(spec[i], typed)]
                  /\ typed = <<>> /\ hasDefaultValue(spec[i]) => parsedArgs'[spec[i].name] =
                        [type |-> spec[i].type, items |-> <<spec[i].default.item>>]
    <3>. DEFINE typed == ItemsTyped(spec, rawArgv, i)
    <3>1. /\ exists(spec[i].name) <=> typed # <<>>
          /\ typed # <<>> => parsedArgs[spec[i].name] =
                [type |-> spec[i].type, items |-> Returned(spec[i], typed)]
          BY <1>2, <2>3 DEF EntriesUpTo, ItemsTyped
    <3>. HIDE DEF typed
    <3>2. i \in applied <=> hasDefaultValue(spec[i]) /\ typed = <<>>
          BY <2>3, <3>1
    <3>3. \A j \in applied : spec[j].name = spec[i].name => j = i
          BY <1>1, <2>3, OwnName DEF TypeOK
    <3>. HIDE DEF applied
    <3>4. spec[i].name \in DOMAIN (parsedArgs') <=> exists(spec[i].name) \/ i \in applied
          BY <2>2, <3>3 DEF exists
    <3>5. typed # <<>> => parsedArgs'[spec[i].name] = parsedArgs[spec[i].name]
          BY <2>1, <3>1 DEF exists
    <3>6. typed = <<>> /\ hasDefaultValue(spec[i]) => parsedArgs'[spec[i].name] =
              [type |-> spec[i].type, items |-> <<spec[i].default.item>>]
          BY <2>1, <3>2
    <3>. QED  BY <3>1, <3>2, <3>4, <3>5, <3>6 DEF typed
  <2>4. Entries'
        BY <1>1, <2>3 DEF Entries, exists
  <2>5. BoundUpTo(Len(rawArgv))' /\ RequiredTyped' /\ (argIdx = From)'
        BY <1>1, <1>2 DEF BoundUpTo, RequiredTyped, From
  <2>. QED  BY <2>1, <2>4, <2>5 DEF ReadInv, RefusedForAReason
<1>. QED  BY <1>3, <1>4

\* The sets of positionals are finite.
LEMMA FewPositionals ==
    ASSUME TypeOK, NEW i \in Nat
    PROVE  /\ IsFiniteSet(PositionalsBefore(spec, i))
           /\ IsFiniteSet(RequiredPositionals)
           /\ Cardinality(PositionalsBefore(spec, i)) \in Nat
           /\ Cardinality(RequiredPositionals) \in Nat
<1>1. IsFiniteSet(1 .. Len(spec))
      BY SpecFacts, FS_Interval
<1>2. PositionalsBefore(spec, i) \subseteq 1 .. Len(spec) /\ RequiredPositionals \subseteq 1 .. Len(spec)
      BY DEF PositionalsBefore, RequiredPositionals, Positionals
<1>3. IsFiniteSet(PositionalsBefore(spec, i)) /\ IsFiniteSet(RequiredPositionals)
      BY <1>1, <1>2, FS_Subset
<1>. QED  BY <1>3, FS_CardinalityType

\* The last required positional has all the others before it.
LEMMA LastRequired ==
    ASSUME TypeOK, RequiredPositionals # {}
    PROVE  \E i \in RequiredPositionals :
               Cardinality(RequiredPositionals) <= Cardinality(PositionalsBefore(spec, i)) + 1
<1>. DEFINE R == RequiredPositionals
            n == Len(spec)
            mirrored == {n - i : i \in R}
<1>1. n \in Nat /\ R \subseteq 1 .. n /\ \A i \in R : isPositional(spec[i])
      BY SpecFacts DEF RequiredPositionals, Positionals
<1>2. mirrored \in SUBSET Nat /\ mirrored # {}
  <2>1. \A i \in R : n - i \in Nat
        BY <1>1
  <2>2. PICK i \in R : TRUE
        OBVIOUS
  <2>. HIDE DEF R, n
  <2>. QED  BY <2>1, <2>2
<1>3. PICK m \in mirrored : \A k \in mirrored : m <= k
  <2>. HIDE DEF mirrored
  <2>. QED  BY <1>2, Smallest
<1>4. PICK i \in R : m = n - i
      OBVIOUS
<1>5. \A j \in R : j <= i
  <2>. SUFFICES ASSUME NEW j \in R PROVE j <= i
       OBVIOUS
  <2>1. n - j \in mirrored
        OBVIOUS
  <2>. HIDE DEF mirrored, R, n
  <2>. QED  BY <1>1, <1>3, <1>4, <2>1
<1>. DEFINE B == PositionalsBefore(spec, i)
<1>6. R \subseteq B \cup {i}
      BY <1>1, <1>5 DEF PositionalsBefore
<1>7. i \in Nat /\ i \notin B
      BY <1>1 DEF PositionalsBefore
<1>8. IsFiniteSet(B) /\ Cardinality(B) \in Nat /\ Cardinality(R) \in Nat
      BY <1>7, FewPositionals
<1>. HIDE DEF B, R
<1>9. IsFiniteSet(B \cup {i}) /\ Cardinality(B \cup {i}) = Cardinality(B) + 1
      BY <1>7, <1>8, FS_AddElement
<1>10. Cardinality(R) <= Cardinality(B \cup {i})
       BY <1>6, <1>9, FS_Subset
<1>. QED  BY <1>4, <1>8, <1>9, <1>10 DEF B, R

\* The required positionals are counted.
LEMMA CountReads ==
    ASSUME ParseTypes, Readable => ReadInv, CountPositionals
    PROVE  (Readable => ReadInv)' /\ RefusedForAReason'
<1>1. /\ TypeOK /\ step = "count" /\ positionalIdx = 1
      /\ step' = IF Len(rawArgv) < argIdx - 1 + Cardinality(RequiredPositionals)
                 THEN "refused" ELSE "positionals"
      /\ UNCHANGED <<spec, rawArgv, argIdx, parsedArgs, positionalIdx, bound>>
      BY DEF ParseTypes, CountPositionals, Return, Unread
<1>. SUFFICES ASSUME Readable PROVE ReadInv' /\ RefusedForAReason'
     BY <1>1 DEF RefusedForAReason, Readable
<1>2. argIdx = From /\ BoundUpTo(Len(rawArgv)) /\ RequiredTyped /\ Entries
      BY <1>1 DEF ReadInv
<1>3. From \in 1 .. Len(rawArgv) + 1 /\ Len(rawArgv) \in Nat /\ Len(spec) \in Nat
      BY <1>1, SpecFacts, FromIs DEF From, TypeOK
<1>4. Cardinality(RequiredPositionals) \in Nat
  <2>1. 0 \in Nat
        OBVIOUS
  <2>. QED  BY <1>1, <2>1, FewPositionals
<1>5. CASE Len(rawArgv) < argIdx - 1 + Cardinality(RequiredPositionals)
  <2>1. RequiredPositionals # {}
    <3>. SUFFICES ASSUME RequiredPositionals = {} PROVE FALSE
         OBVIOUS
    <3>1. Cardinality(RequiredPositionals) = 0
          BY FS_EmptySet
    <3>. QED  BY <1>2, <1>3, <1>5, <3>1
  <2>2. PICK i \in RequiredPositionals :
            Cardinality(RequiredPositionals) <= Cardinality(PositionalsBefore(spec, i)) + 1
        BY <1>1, <2>1, LastRequired
  <2>3. i \in 1 .. Len(spec) /\ isPositional(spec[i]) /\ spec[i].required
        BY DEF RequiredPositionals, Positionals
  <2>4. Cardinality(PositionalsBefore(spec, i)) \in Nat
        BY <1>1, <1>3, <2>3, FewPositionals
  <2>5. From + Cardinality(PositionalsBefore(spec, i)) > Len(rawArgv)
        BY <1>2, <1>3, <1>4, <1>5, <2>2, <2>4
  <2>6. PositionalTyped(spec, rawArgv, i) = <<>>
        BY <1>3, <2>4, <2>5 DEF PositionalTyped, From
  <2>7. Reason(spec, rawArgv)
        BY <2>3, <2>6 DEF Reason
  <2>. QED  BY <1>1, <1>5, <2>7, Refuses DEF ReadInv
<1>6. CASE ~ (Len(rawArgv) < argIdx - 1 + Cardinality(RequiredPositionals))
  <2>1. Enough
        BY <1>2, <1>3, <1>4, <1>6 DEF Enough
  <2>2. PositionalsBefore(spec, 1) = {} /\ Cardinality(PositionalsBefore(spec, 1)) = 0
    <3>1. PositionalsBefore(spec, 1) = {}
          BY DEF PositionalsBefore
    <3>. QED  BY <3>1, FS_EmptySet
  <2>3. AtPositional
    <3>1. argIdx = From + Cardinality(PositionalsBefore(spec, positionalIdx))
          BY <1>1, <1>2, <1>3, <2>2
    <3>2. \A i \in 1 .. Len(spec) : ~ (i < positionalIdx)
          BY <1>1
    <3>3. \A i \in Positionals : i \in 1 .. Len(spec)
          BY DEF Positionals
    <3>4. \A i \in 1 .. Len(spec) : spec[i].bindable =>
              bound[i] = Held(spec[i], ItemsTyped(spec, rawArgv, i))
          BY <1>2 DEF BoundUpTo, ItemsTyped
    <3>. QED  BY <1>2, <1>3, <3>1, <3>2, <3>3, <3>4 DEF AtPositional
  <2>4. AtPositional'
        BY <1>1, <2>3 DEF AtPositional, From, Positionals
  <2>5. Enough' /\ RequiredTyped' /\ Entries'
        BY <1>1, <1>2, <2>1 DEF Enough, From, RequiredPositionals, Positionals, RequiredTyped, Entries, exists
  <2>. QED  BY <1>1, <1>6, <2>4, <2>5 DEF ReadInv, RefusedForAReason
<1>. QED  BY <1>5, <1>6

\* What is held with a positional that was not typed, or not read yet.
LEMMA NoPositional ==
    ASSUME TypeOK, NEW i, PositionalTyped(spec, rawArgv, i) = <<>>
    PROVE  ItemsTyped(spec, rawArgv, i) \o PositionalTyped(spec, rawArgv, i)
               = ItemsTyped(spec, rawArgv, i)
<1>. DEFINE typed == ItemsTyped(spec, rawArgv, i)
<1>1. typed \in Seq(ItemSet(spec, rawArgv, i))
  <2>1. 0 \in 0 .. Len(rawArgv) /\ rawArgv \in Seq(Texts)
        BY SpecFacts DEF TypeOK
  <2>. QED  BY <2>1, ItemsAreSeq
<1>. HIDE DEF typed
<1>2. typed \o <<>> = typed
      BY <1>1
<1>. QED  BY <1>2 DEF typed

\* An argument for a positional.
LEMMA PositionalReads ==
    ASSUME ParseTypes, Readable => ReadInv, ParsePositional
    PROVE  (Readable => ReadInv)' /\ RefusedForAReason'
<1>. DEFINE left == {j \in Positionals : j >= positionalIdx}
            i == Min(left)
            item == Item(spec[i], Arg)
            n == Len(rawArgv)
            Before(j) == Cardinality(PositionalsBefore(spec, j))
            typed(j) == ItemsTyped(spec, rawArgv, j)
            positional(j) == PositionalTyped(spec, rawArgv, j)
<1>1. /\ TypeOK /\ step = "positionals" /\ argIdx <= n /\ step' \in {"positionals", "refused"}
      /\ UNCHANGED <<spec, rawArgv, parsedArgs>>
      BY DEF ParseTypes, ParsePositional
<1>. SUFFICES ASSUME Readable PROVE ReadInv' /\ RefusedForAReason'
     BY <1>1 DEF RefusedForAReason, Readable
<1>2. RequiredTyped /\ Entries /\ Enough /\ AtPositional
      BY <1>1 DEF ReadInv
<1>3. /\ From \in 1 .. n + 1 /\ n \in Nat /\ Len(spec) \in Nat /\ argIdx \in 1 .. n
      /\ positionalIdx \in 1 .. Len(spec) + 1 /\ rawArgv \in Seq(Texts)
      /\ bound = [j \in 1 .. Len(spec) |-> bound[j]]
      BY <1>1, SpecFacts, FromIs DEF From, TypeOK
<1>4. \A j : j \in Positionals <=> j \in 1 .. Len(spec) /\ isPositional(spec[j])
      BY DEF Positionals
<1>5. \A j : ~ isPositional(spec[j]) => positional(j) = <<>>
      BY DEF PositionalTyped
<1>6. Enough' /\ RequiredTyped' /\ Entries'
      BY <1>1, <1>2 DEF Enough, From, RequiredPositionals, Positionals, RequiredTyped, Entries, exists
<1>7. SUFFICES \/ step' = "refused" /\ Reason(spec, rawArgv)
               \/ step' = "positionals" /\ AtPositional'
  <2>1. CASE step' = "refused" /\ Reason(spec, rawArgv)
        BY <1>1, <2>1, Refuses DEF ReadInv
  <2>2. CASE step' = "positionals" /\ AtPositional'
        BY <1>6, <2>2 DEF ReadInv, RefusedForAReason
  <2>. QED  BY <1>7, <2>1, <2>2
<1>8. \A j \in 1 .. Len(spec) : spec[j].bindable =>
          bound[j] = Held(spec[j], IF j < positionalIdx THEN typed(j) \o positional(j) ELSE typed(j))
      BY <1>2 DEF AtPositional
<1>9. From' = From /\ Positionals' = Positionals
      BY <1>1 DEF From, Positionals
<1>10. CASE left = {}
  <2>1. /\ argIdx' = argIdx + 1 /\ positionalIdx' = Len(spec) + 1 /\ UNCHANGED <<bound, step>>
        BY <1>10 DEF ParsePositional
  <2>2. \A j \in Positionals : j < positionalIdx
        BY <1>3, <1>4, <1>10
  <2>3. ASSUME NEW j \in 1 .. Len(spec), spec[j].bindable
        PROVE  bound[j] = Held(spec[j], typed(j) \o positional(j))
    <3>1. CASE j < positionalIdx
          BY <1>8, <2>3, <3>1
    <3>2. CASE ~ (j < positionalIdx)
      <4>1. positional(j) = <<>>
            BY <1>4, <1>5, <2>2, <3>2
      <4>2. typed(j) \o positional(j) = typed(j)
            BY <1>1, <4>1, NoPositional
      <4>. QED  BY <1>8, <2>3, <3>2, <4>2
    <3>. QED  BY <3>1, <3>2
  <2>4. \A j \in Positionals : From + Before(j) <= n
        BY <1>2, <2>2 DEF AtPositional
  <2>5. \A j \in 1 .. Len(spec) : j < Len(spec) + 1
        BY <1>3
  <2>6. \A j \in Positionals : j < Len(spec) + 1
        BY <1>4, <2>5
  <2>7. argIdx + 1 <= n + 1
        BY <1>3
  <2>8. AtPositional'
    <3>1. argIdx' <= Len(rawArgv')  + 1
          BY <1>1, <2>1, <2>7
    <3>2. \A j \in Positionals' : j < positionalIdx'
          BY <1>9, <2>1, <2>6
    <3>3. \A j \in Positionals' : From' + Cardinality(PositionalsBefore(spec', j)) <= Len(rawArgv')
          BY <1>1, <1>9, <2>4
    <3>4. \A j \in 1 .. Len(spec') : spec'[j].bindable =>
              bound'[j] = Held(spec'[j], IF j < positionalIdx'
                                         THEN ItemsTyped(spec', rawArgv', j) \o PositionalTyped(spec', rawArgv', j)
                                         ELSE ItemsTyped(spec', rawArgv', j))
          BY <1>1, <2>1, <2>3, <2>5
    <3>. QED  BY <3>1, <3>2, <3>3, <3>4 DEF AtPositional
  <2>. QED  BY <1>1, <2>1, <2>8
<1>11. CASE left # {}
  <2>1. /\ i \in 1 .. Len(spec) /\ i \in Positionals /\ i >= positionalIdx
        /\ \A j \in Positionals : j >= positionalIdx => i <= j
        BY <1>1, <1>11, NextPositional
  <2>2. /\ positionalIdx' = i + 1
        /\ item = Unset => step' = "refused"
        /\ item # Unset => bound' = Bind(i, item) /\ argIdx' = argIdx + 1 /\ UNCHANGED step
        BY <1>11 DEF ParsePositional
  <2>. HIDE DEF i, left
  <2>3. PositionalsBefore(spec, i) = PositionalsBefore(spec, positionalIdx)
        BY <1>3, <1>4, <2>1 DEF PositionalsBefore
  <2>4. ~ (i < positionalIdx)
        BY <1>3, <2>1
  <2>5. argIdx = From + Before(i)
        BY <1>2, <2>1, <2>3, <2>4 DEF AtPositional
  <2>6. positional(i) = <<item>>
        BY <1>1, <1>4, <2>1, <2>5 DEF PositionalTyped, From, Arg
  <2>7. typed(i) \in Seq(ItemSet(spec, rawArgv, i))
    <3>1. 0 \in 0 .. Len(rawArgv)
          BY <1>3
    <3>. QED  BY <1>3, <3>1, ItemsAreSeq
  <2>. HIDE DEF item, positional, typed
  <2>8. CASE item = Unset
    <3>1. Unset \in Range(typed(i) \o positional(i))
          BY <2>6, <2>7, <2>8, RangeGrows
    <3>2. Reason(spec, rawArgv)
          BY <2>1, <3>1 DEF Reason, typed, positional
    <3>. QED  BY <2>2, <2>8, <3>2
  <2>9. CASE item # Unset
    <3>1. Before(i + 1) = Before(i) + 1
      <4>. DEFINE B == PositionalsBefore(spec, i)
      <4>1. PositionalsBefore(spec, i + 1) = B \cup {i} /\ i \notin B
            BY <1>3, <1>4, <2>1 DEF PositionalsBefore
      <4>2. IsFiniteSet(B)
            BY <1>1, <1>3, <2>1, FewPositionals
      <4>. HIDE DEF B
      <4>. QED  BY <4>1, <4>2, FS_AddElement DEF B
    <3>2. Before(i) \in Nat
          BY <1>1, <1>3, <2>1, FewPositionals
    <3>3. argIdx + 1 = From + Before(i + 1) /\ argIdx + 1 <= n + 1
          BY <1>3, <2>5, <3>1, <3>2
    <3>4. \A j \in Positionals : j < i + 1 => From + Before(j) <= n
      <4>. SUFFICES ASSUME NEW j \in Positionals, j < i + 1 PROVE From + Before(j) <= n
           OBVIOUS
      <4>1. CASE j < positionalIdx
            BY <1>2, <4>1 DEF AtPositional
      <4>2. CASE ~ (j < positionalIdx)
        <5>1. j = i
              BY <1>3, <1>4, <2>1, <4>2
        <5>. QED  BY <1>3, <2>5, <5>1
      <4>. QED  BY <4>1, <4>2
    <3>5. ASSUME NEW j \in 1 .. Len(spec), spec[j].bindable
          PROVE  bound'[j] = Held(spec[j], IF j < i + 1 THEN typed(j) \o positional(j) ELSE typed(j))
      <4>1. CASE j = i
        <5>1. bound[j] = Held(spec[j], typed(j))
              BY <1>8, <2>4, <3>5, <4>1 DEF typed
        <5>2. typed(j) \o positional(j) = Append(typed(j), item)
              BY <2>6, <2>7, <4>1, RangeGrows
        <5>3. bound'[j] = IF spec[j].type \in ArrayTypes THEN Append(bound[j], item) ELSE <<item>>
              BY <1>3, <2>1, <2>2, <2>9, <3>5, <4>1 DEF Bind
        <5>4. IsOneMore(spec[j], typed(j), item)
              BY <2>7, <4>1, OneMore
        <5>5. Held(spec[j], Append(typed(j), item)) =
                  IF spec[j].type \in ArrayTypes THEN Append(Held(spec[j], typed(j)), item) ELSE <<item>>
              BY <5>4, Zenon DEF IsOneMore
        <5>6. j < i + 1
              BY <1>3, <4>1
        <5>. QED  BY <5>1, <5>2, <5>3, <5>5, <5>6
      <4>2. CASE j # i
        <5>1. bound'[j] = bound[j]
              BY <1>3, <2>1, <2>2, <2>9, <4>2 DEF Bind
        <5>2. CASE j < positionalIdx
          <6>1. j < i + 1
                BY <1>3, <2>1, <5>2
          <6>. QED  BY <1>8, <3>5, <5>1, <5>2, <6>1 DEF typed, positional
        <5>3. CASE ~ (j < positionalIdx) /\ j < i + 1
          <6>1. ~ isPositional(spec[j])
                BY <1>3, <1>4, <2>1, <4>2, <5>3
          <6>2. typed(j) \o positional(j) = typed(j)
                BY <1>1, <1>5, <6>1, NoPositional DEF typed, positional
          <6>. QED  BY <1>8, <3>5, <5>1, <5>3, <6>2 DEF typed
        <5>4. CASE ~ (j < positionalIdx) /\ ~ (j < i + 1)
              BY <1>8, <3>5, <5>1, <5>4 DEF typed
        <5>. QED  BY <5>2, <5>3, <5>4
      <4>. QED  BY <4>1, <4>2
    <3>6. AtPositional'
      <4>1. argIdx' <= Len(rawArgv') + 1
            BY <1>1, <2>2, <2>9, <3>3
      <4>2. argIdx' = From' + Cardinality(PositionalsBefore(spec', positionalIdx'))
            BY <1>1, <1>9, <2>2, <2>9, <3>3
      <4>3. \A j \in Positionals' : j < positionalIdx' =>
                From' + Cardinality(PositionalsBefore(spec', j)) <= Len(rawArgv')
            BY <1>1, <1>9, <2>2, <3>4
      <4>4. \A j \in 1 .. Len(spec') : spec'[j].bindable =>
                bound'[j] = Held(spec'[j], IF j < positionalIdx'
                                           THEN ItemsTyped(spec', rawArgv', j) \o PositionalTyped(spec', rawArgv', j)
                                           ELSE ItemsTyped(spec', rawArgv', j))
            BY <1>1, <2>2, <3>5 DEF typed, positional
      <4>. QED  BY <4>1, <4>2, <4>3, <4>4 DEF AtPositional
    <3>. QED  BY <1>1, <2>2, <2>9, <3>6
  <2>. QED  BY <2>8, <2>9
<1>. QED  BY <1>10, <1>11

\* All arguments are read: a positional that is left was not typed.
LEMMA EndReads ==
    ASSUME ParseTypes, Readable => ReadInv, EndOfPositionals
    PROVE  (Readable => ReadInv)' /\ RefusedForAReason'
<1>. DEFINE n == Len(rawArgv)
            Before(j) == Cardinality(PositionalsBefore(spec, j))
<1>1. /\ TypeOK /\ step = "positionals" /\ argIdx > n /\ step' = "parsed"
      /\ UNCHANGED <<spec, rawArgv, argIdx, parsedArgs, positionalIdx, bound>>
      BY DEF ParseTypes, EndOfPositionals, Return
<1>. SUFFICES ASSUME Readable PROVE ReadInv' /\ RefusedForAReason'
     BY <1>1 DEF RefusedForAReason, Readable
<1>2. RequiredTyped /\ Entries /\ Enough /\ AtPositional
      BY <1>1 DEF ReadInv
<1>3. From \in Nat /\ n \in Nat /\ Len(spec) \in Nat /\ argIdx \in Nat /\ positionalIdx \in Nat
      BY <1>1, SpecFacts, FromIs DEF From, TypeOK
<1>4. ASSUME NEW i \in 1 .. Len(spec), ~ (i < positionalIdx)
      PROVE  PositionalTyped(spec, rawArgv, i) = <<>>
  <2>1. CASE ~ isPositional(spec[i])
        BY <2>1 DEF PositionalTyped
  <2>2. CASE isPositional(spec[i])
    <3>1. i \in Positionals
          BY <2>2 DEF Positionals
    <3>2. argIdx = From + Before(positionalIdx)
          BY <1>2, <1>4, <3>1 DEF AtPositional
    <3>3. PositionalsBefore(spec, positionalIdx) \subseteq PositionalsBefore(spec, i)
          BY <1>3, <1>4 DEF PositionalsBefore
    <3>4. /\ IsFiniteSet(PositionalsBefore(spec, i))
          /\ Before(i) \in Nat /\ Before(positionalIdx) \in Nat
      <4>1. i \in Nat /\ positionalIdx \in Nat
            BY <1>3
      <4>. QED  BY <1>1, <4>1, FewPositionals
    <3>5. Before(positionalIdx) <= Before(i)
          BY <3>3, <3>4, FS_Subset
    <3>6. ~ (From + Before(i) <= n)
          BY <1>1, <1>3, <3>2, <3>4, <3>5
    <3>. QED  BY <3>6 DEF PositionalTyped, From
  <2>. QED  BY <2>1, <2>2
<1>5. AllBound
  <2>. SUFFICES ASSUME NEW i \in 1 .. Len(spec), spec[i].bindable
                PROVE  bound[i] = Held(spec[i], ItemsTyped(spec, rawArgv, i) \o PositionalTyped(spec, rawArgv, i))
       BY DEF AllBound
  <2>1. CASE i < positionalIdx
        BY <1>2, <2>1 DEF AtPositional
  <2>2. CASE ~ (i < positionalIdx)
    <3>1. ItemsTyped(spec, rawArgv, i) \o PositionalTyped(spec, rawArgv, i) = ItemsTyped(spec, rawArgv, i)
          BY <1>1, <1>4, <2>2, NoPositional
    <3>. QED  BY <1>2, <2>2, <3>1 DEF AtPositional
  <2>. QED  BY <2>1, <2>2
<1>6. AllBound' /\ Enough' /\ RequiredTyped' /\ Entries'
      BY <1>1, <1>2, <1>5 DEF AllBound, Enough, From, RequiredPositionals, Positionals,
                              RequiredTyped, Entries, exists
<1>. QED  BY <1>1, <1>6 DEF ReadInv, RefusedForAReason

\* parse() as a whole.
LEMMA ParseStepReads ==
    ASSUME ParseInv, ParseStep
    PROVE  ParseInv'
<1>1. ParseTypes /\ (Readable => ReadInv) /\ ParseTypes'
      BY ParseStepKeepsTypes DEF ParseInv
<1>. QED  BY <1>1, ParseReads, ReadyReads, OptionReads, ChecksRead, DefaultsRead, CountReads,
             PositionalReads, EndReads DEF ParseStep, ParseInv

LEMMA RestKeepsReading ==
    ASSUME ParseInv, UNCHANGED vars
    PROVE  ParseInv'
<1>1. ParseTypes'
      BY RunnerKeepsTypes DEF ParseInv
<1>2. UNCHANGED <<spec, rawArgv, argIdx, parsedArgs, positionalIdx, bound, step>>
      BY DEF vars
<1>3. RefusedForAReason'
      BY <1>2, Refuses, ReasonIsReason DEF ParseInv
<1>4. Readable' <=> Readable
      BY <1>2 DEF Readable
<1>5. ReadInv => ReadInv'
  <2>1. From' = From /\ Positionals' = Positionals /\ RequiredPositionals' = RequiredPositionals
        BY <1>2 DEF From, Positionals, RequiredPositionals
  <2>2. AtPlace => AtPlace'
        BY <1>2 DEF AtPlace
  <2>3. Enough => Enough'
        BY <1>2, <2>1 DEF Enough
  <2>4. AtPositional => AtPositional'
        BY <1>2, <2>1 DEF AtPositional
  <2>5. AllBound => AllBound'
        BY <1>2 DEF AllBound
  <2>6. (RequiredTyped => RequiredTyped') /\ (Entries => Entries')
        BY <1>2 DEF RequiredTyped, Entries, exists
  <2>7. EntriesUpTo(argIdx - 1) /\ BoundUpTo(argIdx - 1) => (EntriesUpTo(argIdx - 1) /\ BoundUpTo(argIdx - 1))'
        BY <1>2 DEF EntriesUpTo, BoundUpTo, exists
  <2>8. EntriesUpTo(Len(rawArgv)) => EntriesUpTo(Len(rawArgv))'
        BY <1>2 DEF EntriesUpTo, exists
  <2>9. BoundUpTo(Len(rawArgv)) => BoundUpTo(Len(rawArgv))'
        BY <1>2 DEF BoundUpTo
  <2>. QED  BY <1>2, <2>1, <2>2, <2>3, <2>4, <2>5, <2>6, <2>7, <2>8, <2>9 DEF ReadInv
<1>. QED  BY <1>1, <1>3, <1>4, <1>5 DEF ParseInv

LEMMA InitReads == ArgumentsInit => ParseInv
<1>. SUFFICES ASSUME ArgumentsInit PROVE ParseInv
     OBVIOUS
<1>1. ParseTypes /\ step = "parse"
      BY InitTypes DEF ArgumentsInit, Init
<1>. QED  BY <1>1 DEF ParseInv, ReadInv, RefusedForAReason

LEMMA ParseInvStep == ParseInv /\ [ArgumentsNext]_allvars => ParseInv'
<1>. SUFFICES ASSUME ParseInv, [ArgumentsNext]_allvars PROVE ParseInv'
     OBVIOUS
<1>1. ParseStep \/ UNCHANGED vars
      BY ParseOrNot DEF allvars
<1>. QED  BY <1>1, ParseStepReads, RestKeepsReading

\* A required positional is typed unless an optional one stands before it.
LEMMA RequiredPositionalTyped ==
    ASSUME TypeOK, Enough, NEW i \in RequiredPositionals,
           \A j \in Positionals : j < i => spec[j].required
    PROVE  PositionalTyped(spec, rawArgv, i) # <<>>
<1>. DEFINE B == PositionalsBefore(spec, i)
            R == RequiredPositionals
<1>1. i \in 1 .. Len(spec) /\ isPositional(spec[i]) /\ Len(spec) \in Nat /\ Len(rawArgv) \in Nat
      BY SpecFacts DEF RequiredPositionals, Positionals
<1>2. B \cup {i} \subseteq R /\ i \notin B
      BY <1>1 DEF PositionalsBefore, RequiredPositionals, Positionals
<1>3. IsFiniteSet(B) /\ IsFiniteSet(R) /\ Cardinality(B) \in Nat /\ Cardinality(R) \in Nat
      BY <1>1, FewPositionals
<1>4. Cardinality(B) + 1 <= Cardinality(R)
  <2>. HIDE DEF B, R
  <2>1. Cardinality(B \cup {i}) = Cardinality(B) + 1
        BY <1>2, <1>3, FS_AddElement
  <2>. QED  BY <1>2, <1>3, <2>1, FS_Subset
<1>5. From \in Nat
      BY <1>1, FromIs DEF From, TypeOK
<1>6. From + Cardinality(B) <= Len(rawArgv)
      BY <1>1, <1>3, <1>4, <1>5 DEF Enough
<1>. QED  BY <1>1, <1>6 DEF PositionalTyped, From

LEMMA ReadIsTyped == ParseInv => ValuesAreAsTyped
<1>. SUFFICES ASSUME ParseInv, step = "parsed", Readable, NEW i \in 1 .. Len(spec)
              PROVE  LET typed == ItemsTyped(spec, rawArgv, i)
                         first == IF typed = <<>> THEN typed ELSE <<Head(typed)>>
                         all == typed \o PositionalTyped(spec, rawArgv, i)
                         array == spec[i].type \in ArrayTypes
                     IN /\ ~ isPositional(spec[i]) =>
                               Get(spec[i].name, spec[i].type, <<>>)
                                   = IF typed # <<>> THEN (IF array THEN typed ELSE first)
                                     ELSE IF hasDefaultValue(spec[i]) THEN <<spec[i].default.item>>
                                     ELSE <<>>
                        /\ spec[i].bindable => bound[i] = IF array \/ all = <<>> THEN all ELSE <<Last(all)>>
                        /\ spec[i].required /\ ~ isPositional(spec[i]) => typed # <<>>
                        /\ spec[i].required /\ isPositional(spec[i]) =>
                               \/ PositionalTyped(spec, rawArgv, i) # <<>>
                               \/ \E j \in Positionals : j < i /\ ~ spec[j].required
     BY DEF ValuesAreAsTyped
<1>. DEFINE typed == ItemsTyped(spec, rawArgv, i)
            all == typed \o PositionalTyped(spec, rawArgv, i)
<1>1. TypeOK /\ RequiredTyped /\ Entries /\ Enough /\ AllBound
      BY DEF ParseInv, ParseTypes, ReadInv
<1>2. spec[i].bindable => bound[i] = IF spec[i].type \in ArrayTypes \/ all = <<>> THEN all ELSE <<Last(all)>>
      BY <1>1 DEF AllBound, Held
<1>3. spec[i].required /\ ~ isPositional(spec[i]) => typed # <<>>
      BY <1>1 DEF RequiredTyped
<1>4. spec[i].required /\ isPositional(spec[i]) =>
          \/ PositionalTyped(spec, rawArgv, i) # <<>>
          \/ \E j \in Positionals : j < i /\ ~ spec[j].required
      BY <1>1, RequiredPositionalTyped DEF RequiredPositionals, Positionals
<1>5. ASSUME ~ isPositional(spec[i])
      PROVE  Get(spec[i].name, spec[i].type, <<>>) =
                 IF typed # <<>> THEN Returned(spec[i], typed)
                 ELSE IF hasDefaultValue(spec[i]) THEN <<spec[i].default.item>> ELSE <<>>
  <2>1. /\ exists(spec[i].name) <=> typed # <<>> \/ hasDefaultValue(spec[i])
        /\ typed # <<>> => parsedArgs[spec[i].name] =
              [type |-> spec[i].type, items |-> Returned(spec[i], typed)]
        /\ typed = <<>> /\ hasDefaultValue(spec[i]) => parsedArgs[spec[i].name] =
              [type |-> spec[i].type, items |-> <<spec[i].default.item>>]
        BY <1>1, <1>5 DEF Entries
  <2>. HIDE DEF typed
  <2>2. CASE typed # <<>>
    <3>1. parsedArgs[spec[i].name].type = spec[i].type /\ parsedArgs[spec[i].name].items = Returned(spec[i], typed)
          BY <2>1, <2>2
    <3>. QED  BY <2>1, <2>2, <3>1 DEF Get
  <2>3. CASE typed = <<>> /\ hasDefaultValue(spec[i])
    <3>1. parsedArgs[spec[i].name].type = spec[i].type /\ parsedArgs[spec[i].name].items = <<spec[i].default.item>>
          BY <2>1, <2>3
    <3>. QED  BY <2>1, <2>3, <3>1 DEF Get
  <2>4. CASE typed = <<>> /\ ~ hasDefaultValue(spec[i])
        BY <2>1, <2>4 DEF Get
  <2>. QED  BY <2>2, <2>3, <2>4
<1>6. typed # <<>> => Returned(spec[i], typed) =
          IF spec[i].type \in ArrayTypes THEN typed ELSE IF typed = <<>> THEN typed ELSE <<Head(typed)>>
      BY DEF Returned
<1>7. ~ isPositional(spec[i]) =>
          Get(spec[i].name, spec[i].type, <<>>) =
              IF typed # <<>>
              THEN (IF spec[i].type \in ArrayTypes THEN typed
                    ELSE IF typed = <<>> THEN typed ELSE <<Head(typed)>>)
              ELSE IF hasDefaultValue(spec[i]) THEN <<spec[i].default.item>> ELSE <<>>
  <2>. HIDE DEF typed
  <2>. QED  BY <1>5, <1>6, Zenon
<1>. QED  BY <1>2, <1>3, <1>4, <1>7

\* After a successful parse() a getter returns what was typed for the option, or
\* the default; a bound variable has every value, or the last; and all required
\* arguments were typed, for every specification and every command line whose
\* texts the parser reads as they are meant.
THEOREM TypedIsGot == ArgumentsSpec => []ValuesAreAsTyped
BY InitReads, ParseInvStep, ReadIsTyped, PTL DEF ArgumentsSpec

\* parse() refuses a command line only for one of the reasons there are.
THEOREM Refusals == ArgumentsSpec => []RefusedForAReason
<1>1. ParseInv => RefusedForAReason
      BY DEF ParseInv
<1>. QED  BY <1>1, InitReads, ParseInvStep, PTL DEF ArgumentsSpec

-----------------------------------------------------------------------------
(* The credentials, from the worker's command line to the runner's channel.  *)

\* What a channel is made of, when it is made.
LEMMA ChannelFacts ==
    ASSUME NEW o, NEW files, NEW token, o.useGoogleApiAuth \in BOOLEAN,
           o.serverCert = Unset, o.clientKey = Unset, o.clientCert = Unset,
           createChannel(o, files, token) # Thrown
    PROVE  LET c == createChannel(o, files, token)
           IN /\ c.credentials = "google" <=> o.useGoogleApiAuth
              /\ c.token[1] = o.accessTokenPath
              /\ o.useGoogleApiAuth \/ c.pems = <<o.serverCertPath, o.clientKeyPath, o.clientCertPath>>
              /\ c.target = TargetOf[o.url]
<1>. DEFINE c == createChannel(o, files, token)
            scheme == SchemeOf[o.url]
            channel(credentials, pems, tok) ==
                [target |-> TargetOf[o.url], credentials |-> credentials, pems |-> pems,
                 token |-> tok, loadBalancingPolicy |-> o.loadBalancingPolicy]
            none == <<Unset, Unset, Unset>>
<1>1. PemsOf(o) = <<o.serverCertPath, o.clientKeyPath, o.clientCertPath>>
      BY DEF PemsOf, Pem
<1>2. CASE scheme \in Schemes.secure
  <2>1. /\ ~ (o.accessTokenPath # Unset /\ o.useGoogleApiAuth)
        /\ c = IF o.useGoogleApiAuth THEN channel("google", none, <<Unset, Unset>>)
               ELSE channel("ssl", PemsOf(o),
                            <<o.accessTokenPath,
                              IF o.accessTokenPath = Unset THEN Unset ELSE o.tokenReloadInterval>>)
        BY <1>2 DEF createChannel, Schemes
  <2>2. CASE o.useGoogleApiAuth
    <3>1. c = channel("google", none, <<Unset, Unset>>) /\ o.accessTokenPath = Unset
          BY <2>1, <2>2
    <3>. HIDE DEF c
    <3>. QED  BY <2>2, <3>1 DEF c
  <2>3. CASE ~ o.useGoogleApiAuth
    <3>. DEFINE interval == IF o.accessTokenPath = Unset THEN Unset ELSE o.tokenReloadInterval
                pems == PemsOf(o)
    <3>1. c = channel("ssl", pems, <<o.accessTokenPath, interval>>)
          BY <2>1, <2>3
    <3>. HIDE DEF c, interval, pems
    <3>2. /\ c.credentials = "ssl" /\ c.pems = pems /\ c.token = <<o.accessTokenPath, interval>>
          /\ c.target = TargetOf[o.url]
          BY <3>1
    <3>. QED  BY <1>1, <2>3, <3>2 DEF c, pems
  <2>. QED  BY <2>2, <2>3
<1>3. CASE scheme \notin Schemes.secure
  <2>1. /\ ~ o.useGoogleApiAuth /\ \A f \in SecureSettings : o[f] = Unset
        /\ c = channel("insecure", none, <<Unset, Unset>>)
        BY <1>3 DEF createChannel
  <2>2. o.accessTokenPath = Unset /\ o.serverCertPath = Unset /\ o.clientKeyPath = Unset /\ o.clientCertPath = Unset
        BY <2>1 DEF SecureSettings
  <2>. HIDE DEF c
  <2>3. /\ c.credentials = "insecure" /\ c.pems = none /\ c.token = <<Unset, Unset>>
        /\ c.target = TargetOf[o.url]
        BY <2>1
  <2>. QED  BY <2>1, <2>2, <2>3 DEF c
<1>. QED  BY <1>2, <1>3

\* A client is made of its channel.
LEMMA ClientHasChannel ==
    ASSUME NEW o, NEW files, NEW token, ClientInit(o, files, token) # Thrown
    PROVE  /\ createChannel(o, files, token) # Thrown
           /\ ClientInit(o, files, token).channel = createChannel(o, files, token)
<1>. DEFINE c == createChannel(o, files, token)
<1>. HIDE DEF c
<1>. QED  BY DEF ClientInit, c

\* What was typed for an option of the worker's connection.
LEMMA TypedForIs ==
    ASSUME TypeOK, NEW key, NEW i \in 1 .. Len(spec), spec[i].name = WorkerPrefix \o key,
           ~ isPositional(spec[i])
    PROVE  TypedFor(key) = IF ItemsTyped(spec, rawArgv, i) = <<>> THEN Unset
                           ELSE ItemsTyped(spec, rawArgv, i)[1][1]
<1>1. {j \in 1 .. Len(spec) : spec[j].name = WorkerPrefix \o key} = {i}
      BY OwnName DEF TypeOK
<1>2. {i} \in SUBSET Nat
      BY SpecFacts
<1>3. Min({i}) = i
      BY <1>2, Smallest
<1>. QED  BY <1>1, <1>3 DEF TypedFor

\* A setting is the text that was typed for it, if it has no default.
LEMMA SettingIsTyped ==
    ASSUME TypeOK, Entries, existsInSpec(WorkerPrefix \o "remote"),
           NEW key \in Keys \ {"instance", "retry-limit", "retry-delay"}
    PROVE  Setting(WorkerPrefix, key) = TypedFor(key)
<1>. DEFINE name == WorkerPrefix \o key
<1>1. PICK i \in 1 .. Len(spec) :
          spec[i].name = name /\ ~ isPositional(spec[i]) /\ spec[i].type = "STRING" /\ ~ hasDefaultValue(spec[i])
      BY ConnectionIsSpecified
<1>. DEFINE typed == ItemsTyped(spec, rawArgv, i)
<1>2. /\ exists(name) <=> typed # <<>>
      /\ typed # <<>> => parsedArgs[name] = [type |-> "STRING", items |-> Returned(spec[i], typed)]
      BY <1>1 DEF Entries
<1>3. TypedFor(key) = IF typed = <<>> THEN Unset ELSE typed[1][1]
      BY <1>1, TypedForIs
<1>. HIDE DEF typed, name
<1>4. CASE typed = <<>>
      BY <1>2, <1>3, <1>4 DEF Setting, name
<1>5. CASE typed # <<>>
  <2>1. parsedArgs[name].type = "STRING" /\ parsedArgs[name].items = <<Head(typed)>>
        BY <1>1, <1>2, <1>5 DEF Returned, ArrayTypes
  <2>2. getString(name, Unset) = <<Head(typed)>>
        BY <1>2, <1>5, <2>1 DEF getString, Get
  <2>3. Setting(WorkerPrefix, key) = typed[1][1]
    <3>1. 0 \in 0 .. Len(rawArgv) /\ rawArgv \in Seq(Texts)
          BY SpecFacts DEF TypeOK
    <3>2. typed \in Seq(ItemSet(spec, rawArgv, i))
          BY <3>1, ItemsAreSeq DEF typed
    <3>3. Head(typed) = typed[1]
          BY <1>5, <3>2
    <3>4. Setting(WorkerPrefix, key) = getString(name, Unset)[1][1]
          BY <1>2, <1>5 DEF Setting, name
    <3>. QED  BY <2>2, <3>3, <3>4
  <2>. QED  BY <1>3, <1>5, <2>3
<1>. QED  BY <1>4, <1>5

\* The flag is set when "true" was typed for it.
LEMMA FlagIsTyped ==
    ASSUME TypeOK, Entries, existsInSpec(WorkerPrefix \o "remote")
    PROVE  Flag(WorkerPrefix, "googleapi-auth") <=> TypedFor("googleapi-auth") = "true"
<1>. DEFINE name == WorkerPrefix \o "googleapi-auth"
<1>1. PICK i \in 1 .. Len(spec) :
          /\ spec[i].name = name /\ ~ isPositional(spec[i]) /\ spec[i].type = "BOOL"
          /\ hasDefaultValue(spec[i]) /\ spec[i].default.item = <<"false">>
      BY ConnectionIsSpecified
<1>. DEFINE typed == ItemsTyped(spec, rawArgv, i)
<1>2. /\ exists(name)
      /\ typed # <<>> => parsedArgs[name] = [type |-> "BOOL", items |-> Returned(spec[i], typed)]
      /\ typed = <<>> => parsedArgs[name] = [type |-> "BOOL", items |-> <<spec[i].default.item>>]
      BY <1>1 DEF Entries
<1>3. TypedFor("googleapi-auth") = IF typed = <<>> THEN Unset ELSE typed[1][1]
      BY <1>1, TypedForIs
<1>4. typed \in Seq({<<"true">>, <<"false">>})
  <2>1. 0 \in 0 .. Len(rawArgv) /\ rawArgv \in Seq(Texts)
        BY SpecFacts DEF TypeOK
  <2>2. typed \in Seq(ItemSet(spec, rawArgv, i))
        BY <2>1, ItemsAreSeq
  <2>3. \A text : Item(spec[i], text) \in {<<"true">>, <<"false">>}
        BY <1>1 DEF Item
  <2>4. ItemSet(spec, rawArgv, i) \subseteq {<<"true">>, <<"false">>}
        BY <2>3 DEF ItemSet
  <2>. HIDE DEF typed
  <2>. QED  BY <2>2, <2>4
<1>. HIDE DEF typed, name
<1>5. Flag(WorkerPrefix, "googleapi-auth") <=> getBool(name, Unset) = << <<"true">> >>
      BY <1>2 DEF Flag, name
<1>6. CASE typed = <<>>
  <2>1. parsedArgs[name].type = "BOOL" /\ parsedArgs[name].items = << <<"false">> >>
        BY <1>1, <1>2, <1>6
  <2>2. getBool(name, Unset) = << <<"false">> >>
        BY <1>2, <2>1 DEF getBool, Get
  <2>3. Unset # "true"
        BY TextAssumption
  <2>. QED  BY <1>3, <1>5, <1>6, <2>2, <2>3
<1>7. CASE typed # <<>>
  <2>1. parsedArgs[name].type = "BOOL" /\ parsedArgs[name].items = <<Head(typed)>>
        BY <1>1, <1>2, <1>7 DEF Returned, ArrayTypes
  <2>2. getBool(name, Unset) = <<Head(typed)>>
        BY <1>2, <2>1 DEF getBool, Get
  <2>3. Head(typed) = typed[1] /\ typed[1] \in {<<"true">>, <<"false">>}
        BY <1>4, <1>7
  <2>. QED  BY <1>3, <1>5, <1>7, <2>2, <2>3
<1>. QED  BY <1>6, <1>7

\* The invariants of parse() and of the runner say what the channel is made of.
LEMMA ChannelIsTyped == ParseInv /\ RunnerInv => CredentialsAreUsedOrRefused
<1>. DEFINE client == ClientInit(casRemote, unreadable, googleToken)
            channel == createChannel(casRemote, unreadable, googleToken)
<1>. SUFFICES ASSUME ParseInv, RunnerInv, stage \in {"accepted", "valid"}, Readable, client # Thrown
              PROVE  LET google == TypedFor("googleapi-auth") = "true"
                         certificates == <<TypedFor("server-cert"), TypedFor("client-key"), TypedFor("client-cert")>>
                     IN /\ google <=> client.channel.credentials = "google"
                        /\ TypedFor("access-token") = client.channel.token[1]
                        /\ google \/ certificates = client.channel.pems
                        /\ client.channel.target = TargetOf[TypedFor("remote")]
     BY DEF CredentialsAreUsedOrRefused
<1>1. /\ TypeOK /\ Entries /\ existsInSpec(WorkerPrefix \o "remote")
      /\ casRemote = configureChannel(WorkerPrefix)
  <2>1. step = "parsed" /\ existsInSpec(WorkerPrefix \o "remote") /\ options = configureChannel(WorkerPrefix)
        BY DEF RunnerInv
  <2>2. casRemote = options
        BY DEF RunnerInv, SettingsReachTheRunner
  <2>. QED  BY <2>1, <2>2 DEF ParseInv, ParseTypes, ReadInv
<1>2. /\ \A key \in Keys : casRemote[SettingOf[key]] = Setting(WorkerPrefix, key)
      /\ casRemote.useGoogleApiAuth = Flag(WorkerPrefix, "googleapi-auth")
      /\ casRemote.useGoogleApiAuth \in BOOLEAN
      /\ casRemote.serverCert = Unset /\ casRemote.clientKey = Unset /\ casRemote.clientCert = Unset
      BY <1>1, Configured
<1>3. \A key \in Keys \ {"instance", "retry-limit", "retry-delay"} :
          casRemote[SettingOf[key]] = TypedFor(key)
      BY <1>1, <1>2, SettingIsTyped
<1>4. /\ casRemote.url = TypedFor("remote")
      /\ casRemote.serverCertPath = TypedFor("server-cert")
      /\ casRemote.clientKeyPath = TypedFor("client-key")
      /\ casRemote.clientCertPath = TypedFor("client-cert")
      /\ casRemote.accessTokenPath = TypedFor("access-token")
      BY <1>3, SettingOfFacts DEF Keys
<1>5. casRemote.useGoogleApiAuth <=> TypedFor("googleapi-auth") = "true"
      BY <1>1, <1>2, FlagIsTyped
<1>6. channel # Thrown /\ client.channel = channel
      BY ClientHasChannel
<1>7. /\ channel.credentials = "google" <=> casRemote.useGoogleApiAuth
      /\ channel.token[1] = casRemote.accessTokenPath
      /\ casRemote.useGoogleApiAuth \/ channel.pems =
             <<casRemote.serverCertPath, casRemote.clientKeyPath, casRemote.clientCertPath>>
      /\ channel.target = TargetOf[casRemote.url]
      BY <1>2, <1>6, ChannelFacts
<1>. HIDE DEF client, channel
<1>. QED  BY <1>4, <1>5, <1>6, <1>7

\* The credentials typed for the worker are those of the runner's channel, or
\* no channel is made: for every command line, prefix and URL.
THEOREM CredentialsReach == ArgumentsSpec => []CredentialsAreUsedOrRefused
<1>1. ArgumentsInit => ParseInv /\ RunnerInv
      BY InitReads, InitRunner
<1>2. ParseInv => ParseTypes
      BY DEF ParseInv
<1>. QED  BY <1>1, <1>2, ParseInvStep, RunnerStep, ChannelIsTyped, PTL DEF ArgumentsSpec

=============================================================================
