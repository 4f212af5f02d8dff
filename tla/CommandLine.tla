----------------------------- MODULE CommandLine -----------------------------
(***************************************************************************)
(* CommandLine: a specification of the arguments, parse(), which reads     *)
(* options and then positional arguments, and the getters.                 *)
(*                                                                         *)
(* An argument is an opaque text.  What the code sees in a text is given   *)
(* by tables over the texts: how it starts (d_start), the option name and  *)
(* value it splits into, the pair it splits into, and the numbers that     *)
(* std::stoi() and std::stod() read at its start.  A value is a sequence   *)
(* of items: one item for a scalar, one per occurrence for an array.       *)
(* The build is C++14: the getters read a field of a struct, untyped.      *)
(***************************************************************************)
EXTENDS Naturals, Sequences, SequencesExt, FiniteSetsExt, Functions

CONSTANTS Texts,          \* the texts that are arguments or parts of one
          Start,          \* Start[t]: what the first two characters of t are
          NameOf, ValueOf, HasAssign,   \* the parts of t[2..] around its first "="
          PairOf,         \* the parts of t around its first "=", as split() leaves them
          IntOf, DoubleOf,              \* the number read, or NotANumber
          NotANumber, Unset,
          Specs,          \* the specifications that the programs use
          Argvs           \* the argv that they are started with, argv[0] included

DataTypes == {"STRING", "INT", "DOUBLE", "BOOL", "STRING_ARRAY", "STRING_PAIR_ARRAY"}
ArrayTypes == {"STRING_ARRAY", "STRING_PAIR_ARRAY"}

\* An ArgumentSpec; a default value is Unset or has a type and an item.  A
\* variable bound to the argument is the index of the argument in "bound".
ArgumentSpec(name, type, required, withArg, default, bindable) ==
    [name |-> name, type |-> type, required |-> required, withArg |-> withArg,
     default |-> default, bindable |-> bindable]
DefaultValue(type, text) == [type |-> type, item |-> <<text>>]
isPositional(s) == s.name = ""
hasDefaultValue(s) == s.default # Unset

DefaultValues == [type : DataTypes, item : [1..1 -> Texts]]
ArgumentSpecs ==
    [name : STRING, type : DataTypes, required : BOOLEAN, withArg : BOOLEAN,
     default : {Unset} \union DefaultValues, bindable : BOOLEAN]

ASSUME TextAssumption ==
    /\ {"", "true", "false"} \subseteq Texts
    /\ Unset \notin Texts \union DefaultValues
    /\ HasAssign \in [Texts -> BOOLEAN]
    /\ ValueOf \in [Texts -> Texts]
    /\ Start \in [Texts -> {"--", "-", "?-", "", "word"}]
    /\ Argvs \subseteq Seq(Texts)

\* An option is specified once.
ASSUME SpecAssumption ==
    /\ Specs \subseteq Seq(ArgumentSpecs)
    /\ \A s \in Specs : \A i, j \in 1..Len(s) :
           s[i].name = s[j].name /\ ~ isPositional(s[i]) => i = j

VARIABLES spec,             \* d_spec
          rawArgv,          \* d_rawArgv, argv[0] erased
          argIdx,           \* d_argIdx, from 1
          parsedArgs,       \* d_parsedArgs: by name, the type and the items
          positionalIdx,    \* d_idxLastPositionalFound, from 1
          bound,            \* the bound variables, by the index of their specification
          step              \* where parse() is, or its result

vars == <<spec, rawArgv, argIdx, parsedArgs, positionalIdx, bound, step>>

Init ==
    /\ spec \in Specs
    /\ rawArgv \in Argvs
    /\ argIdx = 1
    /\ parsedArgs = <<>>
    /\ positionalIdx = 1
    /\ bound = [i \in 1..Len(spec) |-> <<>>]
    /\ step = "parse"

Return(result) ==
    /\ step' = result
    /\ UNCHANGED <<spec, rawArgv, argIdx, parsedArgs, positionalIdx, bound>>

exists(name) == name \in DOMAIN parsedArgs

\* The index of the first specification with this name, or 0.  That of a
\* positional is found under the empty name.
FirstNamed(specification, name) == SelectInSeq(specification, LAMBDA s : s.name = name)
findOptionSpecByName(name) == FirstNamed(spec, name)
existsInSpec(text) == findOptionSpecByName(text) # 0

validateRequiredArgs ==
    \A i \in 1..Len(spec) :
        spec[i].required /\ ~ isPositional(spec[i]) => exists(spec[i].name)

\* parse(): argv[0] is the name of the process.
Parse ==
    /\ step = "parse"
    /\ IF rawArgv = <<>>
       THEN Return("refused")
       ELSE /\ rawArgv' = Tail(rawArgv)
            /\ step' = "options"
            /\ UNCHANGED <<spec, argIdx, parsedArgs, positionalIdx, bound>>

-----------------------------------------------------------------------------
(* buildArgumentValue(): the item that a text is for a type, or Unset when *)
(* the conversion throws.                                                  *)

Item(s, text) ==
    CASE s.type \in {"STRING", "STRING_ARRAY"} -> <<text>>
      [] s.type = "INT" -> IF IntOf[text] = NotANumber THEN Unset ELSE <<IntOf[text]>>
      [] s.type = "DOUBLE" -> IF DoubleOf[text] = NotANumber THEN Unset ELSE <<DoubleOf[text]>>
      [] s.type = "BOOL" ->
             IF text = "true" \/ (text = "" /\ ~ s.withArg) THEN <<"true">> ELSE <<"false">>
      [] s.type = "STRING_PAIR_ARRAY" -> PairOf[text]

\* The bound variable of an array grows, one of a scalar is overwritten.
Bind(i, item) ==
    IF ~ spec[i].bindable THEN bound
    ELSE [bound EXCEPT ![i] = IF spec[i].type \in ArrayTypes THEN Append(@, item) ELSE <<item>>]

\* Mutant: a repeated array option replaces the values before it.
Store_ArrayOverwritten(name, type, item) ==
    [n \in DOMAIN parsedArgs \union {name} |->
        IF n = name THEN [type |-> type, items |-> <<item>>] ELSE parsedArgs[n]]

\* An entry is made by emplace(), which keeps the one that is there; an array
\* has by then been extended in place.
Store(name, type, item) ==
    IF ~ exists(name)
    THEN [n \in DOMAIN parsedArgs \union {name} |->
             IF n = name THEN [type |-> type, items |-> <<item>>] ELSE parsedArgs[n]]
    ELSE IF type \in ArrayTypes
    THEN [parsedArgs EXCEPT ![name] = [type |-> @.type, items |-> Append(@.items, item)]]
    ELSE parsedArgs

-----------------------------------------------------------------------------
(* parseOptions(), an argument at a time.                                  *)

Arg == rawArgv[argIdx]
AtOption == step = "options" /\ argIdx <= Len(rawArgv)
AnOption(text) == Start[text] = "--"

RefuseShortOption == AtOption /\ Start[Arg] = "-" /\ Return("refused")

\* An empty text has no second character: what is read there may be a "-",
\* and then substr(2) throws.
EmptyArgument == AtOption /\ Start[Arg] = "" /\ Return("thrown")

\* A text that starts with neither "-" nor "?-", and an empty one when what
\* lies behind it is not a "-", ends the options.
readyForPositionals ==
    /\ AtOption
    /\ Start[Arg] \in {"word", ""}
    /\ Return(IF existsInSpec(Arg) \/ ~ validateRequiredArgs THEN "refused" ELSE "checks")

\* The value of the option at Arg, or Unset if it has none and needs one.
OptionValue(i) ==
    IF HasAssign[Arg] THEN ValueOf[Arg]
    ELSE IF ~ spec[i].withArg THEN ""
    ELSE IF argIdx = Len(rawArgv) \/ AnOption(rawArgv[argIdx + 1]) THEN Unset
    ELSE rawArgv[argIdx + 1]

\* Any text whose second character is "-" is read as an option, whatever its
\* first character is.
ParseOption ==
    /\ AtOption
    /\ Start[Arg] \in {"--", "?-"}
    /\ LET i == findOptionSpecByName(NameOf[Arg])
           value == OptionValue(i)
       IN IF i = 0 \/ value = Unset THEN Return("refused")
          ELSE IF Item(spec[i], value) = Unset THEN Return("refused")
          ELSE /\ parsedArgs' = Store(NameOf[Arg], spec[i].type, Item(spec[i], value))
               /\ bound' = Bind(i, Item(spec[i], value))
               /\ argIdx' = argIdx + (IF spec[i].withArg /\ ~ HasAssign[Arg] THEN 2 ELSE 1)
               /\ UNCHANGED <<spec, rawArgv, positionalIdx, step>>

EndOfOptions == step = "options" /\ argIdx > Len(rawArgv) /\ Return("checks")

-----------------------------------------------------------------------------
(* The rest of parse(): the checks, the defaults and the positionals.      *)

HelpOnly == DOMAIN parsedArgs = {"help"}

CheckOptions ==
    /\ step = "checks"
    /\ Return(IF HelpOnly THEN "help"
              ELSE IF validateRequiredArgs THEN "defaults" ELSE "refused")

\* Specifications that applyDefaultValues() refuses.
Refused(s) ==
    /\ ~ isPositional(s)
    /\ hasDefaultValue(s)
    /\ s.required \/ (~ exists(s.name) /\ s.type # s.default.type)

\* The defaults that are applied before the first refused specification; an
\* option on the command line keeps its values, and no bound variable is set.
DefaultsBefore(n) ==
    {i \in 1..(n - 1) : ~ isPositional(spec[i]) /\ hasDefaultValue(spec[i]) /\ ~ exists(spec[i].name)}

applyDefaultValues ==
    /\ step = "defaults"
    /\ LET bad == {i \in 1..Len(spec) : Refused(spec[i])}
           applied == DefaultsBefore(Min(bad \union {Len(spec) + 1}))
       IN /\ parsedArgs' = [n \in DOMAIN parsedArgs \union {spec[i].name : i \in applied} |->
                                 IF exists(n) THEN parsedArgs[n]
                                 ELSE LET s == spec[Min({i \in applied : spec[i].name = n})]
                                      IN [type |-> s.type, items |-> <<s.default.item>>]]
          /\ step' = IF bad = {} THEN "count" ELSE "refused"
    /\ UNCHANGED <<spec, rawArgv, argIdx, positionalIdx, bound>>

Positionals == {i \in 1..Len(spec) : isPositional(spec[i])}
RequiredPositionals == {i \in Positionals : spec[i].required}

\* Mutant: the optional positionals are counted too.
CountPositionals_OptionalToo ==
    /\ step = "count"
    /\ Return(IF Len(rawArgv) < argIdx - 1 + Cardinality(Positionals)
              THEN "refused" ELSE "positionals")

\* The rest of argv must be long enough for the required positionals.
CountPositionals ==
    /\ step = "count"
    /\ Return(IF Len(rawArgv) < argIdx - 1 + Cardinality(RequiredPositionals)
              THEN "refused" ELSE "positionals")

\* parsePositionals(): each argument, an option among them too, goes to the
\* next positional; one too many is only warned about.
ParsePositional ==
    /\ step = "positionals" /\ argIdx <= Len(rawArgv)
    /\ LET left == {i \in Positionals : i >= positionalIdx}
           i == Min(left)
       IN IF left = {}
          THEN /\ argIdx' = argIdx + 1
               /\ positionalIdx' = Len(spec) + 1
               /\ UNCHANGED <<bound, step>>
          ELSE /\ positionalIdx' = i + 1
               /\ IF Item(spec[i], Arg) = Unset
                  THEN step' = "refused" /\ UNCHANGED <<argIdx, bound>>
                  ELSE /\ bound' = Bind(i, Item(spec[i], Arg))
                       /\ argIdx' = argIdx + 1
                       /\ UNCHANGED step
    /\ UNCHANGED <<spec, rawArgv, parsedArgs>>

EndOfPositionals == step = "positionals" /\ argIdx > Len(rawArgv) /\ Return("parsed")

ParseStep ==
    \/ Parse \/ RefuseShortOption \/ EmptyArgument \/ readyForPositionals \/ ParseOption
    \/ EndOfOptions \/ CheckOptions \/ applyDefaultValues \/ CountPositionals
    \/ ParsePositional \/ EndOfPositionals

-----------------------------------------------------------------------------
(* The getters.  Without a value to fall back on, a missing name throws; a *)
(* name of another type gives the empty value of the field that is read.   *)

Empty(type) ==
    CASE type = "STRING" -> << <<"">> >>
      [] type \in {"INT", "DOUBLE"} -> << <<"0">> >>
      [] type \in ArrayTypes -> <<>>
      [] OTHER -> Unset      \* d_bool is not initialised
Get(name, type, fallback) ==
    IF ~ exists(name) THEN fallback
    ELSE IF parsedArgs[name].type = type THEN parsedArgs[name].items ELSE Empty(type)
getString(name, fallback) == Get(name, "STRING", fallback)
getBool(name, fallback) == Get(name, "BOOL", fallback)

-----------------------------------------------------------------------------
(* What was typed, read off a specification s and the whole of argv.       *)

\* The option at k takes the argument after it.
TakesNext(s, args, k) ==
    /\ AnOption(args[k]) /\ ~ HasAssign[args[k]]
    /\ \E i \in 1..Len(s) : i = FirstNamed(s, NameOf[args[k]]) /\ s[i].withArg
\* Whether an argument stands where an option may, is the value of the option
\* before it, or belongs to the rest, behind the first argument that is no option.
Reading(s, args) ==
    LET reading[k \in 1..Len(args)] ==
            LET before == reading[k - 1]
            IN IF k = 1 THEN "option"
               ELSE IF before = "value" THEN "option"
               ELSE IF before = "rest" \/ ~ AnOption(args[k - 1]) THEN "rest"
               ELSE IF TakesNext(s, args, k - 1) THEN "value" ELSE "option"
    IN reading
Places(s, args) ==
    LET reading == Reading(s, args) IN {k \in 1..Len(args) : reading[k] = "option"}
OptionsTyped(s, args) == {k \in Places(s, args) : AnOption(args[k])}
PositionalsFrom(s, args) ==
    Min({k \in Places(s, args) : ~ AnOption(args[k])} \union {Len(args) + 1})
TextTyped(s, args, k) ==
    IF HasAssign[args[k]] THEN ValueOf[args[k]]
    ELSE IF TakesNext(s, args, k) THEN args[k + 1] ELSE ""

\* The items typed for a specification, in order: the options of its name,
\* and for the n-th positional the n-th argument after the options.
TypedAt(s, args, i) == {k \in OptionsTyped(s, args) : i = FirstNamed(s, NameOf[args[k]])}
ItemsUpTo(s, args, i) ==
    LET places == TypedAt(s, args, i)
        upTo[k \in 0..Len(args)] ==
            IF k = 0 THEN <<>>
            ELSE IF k \in places
            THEN Append(upTo[k - 1], Item(s[i], TextTyped(s, args, k)))
            ELSE upTo[k - 1]
    IN upTo
ItemsTyped(s, args, i) == ItemsUpTo(s, args, i)[Len(args)]
PositionalsBefore(s, i) == {j \in 1..Len(s) : j < i /\ isPositional(s[j])}
PositionalTyped(s, args, i) ==
    LET k == PositionalsFrom(s, args) + Cardinality(PositionalsBefore(s, i))
    IN IF isPositional(s[i]) /\ k <= Len(args) THEN <<Item(s[i], args[k])>> ELSE <<>>

\* No argument is misread as an option, or not read at all.
Readable == \A k \in 1..Len(rawArgv) : Start[rawArgv[k]] \notin {"?-", ""}

\* After a successful parse() a getter returns what was typed for the option:
\* every value of an array in the order typed, the first of a scalar, else the
\* default.  A bound variable has every value, or the last, and no default: it
\* differs from the getter when a scalar option is repeated.  All required
\* options were typed, and all required positionals unless optional ones are
\* specified before them.
ValuesAreAsTyped ==
    step = "parsed" /\ Readable =>
        \A i \in 1..Len(spec) :
            LET typed == ItemsTyped(spec, rawArgv, i)
                first == IF typed = <<>> THEN typed ELSE <<Head(typed)>>
                all == typed \o PositionalTyped(spec, rawArgv, i)
                array == spec[i].type \in ArrayTypes
            IN /\ ~ isPositional(spec[i]) =>
                      Get(spec[i].name, spec[i].type, <<>>)
                          = IF typed # <<>> THEN (IF array THEN typed ELSE first)
                            ELSE IF hasDefaultValue(spec[i]) THEN <<spec[i].default.item>>
                            ELSE <<>>
               /\ spec[i].bindable => bound[i] = IF array \/ all = <<>> THEN all ELSE <<Last(all)>>
               /\ spec[i].required /\ ~ isPositional(spec[i]) => typed # <<>>
               /\ spec[i].required /\ isPositional(spec[i]) =>
                      \/ PositionalTyped(spec, rawArgv, i) # <<>>
                      \/ \E j \in Positionals : j < i /\ ~ spec[j].required

\* parse() refuses a command line only when it or the specification is at
\* fault: a short option, an unknown one, one without its argument, text that
\* is no number, a required argument that is not there, an option without its
\* dashes, or a default that the specification may not have.
RefusedForAReason ==
    step = "refused" /\ Readable =>
        LET typed(i) == ItemsTyped(spec, rawArgv, i)
            positional(i) == PositionalTyped(spec, rawArgv, i)
        IN \/ rawArgv = <<>>
           \/ \E k \in Places(spec, rawArgv) : Start[rawArgv[k]] = "-"
           \/ \E k \in OptionsTyped(spec, rawArgv) :
                  \/ \A i \in 1..Len(spec) : spec[i].name # NameOf[rawArgv[k]]
                  \/ /\ TakesNext(spec, rawArgv, k)
                     /\ k = Len(rawArgv) \/ AnOption(rawArgv[k + 1])
           \/ \E i \in 1..Len(spec) : Unset \in Range(typed(i) \o positional(i))
           \/ \E k \in Places(spec, rawArgv), i \in 1..Len(spec) : rawArgv[k] = spec[i].name
           \/ \E i \in 1..Len(spec) :
                  \/ spec[i].required /\ ~ isPositional(spec[i]) /\ typed(i) = <<>>
                  \/ spec[i].required /\ isPositional(spec[i]) /\ positional(i) = <<>>
                  \/ /\ hasDefaultValue(spec[i])
                     /\ spec[i].required \/ spec[i].type # spec[i].default.type

=============================================================================
