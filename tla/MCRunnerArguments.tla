-------------------------- MODULE MCRunnerArguments --------------------------
(***************************************************************************)
(* Instance of RunnerArguments.  The worker has a connection with prefix   *)
(* "cas-", a repeatable option, a repeatable pair, a number with a default *)
(* and two positionals; three smaller specifications have what the first   *)
(* does not: no URL, an optional positional before a required one, and     *)
(* defaults that are refused.  A command line is any three arguments, or a *)
(* few between a URL and a positional.                                     *)
(***************************************************************************)
EXTENDS RunnerArguments

Plain == "grpc://h"
Secure == "https://h"

\* An option typed in one argument: its name and its value, Unset if it has none.
Option(text, name, value) == [text |-> text, name |-> name, value |-> value]
Options ==
    { Option("--help", "help", Unset),
      Option("--cas-remote=grpc://h", "cas-remote", Plain),
      Option("--cas-remote=https://h", "cas-remote", Secure),
      Option("--cas-remote", "cas-remote", Unset),
      Option("--cas-access-token=t", "cas-access-token", "t"),
      Option("--cas-token-reload-interval=2", "cas-token-reload-interval", "2"),
      Option("--cas-client-cert=c", "cas-client-cert", "c"),
      Option("--cas-googleapi-auth", "cas-googleapi-auth", Unset),
      Option("--cas-googleapi-auth=true", "cas-googleapi-auth", "true"),
      Option("--cas-retry-limit=x", "cas-retry-limit", "x"),
      Option("--arg", "arg", Unset), Option("--arg=c", "arg", "c"),
      Option("--platform=k=v", "platform", "k=v"),
      Option("--jobs=7x", "jobs", "7x"), Option("--jobs=x", "jobs", "x"),
      Option("--", "", Unset), Option("--other", "other", Unset),
      Option("x-help", "help", Unset) }
MCOptions == {o.text : o \in Options}
Words == {"true", "x", "cas-remote"}
Arguments == MCOptions \union Words \union {"-h", ""}
Values == {Plain, Secure, "t", "2", "c", "k=v", "7x", "4", "1000", "1", "false"}
Program == "worker"
MCTexts == Arguments \union Values \union {Program}

OptionOf(t) == CHOOSE o \in Options : o.text = t
MCStart == [t \in MCTexts |->
    CASE t = "x-help" -> "?-" [] t \in MCOptions -> "--" [] t = "-h" -> "-" [] t = "" -> "" [] OTHER -> "word"]
MCNameOf == [t \in MCTexts |-> IF t \in MCOptions THEN OptionOf(t).name ELSE ""]
MCHasAssign == [t \in MCTexts |-> IF t \in MCOptions THEN OptionOf(t).value # Unset ELSE FALSE]
MCValueOf == [t \in MCTexts |-> IF MCHasAssign[t] THEN OptionOf(t).value ELSE ""]
\* split() leaves both parts empty when there is no "=".
MCPairOf == [t \in MCTexts |-> IF t = "k=v" THEN <<"k", "v">> ELSE <<"", "">>]
MCIntOf == [t \in MCTexts |->
    IF t = "7x" THEN "7" ELSE IF t \in {"2", "4", "1000", "1"} THEN t ELSE NotANumber]
MCSchemeOf == [t \in MCTexts |-> CASE t = Plain -> "grpc://" [] t = Secure -> "https://" [] OTHER -> ""]
MCTargetOf == [t \in MCTexts |-> IF t \in {Plain, Secure} THEN "h" ELSE t]

Help == ArgumentSpec("help", "BOOL", FALSE, FALSE, Unset, FALSE)
Positional(type, required) == ArgumentSpec("", type, required, FALSE, Unset, TRUE)
WorkerSpec ==
    ConnectionSpec("cas-", TRUE) \o
    << Help,
       ArgumentSpec("arg", "STRING_ARRAY", FALSE, TRUE, Unset, TRUE),
       ArgumentSpec("platform", "STRING_PAIR_ARRAY", FALSE, TRUE, Unset, TRUE),
       ArgumentSpec("jobs", "INT", FALSE, TRUE, DefaultValue("INT", "1"), TRUE),
       Positional("STRING", TRUE), Positional("STRING", FALSE) >>
MCSpecs ==
    { WorkerSpec,
      ConnectionSpec("cas-", FALSE) \o
      <<Help, ArgumentSpec("jobs", "DOUBLE", TRUE, TRUE, Unset, TRUE),
        Positional("INT", FALSE), Positional("STRING", TRUE)>>,
      <<Help, ArgumentSpec("jobs", "INT", TRUE, TRUE, DefaultValue("INT", "1"), FALSE)>>,
      <<Help, ArgumentSpec("other", "BOOL", FALSE, FALSE, Unset, TRUE),
        ArgumentSpec("jobs", "INT", FALSE, TRUE, DefaultValue("STRING", "1"), FALSE)>> }

MCArgvs ==
    {<<>>}
    \union {<<Program>> \o s : s \in BoundedSeq(Arguments, 3)}
    \union {<<Program, url>> \o s \o <<"x">> :
               url \in {"--cas-remote=grpc://h", "--cas-remote=https://h"},
               s \in BoundedSeq(Arguments, 1) \union [1..2 -> {a \in MCOptions : MCHasAssign[a]}]
                     \union [1..3 -> {"--cas-access-token=t", "--cas-token-reload-interval=2",
                                      "--cas-googleapi-auth=true", "--arg=c"}]}

MCLowerOf == [t \in {"ERROR", "x"} |-> IF t = "ERROR" THEN "error" ELSE t]

MCRunnerArgvs ==
    {<<Argument("", "action", "x"), Argument("", "subclass", "x"), Argument("", "verbose", Unset)>>,
     <<Argument("", "log-level", "ERROR"), Argument("", "log-directory", "x"),
       Argument("", "validate-parameters", Unset)>>,
     <<Argument("", "log-level", "x")>>, <<Argument(Unset, "x", Unset)>>,
     <<Argument("", "log-directory", "t")>>,
     <<Argument("", "capabilities", Unset)>>,
     <<Argument("", "log-file", "x")>> }

=============================================================================
