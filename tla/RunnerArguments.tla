--------------------------- MODULE RunnerArguments ---------------------------
(***************************************************************************)
(* A worker and its runner: the worker's command line is parsed into       *)
(* ConnectionOptions, putArgs() writes them as arguments of the runner,    *)
(* among arguments of its own, and Runner::parseArguments() reads those.   *)
(* Both then make a Client.  The prefix is what parseArg() and putArgs()   *)
(* are called with: none in the runner, one in a program that has several  *)
(* connections.                                                            *)
(***************************************************************************)
EXTENDS ConnectionOptions

CONSTANTS WorkerPrefix,     \* the prefix of the worker's options
          ReadPrefixes,     \* the prefixes that are passed, "" for none
          RunnerArgvs,      \* what the worker passes besides the connection
          LogLevels,        \* stringToLogLevelMap()
          LowerOf,          \* LowerOf[text]: the text in lower case
          Directories,      \* the directories there are
          SubclassKeys      \* the keys that the subclass's parseArg() handles

\* A program with the worker's connection specifies all of its options.
ASSUME WorkerAssumption ==
    \A s \in Specs :
        (\E i \in 1..Len(s) : s[i].name = WorkerPrefix \o "remote") =>
            \E required \in BOOLEAN :
                \A option \in ToSet(ConnectionSpec(WorkerPrefix, required)) :
                    option.name # "" /\ option \in ToSet(s)

\* The other arguments that it passes are not about a connection, nor does the
\* subclass read an option that is.
ASSUME RunnerAssumption ==
    /\ SubclassKeys \cap (DOMAIN SettingOf \union {"googleapi-auth"}) = {}
    /\ \A own \in RunnerArgvs :
           /\ own \in Seq(ToSet(own))
           /\ \A arg \in ToSet(own), prefix \in ReadPrefixes : ~ Handled(arg, prefix)

VARIABLES options,          \* the worker's ConnectionOptions
          readPrefix,       \* the prefix that was passed
          argv,             \* what is left of the runner's arguments
          casRemote,        \* d_casRemote
          runner,           \* the other members that parseArguments() sets
          unreadable, googleToken,   \* files that cannot be read; credentials are there
          stage             \* "worker", "runner", or how the runner's parsing ended

argvars == <<options, readPrefix, argv, casRemote, runner, unreadable, googleToken, stage>>
allvars == <<vars, argvars>>

RunnerDefaults ==
    [inputPath |-> "", outputPath |-> "", stagePath |-> "", logLevel |-> "info", logDirectory |-> "",
     stdoutFile |-> "", stderrFile |-> "", skipCapture |-> FALSE, useLocalcas |-> TRUE,
     validateOnly |-> FALSE, debug |-> FALSE]

ArgumentsInit ==
    /\ Init
    /\ options = Defaults
    /\ readPrefix = ""
    /\ argv = <<>>
    /\ casRemote = Defaults
    /\ runner = RunnerDefaults
    /\ unreadable = {}
    /\ googleToken = TRUE
    /\ stage = "worker"

WorkerParses == stage = "worker" /\ ParseStep /\ UNCHANGED argvars

\* A program with such a connection starts a runner; its own arguments come first
\* or last.  What the files and Google's credentials are matters only from here.
StartRunner ==
    /\ stage = "worker"
    /\ step = "parsed"
    /\ existsInSpec(WorkerPrefix \o "remote")
    /\ options' = configureChannel(WorkerPrefix)
    /\ readPrefix' \in ReadPrefixes
    /\ \E own \in RunnerArgvs :
           LET put == putArgs(options', readPrefix')
           IN argv' \in {own \o put, put \o own}
    /\ unreadable' \in {{}, {options'.accessTokenPath} \ {Unset}}
    /\ googleToken' \in (IF options'.useGoogleApiAuth THEN BOOLEAN ELSE {TRUE})
    /\ stage' = "runner"
    /\ UNCHANGED <<vars, casRemote, runner>>

-----------------------------------------------------------------------------
(* Runner::parseArguments().                                               *)

OwnPaths == [k \in {"action", "action-result", "workspace-path", "stdout-file", "stderr-file"} |->
    CASE k = "action" -> "inputPath"
      [] k = "action-result" -> "outputPath"
      [] k = "workspace-path" -> "stagePath"
      [] k = "stdout-file" -> "stdoutFile"
      [] k = "stderr-file" -> "stderrFile"]
OwnFlags == [k \in {"use-localcas", "disable-localcas", "no-logs-capture", "verbose",
                    "validate-parameters"} |->
    CASE k = "use-localcas" -> <<"useLocalcas", TRUE>>
      [] k = "disable-localcas" -> <<"useLocalcas", FALSE>>
      [] k = "no-logs-capture" -> <<"skipCapture", TRUE>>
      [] k = "verbose" -> <<"debug", TRUE>>
      [] k = "validate-parameters" -> <<"validateOnly", TRUE>>]

AtArgument == stage = "runner" /\ argv # <<>>
\* Neither the subclass's parseArg() nor that of ConnectionOptions takes it.
Ours(arg) == arg.key \notin SubclassKeys /\ ~ Handled(arg, readPrefix)
Invalid(arg) ==
    /\ Ours(arg)
    /\ \/ arg.prefix # ""       \* an unknown option, or one without dashes
       \/ arg.value = Unset /\ arg.key \notin DOMAIN OwnFlags \union {"help", "capabilities"}
       \/ arg.value # Unset /\ arg.key \notin DOMAIN OwnPaths \union {"log-level", "log-directory"}
       \/ arg.key = "log-level" /\ LowerOf[arg.value] \notin LogLevels
       \/ arg.key = "log-directory" /\ arg.value \notin Directories

ParseArguments_Connection ==
    /\ AtArgument
    /\ Head(argv).key \notin SubclassKeys
    /\ Handled(Head(argv), readPrefix)
    /\ casRemote' = parseArg(casRemote, Head(argv))
    /\ argv' = Tail(argv)
    /\ UNCHANGED <<vars, options, readPrefix, runner, unreadable, googleToken, stage>>

\* An argument of the subclass or of the runner.
ParseArguments_Own ==
    /\ AtArgument
    /\ LET arg == Head(argv)
       IN /\ \/ arg.key \in SubclassKeys
             \/ Ours(arg) /\ ~ Invalid(arg) /\ arg.key \notin {"help", "capabilities"}
          /\ runner' = CASE arg.key \in SubclassKeys -> runner
                         [] arg.key \in DOMAIN OwnPaths ->
                                [runner EXCEPT ![OwnPaths[arg.key]] = arg.value]
                         [] arg.key = "log-level" -> [runner EXCEPT !.logLevel = LowerOf[arg.value]]
                         [] arg.key = "log-directory" -> [runner EXCEPT !.logDirectory = arg.value]
                         [] OTHER -> [runner EXCEPT ![OwnFlags[arg.key][1]] = OwnFlags[arg.key][2]]
    /\ argv' = Tail(argv)
    /\ UNCHANGED <<vars, options, readPrefix, casRemote, unreadable, googleToken, stage>>

End(outcome) ==
    /\ stage' = outcome
    /\ UNCHANGED <<vars, options, readPrefix, argv, casRemote, runner, unreadable, googleToken>>

\* --help and --capabilities print and exit(0).
ParseArguments_Exit ==
    /\ AtArgument
    /\ Ours(Head(argv)) /\ Head(argv).value = Unset /\ Head(argv).key \in {"help", "capabilities"}
    /\ End("exit")

ParseArguments_Invalid == AtArgument /\ Invalid(Head(argv)) /\ End("refused")

ParseArguments_End ==
    /\ stage = "runner"
    /\ argv = <<>>
    /\ End(IF casRemote.url = Unset THEN "refused"
           ELSE IF runner.validateOnly THEN "valid" ELSE "accepted")

ArgumentsNext ==
    \/ WorkerParses \/ StartRunner
    \/ ParseArguments_Connection \/ ParseArguments_Own \/ ParseArguments_Exit
    \/ ParseArguments_Invalid \/ ParseArguments_End

ArgumentsSpec == ArgumentsInit /\ [][ArgumentsNext]_allvars

-----------------------------------------------------------------------------
\* putArgs() writes the flag for Google's credentials without the prefix.
FlagLosesPrefix == readPrefix # "" /\ options.useGoogleApiAuth

\* The runner's connection is the worker's: its options are equal when all the
\* arguments were read, and only the worker's own arguments, or a connection that
\* has no URL, make the runner refuse.  "If a prefix is passed, it's added to the
\* name of each option as in parseArg" (putArgs()) does not hold of one flag, which
\* is then refused.
SettingsReachTheRunner ==
    /\ stage \in {"accepted", "valid"} => casRemote = options
    /\ stage = "refused" /\ ~ FlagLosesPrefix =>
          \/ options.url = Unset
          \/ argv # <<>> /\ Head(argv) \notin ToSet(putArgs(options, readPrefix))

\* What was typed for the worker's option of this key, first and as text, or Unset.
TypedFor(key) ==
    LET i == Min({j \in 1..Len(spec) : spec[j].name = WorkerPrefix \o key})
        typed == ItemsTyped(spec, rawArgv, i)
    IN IF typed = <<>> THEN Unset ELSE typed[1][1]

\* Credentials typed for the worker are those of the runner's channel, or there
\* is no channel: they are never dropped because the URL is a plain one, on the
\* way between the programs or for another kind of credentials.  The exception
\* is that Google's credentials silently replace the certificates and the key.
CredentialsAreUsedOrRefused ==
    stage \in {"accepted", "valid"} /\ Readable =>
        LET client == ClientInit(casRemote, unreadable, googleToken)
            google == TypedFor("googleapi-auth") = "true"
            certificates == <<TypedFor("server-cert"), TypedFor("client-key"), TypedFor("client-cert")>>
        IN client # Thrown =>
               /\ google <=> client.channel.credentials = "google"
               /\ TypedFor("access-token") = client.channel.token[1]
               /\ google \/ certificates = client.channel.pems
               /\ client.channel.target = TargetOf[TypedFor("remote")]

=============================================================================
