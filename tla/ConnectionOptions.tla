-------------------------- MODULE ConnectionOptions --------------------------
(***************************************************************************)
(* ConnectionOptions: the settings of a connection, read from arguments by *)
(* parseArg(), written as arguments by putArgs() and turned into a channel *)
(* by createChannel(); and ConnectionOptionsCommandLine, which gives       *)
(* CommandLine a specification of the same settings and reads them back.   *)
(* An argument of parseArg() is a record of its parts: the prefix and the  *)
(* key between "--" and "=", and the value, which is Unset without a "=".  *)
(* The prefix is Unset in an argument without "--".                        *)
(***************************************************************************)
EXTENDS CommandLine

CONSTANTS SchemeOf,       \* SchemeOf[url]: the prefix that createChannel() recognises, or ""
          TargetOf,       \* TargetOf[url]: the text behind it
          Intervals,      \* the reload intervals that ReloadTokenAuthenticator can read
          Thrown          \* an exception instead of a result

Schemes == [plain |-> {"http://", "grpc://", "unix:"}, secure |-> {"https://", "grpcs://"}]

Defaults ==
    [url |-> Unset, instanceName |-> Unset,
     serverCert |-> Unset, serverCertPath |-> Unset,
     clientKey |-> Unset, clientKeyPath |-> Unset,
     clientCert |-> Unset, clientCertPath |-> Unset,
     accessTokenPath |-> Unset, tokenReloadInterval |-> Unset,
     useGoogleApiAuth |-> FALSE, loadBalancingPolicy |-> Unset,
     retryLimit |-> "4", retryDelay |-> "1000"]

ASSUME DefaultsAssumption == {Defaults.retryLimit, Defaults.retryDelay} \subseteq Texts

\* The setting that each key of parseArg() and configureChannel() is for.
SettingOf ==
    [key \in {"remote", "instance", "server-cert", "client-key", "client-cert", "access-token",
              "token-reload-interval", "retry-limit", "retry-delay", "load-balancing-policy"} |->
        CASE key = "remote" -> "url"
          [] key = "instance" -> "instanceName"
          [] key = "server-cert" -> "serverCertPath"
          [] key = "client-key" -> "clientKeyPath"
          [] key = "client-cert" -> "clientCertPath"
          [] key = "access-token" -> "accessTokenPath"
          [] key = "token-reload-interval" -> "tokenReloadInterval"
          [] key = "retry-limit" -> "retryLimit"
          [] key = "retry-delay" -> "retryDelay"
          [] key = "load-balancing-policy" -> "loadBalancingPolicy"]

Argument(prefix, key, value) == [prefix |-> prefix, key |-> key, value |-> value]

\* An argument is handled if it has the prefix and one of the keys behind it.
Handled(arg, prefix) ==
    /\ arg.prefix = prefix
    /\ IF arg.value = Unset THEN arg.key = "googleapi-auth" ELSE arg.key \in DOMAIN SettingOf

parseArg(options, arg) ==
    IF arg.value = Unset THEN [options EXCEPT !.useGoogleApiAuth = TRUE]
    ELSE [options EXCEPT ![SettingOf[arg.key]] = arg.value]

\* Mutant: the reload interval is not passed on.
PutArg_NoInterval(options, prefix, key) ==
    IF options[SettingOf[key]] = Unset \/ key = "token-reload-interval" THEN <<>>
    ELSE <<Argument(prefix, key, options[SettingOf[key]])>>

\* A setting that is set becomes an argument.
PutArg(options, prefix, key) ==
    IF options[SettingOf[key]] = Unset THEN <<>>
    ELSE <<Argument(prefix, key, options[SettingOf[key]])>>

\* The flag never has the prefix.
putArgs(options, prefix) ==
    LET put(key) == PutArg(options, prefix, key)
    IN put("remote") \o put("instance") \o put("server-cert") \o put("client-key")
       \o put("client-cert") \o put("access-token") \o put("token-reload-interval")
       \o put("retry-limit") \o put("retry-delay")
       \o (IF options.useGoogleApiAuth THEN <<Argument("", "googleapi-auth", Unset)>> ELSE <<>>)
       \o put("load-balancing-policy")

-----------------------------------------------------------------------------
(* createChannel(): what the channel is made of, or Thrown.                *)

\* Mutant: an access token is not among the settings that need a secure channel.
SecureSettings_NoToken ==
    {"serverCert", "serverCertPath", "clientKey", "clientKeyPath", "clientCert", "clientCertPath"}

SecureSettings ==
    {"serverCert", "serverCertPath", "clientKey", "clientKeyPath", "clientCert", "clientCertPath",
     "accessTokenPath"}

\* The text itself if it is given, else the contents of the file.
Pem(options, text, path) == IF options[text] # Unset THEN options[text] ELSE options[path]
PemsOf(options) ==
    <<Pem(options, "serverCert", "serverCertPath"), Pem(options, "clientKey", "clientKeyPath"),
      Pem(options, "clientCert", "clientCertPath")>>

\* The files that getFileContents() has to read.
FilesRead(options) ==
    {options[p[2]] : p \in {q \in {<<"serverCert", "serverCertPath">>, <<"clientKey", "clientKeyPath">>,
                                   <<"clientCert", "clientCertPath">>} : options[q[1]] = Unset}}
    \ {Unset}

createChannel(options, unreadable, googleToken) ==
    LET scheme == SchemeOf[options.url]
        channel(credentials, pems, token) ==
            [target |-> TargetOf[options.url], credentials |-> credentials, pems |-> pems,
             token |-> token, loadBalancingPolicy |-> options.loadBalancingPolicy]
        none == <<Unset, Unset, Unset>>
    IN CASE scheme \in Schemes.secure ->
              IF \/ FilesRead(options) \cap unreadable # {}
                 \/ options.accessTokenPath # Unset /\ options.useGoogleApiAuth
                 \/ options.useGoogleApiAuth /\ ~ googleToken
                 \* ReloadTokenAuthenticator reads the interval and the token at once.
                 \/ /\ options.accessTokenPath # Unset
                    /\ \/ options.tokenReloadInterval \notin Intervals \union {Unset}
                       \/ options.accessTokenPath \in unreadable
              THEN Thrown
              ELSE IF options.useGoogleApiAuth THEN channel("google", none, <<Unset, Unset>>)
              ELSE channel("ssl", PemsOf(options),
                           <<options.accessTokenPath,
                             IF options.accessTokenPath = Unset THEN Unset
                             ELSE options.tokenReloadInterval>>)
         [] scheme \in Schemes.plain ->
              IF options.useGoogleApiAuth \/ \E f \in SecureSettings : options[f] # Unset
              THEN Thrown
              ELSE channel("insecure", none, <<Unset, Unset>>)
         [] OTHER -> Thrown

\* Client::init(): the channel, and the retry settings read as numbers.
ClientInit(options, unreadable, googleToken) ==
    LET channel == createChannel(options, unreadable, googleToken)
    IN IF \/ channel = Thrown
          \/ IntOf[options.retryLimit] = NotANumber
          \/ IntOf[options.retryDelay] = NotANumber
       THEN Thrown
       ELSE [channel |-> channel, grpcRetryLimit |-> IntOf[options.retryLimit],
             grpcRetryDelay |-> IntOf[options.retryDelay],
             instanceName |-> IF options.instanceName = Unset THEN "" ELSE options.instanceName]

-----------------------------------------------------------------------------
(* ConnectionOptionsCommandLine.                                           *)

\* Each is an option with an argument, the flag too; the connection is required
\* or not.
ConnectionSpec(prefix, connectionRequired) ==
    LET option(key, type, required, default) ==
            ArgumentSpec(prefix \o key, type, required, TRUE, default, FALSE)
        string(key) == option(key, "STRING", FALSE, Unset)
    IN << option("remote", "STRING", connectionRequired, Unset),
          option("instance", "STRING", FALSE, DefaultValue("STRING", "")),
          string("server-cert"), string("client-key"), string("client-cert"),
          string("access-token"), string("token-reload-interval"),
          option("googleapi-auth", "BOOL", FALSE, DefaultValue("BOOL", "false")),
          option("retry-limit", "STRING", FALSE, DefaultValue("STRING", "4")),
          option("retry-delay", "STRING", FALSE, DefaultValue("STRING", "1000")),
          string("load-balancing-policy") >>

\* A setting that is not on the command line and has no default becomes null.
Setting(prefix, key) ==
    IF exists(prefix \o key) THEN getString(prefix \o key, Unset)[1][1] ELSE Unset
Flag(prefix, key) ==
    IF exists(prefix \o key) THEN getBool(prefix \o key, Unset) = << <<"true">> >> ELSE FALSE
configureChannel(prefix) ==
    [Defaults EXCEPT !.url = Setting(prefix, "remote"),
                     !.instanceName = Setting(prefix, "instance"),
                     !.serverCertPath = Setting(prefix, "server-cert"),
                     !.clientKeyPath = Setting(prefix, "client-key"),
                     !.clientCertPath = Setting(prefix, "client-cert"),
                     !.accessTokenPath = Setting(prefix, "access-token"),
                     !.tokenReloadInterval = Setting(prefix, "token-reload-interval"),
                     !.useGoogleApiAuth = Flag(prefix, "googleapi-auth"),
                     !.retryLimit = Setting(prefix, "retry-limit"),
                     !.retryDelay = Setting(prefix, "retry-delay"),
                     !.loadBalancingPolicy = Setting(prefix, "load-balancing-policy")]

=============================================================================
