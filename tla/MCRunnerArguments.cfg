CONSTANTS
  Texts <- MCTexts
  Start <- MCStart
  NameOf <- MCNameOf
  ValueOf <- MCValueOf
  HasAssign <- MCHasAssign
  PairOf <- MCPairOf
  IntOf <- MCIntOf
  DoubleOf <- MCIntOf
  NotANumber = NotANumber
  Unset = Unset
  Specs <- MCSpecs
  Argvs <- MCArgvs
  SchemeOf <- MCSchemeOf
  TargetOf <- MCTargetOf
  Intervals = {"2"}
  Thrown = Thrown
  WorkerPrefix = "cas-"
  ReadPrefixes = {"", "cas-"}
  RunnerArgvs <- MCRunnerArgvs
  LogLevels = {"trace", "debug", "info", "warning", "error"}
  LowerOf <- MCLowerOf
  Directories = {"x"}
  SubclassKeys = {"subclass"}
SPECIFICATION ArgumentsSpec
INVARIANT ValuesAreAsTyped
INVARIANT RefusedForAReason
INVARIANT SettingsReachTheRunner
INVARIANT CredentialsAreUsedOrRefused
CHECK_DEADLOCK FALSE
