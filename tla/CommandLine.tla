----------------------------- MODULE CommandLine -----------------------------
(***************************************************************************)
(* cmd/sqlcmd/main.go and internal/legacy/sqlcmd.go up to the connection:  *)
(* the words of the command line, the environment and the current context  *)
(* of sqlconfig become scripting variables and connection settings.  The   *)
(* library that parses flags (pflag) is external.  LegacyRun has the rest. *)
(***************************************************************************)
EXTENDS Integers, Sequences, FiniteSetsExt

CONSTANTS
  CommandLines,         \* sequences of words
  Arguments,            \* flags once they are parsed: records, "" and 0 where not given
  ProcessEnvironments,  \* values of SQLCMDSERVER, SQLCMDUSER and SQLCMDPASSWORD, "" if unset
  Contexts              \* authentication, server, user and password of the current one

ASSUME LinesAssumption == CommandLines \subseteq Seq(STRING)

VARIABLES
  step,             \* "words" and "parsed words", or "main", "parsed", "valid", "set", "refused"
  line,             \* the words
  flags,            \* what pflag makes of them: pairs of flag and value, or "error"
  args,             \* SQLCmdArguments
  given,            \* the environment at the start
  context,          \* the current context
  env,              \* the environment after initializeEnvVars
  variables,        \* Variables: server and user
  connectSettings,  \* ConnectSettings: how to log in
  console           \* a console is there, and sqlcmd is interactive

lvars == <<step, line, flags, args, given, context, env, variables, connectSettings, console>>

-----------------------------------------------------------------------------
(* Words: "-i" is the list flag, "-if" one with a value attached; -r and   *)
(* -N have an optional value, -Q a value, -b none; "f" and "1" are values. *)
Flags == {"-i", "-if", "-r", "-N", "-h", "-Q", "-b", "-?", "-help"}

IsFlag(w) == w \in Flags \cup {"--help"}

IsListFlag(w) == w \in {"-i", "-if"}

NoValue == ""

PreprocessHelpFlags(ws) ==
  [i \in 1..Len(ws) |->
     IF ws[i] = "-help" THEN "--help"
     ELSE IF ws[i] = "-h" /\ ~(i < Len(ws) /\ ws[i + 1] = "1") THEN "-?" ELSE ws[i]]

CheckDefaultValue(ws, i) ==
  IF i < Len(ws) /\ ~IsFlag(ws[i + 1]) THEN <<>>
  ELSE IF ws[i] = "-r" THEN <<"0">> ELSE IF ws[i] = "-N" THEN <<"true">> ELSE <<>>

(* Where the loop reads word i, flag is set: by a list flag, and no flag   *)
(* since.                                                                  *)
Listed(ws, i) ==
  \E j \in 1..(i - 1) : IsListFlag(ws[j]) /\ \A k \in (j + 1)..(i - 1) : ~IsFlag(ws[k])

DefaultFor(ws, i) == IF IsListFlag(ws[i]) THEN <<>> ELSE CheckDefaultValue(ws, i)

(* The words after a list flag get the flag too, but for the first, unless *)
(* the flag has a value attached.                                          *)
ConvertFirst(ws, i) ==
  (IF Listed(ws, i) /\ ~IsFlag(ws[i]) THEN <<"-i">> ELSE <<>>) \o (<<ws[i]>> \o DefaultFor(ws, i))

ConvertWord(ws, i) ==
  (IF Listed(ws, i) /\ ~IsFlag(ws[i]) /\ ws[i - 1] # "-i" THEN <<"-i">> ELSE <<>>)
  \o (<<ws[i]>> \o DefaultFor(ws, i))

ConvertOsArgs(line0) ==
  LET ws == PreprocessHelpFlags(line0)
      f[i \in 1..(Len(ws) + 1)] == IF i > Len(ws) THEN <<>> ELSE ConvertWord(ws, i) \o f[i + 1]
  IN  f[1]

(* pflag: a flag with a value takes the next word, whatever it is.         *)
Parsed(ws) ==
  LET f[i \in 1..(Len(ws) + 1)] ==
        IF i > Len(ws) THEN <<>>
        ELSE IF ws[i] \in {"-b", "-?", "--help"} THEN <<<<ws[i], NoValue>>>> \o f[i + 1]
        ELSE IF ws[i] = "-if" THEN <<<<"-i", "f">>>> \o f[i + 1]
        ELSE IF ws[i] \in {"-i", "-r", "-N", "-h", "-Q"} /\ i < Len(ws)
          THEN <<<<ws[i], ws[i + 1]>>>> \o f[i + 2]
        ELSE <<<<"error", ws[i]>>>>
  IN  f[1]

-----------------------------------------------------------------------------
(* Validate and normalizeFlags.                                            *)
Encrypts == {"s", "strict", "m", "mandatory", "yes", "1", "t", "true", "o", "optional", "no", "0", "f", "false",
             "disable", "default"}
Enumerated == [intent |-> {"", "readonly"}, stderr |-> {"", "0", "1"}, disabled |-> {"", "0", "1"},
               servers |-> {"", "|", "c"}, control |-> {"", "0", "1", "2"}]

AllowsTLS(e) == e \in {"s", "strict", "m", "mandatory", "yes", "1", "t", "true"}

RefusedArguments(a) ==
  \/ a.list /\ a.others
  \/ a.input /\ (a.query \/ a.initial)
  \/ a.vertical /\ a.ascii
  \/ a.trusted /\ (a.user # "" \/ a.password # "")
  \/ a.aad /\ a.method # ""
  \/ a.hostname /\ a.certificate
  \/ a.packet # 0 /\ a.packet \notin 512..32767
  \/ a.headers < -1
  \/ a.width # 0 /\ a.width \notin 9..65535
  \/ a.certificate /\ ~AllowsTLS(a.encrypt)
  \/ a.encrypt \notin Encrypts
  \/ \E f \in DOMAIN a.enumerated : a.enumerated[f] \notin Enumerated[f]

FirstOf(s, t) == IF s # "" THEN s ELSE t

(* GetCurrentContextInfo: only a user with a name and password of its own  *)
(* has them.                                                               *)
Current ==
  LET basic == context.authentication = "basic"
  IN  [server   |-> context.server,
       user     |-> IF basic THEN context.user ELSE "",
       password |-> IF basic THEN context.password ELSE ""]

(* initializeEnvVars: the context fills in what the environment leaves.    *)
ContextByVariable ==
  [given EXCEPT !.server   = IF @ = "" THEN Current.server ELSE @,
                !.user     = IF @ = "" THEN Current.user ELSE @,
                !.password = IF @ = "" THEN Current.password ELSE @]

ContextFirst ==
  [given EXCEPT !.server = FirstOf(Current.server, @)]

WithContext ==
  LET pair == Current.user # "" /\ Current.password # "" /\ given.user = ""
  IN  [server   |-> FirstOf(given.server, Current.server),
       user     |-> IF pair THEN Current.user ELSE given.user,
       password |-> IF pair THEN Current.password ELSE given.password]

UseEnvVars == args.disable = "no"

(* InitializeVariables and setVars: -S and -U, then every -v.              *)
SetVars ==
  LET base == [server |-> FirstOf(args.server, IF UseEnvVars THEN env.server ELSE ""),
               user   |-> FirstOf(args.user, IF UseEnvVars THEN env.user ELSE "")]
  IN  [v \in {"server", "user"} |-> FirstOf(args.variables[v], base[v])]

(* -G without -U is ActiveDirectoryDefault, with -P Password, else         *)
(* Interactive.                                                            *)
AuthenticationMethod(hasPassword, user) ==
  IF args.trusted THEN ""
  ELSE IF ~args.aad THEN args.method
  ELSE IF user # "" /\ hasPassword THEN "TokenPassword" ELSE "Token"

SetConnect(v) ==
  LET password == FirstOf(args.password, IF UseEnvVars THEN env.password ELSE "")
  IN  [server   |-> FirstOf(args.server, v.server),
       user     |-> FirstOf(args.user, v.user),
       password |-> password,
       trusted  |-> args.trusted,
       method   |-> AuthenticationMethod(password # "", args.user),
       encrypt  |-> CASE args.encrypt = "s" -> "strict"
                      [] args.encrypt = "o" -> "optional"
                      [] args.encrypt = "m" -> "mandatory"
                      [] OTHER -> args.encrypt]

(* ConnectSettings.RequiresPassword.  Method "" is NotSpecified; "Token" is*)
(* any of Entra's that takes no password, "TokenPassword" one that does.   *)
SqlAuthentication(c) ==
  \/ c.method = "SqlPassword"
  \/ ~c.trusted /\ c.method = "" /\ c.user # ""

RequiresPassword(c) == SqlAuthentication(c) \/ c.method = "TokenPassword"

(* isConsoleInitializationRequired.                                        *)
ConsoleFor(c) ==
  LET open == ~args.input /\ ~args.query /\ ~args.changeexit
  IN  [needed |-> RequiresPassword(c) \/ open, interactive |-> open /\ ~args.redirected]

-----------------------------------------------------------------------------
NoFlags == <<>>
NoLogin == [server |-> "", user |-> "", password |-> "", trusted |-> FALSE, method |-> "",
            encrypt |-> ""]

LInit ==
  /\ \/ step = "words" /\ line \in CommandLines /\ args \in {CHOOSE a \in Arguments : TRUE}
        /\ given \in {CHOOSE e \in ProcessEnvironments : TRUE} /\ context \in {CHOOSE c \in Contexts : TRUE}
     \/ step = "main" /\ line = <<>> /\ args \in Arguments
        /\ given \in ProcessEnvironments /\ context \in Contexts
  /\ flags = NoFlags /\ env = given
  /\ variables = [server |-> "", user |-> ""] /\ connectSettings = NoLogin
  /\ console = [needed |-> FALSE, interactive |-> FALSE]

ReadWords ==
  /\ step = "words"
  /\ step' = "parsed words" /\ flags' = Parsed(ConvertOsArgs(line))
  /\ UNCHANGED <<line, args, given, context, env, variables, connectSettings, console>>

InitializeEnvVars ==
  /\ step = "main"
  /\ step' = "parsed" /\ env' = WithContext
  /\ UNCHANGED <<line, flags, args, given, context, variables, connectSettings, console>>

Validate ==
  /\ step = "parsed"
  /\ step' = IF RefusedArguments(args) THEN "refused" ELSE "valid"
  /\ UNCHANGED <<line, flags, args, given, context, env, variables, connectSettings, console>>

SetUp ==
  /\ step = "valid"
  /\ step' = "set"
  /\ variables' = SetVars
  /\ connectSettings' = SetConnect(variables')
  /\ console' = ConsoleFor(connectSettings')
  /\ UNCHANGED <<line, flags, args, given, context, env>>

LNext == ReadWords \/ InitializeEnvVars \/ Validate \/ SetUp

LSpec == LInit /\ [][LNext]_lvars
-----------------------------------------------------------------------------
(* The flags a line has, as sqlcmd's own syntax reads it: -i and what      *)
(* follows up to the next flag, others with their value or its default.    *)
NextFlag(ws, i) == Min({j \in (i + 1)..Len(ws) : IsFlag(ws[j])} \cup {Len(ws) + 1})

Files(ws, i) == [k \in 1..(NextFlag(ws, i) - i - 1) |-> <<"-i", ws[i + k]>>]

FlagMeant(ws, i) ==
  LET value == NextFlag(ws, i) > i + 1
  IN  CASE ws[i] = "-i"    -> Files(ws, i)
        [] ws[i] = "-if"   -> <<<<"-i", "f">>>> \o Files(ws, i)
        [] ws[i] = "-help" -> <<<<"--help", NoValue>>>>
        [] ws[i] = "-h"    -> IF value THEN <<<<"-h", ws[i + 1]>>>> ELSE <<<<"-?", NoValue>>>>
        [] ws[i] \in {"-b", "-?", "--help"} -> <<<<ws[i], NoValue>>>>
        [] ws[i] = "-r"    -> <<<<"-r", IF value THEN ws[i + 1] ELSE "0">>>>
        [] ws[i] = "-N"    -> <<<<"-N", IF value THEN ws[i + 1] ELSE "true">>>>
        [] ws[i] = "-Q"    -> <<<<"-Q", ws[i + 1]>>>>

Meant(ws) ==
  LET all[i \in 1..(Len(ws) + 1)] ==
        IF i > Len(ws) THEN <<>>
        ELSE IF IsFlag(ws[i]) THEN FlagMeant(ws, i) \o all[NextFlag(ws, i)] ELSE all[i + 1]
  IN  all[1]

(* Lines with a value where there must be one, and nowhere else.           *)
WellFormed(ws) ==
  \A i \in 1..Len(ws) :
    /\ ws[i] \in {"-i", "-Q"} => i < Len(ws) /\ ~IsFlag(ws[i + 1])
    /\ ~IsFlag(ws[i]) =>
         \E j \in 1..(i - 1) : /\ \A k \in (j + 1)..i : ~IsFlag(ws[k])
                               /\ \/ IsListFlag(ws[j])
                                  \/ ws[j] \in {"-r", "-N", "-Q"} /\ j = i - 1
                                  \/ ws[j] = "-h" /\ j = i - 1 /\ ws[i] = "1"

(* The words that convertOsArgs adds for pflag leave every flag with the   *)
(* values that the user gave it.                                           *)
ArgumentsMeant == step = "parsed words" /\ WellFormed(line) => flags = Meant(line)

(* A login of the current context that has its password.                   *)
Paired == Current.user # "" /\ Current.password # ""

(* initializeEnvVars: "command line switches/flags take higher precedence  *)
(* than env variables and env variables take higher precedence over config *)
(* file info", for the server and for the user, -v coming after -S and -U  *)
(* and sqlconfig having a user only with a password; -X turns off all but  *)
(* the flags.  The password has no such order, see PairsTogether.          *)
SourcesInOrder ==
  step = "set" =>
    LET unless(source) == IF args.disable # "no" THEN "" ELSE source
    IN  /\ connectSettings.server =
             FirstOf(args.server, FirstOf(args.variables.server,
               unless(FirstOf(given.server, Current.server))))
        /\ connectSettings.user =
             FirstOf(args.user, FirstOf(args.variables.user,
               unless(FirstOf(given.user, IF Paired THEN Current.user ELSE ""))))

(* initializeEnvVars: "Username and password should come together, either  *)
(* from the environment [...] or from the sqlconfig", and a password that  *)
(* is alone in the environment is not used beside a login of sqlconfig.    *)
(* Without -P the password is of the environment if the environment names  *)
(* a user, and else of sqlconfig if that has a login; a user whom neither  *)
(* -U nor -v names is then the one beside it.  A user named by -U or -v    *)
(* gets the same password, whosever it is: nothing here keeps -U u1 from   *)
(* the password of sqlconfig's user.                                       *)
PairsTogether ==
  step = "set" /\ args.password = "" /\ args.disable = "no" =>
    LET named == args.user # "" \/ args.variables.user # ""
        Keeps(source) == /\ connectSettings.password = source.password
                         /\ ~named => connectSettings.user = source.user
    IN  /\ given.user # "" => Keeps(given)
        /\ given.user = "" /\ Paired => Keeps(Current)
        /\ given.user = "" /\ ~Paired /\ ~named => connectSettings.user = ""
=============================================================================
