------------------------------- MODULE Session -------------------------------
(***************************************************************************)
(* What one Sqlcmd keeps from batch to batch, and the commands that change *)
(* it: scripting variables (variables.go, :setvar) and the connection      *)
(* (ConnectDb, :connect).  The queries are in SqlcmdRun and QueryRun.      *)
(*                                                                         *)
(* A text is a sequence of tokens; "--" and "$(" are one each.             *)
(***************************************************************************)
EXTENDS Integers, Sequences

CONSTANTS
  SetvarLines,   \* what follows :setvar: a name, and a text that is <<>> or begins with " "
  Connects,      \* what follows :connect: server and user
  Environments,  \* values of variables in the process environment
  Unset          \* no value

VARIABLES
  environment,
  vars,          \* Variables
  connect,       \* Connect
  db,            \* the settings that db was opened with, or Unset
  asked          \* history: the :setvar of y just made

svars == <<environment, vars, connect, db, asked>>

(* SERVER and USER stand for the read-only variables, WIDTH for those with *)
(* a default; x and y are users'.                                          *)
Keys     == {"SERVER", "USER", "WIDTH", "x", "y"}
BuiltIn  == {"SERVER", "USER", "WIDTH"}
ReadOnly == {"SERVER", "USER"}
Default  == [k \in {"WIDTH"} |-> <<"0">>]

(* A text is a sequence of tokens, and no value is not one.                *)
ASSUME UnsetAssumption == Unset # <<"0">> /\ Unset \notin Seq(STRING)
ASSUME TextsAssumption == \A l \in SetvarLines : l.text \in Seq(STRING)

(* A name as it is spelled; keys are upper case.                           *)
Names == [key : Keys, upper : BOOLEAN]

-----------------------------------------------------------------------------
Quote == "\""

Nth(t, i) == IF i \in 1..Len(t) THEN t[i] ELSE "end"

(* commentStart: a "--" out of quotes and after a space, the first if there*)
(* is one.  Of a doubled quote the second one is skipped.                  *)
CommentStarts(t) ==
  LET past[i \in 0..Len(t)] ==
        IF i = 0 THEN [quote |-> FALSE, space |-> FALSE, skip |-> FALSE]
        ELSE LET m == past[i - 1]
             IN  IF m.skip THEN [m EXCEPT !.skip = FALSE]
                 ELSE IF m.quote /\ t[i] = Quote
                   THEN IF Nth(t, i + 1) = Quote THEN [m EXCEPT !.skip = TRUE] ELSE [m EXCEPT !.quote = FALSE]
                 ELSE IF t[i] = " "   THEN [m EXCEPT !.space = TRUE]
                 ELSE IF t[i] = Quote THEN [m EXCEPT !.quote = TRUE]
                 ELSE [m EXCEPT !.space = FALSE]
  IN  {i \in 1..Len(t) : t[i] = "--" /\ past[i - 1].space /\ ~past[i - 1].quote}

CommentStart(t) ==
  LET starts == CommentStarts(t) \cup {Len(t) + 1}
  IN  CHOOSE i \in starts : \A j \in starts : i <= j

RemoveComments(t) == SubSeq(t, 1, CommentStart(t) - 1)

TrimSpace(t) ==
  LET solid == {i \in 1..Len(t) : t[i] # " "}
      first == CHOOSE i \in solid : \A j \in solid : i <= j
      last  == CHOOSE i \in solid : \A j \in solid : i >= j
  IN  IF solid = {} THEN <<>> ELSE SubSeq(t, first, last)

(* Without a look at the end of the value.                                 *)
ParseLoosely(t) ==
  IF t[1] # Quote THEN t ELSE IF Len(t) = 1 THEN Unset ELSE SubSeq(t, 2, Len(t) - 1)

(* ParseValue of a value that is not empty; Unset if it is invalid.        *)
ParseValue(t) ==
  LET f[i \in 1..(Len(t) + 1)] ==
        IF i >= Len(t) THEN <<>>
        ELSE IF t[i] # Quote THEN
          LET rest == f[i + 1] IN IF rest = Unset THEN Unset ELSE <<t[i]>> \o rest
        ELSE IF i + 1 < Len(t) /\ t[i + 1] = Quote THEN
          LET rest == f[i + 2] IN IF rest = Unset THEN Unset ELSE <<Quote>> \o rest
        ELSE Unset
  IN  IF t[1] # Quote THEN IF \E i \in 1..Len(t) : t[i] = " " THEN Unset ELSE t
      ELSE IF Len(t) = 1 \/ t[Len(t)] # Quote THEN Unset
      ELSE f[2]

(* checkReadOnly looks the name up as it is spelled.                       *)
IsReadOnly(name) ==
  name.upper /\ name.key \in ReadOnly /\ vars[name.key] \notin {Unset, <<>>}

(* resolveVariable.                                                        *)
Value(k) ==
  IF vars[k] # Unset THEN vars[k]
  ELSE IF ~connect.noEnv THEN environment[k] ELSE Unset

(* resolveArgumentVariables: what is not defined stays as it is.           *)
Resolve(arg) ==
  LET f[i \in 1..(Len(arg) + 1)] ==
        IF i > Len(arg) THEN <<>>
        ELSE IF arg[i] = "$(" /\ Nth(arg, i + 1) \in Keys /\ Nth(arg, i + 2) = ")"
          THEN LET v == Value(arg[i + 1])
               IN  (IF v = Unset THEN SubSeq(arg, i, i + 2) ELSE v) \o f[i + 3]
        ELSE <<arg[i]>> \o f[i + 1]
  IN  IF connect.noSubst THEN arg ELSE f[1]

-----------------------------------------------------------------------------
(* Of ConnectSettings, what the session looks at; Connection has the rest. *)
SettingsOf(server, user, noEnv, noSubst) ==
  [server |-> server, user |-> user, noEnv |-> noEnv, noSubst |-> noSubst]

(* InitializeVariables: the environment has a say in built-in variables.   *)
Initialize(fromEnvironment) ==
  [k \in Keys |->
     IF fromEnvironment /\ k \in BuiltIn /\ environment[k] # Unset THEN environment[k]
     ELSE IF k \in DOMAIN Default THEN Default[k]
     ELSE IF k \in BuiltIn THEN <<>>
     ELSE Unset]

(* New, before the first ConnectDb.  -X turns the environment off.         *)
SInit ==
  /\ environment \in Environments
  /\ \E noEnv, noSubst \in BOOLEAN, s \in {c.server : c \in Connects} :
       /\ connect = SettingsOf(s, "", noEnv, noSubst)
       /\ vars = Initialize(~noEnv)
  /\ db = Unset
  /\ asked = Unset

(* Setvar.                                                                 *)
Assign(name, value) == vars' = [vars EXCEPT ![name.key] = value]

(* With an empty value: a default, or nothing.                             *)
ResetsSpelled(name) ==
  Assign(name, IF name.upper /\ name.key \in DOMAIN Default THEN Default[name.key] ELSE Unset)

ResetVar(name) ==
  Assign(name, IF name.key \in DOMAIN Default THEN Default[name.key] ELSE Unset)

SetVar ==
  /\ \E l \in SetvarLines :
       LET text  == TrimSpace(RemoveComments(l.text))
           value == IF text = <<>> THEN Unset ELSE ParseValue(text)
       IN  /\ IF IsReadOnly(l.name) THEN UNCHANGED vars
              ELSE IF text = <<>>
                THEN IF vars[l.name.key] = Unset THEN UNCHANGED vars ELSE ResetVar(l.name)
              ELSE IF value = Unset THEN UNCHANGED vars ELSE Assign(l.name, value)
           /\ asked' = IF l.name.key # "y" THEN Unset
                       ELSE [text |-> text, taken |-> value # Unset, result |-> vars'["y"]]
  /\ UNCHANGED <<environment, connect, db>>

-----------------------------------------------------------------------------
(* ConnectDb once the connection is good.                                  *)
Connected(c) ==
  /\ db' = c /\ connect' = c
  /\ vars' \in {[vars EXCEPT !["SERVER"] = c.server, !["USER"] = u] :
                  u \in IF c.user # "" THEN {<<c.user>>} ELSE {<<"os">>, vars["USER"]}}

(* The settings replaced before the connection is known to be good.        *)
ConnectDbEarly(c) ==
  /\ Connected(c) \/ (connect' = c /\ UNCHANGED <<db, vars>>)
  /\ UNCHANGED environment /\ asked' = Unset

(* The prompt for a password, the connector or the server may refuse; then *)
(* nothing changes but the password.                                       *)
ConnectDb(c) ==
  /\ Connected(c) \/ UNCHANGED <<db, connect, vars>>
  /\ UNCHANGED environment /\ asked' = Unset

FirstConnect == db = Unset /\ ConnectDb(connect)

(* :connect starting from nothing.                                         *)
ConnectFresh(c) == SettingsOf(Resolve(c.server), c.user, FALSE, FALSE)

(* :connect starts from the settings in use; a user that it does not name  *)
(* is cleared, not inherited.                                              *)
Reconnects(c) ==
  [connect EXCEPT !.server = Resolve(c.server), !.user = c.user]

ConnectCommand == db # Unset /\ \E c \in Connects : ConnectDb(Reconnects(c))

SNext == SetVar \/ FirstConnect \/ ConnectCommand

SSpec == SInit /\ [][SNext]_svars
-----------------------------------------------------------------------------
(* A value as it is written for :setvar.                                   *)
Quoted(v) ==
  LET f[i \in 1..(Len(v) + 1)] ==
        IF i > Len(v) THEN <<Quote>>
        ELSE (IF v[i] = Quote THEN <<Quote, Quote>> ELSE <<v[i]>>) \o f[i + 1]
  IN  <<Quote>> \o f[1]

Plain(v) == v # <<>> /\ \A i \in 1..Len(v) : v[i] \notin {" ", Quote}

(* A text with a quote in it and none at its beginning, as a".  ParseValue *)
(* says that a value with a quote "must be delimited by quotes", and takes *)
(* it as it is: only the first character is looked at.                     *)
Undelimited(t) ==
  /\ t[1] # Quote /\ \E i \in 1..Len(t) : t[i] = Quote
  /\ \A i \in 1..Len(t) : t[i] # " "

(* The values, of the tokens of a text and no longer, that it stands for.  *)
StandsFor(t) ==
  {v \in UNION {[1..n -> {t[i] : i \in 1..Len(t)}] : n \in 0..Len(t)} :
     t = Quoted(v) \/ (t = v /\ Plain(v))}

(* defaultVariables "cannot be removed from the map, only reset": however  *)
(* a name is spelled, no :setvar leaves a variable that the formatter or a *)
(* query takes a number from without a value; mustValue would panic.       *)
DefaultsPresent == \A k \in DOMAIN Default : vars[k] # Unset

(* Of :setvar y, as ParseValue's comment has it: the text is the value, or *)
(* the value in quotes with the quotes in it doubled; a text that is       *)
(* neither leaves y alone; a comment and the space around the text do not  *)
(* count.  An undelimited text, where code and comment disagree, is        *)
(* excepted: whoever takes it takes it as it is.                           *)
ValueAsWritten ==
  LET stands == StandsFor(asked.text)
  IN  asked # Unset /\ asked.text # <<>> =>
        IF Undelimited(asked.text) THEN asked.taken => asked.result = asked.text
        ELSE IF stands = {} THEN ~asked.taken ELSE asked.taken /\ asked.result \in stands

(* The settings in use are those of the open connection: a :connect that   *)
(* fails, at the password, the connector or the server, changes neither.   *)
SettingsOfConnection == db # Unset => connect = db

(* -X and -x of the command line hold for the whole session: no :connect   *)
(* turns the environment or the substitution on again.                     *)
RestrictionsKept ==
  [][connect'.noEnv = connect.noEnv /\ connect'.noSubst = connect.noSubst]_svars
=============================================================================
