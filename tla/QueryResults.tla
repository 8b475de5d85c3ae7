---------------------------- MODULE QueryResults ----------------------------
(***************************************************************************)
(* What Sqlcmd.runQuery can give its callers (GO and EXIT): the pair       *)
(* (retcode, error) it returns and the value it leaves in Sqlcmd.Exitcode, *)
(* as a function of the error-handling settings only.  SqlcmdRun takes     *)
(* every query's result from QueryOutcomes; QueryRun, which models the     *)
(* message loop, is shown to produce nothing else.                         *)
(***************************************************************************)
EXTENDS Integers

CONSTANTS
  RowCodes,      \* numbers the first column of a last row can hold
  Severities,    \* severities (mssql.Error.Class) the server reports
  ErrNumbers     \* numbers of the errors raised with state 127

ASSUME CodesAssumption ==
  /\ RowCodes \subseteq Int
  /\ Severities \subseteq 1..255           \* uint8; 0 is "not a SQL error"
  /\ ErrNumbers \subseteq Int \ {0}

(* The return values the comment on runQuery reserves.                     *)
NoRows     == -101
Failed     == -100
NotANumber == -102

Codes ==
  {NoRows, Failed, NotANumber, 0, 1} \cup RowCodes \cup Severities \cup ErrNumbers

(* minSeverityToExit of handleError for ErrorSeverityLevel = lvl.          *)
MinSeverity(lvl) == IF lvl > 0 THEN lvl ELSE 11

Fatal(lvl) == {s \in Severities : s >= MinSeverity(lvl)}

(* Values a server error can leave in retcode and Exitcode without ending  *)
(* the query: handleError stores one only for a severity level, and the    *)
(* query goes on only when ExitOnError is off.                             *)
Noted(onError, lvl) == IF lvl > 0 /\ ~onError THEN Fatal(lvl) ELSE {}

(* err = "exit" is ErrExitRequested, "err" any other error.                *)
QueryOutcomes(onError, lvl, exitcode) ==
  LET exits == {exitcode} \cup Noted(onError, lvl)
  IN  [err : {"none"}, exit : exits,
       code : {NoRows, Failed, NotANumber, 0} \cup RowCodes
                \cup Noted(onError, lvl)]
      \cup [err : {"exit"}, exit : exits, code : ErrNumbers]
      \cup [err : {"err"}, exit : exits, code : {NoRows, Failed}]
      \cup (IF ~onError THEN {}
            ELSE {[err  |-> "exit",
                   exit |-> IF lvl > 0 THEN s ELSE exitcode,
                   code |-> IF lvl > 0 THEN s ELSE 1] : s \in Fatal(lvl)})
=============================================================================
