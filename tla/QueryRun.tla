------------------------------ MODULE QueryRun ------------------------------
(***************************************************************************)
(* Sqlcmd.runQuery and handleError (pkg/sqlcmd/sqlcmd.go): one connection, *)
(* one query after another.  The server and the driver are external: they  *)
(* may send any messages of a query, in any order, each with any result.   *)
(* A query that reaches its -t deadline shows as a call that fails, or as  *)
(* a MsgNextResultSet whose error is not a SQL error.                      *)
(*                                                                         *)
(* Result sets are abstracted to what they leave in retcode; formatting    *)
(* and output are left out.                                                *)
(***************************************************************************)
EXTENDS QueryResults

CONSTANTS
  Levels,        \* values of -V
  Plans          \* ways to collect plans: subset of the three below

ASSUME QueryAssumption ==
  /\ Levels \subseteq 0..255
  /\ Plans \subseteq {"off", "actual", "estimated"}

VARIABLES
  level,         \* Connect.ErrorSeverityLevel
  plan,          \* PlanFile and EstimatedPlan
  redirect,      \* -r1: PrintError takes every message
  onError,       \* Connect.ExitOnError, as of the call
  before,        \* history: Exitcode at the call
  exitcode,      \* Exitcode
  pc,            \* "idle", "planon", "send", "loop", "planoff"
  first,         \* no row of the result set has been announced
  cols,          \* what the columns in cols describe: "plan" or "data"
  results,       \* there may be more result sets
  s,             \* locals retcode and qe, see Locals
  session,       \* the server collects plans for this connection
  seen           \* history, see History

settings == <<level, plan, redirect>>

vars == <<settings, onError, before, exitcode, pc, first, cols, results, s,
          session, seen>>

Locals == [code : Codes, err : {"none", "exit", "err"}]

(* Of the current query: a SQL error was handled, a fatal one, one with    *)
(* state 127, another error; a statement that turns plan collection on or  *)
(* off failed.                                                             *)
Events == {"sql", "fatal", "magic", "other", "plan"}

History == [events : SUBSET Events]

Fresh == [events |-> {}]

(* Errors: SQL errors by severity, those raised with state 127 by number,  *)
(* and others (network, deadline), which handleError gives severity 0.     *)
SqlErrors == [class : Severities, number : {0}] \cup [class : {0}, number : ErrNumbers]

OtherError == [class |-> 0, number |-> 0]

Errors == SqlErrors \cup {OtherError}

-----------------------------------------------------------------------------
IsFatal(e) == e.class >= MinSeverity(level)

(* What handleError makes of retcode and returns.                          *)
OneWithoutB(loc, e) ==
  [code |-> IF ~IsFatal(e) THEN loc.code ELSE IF level > 0 THEN e.class ELSE 1,
   err  |-> IF onError /\ IsFatal(e) THEN "exit" ELSE "none"]

Severity(loc, e) ==
  [code |-> IF IsFatal(e) /\ level > 0 THEN e.class
            ELSE IF IsFatal(e) /\ onError THEN 1
            ELSE loc.code,
   err  |-> IF onError /\ IsFatal(e) THEN "exit" ELSE "none"]

Handled(loc, e) ==
  IF e.number # 0 THEN [code |-> e.number, err |-> "exit"] ELSE Severity(loc, e)

(* What it leaves in Exitcode.                                             *)
ExitAfter(code, e) ==
  IF e.number = 0 /\ IsFatal(e) /\ level > 0 THEN e.class ELSE code

EventsOf(e) ==
  {IF e = OtherError THEN "other" ELSE "sql"}
  \cup (IF IsFatal(e) THEN {"fatal"} ELSE {})
  \cup (IF e.number # 0 THEN {"magic"} ELSE {})

Saw(h, evs) == [h EXCEPT !.events = @ \cup evs]

SawError(h, e) == Saw(h, EventsOf(e))

(* s.handleError(&retcode, e) with locals loc.                             *)
Handle(loc, e) ==
  /\ s' = Handled(loc, e)
  /\ exitcode' = ExitAfter(exitcode, e)

looping == <<first, cols, results>>

-----------------------------------------------------------------------------
Init ==
  /\ level \in Levels /\ plan \in Plans
  /\ redirect \in BOOLEAN
  /\ onError \in BOOLEAN
  /\ before = 0 /\ exitcode = 0
  /\ pc = "idle"
  /\ first = TRUE /\ cols = "data" /\ results = TRUE
  /\ s = [code |-> NoRows, err |-> "none"]
  /\ session = FALSE
  /\ seen = Fresh

(* GO or EXIT calls runQuery; Exitcode and ExitOnError are what commands   *)
(* since the last query made them.                                         *)
Begin ==
  /\ pc = "idle"
  /\ onError' \in BOOLEAN
  /\ exitcode' \in Codes
  /\ before' = exitcode'
  /\ pc' = IF plan = "off" THEN "send" ELSE "planon"
  /\ first' = TRUE /\ cols' = "data" /\ results' = TRUE
  /\ s' = [code |-> NoRows, err |-> "none"]
  /\ seen' = Fresh
  /\ UNCHANGED <<settings, session>>

(* SET STATISTICS XML ON or SET SHOWPLAN_XML ON; a call that fails may     *)
(* still have reached the server.                                          *)
PlanOn ==
  /\ pc = "planon"
  /\ \/ /\ session' = TRUE /\ pc' = "send"
        /\ UNCHANGED <<s, seen>>
     \/ /\ session' \in {session, TRUE} /\ pc' = "idle"
        /\ s' = [code |-> Failed, err |-> "err"]
        /\ seen' = Saw(seen, {"other", "plan"})
  /\ UNCHANGED <<settings, onError, before, exitcode, looping>>

(* s.db.QueryContext.                                                      *)
SendQuery ==
  /\ pc = "send"
  /\ pc' = "loop"
  /\ \/ UNCHANGED <<s, seen>>
     \/ /\ s' = [s EXCEPT !.err = "err"]
        /\ seen' = Saw(seen, {"other"})
  /\ UNCHANGED <<settings, onError, before, exitcode, looping, session>>

Reading == pc = "loop" /\ s.err = "none" /\ results

(* MsgNotice: a message of severity up to 10.  PrintError is asked with    *)
(* severity 10, and what it takes is not handled.                          *)
Notice ==
  /\ Reading
  /\ \E e \in Errors :
       /\ e.class <= 10
       /\ e # OtherError
       /\ IF redirect THEN UNCHANGED <<s, exitcode, seen>>
          ELSE Handle(s, e) /\ seen' = SawError(seen, e)
  /\ UNCHANGED <<settings, onError, before, pc, looping, session>>

(* MsgError.                                                               *)
ServerError ==
  /\ Reading
  /\ \E e \in Errors : Handle(s, e) /\ seen' = SawError(seen, e)
  /\ UNCHANGED <<settings, onError, before, pc, looping, session>>

(* MsgNextResultSet.                                                       *)
NextResultSet ==
  /\ Reading
  /\ results' \in BOOLEAN
  /\ first' = (first \/ results')
  /\ \/ UNCHANGED <<s, exitcode, seen>>
     \/ \E e \in Errors :
          /\ Handle([s EXCEPT !.code = Failed], e)
          /\ seen' = SawError(seen, e)
  /\ UNCHANGED <<settings, onError, before, pc, cols, session>>

(* MsgNext of a result set that holds a plan: it goes to the plan file.    *)
PlanRows ==
  /\ Reading /\ plan # "off"
  /\ cols' = IF first THEN "plan" ELSE cols
  /\ cols' = "plan"
  /\ first' = FALSE
  /\ s' = [s EXCEPT !.code = 0]
  /\ UNCHANGED <<settings, onError, before, exitcode, pc, results, session, seen>>

(* What the rows of a data result set leave in retcode c: an empty one     *)
(* leaves it alone.                                                        *)
SumOfRows(c, v) == IF v = NoRows THEN c ELSE c + v

AfterRows(c, v) == IF v = NoRows THEN c ELSE v

(* MsgNext of any other result set: v is what its last row gives, or NoRows*)
(* if there is none.  ColumnTypes fails only before the first row, with an *)
(* error that is not a SQL error; the rows are read all the same, and      *)
(* rows.Err is asked for unless retcode says the value was no number.      *)
DataRows ==
  /\ Reading
  /\ first' = FALSE
  /\ cols' = IF first THEN "data" ELSE cols
  /\ cols' = "data"
  /\ \E v \in {NoRows, NotANumber, 0} \cup RowCodes, nocols \in {FALSE, first} :
       LET l1 == IF nocols THEN Handled([s EXCEPT !.code = Failed], OtherError) ELSE s
           l2 == [l1 EXCEPT !.code = AfterRows(@, v)]
           h  == Saw(seen, IF nocols THEN {"other"} ELSE {})
       IN  \/ s' = l2 /\ seen' = h /\ UNCHANGED exitcode
           \/ /\ l2.code # NotANumber
              /\ \E e \in Errors :
                   /\ Handle([l2 EXCEPT !.code = Failed], e)
                   /\ seen' = SawError(h, e)
  /\ UNCHANGED <<settings, onError, before, pc, results, session>>

SkipsOff ==
  /\ pc = "loop" /\ (s.err # "none" \/ ~results)
  /\ pc' = IF plan = "off" \/ s.err = "err" THEN "idle" ELSE "planoff"
  /\ UNCHANGED <<settings, onError, before, exitcode, looping, s, session, seen>>

(* The loop has ended.                                                     *)
LoopEnds ==
  /\ pc = "loop" /\ (s.err # "none" \/ ~results)
  /\ pc' = IF plan = "off" THEN "idle" ELSE "planoff"
  /\ UNCHANGED <<settings, onError, before, exitcode, looping, s, session, seen>>

OffReplaces(loc) == [code |-> Failed, err |-> "err"]

(* The result when turning plans off fails: an earlier error is kept.      *)
OffFailed(loc) ==
  IF loc.err = "none" THEN [code |-> Failed, err |-> "err"] ELSE loc

(* SET STATISTICS XML OFF or SET SHOWPLAN_XML OFF, without the deadline.   *)
PlanOff ==
  /\ pc = "planoff"
  /\ pc' = "idle"
  /\ \/ session' = FALSE /\ UNCHANGED <<s, seen>>
     \/ /\ session' \in {session, FALSE}
        /\ s' = OffFailed(s)
        /\ seen' = Saw(seen, {"other", "plan"})
  /\ UNCHANGED <<settings, onError, before, exitcode, looping>>

Next ==
  \/ Begin \/ PlanOn \/ SendQuery
  \/ Notice \/ ServerError \/ NextResultSet \/ PlanRows \/ DataRows
  \/ LoopEnds \/ PlanOff

Spec == Init /\ [][Next]_vars
-----------------------------------------------------------------------------
(* Types.                                                                  *)
TypeOK ==
  /\ level \in Levels /\ plan \in Plans /\ redirect \in BOOLEAN
  /\ onError \in BOOLEAN /\ before \in Codes /\ exitcode \in Codes
  /\ pc \in {"idle", "planon", "send", "loop", "planoff"}
  /\ first \in BOOLEAN /\ cols \in {"plan", "data"} /\ results \in BOOLEAN
  /\ s \in Locals /\ session \in BOOLEAN /\ seen \in History

(* runQuery keeps the contract GO, EXIT and the exit code build on: what   *)
(* it returns and leaves in Exitcode is one of QueryOutcomes.              *)
Contract ==
  INSTANCE QueryCall WITH
    running <- pc # "idle",
    args    <- [level |-> level, onError |-> onError, exitcode |-> before],
    result  <- IF pc # "idle" THEN [err |-> "none", exit |-> 0, code |-> NoRows]
               ELSE [err |-> s.err, exit |-> exitcode, code |-> s.code]

KeepsContract == Contract!QSpec

(* Neither a later message, nor the rows that follow, nor a failure to     *)
(* turn plan collection off hides that a fatal error under -b, or a        *)
(* message with state 127, asks the program to exit.                       *)
ExitReported ==
  pc = "idle" /\ ("magic" \in seen.events \/ (onError /\ "fatal" \in seen.events))
    => s.err = "exit"

(* Whatever fails on the way, the session goes on collecting plans after   *)
(* the query only if the statement that turns it on or off failed, and     *)
(* then the caller gets an error.                                          *)
PlanModeEnds == pc = "idle" /\ session => "plan" \in seen.events /\ s.err # "none"
-----------------------------------------------------------------------------
(* What comments and help texts say, and the code does not do.             *)

(* "Specifies that sqlcmd exits and returns a DOS ERRORLEVEL value when an *)
(* error occurs" (-b): a query that meets its deadline or a network error  *)
(* under -b does not return as if it had succeeded.                        *)
FailureReported ==
  pc = "idle" /\ onError /\ "other" \in seen.events => s.err # "none"
=============================================================================
