----------------------------- MODULE QueryCall -----------------------------
(***************************************************************************)
(* What the callers of Sqlcmd.runQuery rely on: a query is called with the *)
(* error settings of the moment, and returns once, with one of             *)
(* QueryOutcomes.  SqlcmdRun builds on this contract; QueryRun, the message*)
(* loop itself, implements it.                                             *)
(***************************************************************************)
EXTENDS QueryResults

VARIABLES
  running,   \* a query is in flight
  args,      \* what it was called with
  result     \* what the last one returned

qvars == <<running, args, result>>

(* -V, -b or :on error exit, and Exitcode at the call.                     *)
CallArgs == [level : 0..255, onError : BOOLEAN, exitcode : Codes]

Nothing == [err |-> "none", exit |-> 0, code |-> NoRows]

QInit ==
  /\ running = FALSE
  /\ args \in CallArgs
  /\ result = Nothing

(* Any settings: :on error and EXIT change them between queries.           *)
Call ==
  /\ ~running
  /\ running' = TRUE
  /\ args' \in CallArgs
  /\ result' = Nothing

Return ==
  /\ running
  /\ running' = FALSE
  /\ result' \in QueryOutcomes(args.onError, args.level, args.exitcode)
  /\ UNCHANGED args

QNext == Call \/ Return

QSpec == QInit /\ [][QNext]_qvars
=============================================================================
