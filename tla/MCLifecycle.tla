---------------------------- MODULE MCLifecycle ----------------------------
(***************************************************************************)
(* Names for the instances of Lifecycle that TLC checks.                   *)
(***************************************************************************)
EXTENDS Lifecycle, TLC

CONSTANTS p1, p2, c1, c2, c3

MCBases  == {"mssql", "me"}
MCAsked  == {[of |-> "mssql", n |-> 0]}
MCOsUser == [of |-> "me", n |-> 0]

Symmetric == Permutations({p1, p2})

-----------------------------------------------------------------------------
(* A later start, to reach a third create with fewer steps: create and     *)
(* create have run, and delete-context of the second context, which leaves *)
(* its endpoint, user and container (the run commands_alone gets here).    *)
Mssql  == [of |-> "mssql", n |-> 0]
Mssql2 == Postfixed(Mssql, 2)

TwoCreated ==
  WithContainer(
    WithContainer(Empty, Mssql, Mssql, <<MCOsUser, Mssql>>, c1),
    Mssql2, Mssql2, <<MCOsUser, Mssql2>>, c2)

LaterInit ==
  /\ file \in WithoutContext(TwoCreated, Mssql2)
  /\ containers = [id \in Ids |-> IF id = c3 THEN "never" ELSE "running"]
  /\ userdb = {}
  /\ pc = [p \in Procs |-> "idle"]
  /\ mem = [p \in Procs |-> Empty]   /\ after = [p \in Procs |-> "idle"]
  /\ arg = [p \in Procs |-> NoName]  /\ cid = [p \in Procs |-> NoContainer]
  /\ forced = [p \in Procs |-> FALSE]
  /\ started = 0 /\ causes = {} /\ lost = {}

LaterSpec ==
  LaterInit /\ [][Next]_vars /\ \A p \in Procs : WF_vars(~Waits(p) /\ Proceeds(p))
=============================================================================
