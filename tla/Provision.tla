------------------------------ MODULE Provision ------------------------------
(***************************************************************************)
(* cmd/sqlcmd/root/install/mssql-base.go: sqlcmd create, from its options  *)
(* to a server that is ready.  Lifecycle has what several commands do to   *)
(* containers and to the file; here it is the server in one container, and *)
(* who can log in to it if create ends early.  The server is external: it  *)
(* accepts or refuses each statement.                                      *)
(***************************************************************************)
EXTENDS Sequences

CONSTANTS
  DatabaseNames,   \* of --user-database: "none", "fine", "taken", "bracket", "quoted"
  OSUsers,         \* "plain", "dotted" (not an identifier), "sa"
  Backups          \* of --using: "none", "found", "missing"

VARIABLES
  creating,        \* the step of create, or "ready", "stopped"
  options,         \* --user-database, --using, and who runs create
  server,          \* of the new container
  stored,          \* sqlconfig has the user and password
  todo,            \* statements and downloads that are left
  refused          \* history: statements that the server has refused

pcvars == <<creating, options, server, stored, todo, refused>>

-----------------------------------------------------------------------------
(* createNonSaUser and downloadAndRestoreDb: what is sent, in this order.  *)
WhenDatabase(s) == IF options.database = "none" THEN <<>> ELSE s
WhenBackup(s)   == IF options.backup = "none" THEN <<>> ELSE s

SaFirst ==
  WhenDatabase(<<"create database">>)
  \o <<"rotate sa", "disable sa", "create login", "add to sysadmin">>
  \o WhenDatabase(<<"give database">>)
  \o WhenBackup(<<"download", "restore", "set default">>)

Work ==
  WhenDatabase(<<"create database">>)
  \o <<"create login", "add to sysadmin", "rotate sa", "disable sa">>
  \o WhenDatabase(<<"give database">>)
  \o WhenBackup(<<"download", "restore", "set default">>)

DefaultDatabase == IF options.database \in {"none", "taken"} THEN "master" ELSE "wanted"

(* The names are put into the text as they are: "]" ends [a]b] early, and  *)
(* the new owner is not in brackets.  A database that is created may fail  *)
(* for want of space, so may a restore and a download.                     *)
Acceptable(s) ==
  CASE s = "create database" -> options.database = "fine"
    [] s = "create login"    -> /\ options.user # "sa" /\ options.database # "bracket"
                                /\ DefaultDatabase \in server.databases
    [] s = "add to sysadmin" -> server.login # "none"
    [] s = "give database"   -> options.user # "dotted" /\ "wanted" \in server.databases
                                /\ server.login # "none"
    [] s = "restore"         -> server.downloaded
    [] s = "set default"     -> "restored" \in server.databases /\ server.login # "none"
    [] OTHER                 -> TRUE

MayFail == {"create database", "download", "restore"}

Effect(s) ==
  CASE s = "create database" -> [server EXCEPT !.databases = @ \cup {"wanted"}]
    [] s = "create login"    -> [server EXCEPT !.login = "user"]
    [] s = "add to sysadmin" -> [server EXCEPT !.login = "admin"]
    [] s = "rotate sa"       -> [server EXCEPT !.rotated = TRUE]
    [] s = "disable sa"      -> [server EXCEPT !.disabled = TRUE]
    [] s = "download"        -> [server EXCEPT !.downloaded = TRUE]
    [] s = "restore"         -> [server EXCEPT !.databases = @ \cup {"restored"}]
    [] OTHER                 -> server

NoServer == [up |-> FALSE, databases |-> {}, login |-> "none",
             rotated |-> FALSE, disabled |-> FALSE, downloaded |-> FALSE]

-----------------------------------------------------------------------------
PCInit ==
  /\ creating = "options"
  /\ options \in [database : DatabaseNames, user : OSUsers, backup : Backups, cached : BOOLEAN]
  /\ server = NoServer /\ stored = FALSE /\ todo = <<>> /\ refused = {}

(* validateUsingUrlExists, and validateDbName: no quotes, only ASCII.      *)
BackupMissing == options.backup = "missing"
NameInvalid   == options.database = "quoted"

(* Before anything is started.                                             *)
CheckOptions ==
  /\ creating = "options"
  /\ creating' = IF BackupMissing \/ NameInvalid THEN "stopped"
                 ELSE IF options.cached THEN "run" ELSE "pull"
  /\ UNCHANGED <<options, server, stored, todo, refused>>

(* downloadImage.                                                          *)
PullImage ==
  /\ creating = "pull"
  /\ creating' \in {"run", "stopped"}
  /\ UNCHANGED <<options, server, stored, todo, refused>>

(* ContainerRun: sa's first password is in the container's environment.    *)
RunContainer ==
  /\ creating = "run"
  /\ \/ creating' = "save" /\ server' = [server EXCEPT !.up = TRUE, !.databases = {"master"}]
     \/ creating' = "stopped" /\ UNCHANGED server
  /\ UNCHANGED <<options, stored, todo, refused>>

(* AddContextWithContainer, with the password of a login that is not yet   *)
(* there.                                                                  *)
SaveContext ==
  /\ creating = "save"
  /\ creating' = "wait" /\ stored' = TRUE
  /\ UNCHANGED <<options, server, todo, refused>>

(* ContainerWaitForLogEntry also ends when the log does.                   *)
WaitForLogEntry ==
  /\ creating = "wait"
  /\ creating' = "connect" /\ server' \in {server, [server EXCEPT !.up = FALSE]}
  /\ UNCHANGED <<options, stored, todo, refused>>

(* Connect of internal/sql, as sa; an error ends create.                   *)
Connect ==
  /\ creating = "connect"
  /\ \/ server.up /\ creating' = "work" /\ todo' = Work
     \/ creating' = "stopped" /\ UNCHANGED todo
  /\ UNCHANGED <<options, server, stored, refused>>

(* Query of internal/sql, or DownloadFile.  Run is called with once, so it *)
(* breaks out of its loop before it keeps an error: create always goes on. *)
Query ==
  /\ creating = "work" /\ todo # <<>>
  /\ \/ Acceptable(Head(todo)) /\ server' = Effect(Head(todo)) /\ UNCHANGED refused
     \/ /\ ~Acceptable(Head(todo)) \/ Head(todo) \in MayFail
        /\ refused' = refused \cup {Head(todo)} /\ UNCHANGED server
  /\ todo' = Tail(todo)
  /\ UNCHANGED <<creating, options, stored>>

(* "Now ready for client connections".                                     *)
Ready ==
  /\ creating = "work" /\ todo = <<>>
  /\ creating' = "ready"
  /\ UNCHANGED <<options, server, stored, todo, refused>>

KillCreate ==
  /\ creating \notin {"ready", "stopped"}
  /\ creating' = "stopped"
  /\ UNCHANGED <<options, server, stored, todo, refused>>

PCNext ==
  \/ CheckOptions \/ PullImage \/ RunContainer \/ SaveContext \/ WaitForLogEntry \/ Connect
  \/ Query \/ Ready \/ KillCreate

PCSpec == PCInit /\ [][PCNext]_pcvars
-----------------------------------------------------------------------------
Administrator ==
  \/ ~server.rotated /\ ~server.disabled
  \/ stored /\ server.login = "admin"

(* At whatever step create ends or is killed, somebody can administrate    *)
(* the server: sa with the password that can be read from the container's  *)
(* environment, or the user whose password sqlconfig has; unless the       *)
(* server has refused that user.                                           *)
AdministratorRemains ==
  server.up /\ refused \cap {"create login", "add to sysadmin"} = {} => Administrator

(* createNonSaUser "creates a user (non-sa) and assigns the sysadmin role  *)
(* to the user", and Query of internal/sql "returns the error if any       *)
(* occurred", which ends create: when it says that the server is ready,    *)
(* the user of sqlconfig is there.                                         *)
UserCreated == creating = "ready" => server.login = "admin"
=============================================================================
