----------------------------- MODULE Lifecycle -----------------------------
(***************************************************************************)
(* The sqlcmd commands that keep a configuration file and SQL Server       *)
(* containers: config add-*, delete-*, use-context; create, delete, start, *)
(* stop.  Several of them may run at a time, each in a process of its own, *)
(* and any of them can be killed between two steps.                        *)
(*                                                                         *)
(* A process reads the file once, as it starts, works on its copy, and     *)
(* writes all of it at each Save.  The write of the viper library first    *)
(* empties the file; of two writes at a time the longer one may leave its  *)
(* end behind the other, and no command gets beyond reading such a file.   *)
(* Edits of the copy are steps together with what comes before them: no    *)
(* other process sees them before the Save.                                *)
(*                                                                         *)
(* External: the container runtime, SQL clients that create and drop       *)
(* databases, and the user who answers a prompt.                           *)
(***************************************************************************)
EXTENDS Sqlconfig

CONSTANTS
  Procs,         \* processes
  Asked,         \* names users give
  OsUser,        \* the user name of the operating system
  Torn,          \* a file that cannot be read
  MaxCommands    \* bound: commands started

ASSUME LifecycleAssumption ==
  /\ Torn \notin Configs
  /\ Asked \subseteq Names /\ OsUser \in Names
  /\ MaxCommands \in Nat

VARIABLES
  file,          \* what the configuration file holds
  containers,    \* state of each container in the runtime
  userdb,        \* containers that hold a user database
  pc,            \* next step of each process
  mem,           \* its copy of the configuration
  after,         \* where it goes after the Save
  arg,           \* name the command is about
  cid,           \* container it is about
  forced,        \* delete --force
  started,       \* history: number of commands started
  causes,        \* history: what happened that can orphan a container
  lost           \* history: containers removed with a user database, unforced

world  == <<containers, userdb>>
locals == <<mem, after, arg, cid, forced>>
vars   == <<file, world, pc, locals, started, causes, lost>>

Steps == {"idle", "save", "write", "use", "dropuser", "dropcontext",
          "create", "starting", "created", "await", "spin",
          "confirm", "check", "verify", "stop", "remove"}

Causes == {"killed", "overlap", "config", "stopped", "left", "late"}

Set(f, p, v) == [f EXCEPT ![p] = v]

Goto(p, l) == pc' = Set(pc, p, l)

(* The process ends; what it kept is gone.                                 *)
End(p) ==
  /\ Goto(p, "idle")
  /\ mem' = Set(mem, p, Empty)     /\ after' = Set(after, p, "idle")
  /\ arg' = Set(arg, p, NoName)    /\ cid' = Set(cid, p, NoContainer)
  /\ forced' = Set(forced, p, FALSE)

(* The copy is c, to be saved before the process goes to step then.        *)
Saves(p, c, then) ==
  /\ Goto(p, "save")
  /\ mem' = Set(mem, p, c)
  /\ after' = Set(after, p, then)

Readable == file # Torn

(* A command starts; the history notes what it does.                       *)
Begin(p, notes) ==
  /\ pc[p] = "idle"
  /\ started < MaxCommands /\ started' = started + 1
  /\ causes' = causes \cup notes
                 \cup IF \E q \in Procs : q # p /\ pc[q] # "idle" THEN {"overlap"} ELSE {}

Quiet == UNCHANGED <<file, world, lost>>

-----------------------------------------------------------------------------
Init ==
  /\ file = Empty
  /\ containers = [id \in Ids |-> "never"] /\ userdb = {}
  /\ pc = [p \in Procs |-> "idle"]
  /\ mem = [p \in Procs |-> Empty]   /\ after = [p \in Procs |-> "idle"]
  /\ arg = [p \in Procs |-> NoName]  /\ cid = [p \in Procs |-> NoContainer]
  /\ forced = [p \in Procs |-> FALSE]
  /\ started = 0 /\ causes = {} /\ lost = {}

(* Save: yaml, then viper.WriteConfig.                                     *)
SaveBegins(p) ==
  /\ pc[p] = "save"
  /\ Goto(p, "write")
  /\ file' = Empty
  /\ UNCHANGED <<world, locals, started, causes, lost>>

SaveEnds(p) ==
  /\ pc[p] = "write"
  /\ file' \in {mem[p]} \cup IF file = Empty THEN {} ELSE {Torn}
  /\ IF after[p] = "idle" THEN End(p) ELSE Goto(p, after[p]) /\ UNCHANGED locals
  /\ UNCHANGED <<world, started, causes, lost>>

AddEndpoint(p) ==
  /\ Readable /\ Begin(p, {})
  /\ \E asked \in Asked : \E name \in Candidates(asked) :
       /\ UniqueEndpointName(file, asked, name)
       /\ Saves(p, WithEndpoint(file, name), "idle")
  /\ UNCHANGED <<arg, cid, forced>> /\ Quiet

AddUser(p) ==
  /\ Readable /\ Begin(p, {})
  /\ \E asked \in Asked : \E name \in Candidates(asked) :
       /\ UniqueUserName(file, asked, name)
       /\ Saves(p, WithUser(file, name), "idle")
  /\ UNCHANGED <<arg, cid, forced>> /\ Quiet

(* For an endpoint and a user, or none, that exist; the new context is then*)
(* made the current one and saved again.                                   *)
AddContext(p) ==
  /\ Readable /\ Begin(p, {})
  /\ \E asked \in Asked, e \in file.endpoints,
        user \in {<<>>} \cup {u.name : u \in file.users} :
       \/ \E name \in Candidates(asked) :
            /\ UniqueContextName(file, asked, user, name)
            /\ Saves(p, WithContext(file, name, e.name, user), "use")
            /\ arg' = Set(arg, p, name)
       \/ /\ NeverFound(file, asked, user)
          /\ Goto(p, "spin")
          /\ UNCHANGED <<mem, after, arg>>
  /\ UNCHANGED <<cid, forced>> /\ Quiet

Use(p) ==
  /\ pc[p] = "use"
  /\ Saves(p, [mem[p] EXCEPT !.current = arg[p]], "idle")
  /\ UNCHANGED <<arg, cid, forced, started, causes>> /\ Quiet

UseContext(p) ==
  /\ Readable /\ Begin(p, {})
  /\ \E x \in file.contexts : Saves(p, [file EXCEPT !.current = x.name], "idle")
  /\ UNCHANGED <<arg, cid, forced>> /\ Quiet

(* A container an endpoint of these names stands for is left to itself.    *)
Drops(names) ==
  IF \E e \in file.endpoints : e.name \in names /\ e.container # NoContainer
    THEN {"config"} ELSE {}

DeleteEndpoint(p) ==
  /\ Readable
  /\ \E e \in file.endpoints :
       /\ Begin(p, Drops({e.name}))
       /\ Saves(p, WithoutEndpoint(file, e.name), "idle")
  /\ UNCHANGED <<arg, cid, forced>> /\ Quiet

DeleteUser(p) ==
  /\ Readable /\ Begin(p, {})
  /\ \E u \in file.users : Saves(p, WithoutUser(file, u.name), "idle")
  /\ UNCHANGED <<arg, cid, forced>> /\ Quiet

(* With --cascade the endpoint, the user and the context are deleted one   *)
(* after the other, each with its Save.                                    *)
DeleteContext(p) ==
  /\ Readable
  /\ \E x \in file.contexts, cascade \in BOOLEAN :
       /\ Begin(p, IF cascade THEN Drops({x.endpoint}) ELSE {})
       /\ arg' = Set(arg, p, x.name)
       /\ IF ~cascade
            THEN \E c \in WithoutContext(file, x.name) : Saves(p, c, "idle")
          ELSE IF EndpointExists(file, x.endpoint)
            THEN Saves(p, WithoutEndpoint(file, x.endpoint), "dropuser")
          ELSE /\ Goto(p, "dropuser")
               /\ mem' = Set(mem, p, file)
               /\ UNCHANGED after
  /\ UNCHANGED <<cid, forced>> /\ Quiet

(* Waits for a user to delete.                                             *)
WaitsForUser(p) ==
  /\ pc[p] = "dropuser"
  /\ \E x \in mem[p].contexts :
       /\ x.name = arg[p]
       /\ x.user # <<>> /\ UserNameExists(mem[p], x.user)
       /\ Saves(p, WithoutUser(mem[p], x.user), "dropcontext")
  /\ UNCHANGED <<arg, cid, forced, started, causes>> /\ Quiet

DropUser(p) ==
  /\ pc[p] = "dropuser"
  /\ \E x \in mem[p].contexts :
       /\ x.name = arg[p]
       /\ IF x.user # <<>> /\ UserNameExists(mem[p], x.user)
            THEN Saves(p, WithoutUser(mem[p], x.user), "dropcontext")
            ELSE Goto(p, "dropcontext") /\ UNCHANGED <<mem, after>>
  /\ UNCHANGED <<arg, cid, forced, started, causes>> /\ Quiet

DropContext(p) ==
  /\ pc[p] = "dropcontext"
  /\ \E c \in WithoutContext(mem[p], arg[p]) : Saves(p, c, "idle")
  /\ UNCHANGED <<arg, cid, forced, started, causes>> /\ Quiet

-----------------------------------------------------------------------------
(* create: chooses a port, pulls the image; both can fail, as if it had    *)
(* been killed.                                                            *)
Create(p) ==
  /\ Readable /\ Begin(p, {})
  /\ \E asked \in Asked : arg' = Set(arg, p, asked)
  /\ Goto(p, "create")
  /\ mem' = Set(mem, p, file)
  /\ UNCHANGED <<after, cid, forced>> /\ Quiet

(* ContainerRun: ContainerCreate, then ContainerStart.                     *)
ContainerCreate(p) ==
  /\ pc[p] = "create"
  /\ \/ \E id \in Ids :
          /\ containers[id] = "never"
          /\ containers' = Set(containers, id, "stopped")
          /\ cid' = Set(cid, p, id)
          /\ Goto(p, "starting")
          /\ UNCHANGED <<mem, after, arg, forced>>
     \/ End(p) /\ UNCHANGED containers
  /\ UNCHANGED <<file, userdb, started, causes, lost>>

LeavesFailed(p) ==
  /\ pc[p] = "starting"
  /\ \/ /\ containers' = Set(containers, cid[p], "running")
        /\ Goto(p, "created")
        /\ UNCHANGED <<locals, causes>>
     \/ UNCHANGED <<containers, causes>> /\ End(p)
  /\ UNCHANGED <<file, userdb, started, lost>>

(* A container that does not start is removed, if that works.              *)
ContainerStart(p) ==
  /\ pc[p] = "starting"
  /\ \/ /\ containers' = Set(containers, cid[p], "running")
        /\ Goto(p, "created")
        /\ UNCHANGED <<locals, causes>>
     \/ /\ containers' = Set(containers, cid[p], "gone")
        /\ End(p)
        /\ UNCHANGED causes
     \/ /\ causes' = causes \cup {"left"}
        /\ End(p)
        /\ UNCHANGED containers
  /\ UNCHANGED <<file, userdb, started, lost>>

(* AddContextWithContainer and its Save.                                   *)
AddContextWithContainer(p) ==
  /\ pc[p] = "created"
  /\ \/ \E name \in Candidates(arg[p]) : \E endpoint \in Candidates(name) :
          /\ UniqueContextName(mem[p], arg[p], <<OsUser>>, name)
          /\ UniqueEndpointName(mem[p], name, endpoint)
          /\ Saves(p, WithContainer(mem[p], name, endpoint, <<OsUser, name>>, cid[p]), "await")
     \/ /\ NeverFound(mem[p], arg[p], <<OsUser>>)
        /\ Goto(p, "spin")
        /\ UNCHANGED <<mem, after>>
  /\ UNCHANGED <<arg, cid, forced, started, causes>> /\ Quiet

(* create follows the container's log until the server's line, or the end  *)
(* of the log; what it does in the server afterwards, successful or not,   *)
(* changes nothing here.                                                   *)
ContainerWaitForLogEntry(p) ==
  /\ pc[p] = "await"
  /\ End(p)
  /\ UNCHANGED <<started, causes>> /\ Quiet

-----------------------------------------------------------------------------
(* ContainerList without All: only running containers are listed.          *)
ContainerExists(id) == containers[id] = "running"

(* delete: of a context without a container, at once; else after a prompt. *)
Delete(p) ==
  /\ Readable /\ Begin(p, {})
  /\ file.current # NoName /\ file.endpoints # {}
  /\ IF CurrentContainers(file) = {}
       THEN /\ \E c \in WithoutCurrent(file) : Saves(p, c, "idle")
            /\ UNCHANGED <<cid, forced>>
       ELSE /\ Goto(p, "confirm")
            /\ mem' = Set(mem, p, file)
            /\ \E id \in CurrentContainers(file) : cid' = Set(cid, p, id)
            /\ \E force \in BOOLEAN : forced' = Set(forced, p, force)
            /\ UNCHANGED after
  /\ UNCHANGED arg /\ Quiet

Confirm(p) ==
  /\ pc[p] = "confirm"
  /\ (Goto(p, "check") /\ UNCHANGED locals) \/ End(p)
  /\ UNCHANGED <<started, causes>> /\ Quiet

Check(p) ==
  /\ pc[p] = "check"
  /\ Goto(p, IF ContainerExists(cid[p]) /\ ~forced[p] THEN "verify" ELSE "stop")
  /\ UNCHANGED <<locals, started, causes>> /\ Quiet

VerifiesNothing(p) ==
  /\ pc[p] = "verify"
  /\ IF containers[cid[p]] = "running"
       THEN Goto(p, "stop") /\ UNCHANGED locals
       ELSE End(p)
  /\ UNCHANGED <<started, causes>> /\ Quiet

(* ContainerRunning and userDatabaseSafetyCheck.                           *)
Verify(p) ==
  /\ pc[p] = "verify"
  /\ IF containers[cid[p]] = "running" /\ cid[p] \notin userdb
       THEN Goto(p, "stop") /\ UNCHANGED locals
       ELSE End(p)
  /\ UNCHANGED <<started, causes>> /\ Quiet

(* ContainerStop may fail.  Without a container to be seen the context goes*)
(* all the same.                                                           *)
StopContainer(p) ==
  /\ pc[p] = "stop"
  /\ IF ContainerExists(cid[p])
       THEN /\ \/ /\ containers' = Set(containers, cid[p], "stopped")
                  /\ Goto(p, "remove") /\ UNCHANGED locals
               \/ End(p) /\ UNCHANGED containers
            /\ UNCHANGED causes
       ELSE /\ \E c \in WithoutCurrent(mem[p]) : Saves(p, c, "idle")
            /\ causes' = causes \cup IF containers[cid[p]] = "stopped" THEN {"stopped"} ELSE {}
            /\ UNCHANGED <<containers, arg, cid, forced>>
  /\ UNCHANGED <<file, userdb, started, lost>>

(* ContainerRemove fails on a container that runs again, or is gone.       *)
RemoveContainer(p) ==
  /\ pc[p] = "remove"
  /\ \/ /\ containers[cid[p]] = "stopped"
        /\ containers' = Set(containers, cid[p], "gone")
        /\ lost' = lost \cup IF cid[p] \in userdb /\ ~forced[p] THEN {cid[p]} ELSE {}
        /\ \E c \in WithoutCurrent(mem[p]) : Saves(p, c, "idle")
        /\ UNCHANGED <<arg, cid, forced>>
     \/ End(p) /\ UNCHANGED <<containers, lost>>
  /\ UNCHANGED <<file, userdb, started, causes>>

(* A delete of this container is beyond its check for databases.           *)
PastCheck(id) == \E p \in Procs : cid[p] = id /\ pc[p] \in {"stop", "remove"}

(* start and stop: one call to the runtime, which may fail.                *)
StartOrStop(p) ==
  /\ Readable /\ file.current # NoName
  /\ \E id \in CurrentContainers(file), to \in {"running", "stopped"} :
       /\ Begin(p, IF PastCheck(id) /\ to = "running" THEN {"late"} ELSE {})
       /\ containers[id] \in {"running", "stopped"}
       /\ containers' = Set(containers, id, to)
  /\ UNCHANGED <<file, userdb, pc, locals, lost>>

-----------------------------------------------------------------------------
(* A process is killed, or ends with an error of the file system.          *)
Kill(p) ==
  /\ pc[p] # "idle"
  /\ End(p)
  /\ causes' = causes \cup {"killed"}
  /\ UNCHANGED started /\ Quiet

(* A container stops by itself.                                            *)
Exits ==
  /\ \E id \in Ids : /\ containers[id] = "running"
                     /\ containers' = Set(containers, id, "stopped")
  /\ UNCHANGED <<file, userdb, pc, locals, started, causes, lost>>

(* A SQL client creates the first user database, or drops the last.        *)
Databases ==
  /\ \E id \in Ids :
       /\ containers[id] = "running"
       /\ userdb' \in {userdb \cup {id}, userdb \ {id}}
       /\ causes' = causes \cup IF PastCheck(id) THEN {"late"} ELSE {}
  /\ UNCHANGED <<file, containers, pc, locals, started, lost>>

(* The steps of a process that has started.                                *)
Proceeds(p) ==
  \/ SaveBegins(p) \/ SaveEnds(p)
  \/ Use(p) \/ DropUser(p) \/ DropContext(p)
  \/ ContainerCreate(p) \/ ContainerStart(p) \/ AddContextWithContainer(p)
  \/ ContainerWaitForLogEntry(p)
  \/ Confirm(p) \/ Check(p) \/ Verify(p) \/ StopContainer(p) \/ RemoveContainer(p)

Starts(p) ==
  \/ AddEndpoint(p) \/ AddUser(p) \/ AddContext(p) \/ UseContext(p)
  \/ DeleteEndpoint(p) \/ DeleteUser(p) \/ DeleteContext(p)
  \/ Create(p) \/ Delete(p) \/ StartOrStop(p)

Next ==
  \/ \E p \in Procs : Starts(p) \/ Proceeds(p) \/ Kill(p)
  \/ Exits \/ Databases

Spec == Init /\ [][Next]_vars

(* Nobody has to answer the prompt of delete.  The log of a container that *)
(* runs need never hold the line create looks for; a container that stops  *)
(* ends its log.                                                           *)
Waits(p) ==
  \/ pc[p] = "confirm"
  \/ pc[p] = "await" /\ containers[cid[p]] = "running"

(* A process goes on unless it waits: the file system answers, and so does *)
(* the runtime, with a result or an error.  Nothing makes anyone start a   *)
(* command, stop a container, or answer.                                   *)
FairSpec == Spec /\ \A p \in Procs : WF_vars(~Waits(p) /\ Proceeds(p))
-----------------------------------------------------------------------------
(* Types.                                                                  *)
TypeOK ==
  /\ file \in Configs \cup {Torn}
  /\ containers \in [Ids -> {"never", "stopped", "running", "gone"}]
  /\ userdb \subseteq Ids
  /\ pc \in [Procs -> Steps] /\ mem \in [Procs -> Configs]
  /\ after \in [Procs -> {"idle", "use", "dropuser", "dropcontext", "await"}]
  /\ arg \in [Procs -> Names \cup {NoName}]
  /\ cid \in [Procs -> Ids \cup {NoContainer}]
  /\ forced \in [Procs -> BOOLEAN]
  /\ started \in 0..MaxCommands /\ causes \subseteq Causes /\ lost \subseteq Ids

(* No two entries of a kind have one name: what the lookups, which take the*)
(* first entry with a name, rely on.                                       *)
Unique(c) ==
  /\ \A x, y \in c.contexts : x.name = y.name => x = y
  /\ \A e, f \in c.endpoints : e.name = f.name => e = f
  /\ \A u, v \in c.users : u.name = v.name => u = v

(* Whatever commands run at a time and wherever they are killed.           *)
NamesUnique == (Readable => Unique(file)) /\ \A p \in Procs : Unique(mem[p])

(* The current context is a context there is: after deletes, and after     *)
(* saves of old copies over newer files.                                   *)
Listed(c) == c.current # NoName => ContextExists(c, c.current)

CurrentListed == (Readable => Listed(file)) /\ \A p \in Procs : Listed(mem[p])

AllIdle == \A p \in Procs : pc[p] = "idle"

(* No command is at work on the file.                                      *)
Settled == \A p \in Procs : pc[p] \in {"idle", "await"}

(* While commands run one at a time and to their end, some context is      *)
(* current as soon as there is one.                                        *)
CurrentChosen ==
  Settled /\ causes \cap {"killed", "overlap"} = {} /\ file.contexts # {}
    => file.current # NoName

Known(id) == \E e \in file.endpoints : e.container = id

(* A container that create made is one the file knows, for delete to find, *)
(* also while create still waits for the server in it (createContainer:    *)
(* "Save the config now, so user can uninstall/delete, even if mssql in    *)
(* the container fails to start").                                         *)
(* The causes are all there are for losing it: a command killed, two at a  *)
(* time, an endpoint deleted by a config command, a context deleted while  *)
(* its container is stopped, a container that could not be removed.        *)
NoOrphan ==
  Settled /\ causes \subseteq {"late"}
    => \A id \in Ids : containers[id] \in {"stopped", "running"} => Known(id)

(* delete without --force removes no user database, whatever other commands*)
(* run, unless one was created or the container started after the check.   *)
DataKept == "late" \notin causes => lost = {}

(* However often its container stops and starts, and whatever the other    *)
(* calls return, a command that does not end is one that waits: at the     *)
(* prompt of delete, for the log of a container that runs, or in the search*)
(* for a name (CreateEnds).                                                *)
CommandsEnd ==
  \A p \in Procs : []<>(pc[p] \in {"idle", "spin"} \/ Waits(p))
-----------------------------------------------------------------------------
(* What comments and the README say, and the code does not do.             *)

(* "Each time `sqlcmd create` completes, a new context is created (e.g.    *)
(* mssql, mssql2, mssql3 etc.)": the search for the name ends.             *)
CreateEnds == \A p \in Procs : pc[p] = "created" ~> pc[p] \in {"await", "idle"}

(* "It then stops and removes the current context's container, removes the *)
(* current context from the config file" (uninstall): also when the        *)
(* container has been stopped before.                                      *)
DeleteRemoves ==
  AllIdle /\ causes \subseteq {"late", "stopped"}
    => \A id \in Ids : containers[id] \in {"stopped", "running"} => Known(id)
=============================================================================
