# go-sqlcmd in TLA+

A model of go-sqlcmd: sqlcmd's command line and what it makes of arguments,
environment and configuration; the engine that reads and runs T-SQL batches
(`pkg/sqlcmd`, `internal/legacy`) with its variables, connections, writers and
formatters; the analysis of query plans (`internal/plan`); and the commands that
keep a configuration file and SQL Server containers (`internal/config`,
`internal/container`, `cmd/sqlcmd/root`). TLC checks the model on small instances;
TLAPS proves its main results for every value of the constants. Source lines are
those of the commit beside this directory; `PROJECT.json` maps every definition to
them.

## 1. The system

| part | state it keeps | operations | talks to |
|---|---|---|---|
| sqlcmd command line (`internal/legacy/sqlcmd.go`, `cmd/sqlcmd/main.go`) | the arguments, one `Sqlcmd` | `convertOsArgs`, `Validate`, `initializeEnvVars`, `setVars`, `setConnect`; `run`: connect, startup script, `-i`/`-q`/`-Q`/console, exit code | pflag, engine, signal handler |
| batch engine (`pkg/sqlcmd/sqlcmd.go`, `commands.go`) | `Sqlcmd`: batch, reader, `echoFileLines`, `Connect`, `Exitcode`, writers | `Run`, `IncludeFile`, `RunCommand` and a handler per command | itself (`:r` and `ED` re-enter `Run`), the reader, `runQuery`, the console |
| batch reader (`batch.go`, `parse.go`) | `Buffer`, `batchline`, quote, comment, `varmap`, `raw` | `Next`, `append`, `Reset`, `State` | the engine |
| query execution (`runQuery`, `handleError`) | locals `retcode`, `qe`; `Exitcode`, the session | one call per GO or EXIT | driver, server, formatter |
| read-only scanner (`readonly.go`) | position in a text | `CheckReadOnly` | GO, EXIT, end of file |
| variables (`variables.go`) | map of names and values | `Setvar`, `Set`, `Get`, typed getters | engine, formatter, connection |
| formatters (`format*.go`) | widths, column details, rows kept back | `BeginBatch` .. `EndBatch` | `runQuery`, writers |
| connection (`connect.go`, `dialer.go`, `util.go`) | `ConnectSettings`, the dialer's first address | `ConnectDb`, `ConnectionString`, the dialers | driver, proxies |
| plan analysis (`internal/plan`) | open elements while parsing | `Parse`, `Analyze` | `plan analyze` |
| configuration store (`internal/config`) | contexts, endpoints, users, current context; the file | add, delete, use, find a unique name, `Load`, `Save` | viper, the commands |
| lifecycle commands (`root/install`, `uninstall.go`, `start.go`, `stop.go`) | none beside the store | `create`, `delete`, `start`, `stop` | store, controller, user, `internal/sql` |
| container controller (`internal/container`) | none | `ContainerRun`, `Stop`, `Start`, `Remove`, `Exists`, `Running`, `Files` | container runtime |
| console, output, secrets, localisation, command framework, tools | | | |

What is hard in it, and what makes each part correct:

* **Engine.** `Run` is re-entered by `:r`, `ED` and the startup script, so every
  handler runs at any depth, and `batch.read`, the line number and the echo flag
  must be what they were when an inner `Run` returns. Errors travel through three
  channels at once: the returned error, `ErrExitRequested`, and `Exitcode`. A run
  told to end must not go on, and each kind of error has its own idea of which
  levels it ends; an exit code once set must not get lost; text that has run must
  not run again; read-only mode must see all text that is sent.
* **Query.** Messages arrive in any order; `retcode` and `qe` carry over from one
  to the next. A fatal error must reach the caller whatever follows it, and plan
  collection that was turned on must be turned off on every path.
* **Texts.** Four scanners read text piecewise (`Next` line by line, `CheckReadOnly`
  with a function per construct, the words of the command line one ahead, the plan
  parser with functions that each count open elements): each is right if it agrees
  with one pass over the whole. The formatters cut, wrap and pad with counters that
  live across calls.
* **Session.** `:setvar`, `:connect`, `:out` and `:error` replace one thing that
  others rely on: a value numbers are taken from, settings, a stream two writers
  may share. Server, user and password come from four sources, each filled in
  where the ones before left something out. A dialer rewrites the first address of a connection and no later one.
* **Store and commands.** Each process reads the file once and writes back all of
  it, without a lock; the write empties the file first; `delete` waits at a
  prompt, then asks and changes the container runtime in separate calls; `create`
  makes a container before anything records it, then replaces the server's
  administrator in ten statements. Names must stay unique, the current context must
  exist, containers must not be orphaned, user databases must not be removed
  unasked, and somebody must always be able to log in.
* A signal handler calls `os.Exit(0)` from another goroutine between any two steps.

## 2. Modules

```
QueryResults ------------------------------+
   |                  |                    |
QueryCall          SqlcmdRun            QueryRun ---- implements ----> QueryCall
(one query)        (engine)             (message loop)
                      |                    |
                   LegacyRun            QueryRun_proofs
                   (process)
                    /      \
          MCLegacyRun    LegacyRun_proofs

Sqlconfig ---- Lifecycle ---- MCLifecycle
(the record)   (processes) -- Lifecycle_proofs

ReadOnlyScan  BatchScan           Formatter         Plan    --- MCTexts
                  |                   |
           BatchScan_proofs   Formatter_proofs
                   \_____________/
                      Induction

CommandLine  Session  Writers  Connection  Provision        --- MCSession
   \____________|________|_________/           |
            Session_proofs              Provision_proofs
```

| module | models | how |
|---|---|---|
| `QueryResults` | what a query can return | `QueryOutcomes(onError, level, exitcode)`: triples of error, return value and exit code |
| `QueryCall` | the promise of `runQuery` to its callers | two states, `Call` and `Return` with one of `QueryOutcomes` |
| `QueryRun` | `runQuery`, `handleError` | one action per statement that talks to the server and per message kind; locals `retcode` and `qe` are the record `s` |
| `SqlcmdRun` | `Run`, `IncludeFile`, `Batch`, commands | the Go stack is the sequence `frames`, one record per active `Run`; a step is one turn of `Run`'s loop, the return of a query, or the return of a `Run` |
| `LegacyRun` | `run()` of `internal/legacy` | the engine embedded in the life of a process: `Connect`, `StartupScript`, `Main`, `NextFile`, `FileDone`, `Signal` |
| `BatchScan` | `Next`, `append`, `readString`, `readVariableReference`, `getRunnableQuery` | a line is a sequence of tokens; `NextLine`, `StartScript`, `Go`, `ResetCommand`, `Connect`, `FileEnds`; `varmap` holds places in the buffer |
| `ReadOnlyScan` | `CheckReadOnly` and the functions it scans with | a query is a sequence of tokens, a word one of 14 classes; a step is one statement |
| `CommandLine` | `convertOsArgs`, `Validate`, `initializeEnvVars`, `setVars`, `setConnect`, whether a console is needed | words become flags; parsed arguments, environment and context become variables and a login |
| `Session` | `Variables`, `setvarCommand`, `ParseValue`, `connectCommand`, `ConnectDb` | variables, `Connect` and the settings that the open connection was made with |
| `Writers` | `SetOutput`, `SetError`, `outCommand`, `errorCommand`, `WriteError` | writers are names of streams or handles; `opened` and `encoders` are the operating system's side |
| `Connection` | `splitServer`, `ConnectionString`, the three dialers, `NO_PROXY` | from a name to the addresses dialed; the driver (browser, pipe fallback, redirects) is external |
| `Formatter` | `format.go`, `format_ascii.go`, `format_csv.go`, `format_jsonl.go`, typed getters | an action for each call of `runQuery`, `LoseRow` where a row cannot be scanned; the text written is a sequence of characters made so that it can be read back |
| `Plan` | `extractFromCSV`, `splitDocuments`, `Parse` and its `parse...` functions, `Analyze` | the Go stack is `stack`, a record of what, depth and value per function; a step is one token |
| `Sqlconfig` | `internal/config` in memory | operators from configuration to configuration, and the three searches for a free name |
| `Lifecycle` | the commands, several processes | file, containers and databases shared; a copy of the file and a program counter per process; `Save` is two steps; `Kill` at any step |
| `Provision` | `mssql-base.go`, `internal/sql` | one `create` from its options to "ready": a step per call to the runtime or the server, the server accepting or refusing each statement |

`MCTexts` and `MCSession` each join components that share no state, so that a
behaviour belongs to one of them and the others stay where they start; the runs
check every part in one go.

Text is abstracted to what the properties tell apart. In `SqlcmdRun` a line is a
record saying whether it is blank, holds a statement read-only mode rejects, holds
a variable, and ends inside a quote or a comment; `BatchScan` and `ReadOnlyScan`
have the tokens that decide this. A name in the configuration is a word with a
numeral behind it, as the searches build them. A cell is a sequence of a row's
digit. A host is the sequence of its labels.

Things that are as the code does them and easy to overlook:

* `Settle` is the end of a turn of `Run`'s loop with its order of tests: an exit
  request or `once` leaves before the error is looked at (`sqlcmd.go:186`).
* The end of a file sets `once` and runs GO on what is left, in the same turn.
* A configuration copy is changed in memory together with whatever precedes it,
  because nothing else sees it before `Save`; the two halves of the write and every
  call to the container runtime are steps of their own. The `ContainerExists` that
  guards the stop is the exception: it is taken in one step with the stop, because
  a container that stops or goes in between gives the outcomes the step has anyway.
* `writepos` of the default formatter lives across cells, and is set back only by a
  line end that the formatter itself writes.
* `ConnectDb` sets `Connect` and the variables after the connection is open; the
  order is in `Connected`, and the failures before it change nothing.
* `Query` of `internal/sql` calls `Run` with `once`: `Provision` goes on after a
  refused statement.

History variables (`seen`, `before`, `started`, `causes`, `lost`, `swallowed`,
`displaced`, `told`, `asked`, `refused`) record what has happened; no action reads
them except for the bound `MaxCommands`.

`Folded` and `Strictly` are a fold and a `LET` whose intermediate values are bound
by a quantifier: TLC evaluates them once instead of once per use.

Operators that stand just before a definition and change it as a slip of the hand
would (`SettleKeepingExit`, `SaFirst`, `CellPadsFirst`, ...) are used by no
specification. Each property has one that breaks it: the entries `mutants`.

## 3. What the runs check

| run | instance | properties |
|---|---|---|
| `engine` | nesting 3, GO 1..2, one `-i` file, all six modes with the pairs of `-b`, `-V`, read-only in `MCStarts` | `TypeOK`, `NestingRestores`, `SeparatorCounted`, `NoSilentReplay`, `ReadOnlyHolds`, `ErrorEndsRun`, `ErrorLevelSet`, `NonzeroExitKept` |
| `query` | `-V` 0, 10, 16; plans off, actual, estimated; severities 10 and 16 | `TypeOK`, `ExitReported`, `PlanModeEnds`, `KeepsContract` |
| `texts` | queries of up to four lexical tokens before a statement, and of up to three words; batches of up to 6 tokens from 22 kinds of line; five tables under 22 settings and every formatter; every operator tree of up to three operators | `VerdictRight`, `StateFollowsText`, `ValuesInPlace`, `LinesFit`, `RowsPrinted`, `ColumnsAligned`, `PlansFound`, `TreeParsed`, `OriginReported` |
| `session` | command lines of up to four words; every mix of sources of a login; `:setvar` texts of up to three tokens and longer ones; three open files; 56 server names with proxies, exclusions and redirects; 45 kinds of `create`, with and without the image | `ArgumentsMeant`, `SourcesInOrder`, `PairsTogether`, `DefaultsPresent`, `ValueAsWritten`, `SettingsOfConnection`, `RestrictionsKept`, `WritersOpen`, `ProxyKept`, `InitialDialAtServer`, `RedirectsFollowed`, `AdministratorRemains` |
| `commands_alone` | one process, two containers, four commands, fair | `CurrentChosen`, `NoOrphan`, `CommandsEnd` |
| `commands_together` | two processes, one container, four commands, symmetric processes | `TypeOK`, `NamesUnique`, `CurrentListed`, `DataKept` |

**Engine.** `NestingRestores`: the reader, the echo flag and what inner runs will
restore match the call stack, at any depth and whatever ends an inner run.
`SeparatorCounted`: a variable position is never beyond its variable, so
`getRunnableQuery` never slices past the end. `NoSilentReplay`: when a line is
read, text that has run without error is in the buffer only if the last GO n or
EXIT that sent it left it there: a later one of the n runs failed, or EXIT(query)
ended the file it was in and something goes on behind it. Errors elsewhere do not
count. `ReadOnlyHolds`: no path sends a rejected statement. `ErrorEndsRun`: a run
that has to end reads and sends nothing more. Which runs have to end depends on the
error. EXIT, QUIT and a SQL error under `-b` end the run they occur in only: `Run`
turns the exit request into no error (`sqlcmd.go:186`), and the file that included
the failing one goes on, although the help of `-b` says that sqlcmd exits. Any other
error under `ExitOnError` ends the callers too, up to the nearest `ED`.
`ErrorLevelSet`: an error seen with `-b` shows in the exit code, save for
`errorlevel` below. `NonzeroExitKept`: only EXIT(query), ctrl-c and a signal bring
an exit code back to 0.

**Query.** `KeepsContract` is the refinement `QueryRun` => `QueryCall`: it is what
entitles the engine model to a query that returns in one step.

**Texts.** Each component is compared with a reference made another way: over the
whole text where the code goes piece by piece. `VerdictRight`: a lexer of one pass
marks code, strings and comments, and rules over words say where statements begin
and what each one is; `CheckReadOnly` rejects no text without a statement of a
rejected kind, and accepts none with such a statement, but where no `;` stands in
front of it. There the code and its comment part: "if any are found"
(`readonly.go:25-26`) against "skip past the rest of this statement to the next ';'"
(`:40`), so that `SELECT 1` and on the next line `DELETE t` is accepted.
`Unseparated` names these statements. `StateFollowsText` and `ValuesInPlace`:
whatever lines a batch comes in, the quote and comment carried from line to line
are those of the whole, and the query is the whole with its references replaced;
`:connect` and `:r` come between the lines and change the line number. Two kinds of
batches are excepted and named: `swallowed`, and `displaced`, where a line after a
`:connect` (`sqlcmd.go:320`) or after a `:r` behind an empty first line (`:376`) has
a reference, whose place is then counted without the separator.

`LinesFit`: no line of headings, cells or errors of the server is longer than the
screen. PRINT messages (`format.go:246`) and errors of a scan (`:204`) are, against
the comment at `variables.go:156`; they are written and excepted. `RowsPrinted`:
reading the output back gives every row, once, in order, in every segment of
columns, and a row that is missing has its error on the error stream.
`ColumnsAligned`: headings, dividers and rows of a table are equally long, but for
columns wider than the cap of 8000 on headings (`format.go:316`, `MaxPad`), which
cells do not have. `PlansFound`, `TreeParsed`: documents are found in every kind of
export, and each operator has its own rows, object, warnings and children as read
off the element tree. `OriginReported`: a wrong estimate is traced down to where
the rows come from.

**Session.** `ArgumentsMeant`: the words added for pflag change no flag.
`SourcesInOrder`: for the server and for the user, flags come before `-v`, `-v`
before the environment, the environment before sqlconfig. `PairsTogether`: without
`-P` and `-X` the password is the environment's if that names a user, else
sqlconfig's, and a user nobody named on the command line is the one beside it. A user
named by `-U` or `-v` gets the same password, whosever it is: `main.go:92-96` and
`legacy/sqlcmd.go:767-771` keep pairs together only between environment and
sqlconfig, and the repository's README documents `-U` with `SQLCMDPASSWORD` for
service principals. `DefaultsPresent`: no `:setvar` without a value, however
spelled, takes a number's variable away. `ValueAsWritten`: the value is what quoting
stands for; of texts with a quote inside and none around them, which
`variables.go:317` refuses and `:321-329` partly takes, it is only said that they
are taken as they are. `SettingsOfConnection`: server, user and flags of the
settings are those of the open connection, however `:connect` fails; variables may
run ahead of it. `RestrictionsKept`: `-X` and `-x` outlive every `:connect`.
`WritersOpen`: no sequence of `:out` and `:error` leaves a closed writer in use, a
standard stream included. `ProxyKept`, `InitialDialAtServer`, `RedirectsFollowed`:
every connection, also to the browser and behind redirects, goes through the proxy
or is excluded; the first goes to the host of `-S`, later ones where the server
says, except that after a login to a named instance the dialer goes by the host
alone (`dialer.go:97`) and takes a redirect on the same host for the first dial,
against `dialer.go:45`. `AdministratorRemains`: killed anywhere, `create` leaves a
server that somebody can administrate.

**Commands.** `NoOrphan` says which containers the file may lose: the set `causes`
names a killed command, two commands at a time, a `config` command that deletes
the endpoint, a `delete` of a stopped container, a container that could not be
removed. If none of them happened, every container is known to the file.
`DataKept`: `delete` without `--force` removes a container with a user database
only if the database was created, or the container was started, after the check;
the stale copies and the races of two deletes do not do it. `CurrentListed` and
`NamesUnique` hold through lost updates because every copy satisfies them.
`CommandsEnd`: a command that does not end is one that waits, at the prompt of
`delete` or, in `create`, for a line in the log of a container that runs
(`controller.go:172-199` has no limit), or one in the endless search below.
`CurrentChosen` and `NoOrphan` speak of a command waiting there too: the file has
been written by then.

### Where the code departs from what it says

| run | what it shows |
|---|---|
| `errorlevel` | with `-b`, an error in the text of `-q` or `-Q` itself leaves exit code 0 |
| `failure_reported` | a deadline or network error inside the results has severity 0: under `-b` the query counts as successful |
| `create_ends` | after `config delete-context mssql2`, which leaves the user, the next `create` that needs `mssql2` searches for ever, its container already running and unknown to the file |
| `delete_removes` | `delete` of a stopped container skips the database check, calls the container gone, and leaves it |
| `plan_statements` | the parser counts a statement's plan as still open, so the next statement is read as part of it |
| `user_created` | `create` reports a ready server although the server refused the login it made for it, with sa already disabled |

`create_ends` starts from the file two creates and a delete-context leave
(`LaterInit`), a state `commands_alone` passes through, to keep the run short.
`TreeParsed` looks at documents without the defect of `plan_statements`, and
`AdministratorRemains` leaves out servers that refuse the login (`user_created`).

Smaller observations, where the model follows the code and no property rests on
the difference:

* Engine: `:connect` without arguments ends in a panic (`commands.go:495`; not
  modelled). An empty last result
  set returns the value of an earlier one. `:r` nests without limit.
* Reader: a `--` inside a text that has several lines (`-q`, EXIT) swallows the
  later lines, quotes and variables with them (`swallowed`).
* Formatters: headings are cut by bytes to a count of runes; a row that fills the
  screen exactly is followed by an empty line; `VARBINARY` is cut to its number of
  characters, 0x included; ascii columns of three characters show dots only; the
  ascii formatter ignores `-k` and `:XML`; the vertical layout is chosen if
  `SQLCMDFORMAT` changes to anything else after the start; CSV has one form for NULL
  and "NULL"; JSON lines start only with a row whose first value is a string, and
  keep the last of columns with one name; the severity filter compares modulo 256;
  a `SQLCMDCOLWIDTH` that is no number, the empty text included, ends in a panic.
* Command line: `HEADERS`, `ERRORLEVEL` and `STATTIMEOUT` of the environment are
  overwritten by defaults; `:connect -U` under `-E` stays integrated; `-u` leaves
  files open behind their encoders; the read-only check looks a name up as spelled.
* Plan: of several rows with unquoted headings only the first is read; a text that
  is one quotation mark ends in a panic; a statement inside a statement is lost.
* `create`: the port is chosen before the image is pulled; sa's first password stays
  readable in the container's environment; the new owner's name is not quoted; the
  download's exit code is not looked at.

### Bounds

`MaxDepth` 3 has a file inside a file inside a run, which is where restoring can
go wrong; a fourth level repeats the third. `MaxGo` 2 separates the first, a middle
and the last run of GO n. One `-i` file and the startup script make two calls of
`IncludeFile` by the host. For `engine` a query is what `QueryOutcomes` makes of one
error of severity 16, a row code 0 and an error number 16, under `-V` 0 and 16: an
error that exceeds the level and one that does not, and an exit code that is 0
although the query ran. `query` has messages of severity 10 and 16 with `-V` 0, 10
and 16, and codes of rows and errors that differ from 0, 1 and the severities, so
that sources of an exit code stay apart.

`MaxText` 6 lets an open quote or comment, a reference and a line end meet in every
order. Four lexical tokens are what a nested comment or a doubled quote takes; with
words the instance is three, and `Longer` adds a fourth where a keyword is looked
for behind parentheses. Widths 5 and 9 are less than, equal to and more than the
cells; at 7 an ascii column has three characters, and shows dots. Columns have 0, 1,
2 and 5 characters of heading against 1, 3 and 4 of value. A message has 10
characters, more than every width that limits it; `MaxPad` 5 stands for 8000, below
the variable width of 7 that one setting has. Two rows are what a row kept back and
its successor take, and one row lost in a result set is first, last or alone. Trees of one, two and
three operators, as chain and as join, have every case of the walk; documents of
2, 4 and 5 statements let the miscount of `plan_statements` add up.

Four words are two flags with values or one with a list. Three handles: one for
each writer and one to change to. The server names are all protocols, with and
without instance and port, of one host, so that hosts which differ are wrong.
`YFirst` keeps `:setvar y` before the first connection, as `y` does not meet
`:connect`.

Four commands suffice for create, create, delete and one more, or for two pairs at
a time; `MaxPostfix` 5 is beyond every numeral four commands can need. Names are
asked for from one word, so that every search meets taken names. Two processes show
every pairwise race; three would add no shared variable. `Databases`, `Exits` and
`Kill` are unbounded.

`CHECK_DEADLOCK FALSE` stands in the lifecycle runs, where nothing need happen when
`MaxCommands` commands have been started and no container exists, and in `texts`,
`session` and their violations, where a text has been read or a command has ended.

### Fairness

Only `CommandsEnd` and `CreateEnds` need it. `FairSpec` asks weak fairness of
`~Waits(p) /\ Proceeds(p)`, the next step of a process that has started and does not
wait: a Go program goes on unless a call blocks, and the calls of the container
runtime and of the file system answer with a result or an error. `Waits` are the two
that need not: nobody has to answer the prompt of `delete`, and the log of a
container that runs need never hold the line `create` looks for. A container that
stops ends its log. Nobody has to start a command, stop a container or create a
database, and a kill is never required. `CommandsEnd` says that a process is idle,
waiting or in the endless search (`spin`) again and again; `CreateEnds` then shows the
search and counts a `create` that waits for the log as one that has its name.

## 4. What is proved

`LegacyRun_proofs`, for every `MaxDepth`, `MaxGo`, `MaxFiles`, `Starts` and set of
codes: `TypesCorrect`, `NestingRestored`, `SeparatorsCounted`, `ReadOnlyMode`,
`ExitCodeKept`, `NothingReplayed`, `ErrorsEndRuns`, `ErrorLevelsSet`. The bound on
nesting is one constant among others there, so they hold at any depth.

* The first five come from `EngineInv`, by a lemma per shape of step: `Settle` keeps
  the shape of the stack, `IncludeFile` pushes a frame that records the reader and
  echo flag of its caller, `RunReturns` pops it. Read-only mode needs the invariant
  extended by what the call in flight carries.
* The other three speak of errors that travel through several runs. `Outcome` says
  where an error may be between two steps: where a run has to end, the innermost one is
  returning, and if that is another one it returns an error that every run between
  passes on (`EndsPassed`); a run that was told to stop returns next (`OnceReturns`); an error
  that was seen has left its code (`ErrorLevel`); text that has run without
  error is in the batch only until its GO n is over (`SentHere`). `HostRuns` says which run is at
  the bottom of the stack, so that one returning to the host is known to be a file
  or the main run. None of the three properties is inductive without them: a step
  that returns an error must know what its caller has seen before.

`QueryRun_proofs`, for every set of row values, severities up to 255 and numbers:
`TypesCorrect`, `ExitsReported`, `PlanModeLeft`, and `ContractKept`, that
`QueryRun` implements `QueryCall`. None of them is inductive alone. The invariant
adds: what the locals and `Exitcode` may be while the loop runs (`Promised`: every
state the loop can be in ends in one of `QueryOutcomes`); before the query is sent
the locals are untouched; once a fatal error has been seen `qe` is the exit
request and the loop reads no more; plan mode is on only between the two
statements or after one of them failed.

`Lifecycle_proofs`, for every set of processes, names and containers:
`TypesCorrect`, `NamesStayUnique`, `CurrentStaysListed`, `DataStays`,
`CurrentStaysChosen` and `NothingOrphaned`.

* The first three come from one invariant, `Correct`. Its core is `Good`: a
  configuration has its type, unique names and a current context that exists. Every
  operation of `Sqlconfig` takes a `Good` configuration to a `Good` one (the `*Good`
  lemmas), the searches for a name end with a free one, and what a process carries
  from step to step is enough for the next (`Sure`: after `AddContext` the copy to be
  saved has the context that will be made current; `create` holds a name, `delete` a
  container). Uniqueness holds of files although a Save of an old copy undoes newer
  entries, because each file is one process's copy as a whole, or empty, or torn.
* `DataStays` needs to know that nothing starts the container of a `delete` that is
  past its check unseen. `start` and SQL clients are noted in `causes` as `late`;
  the other call that starts containers is the one in `create`. `OutKnown` says a
  container that `create` has yet to start is in no file, no copy and no other
  process, so it is not the one being deleted; `AllSafe` says what an unforced
  `delete` at `stop` or `remove` relies on.
* `CurrentStaysChosen` and `NothingOrphaned` speak of the moments when no command
  runs or the one there is waits for the server (`Settled`), and are lost in between: `delete` takes the current context away before it
  chooses another, the file is empty while it is written. `Alone` follows the one
  command there is through its steps: while it only reads, its copy is the file;
  while it writes, the copy is what will be there. `Kept` follows the containers:
  each one that is alive is in the copy to be saved, or is the one a `create` has
  begun and not entered. `Moves` states what all steps have in common, so that the
  case of each action is to show that it `Moves`.

`Provision_proofs`, for any options: `SomebodyIn`. The invariant keeps the list of
statements that are left `InOrder` (what makes the user stands before what takes sa
away), which `Work` is (`WorkInOrder`) and every rest of it stays (`TailInOrder`).
While something that makes the user is left, sa is there; when nothing is left,
the user was made or the server refused.

`Session_proofs` holds what is proved of four components without shared state.
For any command lines, environments and contexts: `SourcesOrdered` and `PairsKept`.
Each step of the start is a function of what was given (`LInv`), so both come down
to what `initializeEnvVars`, `setVars` and `setConnect` make of it (`LoginFrom`). For any
`:setvar` lines, `:connect` commands and environments: `DefaultsStay`,
`SettingsStay`, `RestrictionsStay`. `DefaultsPresent` and `SettingsOfConnection` are
inductive together with the shape of the variables; `UnsetAssumption` says that
`Unset` is not the default that is compared with it. For any set of handles:
`WritersStayOpen`, standard streams included. `WritersOpen` is not inductive: two writers could share a handle,
and the change of one would close it under the other. The invariant adds that they
never do.

`ValuesTaken`, for any texts of strings: what `ParseValue` leaves of the text, after
`RemoveComments` and `TrimSpace`, is a value that is written there, and it refuses
a text that writes none (an undelimited text it takes as it is or not at all). The
reference says how a value is written (`Quoted`,
`StandsFor`); the code reads. `Closed` is the part of a quoted value after its first
quote; `Reads` relates it to what the code has at each place of the text, from the
end: the value whose `Closed` is the rest of the text, or `Unset` where the rest is
`Closed` of none. The step back by one place needs all that such a rest can begin with
(`Opened`): the last quote, a token that is no quote, or two quotes for one.

`ArgumentsKept`, for lines of any length: pflag reads from what `convertOsArgs` makes
what the user's words mean. Three computations go over the line: the words that are
added (`ConvBy`), pflag's over their result (`FlagsBy`) and the meaning (`AllBy`).
`Right` says of a place in the line that pflag makes of the words from there what is
left of the list it is in, and then what the flags after it mean. It holds at the
places `Between` two of pflag's readings (at a flag, or in a list after its first
word) and is shown from the end of the line to its beginning (`Back` in `Induction`),
with a case for each kind of flag: one alone, one with a list, with a list and the
first file attached, with a value, with a default that is added.

There too, for any names, overrides, exclusions and redirects: `AroundTheProxy`,
`ServerDialedFirst`, `RedirectsDialed`. The invariant `CInv` says
that the login and the dialer are those of the connector for the settings (`Made`),
which requests the driver may have made before and after a redirect, that the last
connection is what the dialer makes of the last request, and that no pipe follows
with a proxy. What the program computes backwards from the end of a name (`Suffix`)
and what the documentation calls below a domain are the same (`BelowIsSuffix`,
`MatchedIsExcluded`); `ExclusionsAssumption` is needed there: a domain is no
address, which `matches` looks for first, and it is not empty: an entry without a
host (`:1433`) is left out. `NoneAssumption` says that no
value stands for a host, an address or a dialer.

`Formatter_proofs`, for any settings, tables, contents of cells, classes of errors
and lengths of messages: `LinesStayFit`. The invariant `FInv` says that between two calls the
formatter is at the start of a line (`writepos` is 0), that what it has written so
far fits and ends with a line end, and what the rows kept back are made of. Inside a
call `Wraps` relates a text to the position of its writer: the position is what
came since the last line end. Each character that `writeOut` or `fitToScreen` adds
keeps it (`PutKeeps`, `FitKeeps`); headings repeated between rows, which do their
own wrapping, fit and end their line, so that they may stand between lines
(`ConcatScreens`). Messages and errors of a scan bypass the wrapping and need not
fit; that they end their line keeps them from spoiling another (`Breaks`,
`PlainFits`).

`BatchScan_proofs`, for any lines and scripts and any length of a batch:
`TextFollowed`. `Next` sees a line at a time and jumps over references, doubled marks
and comments; the reference (`Modes`) goes over the whole text token by token.
`Agrees` relates the two in the middle of a chunk: the mode behind the token before
the scan's is the one that its quote and comment show. Every turn of the loop keeps
it (`TurnAgrees`, by a lemma per kind of jump: `PassesRef`, `PassesPair`,
`PassesComment`), and every turn moves on (`TurnMoves`), so that the scan ends
(`ScanEnds`) and agrees there. From line to line the invariant `BInv` says more than
the property: the mode behind the batch is one of `Between`, never in the middle of
a reference, of a doubled bracket or of the start of a comment, for only then is
the line end that is put before the next line read in the same mode by both
(`SamePrefix`, `BehindSeparator`). After a command nothing was read that changes
the mode (`ScanStops`). `swallowed` stands in the invariant as in the property: a
`--` that hides later lines of a script (section 3) hides their quotes too.
`:connect` and `:r` change only the line number, which quotes do not depend on.

There too, `ValuesPutInPlace`: the query is the batch's text with the variables of
the text as a whole replaced. `Noted` adds to the invariant that the places `Next`
has put into `varmap`, a line at a time and each moved by what stood before the
line, are the references of the whole text (`Places`), and that each one is
complete (`Whole`). Within a line `Collects` says that the scan has noted what the
reference meets up to here and nothing else; every turn keeps it (a lemma per kind
of jump again), so the scan collects the line's references (`ScanCollects`), and
those of a batch and of the next line are those of both (`ReferencesJoin`,
`PlacesJoin`). `Next` counts a separator by the line number (`Inc`) and `append` writes
one by the buffer (`Separator`): where a line with references finds the two apart it
is `displaced`, which stands in the invariant as in the property. That a line is scanned in the mode the reference reads it in is
`Follows` of `StateFollowsText`. What is made of the places is `RunnableRight`: the
query is built from one place to the next, the reference token by token from the
end, and from any token on the two have put the same text together.

`Induction` has what such proofs need and the library gives only with an operator as
a parameter: induction over numbers, the existence of a function that is defined by
its value before or behind, and what such a function keeps, with a set in place of
the operator. With it a fold or a recursive function can be reasoned about.

Assumptions are those of the modules: `BoundsAssumption`, `StartsAssumption`,
`QueryAssumption`, `ConfigAssumption`, `LifecycleAssumption`, `HandlesAssumption`,
`UnsetAssumption`, `TextsAssumption`, `LinesAssumption`, `NamesAssumption`, `ExclusionsAssumption`, `NoneAssumption`,
`FormatterAssumption`,
`TokensAssumption` and the assumption on codes in `QueryResults`. TLC evaluates them in
the runs. What the last proofs ask of the constants is that texts, values and command
lines are sequences of strings, and that `Unset` is none of them.

Model-checked only: `VerdictRight`, `RowsPrinted`, `ColumnsAligned`, `PlansFound`,
`TreeParsed`, `OriginReported`; and everything temporal with fairness (liveness and
`ENABLED` are out of the prover's reach). The three of `Plan` stay so: it declares
RECURSIVE operators, which no theorem may reach. The other three compare a scan, or a
row that is laid out piece by piece, with a second computation over the same data, as
`ValuesPutInPlace` does, and would need proofs of that kind; none has been made. What is
known of them is what TLC finds for the short texts, trees and tables it tries.

## 5. What is not modelled

* Command line: the texts of help and of messages, `-L`, `-x` and the version. What
  pflag does with the words is external, modelled by how its results are used.
* Within the engine: `:LIST`, `:LISTVAR`, `:HELP`, `:SERVERLIST` and `!!` are commands
  that return an error or none; what they write is left out. The temporary file of
  `ED` is not tracked, nor the panic of `:connect` without arguments.
* Formatters: the text of single values (dates, floats, times, binary) is its width.
* Connection: tokens of `azure_auth.go` come from a library; the text of the
  connection string is its parts.
* Plan: the text, summary and JSON views of the result are layout.
* Within the lifecycle: addresses, ports, passwords, tags. The order of the lists in
  the file is left out, so that after a deletion any remaining context may become
  the current one. Two overlapping writes give the later copy or a file no process
  can read.
* Nothing holds a context whose endpoint has been deleted against the panic its next
  use ends in, a reader that fails for ever against its endless messages, and the
  signal handler against the statements it interrupts: no line of the repository
  promises otherwise. They are listed under `hazards` without a property.
* Console editing, output of the modern commands, secrets, the Windows credential
  store, localisation, the command framework, opening other tools, linter and test
  server: input and output, system interfaces, or generated code (the message
  catalogue alone is a fifth of the lines).

## 6. Plan

Done, in this order: the engine and its process; the query loop and its contract;
the store and the lifecycle commands; proofs of all three; the scanners of batches
and of read-only mode; the formatters; plan analysis; command line, variables,
connections and writers; the work of `create`; proofs about these five, of the
variables in a batch and of the texts of `:setvar` and of the command line last.

Next:

1. Proofs of what else `texts` checks: `VerdictRight` (the lexical state after each
   token determines what `CheckReadOnly` still looks for), then the two of `Formatter`.
2. Liveness of the engine: a run at the end of its input returns; a reader that
   keeps failing does not.
