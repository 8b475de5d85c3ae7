------------------------------ MODULE LegacyRun ------------------------------
(***************************************************************************)
(* internal/legacy run(): the life of one "sqlcmd" process.  It connects,  *)
(* includes the startup script, then runs the query, the console or the    *)
(* input files through the engine of SqlcmdRun, and exits with the code    *)
(* the engine left.  A signal ends the process between any two steps.      *)
(***************************************************************************)
EXTENDS SqlcmdRun

CONSTANTS
  Starts,     \* command lines: pairs of a mode and the engine's options
  MaxFiles    \* bound: input files given to -i

VARIABLES
  mode,     \* what the command line asks for
  host,     \* where run() is
  file      \* input files opened so far

vars == <<engine, mode, host, file>>

(* -Q; -q and no -i, or neither, on a terminal or on a pipe; -i.           *)
Modes == {"query", "initial", "pipedinitial", "console", "piped", "files"}

(* Query is set before Run is called.                                      *)
Asks == mode \in {"query", "initial", "pipedinitial"}

ASSUME StartsAssumption == Starts \subseteq Modes \X Options /\ MaxFiles \in Nat

Hosts == {"connect", "script", "inscript", "main", "inrun", "files", "infile",
          "done", "killed"}

Ended == host \in {"done", "killed"}

(* At the end of the input Run runs what is left unless the lines come     *)
(* from a terminal (isInteractive), with or without -q.                    *)
ProcessAll == mode \notin {"console", "initial"}

Goto(from, to) == host = from /\ host' = to

(* run() returns 1 when the connection cannot be opened.                   *)
Connect ==
  \/ Goto("connect", "script") /\ UNCHANGED <<engine, mode, file>>
  \/ /\ Goto("connect", "done")
     /\ exitcode' = 1
     /\ UNCHANGED <<opt, frames, reader, echo, batch, exitOnError, ignoreError,
                    pc, call, ret, seen, mode, file>>

(* SQLCMDINI names a script, or none that can be opened.                   *)
StartupScript ==
  \/ Goto("script", "inscript") /\ StartFile /\ UNCHANGED <<mode, file>>
  \/ Goto("script", "main") /\ UNCHANGED <<engine, mode, file>>

(* err = nil and Exitcode = 0, or nothing else is run.                     *)
ScriptDone ==
  /\ Goto("inscript", IF ret = "none" /\ exitcode = 0 THEN "main" ELSE "done")
  /\ pc = "idle"
  /\ UNCHANGED <<engine, mode, file>>

Main ==
  /\ \/ /\ mode # "files" /\ Goto("main", "inrun")
        /\ StartRun(mode = "query", ProcessAll, Asks)
     \/ mode = "files" /\ Goto("main", "files") /\ UNCHANGED engine
  /\ UNCHANGED <<mode, file>>

RunDone == Goto("inrun", "done") /\ pc = "idle" /\ UNCHANGED <<engine, mode, file>>

(* The -i loop: an error from a file, or a file that cannot be opened,     *)
(* sets Exitcode to 1 and ends it; nothing else does.                      *)
FileFails(from) ==
  /\ Goto(from, "done")
  /\ exitcode' = 1
  /\ UNCHANGED <<opt, frames, reader, echo, batch, exitOnError, ignoreError,
                    pc, call, ret, mode, file>>

NextFile ==
  \/ /\ file < MaxFiles /\ Goto("files", "infile") /\ StartFile
     /\ file' = file + 1 /\ UNCHANGED mode
  \/ file < MaxFiles /\ FileFails("files") /\ SawLost
  \/ Goto("files", "done") /\ UNCHANGED <<engine, mode, file>>

FileDone ==
  /\ pc = "idle"
  /\ IF ret = "none"
     THEN Goto("infile", "files") /\ UNCHANGED <<engine, mode, file>>
     ELSE FileFails("infile") /\ UNCHANGED seen

(* SetupCloseHandler: a goroutine that calls os.Exit(0); the process and   *)
(* its memory are gone.                                                    *)
Signal ==
  /\ ~Ended
  /\ host' = "killed"
  /\ exitcode' = 0
  /\ frames' = <<>> /\ reader' = 0 /\ echo' = FALSE /\ batch' = ResetBatch
  /\ pc' = "idle" /\ call' = NoCall /\ ret' = "none"
  /\ SawForced({})
  /\ UNCHANGED <<settings, mode, file>>

Engine == host \in {"inscript", "inrun", "infile"} /\ EngineNext
            /\ UNCHANGED <<mode, host, file>>

Stopped == Ended /\ UNCHANGED vars

Init ==
  /\ \E start \in Starts : mode = start[1] /\ EngineInit(start[2])
  /\ host = "connect" /\ file = 0

Next ==
  \/ Engine
  \/ Connect \/ StartupScript \/ ScriptDone \/ Main \/ RunDone
  \/ NextFile \/ FileDone
  \/ Signal \/ Stopped

Spec == Init /\ [][Next]_vars
-----------------------------------------------------------------------------
(* Properties.                                                             *)

(* Types.                                                                  *)
TypeOK ==
  /\ opt \in Options
  /\ frames \in Seq(Frames) /\ Depth <= MaxDepth
  /\ reader \in 0..MaxDepth /\ echo \in BOOLEAN
  /\ batch \in Batches
  /\ exitOnError \in BOOLEAN /\ ignoreError \in BOOLEAN
  /\ exitcode \in Codes
  /\ pc \in {"idle", "first", "next", "query", "return"}
  /\ call \in Calls
  /\ ret \in {"none", "err", "ctrlc"}
  /\ seen \in Seen
  /\ mode \in Modes /\ host \in Hosts /\ file \in 0..MaxFiles

(* The reader that frame k of the call stack fs must be reading from.      *)
ReaderOf(fs, k) == IF k = 0 \/ fs[k].kind = "run" THEN 0 ELSE k

EditBelow(fs, k) == \E j \in 1..k : fs[j].kind = "edit"

(* What IncludeFile and ED will restore is what their caller had.          *)
WellNested(fs) ==
  \A k \in 1..Len(fs) :
    /\ fs[k].kind = "run" => k = 1
    /\ fs[k].kind # "run" => /\ fs[k].curLine = ReaderOf(fs, k - 1)
                             /\ fs[k].wasEcho = EditBelow(fs, k - 1)

(* However :r, ED, EXIT, errors and ends of files nest, lines come from    *)
(* the innermost file still open, what is restored is what the caller had, *)
(* and lines are echoed exactly while ED is active.                        *)
NestingRestores ==
  /\ (pc = "idle") = (frames = <<>>)
  /\ reader = ReaderOf(frames, Depth)
  /\ echo = EditBelow(frames, Depth)
  /\ WellNested(frames)

(* Next counts a separator before a line only if append will write one, so *)
(* a varmap key never lies beyond its variable and getRunnableQuery never  *)
(* slices past the end of the batch.                                       *)
SeparatorCounted == ~batch.lineOne => batch.text # "nil"

(* When a line is read, text the server has run without error is in the    *)
(* buffer, where the next GO would run it again, only if the last GO n or  *)
(* EXIT that sent it left it there: a later one of the n runs failed, or   *)
(* EXIT(query) ended the file it was in and the Run that included the file *)
(* goes on, or the next file of -i.                                        *)
NoSilentReplay == pc = "next" => batch.sent # "ran"

(* In read-only mode no query with a rejected statement is sent, whether   *)
(* by GO, at the end of a file, or by EXIT, whose query joins the batch    *)
(* and the text between the parentheses.                                   *)
ReadOnlyHolds == opt.readOnly /\ pc = "query" => ~call.write

(* A Run that has to end reads nothing more and sends nothing more.  EXIT, *)
(* QUIT and a SQL error under -b end the Run they occur in, not those that *)
(* included its file.  Any other error, while ExitOnError is on and        *)
(* IgnoreError off, ends those too: all of them, or those above the        *)
(* nearest ED.                                                             *)
ErrorEndsRun == pc # "return" => seen.ends = {}

(* With -b and no ON ERROR ignore, a process that met an error exits with  *)
(* a code other than 0, unless EXIT(query) or ctrl-c chose it afterwards.  *)
(* (-q and -Q are excepted: an error in Query itself is lost.)             *)
ErrorLevelSet ==
  opt.onError /\ ~ignoreError /\ ~Asks
    => (host = "done" /\ seen.err => exitcode # 0)

(* An exit code other than 0 is never cleared by later batches or files:   *)
(* only EXIT(query), ctrl-c at the console and a signal return it to 0.    *)
NonzeroExitKept ==
  [][exitcode # 0 /\ exitcode' = 0
       => \/ pc = "query" /\ call.by = "exit"
          \/ pc = "next" /\ pc' = "return" /\ ret' = "ctrlc"
          \/ host' = "killed"]_vars
-----------------------------------------------------------------------------
(* What comments and help texts say, and the code does not do.             *)

(* "Specifies that sqlcmd exits and returns a DOS ERRORLEVEL value when an *)
(* error occurs" (-b, internal/legacy): ErrorLevelSet without exceptions.  *)
ErrorLevelAlwaysSet ==
  opt.onError /\ ~ignoreError /\ host = "done" /\ seen.err
    => exitcode # 0
=============================================================================
