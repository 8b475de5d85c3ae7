------------------------------ MODULE SqlcmdRun ------------------------------
(***************************************************************************)
(* pkg/sqlcmd: Sqlcmd.Run, the commands it dispatches, IncludeFile and the *)
(* batch they share.  Run is re-entered by :r and ED, so the Go call stack *)
(* is the sequence frames; one step is one iteration of Run's loop, the    *)
(* return of a query, or the return of a Run.                              *)
(*                                                                         *)
(* Text is abstracted to what the properties tell apart: whether the       *)
(* buffer is nil, empty or not, holds a statement that read-only mode      *)
(* rejects, ends inside a quote or comment, and has been sent before.      *)
(* batchline is used only as "= 1 or more", so it is lineOne.              *)
(***************************************************************************)
EXTENDS Sequences, QueryResults

CONSTANTS
  MaxDepth,      \* bound: nested Runs (the code has none but the Go stack)
  MaxGo          \* bound: largest repeat count given to GO

ASSUME BoundsAssumption == MaxDepth \in Nat \ {0} /\ MaxGo \in Nat \ {0}

VARIABLES
  opt,           \* settings of the command line, see Options
  frames,        \* active Runs, innermost last
  reader,        \* batch.read: 0 is the console, k the file frame k opened
  echo,          \* echoFileLines
  batch,         \* the Batch
  exitOnError,   \* Connect.ExitOnError
  ignoreError,   \* Connect.IgnoreError
  exitcode,      \* Exitcode
  pc,            \* "idle" (no Run), "first" (Query is set), "next", "query"
                 \* or "return"
  call,          \* the query in flight: who asked, how many times to go
  ret,           \* the error the returning Run returns
  seen           \* history: [err, ends], see below

(* seen.err: there has been an error since EXIT(query), ctrl-c or a        *)
(* signal, if any, chose the exit code.  seen.ends: the depths of the Runs *)
(* that an error or a request to exit has to end, see EndedBy.             *)

engine == <<opt, frames, reader, echo, batch, exitOnError, ignoreError,
            exitcode, pc, call, ret, seen>>

(* -V, read-only mode (the default), -b.                                   *)
Options == [level : 0..255, readOnly : BOOLEAN, onError : BOOLEAN]

Batches ==
  [text : {"nil", "blank", "text"},  \* Buffer nil, of length 0, or longer
   write : BOOLEAN,                  \* holds a statement CheckReadOnly rejects
   open : BOOLEAN,                   \* quote # 0 or comment
   lineOne : BOOLEAN,                \* batchline = 1
   skew : BOOLEAN,                   \* some varmap key is not its variable's place
   sent : {"no", "ran", "left"},     \* history: see RanOnce and LeftOver
   raw : BOOLEAN]                    \* rawlen > 0: text left after a command

Frames ==
  [once : BOOLEAN, processAll : BOOLEAN,    \* parameters of Run
   lastError : {"none", "err"},             \* its lastError
   kind : {"run", "file", "edit"},          \* called directly, by IncludeFile, by ED
   curLine : Nat, wasEcho : BOOLEAN]        \* locals IncludeFile and ED restore

Calls == [by : {"go", "exit"}, left : 0..MaxGo, write : BOOLEAN, skew : BOOLEAN]

Seen == [err : BOOLEAN, ends : SUBSET (1..MaxDepth)]

NoCall == [by |-> "go", left |-> 0, write |-> FALSE, skew |-> FALSE]

(* Batch.Reset(nil) and NewBatch.                                          *)
ResetBatch ==
  [text |-> "nil", write |-> FALSE, open |-> FALSE, lineOne |-> TRUE,
   skew |-> FALSE, sent |-> "no", raw |-> FALSE]

(* Batch.Length = 0.                                                       *)
IsEmpty(b) == b.text # "text"

(* Batch.State() = "=".                                                    *)
StateIsEmpty(b) == ~b.open /\ IsEmpty(b)

(* Lines Next can add to b: a blank one changes no lexical state, and what *)
(* CheckReadOnly would say is asked only in read-only mode.                *)
TextLines(b) ==
  {l \in [blank : BOOLEAN, write : BOOLEAN, var : BOOLEAN, open : BOOLEAN] :
     /\ l.blank => ~l.write /\ ~l.var /\ l.open = b.open
     /\ l.write => opt.readOnly}

(* Next without a command: the variables of the line are entered in varmap *)
(* at Length plus a separator if batchline > 1, then append puts the line  *)
(* after Length plus a separator if Buffer is not nil.                     *)
Misplaced(b) == b.lineOne # (b.text = "nil")

AppendLine(b, l) ==
  [b EXCEPT !.text    = IF b.text = "nil" /\ l.blank THEN "blank" ELSE "text",
            !.write   = @ \/ l.write,
            !.open    = l.open,
            !.skew    = @ \/ (l.var /\ Misplaced(b)),
            !.lineOne = FALSE,
            !.raw     = FALSE]

Depth == Len(frames)
Top   == frames[Depth]

(* The test that ends Run after an error.                                  *)
AbortsIgnoring(onError, ignore) == onError /\ ignore

Aborts(onError, ignore) == onError /\ ~ignore

-----------------------------------------------------------------------------
(* What Run does once RunCommand has returned e, Exitcode being code and   *)
(* fs the call stack: leave the loop, keep the error and leave, or go on.  *)
Leaves(f, e) == e = "exit" \/ f.once

SettleKeepingExit(fs, e, code) ==
  /\ frames' = fs
  /\ exitcode' = code
  /\ pc' = IF Leaves(fs[Len(fs)], e) THEN "return" ELSE "next"
  /\ ret' = e

Settle(fs, e, code) ==
  LET d     == Len(fs)
      leave == Leaves(fs[d], e)
      abort == ~leave /\ e = "err" /\ Aborts(exitOnError', ignoreError')
  IN  /\ frames' = [fs EXCEPT ![d].lastError =
                      IF e = "err" /\ ~leave THEN "err" ELSE "none"]
      /\ exitcode' = IF abort /\ code = 0 THEN 1 ELSE code
      /\ pc' = IF leave \/ abort THEN "return" ELSE "next"
      /\ ret' = IF abort THEN "err" ELSE "none"

(* History: the Runs of the stack fs that have to end when a command of    *)
(* the innermost returns e.  ErrExitRequested is for that Run only, which  *)
(* returns nil (run() says so of a SQL error in a script); another error   *)
(* is for its callers too, up to ED, which drops it, or a Run with once.   *)
EndedBy(fs, e) ==
  CASE e = "exit" -> {Len(fs)}
    [] e = "err" /\ exitOnError /\ ~ignoreError ->
         {k \in 1..Len(fs) : \A j \in (k + 1)..Len(fs) :
                               fs[j].kind # "edit" /\ ~fs[j].once}
    [] OTHER -> {}

SawError(fs, e) ==
  seen' = [err  |-> seen.err \/ e = "err",
           ends |-> EndedBy(fs, e) \cup (seen.ends \cap (1..Len(fs)))]

SawForced(ends) == seen' = [err |-> FALSE, ends |-> ends]

SawLost == seen' = [seen EXCEPT !.err = TRUE]

settings == <<opt, exitOnError, ignoreError>>
nesting  == <<reader, echo>>

(* A command that changes nothing but the batch and returns e.             *)
Completes(fs, b, e, code) ==
  /\ batch' = b
  /\ UNCHANGED <<settings, nesting, call>>
  /\ Settle(fs, e, code)
  /\ SawError(fs, e)

(* s.runQuery(query) is called; left runs remain, this one included.       *)
Send(fs, b, by, left, write, skew) ==
  /\ batch' = b
  /\ call' = [by |-> by, left |-> left, write |-> write, skew |-> skew]
  /\ frames' = [fs EXCEPT ![Len(fs)].lastError = "none"]
  /\ pc' = "query"
  /\ UNCHANGED <<settings, nesting, exitcode, ret, seen>>

(* s.ReadOnly and CheckReadOnly returns an error.                          *)
Rejected(write) == opt.readOnly /\ write

GoCommand(fs, b, n) ==
  \/ IsEmpty(b) /\ Completes(fs, b, "none", exitcode)
  \/ /\ ~IsEmpty(b) /\ Rejected(b.write)
     /\ IF exitOnError THEN Completes(fs, ResetBatch, "err", 1)
                       ELSE Completes(fs, ResetBatch, "none", exitcode)
  \/ /\ ~IsEmpty(b) /\ ~Rejected(b.write)
     /\ Send(fs, b, "go", n, b.write, b.skew)

(* EXIT(text) with l the line between the parentheses, "()" having none.   *)
(* The text replaces the batch, whose own text runs first.                 *)
ExitParens(fs, b) ==
  \/ /\ IsEmpty(b) \/ Rejected(b.write)
     /\ Completes(fs, b, "exit", exitcode)
  \/ /\ ~IsEmpty(b) /\ ~Rejected(b.write)
     /\ Send(fs, b, "exit", 1, b.write, b.skew)

ChecksParensOnly(b, l) == Rejected(l.write)

RejectsExit(b, l) == Rejected(b.write \/ l.write)

ExitQuery(fs, b, l) ==
  LET b2 == AppendLine(ResetBatch, l)
  IN  \/ RejectsExit(b, l) /\ Completes(fs, b2, "exit", exitcode)
      \/ /\ ~RejectsExit(b, l)
         /\ Send(fs, b2, "exit", 1, b.write \/ l.write, b.skew)

ExitCommand(fs, b) ==
  \/ Completes(fs, b, "exit", exitcode)                  \* EXIT, QUIT
  \/ ExitParens(fs, b)
  \/ \E l \in TextLines(ResetBatch) : ~l.blank /\ ExitQuery(fs, b, l)
  \/ Completes(fs, ResetBatch, "err", exitcode)          \* bad $( in the text

(* Commands that cannot fail, or that only print: LIST, LISTVAR, SETVAR,   *)
(* OUT, ERROR, XML, !!, a CONNECT that fails; and RESET.                   *)
PlainCommand(fs, b) ==
  \/ Completes(fs, b, "none", exitcode)
  \/ Completes(fs, ResetBatch, "none", exitcode)         \* RESET
  \/ Completes(fs, [b EXCEPT !.lineOne = TRUE], "none", exitcode)  \* CONNECT
  \/ Completes(fs, b, "err", exitcode)    \* bad arguments, no such file, ...
  \/ Completes(fs, b, "exit", 1)          \* ED or !! disabled by -X1

OnErrorCommand(fs, b, arg) ==
  /\ exitOnError' = (arg = "exit")
  /\ ignoreError' = (ignoreError \/ arg = "ignore")
  /\ batch' = b
  /\ UNCHANGED <<opt, nesting, call>>
  /\ Settle(fs, "none", exitcode)
  /\ UNCHANGED seen

(* IncludeFile up to its call of Run: the file replaces batch.read.        *)
IncludeFile(fs, b, kind, all) ==
  /\ Len(fs) < MaxDepth
  /\ frames' = Append(fs, [once |-> FALSE, processAll |-> all,
                           lastError |-> "none", kind |-> kind,
                           curLine |-> reader, wasEcho |-> echo])
  /\ reader' = Len(fs) + 1
  /\ echo' = (echo \/ kind = "edit")
  /\ batch' = b
  /\ pc' = "next"
  /\ UNCHANGED <<settings, exitcode, call, ret, seen>>

ReadFileCommand(fs, b) == IncludeFile(fs, b, "file", FALSE)

EditCommand(fs, b) == IncludeFile(fs, ResetBatch, "edit", FALSE)

Command(fs, b) ==
  \/ \E n \in 1..MaxGo : GoCommand(fs, b, n)
  \/ ExitCommand(fs, b)
  \/ PlainCommand(fs, b)
  \/ \E arg \in {"exit", "ignore"} : OnErrorCommand(fs, b, arg)
  \/ ReadFileCommand(fs, b)
  \/ EditCommand(fs, b)
-----------------------------------------------------------------------------
(* One iteration of Run's loop, by what Next returns.                      *)

(* A line without a command is added to the batch.  Text left over from    *)
(* Query comes before anything the reader has.                             *)
ReadText ==
  /\ pc = "next"
  /\ \E l \in TextLines(batch) :
       /\ batch.raw => ~l.blank
       /\ batch' = AppendLine(batch, l)
  /\ UNCHANGED <<settings, nesting, frames, exitcode, pc, call, ret, seen>>

(* Next returned an error other than EOF: nothing is run, and the loop     *)
(* ends only under ExitOnError.                                            *)
NextFails(b) ==
  LET abort == Aborts(exitOnError, ignoreError)
  IN  /\ batch' = b
      /\ exitcode' = IF abort /\ exitcode = 0 THEN 1 ELSE exitcode
      /\ pc' = IF abort THEN "return" ELSE "next"
      /\ ret' = IF abort THEN "err" ELSE ret
      /\ SawError(frames, "err")
      /\ UNCHANGED <<settings, nesting, frames, call>>

(* A malformed $( reference; Next resets the batch.                        *)
ReadMalformed == pc = "next" /\ NextFails(ResetBatch)

(* The file cannot be read (it is a directory, its disk fails); Next       *)
(* returns before it touches the batch.                                    *)
ReadFault == pc = "next" /\ ~batch.raw /\ reader > 0 /\ NextFails(batch)

CtrlC ==
  /\ pc = "next" /\ ~batch.raw /\ reader = 0
  /\ exitcode' = 0
  /\ pc' = "return"
  /\ ret' = "ctrlc"
  /\ SawForced({Depth})
  /\ UNCHANGED <<settings, nesting, frames, batch, call>>

(* At the end of the input Run returns, or runs what is left and returns.  *)
ReadEof ==
  /\ pc = "next" /\ ~batch.raw
  /\ IF IsEmpty(batch) \/ ~Top.processAll
     THEN /\ pc' = "return"
          /\ ret' = IF IsEmpty(batch) THEN Top.lastError ELSE "none"
          /\ UNCHANGED <<settings, nesting, frames, batch, exitcode, call, seen>>
     ELSE GoCommand([frames EXCEPT ![Depth].once = TRUE], batch, 1)

(* Commands are recognised only outside quotes and comments.               *)
ReadCommand ==
  /\ pc = "next" /\ ~batch.open /\ ~batch.raw
  /\ Command(frames, batch)

(* The first iteration when Query is set (-Q, -q): Query goes through Next *)
(* as one chunk; without a command in it, GO runs it.                      *)
RunQueryText ==
  /\ pc = "first"
  /\ \E l \in TextLines(ResetBatch) :
       ~l.blank /\ GoCommand(frames, AppendLine(ResetBatch, l), 1)

RunQueryMalformed ==
  /\ pc = "first"
  /\ batch' = ResetBatch
  /\ UNCHANGED <<settings, nesting, call>>
  /\ Settle(frames, "none", exitcode)
  /\ SawLost

RunQueryCommand ==
  /\ pc = "first"
  /\ \E rest \in BOOLEAN : Command(frames, [ResetBatch EXCEPT !.raw = rest])

(* GO's loop: a query that succeeds leaves Exitcode to handleError, one    *)
(* that fails puts its retcode there, and the batch is reset after the     *)
(* last one has succeeded.                                                 *)
GoKeepsRetcode(o) == o.code

GoKeeps(o) == o.exit

GoFailsQuietly(o) == o.exit

GoFails(o) == o.code

(* History: the batch has run, its GO n not being over; a GO or EXIT whose *)
(* last query gave o leaves it in the buffer.                              *)
RanOnce(b) == [b EXCEPT !.sent = "ran"]

LeftOver(b, o) ==
  [b EXCEPT !.sent = IF @ = "no" /\ o.err # "none" THEN "no" ELSE "left"]

GoDoneWithoutReset(b) == RanOnce(b)

GoDone(b) == ResetBatch

(* runQuery returns to GO, or to EXIT, which keeps the retcode and ignores *)
(* the error.                                                              *)
QueryReturns ==
  /\ pc = "query"
  /\ UNCHANGED <<settings, nesting>>
  /\ \E o \in QueryOutcomes(exitOnError, opt.level, exitcode) :
       \/ /\ call.by = "go" /\ o.err = "none" /\ call.left > 1
          /\ call' = [call EXCEPT !.left = @ - 1]
          /\ batch' = RanOnce(batch)
          /\ exitcode' = GoKeeps(o)
          /\ UNCHANGED <<frames, pc, ret, seen>>
       \/ /\ call.by = "go" /\ o.err = "none" /\ call.left = 1
          /\ batch' = GoDone(batch)
          /\ call' = NoCall
          /\ Settle(frames, "none", GoKeeps(o))
          /\ UNCHANGED seen
       \/ /\ call.by = "go" /\ o.err # "none"
          /\ batch' = LeftOver(batch, o)
          /\ call' = NoCall
          /\ Settle(frames, o.err, GoFails(o))
          /\ seen' = [err |-> TRUE, ends |-> EndedBy(frames, o.err)]
       \/ /\ call.by = "exit"
          /\ batch' = LeftOver(batch, o)
          /\ call' = NoCall
          /\ Settle(frames, "exit", o.code)
          /\ SawForced({Depth})

(* IncludeFile after its Run: restore the reader and, unless the lines     *)
(* were echoed, the line number of the prompt.                             *)
AlwaysNextLine(b) == IF echo THEN b ELSE [b EXCEPT !.lineOne = FALSE]

AfterInclude(b) ==
  IF echo THEN b ELSE [b EXCEPT !.lineOne = StateIsEmpty(b)]

EchoOff(f) == FALSE

EchoAfter(f) == f.wasEcho

(* A Run returns: to the host, or through IncludeFile to the command that  *)
(* included the file.  ED drops the error.                                 *)
RunReturns ==
  /\ pc = "return"
  /\ IF Top.kind = "run"
     THEN UNCHANGED <<reader, echo, batch>>
     ELSE /\ reader' = Top.curLine
          /\ echo' = EchoAfter(Top)
          /\ batch' = AfterInclude(batch)
  /\ UNCHANGED <<settings, call>>
  /\ IF Depth = 1
     THEN /\ frames' = <<>>
          /\ pc' = "idle"
          /\ seen' = [seen EXCEPT !.ends = {}]
          /\ UNCHANGED <<exitcode, ret>>
     ELSE LET e  == IF Top.kind = "edit" THEN "none" ELSE ret
              fs == SubSeq(frames, 1, Depth - 1)
          IN  Settle(fs, e, exitcode) /\ SawError(fs, e)

EngineNext ==
  \/ ReadText \/ ReadMalformed \/ ReadFault \/ CtrlC \/ ReadEof \/ ReadCommand
  \/ RunQueryText \/ RunQueryMalformed \/ RunQueryCommand
  \/ QueryReturns \/ RunReturns
-----------------------------------------------------------------------------
(* What the host does to the engine: calls of Run and IncludeFile.         *)
StartRun(once, all, query) ==
  /\ pc = "idle"
  /\ frames' = <<[once |-> once, processAll |-> all, lastError |-> "none",
                  kind |-> "run", curLine |-> reader, wasEcho |-> echo]>>
  /\ pc' = IF query THEN "first" ELSE "next"
  /\ UNCHANGED <<settings, reader, echo, batch, exitcode, call, ret, seen>>

StartFile == pc = "idle" /\ IncludeFile(<<>>, batch, "file", TRUE)

EngineInit(o) ==
  /\ opt = o
  /\ exitOnError = o.onError
  /\ frames = <<>> /\ reader = 0 /\ echo = FALSE
  /\ batch = ResetBatch
  /\ ignoreError = FALSE
  /\ exitcode = 0
  /\ pc = "idle"
  /\ call = NoCall
  /\ ret = "none"
  /\ seen = [err |-> FALSE, ends |-> {}]
=============================================================================
