-------------------------- MODULE QueryRun_proofs --------------------------
(***************************************************************************)
(* runQuery implements its contract, for every severity level, set of      *)
(* errors and sequence of messages.                                        *)
(***************************************************************************)
EXTENDS QueryRun, TLAPS

(* What runQuery would return and leave if it returned now.                *)
SoFar == [err |-> s.err, exit |-> exitcode, code |-> s.code]

Promised == SoFar \in QueryOutcomes(onError, level, before)

Untouched == s = [code |-> NoRows, err |-> "none"] /\ exitcode = before

(* An error seen so far that asks for the exit has been taken up.          *)
ExitTaken ==
  "magic" \in seen.events \/ (onError /\ "fatal" \in seen.events) => s.err = "exit"

(* Without -k and -j nothing turns plan collection on.                     *)
PlansOff == plan = "off" => ~session /\ pc \notin {"planon", "planoff"}

(* The inductive invariant: at any moment the function could return and    *)
(* keep its promise, and nothing has happened before the query is sent.    *)
IInv ==
  /\ TypeOK
  /\ Promised
  /\ pc \in {"planon", "send"} => Untouched
  /\ ExitTaken
  /\ PlansOff
  /\ PlanModeEnds
-----------------------------------------------------------------------------
(* A fatal error is one the server reported.                               *)
LEMMA FatalClass ==
  ASSUME NEW e \in Errors, level \in 0..255, IsFatal(e), e.number = 0
  PROVE  e.class \in Fatal(level) /\ e.class \in Codes
<1>1. MinSeverity(level) \in Nat /\ MinSeverity(level) > 0
  BY DEF MinSeverity
<1>2. e.class \in Severities \/ e.class = 0
  BY DEF Errors, SqlErrors, OtherError
<1>3. e.class \in Severities /\ e.class >= MinSeverity(level)
  BY <1>1, <1>2 DEF IsFatal
<1>4. QED
  BY <1>3 DEF Fatal, Codes

(* handleError, called before anything has ended the query, with any code  *)
(* in retcode: what it leaves can be returned.                             *)
LEMMA HandleKeeps ==
  ASSUME NEW e \in Errors, NEW loc \in Locals,
         level \in 0..255, onError \in BOOLEAN, before \in Codes,
         exitcode \in {before} \cup Noted(onError, level),
         loc.err = "none",
         loc.code \in {NoRows, Failed, NotANumber, 0} \cup RowCodes
                        \cup Noted(onError, level)
  PROVE  /\ Handled(loc, e) \in Locals
         /\ ExitAfter(exitcode, e) \in Codes
         /\ [err |-> Handled(loc, e).err, exit |-> ExitAfter(exitcode, e),
             code |-> Handled(loc, e).code] \in QueryOutcomes(onError, level, before)
<1> DEFINE h == Handled(loc, e)
           x == ExitAfter(exitcode, e)
<1>0. exitcode \in Codes /\ Noted(onError, level) \subseteq Codes
  BY DEF Noted, Fatal, Codes
<1>1. CASE e.number # 0
  <2>1. e.number \in ErrNumbers
    BY <1>1 DEF Errors, SqlErrors, OtherError
  <2>2. h = [code |-> e.number, err |-> "exit"] /\ x = exitcode
    BY <1>1 DEF Handled, ExitAfter
  <2>3. h \in Locals /\ x \in Codes
    BY <2>1, <2>2, <1>0 DEF Locals, Codes
  <2> HIDE DEF h, x
  <2>4. [err |-> h.err, exit |-> x, code |-> h.code]
          \in QueryOutcomes(onError, level, before)
    BY <2>1, <2>2 DEF QueryOutcomes
  <2>5. QED
    BY <2>3, <2>4 DEF h, x
<1>2. CASE e.number = 0 /\ IsFatal(e) /\ onError
  <2>1. e.class \in Fatal(level) /\ e.class \in Codes
    BY <1>2, FatalClass
  <2>2. exitcode = before
    BY <1>2 DEF Noted
  <2>3. /\ h.err = "exit"
        /\ h.code = (IF level > 0 THEN e.class ELSE 1)
        /\ x = (IF level > 0 THEN e.class ELSE before)
    BY <1>2, <2>2 DEF Handled, Severity, ExitAfter
  <2>4. h \in Locals /\ x \in Codes
    BY <1>2, <2>1, <2>3 DEF Handled, Severity, Locals, Codes
  <2> HIDE DEF h, x
  <2> DEFINE out(f) == [err |-> "exit", exit |-> IF level > 0 THEN f ELSE before,
                        code |-> IF level > 0 THEN f ELSE 1]
  <2>5. [err |-> h.err, exit |-> x, code |-> h.code] = out(e.class)
    BY <2>3
  <2>6. out(e.class) \in {out(f) : f \in Fatal(level)}
    BY <2>1
  <2>7. out(e.class) \in QueryOutcomes(onError, level, before)
    BY <1>2, <2>6 DEF QueryOutcomes
  <2>8. QED
    BY <2>4, <2>5, <2>7 DEF h, x
<1>3. CASE e.number = 0 /\ IsFatal(e) /\ ~onError
  <2>1. e.class \in Fatal(level) /\ e.class \in Codes
    BY <1>3, FatalClass
  <2>2. level > 0 => e.class \in Noted(onError, level)
    BY <1>3, <2>1 DEF Noted
  <2>3. /\ h.err = "none"
        /\ h.code = (IF level > 0 THEN e.class ELSE loc.code)
        /\ x = (IF level > 0 THEN e.class ELSE exitcode)
    BY <1>3 DEF Handled, Severity, ExitAfter
  <2>4. h \in Locals /\ x \in Codes
    BY <1>0, <1>3, <2>1, <2>3 DEF Handled, Severity, Locals
  <2> HIDE DEF h, x
  <2>5. /\ x \in {before} \cup Noted(onError, level)
        /\ h.code \in {NoRows, Failed, NotANumber, 0} \cup RowCodes
                        \cup Noted(onError, level)
    BY <2>2, <2>3
  <2>6. [err |-> h.err, exit |-> x, code |-> h.code]
          \in QueryOutcomes(onError, level, before)
    BY <2>3, <2>5 DEF QueryOutcomes
  <2>7. QED
    BY <2>4, <2>6 DEF h, x
<1>4. CASE e.number = 0 /\ ~IsFatal(e)
  <2>1. h = [code |-> loc.code, err |-> "none"] /\ x = exitcode
    BY <1>4 DEF Handled, Severity, ExitAfter
  <2>2. h \in Locals /\ x \in Codes
    BY <1>0, <2>1 DEF Locals
  <2> HIDE DEF h, x
  <2>3. [err |-> h.err, exit |-> x, code |-> h.code]
          \in QueryOutcomes(onError, level, before)
    BY <2>1 DEF QueryOutcomes
  <2>4. QED
    BY <2>2, <2>3 DEF h, x
<1>5. QED
  BY <1>1, <1>2, <1>3, <1>4

(* It takes up every error that asks for the exit.                         *)
LEMMA HandleTakesExit ==
  ASSUME NEW e \in Errors, NEW loc \in Locals, onError \in BOOLEAN,
         "magic" \in EventsOf(e) \/ (onError /\ "fatal" \in EventsOf(e))
  PROVE  Handled(loc, e).err = "exit"
<1>1. CASE e.number # 0
  BY <1>1 DEF Handled
<1>2. CASE e.number = 0
  <2>1. onError /\ IsFatal(e)
    BY <1>2 DEF EventsOf
  <2>2. QED
    BY <1>2, <2>1 DEF Handled, Severity
<1>3. QED
  BY <1>1, <1>2

(* While the loop reads, nothing has ended the query.                      *)
LEMMA ReadingState ==
  ASSUME IInv, Reading
  PROVE  /\ s \in Locals /\ s.err = "none" /\ level \in 0..255
         /\ exitcode \in {before} \cup Noted(onError, level)
         /\ s.code \in {NoRows, Failed, NotANumber, 0} \cup RowCodes
                          \cup Noted(onError, level)
         /\ ~("magic" \in seen.events \/ (onError /\ "fatal" \in seen.events))
<1>1. s \in Locals /\ s.err = "none" /\ level \in 0..255 /\ onError \in BOOLEAN
      /\ before \in Codes
  BY QueryAssumption DEF IInv, TypeOK, Reading
<1>2. [err |-> s.err, exit |-> exitcode, code |-> s.code]
        \in QueryOutcomes(onError, level, before)
  BY DEF IInv, Promised, SoFar
<1>3. QED
  BY <1>1, <1>2 DEF IInv, ExitTaken, QueryOutcomes

LEMMA EventsTyped == \A e \in Errors : EventsOf(e) \subseteq Events
BY DEF EventsOf, Events

(* A message that calls handleError, with retcode code and after the events*)
(* of h.                                                                   *)
LEMMA HandleStep ==
  ASSUME IInv, Reading, NEW e \in Errors, NEW loc \in Locals, NEW h \in History,
         loc.err = "none",
         loc.code \in {NoRows, Failed, NotANumber, 0} \cup RowCodes
                        \cup Noted(onError, level),
         ~("magic" \in h.events \/ (onError /\ "fatal" \in h.events)),
         Handle(loc, e), seen' = SawError(h, e),
         UNCHANGED <<settings, onError, before, pc, session>>
  PROVE  /\ s' \in Locals /\ exitcode' \in Codes /\ seen' \in History
         /\ Promised' /\ ExitTaken'
<1>1. /\ level \in 0..255 /\ onError \in BOOLEAN /\ before \in Codes
      /\ exitcode \in {before} \cup Noted(onError, level)
  BY ReadingState DEF IInv, TypeOK
<1>2. /\ Handled(loc, e) \in Locals
      /\ ExitAfter(exitcode, e) \in Codes
      /\ [err |-> Handled(loc, e).err, exit |-> ExitAfter(exitcode, e),
          code |-> Handled(loc, e).code] \in QueryOutcomes(onError, level, before)
  BY <1>1, HandleKeeps
<1>3. s' = Handled(loc, e) /\ exitcode' = ExitAfter(exitcode, e)
  BY DEF Handle
<1>4. level' = level /\ onError' = onError /\ before' = before
  BY DEF settings
<1>5. Promised'
  <2>1. SoFar' = [err |-> Handled(loc, e).err, exit |-> ExitAfter(exitcode, e),
                  code |-> Handled(loc, e).code]
    BY <1>3 DEF SoFar
  <2>2. QueryOutcomes(onError, level, before)'
          = QueryOutcomes(onError, level, before)
    BY <1>4 DEF QueryOutcomes, Noted, Fatal, MinSeverity
  <2>3. QED
    BY <2>1, <2>2, <1>2 DEF Promised
<1>6. seen' \in History /\ seen'.events = h.events \cup EventsOf(e)
  BY EventsTyped DEF SawError, Saw, History
<1>7. ExitTaken'
  <2>1. SUFFICES ASSUME "magic" \in seen'.events \/ (onError /\ "fatal" \in seen'.events)
                 PROVE  s'.err = "exit"
    BY <1>4 DEF ExitTaken
  <2>2. "magic" \in EventsOf(e) \/ (onError /\ "fatal" \in EventsOf(e))
    BY <2>1, <1>6
  <2>3. QED
    BY <2>2, <1>1, <1>3, HandleTakesExit
<1>8. QED
  BY <1>2, <1>3, <1>5, <1>6, <1>7
-----------------------------------------------------------------------------
(* The steps.                                                              *)

(* The loop variables do not matter to the promise.                        *)
LEMMA ReadingSteps ==
  ASSUME IInv, Reading, UNCHANGED <<settings, onError, before, pc, session>>,
         first' \in BOOLEAN, cols' \in {"plan", "data"}, results' \in BOOLEAN,
         s' \in Locals, exitcode' \in Codes, seen' \in History,
         Promised', ExitTaken'
  PROVE  IInv'
<1>1. TypeOK'
  BY DEF IInv, TypeOK, settings
<1>2. (pc \in {"planon", "send"} => Untouched)'
  BY DEF Reading
<1>3. PlansOff' /\ PlanModeEnds'
  BY DEF IInv, Reading, PlansOff, PlanModeEnds, settings
<1>4. QED
  BY <1>1, <1>2, <1>3 DEF IInv

(* A step that touches neither retcode's promise nor its inputs.           *)
LEMMA SameInputs ==
  ASSUME UNCHANGED <<settings, onError, before>>
  PROVE  QueryOutcomes(onError, level, before)' = QueryOutcomes(onError, level, before)
BY DEF settings, QueryOutcomes, Noted, Fatal, MinSeverity

(* Adding events to the history.                                           *)
LEMMA SawTyped ==
  ASSUME NEW h \in History, NEW evs \in SUBSET Events
  PROVE  /\ Saw(h, evs) \in History
         /\ Saw(h, evs).events = h.events \cup evs
BY DEF Saw, History

(* What each message leaves in retcode, the error and Exitcode.            *)
LEMMA MessageSteps ==
  ASSUME IInv, Reading, Notice \/ ServerError \/ NextResultSet \/ PlanRows \/ DataRows
  PROVE  /\ s' \in Locals /\ exitcode' \in Codes /\ seen' \in History
         /\ Promised' /\ ExitTaken'
<1> DEFINE Start == {NoRows, Failed, NotANumber, 0} \cup RowCodes \cup Noted(onError, level)
           NoExit(h) == ~("magic" \in h.events \/ (onError /\ "fatal" \in h.events))
           Goal == /\ s' \in Locals /\ exitcode' \in Codes /\ seen' \in History
                   /\ Promised' /\ ExitTaken'
<1>1. UNCHANGED <<settings, onError, before, pc, session>>
  BY DEF Notice, ServerError, NextResultSet, PlanRows, DataRows, looping
<1>2. /\ s \in Locals /\ s.err = "none" /\ s.code \in Start /\ NoExit(seen)
      /\ exitcode \in {before} \cup Noted(onError, level)
      /\ exitcode \in Codes /\ seen \in History
  BY ReadingState DEF IInv, TypeOK
<1>3. ASSUME NEW loc \in Locals, loc.err = "none", loc.code \in Start,
             NEW h \in History, NoExit(h), s' = loc, exitcode' = exitcode, seen' = h
      PROVE  Goal
  <2>1. [err |-> loc.err, exit |-> exitcode, code |-> loc.code]
          \in QueryOutcomes(onError, level, before)
    BY <1>2, <1>3 DEF QueryOutcomes
  <2>2. Promised'
    BY <1>1, <1>3, <2>1, SameInputs DEF Promised, SoFar
  <2>3. ExitTaken'
    BY <1>1, <1>3 DEF ExitTaken
  <2>4. QED
    BY <1>2, <1>3, <2>2, <2>3
<1>4. ASSUME NEW loc \in Locals, loc.err = "none", loc.code \in Start,
             NEW h \in History, NoExit(h), NEW e \in Errors,
             Handle(loc, e), seen' = SawError(h, e)
      PROVE  Goal
  BY <1>1, <1>4, HandleStep
<1>5. [s EXCEPT !.code = Failed] \in Locals /\ [s EXCEPT !.code = Failed].err = "none"
      /\ [s EXCEPT !.code = Failed].code \in Start
  BY <1>2 DEF Locals, Codes
<1>6. CASE Notice
  BY <1>6, <1>2, <1>3, <1>4 DEF Notice
<1>7. CASE ServerError
  BY <1>7, <1>2, <1>4 DEF ServerError
<1>8. CASE NextResultSet
  BY <1>8, <1>2, <1>3, <1>4, <1>5 DEF NextResultSet
<1>9. CASE PlanRows
  <2>1. [s EXCEPT !.code = 0] \in Locals /\ [s EXCEPT !.code = 0].err = "none"
        /\ [s EXCEPT !.code = 0].code \in Start
    BY <1>2 DEF Locals, Codes
  <2>2. QED
    BY <1>9, <2>1, <1>2, <1>3 DEF PlanRows
<1>10. CASE DataRows
  <2> DEFINE l1(n) == IF n THEN Handled([s EXCEPT !.code = Failed], OtherError) ELSE s
             l2(n, v) == [l1(n) EXCEPT !.code = AfterRows(l1(n).code, v)]
             h(n) == Saw(seen, IF n THEN {"other"} ELSE {})
  <2>1. PICK v \in {NoRows, NotANumber, 0} \cup RowCodes, n \in {FALSE, first} :
          \/ s' = l2(n, v) /\ seen' = h(n) /\ UNCHANGED exitcode
          \/ /\ l2(n, v).code # NotANumber
             /\ \E e \in Errors : /\ Handle([l2(n, v) EXCEPT !.code = Failed], e)
                                  /\ seen' = SawError(h(n), e)
    BY <1>10 DEF DataRows
  <2>2. l1(n) \in Locals /\ l1(n).err = "none" /\ l1(n).code \in Start
    <3>1. CASE n
      <4>1. ~IsFatal(OtherError) /\ OtherError.number = 0
        BY ReadingState DEF IsFatal, MinSeverity, OtherError
      <4>2. l1(n) = [s EXCEPT !.code = Failed]
        BY <1>2, <3>1, <4>1 DEF Handled, Severity, Locals
      <4>3. QED
        BY <1>5, <4>2
    <3>2. CASE ~n
      BY <1>2, <3>2
    <3>3. QED
      BY <3>1, <3>2
  <2> HIDE DEF l1
  <2>3. l2(n, v) \in Locals /\ l2(n, v).err = "none" /\ l2(n, v).code \in Start
    BY <2>2 DEF AfterRows, Locals, Codes
  <2>4. /\ [l2(n, v) EXCEPT !.code = Failed] \in Locals
        /\ [l2(n, v) EXCEPT !.code = Failed].err = "none"
        /\ [l2(n, v) EXCEPT !.code = Failed].code \in Start
    BY <2>3 DEF Locals, Codes
  <2> HIDE DEF l2
  <2>5. h(n) \in History /\ NoExit(h(n))
    <3> DEFINE evs == IF n THEN {"other"} ELSE {}
    <3>1. evs \in SUBSET Events
      BY DEF Events
    <3>2. h(n) \in History /\ h(n).events = seen.events \cup evs
      BY <1>2, <3>1, SawTyped
    <3>3. QED
      BY <1>2, <3>2
  <2> HIDE DEF h
  <2>6. CASE s' = l2(n, v) /\ seen' = h(n) /\ UNCHANGED exitcode
    BY <2>3, <2>5, <2>6, <1>3
  <2>7. CASE \E e \in Errors : /\ Handle([l2(n, v) EXCEPT !.code = Failed], e)
                               /\ seen' = SawError(h(n), e)
    BY <2>4, <2>5, <2>7, <1>4
  <2>8. QED
    BY <2>1, <2>6, <2>7
<1>11. QED
  BY <1>6, <1>7, <1>8, <1>9, <1>10

LEMMA Inductive == IInv /\ [Next]_vars => IInv'
<1> SUFFICES ASSUME IInv, [Next]_vars PROVE IInv'
  OBVIOUS
<1>0. /\ level \in 0..255 /\ onError \in BOOLEAN /\ before \in Codes
      /\ s \in Locals /\ seen \in History /\ exitcode \in Codes
  BY QueryAssumption DEF IInv, TypeOK
<1>1. CASE Begin
  <2>1. TypeOK'
    BY <1>1, <1>0 DEF Begin, IInv, TypeOK, settings, Locals, Codes, History, Fresh
  <2>2. Untouched'
    BY <1>1 DEF Begin, Untouched
  <2>3. Promised'
    BY <2>2 DEF Untouched, Promised, SoFar, QueryOutcomes
  <2>4. ExitTaken'
    BY <1>1 DEF Begin, ExitTaken, Fresh
  <2>5. PlansOff' /\ PlanModeEnds'
    BY <1>1 DEF Begin, IInv, PlansOff, PlanModeEnds, settings
  <2>6. QED
    BY <2>1, <2>2, <2>3, <2>4, <2>5 DEF IInv
<1>2. CASE PlanOn
  <2>1. s = [code |-> NoRows, err |-> "none"] /\ exitcode = before
    BY <1>2 DEF PlanOn, IInv, Untouched
  <2>2. plan # "off"
    BY <1>2 DEF PlanOn, IInv, PlansOff
  <2>3. CASE session' = TRUE /\ pc' = "send" /\ UNCHANGED <<s, seen>>
    <3>1. TypeOK'
      BY <1>2, <2>3 DEF PlanOn, IInv, TypeOK, settings, looping
    <3>2. Untouched' /\ ExitTaken' /\ PlansOff' /\ PlanModeEnds'
      BY <1>2, <2>1, <2>2, <2>3 DEF PlanOn, Untouched, IInv, ExitTaken, PlansOff,
                                    PlanModeEnds, settings
    <3>3. Promised'
      BY <3>2 DEF Untouched, Promised, SoFar, QueryOutcomes
    <3>4. QED
      BY <3>1, <3>2, <3>3 DEF IInv
  <2>4. CASE /\ session' \in {session, TRUE} /\ pc' = "idle"
             /\ s' = [code |-> Failed, err |-> "err"]
             /\ seen' = Saw(seen, {"other", "plan"})
    <3>1. seen' \in History /\ seen'.events = seen.events \cup {"other", "plan"}
      BY <2>4, <1>0, SawTyped DEF Events
    <3>2. TypeOK'
      <4>1. s' \in Locals
        BY <2>4 DEF Locals, Codes
      <4>2. session' \in BOOLEAN
        BY <2>4 DEF IInv, TypeOK
      <4>3. QED
        BY <1>2, <2>4, <3>1, <4>1, <4>2 DEF PlanOn, IInv, TypeOK, settings, looping
    <3>3. Promised'
      <4>1. exitcode' = before' /\ s'.err = "err" /\ s'.code = Failed
        BY <1>2, <2>1, <2>4 DEF PlanOn
      <4>2. QED
        BY <4>1 DEF Promised, SoFar, QueryOutcomes
    <3>4. ExitTaken'
      BY <1>2, <2>1, <3>1 DEF PlanOn, IInv, ExitTaken
    <3>5. PlansOff' /\ PlanModeEnds' /\ pc' \notin {"planon", "send"}
      BY <1>2, <2>2, <2>4, <3>1 DEF PlanOn, PlansOff, PlanModeEnds, settings
    <3>6. QED
      BY <3>2, <3>3, <3>4, <3>5 DEF IInv
  <2>5. QED
    BY <1>2, <2>3, <2>4 DEF PlanOn
<1>3. CASE SendQuery
  <2>1. s = [code |-> NoRows, err |-> "none"] /\ exitcode = before
    BY <1>3 DEF SendQuery, IInv, Untouched
  <2>2. /\ s' \in Locals /\ s'.err \in {"none", "err"} /\ s'.code = NoRows
        /\ seen' \in History /\ seen'.events \subseteq seen.events \cup {"other"}
    BY <1>0, <1>3, <2>1, SawTyped DEF SendQuery, Locals, Events
  <2>3. TypeOK'
    BY <1>3, <2>2 DEF SendQuery, IInv, TypeOK, settings, looping
  <2>4. Promised'
    <3>1. exitcode' = before'
      BY <1>3, <2>1 DEF SendQuery
    <3>2. QED
      BY <2>2, <3>1 DEF Promised, SoFar, QueryOutcomes
  <2>5. ExitTaken'
    BY <1>3, <2>1, <2>2 DEF SendQuery, IInv, ExitTaken
  <2>6. PlansOff' /\ PlanModeEnds' /\ pc' \notin {"planon", "send"}
    BY <1>3 DEF SendQuery, IInv, PlansOff, PlanModeEnds, settings
  <2>7. QED
    BY <2>3, <2>4, <2>5, <2>6 DEF IInv
<1>4. CASE Notice \/ ServerError \/ NextResultSet \/ PlanRows \/ DataRows
  <2>1. Reading
    BY <1>4 DEF Notice, ServerError, NextResultSet, PlanRows, DataRows
  <2>2. UNCHANGED <<settings, onError, before, pc, session>>
    BY <1>4 DEF Notice, ServerError, NextResultSet, PlanRows, DataRows, looping
  <2>3. first' \in BOOLEAN /\ cols' \in {"plan", "data"} /\ results' \in BOOLEAN
    <3>1. CASE Notice \/ ServerError
      BY <3>1 DEF Notice, ServerError, looping, IInv, TypeOK
    <3>2. CASE NextResultSet
      BY <3>2 DEF NextResultSet, IInv, TypeOK
    <3>3. CASE PlanRows
      BY <3>3 DEF PlanRows, IInv, TypeOK
    <3>4. CASE DataRows
      BY <3>4 DEF DataRows, IInv, TypeOK
    <3>5. QED
      BY <1>4, <3>1, <3>2, <3>3, <3>4
  <2>4. QED
    BY <1>4, <2>1, <2>2, <2>3, MessageSteps, ReadingSteps
<1>5. CASE LoopEnds
  <2>1. TypeOK'
    BY <1>5 DEF LoopEnds, IInv, TypeOK, settings, looping
  <2>2. Promised'
    <3>1. UNCHANGED <<settings, onError, before>> /\ UNCHANGED <<s, exitcode>>
      BY <1>5 DEF LoopEnds
    <3>2. QED
      BY <3>1, SameInputs DEF IInv, Promised, SoFar
  <2>3. ExitTaken' /\ PlansOff' /\ PlanModeEnds' /\ pc' \notin {"planon", "send"}
    BY <1>5 DEF LoopEnds, IInv, ExitTaken, PlansOff, PlanModeEnds, settings
  <2>4. QED
    BY <2>1, <2>2, <2>3 DEF IInv
<1>6. CASE PlanOff
  <2>1. UNCHANGED <<settings, onError, before>> /\ exitcode' = exitcode /\ plan # "off"
    BY <1>6 DEF PlanOff, IInv, PlansOff
  <2>2. CASE session' = FALSE /\ UNCHANGED <<s, seen>>
    <3>1. TypeOK'
      BY <1>6, <2>2 DEF PlanOff, IInv, TypeOK, settings, looping
    <3>2. Promised'
      BY <2>1, <2>2, SameInputs DEF IInv, Promised, SoFar
    <3>3. ExitTaken' /\ PlansOff' /\ PlanModeEnds' /\ pc' \notin {"planon", "send"}
      BY <1>6, <2>1, <2>2 DEF PlanOff, IInv, ExitTaken, PlansOff, PlanModeEnds, settings
    <3>4. QED
      BY <3>1, <3>2, <3>3 DEF IInv
  <2>3. CASE /\ session' \in {session, FALSE} /\ s' = OffFailed(s)
             /\ seen' = Saw(seen, {"other", "plan"})
    <3>1. seen' \in History /\ seen'.events = seen.events \cup {"other", "plan"}
      BY <2>3, <1>0, SawTyped DEF Events
    <3>2. s' \in Locals /\ s'.err # "none"
      BY <2>3, <1>0 DEF OffFailed, Locals, Codes
    <3>3. TypeOK'
      <4>1. session' \in BOOLEAN
        BY <2>3 DEF IInv, TypeOK
      <4>2. QED
        BY <1>6, <3>1, <3>2, <4>1 DEF PlanOff, IInv, TypeOK, settings, looping
    <3>4. Promised'
      <4>1. CASE s.err # "none"
        <5>1. s' = s
          BY <2>3, <4>1 DEF OffFailed
        <5>2. QED
          BY <5>1, <2>1, SameInputs DEF IInv, Promised, SoFar
      <4>2. CASE s.err = "none"
        <5>1. s' = [code |-> Failed, err |-> "err"]
          BY <2>3, <4>2 DEF OffFailed
        <5>2. exitcode \in {before} \cup Noted(onError, level)
          BY <4>2 DEF IInv, Promised, SoFar, QueryOutcomes
        <5>3. [err |-> "err", exit |-> exitcode, code |-> Failed]
                \in QueryOutcomes(onError, level, before)
          BY <5>2 DEF QueryOutcomes
        <5>4. QED
          BY <5>1, <5>3, <2>1, SameInputs DEF Promised, SoFar
      <4>3. QED
        BY <4>1, <4>2
    <3>5. ExitTaken'
      BY <2>1, <2>3, <3>1 DEF IInv, ExitTaken, OffFailed
    <3>6. PlansOff' /\ PlanModeEnds' /\ pc' \notin {"planon", "send"}
      BY <1>6, <2>1, <3>1, <3>2 DEF PlanOff, PlansOff, PlanModeEnds, settings
    <3>7. QED
      BY <3>1, <3>3, <3>4, <3>5, <3>6 DEF IInv
  <2>4. QED
    BY <1>6, <2>2, <2>3 DEF PlanOff
<1>7. CASE UNCHANGED vars
  <2>1. UNCHANGED <<settings, onError, before>> /\ UNCHANGED <<s, exitcode>>
    BY <1>7 DEF vars
  <2>2. Promised'
    BY <2>1, SameInputs DEF IInv, Promised, SoFar
  <2>3. TypeOK'
    BY <1>7 DEF IInv, TypeOK, vars, settings
  <2>4. (pc \in {"planon", "send"} => Untouched)' /\ ExitTaken' /\ PlansOff' /\ PlanModeEnds'
    BY <1>7 DEF IInv, Untouched, ExitTaken, PlansOff, PlanModeEnds, vars, settings
  <2>5. QED
    BY <2>2, <2>3, <2>4 DEF IInv
<1>8. QED
  BY <1>1, <1>2, <1>3, <1>4, <1>5, <1>6, <1>7 DEF Next
-----------------------------------------------------------------------------
(* The theorems.                                                           *)

LEMMA Starts == Init => IInv
<1> SUFFICES ASSUME Init PROVE IInv
  OBVIOUS
<1>1. TypeOK
  BY DEF Init, TypeOK, Codes, Locals, History, Fresh
<1>2. Promised
  BY DEF Init, Promised, SoFar, QueryOutcomes
<1>3. QED
  BY <1>1, <1>2 DEF Init, IInv, ExitTaken, Fresh, PlansOff, PlanModeEnds

LEMMA Invariant == Spec => []IInv
<1>1. QED
  BY Starts, Inductive, PTL DEF Spec

(* Every variable of a query keeps its type, for every set of severities,  *)
(* numbers and levels: what a message leaves in retcode and Exitcode is    *)
(* always a code the callers know.                                         *)
THEOREM TypesCorrect == Spec => []TypeOK
<1>1. IInv => TypeOK
  BY DEF IInv
<1>2. QED
  BY <1>1, Invariant, PTL

(* handleError's request to exit survives the rest of the query and turning*)
(* plan collection off.                                                    *)
THEOREM ExitsReported == Spec => []ExitReported
<1>1. IInv => ExitReported
  BY DEF IInv, ExitTaken, ExitReported
<1>2. QED
  BY <1>1, Invariant, PTL

(* The session is left collecting plans only with an error for the caller. *)
THEOREM PlanModeLeft == Spec => []PlanModeEnds
<1>1. IInv => PlanModeEnds
  BY DEF IInv
<1>2. QED
  BY <1>1, Invariant, PTL

(* The contract speaks of the same codes and outcomes.                     *)
LEMMA SameTerms ==
  /\ Contract!NoRows = NoRows /\ Contract!Codes = Codes
  /\ \A on, lvl, x : Contract!QueryOutcomes(on, lvl, x) = QueryOutcomes(on, lvl, x)
BY DEF Contract!NoRows, NoRows, Contract!Failed, Failed, Contract!NotANumber,
       NotANumber, Contract!Codes, Codes, Contract!QueryOutcomes, QueryOutcomes,
       Contract!Noted, Noted, Contract!Fatal, Fatal, Contract!MinSeverity,
       MinSeverity

(* A step that ends the query, or a step inside it, in the contract.       *)
LEMMA InsideOrReturn ==
  ASSUME IInv, IInv', pc # "idle", UNCHANGED <<settings, onError, before>>
  PROVE  [Contract!QNext]_(Contract!qvars)
<1> DEFINE args == [level |-> level, onError |-> onError, exitcode |-> before]
           res == IF pc # "idle" THEN [err |-> "none", exit |-> 0, code |-> NoRows]
                  ELSE [err |-> s.err, exit |-> exitcode, code |-> s.code]
<1>1. args' = args /\ args.level = level /\ args.onError = onError
      /\ args.exitcode = before
  BY DEF settings
<1>2. CASE pc' # "idle"
  <2>1. UNCHANGED <<pc # "idle", args, res>>
    BY <1>1, <1>2
  <2>2. QED
    BY <2>1 DEF Contract!qvars
<1>3. CASE pc' = "idle"
  <2>1. res' = SoFar'
    BY <1>3 DEF SoFar
  <2>2. res' \in QueryOutcomes(onError, level, before)
    BY <2>1, SameInputs DEF IInv, Promised
  <2>3. Contract!Return
    BY <1>1, <1>3, <2>2, SameTerms DEF Contract!Return
  <2>4. QED
    BY <2>3 DEF Contract!QNext
<1>4. QED
  BY <1>2, <1>3

(* runQuery keeps the contract on which SqlcmdRun builds GO and EXIT:      *)
(* whatever the server sends, one call returns once, and with one of       *)
(* QueryOutcomes for the settings it was called with.                      *)
THEOREM ContractKept == Spec => KeepsContract
<1>1. Init => Contract!QInit
  <2> SUFFICES ASSUME Init PROVE Contract!QInit
    OBVIOUS
  <2>1. [level |-> level, onError |-> onError, exitcode |-> before]
          \in [level : 0..255, onError : BOOLEAN, exitcode : Codes]
    BY QueryAssumption DEF Init, Codes
  <2>2. [err |-> s.err, exit |-> exitcode, code |-> s.code]
          = [err |-> "none", exit |-> 0, code |-> NoRows]
    BY DEF Init
  <2>3. QED
    BY <2>1, <2>2, SameTerms DEF Init, Contract!QInit, Contract!CallArgs, Contract!Nothing
<1>2. IInv /\ IInv' /\ [Next]_vars => [Contract!QNext]_(Contract!qvars)
  <2> SUFFICES ASSUME IInv, IInv', [Next]_vars
               PROVE  [Contract!QNext]_(Contract!qvars)
    OBVIOUS
  <2>1. CASE Begin
    <3>1. ~(pc # "idle") /\ (pc' # "idle")
      BY <2>1 DEF Begin
    <3>2. [level |-> level, onError |-> onError, exitcode |-> before]'
            \in [level : 0..255, onError : BOOLEAN, exitcode : Codes]
      BY QueryAssumption DEF IInv, TypeOK
    <3>3. Contract!Call
      BY <3>1, <3>2, SameTerms DEF Contract!Call, Contract!CallArgs, Contract!Nothing
    <3>4. QED
      BY <3>3 DEF Contract!QNext
  <2>2. CASE PlanOn \/ SendQuery \/ Notice \/ ServerError \/ NextResultSet \/ PlanRows
             \/ DataRows \/ LoopEnds \/ PlanOff
    <3>1. pc # "idle" /\ UNCHANGED <<settings, onError, before>>
      BY <2>2 DEF PlanOn, SendQuery, Notice, ServerError, NextResultSet, PlanRows,
                  DataRows, LoopEnds, PlanOff, Reading
    <3>2. QED
      BY <3>1, InsideOrReturn
  <2>3. CASE UNCHANGED vars
    <3>1. UNCHANGED <<pc, level, onError, before, s, exitcode>>
      BY <2>3 DEF vars, settings
    <3>2. QED
      BY <3>1 DEF Contract!qvars
  <2>4. QED
    BY <2>1, <2>2, <2>3 DEF Next
<1>3. QED
  BY <1>1, <1>2, Invariant, PTL DEF Spec, KeepsContract, Contract!QSpec
=============================================================================
