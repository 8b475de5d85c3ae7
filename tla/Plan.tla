--------------------------------- MODULE Plan ---------------------------------
(***************************************************************************)
(* internal/plan and "sqlcmd plan analyze": showplan documents are found   *)
(* in a text, parsed token by token by functions that call one another and *)
(* each count the elements they have open, and analyzed.                   *)
(***************************************************************************)
EXTENDS Integers, Sequences, FiniteSets, TLC, SequencesExt

CONSTANT Exports   \* [text, docs]: a text and the documents somebody put into it

VARIABLES
  data,      \* what the command was given
  phase,     \* "given", "parsing", "parsed", "failed" or "analyzed"
  chunks,    \* documents that have been found
  at,        \* document and token that are read next
  stack,     \* the functions that are running: [what, depth, value]
  plans,     \* documents that have been parsed: sequences of statements
  results    \* Analyze: a result for each statement

pvars == <<data, phase, chunks, at, stack, plans, results>>

-----------------------------------------------------------------------------
(* A document is an element [tag, attr, inner].  A text is made of tokens  *)
(* [is, tag, attr]: "start" and "end" of elements, and "text" between.     *)
(* Attributes have doubled quotes in a text that is a field of a CSV file. *)
(* F(x), with x bound to its value and so found once.                      *)
Strictly(F(_), x) == CHOOSE y \in {F(v) : v \in {x}} : TRUE
Each(s, F(_))     == Strictly(LAMBDA t : [i \in 1..Len(t) |-> Strictly(F, t[i])], s)
Joined(ss)        == Strictly(FlattenSeq, ss)

RECURSIVE TokensOf(_)
TokensOf(e) ==
  <<[is |-> "start", tag |-> e.tag, attr |-> e.attr, quotes |-> 1]>>
  \o Joined(Each(e.inner, TokensOf))
  \o <<[is |-> "end", tag |-> e.tag, attr |-> <<>>, quotes |-> 1]>>

Mark(c)       == [is |-> "text", tag |-> c, attr |-> <<>>, quotes |-> 1]
Doubled(s)    == [i \in 1..Len(s) |-> [s[i] EXCEPT !.quotes = 2]]
KeepsQuotes(s) == s
Undoubled(s)  == [i \in 1..Len(s) |-> [s[i] EXCEPT !.quotes = 1]]

Opens(t)  == t.is = "start" /\ t.tag = "ShowPlanXML"
Closes(t) == t.is = "end" /\ t.tag = "ShowPlanXML"
FirstOf(s, Test(_)) == LET found == {i \in 1..Len(s) : Test(s[i])}
                       IN  IF found = {} THEN 0 ELSE CHOOSE i \in found : \A j \in found : i <= j
From(s, i)    == SubSeq(s, i, Len(s))

(* encoding/csv, of the second record: its first field that is markup.     *)
(* Markup that is not in quotes has quotes in it, which is an error.       *)
FieldOfSecondRecord(s) ==
  LET newline == FirstOf(s, LAMBDA t : t.tag = "newline")
      rest    == From(s, newline + 1)
      end     == FirstOf(rest, LAMBDA t : t.tag = "newline")
      record  == IF end = 0 THEN rest ELSE SubSeq(rest, 1, end - 1)
      i       == FirstOf(record, LAMBDA t : t.is = "start")
      close   == FirstOf(From(record, i), LAMBDA t : t.tag = "quote")
  IN  IF newline = 0 \/ i <= 1 \/ close = 0 THEN s
      ELSE IF record[i - 1].tag # "quote" THEN s
      ELSE Undoubled(SubSeq(record, i, i + close - 2))

ExtractFromCSV(s) ==
  LET inner == SubSeq(s, 2, Len(s) - 1)
  IN  IF s[1].is # "text" THEN s
      ELSE IF s[1].tag = "quote" /\ s[Len(s)].tag = "quote" /\ FirstOf(inner, Opens) # 0
        THEN Undoubled(inner)
      ELSE FieldOfSecondRecord(s)

RECURSIVE SplitPlanDocuments(_)
SplitPlanDocuments(s) ==
  LET start == FirstOf(s, Opens)
      rest  == From(s, start)
      end   == FirstOf(rest, Closes)
  IN  IF start = 0 THEN <<>>
      ELSE IF end = 0 THEN <<rest>>
      ELSE <<SubSeq(rest, 1, end)>> \o SplitPlanDocuments(From(rest, end + 1))

-----------------------------------------------------------------------------
Chunk == chunks[at[1]]
Token == Chunk[at[2]]
Top   == stack[Len(stack)]

Frame(what, value) == [what |-> what, depth |-> 1, value |-> value]

Begun(t) ==
  CASE t.tag = "StmtSimple" -> Frame("StmtSimple", [plan |-> <<>>])
    [] t.tag = "QueryPlan"  -> Frame("QueryPlan", [root |-> <<>>, warnings |-> <<>>, stats |-> 0])
    [] t.tag = "RelOp"      -> Frame("RelOp", [id |-> t.attr.id, est |-> t.attr.est, object |-> "",
                                               threads |-> <<>>, warnings |-> <<>>, children |-> <<>>])
    [] t.tag = "Warnings"   -> Frame("Warnings", <<>>)

Kept(caller, f) ==
  CASE f.what \in {"StmtSimple", "warning"} -> [caller EXCEPT !.value = Append(@, f.value)]
    [] f.what = "QueryPlan"  -> [caller EXCEPT !.value.plan = <<f.value>>]
    [] f.what = "Warnings"   -> [caller EXCEPT !.value.warnings = f.value]
    [] f.what = "RelOp"      -> IF caller.what = "RelOp"
                                  THEN [caller EXCEPT !.value.children = Append(@, f.value)]
                                  ELSE [caller EXCEPT !.value.root = <<f.value>>]

(* The count is not brought back after warnings.                           *)
KeepsCount(caller, f) ==
  IF f.what \in {"RelOp", "warning"} THEN [Kept(caller, f) EXCEPT !.depth = @ - 1] ELSE Kept(caller, f)

(* What a function does with what the one it called has returned.          *)
Taken(caller, f) ==
  IF f.what \in {"RelOp", "Warnings", "warning"} THEN [Kept(caller, f) EXCEPT !.depth = @ - 1]
  ELSE Kept(caller, f)

(* An end element: the function that has nothing open any more returns.    *)
Ended ==
  IF Top.depth > 1 THEN Append(Front(stack), [Top EXCEPT !.depth = @ - 1])
  ELSE LET callers == Front(stack)
       IN  Append(Front(callers), Taken(Last(callers), Top))

(* A start element that is handled where it is, or by another function.    *)
Deeper(f)   == [f EXCEPT !.depth = @ + 1]
Stays(f)    == Append(Front(stack), f)
Calls(f, g) == Append(Front(stack), f) \o <<g>>

Reading(what) == phase = "parsing" /\ stack # <<>> /\ Top.what = what
                 /\ at[1] <= Len(chunks) /\ at[2] <= Len(Chunk) /\ Token.quotes = 1
Advance       == at' = <<at[1], at[2] + 1>> /\ UNCHANGED <<data, phase, chunks, plans, results>>

ParseSinglePlan ==
  /\ Reading("document") /\ Advance
  /\ stack' = IF Token.is = "start" /\ Token.tag = "StmtSimple" THEN Calls(Top, Begun(Token)) ELSE stack

ParseStmtSimple ==
  /\ Reading("StmtSimple") /\ Advance
  /\ stack' = IF Token.is = "end" THEN Ended
              ELSE IF Token.tag = "QueryPlan" THEN Calls(Deeper(Top), Begun(Token))
              ELSE Stays(Deeper(Top))

ParseQueryPlan ==
  /\ Reading("QueryPlan") /\ Advance
  /\ stack' = IF Token.is = "end" THEN Ended
              ELSE IF Token.tag \in {"Warnings", "RelOp"} THEN Calls(Deeper(Top), Begun(Token))
              ELSE IF Token.tag = "StatisticsInfo" THEN Stays([Deeper(Top) EXCEPT !.value.stats = @ + 1])
              ELSE Stays(Deeper(Top))

ParseRelOp ==
  /\ Reading("RelOp") /\ Advance
  /\ stack' = IF Token.is = "end" THEN Ended
              ELSE CASE Token.tag \in {"Warnings", "RelOp"} -> Calls(Deeper(Top), Begun(Token))
                     [] Token.tag = "RunTimeCountersPerThread" ->
                          Stays([Deeper(Top) EXCEPT !.value.threads = Append(@, Token.attr)])
                     [] Token.tag = "Object" -> Stays([Deeper(Top) EXCEPT !.value.object = Token.attr])
                     [] OTHER -> Stays(Deeper(Top))

(* The outer loop of parseWarnings, and the inner one.                     *)
ParseWarnings ==
  /\ Reading("Warnings") /\ Advance
  /\ stack' = IF Token.is = "end" THEN Ended
              ELSE Calls(Deeper(Top), Frame("warning", [tag |-> Token.tag, children |-> <<>>]))

ParseWarning ==
  /\ Reading("warning") /\ Advance
  /\ stack' = IF Token.is = "end" THEN Ended
              ELSE Stays([Deeper(Top) EXCEPT !.value.children = Append(@, Token.tag)])

(* The end of a document, or of all; one that cannot be parsed ends Parse. *)
NextDocument ==
  /\ phase = "parsing" /\ at[1] <= Len(chunks) /\ at[2] > Len(Chunk) /\ Len(stack) = 1
  /\ Closes(Last(Chunk))
  /\ plans' = Append(plans, Top.value)
  /\ at' = <<at[1] + 1, 1>> /\ stack' = <<Frame("document", <<>>)>>
  /\ UNCHANGED <<data, phase, chunks, results>>

Fail ==
  /\ phase = "parsing" /\ at[1] <= Len(chunks)
  /\ IF at[2] > Len(Chunk) THEN Len(stack) > 1 \/ ~Closes(Last(Chunk)) ELSE Token.quotes # 1
  /\ phase' = "failed" /\ UNCHANGED <<data, chunks, at, stack, plans, results>>

ParseReturns ==
  /\ phase = "parsing" /\ at[1] > Len(chunks)
  /\ phase' = "parsed" /\ UNCHANGED <<data, chunks, at, stack, plans, results>>

-----------------------------------------------------------------------------
(* The rows of an operator, and how long it ran, over its threads.         *)
Total(op, f)   == FoldSeq(LAMBDA t, n : n + t[f], 0, op.threads)
ActualRows(op) == Total(op, "rows")
ElapsedMs(op)  == FoldSeq(LAMBDA t, n : IF t.elapsed > n THEN t.elapsed ELSE n, 0, op.threads)
Estimated(op)  == op.est * IF Total(op, "execs") > 1 THEN Total(op, "execs") ELSE 1

(* How far the estimate is off, as a fraction that is at least one.        *)
Off(op) == IF ActualRows(op) > Estimated(op) THEN <<ActualRows(op), Estimated(op)>>
           ELSE <<Estimated(op), ActualRows(op)>>
Worse(a, b) == a.off[1] * b.off[2] > b.off[1] * a.off[2]

(* The order in which an operator and those below it are visited.          *)
RECURSIVE Visited(_)
Visited(op) == <<op>> \o Joined(Each(op.children, Visited))

Walk(op, Visit(_)) == Joined(Each(Visited(op), Visit))
HasActualInfo(op)  == \E o \in ToSet(Visited(op)) : ActualRows(o) > 0 \/ ElapsedMs(o) > 0

ErrorUnless(inherited, op) ==
  IF op.est > 0 /\ ActualRows(op) > 0 /\ ~inherited
    THEN <<[id |-> op.id, rows |-> ActualRows(op), off |-> Off(op)]>> ELSE <<>>

(* Inherited is what was estimated, not what happened.                     *)
ErrorByEstimate(op) == ErrorUnless(Len(op.children) = 1 /\ op.children[1].est = op.est, op)

CardError(op) ==
  ErrorUnless(Len(op.children) = 1 /\ ActualRows(op.children[1]) = ActualRows(op), op)

CardErrors(root) ==
  IF ~HasActualInfo(root) THEN <<>>
  ELSE Strictly(LAMBDA errors : SubSeq(SortSeq(errors, Worse), 1, IF Len(errors) > 15 THEN 15 ELSE Len(errors)),
                Walk(root, CardError))

OpWarnings(root) ==
  Walk(root, LAMBDA op : Each(op.warnings, LAMBDA w : [id |-> op.id, warning |-> w]))

MissingStats(root) ==
  Walk(root, LAMBDA op : Joined(Each(op.warnings, LAMBDA w :
                           IF w.tag = "ColumnsWithNoStatistics" THEN w.children ELSE <<>>)))

AnalyzeStatement(stmt) ==
  IF stmt.plan = <<>> \/ stmt.plan[1].root = <<>>
    THEN [plan |-> stmt.plan, errors |-> <<>>, opwarnings |-> <<>>, missing |-> <<>>]
  ELSE LET root == stmt.plan[1].root[1]
       IN  [plan |-> stmt.plan, errors |-> CardErrors(root), opwarnings |-> OpWarnings(root),
            missing |-> MissingStats(root)]

Analyze ==
  /\ phase = "parsed" /\ phase' = "analyzed"
  /\ results' = Each(Joined(plans), AnalyzeStatement)
  /\ UNCHANGED <<data, chunks, at, stack, plans>>

(* The file that is named, or what a query has left in the plan buffer.    *)
PInit ==
  /\ data \in Exports /\ phase = "given" /\ chunks = <<>> /\ at = <<1, 1>>
  /\ stack = <<>> /\ plans = <<>> /\ results = <<>>

Parse ==
  /\ phase = "given" /\ phase' = "parsing"
  /\ chunks' = SplitPlanDocuments(ExtractFromCSV(data.text))
  /\ stack' = <<Frame("document", <<>>)>>
  /\ UNCHANGED <<data, at, plans, results>>

PNext ==
  \/ Parse \/ ParseSinglePlan \/ ParseStmtSimple \/ ParseQueryPlan \/ ParseRelOp
  \/ ParseWarnings \/ ParseWarning \/ NextDocument \/ Fail \/ ParseReturns \/ Analyze

-----------------------------------------------------------------------------
(* What a document says, read off its elements: those below e, in order,   *)
(* that are called tag, without those that are inside one of closed.       *)
RECURSIVE Below(_, _, _), Tags(_), OperatorOf(_)
Below(e, tag, closed) ==
  Joined(Each(e.inner, LAMBDA c : (IF c.tag = tag THEN <<c>> ELSE <<>>)
                                      \o (IF c.tag \in closed THEN <<>> ELSE Below(c, tag, closed))))

Tags(e) == Joined(Each(e.inner, LAMBDA c : <<c.tag>> \o Tags(c)))

LastOf(s, none, F(_)) == IF s = <<>> THEN none ELSE F(Last(s))

WarningsOf(e) ==
  Strictly(LAMBDA all : LastOf(all, <<>>, LAMBDA l :
             Each(l.inner, LAMBDA w : [tag |-> w.tag, children |-> Tags(w)])),
           Below(e, "Warnings", {"Warnings", "RelOp"}))

OperatorOf(e) ==
  [id |-> e.attr.id, est |-> e.attr.est,
   object   |-> Strictly(LAMBDA objects : LastOf(objects, "", LAMBDA o : o.attr),
                         Below(e, "Object", {"Warnings", "RelOp"})),
   threads  |-> Each(Below(e, "RunTimeCountersPerThread", {"Warnings", "RelOp"}), LAMBDA t : t.attr),
   warnings |-> WarningsOf(e),
   children |-> Each(Below(e, "RelOp", {"Warnings", "RelOp"}), OperatorOf)]

StatementOf(e) ==
  [plan |-> Each(Below(e, "QueryPlan", {}), LAMBDA q :
     [root |-> Each(Below(q, "RelOp", {"RelOp"}), OperatorOf), warnings |-> WarningsOf(q),
      stats |-> Len(Below(q, "StatisticsInfo", {"RelOp", "Warnings"}))])]

StatementsOf(doc) == Below(doc, "StmtSimple", {})

(* Statements whose successors nothing separates from a plan in them.      *)
Separate(doc) ==
  \A s \in ToSet(Below(doc, "Statements", {})) :
    \A k \in 1..(Len(s.inner) - 1) : Below(s.inner[k], "QueryPlan", {}) = <<>>

(* Every document that was put into the text is found, alone and whole:    *)
(* in a file of its own or behind others, as the only field of a CSV file  *)
(* or behind other fields and a header, with its quotes doubled or not.    *)
PlansFound == phase = "parsing" /\ at = <<1, 1>> => chunks = Each(data.docs, TokensOf)

(* The functions that parse a document agree on where each element ends:   *)
(* an operator gets its own rows, object, warnings and children, and none  *)
(* of the operators below it, at any depth; no warning is lost or counted  *)
(* for another operator.  (In documents without the defect that            *)
(* StatementsParsed shows.)                                                *)
TreeParsed ==
  phase \in {"failed", "analyzed"} /\ (\A i \in 1..Len(data.docs) : Separate(data.docs[i])) =>
    /\ phase # "failed"
    /\ phase = "analyzed" =>
         LET all     == Joined(Each(data.docs, StatementsOf))
             read(e) == Joined(Each(Below(e, "RelOp", {"Warnings"}), LAMBDA o :
                          Each(WarningsOf(o), LAMBDA w : [id |-> o.attr.id, warning |-> w])))
         IN  /\ Each(results, LAMBDA r : r.plan) = Each(all, LAMBDA e : StatementOf(e).plan)
             /\ Each(results, LAMBDA r : r.opwarnings) = Each(all, read)

(* A wrong estimate is traced to where it comes from: wherever rows come   *)
(* out of an operator, it or one below it from which they come unchanged   *)
(* is listed among the fifteen worst, and no operator is listed twice.     *)
All(op) == ToSet(Visited(op))

OriginReported ==
  \A i \in 1..Len(results) : results[i].plan # <<>> /\ results[i].plan[1].root # <<>> =>
    LET listed == {results[i].errors[k].id : k \in 1..Len(results[i].errors)}
        ops    == All(results[i].plan[1].root[1])
    IN  /\ Cardinality(listed) = Len(results[i].errors)
        /\ Cardinality(ops) <= 15 => \A op \in ops : ActualRows(op) > 0 =>
             \E from \in All(op) : from.id \in listed /\ ActualRows(from) = ActualRows(op)

(* Parse: "we consume until our own closing tag", so that each statement   *)
(* of a document is parsed, with its own plan.                             *)
StatementsParsed ==
  phase \in {"parsed", "failed"} =>
    Joined(plans) = Joined(Each(data.docs, LAMBDA d : Each(StatementsOf(d), StatementOf)))
=============================================================================
