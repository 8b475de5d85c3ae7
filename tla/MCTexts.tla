-------------------------------- MODULE MCTexts -------------------------------
(***************************************************************************)
(* Four parts that do nothing but read or write a text, each on its own: a *)
(* behaviour runs ReadOnlyScan on a query, BatchScan on lines that come in *)
(* any order, Formatter on result sets or Plan on an export, and leaves    *)
(* the others where they are.                                              *)
(***************************************************************************)
EXTENDS ReadOnlyScan, BatchScan, Formatter, Plan

(* Every text of up to four tokens that matter to the lexer, and then a    *)
(* statement that is rejected: it is seen unless a quote or comment is open.*)
Lexical == {"SET", "'", "[", "]", ";", "--", "/", "*", "n"}
Hidden  == {t \o <<";", "INSERT">> : t \in BoundedSeq(Lexical, 4)}

(* Statements of up to three words and parentheses.                        *)
Verbal  == Words \cup {";", "(", ")", "/"}
Spaced(t) == [i \in 1..(2 * Len(t)) |-> IF i % 2 = 1 THEN t[(i + 1) \div 2] ELSE "n"]
Spoken  == {Spaced(t) : t \in BoundedSeq(Verbal, 3)}

(* Longer ones: what a word is looked for behind.                          *)
Longer  == {Spaced(t \o <<w>>) :
              t \in {<<"SELECT", "(", "x", ")">>, <<"SELECT", "(", "INTO", ")">>,
                     <<"WITH", "(", "SELECT", ")">>, <<"WITH", "x", "(", "INSERT", ")">>,
                     <<"CREATE", "TABLE", "#x", ";">>, <<"SELECT", "INTO", "#x", ";">>,
                     <<"SELECT", "x", "INTO">>, <<"BEGIN", "SET", ";">>},
              w \in Verbal}

Comments == {<<"SET", "/", "*">> \o t \o <<"*", "/", ";", "DROP">> : t \in BoundedSeq({"/", "*", "n"}, 4)}

MCQueries == {t \in Hidden \cup Spoken \cup Longer \cup Comments : Statements(t)}

MCLines ==
  {<<c>> : c \in {"x", "'", "\"", "[", "]", "--", "GO", ",", "*", "/"}} \cup
  {<<>>, <<"/", "*">>, <<"*", "/">>, <<"/", "*", "/">>, <<"]", "]">>, <<"'", "'">>,
   <<"$(", "x", ")">>, <<"'", "$(", "x", ")">>, <<"$(", "GO", ")", "'">>, <<"$(", "x">>,
   <<"--", "'">>, <<"--", "$(", "x", ")">>}

MCScripts == {<<"GO", "n", "'">>, <<"GO", "n", "GO">>, <<"'", "n", "'">>,
              <<"x", "n", "$(", "x", ")">>, <<"--", "n", "$(", "x", ")">>}

MCDefined == {<<"x">>}
MCValue   == <<",", ",">>

(* Widths that cells, headings and tables are shorter, as long and longer  *)
(* than; at 7 an ascii column has three characters.  With a variable width *)
(* of 7 cells are padded further than headings.                            *)
Usual == [format |-> "horizontal", width |-> 0, headers |-> 0, fixed |-> 0, variable |-> 4,
          trim |-> FALSE, control |-> "ignore", level |-> 0]

MCSettings ==
  {[Usual EXCEPT !.format = f, !.width = w] : f \in {"horizontal", "vertical", "ascii"}, w \in {0, 5, 9}}
  \cup {[Usual EXCEPT !.control = c, !.width = w, !.fixed = 2 - w] :
          c \in {"replace", "consecutive"}, w \in {0, 2}}
  \cup {[Usual EXCEPT !.control = "remove", !.fixed = 2]}
  \cup {[Usual EXCEPT !.headers = h, !.variable = v, !.trim = v = 4 /\ h = 1, !.width = 2 * v] :
          h \in {-1, 1}, v \in {0, 4}}
  \cup {[Usual EXCEPT !.level = e, !.width = 4] : e \in {6, 258}}
  \cup {[Usual EXCEPT !.format = "ascii", !.width = 7], [Usual EXCEPT !.variable = 7]}

Column(n, t, l) == [name |-> [i \in 1..n |-> "N"], type |-> t, length |-> l]

MCTables == {<<Column(2, "number", 1)>>,
             <<Column(0, "char", 3), Column(5, "max", 9000)>>,
             <<Column(1, "binary", 3), Column(3, "number", 1)>>,
             <<Column(1, "number", 1), Column(1, "char", 4)>>,
             <<Column(1, "char", 2), Column(2, "max", 9000), Column(3, "number", 1)>>}

(* Each kind of content in each column.                                    *)
MCRows == {<<"short", "null", "short">>, <<"long", "long", "long">>, <<"broken", "broken", "broken">>,
           <<"null", "short", "null">>}

(* Documents with one plan of every small tree of operators.               *)
Element(tag, attr, inner) == [tag |-> tag, attr |-> attr, inner |-> inner]
Empty(tag)                == Element(tag, <<>>, <<>>)

Thread(n)   == Element("RunTimeCountersPerThread", [rows |-> n, execs |-> 1, elapsed |-> 2 - n], <<>>)
NoStats     == Element("ColumnsWithNoStatistics", <<>>, <<Empty("ColumnReference"), Empty("ColumnReference")>>)
Warned      == {<<>>, <<Empty("Warnings")>>,
                <<Element("Warnings", <<>>, <<Empty("SpillToTempDb"), NoStats>>)>>}
Threads     == {<<>>, <<Thread(2)>>, <<Thread(2), Thread(1)>>}
Estimates   == {1, 2}

Op(id, est, threads, w, inner) ==
  Element("RelOp", [id |-> id, est |-> est],
          w \o <<Element("RunTimeInformation", <<>>, threads),
                 Element("Scan", <<>>, <<Element("Object", "t", <<>>)>> \o inner)>>)

Leaf(id)  == {Op(id, 2, n, w, <<>>) : n \in Threads, w \in Warned}
Plain(id) == {Op(id, e, n, <<>>, <<>>) : n \in Threads, e \in Estimates}
Unary     == {Op(1, e, n, w, <<l>>) : e \in Estimates, n \in Threads, w \in Warned, l \in Leaf(2)}
Chain     == {Op(1, 2, n, <<>>, <<Op(2, e, k, w, <<l>>)>>) :
                e \in Estimates, n \in Threads, k \in Threads, w \in Warned, l \in Plain(3)}
Join      == {Op(1, 1, n, w, <<l, r>>) : n \in Threads, w \in Warned, l \in Leaf(2), r \in Plain(3)}

Query(w, root) == Element("QueryPlan", <<>>, <<Empty("MemoryGrantInfo"), Empty("StatisticsInfo")>> \o w \o root)
Stmt(q)        == Element("StmtSimple", <<>>, <<Empty("StatementSetOptions")>> \o q)
Doc(statements) ==
  Element("ShowPlanXML", <<>>, <<Element("BatchSequence", <<>>,
    <<Element("Batch", <<>>, <<Element("Statements", <<>>, statements)>>)>>)>>)

Bare   == Stmt(<<>>)
Simple == Stmt(<<Query(<<>>, <<Op(1, 2, <<Thread(2)>>, <<>>, <<>>)>>)>>)

Documents ==
  {Doc(<<Stmt(<<Query(w, <<t>>)>>)>>) : w \in Warned, t \in Unary}
  \cup {Doc(<<Stmt(<<Query(<<>>, <<t>>)>>)>>) : t \in Chain \cup Join}
  \cup {Doc(s) : s \in {<<>>, <<Bare>>, <<Bare, Stmt(<<Query(<<>>, <<>>)>>)>>}}
  \cup {Doc([i \in 1..n |-> Simple]) : n \in {2, 4, 5}}

(* One document in a file; two, or one, as they come out of other tools.   *)
Line    == <<Mark("newline")>>
Header  == <<Mark("word"), Mark("comma"), Mark("word")>>
Quoted(s) == <<Mark("quote")>> \o Doubled(s) \o <<Mark("quote")>>
One     == TokensOf(Doc(<<Simple>>))
Other   == TokensOf(Doc(<<Bare>>))

MCExports ==
  {[text |-> TokensOf(d), docs |-> <<d>>] : d \in Documents}
  \cup {[text |-> t, docs |-> <<Doc(<<Simple>>), Doc(<<Bare>>)>>] :
          t \in {One \o Line \o Other, Quoted(One \o Line \o Other), Header \o Line \o One \o Line \o Other,
                 Quoted(One) \o Line \o Quoted(Other)}}
  \cup {[text |-> t, docs |-> <<Doc(<<Simple>>)>>] :
          t \in {Quoted(One), Header \o Line \o Quoted(One),
                 Header \o Line \o <<Mark("word"), Mark("comma")>> \o Quoted(One) \o Line}}

-----------------------------------------------------------------------------
NoQuery == query = <<>> /\ allowExec = FALSE /\ pos = 1 /\ verdict = "accepted"
NoBatch == /\ parse = FALSE /\ raw = <<>> /\ buffer = <<>> /\ nil = TRUE /\ lineOne = TRUE
           /\ quote = "" /\ comment = FALSE /\ varmap = {} /\ swallowed = TRUE /\ displaced = FALSE
NoRows  == /\ kind = "none" /\ set = Usual /\ xml = FALSE /\ stage = "none" /\ cols = <<>>
           /\ added = <<>> /\ text = <<>> /\ writepos = 0 /\ errtext = <<>> /\ pending = <<>>
NoPlan  == /\ data = [text |-> <<>>, docs |-> <<>>] /\ phase = "none" /\ chunks = <<>> /\ at = <<1, 1>>
           /\ stack = <<>> /\ plans = <<>> /\ results = <<>>

TextsInit ==
  \/ ROInit  /\ NoBatch /\ NoRows /\ NoPlan
  \/ NoQuery /\ BInit   /\ NoRows /\ NoPlan
  \/ NoQuery /\ NoBatch /\ FInit  /\ NoPlan
  \/ NoQuery /\ NoBatch /\ NoRows /\ PInit

CheckQuery  == CheckStatement /\ UNCHANGED <<bvars, fvars, pvars>>
ScanBatch   == /\ ~(parse = FALSE /\ swallowed /\ buffer = <<>>)
               /\ BNext /\ UNCHANGED <<rovars, fvars, pvars>>
Format      == FNext /\ UNCHANGED <<rovars, bvars, pvars>>
AnalyzePlan == PNext /\ UNCHANGED <<rovars, bvars, fvars>>

TextsNext == CheckQuery \/ ScanBatch \/ Format \/ AnalyzePlan

TextsSpec == TextsInit /\ [][TextsNext]_<<rovars, bvars, fvars, pvars>>
===============================================================================
