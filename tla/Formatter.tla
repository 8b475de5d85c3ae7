------------------------------ MODULE Formatter ------------------------------
(***************************************************************************)
(* pkg/sqlcmd/format*.go: the four formatters, called by runQuery in the   *)
(* order of the result sets and messages of a batch.  A text is a sequence *)
(* of characters; the cells of row r are made of the number r, so that the *)
(* output can be read back.                                                *)
(***************************************************************************)
EXTENDS Integers, Sequences, FiniteSets, SequencesExt, FiniteSetsExt

CONSTANTS
  Settings,      \* scripting variables and options of the command line, see below
  Tables,        \* sequences of columns
  Rows,          \* what cells contain: sequences of "short", "long", "broken", "null"
  Classes,       \* severities of errors, which are as long as they are severe
  Lengths,       \* of messages, and of what a failed scan reports
  MaxPad,        \* maxPadWidth, 8000
  MaxRows,       \* bound: rows of a result set
  Infinite       \* a terminal that is wide enough

Types == {"number", "char", "binary", "max"}
Kinds == {"short", "long", "broken", "null"}

ASSUME FormatterAssumption ==
  /\ Settings \subseteq
       [format : {"horizontal", "vertical", "ascii"}, width : Nat, headers : Int,
        fixed : Nat, variable : Nat, trim : BOOLEAN, level : Int,
        control : {"ignore", "replace", "remove", "consecutive"}]
  /\ Tables \subseteq Seq([name : Seq(STRING), type : Types, length : Nat]) \ {<<>>}
  /\ \A k \in Rows, t \in Tables : \A i \in 1..Len(t) : k[i] \in Kinds
  /\ Classes \subseteq Nat /\ Lengths \subseteq Nat /\ MaxPad \in Nat
  /\ MaxRows \in 0..3 /\ Infinite \in Nat

VARIABLES
  kind,          \* which formatter: "default", "ascii", "csv" or "jsonl"
  set,           \* Variables, -W and -k
  xml,           \* :XML
  stage,         \* "idle", "batch" or "rows"
  cols,          \* columns of the result set, and rows of it so far; one that
  added,         \*   could not be scanned is <<>>
  text,          \* what it has written, the writepos of writeOut
  writepos,
  errtext,       \* what it has written to the error writer
  pending        \* rows that are kept back: of ascii, and of the CSV writer

fvars == <<kind, set, xml, stage, cols, added, text, writepos, errtext, pending>>

-----------------------------------------------------------------------------
(* A setting has format, width (SQLCMDCOLWIDTH), headers, fixed, variable, *)
(* trim (-W), control (-k) and level (-m).  Columns have a name, a type    *)
(* and a length: "number" is TINYINT, "char" CHAR or VARCHAR, "binary"     *)
(* VARBINARY, "max" VARCHAR(MAX).                                          *)
IsLargeVariable(c) == c.type = "max"
HasControls(c)     == c.type \in {"char", "max"}
IsBinary(c)        == c.type = "binary"

Smaller(a, b) == IF a < b THEN a ELSE b
Larger(a, b)  == IF a > b THEN a ELSE b

(* FoldLeft, with what comes before bound to its value and so found once.  *)
Folded(op(_, _), base, s) ==
  LET f[i \in 0..Len(s)] ==
        IF i = 0 THEN base ELSE CHOOSE y \in {op(before, s[i]) : before \in {f[i - 1]}} : TRUE
  IN  f[Len(s)]

Repeat(c, n) == [i \in 1..Larger(n, 0) |-> c]
Flat(s)      == Folded(LAMBDA a, b : a \o b, <<>>, s)

(* Variables.RowsBetweenHeaders.                                           *)
RowsBetweenHeaders == IF set.variable = 0 THEN -1 ELSE set.headers

(* calcColumnDetails.                                                      *)
DisplayWidth(c) ==
  LET length == IF set.fixed > 0 THEN Smaller(set.fixed, c.length) ELSE c.length
  IN  IF set.variable = 0 THEN 0
      ELSE CASE c.type = "number"             -> Larger(3, Len(c.name))
             [] c.type \in {"char", "binary"} -> Larger(length, Len(c.name))
             [] IsLargeVariable(c)            -> set.variable

-----------------------------------------------------------------------------
(* writeOut wraps what comes after writepos, mustWriteOut does not.        *)
Put(a, c) ==
  LET full == set.width > 0 /\ a.pos = set.width
      b    == IF full THEN [text |-> Append(a.text, "\n"), pos |-> 0] ELSE a
  IN  [text |-> Append(b.text, c),
       pos  |-> IF set.width = 0 THEN b.pos ELSE IF c = "\n" THEN 0 ELSE b.pos + 1]

WriteOut(a, s)     == CHOOSE b \in {Folded(Put, a, t) : t \in {s}} : TRUE
MustWriteOut(a, s) == [text |-> a.text \o s, pos |-> a.pos]

FitLate(s) ==
  LET fit(a, c) ==
        LET b == IF a.pos > set.width /\ c # "\n" THEN [text |-> Append(a.text, "\n"), pos |-> 0]
                 ELSE a
        IN  [text |-> Append(b.text, c), pos |-> IF c = "\n" THEN 0 ELSE b.pos + 1]
  IN  IF set.width = 0 \/ Len(s) < set.width THEN s
      ELSE Folded(fit, [text |-> <<>>, pos |-> 0], s).text

Fit(a, c) ==
  LET full == a.pos = set.width /\ c # "\n"
      b    == IF full THEN [text |-> Append(a.text, "\n"), pos |-> 0] ELSE a
  IN  [text |-> Append(b.text, c), pos |-> IF c = "\n" THEN 0 ELSE b.pos + 1]

FitToScreen(s) ==
  IF set.width = 0 \/ Len(s) < set.width THEN s
  ELSE Folded(Fit, [text |-> <<>>, pos |-> 0], s).text

(* applyControlCharacterBehavior.                                          *)
Controlled(v) ==
  CASE set.control = "ignore"      -> v
    [] set.control = "replace"     -> [i \in 1..Len(v) |-> IF v[i] = "\n" THEN " " ELSE v[i]]
    [] set.control \in {"remove", "consecutive"} ->
         Folded(LAMBDA a, i : IF v[i] # "\n" THEN Append(a, v[i])
                                ELSE IF set.control = "remove" \/ (i > 1 /\ v[i - 1] = "\n") THEN a
                                ELSE Append(a, " "),
                  <<>>, [i \in 1..Len(v) |-> i])

(* Padded before control characters are treated.                           *)
CellPadsFirst(c, v) ==
  LET width  == DisplayWidth(c)
      pad    == IF xml \/ set.format # "horizontal" \/ set.trim THEN <<>>
                ELSE Repeat(" ", width - Len(v))
      padded == IF c.type = "number" THEN pad \o v ELSE Controlled(v \o pad)
  IN  IF ~xml /\ width > 0 THEN SubSeq(padded, 1, Smaller(width, Len(padded))) ELSE padded

(* printColumnValue.                                                       *)
Cell(c, v) ==
  LET width  == DisplayWidth(c)
      shown  == IF IsBinary(c) THEN <<"0", "x">> \o v
                ELSE IF HasControls(c) THEN Controlled(v) ELSE v
      pad    == IF xml \/ set.format # "horizontal" \/ set.trim THEN <<>>
                ELSE Repeat(" ", width - Len(shown))
      padded == IF c.type = "number" THEN pad \o shown ELSE shown \o pad
  IN  IF ~xml /\ width > 0 THEN SubSeq(padded, 1, Smaller(width, Len(padded))) ELSE padded

(* printColumnHeadings: they are padded up to MaxPad, unlike cells.        *)
Headings ==
  LET length(c) == Smaller(DisplayWidth(c), MaxPad)
      name(c) == SubSeq(c.name, 1, Smaller(Len(c.name), DisplayWidth(c)))
                 \o Repeat(" ", IF ~set.trim THEN length(c) - Len(c.name)
                                ELSE IF c.name = <<>> THEN 1 ELSE 0)
      dash(c) == Repeat("-", IF set.trim THEN Larger(1, Len(c.name)) ELSE length(c))
      line(f(_)) == Flat([i \in 1..Len(cols) |->
                            f(cols[i]) \o (IF i < Len(cols) THEN <<"|">> ELSE <<>>)]) \o <<"\n">>
  IN  FitToScreen(line(name)) \o FitToScreen(line(dash))

-----------------------------------------------------------------------------
Lost(r)  == added[r] = <<>>
RowCount == Cardinality({r \in 1..Len(added) : ~Lost(r)})

(* sqlCmdFormatterType.AddRow, from a writer a.                            *)
HorizontalRow(a, row) ==
  LET cells == WriteOut(a, Flat([i \in 1..Len(cols) |->
                 (IF i > 1 THEN <<"|">> ELSE <<>>) \o Cell(cols[i], row[i])]))
      gap   == RowsBetweenHeaders
      again == IF gap > 0 /\ (RowCount + 1) % gap = 0
               THEN MustWriteOut(WriteOut(cells, <<"\n">>), Headings) ELSE cells
  IN  WriteOut(again, <<"\n">>)

VerticalRow(a, row) ==
  LET longest == Max({Len(cols[i].name) : i \in 1..Len(cols)})
      name(c) == IF RowsBetweenHeaders = -1 THEN <<>>
                 ELSE c.name \o Repeat(" ", longest - Len(c.name) + 1)
  IN  WriteOut(a, Flat([i \in 1..Len(cols) |-> name(cols[i]) \o Cell(cols[i], row[i]) \o <<"\n">>])
                  \o <<"\n">>)

DefaultRow(a, row) ==
  IF xml THEN WriteOut(a, Cell(cols[1], row[1]) \o <<"\n">>)
  ELSE IF set.format = "horizontal" THEN HorizontalRow(a, row)
  ELSE VerticalRow(a, row)

(* csvFormatter: a record, with NULL as nothing.                           *)
Record(row) ==
  Flat([i \in 1..Len(row) |-> (IF i > 1 THEN <<",">> ELSE <<>>)
                              \o (IF row[i] = <<"NULL">> THEN <<>> ELSE row[i])]) \o <<"\n">>

(* BeginResultSet and EndResultSet of the csvFormatter: its writer is      *)
(* flushed at the end only.                                                *)
HeaderRecord(columns) == Record([i \in 1..Len(columns) |-> columns[i].name])
CSVFlushed            == text \o pending

(* jsonlFormatter: an object with the last value under each name.          *)
Object(row) ==
  LET last(i) == \A j \in (i + 1)..Len(cols) : cols[j].name # cols[i].name
  IN  Flat([i \in 1..Len(row) |-> IF last(i) THEN <<",">> \o row[i] ELSE <<>>]) \o <<"\n">>

-----------------------------------------------------------------------------
(* asciiFormatter.printAsciiTable.                                         *)
MaxWidth == IF set.width > 0 THEN set.width ELSE Infinite

ColWidth(i) ==
  Smaller(Larger(MaxWidth - 4, 1),
          Max({Len(cols[i].name)} \cup {Len(pending[r][i]) : r \in 1..Len(pending)}))

TotalWidth(from, to) == 1 + Folded(LAMBDA a, i : a + ColWidth(i) + 3, 0,
                                     [k \in 1..(to - from + 1) |-> from + k - 1])

SegmentsPast ==
  LET end(from) == Max({from} \cup {to \in from..Len(cols) : TotalWidth(from, to) <= MaxWidth})
      f[from \in 1..(Len(cols) + 2)] ==
        IF from > Len(cols) THEN <<>> ELSE <<<<from, end(from)>>>> \o f[end(from) + 2]
  IN  f[1]

(* The columns that are printed side by side, one segment after another.   *)
Segments ==
  LET end(from) == Max({from} \cup {to \in from..Len(cols) : TotalWidth(from, to) <= MaxWidth})
      f[from \in 1..(Len(cols) + 1)] ==
        IF from > Len(cols) THEN <<>> ELSE <<<<from, end(from)>>>> \o f[end(from) + 1]
  IN  f[1]

(* padRightString and padLeftString.                                       *)
Fitted(v, width, right) ==
  IF Len(v) > width
    THEN IF width >= 3 THEN SubSeq(v, 1, width - 3) \o Repeat(".", 3) ELSE SubSeq(v, 1, width)
  ELSE IF right THEN Repeat(" ", width - Len(v)) \o v ELSE v \o Repeat(" ", width - Len(v))

TableSegment(from, to) ==
  LET span == [k \in 1..(to - from + 1) |-> from + k - 1]
      divider == <<"+">> \o Flat([k \in 1..Len(span) |-> Repeat("-", ColWidth(span[k]) + 2) \o <<"+">>])
                 \o <<"\n">>
      line(cell(_)) == <<"|">> \o Flat([k \in 1..Len(span) |->
                         <<" ">> \o cell(span[k]) \o <<" ", "|">>]) \o <<"\n">>
      names == line(LAMBDA i : Fitted(cols[i].name, ColWidth(i), FALSE))
      row(r) == line(LAMBDA i : Fitted(pending[r][i], ColWidth(i), cols[i].type = "number"))
  IN  divider \o names \o divider \o Flat([r \in 1..Len(pending) |-> row(r)]) \o divider

(* AddRow keeps a row as it is, for the widths of its columns; then the    *)
(* whole table is written.                                                 *)
KeptBack(row) == Append(pending, row)

AsciiTable == Flat([k \in 1..Len(Segments) |-> TableSegment(Segments[k][1], Segments[k][2])])

-----------------------------------------------------------------------------
Writer == [text |-> text, pos |-> writepos]
Output(a) == \E b \in {a} : text' = b.text /\ writepos' = b.pos

PrintTable == Output(WriteOut(Writer, AsciiTable))

Formatters(format) == {IF format = "ascii" THEN "ascii" ELSE "default", "csv", "jsonl"}

(* NewSQLCmdDefaultFormatter looks at the format once, or --format is set. *)
FInit ==
  /\ set \in Settings /\ kind \in Formatters(set.format)
  /\ xml = FALSE /\ stage = "idle" /\ cols = <<>> /\ added = <<>>
  /\ text = <<>> /\ writepos = 0 /\ errtext = <<>> /\ pending = <<>>

(* :setvar between batches; -W and -k stay.                                *)
SetVariables ==
  /\ stage = "idle"
  /\ set' \in {s \in Settings : s.trim = set.trim /\ s.control = set.control}
  /\ UNCHANGED <<kind, xml, stage, cols, added, text, writepos, errtext, pending>>

(* :XML; the structured formatters have no such mode.                      *)
XmlMode ==
  /\ stage = "idle" /\ kind \in {"default", "ascii"}
  /\ xml' \in BOOLEAN
  /\ UNCHANGED <<kind, set, stage, cols, added, text, writepos, errtext, pending>>

BeginBatch ==
  /\ stage = "idle"
  /\ stage' = "batch" /\ added' = <<>> /\ cols' = <<>> /\ text' = <<>> /\ errtext' = <<>>
  /\ UNCHANGED <<kind, set, xml, writepos, pending>>

EndBatch ==
  /\ stage = "batch"
  /\ stage' = "idle" /\ added' = <<>> /\ cols' = <<>> /\ text' = <<>> /\ errtext' = <<>>
  /\ UNCHANGED <<kind, set, xml, writepos, pending>>

(* The ascii formatter begins as the default one does.                     *)
BeginResultSet ==
  /\ stage = "batch"
  /\ UNCHANGED <<kind, set, xml, writepos>>
  /\ stage' = "rows" /\ cols' \in Tables /\ added' = <<>> /\ errtext' = <<>>
  /\ text' = IF kind \in {"default", "ascii"} /\ RowsBetweenHeaders > -1
                /\ set.format = "horizontal" /\ ~xml THEN Headings' ELSE <<>>
  /\ pending' = IF kind = "csv" THEN HeaderRecord(cols') ELSE <<>>

(* What the server sends: row r of the result set.                         *)
Digit == <<"1", "2", "3">>

Content(c, k, r) ==
  CASE k = "null"   -> <<"NULL">>
    [] k = "short"  -> <<Digit[r]>>
    [] k = "long"   -> Repeat(Digit[r], 6)
    [] k = "broken" -> IF c.type \in {"char", "max"} THEN <<Digit[r], "\n", "\n", Digit[r]>>
                       ELSE <<Digit[r]>>

AddRow ==
  /\ stage = "rows" /\ Len(added) < MaxRows
  /\ \E k \in Rows :
       LET row == [i \in 1..Len(cols) |-> Content(cols[i], k[i], Len(added) + 1)]
       IN  /\ added' = Append(added, row)
           /\ CASE kind = "default" -> Output(DefaultRow(Writer, row)) /\ UNCHANGED pending
                [] kind = "ascii"   -> pending' = KeptBack(row) /\ UNCHANGED <<text, writepos>>
                [] kind = "csv"     -> pending' = pending \o Record(row) /\ UNCHANGED <<text, writepos>>
                [] kind = "jsonl"   -> /\ text' = text \o Object(row)
                                       /\ UNCHANGED <<pending, writepos>>
  /\ UNCHANGED <<kind, set, xml, errtext, stage, cols>>

(* AddRow when the scan of the row fails, or JSON cannot have it: the error*)
(* is written as it is, by the default and ascii formatters without a line *)
(* end.  Bound: one such row in a result set.                              *)
LoseRow ==
  /\ stage = "rows" /\ Len(added) < MaxRows /\ \A r \in 1..Len(added) : ~Lost(r)
  /\ added' = Append(added, <<>>)
  /\ \E n \in Lengths :
       errtext' = errtext \o Repeat("s", n) \o (IF kind \in {"csv", "jsonl"} THEN <<"\n">> ELSE <<>>)
  /\ UNCHANGED <<kind, set, xml, stage, cols, text, writepos, pending>>

EndResultSet ==
  /\ stage = "rows"
  /\ stage' = "batch" /\ pending' = <<>>
  /\ CASE kind = "default" -> IF xml THEN UNCHANGED <<text, writepos>>
                              ELSE Output(WriteOut(Writer, <<"\n">>))
       [] kind = "ascii"   -> PrintTable
       [] kind = "csv"     -> text' = CSVFlushed /\ UNCHANGED writepos
       [] kind = "jsonl"   -> UNCHANGED <<text, writepos>>
  /\ UNCHANGED <<kind, set, xml, errtext, cols, added>>

(* Bound: one message or error for each result set.                        *)
Quiet == "m" \notin ToSet(text) /\ ToSet(errtext) \cap {"m", "e"} = {}

(* Messages are written as they are, however long; the structured          *)
(* formatters have them at the error writer.                               *)
AddMessage ==
  /\ stage = "batch" /\ Quiet
  /\ \E n \in Lengths :
       LET message == Repeat("m", n) \o <<"\n">>
       IN  /\ text'    = IF kind \in {"default", "ascii"} /\ ~xml THEN text \o message ELSE text
           /\ errtext' = IF kind \in {"csv", "jsonl"} THEN errtext \o message ELSE errtext
  /\ UNCHANGED <<kind, set, xml, stage, cols, added, writepos, pending>>

(* formatError, of every formatter; the level that is compared is a uint8. *)
AddError(class) ==
  /\ stage = "batch" /\ Quiet
  /\ errtext' = IF set.level <= 0 \/ class >= set.level % 256
                THEN errtext \o FitToScreen(Repeat("e", class) \o <<"\n">>) ELSE errtext
  /\ UNCHANGED <<kind, set, xml, stage, cols, added, text, writepos, pending>>

FNext ==
  \/ AddMessage \/ (\E class \in Classes : AddError(class))
  \/ SetVariables \/ XmlMode \/ BeginBatch \/ BeginResultSet \/ AddRow \/ LoseRow \/ EndResultSet
  \/ EndBatch

FSpec == FInit /\ [][FNext]_fvars
-----------------------------------------------------------------------------
(* What the output of the result set says: the numbers that its cells are  *)
(* made of, each once for a run of them; "+" ends a run.                   *)
Digits == {"1", "2", "3"}

Read ==
  Folded(LAMBDA a, c : IF c = "+" THEN [a EXCEPT !.last = ""]
                         ELSE IF c \in Digits /\ c # a.last
                           THEN [seen |-> Append(a.seen, c), last |-> c] ELSE a,
           [seen |-> <<>>, last |-> ""], text).seen

(* A cell shows nothing of a NULL, nor of what an ascii column of three    *)
(* characters cuts down to three dots.                                     *)
Unseen(v) == v = <<"NULL">> \/ (kind = "ascii" /\ set.width - 4 = 3 /\ Len(v) > 3)

(* The rows that columns from..to have something to show for.              *)
RowsIn(from, to) ==
  SelectSeq([r \in 1..Len(added) |-> Digit[r]],
            LAMBDA d : \E r \in 1..Len(added) :
              d = Digit[r] /\ ~Lost(r) /\ \E i \in from..to : ~Unseen(added[r][i]))

(* The last column of each segment that a table is cut into, in order.     *)
Cuts == {c \in UNION {[1..n -> 1..Len(cols)] : n \in 1..Len(cols)} :
           /\ c[Len(c)] = Len(cols) /\ \A k \in 2..Len(c) : c[k - 1] < c[k]}

TextLines ==
  LET ends == {i \in 1..Len(text) : text[i] = "\n"}
  IN  {SubSeq(text, i + 1, Min({j \in ends : j > i}) - 1) : i \in {0} \cup (ends \ {Max(ends)})}

Closed == stage = "batch" /\ cols # <<>>

Broken == \E r \in 1..Len(added) : \E i \in 1..Len(added[r]) : "\n" \in ToSet(added[r][i])

(* SQLCMDCOLWIDTH "tells the formatter how many characters wide to limit   *)
(* all screen output": no line of a result set or of a server's error is   *)
(* longer, whatever comes out of headings, which wrap for themselves, and  *)
(* of cells, which wrap behind one another, a line break in a cell         *)
(* included.  The code does not hold messages and errors of a scan to it,  *)
(* so that of those lines nothing is said.                                 *)
LinesFit ==
  LET fits(s) == \A i \in 0..(Len(s) - set.width - 1) :
                   \E j \in 1..(set.width + 1) : s[i + j] \in {"\n", "m", "s"}
  IN  set.width > 0 => fits(errtext) /\ (kind \in {"default", "ascii"} => fits(text))

(* Once a result set has ended nothing of it is kept back: every row has   *)
(* been written once, in order, by the ascii formatter once for each of    *)
(* the segments that its columns are divided among, but for one whose scan *)
(* failed, and of that there is an error.  (A VARBINARY may be cut down to *)
(* the 0x in front of it, and JSON has one value of each name.)            *)
RowsPrinted ==
  Closed =>
    /\ pending = <<>>
    /\ "s" \in ToSet(errtext) <=> \E r \in 1..Len(added) : Lost(r)
    /\ CASE kind = "ascii" ->
              \E c \in Cuts :
                Read = Flat([k \in 1..Len(c) |-> RowsIn(IF k = 1 THEN 1 ELSE c[k - 1] + 1, c[k])])
         [] kind = "default" /\ xml -> Read = RowsIn(1, 1)
         [] kind = "jsonl" /\ Cardinality({cols[i].name : i \in 1..Len(cols)}) < Len(cols) -> TRUE
         [] OTHER -> (\A i \in 1..Len(cols) : cols[i].type # "binary") => Read = RowsIn(1, Len(cols))

(* In a table that no screen width cuts, headings, dividers and rows have  *)
(* one length, so that columns line up: whatever -k takes out of values,   *)
(* and a prefix adds to them, comes before the padding.  It is not so in a *)
(* column wider than MaxPad, where the cells go on and the headings do not.*)
ColumnsAligned ==
  Closed /\ text # <<>> /\ ~xml /\ set.width = 0 =>
    \/ kind \in {"csv", "jsonl"} \/ set.trim \/ set.variable = 0
    \/ Broken /\ (kind = "ascii" \/ set.control = "ignore")
    \/ (kind = "default") # (set.format = "horizontal")
    \/ kind = "default" /\ \E i \in 1..Len(cols) : DisplayWidth(cols[i]) > MaxPad
    \/ Cardinality({Len(l) : l \in {t \in TextLines : t # <<>> /\ "m" \notin ToSet(t)}}) \leq 1
=============================================================================
