------------------------------ MODULE BatchScan ------------------------------
(***************************************************************************)
(* pkg/sqlcmd/batch.go: Batch.Next, which reads lines into a batch and     *)
(* keeps track of quotes, comments and scripting variables, and            *)
(* getRunnableQuery, which puts the variables' values in.  SqlcmdRun has   *)
(* what the engine sees of this.                                           *)
(*                                                                         *)
(* A text is a sequence of tokens; "--" and "$(" are one each, and lengths *)
(* count tokens.  "x" is a variable's name, "GO" a word that is a command  *)
(* at the start of a line; "," is any other character, "n" a line's end.   *)
(***************************************************************************)
EXTENDS Integers, Sequences, FiniteSetsExt

CONSTANTS
  Lines,         \* lines the reader returns
  Scripts,       \* texts given with -q or -Q, or to EXIT: of several lines
  Value,         \* value of the variables that have one
  Defined,       \* names of those variables
  MaxText        \* bound: length of a batch

ASSUME TokensAssumption ==
  Lines \cup Scripts \subseteq Seq(STRING) /\ Value \in Seq(STRING)

VARIABLES
  parse,         \* ParseVariables: no -x
  raw,           \* text not yet processed
  buffer,        \* Buffer, <<>> when it is nil
  nil,           \* Buffer is nil
  lineOne,       \* batchline = 1; it is used as that or more
  quote,         \* open quote or ""
  comment,       \* in a comment
  varmap,        \* where references are, with their names
  swallowed,     \* history: a "--" has hidden later lines of a text
  displaced      \* history: a reference was noted where it is not

bvars == <<parse, raw, buffer, nil, lineOne, quote, comment, varmap, swallowed, displaced>>

Marks == {"'", "\"", "["}

Ends(c) == IF c = "[" THEN "]" ELSE c

NameTokens == {"x", "GO", "--"}

Nth(t, i) == IF i \in 1..Len(t) THEN t[i] ELSE "end"

-----------------------------------------------------------------------------
(* readVariableReference: where the reference at i ends, 0 if nowhere.     *)
RefEnd(t, i) ==
  LET k == Min({j \in (i + 1)..Len(t) : t[j] \notin NameTokens} \cup {Len(t) + 1})
  IN  IF Nth(t, k) = ")" THEN k ELSE 0

IsRef(t, i) == parse /\ t[i] = "$("

(* Where a scan is in a chunk, and what it has found.                      *)
ScanStart(q, c) == [at |-> 1, quote |-> q, comment |-> c, scanned |-> FALSE, refs |-> {}, end |-> "text"]

(* Past a reference, which is noted, or at an error.                       *)
WithRef(t, s) ==
  IF RefEnd(t, s.at) = 0 THEN [s EXCEPT !.end = "fails"]
  ELSE [s EXCEPT !.at = RefEnd(t, s.at) + 1, !.refs = @ \cup {s.at}]

To(s, i) == [s EXCEPT !.at = i]

(* A turn of readString: a string ends at its mark, but for a doubled ' or *)
(* ].  Where it does not end it goes on with the next chunk.               *)
ReadString(t, s) ==
  LET i == s.at
  IN  IF IsRef(t, i) THEN WithRef(t, s)
      ELSE IF t[i] # Ends(s.quote) THEN To(s, i + 1)
      ELSE IF s.quote \in {"'", "["} /\ Nth(t, i + 1) = Ends(s.quote) THEN To(s, i + 2)
      ELSE [To(s, i + 1) EXCEPT !.quote = ""]

CommentEndOverlaps(t, i) == Min({j \in i..Len(t) : Nth(t, j - 1) = "*" /\ t[j] = "/"} \cup {Len(t) + 1})

(* readMultilineComment: where the comment ends that goes on at i.         *)
CommentEnd(t, i) == Min({j \in (i + 1)..Len(t) : t[j - 1] = "*" /\ t[j] = "/"} \cup {Len(t) + 1})

ReadComment(t, s) ==
  LET e == CommentEnd(t, s.at) IN [To(s, e + 1) EXCEPT !.comment = e > Len(t)]

(* A turn of the loop of Next over the chunk t.  A command is looked for   *)
(* only at the first token that is not part of something else, and found   *)
(* only at the start: its pattern begins there.                            *)
Turn(t, s) ==
  LET i == s.at
  IN  IF s.end # "text" \/ i > Len(t) THEN s
      ELSE IF s.quote # "" THEN [ReadString(t, s) EXCEPT !.scanned = TRUE]
      ELSE IF s.comment THEN [ReadComment(t, s) EXCEPT !.scanned = TRUE]
      ELSE IF t[i] \in Marks THEN [To(s, i + 1) EXCEPT !.quote = t[i]]
      ELSE IF t[i] = "--" THEN To(s, Len(t) + 1)
      ELSE IF t[i] = "/" /\ Nth(t, i + 1) = "*" THEN [To(s, i + 2) EXCEPT !.comment = TRUE]
      ELSE IF IsRef(t, i) THEN WithRef(t, s)
      ELSE IF i = 1 /\ ~s.scanned /\ t[i] = "GO" THEN [s EXCEPT !.end = "command"]
      ELSE [To(s, i + 1) EXCEPT !.scanned = TRUE]

(* As many turns as there are tokens are enough.                           *)
Scan(t, q, c) ==
  LET f[k \in 0..Len(t)] ==
        IF k = 0 THEN ScanStart(q, c)
        ELSE CHOOSE y \in {Turn(t, before) : before \in {f[k - 1]}} : TRUE
  IN  f[Len(t)]

(* What append puts before a line, and what Next counts for it (inc): they *)
(* go by different things, which agree unless :connect or :r comes between.*)
Separator == IF nil THEN <<>> ELSE <<"n">>

Inc == IF lineOne THEN 0 ELSE 1

ForgetsSeparator(t, refs) ==
  {[at |-> i + Len(buffer), name |-> SubSeq(t, i + 1, RefEnd(t, i) - 1)] : i \in refs}

(* The references of the line t, as places in the batch.                   *)
Placed(t, refs) ==
  {[at |-> i + Len(buffer) + Inc, name |-> SubSeq(t, i + 1, RefEnd(t, i) - 1)] : i \in refs}

BInit ==
  /\ parse \in BOOLEAN
  /\ raw = <<>> /\ buffer = <<>> /\ nil = TRUE /\ lineOne = TRUE /\ quote = "" /\ comment = FALSE
  /\ varmap = {} /\ swallowed = FALSE /\ displaced = FALSE

Reset ==
  /\ buffer' = <<>> /\ nil' = TRUE /\ lineOne' = TRUE /\ quote' = "" /\ comment' = FALSE
  /\ varmap' = {} /\ swallowed' = FALSE /\ displaced' = FALSE

(* Next on the chunk t.                                                    *)
Process(t) ==
  LET r == Scan(t, quote, comment)
  IN  \/ /\ r.end = "text"
         /\ Len(buffer) + Len(t) < MaxText
         /\ buffer' = buffer \o Separator \o t
         /\ varmap' = varmap \cup Placed(t, r.refs)
         /\ displaced' = (displaced \/ (r.refs # {} /\ Inc # Len(Separator)))
         /\ nil' = FALSE /\ lineOne' = FALSE
         /\ quote' = r.quote /\ comment' = r.comment
         /\ swallowed' = (swallowed \/ \E i, j \in 1..Len(t) : i < j /\ t[i] = "--" /\ t[j] = "n")
         /\ raw' = <<>>
      \/ /\ r.end = "fails"
         /\ Reset /\ raw' = <<>>
      \/ /\ r.end = "command"
         /\ raw' = SubSeq(t, Min({i \in 1..Len(t) : t[i] = "n"} \cup {Len(t) + 1}), Len(t))
         /\ quote' = r.quote /\ comment' = r.comment
         /\ UNCHANGED <<buffer, nil, lineOne, varmap, swallowed, displaced>>

(* A chunk is read only when none is left.                                 *)
NextLine ==
  /\ IF raw = <<>> THEN \E t \in Lines : Process(t) ELSE Process(raw)
  /\ UNCHANGED parse

(* Run with a Query: Reset to it, then Next.                               *)
StartScript ==
  /\ \E t \in Scripts :
       /\ t # <<>> /\ nil /\ lineOne
       /\ Reset /\ raw' = t
  /\ UNCHANGED parse

(* The values put in from the place last on, references in order.          *)
Runnable(text, vm) ==
  LET f[last \in 1..(Len(text) + 1)] ==
        LET later == {v \in vm : v.at >= last}
            v     == CHOOSE v \in later : \A w \in later : v.at <= w.at
            next  == v.at + Len(v.name) + 2
            value == IF v.name \in Defined THEN Value ELSE <<"$(">> \o v.name \o <<")">>
        IN  IF later = {} THEN SubSeq(text, last, Len(text))
                          ELSE SubSeq(text, last, v.at - 1) \o value \o f[next]
  IN  f[1]

(* goCommand; after a query that fails the batch stays.                    *)
Go ==
  /\ buffer # <<>>
  /\ Reset /\ raw' = <<>>
  /\ UNCHANGED parse

ResetCommand == Reset /\ raw' = <<>> /\ UNCHANGED parse

(* :connect that succeeds (ConnectDb); the batch stays.                    *)
Connect ==
  /\ quote = "" /\ ~comment
  /\ lineOne' = TRUE
  /\ UNCHANGED <<parse, raw, buffer, nil, quote, comment, varmap, swallowed, displaced>>

(* IncludeFile returns, lines not echoed: batchline is 1, or one more than *)
(* it was at :r.  Its beginning changes nothing here, so the lines before  *)
(* this, any number of them, may be the file's or not.                     *)
FileEnds ==
  /\ lineOne' = (quote = "" /\ ~comment /\ buffer = <<>>)
  /\ UNCHANGED <<parse, raw, buffer, nil, quote, comment, varmap, swallowed, displaced>>

BNext == NextLine \/ StartScript \/ Go \/ ResetCommand \/ Connect \/ FileEnds

BSpec == BInit /\ [][BNext]_bvars
-----------------------------------------------------------------------------
(* The reference: one pass over a text, whatever lines it came in.         *)

Paired(t, i, m) == m = "[" /\ Nth(t, i + 1) = "]"

(* Where quotes, comments and line comments are, behind each token.  A     *)
(* doubled ' or " ends the string and starts it again; "]]" is one token.  *)
NextMode(t, i, m, named) ==
  LET c == t[i]
  IN  CASE m = "code" /\ c \in Marks                       -> c
        [] m = "code" /\ c = "--"                          -> "line"
        [] m = "code" /\ c = "/" /\ Nth(t, i + 1) = "*"    -> "open"
        [] m = "open"                                      -> "fresh"
        [] m = "fresh"                                     -> "comment"
        [] m = "comment" /\ c = "/" /\ Nth(t, i - 1) = "*" -> "code"
        [] m = "line" /\ c = "n"                           -> "code"
        [] m \in Marks /\ c = Ends(m) /\ ~Paired(t, i, m)  -> "code"
        [] m \in Marks /\ c = Ends(m) /\ Paired(t, i, m)   -> "pair"
        [] m = "pair"                                      -> "["
        [] m = "code" /\ named /\ c = "$("                 -> "ref"
        [] m = "ref" /\ c = ")"                            -> "code"
        [] OTHER                                           -> m

Modes(t, named) ==
  LET f[i \in 0..Len(t)] == IF i = 0 THEN "code" ELSE NextMode(t, i, f[i - 1], named)
  IN  f

(* The references in a text: outside comments.                             *)
References(t) ==
  {i \in 1..Len(t) : t[i] = "$(" /\ Modes(t, parse)[i - 1] \in Marks \cup {"code"}}

(* The text with values for them.                                          *)
Substituted(t) ==
  LET f[i \in 1..(Len(t) + 1)] ==
        IF i > Len(t) THEN <<>>
        ELSE IF i \in References(t) /\ SubSeq(t, i + 1, RefEnd(t, i) - 1) \in Defined
          THEN Value \o f[RefEnd(t, i) + 1]
        ELSE <<t[i]>> \o f[i + 1]
  IN  IF parse THEN f[1] ELSE t

(* After any lines, the state carried from line to line (the prompt, and   *)
(* whether a line can be a command) is that of the text as a whole.        *)
StateFollowsText ==
  LET m == Modes(buffer, parse)[Len(buffer)]
  IN  ~swallowed => /\ quote = (IF m \in Marks THEN m ELSE "")
                    /\ comment <=> m \in {"fresh", "comment"}

(* The query GO makes of the batch, from places collected line by line, is *)
(* the text as a whole with its references replaced.  The code breaks this *)
(* where a :connect comes in the middle of a batch, or a :r behind an empty*)
(* line that begins one, and the next line has a reference: its place is   *)
(* counted without the separator that is there.  No other batch is exempt. *)
ValuesInPlace ==
  ~swallowed /\ ~displaced =>
    (IF parse THEN Runnable(buffer, varmap) ELSE buffer) = Substituted(buffer)

===============================================================================
