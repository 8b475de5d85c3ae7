---------------------------- MODULE ReadOnlyScan ----------------------------
(***************************************************************************)
(* pkg/sqlcmd/readonly.go: CheckReadOnly, which looks for statements that  *)
(* read-only mode rejects.  One step is one turn of its loop: a statement. *)
(*                                                                         *)
(* A text is a sequence of tokens.  A word is one token, and so is the "--"*)
(* of a comment; "/" and "*" are not joined, since "/*/" and "*/*" overlap.*)
(* Words stand for the classes of keywords.  "," is any other character,   *)
(* "n" the end of a line and any white space.                              *)
(***************************************************************************)
EXTENDS Integers, Sequences, FiniteSetsExt

CONSTANTS
  Queries        \* texts checked

VARIABLES
  query,         \* the text
  allowExec,     \* parameter: EXEC is let through
  pos,           \* scanner.pos
  verdict        \* "none" while scanning, "accepted", "rejected"

rovars == <<query, allowExec, pos, verdict>>

(* SET: every allowed keyword but SELECT.  DROP: every rejected one that is*)
(* no verb of a WITH; INSERT: one that is.  x: any other identifier, #x one*)
(* that starts with "#".                                                   *)
Words == {"SET", "SELECT", "INSERT", "DROP", "EXEC", "BEGIN", "TRAN", "CREATE",
          "TABLE", "WITH", "INTO", "FROM", "x", "#x"}

Quotes == {"'", "\"", "["}

Closing(c) == IF c = "[" THEN "]" ELSE c

At(t, i) == IF i \in 1..Len(t) THEN t[i] ELSE "end"

-----------------------------------------------------------------------------
(* Where the scanner is after what starts at i.                            *)

AfterLineComment(t, i) == 1 + Min({j \in i..Len(t) : t[j] = "n"} \cup {Len(t)})

OpensComment(t, i)  == At(t, i) = "/" /\ At(t, i + 1) = "*"
ClosesComment(t, i) == At(t, i) = "*" /\ At(t, i + 1) = "/"

AfterFlatComment(t, i) ==
  2 + Min({j \in (i + 2)..Len(t) : ClosesComment(t, j)} \cup {Len(t) - 1})

AfterBlockComment(t, i) ==
  LET f[j \in 1..(Len(t) + 1), depth \in 0..Len(t)] ==
        IF j > Len(t) \/ depth = 0 THEN j
        ELSE IF OpensComment(t, j) THEN f[j + 2, depth + 1]
        ELSE IF ClosesComment(t, j) THEN f[j + 2, depth - 1]
        ELSE f[j + 1, depth]
  IN  f[i + 2, 1]

(* A doubled closing quote does not close.                                 *)
AfterQuoted(t, i) ==
  LET q == Closing(t[i])
      f[j \in 1..(Len(t) + 1)] ==
        IF j > Len(t) THEN j
        ELSE IF t[j] # q THEN f[j + 1]
        ELSE IF At(t, j + 1) = q THEN f[j + 2]
        ELSE j + 1
  IN  f[i + 1]

(* A comment, a quoted string or identifier, or one token.                 *)
After(t, i) ==
  IF t[i] \in Quotes THEN AfterQuoted(t, i)
  ELSE IF t[i] = "--" THEN AfterLineComment(t, i)
  ELSE IF OpensComment(t, i) THEN AfterBlockComment(t, i)
  ELSE i + 1

SkipWhitespace(t, i) == Min({j \in i..Len(t) : t[j] # "n"} \cup {Len(t) + 1})

(* White space and comments.                                               *)
SkipWS(t, i) ==
  LET f[j \in 1..(Len(t) + 1)] ==
        IF At(t, j) \in {"n", "--"} \/ OpensComment(t, j) THEN f[After(t, j)] ELSE j
  IN  f[i]

AfterParens(t, i) ==
  LET f[j \in 1..(Len(t) + 1), depth \in 0..Len(t)] ==
        IF j > Len(t) THEN j
        ELSE IF t[j] = "(" THEN f[j + 1, depth + 1]
        ELSE IF t[j] # ")" THEN f[After(t, j), depth]
        ELSE IF depth = 1 THEN j + 1
        ELSE f[j + 1, depth - 1]
  IN  f[i, 0]

AfterStatement(t, i) ==
  LET f[j \in 1..(Len(t) + 1)] ==
        IF j > Len(t) THEN j
        ELSE IF t[j] = ";" THEN j + 1
        ELSE f[After(t, j)]
  IN  f[i]

(* The next word of the statement, or where the statement ends.            *)
NextKeyword(t, i) ==
  LET f[j \in 1..(Len(t) + 1)] ==
        LET k == SkipWS(t, j)
        IN  IF k > Len(t) \/ t[k] = ";" \/ t[k] \in Words THEN k
            ELSE IF t[k] = "(" THEN f[AfterParens(t, k)]
            ELSE f[After(t, k)]
  IN  f[i]

(* The word a statement begins with, or the end.                           *)
NextStatement(t, i) ==
  LET f[j \in 1..(Len(t) + 1)] ==
        LET k == SkipWS(t, j)
        IN  IF k > Len(t) \/ t[k] \in Words THEN k ELSE f[k + 1]
  IN  f[i]

(* The next word of the statement that is one of ws, or where it ends.     *)
NextOf(t, i, ws) ==
  LET f[j \in 1..(Len(t) + 1)] ==
        LET k == NextKeyword(t, j)
        IN  IF At(t, k) \in Words \ ws THEN f[k + 1] ELSE k
  IN  f[i]

-----------------------------------------------------------------------------
Temporary(t, i) == At(t, SkipWhitespace(t, i)) = "#x"

(* classifyKeyword of the word at i: whether it is rejected, and where the *)
(* scanner is left.  The checks of SELECT and BEGIN go back.               *)
Rejects(t, i, exec) ==
  LET next == NextKeyword(t, i + 1)
      into == NextOf(t, i + 1, {"INTO", "FROM"})
      verb == NextOf(t, i + 1, {"SELECT", "INSERT"})
  IN  CASE t[i] = "SET"    -> FALSE
        [] t[i] = "SELECT" -> At(t, into) = "INTO" /\ ~Temporary(t, into + 1)
        [] t[i] = "BEGIN"  -> At(t, next) = "TRAN"
        [] t[i] = "CREATE" -> ~(At(t, next) = "TABLE" /\ Temporary(t, next + 1))
        [] t[i] = "WITH"   -> At(t, verb) = "INSERT"
        [] t[i] = "EXEC"   -> ~exec
        [] OTHER           -> TRUE

ScannedTo(t, i) ==
  LET next == NextKeyword(t, i + 1)
      verb == NextOf(t, i + 1, {"SELECT", "INSERT"})
  IN  CASE t[i] = "CREATE" -> SkipWhitespace(t, next + 1)
        [] t[i] = "WITH"   -> verb + IF At(t, verb) \in Words THEN 1 ELSE 0
        [] OTHER           -> i + 1

ROInit ==
  /\ query \in Queries /\ allowExec \in BOOLEAN
  /\ pos = 1 /\ verdict = "none"

(* One turn of the loop of CheckReadOnly.                                  *)
CheckStatement ==
  /\ verdict = "none"
  /\ LET k == NextStatement(query, pos)
     IN  IF k > Len(query)
           THEN verdict' = "accepted" /\ pos' = k
         ELSE IF Rejects(query, k, allowExec)
           THEN verdict' = "rejected" /\ pos' = k
         ELSE verdict' = "none" /\ pos' = AfterStatement(query, ScannedTo(query, k))
  /\ UNCHANGED <<query, allowExec>>

-----------------------------------------------------------------------------
(* The reference: a lexer that goes through the text once, and statements  *)
(* as the server takes them, of which few have to be ended by a ";".       *)

LexState == [mode : {"code", "line", "block"} \cup {"'", "\"", "]"},
             depth : Nat, half : {"", "/", "*", "]"}, parens : Nat]

Lexed(s, c) ==
  LET code == [s EXCEPT !.mode = "code", !.half = ""]
  IN  CASE s.mode = "code" /\ c = "*" /\ s.half = "/" ->
             [s EXCEPT !.mode = "block", !.depth = 1, !.half = ""]
        [] s.mode = "code" /\ c = "]" /\ s.half = "]" -> [code EXCEPT !.mode = "]"]
        [] s.mode = "code" /\ c = "/"  -> [s EXCEPT !.half = "/"]
        [] s.mode = "code" /\ c = "--" -> [code EXCEPT !.mode = "line"]
        [] s.mode = "code" /\ c \in Quotes -> [code EXCEPT !.mode = Closing(c)]
        [] s.mode = "code" /\ c = "("  -> [code EXCEPT !.parens = @ + 1]
        [] s.mode = "code" /\ c = ")" /\ s.parens > 0 -> [code EXCEPT !.parens = @ - 1]
        [] s.mode = "line" -> IF c = "n" THEN code ELSE s
        [] s.mode = "block" /\ s.half = "/" /\ c = "*" ->
             [s EXCEPT !.depth = @ + 1, !.half = ""]
        [] s.mode = "block" /\ s.half = "*" /\ c = "/" ->
             IF s.depth = 1 THEN code ELSE [s EXCEPT !.depth = @ - 1, !.half = ""]
        [] s.mode = "block" -> [s EXCEPT !.half = IF c \in {"/", "*"} THEN c ELSE ""]
        [] s.mode \notin {"code", "line", "block"} ->
             IF c # s.mode THEN s ELSE [code EXCEPT !.half = IF c = "]" THEN c ELSE ""]
        [] OTHER -> code

(* The state before each token.                                            *)
Lex(t) ==
  LET f[i \in 1..(Len(t) + 1)] ==
        IF i = 1 THEN [mode |-> "code", depth |-> 0, half |-> "", parens |-> 0]
                 ELSE Lexed(f[i - 1], t[i - 1])
  IN  f

InCode(t, i) == Lex(t)[i].mode = "code"

Boundaries(t) == {i \in 1..Len(t) : t[i] = ";" /\ InCode(t, i)}

CodeWords(t) == {i \in 1..Len(t) : t[i] \in Words /\ InCode(t, i)}

Outside(t) == {i \in CodeWords(t) : Lex(t)[i].parens = 0}

(* No ";" between.                                                         *)
Together(t, i, j) == \A b \in Boundaries(t) : b < i <=> b < j

Heads(t) == {i \in CodeWords(t) : \A j \in CodeWords(t) : j < i => ~Together(t, i, j)}

(* Words that statements begin with, and those with which one goes on.     *)
Verbs == {"SET", "SELECT", "INSERT", "DROP", "EXEC", "BEGIN", "CREATE", "WITH"}

GoesOn(t, i) ==
  LET js == {j \in Outside(t) : j < i /\ t[j] \in Verbs /\ Together(t, j, i)}
  IN  js # {} /\ <<t[Max(js)], t[i]>> \in
        {<<"WITH", "SELECT">>, <<"WITH", "INSERT">>, <<"INSERT", "SELECT">>, <<"INSERT", "EXEC">>}

Begins(t) == Heads(t) \cup {i \in Outside(t) : t[i] \in Verbs /\ ~GoesOn(t, i)}

(* The first word outside parentheses of the statement after i that is one *)
(* of ws.                                                                  *)
Following(t, i, ws) ==
  LET js == {j \in Outside(t) : /\ j > i /\ Together(t, i, j) /\ t[j] \in ws
                               /\ Begins(t) \cap ((i + 1)..j) = {}}
  IN  IF js = {} THEN 0 ELSE Min(js)

OfTemporary(t, i) == \E j \in i..Len(t) : t[j] = "#x" /\ \A k \in i..(j - 1) : t[k] = "n"

Writes(t, i, exec) ==
  LET next == Following(t, i, Words)
      into == Following(t, i, {"INTO", "FROM"})
      verb == Following(t, i, {"SELECT", "INSERT"})
  IN  \/ t[i] \in Words \ {"SET", "SELECT", "BEGIN", "CREATE", "WITH", "EXEC"}
      \/ t[i] = "EXEC" /\ ~exec
      \/ t[i] = "SELECT" /\ At(t, into) = "INTO" /\ ~OfTemporary(t, into + 1)
      \/ t[i] = "BEGIN" /\ At(t, next) = "TRAN"
      \/ t[i] = "CREATE" /\ ~(At(t, next) = "TABLE" /\ OfTemporary(t, next + 1))
      \/ t[i] = "WITH" /\ At(t, verb) = "INSERT"

(* Texts looked at: two words have something between them, statements      *)
(* begin with a word outside parentheses, no ";" is inside them, and only a*)
(* SELECT or INSERT has an INTO.                                           *)
Statements(t) ==
  /\ \A i \in 2..Len(t) : ~(t[i - 1] \in Words /\ t[i] \in Words)
  /\ \A i \in 1..Len(t) : t[i] \in Quotes /\ InCode(t, i) =>
       \E h \in Heads(t) : h < i /\ Together(t, h, i)
  /\ \A i \in Boundaries(t) \cup Heads(t) : Lex(t)[i].parens = 0
  /\ \A i \in {k \in 1..Len(t) : t[k] = "INTO"} :
       i \in Outside(t) \ Begins(t) =>
       \E j \in Outside(t) : /\ t[j] \in {"SELECT", "INSERT"} /\ j < i
                            /\ Begins(t) \cap ((j + 1)..i) = {}

(* Statements that follow another without a ";".  CheckReadOnly does not   *)
(* look at them ("Skip past the rest of this statement to the next ';'     *)
(* boundary"), though it is to return an error "if any are found".         *)
Unseparated(t) == Begins(t) \ Heads(t)

(* The scanner, which jumps over comments, quotes and parentheses with a   *)
(* function for each and goes back after some checks, rejects no text but  *)
(* one with a statement of a rejected kind in it, and accepts none with    *)
(* such a statement but where no ";" stands before it: neither a keyword in*)
(* a string, a comment or parentheses nor one that ends there misleads it. *)
VerdictRight ==
  LET writes == {s \in Begins(query) : Writes(query, s, allowExec)}
  IN  /\ verdict = "rejected" => writes # {}
      /\ verdict = "accepted" => writes \subseteq Unseparated(query)
=============================================================================
