-------------------------- MODULE BatchScan_proofs --------------------------
(***************************************************************************)
(* Quotes and comments carried from line to line are those of the text as  *)
(* a whole, and the query made of a batch is that text with the references *)
(* to variables replaced, for all lines, scripts and values.               *)
(***************************************************************************)
EXTENDS BatchScan, Induction, SequenceTheorems

Tokens == STRING \cup {"n"}

Between == {"code", "line", "fresh", "comment"} \cup Marks
States  == Between \cup {"open", "pair", "ref"}

-----------------------------------------------------------------------------
(* The reference, one token after another.                                 *)
LEMMA NextModeIn ==
  ASSUME NEW t, NEW i, NEW m \in States, NEW named
  PROVE  NextMode(t, i, m, named) \in States
BY DEF NextMode, Paired, States, Between, Marks

LEMMA ModesAre ==
  ASSUME NEW t \in Seq(Tokens), NEW named
  PROVE  /\ Modes(t, named) \in [0..Len(t) -> States]
         /\ Modes(t, named)[0] = "code"
         /\ \A i \in 1..Len(t) : Modes(t, named)[i] = NextMode(t, i, Modes(t, named)[i - 1], named)
<1> DEFINE n == Len(t)
           g == [i \in 1..n |-> [m \in States |-> NextMode(t, i, m, named)]]
           body(f) == [i \in 0..n |-> IF i = 0 THEN "code" ELSE NextMode(t, i, f[i - 1], named)]
           M == CHOOSE f : f = body(f)
<1>1. n \in Nat
  OBVIOUS
<1>2. "code" \in States /\ g \in [1..n -> [States -> States]]
  BY NextModeIn DEF States, Between
<1>3. \A i \in 1..n : \A m \in States : g[i][m] = NextMode(t, i, m, named)
  OBVIOUS
<1> HIDE DEF g, n
<1>4. PICK f : Recurses(f, n, States, "code", g)
  BY <1>1, <1>2, Recursion, Zenon
<1>5. f \in [0..n -> States] /\ f[0] = "code" /\ \A i \in 1..n : f[i] = NextMode(t, i, f[i - 1], named)
  <2>1. f \in [0..n -> States] /\ f[0] = "code"
        /\ \A i \in 1..n : f[i - 1] \in States /\ f[i] = g[i][f[i - 1]]
    BY <1>1, <1>4, RecursesIs
  <2> QED
    BY <1>3, <2>1
<1>6. f = body(f)
  BY <1>1, <1>5
<1>7. M = body(M)
  BY <1>6, Zenon
<1>8. M \in [0..n -> States] /\ M[0] = "code" /\ \A i \in 1..n : M[i] = NextMode(t, i, M[i - 1], named)
  <2> HIDE DEF M
  <2>1. M[0] = "code"
    BY <1>1, <1>7
  <2>2. \A i \in 1..n : M[i] = NextMode(t, i, M[i - 1], named)
    BY <1>1, <1>7
  <2>3. \A i \in 1..n : M[i - 1] \in States => M[i] \in States
    BY <2>2, NextModeIn
  <2>4. \A i \in 0..n : M[i] \in States
    BY <1>1, <1>2, <2>1, <2>3, Stays
  <2>5. M \in [0..n -> States]
    BY <1>7, <2>4
  <2> QED
    BY <2>1, <2>2, <2>5
<1>9. Modes(t, named) = M
  BY DEF Modes, n
<1> QED
  BY <1>8, <1>9 DEF n

(* What follows a text leaves its modes, unless the end of a comment or a  *)
(* doubled bracket is divided.                                             *)
LEMMA SamePrefix ==
  ASSUME NEW t \in Seq(Tokens), NEW u \in Seq(Tokens), NEW named, Len(t) <= Len(u),
         \A i \in 1..Len(t) : u[i] = t[i], Nth(u, Len(t) + 1) \notin {"*", "]"}
  PROVE  /\ \A i \in 0..Len(t) : Modes(u, named)[i] = Modes(t, named)[i]
         /\ Modes(u, named)[Len(t)] = Modes(t, named)[Len(t)]
<1> DEFINE n == Len(t)
           T == Modes(t, named)
           U == Modes(u, named)
           S == {i \in 0..n : U[i] = T[i]}
<1>1. n \in Nat /\ Len(u) \in Nat /\ n <= Len(u)
  OBVIOUS
<1>2. T[0] = "code" /\ \A i \in 1..n : T[i] = NextMode(t, i, T[i - 1], named)
  BY ModesAre
<1>3. U[0] = "code" /\ \A i \in 1..n : U[i] = NextMode(u, i, U[i - 1], named)
  BY <1>1, ModesAre
<1> HIDE DEF T, U
<1>4. 0 \in S
  BY <1>1, <1>2, <1>3
<1>5. ASSUME NEW i \in 0..(n - 1), i \in S
      PROVE  i + 1 \in S
  <2>1. i + 1 \in 1..n /\ (i + 1) - 1 = i /\ U[i] = T[i] /\ u[i + 1] = t[i + 1]
    BY <1>1, <1>5
  <2>2. Nth(u, i) = Nth(t, i)
    BY <1>1, <1>5 DEF Nth
  <2>3. \/ Nth(u, i + 2) = Nth(t, i + 2)
        \/ Nth(u, i + 2) \notin {"*", "]"} /\ Nth(t, i + 2) = "end"
    <3>1. CASE i + 2 <= n
      BY <1>1, <1>5, <3>1 DEF Nth
    <3>2. CASE i + 2 > n
      <4>1. i + 2 = n + 1
        BY <1>1, <1>5, <3>2
      <4> QED
        BY <4>1 DEF Nth, n
    <3> QED
      BY <1>1, <1>5, <3>1, <3>2
  <2>4. NextMode(u, i + 1, T[i], named) = NextMode(t, i + 1, T[i], named)
    <3>1. (i + 1) + 1 = i + 2 /\ (i + 1) - 1 = i
      BY <1>5
    <3>2. Nth(u, (i + 1) - 1) = Nth(t, (i + 1) - 1) /\ u[i + 1] = t[i + 1]
      BY <2>1, <2>2, <3>1
    <3>3. \/ Nth(u, (i + 1) + 1) = Nth(t, (i + 1) + 1)
          \/ Nth(u, (i + 1) + 1) \notin {"*", "]"} /\ Nth(t, (i + 1) + 1) = "end"
      BY <2>3, <3>1
    <3> QED
      BY <3>2, <3>3, Zenon DEF NextMode, Paired
  <2>5. U[i + 1] = T[i + 1]
    BY <1>2, <1>3, <2>1, <2>4
  <2> QED
    BY <2>1, <2>5
<1> HIDE DEF S
<1>6. 0..n \subseteq S
  BY <1>1, <1>4, <1>5, UpTo, Zenon
<1>7. n \in S /\ \A i \in 0..n : i \in S
  BY <1>1, <1>6
<1> QED
  BY <1>7 DEF S, T, U, n

SameMode(u, t, named) == Modes(u, named)[Len(t)] = Modes(t, named)[Len(t)]

LEMMA ModeThere ==
  ASSUME NEW t \in Seq(Tokens), NEW u \in Seq(Tokens), NEW named, Len(t) <= Len(u),
         \A i \in 1..Len(t) : u[i] = t[i], Nth(u, Len(t) + 1) \notin {"*", "]"}
  PROVE  SameMode(u, t, named)
BY SamePrefix, Zenon DEF SameMode

(* A mode that no token of a range ends.                                   *)
LEMMA ModeStays ==
  ASSUME NEW t \in Seq(Tokens), NEW named, NEW a \in 0..Len(t), NEW b \in a..Len(t), NEW m,
         Modes(t, named)[a] = m,
         \A k \in (a + 1)..b : NextMode(t, k, m, named) = m
  PROVE  Modes(t, named)[b] = m
<1> DEFINE n == b - a
           T == Modes(t, named)
           S == {i \in 0..n : T[a + i] = m}
<1>1. n \in Nat /\ Len(t) \in Nat
  OBVIOUS
<1>2. \A i \in 1..Len(t) : T[i] = NextMode(t, i, T[i - 1], named)
  BY ModesAre
<1>3. T[a] = m
  OBVIOUS
<1> HIDE DEF T
<1>4. 0 \in S
  BY <1>1, <1>3
<1>5. \A i \in 0..(n - 1) : i \in S => i + 1 \in S
  <2> SUFFICES ASSUME NEW i \in 0..(n - 1), T[a + i] = m
               PROVE  T[a + (i + 1)] = m
    BY <1>1
  <2>1. a + (i + 1) \in 1..Len(t) /\ (a + (i + 1)) - 1 = a + i /\ a + (i + 1) \in (a + 1)..b
    BY <1>1
  <2> QED
    BY <1>2, <2>1
<1> HIDE DEF S
<1>6. 0..n \subseteq S
  BY <1>1, <1>4, <1>5, UpTo, Zenon
<1>7. n \in S /\ a + n = b
  BY <1>1, <1>6
<1> QED
  BY <1>7 DEF S, T

-----------------------------------------------------------------------------
(* What a turn looks ahead for.                                            *)
LEMMA MinIs ==
  ASSUME NEW S, S \subseteq Nat, S # {}
  PROVE  Min(S) \in S /\ \A x \in S : Min(S) <= x
<1>1. \E n \in S : \A m \in S : n <= m
  BY LeastNatural
<1> QED
  BY <1>1, Zenon DEF Min

LEMMA RefEndIs ==
  ASSUME NEW t \in Seq(Tokens), NEW i \in 1..Len(t)
  PROVE  \/ RefEnd(t, i) = 0
         \/ /\ RefEnd(t, i) \in (i + 1)..Len(t) /\ t[RefEnd(t, i)] = ")"
            /\ \A j \in (i + 1)..(RefEnd(t, i) - 1) : t[j] \in NameTokens
<1> DEFINE S == {j \in (i + 1)..Len(t) : t[j] \notin NameTokens} \cup {Len(t) + 1}
           k == Min(S)
<1>1. S \subseteq Nat /\ S # {} /\ \A j \in S : j \in (i + 1)..(Len(t) + 1)
  OBVIOUS
<1>2. k \in S /\ \A j \in S : k <= j
  <2> HIDE DEF S
  <2> QED
    BY <1>1, MinIs
<1>3. k \in (i + 1)..(Len(t) + 1)
  BY <1>1, <1>2
<1>4. \A j \in (i + 1)..(k - 1) : t[j] \in NameTokens
  <2> SUFFICES ASSUME NEW j \in (i + 1)..(k - 1), t[j] \notin NameTokens PROVE FALSE
    OBVIOUS
  <2>1. j \in S
    BY <1>3
  <2>2. k <= j
    BY <1>2, <2>1
  <2> QED
    BY <1>3, <2>2
<1>5. RefEnd(t, i) = IF Nth(t, k) = ")" THEN k ELSE 0
  BY DEF RefEnd
<1> HIDE DEF k
<1>6. Nth(t, k) = ")" => k <= Len(t) /\ t[k] = ")"
  BY <1>3 DEF Nth
<1> QED
  BY <1>3, <1>4, <1>5, <1>6

LEMMA CommentEndIs ==
  ASSUME NEW t \in Seq(Tokens), NEW i \in 1..Len(t)
  PROVE  /\ CommentEnd(t, i) \in (i + 1)..(Len(t) + 1)
         /\ CommentEnd(t, i) <= Len(t) => t[CommentEnd(t, i) - 1] = "*" /\ t[CommentEnd(t, i)] = "/"
         /\ \A j \in (i + 1)..(CommentEnd(t, i) - 1) : ~(t[j - 1] = "*" /\ t[j] = "/")
<1> DEFINE S == {j \in (i + 1)..Len(t) : t[j - 1] = "*" /\ t[j] = "/"} \cup {Len(t) + 1}
           k == Min(S)
<1>1. S \subseteq Nat /\ S # {} /\ \A j \in S : j \in (i + 1)..(Len(t) + 1)
  OBVIOUS
<1>2. k \in S /\ \A j \in S : k <= j
  <2> HIDE DEF S
  <2> QED
    BY <1>1, MinIs
<1>3. k \in (i + 1)..(Len(t) + 1)
  BY <1>1, <1>2
<1>4. \A j \in (i + 1)..(k - 1) : ~(t[j - 1] = "*" /\ t[j] = "/")
  <2> SUFFICES ASSUME NEW j \in (i + 1)..(k - 1), t[j - 1] = "*" /\ t[j] = "/" PROVE FALSE
    OBVIOUS
  <2>1. j \in S
    BY <1>3
  <2>2. k <= j
    BY <1>2, <2>1
  <2> QED
    BY <1>3, <2>2
<1>5. k <= Len(t) => t[k - 1] = "*" /\ t[k] = "/"
  BY <1>2, <1>3
<1>6. CommentEnd(t, i) = k
  BY DEF CommentEnd
<1> HIDE DEF k
<1> QED
  BY <1>3, <1>4, <1>5, <1>6

-----------------------------------------------------------------------------
(* A scan is as many turns as the chunk has tokens.                        *)
Scans == [at : Nat, quote : Marks \cup {""}, comment : BOOLEAN, scanned : BOOLEAN,
          refs : SUBSET Nat, end : {"text", "fails", "command"}]

LEMMA WithRefType ==
  ASSUME NEW t \in Seq(Tokens), NEW s \in Scans, s.at \in 1..Len(t)
  PROVE  WithRef(t, s) \in Scans
<1> DEFINE e == RefEnd(t, s.at)
<1>1. e = 0 \/ e \in (s.at + 1)..Len(t)
  BY RefEndIs
<1>2. e + 1 \in Nat
  BY <1>1
<1> HIDE DEF e
<1>3. s.refs \cup {s.at} \in SUBSET Nat
  BY DEF Scans
<1>4. WithRef(t, s) = IF e = 0 THEN [s EXCEPT !.end = "fails"]
                      ELSE [s EXCEPT !.at = e + 1, !.refs = @ \cup {s.at}]
  BY DEF WithRef, e
<1> QED
  BY <1>2, <1>4, <1>3 DEF Scans

LEMMA ToType ==
  ASSUME NEW s \in Scans, NEW i \in Nat
  PROVE  To(s, i) \in Scans
BY DEF To, Scans

LEMMA ReadStringType ==
  ASSUME NEW t \in Seq(Tokens), NEW s \in Scans, s.at \in 1..Len(t)
  PROVE  ReadString(t, s) \in Scans
<1>1. s.at + 1 \in Nat /\ s.at + 2 \in Nat
  OBVIOUS
<1>2. WithRef(t, s) \in Scans /\ To(s, s.at + 1) \in Scans /\ To(s, s.at + 2) \in Scans
  BY <1>1, WithRefType, ToType
<1>3. [To(s, s.at + 1) EXCEPT !.quote = ""] \in Scans
  BY <1>2 DEF Scans
<1> QED
  BY <1>2, <1>3 DEF ReadString

LEMMA TurnType ==
  ASSUME NEW t \in Seq(Tokens), NEW s \in Scans, s.at # 0
  PROVE  Turn(t, s) \in Scans
<1>1. CASE s.end # "text" \/ s.at > Len(t)
  BY <1>1 DEF Turn
<1>2. CASE ~(s.end # "text" \/ s.at > Len(t))
  <2> DEFINE i == s.at
  <2>1. i \in Nat
    BY Zenon DEF Scans
  <2>2. i \in 1..Len(t) /\ Len(t) \in Nat /\ i + 1 \in Nat /\ i + 2 \in Nat /\ Len(t) + 1 \in Nat
    BY <1>2, <2>1
  <2>3. [ReadString(t, s) EXCEPT !.scanned = TRUE] \in Scans
    <3>1. ReadString(t, s) \in Scans
      BY <2>2, ReadStringType
    <3> QED
      BY <3>1 DEF Scans
  <2>4. [ReadComment(t, s) EXCEPT !.scanned = TRUE] \in Scans
    <3>1. CommentEnd(t, i) \in Nat /\ CommentEnd(t, i) + 1 \in Nat
      BY <2>2, CommentEndIs
    <3>2. To(s, CommentEnd(t, i) + 1) \in Scans
      BY <3>1, ToType
    <3> DEFINE r == To(s, CommentEnd(t, i) + 1)
               late == CommentEnd(t, i) > Len(t)
    <3>3. late \in BOOLEAN
      OBVIOUS
    <3>4. ReadComment(t, s) = [r EXCEPT !.comment = late]
      BY DEF ReadComment
    <3> HIDE DEF r, late
    <3>5. ReadComment(t, s) \in Scans
      BY <3>2, <3>3, <3>4 DEF Scans, r
    <3> QED
      BY <3>5 DEF Scans
  <2>5. WithRef(t, s) \in Scans
    BY <2>2, WithRefType
  <2>6. /\ To(s, i + 1) \in Scans /\ To(s, i + 2) \in Scans /\ To(s, Len(t) + 1) \in Scans
    BY <2>2, ToType
  <2>7. /\ t[i] \in Marks => [To(s, i + 1) EXCEPT !.quote = t[i]] \in Scans
        /\ [To(s, i + 2) EXCEPT !.comment = TRUE] \in Scans
        /\ [s EXCEPT !.end = "command"] \in Scans
        /\ [To(s, i + 1) EXCEPT !.scanned = TRUE] \in Scans
    BY <2>6 DEF Scans
  <2> QED
    BY <1>2, <2>3, <2>4, <2>5, <2>6, <2>7 DEF Turn
<1> QED
  BY <1>1, <1>2

NoQuote == ""

(* The chunk t as it stands in the whole, w, behind o tokens; nothing is   *)
(* swallowed.                                                              *)
Within(t, w, o) ==
  /\ t \in Seq(Tokens) /\ w \in Seq(Tokens) /\ o \in Nat /\ Len(w) = o + Len(t)
  /\ \A i \in 1..Len(t) : w[o + i] = t[i]
  /\ \A i, j \in 1..Len(t) : i < j /\ t[i] = "--" => t[j] # "n"
  /\ Nth(w, o) \in {"n", "end"}

(* A scan has the quote and the comment of the whole before the token it   *)
(* is at.  A comment is entered at its second token or at the start.       *)
Agrees(t, w, o, s, q, c) ==
  LET m == Modes(w, parse)[o + s.at - 1]
  IN  /\ s \in Scans /\ s.at # 0
      /\ s.at = 1 => s.quote = q /\ s.comment = c
      /\ s.end = "command" => s.at = 1 /\ s.quote = "" /\ ~s.comment
      /\ s.end = "text" =>
           \/ /\ s.at \in 1..(Len(t) + 1)
              /\ s.quote # "" => s.quote \in Marks /\ ~s.comment /\ m = s.quote
              /\ s.comment => m = "fresh" \/ (m = "comment" /\ (s.at = 1 \/ s.at > Len(t)))
              /\ s.quote = "" /\ ~s.comment => m = "code" \/ (m = "line" /\ s.at > Len(t))
           \/ /\ s.at = Len(t) + 2 /\ s.comment /\ s.quote = ""
              /\ Modes(w, parse)[o + Len(t)] = "comment"

LEMMA WithinIs ==
  ASSUME NEW t, NEW w, NEW o, Within(t, w, o)
  PROVE  /\ t \in Seq(Tokens) /\ w \in Seq(Tokens) /\ o \in Nat /\ Len(t) \in Nat
         /\ Len(w) = o + Len(t)
BY DEF Within

LEMMA NthWithin ==
  ASSUME NEW t, NEW w, NEW o, Within(t, w, o), NEW i \in Nat \ {0}
  PROVE  Nth(w, o + i) = Nth(t, i)
<1>1. Len(t) \in Nat /\ Len(w) = o + Len(t) /\ o \in Nat
  BY DEF Within
<1>2. CASE i \in 1..Len(t)
  <2>1. w[o + i] = t[i] /\ o + i \in 1..Len(w)
    BY <1>1, <1>2 DEF Within
  <2> QED
    BY <1>2, <2>1 DEF Nth
<1>3. CASE i \notin 1..Len(t)
  <2>1. o + i \notin 1..Len(w)
    BY <1>1, <1>3
  <2> QED
    BY <1>3, <2>1 DEF Nth
<1> QED
  BY <1>2, <1>3

(* The mode behind the next token.                                         *)
LEMMA NextIs ==
  ASSUME NEW t, NEW w, NEW o, Within(t, w, o), NEW i \in 1..Len(t)
  PROVE  /\ Modes(w, parse)[o + i] = NextMode(w, o + i, Modes(w, parse)[o + i - 1], parse)
         /\ w[o + i] = t[i] /\ Nth(w, o + i + 1) = Nth(t, i + 1)
         /\ i > 1 => Nth(w, o + i - 1) = t[i - 1]
         /\ i = 1 => Nth(w, o + i - 1) \in {"n", "end"}
<1>1. Len(t) \in Nat /\ Len(w) = o + Len(t) /\ o \in Nat /\ w \in Seq(Tokens) /\ w[o + i] = t[i]
  BY DEF Within
<1>2. o + i \in 1..Len(w) /\ o + (i + 1) = o + i + 1 /\ i + 1 \in Nat \ {0}
  BY <1>1, SMTT(20)
<1>3. Modes(w, parse)[o + i] = NextMode(w, o + i, Modes(w, parse)[o + i - 1], parse)
  <2>1. \A k \in 1..Len(w) : Modes(w, parse)[k] = NextMode(w, k, Modes(w, parse)[k - 1], parse)
    BY <1>1, ModesAre
  <2>2. PICK k \in 1..Len(w) : k = o + i
    BY <1>2
  <2>3. Modes(w, parse)[k] = NextMode(w, k, Modes(w, parse)[k - 1], parse)
    BY <2>1, Zenon
  <2> QED
    BY <1>1, <2>2, <2>3
<1>4. Nth(w, o + i + 1) = Nth(t, i + 1)
  BY <1>2, NthWithin
<1>5. i > 1 => Nth(w, o + i - 1) = t[i - 1]
  <2> SUFFICES ASSUME i > 1 PROVE Nth(w, o + i - 1) = t[i - 1]
    OBVIOUS
  <2>1. i - 1 \in Nat \ {0} /\ o + (i - 1) = o + i - 1 /\ i - 1 \in 1..Len(t)
    BY <1>1
  <2>2. Nth(w, o + (i - 1)) = Nth(t, i - 1)
    BY <2>1, NthWithin
  <2> QED
    BY <2>1, <2>2 DEF Nth
<1>6. i = 1 => Nth(w, o + i - 1) \in {"n", "end"}
  <2>1. i = 1 => o + i - 1 = o
    BY <1>1
  <2> QED
    BY <2>1 DEF Within
<1> QED
  BY <1>1, <1>3, <1>4, <1>5, <1>6

(* A mode that the tokens from i to j do not end.                          *)
LEMMA StaysWithin ==
  ASSUME NEW t, NEW w, NEW o, Within(t, w, o), NEW i \in 1..Len(t), NEW j \in (i - 1)..Len(t), NEW m,
         Modes(w, parse)[o + i - 1] = m,
         \A k \in i..j : NextMode(w, o + k, m, parse) = m
  PROVE  Modes(w, parse)[o + j] = m
<1>1. Len(t) \in Nat /\ Len(w) = o + Len(t) /\ o \in Nat /\ w \in Seq(Tokens)
  BY DEF Within
<1> DEFINE a == o + i - 1
           b == o + j
<1>2. a \in 0..Len(w) /\ b \in a..Len(w)
  BY <1>1
<1>3. \A k \in (a + 1)..b : NextMode(w, k, m, parse) = m
  <2> SUFFICES ASSUME NEW k \in (a + 1)..b PROVE NextMode(w, k, m, parse) = m
    OBVIOUS
  <2>1. k - o \in i..j /\ o + (k - o) = k
    BY <1>1
  <2> QED
    BY <2>1
<1>4. Modes(w, parse)[a] = m
  OBVIOUS
<1> HIDE DEF a, b
<1>5. Modes(w, parse)[b] = m
  BY <1>1, <1>2, <1>3, <1>4, ModeStays
<1> QED
  BY <1>5 DEF b

-----------------------------------------------------------------------------
(* The mode behind a token of the chunk, from the one before it.           *)
LEMMA StepsCode ==
  ASSUME NEW t, NEW w, NEW o, Within(t, w, o), NEW i \in 1..Len(t)
  PROVE  /\ t[i] \in Marks => NextMode(w, o + i, "code", parse) = t[i]
         /\ t[i] = "--" => NextMode(w, o + i, "code", parse) = "line"
         /\ t[i] = "/" /\ Nth(t, i + 1) = "*" => NextMode(w, o + i, "code", parse) = "open"
         /\ IsRef(t, i) => NextMode(w, o + i, "code", parse) = "ref"
         /\ t[i] \notin Marks \cup {"--"} /\ ~(t[i] = "/" /\ Nth(t, i + 1) = "*") /\ ~IsRef(t, i)
              => NextMode(w, o + i, "code", parse) = "code"
<1> DEFINE j == o + i
<1>1. w[j] = t[i] /\ Nth(w, j + 1) = Nth(t, i + 1)
  <2>1. o \in Nat /\ Len(t) \in Nat
    BY DEF Within
  <2> QED
    BY <2>1, NextIs
<1> HIDE DEF j
<1>2. /\ t[i] \in Marks => NextMode(w, j, "code", parse) = t[i]
      /\ t[i] = "--" => NextMode(w, j, "code", parse) = "line"
      /\ t[i] = "/" /\ Nth(t, i + 1) = "*" => NextMode(w, j, "code", parse) = "open"
      /\ IsRef(t, i) => NextMode(w, j, "code", parse) = "ref"
  BY <1>1 DEF NextMode, Marks, Ends, IsRef
<1>3. t[i] \notin Marks \cup {"--"} /\ ~(t[i] = "/" /\ Nth(t, i + 1) = "*") /\ ~IsRef(t, i)
        => NextMode(w, j, "code", parse) = "code"
  BY <1>1 DEF NextMode, Marks, Ends, IsRef
<1> QED
  BY <1>2, <1>3, Zenon DEF j

LEMMA StepsComment ==
  ASSUME NEW t, NEW w, NEW o, Within(t, w, o), NEW i \in 1..Len(t)
  PROVE  /\ NextMode(w, o + i, "open", parse) = "fresh"
         /\ NextMode(w, o + i, "fresh", parse) = "comment"
         /\ t[i] = "/" /\ i > 1 /\ t[i - 1] = "*" => NextMode(w, o + i, "comment", parse) = "code"
         /\ ~(t[i] = "/" /\ i > 1 /\ t[i - 1] = "*") => NextMode(w, o + i, "comment", parse) = "comment"
         /\ t[i] # "n" => NextMode(w, o + i, "line", parse) = "line"
<1> DEFINE j == o + i
<1>1. /\ w[j] = t[i]
      /\ i > 1 => Nth(w, j - 1) = t[i - 1]
      /\ i = 1 => Nth(w, j - 1) \in {"n", "end"}
  <2>1. o \in Nat /\ Len(t) \in Nat
    BY DEF Within
  <2> QED
    BY <2>1, NextIs
<1>2. i > 1 \/ i = 1
  OBVIOUS
<1> HIDE DEF j
<1>3. /\ NextMode(w, j, "open", parse) = "fresh"
      /\ NextMode(w, j, "fresh", parse) = "comment"
      /\ t[i] # "n" => NextMode(w, j, "line", parse) = "line"
  BY <1>1 DEF NextMode, Marks, Ends
<1>4. /\ t[i] = "/" /\ i > 1 /\ t[i - 1] = "*" => NextMode(w, j, "comment", parse) = "code"
      /\ ~(t[i] = "/" /\ i > 1 /\ t[i - 1] = "*") => NextMode(w, j, "comment", parse) = "comment"
  BY <1>1, <1>2 DEF NextMode, Marks, Ends
<1> QED
  BY <1>3, <1>4, Zenon DEF j

LEMMA StepsString ==
  ASSUME NEW t, NEW w, NEW o, Within(t, w, o), NEW i \in 1..Len(t)
  PROVE  /\ \A m \in Marks : t[i] # Ends(m) => NextMode(w, o + i, m, parse) = m
         /\ \A m \in Marks : t[i] = Ends(m) /\ ~Paired(t, i, m) => NextMode(w, o + i, m, parse) = "code"
         /\ t[i] = "]" /\ Nth(t, i + 1) = "]" => NextMode(w, o + i, "[", parse) = "pair"
         /\ NextMode(w, o + i, "pair", parse) = "["
<1> DEFINE j == o + i
<1>1. w[j] = t[i] /\ Nth(w, j + 1) = Nth(t, i + 1)
  <2>1. o \in Nat /\ Len(t) \in Nat
    BY DEF Within
  <2> QED
    BY <2>1, NextIs
<1> HIDE DEF j
<1>2. /\ \A m \in Marks : t[i] # Ends(m) => NextMode(w, j, m, parse) = m
      /\ \A m \in Marks : t[i] = Ends(m) /\ ~Paired(t, i, m) => NextMode(w, j, m, parse) = "code"
  BY <1>1 DEF NextMode, Marks, Ends, Paired
<1>3. /\ t[i] = "]" /\ Nth(t, i + 1) = "]" => NextMode(w, j, "[", parse) = "pair"
      /\ NextMode(w, j, "pair", parse) = "["
  BY <1>1 DEF NextMode, Marks, Ends, Paired
<1> QED
  BY <1>2, <1>3, Zenon DEF j

LEMMA StepsRef ==
  ASSUME NEW t, NEW w, NEW o, Within(t, w, o), NEW i \in 1..Len(t)
  PROVE  NextMode(w, o + i, "ref", parse) = (IF t[i] = ")" THEN "code" ELSE "ref")
<1> DEFINE j == o + i
<1>1. w[j] = t[i]
  BY WithinIs, NextIs
<1> HIDE DEF j
<1>2. NextMode(w, j, "ref", parse) = (IF t[i] = ")" THEN "code" ELSE "ref")
  BY <1>1 DEF NextMode, Marks, Ends
<1> QED
  BY <1>2, Zenon DEF j

-----------------------------------------------------------------------------
(* A turn keeps agreement.                                                 *)
Carries(s, m, last) ==
  /\ s.end = "text"
  /\ s.quote # "" => ~s.comment /\ m = s.quote
  /\ s.comment => m = "fresh" \/ (m = "comment" /\ last)
  /\ s.quote = "" /\ ~s.comment => m = "code" \/ (m = "line" /\ last)

LEMMA AgreesBehind ==
  ASSUME NEW t, NEW w, NEW o, Within(t, w, o), NEW q, NEW c, NEW s \in Scans, NEW j \in 1..Len(t),
         s.at = j + 1, Carries(s, Modes(w, parse)[o + j], j = Len(t))
  PROVE  Agrees(t, w, o, s, q, c)
<1> DEFINE m == Modes(w, parse)[o + j]
<1>1. Len(t) \in Nat /\ o \in Nat
  BY WithinIs, Zenon
<1>2. /\ s.at \in 1..(Len(t) + 1) /\ s.at # 0 /\ s.at # 1 /\ o + s.at - 1 = o + j
      /\ j = Len(t) => s.at > Len(t)
  BY <1>1
<1>3. Modes(w, parse)[o + s.at - 1] = m
  BY <1>2
<1>4. s.quote # "" => s.quote \in Marks
  BY Zenon DEF Scans
<1>5. Carries(s, m, j = Len(t))
  OBVIOUS
<1> HIDE DEF m
<1>6. s.end # "command"
  BY <1>5, Zenon DEF Carries
<1> QED
  BY <1>2, <1>3, <1>4, <1>5, <1>6, Zenon DEF Agrees, Carries

(* Whether anything was scanned is not part of it.                         *)
LEMMA AgreesScanned ==
  ASSUME NEW t, NEW w, NEW o, NEW q, NEW c, NEW s, Agrees(t, w, o, s, q, c)
  PROVE  Agrees(t, w, o, [s EXCEPT !.scanned = TRUE], q, c)
<1> DEFINE r == [s EXCEPT !.scanned = TRUE]
<1>1. s \in Scans
  BY DEF Agrees
<1>2. /\ r.at = s.at /\ r.quote = s.quote /\ r.comment = s.comment /\ r.end = s.end
      /\ r \in Scans
  BY <1>1 DEF Scans
<1> HIDE DEF r
<1>3. Agrees(t, w, o, r, q, c)
  BY <1>2, Zenon DEF Agrees
<1> QED
  BY <1>3 DEF r

(* A reference is passed in the mode it is met in.                         *)
LEMMA PassesRef ==
  ASSUME NEW t, NEW w, NEW o, Within(t, w, o), NEW i \in 1..Len(t), IsRef(t, i),
         RefEnd(t, i) # 0, NEW m \in Marks \cup {"code"}, Modes(w, parse)[o + i - 1] = m
  PROVE  RefEnd(t, i) \in (i + 1)..Len(t) /\ Modes(w, parse)[o + RefEnd(t, i)] = m
<1> DEFINE e == RefEnd(t, i)
<1>1. Len(t) \in Nat /\ o \in Nat /\ t \in Seq(Tokens)
  BY WithinIs, Zenon
<1>2. /\ e \in (i + 1)..Len(t) /\ t[e] = ")"
      /\ \A k \in (i + 1)..(e - 1) : t[k] \in NameTokens
  BY <1>1, RefEndIs
<1>3. parse /\ t[i] = "$("
  BY DEF IsRef
<1> HIDE DEF e
<1>4. \A k \in i..e : k = i \/ k = e \/ k \in (i + 1)..(e - 1)
  BY <1>1, <1>2
<1>5. CASE m \in Marks
  <2>1. \A k \in i..e : NextMode(w, o + k, m, parse) = m
    <3> SUFFICES ASSUME NEW k \in i..e PROVE NextMode(w, o + k, m, parse) = m
      OBVIOUS
    <3>1. k \in 1..Len(t)
      BY <1>1, <1>2
    <3>2. t[k] \in {"$(", ")"} \cup NameTokens
      BY <1>2, <1>3, <1>4
    <3>3. t[k] # Ends(m)
      BY <1>5, <3>2 DEF NameTokens, Marks, Ends
    <3> QED
      BY <1>5, <3>1, <3>3, StepsString
  <2>2. e \in (i - 1)..Len(t)
    BY <1>1, <1>2
  <2> QED
    BY <1>2, <2>1, <2>2, StaysWithin DEF e
<1>6. CASE m = "code"
  <2>1. Modes(w, parse)[o + i] = "ref"
    <3>1. Modes(w, parse)[o + i] = NextMode(w, o + i, "code", parse)
      BY <1>6, NextIs
    <3>2. NextMode(w, o + i, "code", parse) = "ref"
      BY StepsCode
    <3> QED
      BY <3>1, <3>2, Zenon
  <2>2. \A k \in (i + 1)..(e - 1) : NextMode(w, o + k, "ref", parse) = "ref"
    <3> SUFFICES ASSUME NEW k \in (i + 1)..(e - 1) PROVE NextMode(w, o + k, "ref", parse) = "ref"
      OBVIOUS
    <3>1. k \in 1..Len(t)
      BY <1>1, <1>2
    <3>2. t[k] # ")"
      BY <1>2 DEF NameTokens
    <3> QED
      BY <3>1, <3>2, StepsRef, Zenon
  <2>3. Modes(w, parse)[o + (e - 1)] = "ref"
    <3>1. CASE e = i + 1
      <4>1. e - 1 = i
        BY <3>1
      <4> QED
        BY <2>1, <4>1
    <3>2. CASE e # i + 1
      <4>1. i + 1 \in 1..Len(t) /\ e - 1 \in ((i + 1) - 1)..Len(t) /\ o + (i + 1) - 1 = o + i
        BY <1>1, <1>2, <3>2
      <4>2. Modes(w, parse)[o + (i + 1) - 1] = "ref"
        BY <2>1, <4>1
      <4> QED
        BY <2>2, <4>1, <4>2, StaysWithin
    <3> QED
      BY <3>1, <3>2
  <2>4. o + e - 1 = o + (e - 1) /\ e \in 1..Len(t)
    BY <1>1, <1>2
  <2>5. Modes(w, parse)[o + e] = NextMode(w, o + e, Modes(w, parse)[o + e - 1], parse)
    BY <2>4, NextIs
  <2>6. Modes(w, parse)[o + e] = NextMode(w, o + e, "ref", parse)
    BY <2>3, <2>4, <2>5
  <2>7. NextMode(w, o + e, "ref", parse) = "code"
    BY <1>2, <2>4, StepsRef, Zenon
  <2> QED
    BY <1>2, <1>6, <2>6, <2>7 DEF e
<1> QED
  BY <1>5, <1>6

(* In code or in a string, and going on.                                   *)
InMode(s, m) == ~s.comment /\ m = IF s.quote = "" THEN "code" ELSE s.quote

LEMMA InModeCarries ==
  ASSUME NEW s, NEW m, NEW last, InMode(s, m), s.end = "text"
  PROVE  Carries(s, m, last)
<1>1. CASE s.quote = ""
  BY <1>1, Zenon DEF InMode, Carries
<1>2. CASE s.quote # ""
  BY <1>2, Zenon DEF InMode, Carries
<1> QED
  BY <1>1, <1>2, Zenon

(* A scan taken to a later place.                                          *)
LEMMA InModeAgrees ==
  ASSUME NEW t, NEW w, NEW o, Within(t, w, o), NEW q, NEW c, NEW s, NEW j \in 1..Len(t),
         s \in Scans, s.at = j + 1, s.end = "text", NEW m, InMode(s, m), Modes(w, parse)[o + j] = m
  PROVE  Agrees(t, w, o, s, q, c)
<1> DEFINE last == j = Len(t)
<1>1. Carries(s, Modes(w, parse)[o + j], last)
  BY InModeCarries, Zenon
<1> QED
  BY <1>1, AgreesBehind, Zenon

LEMMA InModeIs ==
  ASSUME NEW s \in Scans, NEW m, InMode(s, m)
  PROVE  m \in Marks \cup {"code"} /\ (s.quote \in Marks => m = s.quote)
<1>1. s.quote \in Marks \cup {""}
  BY Zenon DEF Scans
<1>2. m = IF s.quote = "" THEN "code" ELSE s.quote
  BY Zenon DEF InMode
<1> HIDE DEF InMode
<1>3. s.quote \in Marks => s.quote # ""
  BY DEF Marks
<1> QED
  BY <1>1, <1>2, <1>3, Zenon

LEMMA WithRefAgrees ==
  ASSUME NEW t, NEW w, NEW o, Within(t, w, o), NEW q, NEW c, NEW s, Agrees(t, w, o, s, q, c),
         NEW i \in 1..Len(t), s.at = i, s.end = "text", IsRef(t, i),
         NEW m, InMode(s, m), Modes(w, parse)[o + i - 1] = m
  PROVE  Agrees(t, w, o, WithRef(t, s), q, c)
<1>1. t \in Seq(Tokens) /\ Len(t) \in Nat /\ o \in Nat
  BY WithinIs, Zenon
<1>2. s \in Scans /\ s.at # 0 /\ (s.at = 1 => s.quote = q /\ s.comment = c)
  BY Zenon DEF Agrees
<1>3. WithRef(t, s) \in Scans
  BY <1>1, <1>2, WithRefType
<1>4. m \in Marks \cup {"code"}
  BY <1>2, InModeIs, Zenon
<1> DEFINE e == RefEnd(t, i)
<1>5. CASE e = 0
  <2> DEFINE r == [s EXCEPT !.end = "fails"]
  <2>1. WithRef(t, s) = r
    BY <1>5, Zenon DEF WithRef
  <2>2. r \in Scans /\ r.at = s.at /\ r.quote = s.quote /\ r.comment = s.comment /\ r.end = "fails"
    BY <1>2, <1>3, <2>1, Zenon DEF Scans
  <2> HIDE DEF r
  <2>3. r.end # "text" /\ r.end # "command"
    BY <2>2
  <2>4. Agrees(t, w, o, r, q, c)
    BY <1>2, <2>2, <2>3, Zenon DEF Agrees
  <2> QED
    BY <2>1, <2>4, Zenon
<1>6. CASE e # 0
  <2> DEFINE r == [s EXCEPT !.at = e + 1, !.refs = @ \cup {i}]
  <2>1. e \in (i + 1)..Len(t) /\ Modes(w, parse)[o + e] = m
    BY <1>4, <1>6, PassesRef
  <2>2. WithRef(t, s) = r
    BY <1>6, Zenon DEF WithRef
  <2>3. r.at = e + 1 /\ r.quote = s.quote /\ r.comment = s.comment /\ r.end = s.end
    BY <1>2, Zenon DEF Scans
  <2>4. r \in Scans
    BY <1>3, <2>2, Zenon
  <2>5. e \in 1..Len(t)
    BY <1>1, <2>1
  <2> HIDE DEF r, e
  <2>6. InMode(r, m) /\ r.end = "text"
    BY <2>3, Zenon DEF InMode
  <2>7. Agrees(t, w, o, r, q, c)
    BY <2>1, <2>3, <2>4, <2>5, <2>6, InModeAgrees, Zenon
  <2> QED
    BY <2>2, <2>7, Zenon
<1> QED
  BY <1>5, <1>6, Zenon

(* Behind a doubled mark the string goes on.                               *)
LEMMA PassesPair ==
  ASSUME NEW t, NEW w, NEW o, Within(t, w, o), NEW i \in 1..Len(t), NEW m \in {"'", "["},
         t[i] = Ends(m), Nth(t, i + 1) = Ends(m), Modes(w, parse)[o + i - 1] = m
  PROVE  i + 1 \in 1..Len(t) /\ Modes(w, parse)[o + (i + 1)] = m
<1>1. t \in Seq(Tokens) /\ Len(t) \in Nat /\ o \in Nat
  BY WithinIs, Zenon
<1>2. Ends(m) # "end"
  BY DEF Ends, Marks
<1>3. i + 1 \in 1..Len(t) /\ t[i + 1] = Ends(m)
  BY <1>2 DEF Nth
<1>4. o + (i + 1) - 1 = o + i
  BY <1>1
<1>5. Modes(w, parse)[o + i] = NextMode(w, o + i, m, parse)
  BY NextIs
<1>6. Modes(w, parse)[o + (i + 1)] = NextMode(w, o + (i + 1), Modes(w, parse)[o + i], parse)
  BY <1>3, <1>4, NextIs
<1>7. CASE m = "'"
  <2>1. t[i] = "'" /\ t[i + 1] = "'" /\ m \in Marks /\ t[i] = Ends(m) /\ t[i + 1] \in Marks /\ ~Paired(t, i, m)
    BY <1>3, <1>7 DEF Ends, Paired, Marks
  <2>2. NextMode(w, o + i, m, parse) = "code"
    BY <1>7, <2>1, StepsString
  <2>3. NextMode(w, o + (i + 1), "code", parse) = "'"
    BY <1>3, <2>1, StepsCode
  <2> QED
    BY <1>3, <1>5, <1>6, <1>7, <2>2, <2>3
<1>8. CASE m = "["
  <2>1. t[i] = "]" /\ Nth(t, i + 1) = "]"
    BY <1>8 DEF Ends
  <2>2. NextMode(w, o + i, "[", parse) = "pair" /\ NextMode(w, o + (i + 1), "pair", parse) = "["
    BY <1>3, <2>1, StepsString
  <2> QED
    BY <1>3, <1>5, <1>6, <1>8, <2>2
<1> QED
  BY <1>7, <1>8

LEMMA ToIs ==
  ASSUME NEW s \in Scans, NEW j \in Nat
  PROVE  /\ To(s, j) \in Scans
         /\ To(s, j).at = j /\ To(s, j).quote = s.quote /\ To(s, j).comment = s.comment
         /\ To(s, j).end = s.end
BY ToType, Zenon DEF To, Scans

(* A string goes on with the token, with the doubled mark, or ends.        *)
LEMMA ReadStringAgrees ==
  ASSUME NEW t, NEW w, NEW o, Within(t, w, o), NEW q, NEW c, NEW s, Agrees(t, w, o, s, q, c),
         NEW i \in 1..Len(t), s.at = i, s.end = "text",
         NEW m \in Marks, s.quote = m, InMode(s, m), Modes(w, parse)[o + i - 1] = m
  PROVE  Agrees(t, w, o, ReadString(t, s), q, c)
<1>1. t \in Seq(Tokens) /\ Len(t) \in Nat /\ o \in Nat /\ i + 1 \in Nat /\ i + 2 \in Nat
  BY WithinIs
<1>2. s \in Scans
  BY Zenon DEF Agrees
<1>3. Modes(w, parse)[o + i] = NextMode(w, o + i, m, parse)
  BY NextIs
<1>4. CASE IsRef(t, i)
  <2>1. ReadString(t, s) = WithRef(t, s)
    BY <1>4, Zenon DEF ReadString
  <2> QED
    BY <1>4, <2>1, WithRefAgrees, Zenon
<1>5. CASE ~IsRef(t, i) /\ t[i] # Ends(m)
  <2>1. ReadString(t, s) = To(s, i + 1)
    BY <1>5, Zenon DEF ReadString
  <2>2. Modes(w, parse)[o + i] = m
    <3>1. NextMode(w, o + i, m, parse) = m
      BY <1>5, StepsString
    <3> QED
      BY <1>3, <3>1, Zenon
  <2>3. InMode(To(s, i + 1), m)
    <3>1. To(s, i + 1).quote = s.quote /\ To(s, i + 1).comment = s.comment
      BY <1>1, <1>2, ToIs, Zenon
    <3> QED
      BY <3>1, Zenon DEF InMode
  <2>4. To(s, i + 1) \in Scans /\ To(s, i + 1).at = i + 1 /\ To(s, i + 1).end = "text"
    BY <1>1, <1>2, ToIs, Zenon
  <2>5. Agrees(t, w, o, To(s, i + 1), q, c)
    BY <2>2, <2>3, <2>4, InModeAgrees, Zenon
  <2> QED
    BY <2>1, <2>5, Zenon
<1>6. CASE ~IsRef(t, i) /\ t[i] = Ends(m) /\ m \in {"'", "["} /\ Nth(t, i + 1) = Ends(m)
  <2>1. ReadString(t, s) = To(s, i + 2)
    BY <1>6, Zenon DEF ReadString
  <2>2. i + 1 \in 1..Len(t) /\ Modes(w, parse)[o + (i + 1)] = m
    <3>1. m \in {"'", "["} /\ t[i] = Ends(m) /\ Nth(t, i + 1) = Ends(m)
      BY <1>6, Zenon
    <3> QED
      BY <3>1, PassesPair, SMTT(20)
  <2>3. i + 2 = i + 1 + 1
    BY <1>1
  <2>4. InMode(To(s, i + 2), m)
    <3>1. To(s, i + 2).quote = s.quote /\ To(s, i + 2).comment = s.comment
      BY <1>1, <1>2, ToIs, Zenon
    <3> QED
      BY <3>1, Zenon DEF InMode
  <2>5. To(s, i + 2) \in Scans /\ To(s, i + 2).at = i + 1 + 1 /\ To(s, i + 2).end = "text"
    <3>1. To(s, i + 2) \in Scans /\ To(s, i + 2).at = i + 2 /\ To(s, i + 2).end = "text"
      BY <1>1, <1>2, ToIs, Zenon
    <3> QED
      BY <2>3, <3>1, Zenon
  <2>6. Agrees(t, w, o, To(s, i + 2), q, c)
    BY <2>2, <2>4, <2>5, InModeAgrees, Zenon
  <2> QED
    BY <2>1, <2>6, Zenon
<1>7. CASE ~IsRef(t, i) /\ t[i] = Ends(m) /\ ~(m \in {"'", "["} /\ Nth(t, i + 1) = Ends(m))
  <2> DEFINE r == [To(s, i + 1) EXCEPT !.quote = ""]
  <2>1. ReadString(t, s) = r
    BY <1>7, Zenon DEF ReadString
  <2>2. ~Paired(t, i, m)
    BY <1>7, Zenon DEF Paired, Ends
  <2>3. Modes(w, parse)[o + i] = "code"
    <3>1. NextMode(w, o + i, m, parse) = "code"
      BY <1>7, <2>2, StepsString
    <3> QED
      BY <1>3, <3>1, Zenon
  <2>4. /\ To(s, i + 1) \in Scans /\ To(s, i + 1).at = i + 1
        /\ To(s, i + 1).comment = s.comment /\ To(s, i + 1).end = "text"
    BY <1>1, <1>2, ToIs, Zenon
  <2>5. r.at = i + 1 /\ r.quote = "" /\ r.comment = s.comment /\ r.end = "text" /\ r \in Scans
    BY <2>4, Zenon DEF Scans
  <2> HIDE DEF r
  <2>6. InMode(r, "code")
    BY <2>5, Zenon DEF InMode
  <2>7. Agrees(t, w, o, r, q, c)
    BY <2>3, <2>5, <2>6, InModeAgrees, Zenon
  <2> QED
    BY <2>1, <2>7, Zenon
<1> QED
  BY <1>4, <1>5, <1>6, <1>7, Zenon

(* Where a comment that goes on at i ends, if it does.                     *)
LEMMA PassesComment ==
  ASSUME NEW t, NEW w, NEW o, Within(t, w, o), NEW i \in 1..Len(t),
         \/ Modes(w, parse)[o + i - 1] = "fresh"
         \/ Modes(w, parse)[o + i - 1] = "comment" /\ i = 1
  PROVE  /\ CommentEnd(t, i) \in (i + 1)..(Len(t) + 1)
         /\ CommentEnd(t, i) <= Len(t) => Modes(w, parse)[o + CommentEnd(t, i)] = "code"
         /\ CommentEnd(t, i) > Len(t) => Modes(w, parse)[o + Len(t)] = "comment"
         /\ \A k \in i..(CommentEnd(t, i) - 1) : Modes(w, parse)[o + k] = "comment"
<1> DEFINE e == CommentEnd(t, i)
<1>1. t \in Seq(Tokens) /\ Len(t) \in Nat /\ o \in Nat
  BY WithinIs, Zenon
<1>2. /\ e \in (i + 1)..(Len(t) + 1)
      /\ e <= Len(t) => t[e - 1] = "*" /\ t[e] = "/"
      /\ \A j \in (i + 1)..(e - 1) : ~(t[j - 1] = "*" /\ t[j] = "/")
  BY <1>1, CommentEndIs
<1> HIDE DEF e
<1>3. Modes(w, parse)[o + i] = "comment"
  <2>1. Modes(w, parse)[o + i] = NextMode(w, o + i, Modes(w, parse)[o + i - 1], parse)
    BY NextIs
  <2>2. NextMode(w, o + i, "fresh", parse) = "comment"
    BY StepsComment
  <2>3. i = 1 => NextMode(w, o + i, "comment", parse) = "comment"
    BY StepsComment
  <2> QED
    BY <2>1, <2>2, <2>3
<1>4. \A k \in (i + 1)..(e - 1) : NextMode(w, o + k, "comment", parse) = "comment"
  <2> SUFFICES ASSUME NEW k \in (i + 1)..(e - 1) PROVE NextMode(w, o + k, "comment", parse) = "comment"
    OBVIOUS
  <2>1. k \in 1..Len(t)
    BY <1>1, <1>2
  <2>2. ~(t[k] = "/" /\ k > 1 /\ t[k - 1] = "*")
    BY <1>2
  <2> QED
    BY <2>1, <2>2, StepsComment
<1>5. \A k \in i..(e - 1) : Modes(w, parse)[o + k] = "comment"
  <2> SUFFICES ASSUME NEW k \in i..(e - 1) PROVE Modes(w, parse)[o + k] = "comment"
    OBVIOUS
  <2>1. CASE k = i
    BY <1>3, <2>1
  <2>2. CASE k # i
    <3>1. i + 1 \in 1..Len(t) /\ k \in ((i + 1) - 1)..Len(t) /\ o + (i + 1) - 1 = o + i
      BY <1>1, <1>2, <2>2
    <3>2. Modes(w, parse)[o + (i + 1) - 1] = "comment"
      BY <1>3, <3>1
    <3>3. \A j \in (i + 1)..k : j \in (i + 1)..(e - 1)
      BY <1>1, <1>2
    <3>4. \A j \in (i + 1)..k : NextMode(w, o + j, "comment", parse) = "comment"
      BY <1>4, <3>3, Zenon
    <3> QED
      BY <3>1, <3>2, <3>4, StaysWithin
  <2> QED
    BY <2>1, <2>2
<1>6. ASSUME e <= Len(t) PROVE Modes(w, parse)[o + e] = "code"
  <2>1. o + e - 1 = o + (e - 1) /\ e \in 1..Len(t) /\ e > 1 /\ e - 1 \in i..(e - 1)
    BY <1>1, <1>2, <1>6
  <2>2. Modes(w, parse)[o + e] = NextMode(w, o + e, Modes(w, parse)[o + e - 1], parse)
    BY <2>1, NextIs
  <2>3. Modes(w, parse)[o + e] = NextMode(w, o + e, "comment", parse)
    BY <1>5, <2>1, <2>2
  <2>4. NextMode(w, o + e, "comment", parse) = "code"
    BY <1>2, <1>6, <2>1, StepsComment
  <2> QED
    BY <2>3, <2>4
<1>7. ASSUME e > Len(t) PROVE Modes(w, parse)[o + Len(t)] = "comment"
  <2>1. e - 1 = Len(t) /\ e - 1 \in i..(e - 1)
    BY <1>1, <1>2, <1>7
  <2> QED
    BY <1>5, <2>1
<1> QED
  BY <1>2, <1>5, <1>6, <1>7 DEF e

LEMMA ReadCommentAgrees ==
  ASSUME NEW t, NEW w, NEW o, Within(t, w, o), NEW q, NEW c, NEW s, Agrees(t, w, o, s, q, c),
         NEW i \in 1..Len(t), s.at = i, s.end = "text", s.quote = NoQuote,
         \/ Modes(w, parse)[o + i - 1] = "fresh"
         \/ Modes(w, parse)[o + i - 1] = "comment" /\ i = 1
  PROVE  Agrees(t, w, o, ReadComment(t, s), q, c)
<1> DEFINE e == CommentEnd(t, i)
           r == ReadComment(t, s)
<1>1. t \in Seq(Tokens) /\ Len(t) \in Nat /\ o \in Nat
  BY WithinIs, Zenon
<1>2. s \in Scans
  BY Zenon DEF Agrees, NoQuote
<1>3. /\ e \in (i + 1)..(Len(t) + 1)
      /\ e <= Len(t) => Modes(w, parse)[o + e] = "code"
      /\ e > Len(t) => Modes(w, parse)[o + Len(t)] = "comment"
  BY PassesComment
<1>4. e + 1 \in Nat
  BY <1>1, <1>3
<1>5. /\ To(s, e + 1) \in Scans /\ To(s, e + 1).at = e + 1 /\ To(s, e + 1).quote = NoQuote
      /\ To(s, e + 1).end = "text"
  BY <1>2, <1>4, ToIs, Zenon
<1> DEFINE late == e > Len(t)
<1>6. late \in BOOLEAN
  OBVIOUS
<1>7. r = [To(s, e + 1) EXCEPT !.comment = late]
  BY Zenon DEF ReadComment
<1> HIDE DEF r, e, late
<1>8. r \in Scans /\ r.at = e + 1 /\ r.quote = NoQuote /\ r.end = "text" /\ r.comment = late
  BY <1>5, <1>6, <1>7, Zenon DEF Scans, NoQuote
<1>9. CASE e <= Len(t)
  <2>1. ~late /\ e \in 1..Len(t)
    BY <1>1, <1>3, <1>9 DEF late
  <2>2. InMode(r, "code")
    BY <1>8, <2>1, Zenon DEF InMode, NoQuote
  <2>3. Agrees(t, w, o, r, q, c)
    BY <1>3, <1>8, <1>9, <2>1, <2>2, InModeAgrees, Zenon
  <2> QED
    BY <2>3 DEF r
<1>10. CASE e > Len(t)
  <2>1. r.comment
    BY <1>8, <1>10, Zenon DEF late
  <2>2. e + 1 = Len(t) + 2 /\ e + 1 # 1 /\ e + 1 # 0
    BY <1>1, <1>3, <1>10
  <2>3. r.at = Len(t) + 2 /\ r.at # 1 /\ r.at # 0 /\ r.end # "command"
    BY <1>8, <2>2
  <2>4. Agrees(t, w, o, r, q, c)
    BY <1>3, <1>8, <1>10, <2>1, <2>3, Zenon DEF Agrees, NoQuote
  <2> QED
    BY <2>4 DEF r
<1> QED
  BY <1>1, <1>3, <1>9, <1>10

(* A token that is not in a string or a comment.                           *)
ReadCode(t, s) ==
  LET i == s.at
  IN  IF t[i] \in Marks THEN [To(s, i + 1) EXCEPT !.quote = t[i]]
      ELSE IF t[i] = "--" THEN To(s, Len(t) + 1)
      ELSE IF t[i] = "/" /\ Nth(t, i + 1) = "*" THEN [To(s, i + 2) EXCEPT !.comment = TRUE]
      ELSE IF IsRef(t, i) THEN WithRef(t, s)
      ELSE IF i = 1 /\ ~s.scanned /\ t[i] = "GO" THEN [s EXCEPT !.end = "command"]
      ELSE [To(s, i + 1) EXCEPT !.scanned = TRUE]

LEMMA ReadCodeAgrees ==
  ASSUME NEW t, NEW w, NEW o, Within(t, w, o), NEW q, NEW c, NEW s, Agrees(t, w, o, s, q, c),
         NEW i \in 1..Len(t), s.at = i, s.end = "text", s.quote = NoQuote, InMode(s, "code"),
         Modes(w, parse)[o + i - 1] = "code"
  PROVE  Agrees(t, w, o, ReadCode(t, s), q, c)
<1> DEFINE r == ReadCode(t, s)
<1>1. /\ t \in Seq(Tokens) /\ Len(t) \in Nat /\ o \in Nat
      /\ i + 1 \in Nat /\ i + 2 \in Nat /\ Len(t) + 1 \in Nat
  BY WithinIs
<1>2. s \in Scans /\ s.at # 0 /\ (s.at = 1 => s.quote = q /\ s.comment = c)
  BY Zenon DEF Agrees, NoQuote
<1>3. Modes(w, parse)[o + i] = NextMode(w, o + i, "code", parse)
  BY NextIs
<1>4. /\ To(s, i + 1) \in Scans /\ To(s, i + 1).at = i + 1 /\ To(s, i + 1).quote = NoQuote
      /\ To(s, i + 1).comment = s.comment /\ To(s, i + 1).end = "text"
  BY <1>1, <1>2, ToIs, Zenon
<1>5. ~s.comment
  BY Zenon DEF InMode, NoQuote
<1>6. CASE t[i] \in Marks
  <2>1. r = [To(s, i + 1) EXCEPT !.quote = t[i]]
    BY <1>6, Zenon DEF ReadCode
  <2> HIDE DEF r
  <2>2. r \in Scans /\ r.at = i + 1 /\ r.quote = t[i] /\ r.comment = s.comment /\ r.end = "text"
    BY <1>4, <1>6, <2>1, Zenon DEF Scans, NoQuote
  <2>3. Modes(w, parse)[o + i] = t[i] /\ t[i] # NoQuote
    <3>1. NextMode(w, o + i, "code", parse) = t[i]
      BY <1>6, StepsCode
    <3>2. t[i] # NoQuote
      BY <1>6, Zenon DEF Marks, NoQuote
    <3> QED
      BY <1>3, <3>1, <3>2
  <2>4. InMode(r, t[i])
    BY <1>5, <2>2, <2>3, Zenon DEF InMode, NoQuote
  <2>5. Agrees(t, w, o, r, q, c)
    BY <2>2, <2>3, <2>4, InModeAgrees, Zenon
  <2> QED
    BY <2>5 DEF r
<1>7. CASE t[i] \notin Marks /\ t[i] = "--"
  <2>1. r = To(s, Len(t) + 1)
    BY <1>7, Zenon DEF ReadCode
  <2> HIDE DEF r
  <2>2. r \in Scans /\ r.at = Len(t) + 1 /\ r.quote = NoQuote /\ r.comment = s.comment /\ r.end = "text"
    BY <1>1, <1>2, <2>1, ToIs, Zenon
  <2>3. Modes(w, parse)[o + i] = "line"
    BY <1>3, <1>7, StepsCode
  <2>4. \A k \in (i + 1)..Len(t) : NextMode(w, o + k, "line", parse) = "line"
    <3> SUFFICES ASSUME NEW k \in (i + 1)..Len(t) PROVE NextMode(w, o + k, "line", parse) = "line"
      OBVIOUS
    <3>1. k \in 1..Len(t) /\ i < k
      BY <1>1
    <3>2. t[k] # "n"
      BY <1>7, <3>1 DEF Within
    <3> QED
      BY <3>1, <3>2, StepsComment
  <2>5. Modes(w, parse)[o + Len(t)] = "line"
    <3>1. CASE i = Len(t)
      BY <2>3, <3>1
    <3>2. CASE i # Len(t)
      <4>1. i + 1 \in 1..Len(t) /\ Len(t) \in ((i + 1) - 1)..Len(t) /\ o + (i + 1) - 1 = o + i
        BY <1>1, <3>2
      <4>2. Modes(w, parse)[o + (i + 1) - 1] = "line"
        BY <2>3, <4>1
      <4> QED
        BY <2>4, <4>1, <4>2, StaysWithin
    <3> QED
      BY <3>1, <3>2
  <2> DEFINE last == Len(t) = Len(t)
  <2>6. Carries(r, Modes(w, parse)[o + Len(t)], last)
    BY <1>5, <2>2, <2>5, Zenon DEF Carries, NoQuote
  <2>7. Len(t) \in 1..Len(t)
    BY <1>1
  <2>8. Agrees(t, w, o, r, q, c)
    BY <2>2, <2>6, <2>7, AgreesBehind, Zenon
  <2> QED
    BY <2>8 DEF r
<1>8. CASE t[i] \notin Marks /\ t[i] # "--" /\ t[i] = "/" /\ Nth(t, i + 1) = "*"
  <2>1. r = [To(s, i + 2) EXCEPT !.comment = TRUE]
    BY <1>8, Zenon DEF ReadCode
  <2> HIDE DEF r
  <2>2. /\ To(s, i + 2) \in Scans /\ To(s, i + 2).at = i + 2 /\ To(s, i + 2).quote = NoQuote
        /\ To(s, i + 2).end = "text"
    BY <1>1, <1>2, ToIs, Zenon
  <2>3. r \in Scans /\ r.at = i + 2 /\ r.quote = NoQuote /\ r.comment = TRUE /\ r.end = "text"
    BY <2>1, <2>2, Zenon DEF Scans, NoQuote
  <2>4. i + 1 \in 1..Len(t)
    BY <1>1, <1>8 DEF Nth
  <2>5. o + (i + 1) - 1 = o + i /\ i + 2 = i + 1 + 1
    BY <1>1
  <2>6. Modes(w, parse)[o + i] = "open"
    BY <1>3, <1>8, StepsCode
  <2>7. Modes(w, parse)[o + (i + 1)] = "fresh"
    <3>1. Modes(w, parse)[o + (i + 1)] = NextMode(w, o + (i + 1), Modes(w, parse)[o + (i + 1) - 1], parse)
      BY <2>4, NextIs
    <3>2. NextMode(w, o + (i + 1), "open", parse) = "fresh"
      BY <2>4, StepsComment
    <3> QED
      BY <2>5, <2>6, <3>1, <3>2
  <2> DEFINE last == i + 1 = Len(t)
  <2>8. Carries(r, Modes(w, parse)[o + (i + 1)], last)
    BY <2>3, <2>7, Zenon DEF Carries, NoQuote
  <2>9. Agrees(t, w, o, r, q, c)
    BY <2>3, <2>4, <2>5, <2>8, AgreesBehind, Zenon
  <2> QED
    BY <2>9 DEF r
<1>9. CASE t[i] \notin Marks /\ t[i] # "--" /\ ~(t[i] = "/" /\ Nth(t, i + 1) = "*") /\ IsRef(t, i)
  <2>1. r = WithRef(t, s)
    BY <1>9, Zenon DEF ReadCode
  <2>2. Agrees(t, w, o, WithRef(t, s), q, c)
    BY <1>9, WithRefAgrees, Zenon
  <2> QED
    BY <2>1, <2>2, Zenon
<1>10. CASE /\ t[i] \notin Marks /\ t[i] # "--" /\ ~(t[i] = "/" /\ Nth(t, i + 1) = "*")
            /\ ~IsRef(t, i) /\ i = 1 /\ ~s.scanned /\ t[i] = "GO"
  <2>1. r = [s EXCEPT !.end = "command"]
    BY <1>10, Zenon DEF ReadCode
  <2> HIDE DEF r
  <2>2. r \in Scans /\ r.at = 1 /\ r.quote = s.quote /\ r.comment = s.comment /\ r.end = "command"
    BY <1>2, <1>10, <2>1, Zenon DEF Scans, NoQuote
  <2>3. r.end # "text" /\ r.at # 0
    BY <2>2
  <2>4. Agrees(t, w, o, r, q, c)
    BY <1>2, <1>5, <1>10, <2>2, <2>3, Zenon DEF Agrees, NoQuote
  <2> QED
    BY <2>4 DEF r
<1>11. CASE /\ t[i] \notin Marks /\ t[i] # "--" /\ ~(t[i] = "/" /\ Nth(t, i + 1) = "*")
            /\ ~IsRef(t, i) /\ ~(i = 1 /\ ~s.scanned /\ t[i] = "GO")
  <2>1. r = [To(s, i + 1) EXCEPT !.scanned = TRUE]
    BY <1>11, Zenon DEF ReadCode
  <2>2. Modes(w, parse)[o + i] = "code"
    <3>1. t[i] \notin Marks \cup {"--"} /\ ~(t[i] = "/" /\ Nth(t, i + 1) = "*") /\ ~IsRef(t, i)
      BY <1>11, Zenon
    <3> QED
      BY <1>3, <3>1, StepsCode
  <2>3. InMode(To(s, i + 1), "code")
    BY <1>4, <1>5, Zenon DEF InMode, NoQuote
  <2>4. Agrees(t, w, o, To(s, i + 1), q, c)
    BY <1>4, <2>2, <2>3, InModeAgrees, Zenon
  <2>5. Agrees(t, w, o, [To(s, i + 1) EXCEPT !.scanned = TRUE], q, c)
    BY <2>4, AgreesScanned
  <2> QED
    BY <2>1, <2>5, Zenon
<1> QED
  BY <1>6, <1>7, <1>8, <1>9, <1>10, <1>11, Zenon

LEMMA TurnAgrees ==
  ASSUME NEW t, NEW w, NEW o, Within(t, w, o), NEW q, NEW c, NEW s, Agrees(t, w, o, s, q, c)
  PROVE  Agrees(t, w, o, Turn(t, s), q, c)
<1>1. CASE s.end # "text" \/ s.at > Len(t)
  BY <1>1 DEF Turn
<1>2. CASE s.end = "text" /\ ~(s.at > Len(t))
  <2>1. t \in Seq(Tokens) /\ Len(t) \in Nat /\ o \in Nat
    BY WithinIs, Zenon
  <2>2. s \in Scans /\ s.at # 0
    BY Zenon DEF Agrees, NoQuote
  <2>3. s.at \in Nat /\ s.quote \in Marks \cup {NoQuote}
    BY <2>2, Zenon DEF Scans, NoQuote
  <2>4. PICK i \in 1..Len(t) : s.at = i
    BY <1>2, <2>1, <2>2, <2>3
  <2> DEFINE m == Modes(w, parse)[o + i - 1]
  <2>5. s.at # Len(t) + 2 /\ ~(i > Len(t))
    BY <2>1, <2>4
  <2>6. /\ s.quote # NoQuote => ~s.comment /\ m = s.quote
        /\ s.comment => m = "fresh" \/ (m = "comment" /\ i = 1)
        /\ s.quote = NoQuote /\ ~s.comment => m = "code"
    BY <1>2, <2>4, <2>5, Zenon DEF Agrees, NoQuote
  <2> HIDE DEF m
  <2>7. CASE s.quote # NoQuote
    <3>1. Turn(t, s) = [ReadString(t, s) EXCEPT !.scanned = TRUE]
      BY <1>2, <2>4, <2>5, <2>7, Zenon DEF Turn, NoQuote
    <3>2. m \in Marks /\ s.quote = m
      BY <2>3, <2>6, <2>7, Zenon
    <3>3. InMode(s, m)
      BY <2>6, <2>7, <3>2, Zenon DEF InMode, NoQuote
    <3>4. Agrees(t, w, o, ReadString(t, s), q, c)
      BY <1>2, <2>4, <3>2, <3>3, ReadStringAgrees, Zenon DEF m
    <3>5. Agrees(t, w, o, [ReadString(t, s) EXCEPT !.scanned = TRUE], q, c)
      BY <3>4, AgreesScanned
    <3> QED
      BY <3>1, <3>5, Zenon
  <2>8. CASE s.quote = NoQuote /\ s.comment
    <3>1. Turn(t, s) = [ReadComment(t, s) EXCEPT !.scanned = TRUE]
      BY <1>2, <2>4, <2>5, <2>8, Zenon DEF Turn, NoQuote
    <3>2. Agrees(t, w, o, ReadComment(t, s), q, c)
      BY <1>2, <2>4, <2>6, <2>8, ReadCommentAgrees DEF m
    <3>3. Agrees(t, w, o, [ReadComment(t, s) EXCEPT !.scanned = TRUE], q, c)
      BY <3>2, AgreesScanned
    <3> QED
      BY <3>1, <3>3, Zenon
  <2>9. CASE s.quote = NoQuote /\ ~s.comment
    <3>1. Turn(t, s) = ReadCode(t, s)
      BY <1>2, <2>4, <2>5, <2>9, Zenon DEF Turn, ReadCode, NoQuote
    <3>2. InMode(s, "code")
      BY <2>9, Zenon DEF InMode, NoQuote
    <3>3. Agrees(t, w, o, ReadCode(t, s), q, c)
      BY <1>2, <2>4, <2>6, <2>9, <3>2, ReadCodeAgrees DEF m
    <3> QED
      BY <3>1, <3>3, Zenon
  <2> QED
    BY <2>7, <2>8, <2>9, Zenon
<1> QED
  BY <1>1, <1>2, Zenon

-----------------------------------------------------------------------------
(* The scan of a chunk: a turn goes on, or stops where it is.              *)
Moves(s, r) ==
  \/ r.at > s.at /\ r.end = "text"
  \/ /\ r.at = s.at /\ r.quote = s.quote /\ r.comment = s.comment
     /\ r.end = "fails" \/ (r.end = "command" /\ s.at = 1)

LEMMA WithRefMoves ==
  ASSUME NEW t \in Seq(Tokens), NEW s \in Scans, NEW i \in 1..Len(t), s.at = i, s.end = "text"
  PROVE  Moves(s, WithRef(t, s))
<1> DEFINE e == RefEnd(t, i)
<1>1. e = 0 \/ e \in (i + 1)..Len(t)
  BY RefEndIs
<1>2. e # 0 => e + 1 > i
  BY <1>1
<1> DEFINE r == [s EXCEPT !.end = "fails"]
           u == [s EXCEPT !.at = e + 1, !.refs = @ \cup {i}]
<1>3. WithRef(t, s) = IF e = 0 THEN r ELSE u
  BY Zenon DEF WithRef
<1>4. /\ r.at = i /\ r.end = "fails" /\ r.quote = s.quote /\ r.comment = s.comment
      /\ u.at = e + 1 /\ u.end = "text"
  BY Zenon DEF Scans
<1> HIDE DEF r, u, e
<1> QED
  BY <1>2, <1>3, <1>4 DEF Moves

LEMMA ReadStringMoves ==
  ASSUME NEW t \in Seq(Tokens), NEW s \in Scans, NEW i \in 1..Len(t), s.at = i, s.end = "text"
  PROVE  Moves(s, ReadString(t, s))
<1>1. i + 1 \in Nat /\ i + 2 \in Nat /\ i + 1 > i /\ i + 2 > i
  OBVIOUS
<1>2. /\ To(s, i + 1).at = i + 1 /\ To(s, i + 2).at = i + 2 /\ To(s, i + 1) \in Scans
      /\ To(s, i + 1).end = "text" /\ To(s, i + 2).end = "text"
  BY <1>1, ToIs, Zenon
<1>3. /\ [To(s, i + 1) EXCEPT !.quote = ""].at = i + 1
      /\ [To(s, i + 1) EXCEPT !.quote = ""].end = "text"
  BY <1>2, Zenon DEF Scans
<1>4. Moves(s, To(s, i + 1)) /\ Moves(s, To(s, i + 2)) /\ Moves(s, [To(s, i + 1) EXCEPT !.quote = ""])
  BY <1>1, <1>2, <1>3, Zenon DEF Moves
<1>5. Moves(s, WithRef(t, s))
  BY WithRefMoves, Zenon
<1> QED
  BY <1>4, <1>5, Zenon DEF ReadString

LEMMA ReadCommentMoves ==
  ASSUME NEW t \in Seq(Tokens), NEW s \in Scans, NEW i \in 1..Len(t), s.at = i, s.end = "text"
  PROVE  ReadComment(t, s) \in Scans /\ Moves(s, ReadComment(t, s))
<1> DEFINE e == CommentEnd(t, i)
           late == e > Len(t)
<1>1. e \in (i + 1)..(Len(t) + 1)
  BY CommentEndIs
<1>2. e + 1 \in Nat /\ e + 1 > i
  BY <1>1
<1>3. late \in BOOLEAN
  OBVIOUS
<1>4. ReadComment(t, s) = [To(s, e + 1) EXCEPT !.comment = late]
  BY Zenon DEF ReadComment
<1> HIDE DEF e, late
<1>5. To(s, e + 1) \in Scans /\ To(s, e + 1).at = e + 1 /\ To(s, e + 1).end = "text"
  BY <1>2, ToIs, Zenon
<1>6. ReadComment(t, s) \in Scans /\ ReadComment(t, s).at = e + 1 /\ ReadComment(t, s).end = "text"
  BY <1>3, <1>4, <1>5, Zenon DEF Scans
<1> QED
  BY <1>2, <1>6, Zenon DEF Moves

LEMMA ReadCodeMoves ==
  ASSUME NEW t \in Seq(Tokens), NEW s \in Scans, NEW i \in 1..Len(t), s.at = i, s.end = "text"
  PROVE  Moves(s, ReadCode(t, s))
<1>1. /\ i + 1 \in Nat /\ i + 2 \in Nat /\ i + 1 > i /\ i + 2 > i
      /\ Len(t) + 1 \in Nat /\ Len(t) + 1 > i
  OBVIOUS
<1>2. /\ To(s, i + 1).at = i + 1 /\ To(s, i + 2).at = i + 2 /\ To(s, Len(t) + 1).at = Len(t) + 1
      /\ To(s, i + 1) \in Scans /\ To(s, i + 2) \in Scans
      /\ To(s, i + 1).end = "text" /\ To(s, i + 2).end = "text" /\ To(s, Len(t) + 1).end = "text"
  BY <1>1, ToIs, Zenon
<1>3. /\ [To(s, i + 1) EXCEPT !.quote = t[i]].at = i + 1
      /\ [To(s, i + 1) EXCEPT !.quote = t[i]].end = "text"
      /\ [To(s, i + 2) EXCEPT !.comment = TRUE].at = i + 2
      /\ [To(s, i + 2) EXCEPT !.comment = TRUE].end = "text"
      /\ [To(s, i + 1) EXCEPT !.scanned = TRUE].at = i + 1
      /\ [To(s, i + 1) EXCEPT !.scanned = TRUE].end = "text"
  BY <1>2, Zenon DEF Scans
<1> DEFINE r == [s EXCEPT !.end = "command"]
<1>4. r.at = s.at /\ r.end = "command" /\ r.quote = s.quote /\ r.comment = s.comment
  BY Zenon DEF Scans
<1>5. i = 1 => Moves(s, r)
  <2> HIDE DEF r
  <2> QED
    BY <1>4, Zenon DEF Moves
<1>6. /\ Moves(s, [To(s, i + 1) EXCEPT !.quote = t[i]])
      /\ Moves(s, [To(s, i + 2) EXCEPT !.comment = TRUE])
      /\ Moves(s, [To(s, i + 1) EXCEPT !.scanned = TRUE])
      /\ Moves(s, To(s, Len(t) + 1))
  BY <1>1, <1>2, <1>3, Zenon DEF Moves
<1>7. Moves(s, WithRef(t, s))
  BY WithRefMoves, Zenon
<1> QED
  BY <1>6, <1>7, <1>5, Zenon DEF ReadCode

LEMMA MovesScanned ==
  ASSUME NEW s, NEW r \in Scans, Moves(s, r)
  PROVE  Moves(s, [r EXCEPT !.scanned = TRUE])
<1>1. /\ [r EXCEPT !.scanned = TRUE].at = r.at /\ [r EXCEPT !.scanned = TRUE].end = r.end
      /\ [r EXCEPT !.scanned = TRUE].quote = r.quote
      /\ [r EXCEPT !.scanned = TRUE].comment = r.comment
  BY Zenon DEF Scans
<1> QED
  BY <1>1, Zenon DEF Moves

Done(t, s) == s.end # "text" \/ s.at > Len(t)

LEMMA TurnMoves ==
  ASSUME NEW t \in Seq(Tokens), NEW s \in Scans, s.at # 0
  PROVE  IF Done(t, s) THEN Turn(t, s) = s ELSE Moves(s, Turn(t, s))
<1>1. CASE Done(t, s)
  BY <1>1, Zenon DEF Done, Turn
<1>2. CASE ~Done(t, s)
  <2>1. s.at \in Nat
    BY Zenon DEF Scans
  <2>2. s.end = "text" /\ ~(s.at > Len(t))
    BY <1>2, Zenon DEF Done
  <2>3. PICK i \in 1..Len(t) : s.at = i
    BY <2>1, <2>2
  <2>4. ReadString(t, s) \in Scans
    BY <2>3, ReadStringType
  <2>5. ReadComment(t, s) \in Scans
    BY <2>2, <2>3, ReadCommentMoves, Zenon
  <2>6. Moves(s, [ReadString(t, s) EXCEPT !.scanned = TRUE])
    <3>1. Moves(s, ReadString(t, s))
      BY <2>2, <2>3, ReadStringMoves, Zenon
    <3> QED
      BY <2>4, <3>1, MovesScanned
  <2>7. Moves(s, [ReadComment(t, s) EXCEPT !.scanned = TRUE])
    <3>1. Moves(s, ReadComment(t, s))
      BY <2>2, <2>3, ReadCommentMoves, Zenon
    <3> QED
      BY <2>5, <3>1, MovesScanned
  <2>8. Moves(s, ReadCode(t, s))
    BY <2>2, <2>3, ReadCodeMoves, Zenon
  <2>9. Turn(t, s) = IF s.quote # "" THEN [ReadString(t, s) EXCEPT !.scanned = TRUE]
                     ELSE IF s.comment THEN [ReadComment(t, s) EXCEPT !.scanned = TRUE]
                     ELSE ReadCode(t, s)
    BY <2>2, Zenon DEF Turn, ReadCode
  <2> QED
    BY <1>2, <2>6, <2>7, <2>8, <2>9, Zenon
<1> QED
  BY <1>1, <1>2, Zenon

LEMMA TurnStarts ==
  ASSUME NEW t \in Seq(Tokens), NEW s \in Scans, s.at # 0
  PROVE  Turn(t, s) \in Scans /\ Turn(t, s).at # 0
<1>1. Turn(t, s) \in Scans
  BY TurnType, Zenon
<1>2. s.at \in Nat /\ Turn(t, s).at \in Nat
  BY <1>1, Zenon DEF Scans
<1>3. Turn(t, s) = s \/ Turn(t, s).at > s.at \/ Turn(t, s).at = s.at
  BY TurnMoves, Zenon DEF Moves
<1> QED
  BY <1>1, <1>2, <1>3

(* The turns of a scan, one after another.                                 *)
LEMMA Turns ==
  ASSUME NEW t \in Seq(Tokens), NEW q \in Marks \cup {NoQuote}, NEW c \in BOOLEAN
  PROVE  \E F : /\ Scan(t, q, c) = F[Len(t)] /\ F[0] = ScanStart(q, c)
                /\ \A k \in 1..Len(t) : F[k] = Turn(t, F[k - 1])
                /\ \A k \in 0..Len(t) : F[k] \in Scans /\ F[k].at # 0
<1> DEFINE n == Len(t)
           X == {s \in Scans : s.at # 0}
           base == ScanStart(q, c)
           g == [k \in 1..n |-> [s \in X |-> Turn(t, s)]]
           F == CHOOSE f : f = [k \in 0..n |->
                                  IF k = 0 THEN base
                                  ELSE CHOOSE y \in {Turn(t, before) : before \in {f[k - 1]}} : TRUE]
           Steps(f) == f = [k \in 0..n |->
                                  IF k = 0 THEN base
                                  ELSE CHOOSE y \in {Turn(t, before) : before \in {f[k - 1]}} : TRUE]
<1>1. n \in Nat
  OBVIOUS
<1>2. base \in X
  <2>1. /\ 1 \in Nat /\ 1 # 0 /\ {} \in SUBSET Nat /\ FALSE \in BOOLEAN
        /\ "text" \in {"text", "fails", "command"}
    OBVIOUS
  <2>2. base \in Scans /\ base.at = 1
    BY <2>1, Zenon DEF ScanStart, Scans, NoQuote
  <2> QED
    BY <2>1, <2>2, Zenon
<1>3. \A s \in X : Turn(t, s) \in X
  BY TurnStarts, Zenon
<1>4. \A h : \A k : (CHOOSE y \in {Turn(t, before) : before \in {h[k - 1]}} : TRUE) = Turn(t, h[k - 1])
  OBVIOUS
<1>5. \E f : Steps(f)
  <2>1. g \in [1..n -> [X -> X]]
    <3> HIDE DEF X, n
    <3> QED
      BY <1>3
  <2>2. PICK f : Recurses(f, n, X, base, g)
    <3> HIDE DEF X, n, base, g
    <3> QED
      BY <1>1, <1>2, <2>1, Recursion, Zenon
  <2>3. f \in [0..n -> X] /\ f[0] = base /\ \A k \in 1..n : f[k - 1] \in X /\ f[k] = g[k][f[k - 1]]
    <3> HIDE DEF n, X, base, g
    <3> QED
      BY <1>1, <2>2, RecursesIs
  <2>4. \A k \in 1..n : f[k] = Turn(t, f[k - 1])
    <3>1. \A k \in 1..n : \A s \in X : g[k][s] = Turn(t, s)
      OBVIOUS
    <3> HIDE DEF g, X, n
    <3> QED
      BY <2>3, <3>1
  <2>5. Steps(f)
    <3> HIDE DEF base, X, n, g
    <3> QED
      BY <1>1, <1>4, <2>3, <2>4
  <2> QED
    BY <2>5
<1>6. Steps(F)
  BY <1>5, Zenon
<1>7. Scan(t, q, c) = F[n]
  BY DEF Scan
<1> HIDE DEF F, X, base, n
<1>8. F[0] = base /\ \A k \in 1..n : F[k] = Turn(t, F[k - 1])
  BY <1>1, <1>4, <1>6
<1>9. F[0] \in X /\ \A k \in 1..n : F[k - 1] \in X => F[k] \in X
  BY <1>2, <1>3, <1>8
<1>10. \A k \in 0..n : F[k] \in X
  BY <1>1, <1>9, Stays
<1>11. \A k \in 0..n : F[k] \in Scans /\ F[k].at # 0
  BY <1>10, Zenon DEF X
<1> QED
  BY <1>7, <1>8, <1>11, Zenon DEF n, base

(* As many turns as there are tokens are enough.                           *)
LEMMA ScanEnds ==
  ASSUME NEW t \in Seq(Tokens), NEW q \in Marks \cup {NoQuote}, NEW c \in BOOLEAN
  PROVE  Scan(t, q, c) \in Scans /\ Done(t, Scan(t, q, c))
<1> DEFINE n == Len(t)
<1>1. PICK F : /\ Scan(t, q, c) = F[n] /\ F[0] = ScanStart(q, c)
               /\ \A k \in 1..n : F[k] = Turn(t, F[k - 1])
               /\ \A k \in 0..n : F[k] \in Scans /\ F[k].at # 0
  BY Turns, Zenon
<1>2. n \in Nat
  OBVIOUS
<1> DEFINE Far(k, s) == s.end # "text" \/ s.at > k
           S == {k \in 0..n : Far(k, F[k])}
<1>3. 0 \in S
  <2>1. ScanStart(q, c).at = 1
    BY Zenon DEF ScanStart
  <2>2. 1 > 0 /\ 0 \in 0..n
    BY <1>2
  <2> QED
    BY <1>1, <2>1, <2>2, Zenon
<1>4. \A k \in 0..(n - 1) : k \in S => k + 1 \in S
  <2> SUFFICES ASSUME NEW k \in 0..(n - 1), Far(k, F[k]) PROVE k + 1 \in S
    BY Zenon
  <2> HIDE DEF Far
  <2>1. k \in 0..n /\ k + 1 \in 0..n /\ k + 1 \in 1..n /\ (k + 1) - 1 = k
    BY <1>2
  <2>2. F[k + 1] = Turn(t, F[k])
    <3> HIDE DEF n
    <3>1. F[k + 1] = Turn(t, F[(k + 1) - 1])
      BY <1>1, <2>1, Zenon
    <3> QED
      BY <2>1, <3>1
  <2>3. F[k] \in Scans /\ F[k].at # 0 /\ F[k + 1] \in Scans
    BY <1>1, <2>1, Zenon
  <2>4. F[k].at \in Nat /\ F[k + 1].at \in Nat
    BY <2>3, Zenon DEF Scans
  <2>5. IF Done(t, F[k]) THEN F[k + 1] = F[k] ELSE Moves(F[k], F[k + 1])
    BY <2>2, <2>3, TurnMoves, Zenon
  <2>6. F[k].end # "text" \/ F[k].at > k
    BY Zenon DEF Far
  <2>7. F[k + 1].end # "text" \/ F[k + 1].at > k + 1
    <3>1. CASE F[k].end # "text"
      <4>1. F[k + 1] = F[k]
        BY <2>5, <3>1, Zenon DEF Done
      <4> QED
        BY <3>1, <4>1
    <3>2. CASE F[k].end = "text" /\ F[k].at > Len(t)
      <4>1. F[k + 1] = F[k]
        BY <2>5, <3>2, Zenon DEF Done
      <4> QED
        BY <1>2, <2>1, <2>4, <3>2, <4>1
    <3>3. CASE F[k].end = "text" /\ ~(F[k].at > Len(t))
      <4>1. F[k + 1].at > F[k].at \/ F[k + 1].end # "text"
        BY <2>5, <3>3, Zenon DEF Done, Moves
      <4>2. F[k].at > k
        BY <2>6, <3>3, Zenon
      <4> QED
        BY <2>1, <2>4, <4>1, <4>2
    <3> QED
      BY <3>1, <3>2, <3>3, Zenon
  <2>8. Far(k + 1, F[k + 1])
    BY <2>7, Zenon DEF Far
  <2> QED
    BY <2>1, <2>8, Zenon
<1> HIDE DEF S
<1>5. 0..n \subseteq S
  BY <1>2, <1>3, <1>4, UpTo, Zenon
<1>6. n \in S /\ n \in 0..n
  BY <1>2, <1>5
<1>7. F[n].end # "text" \/ F[n].at > n
  BY <1>6, Zenon DEF S
<1> QED
  BY <1>1, <1>6, <1>7, Zenon DEF Done

(* The scan of a chunk that agrees with the whole at its start agrees at   *)
(* its end.                                                                *)
LEMMA ScanAgrees ==
  ASSUME NEW t, NEW w, NEW o, Within(t, w, o), NEW q \in Marks \cup {NoQuote}, NEW c \in BOOLEAN,
         Agrees(t, w, o, ScanStart(q, c), q, c)
  PROVE  Agrees(t, w, o, Scan(t, q, c), q, c)
<1> DEFINE n == Len(t)
           Good(s) == Agrees(t, w, o, s, q, c)
<1>1. t \in Seq(Tokens) /\ n \in Nat
  BY WithinIs, Zenon
<1>2. PICK F : /\ Scan(t, q, c) = F[n] /\ F[0] = ScanStart(q, c)
               /\ \A k \in 1..n : F[k] = Turn(t, F[k - 1])
               /\ \A k \in 0..n : F[k] \in Scans /\ F[k].at # 0
  BY <1>1, Turns, Zenon
<1> DEFINE X == {s \in Scans : Good(s)}
<1>3. \A s \in X : Turn(t, s) \in X
  <2>1. \A s : Good(s) => s \in Scans
    BY Zenon DEF Agrees
  <2>2. \A s : Good(s) => Good(Turn(t, s))
    BY TurnAgrees, Zenon
  <2> QED
    BY <2>1, <2>2, Zenon
<1>4. F[0] \in X
  <2>1. 0 \in 0..n
    BY <1>1
  <2> QED
    BY <1>2, <2>1, Zenon
<1> HIDE DEF X, n
<1>5. \A k \in 1..n : F[k - 1] \in X => F[k] \in X
  BY <1>2, <1>3, Zenon
<1>6. \A k \in 0..n : F[k] \in X
  BY <1>1, <1>4, <1>5, Stays, Zenon
<1>7. F[n] \in X
  <2>1. n \in 0..n
    BY <1>1
  <2> QED
    BY <1>6, <2>1, Zenon
<1> QED
  BY <1>2, <1>7, Zenon DEF X

(* A scan that stops at a command has the quote and the comment it began   *)
(* with.                                                                   *)
LEMMA ScanStops ==
  ASSUME NEW t \in Seq(Tokens), NEW q \in Marks \cup {NoQuote}, NEW c \in BOOLEAN,
         Scan(t, q, c).end = "command"
  PROVE  Scan(t, q, c).quote = q /\ Scan(t, q, c).comment = c
<1> DEFINE n == Len(t)
           Good(s) == /\ s.at = 1 => s.quote = q /\ s.comment = c
                      /\ s.end = "command" => s.at = 1
           X == {s \in Scans : s.at # 0 /\ Good(s)}
<1>1. n \in Nat
  OBVIOUS
<1>2. PICK F : /\ Scan(t, q, c) = F[n] /\ F[0] = ScanStart(q, c)
               /\ \A k \in 1..n : F[k] = Turn(t, F[k - 1])
               /\ \A k \in 0..n : F[k] \in Scans /\ F[k].at # 0
  BY Turns, Zenon
<1>3. \A s \in X : Turn(t, s) \in X
  <2> SUFFICES ASSUME NEW s \in X PROVE Turn(t, s) \in X
    OBVIOUS
  <2>1. s \in Scans /\ s.at # 0 /\ Good(s)
    BY Zenon
  <2> HIDE DEF Good
  <2>2. Turn(t, s) \in Scans /\ Turn(t, s).at # 0
    BY <2>1, TurnStarts, Zenon
  <2>3. Good(Turn(t, s))
    <3>1. CASE Turn(t, s) = s
      BY <2>1, <3>1
    <3>2. CASE Turn(t, s).at > s.at /\ Turn(t, s).end = "text"
      <4>1. s.at \in Nat /\ Turn(t, s).at \in Nat
        BY <2>1, <2>2, Zenon DEF Scans
      <4>2. Turn(t, s).at # 1
        BY <2>1, <3>2, <4>1
      <4>3. Turn(t, s).end # "command"
        BY <3>2
      <4> QED
        BY <4>2, <4>3, Zenon DEF Good
    <3>3. CASE /\ Turn(t, s).at = s.at /\ Turn(t, s).quote = s.quote
               /\ Turn(t, s).comment = s.comment
               /\ Turn(t, s).end = "fails" \/ (Turn(t, s).end = "command" /\ s.at = 1)
      <4>1. Turn(t, s).end = "command" => s.at = 1
        BY <3>3
      <4> QED
        BY <2>1, <3>3, <4>1, Zenon DEF Good
    <3> QED
      BY <2>1, <3>1, <3>2, <3>3, TurnMoves, Zenon DEF Moves
  <2> QED
    BY <2>2, <2>3, Zenon
<1>4. F[0] \in X
  <2>1. 0 \in 0..n
    BY <1>1
  <2>2. Good(ScanStart(q, c))
    <3>1. ScanStart(q, c).end = "text" /\ ScanStart(q, c).quote = q /\ ScanStart(q, c).comment = c
      BY Zenon DEF ScanStart
    <3>2. ScanStart(q, c).end # "command"
      BY <3>1
    <3> QED
      BY <3>1, <3>2, Zenon
  <2> QED
    BY <1>2, <2>1, <2>2, Zenon
<1> HIDE DEF X, n, Good
<1>5. \A k \in 1..n : F[k - 1] \in X => F[k] \in X
  BY <1>2, <1>3, Zenon
<1>6. \A k \in 0..n : F[k] \in X
  BY <1>1, <1>4, <1>5, Stays, Zenon
<1>7. F[n] \in X
  <2>1. n \in 0..n
    BY <1>1
  <2> QED
    BY <1>6, <2>1, Zenon
<1> QED
  BY <1>2, <1>7, Zenon DEF X, Good

-----------------------------------------------------------------------------
(* The batch.                                                              *)
BType ==
  /\ parse \in BOOLEAN /\ raw \in Seq(Tokens) /\ buffer \in Seq(Tokens)
  /\ nil \in BOOLEAN /\ quote \in Marks \cup {NoQuote} /\ comment \in BOOLEAN
  /\ swallowed \in BOOLEAN /\ displaced \in BOOLEAN

(* The quote and the comment of a mode.                                    *)
Shows(m, q, c) ==
  /\ m \in Between
  /\ q = IF m \in Marks THEN m ELSE NoQuote
  /\ c <=> m \in {"fresh", "comment"}

Follows == ~swallowed => Shows(Modes(buffer, parse)[Len(buffer)], quote, comment)

BInv == BType /\ (nil => buffer = <<>>) /\ Follows

LEMMA OneToken ==
  /\ <<"n">> \in Seq(Tokens) /\ Len(<<"n">>) = 1 /\ <<"n">>[1] = "n"
  /\ <<>> \in Seq(Tokens) /\ Len(<<>>) = 0
<1>1. "n" \in Tokens
  BY DEF Tokens
<1>2. \A S : \A x \in S : <<x>> \in Seq(S)
  OBVIOUS
<1>3. Len(<<"n">>) = 1 /\ <<"n">>[1] = "n"
  OBVIOUS
<1>4. <<>> \in Seq(Tokens) /\ Len(<<>>) = 0
  OBVIOUS
<1> QED
  BY <1>1, <1>2, <1>3, <1>4, Zenon

LEMMA SeparatorIs ==
  ASSUME BType, nil => buffer = <<>>
  PROVE  /\ Separator \in Seq(Tokens)
         /\ \/ Separator = <<"n">> /\ Len(Separator) = 1 /\ Separator[1] = "n"
            \/ buffer = <<>> /\ Separator = <<>> /\ Len(Separator) = 0
<1>1. nil \in BOOLEAN
  BY Zenon DEF BType
<1> QED
  BY <1>1, OneToken, Zenon DEF Separator

(* The chunk in the batch it makes.                                        *)
LEMMA Joined ==
  ASSUME BType, nil => buffer = <<>>, NEW t \in Seq(Tokens),
         ~(\E i, j \in 1..Len(t) : i < j /\ t[i] = "--" /\ t[j] = "n")
  PROVE  LET o == Len(buffer) + Len(Separator)
             w == buffer \o Separator \o t
         IN  /\ Within(t, w, o) /\ w \in Seq(Tokens)
             /\ \A i \in 1..Len(buffer) : w[i] = buffer[i]
             /\ Len(Separator) = 1 => w[o] = "n" /\ o = Len(buffer) + 1 /\ Len(buffer) + 1 \in 1..Len(w)
<1> DEFINE b == buffer
           p == Separator
           o == Len(b) + Len(p)
           w == b \o p \o t
<1>1. b \in Seq(Tokens)
  BY Zenon DEF BType
<1>2. /\ p \in Seq(Tokens) /\ Len(p) \in {0, 1} /\ (Len(p) = 1 => p[1] = "n")
      /\ Len(p) = 0 => b = <<>>
  <2>1. /\ p \in Seq(Tokens)
        /\ \/ Len(p) = 1 /\ p[1] = "n"
           \/ b = <<>> /\ Len(p) = 0
    BY SeparatorIs, Zenon
  <2> HIDE DEF b, p
  <2> QED
    BY <2>1
<1>3. \A i, j \in 1..Len(t) : i < j /\ t[i] = "--" => t[j] # "n"
  OBVIOUS
<1> HIDE DEF b, p
<1>4. w \in Seq(Tokens) /\ o \in Nat /\ Len(w) = o + Len(t)
  BY <1>1, <1>2
<1>5. /\ \A i \in 1..Len(b) : w[i] = b[i]
      /\ \A i \in 1..Len(t) : w[o + i] = t[i]
  BY <1>1, <1>2
<1>6. Len(p) = 1 => w[o] = "n" /\ o = Len(b) + 1 /\ Len(b) + 1 \in 1..Len(w)
  <2>1. p \o t \in Seq(Tokens) /\ \A i \in 1..Len(p) : (p \o t)[i] = p[i]
    BY <1>2
  <2> SUFFICES ASSUME Len(p) = 1 PROVE w[o] = "n" /\ o = Len(b) + 1 /\ Len(b) + 1 \in 1..Len(w)
    OBVIOUS
  <2>2. o = Len(b) + 1 /\ Len(b) + 1 \in 1..Len(w)
    BY <1>1, <1>4
  <2>3. (p \o t)[1] = p[1]
    BY <2>1
  <2>4. Len(p \o t) >= 1
    BY <1>2
  <2>5. (b \o (p \o t))[Len(b) + 1] = (p \o t)[1]
    <3> DEFINE u == p \o t
    <3>1. u \in Seq(Tokens) /\ Len(u) >= 1
      BY <2>1, <2>4
    <3> HIDE DEF u
    <3>2. (b \o u)[Len(b) + 1] = u[1]
      BY <1>1, <3>1
    <3> QED
      BY <3>2 DEF u
  <2>6. b \o p \o t = b \o (p \o t)
    BY <1>1, <1>2
  <2> QED
    BY <1>2, <2>2, <2>3, <2>6, <2>5
<1>7. Nth(w, o) \in {"n", "end"}
  <2>1. CASE Len(p) = 1
    <3>1. o \in 1..Len(w) /\ w[o] = "n"
      BY <1>6, <2>1
    <3> QED
      BY <3>1 DEF Nth
  <2>2. CASE Len(p) = 0
    <3>1. Len(b) = 0
      BY <1>2, <2>2
    <3>2. o = 0
      BY <2>2, <3>1
    <3>3. o \notin 1..Len(w)
      BY <3>2
    <3> QED
      BY <3>3 DEF Nth
  <2> QED
    BY <1>2, <2>1, <2>2
<1> HIDE DEF o, w
<1>8. Within(t, w, o)
  BY <1>3, <1>4, <1>5, <1>7 DEF Within
<1> QED
  BY <1>4, <1>5, <1>6, <1>8, Zenon DEF b, p, o, w

(* Behind the separator nothing is entered half.                           *)
LEMMA BehindSeparator ==
  ASSUME BInv, ~swallowed, NEW t \in Seq(Tokens),
         NEW o, o = Len(buffer) + Len(Separator), NEW w, w = buffer \o Separator \o t,
         Within(t, w, o), \A i \in 1..Len(buffer) : w[i] = buffer[i],
         Len(Separator) = 1 => w[o] = "n" /\ o = Len(buffer) + 1 /\ Len(buffer) + 1 \in 1..Len(w)
  PROVE  Shows(Modes(w, parse)[o], quote, comment) /\ Modes(w, parse)[o] \in {"code", "comment"} \cup Marks
<1> DEFINE n == Len(buffer)
           M == Modes(w, parse)
<1>1. /\ buffer \in Seq(Tokens) /\ (nil => buffer = <<>>)
      /\ Shows(Modes(buffer, parse)[n], quote, comment)
  BY Zenon DEF BInv, BType, Follows
<1>2. n \in Nat /\ o \in Nat /\ w \in Seq(Tokens) /\ Len(t) \in Nat /\ Len(w) = o + Len(t)
  <2>1. o \in Nat /\ w \in Seq(Tokens) /\ Len(t) \in Nat /\ Len(w) = o + Len(t)
    BY WithinIs, Zenon
  <2> QED
    BY <1>1, <2>1
<1>3. /\ M[0] = "code" /\ Modes(buffer, parse)[0] = "code"
      /\ \A k \in 1..Len(w) : M[k] = NextMode(w, k, M[k - 1], parse)
  BY <1>1, <1>2, ModesAre
<1>4. \/ Len(Separator) = 1
      \/ buffer = <<>> /\ Len(Separator) = 0
  BY SeparatorIs DEF BInv
<1>5. CASE buffer = <<>> /\ Len(Separator) = 0
  <2>1. n = 0 /\ o = 0
    BY <1>5
  <2>2. M[o] = "code" /\ Modes(buffer, parse)[n] = "code"
    BY <1>3, <2>1
  <2> HIDE DEF M
  <2>3. M[o] \in {"code", "comment"} \cup Marks
    BY <2>2
  <2>4. Shows(M[o], quote, comment)
    BY <1>1, <2>2, Zenon
  <2> QED
    BY <2>3, <2>4, Zenon DEF M
<1>6. CASE Len(Separator) = 1
  <2> DEFINE m == Modes(buffer, parse)[n]
  <2>1. w[o] = "n" /\ o = n + 1 /\ o \in 1..Len(w) /\ o - 1 = n
    BY <1>2, <1>6
  <2>2. M[n] = m
    <3>1. Nth(w, n + 1) = "n"
      BY <2>1 DEF Nth
    <3>2. Nth(w, n + 1) \notin {"*", "]"} /\ n <= Len(w)
      BY <1>2, <2>1, <3>1
    <3> QED
      <4>1. SameMode(w, buffer, parse)
        BY <1>1, <1>2, <3>2, ModeThere, Zenon
      <4> QED
        BY <4>1, Zenon DEF SameMode
  <2>3. M[o] = NextMode(w, o, m, parse)
    <3>1. M[o] = NextMode(w, o, M[o - 1], parse)
      BY <1>3, <2>1, Zenon
    <3> HIDE DEF M, m, n
    <3> QED
      BY <2>1, <2>2, <3>1
  <2> HIDE DEF M, m, n
  <2>4. /\ m \in Between
        /\ quote = (IF m \in Marks THEN m ELSE NoQuote) /\ (comment <=> m \in {"fresh", "comment"})
    BY <1>1, Zenon DEF Shows, m
  <2>5. NextMode(w, o, m, parse) = IF m \in {"fresh", "comment"} THEN "comment"
                                   ELSE IF m \in Marks THEN m ELSE "code"
    <3>1. m \in Between
      BY <2>4
    <3> HIDE DEF Follows
    <3> QED
      BY <2>1, <3>1 DEF NextMode, Between, Marks, Ends, Paired
  <2>6. \/ M[o] = "comment" /\ m \in {"fresh", "comment"} /\ m \notin Marks /\ "comment" \notin Marks
        \/ M[o] = m /\ m \in Marks /\ m \notin {"fresh", "comment"}
        \/ M[o] = "code" /\ m \notin Marks /\ m \notin {"fresh", "comment"} /\ "code" \notin Marks
    <3>1. "comment" \notin Marks /\ "code" \notin Marks /\ "fresh" \notin Marks
      BY DEF Marks
    <3> QED
      BY <2>3, <2>5, <3>1, Zenon
  <2>7. M[o] \in {"code", "comment"} \cup Marks
    BY <2>6, Zenon
  <2>8. M[o] \in Between
    BY <2>7, Zenon DEF Between
  <2>9. Shows(M[o], quote, comment)
    BY <2>4, <2>6, <2>8, Zenon DEF Shows
  <2> QED
    BY <2>7, <2>9, Zenon DEF M
<1> QED
  BY <1>4, <1>5, <1>6

LEMMA ShowsIs ==
  ASSUME NEW M, NEW q \in Marks \cup {""}, NEW c,
         q # "" => q \in Marks /\ ~c /\ M = q,
         c => M \in {"fresh", "comment"},
         q = "" /\ ~c => M \in {"code", "line"}
  PROVE  Shows(M, q, c)
<1>1. /\ "comment" \notin Marks /\ "fresh" \notin Marks /\ "code" \notin Marks /\ "line" \notin Marks
      /\ {"code", "line"} \cap {"fresh", "comment"} = {}
      /\ Marks \cap {"fresh", "comment"} = {}
  BY DEF Marks
<1>2. "" \notin Marks
  BY Zenon DEF Marks
<1>3. CASE q # ""
  BY <1>1, <1>3, Zenon DEF Shows, Between
<1>4. CASE q = "" /\ c
  BY <1>1, <1>4, Zenon DEF Shows, Between, NoQuote
<1>5. CASE q = "" /\ ~c
  BY <1>1, <1>5, Zenon DEF Shows, Between, NoQuote
<1> QED
  BY <1>3, <1>4, <1>5, Zenon

(* Where the scan of a chunk starts in the batch it makes.                 *)
LEMMA ChunkStarts ==
  ASSUME BInv, ~swallowed, NEW t \in Seq(Tokens),
         ~(\E i, j \in 1..Len(t) : i < j /\ t[i] = "--" /\ t[j] = "n"),
         NEW w, w = buffer \o Separator \o t
  PROVE  LET o == Len(buffer) + Len(Separator)
         IN  /\ Within(t, w, o) /\ w \in Seq(Tokens)
             /\ \A i \in 1..Len(buffer) : w[i] = buffer[i]
             /\ Len(Separator) = 1 => w[o] = "n" /\ o = Len(buffer) + 1 /\ Len(buffer) + 1 \in 1..Len(w)
             /\ Agrees(t, w, o, ScanStart(quote, comment), quote, comment)
<1> DEFINE o == Len(buffer) + Len(Separator)
<1>1. quote \in Marks \cup {NoQuote} /\ comment \in BOOLEAN /\ BType /\ (nil => buffer = <<>>)
  BY Zenon DEF BInv, BType
<1>2. /\ Within(t, w, o) /\ w \in Seq(Tokens)
      /\ \A i \in 1..Len(buffer) : w[i] = buffer[i]
      /\ Len(Separator) = 1 => w[o] = "n" /\ o = Len(buffer) + 1 /\ Len(buffer) + 1 \in 1..Len(w)
  BY <1>1, Joined, Zenon
<1> DEFINE m == Modes(w, parse)[o]
<1>3. Shows(m, quote, comment) /\ m \in {"code", "comment"} \cup Marks
  BY <1>2, BehindSeparator, Zenon
<1>4. Len(t) \in Nat /\ o \in Nat /\ Len(w) = o + Len(t)
  BY <1>2, WithinIs, Zenon
<1> DEFINE s == ScanStart(quote, comment)
<1>5. Agrees(t, w, o, s, quote, comment)
  <2>1. s \in Scans
    <3>1. /\ 1 \in Nat /\ {} \in SUBSET Nat /\ FALSE \in BOOLEAN
          /\ "text" \in {"text", "fails", "command"}
      OBVIOUS
    <3> QED
      BY <1>1, <3>1, Zenon DEF ScanStart, Scans, NoQuote
  <2>2. s.at = 1 /\ s.quote = quote /\ s.comment = comment /\ s.end = "text"
    BY Zenon DEF ScanStart
  <2> HIDE DEF s
  <2>3. s.at # 0 /\ s.at \in 1..(Len(t) + 1) /\ s.end # "command" /\ o + s.at - 1 = o
    BY <1>4, <2>2
  <2>4. Modes(w, parse)[o + s.at - 1] = m
    BY <2>3
  <2> HIDE DEF m, o
  <2>5. /\ s.quote # "" => s.quote \in Marks /\ ~s.comment /\ m = s.quote
        /\ s.comment => m = "fresh" \/ (m = "comment" /\ (s.at = 1 \/ s.at > Len(t)))
        /\ s.quote = "" /\ ~s.comment => m = "code" \/ (m = "line" /\ s.at > Len(t))
    <3>1. quote = (IF m \in Marks THEN m ELSE NoQuote) /\ (comment <=> m \in {"fresh", "comment"})
      BY <1>3, Zenon DEF Shows
    <3>2. "comment" \notin Marks /\ "fresh" \notin Marks
      BY DEF Marks
    <3>3. "" \notin Marks
      BY Zenon DEF Marks
    <3>4. m \in {"code", "comment"} \cup Marks
      BY <1>3
    <3> QED
      BY <2>2, <3>1, <3>2, <3>3, <3>4, Zenon DEF NoQuote
  <2> QED
    BY <2>1, <2>2, <2>3, <2>4, <2>5, Zenon DEF Agrees
<1> QED
  BY <1>2, <1>5, Zenon

(* A chunk that becomes part of the batch.                                 *)
LEMMA TextFollows ==
  ASSUME BInv, ~swallowed, NEW t \in Seq(Tokens),
         ~(\E i, j \in 1..Len(t) : i < j /\ t[i] = "--" /\ t[j] = "n"),
         NEW r, r = Scan(t, quote, comment), r.end = "text",
         NEW w, w = buffer \o Separator \o t
  PROVE  Shows(Modes(w, parse)[Len(w)], r.quote, r.comment)
<1> DEFINE o == Len(buffer) + Len(Separator)
<1>1. quote \in Marks \cup {NoQuote} /\ comment \in BOOLEAN
  BY Zenon DEF BInv, BType
<1>2. /\ Within(t, w, o) /\ w \in Seq(Tokens)
      /\ Agrees(t, w, o, ScanStart(quote, comment), quote, comment)
  BY ChunkStarts, Zenon
<1>3. Len(t) \in Nat /\ o \in Nat /\ Len(w) = o + Len(t)
  BY <1>2, WithinIs, Zenon
<1>4. Agrees(t, w, o, r, quote, comment)
  BY <1>1, <1>2, ScanAgrees, Zenon
<1>5. r \in Scans /\ Done(t, r)
  BY <1>1, ScanEnds, Zenon
<1>6. r.at > Len(t) /\ r.at \in Nat
  BY <1>5, Zenon DEF Done, Scans
<1>7. r.quote \in Marks \cup {""}
  BY <1>5, Zenon DEF Scans
<1> DEFINE M == Modes(w, parse)[Len(w)]
<1> HIDE DEF o
<1>8. CASE r.at = Len(t) + 1
  <2>1. o + r.at - 1 = Len(w)
    BY <1>3, <1>8
  <2>2. Modes(w, parse)[o + r.at - 1] = M
    BY <2>1
  <2>3. r.at # Len(t) + 2
    BY <1>3, <1>8
  <2> HIDE DEF M
  <2>4. /\ r.quote # "" => r.quote \in Marks /\ ~r.comment /\ M = r.quote
        /\ r.comment => M \in {"fresh", "comment"}
        /\ r.quote = "" /\ ~r.comment => M \in {"code", "line"}
    BY <1>4, <2>2, <2>3, Zenon DEF Agrees
  <2> QED
    BY <1>7, <2>4, ShowsIs, Zenon DEF M
<1>9. CASE r.at = Len(t) + 2
  <2>1. r.at \notin 1..(Len(t) + 1)
    BY <1>3, <1>9
  <2>2. r.comment /\ r.quote = "" /\ M = "comment"
    BY <1>3, <1>4, <2>1, Zenon DEF Agrees
  <2> HIDE DEF M
  <2>3. M \in {"fresh", "comment"}
    BY <2>2
  <2> QED
    BY <1>7, <2>2, <2>3, ShowsIs, Zenon DEF M
<1>10. r.at = Len(t) + 2 \/ r.at \in 1..(Len(t) + 1)
  BY <1>4, Zenon DEF Agrees
<1>11. r.at = Len(t) + 1 \/ r.at = Len(t) + 2
  BY <1>3, <1>6, <1>10
<1> QED
  BY <1>8, <1>9, <1>11, Zenon

-----------------------------------------------------------------------------
(* The steps of the reader.                                                *)
LEMMA Emptied ==
  ASSUME Reset, parse' = parse, parse \in BOOLEAN, raw' \in Seq(Tokens)
  PROVE  BInv'
<1>1. /\ buffer' = <<>> /\ nil' = TRUE /\ quote' = NoQuote /\ comment' = FALSE
      /\ swallowed' = FALSE /\ displaced' = FALSE
  BY Zenon DEF Reset, NoQuote
<1>2. <<>> \in Seq(Tokens) /\ Len(<<>>) = 0
  BY OneToken, Zenon
<1>3. Modes(<<>>, parse)[0] = "code"
  BY <1>2, ModesAre, Zenon
<1>4. Shows(Modes(buffer', parse')[Len(buffer')], quote', comment')
  <2>1. "code" \notin Marks /\ "code" \notin {"fresh", "comment"} /\ "code" \in Between
    BY DEF Marks, Between
  <2>2. Modes(buffer', parse')[Len(buffer')] = "code"
    BY <1>1, <1>2, <1>3, Zenon
  <2> QED
    BY <1>1, <2>1, <2>2, Zenon DEF Shows
<1>6. BType'
  BY <1>1, <1>2, Zenon DEF BType
<1>7. Follows'
  BY <1>4, Zenon DEF Follows
<1> QED
  BY <1>1, <1>6, <1>7, Zenon DEF BInv

LEMMA RestIs ==
  ASSUME NEW t \in Seq(Tokens)
  PROVE  SubSeq(t, Min({i \in 1..Len(t) : t[i] = "n"} \cup {Len(t) + 1}), Len(t)) \in Seq(Tokens)
<1> DEFINE S == {i \in 1..Len(t) : t[i] = "n"} \cup {Len(t) + 1}
           k == Min(S)
<1>1. S \subseteq Nat /\ S # {} /\ \A j \in S : j \in 1..(Len(t) + 1)
  OBVIOUS
<1>2. k \in S
  BY <1>1, MinIs
<1>3. k \in 1..(Len(t) + 1)
  BY <1>1, <1>2
<1> HIDE DEF k
<1>4. \A i \in k..Len(t) : t[i] \in Tokens
  BY <1>3
<1>5. SubSeq(t, k, Len(t)) \in Seq(Tokens)
  BY <1>3, <1>4
<1> QED
  BY <1>5 DEF k

LEMMA ChunkKeeps ==
  ASSUME BInv, NEW t \in Seq(Tokens), Process(t), parse' = parse
  PROVE  BInv'
<1> DEFINE r == Scan(t, quote, comment)
           w == buffer \o Separator \o t
           hides == \E i, j \in 1..Len(t) : i < j /\ t[i] = "--" /\ t[j] = "n"
<1>1. /\ parse \in BOOLEAN /\ raw \in Seq(Tokens) /\ buffer \in Seq(Tokens)
      /\ nil \in BOOLEAN /\ quote \in Marks \cup {NoQuote} /\ comment \in BOOLEAN
      /\ swallowed \in BOOLEAN /\ displaced \in BOOLEAN /\ BType /\ (nil => buffer = <<>>) /\ Follows
  BY Zenon DEF BInv, BType
<1>2. r \in Scans
  BY <1>1, ScanEnds, Zenon
<1>3. r.quote \in Marks \cup {NoQuote} /\ r.comment \in BOOLEAN
  BY <1>2, Zenon DEF Scans, NoQuote
<1>4. CASE r.end = "text"
  <2>1. r.end # "fails" /\ r.end # "command"
    BY <1>4
  <2>2. /\ buffer' = w /\ nil' = FALSE /\ raw' = <<>>
        /\ quote' = r.quote /\ comment' = r.comment /\ swallowed' = (swallowed \/ hides)
        /\ displaced' = (displaced \/ (r.refs # {} /\ Inc # Len(Separator)))
    BY <2>1, Zenon DEF Process
  <2>3. w \in Seq(Tokens)
    <3>1. Separator \in Seq(Tokens)
      BY <1>1, SeparatorIs, Zenon
    <3> HIDE DEF BInv
    <3>2. \A u, v \in Seq(Tokens) : u \o v \in Seq(Tokens)
      OBVIOUS
    <3> QED
      BY <1>1, <3>1, <3>2, Zenon
  <2>5. ~swallowed' => Shows(Modes(w, parse)[Len(w)], r.quote, r.comment)
    <3> SUFFICES ASSUME ~swallowed, ~hides PROVE Shows(Modes(w, parse)[Len(w)], r.quote, r.comment)
      BY <2>2, Zenon
    <3> QED
      BY <1>4, TextFollows, Zenon
  <2>6. <<>> \in Seq(Tokens)
    BY OneToken, Zenon
  <2> HIDE DEF r, w, hides
  <2>7. BType'
    BY <1>1, <1>3, <2>2, <2>3, <2>6, Zenon DEF BType
  <2>8. Follows'
    BY <2>2, <2>5, Zenon DEF Follows
  <2> QED
    BY <2>2, <2>7, <2>8, Zenon DEF BInv
<1>5. CASE r.end = "fails"
  <2>1. r.end # "text" /\ r.end # "command"
    BY <1>5
  <2>2. Reset /\ raw' = <<>>
    BY <2>1, Zenon DEF Process
  <2> QED
    BY <1>1, <2>2, OneToken, Emptied, Zenon
<1>6. CASE r.end = "command"
  <2>1. r.end # "text" /\ r.end # "fails"
    BY <1>6
  <2>2. /\ raw' = SubSeq(t, Min({i \in 1..Len(t) : t[i] = "n"} \cup {Len(t) + 1}), Len(t))
        /\ quote' = r.quote /\ comment' = r.comment
        /\ UNCHANGED <<buffer, nil, lineOne, varmap, swallowed, displaced>>
    BY <2>1, Zenon DEF Process
  <2>3. raw' \in Seq(Tokens)
    BY <2>2, RestIs, Zenon
  <2>4. r.quote = quote /\ r.comment = comment
    BY <1>1, <1>6, ScanStops, Zenon
  <2> HIDE DEF r
  <2>5. /\ buffer' = buffer /\ nil' = nil /\ swallowed' = swallowed /\ displaced' = displaced
        /\ quote' = quote /\ comment' = comment
    BY <2>2, <2>4
  <2> QED
    BY <1>1, <2>3, <2>5, Zenon DEF BInv, BType, Follows
<1> QED
  BY <1>2, <1>4, <1>5, <1>6, Zenon DEF Scans

LEMMA TextsAre ==
  Lines \subseteq Seq(Tokens) /\ Scripts \subseteq Seq(Tokens)
<1>1. Seq(STRING) \subseteq Seq(Tokens)
  <2>1. STRING \subseteq Tokens
    BY DEF Tokens
  <2>2. \A S, T : S \subseteq T => Seq(S) \subseteq Seq(T)
    OBVIOUS
  <2> QED
    BY <2>1, <2>2, Zenon
<1> QED
  BY <1>1, TokensAssumption, Zenon

LEMMA BatchKept ==
  BInv /\ [BNext]_bvars => BInv'
<1> SUFFICES ASSUME BInv, [BNext]_bvars PROVE BInv'
  OBVIOUS
<1>1. parse \in BOOLEAN /\ raw \in Seq(Tokens)
  BY Zenon DEF BInv, BType
<1>2. CASE NextLine
  <2>1. parse' = parse
    BY <1>2, Zenon DEF NextLine
  <2>2. PICK t : (t = raw \/ t \in Lines) /\ Process(t)
    BY <1>2, Zenon DEF NextLine
  <2>3. t \in Seq(Tokens)
    BY <1>1, <2>2, TextsAre, Zenon
  <2> QED
    BY <2>1, <2>2, <2>3, ChunkKeeps, Zenon
<1>3. CASE StartScript
  <2>1. parse' = parse
    BY <1>3, Zenon DEF StartScript
  <2>2. PICK t \in Scripts : Reset /\ raw' = t
    BY <1>3, Zenon DEF StartScript
  <2>3. raw' \in Seq(Tokens)
    BY <2>2, TextsAre, Zenon
  <2> QED
    BY <1>1, <2>1, <2>2, <2>3, Emptied, Zenon
<1>4. CASE Go
  <2>1. Reset /\ parse' = parse /\ raw' = <<>>
    BY <1>4, Zenon DEF Go
  <2> QED
    BY <1>1, <2>1, OneToken, Emptied, Zenon
<1>5. CASE ResetCommand
  <2>1. Reset /\ parse' = parse /\ raw' = <<>>
    BY <1>5, Zenon DEF ResetCommand
  <2> QED
    BY <1>1, <2>1, OneToken, Emptied, Zenon
<1>6. CASE Connect \/ FileEnds \/ UNCHANGED bvars
  <2>1. UNCHANGED <<parse, raw, buffer, nil, quote, comment, varmap, swallowed, displaced>>
    BY <1>6 DEF Connect, FileEnds, bvars
  <2> QED
    BY <2>1 DEF BInv, BType, Follows
<1> QED
  BY <1>2, <1>3, <1>4, <1>5, <1>6, Zenon DEF BNext

LEMMA BatchStarts ==
  BInit => BInv
<1> SUFFICES ASSUME BInit PROVE BInv
  OBVIOUS
<1>1. /\ parse \in BOOLEAN /\ raw = <<>> /\ buffer = <<>> /\ nil = TRUE /\ quote = NoQuote
      /\ comment = FALSE /\ swallowed = FALSE /\ displaced = FALSE
  BY Zenon DEF BInit, NoQuote
<1>2. <<>> \in Seq(Tokens) /\ Len(<<>>) = 0
  BY OneToken, Zenon
<1>3. Modes(<<>>, parse)[0] = "code"
  BY <1>2, ModesAre, Zenon
<1>4. "code" \notin Marks /\ "code" \notin {"fresh", "comment"} /\ "code" \in Between
  BY DEF Marks, Between
<1>5. Modes(buffer, parse)[Len(buffer)] = "code"
  BY <1>1, <1>2, <1>3, Zenon
<1>6. Shows(Modes(buffer, parse)[Len(buffer)], quote, comment)
  BY <1>1, <1>4, <1>5, Zenon DEF Shows
<1>8. BType
  BY <1>1, <1>2, Zenon DEF BType
<1> QED
  BY <1>1, <1>6, <1>8, Zenon DEF BInv, Follows

(* Whatever lines and scripts are read, whatever is run or reset between   *)
(* them, the quote and the comment that Next carries from line to line are *)
(* those of the batch's text as a whole.                                   *)
THEOREM TextFollowed ==
  BSpec => []StateFollowsText
<1>1. BInv => StateFollowsText
  BY Zenon DEF BInv, Follows, Shows, StateFollowsText, NoQuote
<1> QED
  BY <1>1, BatchStarts, BatchKept, PTL DEF BSpec

-----------------------------------------------------------------------------
(* The values put in.                                                      *)
Name(t, i)  == SubSeq(t, i + 1, RefEnd(t, i) - 1)
Place(t, i) == [at |-> i, name |-> Name(t, i)]
Places(t)   == {Place(t, i) : i \in References(t)}
Whole(t)    == \A i \in References(t) : RefEnd(t, i) # 0

(* What stands for a reference.                                            *)
Put(t, i) == IF Name(t, i) \in Defined THEN Value ELSE SubSeq(t, i, RefEnd(t, i))

Texts == Seq(Tokens)

LEMMA ValueIs == Value \in Texts
<1>1. STRING \subseteq Tokens
  BY DEF Tokens
<1>2. \A S, T : S \subseteq T => Seq(S) \subseteq Seq(T)
  OBVIOUS
<1> QED
  BY <1>1, <1>2, TokensAssumption, Zenon DEF Texts

LEMMA ReferencesAre ==
  ASSUME NEW t \in Texts, NEW i \in References(t)
  PROVE  i \in 1..Len(t) /\ t[i] = "$("
BY DEF References

LEMMA ReferenceSpans ==
  ASSUME NEW t \in Texts, Whole(t), NEW i \in References(t)
  PROVE  /\ RefEnd(t, i) \in (i + 1)..Len(t) /\ t[RefEnd(t, i)] = ")"
         /\ \A k \in (i + 1)..RefEnd(t, i) : k \notin References(t)
<1> DEFINE e == RefEnd(t, i)
<1>1. i \in 1..Len(t) /\ t \in Seq(Tokens)
  BY ReferencesAre DEF Texts
<1>2. e # 0
  BY DEF Whole
<1>3. /\ e \in (i + 1)..Len(t) /\ t[e] = ")"
      /\ \A j \in (i + 1)..(e - 1) : t[j] \in NameTokens
  BY <1>1, <1>2, RefEndIs
<1> HIDE DEF e
<1>4. \A k \in (i + 1)..e : t[k] # "$("
  <2> SUFFICES ASSUME NEW k \in (i + 1)..e PROVE t[k] # "$("
    OBVIOUS
  <2>1. k = e \/ k \in (i + 1)..(e - 1)
    BY <1>1, <1>3
  <2>2. t[k] \in {")"} \cup NameTokens
    BY <1>3, <2>1
  <2> QED
    BY <2>2 DEF NameTokens
<1>5. \A k \in (i + 1)..e : k \notin References(t)
  BY <1>4, ReferencesAre, Zenon
<1> QED
  BY <1>3, <1>5 DEF e

LEMMA NameIs ==
  ASSUME NEW t \in Texts, Whole(t), NEW i \in References(t)
  PROVE  /\ Name(t, i) \in Texts /\ i + Len(Name(t, i)) + 2 = RefEnd(t, i) + 1
         /\ Put(t, i) \in Texts
         /\ Put(t, i) = IF Name(t, i) \in Defined THEN Value ELSE <<"$(">> \o Name(t, i) \o <<")">>
<1> DEFINE e == RefEnd(t, i)
           m == SubSeq(t, i + 1, e - 1)
<1>1. i \in 1..Len(t) /\ t[i] = "$(" /\ e \in (i + 1)..Len(t) /\ t[e] = ")" /\ Len(t) \in Nat
      /\ t \in Seq(Tokens)
  BY ReferencesAre, ReferenceSpans DEF Texts
<1> HIDE DEF e
<1>2. /\ m \in Seq(Tokens) /\ Len(m) = e - i - 1
      /\ SubSeq(t, i, e) \in Seq(Tokens)
  BY <1>1
<1>3. SubSeq(t, i, e) = <<"$(">> \o m \o <<")">>
  <2>1. SubSeq(t, i, e) = <<t[i]>> \o SubSeq(t, i + 1, e)
    BY <1>1, SubSeqRecursiveFirst
  <2>2. SubSeq(t, i + 1, e) = m \o <<t[e]>>
    <3>1. i + 1 \in 1..Len(t) /\ e \in (i + 1)..Len(t)
      BY <1>1
    <3> QED
      BY <1>1, <3>1, SubSeqRecursiveSecond
  <2>3. <<t[i]>> \in Seq(Tokens) /\ <<t[e]>> \in Seq(Tokens)
    BY <1>1
  <2>4. SubSeq(t, i, e) = <<t[i]>> \o m \o <<t[e]>>
    <3> DEFINE a == <<t[i]>>
               b == <<t[e]>>
    <3> HIDE DEF a, b, m
    <3>1. a \o (m \o b) = (a \o m) \o b
      BY <1>2, <2>3, ConcatAssociative DEF a, b
    <3> QED
      BY <2>1, <2>2, <3>1 DEF a, b
  <2> QED
    BY <1>1, <2>4
<1>4. Name(t, i) = m
  BY DEF Name, e
<1>5. i + Len(m) + 2 = e + 1
  BY <1>1, <1>2
<1>6. Put(t, i) = IF m \in Defined THEN Value ELSE SubSeq(t, i, e)
  BY DEF Put, e, Name
<1> HIDE DEF m
<1> QED
  BY <1>2, <1>3, <1>4, <1>5, <1>6, ValueIs DEF e, Texts

(* Substituted, token after token.                                         *)
SubstitutedBy(t, f) ==
  /\ f \in [1..(Len(t) + 1) -> Texts] /\ f[Len(t) + 1] = <<>>
  /\ \A i \in 1..Len(t) :
       f[i] = IF i \in References(t) /\ Name(t, i) \in Defined THEN Value \o f[RefEnd(t, i) + 1]
              ELSE <<t[i]>> \o f[i + 1]

LEMMA SubstitutedIs ==
  ASSUME NEW t \in Texts, Whole(t), parse
  PROVE  \E f : SubstitutedBy(t, f) /\ Substituted(t) = f[1]
<1> DEFINE n == Len(t)
           X == Texts
           base == <<>>
           named(i) == i \in References(t) /\ Name(t, i) \in Defined
           after(i) == IF named(i) THEN RefEnd(t, i) + 1 ELSE i + 1
           op(i, x) == IF named(i) THEN Value \o x ELSE <<t[i]>> \o x
           next == [i \in 1..n |-> after(i)]
           g == [i \in 1..n |-> [x \in X |-> op(i, x)]]
           Steps(f) == f = [i \in 1..(n + 1) |->
                              IF i > n THEN <<>>
                              ELSE IF i \in References(t) /\ SubSeq(t, i + 1, RefEnd(t, i) - 1) \in Defined
                                THEN Value \o f[RefEnd(t, i) + 1]
                              ELSE <<t[i]>> \o f[i + 1]]
           F == CHOOSE f : Steps(f)
<1>1. n \in Nat /\ t \in Seq(Tokens)
  BY DEF Texts
<1>2. Substituted(t) = F[1]
  BY DEF Substituted
<1>3. base \in X
  BY DEF Texts
<1>4. \A i \in 1..n : after(i) \in (i + 1)..(n + 1)
  <2> SUFFICES ASSUME NEW i \in 1..n PROVE after(i) \in (i + 1)..(n + 1)
    OBVIOUS
  <2>1. CASE named(i)
    <3>1. RefEnd(t, i) \in (i + 1)..n
      BY <2>1, ReferenceSpans
    <3> QED
      BY <1>1, <2>1, <3>1
  <2>2. CASE ~named(i)
    BY <1>1, <2>2
  <2> QED
    BY <2>1, <2>2
<1>5. \A i \in 1..n : \A x \in X : op(i, x) \in X
  <2> SUFFICES ASSUME NEW i \in 1..n, NEW x \in X PROVE op(i, x) \in X
    OBVIOUS
  <2>1. <<t[i]>> \in Seq(Tokens) /\ Value \in Seq(Tokens) /\ x \in Seq(Tokens)
    BY <1>1, ValueIs DEF Texts
  <2>2. \A a, b \in Seq(Tokens) : a \o b \in Seq(Tokens)
    OBVIOUS
  <2>3. Value \o x \in X /\ <<t[i]>> \o x \in X
    BY <2>1, <2>2, Zenon DEF Texts
  <2> QED
    BY <2>3
<1>6. \A f : Steps(f) <=> f = [i \in 1..(n + 1) |-> IF i > n THEN base ELSE op(i, f[after(i)])]
  <2>1. \A f : \A i \in 1..(n + 1) :
          (IF i > n THEN <<>>
           ELSE IF i \in References(t) /\ SubSeq(t, i + 1, RefEnd(t, i) - 1) \in Defined
             THEN Value \o f[RefEnd(t, i) + 1]
           ELSE <<t[i]>> \o f[i + 1])
          = IF i > n THEN base ELSE op(i, f[after(i)])
    BY Zenon DEF Name
  <2> QED
    BY <2>1, Zenon
<1> HIDE DEF n, X, base, op, after, Steps
<1>7. next \in [1..n -> 1..(n + 1)] /\ \A i \in 1..n : next[i] = after(i) /\ next[i] > i
  BY <1>1, <1>4
<1>8. g \in [1..n -> [X -> X]] /\ \A i \in 1..n : \A x \in X : g[i][x] = op(i, x)
  BY <1>5
<1> HIDE DEF next, g
<1>9. \E f : Steps(f)
  <2>1. PICK f : Descends(f, n, X, base, g, next)
    BY <1>1, <1>3, <1>7, <1>8, Descent, Zenon
  <2>2. f \in [1..(n + 1) -> X] /\ f[n + 1] = base /\ \A i \in 1..n : f[next[i]] \in X /\ f[i] = g[i][f[next[i]]]
    BY <1>1, <1>7, <2>1 DEF Descends
  <2>3. \A i \in 1..n : f[i] = op(i, f[after(i)])
    BY <1>7, <1>8, <2>2
  <2>4. f = [i \in 1..(n + 1) |-> IF i > n THEN base ELSE op(i, f[after(i)])]
    BY <1>1, <2>2, <2>3
  <2> QED
    BY <1>6, <2>4
<1>10. Steps(F)
  BY <1>9, Zenon
<1> HIDE DEF F
<1>11. F = [i \in 1..(n + 1) |-> IF i > n THEN base ELSE op(i, F[after(i)])]
  BY <1>6, <1>10
<1>12. F[n + 1] = base /\ \A i \in 1..n : F[i] = op(i, F[after(i)]) /\ next[i] = after(i)
  BY <1>1, <1>7, <1>11
<1>13. F[n + 1] \in X /\ \A i \in 1..n : F[next[i]] \in X => F[i] \in X
  BY <1>3, <1>5, <1>12
<1>14. \A i \in 1..(n + 1) : F[i] \in X
  BY <1>1, <1>7, <1>13, StaysBack
<1>15. F \in [1..(n + 1) -> X]
  BY <1>11, <1>14
<1>16. \A i \in 1..n : op(i, F[after(i)]) =
         IF i \in References(t) /\ Name(t, i) \in Defined THEN Value \o F[RefEnd(t, i) + 1]
         ELSE <<t[i]>> \o F[i + 1]
  BY DEF op, after
<1>17. SubstitutedBy(t, F)
  BY <1>12, <1>15, <1>16 DEF SubstitutedBy, n, X, base
<1> QED
  BY <1>2, <1>17

LEMMA Joins ==
  /\ \A u, v \in Texts : u \o v \in Texts
  /\ \A u, v, x \in Texts : (u \o v) \o x = u \o (v \o x)
  /\ \A u \in Texts : <<>> \o u = u /\ u \o <<>> = u
  /\ \A u \in Texts : \A i, j \in Nat : i >= 1 /\ j <= Len(u) => SubSeq(u, i, j) \in Texts
<1>1. \A u, v \in Texts : u \o v \in Texts
  BY DEF Texts
<1>2. \A u, v, x \in Texts : (u \o v) \o x = u \o (v \o x)
  BY ConcatAssociative DEF Texts
<1>3. \A u \in Texts : <<>> \o u = u /\ u \o <<>> = u
  BY ConcatEmptySeq DEF Texts
<1>4. ASSUME NEW u \in Texts, NEW i \in Nat, NEW j \in Nat, i >= 1, j <= Len(u)
      PROVE  SubSeq(u, i, j) \in Texts
  <2>1. u \in Seq(Tokens) /\ Len(u) \in Nat
    BY DEF Texts
  <2>2. \A k \in i..j : u[k] \in Tokens
    BY <1>4, <2>1
  <2> QED
    BY <2>2, SubSeqProperties DEF Texts
<1> QED
  BY <1>1, <1>2, <1>3, <1>4

(* What stands between references is copied.                               *)
LEMMA Copies ==
  ASSUME NEW t \in Texts, NEW f, SubstitutedBy(t, f), NEW a \in 1..(Len(t) + 1), NEW b \in a..(Len(t) + 1),
         \A k \in a..(b - 1) : k \notin References(t)
  PROVE  f[a] = SubSeq(t, a, b - 1) \o f[b]
<1> DEFINE n == b - a
           Has(i) == f[i] = SubSeq(t, i, b - 1) \o f[b]
           S == {d \in 0..n : Has(b - d)}
<1>1. n \in Nat /\ t \in Seq(Tokens) /\ Len(t) \in Nat /\ b \in 1..(Len(t) + 1) /\ a \in Nat /\ b \in Nat
  BY DEF Texts
<1>2. \A i \in 1..(Len(t) + 1) : f[i] \in Texts
  BY DEF SubstitutedBy
<1>3. Has(b)
  <2>1. SubSeq(t, b, b - 1) = <<>>
    BY <1>1, SubSeqEmpty
  <2>2. <<>> \o f[b] = f[b]
    BY <1>1, <1>2, Joins
  <2> QED
    BY <2>1, <2>2
<1>4. \A i \in a..(b - 1) : Has(i + 1) => Has(i)
  <2> SUFFICES ASSUME NEW i \in a..(b - 1), Has(i + 1) PROVE Has(i)
    OBVIOUS
  <2> DEFINE m == SubSeq(t, i + 1, b - 1)
             h == <<t[i]>>
  <2>1. i \in 1..Len(t) /\ b - 1 \in i..Len(t) /\ i + 1 \in Nat /\ b - 1 \in Nat /\ i + 1 >= 1 /\ b - 1 <= Len(t)
    BY <1>1
  <2>2. f[i] = h \o f[i + 1]
    BY <2>1 DEF SubstitutedBy
  <2>3. SubSeq(t, i, b - 1) = h \o m
    BY <1>1, <2>1, SubSeqRecursiveFirst
  <2>4. m \in Texts
    BY <2>1, Joins
  <2>5. h \in Texts
    BY <1>1, <2>1 DEF Texts
  <2>6. f[b] \in Texts /\ f[i + 1] = m \o f[b]
    BY <1>1, <1>2
  <2> HIDE DEF h, m
  <2>7. h \o (m \o f[b]) = (h \o m) \o f[b]
    BY <2>4, <2>5, <2>6, Joins, Zenon
  <2> QED
    BY <2>2, <2>3, <2>6, <2>7
<1> HIDE DEF Has
<1>5. 0 \in S
  <2>1. b - 0 = b /\ 0 \in 0..n
    BY <1>1
  <2> QED
    BY <1>3, <2>1
<1>6. \A d \in 0..(n - 1) : d \in S => d + 1 \in S
  <2> SUFFICES ASSUME NEW d \in 0..(n - 1), Has(b - d) PROVE d + 1 \in 0..n /\ Has(b - (d + 1))
    OBVIOUS
  <2> DEFINE i == b - (d + 1)
  <2>1. d + 1 \in 0..n /\ i + 1 = b - d /\ i \in a..(b - 1)
    BY <1>1
  <2> HIDE DEF i
  <2>2. Has(i + 1)
    BY <2>1
  <2>3. Has(i)
    BY <1>4, <2>1, <2>2
  <2> QED
    BY <2>1, <2>3 DEF i
<1> HIDE DEF S
<1>7. 0..n \subseteq S
  BY <1>1, <1>5, <1>6, UpTo, Zenon
<1>8. n \in S /\ b - n = a
  BY <1>1, <1>7
<1>9. Has(a)
  BY <1>8 DEF S
<1> QED
  BY <1>9 DEF Has

-----------------------------------------------------------------------------
(* Runnable, reference after reference.                                    *)
Later(t, last) == {i \in References(t) : i >= last}
First(t, last) == CHOOSE i \in Later(t, last) : \A j \in Later(t, last) : i <= j

LEMMA FirstIs ==
  ASSUME NEW t \in Texts, NEW last \in Nat, Later(t, last) # {}
  PROVE  /\ First(t, last) \in References(t) /\ First(t, last) \in last..Len(t) /\ First(t, last) \in 1..Len(t)
         /\ \A j \in Later(t, last) : First(t, last) <= j
         /\ \A k \in last..(First(t, last) - 1) : k \notin References(t)
<1>1. References(t) \subseteq 1..Len(t) /\ Len(t) \in Nat
  BY ReferencesAre DEF Texts
<1>2. Later(t, last) \subseteq Nat
  BY <1>1 DEF Later
<1>3. \E i \in Later(t, last) : \A j \in Later(t, last) : i <= j
  BY <1>2, LeastNatural
<1>4. First(t, last) \in Later(t, last) /\ \A j \in Later(t, last) : First(t, last) <= j
  BY <1>3, Zenon DEF First
<1>5. First(t, last) \in References(t) /\ First(t, last) >= last
  BY <1>4 DEF Later
<1> HIDE DEF First
<1>6. \A k \in last..(First(t, last) - 1) : k \notin References(t)
  <2> SUFFICES ASSUME NEW k \in last..(First(t, last) - 1), k \in References(t) PROVE FALSE
    OBVIOUS
  <2>1. k \in Later(t, last)
    BY DEF Later
  <2>2. First(t, last) <= k
    BY <1>4, <2>1
  <2> QED
    BY <1>1, <1>5, <2>2
<1> QED
  BY <1>1, <1>4, <1>5, <1>6

(* The place chosen is that of the first reference.                        *)
LEMMA ChosenIs ==
  ASSUME NEW t \in Texts, NEW last \in Nat
  PROVE  LET later == {v \in Places(t) : v.at >= last}
             v     == CHOOSE v \in later : \A u \in later : v.at <= u.at
         IN  /\ later = {} <=> Later(t, last) = {}
             /\ later # {} => v = Place(t, First(t, last))
<1> DEFINE later == {v \in Places(t) : v.at >= last}
           v == CHOOSE v \in later : \A u \in later : v.at <= u.at
           i == First(t, last)
<1>1. \A p : p \in later <=> \E j \in Later(t, last) : p = Place(t, j)
  <2>1. \A p : p \in Places(t) <=> \E j \in References(t) : p = Place(t, j)
    BY Zenon DEF Places
  <2>2. \A j : Place(t, j).at = j
    BY DEF Place
  <2>3. \A p : p \in later <=> p \in Places(t) /\ p.at >= last
    OBVIOUS
  <2>4. \A j : j \in Later(t, last) <=> j \in References(t) /\ j >= last
    BY DEF Later
  <2> HIDE DEF later
  <2> QED
    BY <2>1, <2>2, <2>3, <2>4, ZenonT(60)
<1>2. \A j : Place(t, j).at = j
  BY DEF Place
<1> HIDE DEF later
<1>3. later = {} <=> Later(t, last) = {}
  BY <1>1
<1>4. ASSUME later # {} PROVE v = Place(t, i)
  <2>1. i \in Later(t, last) /\ \A j \in Later(t, last) : i <= j
    BY <1>3, <1>4, FirstIs DEF Later
  <2>2. \A j \in Later(t, last) : j \in Nat
    BY ReferencesAre DEF Later
  <2> HIDE DEF i
  <2>3. Place(t, i) \in later /\ \A u \in later : Place(t, i).at <= u.at
    BY <1>1, <1>2, <2>1
  <2>4. v \in later /\ \A u \in later : v.at <= u.at
    BY <2>3, Zenon
  <2> HIDE DEF v
  <2>5. PICK j \in Later(t, last) : v = Place(t, j)
    BY <1>1, <2>4
  <2>6. j <= i /\ i <= j
    <3>1. v.at <= Place(t, i).at
      BY <2>3, <2>4
    <3> QED
      BY <1>2, <2>1, <2>5, <3>1
  <2> QED
    BY <2>1, <2>2, <2>5, <2>6
<1> QED
  BY <1>3, <1>4 DEF later, v, i

RunnableBy(t, f) ==
  /\ f \in [1..(Len(t) + 1) -> Texts]
  /\ \A last \in 1..(Len(t) + 1) :
       f[last] = IF Later(t, last) = {} THEN SubSeq(t, last, Len(t))
                 ELSE SubSeq(t, last, First(t, last) - 1) \o Put(t, First(t, last)) \o f[RefEnd(t, First(t, last)) + 1]

LEMMA RunnableIs ==
  ASSUME NEW t \in Texts, Whole(t)
  PROVE  \E f : RunnableBy(t, f) /\ Runnable(t, Places(t)) = f[1]
<1> DEFINE n == Len(t)
           X == Texts
           base == <<>>
           none(i) == Later(t, i) = {}
           after(i) == IF none(i) THEN n + 1 ELSE RefEnd(t, First(t, i)) + 1
           op(i, x) == IF none(i) THEN SubSeq(t, i, n)
                       ELSE SubSeq(t, i, First(t, i) - 1) \o Put(t, First(t, i)) \o x
           next == [i \in 1..n |-> after(i)]
           g == [i \in 1..n |-> [x \in X |-> op(i, x)]]
           body(f, last) ==
             LET later == {v \in Places(t) : v.at >= last}
                 v     == CHOOSE v \in later : \A w \in later : v.at <= w.at
                 after_ == v.at + Len(v.name) + 2
                 value == IF v.name \in Defined THEN Value ELSE <<"$(">> \o v.name \o <<")">>
             IN  IF later = {} THEN SubSeq(t, last, n)
                               ELSE SubSeq(t, last, v.at - 1) \o value \o f[after_]
           Steps(f) == f = [last \in 1..(n + 1) |-> body(f, last)]
           F == CHOOSE f : Steps(f)
<1>1. n \in Nat /\ t \in Seq(Tokens)
  BY DEF Texts
<1>2. Runnable(t, Places(t)) = F[1]
  BY DEF Runnable
<1>3. base \in X
  BY DEF Texts
<1>4. \A i \in 1..(n + 1) : ~none(i) =>
        /\ First(t, i) \in i..n /\ First(t, i) \in 1..n /\ First(t, i) \in References(t)
        /\ RefEnd(t, First(t, i)) \in (First(t, i) + 1)..n
        /\ First(t, i) + Len(Name(t, First(t, i))) + 2 = RefEnd(t, First(t, i)) + 1
        /\ Put(t, First(t, i)) \in Texts
        /\ Put(t, First(t, i)) = IF Name(t, First(t, i)) \in Defined THEN Value
                                 ELSE <<"$(">> \o Name(t, First(t, i)) \o <<")">>
  <2> SUFFICES ASSUME NEW i \in 1..(n + 1), ~none(i)
               PROVE  /\ First(t, i) \in i..n /\ First(t, i) \in 1..n /\ First(t, i) \in References(t)
                      /\ RefEnd(t, First(t, i)) \in (First(t, i) + 1)..n
                      /\ First(t, i) + Len(Name(t, First(t, i))) + 2 = RefEnd(t, First(t, i)) + 1
                      /\ Put(t, First(t, i)) \in Texts
                      /\ Put(t, First(t, i)) = IF Name(t, First(t, i)) \in Defined THEN Value
                                               ELSE <<"$(">> \o Name(t, First(t, i)) \o <<")">>
    OBVIOUS
  <2>1. First(t, i) \in i..n /\ First(t, i) \in 1..n /\ First(t, i) \in References(t)
    BY <1>1, FirstIs
  <2>2. RefEnd(t, First(t, i)) \in (First(t, i) + 1)..n
    BY <2>1, ReferenceSpans
  <2> QED
    BY <2>1, <2>2, NameIs, Zenon
<1>5. \A i \in 1..n : after(i) \in (i + 1)..(n + 1)
  <2> SUFFICES ASSUME NEW i \in 1..n PROVE after(i) \in (i + 1)..(n + 1)
    OBVIOUS
  <2>1. CASE none(i)
    BY <1>1, <2>1
  <2>2. CASE ~none(i)
    <3>1. First(t, i) \in i..n /\ RefEnd(t, First(t, i)) \in (First(t, i) + 1)..n
      BY <1>1, <1>4, <2>2
    <3> QED
      BY <1>1, <2>2, <3>1
  <2> QED
    BY <2>1, <2>2
<1>6. \A i \in 1..(n + 1) : \A x \in X : op(i, x) \in X
  <2> SUFFICES ASSUME NEW i \in 1..(n + 1), NEW x \in X PROVE op(i, x) \in X
    OBVIOUS
  <2>1. CASE none(i)
    <3>1. SubSeq(t, i, n) \in Texts
      BY <1>1, Joins
    <3> QED
      BY <2>1, <3>1
  <2>2. CASE ~none(i)
    <3>1. First(t, i) \in 1..n /\ Put(t, First(t, i)) \in Texts
      BY <1>4, <2>2
    <3>2. First(t, i) - 1 \in Nat /\ First(t, i) - 1 <= n /\ i >= 1 /\ i \in Nat
      BY <1>1, <3>1
    <3>3. SubSeq(t, i, First(t, i) - 1) \in Texts
      BY <3>2, Joins
    <3>4. SubSeq(t, i, First(t, i) - 1) \o Put(t, First(t, i)) \o x \in Texts
      BY <3>1, <3>3, Joins, Zenon
    <3> QED
      BY <2>2, <3>4
  <2> QED
    BY <2>1, <2>2
<1>7. \A f : Steps(f) <=> f = [i \in 1..(n + 1) |-> op(i, f[after(i)])]
  <2>1. \A f : \A i \in 1..(n + 1) : body(f, i) = op(i, f[after(i)])
    <3> SUFFICES ASSUME NEW f, NEW i \in 1..(n + 1) PROVE body(f, i) = op(i, f[after(i)])
      BY Zenon
    <3> DEFINE later == {v \in Places(t) : v.at >= i}
               v     == CHOOSE v \in later : \A w \in later : v.at <= w.at
               k     == First(t, i)
    <3>1. (later = {} <=> none(i)) /\ (later # {} => v = Place(t, k))
      <4>1. i \in Nat
        BY <1>1
      <4> QED
        BY <4>1, ChosenIs, Zenon
    <3>2. Place(t, k).at = k /\ Place(t, k).name = Name(t, k)
      BY DEF Place
    <3> HIDE DEF v, later
    <3>3. CASE none(i)
      BY <3>1, <3>3 DEF later
    <3>4. CASE ~none(i)
      <4>1. v.at = k /\ v.name = Name(t, k) /\ later # {}
        BY <3>1, <3>2, <3>4, Zenon
      <4>2. /\ k + Len(Name(t, k)) + 2 = RefEnd(t, k) + 1
            /\ Put(t, k) = IF Name(t, k) \in Defined THEN Value ELSE <<"$(">> \o Name(t, k) \o <<")">>
        BY <1>4, <3>4
      <4>3. v.at + Len(v.name) + 2 = after(i) /\ v.at - 1 = k - 1
        BY <3>4, <4>1, <4>2, Zenon
      <4> HIDE DEF k
      <4>4. (IF v.name \in Defined THEN Value ELSE <<"$(">> \o v.name \o <<")">>) = Put(t, k)
        BY <4>1, <4>2, Zenon
      <4>5. op(i, f[after(i)]) = SubSeq(t, i, k - 1) \o Put(t, k) \o f[after(i)]
        BY <3>4, Zenon DEF k
      <4> HIDE DEF after, op
      <4> QED
        BY <4>1, <4>3, <4>4, <4>5, Zenon DEF v, later
    <3> QED
      BY <3>3, <3>4
  <2> HIDE DEF body, op, after
  <2> QED
    BY <2>1
<1>8. none(n + 1)
  <2>1. References(t) \subseteq 1..n
    BY ReferencesAre
  <2> QED
    BY <1>1, <2>1 DEF Later
<1>9. SubSeq(t, n + 1, n) = base
  BY <1>1, SubSeqEmpty
<1>10. \A i \in 1..n : i \in 1..(n + 1)
  BY <1>1
<1>11. \A x : op(n + 1, x) = base
  BY <1>8, <1>9, Zenon
<1> HIDE DEF n, X, base, op, after, Steps
<1>12. next \in [1..n -> 1..(n + 1)] /\ \A i \in 1..n : next[i] = after(i) /\ next[i] > i
  BY <1>1, <1>5
<1>13. g \in [1..n -> [X -> X]] /\ \A i \in 1..n : \A x \in X : g[i][x] = op(i, x)
  BY <1>6, <1>10
<1> HIDE DEF next, g
<1>14. \E f : Steps(f)
  <2>1. PICK f : Descends(f, n, X, base, g, next)
    BY <1>1, <1>3, <1>12, <1>13, Descent, Zenon
  <2>2. f \in [1..(n + 1) -> X] /\ f[n + 1] = base /\ \A i \in 1..n : f[next[i]] \in X /\ f[i] = g[i][f[next[i]]]
    BY <1>1, <1>12, <2>1 DEF Descends
  <2>3. \A i \in 1..n : f[i] = op(i, f[after(i)])
    BY <1>12, <1>13, <2>2
  <2>4. f[n + 1] = op(n + 1, f[after(n + 1)])
    BY <1>11, <2>2
  <2>5. \A i \in 1..(n + 1) : i \in 1..n \/ i = n + 1
    BY <1>1
  <2>6. \A i \in 1..(n + 1) : f[i] = op(i, f[after(i)])
    BY <2>3, <2>4, <2>5
  <2>7. f = [i \in 1..(n + 1) |-> op(i, f[after(i)])]
    BY <2>2, <2>6
  <2> QED
    BY <1>7, <2>7
<1>15. Steps(F)
  BY <1>14, Zenon
<1> HIDE DEF F
<1>16. F = [i \in 1..(n + 1) |-> op(i, F[after(i)])]
  BY <1>7, <1>15
<1>17. \A i \in 1..(n + 1) : F[i] = op(i, F[after(i)])
  BY <1>16
<1>18. F[n + 1] \in X
  BY <1>1, <1>3, <1>11, <1>17
<1>19. \A i \in 1..n : F[next[i]] \in X => F[i] \in X
  BY <1>6, <1>10, <1>12, <1>17
<1>20. \A i \in 1..(n + 1) : F[i] \in X
  BY <1>1, <1>12, <1>18, <1>19, StaysBack
<1>21. F \in [1..(n + 1) -> X]
  BY <1>16, <1>20
<1>22. \A i \in 1..(n + 1) : op(i, F[after(i)]) =
         IF Later(t, i) = {} THEN SubSeq(t, i, Len(t))
         ELSE SubSeq(t, i, First(t, i) - 1) \o Put(t, First(t, i)) \o F[RefEnd(t, First(t, i)) + 1]
  BY Zenon DEF op, after, n
<1>23. RunnableBy(t, F)
  BY <1>17, <1>21, <1>22 DEF RunnableBy, n, X
<1> QED
  BY <1>2, <1>23

(* At a reference stands what is put in for it.                            *)
LEMMA PutsIn ==
  ASSUME NEW t \in Texts, Whole(t), NEW f, SubstitutedBy(t, f), NEW k \in References(t)
  PROVE  RefEnd(t, k) + 1 \in (k + 1)..(Len(t) + 1) /\ f[k] = Put(t, k) \o f[RefEnd(t, k) + 1]
<1> DEFINE e == RefEnd(t, k)
<1>1. /\ k \in 1..Len(t) /\ Len(t) \in Nat /\ t \in Seq(Tokens) /\ e \in (k + 1)..Len(t)
      /\ \A i \in (k + 1)..e : i \notin References(t)
  BY ReferencesAre, ReferenceSpans DEF Texts
<1> HIDE DEF e
<1>2. e + 1 \in (k + 1)..(Len(t) + 1)
  BY <1>1
<1>3. CASE Name(t, k) \in Defined
  BY <1>1, <1>2, <1>3 DEF SubstitutedBy, Put, e
<1>4. CASE Name(t, k) \notin Defined
  <2> DEFINE h == <<t[k]>>
             m == SubSeq(t, k + 1, e)
             x == f[e + 1]
  <2>1. f[k] = h \o f[k + 1]
    BY <1>1, <1>4 DEF SubstitutedBy
  <2>2. k + 1 \in 1..(Len(t) + 1) /\ e + 1 \in (k + 1)..(Len(t) + 1) /\ (e + 1) - 1 = e
        /\ k + 1 \in Nat /\ k + 1 >= 1 /\ e \in Nat /\ e <= Len(t) /\ e \in k..Len(t)
        /\ e + 1 \in 1..(Len(t) + 1)
    BY <1>1
  <2>3. \A i \in (k + 1)..((e + 1) - 1) : i \notin References(t)
    BY <1>1, <2>2
  <2>4. f[k + 1] = m \o x
    <3>1. f[k + 1] = SubSeq(t, k + 1, (e + 1) - 1) \o f[e + 1]
      BY <2>2, <2>3, Copies, Zenon
    <3> QED
      BY <2>2, <3>1
  <2>5. SubSeq(t, k, e) = h \o m
    BY <1>1, <2>2, SubSeqRecursiveFirst
  <2>6. h \in Texts /\ m \in Texts /\ x \in Texts
    <3>1. h \in Texts
      BY <1>1 DEF Texts
    <3>2. m \in Texts
      BY <2>2, Joins
    <3>3. x \in Texts
      BY <2>2 DEF SubstitutedBy
    <3> QED
      BY <3>1, <3>2, <3>3
  <2>7. Put(t, k) = SubSeq(t, k, e)
    BY <1>4 DEF Put, e
  <2> HIDE DEF h, m, x
  <2>8. h \o (m \o x) = (h \o m) \o x
    BY <2>6, Joins, Zenon
  <2>9. f[k] = Put(t, k) \o x
    BY <2>1, <2>4, <2>5, <2>7, <2>8
  <2> QED
    BY <1>2, <2>9 DEF x, e
<1> QED
  BY <1>3, <1>4

(* The query made of a text and the places of its references is the text   *)
(* with the references replaced.                                           *)
LEMMA RunnableRight ==
  ASSUME NEW t \in Texts, Whole(t), parse
  PROVE  Runnable(t, Places(t)) = Substituted(t)
<1> DEFINE n == Len(t)
<1>1. PICK f : SubstitutedBy(t, f) /\ Substituted(t) = f[1]
  BY SubstitutedIs
<1>2. PICK g : RunnableBy(t, g) /\ Runnable(t, Places(t)) = g[1]
  BY RunnableIs
<1>3. n \in Nat /\ t \in Seq(Tokens)
  BY DEF Texts
<1> DEFINE S == {i \in 1..(n + 1) : g[i] # f[i]}
<1>4. SUFFICES ASSUME S # {} PROVE FALSE
  <2>1. 1 \in 1..(n + 1)
    BY <1>3
  <2> QED
    BY <1>1, <1>2, <2>1
<1>5. S \subseteq Int /\ n + 1 \in Int /\ \A m \in S : m <= n + 1
  BY <1>3
<1>6. PICK i \in S : \A m \in S : i >= m
  <2> HIDE DEF S
  <2> QED
    BY <1>4, <1>5, Greatest
<1>7. /\ i \in 1..(n + 1) /\ g[i] # f[i] /\ i \in Nat /\ i >= 1 /\ n + 1 \in i..(n + 1) /\ (n + 1) - 1 = n
      /\ \A j \in (i + 1)..(n + 1) : g[j] = f[j]
  <2>1. ASSUME NEW j \in (i + 1)..(n + 1), g[j] # f[j] PROVE FALSE
    <3>1. j \in S /\ i >= j
      BY <1>3, <1>6, <2>1
    <3> QED
      BY <1>3, <1>6, <3>1
  <2> QED
    BY <1>3, <1>6, <2>1
<1>8. \A j \in 1..(n + 1) : f[j] \in Texts
  BY <1>1 DEF SubstitutedBy
<1> HIDE DEF S
<1>9. CASE Later(t, i) = {}
  <2>1. \A k \in i..((n + 1) - 1) : k \notin References(t)
    BY <1>3, <1>7, <1>9 DEF Later
  <2>2. f[i] = SubSeq(t, i, (n + 1) - 1) \o f[n + 1]
    BY <1>1, <1>7, <2>1, Copies, Zenon
  <2>3. f[n + 1] = <<>>
    BY <1>1 DEF SubstitutedBy
  <2>4. SubSeq(t, i, n) \in Texts
    BY <1>3, <1>7, Joins
  <2>5. f[i] = SubSeq(t, i, n)
    BY <1>7, <2>2, <2>3, <2>4, Joins
  <2>6. g[i] = SubSeq(t, i, n)
    BY <1>2, <1>7, <1>9 DEF RunnableBy
  <2> QED
    BY <1>7, <2>5, <2>6
<1>10. CASE Later(t, i) # {}
  <2> DEFINE k == First(t, i)
             e == RefEnd(t, k)
             a == SubSeq(t, i, k - 1)
             v == Put(t, k)
             x == f[e + 1]
  <2>1. /\ k \in References(t) /\ k \in i..n /\ k \in 1..n
        /\ \A j \in i..(k - 1) : j \notin References(t)
    BY <1>7, <1>10, FirstIs, Zenon
  <2>2. e + 1 \in (k + 1)..(n + 1) /\ f[k] = v \o x
    BY <1>1, <2>1, PutsIn, Zenon
  <2>3. g[i] = a \o v \o g[e + 1]
    BY <1>2, <1>7, <1>10 DEF RunnableBy
  <2> HIDE DEF k, e
  <2>4. k \in i..(n + 1) /\ k - 1 \in Nat /\ k - 1 <= n /\ e + 1 \in (i + 1)..(n + 1) /\ e + 1 \in 1..(n + 1)
    BY <1>3, <1>7, <2>1, <2>2
  <2>5. f[i] = a \o f[k]
    <3>1. i \in 1..(Len(t) + 1) /\ k \in i..(Len(t) + 1) /\ SubstitutedBy(t, f)
      BY <1>1, <1>7, <2>4
    <3>2. \A j \in i..(k - 1) : j \notin References(t)
      BY <2>1
    <3> QED
      BY <3>1, <3>2, Copies, Zenon
  <2>6. a \in Texts /\ v \in Texts /\ x \in Texts
    <3>1. a \in Texts
      BY <1>7, <2>4, Joins
    <3>2. v \in Texts
      BY <2>1, NameIs, Zenon
    <3>3. x \in Texts
      BY <1>8, <2>4
    <3> QED
      BY <3>1, <3>2, <3>3
  <2>7. g[e + 1] = x
    BY <1>7, <2>4
  <2> HIDE DEF a, v, x
  <2>8. a \o (v \o x) = (a \o v) \o x
    BY <2>6, Joins, Zenon
  <2> QED
    BY <1>7, <2>2, <2>3, <2>5, <2>7, <2>8
<1> QED
  BY <1>9, <1>10

-----------------------------------------------------------------------------
(* A scan has noted the references it is past, all of them complete.       *)
Met(t, w, o, i) ==
  i \in 1..Len(t) /\ t[i] = "$(" /\ Modes(w, parse)[o + i - 1] \in Marks \cup {"code"}

Collects(t, w, o, s) ==
  s.end = "text" => /\ \A i : i \in s.refs <=> Met(t, w, o, i) /\ i < s.at
                    /\ \A i \in s.refs : RefEnd(t, i) # 0

LEMMA Passed ==
  ASSUME NEW t, NEW w, NEW o, Len(t) \in Nat, NEW s, Collects(t, w, o, s), s.end = "text",
         NEW i \in Nat, s.at = i, NEW r, NEW j \in Nat, r.at = j, i <= j, r.refs = s.refs,
         \A k \in i..(j - 1) : ~Met(t, w, o, k)
  PROVE  Collects(t, w, o, r)
<1>1. \A k : Met(t, w, o, k) => k \in 1..Len(t)
  BY DEF Met
<1>2. \A k \in 1..Len(t) : k < i \/ k \in i..(j - 1) \/ ~(k < j)
  OBVIOUS
<1>3. \A k \in 1..Len(t) : k < i => k < j
  OBVIOUS
<1>4. \A k : k \in s.refs <=> Met(t, w, o, k) /\ k < i
  BY Zenon DEF Collects
<1>5. \A k : k \in r.refs <=> Met(t, w, o, k) /\ k < j
  BY <1>1, <1>2, <1>3, <1>4, Zenon
<1> QED
  BY <1>5, Zenon DEF Collects

LEMMA ToRefs ==
  ASSUME NEW s \in Scans, NEW j \in Nat
  PROVE  To(s, j) \in Scans /\ To(s, j).at = j /\ To(s, j).refs = s.refs
<1>1. To(s, j) \in Scans
  BY ToType
<1> QED
  BY <1>1, Zenon DEF To, Scans

LEMMA CollectsScanned ==
  ASSUME NEW t, NEW w, NEW o, NEW s \in Scans, Collects(t, w, o, s)
  PROVE  Collects(t, w, o, [s EXCEPT !.scanned = TRUE])
<1> DEFINE r == [s EXCEPT !.scanned = TRUE]
<1>1. r.at = s.at /\ r.refs = s.refs /\ r.end = s.end
  BY Zenon DEF Scans
<1> HIDE DEF r
<1>2. Collects(t, w, o, r)
  BY <1>1, Zenon DEF Collects
<1> QED
  BY <1>2 DEF r

(* One token further.                                                      *)
LEMMA PassedOne ==
  ASSUME NEW t, NEW w, NEW o, Len(t) \in Nat, NEW s, Collects(t, w, o, s), s.end = "text",
         NEW i \in Nat, s.at = i, NEW r, r.at = i + 1, r.refs = s.refs, t[i] # "$("
  PROVE  Collects(t, w, o, r)
<1>1. i + 1 \in Nat /\ i <= i + 1 /\ \A k \in i..((i + 1) - 1) : k = i
  OBVIOUS
<1>2. ~Met(t, w, o, i)
  BY DEF Met
<1>3. \A k \in i..((i + 1) - 1) : ~Met(t, w, o, k)
  BY <1>1, <1>2, Zenon
<1> QED
  BY <1>1, <1>3, Passed, Zenon

LEMMA PassedTwo ==
  ASSUME NEW t, NEW w, NEW o, Len(t) \in Nat, NEW s, Collects(t, w, o, s), s.end = "text",
         NEW i \in Nat, s.at = i, NEW r, r.at = i + 2, r.refs = s.refs, t[i] # "$(", t[i + 1] # "$("
  PROVE  Collects(t, w, o, r)
<1>1. i + 2 \in Nat /\ i <= i + 2 /\ \A k \in i..((i + 2) - 1) : k = i \/ k = i + 1
  OBVIOUS
<1>2. ~Met(t, w, o, i) /\ ~Met(t, w, o, i + 1)
  BY DEF Met
<1>3. \A k \in i..((i + 2) - 1) : ~Met(t, w, o, k)
  BY <1>1, <1>2, Zenon
<1> QED
  BY <1>1, <1>3, Passed, Zenon

LEMMA WithRefCollects ==
  ASSUME NEW t, NEW w, NEW o, Within(t, w, o), NEW s \in Scans, Collects(t, w, o, s), s.end = "text",
         NEW i \in 1..Len(t), s.at = i, IsRef(t, i),
         NEW m \in Marks \cup {"code"}, Modes(w, parse)[o + i - 1] = m
  PROVE  Collects(t, w, o, WithRef(t, s))
<1> DEFINE e == RefEnd(t, i)
<1>1. t \in Seq(Tokens) /\ Len(t) \in Nat
  BY WithinIs, Zenon
<1>2. CASE e = 0
  <2>1. WithRef(t, s).end = "fails"
    BY <1>2, Zenon DEF WithRef, Scans
  <2>2. WithRef(t, s).end # "text"
    BY <2>1
  <2> QED
    BY <2>2, Zenon DEF Collects
<1>3. CASE e # 0
  <2> DEFINE r == WithRef(t, s)
  <2>1. r.at = e + 1 /\ r.refs = s.refs \cup {i}
    BY <1>3, Zenon DEF WithRef, Scans
  <2>2. e \in (i + 1)..Len(t) /\ t[e] = ")" /\ \A j \in (i + 1)..(e - 1) : t[j] \in NameTokens
    BY <1>1, <1>3, RefEndIs
  <2> HIDE DEF r, e
  <2>3. \A k \in (i + 1)..e : ~Met(t, w, o, k)
    <3> SUFFICES ASSUME NEW k \in (i + 1)..e PROVE t[k] # "$("
      BY DEF Met
    <3>1. k = e \/ k \in (i + 1)..(e - 1)
      BY <1>1, <2>2
    <3>2. t[k] \in {")"} \cup NameTokens
      BY <2>2, <3>1
    <3> QED
      BY <3>2 DEF NameTokens
  <2>4. Met(t, w, o, i)
    BY DEF Met, IsRef
  <2>5. \A k : Met(t, w, o, k) => k \in 1..Len(t)
    BY DEF Met
  <2>6. \A k \in 1..Len(t) : (k < e + 1) <=> (k < i \/ k = i \/ k \in (i + 1)..e)
    BY <1>1, <2>2
  <2>7. \A k : k \in s.refs <=> Met(t, w, o, k) /\ k < i
    BY Zenon DEF Collects
  <2>8. \A k : k \in r.refs <=> k \in s.refs \/ k = i
    BY <2>1
  <2>9. \A k : k \in r.refs <=> Met(t, w, o, k) /\ k < e + 1
    BY <2>3, <2>4, <2>5, <2>6, <2>7, <2>8, Zenon
  <2>10. \A k \in r.refs : RefEnd(t, k) # 0
    <3>1. \A k \in s.refs : RefEnd(t, k) # 0
      BY Zenon DEF Collects
    <3> QED
      BY <1>3, <2>8, <3>1, Zenon DEF e
  <2>11. Collects(t, w, o, r)
    BY <2>1, <2>9, <2>10, Zenon DEF Collects
  <2> QED
    BY <2>11 DEF r
<1> QED
  BY <1>2, <1>3

LEMMA ReadStringCollects ==
  ASSUME parse, NEW t, NEW w, NEW o, Within(t, w, o), NEW s \in Scans, Collects(t, w, o, s), s.end = "text",
         NEW i \in 1..Len(t), s.at = i, NEW m \in Marks, s.quote = m, Modes(w, parse)[o + i - 1] = m
  PROVE  Collects(t, w, o, ReadString(t, s))
<1>1. Len(t) \in Nat /\ i \in Nat /\ i + 1 \in Nat /\ i + 2 \in Nat
  BY WithinIs
<1>2. /\ To(s, i + 1).at = i + 1 /\ To(s, i + 1).refs = s.refs
      /\ To(s, i + 2).at = i + 2 /\ To(s, i + 2).refs = s.refs
      /\ [To(s, i + 1) EXCEPT !.quote = ""].at = i + 1
      /\ [To(s, i + 1) EXCEPT !.quote = ""].refs = s.refs
  <2>1. /\ To(s, i + 1) \in Scans /\ To(s, i + 1).at = i + 1 /\ To(s, i + 1).refs = s.refs
        /\ To(s, i + 2).at = i + 2 /\ To(s, i + 2).refs = s.refs
    BY <1>1, ToRefs, Zenon
  <2> QED
    BY <2>1, Zenon DEF Scans
<1>3. ~IsRef(t, i) => t[i] # "$("
  BY DEF IsRef
<1>4. Ends(m) # "$(" /\ Ends(m) # "end"
  BY DEF Ends, Marks
<1>5. CASE IsRef(t, i)
  BY <1>5, WithRefCollects, Zenon DEF ReadString
<1>6. CASE ~IsRef(t, i) /\ t[i] # Ends(m)
  <2>1. ReadString(t, s) = To(s, i + 1)
    BY <1>6, Zenon DEF ReadString
  <2> QED
    BY <1>1, <1>2, <1>3, <1>6, <2>1, PassedOne, Zenon
<1>7. CASE ~IsRef(t, i) /\ t[i] = Ends(m) /\ m \in {"'", "["} /\ Nth(t, i + 1) = Ends(m)
  <2>1. ReadString(t, s) = To(s, i + 2)
    BY <1>7, Zenon DEF ReadString
  <2>2. t[i + 1] # "$("
    BY <1>4, <1>7 DEF Nth
  <2> QED
    BY <1>1, <1>2, <1>3, <1>7, <2>1, <2>2, PassedTwo, Zenon
<1>8. CASE ~IsRef(t, i) /\ t[i] = Ends(m) /\ ~(m \in {"'", "["} /\ Nth(t, i + 1) = Ends(m))
  <2>1. ReadString(t, s) = [To(s, i + 1) EXCEPT !.quote = ""]
    BY <1>8, Zenon DEF ReadString
  <2> DEFINE r == ReadString(t, s)
  <2>2. r.at = i + 1 /\ r.refs = s.refs
    BY <1>2, <2>1, Zenon
  <2> HIDE DEF r
  <2>3. Collects(t, w, o, r)
    BY <1>1, <1>3, <1>8, <2>2, PassedOne, Zenon
  <2> QED
    BY <2>3 DEF r
<1> QED
  BY <1>5, <1>6, <1>7, <1>8, Zenon

LEMMA ReadCommentCollects ==
  ASSUME NEW t, NEW w, NEW o, Within(t, w, o), NEW s \in Scans, Collects(t, w, o, s), s.end = "text",
         NEW i \in 1..Len(t), s.at = i,
         \/ Modes(w, parse)[o + i - 1] = "fresh"
         \/ Modes(w, parse)[o + i - 1] = "comment" /\ i = 1
  PROVE  Collects(t, w, o, ReadComment(t, s))
<1> DEFINE e == CommentEnd(t, i)
           late == e > Len(t)
           r == ReadComment(t, s)
<1>1. Len(t) \in Nat /\ i \in Nat /\ o \in Nat
  BY WithinIs
<1>2. e \in (i + 1)..(Len(t) + 1) /\ \A k \in i..(e - 1) : Modes(w, parse)[o + k] = "comment"
  BY PassesComment
<1>3. r = [To(s, e + 1) EXCEPT !.comment = late]
  BY Zenon DEF ReadComment
<1> HIDE DEF r, e, late
<1>4. e + 1 \in Nat /\ i <= e + 1
  BY <1>1, <1>2
<1>5. r.at = e + 1 /\ r.refs = s.refs
  <2>1. To(s, e + 1) \in Scans /\ To(s, e + 1).at = e + 1 /\ To(s, e + 1).refs = s.refs
    BY <1>4, ToRefs, Zenon
  <2> QED
    BY <1>3, <2>1, Zenon DEF Scans
<1>6. \A k \in i..((e + 1) - 1) : ~Met(t, w, o, k)
  <2> SUFFICES ASSUME NEW k \in i..((e + 1) - 1) PROVE Modes(w, parse)[o + k - 1] \notin Marks \cup {"code"}
    BY DEF Met
  <2>1. k = i \/ k - 1 \in i..(e - 1)
    BY <1>1, <1>2
  <2>2. o + k - 1 = o + (k - 1)
    BY <1>1, <1>2
  <2>3. Modes(w, parse)[o + k - 1] \in {"fresh", "comment"}
    BY <1>2, <2>1, <2>2
  <2> QED
    BY <2>3 DEF Marks
<1>7. Collects(t, w, o, r)
  BY <1>1, <1>4, <1>5, <1>6, Passed, Zenon
<1> QED
  BY <1>7 DEF r

(* Behind "--" nothing of the chunk is a reference.                        *)
LEMMA PassesLine ==
  ASSUME NEW t, NEW w, NEW o, Within(t, w, o), NEW i \in 1..Len(t), t[i] = "--",
         Modes(w, parse)[o + i - 1] = "code"
  PROVE  \A k \in i..Len(t) : Modes(w, parse)[o + k] = "line"
<1>1. Len(t) \in Nat /\ o \in Nat
  BY WithinIs, Zenon
<1>2. Modes(w, parse)[o + i] = "line"
  BY NextIs, StepsCode
<1>3. \A k \in (i + 1)..Len(t) : NextMode(w, o + k, "line", parse) = "line"
  <2> SUFFICES ASSUME NEW k \in (i + 1)..Len(t) PROVE NextMode(w, o + k, "line", parse) = "line"
    OBVIOUS
  <2>1. k \in 1..Len(t) /\ i < k
    BY <1>1
  <2>2. t[k] # "n"
    BY <2>1 DEF Within
  <2> QED
    BY <2>1, <2>2, StepsComment
<1> SUFFICES ASSUME NEW k \in i..Len(t) PROVE Modes(w, parse)[o + k] = "line"
  OBVIOUS
<1>4. CASE k = i
  BY <1>2, <1>4
<1>5. CASE k # i
  <2>1. i + 1 \in 1..Len(t) /\ k \in ((i + 1) - 1)..Len(t) /\ o + (i + 1) - 1 = o + i
    BY <1>1, <1>5
  <2>2. Modes(w, parse)[o + (i + 1) - 1] = "line"
    BY <1>2, <2>1
  <2>3. \A j \in (i + 1)..k : j \in (i + 1)..Len(t)
    BY <1>1
  <2>4. \A j \in (i + 1)..k : NextMode(w, o + j, "line", parse) = "line"
    BY <1>3, <2>3, Zenon
  <2> QED
    BY <2>1, <2>2, <2>4, StaysWithin
<1> QED
  BY <1>4, <1>5

LEMMA ReadCodeCollects ==
  ASSUME parse, NEW t, NEW w, NEW o, Within(t, w, o), NEW s \in Scans, Collects(t, w, o, s), s.end = "text",
         NEW i \in 1..Len(t), s.at = i, Modes(w, parse)[o + i - 1] = "code"
  PROVE  Collects(t, w, o, ReadCode(t, s))
<1> DEFINE r == ReadCode(t, s)
<1>1. Len(t) \in Nat /\ o \in Nat /\ i \in Nat /\ i + 1 \in Nat /\ i + 2 \in Nat /\ Len(t) + 1 \in Nat
      /\ i <= Len(t) + 1
  BY WithinIs
<1>2. ~IsRef(t, i) => t[i] # "$("
  BY DEF IsRef
<1>3. CASE t[i] \in Marks
  <2>1. r = [To(s, i + 1) EXCEPT !.quote = t[i]]
    BY <1>3, Zenon DEF ReadCode
  <2>2. t[i] # "$("
    BY <1>3 DEF Marks
  <2> HIDE DEF r
  <2>3. r.at = i + 1 /\ r.refs = s.refs
    <3>1. To(s, i + 1) \in Scans /\ To(s, i + 1).at = i + 1 /\ To(s, i + 1).refs = s.refs
      BY <1>1, ToRefs, Zenon
    <3> QED
      BY <2>1, <3>1, Zenon DEF Scans
  <2>4. Collects(t, w, o, r)
    BY <1>1, <2>2, <2>3, PassedOne, Zenon
  <2> QED
    BY <2>4 DEF r
<1>4. CASE t[i] \notin Marks /\ t[i] = "--"
  <2>1. r = To(s, Len(t) + 1)
    BY <1>4, Zenon DEF ReadCode
  <2> HIDE DEF r
  <2>2. r.at = Len(t) + 1 /\ r.refs = s.refs
    BY <1>1, <2>1, ToRefs, Zenon
  <2>3. \A k \in i..Len(t) : Modes(w, parse)[o + k] = "line"
    BY <1>4, PassesLine, Zenon
  <2>4. \A k \in i..((Len(t) + 1) - 1) : ~Met(t, w, o, k)
    <3> SUFFICES ASSUME NEW k \in i..((Len(t) + 1) - 1)
                 PROVE  t[k] # "$(" \/ Modes(w, parse)[o + k - 1] \notin Marks \cup {"code"}
      BY DEF Met
    <3>1. k = i \/ k - 1 \in i..Len(t)
      BY <1>1
    <3>2. o + k - 1 = o + (k - 1)
      BY <1>1
    <3>3. t[k] = "--" \/ Modes(w, parse)[o + k - 1] = "line"
      BY <1>4, <2>3, <3>1, <3>2
    <3> QED
      BY <3>3 DEF Marks
  <2>5. Collects(t, w, o, r)
    BY <1>1, <2>2, <2>4, Passed, Zenon
  <2> QED
    BY <2>5 DEF r
<1>5. CASE t[i] \notin Marks /\ t[i] # "--" /\ t[i] = "/" /\ Nth(t, i + 1) = "*"
  <2>1. r = [To(s, i + 2) EXCEPT !.comment = TRUE]
    BY <1>5, Zenon DEF ReadCode
  <2> HIDE DEF r
  <2>2. r.at = i + 2 /\ r.refs = s.refs
    <3>1. To(s, i + 2) \in Scans /\ To(s, i + 2).at = i + 2 /\ To(s, i + 2).refs = s.refs
      BY <1>1, ToRefs, Zenon
    <3> QED
      BY <2>1, <3>1, Zenon DEF Scans
  <2>3. t[i] # "$(" /\ t[i + 1] # "$("
    BY <1>5 DEF Nth
  <2>4. Collects(t, w, o, r)
    BY <1>1, <2>2, <2>3, PassedTwo, Zenon
  <2> QED
    BY <2>4 DEF r
<1>6. CASE t[i] \notin Marks /\ t[i] # "--" /\ ~(t[i] = "/" /\ Nth(t, i + 1) = "*") /\ IsRef(t, i)
  <2>1. r = WithRef(t, s)
    BY <1>6, Zenon DEF ReadCode
  <2>2. "code" \in Marks \cup {"code"}
    OBVIOUS
  <2>3. Collects(t, w, o, WithRef(t, s))
    BY <1>6, <2>2, WithRefCollects, Zenon
  <2> QED
    BY <2>1, <2>3, Zenon
<1>7. CASE /\ t[i] \notin Marks /\ t[i] # "--" /\ ~(t[i] = "/" /\ Nth(t, i + 1) = "*")
           /\ ~IsRef(t, i) /\ i = 1 /\ ~s.scanned /\ t[i] = "GO"
  <2>1. r = [s EXCEPT !.end = "command"]
    BY <1>7, Zenon DEF ReadCode
  <2>2. [s EXCEPT !.end = "command"].end = "command"
    BY Zenon DEF Scans
  <2>3. r.end # "text"
    BY <2>1, <2>2
  <2> HIDE DEF r
  <2>4. Collects(t, w, o, r)
    BY <2>3, Zenon DEF Collects
  <2> QED
    BY <2>4 DEF r
<1>8. CASE /\ t[i] \notin Marks /\ t[i] # "--" /\ ~(t[i] = "/" /\ Nth(t, i + 1) = "*")
           /\ ~IsRef(t, i) /\ ~(i = 1 /\ ~s.scanned /\ t[i] = "GO")
  <2>1. r = [To(s, i + 1) EXCEPT !.scanned = TRUE]
    BY <1>8, Zenon DEF ReadCode
  <2> HIDE DEF r
  <2>2. r.at = i + 1 /\ r.refs = s.refs
    <3>1. To(s, i + 1) \in Scans /\ To(s, i + 1).at = i + 1 /\ To(s, i + 1).refs = s.refs
      BY <1>1, ToRefs, Zenon
    <3> QED
      BY <2>1, <3>1, Zenon DEF Scans
  <2>3. t[i] # "$("
    BY <1>2, <1>8, Zenon
  <2>4. Collects(t, w, o, r)
    BY <1>1, <2>2, <2>3, PassedOne, Zenon
  <2> QED
    BY <2>4 DEF r
<1> QED
  BY <1>3, <1>4, <1>5, <1>6, <1>7, <1>8, Zenon

LEMMA TurnCollects ==
  ASSUME parse, NEW t, NEW w, NEW o, Within(t, w, o), NEW q, NEW c, NEW s, Agrees(t, w, o, s, q, c),
         Collects(t, w, o, s)
  PROVE  Collects(t, w, o, Turn(t, s))
<1>1. CASE s.end # "text" \/ s.at > Len(t)
  BY <1>1 DEF Turn
<1>2. CASE s.end = "text" /\ ~(s.at > Len(t))
  <2>1. t \in Seq(Tokens) /\ Len(t) \in Nat /\ o \in Nat
    BY WithinIs, Zenon
  <2>2. s \in Scans /\ s.at # 0
    BY Zenon DEF Agrees, NoQuote
  <2>3. s.at \in Nat /\ s.quote \in Marks \cup {NoQuote}
    BY <2>2, Zenon DEF Scans, NoQuote
  <2>4. PICK i \in 1..Len(t) : s.at = i
    BY <1>2, <2>1, <2>2, <2>3
  <2> DEFINE m == Modes(w, parse)[o + i - 1]
  <2>5. s.at # Len(t) + 2 /\ ~(i > Len(t))
    BY <2>1, <2>4
  <2>6. /\ s.quote # NoQuote => ~s.comment /\ m = s.quote
        /\ s.comment => m = "fresh" \/ (m = "comment" /\ i = 1)
        /\ s.quote = NoQuote /\ ~s.comment => m = "code"
    BY <1>2, <2>4, <2>5, Zenon DEF Agrees, NoQuote
  <2> HIDE DEF m
  <2>7. CASE s.quote # NoQuote
    <3>1. Turn(t, s) = [ReadString(t, s) EXCEPT !.scanned = TRUE]
      BY <1>2, <2>4, <2>5, <2>7, Zenon DEF Turn, NoQuote
    <3>2. m \in Marks /\ s.quote = m
      BY <2>3, <2>6, <2>7, Zenon
    <3>3. Collects(t, w, o, ReadString(t, s))
      BY <1>2, <2>2, <2>4, <3>2, ReadStringCollects, Zenon DEF m
    <3>4. ReadString(t, s) \in Scans
      BY <2>1, <2>2, <2>4, ReadStringType
    <3>5. Collects(t, w, o, [ReadString(t, s) EXCEPT !.scanned = TRUE])
      BY <3>3, <3>4, CollectsScanned
    <3> QED
      BY <3>1, <3>5, Zenon
  <2>8. CASE s.quote = NoQuote /\ s.comment
    <3>1. Turn(t, s) = [ReadComment(t, s) EXCEPT !.scanned = TRUE]
      BY <1>2, <2>4, <2>5, <2>8, Zenon DEF Turn, NoQuote
    <3>2. Collects(t, w, o, ReadComment(t, s))
      BY <1>2, <2>2, <2>4, <2>6, <2>8, ReadCommentCollects, Zenon DEF m
    <3>3. ReadComment(t, s) \in Scans
      BY <1>2, <2>1, <2>2, <2>4, ReadCommentMoves, Zenon
    <3>4. Collects(t, w, o, [ReadComment(t, s) EXCEPT !.scanned = TRUE])
      BY <3>2, <3>3, CollectsScanned
    <3> QED
      BY <3>1, <3>4, Zenon
  <2>9. CASE s.quote = NoQuote /\ ~s.comment
    <3>1. Turn(t, s) = ReadCode(t, s)
      BY <1>2, <2>4, <2>5, <2>9, Zenon DEF Turn, ReadCode, NoQuote
    <3>2. Collects(t, w, o, ReadCode(t, s))
      BY <1>2, <2>2, <2>4, <2>6, <2>9, ReadCodeCollects, Zenon DEF m
    <3> QED
      BY <3>1, <3>2, Zenon
  <2> QED
    BY <2>7, <2>8, <2>9, Zenon
<1> QED
  BY <1>1, <1>2, Zenon

LEMMA ScanCollects ==
  ASSUME parse, NEW t, NEW w, NEW o, Within(t, w, o), NEW q \in Marks \cup {NoQuote}, NEW c \in BOOLEAN,
         Agrees(t, w, o, ScanStart(q, c), q, c)
  PROVE  Collects(t, w, o, Scan(t, q, c))
<1> DEFINE n == Len(t)
           Good(s) == Agrees(t, w, o, s, q, c) /\ Collects(t, w, o, s)
<1>1. t \in Seq(Tokens) /\ n \in Nat
  BY WithinIs, Zenon
<1>2. PICK F : /\ Scan(t, q, c) = F[n] /\ F[0] = ScanStart(q, c)
               /\ \A k \in 1..n : F[k] = Turn(t, F[k - 1])
               /\ \A k \in 0..n : F[k] \in Scans /\ F[k].at # 0
  BY <1>1, Turns, Zenon
<1>3. Collects(t, w, o, ScanStart(q, c))
  <2>1. ScanStart(q, c).at = 1 /\ ScanStart(q, c).refs = {}
    BY Zenon DEF ScanStart
  <2>2. \A i : ~(Met(t, w, o, i) /\ i < 1)
    <3>1. \A i \in 1..Len(t) : ~(i < 1)
      BY <1>1
    <3> QED
      BY <3>1, Zenon DEF Met
  <2> QED
    BY <2>1, <2>2, Zenon DEF Collects
<1> DEFINE X == {s \in Scans : Good(s)}
<1>4. \A s \in X : Turn(t, s) \in X
  <2>1. \A s : Good(s) => s \in Scans
    BY Zenon DEF Agrees
  <2>2. \A s : Good(s) => Good(Turn(t, s))
    BY TurnAgrees, TurnCollects, Zenon
  <2> QED
    BY <2>1, <2>2, Zenon
<1>5. F[0] \in X
  <2>1. 0 \in 0..n
    BY <1>1
  <2> QED
    BY <1>2, <1>3, <2>1, Zenon
<1> HIDE DEF X, n
<1>6. \A k \in 1..n : F[k - 1] \in X => F[k] \in X
  BY <1>2, <1>4, Zenon
<1>7. \A k \in 0..n : F[k] \in X
  BY <1>1, <1>5, <1>6, Stays, Zenon
<1>8. F[n] \in X
  <2>1. n \in 0..n
    BY <1>1
  <2> QED
    BY <1>7, <2>1, Zenon
<1> QED
  BY <1>2, <1>8, Zenon DEF X

-----------------------------------------------------------------------------
(* A reference of a chunk is one of the batch, with the same name.         *)
LEMMA RefEndFound ==
  ASSUME NEW t \in Seq(Tokens), NEW i \in 1..Len(t), NEW e \in (i + 1)..Len(t), t[e] = ")",
         \A j \in (i + 1)..(e - 1) : t[j] \in NameTokens
  PROVE  RefEnd(t, i) = e
<1> DEFINE S == {j \in (i + 1)..Len(t) : t[j] \notin NameTokens} \cup {Len(t) + 1}
           k == Min(S)
<1>1. S \subseteq Nat /\ S # {} /\ e \in Nat /\ \A j \in S : j \in (i + 1)..(Len(t) + 1)
  OBVIOUS
<1>2. e \in S
  BY DEF NameTokens
<1>3. \A j \in S : j >= e
  OBVIOUS
<1>4. k \in S /\ \A j \in S : k <= j
  <2> HIDE DEF S
  <2> QED
    BY <1>1, MinIs
<1>5. k \in Nat
  BY <1>1, <1>4
<1>6. k = e
  <2> HIDE DEF S, k
  <2>1. k <= e /\ k >= e
    BY <1>2, <1>3, <1>4
  <2> QED
    BY <1>1, <1>5, <2>1
<1>7. RefEnd(t, i) = IF Nth(t, k) = ")" THEN k ELSE 0
  BY DEF RefEnd
<1> HIDE DEF k
<1>8. Nth(t, e) = ")"
  BY DEF Nth
<1> QED
  BY <1>6, <1>7, <1>8

LEMMA PartIs ==
  ASSUME NEW t \in Texts, NEW i \in Nat \ {0}, NEW j \in Nat, j <= Len(t)
  PROVE  /\ SubSeq(t, i, j) \in Seq(Tokens)
         /\ Len(SubSeq(t, i, j)) = IF i <= j THEN j - i + 1 ELSE 0
         /\ \A k \in 1..(j - i + 1) : SubSeq(t, i, j)[k] = t[i + k - 1]
<1>1. t \in Seq(Tokens) /\ Len(t) \in Nat
  BY DEF Texts
<1>2. i \in Int /\ j \in Int /\ \A k \in i..j : t[k] \in Tokens
  BY <1>1
<1> QED
  BY <1>2, SubSeqProperties

LEMMA SamePart ==
  ASSUME NEW t \in Texts, NEW u \in Texts, NEW d \in Nat, d + Len(t) <= Len(u),
         \A k \in 1..Len(t) : u[d + k] = t[k],
         NEW i \in 1..Len(t), NEW j \in Nat, j <= Len(t)
  PROVE  SubSeq(u, d + i, d + j) = SubSeq(t, i, j)
<1>1. t \in Seq(Tokens) /\ u \in Seq(Tokens) /\ Len(t) \in Nat /\ Len(u) \in Nat
  BY DEF Texts
<1>2. d + i \in Int /\ d + j \in Int /\ i \in Int /\ j \in Int /\ (d + j) - (d + i) + 1 = j - i + 1
      /\ (d + i <= d + j <=> i <= j)
  BY <1>1
<1>3. d + i \in Nat \ {0} /\ d + j \in Nat /\ d + j <= Len(u) /\ i \in Nat \ {0}
  BY <1>1
<1>4. /\ SubSeq(u, d + i, d + j) \in Seq(Tokens)
      /\ Len(SubSeq(u, d + i, d + j)) = IF d + i <= d + j THEN (d + j) - (d + i) + 1 ELSE 0
      /\ \A k \in 1..((d + j) - (d + i) + 1) : SubSeq(u, d + i, d + j)[k] = u[(d + i) + k - 1]
  BY <1>3, PartIs, ZenonT(60)
<1>5. /\ SubSeq(t, i, j) \in Seq(Tokens)
      /\ Len(SubSeq(t, i, j)) = IF i <= j THEN j - i + 1 ELSE 0
      /\ \A k \in 1..(j - i + 1) : SubSeq(t, i, j)[k] = t[i + k - 1]
  BY <1>3, PartIs, ZenonT(60)
<1> DEFINE a == SubSeq(u, d + i, d + j)
           b == SubSeq(t, i, j)
<1> HIDE DEF a, b
<1>6. Len(a) = Len(b)
  BY <1>2, <1>4, <1>5 DEF a, b
<1>7. \A k \in 1..Len(a) : a[k] = b[k]
  <2> SUFFICES ASSUME NEW k \in 1..Len(a) PROVE a[k] = b[k]
    OBVIOUS
  <2>1. k \in 1..(j - i + 1)
    BY <1>2, <1>4 DEF a
  <2>2. a[k] = u[(d + i) + k - 1] /\ b[k] = t[i + k - 1]
    BY <1>2, <1>4, <1>5, <2>1 DEF a, b
  <2>3. i + k - 1 \in 1..Len(t) /\ (d + i) + k - 1 = d + (i + k - 1)
    BY <1>1, <2>1
  <2> QED
    BY <2>2, <2>3
<1>8. a \in Seq(Tokens) /\ b \in Seq(Tokens)
  BY <1>4, <1>5 DEF a, b
<1>9. a = b
  BY <1>6, <1>7, <1>8, SeqEqual
<1> QED
  BY <1>9 DEF a, b

LEMMA SameRef ==
  ASSUME NEW t \in Texts, NEW u \in Texts, NEW d \in Nat, d + Len(t) <= Len(u),
         \A k \in 1..Len(t) : u[d + k] = t[k],
         NEW i \in 1..Len(t), RefEnd(t, i) # 0
  PROVE  RefEnd(u, d + i) = d + RefEnd(t, i) /\ Name(u, d + i) = Name(t, i) /\ RefEnd(u, d + i) # 0
<1> DEFINE e == RefEnd(t, i)
<1>1. t \in Seq(Tokens) /\ u \in Seq(Tokens) /\ Len(t) \in Nat /\ Len(u) \in Nat
  BY DEF Texts
<1>2. e \in (i + 1)..Len(t) /\ t[e] = ")" /\ \A j \in (i + 1)..(e - 1) : t[j] \in NameTokens
  BY <1>1, RefEndIs
<1> HIDE DEF e
<1>3. d + i \in 1..Len(u) /\ d + e \in ((d + i) + 1)..Len(u) /\ u[d + e] = ")" /\ d + e # 0
  BY <1>1, <1>2
<1>4. \A j \in ((d + i) + 1)..((d + e) - 1) : u[j] \in NameTokens
  <2> SUFFICES ASSUME NEW j \in ((d + i) + 1)..((d + e) - 1) PROVE u[j] \in NameTokens
    OBVIOUS
  <2>1. j - d \in (i + 1)..(e - 1) /\ j - d \in 1..Len(t) /\ d + (j - d) = j
    BY <1>1, <1>2
  <2>2. u[d + (j - d)] = t[j - d]
    BY <2>1
  <2> QED
    BY <1>2, <2>1, <2>2
<1>5. RefEnd(u, d + i) = d + e
  BY <1>1, <1>3, <1>4, RefEndFound, Zenon
<1>6. SubSeq(u, (d + i) + 1, (d + e) - 1) = SubSeq(t, i + 1, e - 1)
  <2>1. i + 1 \in 1..Len(t) /\ e - 1 \in Nat /\ e - 1 <= Len(t)
        /\ (d + i) + 1 = d + (i + 1) /\ (d + e) - 1 = d + (e - 1)
    BY <1>1, <1>2
  <2>2. SubSeq(u, d + (i + 1), d + (e - 1)) = SubSeq(t, i + 1, e - 1)
    BY <2>1, SamePart, Zenon
  <2> QED
    BY <2>1, <2>2
<1>7. Name(u, d + i) = Name(t, i)
  BY <1>5, <1>6, Zenon DEF Name, e
<1> QED
  BY <1>3, <1>5, <1>7 DEF e

(* The chunk t joins the batch.                                            *)
Appends(t, r, w, o) ==
  /\ ~swallowed /\ t \in Texts /\ ~(\E i, j \in 1..Len(t) : i < j /\ t[i] = "--" /\ t[j] = "n")
  /\ r = Scan(t, quote, comment) /\ r.end = "text"
  /\ w = buffer \o Separator \o t /\ o = Len(buffer) + Len(Separator)

RefThere(u, t, d, i) == Name(u, d + i) = Name(t, i) /\ RefEnd(u, d + i) # 0

LEMMA RefIsThere ==
  ASSUME NEW t \in Texts, NEW u \in Texts, NEW d \in Nat, d + Len(t) <= Len(u),
         \A k \in 1..Len(t) : u[d + k] = t[k],
         NEW i \in 1..Len(t), RefEnd(t, i) # 0
  PROVE  RefThere(u, t, d, i)
BY SameRef, Zenon DEF RefThere

LEMMA ReferencesJoin ==
  ASSUME parse, BInv, NEW t, NEW r, NEW w, NEW o, Appends(t, r, w, o)
  PROVE  /\ \A k : k \in References(w) <=> k \in References(buffer) \/ \E i \in r.refs : k = o + i
         /\ \A i \in r.refs : i \in 1..Len(t) /\ RefEnd(t, i) # 0
<1> DEFINE n == Len(buffer)
<1>0. /\ ~swallowed /\ t \in Texts /\ ~(\E i, j \in 1..Len(t) : i < j /\ t[i] = "--" /\ t[j] = "n")
      /\ r = Scan(t, quote, comment) /\ r.end = "text"
      /\ w = buffer \o Separator \o t /\ o = Len(buffer) + Len(Separator)
  BY Zenon DEF Appends
<1>1. /\ t \in Seq(Tokens) /\ buffer \in Seq(Tokens) /\ quote \in Marks \cup {NoQuote} /\ comment \in BOOLEAN
      /\ BType /\ (nil => buffer = <<>>)
  BY <1>0, Zenon DEF BInv, BType, Texts
<1>2. /\ Within(t, w, o) /\ w \in Seq(Tokens)
      /\ \A i \in 1..Len(buffer) : w[i] = buffer[i]
      /\ Len(Separator) = 1 => w[o] = "n" /\ o = Len(buffer) + 1 /\ Len(buffer) + 1 \in 1..Len(w)
      /\ Agrees(t, w, o, ScanStart(quote, comment), quote, comment)
  BY <1>0, <1>1, ChunkStarts, Zenon
<1>3. n \in Nat /\ o \in Nat /\ Len(t) \in Nat /\ Len(w) = o + Len(t) /\ \A i \in 1..Len(t) : w[o + i] = t[i]
  <2>1. o \in Nat /\ Len(t) \in Nat /\ Len(w) = o + Len(t) /\ \A i \in 1..Len(t) : w[o + i] = t[i]
    BY <1>2, WithinIs, Zenon DEF Within
  <2> QED
    BY <1>1, <2>1
<1>4. r \in Scans /\ Done(t, r) /\ Collects(t, w, o, r)
  BY <1>0, <1>1, <1>2, ScanEnds, ScanCollects, Zenon
<1>5. r.at > Len(t) /\ r.at \in Nat
  BY <1>0, <1>4, Zenon DEF Done, Scans
<1>6. (\A i : i \in r.refs <=> Met(t, w, o, i)) /\ \A i \in r.refs : RefEnd(t, i) # 0
  <2>1. \A i \in 1..Len(t) : i < r.at
    BY <1>3, <1>5
  <2>2. \A i : Met(t, w, o, i) => i \in 1..Len(t)
    BY Zenon DEF Met
  <2> QED
    BY <1>0, <1>4, <2>1, <2>2, Zenon DEF Collects
<1>7. (o = n + 1 /\ w[o] = "n" /\ Nth(w, n + 1) = "n") \/ (o = n /\ n = 0)
  <2>1. Len(Separator) = 1 \/ (buffer = <<>> /\ Len(Separator) = 0)
    BY <1>1, SeparatorIs, Zenon
  <2>2. CASE Len(Separator) = 1
    BY <1>0, <1>2, <2>2 DEF Nth
  <2>3. CASE buffer = <<>> /\ Len(Separator) = 0
    <3>1. Len(buffer) = 0
      BY <2>3
    <3> QED
      BY <1>0, <2>3, <3>1
  <2> QED
    BY <2>1, <2>2, <2>3
<1>8. \A k \in 0..n : Modes(w, parse)[k] = Modes(buffer, parse)[k]
  <2>1. CASE o = n + 1 /\ Nth(w, n + 1) = "n"
    <3>1. Len(buffer) <= Len(w) /\ Nth(w, Len(buffer) + 1) \notin {"*", "]"}
      BY <1>3, <2>1
    <3>2. buffer \in Seq(Tokens) /\ w \in Seq(Tokens) /\ \A i \in 1..Len(buffer) : w[i] = buffer[i]
      BY <1>1, <1>2, Zenon
    <3> QED
      BY ONLY <3>1, <3>2, SamePrefix
  <2>2. CASE n = 0
    <3>1. \A k \in 0..n : k = 0
      BY <2>2
    <3>2. Modes(w, parse)[0] = "code" /\ Modes(buffer, parse)[0] = "code"
      BY <1>1, <1>2, ModesAre, Zenon
    <3> QED
      BY <3>1, <3>2, Zenon
  <2> QED
    BY <1>7, <2>1, <2>2
<1> HIDE DEF n
<1>9. \A k \in 1..n : k \in References(w) <=> k \in References(buffer)
  <2> SUFFICES ASSUME NEW k \in 1..n PROVE k \in References(w) <=> k \in References(buffer)
    OBVIOUS
  <2>1. k \in 1..Len(w) /\ k \in 1..Len(buffer) /\ w[k] = buffer[k] /\ k - 1 \in 0..n
    BY <1>2, <1>3, <1>7 DEF n
  <2>2. Modes(w, parse)[k - 1] = Modes(buffer, parse)[k - 1]
    BY <1>8, <2>1
  <2> QED
    BY <2>1, <2>2, Zenon DEF References
<1>10. \A i \in 1..Len(t) : o + i \in References(w) <=> i \in r.refs
  <2> SUFFICES ASSUME NEW i \in 1..Len(t) PROVE o + i \in References(w) <=> i \in r.refs
    OBVIOUS
  <2>1. o + i \in 1..Len(w) /\ w[o + i] = t[i] /\ (o + i) - 1 = o + i - 1
    BY <1>3
  <2>2. o + i \in References(w) <=> Met(t, w, o, i)
    <3> DEFINE k == o + i
               m == Modes(w, parse)[o + i - 1]
    <3>1. Met(t, w, o, i) <=> t[i] = "$(" /\ m \in Marks \cup {"code"}
      BY Zenon DEF Met
    <3>2. k \in References(w) <=> k \in 1..Len(w) /\ w[k] = "$(" /\ m \in Marks \cup {"code"}
      BY <2>1 DEF References
    <3> HIDE DEF m, k
    <3>3. k \in 1..Len(w) /\ w[k] = t[i]
      BY <2>1 DEF k
    <3>4. k \in References(w) <=> Met(t, w, o, i)
      BY <3>1, <3>2, <3>3
    <3> QED
      BY <3>4 DEF k
  <2> QED
    BY <1>6, <2>2
<1>11. n + 1 = o => o \notin References(w)
  <2>1. o \in References(w) => w[o] = "$("
    BY DEF References
  <2> QED
    BY <1>3, <1>7, <2>1
<1>12. (\A k \in References(w) : k \in 1..Len(w)) /\ (\A k \in References(buffer) : k \in 1..n)
       /\ \A i \in r.refs : i \in 1..Len(t)
  BY <1>6 DEF References, Met, n
<1>13. \A k \in 1..Len(w) : k \in 1..n \/ (k = o /\ n + 1 = o) \/ (k - o \in 1..Len(t) /\ k = o + (k - o))
  BY <1>3, <1>7
<1> HIDE DEF References, Met
<1>14. \A k : k \in References(w) => k \in References(buffer) \/ \E i \in r.refs : k = o + i
  <2> SUFFICES ASSUME NEW k \in References(w) PROVE k \in References(buffer) \/ \E i \in r.refs : k = o + i
    BY Zenon
  <2>1. k \in 1..Len(w)
    BY <1>12
  <2>2. CASE k \in 1..n
    BY <1>9, <2>2
  <2>3. CASE k = o /\ n + 1 = o
    BY <1>11, <2>3
  <2>4. CASE k - o \in 1..Len(t) /\ k = o + (k - o)
    <3>1. k - o \in r.refs
      BY <1>10, <2>4
    <3> QED
      BY <2>4, <3>1
  <2> QED
    BY <1>13, <2>1, <2>2, <2>3, <2>4
<1>15. \A k : k \in References(buffer) => k \in References(w)
  BY <1>9, <1>12
<1>16. \A i \in r.refs : o + i \in References(w)
  BY <1>10, <1>12
<1> QED
  BY <1>6, <1>12, <1>14, <1>15, <1>16

(* The places noted for a chunk are those it adds to the batch's.          *)
LEMMA PlacesJoin ==
  ASSUME parse, BInv, Whole(buffer), NEW t, NEW r, NEW w, NEW o, Appends(t, r, w, o),
         r.refs = {} \/ Inc = Len(Separator)
  PROVE  Whole(w) /\ Places(w) = Places(buffer) \cup Placed(t, r.refs)
<1>0. /\ t \in Texts /\ ~(\E i, j \in 1..Len(t) : i < j /\ t[i] = "--" /\ t[j] = "n")
      /\ w = buffer \o Separator \o t /\ o = Len(buffer) + Len(Separator)
  BY Zenon DEF Appends
<1>1. /\ \A k : k \in References(w) <=> k \in References(buffer) \/ \E i \in r.refs : k = o + i
      /\ \A i \in r.refs : i \in 1..Len(t) /\ RefEnd(t, i) # 0
  BY ReferencesJoin, Zenon
<1>2. buffer \in Texts /\ t \in Seq(Tokens) /\ BType /\ (nil => buffer = <<>>)
  BY <1>0, Zenon DEF BInv, BType, Texts
<1>3. Within(t, w, o) /\ w \in Texts /\ \A i \in 1..Len(buffer) : w[i] = buffer[i]
  BY <1>0, <1>2, Joined, Zenon DEF Texts
<1>4. Separator \in Seq(Tokens)
  BY <1>2, SeparatorIs, Zenon
<1>5. /\ Len(buffer) \in Nat /\ o \in Nat /\ Len(t) \in Nat /\ Len(w) = o + Len(t) /\ Len(buffer) <= o
      /\ \A i \in 1..Len(t) : w[o + i] = t[i]
  <2>1. o \in Nat /\ Len(t) \in Nat /\ Len(w) = o + Len(t) /\ \A i \in 1..Len(t) : w[o + i] = t[i]
    BY <1>3, WithinIs, Zenon DEF Within
  <2>2. Len(buffer) \in Nat /\ Len(Separator) \in Nat
    BY <1>2, <1>4 DEF Texts
  <2> QED
    BY <1>0, <2>1, <2>2
<1>6. \A k \in References(buffer) :
        k \in 1..Len(buffer) /\ RefEnd(w, k) # 0 /\ Place(w, k) = Place(buffer, k)
  <2> SUFFICES ASSUME NEW k \in References(buffer)
               PROVE  k \in 1..Len(buffer) /\ RefEnd(w, k) # 0 /\ Place(w, k) = Place(buffer, k)
    OBVIOUS
  <2>1. k \in 1..Len(buffer) /\ RefEnd(buffer, k) # 0
    BY <1>2, ReferencesAre, Zenon DEF Whole
  <2>2. 0 \in Nat /\ 0 + Len(buffer) <= Len(w) /\ 0 + k = k /\ \A i \in 1..Len(buffer) : w[0 + i] = buffer[i]
    BY <1>3, <1>5, <2>1
  <2>3. Name(w, 0 + k) = Name(buffer, k) /\ RefEnd(w, 0 + k) # 0
    BY <1>2, <1>3, <2>1, <2>2, SameRef, Zenon
  <2> QED
    BY <2>1, <2>2, <2>3, Zenon DEF Place
<1>7. \A i \in r.refs :
        /\ RefEnd(w, o + i) # 0
        /\ Place(w, o + i) = [at |-> i + Len(buffer) + Len(Separator),
                              name |-> SubSeq(t, i + 1, RefEnd(t, i) - 1)]
  <2> SUFFICES ASSUME NEW i \in r.refs
               PROVE  /\ RefEnd(w, o + i) # 0
                      /\ Place(w, o + i) = [at |-> i + Len(buffer) + Len(Separator),
                                            name |-> SubSeq(t, i + 1, RefEnd(t, i) - 1)]
    OBVIOUS
  <2>1. i \in 1..Len(t) /\ RefEnd(t, i) # 0
    BY <1>1
  <2>2. o + Len(t) <= Len(w)
    BY <1>5
  <2>3. Len(Separator) \in Nat
    BY <1>4
  <2>4. o + i = i + Len(buffer) + Len(Separator)
    BY <1>0, <1>5, <2>1, <2>3
  <2>5. Name(w, o + i) = Name(t, i) /\ RefEnd(w, o + i) # 0
    <3>1. RefThere(w, t, o, i)
      BY <1>0, <1>3, <1>5, <2>1, <2>2, RefIsThere, Zenon
    <3> QED
      BY <3>1, Zenon DEF RefThere
  <2> QED
    BY <2>4, <2>5, Zenon DEF Place, Name
<1>8. Whole(w)
  BY <1>1, <1>6, <1>7, Zenon DEF Whole
<1> DEFINE note(i) == [at |-> i + Len(buffer) + Inc, name |-> SubSeq(t, i + 1, RefEnd(t, i) - 1)]
<1>9. \A p : p \in Placed(t, r.refs) <=> \E i \in r.refs : p = note(i)
  BY Zenon DEF Placed
<1>10. \A p : /\ p \in Places(w) <=> \E k \in References(w) : p = Place(w, k)
              /\ p \in Places(buffer) <=> \E k \in References(buffer) : p = Place(buffer, k)
  BY Zenon DEF Places
<1>11. \A i \in r.refs : Place(w, o + i) = note(i)
  <2> SUFFICES ASSUME NEW i \in r.refs PROVE Place(w, o + i) = note(i)
    OBVIOUS
  <2>1. Inc = Len(Separator)
    OBVIOUS
  <2> QED
    BY <1>7, <2>1, Zenon
<1>12. \A p : p \in Places(w) <=> p \in Places(buffer) \/ p \in Placed(t, r.refs)
  <2> HIDE DEF note
  <2> SUFFICES ASSUME NEW p PROVE p \in Places(w) <=> p \in Places(buffer) \/ p \in Placed(t, r.refs)
    OBVIOUS
  <2>1. ASSUME p \in Places(w) PROVE p \in Places(buffer) \/ p \in Placed(t, r.refs)
    <3>1. PICK k \in References(w) : p = Place(w, k)
      BY <1>10, <2>1
    <3>2. CASE k \in References(buffer)
      BY <1>6, <1>10, <3>1, <3>2
    <3>3. CASE \E i \in r.refs : k = o + i
      BY <1>9, <1>11, <3>1, <3>3
    <3> QED
      BY <1>1, <3>2, <3>3
  <2>2. ASSUME p \in Places(buffer) PROVE p \in Places(w)
    <3>1. PICK k \in References(buffer) : p = Place(buffer, k)
      BY <1>10, <2>2
    <3>2. k \in References(w) /\ Place(w, k) = p
      BY <1>1, <1>6, <3>1
    <3> QED
      BY <1>10, <3>2
  <2>3. ASSUME p \in Placed(t, r.refs) PROVE p \in Places(w)
    <3>1. PICK i \in r.refs : p = note(i)
      BY <1>9, <2>3
    <3>2. o + i \in References(w) /\ Place(w, o + i) = p
      BY <1>1, <1>11, <3>1
    <3> QED
      BY <1>10, <3>2
  <2> QED
    BY <2>1, <2>2, <2>3
<1>13. Places(w) = Places(buffer) \cup Placed(t, r.refs)
  BY <1>12
<1> QED
  BY <1>8, <1>13

(* The variables noted are those of the batch, and all of them end.        *)
Noted == parse /\ ~swallowed /\ ~displaced => varmap = Places(buffer) /\ Whole(buffer)

LEMMA NoReferences ==
  Places(<<>>) = {} /\ Whole(<<>>)
<1>1. References(<<>>) = {}
  <2>1. \A i : i \notin 1..0
    OBVIOUS
  <2>2. Len(<<>>) = 0
    OBVIOUS
  <2> QED
    BY <2>1, <2>2 DEF References
<1> QED
  BY <1>1 DEF Places, Whole

LEMMA NothingNoted ==
  ASSUME Reset, parse' = parse
  PROVE  Noted'
<1>1. varmap' = {} /\ buffer' = <<>>
  BY Zenon DEF Reset
<1>2. varmap' = Places(buffer') /\ Whole(buffer')
  BY <1>1, NoReferences
<1> QED
  BY <1>2 DEF Noted, Places, Whole, References, Place, Name

LEMMA ChunkNotes ==
  ASSUME BInv, Noted, NEW t \in Seq(Tokens), Process(t), parse' = parse
  PROVE  Noted'
<1> DEFINE r == Scan(t, quote, comment)
           w == buffer \o Separator \o t
           hides == \E i, j \in 1..Len(t) : i < j /\ t[i] = "--" /\ t[j] = "n"
<1>1. /\ parse \in BOOLEAN /\ quote \in Marks \cup {NoQuote} /\ comment \in BOOLEAN
      /\ swallowed \in BOOLEAN /\ displaced \in BOOLEAN
  BY Zenon DEF BInv, BType
<1>2. r \in Scans
  BY <1>1, ScanEnds, Zenon
<1>3. CASE r.end = "text"
  <2>1. r.end # "fails" /\ r.end # "command"
    BY <1>3
  <2> DEFINE moves == r.refs # {} /\ Inc # Len(Separator)
  <2>2. /\ buffer' = w /\ varmap' = varmap \cup Placed(t, r.refs) /\ swallowed' = (swallowed \/ hides)
        /\ displaced' = (displaced \/ moves)
    BY <2>1, Zenon DEF Process
  <2>3. ASSUME parse, ~swallowed, ~hides, ~displaced, ~moves
        PROVE  varmap \cup Placed(t, r.refs) = Places(w) /\ Whole(w)
    <3> DEFINE o == Len(buffer) + Len(Separator)
    <3>1. varmap = Places(buffer) /\ Whole(buffer)
      BY <2>3, Zenon DEF Noted
    <3>2. Appends(t, r, w, o)
      BY <1>3, <2>3, Zenon DEF Appends, Texts
    <3>4. r.refs = {} \/ Inc = Len(Separator)
      BY <2>3, Zenon
    <3> HIDE DEF r, w, o, moves
    <3>3. Whole(w) /\ Places(w) = Places(buffer) \cup Placed(t, r.refs)
      BY <2>3, <3>1, <3>2, <3>4, PlacesJoin, Zenon
    <3> QED
      BY <3>1, <3>3
  <2> HIDE DEF r, w, hides, moves
  <2>4. parse /\ ~swallowed' /\ ~displaced' => varmap' = Places(buffer') /\ Whole(buffer')
    BY <2>2, <2>3
  <2> QED
    BY <2>4 DEF Noted, Places, Whole, References, Place, Name
<1>4. CASE r.end = "fails"
  <2>1. r.end # "text" /\ r.end # "command"
    BY <1>4
  <2>2. Reset
    BY <2>1, Zenon DEF Process
  <2> QED
    BY <2>2, NothingNoted, Zenon
<1>5. CASE r.end = "command"
  <2>1. r.end # "text" /\ r.end # "fails"
    BY <1>5
  <2>2. UNCHANGED <<buffer, nil, lineOne, varmap, swallowed, displaced>>
    BY <2>1, Zenon DEF Process
  <2> QED
    BY <2>2 DEF Noted, Places, Whole, References, Place, Name
<1> QED
  BY <1>2, <1>3, <1>4, <1>5, Zenon DEF Scans

LEMMA BatchNotes ==
  BInv /\ Noted /\ [BNext]_bvars => Noted'
<1> SUFFICES ASSUME BInv, Noted, [BNext]_bvars PROVE Noted'
  OBVIOUS
<1>1. raw \in Seq(Tokens)
  BY Zenon DEF BInv, BType
<1>2. CASE NextLine
  <2>1. parse' = parse
    BY <1>2, Zenon DEF NextLine
  <2>2. PICK t : (t = raw \/ t \in Lines) /\ Process(t)
    BY <1>2, Zenon DEF NextLine
  <2>3. t \in Seq(Tokens)
    BY <1>1, <2>2, TextsAre, Zenon
  <2> QED
    BY <2>1, <2>2, <2>3, ChunkNotes, Zenon
<1>3. CASE StartScript
  BY <1>3, NothingNoted, Zenon DEF StartScript
<1>4. CASE Go
  <2>1. Reset /\ parse' = parse
    BY <1>4, Zenon DEF Go
  <2> QED
    BY <2>1, NothingNoted, Zenon
<1>5. CASE ResetCommand
  <2>1. Reset /\ parse' = parse
    BY <1>5, Zenon DEF ResetCommand
  <2> QED
    BY <2>1, NothingNoted, Zenon
<1>6. CASE Connect \/ FileEnds \/ UNCHANGED bvars
  <2>1. /\ parse' = parse /\ buffer' = buffer /\ varmap' = varmap
        /\ swallowed' = swallowed /\ displaced' = displaced
    BY <1>6 DEF Connect, FileEnds, bvars
  <2> QED
    BY <2>1 DEF Noted, Places, Whole, References, Place, Name
<1> QED
  BY <1>2, <1>3, <1>4, <1>5, <1>6, Zenon DEF BNext

(* Whatever lines and scripts are read, with any :connect and :r between   *)
(* them, the query made of the batch, from the places that Next noted line *)
(* by line, is the batch's text with the variables of the text as a whole  *)
(* replaced: no place is missed, moved by a line's end or noted in a       *)
(* comment.  Left out are batches in which a reference was noted on a line *)
(* that Next counted as the first though it was not (displaced).           *)
THEOREM ValuesPutInPlace ==
  BSpec => []ValuesInPlace
<1>1. BInit => Noted
  <2> SUFFICES ASSUME BInit PROVE Noted
    OBVIOUS
  <2>1. varmap = {} /\ buffer = <<>>
    BY Zenon DEF BInit
  <2> QED
    BY <2>1, NoReferences DEF Noted
<1>2. BInv /\ Noted => ValuesInPlace
  <2> SUFFICES ASSUME BInv, Noted, ~swallowed, ~displaced
               PROVE  (IF parse THEN Runnable(buffer, varmap) ELSE buffer) = Substituted(buffer)
    BY DEF ValuesInPlace
  <2>1. buffer \in Texts /\ parse \in BOOLEAN
    BY Zenon DEF BInv, BType, Texts
  <2>2. CASE parse
    <3>1. varmap = Places(buffer) /\ Whole(buffer)
      BY <2>2, Zenon DEF Noted
    <3>2. Runnable(buffer, Places(buffer)) = Substituted(buffer)
      BY <2>1, <2>2, <3>1, RunnableRight, Zenon
    <3> QED
      BY <2>2, <3>1, <3>2
  <2>3. CASE ~parse
    <3>1. Substituted(buffer) = buffer
      BY <2>3, Zenon DEF Substituted
    <3> QED
      BY <2>3, <3>1
  <2> QED
    BY <2>1, <2>2, <2>3
<1> QED
  BY <1>1, <1>2, BatchStarts, BatchKept, BatchNotes, PTL DEF BSpec

=============================================================================
