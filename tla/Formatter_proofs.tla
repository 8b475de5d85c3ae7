-------------------------- MODULE Formatter_proofs --------------------------
(***************************************************************************)
(* No line that the formatter wraps is longer than the screen, for all     *)
(* settings, tables and rows.                                              *)
(***************************************************************************)
EXTENDS Formatter, Induction

Chars == STRING \cup {"\n", " ", "|", "-", "+", ".", ",", "0", "x", "1", "2", "3", "NULL", "m", "e", "s"}

(* What ends a line, or is on one that is written as it is.                *)
Breaks == {"\n", "m", "s"}

(* Of any w + 1 characters in a row one is such.                           *)
Fits(s, w) == \A i \in 0..(Len(s) - w - 1) : \E j \in 1..(w + 1) : s[i + j] \in Breaks

Ends(s)  == s # <<>> => s[Len(s)] = "\n"
Stops(s) == s # <<>> => s[Len(s)] \in Breaks

(* What a screen shows: lines that fit.                                    *)
Screens(w) == {s \in Seq(Chars) : Stops(s) /\ (w > 0 => Fits(s, w))}

(* What a formatter that wraps has written, s, and how much of it since    *)
(* the last end of a line.                                                 *)
Wraps(s, pos, w) ==
  /\ s \in Seq(Chars) /\ pos \in Nat
  /\ IF w = 0 THEN pos = 0
     ELSE /\ pos <= w /\ pos <= Len(s) /\ Fits(s, w)
          /\ pos < Len(s) => s[Len(s) - pos] \in Breaks

Wrapped(w) == {a \in [text : Seq(Chars), pos : Nat] : Wraps(a.text, a.pos, w)}

-----------------------------------------------------------------------------
(* Wrapping one character after another.                                   *)
LEMMA NewlineIn == "\n" \in Chars
BY DEF Chars

LEMMA NewlineBreaks == "\n" \in Breaks
BY DEF Breaks

LEMMA EndsStops ==
  ASSUME NEW s, Ends(s)
  PROVE  Stops(s)
BY NewlineBreaks DEF Ends, Stops

LEMMA AppendIs ==
  ASSUME NEW S, NEW s \in Seq(S), NEW c \in S
  PROVE  /\ Append(s, c) \in Seq(S) /\ Len(s) \in Nat /\ Len(Append(s, c)) = Len(s) + 1
         /\ Append(s, c)[Len(s) + 1] = c /\ \A k \in 1..Len(s) : Append(s, c)[k] = s[k]
OBVIOUS

LEMMA AppendFits ==
  ASSUME NEW w \in Nat \ {0}, NEW s \in Seq(Chars), NEW c \in Chars, NEW pos \in Nat,
         Wraps(s, pos, w), c = "\n" \/ pos < w
  PROVE  Fits(Append(s, c), w)
<1> DEFINE t == Append(s, c)
           n == Len(s)
<1>1. /\ t \in Seq(Chars) /\ n \in Nat /\ Len(t) = n + 1 /\ t[n + 1] = c
      /\ \A k \in 1..n : t[k] = s[k]
  BY AppendIs
<1>2. Fits(s, w) /\ pos <= n /\ (pos < n => s[n - pos] \in Breaks)
  BY DEF Wraps
<1> HIDE DEF t, n
<1>3. SUFFICES ASSUME NEW i \in 0..(n - w)
               PROVE  \E j \in 1..(w + 1) : t[i + j] \in Breaks
  <2>1. n - w = Len(t) - w - 1
    BY <1>1
  <2> QED
    BY <2>1 DEF Fits, t
<1>4. CASE i <= n - w - 1
  <2>0. i \in 0..(n - w - 1)
    BY <1>1, <1>4
  <2>1. PICK j \in 1..(w + 1) : s[i + j] \in Breaks
    BY <1>2, <2>0 DEF Fits, n
  <2>2. i + j \in 1..n
    BY <1>1, <1>4
  <2> QED
    BY <1>1, <2>1, <2>2
<1>5. CASE i = n - w
  <2>1. CASE c = "\n"
    <3>1. w + 1 \in 1..(w + 1) /\ i + (w + 1) = n + 1
      BY <1>1, <1>5
    <3> QED
      BY <1>1, <2>1, <3>1, NewlineBreaks
  <2>2. CASE c # "\n"
    <3>1. w - pos \in 1..(w + 1) /\ i + (w - pos) = n - pos /\ n - pos \in 1..n
      BY <1>1, <1>2, <1>5, <2>2
    <3>2. pos < n
      BY <1>1, <1>2, <1>5, <2>2
    <3> QED
      BY <1>1, <1>2, <3>1, <3>2
  <2> QED
    BY <2>1, <2>2
<1> QED
  BY <1>1, <1>4, <1>5

LEMMA AppendWraps ==
  ASSUME NEW w \in Nat \ {0}, NEW s \in Seq(Chars), NEW c \in Chars, NEW pos \in Nat,
         Wraps(s, pos, w), c = "\n" \/ pos < w
  PROVE  Wraps(Append(s, c), IF c = "\n" THEN 0 ELSE pos + 1, w)
<1> DEFINE t == Append(s, c)
           n == Len(s)
<1>1. /\ t \in Seq(Chars) /\ n \in Nat /\ Len(t) = n + 1 /\ t[n + 1] = c
      /\ \A k \in 1..n : t[k] = s[k]
  BY AppendIs
<1>2. pos <= n /\ (pos < n => s[n - pos] \in Breaks)
  BY DEF Wraps
<1>3. Fits(t, w)
  BY AppendFits
<1> HIDE DEF t, n
<1>4. CASE c = "\n"
  BY <1>1, <1>3, <1>4, NewlineBreaks DEF Wraps, t
<1>5. CASE c # "\n"
  <2>1. pos + 1 < Len(t) => t[Len(t) - (pos + 1)] \in Breaks
    <3>1. Len(t) - (pos + 1) = n - pos
      BY <1>1
    <3>2. pos + 1 < Len(t) => n - pos \in 1..n /\ pos < n
      BY <1>1, <1>2
    <3> QED
      BY <1>1, <1>2, <3>1, <3>2
  <2> QED
    BY <1>1, <1>2, <1>3, <1>5, <2>1 DEF Wraps, t
<1> QED
  BY <1>4, <1>5

LEMMA WrappedIs ==
  ASSUME NEW s, NEW pos, NEW w, Wraps(s, pos, w)
  PROVE  [text |-> s, pos |-> pos] \in Wrapped(w)
BY DEF Wraps, Wrapped

LEMMA PutKeeps ==
  ASSUME set.width \in Nat, NEW a \in Wrapped(set.width), NEW c \in Chars
  PROVE  Put(a, c) \in Wrapped(set.width) /\ (c = "\n" => Put(a, c).pos = 0 /\ Ends(Put(a, c).text))
<1> DEFINE w == set.width
<1>1. a.text \in Seq(Chars) /\ a.pos \in Nat /\ Wraps(a.text, a.pos, w) /\ w \in Nat
  BY DEF Wrapped
<1>2. CASE w = 0
  <2>1. Put(a, c) = [text |-> Append(a.text, c), pos |-> a.pos]
    BY <1>2 DEF Put
  <2>2. Wraps(Append(a.text, c), a.pos, w) /\ a.pos = 0
    BY <1>1, <1>2 DEF Wraps
  <2>3. c = "\n" => Ends(Append(a.text, c))
    BY <1>1, AppendIs DEF Ends
  <2>4. Put(a, c) \in Wrapped(w)
    BY <2>1, <2>2, WrappedIs, Zenon
  <2> QED
    BY <2>1, <2>2, <2>3, <2>4
<1>3. CASE w > 0
  <2> DEFINE b == IF w > 0 /\ a.pos = w THEN [text |-> Append(a.text, "\n"), pos |-> 0] ELSE a
  <2>1. b.text \in Seq(Chars) /\ b.pos \in Nat /\ Wraps(b.text, b.pos, w) /\ b.pos < w
    <3>1. CASE a.pos = w
      <4>1. Wraps(Append(a.text, "\n"), 0, w)
        BY <1>1, <1>3, AppendWraps, NewlineIn
      <4> QED
        BY <1>3, <3>1, <4>1 DEF Wraps
    <3>2. CASE a.pos # w
      BY <1>1, <1>3, <3>2 DEF Wraps
    <3> QED
      BY <3>1, <3>2
  <2>2. Put(a, c) = [text |-> Append(b.text, c),
                     pos  |-> IF w = 0 THEN b.pos ELSE IF c = "\n" THEN 0 ELSE b.pos + 1]
    BY DEF Put
  <2> HIDE DEF b, w
  <2>3. Put(a, c) = [text |-> Append(b.text, c), pos |-> IF c = "\n" THEN 0 ELSE b.pos + 1]
    <3>1. w # 0
      BY <1>1, <1>3
    <3> QED
      BY <2>2, <3>1, Zenon
  <2>4. Wraps(Append(b.text, c), IF c = "\n" THEN 0 ELSE b.pos + 1, w)
    BY <1>1, <1>3, <2>1, AppendWraps
  <2>5. Put(a, c) \in Wrapped(w)
    BY <2>3, <2>4, WrappedIs, Zenon
  <2>6. c = "\n" => Ends(Append(b.text, c))
    BY <2>1, AppendIs DEF Ends
  <2> QED
    BY <2>3, <2>5, <2>6 DEF w
<1> QED
  BY <1>1, <1>2, <1>3

(* What has been folded over i characters is F[i].                         *)
LEMMA PutFolds ==
  ASSUME set.width \in Nat, NEW a \in Wrapped(set.width), NEW s \in Seq(Chars)
  PROVE  /\ Folded(Put, a, s) \in Wrapped(set.width)
         /\ s = <<>> => Folded(Put, a, s) = a
         /\ Ends(s) /\ s # <<>> => Folded(Put, a, s).pos = 0 /\ Ends(Folded(Put, a, s).text)
<1> DEFINE n == Len(s)
           X == Wrapped(set.width)
           g == [i \in 1..n |-> [x \in X |-> Put(x, s[i])]]
           Steps(f) == f = [i \in 0..n |-> IF i = 0 THEN a
                              ELSE CHOOSE y \in {Put(before, s[i]) : before \in {f[i - 1]}} : TRUE]
           F == CHOOSE f : Steps(f)
<1>1. \A x \in X, c \in Chars : Put(x, c) \in X /\ (c = "\n" => Put(x, c).pos = 0 /\ Ends(Put(x, c).text))
  BY PutKeeps
<1> HIDE DEF X
<1>2. n \in Nat /\ (s = <<>> <=> n = 0) /\ \A i \in 1..n : s[i] \in Chars
  OBVIOUS
<1>3. a \in X /\ g \in [1..n -> [X -> X]]
  BY <1>1, <1>2 DEF X
<1>4. \A h : \A i : (CHOOSE y \in {Put(before, s[i]) : before \in {h[i - 1]}} : TRUE) = Put(h[i - 1], s[i])
  OBVIOUS
<1>5. \E f : Steps(f)
  <2>1. \E f : Recurses(f, n, X, a, g)
    <3> HIDE DEF n, g
    <3> QED
      BY <1>2, <1>3, Recursion, Zenon
  <2>2. PICK f : Recurses(f, n, X, a, g)
    BY <2>1
  <2>3. f \in [0..n -> X] /\ f[0] = a /\ \A i \in 1..n : f[i - 1] \in X /\ f[i] = g[i][f[i - 1]]
    <3> HIDE DEF n, g
    <3> QED
      BY <1>2, <2>2, RecursesIs
  <2>4. \A i \in 1..n : f[i] = Put(f[i - 1], s[i])
    <3>1. \A i \in 1..n : \A x \in X : g[i][x] = Put(x, s[i])
      OBVIOUS
    <3> HIDE DEF g, X, n
    <3> QED
      BY <2>3, <3>1
  <2>5. Steps(f)
    BY <1>2, <1>4, <2>3, <2>4
  <2> QED
    BY <2>5
<1>6. Steps(F)
  BY <1>5, Zenon
<1>7. Folded(Put, a, s) = F[n]
  BY DEF Folded
<1> HIDE DEF F
<1>8. F[0] = a /\ \A i \in 1..n : F[i] = Put(F[i - 1], s[i])
  BY <1>2, <1>4, <1>6
<1>9. \A i \in 1..n : F[i - 1] \in X => F[i] \in X
  BY <1>1, <1>2, <1>8
<1>10. \A i \in 0..n : F[i] \in X
  BY <1>2, <1>3, <1>8, <1>9, Stays
<1>11. n # 0 /\ s[n] = "\n" => F[n].pos = 0 /\ Ends(F[n].text)
  <2> SUFFICES ASSUME n # 0, s[n] = "\n" PROVE F[n].pos = 0 /\ Ends(F[n].text)
    OBVIOUS
  <2>1. n \in 1..n /\ n - 1 \in 0..n /\ (n - 1) + 1 = n
    BY <1>2
  <2>2. F[n] = Put(F[n - 1], s[n]) /\ F[n - 1] \in X /\ s[n] \in Chars
    BY <1>2, <1>8, <1>10, <2>1
  <2> QED
    BY <1>1, <2>2
<1>12. F[n] \in X
  BY <1>2, <1>10
<1> QED
  BY <1>2, <1>7, <1>8, <1>11, <1>12 DEF X, Ends

LEMMA FitKeeps ==
  ASSUME set.width \in Nat \ {0}, NEW a \in Wrapped(set.width), NEW c \in Chars
  PROVE  Fit(a, c) \in Wrapped(set.width) /\ (c = "\n" => Fit(a, c).pos = 0 /\ Ends(Fit(a, c).text))
<1> DEFINE w == set.width
           b == IF a.pos = w /\ c # "\n" THEN [text |-> Append(a.text, "\n"), pos |-> 0] ELSE a
<1>1. a.text \in Seq(Chars) /\ a.pos \in Nat /\ Wraps(a.text, a.pos, w) /\ w \in Nat \ {0}
  BY DEF Wrapped
<1>2. b.text \in Seq(Chars) /\ b.pos \in Nat /\ Wraps(b.text, b.pos, w) /\ (c = "\n" \/ b.pos < w)
  <2>1. CASE a.pos = w /\ c # "\n"
    <3>1. Wraps(Append(a.text, "\n"), 0, w)
      BY <1>1, AppendWraps, NewlineIn
    <3> QED
      BY <1>1, <2>1, <3>1 DEF Wraps
  <2>2. CASE ~(a.pos = w /\ c # "\n")
    BY <1>1, <2>2 DEF Wraps
  <2> QED
    BY <2>1, <2>2
<1>3. Fit(a, c) = [text |-> Append(b.text, c), pos |-> IF c = "\n" THEN 0 ELSE b.pos + 1]
  BY DEF Fit
<1> HIDE DEF b, w
<1>4. Wraps(Append(b.text, c), IF c = "\n" THEN 0 ELSE b.pos + 1, w)
  BY <1>1, <1>2, AppendWraps
<1>5. Fit(a, c) \in Wrapped(w)
  BY <1>3, <1>4, WrappedIs, Zenon
<1>6. c = "\n" => Ends(Append(b.text, c))
  BY <1>2, AppendIs DEF Ends
<1> QED
  BY <1>3, <1>5, <1>6 DEF w

(* What has been folded over i characters is F[i].                         *)
LEMMA FitFolds ==
  ASSUME set.width \in Nat \ {0}, NEW a \in Wrapped(set.width), NEW s \in Seq(Chars)
  PROVE  /\ Folded(Fit, a, s) \in Wrapped(set.width)
         /\ s = <<>> => Folded(Fit, a, s) = a
         /\ Ends(s) /\ s # <<>> => Folded(Fit, a, s).pos = 0 /\ Ends(Folded(Fit, a, s).text)
<1> DEFINE n == Len(s)
           X == Wrapped(set.width)
           g == [i \in 1..n |-> [x \in X |-> Fit(x, s[i])]]
           Steps(f) == f = [i \in 0..n |-> IF i = 0 THEN a
                              ELSE CHOOSE y \in {Fit(before, s[i]) : before \in {f[i - 1]}} : TRUE]
           F == CHOOSE f : Steps(f)
<1>1. \A x \in X, c \in Chars : Fit(x, c) \in X /\ (c = "\n" => Fit(x, c).pos = 0 /\ Ends(Fit(x, c).text))
  BY FitKeeps
<1> HIDE DEF X
<1>2. n \in Nat /\ (s = <<>> <=> n = 0) /\ \A i \in 1..n : s[i] \in Chars
  OBVIOUS
<1>3. a \in X /\ g \in [1..n -> [X -> X]]
  BY <1>1, <1>2 DEF X
<1>4. \A h : \A i : (CHOOSE y \in {Fit(before, s[i]) : before \in {h[i - 1]}} : TRUE) = Fit(h[i - 1], s[i])
  OBVIOUS
<1>5. \E f : Steps(f)
  <2>1. \E f : Recurses(f, n, X, a, g)
    <3> HIDE DEF n, g
    <3> QED
      BY <1>2, <1>3, Recursion, Zenon
  <2>2. PICK f : Recurses(f, n, X, a, g)
    BY <2>1
  <2>3. f \in [0..n -> X] /\ f[0] = a /\ \A i \in 1..n : f[i - 1] \in X /\ f[i] = g[i][f[i - 1]]
    <3> HIDE DEF n, g
    <3> QED
      BY <1>2, <2>2, RecursesIs
  <2>4. \A i \in 1..n : f[i] = Fit(f[i - 1], s[i])
    <3>1. \A i \in 1..n : \A x \in X : g[i][x] = Fit(x, s[i])
      OBVIOUS
    <3> HIDE DEF g, X, n
    <3> QED
      BY <2>3, <3>1
  <2>5. Steps(f)
    BY <1>2, <1>4, <2>3, <2>4
  <2> QED
    BY <2>5
<1>6. Steps(F)
  BY <1>5, Zenon
<1>7. Folded(Fit, a, s) = F[n]
  BY DEF Folded
<1> HIDE DEF F
<1>8. F[0] = a /\ \A i \in 1..n : F[i] = Fit(F[i - 1], s[i])
  BY <1>2, <1>4, <1>6
<1>9. \A i \in 1..n : F[i - 1] \in X => F[i] \in X
  BY <1>1, <1>2, <1>8
<1>10. \A i \in 0..n : F[i] \in X
  BY <1>2, <1>3, <1>8, <1>9, Stays
<1>11. n # 0 /\ s[n] = "\n" => F[n].pos = 0 /\ Ends(F[n].text)
  <2> SUFFICES ASSUME n # 0, s[n] = "\n" PROVE F[n].pos = 0 /\ Ends(F[n].text)
    OBVIOUS
  <2>1. n \in 1..n /\ n - 1 \in 0..n /\ (n - 1) + 1 = n
    BY <1>2
  <2>2. F[n] = Fit(F[n - 1], s[n]) /\ F[n - 1] \in X /\ s[n] \in Chars
    BY <1>2, <1>8, <1>10, <2>1
  <2> QED
    BY <1>1, <2>2
<1>12. F[n] \in X
  BY <1>2, <1>10
<1> QED
  BY <1>2, <1>7, <1>8, <1>11, <1>12 DEF X, Ends

(* Text and position after whole lines.                                    *)
LEMMA LineEnds ==
  ASSUME NEW w \in Nat, NEW s
  PROVE  s \in Screens(w) => Wraps(s, 0, w)
<1> SUFFICES ASSUME s \in Screens(w) PROVE Wraps(s, 0, w)
  OBVIOUS
<1>1. s \in Seq(Chars) /\ Stops(s) /\ (w > 0 => Fits(s, w))
  BY DEF Screens
<1>2. Len(s) \in Nat /\ (0 < Len(s) => s # <<>>)
  BY <1>1
<1> QED
  BY <1>1, <1>2 DEF Wraps, Stops

LEMMA EndsLine ==
  ASSUME NEW w \in Nat, NEW s, Wraps(s, 0, w), w = 0 => Ends(s)
  PROVE  s \in Screens(w)
<1>1. s \in Seq(Chars) /\ (w > 0 => Fits(s, w) /\ (0 < Len(s) => s[Len(s)] \in Breaks))
  BY DEF Wraps
<1>2. Len(s) \in Nat /\ (s # <<>> => 0 < Len(s))
  BY <1>1
<1> QED
  BY <1>1, <1>2, EndsStops DEF Screens, Stops

LEMMA ConcatScreens ==
  ASSUME NEW w \in Nat, NEW s \in Screens(w), NEW t \in Screens(w)
  PROVE  s \o t \in Screens(w)
<1> DEFINE u == s \o t
<1>1. s \in Seq(Chars) /\ t \in Seq(Chars) /\ Stops(s) /\ Stops(t) /\ (w > 0 => Fits(s, w) /\ Fits(t, w))
  BY DEF Screens
<1>2. /\ u \in Seq(Chars) /\ Len(s) \in Nat /\ Len(t) \in Nat /\ Len(u) = Len(s) + Len(t)
      /\ \A k \in 1..Len(s) : u[k] = s[k]
      /\ \A k \in 1..Len(t) : u[Len(s) + k] = t[k]
      /\ (s # <<>> <=> Len(s) > 0) /\ (t # <<>> <=> Len(t) > 0) /\ (u # <<>> <=> Len(u) > 0)
  BY <1>1
<1> HIDE DEF u
<1>3. Stops(u)
  <2>1. CASE Len(t) > 0
    <3>1. u[Len(s) + Len(t)] = t[Len(t)]
      BY <1>2, <2>1
    <3> QED
      BY <1>1, <1>2, <2>1, <3>1 DEF Stops
  <2>2. CASE Len(t) = 0 /\ Len(s) > 0
    <3>1. u[Len(s)] = s[Len(s)]
      BY <1>2, <2>2
    <3> QED
      BY <1>1, <1>2, <2>2, <3>1 DEF Stops
  <2>3. CASE Len(t) = 0 /\ Len(s) = 0
    BY <1>2, <2>3 DEF Stops
  <2> QED
    BY <1>2, <2>1, <2>2, <2>3
<1>4. ASSUME w > 0 PROVE Fits(u, w)
  <2> SUFFICES ASSUME NEW i \in 0..(Len(u) - w - 1) PROVE \E j \in 1..(w + 1) : u[i + j] \in Breaks
    BY DEF Fits
  <2>1. CASE i < Len(s) /\ i + w + 1 <= Len(s)
    <3>1. i \in 0..(Len(s) - w - 1)
      BY <1>2, <2>1
    <3>2. PICK j \in 1..(w + 1) : s[i + j] \in Breaks
      BY <1>1, <1>4, <3>1 DEF Fits
    <3>3. i + j \in 1..Len(s)
      BY <1>2, <2>1
    <3> QED
      BY <1>2, <3>2, <3>3
  <2>2. CASE i < Len(s) /\ i + w + 1 > Len(s)
    <3>1. Len(s) - i \in 1..(w + 1) /\ i + (Len(s) - i) = Len(s)
      BY <1>2, <2>2
    <3>2. u[Len(s)] \in Breaks
      <4>1. Len(s) \in 1..Len(s)
        BY <1>2, <2>2
      <4>2. s # <<>>
        BY <1>2, <2>2
      <4> QED
        BY <1>1, <1>2, <4>1, <4>2 DEF Stops
    <3> QED
      BY <3>1, <3>2
  <2>3. CASE i >= Len(s)
    <3> DEFINE k == i - Len(s)
    <3>1. k \in 0..(Len(t) - w - 1) /\ i = Len(s) + k
      BY <1>2, <2>3
    <3> HIDE DEF k
    <3>2. PICK j \in 1..(w + 1) : t[k + j] \in Breaks
      BY <1>1, <1>4, <3>1 DEF Fits
    <3>3. k + j \in 1..Len(t) /\ i + j = Len(s) + (k + j)
      BY <1>2, <3>1
    <3> QED
      BY <1>2, <3>2, <3>3
  <2> QED
    BY <1>2, <2>1, <2>2, <2>3
<1> QED
  BY <1>2, <1>3, <1>4 DEF Screens, u

LEMMA FitToScreenKeeps ==
  ASSUME set.width \in Nat, NEW s \in Seq(Chars), Ends(s)
  PROVE  FitToScreen(s) \in Screens(set.width)
<1> DEFINE w == set.width
           start == [text |-> <<>>, pos |-> 0]
<1>1. CASE w = 0 \/ Len(s) < w
  <2>1. FitToScreen(s) = s
    BY <1>1 DEF FitToScreen
  <2>2. w > 0 => Fits(s, w)
    BY <1>1 DEF Fits
  <2> QED
    BY <2>1, <2>2, EndsStops DEF Screens
<1>2. CASE ~(w = 0 \/ Len(s) < w)
  <2>1. FitToScreen(s) = Folded(Fit, start, s).text /\ w \in Nat \ {0}
    BY <1>2 DEF FitToScreen
  <2>2. Wraps(<<>>, 0, w)
    BY <2>1 DEF Wraps, Fits
  <2>3. start \in Wrapped(w)
    BY <2>2, WrappedIs
  <2>4. s # <<>>
    BY <1>2, <2>1
  <2>5. /\ Folded(Fit, start, s) \in Wrapped(w)
        /\ Folded(Fit, start, s).pos = 0 /\ Ends(Folded(Fit, start, s).text)
    BY <2>1, <2>3, <2>4, FitFolds
  <2>6. Wraps(Folded(Fit, start, s).text, 0, w)
    BY <2>5 DEF Wrapped
  <2> QED
    BY <2>1, <2>5, <2>6, EndsLine
<1> QED
  BY <1>1, <1>2

-----------------------------------------------------------------------------
(* What texts are put together from.                                       *)

(* The sum of sequences of a kind that sums stay in.                       *)
LEMMA FlatIn ==
  ASSUME NEW X, <<>> \in X, \A x, y \in X : x \o y \in X,
         NEW n \in Nat, NEW s, s \in [1..n -> X]
  PROVE  Flat(s) \in X
<1> DEFINE op(a, b) == a \o b
           base == <<>>
           g == [i \in 1..n |-> [x \in X |-> op(x, s[i])]]
           Steps(f) == f = [i \in 0..n |-> IF i = 0 THEN base
                              ELSE CHOOSE y \in {op(before, s[i]) : before \in {f[i - 1]}} : TRUE]
           F == CHOOSE f : Steps(f)
<1>1. Len(s) = n /\ \A i \in 1..n : s[i] \in X
  OBVIOUS
<1>2. Flat(s) = F[n]
  BY <1>1 DEF Flat, Folded
<1>3. base \in X /\ \A i \in 1..n : \A x \in X : op(x, s[i]) \in X
  BY <1>1
<1> HIDE DEF op, base
<1>4. g \in [1..n -> [X -> X]] /\ \A i \in 1..n : \A x \in X : g[i][x] = op(x, s[i])
  BY <1>3
<1>5. \A h : \A i : (CHOOSE y \in {op(before, s[i]) : before \in {h[i - 1]}} : TRUE) = op(h[i - 1], s[i])
  OBVIOUS
<1> HIDE DEF g
<1>6. \E f : Steps(f)
  <2>1. \E f : Recurses(f, n, X, base, g)
    BY <1>3, <1>4, Recursion, Zenon
  <2>2. PICK f : Recurses(f, n, X, base, g)
    BY <2>1
  <2>3. f \in [0..n -> X] /\ f[0] = base /\ \A i \in 1..n : f[i - 1] \in X /\ f[i] = g[i][f[i - 1]]
    BY <2>2, RecursesIs
  <2>4. \A i \in 1..n : f[i] = op(f[i - 1], s[i])
    BY <1>4, <2>3
  <2>5. Steps(f)
    BY <1>5, <2>3, <2>4
  <2> QED
    BY <2>5
<1>7. Steps(F)
  BY <1>6, Zenon
<1> HIDE DEF F
<1>8. F[0] = base /\ \A i \in 1..n : F[i] = op(F[i - 1], s[i])
  BY <1>5, <1>7
<1>9. \A i \in 1..n : F[i - 1] \in X => F[i] \in X
  BY <1>3, <1>8
<1>10. F[0] \in X
  BY <1>3, <1>8
<1>11. \A i \in 0..n : F[i] \in X
  BY <1>9, <1>10, Stays
<1> QED
  BY <1>2, <1>11

LEMMA FlatChars ==
  ASSUME NEW n \in Nat, NEW s, s \in [1..n -> Seq(Chars)]
  PROVE  Flat(s) \in Seq(Chars)
<1>1. <<>> \in Seq(Chars) /\ \A x, y \in Seq(Chars) : x \o y \in Seq(Chars)
  OBVIOUS
<1> QED
  BY <1>1, FlatIn

LEMMA FunctionIsSeq ==
  ASSUME NEW S, NEW n \in Nat, NEW f \in [1..n -> S]
  PROVE  f \in Seq(S) /\ Len(f) = n
OBVIOUS

LEMMA RepeatChars ==
  ASSUME NEW c \in Chars, NEW n \in Int
  PROVE  Repeat(c, n) \in Seq(Chars)
BY DEF Repeat, Larger

LEMMA SubSeqChars ==
  ASSUME NEW s \in Seq(Chars), NEW k \in Int, k <= Len(s)
  PROVE  SubSeq(s, 1, k) \in Seq(Chars)
OBVIOUS

LEMMA ControlledChars ==
  ASSUME set.control \in {"ignore", "replace", "remove", "consecutive"}, NEW v \in Seq(Chars)
  PROVE  Controlled(v) \in Seq(Chars)
<1> DEFINE n == Len(v)
           X == Seq(Chars)
           base == <<>>
           op(a, i) == IF v[i] # "\n" THEN Append(a, v[i])
                       ELSE IF set.control = "remove" \/ (i > 1 /\ v[i - 1] = "\n") THEN a
                       ELSE Append(a, " ")
           s == [i \in 1..n |-> i]
           g == [i \in 1..n |-> [x \in X |-> op(x, i)]]
           Steps(f) == f = [i \in 0..n |-> IF i = 0 THEN base
                              ELSE CHOOSE y \in {op(before, s[i]) : before \in {f[i - 1]}} : TRUE]
           F == CHOOSE f : Steps(f)
<1>1. " " \in Chars
  BY DEF Chars
<1>2. n \in Nat /\ (\A i \in 1..n : v[i] \in Chars)
  OBVIOUS
<1>3. Len(s) = n /\ \A i \in 1..n : s[i] = i
  BY <1>2
<1>4. CASE set.control = "ignore"
  BY <1>4 DEF Controlled
<1>5. CASE set.control = "replace"
  <2> DEFINE e(i) == IF v[i] = "\n" THEN " " ELSE v[i]
  <2>1. Controlled(v) = [i \in 1..n |-> e(i)]
    BY <1>5 DEF Controlled
  <2>2. \A i \in 1..n : e(i) \in Chars
    BY <1>1, <1>2
  <2> HIDE DEF n, e
  <2>3. [i \in 1..n |-> e(i)] \in [1..n -> Chars]
    BY <2>2
  <2> QED
    BY <1>2, <2>1, <2>3, FunctionIsSeq
<1>6. CASE set.control \in {"remove", "consecutive"}
  <2>1. Controlled(v) = Folded(LAMBDA a, i : op(a, i), base, s)
    <3>1. set.control \notin {"ignore", "replace"}
      BY <1>6
    <3> QED
      BY <1>6, <3>1 DEF Controlled
  <2>2. Folded(LAMBDA a, i : op(a, i), base, s) = F[n]
    BY <1>3 DEF Folded
  <2>3. base \in X
    OBVIOUS
  <2>4. \A i \in 1..n : \A x \in X : op(x, i) \in X
    <3> SUFFICES ASSUME NEW i \in 1..n, NEW x \in X PROVE op(x, i) \in X
      OBVIOUS
    <3>1. v[i] \in Chars
      BY <1>2
    <3>2. Append(x, v[i]) \in X /\ Append(x, " ") \in X
      BY <1>1, <3>1, AppendIs
    <3> HIDE DEF X
    <3> QED
      BY <3>2
  <2> HIDE DEF op, base, X, n, s
  <2>5. g \in [1..n -> [X -> X]] /\ \A i \in 1..n : \A x \in X : g[i][x] = op(x, i)
    BY <2>4
  <2>6. \A h : \A i : (CHOOSE y \in {op(before, s[i]) : before \in {h[i - 1]}} : TRUE) = op(h[i - 1], s[i])
    OBVIOUS
  <2> HIDE DEF g
  <2>7. \E f : Steps(f)
    <3>1. \E f : Recurses(f, n, X, base, g)
      BY <1>2, <2>3, <2>5, Recursion, Zenon
    <3>2. PICK f : Recurses(f, n, X, base, g)
      BY <3>1
    <3>3. f \in [0..n -> X] /\ f[0] = base /\ \A i \in 1..n : f[i - 1] \in X /\ f[i] = g[i][f[i - 1]]
      BY <1>2, <3>2, RecursesIs
    <3>4. \A i \in 1..n : f[i] = op(f[i - 1], s[i])
      <4> SUFFICES ASSUME NEW i \in 1..n PROVE f[i] = op(f[i - 1], s[i])
        OBVIOUS
      <4>1. s[i] = i
        BY <1>3
      <4>2. f[i - 1] \in X /\ f[i] = g[i][f[i - 1]]
        BY <3>3
      <4>3. g[i][f[i - 1]] = op(f[i - 1], i)
        BY <2>5, <4>2, Zenon
      <4> QED
        BY <4>1, <4>2, <4>3, Zenon
    <3>5. Steps(f)
      BY <1>2, <2>6, <3>3, <3>4
    <3> QED
      BY <3>5
  <2>8. Steps(F)
    BY <2>7, Zenon
  <2> HIDE DEF F
  <2>9. F[0] = base /\ \A i \in 1..n : F[i] = op(F[i - 1], s[i])
    BY <1>2, <2>6, <2>8
  <2>10. F[0] \in X /\ \A i \in 1..n : F[i - 1] \in X => F[i] \in X
    BY <1>3, <2>3, <2>4, <2>9
  <2>11. \A i \in 0..n : F[i] \in X
    BY <1>2, <2>10, Stays
  <2>12. F[n] \in X
    BY <1>2, <2>11
  <2> QED
    BY <2>1, <2>2, <2>12 DEF X
<1> QED
  BY <1>4, <1>5, <1>6

(* At the start of a line.                                                 *)
Rested(w) == [text : Screens(w), pos : {0}]

LEMMA RestedWrapped ==
  ASSUME NEW w \in Nat, NEW a \in Rested(w)
  PROVE  a \in Wrapped(w)
<1>1. a = [text |-> a.text, pos |-> 0] /\ a.text \in Screens(w)
  BY DEF Rested
<1> QED
  BY <1>1, LineEnds, WrappedIs

LEMMA SomeOut ==
  ASSUME set.width \in Nat, NEW a \in Wrapped(set.width), NEW s \in Seq(Chars)
  PROVE  WriteOut(a, s) \in Wrapped(set.width)
<1>1. WriteOut(a, s) = Folded(Put, a, s)
  BY DEF WriteOut
<1> QED
  BY <1>1, PutFolds

LEMMA LineOut ==
  ASSUME set.width \in Nat, NEW a \in Wrapped(set.width), NEW s \in Seq(Chars), Ends(s), s # <<>>
  PROVE  WriteOut(a, s) \in Rested(set.width)
<1> DEFINE b == WriteOut(a, s)
<1>1. WriteOut(a, s) = Folded(Put, a, s)
  BY DEF WriteOut
<1>2. b \in Wrapped(set.width) /\ b.pos = 0 /\ Ends(b.text)
  BY <1>1, PutFolds
<1> HIDE DEF b
<1>3. Wraps(b.text, 0, set.width) /\ b = [text |-> b.text, pos |-> 0]
  BY <1>2 DEF Wrapped
<1>4. b.text \in Screens(set.width)
  BY <1>2, <1>3, EndsLine
<1>5. [text |-> b.text, pos |-> 0] \in Rested(set.width)
  BY <1>4 DEF Rested
<1>6. b \in Rested(set.width)
  BY <1>3, <1>5, Zenon
<1> QED
  BY <1>6 DEF b

LEMMA LinesOut ==
  ASSUME set.width \in Nat, NEW a \in Rested(set.width), NEW s \in Seq(Chars), Ends(s)
  PROVE  WriteOut(a, s) \in Rested(set.width)
<1>1. a \in Wrapped(set.width)
  BY RestedWrapped
<1>2. CASE s = <<>>
  <2>1. WriteOut(a, s) = Folded(Put, a, s)
    BY DEF WriteOut
  <2> QED
    BY <1>1, <1>2, <2>1, PutFolds
<1>3. CASE s # <<>>
  BY <1>1, <1>3, LineOut
<1> QED
  BY <1>2, <1>3, Zenon

LEMMA LineIs ==
  ASSUME NEW s \in Seq(Chars)
  PROVE  s \o <<"\n">> \in Seq(Chars) /\ Ends(s \o <<"\n">>) /\ s \o <<"\n">> # <<>>
<1> DEFINE t == s \o <<"\n">>
<1>1. <<"\n">> \in Seq(Chars) /\ Len(<<"\n">>) = 1 /\ <<"\n">>[1] = "\n"
  BY NewlineIn
<1>2. t \in Seq(Chars) /\ Len(t) = Len(s) + 1 /\ t[Len(s) + 1] = "\n" /\ Len(s) \in Nat
  BY <1>1
<1> QED
  BY <1>2 DEF Ends

LEMMA NewlineOut ==
  ASSUME set.width \in Nat, NEW a \in Wrapped(set.width)
  PROVE  WriteOut(a, <<"\n">>) \in Rested(set.width)
<1>1. <<"\n">> \in Seq(Chars) /\ Ends(<<"\n">>) /\ <<"\n">> # <<>>
  BY NewlineIn DEF Ends
<1> QED
  BY <1>1, LineOut

-----------------------------------------------------------------------------
(* Cells, headings and rows.                                               *)
Column == [name : Seq(STRING), type : Types, length : Nat]

LEMMA CharsAre ==
  /\ " " \in Chars /\ "|" \in Chars /\ "-" \in Chars /\ "+" \in Chars /\ "." \in Chars
  /\ "0" \in Chars /\ "x" \in Chars /\ "1" \in Chars /\ "2" \in Chars /\ "3" \in Chars
  /\ "NULL" \in Chars /\ "m" \in Chars /\ "e" \in Chars
BY DEF Chars

LEMMA SettingIs ==
  ASSUME set \in Settings
  PROVE  /\ set.width \in Nat /\ set.headers \in Int /\ set.fixed \in Nat /\ set.variable \in Nat
         /\ set.level \in Int /\ set.control \in {"ignore", "replace", "remove", "consecutive"}
BY FormatterAssumption

LEMMA TableIs ==
  ASSUME NEW t \in Tables
  PROVE  t \in Seq(Column) /\ t # <<>>
BY FormatterAssumption DEF Column

LEMMA NameChars ==
  ASSUME NEW c \in Column
  PROVE  c.name \in Seq(Chars) /\ Len(c.name) \in Nat
<1>1. c.name \in Seq(STRING)
  BY DEF Column
<1>2. STRING \subseteq Chars
  BY DEF Chars
<1>3. Len(c.name) \in Nat /\ c.name \in [1..Len(c.name) -> STRING]
  BY <1>1
<1>4. c.name \in [1..Len(c.name) -> Chars]
  BY <1>2, <1>3
<1> QED
  BY <1>3, <1>4, FunctionIsSeq

LEMMA WidthIs ==
  ASSUME set \in Settings, NEW c \in Column
  PROVE  DisplayWidth(c) \in Nat
<1>1. Len(c.name) \in Nat /\ c.type \in Types /\ c.length \in Nat
  BY NameChars DEF Column
<1>2. set.fixed \in Nat /\ set.variable \in Nat
  BY SettingIs
<1>3. \A a, b \in Nat : Larger(a, b) \in Nat /\ Smaller(a, b) \in Nat
  BY DEF Larger, Smaller
<1> DEFINE length == IF set.fixed > 0 THEN Smaller(set.fixed, c.length) ELSE c.length
<1>4. length \in Nat
  BY <1>1, <1>2, <1>3
<1> HIDE DEF length
<1>5. CASE set.variable = 0
  BY <1>5 DEF DisplayWidth
<1>6. CASE set.variable # 0
  <2>1. DisplayWidth(c) = CASE c.type = "number"             -> Larger(3, Len(c.name))
                            [] c.type \in {"char", "binary"} -> Larger(length, Len(c.name))
                            [] IsLargeVariable(c)            -> set.variable
    BY <1>6, Zenon DEF DisplayWidth, length
  <2>2. Larger(3, Len(c.name)) \in Nat /\ Larger(length, Len(c.name)) \in Nat
    BY <1>1, <1>3, <1>4
  <2>3. DisplayWidth(c) \in {Larger(3, Len(c.name)), Larger(length, Len(c.name)), set.variable}
    BY <1>1, <2>1, Zenon DEF Types, IsLargeVariable
  <2> QED
    BY <1>2, <2>2, <2>3
<1> QED
  BY <1>5, <1>6

LEMMA CellChars ==
  ASSUME set \in Settings, NEW c \in Column, NEW v \in Seq(Chars)
  PROVE  Cell(c, v) \in Seq(Chars)
<1> DEFINE width == DisplayWidth(c)
           shown == IF IsBinary(c) THEN <<"0", "x">> \o v
                    ELSE IF HasControls(c) THEN Controlled(v) ELSE v
           pad    == IF xml \/ set.format # "horizontal" \/ set.trim THEN <<>>
                     ELSE Repeat(" ", width - Len(shown))
           padded == IF c.type = "number" THEN pad \o shown ELSE shown \o pad
<1>1. width \in Nat
  BY WidthIs
<1>2. shown \in Seq(Chars)
  <2>1. <<"0", "x">> \in Seq(Chars)
    <3>1. "0" \in Chars /\ "x" \in Chars
      BY CharsAre, Zenon
    <3> QED
      BY <3>1
  <2>2. Controlled(v) \in Seq(Chars)
    BY SettingIs, ControlledChars
  <2> QED
    BY <2>1, <2>2
<1>3. Cell(c, v) = IF ~xml /\ width > 0 THEN SubSeq(padded, 1, Smaller(width, Len(padded))) ELSE padded
  BY DEF Cell
<1> HIDE DEF width, shown
<1>4. pad \in Seq(Chars)
  <2>1. width - Len(shown) \in Int
    <3>1. Len(shown) \in Nat
      BY <1>2
    <3> QED
      BY <1>1, <3>1
  <2>2. Repeat(" ", width - Len(shown)) \in Seq(Chars)
    BY <2>1, RepeatChars, CharsAre
  <2>3. pad = <<>> \/ pad = Repeat(" ", width - Len(shown))
    BY Zenon
  <2> HIDE DEF pad
  <2>4. <<>> \in Seq(Chars)
    OBVIOUS
  <2> QED
    BY <2>2, <2>3, <2>4, Zenon
<1> HIDE DEF pad
<1>5. padded \in Seq(Chars)
  BY <1>2, <1>4
<1> HIDE DEF padded
<1>6. Smaller(width, Len(padded)) \in Int /\ Smaller(width, Len(padded)) <= Len(padded)
  BY <1>1, <1>5 DEF Smaller
<1> QED
  BY <1>3, <1>5, <1>6, SubSeqChars

(* The greatest of numbers that have one: the longest name or value.       *)
LEMMA MaxIs ==
  ASSUME NEW S, S \subseteq Int, S # {}, NEW top \in Int, \A m \in S : m <= top
  PROVE  Max(S) \in S /\ \A m \in S : Max(S) >= m
<1>1. \E n \in S : \A m \in S : n >= m
  BY Greatest
<1> QED
  BY <1>1 DEF Max

LEMMA LongestIs ==
  ASSUME NEW n \in Nat \ {0}, NEW f \in [1..n -> Int]
  PROVE  Max({f[i] : i \in 1..n}) \in Int
<1> DEFINE S == {f[i] : i \in 1..n}
<1>1. PICK top \in Int : \A i \in 1..n : f[i] <= top
  BY Bounded
<1>2. S \subseteq Int /\ \A m \in S : m <= top
  BY <1>1
<1>3. f[1] \in S
  OBVIOUS
<1> HIDE DEF S
<1>4. Max(S) \in S
  BY <1>2, <1>3, MaxIs
<1> QED
  BY <1>2, <1>4 DEF S

LEMMA ConcatChars ==
  ASSUME NEW s \in Seq(Chars), NEW t \in Seq(Chars)
  PROVE  s \o t \in Seq(Chars)
OBVIOUS

LEMMA OneChar ==
  ASSUME NEW c \in Chars
  PROVE  <<c>> \in Seq(Chars) /\ <<>> \in Seq(Chars)
OBVIOUS

(* A heading is as wide as its column, or wider than the screen.           *)
LEMMA HeadingsFit ==
  ASSUME set \in Settings, cols \in Seq(Column)
  PROVE  Headings \in Screens(set.width)
<1> DEFINE n == Len(cols)
           name(c) == SubSeq(c.name, 1, Smaller(Len(c.name), DisplayWidth(c)))
                      \o Repeat(" ", IF ~set.trim THEN Smaller(DisplayWidth(c), MaxPad) - Len(c.name)
                                     ELSE IF c.name = <<>> THEN 1 ELSE 0)
           dash(c) == Repeat("-", IF set.trim THEN Larger(1, Len(c.name)) ELSE Smaller(DisplayWidth(c), MaxPad))
           bar(i) == IF i < n THEN <<"|">> ELSE <<>>
           names  == Flat([i \in 1..n |-> name(cols[i]) \o bar(i)]) \o <<"\n">>
           dashes == Flat([i \in 1..n |-> dash(cols[i]) \o bar(i)]) \o <<"\n">>
<1>1. n \in Nat /\ \A i \in 1..n : cols[i] \in Column
  OBVIOUS
<1>2. Headings = FitToScreen(names) \o FitToScreen(dashes)
  BY DEF Headings
<1>3. \A c \in Column : name(c) \in Seq(Chars)
  <2> SUFFICES ASSUME NEW c \in Column PROVE name(c) \in Seq(Chars)
    OBVIOUS
  <2> DEFINE w == DisplayWidth(c)
             k == IF ~set.trim THEN Smaller(w, MaxPad) - Len(c.name) ELSE IF c.name = <<>> THEN 1 ELSE 0
  <2>1. c.name \in Seq(Chars) /\ Len(c.name) \in Nat /\ w \in Nat
    BY NameChars, WidthIs
  <2> HIDE DEF w
  <2>2. k \in Int
    BY <2>1, FormatterAssumption DEF Smaller
  <2>3. Smaller(Len(c.name), w) \in Int /\ Smaller(Len(c.name), w) <= Len(c.name)
    BY <2>1 DEF Smaller
  <2> HIDE DEF k
  <2>4. SubSeq(c.name, 1, Smaller(Len(c.name), w)) \in Seq(Chars)
    BY <2>1, <2>3, SubSeqChars
  <2>5. Repeat(" ", k) \in Seq(Chars)
    BY <2>2, RepeatChars, CharsAre
  <2>6. SubSeq(c.name, 1, Smaller(Len(c.name), w)) \o Repeat(" ", k) \in Seq(Chars)
    BY <2>4, <2>5, ConcatChars
  <2> QED
    BY <2>6 DEF w, k
<1>4. \A c \in Column : dash(c) \in Seq(Chars)
  <2> SUFFICES ASSUME NEW c \in Column PROVE dash(c) \in Seq(Chars)
    OBVIOUS
  <2> DEFINE k == IF set.trim THEN Larger(1, Len(c.name)) ELSE Smaller(DisplayWidth(c), MaxPad)
  <2>1. Len(c.name) \in Nat /\ DisplayWidth(c) \in Nat
    BY NameChars, WidthIs
  <2>2. k \in Int
    BY <2>1, FormatterAssumption DEF Larger, Smaller
  <2> HIDE DEF k
  <2>3. Repeat("-", k) \in Seq(Chars)
    BY <2>2, RepeatChars, CharsAre
  <2> QED
    BY <2>3 DEF k
<1>5. \A i \in 1..n : bar(i) \in Seq(Chars)
  <2>1. <<"|">> \in Seq(Chars) /\ <<>> \in Seq(Chars)
    BY OneChar, CharsAre
  <2> QED
    BY <2>1
<1> HIDE DEF name, dash, bar
<1>6. names \in Seq(Chars) /\ Ends(names)
  <2>1. \A i \in 1..n : name(cols[i]) \o bar(i) \in Seq(Chars)
    BY <1>1, <1>3, <1>5, ConcatChars
  <2> DEFINE s == [i \in 1..n |-> name(cols[i]) \o bar(i)]
  <2> HIDE DEF n
  <2>2. s \in [1..n -> Seq(Chars)]
    BY <2>1
  <2> HIDE DEF s
  <2>3. Flat(s) \in Seq(Chars)
    BY <1>1, <2>2, FlatChars
  <2>4. Flat(s) \o <<"\n">> \in Seq(Chars) /\ Ends(Flat(s) \o <<"\n">>)
    BY <2>3, LineIs
  <2> QED
    BY <2>4 DEF s
<1>7. dashes \in Seq(Chars) /\ Ends(dashes)
  <2>1. \A i \in 1..n : dash(cols[i]) \o bar(i) \in Seq(Chars)
    BY <1>1, <1>4, <1>5, ConcatChars
  <2> DEFINE s == [i \in 1..n |-> dash(cols[i]) \o bar(i)]
  <2> HIDE DEF n
  <2>2. s \in [1..n -> Seq(Chars)]
    BY <2>1
  <2> HIDE DEF s
  <2>3. Flat(s) \in Seq(Chars)
    BY <1>1, <2>2, FlatChars
  <2>4. Flat(s) \o <<"\n">> \in Seq(Chars) /\ Ends(Flat(s) \o <<"\n">>)
    BY <2>3, LineIs
  <2> QED
    BY <2>4 DEF s
<1> HIDE DEF names, dashes
<1>8. FitToScreen(names) \in Screens(set.width) /\ FitToScreen(dashes) \in Screens(set.width)
  BY <1>6, <1>7, FitToScreenKeeps, SettingIs
<1>9. set.width \in Nat
  BY SettingIs
<1> QED
  BY <1>2, <1>8, <1>9, ConcatScreens

(* Rows: what is known of the values.                                      *)
RowsOf(columns) == [1..Len(columns) -> Seq(Chars)]

LEMMA FlatOf ==
  ASSUME NEW n \in Nat, NEW s, \A i \in 1..n : s[i] \in Seq(Chars), s = [i \in 1..n |-> s[i]]
  PROVE  Flat(s) \in Seq(Chars)
<1>1. s \in [1..n -> Seq(Chars)]
  OBVIOUS
<1> QED
  BY <1>1, FlatChars

LEMMA HorizontalRowRests ==
  ASSUME set \in Settings, cols \in Seq(Column), Len(added) \in Nat,
         NEW a \in Rested(set.width), NEW row \in RowsOf(cols)
  PROVE  HorizontalRow(a, row) \in Rested(set.width)
<1> DEFINE n == Len(cols)
           line == Flat([i \in 1..n |-> (IF i > 1 THEN <<"|">> ELSE <<>>) \o Cell(cols[i], row[i])])
           cells == WriteOut(a, line)
           gap   == RowsBetweenHeaders
           again == IF gap > 0 /\ (RowCount + 1) % gap = 0
                    THEN MustWriteOut(WriteOut(cells, <<"\n">>), Headings) ELSE cells
<1>1. set.width \in Nat
  BY SettingIs
<1>2. line \in Seq(Chars)
  <2> DEFINE bar(i) == IF i > 1 THEN <<"|">> ELSE <<>>
             s == [i \in 1..n |-> bar(i) \o Cell(cols[i], row[i])]
  <2>1. \A i \in 1..n : bar(i) \in Seq(Chars)
    <3>1. <<"|">> \in Seq(Chars) /\ <<>> \in Seq(Chars)
      BY OneChar, CharsAre
    <3> QED
      BY <3>1
  <2>2. n \in Nat /\ \A i \in 1..n : cols[i] \in Column /\ row[i] \in Seq(Chars)
    BY DEF RowsOf
  <2> HIDE DEF bar
  <2>3. \A i \in 1..n : Cell(cols[i], row[i]) \in Seq(Chars)
    BY <2>2, CellChars
  <2>4. \A i \in 1..n : bar(i) \o Cell(cols[i], row[i]) \in Seq(Chars)
    BY <2>1, <2>3, ConcatChars
  <2> HIDE DEF n
  <2>5. s \in [1..n -> Seq(Chars)]
    BY <2>4
  <2> HIDE DEF s
  <2>6. Flat(s) \in Seq(Chars)
    BY <2>2, <2>5, FlatChars
  <2> QED
    BY <2>6 DEF s, n, bar
<1>3. HorizontalRow(a, row) = WriteOut(again, <<"\n">>)
  BY DEF HorizontalRow
<1> HIDE DEF line
<1>4. cells \in Wrapped(set.width)
  BY <1>1, <1>2, RestedWrapped, SomeOut
<1> HIDE DEF cells
<1>5. MustWriteOut(WriteOut(cells, <<"\n">>), Headings) \in Rested(set.width)
  <2> DEFINE b == WriteOut(cells, <<"\n">>)
  <2>1. b \in Rested(set.width)
    BY <1>1, <1>4, NewlineOut
  <2> HIDE DEF b
  <2>2. b = [text |-> b.text, pos |-> 0] /\ b.text \in Screens(set.width)
    BY <2>1 DEF Rested
  <2>3. b.text \o Headings \in Screens(set.width)
    BY <1>1, <2>2, HeadingsFit, ConcatScreens
  <2>4. b.pos = 0
    BY <2>2
  <2>5. MustWriteOut(b, Headings) \in Rested(set.width)
    BY <2>3, <2>4 DEF MustWriteOut, Rested
  <2> QED
    BY <2>5 DEF b
<1>6. again \in Wrapped(set.width)
  BY <1>1, <1>4, <1>5, RestedWrapped
<1> HIDE DEF again
<1> QED
  BY <1>1, <1>3, <1>6, NewlineOut

LEMMA VerticalRowRests ==
  ASSUME set \in Settings, cols \in Seq(Column), cols # <<>>,
         NEW a \in Rested(set.width), NEW row \in RowsOf(cols)
  PROVE  VerticalRow(a, row) \in Rested(set.width)
<1> DEFINE n == Len(cols)
           longest == Max({Len(cols[i].name) : i \in 1..n})
           name(c) == IF RowsBetweenHeaders = -1 THEN <<>>
                      ELSE c.name \o Repeat(" ", longest - Len(c.name) + 1)
           s == [i \in 1..n |-> name(cols[i]) \o Cell(cols[i], row[i]) \o <<"\n">>]
<1>1. set.width \in Nat
  BY SettingIs
<1>2. n \in Nat \ {0} /\ \A i \in 1..n : cols[i] \in Column /\ row[i] \in Seq(Chars)
  BY DEF RowsOf
<1>3. VerticalRow(a, row) = WriteOut(a, Flat(s) \o <<"\n">>)
  BY DEF VerticalRow
<1> HIDE DEF n
<1>4. longest \in Int
  <2> DEFINE f == [i \in 1..n |-> Len(cols[i].name)]
  <2>1. f \in [1..n -> Int]
    BY <1>2, NameChars
  <2>2. {f[i] : i \in 1..n} = {Len(cols[i].name) : i \in 1..n}
    OBVIOUS
  <2> HIDE DEF f
  <2>3. Max({f[i] : i \in 1..n}) \in Int
    BY <1>2, <2>1, LongestIs
  <2> QED
    BY <2>2, <2>3
<1> HIDE DEF longest
<1>5. \A c \in Column : name(c) \in Seq(Chars)
  <2> SUFFICES ASSUME NEW c \in Column PROVE name(c) \in Seq(Chars)
    OBVIOUS
  <2>1. c.name \in Seq(Chars) /\ Len(c.name) \in Nat
    BY NameChars
  <2> DEFINE k == longest - Len(c.name) + 1
  <2>2. k \in Int
    BY <1>4, <2>1
  <2> HIDE DEF k
  <2>3. Repeat(" ", k) \in Seq(Chars)
    BY <2>2, RepeatChars, CharsAre
  <2>4. c.name \o Repeat(" ", k) \in Seq(Chars)
    BY <2>1, <2>3, ConcatChars
  <2>5. <<>> \in Seq(Chars)
    OBVIOUS
  <2> QED
    BY <2>4, <2>5 DEF k
<1> HIDE DEF name
<1>6. \A i \in 1..n : name(cols[i]) \o Cell(cols[i], row[i]) \o <<"\n">> \in Seq(Chars)
  <2> SUFFICES ASSUME NEW i \in 1..n
               PROVE  name(cols[i]) \o Cell(cols[i], row[i]) \o <<"\n">> \in Seq(Chars)
    OBVIOUS
  <2>1. name(cols[i]) \in Seq(Chars) /\ Cell(cols[i], row[i]) \in Seq(Chars)
    BY <1>2, <1>5, CellChars
  <2>2. name(cols[i]) \o Cell(cols[i], row[i]) \in Seq(Chars)
    BY <2>1, ConcatChars
  <2> QED
    BY <2>2, LineIs
<1>7. s \in [1..n -> Seq(Chars)]
  BY <1>6
<1> HIDE DEF s
<1>8. Flat(s) \in Seq(Chars)
  BY <1>2, <1>7, FlatChars
<1>9. Flat(s) \o <<"\n">> \in Seq(Chars) /\ Ends(Flat(s) \o <<"\n">>)
  BY <1>8, LineIs
<1> QED
  BY <1>1, <1>3, <1>9, LinesOut

LEMMA DefaultRowRests ==
  ASSUME set \in Settings, cols \in Seq(Column), cols # <<>>, Len(added) \in Nat,
         NEW a \in Rested(set.width), NEW row \in RowsOf(cols)
  PROVE  DefaultRow(a, row) \in Rested(set.width)
<1>1. CASE xml
  <2>1. cols[1] \in Column /\ row[1] \in Seq(Chars)
    BY DEF RowsOf
  <2>2. Cell(cols[1], row[1]) \in Seq(Chars)
    BY <2>1, CellChars
  <2>3. Cell(cols[1], row[1]) \o <<"\n">> \in Seq(Chars) /\ Ends(Cell(cols[1], row[1]) \o <<"\n">>)
    BY <2>2, LineIs
  <2>4. DefaultRow(a, row) = WriteOut(a, Cell(cols[1], row[1]) \o <<"\n">>)
    BY <1>1 DEF DefaultRow
  <2> QED
    BY <2>3, <2>4, SettingIs, LinesOut
<1>2. CASE ~xml /\ set.format = "horizontal"
  BY <1>2, HorizontalRowRests DEF DefaultRow
<1>3. CASE ~xml /\ set.format # "horizontal"
  BY <1>3, VerticalRowRests DEF DefaultRow
<1> QED
  BY <1>1, <1>2, <1>3

-----------------------------------------------------------------------------
(* The ascii table.                                                        *)
LEMMA ColWidthIs ==
  ASSUME set \in Settings, cols \in Seq(Column), pending \in Seq(RowsOf(cols)), Infinite \in Nat,
         NEW i \in 1..Len(cols)
  PROVE  ColWidth(i) \in Int
<1> DEFINE n == Len(pending)
           f == [r \in 1..n |-> Len(pending[r][i])]
           S == {Len(cols[i].name)} \cup {Len(pending[r][i]) : r \in 1..n}
<1>1. n \in Nat /\ Len(cols[i].name) \in Nat
  BY NameChars
<1>2. f \in [1..n -> Int]
  BY DEF RowsOf
<1>3. \A r \in 1..n : f[r] = Len(pending[r][i]) /\ Len(pending[r][i]) \in Int
  BY <1>2
<1> HIDE DEF f, n
<1>4. PICK top \in Int : \A r \in 1..n : f[r] <= top
  BY <1>1, <1>2, Bounded
<1>5. S \subseteq Int /\ S # {}
  BY <1>1, <1>3
<1>6. \E most \in Int : \A m \in S : m <= most
  <2>1. \E most \in Int : most >= top /\ most >= Len(cols[i].name)
    BY <1>1
  <2>2. PICK most \in Int : most >= top /\ most >= Len(cols[i].name)
    BY <2>1
  <2>3. \A r \in 1..n : Len(pending[r][i]) <= most
    BY <1>3, <1>4, <2>2
  <2>4. \A m \in S : m <= most
    BY <2>2, <2>3
  <2> QED
    BY <2>4
<1> HIDE DEF S
<1>7. Max(S) \in Int
  BY <1>5, <1>6, MaxIs
<1>8. MaxWidth \in Int
  BY SettingIs DEF MaxWidth
<1>9. ColWidth(i) = Smaller(Larger(MaxWidth - 4, 1), Max(S))
  BY DEF ColWidth, S, n
<1> QED
  BY <1>7, <1>8, <1>9 DEF Smaller, Larger

(* Each segment begins behind the one before and ends at a column.         *)
Spans(n) == {p \in (1..n) \X (1..n) : p[1] <= p[2]}

LEMMA SegmentsAre ==
  ASSUME cols \in Seq(Column)
  PROVE  Segments \in Seq(Spans(Len(cols)))
<1> DEFINE n == Len(cols)
           end(from) == Max({from} \cup {to \in from..n : TotalWidth(from, to) <= MaxWidth})
           X == Seq(Spans(n))
           base == <<>>
           op(from, rest) == <<<<from, end(from)>>>> \o rest
           next == [from \in 1..n |-> end(from) + 1]
           g == [from \in 1..n |-> [x \in X |-> op(from, x)]]
           Steps(f) == f = [from \in 1..(n + 1) |-> IF from > n THEN base ELSE op(from, f[end(from) + 1])]
           F == CHOOSE f : Steps(f)
<1>1. n \in Nat
  OBVIOUS
<1>2. Segments = F[1]
  BY DEF Segments
<1>3. base \in X
  OBVIOUS
<1> HIDE DEF n
<1>4. \A from \in 1..n : end(from) \in from..n
  <2> SUFFICES ASSUME NEW from \in 1..n PROVE end(from) \in from..n
    OBVIOUS
  <2> DEFINE S == {from} \cup {to \in from..n : TotalWidth(from, to) <= MaxWidth}
  <2>1. S \subseteq from..n /\ S # {}
    BY <1>1
  <2> HIDE DEF S
  <2>2. S \subseteq Int /\ n \in Int /\ \A m \in S : m <= n
    BY <1>1, <2>1
  <2>3. Max(S) \in S
    BY <2>1, <2>2, MaxIs
  <2> QED
    BY <2>1, <2>3 DEF S
<1> HIDE DEF end
<1>5. \A from \in 1..n : \A x \in X : op(from, x) \in X
  <2> SUFFICES ASSUME NEW from \in 1..n, NEW x \in X PROVE op(from, x) \in X
    OBVIOUS
  <2>1. <<from, end(from)>> \in Spans(n)
    BY <1>1, <1>4 DEF Spans
  <2> DEFINE p == <<from, end(from)>>
  <2> HIDE DEF p
  <2>2. <<p>> \o x \in X
    BY <2>1 DEF p
  <2> QED
    BY <2>2 DEF p
<1>6. next \in [1..n -> 1..(n + 1)] /\ \A from \in 1..n : next[from] = end(from) + 1 /\ next[from] > from
  BY <1>1, <1>4
<1> HIDE DEF op, base, X, next
<1>7. g \in [1..n -> [X -> X]] /\ \A from \in 1..n : \A x \in X : g[from][x] = op(from, x)
  BY <1>5
<1> HIDE DEF g
<1>8. \E f : Steps(f)
  <2>1. \E f : Descends(f, n, X, base, g, next)
    BY <1>1, <1>3, <1>6, <1>7, Descent, Zenon
  <2>2. PICK f : Descends(f, n, X, base, g, next)
    BY <2>1
  <2>3. f \in [1..(n + 1) -> X] /\ f[n + 1] = base /\ \A i \in 1..n : f[next[i]] \in X /\ f[i] = g[i][f[next[i]]]
    BY <1>1, <1>6, <2>2 DEF Descends
  <2>4. \A i \in 1..n : f[i] = op(i, f[end(i) + 1])
    BY <1>6, <1>7, <2>3
  <2>5. Steps(f)
    BY <1>1, <2>3, <2>4
  <2> QED
    BY <2>5
<1>9. Steps(F)
  BY <1>8, Zenon
<1> HIDE DEF F
<1>10. F[n + 1] = base /\ \A i \in 1..n : F[i] = op(i, F[next[i]])
  BY <1>1, <1>6, <1>9
<1>11. F[n + 1] \in X /\ \A i \in 1..n : F[next[i]] \in X => F[i] \in X
  BY <1>3, <1>5, <1>10
<1>12. \A i \in 1..(n + 1) : F[i] \in X
  BY <1>1, <1>6, <1>11, StaysBack
<1>13. F[1] \in X
  BY <1>1, <1>12
<1> QED
  BY <1>2, <1>13 DEF X, n

LEMMA FittedChars ==
  ASSUME NEW v \in Seq(Chars), NEW width \in Int, NEW right
  PROVE  Fitted(v, width, right) \in Seq(Chars)
<1>1. Len(v) \in Nat
  OBVIOUS
<1>2. CASE Len(v) > width
  <2>1. SubSeq(v, 1, width - 3) \in Seq(Chars) /\ SubSeq(v, 1, width) \in Seq(Chars)
    BY <1>1, <1>2, SubSeqChars
  <2>2. Repeat(".", 3) \in Seq(Chars)
    <3>1. 3 \in Int
      OBVIOUS
    <3> QED
      BY <3>1, RepeatChars, CharsAre, Zenon
  <2>3. SubSeq(v, 1, width - 3) \o Repeat(".", 3) \in Seq(Chars)
    BY <2>1, <2>2, ConcatChars
  <2> QED
    BY <1>2, <2>1, <2>3 DEF Fitted
<1>3. CASE ~(Len(v) > width)
  <2>1. width - Len(v) \in Int
    BY <1>1
  <2>2. Repeat(" ", width - Len(v)) \in Seq(Chars)
    BY <2>1, RepeatChars, CharsAre
  <2>3. Repeat(" ", width - Len(v)) \o v \in Seq(Chars) /\ v \o Repeat(" ", width - Len(v)) \in Seq(Chars)
    BY <2>2, ConcatChars
  <2> QED
    BY <1>3, <2>3 DEF Fitted
<1> QED
  BY <1>2, <1>3

LEMMA TwoChars ==
  ASSUME NEW c \in Chars, NEW d \in Chars
  PROVE  <<c, d>> \in Seq(Chars)
OBVIOUS

(* Whole lines of any length.                                              *)
Lines == {s \in Seq(Chars) : Ends(s)}

LEMMA ConcatLines ==
  ASSUME NEW s \in Seq(Chars), NEW t \in Lines, t # <<>> \/ Ends(s)
  PROVE  s \o t \in Lines
<1> DEFINE u == s \o t
<1>1. t \in Seq(Chars) /\ Ends(t)
  BY DEF Lines
<1>2. /\ u \in Seq(Chars) /\ Len(s) \in Nat /\ Len(t) \in Nat /\ Len(u) = Len(s) + Len(t)
      /\ \A k \in 1..Len(t) : u[Len(s) + k] = t[k]
      /\ (t # <<>> <=> Len(t) > 0) /\ (u # <<>> <=> Len(u) > 0)
      /\ (t = <<>> => u = s)
  BY <1>1
<1> HIDE DEF u
<1>3. CASE t # <<>>
  <2>1. Len(t) \in 1..Len(t)
    BY <1>2, <1>3
  <2>2. u[Len(u)] = t[Len(t)]
    BY <1>2, <2>1
  <2>3. t[Len(t)] = "\n"
    BY <1>1, <1>3 DEF Ends
  <2>4. Ends(u)
    BY <2>2, <2>3 DEF Ends
  <2> QED
    BY <1>2, <2>4 DEF Lines, u
<1>4. CASE t = <<>>
  <2>1. u = s /\ Ends(s)
    BY <1>2, <1>4
  <2> QED
    BY <2>1 DEF Lines, u
<1> QED
  BY <1>3, <1>4

LEMMA SegmentLines ==
  ASSUME set \in Settings, cols \in Seq(Column), pending \in Seq(RowsOf(cols)), Infinite \in Nat,
         NEW from \in 1..Len(cols), NEW to \in 1..Len(cols), from <= to
  PROVE  TableSegment(from, to) \in Lines
<1> DEFINE n == to - from + 1
           span == [k \in 1..n |-> from + k - 1]
           m == Len(pending)
           Parts(e(_)) == Flat([k \in 1..Len(span) |-> e(k)])
           dashes(k) == Repeat("-", ColWidth(span[k]) + 2) \o <<"+">>
           title(k) == <<" ">> \o Fitted(cols[span[k]].name, ColWidth(span[k]), FALSE) \o <<" ", "|">>
           value(r, k) == <<" ">> \o Fitted(pending[r][span[k]], ColWidth(span[k]), cols[span[k]].type = "number")
                          \o <<" ", "|">>
           divider == <<"+">> \o Flat([k \in 1..Len(span) |-> dashes(k)]) \o <<"\n">>
           names == <<"|">> \o Flat([k \in 1..Len(span) |-> title(k)]) \o <<"\n">>
           row(r) == <<"|">> \o Flat([k \in 1..Len(span) |-> value(r, k)]) \o <<"\n">>
           rows == Flat([r \in 1..Len(pending) |-> row(r)])
<1>1. n \in Nat /\ Len(cols) \in Nat /\ m \in Nat
  OBVIOUS
<1>2. Len(span) = n /\ \A k \in 1..n : span[k] \in 1..Len(cols)
  BY <1>1
<1>3. TableSegment(from, to) = divider \o names \o divider \o rows \o divider
  BY DEF TableSegment
<1> HIDE DEF n, span
<1>4. \A c : c \in {" ", "|", "+"} => <<c>> \in Seq(Chars)
  BY CharsAre, OneChar
<1>5. <<" ", "|">> \in Seq(Chars)
  BY CharsAre, TwoChars, Zenon
<1>6. \A k \in 1..n : ColWidth(span[k]) \in Int
  BY <1>2, ColWidthIs
<1>7. \A k \in 1..n : dashes(k) \in Seq(Chars)
  <2> SUFFICES ASSUME NEW k \in 1..n PROVE dashes(k) \in Seq(Chars)
    OBVIOUS
  <2> DEFINE w == ColWidth(span[k]) + 2
  <2>1. w \in Int
    BY <1>6
  <2> HIDE DEF w
  <2>2. Repeat("-", w) \in Seq(Chars)
    BY <2>1, RepeatChars, CharsAre
  <2>3. Repeat("-", w) \o <<"+">> \in Seq(Chars)
    BY <1>4, <2>2, ConcatChars
  <2> QED
    BY <2>3 DEF w
<1>8. \A k \in 1..n : title(k) \in Seq(Chars)
  <2> SUFFICES ASSUME NEW k \in 1..n PROVE title(k) \in Seq(Chars)
    OBVIOUS
  <2>1. cols[span[k]] \in Column
    BY <1>2
  <2>2. Fitted(cols[span[k]].name, ColWidth(span[k]), FALSE) \in Seq(Chars)
    BY <1>6, <2>1, NameChars, FittedChars
  <2>3. <<" ">> \o Fitted(cols[span[k]].name, ColWidth(span[k]), FALSE) \in Seq(Chars)
    BY <1>4, <2>2, ConcatChars
  <2> QED
    BY <1>5, <2>3, ConcatChars
<1>9. \A r \in 1..m : \A k \in 1..n : value(r, k) \in Seq(Chars)
  <2> SUFFICES ASSUME NEW r \in 1..m, NEW k \in 1..n PROVE value(r, k) \in Seq(Chars)
    OBVIOUS
  <2> DEFINE v == Fitted(pending[r][span[k]], ColWidth(span[k]), cols[span[k]].type = "number")
  <2>1. pending[r][span[k]] \in Seq(Chars)
    BY <1>2 DEF RowsOf
  <2>2. v \in Seq(Chars)
    BY <1>6, <2>1, FittedChars
  <2> HIDE DEF v
  <2>3. <<" ">> \o v \in Seq(Chars)
    BY <1>4, <2>2, ConcatChars
  <2>4. <<" ">> \o v \o <<" ", "|">> \in Seq(Chars)
    BY <1>5, <2>3, ConcatChars
  <2> QED
    BY <2>4 DEF v
<1> HIDE DEF dashes, title, value
<1>10. divider \in Lines /\ divider # <<>>
  <2> DEFINE s == [k \in 1..n |-> dashes(k)]
  <2>1. s \in [1..n -> Seq(Chars)]
    BY <1>7
  <2> HIDE DEF s
  <2>2. Flat(s) \in Seq(Chars)
    BY <1>1, <2>1, FlatChars
  <2>3. <<"+">> \o Flat(s) \in Seq(Chars)
    BY <1>4, <2>2, ConcatChars
  <2>4. divider = (<<"+">> \o Flat(s)) \o <<"\n">>
    BY <1>2 DEF s
  <2> QED
    BY <2>3, <2>4, LineIs DEF Lines
<1>11. names \in Lines
  <2> DEFINE s == [k \in 1..n |-> title(k)]
  <2>1. s \in [1..n -> Seq(Chars)]
    BY <1>8
  <2> HIDE DEF s
  <2>2. Flat(s) \in Seq(Chars)
    BY <1>1, <2>1, FlatChars
  <2>3. <<"|">> \o Flat(s) \in Seq(Chars)
    BY <1>4, <2>2, ConcatChars
  <2>4. names = (<<"|">> \o Flat(s)) \o <<"\n">>
    BY <1>2 DEF s
  <2> QED
    BY <2>3, <2>4, LineIs DEF Lines
<1>12. \A r \in 1..m : row(r) \in Seq(Chars)
  <2> SUFFICES ASSUME NEW r \in 1..m PROVE row(r) \in Seq(Chars)
    OBVIOUS
  <2> DEFINE s == [k \in 1..n |-> value(r, k)]
  <2>1. s \in [1..n -> Seq(Chars)]
    BY <1>9
  <2> HIDE DEF s
  <2>2. Flat(s) \in Seq(Chars)
    BY <1>1, <2>1, FlatChars
  <2>3. <<"|">> \o Flat(s) \in Seq(Chars)
    BY <1>4, <2>2, ConcatChars
  <2>4. row(r) = (<<"|">> \o Flat(s)) \o <<"\n">>
    BY <1>2 DEF s
  <2> QED
    BY <2>3, <2>4, LineIs
<1> HIDE DEF divider, names, row
<1>13. rows \in Seq(Chars)
  <2> DEFINE s == [r \in 1..m |-> row(r)]
  <2> HIDE DEF m
  <2>1. s \in [1..m -> Seq(Chars)]
    BY <1>12
  <2> HIDE DEF s
  <2>2. Flat(s) \in Seq(Chars)
    BY <1>1, <2>1, FlatChars
  <2> QED
    BY <2>2 DEF s, m
<1> HIDE DEF rows
<1>14. divider \in Seq(Chars) /\ names \in Seq(Chars)
  BY <1>10, <1>11 DEF Lines
<1>15. divider \o names \in Seq(Chars)
  BY <1>14, ConcatChars
<1>16. divider \o names \o divider \in Seq(Chars)
  BY <1>14, <1>15, ConcatChars
<1>17. divider \o names \o divider \o rows \in Seq(Chars)
  BY <1>13, <1>16, ConcatChars
<1> QED
  BY <1>3, <1>10, <1>17, ConcatLines

LEMMA TableLines ==
  ASSUME set \in Settings, cols \in Seq(Column), pending \in Seq(RowsOf(cols)), Infinite \in Nat
  PROVE  AsciiTable \in Lines
<1> DEFINE n == Len(Segments)
           s == [k \in 1..n |-> TableSegment(Segments[k][1], Segments[k][2])]
<1>1. Segments \in Seq(Spans(Len(cols)))
  BY SegmentsAre
<1>2. n \in Nat /\ \A k \in 1..n : Segments[k] \in Spans(Len(cols))
  BY <1>1
<1>3. \A k \in 1..n : /\ Segments[k][1] \in 1..Len(cols) /\ Segments[k][2] \in 1..Len(cols)
                      /\ Segments[k][1] <= Segments[k][2]
  BY <1>2 DEF Spans
<1>4. \A k \in 1..n : TableSegment(Segments[k][1], Segments[k][2]) \in Lines
  BY <1>3, SegmentLines
<1> HIDE DEF n
<1>5. s \in [1..n -> Lines]
  BY <1>4
<1> HIDE DEF s
<1>6. <<>> \in Lines /\ \A x, y \in Lines : x \o y \in Lines
  <2>1. <<>> \in Lines
    BY DEF Lines, Ends
  <2> SUFFICES ASSUME NEW x \in Lines, NEW y \in Lines PROVE x \o y \in Lines
    BY <2>1
  <2>2. x \in Seq(Chars) /\ Ends(x)
    BY DEF Lines
  <2> QED
    BY <2>2, ConcatLines
<1>7. Flat(s) \in Lines
  BY <1>2, <1>5, <1>6, FlatIn
<1> QED
  BY <1>7 DEF AsciiTable, s, n

-----------------------------------------------------------------------------
(* The invariant: between two calls the formatter is at the start of a     *)
(* line, and nothing of a batch is left when it has ended.                 *)
FType ==
  /\ set \in Settings /\ kind \in {"default", "ascii", "csv", "jsonl"}
  /\ stage \in {"idle", "batch", "rows"}
  /\ stage = "rows" => cols \in Tables
  /\ added \in Seq(Seq(Seq(Chars)))
  /\ stage # "rows" => pending = <<>>
  /\ kind = "ascii" => pending \in Seq(RowsOf(cols))

FInv ==
  /\ FType
  /\ writepos = 0
  /\ stage = "idle" => text = <<>> /\ errtext = <<>>
  /\ kind \in {"default", "ascii"} => text \in Screens(set.width)
  /\ errtext \in Screens(set.width)

LEMMA NothingFits ==
  ASSUME NEW w \in Nat
  PROVE  <<>> \in Screens(w)
BY DEF Screens, Stops, Fits

LEMMA InvFits == FInv => LinesFit
<1> SUFFICES ASSUME FInv PROVE LinesFit
  OBVIOUS
<1>1. set.width \in Nat
  BY SettingIs DEF FInv, FType
<1> QED
  BY <1>1 DEF FInv, Screens, Fits, Breaks, LinesFit

LEMMA FStart == FInit => FInv
<1> SUFFICES ASSUME FInit PROVE FInv
  OBVIOUS
<1>1. set.width \in Nat
  BY SettingIs DEF FInit
<1>2. <<>> \in Screens(set.width)
  BY <1>1, NothingFits
<1>3. FType
  BY DEF FInit, FType, Formatters
<1> QED
  BY <1>2, <1>3 DEF FInit, FInv

(* What the server sends.                                                  *)
LEMMA ContentChars ==
  ASSUME NEW c \in Column, NEW k \in Kinds, NEW r \in 1..3
  PROVE  Content(c, k, r) \in Seq(Chars)
<1>1. Digit[r] \in Chars
  <2>1. r = 1 \/ r = 2 \/ r = 3
    OBVIOUS
  <2>2. Digit[1] = "1" /\ Digit[2] = "2" /\ Digit[3] = "3"
    BY DEF Digit
  <2> QED
    BY <2>1, <2>2, CharsAre, Zenon
<1> DEFINE d == Digit[r]
<1> HIDE DEF d
<1>2. <<d>> \in Seq(Chars) /\ <<"NULL">> \in Seq(Chars) /\ <<d, "\n", "\n", d>> \in Seq(Chars)
  <2>1. d \in Chars /\ "NULL" \in Chars /\ "\n" \in Chars
    BY <1>1, CharsAre, NewlineIn, Zenon DEF d
  <2> QED
    BY <2>1
<1>3. Repeat(d, 6) \in Seq(Chars)
  <2>1. 6 \in Int
    OBVIOUS
  <2> QED
    BY <1>1, <2>1, RepeatChars DEF d
<1>4. Content(c, k, r) = CASE k = "null"   -> <<"NULL">>
                           [] k = "short"  -> <<d>>
                           [] k = "long"   -> Repeat(d, 6)
                           [] k = "broken" -> IF c.type \in {"char", "max"} THEN <<d, "\n", "\n", d>> ELSE <<d>>
  BY DEF Content, d
<1>5. k = "null" \/ k = "short" \/ k = "long" \/ k = "broken"
  BY DEF Kinds
<1> QED
  BY <1>2, <1>3, <1>4, <1>5

LEMMA WriterRests ==
  ASSUME FInv, kind \in {"default", "ascii"}
  PROVE  Writer \in Rested(set.width)
BY DEF FInv, Writer, Rested

LEMMA OutputRests ==
  ASSUME NEW a \in Rested(set.width), Output(a)
  PROVE  text' \in Screens(set.width) /\ writepos' = 0
BY DEF Output, Rested

-----------------------------------------------------------------------------
(* Every step keeps the invariant.                                         *)
LEMMA HeadingsHold == set \in Settings /\ cols \in Seq(Column) => Headings \in Screens(set.width)
BY HeadingsFit

LEMMA HeadingsThen ==
  (set \in Settings /\ cols \in Seq(Column))' => (Headings \in Screens(set.width))'
BY HeadingsHold, PTL

LEMMA Nothing == \A S : <<>> \in Seq(S)
OBVIOUS

(* What is written as it is.                                               *)
LEMMA PlainFits ==
  ASSUME NEW w \in Nat, NEW c \in {"m", "s"}, NEW n \in Nat
  PROVE  /\ Repeat(c, n) \in Screens(w)
         /\ Repeat(c, n) \o <<"\n">> \in Screens(w)
<1> DEFINE s == Repeat(c, n)
<1>1. c \in Chars /\ c \in Breaks
  BY DEF Chars, Breaks
<1>2. s \in Seq(Chars)
  BY <1>1, RepeatChars
<1>3. Len(s) = n /\ \A i \in 1..n : s[i] = c
  BY DEF Repeat, Larger
<1> HIDE DEF s
<1>4. Stops(s)
  <2>1. s # <<>> => Len(s) \in 1..n
    BY <1>2, <1>3
  <2> QED
    BY <1>1, <1>3, <2>1 DEF Stops
<1>5. w > 0 => Fits(s, w)
  <2> SUFFICES ASSUME w > 0, NEW i \in 0..(Len(s) - w - 1) PROVE \E j \in 1..(w + 1) : s[i + j] \in Breaks
    BY DEF Fits
  <2>1. 1 \in 1..(w + 1) /\ i + 1 \in 1..n
    BY <1>3
  <2> QED
    BY <1>1, <1>3, <2>1
<1>6. s \in Screens(w)
  BY <1>2, <1>4, <1>5 DEF Screens
<1>7. <<"\n">> \in Screens(w)
  <2> DEFINE t == <<"\n">>
  <2>1. t \in Seq(Chars) /\ Len(t) = 1 /\ t[1] = "\n"
    BY NewlineIn
  <2> HIDE DEF t
  <2>2. Stops(t)
    BY <2>1, NewlineBreaks DEF Stops
  <2>3. w > 0 => Fits(t, w)
    BY <2>1 DEF Fits
  <2> QED
    BY <2>1, <2>2, <2>3 DEF Screens, t
<1> QED
  BY <1>6, <1>7, ConcatScreens DEF s

LEMMA MessageKeeps == FInv /\ AddMessage => FInv'
<1> SUFFICES ASSUME FInv, AddMessage PROVE FInv'
  OBVIOUS
<1>1. set.width \in Nat
  BY SettingIs DEF FInv, FType
<1>2. PICK n \in Lengths :
        /\ text' = IF kind \in {"default", "ascii"} /\ ~xml THEN text \o (Repeat("m", n) \o <<"\n">>) ELSE text
        /\ errtext' = IF kind \in {"csv", "jsonl"} THEN errtext \o (Repeat("m", n) \o <<"\n">>) ELSE errtext
  BY Zenon DEF AddMessage
<1>3. Repeat("m", n) \o <<"\n">> \in Screens(set.width)
  <2>1. n \in Nat
    BY FormatterAssumption
  <2> QED
    BY <1>1, <2>1, PlainFits
<1> DEFINE message == Repeat("m", n) \o <<"\n">>
<1> HIDE DEF message
<1>4. kind \in {"default", "ascii"} => text' \in Screens(set.width)
  BY <1>1, <1>2, <1>3, ConcatScreens DEF FInv, message
<1>5. errtext' \in Screens(set.width)
  BY <1>1, <1>2, <1>3, ConcatScreens DEF FInv, message
<1>6. FType'
  BY DEF FInv, FType, AddMessage
<1> QED
  BY <1>4, <1>5, <1>6 DEF FInv, AddMessage

LEMMA ErrorKeeps ==
  ASSUME FInv, NEW class \in Classes, AddError(class)
  PROVE  FInv'
<1>1. set.width \in Nat
  BY SettingIs DEF FInv, FType
<1>2. class \in Int
  BY FormatterAssumption
<1>3. Repeat("e", class) \in Seq(Chars)
  BY <1>2, CharsAre, RepeatChars
<1>4. FitToScreen(Repeat("e", class) \o <<"\n">>) \in Screens(set.width)
  BY <1>1, <1>3, LineIs, FitToScreenKeeps
<1>5. errtext' \in Screens(set.width)
  BY <1>1, <1>4, ConcatScreens DEF FInv, AddError
<1>6. FType'
  BY DEF FInv, FType, AddError
<1> QED
  BY <1>5, <1>6 DEF FInv, AddError

LEMMA LoseRowKeeps == FInv /\ LoseRow => FInv'
<1> SUFFICES ASSUME FInv, LoseRow PROVE FInv'
  OBVIOUS
<1>1. set.width \in Nat
  BY SettingIs DEF FInv, FType
<1>2. PICK n \in Lengths :
        errtext' = errtext \o Repeat("s", n) \o (IF kind \in {"csv", "jsonl"} THEN <<"\n">> ELSE <<>>)
  BY Zenon DEF LoseRow
<1>3. n \in Nat
  BY FormatterAssumption
<1>4. Repeat("s", n) \in Screens(set.width) /\ Repeat("s", 0) \o <<"\n">> \in Screens(set.width)
  BY <1>1, <1>3, PlainFits
<1>5. <<"\n">> \in Screens(set.width) /\ <<>> \in Screens(set.width)
  <2>1. Repeat("s", 0) \o <<"\n">> = <<"\n">>
    BY DEF Repeat, Larger
  <2> QED
    BY <1>1, <1>4, <2>1, NothingFits
<1>6. errtext \o Repeat("s", n) \in Screens(set.width)
  BY <1>1, <1>4, ConcatScreens DEF FInv
<1> DEFINE end == IF kind \in {"csv", "jsonl"} THEN <<"\n">> ELSE <<>>
           said == errtext \o Repeat("s", n)
<1>7. end \in Screens(set.width)
  BY <1>5
<1> HIDE DEF end, said
<1>8. said \o end \in Screens(set.width)
  BY <1>1, <1>6, <1>7, ConcatScreens DEF said
<1>9. errtext' \in Screens(set.width)
  BY <1>2, <1>8 DEF said, end
<1>10. added' \in Seq(Seq(Seq(Chars)))
  <2>1. added \in Seq(Seq(Seq(Chars))) /\ <<>> \in Seq(Seq(Chars)) /\ added' = Append(added, <<>>)
    BY Nothing DEF FInv, FType, LoseRow
  <2> QED
    BY <2>1
<1>11. FType'
  BY <1>10 DEF FInv, FType, LoseRow, RowsOf
<1> QED
  BY <1>9, <1>11 DEF FInv, LoseRow

LEMMA SetVariablesKeeps == FInv /\ SetVariables => FInv'
<1> SUFFICES ASSUME FInv, SetVariables PROVE FInv'
  OBVIOUS
<1>1. set' \in Settings
  BY DEF SetVariables
<1>2. set'.width \in Nat
  BY <1>1, FormatterAssumption
<1>3. <<>> \in Screens(set'.width)
  BY <1>2, NothingFits
<1>4. FType'
  BY <1>1 DEF FInv, FType, SetVariables
<1> QED
  BY <1>3, <1>4 DEF FInv, SetVariables

LEMMA BatchKeeps == FInv /\ (XmlMode \/ BeginBatch \/ EndBatch \/ UNCHANGED fvars) => FInv'
<1> SUFFICES ASSUME FInv, XmlMode \/ BeginBatch \/ EndBatch \/ UNCHANGED fvars PROVE FInv'
  OBVIOUS
<1>1. set.width \in Nat
  BY SettingIs DEF FInv, FType
<1>2. <<>> \in Screens(set.width)
  BY <1>1, NothingFits
<1>3. CASE XmlMode
  BY <1>3 DEF FInv, FType, XmlMode
<1>4. CASE BeginBatch \/ EndBatch
  <2>1. FType'
    <3>1. pending = <<>> /\ pending' = <<>>
      BY <1>4 DEF FInv, FType, BeginBatch, EndBatch
    <3>2. pending' \in Seq(RowsOf(cols)')
      BY <3>1
    <3>3. added' \in Seq(Seq(Seq(Chars)))
      <4>1. added' = <<>>
        BY <1>4 DEF BeginBatch, EndBatch
      <4> QED
        BY <4>1, Nothing
    <3> QED
      BY <1>4, <3>1, <3>2, <3>3 DEF FInv, FType, BeginBatch, EndBatch
  <2> QED
    BY <1>2, <1>4, <2>1 DEF FInv, BeginBatch, EndBatch
<1>5. CASE UNCHANGED fvars
  BY <1>5 DEF FInv, FType, fvars, RowsOf
<1> QED
  BY <1>3, <1>4, <1>5

LEMMA BeginResultSetKeeps == FInv /\ BeginResultSet => FInv'
<1> SUFFICES ASSUME FInv, BeginResultSet PROVE FInv'
  OBVIOUS
<1>1. set.width \in Nat
  BY SettingIs DEF FInv, FType
<1>2. <<>> \in Screens(set.width)
  BY <1>1, NothingFits
<1>3. set' = set /\ set' \in Settings /\ cols' \in Tables
  BY DEF FInv, FType, BeginResultSet
<1>4. cols' \in Seq(Column)
  BY <1>3, TableIs
<1>5. Headings' \in Screens(set.width)
  <2>1. (Headings \in Screens(set.width))'
    BY <1>3, <1>4, HeadingsThen
  <2> QED
    BY <1>3, <2>1
<1>6. text' \in Screens(set.width)
  <2>1. text' = Headings' \/ text' = <<>>
    BY DEF BeginResultSet
  <2> QED
    BY <1>2, <1>5, <2>1
<1>7. FType'
  BY <1>3 DEF FInv, FType, BeginResultSet
<1> QED
  BY <1>2, <1>3, <1>6, <1>7 DEF FInv, BeginResultSet

LEMMA AddRowKeeps == FInv /\ AddRow => FInv'
<1> SUFFICES ASSUME FInv, AddRow PROVE FInv'
  OBVIOUS
<1>1. set \in Settings /\ cols \in Tables /\ added \in Seq(Seq(Seq(Chars)))
  BY DEF FInv, FType, AddRow
<1>2. cols \in Seq(Column) /\ cols # <<>> /\ Len(cols) \in Nat /\ Len(added) \in Nat
  BY <1>1, TableIs
<1>3. set' = set /\ cols' = cols /\ kind' = kind /\ stage' = stage /\ errtext' = errtext /\ stage = "rows"
  BY DEF AddRow
<1> DEFINE Row(k) == [i \in 1..Len(cols) |-> Content(cols[i], k[i], Len(added) + 1)]
<1>4. PICK k \in Rows :
        /\ added' = Append(added, Row(k))
        /\ kind = "default" => Output(DefaultRow(Writer, Row(k))) /\ UNCHANGED pending
        /\ kind = "ascii" => pending' = KeptBack(Row(k)) /\ UNCHANGED <<text, writepos>>
        /\ kind = "csv" => UNCHANGED <<text, writepos>>
        /\ kind = "jsonl" => UNCHANGED writepos
  BY DEF AddRow
<1>5. Row(k) \in RowsOf(cols)
  <2>1. Len(added) + 1 \in 1..3
    BY <1>2, FormatterAssumption DEF AddRow
  <2>2. \A i \in 1..Len(cols) : cols[i] \in Column /\ k[i] \in Kinds
    BY <1>1, <1>2, FormatterAssumption
  <2>3. \A i \in 1..Len(cols) : Content(cols[i], k[i], Len(added) + 1) \in Seq(Chars)
    BY <2>1, <2>2, ContentChars
  <2> QED
    BY <2>3 DEF RowsOf
<1>6. added' \in Seq(Seq(Seq(Chars)))
  <2>1. Row(k) \in Seq(Seq(Chars))
    BY <1>2, <1>5, FunctionIsSeq DEF RowsOf
  <2> HIDE DEF Row
  <2> QED
    BY <1>1, <1>4, <2>1
<1> DEFINE row == Row(k)
<1> HIDE DEF Row, row
<1>7. kind = "ascii" => pending' \in Seq(RowsOf(cols))
  <2> SUFFICES ASSUME kind = "ascii" PROVE pending' \in Seq(RowsOf(cols))
    OBVIOUS
  <2>1. pending \in Seq(RowsOf(cols)) /\ pending' = Append(pending, row)
    BY <1>4 DEF FInv, FType, KeptBack, row
  <2> QED
    BY <1>5, <2>1 DEF row
<1>8. writepos' = 0 /\ (kind \in {"default", "ascii"} => text' \in Screens(set.width))
  <2>1. CASE kind = "default"
    <3>1. Writer \in Rested(set.width)
      BY <2>1, WriterRests
    <3>2. DefaultRow(Writer, row) \in Rested(set.width)
      BY <1>1, <1>2, <1>5, <3>1, DefaultRowRests DEF row
    <3>3. Output(DefaultRow(Writer, row))
      BY <1>4, <2>1 DEF row
    <3> QED
      BY <3>2, <3>3, OutputRests
  <2>2. CASE kind # "default"
    BY <1>4, <2>2 DEF FInv, FType
  <2> QED
    BY <2>1, <2>2
<1>9. FType'
  BY <1>1, <1>3, <1>6, <1>7 DEF FInv, FType, RowsOf
<1> QED
  BY <1>3, <1>8, <1>9 DEF FInv

LEMMA EndResultSetKeeps == FInv /\ EndResultSet => FInv'
<1> SUFFICES ASSUME FInv, EndResultSet PROVE FInv'
  OBVIOUS
<1>1. set \in Settings /\ cols \in Tables /\ set.width \in Nat
  BY SettingIs DEF FInv, FType, EndResultSet
<1>2. writepos' = 0 /\ (kind \in {"default", "ascii"} => text' \in Screens(set.width))
  <2>1. CASE kind = "default"
    <3>1. CASE xml
      BY <2>1, <3>1 DEF FInv, EndResultSet
    <3>2. CASE ~xml
      <4>1. Writer \in Rested(set.width)
        BY <2>1, WriterRests
      <4>2. WriteOut(Writer, <<"\n">>) \in Rested(set.width)
        BY <1>1, <4>1, RestedWrapped, NewlineOut
      <4>3. Output(WriteOut(Writer, <<"\n">>))
        BY <2>1, <3>2 DEF EndResultSet
      <4> QED
        BY <4>2, <4>3, OutputRests
    <3> QED
      BY <3>1, <3>2
  <2>2. CASE kind = "ascii"
    <3>1. Writer \in Rested(set.width)
      BY <2>2, WriterRests
    <3>2. AsciiTable \in Lines
      <4>1. cols \in Seq(Column) /\ pending \in Seq(RowsOf(cols)) /\ Infinite \in Nat
        BY <1>1, <2>2, TableIs, FormatterAssumption DEF FInv, FType
      <4> QED
        BY <1>1, <4>1, TableLines
    <3>3. WriteOut(Writer, AsciiTable) \in Rested(set.width)
      BY <1>1, <3>1, <3>2, LinesOut DEF Lines
    <3>4. Output(WriteOut(Writer, AsciiTable))
      BY <2>2 DEF EndResultSet, PrintTable
    <3> QED
      BY <3>3, <3>4, OutputRests
  <2>3. CASE kind \notin {"default", "ascii"}
    BY <2>3 DEF FInv, FType, EndResultSet
  <2> QED
    BY <2>1, <2>2, <2>3
<1>3. FType'
  BY DEF FInv, FType, EndResultSet
<1> QED
  BY <1>2, <1>3 DEF FInv, EndResultSet

LEMMA FStep == FInv /\ [FNext]_fvars => FInv'
<1> SUFFICES ASSUME FInv, [FNext]_fvars PROVE FInv'
  OBVIOUS
<1> QED
  BY MessageKeeps, ErrorKeeps, LoseRowKeeps, SetVariablesKeeps, BatchKeeps, BeginResultSetKeeps, AddRowKeeps,
     EndResultSetKeeps DEF FNext

(* Whatever the settings, what the server sends and in which order it does,*)
(* no line of a result set or of a server's error is longer than           *)
(* SQLCMDCOLWIDTH.  Messages and errors of a scan, which the code writes as*)
(* they are, may come anywhere between them and be longer.                 *)
THEOREM LinesStayFit == FSpec => []LinesFit
BY FStart, FStep, InvFits, PTL DEF FSpec
=============================================================================
