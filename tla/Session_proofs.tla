--------------------------- MODULE Session_proofs ---------------------------
(***************************************************************************)
(* What a session begins with and keeps, for all texts, environments,      *)
(* contexts, files and server names: the sources of server, user and       *)
(* password (CommandLine), what :setvar and :connect leave (Session), the  *)
(* files of :out and :error (Writers), where connections go (Connection).  *)
(* The four share no state.                                                *)
(***************************************************************************)
EXTENDS CommandLine, Session, Writers, Connection, Induction, SequenceTheorems

-----------------------------------------------------------------------------
(* The inductive invariant: each step is the function of what was given.   *)
LInv ==
  /\ step \in {"parsed", "valid", "set"} => env = WithContext
  /\ step = "set" => variables = SetVars /\ connectSettings = SetConnect(variables)

LEMMA LStep == ASSUME LInv, [LNext]_lvars PROVE LInv'
<1>1. CASE ReadWords
  BY <1>1 DEF LInv, ReadWords
<1>2. CASE InitializeEnvVars
  BY <1>2 DEF LInv, InitializeEnvVars, WithContext, Current
<1>3. CASE Validate
  BY <1>3 DEF LInv, Validate, WithContext, Current
<1>4. CASE SetUp
  <2>1. /\ step = "valid" /\ step' = "set" /\ variables' = SetVars /\ connectSettings' = SetConnect(variables')
        /\ UNCHANGED <<args, given, context, env>>
    BY <1>4 DEF SetUp
  <2>2. env' = WithContext'
    BY <2>1 DEF LInv, WithContext, Current
  <2>3. SetVars' = SetVars
    BY <2>1 DEF SetVars, UseEnvVars
  <2>4. connectSettings' = SetConnect(variables)'
    BY <2>1 DEF SetConnect, UseEnvVars, AuthenticationMethod
  <2>5. QED
    BY <2>1, <2>2, <2>3, <2>4 DEF LInv
<1>5. CASE UNCHANGED lvars
  BY <1>5 DEF LInv, lvars, WithContext, Current, SetVars, SetConnect, UseEnvVars, AuthenticationMethod
<1>6. QED
  BY <1>1, <1>2, <1>3, <1>4, <1>5 DEF LNext

LEMMA LStart == LInit => LInv
  BY DEF LInit, LInv

(* What the login is made of.                                              *)
LEMMA LoginFrom ==
  ASSUME LInv, step = "set"
  PROVE  LET pair   == Current.user # "" /\ Current.password # "" /\ given.user = ""
             server == FirstOf(given.server, Current.server)
             user   == IF pair THEN Current.user ELSE given.user
             password == IF pair THEN Current.password ELSE given.password
         IN  /\ connectSettings.server =
                  FirstOf(args.server, FirstOf(args.variables["server"], FirstOf(args.server,
                    IF UseEnvVars THEN server ELSE "")))
             /\ connectSettings.user =
                  FirstOf(args.user, FirstOf(args.variables["user"], FirstOf(args.user,
                    IF UseEnvVars THEN user ELSE "")))
             /\ connectSettings.password = FirstOf(args.password, IF UseEnvVars THEN password ELSE "")
<1>1. env = WithContext /\ variables = SetVars /\ connectSettings = SetConnect(variables)
  BY DEF LInv
<1>2. /\ connectSettings.server = FirstOf(args.server, variables.server)
      /\ connectSettings.user = FirstOf(args.user, variables.user)
      /\ connectSettings.password = FirstOf(args.password, IF UseEnvVars THEN env.password ELSE "")
  BY <1>1 DEF SetConnect
<1>3. /\ variables.server = FirstOf(args.variables["server"], FirstOf(args.server,
                              IF UseEnvVars THEN env.server ELSE ""))
      /\ variables.user = FirstOf(args.variables["user"], FirstOf(args.user,
                            IF UseEnvVars THEN env.user ELSE ""))
  BY <1>1 DEF SetVars
<1>4. QED
  BY <1>1, <1>2, <1>3 DEF WithContext

(* Flags, -v, environment and sqlconfig, in this order.                    *)
THEOREM SourcesOrdered == LSpec => []SourcesInOrder
<1>1. ASSUME LInv PROVE SourcesInOrder
  <2>1. SUFFICES ASSUME step = "set" PROVE SourcesInOrder
    BY DEF SourcesInOrder
  <2>2. QED
    BY <1>1, <2>1, LoginFrom DEF SourcesInOrder, FirstOf, UseEnvVars, Paired
<1>2. QED
  BY <1>1, LStart, LStep, PTL DEF LSpec

(* The user of one source does not meet the password of another.           *)
THEOREM PairsKept == LSpec => []PairsTogether
<1>1. ASSUME LInv PROVE PairsTogether
  <2>1. SUFFICES ASSUME step = "set" PROVE PairsTogether
    BY DEF PairsTogether
  <2>2. QED
    BY <1>1, <2>1, LoginFrom DEF PairsTogether, FirstOf, UseEnvVars, Paired
<1>2. QED
  BY <1>1, LStart, LStep, PTL DEF LSpec

-----------------------------------------------------------------------------
(* Settings have their parts, variables their names.                       *)
SType ==
  /\ DOMAIN connect = {"server", "user", "noEnv", "noSubst"}
  /\ vars = [k \in Keys |-> vars[k]]

SInv == SType /\ DefaultsPresent /\ SettingsOfConnection

LEMMA SStart == SInit => SInv
<1> SUFFICES ASSUME SInit PROVE SInv
  OBVIOUS
<1>1. DOMAIN connect = {"server", "user", "noEnv", "noSubst"}
  BY DEF SInit, SettingsOf
<1>2. PICK noEnv \in BOOLEAN : vars = Initialize(noEnv)
  BY DEF SInit
<1>3. vars = [k \in Keys |-> vars[k]]
  BY <1>2 DEF Initialize
<1>4. vars["WIDTH"] # Unset
  BY <1>2, UnsetAssumption DEF Initialize, Keys, Default, BuiltIn
<1>5. QED
  BY <1>1, <1>3, <1>4 DEF SInit, SInv, SType, DefaultsPresent, SettingsOfConnection, Default

(* :setvar: a value is another value, or the default.                      *)
LEMMA SetVarKeeps == ASSUME SInv, SetVar PROVE SInv'
<1>1. UNCHANGED <<connect, db>>
  BY DEF SetVar
<1>2. \/ UNCHANGED vars
      \/ \E l \in SetvarLines : ResetVar(l.name)
      \/ \E l \in SetvarLines : \E v : v # Unset /\ Assign(l.name, v)
  BY DEF SetVar
<1>3. vars' = [k \in Keys |-> vars'[k]] /\ vars'["WIDTH"] # Unset
  <2>1. vars["WIDTH"] # Unset /\ vars = [k \in Keys |-> vars[k]]
    BY DEF SInv, SType, DefaultsPresent, Default
  <2>2. CASE UNCHANGED vars
    BY <2>1, <2>2
  <2>3. ASSUME NEW key, vars' = [vars EXCEPT ![key] = IF key \in DOMAIN Default THEN Default[key] ELSE Unset]
        PROVE  vars' = [k \in Keys |-> vars'[k]] /\ vars'["WIDTH"] # Unset
    BY <2>1, <2>3, UnsetAssumption DEF Default, Keys
  <2>4. ASSUME NEW key, NEW v, v # Unset, vars' = [vars EXCEPT ![key] = v]
        PROVE  vars' = [k \in Keys |-> vars'[k]] /\ vars'["WIDTH"] # Unset
    BY <2>1, <2>4 DEF Keys
  <2>5. QED
    BY <1>2, <2>2, <2>3, <2>4 DEF ResetVar, Assign
<1>4. QED
  BY <1>1, <1>3 DEF SInv, SType, DefaultsPresent, SettingsOfConnection, Default

(* A connection to settings that have their parts.                         *)
LEMMA ConnectKeeps ==
  ASSUME SInv, NEW c, DOMAIN c = {"server", "user", "noEnv", "noSubst"}, ConnectDb(c)
  PROVE  SInv'
<1>1. CASE UNCHANGED <<db, connect, vars>>
  BY <1>1 DEF SInv, SType, DefaultsPresent, SettingsOfConnection
<1>2. CASE Connected(c)
  <2>1. db' = c /\ connect' = c
    BY <1>2 DEF Connected
  <2>2. PICK u : vars' = [vars EXCEPT !["SERVER"] = c.server, !["USER"] = u]
    BY <1>2 DEF Connected
  <2>3. vars' = [k \in Keys |-> vars'[k]] /\ vars'["WIDTH"] = vars["WIDTH"]
    BY <2>2 DEF SInv, SType, Keys
  <2>4. QED
    BY <2>1, <2>3 DEF SInv, SType, DefaultsPresent, SettingsOfConnection, Default
<1>3. QED
  BY <1>1, <1>2 DEF ConnectDb

LEMMA SStep == ASSUME SInv, [SNext]_svars PROVE SInv'
<1>1. CASE SetVar
  BY <1>1, SetVarKeeps
<1>2. CASE FirstConnect
  <2>1. DOMAIN connect = {"server", "user", "noEnv", "noSubst"} /\ ConnectDb(connect)
    BY <1>2 DEF FirstConnect, SInv, SType
  <2>2. QED
    BY <2>1, ConnectKeeps
<1>3. CASE ConnectCommand
  <2>1. PICK c \in Connects : ConnectDb(Reconnects(c))
    BY <1>3 DEF ConnectCommand
  <2>2. DOMAIN Reconnects(c) = {"server", "user", "noEnv", "noSubst"}
    BY DEF Reconnects, SInv, SType
  <2>3. QED
    BY <2>1, <2>2, ConnectKeeps
<1>4. CASE UNCHANGED svars
  BY <1>4 DEF SInv, SType, DefaultsPresent, SettingsOfConnection, svars
<1>5. QED
  BY <1>1, <1>2, <1>3, <1>4 DEF SNext

(* No :setvar takes the value of a variable away that a number is made of. *)
THEOREM DefaultsStay == SSpec => []DefaultsPresent
<1>1. SInv => DefaultsPresent
  BY DEF SInv
<1>2. QED
  BY <1>1, SStart, SStep, PTL DEF SSpec

(* The settings in use are those of the connection that is open.           *)
THEOREM SettingsStay == SSpec => []SettingsOfConnection
<1>1. SInv => SettingsOfConnection
  BY DEF SInv
<1>2. QED
  BY <1>1, SStart, SStep, PTL DEF SSpec

(* -X and -x outlive every :connect.                                       *)
THEOREM RestrictionsStay == SSpec => RestrictionsKept
<1>1. ASSUME SInv, [SNext]_svars
      PROVE  [connect'.noEnv = connect.noEnv /\ connect'.noSubst = connect.noSubst]_svars
  <2>1. CASE SetVar
    BY <2>1 DEF SetVar
  <2>2. CASE FirstConnect
    BY <2>2 DEF FirstConnect, ConnectDb, Connected
  <2>3. CASE ConnectCommand
    <3>1. PICK c \in Connects : ConnectDb(Reconnects(c))
      BY <2>3 DEF ConnectCommand
    <3>2. Reconnects(c).noEnv = connect.noEnv /\ Reconnects(c).noSubst = connect.noSubst
      BY DEF Reconnects, SInv, SType
    <3>3. connect' = Reconnects(c) \/ connect' = connect
      BY <3>1 DEF ConnectDb, Connected
    <3>4. QED
      BY <3>2, <3>3
  <2>4. QED
    BY <1>1, <2>1, <2>2, <2>3 DEF SNext
<1>2. QED
  BY <1>1, SStart, SStep, PTL DEF SSpec, RestrictionsKept

-----------------------------------------------------------------------------
(* What is left of a text from i on.                                       *)
Rest(t, i) == SubSeq(t, i, Len(t))

LEMMA RestIs ==
  ASSUME NEW T, NEW t \in Seq(T), NEW i \in 1..(Len(t) + 1)
  PROVE  /\ Rest(t, i) \in Seq(T) /\ Len(Rest(t, i)) = Len(t) - i + 1
         /\ \A k \in 1..(Len(t) - i + 1) : Rest(t, i)[k] = t[i + k - 1]
<1>1. Len(t) \in Nat /\ i \in Int /\ Len(t) \in Int /\ \A k \in i..Len(t) : t[k] \in T
  OBVIOUS
<1>2. /\ SubSeq(t, i, Len(t)) \in Seq(T)
      /\ Len(SubSeq(t, i, Len(t))) = IF i <= Len(t) THEN Len(t) - i + 1 ELSE 0
      /\ \A k \in 1..(Len(t) - i + 1) : SubSeq(t, i, Len(t))[k] = t[i + k - 1]
  BY <1>1, SubSeqProperties
<1> QED
  BY <1>1, <1>2 DEF Rest

LEMMA Put ==
  ASSUME NEW T, NEW c \in T, NEW x \in Seq(T)
  PROVE  /\ <<c>> \o x \in Seq(T) /\ Len(<<c>> \o x) = Len(x) + 1 /\ (<<c>> \o x)[1] = c
         /\ \A k \in 1..Len(x) : (<<c>> \o x)[k + 1] = x[k]
  OBVIOUS

LEMMA SameText ==
  ASSUME NEW T, NEW x \in Seq(T), NEW y \in Seq(T), Len(x) = Len(y), \A k \in 1..Len(x) : x[k] = y[k]
  PROVE  x = y
  OBVIOUS

LEMMA PutBack ==
  ASSUME NEW T, NEW c \in T, NEW z \in Seq(T), NEW x \in Seq(T), Len(x) = Len(z) + 1, x[1] = c,
         \A k \in 1..Len(z) : x[k + 1] = z[k]
  PROVE  x = <<c>> \o z
<1> DEFINE y == <<c>> \o z
<1>1. y \in Seq(T) /\ Len(y) = Len(z) + 1 /\ y[1] = c /\ \A k \in 1..Len(z) : y[k + 1] = z[k]
  OBVIOUS
<1>2. Len(z) \in Nat
  OBVIOUS
<1> HIDE DEF y
<1>3. ASSUME NEW k \in 1..Len(x) PROVE x[k] = y[k]
  <2>1. CASE k = 1
    BY <1>1, <2>1
  <2>2. CASE k # 1
    <3>1. k - 1 \in 1..Len(z) /\ (k - 1) + 1 = k
      BY <1>2, <2>2
    <3>2. x[(k - 1) + 1] = z[k - 1] /\ y[(k - 1) + 1] = z[k - 1]
      BY <1>1, <3>1, Zenon
    <3> QED
      BY <3>1, <3>2
  <2> QED
    BY <2>1, <2>2
<1>4. x = y
  BY <1>1, <1>3, SameText
<1> QED
  BY <1>4 DEF y

LEMMA Peel ==
  ASSUME NEW T, NEW t \in Seq(T), NEW i \in 1..Len(t)
  PROVE  /\ t[i] \in T /\ i + 1 \in 1..(Len(t) + 1) /\ Rest(t, i + 1) \in Seq(T)
         /\ Rest(t, i) = <<t[i]>> \o Rest(t, i + 1)
<1> DEFINE n == Len(t)
           x == Rest(t, i)
           z == Rest(t, i + 1)
           c == t[i]
<1>1. n \in Nat /\ c \in T /\ i + 1 \in 1..(n + 1) /\ i \in 1..(n + 1) /\ i \in Nat
  OBVIOUS
<1>2. x \in Seq(T) /\ Len(x) = n - i + 1 /\ \A k \in 1..(n - i + 1) : x[k] = t[i + k - 1]
  BY <1>1, RestIs
<1>3. z \in Seq(T) /\ Len(z) = n - (i + 1) + 1 /\ \A k \in 1..(n - (i + 1) + 1) : z[k] = t[(i + 1) + k - 1]
  BY <1>1, RestIs
<1>4. i <= n /\ c = t[i]
  OBVIOUS
<1> HIDE DEF n, x, z, c
<1>5. Len(x) = Len(z) + 1 /\ Len(z) \in Nat
  BY <1>1, <1>2, <1>3, <1>4
<1>6. x[1] = c
  <2>1. 1 \in 1..(n - i + 1) /\ i + 1 - 1 = i
    BY <1>1, <1>4
  <2>2. x[1] = t[i + 1 - 1]
    BY <1>2, <2>1
  <2> QED
    BY <1>4, <2>1, <2>2
<1>7. ASSUME NEW k \in 1..Len(z) PROVE x[k + 1] = z[k]
  <2>1. /\ k + 1 \in 1..(n - i + 1) /\ k \in 1..(n - (i + 1) + 1)
        /\ i + (k + 1) - 1 = (i + 1) + k - 1
    BY <1>1, <1>2, <1>3, <1>5
  <2>2. x[k + 1] = t[i + (k + 1) - 1] /\ z[k] = t[(i + 1) + k - 1]
    BY <1>2, <1>3, <2>1
  <2> QED
    BY <2>1, <2>2
<1>8. x = <<c>> \o z
  BY <1>1, <1>2, <1>3, <1>5, <1>6, <1>7, PutBack
<1> QED
  BY <1>1, <1>3, <1>8 DEF n, x, z, c

LEMMA SamePeel ==
  ASSUME NEW T, NEW a \in T, NEW b \in T, NEW x \in Seq(T), NEW y \in Seq(T), <<a>> \o x = <<b>> \o y
  PROVE  a = b /\ x = y
<1> DEFINE p == <<a>> \o x
<1>1. Len(p) = Len(x) + 1 /\ p[1] = a /\ \A k \in 1..Len(x) : p[k + 1] = x[k]
  OBVIOUS
<1>2. Len(p) = Len(y) + 1 /\ p[1] = b /\ \A k \in 1..Len(y) : p[k + 1] = y[k]
  OBVIOUS
<1> HIDE DEF p
<1>3. Len(x) \in Nat /\ Len(y) \in Nat
  OBVIOUS
<1>4. a = b /\ Len(x) = Len(y) /\ \A k \in 1..Len(x) : x[k] = y[k]
  BY <1>1, <1>2, <1>3
<1> QED
  BY <1>4, SameText, Zenon

(* In quotes: what Quoted puts after the first one.                        *)
Token      == STRING \cup {Quote}
Escaped(c) == IF c = Quote THEN <<Quote, Quote>> ELSE <<c>>

ClosedBy(v, f) ==
  /\ f \in [1..(Len(v) + 1) -> Seq(Token)] /\ f[Len(v) + 1] = <<Quote>>
  /\ \A i \in 1..Len(v) : f[i] = Escaped(v[i]) \o f[i + 1]

Closed(v) == (CHOOSE f : ClosedBy(v, f))[1]

LEMMA EscapedIs ==
  ASSUME NEW c \in Token
  PROVE  Escaped(c) \in Seq(Token) /\ \A x \in Seq(Token) : Escaped(c) \o x \in Seq(Token)
<1>1. Quote \in Token
  BY Zenon DEF Token
<1>2. <<c>> \in Seq(Token) /\ <<Quote, Quote>> \in Seq(Token)
  BY <1>1
<1>3. Escaped(c) \in Seq(Token)
  BY <1>2, Zenon DEF Escaped
<1>4. \A a, x \in Seq(Token) : a \o x \in Seq(Token)
  OBVIOUS
<1> QED
  BY <1>3, <1>4

LEMMA QuotedIs ==
  ASSUME NEW v \in Seq(Token)
  PROVE  \E f : ClosedBy(v, f) /\ Quoted(v) = <<Quote>> \o f[1]
<1> DEFINE n == Len(v)
           X == Seq(Token)
           base == <<Quote>>
           op(i, x) == Escaped(v[i]) \o x
           next == [i \in 1..n |-> i + 1]
           g == [i \in 1..n |-> [x \in X |-> op(i, x)]]
           Steps(f) == f = [i \in 1..(n + 1) |->
                              IF i > n THEN <<Quote>>
                              ELSE (IF v[i] = Quote THEN <<Quote, Quote>> ELSE <<v[i]>>) \o f[i + 1]]
           F == CHOOSE f : Steps(f)
<1>1. n \in Nat /\ \A i \in 1..n : v[i] \in Token
  OBVIOUS
<1>2. Quoted(v) = <<Quote>> \o F[1]
  BY Zenon DEF Quoted
<1>3. base \in X
  <2>1. Quote \in Token
    BY Zenon DEF Token
  <2> QED
    BY <2>1
<1>4. \A i \in 1..n : \A x \in X : op(i, x) \in X
  BY <1>1, EscapedIs, Zenon
<1>5. \A f : Steps(f) <=> f = [i \in 1..(n + 1) |-> IF i > n THEN base ELSE op(i, f[i + 1])]
  BY Zenon DEF Escaped
<1> HIDE DEF n, X, base, op, Steps
<1>6. next \in [1..n -> 1..(n + 1)] /\ \A i \in 1..n : next[i] = i + 1 /\ next[i] > i
  BY <1>1
<1>7. g \in [1..n -> [X -> X]] /\ \A i \in 1..n : \A x \in X : g[i][x] = op(i, x)
  BY <1>4
<1> HIDE DEF next, g
<1>8. \E f : Steps(f)
  <2>1. PICK f : Descends(f, n, X, base, g, next)
    BY <1>1, <1>3, <1>6, <1>7, Descent, Zenon
  <2>2. f \in [1..(n + 1) -> X] /\ f[n + 1] = base /\ \A i \in 1..n : f[next[i]] \in X /\ f[i] = g[i][f[next[i]]]
    BY <1>1, <1>6, <2>1 DEF Descends
  <2>3. \A i \in 1..n : f[i] = op(i, f[i + 1])
    BY <1>6, <1>7, <2>2
  <2>4. f = [i \in 1..(n + 1) |-> IF i > n THEN base ELSE op(i, f[i + 1])]
    BY <1>1, <2>2, <2>3
  <2> QED
    BY <1>5, <2>4
<1>9. Steps(F)
  BY <1>8, Zenon
<1> HIDE DEF F
<1>10. F = [i \in 1..(n + 1) |-> IF i > n THEN base ELSE op(i, F[i + 1])]
  BY <1>5, <1>9
<1>11. F[n + 1] = base /\ \A i \in 1..n : F[i] = op(i, F[i + 1]) /\ next[i] = i + 1
  BY <1>1, <1>6, <1>10
<1>12. F[n + 1] \in X /\ \A i \in 1..n : F[next[i]] \in X => F[i] \in X
  BY <1>3, <1>4, <1>11
<1>13. \A i \in 1..(n + 1) : F[i] \in X
  BY <1>1, <1>6, <1>12, StaysBack
<1>14. F \in [1..(n + 1) -> X]
  BY <1>10, <1>13
<1>15. ClosedBy(v, F)
  BY <1>11, <1>14 DEF ClosedBy, n, X, base, op
<1> QED
  BY <1>2, <1>15

(* A text determines what its end is in quotes.                            *)
Ends(v, w, d) == d \in Nat /\ Len(v) = Len(w) + d /\ \A i \in 1..Len(w) : v[d + i] = w[i]

LEMMA SameClosed ==
  ASSUME NEW v \in Seq(Token), NEW w \in Seq(Token), NEW f, NEW g, ClosedBy(v, f), ClosedBy(w, g),
         NEW d, Ends(v, w, d)
  PROVE  \A i \in 1..(Len(w) + 1) : f[d + i] = g[i]
<1> DEFINE n == Len(w)
           S == {i \in 1..(n + 1) : f[d + i] = g[i]}
<1>1. n \in Nat /\ d \in Nat /\ Len(v) = n + d /\ \A i \in 1..n : v[d + i] = w[i]
  BY DEF Ends
<1>2. n + 1 \in S
  <2>1. d + (n + 1) = Len(v) + 1 /\ n + 1 \in 1..(n + 1)
    BY <1>1
  <2>2. f[Len(v) + 1] = <<Quote>> /\ g[n + 1] = <<Quote>>
    BY Zenon DEF ClosedBy
  <2>3. f[d + (n + 1)] = g[n + 1]
    BY <2>1, <2>2, Zenon
  <2> QED
    BY <2>1, <2>3
<1>3. ASSUME NEW i \in 1..n, \A j \in (i + 1)..(n + 1) : j \in S
      PROVE  i \in S
  <2>1. i + 1 \in S /\ d + i \in 1..Len(v) /\ (d + i) + 1 = d + (i + 1)
    BY <1>1, <1>3
  <2>2. f[d + i] = Escaped(v[d + i]) \o f[(d + i) + 1] /\ g[i] = Escaped(w[i]) \o g[i + 1]
    BY <1>1, <2>1 DEF ClosedBy
  <2>3. v[d + i] = w[i] /\ f[d + (i + 1)] = g[i + 1]
    BY <1>1, <2>1
  <2>4. f[d + i] = g[i]
    BY <2>1, <2>2, <2>3, Zenon
  <2> QED
    BY <1>1, <2>4
<1> HIDE DEF S
<1>4. \A i \in 1..(n + 1) : i \in S
  BY <1>1, <1>2, <1>3, Back
<1> QED
  BY <1>4 DEF S

LEMMA ClosedIs ==
  ASSUME NEW v \in Seq(Token)
  PROVE  /\ ClosedBy(v, CHOOSE f : ClosedBy(v, f)) /\ Closed(v) \in Seq(Token)
         /\ Quoted(v) = <<Quote>> \o Closed(v)
<1> DEFINE F == CHOOSE f : ClosedBy(v, f)
<1>1. PICK f : ClosedBy(v, f) /\ Quoted(v) = <<Quote>> \o f[1]
  BY QuotedIs
<1>2. ClosedBy(v, F)
  BY <1>1, Zenon
<1>3. Closed(v) = F[1]
  BY Zenon DEF Closed
<1> HIDE DEF F
<1>4. Len(v) \in Nat /\ Ends(v, v, 0)
  BY DEF Ends
<1>5. \A i \in 1..(Len(v) + 1) : F[0 + i] = f[i]
  BY <1>1, <1>2, <1>4, SameClosed, SMTT(20)
<1>6. F[1] = f[1] /\ f[1] \in Seq(Token)
  <2>1. 1 \in 1..(Len(v) + 1) /\ 0 + 1 = 1
    BY <1>4
  <2>2. f \in [1..(Len(v) + 1) -> Seq(Token)]
    BY <1>1, Zenon DEF ClosedBy
  <2> QED
    BY <1>5, <2>1, <2>2
<1> QED
  BY <1>1, <1>2, <1>3, <1>6 DEF F

LEMMA ClosedNothing == Closed(<<>>) = <<Quote>>
<1> DEFINE F == CHOOSE f : ClosedBy(<<>>, f)
<1>1. <<>> \in Seq(Token) /\ Len(<<>>) = 0
  OBVIOUS
<1>2. ClosedBy(<<>>, F)
  BY <1>1, ClosedIs
<1>3. Closed(<<>>) = F[1]
  BY Zenon DEF Closed
<1> HIDE DEF F
<1>4. F[1] = <<Quote>>
  BY <1>1, <1>2 DEF ClosedBy
<1> QED
  BY <1>3, <1>4

LEMMA ClosedPut ==
  ASSUME NEW c \in Token, NEW x \in Seq(Token)
  PROVE  Closed(<<c>> \o x) = Escaped(c) \o Closed(x)
<1> DEFINE v == <<c>> \o x
           F == CHOOSE f : ClosedBy(v, f)
           G == CHOOSE f : ClosedBy(x, f)
<1>1. v \in Seq(Token) /\ Len(v) = Len(x) + 1 /\ v[1] = c /\ \A k \in 1..Len(x) : v[k + 1] = x[k]
  BY Put
<1> HIDE DEF v
<1>2. ClosedBy(v, F) /\ ClosedBy(x, G)
  BY <1>1, ClosedIs
<1>3. Closed(v) = F[1] /\ Closed(x) = G[1]
  BY Zenon DEF Closed
<1> HIDE DEF F, G
<1>4. Len(x) \in Nat /\ Ends(v, x, 1)
  BY <1>1 DEF Ends
<1>5. \A i \in 1..(Len(x) + 1) : F[1 + i] = G[i]
  <2>1. Len(v) = Len(x) + 1 /\ x \in Seq(Token)
    BY <1>1
  <2> QED
    BY <1>1, <1>2, <1>4, <2>1, SameClosed, SMTT(20)
<1>6. F[1] = Escaped(v[1]) \o F[1 + 1] /\ F[1 + 1] = G[1]
  <2>1. 1 \in 1..Len(v) /\ 1 \in 1..(Len(x) + 1)
    BY <1>1, <1>4
  <2>2. F[1] = Escaped(v[1]) \o F[1 + 1]
    BY <1>2, <2>1, Zenon DEF ClosedBy
  <2> QED
    BY <1>5, <2>1, <2>2
<1> QED
  BY <1>1, <1>3, <1>6 DEF v

SamePut(a, x, b, y) == <<a>> \o x = <<b>> \o y

LEMMA SameOpening ==
  ASSUME NEW a \in Token, NEW b \in Token, NEW x \in Seq(Token), NEW y \in Seq(Token), SamePut(a, x, b, y)
  PROVE  a = b /\ x = y
<1>1. <<a>> \o x = <<b>> \o y
  BY Zenon DEF SamePut
<1> HIDE DEF Token
<1> QED
  BY <1>1, SamePeel

LEMMA WholeRest ==
  ASSUME NEW T, NEW t \in Seq(T), t # <<>>
  PROVE  Rest(t, 1) = t
<1>1. 1 \in 1..(Len(t) + 1) /\ Len(t) \in Nat
  OBVIOUS
<1>2. /\ Rest(t, 1) \in Seq(T) /\ Len(Rest(t, 1)) = Len(t) - 1 + 1
      /\ \A k \in 1..(Len(t) - 1 + 1) : Rest(t, 1)[k] = t[1 + k - 1]
  BY <1>1, RestIs
<1> DEFINE r == Rest(t, 1)
<1>3. r \in Seq(T) /\ Len(r) = Len(t) /\ \A k \in 1..Len(r) : r[k] = t[k]
  BY <1>1, <1>2
<1> HIDE DEF r
<1>4. r = t
  BY <1>3, SameText
<1> QED
  BY <1>4 DEF r

LEMMA FirstAndRest ==
  ASSUME NEW T, NEW t \in Seq(T), t # <<>>
  PROVE  \E c \in T : \E x \in Seq(T) : t = <<c>> \o x
<1>1. 1 \in 1..Len(t)
  OBVIOUS
<1>2. t[1] \in T /\ Rest(t, 1 + 1) \in Seq(T) /\ Rest(t, 1) = <<t[1]>> \o Rest(t, 1 + 1)
  BY <1>1, Peel
<1>3. Rest(t, 1) = t
  BY WholeRest
<1> QED
  BY <1>2, <1>3

LEMMA Twice ==
  ASSUME NEW T, NEW q \in T, NEW x \in Seq(T)
  PROVE  <<q, q>> \o x = <<q>> \o (<<q>> \o x) /\ <<q>> \o x \in Seq(T)
<1>1. <<q>> \in Seq(T) /\ <<q, q>> \in Seq(T) /\ <<q>> \o <<q>> \in Seq(T) /\ <<q>> \o x \in Seq(T)
  OBVIOUS
<1>2. <<q>> \o <<q>> = <<q, q>>
  <2> DEFINE a == <<q>> \o <<q>>
             b == <<q, q>>
  <2>1. Len(a) = 2 /\ Len(b) = 2 /\ a[1] = q /\ a[2] = q /\ b[1] = q /\ b[2] = q
    OBVIOUS
  <2>2. a \in Seq(T) /\ b \in Seq(T)
    BY <1>1
  <2> HIDE DEF a, b
  <2>3. Len(a) = Len(b) /\ \A k \in 1..Len(a) : a[k] = b[k]
    BY <2>1
  <2>4. a = b
    BY <2>2, <2>3, SameText
  <2> QED
    BY <2>4 DEF a, b
<1>3. (<<q>> \o <<q>>) \o x = <<q>> \o (<<q>> \o x)
  BY <1>1, ConcatAssociative
<1> QED
  BY <1>1, <1>2, <1>3

LEMMA TwoQuotes ==
  ASSUME NEW x \in Seq(Token)
  PROVE  <<Quote, Quote>> \o x = <<Quote>> \o (<<Quote>> \o x) /\ <<Quote>> \o x \in Seq(Token)
<1>1. Quote \in Token
  BY Zenon DEF Token
<1> QED
  BY <1>1, Twice

(* What begins a text in quotes, and what is left.                         *)
ClosedAs(w, a, y) == Closed(w) = <<a>> \o y

Opened(w, a, y) ==
  \/ w = <<>> /\ a = Quote /\ y = <<>>
  \/ \E x \in Seq(Token) : a # Quote /\ w = <<a>> \o x /\ y = Closed(x)
  \/ \E x \in Seq(Token) : a = Quote /\ w = <<a>> \o x /\ y = <<Quote>> \o Closed(x)

LEMMA Opens ==
  ASSUME NEW w \in Seq(Token), NEW a \in Token, NEW y \in Seq(Token), ClosedAs(w, a, y)
  PROVE  Opened(w, a, y)
<1>1. Closed(w) = <<a>> \o y
  BY Zenon DEF ClosedAs
<1>2. Quote \in Token /\ <<>> \in Seq(Token) /\ <<Quote>> \o <<>> = <<Quote>>
  <2>1. Quote \in Token
    BY Zenon DEF Token
  <2> QED
    BY <2>1
<1>3. CASE w = <<>>
  <2>1. <<Quote>> \o <<>> = <<a>> \o y
    BY <1>1, <1>2, <1>3, ClosedNothing, Zenon
  <2>2. SamePut(Quote, <<>>, a, y)
    BY <2>1, Zenon DEF SamePut
  <2>3. a = Quote /\ y = <<>>
    BY <1>2, <2>2, SameOpening, Zenon
  <2> QED
    BY <1>3, <2>3, Zenon DEF Opened
<1>4. CASE w # <<>>
  <2>1. PICK c \in Token, x \in Seq(Token) : w = <<c>> \o x
    <3>1. \E c \in Token : \E x \in Seq(Token) : w = <<c>> \o x
      BY ONLY w \in Seq(Token), w # <<>>, FirstAndRest, Zenon
    <3> QED
      BY <3>1, Zenon
  <2>2. Closed(w) = Escaped(c) \o Closed(x) /\ Closed(x) \in Seq(Token)
    BY <2>1, ClosedPut, ClosedIs
  <2>3. CASE c = Quote
    <3>1. <<Quote>> \o (<<Quote>> \o Closed(x)) = <<a>> \o y /\ <<Quote>> \o Closed(x) \in Seq(Token)
      BY <1>1, <2>2, <2>3, TwoQuotes DEF Escaped
    <3>2. SamePut(Quote, <<Quote>> \o Closed(x), a, y)
      BY <3>1, Zenon DEF SamePut
    <3>3. a = Quote /\ y = <<Quote>> \o Closed(x)
      BY <1>2, <3>1, <3>2, SameOpening, Zenon
    <3> QED
      BY <2>1, <2>3, <3>3, Zenon DEF Opened
  <2>4. CASE c # Quote
    <3>1. <<c>> \o Closed(x) = <<a>> \o y
      BY <1>1, <2>2, <2>4, Zenon DEF Escaped
    <3>2. SamePut(c, Closed(x), a, y)
      BY <3>1, Zenon DEF SamePut
    <3>3. c = a /\ Closed(x) = y
      BY <2>2, <3>2, SameOpening, Zenon
    <3> QED
      BY <2>1, <2>4, <3>3, Zenon DEF Opened
  <2> QED
    BY <2>3, <2>4
<1> QED
  BY <1>3, <1>4

LEMMA OpensQuote ==
  ASSUME NEW w \in Seq(Token), NEW y \in Seq(Token), y # <<>>, Closed(w) = <<Quote>> \o y
  PROVE  \E u \in Seq(Token) : y = <<Quote>> \o Closed(u)
<1>1. Quote \in Token
  BY Zenon DEF Token
<1>2. ClosedAs(w, Quote, y)
  BY Zenon DEF ClosedAs
<1>3. Opened(w, Quote, y)
  BY <1>1, <1>2, Opens, Zenon
<1> QED
  BY <1>3, Zenon DEF Opened

LEMMA OpensPlain ==
  ASSUME NEW w \in Seq(Token), NEW a \in Token, a # Quote, NEW y \in Seq(Token), Closed(w) = <<a>> \o y
  PROVE  \E x \in Seq(Token) : y = Closed(x)
<1>1. ClosedAs(w, a, y)
  BY Zenon DEF ClosedAs
<1>2. Opened(w, a, y)
  BY <1>1, Opens, Zenon
<1> QED
  BY <1>2, Zenon DEF Opened

LEMMA ClosedLong ==
  ASSUME NEW w \in Seq(Token)
  PROVE  Closed(w) # <<>>
<1>1. CASE w = <<>>
  BY <1>1, ClosedNothing
<1>2. CASE w # <<>>
  <2>2. PICK c \in Token, x \in Seq(Token) : w = <<c>> \o x
    BY <1>2, FirstAndRest, Zenon
  <2>4. Closed(w) = Escaped(c) \o Closed(x) /\ Closed(x) \in Seq(Token)
    BY <2>2, ClosedPut, ClosedIs
  <2>5. CASE c = Quote
    <3>1. Closed(w) = <<Quote>> \o (<<Quote>> \o Closed(x)) /\ <<Quote>> \o Closed(x) \in Seq(Token) /\ c \in Token
      BY <2>2, <2>4, <2>5, TwoQuotes DEF Escaped
    <3>2. Len(Closed(w)) = Len(<<Quote>> \o Closed(x)) + 1
      BY <2>5, <3>1, Put
    <3> QED
      BY <3>1, <3>2
  <2>6. CASE c # Quote
    <3>1. Closed(w) = <<c>> \o Closed(x)
      BY <2>4, <2>6 DEF Escaped
    <3> QED
      BY <2>2, <2>4, <3>1, Put
  <2> QED
    BY <2>5, <2>6
<1> QED
  BY <1>1, <1>2

-----------------------------------------------------------------------------
(* ParseValue of a text in quotes, from the end: at i, the value of what   *)
(* begins there, or Unset.                                                 *)
In(t) == {t[i] : i \in 1..Len(t)}

Prefixed(c, x) == IF x = Unset THEN Unset ELSE <<c>> \o x

Parses(t, i, f) ==
  IF i >= Len(t) THEN <<>>
  ELSE IF t[i] # Quote THEN Prefixed(t[i], f[i + 1])
  ELSE IF i + 1 < Len(t) /\ t[i + 1] = Quote THEN Prefixed(Quote, f[i + 2])
  ELSE Unset

ParsedBy(t, f) ==
  /\ f \in [1..(Len(t) + 1) -> Seq(In(t)) \cup {Unset}]
  /\ \A i \in 1..(Len(t) + 1) : f[i] = Parses(t, i, f)

LEMMA ParsedIs ==
  ASSUME NEW t \in Seq(STRING), t[1] = Quote, Len(t) > 1, t[Len(t)] = Quote
  PROVE  \E f : ParsedBy(t, f) /\ ParseValue(t) = f[2]
<1> DEFINE n == Len(t)
           X == Seq(In(t)) \cup {Unset}
           base == <<>>
           twice(i) == i + 1 < n /\ t[i + 1] = Quote
           after(i) == IF t[i] = Quote /\ twice(i) THEN i + 2 ELSE i + 1
           op(i, x) == IF i >= n THEN <<>> ELSE IF t[i] # Quote \/ twice(i) THEN Prefixed(t[i], x) ELSE Unset
           next == [i \in 1..n |-> after(i)]
           g == [i \in 1..n |-> [x \in X |-> op(i, x)]]
           Steps(f) == f = [i \in 1..(n + 1) |->
             IF i >= n THEN <<>>
             ELSE IF t[i] # Quote THEN LET rest == f[i + 1] IN IF rest = Unset THEN Unset ELSE <<t[i]>> \o rest
             ELSE IF i + 1 < n /\ t[i + 1] = Quote
               THEN LET rest == f[i + 2] IN IF rest = Unset THEN Unset ELSE <<Quote>> \o rest
             ELSE Unset]
           F == CHOOSE f : Steps(f)
<1>1. n \in Nat /\ n > 1 /\ \A i \in 1..n : t[i] \in In(t)
  BY DEF In
<1>2. ParseValue(t) = F[2]
  <2>1. ~(Len(t) = 1 \/ t[Len(t)] # Quote)
    BY <1>1
  <2> QED
    BY <2>1, Zenon DEF ParseValue
<1>3. base \in X
  OBVIOUS
<1>4. \A i \in 1..n : after(i) \in (i + 1)..(n + 1)
  BY <1>1
<1>5. \A i \in 1..n : \A x \in X : op(i, x) \in X
  <2> SUFFICES ASSUME NEW i \in 1..n, NEW x \in X PROVE op(i, x) \in X
    OBVIOUS
  <2>1. Prefixed(t[i], x) \in X
    <3>1. CASE x = Unset
      BY <3>1, Zenon DEF Prefixed
    <3>2. CASE x # Unset
      <4>1. x \in Seq(In(t)) /\ t[i] \in In(t)
        BY <1>1, <3>2
      <4>2. <<t[i]>> \o x \in Seq(In(t))
        BY <4>1, Put
      <4> QED
        BY <3>2, <4>2 DEF Prefixed
    <3> QED
      BY <3>1, <3>2
  <2>2. Unset \in X /\ <<>> \in X
    OBVIOUS
  <2> HIDE DEF X
  <2> QED
    BY <2>1, <2>2, Zenon
<1>6. \A f : Steps(f) <=> f = [i \in 1..(n + 1) |-> Parses(t, i, f)]
  BY Zenon DEF Parses, Prefixed
<1>7. \A f : \A i \in 1..n : Parses(t, i, f) = op(i, f[after(i)])
  <2> SUFFICES ASSUME NEW f, NEW i \in 1..n PROVE Parses(t, i, f) = op(i, f[after(i)])
    OBVIOUS
  <2> QED
    BY Zenon DEF Parses
<1>8. \A f : Parses(t, n + 1, f) = base
  BY <1>1 DEF Parses
<1> HIDE DEF n, X, base, op, after, Steps
<1>9. next \in [1..n -> 1..(n + 1)] /\ \A i \in 1..n : next[i] = after(i) /\ next[i] > i
  BY <1>1, <1>4
<1>10. g \in [1..n -> [X -> X]] /\ \A i \in 1..n : \A x \in X : g[i][x] = op(i, x)
  BY <1>5
<1> HIDE DEF next, g
<1>11. \E f : Steps(f)
  <2>1. PICK f : Descends(f, n, X, base, g, next)
    BY <1>1, <1>3, <1>9, <1>10, Descent, Zenon
  <2>2. f \in [1..(n + 1) -> X] /\ f[n + 1] = base /\ \A i \in 1..n : f[next[i]] \in X /\ f[i] = g[i][f[next[i]]]
    BY <1>1, <1>9, <2>1 DEF Descends
  <2>3. \A i \in 1..n : f[i] = op(i, f[after(i)])
    BY <1>9, <1>10, <2>2
  <2>4. \A i \in 1..(n + 1) : f[i] = Parses(t, i, f)
    BY <1>1, <1>7, <1>8, <2>2, <2>3
  <2>5. f = [i \in 1..(n + 1) |-> Parses(t, i, f)]
    BY <2>2, <2>4
  <2> QED
    BY <1>6, <2>5
<1>12. Steps(F)
  BY <1>11, Zenon
<1> HIDE DEF F
<1>13. F = [i \in 1..(n + 1) |-> Parses(t, i, F)]
  BY <1>6, <1>12
<1>14. F[n + 1] = base /\ \A i \in 1..n : F[i] = op(i, F[after(i)]) /\ next[i] = after(i)
  BY <1>1, <1>7, <1>8, <1>9, <1>13
<1>15. F[n + 1] \in X /\ \A i \in 1..n : F[next[i]] \in X => F[i] \in X
  BY <1>3, <1>5, <1>14
<1>16. \A i \in 1..(n + 1) : F[i] \in X
  BY <1>1, <1>9, <1>15, StaysBack
<1>17. F \in [1..(n + 1) -> X]
  BY <1>13, <1>16
<1>18. ParsedBy(t, F)
  BY <1>13, <1>17 DEF ParsedBy, n, X
<1> QED
  BY <1>2, <1>18

(* What has been parsed from i on is what in quotes ends like the text.    *)
Reads(t, i, x) ==
  /\ x # Unset => Len(x) <= Len(t) - i /\ Closed(x) = Rest(t, i)
  /\ x = Unset => \A w \in Seq(Token) : Closed(w) # Rest(t, i)

LEMMA ReadsEnd ==
  ASSUME NEW t \in Seq(STRING), t # <<>>, t[Len(t)] = Quote
  PROVE  Reads(t, Len(t), <<>>)
<1> DEFINE n == Len(t)
<1>1. n \in Nat /\ n \in 1..(n + 1) /\ n \in 1..n
  OBVIOUS
<1>2. /\ Rest(t, n) \in Seq(STRING) /\ Len(Rest(t, n)) = n - n + 1
      /\ \A k \in 1..(n - n + 1) : Rest(t, n)[k] = t[n + k - 1]
  BY <1>1, RestIs
<1>3. Rest(t, n) = <<Quote>>
  <2>1. Len(Rest(t, n)) = 1 /\ Rest(t, n)[1] = Quote
    BY <1>1, <1>2
  <2> QED
    BY <1>2, <2>1
<1>4. <<>> # Unset /\ Len(<<>>) = 0
  <2>1. <<>> \in Seq(STRING) /\ Len(<<>>) = 0
    OBVIOUS
  <2> QED
    BY <2>1, UnsetAssumption, Zenon
<1> QED
  BY <1>1, <1>3, <1>4, ClosedNothing DEF Reads

(* The tokens of a text.                                                   *)
LEMMA InIs ==
  ASSUME NEW t \in Seq(STRING)
  PROVE  /\ In(t) \subseteq STRING /\ In(t) \subseteq Token /\ Unset \notin Seq(In(t))
         /\ Seq(In(t)) \subseteq Seq(Token) /\ t \in Seq(Token)
<1>1. In(t) \subseteq STRING
  BY DEF In
<1>2. STRING \subseteq Token
  BY Zenon DEF Token
<1>3. In(t) \subseteq Token
  BY <1>1, <1>2
<1>4. \A S : S \subseteq Token => Seq(S) \subseteq Seq(Token)
  OBVIOUS
<1>5. Seq(In(t)) \subseteq Seq(STRING)
  BY <1>1
<1> QED
  BY <1>1, <1>2, <1>3, <1>4, <1>5, UnsetAssumption

LEMMA ReadsPlain ==
  ASSUME NEW t \in Seq(STRING), NEW i \in 1..Len(t), i < Len(t), t[i] # Quote,
         NEW x \in Seq(In(t)) \cup {Unset}, Reads(t, i + 1, x)
  PROVE  Reads(t, i, Prefixed(t[i], x))
<1>1. /\ t[i] \in In(t) /\ t[i] \in Token /\ Rest(t, i) = <<t[i]>> \o Rest(t, i + 1)
      /\ Rest(t, i + 1) \in Seq(Token)
  <2>1. t \in Seq(Token)
    BY InIs
  <2> QED
    BY <2>1, Peel DEF In
<1>2. CASE x # Unset
  <2>1. x \in Seq(In(t)) /\ x \in Seq(Token)
    BY <1>2, InIs
  <2>2. Prefixed(t[i], x) = <<t[i]>> \o x /\ <<t[i]>> \o x \in Seq(In(t)) /\ Len(<<t[i]>> \o x) = Len(x) + 1
    BY <1>1, <1>2, <2>1, Put DEF Prefixed
  <2>3. Closed(<<t[i]>> \o x) = Escaped(t[i]) \o Closed(x)
    BY <1>1, <2>1, ClosedPut
  <2>4. Closed(x) = Rest(t, i + 1) /\ Len(x) <= Len(t) - (i + 1) /\ Len(x) \in Nat
    BY <1>2, <2>1 DEF Reads
  <2>5. Closed(<<t[i]>> \o x) = Rest(t, i)
    BY <1>1, <2>3, <2>4 DEF Escaped
  <2>6. <<t[i]>> \o x # Unset
    BY <2>2, InIs
  <2>7. Len(<<t[i]>> \o x) <= Len(t) - i
    BY <2>2, <2>4
  <2> QED
    BY <2>2, <2>5, <2>6, <2>7 DEF Reads
<1>3. CASE x = Unset
  <2>1. Prefixed(t[i], x) = Unset
    BY <1>3 DEF Prefixed
  <2>2. ASSUME NEW w \in Seq(Token), Closed(w) = Rest(t, i) PROVE FALSE
    <3>1. Closed(w) = <<t[i]>> \o Rest(t, i + 1)
      BY <1>1, <2>2
    <3> DEFINE b == t[i]
               y == Rest(t, i + 1)
    <3>2. b \in Token /\ b # Quote /\ y \in Seq(Token) /\ Closed(w) = <<b>> \o y
      BY <1>1, <3>1
    <3> HIDE DEF b, y
    <3>3. \E u \in Seq(Token) : y = Closed(u)
      BY <3>2, OpensPlain
    <3> QED
      BY <1>3, <3>3 DEF Reads, y
  <2> QED
    BY <2>1, <2>2 DEF Reads
<1> QED
  BY <1>2, <1>3

LEMMA ReadsQuote ==
  ASSUME NEW t \in Seq(STRING), NEW i \in 1..Len(t), i + 1 < Len(t), t[i] = Quote, t[i + 1] = Quote,
         NEW x \in Seq(In(t)) \cup {Unset}, Reads(t, i + 2, x)
  PROVE  Reads(t, i, Prefixed(Quote, x))
<1>1. i + 1 \in 1..Len(t) /\ t \in Seq(Token) /\ (i + 1) + 1 = i + 2
  BY InIs
<1>2. /\ Quote \in In(t) /\ Quote \in Token /\ Rest(t, i) = <<Quote>> \o Rest(t, i + 1)
      /\ Rest(t, i + 1) = <<Quote>> \o Rest(t, i + 2) /\ Rest(t, i + 1) \in Seq(Token)
      /\ Rest(t, i + 2) \in Seq(Token)
  <2>1. /\ t[i] \in Token /\ Rest(t, i + 1) \in Seq(Token)
        /\ Rest(t, i) = <<t[i]>> \o Rest(t, i + 1)
    BY <1>1, Peel
  <2>2. Rest(t, i + 2) \in Seq(Token) /\ Rest(t, i + 1) = <<t[i + 1]>> \o Rest(t, i + 2)
    BY <1>1, Peel
  <2>3. t[i] \in In(t)
    BY DEF In
  <2> QED
    BY <2>1, <2>2, <2>3
<1>3. CASE x # Unset
  <2>1. x \in Seq(In(t)) /\ x \in Seq(Token)
    BY <1>3, InIs
  <2>2. Prefixed(Quote, x) = <<Quote>> \o x /\ <<Quote>> \o x \in Seq(In(t)) /\ Len(<<Quote>> \o x) = Len(x) + 1
    BY <1>2, <1>3, <2>1, Put DEF Prefixed
  <2>3. Closed(<<Quote>> \o x) = <<Quote, Quote>> \o Closed(x) /\ Closed(x) \in Seq(Token)
    BY <1>2, <2>1, ClosedPut, ClosedIs DEF Escaped
  <2>4. Closed(x) = Rest(t, i + 2) /\ Len(x) <= Len(t) - (i + 2) /\ Len(x) \in Nat
    BY <1>3, <2>1 DEF Reads
  <2>5. Closed(<<Quote>> \o x) = Rest(t, i)
    BY <1>2, <2>3, <2>4, TwoQuotes
  <2>6. <<Quote>> \o x # Unset
    BY <2>2, InIs
  <2>7. Len(<<Quote>> \o x) <= Len(t) - i
    BY <2>2, <2>4
  <2> QED
    BY <2>2, <2>5, <2>6, <2>7 DEF Reads
<1>4. CASE x = Unset
  <2>1. Prefixed(Quote, x) = Unset
    BY <1>4 DEF Prefixed
  <2>2. ASSUME NEW w \in Seq(Token), Closed(w) = Rest(t, i) PROVE FALSE
    <3>1. Closed(w) = <<Quote>> \o Rest(t, i + 1) /\ Rest(t, i + 1) # <<>>
      BY <1>2, <2>2, Put
    <3>2. PICK u \in Seq(Token) : Rest(t, i + 1) = <<Quote>> \o Closed(u)
      BY <1>2, <3>1, OpensQuote, Zenon
    <3>3. <<Quote>> \o Closed(u) = <<Quote>> \o Rest(t, i + 2) /\ Closed(u) \in Seq(Token)
      BY <1>2, <3>2, ClosedIs
    <3>4. Closed(u) = Rest(t, i + 2)
      <4>1. SamePut(Quote, Closed(u), Quote, Rest(t, i + 2))
        BY <3>3, Zenon DEF SamePut
      <4>2. Quote \in Token /\ Rest(t, i + 2) \in Seq(Token)
        BY <1>2
      <4> QED
        BY <3>3, <4>1, <4>2, SameOpening, Zenon
    <3> QED
      BY <1>4, <3>4 DEF Reads
  <2> QED
    BY <2>1, <2>2 DEF Reads
<1> QED
  BY <1>3, <1>4

LEMMA ReadsNothing ==
  ASSUME NEW t \in Seq(STRING), NEW i \in 1..Len(t), i < Len(t), t[i] = Quote,
         ~(i + 1 < Len(t) /\ t[i + 1] = Quote)
  PROVE  Reads(t, i, Unset)
<1>1. i + 1 \in 1..Len(t) /\ t \in Seq(Token) /\ (i + 1) + 1 = i + 2
  BY InIs
<1>2. /\ Quote \in Token /\ Rest(t, i) = <<Quote>> \o Rest(t, i + 1) /\ t[i + 1] \in Token
      /\ Rest(t, i + 1) = <<t[i + 1]>> \o Rest(t, i + 2) /\ Rest(t, i + 1) \in Seq(Token)
      /\ Rest(t, i + 2) \in Seq(Token)
  <2>1. /\ t[i] \in Token /\ Rest(t, i + 1) \in Seq(Token)
        /\ Rest(t, i) = <<t[i]>> \o Rest(t, i + 1)
    BY <1>1, Peel
  <2>2. /\ Rest(t, i + 2) \in Seq(Token) /\ Rest(t, i + 1) = <<t[i + 1]>> \o Rest(t, i + 2)
        /\ t[i + 1] \in Token
    BY <1>1, Peel
  <2> QED
    BY <2>1, <2>2
<1>3. ASSUME NEW w \in Seq(Token), Closed(w) = Rest(t, i) PROVE FALSE
  <2>1. Closed(w) = <<Quote>> \o Rest(t, i + 1) /\ Rest(t, i + 1) # <<>>
    BY <1>2, <1>3, Put
  <2>2. PICK u \in Seq(Token) : Rest(t, i + 1) = <<Quote>> \o Closed(u)
    BY <1>2, <2>1, OpensQuote, Zenon
  <2> DEFINE b == t[i + 1]
             y == Rest(t, i + 2)
             c == Closed(u)
  <2>a. <<Quote>> \o c = <<b>> \o y /\ c \in Seq(Token) /\ b \in Token /\ y \in Seq(Token)
    BY <1>2, <2>2, ClosedIs
  <2> HIDE DEF b, y, c
  <2>b. c = y /\ Quote = b
    <3>1. Quote \in Token /\ b \in Token /\ c \in Seq(Token) /\ y \in Seq(Token)
      BY <1>2, <2>a
    <3>2. SamePut(Quote, c, b, y)
      BY <2>a, Zenon DEF SamePut
    <3> QED
      BY <3>1, <3>2, SameOpening, Zenon
  <2>3. Closed(u) = Rest(t, i + 2) /\ t[i + 1] = Quote
    BY <2>b DEF b, y, c
  <2>4. Len(Rest(t, i + 2)) = Len(t) - (i + 2) + 1 /\ i + 2 \in 1..(Len(t) + 1)
    BY <1>1, RestIs
  <2>5. Rest(t, i + 2) # <<>>
    BY <2>3, ClosedLong
  <2>6. i + 1 < Len(t)
    BY <1>2, <2>4, <2>5
  <2> QED
    BY <2>3, <2>6
<1> QED
  BY <1>3, UnsetAssumption DEF Reads

LEMMA ReadsAll ==
  ASSUME NEW t \in Seq(STRING), t # <<>>, t[Len(t)] = Quote, NEW f, ParsedBy(t, f)
  PROVE  \A i \in 1..Len(t) : Reads(t, i, f[i])
<1> DEFINE n == Len(t)
           S == {i \in 1..(n + 1) : i <= n => Reads(t, i, f[i])}
<1>1. n \in Nat /\ n >= 1
  OBVIOUS
<1>2. n + 1 \in S
  BY <1>1
<1>3. ASSUME NEW i \in 1..n, \A j \in (i + 1)..(n + 1) : j \in S
      PROVE  i \in S
  <2>1. i \in 1..(n + 1) /\ i + 1 \in 1..(n + 1) /\ f[i] = Parses(t, i, f) /\ f[i + 1] \in Seq(In(t)) \cup {Unset}
    BY <1>1 DEF ParsedBy
  <2>2. CASE i = n
    <3>1. f[i] = <<>>
      BY <1>1, <2>1, <2>2 DEF Parses
    <3>2. Reads(t, i, f[i])
      BY <2>2, <3>1, ReadsEnd
    <3> QED
      BY <2>1, <3>2
  <2>3. CASE i # n /\ t[i] # Quote
    <3>1. i < Len(t) /\ i \in 1..Len(t)
      BY <1>1, <2>3
    <3>2. Reads(t, i + 1, f[i + 1])
      BY <1>1, <1>3, <3>1
    <3>3. f[i] = Prefixed(t[i], f[i + 1])
      BY <1>1, <2>1, <2>3, <3>1 DEF Parses
    <3>4. Reads(t, i, f[i])
      BY <2>1, <2>3, <3>1, <3>2, <3>3, ReadsPlain
    <3> QED
      BY <2>1, <3>4
  <2>4. CASE i # n /\ t[i] = Quote /\ i + 1 < n /\ t[i + 1] = Quote
    <3>1. i < Len(t) /\ i \in 1..Len(t) /\ i + 2 \in 1..(n + 1) /\ i + 2 <= n /\ i + 2 \in (i + 1)..(n + 1)
      BY <1>1, <2>4
    <3>2. Reads(t, i + 2, f[i + 2]) /\ f[i + 2] \in Seq(In(t)) \cup {Unset}
      BY <1>1, <1>3, <3>1 DEF ParsedBy
    <3>3. f[i] = Prefixed(Quote, f[i + 2])
      BY <1>1, <2>1, <2>4, <3>1 DEF Parses
    <3>4. Reads(t, i, f[i])
      BY <2>1, <2>4, <3>1, <3>2, <3>3, ReadsQuote
    <3> QED
      BY <2>1, <3>4
  <2>5. CASE i # n /\ t[i] = Quote /\ ~(i + 1 < n /\ t[i + 1] = Quote)
    <3>1. i < Len(t) /\ i \in 1..Len(t)
      BY <1>1, <2>5
    <3>2. f[i] = Unset
      BY <1>1, <2>1, <2>5, <3>1 DEF Parses
    <3>3. Reads(t, i, f[i])
      BY <2>5, <3>1, <3>2, ReadsNothing
    <3> QED
      BY <2>1, <3>3
  <2> QED
    BY <2>2, <2>3, <2>4, <2>5
<1> HIDE DEF S
<1>4. \A i \in 1..(n + 1) : i \in S
  BY <1>1, <1>2, <1>3, Back
<1> QED
  BY <1>1, <1>4 DEF S

(* A text in quotes ends with one.                                         *)
LEMMA ClosedEnds ==
  ASSUME NEW v \in Seq(Token)
  PROVE  Closed(v) \in Seq(Token) /\ Closed(v) # <<>> /\ Closed(v)[Len(Closed(v))] = Quote
<1> DEFINE F == CHOOSE f : ClosedBy(v, f)
           n == Len(v)
           X == {x \in Seq(Token) : x # <<>> /\ x[Len(x)] = Quote}
           next == [i \in 1..n |-> i + 1]
<1>1. ClosedBy(v, F) /\ Closed(v) = F[1]
  BY ClosedIs, Zenon DEF Closed
<1> HIDE DEF F
<1>2. n \in Nat /\ \A i \in 1..n : v[i] \in Token
  OBVIOUS
<1>3. F[n + 1] = <<Quote>> /\ \A i \in 1..n : F[i] = Escaped(v[i]) \o F[i + 1]
  BY <1>1, Zenon DEF ClosedBy
<1>4. F[n + 1] \in X
  <2>1. <<Quote>> \in Seq(Token) /\ Len(<<Quote>>) = 1 /\ <<Quote>>[1] = Quote
    <3>1. Quote \in Token
      BY Zenon DEF Token
    <3> QED
      BY <3>1
  <2> QED
    BY <1>3, <2>1
<1>5. \A a \in Seq(Token) : \A x \in X : a \o x \in X
  <2> SUFFICES ASSUME NEW a \in Seq(Token), NEW x \in X PROVE a \o x \in X
    OBVIOUS
  <2>1. /\ a \o x \in Seq(Token) /\ Len(a \o x) = Len(a) + Len(x) /\ Len(a) \in Nat /\ Len(x) \in Nat
        /\ Len(x) >= 1
    OBVIOUS
  <2>2. (a \o x)[Len(a) + Len(x)] = x[Len(x)]
    BY <2>1
  <2> DEFINE y == a \o x
  <2>3. y \in Seq(Token) /\ y # <<>> /\ y[Len(y)] = Quote
    BY <2>1, <2>2
  <2> HIDE DEF y
  <2>4. y \in X
    BY <2>3
  <2> QED
    BY <2>4 DEF y
<1>6. \A i \in 1..n : F[i + 1] \in X => F[i] \in X
  <2>1. \A i \in 1..n : Escaped(v[i]) \in Seq(Token)
    BY <1>2, EscapedIs
  <2> HIDE DEF X
  <2> QED
    BY <1>3, <1>5, <2>1, Zenon
<1>7. next \in [1..n -> 1..(n + 1)] /\ \A i \in 1..n : next[i] > i /\ next[i] = i + 1
  BY <1>2
<1> HIDE DEF X, next
<1>8. \A i \in 1..n : F[next[i]] \in X => F[i] \in X
  BY <1>6, <1>7
<1>9. \A i \in 1..(n + 1) : F[i] \in X
  BY <1>2, <1>4, <1>7, <1>8, StaysBack
<1>10. F[1] \in X
  BY <1>2, <1>9
<1> QED
  BY <1>1, <1>10 DEF X

-----------------------------------------------------------------------------
(* What a text stands for.                                                 *)
LEMMA StandsIs ==
  ASSUME NEW t \in Seq(STRING), NEW v
  PROVE  v \in StandsFor(t) <=> /\ v \in Seq(In(t)) /\ Len(v) <= Len(t)
                                /\ t = Quoted(v) \/ (t = v /\ Plain(v))
<1>1. Len(t) \in Nat
  OBVIOUS
<1>2. v \in UNION {[1..n -> In(t)] : n \in 0..Len(t)} <=> v \in Seq(In(t)) /\ Len(v) <= Len(t)
  <2>1. ASSUME NEW n \in 0..Len(t), v \in [1..n -> In(t)] PROVE v \in Seq(In(t)) /\ Len(v) <= Len(t)
    <3>1. n \in Nat
      BY <1>1
    <3>2. v \in Seq(In(t)) /\ Len(v) = n
      BY <2>1, <3>1
    <3> QED
      BY <1>1, <3>2
  <2>2. ASSUME v \in Seq(In(t)), Len(v) <= Len(t) PROVE \E n \in 0..Len(t) : v \in [1..n -> In(t)]
    <3>1. Len(v) \in 0..Len(t) /\ v \in [1..Len(v) -> In(t)]
      BY <1>1, <2>2
    <3> QED
      BY <3>1
  <2> QED
    BY <2>1, <2>2
<1>3. StandsFor(t) = {u \in UNION {[1..n -> In(t)] : n \in 0..Len(t)} : t = Quoted(u) \/ (t = u /\ Plain(u))}
  BY Zenon DEF StandsFor, In
<1> QED
  BY <1>2, <1>3, Zenon

(* A value in quotes.                                                      *)
LEMMA InQuotes ==
  ASSUME NEW t \in Seq(STRING), t # <<>>, NEW v \in Seq(Token), t = Quoted(v)
  PROVE  /\ Len(t) > 1 /\ t[1] = Quote /\ t[Len(t)] = Quote
         /\ Closed(v) = Rest(t, 2)
<1> DEFINE c == Closed(v)
<1>1. c \in Seq(Token) /\ c # <<>> /\ c[Len(c)] = Quote /\ t = <<Quote>> \o c
  BY ClosedEnds, ClosedIs
<1>2. Quote \in Token
  BY Zenon DEF Token
<1> HIDE DEF c
<1>3. /\ t \in Seq(Token) /\ Len(t) = Len(c) + 1 /\ t[1] = Quote /\ \A k \in 1..Len(c) : t[k + 1] = c[k]
  BY <1>1, <1>2, Put
<1>4. Len(c) \in Nat /\ Len(c) >= 1
  BY <1>1
<1>5. Len(t) > 1 /\ t[Len(t)] = c[Len(c)]
  BY <1>3, <1>4
<1>6. 2 \in 1..(Len(t) + 1)
  BY <1>3, <1>4
<1> DEFINE r == Rest(t, 2)
<1>7. r \in Seq(Token) /\ Len(r) = Len(t) - 2 + 1 /\ \A k \in 1..(Len(t) - 2 + 1) : r[k] = t[2 + k - 1]
  <2>1. t \in Seq(Token)
    BY <1>3
  <2> HIDE DEF Token
  <2> QED
    BY <1>6, <2>1, RestIs, Zenon
<1> HIDE DEF r
<1>8. Len(r) = Len(c) /\ \A k \in 1..Len(r) : r[k] = c[k]
  BY <1>3, <1>4, <1>7
<1>9. r = c
  BY <1>1, <1>7, <1>8, SameText
<1> QED
  BY <1>1, <1>3, <1>5, <1>9 DEF c, r

LEMMA OpenedNotPlain ==
  ASSUME NEW t \in Seq(STRING), t # <<>>, t[1] = Quote
  PROVE  ~Plain(t)
<1>1. 1 \in 1..Len(t)
  OBVIOUS
<1> QED
  BY <1>1, Zenon DEF Plain

LEMMA ParsedQuoted ==
  ASSUME NEW t \in Seq(STRING), t[1] = Quote, Len(t) > 1, t[Len(t)] = Quote
  PROVE  /\ ParseValue(t) # Unset => ParseValue(t) \in StandsFor(t)
         /\ ParseValue(t) = Unset => StandsFor(t) = {}
<1>1. PICK f : ParsedBy(t, f) /\ ParseValue(t) = f[2]
  BY ParsedIs
<1>2. t # <<>> /\ Len(t) \in Nat /\ 2 \in 1..Len(t) /\ 1 \in 1..Len(t) /\ 2 \in 1..(Len(t) + 1)
  OBVIOUS
<1> DEFINE v == f[2]
<1>3. Reads(t, 2, v) /\ v \in Seq(In(t)) \cup {Unset}
  <2>1. Reads(t, 2, f[2])
    BY <1>1, <1>2, ReadsAll
  <2> QED
    BY <1>1, <1>2, <2>1 DEF ParsedBy
<1>4. ParseValue(t) = v
  BY <1>1
<1> HIDE DEF v
<1>5. CASE v # Unset
  <2>1. v \in Seq(In(t)) /\ v \in Seq(Token) /\ Len(v) <= Len(t) - 2 /\ Closed(v) = Rest(t, 2)
    BY <1>3, <1>5, InIs DEF Reads
  <2>2. Len(v) <= Len(t)
    BY <1>2, <2>1
  <2>3. t = <<t[1]>> \o Rest(t, 2)
    <3>1. Rest(t, 1) = <<t[1]>> \o Rest(t, 1 + 1)
      BY <1>2, Peel
    <3>2. Rest(t, 1) = t
      BY <1>2, WholeRest
    <3> QED
      BY <3>1, <3>2
  <2>4. t = Quoted(v)
    BY <2>1, <2>3, ClosedIs
  <2>5. v \in StandsFor(t)
    BY <2>1, <2>2, <2>4, StandsIs
  <2> QED
    BY <1>4, <1>5, <2>5
<1>6. CASE v = Unset
  <2>1. ASSUME NEW u \in StandsFor(t) PROVE FALSE
    <3>1. u \in Seq(Token) /\ (t = Quoted(u) \/ (t = u /\ Plain(u)))
      BY StandsIs, InIs
    <3>2. ~(t = u /\ Plain(u))
      BY <1>2, OpenedNotPlain
    <3>3. Closed(u) = Rest(t, 2)
      BY <1>2, <3>1, <3>2, InQuotes
    <3> QED
      BY <1>3, <1>6, <3>1, <3>3 DEF Reads
  <2> QED
    BY <1>4, <1>6, <2>1
<1> QED
  BY <1>5, <1>6

LEMMA ParsedRight ==
  ASSUME NEW t \in Seq(STRING), t # <<>>
  PROVE  /\ Undelimited(t) => ParseValue(t) = t
         /\ ~Undelimited(t) /\ ParseValue(t) # Unset => ParseValue(t) \in StandsFor(t)
         /\ ~Undelimited(t) /\ ParseValue(t) = Unset => StandsFor(t) = {}
<1>0. Len(t) \in Nat /\ Len(t) >= 1
  OBVIOUS
<1>1. t \in Seq(In(t))
  BY DEF In
<1>2. CASE t[1] = Quote /\ ~(Len(t) = 1 \/ t[Len(t)] # Quote)
  <2>1. t[1] = Quote /\ t[Len(t)] = Quote
    BY <1>2, Zenon
  <2>2. Len(t) # 1
    BY <1>2, Zenon
  <2>3. Len(t) > 1
    <3> DEFINE n == Len(t)
    <3>1. n \in Nat /\ n >= 1 /\ n # 1
      BY <1>0, <2>2
    <3> HIDE DEF n
    <3>2. n > 1
      BY ONLY <3>1
    <3> QED
      BY <3>2, Zenon DEF n
  <2>4. ~Undelimited(t)
    BY <2>1, Zenon DEF Undelimited
  <2> QED
    BY <2>1, <2>3, <2>4, ParsedQuoted, Zenon
<1>3. CASE t[1] = Quote /\ (Len(t) = 1 \/ t[Len(t)] # Quote)
  <2>1. ParseValue(t) = Unset
    BY <1>3, Zenon DEF ParseValue
  <2>2. ASSUME NEW u \in StandsFor(t) PROVE FALSE
    <3>1. u \in Seq(Token) /\ (t = Quoted(u) \/ (t = u /\ Plain(u)))
      BY StandsIs, InIs
    <3>2. ~(t = u /\ Plain(u))
      BY <1>3, OpenedNotPlain
    <3>3. Len(t) > 1 /\ t[Len(t)] = Quote
      BY <3>1, <3>2, InQuotes, Zenon
    <3> QED
      <4>1. Len(t) # 1
        BY <1>0, <3>3
      <4> QED
        BY <1>3, <3>3, <4>1, Zenon
  <2>3. ~Undelimited(t)
    BY <1>3, Zenon DEF Undelimited
  <2> QED
    BY <2>1, <2>2, <2>3
<1>4. CASE t[1] # Quote
  <2>1. ParseValue(t) = IF \E i \in 1..Len(t) : t[i] = " " THEN Unset ELSE t
    BY <1>4, Zenon DEF ParseValue
  <2>2. ASSUME NEW u \in StandsFor(t) PROVE t = u /\ Plain(u)
    <3>1. u \in Seq(Token) /\ (t = Quoted(u) \/ (t = u /\ Plain(u)))
      BY StandsIs, InIs
    <3> QED
      BY <1>4, <3>1, InQuotes
  <2>3. CASE \E i \in 1..Len(t) : t[i] = " "
    <3>1. ~Plain(t) /\ ~Undelimited(t)
      BY <2>3 DEF Plain, Undelimited
    <3> QED
      BY <2>1, <2>2, <2>3, <3>1
  <2>4. CASE ~\E i \in 1..Len(t) : t[i] = " "
    <3>1. ~Undelimited(t) => Plain(t)
      BY <1>4, <2>4 DEF Plain, Undelimited
    <3>2. ~Undelimited(t) => t \in StandsFor(t)
      BY <1>1, <3>1, StandsIs
    <3>3. t # Unset
      BY InIs, <1>1
    <3> QED
      BY <2>1, <2>4, <3>2, <3>3
  <2> QED
    BY <2>3, <2>4
<1> QED
  BY <1>2, <1>3, <1>4

-----------------------------------------------------------------------------
(* What is left of what follows :setvar.                                   *)
LEMMA PartOfText ==
  ASSUME NEW T, NEW t \in Seq(T), NEW i \in Int, NEW j \in Int, i >= 1, j <= Len(t)
  PROVE  SubSeq(t, i, j) \in Seq(T)
<1>1. Len(t) \in Nat /\ \A k \in i..j : t[k] \in T
  OBVIOUS
<1> QED
  BY <1>1, SubSeqProperties

LEMMA CommentsOff ==
  ASSUME NEW t \in Seq(STRING)
  PROVE  RemoveComments(t) \in Seq(STRING)
<1>1. Len(t) \in Nat
  OBVIOUS
<1>2. \A S : S \subseteq 1..Len(t) =>
        (CHOOSE i \in S \cup {Len(t) + 1} : \A j \in S \cup {Len(t) + 1} : i <= j) \in 1..(Len(t) + 1)
  <2> SUFFICES ASSUME NEW S, S \subseteq 1..Len(t)
               PROVE  (CHOOSE i \in S \cup {Len(t) + 1} : \A j \in S \cup {Len(t) + 1} : i <= j)
                        \in 1..(Len(t) + 1)
    OBVIOUS
  <2> DEFINE U == S \cup {Len(t) + 1}
  <2>1. U \subseteq Nat /\ U # {} /\ U \subseteq 1..(Len(t) + 1)
    <3>1. Len(t) + 1 \in 1..(Len(t) + 1) /\ 1..Len(t) \subseteq 1..(Len(t) + 1)
      BY <1>1
    <3>2. 1..(Len(t) + 1) \subseteq Nat
      BY <1>1
    <3>3. U # {} /\ U \subseteq 1..(Len(t) + 1)
      BY <3>1, Zenon
    <3> QED
      BY <3>2, <3>3, Zenon
  <2> HIDE DEF U
  <2>2. \E i \in U : \A j \in U : i <= j
    BY <2>1, LeastNatural
  <2>3. (CHOOSE i \in U : \A j \in U : i <= j) \in U
    BY <2>2, Zenon
  <2>4. (CHOOSE i \in U : \A j \in U : i <= j) \in 1..(Len(t) + 1)
    BY <2>1, <2>3
  <2> QED
    BY <2>4 DEF U
<1>3. CommentStart(t) \in 1..(Len(t) + 1)
  <2>1. CommentStarts(t) \subseteq 1..Len(t)
    BY DEF CommentStarts
  <2> QED
    BY <1>2, <2>1, Zenon DEF CommentStart
<1>4. CommentStart(t) - 1 \in Int /\ CommentStart(t) - 1 <= Len(t)
  BY <1>1, <1>3
<1> QED
  BY <1>4, PartOfText DEF RemoveComments

LEMMA SpaceOff ==
  ASSUME NEW t \in Seq(STRING)
  PROVE  TrimSpace(t) \in Seq(STRING)
<1> DEFINE solid == {i \in 1..Len(t) : t[i] # " "}
           first == CHOOSE i \in solid : \A j \in solid : i <= j
           final == CHOOSE i \in solid : \A j \in solid : i >= j
<1>1. TrimSpace(t) = IF solid = {} THEN <<>> ELSE SubSeq(t, first, final)
  BY Zenon DEF TrimSpace
<1>2. solid \subseteq 1..Len(t)
  OBVIOUS
<1>3. CASE solid # {}
  <2> HIDE DEF solid
  <2> DEFINE n == Len(t)
  <2>0. n \in Nat /\ n \in Int
    OBVIOUS
  <2>1. solid \subseteq 1..n
    BY <1>2
  <2> HIDE DEF n
  <2>2. solid \subseteq Nat /\ solid \subseteq Int /\ \A i \in solid : i <= n /\ i >= 1
    BY <2>0, <2>1
  <2>3. \E i \in solid : \A j \in solid : i <= j
    BY <1>3, <2>2, LeastNatural, Zenon
  <2>4. \E i \in solid : \A j \in solid : i >= j
    BY <1>3, <2>0, <2>2, Greatest, Zenon
  <2>5. first \in solid /\ final \in solid
    BY <2>3, <2>4, Zenon
  <2> HIDE DEF first, final
  <2>6. first \in Int /\ final \in Int /\ first >= 1 /\ final <= n
    BY <2>2, <2>5
  <2>7. SubSeq(t, first, final) \in Seq(STRING)
    BY <2>6, PartOfText DEF n
  <2> QED
    BY <1>1, <1>3, <2>7, Zenon
<1>4. CASE solid = {}
  <2>1. <<>> \in Seq(STRING)
    OBVIOUS
  <2> QED
    BY <1>1, <1>4, <2>1, Zenon
<1> QED
  BY <1>3, <1>4

LEMMA ValueStep ==
  ASSUME SInv, [SNext]_svars, ValueAsWritten
  PROVE  ValueAsWritten'
<1>1. CASE SetVar
  <2>1. PICK l \in SetvarLines :
          LET text  == TrimSpace(RemoveComments(l.text))
              value == IF text = <<>> THEN Unset ELSE ParseValue(text)
          IN  /\ IF IsReadOnly(l.name) THEN UNCHANGED vars
                 ELSE IF text = <<>>
                   THEN IF vars[l.name.key] = Unset THEN UNCHANGED vars ELSE ResetVar(l.name)
                 ELSE IF value = Unset THEN UNCHANGED vars ELSE Assign(l.name, value)
              /\ asked' = IF l.name.key # "y" THEN Unset
                          ELSE [text |-> text, taken |-> value # Unset, result |-> vars'["y"]]
    BY <1>1, Zenon DEF SetVar
  <2> DEFINE text == TrimSpace(RemoveComments(l.text))
             value == ParseValue(text)
  <2>2. text \in Seq(STRING)
    BY CommentsOff, SpaceOff, TextsAssumption
  <2> HIDE DEF text
  <2> SUFFICES ASSUME asked' # Unset, asked'.text # <<>>
               PROVE  IF Undelimited(asked'.text) THEN asked'.taken => asked'.result = asked'.text
                      ELSE IF StandsFor(asked'.text) = {} THEN ~asked'.taken
                      ELSE asked'.taken /\ asked'.result \in StandsFor(asked'.text)
    BY Zenon DEF ValueAsWritten
  <2>3. l.name.key = "y"
    BY <2>1, Zenon
  <2>4. asked' = [text |-> text, taken |-> (IF text = <<>> THEN Unset ELSE value) # Unset, result |-> vars'["y"]]
    BY <2>1, <2>3, Zenon DEF text
  <2>5. asked'.text = text /\ text # <<>> /\ asked'.result = vars'["y"]
    BY <2>4
  <2>6. asked'.taken <=> value # Unset
    BY <2>4, <2>5, Zenon
  <2>7. /\ Undelimited(text) => value = text
        /\ ~Undelimited(text) /\ value # Unset => value \in StandsFor(text)
        /\ ~Undelimited(text) /\ value = Unset => StandsFor(text) = {}
    BY <2>2, <2>5, ParsedRight
  <2>8. value # Unset => vars'["y"] = value
    <3>1. ~IsReadOnly(l.name)
      BY <2>3 DEF IsReadOnly, ReadOnly
    <3>2. value # Unset => vars' = [vars EXCEPT !["y"] = value]
      BY <2>1, <2>3, <2>5, <3>1, Zenon DEF Assign, text
    <3>3. "y" \in DOMAIN vars
      BY DEF SInv, SType, Keys
    <3> HIDE DEF value
    <3> QED
      BY <3>2, <3>3
  <2> HIDE DEF value
  <2> QED
    BY <2>5, <2>6, <2>7, <2>8, Zenon
<1>2. CASE FirstConnect \/ ConnectCommand
  <2>1. asked' = Unset
    BY <1>2 DEF FirstConnect, ConnectCommand, ConnectDb
  <2> QED
    BY <2>1 DEF ValueAsWritten
<1>3. CASE UNCHANGED svars
  BY <1>3 DEF svars, ValueAsWritten
<1> QED
  BY <1>1, <1>2, <1>3 DEF SNext

(* :setvar y leaves the value that is written, in quotes or plainly, and   *)
(* takes no other text but an undelimited one, and that as it is           *)
(* (setvarCommand, ParseValue).                                            *)
THEOREM ValuesTaken == SSpec => []ValueAsWritten
<1>1. SInit => SInv /\ ValueAsWritten
  BY SStart DEF SInit, ValueAsWritten
<1>2. SInv /\ ValueAsWritten /\ [SNext]_svars => (SInv /\ ValueAsWritten)'
  BY SStep, ValueStep
<1> QED
  BY <1>1, <1>2, PTL DEF SSpec

-----------------------------------------------------------------------------
(* The words of a line, and those that are added.                          *)
Words == STRING \cup {"-i", "-?", "-h", "-r", "-N", "-Q", "--help", "0", "true", "f", "error", NoValue}
Pairs == Words \X Words

Alone  == {"-b", "-?", "--help"}
Valued == {"-i", "-r", "-N", "-h", "-Q"}

ParseWord(ws, i, f) ==
  IF i > Len(ws) THEN <<>>
  ELSE IF ws[i] \in Alone THEN <<<<ws[i], NoValue>>>> \o f[i + 1]
  ELSE IF ws[i] = "-if" THEN <<<<"-i", "f">>>> \o f[i + 1]
  ELSE IF ws[i] \in Valued /\ i < Len(ws) THEN <<<<ws[i], ws[i + 1]>>>> \o f[i + 2]
  ELSE <<<<"error", ws[i]>>>>

FlagsBy(ws, f) ==
  /\ f \in [1..(Len(ws) + 1) -> Seq(Pairs)]
  /\ \A i \in 1..(Len(ws) + 1) : f[i] = ParseWord(ws, i, f)

LEMMA WordsThere ==
  /\ STRING \subseteq Words
  /\ \A w \in {"-i", "-?", "-h", "-r", "-N", "-Q", "--help", "0", "true", "f", "error", NoValue} : w \in Words
  BY Zenon DEF Words

LEMMA FlagsAre ==
  ASSUME NEW ws \in Seq(Words)
  PROVE  \E f : FlagsBy(ws, f) /\ Parsed(ws) = f[1]
<1> DEFINE n == Len(ws)
           X == Seq(Pairs)
           base == <<>>
           two(i) == ws[i] \notin Alone /\ ws[i] # "-if" /\ ws[i] \in Valued /\ i < n
           after(i) == IF two(i) THEN i + 2 ELSE i + 1
           word(i) == IF ws[i] \in Alone THEN <<ws[i], NoValue>>
                      ELSE IF ws[i] = "-if" THEN <<"-i", "f">>
                      ELSE IF two(i) THEN <<ws[i], ws[i + 1]>> ELSE <<"error", ws[i]>>
           op(i, x) == IF ws[i] \in Alone \/ ws[i] = "-if" \/ two(i) THEN <<word(i)>> \o x ELSE <<word(i)>>
           next == [i \in 1..n |-> after(i)]
           g == [i \in 1..n |-> [x \in X |-> op(i, x)]]
           Steps(f) == f = [i \in 1..(n + 1) |->
        IF i > n THEN <<>>
        ELSE IF ws[i] \in {"-b", "-?", "--help"} THEN <<<<ws[i], NoValue>>>> \o f[i + 1]
        ELSE IF ws[i] = "-if" THEN <<<<"-i", "f">>>> \o f[i + 1]
        ELSE IF ws[i] \in {"-i", "-r", "-N", "-h", "-Q"} /\ i < n
          THEN <<<<ws[i], ws[i + 1]>>>> \o f[i + 2]
        ELSE <<<<"error", ws[i]>>>>]
           F == CHOOSE f : Steps(f)
<1>1. n \in Nat /\ \A i \in 1..n : ws[i] \in Words
  OBVIOUS
<1>2. Parsed(ws) = F[1]
  BY Zenon DEF Parsed
<1>3. base \in X
  OBVIOUS
<1>4. \A i \in 1..n : after(i) \in (i + 1)..(n + 1)
  <2> HIDE DEF n
  <2>1. \A i \in 1..n : two(i) => i < n
    OBVIOUS
  <2> HIDE DEF two
  <2> QED
    BY <1>1, <2>1
<1>5. \A i \in 1..n : \A x \in X : op(i, x) \in X
  <2> SUFFICES ASSUME NEW i \in 1..n, NEW x \in X PROVE op(i, x) \in X
    OBVIOUS
  <2>1. word(i) \in Pairs
    <3>1. \A v, w \in Words : <<v, w>> \in Pairs
      BY Zenon DEF Pairs
    <3>2. two(i) => ws[i + 1] \in Words
      <4>1. two(i) => i + 1 \in 1..n
        BY <1>1
      <4> QED
        BY <1>1, <4>1, Zenon
    <3>3. ws[i] \in Words
      BY <1>1
    <3>4. /\ <<ws[i], NoValue>> \in Pairs /\ <<"-i", "f">> \in Pairs /\ <<"error", ws[i]>> \in Pairs
          /\ two(i) => <<ws[i], ws[i + 1]>> \in Pairs
      BY <3>1, <3>2, <3>3, WordsThere, Zenon
    <3> HIDE DEF two
    <3> QED
      BY <3>4, Zenon
  <2> HIDE DEF word
  <2>2. <<word(i)>> \in Seq(Pairs) /\ <<word(i)>> \o x \in Seq(Pairs)
    BY <2>1, Put
  <2> QED
    BY <2>2, Zenon
<1>6. \A f : Steps(f) <=> f = [i \in 1..(n + 1) |-> ParseWord(ws, i, f)]
  BY Zenon DEF ParseWord, Alone, Valued
<1>7. \A f : \A i \in 1..n : ParseWord(ws, i, f) = op(i, f[after(i)])
  <2> SUFFICES ASSUME NEW f, NEW i \in 1..n PROVE ParseWord(ws, i, f) = op(i, f[after(i)])
    OBVIOUS
  <2>1. ~(i > Len(ws))
    BY <1>1
  <2> QED
    BY <2>1, Zenon DEF ParseWord
<1>8. \A f : ParseWord(ws, n + 1, f) = base
  BY <1>1 DEF ParseWord
<1> HIDE DEF n, X, base, op, after, Steps
<1>9. next \in [1..n -> 1..(n + 1)] /\ \A i \in 1..n : next[i] = after(i) /\ next[i] > i
  BY <1>1, <1>4
<1>10. g \in [1..n -> [X -> X]] /\ \A i \in 1..n : \A x \in X : g[i][x] = op(i, x)
  BY <1>5
<1> HIDE DEF next, g
<1>11. \E f : Steps(f)
  <2>1. PICK f : Descends(f, n, X, base, g, next)
    BY <1>1, <1>3, <1>9, <1>10, Descent, Zenon
  <2>2. f \in [1..(n + 1) -> X] /\ f[n + 1] = base /\ \A i \in 1..n : f[next[i]] \in X /\ f[i] = g[i][f[next[i]]]
    BY <1>1, <1>9, <2>1 DEF Descends
  <2>3. \A i \in 1..n : f[i] = op(i, f[after(i)])
    BY <1>9, <1>10, <2>2
  <2>4. \A i \in 1..(n + 1) : f[i] = ParseWord(ws, i, f)
    BY <1>1, <1>7, <1>8, <2>2, <2>3
  <2>5. f = [i \in 1..(n + 1) |-> ParseWord(ws, i, f)]
    BY <2>2, <2>4
  <2> QED
    BY <1>6, <2>5
<1>12. Steps(F)
  BY <1>11, Zenon
<1> HIDE DEF F
<1>13. F = [i \in 1..(n + 1) |-> ParseWord(ws, i, F)]
  BY <1>6, <1>12
<1>14. F[n + 1] = base /\ \A i \in 1..n : F[i] = op(i, F[after(i)]) /\ next[i] = after(i)
  BY <1>1, <1>7, <1>8, <1>9, <1>13
<1>15. F[n + 1] \in X /\ \A i \in 1..n : F[next[i]] \in X => F[i] \in X
  BY <1>3, <1>5, <1>14
<1>16. \A i \in 1..(n + 1) : F[i] \in X
  BY <1>1, <1>9, <1>15, StaysBack
<1>17. F \in [1..(n + 1) -> X]
  BY <1>13, <1>16
<1>18. FlagsBy(ws, F)
  BY <1>13, <1>17 DEF FlagsBy, n, X
<1> QED
  BY <1>2, <1>18

LEMMA SameFlags ==
  ASSUME NEW v \in Seq(Words), NEW w \in Seq(Words), NEW f, NEW g, FlagsBy(v, f), FlagsBy(w, g),
         NEW d, Ends(v, w, d)
  PROVE  \A i \in 1..(Len(w) + 1) : f[d + i] = g[i]
<1> DEFINE n == Len(w)
           S == {i \in 1..(n + 1) : f[d + i] = g[i]}
<1>1. n \in Nat /\ d \in Nat /\ Len(v) = n + d /\ \A i \in 1..n : v[d + i] = w[i]
  BY DEF Ends
<1>2. \A i \in 1..(Len(v) + 1) : f[i] = ParseWord(v, i, f)
  BY Zenon DEF FlagsBy
<1>3. \A i \in 1..(n + 1) : g[i] = ParseWord(w, i, g)
  BY Zenon DEF FlagsBy
<1>4. n + 1 \in S
  <2>1. d + (n + 1) \in 1..(Len(v) + 1) /\ d + (n + 1) > Len(v) /\ n + 1 \in 1..(n + 1) /\ n + 1 > Len(w)
    BY <1>1
  <2>2. ParseWord(v, d + (n + 1), f) = <<>> /\ ParseWord(w, n + 1, g) = <<>>
    BY <2>1, Zenon DEF ParseWord
  <2>3. f[d + (n + 1)] = g[n + 1]
    BY <1>2, <1>3, <2>1, <2>2, Zenon
  <2> QED
    BY <2>1, <2>3
<1>5. ASSUME NEW i \in 1..n, \A j \in (i + 1)..(n + 1) : j \in S
      PROVE  i \in S
  <2>1. /\ d + i \in 1..(Len(v) + 1) /\ ~(d + i > Len(v)) /\ ~(i > Len(w)) /\ i \in 1..(n + 1)
        /\ (d + i) + 1 = d + (i + 1) /\ (d + i) + 2 = d + (i + 2)
        /\ (d + i < Len(v) <=> i < Len(w))
    BY <1>1
  <2>2. v[d + i] = w[i] /\ f[(d + i) + 1] = g[i + 1]
    BY <1>1, <1>5, <2>1
  <2>3. i < Len(w) => v[(d + i) + 1] = w[i + 1] /\ f[(d + i) + 2] = g[i + 2]
    <3> SUFFICES ASSUME i < Len(w) PROVE v[(d + i) + 1] = w[i + 1] /\ f[(d + i) + 2] = g[i + 2]
      OBVIOUS
    <3>1. i + 1 \in 1..n /\ i + 2 \in (i + 1)..(n + 1)
      BY <1>1
    <3>2. v[d + (i + 1)] = w[i + 1] /\ i + 2 \in S
      BY <1>1, <1>5, <3>1
    <3> QED
      BY <2>1, <3>2
  <2>4. ParseWord(v, d + i, f) = ParseWord(w, i, g)
    BY <2>1, <2>2, <2>3, Zenon DEF ParseWord
  <2>5. f[d + i] = g[i]
    BY <1>2, <1>3, <2>1, <2>4, Zenon
  <2> QED
    BY <2>1, <2>5
<1> HIDE DEF S
<1>6. \A i \in 1..(n + 1) : i \in S
  BY <1>1, <1>4, <1>5, Back
<1> QED
  BY <1>6 DEF S

(* What pflag makes of the end of a line is what it makes of it by itself. *)
LEMMA FlagsOfEnd ==
  ASSUME NEW v \in Seq(Words), NEW w \in Seq(Words), NEW f, FlagsBy(v, f), NEW d, Ends(v, w, d)
  PROVE  f[d + 1] = Parsed(w) /\ Parsed(w) \in Seq(Pairs)
<1>1. PICK g : FlagsBy(w, g) /\ Parsed(w) = g[1]
  BY FlagsAre
<1>2. \A i \in 1..(Len(w) + 1) : f[d + i] = g[i]
  BY <1>1, SameFlags
<1>3. Len(w) \in Nat /\ 1 \in 1..(Len(w) + 1)
  OBVIOUS
<1>4. g \in [1..(Len(w) + 1) -> Seq(Pairs)]
  BY <1>1, Zenon DEF FlagsBy
<1> QED
  BY <1>1, <1>2, <1>3, <1>4

LEMMA ParsedIsFlags ==
  ASSUME NEW w \in Seq(Words)
  PROVE  Parsed(w) \in Seq(Pairs)
<1>1. PICK g : FlagsBy(w, g) /\ Parsed(w) = g[1]
  BY FlagsAre
<1>2. Len(w) \in Nat /\ 1 \in 1..(Len(w) + 1)
  OBVIOUS
<1>3. g \in [1..(Len(w) + 1) -> Seq(Pairs)]
  BY <1>1, Zenon DEF FlagsBy
<1> QED
  BY <1>1, <1>2, <1>3

LEMMA ParsedNothing == Parsed(<<>>) = <<>>
<1>1. <<>> \in Seq(Words) /\ Len(<<>>) = 0
  OBVIOUS
<1>2. PICK g : FlagsBy(<<>>, g) /\ Parsed(<<>>) = g[1]
  BY <1>1, FlagsAre
<1>3. 1 \in 1..(Len(<<>>) + 1) /\ 1 > Len(<<>>)
  BY <1>1
<1>4. g[1] = ParseWord(<<>>, 1, g)
  BY <1>2, <1>3, Zenon DEF FlagsBy
<1> QED
  BY <1>2, <1>3, <1>4, Zenon DEF ParseWord

(* A flag without a value, or with one attached.                           *)
LEMMA ParsedAlone ==
  ASSUME NEW c \in Words, NEW x \in Seq(Words)
  PROVE  /\ c \in Alone => Parsed(<<c>> \o x) = <<<<c, NoValue>>>> \o Parsed(x)
         /\ c = "-if" => Parsed(<<c>> \o x) = <<<<"-i", "f">>>> \o Parsed(x)
<1> DEFINE v == <<c>> \o x
<1>1. v \in Seq(Words) /\ Len(v) = Len(x) + 1 /\ v[1] = c /\ \A k \in 1..Len(x) : v[k + 1] = x[k]
  BY Put
<1>2. Len(x) \in Nat
  OBVIOUS
<1> HIDE DEF v
<1>3. Ends(v, x, 1)
  BY <1>1, <1>2 DEF Ends
<1>4. PICK f : FlagsBy(v, f) /\ Parsed(v) = f[1]
  BY <1>1, FlagsAre
<1>5. f[1 + 1] = Parsed(x)
  BY <1>1, <1>3, <1>4, FlagsOfEnd
<1>6. 1 \in 1..(Len(v) + 1) /\ ~(1 > Len(v))
  BY <1>1, <1>2
<1>7. f[1] = ParseWord(v, 1, f)
  BY <1>4, <1>6, Zenon DEF FlagsBy
<1>8. "-if" \notin Alone
  BY DEF Alone
<1>9. /\ c \in Alone => f[1] = <<<<c, NoValue>>>> \o f[1 + 1]
      /\ c = "-if" => f[1] = <<<<"-i", "f">>>> \o f[1 + 1]
  BY <1>1, <1>6, <1>7, <1>8, Zenon DEF ParseWord
<1> QED
  BY <1>4, <1>5, <1>9, Zenon DEF v

(* A flag and its value.                                                   *)
LEMMA ParsedValued ==
  ASSUME NEW c \in Valued, c \in Words, NEW b \in Words, NEW x \in Seq(Words)
  PROVE  Parsed(<<c>> \o (<<b>> \o x)) = <<<<c, b>>>> \o Parsed(x)
<1> DEFINE u == <<b>> \o x
           v == <<c>> \o u
<1>1. u \in Seq(Words) /\ Len(u) = Len(x) + 1 /\ u[1] = b /\ \A k \in 1..Len(x) : u[k + 1] = x[k]
  BY Put
<1> HIDE DEF u
<1>2. v \in Seq(Words) /\ Len(v) = Len(u) + 1 /\ v[1] = c /\ \A k \in 1..Len(u) : v[k + 1] = u[k]
  BY <1>1, Put
<1>3. Len(x) \in Nat
  OBVIOUS
<1> HIDE DEF v
<1>4. Ends(v, x, 2)
  <2>1. ASSUME NEW k \in 1..Len(x) PROVE v[2 + k] = x[k]
    <3>1. k + 1 \in 1..Len(u) /\ (k + 1) + 1 = 2 + k
      BY <1>1, <1>3
    <3>2. v[(k + 1) + 1] = u[k + 1] /\ u[k + 1] = x[k]
      BY <1>1, <1>2, <3>1, Zenon
    <3> QED
      BY <3>1, <3>2
  <2>2. Len(v) = Len(x) + 2
    BY <1>1, <1>2, <1>3
  <2> QED
    BY <2>1, <2>2 DEF Ends
<1>5. PICK f : FlagsBy(v, f) /\ Parsed(v) = f[1]
  BY <1>2, FlagsAre
<1>6. f[2 + 1] = Parsed(x)
  BY <1>2, <1>4, <1>5, FlagsOfEnd
<1>7. 1 \in 1..(Len(v) + 1) /\ ~(1 > Len(v)) /\ 1 < Len(v) /\ 2 + 1 = 1 + 2 /\ v[1 + 1] = b
  BY <1>1, <1>2, <1>3
<1>8. f[1] = ParseWord(v, 1, f)
  BY <1>5, <1>7, Zenon DEF FlagsBy
<1>9. c \notin Alone /\ c # "-if"
  BY DEF Alone, Valued
<1>10. f[1] = <<<<c, b>>>> \o f[1 + 2]
  BY <1>2, <1>7, <1>8, <1>9, Zenon DEF ParseWord
<1> QED
  BY <1>5, <1>6, <1>7, <1>10, Zenon DEF u, v

(* Where the words start that convertOsArgs makes of the rest of a line.   *)
ConvBy(ps, f) ==
  /\ f \in [1..(Len(ps) + 1) -> Seq(Words)]
  /\ f[Len(ps) + 1] = <<>>
  /\ \A i \in 1..Len(ps) : f[i] = ConvertWord(ps, i) \o f[i + 1]

LEMMA DefaultWords ==
  ASSUME NEW ps, NEW i
  PROVE  DefaultFor(ps, i) \in Seq(Words)
<1>1. <<>> \in Seq(Words)
  OBVIOUS
<1>2. <<"0">> \in Seq(Words) /\ <<"true">> \in Seq(Words)
  <2>1. "0" \in Words /\ "true" \in Words
    BY WordsThere, Zenon
  <2> HIDE DEF Words
  <2> QED
    BY <2>1
<1> QED
  BY <1>1, <1>2, Zenon DEF DefaultFor, CheckDefaultValue

LEMMA WordsOfWord ==
  ASSUME NEW ps \in Seq(Words), NEW i \in 1..Len(ps)
  PROVE  ConvertWord(ps, i) \in Seq(Words)
<1>1. ps[i] \in Words
  OBVIOUS
<1>2. "-i" \in Words
  BY WordsThere, Zenon
<1>3. <<"-i">> \in Seq(Words) /\ <<>> \in Seq(Words) /\ <<ps[i]>> \in Seq(Words)
  BY <1>1, <1>2
<1>4. <<ps[i]>> \o DefaultFor(ps, i) \in Seq(Words)
  BY <1>3, DefaultWords, ConcatProperties, Zenon
<1> DEFINE added == IF Listed(ps, i) /\ ~IsFlag(ps[i]) /\ ps[i - 1] # "-i" THEN <<"-i">> ELSE <<>>
<1>5. added \in Seq(Words)
  BY <1>3, Zenon
<1>6. ConvertWord(ps, i) = added \o (<<ps[i]>> \o DefaultFor(ps, i))
  BY Zenon DEF ConvertWord
<1> QED
  BY <1>4, <1>5, <1>6, ConcatProperties, Zenon

LEMMA WordsAre ==
  ASSUME NEW ws, PreprocessHelpFlags(ws) \in Seq(Words)
  PROVE  \E f : ConvBy(PreprocessHelpFlags(ws), f) /\ ConvertOsArgs(ws) = f[1]
<1> DEFINE ps == PreprocessHelpFlags(ws)
           n == Len(ps)
           X == Seq(Words)
           op(i, x) == ConvertWord(ps, i) \o x
           next == [i \in 1..n |-> i + 1]
           g == [i \in 1..n |-> [x \in X |-> op(i, x)]]
           Steps(f) == f = [i \in 1..(n + 1) |-> IF i > n THEN <<>> ELSE ConvertWord(ps, i) \o f[i + 1]]
           F == CHOOSE f : Steps(f)
<1>1. n \in Nat /\ ps \in Seq(Words)
  OBVIOUS
<1>2. ConvertOsArgs(ws) = F[1]
  BY Zenon DEF ConvertOsArgs
<1>3. <<>> \in X
  OBVIOUS
<1>4. \A i \in 1..n : \A x \in X : op(i, x) \in X
  BY <1>1, WordsOfWord, ConcatProperties, Zenon
<1>5. n + 1 \in 1..(n + 1) /\ n + 1 > n /\ \A i \in 1..(n + 1) : (i \in 1..n /\ ~(i > n)) \/ i = n + 1
  BY <1>1
<1>6. \A i \in 1..n : i \in 1..(n + 1) /\ ~(i > n)
  BY <1>1
<1>7. \A f : Steps(f) => f[n + 1] = <<>> /\ \A i \in 1..n : f[i] = op(i, f[i + 1])
  <2> SUFFICES ASSUME NEW f, Steps(f) PROVE f[n + 1] = <<>> /\ \A i \in 1..n : f[i] = op(i, f[i + 1])
    OBVIOUS
  <2>1. \A i \in 1..(n + 1) : f[i] = IF i > n THEN <<>> ELSE op(i, f[i + 1])
    BY Zenon
  <2> HIDE DEF Steps, op
  <2> QED
    BY <1>5, <1>6, <2>1, Zenon
<1>8. \A f : f = [i \in 1..(n + 1) |-> f[i]] /\ f[n + 1] = <<>> /\ (\A i \in 1..n : f[i] = op(i, f[i + 1]))
             => Steps(f)
  <2> SUFFICES ASSUME NEW f, f = [i \in 1..(n + 1) |-> f[i]], f[n + 1] = <<>>,
                      \A i \in 1..n : f[i] = op(i, f[i + 1])
               PROVE  Steps(f)
    OBVIOUS
  <2> DEFINE new(i) == IF i > n THEN <<>> ELSE op(i, f[i + 1])
  <2>1. \A i \in 1..(n + 1) : f[i] = new(i)
    <3> HIDE DEF op
    <3> QED
      BY <1>5, <1>6, Zenon
  <2> HIDE DEF new
  <2>2. f = [i \in 1..(n + 1) |-> new(i)]
    BY <2>1
  <2> QED
    BY <2>2, Zenon DEF new
<1>9. \A f : Steps(f) => f = [i \in 1..(n + 1) |-> f[i]]
  BY Zenon
<1> HIDE DEF n, X, ps, op, Steps
<1>10. next \in [1..n -> 1..(n + 1)] /\ \A i \in 1..n : next[i] = i + 1 /\ next[i] > i
  BY <1>1
<1>11. g \in [1..n -> [X -> X]] /\ \A i \in 1..n : \A x \in X : g[i][x] = op(i, x)
  BY <1>4
<1> HIDE DEF next, g
<1>12. \E f : Steps(f)
  <2>1. PICK f : Descends(f, n, X, <<>>, g, next)
    BY <1>1, <1>3, <1>10, <1>11, Descent, Zenon
  <2>2. f \in [1..(n + 1) -> X] /\ f[n + 1] = <<>> /\ \A i \in 1..n : f[next[i]] \in X /\ f[i] = g[i][f[next[i]]]
    BY <1>1, <1>10, <2>1 DEF Descends
  <2>3. \A i \in 1..n : f[i] = op(i, f[i + 1])
    BY <1>10, <1>11, <2>2
  <2> QED
    BY <1>8, <2>2, <2>3
<1>13. Steps(F)
  BY <1>12, Zenon
<1> HIDE DEF F
<1>14. F[n + 1] = <<>> /\ \A i \in 1..n : F[i] = op(i, F[i + 1])
  BY <1>7, <1>13, Zenon
<1>15. F[n + 1] \in X /\ \A i \in 1..n : F[next[i]] \in X => F[i] \in X
  <2>1. F[n + 1] \in X
    BY <1>3, <1>14, Zenon
  <2>2. \A i \in 1..n : F[next[i]] \in X => F[i] \in X
    <3> SUFFICES ASSUME NEW i \in 1..n, F[next[i]] \in X PROVE F[i] \in X
      OBVIOUS
    <3>1. F[i + 1] \in X /\ F[i] = op(i, F[i + 1])
      BY <1>10, <1>14, Zenon
    <3> QED
      BY <1>4, <3>1, Zenon
  <2> QED
    BY <2>1, <2>2
<1>16. \A i \in 1..(n + 1) : F[i] \in X
  BY <1>1, <1>10, <1>15, StaysBack
<1>17. F = [i \in 1..(n + 1) |-> F[i]]
  BY <1>9, <1>13, Zenon
<1>18. F \in [1..(n + 1) -> X]
  BY <1>16, <1>17
<1>19. ConvBy(ps, F)
  <2>1. \A i \in 1..n : F[i] = ConvertWord(ps, i) \o F[i + 1]
    BY <1>14, Zenon DEF op
  <2> QED
    BY <1>14, <1>18, <2>1, Zenon DEF ConvBy, n, X
<1> QED
  BY <1>2, <1>19, Zenon DEF ps

(* preprocessHelpFlags leaves flags flags, and changes only two of them.   *)
LEMMA Prepared ==
  ASSUME NEW ws \in Seq(STRING), NEW ps, ps = PreprocessHelpFlags(ws)
  PROVE  /\ ps \in Seq(Words) /\ Len(ps) = Len(ws)
         /\ \A i \in 1..Len(ws) :
              /\ ws[i] \in Words
              /\ IsFlag(ps[i]) <=> IsFlag(ws[i])
              /\ IsListFlag(ps[i]) <=> IsListFlag(ws[i])
              /\ ws[i] \notin {"-help", "-h"} => ps[i] = ws[i]
              /\ ws[i] = "-help" => ps[i] = "--help"
              /\ ws[i] = "-h" => ps[i] = IF i < Len(ws) /\ ws[i + 1] = "1" THEN "-h" ELSE "-?"
<1>1. Len(ws) \in Nat /\ \A i \in 1..Len(ws) : ws[i] \in STRING
  OBVIOUS
<1> DEFINE kept(i) == i < Len(ws) /\ ws[i + 1] = "1"
<1>2. ps = [i \in 1..Len(ws) |->
     IF ws[i] = "-help" THEN "--help"
     ELSE IF ws[i] = "-h" /\ ~kept(i) THEN "-?" ELSE ws[i]]
  BY Zenon DEF PreprocessHelpFlags
<1>3. \A i \in 1..Len(ws) : ps[i] = IF ws[i] = "-help" THEN "--help"
     ELSE IF ws[i] = "-h" /\ ~kept(i) THEN "-?" ELSE ws[i]
  BY <1>2, Zenon
<1>4. \A i \in 1..Len(ws) : ws[i] \in Words /\ ps[i] \in Words
  BY <1>1, <1>3, WordsThere, Zenon
<1>5. ps \in [1..Len(ws) -> Words]
  BY <1>2, <1>4, Zenon
<1>6. ps \in Seq(Words) /\ Len(ps) = Len(ws)
  <2> HIDE DEF Words
  <2> QED
    BY <1>1, <1>5
<1>7. ASSUME NEW i \in 1..Len(ws)
      PROVE  /\ IsFlag(ps[i]) <=> IsFlag(ws[i])
             /\ IsListFlag(ps[i]) <=> IsListFlag(ws[i])
             /\ ws[i] \notin {"-help", "-h"} => ps[i] = ws[i]
             /\ ws[i] = "-help" => ps[i] = "--help"
             /\ ws[i] = "-h" => ps[i] = IF kept(i) THEN "-h" ELSE "-?"
  <2> HIDE DEF kept
  <2> QED
    BY <1>3 DEF IsFlag, IsListFlag, Flags
<1> QED
  BY <1>4, <1>6, <1>7, Zenon

(* The next flag.                                                          *)
LEMMA NextFlagIs ==
  ASSUME NEW ws \in Seq(STRING), NEW i \in 0..Len(ws)
  PROVE  /\ NextFlag(ws, i) \in (i + 1)..(Len(ws) + 1)
         /\ \A j \in (i + 1)..(NextFlag(ws, i) - 1) : ~IsFlag(ws[j])
         /\ NextFlag(ws, i) \in 1..Len(ws) => IsFlag(ws[NextFlag(ws, i)])
<1> DEFINE n == Len(ws)
           S == {j \in (i + 1)..n : IsFlag(ws[j])} \cup {n + 1}
<1>1. n \in Nat
  OBVIOUS
<1> HIDE DEF n
<1>2. S \subseteq Nat /\ S # {} /\ S \subseteq (i + 1)..(n + 1)
  BY <1>1 DEF n
<1> HIDE DEF S
<1>3. \E e \in S : \A m \in S : e <= m
  BY <1>2, LeastNatural
<1>4. NextFlag(ws, i) \in S /\ \A m \in S : NextFlag(ws, i) <= m
  <2>1. NextFlag(ws, i) = CHOOSE e \in S : \A m \in S : e <= m
    BY Zenon DEF NextFlag, Min, S, n
  <2> QED
    BY <1>3, <2>1, Zenon
<1> DEFINE e == NextFlag(ws, i)
<1> HIDE DEF e
<1>5. e \in S /\ \A m \in S : e <= m
  BY <1>4 DEF e
<1>6. e \in (i + 1)..(n + 1)
  BY <1>2, <1>5
<1>7. \A j \in (i + 1)..(e - 1) : ~IsFlag(ws[j])
  <2> SUFFICES ASSUME NEW j \in (i + 1)..(e - 1), IsFlag(ws[j]) PROVE FALSE
    OBVIOUS
  <2>1. j \in (i + 1)..n /\ ~(e <= j)
    BY <1>1, <1>6
  <2>2. j \in S
    BY <2>1 DEF S
  <2> QED
    BY <1>5, <2>1, <2>2
<1>8. e \in 1..n => IsFlag(ws[e])
  <2>1. e \in S
    BY <1>5
  <2> QED
    BY <1>1, <2>1 DEF S
<1> QED
  BY <1>6, <1>7, <1>8 DEF e, n

LEMMA NextFlagHere ==
  ASSUME NEW ws \in Seq(STRING), NEW i \in 0..Len(ws), i + 1 \in 1..Len(ws) => IsFlag(ws[i + 1])
  PROVE  NextFlag(ws, i) = i + 1 /\ Files(ws, i) = <<>>
<1> DEFINE e == NextFlag(ws, i)
<1>1. e \in (i + 1)..(Len(ws) + 1) /\ \A j \in (i + 1)..(e - 1) : ~IsFlag(ws[j])
  BY NextFlagIs
<1>2. Len(ws) \in Nat
  OBVIOUS
<1> HIDE DEF e
<1>3. e = i + 1
  <2> SUFFICES ASSUME e # i + 1 PROVE FALSE
    OBVIOUS
  <2>1. i + 1 \in (i + 1)..(e - 1) /\ i + 1 \in 1..Len(ws)
    BY <1>1, <1>2
  <2> QED
    BY <1>1, <2>1
<1>4. e - i - 1 = 0
  BY <1>3
<1>5. Files(ws, i) = [k \in 1..(e - i - 1) |-> <<"-i", ws[i + k]>>]
  BY Zenon DEF Files, e
<1>6. Files(ws, i) = <<>>
  BY <1>4, <1>5
<1> QED
  BY <1>3, <1>6 DEF e

LEMMA NextFlagLater ==
  ASSUME NEW ws \in Seq(STRING), NEW i \in 0..(Len(ws) - 1), ~IsFlag(ws[i + 1])
  PROVE  NextFlag(ws, i) = NextFlag(ws, i + 1) /\ NextFlag(ws, i) > i + 1
<1> DEFINE n == Len(ws)
           d == NextFlag(ws, i)
           e == NextFlag(ws, i + 1)
<1>1. n \in Nat /\ i \in 0..n /\ i + 1 \in 0..n /\ (i + 1) + 1 = i + 2
  OBVIOUS
<1>2. /\ d \in (i + 1)..(n + 1) /\ \A j \in (i + 1)..(d - 1) : ~IsFlag(ws[j])
      /\ d \in 1..n => IsFlag(ws[d])
  BY <1>1, NextFlagIs
<1>3. /\ e \in (i + 2)..(n + 1) /\ \A j \in (i + 2)..(e - 1) : ~IsFlag(ws[j])
      /\ e \in 1..n => IsFlag(ws[e])
  <2>1. /\ e \in ((i + 1) + 1)..(n + 1) /\ \A j \in ((i + 1) + 1)..(e - 1) : ~IsFlag(ws[j])
        /\ e \in 1..n => IsFlag(ws[e])
    BY <1>1, NextFlagIs
  <2> QED
    BY <1>1, <2>1
<1> HIDE DEF n, d, e
<1>4. d # i + 1
  BY <1>1, <1>2 DEF n
<1>5. ~(d < e)
  <2> SUFFICES ASSUME d < e PROVE FALSE
    OBVIOUS
  <2>1. d \in (i + 2)..(e - 1) /\ d \in 1..n
    BY <1>1, <1>2, <1>3, <1>4
  <2> QED
    BY <1>2, <1>3, <2>1
<1>6. ~(e < d)
  <2> SUFFICES ASSUME e < d PROVE FALSE
    OBVIOUS
  <2>1. e \in (i + 1)..(d - 1) /\ e \in 1..n
    BY <1>1, <1>2, <1>3
  <2> QED
    BY <1>2, <1>3, <2>1
<1>7. d = e /\ d > i + 1
  BY <1>1, <1>2, <1>3, <1>4, <1>5, <1>6
<1> QED
  BY <1>7 DEF d, e

(* The words of a list are pairs of words.                                 *)
LEMMA FilesAre ==
  ASSUME NEW ws \in Seq(STRING), NEW i \in 0..Len(ws)
  PROVE  /\ Files(ws, i) \in Seq(Pairs) /\ Len(Files(ws, i)) = NextFlag(ws, i) - i - 1
         /\ \A k \in 1..(NextFlag(ws, i) - i - 1) : Files(ws, i)[k] = <<"-i", ws[i + k]>>
<1> DEFINE m == NextFlag(ws, i) - i - 1
<1>1. m \in Nat /\ m <= Len(ws) - i /\ Len(ws) \in Nat
  BY NextFlagIs
<1>2. Files(ws, i) = [k \in 1..m |-> <<"-i", ws[i + k]>>]
  BY Zenon DEF Files
<1> HIDE DEF m
<1>3. ASSUME NEW k \in 1..m PROVE <<"-i", ws[i + k]>> \in Pairs
  <2>1. i + k \in 1..Len(ws)
    BY <1>1
  <2>2. ws[i + k] \in Words /\ "-i" \in Words
    BY <2>1, WordsThere, Zenon, ElementOfSeq
  <2> QED
    BY <2>2, Zenon DEF Pairs
<1> HIDE DEF Pairs
<1>4. Files(ws, i) \in [1..m -> Pairs] /\ \A k \in 1..m : Files(ws, i)[k] = <<"-i", ws[i + k]>>
  <2> DEFINE p(k) == <<"-i", ws[i + k]>>
  <2>1. Files(ws, i) = [k \in 1..m |-> p(k)] /\ \A k \in 1..m : p(k) \in Pairs
    BY <1>2, <1>3, Zenon
  <2> HIDE DEF p
  <2>2. Files(ws, i) \in [1..m -> Pairs] /\ \A k \in 1..m : Files(ws, i)[k] = p(k)
    BY <2>1, Zenon
  <2> QED
    BY <2>2, Zenon DEF p
<1>5. Files(ws, i) \in Seq(Pairs) /\ Len(Files(ws, i)) = m
  BY <1>1, <1>4
<1> QED
  BY <1>4, <1>5, Zenon DEF m

LEMMA FilesMore ==
  ASSUME NEW ws \in Seq(STRING), NEW i \in 0..(Len(ws) - 1), ~IsFlag(ws[i + 1])
  PROVE  Files(ws, i) = <<<<"-i", ws[i + 1]>>>> \o Files(ws, i + 1)
<1> DEFINE n == Len(ws)
           e == NextFlag(ws, i)
           x == Files(ws, i)
           z == Files(ws, i + 1)
           c == <<"-i", ws[i + 1]>>
<1>1. n \in Nat /\ i \in 0..n /\ i + 1 \in 0..n
  OBVIOUS
<1>2. e = NextFlag(ws, i + 1) /\ e > i + 1 /\ e \in (i + 1)..(n + 1)
  BY <1>1, NextFlagLater, NextFlagIs
<1>3. x \in Seq(Pairs) /\ Len(x) = e - i - 1 /\ \A k \in 1..(e - i - 1) : x[k] = <<"-i", ws[i + k]>>
  BY <1>1, FilesAre
<1>4. /\ z \in Seq(Pairs) /\ Len(z) = e - (i + 1) - 1
      /\ \A k \in 1..(e - (i + 1) - 1) : z[k] = <<"-i", ws[(i + 1) + k]>>
  <2>1. /\ z \in Seq(Pairs) /\ Len(z) = NextFlag(ws, i + 1) - (i + 1) - 1
        /\ \A k \in 1..(NextFlag(ws, i + 1) - (i + 1) - 1) : z[k] = <<"-i", ws[(i + 1) + k]>>
    BY <1>1, FilesAre
  <2> QED
    BY <1>2, <2>1, Zenon
<1> HIDE DEF n, e, x, z, Pairs
<1>5. 1 \in 1..(e - i - 1) /\ Len(x) = Len(z) + 1
  <2>1. i \in Int /\ e \in Int /\ e > i + 1
    BY <1>1, <1>2
  <2>2. Len(x) = e - i - 1 /\ Len(z) = e - (i + 1) - 1
    BY <1>3, <1>4, Zenon
  <2> QED
    BY ONLY <2>1, <2>2
<1>6. x[1] = c /\ c \in Pairs
  <2>1. x[1] \in Pairs
    BY <1>3, <1>5
  <2> QED
    BY <1>3, <1>5, <2>1
<1>7. ASSUME NEW k \in 1..Len(z) PROVE x[k + 1] = z[k]
  <2>1. /\ k + 1 \in 1..(e - i - 1) /\ k \in 1..(e - (i + 1) - 1)
        /\ i + (k + 1) = (i + 1) + k
    BY <1>1, <1>2, <1>4
  <2>2. x[k + 1] = <<"-i", ws[i + (k + 1)]>> /\ z[k] = <<"-i", ws[(i + 1) + k]>>
    BY <1>3, <1>4, <2>1, Zenon
  <2> QED
    BY <2>1, <2>2, Zenon
<1> HIDE DEF c
<1>8. x = <<c>> \o z
  BY <1>3, <1>4, <1>5, <1>6, <1>7, PutBack
<1> QED
  BY <1>8, Zenon DEF c, x, z

(* What each flag means, with a value or without one.                      *)
ValueOf(ws, i, other) == IF NextFlag(ws, i) > i + 1 THEN ws[i + 1] ELSE other

LEMMA FlagMeantIs ==
  ASSUME NEW ws, NEW i
  PROVE  /\ ws[i] = "-i" => FlagMeant(ws, i) = Files(ws, i)
         /\ ws[i] = "-if" => FlagMeant(ws, i) = <<<<"-i", "f">>>> \o Files(ws, i)
         /\ ws[i] = "-help" => FlagMeant(ws, i) = <<<<"--help", NoValue>>>>
         /\ ws[i] = "-h" => FlagMeant(ws, i) = IF NextFlag(ws, i) > i + 1 THEN <<<<"-h", ws[i + 1]>>>>
                                               ELSE <<<<"-?", NoValue>>>>
         /\ ws[i] \in {"-b", "-?", "--help"} => FlagMeant(ws, i) = <<<<ws[i], NoValue>>>>
         /\ ws[i] = "-r" => FlagMeant(ws, i) = <<<<"-r", ValueOf(ws, i, "0")>>>>
         /\ ws[i] = "-N" => FlagMeant(ws, i) = <<<<"-N", ValueOf(ws, i, "true")>>>>
         /\ ws[i] = "-Q" => FlagMeant(ws, i) = <<<<"-Q", ws[i + 1]>>>>
<1> DEFINE c == ws[i]
           value == NextFlag(ws, i) > i + 1
           b == ws[i + 1]
           x == Files(ws, i)
           y == <<<<"-i", "f">>>> \o x
           f == <<<<"--help", NoValue>>>>
           h == IF value THEN <<<<"-h", b>>>> ELSE <<<<"-?", NoValue>>>>
           a == <<<<c, NoValue>>>>
           r == <<<<"-r", IF value THEN b ELSE "0">>>>
           u == <<<<"-N", IF value THEN b ELSE "true">>>>
           q == <<<<"-Q", b>>>>
<1>1. FlagMeant(ws, i) =
        CASE c = "-i"    -> x
          [] c = "-if"   -> y
          [] c = "-help" -> f
          [] c = "-h"    -> h
          [] c \in {"-b", "-?", "--help"} -> a
          [] c = "-r"    -> r
          [] c = "-N"    -> u
          [] c = "-Q"    -> q
  BY Zenon DEF FlagMeant
<1>2. r = <<<<"-r", ValueOf(ws, i, "0")>>>> /\ u = <<<<"-N", ValueOf(ws, i, "true")>>>>
  BY Zenon DEF ValueOf
<1> HIDE DEF c, x, y, f, h, a, r, u, q
<1>3. /\ c = "-i" => FlagMeant(ws, i) = x
      /\ c = "-if" => FlagMeant(ws, i) = y
      /\ c = "-help" => FlagMeant(ws, i) = f
      /\ c = "-h" => FlagMeant(ws, i) = h
      /\ c \in {"-b", "-?", "--help"} => FlagMeant(ws, i) = a
      /\ c = "-r" => FlagMeant(ws, i) = r
      /\ c = "-N" => FlagMeant(ws, i) = u
      /\ c = "-Q" => FlagMeant(ws, i) = q
  BY <1>1
<1> QED
  BY <1>2, <1>3, Zenon DEF c, x, y, f, h, a, q

LEMMA FlagMeantPairs ==
  ASSUME NEW ws \in Seq(STRING), WellFormed(ws), NEW i \in 1..Len(ws), IsFlag(ws[i])
  PROVE  FlagMeant(ws, i) \in Seq(Pairs)
<1>1. Len(ws) \in Nat /\ i \in 0..Len(ws)
  OBVIOUS
<1>2. NextFlag(ws, i) \in (i + 1)..(Len(ws) + 1)
  BY <1>1, NextFlagIs
<1>3. Files(ws, i) \in Seq(Pairs)
  BY <1>1, FilesAre
<1>4. ws[i] = "-Q" \/ NextFlag(ws, i) > i + 1 => ws[i + 1] \in Words
  <2>1. ws[i] = "-Q" => i < Len(ws)
    BY Zenon DEF WellFormed
  <2>2. ws[i] = "-Q" \/ NextFlag(ws, i) > i + 1 => i + 1 \in 1..Len(ws)
    BY <1>1, <1>2, <2>1
  <2> QED
    BY <2>2, WordsThere, Zenon, ElementOfSeq
<1>5. ws[i] \in Words
  BY WordsThere, Zenon, ElementOfSeq
<1>6. \A v, w \in Words : <<v, w>> \in Pairs
  BY Zenon DEF Pairs
<1>7. ValueOf(ws, i, "0") \in Words /\ ValueOf(ws, i, "true") \in Words
  BY <1>4, WordsThere, Zenon DEF ValueOf
<1>8. "-i" \in Words /\ "f" \in Words /\ "--help" \in Words /\ NoValue \in Words /\ "-h" \in Words
        /\ "-?" \in Words /\ "-r" \in Words /\ "-N" \in Words /\ "-Q" \in Words
  BY WordsThere, Zenon
<1>9. \A p \in Pairs : <<p>> \in Seq(Pairs) /\ \A x \in Seq(Pairs) : <<p>> \o x \in Seq(Pairs)
  <2> HIDE DEF Pairs
  <2> QED
    OBVIOUS
<1>10. /\ <<<<"-i", "f">>>> \o Files(ws, i) \in Seq(Pairs)
       /\ <<<<"--help", NoValue>>>> \in Seq(Pairs) /\ <<<<"-?", NoValue>>>> \in Seq(Pairs)
       /\ NextFlag(ws, i) > i + 1 => <<<<"-h", ws[i + 1]>>>> \in Seq(Pairs)
       /\ <<<<ws[i], NoValue>>>> \in Seq(Pairs)
       /\ <<<<"-r", ValueOf(ws, i, "0")>>>> \in Seq(Pairs)
       /\ <<<<"-N", ValueOf(ws, i, "true")>>>> \in Seq(Pairs)
       /\ ws[i] = "-Q" => <<<<"-Q", ws[i + 1]>>>> \in Seq(Pairs)
  BY <1>3, <1>4, <1>5, <1>6, <1>7, <1>8, <1>9, Zenon
<1>11. ws[i] \in {"-i", "-if", "-help", "-h", "-b", "-?", "--help", "-r", "-N", "-Q"}
  BY DEF IsFlag, Flags
<1> QED
  BY <1>3, <1>10, <1>11, FlagMeantIs, Zenon

AllBy(ws, f) ==
  /\ f \in [1..(Len(ws) + 1) -> Seq(Pairs)]
  /\ f[Len(ws) + 1] = <<>>
  /\ \A i \in 1..Len(ws) :
       f[i] = IF IsFlag(ws[i]) THEN FlagMeant(ws, i) \o f[NextFlag(ws, i)] ELSE f[i + 1]

LEMMA MeantIs ==
  ASSUME NEW ws \in Seq(STRING), WellFormed(ws)
  PROVE  \E f : AllBy(ws, f) /\ Meant(ws) = f[1]
<1> DEFINE n == Len(ws)
           X == Seq(Pairs)
           after(i) == IF IsFlag(ws[i]) THEN NextFlag(ws, i) ELSE i + 1
           op(i, x) == IF IsFlag(ws[i]) THEN FlagMeant(ws, i) \o x ELSE x
           next == [i \in 1..n |-> after(i)]
           g == [i \in 1..n |-> [x \in X |-> op(i, x)]]
           Steps(f) == f = [i \in 1..(n + 1) |->
        IF i > n THEN <<>>
        ELSE IF IsFlag(ws[i]) THEN FlagMeant(ws, i) \o f[NextFlag(ws, i)] ELSE f[i + 1]]
           F == CHOOSE f : Steps(f)
<1>1. n \in Nat
  OBVIOUS
<1>2. Meant(ws) = F[1]
  BY Zenon DEF Meant
<1>3. <<>> \in X
  OBVIOUS
<1>4. \A i \in 1..n : after(i) \in (i + 1)..(n + 1)
  <2> SUFFICES ASSUME NEW i \in 1..n PROVE after(i) \in (i + 1)..(n + 1)
    OBVIOUS
  <2>1. i \in 0..n /\ i + 1 \in (i + 1)..(n + 1)
    BY <1>1
  <2>2. NextFlag(ws, i) \in (i + 1)..(n + 1)
    BY <2>1, NextFlagIs
  <2> QED
    BY <2>1, <2>2, Zenon
<1>5. \A i \in 1..n : \A x \in X : op(i, x) \in X
  BY FlagMeantPairs, ConcatProperties, Zenon
<1>6. \A f : \A i \in 1..n : op(i, f[after(i)]) =
        IF IsFlag(ws[i]) THEN FlagMeant(ws, i) \o f[NextFlag(ws, i)] ELSE f[i + 1]
  BY Zenon
<1>7. n + 1 \in 1..(n + 1) /\ n + 1 > n /\ \A i \in 1..(n + 1) : (i \in 1..n /\ ~(i > n)) \/ i = n + 1
  BY <1>1
<1>8. \A i \in 1..n : i \in 1..(n + 1) /\ ~(i > n)
  BY <1>1
<1>9. \A f : Steps(f) => f[n + 1] = <<>> /\ \A i \in 1..n : f[i] = op(i, f[after(i)])
  <2> SUFFICES ASSUME NEW f, Steps(f) PROVE f[n + 1] = <<>> /\ \A i \in 1..n : f[i] = op(i, f[after(i)])
    OBVIOUS
  <2>1. \A i \in 1..(n + 1) : f[i] = IF i > n THEN <<>>
          ELSE IF IsFlag(ws[i]) THEN FlagMeant(ws, i) \o f[NextFlag(ws, i)] ELSE f[i + 1]
    BY Zenon
  <2> QED
    BY <1>6, <1>7, <1>8, <2>1, Zenon
<1>10. \A f : f = [i \in 1..(n + 1) |-> f[i]] /\ f[n + 1] = <<>> /\ (\A i \in 1..n : f[i] = op(i, f[after(i)]))
              => Steps(f)
  <2> SUFFICES ASSUME NEW f, f = [i \in 1..(n + 1) |-> f[i]], f[n + 1] = <<>>,
                      \A i \in 1..n : f[i] = op(i, f[after(i)])
               PROVE  Steps(f)
    OBVIOUS
  <2> DEFINE new(i) == IF i > n THEN <<>>
          ELSE IF IsFlag(ws[i]) THEN FlagMeant(ws, i) \o f[NextFlag(ws, i)] ELSE f[i + 1]
  <2>1. \A i \in 1..(n + 1) : f[i] = new(i)
    BY <1>6, <1>7, <1>8, Zenon
  <2> HIDE DEF new
  <2>2. f = [i \in 1..(n + 1) |-> new(i)]
    BY <2>1
  <2> QED
    BY <2>2, Zenon DEF new
<1>11. \A f : Steps(f) => f = [i \in 1..(n + 1) |-> f[i]]
  BY Zenon
<1> HIDE DEF n, X, op, after, Steps
<1>12. next \in [1..n -> 1..(n + 1)] /\ \A i \in 1..n : next[i] = after(i) /\ next[i] > i
  BY <1>1, <1>4
<1>13. g \in [1..n -> [X -> X]] /\ \A i \in 1..n : \A x \in X : g[i][x] = op(i, x)
  BY <1>5
<1> HIDE DEF next, g
<1>14. \E f : Steps(f)
  <2>1. PICK f : Descends(f, n, X, <<>>, g, next)
    BY <1>1, <1>3, <1>12, <1>13, Descent, Zenon
  <2>2. f \in [1..(n + 1) -> X] /\ f[n + 1] = <<>> /\ \A i \in 1..n : f[next[i]] \in X /\ f[i] = g[i][f[next[i]]]
    BY <1>1, <1>12, <2>1 DEF Descends
  <2>3. \A i \in 1..n : f[i] = op(i, f[after(i)])
    BY <1>12, <1>13, <2>2
  <2> QED
    BY <1>10, <2>2, <2>3
<1>15. Steps(F)
  BY <1>14, Zenon
<1> HIDE DEF F
<1>16. F[n + 1] = <<>> /\ \A i \in 1..n : F[i] = op(i, F[after(i)]) /\ next[i] = after(i)
  BY <1>9, <1>12, <1>15
<1>17. F[n + 1] \in X /\ \A i \in 1..n : F[next[i]] \in X => F[i] \in X
  BY <1>3, <1>5, <1>16
<1>18. \A i \in 1..(n + 1) : F[i] \in X
  BY <1>1, <1>12, <1>17, StaysBack
<1>19. F = [i \in 1..(n + 1) |-> F[i]]
  BY <1>11, <1>15, Zenon
<1>20. F \in [1..(n + 1) -> X]
  BY <1>18, <1>19
<1>21. AllBy(ws, F)
  BY <1>6, <1>16, <1>20, Zenon DEF AllBy, n, X
<1> QED
  BY <1>2, <1>21

(* A line that sqlcmd reads, with its words as convertOsArgs has them.     *)
Line(ws, ps, c, a) ==
  /\ ws \in Seq(STRING) /\ WellFormed(ws)
  /\ ps = PreprocessHelpFlags(ws) /\ ConvBy(ps, c) /\ AllBy(ws, a)

(* Where convertOsArgs is between the words that it adds nothing to, or in *)
(* a list after its first word.                                            *)
Between(ws, ps, i) == NextFlag(ws, i - 1) = i \/ (Listed(ps, i) /\ ws[i - 1] # "-i")

Right(ws, ps, c, a, i) ==
  Between(ws, ps, i) => Parsed(c[i]) = Files(ws, i - 1) \o a[NextFlag(ws, i - 1)]

LEMMA LineIs ==
  ASSUME NEW ws, NEW ps, NEW c, NEW a, Line(ws, ps, c, a)
  PROVE  /\ ws \in Seq(STRING) /\ ps \in Seq(Words) /\ Len(ps) = Len(ws) /\ Len(ws) \in Nat
         /\ c \in [1..(Len(ws) + 1) -> Seq(Words)] /\ a \in [1..(Len(ws) + 1) -> Seq(Pairs)]
         /\ c[Len(ws) + 1] = <<>> /\ a[Len(ws) + 1] = <<>>
         /\ \A i \in 1..Len(ws) :
              /\ ws[i] \in Words /\ ps[i] \in Words
              /\ IsFlag(ps[i]) <=> IsFlag(ws[i])
              /\ IsListFlag(ps[i]) <=> IsListFlag(ws[i])
              /\ ws[i] \notin {"-help", "-h"} => ps[i] = ws[i]
              /\ ws[i] = "-help" => ps[i] = "--help"
              /\ ws[i] = "-h" => ps[i] = IF i < Len(ws) /\ ws[i + 1] = "1" THEN "-h" ELSE "-?"
              /\ c[i] = ConvertWord(ps, i) \o c[i + 1]
              /\ a[i] = IF IsFlag(ws[i]) THEN FlagMeant(ws, i) \o a[NextFlag(ws, i)] ELSE a[i + 1]
<1>1. ws \in Seq(STRING) /\ ps = PreprocessHelpFlags(ws) /\ ConvBy(ps, c) /\ AllBy(ws, a)
  BY Zenon DEF Line
<1>2. /\ ps \in Seq(Words) /\ Len(ps) = Len(ws)
      /\ \A i \in 1..Len(ws) :
              /\ ws[i] \in Words
              /\ IsFlag(ps[i]) <=> IsFlag(ws[i])
              /\ IsListFlag(ps[i]) <=> IsListFlag(ws[i])
              /\ ws[i] \notin {"-help", "-h"} => ps[i] = ws[i]
              /\ ws[i] = "-help" => ps[i] = "--help"
              /\ ws[i] = "-h" => ps[i] = IF i < Len(ws) /\ ws[i + 1] = "1" THEN "-h" ELSE "-?"
  BY <1>1, Prepared, Zenon
<1>3. /\ c \in [1..(Len(ps) + 1) -> Seq(Words)] /\ c[Len(ps) + 1] = <<>>
      /\ \A i \in 1..Len(ps) : c[i] = ConvertWord(ps, i) \o c[i + 1]
  BY <1>1, Zenon DEF ConvBy
<1>4. /\ a \in [1..(Len(ws) + 1) -> Seq(Pairs)] /\ a[Len(ws) + 1] = <<>>
      /\ \A i \in 1..Len(ws) :
           a[i] = IF IsFlag(ws[i]) THEN FlagMeant(ws, i) \o a[NextFlag(ws, i)] ELSE a[i + 1]
  BY <1>1, Zenon DEF AllBy
<1>5. \A i \in 1..Len(ws) : ps[i] \in Words
  BY <1>2, ElementOfSeq, Zenon
<1>6. Len(ws) \in Nat
  BY <1>1, LenProperties, Zenon
<1> QED
  BY <1>1, <1>2, <1>3, <1>4, <1>5, <1>6, Zenon

InList(ps, i) == Listed(ps, i) /\ ps[i - 1] # "-i"

Lead(ps, i) == IF InList(ps, i) /\ ~IsFlag(ps[i]) THEN <<"-i">> ELSE <<>>

(* A word with what is added around it.                                    *)
Around(ps, c, i) == c[i] = Lead(ps, i) \o (<<ps[i]>> \o (DefaultFor(ps, i) \o c[i + 1]))

LEMMA WordAdded ==
  ASSUME NEW ws, NEW ps, NEW c, NEW a, Line(ws, ps, c, a), NEW i \in 1..Len(ws)
  PROVE  Around(ps, c, i)
<1> DEFINE w == ps[i]
           x == c[i + 1]
           d == DefaultFor(ps, i)
           q == Lead(ps, i)
<1>1. Len(ws) \in Nat /\ c \in [1..(Len(ws) + 1) -> Seq(Words)] /\ w \in Words
  BY LineIs, Zenon
<1>2. c[i] = ConvertWord(ps, i) \o x
  <2>1. \A j \in 1..Len(ws) : c[j] = ConvertWord(ps, j) \o c[j + 1]
    BY LineIs
  <2> QED
    BY <2>1, Zenon
<1>3. i + 1 \in 1..(Len(ws) + 1)
  BY <1>1
<1>4. x \in Seq(Words) /\ d \in Seq(Words) /\ "-i" \in Words
  BY <1>1, <1>3, DefaultWords, WordsThere, Zenon
<1>5. ConvertWord(ps, i) = q \o (<<w>> \o d)
  BY Zenon DEF ConvertWord, Lead, InList
<1> HIDE DEF Words
<1>6. <<w>> \in Seq(Words) /\ <<>> \in Seq(Words) /\ <<"-i">> \in Seq(Words)
  BY <1>1, <1>4
<1>7. q \in Seq(Words)
  BY <1>6, Zenon DEF Lead
<1> HIDE DEF w, x, d, q
<1>8. <<w>> \o d \in Seq(Words) /\ d \in Seq(Words) /\ x \in Seq(Words) /\ q \in Seq(Words)
  BY <1>4, <1>6, <1>7, ConcatProperties, Zenon
<1>9. (<<w>> \o d) \o x = <<w>> \o (d \o x)
  BY ONLY <1>6, <1>8, ConcatAssociative
<1>10. (q \o (<<w>> \o d)) \o x = q \o ((<<w>> \o d) \o x)
  <2> DEFINE y == <<w>> \o d
  <2> HIDE DEF y
  <2>1. q \in Seq(Words) /\ y \in Seq(Words) /\ x \in Seq(Words)
    BY <1>8 DEF y
  <2>2. (q \o y) \o x = q \o (y \o x)
    BY ONLY <2>1, ConcatAssociative, SMTT(30)
  <2> QED
    BY <2>2 DEF y
<1>11. c[i] = q \o (<<w>> \o (d \o x))
  BY <1>2, <1>5, <1>9, <1>10, Zenon
<1> QED
  BY <1>11, Zenon DEF w, x, d, q, Around

LEMMA PlainWord ==
  ASSUME NEW ws, NEW ps, NEW c, NEW a, Line(ws, ps, c, a), NEW i \in 1..Len(ws), ~IsFlag(ws[i])
  PROVE  ps[i] = ws[i] /\ ~IsFlag(ps[i]) /\ DefaultFor(ps, i) = <<>>
<1>1. (ws[i] \notin {"-help", "-h"} => ps[i] = ws[i]) /\ (IsFlag(ps[i]) <=> IsFlag(ws[i]))
  BY LineIs
<1>2. ps[i] = ws[i]
  BY <1>1 DEF IsFlag, Flags
<1>3. ~IsListFlag(ps[i]) /\ ps[i] # "-r" /\ ps[i] # "-N"
  BY <1>2 DEF IsFlag, Flags, IsListFlag
<1>4. DefaultFor(ps, i) = <<>>
  BY <1>3, Zenon DEF DefaultFor, CheckDefaultValue
<1> QED
  BY <1>1, <1>2, <1>4, Zenon

Inside(ws, ps, c, i) ==
  c[i] = IF InList(ps, i) THEN <<"-i">> \o (<<ws[i]>> \o c[i + 1]) ELSE <<ws[i]>> \o c[i + 1]

LEMMA WordInList ==
  ASSUME NEW ws, NEW ps, NEW c, NEW a, Line(ws, ps, c, a), NEW i \in 1..Len(ws), ~IsFlag(ws[i])
  PROVE  Inside(ws, ps, c, i)
<1>1. c[i] = Lead(ps, i) \o (<<ps[i]>> \o (DefaultFor(ps, i) \o c[i + 1]))
  <2>1. Around(ps, c, i)
    BY WordAdded, Zenon
  <2> QED
    BY <2>1, Zenon DEF Around
<1>2. ps[i] = ws[i] /\ ~IsFlag(ps[i]) /\ DefaultFor(ps, i) = <<>>
  BY PlainWord, Zenon
<1>3. c[i + 1] \in Seq(Words) /\ ws[i] \in Words
  <2>1. Len(ws) \in Nat /\ c \in [1..(Len(ws) + 1) -> Seq(Words)] /\ ws[i] \in Words
    BY LineIs, Zenon
  <2>2. i + 1 \in 1..(Len(ws) + 1)
    BY <2>1
  <2> QED
    BY <2>1, <2>2, Zenon
<1>4. <<>> \o c[i + 1] = c[i + 1]
  BY <1>3, ConcatEmptySeq, Zenon
<1>5. <<ws[i]>> \o c[i + 1] \in Seq(Words)
  BY <1>3, Put, Zenon
<1>6. <<>> \o (<<ws[i]>> \o c[i + 1]) = <<ws[i]>> \o c[i + 1]
  BY <1>5, ConcatEmptySeq, Zenon
<1>7. c[i] = Lead(ps, i) \o (<<ws[i]>> \o c[i + 1])
  BY <1>1, <1>2, <1>4, Zenon
<1> QED
  BY <1>2, <1>6, <1>7, Zenon DEF Lead, Inside

Alongside(ps, c, i) == c[i] = <<ps[i]>> \o (DefaultFor(ps, i) \o c[i + 1])

LEMMA WordOfFlag ==
  ASSUME NEW ws, NEW ps, NEW c, NEW a, Line(ws, ps, c, a), NEW i \in 1..Len(ws), IsFlag(ws[i])
  PROVE  Alongside(ps, c, i)
<1>1. c[i] = Lead(ps, i) \o (<<ps[i]>> \o (DefaultFor(ps, i) \o c[i + 1]))
  <2>1. Around(ps, c, i)
    BY WordAdded, Zenon
  <2> QED
    BY <2>1, Zenon DEF Around
<1>2. Len(ws) \in Nat /\ c \in [1..(Len(ws) + 1) -> Seq(Words)] /\ ps[i] \in Words /\ IsFlag(ps[i])
  BY LineIs, Zenon
<1>3. i + 1 \in 1..(Len(ws) + 1)
  BY <1>2
<1>4. c[i + 1] \in Seq(Words)
  BY <1>2, <1>3, Zenon
<1>5. <<ps[i]>> \o (DefaultFor(ps, i) \o c[i + 1]) \in Seq(Words)
  BY <1>2, <1>4, DefaultWords, ConcatProperties, Put, Zenon
<1>6. Lead(ps, i) = <<>>
  BY <1>2, Zenon DEF Lead
<1> QED
  BY <1>1, <1>5, <1>6, ConcatEmptySeq, Zenon DEF Alongside

LEMMA ListedNext ==
  ASSUME NEW ws, NEW ps, NEW c, NEW a, Line(ws, ps, c, a), NEW i \in 1..Len(ws)
  PROVE  /\ IsListFlag(ws[i]) => Listed(ps, i + 1)
         /\ ~IsFlag(ws[i]) /\ Listed(ps, i) => Listed(ps, i + 1)
         /\ IsFlag(ws[i]) /\ ~IsListFlag(ws[i]) => ~Listed(ps, i + 1)
<1>1. Len(ws) \in Nat /\ (IsFlag(ps[i]) <=> IsFlag(ws[i])) /\ (IsListFlag(ps[i]) <=> IsListFlag(ws[i]))
  BY LineIs, Zenon
<1>2. i \in Nat /\ (i + 1) - 1 = i
  OBVIOUS
<1>3. \A k : k \in (i + 1)..i => FALSE
  BY <1>2
<1>4. IsListFlag(ws[i]) => Listed(ps, i + 1)
  <2>1. i \in 1..i
    BY <1>2
  <2> QED
    BY <1>1, <1>2, <1>3, <2>1, Zenon DEF Listed
<1>5. ~IsFlag(ws[i]) /\ Listed(ps, i) => Listed(ps, i + 1)
  <2> SUFFICES ASSUME ~IsFlag(ws[i]), Listed(ps, i) PROVE Listed(ps, i + 1)
    OBVIOUS
  <2>1. PICK j \in 1..(i - 1) : IsListFlag(ps[j]) /\ \A k \in (j + 1)..(i - 1) : ~IsFlag(ps[k])
    BY Zenon DEF Listed
  <2>2. j \in 1..((i + 1) - 1) /\ \A k \in (j + 1)..((i + 1) - 1) : k \in (j + 1)..(i - 1) \/ k = i
    BY <1>2
  <2>3. \A k \in (j + 1)..((i + 1) - 1) : ~IsFlag(ps[k])
    BY <1>1, <2>1, <2>2, Zenon
  <2> QED
    BY <2>1, <2>2, <2>3, Zenon DEF Listed
<1>6. IsFlag(ws[i]) /\ ~IsListFlag(ws[i]) => ~Listed(ps, i + 1)
  <2> SUFFICES ASSUME IsFlag(ws[i]), ~IsListFlag(ws[i]), Listed(ps, i + 1) PROVE FALSE
    OBVIOUS
  <2>1. PICK j \in 1..((i + 1) - 1) : IsListFlag(ps[j]) /\ \A k \in (j + 1)..((i + 1) - 1) : ~IsFlag(ps[k])
    BY Zenon DEF Listed
  <2>2. j = i \/ i \in (j + 1)..((i + 1) - 1)
    BY <1>2
  <2> QED
    BY <1>1, <2>1, <2>2, Zenon
<1> QED
  BY <1>4, <1>5, <1>6

(* After a flag that has no list there is a value if it takes one, and a   *)
(* flag after that.                                                        *)
LEMMA AfterFlag ==
  ASSUME NEW ws \in Seq(STRING), WellFormed(ws), NEW i \in 1..Len(ws), IsFlag(ws[i]), ~IsListFlag(ws[i])
  PROVE  /\ i + 1 \in 1..Len(ws) /\ ~IsFlag(ws[i + 1]) =>
              ws[i] \in {"-r", "-N", "-Q"} \/ (ws[i] = "-h" /\ ws[i + 1] = "1")
         /\ i + 1 \in 1..Len(ws) /\ ~IsFlag(ws[i + 1]) /\ i + 2 \in 1..Len(ws) => IsFlag(ws[i + 2])
<1> DEFINE Owns(j, v) == /\ \A k \in (j + 1)..v : ~IsFlag(ws[k])
                         /\ \/ IsListFlag(ws[j])
                            \/ ws[j] \in {"-r", "-N", "-Q"} /\ j = v - 1
                            \/ ws[j] = "-h" /\ j = v - 1 /\ ws[v] = "1"
<1>1. \A v \in 1..Len(ws) : ~IsFlag(ws[v]) => \E j \in 1..(v - 1) : Owns(j, v)
  BY Zenon DEF WellFormed
<1>2. i \in Nat /\ Len(ws) \in Nat
  OBVIOUS
<1>3. ASSUME i + 1 \in 1..Len(ws), ~IsFlag(ws[i + 1])
      PROVE  ws[i] \in {"-r", "-N", "-Q"} \/ (ws[i] = "-h" /\ ws[i + 1] = "1")
  <2>1. PICK j \in 1..((i + 1) - 1) : Owns(j, i + 1)
    BY <1>1, <1>3, Zenon
  <2>2. j = i \/ i \in (j + 1)..(i + 1)
    BY <1>2
  <2>3. j = i
    BY <2>1, <2>2, Zenon
  <2> QED
    BY <2>1, <2>3, Zenon
<1>4. ASSUME i + 1 \in 1..Len(ws), ~IsFlag(ws[i + 1]), i + 2 \in 1..Len(ws), ~IsFlag(ws[i + 2])
      PROVE  FALSE
  <2>1. PICK j \in 1..((i + 2) - 1) : Owns(j, i + 2)
    BY <1>1, <1>4, Zenon
  <2>2. \/ i \in (j + 1)..(i + 2)
        \/ j = i /\ j # (i + 2) - 1
        \/ j = i + 1
    BY <1>2
  <2>3. j = i => FALSE
    <3>1. j = i => j # (i + 2) - 1
      BY <1>2
    <3> QED
      BY <2>1, <3>1, Zenon
  <2>4. j = i + 1 => FALSE
    <3>1. j = i + 1 => IsListFlag(ws[i + 1]) \/ ws[i + 1] \in {"-r", "-N", "-Q"} \/ ws[i + 1] = "-h"
      BY <2>1, Zenon
    <3> HIDE DEF Owns
    <3> QED
      BY <1>4, <3>1 DEF IsFlag, Flags, IsListFlag
  <2> QED
    BY <2>1, <2>2, <2>3, <2>4, Zenon
<1> QED
  BY <1>3, <1>4, Zenon

(* What is between the words from here is so from there.                   *)
Ahead(ws, c, a, i) == Parsed(c[i + 1]) = Files(ws, i) \o a[NextFlag(ws, i)]

LEMMA BetweenAfter ==
  ASSUME NEW ws, NEW ps, NEW c, NEW a, Line(ws, ps, c, a), NEW i \in 1..Len(ws),
         \/ i + 1 \in 1..Len(ws) => IsFlag(ws[i + 1])
         \/ Listed(ps, i + 1) /\ ws[i] # "-i",
         Right(ws, ps, c, a, i + 1)
  PROVE  Ahead(ws, c, a, i)
<1>1. ws \in Seq(STRING) /\ i \in 0..Len(ws) /\ (i + 1) - 1 = i
  BY LineIs
<1>2. (i + 1 \in 1..Len(ws) => IsFlag(ws[i + 1])) => NextFlag(ws, i) = i + 1
  BY <1>1, NextFlagHere
<1>3. Between(ws, ps, i + 1)
  BY <1>1, <1>2, Zenon DEF Between
<1> QED
  BY <1>1, <1>3, Zenon DEF Right, Ahead

LEMMA PairFirst ==
  ASSUME NEW p \in Pairs, NEW x \in Seq(Pairs), NEW y \in Seq(Pairs)
  PROVE  (<<p>> \o x) \o y = <<p>> \o (x \o y) /\ <<p>> \in Seq(Pairs)
<1> HIDE DEF Pairs
<1>1. <<p>> \in Seq(Pairs)
  OBVIOUS
<1> QED
  BY <1>1, ConcatAssociative

LEMMA RightOfFlag ==
  ASSUME NEW ws, NEW ps, NEW c, NEW a, Line(ws, ps, c, a), NEW i \in 1..Len(ws), IsFlag(ws[i]),
         Parsed(c[i]) = FlagMeant(ws, i) \o a[NextFlag(ws, i)]
  PROVE  Right(ws, ps, c, a, i)
<1>1. ws \in Seq(STRING) /\ i - 1 \in 0..Len(ws) /\ (i - 1) + 1 = i /\ i \in 1..(Len(ws) + 1)
  BY LineIs
<1>2. NextFlag(ws, i - 1) = i /\ Files(ws, i - 1) = <<>>
  BY <1>1, NextFlagHere
<1>3. a \in [1..(Len(ws) + 1) -> Seq(Pairs)]
  BY LineIs, Zenon
<1>4. a[i] = FlagMeant(ws, i) \o a[NextFlag(ws, i)]
  <2>1. \A j \in 1..Len(ws) :
          a[j] = IF IsFlag(ws[j]) THEN FlagMeant(ws, j) \o a[NextFlag(ws, j)] ELSE a[j + 1]
    BY LineIs
  <2> QED
    BY <2>1, Zenon
<1>5. <<>> \o a[i] = a[i]
  <2>1. a[i] \in Seq(Pairs)
    BY <1>1, <1>3, Zenon
  <2> QED
    BY <2>1, ConcatEmptySeq, Zenon
<1> QED
  BY <1>2, <1>4, <1>5, Zenon DEF Right

(* The word after a flag that takes a value gets nothing.                  *)
WordNext(ws, c, i) == c[i + 1] = <<ws[i + 1]>> \o c[i + 2]

LEMMA NextWord ==
  ASSUME NEW ws, NEW ps, NEW c, NEW a, Line(ws, ps, c, a), NEW i \in 1..(Len(ws) - 1),
         IsFlag(ws[i]), ~IsFlag(ws[i + 1]), ws[i] # "-if"
  PROVE  /\ WordNext(ws, c, i) /\ c[i + 2] \in Seq(Words) /\ ws[i + 1] \in Words
         /\ i \in 1..Len(ws) /\ i + 1 \in 1..Len(ws) /\ i + 2 \in 1..(Len(ws) + 1) /\ (i + 1) + 1 = i + 2
<1>1. Len(ws) \in Nat /\ c \in [1..(Len(ws) + 1) -> Seq(Words)]
  BY LineIs, Zenon
<1>2. i \in 1..Len(ws) /\ i + 1 \in 1..Len(ws) /\ i + 2 \in 1..(Len(ws) + 1) /\ (i + 1) + 1 = i + 2 /\ (i + 1) - 1 = i
  BY <1>1
<1>3. ~InList(ps, i + 1) => c[i + 1] = <<ws[i + 1]>> \o c[i + 2]
  <2> DEFINE k == i + 1
  <2>1. k \in 1..Len(ws) /\ ~IsFlag(ws[k]) /\ k - 1 = i /\ k + 1 = i + 2
    BY <1>2
  <2> HIDE DEF k
  <2>2. ~InList(ps, k) => c[k] = <<ws[k]>> \o c[k + 1]
    <3>1. Inside(ws, ps, c, k)
      BY <2>1, WordInList, Zenon
    <3> QED
      BY <3>1, Zenon DEF Inside
  <2>3. ~InList(ps, k) => c[k] = <<ws[k]>> \o c[i + 2]
    BY <2>1, <2>2, Zenon
  <2> QED
    BY <2>3, Zenon DEF k
<1>4. IsListFlag(ws[i]) => ps[i] = "-i"
  <2>1. ws[i] \notin {"-help", "-h"} => ps[i] = ws[i]
    BY <1>2, LineIs
  <2> QED
    BY <2>1 DEF IsListFlag
<1>5. ~IsListFlag(ws[i]) => ~Listed(ps, i + 1)
  BY <1>2, ListedNext, Zenon
<1>6. c[i + 1] = <<ws[i + 1]>> \o c[i + 2]
  <2>1. ~InList(ps, i + 1)
    BY <1>2, <1>4, <1>5 DEF InList
  <2> QED
    BY <1>3, <2>1, Zenon
<1>7. c[i + 2] \in Seq(Words)
  BY <1>1, <1>2
<1>8. ws[i + 1] \in Words
  BY <1>2, LineIs, Zenon
<1> QED
  BY <1>2, <1>6, <1>7, <1>8, Zenon DEF WordNext

(* No word is between them, or the list goes on.                           *)
LEMMA RightInList ==
  ASSUME NEW ws, NEW ps, NEW c, NEW a, Line(ws, ps, c, a), NEW i \in 1..Len(ws), ~IsFlag(ws[i]),
         Right(ws, ps, c, a, i + 1)
  PROVE  Right(ws, ps, c, a, i)
<1>1. /\ ws \in Seq(STRING) /\ i - 1 \in 0..(Len(ws) - 1) /\ (i - 1) + 1 = i /\ i + 1 \in 1..(Len(ws) + 1)
      /\ i \in 0..Len(ws) /\ Len(ws) \in Nat
  BY LineIs
<1>2. SUFFICES ASSUME Between(ws, ps, i)
               PROVE  Parsed(c[i]) = Files(ws, i - 1) \o a[NextFlag(ws, i - 1)]
  BY Zenon DEF Right
<1>3. /\ NextFlag(ws, i - 1) = NextFlag(ws, i) /\ NextFlag(ws, i - 1) > i
      /\ Files(ws, i - 1) = <<<<"-i", ws[i]>>>> \o Files(ws, i)
  <2>1. NextFlag(ws, i - 1) = NextFlag(ws, (i - 1) + 1) /\ NextFlag(ws, i - 1) > (i - 1) + 1
    BY <1>1, NextFlagLater
  <2>2. Files(ws, i - 1) = <<<<"-i", ws[(i - 1) + 1]>>>> \o Files(ws, (i - 1) + 1)
    BY <1>1, FilesMore
  <2> QED
    BY <1>1, <2>1, <2>2
<1>4. Listed(ps, i) /\ ws[i - 1] # "-i"
  BY <1>1, <1>2, <1>3 DEF Between
<1>5. ps[i - 1] # "-i"
  <2>1. i - 1 \in 1..Len(ws)
    <3>1. PICK j \in 1..(i - 1) : TRUE
      BY <1>4, Zenon DEF Listed
    <3> QED
      BY <1>1, <3>1
  <2>2. /\ ws[i - 1] \notin {"-help", "-h"} => ps[i - 1] = ws[i - 1]
        /\ ws[i - 1] = "-help" => ps[i - 1] = "--help"
        /\ ws[i - 1] = "-h" => ps[i - 1] \in {"-h", "-?"}
    <3> DEFINE k == i - 1
    <3>1. k \in 1..Len(ws)
      BY <2>1
    <3> HIDE DEF k
    <3>2. /\ ws[k] \notin {"-help", "-h"} => ps[k] = ws[k]
          /\ ws[k] = "-help" => ps[k] = "--help"
          /\ ws[k] = "-h" => ps[k] \in {"-h", "-?"}
      BY <3>1, LineIs
    <3> QED
      BY <3>2, Zenon DEF k
  <2> QED
    BY <1>4, <2>2
<1>6. c[i] = <<"-i">> \o (<<ws[i]>> \o c[i + 1])
  <2>1. Inside(ws, ps, c, i)
    BY WordInList, Zenon
  <2> QED
    BY <1>4, <1>5, <2>1, Zenon DEF Inside, InList
<1>7. Parsed(c[i + 1]) = Files(ws, i) \o a[NextFlag(ws, i)]
  <2>1. Listed(ps, i + 1)
    BY <1>4, ListedNext, Zenon
  <2>2. ws[i] # "-i"
    BY DEF IsFlag, Flags
  <2> QED
    <3>1. Ahead(ws, c, a, i)
      BY <2>1, <2>2, BetweenAfter, Zenon
    <3> QED
      BY <3>1, Zenon DEF Ahead
<1>8. ws[i] \in Words /\ c[i + 1] \in Seq(Words) /\ "-i" \in Words /\ "-i" \in Valued
  <2>1. c \in [1..(Len(ws) + 1) -> Seq(Words)] /\ ws[i] \in Words
    BY LineIs, Zenon
  <2> QED
    BY <1>1, <2>1, WordsThere, Zenon DEF Valued
<1>9. Parsed(c[i]) = <<<<"-i", ws[i]>>>> \o Parsed(c[i + 1])
  BY <1>6, <1>8, ParsedValued, Zenon
<1>10. <<"-i", ws[i]>> \in Pairs /\ Files(ws, i) \in Seq(Pairs) /\ a[NextFlag(ws, i)] \in Seq(Pairs)
  <2>1. NextFlag(ws, i) \in 1..(Len(ws) + 1)
    <3>1. NextFlag(ws, i) \in (i + 1)..(Len(ws) + 1)
      BY <1>1, NextFlagIs
    <3> QED
      BY <1>1, <3>1
  <2>2. a \in [1..(Len(ws) + 1) -> Seq(Pairs)]
    BY LineIs, Zenon
  <2>3. <<"-i", ws[i]>> \in Pairs
    BY <1>8, Zenon DEF Pairs
  <2> QED
    BY <1>1, <2>1, <2>2, <2>3, FilesAre, Zenon
<1>11. (<<<<"-i", ws[i]>>>> \o Files(ws, i)) \o a[NextFlag(ws, i)]
         = <<<<"-i", ws[i]>>>> \o (Files(ws, i) \o a[NextFlag(ws, i)])
  BY <1>10, PairFirst
<1> QED
  BY <1>3, <1>7, <1>9, <1>11, Zenon

LEMMA DefaultIs ==
  ASSUME NEW ws, NEW ps, NEW c, NEW a, Line(ws, ps, c, a), NEW i \in 1..Len(ws), IsFlag(ws[i])
  PROVE  /\ ws[i] \notin {"-r", "-N"} => DefaultFor(ps, i) = <<>>
         /\ i < Len(ws) /\ ~IsFlag(ws[i + 1]) => DefaultFor(ps, i) = <<>>
         /\ ~(i < Len(ws) /\ ~IsFlag(ws[i + 1])) =>
              /\ ws[i] = "-r" => DefaultFor(ps, i) = <<"0">>
              /\ ws[i] = "-N" => DefaultFor(ps, i) = <<"true">>
<1>1. Len(ps) = Len(ws) /\ Len(ws) \in Nat
  BY LineIs, Zenon
<1>2. /\ ws[i] \notin {"-help", "-h"} => ps[i] = ws[i]
      /\ ws[i] = "-help" => ps[i] = "--help"
      /\ ws[i] = "-h" => ps[i] \in {"-h", "-?"}
  BY LineIs
<1>3. i < Len(ws) => (IsFlag(ps[i + 1]) <=> IsFlag(ws[i + 1]))
  <2>1. i < Len(ws) => i + 1 \in 1..Len(ws)
    BY <1>1
  <2> QED
    BY <2>1, LineIs, Zenon
<1> DEFINE v == i < Len(ps) /\ ~IsFlag(ps[i + 1])
<1>4. v <=> i < Len(ws) /\ ~IsFlag(ws[i + 1])
  BY <1>1, <1>3, Zenon
<1>5. DefaultFor(ps, i) = IF ps[i] \in {"-i", "-if"} THEN <<>> ELSE
        IF v THEN <<>> ELSE IF ps[i] = "-r" THEN <<"0">> ELSE IF ps[i] = "-N" THEN <<"true">> ELSE <<>>
  BY Zenon DEF DefaultFor, CheckDefaultValue, IsListFlag
<1> HIDE DEF v
<1>6. ws[i] \notin {"-r", "-N"} => ps[i] \notin {"-r", "-N"}
  BY <1>2
<1>7. ws[i] \in {"-r", "-N"} => ps[i] = ws[i] /\ ps[i] \notin {"-i", "-if"}
  BY <1>2
<1>8. ws[i] \notin {"-r", "-N"} => DefaultFor(ps, i) = <<>>
  BY <1>5, <1>6, Zenon
<1>9. v => DefaultFor(ps, i) = <<>>
  BY <1>5, Zenon
<1>10. ~v => /\ ws[i] = "-r" => DefaultFor(ps, i) = <<"0">>
             /\ ws[i] = "-N" => DefaultFor(ps, i) = <<"true">>
  <2>1. "-r" # "-N"
    OBVIOUS
  <2> QED
    BY <1>5, <1>7, <2>1, Zenon
<1> QED
  BY <1>4, <1>8, <1>9, <1>10, Zenon

(* A flag with nothing added, or with its default.                         *)
Bare(ps, c, i) == c[i] = <<ps[i]>> \o c[i + 1]
With(ps, c, i, w) == c[i] = <<ps[i]>> \o (<<w>> \o c[i + 1])

LEMMA WordAlone ==
  ASSUME NEW ws, NEW ps, NEW c, NEW a, Line(ws, ps, c, a), NEW i \in 1..Len(ws), IsFlag(ws[i])
  PROVE  /\ DefaultFor(ps, i) = <<>> => Bare(ps, c, i)
         /\ DefaultFor(ps, i) = <<"0">> => With(ps, c, i, "0")
         /\ DefaultFor(ps, i) = <<"true">> => With(ps, c, i, "true")
         /\ c[i + 1] \in Seq(Words) /\ i + 1 \in 1..(Len(ws) + 1) /\ ps[i] \in Words /\ ws[i] \in Words
<1>1. Len(ws) \in Nat /\ c \in [1..(Len(ws) + 1) -> Seq(Words)] /\ ps[i] \in Words /\ ws[i] \in Words
  BY LineIs, Zenon
<1>2. i + 1 \in 1..(Len(ws) + 1)
  BY <1>1
<1>3. c[i + 1] \in Seq(Words)
  BY <1>1, <1>2, Zenon
<1>4. <<>> \o c[i + 1] = c[i + 1]
  BY <1>3, ConcatEmptySeq, Zenon
<1>5. Alongside(ps, c, i)
  BY WordOfFlag, Zenon
<1>6. c[i] = <<ps[i]>> \o (DefaultFor(ps, i) \o c[i + 1])
  BY <1>5, Zenon DEF Alongside
<1>7. DefaultFor(ps, i) = <<>> => Bare(ps, c, i)
  BY <1>4, <1>6, Zenon DEF Bare
<1>8. DefaultFor(ps, i) = <<"0">> => With(ps, c, i, "0")
  BY <1>6, Zenon DEF With
<1>9. DefaultFor(ps, i) = <<"true">> => With(ps, c, i, "true")
  BY <1>6, Zenon DEF With
<1> QED
  BY <1>1, <1>2, <1>3, <1>7, <1>8, <1>9, Zenon

(* The flags after this one.                                               *)
LEMMA After ==
  ASSUME NEW ws, NEW ps, NEW c, NEW a, Line(ws, ps, c, a), NEW i \in 0..Len(ws)
  PROVE  /\ Files(ws, i) \in Seq(Pairs) /\ a[NextFlag(ws, i)] \in Seq(Pairs)
         /\ <<>> \o a[NextFlag(ws, i)] = a[NextFlag(ws, i)]
<1>1. ws \in Seq(STRING) /\ Len(ws) \in Nat /\ a \in [1..(Len(ws) + 1) -> Seq(Pairs)]
  BY LineIs, Zenon
<1>2. NextFlag(ws, i) \in 1..(Len(ws) + 1)
  <2>1. NextFlag(ws, i) \in (i + 1)..(Len(ws) + 1)
    BY <1>1, NextFlagIs
  <2> QED
    BY <1>1, <2>1
<1>3. a[NextFlag(ws, i)] \in Seq(Pairs)
  BY <1>1, <1>2, Zenon
<1> QED
  BY <1>1, <1>3, FilesAre, ConcatEmptySeq, Zenon

LEMMA RightAttached ==
  ASSUME NEW ws, NEW ps, NEW c, NEW a, Line(ws, ps, c, a), NEW i \in 1..Len(ws), ws[i] = "-if",
         Right(ws, ps, c, a, i + 1)
  PROVE  Right(ws, ps, c, a, i)
<1>1. IsFlag(ws[i]) /\ IsListFlag(ws[i]) /\ ws[i] \notin {"-r", "-N"} /\ ws[i] \notin {"-help", "-h"} /\ ws[i] # "-i"
  BY DEF IsFlag, Flags, IsListFlag
<1>2. ps[i] = "-if"
  <2>1. ws[i] \notin {"-help", "-h"} => ps[i] = ws[i]
    BY LineIs
  <2> QED
    BY <1>1, <2>1, Zenon
<1>3. DefaultFor(ps, i) = <<>>
  BY <1>1, DefaultIs, Zenon
<1>4. Bare(ps, c, i) /\ c[i + 1] \in Seq(Words) /\ ps[i] \in Words
  BY <1>1, <1>3, WordAlone, Zenon
<1>5. Parsed(c[i]) = <<<<"-i", "f">>>> \o Parsed(c[i + 1])
  BY <1>2, <1>4, ParsedAlone, Zenon DEF Bare
<1>6. Parsed(c[i + 1]) = Files(ws, i) \o a[NextFlag(ws, i)]
  <2>1. Listed(ps, i + 1)
    BY <1>1, ListedNext, Zenon
  <2>2. ws[i] # "-i"
    BY <1>1, Zenon
  <2> QED
    <3>1. Ahead(ws, c, a, i)
      BY <2>1, <2>2, BetweenAfter, Zenon
    <3> QED
      BY <3>1, Zenon DEF Ahead
<1>7. <<"-i", "f">> \in Pairs /\ i \in 0..Len(ws)
  <2>1. "-i" \in Words /\ "f" \in Words
    BY WordsThere, Zenon
  <2> QED
    BY <2>1 DEF Pairs
<1>8. Files(ws, i) \in Seq(Pairs) /\ a[NextFlag(ws, i)] \in Seq(Pairs)
  BY <1>7, After, Zenon
<1>9. (<<<<"-i", "f">>>> \o Files(ws, i)) \o a[NextFlag(ws, i)]
        = <<<<"-i", "f">>>> \o (Files(ws, i) \o a[NextFlag(ws, i)])
  BY <1>7, <1>8, PairFirst
<1>10. FlagMeant(ws, i) = <<<<"-i", "f">>>> \o Files(ws, i)
  BY FlagMeantIs, Zenon
<1>11. Parsed(c[i]) = FlagMeant(ws, i) \o a[NextFlag(ws, i)]
  BY <1>5, <1>6, <1>9, <1>10, Zenon
<1> QED
  BY <1>1, <1>11, RightOfFlag, Zenon

LEMMA RightAlone ==
  ASSUME NEW ws, NEW ps, NEW c, NEW a, Line(ws, ps, c, a), NEW i \in 1..Len(ws), IsFlag(ws[i]),
         ~IsListFlag(ws[i]), i + 1 \in 1..Len(ws) => IsFlag(ws[i + 1]),
         ws[i] \notin {"-r", "-N", "-Q"}, Right(ws, ps, c, a, i + 1)
  PROVE  Right(ws, ps, c, a, i)
<1>1. ws \in Seq(STRING) /\ Len(ws) \in Nat
  BY LineIs, Zenon
<1>2. NextFlag(ws, i) = i + 1 /\ Files(ws, i) = <<>> /\ i \in 0..Len(ws)
  <2>1. i \in 0..Len(ws)
    BY <1>1
  <2> QED
    BY <1>1, <2>1, NextFlagHere, Zenon
<1>3. /\ ws[i] \notin {"-help", "-h"} => ps[i] = ws[i]
      /\ ws[i] = "-help" => ps[i] = "--help"
      /\ ws[i] = "-h" => ps[i] = "-?"
  <2>1. ~(i < Len(ws) /\ ws[i + 1] = "1")
    <3>1. i < Len(ws) => i + 1 \in 1..Len(ws)
      BY <1>1
    <3>2. ~IsFlag("1")
      BY DEF IsFlag, Flags
    <3> QED
      BY <3>1, <3>2, Zenon
  <2> QED
    BY <2>1, LineIs
<1>4. ws[i] \in {"-help", "-h", "-b", "-?", "--help"}
  BY DEF IsFlag, Flags, IsListFlag
<1>5. ps[i] \in Alone
  BY <1>3, <1>4 DEF Alone
<1>6. DefaultFor(ps, i) = <<>>
  <2>1. ws[i] \notin {"-r", "-N"}
    OBVIOUS
  <2> QED
    BY <2>1, DefaultIs, Zenon
<1>7. Bare(ps, c, i) /\ c[i + 1] \in Seq(Words) /\ ps[i] \in Words
  BY <1>6, WordAlone, Zenon
<1>8. Parsed(c[i]) = <<<<ps[i], NoValue>>>> \o Parsed(c[i + 1])
  BY <1>5, <1>7, ParsedAlone, Zenon DEF Bare
<1>9. Parsed(c[i + 1]) = a[NextFlag(ws, i)]
  <2>1. Parsed(c[i + 1]) = Files(ws, i) \o a[NextFlag(ws, i)]
    <3>1. Ahead(ws, c, a, i)
      BY BetweenAfter, Zenon
    <3> QED
      BY <3>1, Zenon DEF Ahead
  <2>2. <<>> \o a[NextFlag(ws, i)] = a[NextFlag(ws, i)]
    BY <1>2, After, Zenon
  <2> QED
    BY <1>2, <2>1, <2>2, Zenon
<1>10. FlagMeant(ws, i) = <<<<ps[i], NoValue>>>>
  <2>1. /\ ws[i] = "-help" => FlagMeant(ws, i) = <<<<"--help", NoValue>>>>
        /\ ws[i] \in {"-b", "-?", "--help"} => FlagMeant(ws, i) = <<<<ws[i], NoValue>>>>
    BY FlagMeantIs, Zenon
  <2>2. ~(NextFlag(ws, i) > i + 1)
    BY <1>1, <1>2
  <2>3. ws[i] = "-h" => FlagMeant(ws, i) = <<<<"-?", NoValue>>>>
    BY <2>2, FlagMeantIs, Zenon
  <2>4. \/ ws[i] = "-help" /\ ps[i] = "--help"
        \/ ws[i] = "-h" /\ ps[i] = "-?"
        \/ ws[i] \in {"-b", "-?", "--help"} /\ ps[i] = ws[i]
    BY <1>3, <1>4
  <2> QED
    BY <2>1, <2>3, <2>4, Zenon
<1>11. Parsed(c[i]) = FlagMeant(ws, i) \o a[NextFlag(ws, i)]
  BY <1>8, <1>9, <1>10, Zenon
<1> QED
  BY <1>11, RightOfFlag, Zenon

LEMMA RightDefault ==
  ASSUME NEW ws, NEW ps, NEW c, NEW a, Line(ws, ps, c, a), NEW i \in 1..Len(ws), ws[i] \in {"-r", "-N"},
         i + 1 \in 1..Len(ws) => IsFlag(ws[i + 1]), Right(ws, ps, c, a, i + 1)
  PROVE  Right(ws, ps, c, a, i)
<1>1. ws \in Seq(STRING) /\ Len(ws) \in Nat
  BY LineIs, Zenon
<1>2. NextFlag(ws, i) = i + 1 /\ Files(ws, i) = <<>> /\ i \in 0..Len(ws)
  <2>1. i \in 0..Len(ws)
    BY <1>1
  <2> QED
    BY <1>1, <2>1, NextFlagHere, Zenon
<1>3. IsFlag(ws[i]) /\ ws[i] \notin {"-help", "-h"}
  BY DEF IsFlag, Flags
<1>4. ps[i] = ws[i] /\ ps[i] \in Valued
  <2>1. ps[i] = ws[i]
    BY <1>3, LineIs
  <2> QED
    BY <2>1 DEF Valued
<1>5. /\ ws[i] = "-r" => DefaultFor(ps, i) = <<"0">>
      /\ ws[i] = "-N" => DefaultFor(ps, i) = <<"true">>
  <2>1. ~(i < Len(ws) /\ ~IsFlag(ws[i + 1]))
    BY <1>1
  <2> QED
    BY <1>3, <2>1, DefaultIs, Zenon
<1>6. /\ ws[i] = "-r" => With(ps, c, i, "0")
      /\ ws[i] = "-N" => With(ps, c, i, "true")
      /\ c[i + 1] \in Seq(Words) /\ ps[i] \in Words
  BY <1>3, <1>5, WordAlone, Zenon
<1>7. "0" \in Words /\ "true" \in Words
  BY WordsThere, Zenon
<1>8. /\ ws[i] = "-r" => Parsed(c[i]) = <<<<"-r", "0">>>> \o Parsed(c[i + 1])
      /\ ws[i] = "-N" => Parsed(c[i]) = <<<<"-N", "true">>>> \o Parsed(c[i + 1])
  <2>1. \A w \in Words : Parsed(<<ps[i]>> \o (<<w>> \o c[i + 1])) = <<<<ps[i], w>>>> \o Parsed(c[i + 1])
    BY <1>4, <1>6, ParsedValued, Zenon
  <2>2. /\ ws[i] = "-r" => c[i] = <<ps[i]>> \o (<<"0">> \o c[i + 1])
        /\ ws[i] = "-N" => c[i] = <<ps[i]>> \o (<<"true">> \o c[i + 1])
    BY <1>6, Zenon DEF With
  <2> QED
    BY <1>4, <1>7, <2>1, <2>2, Zenon
<1>9. Parsed(c[i + 1]) = a[NextFlag(ws, i)]
  <2>1. Parsed(c[i + 1]) = Files(ws, i) \o a[NextFlag(ws, i)]
    <3>1. Ahead(ws, c, a, i)
      BY BetweenAfter, Zenon
    <3> QED
      BY <3>1, Zenon DEF Ahead
  <2>2. <<>> \o a[NextFlag(ws, i)] = a[NextFlag(ws, i)]
    BY <1>2, After, Zenon
  <2> QED
    BY <1>2, <2>1, <2>2, Zenon
<1>10. /\ ws[i] = "-r" => FlagMeant(ws, i) = <<<<"-r", "0">>>>
       /\ ws[i] = "-N" => FlagMeant(ws, i) = <<<<"-N", "true">>>>
  <2>1. ~(NextFlag(ws, i) > i + 1)
    BY <1>1, <1>2
  <2>2. ValueOf(ws, i, "0") = "0" /\ ValueOf(ws, i, "true") = "true"
    BY <2>1, Zenon DEF ValueOf
  <2> QED
    BY <2>2, FlagMeantIs, Zenon
<1>11. Parsed(c[i]) = FlagMeant(ws, i) \o a[NextFlag(ws, i)]
  BY <1>8, <1>9, <1>10, Zenon
<1> QED
  BY <1>3, <1>11, RightOfFlag, Zenon

LEMMA RightValue ==
  ASSUME NEW ws, NEW ps, NEW c, NEW a, Line(ws, ps, c, a), NEW i \in 1..(Len(ws) - 1), IsFlag(ws[i]),
         ~IsListFlag(ws[i]), ~IsFlag(ws[i + 1]), Right(ws, ps, c, a, i + 2)
  PROVE  Right(ws, ps, c, a, i)
<1>1. ws \in Seq(STRING) /\ Len(ws) \in Nat /\ WellFormed(ws)
  BY LineIs, Zenon DEF Line
<1>2. /\ i \in 1..Len(ws) /\ i + 1 \in 1..Len(ws) /\ i \in 0..(Len(ws) - 1) /\ i + 1 \in 0..Len(ws)
      /\ (i + 1) + 1 = i + 2 /\ i < Len(ws)
  BY <1>1
<1>3. /\ ws[i] \in {"-r", "-N", "-Q"} \/ (ws[i] = "-h" /\ ws[i + 1] = "1")
      /\ i + 2 \in 1..Len(ws) => IsFlag(ws[i + 2])
  BY <1>1, <1>2, AfterFlag, Zenon
<1>4. ps[i] = ws[i] /\ ps[i] \in Valued /\ ws[i] \in Valued
  <2>1. /\ ws[i] \notin {"-help", "-h"} => ps[i] = ws[i]
        /\ ws[i] = "-h" => ps[i] = IF i < Len(ws) /\ ws[i + 1] = "1" THEN "-h" ELSE "-?"
    BY <1>2, LineIs
  <2>2. ps[i] = ws[i]
    BY <1>2, <1>3, <2>1
  <2> QED
    BY <1>3, <2>2 DEF Valued
<1>5. DefaultFor(ps, i) = <<>>
  BY <1>2, DefaultIs, Zenon
<1>6. Bare(ps, c, i) /\ ps[i] \in Words
  BY <1>2, <1>5, WordAlone, Zenon
<1>7. WordNext(ws, c, i) /\ c[i + 2] \in Seq(Words) /\ ws[i + 1] \in Words
  <2>1. ws[i] # "-if"
    BY DEF IsListFlag
  <2> QED
    BY <2>1, NextWord, Zenon
<1>8. Parsed(c[i]) = <<<<ws[i], ws[i + 1]>>>> \o Parsed(c[i + 2])
  <2>1. Parsed(<<ps[i]>> \o (<<ws[i + 1]>> \o c[i + 2])) = <<<<ps[i], ws[i + 1]>>>> \o Parsed(c[i + 2])
    BY <1>4, <1>6, <1>7, ParsedValued, Zenon
  <2>2. c[i] = <<ps[i]>> \o (<<ws[i + 1]>> \o c[i + 2])
    BY <1>6, <1>7, Zenon DEF Bare, WordNext
  <2> QED
    BY <1>4, <2>1, <2>2, Zenon
<1>9. NextFlag(ws, i + 1) = i + 2 /\ NextFlag(ws, i) = i + 2 /\ Files(ws, i + 1) = <<>>
  <2>1. NextFlag(ws, i + 1) = i + 2 /\ Files(ws, i + 1) = <<>>
    <3>1. (i + 1) + 1 \in 1..Len(ws) => IsFlag(ws[(i + 1) + 1])
      BY <1>2, <1>3
    <3>2. NextFlag(ws, i + 1) = (i + 1) + 1 /\ Files(ws, i + 1) = <<>>
      BY <1>1, <1>2, <3>1, NextFlagHere
    <3> QED
      BY <1>2, <3>2
  <2>2. NextFlag(ws, i) = NextFlag(ws, i + 1)
    BY <1>1, <1>2, NextFlagLater
  <2> QED
    BY <2>1, <2>2
<1>10. Parsed(c[i + 2]) = a[NextFlag(ws, i)]
  <2> DEFINE k == i + 1
  <2>1. k \in 1..Len(ws) /\ k \in 0..Len(ws) /\ k + 1 = i + 2 /\ Right(ws, ps, c, a, k + 1)
        /\ (k + 1 \in 1..Len(ws) => IsFlag(ws[k + 1]))
    BY <1>2, <1>3
  <2> HIDE DEF k
  <2>2. Parsed(c[k + 1]) = Files(ws, k) \o a[NextFlag(ws, k)]
    <3>1. Ahead(ws, c, a, k)
      BY <2>1, BetweenAfter, Zenon
    <3> QED
      BY <3>1, Zenon DEF Ahead
  <2>3. <<>> \o a[NextFlag(ws, k)] = a[NextFlag(ws, k)]
    BY <2>1, After, Zenon
  <2>4. Files(ws, k) = <<>> /\ NextFlag(ws, k) = NextFlag(ws, i)
    BY <1>9 DEF k
  <2> QED
    BY <2>1, <2>2, <2>3, <2>4, Zenon
<1>11. FlagMeant(ws, i) = <<<<ws[i], ws[i + 1]>>>>
  <2>1. NextFlag(ws, i) > i + 1
    BY <1>2, <1>9
  <2>2. ValueOf(ws, i, "0") = ws[i + 1] /\ ValueOf(ws, i, "true") = ws[i + 1]
    BY <2>1, Zenon DEF ValueOf
  <2>3. ws[i] = "-h" => FlagMeant(ws, i) = <<<<"-h", ws[i + 1]>>>>
    BY <2>1, FlagMeantIs, Zenon
  <2>4. /\ ws[i] = "-r" => FlagMeant(ws, i) = <<<<"-r", ws[i + 1]>>>>
        /\ ws[i] = "-N" => FlagMeant(ws, i) = <<<<"-N", ws[i + 1]>>>>
        /\ ws[i] = "-Q" => FlagMeant(ws, i) = <<<<"-Q", ws[i + 1]>>>>
    BY <2>2, FlagMeantIs, Zenon
  <2> QED
    BY <1>3, <2>3, <2>4, Zenon
<1>12. Parsed(c[i]) = FlagMeant(ws, i) \o a[NextFlag(ws, i)]
  BY <1>8, <1>10, <1>11, Zenon
<1> QED
  BY <1>2, <1>12, RightOfFlag, Zenon

LEMMA RightList ==
  ASSUME NEW ws, NEW ps, NEW c, NEW a, Line(ws, ps, c, a), NEW i \in 1..(Len(ws) - 1), ws[i] = "-i",
         ~IsFlag(ws[i + 1]), Right(ws, ps, c, a, i + 2)
  PROVE  Right(ws, ps, c, a, i)
<1>1. ws \in Seq(STRING) /\ Len(ws) \in Nat
  BY LineIs, Zenon
<1>2. /\ i \in 1..Len(ws) /\ i + 1 \in 1..Len(ws) /\ i \in 0..(Len(ws) - 1) /\ i + 1 \in 0..Len(ws)
      /\ (i + 1) + 1 = i + 2 /\ i < Len(ws)
  BY <1>1
<1>3. IsFlag(ws[i]) /\ IsListFlag(ws[i]) /\ ws[i] \notin {"-help", "-h"} /\ ws[i] \notin {"-r", "-N"} /\ ws[i] # "-if"
  BY DEF IsFlag, Flags, IsListFlag
<1>4. ps[i] = "-i" /\ "-i" \in Valued /\ "-i" \in Words
  <2>1. ws[i] \notin {"-help", "-h"} => ps[i] = ws[i]
    BY <1>2, LineIs
  <2> QED
    BY <1>3, <2>1, WordsThere, Zenon DEF Valued
<1>5. DefaultFor(ps, i) = <<>>
  BY <1>2, <1>3, DefaultIs, Zenon
<1>6. Bare(ps, c, i)
  BY <1>2, <1>3, <1>5, WordAlone, Zenon
<1>7. WordNext(ws, c, i) /\ c[i + 2] \in Seq(Words) /\ ws[i + 1] \in Words
  BY <1>3, NextWord, Zenon
<1>8. Parsed(c[i]) = <<<<"-i", ws[i + 1]>>>> \o Parsed(c[i + 2])
  <2>1. Parsed(<<ps[i]>> \o (<<ws[i + 1]>> \o c[i + 2])) = <<<<ps[i], ws[i + 1]>>>> \o Parsed(c[i + 2])
    BY <1>4, <1>6, <1>7, ParsedValued, Zenon
  <2>2. c[i] = <<ps[i]>> \o (<<ws[i + 1]>> \o c[i + 2])
    BY <1>6, <1>7, Zenon DEF Bare, WordNext
  <2> QED
    BY <1>4, <2>1, <2>2, Zenon
<1> DEFINE k == i + 1
<1>9. k \in 1..Len(ws) /\ k \in 0..Len(ws) /\ k + 1 = i + 2 /\ Right(ws, ps, c, a, k + 1) /\ ~IsFlag(ws[k])
  BY <1>2
<1>10. NextFlag(ws, i) = NextFlag(ws, k) /\ Files(ws, i) = <<<<"-i", ws[k]>>>> \o Files(ws, k)
  BY <1>1, <1>2, NextFlagLater, FilesMore
<1>11. Listed(ps, k)
  BY <1>2, <1>3, ListedNext, Zenon
<1>12. <<"-i", ws[k]>> \in Pairs
  BY <1>4, <1>7, Zenon DEF Pairs
<1>13. Parsed(c[i]) = <<<<"-i", ws[k]>>>> \o Parsed(c[k + 1])
  BY <1>8, <1>9
<1> HIDE DEF k
<1>14. Parsed(c[k + 1]) = Files(ws, k) \o a[NextFlag(ws, k)]
  <2>1. Listed(ps, k + 1)
    BY <1>9, <1>11, ListedNext, Zenon
  <2>2. ws[k] # "-i"
    BY <1>9 DEF IsFlag, Flags
  <2> QED
    <3>1. Ahead(ws, c, a, k)
      BY <1>9, <2>1, <2>2, BetweenAfter, Zenon
    <3> QED
      BY <3>1, Zenon DEF Ahead
<1>15. Files(ws, k) \in Seq(Pairs) /\ a[NextFlag(ws, k)] \in Seq(Pairs)
  BY <1>9, After, Zenon
<1>16. (<<<<"-i", ws[k]>>>> \o Files(ws, k)) \o a[NextFlag(ws, k)]
         = <<<<"-i", ws[k]>>>> \o (Files(ws, k) \o a[NextFlag(ws, k)])
  BY <1>12, <1>15, PairFirst
<1>17. FlagMeant(ws, i) = Files(ws, i)
  BY FlagMeantIs, Zenon
<1>18. Parsed(c[i]) = FlagMeant(ws, i) \o a[NextFlag(ws, i)]
  BY <1>10, <1>13, <1>14, <1>16, <1>17, Zenon
<1> QED
  BY <1>2, <1>3, <1>18, RightOfFlag, Zenon

LEMMA RightEnd ==
  ASSUME NEW ws, NEW ps, NEW c, NEW a, Line(ws, ps, c, a)
  PROVE  Right(ws, ps, c, a, Len(ws) + 1)
<1> DEFINE n == Len(ws)
<1>1. ws \in Seq(STRING) /\ n \in Nat /\ c[n + 1] = <<>> /\ a[n + 1] = <<>>
  BY LineIs
<1>2. n \in 0..n /\ (n + 1) - 1 = n /\ (n + 1 \in 1..n => IsFlag(ws[n + 1]))
  BY <1>1
<1>3. NextFlag(ws, n) = n + 1 /\ Files(ws, n) = <<>>
  BY <1>1, <1>2, NextFlagHere, Zenon
<1>4. <<>> \o a[NextFlag(ws, n)] = a[NextFlag(ws, n)]
  BY <1>2, After, Zenon
<1>5. Parsed(c[n + 1]) = Files(ws, n) \o a[NextFlag(ws, n)]
  BY <1>1, <1>3, <1>4, ParsedNothing, Zenon
<1> QED
  BY <1>2, <1>5 DEF Right

LEMMA RightStep ==
  ASSUME NEW ws, NEW ps, NEW c, NEW a, Line(ws, ps, c, a), NEW i \in 1..Len(ws),
         \A j \in (i + 1)..(Len(ws) + 1) : Right(ws, ps, c, a, j)
  PROVE  Right(ws, ps, c, a, i)
<1>1. ws \in Seq(STRING) /\ Len(ws) \in Nat /\ WellFormed(ws)
  BY LineIs, Zenon DEF Line
<1>2. Right(ws, ps, c, a, i + 1)
  <2>1. i + 1 \in (i + 1)..(Len(ws) + 1)
    BY <1>1
  <2> QED
    BY <2>1
<1>3. i < Len(ws) => Right(ws, ps, c, a, i + 2) /\ i \in 1..(Len(ws) - 1)
  <2>1. i < Len(ws) => i + 2 \in (i + 1)..(Len(ws) + 1) /\ i \in 1..(Len(ws) - 1)
    BY <1>1
  <2> QED
    BY <2>1, Zenon
<1>4. i + 1 \in 1..Len(ws) <=> i < Len(ws)
  BY <1>1
<1>5. CASE ~IsFlag(ws[i])
  BY <1>2, <1>5, RightInList, Zenon
<1>6. CASE ws[i] = "-if"
  BY <1>2, <1>6, RightAttached, Zenon
<1>7. CASE ws[i] = "-i"
  <2>1. i < Len(ws) /\ ~IsFlag(ws[i + 1])
    BY <1>1, <1>7, Zenon DEF WellFormed
  <2> QED
    BY <1>3, <1>7, <2>1, RightList, Zenon
<1>8. CASE IsFlag(ws[i]) /\ ~IsListFlag(ws[i])
  <2>1. CASE i < Len(ws) /\ ~IsFlag(ws[i + 1])
    BY <1>3, <1>8, <2>1, RightValue, Zenon
  <2>2. CASE ~(i < Len(ws) /\ ~IsFlag(ws[i + 1]))
    <3>1. i + 1 \in 1..Len(ws) => IsFlag(ws[i + 1])
      BY <1>4, <2>2
    <3>2. ws[i] # "-Q"
      BY <1>1, <2>2, Zenon DEF WellFormed
    <3>3. CASE ws[i] \in {"-r", "-N"}
      BY <1>2, <3>1, <3>3, RightDefault, Zenon
    <3>4. CASE ws[i] \notin {"-r", "-N"}
      <4>1. ws[i] \notin {"-r", "-N", "-Q"}
        BY <3>2, <3>4
      <4> QED
        BY <1>2, <1>8, <3>1, <4>1, RightAlone, Zenon
    <3> QED
      BY <3>3, <3>4
  <2> QED
    BY <2>1, <2>2
<1> QED
  BY <1>5, <1>6, <1>7, <1>8, Zenon DEF IsListFlag

(* What pflag reads is what the line means.                                *)
LEMMA FlagsMeant ==
  ASSUME NEW ws \in Seq(STRING), WellFormed(ws)
  PROVE  Parsed(ConvertOsArgs(ws)) = Meant(ws)
<1> DEFINE ps == PreprocessHelpFlags(ws)
           n == Len(ws)
<1>1. ps \in Seq(Words)
  BY Prepared, Zenon
<1>2. PICK c : ConvBy(ps, c) /\ ConvertOsArgs(ws) = c[1]
  BY <1>1, WordsAre, Zenon
<1>3. PICK a : AllBy(ws, a) /\ Meant(ws) = a[1]
  BY MeantIs, Zenon
<1>4. Line(ws, ps, c, a)
  BY <1>2, <1>3, Zenon DEF Line
<1> HIDE DEF ps
<1>5. n \in Nat
  OBVIOUS
<1> DEFINE S == {i \in 1..(n + 1) : Right(ws, ps, c, a, i)}
<1>6. n + 1 \in S
  <2>1. Right(ws, ps, c, a, n + 1)
    BY <1>4, RightEnd, Zenon
  <2> QED
    BY <1>5, <2>1
<1>7. ASSUME NEW i \in 1..n, \A j \in (i + 1)..(n + 1) : j \in S
      PROVE  i \in S
  <2>1. \A j \in (i + 1)..(n + 1) : Right(ws, ps, c, a, j)
    BY <1>7, Zenon
  <2>2. Right(ws, ps, c, a, i)
    BY <1>4, <2>1, RightStep, Zenon
  <2>3. i \in 1..(n + 1)
    BY <1>5
  <2> QED
    BY <2>2, <2>3
<1> HIDE DEF S
<1>8. \A i \in 1..(n + 1) : i \in S
  BY <1>5, <1>6, <1>7, Back
<1>9. Right(ws, ps, c, a, 1)
  <2>1. 1 \in 1..(n + 1)
    BY <1>5
  <2> QED
    BY <1>8, <2>1 DEF S
<1>10. 1 \in 1..n => IsFlag(ws[1])
  <2> SUFFICES ASSUME 1 \in 1..n, ~IsFlag(ws[1]) PROVE FALSE
    OBVIOUS
  <2>1. \E j \in 1..(1 - 1) : TRUE
    BY Zenon DEF WellFormed
  <2> QED
    BY <2>1
<1>11. 0 \in 0..n /\ 0 + 1 = 1 /\ 1 - 1 = 0
  BY <1>5
<1>12. NextFlag(ws, 0) = 1 /\ Files(ws, 0) = <<>>
  <2>1. 0 + 1 \in 1..n => IsFlag(ws[0 + 1])
    BY <1>10, <1>11
  <2>2. NextFlag(ws, 0) = 0 + 1 /\ Files(ws, 0) = <<>>
    BY <1>11, <2>1, NextFlagHere
  <2> QED
    BY <1>11, <2>2
<1>13. Parsed(c[1]) = <<>> \o a[1]
  BY <1>9, <1>11, <1>12 DEF Right, Between
<1>14. <<>> \o a[1] = a[1]
  <2>1. <<>> \o a[NextFlag(ws, 0)] = a[NextFlag(ws, 0)]
    BY <1>4, <1>11, After, Zenon
  <2> QED
    BY <1>12, <2>1, Zenon
<1> QED
  BY <1>2, <1>3, <1>13, <1>14, Zenon

WordsRead ==
  /\ step \in {"words", "parsed words"} => line \in CommandLines
  /\ step = "parsed words" => flags = Parsed(ConvertOsArgs(line))

LEMMA WordsStep == ASSUME WordsRead, [LNext]_lvars PROVE WordsRead'
<1>1. CASE ReadWords
  BY <1>1, Zenon DEF WordsRead, ReadWords
<1>2. CASE InitializeEnvVars \/ Validate \/ SetUp
  <2>1. step' \notin {"words", "parsed words"}
    BY <1>2 DEF InitializeEnvVars, Validate, SetUp
  <2> QED
    BY <2>1 DEF WordsRead
<1>3. CASE UNCHANGED lvars
  BY <1>3, Zenon DEF WordsRead, lvars
<1> QED
  BY <1>1, <1>2, <1>3, Zenon DEF LNext

(* A line whose words are where sqlcmd's own syntax has them is parsed to  *)
(* the flags that it means, for every line (ConvertOsArgs, Parsed).        *)
THEOREM ArgumentsKept == LSpec => []ArgumentsMeant
<1>1. LInit => WordsRead
  BY DEF LInit, WordsRead
<1>2. WordsRead /\ [LNext]_lvars => WordsRead'
  BY WordsStep
<1>3. WordsRead => ArgumentsMeant
  <2> SUFFICES ASSUME WordsRead, step = "parsed words", WellFormed(line) PROVE flags = Meant(line)
    BY Zenon DEF ArgumentsMeant
  <2>1. line \in Seq(STRING) /\ flags = Parsed(ConvertOsArgs(line))
    BY LinesAssumption, Zenon DEF WordsRead
  <2> QED
    BY <2>1, FlagsMeant, Zenon
<1> QED
  BY <1>1, <1>2, <1>3, PTL DEF LSpec

-----------------------------------------------------------------------------
(* :out and :error each open a file of their own: a handle is of one       *)
(* writer, so to close the other's takes nothing from it.                  *)
Apart == out = err => out \notin Handles

(* What the writers are.                                                   *)
WType == {out, err} \subseteq Handles \cup Standard \cup {"none"} /\ opened \subseteq Handles \cup Standard

WInv == WType /\ WritersOpen /\ Apart

(* A new file for either writer, or a stream.                              *)
LEMMA OutKeeps == ASSUME WInv, OutCommand PROVE WInv'
<1>1. CASE out' \in Standard /\ opened' = opened \ Closes(out) /\ encoders' = encoders
  BY <1>1, HandlesAssumption DEF WInv, WType, WritersOpen, Apart, OutCommand, Closes, Standard
<1>2. CASE \E h \in Handles \ opened :
              /\ out' = h
              /\ opened' = (opened \ Closes(out)) \cup {h}
              /\ encoders' = IF encoded THEN encoders \cup {h} ELSE encoders \ {h}
  BY <1>2, HandlesAssumption DEF WInv, WType, WritersOpen, Apart, OutCommand, Closes, Standard
<1>3. QED
  BY <1>1, <1>2 DEF OutCommand

LEMMA ErrorKeeps == ASSUME WInv, ErrorCommand PROVE WInv'
<1>1. CASE err' \in Standard /\ opened' = opened \ Closes(err) /\ encoders' = encoders
  BY <1>1, HandlesAssumption DEF WInv, WType, WritersOpen, Apart, ErrorCommand, Closes, Standard
<1>2. CASE \E h \in Handles \ opened :
              /\ err' = h
              /\ opened' = (opened \ Closes(err)) \cup {h}
              /\ encoders' = encoders \ {h}
  BY <1>2, HandlesAssumption DEF WInv, WType, WritersOpen, Apart, ErrorCommand, Closes, Standard
<1>3. QED
  BY <1>1, <1>2 DEF ErrorCommand

(* The inductive step.                                                     *)
LEMMA WritersStep == ASSUME WInv, [WNext]_wvars PROVE WInv'
<1>1. CASE OutCommand
  BY <1>1, OutKeeps
<1>2. CASE ErrorCommand
  BY <1>2, ErrorKeeps
<1>3. CASE WriteError
  BY <1>3 DEF WInv, WType, WritersOpen, Apart, WriteError
<1>4. CASE EndWriters
  BY <1>4, HandlesAssumption DEF WInv, WType, WritersOpen, Apart, EndWriters, Closes, Standard
<1>5. CASE UNCHANGED wvars
  BY <1>5 DEF WInv, WType, WritersOpen, Apart, wvars
<1>6. QED
  BY <1>1, <1>2, <1>3, <1>4, <1>5 DEF WNext

(* No writer in use is a closed file, and no file is left open but behind  *)
(* an encoder, whatever the handles.                                       *)
THEOREM WritersStayOpen == WSpec => []WritersOpen
<1>1. WInit => WInv
  BY HandlesAssumption DEF WInit, WInv, WType, WritersOpen, Apart, Standard
<1>2. WInv => WritersOpen
  BY DEF WInv
<1>3. QED
  BY <1>1, <1>2, WritersStep, PTL DEF WSpec

-----------------------------------------------------------------------------
(* Where connections go.                                                   *)

Target == SplitServer(name)

(* Ports the driver may dial before a redirect.                            *)
FirstPort(p) ==
  IF ConfigPort(login) > 0 THEN p = ConfigPort(login)
  ELSE login.instance # "" \/ p = DefaultPort

(* The driver's requests: of the browser or the server, of a redirect.     *)
FirstRequest ==
  /\ request.network \in {"tcp", "udp"} /\ request.host = ConfigHost(login)
  /\ request.network = "tcp" => FirstPort(request.port)
RoutedRequest ==
  request.network = "tcp" /\ request.host = routed.host /\ request.port = routed.port

(* What a connection is made from.                                         *)
Settled ==
  /\ name \in ServerNames
  /\ override = None \/ override \in Overrides
  /\ exclusions \subseteq UNION Exclusions

(* The login of a connector that was made.                                 *)
Made ==
  /\ login = ProxiedConnector /\ login # NotAServer
  /\ dialer = Configure(login)

(* The last connection is one that was asked for.                          *)
LastMade ==
  \/ last.network = "pipe" /\ ~proxy
  \/ last = Dialed(request) /\ request.network \in {"tcp", "udp"} /\ request.host \in Hosts

(* The inductive invariant.                                                *)
CInv ==
  /\ Settled
  /\ stage \in {"start", "refused"} => last = None
  /\ stage \notin {"start", "refused"} => Made
  /\ stage \in {"start", "refused", "browse", "pipe"} => routed = None
  /\ stage = "pipe" => ~proxy
  /\ routed # None => routed \in Routes
  /\ last # None => LastMade
  /\ last # None /\ routed = None /\ last.network # "pipe" => FirstRequest
  /\ routed # None /\ stage \in {"open", "failed"} => RoutedRequest /\ last = Dialed(request)

-----------------------------------------------------------------------------
(* One label is a host, and hosts are put together to hosts.               *)
LEMMA LabelsMakeHosts ==
  /\ \A a \in Labels : <<a>> \in Hosts
  /\ \A s, t \in Hosts : s \o t \in Hosts
<1>1. ASSUME NEW S, NEW a \in S PROVE <<a>> \in Seq(S)
  OBVIOUS
<1>2. ASSUME NEW S, NEW s \in Seq(S), NEW t \in Seq(S) PROVE s \o t \in Seq(S)
  OBVIOUS
<1>3. \A a \in Labels : <<a>> \in Hosts
  BY <1>1, Zenon DEF Hosts
<1>4. \A s, t \in Hosts : s \o t \in Hosts
  BY <1>2, Zenon DEF Hosts
<1>5. QED
  BY <1>3, <1>4

LEMMA LocalHosts == <<".">> \in Hosts /\ <<"localhost">> \in Hosts
<1>1. "." \in Labels /\ "localhost" \in Labels
  BY NamesAssumption, Zenon
<1>2. QED
  BY <1>1, LabelsMakeHosts, Zenon

(* The parts of what splitServer returns.                                  *)
LEMMA PartsOfSplit ==
  ASSUME NEW h, NEW i, NEW p, NEW q
  PROVE  /\ Split(h, i, p, q).host = h /\ Split(h, i, p, q).instance = i
         /\ Split(h, i, p, q).port = p /\ Split(h, i, p, q).protocol = q
         /\ Split(h, i, p, q) # NotAServer
<1>1. Split(h, i, p, q).ok = TRUE /\ NotAServer.ok = FALSE
  BY DEF Split, NotAServer
<1>2. Split(h, i, p, q) # NotAServer
  BY <1>1, Zenon
<1>3. QED
  BY <1>2 DEF Split

LEMMA NotAServerNotOk == ~NotAServer.ok
BY DEF NotAServer

(* A name that can be split has a host, of labels.                         *)
ServerFound(s) == s.host \in Hosts /\ s.port \in Int

LEMMA ServersFound ==
  ASSUME NEW h \in Hosts, NEW i, NEW p \in Int, NEW q
  PROVE  ServerFound(Split(h, i, p, q))
BY PartsOfSplit DEF ServerFound

LEMMA SplitHosts ==
  ASSUME NEW n \in ServerNames \cup Overrides, SplitServer(n) # NotAServer
  PROVE  ServerFound(SplitServer(n))
<1>1. n.host \in Hosts /\ n.instance \in Labels /\ n.port \in Int
  BY NamesAssumption, Zenon
<1> DEFINE one == <<n.instance>>
           host == IF n.host = <<>> /\ n.protocol # "" THEN <<".">> ELSE n.host
           long == host \o one
           none == 0
<1>2. one \in Hosts
  BY <1>1, LabelsMakeHosts, Zenon
<1>3. host \in Hosts
  BY <1>1, LocalHosts, Zenon
<1>4. long \in Hosts
  <2> HIDE DEF one, host
  <2> QED BY <1>2, <1>3, LabelsMakeHosts, Zenon
<1>5. \/ SplitServer(n) = NotAServer
      \/ SplitServer(n) = Split(n.host, "", none, "np")
      \/ SplitServer(n) = Split(long, "", n.port, n.protocol)
      \/ SplitServer(n) = Split(host, n.instance, n.port, n.protocol)
  BY Zenon DEF SplitServer
<1>6. none \in Int
  OBVIOUS
<1> HIDE DEF one, host, long, none
<1>7. /\ ServerFound(Split(n.host, "", none, "np"))
      /\ ServerFound(Split(long, "", n.port, n.protocol))
      /\ ServerFound(Split(host, n.instance, n.port, n.protocol))
  BY <1>1, <1>3, <1>4, <1>6, ServersFound, Zenon
<1>8. QED
  BY <1>5, <1>7, Zenon

LEMMA OrLocalHosts == ASSUME NEW h \in Hosts PROVE OrLocal(h) \in Hosts
BY LocalHosts, Zenon DEF OrLocal

(* The name logged in to is one of the names, the port that of -S.         *)
LoginFound(c) ==
  /\ ServerFound(Target) /\ ServerFound(c)
  /\ c.port = Target.port
  /\ ~UsesOverride => c.host = OrLocal(Target.host)

LEMMA LoginsFound ==
  ASSUME ServerFound(Target), NEW h \in Hosts, NEW i, NEW p,
         ~UsesOverride => h = OrLocal(Target.host)
  PROVE  LoginFound(Split(h, i, Target.port, p))
<1>1. Target.port \in Int
  BY Zenon DEF ServerFound
<1>2. QED
  BY <1>1, ServersFound, PartsOfSplit DEF LoginFound

LEMMA Connections ==
  ASSUME Settled, ConnectionString # NotAServer
  PROVE  LoginFound(ConnectionString)
<1> DEFINE o == SplitServer(override)
           p == IF admin THEN "admin" ELSE Target.protocol
           i == IF o.instance # "" THEN o.instance ELSE Target.instance
<1>1. Target.ok /\ (UsesOverride => o.ok)
  BY Zenon DEF ConnectionString, Target
<1>2. Target # NotAServer /\ (UsesOverride => o # NotAServer)
  BY <1>1, NotAServerNotOk, Zenon
<1>3. ServerFound(Target)
  BY <1>2, SplitHosts, Zenon DEF Settled, Target
<1>4. UsesOverride => ServerFound(o)
  BY <1>2, SplitHosts, Zenon DEF Settled, UsesOverride
<1>5. CASE ~UsesOverride
  <2>1. ConnectionString = Split(OrLocal(Target.host), Target.instance, Target.port, p)
    BY <1>1, <1>5, Zenon DEF ConnectionString, Target
  <2>2. OrLocal(Target.host) \in Hosts
    BY <1>3, OrLocalHosts, Zenon DEF ServerFound
  <2> HIDE DEF p
  <2>3. QED
    BY <1>3, <1>5, <2>1, <2>2, LoginsFound, Zenon
<1>6. CASE UsesOverride
  <2>1. ConnectionString = Split(OrLocal(o.host), i, Target.port, p)
    BY <1>1, <1>6, Zenon DEF ConnectionString, Target
  <2>2. OrLocal(o.host) \in Hosts
    BY <1>4, <1>6, OrLocalHosts, Zenon DEF ServerFound
  <2> HIDE DEF o, p, i
  <2>3. QED
    BY <1>3, <1>6, <2>1, <2>2, LoginsFound, Zenon
<1>7. QED
  BY <1>5, <1>6, Zenon

(* With a proxy the protocol is TCP.                                       *)
LEMMA Connectors ==
  ASSUME Settled, ProxiedConnector # NotAServer
  PROVE  /\ LoginFound(ProxiedConnector)
         /\ proxy => ProxiedConnector.protocol = "tcp"
<1> DEFINE c == ConnectionString
<1>1. c # NotAServer
  BY NotAServerNotOk, Zenon DEF ProxiedConnector
<1>2. LoginFound(c)
  BY <1>1, Connections, Zenon
<1>3. ProxiedConnector = IF proxy THEN Split(c.host, c.instance, c.port, "tcp") ELSE c
  BY Zenon DEF ProxiedConnector
<1>4. CASE proxy
  <2>1. /\ c.host \in Hosts /\ c.port = Target.port /\ ServerFound(Target)
        /\ ~UsesOverride => c.host = OrLocal(Target.host)
    BY <1>2, Zenon DEF LoginFound, ServerFound
  <2> HIDE DEF c
  <2>2. ProxiedConnector = Split(c.host, c.instance, Target.port, "tcp")
    BY <1>3, <1>4, <2>1, Zenon
  <2>3. QED
    <3>1. LoginFound(ProxiedConnector)
      BY <2>1, <2>2, LoginsFound, Zenon
    <3>2. ProxiedConnector.protocol = "tcp"
      BY <2>2, PartsOfSplit
    <3>3. QED
      BY <3>1, <3>2
<1>5. CASE ~proxy
  BY <1>2, <1>3, <1>5, Zenon
<1>6. QED
  BY <1>4, <1>5, Zenon

-----------------------------------------------------------------------------
(* Being below a domain is ending in it without being it.                  *)
LEMMA BelowIsSuffix ==
  ASSUME NEW S, NEW d \in Seq(S), NEW h \in Seq(S)
  PROVE  Below(d, h) <=> h # d /\ Suffix(d, h)
<1>1. ASSUME NEW k \in 1..Len(h), SubSeq(h, k + 1, Len(h)) = d
      PROVE  h # d /\ Suffix(d, h)
  <2>1. Len(d) = Len(h) - k
    BY <1>1
  <2>2. Len(h) - Len(d) + 1 = k + 1 /\ Len(d) <= Len(h) /\ Len(d) # Len(h)
    BY <2>1
  <2>3. QED
    BY <1>1, <2>2 DEF Suffix
<1>2. ASSUME h # d, Suffix(d, h)
      PROVE  Below(d, h)
  <2>1. Len(d) <= Len(h) /\ SubSeq(h, Len(h) - Len(d) + 1, Len(h)) = d
    BY <1>2 DEF Suffix
  <2>2. Len(d) # Len(h)
    <3>1. SUFFICES ASSUME Len(d) = Len(h) PROVE FALSE
      OBVIOUS
    <3>2. SubSeq(h, 1, Len(h)) = d
      BY <2>1, <3>1
    <3>3. SubSeq(h, 1, Len(h)) = h
      OBVIOUS
    <3>4. QED
      BY <1>2, <3>2, <3>3
  <2>3. Len(h) - Len(d) \in 1..Len(h)
    BY <2>1, <2>2
  <2>4. QED
    BY <2>1, <2>3 DEF Below
<1>3. QED
  BY <1>1, <1>2 DEF Below

(* A host of one label is below the empty domain only.                     *)
LEMMA AddressesBelowNothing ==
  ASSUME NEW S, NEW d, NEW h \in Seq(S), Len(h) = 1, Below(d, h)
  PROVE  d = <<>>
<1>1. PICK k \in 1..Len(h) : SubSeq(h, k + 1, Len(h)) = d
  BY DEF Below
<1>2. k = 1
  BY <1>1
<1>3. SubSeq(h, 2, 1) = d
  BY <1>1, <1>2
<1>4. SubSeq(h, 2, 1) = <<>>
  OBVIOUS
<1>5. QED
  BY <1>3, <1>4

(* Entries match what the documentation says they exclude.                 *)
LEMMA MatchedIsExcluded ==
  ASSUME NEW e \in UNION Exclusions, NEW h \in Hosts, NEW p
  PROVE  Matches(e, h, p) <=> Excluded(e, h, p)
<1>1. /\ e.kind \in {"any", "range", "ip", "domain", "sub"} /\ e.hosts \subseteq Hosts
      /\ e.kind \in {"domain", "sub"} => e.hosts \cap (IPs \cup {<<>>}) = {}
      /\ h \in IPs => Len(h) = 1
  BY ExclusionsAssumption, Zenon
<1>2. \A d \in e.hosts : Below(d, h) <=> h # d /\ Suffix(d, h)
  <2>1. \A d \in Hosts : Below(d, h) <=> h # d /\ Suffix(d, h)
    BY BelowIsSuffix, Zenon DEF Hosts
  <2>2. QED
    BY <1>1, <2>1, Zenon
<1>3. ASSUME NEW d \in e.hosts, Below(d, h), h \in IPs
      PROVE  d = <<>>
  <2>1. Len(h) = 1
    BY <1>1, <1>3, Zenon
  <2>2. QED
    BY <1>3, <2>1, AddressesBelowNothing, Zenon DEF Hosts
<1>4. CASE e.kind = "any"
  BY <1>4 DEF Matches, Excluded
<1>5. CASE e.kind = "range" \/ e.kind = "ip"
  BY <1>5 DEF Matches, Excluded
<1>6. CASE e.kind = "domain"
  <2>1. e.hosts \cap (IPs \cup {<<>>}) = {}
    BY <1>1, <1>6
  <2>2. (h \notin IPs /\ \E d \in e.hosts : h = d \/ Suffix(d, h))
          <=> (h \in e.hosts \/ \E d \in e.hosts : Below(d, h))
    BY <1>2, <1>3, <2>1, Zenon
  <2>3. QED
    BY <1>6, <2>2 DEF Matches, Excluded
<1>7. CASE e.kind = "sub"
  <2>1. e.hosts \cap (IPs \cup {<<>>}) = {}
    BY <1>1, <1>7
  <2>2. (h \notin IPs /\ \E d \in e.hosts : h # d /\ Suffix(d, h))
          <=> (\E d \in e.hosts : Below(d, h))
    BY <1>2, <1>3, <2>1, Zenon
  <2>3. QED
    BY <1>7, <2>2 DEF Matches, Excluded
<1>8. QED
  BY <1>1, <1>4, <1>5, <1>6, <1>7

-----------------------------------------------------------------------------
(* A dialer is the driver's own, or one of this program.                   *)
LEMMA Configured ==
  ASSUME NEW c, LoginFound(c)
  PROVE  /\ Configure(c) = None <=> ~proxy /\ ~UsesOverride
         /\ ConfigHost(c) \in Hosts /\ OrLocal(Target.host) \in Hosts
         /\ Target.port \in Int
<1>1. c.host \in Hosts /\ c.port \in Int /\ Target.host \in Hosts /\ Target.port \in Int
  BY Zenon DEF LoginFound, ServerFound
<1>2. ConfigHost(c) \in Hosts /\ OrLocal(Target.host) \in Hosts
  BY <1>1, LocalHosts, OrLocalHosts, Zenon DEF ConfigHost
<1>3. ConfigPort(c) \in Int
  BY <1>1 DEF ConfigPort, BrowserPort
<1> DEFINE h == ConfigHost(c)
           p == IF ConfigPort(c) > 0 THEN ConfigPort(c)
                ELSE IF c.instance = "" THEN DefaultPort ELSE 0
           th == IF UsesOverride THEN OrLocal(Target.host) ELSE None
           tp == IF UsesOverride THEN Target.port ELSE 0
           D == [serverName : Hosts, serverPort : Int, targetHost : Hosts \cup {None},
                 targetPort : Int]
<1>4. p \in Int /\ tp \in Int
  BY <1>1, <1>3 DEF DefaultPort
<1>5. h \in Hosts /\ th \in Hosts \cup {None}
  BY <1>2, Zenon
<1>6. Configure(c) = IF ~proxy /\ ~UsesOverride THEN None
                     ELSE [serverName |-> h, serverPort |-> p, targetHost |-> th, targetPort |-> tp]
  BY Zenon DEF Configure, Target
<1> HIDE DEF h, p, th, tp
<1>7. [serverName |-> h, serverPort |-> p, targetHost |-> th, targetPort |-> tp] \in D
  BY <1>4, <1>5
<1>8. None \notin D
  BY NoneAssumption, Zenon
<1>9. QED
  BY <1>1, <1>2, <1>6, <1>7, <1>8, Zenon DEF h

(* What the dialer of a connector holds.                                   *)
LEMMA DialerHolds ==
  ASSUME NEW c, proxy \/ UsesOverride
  PROVE  /\ Configure(c).serverName = ConfigHost(c)
         /\ Configure(c).serverPort = IF ConfigPort(c) > 0 THEN ConfigPort(c)
                                      ELSE IF c.instance = "" THEN DefaultPort ELSE 0
         /\ Configure(c).targetHost = IF UsesOverride THEN OrLocal(Target.host) ELSE None
         /\ Configure(c).targetPort = IF UsesOverride THEN Target.port ELSE 0
<1> DEFINE p == IF ConfigPort(c) > 0 THEN ConfigPort(c)
                ELSE IF c.instance = "" THEN DefaultPort ELSE 0
           th == IF UsesOverride THEN OrLocal(Target.host) ELSE None
           tp == IF UsesOverride THEN Target.port ELSE 0
<1>1. Configure(c) = [serverName |-> ConfigHost(c), serverPort |-> p, targetHost |-> th,
                      targetPort |-> tp]
  BY Zenon DEF Configure, Target
<1> HIDE DEF p, th, tp
<1>2. /\ Configure(c).serverName = ConfigHost(c) /\ Configure(c).serverPort = p
      /\ Configure(c).targetHost = th /\ Configure(c).targetPort = tp
  BY <1>1
<1>3. QED
  BY <1>2, Zenon DEF p, th, tp

(* The address that is dialed keeps the network; it is the one asked for,  *)
(* or the target.                                                          *)
LEMMA AddressDialed ==
  ASSUME NEW d, NEW r
  PROVE  /\ \/ DialAddress(d, r).host = r.host
            \/ d.targetHost # None /\ DialAddress(d, r).host = d.targetHost
         /\ (\/ r.host # d.serverName
             \/ r.network = "tcp" /\ d.serverPort # 0 /\ r.port # d.serverPort)
            => DialAddress(d, r) = r
         /\ r.host = d.serverName
              /\ (r.network = "tcp" => d.serverPort = 0 \/ r.port = d.serverPort)
            => /\ DialAddress(d, r).host = IF d.targetHost # None THEN d.targetHost ELSE r.host
               /\ DialAddress(d, r).port =
                    IF d.targetPort # 0 /\ r.network = "tcp" THEN d.targetPort ELSE r.port
<1> DEFINE h == IF d.targetHost # None THEN d.targetHost ELSE r.host
           p == IF d.targetPort # 0 /\ r.network = "tcp" THEN d.targetPort ELSE r.port
           a == [network |-> r.network, host |-> h, port |-> p]
<1>1. DialAddress(d, r) =
        IF r.host # d.serverName \/ (r.network = "tcp" /\ d.serverPort # 0 /\ r.port # d.serverPort)
        THEN r ELSE a
  BY Zenon DEF DialAddress
<1>2. a.host = h /\ a.port = p
  <2> HIDE DEF h, p
  <2> QED OBVIOUS
<1> HIDE DEF a
<1>3. QED
  BY <1>1, <1>2, Zenon

(* The way the connection takes.                                           *)
LEMMA ViaOf ==
  ASSUME NEW r, dialer # None
  PROVE  /\ Dialed(r).host = DialAddress(dialer, r).host
         /\ Dialed(r).port = DialAddress(dialer, r).port
         /\ Dialed(r).network = DialAddress(dialer, r).network
         /\ proxy /\ Dialed(r).via = "direct" =>
              \E e \in exclusions : Matches(e, Dialed(r).host, Dialed(r).port)
         /\ proxy /\ Dialed(r).via = "proxy" =>
              \A e \in exclusions : ~Matches(e, Dialed(r).host, Dialed(r).port)
<1> DEFINE a == DialAddress(dialer, r)
           x == \E e \in exclusions : Matches(e, a.host, a.port)
           u == IF ~proxy \/ x THEN "direct" ELSE IF a.network = "tcp" THEN "proxy" ELSE "none"
<1>1. Dialed(r) = [network |-> a.network, host |-> a.host, port |-> a.port, via |-> u]
  BY Zenon DEF Dialed, Transport
<1>2. (proxy /\ u = "direct" => x) /\ (proxy /\ u = "proxy" => ~x)
  <2> HIDE DEF x, a
  <2> QED OBVIOUS
<1> HIDE DEF a, u
<1>3. /\ Dialed(r).network = a.network /\ Dialed(r).host = a.host /\ Dialed(r).port = a.port
      /\ Dialed(r).via = u
  BY <1>1
<1>4. QED
  BY <1>2, <1>3, Zenon DEF a

-----------------------------------------------------------------------------
(* The dialer of a connector that was made.                                *)
LEMMA MadeDialer ==
  ASSUME Settled, Made
  PROVE  /\ LoginFound(login) /\ (proxy => login.protocol = "tcp")
         /\ dialer = Configure(login) /\ (dialer = None <=> ~proxy /\ ~UsesOverride)
         /\ ConfigHost(login) \in Hosts /\ OrLocal(Target.host) \in Hosts
         /\ Target.port \in Int
<1>1. LoginFound(login) /\ (proxy => login.protocol = "tcp")
  BY Connectors, Zenon DEF Made
<1>2. /\ Configure(login) = None <=> ~proxy /\ ~UsesOverride
      /\ ConfigHost(login) \in Hosts /\ OrLocal(Target.host) \in Hosts /\ Target.port \in Int
  BY <1>1, Configured, Zenon
<1>3. QED
  BY <1>1, <1>2, Zenon DEF Made

(* What is dialed is a host, and it goes around the proxy if it is         *)
(* excluded, and only then.                                                *)
LEMMA DialedHosts ==
  ASSUME Settled, Made, dialer # None, NEW r, r.host \in Hosts
  PROVE  Dialed(r).host \in Hosts
<1>1. proxy \/ UsesOverride
  BY MadeDialer, Zenon
<1>2. dialer.targetHost # None => dialer.targetHost \in Hosts
  <2>1. Configure(login).targetHost = IF UsesOverride THEN OrLocal(Target.host) ELSE None
    BY <1>1, DialerHolds, Zenon
  <2>2. QED
    BY <2>1, MadeDialer, Zenon
<1>3. \/ DialAddress(dialer, r).host = r.host
      \/ dialer.targetHost # None /\ DialAddress(dialer, r).host = dialer.targetHost
  BY AddressDialed, Zenon
<1>4. DialAddress(dialer, r).host \in Hosts
  BY <1>2, <1>3, Zenon
<1>5. Dialed(r).host = DialAddress(dialer, r).host
  BY ViaOf, Zenon
<1>6. QED
  BY <1>4, <1>5, Zenon

LEMMA InvProxyKept == CInv => ProxyKept
<1>1. SUFFICES ASSUME CInv, proxy, last # None
               PROVE  /\ last.via = "direct" => \E e \in exclusions : Excluded(e, last.host, last.port)
                      /\ last.via = "proxy"  => \A e \in exclusions : ~Excluded(e, last.host, last.port)
  BY Zenon DEF ProxyKept
<1>2. Settled /\ Made
  BY <1>1, Zenon DEF CInv
<1>3. dialer # None
  BY <1>1, <1>2, MadeDialer, Zenon
<1>4. last = Dialed(request) /\ request.host \in Hosts
  BY <1>1, Zenon DEF CInv, LastMade
<1>5. last.host \in Hosts
  BY <1>2, <1>3, <1>4, DialedHosts, Zenon
<1>6. \A e \in exclusions : Matches(e, last.host, last.port) <=> Excluded(e, last.host, last.port)
  BY <1>2, <1>5, MatchedIsExcluded, Zenon DEF Settled
<1> DEFINE l == Dialed(request)
<1>7. /\ l.via = "direct" => \E e \in exclusions : Matches(e, l.host, l.port)
      /\ l.via = "proxy" => \A e \in exclusions : ~Matches(e, l.host, l.port)
  BY <1>1, <1>3, ViaOf, Zenon
<1> HIDE DEF l
<1>8. last = l
  BY <1>4 DEF l
<1>9. QED
  BY <1>6, <1>7, <1>8, Zenon

(* The name that the driver makes of a host.                               *)
AtServer(h) ==
  h \in {OrLocal(Target.host)}
        \cup (IF OrLocal(Target.host) \in Local THEN {<<"localhost">>} ELSE {})

LEMMA LoginAtServer ==
  ASSUME NEW c, c.host = OrLocal(Target.host)
  PROVE  AtServer(ConfigHost(c))
BY Zenon DEF ConfigHost, AtServer

(* The ports the driver dials first are those the dialer expects; that of  *)
(* -S is one of them.                                                      *)
LEMMA FirstPorts ==
  ASSUME NEW p, FirstPort(p), login.port = Target.port, Target.port \in Int,
         NEW sp, sp = IF ConfigPort(login) > 0 THEN ConfigPort(login)
                      ELSE IF login.instance = "" THEN DefaultPort ELSE 0
  PROVE  /\ sp = 0 \/ p = sp
         /\ Target.port > 0 => p = Target.port
<1>1. CASE ConfigPort(login) > 0
  <2>1. p = ConfigPort(login) /\ sp = p
    BY <1>1, Zenon DEF FirstPort
  <2>2. Target.port > 0 => ConfigPort(login) = Target.port
    BY DEF ConfigPort
  <2>3. QED
    BY <2>1, <2>2
<1>2. CASE ~(ConfigPort(login) > 0)
  <2>1. sp = 0 \/ p = sp
    BY <1>2, Zenon DEF FirstPort
  <2>2. ~(Target.port > 0)
    BY <1>2 DEF ConfigPort
  <2>3. QED
    BY <2>1, <2>2
<1>3. QED
  BY <1>1, <1>2

LEMMA InvInitialDialAtServer == CInv => InitialDialAtServer
<1> DEFINE Goal == /\ AtServer(last.host)
                   /\ Target.port > 0 /\ last.network = "tcp" => last.port = Target.port
<1>1. SUFFICES ASSUME CInv, last # None, routed = None, last.network # "pipe"
               PROVE  Goal
  BY Zenon DEF InitialDialAtServer, AtServer, Target
<1>2. Settled /\ Made
  BY <1>1, Zenon DEF CInv
<1>3. last = Dialed(request) /\ FirstRequest
  BY <1>1, Zenon DEF CInv, LastMade
<1>4. /\ login.port = Target.port /\ Target.port \in Int
      /\ ~UsesOverride => login.host = OrLocal(Target.host)
  BY <1>2, MadeDialer, Zenon DEF LoginFound
<1>5. request.host = ConfigHost(login)
  BY <1>3, Zenon DEF FirstRequest
<1>6. CASE dialer = None
  <2>1. last = [network |-> request.network, host |-> request.host, port |-> request.port,
                via |-> "direct"]
    BY <1>3, <1>6, Zenon DEF Dialed
  <2>2. last.network = request.network /\ last.host = request.host /\ last.port = request.port
    BY <2>1
  <2>3. login.host = OrLocal(Target.host)
    BY <1>2, <1>4, <1>6, MadeDialer, Zenon
  <2>4. AtServer(last.host)
    BY <1>5, <2>2, <2>3, LoginAtServer, Zenon
  <2>5. ASSUME Target.port > 0, last.network = "tcp" PROVE last.port = Target.port
    <3>1. FirstPort(request.port)
      BY <1>3, <2>2, <2>5, Zenon DEF FirstRequest
    <3>2. request.port = Target.port
      BY <1>4, <2>5, <3>1, FirstPorts, Zenon
    <3>3. QED
      BY <2>2, <3>2, Zenon
  <2>6. QED
    BY <2>4, <2>5, Zenon
<1>7. CASE dialer # None
  <2> DEFINE a == DialAddress(dialer, request)
  <2>1. last.host = a.host /\ last.port = a.port /\ last.network = a.network
    BY <1>3, <1>7, ViaOf, Zenon
  <2>2. proxy \/ UsesOverride
    BY <1>2, <1>7, MadeDialer, Zenon
  <2>3. /\ dialer.serverName = ConfigHost(login)
        /\ dialer.serverPort = IF ConfigPort(login) > 0 THEN ConfigPort(login)
                               ELSE IF login.instance = "" THEN DefaultPort ELSE 0
        /\ dialer.targetHost = IF UsesOverride THEN OrLocal(Target.host) ELSE None
        /\ dialer.targetPort = IF UsesOverride THEN Target.port ELSE 0
    BY <1>2, <2>2, DialerHolds, MadeDialer, Zenon
  <2>4. request.network = "tcp" =>
          /\ dialer.serverPort = 0 \/ request.port = dialer.serverPort
          /\ Target.port > 0 => request.port = Target.port
    BY <1>3, <1>4, <2>3, FirstPorts, Zenon DEF FirstRequest
  <2>5. /\ a.host = IF dialer.targetHost # None THEN dialer.targetHost ELSE request.host
        /\ a.port = IF dialer.targetPort # 0 /\ request.network = "tcp" THEN dialer.targetPort
                    ELSE request.port
    BY <1>5, <2>3, <2>4, AddressDialed, Zenon
  <2>6. a.network = request.network
    BY AddressDialed, Zenon DEF DialAddress
  <2>7. AtServer(a.host)
    <3>1. CASE UsesOverride
      <4>1. dialer.targetHost = OrLocal(Target.host)
        BY <2>3, <3>1, Zenon
      <4>2. OrLocal(Target.host) # None
        BY <1>2, MadeDialer, NoneAssumption, Zenon
      <4>3. QED
        BY <2>5, <4>1, <4>2, Zenon DEF AtServer
    <3>2. CASE ~UsesOverride
      BY <1>4, <1>5, <2>3, <2>5, <3>2, LoginAtServer, Zenon
    <3>3. QED
      BY <3>1, <3>2, Zenon
  <2>8. ASSUME Target.port > 0, a.network = "tcp" PROVE a.port = Target.port
    <3>1. request.network = "tcp" /\ request.port = Target.port
      BY <2>4, <2>6, <2>8, Zenon
    <3>2. dialer.targetPort = 0 \/ dialer.targetPort = Target.port
      BY <2>3, Zenon
    <3>3. QED
      BY <2>5, <3>1, <3>2, Zenon
  <2> HIDE DEF a
  <2>9. QED
    BY <2>1, <2>7, <2>8, Zenon
<1>8. QED
  BY <1>6, <1>7

LEMMA InvRedirectsFollowed == CInv => RedirectsFollowed
<1>1. SUFFICES ASSUME CInv, routed # None, stage \in {"open", "failed"}
               PROVE  \/ last.host = routed.host /\ last.port = routed.port
                      \/ /\ routed.host = ConfigHost(login)
                         /\ \/ routed.port = ConfigPort(login) \/ login.instance # ""
                            \/ ConfigPort(login) = 0 /\ routed.port = DefaultPort
  BY Zenon DEF RedirectsFollowed
<1>2. Settled /\ Made /\ RoutedRequest /\ last = Dialed(request)
  BY <1>1 DEF CInv
<1>3. CASE dialer = None
  <2>1. last = [network |-> request.network, host |-> request.host, port |-> request.port,
                via |-> "direct"]
    BY <1>2, <1>3, Zenon DEF Dialed
  <2>2. last.host = request.host /\ last.port = request.port
    BY <2>1
  <2>3. QED
    BY <1>2, <2>2, Zenon DEF RoutedRequest
<1>4. CASE dialer # None
  <2> DEFINE a == DialAddress(dialer, request)
  <2>1. last.host = a.host /\ last.port = a.port
    BY <1>2, <1>4, ViaOf, Zenon
  <2>2. proxy \/ UsesOverride
    BY <1>2, <1>4, MadeDialer, Zenon
  <2>3. /\ dialer.serverName = ConfigHost(login)
        /\ dialer.serverPort = IF ConfigPort(login) > 0 THEN ConfigPort(login)
                               ELSE IF login.instance = "" THEN DefaultPort ELSE 0
    BY <1>2, <2>2, DialerHolds, MadeDialer, Zenon
  <2>4. a = request \/ /\ request.host = dialer.serverName
                       /\ dialer.serverPort = 0 \/ request.port = dialer.serverPort
    BY <1>2, AddressDialed, Zenon DEF RoutedRequest
  <2>5. CASE a = request
    BY <1>2, <2>1, <2>5, Zenon DEF RoutedRequest
  <2>6. CASE /\ request.host = dialer.serverName
             /\ dialer.serverPort = 0 \/ request.port = dialer.serverPort
    <3>1. routed.host = ConfigHost(login)
          /\ (dialer.serverPort = 0 \/ routed.port = dialer.serverPort)
      BY <1>2, <2>3, <2>6, Zenon DEF RoutedRequest
    <3>2. ConfigPort(login) > 0 \/ ConfigPort(login) = 0
      BY DEF ConfigPort, BrowserPort
    <3>3. CASE login.instance # ""
      BY <3>1, <3>3, Zenon
    <3>4. CASE login.instance = "" /\ ConfigPort(login) > 0
      <4>1. dialer.serverPort = ConfigPort(login)
        BY <2>3, <3>4, Zenon
      <4>2. dialer.serverPort # 0
        <5>1. ~(0 > 0)
          OBVIOUS
        <5>2. QED
          BY <3>4, <4>1, <5>1, Zenon
      <4>3. QED
        BY <3>1, <4>1, <4>2, Zenon
    <3>5. CASE login.instance = "" /\ ~(ConfigPort(login) > 0)
      <4>1. dialer.serverPort = DefaultPort
        BY <2>3, <3>5, Zenon
      <4>2. routed.port = DefaultPort
        BY <3>1, <4>1 DEF DefaultPort
      <4>3. QED
        BY <3>1, <3>2, <3>5, <4>2, Zenon
    <3>6. QED
      BY <3>3, <3>4, <3>5
  <2>7. QED
    BY <2>4, <2>5, <2>6, Zenon
<1>5. QED
  BY <1>3, <1>4

-----------------------------------------------------------------------------
(* The first request is at the server that is logged in to.                *)
LEMMA SameDialing ==
  ASSUME UNCHANGED <<settings, dialer>>, NEW r
  PROVE  Dialed(r)' = Dialed(r)
<1>1. proxy' = proxy /\ exclusions' = exclusions /\ dialer' = dialer
  BY Zenon DEF settings
<1>2. QED
  BY <1>1, Zenon DEF Dialed, Transport

LEMMA MadeStays ==
  ASSUME UNCHANGED <<settings, login, dialer>>, Made
  PROVE  Made'
<1>1. /\ name' = name /\ override' = override /\ admin' = admin /\ proxy' = proxy
      /\ login' = login /\ dialer' = dialer
  BY Zenon DEF settings
<1>2. ProxiedConnector' = ProxiedConnector
  BY <1>1, Zenon DEF ProxiedConnector, ConnectionString, UsesOverride
<1>3. Configure(login)' = Configure(login)
  BY <1>1, Zenon DEF Configure, UsesOverride
<1>4. QED
  BY <1>1, <1>2, <1>3, Zenon DEF Made

LEMMA SettledStays == ASSUME UNCHANGED settings, Settled PROVE Settled'
BY Zenon DEF settings, Settled

LEMMA InvInit == CInit => CInv
<1>1. SUFFICES ASSUME CInit PROVE CInv
  OBVIOUS
<1>2. exclusions \subseteq UNION Exclusions
  BY <1>1 DEF CInit
<1>3. Settled
  BY <1>1, <1>2, Zenon DEF CInit, Settled
<1>4. QED
  BY <1>1, <1>3 DEF CInit, CInv

LEMMA StepMakeConnector == ASSUME CInv, MakeConnector PROVE CInv'
<1>1. /\ stage = "start" /\ UNCHANGED settings
      /\ routed' = None /\ last' = None /\ Settled
  BY Zenon DEF CInv, MakeConnector
<1>2. Settled'
  BY <1>1, SettledStays, Zenon
<1>3. CASE ~ProxiedConnector.ok
  <2>1. stage' = "refused"
    BY <1>3, Zenon DEF MakeConnector
  <2>2. QED
    BY <1>1, <1>2, <2>1 DEF CInv
<1>4. CASE ProxiedConnector.ok
  <2>1. /\ login' = ProxiedConnector /\ dialer' = Configure(login')
        /\ stage' = IF login'.protocol = "np" THEN "pipe"
                    ELSE IF login'.instance # "" /\ ConfigPort(login') = 0 THEN "browse" ELSE "dial"
    BY <1>4, Zenon DEF MakeConnector
  <2>2. ProxiedConnector # NotAServer
    BY <1>4, NotAServerNotOk, Zenon
  <2>3. /\ name' = name /\ override' = override /\ admin' = admin /\ proxy' = proxy
    BY <1>1, Zenon DEF settings
  <2>4. ProxiedConnector' = ProxiedConnector
    BY <2>3, Zenon DEF ProxiedConnector, ConnectionString, UsesOverride
  <2>5. Configure(login)' = dialer'
    BY <2>1, <2>3, Zenon DEF Configure, UsesOverride
  <2>6. Made'
    BY <2>1, <2>2, <2>4, <2>5, Zenon DEF Made
  <2>7. stage' = "pipe" => ~proxy'
    <3>1. proxy => ProxiedConnector.protocol = "tcp"
      BY <1>1, <2>2, Connectors, Zenon
    <3>2. stage' = "pipe" => login'.protocol = "np"
      BY <2>1
    <3>3. QED
      BY <2>1, <2>3, <3>1, <3>2
  <2>8. stage' \in {"pipe", "browse", "dial"}
    BY <2>1, Zenon
  <2>9. QED
    BY <1>1, <1>2, <2>6, <2>7, <2>8 DEF CInv
<1>5. QED
  BY <1>3, <1>4

LEMMA StepBrowse == ASSUME CInv, Browse PROVE CInv'
<1>1. /\ stage = "browse" /\ UNCHANGED <<settings, login, dialer, routed>>
      /\ stage' \in {"dial", "failed"} /\ routed = None /\ Settled /\ Made
      /\ request' = [network |-> "udp", host |-> ConfigHost(login), port |-> BrowserPort]
      /\ last' = Dialed(request')
  BY DEF CInv, Browse
<1>2. Settled' /\ Made'
  BY <1>1, SettledStays, MadeStays, Zenon
<1>3. request'.network = "udp" /\ request'.host = ConfigHost(login)
  BY <1>1
<1>4. last' = Dialed(request)'
  BY <1>1, Zenon DEF Dialed, Transport, settings
<1>5. ConfigHost(login) \in Hosts
  BY <1>1, MadeDialer, Zenon
<1>6. LastMade'
  BY <1>3, <1>4, <1>5, Zenon DEF LastMade
<1>7. FirstRequest'
  BY <1>1, <1>3 DEF FirstRequest, ConfigHost
<1>8. QED
  BY <1>1, <1>2, <1>6, <1>7 DEF CInv

LEMMA PortsDialed ==
  ASSUME NEW p, p \in IF ConfigPort(login) > 0 THEN {ConfigPort(login)}
                      ELSE IF login.instance # "" THEN {InstancePort} ELSE {DefaultPort}
  PROVE  FirstPort(p)
<1>1. CASE ConfigPort(login) > 0
  BY <1>1 DEF FirstPort
<1>2. CASE ~(ConfigPort(login) > 0) /\ login.instance # ""
  BY <1>2, Zenon DEF FirstPort
<1>3. CASE ~(ConfigPort(login) > 0) /\ login.instance = ""
  BY <1>3, Zenon DEF FirstPort
<1>4. QED
  BY <1>1, <1>2, <1>3, Zenon

LEMMA FirstPortStays ==
  ASSUME login' = login, NEW p, FirstPort(p) PROVE FirstPort(p)'
<1>1. ConfigPort(login)' = ConfigPort(login)
  BY Zenon DEF ConfigPort
<1>2. QED
  BY <1>1 DEF FirstPort

LEMMA StepDial == ASSUME CInv, Dial PROVE CInv'
<1> DEFINE host == IF routed # None THEN routed.host ELSE ConfigHost(login)
           ports == IF routed # None THEN {routed.port}
                    ELSE IF ConfigPort(login) > 0 THEN {ConfigPort(login)}
                    ELSE IF login.instance # "" THEN {InstancePort} ELSE {DefaultPort}
<1>1. /\ stage = "dial" /\ UNCHANGED <<settings, login, dialer, routed>>
      /\ stage' \in {"open", IF login.protocol = "" /\ routed = None THEN "pipe" ELSE "failed"}
      /\ last' = Dialed(request')
  BY Zenon DEF Dial
<1>2. PICK p \in ports : request' = [network |-> "tcp", port |-> p, host |-> host]
  BY Zenon DEF Dial
<1>3. Settled /\ Made /\ (routed # None => routed \in Routes)
  BY <1>1 DEF CInv
<1>4. Settled' /\ Made'
  BY <1>1, <1>3, SettledStays, MadeStays, Zenon
<1>5. request'.network = "tcp" /\ request'.host = host /\ request'.port = p
  <2> HIDE DEF host, ports
  <2> QED BY <1>2
<1>6. last' = Dialed(request)'
  BY <1>1, Zenon DEF Dialed, Transport, settings
<1>7. host \in Hosts
  BY <1>3, MadeDialer, NamesAssumption, Zenon
<1>8. LastMade'
  BY <1>5, <1>6, <1>7, Zenon DEF LastMade
<1>9. routed = None => FirstRequest'
  <2>1. ASSUME routed = None PROVE FirstPort(p)'
    <3>1. p \in IF ConfigPort(login) > 0 THEN {ConfigPort(login)}
                ELSE IF login.instance # "" THEN {InstancePort} ELSE {DefaultPort}
      BY <1>2, <2>1, Zenon
    <3>2. FirstPort(p)
      BY <3>1, PortsDialed, Zenon
    <3>3. QED
      BY <1>1, <3>2, FirstPortStays, Zenon
  <2>2. routed = None => host = ConfigHost(login)'
    BY <1>1, Zenon DEF ConfigHost
  <2>3. routed = None => FirstPort(request.port)'
    <3>1. request'.port = p
      BY <1>5, Zenon
    <3>2. ASSUME NEW q, q = p, FirstPort(p)' PROVE FirstPort(q)'
      BY <3>2
    <3>3. QED
      BY <2>1, <3>1, <3>2, Zenon
  <2>4. QED
    BY <1>5, <2>2, <2>3, Zenon DEF FirstRequest
<1>10. routed # None => RoutedRequest'
  <2>1. routed' = routed
    BY <1>1, Zenon
  <2>2. routed # None => p = routed.port /\ host = routed.host
    BY <1>2, Zenon
  <2>3. QED
    BY <1>5, <2>1, <2>2, Zenon DEF RoutedRequest
<1>11. stage' = "pipe" => ~proxy' /\ routed' = None
  <2>1. stage' = "pipe" => login.protocol = "" /\ routed = None
    BY <1>1
  <2>2. proxy => login.protocol = "tcp"
    BY <1>3, MadeDialer, Zenon
  <2>3. proxy' = proxy /\ routed' = routed
    BY <1>1, Zenon DEF settings
  <2>4. QED
    BY <2>1, <2>2, <2>3
<1>12. /\ stage' \in {"open", "failed", "pipe"} /\ routed' = routed
  BY <1>1, Zenon
<1>13. QED
  BY <1>3, <1>4, <1>6, <1>8, <1>9, <1>10, <1>11, <1>12 DEF CInv

LEMMA StepOpenPipe == ASSUME CInv, OpenPipe PROVE CInv'
<1>1. /\ stage = "pipe" /\ UNCHANGED <<settings, login, dialer, routed>>
      /\ stage' \in {"open", "failed"} /\ routed = None /\ ~proxy /\ Settled /\ Made
      /\ last' = [network |-> "pipe", host |-> ConfigHost(login), port |-> 0, via |-> "direct"]
  BY DEF CInv, OpenPipe
<1>2. Settled' /\ Made'
  BY <1>1, SettledStays, MadeStays, Zenon
<1>3. last'.network = "pipe"
  BY <1>1
<1>4. ~proxy' /\ routed' = None
  BY <1>1, Zenon DEF settings
<1>5. LastMade'
  BY <1>3, <1>4, Zenon DEF LastMade
<1>6. QED
  BY <1>1, <1>2, <1>3, <1>4, <1>5 DEF CInv

(* A redirect leaves the last connection what it was.                      *)
LEMMA StepRedirect == ASSUME CInv, Redirect PROVE CInv'
<1>1. /\ stage = "open" /\ UNCHANGED <<settings, login, dialer, request, last>>
      /\ stage' = "dial" /\ routed' \in Routes /\ Settled /\ Made
      /\ last # None => LastMade
  BY Zenon DEF CInv, Redirect
<1>2. Settled' /\ Made'
  BY <1>1, SettledStays, MadeStays, Zenon
<1>3. last' # None => LastMade'
  BY <1>1, Zenon DEF LastMade, Dialed, Transport, settings
<1>4. routed' # None
  BY <1>1, NoneAssumption, Zenon
<1>5. QED
  BY <1>1, <1>2, <1>3, <1>4 DEF CInv

LEMMA StepReconnect == ASSUME CInv, Reconnect PROVE CInv'
<1>1. /\ stage' = "start" /\ routed' = None /\ last' = None /\ UNCHANGED settings /\ Settled
  BY Zenon DEF CInv, Reconnect
<1>2. Settled'
  BY <1>1, SettledStays, Zenon
<1>3. QED
  BY <1>1, <1>2 DEF CInv

LEMMA StepStutter == ASSUME CInv, UNCHANGED cvars PROVE CInv'
<1>1. UNCHANGED <<settings, login, dialer>> /\ UNCHANGED <<stage, routed, request, last>>
  BY Zenon DEF cvars, settings
<1>2. Settled' /\ (Made => Made')
  BY <1>1, SettledStays, MadeStays, Zenon DEF CInv
<1>3. /\ LastMade => LastMade'
      /\ FirstRequest => FirstRequest'
      /\ RoutedRequest => RoutedRequest'
      /\ last = Dialed(request) => (last = Dialed(request))'
  BY <1>1, Zenon DEF LastMade, FirstRequest, FirstPort, ConfigPort, ConfigHost, RoutedRequest, Dialed,
                     Transport, settings
<1>4. proxy' = proxy /\ stage' = stage /\ routed' = routed /\ last' = last
  BY <1>1, Zenon DEF settings
<1>5. QED
  BY <1>2, <1>3, <1>4, Zenon DEF CInv

LEMMA InvStep == CInv /\ [CNext]_cvars => CInv'
<1>1. SUFFICES ASSUME CInv, [CNext]_cvars PROVE CInv'
  OBVIOUS
<1>2. CASE MakeConnector
  BY <1>1, <1>2, StepMakeConnector, Zenon
<1>3. CASE Browse
  BY <1>1, <1>3, StepBrowse, Zenon
<1>4. CASE Dial
  BY <1>1, <1>4, StepDial, Zenon
<1>5. CASE OpenPipe
  BY <1>1, <1>5, StepOpenPipe, Zenon
<1>6. CASE Redirect
  BY <1>1, <1>6, StepRedirect, Zenon
<1>7. CASE Reconnect
  BY <1>1, <1>7, StepReconnect, Zenon
<1>8. CASE UNCHANGED cvars
  BY <1>1, <1>8, StepStutter, Zenon
<1>9. QED
  BY <1>1, <1>2, <1>3, <1>4, <1>5, <1>6, <1>7, <1>8, Zenon DEF CNext

LEMMA Invariance == CSpec => []CInv
BY InvInit, InvStep, PTL DEF CSpec

(* With a proxy nothing is dialed around it but what NO_PROXY excludes,    *)
(* and nothing that is excluded goes through it: not the browser's         *)
(* requests, not a redirect, not the host that -S gives for another name.  *)
THEOREM AroundTheProxy == CSpec => []ProxyKept
BY Invariance, InvProxyKept, PTL

(* The first connection goes to the host of -S, and to its port.           *)
THEOREM ServerDialedFirst == CSpec => []InitialDialAtServer
BY Invariance, InvInitialDialAtServer, PTL

(* A redirect is dialed where it says, but where it names the address that *)
(* was asked for first.                                                    *)
THEOREM RedirectsDialed == CSpec => []RedirectsFollowed
BY Invariance, InvRedirectsFollowed, PTL

=============================================================================
