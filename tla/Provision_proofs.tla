-------------------------- MODULE Provision_proofs --------------------------
(***************************************************************************)
(* Wherever create is killed, and whatever the server refuses, sa's first  *)
(* password is given up only once the new user can administrate.           *)
(***************************************************************************)
EXTENDS Provision, Integers, TLAPS

(* Statements that make the new user, and that take sa away.               *)
Makes == {"create login", "add to sysadmin"}
Takes == {"rotate sa", "disable sa"}

Statements == {"create database", "create login", "add to sysadmin", "rotate sa", "disable sa",
               "give database", "download", "restore", "set default"}

Left(s) == \E i \in 1..Len(todo) : todo[i] \in s

Servers == [up : BOOLEAN, databases : SUBSET {"master", "wanted", "restored"}, login : {"none", "user", "admin"},
            rotated : BOOLEAN, disabled : BOOLEAN, downloaded : BOOLEAN]

(* A list of statements in which the user is made, and then sa is taken.   *)
InOrder(q) ==
  /\ \A i, j \in 1..Len(q) : q[i] \in Takes /\ q[j] \in Makes => j < i
  /\ \A i, j \in 1..Len(q) : q[i] = "add to sysadmin" /\ q[j] = "create login" => j < i
  /\ (\E j \in 1..Len(q) : q[j] = "create login") => \E i \in 1..Len(q) : q[i] = "add to sysadmin"

SaThere == ~server.rotated /\ ~server.disabled

Made == server.login = "admin" \/ refused \cap Makes # {}

PCTypes ==
  /\ server \in Servers
  /\ todo \in Seq(Statements)
  /\ creating \in {"options", "pull", "run", "save", "wait", "connect", "work", "ready", "stopped"}

(* The inductive invariant.                                                *)
PCInv ==
  /\ PCTypes
  /\ creating \in {"options", "pull", "run", "save", "wait", "connect"} => todo = <<>> /\ SaThere
  /\ creating \in {"wait", "connect", "work", "ready"} => stored
  /\ InOrder(todo)
  /\ Left(Makes) => SaThere
  /\ creating = "work" /\ ~Left({"add to sysadmin"}) => Made
  /\ ~SaThere => stored /\ Made

-----------------------------------------------------------------------------
(* What is in a list of one or of three.                                   *)
LEMMA Within ==
  ASSUME NEW a, NEW b, NEW c
  PROVE  /\ \A i \in 1..Len(<<a>>) : <<a>>[i] = a
         /\ \A i \in 1..Len(<<a, b, c>>) : <<a, b, c>>[i] \in {a, b, c}
OBVIOUS

(* Lists of one, three and four statements.                                *)
LEMMA Listed ==
  ASSUME NEW S, NEW a \in S, NEW b \in S, NEW c \in S, NEW d \in S
  PROVE  <<>> \in Seq(S) /\ <<a>> \in Seq(S) /\ <<a, b, c>> \in Seq(S) /\ <<a, b, c, d>> \in Seq(S)
OBVIOUS

(* Statements about databases are of neither kind.                         *)
LEMMA Harmless ==
  ASSUME NEW q,
         \/ q = <<>> \/ q = <<"create database">> \/ q = <<"give database">>
         \/ q = <<"download", "restore", "set default">>
  PROVE  q \in Seq(Statements) /\ \A i \in 1..Len(q) : q[i] \notin Makes \cup Takes
<1>1. /\ "create database" \in Statements /\ "give database" \in Statements
      /\ "download" \in Statements /\ "restore" \in Statements /\ "set default" \in Statements
  BY DEF Statements
<1>2. q \in Seq(Statements)
  BY <1>1, Listed
<1>3. \A i \in 1..Len(q) : q[i] \in {"create database", "give database", "download", "restore", "set default"}
  <2>1. CASE q = <<>>
    <3>1. 1..Len(q) = {}
      BY <2>1
    <3>2. QED
      BY <3>1
  <2>2. CASE q = <<"create database">>
    BY <2>2, Within
  <2>3. CASE q = <<"give database">>
    BY <2>3, Within
  <2>4. CASE q = <<"download", "restore", "set default">>
    <3>1. \A i \in 1..Len(q) : q[i] \in {"download", "restore", "set default"}
      BY <2>4, Within
    <3>2. QED
      BY <3>1
  <2>5. QED
    BY <2>1, <2>2, <2>3, <2>4
<1>4. QED
  BY <1>2, <1>3 DEF Makes, Takes

(* What createNonSaUser and downloadAndRestoreDb send is in order.         *)
LEMMA WorkInOrder ==
  Work \in Seq(Statements) /\ InOrder(Work) /\ \E i \in 1..Len(Work) : Work[i] = "add to sysadmin"
<1> DEFINE before == WhenDatabase(<<"create database">>)
           user   == <<"create login", "add to sysadmin", "rotate sa", "disable sa">>
           owner  == WhenDatabase(<<"give database">>)
           backup == WhenBackup(<<"download", "restore", "set default">>)
           first  == before \o user
           second == first \o owner
           sent   == second \o backup
           n      == Len(before)
<1>1. before \in Seq(Statements) /\ \A i \in 1..Len(before) : before[i] \notin Makes \cup Takes
  <2>1. before = <<>> \/ before = <<"create database">>
    BY DEF WhenDatabase
  <2>2. QED
    BY <2>1, Harmless
<1>2. owner \in Seq(Statements) /\ \A i \in 1..Len(owner) : owner[i] \notin Makes \cup Takes
  <2>1. owner = <<>> \/ owner = <<"give database">>
    BY DEF WhenDatabase
  <2>2. QED
    BY <2>1, Harmless
<1>3. backup \in Seq(Statements) /\ \A i \in 1..Len(backup) : backup[i] \notin Makes \cup Takes
  <2>1. backup = <<>> \/ backup = <<"download", "restore", "set default">>
    BY DEF WhenBackup
  <2>2. QED
    BY <2>1, Harmless
<1>4. /\ user \in Seq(Statements) /\ Len(user) = 4
      /\ user[1] = "create login" /\ user[2] = "add to sysadmin"
      /\ user[3] = "rotate sa" /\ user[4] = "disable sa"
  <2>1. /\ "create login" \in Statements /\ "add to sysadmin" \in Statements
        /\ "rotate sa" \in Statements /\ "disable sa" \in Statements
    BY DEF Statements
  <2>2. user \in Seq(Statements)
    BY <2>1, Listed
  <2>3. QED
    BY <2>2
<1>5. Work = sent
  BY DEF Work
<1> HIDE DEF before, user, owner, backup
<1>a. before \in Seq(Statements) /\ user \in Seq(Statements)
  BY <1>1, <1>4
<1>b. owner \in Seq(Statements) /\ backup \in Seq(Statements)
  BY <1>2, <1>3
<1>6. /\ first \in Seq(Statements) /\ n \in Nat /\ Len(first) = n + 4
      /\ \A i \in 1..n : first[i] = before[i]
      /\ \A i \in 1..4 : first[n + i] = user[i]
  <2>1. first \in Seq(Statements) /\ Len(first) = n + Len(user) /\ n \in Nat
    BY <1>a
  <2>2. \A i \in 1..n : first[i] = before[i]
    BY <1>a
  <2>3. \A i \in 1..Len(user) : first[n + i] = user[i]
    BY <1>a
  <2>4. QED
    BY <1>4, <2>1, <2>2, <2>3
<1> HIDE DEF first
<1>7. /\ second \in Seq(Statements) /\ Len(second) = Len(first) + Len(owner) /\ Len(owner) \in Nat
      /\ \A i \in 1..Len(first) : second[i] = first[i]
      /\ \A i \in 1..Len(second) : i > Len(first) => second[i] \notin Makes \cup Takes
  <2> HIDE DEF n
  <2>a. first \in Seq(Statements)
    BY <1>6
  <2>1. second \in Seq(Statements) /\ Len(second) = Len(first) + Len(owner) /\ Len(owner) \in Nat
    BY <1>b, <2>a
  <2>2. \A i \in 1..Len(first) : second[i] = first[i]
    BY <1>b, <2>a
  <2>3. ASSUME NEW i \in 1..Len(second), i > Len(first) PROVE second[i] \notin Makes \cup Takes
    <3>1. i - Len(first) \in 1..Len(owner)
      BY <2>1, <2>3, <2>a
    <3>2. second[i] = owner[i - Len(first)]
      BY <1>b, <2>a, <2>3
    <3>3. QED
      BY <1>2, <3>1, <3>2
  <2>4. QED
    BY <2>1, <2>2, <2>3
<1> HIDE DEF second
<1>8. /\ sent \in Seq(Statements) /\ Len(sent) = Len(second) + Len(backup) /\ Len(backup) \in Nat
      /\ \A i \in 1..Len(second) : sent[i] = second[i]
      /\ \A i \in 1..Len(sent) : i > Len(second) => sent[i] \notin Makes \cup Takes
  <2>a. second \in Seq(Statements)
    BY <1>7
  <2>1. sent \in Seq(Statements) /\ Len(sent) = Len(second) + Len(backup) /\ Len(backup) \in Nat
    BY <1>b, <2>a
  <2>2. \A i \in 1..Len(second) : sent[i] = second[i]
    BY <1>b, <2>a
  <2>3. ASSUME NEW i \in 1..Len(sent), i > Len(second) PROVE sent[i] \notin Makes \cup Takes
    <3>1. i - Len(second) \in 1..Len(backup)
      BY <2>1, <2>3, <2>a
    <3>2. sent[i] = backup[i - Len(second)]
      BY <1>b, <2>a, <2>3
    <3>3. QED
      BY <1>3, <3>1, <3>2
  <2>4. QED
    BY <2>1, <2>2, <2>3
<1> HIDE DEF sent, n
<1>9. n \in Nat /\ Len(sent) \in Nat /\ Len(first) = n + 4 /\ Len(second) >= n + 4 /\ Len(sent) >= n + 4
  <2>1. n \in Nat /\ Len(first) = n + 4
    BY <1>4, <1>6
  <2>2. Len(second) = n + 4 + Len(owner) /\ Len(owner) \in Nat
    BY <1>7, <2>1
  <2>3. Len(sent) = n + 4 + Len(owner) + Len(backup) /\ Len(backup) \in Nat
    BY <1>8, <2>2
  <2>4. QED
    BY <2>1, <2>2, <2>3
<1>10. \A i \in 1..Len(sent) : i > n + 4 => sent[i] \notin Makes \cup Takes
  <2>1. SUFFICES ASSUME NEW i \in 1..Len(sent), i > n + 4 PROVE sent[i] \notin Makes \cup Takes
    OBVIOUS
  <2>2. CASE i > Len(second)
    BY <1>8, <2>2
  <2>3. CASE ~(i > Len(second))
    <3>1. i \in 1..Len(second)
      BY <1>7, <1>9, <2>3
    <3>2. sent[i] = second[i] /\ second[i] \notin Makes \cup Takes
      BY <1>7, <1>8, <1>9, <2>1, <3>1
    <3>3. QED
      BY <3>2
  <2>4. QED
    BY <2>2, <2>3
<1>11. \A i \in 1..(n + 4) : sent[i] = first[i]
  <2>1. SUFFICES ASSUME NEW i \in 1..(n + 4) PROVE sent[i] = first[i]
    OBVIOUS
  <2>2. i \in 1..Len(first) /\ i \in 1..Len(second)
    BY <1>7, <1>9
  <2>3. QED
    BY <1>7, <1>8, <2>2
<1>12. \A i \in 1..Len(sent) : i <= n => sent[i] \notin Makes \cup Takes
  <2>1. SUFFICES ASSUME NEW i \in 1..Len(sent), i <= n PROVE sent[i] \notin Makes \cup Takes
    OBVIOUS
  <2>2. i \in 1..n /\ i \in 1..(n + 4)
    BY <1>9, <2>1
  <2>3. sent[i] = before[i]
    BY <1>6, <1>11, <2>2
  <2>4. before[i] \notin Makes \cup Takes
    BY <1>1, <2>2 DEF n
  <2>5. QED
    BY <2>3, <2>4
<1>13. /\ sent[n + 1] = "create login" /\ sent[n + 2] = "add to sysadmin"
       /\ sent[n + 3] = "rotate sa" /\ sent[n + 4] = "disable sa"
  <2>1. \A k \in 1..4 : sent[n + k] = user[k]
    <3>1. SUFFICES ASSUME NEW k \in 1..4 PROVE sent[n + k] = user[k]
      OBVIOUS
    <3>2. n + k \in 1..(n + 4)
      BY <1>9
    <3>3. QED
      BY <1>6, <1>11, <3>2
  <2>2. 1 \in 1..4 /\ 2 \in 1..4 /\ 3 \in 1..4 /\ 4 \in 1..4
    OBVIOUS
  <2>3. QED
    BY <1>4, <2>1, <2>2
<1>14. \A i \in 1..Len(sent) : i \in {n + 1, n + 2, n + 3, n + 4} \/ sent[i] \notin Makes \cup Takes
  <2>1. SUFFICES ASSUME NEW i \in 1..Len(sent), i \notin {n + 1, n + 2, n + 3, n + 4}
                 PROVE sent[i] \notin Makes \cup Takes
    OBVIOUS
  <2>2. i <= n \/ i > n + 4
    BY <1>9, <2>1
  <2>3. QED
    BY <1>10, <1>12, <2>2
<1>15. \A i \in 1..Len(sent) : sent[i] \in Makes => i \in {n + 1, n + 2}
  BY <1>13, <1>14 DEF Makes
<1>16. \A i \in 1..Len(sent) : sent[i] \in Takes => i \in {n + 3, n + 4}
  BY <1>13, <1>14 DEF Takes
<1>17. n + 2 \in 1..Len(sent)
  BY <1>9
<1>18. \A i, j \in 1..Len(sent) : sent[i] \in Takes /\ sent[j] \in Makes => j < i
  <2>1. SUFFICES ASSUME NEW i \in 1..Len(sent), NEW j \in 1..Len(sent), sent[i] \in Takes, sent[j] \in Makes
                 PROVE j < i
    OBVIOUS
  <2>2. i \in {n + 3, n + 4} /\ j \in {n + 1, n + 2}
    BY <1>15, <1>16, <2>1
  <2>3. QED
    BY <1>9, <2>2
<1>19. \A i, j \in 1..Len(sent) : sent[i] = "add to sysadmin" /\ sent[j] = "create login" => j < i
  <2>1. SUFFICES ASSUME NEW i \in 1..Len(sent), NEW j \in 1..Len(sent),
                        sent[i] = "add to sysadmin", sent[j] = "create login"
                 PROVE j < i
    OBVIOUS
  <2>2. i \in {n + 1, n + 2} /\ j \in {n + 1, n + 2}
    BY <1>15, <2>1 DEF Makes
  <2>3. i = n + 2 /\ j = n + 1
    BY <1>13, <2>1, <2>2
  <2>4. QED
    BY <1>9, <2>3
<1>20. InOrder(sent)
  <2>1. \E i \in 1..Len(sent) : sent[i] = "add to sysadmin"
    BY <1>13, <1>17
  <2>2. QED
    BY <1>18, <1>19, <2>1 DEF InOrder
<1>21. QED
  BY <1>5, <1>8, <1>13, <1>17, <1>20

(* The rest of a list in order is in order.                                *)
LEMMA TailInOrder ==
  ASSUME NEW q \in Seq(Statements), q # <<>>, InOrder(q)
  PROVE  Tail(q) \in Seq(Statements) /\ InOrder(Tail(q))
<1>1. /\ Tail(q) \in Seq(Statements) /\ Len(Tail(q)) = Len(q) - 1 /\ Len(q) \in Nat
      /\ \A i \in 1..Len(Tail(q)) : i + 1 \in 1..Len(q) /\ Tail(q)[i] = q[i + 1]
  OBVIOUS
<1>2. ASSUME NEW j \in 1..Len(Tail(q)), Tail(q)[j] = "create login"
      PROVE  \E i \in 1..Len(Tail(q)) : Tail(q)[i] = "add to sysadmin"
  <2>1. PICK i \in 1..Len(q) : q[i] = "add to sysadmin"
    BY <1>1, <1>2 DEF InOrder
  <2>2. j + 1 < i
    BY <1>1, <1>2, <2>1 DEF InOrder
  <2>3. i - 1 \in 1..Len(Tail(q)) /\ Tail(q)[i - 1] = q[i]
    BY <1>1, <2>2
  <2>4. QED
    BY <2>1, <2>3
<1>3. ASSUME NEW i \in 1..Len(Tail(q)), NEW j \in 1..Len(Tail(q)),
             \/ Tail(q)[i] \in Takes /\ Tail(q)[j] \in Makes
             \/ Tail(q)[i] = "add to sysadmin" /\ Tail(q)[j] = "create login"
      PROVE  j < i
  <2>1. i + 1 \in 1..Len(q) /\ j + 1 \in 1..Len(q) /\ Tail(q)[i] = q[i + 1] /\ Tail(q)[j] = q[j + 1]
    BY <1>1
  <2>2. j + 1 < i + 1
    BY <1>3, <2>1 DEF InOrder
  <2>3. i \in Int /\ j \in Int
    OBVIOUS
  <2>4. QED
    BY <2>2, <2>3
<1>4. QED
  BY <1>1, <1>2, <1>3 DEF InOrder

(* What a statement does to the server.                                    *)
LEMMA EffectOf ==
  ASSUME server \in Servers, NEW s \in Statements
  PROVE  /\ Effect(s) \in Servers
         /\ s \notin Makes => Effect(s).login = server.login
         /\ s = "add to sysadmin" => Effect(s).login = "admin"
         /\ s \notin Takes => /\ Effect(s).rotated = server.rotated
                              /\ Effect(s).disabled = server.disabled
  BY DEF Servers, Effect, Makes, Takes

-----------------------------------------------------------------------------
(* A statement that the server takes or refuses.                           *)
LEMMA QueryKeeps == ASSUME PCInv, Query PROVE PCInv'
<1> DEFINE s == Head(todo)
<1>1. /\ creating = "work" /\ creating' = "work" /\ stored' = stored /\ todo # <<>>
      /\ todo' = Tail(todo) /\ todo \in Seq(Statements) /\ InOrder(todo) /\ s \in Statements /\ stored
      /\ server \in Servers
  <2>1. creating = "work" /\ creating' = "work" /\ stored' = stored /\ todo # <<>> /\ todo' = Tail(todo)
    BY DEF Query
  <2>2. todo \in Seq(Statements) /\ InOrder(todo) /\ server \in Servers
    BY DEF PCInv, PCTypes
  <2>3. stored
    BY <2>1 DEF PCInv
  <2>4. s \in Statements
    BY <2>1, <2>2
  <2>5. QED
    BY <2>1, <2>2, <2>3, <2>4
<1>2. todo' \in Seq(Statements) /\ InOrder(todo)'
  BY <1>1, TailInOrder DEF InOrder
<1>3. /\ Len(todo) \in Nat /\ Len(todo) > 0 /\ s = todo[1] /\ Len(todo') = Len(todo) - 1
      /\ \A i \in 1..Len(todo') : todo'[i] = todo[i + 1]
  BY <1>1
<1> HIDE DEF s
<1>4. /\ refused \subseteq refused'
      /\ \/ server' = Effect(s)
         \/ server' = server /\ s \in refused'
  BY DEF Query, s
<1>5. server' \in Servers
  BY <1>1, <1>4, EffectOf
<1>6. ASSUME Left(Makes)' PROVE Left(Makes) /\ s \notin Takes
  <2>1. PICK i \in 1..Len(todo') : todo'[i] \in Makes
    BY <1>6 DEF Left
  <2>2. i + 1 \in 1..Len(todo) /\ todo[i + 1] \in Makes /\ 1 \in 1..Len(todo)
    BY <1>3, <2>1
  <2>3. ~(i + 1 < 1)
    BY <1>3
  <2>4. s \notin Takes
    BY <1>1, <1>3, <2>2, <2>3 DEF InOrder
  <2>5. QED
    BY <2>2, <2>4 DEF Left
<1>7. Left(Makes)' => SaThere'
  BY <1>1, <1>4, <1>6, EffectOf DEF PCInv, SaThere
<1>8. ASSUME ~Left({"add to sysadmin"})' PROVE Made'
  <2>1. CASE s = "add to sysadmin"
    BY <1>1, <1>4, <2>1, EffectOf DEF Made, Makes
  <2>2. CASE s # "add to sysadmin"
    <3>1. ~Left({"add to sysadmin"})
      <4>1. SUFFICES ASSUME NEW i \in 1..Len(todo), todo[i] = "add to sysadmin" PROVE FALSE
        BY DEF Left
      <4>2. i # 1
        BY <1>3, <2>2, <4>1
      <4>3. i - 1 \in 1..Len(todo') /\ todo'[i - 1] = todo[i]
        BY <1>3, <4>2
      <4>4. QED
        BY <1>8, <4>1, <4>3 DEF Left
    <3>2. s # "create login"
      <4>1. 1 \in 1..Len(todo)
        BY <1>3
      <4>2. \A i \in 1..Len(todo) : todo[i] # "add to sysadmin"
        BY <3>1 DEF Left
      <4>3. QED
        BY <1>1, <1>3, <4>1, <4>2 DEF InOrder
    <3>3. Made
      BY <1>1, <3>1 DEF PCInv
    <3>4. QED
      BY <1>1, <1>4, <2>2, <3>2, <3>3, EffectOf DEF Made, Makes
  <2>3. QED
    BY <2>1, <2>2
<1>9. ~SaThere' => Made'
  <2>1. CASE s \in Takes
    <3>1. ~Left({"add to sysadmin"})'
      BY <1>6, <2>1 DEF Left, Makes
    <3>2. QED
      BY <1>8, <3>1
  <2>2. CASE s \notin Takes /\ ~SaThere
    <3>1. ~Left(Makes) /\ Made
      BY <2>2 DEF PCInv
    <3>2. s \notin Makes
      BY <1>3, <3>1 DEF Left
    <3>3. QED
      BY <1>1, <1>4, <3>1, <3>2, EffectOf DEF Made
  <2>3. CASE s \notin Takes /\ SaThere
    BY <1>1, <1>4, <2>3, EffectOf DEF SaThere
  <2>4. QED
    BY <2>1, <2>2, <2>3
<1>10. QED
  BY <1>1, <1>2, <1>5, <1>7, <1>8, <1>9 DEF PCInv, PCTypes

(* The statements of create are listed when it has connected.              *)
LEMMA ConnectKeeps == ASSUME PCInv, Connect PROVE PCInv'
<1>1. creating = "connect" /\ server' = server /\ stored' = stored /\ refused' = refused /\ stored
      /\ todo = <<>> /\ SaThere /\ SaThere'
  BY DEF PCInv, Connect, SaThere
<1>2. CASE creating' = "work" /\ todo' = Work
  <2>1. todo' \in Seq(Statements) /\ InOrder(todo)' /\ Left({"add to sysadmin"})'
    BY <1>2, WorkInOrder DEF InOrder, Left
  <2>2. QED
    BY <1>1, <1>2, <2>1 DEF PCInv, PCTypes
<1>3. CASE creating' = "stopped" /\ UNCHANGED todo
  BY <1>1, <1>3 DEF PCInv, PCTypes, InOrder, Left, Made
<1>4. QED
  BY <1>2, <1>3 DEF Connect

(* Steps before the server is connected to.                                *)
LEMMA EarlyKeeps ==
  ASSUME PCInv, CheckOptions \/ PullImage \/ RunContainer \/ SaveContext \/ WaitForLogEntry
  PROVE  PCInv'
<1>1. /\ todo' = todo /\ todo = <<>> /\ SaThere
      /\ creating' \in {"pull", "run", "save", "wait", "connect", "stopped"}
      /\ creating' \in {"wait", "connect"} => stored'
  BY DEF PCInv, CheckOptions, PullImage, RunContainer, SaveContext, WaitForLogEntry
<1>2. server' \in Servers /\ SaThere'
  BY DEF PCInv, PCTypes, SaThere, Servers, CheckOptions, PullImage, RunContainer, SaveContext,
         WaitForLogEntry
<1>3. InOrder(todo)' /\ ~Left(Makes)'
  BY <1>1 DEF InOrder, Left
<1>4. QED
  BY <1>1, <1>2, <1>3 DEF PCInv, PCTypes

(* The inductive step.                                                     *)
LEMMA ProvisionStep == ASSUME PCInv, [PCNext]_pcvars PROVE PCInv'
<1>1. CASE CheckOptions \/ PullImage \/ RunContainer \/ SaveContext \/ WaitForLogEntry
  BY <1>1, EarlyKeeps
<1>2. CASE Connect
  BY <1>2, ConnectKeeps
<1>3. CASE Query
  BY <1>3, QueryKeeps
<1>4. CASE Ready
  BY <1>4 DEF PCInv, PCTypes, SaThere, Made, Left, InOrder, Ready
<1>5. CASE KillCreate
  BY <1>5 DEF PCInv, PCTypes, SaThere, Made, Left, InOrder, KillCreate
<1>6. CASE UNCHANGED pcvars
  BY <1>6 DEF PCInv, PCTypes, SaThere, Made, Left, InOrder, pcvars
<1>7. QED
  BY <1>1, <1>2, <1>3, <1>4, <1>5, <1>6 DEF PCNext

(* Whatever create is asked for, wherever it is killed and whichever other *)
(* statements are refused: somebody can log in as an administrator.        *)
THEOREM SomebodyIn == PCSpec => []AdministratorRemains
<1>1. PCInit => PCInv
  BY DEF PCInit, NoServer, PCInv, PCTypes, Servers, SaThere, Left, InOrder, Made
<1>2. PCInv => AdministratorRemains
  BY DEF PCInv, AdministratorRemains, Administrator, SaThere, Made, Makes
<1>3. QED
  BY <1>1, <1>2, ProvisionStep, PTL DEF PCSpec
=============================================================================
