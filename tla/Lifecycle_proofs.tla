-------------------------- MODULE Lifecycle_proofs --------------------------
(***************************************************************************)
(* What any number of commands at a time keep true of the configuration    *)
(* file, and of user databases, for every set of names and containers, and *)
(* what commands that run one at a time keep true of containers.           *)
(***************************************************************************)
EXTENDS Lifecycle, TLAPS

(* A configuration as every operation makes it.                            *)
Good(c) == c \in Configs /\ Unique(c) /\ Listed(c)

-----------------------------------------------------------------------------
(* The operations of Sqlconfig.                                            *)

LEMMA NamesDiffer == NoName \notin Names
BY ConfigAssumption DEF Names

LEMMA EmptyGood == Good(Empty)
BY DEF Good, Empty, Configs, Unique, Listed

(* The searches look among names, and end with one that is free.           *)
LEMMA CandidateNames ==
  ASSUME NEW asked \in Names
  PROVE  Candidates(asked) \subseteq Names
<1>1. \A k \in 2..MaxPostfix : Postfixed(asked, k) \in Names
  BY DEF Names, Postfixed
<1>2. QED
  BY <1>1 DEF Candidates

LEMMA EndpointNameFree ==
  ASSUME NEW c, NEW asked, NEW name, UniqueEndpointName(c, asked, name)
  PROVE  ~EndpointExists(c, name)
BY DEF UniqueEndpointName

LEMMA UserNameFree ==
  ASSUME NEW c, NEW asked, NEW name, UniqueUserName(c, asked, name)
  PROVE  ~UserNameExists(c, <<name>>)
BY DEF UniqueUserName

LEMMA ContextNameFree ==
  ASSUME NEW c, NEW asked, NEW user, NEW name, UniqueContextName(c, asked, user, name)
  PROVE  ~ContextExists(c, name) /\ ~LoginExists(c, user, name)
BY DEF UniqueContextName, Clear

LEMMA WithEndpointGood ==
  ASSUME NEW c, Good(c), NEW name \in Names, ~EndpointExists(c, name)
  PROVE  Good(WithEndpoint(c, name))
BY DEF Good, Configs, Endpoints, Unique, Listed, ContextExists, EndpointExists, WithEndpoint

LEMMA WithUserGood ==
  ASSUME NEW c, Good(c), NEW name \in Names, ~UserNameExists(c, <<name>>)
  PROVE  Good(WithUser(c, name))
<1>1. <<name>> \in UserNames
  BY DEF UserNames
<1>2. QED
  BY <1>1 DEF Good, Configs, Users, Unique, Listed, ContextExists, UserNameExists, WithUser

LEMMA WithContextGood ==
  ASSUME NEW c, Good(c), NEW name \in Names, ~ContextExists(c, name),
         NEW endpoint \in Names, NEW user \in UserNames
  PROVE  /\ Good(WithContext(c, name, endpoint, user))
         /\ ContextExists(WithContext(c, name, endpoint, user), name)
<1> DEFINE new == [name |-> name, endpoint |-> endpoint, user |-> user]
           d == WithContext(c, name, endpoint, user)
<1>1. new \in Contexts /\ new.name = name
  BY DEF Contexts
<1>2. /\ d.contexts = c.contexts \cup {new} /\ d.endpoints = c.endpoints
      /\ d.users = c.users /\ d.current = c.current
      /\ d = [c EXCEPT !.contexts = @ \cup {new}]
  BY DEF Good, Configs, WithContext
<1> HIDE DEF new, d
<1>3. d \in Configs
  BY <1>1, <1>2 DEF Good, Configs
<1>4. Unique(d)
  BY <1>1, <1>2 DEF Good, Unique, ContextExists
<1>5. Listed(d) /\ ContextExists(d, name)
  BY <1>1, <1>2 DEF Good, Listed, ContextExists
<1>6. QED
  BY <1>3, <1>4, <1>5 DEF Good, d

LEMMA WithContainerGood ==
  ASSUME NEW c, Good(c), NEW name \in Names, NEW endpoint \in Names,
         ~ContextExists(c, name), ~EndpointExists(c, endpoint),
         ~LoginExists(c, <<OsUser>>, name), NEW id \in Ids
  PROVE  Good(WithContainer(c, name, endpoint, <<OsUser, name>>, id))
<1> DEFINE login == <<OsUser, name>>
           d == WithContainer(c, name, endpoint, login, id)
           x == [name |-> name, endpoint |-> endpoint, user |-> login]
           e == [name |-> endpoint, container |-> id]
           u == [name |-> login, of |-> id]
<1>1. login \in UserNames /\ login = Append(<<OsUser>>, name) /\ <<OsUser>> # <<>>
  BY LifecycleAssumption DEF UserNames
<1>2. ~UserNameExists(c, login)
  BY <1>1 DEF LoginExists
<1> HIDE DEF login
<1>3. /\ x \in Contexts /\ x.name = name /\ e \in Endpoints /\ e.name = endpoint
      /\ u \in Users /\ u.name = login
  BY <1>1 DEF Contexts, Endpoints, Users
<1>4. d = [contexts |-> c.contexts \cup {x}, endpoints |-> c.endpoints \cup {e},
           users |-> c.users \cup {u}, current |-> name]
  BY DEF WithContainer
<1>5. /\ d.contexts = c.contexts \cup {x} /\ d.endpoints = c.endpoints \cup {e}
      /\ d.users = c.users \cup {u} /\ d.current = name
  BY <1>4
<1> HIDE DEF x, e, u, d
<1>6. d \in Configs
  BY <1>3, <1>4 DEF Good, Configs
<1>7. Unique(d)
  <2>1. \A y, z \in d.contexts : y.name = z.name => y = z
    BY <1>3, <1>5 DEF Good, Unique, ContextExists
  <2>2. \A y, z \in d.endpoints : y.name = z.name => y = z
    BY <1>3, <1>5 DEF Good, Unique, EndpointExists
  <2>3. \A y, z \in d.users : y.name = z.name => y = z
    BY <1>2, <1>3, <1>5 DEF Good, Unique, UserNameExists
  <2>4. QED
    BY <2>1, <2>2, <2>3 DEF Unique
<1>8. Listed(d)
  BY <1>3, <1>5 DEF Listed, ContextExists
<1>9. QED
  BY <1>6, <1>7, <1>8 DEF Good, d, login

LEMMA WithoutEndpointGood ==
  ASSUME NEW c, Good(c), NEW name
  PROVE  Good(WithoutEndpoint(c, name))
BY DEF Good, Configs, Unique, Listed, ContextExists, WithoutEndpoint

LEMMA WithoutUserGood ==
  ASSUME NEW c, Good(c), NEW name
  PROVE  Good(WithoutUser(c, name))
BY DEF Good, Configs, Unique, Listed, ContextExists, WithoutUser

(* Deleting a context chooses another one, or none when none is left.      *)
LEMMA WithoutContextGood ==
  ASSUME NEW c \in Configs, Unique(c), NEW name, NEW d \in WithoutContext(c, name)
  PROVE  Good(d)
<1> DEFINE rest == {x \in c.contexts : x.name # name}
<1>1. PICK cur \in IF rest = {} THEN {NoName} ELSE {x.name : x \in rest} :
         d = [c EXCEPT !.contexts = rest, !.current = cur]
  BY DEF WithoutContext
<1>2. rest \subseteq c.contexts /\ c.contexts \subseteq Contexts
  BY DEF Configs
<1>3. d.contexts = rest /\ d.current = cur /\ d.endpoints = c.endpoints /\ d.users = c.users
  BY <1>1 DEF Configs
<1>4. cur \in Names \cup {NoName}
  BY <1>1, <1>2 DEF Contexts
<1>5. d \in Configs
  BY <1>1, <1>2, <1>4 DEF Configs
<1>6. Unique(d)
  BY <1>2, <1>3 DEF Unique
<1>7. Listed(d)
  BY <1>1, <1>3 DEF Listed, ContextExists
<1>8. QED
  BY <1>5, <1>6, <1>7 DEF Good

LEMMA WithoutCurrentGood ==
  ASSUME NEW c, Good(c), NEW d \in WithoutCurrent(c)
  PROVE  Good(d)
<1> DEFINE b == [c EXCEPT !.endpoints = @ \ CurrentEndpoints(c),
                          !.users = {u \in @ : \A x \in CurrentContexts(c) : x.user # u.name}]
<1>1. b \in Configs
  BY DEF Good, Configs
<1>2. Unique(b)
  BY DEF Good, Configs, Unique
<1>3. d \in WithoutContext(b, c.current)
  BY DEF WithoutCurrent
<1>4. QED
  BY <1>1, <1>2, <1>3, WithoutContextGood
-----------------------------------------------------------------------------
Afters == {"idle", "use", "dropuser", "dropcontext", "await"}

Holding == {"starting", "created", "confirm", "check", "verify", "stop", "remove"}

(* What a process at step l, bound for step a, is sure of: of the context  *)
(* it will make the current one, of the name it was given, of its container.*)
Sure(l, a, c, name, id) ==
  /\ l = "use" \/ (l \in {"save", "write"} /\ a = "use") => ContextExists(c, name)
  /\ l \in {"create", "starting", "created"} => name \in Names
  /\ l \in Holding => id \in Ids

(* The part of the inductive invariant about the file and its copies.      *)
CopiesGood ==
  /\ file \in Configs \cup {Torn} /\ (Readable => Good(file))
  /\ pc \in [Procs -> Steps]
  /\ mem \in [Procs -> Configs] /\ \A p \in Procs : Good(mem[p])
  /\ after \in [Procs -> Afters]
  /\ arg \in [Procs -> Names \cup {NoName}]
  /\ cid \in [Procs -> Ids \cup {NoContainer}]
  /\ \A p \in Procs : Sure(pc[p], after[p], mem[p], arg[p], cid[p])

(* One process takes a step; whatever it leaves alone may be written as set*)
(* to what it was.                                                         *)
LEMMA OneProcess ==
  ASSUME CopiesGood, NEW p \in Procs,
         NEW l \in Steps, NEW c, Good(c), NEW a \in Afters,
         NEW name \in Names \cup {NoName}, NEW id \in Ids \cup {NoContainer},
         Sure(l, a, c, name, id),
         pc' = [pc EXCEPT ![p] = l], mem' = [mem EXCEPT ![p] = c],
         after' = [after EXCEPT ![p] = a], arg' = [arg EXCEPT ![p] = name],
         cid' = [cid EXCEPT ![p] = id],
         file' \in Configs \cup {Torn}, Readable' => Good(file)'
  PROVE  CopiesGood'
<1>1. c \in Configs
  BY DEF Good
<1>2. /\ pc' \in [Procs -> Steps] /\ mem' \in [Procs -> Configs]
      /\ after' \in [Procs -> Afters]
      /\ arg' \in [Procs -> Names \cup {NoName}]
      /\ cid' \in [Procs -> Ids \cup {NoContainer}]
  BY <1>1 DEF CopiesGood
<1>3. \A q \in Procs : Good(mem[q])'
  <2>1. \A q \in Procs : Good(mem'[q])
    BY DEF CopiesGood
  <2>2. QED
    BY <2>1 DEF Good, Unique, Listed, ContextExists
<1>4. ASSUME NEW q \in Procs
      PROVE  Sure(pc[q], after[q], mem[q], arg[q], cid[q])'
  <2>1. CASE q = p
    <3>1. /\ pc'[q] = l /\ after'[q] = a /\ mem'[q] = c
          /\ arg'[q] = name /\ cid'[q] = id
      BY <2>1 DEF CopiesGood
    <3>2. QED
      BY <3>1 DEF Sure, ContextExists
  <2>2. CASE q # p
    <3>1. /\ pc'[q] = pc[q] /\ after'[q] = after[q] /\ mem'[q] = mem[q]
          /\ arg'[q] = arg[q] /\ cid'[q] = cid[q]
      BY <2>2 DEF CopiesGood
    <3>2. Sure(pc[q], after[q], mem[q], arg[q], cid[q])
      BY DEF CopiesGood
    <3>3. QED
      BY <3>1, <3>2 DEF Sure, ContextExists
  <2>3. QED
    BY <2>1, <2>2
<1>5. QED
  BY <1>2, <1>3, <1>4 DEF CopiesGood

(* A process that ends, or is killed.                                      *)
LEMMA EndKeeps ==
  ASSUME CopiesGood, NEW p \in Procs, End(p),
         file' \in Configs \cup {Torn}, Readable' => Good(file)'
  PROVE  CopiesGood'
<1>1. Sure("idle", "idle", Empty, NoName, NoContainer)
  BY DEF Sure, Holding
<1>2. "idle" \in Steps /\ "idle" \in Afters
  BY DEF Steps, Afters
<1>3. QED
  BY <1>1, <1>2, EmptyGood, OneProcess DEF End, Goto, Set

(* A process that goes on to a Save.                                       *)
LEMMA SaveKeeps ==
  ASSUME CopiesGood, NEW p \in Procs, NEW c, Good(c), NEW then \in Afters,
         NEW name \in Names \cup {NoName},
         then = "use" => ContextExists(c, name),
         Saves(p, c, then), arg' = [arg EXCEPT ![p] = name],
         file' = file, cid' = cid
  PROVE  CopiesGood'
<1>1. Sure("save", then, c, name, cid[p])
  BY DEF Sure, Holding
<1>2. "save" \in Steps
  BY DEF Steps
<1>3. cid' = [cid EXCEPT ![p] = cid[p]] /\ cid[p] \in Ids \cup {NoContainer}
  BY DEF CopiesGood
<1>4. file' \in Configs \cup {Torn} /\ (Readable' => Good(file)')
  BY DEF CopiesGood, Readable, Good, Unique, Listed, ContextExists
<1>5. QED
  BY <1>1, <1>2, <1>3, <1>4, OneProcess DEF Saves, Goto, Set

(* A process that goes to step l with copy c.                              *)
LEMMA GotoKeeps ==
  ASSUME CopiesGood, NEW p \in Procs, NEW l \in Steps, NEW c, Good(c),
         NEW name \in Names \cup {NoName}, NEW id \in Ids \cup {NoContainer},
         Sure(l, after[p], c, name, id),
         Goto(p, l), mem' = [mem EXCEPT ![p] = c], after' = after,
         arg' = [arg EXCEPT ![p] = name], cid' = [cid EXCEPT ![p] = id],
         file' = file
  PROVE  CopiesGood'
<1>1. after' = [after EXCEPT ![p] = after[p]] /\ after[p] \in Afters
  BY DEF CopiesGood
<1>2. file' \in Configs \cup {Torn} /\ (Readable' => Good(file)')
  BY DEF CopiesGood, Readable, Good, Unique, Listed, ContextExists
<1>3. QED
  BY <1>1, <1>2, OneProcess DEF Goto, Set

(* A process that goes to step l and leaves its data alone.                *)
LEMMA MoveKeeps ==
  ASSUME CopiesGood, NEW p \in Procs, NEW l \in Steps,
         Sure(l, after[p], mem[p], arg[p], cid[p]),
         Goto(p, l), UNCHANGED <<mem, after, arg, cid, file>>
  PROVE  CopiesGood'
<1>1. /\ mem' = [mem EXCEPT ![p] = mem[p]] /\ arg' = [arg EXCEPT ![p] = arg[p]]
      /\ cid' = [cid EXCEPT ![p] = cid[p]]
      /\ Good(mem[p]) /\ arg[p] \in Names \cup {NoName}
      /\ cid[p] \in Ids \cup {NoContainer}
  BY DEF CopiesGood
<1>2. QED
  BY <1>1, GotoKeeps

(* A step that none of these variables takes part in.                      *)
LEMMA StillKeeps ==
  ASSUME CopiesGood, UNCHANGED <<file, pc, mem, after, arg, cid>>
  PROVE  CopiesGood'
BY DEF CopiesGood, Readable, Good, Unique, Listed, Sure, ContextExists

LEMMA PlainSaveKeeps ==
  ASSUME CopiesGood, NEW p \in Procs, NEW c, Good(c), NEW then \in Afters,
         then # "use", Saves(p, c, then), UNCHANGED <<file, arg, cid>>
  PROVE  CopiesGood'
<1>1. arg' = [arg EXCEPT ![p] = arg[p]] /\ arg[p] \in Names \cup {NoName}
  BY DEF CopiesGood
<1>2. QED
  BY <1>1, SaveKeeps
-----------------------------------------------------------------------------
(* The commands that only change the file.                                 *)
LEMMA WriteKeeps ==
  ASSUME CopiesGood, NEW p \in Procs, SaveBegins(p) \/ SaveEnds(p)
  PROVE  CopiesGood'
<1> USE DEF Afters
<1>1. CASE SaveBegins(p)
  <2>1. Sure("write", after[p], mem[p], arg[p], cid[p])
    BY <1>1 DEF SaveBegins, CopiesGood, Sure, Holding
  <2>2. "write" \in Steps
    BY DEF Steps
  <2>3. Empty \in Configs /\ Good(Empty)
    BY EmptyGood DEF Good
  <2>4. file' = Empty /\ (Readable' => Good(file)')
    BY <1>1, <2>3 DEF SaveBegins, Good, Unique, Listed, ContextExists
  <2>5. /\ mem' = [mem EXCEPT ![p] = mem[p]] /\ arg' = [arg EXCEPT ![p] = arg[p]]
        /\ after' = [after EXCEPT ![p] = after[p]] /\ cid' = [cid EXCEPT ![p] = cid[p]]
        /\ Good(mem[p]) /\ arg[p] \in Names \cup {NoName} /\ after[p] \in Afters
        /\ cid[p] \in Ids \cup {NoContainer}
    BY <1>1 DEF SaveBegins, locals, CopiesGood
  <2>6. QED
    <3>1. pc' = [pc EXCEPT ![p] = "write"]
      BY <1>1 DEF SaveBegins, Goto, Set
    <3>2. file' \in Configs \cup {Torn} /\ mem[p] \in Configs
      BY <2>3, <2>4 DEF CopiesGood
    <3>3. QED
      BY <2>1, <2>2, <2>4, <2>5, <3>1, <3>2, OneProcess
<1>2. CASE SaveEnds(p)
  <2>1. mem[p] \in Configs /\ Good(mem[p])
    BY DEF CopiesGood
  <2>2. file' \in Configs \cup {Torn} /\ (Readable' => Good(file)')
    BY <1>2, <2>1 DEF SaveEnds, Readable, Good, Unique, Listed, ContextExists
  <2>3. CASE after[p] = "idle"
    BY <1>2, <2>2, <2>3, EndKeeps DEF SaveEnds
  <2>4. CASE after[p] # "idle"
    <3>1. Sure(after[p], after[p], mem[p], arg[p], cid[p]) /\ after[p] \in Steps
      BY <1>2, <2>4 DEF SaveEnds, CopiesGood, Sure, Holding, Steps
    <3>2. /\ mem' = [mem EXCEPT ![p] = mem[p]] /\ arg' = [arg EXCEPT ![p] = arg[p]]
          /\ after' = [after EXCEPT ![p] = after[p]] /\ cid' = [cid EXCEPT ![p] = cid[p]]
          /\ arg[p] \in Names \cup {NoName} /\ after[p] \in Afters
          /\ cid[p] \in Ids \cup {NoContainer}
      BY <1>2, <2>4 DEF SaveEnds, locals, CopiesGood
    <3>3. pc' = [pc EXCEPT ![p] = after[p]]
      BY <1>2, <2>4 DEF SaveEnds, Goto, Set
    <3> DEFINE a == after[p]  c == mem[p]  name == arg[p]  id == cid[p]
    <3>4. /\ a \in Afters /\ a \in Steps /\ Good(c) /\ Sure(a, a, c, name, id)
          /\ name \in Names \cup {NoName} /\ id \in Ids \cup {NoContainer}
          /\ pc' = [pc EXCEPT ![p] = a] /\ mem' = [mem EXCEPT ![p] = c]
          /\ after' = [after EXCEPT ![p] = a] /\ arg' = [arg EXCEPT ![p] = name]
          /\ cid' = [cid EXCEPT ![p] = id]
      BY <2>1, <3>1, <3>2, <3>3
    <3> HIDE DEF a, c, name, id
    <3>5. QED
      BY <2>2, <3>4, OneProcess
  <2>5. QED
    BY <2>3, <2>4
<1>3. QED
  BY <1>1, <1>2

LEMMA AddKeeps ==
  ASSUME CopiesGood, NEW p \in Procs, AddEndpoint(p) \/ AddUser(p) \/ AddContext(p)
  PROVE  CopiesGood'
<1> USE DEF Afters
<1>0. Readable => file \in Configs /\ Good(file)
  BY DEF CopiesGood, Good
<1>1. CASE AddEndpoint(p)
  <2>0. PICK asked \in Asked : \E name \in Candidates(asked) :
          /\ UniqueEndpointName(file, asked, name)
          /\ Saves(p, WithEndpoint(file, name), "idle")
    BY <1>1 DEF AddEndpoint
  <2>1. PICK name \in Candidates(asked) :
          /\ UniqueEndpointName(file, asked, name)
          /\ Saves(p, WithEndpoint(file, name), "idle")
    BY <2>0
  <2>2. name \in Names /\ Good(file)
    BY <1>0, <1>1, CandidateNames, LifecycleAssumption DEF AddEndpoint
  <2>3. Good(WithEndpoint(file, name))
    BY <2>1, <2>2, EndpointNameFree, WithEndpointGood
  <2>4. QED
    BY <1>1, <2>1, <2>3, PlainSaveKeeps DEF AddEndpoint, Quiet
<1>2. CASE AddUser(p)
  <2>0. PICK asked \in Asked : \E name \in Candidates(asked) :
          /\ UniqueUserName(file, asked, name)
          /\ Saves(p, WithUser(file, name), "idle")
    BY <1>2 DEF AddUser
  <2>1. PICK name \in Candidates(asked) :
          /\ UniqueUserName(file, asked, name)
          /\ Saves(p, WithUser(file, name), "idle")
    BY <2>0
  <2>2. name \in Names /\ Good(file)
    BY <1>0, <1>2, CandidateNames, LifecycleAssumption DEF AddUser
  <2>3. Good(WithUser(file, name))
    BY <2>1, <2>2, UserNameFree, WithUserGood
  <2>4. QED
    BY <1>2, <2>1, <2>3, PlainSaveKeeps DEF AddUser, Quiet
<1>3. CASE AddContext(p)
  <2>0. Readable /\ Good(file) /\ file \in Configs
    BY <1>0, <1>3 DEF AddContext
  <2>1. PICK asked \in Asked, e \in file.endpoints,
             user \in {<<>>} \cup {u.name : u \in file.users} :
          \/ \E name \in Candidates(asked) :
               /\ UniqueContextName(file, asked, user, name)
               /\ Saves(p, WithContext(file, name, e.name, user), "use")
               /\ arg' = Set(arg, p, name)
          \/ Goto(p, "spin") /\ UNCHANGED <<mem, after, arg>>
    BY <1>3 DEF AddContext
  <2>2. e.name \in Names /\ user \in UserNames
    <3>1. \A u \in file.users : u.name \in UserNames
      BY <2>0 DEF Configs, Users
    <3>2. <<>> \in UserNames
      BY DEF UserNames
    <3>3. e.name \in Names
      BY <2>0 DEF Configs, Endpoints
    <3>4. QED
      BY <3>1, <3>2, <3>3
  <2>3. ASSUME NEW name \in Candidates(asked),
               UniqueContextName(file, asked, user, name),
               Saves(p, WithContext(file, name, e.name, user), "use"),
               arg' = Set(arg, p, name)
        PROVE  CopiesGood'
    <3>1. name \in Names
      BY CandidateNames, LifecycleAssumption
    <3>2. /\ Good(WithContext(file, name, e.name, user))
          /\ ContextExists(WithContext(file, name, e.name, user), name)
      BY <2>0, <2>2, <2>3, <3>1, ContextNameFree, WithContextGood
    <3>3. QED
      BY <1>3, <2>3, <3>1, <3>2, SaveKeeps DEF AddContext, Quiet, Set
  <2>4. CASE Goto(p, "spin") /\ UNCHANGED <<mem, after, arg>>
    <3>1. Sure("spin", after[p], mem[p], arg[p], cid[p]) /\ "spin" \in Steps
      BY DEF Sure, Holding, Steps
    <3>2. QED
      BY <1>3, <2>4, <3>1, MoveKeeps DEF AddContext, Quiet
  <2>5. QED
    BY <2>1, <2>3, <2>4
<1>4. QED
  BY <1>1, <1>2, <1>3

LEMMA UseKeeps ==
  ASSUME CopiesGood, NEW p \in Procs, Use(p) \/ UseContext(p)
  PROVE  CopiesGood'
<1> USE DEF Afters
<1>1. ASSUME NEW c, Good(c), NEW name, ContextExists(c, name)
      PROVE  Good([c EXCEPT !.current = name])
  <2>1. name \in Names
    BY <1>1 DEF ContextExists, Good, Configs, Contexts
  <2>2. QED
    BY <1>1, <2>1 DEF Good, Configs, Unique, Listed, ContextExists
<1>2. CASE Use(p)
  <2>1. Good(mem[p]) /\ ContextExists(mem[p], arg[p])
    BY <1>2 DEF Use, CopiesGood, Sure
  <2>2. QED
    BY <1>1, <1>2, <2>1, PlainSaveKeeps DEF Use, Quiet
<1>3. CASE UseContext(p)
  <2>1. Good(file)
    BY <1>3 DEF UseContext, CopiesGood
  <2>2. PICK x \in file.contexts : Saves(p, [file EXCEPT !.current = x.name], "idle")
    BY <1>3 DEF UseContext
  <2>3. Good([file EXCEPT !.current = x.name])
    BY <1>1, <2>1 DEF ContextExists
  <2>4. QED
    BY <1>3, <2>2, <2>3, PlainSaveKeeps DEF UseContext, Quiet
<1>4. QED
  BY <1>2, <1>3

LEMMA ConfigDeleteKeeps ==
  ASSUME CopiesGood, NEW p \in Procs,
         DeleteEndpoint(p) \/ DeleteUser(p) \/ DeleteContext(p)
  PROVE  CopiesGood'
<1> USE DEF Afters
<1>0. Readable => file \in Configs /\ Good(file)
  BY DEF CopiesGood, Good
<1>1. CASE DeleteEndpoint(p)
  BY <1>0, <1>1, WithoutEndpointGood, PlainSaveKeeps DEF DeleteEndpoint, Quiet
<1>2. CASE DeleteUser(p)
  BY <1>0, <1>2, WithoutUserGood, PlainSaveKeeps DEF DeleteUser, Quiet
<1>3. CASE DeleteContext(p)
  <2>0. Readable /\ Good(file) /\ file \in Configs /\ Unique(file)
    BY <1>0, <1>3 DEF DeleteContext, Good
  <2>1. PICK x \in file.contexts, cascade \in BOOLEAN :
          /\ arg' = Set(arg, p, x.name)
          /\ IF ~cascade
               THEN \E c \in WithoutContext(file, x.name) : Saves(p, c, "idle")
             ELSE IF EndpointExists(file, x.endpoint)
               THEN Saves(p, WithoutEndpoint(file, x.endpoint), "dropuser")
             ELSE /\ Goto(p, "dropuser")
                  /\ mem' = Set(mem, p, file)
                  /\ UNCHANGED after
    BY <1>3 DEF DeleteContext
  <2>2. x.name \in Names /\ arg' = [arg EXCEPT ![p] = x.name]
    BY <2>0, <2>1 DEF Configs, Contexts, Set
  <2>3. file' = file /\ cid' = cid
    BY <1>3 DEF DeleteContext, Quiet
  <2>4. CASE ~cascade
    <3>1. PICK c \in WithoutContext(file, x.name) : Saves(p, c, "idle")
      BY <2>1, <2>4
    <3>2. Good(c)
      BY <2>0, WithoutContextGood
    <3>3. QED
      BY <2>2, <2>3, <3>1, <3>2, SaveKeeps
  <2>5. CASE cascade /\ EndpointExists(file, x.endpoint)
    BY <2>0, <2>1, <2>2, <2>3, <2>5, WithoutEndpointGood, SaveKeeps
  <2>6. CASE cascade /\ ~EndpointExists(file, x.endpoint)
    <3>1. Sure("dropuser", after[p], file, x.name, cid[p]) /\ "dropuser" \in Steps
      BY DEF Sure, Holding, Steps
    <3>2. cid' = [cid EXCEPT ![p] = cid[p]] /\ cid[p] \in Ids \cup {NoContainer}
      BY <2>3 DEF CopiesGood
    <3>3. QED
      BY <2>0, <2>1, <2>2, <2>3, <2>6, <3>1, <3>2, GotoKeeps DEF Set
  <2>7. QED
    BY <2>4, <2>5, <2>6
<1>4. QED
  BY <1>1, <1>2, <1>3

LEMMA CascadeKeeps ==
  ASSUME CopiesGood, NEW p \in Procs, DropUser(p) \/ DropContext(p)
  PROVE  CopiesGood'
<1> USE DEF Afters
<1>0. Good(mem[p]) /\ mem[p] \in Configs /\ Unique(mem[p])
  BY DEF CopiesGood, Good
<1>1. CASE DropUser(p)
  <2>1. PICK x \in mem[p].contexts :
          IF x.user # <<>> /\ UserNameExists(mem[p], x.user)
            THEN Saves(p, WithoutUser(mem[p], x.user), "dropcontext")
            ELSE Goto(p, "dropcontext") /\ UNCHANGED <<mem, after>>
    BY <1>1 DEF DropUser
  <2>2. CASE Saves(p, WithoutUser(mem[p], x.user), "dropcontext")
    BY <1>0, <1>1, <2>2, WithoutUserGood, PlainSaveKeeps DEF DropUser, Quiet
  <2>3. CASE Goto(p, "dropcontext") /\ UNCHANGED <<mem, after>>
    <3>1. /\ Sure("dropcontext", after[p], mem[p], arg[p], cid[p])
          /\ "dropcontext" \in Steps
      BY DEF Sure, Holding, Steps
    <3>2. QED
      BY <1>1, <2>3, <3>1, MoveKeeps DEF DropUser, Quiet
  <2>4. QED
    BY <2>1, <2>2, <2>3
<1>2. CASE DropContext(p)
  BY <1>0, <1>2, WithoutContextGood, PlainSaveKeeps DEF DropContext, Quiet
<1>3. QED
  BY <1>1, <1>2
-----------------------------------------------------------------------------
(* The commands that make a container and that delete one.                 *)
LEMMA FileStays ==
  ASSUME CopiesGood, UNCHANGED file
  PROVE  file' \in Configs \cup {Torn} /\ (Readable' => Good(file)')
BY DEF CopiesGood, Readable, Good, Unique, Listed, ContextExists

LEMMA CreateKeeps ==
  ASSUME CopiesGood, NEW p \in Procs,
         Create(p) \/ ContainerCreate(p) \/ ContainerStart(p)
  PROVE  CopiesGood'
<1> USE DEF Steps
<1>0. Good(mem[p]) /\ mem[p] \in Configs /\ arg[p] \in Names \cup {NoName}
  BY DEF CopiesGood
<1>1. CASE Create(p)
  <2>1. PICK asked \in Asked : arg' = [arg EXCEPT ![p] = asked]
    BY <1>1 DEF Create, Set
  <2>2. Good(file) /\ asked \in Names
    BY <1>1, LifecycleAssumption DEF Create, CopiesGood
  <2>3. Sure("create", after[p], file, asked, cid[p])
    BY <2>2 DEF Sure, Holding
  <2>4. cid' = [cid EXCEPT ![p] = cid[p]] /\ cid[p] \in Ids \cup {NoContainer}
    BY <1>1 DEF Create, CopiesGood
  <2>5. QED
    BY <1>1, <2>1, <2>2, <2>3, <2>4, GotoKeeps DEF Create, Set, Quiet
<1>2. CASE ContainerCreate(p)
  <2>1. CASE End(p)
    BY <1>2, <2>1, FileStays, EndKeeps DEF ContainerCreate
  <2>2. CASE ~End(p)
    <3>1. PICK id \in Ids : /\ cid' = [cid EXCEPT ![p] = id]
                            /\ Goto(p, "starting")
                            /\ UNCHANGED <<mem, after, arg, forced>>
      BY <1>2, <2>2 DEF ContainerCreate, Set
    <3>2. Sure("starting", after[p], mem[p], arg[p], id)
      BY <1>2 DEF ContainerCreate, CopiesGood, Sure, Holding
    <3>3. mem' = [mem EXCEPT ![p] = mem[p]] /\ arg' = [arg EXCEPT ![p] = arg[p]]
      BY <3>1 DEF CopiesGood
    <3>4. QED
      BY <1>0, <1>2, <3>1, <3>2, <3>3, GotoKeeps DEF ContainerCreate
  <2>3. QED
    BY <2>1, <2>2
<1>3. CASE ContainerStart(p)
  <2>1. CASE End(p)
    BY <1>3, <2>1, FileStays, EndKeeps DEF ContainerStart
  <2>2. CASE ~End(p)
    <3>1. Goto(p, "created") /\ UNCHANGED locals
      BY <1>3, <2>2 DEF ContainerStart
    <3>2. Sure("created", after[p], mem[p], arg[p], cid[p])
      BY <1>3 DEF ContainerStart, CopiesGood, Sure, Holding
    <3>3. QED
      BY <1>3, <3>1, <3>2, MoveKeeps DEF ContainerStart, locals
  <2>3. QED
    BY <2>1, <2>2
<1>4. QED
  BY <1>1, <1>2, <1>3

LEMMA AddContainerKeeps ==
  ASSUME CopiesGood, NEW p \in Procs, AddContextWithContainer(p)
  PROVE  CopiesGood'
<1>1. Good(mem[p]) /\ arg[p] \in Names /\ cid[p] \in Ids
  BY DEF AddContextWithContainer, CopiesGood, Sure, Holding
<1>2. UNCHANGED <<file, arg, cid>>
  BY DEF AddContextWithContainer, Quiet
<1>3. ASSUME NEW name \in Candidates(arg[p]), NEW endpoint \in Candidates(name),
             UniqueContextName(mem[p], arg[p], <<OsUser>>, name),
             UniqueEndpointName(mem[p], name, endpoint),
             Saves(p, WithContainer(mem[p], name, endpoint, <<OsUser, name>>, cid[p]), "await")
      PROVE  CopiesGood'
  <2>1. name \in Names
    BY <1>1, CandidateNames
  <2>2. endpoint \in Names
    BY <2>1, CandidateNames
  <2>3. /\ ~ContextExists(mem[p], name) /\ ~LoginExists(mem[p], <<OsUser>>, name)
        /\ ~EndpointExists(mem[p], endpoint)
    BY <1>3, ContextNameFree, EndpointNameFree
  <2>4. Good(WithContainer(mem[p], name, endpoint, <<OsUser, name>>, cid[p]))
    BY <1>1, <2>1, <2>2, <2>3, WithContainerGood
  <2>5. QED
    BY <1>2, <1>3, <2>4, PlainSaveKeeps DEF Afters
<1>4. CASE Goto(p, "spin") /\ UNCHANGED <<mem, after>>
  <2>1. Sure("spin", after[p], mem[p], arg[p], cid[p]) /\ "spin" \in Steps
    BY DEF Sure, Holding, Steps
  <2>2. QED
    BY <1>2, <1>4, <2>1, MoveKeeps
<1>5. QED
  BY <1>3, <1>4 DEF AddContextWithContainer

LEMMA WaitKeeps ==
  ASSUME CopiesGood, NEW p \in Procs, ContainerWaitForLogEntry(p)
  PROVE  CopiesGood'
BY FileStays, EndKeeps DEF ContainerWaitForLogEntry, Quiet

LEMMA DeleteKeeps ==
  ASSUME CopiesGood, NEW p \in Procs, Delete(p)
  PROVE  CopiesGood'
<1>1. Good(file) /\ file \in Configs
  BY DEF Delete, CopiesGood, Good
<1>2. CASE CurrentContainers(file) = {}
  <2>1. PICK c \in WithoutCurrent(file) : Saves(p, c, "idle")
    BY <1>2 DEF Delete
  <2>2. Good(c)
    BY <1>1, WithoutCurrentGood
  <2>3. QED
    BY <1>2, <2>1, <2>2, PlainSaveKeeps DEF Delete, Quiet, Afters
<1>3. CASE CurrentContainers(file) # {}
  <2>1. PICK id \in CurrentContainers(file) : cid' = [cid EXCEPT ![p] = id]
    BY <1>3 DEF Delete, Set
  <2>2. id \in Ids
    BY <1>1 DEF CurrentContainers, CurrentEndpoints, Configs, Endpoints
  <2>3. Sure("confirm", after[p], file, arg[p], id) /\ "confirm" \in Steps
    BY <2>2 DEF Sure, Holding, Steps
  <2>4. arg' = [arg EXCEPT ![p] = arg[p]] /\ arg[p] \in Names \cup {NoName}
    BY DEF Delete, CopiesGood
  <2>5. QED
    BY <1>1, <1>3, <2>1, <2>2, <2>3, <2>4, GotoKeeps DEF Delete, Set, Quiet
<1>4. QED
  BY <1>2, <1>3

LEMMA CheckKeeps ==
  ASSUME CopiesGood, NEW p \in Procs, Confirm(p) \/ Check(p) \/ Verify(p)
  PROVE  CopiesGood'
<1>1. UNCHANGED file
  BY DEF Confirm, Check, Verify, Quiet
<1>2. CASE End(p)
  BY <1>1, <1>2, FileStays, EndKeeps
<1>3. CASE ~End(p)
  <2>1. PICK l \in {"check", "verify", "stop"} : Goto(p, l)
    BY <1>3 DEF Confirm, Check, Verify
  <2>2. UNCHANGED locals
    BY <1>3 DEF Confirm, Check, Verify
  <2>3. Sure(l, after[p], mem[p], arg[p], cid[p]) /\ l \in Steps
    BY DEF Confirm, Check, Verify, CopiesGood, Sure, Holding, Steps
  <2>4. QED
    BY <1>1, <2>1, <2>2, <2>3, MoveKeeps DEF locals
<1>4. QED
  BY <1>2, <1>3

LEMMA RemoveKeeps ==
  ASSUME CopiesGood, NEW p \in Procs, StopContainer(p) \/ RemoveContainer(p)
  PROVE  CopiesGood'
<1>1. UNCHANGED file /\ Good(mem[p])
  BY DEF StopContainer, RemoveContainer, CopiesGood
<1>2. CASE End(p)
  BY <1>1, <1>2, FileStays, EndKeeps
<1>3. CASE Goto(p, "remove") /\ UNCHANGED locals
  <2>1. Sure("remove", after[p], mem[p], arg[p], cid[p]) /\ "remove" \in Steps
    BY DEF StopContainer, RemoveContainer, CopiesGood, Sure, Holding, Steps
  <2>2. QED
    BY <1>1, <1>3, <2>1, MoveKeeps DEF locals
<1>4. ASSUME NEW c \in WithoutCurrent(mem[p]), Saves(p, c, "idle"),
             UNCHANGED <<arg, cid>>
      PROVE  CopiesGood'
  BY <1>1, <1>4, WithoutCurrentGood, PlainSaveKeeps DEF Afters
<1>5. QED
  BY <1>2, <1>3, <1>4 DEF StopContainer, RemoveContainer

(* Whatever step is taken.                                                 *)
LEMMA CopiesStayGood ==
  ASSUME CopiesGood, [Next]_vars
  PROVE  CopiesGood'
<1>1. ASSUME NEW p \in Procs, Starts(p)
      PROVE  CopiesGood'
  <2>1. CASE StartOrStop(p)
    BY <2>1, StillKeeps DEF StartOrStop, locals
  <2>2. QED
    BY <1>1, <2>1, AddKeeps, UseKeeps, ConfigDeleteKeeps, CreateKeeps, DeleteKeeps
       DEF Starts
<1>2. ASSUME NEW p \in Procs, Proceeds(p)
      PROVE  CopiesGood'
  BY <1>2, WriteKeeps, UseKeeps, CascadeKeeps, CreateKeeps, AddContainerKeeps,
     WaitKeeps, CheckKeeps, RemoveKeeps DEF Proceeds
<1>3. ASSUME NEW p \in Procs, Kill(p)
      PROVE  CopiesGood'
  BY <1>3, FileStays, EndKeeps DEF Kill, Quiet
<1>4. CASE Exits \/ Databases \/ UNCHANGED vars
  BY <1>4, StillKeeps DEF Exits, Databases, vars, locals
<1>5. QED
  BY <1>1, <1>2, <1>3, <1>4 DEF Next

-----------------------------------------------------------------------------
(* The rest of TypeOK.                                                     *)
RestTyped ==
  /\ containers \in [Ids -> {"never", "stopped", "running", "gone"}]
  /\ userdb \subseteq Ids
  /\ forced \in [Procs -> BOOLEAN]
  /\ started \in 0..MaxCommands /\ causes \subseteq Causes /\ lost \subseteq Ids

LEMMA BeginTyped ==
  ASSUME RestTyped, NEW p \in Procs, NEW notes \in SUBSET Causes, Begin(p, notes)
  PROVE  started' \in 0..MaxCommands /\ causes' \subseteq Causes
<1>1. started' \in 0..MaxCommands
  BY LifecycleAssumption DEF RestTyped, Begin
<1>2. causes' \subseteq Causes
  BY DEF RestTyped, Begin, Causes
<1>3. QED
  BY <1>1, <1>2

LEMMA StartsTyped ==
  ASSUME CopiesGood, RestTyped, NEW p \in Procs, Starts(p)
  PROVE  RestTyped'
<1>1. PICK notes \in SUBSET Causes : Begin(p, notes)
  <2>1. \A names : Drops(names) \in SUBSET Causes
    BY DEF Drops, Causes
  <2>2. {} \in SUBSET Causes /\ {"late"} \in SUBSET Causes
    BY DEF Causes
  <2>3. QED
    BY <2>1, <2>2 DEF Starts, AddEndpoint, AddUser, AddContext, UseContext, DeleteEndpoint,
                      DeleteUser, DeleteContext, Create, Delete, StartOrStop
<1>2. started' \in 0..MaxCommands /\ causes' \subseteq Causes
  BY <1>1, BeginTyped
<1>3. userdb' = userdb /\ lost' = lost
  BY DEF Starts, AddEndpoint, AddUser, AddContext, UseContext, DeleteEndpoint,
         DeleteUser, DeleteContext, Create, Delete, StartOrStop, Quiet, world
<1>4. forced' \in [Procs -> BOOLEAN]
  BY DEF RestTyped, Starts, AddEndpoint, AddUser, AddContext, UseContext, DeleteEndpoint,
         DeleteUser, DeleteContext, Create, Delete, StartOrStop, locals, Set
<1>5. containers' \in [Ids -> {"never", "stopped", "running", "gone"}]
  <2>1. CASE StartOrStop(p)
    BY <2>1 DEF RestTyped, StartOrStop, Set
  <2>2. CASE ~StartOrStop(p)
    BY <2>2 DEF RestTyped, Starts, AddEndpoint, AddUser, AddContext, UseContext,
                DeleteEndpoint, DeleteUser, DeleteContext, Create, Delete, Quiet, world
  <2>3. QED
    BY <2>1, <2>2
<1>6. QED
  BY <1>2, <1>3, <1>4, <1>5 DEF RestTyped

LEMMA ProceedsTyped ==
  ASSUME CopiesGood, RestTyped, NEW p \in Procs, Proceeds(p) \/ Kill(p)
  PROVE  RestTyped'
<1>1. started' = started /\ userdb' = userdb
  BY DEF Proceeds, SaveBegins, SaveEnds, Use, DropUser, DropContext, ContainerCreate,
         ContainerStart, AddContextWithContainer,
         ContainerWaitForLogEntry, Confirm, Check, Verify, StopContainer,
         RemoveContainer, Kill, Quiet, world
<1>2. forced' \in [Procs -> BOOLEAN]
  BY DEF RestTyped, Proceeds, SaveBegins, SaveEnds, Use, DropUser, DropContext,
         ContainerCreate, ContainerStart, AddContextWithContainer,
         ContainerWaitForLogEntry, Confirm, Check, Verify,
         StopContainer, RemoveContainer, Kill, End, locals, Set
<1>3. causes' \subseteq Causes
  BY DEF RestTyped, Proceeds, SaveBegins, SaveEnds, Use, DropUser, DropContext,
         ContainerCreate, ContainerStart, AddContextWithContainer,
         ContainerWaitForLogEntry, Confirm, Check, Verify,
         StopContainer, RemoveContainer, Kill, Causes
<1>4. lost' \subseteq Ids
  <2>1. CASE RemoveContainer(p)
    BY <2>1 DEF RestTyped, RemoveContainer
  <2>2. CASE ~RemoveContainer(p)
    BY <2>2 DEF RestTyped, Proceeds, SaveBegins, SaveEnds, Use, DropUser, DropContext,
                ContainerCreate, ContainerStart, AddContextWithContainer,
                ContainerWaitForLogEntry, Confirm, Check,
                Verify, StopContainer, Kill, Quiet
  <2>3. QED
    BY <2>1, <2>2
<1>5. containers' \in [Ids -> {"never", "stopped", "running", "gone"}]
  BY DEF RestTyped, Proceeds, SaveBegins, SaveEnds, Use, DropUser, DropContext,
         ContainerCreate, ContainerStart, AddContextWithContainer,
         ContainerWaitForLogEntry, Confirm, Check, Verify,
         StopContainer, RemoveContainer, Kill, Quiet, world, Set
<1>6. QED
  BY <1>1, <1>2, <1>3, <1>4, <1>5 DEF RestTyped

LEMMA RestStaysTyped ==
  ASSUME CopiesGood, RestTyped, [Next]_vars
  PROVE  RestTyped'
<1>1. CASE Exits
  BY <1>1 DEF RestTyped, Exits, locals, Set
<1>2. CASE Databases
  BY <1>2 DEF RestTyped, Databases, locals, Causes
<1>3. CASE UNCHANGED vars
  BY <1>3 DEF RestTyped, vars, world, locals
<1>4. QED
  BY <1>1, <1>2, <1>3, StartsTyped, ProceedsTyped DEF Next

Correct == CopiesGood /\ RestTyped

LEMMA CorrectAtFirst == Init => Correct
<1> SUFFICES ASSUME Init PROVE Correct
  OBVIOUS
<1>1. CopiesGood
  <2>1. Empty \in Configs
    BY EmptyGood DEF Good
  <2>2. \A p \in Procs : Good(mem[p])
    BY EmptyGood DEF Init
  <2>3. Good(file)
    BY EmptyGood DEF Init
  <2>4. QED
    BY <2>1, <2>2, <2>3 DEF CopiesGood, Init, Steps, Afters, Sure, Holding
<1>2. RestTyped
  BY LifecycleAssumption DEF Init, RestTyped
<1>3. QED
  BY <1>1, <1>2 DEF Correct

LEMMA StaysCorrect == Spec => []Correct
<1>1. Correct /\ [Next]_vars => Correct'
  BY CopiesStayGood, RestStaysTyped DEF Correct
<1>2. QED
  BY CorrectAtFirst, <1>1, PTL DEF Spec

(* Types: the file and every copy of it stay configurations, each process  *)
(* at one of its steps, with a name and a container where it needs them.   *)
THEOREM TypesCorrect == Spec => []TypeOK
<1>1. Correct => TypeOK
  BY DEF Correct, CopiesGood, RestTyped, TypeOK, Afters
<1>2. QED
  BY <1>1, StaysCorrect, PTL

(* No command, and no number of them at a time, gives one name to two      *)
(* contexts, endpoints or users of a file: FindUnique*Name look at the copy*)
(* that the Save writes.                                                   *)
THEOREM NamesStayUnique == Spec => []NamesUnique
<1>1. Correct => NamesUnique
  BY DEF Correct, CopiesGood, Good, NamesUnique
<1>2. QED
  BY <1>1, StaysCorrect, PTL

(* CurrentContext is always the name of a context there is, or empty: also *)
(* where a Save of an old copy undoes what another command has done.       *)
THEOREM CurrentStaysListed == Spec => []CurrentListed
<1>1. Correct => CurrentListed
  BY DEF Correct, CopiesGood, Good, CurrentListed
<1>2. QED
  BY <1>1, StaysCorrect, PTL

-----------------------------------------------------------------------------
(* What a delete that is beyond its check knows stays true, for no other   *)
(* command can start its container unseen: a container that create is still*)
(* to start is in no file and in no copy of one.                           *)

(* The containers a configuration names.                                   *)
Of(c) == {e.container : e \in c.endpoints} \ {NoContainer}

(* The containers that exist, or did, and that no create has yet to start. *)
Out == {id \in Ids : /\ containers[id] # "never"
                     /\ \A q \in Procs : pc[q] = "starting" => cid[q] # id}

OutKnown ==
  /\ Readable => Of(file) \subseteq Out
  /\ \A p \in Procs : Of(mem[p]) \subseteq Out
  /\ \A p \in Procs : pc[p] \in Holding \ {"starting"} => cid[p] \in Out
  /\ \A p \in Procs : pc[p] = "starting" => containers[cid[p]] # "never"
  /\ \A p, q \in Procs :
       pc[p] = "starting" /\ pc[q] = "starting" /\ cid[p] = cid[q] => p = q

(* What the operations of Sqlconfig do to the containers that are named.   *)
LEMMA OfOperations ==
  ASSUME NEW c \in Configs
  PROVE  /\ \A name : Of(WithEndpoint(c, name)) = Of(c)
         /\ \A name : Of(WithUser(c, name)) = Of(c)
         /\ \A name, endpoint, user : Of(WithContext(c, name, endpoint, user)) = Of(c)
         /\ \A name : Of([c EXCEPT !.current = name]) = Of(c)
         /\ \A name, endpoint, login, id :
              Of(WithContainer(c, name, endpoint, login, id)) \subseteq Of(c) \cup {id}
         /\ \A name : Of(WithoutEndpoint(c, name)) \subseteq Of(c)
         /\ \A name : Of(WithoutUser(c, name)) = Of(c)
         /\ \A name : \A d \in WithoutContext(c, name) : Of(d) = Of(c)
         /\ \A d \in WithoutCurrent(c) : Of(d) \subseteq Of(c)
         /\ CurrentContainers(c) \subseteq Of(c)
<1>1. \A name : Of(WithEndpoint(c, name)) = Of(c)
  BY DEF Of, WithEndpoint, Configs
<1>2. \A name, endpoint, login, id :
        Of(WithContainer(c, name, endpoint, login, id)) \subseteq Of(c) \cup {id}
  BY DEF Of, WithContainer, Configs
<1>3. \A name : Of(WithUser(c, name)) = Of(c) /\ Of(WithoutUser(c, name)) = Of(c)
  BY DEF Of, WithUser, WithoutUser, Configs
<1>4. \A name, endpoint, user : Of(WithContext(c, name, endpoint, user)) = Of(c)
  BY DEF Of, WithContext, Configs
<1>5. \A name : /\ Of([c EXCEPT !.current = name]) = Of(c)
                /\ Of(WithoutEndpoint(c, name)) \subseteq Of(c)
  BY DEF Of, WithoutEndpoint, Configs
<1>6. \A b \in Configs : \A name : \A d \in WithoutContext(b, name) : Of(d) = Of(b)
  BY DEF Of, WithoutContext, Configs
<1>7. \A d \in WithoutCurrent(c) : Of(d) \subseteq Of(c)
  <2> DEFINE b == [c EXCEPT !.endpoints = @ \ CurrentEndpoints(c),
                            !.users = {u \in @ : \A x \in CurrentContexts(c) : x.user # u.name}]
  <2>1. b \in Configs
    BY DEF Configs
  <2>2. Of(b) \subseteq Of(c)
    <3>1. b.endpoints \subseteq c.endpoints
      BY DEF Configs
    <3>2. QED
      BY <3>1 DEF Of
  <2>3. WithoutCurrent(c) = WithoutContext(b, c.current)
    BY DEF WithoutCurrent
  <2> HIDE DEF b
  <2>4. \A d \in WithoutContext(b, c.current) : Of(d) = Of(b)
    BY <1>6, <2>1
  <2>5. QED
    BY <2>2, <2>3, <2>4
<1>8. CurrentContainers(c) \subseteq Of(c)
  BY DEF CurrentContainers, CurrentEndpoints, Of
<1>9. QED
  BY <1>1, <1>2, <1>3, <1>4, <1>5, <1>6, <1>7, <1>8

(* The containers a process knows, apart from one it is starting.          *)
Seen(p) == Of(mem[p]) \cup (IF Readable THEN Of(file) ELSE {})
                      \cup (IF pc[p] \in Holding \ {"starting"} THEN {cid[p]} ELSE {})

(* What a step of a process does to what the invariant is about.           *)
StepOf(p) ==
  /\ \A q \in Procs \ {p} : /\ pc'[q] = pc[q] /\ mem'[q] = mem[q]
                            /\ cid'[q] = cid[q] /\ forced'[q] = forced[q]
  /\ file' \in {file, Empty, Torn, mem[p]}
  /\ Of(mem'[p]) \subseteq Seen(p)
  /\ \A id \in Ids : containers[id] # "never" => containers'[id] # "never"
  /\ pc'[p] = "starting" => /\ cid'[p] \in Ids /\ containers[cid'[p]] = "never"
                            /\ containers'[cid'[p]] # "never"
  /\ pc'[p] \in Holding \ {"starting"} =>
       cid'[p] \in Seen(p) \/ (pc[p] = "starting" /\ cid'[p] = cid[p])

LEMMA OutGrows ==
  ASSUME Correct, OutKnown, NEW p \in Procs, StepOf(p)
  PROVE  Out \subseteq Out'
<1>1. SUFFICES ASSUME NEW id \in Out, NEW q \in Procs, pc'[q] = "starting"
               PROVE  cid'[q] # id
  BY DEF Out, StepOf
<1>2. CASE q = p
  BY <1>1, <1>2 DEF Out, StepOf
<1>3. CASE q # p
  BY <1>1, <1>3 DEF Out, StepOf
<1>4. QED
  BY <1>2, <1>3

LEMMA StepKeepsOut ==
  ASSUME Correct, OutKnown, NEW p \in Procs, StepOf(p)
  PROVE  OutKnown'
<1>1. Out \subseteq Out'
  BY OutGrows
<1>2. Seen(p) \subseteq Out
  BY DEF OutKnown, Seen
<1>3. Readable' => Of(file') \subseteq Out'
  <2>1. Of(Empty) = {}
    BY DEF Of, Empty
  <2>2. Of(mem[p]) \subseteq Out
    BY DEF OutKnown
  <2>3. QED
    BY <1>1, <2>1, <2>2 DEF OutKnown, StepOf, Readable
<1>4. \A q \in Procs : Of(mem'[q]) \subseteq Out'
  BY <1>1, <1>2 DEF OutKnown, StepOf
<1>5. ASSUME NEW q \in Procs, pc'[q] \in Holding \ {"starting"}
      PROVE  cid'[q] \in Out'
  <2>1. CASE q # p
    BY <1>1, <1>5, <2>1 DEF OutKnown, StepOf
  <2>2. CASE q = p /\ cid'[p] \in Seen(p)
    BY <1>1, <1>2, <2>2
  <2>3. CASE q = p /\ pc[p] = "starting" /\ cid'[p] = cid[p]
    <3>1. cid[p] \in Ids
      BY <2>3 DEF Correct, CopiesGood, Sure, Holding
    <3>2. containers'[cid[p]] # "never"
      BY <2>3, <3>1 DEF OutKnown, StepOf
    <3>3. \A r \in Procs : pc'[r] = "starting" => cid'[r] # cid[p]
      BY <1>5, <2>3 DEF OutKnown, StepOf
    <3>4. QED
      BY <2>3, <3>1, <3>2, <3>3 DEF Out
  <2>4. QED
    BY <1>5, <2>1, <2>2, <2>3 DEF StepOf
<1>6. \A q \in Procs : pc'[q] = "starting" => containers'[cid'[q]] # "never"
  <2>1. \A q \in Procs : pc[q] = "starting" => cid[q] \in Ids
    BY DEF Correct, CopiesGood, Sure, Holding
  <2>2. QED
    BY <2>1 DEF OutKnown, StepOf
<1>7. ASSUME NEW q \in Procs, NEW r \in Procs,
             pc'[q] = "starting", pc'[r] = "starting", cid'[q] = cid'[r]
      PROVE  q = r
  BY <1>7 DEF OutKnown, StepOf
<1>8. QED
  BY <1>3, <1>4, <1>5, <1>6, <1>7 DEF OutKnown, Of

LEMMA EmptyOf == Of(Empty) = {}
BY DEF Of, Empty

(* The commands that do not stay away from containers: create and delete.  *)
LEMMA StartsStep ==
  ASSUME Correct, NEW p \in Procs, Starts(p)
  PROVE  StepOf(p)
<1> USE DEF Starts, AddEndpoint, AddUser, AddContext, UseContext, DeleteEndpoint,
            DeleteUser, DeleteContext, Create, Delete, StartOrStop
<1>0. /\ pc[p] = "idle" /\ Readable /\ file \in Configs
      /\ mem \in [Procs -> Configs] /\ pc \in [Procs -> Steps]
      /\ cid \in [Procs -> Ids \cup {NoContainer}] /\ forced \in [Procs -> BOOLEAN]
  BY DEF Begin, Correct, CopiesGood, RestTyped, Readable
<1>1. \A q \in Procs \ {p} : /\ pc'[q] = pc[q] /\ mem'[q] = mem[q]
                             /\ cid'[q] = cid[q] /\ forced'[q] = forced[q]
  BY <1>0 DEF Saves, Goto, Set, locals
<1>2. file' = file
  BY DEF Quiet
<1>3. \A id \in Ids : containers[id] # "never" => containers'[id] # "never"
  <2>1. CASE StartOrStop(p)
    BY <2>1 DEF Correct, RestTyped, Set
  <2>2. CASE ~StartOrStop(p)
    BY <2>2 DEF Quiet, world
  <2>3. QED
    BY <2>1, <2>2
<1>4. Of(mem'[p]) \subseteq Of(mem[p]) \cup Of(file)
  <2>1. CASE AddEndpoint(p) \/ AddUser(p) \/ UseContext(p)
    <3>1. PICK c, name : /\ mem' = [mem EXCEPT ![p] = c]
                         /\ \/ c = WithEndpoint(file, name) \/ c = WithUser(file, name)
                            \/ c = [file EXCEPT !.current = name]
      BY <2>1 DEF Saves, Set
    <3>2. Of(c) = Of(file)
      <4>1. Of([file EXCEPT !.current = name]) = Of(file)
        BY <1>0, OfOperations
      <4>2. Of(WithEndpoint(file, name)) = Of(file) /\ Of(WithUser(file, name)) = Of(file)
        BY <1>0, OfOperations
      <4>3. QED
        BY <3>1, <4>1, <4>2
    <3>3. QED
      BY <1>0, <3>1, <3>2
  <2>2. CASE AddContext(p)
    <3>1. mem' = mem \/ \E name, endpoint, user :
                          mem' = [mem EXCEPT ![p] = WithContext(file, name, endpoint, user)]
      BY <2>2 DEF Saves, Set
    <3>2. QED
      BY <1>0, <3>1, OfOperations
  <2>3. CASE DeleteEndpoint(p) \/ DeleteUser(p)
    <3>1. \E c : /\ mem' = [mem EXCEPT ![p] = c]
                 /\ \E name : c \in {WithoutEndpoint(file, name), WithoutUser(file, name)}
      BY <2>3 DEF Saves, Set
    <3>2. QED
      BY <1>0, <3>1, OfOperations
  <2>4. CASE DeleteContext(p)
    <3>1. \E c : /\ mem' = [mem EXCEPT ![p] = c]
                 /\ \/ c = file
                    \/ \E name : c \in WithoutContext(file, name) \/ c = WithoutEndpoint(file, name)
      BY <2>4 DEF Saves, Set
    <3>2. QED
      BY <1>0, <3>1, OfOperations
  <2>5. CASE Create(p) \/ StartOrStop(p)
    BY <1>0, <2>5 DEF Set, locals
  <2>6. CASE Delete(p)
    <3>1. \E c : /\ mem' = [mem EXCEPT ![p] = c]
                 /\ c = file \/ c \in WithoutCurrent(file)
      BY <2>6 DEF Saves, Set
    <3>2. QED
      BY <1>0, <3>1, OfOperations
  <2>7. QED
    BY <2>1, <2>2, <2>3, <2>4, <2>5, <2>6
<1>5. pc'[p] # "starting"
  BY <1>0 DEF Saves, Goto, Set
<1>6. pc'[p] \in Holding => cid'[p] \in Of(file)
  <2>1. CASE Delete(p)
    <3>1. CurrentContainers(file) \subseteq Of(file)
      BY <1>0, OfOperations
    <3>2. QED
      BY <1>0, <2>1, <3>1 DEF Saves, Goto, Set, Holding
  <2>2. CASE ~Delete(p)
    BY <1>0, <2>2 DEF Saves, Goto, Set, Holding
  <2>3. QED
    BY <2>1, <2>2
<1>7. Of(file) \subseteq Seen(p)
  BY <1>0 DEF Seen
<1>8. QED
  BY <1>1, <1>2, <1>3, <1>4, <1>5, <1>6, <1>7 DEF StepOf, Seen

LEMMA ProceedsStep ==
  ASSUME Correct, NEW p \in Procs, Proceeds(p) \/ Kill(p)
  PROVE  StepOf(p)
<1> USE DEF Proceeds, SaveBegins, SaveEnds, Use, DropUser, DropContext, ContainerCreate,
            ContainerStart, AddContextWithContainer,
            ContainerWaitForLogEntry, Confirm, Check, Verify,
            StopContainer, RemoveContainer, Kill
<1>0. /\ mem \in [Procs -> Configs] /\ pc \in [Procs -> Steps] /\ after \in [Procs -> Afters]
      /\ cid \in [Procs -> Ids \cup {NoContainer}] /\ forced \in [Procs -> BOOLEAN]
      /\ containers \in [Ids -> {"never", "stopped", "running", "gone"}]
      /\ pc[p] \in Holding => cid[p] \in Ids
  BY DEF Correct, CopiesGood, RestTyped, Sure
<1>1. \A q \in Procs \ {p} : /\ pc'[q] = pc[q] /\ mem'[q] = mem[q]
                             /\ cid'[q] = cid[q] /\ forced'[q] = forced[q]
  BY <1>0 DEF Saves, Goto, End, Set, locals
<1>2. file' \in {file, Empty, Torn, mem[p]}
  BY DEF Quiet
<1>3. \A id \in Ids : containers[id] # "never" => containers'[id] # "never"
  BY <1>0 DEF Quiet, world, Set
<1>4. Of(mem'[p]) \subseteq Of(mem[p]) \cup IF pc[p] = "created" THEN {cid[p]} ELSE {}
  <2>0. mem[p] \in Configs
    BY <1>0
  <2>1. CASE AddContextWithContainer(p)
    <3>1. mem' = mem \/ \E name, endpoint, login :
                          mem' = [mem EXCEPT ![p] = WithContainer(mem[p], name, endpoint, login, cid[p])]
      BY <2>1 DEF Saves, Set
    <3>2. QED
      BY <1>0, <2>0, <2>1, <3>1, OfOperations
  <2>2. CASE mem' = mem \/ End(p)
    BY <1>0, <2>2, EmptyOf DEF End, Set
  <2>3. CASE Use(p)
    BY <1>0, <2>0, <2>3, OfOperations DEF Saves, Set
  <2>4. CASE (DropUser(p) \/ DropContext(p)) /\ mem' # mem
    <3>1. \E c : /\ mem' = [mem EXCEPT ![p] = c]
                 /\ \E name : c \in WithoutContext(mem[p], name) \/ c = WithoutUser(mem[p], name)
      BY <2>4 DEF Saves, Set
    <3>2. QED
      BY <1>0, <2>0, <3>1, OfOperations
  <2>5. CASE \E c \in WithoutCurrent(mem[p]) : Saves(p, c, "idle")
    BY <1>0, <2>0, <2>5, OfOperations DEF Saves, Set
  <2>6. QED
    BY <2>1, <2>2, <2>3, <2>4, <2>5 DEF locals
<1>5. pc'[p] = "starting" => /\ cid'[p] \in Ids /\ containers[cid'[p]] = "never"
                             /\ containers'[cid'[p]] # "never"
  <2>1. CASE ContainerCreate(p)
    BY <1>0, <2>1 DEF Goto, End, Set
  <2>2. CASE ~ContainerCreate(p)
    <3>1. pc'[p] # "starting"
      BY <1>0, <2>2 DEF Saves, Goto, End, Set, Afters
    <3>2. QED
      BY <3>1
  <2>3. QED
    BY <2>1, <2>2
<1>6. pc'[p] \in Holding \ {"starting"} => pc[p] \in Holding /\ cid'[p] = cid[p]
  BY <1>0 DEF Saves, Goto, End, Set, Afters, Holding, locals
<1>7. QED
  BY <1>1, <1>2, <1>3, <1>4, <1>5, <1>6 DEF StepOf, Seen, Holding

LEMMA StillKeepsOut ==
  ASSUME Correct, OutKnown, UNCHANGED <<file, pc, mem, cid>>,
         \A id \in Ids : containers[id] # "never" => containers'[id] # "never"
  PROVE  OutKnown'
<1>1. Out \subseteq Out'
  BY DEF Out
<1>2. \A p \in Procs : pc[p] = "starting" => cid[p] \in Ids
  BY DEF Correct, CopiesGood, Sure, Holding
<1>3. QED
  BY <1>1, <1>2 DEF OutKnown, Of, Readable

LEMMA OutStaysKnown ==
  ASSUME Correct, OutKnown, [Next]_vars
  PROVE  OutKnown'
<1>1. CASE Exits
  BY <1>1, StillKeepsOut DEF Exits, Correct, RestTyped, Set, locals
<1>2. CASE Databases \/ UNCHANGED vars
  BY <1>2, StillKeepsOut DEF Databases, vars, world, locals
<1>3. QED
  BY <1>1, <1>2, StartsStep, ProceedsStep, StepKeepsOut DEF Next

-----------------------------------------------------------------------------
(* A delete without --force that is to remove a container knows that there *)
(* is no user database in it; one that is to stop it, that there is none or*)
(* that it does not run, and will not be stopped by it.                    *)
Safe(p) ==
  pc[p] \in {"stop", "remove"} /\ ~forced[p] =>
    \/ "late" \in causes
    \/ cid[p] \notin userdb
    \/ pc[p] = "stop" /\ containers[cid[p]] # "running"

AllSafe == \A p \in Procs : Safe(p)

LEMMA StartsKeepSafe ==
  ASSUME Correct, OutKnown, AllSafe, NEW p \in Procs, Starts(p)
  PROVE  AllSafe'
<1>1. StepOf(p)
  BY StartsStep
<1>2. userdb' = userdb /\ causes \subseteq causes' /\ pc[p] = "idle"
  BY DEF Starts, AddEndpoint, AddUser, AddContext, UseContext, DeleteEndpoint, DeleteUser,
         DeleteContext, Create, Delete, StartOrStop, Begin, Quiet, world
<1>3. pc'[p] \notin {"stop", "remove"}
  BY <1>2 DEF Starts, AddEndpoint, AddUser, AddContext, UseContext, DeleteEndpoint,
              DeleteUser, DeleteContext, Create, Delete, StartOrStop, Saves, Goto, Set,
              Correct, CopiesGood
<1>4. ASSUME NEW q \in Procs, q # p, pc[q] = "stop", containers[cid[q]] # "running"
      PROVE  containers'[cid[q]] # "running" \/ "late" \in causes'
  <2>1. CASE StartOrStop(p)
    <3>1. PICK id \in CurrentContainers(file), to \in {"running", "stopped"} :
            /\ Begin(p, IF PastCheck(id) /\ to = "running" THEN {"late"} ELSE {})
            /\ containers' = [containers EXCEPT ![id] = to]
      BY <2>1 DEF StartOrStop, Set
    <3>2. CASE id = cid[q] /\ to = "running"
      BY <1>4, <3>1, <3>2 DEF PastCheck, Begin
    <3>3. CASE id # cid[q] \/ to = "stopped"
      BY <1>4, <3>1, <3>3 DEF Correct, RestTyped
    <3>4. QED
      BY <3>2, <3>3
  <2>2. CASE ~StartOrStop(p)
    BY <1>4, <2>2 DEF Starts, AddEndpoint, AddUser, AddContext, UseContext, DeleteEndpoint,
                      DeleteUser, DeleteContext, Create, Delete, Quiet, world
  <2>3. QED
    BY <2>1, <2>2
<1>5. QED
  BY <1>1, <1>2, <1>3, <1>4 DEF AllSafe, Safe, StepOf

(* The step of the process itself: its check, and what follows it.         *)
LEMMA OwnStepSafe ==
  ASSUME Correct, NEW p \in Procs, Safe(p), Proceeds(p) \/ Kill(p)
  PROVE  Safe(p)'
<1> USE DEF Proceeds, SaveBegins, SaveEnds, Use, DropUser, DropContext, ContainerCreate,
            ContainerStart, AddContextWithContainer,
            ContainerWaitForLogEntry, Confirm, Check, Verify,
            StopContainer, RemoveContainer, Kill
<1>0. /\ pc \in [Procs -> Steps] /\ after \in [Procs -> Afters]
      /\ cid \in [Procs -> Ids \cup {NoContainer}]
      /\ pc[p] \in Holding => cid[p] \in Ids
      /\ containers \in [Ids -> {"never", "stopped", "running", "gone"}]
  BY DEF Correct, CopiesGood, RestTyped, Sure
<1>1. SUFFICES ASSUME pc'[p] \in {"stop", "remove"} PROVE Safe(p)'
  BY DEF Safe
<1>2. Check(p) \/ Verify(p) \/ StopContainer(p)
  BY <1>0, <1>1 DEF Saves, Goto, End, Set, Afters
<1>3. UNCHANGED <<cid, forced, userdb>> /\ causes' = causes
  BY <1>0, <1>1, <1>2 DEF Saves, Goto, End, Set, Quiet, world, locals
<1>4. CASE Check(p)
  BY <1>0, <1>3, <1>4 DEF Safe, Goto, Set, ContainerExists, Quiet, world
<1>5. CASE Verify(p)
  BY <1>0, <1>1, <1>3, <1>5 DEF Safe, Goto, End, Set
<1>6. CASE StopContainer(p)
  BY <1>0, <1>1, <1>3, <1>6 DEF Safe, Goto, End, Saves, Set, ContainerExists
<1>7. QED
  BY <1>2, <1>4, <1>5, <1>6

LEMMA ProceedsKeepSafe ==
  ASSUME Correct, OutKnown, AllSafe, NEW p \in Procs, Proceeds(p) \/ Kill(p)
  PROVE  AllSafe'
<1>1. StepOf(p) /\ Safe(p)'
  BY ProceedsStep, OwnStepSafe DEF AllSafe
<1>2. userdb' = userdb /\ causes \subseteq causes'
  BY DEF Proceeds, SaveBegins, SaveEnds, Use, DropUser, DropContext, ContainerCreate,
         ContainerStart, AddContextWithContainer,
         ContainerWaitForLogEntry, Confirm, Check, Verify, StopContainer,
         RemoveContainer, Kill, Quiet, world
<1>3. ASSUME NEW id \in Ids, containers[id] # "running", containers'[id] = "running"
      PROVE  pc[p] = "starting" /\ cid[p] = id
  BY <1>3 DEF Proceeds, SaveBegins, SaveEnds, Use, DropUser, DropContext, ContainerCreate,
         ContainerStart, AddContextWithContainer,
         ContainerWaitForLogEntry, Confirm, Check, Verify, StopContainer,
         RemoveContainer, Kill, Quiet, world, Set, Correct, RestTyped
<1>4. ASSUME NEW q \in Procs, q # p, pc[q] = "stop", containers[cid[q]] # "running"
      PROVE  containers'[cid[q]] # "running"
  <2>1. cid[q] \in Out
    BY <1>4 DEF OutKnown, Holding
  <2>2. QED
    BY <1>3, <1>4, <2>1 DEF Out
<1>5. QED
  BY <1>1, <1>2, <1>4 DEF AllSafe, Safe, StepOf

LEMMA StaysSafe ==
  ASSUME Correct, OutKnown, AllSafe, [Next]_vars
  PROVE  AllSafe'
<1>1. CASE Exits
  BY <1>1 DEF Exits, AllSafe, Safe, Correct, RestTyped, Set, locals
<1>2. CASE Databases
  <2>1. PICK id \in Ids : /\ userdb' \in {userdb \cup {id}, userdb \ {id}}
                          /\ causes' = causes \cup IF PastCheck(id) THEN {"late"} ELSE {}
    BY <1>2 DEF Databases
  <2>2. UNCHANGED <<pc, cid, forced, containers>>
    BY <1>2 DEF Databases, locals
  <2>3. QED
    BY <2>1, <2>2 DEF AllSafe, Safe, PastCheck
<1>3. CASE UNCHANGED vars
  BY <1>3 DEF AllSafe, Safe, vars, world, locals
<1>4. QED
  BY <1>1, <1>2, <1>3, StartsKeepSafe, ProceedsKeepSafe DEF Next

LEMMA DataStaysKept ==
  ASSUME AllSafe, DataKept, [Next]_vars
  PROVE  DataKept'
<1>1. causes \subseteq causes'
  <2>1. CASE \E p \in Procs : Starts(p)
    BY <2>1 DEF Starts, AddEndpoint, AddUser, AddContext, UseContext, DeleteEndpoint,
         DeleteUser, DeleteContext, Create, Delete, StartOrStop, Begin
  <2>2. CASE \E p \in Procs : Proceeds(p)
    <3>1. PICK p \in Procs : Proceeds(p)
      BY <2>2
    <3>2. CASE StopContainer(p) \/ ContainerStart(p)
      BY <3>2 DEF StopContainer, ContainerStart
    <3>3. CASE ~(StopContainer(p) \/ ContainerStart(p))
      BY <3>1, <3>3 DEF Proceeds, SaveBegins, SaveEnds, Use, DropUser, DropContext,
           ContainerCreate, AddContextWithContainer,
           ContainerWaitForLogEntry, Confirm, Check, Verify,
           RemoveContainer
    <3>4. QED
      BY <3>2, <3>3
  <2>3. CASE \E p \in Procs : Kill(p)
    BY <2>3 DEF Kill
  <2>4. CASE Exits \/ Databases \/ UNCHANGED vars
    BY <2>4 DEF Exits, Databases, vars
  <2>5. QED
    BY <2>1, <2>2, <2>3, <2>4 DEF Next
<1>2. CASE \E p \in Procs : RemoveContainer(p)
  BY <1>1, <1>2 DEF RemoveContainer, AllSafe, Safe, DataKept
<1>3. CASE ~\E p \in Procs : RemoveContainer(p)
  <2>1. lost' = lost
    BY <1>3 DEF Next, Starts, AddEndpoint, AddUser, AddContext, UseContext, DeleteEndpoint,
         DeleteUser, DeleteContext, Create, Delete, StartOrStop, Quiet,
         Proceeds, SaveBegins, SaveEnds, Use, DropUser, DropContext, ContainerCreate,
         ContainerStart, AddContextWithContainer,
         ContainerWaitForLogEntry, Confirm, Check, Verify, StopContainer,
         Kill, Exits, Databases, vars
  <2>2. QED
    BY <1>1, <2>1 DEF DataKept
<1>4. QED
  BY <1>2, <1>3

(* delete without --force removes no container with a user database, with  *)
(* any number of commands at a time and each killed anywhere, unless a     *)
(* database is created, or the container started, after                    *)
(* userDatabaseSafetyCheck or after ContainerExists has not seen it run.   *)
THEOREM DataStays == Spec => []DataKept
<1>1. Init => OutKnown /\ AllSafe /\ DataKept
  <2> SUFFICES ASSUME Init PROVE OutKnown /\ AllSafe /\ DataKept
    OBVIOUS
  <2>1. OutKnown
    BY EmptyOf DEF Init, OutKnown, Holding
  <2>2. AllSafe /\ DataKept
    BY DEF Init, AllSafe, Safe, DataKept
  <2>3. QED
    BY <2>1, <2>2
<1>2. Correct /\ OutKnown /\ AllSafe /\ DataKept /\ [Next]_vars
        => OutKnown' /\ AllSafe' /\ DataKept'
  BY OutStaysKnown, StaysSafe, DataStaysKept
<1>3. QED
  BY StaysCorrect, <1>1, <1>2, PTL DEF Spec

-----------------------------------------------------------------------------
(* Commands that run one at a time and to their end.  CurrentChosen and    *)
(* NoOrphan speak of the moments between two commands; Alone and Kept      *)
(* follow the one command through its steps and its Saves: while it only   *)
(* reads, its copy is the file, and while it writes, the file is empty and *)
(* its copy holds everything.                                              *)

(* Nothing has been killed, and no two commands have run at a time.        *)
Calm == causes \cap {"killed", "overlap"} = {}

(* Nothing has happened that can lose a container.                         *)
Clean == causes \subseteq {"late"}

Chosen(c) == c.contexts # {} => c.current # NoName

Deleting == {"confirm", "check", "verify", "stop", "remove"}

(* Steps that leave the file as it was when the command started.           *)
Reading == {"create", "starting", "created", "await"} \cup Deleting

(* A process at step l, bound for step a, with copy c and container id,    *)
(* when the file holds f.                                                  *)
Local(l, a, c, id, f) ==
  /\ l \in Reading => c = f /\ Chosen(f)
  /\ l = "write" => f = Empty
  /\ l \in {"save", "write"} /\ a \in {"idle", "await"} => Chosen(c)
  /\ l \in Deleting => CurrentContainers(c) \subseteq {id}

Alone ==
  Calm => /\ Readable
          /\ \A p, q \in Procs : pc[p] # "idle" /\ pc[q] # "idle" => p = q
          /\ AllIdle => Chosen(file)
          /\ \A p \in Procs : Local(pc[p], after[p], mem[p], cid[p], file)

Alive == {id \in Ids : containers[id] \in {"stopped", "running"}}

(* The container a create has made and not yet entered.                    *)
Begun(l, id) == IF l \in {"starting", "created"} THEN {id} ELSE {}

Kept ==
  Clean => /\ AllIdle => Alive \subseteq Of(file)
           /\ \A p \in Procs : pc[p] \notin {"idle", "spin"} =>
                Alive \subseteq Of(mem[p]) \cup Begun(pc[p], cid[p])

(* A step of p, by which the others were idle if it leaves things calm.    *)
Moves(p) ==
  /\ Correct /\ Alone /\ Kept /\ causes \subseteq causes'
  /\ Calm' => \A q \in Procs \ {p} : pc[q] = "idle"

LEMMA CleanIsCalm == (Clean => Calm) /\ (Clean' => Calm')
BY DEF Clean, Calm

LEMMA CalmBefore ==
  ASSUME causes \subseteq causes' PROVE (Calm' => Calm) /\ (Clean' => Clean)
BY DEF Clean, Calm

LEMMA StepAlone ==
  ASSUME NEW p \in Procs, Moves(p),
         NEW l \in Steps, NEW c \in Configs, NEW a \in Afters,
         NEW id \in Ids \cup {NoContainer},
         pc' = [pc EXCEPT ![p] = l], mem' = [mem EXCEPT ![p] = c],
         after' = [after EXCEPT ![p] = a], cid' = [cid EXCEPT ![p] = id],
         Calm' => /\ Readable' /\ (l = "idle" => Chosen(file'))
                  /\ Local(l, a, c, id, file'),
         Clean' => /\ l = "idle" => Alive' \subseteq Of(file')
                   /\ l \notin {"idle", "spin"} =>
                        Alive' \subseteq Of(c) \cup Begun(l, id)
  PROVE  Alone' /\ Kept'
<1>1. /\ pc'[p] = l /\ mem'[p] = c /\ after'[p] = a /\ cid'[p] = id
      /\ \A q \in Procs \ {p} : pc'[q] = pc[q]
  BY DEF Moves, Correct, CopiesGood
<1>2. ASSUME Calm' PROVE \A q \in Procs : pc'[q] # "idle" => q = p
  BY <1>1, <1>2 DEF Moves
<1>3. ASSUME Calm', AllIdle' PROVE l = "idle"
  BY <1>1, <1>3 DEF AllIdle
<1>4. Alone'
  <2> SUFFICES ASSUME Calm'
               PROVE  /\ Readable'
                      /\ \A q, r \in Procs : pc'[q] # "idle" /\ pc'[r] # "idle" => q = r
                      /\ AllIdle' => Chosen(file')
                      /\ \A q \in Procs : Local(pc'[q], after'[q], mem'[q], cid'[q], file')
    BY DEF Alone, Local, Chosen, CurrentContainers, CurrentEndpoints, CurrentContexts
  <2>1. ASSUME NEW q \in Procs
        PROVE  Local(pc'[q], after'[q], mem'[q], cid'[q], file')
    <3>1. CASE q = p
      BY <1>1, <3>1, Zenon
    <3>2. CASE q # p
      BY <1>2, <3>2 DEF Local, Reading, Deleting
    <3>3. QED
      BY <3>1, <3>2
  <2>2. QED
    BY <1>2, <1>3, <2>1, Zenon
<1>5. Kept'
  <2> SUFFICES ASSUME Clean'
               PROVE  /\ AllIdle' => Alive' \subseteq Of(file')
                      /\ \A q \in Procs : pc'[q] \notin {"idle", "spin"} =>
                           Alive' \subseteq Of(mem'[q]) \cup Begun(pc'[q], cid'[q])
    BY DEF Kept, Of, Begun
  <2>1. Calm'
    BY CleanIsCalm
  <2>2. ASSUME NEW q \in Procs, pc'[q] \notin {"idle", "spin"}
        PROVE  Alive' \subseteq Of(mem'[q]) \cup Begun(pc'[q], cid'[q])
    <3>1. q = p
      BY <1>2, <2>1, <2>2
    <3>2. QED
      BY <1>1, <2>2, <3>1
  <2>3. QED
    BY <1>3, <2>1, <2>2
<1>6. QED
  BY <1>4, <1>5

(* The file is left alone, or the process ends.                            *)
LEMMA EndAlone ==
  ASSUME NEW p \in Procs, Moves(p), End(p),
         Calm' => Readable' /\ Chosen(file'),
         Clean' => Alive' \subseteq Of(file')
  PROVE  Alone' /\ Kept'
<1>1. "idle" \in Steps /\ "idle" \in Afters /\ Empty \in Configs
  BY EmptyGood DEF Steps, Afters, Good
<1>2. Local("idle", "idle", Empty, NoContainer, file')
  BY DEF Local, Reading, Deleting
<1>3. QED
  BY <1>1, <1>2, StepAlone DEF End, Goto, Set

LEMMA SaveAlone ==
  ASSUME NEW p \in Procs, Moves(p), NEW c \in Configs, NEW then \in Afters,
         Saves(p, c, then), UNCHANGED <<file, cid>>,
         Calm' => Readable /\ (then \in {"idle", "await"} => Chosen(c)),
         Clean' => Alive' \subseteq Of(c)
  PROVE  Alone' /\ Kept'
<1>1. "save" \in Steps /\ cid' = [cid EXCEPT ![p] = cid[p]]
      /\ cid[p] \in Ids \cup {NoContainer}
  BY DEF Steps, Moves, Correct, CopiesGood
<1>2. Calm' => Local("save", then, c, cid[p], file')
  BY DEF Local, Reading, Deleting
<1>3. Calm' => Readable'
  BY DEF Readable
<1>4. QED
  BY <1>1, <1>2, <1>3, StepAlone DEF Saves, Goto, Set

LEMMA GotoAlone ==
  ASSUME NEW p \in Procs, Moves(p), NEW l \in Steps \ {"idle"},
         NEW c \in Configs, NEW id \in Ids \cup {NoContainer},
         Goto(p, l), mem' = [mem EXCEPT ![p] = c], after' = after,
         cid' = [cid EXCEPT ![p] = id], UNCHANGED file,
         Calm' => Readable /\ Local(l, after[p], c, id, file),
         Clean' /\ l # "spin" => Alive' \subseteq Of(c) \cup Begun(l, id)
  PROVE  Alone' /\ Kept'
<1>1. after' = [after EXCEPT ![p] = after[p]] /\ after[p] \in Afters
  BY DEF Moves, Correct, CopiesGood
<1>2. Readable => Readable'
  BY DEF Readable
<1>3. Calm' => Local(l, after[p], c, id, file')
  OBVIOUS
<1>4. QED
  BY <1>1, <1>2, <1>3, StepAlone DEF Goto, Set

(* Nothing but the step changes.                                           *)
LEMMA MoveAlone ==
  ASSUME NEW p \in Procs, Moves(p), NEW l \in Steps \ {"idle"},
         Goto(p, l), UNCHANGED <<mem, after, cid, file>>,
         Calm' => Readable /\ Local(l, after[p], mem[p], cid[p], file),
         Clean' /\ l # "spin" => Alive' \subseteq Of(mem[p]) \cup Begun(l, cid[p])
  PROVE  Alone' /\ Kept'
<1>1. /\ mem' = [mem EXCEPT ![p] = mem[p]] /\ cid' = [cid EXCEPT ![p] = cid[p]]
      /\ mem[p] \in Configs /\ cid[p] \in Ids \cup {NoContainer}
  BY DEF Moves, Correct, CopiesGood
<1>2. QED
  BY <1>1, GotoAlone

-----------------------------------------------------------------------------
(* What the operations of Sqlconfig do to the choice of a context, and the *)
(* containers they do not lose.                                            *)

LEMMA UsedChosen ==
  ASSUME NEW c \in Configs, NEW name \in Names
  PROVE  Chosen([c EXCEPT !.current = name])
BY NamesDiffer DEF Chosen, Configs

LEMMA WithoutContextChosen ==
  ASSUME NEW c \in Configs, NEW name, NEW d \in WithoutContext(c, name)
  PROVE  Chosen(d)
<1> DEFINE rest == {x \in c.contexts : x.name # name}
<1>1. PICK cur \in IF rest = {} THEN {NoName} ELSE {x.name : x \in rest} :
         d = [c EXCEPT !.contexts = rest, !.current = cur]
  BY DEF WithoutContext
<1>2. \A x \in rest : x.name \in Names
  BY DEF Configs, Contexts
<1>3. d.contexts = rest /\ d.current = cur
  BY <1>1 DEF Configs
<1>4. QED
  BY <1>1, <1>2, <1>3, NamesDiffer DEF Chosen

LEMMA ChosenOperations ==
  ASSUME NEW c \in Configs
  PROVE  /\ Chosen(c) => /\ \A name : Chosen(WithEndpoint(c, name))
                         /\ \A name : Chosen(WithUser(c, name))
                         /\ \A name : Chosen(WithoutEndpoint(c, name))
                         /\ \A name : Chosen(WithoutUser(c, name))
         /\ \A name \in Names : \A endpoint, login, id :
              Chosen(WithContainer(c, name, endpoint, login, id))
         /\ \A d \in WithoutCurrent(c) : Chosen(d)
<1>1. Chosen(c) => /\ \A name : Chosen(WithEndpoint(c, name))
                   /\ \A name : Chosen(WithUser(c, name))
                   /\ \A name : Chosen(WithoutEndpoint(c, name))
                   /\ \A name : Chosen(WithoutUser(c, name))
  BY DEF Chosen, Configs, WithEndpoint, WithUser, WithoutEndpoint, WithoutUser
<1>2. \A name \in Names : \A endpoint, login, id :
        Chosen(WithContainer(c, name, endpoint, login, id))
  BY NamesDiffer DEF Chosen, WithContainer
<1>3. ASSUME NEW d \in WithoutCurrent(c) PROVE Chosen(d)
  <2> DEFINE b == [c EXCEPT !.endpoints = @ \ CurrentEndpoints(c),
                            !.users = {u \in @ : \A x \in CurrentContexts(c) : x.user # u.name}]
  <2>1. b \in Configs
    BY DEF Configs
  <2>2. d \in WithoutContext(b, c.current)
    BY <1>3 DEF WithoutCurrent
  <2> HIDE DEF b
  <2>3. QED
    BY <2>1, <2>2, WithoutContextChosen
<1>4. QED
  BY <1>1, <1>2, <1>3

(* The containers of the endpoints of this name.                           *)
Named(c, name) == {e.container : e \in {f \in c.endpoints : f.name = name}}

LEMMA NothingForgotten ==
  ASSUME NEW c \in Configs
  PROVE  /\ \A name : Of(c) \subseteq Of(WithoutEndpoint(c, name)) \cup Named(c, name)
         /\ \A d \in WithoutCurrent(c) : Of(c) \subseteq Of(d) \cup CurrentContainers(c)
         /\ \A name, endpoint, login : \A id \in Ids :
              Of(c) \cup {id} \subseteq Of(WithContainer(c, name, endpoint, login, id))
<1>1. \A name : Of(c) \subseteq Of(WithoutEndpoint(c, name)) \cup Named(c, name)
  <2>1. \A name : WithoutEndpoint(c, name).endpoints = {e \in c.endpoints : e.name # name}
    BY DEF WithoutEndpoint, Configs
  <2>2. QED
    BY <2>1 DEF Of, Named
<1>2. ASSUME NEW d \in WithoutCurrent(c)
      PROVE  Of(c) \subseteq Of(d) \cup CurrentContainers(c)
  <2> DEFINE b == [c EXCEPT !.endpoints = @ \ CurrentEndpoints(c),
                            !.users = {u \in @ : \A x \in CurrentContexts(c) : x.user # u.name}]
  <2>1. b \in Configs /\ b.endpoints = c.endpoints \ CurrentEndpoints(c)
    BY DEF Configs
  <2>2. d \in WithoutContext(b, c.current)
    BY <1>2 DEF WithoutCurrent
  <2> HIDE DEF b
  <2>3. Of(d) = Of(b)
    BY <2>1, <2>2, OfOperations
  <2>4. QED
    BY <2>1, <2>3 DEF Of, CurrentContainers
<1>3. ASSUME NEW name, NEW endpoint, NEW login, NEW id \in Ids
      PROVE  Of(c) \cup {id} \subseteq Of(WithContainer(c, name, endpoint, login, id))
  <2> DEFINE e == [name |-> endpoint, container |-> id]
             d == WithContainer(c, name, endpoint, login, id)
  <2>1. d.endpoints = c.endpoints \cup {e}
    BY DEF WithContainer
  <2>2. e.container = id /\ id # NoContainer
    BY ConfigAssumption
  <2> HIDE DEF e, d
  <2>3. Of(c) \cup {id} \subseteq Of(d)
    BY <2>1, <2>2 DEF Of
  <2>4. QED
    BY <2>3 DEF d
<1>4. QED
  BY <1>1, <1>2, <1>3

(* The current context has one container, or none.                         *)
LEMMA OneContainer ==
  ASSUME NEW c, Good(c), NEW id \in CurrentContainers(c)
  PROVE  CurrentContainers(c) \subseteq {id}
<1>1. \A x, y \in CurrentContexts(c) : x = y
  BY DEF Good, Unique, CurrentContexts
<1>2. CurrentContexts(c) \subseteq c.contexts
  BY DEF CurrentContexts
<1>3. \A e, f \in CurrentEndpoints(c) : e = f
  BY <1>1 DEF Good, Unique, CurrentEndpoints
<1>4. QED
  BY <1>3 DEF CurrentContainers

-----------------------------------------------------------------------------
(* Who moves.                                                              *)

LEMMA BeginMoves ==
  ASSUME Correct, Alone, Kept, NEW p \in Procs, NEW notes, Begin(p, notes)
  PROVE  /\ Moves(p) /\ notes \subseteq causes'
         /\ Calm' => AllIdle /\ Readable /\ Chosen(file) /\ file \in Configs
         /\ Clean' => Alive \subseteq Of(file)
<1>1. causes \subseteq causes' /\ notes \subseteq causes'
  BY DEF Begin
<1>2. ASSUME Calm' PROVE AllIdle
  <2>1. "overlap" \notin causes'
    BY <1>2 DEF Calm
  <2>2. \A q \in Procs \ {p} : pc[q] = "idle"
    BY <2>1 DEF Begin
  <2>3. QED
    BY <2>2 DEF Begin, AllIdle
<1>3. Moves(p)
  BY <1>1, <1>2 DEF Moves, AllIdle
<1>4. Calm' => Readable /\ Chosen(file)
  BY <1>1, <1>2, CalmBefore DEF Alone
<1>5. Readable => file \in Configs
  BY DEF Correct, CopiesGood, Readable
<1>6. Clean' => Alive \subseteq Of(file)
  BY <1>1, <1>2, CalmBefore, CleanIsCalm DEF Kept
<1>7. QED
  BY <1>1, <1>2, <1>3, <1>4, <1>5, <1>6

LEMMA ProceedsMoves ==
  ASSUME Correct, Alone, Kept, NEW p \in Procs, pc[p] # "idle", causes \subseteq causes'
  PROVE  /\ Moves(p)
         /\ Calm' => Readable /\ Local(pc[p], after[p], mem[p], cid[p], file)
         /\ Clean' /\ pc[p] # "spin" =>
              Alive \subseteq Of(mem[p]) \cup Begun(pc[p], cid[p])
         /\ mem[p] \in Configs /\ Good(mem[p]) /\ after[p] \in Afters
<1>1. Calm' => \A q \in Procs \ {p} : pc[q] = "idle"
  BY CalmBefore DEF Alone
<1>2. Moves(p)
  BY <1>1 DEF Moves
<1>3. Calm' => Readable /\ Local(pc[p], after[p], mem[p], cid[p], file)
  BY CalmBefore DEF Alone
<1>4. Clean' /\ pc[p] # "spin" => Alive \subseteq Of(mem[p]) \cup Begun(pc[p], cid[p])
  BY CalmBefore DEF Kept
<1>5. mem[p] \in Configs /\ Good(mem[p]) /\ after[p] \in Afters
  BY DEF Correct, CopiesGood
<1>6. QED
  BY <1>2, <1>3, <1>4, <1>5

(* Nothing but the containers and the history changes, and no container    *)
(* comes to be.                                                            *)
LEMMA StillAlone ==
  ASSUME Alone, Kept, UNCHANGED <<file, pc, mem, after, cid>>,
         causes \subseteq causes', Alive' \subseteq Alive
  PROVE  Alone' /\ Kept'
<1>1. (Calm' => Calm) /\ (Clean' => Clean)
  BY CalmBefore
<1>2. Alone'
  BY <1>1 DEF Alone, Readable, AllIdle, Local, Chosen, CurrentContainers, CurrentEndpoints,
              CurrentContexts
<1>3. Kept'
  BY <1>1 DEF Kept, AllIdle, Of, Begun
<1>4. QED
  BY <1>2, <1>3

LEMMA AliveStays == UNCHANGED containers => Alive' = Alive
BY DEF Alive
-----------------------------------------------------------------------------
(* The Save.                                                               *)

LEMMA SaveBeginsAlone ==
  ASSUME Correct, Alone, Kept, NEW p \in Procs, SaveBegins(p)
  PROVE  Alone' /\ Kept'
<1>1. /\ pc[p] = "save" /\ pc' = [pc EXCEPT ![p] = "write"] /\ file' = Empty
      /\ UNCHANGED <<mem, after, cid, containers, causes>>
  BY DEF SaveBegins, Goto, Set, world, locals
<1>2. /\ Moves(p) /\ mem[p] \in Configs /\ after[p] \in Afters
      /\ Calm' => Local("save", after[p], mem[p], cid[p], file)
      /\ Clean' => Alive \subseteq Of(mem[p])
  BY <1>1, ProceedsMoves DEF Begun
<1>3. /\ mem' = [mem EXCEPT ![p] = mem[p]] /\ after' = [after EXCEPT ![p] = after[p]]
      /\ cid' = [cid EXCEPT ![p] = cid[p]] /\ cid[p] \in Ids \cup {NoContainer}
  BY <1>1 DEF Correct, CopiesGood
<1>4. Calm' => Local("write", after[p], mem[p], cid[p], file')
  BY <1>1, <1>2 DEF Local, Reading, Deleting
<1>5. Readable' /\ "write" \in Steps
  BY <1>1, EmptyGood, LifecycleAssumption DEF Readable, Good, Steps
<1>6. Clean' => Alive' \subseteq Of(mem[p]) \cup Begun("write", cid[p])
  BY <1>1, <1>2, AliveStays
<1> DEFINE l == "write"
           a == after[p]
           c == mem[p]
           id == cid[p]
<1>7. /\ l \in Steps /\ c \in Configs /\ a \in Afters /\ id \in Ids \cup {NoContainer}
      /\ pc' = [pc EXCEPT ![p] = l] /\ mem' = [mem EXCEPT ![p] = c]
      /\ after' = [after EXCEPT ![p] = a] /\ cid' = [cid EXCEPT ![p] = id]
      /\ l # "idle"
  BY <1>1, <1>2, <1>3, <1>5
<1>8. Calm' => Readable' /\ Local(l, a, c, id, file')
  BY <1>4, <1>5
<1>9. Clean' => Alive' \subseteq Of(c) \cup Begun(l, id)
  BY <1>6
<1> HIDE DEF l, a, c, id
<1>10. QED
  BY <1>2, <1>7, <1>8, <1>9, StepAlone

LEMMA SaveEndsAlone ==
  ASSUME Correct, Alone, Kept, NEW p \in Procs, SaveEnds(p)
  PROVE  Alone' /\ Kept'
<1>1. pc[p] = "write" /\ UNCHANGED <<containers, causes>>
  BY DEF SaveEnds, world
<1>2. /\ Moves(p) /\ mem[p] \in Configs /\ after[p] \in Afters
      /\ Calm' => Local("write", after[p], mem[p], cid[p], file)
      /\ Clean' => Alive \subseteq Of(mem[p])
  BY <1>1, ProceedsMoves DEF Begun
<1>3. ASSUME Calm' PROVE file' = mem[p] /\ Readable'
  <2>1. file = Empty
    BY <1>2, <1>3 DEF Local
  <2>2. file' = mem[p]
    BY <2>1 DEF SaveEnds
  <2>3. QED
    BY <1>2, <2>2, LifecycleAssumption DEF Readable
<1>4. Clean' => Alive' \subseteq Of(mem[p])
  BY <1>1, <1>2, AliveStays
<1>5. CASE after[p] = "idle"
  <2>1. End(p)
    BY <1>5 DEF SaveEnds
  <2>2. Calm' => Readable' /\ Chosen(file')
    BY <1>2, <1>3, <1>5 DEF Local
  <2>3. Clean' => Alive' \subseteq Of(file')
    BY <1>3, <1>4, CleanIsCalm
  <2>4. QED
    BY <1>2, <2>1, <2>2, <2>3, EndAlone
<1>6. CASE after[p] # "idle"
  <2> DEFINE a == after[p]
             c == mem[p]
             id == cid[p]
  <2>1. /\ pc' = [pc EXCEPT ![p] = a] /\ UNCHANGED <<mem, after, cid>>
    BY <1>6 DEF SaveEnds, Goto, Set, locals
  <2>2. /\ mem' = [mem EXCEPT ![p] = c] /\ after' = [after EXCEPT ![p] = a]
        /\ cid' = [cid EXCEPT ![p] = id] /\ id \in Ids \cup {NoContainer}
        /\ c \in Configs
    BY <1>2, <2>1 DEF Correct, CopiesGood
  <2>3. a \in Steps /\ a \in Afters /\ a \in {"use", "dropuser", "dropcontext", "await"} /\ a # "idle"
    BY <1>2, <1>6 DEF Afters, Steps
  <2>4. Clean' => Alive' \subseteq Of(c) \cup Begun(a, id)
    BY <1>4
  <2>5. Calm' => Readable' /\ c = file' /\ (a = "await" => Chosen(c))
    BY <1>2, <1>3 DEF Local
  <2> HIDE DEF a, c, id
  <2>6. Calm' => Readable' /\ Local(a, a, c, id, file')
    BY <2>3, <2>5 DEF Local, Reading, Deleting
  <2>7. QED
    BY <1>2, <2>1, <2>2, <2>3, <2>4, <2>6, StepAlone
<1>7. QED
  BY <1>5, <1>6

-----------------------------------------------------------------------------
(* The commands that only change the file.                                 *)

(* A command that goes to its one Save at once.                            *)
LEMMA CommandAlone ==
  ASSUME Correct, Alone, Kept, NEW p \in Procs, NEW notes, Begin(p, notes),
         UNCHANGED <<file, cid, containers>>,
         NEW c \in Configs, NEW then \in Afters, Saves(p, c, then),
         Calm' /\ Chosen(file) /\ then \in {"idle", "await"} => Chosen(c),
         Clean' => Of(file) \subseteq Of(c)
  PROVE  Alone' /\ Kept'
<1>1. /\ Moves(p) /\ (Calm' => Readable /\ Chosen(file))
      /\ Clean' => Alive \subseteq Of(file)
  BY BeginMoves
<1>2. Calm' => Readable /\ (then \in {"idle", "await"} => Chosen(c))
  BY <1>1
<1>3. Clean' => Alive' \subseteq Of(c)
  BY <1>1, AliveStays
<1>4. QED
  BY <1>1, <1>2, <1>3, SaveAlone

LEMMA AddAlone ==
  ASSUME Correct, Alone, Kept, NEW p \in Procs, AddEndpoint(p) \/ AddUser(p)
  PROVE  Alone' /\ Kept'
<1>1. /\ Begin(p, {}) /\ UNCHANGED <<file, cid, containers>>
      /\ Readable /\ file \in Configs /\ Good(file)
  BY DEF AddEndpoint, AddUser, Quiet, world, Correct, CopiesGood, Good
<1>2. "idle" \in Afters
  BY DEF Afters
<1>3. CASE AddEndpoint(p)
  <2>1. PICK asked \in Asked : \E n \in Candidates(asked) :
          /\ UniqueEndpointName(file, asked, n)
          /\ Saves(p, WithEndpoint(file, n), "idle")
    BY <1>3 DEF AddEndpoint
  <2>2. PICK n \in Candidates(asked) :
          /\ UniqueEndpointName(file, asked, n)
          /\ Saves(p, WithEndpoint(file, n), "idle")
    BY <2>1
  <2>3. n \in Names
    BY CandidateNames, LifecycleAssumption
  <2> DEFINE c == WithEndpoint(file, n)
  <2>4. c \in Configs
    BY <1>1, <2>2, <2>3, EndpointNameFree, WithEndpointGood DEF Good
  <2>5. (Chosen(file) => Chosen(c)) /\ Of(c) = Of(file) /\ Saves(p, c, "idle")
    BY <1>1, <2>2, ChosenOperations, OfOperations
  <2> HIDE DEF c
  <2>6. QED
    BY <1>1, <1>2, <2>4, <2>5, CommandAlone
<1>4. CASE AddUser(p)
  <2>1. PICK asked \in Asked : \E n \in Candidates(asked) :
          /\ UniqueUserName(file, asked, n)
          /\ Saves(p, WithUser(file, n), "idle")
    BY <1>4 DEF AddUser
  <2>2. PICK n \in Candidates(asked) :
          /\ UniqueUserName(file, asked, n)
          /\ Saves(p, WithUser(file, n), "idle")
    BY <2>1
  <2>3. n \in Names
    BY CandidateNames, LifecycleAssumption
  <2> DEFINE c == WithUser(file, n)
  <2>4. c \in Configs
    BY <1>1, <2>2, <2>3, UserNameFree, WithUserGood DEF Good
  <2>5. (Chosen(file) => Chosen(c)) /\ Of(c) = Of(file) /\ Saves(p, c, "idle")
    BY <1>1, <2>2, ChosenOperations, OfOperations
  <2> HIDE DEF c
  <2>6. QED
    BY <1>1, <1>2, <2>4, <2>5, CommandAlone
<1>5. QED
  BY <1>3, <1>4

LEMMA AddContextAlone ==
  ASSUME Correct, Alone, Kept, NEW p \in Procs, AddContext(p)
  PROVE  Alone' /\ Kept'
<1>1. /\ Begin(p, {}) /\ UNCHANGED <<file, cid, containers>>
      /\ Readable /\ file \in Configs /\ Good(file)
  BY DEF AddContext, Quiet, world, Correct, CopiesGood, Good
<1>2. PICK asked \in Asked, e \in file.endpoints,
           user \in {<<>>} \cup {u.name : u \in file.users} :
        \/ \E n \in Candidates(asked) :
             /\ UniqueContextName(file, asked, user, n)
             /\ Saves(p, WithContext(file, n, e.name, user), "use")
        \/ Goto(p, "spin") /\ UNCHANGED <<mem, after>>
  BY DEF AddContext
<1>3. e.name \in Names /\ user \in UserNames
  <2>1. \A u \in file.users : u.name \in UserNames
    BY <1>1 DEF Configs, Users
  <2>2. <<>> \in UserNames
    BY DEF UserNames
  <2>3. e.name \in Names
    BY <1>1 DEF Configs, Endpoints
  <2>4. QED
    BY <2>1, <2>2, <2>3
<1>4. ASSUME NEW n \in Candidates(asked), UniqueContextName(file, asked, user, n),
             Saves(p, WithContext(file, n, e.name, user), "use")
      PROVE  Alone' /\ Kept'
  <2> DEFINE c == WithContext(file, n, e.name, user)
  <2>1. n \in Names
    BY CandidateNames, LifecycleAssumption
  <2>2. c \in Configs /\ Saves(p, c, "use")
    BY <1>1, <1>3, <1>4, <2>1, ContextNameFree, WithContextGood DEF Good
  <2>3. Of(c) = Of(file)
    BY <1>1, OfOperations
  <2>4. "use" \in Afters /\ "use" # "idle"
    BY DEF Afters
  <2> HIDE DEF c
  <2>5. QED
    BY <1>1, <2>2, <2>3, <2>4, CommandAlone
<1>5. CASE Goto(p, "spin") /\ UNCHANGED <<mem, after>>
  <2>1. Moves(p) /\ (Calm' => Readable)
    BY <1>1, BeginMoves
  <2>2. "spin" \in Steps \ {"idle"} /\ Local("spin", after[p], mem[p], cid[p], file)
    BY DEF Steps, Local, Reading, Deleting
  <2>3. QED
    BY <1>1, <1>5, <2>1, <2>2, MoveAlone
<1>6. QED
  BY <1>2, <1>4, <1>5

LEMMA UseAlone ==
  ASSUME Correct, Alone, Kept, NEW p \in Procs, Use(p)
  PROVE  Alone' /\ Kept'
<1>1. pc[p] = "use" /\ UNCHANGED <<file, cid, containers, causes>>
  BY DEF Use, Quiet, world
<1>2. /\ Moves(p) /\ (Calm' => Readable) /\ mem[p] \in Configs
      /\ Clean' => Alive \subseteq Of(mem[p])
  BY <1>1, ProceedsMoves DEF Begun
<1>3. arg[p] \in Names
  <2>1. ContextExists(mem[p], arg[p])
    BY <1>1 DEF Correct, CopiesGood, Sure
  <2>2. QED
    BY <1>2, <2>1 DEF ContextExists, Configs, Contexts
<1> DEFINE c == [mem[p] EXCEPT !.current = arg[p]]
<1>4. c \in Configs
  BY <1>2, <1>3 DEF Configs
<1>5. Chosen(c) /\ Of(c) = Of(mem[p])
  BY <1>2, <1>3, UsedChosen, OfOperations
<1>6. Saves(p, c, "idle") /\ "idle" \in Afters
  BY DEF Use, Afters
<1> HIDE DEF c
<1>7. Clean' => Alive' \subseteq Of(c)
  BY <1>1, <1>2, <1>5, AliveStays
<1>8. QED
  BY <1>1, <1>2, <1>4, <1>5, <1>6, <1>7, SaveAlone

LEMMA UseContextAlone ==
  ASSUME Correct, Alone, Kept, NEW p \in Procs, UseContext(p)
  PROVE  Alone' /\ Kept'
<1>1. /\ Begin(p, {}) /\ UNCHANGED <<file, cid, containers>>
      /\ Readable /\ file \in Configs
  BY DEF UseContext, Quiet, world, Correct, CopiesGood, Readable
<1>2. PICK x \in file.contexts : Saves(p, [file EXCEPT !.current = x.name], "idle")
  BY DEF UseContext
<1>3. x.name \in Names
  BY <1>1 DEF Configs, Contexts
<1> DEFINE c == [file EXCEPT !.current = x.name]
<1>4. c \in Configs
  BY <1>1, <1>3 DEF Configs
<1>5. Chosen(c) /\ Of(c) = Of(file)
  BY <1>1, <1>3, UsedChosen, OfOperations
<1>6. Saves(p, c, "idle") /\ "idle" \in Afters
  BY <1>2 DEF Afters
<1> HIDE DEF c
<1>7. QED
  BY <1>1, <1>4, <1>5, <1>6, CommandAlone


(* Without a container to lose, deleting an endpoint loses none.           *)
LEMMA DropsNone ==
  ASSUME NEW name, file \in Configs, Drops({name}) \subseteq causes', Clean'
  PROVE  Of(file) \subseteq Of(WithoutEndpoint(file, name))
<1>1. "config" \notin causes'
  BY DEF Clean
<1>2. \A e \in file.endpoints : e.name = name => e.container = NoContainer
  BY <1>1 DEF Drops
<1>3. Named(file, name) \subseteq {NoContainer}
  BY <1>2 DEF Named
<1>4. Of(file) \subseteq Of(WithoutEndpoint(file, name)) \cup Named(file, name)
  BY NothingForgotten
<1>5. NoContainer \notin Of(file)
  BY DEF Of
<1>6. QED
  BY <1>3, <1>4, <1>5

LEMMA DeleteEntryAlone ==
  ASSUME Correct, Alone, Kept, NEW p \in Procs, DeleteEndpoint(p) \/ DeleteUser(p)
  PROVE  Alone' /\ Kept'
<1>1. /\ UNCHANGED <<file, cid, containers>>
      /\ Readable /\ file \in Configs /\ Good(file)
  BY DEF DeleteEndpoint, DeleteUser, Quiet, world, Correct, CopiesGood, Good
<1>2. "idle" \in Afters
  BY DEF Afters
<1>3. CASE DeleteEndpoint(p)
  <2>1. PICK e \in file.endpoints :
          Begin(p, Drops({e.name})) /\ Saves(p, WithoutEndpoint(file, e.name), "idle")
    BY <1>3 DEF DeleteEndpoint
  <2> DEFINE c == WithoutEndpoint(file, e.name)
             notes == Drops({e.name})
  <2>2. c \in Configs
    BY <1>1, WithoutEndpointGood DEF Good
  <2>3. (Chosen(file) => Chosen(c)) /\ Saves(p, c, "idle")
    BY <1>1, <2>1, ChosenOperations
  <2>4. notes \subseteq causes'
    BY <2>1 DEF Begin
  <2>5. Clean' => Of(file) \subseteq Of(c)
    BY <1>1, <2>4, DropsNone
  <2>6. Begin(p, notes)
    BY <2>1
  <2> HIDE DEF c, notes
  <2>7. QED
    BY <1>1, <1>2, <2>2, <2>3, <2>5, <2>6, CommandAlone
<1>4. CASE DeleteUser(p)
  <2>1. PICK u \in file.users : Saves(p, WithoutUser(file, u.name), "idle")
    BY <1>4 DEF DeleteUser
  <2> DEFINE c == WithoutUser(file, u.name)
  <2>2. c \in Configs
    BY <1>1, WithoutUserGood DEF Good
  <2>3. (Chosen(file) => Chosen(c)) /\ Of(c) = Of(file) /\ Saves(p, c, "idle")
    BY <1>1, <2>1, ChosenOperations, OfOperations
  <2>4. Begin(p, {})
    BY <1>4 DEF DeleteUser
  <2> HIDE DEF c
  <2>5. QED
    BY <1>1, <1>2, <2>2, <2>3, <2>4, CommandAlone
<1>5. QED
  BY <1>3, <1>4

LEMMA DeleteContextAlone ==
  ASSUME Correct, Alone, Kept, NEW p \in Procs, DeleteContext(p)
  PROVE  Alone' /\ Kept'
<1>1. /\ UNCHANGED <<file, cid, containers>>
      /\ Readable /\ file \in Configs /\ Good(file) /\ Unique(file)
  BY DEF DeleteContext, Quiet, world, Correct, CopiesGood, Good
<1>2. PICK x \in file.contexts, cascade \in BOOLEAN :
        /\ Begin(p, IF cascade THEN Drops({x.endpoint}) ELSE {})
        /\ IF ~cascade
             THEN \E c \in WithoutContext(file, x.name) : Saves(p, c, "idle")
           ELSE IF EndpointExists(file, x.endpoint)
             THEN Saves(p, WithoutEndpoint(file, x.endpoint), "dropuser")
           ELSE /\ Goto(p, "dropuser")
                /\ mem' = Set(mem, p, file)
                /\ UNCHANGED after
  BY DEF DeleteContext
<1>3. "idle" \in Afters /\ "dropuser" \in Afters /\ "dropuser" \in Steps \ {"idle"}
  BY DEF Afters, Steps
<1>4. CASE ~cascade
  <2>1. PICK c \in WithoutContext(file, x.name) : Saves(p, c, "idle")
    BY <1>2, <1>4
  <2>2. c \in Configs /\ Chosen(c) /\ Of(c) = Of(file)
    BY <1>1, WithoutContextGood, WithoutContextChosen, OfOperations DEF Good
  <2>3. Begin(p, {})
    BY <1>2, <1>4
  <2>4. QED
    BY <1>1, <1>3, <2>1, <2>2, <2>3, CommandAlone
<1>5. CASE cascade /\ EndpointExists(file, x.endpoint)
  <2> DEFINE c == WithoutEndpoint(file, x.endpoint)
             notes == Drops({x.endpoint})
  <2>1. Begin(p, notes) /\ Saves(p, c, "dropuser")
    BY <1>2, <1>5
  <2>2. c \in Configs
    BY <1>1, WithoutEndpointGood DEF Good
  <2>3. notes \subseteq causes'
    BY <2>1 DEF Begin
  <2>4. Clean' => Of(file) \subseteq Of(c)
    BY <1>1, <2>3, DropsNone
  <2>5. "dropuser" # "idle"
    OBVIOUS
  <2> HIDE DEF c, notes
  <2>6. QED
    BY <1>1, <1>3, <2>1, <2>2, <2>4, <2>5, CommandAlone
<1>6. CASE cascade /\ ~EndpointExists(file, x.endpoint)
  <2>1. Begin(p, Drops({x.endpoint})) /\ Goto(p, "dropuser")
        /\ mem' = [mem EXCEPT ![p] = file] /\ UNCHANGED after
    BY <1>2, <1>6 DEF Set
  <2>2. Moves(p) /\ (Calm' => Readable) /\ (Clean' => Alive \subseteq Of(file))
    BY <2>1, BeginMoves
  <2>3. cid' = [cid EXCEPT ![p] = cid[p]] /\ cid[p] \in Ids \cup {NoContainer}
    BY <1>1 DEF Correct, CopiesGood
  <2>4. Local("dropuser", after[p], file, cid[p], file)
    BY DEF Local, Reading, Deleting
  <2>5. Clean' => Alive' \subseteq Of(file) \cup Begun("dropuser", cid[p])
    BY <1>1, <2>2, AliveStays
  <2>6. QED
    BY <1>1, <1>3, <2>1, <2>2, <2>3, <2>4, <2>5, GotoAlone
<1>7. QED
  BY <1>4, <1>5, <1>6

(* The steps of delete-context --cascade after the first.                  *)
LEMMA CascadeAlone ==
  ASSUME Correct, Alone, Kept, NEW p \in Procs, DropUser(p) \/ DropContext(p)
  PROVE  Alone' /\ Kept'
<1>1. /\ pc[p] \in {"dropuser", "dropcontext"}
      /\ UNCHANGED <<file, cid, containers, causes>>
  BY DEF DropUser, DropContext, Quiet, world
<1>2. /\ Moves(p) /\ (Calm' => Readable) /\ mem[p] \in Configs /\ Good(mem[p])
      /\ Clean' => Alive \subseteq Of(mem[p])
  BY <1>1, ProceedsMoves DEF Begun
<1>3. Clean' => Alive' \subseteq Of(mem[p])
  BY <1>1, <1>2, AliveStays
<1>4. /\ "idle" \in Afters /\ "dropcontext" \in Afters /\ "dropcontext" # "idle"
      /\ "dropcontext" \in Steps \ {"idle"}
  BY DEF Afters, Steps
<1>5. CASE DropUser(p)
  <2>1. PICK x \in mem[p].contexts :
          IF x.user # <<>> /\ UserNameExists(mem[p], x.user)
            THEN Saves(p, WithoutUser(mem[p], x.user), "dropcontext")
            ELSE Goto(p, "dropcontext") /\ UNCHANGED <<mem, after>>
    BY <1>5 DEF DropUser
  <2>2. CASE Saves(p, WithoutUser(mem[p], x.user), "dropcontext")
    <3> DEFINE c == WithoutUser(mem[p], x.user)
    <3>1. c \in Configs /\ Of(c) = Of(mem[p])
      BY <1>2, WithoutUserGood, OfOperations DEF Good
    <3>2. Saves(p, c, "dropcontext") /\ (Clean' => Alive' \subseteq Of(c))
      BY <1>3, <2>2, <3>1
    <3> HIDE DEF c
    <3>3. QED
      BY <1>1, <1>2, <1>4, <3>1, <3>2, SaveAlone
  <2>3. CASE Goto(p, "dropcontext") /\ UNCHANGED <<mem, after>>
    <3>1. Local("dropcontext", after[p], mem[p], cid[p], file)
      BY DEF Local, Reading, Deleting
    <3>2. QED
      BY <1>1, <1>2, <1>3, <1>4, <2>3, <3>1, MoveAlone
  <2>4. QED
    BY <2>1, <2>2, <2>3
<1>6. CASE DropContext(p)
  <2>1. PICK c \in WithoutContext(mem[p], arg[p]) : Saves(p, c, "idle")
    BY <1>6 DEF DropContext
  <2>2. c \in Configs /\ Chosen(c) /\ Of(c) = Of(mem[p])
    BY <1>2, WithoutContextGood, WithoutContextChosen, OfOperations DEF Good
  <2>3. QED
    BY <1>1, <1>2, <1>3, <1>4, <2>1, <2>2, SaveAlone
<1>7. QED
  BY <1>5, <1>6

-----------------------------------------------------------------------------
(* create.                                                                 *)

LEMMA FileReadable == UNCHANGED file /\ Readable => Readable'
BY DEF Readable

LEMMA CreateAlone ==
  ASSUME Correct, Alone, Kept, NEW p \in Procs, Create(p)
  PROVE  Alone' /\ Kept'
<1>1. /\ Begin(p, {}) /\ Goto(p, "create") /\ mem' = [mem EXCEPT ![p] = file]
      /\ UNCHANGED <<file, after, cid, containers>> /\ Readable /\ file \in Configs
  BY DEF Create, Quiet, world, Set, Correct, CopiesGood, Readable
<1>2. /\ Moves(p) /\ (Calm' => Readable /\ Chosen(file))
      /\ (Clean' => Alive \subseteq Of(file))
  BY <1>1, BeginMoves
<1>3. cid' = [cid EXCEPT ![p] = cid[p]] /\ cid[p] \in Ids \cup {NoContainer}
  BY <1>1 DEF Correct, CopiesGood
<1>4. Calm' => Readable /\ Local("create", after[p], file, cid[p], file)
  BY <1>2 DEF Local, Reading, Deleting
<1>5. Clean' => Alive' \subseteq Of(file) \cup Begun("create", cid[p])
  BY <1>1, <1>2, AliveStays
<1>6. "create" \in Steps \ {"idle"}
  BY DEF Steps
<1>7. QED
  BY <1>1, <1>2, <1>3, <1>4, <1>5, <1>6, GotoAlone

(* A process that only read ends, and leaves no container of its own.      *)
LEMMA ReaderEndsAlone ==
  ASSUME Correct, Alone, Kept, NEW p \in Procs, pc[p] \in Reading, End(p),
         causes \subseteq causes', UNCHANGED file,
         Clean' => Alive' \subseteq Of(mem[p])
  PROVE  Alone' /\ Kept'
<1>1. pc[p] # "idle"
  BY DEF Reading, Deleting
<1>2. Moves(p) /\ (Calm' => Readable /\ Local(pc[p], after[p], mem[p], cid[p], file))
  BY <1>1, ProceedsMoves
<1>3. Calm' => Readable' /\ Chosen(file') /\ mem[p] = file'
  BY <1>2, FileReadable DEF Local
<1>4. Clean' => Alive' \subseteq Of(file')
  BY <1>3, CleanIsCalm
<1>5. QED
  BY <1>2, <1>3, <1>4, EndAlone

LEMMA ContainerCreateAlone ==
  ASSUME Correct, Alone, Kept, NEW p \in Procs, ContainerCreate(p)
  PROVE  Alone' /\ Kept'
<1>1. /\ pc[p] = "create" /\ UNCHANGED <<file, causes>>
      /\ containers \in [Ids -> {"never", "stopped", "running", "gone"}]
  BY DEF ContainerCreate, Correct, RestTyped
<1>2. /\ Moves(p) /\ mem[p] \in Configs
      /\ Calm' => Readable /\ Local("create", after[p], mem[p], cid[p], file)
      /\ Clean' => Alive \subseteq Of(mem[p])
  BY <1>1, ProceedsMoves DEF Begun
<1>3. ASSUME NEW id \in Ids, containers' = Set(containers, id, "stopped"),
             cid' = Set(cid, p, id), Goto(p, "starting"),
             UNCHANGED <<mem, after>>
      PROVE  Alone' /\ Kept'
  <2>1. Alive' \subseteq Alive \cup {id}
    BY <1>1, <1>3 DEF Alive, Set
  <2>2. Clean' => Alive' \subseteq Of(mem[p]) \cup Begun("starting", id)
    BY <1>2, <2>1 DEF Begun
  <2>3. Calm' => Readable /\ Local("starting", after[p], mem[p], id, file)
    BY <1>2 DEF Local, Reading, Deleting
  <2>4. mem' = [mem EXCEPT ![p] = mem[p]] /\ cid' = [cid EXCEPT ![p] = id]
    BY <1>3 DEF Set, Correct, CopiesGood
  <2>5. "starting" \in Steps \ {"idle"}
    BY DEF Steps
  <2>6. QED
    BY <1>1, <1>2, <1>3, <2>2, <2>3, <2>4, <2>5, GotoAlone
<1>4. CASE End(p) /\ UNCHANGED containers
  <2>1. Clean' => Alive' \subseteq Of(mem[p])
    BY <1>2, <1>4, AliveStays
  <2>2. pc[p] \in Reading
    BY <1>1 DEF Reading
  <2>3. QED
    BY <1>1, <1>4, <2>1, <2>2, ReaderEndsAlone
<1>5. QED
  BY <1>3, <1>4 DEF ContainerCreate

LEMMA ContainerStartAlone ==
  ASSUME Correct, Alone, Kept, NEW p \in Procs, ContainerStart(p)
  PROVE  Alone' /\ Kept'
<1>1. /\ pc[p] = "starting" /\ UNCHANGED file /\ causes \subseteq causes'
      /\ containers \in [Ids -> {"never", "stopped", "running", "gone"}]
      /\ pc[p] \in Reading
  BY DEF ContainerStart, Correct, RestTyped, Reading
<1>2. /\ Moves(p) /\ mem[p] \in Configs
      /\ Calm' => Readable /\ Local("starting", after[p], mem[p], cid[p], file)
      /\ Clean' => Alive \subseteq Of(mem[p]) \cup {cid[p]}
  BY <1>1, ProceedsMoves DEF Begun
<1>3. CASE /\ containers' = Set(containers, cid[p], "running")
           /\ Goto(p, "created") /\ UNCHANGED locals
  <2>1. Alive' \subseteq Alive \cup {cid[p]}
    BY <1>1, <1>3 DEF Alive, Set
  <2>2. Clean' => Alive' \subseteq Of(mem[p]) \cup Begun("created", cid[p])
    BY <1>2, <2>1 DEF Begun
  <2>3. Calm' => Readable /\ Local("created", after[p], mem[p], cid[p], file)
    BY <1>2 DEF Local, Reading, Deleting
  <2>4. "created" \in Steps \ {"idle"}
    BY DEF Steps
  <2>5. QED
    BY <1>1, <1>2, <1>3, <2>2, <2>3, <2>4, MoveAlone DEF locals
<1>4. CASE containers' = Set(containers, cid[p], "gone") /\ End(p)
  <2>1. Alive' \subseteq Alive \ {cid[p]}
    BY <1>1, <1>4 DEF Alive, Set
  <2>2. Clean' => Alive' \subseteq Of(mem[p])
    BY <1>2, <2>1
  <2>3. QED
    BY <1>1, <1>4, <2>2, ReaderEndsAlone
<1>5. CASE causes' = causes \cup {"left"} /\ End(p)
  <2>1. ~Clean'
    BY <1>5 DEF Clean
  <2>2. QED
    BY <1>1, <1>5, <2>1, ReaderEndsAlone
<1>6. QED
  BY <1>3, <1>4, <1>5 DEF ContainerStart

LEMMA AddContainerAlone ==
  ASSUME Correct, Alone, Kept, NEW p \in Procs, AddContextWithContainer(p)
  PROVE  Alone' /\ Kept'
<1>1. pc[p] = "created" /\ UNCHANGED <<file, cid, containers, causes>>
  BY DEF AddContextWithContainer, Quiet, world
<1>2. /\ Moves(p) /\ (Calm' => Readable) /\ mem[p] \in Configs /\ Good(mem[p])
      /\ Clean' => Alive \subseteq Of(mem[p]) \cup {cid[p]}
  BY <1>1, ProceedsMoves DEF Begun
<1>3. arg[p] \in Names /\ cid[p] \in Ids
  BY <1>1 DEF Correct, CopiesGood, Sure, Holding
<1>4. ASSUME NEW n \in Candidates(arg[p]), NEW endpoint \in Candidates(n),
             UniqueContextName(mem[p], arg[p], <<OsUser>>, n),
             UniqueEndpointName(mem[p], n, endpoint),
             Saves(p, WithContainer(mem[p], n, endpoint, <<OsUser, n>>, cid[p]), "await")
      PROVE  Alone' /\ Kept'
  <2>1. n \in Names
    BY <1>3, CandidateNames
  <2>2. endpoint \in Names
    BY <2>1, CandidateNames
  <2>3. /\ ~ContextExists(mem[p], n) /\ ~LoginExists(mem[p], <<OsUser>>, n)
        /\ ~EndpointExists(mem[p], endpoint)
    BY <1>4, ContextNameFree, EndpointNameFree
  <2> DEFINE c == WithContainer(mem[p], n, endpoint, <<OsUser, n>>, cid[p])
  <2>4. c \in Configs /\ Saves(p, c, "await")
    BY <1>2, <1>3, <1>4, <2>1, <2>2, <2>3, WithContainerGood DEF Good
  <2>5. Chosen(c)
    BY <1>2, <2>1, ChosenOperations
  <2>6. Of(mem[p]) \cup {cid[p]} \subseteq Of(c)
    BY <1>2, <1>3, NothingForgotten
  <2> HIDE DEF c
  <2>7. Clean' => Alive' \subseteq Of(c)
    BY <1>1, <1>2, <2>6, AliveStays
  <2>8. "await" \in Afters
    BY DEF Afters
  <2>9. QED
    BY <1>1, <1>2, <2>4, <2>5, <2>7, <2>8, SaveAlone
<1>5. CASE Goto(p, "spin") /\ UNCHANGED <<mem, after>>
  <2>1. "spin" \in Steps \ {"idle"} /\ Local("spin", after[p], mem[p], cid[p], file)
    BY DEF Steps, Local, Reading, Deleting
  <2>2. QED
    BY <1>1, <1>2, <1>5, <2>1, MoveAlone
<1>6. QED
  BY <1>4, <1>5 DEF AddContextWithContainer

LEMMA WaitAlone ==
  ASSUME Correct, Alone, Kept, NEW p \in Procs, ContainerWaitForLogEntry(p)
  PROVE  Alone' /\ Kept'
<1>1. /\ pc[p] = "await" /\ End(p) /\ UNCHANGED <<file, containers, causes>>
      /\ pc[p] \in Reading
  BY DEF ContainerWaitForLogEntry, Quiet, world, Reading
<1>2. Clean' => Alive \subseteq Of(mem[p])
  BY <1>1, ProceedsMoves DEF Begun
<1>3. Clean' => Alive' \subseteq Of(mem[p])
  BY <1>1, <1>2, AliveStays
<1>4. QED
  BY <1>1, <1>3, ReaderEndsAlone

-----------------------------------------------------------------------------
(* delete.                                                                 *)

LEMMA DeleteAlone ==
  ASSUME Correct, Alone, Kept, NEW p \in Procs, Delete(p)
  PROVE  Alone' /\ Kept'
<1>1. /\ Begin(p, {}) /\ UNCHANGED <<file, containers>>
      /\ Readable /\ file \in Configs /\ Good(file)
  BY DEF Delete, Quiet, world, Correct, CopiesGood, Good
<1>2. CASE CurrentContainers(file) = {}
  <2>1. PICK c \in WithoutCurrent(file) : Saves(p, c, "idle") /\ UNCHANGED cid
    BY <1>2 DEF Delete
  <2>2. c \in Configs /\ Chosen(c)
    BY <1>1, WithoutCurrentGood, ChosenOperations DEF Good
  <2>3. Of(file) \subseteq Of(c)
    BY <1>1, <1>2, NothingForgotten
  <2>4. "idle" \in Afters
    BY DEF Afters
  <2>5. QED
    BY <1>1, <2>1, <2>2, <2>3, <2>4, CommandAlone
<1>3. CASE CurrentContainers(file) # {}
  <2>1. PICK id \in CurrentContainers(file) :
          /\ cid' = [cid EXCEPT ![p] = id] /\ mem' = [mem EXCEPT ![p] = file]
          /\ Goto(p, "confirm") /\ UNCHANGED after
    BY <1>3 DEF Delete, Set
  <2>2. id \in Ids
    BY <1>1 DEF CurrentContainers, CurrentEndpoints, Configs, Endpoints
  <2>3. CurrentContainers(file) \subseteq {id}
    BY <1>1, OneContainer
  <2>4. /\ Moves(p) /\ (Calm' => Readable /\ Chosen(file))
        /\ (Clean' => Alive \subseteq Of(file))
    BY <1>1, BeginMoves
  <2>5. Calm' => Readable /\ Local("confirm", after[p], file, id, file)
    BY <2>3, <2>4 DEF Local, Reading, Deleting
  <2>6. Clean' => Alive' \subseteq Of(file) \cup Begun("confirm", id)
    BY <1>1, <2>4, AliveStays
  <2>7. "confirm" \in Steps \ {"idle"}
    BY DEF Steps
  <2>8. QED
    BY <1>1, <2>1, <2>2, <2>4, <2>5, <2>6, <2>7, GotoAlone
<1>4. QED
  BY <1>2, <1>3

LEMMA CheckAlone ==
  ASSUME Correct, Alone, Kept, NEW p \in Procs, Confirm(p) \/ Check(p) \/ Verify(p)
  PROVE  Alone' /\ Kept'
<1>1. /\ UNCHANGED <<file, containers, causes>> /\ pc[p] \in Deleting
      /\ pc[p] \in Reading /\ pc[p] # "idle" /\ pc[p] \notin {"starting", "created"}
  BY DEF Confirm, Check, Verify, Quiet, world, Deleting, Reading
<1>2. /\ Moves(p)
      /\ Calm' => Readable /\ Local(pc[p], after[p], mem[p], cid[p], file)
      /\ Clean' /\ pc[p] # "spin" => Alive \subseteq Of(mem[p]) \cup Begun(pc[p], cid[p])
  BY <1>1, ProceedsMoves
<1>3. Clean' => Alive' \subseteq Of(mem[p])
  BY <1>1, <1>2, AliveStays DEF Begun, Deleting
<1>4. CASE End(p)
  BY <1>1, <1>3, <1>4, ReaderEndsAlone
<1>5. CASE ~End(p)
  <2>1. PICK l \in {"check", "verify", "stop"} : Goto(p, l)
    BY <1>5 DEF Confirm, Check, Verify
  <2>2. UNCHANGED <<mem, after, cid>>
    BY <1>5 DEF Confirm, Check, Verify, locals
  <2>3. l \in Steps \ {"idle"} /\ l \in Reading /\ l \in Deleting /\ l \notin {"save", "write"}
    BY DEF Steps, Reading, Deleting
  <2>4. Calm' => Readable /\ Local(l, after[p], mem[p], cid[p], file)
    BY <1>1, <1>2, <2>3 DEF Local
  <2>5. Clean' => Alive' \subseteq Of(mem[p]) \cup Begun(l, cid[p])
    BY <1>3
  <2>6. QED
    BY <1>1, <1>2, <2>1, <2>2, <2>3, <2>4, <2>5, MoveAlone
<1>6. QED
  BY <1>4, <1>5

(* The context goes, with its container no longer there.                   *)
LEMMA ContextGoesAlone ==
  ASSUME Correct, Alone, Kept, NEW p \in Procs, pc[p] \in {"stop", "remove"},
         causes \subseteq causes', UNCHANGED <<file, cid>>,
         NEW c \in WithoutCurrent(mem[p]), Saves(p, c, "idle"),
         Clean' => Alive' \subseteq Alive \ {cid[p]}
  PROVE  Alone' /\ Kept'
<1>1. /\ pc[p] # "idle" /\ pc[p] \in Deleting
      /\ pc[p] \notin {"starting", "created", "spin"}
  BY DEF Deleting
<1>2. /\ Moves(p) /\ mem[p] \in Configs /\ Good(mem[p])
      /\ Calm' => Readable /\ Local(pc[p], after[p], mem[p], cid[p], file)
      /\ Clean' => Alive \subseteq Of(mem[p])
  BY <1>1, ProceedsMoves DEF Begun
<1>3. c \in Configs /\ Chosen(c)
  BY <1>2, WithoutCurrentGood, ChosenOperations DEF Good
<1>4. Of(mem[p]) \subseteq Of(c) \cup CurrentContainers(mem[p])
  BY <1>2, NothingForgotten
<1>5. Clean' => CurrentContainers(mem[p]) \subseteq {cid[p]}
  BY <1>1, <1>2, CleanIsCalm DEF Local
<1>6. Clean' => Alive' \subseteq Of(c)
  BY <1>2, <1>4, <1>5
<1>7. "idle" \in Afters
  BY DEF Afters
<1>8. QED
  BY <1>2, <1>3, <1>6, <1>7, SaveAlone

LEMMA StopAlone ==
  ASSUME Correct, Alone, Kept, NEW p \in Procs, StopContainer(p)
  PROVE  Alone' /\ Kept'
<1>1. /\ pc[p] = "stop" /\ UNCHANGED file /\ causes \subseteq causes'
      /\ containers \in [Ids -> {"never", "stopped", "running", "gone"}]
      /\ pc[p] \in Reading /\ pc[p] # "idle"
  BY DEF StopContainer, Correct, RestTyped, Reading, Deleting
<1>2. /\ Moves(p)
      /\ Calm' => Readable /\ Local("stop", after[p], mem[p], cid[p], file)
      /\ Clean' => Alive \subseteq Of(mem[p])
  BY <1>1, ProceedsMoves DEF Begun
<1>3. cid[p] \in Ids
  BY <1>1 DEF Correct, CopiesGood, Sure, Holding
<1>4. CASE /\ ContainerExists(cid[p]) /\ containers' = Set(containers, cid[p], "stopped")
           /\ Goto(p, "remove") /\ UNCHANGED locals
  <2>1. Alive' \subseteq Alive
    BY <1>1, <1>4 DEF Alive, Set, ContainerExists
  <2>2. "remove" \in Steps \ {"idle"}
    BY DEF Steps
  <2>3. Calm' => Readable /\ Local("remove", after[p], mem[p], cid[p], file)
    BY <1>2 DEF Local, Reading, Deleting
  <2>4. Clean' => Alive' \subseteq Of(mem[p]) \cup Begun("remove", cid[p])
    BY <1>2, <2>1
  <2>5. QED
    BY <1>1, <1>2, <1>4, <2>2, <2>3, <2>4, MoveAlone DEF locals
<1>5. CASE End(p) /\ UNCHANGED containers
  <2>1. Clean' => Alive' \subseteq Of(mem[p])
    BY <1>2, <1>5, AliveStays
  <2>2. QED
    BY <1>1, <1>5, <2>1, ReaderEndsAlone
<1>6. CASE ~ContainerExists(cid[p])
  <2>1. PICK c \in WithoutCurrent(mem[p]) : Saves(p, c, "idle")
    BY <1>6 DEF StopContainer
  <2>2. /\ causes' = causes \cup IF containers[cid[p]] = "stopped" THEN {"stopped"} ELSE {}
        /\ UNCHANGED <<containers, cid>>
    BY <1>6 DEF StopContainer
  <2>3. Clean' => cid[p] \notin Alive
    BY <1>6, <2>2 DEF Clean, Alive, ContainerExists
  <2>4. Clean' => Alive' \subseteq Alive \ {cid[p]}
    BY <2>2, <2>3, AliveStays
  <2>5. QED
    BY <1>1, <2>1, <2>2, <2>4, ContextGoesAlone
<1>7. QED
  BY <1>4, <1>5, <1>6 DEF StopContainer

LEMMA RemoveAlone ==
  ASSUME Correct, Alone, Kept, NEW p \in Procs, RemoveContainer(p)
  PROVE  Alone' /\ Kept'
<1>1. /\ pc[p] = "remove" /\ UNCHANGED <<file, causes>>
      /\ containers \in [Ids -> {"never", "stopped", "running", "gone"}]
      /\ pc[p] \in Reading /\ pc[p] # "idle"
  BY DEF RemoveContainer, Correct, RestTyped, Reading, Deleting
<1>2. CASE containers' = Set(containers, cid[p], "gone") /\ UNCHANGED cid
           /\ \E c \in WithoutCurrent(mem[p]) : Saves(p, c, "idle")
  <2>1. PICK c \in WithoutCurrent(mem[p]) : Saves(p, c, "idle")
    BY <1>2
  <2>2. cid[p] \in Ids
    BY <1>1 DEF Correct, CopiesGood, Sure, Holding
  <2>3. Alive' \subseteq Alive \ {cid[p]}
    BY <1>1, <1>2, <2>2 DEF Alive, Set
  <2>4. QED
    BY <1>1, <1>2, <2>1, <2>3, ContextGoesAlone
<1>3. CASE End(p) /\ UNCHANGED containers
  <2>1. Clean' => Alive' \subseteq Of(mem[p])
    BY <1>1, <1>3, ProceedsMoves, AliveStays DEF Begun
  <2>2. QED
    BY <1>1, <1>3, <2>1, ReaderEndsAlone
<1>4. QED
  BY <1>2, <1>3 DEF RemoveContainer

-----------------------------------------------------------------------------
(* The rest, and the theorems.                                             *)

LEMMA StartOrStopAlone ==
  ASSUME Correct, Alone, Kept, NEW p \in Procs, StartOrStop(p)
  PROVE  Alone' /\ Kept'
<1>1. UNCHANGED <<file, pc, mem, after, cid>> /\ causes \subseteq causes'
  BY DEF StartOrStop, locals, Begin
<1>2. Alive' \subseteq Alive
  BY DEF StartOrStop, Correct, RestTyped, Alive, Set
<1>3. QED
  BY <1>1, <1>2, StillAlone

(* What a kill leaves behind, Calm and Clean no longer speak of.           *)
LEMMA KillAlone ==
  ASSUME Correct, Alone, Kept, NEW p \in Procs, Kill(p)
  PROVE  Alone' /\ Kept'
<1>1. pc[p] # "idle" /\ End(p) /\ causes \subseteq causes' /\ ~Calm' /\ ~Clean'
  BY DEF Kill, Calm, Clean
<1>2. Moves(p)
  BY <1>1, ProceedsMoves
<1>3. QED
  BY <1>1, <1>2, EndAlone

LEMMA AroundAlone ==
  ASSUME Correct, Alone, Kept, Exits \/ Databases \/ UNCHANGED vars
  PROVE  Alone' /\ Kept'
<1>1. UNCHANGED <<file, pc, mem, after, cid>> /\ causes \subseteq causes'
  BY DEF Exits, Databases, vars, locals
<1>2. Alive' \subseteq Alive
  <2>1. CASE Exits
    BY <2>1 DEF Exits, Correct, RestTyped, Alive, Set
  <2>2. CASE UNCHANGED containers
    BY <2>2, AliveStays
  <2>3. QED
    BY <2>1, <2>2 DEF Databases, vars, world
<1>3. QED
  BY <1>1, <1>2, StillAlone

LEMMA StaysAlone ==
  ASSUME Correct, Alone, Kept, [Next]_vars
  PROVE  Alone' /\ Kept'
<1>1. ASSUME NEW p \in Procs, Starts(p)
      PROVE  Alone' /\ Kept'
  BY <1>1, AddAlone, AddContextAlone, UseContextAlone, DeleteEntryAlone, DeleteContextAlone,
     CreateAlone, DeleteAlone, StartOrStopAlone DEF Starts
<1>2. ASSUME NEW p \in Procs, Proceeds(p)
      PROVE  Alone' /\ Kept'
  BY <1>2, SaveBeginsAlone, SaveEndsAlone, UseAlone, CascadeAlone, ContainerCreateAlone,
     ContainerStartAlone, AddContainerAlone, WaitAlone, CheckAlone, StopAlone, RemoveAlone DEF Proceeds
<1>3. QED
  BY <1>1, <1>2, KillAlone, AroundAlone DEF Next

LEMMA AloneAtFirst == Init => Alone /\ Kept
<1> SUFFICES ASSUME Init PROVE Alone /\ Kept
  OBVIOUS
<1>1. \A p \in Procs : pc[p] = "idle"
  BY DEF Init
<1>2. Readable
  BY EmptyGood, LifecycleAssumption DEF Init, Readable, Good
<1>3. Chosen(file)
  BY DEF Init, Chosen, Empty
<1>4. Alive = {}
  BY DEF Init, Alive
<1>5. Alone
  BY <1>1, <1>2, <1>3 DEF Alone, Local, Reading, Deleting
<1>6. Kept
  BY <1>1, <1>4 DEF Kept
<1>7. QED
  BY <1>5, <1>6

LEMMA AlwaysAlone == Spec => [](Alone /\ Kept)
<1>1. Correct /\ (Alone /\ Kept) /\ [Next]_vars => (Alone /\ Kept)'
  BY StaysAlone
<1>2. QED
  BY AloneAtFirst, <1>1, StaysCorrect, PTL DEF Spec

(* Between two commands, and while create waits for the log, the file is   *)
(* what the last command made of it.                                       *)
LEMMA SettledFile ==
  ASSUME Alone, Kept, Settled
  PROVE  (Calm => Chosen(file)) /\ (Clean => Alive \subseteq Of(file))
<1>1. CASE AllIdle
  BY <1>1 DEF Alone, Kept
<1>2. CASE ~AllIdle
  <2>1. PICK p \in Procs : pc[p] = "await"
    BY <1>2 DEF AllIdle, Settled
  <2>2. Calm => mem[p] = file /\ Chosen(file)
    BY <2>1 DEF Alone, Local, Reading
  <2>3. Clean => Alive \subseteq Of(mem[p])
    BY <2>1 DEF Kept, Begun
  <2>4. QED
    BY <2>2, <2>3, CleanIsCalm
<1>3. QED
  BY <1>1, <1>2

(* While commands run one at a time and to their end, a configuration with *)
(* contexts has a current one between two commands: AddContext makes the   *)
(* context it has added current in a Save of its own, DeleteContext chooses*)
(* another, and a cascade gets to its last Save.                           *)
THEOREM CurrentStaysChosen == Spec => []CurrentChosen
<1>1. Alone /\ Kept => CurrentChosen
  BY SettledFile DEF Calm, Chosen, CurrentChosen
<1>2. QED
  BY <1>1, AlwaysAlone, PTL

(* A container that create made, and that is not removed, is one the file  *)
(* names between two commands, unless a command was killed, two ran at a   *)
(* time, a config command deleted its endpoint, a context was deleted while*)
(* its container was stopped, or the clean-up of a failed start failed.    *)
THEOREM NothingOrphaned == Spec => []NoOrphan
<1>1. Alone /\ Kept => NoOrphan
  BY SettledFile, CleanIsCalm DEF Alive, Of, Known, NoOrphan, Clean
<1>2. QED
  BY <1>1, AlwaysAlone, PTL
=============================================================================
