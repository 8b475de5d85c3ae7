----------------------------- MODULE Sqlconfig -----------------------------
(***************************************************************************)
(* The configuration of the sqlcmd commands (internal/config): contexts,   *)
(* endpoints, users and the current context, and what the functions of the *)
(* package make of them in memory.                                         *)
(*                                                                         *)
(* The lists are sets of entries.  Their order decides only which context  *)
(* becomes current when one is deleted; any remaining one may here.        *)
(* Addresses, ports and passwords are left out.                            *)
(***************************************************************************)
EXTENDS Integers, Sequences

CONSTANTS
  Bases,         \* words names are made of
  MaxPostfix,    \* bound: numerals tried to make a name unique
  Ids,           \* container ids
  NoName,        \* the empty string
  NoContainer

ASSUME ConfigAssumption ==
  /\ MaxPostfix \in 2..9                  \* one decimal digit
  /\ NoName \notin [of : Bases, n : Nat]
  /\ NoContainer \notin Ids

(* A word and the numeral after it (0: none): "mssql", "mssql2".           *)
Names == [of : Bases, n : Nat]

Postfixed(name, k) == [name EXCEPT !.n = 10 * @ + k]

(* Names of users: one name, or two joined by "@"; <<>> is the empty one.  *)
UserNames == Seq(Names)

Contexts  == [name : Names, endpoint : Names, user : UserNames]
Endpoints == [name : Names, container : Ids \cup {NoContainer}]
Users     == [name : UserNames, of : Ids \cup {NoContainer}]

Configs == [contexts : SUBSET Contexts, endpoints : SUBSET Endpoints,
            users : SUBSET Users, current : Names \cup {NoName}]

Empty == [contexts |-> {}, endpoints |-> {}, users |-> {}, current |-> NoName]

ContextExists(c, name)  == \E x \in c.contexts : x.name = name
EndpointExists(c, name) == \E e \in c.endpoints : e.name = name
UserNameExists(c, name) == \E u \in c.users : u.name = name

-----------------------------------------------------------------------------
(* Names found for a new entry; numerals beyond MaxPostfix are not tried.  *)

Candidates(asked) == {asked} \cup {Postfixed(asked, k) : k \in 2..MaxPostfix}

AlwaysTwo(c, asked, name) ==
  name = IF EndpointExists(c, asked) THEN Postfixed(asked, 2) ELSE asked

UniqueEndpointName(c, asked, name) ==
  \/ name = asked /\ ~EndpointExists(c, asked)
  \/ /\ EndpointExists(c, asked) /\ ~EndpointExists(c, name)
     /\ \E k \in 2..MaxPostfix :
          /\ name = Postfixed(asked, k)
          /\ \A j \in 2..(k - 1) : EndpointExists(c, Postfixed(asked, j))

UniqueUserName(c, asked, name) ==
  \/ name = asked /\ ~UserNameExists(c, <<asked>>)
  \/ /\ UserNameExists(c, <<asked>>) /\ ~UserNameExists(c, <<name>>)
     /\ \E k \in 2..MaxPostfix :
          /\ name = Postfixed(asked, k)
          /\ \A j \in 2..(k - 1) : UserNameExists(c, <<Postfixed(asked, j)>>)

(* username@name is a user; no user is called "@name".                     *)
LoginExists(c, user, name) == user # <<>> /\ UserNameExists(c, Append(user, name))

Clear(c, user, name) == ~ContextExists(c, name) /\ ~LoginExists(c, user, name)

(* The search of FindUniqueContextName gets to the k-th name: it moves on  *)
(* only from a name that a context has.                                    *)
Reaches(c, asked, user, k) ==
  /\ ~Clear(c, user, asked)
  /\ \A j \in 2..(k - 1) : ContextExists(c, Postfixed(asked, j))

(* It ends with name.                                                      *)
UniqueContextName(c, asked, user, name) ==
  \/ name = asked /\ Clear(c, user, asked)
  \/ \E k \in 2..MaxPostfix : /\ name = Postfixed(asked, k)
                              /\ Clear(c, user, name)
                              /\ Reaches(c, asked, user, k)

(* It tries the same name for ever.                                        *)
NeverFound(c, asked, user) ==
  \E k \in 2..MaxPostfix :
    /\ Reaches(c, asked, user, k)
    /\ ~ContextExists(c, Postfixed(asked, k))
    /\ LoginExists(c, user, Postfixed(asked, k))

-----------------------------------------------------------------------------
(* The operations; each is followed by a Save.                             *)

WithEndpoint(c, name) ==
  [c EXCEPT !.endpoints = @ \cup {[name |-> name, container |-> NoContainer]}]

WithUser(c, name) ==
  [c EXCEPT !.users = @ \cup {[name |-> <<name>>, of |-> NoContainer]}]

WithContext(c, name, endpoint, user) ==
  [c EXCEPT !.contexts = @ \cup {[name |-> name, endpoint |-> endpoint, user |-> user]}]

StoresName(c, name, endpoint, login, id) ==
  [c EXCEPT !.contexts = @ \cup {[name |-> name, endpoint |-> endpoint, user |-> login]},
            !.endpoints = @ \cup {[name |-> endpoint, container |-> endpoint]},
            !.users = @ \cup {[name |-> login, of |-> id]},
            !.current = name]

(* AddContextWithContainer, with the names it has found.                   *)
WithContainer(c, name, endpoint, login, id) ==
  [contexts  |-> c.contexts \cup {[name |-> name, endpoint |-> endpoint, user |-> login]},
   endpoints |-> c.endpoints \cup {[name |-> endpoint, container |-> id]},
   users     |-> c.users \cup {[name |-> login, of |-> id]},
   current   |-> name]

WithoutEndpoint(c, name) == [c EXCEPT !.endpoints = {e \in @ : e.name # name}]

WithoutUser(c, name) == [c EXCEPT !.users = {u \in @ : u.name # name}]

ClearsCurrent(c, name) ==
  {[c EXCEPT !.contexts = {x \in @ : x.name # name}, !.current = NoName]}

KeepsCurrent(c, name) == {[c EXCEPT !.contexts = {x \in @ : x.name # name}]}

(* DeleteContext: the results, one for each context that may be the first. *)
WithoutContext(c, name) ==
  LET rest == {x \in c.contexts : x.name # name}
  IN  {[c EXCEPT !.contexts = rest, !.current = cur] :
         cur \in IF rest = {} THEN {NoName} ELSE {x.name : x \in rest}}

(* Of the current context, {} if there is none.                            *)
CurrentContexts(c) == {x \in c.contexts : x.name = c.current}

CurrentEndpoints(c) ==
  {e \in c.endpoints : \E x \in CurrentContexts(c) : x.endpoint = e.name}

CurrentContainers(c) == {e.container : e \in CurrentEndpoints(c)} \ {NoContainer}

(* RemoveCurrentContext.                                                   *)
WithoutCurrent(c) ==
  WithoutContext(
    [c EXCEPT !.endpoints = @ \ CurrentEndpoints(c),
              !.users = {u \in @ : \A x \in CurrentContexts(c) : x.user # u.name}],
    c.current)
=============================================================================
