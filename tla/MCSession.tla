------------------------------ MODULE MCSession ------------------------------
(***************************************************************************)
(* Instances of the parts of a session that do not wait for each other:    *)
(* the command line, variables and the connection in use, the writers, the *)
(* driver's connection, and create, which uses a session of its own.  A    *)
(* behaviour is one of one part; the others stay where they start.         *)
(***************************************************************************)
EXTENDS CommandLine, Session, Writers, Connection, Provision, SequencesExt

CONSTANTS h1, h2, h3

VARIABLE part

all == <<part, lvars, svars, wvars, cvars, pcvars>>

-----------------------------------------------------------------------------
(* Command lines of up to four words, and the login's sources.             *)
MCCommandLines == BoundedSeq(Flags \cup {"f", "1"}, 4)

NoVariables == [server |-> "", user |-> ""]

NoArguments ==
  [server |-> "", user |-> "", password |-> "", trusted |-> FALSE, aad |-> FALSE, method |-> "",
   disable |-> "no", variables |-> NoVariables, list |-> FALSE, others |-> FALSE, input |-> FALSE,
   query |-> FALSE, initial |-> FALSE, vertical |-> FALSE, ascii |-> FALSE, hostname |-> FALSE,
   certificate |-> FALSE, packet |-> 0, headers |-> 0, width |-> 0, encrypt |-> "default",
   changeexit |-> FALSE, redirected |-> FALSE, enumerated |-> <<>>]

MCArguments ==
  {[NoArguments EXCEPT !.server = s, !.user = u, !.password = p, !.trusted = t, !.aad = a,
                       !.method = m, !.disable = d, !.variables = v] :
     s \in {"", "s1"}, u \in {"", "u1"}, p \in {"", "p1"}, t \in BOOLEAN, a \in BOOLEAN,
     m \in {"", "SqlPassword", "TokenPassword"}, d \in {"no", "1"},
     v \in {NoVariables, [NoVariables EXCEPT !.server = "s4"], [NoVariables EXCEPT !.user = "u4"]}}
  \cup {[NoArguments EXCEPT !.enumerated = e] :
          e \in [{"intent"} -> {"readonly", "other"}] \cup [{"control", "stderr"} -> {"", "1", "2"}]}

MCProcessEnvironments == [server : {"", "s2"}, user : {"", "u2"}, password : {"", "p2"}]

MCContexts == {[authentication |-> "", server |-> "", user |-> "", password |-> ""]}
              \cup [authentication : {"basic", "other"}, server : {"s3"}, user : {"u3"}, password : {"p3"}]

-----------------------------------------------------------------------------
(* Every text of up to three tokens for :setvar y, and longer ones.        *)
MCTexts ==
  {<<>>} \cup {<<" ">> \o t : t \in
     BoundedSeq({" ", "\"", "a"}, 3) \cup
     {<<"\"", "\"", "\"", "\"">>, <<"\"", "a", "\"", "\"">>, <<"\"", "\"", "\"", "\"", "\"">>,
      <<"\"", " ", "--", "\"">>, <<"\"", "\"", "a", "\"", "\"">>, <<"--">>, <<"a", "--">>,
      <<"\"", "\"", "--">>, <<"a", " ", "--", "\"">>}}

MCSetvarLines ==
  {[name |-> [key |-> "y", upper |-> TRUE], text |-> t] : t \in MCTexts}
  \cup {[name |-> n, text |-> t] :
          n \in [key : {"SERVER", "WIDTH"}, upper : BOOLEAN] \cup [key : {"x"}, upper : {TRUE}],
          t \in {<<>>, <<" ", "a">>}}

MCConnects == [server : {<<"s1">>, <<"$(", "x", ")">>}, user : {"", "u"}]

MCEnvironments == {[k \in Keys |-> IF k \in {"SERVER", "x"} THEN <<"s2">> ELSE Unset]}

(* Bound: y is set before the first connection only.                       *)
YFirst == vars["y"] # Unset => db = Unset

-----------------------------------------------------------------------------
MCHandles == {h1, h2, h3}

-----------------------------------------------------------------------------
(* One server, db.com, under every form of its name, and a name to log in  *)
(* to that is another's.                                                   *)
Server(protocol, pipe, host, instance, port) ==
  [protocol |-> protocol, pipe |-> pipe, host |-> host, instance |-> instance, port |-> port]

DbCom == <<"db", "com">>

MCLabels == {".", "local", "localhost", "db", "sql", "com", "r", "ip", "", "i", "j"}

MCServerNames ==
  {Server(p, FALSE, h, i, n) : p \in {"", "tcp", "np", "admin"}, h \in {DbCom, <<>>},
                               i \in {"", "i"}, n \in {0, 1444, -1}}
  \cup {Server(p, TRUE, h, "", 0) : p \in {"", "np", "tcp"}, h \in {DbCom, <<>>}}
  \cup {Server("", FALSE, <<"ip">>, "", n) : n \in {0, 1433}}

MCOverrides == {Server("", FALSE, h, i, 0) : h \in {<<"sql", "com">>, <<".">>}, i \in {"", "j"}}

Entry(kind, hosts, port) == [kind |-> kind, hosts |-> hosts, port |-> port]

MCExclusions ==
  {{}} \cup {{e} : e \in
    {Entry("any", {}, 0), Entry("any", {}, 1444), Entry("range", {<<"ip">>}, 0),
     Entry("ip", {<<"ip">>}, 1433), Entry("domain", {DbCom}, 0), Entry("domain", {<<"com">>}, 1434),
     Entry("sub", {DbCom}, 0), Entry("sub", {<<"com">>}, 0)}}

MCIPs == {<<"ip">>}

MCRoutes == [host : {<<"sql", "com">>, <<"r", "db", "com">>}, port : {1433, 1444}]

-----------------------------------------------------------------------------
MCDatabaseNames == {"none", "fine", "taken", "bracket", "quoted"}
MCOSUsers       == {"plain", "dotted", "sa"}
MCBackups       == {"none", "found", "missing"}

-----------------------------------------------------------------------------
(* A part that is left alone.                                              *)
LParked ==
  /\ step = "words" /\ line = <<>> /\ flags = NoFlags /\ args = NoArguments
  /\ given = [server |-> "", user |-> "", password |-> ""] /\ env = given
  /\ context = [authentication |-> "", server |-> "", user |-> "", password |-> ""]
  /\ variables = [server |-> "", user |-> ""] /\ connectSettings = NoLogin
  /\ console = [needed |-> FALSE, interactive |-> FALSE]

SParked ==
  /\ environment \in MCEnvironments /\ db = Unset /\ asked = Unset
  /\ connect = SettingsOf(<<"s1">>, "", FALSE, FALSE) /\ vars = Initialize(TRUE)

WParked == WInit /\ ~encoded

CParked ==
  /\ name = Server("", FALSE, DbCom, "", 0) /\ override = None /\ admin = FALSE /\ proxy = FALSE
  /\ exclusions = {} /\ stage = "start"
  /\ login = None /\ dialer = None /\ routed = None /\ request = None /\ last = None

PCParked ==
  /\ creating = "options"
  /\ options = [database |-> "none", user |-> "plain", backup |-> "none", cached |-> FALSE]
  /\ server = NoServer /\ stored = FALSE /\ todo = <<>> /\ refused = {}

Init ==
  \/ part = "command line" /\ LInit   /\ SParked /\ WParked /\ CParked /\ PCParked
  \/ part = "session"      /\ LParked /\ SInit   /\ WParked /\ CParked /\ PCParked
  \/ part = "writers"      /\ LParked /\ SParked /\ WInit   /\ CParked /\ PCParked
  \/ part = "connection"   /\ LParked /\ SParked /\ WParked /\ CInit   /\ PCParked
  \/ part = "create"       /\ LParked /\ SParked /\ WParked /\ CParked /\ PCInit

Next ==
  /\ UNCHANGED part
  /\ \/ part = "command line" /\ LNext  /\ UNCHANGED <<svars, wvars, cvars, pcvars>>
     \/ part = "session"      /\ SNext  /\ UNCHANGED <<lvars, wvars, cvars, pcvars>>
     \/ part = "writers"      /\ WNext  /\ UNCHANGED <<lvars, svars, cvars, pcvars>>
     \/ part = "connection"   /\ CNext  /\ UNCHANGED <<lvars, svars, wvars, pcvars>>
     \/ part = "create"       /\ PCNext /\ UNCHANGED <<lvars, svars, wvars, cvars>>

Spec == Init /\ [][Next]_all
=============================================================================
