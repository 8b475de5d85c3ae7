----------------------------- MODULE Connection -----------------------------
(***************************************************************************)
(* pkg/sqlcmd/connect.go, dialer.go, util.go: from a server name and a     *)
(* name to log in to (-S, --server-name) to the addresses that are dialed, *)
(* with the proxy of ALL_PROXY and the exclusions of NO_PROXY.  The driver *)
(* is external: it takes the connection string, asks for addresses to be   *)
(* dialed, falls back to a named pipe, and follows the server's redirects. *)
(*                                                                         *)
(* A host is the sequence of its labels, an IP address a host of one.      *)
(***************************************************************************)
EXTENDS Integers, Sequences, FiniteSets

CONSTANTS
  Labels,        \* what the dots of a host's name separate
  ServerNames,   \* server names as they are written
  Overrides,     \* names given with --server-name
  Exclusions,    \* values of NO_PROXY: sets of entries
  IPs,           \* hosts that are IP addresses
  Routes,        \* addresses that a server redirects to
  None           \* no name, no value

VARIABLES
  name,          \* ServerName
  override,      \* ServerNameOverride
  admin,         \* DedicatedAdminConnection
  proxy,         \* ALL_PROXY is set
  exclusions,    \* NO_PROXY
  stage,         \* "start", "refused", or what the driver does
  login,         \* the connection string: host, instance, port, protocol
  dialer,        \* Dialer of the connector
  routed,        \* the address of the last redirect, or None
  request,       \* the driver's last request: network, host and port
  last           \* the last connection made for it

cvars == <<name, override, admin, proxy, exclusions, stage, login, dialer, routed, request, last>>

settings == <<name, override, admin, proxy, exclusions>>

DefaultPort == 1433
BrowserPort == 1434
InstancePort == 5000   \* what the browser answers

(* A name has a protocol or "", "\\" before a pipe's, a host or <<>>, an   *)
(* instance or "", and a port: 0 is none, -1 one that is no number.        *)
Local == {<<".">>, <<"local">>}

Hosts == Seq(Labels)

ASSUME NamesAssumption ==
  /\ {".", "localhost"} \subseteq Labels
  /\ \A n \in ServerNames \cup Overrides :
       n.host \in Hosts /\ n.instance \in Labels /\ n.port \in Int
  /\ \A r \in Routes : r.host \in Hosts

(* An entry with an address or a range is not one with a domain, which is  *)
(* not empty either.                                                       *)
ASSUME ExclusionsAssumption ==
  /\ \A h \in IPs : Len(h) = 1
  /\ \A x \in Exclusions : \A e \in x :
       /\ e.kind \in {"any", "range", "ip", "domain", "sub"} /\ e.hosts \subseteq Hosts
       /\ e.kind \in {"domain", "sub"} => e.hosts \cap (IPs \cup {<<>>}) = {}

ASSUME NoneAssumption ==
  None \notin Hosts \cup Routes \cup [serverName : Hosts, serverPort : Int, targetHost : Hosts \cup {None},
                                      targetPort : Int]

-----------------------------------------------------------------------------
(* splitServer.  A name with a port is not split at an instance: the host  *)
(* keeps it.                                                               *)
NotAServer == [ok |-> FALSE]

Split(host, instance, port, protocol) ==
  [ok |-> TRUE, host |-> host, instance |-> instance, port |-> port, protocol |-> protocol]

SplitServer(n) ==
  LET host == IF n.host = <<>> /\ n.protocol # "" THEN <<".">> ELSE n.host
  IN  IF n.pipe
        THEN IF n.protocol \notin {"", "np"} \/ n.host = <<>> THEN NotAServer
             ELSE Split(n.host, "", 0, "np")
      ELSE IF n.port = -1 THEN NotAServer
      ELSE IF n.port > 0 /\ n.instance # ""
        THEN Split(host \o <<n.instance>>, "", n.port, n.protocol)
      ELSE Split(host, n.instance, n.port, n.protocol)

UsesOverride == override # None /\ SplitServer(name).protocol # "np"

OrLocal(host) == IF host = <<>> THEN <<".">> ELSE host

(* ConnectionString: the name to log in to is the override's, the port and *)
(* the protocol are the server's.                                          *)
ConnectionString ==
  LET s == SplitServer(name)
      o == SplitServer(override)
      protocol == IF admin THEN "admin" ELSE s.protocol
  IN  IF ~s.ok \/ (UsesOverride /\ ~o.ok) THEN NotAServer
      ELSE IF ~UsesOverride THEN Split(OrLocal(s.host), s.instance, s.port, protocol)
      ELSE Split(OrLocal(o.host), IF o.instance # "" THEN o.instance ELSE s.instance,
                 s.port, protocol)

(* connector(): with a proxy, TCP only.                                    *)
ConnectorKeeps == ConnectionString

ProxiedConnector ==
  LET c == ConnectionString
  IN  IF ~c.ok THEN NotAServer
      ELSE IF proxy /\ (admin \/ SplitServer(name).protocol \notin {"", "tcp"}) THEN NotAServer
      ELSE IF proxy THEN Split(c.host, c.instance, c.port, "tcp") ELSE c

(* msdsn.Parse.                                                            *)
ConfigHost(c) == IF c.host \in Local THEN <<"localhost">> ELSE c.host
ConfigPort(c) == IF c.port > 0 THEN c.port
                 ELSE IF c.protocol = "admin" /\ c.instance = "" THEN BrowserPort ELSE 0

(* The port of the server left out of account.                             *)
ConfigureForDefault(c) ==
  IF ~proxy /\ ~UsesOverride THEN None
  ELSE [serverName |-> ConfigHost(c), serverPort |-> DefaultPort,
        targetHost |-> IF UsesOverride THEN OrLocal(SplitServer(name).host) ELSE None,
        targetPort |-> IF UsesOverride THEN SplitServer(name).port ELSE 0]

(* configureConnectionDialer: None is the driver's own.                    *)
Configure(c) ==
  LET s == SplitServer(name)
  IN  IF ~proxy /\ ~UsesOverride THEN None
      ELSE [serverName |-> ConfigHost(c),
            serverPort |-> IF ConfigPort(c) > 0 THEN ConfigPort(c)
                           ELSE IF c.instance = "" THEN DefaultPort ELSE 0,
            targetHost |-> IF UsesOverride THEN OrLocal(s.host) ELSE None,
            targetPort |-> IF UsesOverride THEN s.port ELSE 0]

-----------------------------------------------------------------------------
(* parseNoProxy: entries are "*", CIDR ranges as the set of their hosts,   *)
(* addresses, domains, and subdomains ("." or "*." before), all but the    *)
(* ranges with an optional port.                                           *)
Suffix(d, h) == Len(d) <= Len(h) /\ SubSeq(h, Len(h) - Len(d) + 1, Len(h)) = d

Matches(e, host, port) ==
  /\ e.port \in {0, port}
  /\ CASE e.kind = "any"    -> TRUE
       [] e.kind = "range"  -> host \in e.hosts
       [] e.kind = "ip"     -> host \in e.hosts
       [] e.kind = "domain" -> host \notin IPs /\ \E d \in e.hosts : host = d \/ Suffix(d, host)
       [] e.kind = "sub"    -> host \notin IPs /\ \E d \in e.hosts : host # d /\ Suffix(d, host)

DialAlways(d, r) ==
  IF r.host # d.serverName THEN r
  ELSE [network |-> r.network,
        host |-> IF d.targetHost # None THEN d.targetHost ELSE r.host,
        port |-> IF d.targetPort # 0 /\ r.network = "tcp" THEN d.targetPort ELSE r.port]

(* proxyDialer.dialAddress.                                                *)
DialAddress(d, r) ==
  IF r.host # d.serverName THEN r
  ELSE IF r.network = "tcp" /\ d.serverPort # 0 /\ r.port # d.serverPort THEN r
  ELSE [network |-> r.network,
        host |-> IF d.targetHost # None THEN d.targetHost ELSE r.host,
        port |-> IF d.targetPort # 0 /\ r.network = "tcp" THEN d.targetPort ELSE r.port]

(* socksDialer.DialContext, or net.Dialer's; the exclusions are looked up  *)
(* for the address that is dialed.                                         *)
ByRequest(d, r) ==
  [network |-> DialAddress(d, r).network, host |-> DialAddress(d, r).host,
   port |-> DialAddress(d, r).port,
   via |-> IF ~proxy \/ \E e \in exclusions : Matches(e, r.host, r.port) THEN "direct"
           ELSE IF r.network = "tcp" THEN "proxy" ELSE "none"]

Transport(d, r) ==
  LET a == DialAddress(d, r)
  IN  [network |-> a.network, host |-> a.host, port |-> a.port,
       via |-> IF ~proxy \/ \E e \in exclusions : Matches(e, a.host, a.port) THEN "direct"
               ELSE IF a.network = "tcp" THEN "proxy" ELSE "none"]

Dialed(r) ==
  IF dialer = None
    THEN [network |-> r.network, host |-> r.host, port |-> r.port, via |-> "direct"]
    ELSE Transport(dialer, r)

-----------------------------------------------------------------------------
CInit ==
  /\ name \in ServerNames /\ override \in Overrides \cup {None}
  /\ admin \in BOOLEAN /\ proxy \in BOOLEAN
  /\ exclusions \in IF proxy THEN Exclusions ELSE {{}}
  /\ stage = "start"
  /\ login = None /\ dialer = None /\ routed = None /\ request = None /\ last = None

MakeConnector ==
  /\ stage = "start"
  /\ LET c == ProxiedConnector
     IN  IF ~c.ok THEN stage' = "refused" /\ UNCHANGED <<login, dialer>>
         ELSE /\ login' = c /\ dialer' = Configure(c)
              /\ stage' = IF c.protocol = "np" THEN "pipe"
                          ELSE IF c.instance # "" /\ ConfigPort(c) = 0 THEN "browse" ELSE "dial"
  /\ UNCHANGED <<settings, routed, request, last>>

(* The driver asks the browser service for the port of an instance.        *)
Browse ==
  /\ stage = "browse"
  /\ request' = [network |-> "udp", host |-> ConfigHost(login), port |-> BrowserPort]
  /\ last' = Dialed(request')
  /\ stage' \in (IF last'.via = "none" THEN {} ELSE {"dial"}) \cup {"failed"}
  /\ UNCHANGED <<settings, login, dialer, routed>>

(* It dials what it was given, or where the server sent it; if that fails, *)
(* a pipe is next where no protocol is given.                              *)
Dial ==
  /\ stage = "dial"
  /\ \E p \in IF routed # None THEN {routed.port}
              ELSE IF ConfigPort(login) > 0 THEN {ConfigPort(login)}
              ELSE IF login.instance # "" THEN {InstancePort} ELSE {DefaultPort} :
       request' = [network |-> "tcp", port |-> p,
                 host |-> IF routed # None THEN routed.host ELSE ConfigHost(login)]
  /\ last' = Dialed(request')
  /\ stage' \in {"open", IF login.protocol = "" /\ routed = None THEN "pipe" ELSE "failed"}
  /\ UNCHANGED <<settings, login, dialer, routed>>

(* A pipe is not opened by the dialer.                                     *)
OpenPipe ==
  /\ stage = "pipe"
  /\ request' = [network |-> "pipe", host |-> ConfigHost(login), port |-> 0]
  /\ last' = [network |-> "pipe", host |-> ConfigHost(login), port |-> 0, via |-> "direct"]
  /\ stage' \in {"open", "failed"}
  /\ UNCHANGED <<settings, login, dialer, routed>>

(* The server redirects the login.                                         *)
Redirect ==
  /\ stage = "open" /\ last.network = "tcp"
  /\ \E r \in Routes : routed' = r
  /\ stage' = "dial"
  /\ UNCHANGED <<settings, login, dialer, request, last>>

(* Reset of the pool: the connector is used for another connection.        *)
Reconnect ==
  /\ stage \in {"open", "failed"}
  /\ stage' = "start" /\ routed' = None /\ request' = None /\ last' = None
  /\ login' = None /\ dialer' = None
  /\ UNCHANGED settings

CNext == MakeConnector \/ Browse \/ Dial \/ OpenPipe \/ Redirect \/ Reconnect

CSpec == CInit /\ [][CNext]_cvars
-----------------------------------------------------------------------------
(* README: exclusions are exact addresses, ranges, domains and their       *)
(* subdomains, "." and "*." subdomains only, "*" all, an optional port.    *)
Below(d, h) == \E k \in 1..Len(h) : SubSeq(h, k + 1, Len(h)) = d
Excluded(e, host, port) ==
  /\ e.port = 0 \/ e.port = port
  /\ \/ e.kind = "any"
     \/ e.kind \in {"ip", "range", "domain"} /\ host \in e.hosts
     \/ e.kind \in {"domain", "sub"} /\ \E d \in e.hosts : Below(d, host)

(* "Matching applies to each dial destination, including redirects", and   *)
(* nothing goes around the proxy but what is excluded: not the browser,    *)
(* not a pipe the driver falls back to, not the host of --server-name.     *)
ProxyKept ==
  proxy /\ last # None =>
    /\ last.via = "direct" => \E e \in exclusions : Excluded(e, last.host, last.port)
    /\ last.via = "proxy"  => \A e \in exclusions : ~Excluded(e, last.host, last.port)

(* "-S supplies the initial dial address": whatever name the server is     *)
(* logged in to, the first connection goes to the host of -S, and to its   *)
(* port if it has one.                                                     *)
InitialDialAtServer ==
  last # None /\ routed = None /\ last.network # "pipe" =>
    LET s == SplitServer(name)
    IN  /\ last.host \in {OrLocal(s.host)} \cup (IF OrLocal(s.host) \in Local THEN {<<"localhost">>} ELSE {})
        /\ s.port > 0 /\ last.network = "tcp" => last.port = s.port

(* "Redirects must use their routed destination, even when the hostname is *)
(* unchanged and only the port differs", but after a login to a named      *)
(* instance: its port is not known beforehand, so that the dialer goes by  *)
(* the host alone and takes the redirect for the first dial.               *)
RedirectsFollowed ==
  routed # None /\ stage \in {"open", "failed"} =>
    \/ last.host = routed.host /\ last.port = routed.port
    \/ /\ routed.host = ConfigHost(login)
       /\ \/ routed.port = ConfigPort(login) \/ login.instance # ""
          \/ ConfigPort(login) = 0 /\ routed.port = DefaultPort
=============================================================================
