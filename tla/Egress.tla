------------------------------- MODULE Egress -------------------------------
(***************************************************************************)
(* One fetch on its way out (ssrf.go, and net/http as fetchClient uses it):  *)
(* proxyFor chooses the route of each request, safeDialContext resolves and  *)
(* dials, safeCheckRedirect judges where a redirect leads.  Every lookup may *)
(* give another answer, and a connection left open may carry a later         *)
(* request.  A target is a <<host, port>> pair, an address a class of        *)
(* addresses that the checks tell apart.                                     *)
(***************************************************************************)
EXTENDS Naturals, Sequences

CONSTANTS
  Target,          \* the <<host, port>> pairs that URLs and redirects name
  ProxyAuthority,  \* the one FETCH_PROXY names
  Address,         \* classes of addresses a name resolves to
  PublicIP,        \* those assertPublicIP lets pass
  Configs,         \* fetch ACLs: [proxy, all, hosts, ranges]
  MaxAddrs,        \* bound: addresses in one answer
  MaxRequests      \* 5: requests of one fetch, the redirects included

(* What setProxy accepts: FETCH_PROXY_ALL only beside a FETCH_PROXY. *)
SetProxy(a) == a.all => a.proxy

(* What newFetchACL accepts: each host and each range names one port. *)
NewFetchACL(a) ==
  /\ a.hosts \subseteq Target
  /\ a.ranges \subseteq Address \X {t[2] : t \in Target}

ASSUME EgressAssumption ==
  /\ ProxyAuthority \in Target /\ PublicIP \subseteq Address
  /\ MaxAddrs \in Nat \ {0} /\ MaxRequests \in Nat \ {0}
  /\ \A a \in Configs :
       /\ a.proxy \in BOOLEAN /\ a.all \in BOOLEAN
       /\ NewFetchACL(a) /\ SetProxy(a)

VARIABLES
  acl,    \* the fetch ACL, fixed at startup
  fetch,  \* where the fetch is
  idle    \* the connection left open, if any: a set

egressVars == <<acl, fetch, idle>>

NoFetch == [pc |-> "none"]
Request(t, made) == [pc |-> "route", target |-> t, made |-> made]
Failed(blocked) == [pc |-> "failed", blocked |-> blocked]
Got == [pc |-> "got"]

EgressInit == acl \in Configs /\ fetch = NoFetch /\ idle = {}

(* hostAllowed *)
HostAllowed(t) == t \in acl.hosts

(* assertReachable, for each address of an answer. *)
Reachable(ip, port) == <<ip, port>> \in acl.ranges \/ ip \in PublicIP
AllReachable(addrs, port) == \A i \in DOMAIN addrs : Reachable(addrs[i], port)

(* The answers a resolver can give. *)
Resolutions == UNION {[1..n -> Address] : n \in 1..MaxAddrs}

(* Mutant of NamesProxy: the target is not compared with the proxy. *)
NeverNamesProxy(t) == FALSE

(* A request for the proxy itself is refused. *)
NamesProxy(t) == acl.proxy /\ t = ProxyAuthority

(* Whether proxyFor sends a request for t through the proxy. *)
Proxied(t) == acl.proxy /\ (acl.all \/ HostAllowed(t))

-----------------------------------------------------------------------------
(* proxyFor: the route of a request, or its refusal. *)
Route ==
  /\ fetch.pc = "route"
  /\ fetch' = IF NamesProxy(fetch.target) THEN Failed(0)
              ELSE [fetch EXCEPT !.pc = "connect"]
  /\ UNCHANGED <<acl, idle>>

(* The authority the transport connects to for a target. *)
Peer(t) == IF Proxied(t) THEN ProxyAuthority ELSE t

(* The request goes out on a connection. *)
Sent(conn) ==
  [pc |-> "sent", target |-> fetch.target, made |-> fetch.made, conn |-> conn]

(* An open connection of the same route is used again. *)
ReuseConn ==
  /\ fetch.pc = "connect"
  /\ \E c \in idle :
       /\ c.to = Peer(fetch.target) /\ c.proxied = Proxied(fetch.target)
       /\ fetch' = Sent(c)
  /\ UNCHANGED <<acl, idle>>

(* safeDialContext: the proxy is dialled as it is; any other name is        *)
(* resolved, every address judged unless the name is listed, and the first  *)
(* one dialled.                                                             *)
Dial ==
  /\ fetch.pc = "connect"
  /\ \E addrs \in Resolutions :
       LET to   == Peer(fetch.target)
           conn == [to |-> to, proxied |-> Proxied(fetch.target), ip |-> addrs[1]]
       IN  \/ /\ \/ acl.proxy /\ to = ProxyAuthority
                 \/ HostAllowed(to)
                 \/ AllReachable(addrs, to[2])
              /\ fetch' = Sent(conn)
           \/ /\ ~(acl.proxy /\ to = ProxyAuthority)
              /\ ~HostAllowed(to) /\ ~AllReachable(addrs, to[2])
              /\ fetch' = Failed(1)
  /\ UNCHANGED <<acl, idle>>

(* A 200 ends the fetch; its connection may stay open, or not. *)
Answer ==
  /\ fetch.pc = "sent"
  /\ fetch' = Got
  /\ idle' \in {{}, {fetch.conn}}
  /\ UNCHANGED acl

(* The answer is a redirect. *)
Redirected ==
  /\ fetch.pc = "sent"
  /\ \E t \in Target :
       fetch' = [pc |-> "redirect", target |-> t, made |-> fetch.made]
  /\ idle' \in {{}, {fetch.conn}}
  /\ UNCHANGED acl

(* safeCheckRedirect: too many; listed, or left to the proxy; or judged by  *)
(* what the name resolves to now.                                            *)
CheckRedirect ==
  /\ fetch.pc = "redirect"
  /\ \/ fetch.made >= MaxRequests /\ fetch' = Failed(0)
     \/ /\ fetch.made < MaxRequests
        /\ HostAllowed(fetch.target) \/ acl.all
        /\ fetch' = Request(fetch.target, fetch.made + 1)
     \/ /\ fetch.made < MaxRequests
        /\ ~(HostAllowed(fetch.target) \/ acl.all)
        /\ \E addrs \in Resolutions :
             fetch' = IF AllReachable(addrs, fetch.target[2])
                      THEN Request(fetch.target, fetch.made + 1) ELSE Failed(1)
  /\ UNCHANGED <<acl, idle>>

(* No such name, no connection, another status, or 30 seconds are over. *)
GiveUp ==
  /\ fetch.pc \in {"connect", "sent", "redirect"}
  /\ fetch' = Failed(0)
  /\ UNCHANGED <<acl, idle>>

(* An open connection is closed, by either side. *)
CloseIdle ==
  /\ idle # {} /\ idle' = {}
  /\ UNCHANGED <<acl, fetch>>

EgressStep ==
  \/ Route \/ ReuseConn \/ Dial \/ Answer \/ Redirected \/ CheckRedirect
  \/ GiveUp \/ CloseIdle

-----------------------------------------------------------------------------
(* A connection the ACL allows: to the proxy, as a proxy only; or straight   *)
(* to a target that is listed, or at an address that is public or in a range *)
(* listed with that port.                                                    *)
ConnAllowed(c) ==
  IF c.proxied THEN acl.proxy /\ c.to = ProxyAuthority
  ELSE /\ ~acl.all
       /\ ~(acl.proxy /\ c.to = ProxyAuthority)
       /\ HostAllowed(c.to) \/ Reachable(c.ip, c.to[2])

(* Every connection, and the one every request goes out on, is one the ACL  *)
(* allows: whatever names resolve to from one lookup to the next, wherever  *)
(* redirects lead, and whichever connection is used again.  The exemption   *)
(* that lets the relay dial its proxy "cannot be reached by a                *)
(* caller-supplied URL", and a request the operator did not hand to the      *)
(* proxy does not go through it.                                             *)
ConnectionsAllowed ==
  /\ \A c \in idle : ConnAllowed(c)
  /\ fetch.pc = "sent" =>
       /\ ConnAllowed(fetch.conn)
       /\ IF fetch.conn.proxied
          THEN acl.all \/ HostAllowed(fetch.target)
          ELSE fetch.conn.to = fetch.target
=============================================================================
