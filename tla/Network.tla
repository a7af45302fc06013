------------------------------- MODULE Network -------------------------------
(***************************************************************************)
(* Programs that each run a Server (src/src/server.rs), on networks that   *)
(* lose and reorder packets.  A multicast packet goes to everyone with an  *)
(* interface on the sender's network, the sender included.  Programs stop  *)
(* at any moment and start again with a new Server.                        *)
(*                                                                         *)
(* A deadline is kept as the time left until it, so that time may pass     *)
(* for ever in finitely many states.  The loop around the server serves    *)
(* what is due before more time passes (Driver bounds how late it can be)  *)
(* and a packet that is not lost arrives within a unit of time.            *)
(***************************************************************************)
EXTENDS ServerHandlers

CONSTANTS
  Nodes,
  Declared,             \* node -> the services it passes to new
  Targets,              \* node -> the arguments of its calls of query
  FirstAdvertise, FirstQuery, ADVERTISE_INTERVAL, QUERY_INTERVAL,
  Never,
  TxidMod,
  MaxInFlight           \* bound on the copies of packets under way

\* An IpAddr, and what a ServiceInfo is made of.
Addrs == [fam : {"v4", "v6"}, bits : SUBSET AddrBits]
ServiceInfos ==
  [ service_type : Seq(STRING), instance_name : Seq(STRING),
    hostname : Seq(STRING), ip_address : Addrs, netmask : Addrs, port : Nat ]
QueryTargets ==
  [ service_type : Seq(STRING), local_ip : [addr : Addrs, mask : Addrs] ]

\* Server::new panics for more services than it has room for.
ASSUME NetworkAssumption ==
  /\ IsFiniteSet(Nodes)
  /\ Declared \in [Nodes -> Seq(ServiceInfos)]
  /\ Targets \in [Nodes -> Seq(QueryTargets)]
  /\ SLEN \in Nat /\ QLEN \in Nat /\ ALEN \in Nat
  /\ \A n \in Nodes : ExtendFits(Len(Declared[n]), SLEN)
  /\ Alloc \/ SLEN > 0
  /\ FirstAdvertise \in Nat \ {0} /\ FirstQuery \in Nat \ {0}
  /\ ADVERTISE_INTERVAL \in Nat \ {0} /\ QUERY_INTERVAL \in Nat \ {0}
  /\ Never \in Nat
  /\ Never > FirstAdvertise + FirstQuery + ADVERTISE_INTERVAL + QUERY_INTERVAL
  /\ TxidMod \in Nat \ {0, 1} /\ MaxInFlight \in Nat \ {0}

VARIABLES
  up,         \* the nodes that run
  server,     \* node -> the fields of its Server that change
  known,      \* node -> the services its program was told of
  net         \* copies of packets under way: [to, data, from]

vars == << up, server, known, net >>

Servers ==
  [ advertise_in : Nat, advertise_idx : Nat, query_in : Nat, query_idx : Nat,
    txid_query : 0 .. TxidMod - 1, next_txid : 0 .. TxidMod - 1 ]

\* local_ips after new and the calls of query.
LocalIps ==
  [n \in Nodes |->
     LET ips == [i \in DOMAIN Declared[n] |-> LocalIp(Declared[n][i])]
                \o [i \in DOMAIN Targets[n] |-> Targets[n][i].local_ip]
     IN  PushAllNew(ips, SLEN)]

\* query_targets after the calls of query.
Registered == [n \in Nodes |-> PushAllNew(Targets[n], SLEN)]

\* A Server just after new and the calls of query.
NewServer(n) ==
  [ advertise_in  |-> IF Declared[n] # <<>> THEN FirstAdvertise ELSE Never,
    advertise_idx |-> 0,
    query_in      |-> IF Targets[n] # <<>> THEN 0
                      ELSE IF Declared[n] # <<>> THEN FirstQuery ELSE Never,
    query_idx     |-> 0,
    txid_query    |-> 0,
    next_txid     |-> 1 ]

Init ==
  /\ up = {}
  /\ server = [n \in Nodes |-> NewServer(n)]
  /\ known = [n \in Nodes |-> {}]
  /\ net = {}

-----------------------------------------------------------------------------
(* The networks                                                            *)

\* The nodes with an interface on the network of an address.
NodesOn(ip) ==
  {n \in Nodes : \E l \in Range(LocalIps[n]) : IsSameNetwork(l.addr, l.mask, ip)}

Owning(ip) == {n \in Nodes : \E l \in Range(LocalIps[n]) : l.addr = ip}

Copies(packet) ==
  LET cast == packet.cast
  IN  {[to |-> n, data |-> packet.msg, from |-> [ip |-> cast.from]] :
         n \in IF cast.mode = "multi" THEN NodesOn(cast.from)
               ELSE Owning(cast.target.ip)}

\* Any of the copies may get lost, and those too many for the bound do.
Send(packet, rest) ==
  \E arriving \in SUBSET Copies(packet) :
    /\ Cardinality(rest \cup arriving) <= MaxInFlight
    /\ net' = rest \cup arriving

\* What the program does with what handle returned.
Act(n, output, rest) ==
  /\ IF output.kind = "packet" THEN Send(output, rest) ELSE net' = rest
  /\ known' = [known EXCEPT ![n] =
       IF output.kind = "remote" THEN @ \cup {output.service}
       ELSE IF output.kind = "panic" THEN {} ELSE @]
  /\ up' = IF output.kind = "panic" THEN up \ {n} ELSE up

-----------------------------------------------------------------------------
(* Input::Timeout                                                          *)

AdvertiseDue(n) == Declared[n] # <<>> /\ server[n].advertise_in = 0
QueryDue(n)     == LocalIps[n] # <<>> /\ server[n].query_in = 0

NextIdx(n, idx) == IF idx + 1 = Len(LocalIps[n]) THEN 0 ELSE idx + 1

\* MUTANT: the round never starts anew.
TimeLeftOnce(n, idx, interval) == IF idx + 1 = Len(LocalIps[n]) THEN Never ELSE 0

\* Only the last packet of a round moves the deadline.
TimeLeft(n, idx, interval) == IF idx + 1 = Len(LocalIps[n]) THEN interval ELSE 0

\* What each node advertises on each of its interfaces.
Adverts ==
  [n \in Nodes |-> [i \in DOMAIN LocalIps[n] |-> DoAdvertise(Declared[n], LocalIps[n][i])]]

\* MUTANT: the counter does not wrap.
NextTxidUnbounded(id) == id + 1

NextTxid(id) == (id + 1) % TxidMod

\* There is room for at least one copy of another packet.
Room == Cardinality(net) < MaxInFlight

\* What a timeout call does to the server.
AdvertiseTurn(n) ==
  /\ n \in up
  /\ AdvertiseDue(n)
  /\ Room
  /\ LET idx == server[n].advertise_idx
     IN  server' = [server EXCEPT
           ![n].advertise_idx = NextIdx(n, idx),
           ![n].advertise_in  = TimeLeft(n, idx, ADVERTISE_INTERVAL)]

QueryTurn(n) ==
  /\ n \in up
  /\ ~ AdvertiseDue(n) /\ QueryDue(n)
  /\ Room
  /\ LET idx == server[n].query_idx
     IN  server' = [server EXCEPT
           ![n].query_idx  = NextIdx(n, idx),
           ![n].query_in   = TimeLeft(n, idx, QUERY_INTERVAL),
           ![n].txid_query = server[n].next_txid,
           ![n].next_txid  = NextTxid(server[n].next_txid)]

Advertise(n) ==
  AdvertiseTurn(n) /\ Act(n, Adverts[n][server[n].advertise_idx + 1], net)

SendQuery(n) ==
  /\ QueryTurn(n)
  /\ Act(n, DoQuery(Declared[n], Registered[n], LocalIps[n][server[n].query_idx + 1],
                    server[n].next_txid), net)

-----------------------------------------------------------------------------
(* Input::Packet                                                           *)

Handled(n, m) ==
  IF ~ ParseAccepts(m.data) THEN TimeoutAt(server[n].query_in)
  ELSE IF m.data.kind = "request"
  THEN HandleRequest(Declared[n], LocalIps[n], server[n].txid_query,
                     server[n].query_in, m.data, m.from)
  ELSE HandleResponse(Declared[n], Registered[n], server[n].query_in, m.data)

Deliver(m) ==
  /\ m \in net
  /\ m.to \in up
  /\ Act(m.to, Handled(m.to, m), net \ {m})
  /\ UNCHANGED server

\* Nobody listens.
Drop(m) ==
  /\ m \in net
  /\ m.to \notin up
  /\ net' = net \ {m}
  /\ UNCHANGED << up, server, known >>

-----------------------------------------------------------------------------
(* Programs and time                                                       *)

Start(n) ==
  /\ n \notin up
  /\ up' = up \cup {n}
  /\ server' = [server EXCEPT ![n] = NewServer(n)]
  /\ UNCHANGED << known, net >>

\* Nothing is persisted: neither what was learnt nor the transaction ids.
Crash(n) ==
  /\ n \in up
  /\ up' = up \ {n}
  /\ server' = [server EXCEPT ![n] = NewServer(n)]
  /\ known' = [known EXCEPT ![n] = {}]
  /\ UNCHANGED net

Elapse(t) == IF t \in {0, Never} THEN t ELSE t - 1

\* All that is due is done, and time passes for the programs that run.
TimePasses ==
  /\ up # {} /\ net = {}
  /\ \A n \in up : ~ AdvertiseDue(n) /\ ~ QueryDue(n)
  /\ server' = [n \in Nodes |->
       IF n \notin up THEN server[n]
       ELSE [server[n] EXCEPT !.advertise_in = Elapse(@), !.query_in = Elapse(@)]]

Tick == TimePasses /\ UNCHANGED << up, known, net >>

Next ==
  \/ Tick
  \/ \E n \in Nodes : Start(n) \/ Crash(n) \/ Advertise(n) \/ SendQuery(n)
  \/ \E m \in net : Deliver(m) \/ Drop(m)

-----------------------------------------------------------------------------
(* Fairness                                                                *)

\* A copy of an advertisement that gets through.
AdvertReaches(k, idx, n) ==
  /\ k \in up
  /\ AdvertiseDue(k) /\ server[k].advertise_idx = idx
  /\ Room
  /\ \E m \in Copies(Adverts[k][idx + 1]) : m.to = n /\ net' = net \cup {m}

\* <<k, idx, n>>: the interface idx of k has a service and is heard by n.
Links ==
  {l \in Nodes \X (0 .. SLEN - 1) \X Nodes :
     /\ l[1] # l[3]
     /\ l[2] < Len(LocalIps[l[1]])
     /\ l[3] \in NodesOn(LocalIps[l[1]][l[2] + 1].addr)
     /\ HostedAt(Declared[l[1]], LocalIps[l[1]][l[2] + 1]) # {}}

\* Time does not stop, nor does the loop of a program that runs.
Turn == TimePasses \/ \E n \in Nodes : AdvertiseTurn(n) \/ QueryTurn(n)

\* A copy under way comes to its end.
Arrival == \E m \in net : net' = net \ {m}

\* No program need ever start or crash, and any packet may be lost, but no
\* link loses every advertisement that is ever sent over it.
Spec ==
  /\ Init /\ [][Next]_vars
  /\ WF_server(Turn) /\ WF_net(Arrival)
  /\ \A l \in Links : SF_net(AdvertReaches(l[1], l[2], l[3]))

-----------------------------------------------------------------------------
(* Properties                                                              *)

\* What runs, what is under way and what each server counts has its type.
NetworkTypeOK ==
  /\ up \subseteq Nodes
  /\ server \in [Nodes -> Servers]
  /\ \A n \in Nodes : n \notin up => known[n] = {}
  /\ Cardinality(net) <= MaxInFlight
  /\ \A m \in net : m.to \in Nodes /\ m.data.kind \in {"request", "response"}

\* How a service is reported: the netmask is not in the answers.
AsSeen(s) == [s EXCEPT !.netmask = NetmaskFull(s.ip_address.fam)]

TypesOfInterest(n) ==
  {s.service_type : s \in Range(Declared[n])} \cup {q.service_type : q \in Range(Registered[n])}

\* What a node can learn: services of a type it looks for that others
\* declare on a network it is on.
Reach ==
  [n \in Nodes |->
     UNION {{<<k, AsSeen(s)>> : s \in {t \in Range(Declared[k]) :
               /\ n \in NodesOn(t.ip_address)
               /\ t.service_type \in TypesOfInterest(n)}} : k \in Nodes \ {n}}]

ADirectory == INSTANCE Directory

\* Whatever is lost, late, out of order or addressed to a program that has
\* stopped: a node is told of the services in its reach and of nothing else,
\* itself and the other network included; and two programs that stay up get
\* to know each other, though every request may be lost or be taken for an
\* echo, as long as an advertisement gets through now and then.
IsDirectory == ADirectory!Spec

\* What a comment says (server.rs, 375): requests from self are ignored.
OwnRequestsAreIgnored ==
  \A m \in net :
    /\ m.data.kind = "request"
    /\ m.to \in up \cap Owning(m.from.ip)
    => Handled(m.to, m).kind # "packet"
=============================================================================
