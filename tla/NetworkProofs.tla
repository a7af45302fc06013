---------------------------- MODULE NetworkProofs ----------------------------
(***************************************************************************)
(* What programs that run opslag servers learn of each other, for every    *)
(* number of nodes and networks, whatever is lost, late or restarted.      *)
(* Nothing is reported but what one node said in one packet about services *)
(* on one network; if names are unique there, three answers that fit each  *)
(* other are about one service.                                            *)
(***************************************************************************)
EXTENDS Network, HandlerProofs

Interfaces == [addr : Addrs, mask : Addrs]

\* The interfaces of a node, and what it asks for.
LEMMA NodeConstants ==
  ASSUME NEW n \in Nodes
  PROVE  /\ Declared[n] \in Seq(ServiceInfos)
         /\ LocalIps[n] \in Seq(Interfaces)
         /\ Declared[n] # <<>> => LocalIps[n] # <<>>
         /\ Registered[n] \in Seq(QueryTargets)
  <1> USE NetworkAssumption
  <1> DEFINE own == [i \in DOMAIN Declared[n] |-> LocalIp(Declared[n][i])]
             wanted == [i \in DOMAIN Targets[n] |-> Targets[n][i].local_ip]
  <1>1. Declared[n] \in Seq(ServiceInfos) /\ Targets[n] \in Seq(QueryTargets)
    OBVIOUS
  <1>2. own \in Seq(Interfaces) /\ Len(own) = Len(Declared[n])
    <2>1. Len(Declared[n]) \in Nat /\ DOMAIN Declared[n] = 1 .. Len(Declared[n])
      BY <1>1, LenProperties
    <2>2. \A i \in 1 .. Len(Declared[n]) : Declared[n][i] \in ServiceInfos
      BY <1>1, <2>1, ElementOfSeq
    <2>3. \A s \in ServiceInfos : LocalIp(s) \in Interfaces
      BY DEF LocalIp, Interfaces, ServiceInfos
    <2>4. QED
      BY <2>1, <2>2, <2>3, IsASeq, LenProperties
  <1>3. wanted \in Seq(Interfaces)
    <2>1. Len(Targets[n]) \in Nat /\ DOMAIN Targets[n] = 1 .. Len(Targets[n])
      BY <1>1, LenProperties
    <2>2. \A i \in 1 .. Len(Targets[n]) : Targets[n][i] \in QueryTargets
      BY <1>1, <2>1, ElementOfSeq
    <2>3. \A q \in QueryTargets : q.local_ip \in Interfaces
      BY DEF Interfaces, QueryTargets
    <2>4. QED
      BY <2>1, <2>2, <2>3, IsASeq
  <1>4. LocalIps[n] = PushAllNew(own \o wanted, SLEN)
    BY DEF LocalIps
  <1> HIDE DEF own, wanted
  <1>5. own \o wanted \in Seq(Interfaces) /\ Len(own \o wanted) = Len(own) + Len(wanted)
    BY <1>2, <1>3, ConcatProperties
  <1>6. Declared[n] # <<>> => own \o wanted # <<>>
    BY <1>1, <1>2, <1>3, <1>5, EmptySeq, LenProperties
  <1>7. /\ LocalIps[n] \in Seq(Interfaces)
        /\ own \o wanted # <<>> => LocalIps[n] # <<>>
    BY <1>4, <1>5, PushAllNewProperties
  <1>8. Registered[n] \in Seq(QueryTargets)
    BY <1>1, PushAllNewProperties DEF Registered
  <1>9. QED
    BY <1>1, <1>6, <1>7, <1>8

-----------------------------------------------------------------------------
(* Types                                                                   *)

\* Between rounds and within them, an index is one of an interface.
IndicesOK ==
  \A n \in Nodes : LocalIps[n] # <<>> =>
    /\ server[n].advertise_idx < Len(LocalIps[n])
    /\ server[n].query_idx < Len(LocalIps[n])

NetworkInv ==
  /\ NetworkTypeOK /\ IndicesOK
  /\ IsFiniteSet(net)
  /\ known = [n \in Nodes |-> known[n]]

\* What is passed to the socket, for whom it may be.
LEMMA CopiesTyped ==
  ASSUME NEW packet
  PROVE  /\ IsFiniteSet(Copies(packet))
         /\ \A m \in Copies(packet) :
              /\ m.to \in Nodes /\ m.data = packet.msg /\ m.from.ip = packet.cast.from
              /\ IF packet.cast.mode = "multi" THEN m.to \in NodesOn(packet.cast.from)
                 ELSE m.to \in Owning(packet.cast.target.ip)
  <1> DEFINE hearers == IF packet.cast.mode = "multi" THEN NodesOn(packet.cast.from)
                        ELSE Owning(packet.cast.target.ip)
             copy == [n \in hearers |->
                        [to |-> n, data |-> packet.msg, from |-> [ip |-> packet.cast.from]]]
  <1>1. hearers \subseteq Nodes
    BY DEF NodesOn, Owning
  <1>2. IsFiniteSet(hearers)
    BY <1>1, FS_Subset, NetworkAssumption
  <1>3. Copies(packet) = {copy[n] : n \in hearers}
    BY DEF Copies
  <1>4. IsFiniteSet({copy[n] : n \in hearers})
    <2>1. copy \in Surjection(hearers, {copy[n] : n \in hearers})
      BY DEF Surjection
    <2>2. QED
      BY <1>2, <2>1, FS_Surjection
  <1>5. IsFiniteSet(Copies(packet))
    BY <1>3, <1>4
  <1>6. \A m \in Copies(packet) :
          /\ m.to \in hearers
          /\ m.data = packet.msg /\ m.from.ip = packet.cast.from
    BY DEF Copies
  <1>7. QED
    BY <1>1, <1>5, <1>6

\* What the program does with an output keeps the packets under way within
\* their bound, and adds nothing but copies of what is sent.
LEMMA ActTyped ==
  ASSUME NetworkInv, NEW n \in up, NEW output, NEW rest, rest \subseteq net,
         Act(n, output, rest),
         output.kind = "packet" => output.msg.kind \in {"request", "response"}
  PROVE  /\ up' \subseteq Nodes
         /\ \A k \in Nodes : k \notin up' => known'[k] = {}
         /\ known' = [k \in Nodes |-> known'[k]]
         /\ IsFiniteSet(net') /\ Cardinality(net') <= MaxInFlight
         /\ \A m \in net' : m.to \in Nodes /\ m.data.kind \in {"request", "response"}
  <1>1. /\ up' \subseteq Nodes
        /\ \A k \in Nodes : k \notin up' => known'[k] = {}
        /\ known' = [k \in Nodes |-> known'[k]]
    BY DEF Act, NetworkInv, NetworkTypeOK
  <1>2. IsFiniteSet(rest) /\ Cardinality(rest) <= MaxInFlight
    <2>1. IsFiniteSet(rest) /\ Cardinality(rest) <= Cardinality(net)
      BY FS_Subset DEF NetworkInv
    <2>2. Cardinality(rest) \in Nat /\ Cardinality(net) \in Nat
      BY <2>1, FS_CardinalityType DEF NetworkInv
    <2>3. QED
      BY <2>1, <2>2, NetworkAssumption DEF NetworkInv, NetworkTypeOK
  <1>3. CASE output.kind = "packet"
    <2>1. PICK arriving \in SUBSET Copies(output) :
            /\ Cardinality(rest \cup arriving) <= MaxInFlight
            /\ net' = rest \cup arriving
      BY <1>3 DEF Act, Send
    <2>2. IsFiniteSet(net')
      BY <1>2, <2>1, CopiesTyped, FS_Subset, FS_Union
    <2>3. \A m \in arriving : m.to \in Nodes /\ m.data.kind \in {"request", "response"}
      BY <1>3, <2>1, CopiesTyped
    <2>4. QED
      BY <1>1, <2>1, <2>2, <2>3 DEF NetworkInv, NetworkTypeOK
  <1>4. CASE output.kind # "packet"
    <2>1. net' = rest
      BY <1>4 DEF Act
    <2>2. QED
      BY <1>1, <1>2, <2>1 DEF NetworkInv, NetworkTypeOK
  <1>5. QED
    BY <1>3, <1>4

\* What a timeout or a packet makes a server return.
LEMMA OutputsTyped ==
  /\ \A services, local, output :
       output = DoAdvertise(services, local) =>
         /\ output.kind \in {"packet", "panic"}
         /\ output.kind = "packet" => /\ output.msg.kind = "response"
                                      /\ output.cast = Multi(local.addr)
  /\ \A services, query_targets, local, id, output :
       output = DoQuery(services, query_targets, local, id) =>
         /\ output.kind = "packet"
         /\ output.msg.kind = "request"
         /\ output.cast = Multi(local.addr)
  /\ \A n, m, output :
       output = Handled(n, m) =>
         /\ output.kind \in {"packet", "panic", "timeout", "remote"}
         /\ output.kind = "packet" => output.msg.kind = "response"
         /\ output.kind = "packet" => m.data.kind = "request"
         /\ output.kind = "remote" => m.data.kind # "request"
  <1>1. \A services, local, output :
          output = DoAdvertise(services, local) =>
            /\ output.kind \in {"packet", "panic"}
            /\ output.kind = "packet" => /\ output.msg.kind = "response"
                                         /\ output.cast = Multi(local.addr)
    BY DEF DoAdvertise, Packet, Panic, Response
  <1>2. \A services, query_targets, local, id, output :
          output = DoQuery(services, query_targets, local, id) =>
            /\ output.kind = "packet"
            /\ output.msg.kind = "request"
            /\ output.cast = Multi(local.addr)
    BY DEF DoQuery, Packet, Request
  <1>3. ASSUME NEW n, NEW m, NEW output, output = Handled(n, m)
        PROVE  /\ output.kind \in {"packet", "panic", "timeout", "remote"}
               /\ output.kind = "packet" => output.msg.kind = "response"
               /\ output.kind = "packet" => m.data.kind = "request"
               /\ output.kind = "remote" => m.data.kind # "request"
    <2>1. CASE ~ ParseAccepts(m.data)
      BY <1>3, <2>1 DEF Handled, TimeoutAt
    <2>2. CASE ParseAccepts(m.data) /\ m.data.kind = "request"
      BY <1>3, <2>2 DEF Handled, HandleRequest, TimeoutAt, Panic, Packet, Response
    <2>3. CASE ParseAccepts(m.data) /\ m.data.kind # "request"
      BY <1>3, <2>3 DEF Handled, HandleResponse, TimeoutAt, Remote
    <2>4. QED
      BY <2>1, <2>2, <2>3
  <1>4. QED
    BY <1>1, <1>2, <1>3

\* A duty that is due finds an interface at its index.
LEMMA DueAtInterface ==
  ASSUME NetworkInv, NEW n \in up
  PROVE  /\ AdvertiseDue(n) => /\ server[n].advertise_idx \in Nat
                              /\ server[n].advertise_idx < Len(LocalIps[n])
         /\ QueryDue(n) => /\ server[n].query_idx \in Nat
                          /\ server[n].query_idx < Len(LocalIps[n])
  <1>1. n \in Nodes /\ server[n] \in Servers
    BY DEF NetworkInv, NetworkTypeOK
  <1>2. Declared[n] # <<>> => LocalIps[n] # <<>>
    BY <1>1, NodeConstants
  <1>3. QED
    BY <1>1, <1>2 DEF AdvertiseDue, QueryDue, NetworkInv, IndicesOK, Servers

\* What is then advertised is the advertisement of that interface.
LEMMA AdvertIsDoAdvertise ==
  ASSUME NetworkInv, NEW n \in up, AdvertiseDue(n)
  PROVE  LET i == server[n].advertise_idx + 1
         IN  /\ LocalIps[n][i] \in Range(LocalIps[n])
             /\ Adverts[n][i] = DoAdvertise(Declared[n], LocalIps[n][i])
  <1>1. n \in Nodes /\ DOMAIN LocalIps[n] = 1 .. Len(LocalIps[n])
    BY NodeConstants, LenProperties DEF NetworkInv, NetworkTypeOK
  <1>2. server[n].advertise_idx \in Nat /\ server[n].advertise_idx < Len(LocalIps[n])
    BY DueAtInterface
  <1>3. Len(LocalIps[n]) \in Nat
    BY <1>1, NodeConstants, LenProperties
  <1>4. server[n].advertise_idx + 1 \in DOMAIN LocalIps[n]
    BY <1>1, <1>2, <1>3
  <1>5. QED
    BY <1>1, <1>4 DEF Adverts, Range

\* A round goes on to an interface, or begins anew.
LEMMA NextIdxInBounds ==
  ASSUME NEW n \in Nodes, NEW idx \in Nat, idx < Len(LocalIps[n])
  PROVE  NextIdx(n, idx) \in Nat /\ NextIdx(n, idx) < Len(LocalIps[n])
  <1>1. Len(LocalIps[n]) \in Nat
    BY NodeConstants, LenProperties
  <1>2. QED
    BY <1>1 DEF NextIdx

\* A Server that has just been made.
LEMMA NewServerTyped ==
  ASSUME NEW n \in Nodes
  PROVE  /\ NewServer(n) \in Servers
         /\ LocalIps[n] # <<>> => /\ NewServer(n).advertise_idx < Len(LocalIps[n])
                                 /\ NewServer(n).query_idx < Len(LocalIps[n])
  <1>1. Len(LocalIps[n]) \in Nat /\ (LocalIps[n] # <<>> => Len(LocalIps[n]) # 0)
    BY NodeConstants, LenProperties, EmptySeq
  <1>2. QED
    BY <1>1, NetworkAssumption DEF NewServer, Servers

ServersOK == server \in [Nodes -> Servers] /\ IndicesOK

\* A server that is replaced by one with its indices within bounds.
LEMMA ReplacedServer ==
  ASSUME ServersOK, NEW n \in Nodes, NEW s \in Servers,
         LocalIps[n] # <<>> => /\ s.advertise_idx < Len(LocalIps[n])
                              /\ s.query_idx < Len(LocalIps[n]),
         server' = [server EXCEPT ![n] = s]
  PROVE  ServersOK'
  BY DEF ServersOK, IndicesOK

\* An advertisement moves its round on.
LEMMA AdvertiseTurnServers ==
  ASSUME NetworkInv, NEW n \in Nodes, AdvertiseTurn(n)
  PROVE  ServersOK'
  <1> DEFINE idx == server[n].advertise_idx
             s == [server[n] EXCEPT !.advertise_idx = NextIdx(n, idx),
                                    !.advertise_in = TimeLeft(n, idx, ADVERTISE_INTERVAL)]
  <1>1. n \in up /\ AdvertiseDue(n) /\ server[n] \in Servers
    BY DEF AdvertiseTurn, NetworkInv, NetworkTypeOK
  <1>2. idx \in Nat /\ idx < Len(LocalIps[n])
    BY <1>1, DueAtInterface
  <1>3. NextIdx(n, idx) \in Nat /\ NextIdx(n, idx) < Len(LocalIps[n])
    BY <1>2, NextIdxInBounds
  <1>4. TimeLeft(n, idx, ADVERTISE_INTERVAL) \in Nat
    BY NetworkAssumption DEF TimeLeft
  <1>5. s \in Servers
    BY <1>1, <1>3, <1>4 DEF Servers
  <1>6. LocalIps[n] # <<>> => /\ s.advertise_idx < Len(LocalIps[n])
                             /\ s.query_idx < Len(LocalIps[n])
    BY <1>1, <1>3 DEF NetworkInv, IndicesOK, Servers
  <1>7. server' = [server EXCEPT ![n] = s]
    BY DEF AdvertiseTurn
  <1>8. ServersOK
    BY DEF ServersOK, NetworkInv, NetworkTypeOK
  <1> HIDE DEF s
  <1>9. QED
    BY <1>5, <1>6, <1>7, <1>8, ReplacedServer

\* So does a query, which takes the next transaction id.
LEMMA QueryTurnServers ==
  ASSUME NetworkInv, NEW n \in Nodes, QueryTurn(n)
  PROVE  ServersOK'
  <1> DEFINE idx == server[n].query_idx
             s == [server[n] EXCEPT !.query_idx = NextIdx(n, idx),
                                    !.query_in = TimeLeft(n, idx, QUERY_INTERVAL),
                                    !.txid_query = server[n].next_txid,
                                    !.next_txid = NextTxid(server[n].next_txid)]
  <1>1. n \in up /\ QueryDue(n) /\ server[n] \in Servers
    BY DEF QueryTurn, NetworkInv, NetworkTypeOK
  <1>2. idx \in Nat /\ idx < Len(LocalIps[n])
    BY <1>1, DueAtInterface
  <1>3. NextIdx(n, idx) \in Nat /\ NextIdx(n, idx) < Len(LocalIps[n])
    BY <1>2, NextIdxInBounds
  <1>4. TimeLeft(n, idx, QUERY_INTERVAL) \in Nat
    BY NetworkAssumption DEF TimeLeft
  <1>5. NextTxid(server[n].next_txid) \in 0 .. TxidMod - 1
    <2>1. server[n].next_txid \in Nat
      BY <1>1 DEF Servers
    <2>2. \A id \in Nat : (id + 1) % TxidMod \in 0 .. TxidMod - 1
      BY NetworkAssumption, SMT
    <2>3. QED
      BY <2>1, <2>2 DEF NextTxid
  <1>6. s \in Servers
    BY <1>1, <1>3, <1>4, <1>5 DEF Servers
  <1>7. LocalIps[n] # <<>> => /\ s.advertise_idx < Len(LocalIps[n])
                             /\ s.query_idx < Len(LocalIps[n])
    BY <1>1, <1>3 DEF NetworkInv, IndicesOK, Servers
  <1>8. server' = [server EXCEPT ![n] = s]
    BY DEF QueryTurn
  <1>9. ServersOK
    BY DEF ServersOK, NetworkInv, NetworkTypeOK
  <1> HIDE DEF s
  <1>10. QED
    BY <1>6, <1>7, <1>8, <1>9, ReplacedServer

\* Time moves deadlines and nothing else.
LEMMA TimePassesServers ==
  ASSUME NetworkInv, TimePasses
  PROVE  ServersOK'
  <1> DEFINE later(n) == [server[n] EXCEPT !.advertise_in = Elapse(@),
                                           !.query_in = Elapse(@)]
  <1>1. \A n \in Nodes : server[n] \in Servers
    BY DEF NetworkInv, NetworkTypeOK
  <1>2. \A t \in Nat : Elapse(t) \in Nat
    BY NetworkAssumption DEF Elapse
  <1>3. \A n \in Nodes : /\ later(n) \in Servers
                         /\ later(n).advertise_idx = server[n].advertise_idx
                         /\ later(n).query_idx = server[n].query_idx
    BY <1>1, <1>2 DEF Servers
  <1>4. server' = [n \in Nodes |-> IF n \notin up THEN server[n] ELSE later(n)]
    BY DEF TimePasses
  <1> HIDE DEF later
  <1>5. QED
    BY <1>1, <1>3, <1>4 DEF ServersOK, NetworkInv, IndicesOK

\* Every step keeps the types.
LEMMA NextNetworkInv == NetworkInv /\ [Next]_vars => NetworkInv'
  <1> SUFFICES ASSUME NetworkInv, [Next]_vars PROVE NetworkInv'
    OBVIOUS
  <1>1. ServersOK
    BY DEF ServersOK, NetworkInv, NetworkTypeOK
  <1>2. CASE Tick
    BY <1>2, TimePassesServers DEF Tick, NetworkInv, NetworkTypeOK, ServersOK
  <1>3. CASE \E n \in Nodes : Start(n)
    <2>1. PICK n \in Nodes : Start(n)
      BY <1>3
    <2>2. ServersOK'
      BY <1>1, <2>1, NewServerTyped, ReplacedServer DEF Start
    <2>3. QED
      BY <2>1, <2>2 DEF Start, NetworkInv, NetworkTypeOK, ServersOK
  <1>4. CASE \E n \in Nodes : Crash(n)
    <2>1. PICK n \in Nodes : Crash(n)
      BY <1>4
    <2>2. ServersOK'
      BY <1>1, <2>1, NewServerTyped, ReplacedServer DEF Crash
    <2>3. QED
      BY <2>1, <2>2 DEF Crash, NetworkInv, NetworkTypeOK, ServersOK
  <1>5. CASE \E n \in Nodes : Advertise(n)
    <2>1. PICK n \in Nodes : Advertise(n)
      BY <1>5
    <2>2. n \in up /\ AdvertiseDue(n)
      BY <2>1 DEF Advertise, AdvertiseTurn
    <2> DEFINE output == Adverts[n][server[n].advertise_idx + 1]
    <2>3. \E local : output = DoAdvertise(Declared[n], local)
      BY <2>1, <2>2, AdvertIsDoAdvertise
    <2>4. output.kind = "packet" => output.msg.kind = "response"
      BY <2>3, OutputsTyped
    <2>5. Act(n, output, net)
      BY <2>1 DEF Advertise
    <2> HIDE DEF output
    <2>6. QED
      BY <2>1, <2>2, <2>4, <2>5, ActTyped, AdvertiseTurnServers
      DEF Advertise, NetworkInv, NetworkTypeOK, ServersOK
  <1>6. CASE \E n \in Nodes : SendQuery(n)
    <2>1. PICK n \in Nodes : SendQuery(n)
      BY <1>6
    <2> DEFINE output == DoQuery(Declared[n], Registered[n],
                                 LocalIps[n][server[n].query_idx + 1], server[n].next_txid)
    <2>2. n \in up /\ Act(n, output, net)
      BY <2>1 DEF SendQuery, QueryTurn
    <2>3. output.msg.kind = "request"
      BY OutputsTyped
    <2> HIDE DEF output
    <2>4. QED
      BY <2>1, <2>2, <2>3, ActTyped, QueryTurnServers
      DEF SendQuery, NetworkInv, NetworkTypeOK, ServersOK
  <1>7. CASE \E m \in net : Deliver(m)
    <2>1. PICK m \in net : Deliver(m)
      BY <1>7
    <2> DEFINE output == Handled(m.to, m)
    <2>2. m.to \in up /\ Act(m.to, output, net \ {m}) /\ UNCHANGED server
      BY <2>1 DEF Deliver
    <2>3. output.kind = "packet" => output.msg.kind = "response"
      BY OutputsTyped
    <2> HIDE DEF output
    <2>4. QED
      BY <2>2, <2>3, <1>1, ActTyped DEF NetworkInv, NetworkTypeOK, ServersOK, IndicesOK
  <1>8. CASE \E m \in net : Drop(m)
    <2>1. PICK m \in net : net' = net \ {m} /\ UNCHANGED << up, server, known >>
      BY <1>8 DEF Drop
    <2>2. IsFiniteSet(net') /\ Cardinality(net') <= Cardinality(net)
      BY <2>1, FS_Subset DEF NetworkInv
    <2>3. Cardinality(net') \in Nat /\ Cardinality(net) \in Nat
      BY <2>2, FS_CardinalityType DEF NetworkInv
    <2>4. Cardinality(net') <= MaxInFlight
      BY <2>2, <2>3, NetworkAssumption DEF NetworkInv, NetworkTypeOK
    <2>5. NetworkTypeOK'
      BY <2>1, <2>4 DEF NetworkInv, NetworkTypeOK
    <2>6. IndicesOK'
      BY <2>1 DEF NetworkInv, IndicesOK
    <2>7. QED
      BY <2>1, <2>2, <2>5, <2>6 DEF NetworkInv
  <1>9. CASE UNCHANGED vars
    BY <1>9 DEF vars, NetworkInv, NetworkTypeOK, IndicesOK
  <1>10. QED
    BY <1>2, <1>3, <1>4, <1>5, <1>6, <1>7, <1>8, <1>9 DEF Next

\* At first nobody runs and nothing is under way.
LEMMA InitNetworkInv == Init => NetworkInv
  <1> SUFFICES ASSUME Init PROVE NetworkInv
    OBVIOUS
  <1>1. IsFiniteSet(net) /\ Cardinality(net) = 0
    BY FS_EmptySet DEF Init
  <1>2. server \in [Nodes -> Servers] /\ IndicesOK
    BY NewServerTyped DEF Init, IndicesOK
  <1>3. QED
    BY <1>1, <1>2, NetworkAssumption DEF Init, NetworkInv, NetworkTypeOK

\* An index of a node is always that of one of its interfaces, and what is
\* under way is for somebody.
LEMMA NetworkInvariance == Spec => []NetworkInv
  <1>1. QED
    BY InitNetworkInv, NextNetworkInv, PTL DEF Spec

\* What runs, what is under way and what each server counts has its type,
\* for any number of nodes, interfaces and services: the ids wrap, the
\* packets stay within their bound, and who does not run knows nothing.
THEOREM NetworkTypes == Spec => []NetworkTypeOK
  <1>1. NetworkInv => NetworkTypeOK
    BY DEF NetworkInv
  <1>2. QED
    BY NetworkInvariance, <1>1, PTL

-----------------------------------------------------------------------------
(* What is said                                                            *)

Addresses == {l.addr : l \in UNION {Range(LocalIps[n]) : n \in Nodes}}

\* The services that a node may tell of in one packet, by an interface it
\* advertises on or by an address it answers.
Told(k, x) ==
  {t \in Range(Declared[k]) :
     t.ip_address = x \/ IsSameNetwork(t.ip_address, t.netmask, x)}

\* On one network a node gives a name to one thing.
NamesAreUnique ==
  \A k \in Nodes, x \in Addresses : \A s, t \in Told(k, x) :
    /\ s.instance_name = t.instance_name => s = t
    /\ s.hostname = t.hostname => s.ip_address = t.ip_address

\* Who is on a network by the netmask of one node is so by its own.
MasksAgree ==
  \A n, k \in Nodes : \A l \in Range(LocalIps[n]), t \in Range(Declared[k]) :
    IsSameNetwork(t.ip_address, t.netmask, l.addr)
      => IsSameNetwork(l.addr, l.mask, t.ip_address)

Says(t, a) == a \in Range(AsAnswers(t, "IN")) \cup Range(AsAnswers(t, "Multicast"))

\* All answers of a response are of one node, about services that whom it is
\* for has in its reach.
Speaks(k, x, m) ==
  \A a \in Range(m.data.answers) :
    \E t \in Told(k, x) : Says(t, a) /\ m.to \in NodesOn(t.ip_address)

MessageOK(m) ==
  /\ m.from.ip \in Addresses
  /\ m.data.kind = "request" =>
       /\ m.data.queries \in Seq(Range(m.data.queries))
       /\ \A q \in Range(m.data.queries) : q.qclass = "IN"
  /\ m.data.kind = "response" =>
       /\ m.data.answers \in Seq(Range(m.data.answers))
       /\ \E k \in Nodes, x \in Addresses : Speaks(k, x, m)

MessagesOK == \A m \in net : MessageOK(m)

\* An advertisement is heard on the network of the services it is about.
LEMMA AdvertisementIsOK ==
  ASSUME NEW n \in Nodes, NEW local \in Range(LocalIps[n]),
         NEW output, output = DoAdvertise(Declared[n], local), output.kind = "packet",
         NEW m \in Copies(output)
  PROVE  MessageOK(m)
  <1>1. Declared[n] \in Seq(ServiceInfos)
    BY NodeConstants
  <1>2. /\ output.msg.kind = "response"
        /\ output.cast = Multi(local.addr)
    BY OutputsTyped
  <1>3. /\ m.data = output.msg /\ m.from.ip = local.addr
        /\ m.to \in NodesOn(local.addr)
    BY <1>2, CopiesTyped DEF Multi
  <1>4. local.addr \in Addresses
    BY DEF Addresses
  <1>5. /\ output.msg.answers \in Seq(Range(output.msg.answers))
        /\ \A a \in Range(output.msg.answers) :
             \E j \in HostedAt(Declared[n], local) :
               a \in Range(AsAnswers(Declared[n][j], "Multicast"))
    BY <1>1, AdvertisementTells
  <1>6. \A j \in HostedAt(Declared[n], local) :
          /\ Declared[n][j] \in Told(n, local.addr)
          /\ Declared[n][j].ip_address = local.addr
    BY DEF HostedAt, LocalIp, Told, Range
  <1>7. Speaks(n, local.addr, m)
    BY <1>3, <1>5, <1>6 DEF Speaks, Says
  <1>8. QED
    BY <1>2, <1>3, <1>4, <1>5, <1>7 DEF MessageOK

\* A query asks for pointers in class IN, from an interface of its node.
LEMMA QueryIsOK ==
  ASSUME NEW n \in Nodes, NEW local \in Range(LocalIps[n]), NEW id,
         NEW output, output = DoQuery(Declared[n], Registered[n], local, id),
         NEW m \in Copies(output)
  PROVE  MessageOK(m)
  <1>1. Declared[n] \in Seq(ServiceInfos) /\ Registered[n] \in Seq(QueryTargets)
    BY NodeConstants
  <1>2. output.msg.kind = "request" /\ output.cast = Multi(local.addr)
    BY OutputsTyped
  <1>3. m.data = output.msg /\ m.from.ip = local.addr
    BY <1>2, CopiesTyped DEF Multi
  <1>4. local.addr \in Addresses
    BY DEF Addresses
  <1>5. QLEN \in Nat
    BY NetworkAssumption
  <1>6. /\ output.msg.queries \in Seq(Range(output.msg.queries))
        /\ \A q \in Range(output.msg.queries) : q.qclass = "IN"
    BY <1>1, <1>5, QuestionsTyped
  <1>7. QED
    BY <1>2, <1>3, <1>4, <1>6 DEF MessageOK

\* A reply goes to the address that asked, about services of its network.
LEMMA ReplyIsOK ==
  ASSUME MasksAgree, NEW m, MessageOK(m), m.to \in Nodes,
         NEW output, output = Handled(m.to, m), output.kind = "packet",
         NEW r \in Copies(output)
  PROVE  MessageOK(r)
  <1> DEFINE n == m.to
             queries == m.data.queries
             answers == AnswersTo(Declared[n], queries, m.from)
             ways == Reaching(LocalIps[n], m.from)
             addr == LocalIps[n][Min(ways)].addr
             offered == Offered(Declared[n], queries, m.from)
  <1>1. m.data.kind = "request" /\ ParseAccepts(m.data)
    BY OutputsTyped DEF Handled, TimeoutAt
  <1>2. /\ queries \in Seq(Range(queries))
        /\ \A q \in Range(queries) : q.qclass = "IN"
    BY <1>1 DEF MessageOK
  <1>3. output = HandleRequest(Declared[n], LocalIps[n], server[n].txid_query,
                               server[n].query_in, m.data, m.from)
    BY <1>1 DEF Handled
  <1>4. queries # <<>> /\ ways # {}
    <2>1. queries = <<>> => output.kind = "timeout"
      BY <1>3 DEF HandleRequest, TimeoutAt
    <2>2. ways = {} => output.kind \in {"timeout", "panic"}
      BY <1>3 DEF HandleRequest, TimeoutAt, Panic
    <2> HIDE DEF queries, ways
    <2>3. QED
      BY <2>1, <2>2
  <1>5. queries[1].qclass = "IN"
    <2>1. Len(queries) \in Nat \ {0} /\ DOMAIN queries = 1 .. Len(queries)
      BY <1>2, <1>4, LenProperties, EmptySeq
    <2>2. QED
      BY <1>2, <2>1 DEF Range
  <1>6. output = Packet(Response(m.data.id, queries, answers), Uni(addr, m.from))
    BY <1>3, <1>5 DEF HandleRequest, TimeoutAt, Panic
  <1>7. /\ output.msg.kind = "response" /\ output.msg.answers = answers
        /\ output.cast.mode = "uni" /\ output.cast.from = addr
        /\ output.cast.target = m.from
    BY <1>6 DEF Packet, Response, Uni
  <1> HIDE DEF answers, addr
  <1>8. /\ r.data = output.msg /\ r.from.ip = addr
        /\ r.to \in Nodes /\ r.to \in Owning(m.from.ip)
    BY <1>7, CopiesTyped
  <1>9. addr \in Addresses
    <2>1. LocalIps[n] \in Seq(Interfaces)
      BY NodeConstants
    <2>2. DOMAIN LocalIps[n] \subseteq Nat
      BY <2>1, LenProperties
    <2>3. ways \subseteq DOMAIN LocalIps[n]
      BY DEF Reaching
    <2>4. Min(ways) \in ways
      BY <1>4, <2>2, <2>3, MinOfNats
    <2> HIDE DEF ways
    <2>5. LocalIps[n][Min(ways)] \in Range(LocalIps[n])
      BY <2>3, <2>4 DEF Range
    <2>6. QED
      BY <2>5 DEF addr, Addresses
  <1>10. answers \in Seq(offered)
    <2>1. Declared[n] \in Seq(ServiceInfos) /\ ALEN \in Nat
      BY NodeConstants, NetworkAssumption
    <2>2. QED
      BY <1>2, <2>1, AnswersToProperties DEF answers
  <1>11. /\ answers \in Seq(Range(answers))
         /\ Range(answers) \subseteq offered
    BY <1>10, SeqOfRange, RangeOfSeq
  <1>12. ASSUME NEW a \in offered
         PROVE  \E t \in Told(n, m.from.ip) : Says(t, a) /\ r.to \in NodesOn(t.ip_address)
    <2>1. PICK j \in AskedFor(Declared[n], queries, m.from) :
            a \in Range(AsAnswers(Declared[n][j], "IN"))
      BY <1>5 DEF Offered
    <2>2. /\ Declared[n][j] \in Range(Declared[n])
          /\ IsSameNetwork(Declared[n][j].ip_address, Declared[n][j].netmask, m.from.ip)
      BY DEF AskedFor, Asks, Range
    <2>3. PICK l \in Range(LocalIps[r.to]) : l.addr = m.from.ip
      BY <1>8 DEF Owning
    <2>4. IsSameNetwork(l.addr, l.mask, Declared[n][j].ip_address)
      BY <1>8, <2>2, <2>3 DEF MasksAgree
    <2>5. r.to \in NodesOn(Declared[n][j].ip_address)
      BY <1>8, <2>4 DEF NodesOn
    <2>6. Declared[n][j] \in Told(n, m.from.ip)
      BY <2>2 DEF Told
    <2>7. QED
      BY <2>1, <2>5, <2>6 DEF Says
  <1> HIDE DEF offered
  <1>13. Speaks(n, m.from.ip, r)
    BY <1>7, <1>8, <1>11, <1>12 DEF Speaks
  <1>14. QED
    BY <1>7, <1>8, <1>9, <1>11, <1>13 DEF MessageOK

\* What is sent is added to what is under way, if it is not lost.
LEMMA ActAdds ==
  ASSUME NEW n, NEW output, NEW rest, Act(n, output, rest)
  PROVE  \A m \in net' : m \in rest \/ (output.kind = "packet" /\ m \in Copies(output))
  BY DEF Act, Send

\* Every step keeps to what may be said.
LEMMA NextMessagesOK ==
  MasksAgree /\ NetworkInv /\ MessagesOK /\ [Next]_vars => MessagesOK'
  <1> SUFFICES ASSUME MasksAgree, NetworkInv, MessagesOK, [Next]_vars,
                      NEW m \in net', m \notin net
               PROVE  MessageOK(m)
    BY DEF MessagesOK, MessageOK, Speaks
  <1>1. CASE \E n \in Nodes : Advertise(n)
    <2>1. PICK n \in Nodes : Advertise(n)
      BY <1>1
    <2> DEFINE i == server[n].advertise_idx + 1
               output == Adverts[n][i]
    <2>2. n \in up /\ AdvertiseDue(n) /\ Act(n, output, net)
      BY <2>1 DEF Advertise, AdvertiseTurn
    <2>3. /\ LocalIps[n][i] \in Range(LocalIps[n])
          /\ output = DoAdvertise(Declared[n], LocalIps[n][i])
      BY <2>2, AdvertIsDoAdvertise
    <2> HIDE DEF output, i
    <2>4. output.kind = "packet" /\ m \in Copies(output)
      BY <2>2, ActAdds
    <2>5. QED
      BY <2>3, <2>4, AdvertisementIsOK
  <1>2. CASE \E n \in Nodes : SendQuery(n)
    <2>1. PICK n \in Nodes : SendQuery(n)
      BY <1>2
    <2> DEFINE i == server[n].query_idx + 1
               output == DoQuery(Declared[n], Registered[n], LocalIps[n][i],
                                 server[n].next_txid)
    <2>2. n \in up /\ QueryDue(n) /\ Act(n, output, net)
      BY <2>1 DEF SendQuery, QueryTurn
    <2>3. LocalIps[n][i] \in Range(LocalIps[n])
      <3>1. Len(LocalIps[n]) \in Nat /\ DOMAIN LocalIps[n] = 1 .. Len(LocalIps[n])
        BY NodeConstants, LenProperties
      <3>2. server[n].query_idx \in Nat /\ server[n].query_idx < Len(LocalIps[n])
        BY <2>2, DueAtInterface
      <3>3. i \in DOMAIN LocalIps[n]
        BY <3>1, <3>2
      <3>4. QED
        BY <3>3 DEF Range
    <2> HIDE DEF i
    <2>4. m \in Copies(output)
      <3> HIDE DEF output
      <3>1. QED
        BY <2>2, ActAdds
    <2>5. QED
      BY <2>3, <2>4, QueryIsOK
  <1>3. CASE \E r \in net : Deliver(r)
    <2>1. PICK r \in net : Deliver(r)
      BY <1>3
    <2> DEFINE output == Handled(r.to, r)
    <2>2. Act(r.to, output, net \ {r})
      BY <2>1 DEF Deliver
    <2>3. MessageOK(r) /\ r.to \in Nodes
      BY DEF MessagesOK, NetworkInv, NetworkTypeOK
    <2>4. output.kind = "packet" /\ m \in Copies(output)
      <3> HIDE DEF output
      <3>1. QED
        BY <2>2, ActAdds
    <2>5. QED
      BY <2>3, <2>4, ReplyIsOK
  <1>4. QED
    BY <1>1, <1>2, <1>3 DEF Next, Tick, Start, Crash, Drop, vars

-----------------------------------------------------------------------------
(* What is learnt                                                          *)

\* What the three records of a service say.
LEMMA WhatIsSaid ==
  ASSUME NEW t, NEW a, Says(t, a)
  PROVE  /\ a.rec.type = "PTR" => a.name = t.service_type /\ a.rec.name = t.instance_name
         /\ a.rec.type = "SRV" => /\ a.name = t.instance_name
                                 /\ a.rec.target = t.hostname /\ a.rec.port = t.port
         /\ a.rec.type \in {"A", "AAAA"} => /\ a.name = t.hostname
                                           /\ a.rec.address = t.ip_address
  <1>1. \E c : a \in {PtrAnswer(t), SrvAnswer(t, c), TxtAnswer(t, c), IpAnswer(t, c)}
    BY FourAnswers DEF Says
  <1>2. QED
    BY <1>1 DEF PtrAnswer, SrvAnswer, TxtAnswer, IpAnswer

\* If names are unique, three answers that fit each other are of one service.
LEMMA MatchedIsSeen ==
  ASSUME NamesAreUnique, NEW k \in Nodes, NEW x \in Addresses, NEW m, Speaks(k, x, m),
         NEW ptr, NEW srv, NEW ip, Matched(m.data.answers, ptr, srv, ip)
  PROVE  \E t \in Told(k, x) : /\ ServiceOf(ptr, srv, ip) = AsSeen(t)
                               /\ m.to \in NodesOn(t.ip_address)
  <1>1. PICK t \in Told(k, x) : Says(t, ptr) /\ m.to \in NodesOn(t.ip_address)
    BY DEF Matched, Speaks
  <1>2. PICK u \in Told(k, x) : Says(u, srv)
    BY DEF Matched, Speaks
  <1>3. PICK v \in Told(k, x) : Says(v, ip)
    BY DEF Matched, Speaks
  <1>4. /\ ptr.name = t.service_type /\ ptr.rec.name = t.instance_name
        /\ srv.name = u.instance_name /\ srv.rec.target = u.hostname /\ srv.rec.port = u.port
        /\ ip.name = v.hostname /\ ip.rec.address = v.ip_address
    BY <1>1, <1>2, <1>3, WhatIsSaid DEF Matched
  <1>5. t = u
    <2>1. t.instance_name = u.instance_name
      BY <1>4 DEF Matched
    <2>2. \A p, q \in Told(k, x) : p.instance_name = q.instance_name => p = q
      BY DEF NamesAreUnique
    <2>3. QED
      BY <2>1, <2>2
  <1>6. v.ip_address = t.ip_address
    <2>1. v.hostname = t.hostname
      BY <1>4, <1>5 DEF Matched
    <2>2. QED
      BY <2>1 DEF NamesAreUnique
  <1>7. t \in ServiceInfos
    BY NodeConstants, RangeOfSeq DEF Told
  <1>8. ServiceOf(ptr, srv, ip) = AsSeen(t)
    <2>1. AsSeen(t) = [ service_type  |-> t.service_type,
                        instance_name |-> t.instance_name,
                        hostname      |-> t.hostname,
                        ip_address    |-> t.ip_address,
                        netmask       |-> NetmaskFull(t.ip_address.fam),
                        port          |-> t.port ]
      BY <1>7 DEF AsSeen, ServiceInfos
    <2>2. QED
      BY <1>4, <1>5, <1>6, <2>1 DEF ServiceOf
  <1>9. QED
    BY <1>1, <1>8

\* What a node is told of is in its reach, and not its own.
LEMMA ReportedIsInReach ==
  ASSUME NamesAreUnique, NEW m, MessageOK(m), m.to \in Nodes,
         m.data.kind \in {"request", "response"},
         NEW output, output = Handled(m.to, m), output.kind = "remote"
  PROVE  \E r \in Reach[m.to] : output.service = r[2]
  <1> DEFINE n == m.to
  <1>1. m.data.kind = "response" /\ ParseAccepts(m.data)
    <2>1. m.data.kind # "request"
      BY OutputsTyped
    <2>2. ParseAccepts(m.data)
      BY DEF Handled, TimeoutAt
    <2>3. QED
      BY <2>1, <2>2
  <1>2. output = HandleResponse(Declared[n], Registered[n], server[n].query_in, m.data)
    BY <1>1 DEF Handled
  <1>3. m.data.answers \in Seq(Range(m.data.answers)) /\ SLEN \in Nat
    BY <1>1, NetworkAssumption DEF MessageOK
  <1>4. /\ output.service \in Found(m.data.answers)
        /\ IsMatchingService(output.service, Declared[n], Registered[n])
    BY <1>2, <1>3, ReportedIsFound
  <1>5. PICK ptr, srv, ip : /\ Matched(m.data.answers, ptr, srv, ip)
                            /\ output.service = ServiceOf(ptr, srv, ip)
    BY <1>3, <1>4, CompleteIsMatched DEF Found, PtrAnswers
  <1>6. PICK k \in Nodes, x \in Addresses : Speaks(k, x, m)
    BY <1>1 DEF MessageOK
  <1>7. PICK t \in Told(k, x) : /\ output.service = AsSeen(t)
                               /\ n \in NodesOn(t.ip_address)
    BY <1>5, <1>6, MatchedIsSeen
  <1>8. t \in Range(Declared[k]) /\ t \in ServiceInfos
    BY NodeConstants, RangeOfSeq DEF Told
  <1>9. /\ AsSeen(t).service_type = t.service_type
        /\ AsSeen(t).instance_name = t.instance_name
        /\ AsSeen(t).ip_address = t.ip_address /\ AsSeen(t).port = t.port
    BY <1>8 DEF AsSeen, ServiceInfos
  <1>10. k # n
    BY <1>4, <1>7, <1>8, <1>9 DEF IsMatchingService, Range
  <1>11. t.service_type \in TypesOfInterest(n)
    BY <1>4, <1>7, <1>9 DEF IsMatchingService, TypesOfInterest, Range
  <1>12. << k, AsSeen(t) >> \in Reach[n]
    BY <1>7, <1>8, <1>10, <1>11 DEF Reach
  <1>13. QED
    BY <1>7, <1>12

\* What a program does with an output is a step of Directory or none.
LEMMA ActIsDirectory ==
  ASSUME NetworkInv, NEW n \in up, NEW output, NEW rest, Act(n, output, rest),
         output.kind = "remote" => \E r \in Reach[n] : output.service = r[2]
  PROVE  [ADirectory!Next]_ADirectory!vars
  <1>1. n \in Nodes /\ known = [k \in Nodes |-> known[k]]
    BY DEF NetworkInv, NetworkTypeOK
  <1>2. CASE output.kind = "remote"
    <2>1. PICK r \in Reach[n] : output.service = r[2]
      BY <1>2
    <2>2. /\ known' = [known EXCEPT ![n] = @ \cup {r[2]}]
          /\ UNCHANGED up
      BY <1>2, <2>1 DEF Act
    <2>3. CASE r[2] \in known[n]
      <3>1. known[n] \cup {r[2]} = known[n]
        BY <2>3
      <3>2. UNCHANGED << up, known >>
        BY <1>1, <2>2, <3>1
      <3>3. QED
        BY <3>2 DEF ADirectory!vars
    <2>4. CASE r[2] \notin known[n]
      BY <1>1, <2>1, <2>2, <2>4 DEF ADirectory!Next, ADirectory!Learn
    <2>5. QED
      BY <2>3, <2>4
  <1>3. CASE output.kind = "panic"
    BY <1>1, <1>3 DEF Act, ADirectory!Next, ADirectory!Leave
  <1>4. CASE output.kind \notin {"remote", "panic"}
    <2>1. UNCHANGED << up, known >>
      BY <1>1, <1>4 DEF Act
    <2>2. QED
      BY <2>1 DEF ADirectory!vars
  <1>5. QED
    BY <1>2, <1>3, <1>4

\* Every step is one of Directory or none.
LEMMA NextIsDirectory ==
  NamesAreUnique /\ NetworkInv /\ MessagesOK /\ [Next]_vars
    => [ADirectory!Next]_ADirectory!vars
  <1> SUFFICES ASSUME NamesAreUnique, NetworkInv, MessagesOK, [Next]_vars
               PROVE  [ADirectory!Next]_ADirectory!vars
    OBVIOUS
  <1>1. CASE \E n \in Nodes : Start(n)
    BY <1>1 DEF Start, ADirectory!Next, ADirectory!Join
  <1>2. CASE \E n \in Nodes : Crash(n)
    BY <1>2 DEF Crash, ADirectory!Next, ADirectory!Leave
  <1>3. CASE \E n \in Nodes : Advertise(n)
    <2>1. PICK n \in Nodes : Advertise(n)
      BY <1>3
    <2> DEFINE output == Adverts[n][server[n].advertise_idx + 1]
    <2>2. n \in up /\ AdvertiseDue(n) /\ Act(n, output, net)
      BY <2>1 DEF Advertise, AdvertiseTurn
    <2>3. output.kind # "remote"
      BY <2>2, AdvertIsDoAdvertise, OutputsTyped
    <2> HIDE DEF output
    <2>4. QED
      BY <2>2, <2>3, ActIsDirectory
  <1>4. CASE \E n \in Nodes : SendQuery(n)
    <2>1. PICK n \in Nodes : SendQuery(n)
      BY <1>4
    <2> DEFINE output == DoQuery(Declared[n], Registered[n],
                                 LocalIps[n][server[n].query_idx + 1], server[n].next_txid)
    <2>2. n \in up /\ Act(n, output, net)
      BY <2>1 DEF SendQuery, QueryTurn
    <2>3. output.kind # "remote"
      BY OutputsTyped
    <2> HIDE DEF output
    <2>4. QED
      BY <2>2, <2>3, ActIsDirectory
  <1>5. CASE \E m \in net : Deliver(m)
    <2>1. PICK m \in net : Deliver(m)
      BY <1>5
    <2> DEFINE output == Handled(m.to, m)
    <2>2. m.to \in up /\ Act(m.to, output, net \ {m})
      BY <2>1 DEF Deliver
    <2>3. /\ MessageOK(m) /\ m.to \in Nodes
          /\ m.data.kind \in {"request", "response"}
      BY DEF MessagesOK, NetworkInv, NetworkTypeOK
    <2>4. output.kind = "remote" => \E r \in Reach[m.to] : output.service = r[2]
      BY <2>3, ReportedIsInReach
    <2> HIDE DEF output
    <2>5. QED
      BY <2>2, <2>4, ActIsDirectory
  <1>6. CASE UNCHANGED << up, known >>
    BY <1>6 DEF ADirectory!vars
  <1>7. QED
    BY <1>1, <1>2, <1>3, <1>4, <1>5, <1>6 DEF Next, Tick, Drop, vars

\* The safety part of IsDirectory.  Whatever is lost, late, out of order, an
\* echo, or addressed to a program that has stopped: a node is told of
\* services that others declare on a network it is on and of a type it looks
\* for, of each as it is declared, and of nothing else.
THEOREM LearnsWithinReach ==
  NamesAreUnique /\ MasksAgree =>
    (Spec => ADirectory!Init /\ [][ADirectory!Next]_ADirectory!vars)
  <1> SUFFICES ASSUME NamesAreUnique, MasksAgree
               PROVE  Spec => ADirectory!Init /\ [][ADirectory!Next]_ADirectory!vars
    OBVIOUS
  <1>1. Init => ADirectory!Init
    BY DEF Init, ADirectory!Init
  <1>2. Init => MessagesOK
    BY DEF Init, MessagesOK
  <1>3. NetworkInv /\ MessagesOK /\ [Next]_vars => MessagesOK'
    BY NextMessagesOK
  <1>4. NetworkInv /\ MessagesOK /\ [Next]_vars => [ADirectory!Next]_ADirectory!vars
    BY NextIsDirectory
  <1>5. QED
    BY <1>1, <1>2, <1>3, <1>4, NetworkInvariance, PTL DEF Spec
=============================================================================
