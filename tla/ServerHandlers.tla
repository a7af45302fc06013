---------------------------- MODULE ServerHandlers ----------------------------
(***************************************************************************)
(* What Server (src/src/server.rs) computes from one input: the packet it  *)
(* builds, the answer it gives, the service it reports.  None of these     *)
(* functions assigns to the server; Server.tla has the steps that do.      *)
(*                                                                         *)
(* A message is abstract: the wire format is the matter of other modules,  *)
(* and what Message::parse refuses is the datum `garbage` or fails         *)
(* ParseAccepts.                                                           *)
(***************************************************************************)
EXTENDS ServiceInfo, SequencesExt

CONSTANTS
  QLEN,       \* queries in a message
  ALEN        \* answers in a message

TimeoutAt(t) == [kind |-> "timeout", at |-> t]
Remote(s)    == [kind |-> "remote", service |-> s]
Panic(why)   == [kind |-> "panic", why |-> why]

Multi(from)       == [mode |-> "multi", from |-> from]
Uni(from, target) == [mode |-> "uni", from |-> from, target |-> target]

Packet(msg, cast) == [kind |-> "packet", msg |-> msg, cast |-> cast]

Request(id, queries) ==
  [kind |-> "request", id |-> id, queries |-> queries]
Response(id, queries, answers) ==
  [kind |-> "response", id |-> id, queries |-> queries, answers |-> answers]

\* What is there is not pushed again.
PushNew(v, x, cap) == IF Contains(v, x) THEN v ELSE VecPush(v, x, cap)

\* A loop of such pushes into an empty vector.
PushAllNew(xs, cap) ==
  LET push(v, x) == PushNew(v, x, cap)
  IN  FoldLeft(push, <<>>, xs)

\* The ip/netmask pair that tells interfaces apart.
LocalIp(s) == [addr |-> s.ip_address, mask |-> s.netmask]

\* The declared services of an interface, by their index.
HostedAt(services, local) == {i \in DOMAIN services : LocalIp(services[i]) = local}

\* MUTANT: an interface is its address, whatever the netmask.
HostedByAddr(services, local) ==
  Retain(services, {i \in DOMAIN services : services[i].ip_address = local.addr})

Hosted(services, local) == Retain(services, HostedAt(services, local))

\* The query targets of an interface.
Targeting(query_targets, local) ==
  Retain(query_targets, {i \in DOMAIN query_targets : query_targets[i].local_ip = local})

-----------------------------------------------------------------------------
(* Periodic packets.                                                       *)

\* MUTANT: answers for all services on every interface.
DoAdvertiseAll(services, local) ==
  LET answers == FlattenSeq([i \in DOMAIN services |->
                               AsAnswers(services[i], "Multicast")])
  IN  IF ExtendFits(AnswersPerService * Len(services), ALEN)
      THEN Packet(Response(0, <<>>, answers), Multi(local.addr))
      ELSE Panic("answers.extend")

\* MUTANT: answers that fill the message to the last place are left out.
DoAdvertiseNotFull(services, local) ==
  LET here == Hosted(services, local)
      answers == FlattenSeq([i \in DOMAIN here |-> AsAnswers(here[i], "Multicast")])
  IN  IF ~ ExtendFits(AnswersPerService * Cardinality(HostedAt(services, local)), ALEN)
      THEN Panic("answers.extend")
      ELSE Packet(Response(0, <<>>, IF HasRoom(answers, ALEN) THEN answers ELSE <<>>),
                  Multi(local.addr))

\* All the services of one interface in one multicast response.
DoAdvertise(services, local) ==
  LET here == Hosted(services, local)
      answers == FlattenSeq([i \in DOMAIN here |-> AsAnswers(here[i], "Multicast")])
  IN  IF ExtendFits(AnswersPerService * Cardinality(HostedAt(services, local)), ALEN)
      THEN Packet(Response(0, <<>>, answers), Multi(local.addr))
      ELSE Panic("answers.extend")

PtrQuery(name) == [name |-> name, qtype |-> "PTR", qclass |-> "IN"]

\* MUTANT: query targets are forgotten on an interface with services.
DoQueryServicesFirst(services, query_targets, local, id) ==
  LET here    == Hosted(services, local)
      targets == Targeting(query_targets, local)
      from    == IF here = <<>> THEN targets ELSE here
  IN  Packet(Request(id, [i \in DOMAIN from |-> PtrQuery(from[i].service_type)]),
             Multi(local.addr))

\* One question per service and per query target of the interface.
DoQuery(services, query_targets, local, id) ==
  LET here    == Hosted(services, local)
      targets == Targeting(query_targets, local)
      names   == [i \in DOMAIN here    |-> here[i].service_type]
                 \o [i \in DOMAIN targets |-> targets[i].service_type]
      queries == VecPushAll([i \in DOMAIN names |-> PtrQuery(names[i])], QLEN)
  IN  Packet(Request(id, queries), Multi(local.addr))

-----------------------------------------------------------------------------
(* Incoming packets.                                                       *)

\* Parsing fails for the whole message when a vector is too short for it or
\* when an answer has a record type that Record::parse does not know.
ParseAccepts(msg) ==
  /\ msg.kind # "garbage"
  /\ ExtendFits(Len(msg.queries), QLEN)
  /\ msg.kind = "response" =>
       /\ ExtendFits(Len(msg.answers), ALEN)
       /\ \A i \in DOMAIN msg.answers : msg.answers[i].rec.type # "other"

\* MUTANT: whoever asks is told.
AsksFromAnywhere(query, s, from) ==
  query.qtype = "PTR" /\ query.name = s.service_type

\* Does this query concern this service, asked for from this address?
Asks(query, s, from) ==
  /\ query.qtype = "PTR"
  /\ query.name = s.service_type
  /\ IsSameNetwork(s.ip_address, s.netmask, from.ip)

\* MUTANT: only the first query is answered.
AnswersToFirst(services, queries, from) ==
  FlattenSeq([j \in DOMAIN services |->
    IF Asks(queries[1], services[j], from)
    THEN AsAnswers(services[j], queries[1].qclass) ELSE <<>>])

\* The answers to all the queries, each answer once, while there is room.
AnswersTo(services, queries, from) ==
  LET qclass == queries[1].qclass
      offered(q) == FlattenSeq([j \in DOMAIN services |->
                      IF Asks(q, services[j], from)
                      THEN AsAnswers(services[j], qclass) ELSE <<>>])
      all == FlattenSeq([i \in DOMAIN queries |-> offered(queries[i])])
  IN  PushAllNew(all, ALEN)

\* MUTANT: the network of an interface is the interface alone.
ReachingExactly(local_ips, from) ==
  {i \in DOMAIN local_ips : local_ips[i].addr = from.ip}

\* The interfaces from which an address can be reached.
Reaching(local_ips, from) ==
  {i \in DOMAIN local_ips :
     IsSameNetwork(local_ips[i].addr, local_ips[i].mask, from.ip)}

\* MUTANT: id 0 is taken for a request of this server, too.
FromSelfOrZero(request, txid_query) == request.id \in {0, txid_query}

\* Ignore requests from self.
FromSelf(request, txid_query) == request.id = txid_query

HandleRequest(services, local_ips, txid_query, poll, request, from) ==
  IF request.queries = <<>> \/ FromSelf(request, txid_query)
  THEN TimeoutAt(poll)
  ELSE LET answers == AnswersTo(services, request.queries, from)
           ways    == Reaching(local_ips, from)
           addr    == local_ips[Min(ways)].addr
       IN  IF answers = <<>> THEN TimeoutAt(poll)
           ELSE IF ways = {} THEN Panic("local_ips.find")
           ELSE Packet(Response(request.id, request.queries, answers),
                       IF request.queries[1].qclass = "IN"
                       THEN Uni(addr, from) ELSE Multi(addr))

IsMatchingService(s1, services, query_targets) ==
  /\ \/ \E i \in DOMAIN services : s1.service_type = services[i].service_type
     \/ \E i \in DOMAIN query_targets :
          s1.service_type = query_targets[i].service_type
  /\ ~ \E i \in DOMAIN services :
          /\ s1.instance_name = services[i].instance_name
          /\ s1.ip_address = services[i].ip_address
          /\ s1.port = services[i].port

\* MUTANT: the first service is looked at, the others are not.
HandleResponseFirst(services, query_targets, poll, response) ==
  LET found == FromAnswers(response.answers)
  IN  IF found # <<>> /\ IsMatchingService(Head(found), services, query_targets)
      THEN Remote(Head(found)) ELSE TimeoutAt(poll)

\* Only the first of the services found in a response is reported.
HandleResponse(services, query_targets, poll, response) ==
  LET found   == FromAnswers(response.answers)
      matches == Retain(found, {i \in DOMAIN found :
                                  IsMatchingService(found[i], services, query_targets)})
  IN  IF matches = <<>> THEN TimeoutAt(poll) ELSE Remote(Head(matches))
=============================================================================
