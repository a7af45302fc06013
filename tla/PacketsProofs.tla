---------------------------- MODULE PacketsProofs ----------------------------
(***************************************************************************)
(* What the server makes of a packet.  A packet changes nothing but the    *)
(* output, so the invariant is IndInv and that the output is what the      *)
(* handlers compute from the packet received last.                         *)
(***************************************************************************)
EXTENDS ServerPackets, ServerProofs

\* What handle_packet returns.
Handled(p) ==
  IF ~ ParseAccepts(p.data) THEN TimeoutAt(PollTimeout)
  ELSE IF p.data.kind = "request"
  THEN HandleRequest(services, local_ips, txid_query, PollTimeout, p.data, p.from)
  ELSE HandleResponse(services, query_targets, PollTimeout, p.data)

ReceivedInv ==
  received # Nothing => received \in Packets /\ output = Handled(received)

\* ServerPackets restricts Server and adds nothing to it.
LEMMA PacketsAreRuns == PNext => Next
  BY DEF PNext, Next

\* Whatever was received last, the output is what the handlers make of it:
\* handle_packet returns it and changes no field of the server.
THEOREM PacketsInvariance == PSpec => [](IndInv /\ ReceivedInv)
  <1>1. PInit => IndInv /\ ReceivedInv
    BY InitIndInv DEF PInit, ReceivedInv
  <1>2. ASSUME IndInv, ReceivedInv, [PNext]_<<vars, received>>
        PROVE  (IndInv /\ ReceivedInv)'
    <2>1. IndInv'
      BY <1>2, PacketsAreRuns, NextIndInv
    <2>2. ASSUME NEW p \in Packets, HandlePacket(p), received' = p
          PROVE  ReceivedInv'
      <3>1. output' = Handled(p)
        BY <2>2 DEF HandlePacket, Handled
      <3>2. UNCHANGED << services, query_targets, local_ips, txid_query,
                         next_advertise, next_query >>
        BY <2>2 DEF HandlePacket, config, timers
      <3>3. Handled(p)' = Handled(p)
        BY <3>2 DEF Handled, PollTimeout
      <3>4. QED
        BY <2>2, <3>1, <3>3 DEF ReceivedInv
    <2>3. ASSUME received' = Nothing
          PROVE  ReceivedInv'
      BY <2>3 DEF ReceivedInv
    <2>4. ASSUME UNCHANGED << vars, received >>
          PROVE  ReceivedInv'
      <3>1. received' = received /\ output' = output
        BY <2>4 DEF vars
      <3>2. Handled(received)' = Handled(received)
        BY <2>4 DEF Handled, PollTimeout, vars
      <3>3. ASSUME received # Nothing
            PROVE  received \in Packets /\ output = Handled(received)
        BY <1>2, <3>3 DEF ReceivedInv
      <3>4. (received # Nothing => received \in Packets /\ output = Handled(received))'
        BY <3>1, <3>2, <3>3
      <3>5. QED
        BY <3>4 DEF ReceivedInv
    <2>5. QED
      BY <1>2, <2>1, <2>2, <2>3, <2>4 DEF PNext
  <1>3. QED
    BY <1>1, <1>2, PTL DEF PSpec

-----------------------------------------------------------------------------
(* Requests                                                                *)

\* A reply and what it is made of.
LEMMA ReplyParts ==
  ASSUME IndInv, ReceivedInv, Replied
  PROVE  LET queries == received.data.queries
             from    == received.from
             ways    == Reaching(local_ips, from)
         IN  /\ received.data.kind = "request"
             /\ queries \in Seq(Range(queries))
             /\ output.msg.queries = queries
             /\ output.msg.answers = AnswersTo(services, queries, from)
             /\ ways # {} /\ output.cast.from = local_ips[Min(ways)].addr
  <1> DEFINE queries == received.data.queries
             from    == received.from
             ways    == Reaching(local_ips, from)
  <1>1. received \in Packets /\ output = Handled(received) /\ output.kind = "packet"
    BY DEF ReceivedInv, Replied
  <1>2. received.data.kind = "request" /\ ParseAccepts(received.data)
    BY <1>1, OutputKinds DEF Handled, TimeoutAt
  <1>3. output = HandleRequest(services, local_ips, txid_query, PollTimeout,
                               received.data, from)
    BY <1>1, <1>2 DEF Handled
  <1>4. queries \in Seq(Range(queries))
    BY <1>1, <1>2, PacketsAssumption
  <1>5. ways # {}
        /\ output = Packet(Response(received.data.id, queries,
                                    AnswersTo(services, queries, from)),
                           IF queries[1].qclass = "IN"
                           THEN Uni(local_ips[Min(ways)].addr, from)
                           ELSE Multi(local_ips[Min(ways)].addr))
    BY <1>1, <1>3 DEF HandleRequest, TimeoutAt, Panic
  <1>6. /\ output.msg.queries = queries
        /\ output.msg.answers = AnswersTo(services, queries, from)
        /\ output.cast.from = local_ips[Min(ways)].addr
    BY <1>5 DEF Packet, Response, Uni, Multi
  <1>7. QED
    BY <1>2, <1>4, <1>5, <1>6

\* A reply goes out on the asker's network and tells of nothing else.
THEOREM RepliesStayOnNetwork == PSpec => []ReplyStaysOnNetwork
  <1>1. ASSUME IndInv, ReceivedInv, Replied
        PROVE  /\ \E i \in DOMAIN local_ips :
                    /\ local_ips[i].addr = output.cast.from
                    /\ IsSameNetwork(local_ips[i].addr, local_ips[i].mask, received.from.ip)
               /\ \A a \in Range(output.msg.answers) :
                    \E s \in Range(services) :
                      /\ OnNetworkOf(s, received.from.ip)
                      /\ a \in Range(AsAnswers(s, output.msg.queries[1].qclass))
    <2> DEFINE queries == received.data.queries
               from    == received.from
               ways    == Reaching(local_ips, from)
    <2>1. /\ queries \in Seq(Range(queries))
          /\ output.msg.queries = queries
          /\ output.msg.answers = AnswersTo(services, queries, from)
          /\ ways # {} /\ output.cast.from = local_ips[Min(ways)].addr
      BY <1>1, ReplyParts
    <2>2. services \in Seq(Services) /\ local_ips \in Seq(Interfaces) /\ ALEN \in Nat
      BY <1>1, ServerAssumption DEF IndInv, TypeOK
    <2>3. Min(ways) \in ways
      <3>1. ways \subseteq Nat
        BY <2>2, LenProperties DEF Reaching
      <3> HIDE DEF ways
      <3>2. QED
        BY <2>1, <3>1, MinOfNats
    <2>4. AnswersTo(services, queries, from) \in Seq(Offered(services, queries, from))
      BY <2>1, <2>2, AnswersToProperties
    <2>5. \A a \in Range(AnswersTo(services, queries, from)) :
            a \in Offered(services, queries, from)
      BY <2>4, RangeOfSeq
    <2>6. \A j \in AskedFor(services, queries, from) :
            services[j] \in Range(services) /\ OnNetworkOf(services[j], from.ip)
      BY DEF AskedFor, Asks, OnNetworkOf, Range
    <2>7. \A a \in Range(output.msg.answers) :
            \E s \in Range(services) :
              /\ OnNetworkOf(s, from.ip)
              /\ a \in Range(AsAnswers(s, output.msg.queries[1].qclass))
      BY <2>1, <2>5, <2>6 DEF Offered
    <2>8. \E i \in DOMAIN local_ips :
            /\ local_ips[i].addr = output.cast.from
            /\ IsSameNetwork(local_ips[i].addr, local_ips[i].mask, from.ip)
      BY <2>1, <2>3 DEF Reaching
    <2>9. QED
      BY <2>7, <2>8
  <1>2. IndInv /\ ReceivedInv => ReplyStaysOnNetwork
    BY <1>1 DEF ReplyStaysOnNetwork
  <1>3. QED
    BY <1>2, PacketsInvariance, PTL

\* The services that a request wants are those that are asked for.
LEMMA WantedIsAskedFor ==
  ASSUME NEW request, NEW from
  PROVE  Wanted(request, from.ip)
           = {services[j] : j \in AskedFor(services, request.queries, from)}
  BY DEF Wanted, AskedFor, Asks, OnNetworkOf, Range

\* A reply has room for the four answers of each service.
RepliesFit ==
  \A svcs \in ServiceLists : ExtendFits(AnswersPerService * Len(svcs), ALEN)

\* A reply tells all of what was asked for, and nothing twice.
THEOREM RepliesAreComplete == RepliesFit => (PSpec => []ReplyIsComplete)
  <1> SUFFICES ASSUME RepliesFit PROVE PSpec => []ReplyIsComplete
    OBVIOUS
  <1>1. ASSUME IndInv, ReceivedInv, Replied
        PROVE  /\ IsInjective(output.msg.answers)
               /\ \A s \in Wanted(output.msg, received.from.ip) :
                    Range(AsAnswers(s, output.msg.queries[1].qclass))
                      \subseteq Range(output.msg.answers)
    <2> DEFINE queries == received.data.queries
               from    == received.from
    <2>1. /\ queries \in Seq(Range(queries))
          /\ output.msg.queries = queries
          /\ output.msg.answers = AnswersTo(services, queries, from)
      BY <1>1, ReplyParts
    <2>2. services \in Seq(Services) /\ services \in ServiceLists /\ ALEN \in Nat
      BY <1>1, ServerAssumption DEF IndInv, TypeOK
    <2>3. ExtendFits(Cardinality(Offered(services, queries, from)), ALEN)
      BY <2>2, OfferedFits DEF RepliesFit
    <2>4. /\ IsInjective(output.msg.answers)
          /\ Range(output.msg.answers) = Offered(services, queries, from)
      BY <2>1, <2>2, <2>3, AnswersToProperties
    <2>5. Wanted(output.msg, from.ip)
            = {services[j] : j \in AskedFor(services, queries, from)}
      BY <2>1, WantedIsAskedFor
    <2>6. QED
      BY <2>1, <2>4, <2>5 DEF Offered
  <1>2. IndInv /\ ReceivedInv => ReplyIsComplete
    BY <1>1 DEF ReplyIsComplete
  <1>3. QED
    BY <1>2, PacketsInvariance, PTL

\* Nobody who asks for a service of this host goes without a reply, unless
\* the request bears the id of the server's own.
THEOREM AskersAreAnswered == Alloc \/ ALEN > 0 => (PSpec => []AskerIsAnswered)
  <1> SUFFICES ASSUME Alloc \/ ALEN > 0 PROVE PSpec => []AskerIsAnswered
    OBVIOUS
  <1>1. ASSUME IndInv, ReceivedInv,
               received.data.kind = "request", ParseAccepts(received.data),
               Wanted(received.data, received.from.ip) # {},
               received.data.id # txid_query
        PROVE  Replied
    <2> DEFINE queries == received.data.queries
               from    == received.from
    <2>1. received # Nothing
      BY <1>1 DEF Nothing
    <2>2. received \in Packets /\ output = Handled(received)
      BY <1>1, <2>1 DEF ReceivedInv
    <2>3. queries \in Seq(Range(queries))
      BY <1>1, <2>2, PacketsAssumption
    <2>4. services \in Seq(Services) /\ ALEN \in Nat
      BY <1>1, ServerAssumption DEF IndInv, TypeOK
    <2>5. PICK j \in AskedFor(services, queries, from) : TRUE
      <3>1. Wanted(received.data, from.ip)
              = {services[k] : k \in AskedFor(services, queries, from)}
        BY WantedIsAskedFor
      <3>2. QED
        BY <1>1, <3>1
    <2>6. queries # <<>>
      <3>1. DOMAIN <<>> = {}
        BY EmptySeq, LenProperties
      <3>2. QED
        BY <2>5, <3>1 DEF AskedFor
    <2>7. Offered(services, queries, from) # {}
      <3>1. PtrAnswer(services[j]) \in Range(AsAnswers(services[j], queries[1].qclass))
        BY FourAnswers
      <3>2. PtrAnswer(services[j]) \in Offered(services, queries, from)
        BY <2>5, <3>1 DEF Offered
      <3>3. QED
        BY <3>2
    <2>8. AnswersTo(services, queries, from) # <<>>
      BY <2>3, <2>4, <2>7, AnswersToProperties
    <2>9. Reaching(local_ips, from) # {}
      BY <1>1, <2>3, <2>8, ReplyHasInterface
    <2>10. output = HandleRequest(services, local_ips, txid_query, PollTimeout,
                                  received.data, from)
      BY <1>1, <2>2 DEF Handled
    <2>11. output.kind = "packet"
      BY <1>1, <2>6, <2>8, <2>9, <2>10 DEF HandleRequest, FromSelf, Packet
    <2>12. QED
      BY <2>1, <2>11 DEF Replied
  <1>2. IndInv /\ ReceivedInv => AskerIsAnswered
    BY <1>1 DEF AskerIsAnswered
  <1>3. QED
    BY <1>2, PacketsInvariance, PTL

-----------------------------------------------------------------------------
(* Responses                                                               *)

\* A description in ServerPackets is what from_answers puts together.
LEMMA DescribedIsMatched ==
  ASSUME NEW answers
  PROVE  \A s : s \in Described(answers) <=>
           \E ptr, srv, ip : Matched(answers, ptr, srv, ip) /\ s = ServiceOf(ptr, srv, ip)
  <1> DEFINE Of(type) == {a \in Range(answers) : a.rec.type \in type}
             triples == {u \in Of({"PTR"}) \X Of({"SRV"}) \X Of({"A", "AAAA"}) :
                           u[1].rec.name = u[2].name /\ u[2].rec.target = u[3].name}
  <1>1. Described(answers) = {ServiceOf(t[1], t[2], t[3]) : t \in triples}
    BY DEF Described, ServiceOf
  <1>2. \A t \in triples : Matched(answers, t[1], t[2], t[3])
    BY DEF Matched
  <1>3. \A ptr, srv, ip : Matched(answers, ptr, srv, ip) => << ptr, srv, ip >> \in triples
    BY DEF Matched
  <1> HIDE DEF triples
  <1>4. ASSUME NEW ptr, NEW srv, NEW ip, Matched(answers, ptr, srv, ip)
        PROVE  ServiceOf(ptr, srv, ip) \in Described(answers)
    <2> DEFINE t == << ptr, srv, ip >>
    <2>1. t \in triples /\ t[1] = ptr /\ t[2] = srv /\ t[3] = ip
      BY <1>3, <1>4
    <2> HIDE DEF t
    <2>2. QED
      BY <1>1, <2>1
  <1>5. QED
    BY <1>1, <1>2, <1>4

\* Matching answers of an unambiguous response meet in the stub.
LEMMA MatchedIsMerged ==
  ASSUME NEW S, NEW answers \in Seq(S), Unambiguous(answers),
         NEW ptr, NEW srv, NEW ip, Matched(answers, ptr, srv, ip)
  PROVE  MergedStub(answers, ptr) = ServiceOf(ptr, srv, ip)
  <1> DEFINE stub == PtrStub(ptr)
             srvs == Mentions(answers, {"SRV"}, stub.instance_name)
             asrv == answers[Max(srvs)]
             half == MergeSrv(stub, answers)
             ips  == Mentions(answers, {"A", "AAAA"}, half.hostname)
             anip == answers[Max(ips)]
  <1>1. stub.instance_name = ptr.rec.name
    BY DEF PtrStub
  <1>2. srvs # {}
    <2>1. PICK i \in DOMAIN answers : answers[i] = srv
      BY DEF Matched, Range
    <2>2. i \in srvs
      BY <1>1, <2>1 DEF Matched, Mentions
    <2>3. QED
      BY <2>2
  <1>3. asrv.rec = srv.rec
    <2>1. asrv \in Range(answers) /\ asrv.rec.type \in {"SRV"}
          /\ asrv.name = stub.instance_name
      BY <1>2, LastMention
    <2> HIDE DEF asrv, stub
    <2>2. QED
      BY <1>1, <2>1 DEF Unambiguous, Matched
  <1>4. half = [ service_type  |-> ptr.name,
                 instance_name |-> ptr.rec.name,
                 hostname      |-> srv.rec.target,
                 ip_address    |-> DefaultAddr,
                 netmask       |-> DefaultAddr,
                 port          |-> srv.rec.port ]
    BY <1>2, <1>3 DEF MergeSrv, PtrStub
  <1>5. half.hostname = srv.rec.target
    BY <1>4
  <1>6. ips # {}
    <2>1. PICK i \in DOMAIN answers : answers[i] = ip
      BY DEF Matched, Range
    <2> HIDE DEF half
    <2>2. i \in ips
      BY <1>5, <2>1 DEF Matched, Mentions
    <2>3. QED
      BY <2>2
  <1>7. anip.rec = ip.rec
    <2>1. anip \in Range(answers) /\ anip.rec.type \in {"A", "AAAA"}
          /\ anip.name = half.hostname
      BY <1>6, LastMention
    <2> HIDE DEF anip, half
    <2>2. QED
      BY <1>5, <2>1 DEF Unambiguous, Matched
  <1>8. MergedStub(answers, ptr)
          = [half EXCEPT !.ip_address = anip.rec.address,
                         !.netmask = NetmaskFull(anip.rec.address.fam)]
    BY <1>6 DEF MergedStub, MergeAddress
  <1> HIDE DEF stub, srvs, asrv, half, ips, anip
  <1>9. QED
    BY <1>4, <1>7, <1>8 DEF ServiceOf

\* What is reported was found in the response and is news.
LEMMA MatchesAreNews ==
  ASSUME NEW answers, answers \in Seq(Range(answers))
  PROVE  \A s \in Found(answers) :
           IsMatchingService(s, services, query_targets) => s \in News(answers)
  <1> SUFFICES ASSUME NEW s \in Found(answers),
                      IsMatchingService(s, services, query_targets)
               PROVE  s \in News(answers)
    OBVIOUS
  <1>1. PICK ptr \in PtrAnswers(answers) : s = MergedStub(answers, ptr) /\ IsComplete(s)
    BY DEF Found
  <1>2. ptr \in Range(answers) /\ ptr.rec.type = "PTR"
    BY DEF PtrAnswers
  <1>3. PICK srv, ip : Matched(answers, ptr, srv, ip) /\ s = ServiceOf(ptr, srv, ip)
    BY <1>1, <1>2, CompleteIsMatched
  <1>4. s \in Described(answers)
    BY <1>3, DescribedIsMatched
  <1>5. s.service_type \in TypesOfInterest /\ ~ IsOwn(s)
    BY DEF IsMatchingService, TypesOfInterest, IsOwn
  <1>6. QED
    BY <1>1, <1>4, <1>5 DEF News, IsComplete

\* A reported service is described by answers of the response it came with
\* that belong to each other, is looked for, and is not one of the host's
\* own, whatever the order of the answers and the capacities.
THEOREM ReportsAreNews == PSpec => []RemoteIsNews
  <1>1. ASSUME IndInv, ReceivedInv, Reported
        PROVE  output.service \in News(received.data.answers)
    <2>1. received \in Packets /\ output = Handled(received) /\ output.kind = "remote"
      BY <1>1 DEF ReceivedInv, Reported
    <2>2. ParseAccepts(received.data) /\ received.data.kind # "request"
      BY <2>1, OutputKinds DEF Handled, TimeoutAt
    <2>3. received.data.answers \in Seq(Range(received.data.answers))
      BY <2>1, <2>2, PacketsAssumption DEF ParseAccepts
    <2>4. output = HandleResponse(services, query_targets, PollTimeout, received.data)
      BY <2>1, <2>2 DEF Handled
    <2>5. SLEN \in Nat
      BY ServerAssumption
    <2>6. /\ output.service \in Found(received.data.answers)
          /\ IsMatchingService(output.service, services, query_targets)
      BY <2>1, <2>3, <2>4, <2>5, ReportedIsFound
    <2>7. QED
      BY <2>3, <2>6, MatchesAreNews
  <1>2. IndInv /\ ReceivedInv => RemoteIsNews
    BY <1>1 DEF RemoteIsNews
  <1>3. QED
    BY <1>2, PacketsInvariance, PTL

\* from_answers has a stub for every PTR answer of a message.
StubsFit == Alloc \/ ALEN <= SLEN

\* In whatever order the answers of an unambiguous response come, what is
\* new in it is not overlooked, if every PTR answer can have its stub.
THEOREM NewsNotOverlooked == StubsFit => (PSpec => []NewsIsReported)
  <1> SUFFICES ASSUME StubsFit PROVE PSpec => []NewsIsReported
    OBVIOUS
  <1>1. ASSUME IndInv, ReceivedInv,
               received.data.kind = "response", ParseAccepts(received.data),
               Unambiguous(received.data.answers), News(received.data.answers) # {}
        PROVE  Reported
    <2> DEFINE answers == received.data.answers
               found   == FromAnswers(answers)
               keep    == {i \in DOMAIN found :
                             IsMatchingService(found[i], services, query_targets)}
               matches == Retain(found, keep)
    <2>1. received # Nothing
      BY <1>1 DEF Nothing
    <2>2. received \in Packets /\ output = Handled(received)
      BY <1>1, <2>1 DEF ReceivedInv
    <2>3. answers \in Seq(Range(answers))
      BY <1>1, <2>2, PacketsAssumption
    <2>4. SLEN \in Nat /\ ALEN \in Nat
      BY ServerAssumption
    <2>5. Alloc \/ Len(answers) <= SLEN
      <3>1. Len(answers) \in Nat
        BY <2>3, LenProperties
      <3>2. Alloc \/ Len(answers) <= ALEN
        BY <1>1 DEF ParseAccepts, ExtendFits
      <3>3. QED
        BY <2>4, <3>1, <3>2 DEF StubsFit
    <2>6. PICK s \in News(answers) : TRUE
      BY <1>1
    <2>7. PICK ptr, srv, ip : Matched(answers, ptr, srv, ip) /\ s = ServiceOf(ptr, srv, ip)
      <3>1. s \in Described(answers)
        BY DEF News
      <3>2. QED
        BY <3>1, DescribedIsMatched
    <2>8. MergedStub(answers, ptr) = s
      BY <1>1, <2>3, <2>7, MatchedIsMerged
    <2>9. s \in Found(answers)
      <3>1. ptr \in PtrAnswers(answers)
        BY <2>7 DEF Matched, PtrAnswers
      <3>2. IsComplete(s)
        BY DEF News, IsComplete
      <3>3. QED
        BY <2>8, <3>1, <3>2 DEF Found
    <2>10. IsMatchingService(s, services, query_targets)
      BY DEF News, TypesOfInterest, IsOwn, IsMatchingService
    <2>11. found \in Seq(Found(answers)) /\ Range(found) = Found(answers)
      BY <2>3, <2>4, <2>5, FromAnswersProperties
    <2> HIDE DEF found
    <2>12. PICK i \in DOMAIN found \cap keep : found[i] = s
      BY <2>9, <2>10, <2>11 DEF Range
    <2> HIDE DEF keep
    <2>13. Range(matches) = {found[j] : j \in DOMAIN found \cap keep}
      BY <2>11, RetainProperties
    <2>14. matches # <<>>
      <3>1. DOMAIN <<>> = {}
        BY EmptySeq, LenProperties
      <3>2. QED
        BY <2>12, <2>13, <3>1 DEF Range
    <2>15. output = HandleResponse(services, query_targets, PollTimeout, received.data)
      BY <1>1, <2>2 DEF Handled
    <2>16. output.kind = "remote"
      BY <2>14, <2>15 DEF HandleResponse, Remote, found, keep
    <2>17. QED
      BY <2>1, <2>16 DEF Reported
  <1>2. IndInv /\ ReceivedInv => NewsIsReported
    BY <1>1 DEF NewsIsReported
  <1>3. QED
    BY <1>2, PacketsInvariance, PTL
=============================================================================
