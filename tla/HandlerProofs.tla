---------------------------- MODULE HandlerProofs ----------------------------
(***************************************************************************)
(* What a server computes from one input, for every input: what a periodic *)
(* packet says, what is answered to a request and which services are found *)
(* in a response.                                                          *)
(***************************************************************************)
EXTENDS ListProofs

-----------------------------------------------------------------------------
(* Periodic packets                                                        *)

\* The services of an interface.
LEMMA HostedProperties ==
  ASSUME NEW S, NEW svcs \in Seq(S), NEW local
  PROVE  /\ Hosted(svcs, local) \in Seq(S)
         /\ Len(Hosted(svcs, local)) <= Len(svcs)
         /\ Range(Hosted(svcs, local)) = {svcs[j] : j \in HostedAt(svcs, local)}
  <1>1. DOMAIN svcs \cap HostedAt(svcs, local) = HostedAt(svcs, local)
    BY DEF HostedAt
  <1>2. QED
    BY <1>1, RetainProperties DEF Hosted

\* The same of the query targets of an interface.
LEMMA TargetingProperties ==
  ASSUME NEW S, NEW targets \in Seq(S), NEW local
  PROVE  /\ Targeting(targets, local) \in Seq(S)
         /\ Len(Targeting(targets, local)) <= Len(targets)
         /\ Range(Targeting(targets, local))
              = {targets[j] : j \in {k \in DOMAIN targets : targets[k].local_ip = local}}
  <1> DEFINE keep == {k \in DOMAIN targets : targets[k].local_ip = local}
  <1>1. DOMAIN targets \cap keep = keep
    OBVIOUS
  <1>2. Targeting(targets, local) = Retain(targets, keep)
    BY DEF Targeting
  <1> HIDE DEF keep
  <1>3. QED
    BY <1>1, <1>2, RetainProperties DEF keep

\* What a service has to say.
LEMMA FourAnswers ==
  ASSUME NEW s, NEW c
  PROVE  /\ AsAnswers(s, c) \in Seq(Range(AsAnswers(s, c)))
         /\ Len(AsAnswers(s, c)) = 4
         /\ Range(AsAnswers(s, c)) =
              {PtrAnswer(s), SrvAnswer(s, c), TxtAnswer(s, c), IpAnswer(s, c)}
  <1> DEFINE as == AsAnswers(s, c)
  <1>1. /\ DOMAIN as = 1 .. 4 /\ Len(as) = 4
        /\ as[1] = PtrAnswer(s) /\ as[2] = SrvAnswer(s, c)
        /\ as[3] = TxtAnswer(s, c) /\ as[4] = IpAnswer(s, c)
        /\ as = [i \in 1 .. 4 |-> as[i]]
    BY DEF AsAnswers
  <1> HIDE DEF as
  <1>2. Range(as) = {PtrAnswer(s), SrvAnswer(s, c), TxtAnswer(s, c), IpAnswer(s, c)}
    <2>1. \A i \in 1 .. 4 : i = 1 \/ i = 2 \/ i = 3 \/ i = 4
      OBVIOUS
    <2>2. 1 \in 1 .. 4 /\ 2 \in 1 .. 4 /\ 3 \in 1 .. 4 /\ 4 \in 1 .. 4
      OBVIOUS
    <2>3. QED
      BY <1>1, <2>1, <2>2 DEF Range
  <1>3. as \in Seq(Range(as))
    <2>1. \A i \in 1 .. 4 : as[i] \in Range(as)
      BY <1>1 DEF Range
    <2>2. as \in [1 .. 4 -> Range(as)]
      BY <1>1, <2>1
    <2>3. 4 \in Nat
      OBVIOUS
    <2>4. QED
      BY <2>2, <2>3, SeqDef
  <1>4. QED
    BY <1>1, <1>2, <1>3 DEF as

\* An advertisement tells all about the services of its interface.
LEMMA AdvertisementTells ==
  ASSUME NEW S, NEW svcs \in Seq(S), NEW local,
         DoAdvertise(svcs, local).kind = "packet"
  PROVE  /\ DoAdvertise(svcs, local).cast.from = local.addr
         /\ DoAdvertise(svcs, local).msg.answers
              \in Seq(Range(DoAdvertise(svcs, local).msg.answers))
         /\ \A a : a \in Range(DoAdvertise(svcs, local).msg.answers) <=>
              \E j \in HostedAt(svcs, local) : a \in Range(AsAnswers(svcs[j], "Multicast"))
  <1> DEFINE here == Hosted(svcs, local)
             parts == [i \in DOMAIN here |-> AsAnswers(here[i], "Multicast")]
             A == UNION {Range(AsAnswers(here[i], "Multicast")) : i \in DOMAIN here}
  <1>1. DoAdvertise(svcs, local) = Packet(Response(0, <<>>, FlattenSeq(parts)),
                                          Multi(local.addr))
    BY DEF DoAdvertise, Panic, Packet
  <1>2. /\ here \in Seq(S)
        /\ Range(here) = {svcs[j] : j \in HostedAt(svcs, local)}
    BY HostedProperties
  <1> HIDE DEF here
  <1>3. DOMAIN here = 1 .. Len(here) /\ Len(here) \in Nat
    BY <1>2, LenProperties
  <1>4. \A i \in DOMAIN here : AsAnswers(here[i], "Multicast") \in Seq(A)
    <2> TAKE i \in DOMAIN here
    <2>1. AsAnswers(here[i], "Multicast") \in Seq(Range(AsAnswers(here[i], "Multicast")))
      BY FourAnswers
    <2>2. Range(AsAnswers(here[i], "Multicast")) \subseteq A
      OBVIOUS
    <2> HIDE DEF A
    <2>3. QED
      BY <2>1, <2>2, SeqMonotonic
  <1> HIDE DEF A
  <1>5. parts \in Seq(Seq(A)) /\ DOMAIN parts = DOMAIN here
    <2>1. parts \in [1 .. Len(here) -> Seq(A)] /\ DOMAIN parts = DOMAIN here
      BY <1>3, <1>4
    <2> HIDE DEF parts
    <2>2. QED
      BY <1>3, <2>1, SeqDef
  <1>6. /\ FlattenSeq(parts) \in Seq(Range(FlattenSeq(parts)))
        /\ Range(FlattenSeq(parts)) = UNION {Range(parts[i]) : i \in DOMAIN parts}
    <2> HIDE DEF parts
    <2>1. QED
      BY <1>5, FlattenProperties, SeqOfRange
  <1>7. \A a : a \in UNION {Range(parts[i]) : i \in DOMAIN here} <=>
               \E s \in Range(here) : a \in Range(AsAnswers(s, "Multicast"))
    BY DEF Range
  <1>8. \A a : (\E s \in Range(here) : a \in Range(AsAnswers(s, "Multicast"))) <=>
               \E j \in HostedAt(svcs, local) : a \in Range(AsAnswers(svcs[j], "Multicast"))
    BY <1>2
  <1> HIDE DEF parts
  <1>9. /\ DoAdvertise(svcs, local).cast.from = local.addr
        /\ DoAdvertise(svcs, local).msg.answers = FlattenSeq(parts)
    BY <1>1 DEF Packet, Response, Multi
  <1>10. QED
    BY <1>5, <1>6, <1>7, <1>8, <1>9

\* A list that fits is kept as it is.
LEMMA PushAllThatFits ==
  ASSUME NEW xs, NEW cap, Alloc \/ Len(xs) <= cap
  PROVE  VecPushAll(xs, cap) = xs
  BY DEF VecPushAll

\* One that does not is cut.
LEMMA PushAllTyped ==
  ASSUME NEW S, NEW xs \in Seq(S), NEW cap \in Nat
  PROVE  VecPushAll(xs, cap) \in Seq(S)
  <1>1. CASE Alloc \/ Len(xs) <= cap
    BY <1>1, PushAllThatFits
  <1>2. CASE ~ (Alloc \/ Len(xs) <= cap)
    <2>1. VecPushAll(xs, cap) = SubSeq(xs, 1, cap)
      BY <1>2 DEF VecPushAll
    <2>2. Len(xs) \in Nat /\ cap <= Len(xs)
      BY <1>2, LenProperties
    <2>3. \A i \in 1 .. cap : xs[i] \in S
      BY <2>2, ElementOfSeq
    <2>4. QED
      BY <2>1, <2>3, SubSeqProperties
  <1>3. QED
    BY <1>1, <1>2

\* All that a server asks for are pointers, in class IN.
LEMMA QuestionsTyped ==
  ASSUME NEW S, NEW svcs \in Seq(S), NEW T, NEW targets \in Seq(T),
         NEW local, NEW id, QLEN \in Nat,
         NEW queries, queries = DoQuery(svcs, targets, local, id).msg.queries
  PROVE  /\ queries \in Seq(Range(queries))
         /\ \A q \in Range(queries) : q.qtype = "PTR" /\ q.qclass = "IN"
  <1> DEFINE here == Hosted(svcs, local)
             there == Targeting(targets, local)
             a == [i \in DOMAIN here |-> here[i].service_type]
             b == [i \in DOMAIN there |-> there[i].service_type]
             names == a \o b
             questions == [i \in DOMAIN names |-> PtrQuery(names[i])]
             Q == {PtrQuery(x) : x \in Range(names)}
  <1>1. queries = VecPushAll(questions, QLEN)
    BY DEF DoQuery, Packet, Request
  <1>2. here \in Seq(S) /\ there \in Seq(T)
    BY HostedProperties, TargetingProperties
  <1> HIDE DEF here, there
  <1>3. /\ DOMAIN here = 1 .. Len(here) /\ Len(here) \in Nat
        /\ DOMAIN there = 1 .. Len(there) /\ Len(there) \in Nat
    BY <1>2, LenProperties
  <1>4. a \in Seq(Range(a))
    <2>1. a \in [1 .. Len(here) -> Range(a)]
      BY <1>3 DEF Range
    <2> HIDE DEF a
    <2>2. QED
      BY <1>3, <2>1, SeqDef
  <1>5. b \in Seq(Range(b))
    <2>1. b \in [1 .. Len(there) -> Range(b)]
      BY <1>3 DEF Range
    <2> HIDE DEF b
    <2>2. QED
      BY <1>3, <2>1, SeqDef
  <1> HIDE DEF a, b
  <1>6. names \in Seq(Range(a) \cup Range(b))
    <2>1. a \in Seq(Range(a) \cup Range(b)) /\ b \in Seq(Range(a) \cup Range(b))
      BY <1>4, <1>5, SeqMonotonic
    <2>2. QED
      BY <2>1, ConcatProperties
  <1> HIDE DEF names
  <1>7. DOMAIN names = 1 .. Len(names) /\ Len(names) \in Nat
    BY <1>6, LenProperties
  <1>8. questions \in Seq(Q)
    <2>1. questions \in [1 .. Len(names) -> Q]
      BY <1>7 DEF Range
    <2> HIDE DEF questions, Q
    <2>2. QED
      BY <1>7, <2>1, SeqDef
  <1>9. \A q \in Q : q.qtype = "PTR" /\ q.qclass = "IN"
    BY DEF PtrQuery
  <1> HIDE DEF questions, Q
  <1>10. queries \in Seq(Q)
    BY <1>1, <1>8, PushAllTyped
  <1>11. QED
    BY <1>9, <1>10, SeqOfRange, RangeOfSeq

-----------------------------------------------------------------------------
(* The answers to a request                                                *)

\* The services that some of these queries ask for, and all they answer.
AskedFor(svcs, queries, from) ==
  {j \in DOMAIN svcs : \E i \in DOMAIN queries : Asks(queries[i], svcs[j], from)}

Offered(svcs, queries, from) ==
  UNION {Range(AsAnswers(svcs[j], queries[1].qclass)) :
           j \in AskedFor(svcs, queries, from)}

\* What handle_request answers is what the services that are asked for have
\* to say, each answer once, and all of it if answers has room.
LEMMA AnswersToProperties ==
  ASSUME NEW S, NEW T, NEW svcs \in Seq(S), NEW queries \in Seq(T), NEW from,
         ALEN \in Nat
  PROVE  LET answers == AnswersTo(svcs, queries, from)
             offered == Offered(svcs, queries, from)
         IN  /\ answers \in Seq(offered)
             /\ IsInjective(answers)
             /\ ExtendFits(Cardinality(offered), ALEN) => Range(answers) = offered
             /\ (Alloc \/ ALEN > 0) /\ offered # {} => answers # <<>>
  <1> DEFINE qclass == queries[1].qclass
             as(j) == AsAnswers(svcs[j], qclass)
             A == UNION {Range(as(j)) : j \in DOMAIN svcs}
             parts(q) == [j \in DOMAIN svcs |-> IF Asks(q, svcs[j], from)
                                                THEN as(j) ELSE <<>>]
             alls == [i \in DOMAIN queries |-> FlattenSeq(parts(queries[i]))]
             all == FlattenSeq(alls)
  <1>1. /\ DOMAIN svcs = 1 .. Len(svcs) /\ Len(svcs) \in Nat
        /\ DOMAIN queries = 1 .. Len(queries) /\ Len(queries) \in Nat
    BY LenProperties
  <1>2. AnswersTo(svcs, queries, from) = PushAllNew(all, ALEN)
    BY Zenon DEF AnswersTo
  <1>3. \A j \in DOMAIN svcs : as(j) \in Seq(A)
    <2> TAKE j \in DOMAIN svcs
    <2>1. as(j) \in Seq(Range(as(j)))
      BY FourAnswers
    <2>2. Range(as(j)) \subseteq A
      OBVIOUS
    <2> HIDE DEF as, A
    <2>3. QED
      BY <2>1, <2>2, SeqMonotonic
  <1> HIDE DEF as, A
  <1>4. ASSUME NEW q
        PROVE  /\ parts(q) \in Seq(Seq(A))
               /\ DOMAIN parts(q) = DOMAIN svcs
               /\ FlattenSeq(parts(q)) \in Seq(A)
               /\ Range(FlattenSeq(parts(q))) =
                    UNION {Range(as(j)) : j \in {k \in DOMAIN svcs : Asks(q, svcs[k], from)}}
    <2>1. <<>> \in Seq(A) /\ Range(<<>>) = {}
      <3>1. DOMAIN <<>> = {}
        BY EmptySeq, LenProperties
      <3>2. QED
        BY <3>1, EmptySeq DEF Range
    <2>2. parts(q) \in [1 .. Len(svcs) -> Seq(A)]
      BY <1>1, <1>3, <2>1
    <2>3. parts(q) \in Seq(Seq(A))
      <3> HIDE DEF parts
      <3>1. QED
        BY <1>1, <2>2, SeqDef
    <2>4. \A j \in DOMAIN svcs :
            Range(parts(q)[j]) = IF Asks(q, svcs[j], from) THEN Range(as(j)) ELSE {}
      BY <2>1
    <2>5. DOMAIN parts(q) = DOMAIN svcs
      OBVIOUS
    <2> HIDE DEF parts
    <2>6. /\ FlattenSeq(parts(q)) \in Seq(A)
          /\ Range(FlattenSeq(parts(q)))
               = UNION {Range(parts(q)[j]) : j \in DOMAIN parts(q)}
      BY <2>3, FlattenProperties
    <2>7. UNION {Range(parts(q)[j]) : j \in DOMAIN svcs}
            = UNION {Range(as(j)) : j \in {k \in DOMAIN svcs : Asks(q, svcs[k], from)}}
      BY <2>4
    <2>8. QED
      BY <2>3, <2>5, <2>6, <2>7
  <1> HIDE DEF parts
  <1>5. alls \in Seq(Seq(A)) /\ DOMAIN alls = DOMAIN queries
    <2>1. alls \in [1 .. Len(queries) -> Seq(A)]
      BY <1>1, <1>4
    <2>2. DOMAIN alls = DOMAIN queries
      OBVIOUS
    <2> HIDE DEF alls
    <2>3. QED
      BY <1>1, <2>1, <2>2, SeqDef
  <1>6. \A i \in DOMAIN queries :
          Range(alls[i]) = UNION {Range(as(j)) :
                             j \in {k \in DOMAIN svcs : Asks(queries[i], svcs[k], from)}}
    BY <1>4
  <1> HIDE DEF alls
  <1>7. /\ all \in Seq(A)
        /\ Range(all) = UNION {Range(alls[i]) : i \in DOMAIN alls}
    BY <1>5, FlattenProperties
  <1> HIDE DEF all
  <1>8. Range(all) = Offered(svcs, queries, from)
    BY <1>5, <1>6, <1>7 DEF Offered, AskedFor, as
  <1> DEFINE answers == AnswersTo(svcs, queries, from)
  <1>9. /\ answers \in Seq(A)
        /\ IsInjective(answers)
        /\ Range(answers) \subseteq Range(all)
        /\ ExtendFits(Cardinality(Range(all)), ALEN) => Range(answers) = Range(all)
        /\ (Alloc \/ ALEN > 0) /\ all # <<>> => answers # <<>>
    BY <1>2, <1>7, PushAllNewProperties
  <1> HIDE DEF answers
  <1>10. answers \in Seq(Range(all))
    BY <1>9, SeqOverRange
  <1>11. Range(all) # {} => all # <<>>
    <2>1. DOMAIN <<>> = {}
      BY EmptySeq, LenProperties
    <2>2. QED
      BY <2>1 DEF Range
  <1>12. QED
    BY <1>8, <1>9, <1>10, <1>11 DEF answers

\* Four answers for each service are all there is to offer.
LEMMA OfferedFits ==
  ASSUME NEW S, NEW svcs \in Seq(S), NEW queries, NEW from, ALEN \in Nat,
         ExtendFits(AnswersPerService * Len(svcs), ALEN)
  PROVE  ExtendFits(Cardinality(Offered(svcs, queries, from)), ALEN)
  <1> DEFINE n == Len(svcs)
             D == (1 .. n) \X (1 .. 4)
             told(d) == AsAnswers(svcs[d[1]], queries[1].qclass)[d[2]]
             h == [d \in D |-> told(d)]
  <1>1. n \in Nat /\ DOMAIN svcs = 1 .. n
    BY LenProperties
  <1>2. /\ IsFiniteSet(1 .. n) /\ Cardinality(1 .. n) = n
        /\ IsFiniteSet(1 .. 4) /\ Cardinality(1 .. 4) = 4
    <2>1. ASSUME NEW m \in Nat
          PROVE  IsFiniteSet(1 .. m) /\ Cardinality(1 .. m) = m
      <3>1. /\ IsFiniteSet(1 .. m)
            /\ Cardinality(1 .. m) = IF 1 > m THEN 0 ELSE m - 1 + 1
        BY FS_Interval
      <3>2. QED
        BY <3>1
    <2>2. PICK four \in Nat : four = 4
      OBVIOUS
    <2>3. IsFiniteSet(1 .. four) /\ Cardinality(1 .. four) = four
      BY <2>1
    <2> HIDE DEF n
    <2>4. IsFiniteSet(1 .. n) /\ Cardinality(1 .. n) = n
      BY <1>1, <2>1
    <2>5. QED
      BY <2>2, <2>3, <2>4
  <1>3. IsFiniteSet(D) /\ Cardinality(D) = n * 4
    <2> DEFINE P == 1 .. n
               Q == 1 .. 4
    <2>1. /\ IsFiniteSet(P) /\ Cardinality(P) = n
          /\ IsFiniteSet(Q) /\ Cardinality(Q) = 4
      BY <1>2
    <2>2. D = P \X Q
      OBVIOUS
    <2> HIDE DEF P, Q, D
    <2>3. IsFiniteSet(P \X Q) /\ Cardinality(P \X Q) = Cardinality(P) * Cardinality(Q)
      BY <2>1, FS_Product
    <2>4. QED
      BY <2>1, <2>2, <2>3
  <1>4. h \in Surjection(D, Range(h))
    <2>1. h \in [D -> {told(d) : d \in D}]
      OBVIOUS
    <2> HIDE DEF h, D
    <2>2. QED
      BY <2>1, Fun_RangeProperties
  <1>5. IsFiniteSet(Range(h)) /\ Cardinality(Range(h)) <= Cardinality(D)
    <2> HIDE DEF h, D
    <2>1. QED
      BY <1>3, <1>4, FS_Surjection
  <1>6. Offered(svcs, queries, from) \subseteq Range(h)
    <2> SUFFICES ASSUME NEW a \in Offered(svcs, queries, from) PROVE a \in Range(h)
      OBVIOUS
    <2>1. PICK j \in DOMAIN svcs : a \in Range(AsAnswers(svcs[j], queries[1].qclass))
      BY DEF Offered, AskedFor
    <2>2. DOMAIN AsAnswers(svcs[j], queries[1].qclass) = 1 .. 4
      BY FourAnswers, LenProperties
    <2>3. PICK k \in 1 .. 4 : a = AsAnswers(svcs[j], queries[1].qclass)[k]
      BY <2>1, <2>2 DEF Range
    <2>4. << j, k >> \in D /\ a = told(<< j, k >>)
      BY <1>1, <2>3
    <2>5. QED
      BY <2>4 DEF Range
  <1> HIDE DEF h, D
  <1>7. /\ IsFiniteSet(Offered(svcs, queries, from))
        /\ Cardinality(Offered(svcs, queries, from)) <= Cardinality(Range(h))
    BY <1>5, <1>6, FS_Subset
  <1>8. /\ Cardinality(Offered(svcs, queries, from)) \in Nat
        /\ Cardinality(Range(h)) \in Nat
    BY <1>5, <1>7, FS_CardinalityType
  <1>9. QED
    BY <1>1, <1>3, <1>5, <1>7, <1>8 DEF ExtendFits, AnswersPerService

-----------------------------------------------------------------------------
(* The services in a response                                              *)

\* The service that a PTR, an SRV and an address answer describe.
ServiceOf(ptr, srv, ip) ==
  [ service_type  |-> ptr.name,
    instance_name |-> ptr.rec.name,
    hostname      |-> srv.rec.target,
    ip_address    |-> ip.rec.address,
    netmask       |-> NetmaskFull(ip.rec.address.fam),
    port          |-> srv.rec.port ]

\* Three answers of a response that belong to each other.
Matched(answers, ptr, srv, ip) ==
  /\ {ptr, srv, ip} \subseteq Range(answers)
  /\ ptr.rec.type = "PTR" /\ srv.rec.type = "SRV" /\ ip.rec.type \in {"A", "AAAA"}
  /\ ptr.rec.name = srv.name /\ srv.rec.target = ip.name

\* What the three steps make of a PTR answer.
MergedStub(answers, ptr) == MergeAddress(MergeSrv(PtrStub(ptr), answers), answers)

\* The last of the answers that carry a name is one of them.
LEMMA LastMention ==
  ASSUME NEW S, NEW answers \in Seq(S), NEW types, NEW name,
         Mentions(answers, types, name) # {}
  PROVE  LET last == answers[Max(Mentions(answers, types, name))]
         IN  last \in Range(answers) /\ last.rec.type \in types /\ last.name = name
  <1> DEFINE hits == Mentions(answers, types, name)
  <1>1. Len(answers) \in Nat /\ DOMAIN answers = 1 .. Len(answers)
    BY LenProperties
  <1>2. \A i \in hits : /\ i \in DOMAIN answers
                        /\ answers[i].rec.type \in types /\ answers[i].name = name
    BY DEF Mentions
  <1>3. hits # {}
    OBVIOUS
  <1> HIDE DEF hits
  <1>4. hits \subseteq 1 .. Len(answers)
    BY <1>1, <1>2
  <1>5. Max(hits) \in hits
    BY <1>1, <1>3, <1>4, MaxOfBounded
  <1>6. QED
    BY <1>2, <1>5 DEF Range, hits

\* A stub that ends up complete is put together from matching answers.
LEMMA CompleteIsMatched ==
  ASSUME NEW S, NEW answers \in Seq(S), NEW ptr \in Range(answers),
         ptr.rec.type = "PTR", IsComplete(MergedStub(answers, ptr))
  PROVE  \E srv, ip : /\ Matched(answers, ptr, srv, ip)
                      /\ MergedStub(answers, ptr) = ServiceOf(ptr, srv, ip)
  <1> DEFINE stub == PtrStub(ptr)
             srvs == Mentions(answers, {"SRV"}, stub.instance_name)
             srv  == answers[Max(srvs)]
             half == MergeSrv(stub, answers)
             ips  == Mentions(answers, {"A", "AAAA"}, half.hostname)
             ip   == answers[Max(ips)]
  <1>1. srvs # {}
    <2> SUFFICES ASSUME srvs = {} PROVE FALSE
      OBVIOUS
    <2>1. half = stub
      BY DEF MergeSrv
    <2>2. DOMAIN stub = {"service_type", "instance_name", "hostname",
                         "ip_address", "netmask", "port"}
          /\ stub.hostname = <<>>
      BY DEF PtrStub
    <2>3. MergedStub(answers, ptr) = MergeAddress(stub, answers)
      BY <2>1 DEF MergedStub
    <2> HIDE DEF stub
    <2>4. MergeAddress(stub, answers).hostname = <<>>
      BY <2>2 DEF MergeAddress
    <2>5. QED
      BY <2>3, <2>4 DEF IsComplete
  <1>2. half = [ service_type  |-> ptr.name,
                 instance_name |-> ptr.rec.name,
                 hostname      |-> srv.rec.target,
                 ip_address    |-> DefaultAddr,
                 netmask       |-> DefaultAddr,
                 port          |-> srv.rec.port ]
    BY <1>1 DEF MergeSrv, PtrStub
  <1>3. ips # {}
    <2> SUFFICES ASSUME ips = {} PROVE FALSE
      OBVIOUS
    <2>1. MergedStub(answers, ptr) = half
      BY DEF MergedStub, MergeAddress
    <2>2. QED
      BY <1>2, <2>1 DEF IsComplete
  <1>4. MergedStub(answers, ptr)
          = [half EXCEPT !.ip_address = ip.rec.address,
                         !.netmask = NetmaskFull(ip.rec.address.fam)]
    BY <1>3 DEF MergedStub, MergeAddress
  <1>5. srv \in Range(answers) /\ srv.rec.type = "SRV" /\ srv.name = ptr.rec.name
    <2>1. srv \in Range(answers) /\ srv.rec.type \in {"SRV"}
          /\ srv.name = stub.instance_name
      BY <1>1, LastMention
    <2>2. QED
      BY <2>1 DEF PtrStub
  <1>6. ip \in Range(answers) /\ ip.rec.type \in {"A", "AAAA"} /\ ip.name = half.hostname
    BY <1>3, LastMention
  <1> HIDE DEF stub, srvs, srv, half, ips, ip
  <1>7. MergedStub(answers, ptr) = ServiceOf(ptr, srv, ip)
    BY <1>2, <1>4 DEF ServiceOf
  <1>8. Matched(answers, ptr, srv, ip)
    BY <1>2, <1>5, <1>6 DEF Matched
  <1>9. QED
    BY <1>7, <1>8

\* The PTR answers of a response.
PtrAnswers(answers) == {a \in Range(answers) : a.rec.type = "PTR"}

\* Every PTR answer has a stub if there is room, and nothing else has one.
LEMMA PtrStubsProperties ==
  ASSUME NEW S, NEW answers \in Seq(S), SLEN \in Nat
  PROVE  LET stubs == PtrStubs(answers)
             wanted == {PtrStub(a) : a \in PtrAnswers(answers)}
         IN  /\ stubs \in Seq(wanted)
             /\ Alloc \/ Len(answers) <= SLEN => Range(stubs) = wanted
  <1> DEFINE keep == {i \in DOMAIN answers : answers[i].rec.type = "PTR"}
             ptrs == Retain(answers, keep)
             all  == [i \in DOMAIN ptrs |-> PtrStub(ptrs[i])]
             wanted == {PtrStub(a) : a \in PtrAnswers(answers)}
  <1>1. /\ ptrs \in Seq(S) /\ Len(ptrs) <= Len(answers)
        /\ Range(ptrs) = {answers[i] : i \in DOMAIN answers \cap keep}
    <2> HIDE DEF keep
    <2>1. QED
      BY RetainProperties
  <1>2. Range(ptrs) = PtrAnswers(answers)
    <2>1. {answers[i] : i \in DOMAIN answers \cap keep} = PtrAnswers(answers)
      BY DEF PtrAnswers, Range
    <2>2. QED
      BY <1>1, <2>1
  <1>3. PtrStubs(answers) = VecPushAll(all, SLEN)
    BY DEF PtrStubs
  <1> HIDE DEF ptrs
  <1>4. /\ Len(ptrs) \in Nat /\ DOMAIN ptrs = 1 .. Len(ptrs)
        /\ Len(answers) \in Nat
    BY <1>1, LenProperties
  <1>5. \A i \in 1 .. Len(ptrs) : PtrStub(ptrs[i]) \in wanted
    BY <1>2, <1>4 DEF Range
  <1>6. all \in [1 .. Len(ptrs) -> wanted]
    BY <1>4, <1>5
  <1>7. all \in Seq(wanted)
    BY <1>4, <1>6, SeqDef
  <1>8. Range(all) = wanted
    <2>1. DOMAIN all = DOMAIN ptrs /\ \A i \in DOMAIN ptrs : all[i] = PtrStub(ptrs[i])
      OBVIOUS
    <2> HIDE DEF all
    <2>2. QED
      BY <1>2, <2>1 DEF Range
  <1>9. Len(all) = Len(ptrs)
    BY <1>4, <1>6, <1>7, LenProperties
  <1> HIDE DEF all, wanted
  <1>10. CASE Alloc \/ Len(all) <= SLEN
    <2>1. PtrStubs(answers) = all
      BY <1>3, <1>10 DEF VecPushAll
    <2>2. QED
      BY <1>7, <1>8, <2>1 DEF wanted
  <1>11. CASE ~ (Alloc \/ Len(all) <= SLEN)
    <2>1. PtrStubs(answers) \in Seq(wanted)
      BY <1>3, <1>7, PushAllTyped
    <2>2. ~ (Alloc \/ Len(answers) <= SLEN)
      BY <1>1, <1>4, <1>9, <1>11
    <2>3. QED
      BY <2>1, <2>2 DEF wanted
  <1>12. QED
    BY <1>10, <1>11

\* What from_answers finds.
Found(answers) ==
  {s \in {MergedStub(answers, a) : a \in PtrAnswers(answers)} : IsComplete(s)}

\* from_answers finds what is complete, and misses none of it if there is
\* room for every stub.
LEMMA FromAnswersProperties ==
  ASSUME NEW S, NEW answers \in Seq(S), SLEN \in Nat
  PROVE  /\ FromAnswers(answers) \in Seq(Found(answers))
         /\ Alloc \/ Len(answers) <= SLEN =>
              Range(FromAnswers(answers)) = Found(answers)
  <1> DEFINE stubs  == PtrStubs(answers)
             wanted == {PtrStub(a) : a \in PtrAnswers(answers)}
             done(s) == MergeAddress(MergeSrv(s, answers), answers)
             merged == [i \in DOMAIN stubs |-> done(stubs[i])]
             keep   == {i \in DOMAIN merged : IsComplete(merged[i])}
             all    == {MergedStub(answers, a) : a \in PtrAnswers(answers)}
             fits   == Alloc \/ Len(answers) <= SLEN
  <1>1. stubs \in Seq(wanted) /\ (fits => Range(stubs) = wanted)
    BY PtrStubsProperties
  <1>2. FromAnswers(answers) = Retain(merged, keep)
    BY DEF FromAnswers
  <1>3. \A s \in wanted : done(s) \in all
    BY DEF MergedStub
  <1>4. \A m \in all : \E s \in wanted : m = done(s)
    BY DEF MergedStub
  <1>5. Found(answers) = {m \in all : IsComplete(m)}
    BY DEF Found
  <1> HIDE DEF stubs, wanted, all, fits, done
  <1>6. Len(stubs) \in Nat /\ DOMAIN stubs = 1 .. Len(stubs)
    BY <1>1, LenProperties
  <1>7. \A i \in 1 .. Len(stubs) : stubs[i] \in wanted
    BY <1>1, <1>6, ElementOfSeq
  <1>8. merged \in [1 .. Len(stubs) -> all]
    BY <1>3, <1>6, <1>7
  <1>9. merged \in Seq(all)
    BY <1>6, <1>8, SeqDef
  <1>10. DOMAIN merged = DOMAIN stubs /\ \A i \in DOMAIN stubs : merged[i] = done(stubs[i])
    OBVIOUS
  <1>11. \A i \in DOMAIN merged : merged[i] \in all
    BY <1>3, <1>6, <1>7, <1>10
  <1>12. keep \subseteq DOMAIN merged /\ \A i \in DOMAIN merged : i \in keep <=> IsComplete(merged[i])
    OBVIOUS
  <1> HIDE DEF merged, keep
  <1>13. /\ Retain(merged, keep) \in Seq(all)
         /\ Range(Retain(merged, keep)) = {merged[i] : i \in DOMAIN merged \cap keep}
    BY <1>9, RetainProperties
  <1>14. {merged[i] : i \in DOMAIN merged \cap keep} \subseteq Found(answers)
    BY <1>5, <1>11, <1>12
  <1>15. FromAnswers(answers) \in Seq(Found(answers))
    BY <1>2, <1>13, <1>14, SeqOverRange
  <1>16. ASSUME fits
         PROVE  Found(answers) \subseteq {merged[i] : i \in DOMAIN merged \cap keep}
    <2> SUFFICES ASSUME NEW m \in Found(answers)
                 PROVE  \E i \in DOMAIN merged \cap keep : m = merged[i]
      OBVIOUS
    <2>1. PICK s \in wanted : m = done(s) /\ IsComplete(m)
      BY <1>4, <1>5
    <2>2. PICK i \in DOMAIN stubs : stubs[i] = s
      BY <1>1, <1>16 DEF Range
    <2>3. QED
      BY <1>10, <1>12, <2>1, <2>2
  <1>17. fits => Range(FromAnswers(answers)) = Found(answers)
    BY <1>2, <1>13, <1>14, <1>16
  <1>18. QED
    BY <1>15, <1>17 DEF fits

\* What is reported was found, and is of interest.
LEMMA ReportedIsFound ==
  ASSUME NEW svcs, NEW targets, NEW poll, NEW response,
         response.answers \in Seq(Range(response.answers)), SLEN \in Nat,
         NEW output, output = HandleResponse(svcs, targets, poll, response),
         output.kind = "remote"
  PROVE  /\ output = Remote(output.service)
         /\ output.service \in Found(response.answers)
         /\ IsMatchingService(output.service, svcs, targets)
  <1> DEFINE answers == response.answers
             found   == FromAnswers(answers)
             keep    == {i \in DOMAIN found : IsMatchingService(found[i], svcs, targets)}
             matches == Retain(found, keep)
  <1>1. matches # <<>> /\ output = Remote(Head(matches))
    BY DEF HandleResponse, TimeoutAt
  <1>2. found \in Seq(Found(answers))
    BY FromAnswersProperties
  <1> HIDE DEF found
  <1>3. \A i \in DOMAIN found \cap keep : IsMatchingService(found[i], svcs, targets)
    OBVIOUS
  <1> HIDE DEF keep
  <1>4. /\ matches \in Seq(Found(answers))
        /\ Range(matches) = {found[i] : i \in DOMAIN found \cap keep}
    BY <1>2, RetainProperties
  <1> HIDE DEF matches
  <1>5. Head(matches) \in Range(matches)
    <2>1. matches \in Seq(Range(matches))
      BY <1>4, SeqOfRange
    <2>2. QED
      BY <1>1, <2>1, HeadTailProperties
  <1>6. Range(matches) \subseteq Found(answers)
    BY <1>4, RangeOfSeq
  <1>7. QED
    BY <1>1, <1>3, <1>4, <1>5, <1>6 DEF Remote
=============================================================================
