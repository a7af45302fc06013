---------------------------- MODULE ServerProofs ----------------------------
(***************************************************************************)
(* What holds of the server for every declaration, every capacity and      *)
(* every value of its periods.  The inductive invariant is TypeOK with     *)
(* InterfacesAreDistinct and Bookkeeping: an index stays inside local_ips  *)
(* because local_ips only grows, and an interface that is served is never  *)
(* moved because it only grows at its end.                                 *)
(*                                                                         *)
(* The server implements PeriodicRound twice, as its advertising and as    *)
(* its querying: the interfaces a round has served are the prefix of       *)
(* local_ips below the index.  That is right because local_ips holds no    *)
(* interface twice and only grows at its end, both part of IndInv.         *)
(* From the same prefix follows what the packets of a round have said when *)
(* it ends.                                                                *)
(***************************************************************************)
EXTENDS ServerRounds, HandlerProofs

-----------------------------------------------------------------------------
(* Operators of the community modules                                      *)

\* The smaller of two numbers.
LEMMA MinOfTwo ==
  ASSUME NEW a \in Nat, NEW b \in Nat
  PROVE  Min({a, b}) \in {a, b} /\ Min({a, b}) <= a /\ Min({a, b}) <= b
  BY MinOfNats

\* poll_timeout returns a time.
LEMMA PollTimeoutType ==
  TypeOK => PollTimeout \in Nat
  BY MinOfTwo DEF TypeOK, PollTimeout

-----------------------------------------------------------------------------
(* The vectors query pushes to                                             *)

\* A push keeps the elements where they are.
LEMMA AddLocalIpGrows ==
  ASSUME NEW S, NEW ips \in Seq(S), NEW ip \in S,
         NEW new, new = AddLocalIp(ips, ip)
  PROVE  /\ new \in Seq(S)
         /\ Len(ips) <= Len(new)
         /\ Range(new) \in {Range(ips), Range(ips) \cup {ip}}
         /\ IsInjective(ips) => IsInjective(new)
  BY PushNewProperties DEF AddLocalIp

\* A push keeps what is there.
LEMMA AddLocalIpKeeps ==
  ASSUME NEW S, NEW ips \in Seq(S), NEW ip \in S, NEW k \in 1 .. Len(ips)
  PROVE  AddLocalIp(ips, ip)[k] = ips[k]
  BY PushNewProperties DEF AddLocalIp

\* query() stores query targets.
LEMMA AddQueryTargetType ==
  ASSUME NEW S, NEW targets \in Seq(S), NEW q \in S
  PROVE  AddQueryTarget(targets, q) \in Seq(S)
  BY PushNewProperties DEF AddQueryTarget

-----------------------------------------------------------------------------
(* The inductive invariant                                                 *)

IndInv == TypeOK /\ InterfacesAreDistinct /\ Bookkeeping

\* What new leaves in local_ips has no interface twice.
LEMMA LocalIpsOfAreDistinct ==
  ASSUME NEW svcs \in Seq(Services), NEW ips \in Seq(Interfaces),
         AreLocalIpsOf(ips, svcs)
  PROVE  IsInjective(ips)
  <1> DEFINE first(ip) == Min(HostedAt(svcs, ip))
  <1>1. DOMAIN svcs \subseteq Nat /\ DOMAIN ips = 1 .. Len(ips) /\ Len(ips) \in Nat
    BY LenProperties
  <1>2. \A i \in DOMAIN ips : first(ips[i]) \in Nat
    <2> TAKE i \in DOMAIN ips
    <2>1. ips[i] \in DeclaredInterfaces(svcs)
      BY DEF AreLocalIpsOf, Range
    <2>2. PICK j \in DOMAIN svcs : LocalIp(svcs[j]) = ips[i]
      BY <2>1 DEF DeclaredInterfaces
    <2>3. HostedAt(svcs, ips[i]) # {} /\ HostedAt(svcs, ips[i]) \subseteq Nat
      BY <2>2, <1>1 DEF HostedAt
    <2>4. QED
      BY <2>3, MinOfNats
  <1>3. \A i, j \in DOMAIN ips : i < j => first(ips[i]) < first(ips[j])
    BY DEF AreLocalIpsOf
  <1> HIDE DEF first
  <1>4. \A i, j \in DOMAIN ips : i < j => ips[i] # ips[j]
    BY <1>2, <1>3
  <1>5. QED
    BY <1>1, <1>4 DEF IsInjective

\* The invariant holds of a new server,
LEMMA InitIndInv == Init => IndInv
  <1> SUFFICES ASSUME Init PROVE IndInv
    OBVIOUS
  <1> USE ServerAssumption
  <1>1. PICK n \in 0 .. Len(services) :
          /\ local_ips \in [1 .. n -> DeclaredInterfaces(services)]
          /\ AreLocalIpsOf(local_ips, services)
    BY DEF Init
  <1>2. services \in ServiceLists /\ services \in Seq(Services)
    BY DEF Init
  <1>3. DeclaredInterfaces(services) \subseteq Interfaces
    BY <1>2, ElementOfSeq, LenProperties DEF DeclaredInterfaces, Interfaces
  <1>4. n \in Nat /\ Len(services) \in Nat /\ DOMAIN services = 1 .. Len(services)
    BY <1>2, LenProperties
  <1>5. local_ips \in Seq(Interfaces) /\ Len(local_ips) = n
    BY <1>1, <1>3, <1>4, SeqDef, LenProperties
  <1>6. TypeOK
    BY <1>2, <1>5, EmptySeq DEF Init, TypeOK, NoOutput, Panic
  <1>7. InterfacesAreDistinct
    BY <1>1, <1>2, <1>5, LocalIpsOfAreDistinct DEF InterfacesAreDistinct, AreLocalIpsOf
  <1>8. local_ips = <<>> => services = <<>>
    <2> SUFFICES ASSUME local_ips = <<>>, services # <<>> PROVE FALSE
      OBVIOUS
    <2>1. 1 \in DOMAIN services
      BY <1>2, <1>4, EmptySeq
    <2>2. LocalIp(services[1]) \in Range(local_ips)
      BY <2>1, <1>7 DEF InterfacesAreDistinct, DeclaredInterfaces
    <2>3. QED
      BY <2>2 DEF Range
  <1>9. local_ips # <<>> => Len(local_ips) > 0
    BY <1>5, EmptySeq
  <1>10. Bookkeeping
    BY <1>5, <1>8, <1>9 DEF Init, Bookkeeping
  <1>11. QED
    BY <1>6, <1>7, <1>10 DEF IndInv

\* What handle returns is a variant of Output, or a panic.
LEMMA OutputKinds ==
  ASSUME NEW a, NEW b, NEW c, NEW d, NEW e, NEW f
  PROVE  /\ DoAdvertise(a, b).kind \in {"packet", "panic"}
         /\ DoQuery(a, b, c, d).kind = "packet"
         /\ HandleRequest(a, b, c, d, e, f).kind \in {"timeout", "packet", "panic"}
         /\ HandleResponse(a, b, c, d).kind \in {"timeout", "remote"}
  <1>1. DoAdvertise(a, b).kind \in {"packet", "panic"}
    BY DEF DoAdvertise, Packet, Panic
  <1>2. DoQuery(a, b, c, d).kind = "packet"
    BY DEF DoQuery, Packet
  <1>3. HandleRequest(a, b, c, d, e, f).kind \in {"timeout", "packet", "panic"}
    BY DEF HandleRequest, Packet, Panic, TimeoutAt
  <1>4. HandleResponse(a, b, c, d).kind \in {"timeout", "remote"}
    BY DEF HandleResponse, Remote, TimeoutAt
  <1>5. QED
    BY <1>1, <1>2, <1>3, <1>4

\* The index of a round moves within its bounds.
LEMMA NextIdxInBounds ==
  ASSUME Len(local_ips) \in Nat, NEW idx \in Nat, idx < Len(local_ips)
  PROVE  NextIdx(idx) \in Nat /\ NextIdx(idx) < Len(local_ips)
  <1> DEFINE n == Len(local_ips)
  <1>1. NextIdx(idx) = IF idx + 1 = n THEN 0 ELSE idx + 1
    BY DEF NextIdx, RoundOver
  <1>2. n \in Nat /\ idx < n
    OBVIOUS
  <1> HIDE DEF n
  <1>3. NextIdx(idx) \in Nat /\ NextIdx(idx) < n
    BY <1>1, <1>2
  <1>4. QED
    BY <1>3 DEF n

\* A round has an interface to serve whenever one of its packets is due.
LEMMA DueInBounds ==
  ASSUME IndInv, NEW now \in Later
  PROVE  /\ now \in Nat /\ now <= MaxNow
         /\ Len(local_ips) \in Nat
         /\ AdvertiseDue(now) => next_advertise_idx < Len(local_ips)
         /\ QueryDue(now) => next_query_idx < Len(local_ips)
  <1> USE ServerAssumption
  <1>1. now \in Nat /\ now <= MaxNow /\ Len(local_ips) \in Nat
    BY LenProperties DEF IndInv, TypeOK, Later
  <1>2. services # <<>> => local_ips # <<>>
    <2> SUFFICES ASSUME services # <<>>, local_ips = <<>> PROVE FALSE
      OBVIOUS
    <2>1. 1 \in DOMAIN services
      BY EmptySeq, LenProperties DEF IndInv, TypeOK
    <2>2. LocalIp(services[1]) \in Range(local_ips)
      BY <2>1 DEF IndInv, InterfacesAreDistinct, DeclaredInterfaces
    <2>3. QED
      BY <2>2 DEF Range
  <1>3. QED
    BY <1>1, <1>2 DEF IndInv, Bookkeeping, AdvertiseDue, QueryDue

\* after a call of query,
LEMMA QueryIndInv ==
  ASSUME IndInv, NEW q \in QueryArgs, Query(q)
  PROVE  IndInv'
  <1> USE ServerAssumption
  <1>1. q.local_ip \in Interfaces /\ local_ips \in Seq(Interfaces)
    BY DEF IndInv, TypeOK, Interfaces
  <1>2. /\ local_ips' \in Seq(Interfaces)
        /\ Len(local_ips) <= Len(local_ips')
        /\ Range(local_ips) \subseteq Range(local_ips')
        /\ IsInjective(local_ips')
    <2>1. local_ips' = AddLocalIp(local_ips, q.local_ip)
      BY DEF Query
    <2>2. IsInjective(local_ips)
      BY DEF IndInv, InterfacesAreDistinct
    <2>3. local_ips' \in Seq(Interfaces) /\ Len(local_ips) <= Len(local_ips')
      BY <1>1, <2>1, AddLocalIpGrows
    <2>4. Range(local_ips') \in {Range(local_ips), Range(local_ips) \cup {q.local_ip}}
      BY <1>1, <2>1, AddLocalIpGrows
    <2>5. IsInjective(local_ips')
      BY <1>1, <2>1, <2>2, AddLocalIpGrows
    <2>6. QED
      BY <2>3, <2>4, <2>5
  <1>3. /\ Len(local_ips) \in Nat /\ Len(local_ips') \in Nat
        /\ local_ips = <<>> <=> Len(local_ips) = 0
        /\ local_ips' = <<>> <=> Len(local_ips') = 0
    BY <1>1, <1>2, LenProperties, EmptySeq
  <1>4. local_ips' # <<>>
    <2>1. CASE local_ips # <<>>
      BY <2>1, <1>2, <1>3
    <2>2. CASE local_ips = <<>>
      <3>1. ~ Contains(local_ips, q.local_ip) /\ HasRoom(local_ips, SLEN)
        BY <2>2, <1>3 DEF Contains, HasRoom
      <3>2. local_ips' = Append(local_ips, q.local_ip)
        BY <3>1 DEF Query, AddLocalIp, PushNew, VecPush
      <3>3. QED
        BY <3>2, <1>1, AppendProperties
    <2>3. QED
      BY <2>1, <2>2
  <1>5. TypeOK'
    BY <1>2, AddQueryTargetType DEF IndInv, TypeOK, Query, Rearmed, NoOutput
  <1>6. InterfacesAreDistinct'
    BY <1>2 DEF IndInv, InterfacesAreDistinct, Query, DeclaredInterfaces
  <1>7. Bookkeeping'
    BY <1>2, <1>3, <1>4, <1>5 DEF IndInv, TypeOK, Bookkeeping, Query
  <1>8. QED
    BY <1>5, <1>6, <1>7 DEF IndInv

\* after an advertisement,
LEMMA AdvertiseIndInv ==
  ASSUME IndInv, NEW now \in Later, Advertise(now)
  PROVE  IndInv'
  <1> USE ServerAssumption
  <1>1. /\ now \in Nat /\ now <= MaxNow /\ now >= last_now
        /\ NextIdx(next_advertise_idx) \in Nat
        /\ NextIdx(next_advertise_idx) < Len(local_ips)
    BY DueInBounds, NextIdxInBounds DEF Advertise, IndInv, TypeOK, Later
  <1>2. next_advertise' \in Nat
    BY <1>1 DEF Advertise, NextDeadline, IndInv, TypeOK
  <1>3. output'.kind \in {"packet", "panic"}
    BY OutputKinds DEF Advertise, Panic
  <1>4. TypeOK'
    BY <1>1, <1>2, <1>3 DEF IndInv, TypeOK, Advertise, config
  <1>5. InterfacesAreDistinct'
    BY DEF IndInv, InterfacesAreDistinct, Advertise, config, DeclaredInterfaces
  <1>6. Bookkeeping'
    BY <1>1, EmptySeq DEF IndInv, Bookkeeping, Advertise, config, AdvertiseDue
  <1>7. QED
    BY <1>4, <1>5, <1>6 DEF IndInv

\* after a query,
LEMMA SendQueryIndInv ==
  ASSUME IndInv, NEW now \in Later, SendQuery(now)
  PROVE  IndInv'
  <1> USE ServerAssumption
  <1>1. /\ now \in Nat /\ now <= MaxNow /\ now >= last_now
        /\ NextIdx(next_query_idx) \in Nat
        /\ NextIdx(next_query_idx) < Len(local_ips)
    BY DueInBounds, NextIdxInBounds DEF SendQuery, IndInv, TypeOK, Later
  <1>2. next_query' \in Nat
    BY <1>1 DEF SendQuery, NextDeadline, IndInv, TypeOK
  <1>3. output'.kind \in {"packet", "panic"}
    BY OutputKinds DEF SendQuery, Panic
  <1>4. NextTxid \in 0 .. TxidMod - 1
    BY DEF NextTxid, IndInv, TypeOK
  <1>5. TypeOK'
    BY <1>1, <1>2, <1>3, <1>4 DEF IndInv, TypeOK, SendQuery, config
  <1>6. InterfacesAreDistinct'
    BY DEF IndInv, InterfacesAreDistinct, SendQuery, config, DeclaredInterfaces
  <1>7. Bookkeeping'
    BY <1>1, EmptySeq DEF IndInv, Bookkeeping, SendQuery, config, QueryDue
  <1>8. QED
    BY <1>5, <1>6, <1>7 DEF IndInv

\* after a timeout call that finds nothing to do,
LEMMA IdleIndInv ==
  ASSUME IndInv, NEW now \in Later, Idle(now)
  PROVE  IndInv'
  <1>1. now \in 0 .. MaxNow
    BY DueInBounds
  <1>2. TypeOK'
    BY <1>1 DEF IndInv, TypeOK, Idle, config, timers, TimeoutAt
  <1>3. QED
    BY <1>2 DEF IndInv, Idle, config, timers, InterfacesAreDistinct,
                Bookkeeping, DeclaredInterfaces

\* after a packet,
LEMMA HandlePacketIndInv ==
  ASSUME IndInv, NEW p \in Packets, HandlePacket(p)
  PROVE  IndInv'
  <1>1. output'.kind \in {"timeout", "packet", "panic", "remote"}
    BY OutputKinds DEF HandlePacket, TimeoutAt
  <1>2. TypeOK'
    BY <1>1 DEF IndInv, TypeOK, HandlePacket, config, timers
  <1>3. QED
    BY <1>2 DEF IndInv, HandlePacket, config, timers, InterfacesAreDistinct,
                Bookkeeping, DeclaredInterfaces

\* and so after every call.
LEMMA NextIndInv == IndInv /\ [Next]_vars => IndInv'
  <1> SUFFICES ASSUME IndInv, [Next]_vars PROVE IndInv'
    OBVIOUS
  <1>1. ASSUME NEW now \in Later, Advertise(now) PROVE IndInv'
    BY <1>1, AdvertiseIndInv
  <1>2. ASSUME NEW now \in Later, SendQuery(now) PROVE IndInv'
    BY <1>2, SendQueryIndInv
  <1>3. ASSUME NEW now \in Later, Idle(now) PROVE IndInv'
    BY <1>3, IdleIndInv
  <1>4. ASSUME NEW q \in QueryArgs, Query(q) PROVE IndInv'
    BY <1>4, QueryIndInv
  <1>5. ASSUME NEW p \in Packets, HandlePacket(p) PROVE IndInv'
    BY <1>5, HandlePacketIndInv
  <1>6. CASE UNCHANGED vars
    BY <1>6 DEF vars, IndInv, TypeOK, InterfacesAreDistinct, Bookkeeping,
                DeclaredInterfaces
  <1>7. QED
    BY <1>1, <1>2, <1>3, <1>4, <1>5, <1>6 DEF Next

\* The invariant of every call: what the theorems below follow from.
THEOREM Invariance == Spec => []IndInv
  <1>1. QED
    BY InitIndInv, NextIndInv, PTL DEF Spec

\* The types of the fields, and txids that wrap within u16.
THEOREM TypeCorrect == Spec => []TypeOK
  <1>1. IndInv => TypeOK
    BY DEF IndInv
  <1>2. QED
    BY Invariance, <1>1, PTL

\* A round visits no interface twice and no service is left out.
THEOREM DistinctInterfaces == Spec => []InterfacesAreDistinct
  <1>1. IndInv => InterfacesAreDistinct
    BY DEF IndInv
  <1>2. QED
    BY Invariance, <1>1, PTL

\* The indices stay inside local_ips; without interfaces nothing is due.
THEOREM IndicesInBounds == Spec => []Bookkeeping
  <1>1. IndInv => Bookkeeping
    BY DEF IndInv
  <1>2. QED
    BY Invariance, <1>1, PTL

-----------------------------------------------------------------------------
(* Timeouts                                                                *)

\* A duty that is not due has a deadline ahead, which poll_timeout returns.
LEMMA NothingDueBefore ==
  ASSUME IndInv, NEW now \in Later, ~ AdvertiseDue(now), ~ QueryDue(now)
  PROVE  PollTimeout > now
  <1> USE ServerAssumption
  <1>1. now \in Nat /\ now <= MaxNow
    BY DueInBounds
  <1>2. next_advertise \in Nat /\ next_query \in Nat
    BY DEF IndInv, TypeOK
  <1>3. next_query > now
    BY <1>1, <1>2 DEF QueryDue, IndInv, Bookkeeping
  <1>4. services # <<>> => next_advertise > now
    BY <1>1, <1>2 DEF AdvertiseDue
  <1>5. QED
    BY <1>1, <1>2, <1>3, <1>4, MinOfTwo DEF PollTimeout

\* An idle server never tells its program to come back at once.
THEOREM NoSpinning == Spec => IdleTimeoutInFuture
  <1>1. IndInv /\ [Next]_vars =>
          [(\E now \in Later : Idle(now)) => output'.at > last_now']_vars
    <2> SUFFICES ASSUME IndInv, NEW now \in Later, Idle(now)
                 PROVE  output'.at > last_now'
      OBVIOUS
    <2>1. PollTimeout > now
      BY NothingDueBefore DEF Idle
    <2>2. QED
      BY <2>1 DEF Idle, TimeoutAt
  <1>2. QED
    BY Invariance, <1>1, PTL DEF Spec, IdleTimeoutInFuture

-----------------------------------------------------------------------------
(* Query targets                                                           *)

\* local_ips has room for every interface there could be.
InterfacesFit ==
  Alloc \/ (IsFiniteSet(Interfaces) /\ Cardinality(Interfaces) <= SLEN)

\* Every registered target has an interface that is visited, with `alloc`
\* and in a heapless build with room for the interfaces.
THEOREM TargetsVisited == InterfacesFit => (Spec => []TargetsAreVisited)
  <1> SUFFICES ASSUME InterfacesFit PROVE Spec => []TargetsAreVisited
    OBVIOUS
  <1>1. Init => TargetsAreVisited
    BY DEF Init, TargetsAreVisited
  <1>2. ASSUME IndInv, TargetsAreVisited, [Next]_vars
        PROVE  TargetsAreVisited'
    <2>1. ASSUME NEW q \in QueryArgs, Query(q)
          PROVE  TargetsAreVisited'
      <3>1. /\ q.local_ip \in Interfaces /\ local_ips \in Seq(Interfaces)
            /\ query_targets \in Seq(QueryArgs)
        BY <1>2 DEF IndInv, TypeOK, Interfaces
      <3>2. Range(local_ips) \cup {q.local_ip} \subseteq Range(local_ips')
        <4>1. CASE Contains(local_ips, q.local_ip)
          BY <4>1, <3>1, <2>1, LenProperties DEF Contains, Query, AddLocalIp, PushNew, Range
        <4>2. CASE ~ Contains(local_ips, q.local_ip)
          <5>1. HasRoom(local_ips, SLEN)
            <6>1. q.local_ip \notin Range(local_ips) /\ Len(local_ips) \in Nat
              BY <4>2, <3>1, LenProperties DEF Contains, Range
            <6>2. IsInjective(local_ips) /\ SLEN \in Nat
              BY <1>2, ServerAssumption DEF IndInv, InterfacesAreDistinct
            <6>3. CASE Alloc
              BY <6>3 DEF HasRoom
            <6>4. CASE IsFiniteSet(Interfaces) /\ Cardinality(Interfaces) <= SLEN
              <7>1. Len(local_ips) < Cardinality(Interfaces)
                BY <3>1, <6>1, <6>2, <6>4, RoomForMore
              <7>2. Cardinality(Interfaces) \in Nat
                BY <6>4, FS_CardinalityType
              <7>3. QED
                BY <6>1, <6>2, <6>4, <7>1, <7>2 DEF HasRoom
            <6>5. QED
              BY <6>3, <6>4 DEF InterfacesFit
          <5>2. local_ips' = Append(local_ips, q.local_ip)
            BY <4>2, <5>1, <2>1 DEF Query, AddLocalIp, PushNew, VecPush
          <5>3. QED
            BY <5>2, <3>1, AppendProperties, LenProperties DEF Range
        <4>3. QED
          BY <4>1, <4>2
      <3>3. \A i \in DOMAIN query_targets' :
              query_targets'[i] \in Range(query_targets) \cup {q}
        <4>1. CASE query_targets' = query_targets
          BY <4>1 DEF Range
        <4>2. CASE query_targets' # query_targets
          <5>1. query_targets' = Append(query_targets, q)
            BY <4>2, <2>1 DEF Query, AddQueryTarget, PushNew, VecPush
          <5>2. QED
            BY <5>1, <3>1, AppendProperties, LenProperties DEF Range
        <4>3. QED
          BY <4>1, <4>2
      <3>4. \A t \in Range(query_targets) : t.local_ip \in Range(local_ips)
        BY <1>2 DEF TargetsAreVisited, Range
      <3>5. QED
        BY <3>2, <3>3, <3>4 DEF TargetsAreVisited
    <2>2. CASE UNCHANGED config
      BY <1>2, <2>2 DEF config, TargetsAreVisited
    <2>3. QED
      BY <1>2, <2>1, <2>2
      DEF Next, Advertise, SendQuery, Idle, HandlePacket, config, vars
  <1>3. QED
    BY <1>1, <1>2, Invariance, PTL DEF Spec

-----------------------------------------------------------------------------
(* Panics                                                                  *)

\* Every vector that is extended (not pushed to) has room for what it gets:
\* always with `alloc`; without, SLEN services and four answers for each
\* service of an interface.
CapacitiesFit ==
  \A svcs \in ServiceLists :
    /\ ExtendFits(Len(svcs), SLEN)
    /\ \A ip \in Interfaces :
         ExtendFits(AnswersPerService * Cardinality(HostedAt(svcs, ip)), ALEN)

\* The unwrap in handle_request: whoever is given an answer is on the network
\* of some interface.
LEMMA ReplyHasInterface ==
  ASSUME IndInv, NEW T, NEW queries \in Seq(T), NEW from,
         AnswersTo(services, queries, from) # <<>>
  PROVE  Reaching(local_ips, from) # {}
  <1> USE ServerAssumption
  <1>1. services \in Seq(Services)
    BY DEF IndInv, TypeOK
  <1>2. PICK i \in DOMAIN queries, j \in DOMAIN services :
          Asks(queries[i], services[j], from)
    <2>1. /\ AnswersTo(services, queries, from) \in Seq(Offered(services, queries, from))
      BY <1>1, AnswersToProperties
    <2>2. Offered(services, queries, from) # {}
      <3>1. Len(AnswersTo(services, queries, from)) \in Nat \ {0}
        BY <2>1, EmptySeq
      <3>2. AnswersTo(services, queries, from)[1] \in Offered(services, queries, from)
        BY <2>1, <3>1, ElementOfSeq
      <3>3. QED
        BY <3>2
    <2>3. QED
      BY <2>2 DEF Offered, AskedFor
  <1>3. LocalIp(services[j]) \in Range(local_ips)
    BY DEF IndInv, InterfacesAreDistinct, DeclaredInterfaces
  <1>4. PICK k \in DOMAIN local_ips : local_ips[k] = LocalIp(services[j])
    BY <1>3 DEF Range
  <1>5. k \in Reaching(local_ips, from)
    BY <1>2, <1>4 DEF Reaching, LocalIp, Asks
  <1>6. QED
    BY <1>5

\* No request makes handle_request panic.
LEMMA RequestDoesNotPanic ==
  ASSUME IndInv, NEW p \in Packets, p.data.kind = "request"
  PROVE  HandleRequest(services, local_ips, txid_query, PollTimeout,
                       p.data, p.from).kind # "panic"
  <1>1. p.data.queries \in Seq(Range(p.data.queries))
    BY PacketsAssumption
  <1>2. AnswersTo(services, p.data.queries, p.from) # <<>>
          => Reaching(local_ips, p.from) # {}
    BY <1>1, ReplyHasInterface
  <1>3. QED
    BY <1>2 DEF HandleRequest, TimeoutAt, Packet

\* No advertisement does, if the answers of an interface fit.
LEMMA AdvertiseDoesNotPanic ==
  ASSUME IndInv, CapacitiesFit, NEW now \in Later, Advertise(now)
  PROVE  output'.kind # "panic"
  <1>1. next_advertise_idx < Len(local_ips) /\ Len(local_ips) \in Nat
    BY DueInBounds DEF Advertise
  <1>2. local_ips[next_advertise_idx + 1] \in Interfaces
    BY <1>1, ElementOfSeq DEF IndInv, TypeOK
  <1>3. output' = DoAdvertise(services, local_ips[next_advertise_idx + 1])
    BY <1>1 DEF Advertise, IndInv, TypeOK
  <1>4. services \in ServiceLists
    BY DEF IndInv, TypeOK
  <1>5. QED
    BY <1>2, <1>3, <1>4 DEF CapacitiesFit, DoAdvertise, Packet

\* Queries are pushed, not extended.
LEMMA SendQueryDoesNotPanic ==
  ASSUME IndInv, NEW now \in Later, SendQuery(now)
  PROVE  output'.kind # "panic"
  <1>1. next_query_idx < Len(local_ips) /\ Len(local_ips) \in Nat
    BY DueInBounds DEF SendQuery
  <1>2. next_query_idx \in Nat
    BY DEF IndInv, TypeOK
  <1>3. ~ (next_query_idx >= Len(local_ips))
    BY <1>1, <1>2
  <1>4. output' = DoQuery(services, query_targets, local_ips[next_query_idx + 1], next_txid)
    BY <1>3 DEF SendQuery
  <1>5. output'.kind = "packet"
    BY <1>4, OutputKinds
  <1>6. QED
    BY <1>5

\* No sequence of calls panics when the capacities fit the declaration: no
\* index out of bounds, no failed unwrap, no extend past the end.
THEOREM NeverPanics == CapacitiesFit => (Spec => []NoPanic)
  <1> SUFFICES ASSUME CapacitiesFit PROVE Spec => []NoPanic
    OBVIOUS
  <1>1. Init => NoPanic
    BY DEF CapacitiesFit, Init, NoPanic, Halted, NoOutput
  <1>2. ASSUME IndInv, NoPanic, [Next]_vars
        PROVE  NoPanic'
    <2>1. ASSUME NEW now \in Later, Advertise(now) PROVE NoPanic'
      BY <1>2, <2>1, AdvertiseDoesNotPanic DEF NoPanic, Halted
    <2>2. ASSUME NEW now \in Later, SendQuery(now) PROVE NoPanic'
      BY <1>2, <2>2, SendQueryDoesNotPanic DEF NoPanic, Halted
    <2>3. ASSUME NEW now \in Later, Idle(now) PROVE NoPanic'
      BY <2>3 DEF Idle, TimeoutAt, NoPanic, Halted
    <2>4. ASSUME NEW q \in QueryArgs, Query(q) PROVE NoPanic'
      BY <2>4 DEF Query, NoOutput, NoPanic, Halted
    <2>5. ASSUME NEW p \in Packets, HandlePacket(p) PROVE NoPanic'
      <3>1. CASE ~ ParseAccepts(p.data)
        BY <2>5, <3>1 DEF HandlePacket, TimeoutAt, NoPanic, Halted
      <3>2. CASE ParseAccepts(p.data) /\ p.data.kind = "request"
        BY <1>2, <2>5, <3>2, RequestDoesNotPanic DEF HandlePacket, NoPanic, Halted
      <3>3. CASE ParseAccepts(p.data) /\ p.data.kind # "request"
        BY <2>5, <3>3, OutputKinds DEF HandlePacket, NoPanic, Halted
      <3>4. QED
        BY <3>1, <3>2, <3>3
    <2>6. CASE UNCHANGED vars
      BY <1>2, <2>6 DEF vars, NoPanic, Halted
    <2>7. QED
      BY <1>2, <2>1, <2>2, <2>3, <2>4, <2>5, <2>6 DEF Next
  <1>3. QED
    BY <1>1, <1>2, Invariance, PTL DEF Spec

-----------------------------------------------------------------------------
(* Prefixes of a sequence without repetition                               *)

\* Arithmetic on the positions below the next index.
LEMMA BelowNext ==
  ASSUME NEW n \in Nat, NEW idx \in Nat, idx < n
  PROVE  \A k \in 1 .. idx + 1 : k \in 1 .. n /\ k # idx + 2
  OBVIOUS

\* Serving the next interface adds it to those served, and the last one
\* makes them all.
LEMMA PrefixGrows ==
  ASSUME NEW S, NEW ips \in Seq(S), IsInjective(ips),
         NEW idx \in Nat, idx < Len(ips)
  PROVE  LET done == {ips[k] : k \in 1 .. idx}
             i    == ips[idx + 1]
         IN  /\ i \in Range(ips) \ done
             /\ done \cup {i} = {ips[k] : k \in 1 .. idx + 1}
             /\ done \cup {i} = Range(ips) <=> idx + 1 = Len(ips)
  <1> DEFINE done == {ips[k] : k \in 1 .. idx}
             i    == ips[idx + 1]
  <1>1. DOMAIN ips = 1 .. Len(ips) /\ Len(ips) \in Nat
    BY LenProperties
  <1>2. \A a, b \in 1 .. Len(ips) : ips[a] = ips[b] => a = b
    BY <1>1 DEF IsInjective
  <1>3. i \in Range(ips)
    BY <1>1 DEF Range
  <1>4. i \notin done
    BY <1>1, <1>2
  <1>5. done \cup {i} = {ips[k] : k \in 1 .. idx + 1}
    <2>1. \A k \in 1 .. idx + 1 : k \in 1 .. idx \/ k = idx + 1
      OBVIOUS
    <2>2. 1 .. idx \subseteq 1 .. idx + 1 /\ idx + 1 \in 1 .. idx + 1
      OBVIOUS
    <2>3. QED
      BY <2>1, <2>2
  <1>6. idx + 1 = Len(ips) => done \cup {i} = Range(ips)
    BY <1>1, <1>5 DEF Range
  <1>7. idx + 1 # Len(ips) => done \cup {i} # Range(ips)
    <2> SUFFICES ASSUME idx + 1 # Len(ips), done \cup {i} = Range(ips)
                 PROVE  FALSE
      OBVIOUS
    <2>1. idx + 2 \in 1 .. Len(ips)
      BY <1>1
    <2>2. ips[idx + 2] \in Range(ips)
      BY <1>1, <2>1 DEF Range
    <2>3. \A k \in 1 .. idx + 1 : k \in 1 .. Len(ips) /\ k # idx + 2
      BY <1>1, BelowNext
    <2>4. PICK k \in 1 .. idx + 1 : ips[idx + 2] = ips[k]
      BY <1>5, <2>2
    <2>5. QED
      BY <1>2, <2>1, <2>3, <2>4
  <1>8. QED
    BY <1>3, <1>4, <1>5, <1>6, <1>7

\* One packet of a round, as PeriodicRound sees it.
LEMMA ServeStep ==
  ASSUME IndInv, NEW idx \in Nat, idx < Len(local_ips)
  PROVE  LET i == local_ips[idx + 1]
         IN  /\ i \in Interfaces
             /\ i \in Range(local_ips) \ Served(idx)
             /\ Served(NextIdx(idx))
                  = IF Served(idx) \cup {i} = Range(local_ips)
                    THEN {} ELSE Served(idx) \cup {i}
             /\ Served(idx) \cup {i} = Range(local_ips) <=> RoundOver(idx)
  <1> DEFINE i == local_ips[idx + 1]
  <1>1. local_ips \in Seq(Interfaces) /\ IsInjective(local_ips)
    BY DEF IndInv, TypeOK, InterfacesAreDistinct
  <1>2. Len(local_ips) \in Nat
    BY <1>1, LenProperties
  <1>3. i \in Interfaces
    BY <1>1, <1>2, ElementOfSeq
  <1>4. /\ i \in Range(local_ips) \ Served(idx)
        /\ Served(idx) \cup {i} = Served(idx + 1)
        /\ Served(idx) \cup {i} = Range(local_ips) <=> idx + 1 = Len(local_ips)
    BY <1>1, PrefixGrows DEF Served
  <1>5. Served(0) = {}
    BY DEF Served
  <1>6. Served(NextIdx(idx)) = IF RoundOver(idx) THEN Served(0) ELSE Served(idx + 1)
    BY DEF Served, NextIdx, RoundOver
  <1>7. QED
    BY <1>3, <1>4, <1>5, <1>6 DEF RoundOver

\* A registration leaves what a round has served.
LEMMA RegisterStep ==
  ASSUME IndInv, NEW q \in QueryArgs, Query(q),
         NEW idx \in {next_advertise_idx, next_query_idx}
  PROVE  /\ q.local_ip \in Interfaces
         /\ Range(local_ips)' \in {Range(local_ips), Range(local_ips) \cup {q.local_ip}}
         /\ {local_ips'[k] : k \in 1 .. idx} = Served(idx)
  <1>1. q.local_ip \in Interfaces /\ local_ips \in Seq(Interfaces)
    BY DEF IndInv, TypeOK, Interfaces
  <1>2. local_ips' = AddLocalIp(local_ips, q.local_ip)
    BY DEF Query
  <1>3. /\ Range(local_ips') \in {Range(local_ips), Range(local_ips) \cup {q.local_ip}}
        /\ \A k \in 1 .. Len(local_ips) : local_ips'[k] = local_ips[k]
    <2>1. Range(local_ips') \in {Range(local_ips), Range(local_ips) \cup {q.local_ip}}
      BY <1>1, <1>2, AddLocalIpGrows
    <2>2. \A k \in 1 .. Len(local_ips) : local_ips'[k] = local_ips[k]
      BY <1>1, <1>2, AddLocalIpKeeps
    <2>3. QED
      BY <2>1, <2>2
  <1>4. idx \in Nat /\ Len(local_ips) \in Nat /\ idx <= Len(local_ips)
    BY <1>1, LenProperties, EmptySeq DEF IndInv, TypeOK, Bookkeeping
  <1>5. {local_ips'[k] : k \in 1 .. idx} = Served(idx)
    BY <1>3, <1>4 DEF Served
  <1>6. QED
    BY <1>1, <1>3, <1>5

-----------------------------------------------------------------------------
(* Advertising                                                             *)

\* Before the first advertisement nothing is served.
LEMMA AdvertsInit == Init => Adverts!Init
  <1> SUFFICES ASSUME Init PROVE Adverts!Init
    OBVIOUS
  <1>1. IndInv
    BY InitIndInv
  <1>2. Range(local_ips) \subseteq Interfaces
    BY <1>1, LenProperties, ElementOfSeq DEF IndInv, TypeOK, Range
  <1>3. QED
    BY <1>1, <1>2 DEF Init, Adverts!Init, Served, IndInv, TypeOK

\* Every call serves one interface, is no part of a round, or adds one.
LEMMA AdvertsStep == IndInv /\ [Next]_vars => [Adverts!Next]_Adverts!vars
  <1> SUFFICES ASSUME IndInv, [Next]_vars PROVE [Adverts!Next]_Adverts!vars
    OBVIOUS
  <1> USE ServerAssumption
  <1>1. ASSUME NEW now \in Later, Advertise(now)
        PROVE  Adverts!Next
    <2> DEFINE i == local_ips[next_advertise_idx + 1]
    <2>1. /\ now \in Nat /\ next_advertise_idx \in Nat
          /\ next_advertise_idx < Len(local_ips)
          /\ now >= last_now /\ now >= next_advertise
      BY <1>1, DueInBounds
      DEF Advertise, AdvertiseDue, IndInv, TypeOK, Later
    <2>2. UNCHANGED local_ips
      BY <1>1 DEF Advertise, config
    <2>3. /\ i \in Interfaces
          /\ i \in Range(local_ips) \ Served(next_advertise_idx)
          /\ Served(NextIdx(next_advertise_idx))
               = IF Served(next_advertise_idx) \cup {i} = Range(local_ips)
                 THEN {} ELSE Served(next_advertise_idx) \cup {i}
          /\ Served(next_advertise_idx) \cup {i} = Range(local_ips)
               <=> RoundOver(next_advertise_idx)
      BY <2>1, ServeStep
    <2>4. Served(next_advertise_idx)' = Served(NextIdx(next_advertise_idx))
      BY <1>1, <2>2 DEF Advertise, Served
    <2>5. Adverts!Serve(i)
      BY <1>1, <2>1, <2>2, <2>3, <2>4
      DEF Adverts!Serve, Adverts!Tick, Advertise, NextDeadline
    <2>6. QED
      BY <2>3, <2>5 DEF Adverts!Next
  <1>2. ASSUME NEW now \in Later, SendQuery(now) \/ Idle(now)
        PROVE  Adverts!Next
    <2>1. now \in Nat /\ now <= MaxNow /\ now >= last_now
      BY DueInBounds DEF Later, IndInv, TypeOK
    <2>2. now < next_advertise
      BY <1>2, <2>1
      DEF SendQuery, Idle, AdvertiseDue, IndInv, TypeOK, Bookkeeping
    <2>3. Adverts!Pass
      BY <1>2, <2>1, <2>2
      DEF Adverts!Pass, Adverts!Tick, SendQuery, Idle, config, timers, Served
    <2>4. QED
      BY <2>3 DEF Adverts!Next
  <1>3. ASSUME NEW q \in QueryArgs, Query(q)
        PROVE  Adverts!Next
    <2>1. /\ q.local_ip \in Interfaces
          /\ Range(local_ips)' \in {Range(local_ips), Range(local_ips) \cup {q.local_ip}}
          /\ {local_ips'[k] : k \in 1 .. next_advertise_idx}
               = Served(next_advertise_idx)
      BY <1>3, RegisterStep
    <2>2. Served(next_advertise_idx)' = Served(next_advertise_idx)
      BY <1>3, <2>1 DEF Served, Query
    <2>3. Adverts!Register(q.local_ip)
      BY <1>3, <2>1, <2>2 DEF Adverts!Register, Query
    <2>4. QED
      BY <2>1, <2>3 DEF Adverts!Next
  <1>4. ASSUME NEW p \in Packets, HandlePacket(p)
        PROVE  UNCHANGED Adverts!vars
    BY <1>4 DEF HandlePacket, Adverts!vars, Served, config, timers
  <1>5. CASE UNCHANGED vars
    BY <1>5 DEF vars, Adverts!vars, Served
  <1>6. QED
    BY <1>1, <1>2, <1>3, <1>4, <1>5 DEF Next

\* Advertising is a sequence of rounds: each serves every interface exactly
\* once, and the next starts one interval after it ended.
THEOREM AdvertsRefineRounds == Spec => AdvertsAreRounds
  <1>1. QED
    BY AdvertsInit, AdvertsStep, Invariance, PTL
    DEF Spec, AdvertsAreRounds, Adverts!Spec

-----------------------------------------------------------------------------
(* Querying                                                                *)

\* Before the first query nothing is served.
LEMMA QueriesInit == Init => Queries!Init
  <1> SUFFICES ASSUME Init PROVE Queries!Init
    OBVIOUS
  <1>1. IndInv
    BY InitIndInv
  <1>2. Range(local_ips) \subseteq Interfaces
    BY <1>1, LenProperties, ElementOfSeq DEF IndInv, TypeOK, Range
  <1>3. QED
    BY <1>1, <1>2 DEF Init, Queries!Init, Served, IndInv, TypeOK

\* The same of queries, which a registration may make due.
LEMMA QueriesStep == IndInv /\ [Next]_vars => [Queries!Next]_Queries!vars
  <1> SUFFICES ASSUME IndInv, [Next]_vars PROVE [Queries!Next]_Queries!vars
    OBVIOUS
  <1> USE ServerAssumption
  <1>1. ASSUME NEW now \in Later, SendQuery(now)
        PROVE  Queries!Next
    <2> DEFINE i == local_ips[next_query_idx + 1]
    <2>1. /\ now \in Nat /\ next_query_idx \in Nat
          /\ next_query_idx < Len(local_ips)
          /\ now >= last_now /\ now >= next_query
      BY <1>1, DueInBounds
      DEF SendQuery, QueryDue, IndInv, TypeOK, Later
    <2>2. UNCHANGED local_ips
      BY <1>1 DEF SendQuery, config
    <2>3. /\ i \in Interfaces
          /\ i \in Range(local_ips) \ Served(next_query_idx)
          /\ Served(NextIdx(next_query_idx))
               = IF Served(next_query_idx) \cup {i} = Range(local_ips)
                 THEN {} ELSE Served(next_query_idx) \cup {i}
          /\ Served(next_query_idx) \cup {i} = Range(local_ips)
               <=> RoundOver(next_query_idx)
      BY <2>1, ServeStep
    <2>4. Served(next_query_idx)' = Served(NextIdx(next_query_idx))
      BY <1>1, <2>2 DEF SendQuery, Served
    <2>5. Queries!Serve(i)
      BY <1>1, <2>1, <2>2, <2>3, <2>4
      DEF Queries!Serve, Queries!Tick, SendQuery, NextDeadline
    <2>6. QED
      BY <2>3, <2>5 DEF Queries!Next
  <1>2. ASSUME NEW now \in Later, Advertise(now) \/ Idle(now)
        PROVE  Queries!Next
    <2>1. now \in Nat /\ now >= last_now
      BY DueInBounds DEF Later, IndInv, TypeOK
    <2>2. Queries!Pass
      BY <1>2, <2>1
      DEF Queries!Pass, Queries!Tick, Advertise, Idle, config, timers, Served
    <2>3. QED
      BY <2>2 DEF Queries!Next
  <1>3. ASSUME NEW q \in QueryArgs, Query(q)
        PROVE  Queries!Next
    <2>1. /\ q.local_ip \in Interfaces
          /\ Range(local_ips)' \in {Range(local_ips), Range(local_ips) \cup {q.local_ip}}
          /\ {local_ips'[k] : k \in 1 .. next_query_idx} = Served(next_query_idx)
      BY <1>3, RegisterStep
    <2>2. Served(next_query_idx)' = Served(next_query_idx)
      BY <1>3, <2>1 DEF Served, Query
    <2>3. Queries!Register(q.local_ip)
      BY <1>3, <2>1, <2>2 DEF Queries!Register, Query, Rearmed
    <2>4. QED
      BY <2>1, <2>3 DEF Queries!Next
  <1>4. ASSUME NEW p \in Packets, HandlePacket(p)
        PROVE  UNCHANGED Queries!vars
    BY <1>4 DEF HandlePacket, Queries!vars, Served, config, timers
  <1>5. CASE UNCHANGED vars
    BY <1>5 DEF vars, Queries!vars, Served
  <1>6. QED
    BY <1>1, <1>2, <1>3, <1>4, <1>5 DEF Next

\* Querying is a sequence of rounds, too, that a registration makes due at
\* once without moving what the running round has served.
THEOREM QueriesRefineRounds == Spec => QueriesAreRounds
  <1>1. QED
    BY QueriesInit, QueriesStep, Invariance, PTL
    DEF Spec, QueriesAreRounds, Queries!Spec

-----------------------------------------------------------------------------
(* What the packets of a round say, by the memory of ServerRounds.  The    *)
(* invariants speak of the part of local_ips that the round has served:    *)
(* the services there are announced, what is due there is asked for, and a *)
(* target that came between two rounds lies outside of it until then.      *)

\* The memory does not influence the server.
LEMMA RoundsAreRuns == RNext => Next
  BY DEF RNext, Next, RAdvertise, RSendQuery, RQuery

\* The memory of ServerRounds is added to Server: its invariant still holds.
THEOREM RoundsInvariance == RSpec => []IndInv
  <1>1. RInit => IndInv
    BY InitIndInv DEF RInit
  <1>2. IndInv /\ [RNext]_<<vars, history>> => IndInv'
    <2>1. [RNext]_<<vars, history>> => [Next]_vars
      BY RoundsAreRuns
    <2>2. QED
      BY <2>1, NextIndInv
  <1>3. QED
    BY <1>1, <1>2, PTL DEF RSpec

\* With capacities that fit there is no panic in the middle of a round.
LEMMA RoundsStayUp ==
  ASSUME CapacitiesFit
  PROVE  RSpec => []NoPanic
  <1>1. RSpec => Spec
    <2>1. RInit => Init
      BY DEF RInit
    <2>2. [RNext]_<<vars, history>> => [Next]_vars
      BY RoundsAreRuns
    <2>3. QED
      BY <2>1, <2>2, PTL DEF RSpec, Spec
  <1>2. QED
    BY <1>1, NeverPanics

-----------------------------------------------------------------------------
(* Announcing                                                              *)

\* No instance is declared for one address with two netmasks.  An instance
\* that is would be announced with each of its interfaces.
OneMaskPerInstance ==
  \A svcs \in ServiceLists : \A i, j \in DOMAIN svcs :
    /\ svcs[i].instance_name = svcs[j].instance_name
    /\ svcs[i].ip_address = svcs[j].ip_address
    => svcs[i].netmask = svcs[j].netmask

\* An advertisement announces the services of its interface and no others.
LEMMA AnnouncesHosted ==
  ASSUME NEW S, NEW svcs \in Seq(S), NEW local, NEW i \in DOMAIN svcs,
         DoAdvertise(svcs, local).kind = "packet",
         \A j \in DOMAIN svcs :
           /\ svcs[i].instance_name = svcs[j].instance_name
           /\ svcs[i].ip_address = svcs[j].ip_address
           => svcs[i].netmask = svcs[j].netmask
  PROVE  Announces(DoAdvertise(svcs, local), svcs[i]) <=> LocalIp(svcs[i]) = local
  <1> DEFINE packet == DoAdvertise(svcs, local)
  <1>1. /\ packet.cast.from = local.addr
        /\ \A a : a \in Range(packet.msg.answers) <=>
             \E j \in HostedAt(svcs, local) : a \in Range(AsAnswers(svcs[j], "Multicast"))
    BY AdvertisementTells
  <1> HIDE DEF packet
  <1>2. ASSUME LocalIp(svcs[i]) = local
        PROVE  Announces(packet, svcs[i])
    <2>1. i \in HostedAt(svcs, local) /\ local.addr = svcs[i].ip_address
      BY <1>2 DEF HostedAt, LocalIp
    <2>2. QED
      BY <1>1, <2>1 DEF Announces
  <1>3. ASSUME Announces(packet, svcs[i])
        PROVE  LocalIp(svcs[i]) = local
    <2>1. SrvAnswer(svcs[i], "Multicast") \in Range(packet.msg.answers)
      BY <1>3, FourAnswers DEF Announces
    <2>2. PICK j \in HostedAt(svcs, local) :
            SrvAnswer(svcs[i], "Multicast") \in Range(AsAnswers(svcs[j], "Multicast"))
      BY <1>1, <2>1
    <2>3. SrvAnswer(svcs[i], "Multicast")
            \in {PtrAnswer(svcs[j]), SrvAnswer(svcs[j], "Multicast"),
                 TxtAnswer(svcs[j], "Multicast"), IpAnswer(svcs[j], "Multicast")}
      BY <2>2, FourAnswers
    <2>4. svcs[i].instance_name = svcs[j].instance_name
      <3>1. /\ SrvAnswer(svcs[i], "Multicast").rec.type = "SRV"
            /\ PtrAnswer(svcs[j]).rec.type = "PTR"
            /\ TxtAnswer(svcs[j], "Multicast").rec.type = "TXT"
            /\ IpAnswer(svcs[j], "Multicast").rec.type \in {"A", "AAAA"}
        BY DEF SrvAnswer, PtrAnswer, TxtAnswer, IpAnswer
      <3>2. SrvAnswer(svcs[i], "Multicast") = SrvAnswer(svcs[j], "Multicast")
        BY <2>3, <3>1
      <3>3. /\ SrvAnswer(svcs[i], "Multicast").name = svcs[i].instance_name
            /\ SrvAnswer(svcs[j], "Multicast").name = svcs[j].instance_name
        BY DEF SrvAnswer
      <3>4. QED
        BY <3>2, <3>3
    <2>5. j \in DOMAIN svcs /\ LocalIp(svcs[j]) = local
      BY DEF HostedAt
    <2>6. svcs[i].ip_address = svcs[j].ip_address
      BY <1>1, <1>3, <2>5 DEF Announces, LocalIp
    <2>7. QED
      BY <2>4, <2>5, <2>6 DEF LocalIp
  <1>4. QED
    BY <1>2, <1>3 DEF packet

\* Announced are the services of the interfaces this round has served.
AnnouncedInv ==
  /\ announced \in [DOMAIN services -> {0, 1}]
  /\ next_advertise_idx # 0 =>
       \A i \in DOMAIN services :
         announced[i] = IF LocalIp(services[i]) \in Served(next_advertise_idx)
                        THEN 1 ELSE 0
  /\ advertised /\ next_advertise_idx = 0 =>
       \A i \in DOMAIN services : announced[i] = 1

\* One more interface is served and what it hosts announced.
LEMMA AdvertiseAnnounces ==
  ASSUME IndInv, NoPanic', OneMaskPerInstance, AnnouncedInv,
         NEW now \in Later, RAdvertise(now)
  PROVE  AnnouncedInv'
  <1> DEFINE idx == next_advertise_idx
             local == local_ips[idx + 1]
  <1>1. Advertise(now)
    BY DEF RAdvertise
  <1>2. idx \in Nat /\ idx < Len(local_ips) /\ Len(local_ips) \in Nat
    BY <1>1, DueInBounds DEF Advertise, IndInv, TypeOK
  <1>3. output' = DoAdvertise(services, local)
    BY <1>1, <1>2 DEF Advertise
  <1>4. output'.kind = "packet"
    BY <1>3, OutputKinds DEF NoPanic, Halted
  <1>5. services \in ServiceLists /\ services \in Seq(Services)
    BY ServerAssumption DEF IndInv, TypeOK
  <1>6. \A i \in DOMAIN services :
          Announces(output', services[i]) <=> LocalIp(services[i]) = local
    <2> TAKE i \in DOMAIN services
    <2>1. \A j \in DOMAIN services :
            /\ services[i].instance_name = services[j].instance_name
            /\ services[i].ip_address = services[j].ip_address
            => services[i].netmask = services[j].netmask
      BY <1>5 DEF OneMaskPerInstance
    <2> HIDE DEF local
    <2>2. QED
      BY <1>3, <1>4, <1>5, <2>1, AnnouncesHosted
  <1> DEFINE before(i) == IF idx = 0 THEN 0 ELSE announced[i]
  <1>7. \A i \in DOMAIN services :
          before(i) = IF LocalIp(services[i]) \in Served(idx) THEN 1 ELSE 0
    <2>1. Served(0) = {}
      BY DEF Served
    <2>2. QED
      BY <2>1 DEF AnnouncedInv
  <1>8. announced' = [i \in DOMAIN services |->
                        before(i) + (IF LocalIp(services[i]) = local THEN 1 ELSE 0)]
    BY <1>4, <1>6 DEF RAdvertise
  <1>9. /\ local \notin Served(idx)
        /\ Served(NextIdx(idx)) = IF RoundOver(idx) THEN {} ELSE Served(idx) \cup {local}
        /\ Served(idx) \cup {local} = Range(local_ips) <=> RoundOver(idx)
    BY <1>2, ServeStep
  <1> HIDE DEF before, local
  <1>10. \A i \in DOMAIN services :
           announced'[i] = IF LocalIp(services[i]) \in Served(idx) \cup {local}
                           THEN 1 ELSE 0
    BY <1>7, <1>8, <1>9
  <1>11. /\ services' = services /\ local_ips' = local_ips
         /\ next_advertise_idx' = NextIdx(idx)
         /\ DOMAIN announced' = DOMAIN services
         /\ announced' = [i \in DOMAIN services |-> announced'[i]]
    BY <1>1, <1>8 DEF Advertise, config
  <1>12. Served(next_advertise_idx)' = Served(NextIdx(idx))
    BY <1>11 DEF Served
  <1>13. CASE RoundOver(idx)
    <2>1. NextIdx(idx) = 0
      BY <1>13 DEF NextIdx
    <2>2. \A i \in DOMAIN services : LocalIp(services[i]) \in Range(local_ips)
      BY DEF IndInv, InterfacesAreDistinct, DeclaredInterfaces
    <2>3. \A i \in DOMAIN services : announced'[i] = 1
      BY <1>9, <1>10, <1>13, <2>2
    <2>4. QED
      BY <1>11, <2>1, <2>3 DEF AnnouncedInv
  <1>14. CASE ~ RoundOver(idx)
    <2>1. NextIdx(idx) # 0
      BY <1>2, <1>14 DEF NextIdx
    <2>2. QED
      BY <1>9, <1>10, <1>11, <1>12, <1>14, <2>1 DEF AnnouncedInv
  <1>15. QED
    BY <1>13, <1>14

\* Every call keeps that.
LEMMA NextAnnounces ==
  ASSUME IndInv, NoPanic', OneMaskPerInstance, AnnouncedInv, [RNext]_<<vars, history>>
  PROVE  AnnouncedInv'
  <1>1. ASSUME NEW now \in Later, RAdvertise(now) PROVE AnnouncedInv'
    BY <1>1, AdvertiseAnnounces
  <1>2. ASSUME UNCHANGED << services, local_ips, next_advertise_idx, announced,
                            advertised >>
        PROVE  AnnouncedInv'
    BY <1>2 DEF AnnouncedInv, Served
  <1>3. ASSUME NEW q \in QueryArgs, RQuery(q) PROVE AnnouncedInv'
    <2>1. Query(q) /\ UNCHANGED << services, next_advertise_idx, announced, advertised >>
      BY <1>3 DEF RQuery, Query
    <2>2. {local_ips'[k] : k \in 1 .. next_advertise_idx} = Served(next_advertise_idx)
      BY <2>1, RegisterStep
    <2>3. Served(next_advertise_idx)' = Served(next_advertise_idx)
      BY <2>1, <2>2 DEF Served
    <2>4. QED
      BY <2>1, <2>3 DEF AnnouncedInv
  <1>4. QED
    BY <1>1, <1>2, <1>3
    DEF RNext, RSendQuery, SendQuery, Idle, history, vars, config, timers

\* Once a round of advertisements has ended, every service has been announced
\* in it exactly once, whatever was registered or sent in between.
THEOREM EachServiceAnnounced ==
  CapacitiesFit /\ OneMaskPerInstance => (RSpec => []RoundAnnouncesAll)
  <1> SUFFICES ASSUME CapacitiesFit, OneMaskPerInstance
               PROVE  RSpec => []RoundAnnouncesAll
    OBVIOUS
  <1>1. RInit => AnnouncedInv
    BY DEF RInit, Init, AnnouncedInv
  <1>2. IndInv /\ NoPanic' /\ AnnouncedInv /\ [RNext]_<<vars, history>> => AnnouncedInv'
    BY NextAnnounces
  <1>3. AnnouncedInv => RoundAnnouncesAll
    BY DEF AnnouncedInv, RoundAnnouncesAll
  <1>4. RSpec => []NoPanic
    BY RoundsStayUp
  <1>5. QED
    BY <1>1, <1>2, <1>3, <1>4, RoundsInvariance, PTL DEF RSpec

-----------------------------------------------------------------------------
(* Asking                                                                  *)

\* A message has room for a question per service and per query target.
QuestionsFit ==
  Alloc \/ \A svcs \in ServiceLists : Len(svcs) + SLEN <= QLEN

\* What is in query_targets is within its capacity.
TargetsInRoom == Alloc \/ Len(query_targets) <= SLEN

\* A query packet asks for everything that is due on its interface.
LEMMA QueryAsks ==
  ASSUME IndInv, TargetsInRoom, QuestionsFit, NEW local, NEW id,
         NEW packet, packet = DoQuery(services, query_targets, local, id)
  PROVE  \A d \in Due : d[2] = local => d \in AskedBy(packet, local)
  <1> USE ServerAssumption
  <1> DEFINE here == Hosted(services, local)
             targets == Targeting(query_targets, local)
             a == [i \in DOMAIN here |-> here[i].service_type]
             b == [i \in DOMAIN targets |-> targets[i].service_type]
             names == a \o b
             questions == [i \in DOMAIN names |-> PtrQuery(names[i])]
             N == Range(a) \cup Range(b)
  <1>1. services \in Seq(Services) /\ query_targets \in Seq(QueryArgs)
    BY DEF IndInv, TypeOK
  <1>2. /\ here \in Seq(Services) /\ Len(here) <= Len(services)
        /\ Range(here) = {services[j] : j \in HostedAt(services, local)}
    BY <1>1, HostedProperties
  <1>3. /\ targets \in Seq(QueryArgs) /\ Len(targets) <= Len(query_targets)
        /\ Range(targets)
             = {query_targets[j] :
                  j \in {k \in DOMAIN query_targets : query_targets[k].local_ip = local}}
    BY <1>1, TargetingProperties
  <1>4. packet = Packet(Request(id, VecPushAll(questions, QLEN)), Multi(local.addr))
    BY Zenon DEF DoQuery
  <1> HIDE DEF here, targets
  <1>5. /\ DOMAIN here = 1 .. Len(here) /\ Len(here) \in Nat
        /\ DOMAIN targets = 1 .. Len(targets) /\ Len(targets) \in Nat
        /\ Len(services) \in Nat /\ Len(query_targets) \in Nat
    BY <1>1, <1>2, <1>3, LenProperties
  <1>6. a \in Seq(N) /\ Len(a) = Len(here)
    <2>1. DOMAIN a = DOMAIN here /\ \A i \in DOMAIN a : a[i] \in Range(a)
      BY DEF Range
    <2>2. a \in [1 .. Len(here) -> N]
      BY <1>5, <2>1
    <2> HIDE DEF a, N
    <2>3. a \in Seq(N)
      BY <1>5, <2>2, SeqDef
    <2>4. QED
      BY <1>5, <2>2, <2>3, LenProperties
  <1>7. b \in Seq(N) /\ Len(b) = Len(targets)
    <2>1. DOMAIN b = DOMAIN targets /\ \A i \in DOMAIN b : b[i] \in Range(b)
      BY DEF Range
    <2>2. b \in [1 .. Len(targets) -> N]
      BY <1>5, <2>1
    <2> HIDE DEF b, N
    <2>3. b \in Seq(N)
      BY <1>5, <2>2, SeqDef
    <2>4. QED
      BY <1>5, <2>2, <2>3, LenProperties
  <1>8. /\ Range(a) = {s.service_type : s \in Range(here)}
        /\ Range(b) = {q.service_type : q \in Range(targets)}
    BY DEF Range
  <1> HIDE DEF a, b
  <1>9. /\ names \in Seq(N) /\ Len(names) = Len(here) + Len(targets)
        /\ Range(names) = Range(a) \cup Range(b)
    <2> HIDE DEF N
    <2>1. QED
      BY <1>6, <1>7, ConcatProperties, RangeConcatenation
  <1> HIDE DEF names
  <1>10. /\ DOMAIN questions = DOMAIN names
         /\ \A i \in DOMAIN names : questions[i].name = names[i]
    BY DEF PtrQuery
  <1>11. Len(questions) = Len(names)
    <2>1. DOMAIN names = 1 .. Len(names) /\ Len(names) \in Nat
      BY <1>9, LenProperties
    <2>2. questions \in [1 .. Len(names) -> {PtrQuery(n) : n \in Range(names)}]
      BY <2>1 DEF Range
    <2> HIDE DEF questions
    <2>3. questions \in Seq({PtrQuery(n) : n \in Range(names)})
      BY <2>1, <2>2, SeqDef
    <2>4. QED
      BY <2>1, <2>2, <2>3, LenProperties
  <1> HIDE DEF questions
  <1>12. Alloc \/ Len(questions) <= QLEN
    <2>1. services \in ServiceLists
      BY DEF IndInv, TypeOK
    <2>2. QED
      BY <1>2, <1>3, <1>5, <1>9, <1>11, <2>1 DEF QuestionsFit, TargetsInRoom
  <1>13. packet.msg.queries = questions
    BY <1>4, <1>12, PushAllThatFits DEF Packet, Request
  <1>14. AskedBy(packet, local) = {<< n, local >> : n \in Range(names)}
    BY <1>10, <1>13 DEF AskedBy, Range
  <1>15. ASSUME NEW i \in DOMAIN services, LocalIp(services[i]) = local
         PROVE  << services[i].service_type, local >> \in AskedBy(packet, local)
    <2>1. services[i] \in Range(here)
      BY <1>2, <1>15 DEF HostedAt
    <2>2. QED
      BY <1>8, <1>9, <1>14, <2>1
  <1>16. ASSUME NEW q \in Range(query_targets), q.local_ip = local
         PROVE  << q.service_type, local >> \in AskedBy(packet, local)
    <2>1. q \in Range(targets)
      BY <1>3, <1>16 DEF Range
    <2>2. QED
      BY <1>8, <1>9, <1>14, <2>1
  <1>17. QED
    BY <1>15, <1>16 DEF Due

\* query() keeps query_targets within its capacity.
LEMMA TargetsStayInRoom ==
  /\ Init => TargetsInRoom
  /\ IndInv /\ TargetsInRoom /\ [Next]_vars => TargetsInRoom'
  <1> USE ServerAssumption
  <1>1. Init => TargetsInRoom
    BY EmptySeq DEF Init, TargetsInRoom
  <1>2. ASSUME IndInv, TargetsInRoom, NEW q \in QueryArgs, Query(q)
        PROVE  TargetsInRoom'
    <2>1. query_targets' = PushNew(query_targets, q, SLEN)
      BY <1>2 DEF Query, AddQueryTarget
    <2>2. query_targets \in Seq(QueryArgs)
      BY <1>2 DEF IndInv, TypeOK
    <2>3. CASE query_targets' = query_targets
      BY <1>2, <2>3 DEF TargetsInRoom
    <2>4. CASE query_targets' # query_targets
      <3>1. query_targets' = Append(query_targets, q) /\ HasRoom(query_targets, SLEN)
        BY <2>1, <2>4 DEF PushNew, VecPush
      <3>2. Len(query_targets') = Len(query_targets) + 1 /\ Len(query_targets) \in Nat
        BY <2>2, <3>1, AppendProperties, LenProperties
      <3>3. QED
        BY <3>1, <3>2 DEF TargetsInRoom, HasRoom
    <2>5. QED
      BY <2>3, <2>4
  <1>3. ASSUME TargetsInRoom, UNCHANGED query_targets PROVE TargetsInRoom'
    BY <1>3 DEF TargetsInRoom
  <1>4. QED
    BY <1>1, <1>2, <1>3 DEF Next, Advertise, SendQuery, Idle, HandlePacket, vars, config

\* What is due is due on an interface that gets visited.
LEMMA DueIsVisited ==
  ASSUME IndInv, TargetsAreVisited
  PROVE  \A d \in Due : d[2] \in Range(local_ips)
  <1>1. \A i \in DOMAIN services : LocalIp(services[i]) \in Range(local_ips)
    BY DEF IndInv, InterfacesAreDistinct, DeclaredInterfaces
  <1>2. \A q \in Range(query_targets) : q.local_ip \in Range(local_ips)
    BY DEF TargetsAreVisited, Range
  <1>3. QED
    BY <1>1, <1>2 DEF Due

\* A registration adds to what is due.
LEMMA DueGrows ==
  ASSUME IndInv, NEW q \in QueryArgs, Query(q)
  PROVE  /\ Due \subseteq Due'
         /\ query_targets' # query_targets => << q.service_type, q.local_ip >> \in Due'
  <1>1. /\ Range(query_targets) \subseteq Range(query_targets')
        /\ query_targets' # query_targets => q \in Range(query_targets')
    <2>1. query_targets' = PushNew(query_targets, q, SLEN)
      BY DEF Query, AddQueryTarget
    <2>2. query_targets \in Seq(QueryArgs)
      BY DEF IndInv, TypeOK
    <2>3. CASE query_targets' # query_targets
      <3>1. query_targets' = Append(query_targets, q)
        BY <2>1, <2>3 DEF PushNew, VecPush
      <3>2. Range(query_targets') = Range(query_targets) \cup {q}
        BY <2>2, <3>1, RangeAppend
      <3>3. QED
        BY <3>2
    <2>4. QED
      BY <2>3
  <1>2. services' = services
    BY DEF Query
  <1>3. QED
    BY <1>1, <1>2 DEF Due

\* One query packet: what it asks for, and where it leaves the round.
LEMMA QueryPacket ==
  ASSUME IndInv, TargetsInRoom, QuestionsFit, NEW now \in Later, RSendQuery(now)
  PROVE  LET idx   == next_query_idx
             local == local_ips[idx + 1]
         IN  /\ \A d \in Due : d[2] = local => d \in AskedBy(output', local)
             /\ local \in Range(local_ips) \ Served(idx)
             /\ UNCHANGED << services, query_targets, local_ips >>
             /\ Due' = Due
             /\ \/ /\ next_query_idx' = 0
                   /\ Served(idx) \cup {local} = Range(local_ips)
                \/ /\ next_query_idx' # 0
                   /\ Served(idx) \cup {local} # Range(local_ips)
                   /\ Served(next_query_idx)' = Served(idx) \cup {local}
                   /\ next_query' = next_query
  <1> DEFINE idx == next_query_idx
             local == local_ips[idx + 1]
  <1>1. SendQuery(now)
    BY DEF RSendQuery
  <1>2. idx \in Nat /\ idx < Len(local_ips) /\ Len(local_ips) \in Nat
    BY <1>1, DueInBounds DEF SendQuery, IndInv, TypeOK
  <1>3. output' = DoQuery(services, query_targets, local, next_txid)
    BY <1>1, <1>2 DEF SendQuery
  <1>4. /\ local \in Range(local_ips) \ Served(idx)
        /\ Served(NextIdx(idx)) = IF RoundOver(idx) THEN {} ELSE Served(idx) \cup {local}
        /\ Served(idx) \cup {local} = Range(local_ips) <=> RoundOver(idx)
    BY <1>2, ServeStep
  <1> HIDE DEF local
  <1>5. \A d \in Due : d[2] = local => d \in AskedBy(output', local)
    BY <1>3, QueryAsks
  <1>6. UNCHANGED << services, query_targets, local_ips >>
    BY <1>1 DEF SendQuery, config
  <1>7. Due' = Due
    BY <1>6 DEF Due
  <1>8. /\ next_query_idx' = NextIdx(idx)
        /\ next_query' = NextDeadline(idx, next_query, now, QUERY_INTERVAL)
        /\ Served(next_query_idx)' = Served(NextIdx(idx))
    BY <1>1, <1>6 DEF SendQuery, Served
  <1>9. CASE RoundOver(idx)
    BY <1>4, <1>5, <1>6, <1>7, <1>8, <1>9 DEF NextIdx, local
  <1>10. CASE ~ RoundOver(idx)
    <2>1. NextIdx(idx) # 0
      BY <1>2, <1>10 DEF NextIdx
    <2>2. next_query' = next_query
      BY <1>8, <1>10 DEF NextDeadline
    <2>3. QED
      BY <1>4, <1>5, <1>6, <1>7, <1>8, <1>10, <2>1, <2>2 DEF local
  <1>11. QED
    BY <1>9, <1>10

\* Asked for is what was due at the start of the round on the interfaces it
\* has served.
AskedInv ==
  /\ owed \subseteq Due
  /\ next_query_idx = 0 => owed \subseteq asked
  /\ next_query_idx # 0 =>
       \A d \in owed : d[2] \in Served(next_query_idx) => d \in asked

\* One more interface is asked on, for all that is due there.
LEMMA SendQueryAsks ==
  ASSUME IndInv, TargetsInRoom, QuestionsFit, TargetsAreVisited, AskedInv,
         NEW now \in Later, RSendQuery(now)
  PROVE  AskedInv'
  <1> DEFINE idx == next_query_idx
             local == local_ips[idx + 1]
             new == AskedBy(output', local)
  <1>1. /\ \A d \in Due : d[2] = local => d \in new
        /\ Due' = Due
        /\ \/ /\ next_query_idx' = 0
              /\ Served(idx) \cup {local} = Range(local_ips)
           \/ /\ next_query_idx' # 0
              /\ Served(next_query_idx)' = Served(idx) \cup {local}
    BY QueryPacket
  <1>2. /\ asked' = new \cup (IF idx = 0 THEN {} ELSE asked)
        /\ owed' = IF idx = 0 THEN Due ELSE owed
    BY DEF RSendQuery
  <1>3. owed' \subseteq Due
    BY <1>2 DEF AskedInv
  <1>4. \A d \in owed' : d[2] \in Served(idx) \cup {local} => d \in asked'
    <2> SUFFICES ASSUME NEW d \in owed', d[2] \in Served(idx) \cup {local}
                 PROVE  d \in asked'
      OBVIOUS
    <2> HIDE DEF local, new
    <2>1. CASE d[2] = local
      BY <1>1, <1>2, <1>3, <2>1
    <2>2. CASE d[2] \in Served(idx)
      <3>1. Served(0) = {}
        BY DEF Served
      <3>2. idx # 0
        BY <2>2, <3>1
      <3>3. QED
        BY <1>2, <2>2, <3>2 DEF AskedInv
    <2>3. QED
      BY <2>1, <2>2
  <1>5. \A d \in owed' : d[2] \in Range(local_ips)
    BY <1>3, DueIsVisited
  <1> HIDE DEF local, new
  <1>6. CASE next_query_idx' = 0 /\ Served(idx) \cup {local} = Range(local_ips)
    <2>1. owed' \subseteq asked'
      BY <1>4, <1>5, <1>6
    <2>2. QED
      BY <1>1, <1>3, <1>6, <2>1 DEF AskedInv
  <1>7. CASE next_query_idx' # 0 /\ Served(next_query_idx)' = Served(idx) \cup {local}
    BY <1>1, <1>3, <1>4, <1>7 DEF AskedInv
  <1>8. QED
    BY <1>1, <1>6, <1>7

\* Every call keeps that.
LEMMA NextAsks ==
  ASSUME IndInv, TargetsInRoom, QuestionsFit, TargetsAreVisited, AskedInv,
         [RNext]_<<vars, history>>
  PROVE  AskedInv'
  <1>1. ASSUME NEW now \in Later, RSendQuery(now) PROVE AskedInv'
    BY <1>1, SendQueryAsks
  <1>2. ASSUME NEW q \in QueryArgs, RQuery(q) PROVE AskedInv'
    <2>1. Query(q) /\ UNCHANGED << next_query_idx, owed, asked >>
      BY <1>2 DEF RQuery, Query
    <2>2. {local_ips'[k] : k \in 1 .. next_query_idx} = Served(next_query_idx)
      BY <2>1, RegisterStep
    <2>3. Served(next_query_idx)' = Served(next_query_idx)
      BY <2>1, <2>2 DEF Served
    <2>4. Due \subseteq Due'
      BY <2>1, DueGrows
    <2>5. QED
      BY <2>1, <2>3, <2>4 DEF AskedInv
  <1>3. ASSUME UNCHANGED << services, query_targets, local_ips, next_query_idx, owed, asked >>
        PROVE  AskedInv'
    <2>1. Due' = Due
      BY <1>3 DEF Due
    <2>2. QED
      BY <1>3, <2>1 DEF AskedInv, Served
  <1>4. QED
    BY <1>1, <1>2, <1>3
    DEF RNext, RAdvertise, Advertise, Idle, history, vars, config, timers

\* What the theorems about queries rest on.
LEMMA QueryBasis ==
  ASSUME InterfacesFit
  PROVE  RSpec => [](IndInv /\ TargetsInRoom /\ TargetsAreVisited)
  <1>1. RSpec => Spec
    <2>1. RInit => Init
      BY DEF RInit
    <2>2. [RNext]_<<vars, history>> => [Next]_vars
      BY RoundsAreRuns
    <2>3. QED
      BY <2>1, <2>2, PTL DEF RSpec, Spec
  <1>2. Spec => []TargetsAreVisited
    BY TargetsVisited
  <1>3. Spec => []TargetsInRoom
    BY TargetsStayInRoom, Invariance, PTL DEF Spec
  <1>4. QED
    BY <1>1, <1>2, <1>3, Invariance, PTL

\* When a round of queries ends, everything that was due at its start has
\* been asked for on its interface, whatever was registered in between.
THEOREM EverythingDueIsAskedFor ==
  InterfacesFit /\ QuestionsFit => (RSpec => []RoundAsksAll)
  <1> SUFFICES ASSUME InterfacesFit, QuestionsFit
               PROVE  RSpec => []RoundAsksAll
    OBVIOUS
  <1>1. RInit => AskedInv
    BY DEF RInit, Init, AskedInv
  <1>2. IndInv /\ TargetsInRoom /\ TargetsAreVisited /\ AskedInv
          /\ [RNext]_<<vars, history>> => AskedInv'
    BY NextAsks
  <1>3. AskedInv => RoundAsksAll
    BY DEF AskedInv, RoundAsksAll
  <1>4. RSpec => [](IndInv /\ TargetsInRoom /\ TargetsAreVisited)
    BY QueryBasis
  <1>5. QED
    BY <1>1, <1>2, <1>3, <1>4, PTL DEF RSpec

-----------------------------------------------------------------------------
(* New targets                                                             *)

\* A target that came between two rounds lies ahead of a round that is due.
UnaskedInv ==
  \A u \in unasked : ~ u.midround =>
    /\ u.target \in Due
    /\ u.target[2] \in Range(local_ips) \ Served(next_query_idx)
    /\ next_query <= last_now

\* Every call keeps what is still to be asked for due.
LEMMA NextUnasked ==
  ASSUME IndInv, TargetsInRoom, QuestionsFit, TargetsAreVisited, TargetsAreVisited',
         UnaskedInv, [RNext]_<<vars, history>>
  PROVE  UnaskedInv'
  <1>1. ASSUME NEW now \in Later, RSendQuery(now) PROVE UnaskedInv'
    <2> SUFFICES ASSUME NEW u \in unasked', ~ u.midround
                 PROVE  /\ u.target \in Due'
                        /\ u.target[2] \in Range(local_ips)' \ Served(next_query_idx)'
                        /\ next_query' <= last_now'
      BY DEF UnaskedInv
    <2> DEFINE idx == next_query_idx
               local == local_ips[idx + 1]
               new == AskedBy(output', local)
    <2>1. /\ \A d \in Due : d[2] = local => d \in new
          /\ UNCHANGED local_ips
          /\ Due' = Due
          /\ \/ Served(idx) \cup {local} = Range(local_ips)
             \/ /\ Served(next_query_idx)' = Served(idx) \cup {local}
                /\ next_query' = next_query
      BY <1>1, QueryPacket
    <2>2. u \in unasked /\ u.target \notin new
      BY <1>1 DEF RSendQuery
    <2>3. /\ u.target \in Due
          /\ u.target[2] \in Range(local_ips) \ Served(idx)
          /\ next_query <= last_now
      BY <2>2 DEF UnaskedInv
    <2>4. u.target[2] # local
      BY <2>1, <2>2, <2>3
    <2> HIDE DEF local
    <2>5. /\ Served(next_query_idx)' = Served(idx) \cup {local}
          /\ next_query' = next_query
      BY <2>1, <2>3, <2>4
    <2>6. last_now' = now /\ now \in Nat /\ now >= last_now
          /\ last_now \in Nat /\ next_query \in Nat
      BY <1>1, DueInBounds DEF RSendQuery, SendQuery, Later, IndInv, TypeOK
    <2>7. QED
      BY <2>1, <2>3, <2>4, <2>5, <2>6
  <1>2. ASSUME NEW q \in QueryArgs, RQuery(q) PROVE UnaskedInv'
    <2> SUFFICES ASSUME NEW u \in unasked', ~ u.midround
                 PROVE  /\ u.target \in Due'
                        /\ u.target[2] \in Range(local_ips)' \ Served(next_query_idx)'
                        /\ next_query' <= last_now'
      BY DEF UnaskedInv
    <2>1. /\ Query(q) /\ next_query_idx' = next_query_idx
          /\ next_query' = last_now /\ last_now' = last_now /\ last_now \in Nat
      BY <1>2 DEF RQuery, Query, Rearmed, IndInv, TypeOK
    <2>2. Range(local_ips) \subseteq Range(local_ips)'
      BY <2>1, RegisterStep
    <2>3. Served(next_query_idx)' = Served(next_query_idx)
      <3>1. {local_ips'[k] : k \in 1 .. next_query_idx} = Served(next_query_idx)
        BY <2>1, RegisterStep
      <3>2. QED
        BY <2>1, <3>1 DEF Served
    <2>4. Due \subseteq Due' /\ (query_targets' # query_targets =>
                                   << q.service_type, q.local_ip >> \in Due')
      BY <2>1, DueGrows
    <2>5. CASE u \in unasked
      BY <2>1, <2>2, <2>3, <2>4, <2>5 DEF UnaskedInv
    <2>6. CASE u \notin unasked
      <3>1. /\ query_targets' # query_targets
            /\ u = [ target   |-> << q.service_type, q.local_ip >>,
                     midround |-> next_query_idx # 0 ]
        BY <1>2, <2>6 DEF RQuery
      <3>2. next_query_idx = 0 /\ u.target = << q.service_type, q.local_ip >>
        BY <3>1
      <3>3. u.target \in Due'
        BY <2>4, <3>1, <3>2
      <3>4. u.target[2] \in Range(local_ips)'
        <4>1. IndInv'
          BY <2>1, QueryIndInv
        <4>2. (IndInv /\ TargetsAreVisited => \A d \in Due : d[2] \in Range(local_ips))'
          BY DueIsVisited, PTL
        <4>3. QED
          BY <3>3, <4>1, <4>2
      <3>5. Served(next_query_idx)' = {}
        BY <2>3, <3>2 DEF Served
      <3>6. QED
        BY <2>1, <3>3, <3>4, <3>5
    <2>7. QED
      BY <2>5, <2>6
  <1>3. ASSUME UNCHANGED << services, query_targets, local_ips, next_query_idx,
                            next_query, unasked >>,
               last_now' \in Nat, last_now' >= last_now
        PROVE  UnaskedInv'
    <2>1. Due' = Due
      BY <1>3 DEF Due
    <2>2. last_now \in Nat /\ next_query \in Nat
      BY DEF IndInv, TypeOK
    <2>3. QED
      BY <1>3, <2>1, <2>2 DEF UnaskedInv, Served
  <1>4. ASSUME NEW now \in Later, RAdvertise(now) PROVE UnaskedInv'
    <2>1. now \in Nat /\ now >= last_now
      BY DueInBounds DEF Later, IndInv, TypeOK
    <2>2. QED
      BY <1>3, <1>4, <2>1 DEF RAdvertise, Advertise, config
  <1>5. ASSUME NEW now \in Later, Idle(now), UNCHANGED history PROVE UnaskedInv'
    <2>1. now \in Nat /\ now >= last_now
      BY DueInBounds DEF Later, IndInv, TypeOK
    <2>2. QED
      BY <1>3, <1>5, <2>1 DEF Idle, history, config, timers
  <1>6. CASE UNCHANGED << vars, history >>
    <2>1. last_now \in Nat
      BY DEF IndInv, TypeOK
    <2>2. QED
      BY <1>3, <1>6, <2>1 DEF history, vars
  <1>7. QED
    BY <1>1, <1>2, <1>4, <1>5, <1>6 DEF RNext

\* A target registered between two rounds is asked for before a call finds
\* nothing to do.
THEOREM NewTargetsComeFirst ==
  InterfacesFit /\ QuestionsFit => (RSpec => AskedBeforeIdle)
  <1> SUFFICES ASSUME InterfacesFit, QuestionsFit
               PROVE  RSpec => AskedBeforeIdle
    OBVIOUS
  <1>1. RInit => UnaskedInv
    BY DEF RInit, UnaskedInv
  <1>2. IndInv /\ TargetsInRoom /\ TargetsAreVisited /\ TargetsAreVisited'
          /\ UnaskedInv /\ [RNext]_<<vars, history>> => UnaskedInv'
    BY NextUnasked
  <1>3. IndInv /\ UnaskedInv =>
          [(\E now \in Later : Idle(now)) => \A u \in unasked : u.midround]_<<vars, history>>
    <2> SUFFICES ASSUME IndInv, UnaskedInv, NEW now \in Later, Idle(now),
                        NEW u \in unasked, ~ u.midround
                 PROVE  FALSE
      OBVIOUS
    <2>1. u.target[2] \in Range(local_ips) /\ next_query <= last_now
      BY DEF UnaskedInv
    <2>2. now \in Nat /\ last_now \in Nat /\ next_query \in Nat /\ now >= last_now
      BY DueInBounds DEF Later, IndInv, TypeOK
    <2>3. local_ips # <<>>
      BY <2>1 DEF Range
    <2>4. QueryDue(now)
      BY <2>1, <2>2, <2>3 DEF QueryDue
    <2>5. QED
      BY <2>4 DEF Idle
  <1>4. RSpec => [](IndInv /\ TargetsInRoom /\ TargetsAreVisited)
    BY QueryBasis
  <1>5. QED
    BY <1>1, <1>2, <1>3, <1>4, PTL DEF RSpec, AskedBeforeIdle
=============================================================================
