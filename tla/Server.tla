-------------------------------- MODULE Server --------------------------------
(***************************************************************************)
(* One opslag Server (src/src/server.rs) under any sequence of the calls   *)
(* its API allows: query, handle(Input::Timeout), handle(Input::Packet).   *)
(* Time only moves forward, as the documentation of Time asks of a caller. *)
(***************************************************************************)
EXTENDS ServerHandlers

CONSTANTS
  Services,             \* every service a program could declare
  ServiceLists,         \* the lists of them it may pass to new
  QueryArgs,            \* the arguments query may be called with
  Packets,              \* what may arrive: records [data, from]
  FirstAdvertise,       \* next_advertise after new
  FirstQuery,           \* next_query after new
  ADVERTISE_INTERVAL,
  QUERY_INTERVAL,
  Never,                \* Time::from_millis(u64::MAX)
  TxidMod,              \* txids are u16: 2^16 of them
  MaxNow                \* bound on the clock

\* u64::MAX milliseconds never come, and no deadline gets there.
ASSUME ServerAssumption ==
  /\ ServiceLists \subseteq Seq(Services)
  /\ FirstAdvertise \in Nat \ {0} /\ FirstQuery \in Nat \ {0}
  /\ ADVERTISE_INTERVAL \in Nat \ {0} /\ QUERY_INTERVAL \in Nat \ {0}
  /\ SLEN \in Nat /\ QLEN \in Nat /\ ALEN \in Nat
  /\ Alloc \/ SLEN > 0
  /\ MaxNow \in Nat /\ Never \in Nat /\ Never > MaxNow
  /\ TxidMod \in Nat /\ TxidMod > 1

\* What arrives is a message of either kind, or none; what it lists is a list.
ASSUME PacketsAssumption ==
  \A p \in Packets :
    /\ p.data.kind \in {"request", "response", "garbage"}
    /\ p.data.kind = "request" => p.data.queries \in Seq(Range(p.data.queries))
    /\ p.data.kind = "response" => p.data.answers \in Seq(Range(p.data.answers))

VARIABLES
  last_now,
  services,
  query_targets,
  local_ips,
  next_advertise,
  next_advertise_idx,
  next_query,
  next_query_idx,
  txid_query,
  next_txid,
  output                \* what the last call returned

vars == << last_now, services, query_targets, local_ips, next_advertise,
           next_advertise_idx, next_query, next_query_idx, txid_query,
           next_txid, output >>

timers == << next_advertise, next_advertise_idx, next_query, next_query_idx >>
config == << services, query_targets, local_ips >>

NoOutput == [kind |-> "none"]

Halted == output.kind = "panic"

Interfaces == {LocalIp(s) : s \in Services} \cup {q.local_ip : q \in QueryArgs}

DeclaredInterfaces(svcs) == {LocalIp(svcs[i]) : i \in DOMAIN svcs}

\* The distinct interfaces of the services in the order they first occur:
\* what the loop in new leaves in local_ips.
AreLocalIpsOf(ips, svcs) ==
  LET first(ip) == Min(HostedAt(svcs, ip))
  IN  /\ Range(ips) = DeclaredInterfaces(svcs)
      /\ \A i, j \in DOMAIN ips : i < j => first(ips[i]) < first(ips[j])

Init ==
  /\ last_now = 0
  /\ services \in ServiceLists
  /\ query_targets = <<>>
  /\ \E n \in 0 .. Len(services) :
       local_ips \in {ips \in [1 .. n -> DeclaredInterfaces(services)] :
                        AreLocalIpsOf(ips, services)}
  /\ next_advertise = IF services # <<>> THEN FirstAdvertise ELSE Never
  /\ next_advertise_idx = 0
  /\ next_query = IF services # <<>> THEN FirstQuery ELSE Never
  /\ next_query_idx = 0
  /\ txid_query = 0
  /\ next_txid = 1
  /\ output = IF ExtendFits(Len(services), SLEN)
              THEN NoOutput ELSE Panic("services.extend")

-----------------------------------------------------------------------------
(* query                                                                   *)

AddQueryTarget(targets, q) == PushNew(targets, q, SLEN)

\* MUTANT: two interfaces with one address and different netmasks are one.
AddLocalIpByAddr(ips, ip) ==
  IF \E i \in DOMAIN ips : ips[i].addr = ip.addr THEN ips ELSE VecPush(ips, ip, SLEN)
\* MUTANT: a known interface is added again.
AddLocalIpTwice(ips, ip) == VecPush(ips, ip, SLEN)
\* MUTANT: the new interface comes first and shifts the indices.
AddLocalIpInFront(ips, ip) == IF Contains(ips, ip) THEN ips ELSE <<ip>> \o ips

AddLocalIp(ips, ip) == PushNew(ips, ip, SLEN)

\* MUTANT: the query is brought forward, but not to this moment.
RearmedSoon == Min({next_query, last_now + 1})

\* Fire the next query immediately.
Rearmed == last_now

Query(q) ==
  /\ ~ Halted
  /\ query_targets' = AddQueryTarget(query_targets, q)
  /\ local_ips' = AddLocalIp(local_ips, q.local_ip)
  /\ next_query' = Rearmed
  /\ output' = NoOutput
  /\ UNCHANGED << last_now, services, next_advertise, next_advertise_idx,
                  next_query_idx, txid_query, next_txid >>

-----------------------------------------------------------------------------
(* handle(Input::Timeout(now)): an advertisement if one is due, else a     *)
(* query if one is due, else the next timeout.  An index counts from 0, a  *)
(* TLA+ sequence from 1; after a panic the other variables mean nothing.   *)

PollTimeout ==
  IF services = <<>> THEN next_query ELSE Min({next_advertise, next_query})

AdvertiseDue(now) == services # <<>> /\ now >= next_advertise

\* MUTANT: the deadline itself is not yet late enough.
QueryDueAfter(now) == local_ips # <<>> /\ now > next_query

QueryDue(now) == local_ips # <<>> /\ now >= next_query

\* MUTANT: off by one.
RoundOverLate(idx) == idx = Len(local_ips)

\* Was this the last interface of the round?
RoundOver(idx) == idx + 1 = Len(local_ips)

NextIdx(idx) == IF RoundOver(idx) THEN 0 ELSE idx + 1

\* MUTANT: every packet of the round moves the deadline.
NextDeadlineEach(idx, deadline, now, interval) == now + interval

NextDeadline(idx, deadline, now, interval) ==
  IF RoundOver(idx) THEN now + interval ELSE deadline

\* handle_timeout, first branch: one packet for the interface at the index.
Advertise(now) ==
  /\ ~ Halted
  /\ AdvertiseDue(now)
  /\ last_now' = now
  /\ output' = IF next_advertise_idx >= Len(local_ips)
               THEN Panic("local_ips[next_advertise_idx]")
               ELSE DoAdvertise(services, local_ips[next_advertise_idx + 1])
  /\ next_advertise_idx' = NextIdx(next_advertise_idx)
  /\ next_advertise' =
       NextDeadline(next_advertise_idx, next_advertise, now, ADVERTISE_INTERVAL)
  /\ UNCHANGED << config, next_query, next_query_idx, txid_query, next_txid >>

\* MUTANT: the counter does not wrap.
NextTxidUnbounded == next_txid + 1

NextTxid == (next_txid + 1) % TxidMod

\* handle_timeout, second branch, with the next_txid() call of do_query.
SendQuery(now) ==
  /\ ~ Halted
  /\ ~ AdvertiseDue(now)
  /\ QueryDue(now)
  /\ last_now' = now
  /\ txid_query' = next_txid
  /\ next_txid' = NextTxid
  /\ output' = IF next_query_idx >= Len(local_ips)
               THEN Panic("local_ips[next_query_idx]")
               ELSE DoQuery(services, query_targets,
                            local_ips[next_query_idx + 1], next_txid)
  /\ next_query_idx' = NextIdx(next_query_idx)
  /\ next_query' = NextDeadline(next_query_idx, next_query, now, QUERY_INTERVAL)
  /\ UNCHANGED << config, next_advertise, next_advertise_idx >>

\* handle_timeout, last branch.
Idle(now) ==
  /\ ~ Halted
  /\ ~ AdvertiseDue(now)
  /\ ~ QueryDue(now)
  /\ last_now' = now
  /\ output' = TimeoutAt(PollTimeout)
  /\ UNCHANGED << config, timers, txid_query, next_txid >>

-----------------------------------------------------------------------------
(* handle(Input::Packet(data, from))                                       *)

HandlePacket(p) ==
  /\ ~ Halted
  /\ output' =
       IF ~ ParseAccepts(p.data) THEN TimeoutAt(PollTimeout)
       ELSE IF p.data.kind = "request"
       THEN HandleRequest(services, local_ips, txid_query, PollTimeout, p.data, p.from)
       ELSE HandleResponse(services, query_targets, PollTimeout, p.data)
  /\ UNCHANGED << last_now, config, timers, txid_query, next_txid >>

-----------------------------------------------------------------------------

Later == last_now .. MaxNow

Next ==
  \/ \E now \in Later : Advertise(now) \/ SendQuery(now) \/ Idle(now)
  \/ \E q \in QueryArgs : Query(q)
  \/ \E p \in Packets : HandlePacket(p)

Spec == Init /\ [][Next]_vars

-----------------------------------------------------------------------------
(* Properties                                                              *)

\* The state has the types of the fields of struct Server, and what a call
\* returns is one of the variants of Output.
TypeOK ==
  /\ last_now \in 0 .. MaxNow
  /\ services \in ServiceLists
  /\ query_targets \in Seq(QueryArgs)
  /\ local_ips \in Seq(Interfaces)
  /\ next_advertise \in Nat /\ next_advertise_idx \in Nat
  /\ next_query \in Nat /\ next_query_idx \in Nat
  /\ txid_query \in 0 .. TxidMod - 1 /\ next_txid \in 0 .. TxidMod - 1
  /\ output.kind \in {"none", "timeout", "packet", "remote", "panic"}

\* No sequence of calls makes handle index past local_ips, unwrap the failed
\* find of the sending interface, or (without `alloc`) extend a full vector.
NoPanic == ~ Halted

\* A timeout call that finds nothing to do names a time later than its own:
\* a program that sleeps until then and calls again does not spin.
IdleTimeoutInFuture ==
  [][(\E now \in Later : Idle(now)) => output'.at > last_now']_vars

\* Every registered query target names an interface the query round visits:
\* without it the target would be kept and never asked for.
TargetsAreVisited ==
  \A i \in DOMAIN query_targets : query_targets[i].local_ip \in Range(local_ips)

\* local_ips starts with the interfaces of the services and never holds one
\* twice, so that a round serves no interface twice and misses no service.
InterfacesAreDistinct ==
  /\ IsInjective(local_ips)
  /\ DeclaredInterfaces(services) \subseteq Range(local_ips)

\* The two round indices point into local_ips while there is an interface,
\* and without one, or without a service, the respective duty is never due.
Bookkeeping ==
  /\ local_ips # <<>> =>
       next_advertise_idx < Len(local_ips) /\ next_query_idx < Len(local_ips)
  /\ local_ips = <<>> =>
       next_advertise_idx = 0 /\ next_query_idx = 0 /\ next_query = Never
  /\ services = <<>> => next_advertise = Never

\* What the documentation of Server says of its capacities (server.rs, 20):
\* specifying them too small does not make the server fail.
TooSmallDoesNotFail == ~ Halted
=============================================================================
