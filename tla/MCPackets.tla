------------------------------ MODULE MCPackets ------------------------------
(***************************************************************************)
(* Small instances of ServerPackets: a host on two networks, and what      *)
(* peers, strangers and the host itself may have put on the wire.          *)
(***************************************************************************)
EXTENDS ServerPackets

MCAddrBits == {"net", "h1", "h2"}
V4(bits) == [fam |-> "v4", bits |-> bits]
MCMask == V4({"net"})

LanA == [addr |-> V4({"h1"}), mask |-> MCMask]
LanB == [addr |-> V4({"net", "h1"}), mask |-> MCMask]

ServiceOn(local, instance, type) ==
  NewService(type, instance, <<"host">>, local.addr, local.mask, 1)

S1 == ServiceOn(LanA, <<"i1">>, <<"t">>)
S2 == ServiceOn(LanB, <<"i2">>, <<"t">>)
S3 == ServiceOn(LanA, <<"i3">>, <<"u">>)

MCServices == {S1, S2, S3}
NoneOrSeveral == {<<>>, <<S1, S2, S3>>}

MCQueryArgs ==
  {[service_type |-> <<"u">>, local_ip |-> LanA],
   [service_type |-> <<"t">>, local_ip |-> LanB]}

-----------------------------------------------------------------------------
(* Requests: about the declared types and others, from hosts of either     *)
(* network and from one that is on no network of this host.                *)

Question(name, qtype, qclass) == [name |-> name, qtype |-> qtype, qclass |-> qclass]

Questions ==
  { Question(<<"t">>, "PTR", "IN"), Question(<<"u">>, "PTR", "Multicast"),
    Question(<<"t">>, "A", "IN"), Question(<<"x">>, "PTR", "IN") }

Askers ==
  {[ip |-> V4({"h2"})], [ip |-> V4({"net", "h2"})],
   [ip |-> [fam |-> "v6", bits |-> {"h2"}]]}

Requests ==
  {[data |-> Request(id, qs), from |-> from] :
     id \in {0, 1}, qs \in SeqOf(Questions, 2), from \in Askers}
  \cup {[data |-> [kind |-> "garbage"], from |-> from] : from \in Askers}

-----------------------------------------------------------------------------
(* Responses: any answers of this pool, in any order, each at most once.   *)
(* The instance r1 also has a subtype that nobody here looks for.          *)

PtrOf(type, instance) ==
  [ name |-> type, aclass |-> "IN",
    rec  |-> [type |-> "PTR", name |-> instance \o <<"t">>] ]
Ptr(instance) == PtrOf(<<"t">>, instance)
Srv(instance, host, port) ==
  [ name |-> instance \o <<"t">>, aclass |-> "IN",
    rec  |-> [type |-> "SRV", port |-> port, target |-> host] ]
Address(host, ip) ==
  [ name |-> host, aclass |-> "IN", rec |-> [type |-> "A", address |-> ip] ]
Other == [ name |-> <<"peer">>, aclass |-> "IN", rec |-> [type |-> "other"] ]

AnswerPool ==
  { Ptr(<<"r1">>), Srv(<<"r1">>, <<"peer">>, 1), Srv(<<"r1">>, <<"host">>, 2),
    Address(<<"peer">>, V4({"h2"})), Address(<<"peer">>, V4({"net", "h2"})),
    PtrOf(<<"sub">>, <<"r1">>), Ptr(<<"i1">>), Srv(<<"i1">>, <<"host">>, 1), Address(<<"host">>, LanA.addr),
    Other }

Responses ==
  {[data |-> Response(0, <<>>, answers), from |-> [ip |-> V4({"h2"})]] :
     answers \in {s \in SeqOf(AnswerPool, 4) : IsInjective(s)}}
AnyPackets == Requests \cup Responses
=============================================================================
