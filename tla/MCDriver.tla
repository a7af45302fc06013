------------------------------ MODULE MCDriver ------------------------------
(***************************************************************************)
(* Small instances of Driver.  Time is counted in seconds.                 *)
(***************************************************************************)
EXTENDS Driver

MCAddrBits == {"net", "h1", "h2"}
Addr(bits) == [fam |-> "v4", bits |-> bits]
MCMask == Addr({"net"})

LanA == [addr |-> Addr({"h1"}), mask |-> MCMask]
LanB == [addr |-> Addr({"net", "h1"}), mask |-> MCMask]

ServiceOn(local, instance) ==
  NewService(<<"t">>, instance, <<"host">>, local.addr, local.mask, 1)

S1 == ServiceOn(LanA, <<"i1">>)
S2 == ServiceOn(LanB, <<"i2">>)

MCServices == {S1, S2}
NoneOneOrTwo == {<<>>, <<S1>>, <<S1, S2>>}

MCQueryArgs == {[service_type |-> <<"u">>, local_ip |-> LanB]}

\* A question that S1 answers, a service nobody has told of, and noise.
Peer == [ip |-> Addr({"h2"})]
Asking ==
  Request(7, <<[name |-> <<"t">>, qtype |-> "PTR", qclass |-> "Multicast"]>>)
Telling ==
  Response(0, <<>>, AsAnswers(
    NewService(<<"t">>, <<"r">>, <<"peer">>, Peer.ip, MCMask, 1), "Multicast"))

MCPackets ==
  {[data |-> data, from |-> Peer] : data \in {Asking, Telling, [kind |-> "garbage"]}}
=============================================================================
