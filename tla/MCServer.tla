------------------------------ MODULE MCServer ------------------------------
(***************************************************************************)
(* Small instances of ServerRounds.  Time is counted in units of about     *)
(* three seconds: 1, 2, 5 and 6 stand for the 3, 5, 15 and 19 seconds of   *)
(* the code and keep their order.                                          *)
(***************************************************************************)
EXTENDS ServerRounds

\* Addresses of two networks, told apart by the bit "net".
MCAddrBits == {"net", "h1", "h2"}
Addr(bits) == [fam |-> "v4", bits |-> bits]
MCMask == Addr({"net"})

\* The two networks this host is on, and one more way to name the first.
LanA == [addr |-> Addr({"h1"}), mask |-> MCMask]
LanB == [addr |-> Addr({"net", "h1"}), mask |-> MCMask]
LanAFull == [addr |-> Addr({"h1"}), mask |-> Addr(MCAddrBits)]

ServiceOn(local, instance, type) ==
  NewService(type, instance, <<"host">>, local.addr, local.mask, 1)

S1 == ServiceOn(LanA, <<"i1">>, <<"t">>)
S2 == ServiceOn(LanB, <<"i2">>, <<"t">>)
S3 == ServiceOn(LanA, <<"i3">>, <<"u">>)

MCServices == {S1, S2, S3}

AnyList == {<<>>, <<S1>>, <<S1, S2, S3>>}
TwoOnOneInterface == {<<S1, S3>>}
Several == {<<S1, S2, S3>>}

Target(type, local) == [service_type |-> type, local_ip |-> local]

MCQueryArgs ==
  {Target(<<"u">>, LanA), Target(<<"v">>, LanB), Target(<<"v">>, LanAFull)}

\* One more target than there is room for.
ManyQueryArgs == MCQueryArgs \cup {Target(<<"w">>, LanA)}

NoPackets == {}
=============================================================================
