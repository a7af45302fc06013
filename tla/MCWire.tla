-------------------------------- MODULE MCWire --------------------------------
(***************************************************************************)
(* Small instances of Wire: the messages of a server with up to two        *)
(* services whose names share suffixes of different lengths.               *)
(***************************************************************************)
EXTENDS Wire

MCAddrBits == {"h1"}
Address == [fam |-> "v4", bits |-> {"h1"}]
Address6 == [fam |-> "v6", bits |-> {"h1"}]

ServiceAt(instance, type, host, address) ==
  NewService(type, instance, host, address, NetmaskFull(address.fam), 1)

Udp == <<"udp", "local">>
S1 == ServiceAt(<<"i1">>, <<"a">> \o Udp, <<"h", "local">>, Address)
S2 == ServiceAt(<<"i2">>, <<"b">> \o Udp, <<"a", "local">>, Address6)
S3 == ServiceAt(<<"i1">>, <<"sub", "a">> \o Udp, <<"h2", "h", "local">>, Address)

Pairs == {<<S1>>, <<S1, S2>>, <<S3, S1>>}

Announcing(services, aclass) ==
  FlattenSeq([i \in DOMAIN services |-> AsAnswers(services[i], aclass)])

QueryFor(services) == [i \in DOMAIN services |-> PtrQuery(services[i].service_type)]

\* Names that each add a segment in front of the name before.
Nested == [i \in 1 .. 6 |-> SubSeq(<<"n6", "n5", "n4", "n3", "n2", "n1">>, 7 - i, 6)]

Chain(n) == Request(1, [i \in 1 .. n |-> PtrQuery(Nested[i])])

\* The longest of them is asked for again.
ChainTwice(n) == Request(1, Append(Chain(n).queries, PtrQuery(Nested[n])))

MCMessages ==
  {Response(0, <<>>, Announcing(s, "Multicast")) : s \in Pairs}
  \cup {Response(1, QueryFor(s), Announcing(s, "IN")) : s \in Pairs}
  \cup {Request(1, QueryFor(s)) : s \in Pairs}
  \cup {Chain(5), Chain(6), ChainTwice(4)}

\* What the round trip is proved for.
ASSUME MCApart == \A m \in MCMessages : PartsApart(m)

\* The host bears the name of the instance.
SameName == ServiceAt(<<"i1">>, <<"a">> \o Udp, <<"i1">>, Address)
SameNames == {Response(0, <<>>, Announcing(<<SameName>>, "Multicast"))}

AllRooms == 0 .. 130
LargeRoom == {130}
=============================================================================
