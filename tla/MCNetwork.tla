------------------------------ MODULE MCNetwork ------------------------------
(***************************************************************************)
(* A small instance of Network: two hosts on two networks.  One declares a *)
(* service on each, the other a service on the first and, on the second,   *)
(* only looks for those of the same type.  The units of time keep the      *)
(* order of the 3, 5, 15 and 19 seconds of the code.                       *)
(***************************************************************************)
EXTENDS Network

MCAddrBits == {"net", "h1", "h2"}
V4(bits) == [fam |-> "v4", bits |-> bits]
Local(bits) == [addr |-> V4(bits), mask |-> V4({"net"})]

ServiceOn(local, instance, host) ==
  NewService(<<"t">>, instance, host, local.addr, local.mask, 1)

MCNodes == {"a", "b"}

MCDeclared ==
  [ a |-> << ServiceOn(Local({"h1"}), <<"i1">>, <<"a">>),
             ServiceOn(Local({"net", "h1"}), <<"i2">>, <<"a">>) >>,
    b |-> << ServiceOn(Local({"h2"}), <<"i3">>, <<"b">>) >> ]

MCTargets ==
  [ a |-> <<>>,
    b |-> << [service_type |-> <<"t">>, local_ip |-> Local({"net", "h2"})] >> ]
=============================================================================
