----------------------------- MODULE ServiceInfo -----------------------------
(***************************************************************************)
(* Declared and discovered services (src/src/service_info.rs) and the DNS  *)
(* answers they are turned into and rebuilt from.                          *)
(*                                                                         *)
(* A name (dns::Label) is the sequence of its segments: two labels are     *)
(* equal exactly when their segments are, and the empty label is <<>>.     *)
(* An IP address or netmask is a family with the set of its one bits, so   *)
(* that `ip & mask` is an intersection.                                    *)
(***************************************************************************)
EXTENDS OpslagVec, FiniteSetsExt

CONSTANTS
  LLEN,       \* parts in a label; a label made from text is one part
  SLEN,       \* capacity for services, query targets, local IPs
  AddrBits    \* the bit positions of an address

DefaultAddr == [fam |-> "v4", bits |-> {}]
NetmaskFull(fam) == [fam |-> fam, bits |-> AddrBits]

IsSameNetwork(ip, netmask, other) ==
  /\ ip.fam = netmask.fam
  /\ ip.fam = other.fam
  /\ ip.bits \cap netmask.bits = other.bits \cap netmask.bits

\* A label without room for a second part stays what it was (push_front).
PushFront(part, label) == IF HasRoom(<<label>>, LLEN) THEN part \o label ELSE label

NewService(service_type, instance, hostname, ip, netmask, port) ==
  [ service_type  |-> service_type,
    instance_name |-> PushFront(instance, service_type),
    hostname      |-> hostname,
    ip_address    |-> ip,
    netmask       |-> netmask,
    port          |-> port ]

-----------------------------------------------------------------------------
(* A service as answers.  The time to live follows from the record type    *)
(* and nothing reads it, so it is left out.                                *)

PtrAnswer(s) ==
  [ name |-> s.service_type, aclass |-> "IN",
    rec  |-> [type |-> "PTR", name |-> s.instance_name] ]

SrvAnswer(s, aclass) ==
  [ name |-> s.instance_name, aclass |-> aclass,
    rec  |-> [type |-> "SRV", port |-> s.port, target |-> s.hostname] ]

TxtAnswer(s, aclass) ==
  [ name |-> s.instance_name, aclass |-> aclass, rec |-> [type |-> "TXT"] ]

IpAnswer(s, aclass) ==
  LET v4 == s.ip_address.fam = "v4"
  IN  [ name   |-> s.hostname,
        aclass |-> IF v4 THEN aclass ELSE "IN",
        rec    |-> [ type    |-> IF v4 THEN "A" ELSE "AAAA",
                     address |-> s.ip_address ] ]

AnswersPerService == 4

AsAnswers(s, aclass) ==
  << PtrAnswer(s), SrvAnswer(s, aclass), TxtAnswer(s, aclass),
     IpAnswer(s, aclass) >>

-----------------------------------------------------------------------------
(* Services rebuilt from the answers of a response.                        *)

\* Step 1: a stub for every PTR answer, while there is room.
PtrStub(answer) ==
  [ service_type  |-> answer.name,
    instance_name |-> answer.rec.name,
    hostname      |-> <<>>,
    ip_address    |-> DefaultAddr,
    netmask       |-> DefaultAddr,
    port          |-> 0 ]

PtrStubs(answers) ==
  LET ptrs == Retain(answers, {i \in DOMAIN answers : answers[i].rec.type = "PTR"})
  IN  VecPushAll([i \in DOMAIN ptrs |-> PtrStub(ptrs[i])], SLEN)

\* MUTANT: whatever their name.
MentionsAny(answers, types, name) ==
  {i \in DOMAIN answers : answers[i].rec.type \in types}

\* The answers of these record types that carry this name.
Mentions(answers, types, name) ==
  {i \in DOMAIN answers : answers[i].rec.type \in types /\ answers[i].name = name}

\* Step 2: every matching SRV answer overwrites, so the last one stays.
MergeSrv(stub, answers) ==
  LET hits == Mentions(answers, {"SRV"}, stub.instance_name)
      srv  == answers[Max(hits)].rec
  IN  IF hits = {} THEN stub
      ELSE [stub EXCEPT !.hostname = srv.target, !.port = srv.port]

\* Step 3: the last address answer of the stub's host stays.
MergeAddress(stub, answers) ==
  LET hits == Mentions(answers, {"A", "AAAA"}, stub.hostname)
      ip   == answers[Max(hits)].rec.address
  IN  IF hits = {} THEN stub
      ELSE [stub EXCEPT !.ip_address = ip, !.netmask = NetmaskFull(ip.fam)]

\* Final step: what may be retained.
IsComplete(stub) ==
  /\ stub.service_type # <<>>
  /\ stub.instance_name # <<>>
  /\ stub.hostname # <<>>
  /\ stub.ip_address # DefaultAddr
  /\ stub.port # 0

FromAnswers(answers) ==
  LET stubs  == PtrStubs(answers)
      merged == [i \in DOMAIN stubs |->
                   MergeAddress(MergeSrv(stubs[i], answers), answers)]
  IN  Retain(merged, {i \in DOMAIN merged : IsComplete(merged[i])})
=============================================================================
