---------------------------- MODULE ServerPackets ----------------------------
(***************************************************************************)
(* A Server that remembers the packet it was last given, so that what it   *)
(* returned can be compared with what it was told.                         *)
(***************************************************************************)
EXTENDS Server

VARIABLE received

Nothing == [data |-> [kind |-> "none"]]

PInit == Init /\ received = Nothing

\* handle_packet leaves the server as it was but for what it returns, so a
\* packet right after a packet shows nothing that it does not show alone.
PNext ==
  \/ /\ \/ \E now \in Later : Advertise(now) \/ SendQuery(now) \/ Idle(now)
        \/ \E q \in QueryArgs : Query(q)
     /\ received' = Nothing
  \/ received = Nothing /\ \E p \in Packets : HandlePacket(p) /\ received' = p

PSpec == PInit /\ [][PNext]_<<vars, received>>

Replied  == received # Nothing /\ output.kind = "packet"
Reported == received # Nothing /\ output.kind = "remote"

-----------------------------------------------------------------------------
(* Requests                                                                *)

OnNetworkOf(s, ip) == IsSameNetwork(s.ip_address, s.netmask, ip)

\* A reply leaves from the address of an interface whose network the asker
\* is on, and speaks of no service that the asker could not reach.
ReplyStaysOnNetwork ==
  Replied =>
    /\ \E i \in DOMAIN local_ips :
         /\ local_ips[i].addr = output.cast.from
         /\ IsSameNetwork(local_ips[i].addr, local_ips[i].mask, received.from.ip)
    /\ \A a \in Range(output.msg.answers) :
         \E s \in Range(services) :
           /\ OnNetworkOf(s, received.from.ip)
           /\ a \in Range(AsAnswers(s, output.msg.queries[1].qclass))

\* The services a request asks for by type and can reach.
Wanted(request, ip) ==
  {s \in Range(services) :
     /\ OnNetworkOf(s, ip)
     /\ \E i \in DOMAIN request.queries :
          request.queries[i].qtype = "PTR" /\ request.queries[i].name = s.service_type}

\* Whoever asks for several types, or for a type several services have, is
\* told all of each of them and nothing twice, as long as answers have room.
ReplyIsComplete ==
  Replied =>
    LET answers == output.msg.answers
    IN  /\ IsInjective(answers)
        /\ \A s \in Wanted(output.msg, received.from.ip) :
             Range(AsAnswers(s, output.msg.queries[1].qclass)) \subseteq Range(answers)

\* A request for a service this host has is left without a reply only when
\* its id is that of the server's own last request.
AskerIsAnswered ==
  /\ received.data.kind = "request"
  /\ ParseAccepts(received.data)
  /\ Wanted(received.data, received.from.ip) # {}
  /\ received.data.id # txid_query
  => Replied

-----------------------------------------------------------------------------
(* Responses                                                               *)

\* The services that some PTR, SRV and address answers describe together.
Described(answers) ==
  LET Of(type) == {a \in Range(answers) : a.rec.type \in type}
  IN  {[ service_type  |-> t[1].name,
         instance_name |-> t[1].rec.name,
         hostname      |-> t[2].rec.target,
         ip_address    |-> t[3].rec.address,
         netmask       |-> NetmaskFull(t[3].rec.address.fam),
         port          |-> t[2].rec.port ] :
         t \in {u \in Of({"PTR"}) \X Of({"SRV"}) \X Of({"A", "AAAA"}) :
                  u[1].rec.name = u[2].name /\ u[2].rec.target = u[3].name}}

IsOwn(s) ==
  \E i \in DOMAIN services :
    /\ s.instance_name = services[i].instance_name
    /\ s.ip_address = services[i].ip_address
    /\ s.port = services[i].port

TypesOfInterest ==
  {services[i].service_type : i \in DOMAIN services}
  \cup {query_targets[i].service_type : i \in DOMAIN query_targets}

\* Services that should be reported when a response describes them in full.
News(answers) ==
  {s \in Described(answers) :
     /\ s.service_type \in TypesOfInterest
     /\ ~ IsOwn(s)
     /\ <<>> \notin {s.service_type, s.instance_name, s.hostname}
     /\ s.ip_address # DefaultAddr
     /\ s.port # 0}

\* A reported service is put together from answers of one response that
\* belong to each other, is of a type this server looks for and not its own.
RemoteIsNews == Reported => output.service \in News(received.data.answers)

\* Each instance has one SRV answer and each host one address.
Unambiguous(answers) ==
  \A a, b \in Range(answers) :
    (a.name = b.name /\ a.rec.type # "PTR" /\ b.rec.type # "PTR"
       /\ (a.rec.type = "SRV" <=> b.rec.type = "SRV")
       /\ (a.rec.type = "TXT" <=> b.rec.type = "TXT"))
    => a.rec = b.rec

\* In whatever order the answers come, news in an unambiguous response is
\* not lost: something new is reported.
NewsIsReported ==
  /\ received.data.kind = "response"
  /\ ParseAccepts(received.data)
  /\ Unambiguous(received.data.answers)
  /\ News(received.data.answers) # {}
  => Reported
=============================================================================
