---------------------------- MODULE ServerRounds ----------------------------
(***************************************************************************)
(* A Server with a memory of what its packets said: which services a round *)
(* of advertisements announced, which names a round of queries asked for,  *)
(* and which query targets were never asked for since query registered     *)
(* them.  The memory reads the packets and never influences the server.    *)
(***************************************************************************)
EXTENDS Server

VARIABLES
  announced,    \* service index -> how often the round announced it
  advertised,   \* has anything been advertised yet?
  owed,         \* the <<name, interface>> due when the query round started
  asked,        \* those the round has asked for
  unasked       \* targets never asked for: [target, midround]

history == << announced, advertised, owed, asked, unasked >>

\* Names an interface has to be asked for.
Due ==
  {<< services[i].service_type, LocalIp(services[i]) >> : i \in DOMAIN services}
  \cup {<< q.service_type, q.local_ip >> : q \in Range(query_targets)}

Announces(packet, s) ==
  /\ packet.cast.from = s.ip_address
  /\ Range(AsAnswers(s, "Multicast")) \subseteq Range(packet.msg.answers)

RInit ==
  /\ Init
  /\ announced = [i \in DOMAIN services |-> 0]
  /\ advertised = FALSE
  /\ owed = {}
  /\ asked = {}
  /\ unasked = {}

RAdvertise(now) ==
  /\ Advertise(now)
  /\ announced' =
       [i \in DOMAIN services |->
          (IF next_advertise_idx = 0 THEN 0 ELSE announced[i])
          + (IF output'.kind = "packet" /\ Announces(output', services[i])
             THEN 1 ELSE 0)]
  /\ advertised' = TRUE
  /\ UNCHANGED << owed, asked, unasked >>

AskedBy(packet, local) ==
  {<< packet.msg.queries[i].name, local >> : i \in DOMAIN packet.msg.queries}

RSendQuery(now) ==
  /\ SendQuery(now)
  /\ output'.kind = "packet"
  /\ LET new == AskedBy(output', local_ips[next_query_idx + 1])
     IN  /\ asked' = new \cup (IF next_query_idx = 0 THEN {} ELSE asked)
         /\ unasked' = {u \in unasked : u.target \notin new}
  /\ owed' = IF next_query_idx = 0 THEN Due ELSE owed
  /\ UNCHANGED << announced, advertised >>

RQuery(q) ==
  /\ Query(q)
  /\ unasked' =
       IF query_targets' = query_targets THEN unasked
       ELSE unasked \cup {[ target   |-> << q.service_type, q.local_ip >>,
                            midround |-> next_query_idx # 0 ]}
  /\ UNCHANGED << announced, advertised, owed, asked >>

RNext ==
  \/ \E now \in Later :
       \/ RAdvertise(now)
       \/ RSendQuery(now)
       \/ Idle(now) /\ UNCHANGED history
  \/ \E q \in QueryArgs : RQuery(q)

RSpec == RInit /\ [][RNext]_<<vars, history>>

-----------------------------------------------------------------------------
(* The two duties, each a sequence of rounds (PeriodicRound).              *)

Served(idx) == {local_ips[k] : k \in 1 .. idx}

Adverts == INSTANCE PeriodicRound WITH
  Interval <- ADVERTISE_INTERVAL, Urgent <- TRUE, Rearms <- FALSE,
  clock <- last_now, deadline <- next_advertise,
  ifaces <- Range(local_ips), served <- Served(next_advertise_idx)

Queries == INSTANCE PeriodicRound WITH
  Interval <- QUERY_INTERVAL, Urgent <- FALSE, Rearms <- TRUE,
  clock <- last_now, deadline <- next_query,
  ifaces <- Range(local_ips), served <- Served(next_query_idx)

\* Advertising is a sequence of rounds: each serves every interface once and
\* the next starts ADVERTISE_INTERVAL after it ended, whatever the queries,
\* registrations and late or early timeouts in between.
AdvertsAreRounds == Adverts!Spec

\* Querying is a sequence of rounds, made due at once by a registration.
QueriesAreRounds == Queries!Spec

-----------------------------------------------------------------------------
(* What a round is good for.                                               *)

\* When a round of advertisements has ended, each service has been announced
\* in it exactly once, from its own address; before, at most once.
RoundAnnouncesAll ==
  /\ \A i \in DOMAIN announced : announced[i] <= 1
  /\ advertised /\ next_advertise_idx = 0 =>
       \A i \in DOMAIN announced : announced[i] = 1

\* When a round of queries has ended, everything that was due at its start
\* has been asked for on its interface, though registrations and adverts
\* came in between.
RoundAsksAll == next_query_idx = 0 => owed \subseteq asked

\* A target registered between two rounds is asked for before a timeout call
\* next finds nothing to do.
AskedBeforeIdle ==
  [][(\E now \in Later : Idle(now)) =>
       \A u \in unasked : u.midround]_<<vars, history>>

\* What the documentation of query says of every target (server.rs, 180 and
\* 219): it is asked for immediately, on the next timeout.  Timeouts that
\* send something else first are allowed for.
FirstQueryIsImmediate ==
  [][(\E now \in Later : Idle(now)) => unasked = {}]_<<vars, history>>
=============================================================================
