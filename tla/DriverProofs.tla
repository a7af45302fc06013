---------------------------- MODULE DriverProofs ----------------------------
(***************************************************************************)
(* The loop is a legal caller of the server, and its stale next_timeout is *)
(* never slept on, for every declaration, every period and every slowness  *)
(* of the loop.  Time is the reason for both: what the loop hands to the   *)
(* server as now is a clock it read before, and a next_timeout that is no  *)
(* longer that of the server has passed, so that the loop calls again.     *)
(***************************************************************************)
EXTENDS Driver, ServerProofs

\* What the next input is, in each place where there is one.
InputOK ==
  /\ input.kind \in {"timeout", "packet"}
  /\ input.kind = "timeout" => /\ input.at \in 0 .. clock
                               /\ pc = "handle" => last_now <= input.at
  /\ input.kind = "packet" => input.packet \in Packets

\* The server's time is not ahead of the clock.
ClockOK == clock \in 0 .. MaxNow /\ last_now \in 0 .. clock

\* next_timeout is what the server waits for, or it has passed.
TimeoutFresh ==
  /\ next_timeout \in Nat
  /\ pc = "handle" /\ input.kind = "timeout" => next_timeout <= input.at
  /\ pc = "handle" /\ input.kind = "packet" => next_timeout = PollTimeout
  /\ pc = "match" =>
       IF output.kind = "timeout" THEN output.at = PollTimeout
       ELSE next_timeout <= clock \/ next_timeout = PollTimeout
  /\ pc = "recv" => next_timeout = PollTimeout

LoopInv == IndInv /\ InputOK /\ ClockOK /\ TimeoutFresh

-----------------------------------------------------------------------------
(* One lemma for each kind of step                                         *)

\* The loop begins in the invariant.
LEMMA InitLoopInv == DInit => LoopInv
  <1> SUFFICES ASSUME DInit PROVE LoopInv
    OBVIOUS
  <1>1. IndInv /\ last_now = 0
    BY InitIndInv DEF DInit, Init
  <1>2. InputOK
    BY <1>1 DEF DInit, InputOK, TimeoutInput
  <1>3. ClockOK
    BY <1>1, ServerAssumption DEF DInit, ClockOK
  <1>4. TimeoutFresh
    BY DEF DInit, TimeoutFresh
  <1>5. QED
    BY <1>1, <1>2, <1>3, <1>4 DEF LoopInv

\* A call of handle is a step of the server, at a time that is not before
\* its last one, or with a packet that may arrive.
LEMMA HandleCallIsStep ==
  ASSUME LoopInv, HandleCall
  PROVE  /\ Next
         /\ input.kind = "timeout" =>
              /\ input.at \in Later
              /\ Advertise(input.at) \/ SendQuery(input.at) \/ Idle(input.at)
         /\ input.kind = "packet" => HandlePacket(input.packet)
  <1>1. CASE input.kind = "timeout"
    <2>1. /\ input.at \in 0 .. clock /\ last_now <= input.at
          /\ clock \in 0 .. MaxNow /\ last_now \in 0 .. clock
      BY <1>1 DEF LoopInv, InputOK, ClockOK, HandleCall
    <2>2. input.at \in Later
      BY <2>1, ServerAssumption DEF Later
    <2>3. Advertise(input.at) \/ SendQuery(input.at) \/ Idle(input.at)
      BY <1>1 DEF HandleCall
    <2>4. QED
      BY <1>1, <2>2, <2>3 DEF Next
  <1>2. CASE input.kind = "packet"
    BY <1>2 DEF LoopInv, InputOK, HandleCall, Next
  <1>3. QED
    BY <1>1, <1>2 DEF LoopInv, InputOK

\* The server's time after a call.
LEMMA HandleCallTime ==
  ASSUME LoopInv, HandleCall
  PROVE  last_now' = IF input.kind = "timeout" THEN input.at ELSE last_now
  BY HandleCallIsStep DEF LoopInv, InputOK, Advertise, SendQuery, Idle, HandlePacket

\* Of what handle returns only a timeout is a new next_timeout, and it is
\* the one of the server.
LEMMA HandleCallTimeout ==
  ASSUME LoopInv, HandleCall
  PROVE  /\ output'.kind = "timeout" => output'.at = PollTimeout'
         /\ output'.kind # "timeout" =>
              next_timeout <= clock \/ next_timeout = PollTimeout'
  <1>1. CASE input.kind = "timeout" /\ Idle(input.at)
    BY <1>1 DEF Idle, TimeoutAt, PollTimeout, config, timers
  <1>2. CASE input.kind = "timeout" /\ ~ Idle(input.at)
    <2>1. output'.kind # "timeout"
      <3>1. Advertise(input.at) => output'.kind \in {"packet", "panic"}
        BY OutputKinds DEF Advertise, Panic
      <3>2. SendQuery(input.at) => output'.kind \in {"packet", "panic"}
        BY OutputKinds DEF SendQuery, Panic
      <3>3. QED
        BY <1>2, <3>1, <3>2, HandleCallIsStep
    <2>2. next_timeout <= clock
      BY <1>2 DEF HandleCall, LoopInv, TimeoutFresh, InputOK, ClockOK
    <2>3. QED
      BY <2>1, <2>2
  <1>3. CASE input.kind = "packet"
    <2>1. HandlePacket(input.packet) /\ PollTimeout' = PollTimeout
      BY <1>3, HandleCallIsStep DEF HandlePacket, PollTimeout, config, timers
    <2>2. next_timeout = PollTimeout
      BY <1>3 DEF HandleCall, LoopInv, TimeoutFresh
    <2>3. output'.kind = "timeout" => output'.at = PollTimeout
      BY <2>1 DEF HandlePacket, HandleRequest, HandleResponse, TimeoutAt, Packet,
                  Panic, Remote
    <2>4. QED
      BY <2>1, <2>2, <2>3
  <1>4. QED
    BY <1>1, <1>2, <1>3 DEF LoopInv, InputOK

\* A call of handle keeps it, whichever input it is given.
LEMMA HandleCallLoopInv ==
  ASSUME LoopInv, HandleCall
  PROVE  LoopInv'
  <1>1. IndInv'
    BY HandleCallIsStep, NextIndInv DEF LoopInv
  <1>2. pc' \in {"match", "stopped"} /\ UNCHANGED << clock, next_timeout, input >>
    BY DEF HandleCall
  <1>3. ClockOK'
    BY <1>2, HandleCallTime DEF LoopInv, InputOK, ClockOK
  <1>4. InputOK'
    BY <1>2 DEF LoopInv, InputOK
  <1>5. TimeoutFresh'
    BY <1>2, HandleCallTimeout DEF LoopInv, TimeoutFresh
  <1>6. QED
    BY <1>1, <1>3, <1>4, <1>5 DEF LoopInv

\* So does a call of query before the loop.
LEMMA RegisterLoopInv ==
  ASSUME LoopInv, NEW q \in QueryArgs, Register(q)
  PROVE  LoopInv'
  <1>1. Query(q) /\ pc = "setup" /\ UNCHANGED << pc, clock, next_timeout, input >>
    BY DEF Register, loop
  <1>2. IndInv'
    BY <1>1, QueryIndInv DEF LoopInv
  <1>3. last_now' = last_now
    BY <1>1 DEF Query
  <1>4. InputOK' /\ ClockOK' /\ TimeoutFresh'
    BY <1>1, <1>3 DEF LoopInv, InputOK, ClockOK, TimeoutFresh
  <1>5. QED
    BY <1>2, <1>4 DEF LoopInv

\* A server that nobody calls stays what it is.
LEMMA ServerAlone ==
  ASSUME LoopInv, UNCHANGED vars
  PROVE  IndInv' /\ PollTimeout' = PollTimeout /\ last_now' = last_now /\ output' = output
  BY NextIndInv DEF LoopInv, vars, PollTimeout

\* The subtraction saturates: no time to wait is a time that has come.
LEMMA DueIsPast ==
  ASSUME NEW t \in Nat, clock \in Nat, MillisUntil(t) = 0
  PROVE  t <= clock
  BY DEF MillisUntil

\* So does the look at the output and at the clock.
LEMMA MatchOutputLoopInv ==
  ASSUME LoopInv, MatchOutput
  PROVE  LoopInv'
  <1>1. UNCHANGED vars /\ UNCHANGED clock /\ pc = "match"
    BY DEF MatchOutput
  <1>2. PollTimeout \in Nat
    BY PollTimeoutType DEF LoopInv, IndInv
  <1>3. next_timeout' \in Nat /\ (next_timeout' <= clock \/ next_timeout' = PollTimeout)
    BY <1>1, <1>2 DEF MatchOutput, LoopInv, TimeoutFresh
  <1>4. CASE MillisUntil(next_timeout') = 0
    <2>1. pc' = "handle" /\ input' = TimeoutInput(clock)
      BY <1>4 DEF MatchOutput, ReadClock
    <2>2. next_timeout' <= clock
      <3>1. clock \in Nat
        BY ServerAssumption DEF LoopInv, ClockOK
      <3>2. QED
        BY <1>3, <1>4, <3>1, DueIsPast
    <2>3. InputOK' /\ ClockOK' /\ TimeoutFresh'
      BY <1>1, <1>3, <2>1, <2>2, ServerAlone
         DEF LoopInv, InputOK, ClockOK, TimeoutFresh, TimeoutInput
    <2>4. QED
      BY <1>1, <2>3, ServerAlone DEF LoopInv
  <1>5. CASE MillisUntil(next_timeout') # 0
    <2>1. pc' = "recv" /\ input' = input
      BY <1>5 DEF MatchOutput
    <2>2. next_timeout' > clock
      BY <1>5 DEF MillisUntil
    <2>3. next_timeout' = PollTimeout
      BY <1>3, <2>2 DEF LoopInv, ClockOK
    <2>4. InputOK' /\ ClockOK' /\ TimeoutFresh'
      BY <1>1, <1>3, <2>1, <2>3, ServerAlone
         DEF LoopInv, InputOK, ClockOK, TimeoutFresh
    <2>5. QED
      BY <1>1, <2>4, ServerAlone DEF LoopInv
  <1>6. QED
    BY <1>4, <1>5

\* The steps in which the loop waits or ends.
LEMMA WaitingLoopInv ==
  ASSUME LoopInv,
         \/ Begin \/ SendFails \/ WouldBlock \/ ReceiveFails \/ Tick
         \/ \E p \in Packets : Receive(p)
  PROVE  LoopInv'
  <1> USE DEF LoopInv, InputOK, ClockOK, TimeoutFresh
  <1>1. CASE Begin
    BY <1>1, ServerAlone DEF Begin, TimeoutInput
  <1>2. CASE SendFails
    BY <1>2, ServerAlone DEF SendFails
  <1>3. CASE WouldBlock
    BY <1>3, ServerAlone DEF WouldBlock, WaitIsOver, MillisUntil, ReadClock, TimeoutInput
  <1>4. CASE ReceiveFails
    BY <1>4, ServerAlone DEF ReceiveFails
  <1>5. CASE Tick
    BY <1>5, ServerAlone, ServerAssumption DEF Tick
  <1>6. CASE \E p \in Packets : Receive(p)
    BY <1>6, ServerAlone DEF Receive, PacketInput
  <1>7. QED
    BY <1>1, <1>2, <1>3, <1>4, <1>5, <1>6

\* Hence every step keeps it,
LEMMA NextLoopInv == LoopInv /\ [DNext]_<<vars, loop>> => LoopInv'
  <1> SUFFICES ASSUME LoopInv, [DNext]_<<vars, loop>> PROVE LoopInv'
    OBVIOUS
  <1>1. CASE HandleCall
    BY <1>1, HandleCallLoopInv
  <1>2. CASE MatchOutput
    BY <1>2, MatchOutputLoopInv
  <1>3. CASE \E q \in QueryArgs : Register(q)
    BY <1>3, RegisterLoopInv
  <1>4. CASE \/ Begin \/ SendFails \/ WouldBlock \/ ReceiveFails \/ Tick
             \/ \E p \in Packets : Receive(p)
    BY <1>4, WaitingLoopInv
  <1>5. CASE UNCHANGED << vars, loop >>
    BY <1>5, ServerAlone DEF loop, LoopInv, InputOK, ClockOK, TimeoutFresh
  <1>6. QED
    BY <1>1, <1>2, <1>3, <1>4, <1>5 DEF DNext

-----------------------------------------------------------------------------

\* and it holds throughout.
LEMMA LoopInvariance == DSpec => []LoopInv
  BY InitLoopInv, NextLoopInv, PTL DEF DSpec

\* The loop never sleeps on a timeout that is not the server's: any packet,
\* reply or discovery that came between left it due or as it was.
THEOREM NeverSleepsOnStaleTimeout == DSpec => []SleepsUntilDue
  <1>1. LoopInv => SleepsUntilDue
    BY DEF LoopInv, TimeoutFresh, SleepsUntilDue
  <1>2. QED
    BY LoopInvariance, <1>1, PTL

\* Whatever the delays, every step of the loop is one of the server or none:
\* time never goes back, and what is proved of the server holds in the loop.
THEOREM LoopRefinesServer == DSpec => LoopIsServerRun
  <1>1. DInit => Init
    BY DEF DInit
  <1>2. LoopInv /\ [DNext]_<<vars, loop>> => [Next]_vars
    <2> SUFFICES ASSUME LoopInv, [DNext]_<<vars, loop>> PROVE [Next]_vars
      OBVIOUS
    <2>1. CASE HandleCall
      BY <2>1, HandleCallIsStep
    <2>2. CASE \E q \in QueryArgs : Register(q)
      BY <2>2 DEF Register, Next
    <2>3. CASE UNCHANGED vars
      BY <2>3
    <2>4. QED
      BY <2>1, <2>2, <2>3 DEF DNext, Begin, MatchOutput, SendFails, WouldBlock,
                              ReceiveFails, Tick, Receive
  <1>3. QED
    BY <1>1, <1>2, LoopInvariance, PTL DEF DSpec, LoopIsServerRun, Spec

-----------------------------------------------------------------------------
(* How late a round may be                                                 *)

\* What n iterations of the loop may take.
Iterations(n) == Slack * (2 * n)

\* The parts of Driver that no deadline depends on.
LagOK ==
  /\ lag \in 0 .. Slack
  /\ pc = "setup" => clock = 0 /\ lag = 0

\* How old a timeout input is, how long a wait is over that the loop has not
\* come back from, and how long a packet has been keeping it.
WakesInTime ==
  /\ pc = "handle" /\ input.kind = "timeout" => clock <= input.at + lag
  /\ pc = "recv" => clock <= PollTimeout + lag
  /\ pc = "handle" /\ input.kind = "packet" => clock <= PollTimeout + Slack + lag

\* Up to three steps may pass before an iteration looks at a deadline that
\* has come.  The last of them ends as the iteration begins.
Woken == (pc = "handle" /\ input.kind = "timeout") \/ pc = "match"
Delay == (IF pc = "match" THEN 2 * Slack ELSE 3 * Slack) + lag

\* An advertisement round has fallen behind by the iterations that it took.
AdvertsProgress ==
  Woken /\ services # <<>> =>
    clock <= next_advertise + Delay + Iterations(next_advertise_idx)

\* So has a query round, and by those of the other round that came first.
\* When that one is over its next one is not before the query round ends.
QueriesProgress ==
  Woken /\ local_ips # <<>> =>
    \/ clock <= next_query + Delay + Iterations(next_query_idx)
                 + Iterations(next_advertise_idx)
    \/ /\ clock <= next_query + Delay + Iterations(next_query_idx)
                    + Iterations(Len(local_ips))
       /\ services # <<>> => next_advertise > next_query + Lateness

\* The period of the advertisements leaves time for both rounds.
PeriodIsLong == ADVERTISE_INTERVAL > Lateness

PaceOK ==
  /\ LagOK /\ WakesInTime
  /\ AdvertsProgress
  /\ PeriodIsLong => QueriesProgress

DutyInv == LoopInv /\ PaceOK

\* Iterations is monotonic, and one more takes 2 * Slack.
LEMMA IterationsGrow ==
  /\ Iterations(0) = 0
  /\ \A n \in Nat : Iterations(n) \in Nat /\ Iterations(n + 1) = Iterations(n) + 2 * Slack
  /\ \A m, n \in Nat : m <= n => Iterations(m) <= Iterations(n)
  <1>1. Slack \in Nat
    BY SlackAssumption
  <1>2. Iterations(0) = 0
    BY <1>1 DEF Iterations
  <1>3. ASSUME NEW n \in Nat
        PROVE  Iterations(n) \in Nat /\ Iterations(n + 1) = Iterations(n) + 2 * Slack
    BY <1>1 DEF Iterations
  <1>4. ASSUME NEW m \in Nat, NEW n \in Nat, m <= n
        PROVE  Iterations(m) <= Iterations(n)
    <2>1. PICK k \in Nat : n = m + k
      BY <1>4
    <2>2. Slack * (2 * k) >= 0
      BY <1>1
    <2>3. Slack * (2 * (m + k)) = Slack * (2 * m) + Slack * (2 * k)
      BY <1>1
    <2>4. QED
      BY <1>1, <2>1, <2>2, <2>3 DEF Iterations
  <1>5. QED
    BY <1>2, <1>3, <1>4

\* The quantities of DutyInv and how they are ordered.
LEMMA Quantities ==
  ASSUME LoopInv, LagOK
  PROVE  /\ Slack \in Nat /\ lag \in 0 .. Slack /\ clock \in Nat
         /\ next_advertise \in Nat /\ next_query \in Nat /\ PollTimeout \in Nat
         /\ next_advertise_idx \in Nat /\ next_query_idx \in Nat
         /\ Len(local_ips) \in Nat
         /\ services # <<>> => local_ips # <<>> /\ PollTimeout <= next_advertise
         /\ local_ips # <<>> => /\ next_advertise_idx + 1 <= Len(local_ips)
                                /\ next_query_idx + 1 <= Len(local_ips)
         /\ PollTimeout <= next_query
         /\ Lateness = Iterations(Len(local_ips)) + Iterations(Len(local_ips)) + 2 * Slack
         /\ Iterations(next_advertise_idx) \in Nat /\ Iterations(next_query_idx) \in Nat
         /\ Iterations(Len(local_ips)) \in Nat /\ Lateness \in Nat /\ Delay \in Nat
  <1>1. TypeOK /\ InterfacesAreDistinct /\ Bookkeeping /\ ClockOK
    BY DEF LoopInv, IndInv
  <1>2. /\ next_advertise \in Nat /\ next_query \in Nat
        /\ next_advertise_idx \in Nat /\ next_query_idx \in Nat
        /\ local_ips \in Seq(Interfaces) /\ services \in Seq(Services)
    BY <1>1, ServerAssumption DEF TypeOK
  <1>3. Len(local_ips) \in Nat
    BY <1>2, LenProperties
  <1>4. services # <<>> => local_ips # <<>>
    <2> SUFFICES ASSUME services # <<>>, local_ips = <<>> PROVE FALSE
      OBVIOUS
    <2>1. DOMAIN local_ips = {}
      BY EmptySeq, LenProperties
    <2>2. Range(local_ips) = {}
      BY <2>1 DEF Range
    <2>3. Len(services) \in Nat /\ Len(services) # 0 /\ DOMAIN services = 1 .. Len(services)
      BY <1>2, EmptySeq, LenProperties
    <2>4. LocalIp(services[1]) \in DeclaredInterfaces(services)
      BY <2>3 DEF DeclaredInterfaces
    <2>5. QED
      BY <1>1, <2>2, <2>4 DEF InterfacesAreDistinct
  <1>5. /\ PollTimeout \in Nat /\ PollTimeout <= next_query
        /\ services # <<>> => PollTimeout <= next_advertise
    BY <1>1, <1>2, MinOfTwo DEF PollTimeout
  <1>6. local_ips # <<>> => /\ next_advertise_idx + 1 <= Len(local_ips)
                            /\ next_query_idx + 1 <= Len(local_ips)
    BY <1>1, <1>2, <1>3 DEF Bookkeeping
  <1>7. Lateness = Iterations(Len(local_ips)) + Iterations(Len(local_ips)) + 2 * Slack
    BY <1>3, SlackAssumption DEF Lateness, Iterations
  <1>8. clock \in Nat /\ Slack \in Nat /\ lag \in 0 .. Slack
    BY <1>1, ServerAssumption, SlackAssumption DEF ClockOK, LagOK
  <1>9. /\ Iterations(next_advertise_idx) \in Nat /\ Iterations(next_query_idx) \in Nat
        /\ Iterations(Len(local_ips)) \in Nat
    BY <1>2, <1>3, IterationsGrow
  <1>10. Lateness \in Nat
    BY <1>7, <1>8, <1>9
  <1>11. Delay \in Nat
    BY <1>8 DEF Delay
  <1>12. QED
    BY <1>2, <1>3, <1>4, <1>5, <1>6, <1>7, <1>8, <1>9, <1>10, <1>11

\* What of the server the deadlines depend on.
duties == << services, local_ips, timers >>

\* The steps that leave it alone.
LEMMA ServerKept ==
  ASSUME UNCHANGED duties
  PROVE  /\ UNCHANGED << services, local_ips, next_advertise, next_query,
                         next_advertise_idx, next_query_idx >>
         /\ PollTimeout' = PollTimeout /\ Lateness' = Lateness
         /\ PeriodIsLong' = PeriodIsLong
         /\ Iterations(next_advertise_idx)' = Iterations(next_advertise_idx)
         /\ Iterations(next_query_idx)' = Iterations(next_query_idx)
         /\ Iterations(Len(local_ips))' = Iterations(Len(local_ips))
  BY DEF duties, timers, PollTimeout, Lateness, PeriodIsLong, Iterations

\* A step that leaves the server alone leaves its duties alone.
LEMMA VarsKept == UNCHANGED vars => UNCHANGED duties
  BY DEF vars, duties, timers

\* A loop that gets on as fast as the clock falls no further behind.
LEMMA KeepsPace ==
  ASSUME DutyInv, UNCHANGED duties, Woken, clock' \in Nat, Delay' \in Nat,
         clock' + Delay <= clock + Delay'
  PROVE  AdvertsProgress' /\ (PeriodIsLong => QueriesProgress)'
  <1>1. LoopInv /\ LagOK
    BY DEF DutyInv, PaceOK
  <1>2. /\ next_advertise \in Nat /\ next_query \in Nat /\ Delay \in Nat /\ clock \in Nat
        /\ Iterations(next_advertise_idx) \in Nat /\ Iterations(next_query_idx) \in Nat
        /\ Iterations(Len(local_ips)) \in Nat
    BY <1>1, Quantities
  <1> DEFINE a == Iterations(next_advertise_idx)
             q == Iterations(next_query_idx)
             l == Iterations(Len(local_ips))
  <1>3. a' = a /\ q' = q /\ l' = l
    BY ServerKept
  <1>4. a \in Nat /\ q \in Nat /\ l \in Nat
    BY <1>2
  <1>5. PICK now \in Nat, d \in Nat, e \in Nat : now = clock' /\ d = Delay /\ e = Delay'
    BY <1>2
  <1>6. now + d <= clock + e
    BY <1>5
  <1>7. ASSUME services # <<>>
        PROVE  clock <= next_advertise + d + a
    BY <1>5, <1>7 DEF DutyInv, PaceOK, AdvertsProgress
  <1>8. ASSUME local_ips # <<>>, PeriodIsLong
        PROVE  \/ clock <= next_query + d + q + a
               \/ /\ clock <= next_query + d + q + l
                  /\ services # <<>> => next_advertise > next_query + Lateness
    BY <1>5, <1>8 DEF DutyInv, PaceOK, QueriesProgress
  <1> HIDE DEF a, q, l
  <1>9. /\ clock <= next_advertise + d + a => now <= next_advertise + e + a
        /\ clock <= next_query + d + q + a => now <= next_query + e + q + a
        /\ clock <= next_query + d + q + l => now <= next_query + e + q + l
    BY <1>2, <1>4, <1>6
  <1>10. AdvertsProgress'
    BY <1>3, <1>5, <1>7, <1>9, ServerKept DEF AdvertsProgress, a
  <1>11. (PeriodIsLong => QueriesProgress)'
    BY <1>3, <1>5, <1>8, <1>9, ServerKept DEF QueriesProgress, a, q, l
  <1>12. QED
    BY <1>10, <1>11

\* A loop that just woke is late by no more than what it took to wake.
LEMMA WakesOnPace ==
  ASSUME DutyInv, UNCHANGED duties, clock' \in Nat, Delay' \in Nat,
         clock' <= PollTimeout + Delay'
  PROVE  AdvertsProgress' /\ (PeriodIsLong => QueriesProgress)'
  <1>1. LoopInv /\ LagOK
    BY DEF DutyInv, PaceOK
  <1>2. /\ next_advertise \in Nat /\ next_query \in Nat /\ PollTimeout \in Nat
        /\ Iterations(next_advertise_idx) \in Nat /\ Iterations(next_query_idx) \in Nat
        /\ services # <<>> => PollTimeout <= next_advertise
        /\ PollTimeout <= next_query
    BY <1>1, Quantities
  <1> DEFINE a == Iterations(next_advertise_idx)
             q == Iterations(next_query_idx)
  <1>3. a' = a /\ q' = q /\ a \in Nat /\ q \in Nat
    BY <1>2, ServerKept
  <1> HIDE DEF a, q
  <1>4. PICK now \in Nat, e \in Nat : now = clock' /\ e = Delay'
    OBVIOUS
  <1>5. now <= PollTimeout + e
    BY <1>4
  <1>6. /\ services # <<>> => now <= next_advertise + e + a
        /\ now <= next_query + e + q + a
    BY <1>2, <1>3, <1>5
  <1>7. QED
    BY <1>3, <1>4, <1>6, ServerKept DEF AdvertsProgress, QueriesProgress, a, q

\* The clock ticks for a busy loop only while its step has time left.
LEMMA TickDutyInv ==
  ASSUME DutyInv, Tick
  PROVE  PaceOK'
  <1>1. /\ clock' = clock + 1 /\ pc' = pc /\ input' = input /\ UNCHANGED duties
        /\ pc \notin {"setup", "stopped"}
        /\ lag' = IF Busy THEN lag + 1 ELSE 0
        /\ Busy => lag < Slack
    BY VarsKept DEF Tick
  <1>2. /\ Slack \in Nat /\ lag \in 0 .. Slack /\ clock \in Nat /\ PollTimeout \in Nat
    BY Quantities DEF DutyInv, PaceOK
  <1>3. LagOK'
    BY <1>1, <1>2 DEF LagOK
  <1>4. WakesInTime'
    <2>1. CASE pc = "recv"
      <3>1. next_timeout = PollTimeout
        BY <2>1 DEF DutyInv, PaceOK, LoopInv, TimeoutFresh
      <3>2. CASE Busy
        BY <1>1, <1>2, <2>1, <3>2, ServerKept DEF DutyInv, PaceOK, WakesInTime
      <3>3. CASE ~ Busy
        <4>1. PollTimeout > clock
          BY <1>2, <2>1, <3>1, <3>3 DEF Busy, WaitIsOver, MillisUntil
        <4>2. QED
          BY <1>1, <1>2, <2>1, <3>3, <4>1, ServerKept DEF WakesInTime
      <3>4. QED
        BY <3>2, <3>3
    <2>2. CASE pc = "handle"
      <3>1. lag' = lag + 1
        BY <1>1, <2>2 DEF Busy
      <3>2. InputOK
        BY DEF DutyInv, PaceOK, LoopInv
      <3>3. QED
        BY <1>1, <1>2, <2>2, <3>1, <3>2, ServerKept DEF DutyInv, PaceOK, WakesInTime, InputOK
    <2>3. CASE pc \notin {"recv", "handle"}
      BY <1>1, <2>3 DEF WakesInTime
    <2>4. QED
      BY <2>1, <2>2, <2>3
  <1>5. Woken' = Woken /\ (Woken => Delay' = Delay + 1)
    BY <1>1, <1>2 DEF Woken, Busy, Delay
  <1>6. CASE Woken
    <2>1. Delay \in Nat
      BY Quantities DEF DutyInv, PaceOK
    <2>2. clock' + Delay <= clock + Delay' /\ clock' \in Nat /\ Delay' \in Nat
      BY <1>1, <1>2, <1>5, <1>6, <2>1
    <2>3. QED
      BY <1>1, <1>3, <1>4, <1>6, <2>2, KeepsPace DEF PaceOK
  <1>7. CASE ~ Woken
    BY <1>3, <1>4, <1>5, <1>7 DEF AdvertsProgress, QueriesProgress, PaceOK
  <1>8. QED
    BY <1>6, <1>7

\* The other steps that leave the server alone.
LEMMA AloneDutyInv ==
  ASSUME DutyInv,
         \/ Begin \/ MatchOutput \/ SendFails \/ WouldBlock \/ ReceiveFails
         \/ \E p \in Packets : Receive(p)
  PROVE  PaceOK'
  <1>1. UNCHANGED duties /\ clock' = clock
    BY VarsKept DEF Begin, MatchOutput, SendFails, WouldBlock, ReceiveFails, Receive
  <1>2. /\ Slack \in Nat /\ lag \in 0 .. Slack /\ clock \in Nat /\ PollTimeout \in Nat
        /\ Delay \in Nat
    BY Quantities DEF DutyInv, PaceOK
  <1>3. LagOK /\ WakesInTime /\ TimeoutFresh
    BY DEF DutyInv, PaceOK, LoopInv
  <1>4. CASE Begin
    <2>1. clock = 0 /\ pc' = "handle" /\ input' = TimeoutInput(clock) /\ lag' = 0
      BY <1>3, <1>4 DEF Begin, LagOK
    <2>2. LagOK' /\ WakesInTime'
      BY <1>1, <1>2, <2>1 DEF LagOK, WakesInTime, TimeoutInput
    <2>3. PICK e \in Nat : e = Delay'
      BY <1>2, <2>1 DEF Delay
    <2>4. clock <= PollTimeout + e
      BY <1>2, <1>3, <1>4 DEF Begin, LagOK
    <2>5. QED
      BY <1>1, <1>2, <2>2, <2>3, <2>4, WakesOnPace DEF PaceOK
  <1>5. CASE SendFails \/ ReceiveFails
    <2>1. pc' = "stopped" /\ lag' = lag
      BY <1>5 DEF SendFails, ReceiveFails
    <2>2. QED
      BY <1>2, <2>1 DEF PaceOK, LagOK, WakesInTime, AdvertsProgress, QueriesProgress, Woken
  <1>6. CASE WouldBlock
    <2>1. pc = "recv" /\ pc' = "handle" /\ input' = TimeoutInput(clock) /\ lag' = 0
      BY <1>6 DEF WouldBlock, WaitIsOver, ReadClock
    <2>2. LagOK' /\ WakesInTime'
      BY <1>1, <1>2, <2>1 DEF LagOK, WakesInTime, TimeoutInput
    <2>3. Delay' = 3 * Slack
      BY <1>2, <2>1 DEF Delay
    <2>4. clock <= PollTimeout + 3 * Slack
      BY <1>2, <1>3, <2>1 DEF WakesInTime
    <2>5. QED
      BY <1>1, <1>2, <2>2, <2>3, <2>4, WakesOnPace DEF PaceOK
  <1>7. CASE \E p \in Packets : Receive(p)
    <2>1. pc = "recv" /\ pc' = "handle" /\ input'.kind = "packet" /\ lag' = 0
      BY <1>7 DEF Receive, PacketInput
    <2>2. clock <= PollTimeout + Slack
      BY <1>2, <1>3, <2>1 DEF WakesInTime
    <2>3. LagOK' /\ WakesInTime'
      BY <1>1, <1>2, <2>1, <2>2, ServerKept DEF LagOK, WakesInTime
    <2>4. QED
      BY <2>1, <2>3 DEF PaceOK, AdvertsProgress, QueriesProgress, Woken
  <1>8. CASE MatchOutput
    <2>1. pc = "match" /\ lag' = 0
      BY <1>8 DEF MatchOutput
    <2>2. CASE MillisUntil(next_timeout') = 0
      <3>1. pc' = "handle" /\ input' = TimeoutInput(clock)
        BY <1>8, <2>2 DEF MatchOutput, ReadClock
      <3>2. LagOK' /\ WakesInTime'
        BY <1>1, <1>2, <2>1, <3>1 DEF LagOK, WakesInTime, TimeoutInput
      <3>3. Woken /\ Delay' = 3 * Slack /\ Delay <= 3 * Slack
        BY <1>2, <2>1, <3>1 DEF Woken, Delay
      <3>4. QED
        BY <1>1, <1>2, <3>2, <3>3, KeepsPace DEF PaceOK
    <2>3. CASE MillisUntil(next_timeout') # 0
      <3>1. pc' = "recv" /\ next_timeout' > clock
        BY <1>8, <2>3 DEF MatchOutput, MillisUntil
      <3>2. next_timeout' = PollTimeout
        BY <1>2, <1>3, <1>8, <2>1, <3>1 DEF MatchOutput, TimeoutFresh
      <3>3. LagOK' /\ WakesInTime'
        BY <1>1, <1>2, <2>1, <3>1, <3>2, ServerKept DEF LagOK, WakesInTime
      <3>4. QED
        BY <3>1, <3>3 DEF PaceOK, AdvertsProgress, QueriesProgress, Woken
    <2>4. QED
      BY <2>2, <2>3
  <1>9. QED
    BY <1>4, <1>5, <1>6, <1>7, <1>8

\* A target registered before the loop makes no duty late.
LEMMA RegisterDutyInv ==
  ASSUME DutyInv, NEW q \in QueryArgs, Register(q)
  PROVE  PaceOK'
  <1>1. pc' = "setup" /\ clock' = clock /\ lag' = lag /\ pc = "setup"
    BY DEF Register, loop
  <1>2. QED
    BY <1>1 DEF DutyInv, PaceOK, LagOK, WakesInTime, AdvertsProgress, QueriesProgress, Woken

\* A call that moves no deadline.
LEMMA NoDutyInv ==
  ASSUME DutyInv, HandleCall, UNCHANGED duties, clock <= PollTimeout + 2 * Slack
  PROVE  AdvertsProgress' /\ (PeriodIsLong => QueriesProgress)'
  <1>1. clock' = clock /\ pc' \in {"match", "stopped"} /\ lag' = 0
    BY DEF HandleCall
  <1>2. Slack \in Nat /\ clock \in Nat /\ PollTimeout \in Nat
    BY Quantities DEF DutyInv, PaceOK
  <1>3. CASE pc' = "match"
    <2>1. Delay' = 2 * Slack
      BY <1>1, <1>2, <1>3 DEF Delay
    <2>2. QED
      BY <1>1, <1>2, <2>1, WakesOnPace
  <1>4. CASE pc' = "stopped"
    BY <1>4 DEF AdvertsProgress, QueriesProgress, Woken
  <1>5. QED
    BY <1>1, <1>3, <1>4

\* What is known before a call with a timeout.
LEMMA BeforeTimeoutCall ==
  ASSUME DutyInv, HandleCall, input.kind = "timeout"
  PROVE  /\ Woken /\ Delay = 3 * Slack + lag
         /\ input.at \in Nat /\ input.at <= clock /\ clock <= input.at + Slack
  <1>1. pc = "handle" /\ InputOK
    BY DEF HandleCall, DutyInv, LoopInv
  <1>2. Slack \in Nat /\ lag \in 0 .. Slack /\ clock \in Nat
    BY Quantities DEF DutyInv, PaceOK
  <1>3. input.at \in 0 .. clock /\ clock <= input.at + lag
    BY <1>1 DEF InputOK, DutyInv, PaceOK, WakesInTime
  <1>4. QED
    BY <1>1, <1>2, <1>3 DEF Woken, Delay

\* A query round that an advertisement round has come before is over before
\* that one is due again.
LEMMA QueriesInPeriod ==
  ASSUME DutyInv, HandleCall, input.kind = "timeout", local_ips # <<>>, PeriodIsLong,
         services # <<>>, next_advertise <= input.at
  PROVE  clock <= next_query + Delay + Iterations(next_query_idx)
                    + Iterations(next_advertise_idx)
  <1>1. Woken /\ Delay = 3 * Slack + lag /\ next_advertise <= clock
    <2>1. next_advertise \in Nat /\ clock \in Nat
      BY Quantities DEF DutyInv, PaceOK
    <2>2. QED
      BY <2>1, BeforeTimeoutCall
  <1> DEFINE q == Iterations(next_query_idx)
             l == Iterations(Len(local_ips))
  <1>2. /\ Slack \in Nat /\ lag \in 0 .. Slack /\ clock \in Nat
        /\ next_advertise \in Nat /\ next_query \in Nat /\ q \in Nat /\ l \in Nat
        /\ next_query_idx \in Nat /\ Len(local_ips) \in Nat
        /\ next_query_idx + 1 <= Len(local_ips)
        /\ Lateness = l + l + 2 * Slack
    BY Quantities DEF DutyInv, PaceOK
  <1>3. q + 2 * Slack <= l
    BY <1>2, IterationsGrow
  <1> HIDE DEF q, l
  <1>4. ~ (/\ clock <= next_query + (3 * Slack + lag) + q + l
           /\ next_advertise > next_query + Lateness)
    BY <1>1, <1>2, <1>3
  <1>5. QED
    BY <1>1, <1>4 DEF DutyInv, PaceOK, QueriesProgress, q, l

\* An advertisement takes an iteration, and moves its round on by one.
LEMMA AdvertiseDutyInv ==
  ASSUME DutyInv, HandleCall, input.kind = "timeout", Advertise(input.at), pc' = "match"
  PROVE  AdvertsProgress' /\ (PeriodIsLong => QueriesProgress)'
  <1> DEFINE at == input.at
             a == Iterations(next_advertise_idx)
             q == Iterations(next_query_idx)
             l == Iterations(Len(local_ips))
  <1>1. /\ Slack \in Nat /\ lag \in 0 .. Slack /\ clock \in Nat
        /\ next_advertise \in Nat /\ next_query \in Nat
        /\ a \in Nat /\ q \in Nat /\ l \in Nat
        /\ next_advertise_idx \in Nat /\ Len(local_ips) \in Nat
        /\ ADVERTISE_INTERVAL \in Nat /\ Lateness \in Nat
    BY Quantities, ServerAssumption DEF DutyInv, PaceOK
  <1>2. /\ services # <<>> /\ local_ips # <<>> /\ next_advertise <= at
        /\ UNCHANGED << services, local_ips, next_query, next_query_idx >>
        /\ next_advertise_idx' = NextIdx(next_advertise_idx)
        /\ next_advertise' =
             NextDeadline(next_advertise_idx, next_advertise, at, ADVERTISE_INTERVAL)
    BY <1>1, BeforeTimeoutCall, Quantities
       DEF Advertise, AdvertiseDue, config, DutyInv, PaceOK
  <1>3. /\ Woken /\ Delay = 3 * Slack + lag
        /\ at \in Nat /\ at <= clock /\ clock <= at + Slack
    BY BeforeTimeoutCall
  <1>4. clock <= next_advertise + (3 * Slack + lag) + a
    BY <1>2, <1>3 DEF DutyInv, PaceOK, AdvertsProgress
  <1>5. PeriodIsLong => clock <= next_query + (3 * Slack + lag) + q + a
    BY <1>2, <1>3, QueriesInPeriod
  <1>6. /\ clock' = clock /\ Delay' = 2 * Slack
        /\ q' = q /\ l' = l /\ Lateness' = Lateness /\ PeriodIsLong' = PeriodIsLong
    BY <1>1, <1>2 DEF HandleCall, Delay, Lateness, PeriodIsLong, Iterations
  <1> HIDE DEF at, q, l
  <1>7. CASE ~ RoundOver(next_advertise_idx)
    <2>1. /\ next_advertise_idx' = next_advertise_idx + 1
          /\ next_advertise' = next_advertise
      BY <1>2, <1>7 DEF NextIdx, NextDeadline
    <2>2. Iterations(next_advertise_idx)' = a + 2 * Slack
      BY <1>1, <2>1, IterationsGrow DEF Iterations
    <2> HIDE DEF a
    <2>3. clock <= next_advertise + 2 * Slack + (a + 2 * Slack)
      BY <1>1, <1>4
    <2>4. PeriodIsLong => clock <= next_query + 2 * Slack + q + (a + 2 * Slack)
      BY <1>1, <1>5
    <2>5. AdvertsProgress'
      BY <1>6, <2>1, <2>2, <2>3 DEF AdvertsProgress
    <2>6. (PeriodIsLong => QueriesProgress)'
      BY <1>2, <1>6, <2>2, <2>4 DEF QueriesProgress, q
    <2>7. QED
      BY <2>5, <2>6
  <1>8. CASE RoundOver(next_advertise_idx)
    <2>1. next_advertise_idx' = 0 /\ next_advertise' = at + ADVERTISE_INTERVAL
      BY <1>2, <1>8 DEF NextIdx, NextDeadline
    <2>2. Iterations(next_advertise_idx)' = 0
      BY <2>1, IterationsGrow DEF Iterations
    <2>3. a + 2 * Slack = l
      BY <1>1, <1>8, IterationsGrow DEF RoundOver, l
    <2> HIDE DEF a
    <2>4. clock <= at + ADVERTISE_INTERVAL + 2 * Slack + 0
      BY <1>1, <1>3
    <2>5. AdvertsProgress'
      BY <1>6, <2>1, <2>2, <2>4 DEF AdvertsProgress
    <2>6. ASSUME PeriodIsLong
          PROVE  \/ clock <= next_query + 2 * Slack + q + 0
                 \/ /\ clock <= next_query + 2 * Slack + q + l
                    /\ at + ADVERTISE_INTERVAL > next_query + Lateness
      <3>1. ADVERTISE_INTERVAL > Lateness
        BY <2>6 DEF PeriodIsLong
      <3>2. CASE at < next_query
        BY <1>1, <1>3, <3>2
      <3>3. CASE at >= next_query
        BY <1>1, <1>3, <1>5, <2>3, <2>6, <3>1, <3>3
      <3>4. QED
        BY <1>1, <1>3, <3>2, <3>3
    <2>7. (PeriodIsLong => QueriesProgress)'
      BY <1>2, <1>6, <2>1, <2>2, <2>6 DEF QueriesProgress, q, l
    <2>8. QED
      BY <2>5, <2>7
  <1>9. QED
    BY <1>7, <1>8

\* So does a query, which waits until no advertisement is due.
LEMMA SendQueryDutyInv ==
  ASSUME DutyInv, HandleCall, input.kind = "timeout", SendQuery(input.at), pc' = "match"
  PROVE  AdvertsProgress' /\ (PeriodIsLong => QueriesProgress)'
  <1> DEFINE at == input.at
             a == Iterations(next_advertise_idx)
             q == Iterations(next_query_idx)
             l == Iterations(Len(local_ips))
  <1>1. /\ Slack \in Nat /\ lag \in 0 .. Slack /\ clock \in Nat
        /\ next_advertise \in Nat /\ next_query \in Nat
        /\ a \in Nat /\ q \in Nat /\ l \in Nat
        /\ next_query_idx \in Nat /\ QUERY_INTERVAL \in Nat
    BY Quantities, ServerAssumption DEF DutyInv, PaceOK
  <1>2. /\ services # <<>> => ~ (at >= next_advertise)
        /\ local_ips # <<>>
        /\ UNCHANGED << services, local_ips, next_advertise, next_advertise_idx >>
        /\ next_query_idx' = NextIdx(next_query_idx)
        /\ next_query' = NextDeadline(next_query_idx, next_query, at, QUERY_INTERVAL)
    BY DEF SendQuery, AdvertiseDue, QueryDue, config
  <1>3. /\ Woken /\ Delay = 3 * Slack + lag
        /\ at \in Nat /\ at <= clock /\ clock <= at + Slack
    BY BeforeTimeoutCall
  <1>4. /\ clock' = clock /\ Delay' = 2 * Slack
        /\ a' = a /\ l' = l /\ Lateness' = Lateness /\ PeriodIsLong' = PeriodIsLong
    BY <1>1, <1>2 DEF HandleCall, Delay, Lateness, PeriodIsLong, Iterations
  <1> HIDE DEF at, a, l
  <1>5. services # <<>> => clock <= next_advertise + 2 * Slack + a
    BY <1>1, <1>2, <1>3
  <1>6. AdvertsProgress'
    BY <1>2, <1>4, <1>5 DEF AdvertsProgress, a
  <1>7. ASSUME PeriodIsLong
        PROVE  \/ clock <= next_query + (3 * Slack + lag) + q + a
               \/ /\ clock <= next_query + (3 * Slack + lag) + q + l
                  /\ services # <<>> => next_advertise > next_query + Lateness
    BY <1>2, <1>3, <1>7 DEF DutyInv, PaceOK, QueriesProgress, a, l
  <1>8. CASE ~ RoundOver(next_query_idx)
    <2>1. next_query_idx' = next_query_idx + 1 /\ next_query' = next_query
      BY <1>2, <1>8 DEF NextIdx, NextDeadline
    <2>2. Iterations(next_query_idx)' = q + 2 * Slack
      BY <1>1, <2>1, IterationsGrow DEF Iterations
    <2> HIDE DEF q
    <2>3. ASSUME PeriodIsLong
          PROVE  \/ clock <= next_query + 2 * Slack + (q + 2 * Slack) + a
                 \/ /\ clock <= next_query + 2 * Slack + (q + 2 * Slack) + l
                    /\ services # <<>> => next_advertise > next_query + Lateness
      <3>1. CASE clock <= next_query + (3 * Slack + lag) + q + a
        BY <1>1, <3>1
      <3>2. CASE /\ clock <= next_query + (3 * Slack + lag) + q + l
                 /\ services # <<>> => next_advertise > next_query + Lateness
        BY <1>1, <3>2
      <3>3. QED
        BY <1>7, <2>3, <3>1, <3>2
    <2>4. (PeriodIsLong => QueriesProgress)'
      BY <1>2, <1>4, <2>1, <2>2, <2>3 DEF QueriesProgress, a, l
    <2>5. QED
      BY <1>6, <2>4
  <1>9. CASE RoundOver(next_query_idx)
    <2>1. next_query_idx' = 0 /\ next_query' = at + QUERY_INTERVAL
      BY <1>2, <1>9 DEF NextIdx, NextDeadline
    <2>2. Iterations(next_query_idx)' = 0
      BY <2>1, IterationsGrow DEF Iterations
    <2>3. clock <= at + QUERY_INTERVAL + 2 * Slack + 0 + a
      BY <1>1, <1>3
    <2>4. (PeriodIsLong => QueriesProgress)'
      BY <1>4, <2>1, <2>2, <2>3 DEF QueriesProgress, a
    <2>5. QED
      BY <1>6, <2>4
  <1>10. QED
    BY <1>8, <1>9

\* A call of handle in all its branches.
LEMMA HandleCallDutyInv ==
  ASSUME DutyInv, HandleCall
  PROVE  PaceOK'
  <1>1. clock' = clock /\ pc' \in {"match", "stopped"} /\ lag' = 0 /\ pc = "handle"
    BY DEF HandleCall
  <1>2. Slack \in Nat /\ lag \in 0 .. Slack /\ clock \in Nat /\ PollTimeout \in Nat
    BY Quantities DEF DutyInv, PaceOK
  <1>3. LagOK' /\ WakesInTime'
    BY <1>1, <1>2 DEF LagOK, WakesInTime
  <1>4. CASE pc' = "stopped"
    BY <1>3, <1>4 DEF PaceOK, AdvertsProgress, QueriesProgress, Woken
  <1>5. CASE pc' = "match" /\ input.kind = "packet"
    <2>1. UNCHANGED duties
      BY <1>5, HandleCallIsStep DEF DutyInv, HandlePacket, duties, config
    <2>2. clock <= PollTimeout + 2 * Slack
      BY <1>1, <1>2, <1>5 DEF DutyInv, PaceOK, WakesInTime
    <2>3. QED
      BY <1>3, <2>1, <2>2, NoDutyInv DEF PaceOK
  <1>6. CASE pc' = "match" /\ input.kind = "timeout" /\ Idle(input.at)
    <2>1. UNCHANGED duties
      BY <1>6 DEF Idle, duties, config
    <2>2. PollTimeout > input.at
      BY <1>6, HandleCallIsStep, NothingDueBefore DEF DutyInv, LoopInv, Idle
    <2>3. clock <= PollTimeout + 2 * Slack
      BY <1>2, <1>6, <2>2, BeforeTimeoutCall
    <2>4. QED
      BY <1>3, <2>1, <2>3, NoDutyInv DEF PaceOK
  <1>7. CASE pc' = "match" /\ input.kind = "timeout" /\ Advertise(input.at)
    BY <1>3, <1>7, AdvertiseDutyInv DEF PaceOK
  <1>8. CASE pc' = "match" /\ input.kind = "timeout" /\ SendQuery(input.at)
    BY <1>3, <1>8, SendQueryDutyInv DEF PaceOK
  <1>9. InputOK
    BY DEF DutyInv, LoopInv
  <1>10. QED
    BY <1>1, <1>4, <1>5, <1>6, <1>7, <1>8, <1>9, HandleCallIsStep DEF InputOK, DutyInv

\* At the start nothing is late.
LEMMA InitDutyInv == DInit => DutyInv
  <1> SUFFICES ASSUME DInit PROVE DutyInv
    OBVIOUS
  <1>1. pc \in {"setup", "stopped"} /\ clock = 0 /\ lag = 0
    BY DEF DInit
  <1>2. PaceOK
    BY <1>1, SlackAssumption
       DEF PaceOK, LagOK, WakesInTime, AdvertsProgress, QueriesProgress, Woken
  <1>3. QED
    BY <1>2, InitLoopInv DEF DutyInv

\* Every step of the loop and of the clock keeps the bounds,
LEMMA NextDutyInv == DutyInv /\ [DNext]_<<vars, loop>> => DutyInv'
  <1> SUFFICES ASSUME DutyInv, [DNext]_<<vars, loop>> PROVE DutyInv'
    OBVIOUS
  <1>1. LoopInv'
    BY NextLoopInv DEF DutyInv
  <1> SUFFICES PaceOK'
    BY <1>1 DEF DutyInv
  <1>2. CASE HandleCall
    BY <1>2, HandleCallDutyInv
  <1>3. CASE Tick
    BY <1>3, TickDutyInv
  <1>4. CASE \/ Begin \/ MatchOutput \/ SendFails \/ WouldBlock \/ ReceiveFails
             \/ \E p \in Packets : Receive(p)
    BY <1>4, AloneDutyInv
  <1>5. CASE \E q \in QueryArgs : Register(q)
    BY <1>5, RegisterDutyInv
  <1>6. CASE UNCHANGED << vars, loop >>
    <2>1. UNCHANGED duties /\ UNCHANGED << pc, clock, lag, input >>
      BY <1>6, VarsKept DEF loop
    <2>2. LagOK' /\ WakesInTime'
      BY <2>1, ServerKept DEF DutyInv, PaceOK, LagOK, WakesInTime
    <2>3. Woken' = Woken /\ Delay' = Delay
      BY <2>1 DEF Woken, Delay
    <2>4. AdvertsProgress' /\ (PeriodIsLong => QueriesProgress)'
      BY <2>1, <2>3, ServerKept DEF DutyInv, PaceOK, AdvertsProgress, QueriesProgress
    <2>5. QED
      BY <2>2, <2>4 DEF PaceOK
  <1>7. QED
    BY <1>2, <1>3, <1>4, <1>5, <1>6 DEF DNext

\* which therefore hold throughout.
LEMMA DutyInvariance == DSpec => []DutyInv
  BY InitDutyInv, NextDutyInv, PTL DEF DSpec

\* An advertisement round ends within 2n + 2 steps of its deadline, n being
\* the number of interfaces, whatever the periods and the packets.
THEOREM AdvertsOnTime ==
  DSpec => [](pc \in {"handle", "match", "recv"} /\ services # <<>> =>
                clock <= next_advertise + Iterations(Len(local_ips)) + 2 * Slack)
  <1>1. ASSUME DutyInv, pc \in {"handle", "match", "recv"}, services # <<>>
        PROVE  clock <= next_advertise + Iterations(Len(local_ips)) + 2 * Slack
    <2> DEFINE a == Iterations(next_advertise_idx)
               l == Iterations(Len(local_ips))
    <2>1. /\ Slack \in Nat /\ lag \in 0 .. Slack /\ clock \in Nat
          /\ next_advertise \in Nat /\ PollTimeout \in Nat /\ PollTimeout <= next_advertise
          /\ a \in Nat /\ l \in Nat
          /\ next_advertise_idx \in Nat /\ Len(local_ips) \in Nat
          /\ next_advertise_idx + 1 <= Len(local_ips)
      BY <1>1, Quantities DEF DutyInv, PaceOK
    <2>2. a + 2 * Slack <= l
      BY <2>1, IterationsGrow
    <2>3. CASE Woken
      <3>1. clock <= next_advertise + Delay + a
        BY <1>1, <2>3 DEF DutyInv, PaceOK, AdvertsProgress
      <3>2. Delay <= 4 * Slack /\ Delay \in Nat
        BY <2>1 DEF Delay
      <3> HIDE DEF a, l
      <3>3. QED
        BY <2>1, <2>2, <3>1, <3>2 DEF l
    <2>4. CASE ~ Woken
      <3>1. clock <= PollTimeout + Slack + lag
        BY <1>1, <2>1, <2>4 DEF Woken, DutyInv, PaceOK, WakesInTime, LoopInv, InputOK
      <3> HIDE DEF a, l
      <3>2. QED
        BY <2>1, <3>1 DEF l
    <2>5. QED
      BY <2>3, <2>4
  <1>2. QED
    BY <1>1, DutyInvariance, PTL

\* Where the advertisements leave time for both rounds no round of either
\* duty ends later than Lateness, whatever packets come.
THEOREM DutiesAreOnTime == DSpec => [](PeriodIsLong => DutiesOnTime)
  <1>1. ASSUME DutyInv, PeriodIsLong, pc \in {"handle", "match", "recv"}
        PROVE  /\ services # <<>> => clock <= next_advertise + Lateness
               /\ local_ips # <<>> => clock <= next_query + Lateness
    <2> DEFINE a == Iterations(next_advertise_idx)
               q == Iterations(next_query_idx)
               l == Iterations(Len(local_ips))
    <2>1. /\ Slack \in Nat /\ lag \in 0 .. Slack /\ clock \in Nat
          /\ next_advertise \in Nat /\ next_query \in Nat
          /\ PollTimeout \in Nat /\ PollTimeout <= next_query
          /\ services # <<>> => PollTimeout <= next_advertise /\ local_ips # <<>>
          /\ a \in Nat /\ q \in Nat /\ l \in Nat
          /\ Lateness = l + l + 2 * Slack
      BY <1>1, Quantities DEF DutyInv, PaceOK
    <2>2. local_ips # <<>> => a + 2 * Slack <= l /\ q + 2 * Slack <= l
      <3>1. /\ next_advertise_idx \in Nat /\ next_query_idx \in Nat
            /\ Len(local_ips) \in Nat
            /\ local_ips # <<>> => /\ next_advertise_idx + 1 <= Len(local_ips)
                                   /\ next_query_idx + 1 <= Len(local_ips)
        BY <1>1, Quantities DEF DutyInv, PaceOK
      <3>2. local_ips # <<>> => a + 2 * Slack <= l
        BY <3>1, IterationsGrow
      <3>3. local_ips # <<>> => q + 2 * Slack <= l
        BY <3>1, IterationsGrow
      <3>4. QED
        BY <3>2, <3>3
    <2>3. CASE Woken
      <3>1. services # <<>> => clock <= next_advertise + Delay + a
        BY <1>1, <2>3 DEF DutyInv, PaceOK, AdvertsProgress
      <3>2. local_ips # <<>> => \/ clock <= next_query + Delay + q + a
                               \/ clock <= next_query + Delay + q + l
        BY <1>1, <2>3 DEF DutyInv, PaceOK, QueriesProgress
      <3>3. Delay <= 4 * Slack /\ Delay \in Nat
        BY <2>1 DEF Delay
      <3> HIDE DEF a, q, l
      <3>4. QED
        BY <2>1, <2>2, <3>1, <3>2, <3>3
    <2>4. CASE ~ Woken
      <3>1. clock <= PollTimeout + Slack + lag
        BY <1>1, <2>1, <2>4 DEF Woken, DutyInv, PaceOK, WakesInTime, LoopInv, InputOK
      <3> HIDE DEF a, q, l
      <3>2. QED
        BY <2>1, <3>1
    <2>5. QED
      BY <2>3, <2>4
  <1>2. DutyInv => (PeriodIsLong => DutiesOnTime)
    BY <1>1 DEF DutiesOnTime
  <1>3. QED
    BY <1>2, DutyInvariance, PTL

\* The variables of the loop have their types.
THEOREM DriverTypes == DSpec => []DriverTypeOK
  <1> DEFINE inputs == {TimeoutInput(t) : t \in 0 .. MaxNow} \cup {PacketInput(p) : p \in Packets}
  <1>1. DInit => DriverTypeOK
    BY ServerAssumption, SlackAssumption DEF DInit, DriverTypeOK, Places
  <1>2. ASSUME DriverTypeOK, DutyInv', [DNext]_<<vars, loop>>
        PROVE  DriverTypeOK'
    <2>1. clock' \in 0 .. MaxNow /\ next_timeout' \in Nat /\ lag' \in 0 .. Slack
      BY <1>2 DEF DutyInv, PaceOK, LoopInv, ClockOK, TimeoutFresh, LagOK
    <2>2. pc' \in Places
      BY <1>2 DEF DriverTypeOK, Places, DNext, Begin, HandleCall, MatchOutput, SendFails,
                  WouldBlock, ReceiveFails, Tick, Register, Receive, loop
    <2>3. input' \in inputs
      <3>1. input \in inputs /\ clock \in 0 .. MaxNow
        BY <1>2 DEF DriverTypeOK
      <3>2. \/ input' = input \/ input' = TimeoutInput(clock)
            \/ \E p \in Packets : input' = PacketInput(p)
        BY <1>2 DEF DNext, Begin, HandleCall, MatchOutput, SendFails, WouldBlock,
                    ReceiveFails, Tick, Register, Receive, ReadClock, loop
      <3>3. QED
        BY <3>1, <3>2
    <2>4. QED
      BY <2>1, <2>2, <2>3 DEF DriverTypeOK
  <1>3. QED
    BY <1>1, <1>2, DutyInvariance, PTL DEF DSpec
=============================================================================
