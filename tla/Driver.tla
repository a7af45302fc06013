-------------------------------- MODULE Driver --------------------------------
(***************************************************************************)
(* A Server driven by the loop a program puts around it, as written in     *)
(* src/examples/myservice.rs and documented in README.md: sans-IO code     *)
(* depends on its loop for every deadline it sets itself.                  *)
(*                                                                         *)
(* The clock runs beside the loop.  While the loop has something to do,    *)
(* each of its steps takes at most Slack units; a loop that waits in       *)
(* recv_from may wait as long as its read timeout allows.                  *)
(***************************************************************************)
EXTENDS Server

CONSTANT Slack      \* what a step of the loop may take

ASSUME SlackAssumption == Slack \in Nat

Places == {"setup", "handle", "match", "recv", "stopped"}

VARIABLES
  pc,             \* where the loop is
  clock,          \* what now() returns
  next_timeout,   \* the local variable of that name
  input,          \* what handle is called with next
  lag             \* how long the loop has been about its present step

loop == << pc, clock, next_timeout, input, lag >>

TimeoutInput(now) == [kind |-> "timeout", at |-> now]
PacketInput(p)    == [kind |-> "packet", packet |-> p]

Stopped == pc = "stopped"

DInit ==
  /\ Init
  /\ pc = IF Halted THEN "stopped" ELSE "setup"
  /\ clock = 0
  /\ next_timeout = 0
  /\ input = TimeoutInput(0)
  /\ lag = 0

\* Before the loop a program may register query targets; its time 0 is the
\* moment it is done with them.
Register(q) ==
  /\ pc = "setup"
  /\ Query(q)
  /\ UNCHANGED loop

Begin ==
  /\ pc = "setup"
  /\ pc' = "handle"
  /\ next_timeout' = clock
  /\ input' = TimeoutInput(clock)
  /\ lag' = 0
  /\ UNCHANGED << vars, clock >>

\* server.handle(input, &mut output)
HandleCall ==
  /\ pc = "handle"
  /\ IF input.kind = "timeout"
     THEN Advertise(input.at) \/ SendQuery(input.at) \/ Idle(input.at)
     ELSE HandlePacket(input.packet)
  /\ pc' = IF Halted' THEN "stopped" ELSE "match"
  /\ lag' = 0
  /\ UNCHANGED << clock, next_timeout, input >>

\* MUTANT: only a timeout output leads to a look at the clock.
MillisUntilUnlessSent(time) == IF output.kind = "timeout" THEN time - clock ELSE 1

\* MUTANT: a time that has passed is a long way off.
MillisUntilWraps(time) == time - clock

\* now().millis_until(time), which saturates: 0 means due.
MillisUntil(time) == IF time > clock THEN time - clock ELSE 0

\* MUTANT: the milliseconds are kept in too small an integer.
ClockWraps == clock % 16

\* MUTANT: rounded up to the next unit.
ClockRoundedUp == clock + 1

\* What the loop reads as now() for its next input.
ReadClock == clock

\* The match over the output and the look at the clock that follows it.
\* Only Output::Timeout assigns next_timeout: after a packet or a discovered
\* service the clock is compared with what an earlier call returned.
MatchOutput ==
  /\ pc = "match"
  /\ next_timeout' = IF output.kind = "timeout" THEN output.at ELSE next_timeout
  /\ IF MillisUntil(next_timeout') = 0
     THEN pc' = "handle" /\ input' = TimeoutInput(ReadClock)
     ELSE pc' = "recv" /\ UNCHANGED input
  /\ lag' = 0
  /\ UNCHANGED << vars, clock >>

\* sock.send_to(..).unwrap()
SendFails ==
  /\ pc = "match"
  /\ output.kind = "packet"
  /\ pc' = "stopped"
  /\ UNCHANGED << vars, clock, next_timeout, input, lag >>

\* recv_from returns a packet, or WouldBlock when the read timeout is over,
\* or another error, which ends the program.
Receive(p) ==
  /\ pc = "recv"
  /\ pc' = "handle"
  /\ input' = PacketInput(p)
  /\ lag' = 0
  /\ UNCHANGED << vars, clock, next_timeout >>

WaitIsOver == pc = "recv" /\ MillisUntil(next_timeout) = 0

WouldBlock ==
  /\ WaitIsOver
  /\ pc' = "handle"
  /\ input' = TimeoutInput(ReadClock)
  /\ lag' = 0
  /\ UNCHANGED << vars, clock, next_timeout >>

ReceiveFails ==
  /\ pc = "recv"
  /\ pc' = "stopped"
  /\ UNCHANGED << vars, clock, next_timeout, input, lag >>

Busy == pc \in {"handle", "match"} \/ WaitIsOver

Tick ==
  /\ pc \notin {"setup", "stopped"}
  /\ clock < MaxNow
  /\ Busy => lag < Slack
  /\ clock' = clock + 1
  /\ lag' = IF Busy THEN lag + 1 ELSE 0
  /\ UNCHANGED << vars, pc, next_timeout, input >>

DNext ==
  \/ Begin \/ HandleCall \/ MatchOutput \/ SendFails
  \/ WouldBlock \/ ReceiveFails \/ Tick
  \/ \E q \in QueryArgs : Register(q)
  \/ \E p \in Packets : Receive(p)

\* A loop with something to do gets past its present step.  When a read
\* timeout is over that may as well be because a packet came.
Proceeds == (pc = "setup" \/ Busy) /\ pc' \in Places \ {pc}

\* The loop is a thread that is scheduled, and time passes.  No packet need
\* ever come, no call need ever fail.
DSpec == DInit /\ [][DNext]_<<vars, loop>> /\ WF_pc(Proceeds) /\ WF_clock(Tick)

-----------------------------------------------------------------------------
(* Properties                                                              *)

DriverTypeOK ==
  /\ pc \in Places
  /\ clock \in 0 .. MaxNow
  /\ next_timeout \in Nat
  /\ input \in {TimeoutInput(t) : t \in 0 .. MaxNow} \cup {PacketInput(p) : p \in Packets}
  /\ lag \in 0 .. Slack

\* The loop keeps the promises a Server asks of its caller, time that never
\* goes back above all: whatever is late, it is a run of the specification
\* of Server, and all that is proved of that one holds in the loop.
LoopIsServerRun == Spec

\* The loop never goes to sleep on a stale timeout: whatever sequence of
\* packets, replies and discoveries came before, the time it waits for is
\* the earliest deadline that the server has at that moment.
SleepsUntilDue == pc = "recv" => next_timeout = PollTimeout

\* How late a round may end: the two steps of an iteration for each of its
\* interfaces, as much for a round of the other duty that comes first, and
\* one iteration for a packet.
Lateness == Slack * (2 * Len(local_ips) + 2 * Len(local_ips) + 2)

\* However many packets come and however the two duties collide, no round
\* ends later than that after its deadline.
DutiesOnTime ==
  pc \in {"handle", "match", "recv"} =>
    /\ services # <<>> => clock <= next_advertise + Lateness
    /\ local_ips # <<>> => clock <= next_query + Lateness

\* Every deadline within the bound of the clock is served, in spite of any
\* stream of packets, unless the program stops.
DeadlinesAreMet ==
  <>[](Stopped \/ ( /\ services # <<>> => next_advertise > MaxNow
                    /\ local_ips # <<>> => next_query > MaxNow ))
=============================================================================
