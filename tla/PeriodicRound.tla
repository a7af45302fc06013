---------------------------- MODULE PeriodicRound ----------------------------
(***************************************************************************)
(* What a server promises of each of its two periodic duties, advertising  *)
(* and querying: rounds.  A round starts when its deadline has come,       *)
(* serves every interface exactly once, one per call, an interface that is *)
(* registered while it runs included, and its end alone moves the deadline *)
(* forward: by one interval, counted from that end.                        *)
(***************************************************************************)
EXTENDS Naturals

CONSTANTS
  Interfaces,   \* every interface there could be
  Interval,     \* from the end of a round to the start of the next, not 0
  Urgent,       \* TRUE: a call that finds the duty due does nothing else
  Rearms        \* TRUE: a registration makes the duty due at once

VARIABLES
  clock,        \* the time of the last call
  deadline,     \* when the next round starts, or the running one started
  ifaces,       \* the interfaces to serve
  served        \* those the running round has served

vars == <<clock, deadline, ifaces, served>>

Init ==
  /\ clock = 0
  /\ deadline \in Nat
  /\ ifaces \in SUBSET Interfaces
  /\ served = {}

Tick == clock' \in Nat /\ clock' >= clock

Serve(i) ==
  /\ Tick
  /\ clock' >= deadline
  /\ i \in ifaces \ served
  /\ UNCHANGED ifaces
  /\ IF served \cup {i} = ifaces
     THEN served' = {} /\ deadline' = clock' + Interval
     ELSE served' = served \cup {i} /\ UNCHANGED deadline

\* A call that does something else, or nothing.
Pass ==
  /\ Tick
  /\ Urgent => clock' < deadline
  /\ UNCHANGED <<deadline, ifaces, served>>

\* A full table of interfaces refuses one more.
Register(i) ==
  /\ ifaces' \in {ifaces, ifaces \cup {i}}
  /\ deadline' = IF Rearms THEN clock ELSE deadline
  /\ UNCHANGED <<clock, served>>

Next ==
  \/ Pass
  \/ \E i \in Interfaces : Serve(i) \/ Register(i)

Spec == Init /\ [][Next]_vars
=============================================================================
