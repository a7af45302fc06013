------------------------------- MODULE Directory -------------------------------
(***************************************************************************)
(* What programs that run an opslag server may expect of each other: while *)
(* it runs, each comes to know the services that others declare within its *)
(* reach, as long as those run, too, and never anything else.              *)
(***************************************************************************)
CONSTANTS
  Nodes,
  Reach     \* node -> the services it can learn of, as <<owner, service>>

VARIABLES
  up,       \* the nodes that run
  known     \* node -> the services it was told of

vars == <<up, known>>

Init == up = {} /\ known = [n \in Nodes |-> {}]

\* A program starts knowing nothing.
Join(n) == n \notin up /\ up' = up \cup {n} /\ UNCHANGED known

Leave(n) == n \in up /\ up' = up \ {n} /\ known' = [known EXCEPT ![n] = {}]

\* The owner may have left meanwhile: what it said is still under way.
Learn(n, r) ==
  /\ n \in up
  /\ r \in Reach[n] /\ r[2] \notin known[n]
  /\ known' = [known EXCEPT ![n] = @ \cup {r[2]}]
  /\ UNCHANGED up

Next == \E n \in Nodes : Join(n) \/ Leave(n) \/ \E r \in Reach[n] : Learn(n, r)

Spec ==
  /\ Init /\ [][Next]_vars
  /\ \A n \in Nodes : \A r \in Reach[n] : WF_vars(r[1] \in up /\ Learn(n, r))
=============================================================================
