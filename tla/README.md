# opslag, specified

TLA+ modules for [opslag](../src/README.md), a sans-IO, `no_std` mDNS library
in Rust.  They model the `Server` (periodic advertisements and queries, answers
to requests, discovery from responses), the services and vectors it is made of,
the loop a program drives it with, a network of such programs, and the DNS wire
format with its label compression.  TLC checks small instances; TLAPS proves
what holds of the server, its loop, the network and the round trip through the
wire format for every value of the constants.

Paths below are relative to the repository, `src/` being its top directory:
`src/src/server.rs` is the file the crate knows as `src/server.rs`.

## 1. Inventory

| Part | State | Operations | Hard about it |
|---|---|---|---|
| `Server` (`server.rs`) | clock, services, query targets, interfaces, two deadlines with an index into the interfaces each, the last and the next transaction id | `new`, `query`, `handle(Timeout)`, `handle(Packet)` | one call does one packet, so a round over all interfaces is cut into many calls, between which `query` appends interfaces and moves a deadline, packets arrive and time jumps |
| `ServiceInfo` (`service_info.rs`) | none | `new`, `as_answers`, `from_answers` | a service is put together from answers in any order, several of which may claim the same name |
| `Vec` (`vec.rs`) | elements | `push`, `extend` | two builds: unbounded, or of a fixed capacity where `push` is refused and ignored, and `extend` panics |
| `Time` (`time.rs`) | a number of milliseconds | comparison, addition | the caller promises that it only moves forward |
| `Writer` (`writer.rs`) | position, overflow flag, table of labels | `write`, `inc`, `reserve`, `push_label`, `find_label` | nothing looks at the overflow flag: a truncated packet is sent |
| `Label` (`dns/label.rs`) | parts: runs of a received packet or text | `push_front`, `parse`, `serialize` | pointers into the packet, written through the table and followed four deep at most |
| DNS messages (`dns/*.rs`) | none | `parse`, `serialize` | one bad record rejects the whole message |
| Driver loop (`examples/myservice.rs`, README) | next timeout, next input | sleep, receive, send | a deadline that was returned before other calls were made |
| Network of nodes | packets in flight, programs that run | multicast, unicast, start, stop | loss, reordering, duplication, a node's own echo, equal transaction ids, restarts |
| Listener (`examples/listen.rs`), fuzz target (`fuzz/`) | none | print what `Message::parse` returns | nothing |
| Logging, `Display`, `defmt` (`format.rs`, `log_poly.rs`) | none | formatting | nothing |

How they interact: the driver loop owns the clock and the socket and calls
`Server::handle` with a timeout or a packet and a buffer.  The server reads and
changes its own fields, makes `Answer`s from `ServiceInfo`s or the reverse, and
writes a message into the buffer through a `Writer`; it calls nothing else and
nothing calls back.  All concurrency is therefore in the order of the calls,
and all failure in what arrives, in capacities, and in what the caller does
with time.

What makes each part correct:

* *Server, timers*: a round serves every interface exactly once, the deadline
  moves once per round and not before its end, a timeout call without work
  names a later time, nothing is indexed out of bounds, every target that was
  registered is eventually asked for.
* *Server, packets*: a reply is complete, stays on the asker's network and goes
  out from an interface there; own requests are not answered; what is reported
  was said by one response, is of interest and not this server itself.
* *Driver loop*: it never sleeps past a deadline, whatever `next_timeout` it
  holds; no stream of packets keeps a duty from being done; time never goes back
  for the server.
* *Network*: a program comes to know the services in its reach and nothing
  else, whatever is lost, late or addressed to a program that has restarted.
* *Labels*: whatever the bytes, parsing ends, and a label that was accepted can
  be iterated over and written again without a panic and without a change.
* *Wire format*: a packet is parsed to what was serialized or refused, never to
  something else, and is refused if it was cut.

`PROJECT.json` lists the hazards line by line, with the properties that would
catch them.

## 2. Modules

| Module | Models |
|---|---|
| `OpslagVec` | `vec.rs`: what a full vector does, by the constant `Alloc` (the cargo feature) |
| `ServiceInfo` | `service_info.rs` and `is_same_network`: services as answers and back |
| `ServerHandlers` | the functions of `server.rs` that compute an output: `do_advertise`, `do_query`, `handle_request`, `handle_response` |
| `Server` | `struct Server`: its fields as variables, one action per call and branch: `Query`, `Advertise`, `SendQuery`, `Idle` (the three branches of `handle_timeout`), `HandlePacket` |
| `ServerRounds` | `Server` with history variables that read the packets of a round; the two duties as instances of `PeriodicRound` |
| `PeriodicRound` | abstract: what a periodic duty promises, without indices or lists |
| `ServerPackets` | `Server` with the packet it was last given |
| `Driver` | `examples/myservice.rs`: `Server` composed with the loop around it and a clock |
| `Network` | several programs with the handlers of `ServerHandlers`, on networks that lose and reorder packets |
| `Directory` | abstract: what programs may expect to learn of each other |
| `Writer` | `writer.rs` and the serialization of labels, as operators on a writer record |
| `Parser` | `Message::parse` and everything below it |
| `Wire` | the state machine that writes one message field by field into a buffer, and the peer that parses it |
| `LabelBytes` | `dns/label.rs` on bytes: parsing, iteration, copying, names made from text |
| `MCServer`, `MCPackets`, `MCDriver`, `MCNetwork`, `MCWire`, `MCLabels` | the small instances |
| `ListProofs` | lemmas: membership, lists without repetition, what the loops that push into a `Vec` leave behind |
| `HandlerProofs` | lemmas: what the handlers of `ServerHandlers` return |
| `ServerProofs` | theorems about `Server` and `ServerRounds` |
| `PacketsProofs`, `DriverProofs`, `NetworkProofs` | theorems about `ServerPackets`, `Driver`, `Network` |
| `WireProofs`, `RoundTripProofs` | theorems about `Wire`: what is left in the buffer, and what a peer makes of it |

State and code correspond by name: the variables of `Server` are the fields of
the struct, plus `output`, the value the last call returned.  An index counts
from 0 as in the code and one is added where a TLA+ sequence is accessed.  A
panic is an output after which nothing happens (`Halted`).

**Driver.** `pc` says where the loop is: before `server.handle` (`handle`), at
the match over its output and the look at the clock that follows (`match`), in
`recv_from` (`recv`).  `next_timeout` and `input` are its local variables.
`Register` is a call of `query` before the loop.  `HandleCall` takes the step of
`Server` that the input selects, and `LoopIsServerRun` shows that nothing else
happens to the server.  A send or a receive may fail, which the example
unwraps: the program stops.  The clock is a variable of its own that moves
beside the loop, up to `Slack` units during a step of the loop and as long as
the read timeout lasts during `recv_from`.

**Network.** A node has the fields of its `Server` that change, with each
deadline as the time left until it; `AdvertiseTurn` and `QueryTurn` are what
`handle_timeout` does to them, `Handled` is `handle_packet`.  What other fields
hold is fixed by what the node declares and asks for (`LocalIps`, `Registered`).  A multicast
is copied to every node on the sender's network, the sender included; the
copies to be lost are chosen when it is sent, those that are not are handled in
any order.  `Start` is `Server::new` with the calls of `query`; after `Crash`
nothing is kept, and packets sent before may still arrive.

**LabelBytes.** One step is one turn of the loop in `do_parse`; `items` are the
runs of the label, `start` and `run_end` the slice that is the present run.
`read` is history, the segments in the order of reading, and `meant` is what
the bytes were made from.  After a name was accepted it may be written into a
reply (`CopyQuestion`) and is then parsed again there.  `PutStr` and `PutRun`
are the loops that write text and copy a run, with their lookup in the table of
labels, their branch for a pointer and their slices, which leave `OutOfBounds`
behind where the code would panic.  Bytes are scaled: a byte has `Byte` values of
which the upper three quarters are pointers, as the code has 256 and 64.

What is abstract:

* A name is the sequence of its segments.  `Label` compares segment by segment,
  so equality is equality of these sequences; only `Wire` and `LabelBytes` care
  how a name was put together.  An address is a family and a set of one bits,
  so `ip & mask` is an intersection.
* In `Server` a message is a record.  What `parse` refuses is `garbage`, a
  message that is too large for the capacities, or one with a record type the
  code does not know (`ParseAccepts`).  `Wire` shows that a message which passes
  `ParseAccepts` survives the wire (`FittingIsAccepted`, `NeverMisread`), so the
  record is a sound stand-in for the bytes as long as the buffer is large
  enough.
* In `Wire` a packet is a sequence of cells, each something the code writes in
  one piece; what never decides anything (NSCOUNT, ARCOUNT, time to live,
  priority, weight) has no cell of its own and is cut off with its neighbour.  The
  buffer ends in front of every cell and behind the last.  A length that was
  reserved and not filled in is read as a length; any other misdirected read is
  refused, and `LookupIsFaithful` says there is none.  An instance name is one
  segment here; `LabelBytes` also has instance names with dots in them.
* Time to live, priority, weight, the text of TXT and the flags other than the
  response bit have no influence on any decision and are left out.

## 3. Runs

| Run | Instance | Shows |
|---|---|---|
| `rounds` | alloc, up to three services on two interfaces, three targets of which one brings a new interface with a known address, clock to 9 | types, bounds and no panic; interfaces distinct; every target's interface visited; each round announces every service once and asks for everything due at its start; adverts and queries refine `PeriodicRound`; a target registered between rounds is asked for before the server idles |
| `heapless` | no alloc, capacities that just fit three services, one target more than fits, clock to 8 | the same promises while `push` is refused |
| `packets` | none or three services on two networks; requests of up to two questions with two ids from three askers, one of the other family; up to four of ten answers in every order | replies are complete, on the asker's network, and given unless the id is the server's last; what is reported belongs together and is news; unambiguous news is not lost |
| `driver` | up to two services, a target on the second network, a question, a response and noise arriving at any time; the seconds of the code, clock to 26 | the loop is a run of `Server`, sleeps until what is really due, ends every round at most `Lateness` after its deadline, and serves every deadline |
| `network` | two hosts on two networks, three services, unlimited crashes and restarts | `Network` implements `Directory`, safety and liveness |
| `wire` | 12 messages, buffers of 0 to 130 cells, label tables of 1, 4 and 20, both builds | no misreading, truncation is refused, what fits is accepted, table entries lead where they say, pointers lead back |
| `labels` | all inputs of up to 6 bytes from 6 kinds, parsed from every offset; chains and circles of pointers; names of up to 6 characters and two parts | parsing ends; a label is iterated over and copied as it was read, without an index out of bounds; a name made from text is read as it was meant up to an empty segment, or refused when it is compressed to a pointer into itself or has a segment that is too long |
| `first_query` | as `rounds` | **violated**: a target registered in the middle of a round waits for the next |
| `small_alen` | no alloc, two services on an interface, ALEN 4 | **violated**: the first advertisement panics |
| `own_requests` | as `network` | **violated**: the echo of a request is answered when the round has gone on to the next interface |
| `wire_names` | a host with the name of its instance | **violated**: it is read back as another name |
| `small_buffer` | debug build | **violated**: a full buffer panics |

The violated runs each state a sentence of the repository's documentation or
tests; `PROJECT.json` quotes it.

### Bounds

`MaxNow` bounds the clock.  In `rounds`, `heapless` and `packets` one unit
stands for about three seconds: the first deadlines are 1 and 2 and the
intervals 5 and 6, which keeps the order 3 s, 5 s, 15 s, 19 s of the code.  With
the clock to 9, both duties complete a round, come due again and run a second
one while the other is under way, and a call may come early, on time or
arbitrarily late.  Two interfaces are needed to stand in the middle of a round,
and a third can join; a further one adds no new order of index, append and end
of round.  `TxidMod` is 3 instead of 2^16, so that ids wrap within a run.
`Never` stands for `u64::MAX`.

In `ServerPackets` a packet is not followed by another packet, since
`handle_packet` changes nothing but the output; its clock goes to 1, so that a
request of this server is out (after a `query`) and an advertisement is due.

In `driver` the unit is a second and `Slack` is 1, far more than a step of the
loop takes: deadlines then collide, pass during a step and during the handling
of packets.  To 26 the clock has room for the first round of each duty, at 3
and 5, and for the second of each, at 18 or later and 24 or later, however late
the first was.

In `network` the intervals are 1, 2, 3, 4, and there is no bound on time, as
only the time left counts.  `MaxInFlight` is 2 copies, so that a packet may
overtake another, a node's own echo another node's answer; a send waits for
room (`Room`), copies beyond it count as lost.  A packet that is not lost
arrives before time passes, so packets are reordered within a unit of time.
What is due is served before time passes: that the loop around the server is
that quick, compared with intervals of seconds, is what `DutiesOnTime` shows.

In `wire` the room of 130 cells exceeds the longest message, and the six nested
names reach one pointer more than the parser follows.  The longest of four nested
names, asked for twice, needs as many pointers as it follows: one to the name and
one between each segment and the next.  One segment more would need five, which
is why `Depth` is 4, although five runs can be read from an entry of the table.

In `labels` a byte has 4 bits.  The six kinds are the end of a name, lengths of
1 and 2 (2 is also the dot), a pointer, a letter that as a length byte is a
pointer leading out of the packet, and a byte that is no ASCII.  Six bytes hold
two segments and a pointer, and pointers back and forth between them; the chains
and circles go on to where the limits of pointers (4) and runs (`LLEN`, 3 here)
refuse.  The text of the names is of dots and two letters, one of which, taken for
half of a pointer, leads into the name itself.  Among the names are those that
have a segment of four (as 64 in the code, whose length is a pointer), empty
segments, and two parts that end alike; the table of labels has room for all of
them, `Wire` is the module for tables that are full.

Deadlock is allowed in `wire`, `wire_names` and `small_buffer` (a serialization
ends), `labels` (so does parsing) and `driver` (the program may stop, and the
clock ends at `MaxNow`).  All others run with the deadlock check, since some
call is always possible.

### Fairness

A server does nothing by itself, so `Server` and its extensions assume no
fairness; `AskedBeforeIdle` and `PeriodicRound` say by ordering what a liveness
property would say by fairness of the caller.

* `Driver`: `WF_pc(Proceeds)`, the loop is a thread that gets scheduled, and
  `WF_clock(Tick)`, time passes.  No packet need come, no call need fail.  A
  read timeout that is over ends either by `WouldBlock` or by a packet, as
  `Proceeds` allows.
* `Network`: `WF_server(Turn)`, time and the loops of running programs go on;
  `WF_net(Arrival)`, a copy under way is handled or dropped (since `Arrival` only
  says that it leaves, and what is sent in response may again be lost, no answer
  is assumed to get anywhere); and for each link that carries a service,
  `SF_net(AdvertReaches)`: if advertisements are sent over it again and again,
  one gets through.  Nothing is assumed of starts, crashes, queries or replies,
  all of which may be lost for ever: discovery rests on repeated advertising,
  as does the code.  The abstract `Directory` promises that whoever runs comes
  to be known to those in reach, if both keep running.
* `LabelBytes`: `WF_vars(Next)`, the parser is a sequential function.

## 4. Proofs

Everything below holds for every value of the constants that satisfies the named
assumptions of the modules (`ServerAssumption`, `PacketsAssumption`,
`AllocAssumption`, `SlackAssumption`, `NetworkAssumption`), which TLC evaluates in the runs.  A
hypothesis that a theorem has beyond them is in its statement and in the tables.

`ListProofs` and `HandlerProofs` hold what all others rest on: what a loop of
pushes that skip what is there leaves in a `Vec`, with and without room
(`PushAllNew`), what a fold keeps, and what each handler returns.  These loops are
recursive functions and folds.  Facts about all their inputs are proved by the
least counterexample: of the lengths at which the fact fails take the smallest.

**Server.** `ServerProofs` proves `Invariance`, `Spec => []IndInv`, where
`IndInv` is `TypeOK /\ InterfacesAreDistinct /\ Bookkeeping`.  The three need
each other: an index stays in bounds because the interface table only grows and
the index is reset at its last entry (`Bookkeeping`); the index is a natural
number and the table a sequence (`TypeOK`); distinctness needs that the first
table holds each declared interface once, which `AreLocalIpsOf` says of `Init`.

| Theorem | States | Hypothesis |
|---|---|---|
| `TypeCorrect`, `DistinctInterfaces`, `IndicesInBounds` | the parts of `IndInv` | |
| `NoSpinning` | an idle call returns a later time: neither duty is due, so both deadlines that count are ahead, or are `Never` | |
| `TargetsVisited` | the interface of every target is in the table | `InterfacesFit`: a full `local_ips` refuses the interface of a target that is kept |
| `NeverPanics` | `[]NoPanic`; the unwrap in `handle_request` succeeds because an answer exists only for a service on the asker's network, whose interface is in the table | `CapacitiesFit`: what is extended fits |

**Rounds.** `ServerProofs` goes on with two things about a round.

| Theorem | States | Hypothesis |
|---|---|---|
| `AdvertsRefineRounds`, `QueriesRefineRounds` | under the mapping `served = {local_ips[1..idx]}` every step of the server is a step of `PeriodicRound` or a stutter | |
| `EachServiceAnnounced` | `[]RoundAnnouncesAll` | `CapacitiesFit`, `OneMaskPerInstance`: an instance declared for one address with two netmasks would be announced with both |
| `EverythingDueIsAskedFor` | `[]RoundAsksAll` | `InterfacesFit`, `QuestionsFit`: a question for each service and target |
| `NewTargetsComeFirst` | `AskedBeforeIdle` | the same |

The refinement rests on `IndInv`: the interfaces served so far are distinct from
the next, so a round ends exactly when every interface was served.  The others
have invariants over the served part of the table: announced are the services
of the served interfaces, once each, and all of them once the round has ended
(`AnnouncedInv`); asked for is what was owed
on the served interfaces, and what was owed stays due (`AskedInv`); a target
that came between two rounds lies behind the served part and the round is due
(`UnaskedInv`).

**Packets.** `PacketsProofs` proves what a packet is answered with, from
`ReceivedInv`: the output is what the handlers make of the packet and of the
fields of the server, which `handle_packet` does not change.

| Theorem | States | Hypothesis |
|---|---|---|
| `RepliesStayOnNetwork` | `[]ReplyStaysOnNetwork` | |
| `RepliesAreComplete` | `[]ReplyIsComplete` | `RepliesFit`: room for four answers per service |
| `AskersAreAnswered` | `[]AskerIsAnswered` | room for one answer |
| `ReportsAreNews` | `[]RemoteIsNews`, in any order of the answers and for any capacity | |
| `NewsNotOverlooked` | `[]NewsIsReported` | `StubsFit`: a stub for every PTR answer (`ALEN <= SLEN`) |

`from_answers` collects a stub per PTR answer and completes it from the SRV, then
from the address answers.  `ReportedIsFound` says that a stub's fields come from
answers that belong together, `NewsNotOverlooked` that in an unambiguous response
no other answer can take their place.

**Driver.** `DriverProofs` has two invariants, for every slowness of the loop.
`LoopInv` adds to `IndInv` what the loop knows: what it passes as now is a clock
it has read before, hence not ahead of the clock, and not behind the server's
last time, since each call takes the clock as read after the previous one
(`InputOK`, `ClockOK`); `next_timeout` is the server's deadline or it has passed
(`TimeoutFresh`), since only an idle call returns a new one, calls that send
happen after it has passed, and a packet changes no deadline.

`DutyInv` adds how late the loop may be (`PaceOK`).  It wakes within three steps
of a deadline (`WakesInTime`), and from then on an advertisement round falls
behind by what one iteration takes for each interface it has served
(`AdvertsProgress`).  A query round falls behind by its own iterations and by
those of the advertisement round that precedes them; when that one has ended the
next is too far away to come first again (`QueriesProgress`), which is where
`PeriodIsLong` is used.

| Theorem | States | Hypothesis |
|---|---|---|
| `LoopRefinesServer` | `LoopIsServerRun`: all that is proved of `Server` holds in the loop | |
| `NeverSleepsOnStaleTimeout` | `[]SleepsUntilDue` | |
| `DriverTypes` | `[]DriverTypeOK` | |
| `AdvertsOnTime` | an advertisement round ends within 2n + 2 steps of its deadline, for n interfaces | |
| `DutiesAreOnTime` | `[](PeriodIsLong => DutiesOnTime)` | `PeriodIsLong`: ADVERTISE_INTERVAL exceeds `Lateness` |

`PeriodIsLong` depends on the number of interfaces that the server has at the
time and stands inside the box.  It compares 15 s with 4n + 2 steps of a loop
that does not sleep; the `driver` run has 15 and 10.  The proof needs it: with
an interval of 7 TLC finds states of the loop that `QueriesProgress` does not
hold in.

**Network.** `NetworkProofs` proves `NetworkTypes`, and in `LearnsWithinReach` the
safety part of `IsDirectory`: every step is a step of `Directory` or a stutter.

The invariant is about the packets under way (`MessagesOK`): all answers of a
response are of one node, about services on a network that the receiver is on,
each as it was declared; a request asks in class IN.  It holds whatever is lost
or late because nothing in it refers to the state of the sender, which may
have stopped.  From such a response `handle_response` reports a declared service
of another node in the receiver's reach, of a type it looks for.

| Theorem | States | Hypothesis |
|---|---|---|
| `NetworkTypes` | `[]NetworkTypeOK` | |
| `LearnsWithinReach` | `Spec => ADirectory!Init /\ [][ADirectory!Next]_ADirectory!vars` | `NamesAreUnique`: on one network a node gives an instance name to one service and a hostname to one address; `MasksAgree`: two nodes agree on whether they share a network |

Without `NamesAreUnique` a service could be put together from the answers about
two.

**Wire.** `WireProofs` proves what the Writer leaves in the buffer, and
`RoundTripProofs` what a peer makes of it, for all messages, lengths of the
buffer and sizes of the table (`WireAssumption`, `MessagesAssumption`).

| Theorem | States | Hypothesis |
|---|---|---|
| `WireTypes` | `[]WireTypeOK` | |
| `PointersEnd` | `[]PointersLeadBack`: a pointer leads back to where a segment begins, so no chain of pointers is endless | |
| `NothingIsMisread` | `[]NeverMisread` | `InstancesApart` |
| `TruncationIsNoticed` | `[]TruncatedIsRefused` | `InstancesApart` |
| `WholeIsAccepted` | `[]FittingIsAccepted` | `InstancesApart` |
| `TableIsFaithful` | `[]LookupIsFaithful` | `InstancesApart` |

`push_label` records a position before its segment is written.  When the buffer
is full the segment is not, the entry stays and may lead behind the end of what
was written.  The invariant (`Good`) therefore says of the table only that
without an overflow each entry leads to a segment; with one no pointer is
written any more.  A length that is filled in later must take no segment
away: the reserved place is its own (`Fillable`), as a message begins with its
id.  The three loops of `serialize` are folds; `FoldTable` and `FoldKeeps` of
`ListProofs` carry the invariant over them.

The round trip has a reading and a writing half that meet in what it means that
a message stands in the cells.

* *A name stands* from p to q (`Spelled`) if its first segments are there, then
  its end or a pointer to an entry of the table that is recorded for the rest.  A
  table is `Faithful` if the name of each of its entries stands where the entry
  leads.  `NameIsRead` follows the levels of `DoParse`, at each of which fewer
  segments are left: what is accepted is the name, and it is accepted if the
  levels suffice.
* *A message stands* if a walk leads from one field to the next (`Goes`, `Step`).
  Position 0 stands for what did not fit: a step may lead there at the place where
  the fields end, and none leads back.  The cells behind that place can only be
  segments of a name that was cut, which are no number, and no name since its end
  is missing (`Readable`).  Each operator of `Parser` keeps in step with the walk
  (`Tracks`): it has read what was written or has refused, it has refused at
  position 0, and it accepts what it is sure to; `MessageIsParsed` is that for the
  message.
* *The Writer* makes it so.  A field that is written is one more step
  (`FieldPut`), a name by `LabelIsWritten` and `CopyIsWritten`: each segment
  recorded before the next keeps the table faithful, as soon as the name has its
  end.  The invariant `RoundInv` says how many fields have been written and that
  these stand (`Progress`), and that the only place left open is that of the record
  being written (`Holes`, `Paired`): to fill it in changes nothing else.

`InstancesApart` says that no name of a message ends with a segment that begins
an instance name.  `serialize` records that segment as if it were the end of a
name; what is then compressed to the entry is read as more than was meant, in a
packet that is accepted.  This is what `wire_names` shows, and why the hypothesis
cannot be left out: with it no name ever finds such an entry, and the table
without these entries is faithful.  `MCApart` has TLC evaluate it for the
messages of `wire`.

The first attempt to prove `WholeIsAccepted` failed for names of five segments,
and TLC then found one asked for twice that is refused (see `Depth` above).

**Do the runs satisfy the hypotheses?** Those about capacities say nothing of a
build with `alloc`, so they hold in `rounds`, `packets`, `driver` and `network`.
`heapless` satisfies `CapacitiesFit`, `InterfacesFit` and `OneMaskPerInstance`, but
not `QuestionsFit`: there only as many questions arise as fit, one less than the
worst case, so that `RoundAsksAll` is checked for a tight capacity.
`small_alen` shows that `NeverPanics` needs `CapacitiesFit`.  `network` satisfies
`NamesAreUnique` and `MasksAgree`, `wire` satisfies `InstancesApart`.

**Only model-checked.** Liveness (`DeadlinesAreMet`, `ParsingEnds`, the fair part
of `IsDirectory`) is out of the prover's reach.  `LabelBytes`
declares RECURSIVE operators, in the reach of which the provers do not work; TLC
checks its invariants (`LabelTypeOK`, `IteratesWhatWasRead`, `CopyReadsTheSame`,
`TextIsRead`) for all its inputs.

**A precaution.** The SMT encoding of tlapm 1.4.5 has an axiom by which every value
has the domain `1 .. Len(v)`, which is false of a function on `0 .. n`; an
obligation about both could be proved for no good reason.  All proofs were therefore
also run with that axiom restricted to what holds of sequences (`DOMAIN v = 1 .. n`
implies `Len(v) = n`), and pass both ways.

## 5. Plan

1. *Done*: `OpslagVec`, `ServiceInfo`, `ServerHandlers`, `Server`, its rounds and
   packets, the wire format, the inductive invariant, no panic, refinement of
   `PeriodicRound`.
2. *Done*: `Driver`, the loop with its stale `next_timeout`, socket timeouts and
   packets, and liveness under fairness of the loop; `Network`, discovery on a
   lossy network with echoes, equal ids and restarts, as a refinement of
   `Directory`; `LabelBytes`; the proofs about the loop.
3. *Done*: what the packets of a round say, what a packet is answered with, how
   late a round may be, the safety part of `IsDirectory`, and where pointers lead.
4. *Done*: the round trip through the wire format, for all messages with
   `InstancesApart`.
5. Left: the bytes of `LabelBytes` with recursive functions in place of RECURSIVE
   operators, so that `IteratesWhatWasRead` could be proved as `NameIsRead` was.

## 6. Not modelled

* `examples/listen.rs` and the fuzz target: they print, or drop, what
  `Message::parse` returns.
* Bytes of foreign origin beyond names: `LabelBytes` parses arbitrary bytes as
  names, all other fields are read as what opslag wrote or refused; the
  repository fuzzes the parser.
* Pointers that need more than 14 bits: buffers are at most 16 KiB
  (`WireAssumption`).
* Duplicated packets.  `handle_packet` changes no field of the server, so a
  second copy has the effect of the first, or of another node's same question.
* Overflow of `u64` time: the clock is assumed to stay below `u64::MAX` ms.
* `Display`, `Debug`, `defmt` and logging.

What the code does that the reader should know of, and that no run shows as
violated because no document denies it, or because a run for it would repeat
another:

* Only the first new service of a response is reported; the code warns of the
  others (`server.rs:453`).  `Network` therefore has one service to learn per
  interface, and more would not all be learnt.
* A peer's request that carries the id of this server's last request is taken
  for an echo (`AskerIsAnswered` excepts it); discovery survives this by
  advertisements (`IsDirectory`).
* The timeout returned for a packet may be past, in the middle of a round,
  though `time.rs:7` speaks of the future; `SleepsUntilDue` and `DutiesOnTime`
  show that the loop copes.
* In a heapless build `query` keeps a target whose interface `local_ips` had no
  room for; no round visits it.
