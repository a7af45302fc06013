--------------------------------- MODULE Wire ---------------------------------
(***************************************************************************)
(* One message at a time is serialized into a buffer, field by field as    *)
(* the code writes it (src/src/dns), and what is in the buffer then is     *)
(* sent and parsed by a peer.                                              *)
(***************************************************************************)
EXTENDS Parser

CONSTANTS
  Messages,        \* what is serialized
  Rooms,           \* lengths of the buffer
  LKs,             \* sizes of the table of labels
  Builds           \* "debug": a subtraction that underflows panics; "release"

\* A pointer reaches every position of the buffer, and an instance name has
\* a place for its second part.
ASSUME WireAssumption ==
  /\ PtrSpan \in Nat /\ \A room \in Rooms : room \in Nat /\ room < PtrSpan
  /\ LKs \subseteq Nat
  /\ Alloc \/ (LLEN \in Nat /\ LLEN > 1 /\ QLEN \in Nat /\ ALEN \in Nat)
  /\ Builds \subseteq {"debug", "release"}

\* Every name of a message has a segment: none is the root.
IsName(n) == n \in Seq(STRING) /\ n # <<>>

IsQuery(q) == q = [name |-> q.name, qtype |-> q.qtype, qclass |-> q.qclass] /\ IsName(q.name)

IsRecord(rec) ==
  CASE rec.type = "PTR" -> rec = [type |-> "PTR", name |-> rec.name] /\ IsName(rec.name)
    [] rec.type = "SRV" -> /\ rec = [type |-> "SRV", port |-> rec.port, target |-> rec.target]
                           /\ IsName(rec.target)
    [] rec.type = "TXT" -> rec = [type |-> "TXT"]
    [] OTHER            -> /\ rec.type \in {"A", "AAAA"}
                           /\ rec = [type |-> rec.type, address |-> rec.address]

IsAnswer(a) ==
  /\ a = [name |-> a.name, aclass |-> a.aclass, rec |-> a.rec]
  /\ IsName(a.name) /\ IsRecord(a.rec)

\* The server serializes requests and responses, of the records it can make.
ASSUME MessagesAssumption ==
  \A m \in Messages :
    /\ m.queries \in Seq(Range(m.queries)) /\ \A q \in Range(m.queries) : IsQuery(q)
    /\ \/ m = Request(m.id, m.queries)
       \/ /\ m = Response(m.id, m.queries, m.answers)
          /\ m.answers \in Seq(Range(m.answers)) /\ \A a \in Range(m.answers) : IsAnswer(a)

VARIABLES
  message,   \* what is being serialized
  todo,      \* the fields still to be written
  w,         \* the Writer
  start,     \* where the last reservation was made
  build,     \* how the program was compiled
  outcome    \* what became of it

wireVars == << message, todo, w, start, build, outcome >>

Pending  == [kind |-> "pending"]
Panicked == [kind |-> "panic"]
Sent(parsed) == [kind |-> "sent", parsed |-> parsed]

-----------------------------------------------------------------------------
(* A message as the fields that its serialize functions write, in order.   *)

Number(v)   == <<[put |-> "number", v |-> v]>>
Name(parts) == <<[put |-> "name", parts |-> parts]>>
Copy(segs)  == <<[put |-> "copy", segs |-> segs]>>
Reserved    == <<[put |-> "reserve"]>>
Filled      == <<[put |-> "fill"]>>

\* The name of an instance was made with push_front, other names with new.
Whole(name)    == Name(<<name>>)
Instance(name) == Name(<< <<Head(name)>>, Tail(name) >>)

PtrItems(rec) == Reserved \o Instance(rec.name) \o Filled
SrvItems(rec) == Reserved \o Number(rec.port) \o Whole(rec.target) \o Filled
TxtItems      == Number("length") \o Number("text")
IpItems(rec)  == Number("length") \o Number(rec.address)

RecordItems(rec) ==
  CASE rec.type = "PTR" -> PtrItems(rec)
    [] rec.type = "SRV" -> SrvItems(rec)
    [] rec.type = "TXT" -> TxtItems
    [] OTHER            -> IpItems(rec)

AnswerItems(a) ==
  (IF a.rec.type \in {"SRV", "TXT"} THEN Instance(a.name) ELSE Whole(a.name))
  \o Number(a.rec.type) \o Number(a.aclass) \o RecordItems(a.rec)

\* The questions of a response are those of the request it answers.
QueryItems(q, kind) ==
  (IF kind = "request" THEN Whole(q.name) ELSE Copy(q.name))
  \o Number(q.qtype) \o Number(q.qclass)

\* Of the flags only the bit matters that tells requests from responses.
FlagItems(kind) == Number(kind)

RequestItems(m) ==
  Number(m.id) \o FlagItems(m.kind) \o Number(Len(m.queries)) \o Number(0)
  \o FlattenSeq([i \in DOMAIN m.queries |-> QueryItems(m.queries[i], m.kind)])

ResponseItems(m) ==
  Number(m.id) \o FlagItems(m.kind) \o Number(Len(m.queries)) \o Number(Len(m.answers))
  \o FlattenSeq([i \in DOMAIN m.queries |-> QueryItems(m.queries[i], m.kind)])
  \o FlattenSeq([i \in DOMAIN m.answers |-> AnswerItems(m.answers[i])])

Items(m) == IF m.kind = "request" THEN RequestItems(m) ELSE ResponseItems(m)

-----------------------------------------------------------------------------

(* Message::serialize is called with a buffer, makes a Writer for it and   *)
(* writes one field after the other; then what it wrote is sent.           *)

WireInit ==
  /\ message \in Messages
  /\ todo = Items(message)
  /\ \E room \in Rooms, lk \in LKs : w = NewWriter(room, lk)
  /\ start = 0
  /\ build \in Builds
  /\ outcome = Pending

Turn(put) == outcome = Pending /\ todo # <<>> /\ Head(todo).put = put

Wrote == todo' = Tail(todo) /\ UNCHANGED << message, build, outcome >>

PutNumber ==
  /\ Turn("number")
  /\ w' = Write(w, <<Num(Head(todo).v)>>)
  /\ Wrote /\ UNCHANGED start

PutName ==
  /\ Turn("name")
  /\ w' = SerializeLabel(w, Head(todo).parts)
  /\ Wrote /\ UNCHANGED start

PutCopy ==
  /\ Turn("copy")
  /\ w' = SerializeRun(w, Head(todo).segs)
  /\ Wrote /\ UNCHANGED start

PutReservation ==
  /\ Turn("reserve")
  /\ start' = Len(w.cells)
  /\ w' = Reserve(w)
  /\ Wrote

\* The length of the record is the distance without the reserved place.
Underflow == build = "debug" /\ Distance(w, start) < 1

FillReservation ==
  /\ Turn("fill")
  /\ ~ Underflow
  /\ w' = WriteReservation(w, start, Num("length"))
  /\ Wrote /\ UNCHANGED start

UnderflowPanics ==
  /\ Turn("fill")
  /\ Underflow
  /\ outcome' = Panicked
  /\ UNCHANGED << message, todo, w, start, build >>

\* w.len() bytes are sent, whether they are all of the message or not.
Send ==
  /\ outcome = Pending
  /\ todo = <<>>
  /\ outcome' = Sent(ParseMessage(w.cells))
  /\ UNCHANGED << message, todo, w, start, build >>

WireNext ==
  \/ PutNumber \/ PutName \/ PutCopy
  \/ PutReservation \/ FillReservation \/ UnderflowPanics
  \/ Send

WireSpec == WireInit /\ [][WireNext]_wireVars

-----------------------------------------------------------------------------
(* Properties                                                              *)

\* The fields of Writer have their types, and nothing is written behind the
\* end of the buffer or recorded beyond the size of the table.
WireTypeOK ==
  /\ Len(w.cells) <= w.room
  /\ ExtendFits(Len(w.lookup), w.lk)
  /\ start <= Len(w.cells)
  /\ outcome.kind \in {"pending", "panic", "sent"}

Accepted == outcome.kind = "sent" /\ outcome.parsed.ok

\* What a peer makes of a packet, whole or truncated, is what was meant:
\* neither compression nor a full buffer turns a message into another one.
NeverMisread == Accepted => outcome.parsed.msg = message

\* The overflow flag of Writer is never looked at, and a truncated packet is
\* sent: a peer refuses it.
TruncatedIsRefused == w.overflow => ~ Accepted

NamesOf(m) ==
  {q.name : q \in Range(m.queries)} \cup
  (IF m.kind = "request" THEN {}
   ELSE UNION {{a.name} \cup (CASE a.rec.type = "PTR" -> {a.rec.name}
                                [] a.rec.type = "SRV" -> {a.rec.target}
                                [] OTHER -> {}) : a \in Range(m.answers)})

\* Segments that a name can have and still be parsed however it was compressed:
\* four pointers are followed, the first of which may be all there is of the
\* name, each of the others has a segment before it, and a label has LLEN runs.
Depth == IF Alloc THEN 4 ELSE Min({4, LLEN})

\* A message that fits the buffer and whose names have at most Depth segments
\* is parsed by a peer with the same capacities, however much its names
\* share: compression never nests the pointers too deep.
FittingIsAccepted ==
  /\ outcome.kind = "sent"
  /\ ~ w.overflow
  /\ ParseAccepts(message)
  /\ \A name \in NamesOf(message) : Len(name) <= Depth
  => Accepted

\* The names that were recorded while they were not the end of a name.
InstanceParts(m) ==
  IF m.kind = "request" THEN {}
  ELSE {<<Head(a.rec.name)>> : a \in {b \in Range(m.answers) : b.rec.type = "PTR"}}
       \cup {<<Head(a.name)>> : a \in {b \in Range(m.answers) : b.rec.type \in {"SRV", "TXT"}}}

\* No name of the message ends with a label that also begins an instance name.
PartsApart(m) == \A name \in NamesOf(m) : <<Last(name)>> \notin InstanceParts(m)

\* Between two fields, every entry of the table leads to a place where the
\* name it stands for can be read in full, the parts of instances excepted:
\* four pointers lead to five runs.
LookupIsFaithful ==
  ~ w.overflow =>
    \A e \in Range(w.lookup) :
      e.name \in InstanceParts(message) \/ Len(e.name) > 5
        \/ LET label == DoParse(w.cells, e.at)
           IN  label.ok /\ FlattenSeq(label.runs) = e.name

\* However names share their suffixes and wherever the buffer ends, a pointer
\* leads back to where a segment begins: following pointers comes to an end.
PointersLeadBack ==
  \A i \in DOMAIN w.cells :
    w.cells[i].k = "ptr" =>
      w.cells[i].v \in 1 .. i - 1 /\ w.cells[w.cells[i].v].k = "len"

\* What the test of a service response says (reqres.rs, 474): a response that
\* fits the buffer is parsed to itself.
RoundTrip == outcome.kind = "sent" /\ ~ w.overflow => NeverMisread /\ Accepted

\* What the change log says (CHANGELOG.md, 7): running out of buffer does not
\* make Writer panic.
ExhaustionDoesNotPanic == outcome # Panicked
=============================================================================
