-------------------------------- MODULE Parser --------------------------------
(***************************************************************************)
(* The input side of the wire format: Message::parse and what it calls     *)
(* (src/src/dns), on the cells of Writer.  A cell that is read as          *)
(* something it is not refuses the packet: only pointers that lead to the  *)
(* wrong place could make the code do that.                                *)
(***************************************************************************)
EXTENDS ServerHandlers, Writer

Refused == [ok |-> FALSE]

-----------------------------------------------------------------------------
(* Labels                                                                  *)

\* MUTANT: off by one.
RecurseLimitThree == 3

RecurseLimit == 4

\* The cells from p up to e, which is left out, are segments.
AreSegments(cells, p, e) ==
  \A i \in p .. e - 1 :
    cells[i].k = IF (i - p) % 2 = 0 THEN "len" ELSE "text"

Segments(cells, p, e) ==
  [i \in 1 .. (e - p) \div 2 |-> cells[p + 2 * i - 1].v]

\* Is the pointer at e followed?
Follows(cells, e, limit) ==
  /\ limit > 0
  /\ cells[e].v \in 1 .. Len(cells) - 1
  /\ cells[cells[e].v] # cells[e]

Ended(run, e) == [ok |-> TRUE, runs |-> <<run>>, next |-> e + 1]

\* A run of its own is only what stands before the pointer, if anything does.
Joined(run, e, rest) ==
  IF rest.ok
  THEN [ok   |-> TRUE,
        runs |-> IF run = <<>> THEN rest.runs ELSE <<run>> \o rest.runs,
        next |-> e + 1]
  ELSE Refused

Stops(cells, p) == {e \in p .. Len(cells) : cells[e].k \in {"end", "ptr"}}

\* The run at p and, behind its pointer, what the deeper calls read.
RunFrom(cells, p, limit, deeper) ==
  LET e == Min(Stops(cells, p))
  IN  IF Stops(cells, p) = {} \/ ~ AreSegments(cells, p, e) THEN Refused
      ELSE IF cells[e].k = "end" THEN Ended(Segments(cells, p, e), e)
      ELSE IF ~ Follows(cells, e, limit) THEN Refused
      ELSE Joined(Segments(cells, p, e), e, deeper[cells[e].v])

\* do_parse: the runs of the label at a position, and the position behind it.
DoParse(cells, at) ==
  LET read[limit \in 0 .. RecurseLimit] ==
        [p \in 1 .. Len(cells) + 1 |-> RunFrom(cells, p, limit, read[limit - 1])]
  IN  read[RecurseLimit][at]

\* Each run takes a place of the label.
IntoLabel(label) ==
  IF label.ok /\ ExtendFits(Len(label.runs), LLEN)
  THEN [ok |-> TRUE, v |-> FlattenSeq(label.runs), next |-> label.next]
  ELSE Refused

ParseLabel(cells, at) == IntoLabel(DoParse(cells, at))

-----------------------------------------------------------------------------
(* A parser state: where to read next, and the fields that were read.      *)

At(p) == [ok |-> TRUE, at |-> p, got |-> <<>>]

Got(s, x) ==
  IF x.ok THEN [ok |-> TRUE, at |-> x.next, got |-> Append(s.got, x.v)] ELSE Refused

\* Where a length was reserved and never filled in there are zeros, as good
\* as any length: what is read there is not looked at again.
ParseNumber(cells, at) ==
  IF cells[at].k \in {"num", "hole"}
  THEN [ok |-> TRUE, v |-> cells[at].v, next |-> at + 1] ELSE Refused

Read(cells, s, what) ==
  IF ~ s.ok \/ s.at > Len(cells) THEN Refused
  ELSE IF what = "name" THEN Got(s, ParseLabel(cells, s.at))
  ELSE Got(s, ParseNumber(cells, s.at))

ReadName(cells, s)   == Read(cells, s, "name")
ReadNumber(cells, s) == Read(cells, s, "num")

Parsed(s, item) == [ok |-> TRUE, at |-> s.at, item |-> item]

\* Three fields, as at the beginning of an answer: the time to live is read
\* with the class.
Triple(cells, p) == ReadNumber(cells, ReadNumber(cells, ReadName(cells, At(p))))

ToQuery(s) ==
  IF s.ok
  THEN Parsed(s, [name |-> s.got[1], qtype |-> s.got[2], qclass |-> s.got[3]])
  ELSE Refused

ParseQuery(cells, p) == ToQuery(Triple(cells, p))

KnownTypes == {"A", "AAAA", "PTR", "TXT", "SRV"}

\* The length of the record and what follows it; priority and weight are read
\* with the port.
RecordFields(cells, type, p) ==
  CASE type = "PTR" -> ReadName(cells, ReadNumber(cells, At(p)))
    [] type = "SRV" -> ReadName(cells, ReadNumber(cells, ReadNumber(cells, At(p))))
    [] OTHER        -> ReadNumber(cells, ReadNumber(cells, At(p)))

Record(type, got) ==
  CASE type = "PTR" -> [type |-> type, name |-> got[2]]
    [] type = "SRV" -> [type |-> type, port |-> got[2], target |-> got[3]]
    [] type = "TXT" -> [type |-> type]
    [] OTHER        -> [type |-> type, address |-> got[2]]

ToAnswer(s, r) ==
  IF r.ok
  THEN Parsed(r, [name |-> s.got[1], aclass |-> s.got[3], rec |-> Record(s.got[2], r.got)])
  ELSE Refused

\* One record of a type that is not known refuses the whole message.
ParseRecord(cells, s) ==
  IF s.ok /\ s.got[2] \in KnownTypes
  THEN ToAnswer(s, RecordFields(cells, s.got[2], s.at)) ELSE Refused

ParseAnswer(cells, p) == ParseRecord(cells, Triple(cells, p))

-----------------------------------------------------------------------------
(* Messages                                                                *)

\* MUTANT: the items that can be read are enough.
TakeOrLeave(t, x, i, cap) ==
  IF x.ok /\ ExtendFits(i, cap)
  THEN [ok |-> TRUE, at |-> x.at, got |-> Append(t.got, x.item)] ELSE t

\* The i-th item x is pushed into a vector that may be full.
TakeItem(t, x, i, cap) ==
  IF t.ok /\ x.ok /\ ExtendFits(i, cap)
  THEN [ok |-> TRUE, at |-> x.at, got |-> Append(t.got, x.item)] ELSE Refused

ParseItem(cells, p, what) ==
  IF what = "query" THEN ParseQuery(cells, p) ELSE ParseAnswer(cells, p)

\* A counted section: as many items as the header said.
Section(cells, at, count, cap, what) ==
  LET taken[i \in 0 .. count] ==
        IF i = 0 THEN At(at)
        ELSE TakeItem(taken[i - 1], ParseItem(cells, taken[i - 1].at, what), i, cap)
  IN  taken[count]

\* id, flags and two counts; the other two counts are read and not used.
Header(cells) ==
  ReadNumber(cells, ReadNumber(cells, ReadNumber(cells, ReadNumber(cells, At(1)))))

Queries(cells, h) == Section(cells, h.at, h.got[3], QLEN, "query")
Answers(cells, h, qs) == Section(cells, qs.at, h.got[4], ALEN, "answer")

ToRequest(h, qs) ==
  IF qs.ok THEN [ok |-> TRUE, msg |-> Request(h.got[1], qs.got)] ELSE Refused

ToResponse(h, qs, as) ==
  IF qs.ok /\ as.ok
  THEN [ok |-> TRUE, msg |-> Response(h.got[1], qs.got, as.got)] ELSE Refused

\* The count of answers is not used.
ParseRequest(cells, h) == ToRequest(h, Queries(cells, h))

ParseResponse(cells, h) ==
  ToResponse(h, Queries(cells, h), Answers(cells, h, Queries(cells, h)))

\* The flags say which of the two it is.
ByFlags(cells, h) ==
  IF ~ h.ok THEN Refused
  ELSE IF h.got[2] = "request" THEN ParseRequest(cells, h)
  ELSE ParseResponse(cells, h)

ParseMessage(cells) == ByFlags(cells, Header(cells))
=============================================================================
