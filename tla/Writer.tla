-------------------------------- MODULE Writer --------------------------------
(***************************************************************************)
(* The output side of the wire format: Writer (src/src/writer.rs) and the  *)
(* serialization of labels with compression (src/src/dns/label.rs).        *)
(*                                                                         *)
(* A packet is a sequence of cells, each of them something that the code   *)
(* writes in one piece: a number, the length byte of a segment, its text,  *)
(* the zero at the end of a name, a compression pointer, or the place that *)
(* is reserved for the length of a record.  A position is the index of a   *)
(* cell.                                                                   *)
(***************************************************************************)
EXTENDS OpslagVec, SequencesExt

CONSTANT PtrSpan    \* positions a pointer can name: 14 bits of offset

Num(v)  == [k |-> "num", v |-> v]
Text(s) == [k |-> "text", v |-> s]
Ptr(at) == [k |-> "ptr", v |-> at]
LenByte == [k |-> "len"]
End     == [k |-> "end"]
Hole    == [k |-> "hole", v |-> "length"]

\* room: the length of the buffer; lk: the capacity of the lookup table.
NewWriter(room, lk) ==
  [cells |-> <<>>, overflow |-> FALSE, lookup |-> <<>>, room |-> room, lk |-> lk]

\* MUTANT: off by one.
FitsOneMore(w, cells) == Len(w.cells) + Len(cells) <= w.room + 1

Fits(w, cells) == Len(w.cells) + Len(cells) <= w.room

\* All or nothing, and nothing after the first overflow.
Write(w, cells) ==
  IF w.overflow THEN w
  ELSE IF Fits(w, cells) THEN [w EXCEPT !.cells = @ \o cells]
  ELSE [w EXCEPT !.overflow = TRUE]

\* MUTANT: the entry points behind the length byte.
PushLabelLate(w, name) ==
  [w EXCEPT !.lookup = VecPush(@, [name |-> name, at |-> Len(w.cells) + 2], w.lk)]

PushLabel(w, name) ==
  [w EXCEPT !.lookup = VecPush(@, [name |-> name, at |-> Len(w.cells) + 1], w.lk)]

\* MUTANT: a name is recognised by its first segment.
FoundByHead(w, name) ==
  {i \in DOMAIN w.lookup : Head(w.lookup[i].name) = Head(name)}

Found(w, name) == {i \in DOMAIN w.lookup : w.lookup[i].name = name}

\* The first entry wins.
FindLabel(w, name) == w.lookup[Min(Found(w, name))].at

-----------------------------------------------------------------------------
(* A label is a sequence of parts, and a part that was made from text is   *)
(* the sequence of its segments.  Only the last part ends the name.        *)

Rest(name, k) == SubSeq(name, k, Len(name))

\* MUTANT: a label is recorded when its segment has been written.
RecordAfter(w, rest) ==
  PushLabel(Write(Write(w, <<LenByte>>), <<Text(Head(rest))>>), rest)

\* One turn of the loop of serialize_str.
PutSegment(w, rest) ==
  Write(Write(PushLabel(w, rest), <<LenByte>>), <<Text(Head(rest))>>)

\* The places where a part can be cut short by a pointer.
Cuts(w, part, is_last) ==
  {k \in DOMAIN part : is_last /\ Found(w, Rest(part, k)) # {}}

\* The first n segments of a part.
PutSegments(w, part, n) ==
  FoldLeft(LAMBDA v, k : PutSegment(v, Rest(part, k)), w, [k \in 1 .. n |-> k])

PutPointer(w, name) == Write(w, <<Ptr(FindLabel(w, name) % PtrSpan)>>)

PutEnd(w, is_last) == IF is_last THEN Write(w, <<End>>) ELSE w

\* Segments before the k-th and a pointer for the rest.
UpTo(w, part, k) == PutPointer(PutSegments(w, part, k - 1), Rest(part, k))

SerializeStr(w, part, is_last) ==
  IF Cuts(w, part, is_last) = {}
  THEN PutEnd(PutSegments(w, part, Len(part)), is_last)
  ELSE UpTo(w, part, Min(Cuts(w, part, is_last)))

SerializeLabel(w, parts) ==
  LET put(v, i) == SerializeStr(v, parts[i], i = Len(parts))
  IN  FoldLeft(put, w, [i \in DOMAIN parts |-> i])

\* A label that came from a packet is written without compression, and its
\* segments are not recorded.
SerializeRun(w, segs) ==
  LET put(v, s) == Write(v, <<LenByte, Text(s)>>)
  IN  Write(FoldLeft(put, w, segs), <<End>>)

-----------------------------------------------------------------------------
(* The length of a record is written once the record is.                   *)

Reserve(w) == Write(w, <<Hole>>)

\* distance_from_reservation: how much was written since, the reserved place
\* included.
Distance(w, start) == Len(w.cells) - start

WriteReservation(w, start, cell) ==
  IF w.overflow THEN w ELSE [w EXCEPT !.cells[start + 1] = cell]
=============================================================================
