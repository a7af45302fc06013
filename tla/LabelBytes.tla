------------------------------ MODULE LabelBytes ------------------------------
(***************************************************************************)
(* Label::parse of src/src/dns/label.rs on arbitrary bytes, and what       *)
(* becomes of the label it returns: it is iterated over, compared, and     *)
(* written into the reply to the question it came in.                      *)
(*                                                                         *)
(* A byte has Byte values and is a pointer from Flag = Byte / 4 on; with   *)
(* Byte = 16 a segment longer than 3 does what one longer than 63 does in  *)
(* the code.  A byte below half of Byte is ASCII and all others are no     *)
(* valid UTF-8.  A segment is a sequence of bytes, an offset counts from 0.*)
(***************************************************************************)
EXTENDS OpslagVec, SequencesExt

CONSTANTS
  Byte,         \* 256
  Dot,          \* the byte '.'
  LLEN,         \* runs in a label
  Inputs,       \* what there is to parse: sequences of bytes
  Names         \* names made from text: sequences of parts, each of bytes

Flag == Byte \div 4

ASSUME LabelAssumption ==
  /\ Byte \in Nat /\ Byte = 4 * Flag /\ Flag > 1
  /\ Dot \in 1 .. Flag - 1
  /\ LLEN \in Nat \ {0}

VARIABLES
  context,      \* the whole message
  pos,          \* offset of `input`
  start,        \* offset of `all`, where the present run starts
  run_end,      \* length of the run so far
  limit,        \* recurse_limit
  items,        \* the runs of the label so far
  read,         \* the segments that were read, as they are on the wire
  after,        \* where the caller goes on, once that is known
  pc,           \* "parsing", "ok" or "refused"
  meant         \* what was written: [kind, segments]

parser == << pos, start, run_end, limit, items, read, after, pc >>
vars   == << parser, context, meant >>

From(bytes, offset) == SubSeq(bytes, offset + 1, Len(bytes))
Slice(bytes, offset, len) == SubSeq(bytes, offset + 1, offset + len)

\* Where two bytes point to that are a pointer.
PointsTo(bytes) == (bytes[1] % Flag) * Byte + bytes[2]

-----------------------------------------------------------------------------
(* Names made from text (LabelStr)                                         *)

\* The pieces between dots; nothing follows a dot at the end.
RECURSIVE Pieces(_)
Pieces(text) ==
  IF text = <<>> THEN <<>>
  ELSE LET dots == {i \in DOMAIN text : text[i] = Dot}
           end  == IF dots = {} THEN Len(text) + 1 ELSE Min(dots)
       IN  <<SubSeq(text, 1, end - 1)>> \o Pieces(From(text, end))

PutPiece(piece) == <<Len(piece) % Byte>> \o piece

\* MUTANT: a 0 ends every part.
EndAlways(is_last) == <<0>>

End(is_last) == IF is_last THEN <<0>> ELSE <<>>

Pointer(offset) == <<3 * Flag + offset \div Byte, offset % Byte>>

\* serialize_str, with w = [bytes, labels].  What is left of each part is
\* recorded with its offset; only the last part looks there.  There is room
\* for all of them: a bounded table is in Writer.
RECURSIVE PutStr(_, _, _)
PutStr(w, rest, is_last) ==
  LET at    == SelectInSeq(w.labels, LAMBDA label : label.name = rest)
      piece == Head(Pieces(rest))
  IN  IF rest = <<>>
      THEN [w EXCEPT !.bytes = @ \o End(is_last)]
      ELSE IF is_last /\ at > 0
      THEN [w EXCEPT !.bytes = @ \o Pointer(w.labels[at].offset)]
      ELSE PutStr([bytes  |-> w.bytes \o PutPiece(piece),
                   labels |-> Append(w.labels,
                                     [name |-> rest, offset |-> Len(w.bytes)])],
                  From(rest, Len(piece) + 1), is_last)

\* Label::serialize of parts into an empty message.
PutText(parts) ==
  LET put[n \in 0 .. Len(parts)] ==
        IF n = 0 THEN [bytes |-> <<>>, labels |-> <<>>]
        ELSE PutStr(put[n - 1], parts[n], n = Len(parts))
  IN  put[Len(parts)].bytes

TextSegments(parts) == FlattenSeq([i \in DOMAIN parts |-> Pieces(parts[i])])

\* str::split: one piece more than there are dots.
RECURSIVE Split(_)
Split(text) ==
  LET dots == {i \in DOMAIN text : text[i] = Dot}
  IN  IF dots = {} THEN <<text>>
      ELSE <<SubSeq(text, 1, Min(dots) - 1)>> \o Split(From(text, Min(dots)))

\* Label == &str
EqualsText(segments, text) == segments = Split(text)

-----------------------------------------------------------------------------
(* Parsed names (LabelRun)                                                 *)

\* In the place of a byte when a slice or an index is out of bounds.
OutOfBounds == Byte

\* LabelRunIter: a segment with dots in it is handed out in pieces.  The
\* branch for a pointer is there, but parse leaves no pointer in a run.
RECURSIVE RunSegments(_)
RunSegments(data) ==
  IF Len(data) < 2 THEN <<>>
  ELSE IF data[1] >= Flag
  THEN IF PointsTo(data) > Len(context) THEN << <<OutOfBounds>> >>
       ELSE RunSegments(From(context, PointsTo(data)))
  ELSE IF Len(data) < 1 + data[1] THEN << <<OutOfBounds>> >>
  ELSE Split(Slice(data, 1, data[1])) \o RunSegments(From(data, 1 + data[1]))

Segments == FlattenSeq([i \in DOMAIN items |-> RunSegments(items[i])])

\* MUTANT: the length byte is not counted.
WholeSegmentShort(data) == Slice(data, 0, data[1])

WholeSegment(data) == Slice(data, 0, 1 + data[1])

\* LabelRun::do_serialize: up to and with the 0, which only the last run has.
RECURSIVE PutRun(_)
PutRun(data) ==
  IF data = <<>> THEN <<>>
  ELSE IF data[1] = 0 THEN <<0>>
  ELSE IF data[1] >= Flag
  THEN IF Len(data) < 2 \/ PointsTo(data) > Len(context) THEN <<OutOfBounds>>
       ELSE PutRun(From(context, PointsTo(data)))
  ELSE IF Len(data) < 1 + data[1] THEN <<OutOfBounds>>
  ELSE WholeSegment(data) \o PutRun(From(data, 1 + data[1]))

Copied == FlattenSeq([i \in DOMAIN items |-> PutRun(items[i])])

-----------------------------------------------------------------------------
(* Label::parse, one step for each turn of the loop in do_parse            *)

RecurseLimit == 4

StartAt(offset) ==
  /\ pos' = offset /\ start' = offset
  /\ run_end' = 0 /\ limit' = RecurseLimit
  /\ items' = <<>> /\ read' = <<>> /\ after' = 0
  /\ pc' = "parsing"

Init ==
  /\ \/ /\ context \in Inputs \ {<<>>}
        /\ pos \in 0 .. Len(context) - 1
        /\ meant = [kind |-> "bytes", segments |-> <<>>]
     \/ \E parts \in Names :
        /\ context = PutText(parts)
        /\ pos = 0
        /\ meant = [kind |-> "text", segments |-> TextSegments(parts), parts |-> parts]
  /\ start = pos
  /\ run_end = 0 /\ limit = RecurseLimit
  /\ items = <<>> /\ read = <<>> /\ after = 0
  /\ pc = "parsing"

Input == From(context, pos)

IsText(bytes) == \A i \in DOMAIN bytes : bytes[i] < Byte \div 2

\* MUTANT: the length byte is not counted.
RunEndShort(len) == run_end + len

RunEnd(len) == run_end + 1 + len

AtSegment ==
  /\ Input # <<>>
  /\ Input[1] \in 1 .. Flag - 1
  /\ Len(Input) > Input[1]
  /\ IsText(Slice(Input, 1, Input[1]))

ReadSegment ==
  /\ pc = "parsing"
  /\ AtSegment
  /\ pos' = pos + 1 + Input[1]
  /\ run_end' = RunEnd(Input[1])
  /\ read' = Append(read, Slice(Input, 1, Input[1]))
  /\ UNCHANGED << context, meant, start, limit, items, after, pc >>

AtEnd == Input # <<>> /\ Input[1] = 0 /\ HasRoom(items, LLEN)

\* Only the name that parse was called for counts for the caller.
ResumeAt(offset) == IF after = 0 THEN offset ELSE after

ReadEnd ==
  /\ pc = "parsing"
  /\ AtEnd
  /\ items' = Append(items, Slice(context, start, RunEnd(0)))
  /\ after' = ResumeAt(pos + 1)
  /\ pc' = "ok"
  /\ UNCHANGED << context, meant, pos, start, run_end, limit, read >>

Offset == PointsTo(Input)

\* MUTANT: in however deep and narrow circles.
MayFollowAlways == Offset + 2 <= Len(context)

\* There is something at the offset, it is not this same pointer, and there
\* have not been too many of them.
MayFollow ==
  /\ Offset + 2 <= Len(context)
  /\ Slice(context, Offset, 2) # Slice(Input, 0, 2)
  /\ limit > 0

AtPointer ==
  /\ Len(Input) > 1
  /\ Input[1] >= Flag
  /\ run_end > 0 => HasRoom(items, LLEN)
  /\ MayFollow

\* MUTANT: the limit is handed on as it is.
LimitKept == limit

LimitLeft == limit - 1

FollowPointer ==
  /\ pc = "parsing"
  /\ AtPointer
  /\ items' = IF run_end > 0 THEN Append(items, Slice(context, start, run_end)) ELSE items
  /\ after' = ResumeAt(pos + 2)
  /\ pos' = Offset /\ start' = Offset
  /\ run_end' = 0
  /\ limit' = LimitLeft
  /\ UNCHANGED << context, meant, read, pc >>

Refuse ==
  /\ pc = "parsing"
  /\ ~ AtSegment /\ ~ AtEnd /\ ~ AtPointer
  /\ pc' = "refused"
  /\ UNCHANGED << context, meant, pos, start, run_end, limit, items, read, after >>

\* A question is written into the reply, and the asker parses it there.
CopyQuestion ==
  /\ pc = "ok"
  /\ meant.kind = "bytes"
  /\ context' = Copied
  /\ meant' = [kind |-> "copy", segments |-> Segments]
  /\ StartAt(0)

Next == ReadSegment \/ ReadEnd \/ FollowPointer \/ Refuse \/ CopyQuestion

Spec == Init /\ [][Next]_vars /\ WF_vars(Next)

-----------------------------------------------------------------------------
(* Properties                                                              *)

\* The parser stays within the message, and its runs and pointers within
\* their bounds.
LabelTypeOK ==
  /\ pos \in 0 .. Len(context) /\ start \in 0 .. pos
  /\ run_end = pos - start
  /\ limit \in 0 .. RecurseLimit
  /\ Alloc \/ Len(items) <= LLEN
  /\ after \in 0 .. Len(context)
  /\ pc \in {"parsing", "ok", "refused"}

\* Whatever the bytes, a label that was accepted can be iterated over: no
\* slice is out of bounds, no text invalid, and the segments are those that
\* were read, through every pointer, in their order.
IteratesWhatWasRead ==
  pc = "ok" =>
    Segments = FlattenSeq([i \in DOMAIN read |-> Split(read[i])])

\* Whatever way a question was compressed, it is copied without an index out
\* of bounds, and the asker gets it back as it was, ending where it should.
CopyReadsTheSame ==
  meant.kind = "copy" =>
    /\ OutOfBounds \notin Range(context)
    /\ pc # "refused"
    /\ pc = "ok" => Segments = meant.segments /\ after = Len(context)

IsSound(piece) == Len(piece) \in 1 .. Flag - 1

\* The segments up to the first that is empty, and taken for the end, or so
\* long that its length is taken for a pointer.
SoundFront(segments) ==
  SubSeq(segments, 1, SelectInSeq(segments \o << <<>> >>, LAMBDA p : ~ IsSound(p)) - 1)

Misleads(segments) ==
  LET sound == Len(SoundFront(segments))
  IN  sound < Len(segments) /\ segments[sound + 1] # <<>>

\* What is left of a text at its start and after each dot.
Rests(text) ==
  {From(text, i) : i \in {0} \cup {j \in DOMAIN text : text[j] = Dot}} \ {<<>>}

\* The last part has no end in common with one before it.
Apart(parts) ==
  \A i \in 1 .. Len(parts) - 1 : Rests(parts[i]) \cap Rests(Last(parts)) = {}

\* A name made from text is read as it was meant, up to a segment that is
\* empty; and equal to its text, if it has none.  It is refused only if the
\* last part was compressed to a pointer back into the same name, or for a
\* segment that is too long; what comes before that is read, if anything is.
TextIsRead ==
  meant.kind = "text" =>
    LET sound == SoundFront(meant.segments)
    IN  /\ pc = "refused" => Misleads(meant.segments) \/ ~ Apart(meant.parts)
        /\ pc = "ok" => IsPrefix(sound, Segments)
        /\ pc = "ok" /\ ~ Misleads(meant.segments) => Segments = sound
        /\ pc = "ok" /\ sound = meant.segments =>
             /\ after = Len(context)
             /\ Len(meant.parts) = 1 /\ sound # <<>> =>
                  EqualsText(Segments, meant.parts[1])

\* Pointers that lead around in circles, each at another one, do not keep
\* the parser busy: it always comes to an end.
ParsingEnds ==
  <>(pc = "refused" \/ (pc = "ok" /\ meant.kind # "bytes"))
=============================================================================
