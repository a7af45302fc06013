------------------------------- MODULE MCLabels -------------------------------
(***************************************************************************)
(* Small instances of LabelBytes with bytes of four bits.  The bytes in an *)
(* input are lengths, a pointer to its start, a dot, a letter that is also *)
(* a pointer beyond its end, and one that is no ASCII.  Names have a second*)
(* letter, which leads a pointer into them.                                *)
(***************************************************************************)
EXTENDS LabelBytes

Letter == 6
Inside == 5
InputBytes == {0, 1, 2, 4, Letter, 8}

AllInputs == UNION {[1 .. n -> InputBytes] : n \in 1 .. 6}

\* Chains and circles of pointers, with and without a segment before each.
Chain(n) == FlattenSeq([i \in 1 .. n |-> <<4, 2 * i>>]) \o <<1, Letter, 0>>
Circle(n) == FlattenSeq([i \in 1 .. n |-> <<4, 2 * (i % n)>>])
LongChain(n) == FlattenSeq([i \in 1 .. n |-> <<1, Letter, 4, 4 * i>>]) \o <<0, 0>>
Zigzag(n) == FlattenSeq([i \in 1 .. n |-> <<1, Dot, 4, 4 * (i % n)>>])

Chains == UNION {{Chain(n), Circle(n), LongChain(n), Zigzag(n)} : n \in 1 .. 3}
          \cup {Chain(n) : n \in {4, 5, 6}} \cup {Circle(5)}

MCInputs == AllInputs \cup Chains

Texts == UNION {[1 .. n -> {Dot, Letter, Inside}] : n \in 0 .. 6}

ShortTexts == UNION {[1 .. n -> {Dot, Letter, Inside}] : n \in 0 .. 3}

\* Label::new refuses a text that ends in a dot, push_front does not.
MayBeNew(text) == text = <<>> \/ Last(text) # Dot

MCNames ==
  {<<text>> : text \in {t \in Texts : MayBeNew(t)}}
  \cup {<<front, text>> : front \in ShortTexts, text \in {t \in ShortTexts : MayBeNew(t)}}
=============================================================================
