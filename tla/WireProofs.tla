----------------------------- MODULE WireProofs -----------------------------
(***************************************************************************)
(* What the Writer leaves in its buffer and in its table of labels, for    *)
(* every message, every length of the buffer and every size of the table.  *)
(* An entry of the table is made before the segment it stands for is       *)
(* written, and stays when the segment is not: it can then lead anywhere,  *)
(* but after an overflow no pointer is written.                            *)
(***************************************************************************)
EXTENDS Wire, ListProofs

-----------------------------------------------------------------------------
(* The types of what is written                                            *)

Values  == {f.v : f \in UNION {Range(Items(m)) : m \in Messages}} \cup {"length"}
Cells   == [k : {"num"}, v : Values] \cup [k : {"text"}, v : STRING]
             \cup [k : {"ptr"}, v : Nat] \cup {LenByte, End, Hole}
Entries == [name : Seq(STRING), at : Nat]

Writers ==
  [cells : Seq(Cells), overflow : BOOLEAN, lookup : Seq(Entries), room : Nat, lk : Nat]

\* A segment begins at p.
IsLen(v, p) == p \in DOMAIN v.cells /\ v.cells[p].k = "len"

Sized(v) ==
  /\ Len(v.cells) <= v.room /\ v.room < PtrSpan
  /\ ExtendFits(Len(v.lookup), v.lk)

TableLeads(v) == ~ v.overflow => \A i \in DOMAIN v.lookup : IsLen(v, v.lookup[i].at)

PointersLead(v) ==
  \A i \in DOMAIN v.cells :
    v.cells[i].k = "ptr" => v.cells[i].v \in 1 .. i - 1 /\ IsLen(v, v.cells[i].v)

Good(v) == v \in Writers /\ Sized(v) /\ TableLeads(v) /\ PointersLead(v)

\* Nothing that was written or recorded is changed or taken back, and nothing
\* is written after an overflow.
Grows(u, v) ==
  /\ v.room = u.room /\ v.lk = u.lk
  /\ u.overflow => v.overflow /\ v.cells = u.cells
  /\ Len(u.cells) <= Len(v.cells)
  /\ \A i \in DOMAIN u.cells : v.cells[i] = u.cells[i]
  /\ Len(u.lookup) <= Len(v.lookup)
  /\ \A i \in DOMAIN u.lookup : v.lookup[i] = u.lookup[i]

\* Growing twice is growing.
LEMMA GrowsIsTransitive ==
  ASSUME NEW u \in Writers, NEW v \in Writers, NEW x \in Writers,
         Grows(u, v), Grows(v, x)
  PROVE  Grows(u, x)
  <1>1. /\ u.cells \in Seq(Cells) /\ v.cells \in Seq(Cells) /\ x.cells \in Seq(Cells)
        /\ u.lookup \in Seq(Entries) /\ v.lookup \in Seq(Entries) /\ x.lookup \in Seq(Entries)
    BY DEF Writers
  <1>2. /\ DOMAIN u.cells = 1 .. Len(u.cells) /\ DOMAIN v.cells = 1 .. Len(v.cells)
        /\ DOMAIN u.lookup = 1 .. Len(u.lookup) /\ DOMAIN v.lookup = 1 .. Len(v.lookup)
        /\ Len(u.cells) \in Nat /\ Len(v.cells) \in Nat /\ Len(x.cells) \in Nat
        /\ Len(u.lookup) \in Nat /\ Len(v.lookup) \in Nat /\ Len(x.lookup) \in Nat
    BY <1>1, LenProperties
  <1>3. QED
    BY <1>2 DEF Grows

\* So is writing nothing.
LEMMA GrowsIsReflexive ==
  ASSUME NEW v \in Writers
  PROVE  Grows(v, v)
  <1>1. v.cells \in Seq(Cells) /\ v.lookup \in Seq(Entries)
    BY DEF Writers
  <1>2. Len(v.cells) \in Nat /\ Len(v.lookup) \in Nat
    BY <1>1, LenProperties
  <1>3. QED
    BY <1>2 DEF Grows

\* What a writer can become by writing.
KeptBy(v) == {u \in Writers : Good(u) /\ Grows(v, u)}

\* By writing nothing it stays what it was.
LEMMA KeptByItself ==
  ASSUME NEW v, Good(v)
  PROVE  v \in KeptBy(v)
  BY GrowsIsReflexive DEF Good, KeptBy

\* By writing more it does not become anything else.
LEMMA KeptByBoth ==
  ASSUME NEW v, Good(v), NEW u \in KeptBy(v), NEW x, Good(x), Grows(u, x)
  PROVE  x \in KeptBy(v)
  <1>1. v \in Writers /\ u \in Writers /\ x \in Writers /\ Grows(v, u)
    BY DEF Good, KeptBy
  <1>2. Grows(v, x)
    BY <1>1, GrowsIsTransitive
  <1>3. QED
    BY <1>1, <1>2 DEF KeptBy

\* A segment that begins somewhere still does when more is written.
LEMMA LenStays ==
  ASSUME NEW u \in Writers, NEW v \in Writers, Grows(u, v), NEW p, IsLen(u, p)
  PROVE  IsLen(v, p)
  <1>1. /\ DOMAIN u.cells = 1 .. Len(u.cells) /\ DOMAIN v.cells = 1 .. Len(v.cells)
        /\ Len(u.cells) \in Nat /\ Len(v.cells) \in Nat
    BY LenProperties DEF Writers
  <1>2. QED
    BY <1>1 DEF Grows, IsLen

\* What is written at once: the new cells, all of them or none.
LEMMA WriteKeeps ==
  ASSUME NEW v, Good(v), NEW new \in Seq(Cells), NEW x, x = Write(v, new),
         ~ v.overflow =>
           \A j \in DOMAIN new : new[j].k = "ptr" => IsLen(v, new[j].v)
  PROVE  Good(x) /\ Grows(v, x)
  <1>1. /\ v \in Writers /\ v.cells \in Seq(Cells) /\ v.lookup \in Seq(Entries)
        /\ v.room \in Nat /\ v.lk \in Nat /\ v.overflow \in BOOLEAN
    BY DEF Good, Writers
  <1>2. /\ DOMAIN v.cells = 1 .. Len(v.cells) /\ Len(v.cells) \in Nat
        /\ DOMAIN v.lookup = 1 .. Len(v.lookup) /\ Len(v.lookup) \in Nat
        /\ DOMAIN new = 1 .. Len(new) /\ Len(new) \in Nat
    BY <1>1, LenProperties
  <1>3. CASE v.overflow
    <2>1. x = v
      BY <1>3 DEF Write
    <2>2. QED
      BY <1>1, <2>1, GrowsIsReflexive
  <1>4. CASE ~ v.overflow /\ ~ Fits(v, new)
    <2>1. x = [v EXCEPT !.overflow = TRUE]
      BY <1>4 DEF Write
    <2>2. /\ x \in Writers /\ x.overflow = TRUE
          /\ x.cells = v.cells /\ x.lookup = v.lookup /\ x.room = v.room /\ x.lk = v.lk
      BY <1>1, <2>1 DEF Writers
    <2>3. QED
      BY <1>2, <2>2 DEF Good, Sized, TableLeads, PointersLead, IsLen, Grows
  <1>5. CASE ~ v.overflow /\ Fits(v, new)
    <2> DEFINE both == v.cells \o new
    <2>1. x = [v EXCEPT !.cells = both]
      BY <1>5 DEF Write
    <2>2. /\ both \in Seq(Cells)
          /\ Len(both) = Len(v.cells) + Len(new)
          /\ \A i \in 1 .. Len(v.cells) : both[i] = v.cells[i]
          /\ \A i \in 1 .. Len(both) : i > Len(v.cells) => both[i] = new[i - Len(v.cells)]
      BY <1>1, <1>2, ConcatProperties
    <2> HIDE DEF both
    <2>3. DOMAIN both = 1 .. Len(both) /\ Len(both) \in Nat
      BY <2>2, LenProperties
    <2>4. /\ x \in Writers /\ x.overflow = FALSE
          /\ x.cells = both /\ x.lookup = v.lookup /\ x.room = v.room /\ x.lk = v.lk
      BY <1>1, <1>5, <2>1, <2>2 DEF Writers
    <2>5. Grows(v, x)
      BY <1>2, <1>5, <2>2, <2>4 DEF Grows
    <2>6. Sized(x)
      BY <1>5, <2>2, <2>4 DEF Good, Sized, Fits
    <2>7. TableLeads(x)
      <3>1. ASSUME NEW i \in DOMAIN x.lookup
            PROVE  IsLen(x, x.lookup[i].at)
        BY <1>1, <1>5, <2>4, <2>5, LenStays DEF Good, TableLeads
      <3>2. QED
        BY <3>1 DEF TableLeads
    <2>8. PointersLead(x)
      <3>1. ASSUME NEW i \in DOMAIN x.cells, x.cells[i].k = "ptr"
            PROVE  x.cells[i].v \in 1 .. i - 1 /\ IsLen(x, x.cells[i].v)
        <4>1. CASE i <= Len(v.cells)
          <5>1. i \in DOMAIN v.cells /\ x.cells[i] = v.cells[i]
            BY <1>2, <2>2, <2>3, <2>4, <3>1, <4>1
          <5>2. v.cells[i].v \in 1 .. i - 1 /\ IsLen(v, v.cells[i].v)
            BY <3>1, <5>1 DEF Good, PointersLead
          <5>3. QED
            BY <1>1, <2>4, <2>5, <5>1, <5>2, LenStays
        <4>2. CASE i > Len(v.cells)
          <5>1. /\ i \in Nat /\ i - Len(v.cells) \in DOMAIN new
                /\ x.cells[i] = new[i - Len(v.cells)]
            BY <1>2, <2>2, <2>3, <2>4, <3>1, <4>2
          <5>2. IsLen(v, x.cells[i].v)
            BY <1>5, <3>1, <5>1
          <5>3. x.cells[i].v \in 1 .. Len(v.cells)
            BY <1>2, <5>2 DEF IsLen
          <5>4. x.cells[i].v \in 1 .. i - 1
            BY <1>2, <4>2, <5>1, <5>3
          <5>5. QED
            BY <1>1, <2>4, <2>5, <5>2, <5>4, LenStays
        <4>3. QED
          <5>1. i \in Nat
            BY <2>3, <2>4
          <5>2. QED
            BY <1>2, <4>1, <4>2, <5>1
      <3>2. QED
        BY <3>1 DEF PointersLead
    <2>9. QED
      BY <2>4, <2>5, <2>6, <2>7, <2>8 DEF Good
  <1>6. QED
    BY <1>3, <1>4, <1>5

-----------------------------------------------------------------------------
(* Labels                                                                  *)

\* What is left of a part from one of its segments on.
LEMMA RestIsPart ==
  ASSUME NEW part \in Seq(STRING), NEW k \in DOMAIN part
  PROVE  Rest(part, k) \in Seq(STRING) /\ Head(Rest(part, k)) \in STRING
  <1>1. /\ DOMAIN part = 1 .. Len(part) /\ Len(part) \in Nat
        /\ k \in 1 .. Len(part) /\ part[k] \in STRING
    BY LenProperties, ElementOfSeq
  <1>2. \A i \in k .. Len(part) : part[i] \in STRING
    BY <1>1, ElementOfSeq
  <1>3. /\ Rest(part, k) \in Seq(STRING)
        /\ Len(Rest(part, k)) = Len(part) - k + 1
        /\ Rest(part, k)[1] = part[k]
    BY <1>1, <1>2, SubSeqProperties DEF Rest
  <1>4. QED
    BY <1>1, <1>3

\* An entry is recorded and the segment it leads to is written, or nothing is
\* written any more.
LEMMA PutSegmentKeeps ==
  ASSUME NEW v, Good(v), NEW rest \in Seq(STRING), Head(rest) \in STRING,
         NEW x, x = PutSegment(v, rest)
  PROVE  Good(x) /\ Grows(v, x)
  <1> DEFINE entry == [name |-> rest, at |-> Len(v.cells) + 1]
             table == VecPush(v.lookup, entry, v.lk)
             p     == PushLabel(v, rest)
             a     == Write(p, <<LenByte>>)
  <1>1. /\ v \in Writers /\ v.cells \in Seq(Cells) /\ v.lookup \in Seq(Entries)
        /\ v.room \in Nat /\ v.lk \in Nat /\ v.overflow \in BOOLEAN
    BY DEF Good, Writers
  <1>2. /\ DOMAIN v.cells = 1 .. Len(v.cells) /\ Len(v.cells) \in Nat
        /\ DOMAIN v.lookup = 1 .. Len(v.lookup) /\ Len(v.lookup) \in Nat
    BY <1>1, LenProperties
  <1>3. entry \in Entries /\ entry.at = Len(v.cells) + 1
    BY <1>2 DEF Entries
  <1> HIDE DEF entry
  <1>4. /\ table \in Seq(Entries) /\ Len(table) \in Nat
        /\ DOMAIN table = 1 .. Len(table)
        /\ ExtendFits(Len(v.lookup), v.lk) => ExtendFits(Len(table), v.lk)
        /\ Len(v.lookup) <= Len(table)
        /\ \A i \in 1 .. Len(v.lookup) : table[i] = v.lookup[i]
        /\ \A i \in 1 .. Len(table) : i > Len(v.lookup) => table[i] = entry
    <2>1. CASE HasRoom(v.lookup, v.lk)
      <3>1. table = Append(v.lookup, entry)
        BY <2>1 DEF VecPush
      <3>2. /\ table \in Seq(Entries) /\ Len(table) = Len(v.lookup) + 1
            /\ \A i \in 1 .. Len(v.lookup) : table[i] = v.lookup[i]
            /\ table[Len(v.lookup) + 1] = entry
        BY <1>1, <1>2, <1>3, <3>1, AppendProperties
      <3> HIDE DEF table
      <3>3. QED
        BY <1>1, <1>2, <2>1, <3>2, LenProperties DEF HasRoom, ExtendFits
    <2>2. CASE ~ HasRoom(v.lookup, v.lk)
      <3>1. table = v.lookup
        BY <2>2 DEF VecPush
      <3> HIDE DEF table
      <3>2. QED
        BY <1>1, <1>2, <3>1
    <2>3. QED
      BY <2>1, <2>2
  <1>5. /\ p \in Writers /\ p.lookup = table /\ p.cells = v.cells
        /\ p.overflow = v.overflow /\ p.room = v.room /\ p.lk = v.lk
    <2>1. p = [v EXCEPT !.lookup = table]
      BY DEF PushLabel, entry
    <2> HIDE DEF p, table
    <2>2. QED
      BY <1>1, <1>4, <2>1 DEF Writers
  <1> HIDE DEF table, p
  <1>6. <<LenByte>> \in Seq(Cells) /\ Len(<<LenByte>>) = 1 /\ <<LenByte>>[1] = LenByte
    BY DEF Cells
  <1>7. Good(a) /\ Grows(v, a)
    <2>1. CASE v.overflow
      <3>1. a = p
        BY <1>5, <2>1 DEF Write
      <3> HIDE DEF a
      <3>2. /\ a \in Writers /\ a.cells = v.cells /\ a.lookup = table
            /\ a.overflow /\ a.room = v.room /\ a.lk = v.lk
        BY <1>5, <2>1, <3>1
      <3>3. QED
        BY <1>2, <1>4, <3>2 DEF Good, Sized, TableLeads, PointersLead, IsLen, Grows
    <2>2. CASE ~ v.overflow /\ ~ Fits(p, <<LenByte>>)
      <3>1. a = [p EXCEPT !.overflow = TRUE]
        BY <1>5, <2>2 DEF Write
      <3> HIDE DEF a
      <3>2. /\ a \in Writers /\ a.overflow = TRUE
            /\ a.cells = v.cells /\ a.lookup = table /\ a.room = v.room /\ a.lk = v.lk
        BY <1>5, <3>1 DEF Writers
      <3>3. QED
        BY <1>2, <1>4, <3>2 DEF Good, Sized, TableLeads, PointersLead, IsLen, Grows
    <2>3. CASE ~ v.overflow /\ Fits(p, <<LenByte>>)
      <3> DEFINE both == v.cells \o <<LenByte>>
      <3>1. a = [p EXCEPT !.cells = both]
        BY <1>5, <2>3 DEF Write
      <3>2. /\ both \in Seq(Cells) /\ Len(both) = Len(v.cells) + 1
            /\ \A i \in 1 .. Len(v.cells) : both[i] = v.cells[i]
            /\ both[Len(v.cells) + 1] = LenByte
        BY <1>1, <1>2, <1>6, ConcatProperties
      <3> HIDE DEF a, both
      <3>3. DOMAIN both = 1 .. Len(both)
        BY <3>2, LenProperties
      <3>4. /\ a \in Writers /\ a.overflow = FALSE
            /\ a.cells = both /\ a.lookup = table /\ a.room = v.room /\ a.lk = v.lk
        BY <1>1, <1>5, <2>3, <3>1, <3>2 DEF Writers
      <3>5. Grows(v, a)
        BY <1>2, <1>4, <2>3, <3>2, <3>4 DEF Grows
      <3>6. Sized(a)
        BY <1>2, <1>4, <1>5, <1>6, <2>3, <3>2, <3>4 DEF Good, Sized, Fits
      <3>7. TableLeads(a)
        <4>1. ASSUME NEW i \in DOMAIN table
              PROVE  IsLen(a, table[i].at)
          <5>1. CASE i <= Len(v.lookup)
            <6>1. i \in DOMAIN v.lookup /\ table[i] = v.lookup[i]
              BY <1>2, <1>4, <4>1, <5>1
            <6>2. IsLen(v, v.lookup[i].at)
              BY <2>3, <6>1 DEF Good, TableLeads
            <6>3. QED
              BY <1>1, <3>4, <3>5, <6>1, <6>2, LenStays
          <5>2. CASE i > Len(v.lookup)
            <6>1. table[i].at = Len(v.cells) + 1
              BY <1>3, <1>4, <4>1, <5>2
            <6>2. QED
              BY <1>2, <3>2, <3>3, <3>4, <6>1 DEF IsLen, LenByte
          <5>3. QED
            <6>1. i \in Nat
              BY <1>4, <4>1
            <6>2. QED
              BY <1>2, <5>1, <5>2, <6>1
        <4>2. QED
          BY <3>4, <4>1 DEF TableLeads
      <3>8. PointersLead(a)
        <4>1. ASSUME NEW i \in DOMAIN a.cells, a.cells[i].k = "ptr"
              PROVE  a.cells[i].v \in 1 .. i - 1 /\ IsLen(a, a.cells[i].v)
          <5>1. i <= Len(v.cells)
            <6>1. LenByte.k # "ptr"
              BY DEF LenByte
            <6>2. i \in 1 .. Len(v.cells) + 1 /\ i # Len(v.cells) + 1
              BY <3>2, <3>3, <3>4, <4>1, <6>1
            <6>3. QED
              BY <1>2, <6>2
          <5>2. i \in DOMAIN v.cells /\ a.cells[i] = v.cells[i]
            BY <1>2, <3>2, <3>3, <3>4, <4>1, <5>1
          <5>3. v.cells[i].v \in 1 .. i - 1 /\ IsLen(v, v.cells[i].v)
            BY <4>1, <5>2 DEF Good, PointersLead
          <5>4. QED
            BY <1>1, <3>4, <3>5, <5>2, <5>3, LenStays
        <4>2. QED
          BY <4>1 DEF PointersLead
      <3>9. QED
        BY <3>4, <3>5, <3>6, <3>7, <3>8 DEF Good
    <2>4. QED
      BY <2>1, <2>2, <2>3
  <1>8. x = Write(a, <<Text(Head(rest))>>)
    BY DEF PutSegment, p
  <1>9. /\ <<Text(Head(rest))>> \in Seq(Cells)
        /\ \A j \in DOMAIN <<Text(Head(rest))>> : <<Text(Head(rest))>>[j].k # "ptr"
    BY DEF Cells, Text
  <1> HIDE DEF a
  <1>10. Good(x) /\ Grows(a, x)
    BY <1>7, <1>8, <1>9, WriteKeeps
  <1>11. QED
    BY <1>1, <1>7, <1>10, GrowsIsTransitive DEF Good

\* So do any number of segments of a part, one after the other.
LEMMA PutSegmentsSteps ==
  ASSUME NEW v, Good(v), NEW part \in Seq(STRING), NEW n \in 0 .. Len(part)
  PROVE  \E g \in [0 .. n -> KeptBy(v)] :
           /\ PutSegments(v, part, n) = g[n] /\ g[0] = v
           /\ \A k \in 1 .. n : g[k] = PutSegment(g[k - 1], Rest(part, k))
  <1> DEFINE S == KeptBy(v)
             ks == [k \in 1 .. n |-> k]
             F == [k \in 1 .. n |-> [u \in S |-> PutSegment(u, Rest(part, k))]]
             upto(f) == [s \in SUBSET DOMAIN ks |->
                           IF s = {} THEN v
                           ELSE PutSegment(f[s \ {Max(s)}], Rest(part, ks[Max(s)]))]
             iter == CHOOSE f : f = upto(f)
  <1>1. /\ DOMAIN part = 1 .. Len(part) /\ Len(part) \in Nat /\ n \in Nat
        /\ DOMAIN ks = 1 .. n /\ \A k \in 1 .. n : ks[k] = k /\ k \in DOMAIN part
    BY LenProperties
  <1>2. v \in S
    BY KeptByItself
  <1>3. \A k \in 1 .. n, u \in S : PutSegment(u, Rest(part, k)) \in S
    <2> TAKE k \in 1 .. n, u \in S
    <2> DEFINE y == PutSegment(u, Rest(part, k))
    <2>1. Rest(part, k) \in Seq(STRING) /\ Head(Rest(part, k)) \in STRING
      BY <1>1, RestIsPart
    <2>2. Good(u)
      BY DEF KeptBy
    <2> HIDE DEF y
    <2>3. Good(y) /\ Grows(u, y)
      BY <2>1, <2>2, PutSegmentKeeps DEF y
    <2>4. y \in S
      BY <2>3, KeptByBoth
    <2>5. QED
      BY <2>4 DEF y
  <1> HIDE DEF S
  <1>4. \A k \in 1 .. n, u \in S : F[k][u] \in S
    BY <1>3
  <1>5. PICK f : IsFoldTable(f, n, S, v, F)
    <2>1. n \in Nat
      BY <1>1
    <2> HIDE DEF F, upto, iter, ks
    <2>2. QED
      BY <1>2, <1>4, <2>1, FoldTable
  <1>6. ASSUME NEW s \in SUBSET (1 .. n), s # {}
        PROVE  Max(s) \in 1 .. n
    BY <1>1, <1>6, MaxOfBounded
  <1>7. f = upto(f)
    <2>1. ASSUME NEW s \in SUBSET (1 .. n)
          PROVE  f[s] = IF s = {} THEN v ELSE PutSegment(f[s \ {Max(s)}], Rest(part, ks[Max(s)]))
      <3>1. CASE s = {}
        BY <1>5, <3>1 DEF IsFoldTable
      <3>2. CASE s # {}
        <4>1. Max(s) \in 1 .. n /\ s \ {Max(s)} \in SUBSET (1 .. n)
          BY <1>6, <3>2
        <4>2. f[s \ {Max(s)}] \in S
          BY <1>5, <4>1 DEF IsFoldTable
        <4>3. f[s] = F[Max(s)][f[s \ {Max(s)}]]
          BY <1>5, <3>2 DEF IsFoldTable
        <4>4. QED
          BY <1>1, <3>2, <4>1, <4>2, <4>3
      <3>3. QED
        BY <3>1, <3>2
    <2>2. f = [s \in SUBSET DOMAIN ks |-> f[s]]
      BY <1>1, <1>5 DEF IsFoldTable
    <2>3. QED
      BY <1>1, <2>1, <2>2
  <1>8. iter = upto(iter)
    <2> HIDE DEF upto
    <2>1. QED
      BY <1>7
  <1>9. PutSegments(v, part, n) = iter[DOMAIN ks]
    BY Zenon DEF PutSegments, FoldLeft, MapThenFoldSet
  <1> HIDE DEF iter
  <1>10. iter[{}] = v
    BY <1>8
  <1>11. Iterates(iter, n, S, F)
    <2> SUFFICES \A k \in 1 .. n, s \in SUBSET (1 .. n) :
                   Max(s) = k /\ s # {} /\ iter[s \ {k}] \in S
                     => iter[s] = F[k][iter[s \ {k}]]
      BY DEF Iterates
    <2> TAKE k \in 1 .. n, s \in SUBSET (1 .. n)
    <2> HAVE Max(s) = k /\ s # {} /\ iter[s \ {k}] \in S
    <2>1. iter[s] = PutSegment(iter[s \ {Max(s)}], Rest(part, ks[Max(s)]))
      BY <1>1, <1>8
    <2> HIDE DEF upto
    <2>2. QED
      BY <1>1, <2>1
  <1>12. PICK g : IsFoldRun(g, n, S, v, F, iter[1 .. n])
    <2>1. n \in Nat
      BY <1>1
    <2> HIDE DEF F, upto, ks
    <2>2. QED
      BY <1>2, <1>4, <1>10, <1>11, <2>1, FoldSteps
  <1>13. ASSUME NEW k \in 1 .. n
         PROVE  g[k] = PutSegment(g[k - 1], Rest(part, k))
    <2>1. k - 1 \in 0 .. n
      BY <1>1
    <2>2. g[k - 1] \in S /\ g[k] = F[k][g[k - 1]]
      BY <1>12, <2>1 DEF IsFoldRun
    <2>3. QED
      BY <2>2
  <1>14. QED
    BY <1>1, <1>9, <1>12, <1>13 DEF S, IsFoldRun

\* What was written before stays.
LEMMA PutSegmentsKeeps ==
  ASSUME NEW v, Good(v), NEW part \in Seq(STRING), NEW n \in 0 .. Len(part),
         NEW x, x = PutSegments(v, part, n)
  PROVE  Good(x) /\ Grows(v, x)
  <1>1. Len(part) \in Nat /\ n \in 0 .. n
    BY LenProperties
  <1>2. x \in KeptBy(v)
    BY <1>1, PutSegmentsSteps
  <1>3. QED
    BY <1>2 DEF KeptBy

\* What is less than b is its own remainder.
LEMMA RemainderOfLess ==
  ASSUME NEW a \in Nat, NEW b \in Nat, a < b
  PROVE  a % b = a
  OBVIOUS

\* A name that is in the table has a pointer to where its first segment is,
\* since a pointer reaches every position of the buffer.
LEMMA PutPointerKeeps ==
  ASSUME NEW v, Good(v), NEW name, Found(v, name) # {},
         NEW x, x = PutPointer(v, name)
  PROVE  Good(x) /\ Grows(v, x)
  <1> DEFINE at == FindLabel(v, name)
  <1>1. /\ v \in Writers /\ v.cells \in Seq(Cells) /\ v.lookup \in Seq(Entries)
        /\ v.room \in Nat
    BY DEF Good, Writers
  <1>2. /\ DOMAIN v.cells = 1 .. Len(v.cells) /\ Len(v.cells) \in Nat
        /\ DOMAIN v.lookup = 1 .. Len(v.lookup) /\ Len(v.lookup) \in Nat
    BY <1>1, LenProperties
  <1>3. CASE v.overflow
    <2>1. x = v
      BY <1>3 DEF PutPointer, Write
    <2>2. QED
      BY <1>1, <2>1, GrowsIsReflexive
  <1>4. CASE ~ v.overflow
    <2>1. Found(v, name) \subseteq Nat /\ Found(v, name) \subseteq DOMAIN v.lookup
      BY <1>2 DEF Found
    <2>2. Min(Found(v, name)) \in DOMAIN v.lookup
      BY <2>1, MinOfNats
    <2>3. IsLen(v, at)
      BY <1>4, <2>2 DEF Good, TableLeads, FindLabel
    <2>4. at \in 1 .. Len(v.cells)
      BY <1>2, <2>3 DEF IsLen
    <2>5. at \in Nat /\ at < PtrSpan /\ PtrSpan \in Nat
      BY <1>1, <1>2, <2>4, WireAssumption DEF Good, Sized
    <2>6. at % PtrSpan = at
      BY <2>5, RemainderOfLess
    <2> DEFINE new == <<Ptr(at)>>
    <2>7. x = Write(v, new)
      BY <2>6 DEF PutPointer
    <2> HIDE DEF at
    <2>8. new \in Seq(Cells) /\ \A j \in DOMAIN new : new[j].v = at
      BY <2>5 DEF Cells, Ptr
    <2> HIDE DEF new
    <2>9. QED
      BY <2>3, <2>7, <2>8, WriteKeeps
  <1>5. QED
    BY <1>3, <1>4

\* A part is written segment by segment, up to where the table knows the rest.
LEMMA SerializeStrKeeps ==
  ASSUME NEW v, Good(v), NEW part \in Seq(STRING), NEW is_last,
         NEW x, x = SerializeStr(v, part, is_last)
  PROVE  Good(x) /\ Grows(v, x)
  <1>1. DOMAIN part = 1 .. Len(part) /\ Len(part) \in Nat
    BY LenProperties
  <1>2. CASE Cuts(v, part, is_last) = {}
    <2> DEFINE a == PutSegments(v, part, Len(part))
    <2>1. Len(part) \in 0 .. Len(part)
      BY <1>1
    <2>2. x = PutEnd(a, is_last)
      BY <1>2 DEF SerializeStr
    <2>3. Good(a) /\ Grows(v, a)
      BY <2>1, PutSegmentsKeeps
    <2> HIDE DEF a
    <2>4. CASE is_last
      <3>1. x = Write(a, <<End>>)
        BY <2>2, <2>4 DEF PutEnd
      <3>2. <<End>> \in Seq(Cells) /\ \A j \in DOMAIN <<End>> : <<End>>[j].k # "ptr"
        BY DEF Cells, End
      <3>3. Good(x) /\ Grows(a, x)
        BY <2>3, <3>1, <3>2, WriteKeeps
      <3>4. QED
        BY <2>3, <3>3, GrowsIsTransitive DEF Good
    <2>5. CASE ~ is_last
      BY <2>2, <2>3, <2>5 DEF PutEnd
    <2>6. QED
      BY <2>4, <2>5
  <1>3. CASE Cuts(v, part, is_last) # {}
    <2> DEFINE k == Min(Cuts(v, part, is_last))
               a == PutSegments(v, part, k - 1)
    <2>1. Cuts(v, part, is_last) \subseteq Nat
      BY <1>1 DEF Cuts
    <2>2. k \in Cuts(v, part, is_last)
      BY <1>3, <2>1, MinOfNats
    <2>3. x = PutPointer(a, Rest(part, k))
      BY <1>3 DEF SerializeStr, UpTo
    <2> HIDE DEF k
    <2>4. k - 1 \in 0 .. Len(part) /\ Found(v, Rest(part, k)) # {}
      BY <1>1, <2>2 DEF Cuts
    <2>5. Good(a) /\ Grows(v, a)
      BY <2>4, PutSegmentsKeeps
    <2> HIDE DEF a
    <2>6. Found(a, Rest(part, k)) # {}
      <3>1. PICK i \in DOMAIN v.lookup : v.lookup[i].name = Rest(part, k)
        BY <2>4 DEF Found
      <3>2. v.lookup \in Seq(Entries) /\ a.lookup \in Seq(Entries)
        BY <2>5 DEF Good, Writers
      <3>3. /\ DOMAIN v.lookup = 1 .. Len(v.lookup) /\ Len(v.lookup) \in Nat
            /\ DOMAIN a.lookup = 1 .. Len(a.lookup) /\ Len(a.lookup) \in Nat
        BY <3>2, LenProperties
      <3>4. i \in DOMAIN a.lookup /\ a.lookup[i] = v.lookup[i]
        BY <2>5, <3>1, <3>3 DEF Grows
      <3>5. QED
        BY <3>1, <3>4 DEF Found
    <2>7. Good(x) /\ Grows(a, x)
      BY <2>3, <2>5, <2>6, PutPointerKeeps
    <2>8. QED
      BY <2>5, <2>7, GrowsIsTransitive DEF Good
  <1>4. QED
    BY <1>2, <1>3

\* A label is written part by part.
LEMMA SerializeLabelSteps ==
  ASSUME NEW v, Good(v), NEW parts \in Seq(Seq(STRING))
  PROVE  \E g \in [0 .. Len(parts) -> KeptBy(v)] :
           /\ SerializeLabel(v, parts) = g[Len(parts)] /\ g[0] = v
           /\ \A k \in 1 .. Len(parts) :
                g[k] = SerializeStr(g[k - 1], parts[k], k = Len(parts))
  <1> DEFINE PutPart(u, i) == SerializeStr(u, parts[i], i = Len(parts))
             S == KeptBy(v)
             n == Len(parts)
             ks == [i \in DOMAIN parts |-> i]
             F == [k \in 1 .. n |-> [u \in S |-> PutPart(u, k)]]
             upto(f) == [s \in SUBSET DOMAIN ks |->
                           IF s = {} THEN v
                           ELSE PutPart(f[s \ {Max(s)}], ks[Max(s)])]
             iter == CHOOSE f : f = upto(f)
  <1>1. /\ DOMAIN parts = 1 .. n /\ n \in Nat
        /\ DOMAIN ks = 1 .. n /\ \A k \in 1 .. n : ks[k] = k
    BY LenProperties
  <1>2. v \in S
    BY KeptByItself
  <1>3. \A k \in 1 .. n, u \in S : PutPart(u, k) \in S
    <2> TAKE k \in 1 .. n, u \in S
    <2> DEFINE y == PutPart(u, k)
    <2>1. parts[k] \in Seq(STRING)
      BY <1>1, ElementOfSeq
    <2>2. Good(u)
      BY DEF KeptBy
    <2> HIDE DEF y
    <2>3. Good(y) /\ Grows(u, y)
      BY <2>1, <2>2, SerializeStrKeeps DEF y
    <2>4. y \in S
      BY <2>3, KeptByBoth
    <2>5. QED
      BY <2>4 DEF y
  <1> HIDE DEF S, PutPart, n
  <1>4. \A k \in 1 .. n, u \in S : F[k][u] \in S
    BY <1>3
  <1>5. PICK f : IsFoldTable(f, n, S, v, F)
    <2>1. n \in Nat
      BY <1>1
    <2> HIDE DEF F, upto, iter, ks
    <2>2. QED
      BY <1>2, <1>4, <2>1, FoldTable
  <1>6. ASSUME NEW s \in SUBSET (1 .. n), s # {}
        PROVE  Max(s) \in 1 .. n
    BY <1>1, <1>6, MaxOfBounded
  <1>7. f = upto(f)
    <2>1. ASSUME NEW s \in SUBSET (1 .. n)
          PROVE  f[s] = IF s = {} THEN v ELSE PutPart(f[s \ {Max(s)}], ks[Max(s)])
      <3>1. CASE s = {}
        BY <1>5, <3>1 DEF IsFoldTable
      <3>2. CASE s # {}
        <4>1. Max(s) \in 1 .. n /\ s \ {Max(s)} \in SUBSET (1 .. n)
          BY <1>6, <3>2
        <4>2. f[s \ {Max(s)}] \in S
          BY <1>5, <4>1 DEF IsFoldTable
        <4>3. f[s] = F[Max(s)][f[s \ {Max(s)}]]
          BY <1>5, <3>2 DEF IsFoldTable
        <4>4. QED
          BY <1>1, <3>2, <4>1, <4>2, <4>3
      <3>3. QED
        BY <3>1, <3>2
    <2>2. f = [s \in SUBSET DOMAIN ks |-> f[s]]
      BY <1>1, <1>5 DEF IsFoldTable
    <2>3. QED
      BY <1>1, <2>1, <2>2
  <1>8. iter = upto(iter)
    <2> HIDE DEF upto
    <2>1. QED
      BY <1>7
  <1>9. SerializeLabel(v, parts) = iter[DOMAIN ks]
    BY Zenon DEF PutPart, SerializeLabel, FoldLeft, MapThenFoldSet
  <1> HIDE DEF iter
  <1>10. iter[{}] = v
    BY <1>8
  <1>11. Iterates(iter, n, S, F)
    <2> SUFFICES \A k \in 1 .. n, s \in SUBSET (1 .. n) :
                   Max(s) = k /\ s # {} /\ iter[s \ {k}] \in S
                     => iter[s] = F[k][iter[s \ {k}]]
      BY DEF Iterates
    <2> TAKE k \in 1 .. n, s \in SUBSET (1 .. n)
    <2> HAVE Max(s) = k /\ s # {} /\ iter[s \ {k}] \in S
    <2>1. iter[s] = PutPart(iter[s \ {Max(s)}], ks[Max(s)])
      BY <1>1, <1>8
    <2> HIDE DEF upto
    <2>2. QED
      BY <1>1, <2>1
  <1>12. PICK g : IsFoldRun(g, n, S, v, F, iter[1 .. n])
    <2>1. n \in Nat
      BY <1>1
    <2> HIDE DEF F, upto, ks
    <2>2. QED
      BY <1>2, <1>4, <1>10, <1>11, <2>1, FoldSteps
  <1>13. ASSUME NEW k \in 1 .. n
         PROVE  g[k] = PutPart(g[k - 1], k)
    <2>1. k - 1 \in 0 .. n
      BY <1>1
    <2>2. g[k - 1] \in S /\ g[k] = F[k][g[k - 1]]
      BY <1>12, <2>1 DEF IsFoldRun
    <2>3. QED
      BY <2>2
  <1>14. /\ g \in [0 .. n -> S] /\ g[0] = v /\ n = Len(parts)
         /\ SerializeLabel(v, parts) = g[n]
    BY <1>1, <1>9, <1>12 DEF n, IsFoldRun
  <1>15. \A k \in 1 .. n : g[k] = SerializeStr(g[k - 1], parts[k], k = Len(parts))
    BY Zenon, <1>13 DEF PutPart
  <1>16. QED
    BY Zenon, <1>14, <1>15 DEF S

\* What was written before stays.
LEMMA SerializeLabelKeeps ==
  ASSUME NEW v, Good(v), NEW parts \in Seq(Seq(STRING)),
         NEW x, x = SerializeLabel(v, parts)
  PROVE  Good(x) /\ Grows(v, x)
  <1>1. Len(parts) \in 0 .. Len(parts)
    BY LenProperties
  <1>2. x \in KeptBy(v)
    BY <1>1, SerializeLabelSteps
  <1>3. QED
    BY <1>2 DEF KeptBy

\* A name is copied segment by segment, without a pointer.
LEMMA SerializeRunSteps ==
  ASSUME NEW v, Good(v), NEW segs \in Seq(STRING)
  PROVE  \E g \in [0 .. Len(segs) -> KeptBy(v)] :
           /\ SerializeRun(v, segs) = Write(g[Len(segs)], <<End>>) /\ g[0] = v
           /\ \A k \in 1 .. Len(segs) : g[k] = Write(g[k - 1], <<LenByte, Text(segs[k])>>)
  <1> DEFINE Copied(u, seg) == Write(u, <<LenByte, Text(seg)>>)
             S == KeptBy(v)
             n == Len(segs)
             F == [k \in 1 .. n |-> [u \in S |-> Copied(u, segs[k])]]
             upto(f) == [s \in SUBSET DOMAIN segs |->
                           IF s = {} THEN v
                           ELSE Copied(f[s \ {Max(s)}], segs[Max(s)])]
             iter == CHOOSE f : f = upto(f)
  <1>1. DOMAIN segs = 1 .. n /\ n \in Nat
    BY LenProperties
  <1>2. v \in S
    BY KeptByItself
  <1>3. \A k \in 1 .. n, u \in S : Copied(u, segs[k]) \in S
    <2> TAKE k \in 1 .. n, u \in S
    <2> DEFINE y == Copied(u, segs[k])
               new == <<LenByte, Text(segs[k])>>
    <2>1. new \in Seq(Cells) /\ \A j \in DOMAIN new : new[j].k # "ptr"
      <3>1. segs[k] \in STRING
        BY <1>1, ElementOfSeq
      <3>2. LenByte \in Cells /\ Text(segs[k]) \in Cells
        BY <3>1 DEF Cells, Text
      <3>3. LenByte.k # "ptr" /\ Text(segs[k]).k # "ptr"
        BY DEF LenByte, Text
      <3>4. DOMAIN new = 1 .. 2 /\ new[1] = LenByte /\ new[2] = Text(segs[k])
        OBVIOUS
      <3>5. QED
        BY <3>2, <3>3, <3>4
    <2>2. y = Write(u, new)
      OBVIOUS
    <2> HIDE DEF new, y
    <2>3. Good(u)
      BY DEF KeptBy
    <2>4. Good(y) /\ Grows(u, y)
      BY <2>1, <2>2, <2>3, WriteKeeps
    <2>5. y \in S
      BY <2>4, KeptByBoth
    <2>6. QED
      BY <2>5 DEF y
  <1> HIDE DEF S, Copied, n
  <1>4. \A k \in 1 .. n, u \in S : F[k][u] \in S
    BY <1>3
  <1>5. PICK f : IsFoldTable(f, n, S, v, F)
    <2>1. n \in Nat
      BY <1>1
    <2> HIDE DEF F, upto, iter
    <2>2. QED
      BY <1>2, <1>4, <2>1, FoldTable
  <1>6. ASSUME NEW s \in SUBSET (1 .. n), s # {}
        PROVE  Max(s) \in 1 .. n
    BY <1>1, <1>6, MaxOfBounded
  <1>7. f = upto(f)
    <2>1. ASSUME NEW s \in SUBSET (1 .. n)
          PROVE  f[s] = IF s = {} THEN v ELSE Copied(f[s \ {Max(s)}], segs[Max(s)])
      <3>1. CASE s = {}
        BY <1>5, <3>1 DEF IsFoldTable
      <3>2. CASE s # {}
        <4>1. Max(s) \in 1 .. n /\ s \ {Max(s)} \in SUBSET (1 .. n)
          BY <1>6, <3>2
        <4>2. f[s \ {Max(s)}] \in S
          BY <1>5, <4>1 DEF IsFoldTable
        <4>3. f[s] = F[Max(s)][f[s \ {Max(s)}]]
          BY <1>5, <3>2 DEF IsFoldTable
        <4>4. QED
          BY <1>1, <3>2, <4>1, <4>2, <4>3
      <3>3. QED
        BY <3>1, <3>2
    <2>2. f = [s \in SUBSET DOMAIN segs |-> f[s]]
      BY <1>1, <1>5 DEF IsFoldTable
    <2>3. QED
      BY <1>1, <2>1, <2>2
  <1>8. iter = upto(iter)
    <2> HIDE DEF upto
    <2>1. QED
      BY <1>7
  <1>9. SerializeRun(v, segs) = Write(iter[DOMAIN segs], <<End>>)
    BY Zenon DEF Copied, SerializeRun, FoldLeft, MapThenFoldSet
  <1> HIDE DEF iter
  <1>10. iter[{}] = v
    BY <1>8
  <1>11. Iterates(iter, n, S, F)
    <2> SUFFICES \A k \in 1 .. n, s \in SUBSET (1 .. n) :
                   Max(s) = k /\ s # {} /\ iter[s \ {k}] \in S
                     => iter[s] = F[k][iter[s \ {k}]]
      BY DEF Iterates
    <2> TAKE k \in 1 .. n, s \in SUBSET (1 .. n)
    <2> HAVE Max(s) = k /\ s # {} /\ iter[s \ {k}] \in S
    <2>1. iter[s] = Copied(iter[s \ {Max(s)}], segs[Max(s)])
      BY <1>1, <1>8
    <2> HIDE DEF upto
    <2>2. QED
      BY <1>1, <2>1
  <1>12. PICK g : IsFoldRun(g, n, S, v, F, iter[1 .. n])
    <2>1. n \in Nat
      BY <1>1
    <2> HIDE DEF F, upto
    <2>2. QED
      BY <1>2, <1>4, <1>10, <1>11, <2>1, FoldSteps
  <1>13. ASSUME NEW k \in 1 .. n
         PROVE  g[k] = Copied(g[k - 1], segs[k])
    <2>1. k - 1 \in 0 .. n
      BY <1>1
    <2>2. g[k - 1] \in S /\ g[k] = F[k][g[k - 1]]
      BY <1>12, <2>1 DEF IsFoldRun
    <2>3. QED
      BY <2>2
  <1>14. QED
    BY <1>1, <1>9, <1>12, <1>13 DEF S, Copied, n, IsFoldRun

\* What was written before stays.
LEMMA SerializeRunKeeps ==
  ASSUME NEW v, Good(v), NEW segs \in Seq(STRING),
         NEW x, x = SerializeRun(v, segs)
  PROVE  Good(x) /\ Grows(v, x)
  <1>1. PICK a \in KeptBy(v) : x = Write(a, <<End>>)
    <2>1. Len(segs) \in 0 .. Len(segs)
      BY LenProperties
    <2>2. QED
      BY <2>1, SerializeRunSteps
  <1>2. <<End>> \in Seq(Cells) /\ \A j \in DOMAIN <<End>> : <<End>>[j].k # "ptr"
    BY DEF Cells, End
  <1>3. Good(a)
    BY DEF KeptBy
  <1>4. Good(x) /\ Grows(a, x)
    BY <1>1, <1>2, <1>3, WriteKeeps
  <1>5. x \in KeptBy(v)
    BY <1>4, KeptByBoth
  <1>6. QED
    BY <1>5 DEF KeptBy

-----------------------------------------------------------------------------
(* The fields of a message                                                 *)

\* What SerializeLabel and SerializeRun are given: names of strings.
FieldOK(f) ==
  /\ f.put = "name" => f.parts \in Seq(Seq(STRING))
  /\ f.put = "copy" => f.segs \in Seq(STRING)

AreFields(s) == s \in Seq(Range(s)) /\ \A f \in Range(s) : FieldOK(f)

\* A field makes a list of fields.
LEMMA OneField ==
  ASSUME NEW f, FieldOK(f)
  PROVE  AreFields(<<f>>)
  <1>1. Range(<<f>>) = {f}
    BY DEF Range
  <1>2. QED
    BY <1>1 DEF AreFields

\* Fields and more fields.
LEMMA JoinedFields ==
  ASSUME NEW s, NEW t, AreFields(s), AreFields(t)
  PROVE  /\ AreFields(s \o t)
         /\ s # <<>> => s \o t # <<>> /\ Head(s \o t) = Head(s)
  <1> DEFINE T == Range(s) \cup Range(t)
  <1>1. s \in Seq(T) /\ t \in Seq(T)
    BY SeqMonotonic DEF AreFields
  <1>2. s \o t \in Seq(T) /\ Range(s \o t) = T
    BY <1>1, ConcatProperties, RangeConcatenation
  <1>3. AreFields(s \o t)
    BY <1>2 DEF AreFields
  <1> HIDE DEF T
  <1>4. ASSUME s # <<>>
        PROVE  s \o t # <<>> /\ Head(s \o t) = Head(s)
    <2>1. Len(s) \in Nat /\ Len(t) \in Nat /\ Len(s) > 0
      BY <1>1, <1>4, LenProperties, EmptySeq
    <2>2. Len(s \o t) = Len(s) + Len(t) /\ (s \o t)[1] = s[1]
      BY <1>1, <2>1, ConcatProperties
    <2>3. s \o t # <<>>
      BY <1>2, <2>1, <2>2
    <2>4. QED
      BY <1>1, <1>2, <1>4, <2>2, <2>3, HeadTailProperties
  <1>5. QED
    BY <1>3, <1>4

\* The fields of each item of a list.
LEMMA FlatFields ==
  ASSUME NEW n \in Nat, NEW xs, xs = [i \in 1 .. n |-> xs[i]],
         \A i \in 1 .. n : AreFields(xs[i])
  PROVE  AreFields(FlattenSeq(xs))
  <1> DEFINE T == UNION {Range(xs[i]) : i \in DOMAIN xs}
  <1>1. DOMAIN xs = 1 .. n
    OBVIOUS
  <1>2. \A i \in 1 .. n : xs[i] \in Seq(T)
    <2> TAKE i \in 1 .. n
    <2>1. Range(xs[i]) \subseteq T /\ xs[i] \in Seq(Range(xs[i]))
      BY <1>1 DEF AreFields
    <2> HIDE DEF T
    <2>2. QED
      BY <2>1, SeqMonotonic
  <1>3. \A f \in T : FieldOK(f)
    BY <1>1 DEF AreFields
  <1>4. Range(FlattenSeq(xs)) = T /\ FlattenSeq(xs) \in Seq(T)
    <2> DEFINE Q == T
    <2>1. \A i \in 1 .. n : xs[i] \in Seq(Q)
      BY <1>2
    <2> HIDE DEF Q
    <2>2. xs \in Seq(Seq(Q))
      BY <2>1, IsASeq
    <2>3. /\ FlattenSeq(xs) \in Seq(Q)
          /\ Range(FlattenSeq(xs)) = UNION {Range(xs[i]) : i \in DOMAIN xs}
      BY <2>2, FlattenProperties
    <2>4. QED
      BY <2>3 DEF Q
  <1> HIDE DEF T
  <1>5. QED
    BY <1>3, <1>4 DEF AreFields

\* Numbers and the places for lengths are fields.
LEMMA SimpleFields ==
  /\ \A x : AreFields(Number(x)) /\ Number(x) # <<>> /\ Head(Number(x)).put = "number"
  /\ AreFields(Reserved) /\ AreFields(Filled)
  <1>1. ASSUME NEW x
        PROVE  AreFields(Number(x)) /\ Number(x) # <<>> /\ Head(Number(x)).put = "number"
    <2> DEFINE f == [put |-> "number", v |-> x]
    <2>1. FieldOK(f) /\ f.put = "number"
      BY DEF FieldOK
    <2>2. Number(x) = <<f>>
      BY DEF Number
    <2> HIDE DEF f
    <2>3. QED
      BY <2>1, <2>2, OneField
  <1>2. FieldOK([put |-> "reserve"]) /\ FieldOK([put |-> "fill"])
    BY DEF FieldOK
  <1>3. AreFields(Reserved) /\ AreFields(Filled)
    BY <1>2, OneField DEF Reserved, Filled
  <1>4. QED
    BY <1>1, <1>3

\* A name, in one part or in two, or copied.
LEMMA NameFields ==
  ASSUME NEW name, IsName(name)
  PROVE  AreFields(Whole(name)) /\ AreFields(Instance(name)) /\ AreFields(Copy(name))
  <1>1. name \in Seq(STRING) /\ Head(name) \in STRING /\ Tail(name) \in Seq(STRING)
    BY HeadTailProperties DEF IsName
  <1>2. ASSUME NEW parts \in Seq(Seq(STRING))
        PROVE  AreFields(Name(parts))
    <2>1. FieldOK([put |-> "name", parts |-> parts])
      BY DEF FieldOK
    <2>2. QED
      BY <2>1, OneField DEF Name
  <1>3. <<name>> \in Seq(Seq(STRING)) /\ << <<Head(name)>>, Tail(name) >> \in Seq(Seq(STRING))
    BY <1>1
  <1>4. FieldOK([put |-> "copy", segs |-> name])
    BY <1>1 DEF FieldOK
  <1>5. QED
    BY <1>2, <1>3, <1>4, OneField DEF Whole, Instance, Copy

\* A question is written as fields.
LEMMA QueryIsFields ==
  ASSUME NEW q, NEW kind, IsName(q.name)
  PROVE  AreFields(QueryItems(q, kind))
  <1> DEFINE a == IF kind = "request" THEN Whole(q.name) ELSE Copy(q.name)
  <1>1. AreFields(a)
    BY NameFields
  <1>2. AreFields(Number(q.qtype)) /\ AreFields(Number(q.qclass))
    BY SimpleFields
  <1>3. QueryItems(q, kind) = (a \o Number(q.qtype)) \o Number(q.qclass)
    BY DEF QueryItems
  <1> HIDE DEF a
  <1>4. AreFields(a \o Number(q.qtype))
    BY <1>1, <1>2, JoinedFields
  <1>5. QED
    BY <1>2, <1>3, <1>4, JoinedFields

\* So is a record of each type.
LEMMA RecordIsFields ==
  ASSUME NEW rec, rec.type = "PTR" => IsName(rec.name),
         rec.type = "SRV" => IsName(rec.target)
  PROVE  AreFields(RecordItems(rec))
  <1>1. CASE rec.type = "PTR"
    <2>1. AreFields(Reserved) /\ AreFields(Filled) /\ AreFields(Instance(rec.name))
      BY <1>1, SimpleFields, NameFields
    <2>2. RecordItems(rec) = (Reserved \o Instance(rec.name)) \o Filled
      BY <1>1 DEF RecordItems, PtrItems
    <2>3. AreFields(Reserved \o Instance(rec.name))
      BY <2>1, JoinedFields
    <2>4. QED
      BY <2>1, <2>2, <2>3, JoinedFields
  <1>2. CASE rec.type = "SRV"
    <2>1. /\ AreFields(Reserved) /\ AreFields(Filled)
          /\ AreFields(Number(rec.port)) /\ AreFields(Whole(rec.target))
      BY <1>2, SimpleFields, NameFields
    <2>2. RecordItems(rec)
            = ((Reserved \o Number(rec.port)) \o Whole(rec.target)) \o Filled
      BY <1>2 DEF RecordItems, SrvItems
    <2>3. AreFields(Reserved \o Number(rec.port))
      BY <2>1, JoinedFields
    <2>4. AreFields((Reserved \o Number(rec.port)) \o Whole(rec.target))
      BY <2>1, <2>3, JoinedFields
    <2>5. QED
      BY <2>1, <2>2, <2>4, JoinedFields
  <1>3. CASE rec.type = "TXT"
    <2>1. RecordItems(rec) = Number("length") \o Number("text")
      BY <1>3 DEF RecordItems, TxtItems
    <2>2. QED
      BY <2>1, SimpleFields, JoinedFields
  <1>4. CASE rec.type \notin {"PTR", "SRV", "TXT"}
    <2>1. RecordItems(rec) = Number("length") \o Number(rec.address)
      BY <1>4 DEF RecordItems, IpItems
    <2>2. QED
      BY <2>1, SimpleFields, JoinedFields
  <1>5. QED
    BY <1>1, <1>2, <1>3, <1>4

\* So is an answer.
LEMMA AnswerIsFields ==
  ASSUME NEW a, IsName(a.name), a.rec.type = "PTR" => IsName(a.rec.name),
         a.rec.type = "SRV" => IsName(a.rec.target)
  PROVE  AreFields(AnswerItems(a))
  <1> DEFINE n == IF a.rec.type \in {"SRV", "TXT"} THEN Instance(a.name) ELSE Whole(a.name)
             b == n \o Number(a.rec.type)
             c == b \o Number(a.aclass)
  <1>1. AreFields(n)
    BY NameFields
  <1>2. AnswerItems(a) = c \o RecordItems(a.rec)
    BY DEF AnswerItems
  <1> HIDE DEF n
  <1>3. AreFields(b)
    BY <1>1, SimpleFields, JoinedFields
  <1> HIDE DEF b
  <1>4. AreFields(c)
    BY <1>3, SimpleFields, JoinedFields
  <1> HIDE DEF c
  <1>5. AreFields(RecordItems(a.rec))
    BY RecordIsFields
  <1>6. QED
    BY <1>2, <1>4, <1>5, JoinedFields

\* What kind of message it is.
LEMMA MessageParts ==
  ASSUME NEW m \in Messages
  PROVE  /\ m.queries \in Seq(Range(m.queries))
         /\ \A q \in Range(m.queries) : IsQuery(q)
         /\ \/ m.kind = "request" /\ m = Request(m.id, m.queries)
            \/ /\ m.kind = "response" /\ m = Response(m.id, m.queries, m.answers)
               /\ m.answers \in Seq(Range(m.answers))
               /\ \A a \in Range(m.answers) : IsAnswer(a)
  <1>1. \A id, qs : Request(id, qs).kind = "request"
    BY DEF Request
  <1>2. \A id, qs, as : Response(id, qs, as).kind = "response"
    BY DEF Response
  <1>3. QED
    BY <1>1, <1>2, MessagesAssumption

\* A message begins with a number, its id, and the rest are fields, too.
LEMMA ItemsAreFields ==
  ASSUME NEW m \in Messages
  PROVE  /\ AreFields(Items(m))
         /\ Items(m) # <<>> /\ Head(Items(m)).put = "number"
  <1> DEFINE qs == FlattenSeq([i \in DOMAIN m.queries |-> QueryItems(m.queries[i], m.kind)])
             as == FlattenSeq([i \in DOMAIN m.answers |-> AnswerItems(m.answers[i])])
             Begins(s) == AreFields(s) /\ s # <<>> /\ Head(s).put = "number"
             two == Number(m.id) \o FlagItems(m.kind)
             three == two \o Number(Len(m.queries))
  <1>1. m.queries \in Seq(Range(m.queries)) /\ \A q \in Range(m.queries) : IsName(q.name)
    BY MessageParts DEF IsQuery
  <1>2. AreFields(qs)
    <2> DEFINE xs == [i \in DOMAIN m.queries |-> QueryItems(m.queries[i], m.kind)]
    <2>1. DOMAIN m.queries = 1 .. Len(m.queries) /\ Len(m.queries) \in Nat
      BY <1>1, LenProperties
    <2>2. ASSUME NEW i \in 1 .. Len(m.queries)
          PROVE  AreFields(xs[i])
      <3>1. IsName(m.queries[i].name) /\ xs[i] = QueryItems(m.queries[i], m.kind)
        BY <1>1, <2>1 DEF Range
      <3> HIDE DEF xs
      <3>2. QED
        BY <3>1, QueryIsFields
    <2>3. xs = [i \in 1 .. Len(m.queries) |-> xs[i]]
      BY <2>1
    <2> HIDE DEF xs
    <2>4. AreFields(FlattenSeq(xs))
      BY <2>1, <2>2, <2>3, FlatFields
    <2>5. QED
      BY <2>4 DEF xs
  <1>3. ASSUME m.kind # "request"
        PROVE  AreFields(as)
    <2> DEFINE xs == [i \in DOMAIN m.answers |-> AnswerItems(m.answers[i])]
    <2>1. /\ m.answers \in Seq(Range(m.answers))
          /\ \A a \in Range(m.answers) :
               /\ IsName(a.name)
               /\ a.rec.type = "PTR" => IsName(a.rec.name)
               /\ a.rec.type = "SRV" => IsName(a.rec.target)
      BY <1>3, MessageParts DEF IsAnswer, IsRecord
    <2>2. DOMAIN m.answers = 1 .. Len(m.answers) /\ Len(m.answers) \in Nat
      BY <2>1, LenProperties
    <2>3. ASSUME NEW i \in 1 .. Len(m.answers)
          PROVE  AreFields(xs[i])
      <3>1. m.answers[i] \in Range(m.answers) /\ xs[i] = AnswerItems(m.answers[i])
        BY <2>2 DEF Range
      <3> HIDE DEF xs
      <3>2. QED
        BY <2>1, <3>1, AnswerIsFields
    <2>4. xs = [i \in 1 .. Len(m.answers) |-> xs[i]]
      BY <2>2
    <2> HIDE DEF xs
    <2>5. AreFields(FlattenSeq(xs))
      BY <2>2, <2>3, <2>4, FlatFields
    <2>6. QED
      BY <2>5 DEF xs
  <1> HIDE DEF qs, as
  <1>4. \A s, t : Begins(s) /\ AreFields(t) => Begins(s \o t)
    <2> TAKE s, t
    <2> HAVE Begins(s) /\ AreFields(t)
    <2>1. AreFields(s \o t) /\ s \o t # <<>> /\ Head(s \o t) = Head(s)
      BY JoinedFields
    <2>2. QED
      BY <2>1
  <1>5. Begins(Number(m.id)) /\ \A x : AreFields(Number(x)) /\ AreFields(FlagItems(x))
    BY SimpleFields DEF FlagItems
  <1> HIDE DEF Begins
  <1>6. Begins(two)
    BY <1>4, <1>5
  <1> HIDE DEF two
  <1>7. Begins(three)
    BY <1>4, <1>5, <1>6
  <1> HIDE DEF three
  <1>8. CASE m.kind = "request"
    <2>1. Items(m) = (three \o Number(0)) \o qs
      BY <1>8 DEF Items, RequestItems, qs, two, three
    <2>2. Begins(three \o Number(0))
      BY <1>4, <1>5, <1>7
    <2>3. Begins(Items(m))
      BY <1>2, <1>4, <2>1, <2>2
    <2>4. QED
      BY <2>3 DEF Begins
  <1>9. CASE m.kind # "request"
    <2>1. Items(m) = ((three \o Number(Len(m.answers))) \o qs) \o as
      BY <1>9 DEF Items, ResponseItems, qs, as, two, three
    <2>2. Begins(three \o Number(Len(m.answers)))
      BY <1>4, <1>5, <1>7
    <2>3. Begins((three \o Number(Len(m.answers))) \o qs)
      BY <1>2, <1>4, <2>2
    <2>4. Begins(Items(m))
      BY <1>3, <1>4, <1>9, <2>1, <2>3
    <2>5. QED
      BY <2>4 DEF Begins
  <1>10. QED
    BY <1>8, <1>9

-----------------------------------------------------------------------------
(* The serialization of a message                                          *)

\* The place for the length of a record is a place of its own, before which
\* nothing but the header was written: filling it takes no segment away.
Fillable ==
  ~ w.overflow =>
    \/ start < Len(w.cells) /\ w.cells[start + 1].k # "len"
    \/ start = 0 /\ w.cells = <<>> /\ todo # <<>> /\ Head(todo).put = "number"

WireInv ==
  /\ message \in Messages
  /\ todo \in Seq(Range(Items(message)))
  /\ Good(w)
  /\ start \in 0 .. Len(w.cells)
  /\ outcome.kind \in {"pending", "panic", "sent"}
  /\ Fillable

\* An empty buffer has no pointers, and the header comes first.
LEMMA InitWireInv == WireInit => WireInv
  <1> SUFFICES ASSUME WireInit PROVE WireInv
    OBVIOUS
  <1>1. PICK room \in Rooms, lk \in LKs : w = NewWriter(room, lk)
    BY DEF WireInit
  <1>2. room \in Nat /\ room < PtrSpan /\ lk \in Nat
    BY WireAssumption
  <1>3. <<>> \in Seq(Cells) /\ <<>> \in Seq(Entries) /\ Len(<<>>) = 0
    BY EmptySeq
  <1>4. /\ w.cells = <<>> /\ w.lookup = <<>> /\ w.overflow = FALSE
        /\ w.room = room /\ w.lk = lk /\ w \in Writers
    BY <1>1, <1>2, <1>3 DEF NewWriter, Writers
  <1>5. Good(w)
    BY <1>2, <1>3, <1>4
    DEF Good, Sized, TableLeads, PointersLead, ExtendFits
  <1>6. message \in Messages /\ todo = Items(message) /\ start = 0 /\ outcome = Pending
    BY DEF WireInit
  <1>7. /\ todo \in Seq(Range(Items(message)))
        /\ todo # <<>> /\ Head(todo).put = "number"
    BY <1>6, ItemsAreFields DEF AreFields
  <1>8. QED
    BY <1>3, <1>4, <1>5, <1>6, <1>7 DEF WireInv, Fillable, Pending

\* What the next field is like.
LEMMA NextField ==
  ASSUME WireInv, todo # <<>>
  PROVE  /\ FieldOK(Head(todo))
         /\ Head(todo).put = "number" => Num(Head(todo).v) \in Cells
         /\ Tail(todo) \in Seq(Range(Items(message)))
  <1>1. /\ Head(todo) \in Range(Items(message))
        /\ Tail(todo) \in Seq(Range(Items(message)))
    BY HeadTailProperties DEF WireInv
  <1>2. FieldOK(Head(todo))
    BY <1>1, ItemsAreFields DEF WireInv, AreFields
  <1>3. Head(todo).v \in Values
    BY <1>1 DEF WireInv, Values
  <1>4. QED
    BY <1>1, <1>2, <1>3 DEF Cells, Num

\* Whatever is written behind the reserved place.
LEMMA GrowsWithoutHarm ==
  ASSUME WireInv, todo # <<>>, Wrote, UNCHANGED start, Good(w'), Grows(w, w'),
         ~ w'.overflow => start < Len(w.cells)
  PROVE  WireInv'
  <1>1. w.cells \in Seq(Cells) /\ w'.cells \in Seq(Cells)
    BY DEF WireInv, Good, Writers
  <1>2. /\ DOMAIN w.cells = 1 .. Len(w.cells) /\ Len(w.cells) \in Nat
        /\ Len(w'.cells) \in Nat
    BY <1>1, LenProperties
  <1>3. todo' \in Seq(Range(Items(message'))) /\ message' \in Messages
    BY NextField DEF Wrote, WireInv
  <1>4. start' \in 0 .. Len(w'.cells)
    BY <1>2 DEF WireInv, Grows
  <1>5. Fillable'
    <2>1. SUFFICES ASSUME ~ w'.overflow
                   PROVE  start' < Len(w'.cells) /\ w'.cells[start' + 1].k # "len"
      BY DEF Fillable
    <2>2. start < Len(w.cells) /\ ~ w.overflow
      BY <2>1 DEF Grows
    <2>3. start + 1 \in DOMAIN w.cells /\ w.cells # <<>>
      BY <1>1, <1>2, <2>2, EmptySeq DEF WireInv
    <2>4. w.cells[start + 1].k # "len"
      BY <2>2, <2>3 DEF WireInv, Fillable
    <2>5. w'.cells[start + 1] = w.cells[start + 1] /\ start < Len(w'.cells)
      BY <1>2, <2>2, <2>3 DEF Grows, WireInv
    <2>6. QED
      BY <2>4, <2>5
  <1>6. QED
    BY <1>3, <1>4, <1>5 DEF WireInv, Wrote

\* Each field, whether it fits or not, keeps the invariant.
LEMMA NextWireInv == WireInv /\ [WireNext]_wireVars => WireInv'
  <1> SUFFICES ASSUME WireInv, [WireNext]_wireVars PROVE WireInv'
    OBVIOUS
  <1>1. /\ w \in Writers /\ w.cells \in Seq(Cells) /\ w.lookup \in Seq(Entries)
        /\ w.overflow \in BOOLEAN
    BY DEF WireInv, Good, Writers
  <1>2. /\ DOMAIN w.cells = 1 .. Len(w.cells) /\ Len(w.cells) \in Nat
        /\ w.cells # <<>> => Len(w.cells) > 0
    BY <1>1, LenProperties, EmptySeq
  <1>3. ASSUME todo # <<>>, Head(todo).put # "number", ~ w.overflow
        PROVE  start < Len(w.cells) /\ w.cells[start + 1].k # "len"
    BY <1>3 DEF WireInv, Fillable
  <1>4. CASE PutNumber
    <2> DEFINE new == <<Num(Head(todo).v)>>
    <2>1. todo # <<>> /\ Head(todo).put = "number" /\ w' = Write(w, new)
          /\ Wrote /\ UNCHANGED start
      BY <1>4 DEF PutNumber, Turn
    <2>2. /\ new \in Seq(Cells) /\ \A j \in DOMAIN new : new[j].k # "ptr"
          /\ Len(new) = 1 /\ new[1].k # "len"
      BY <2>1, NextField DEF Num
    <2> HIDE DEF new
    <2>3. Good(w') /\ Grows(w, w')
      BY <2>1, <2>2, WriteKeeps DEF WireInv
    <2>4. CASE w'.overflow \/ start < Len(w.cells)
      BY <2>1, <2>3, <2>4, GrowsWithoutHarm
    <2>5. CASE ~ w'.overflow /\ ~ (start < Len(w.cells))
      <3>1. ~ w.overflow /\ start = 0 /\ w.cells = <<>>
        BY <2>3, <2>5 DEF WireInv, Fillable, Grows
      <3>2. Fits(w, new) /\ w'.cells = w.cells \o new
        <4>1. CASE Fits(w, new)
          BY <1>1, <2>1, <3>1, <4>1 DEF Write, Writers
        <4>2. CASE ~ Fits(w, new)
          <5>1. w' = [w EXCEPT !.overflow = TRUE]
            BY <2>1, <3>1, <4>2 DEF Write
          <5>2. w'.overflow
            BY <1>1, <5>1 DEF Writers
          <5>3. QED
            BY <2>5, <5>2
        <4>3. QED
          BY <4>1, <4>2
      <3>3. w'.cells = new
        BY <2>2, <3>1, <3>2, ConcatEmptySeq
      <3>4. Len(w'.cells) = 1 /\ w'.cells[1].k # "len"
        BY <2>2, <3>3
      <3>5. Fillable' /\ start' \in 0 .. Len(w'.cells)
        BY <2>1, <3>1, <3>4 DEF Fillable
      <3>6. QED
        BY <2>1, <2>3, <3>5, NextField DEF WireInv, Wrote
    <2>6. QED
      BY <2>4, <2>5
  <1>5. CASE PutName
    <2>1. todo # <<>> /\ Head(todo).put = "name" /\ Wrote /\ UNCHANGED start
          /\ w' = SerializeLabel(w, Head(todo).parts)
      BY <1>5 DEF PutName, Turn
    <2>2. Head(todo).parts \in Seq(Seq(STRING))
      BY <2>1, NextField DEF FieldOK
    <2>3. Good(w') /\ Grows(w, w')
      BY <2>1, <2>2, SerializeLabelKeeps DEF WireInv
    <2>4. ~ w'.overflow => start < Len(w.cells)
      BY <1>3, <2>1, <2>3 DEF Grows
    <2>5. QED
      BY <2>1, <2>3, <2>4, GrowsWithoutHarm
  <1>6. CASE PutCopy
    <2>1. todo # <<>> /\ Head(todo).put = "copy" /\ Wrote /\ UNCHANGED start
          /\ w' = SerializeRun(w, Head(todo).segs)
      BY <1>6 DEF PutCopy, Turn
    <2>2. Head(todo).segs \in Seq(STRING)
      BY <2>1, NextField DEF FieldOK
    <2>3. Good(w') /\ Grows(w, w')
      BY <2>1, <2>2, SerializeRunKeeps DEF WireInv
    <2>4. ~ w'.overflow => start < Len(w.cells)
      BY <1>3, <2>1, <2>3 DEF Grows
    <2>5. QED
      BY <2>1, <2>3, <2>4, GrowsWithoutHarm
  <1>7. CASE PutReservation
    <2>1. todo # <<>> /\ start' = Len(w.cells) /\ w' = Write(w, <<Hole>>) /\ Wrote
      BY <1>7 DEF PutReservation, Turn, Reserve
    <2>2. /\ <<Hole>> \in Seq(Cells) /\ Len(<<Hole>>) = 1 /\ <<Hole>>[1].k = "hole"
          /\ \A j \in DOMAIN <<Hole>> : <<Hole>>[j].k # "ptr"
      BY DEF Cells, Hole
    <2>3. Good(w') /\ Grows(w, w')
      BY <2>1, <2>2, WriteKeeps DEF WireInv
    <2>4. w'.cells \in Seq(Cells) /\ Len(w'.cells) \in Nat
      BY <2>3, LenProperties DEF Good, Writers
    <2>5. start' \in 0 .. Len(w'.cells)
      BY <1>2, <2>1, <2>3, <2>4 DEF Grows
    <2>6. Fillable'
      <3>1. SUFFICES ASSUME ~ w'.overflow
                     PROVE  start' < Len(w'.cells) /\ w'.cells[start' + 1].k # "len"
        BY DEF Fillable
      <3>2. ~ w.overflow /\ Fits(w, <<Hole>>)
        <4>1. ~ w.overflow
          BY <2>3, <3>1 DEF Grows
        <4>2. ASSUME ~ Fits(w, <<Hole>>)
              PROVE  FALSE
          <5>1. w' = [w EXCEPT !.overflow = TRUE]
            BY <2>1, <4>1, <4>2 DEF Write
          <5>2. w'.overflow
            BY <1>1, <5>1 DEF Writers
          <5>3. QED
            BY <3>1, <5>2
        <4>3. QED
          BY <4>1, <4>2
      <3>3. w' = [w EXCEPT !.cells = w.cells \o <<Hole>>]
        BY <2>1, <3>2 DEF Write
      <3>4. w'.cells = w.cells \o <<Hole>>
        BY <1>1, <3>3 DEF Writers
      <3>5. /\ Len(w'.cells) = Len(w.cells) + 1
            /\ w'.cells[Len(w.cells) + 1] = Hole
        BY <1>1, <1>2, <2>2, <3>4, ConcatProperties
      <3>6. QED
        BY <1>2, <2>1, <3>5 DEF Hole
    <2>7. QED
      BY <2>1, <2>3, <2>5, <2>6, NextField DEF WireInv, Wrote
  <1>8. CASE FillReservation
    <2>1. todo # <<>> /\ Head(todo).put = "fill" /\ Wrote /\ UNCHANGED start
          /\ w' = WriteReservation(w, start, Num("length"))
      BY <1>8 DEF FillReservation, Turn
    <2>2. CASE w.overflow
      <3>1. w' = w
        BY <2>1, <2>2 DEF WriteReservation
      <3>2. Good(w') /\ Grows(w, w')
        BY <1>1, <3>1, GrowsIsReflexive DEF WireInv
      <3>3. QED
        BY <2>1, <2>2, <3>1, <3>2, GrowsWithoutHarm
    <2>3. CASE ~ w.overflow
      <3> DEFINE cells == [w.cells EXCEPT ![start + 1] = Num("length")]
      <3>1. start < Len(w.cells) /\ w.cells[start + 1].k # "len"
        BY <1>3, <2>1, <2>3
      <3>2. w' = [w EXCEPT !.cells = cells]
        BY <2>1, <2>3 DEF WriteReservation
      <3>3. Num("length") \in Cells /\ Num("length").k = "num"
        BY DEF Cells, Num, Values
      <3>4. start + 1 \in DOMAIN w.cells /\ start \in Nat
        BY <1>2, <3>1 DEF WireInv
      <3>5. /\ cells \in Seq(Cells) /\ Len(cells) = Len(w.cells)
            /\ DOMAIN cells = DOMAIN w.cells
            /\ cells[start + 1] = Num("length")
            /\ \A i \in DOMAIN w.cells : i # start + 1 => cells[i] = w.cells[i]
        BY <1>1, <1>2, <3>3, <3>4, ExceptSeq
      <3> HIDE DEF cells
      <3>6. /\ w' \in Writers /\ w'.overflow = FALSE /\ w'.cells = cells
            /\ w'.lookup = w.lookup /\ w'.room = w.room /\ w'.lk = w.lk
        BY <1>1, <2>3, <3>2, <3>5 DEF Writers
      <3>7. ASSUME NEW p, IsLen(w, p)
            PROVE  IsLen(w', p)
        BY <3>1, <3>5, <3>6, <3>7 DEF IsLen
      <3>8. Sized(w')
        BY <3>5, <3>6 DEF WireInv, Good, Sized
      <3>9. TableLeads(w')
        <4>1. \A i \in DOMAIN w.lookup : IsLen(w, w.lookup[i].at)
          BY <2>3 DEF WireInv, Good, TableLeads
        <4>2. QED
          BY <3>6, <3>7, <4>1 DEF TableLeads
      <3>10. PointersLead(w')
        <4>1. ASSUME NEW i \in DOMAIN w'.cells, w'.cells[i].k = "ptr"
              PROVE  w'.cells[i].v \in 1 .. i - 1 /\ IsLen(w', w'.cells[i].v)
          <5>1. i # start + 1
            BY <3>3, <3>5, <3>6, <4>1
          <5>2. i \in DOMAIN w.cells /\ w'.cells[i] = w.cells[i]
            BY <3>5, <3>6, <4>1, <5>1
          <5>3. w.cells[i].v \in 1 .. i - 1 /\ IsLen(w, w.cells[i].v)
            BY <4>1, <5>2 DEF WireInv, Good, PointersLead
          <5>4. QED
            BY <3>7, <5>2, <5>3
        <4>2. QED
          BY <4>1 DEF PointersLead
      <3>11. Good(w')
        BY <3>6, <3>8, <3>9, <3>10 DEF Good
      <3>12. Fillable' /\ start' \in 0 .. Len(w'.cells)
        BY <2>1, <3>1, <3>3, <3>5, <3>6 DEF Fillable, WireInv
      <3>13. QED
        BY <2>1, <3>11, <3>12, NextField DEF WireInv, Wrote
    <2>4. QED
      BY <2>2, <2>3
  <1>9. CASE UnderflowPanics \/ Send
    <2>1. UNCHANGED << message, todo, w, start >> /\ outcome'.kind \in {"panic", "sent"}
      BY <1>9 DEF UnderflowPanics, Send, Panicked, Sent
    <2>2. QED
      BY <2>1 DEF WireInv, Fillable
  <1>10. CASE UNCHANGED wireVars
    BY <1>10 DEF wireVars, WireInv, Fillable
  <1>11. QED
    BY <1>4, <1>5, <1>6, <1>7, <1>8, <1>9, <1>10 DEF WireNext

\* The invariant of every serialization.
THEOREM WireInvariance == WireSpec => []WireInv
  <1>1. QED
    BY InitWireInv, NextWireInv, PTL DEF WireSpec

\* Nothing is written behind the end of the buffer or recorded beyond the
\* size of the table, and a length goes to a place within what was written.
THEOREM WireTypes == WireSpec => []WireTypeOK
  <1>1. WireInv => WireTypeOK
    <2> SUFFICES ASSUME WireInv PROVE WireTypeOK
      OBVIOUS
    <2>1. start <= Len(w.cells)
      BY DEF WireInv
    <2>2. QED
      BY <2>1 DEF WireInv, Good, Sized, WireTypeOK
  <1>2. QED
    BY WireInvariance, <1>1, PTL

\* A pointer leads back to where a segment begins, whatever names share and
\* wherever the buffer ends: no chain of pointers is endless.
THEOREM PointersEnd == WireSpec => []PointersLeadBack
  <1>1. WireInv => PointersLeadBack
    <2> SUFFICES ASSUME WireInv, NEW i \in DOMAIN w.cells, w.cells[i].k = "ptr"
                 PROVE  w.cells[i].v \in 1 .. i - 1 /\ w.cells[w.cells[i].v].k = "len"
      BY DEF PointersLeadBack
    <2>1. QED
      BY DEF WireInv, Good, PointersLead, IsLen
  <1>2. QED
    BY WireInvariance, <1>1, PTL
=============================================================================
