--------------------------- MODULE RoundTripProofs ---------------------------
(***************************************************************************)
(* A peer reads what was meant: what the Parser makes of the cells that    *)
(* the Writer leaves behind, for every message whose names are apart from  *)
(* the instance names, every length of the buffer and every size of the    *)
(* table of labels.                                                        *)
(***************************************************************************)
EXTENDS WireProofs

-----------------------------------------------------------------------------
(* How a name stands in the cells                                          *)

\* The first n segments of a name stand from p on.
IsRun(c, name, p, n) ==
  \A i \in 1 .. n : c[p + 2 * i - 2] = LenByte /\ c[p + 2 * i - 1] = Text(name[i])

\* From p up to q, which is left out: n segments of the name, and either the
\* end or a pointer to where an entry of the table spells what is left of it.
Spelled(c, tab, name, p, q, n) ==
  /\ p \in Nat /\ p > 0 /\ n \in 0 .. Len(name)
  /\ q = p + 2 * n + 1 /\ q <= Len(c) + 1
  /\ IsRun(c, name, p, n)
  /\ n = Len(name) => c[q - 1] = End
  /\ n # Len(name) => \E e \in tab : e.name = Rest(name, n + 1) /\ c[q - 1] = Ptr(e.at)

\* Every entry leads to a segment from which its name is spelled.
Faithful(c, tab) ==
  \A e \in tab :
    /\ IsName(e.name)
    /\ \E q, n \in Nat : n > 0 /\ Spelled(c, tab, e.name, e.at, q, n)

\* What is read of a run is what was written of it.
LEMMA RunIsRead ==
  ASSUME NEW c, Len(c) \in Nat, NEW tab, NEW name \in Seq(STRING), NEW p, NEW q, NEW n,
         Spelled(c, tab, name, p, q, n)
  PROVE  /\ Stops(c, p) # {} /\ Min(Stops(c, p)) = q - 1
         /\ AreSegments(c, p, q - 1)
         /\ Segments(c, p, q - 1) = SubSeq(name, 1, n)
         /\ p \in 1 .. Len(c) + 1 /\ q - 1 \in 1 .. Len(c)
  <1>1. /\ Len(name) \in Nat /\ p \in Nat /\ p > 0 /\ n \in Nat /\ n <= Len(name)
        /\ q = p + 2 * n + 1 /\ q <= Len(c) + 1 /\ IsRun(c, name, p, n)
    BY LenProperties DEF Spelled
  <1>2. q - 1 \in p .. Len(c) /\ q - 1 - p = 2 * n
    BY <1>1
  <1>3. c[q - 1].k \in {"end", "ptr"}
    <2>1. End.k = "end" /\ \A at : Ptr(at).k = "ptr"
      BY DEF End, Ptr
    <2>2. c[q - 1] = End \/ \E at : c[q - 1] = Ptr(at)
      BY DEF Spelled
    <2>3. QED
      BY <2>1, <2>2
  <1>4. ASSUME NEW j \in p .. q - 2
        PROVE  c[j].k = (IF (j - p) % 2 = 0 THEN "len" ELSE "text")
    <2>1. j - p \in Nat /\ j - p < 2 * n
      BY <1>1
    <2>2. PICK h \in Nat : (j - p = 2 * h /\ (j - p) % 2 = 0)
                             \/ (j - p = 2 * h + 1 /\ (j - p) % 2 # 0)
      <3>1. \A d \in Nat : \E h \in Nat : (d = 2 * h /\ d % 2 = 0) \/ (d = 2 * h + 1 /\ d % 2 # 0)
        <4> TAKE d \in Nat
        <4>1. d = 2 * (d \div 2) + (d % 2) /\ d \div 2 \in Nat /\ d % 2 \in 0 .. 1
          OBVIOUS
        <4>2. WITNESS d \div 2 \in Nat
        <4>3. QED
          BY <4>1
      <3>2. QED
        BY <2>1, <3>1
    <2>3. /\ h + 1 \in 1 .. n /\ p + 2 * (h + 1) - 2 = p + 2 * h
          /\ p + 2 * (h + 1) - 1 = p + 2 * h + 1
      BY <1>1, <2>1, <2>2
    <2>4. c[p + 2 * h] = LenByte /\ c[p + 2 * h + 1] = Text(name[h + 1])
      BY <1>1, <2>3 DEF IsRun
    <2>5. LenByte.k = "len" /\ Text(name[h + 1]).k = "text"
      BY DEF LenByte, Text
    <2>6. CASE j - p = 2 * h /\ (j - p) % 2 = 0
      <3>1. j = p + 2 * h
        BY <1>1, <2>6
      <3>2. QED
        BY <2>4, <2>5, <2>6, <3>1
    <2>7. CASE j - p = 2 * h + 1 /\ (j - p) % 2 # 0
      <3>1. j = p + 2 * h + 1
        BY <1>1, <2>7
      <3>2. QED
        BY <2>4, <2>5, <2>7, <3>1
    <2>8. QED
      BY <2>2, <2>6, <2>7
  <1>5. AreSegments(c, p, q - 1)
    BY <1>1, <1>4 DEF AreSegments
  <1>6. q - 1 \in Stops(c, p) /\ Stops(c, p) \subseteq Nat
    BY <1>1, <1>2, <1>3 DEF Stops
  <1>7. Min(Stops(c, p)) = q - 1
    <2>1. Min(Stops(c, p)) \in Stops(c, p) /\ Min(Stops(c, p)) <= q - 1
      BY <1>6, MinOfNats
    <2>2. ASSUME NEW m \in p .. q - 2
          PROVE  m \notin Stops(c, p)
      BY <1>4 DEF Stops
    <2>3. Min(Stops(c, p)) \in p .. Len(c)
      BY <2>1 DEF Stops
    <2>4. QED
      BY <1>1, <2>1, <2>2, <2>3
  <1>8. Segments(c, p, q - 1) = SubSeq(name, 1, n)
    <2>1. (q - 1 - p) \div 2 = n
      BY <1>1, <1>2
    <2>2. ASSUME NEW i \in 1 .. n
          PROVE  c[p + 2 * i - 1].v = name[i]
      <3>1. c[p + 2 * i - 1] = Text(name[i])
        BY <1>1 DEF IsRun
      <3>2. QED
        BY <3>1 DEF Text
    <2>3. SubSeq(name, 1, n) = [i \in 1 .. n |-> name[i]]
      <3>1. /\ SubSeq(name, 1, n) \in Seq(STRING) /\ Len(SubSeq(name, 1, n)) = n
            /\ \A i \in 1 .. n : SubSeq(name, 1, n)[i] = name[i]
        <4>1. \A i \in 1 .. n : name[i] \in STRING
          BY <1>1, ElementOfSeq
        <4>2. /\ SubSeq(name, 1, n) \in Seq(STRING)
              /\ Len(SubSeq(name, 1, n)) = IF 1 <= n THEN n - 1 + 1 ELSE 0
              /\ \A i \in 1 .. n - 1 + 1 : SubSeq(name, 1, n)[i] = name[1 + i - 1]
          BY <1>1, <4>1, SubSeqProperties
        <4>3. n - 1 + 1 = n /\ \A i \in 1 .. n : 1 + i - 1 = i
          BY <1>1
        <4>4. QED
          BY <1>1, <4>2, <4>3
      <3>2. SubSeq(name, 1, n) = [i \in 1 .. n |-> SubSeq(name, 1, n)[i]]
        BY <3>1, LenProperties
      <3>3. QED
        BY <3>1, <3>2
    <2>4. QED
      BY <2>1, <2>2, <2>3 DEF Segments
  <1>9. QED
    BY <1>1, <1>2, <1>5, <1>6, <1>7, <1>8

\* What do_parse reads at each limit is made of what it reads one level deeper.
IsReading(c, r) ==
  \A limit \in 0 .. 4, p \in 1 .. Len(c) + 1 : r[limit][p] = RunFrom(c, p, limit, r[limit - 1])

\* The recursion of do_parse is five levels deep.
LEMMA ReadLevels ==
  ASSUME NEW c
  PROVE  \E r : IsReading(c, r) /\ \A p : DoParse(c, p) = r[4][p]
  <1> DEFINE P == 1 .. Len(c) + 1
             Level(limit, deeper) == [p \in P |-> RunFrom(c, p, limit, deeper)]
             l0 == Level(0, <<>>)
             l1 == Level(1, l0)
             l2 == Level(2, l1)
             l3 == Level(3, l2)
             l4 == Level(4, l3)
             f == [limit \in 0 .. 4 |->
                     CASE limit = 0 -> l0 [] limit = 1 -> l1 [] limit = 2 -> l2
                       [] limit = 3 -> l3 [] OTHER -> l4]
             all(g) == [limit \in 0 .. RecurseLimit |->
                          [p \in P |-> RunFrom(c, p, limit, g[limit - 1])]]
             r == CHOOSE g : g = all(g)
  <1>1. RecurseLimit = 4
    BY DEF RecurseLimit
  <1>2. \A d : Level(0, d) = l0
    <2>1. \A p, d, x : RunFrom(c, p, 0, d) = RunFrom(c, p, 0, x)
      BY DEF RunFrom, Follows
    <2>2. QED
      BY <2>1
  <1> HIDE DEF l0
  <1>3. /\ l1 = Level(1, l0) /\ l2 = Level(2, l1)
        /\ l3 = Level(3, l2) /\ l4 = Level(4, l3)
    OBVIOUS
  <1> HIDE DEF l1, l2, l3, l4, Level
  <1>4. f[0] = l0 /\ f[1] = l1 /\ f[2] = l2 /\ f[3] = l3 /\ f[4] = l4
    OBVIOUS
  <1>5. ASSUME NEW limit \in 0 .. 4
        PROVE  f[limit] = Level(limit, f[limit - 1])
    <2>1. limit \in {0, 1, 2, 3, 4}
      OBVIOUS
    <2>2. 1 - 1 = 0 /\ 2 - 1 = 1 /\ 3 - 1 = 2 /\ 4 - 1 = 3
      OBVIOUS
    <2> HIDE DEF f
    <2>3. QED
      BY <1>2, <1>3, <1>4, <2>1, <2>2
  <1>6. f = all(f)
    <2>1. f = [limit \in 0 .. 4 |-> f[limit]]
      OBVIOUS
    <2> HIDE DEF f
    <2>2. QED
      BY <1>1, <1>5, <2>1 DEF Level
  <1>7. r = all(r)
    <2> HIDE DEF all, f
    <2>1. QED
      BY <1>6
  <1>8. \A p : DoParse(c, p) = r[4][p]
    BY <1>1 DEF DoParse
  <1> HIDE DEF r
  <1>9. ASSUME NEW limit \in 0 .. 4, NEW p \in P
        PROVE  r[limit][p] = RunFrom(c, p, limit, r[limit - 1])
    <2>1. r[limit] = [x \in P |-> RunFrom(c, x, limit, r[limit - 1])]
      BY <1>1, <1>7
    <2> HIDE DEF P
    <2>2. QED
      BY <2>1
  <1>10. QED
    BY <1>8, <1>9 DEF IsReading

\* Whatever is read of a name is the name, up to its end.
AsMeant(x, name, q) ==
  x.ok => x.next = q /\ x.runs \in Seq(Seq(STRING)) /\ FlattenSeq(x.runs) = name

\* It is read, in at most k runs.
Surely(x, k) == x.ok /\ Len(x.runs) <= k

\* One turn of do_parse: to the end of the name or to a pointer, which is
\* followed unless it is one too many.
Turned(tab, name, q, n, limit, deeper, x) ==
  \/ n = Len(name) /\ x = Ended(name, q - 1)
  \/ n # Len(name) /\ limit = 0 /\ x = Refused
  \/ /\ n # Len(name) /\ limit > 0
     /\ \E e \in tab : /\ e.name = Rest(name, n + 1)
                       /\ x = Joined(SubSeq(name, 1, n), q - 1, deeper[e.at])

\* Nothing else can become of a name that stands there.
LEMMA OneTurn ==
  ASSUME NEW c, Len(c) \in Nat, NEW tab, Faithful(c, tab),
         NEW name \in Seq(STRING), name # <<>>, NEW p, NEW q, NEW n,
         Spelled(c, tab, name, p, q, n), NEW limit \in 0 .. 4, NEW deeper,
         NEW x, x = RunFrom(c, p, limit, deeper)
  PROVE  Turned(tab, name, q, n, limit, deeper, x)
  <1> DEFINE run == SubSeq(name, 1, n)
  <1>1. /\ Stops(c, p) # {} /\ Min(Stops(c, p)) = q - 1
        /\ AreSegments(c, p, q - 1) /\ Segments(c, p, q - 1) = run
        /\ q - 1 \in 1 .. Len(c)
    <2>1. Stops(c, p) # {} /\ Min(Stops(c, p)) = q - 1
      BY RunIsRead
    <2>2. AreSegments(c, p, q - 1)
      BY RunIsRead
    <2>3. Segments(c, p, q - 1) = run
      BY RunIsRead
    <2>4. q - 1 \in 1 .. Len(c)
      BY RunIsRead
    <2>5. QED
      BY <2>1, <2>2, <2>3, <2>4
  <1> HIDE DEF run
  <1>2. x = IF c[q - 1].k = "end" THEN Ended(run, q - 1)
            ELSE IF ~ Follows(c, q - 1, limit) THEN Refused
            ELSE Joined(run, q - 1, deeper[c[q - 1].v])
    BY <1>1 DEF RunFrom
  <1>3. End.k = "end" /\ \A at : Ptr(at).k = "ptr" /\ Ptr(at).v = at
    BY DEF End, Ptr
  <1>4. CASE n = Len(name)
    <2>1. c[q - 1] = End
      BY <1>4 DEF Spelled
    <2>2. run = name
      BY <1>4, SubSeqFull DEF run
    <2>3. QED
      BY <1>2, <1>3, <1>4, <2>1, <2>2 DEF Turned
  <1>5. CASE n # Len(name)
    <2>1. PICK e \in tab : e.name = Rest(name, n + 1) /\ c[q - 1] = Ptr(e.at)
      BY <1>5 DEF Spelled
    <2>2. x = IF ~ Follows(c, q - 1, limit) THEN Refused
              ELSE Joined(run, q - 1, deeper[e.at])
      BY <1>2, <1>3, <2>1
    <2>3. CASE limit = 0
      BY <1>5, <2>2, <2>3 DEF Follows, Turned
    <2>4. CASE limit > 0
      <3>1. PICK q2 \in Nat, m \in Nat : m > 0 /\ Spelled(c, tab, e.name, e.at, q2, m)
        BY DEF Faithful
      <3>2. /\ e.at \in Nat /\ e.at > 0 /\ q2 = e.at + 2 * m + 1 /\ q2 <= Len(c) + 1
            /\ IsRun(c, e.name, e.at, m)
        BY <3>1 DEF Spelled
      <3>3. e.at \in 1 .. Len(c) - 1
        BY <3>1, <3>2
      <3>4. c[e.at] = LenByte
        <4>1. 1 \in 1 .. m /\ e.at + 2 * 1 - 2 = e.at
          BY <3>1, <3>2
        <4>2. c[e.at + 2 * 1 - 2] = LenByte
          BY <3>2, <4>1 DEF IsRun
        <4>3. QED
          BY <4>1, <4>2
      <3>5. LenByte # Ptr(e.at)
        BY DEF LenByte, Ptr
      <3>6. Follows(c, q - 1, limit)
        BY <1>3, <2>1, <2>4, <3>3, <3>4, <3>5 DEF Follows
      <3>7. x = Joined(run, q - 1, deeper[e.at])
        BY <2>2, <3>6
      <3>8. QED
        BY <1>5, <2>1, <2>4, <3>7 DEF run, Turned
    <2>5. QED
      BY <2>3, <2>4
  <1>6. QED
    BY <1>4, <1>5

\* A run joined to what is left of the name is the name.
LEMMA JoinedIsMeant ==
  ASSUME NEW name \in Seq(STRING), NEW n \in 0 .. Len(name), NEW q \in Nat, NEW y, NEW y2,
         AsMeant(y, Rest(name, n + 1), y2),
         NEW x, x = Joined(SubSeq(name, 1, n), q - 1, y)
  PROVE  /\ AsMeant(x, name, q)
         /\ Surely(y, Len(name) - n) => Surely(x, Len(name))
  <1> DEFINE run  == SubSeq(name, 1, n)
             tail == Rest(name, n + 1)
  <1>1. /\ Len(name) \in Nat /\ n \in Nat /\ n + 1 \in 1 .. Len(name) + 1
        /\ (n + 1) - 1 = n /\ q - 1 + 1 = q
    BY LenProperties
  <1>2. run \in Seq(STRING) /\ run \o tail = name
    BY <1>1, SuffixOf DEF Rest
  <1>3. n = 0 => run = <<>>
    BY SubSeqEmpty
  <1>4. n > 0 => run # <<>>
    BY <1>1, SubSeqProperties, ElementOfSeq, EmptySeq
  <1> HIDE DEF run, tail
  <1>5. x = Joined(run, q - 1, y)
    BY DEF run
  <1>6. CASE ~ y.ok
    <2>1. ~ x.ok
      BY <1>5, <1>6 DEF Joined, Refused
    <2>2. QED
      BY <1>6, <2>1 DEF AsMeant, Surely
  <1>7. CASE y.ok
    <2>1. y.runs \in Seq(Seq(STRING)) /\ FlattenSeq(y.runs) = tail
      BY <1>7 DEF AsMeant, tail
    <2> DEFINE runs == IF run = <<>> THEN y.runs ELSE <<run>> \o y.runs
    <2>2. x.ok /\ x.next = q /\ x.runs = runs
      <3>1. x = [ok |-> TRUE, runs |-> runs, next |-> q - 1 + 1]
        BY Zenon, <1>5, <1>7 DEF Joined
      <3> HIDE DEF runs
      <3>2. QED
        BY <1>1, <3>1
    <2>3. CASE n = 0
      <3>1. x.runs = y.runs /\ tail \in Seq(STRING)
        BY <1>3, <2>2, <2>3, <1>1, SuffixOf DEF tail, Rest
      <3>2. tail = name
        BY <1>2, <1>3, <2>3, <3>1, ConcatEmptySeq
      <3>3. QED
        BY <1>1, <2>1, <2>2, <2>3, <3>1, <3>2 DEF AsMeant, Surely
    <2>4. CASE n > 0
      <3>1. x.runs = <<run>> \o y.runs
        BY Zenon, <1>4, <2>2, <2>4
      <3>2. PICK rs \in Seq(Seq(STRING)) : rs = y.runs
        BY <2>1
      <3>3. FlattenSeq(<<run>> \o rs) = run \o FlattenSeq(rs)
        BY <1>2, FlattenCons
      <3>4. <<run>> \o rs \in Seq(Seq(STRING)) /\ Len(<<run>> \o rs) = 1 + Len(rs)
        BY <1>2, ConcatProperties
      <3>5. FlattenSeq(x.runs) = name
        BY Zenon, <1>2, <2>1, <3>1, <3>2, <3>3
      <3>6. x.runs \in Seq(Seq(STRING)) /\ Len(x.runs) = 1 + Len(y.runs)
        BY Zenon, <3>1, <3>2, <3>4
      <3>7. Len(y.runs) \in Nat
        BY <2>1, LenProperties
      <3>8. AsMeant(x, name, q)
        BY <2>2, <3>5, <3>6 DEF AsMeant
      <3>9. Surely(y, Len(name) - n) => Surely(x, Len(name))
        <4> DEFINE l == Len(name)
        <4>1. l \in Nat /\ n \in Nat
          BY <1>1
        <4> HIDE DEF l
        <4>2. Surely(y, l - n) => Surely(x, l)
          BY <2>2, <2>4, <3>6, <3>7, <4>1 DEF Surely
        <4>3. QED
          BY <4>2 DEF l
      <3>10. QED
        BY <3>8, <3>9
    <2>5. QED
      BY <1>1, <2>3, <2>4
  <1>8. QED
    BY <1>6, <1>7

\* A name that stands in the cells from a segment on is read in full, or the
\* limit of the recursion is too low for it.
LEMMA SegmentsAreRead ==
  ASSUME NEW c, Len(c) \in Nat, NEW tab, Faithful(c, tab), NEW r, IsReading(c, r),
         NEW name \in Seq(STRING), NEW p, NEW q, NEW n \in Nat, n > 0,
         Spelled(c, tab, name, p, q, n), NEW limit \in 0 .. 4
  PROVE  /\ AsMeant(r[limit][p], name, q)
         /\ Len(name) <= limit + 1 => Surely(r[limit][p], Len(name))
  <1> DEFINE Read1(s, a, b, m, l) ==
               /\ AsMeant(r[l][a], s, b)
               /\ Len(s) <= l + 1 => Surely(r[l][a], Len(s))
             S == {k \in Nat : \A s \in Seq(STRING), a, b, m \in Nat, l \in 0 .. 4 :
                     Len(s) = k /\ m > 0 /\ Spelled(c, tab, s, a, b, m) => Read1(s, a, b, m, l)}
  <1>1. ASSUME NEW k \in 0 .. Len(name), \A j \in Nat : j < k => j \in S
        PROVE  k \in S
    <2>1. SUFFICES ASSUME NEW s \in Seq(STRING), NEW a \in Nat, NEW b \in Nat, NEW m \in Nat,
                          NEW l \in 0 .. 4, Len(s) = k, m > 0, Spelled(c, tab, s, a, b, m)
                   PROVE  Read1(s, a, b, m, l)
      <3>1. k \in Nat
        BY LenProperties
      <3> HIDE DEF Read1
      <3>2. QED
        BY <2>1, <3>1
    <2> DEFINE x == r[l][a]
    <2>2. /\ Len(s) \in Nat /\ m <= Len(s) /\ b = a + 2 * m + 1 /\ b <= Len(c) + 1
          /\ a > 0 /\ s # <<>> /\ m \in 0 .. Len(s)
      BY <2>1, LenProperties, EmptySeq DEF Spelled
    <2>3. x = RunFrom(c, a, l, r[l - 1])
      <3>1. a \in 1 .. Len(c) + 1
        BY <2>2
      <3>2. QED
        BY <3>1 DEF IsReading
    <2> HIDE DEF x, S
    <2>4. Turned(tab, s, b, m, l, r[l - 1], x)
      BY <2>1, <2>2, <2>3, OneTurn
    <2>5. CASE m = Len(s) /\ x = Ended(s, b - 1)
      <3>1. x.ok /\ x.runs = <<s>> /\ x.next = b
        <4>1. b - 1 + 1 = b
          BY <2>1
        <4>2. x = [ok |-> TRUE, runs |-> <<s>>, next |-> b - 1 + 1]
          BY <2>5 DEF Ended
        <4>3. QED
          BY <4>1, <4>2
      <3>2. <<s>> \in Seq(Seq(STRING)) /\ Len(<<s>>) = 1 /\ FlattenSeq(<<s>>) = s
        <4>1. <<s>> \in Seq(Seq(STRING)) /\ Len(<<s>>) = 1
          OBVIOUS
        <4>2. QED
          BY <4>1, FlattenOne
      <3>3. AsMeant(x, s, b)
        BY Zenon, <3>1, <3>2 DEF AsMeant
      <3>4. Surely(x, Len(s))
        BY <2>2, <2>1, <3>1, <3>2 DEF Surely
      <3>5. QED
        BY <3>3, <3>4 DEF x
    <2>6. CASE m # Len(s) /\ l = 0 /\ x = Refused
      <3>1. ~ x.ok
        BY <2>6 DEF Refused
      <3>2. Len(s) > 1
        BY <2>1, <2>2, <2>6
      <3>3. QED
        BY <2>2, <2>6, <3>1, <3>2 DEF AsMeant, x
    <2>7. CASE /\ m # Len(s) /\ l > 0
               /\ \E e \in tab : /\ e.name = Rest(s, m + 1)
                                 /\ x = Joined(SubSeq(s, 1, m), b - 1, r[l - 1][e.at])
      <3>1. PICK e \in tab : /\ e.name = Rest(s, m + 1)
                             /\ x = Joined(SubSeq(s, 1, m), b - 1, r[l - 1][e.at])
        BY <2>7
      <3> DEFINE y == r[l - 1][e.at]
      <3>2. PICK b2 \in Nat, m2 \in Nat : m2 > 0 /\ Spelled(c, tab, e.name, e.at, b2, m2)
        BY DEF Faithful
      <3>3. e.at \in Nat /\ e.name \in Seq(STRING)
        BY <3>2 DEF Spelled, Faithful, IsName
      <3>4. Len(e.name) = Len(s) - m /\ Len(s) - m \in Nat /\ Len(s) - m < k
        <4>1. m + 1 \in 1 .. Len(s) + 1
          BY <2>2
        <4>2. Len(e.name) = Len(s) + 1 - (m + 1)
          BY <3>1, <4>1, SuffixOf DEF Rest
        <4>3. QED
          BY <2>1, <2>2, <4>2
      <3>5. l - 1 \in 0 .. 4
        BY <2>7
      <3>6. Len(s) - m \in S
        BY <1>1, <3>4
      <3>7. Read1(e.name, e.at, b2, m2, l - 1)
        <4> HIDE DEF Read1
        <4>1. QED
          BY <3>2, <3>3, <3>4, <3>5, <3>6 DEF S
      <3> HIDE DEF y
      <3>8. AsMeant(y, Rest(s, m + 1), b2) /\ x = Joined(SubSeq(s, 1, m), b - 1, y)
        BY <3>1, <3>7 DEF y
      <3>9. AsMeant(x, s, b) /\ (Surely(y, Len(s) - m) => Surely(x, Len(s)))
        BY <2>2, <3>8, JoinedIsMeant
      <3>10. Len(s) <= l + 1 => Surely(y, Len(s) - m)
        <4>1. Len(e.name) <= (l - 1) + 1 => Surely(y, Len(e.name))
          BY <3>7 DEF y
        <4>2. Len(s) <= l + 1 => Len(e.name) <= (l - 1) + 1
          BY <2>1, <2>2, <3>4, <3>5
        <4>3. QED
          BY <3>4, <4>1, <4>2
      <3>11. QED
        BY <3>9, <3>10 DEF x
    <2>8. QED
      BY <2>4, <2>5, <2>6, <2>7 DEF Turned
  <1> HIDE DEF S
  <1>2. Len(name) \in Nat /\ p \in Nat /\ q \in Nat
    BY LenProperties DEF Spelled
  <1>3. \A k \in 0 .. Len(name) : k \in S
    BY <1>1, <1>2, CountUpOnAll
  <1>4. Len(name) \in S
    BY <1>2, <1>3
  <1>5. QED
    BY <1>2, <1>4 DEF S

\* Five levels read what is left of a name of five segments, and a name of
\* four segments however it is spelled.
LEMMA NameIsRead ==
  ASSUME NEW c, Len(c) \in Nat, NEW tab, Faithful(c, tab),
         NEW name, IsName(name), NEW p, NEW q, NEW n \in Nat,
         Spelled(c, tab, name, p, q, n)
  PROVE  /\ AsMeant(DoParse(c, p), name, q)
         /\ Len(name) <= (IF n > 0 THEN 5 ELSE 4) => Surely(DoParse(c, p), Len(name))
  <1>1. PICK r : IsReading(c, r) /\ \A x : DoParse(c, x) = r[4][x]
    BY ReadLevels
  <1> DEFINE x == r[4][p]
  <1>2. name \in Seq(STRING) /\ name # <<>> /\ DoParse(c, p) = x
    BY <1>1 DEF IsName
  <1>3. CASE n > 0
    BY <1>1, <1>2, <1>3, SegmentsAreRead
  <1>4. CASE n = 0
    <2>1. /\ Len(name) \in Nat /\ Len(name) > 0 /\ n \in 0 .. Len(name) /\ q \in Nat
          /\ p \in 1 .. Len(c) + 1 /\ n # Len(name)
      BY <1>2, <1>4, LenProperties, EmptySeq DEF Spelled
    <2>2. x = RunFrom(c, p, 4, r[4 - 1])
      BY <1>1, <2>1 DEF IsReading
    <2> HIDE DEF x
    <2>3. PICK e \in tab : /\ e.name = Rest(name, n + 1)
                           /\ x = Joined(SubSeq(name, 1, n), q - 1, r[4 - 1][e.at])
      <3>1. Turned(tab, name, q, n, 4, r[4 - 1], x)
        <4>1. 4 \in 0 .. 4
          OBVIOUS
        <4>2. QED
          BY <1>2, <2>2, <4>1, OneTurn
      <3>2. QED
        BY <2>1, <3>1 DEF Turned
    <2> DEFINE y == r[3][e.at]
    <2>4. PICK q2 \in Nat, m \in Nat : m > 0 /\ Spelled(c, tab, e.name, e.at, q2, m)
      BY DEF Faithful
    <2>5. e.name \in Seq(STRING) /\ Len(e.name) = Len(name)
      <3>1. n + 1 \in 1 .. Len(name) + 1
        BY <2>1
      <3>2. e.name \in Seq(STRING) /\ Len(e.name) = Len(name) + 1 - (n + 1)
        BY <1>2, <2>3, <3>1, SuffixOf DEF Rest
      <3>3. QED
        BY <1>4, <2>1, <3>2
    <2>6. AsMeant(y, e.name, q2) /\ (Len(name) <= 4 => Surely(y, Len(name)))
      <3>1. 3 \in 0 .. 4 /\ 3 + 1 = 4
        OBVIOUS
      <3>2. AsMeant(y, e.name, q2) /\ (Len(e.name) <= 3 + 1 => Surely(y, Len(e.name)))
        BY <1>1, <2>4, <2>5, <3>1, SegmentsAreRead
      <3>3. QED
        BY <2>5, <3>1, <3>2
    <2> HIDE DEF y
    <2>7. x = Joined(SubSeq(name, 1, n), q - 1, y)
      BY <2>3 DEF y
    <2>8. AsMeant(x, name, q) /\ (Surely(y, Len(name) - n) => Surely(x, Len(name)))
      BY <1>2, <2>1, <2>3, <2>6, <2>7, JoinedIsMeant
    <2>9. QED
      BY <1>2, <1>4, <2>1, <2>6, <2>8
  <1>5. QED
    BY <1>3, <1>4

\* Depth is within what do_parse follows and what a label holds.
LEMMA DepthIsBounded == Depth <= 4 /\ (Alloc \/ (Depth <= LLEN /\ LLEN \in Nat)) /\ Depth \in Nat
  <1>1. CASE Alloc
    BY <1>1 DEF Depth
  <1>2. CASE ~ Alloc
    <2>1. LLEN \in Nat /\ {4, LLEN} \subseteq Nat /\ {4, LLEN} # {}
      BY <1>2, WireAssumption
    <2>2. Min({4, LLEN}) \in {4, LLEN} /\ Min({4, LLEN}) <= 4 /\ Min({4, LLEN}) <= LLEN
      BY <2>1, MinOfNats
    <2>3. QED
      BY <1>2, <2>1, <2>2 DEF Depth
  <1>3. QED
    BY <1>1, <1>2

\* A label that stands in the cells is parsed to its name, if at all, and is
\* parsed if it has at most Depth segments.
LEMMA LabelIsRead ==
  ASSUME NEW c, Len(c) \in Nat, NEW tab, Faithful(c, tab),
         NEW name, IsName(name), NEW p, NEW q, NEW n \in Nat,
         Spelled(c, tab, name, p, q, n), NEW x, x = ParseLabel(c, p)
  PROVE  /\ x.ok => x.v = name /\ x.next = q
         /\ Len(name) <= Depth => x.ok
  <1> DEFINE y == DoParse(c, p)
  <1>1. Len(name) \in Nat
    BY LenProperties DEF IsName
  <1>2. AsMeant(y, name, q) /\ (Len(name) <= 4 => Surely(y, Len(name)))
    BY <1>1, NameIsRead
  <1> HIDE DEF y
  <1>3. x = IF y.ok /\ ExtendFits(Len(y.runs), LLEN)
            THEN [ok |-> TRUE, v |-> FlattenSeq(y.runs), next |-> y.next] ELSE Refused
    BY DEF y, ParseLabel, IntoLabel
  <1>4. x.ok => x.v = name /\ x.next = q
    BY <1>2, <1>3 DEF AsMeant, Refused
  <1>5. ASSUME Len(name) <= Depth
        PROVE  x.ok
    <2>1. y.ok /\ Len(y.runs) <= Len(name)
      BY <1>1, <1>2, <1>5, DepthIsBounded DEF Surely
    <2>2. Len(y.runs) \in Nat
      BY <1>2, <2>1, LenProperties DEF AsMeant
    <2>3. ExtendFits(Len(y.runs), LLEN)
      BY <1>1, <1>5, <2>1, <2>2, DepthIsBounded DEF ExtendFits
    <2>4. QED
      BY <1>3, <2>1, <2>3
  <1>6. QED
    BY <1>4, <1>5

-----------------------------------------------------------------------------
(* How the fields of a message stand in the cells                          *)

\* What is looked at: cells, the entries that pointers lead to, and where the
\* fields end when the message was cut off by the end of the buffer.
Buffered(cells, tab, lim, cut) == [cells |-> cells, tab |-> tab, lim |-> lim, cut |-> cut]

\* The name that a field writes.
NameIn(f) ==
  IF f.put = "copy" THEN f.segs
  ELSE IF Len(f.parts) = 1 THEN f.parts[1] ELSE f.parts[1] \o f.parts[2]

\* A field stands from p up to q, which is left out.
Stands(P, f, p, q) ==
  CASE f.put = "number"  -> p <= Len(P.cells) /\ P.cells[p] = Num(f.v) /\ q = p + 1
    [] f.put = "reserve" -> /\ p <= Len(P.cells) /\ q = p + 1
                            /\ P.cells[p] \in {Hole, Num("length")}
    [] f.put = "fill"    -> q = p
    [] OTHER             -> /\ IsName(NameIn(f))
                            /\ \E n \in Nat : Spelled(P.cells, P.tab, NameIn(f), p, q, n)

\* From one field to the next; position 0 stands for what is cut off.
Step(P, f, p, q) ==
  \/ p # 0 /\ Stands(P, f, p, q)
  \/ q = 0 /\ (p = 0 \/ (P.cut /\ p = P.lim + 1 /\ f.put # "fill"))

Walk(P, s, p, q, pos) ==
  /\ pos \in [0 .. Len(s) -> Nat] /\ pos[0] = p /\ pos[Len(s)] = q
  /\ \A i \in 1 .. Len(s) : Step(P, s[i], pos[i - 1], pos[i])

Goes(P, s, p, q) == \E pos : Walk(P, s, p, q, pos)

\* Behind the fields that were cut off there are only segments.
Readable(P) ==
  /\ Len(P.cells) \in Nat /\ Faithful(P.cells, P.tab) /\ P.lim \in Nat
  /\ P.cut => \A i \in P.lim + 1 .. Len(P.cells) : P.cells[i].k \in {"len", "text"}

\* A state of the parser is where it should be, or has failed.
Tracks(t, p, got, sure) ==
  /\ p = 0 => ~ t.ok
  /\ p # 0 /\ t.ok => t.at = p /\ t.got = got
  /\ p # 0 /\ sure => t.ok

\* A number is read as what was written.
LEMMA NumberIsRead ==
  ASSUME NEW P, Readable(P), NEW t, NEW p \in Nat, NEW got, NEW sure,
         Tracks(t, p, got, sure), NEW f, f.put = "number", NEW q, Step(P, f, p, q),
         NEW x, x = ReadNumber(P.cells, t)
  PROVE  Tracks(x, q, Append(got, f.v), sure)
  <1>1. x = IF ~ t.ok \/ t.at > Len(P.cells) THEN Refused ELSE Got(t, ParseNumber(P.cells, t.at))
    BY DEF ReadNumber, Read
  <1>2. ~ Refused.ok
    BY DEF Refused
  <1>3. CASE ~ t.ok
    BY <1>1, <1>2, <1>3 DEF Tracks, Step, Stands
  <1>4. CASE t.ok /\ q = 0
    <2>1. p # 0 /\ t.at = p
      BY <1>4 DEF Tracks
    <2>2. P.cut /\ p = P.lim + 1
      BY <1>4, <2>1 DEF Step, Stands
    <2>3. CASE p > Len(P.cells)
      BY <1>1, <1>2, <1>4, <2>1, <2>3 DEF Tracks
    <2>4. CASE ~ (p > Len(P.cells))
      <3>1. P.cells[p].k \in {"len", "text"}
        BY <2>2, <2>4 DEF Readable
      <3>2. ParseNumber(P.cells, p) = Refused
        BY <3>1 DEF ParseNumber
      <3>3. x = Refused
        BY <1>1, <1>2, <2>1, <3>2 DEF Got
      <3>4. QED
        BY <1>2, <1>4, <3>3 DEF Tracks
    <2>5. QED
      BY <2>3, <2>4
  <1>5. CASE t.ok /\ q # 0
    <2>1. p # 0 /\ t.at = p /\ t.got = got
      BY <1>5 DEF Tracks
    <2>2. p <= Len(P.cells) /\ P.cells[p] = Num(f.v) /\ q = p + 1
      BY <1>5, <2>1 DEF Step, Stands
    <2>3. ParseNumber(P.cells, p) = [ok |-> TRUE, v |-> f.v, next |-> p + 1]
      BY <2>2 DEF ParseNumber, Num
    <2>4. x = Got(t, [ok |-> TRUE, v |-> f.v, next |-> p + 1])
      BY <1>1, <1>5, <2>1, <2>2, <2>3 DEF Readable
    <2>5. x = [ok |-> TRUE, at |-> q, got |-> Append(got, f.v)]
      BY <2>1, <2>2, <2>4 DEF Got
    <2>6. QED
      BY <1>5, <2>5 DEF Tracks
  <1>6. QED
    BY <1>3, <1>4, <1>5

\* A reserved place is read as a length, filled in or not.
LEMMA LengthIsRead ==
  ASSUME NEW P, Readable(P), NEW t, NEW p \in Nat, NEW got, NEW sure,
         Tracks(t, p, got, sure), NEW f, f.put = "reserve", NEW q, Step(P, f, p, q),
         NEW x, x = ReadNumber(P.cells, t)
  PROVE  Tracks(x, q, Append(got, "length"), sure)
  <1> DEFINE g == [put |-> "number", v |-> "length"]
  <1>1. CASE Step(P, g, p, q)
    <2>1. g.put = "number" /\ g.v = "length"
      OBVIOUS
    <2> HIDE DEF g
    <2>2. Tracks(x, q, Append(got, g.v), sure)
      BY <1>1, <2>1, NumberIsRead
    <2>3. QED
      BY <2>1, <2>2
  <1>2. CASE ~ Step(P, g, p, q)
    <2>1. p # 0 /\ p <= Len(P.cells) /\ P.cells[p] = Hole /\ q = p + 1
      <3>1. q = 0 => p # 0 /\ ~ (P.cut /\ p = P.lim + 1)
        BY <1>2 DEF Step
      <3>2. p # 0 /\ p <= Len(P.cells) /\ P.cells[p] \in {Hole, Num("length")} /\ q = p + 1
        BY <3>1 DEF Step, Stands
      <3>3. P.cells[p] # Num("length")
        BY <1>2, <3>2 DEF Step, Stands
      <3>4. QED
        BY <3>2, <3>3
    <2>2. ParseNumber(P.cells, p) = [ok |-> TRUE, v |-> "length", next |-> p + 1]
      BY <2>1 DEF ParseNumber, Hole
    <2>3. ~ Refused.ok
      BY DEF Refused
    <2>4. x = IF ~ t.ok \/ t.at > Len(P.cells) THEN Refused ELSE Got(t, ParseNumber(P.cells, t.at))
      BY DEF ReadNumber, Read
    <2>5. CASE ~ t.ok
      BY <2>1, <2>3, <2>4, <2>5 DEF Tracks
    <2>6. CASE t.ok
      <3>1. t.at = p /\ t.got = got
        BY <2>1, <2>6 DEF Tracks
      <3>2. x = Got(t, [ok |-> TRUE, v |-> "length", next |-> p + 1])
        BY <2>1, <2>2, <2>4, <2>6, <3>1 DEF Readable
      <3>3. x = [ok |-> TRUE, at |-> q, got |-> Append(got, "length")]
        BY <2>1, <3>1, <3>2 DEF Got
      <3>4. QED
        BY <2>1, <2>6, <3>3 DEF Tracks
    <2>7. QED
      BY <2>5, <2>6
  <1>3. QED
    BY <1>1, <1>2

\* A label is read as the name that was written.
LEMMA NameFieldIsRead ==
  ASSUME NEW P, Readable(P), NEW t, NEW p \in Nat, NEW got, NEW sure,
         Tracks(t, p, got, sure), NEW f, f.put \in {"name", "copy"}, NEW q, Step(P, f, p, q),
         sure => Len(NameIn(f)) <= Depth, NEW x, x = ReadName(P.cells, t)
  PROVE  Tracks(x, q, Append(got, NameIn(f)), sure)
  <1> DEFINE label == ParseLabel(P.cells, t.at)
  <1>1. x = IF ~ t.ok \/ t.at > Len(P.cells) THEN Refused ELSE Got(t, label)
    BY DEF ReadName, Read
  <1>2. ~ Refused.ok
    BY DEF Refused
  <1>3. p # 0 /\ Stands(P, f, p, q)
          => /\ IsName(NameIn(f))
             /\ \E n \in Nat : Spelled(P.cells, P.tab, NameIn(f), p, q, n)
    BY DEF Stands
  <1>4. CASE ~ t.ok
    <2>1. p # 0 => ~ sure
      BY <1>4 DEF Tracks
    <2>2. p = 0 => q = 0
      BY DEF Step
    <2>3. x = Refused
      BY <1>1, <1>4
    <2>4. QED
      BY <1>2, <2>1, <2>2, <2>3 DEF Tracks
  <1>5. CASE t.ok /\ ~ Stands(P, f, p, q)
    <2>1. p # 0 /\ t.at = p /\ q = 0 /\ P.cut /\ p = P.lim + 1
      BY <1>5 DEF Tracks, Step
    <2>2. CASE p > Len(P.cells)
      BY <1>1, <1>2, <1>5, <2>1, <2>2 DEF Tracks
    <2>3. CASE ~ (p > Len(P.cells))
      <3>1. \A i \in p .. Len(P.cells) : P.cells[i].k \in {"len", "text"}
        BY <2>1 DEF Readable
      <3>2. Stops(P.cells, p) = {}
        BY <3>1 DEF Stops
      <3>3. ~ DoParse(P.cells, p).ok
        <4>1. PICK r : IsReading(P.cells, r) /\ \A y : DoParse(P.cells, y) = r[4][y]
          BY ReadLevels
        <4>2. p \in 1 .. Len(P.cells) + 1
          BY <2>1, <2>3 DEF Readable
        <4>3. r[4][p] = RunFrom(P.cells, p, 4, r[4 - 1])
          BY <4>1, <4>2 DEF IsReading
        <4>4. r[4][p] = Refused
          BY <3>2, <4>3 DEF RunFrom
        <4>5. QED
          BY <1>2, <4>1, <4>4
      <3>4. label = Refused
        BY <2>1, <3>3 DEF ParseLabel, IntoLabel
      <3>5. x = Refused
        BY <1>1, <1>2, <3>4 DEF Got
      <3>6. QED
        BY <1>2, <2>1, <3>5 DEF Tracks
    <2>4. QED
      BY <2>2, <2>3
  <1>6. CASE t.ok /\ Stands(P, f, p, q)
    <2>1. p # 0 /\ t.at = p /\ t.got = got
      BY <1>6 DEF Tracks
    <2>2. PICK n \in Nat : Spelled(P.cells, P.tab, NameIn(f), p, q, n)
      BY <1>3, <1>6, <2>1
    <2>3. IsName(NameIn(f)) /\ Len(P.cells) \in Nat /\ Faithful(P.cells, P.tab)
      BY <1>3, <1>6, <2>1 DEF Readable
    <2> HIDE DEF label
    <2>4. /\ label.ok => label.v = NameIn(f) /\ label.next = q
          /\ Len(NameIn(f)) <= Depth => label.ok
      BY <2>1, <2>2, <2>3, LabelIsRead DEF label
    <2>5. q # 0 /\ ~ (p > Len(P.cells))
      BY <2>1, <2>2, <2>3 DEF Spelled
    <2>6. x = Got(t, label)
      BY <1>1, <1>6, <2>1, <2>5
    <2>7. x.ok => x.at = q /\ x.got = Append(got, NameIn(f))
      BY <1>2, <2>1, <2>4, <2>6 DEF Got
    <2>8. sure => x.ok
      BY <2>4, <2>6 DEF Got
    <2>9. QED
      BY <2>5, <2>7, <2>8 DEF Tracks
  <1>7. QED
    BY <1>4, <1>5, <1>6

-----------------------------------------------------------------------------
(* From field to field                                                     *)

\* The position of one field follows from that of the field before.
LEMMA OneByOne ==
  ASSUME NEW P, NEW s, Len(s) \in Nat, NEW p, NEW q, Goes(P, s, p, q)
  PROVE  /\ p \in Nat /\ q \in Nat
         /\ Len(s) = 1 => Step(P, s[1], p, q)
         /\ Len(s) = 2 => \E m \in Nat : Step(P, s[1], p, m) /\ Step(P, s[2], m, q)
         /\ Len(s) = 3 => \E m, n \in Nat :
              Step(P, s[1], p, m) /\ Step(P, s[2], m, n) /\ Step(P, s[3], n, q)
         /\ Len(s) = 4 => \E l, m, n \in Nat :
              /\ Step(P, s[1], p, l) /\ Step(P, s[2], l, m)
              /\ Step(P, s[3], m, n) /\ Step(P, s[4], n, q)
  <1>1. PICK pos : Walk(P, s, p, q, pos)
    BY DEF Goes
  <1>2. /\ pos \in [0 .. Len(s) -> Nat] /\ pos[0] = p /\ pos[Len(s)] = q
        /\ \A i \in 1 .. Len(s) : Step(P, s[i], pos[i - 1], pos[i])
    BY <1>1 DEF Walk
  <1>3. p \in Nat /\ q \in Nat
    <2>1. 0 \in 0 .. Len(s) /\ Len(s) \in 0 .. Len(s)
      OBVIOUS
    <2>2. QED
      BY <1>2, <2>1
  <1>4. 1 - 1 = 0 /\ 2 - 1 = 1 /\ 3 - 1 = 2 /\ 4 - 1 = 3
    OBVIOUS
  <1>5. CASE Len(s) = 1
    <2>1. 1 \in 1 .. Len(s)
      BY <1>5
    <2>2. Step(P, s[1], pos[0], pos[1])
      BY <1>2, <1>4, <2>1
    <2>3. QED
      BY <1>2, <1>3, <1>5, <2>2
  <1>6. CASE Len(s) = 2
    <2>1. 1 \in 1 .. Len(s) /\ 2 \in 1 .. Len(s) /\ 1 \in 0 .. Len(s)
      BY <1>6
    <2>2. Step(P, s[1], pos[0], pos[1]) /\ Step(P, s[2], pos[1], pos[2]) /\ pos[1] \in Nat
      BY <1>2, <1>4, <2>1
    <2>3. QED
      BY <1>2, <1>3, <1>6, <2>2
  <1>7. CASE Len(s) = 3
    <2>1. 1 \in 1 .. Len(s) /\ 2 \in 1 .. Len(s) /\ 3 \in 1 .. Len(s)
          /\ 1 \in 0 .. Len(s) /\ 2 \in 0 .. Len(s)
      BY <1>7
    <2>2. /\ Step(P, s[1], pos[0], pos[1]) /\ Step(P, s[2], pos[1], pos[2])
          /\ Step(P, s[3], pos[2], pos[3]) /\ pos[1] \in Nat /\ pos[2] \in Nat
      BY <1>2, <1>4, <2>1
    <2>3. QED
      BY <1>2, <1>3, <1>7, <2>2
  <1>8. CASE Len(s) = 4
    <2>1. 1 \in 1 .. Len(s) /\ 2 \in 1 .. Len(s) /\ 3 \in 1 .. Len(s) /\ 4 \in 1 .. Len(s)
          /\ 1 \in 0 .. Len(s) /\ 2 \in 0 .. Len(s) /\ 3 \in 0 .. Len(s)
      BY <1>8
    <2>2. /\ Step(P, s[1], pos[0], pos[1]) /\ Step(P, s[2], pos[1], pos[2])
          /\ Step(P, s[3], pos[2], pos[3]) /\ Step(P, s[4], pos[3], pos[4])
          /\ pos[1] \in Nat /\ pos[2] \in Nat /\ pos[3] \in Nat
      BY <1>2, <1>4, <2>1
    <2>3. QED
      BY <1>2, <1>3, <1>8, <2>2
  <1>9. QED
    BY <1>3, <1>5, <1>6, <1>7, <1>8

\* What is cut off stays cut off.
LEMMA LostStays ==
  ASSUME NEW P, NEW s, Len(s) \in Nat, NEW q, Goes(P, s, 0, q)
  PROVE  q = 0
  <1>1. PICK pos : Walk(P, s, 0, q, pos)
    BY DEF Goes
  <1> DEFINE T == {k \in 0 .. Len(s) : pos[k] = 0}
  <1>2. 0 \in T
    BY <1>1 DEF Walk
  <1>3. ASSUME NEW k \in 1 .. Len(s), k - 1 \in T
        PROVE  k \in T
    <2>1. Step(P, s[k], 0, pos[k])
      BY <1>1, <1>3 DEF Walk
    <2>2. QED
      BY <2>1 DEF Step
  <1> HIDE DEF T
  <1>4. \A k \in 0 .. Len(s) : k \in T
    BY <1>2, <1>3, CountUp
  <1>5. Len(s) \in T
    BY <1>4
  <1>6. QED
    BY <1>1, <1>5 DEF T, Walk

\* Fields and more fields.
LEMMA GoesOn ==
  ASSUME NEW P, NEW S, NEW s \in Seq(S), NEW t \in Seq(S), NEW p, NEW q,
         Goes(P, s \o t, p, q)
  PROVE  \E m \in Nat : Goes(P, s, p, m) /\ Goes(P, t, m, q)
  <1> DEFINE both == s \o t
  <1>1. /\ Len(s) \in Nat /\ Len(t) \in Nat /\ Len(both) = Len(s) + Len(t)
        /\ \A i \in 1 .. Len(s) : both[i] = s[i]
        /\ \A i \in 1 .. Len(t) : both[Len(s) + i] = t[i]
    BY LenProperties, ConcatProperties
  <1>2. PICK pos : Walk(P, both, p, q, pos)
    BY DEF Goes
  <1> HIDE DEF both
  <1>3. /\ pos \in [0 .. Len(s) + Len(t) -> Nat] /\ pos[0] = p /\ pos[Len(s) + Len(t)] = q
        /\ \A i \in 1 .. Len(s) + Len(t) : Step(P, both[i], pos[i - 1], pos[i])
    BY <1>1, <1>2 DEF Walk
  <1> DEFINE first == [i \in 0 .. Len(s) |-> pos[i]]
             second == [i \in 0 .. Len(t) |-> pos[Len(s) + i]]
             m == pos[Len(s)]
  <1>4. Walk(P, s, p, m, first)
    <2>1. \A i \in 0 .. Len(s) : i \in 0 .. Len(s) + Len(t)
      BY <1>1
    <2>2. ASSUME NEW i \in 1 .. Len(s)
          PROVE  Step(P, s[i], first[i - 1], first[i])
      <3>1. i \in 1 .. Len(s) + Len(t) /\ i \in 0 .. Len(s) /\ i - 1 \in 0 .. Len(s)
        BY <1>1
      <3>2. Step(P, both[i], pos[i - 1], pos[i]) /\ both[i] = s[i]
        BY <1>1, <1>3, <3>1
      <3>3. QED
        BY <3>1, <3>2
    <2>3. first \in [0 .. Len(s) -> Nat] /\ first[0] = p /\ first[Len(s)] = m
      BY <1>1, <1>3, <2>1
    <2> HIDE DEF first
    <2>4. QED
      BY <2>2, <2>3 DEF Walk
  <1>5. Walk(P, t, m, q, second)
    <2>1. \A i \in 0 .. Len(t) : Len(s) + i \in 0 .. Len(s) + Len(t)
      BY <1>1
    <2>2. ASSUME NEW i \in 1 .. Len(t)
          PROVE  Step(P, t[i], second[i - 1], second[i])
      <3>1. /\ Len(s) + i \in 1 .. Len(s) + Len(t) /\ (Len(s) + i) - 1 = Len(s) + (i - 1)
            /\ i \in 0 .. Len(t) /\ i - 1 \in 0 .. Len(t)
        BY <1>1
      <3>2. Step(P, both[Len(s) + i], pos[(Len(s) + i) - 1], pos[Len(s) + i])
        BY <1>3, <3>1
      <3>3. both[Len(s) + i] = t[i]
        BY <1>1
      <3>4. QED
        BY <3>1, <3>2, <3>3
    <2>3. second \in [0 .. Len(t) -> Nat] /\ second[0] = m /\ second[Len(t)] = q
      BY <1>1, <1>3, <2>1
    <2> HIDE DEF second
    <2>4. QED
      BY <2>2, <2>3 DEF Walk
  <1>6. m \in Nat
    BY <1>1, <1>3
  <1>7. QED
    BY <1>4, <1>5, <1>6 DEF Goes

\* The fields of each item of a list, one item after the other.
GoesEach(P, xs, p, q) ==
  \E pos \in [0 .. Len(xs) -> Nat] :
    /\ pos[0] = p /\ pos[Len(xs)] = q
    /\ \A i \in 1 .. Len(xs) : Goes(P, xs[i], pos[i - 1], pos[i])

\* They are all the fields there are.
LEMMA GoesThrough ==
  ASSUME NEW P, NEW S, NEW xs \in Seq(Seq(S)), NEW p \in Nat, NEW q,
         Goes(P, FlattenSeq(xs), p, q)
  PROVE  GoesEach(P, xs, p, q)
  <1> DEFINE n == Len(xs)
             Through(k, b) == \E pos \in [0 .. k -> Nat] :
               /\ pos[0] = p /\ pos[k] = b
               /\ \A i \in 1 .. k : Goes(P, xs[i], pos[i - 1], pos[i])
  <1>1. n \in Nat /\ \A i \in 1 .. n : xs[i] \in Seq(S)
    BY LenProperties, ElementOfSeq
  <1>2. CASE n = 0
    <2>1. FlattenSeq(xs) = <<>> /\ Len(<<>>) = 0
      BY <1>2, EmptySeq DEF FlattenSeq
    <2>2. PICK pos : Walk(P, <<>>, p, q, pos)
      BY <2>1 DEF Goes
    <2>3. pos \in [0 .. 0 -> Nat] /\ pos[0] = p /\ pos[0] = q
      BY <2>1, <2>2 DEF Walk
    <2>4. QED
      BY <1>2, <2>3 DEF GoesEach
  <1>3. CASE n # 0
    <2>1. PICK flat : /\ FlattenSeq(xs) = flat[n] /\ flat[1] = xs[1]
                      /\ \A k \in 2 .. n : flat[k] = flat[k - 1] \o xs[k]
      BY <1>1, <1>3, FlattenSteps
    <2> DEFINE T == {k \in 0 .. n : k > 0 =>
                       flat[k] \in Seq(S) /\ \A b : Goes(P, flat[k], p, b) => Through(k, b)}
    <2>2. 0 \in T
      BY <1>1
    <2>3. ASSUME NEW k \in 1 .. n, k - 1 \in T
          PROVE  k \in T
      <3>1. CASE k = 1
        <4>1. flat[1] \in Seq(S) /\ flat[1] = xs[1]
          BY <1>1, <2>1, <3>1
        <4>2. ASSUME NEW b, Goes(P, flat[1], p, b)
              PROVE  Through(1, b)
          <5> DEFINE pos == [i \in 0 .. 1 |-> IF i = 0 THEN p ELSE b]
          <5>1. b \in Nat
            BY <4>1, <4>2, OneByOne, LenProperties
          <5>2. pos \in [0 .. 1 -> Nat] /\ pos[0] = p /\ pos[1] = b
            BY <5>1
          <5> HIDE DEF pos
          <5>3. ASSUME NEW i \in 1 .. 1
                PROVE  Goes(P, xs[i], pos[i - 1], pos[i])
            <6>1. i = 1 /\ i - 1 = 0
              OBVIOUS
            <6>2. QED
              BY <4>1, <4>2, <5>2, <6>1
          <5>4. QED
            BY <5>2, <5>3
        <4> HIDE DEF Through
        <4>3. QED
          BY <1>1, <3>1, <4>1, <4>2
      <3>2. CASE k # 1
        <4>1. k \in 2 .. n /\ k - 1 > 0 /\ k \in Nat /\ k - 1 \in Nat
          BY <1>1, <3>2
        <4>2. flat[k] = flat[k - 1] \o xs[k] /\ xs[k] \in Seq(S) /\ flat[k - 1] \in Seq(S)
          BY <1>1, <2>1, <2>3, <4>1
        <4>3. flat[k] \in Seq(S)
          BY <4>2, ConcatProperties
        <4>4. ASSUME NEW b, Goes(P, flat[k], p, b)
              PROVE  Through(k, b)
          <5>1. PICK s \in Seq(S), t \in Seq(S) : s = flat[k - 1] /\ t = xs[k]
            BY <4>2
          <5>2. PICK m \in Nat : Goes(P, s, p, m) /\ Goes(P, t, m, b)
            <6>1. Goes(P, s \o t, p, b)
              BY Zenon, <4>2, <4>4, <5>1
            <6>2. QED
              BY <6>1, GoesOn
          <5>3. Through(k - 1, m)
            <6> HIDE DEF Through
            <6>1. QED
              BY <2>3, <4>1, <5>1, <5>2
          <5>4. PICK old \in [0 .. k - 1 -> Nat] :
                  /\ old[0] = p /\ old[k - 1] = m
                  /\ \A i \in 1 .. k - 1 : Goes(P, xs[i], old[i - 1], old[i])
            BY <5>3
          <5> DEFINE pos == [i \in 0 .. k |-> IF i = k THEN b ELSE old[i]]
          <5>5. b \in Nat
            BY <5>2, OneByOne, LenProperties
          <5>6. /\ pos \in [0 .. k -> Nat] /\ pos[k] = b
                /\ \A i \in 0 .. k - 1 : pos[i] = old[i]
            BY <4>1, <5>4, <5>5
          <5> HIDE DEF pos
          <5>7. pos[0] = p
            BY <4>1, <5>4, <5>6
          <5>8. ASSUME NEW i \in 1 .. k
                PROVE  Goes(P, xs[i], pos[i - 1], pos[i])
            <6>1. CASE i = k
              <7>1. pos[k - 1] = m
                BY <4>1, <5>4, <5>6
              <7>2. QED
                BY <5>1, <5>2, <5>6, <6>1, <7>1
            <6>2. CASE i # k
              <7>1. i \in 1 .. k - 1 /\ i - 1 \in 0 .. k - 1 /\ i \in 0 .. k - 1
                BY <4>1, <6>2
              <7>2. QED
                BY <5>4, <5>6, <7>1
            <6>3. QED
              BY <6>1, <6>2
          <5>9. QED
            BY <5>6, <5>7, <5>8
        <4> HIDE DEF Through
        <4>5. QED
          BY <1>1, <4>3, <4>4
      <3>3. QED
        BY <3>1, <3>2
    <2> HIDE DEF T
    <2>4. \A k \in 0 .. n : k \in T
      BY <1>1, <2>2, <2>3, CountUp
    <2>5. n \in T /\ n > 0
      BY <1>1, <1>3, <2>4
    <2>6. Through(n, q)
      <3> HIDE DEF Through
      <3>1. QED
        BY <2>1, <2>5 DEF T
    <2>7. QED
      BY <2>6 DEF GoesEach
  <1>4. QED
    BY <1>2, <1>3

-----------------------------------------------------------------------------
(* Items                                                                   *)

\* Lists of one, two and three elements.
LEMMA ShortLists ==
  /\ \A a : Append(<<>>, a) = <<a>>
  /\ \A a, b : Append(<<a>>, b) = <<a, b>> /\ <<a>> \o <<b>> = <<a, b>>
  /\ \A a, b, c : Append(<<a, b>>, c) = <<a, b, c>> /\ <<a, b>> \o <<c>> = <<a, b, c>>
  <1>1. \A a : Append(<<>>, a) = <<a>>
    BY EmptySeq
  <1>2. ASSUME NEW a, NEW b
        PROVE  Append(<<a>>, b) = <<a, b>> /\ <<a>> \o <<b>> = <<a, b>>
    <2> DEFINE S == {a, b}
               s == Append(<<a>>, b)
               t == <<a, b>>
    <2>1. <<a>> \in Seq(S) /\ b \in S /\ t \in Seq(S) /\ Len(t) = 2 /\ t[1] = a /\ t[2] = b
      OBVIOUS
    <2> HIDE DEF S, t
    <2>2. s \in Seq(S) /\ Len(s) = 2 /\ s[1] = a /\ s[2] = b /\ s = <<a>> \o <<b>>
      BY <2>1, AppendProperties, AppendIsConcat
    <2> HIDE DEF s
    <2>3. \A i \in 1 .. Len(s) : s[i] = t[i]
      <3>1. 1 .. Len(s) = {1, 2}
        BY <2>2
      <3>2. QED
        BY <2>1, <2>2, <3>1
    <2>4. s = t
      BY <2>1, <2>2, <2>3, SeqEqual
    <2>5. QED
      BY <2>2, <2>4 DEF s, t
  <1>3. ASSUME NEW a, NEW b, NEW c
        PROVE  Append(<<a, b>>, c) = <<a, b, c>> /\ <<a, b>> \o <<c>> = <<a, b, c>>
    <2> DEFINE S == {a, b, c}
               s == Append(<<a, b>>, c)
               t == <<a, b, c>>
    <2>1. /\ <<a, b>> \in Seq(S) /\ c \in S /\ t \in Seq(S)
          /\ Len(t) = 3 /\ t[1] = a /\ t[2] = b /\ t[3] = c
      OBVIOUS
    <2> HIDE DEF S, t
    <2>2. s \in Seq(S) /\ Len(s) = 3 /\ s[1] = a /\ s[2] = b /\ s[3] = c /\ s = <<a, b>> \o <<c>>
      BY <2>1, AppendProperties, AppendIsConcat
    <2> HIDE DEF s
    <2>3. \A i \in 1 .. Len(s) : s[i] = t[i]
      <3>1. 1 .. Len(s) = {1, 2, 3}
        BY <2>2
      <3>2. QED
        BY <2>1, <2>2, <3>1
    <2>4. s = t
      BY <2>1, <2>2, <2>3, SeqEqual
    <2>5. QED
      BY <2>2, <2>4 DEF s, t
  <1>4. QED
    BY <1>1, <1>2, <1>3

\* And of four.
LEMMA FourInAList ==
  ASSUME NEW a, NEW b, NEW c, NEW d
  PROVE  <<a, b, c>> \o <<d>> = <<a, b, c, d>> /\ Append(<<a, b, c>>, d) = <<a, b, c, d>>
  <1> DEFINE S == {a, b, c, d}
             s == Append(<<a, b, c>>, d)
             t == <<a, b, c, d>>
  <1>1. /\ <<a, b, c>> \in Seq(S) /\ d \in S /\ t \in Seq(S)
        /\ Len(t) = 4 /\ t[1] = a /\ t[2] = b /\ t[3] = c /\ t[4] = d
    OBVIOUS
  <1> HIDE DEF S, t
  <1>2. /\ s \in Seq(S) /\ Len(s) = 4 /\ s[1] = a /\ s[2] = b /\ s[3] = c /\ s[4] = d
        /\ s = <<a, b, c>> \o <<d>>
    BY <1>1, AppendProperties, AppendIsConcat
  <1> HIDE DEF s
  <1>3. \A i \in 1 .. Len(s) : s[i] = t[i]
    <2>1. 1 .. Len(s) = {1, 2, 3, 4}
      BY <1>2
    <2>2. QED
      BY <1>1, <1>2, <2>1
  <1>4. s = t
    BY <1>1, <1>2, <1>3, SeqEqual
  <1>5. QED
    BY <1>2, <1>4 DEF s, t

\* A name is written by one field, in one part, in two, or copied.
LEMMA NameIsAField ==
  ASSUME NEW name, IsName(name), NEW s, s \in {Whole(name), Instance(name), Copy(name)}
  PROVE  \E f : s = <<f>> /\ f.put \in {"name", "copy"} /\ NameIn(f) = name
  <1>1. name \in Seq(STRING) /\ name # <<>>
    BY DEF IsName
  <1>2. CASE s = Whole(name)
    <2> DEFINE f == [put |-> "name", parts |-> <<name>>]
    <2>1. s = <<f>> /\ f.put = "name" /\ f.parts = <<name>>
      BY <1>2 DEF Whole, Name
    <2>2. Len(f.parts) = 1 /\ f.parts[1] = name
      BY <2>1
    <2> HIDE DEF f
    <2>3. NameIn(f) = name
      BY <2>1, <2>2 DEF NameIn
    <2>4. QED
      BY <2>1, <2>3
  <1>3. CASE s = Instance(name)
    <2> DEFINE f == [put |-> "name", parts |-> << <<Head(name)>>, Tail(name) >>]
    <2>1. s = <<f>> /\ f.put = "name" /\ f.parts = << <<Head(name)>>, Tail(name) >>
      BY <1>3 DEF Instance, Name
    <2>2. Len(f.parts) = 2 /\ f.parts[1] = <<Head(name)>> /\ f.parts[2] = Tail(name)
      BY <2>1
    <2>3. <<Head(name)>> \o Tail(name) = name
      BY <1>1
    <2> HIDE DEF f
    <2>4. NameIn(f) = f.parts[1] \o f.parts[2]
      BY <2>1, <2>2 DEF NameIn
    <2>5. NameIn(f) = name
      BY Zenon, <2>2, <2>3, <2>4
    <2>6. QED
      BY <2>1, <2>5
  <1>4. CASE s = Copy(name)
    <2> DEFINE f == [put |-> "copy", segs |-> name]
    <2>1. s = <<f>> /\ f.put = "copy" /\ f.segs = name
      BY <1>4 DEF Copy
    <2> HIDE DEF f
    <2>2. QED
      BY <2>1 DEF NameIn
  <1>5. QED
    BY <1>2, <1>3, <1>4

\* A parser begins where it is told to.
LEMMA BeginningTracks ==
  ASSUME NEW p, p # 0, NEW sure
  PROVE  Tracks(At(p), p, <<>>, sure)
  BY DEF At, Tracks

\* Filling a place in does not move what is read.
LEMMA FillIsNothing ==
  ASSUME NEW P, NEW t, NEW p, NEW got, NEW sure, Tracks(t, p, got, sure),
         NEW f, f.put = "fill", NEW q, Step(P, f, p, q)
  PROVE  Tracks(t, q, got, sure)
  BY DEF Tracks, Step, Stands

\* A name and two numbers are read, whatever comes before them.
LEMMA TripleTracks ==
  ASSUME NEW P, Readable(P), NEW p \in Nat, p # 0, NEW sure,
         NEW f, NEW g, NEW h, f.put \in {"name", "copy"},
         g.put = "number", h.put = "number",
         sure => Len(NameIn(f)) <= Depth,
         NEW q, Goes(P, <<f, g, h>>, p, q), NEW t, t = Triple(P.cells, p)
  PROVE  Tracks(t, q, <<NameIn(f), g.v, h.v>>, sure)
  <1>1. PICK m \in Nat, n \in Nat : Step(P, f, p, m) /\ Step(P, g, m, n) /\ Step(P, h, n, q)
    <2> DEFINE s == <<f, g, h>>
    <2>1. Len(s) = 3 /\ s[1] = f /\ s[2] = g /\ s[3] = h
      OBVIOUS
    <2> HIDE DEF s
    <2>2. Len(s) \in Nat /\ Goes(P, s, p, q)
      BY <2>1 DEF s
    <2>3. QED
      BY <2>1, <2>2, OneByOne
  <1> DEFINE t0 == At(p)
             t1 == ReadName(P.cells, t0)
             t2 == ReadNumber(P.cells, t1)
  <1>2. t = ReadNumber(P.cells, t2)
    BY DEF Triple
  <1>3. Tracks(t0, p, <<>>, sure)
    BY BeginningTracks
  <1> HIDE DEF t0
  <1>4. Tracks(t1, m, Append(<<>>, NameIn(f)), sure)
    <2>1. t1 = ReadName(P.cells, t0)
      OBVIOUS
    <2> DEFINE got == <<>>
    <2>2. Tracks(t0, p, got, sure) /\ (sure => Len(NameIn(f)) <= Depth)
      BY <1>3
    <2> HIDE DEF t1, got
    <2>3. Tracks(t1, m, Append(got, NameIn(f)), sure)
      BY <1>1, <2>1, <2>2, NameFieldIsRead
    <2>4. QED
      BY <2>3 DEF got
  <1> HIDE DEF t1
  <1>5. Tracks(t2, n, Append(Append(<<>>, NameIn(f)), g.v), sure)
    BY <1>1, <1>4, NumberIsRead
  <1> HIDE DEF t2
  <1>6. Tracks(t, q, Append(Append(Append(<<>>, NameIn(f)), g.v), h.v), sure)
    BY <1>1, <1>2, <1>5, NumberIsRead
  <1>7. Append(Append(Append(<<>>, NameIn(f)), g.v), h.v) = <<NameIn(f), g.v, h.v>>
    <2>1. Append(<<>>, NameIn(f)) = <<NameIn(f)>>
      BY ShortLists
    <2>2. Append(<<NameIn(f)>>, g.v) = <<NameIn(f), g.v>>
      BY ShortLists
    <2>3. Append(<<NameIn(f), g.v>>, h.v) = <<NameIn(f), g.v, h.v>>
      BY ShortLists
    <2>4. QED
      BY Zenon, <2>1, <2>2, <2>3
  <1>8. QED
    BY Zenon, <1>6, <1>7

\* What an item was parsed to: what was written, or nothing.
ItemTracks(x, p, item, sure) ==
  /\ p = 0 => ~ x.ok
  /\ p # 0 /\ x.ok => x.at = p /\ x.item = item
  /\ p # 0 /\ sure => x.ok

\* A question is parsed.
LEMMA QueryIsParsed ==
  ASSUME NEW P, Readable(P), NEW p \in Nat, p # 0, NEW sure,
         NEW q, IsQuery(q), NEW kind, sure => Len(q.name) <= Depth,
         NEW e, Goes(P, QueryItems(q, kind), p, e), NEW x, x = ParseQuery(P.cells, p)
  PROVE  ItemTracks(x, e, q, sure)
  <1> DEFINE s == IF kind = "request" THEN Whole(q.name) ELSE Copy(q.name)
             g == [put |-> "number", v |-> q.qtype]
             h == [put |-> "number", v |-> q.qclass]
             t == Triple(P.cells, p)
  <1>1. PICK f : s = <<f>> /\ f.put \in {"name", "copy"} /\ NameIn(f) = q.name
    <2>1. IsName(q.name) /\ s \in {Whole(q.name), Instance(q.name), Copy(q.name)}
      BY DEF IsQuery
    <2> HIDE DEF s
    <2>2. QED
      BY <2>1, NameIsAField
  <1>2. QueryItems(q, kind) = (s \o <<g>>) \o <<h>>
    BY DEF QueryItems, Number
  <1>3. g.put = "number" /\ g.v = q.qtype /\ h.put = "number" /\ h.v = q.qclass
    OBVIOUS
  <1> HIDE DEF s, g, h
  <1>4. QueryItems(q, kind) = <<f, g, h>>
    <2>1. <<f>> \o <<g>> = <<f, g>>
      BY ShortLists
    <2>2. <<f, g>> \o <<h>> = <<f, g, h>>
      BY ShortLists
    <2>3. QED
      BY Zenon, <1>1, <1>2, <2>1, <2>2
  <1>5. Goes(P, <<f, g, h>>, p, e)
    BY <1>4
  <1>6. Tracks(t, e, <<NameIn(f), g.v, h.v>>, sure)
    BY <1>1, <1>3, <1>5, TripleTracks
  <1>7. Tracks(t, e, <<q.name, q.qtype, q.qclass>>, sure)
    BY <1>1, <1>3, <1>6
  <1>8. x = ToQuery(t)
    BY DEF ParseQuery
  <1> HIDE DEF t
  <1>9. CASE t.ok
    <2>1. /\ x.ok /\ x.at = t.at
          /\ x.item = [name |-> t.got[1], qtype |-> t.got[2], qclass |-> t.got[3]]
      BY <1>8, <1>9 DEF ToQuery, Parsed
    <2>2. e # 0 => t.at = e /\ t.got = <<q.name, q.qtype, q.qclass>>
      BY <1>7, <1>9 DEF Tracks
    <2>3. e # 0 => x.item = q
      BY <2>1, <2>2 DEF IsQuery
    <2>4. e # 0
      BY <1>7, <1>9 DEF Tracks
    <2>5. QED
      BY <2>1, <2>2, <2>3, <2>4 DEF ItemTracks
  <1>10. CASE ~ t.ok
    <2>1. ~ x.ok
      BY <1>8, <1>10 DEF ToQuery, Refused
    <2>2. QED
      BY <1>7, <1>10, <2>1 DEF Tracks, ItemTracks
  <1>11. QED
    BY <1>9, <1>10

\* The segments that do_parse and the labels allow for the names of a record.
NamesFit(rec) ==
  /\ rec.type = "PTR" => Len(rec.name) <= Depth
  /\ rec.type = "SRV" => Len(rec.target) <= Depth

\* The length of a record and what follows it are read.
LEMMA RecordIsRead ==
  ASSUME NEW P, Readable(P), NEW p \in Nat, p # 0, NEW sure,
         NEW rec, IsRecord(rec), sure => NamesFit(rec),
         NEW q, Goes(P, RecordItems(rec), p, q),
         NEW r, r = RecordFields(P.cells, rec.type, p)
  PROVE  \E got : Tracks(r, q, got, sure) /\ Record(rec.type, got) = rec
  <1> DEFINE t0 == At(p)
  <1>1. Tracks(t0, p, <<>>, sure)
    BY BeginningTracks
  <1>2. CASE rec.type = "PTR"
    <2>1. rec = [type |-> "PTR", name |-> rec.name] /\ IsName(rec.name)
      BY <1>2 DEF IsRecord
    <2>2. PICK f : /\ Instance(rec.name) = <<f>> /\ f.put \in {"name", "copy"}
                   /\ NameIn(f) = rec.name
      BY <2>1, NameIsAField
    <2> DEFINE hole == [put |-> "reserve"]
               fill == [put |-> "fill"]
    <2>3. RecordItems(rec) = (<<hole>> \o Instance(rec.name)) \o <<fill>>
      BY <1>2 DEF RecordItems, PtrItems, Reserved, Filled
    <2>4. hole.put = "reserve" /\ fill.put = "fill"
      OBVIOUS
    <2> HIDE DEF hole, fill
    <2>5. RecordItems(rec) = <<hole, f, fill>>
      <3>1. <<hole>> \o <<f>> = <<hole, f>> /\ <<hole, f>> \o <<fill>> = <<hole, f, fill>>
        BY Zenon, ShortLists
      <3>2. QED
        BY Zenon, <2>2, <2>3, <3>1
    <2>6. PICK m \in Nat, n \in Nat : Step(P, hole, p, m) /\ Step(P, f, m, n) /\ Step(P, fill, n, q)
      <3> DEFINE s == <<hole, f, fill>>
      <3>1. Len(s) = 3 /\ s[1] = hole /\ s[2] = f /\ s[3] = fill
        OBVIOUS
      <3> HIDE DEF s
      <3>2. Len(s) \in Nat /\ Goes(P, s, p, q)
        BY <2>5, <3>1 DEF s
      <3>3. QED
        BY <3>1, <3>2, OneByOne
    <2> DEFINE t1 == ReadNumber(P.cells, t0)
               none == <<>>
    <2>7. r = ReadName(P.cells, t1) /\ t1 = ReadNumber(P.cells, t0)
      BY <1>2 DEF RecordFields
    <2>8. Tracks(t0, p, none, sure)
      BY <1>1
    <2> HIDE DEF t0, t1, none
    <2>9. Tracks(t1, m, Append(none, "length"), sure)
      BY <2>4, <2>6, <2>7, <2>8, LengthIsRead
    <2>10. sure => Len(NameIn(f)) <= Depth
      BY <1>2, <2>2 DEF NamesFit
    <2> DEFINE one == Append(none, "length")
               got == Append(one, NameIn(f))
    <2>11. one = <<"length">>
      BY ShortLists DEF none
    <2>12. Tracks(t1, m, one, sure)
      BY <2>9
    <2> HIDE DEF one
    <2>13. Tracks(r, n, got, sure)
      BY <2>2, <2>6, <2>7, <2>10, <2>12, NameFieldIsRead
    <2>14. got = <<"length", rec.name>>
      BY <2>2, <2>11, ShortLists
    <2> HIDE DEF got
    <2>15. Tracks(r, q, got, sure)
      BY <2>4, <2>6, <2>13, FillIsNothing
    <2>16. Record(rec.type, got) = [type |-> "PTR", name |-> rec.name]
      BY <1>2, <2>14 DEF Record
    <2>17. QED
      BY <2>1, <2>15, <2>16
  <1>3. CASE rec.type = "SRV"
    <2>1. /\ rec = [type |-> "SRV", port |-> rec.port, target |-> rec.target]
          /\ IsName(rec.target)
      BY <1>3 DEF IsRecord
    <2>2. PICK f : /\ Whole(rec.target) = <<f>> /\ f.put \in {"name", "copy"}
                   /\ NameIn(f) = rec.target
      BY <2>1, NameIsAField
    <2> DEFINE hole == [put |-> "reserve"]
               port == [put |-> "number", v |-> rec.port]
               fill == [put |-> "fill"]
    <2>3. RecordItems(rec) = ((<<hole>> \o <<port>>) \o Whole(rec.target)) \o <<fill>>
      BY <1>3 DEF RecordItems, SrvItems, Reserved, Filled, Number
    <2>4. /\ hole.put = "reserve" /\ fill.put = "fill"
          /\ port.put = "number" /\ port.v = rec.port
      OBVIOUS
    <2> HIDE DEF hole, port, fill
    <2>5. RecordItems(rec) = <<hole, port, f, fill>>
      <3>1. <<hole>> \o <<port>> = <<hole, port>>
        BY Zenon, ShortLists
      <3>2. <<hole, port>> \o <<f>> = <<hole, port, f>>
        BY Zenon, ShortLists
      <3>3. <<hole, port, f>> \o <<fill>> = <<hole, port, f, fill>>
        BY FourInAList
      <3>4. QED
        BY Zenon, <2>2, <2>3, <3>1, <3>2, <3>3
    <2>6. PICK l \in Nat, m \in Nat, n \in Nat :
            /\ Step(P, hole, p, l) /\ Step(P, port, l, m)
            /\ Step(P, f, m, n) /\ Step(P, fill, n, q)
      <3> DEFINE s == <<hole, port, f, fill>>
      <3>1. Len(s) = 4 /\ s[1] = hole /\ s[2] = port /\ s[3] = f /\ s[4] = fill
        OBVIOUS
      <3> HIDE DEF s
      <3>2. Len(s) \in Nat /\ Goes(P, s, p, q)
        BY <2>5, <3>1 DEF s
      <3>3. QED
        BY <3>1, <3>2, OneByOne
    <2> DEFINE t1 == ReadNumber(P.cells, t0)
               t2 == ReadNumber(P.cells, t1)
               none == <<>>
    <2>7. r = ReadName(P.cells, t2) /\ t2 = ReadNumber(P.cells, t1) /\ t1 = ReadNumber(P.cells, t0)
      BY <1>3 DEF RecordFields
    <2>8. Tracks(t0, p, none, sure)
      BY <1>1
    <2> HIDE DEF t0, t1, t2, none
    <2>9. Tracks(t1, l, Append(none, "length"), sure)
      BY <2>4, <2>6, <2>7, <2>8, LengthIsRead
    <2>10. sure => Len(NameIn(f)) <= Depth
      BY <1>3, <2>2 DEF NamesFit
    <2> DEFINE one == Append(none, "length")
               two == Append(one, port.v)
               got == Append(two, NameIn(f))
    <2>11. one = <<"length">>
      BY ShortLists DEF none
    <2>12. Tracks(t1, l, one, sure)
      BY <2>9
    <2> HIDE DEF one
    <2>13. Tracks(t2, m, two, sure)
      BY <2>4, <2>6, <2>7, <2>12, NumberIsRead
    <2>14. two = <<"length", rec.port>>
      BY <2>4, <2>11, ShortLists
    <2> HIDE DEF two
    <2>15. Tracks(r, n, got, sure)
      BY <2>2, <2>6, <2>7, <2>10, <2>13, NameFieldIsRead
    <2>16. got = <<"length", rec.port, rec.target>>
      <3>1. Append(<<"length", rec.port>>, rec.target) = <<"length", rec.port, rec.target>>
        BY Zenon, ShortLists
      <3>2. QED
        BY Zenon, <2>2, <2>14, <3>1
    <2> HIDE DEF got
    <2>17. Tracks(r, q, got, sure)
      BY <2>4, <2>6, <2>15, FillIsNothing
    <2>18. Record(rec.type, got) = [type |-> "SRV", port |-> rec.port, target |-> rec.target]
      BY <1>3, <2>16 DEF Record
    <2>19. QED
      BY <2>1, <2>17, <2>18
  <1>4. CASE rec.type \notin {"PTR", "SRV"}
    <2> DEFINE a == [put |-> "number", v |-> "length"]
               data == IF rec.type = "TXT" THEN "text" ELSE rec.address
               b == [put |-> "number", v |-> data]
    <2>1. RecordItems(rec) = <<a>> \o <<b>>
      <3>1. CASE rec.type = "TXT"
        BY <3>1 DEF RecordItems, TxtItems, Number
      <3>2. CASE rec.type # "TXT"
        BY <1>4, <3>2 DEF RecordItems, IpItems, Number
      <3>3. QED
        BY <3>1, <3>2
    <2>2. a.put = "number" /\ a.v = "length" /\ b.put = "number" /\ b.v = data
      OBVIOUS
    <2> HIDE DEF a, b
    <2>3. PICK m \in Nat : Step(P, a, p, m) /\ Step(P, b, m, q)
      <3> DEFINE s == <<a, b>>
      <3>1. Len(s) = 2 /\ s[1] = a /\ s[2] = b
        OBVIOUS
      <3>2. <<a>> \o <<b>> = <<a, b>>
        BY ShortLists
      <3>3. RecordItems(rec) = s
        BY Zenon, <2>1, <3>2
      <3> HIDE DEF s
      <3>4. Len(s) \in Nat /\ Goes(P, s, p, q)
        BY <3>1, <3>3
      <3>5. QED
        BY <3>1, <3>4, OneByOne
    <2> DEFINE t1 == ReadNumber(P.cells, t0)
               none == <<>>
    <2>4. r = ReadNumber(P.cells, t1) /\ t1 = ReadNumber(P.cells, t0)
      BY <1>4 DEF RecordFields
    <2>5. Tracks(t0, p, none, sure)
      BY <1>1
    <2> HIDE DEF t0, t1, none
    <2> DEFINE one == Append(none, a.v)
               got == Append(one, b.v)
    <2>6. Tracks(t1, m, one, sure)
      BY <2>2, <2>3, <2>4, <2>5, NumberIsRead
    <2>7. one = <<"length">>
      BY <2>2, ShortLists DEF none
    <2> HIDE DEF one
    <2>8. Tracks(r, q, got, sure)
      BY <2>2, <2>3, <2>4, <2>6, NumberIsRead
    <2>9. got = <<"length", data>>
      BY <2>2, <2>7, ShortLists
    <2> HIDE DEF got, data
    <2>10. Record(rec.type, got)
             = IF rec.type = "TXT" THEN [type |-> "TXT"] ELSE [type |-> rec.type, address |-> data]
      BY <1>4, <2>9 DEF Record
    <2>11. Record(rec.type, got) = rec
      <3>1. CASE rec.type = "TXT"
        BY <2>10, <3>1 DEF IsRecord
      <3>2. CASE rec.type # "TXT"
        <4>1. rec = [type |-> rec.type, address |-> rec.address]
          BY <1>4, <3>2 DEF IsRecord
        <4>2. data = rec.address
          BY <3>2 DEF data
        <4>3. QED
          BY <2>10, <3>2, <4>1, <4>2
      <3>3. QED
        BY <3>1, <3>2
    <2>12. QED
      BY <2>8, <2>11
  <1>5. QED
    BY <1>2, <1>3, <1>4

\* The segments that do_parse and the labels allow for the names of an answer.
AnswerFits(a) == Len(a.name) <= Depth /\ NamesFit(a.rec)

\* An answer is parsed: its name, its type and its class, and its record.
LEMMA AnswerIsParsed ==
  ASSUME NEW P, Readable(P), NEW p \in Nat, p # 0, NEW sure,
         NEW a, IsAnswer(a), sure => AnswerFits(a),
         NEW e, Goes(P, AnswerItems(a), p, e), NEW x, x = ParseAnswer(P.cells, p)
  PROVE  ItemTracks(x, e, a, sure)
  <1> DEFINE s == IF a.rec.type \in {"SRV", "TXT"} THEN Instance(a.name) ELSE Whole(a.name)
             g == [put |-> "number", v |-> a.rec.type]
             h == [put |-> "number", v |-> a.aclass]
             t == Triple(P.cells, p)
             items == RecordItems(a.rec)
  <1>1. PICK f : s = <<f>> /\ f.put \in {"name", "copy"} /\ NameIn(f) = a.name
    <2>1. IsName(a.name) /\ s \in {Whole(a.name), Instance(a.name), Copy(a.name)}
      BY DEF IsAnswer
    <2> HIDE DEF s
    <2>2. QED
      BY <2>1, NameIsAField
  <1>2. AnswerItems(a) = ((s \o <<g>>) \o <<h>>) \o items
    BY DEF AnswerItems, Number
  <1>3. g.put = "number" /\ g.v = a.rec.type /\ h.put = "number" /\ h.v = a.aclass
    OBVIOUS
  <1>4. IsRecord(a.rec) /\ a.rec.type \in KnownTypes
    BY DEF IsAnswer, IsRecord, KnownTypes
  <1> HIDE DEF s, g, h
  <1>5. AnswerItems(a) = <<f, g, h>> \o items
    <2>1. <<f>> \o <<g>> = <<f, g>>
      BY ShortLists
    <2>2. <<f, g>> \o <<h>> = <<f, g, h>>
      BY ShortLists
    <2>3. QED
      BY Zenon, <1>1, <1>2, <2>1, <2>2
  <1>6. PICK m \in Nat : Goes(P, <<f, g, h>>, p, m) /\ Goes(P, items, m, e)
    <2>1. AreFields(items)
      BY <1>4, RecordIsFields DEF IsRecord
    <2> DEFINE S == {f, g, h} \cup Range(items)
               first == <<f, g, h>>
    <2>2. first \in Seq(S)
      OBVIOUS
    <2>3. items \in Seq(S)
      BY <2>1, SeqMonotonic DEF AreFields
    <2>4. Goes(P, first \o items, p, e)
      BY <1>5
    <2> HIDE DEF S, first, items
    <2>5. \E m \in Nat : Goes(P, first, p, m) /\ Goes(P, items, m, e)
      BY <2>2, <2>3, <2>4, GoesOn
    <2>6. QED
      BY <2>5 DEF first
  <1>7. sure => Len(NameIn(f)) <= Depth
    BY <1>1 DEF AnswerFits
  <1>8. Tracks(t, m, <<NameIn(f), g.v, h.v>>, sure)
    BY <1>1, <1>3, <1>6, <1>7, TripleTracks
  <1>9. Tracks(t, m, <<a.name, a.rec.type, a.aclass>>, sure)
    BY <1>1, <1>3, <1>8
  <1>10. x = ParseRecord(P.cells, t)
    BY DEF ParseAnswer
  <1>11. m = 0 => e = 0
    <2>1. Len(items) \in Nat
      BY <1>4, RecordIsFields, LenProperties DEF IsRecord, AreFields
    <2>2. QED
      BY <1>6, <2>1, LostStays
  <1> HIDE DEF t, items
  <1>12. CASE ~ t.ok
    <2>1. ~ x.ok
      BY <1>10, <1>12 DEF ParseRecord, Refused
    <2>2. QED
      BY <1>9, <1>11, <1>12, <2>1 DEF Tracks, ItemTracks
  <1>13. CASE t.ok
    <2>1. m # 0 /\ t.at = m /\ t.got = <<a.name, a.rec.type, a.aclass>>
      BY <1>9, <1>13 DEF Tracks
    <2> DEFINE r == RecordFields(P.cells, a.rec.type, m)
    <2>2. x = ToAnswer(t, r)
      BY <1>4, <1>10, <1>13, <2>1 DEF ParseRecord
    <2>3. PICK got : Tracks(r, e, got, sure) /\ Record(a.rec.type, got) = a.rec
      <3>1. sure => NamesFit(a.rec)
        BY DEF AnswerFits
      <3>2. Goes(P, RecordItems(a.rec), m, e)
        BY <1>6 DEF items
      <3>3. QED
        BY <1>4, <2>1, <3>1, <3>2, RecordIsRead
    <2> HIDE DEF r
    <2>4. CASE ~ r.ok
      <3>1. ~ x.ok
        BY <2>2, <2>4 DEF ToAnswer, Refused
      <3>2. QED
        BY <2>3, <2>4, <3>1 DEF Tracks, ItemTracks
    <2>5. CASE r.ok
      <3>1. e # 0 /\ r.at = e /\ r.got = got
        BY <2>3, <2>5 DEF Tracks
      <3>2. /\ x.ok /\ x.at = r.at
            /\ x.item = [name |-> t.got[1], aclass |-> t.got[3], rec |-> Record(t.got[2], r.got)]
        BY <2>2, <2>5 DEF ToAnswer, Parsed
      <3>3. t.got[1] = a.name /\ t.got[2] = a.rec.type /\ t.got[3] = a.aclass
        BY <2>1
      <3>4. x.item = [name |-> a.name, aclass |-> a.aclass, rec |-> a.rec]
        BY Zenon, <2>3, <3>1, <3>2, <3>3
      <3>5. x.item = a
        BY <3>4 DEF IsAnswer
      <3>6. QED
        BY <3>1, <3>2, <3>5 DEF ItemTracks
    <2>6. QED
      BY <2>4, <2>5
  <1>14. QED
    BY <1>12, <1>13

\* What has been taken when each of the items was looked at.
IsTaken(taken, t, c, at, count, cap, what) ==
  /\ t = taken[count] /\ taken[0] = At(at)
  /\ \A i \in 1 .. count :
       taken[i] = TakeItem(taken[i - 1], ParseItem(c, taken[i - 1].at, what), i, cap)

\* The recursion that defines Section.
LEMMA SectionSteps ==
  ASSUME NEW c, NEW at, NEW count \in Nat, NEW cap, NEW what,
         NEW t, t = Section(c, at, count, cap, what)
  PROVE  \E taken : IsTaken(taken, t, c, at, count, cap, what)
  <1> DEFINE more(u, i) == TakeItem(u, ParseItem(c, u.at, what), i, cap)
             upto(f, m) == [i \in 0 .. m |-> IF i = 0 THEN At(at) ELSE more(f[i - 1], i)]
             taken == CHOOSE f : f = upto(f, count)
             T == {m \in 0 .. count : \E f : f = upto(f, m)}
  <1> HIDE DEF more
  <1>1. 0 \in T
    <2>1. [i \in 0 .. 0 |-> At(at)] = upto([i \in 0 .. 0 |-> At(at)], 0)
      OBVIOUS
    <2>2. \E f : f = upto(f, 0)
      BY Zenon, <2>1
    <2>3. 0 \in 0 .. count
      OBVIOUS
    <2> HIDE DEF upto
    <2>4. QED
      BY <2>2, <2>3
  <1>2. ASSUME NEW m \in 1 .. count, m - 1 \in T
        PROVE  m \in T
    <2>1. PICK f : f = upto(f, m - 1)
      BY <1>2
    <2> DEFINE g == [i \in 0 .. m |-> IF i = m THEN more(f[m - 1], m) ELSE f[i]]
    <2>2. ASSUME NEW i \in 0 .. m
          PROVE  g[i] = IF i = 0 THEN At(at) ELSE more(g[i - 1], i)
      <3>1. CASE i = m
        <4>1. m - 1 \in 0 .. m /\ m - 1 # m /\ m # 0
          OBVIOUS
        <4>2. g[m] = more(f[m - 1], m) /\ g[m - 1] = f[m - 1]
          BY <4>1
        <4>3. QED
          BY <3>1, <4>1, <4>2
      <3>2. CASE i # m
        <4>1. i \in 0 .. m - 1 /\ g[i] = f[i]
          BY <3>2
        <4>2. f[i] = IF i = 0 THEN At(at) ELSE more(f[i - 1], i)
          BY <2>1, <4>1
        <4>3. i # 0 => i - 1 \in 0 .. m /\ i - 1 # m
          BY <4>1
        <4>4. i # 0 => g[i - 1] = f[i - 1]
          BY <4>3
        <4>5. QED
          BY <4>1, <4>2, <4>4
      <3>3. QED
        BY <3>1, <3>2
    <2>3. g = [i \in 0 .. m |-> g[i]]
      OBVIOUS
    <2> HIDE DEF g
    <2>4. g = upto(g, m)
      BY <2>2, <2>3
    <2>5. QED
      BY <2>4
  <1> HIDE DEF T
  <1>3. count \in T
    <2>1. \A k \in 0 .. count : k \in T
      BY <1>1, <1>2, CountUp
    <2>2. QED
      BY <2>1
  <1>4. taken = upto(taken, count)
    <2>1. \E f : f = upto(f, count)
      BY <1>3 DEF T
    <2> HIDE DEF upto
    <2>2. QED
      BY <2>1
  <1>5. Section(c, at, count, cap, what) = taken[count]
    BY Zenon DEF Section, more
  <1> HIDE DEF taken
  <1>6. taken[0] = At(at)
    BY <1>4
  <1>7. ASSUME NEW i \in 1 .. count
        PROVE  taken[i] = more(taken[i - 1], i)
    <2>1. taken[i] = upto(taken, count)[i]
      BY <1>4
    <2>2. QED
      BY <2>1
  <1>8. QED
    <2>1. IsTaken(taken, t, c, at, count, cap, what)
      BY Zenon, <1>5, <1>6, <1>7 DEF more, IsTaken
    <2>2. QED
      BY <2>1

\* One element more of a list.
LEMMA PrefixGrows ==
  ASSUME NEW S, NEW xs \in Seq(S), NEW k \in 1 .. Len(xs)
  PROVE  Append(SubSeq(xs, 1, k - 1), xs[k]) = SubSeq(xs, 1, k)
  <1> DEFINE before == SubSeq(xs, 1, k - 1)
             s == Append(before, xs[k])
             t == SubSeq(xs, 1, k)
  <1>1. Len(xs) \in Nat /\ k \in Nat /\ k - 1 \in Nat /\ \A i \in 1 .. k : xs[i] \in S
    BY LenProperties, ElementOfSeq
  <1>2. /\ before \in Seq(S) /\ Len(before) = k - 1
        /\ \A i \in 1 .. k - 1 : before[i] = xs[i]
    <2>1. \A i \in 1 .. k - 1 : xs[i] \in S
      BY <1>1
    <2>2. /\ before \in Seq(S)
          /\ Len(before) = IF 1 <= k - 1 THEN (k - 1) - 1 + 1 ELSE 0
          /\ \A i \in 1 .. (k - 1) - 1 + 1 : before[i] = xs[1 + i - 1]
      BY <1>1, <2>1, SubSeqProperties
    <2>3. (k - 1) - 1 + 1 = k - 1 /\ \A i \in 1 .. k - 1 : 1 + i - 1 = i
      BY <1>1
    <2>4. QED
      BY <1>1, <2>2, <2>3
  <1>3. t \in Seq(S) /\ Len(t) = k /\ \A i \in 1 .. k : t[i] = xs[i]
    <2>1. /\ t \in Seq(S) /\ Len(t) = IF 1 <= k THEN k - 1 + 1 ELSE 0
          /\ \A i \in 1 .. k - 1 + 1 : t[i] = xs[1 + i - 1]
      BY <1>1, SubSeqProperties
    <2>2. k - 1 + 1 = k /\ \A i \in 1 .. k : 1 + i - 1 = i
      BY <1>1
    <2>3. QED
      BY <1>1, <2>1, <2>2
  <1> HIDE DEF before, t
  <1>4. /\ s \in Seq(S) /\ Len(s) = k /\ s[k] = xs[k]
        /\ \A i \in 1 .. k - 1 : s[i] = xs[i]
    BY <1>1, <1>2, AppendProperties
  <1> HIDE DEF s
  <1>5. \A i \in 1 .. Len(s) : s[i] = t[i]
    <2> TAKE i \in 1 .. Len(s)
    <2>1. i \in 1 .. k /\ (i = k \/ i \in 1 .. k - 1)
      BY <1>1, <1>4
    <2>2. QED
      BY <1>3, <1>4, <2>1
  <1>6. s = t
    BY <1>3, <1>4, <1>5, SeqEqual
  <1>7. QED
    BY <1>6 DEF before, s, t

\* A section is parsed item by item.
LEMMA SectionIsParsed ==
  ASSUME NEW P, NEW p \in Nat, p # 0, NEW sure, NEW S, NEW fields \in Seq(Seq(S)),
         NEW X, NEW xs \in Seq(X), Len(fields) = Len(xs), NEW what, NEW cap,
         \A i \in 1 .. Len(xs), a \in Nat, b \in Nat :
           a # 0 /\ Goes(P, fields[i], a, b)
             => ItemTracks(ParseItem(P.cells, a, what), b, xs[i], sure),
         Alloc \/ cap \in Nat, sure => ExtendFits(Len(xs), cap),
         NEW q, Goes(P, FlattenSeq(fields), p, q),
         NEW t, t = Section(P.cells, p, Len(xs), cap, what)
  PROVE  Tracks(t, q, xs, sure)
  <1> DEFINE n == Len(xs)
  <1>1. n \in Nat /\ Len(fields) = n
    BY LenProperties
  <1>2. PICK pos \in [0 .. n -> Nat] :
          /\ pos[0] = p /\ pos[n] = q
          /\ \A i \in 1 .. n : Goes(P, fields[i], pos[i - 1], pos[i])
    <2>1. GoesEach(P, fields, p, q)
      BY GoesThrough
    <2> HIDE DEF n
    <2>2. QED
      BY <1>1, <2>1 DEF GoesEach
  <1>3. PICK taken :
          /\ t = taken[n] /\ taken[0] = At(p)
          /\ \A i \in 1 .. n :
               taken[i] = TakeItem(taken[i - 1], ParseItem(P.cells, taken[i - 1].at, what), i, cap)
    <2>1. t = Section(P.cells, p, n, cap, what)
      OBVIOUS
    <2> HIDE DEF n
    <2>2. QED
      <3>1. PICK taken : IsTaken(taken, t, P.cells, p, n, cap, what)
        BY <1>1, <2>1, SectionSteps
      <3>2. QED
        BY <3>1 DEF IsTaken
  <1> DEFINE first(k) == SubSeq(xs, 1, k)
             T == {k \in 0 .. n : Tracks(taken[k], pos[k], first(k), sure)}
  <1>4. 0 \in T
    <2>1. first(0) = <<>>
      BY SubSeqEmpty
    <2>2. Tracks(At(p), p, <<>>, sure)
      BY BeginningTracks
    <2> HIDE DEF first
    <2>3. Tracks(taken[0], pos[0], first(0), sure)
      BY <1>2, <1>3, <2>1, <2>2
    <2>4. QED
      BY <1>1, <2>3
  <1>5. ASSUME NEW k \in 1 .. n, k - 1 \in T
        PROVE  k \in T
    <2> DEFINE u == taken[k - 1]
               x == ParseItem(P.cells, u.at, what)
               y == taken[k]
               a == pos[k - 1]
               b == pos[k]
    <2>1. Tracks(u, a, first(k - 1), sure)
      BY <1>5
    <2>2. a \in Nat /\ b \in Nat /\ Goes(P, fields[k], a, b)
      <3>1. k \in 0 .. n /\ k - 1 \in 0 .. n
        BY <1>1
      <3>2. QED
        BY <1>2, <3>1
    <2>3. y = TakeItem(u, x, k, cap)
      BY <1>3
    <2>4. Append(first(k - 1), xs[k]) = first(k)
      BY PrefixGrows
    <2>5. sure => ExtendFits(k, cap)
      BY <1>1 DEF ExtendFits
    <2>6. a # 0 => ItemTracks(ParseItem(P.cells, a, what), b, xs[k], sure)
      BY <2>2
    <2>7. a = 0 => b = 0
      <3>1. fields[k] \in Seq(S)
        BY <1>1, ElementOfSeq
      <3>2. Len(fields[k]) \in Nat
        BY <3>1, LenProperties
      <3>3. QED
        BY <2>2, <3>2, LostStays
    <2>8. u.ok => a # 0 /\ u.at = a /\ u.got = first(k - 1)
      BY <2>1 DEF Tracks
    <2>9. a # 0 /\ sure => u.ok
      BY <2>1 DEF Tracks
    <2> HIDE DEF u, y, a, b, first, x
    <2>10. CASE ~ (u.ok /\ x.ok /\ ExtendFits(k, cap))
      <3>1. ~ y.ok
        BY <2>3, <2>10 DEF TakeItem, Refused
      <3>2. b # 0 => ~ sure
        <4>1. SUFFICES ASSUME b # 0, sure
                       PROVE  FALSE
          OBVIOUS
        <4>2. u.ok /\ ExtendFits(k, cap) /\ a # 0
          BY <2>5, <2>7, <2>9, <4>1
        <4>3. x = ParseItem(P.cells, a, what)
          BY <2>8, <4>2 DEF x
        <4>4. x.ok
          BY <2>6, <4>1, <4>2, <4>3 DEF ItemTracks
        <4>5. QED
          BY <2>10, <4>2, <4>4
      <3>3. Tracks(y, b, first(k), sure)
        BY <3>1, <3>2 DEF Tracks
      <3>4. QED
        BY <3>3 DEF y, b
    <2>11. CASE u.ok /\ x.ok /\ ExtendFits(k, cap)
      <3>1. y = [ok |-> TRUE, at |-> x.at, got |-> Append(u.got, x.item)]
        BY <2>3, <2>11 DEF TakeItem
      <3>2. x = ParseItem(P.cells, a, what) /\ a # 0
        BY <2>8, <2>11 DEF x
      <3>3. b # 0 /\ x.at = b /\ x.item = xs[k]
        BY <2>6, <2>11, <3>2 DEF ItemTracks
      <3>4. y.ok /\ y.at = b /\ y.got = first(k)
        <4>1. y.ok /\ y.at = x.at /\ y.got = Append(u.got, x.item)
          BY <3>1
        <4>2. QED
          BY Zenon, <2>4, <2>8, <2>11, <3>3, <4>1
      <3>5. Tracks(y, b, first(k), sure)
        BY <3>3, <3>4 DEF Tracks
      <3>6. QED
        BY <3>5 DEF y, b
    <2>12. QED
      BY <2>10, <2>11
  <1> HIDE DEF T
  <1>6. \A k \in 0 .. n : k \in T
    BY <1>1, <1>4, <1>5, CountUp
  <1>7. n \in T
    BY <1>1, <1>6
  <1>8. first(n) = xs
    BY SubSeqFull
  <1>9. QED
    BY <1>2, <1>3, <1>7, <1>8 DEF T

\* Fields and more fields, whatever they are.
LEMMA FieldsGoOn ==
  ASSUME NEW P, NEW s, NEW t, AreFields(s), AreFields(t), NEW p, NEW q, Goes(P, s \o t, p, q)
  PROVE  \E m \in Nat : Goes(P, s, p, m) /\ Goes(P, t, m, q)
  <1> DEFINE S == Range(s) \cup Range(t)
  <1>1. s \in Seq(S) /\ t \in Seq(S)
    BY SeqMonotonic DEF AreFields
  <1> HIDE DEF S
  <1>2. QED
    BY <1>1, GoesOn

\* Lists of fields are lists.
LEMMA ListsOfFields ==
  ASSUME NEW n \in Nat, NEW xs, xs = [i \in 1 .. n |-> xs[i]],
         \A i \in 1 .. n : AreFields(xs[i])
  PROVE  Len(xs) = n /\ \E S : xs \in Seq(Seq(S))
  <1> DEFINE T == UNION {Range(xs[i]) : i \in 1 .. n}
  <1>1. \A i \in 1 .. n : xs[i] \in Seq(T)
    <2> TAKE i \in 1 .. n
    <2>1. Range(xs[i]) \subseteq T /\ xs[i] \in Seq(Range(xs[i]))
      BY DEF AreFields
    <2> HIDE DEF T
    <2>2. QED
      BY <2>1, SeqMonotonic
  <1> HIDE DEF T
  <1>2. xs \in Seq(Seq(T))
    BY <1>1, IsASeq
  <1>3. DOMAIN xs = 1 .. n
    OBVIOUS
  <1>4. Len(xs) = n
    BY <1>2, <1>3, LenProperties
  <1>5. QED
    BY <1>2, <1>4

\* The questions of a message and, if it has them, its answers, as fields.
QueryFields(m)  == [i \in DOMAIN m.queries |-> QueryItems(m.queries[i], m.kind)]
AnswerFields(m) == [i \in DOMAIN m.answers |-> AnswerItems(m.answers[i])]

\* They are fields.
LEMMA QuestionsAreFields ==
  ASSUME NEW m \in Messages
  PROVE  /\ Len(m.queries) \in Nat /\ Len(QueryFields(m)) = Len(m.queries)
         /\ DOMAIN m.queries = 1 .. Len(m.queries)
         /\ \E S : QueryFields(m) \in Seq(Seq(S))
         /\ AreFields(FlattenSeq(QueryFields(m)))
  <1> DEFINE xs == QueryFields(m)
             n == Len(m.queries)
  <1>1. m.queries \in Seq(Range(m.queries)) /\ \A q \in Range(m.queries) : IsName(q.name)
    BY MessageParts DEF IsQuery
  <1>2. DOMAIN m.queries = 1 .. n /\ n \in Nat
    BY <1>1, LenProperties
  <1>3. xs = [i \in 1 .. n |-> xs[i]]
    BY <1>2 DEF QueryFields
  <1>4. \A i \in 1 .. n : AreFields(xs[i])
    <2> TAKE i \in 1 .. n
    <2>1. IsName(m.queries[i].name) /\ xs[i] = QueryItems(m.queries[i], m.kind)
      BY <1>1, <1>2 DEF Range, QueryFields
    <2> HIDE DEF xs
    <2>2. QED
      BY <2>1, QueryIsFields
  <1> HIDE DEF xs, n
  <1>5. Len(xs) = n /\ \E S : xs \in Seq(Seq(S))
    BY <1>2, <1>3, <1>4, ListsOfFields
  <1>6. AreFields(FlattenSeq(xs))
    BY <1>2, <1>3, <1>4, FlatFields
  <1>7. QED
    BY <1>2, <1>5, <1>6 DEF xs, n

\* So are the answers.
LEMMA AnswersAreFields ==
  ASSUME NEW m \in Messages, m.kind # "request"
  PROVE  /\ Len(m.answers) \in Nat /\ Len(AnswerFields(m)) = Len(m.answers)
         /\ DOMAIN m.answers = 1 .. Len(m.answers)
         /\ \E S : AnswerFields(m) \in Seq(Seq(S))
         /\ AreFields(FlattenSeq(AnswerFields(m)))
  <1> DEFINE xs == AnswerFields(m)
             n == Len(m.answers)
  <1>1. /\ m.answers \in Seq(Range(m.answers))
        /\ \A a \in Range(m.answers) :
             /\ IsName(a.name)
             /\ a.rec.type = "PTR" => IsName(a.rec.name)
             /\ a.rec.type = "SRV" => IsName(a.rec.target)
    BY MessageParts DEF IsAnswer, IsRecord
  <1>2. DOMAIN m.answers = 1 .. n /\ n \in Nat
    BY <1>1, LenProperties
  <1>3. xs = [i \in 1 .. n |-> xs[i]]
    BY <1>2 DEF AnswerFields
  <1>4. \A i \in 1 .. n : AreFields(xs[i])
    <2> TAKE i \in 1 .. n
    <2>1. m.answers[i] \in Range(m.answers) /\ xs[i] = AnswerItems(m.answers[i])
      BY <1>2 DEF Range, AnswerFields
    <2> HIDE DEF xs
    <2>2. QED
      BY <1>1, <2>1, AnswerIsFields
  <1> HIDE DEF xs, n
  <1>5. Len(xs) = n /\ \E S : xs \in Seq(Seq(S))
    BY <1>2, <1>3, <1>4, ListsOfFields
  <1>6. AreFields(FlattenSeq(xs))
    BY <1>2, <1>3, <1>4, FlatFields
  <1>7. QED
    BY <1>2, <1>5, <1>6 DEF xs, n

\* The four numbers that a message begins with.
HeaderFields(m) ==
  << [put |-> "number", v |-> m.id], [put |-> "number", v |-> m.kind],
     [put |-> "number", v |-> Len(m.queries)],
     [put |-> "number", v |-> IF m.kind = "request" THEN 0 ELSE Len(m.answers)] >>

\* A message is a header, questions and answers.
LEMMA ItemsInParts ==
  ASSUME NEW m
  PROVE  Items(m) = IF m.kind = "request"
                    THEN HeaderFields(m) \o FlattenSeq(QueryFields(m))
                    ELSE (HeaderFields(m) \o FlattenSeq(QueryFields(m)))
                           \o FlattenSeq(AnswerFields(m))
  <1> DEFINE a == [put |-> "number", v |-> m.id]
             b == [put |-> "number", v |-> m.kind]
             c == [put |-> "number", v |-> Len(m.queries)]
             count == IF m.kind = "request" THEN 0 ELSE Len(m.answers)
             d == [put |-> "number", v |-> count]
  <1>1. HeaderFields(m) = <<a, b, c, d>>
    BY DEF HeaderFields
  <1>2. /\ Number(m.id) = <<a>> /\ FlagItems(m.kind) = <<b>>
        /\ Number(Len(m.queries)) = <<c>> /\ Number(count) = <<d>>
    BY DEF Number, FlagItems
  <1>3. m.kind = "request" => count = 0
    OBVIOUS
  <1>4. m.kind # "request" => count = Len(m.answers)
    OBVIOUS
  <1> HIDE DEF a, b, c, d, count
  <1>5. ((<<a>> \o <<b>>) \o <<c>>) \o <<d>> = <<a, b, c, d>>
    <2>1. <<a>> \o <<b>> = <<a, b>>
      BY ShortLists
    <2>2. <<a, b>> \o <<c>> = <<a, b, c>>
      BY ShortLists
    <2>3. <<a, b, c>> \o <<d>> = <<a, b, c, d>>
      BY FourInAList
    <2>4. QED
      BY Zenon, <2>1, <2>2, <2>3
  <1>6. CASE m.kind = "request"
    <2>1. Items(m) = ((((Number(m.id) \o FlagItems(m.kind)) \o Number(Len(m.queries)))
                        \o Number(count)) \o FlattenSeq(QueryFields(m)))
      BY <1>3, <1>6 DEF Items, RequestItems, QueryFields
    <2>2. QED
      BY Zenon, <1>1, <1>2, <1>5, <1>6, <2>1
  <1>7. CASE m.kind # "request"
    <2>1. Items(m) = (((((Number(m.id) \o FlagItems(m.kind)) \o Number(Len(m.queries)))
                        \o Number(count)) \o FlattenSeq(QueryFields(m)))
                        \o FlattenSeq(AnswerFields(m)))
      BY <1>4, <1>7 DEF Items, ResponseItems, QueryFields, AnswerFields
    <2>2. QED
      BY Zenon, <1>1, <1>2, <1>5, <1>7, <2>1
  <1>8. QED
    BY <1>6, <1>7

\* The header is fields.
LEMMA HeaderIsFields ==
  ASSUME NEW m
  PROVE  AreFields(HeaderFields(m))
  <1> DEFINE s == HeaderFields(m)
             a == s[1]
             b == s[2]
             c == s[3]
             d == s[4]
  <1>1. s = <<a, b, c, d>> /\ Range(s) = {a, b, c, d}
    BY DEF HeaderFields, Range
  <1>2. a.put = "number" /\ b.put = "number" /\ c.put = "number" /\ d.put = "number"
    BY DEF HeaderFields
  <1> HIDE DEF s, a, b, c, d
  <1>3. s \in Seq(Range(s))
    BY <1>1
  <1>4. \A f \in Range(s) : FieldOK(f)
    BY <1>1, <1>2 DEF FieldOK
  <1>5. QED
    BY <1>3, <1>4 DEF AreFields, s

\* What is read of the header.
IsHeader(m, got) ==
  /\ got[1] = m.id /\ got[2] = m.kind /\ got[3] = Len(m.queries)
  /\ m.kind # "request" => got[4] = Len(m.answers)

\* The header is read.
LEMMA HeaderIsRead ==
  ASSUME NEW P, Readable(P), NEW sure, NEW m, NEW q, Goes(P, HeaderFields(m), 1, q),
         NEW t, t = Header(P.cells)
  PROVE  \E got : Tracks(t, q, got, sure) /\ IsHeader(m, got)
  <1> DEFINE s == HeaderFields(m)
             a == s[1]
             b == s[2]
             c == s[3]
             d == s[4]
             t0 == At(1)
             t1 == ReadNumber(P.cells, t0)
             t2 == ReadNumber(P.cells, t1)
             t3 == ReadNumber(P.cells, t2)
             none == <<>>
             g1 == Append(none, a.v)
             g2 == Append(g1, b.v)
             g3 == Append(g2, c.v)
             got == Append(g3, d.v)
  <1>1. /\ a.put = "number" /\ a.v = m.id /\ b.put = "number" /\ b.v = m.kind
        /\ c.put = "number" /\ c.v = Len(m.queries) /\ d.put = "number"
        /\ m.kind # "request" => d.v = Len(m.answers)
        /\ Len(s) = 4
    BY DEF HeaderFields
  <1> HIDE DEF s
  <1>2. PICK i \in Nat, j \in Nat, k \in Nat :
          Step(P, a, 1, i) /\ Step(P, b, i, j) /\ Step(P, c, j, k) /\ Step(P, d, k, q)
    <2>1. Goes(P, s, 1, q) /\ Len(s) \in Nat
      BY <1>1 DEF s
    <2>2. QED
      BY <1>1, <2>1, OneByOne
  <1>3. t = ReadNumber(P.cells, t3)
    BY DEF Header
  <1>4. Tracks(t0, 1, none, sure)
    BY BeginningTracks
  <1> HIDE DEF a, b, c, d, t0, none
  <1>5. Tracks(t1, i, g1, sure)
    <2>1. 1 \in Nat
      OBVIOUS
    <2>2. QED
      BY <1>1, <1>2, <1>4, <2>1, NumberIsRead
  <1>6. g1 = <<a.v>>
    BY ShortLists DEF none
  <1> HIDE DEF t1, g1
  <1>7. Tracks(t2, j, g2, sure)
    BY <1>1, <1>2, <1>5, NumberIsRead
  <1>8. g2 = <<a.v, b.v>>
    BY <1>6, ShortLists
  <1> HIDE DEF t2, g2
  <1>9. Tracks(t3, k, g3, sure)
    BY <1>1, <1>2, <1>7, NumberIsRead
  <1>10. g3 = <<a.v, b.v, c.v>>
    BY <1>8, ShortLists
  <1> HIDE DEF t3, g3
  <1>11. Tracks(t, q, got, sure)
    BY <1>1, <1>2, <1>3, <1>9, NumberIsRead
  <1>12. got = <<a.v, b.v, c.v, d.v>>
    BY <1>10, FourInAList
  <1> HIDE DEF got
  <1>13. QED
    BY <1>1, <1>11, <1>12 DEF IsHeader

\* What a packet was parsed to: the message that was written, or nothing.
MessageTracks(x, p, m, sure) ==
  /\ p = 0 => ~ x.ok
  /\ p # 0 /\ x.ok => x.msg = m
  /\ p # 0 /\ sure => x.ok

\* No name is longer than a label that do_parse can follow.
Shallow(m) == \A name \in NamesOf(m) : Len(name) <= Depth

\* The questions of a message are parsed.
LEMMA QuestionsAreParsed ==
  ASSUME NEW P, Readable(P), NEW m \in Messages, NEW sure,
         sure => Shallow(m) /\ ParseAccepts(m),
         NEW p \in Nat, p # 0, NEW q, Goes(P, FlattenSeq(QueryFields(m)), p, q),
         NEW t, t = Section(P.cells, p, Len(m.queries), QLEN, "query")
  PROVE  Tracks(t, q, m.queries, sure)
  <1> DEFINE fields == QueryFields(m)
             xs == m.queries
  <1>1. PICK S : fields \in Seq(Seq(S))
    BY QuestionsAreFields
  <1>2. Len(fields) = Len(xs) /\ xs \in Seq(Range(xs)) /\ DOMAIN xs = 1 .. Len(xs)
    BY QuestionsAreFields, MessageParts
  <1>3. ASSUME NEW i \in 1 .. Len(xs), NEW a \in Nat, NEW b \in Nat,
               a # 0, Goes(P, fields[i], a, b)
        PROVE  ItemTracks(ParseItem(P.cells, a, "query"), b, xs[i], sure)
    <2> DEFINE x == ParseItem(P.cells, a, "query")
    <2>1. IsQuery(xs[i]) /\ xs[i] \in Range(xs)
      BY <1>2, MessageParts DEF Range
    <2>2. Goes(P, QueryItems(xs[i], m.kind), a, b)
      BY <1>2, <1>3 DEF QueryFields
    <2>3. sure => Len(xs[i].name) <= Depth
      BY <2>1 DEF Shallow, NamesOf
    <2>4. x = ParseQuery(P.cells, a)
      BY DEF ParseItem
    <2> HIDE DEF x
    <2>5. ItemTracks(x, b, xs[i], sure)
      BY <1>3, <2>1, <2>2, <2>3, <2>4, QueryIsParsed
    <2>6. QED
      BY <2>5 DEF x
  <1>4. Alloc \/ QLEN \in Nat
    BY WireAssumption
  <1>5. sure => ExtendFits(Len(xs), QLEN)
    BY DEF ParseAccepts
  <1> HIDE DEF fields, xs
  <1>6. Goes(P, FlattenSeq(fields), p, q) /\ t = Section(P.cells, p, Len(xs), QLEN, "query")
    BY DEF fields, xs
  <1>7. Tracks(t, q, xs, sure)
    BY <1>1, <1>2, <1>3, <1>4, <1>5, <1>6, SectionIsParsed
  <1>8. QED
    BY <1>7 DEF xs

\* The answers of a message are parsed.
LEMMA AnswersAreParsed ==
  ASSUME NEW P, Readable(P), NEW m \in Messages, m.kind = "response", NEW sure,
         sure => Shallow(m) /\ ParseAccepts(m),
         NEW p \in Nat, p # 0, NEW q, Goes(P, FlattenSeq(AnswerFields(m)), p, q),
         NEW t, t = Section(P.cells, p, Len(m.answers), ALEN, "answer")
  PROVE  Tracks(t, q, m.answers, sure)
  <1> DEFINE fields == AnswerFields(m)
             xs == m.answers
  <1>1. PICK S : fields \in Seq(Seq(S))
    BY AnswersAreFields
  <1>2. /\ Len(fields) = Len(xs) /\ xs \in Seq(Range(xs)) /\ DOMAIN xs = 1 .. Len(xs)
        /\ \A a \in Range(xs) : IsAnswer(a)
    BY AnswersAreFields, MessageParts
  <1>3. ASSUME NEW i \in 1 .. Len(xs), NEW a \in Nat, NEW b \in Nat,
               a # 0, Goes(P, fields[i], a, b)
        PROVE  ItemTracks(ParseItem(P.cells, a, "answer"), b, xs[i], sure)
    <2> DEFINE x == ParseItem(P.cells, a, "answer")
    <2>1. IsAnswer(xs[i]) /\ xs[i] \in Range(xs)
      BY <1>2 DEF Range
    <2>2. Goes(P, AnswerItems(xs[i]), a, b)
      BY <1>2, <1>3 DEF AnswerFields
    <2>3. sure => AnswerFits(xs[i])
      <3>1. xs[i].name \in NamesOf(m)
        BY <2>1 DEF NamesOf
      <3>2. xs[i].rec.type = "PTR" => xs[i].rec.name \in NamesOf(m)
        BY <2>1 DEF NamesOf
      <3>3. xs[i].rec.type = "SRV" => xs[i].rec.target \in NamesOf(m)
        BY <2>1 DEF NamesOf
      <3>4. QED
        BY <3>1, <3>2, <3>3 DEF Shallow, AnswerFits, NamesFit
    <2>4. x = ParseAnswer(P.cells, a)
      BY DEF ParseItem
    <2> HIDE DEF x
    <2>5. ItemTracks(x, b, xs[i], sure)
      BY <1>3, <2>1, <2>2, <2>3, <2>4, AnswerIsParsed
    <2>6. QED
      BY <2>5 DEF x
  <1>4. Alloc \/ ALEN \in Nat
    BY WireAssumption
  <1>5. sure => ExtendFits(Len(xs), ALEN)
    BY DEF ParseAccepts
  <1> HIDE DEF fields, xs
  <1>6. Goes(P, FlattenSeq(fields), p, q) /\ t = Section(P.cells, p, Len(xs), ALEN, "answer")
    BY DEF fields, xs
  <1>7. Tracks(t, q, xs, sure)
    BY <1>1, <1>2, <1>3, <1>4, <1>5, <1>6, SectionIsParsed
  <1>8. QED
    BY <1>7 DEF xs

\* What a peer makes of the fields of a message.
LEMMA MessageIsParsed ==
  ASSUME NEW P, Readable(P), NEW m \in Messages, NEW sure,
         sure => Shallow(m) /\ ParseAccepts(m),
         NEW q, Goes(P, Items(m), 1, q), NEW x, x = ParseMessage(P.cells)
  PROVE  MessageTracks(x, q, m, sure)
  <1> DEFINE h == Header(P.cells)
             qs == Queries(P.cells, h)
             as == Answers(P.cells, h, qs)
             front == HeaderFields(m) \o FlattenSeq(QueryFields(m))
             rest == FlattenSeq(AnswerFields(m))
  <1>1. ~ Refused.ok
    BY DEF Refused
  <1>2. AreFields(HeaderFields(m)) /\ AreFields(FlattenSeq(QueryFields(m)))
    BY HeaderIsFields, QuestionsAreFields
  <1>3. AreFields(front)
    BY <1>2, JoinedFields
  <1> HIDE DEF front
  <1>4. PICK e \in Nat : /\ Goes(P, front, 1, e)
                         /\ m.kind = "request" => e = q
                         /\ m.kind # "request" => Goes(P, rest, e, q)
    <2>1. CASE m.kind = "request"
      <3>1. Items(m) = front
        BY <2>1, ItemsInParts DEF front
      <3>2. Goes(P, front, 1, q)
        BY <3>1
      <3>3. Len(front) \in Nat
        BY <1>3, LenProperties DEF AreFields
      <3>4. q \in Nat
        BY <3>2, <3>3, OneByOne
      <3>5. QED
        BY <2>1, <3>2, <3>4
    <2>2. CASE m.kind # "request"
      <3>1. Items(m) = front \o rest
        BY <2>2, ItemsInParts DEF front
      <3>2. AreFields(rest)
        BY <2>2, AnswersAreFields
      <3> HIDE DEF rest
      <3>3. \E e \in Nat : Goes(P, front, 1, e) /\ Goes(P, rest, e, q)
        <4>1. Goes(P, front \o rest, 1, q)
          BY <3>1
        <4>2. QED
          BY <1>3, <3>2, <4>1, FieldsGoOn
      <3>4. QED
        BY <2>2, <3>3
    <2>3. QED
      BY <2>1, <2>2
  <1>5. PICK d \in Nat : /\ Goes(P, HeaderFields(m), 1, d)
                         /\ Goes(P, FlattenSeq(QueryFields(m)), d, e)
    <2> DEFINE s == HeaderFields(m)
               t == FlattenSeq(QueryFields(m))
    <2>1. Goes(P, s \o t, 1, e) /\ AreFields(s) /\ AreFields(t)
      BY <1>2, <1>4 DEF front
    <2> HIDE DEF s, t
    <2>2. \E d \in Nat : Goes(P, s, 1, d) /\ Goes(P, t, d, e)
      BY <2>1, FieldsGoOn
    <2>3. QED
      BY <2>2 DEF s, t
  <1>6. PICK got : /\ Tracks(h, d, got, sure)
                   /\ got[1] = m.id /\ got[2] = m.kind /\ got[3] = Len(m.queries)
                   /\ m.kind # "request" => got[4] = Len(m.answers)
    <2>1. h = Header(P.cells) /\ Goes(P, HeaderFields(m), 1, d)
      BY <1>5
    <2> HIDE DEF h
    <2>2. \E got : Tracks(h, d, got, sure) /\ IsHeader(m, got)
      BY <2>1, HeaderIsRead
    <2>3. QED
      BY <2>2 DEF IsHeader
  <1>7. d = 0 => e = 0
    <2>1. Len(FlattenSeq(QueryFields(m))) \in Nat
      BY <1>2, LenProperties DEF AreFields
    <2>2. QED
      BY <1>5, <2>1, LostStays
  <1>8. m.kind # "request" => (e = 0 => q = 0)
    <2>1. SUFFICES ASSUME m.kind # "request", e = 0
                   PROVE  q = 0
      OBVIOUS
    <2>2. Len(rest) \in Nat
      BY <2>1, AnswersAreFields, LenProperties DEF AreFields
    <2>3. Goes(P, rest, 0, q)
      BY <1>4, <2>1
    <2> HIDE DEF rest
    <2>4. QED
      BY <2>2, <2>3, LostStays
  <1>9. e = 0 => q = 0
    BY <1>4, <1>8
  <1>10. x = ByFlags(P.cells, h)
    BY DEF ParseMessage
  <1>11. CASE ~ h.ok
    <2>1. ~ x.ok
      BY <1>1, <1>10, <1>11 DEF ByFlags
    <2>2. q # 0 => ~ sure
      BY <1>6, <1>7, <1>9, <1>11 DEF Tracks
    <2>3. QED
      BY <2>1, <2>2 DEF MessageTracks
  <1>12. CASE h.ok
    <2>1. d # 0 /\ h.at = d /\ h.got = got
      BY <1>6, <1>12 DEF Tracks
    <2>2. Tracks(qs, e, m.queries, sure)
      <3>1. qs = Section(P.cells, d, Len(m.queries), QLEN, "query")
        BY <1>6, <2>1 DEF Queries
      <3>2. sure => Shallow(m) /\ ParseAccepts(m)
        OBVIOUS
      <3> HIDE DEF qs
      <3>3. QED
        BY <1>5, <2>1, <3>1, <3>2, QuestionsAreParsed
    <2>3. CASE m.kind = "request"
      <3>1. m = Request(m.id, m.queries)
        BY <2>3, MessageParts
      <3>2. x = ToRequest(h, qs)
        BY <1>6, <1>10, <1>12, <2>1, <2>3 DEF ByFlags, ParseRequest
      <3>3. h.got[1] = m.id /\ e = q
        BY <1>4, <1>6, <2>1, <2>3
      <3> HIDE DEF qs, h
      <3>4. CASE ~ qs.ok
        <4>1. ~ x.ok
          BY <1>1, <3>2, <3>4 DEF ToRequest
        <4>2. QED
          BY <2>2, <3>3, <3>4, <4>1 DEF Tracks, MessageTracks
      <3>5. CASE qs.ok
        <4>1. q # 0 /\ qs.got = m.queries
          BY <2>2, <3>3, <3>5 DEF Tracks
        <4>2. x.ok /\ x.msg = Request(h.got[1], qs.got)
          BY <3>2, <3>5 DEF ToRequest
        <4>3. x.msg = m
          BY <3>1, <3>3, <4>1, <4>2
        <4>4. QED
          BY <4>1, <4>2, <4>3 DEF MessageTracks
      <3>6. QED
        BY <3>4, <3>5
    <2>4. CASE m.kind # "request"
      <3>1. m.kind = "response" /\ m = Response(m.id, m.queries, m.answers)
        BY <2>4, MessageParts
      <3>2. x = ToResponse(h, qs, as)
        BY <1>6, <1>10, <1>12, <2>1, <2>4 DEF ByFlags, ParseResponse
      <3>3. h.got[1] = m.id
        BY <1>6, <2>1
      <3>4. CASE ~ qs.ok
        <4>1. ~ x.ok
          BY <1>1, <3>2, <3>4 DEF ToResponse
        <4>2. q # 0 => ~ sure
          BY <1>9, <2>2, <3>4 DEF Tracks
        <4>3. QED
          BY <4>1, <4>2 DEF MessageTracks
      <3>5. CASE qs.ok
        <4>1. e # 0 /\ qs.at = e /\ qs.got = m.queries
          BY <2>2, <3>5 DEF Tracks
        <4>2. as = Section(P.cells, e, Len(m.answers), ALEN, "answer")
          BY <1>6, <2>1, <2>4, <4>1 DEF Answers
        <4> HIDE DEF as, qs, h
        <4>3. Tracks(as, q, m.answers, sure)
          <5>1. Goes(P, FlattenSeq(AnswerFields(m)), e, q)
            BY <1>4, <2>4
          <5>2. QED
            BY <3>1, <4>1, <4>2, <5>1, AnswersAreParsed
        <4>4. CASE ~ as.ok
          <5>1. ~ x.ok
            BY <1>1, <3>2, <4>4 DEF ToResponse
          <5>2. QED
            BY <4>3, <4>4, <5>1 DEF Tracks, MessageTracks
        <4>5. CASE as.ok
          <5>1. q # 0 /\ as.got = m.answers
            BY <4>3, <4>5 DEF Tracks
          <5>2. x.ok /\ x.msg = Response(h.got[1], qs.got, as.got)
            BY <3>2, <3>5, <4>5 DEF ToResponse
          <5>3. x.msg = m
            BY <3>1, <3>3, <4>1, <5>1, <5>2
          <5>4. QED
            BY <5>1, <5>2, <5>3 DEF MessageTracks
        <4>6. QED
          BY <4>4, <4>5
      <3>6. QED
        BY <3>4, <3>5
    <2>5. QED
      BY <2>3, <2>4
  <1>13. QED
    BY <1>11, <1>12

-----------------------------------------------------------------------------
(* What is written of a name                                               *)

\* What x has written since v is lengths and texts of segments.
OnlySegments(v, x) ==
  \A i \in Len(v.cells) + 1 .. Len(x.cells) : x.cells[i].k \in {"len", "text"}

\* All of new is behind what v had written.
Has(v, new, x) ==
  /\ ~ v.overflow /\ Len(x.cells) = Len(v.cells) + Len(new)
  /\ \A i \in 1 .. Len(v.cells) : x.cells[i] = v.cells[i]
  /\ \A j \in 1 .. Len(new) : x.cells[Len(v.cells) + j] = new[j]

\* What is written at once is there, or the overflow shows.
LEMMA WriteDoes ==
  ASSUME NEW v \in Writers, NEW new \in Seq(Cells), NEW x, x = Write(v, new)
  PROVE  /\ x \in Writers /\ x.lookup = v.lookup
         /\ v.overflow => x = v
         /\ x.overflow => x.cells = v.cells
         /\ ~ x.overflow => Has(v, new, x)
  <1>1. /\ v.cells \in Seq(Cells) /\ v.lookup \in Seq(Entries)
        /\ v.room \in Nat /\ v.lk \in Nat /\ v.overflow \in BOOLEAN
        /\ Len(v.cells) \in Nat /\ Len(new) \in Nat
    BY LenProperties DEF Writers
  <1>2. CASE v.overflow
    <2>1. x = v
      BY <1>2 DEF Write
    <2>2. QED
      BY <1>2, <2>1
  <1>3. CASE ~ v.overflow /\ ~ Fits(v, new)
    <2>1. x = [v EXCEPT !.overflow = TRUE]
      BY <1>3 DEF Write
    <2>2. x \in Writers /\ x.overflow = TRUE /\ x.cells = v.cells /\ x.lookup = v.lookup
      BY <1>1, <2>1 DEF Writers
    <2>3. QED
      BY <1>3, <2>2
  <1>4. CASE ~ v.overflow /\ Fits(v, new)
    <2> DEFINE both == v.cells \o new
    <2>1. x = [v EXCEPT !.cells = both]
      BY <1>4 DEF Write
    <2>2. /\ both \in Seq(Cells) /\ Len(both) = Len(v.cells) + Len(new)
          /\ \A i \in 1 .. Len(v.cells) : both[i] = v.cells[i]
          /\ \A j \in 1 .. Len(new) : both[Len(v.cells) + j] = new[j]
      BY <1>1, ConcatProperties
    <2> HIDE DEF both
    <2>3. x \in Writers /\ x.overflow = FALSE /\ x.cells = both /\ x.lookup = v.lookup
      BY <1>1, <1>4, <2>1, <2>2 DEF Writers
    <2>4. Has(v, new, x)
      BY <1>4, <2>2, <2>3 DEF Has
    <2>5. QED
      BY <1>4, <2>3, <2>4
  <1>5. QED
    BY <1>2, <1>3, <1>4

\* A segment has been written, and at most an entry that leads to it was
\* recorded.
OnePut(v, x, rest) ==
  /\ OnlySegments(v, x)
  /\ Range(x.lookup) \subseteq Range(v.lookup) \cup {[name |-> rest, at |-> Len(v.cells) + 1]}
  /\ ~ x.overflow =>
       /\ Len(x.cells) = Len(v.cells) + 2
       /\ x.cells[Len(v.cells) + 1] = LenByte
       /\ x.cells[Len(v.cells) + 2] = Text(Head(rest))

\* An entry is recorded, if there is room, and leads to the segment that is
\* written then.
LEMMA SegmentIsPut ==
  ASSUME NEW v, Good(v), NEW rest \in Seq(STRING), Head(rest) \in STRING,
         NEW x, x = PutSegment(v, rest)
  PROVE  OnePut(v, x, rest)
  <1> DEFINE entry == [name |-> rest, at |-> Len(v.cells) + 1]
             table == VecPush(v.lookup, entry, v.lk)
             p     == PushLabel(v, rest)
             a     == Write(p, <<LenByte>>)
             len   == <<LenByte>>
             text  == <<Text(Head(rest))>>
  <1>1. /\ v \in Writers /\ v.cells \in Seq(Cells) /\ v.lookup \in Seq(Entries)
        /\ v.room \in Nat /\ v.lk \in Nat /\ v.overflow \in BOOLEAN
        /\ Len(v.cells) \in Nat
    BY LenProperties DEF Good, Writers
  <1>2. entry \in Entries
    BY <1>1 DEF Entries
  <1>3. table \in Seq(Entries) /\ Range(table) \subseteq Range(v.lookup) \cup {entry}
    <2>1. CASE HasRoom(v.lookup, v.lk)
      <3>1. table = Append(v.lookup, entry)
        BY <2>1 DEF VecPush
      <3> HIDE DEF entry, table
      <3>2. Append(v.lookup, entry) \in Seq(Entries)
        BY <1>1, <1>2, AppendProperties
      <3>3. Range(Append(v.lookup, entry)) = Range(v.lookup) \cup {entry}
        BY <1>1, <1>2, RangeAppend
      <3>4. QED
        BY <3>1, <3>2, <3>3
    <2>2. CASE ~ HasRoom(v.lookup, v.lk)
      BY <1>1, <2>2 DEF VecPush
    <2>3. QED
      BY <2>1, <2>2
  <1>4. p \in Writers /\ p.lookup = table /\ p.cells = v.cells /\ p.overflow = v.overflow
    <2>1. p = [v EXCEPT !.lookup = table]
      BY DEF PushLabel, entry
    <2> HIDE DEF p, table
    <2>2. QED
      BY <1>1, <1>3, <2>1 DEF Writers
  <1>5. /\ len \in Seq(Cells) /\ Len(len) = 1 /\ len[1] = LenByte
        /\ text \in Seq(Cells) /\ Len(text) = 1 /\ text[1] = Text(Head(rest))
    BY DEF Cells, Text
  <1>6. x = Write(a, text) /\ a = Write(p, len)
    BY DEF PutSegment
  <1>7. LenByte.k = "len" /\ Text(Head(rest)).k = "text"
    BY DEF LenByte, Text
  <1> HIDE DEF entry, table, p, a, len, text
  <1>8. /\ a \in Writers /\ a.lookup = table
        /\ a.overflow => a.cells = v.cells
        /\ ~ a.overflow => /\ Len(a.cells) = Len(v.cells) + 1
                           /\ a.cells[Len(v.cells) + 1] = LenByte
    <2>1. /\ a \in Writers /\ a.lookup = p.lookup
          /\ a.overflow => a.cells = p.cells
          /\ ~ a.overflow => Has(p, len, a)
      BY <1>4, <1>5, <1>6, WriteDoes
    <2>2. 1 \in 1 .. Len(len)
      BY <1>5
    <2>3. QED
      BY <1>4, <1>5, <2>1, <2>2 DEF Has
  <1>9. /\ x \in Writers /\ x.lookup = table
        /\ x.overflow => x.cells = a.cells
        /\ a.overflow => x = a
        /\ ~ x.overflow => /\ ~ a.overflow /\ Len(x.cells) = Len(a.cells) + 1
                           /\ x.cells[Len(a.cells) + 1] = Text(Head(rest))
                           /\ \A i \in 1 .. Len(a.cells) : x.cells[i] = a.cells[i]
    <2>1. /\ x \in Writers /\ x.lookup = a.lookup
          /\ x.overflow => x.cells = a.cells
          /\ a.overflow => x = a
          /\ ~ x.overflow => Has(a, text, x)
      BY <1>5, <1>6, <1>8, WriteDoes
    <2>2. 1 \in 1 .. Len(text)
      BY <1>5
    <2>3. QED
      BY <1>5, <1>8, <2>1, <2>2 DEF Has
  <1>10. ~ x.overflow =>
           /\ Len(x.cells) = Len(v.cells) + 2
           /\ x.cells[Len(v.cells) + 1] = LenByte
           /\ x.cells[Len(v.cells) + 2] = Text(Head(rest))
    <2>1. SUFFICES ASSUME ~ x.overflow
                   PROVE  /\ Len(x.cells) = Len(v.cells) + 2
                          /\ x.cells[Len(v.cells) + 1] = LenByte
                          /\ x.cells[Len(v.cells) + 2] = Text(Head(rest))
      OBVIOUS
    <2>2. Len(a.cells) = Len(v.cells) + 1 /\ Len(v.cells) + 1 \in 1 .. Len(a.cells)
      BY <1>1, <1>8, <1>9, <2>1
    <2>3. Len(a.cells) + 1 = Len(v.cells) + 2
      BY <1>1, <2>2
    <2>4. QED
      BY <1>8, <1>9, <2>1, <2>2, <2>3
  <1>11. OnlySegments(v, x)
    <2>1. CASE ~ x.overflow
      <3>1. \A i \in Len(v.cells) + 1 .. Len(v.cells) + 2 :
              i = Len(v.cells) + 1 \/ i = Len(v.cells) + 2
        <4> DEFINE l == Len(v.cells)
        <4>1. l \in Nat
          BY <1>1
        <4> HIDE DEF l
        <4>2. \A i \in l + 1 .. l + 2 : i = l + 1 \/ i = l + 2
          BY <4>1
        <4>3. QED
          BY <4>2 DEF l
      <3>2. QED
        BY <1>7, <1>10, <2>1, <3>1 DEF OnlySegments
    <2>2. CASE x.overflow /\ ~ a.overflow
      <3>1. \A i \in Len(v.cells) + 1 .. Len(v.cells) + 1 : i = Len(v.cells) + 1
        BY <1>1
      <3>2. QED
        BY <1>7, <1>8, <1>9, <2>2, <3>1 DEF OnlySegments
    <2>3. CASE a.overflow
      <3>1. x.cells = v.cells
        BY <1>8, <1>9, <2>3
      <3>2. QED
        BY <1>1, <3>1 DEF OnlySegments
    <2>4. QED
      BY <2>1, <2>2, <2>3
  <1>12. QED
    BY <1>3, <1>9, <1>10, <1>11 DEF OnePut, entry

\* The entries that segments of a part, written from p on, are recorded as.
Recorded(part, p, n) == {[name |-> Rest(part, j), at |-> p + 2 * j - 2] : j \in 1 .. n}

\* The first n segments of a part have been written since v.
RunPut(v, x, part, n) ==
  /\ OnlySegments(v, x)
  /\ ~ x.overflow =>
       /\ Range(x.lookup) \subseteq Range(v.lookup) \cup Recorded(part, Len(v.cells) + 1, n)
       /\ Len(x.cells) = Len(v.cells) + 2 * n
       /\ IsRun(x.cells, part, Len(v.cells) + 1, n)

\* They are written one after the other.
LEMMA RunsArePut ==
  ASSUME NEW v, Good(v), ~ v.overflow, NEW part \in Seq(STRING), NEW n \in 0 .. Len(part),
         NEW g \in [0 .. n -> KeptBy(v)], g[0] = v,
         \A k \in 1 .. n : Grows(g[k - 1], g[k]) /\ OnePut(g[k - 1], g[k], Rest(part, k))
  PROVE  RunPut(v, g[n], part, n)
  <1> DEFINE L == Len(v.cells)
  <1>2. /\ Len(part) \in Nat /\ n \in Nat /\ L \in Nat /\ DOMAIN part = 1 .. Len(part)
        /\ v.overflow = FALSE
    BY LenProperties DEF Good, Writers
  <1> DEFINE T == {k \in 0 .. n : RunPut(v, g[k], part, k)}
  <1>3. 0 \in T
    <2>1. RunPut(v, v, part, 0)
      <3>1. OnlySegments(v, v)
        BY <1>2 DEF OnlySegments
      <3>2. Len(v.cells) = Len(v.cells) + 2 * 0
        BY <1>2
      <3>3. IsRun(v.cells, part, Len(v.cells) + 1, 0)
        BY DEF IsRun
      <3>4. QED
        BY <3>1, <3>2, <3>3 DEF RunPut
    <2>2. QED
      BY <1>2, <2>1
  <1>4. ASSUME NEW k \in 1 .. n, k - 1 \in T
        PROVE  k \in T
    <2> DEFINE u == g[k - 1]
               y == g[k]
               rest == Rest(part, k)
               K == Len(u.cells)
               entry == [name |-> rest, at |-> K + 1]
    <2>1. /\ k - 1 \in 0 .. n /\ k \in 0 .. n /\ k \in DOMAIN part /\ k \in Nat
          /\ RunPut(v, u, part, k - 1)
      BY <1>2, <1>4
    <2>2. rest \in Seq(STRING) /\ Head(rest) \in STRING /\ Head(rest) = part[k]
      <3>1. rest \in Seq(STRING) /\ Head(rest) \in STRING
        BY <2>1, RestIsPart
      <3>2. Len(rest) = Len(part) + 1 - k /\ rest[1] = part[k + 1 - 1]
        <4>1. k \in 1 .. Len(part) + 1 /\ 1 \in 1 .. Len(part) + 1 - k
          BY <1>2, <2>1
        <4>2. /\ Len(rest) = Len(part) + 1 - k
              /\ \A i \in 1 .. Len(part) + 1 - k : rest[i] = part[k + i - 1]
          BY <4>1, SuffixOf DEF Rest
        <4>3. QED
          BY <4>1, <4>2
      <3>3. k + 1 - 1 = k
        BY <2>1
      <3>4. QED
        BY <3>1, <3>2, <3>3
    <2>3. Good(u) /\ Good(y) /\ Grows(v, u) /\ u \in Writers /\ y \in Writers
      BY <2>1 DEF KeptBy
    <2>4. Grows(u, y) /\ OnePut(u, y, rest)
      BY DEF u, y, rest
    <2> HIDE DEF u, y, rest
    <2>5. /\ OnlySegments(u, y)
          /\ ~ y.overflow => /\ Len(y.cells) = K + 2
                             /\ y.cells[K + 1] = LenByte
                             /\ y.cells[K + 2] = Text(Head(rest))
      BY <2>4 DEF OnePut
    <2>6. Range(y.lookup) \subseteq Range(u.lookup) \cup {entry}
      BY <2>4 DEF OnePut
    <2>7. K \in Nat /\ Len(y.cells) \in Nat /\ DOMAIN u.cells = 1 .. K /\ L <= K /\ K <= Len(y.cells)
          /\ \A i \in 1 .. K : y.cells[i] = u.cells[i]
      <3>1. u.cells \in Seq(Cells) /\ y.cells \in Seq(Cells)
        BY <2>3 DEF Writers
      <3>2. DOMAIN u.cells = 1 .. K /\ K \in Nat /\ Len(y.cells) \in Nat
        BY <3>1, LenProperties
      <3>3. QED
        BY <2>3, <2>4, <3>2 DEF Grows
    <2>8. y.overflow = FALSE => u.overflow = FALSE
      BY <2>3, <2>4 DEF Grows, Writers
    <2>9. OnlySegments(v, y)
      <3>1. SUFFICES ASSUME NEW i \in L + 1 .. Len(y.cells)
                     PROVE  y.cells[i].k \in {"len", "text"}
        BY DEF OnlySegments
      <3>2. CASE i <= K
        <4>1. i \in L + 1 .. K /\ i \in 1 .. K
          BY <1>2, <2>7, <3>1, <3>2
        <4>2. u.cells[i].k \in {"len", "text"}
          BY <2>1, <4>1 DEF RunPut, OnlySegments, u
        <4>3. QED
          BY <2>7, <4>1, <4>2
      <3>3. CASE ~ (i <= K)
        <4>1. i \in K + 1 .. Len(y.cells)
          BY <1>2, <2>7, <3>1, <3>3
        <4>2. QED
          BY <2>5, <4>1 DEF OnlySegments
      <3>4. QED
        BY <3>2, <3>3
    <2>10. ~ y.overflow => K = L + 2 * (k - 1) /\ IsRun(u.cells, part, L + 1, k - 1)
      BY <2>1, <2>3, <2>8 DEF RunPut, Writers, u
    <2>11. ~ y.overflow => Len(y.cells) = L + 2 * k
      <3>1. K = L + 2 * (k - 1) => K + 2 = L + 2 * k
        <4>1. \A a, b, i \in Nat : a = b + 2 * (i - 1) => a + 2 = b + 2 * i
          OBVIOUS
        <4> HIDE DEF L, K
        <4>2. QED
          BY <1>2, <2>1, <2>7, <4>1
      <3> HIDE DEF L, K
      <3>2. QED
        BY <2>5, <2>10, <3>1
    <2>12. ~ y.overflow => IsRun(y.cells, part, L + 1, k)
      <3>1. SUFFICES ASSUME ~ y.overflow, NEW i \in 1 .. k
                     PROVE  /\ y.cells[L + 1 + 2 * i - 2] = LenByte
                            /\ y.cells[L + 1 + 2 * i - 1] = Text(part[i])
        BY DEF IsRun
      <3>2. CASE i = k
        <4>1. L + 1 + 2 * i - 2 = K + 1 /\ L + 1 + 2 * i - 1 = K + 2
          <5>1. \A a, b, j \in Nat :
                  a = b + 2 * (j - 1) => b + 1 + 2 * j - 2 = a + 1 /\ b + 1 + 2 * j - 1 = a + 2
            OBVIOUS
          <5> HIDE DEF L, K
          <5>2. QED
            BY <1>2, <2>1, <2>7, <2>10, <3>1, <3>2, <5>1
        <4>2. y.cells[K + 1] = LenByte /\ y.cells[K + 2] = Text(part[k])
          BY <2>2, <2>5, <3>1
        <4>3. QED
          BY <3>2, <4>1, <4>2
      <3>3. CASE i # k
        <4>1. /\ i \in 1 .. k - 1 /\ L + 1 + 2 * i - 2 \in 1 .. K
              /\ L + 1 + 2 * i - 1 \in 1 .. K
          <5>1. \A a, b, j \in Nat : \A x \in 1 .. j :
                  a = b + 2 * (j - 1) /\ x # j =>
                    x \in 1 .. j - 1 /\ b + 1 + 2 * x - 2 \in 1 .. a /\ b + 1 + 2 * x - 1 \in 1 .. a
            OBVIOUS
          <5> HIDE DEF L, K
          <5>2. QED
            BY <1>2, <2>1, <2>7, <2>10, <3>1, <3>3, <5>1
        <4>2. u.cells[L + 1 + 2 * i - 2] = LenByte /\ u.cells[L + 1 + 2 * i - 1] = Text(part[i])
          BY <2>10, <3>1, <4>1 DEF IsRun
        <4>3. QED
          BY <2>7, <4>1, <4>2
      <3>4. QED
        BY <3>2, <3>3
    <2>13. ~ y.overflow => K + 1 = L + 1 + 2 * k - 2
      <3>1. \A a, b, i \in Nat : a = b + 2 * (i - 1) => a + 1 = b + 1 + 2 * i - 2
        OBVIOUS
      <3> HIDE DEF L, K
      <3>2. QED
        BY <1>2, <2>1, <2>7, <2>10, <3>1
    <2>14. ~ y.overflow => Range(y.lookup) \subseteq Range(v.lookup) \cup Recorded(part, L + 1, k)
      <3>1. SUFFICES ASSUME ~ y.overflow, NEW e \in Range(y.lookup), e \notin Range(v.lookup)
                     PROVE  e \in Recorded(part, L + 1, k)
        OBVIOUS
      <3>2. CASE e = entry
        <4>1. k \in 1 .. k
          BY <2>1
        <4>2. QED
          BY <2>13, <3>1, <3>2, <4>1 DEF Recorded, rest
      <3>3. CASE e # entry
        <4>1. e \in Recorded(part, L + 1, k - 1)
          BY <2>1, <2>3, <2>6, <2>8, <3>1, <3>3 DEF RunPut, Writers, u
        <4>2. PICK j \in 1 .. k - 1 : e = [name |-> Rest(part, j), at |-> L + 1 + 2 * j - 2]
          BY <4>1 DEF Recorded
        <4>3. j \in 1 .. k
          BY <2>1
        <4>4. QED
          BY <4>2, <4>3 DEF Recorded
      <3>4. QED
        BY <3>2, <3>3
    <2>15. RunPut(v, y, part, k)
      BY <2>9, <2>11, <2>12, <2>14 DEF RunPut
    <2>16. QED
      BY <2>1, <2>15 DEF y
  <1> HIDE DEF T
  <1>5. \A k \in 0 .. n : k \in T
    BY <1>2, <1>3, <1>4, CountUp
  <1>6. QED
    BY <1>2, <1>5 DEF T

\* The first n segments of a part are put.
LEMMA SegmentsArePut ==
  ASSUME NEW v, Good(v), ~ v.overflow, NEW part \in Seq(STRING), NEW n \in 0 .. Len(part)
  PROVE  \E x \in KeptBy(v) : x = PutSegments(v, part, n) /\ RunPut(v, x, part, n)
  <1>1. PICK g \in [0 .. n -> KeptBy(v)] :
          /\ PutSegments(v, part, n) = g[n] /\ g[0] = v
          /\ \A k \in 1 .. n : g[k] = PutSegment(g[k - 1], Rest(part, k))
    BY PutSegmentsSteps
  <1>2. /\ Len(part) \in Nat /\ n \in Nat /\ DOMAIN part = 1 .. Len(part)
    BY LenProperties
  <1>3. ASSUME NEW k \in 1 .. n
        PROVE  Grows(g[k - 1], g[k]) /\ OnePut(g[k - 1], g[k], Rest(part, k))
    <2> DEFINE u == g[k - 1]
               y == g[k]
               rest == Rest(part, k)
    <2>1. k \in DOMAIN part /\ k - 1 \in 0 .. n
      BY <1>2
    <2>2. rest \in Seq(STRING) /\ Head(rest) \in STRING
      BY <2>1, RestIsPart
    <2>3. Good(u) /\ y = PutSegment(u, rest)
      BY <1>1, <2>1 DEF KeptBy
    <2> HIDE DEF u, y, rest
    <2>4. Grows(u, y)
      BY <2>2, <2>3, PutSegmentKeeps
    <2>5. OnePut(u, y, rest)
      BY <2>2, <2>3, SegmentIsPut
    <2>6. QED
      BY <2>4, <2>5 DEF u, y, rest
  <1>4. RunPut(v, g[n], part, n)
    BY <1>1, <1>3, RunsArePut
  <1>5. n \in 0 .. n
    BY <1>2
  <1>6. QED
    BY <1>1, <1>4, <1>5

\* So are the segments of a label that came from a packet.
LEMMA CopyIsPut ==
  ASSUME NEW v, Good(v), ~ v.overflow, NEW part \in Seq(STRING)
  PROVE  \E u \in KeptBy(v) :
           SerializeRun(v, part) = Write(u, <<End>>) /\ RunPut(v, u, part, Len(part))
  <1> DEFINE n == Len(part)
  <1>1. PICK g \in [0 .. n -> KeptBy(v)] :
          /\ SerializeRun(v, part) = Write(g[n], <<End>>) /\ g[0] = v
          /\ \A k \in 1 .. n : g[k] = Write(g[k - 1], <<LenByte, Text(part[k])>>)
    BY SerializeRunSteps
  <1>2. n \in Nat /\ DOMAIN part = 1 .. n
    BY LenProperties
  <1>3. ASSUME NEW k \in 1 .. n
        PROVE  Grows(g[k - 1], g[k]) /\ OnePut(g[k - 1], g[k], Rest(part, k))
    <2> DEFINE u == g[k - 1]
               y == g[k]
               rest == Rest(part, k)
               s == part[k]
               new == <<LenByte, Text(s)>>
    <2>1. k \in 1 .. Len(part) + 1 /\ 1 \in 1 .. Len(part) + 1 - k /\ k - 1 \in 0 .. n
      BY <1>2
    <2>2. Head(rest) = s /\ s \in STRING
      <3>1. /\ Len(rest) = Len(part) + 1 - k
            /\ \A i \in 1 .. Len(part) + 1 - k : rest[i] = part[k + i - 1]
        BY <2>1, SuffixOf DEF Rest
      <3>2. k + 1 - 1 = k
        BY <1>2
      <3>3. rest[1] = part[k]
        BY <2>1, <3>1, <3>2
      <3>4. s \in STRING
        BY ElementOfSeq
      <3>5. QED
        BY <3>3, <3>4
    <2>3. Good(u) /\ y = Write(u, new)
      BY <1>1, <2>1 DEF KeptBy
    <2>4. /\ new \in Seq(Cells) /\ Len(new) = 2 /\ new[1] = LenByte /\ new[2] = Text(s)
          /\ DOMAIN new = {1, 2}
      BY <2>2 DEF Cells, Text
    <2>5. LenByte.k = "len" /\ Text(s).k = "text"
      BY DEF LenByte, Text
    <2> HIDE DEF u, y, rest, s, new
    <2>6. Grows(u, y)
      <3>1. \A j \in DOMAIN new : new[j].k # "ptr"
        BY <2>4, <2>5
      <3>2. QED
        BY <2>3, <2>4, <3>1, WriteKeeps
    <2>7. u \in Writers /\ Len(u.cells) \in Nat
      BY <2>3, LenProperties DEF Good, Writers
    <2>8. /\ y.lookup = u.lookup
          /\ y.overflow => y.cells = u.cells
          /\ ~ y.overflow => Has(u, new, y)
      BY <2>3, <2>4, <2>7, WriteDoes
    <2>9. ~ y.overflow =>
            /\ Len(y.cells) = Len(u.cells) + 2
            /\ y.cells[Len(u.cells) + 1] = LenByte
            /\ y.cells[Len(u.cells) + 2] = Text(s)
      <3>1. 1 \in 1 .. Len(new) /\ 2 \in 1 .. Len(new)
        BY <2>4
      <3>2. QED
        BY <2>4, <2>8, <3>1 DEF Has
    <2>10. OnlySegments(u, y)
      <3>1. CASE y.overflow
        <4>1. y.cells = u.cells
          BY <2>8, <3>1
        <4>2. QED
          BY <2>7, <4>1 DEF OnlySegments
      <3>2. CASE ~ y.overflow
        <4>1. \A i \in Len(u.cells) + 1 .. Len(u.cells) + 2 :
                i = Len(u.cells) + 1 \/ i = Len(u.cells) + 2
          BY <2>7
        <4>2. QED
          BY <2>5, <2>9, <3>2, <4>1 DEF OnlySegments
      <3>3. QED
        BY <3>1, <3>2
    <2>11. OnePut(u, y, rest)
      BY <2>2, <2>8, <2>9, <2>10 DEF OnePut
    <2>12. QED
      BY <2>6, <2>11 DEF u, y, rest
  <1>4. RunPut(v, g[n], part, n)
    <2>1. n \in 0 .. Len(part)
      BY <1>2
    <2> HIDE DEF n
    <2>2. QED
      BY <1>1, <1>3, <2>1, RunsArePut
  <1>5. n \in 0 .. n
    BY <1>2
  <1>6. QED
    BY <1>1, <1>4, <1>5

-----------------------------------------------------------------------------
(* What was spelled stays spelled                                          *)

\* d has all of c, but for places that were reserved and are filled now.
Improves(c, d) ==
  /\ Len(c) \in Nat /\ Len(d) \in Nat /\ Len(c) <= Len(d)
  /\ \A i \in 1 .. Len(c) : d[i] = c[i] \/ (c[i] = Hole /\ d[i] = Num("length"))

\* A place that is not reserved keeps what it has.
LEMMA OthersStay ==
  ASSUME NEW c, NEW d, Improves(c, d), NEW i \in 1 .. Len(c), c[i] # Hole
  PROVE  d[i] = c[i]
  BY DEF Improves

\* What a writer becomes by writing is an improvement.
LEMMA GrowingImproves ==
  ASSUME NEW v \in Writers, NEW x \in Writers, Grows(v, x)
  PROVE  Improves(v.cells, x.cells)
  <1>1. /\ DOMAIN v.cells = 1 .. Len(v.cells) /\ Len(v.cells) \in Nat /\ Len(x.cells) \in Nat
    BY LenProperties DEF Writers
  <1>2. QED
    BY <1>1 DEF Grows, Improves

\* A name that is spelled stays so when more is written and recorded.
LEMMA SpelledStays ==
  ASSUME NEW c, NEW d, Improves(c, d), NEW tab, NEW tab2, tab \subseteq tab2,
         NEW name \in Seq(STRING), NEW p, NEW q, NEW n, Spelled(c, tab, name, p, q, n)
  PROVE  Spelled(d, tab2, name, p, q, n)
  <1>1. /\ Len(c) \in Nat /\ Len(d) \in Nat /\ Len(c) <= Len(d) /\ Len(name) \in Nat
        /\ p \in Nat /\ p > 0 /\ n \in 0 .. Len(name) /\ n \in Nat
        /\ q = p + 2 * n + 1 /\ q <= Len(c) + 1
    BY LenProperties DEF Improves, Spelled
  <1>2. ASSUME NEW i \in 1 .. n
        PROVE  d[p + 2 * i - 2] = LenByte /\ d[p + 2 * i - 1] = Text(name[i])
    <2>1. p + 2 * i - 2 \in 1 .. Len(c) /\ p + 2 * i - 1 \in 1 .. Len(c)
      <3>1. \A a, b, j, k \in Nat : j \in 1 .. k /\ a > 0 /\ a + 2 * k + 1 <= b + 1
              => a + 2 * j - 2 \in 1 .. b /\ a + 2 * j - 1 \in 1 .. b
        OBVIOUS
      <3>2. QED
        BY <1>1, <3>1
    <2>2. c[p + 2 * i - 2] = LenByte /\ c[p + 2 * i - 1] = Text(name[i])
      BY DEF Spelled, IsRun
    <2>3. LenByte # Hole /\ Text(name[i]) # Hole
      BY DEF LenByte, Text, Hole
    <2>4. QED
      BY <2>1, <2>2, <2>3, OthersStay
  <1>3. IsRun(d, name, p, n)
    BY <1>2 DEF IsRun
  <1>4. q - 1 \in 1 .. Len(c)
    BY <1>1
  <1>5. n = Len(name) => d[q - 1] = End
    <2>1. End # Hole
      BY DEF End, Hole
    <2>2. n = Len(name) => c[q - 1] = End
      BY DEF Spelled
    <2>3. QED
      BY <1>4, <2>1, <2>2, OthersStay
  <1>6. n # Len(name) => \E e \in tab2 : e.name = Rest(name, n + 1) /\ d[q - 1] = Ptr(e.at)
    <2>1. SUFFICES ASSUME n # Len(name)
                   PROVE  \E e \in tab2 : e.name = Rest(name, n + 1) /\ d[q - 1] = Ptr(e.at)
      OBVIOUS
    <2>2. PICK e \in tab : e.name = Rest(name, n + 1) /\ c[q - 1] = Ptr(e.at)
      BY <2>1 DEF Spelled
    <2>3. Ptr(e.at) # Hole
      BY DEF Ptr, Hole
    <2>4. d[q - 1] = Ptr(e.at)
      BY <1>4, <2>2, <2>3, OthersStay
    <2>5. e \in tab2
      OBVIOUS
    <2>6. QED
      BY <2>2, <2>4, <2>5
  <1>7. q <= Len(d) + 1
    BY <1>1
  <1>8. QED
    BY <1>1, <1>3, <1>5, <1>6, <1>7 DEF Spelled

\* The entries stay faithful if the new ones are.
LEMMA FaithfulStays ==
  ASSUME NEW c, NEW d, Improves(c, d), NEW tab, NEW tab2, Faithful(c, tab), tab \subseteq tab2,
         \A e \in tab2 : e \in tab \/
           (IsName(e.name) /\ \E q, n \in Nat : n > 0 /\ Spelled(d, tab2, e.name, e.at, q, n))
  PROVE  Faithful(d, tab2)
  <1>1. ASSUME NEW e \in tab
        PROVE  /\ IsName(e.name)
               /\ \E q, n \in Nat : n > 0 /\ Spelled(d, tab2, e.name, e.at, q, n)
    <2>1. IsName(e.name)
      BY DEF Faithful
    <2>2. PICK q \in Nat, n \in Nat : n > 0 /\ Spelled(c, tab, e.name, e.at, q, n)
      BY DEF Faithful
    <2>3. Spelled(d, tab2, e.name, e.at, q, n)
      BY <2>1, <2>2, SpelledStays DEF IsName
    <2>4. QED
      BY <2>1, <2>2, <2>3
  <1>2. QED
    BY <1>1 DEF Faithful

\* What follows a segment of a name that is spelled is spelled.
LEMMA SuffixIsSpelled ==
  ASSUME NEW c, NEW tab, NEW name \in Seq(STRING), NEW p, NEW q, NEW n \in Nat,
         Spelled(c, tab, name, p, q, n), NEW j \in 1 .. n
  PROVE  /\ IsName(Rest(name, j))
         /\ Spelled(c, tab, Rest(name, j), p + 2 * j - 2, q, n - j + 1)
  <1> DEFINE rest == Rest(name, j)
             a == p + 2 * j - 2
             m == n - j + 1
  <1>1. /\ Len(name) \in Nat /\ p \in Nat /\ p > 0 /\ n <= Len(name)
        /\ q = p + 2 * n + 1 /\ q <= Len(c) + 1
    BY LenProperties DEF Spelled
  <1>2. j \in 1 .. Len(name) + 1 /\ j \in Nat
    BY <1>1
  <1>3. /\ rest \in Seq(STRING) /\ Len(rest) = Len(name) + 1 - j
        /\ \A i \in 1 .. Len(name) + 1 - j : rest[i] = name[j + i - 1]
    BY <1>2, SuffixOf DEF Rest
  <1>4. Len(rest) > 0 /\ Len(rest) \in Nat
    BY <1>1, <1>2, <1>3
  <1>5. IsName(rest)
    BY <1>3, <1>4, EmptySeq DEF IsName
  <1>6. /\ a \in Nat /\ a > 0 /\ m \in 0 .. Len(rest) /\ q = a + 2 * m + 1
        /\ m = Len(rest) <=> n = Len(name)
    <2> DEFINE l == Len(name)
               r == Len(rest)
    <2>1. l \in Nat /\ r = l + 1 - j /\ j \in 1 .. n /\ n <= l
      BY <1>1, <1>3
    <2> HIDE DEF l, r, rest
    <2>2. /\ a \in Nat /\ a > 0 /\ m \in 0 .. r /\ q = a + 2 * m + 1
          /\ m = r <=> n = l
      BY <1>1, <2>1
    <2>3. QED
      BY <2>2 DEF l, r
  <1>7. m + 1 \in 1 .. Len(rest) + 1 /\ j + (m + 1) - 1 = n + 1
    BY <1>1, <1>2, <1>6
  <1>8. Rest(rest, m + 1) = Rest(name, n + 1)
    <2>1. rest = SubSeq(name, j, Len(name))
      BY DEF Rest
    <2> DEFINE i == m + 1
    <2>2. j \in 1 .. Len(name) + 1 /\ i \in 1 .. Len(rest) + 1
      BY <1>2, <1>7
    <2> HIDE DEF rest, m, i
    <2>3. SubSeq(rest, i, Len(rest)) = SubSeq(name, j + i - 1, Len(name))
      BY ZenonT(40), <2>1, <2>2, SuffixOfSuffix
    <2>4. QED
      BY <1>7, <2>3 DEF Rest, i
  <1>9. IsRun(c, rest, a, m)
    <2>1. SUFFICES ASSUME NEW i \in 1 .. m
                   PROVE  c[a + 2 * i - 2] = LenByte /\ c[a + 2 * i - 1] = Text(rest[i])
      BY DEF IsRun
    <2>2. /\ j + i - 1 \in 1 .. n /\ i \in 1 .. Len(name) + 1 - j
          /\ a + 2 * i - 2 = p + 2 * (j + i - 1) - 2
          /\ a + 2 * i - 1 = p + 2 * (j + i - 1) - 1
      BY <1>1, <1>2, <2>1
    <2>3. /\ c[p + 2 * (j + i - 1) - 2] = LenByte
          /\ c[p + 2 * (j + i - 1) - 1] = Text(name[j + i - 1])
      BY <2>2 DEF Spelled, IsRun
    <2>4. rest[i] = name[j + i - 1]
      BY <1>3, <2>2
    <2> HIDE DEF rest, a
    <2>5. QED
      BY <2>2, <2>3, <2>4
  <1>10. m = Len(rest) => c[q - 1] = End
    BY <1>6 DEF Spelled
  <1>11. m # Len(rest) => \E e \in tab : e.name = Rest(rest, m + 1) /\ c[q - 1] = Ptr(e.at)
    <2> HIDE DEF rest, m
    <2>1. QED
      BY <1>6, <1>8 DEF Spelled
  <1> HIDE DEF rest, a, m
  <1>12. Spelled(c, tab, rest, a, q, m)
    BY <1>1, <1>6, <1>9, <1>10, <1>11 DEF Spelled
  <1>13. QED
    BY <1>5, <1>12 DEF rest, a, m

-----------------------------------------------------------------------------
(* The names that are written are spelled                                  *)

\* The entries that stand for the end of a name.
Tab(v, ip) == {e \in Range(v.lookup) : e.name \notin ip}

\* The table only grows.
LEMMA TableGrows ==
  ASSUME NEW v \in Writers, NEW x \in Writers, Grows(v, x), NEW ip
  PROVE  Range(v.lookup) \subseteq Range(x.lookup) /\ Tab(v, ip) \subseteq Tab(x, ip)
  <1>1. /\ DOMAIN v.lookup = 1 .. Len(v.lookup) /\ DOMAIN x.lookup = 1 .. Len(x.lookup)
        /\ Len(v.lookup) \in Nat /\ Len(x.lookup) \in Nat
    BY LenProperties DEF Writers
  <1>2. Range(v.lookup) \subseteq Range(x.lookup)
    <2> SUFFICES ASSUME NEW i \in DOMAIN v.lookup
                 PROVE  v.lookup[i] \in Range(x.lookup)
      BY DEF Range
    <2>1. i \in DOMAIN x.lookup /\ x.lookup[i] = v.lookup[i]
      BY <1>1 DEF Grows
    <2>2. QED
      BY <2>1 DEF Range
  <1>3. QED
    BY <1>2 DEF Tab

\* A name was written behind what v had, or it did not fit.
NameWritten(v, x, name, ip) ==
  /\ ~ x.overflow =>
       /\ Faithful(x.cells, Tab(x, ip))
       /\ \E n \in Nat :
            Spelled(x.cells, Tab(x, ip), name, Len(v.cells) + 1, Len(x.cells) + 1, n)
  /\ x.overflow => OnlySegments(v, x)

\* n segments, and then the end of the name or a pointer to what is left of it.
LEMMA NameIsClosed ==
  ASSUME NEW v, Good(v), ~ v.overflow, NEW ip, Faithful(v.cells, Tab(v, ip)),
         NEW name \in Seq(STRING), NEW n \in 0 .. Len(name),
         NEW u \in KeptBy(v), RunPut(v, u, name, n),
         NEW x \in KeptBy(v), x.lookup = u.lookup, NEW cell, Has(u, <<cell>>, x), ~ x.overflow,
         n = Len(name) => cell = End,
         n # Len(name) =>
           \E e \in Range(u.lookup) :
             e.name = Rest(name, n + 1) /\ e.name \notin ip /\ cell = Ptr(e.at)
  PROVE  NameWritten(v, x, name, ip)
  <1> DEFINE p == Len(v.cells) + 1
             q == Len(x.cells) + 1
             new == <<cell>>
             tab == Tab(x, ip)
  <1>1. /\ v \in Writers /\ u \in Writers /\ x \in Writers /\ Grows(v, u) /\ Grows(v, x)
    BY DEF Good, KeptBy
  <1>2. /\ Len(v.cells) \in Nat /\ Len(u.cells) \in Nat /\ Len(x.cells) \in Nat
        /\ Len(name) \in Nat /\ n \in Nat
    BY <1>1, LenProperties DEF Writers
  <1>3. Len(new) = 1 /\ new[1] = cell /\ 1 \in 1 .. Len(new)
    OBVIOUS
  <1> HIDE DEF new
  <1>4. /\ ~ u.overflow /\ Len(x.cells) = Len(u.cells) + 1 /\ x.cells[Len(u.cells) + 1] = cell
        /\ \A i \in 1 .. Len(u.cells) : x.cells[i] = u.cells[i]
    BY <1>3 DEF Has, new
  <1>5. /\ Len(u.cells) = Len(v.cells) + 2 * n /\ IsRun(u.cells, name, p, n)
        /\ Range(u.lookup) \subseteq Range(v.lookup) \cup Recorded(name, p, n)
    BY <1>4 DEF RunPut
  <1>6. /\ p \in Nat /\ p > 0 /\ q = p + 2 * n + 1 /\ q - 1 = Len(u.cells) + 1
        /\ q <= Len(x.cells) + 1
    <2> DEFINE a == Len(v.cells)
               b == Len(u.cells)
               c == Len(x.cells)
    <2>1. /\ a \in Nat /\ b \in Nat /\ c \in Nat /\ c = b + 1 /\ b = a + 2 * n
          /\ p = a + 1 /\ q = c + 1
      BY <1>2, <1>4, <1>5
    <2> HIDE DEF a, b, c, p, q
    <2>2. /\ p \in Nat /\ p > 0 /\ q = p + 2 * n + 1 /\ q - 1 = b + 1 /\ q <= c + 1
      BY <1>2, <2>1
    <2>3. QED
      BY <2>2 DEF b, c
  <1>7. IsRun(x.cells, name, p, n)
    <2>1. SUFFICES ASSUME NEW i \in 1 .. n
                   PROVE  /\ x.cells[p + 2 * i - 2] = LenByte
                          /\ x.cells[p + 2 * i - 1] = Text(name[i])
      BY DEF IsRun
    <2>2. p + 2 * i - 2 \in 1 .. Len(u.cells) /\ p + 2 * i - 1 \in 1 .. Len(u.cells)
      <3> DEFINE b == Len(u.cells)
      <3>1. b \in Nat /\ q - 1 = b + 1 /\ q \in Nat
        BY <1>2, <1>6
      <3> HIDE DEF b, p, q
      <3>2. p + 2 * i - 2 \in 1 .. b /\ p + 2 * i - 1 \in 1 .. b
        BY <1>2, <1>6, <2>1, <3>1
      <3>3. QED
        BY <3>2 DEF b
    <2>3. u.cells[p + 2 * i - 2] = LenByte /\ u.cells[p + 2 * i - 1] = Text(name[i])
      BY <1>5 DEF IsRun
    <2> HIDE DEF p
    <2>4. QED
      BY <1>4, <2>2, <2>3
  <1>8. n # Len(name) => \E e \in tab : e.name = Rest(name, n + 1) /\ x.cells[q - 1] = Ptr(e.at)
    <2>1. SUFFICES ASSUME n # Len(name)
                   PROVE  \E e \in tab : e.name = Rest(name, n + 1) /\ x.cells[q - 1] = Ptr(e.at)
      OBVIOUS
    <2>2. PICK e \in Range(u.lookup) :
            e.name = Rest(name, n + 1) /\ e.name \notin ip /\ cell = Ptr(e.at)
      BY <2>1
    <2>3. e \in tab
      BY <2>2 DEF Tab
    <2>4. x.cells[q - 1] = cell
      BY <1>4, <1>6
    <2>5. QED
      BY <2>2, <2>3, <2>4
  <1>9. n = Len(name) => x.cells[q - 1] = End
    BY <1>4, <1>6
  <1>10. Spelled(x.cells, tab, name, p, q, n)
    <2> HIDE DEF p, q, tab
    <2>1. QED
      BY <1>6, <1>7, <1>8, <1>9 DEF Spelled
  <1>11. Faithful(x.cells, tab)
    <2>1. Improves(v.cells, x.cells) /\ Tab(v, ip) \subseteq tab
      BY <1>1, GrowingImproves, TableGrows
    <2>2. ASSUME NEW e \in tab, e \notin Tab(v, ip)
          PROVE  /\ IsName(e.name)
                 /\ \E b, m \in Nat : m > 0 /\ Spelled(x.cells, tab, e.name, e.at, b, m)
      <3>1. e \in Recorded(name, p, n)
        BY <1>5, <2>2 DEF Tab
      <3>2. PICK j \in 1 .. n : e = [name |-> Rest(name, j), at |-> p + 2 * j - 2]
        BY <3>1 DEF Recorded
      <3>3. e.name = Rest(name, j) /\ e.at = p + 2 * j - 2
        BY <3>2
      <3> HIDE DEF tab, p, q
      <3>4. /\ IsName(Rest(name, j))
            /\ Spelled(x.cells, tab, Rest(name, j), p + 2 * j - 2, q, n - j + 1)
        BY <1>2, <1>10, SuffixIsSpelled
      <3>5. n - j + 1 \in Nat /\ n - j + 1 > 0 /\ q \in Nat
        BY <1>2, <1>6
      <3>6. QED
        BY <3>3, <3>4, <3>5
    <2> HIDE DEF tab
    <2>3. QED
      BY <2>1, <2>2, FaithfulStays
  <1>12. QED
    BY <1>2, <1>10, <1>11 DEF NameWritten

\* The last cell of a name.
LEMMA NameIsWritten ==
  ASSUME NEW v, Good(v), ~ v.overflow, NEW ip, Faithful(v.cells, Tab(v, ip)),
         NEW name \in Seq(STRING), NEW n \in 0 .. Len(name),
         NEW u \in KeptBy(v), RunPut(v, u, name, n),
         NEW cell \in Cells, NEW x \in KeptBy(v), x = Write(u, <<cell>>),
         n = Len(name) => cell = End,
         n # Len(name) /\ ~ u.overflow =>
           \E e \in Range(u.lookup) :
             e.name = Rest(name, n + 1) /\ e.name \notin ip /\ cell = Ptr(e.at)
  PROVE  NameWritten(v, x, name, ip)
  <1> DEFINE new == <<cell>>
  <1>1. new \in Seq(Cells)
    OBVIOUS
  <1>2. u \in Writers /\ x = Write(u, new)
    BY DEF KeptBy
  <1> HIDE DEF new
  <1>3. /\ x.lookup = u.lookup
        /\ x.overflow => x.cells = u.cells
        /\ ~ x.overflow => Has(u, new, x)
    BY <1>1, <1>2, WriteDoes
  <1>4. CASE x.overflow
    BY <1>3, <1>4 DEF NameWritten, RunPut, OnlySegments
  <1>5. CASE ~ x.overflow
    <2>1. Has(u, <<cell>>, x) /\ ~ u.overflow
      BY <1>3, <1>5 DEF Has, new
    <2>2. QED
      BY <1>3, <1>5, <2>1, NameIsClosed
  <1>6. QED
    BY <1>4, <1>5

\* An entry that is found leads to a segment of the buffer.
LEMMA EntryIsFound ==
  ASSUME NEW u, Good(u), ~ u.overflow, NEW name, Found(u, name) # {}
  PROVE  \E e \in Range(u.lookup) :
           e.name = name /\ e.at \in Nat /\ FindLabel(u, name) % PtrSpan = e.at
  <1> DEFINE i == Min(Found(u, name))
             e == u.lookup[i]
  <1>1. /\ u \in Writers /\ u.lookup \in Seq(Entries) /\ u.cells \in Seq(Cells)
        /\ DOMAIN u.lookup \subseteq Nat
        /\ DOMAIN u.cells = 1 .. Len(u.cells) /\ Len(u.cells) \in Nat
    BY LenProperties DEF Good, Writers
  <1>2. Found(u, name) \subseteq Nat
    BY <1>1 DEF Found
  <1>3. i \in Found(u, name)
    BY <1>2, MinOfNats
  <1> HIDE DEF i
  <1>4. i \in DOMAIN u.lookup /\ e.name = name
    BY <1>3 DEF Found
  <1>5. e \in Range(u.lookup)
    BY <1>4 DEF Range
  <1>6. IsLen(u, e.at)
    BY <1>4 DEF Good, TableLeads
  <1>7. e.at \in 1 .. Len(u.cells)
    BY <1>1, <1>6 DEF IsLen
  <1>8. Len(u.cells) < PtrSpan /\ PtrSpan \in Nat
    BY <1>1, WireAssumption DEF Good, Sized, Writers
  <1>9. e.at % PtrSpan = e.at
    <2>1. e.at \in Nat /\ e.at < PtrSpan
      BY <1>1, <1>7, <1>8
    <2> HIDE DEF e
    <2>2. QED
      BY <1>8, <2>1, RemainderOfLess
  <1>10. FindLabel(u, name) = e.at
    BY DEF FindLabel, i
  <1>11. QED
    BY <1>4, <1>5, <1>7, <1>9, <1>10

\* A part that ends a name is written so that it can be read.
LEMMA StrIsWritten ==
  ASSUME NEW v, Good(v), ~ v.overflow, NEW ip, Faithful(v.cells, Tab(v, ip)),
         NEW part \in Seq(STRING), \A j \in DOMAIN part : Rest(part, j) \notin ip,
         NEW x, x = SerializeStr(v, part, TRUE)
  PROVE  NameWritten(v, x, part, ip)
  <1>1. x \in KeptBy(v)
    <2>1. Good(x) /\ Grows(v, x)
      BY SerializeStrKeeps
    <2>2. QED
      BY <2>1 DEF KeptBy, Good
  <1>2. DOMAIN part = 1 .. Len(part) /\ Len(part) \in Nat
    BY LenProperties
  <1> DEFINE cuts == Cuts(v, part, TRUE)
  <1>3. CASE cuts = {}
    <2> DEFINE n == Len(part)
    <2>1. n \in 0 .. Len(part)
      BY <1>2
    <2> HIDE DEF n
    <2>2. PICK u \in KeptBy(v) : u = PutSegments(v, part, n) /\ RunPut(v, u, part, n)
      BY <2>1, SegmentsArePut
    <2>3. x = Write(u, <<End>>)
      BY <1>3, <2>2 DEF SerializeStr, PutEnd, n
    <2>4. End \in Cells
      BY DEF Cells
    <2>5. n = Len(part)
      BY DEF n
    <2>6. QED
      BY <1>1, <2>1, <2>2, <2>3, <2>4, <2>5, NameIsWritten
  <1>4. CASE cuts # {}
    <2> DEFINE k == Min(cuts)
               n == k - 1
               rest == Rest(part, k)
    <2>1. k \in DOMAIN part /\ Found(v, rest) # {}
      <3>1. cuts \subseteq Nat
        BY <1>2 DEF Cuts
      <3>2. k \in cuts
        BY <1>4, <3>1, MinOfNats
      <3>3. QED
        BY <3>2 DEF Cuts
    <2> HIDE DEF k
    <2>2. n \in 0 .. Len(part) /\ n + 1 = k /\ n # Len(part)
      <3>1. k \in 1 .. Len(part)
        BY <1>2, <2>1
      <3>2. QED
        BY <1>2, <3>1
    <2>3. x = PutPointer(PutSegments(v, part, n), rest)
      BY <1>4 DEF SerializeStr, UpTo, k
    <2>4. rest = Rest(part, n + 1) /\ rest \notin ip
      BY <2>1, <2>2
    <2> HIDE DEF cuts, k, n, rest
    <2>5. PICK u \in KeptBy(v) : u = PutSegments(v, part, n) /\ RunPut(v, u, part, n)
      BY <2>2, SegmentsArePut
    <2> DEFINE cell == Ptr(FindLabel(u, rest) % PtrSpan)
    <2>6. x = Write(u, <<cell>>)
      BY <2>3, <2>5 DEF PutPointer
    <2>7. Found(u, rest) # {}
      <3>1. PICK i \in DOMAIN v.lookup : v.lookup[i].name = rest
        BY <2>1 DEF Found
      <3>2. v \in Writers /\ u \in Writers /\ Grows(v, u)
        BY DEF Good, KeptBy
      <3>3. v.lookup[i] \in Range(u.lookup)
        <4>1. v.lookup[i] \in Range(v.lookup)
          BY DEF Range
        <4>2. QED
          BY <3>2, <4>1, TableGrows
      <3>4. \E j \in DOMAIN u.lookup : u.lookup[j] = v.lookup[i]
        BY <3>3 DEF Range
      <3>5. QED
        BY <3>1, <3>4 DEF Found
    <2>8. CASE u.overflow
      <3>1. x = u
        BY <2>6, <2>8 DEF Write
      <3>2. QED
        BY <2>5, <2>8, <3>1 DEF NameWritten, RunPut
    <2>9. CASE ~ u.overflow
      <3>1. PICK e \in Range(u.lookup) :
              e.name = rest /\ e.at \in Nat /\ FindLabel(u, rest) % PtrSpan = e.at
        <4>1. Good(u)
          BY DEF KeptBy
        <4>2. QED
          BY <2>7, <2>9, <4>1, EntryIsFound
      <3>2. cell = Ptr(e.at) /\ cell \in Cells
        BY <3>1 DEF Cells, Ptr
      <3> HIDE DEF cell
      <3>3. e.name = Rest(part, n + 1) /\ e.name \notin ip
        BY <2>4, <3>1
      <3>4. QED
        BY <1>1, <2>2, <2>5, <2>6, <3>2, <3>3, NameIsWritten
    <2>10. QED
      BY <2>8, <2>9
  <1>5. QED
    BY <1>3, <1>4

\* So is a label that came from a packet.
LEMMA CopyIsWritten ==
  ASSUME NEW v, Good(v), ~ v.overflow, NEW ip, Faithful(v.cells, Tab(v, ip)),
         NEW segs \in Seq(STRING), NEW x, x = SerializeRun(v, segs)
  PROVE  NameWritten(v, x, segs, ip)
  <1> DEFINE n == Len(segs)
  <1>1. x \in KeptBy(v)
    <2>1. Good(x) /\ Grows(v, x)
      BY SerializeRunKeeps
    <2>2. QED
      BY <2>1 DEF KeptBy, Good
  <1>2. PICK u \in KeptBy(v) : SerializeRun(v, segs) = Write(u, <<End>>) /\ RunPut(v, u, segs, n)
    BY CopyIsPut
  <1>3. n \in 0 .. Len(segs) /\ n = Len(segs)
    BY LenProperties
  <1>4. End \in Cells /\ x = Write(u, <<End>>)
    BY <1>2 DEF Cells
  <1> HIDE DEF n
  <1>5. QED
    BY <1>1, <1>2, <1>3, <1>4, NameIsWritten

\* The first part of an instance name was written, or did not fit.
FirstPut(v, x, h, ip) ==
  /\ x \in KeptBy(v) /\ OnlySegments(v, x)
  /\ ~ x.overflow =>
       /\ Faithful(x.cells, Tab(x, ip)) /\ Len(x.cells) = Len(v.cells) + 2
       /\ x.cells[Len(v.cells) + 1] = LenByte
       /\ x.cells[Len(v.cells) + 2] = Text(h)

\* It is a segment, and what is recorded of it is not the end of a name.
LEMMA FirstPartIsWritten ==
  ASSUME NEW v, Good(v), ~ v.overflow, NEW ip, Faithful(v.cells, Tab(v, ip)),
         NEW h \in STRING, <<h>> \in ip, NEW x, x = SerializeStr(v, <<h>>, FALSE)
  PROVE  FirstPut(v, x, h, ip)
  <1> DEFINE part == <<h>>
  <1>1. /\ part \in Seq(STRING) /\ Len(part) = 1 /\ part[1] = h /\ 1 \in 0 .. Len(part)
        /\ Rest(part, 1) = part
    <2>1. part \in Seq(STRING) /\ Len(part) = 1 /\ part[1] = h /\ 1 \in 0 .. Len(part)
      OBVIOUS
    <2> HIDE DEF part
    <2>2. SubSeq(part, 1, Len(part)) = part
      BY <2>1, SubSeqFull
    <2>3. QED
      BY <2>1, <2>2 DEF Rest
  <1>2. part \in ip /\ x = SerializeStr(v, part, FALSE)
    OBVIOUS
  <1> HIDE DEF part
  <1>3. PICK u \in KeptBy(v) : u = PutSegments(v, part, 1) /\ RunPut(v, u, part, 1)
    BY <1>1, SegmentsArePut
  <1>4. x = u
    <2>1. Cuts(v, part, FALSE) = {}
      BY DEF Cuts
    <2>2. QED
      BY <1>1, <1>2, <1>3, <2>1 DEF SerializeStr, PutEnd
  <1>5. v \in Writers /\ x \in Writers /\ Grows(v, x) /\ Len(v.cells) \in Nat
    BY <1>4, LenProperties DEF Good, KeptBy, Writers
  <1>6. ASSUME ~ x.overflow
        PROVE  Tab(x, ip) = Tab(v, ip)
    <2>1. Tab(v, ip) \subseteq Tab(x, ip)
      BY <1>5, TableGrows
    <2>2. ASSUME NEW e \in Tab(x, ip)
          PROVE  e \in Tab(v, ip)
      <3>1. CASE e \in Range(v.lookup)
        BY <2>2, <3>1 DEF Tab
      <3>2. CASE e \notin Range(v.lookup)
        <4>1. e \in Recorded(part, Len(v.cells) + 1, 1)
          BY <1>3, <1>4, <1>6, <2>2, <3>2 DEF RunPut, Tab
        <4>2. PICK j \in 1 .. 1 : e = [name |-> Rest(part, j), at |-> Len(v.cells) + 1 + 2 * j - 2]
          BY <4>1 DEF Recorded
        <4>3. e.name = part
          BY <1>1, <4>2
        <4>4. QED
          BY <1>2, <2>2, <4>3 DEF Tab
      <3>3. QED
        BY <3>1, <3>2
    <2>3. QED
      BY <2>1, <2>2
  <1>7. ASSUME ~ x.overflow
        PROVE  Faithful(x.cells, Tab(x, ip))
    <2>1. Improves(v.cells, x.cells)
      BY <1>5, GrowingImproves
    <2>2. Tab(x, ip) = Tab(v, ip)
      BY <1>6, <1>7
    <2>3. QED
      BY <2>1, <2>2, FaithfulStays
  <1>8. ASSUME ~ x.overflow
        PROVE  /\ Len(x.cells) = Len(v.cells) + 2
               /\ x.cells[Len(v.cells) + 1] = LenByte
               /\ x.cells[Len(v.cells) + 2] = Text(h)
    <2> DEFINE p == Len(v.cells) + 1
    <2>1. Len(x.cells) = Len(v.cells) + 2 * 1 /\ IsRun(x.cells, part, p, 1)
      BY <1>3, <1>4, <1>8 DEF RunPut
    <2>2. 1 \in 1 .. 1 /\ p + 2 * 1 - 2 = Len(v.cells) + 1 /\ p + 2 * 1 - 1 = Len(v.cells) + 2
      BY <1>5
    <2>3. x.cells[p + 2 * 1 - 2] = LenByte /\ x.cells[p + 2 * 1 - 1] = Text(part[1])
      BY <2>1, <2>2 DEF IsRun
    <2> HIDE DEF p
    <2>4. x.cells[Len(v.cells) + 1] = LenByte
      BY <2>2, <2>3
    <2>5. x.cells[Len(v.cells) + 2] = Text(h)
      BY <1>1, <2>2, <2>3
    <2>6. Len(x.cells) = Len(v.cells) + 2
      <3>1. 2 * 1 = 2
        OBVIOUS
      <3>2. QED
        BY <2>1, <3>1
    <2>7. QED
      BY <2>4, <2>5, <2>6
  <1>9. OnlySegments(v, x)
    BY <1>3, <1>4 DEF RunPut
  <1>10. QED
    BY <1>4, <1>7, <1>8, <1>9 DEF FirstPut

\* A list of one.
LEMMA OneInAList ==
  ASSUME NEW S, NEW e \in S
  PROVE  <<e>> \in Seq(S) /\ Len(<<e>>) = 1 /\ <<e>>[1] = e
  OBVIOUS

\* A list of two.
LEMMA TwoInAList ==
  ASSUME NEW S, NEW a \in S, NEW b \in S
  PROVE  <<a, b>> \in Seq(S) /\ Len(<<a, b>>) = 2 /\ <<a, b>>[1] = a /\ <<a, b>>[2] = b
  OBVIOUS

\* What a list with one element is.
LEMMA OnlyOne ==
  ASSUME NEW S, NEW s \in Seq(S), Len(s) = 1
  PROVE  s = <<s[1]>>
  <1> DEFINE t == <<s[1]>>
  <1>1. s[1] \in S
    BY ElementOfSeq
  <1>2. t \in Seq(S) /\ Len(t) = 1 /\ t[1] = s[1]
    BY <1>1, OneInAList
  <1> HIDE DEF t
  <1>3. \A i \in 1 .. Len(s) : s[i] = t[i]
    <2>1. 1 .. Len(s) = {1}
      OBVIOUS
    <2>2. QED
      BY <1>2, <2>1
  <1>4. s = t
    BY <1>2, <1>3, SeqEqual
  <1>5. QED
    BY <1>4 DEF t

\* A segment in front of a name.
LEMMA SegmentInFront ==
  ASSUME NEW c, NEW tab, NEW h \in STRING, NEW t \in Seq(STRING), NEW p \in Nat, p > 0,
         NEW q, NEW n \in Nat, Spelled(c, tab, t, p + 2, q, n),
         c[p] = LenByte, c[p + 1] = Text(h)
  PROVE  Spelled(c, tab, <<h>> \o t, p, q, n + 1)
  <1> DEFINE first == <<h>>
             name == first \o t
             a == p + 2
             l == Len(t)
  <1>1. l \in Nat /\ n <= l /\ q = a + 2 * n + 1 /\ q <= Len(c) + 1
    BY LenProperties DEF Spelled
  <1>2. first \in Seq(STRING) /\ Len(first) = 1 /\ first[1] = h
    BY OneInAList
  <1> HIDE DEF first
  <1>3. /\ name \in Seq(STRING) /\ Len(name) = 1 + l
        /\ \A i \in 1 .. l : name[1 + i] = t[i]
    <2>1. name \in Seq(STRING) /\ Len(name) = Len(first) + Len(t)
      BY <1>2, ConcatProperties
    <2>2. \A i \in 1 .. Len(first) + Len(t) : i > Len(first) => name[i] = t[i - Len(first)]
      BY <1>2, <2>1, ConcatProperties
    <2> HIDE DEF name
    <2>3. \A i \in 1 .. l : 1 + i \in 1 .. 1 + l /\ 1 + i > 1 /\ 1 + i - 1 = i
      BY <1>1
    <2>4. \A i \in 1 .. l : name[1 + i] = t[i]
      BY <1>2, <2>2, <2>3
    <2>5. QED
      BY <1>2, <2>1, <2>4
  <1>4. name[1] = h
    <2>1. 1 \in 1 .. Len(first)
      BY <1>2
    <2>2. \A i \in 1 .. Len(first) : (first \o t)[i] = first[i]
      BY <1>2, ConcatProperties
    <2>3. (first \o t)[1] = first[1]
      BY <2>1, <2>2
    <2>4. QED
      BY <1>2, <2>3
  <1> HIDE DEF name
  <1>5. IsRun(c, name, p, n + 1)
    <2>1. SUFFICES ASSUME NEW i \in 1 .. n + 1
                   PROVE  c[p + 2 * i - 2] = LenByte /\ c[p + 2 * i - 1] = Text(name[i])
      BY DEF IsRun
    <2>2. CASE i = 1
      <3>1. p + 2 * i - 2 = p /\ p + 2 * i - 1 = p + 1
        BY <2>2
      <3>2. QED
        BY <1>4, <2>2, <3>1
    <2>3. CASE i # 1
      <3> DEFINE j == i - 1
      <3>1. /\ j \in 1 .. n /\ 1 + j = i /\ j \in 1 .. l
            /\ p + 2 * i - 2 = a + 2 * j - 2 /\ p + 2 * i - 1 = a + 2 * j - 1
        BY <1>1, <2>3
      <3> HIDE DEF j, a
      <3>2. c[a + 2 * j - 2] = LenByte /\ c[a + 2 * j - 1] = Text(t[j])
        BY <3>1 DEF Spelled, IsRun, a
      <3>3. name[i] = t[j]
        BY <1>3, <3>1
      <3>4. QED
        BY <3>1, <3>2, <3>3
    <2>4. QED
      BY <2>2, <2>3
  <1>6. Rest(name, n + 1 + 1) = Rest(t, n + 1)
    <2> DEFINE s == SubSeq(name, 2, Len(name))
    <2>1. 2 \in 1 .. Len(name) + 1
      BY <1>1, <1>3
    <2>2. /\ s \in Seq(STRING) /\ Len(s) = Len(name) + 1 - 2
          /\ \A i \in 1 .. Len(name) + 1 - 2 : s[i] = name[2 + i - 1]
      BY <1>3, <2>1, SuffixOf
    <2>3. Len(name) + 1 - 2 = l
      BY <1>1, <1>3
    <2>4. \A i \in 1 .. l : s[i] = t[i]
      <3> TAKE i \in 1 .. l
      <3>1. 2 + i - 1 = 1 + i
        BY <1>1
      <3>2. QED
        BY <1>3, <2>2, <2>3, <3>1
    <2> HIDE DEF s
    <2>5. s = t
      BY <2>2, <2>3, <2>4, SeqEqual
    <2>6. n + 1 \in 1 .. Len(t) + 1 /\ 2 + (n + 1) - 1 = n + 1 + 1
      BY <1>1
    <2>7. t = SubSeq(name, 2, Len(name))
      BY <2>5 DEF s
    <2>8. SubSeq(t, n + 1, Len(t)) = SubSeq(name, 2 + (n + 1) - 1, Len(name))
      BY <1>3, <2>1, <2>6, <2>7, SuffixOfSuffix
    <2>9. QED
      BY <2>6, <2>8 DEF Rest
  <1>7. /\ n + 1 \in 0 .. Len(name) /\ q = p + 2 * (n + 1) + 1
        /\ n + 1 = Len(name) <=> n = l
    <2> DEFINE k == Len(name)
    <2>1. k = 1 + l
      BY <1>3
    <2> HIDE DEF k, l
    <2>2. n + 1 \in 0 .. k /\ q = p + 2 * (n + 1) + 1 /\ (n + 1 = k <=> n = l)
      BY <1>1, <2>1
    <2>3. QED
      BY <2>2 DEF k
  <1>8. n + 1 = Len(name) => c[q - 1] = End
    BY <1>7 DEF Spelled
  <1>9. n + 1 # Len(name) =>
          \E e \in tab : e.name = Rest(name, n + 1 + 1) /\ c[q - 1] = Ptr(e.at)
    BY <1>6, <1>7 DEF Spelled
  <1>10. Spelled(c, tab, name, p, q, n + 1)
    BY <1>1, <1>5, <1>7, <1>8, <1>9 DEF Spelled
  <1>11. QED
    BY <1>10 DEF name, first

\* What does not end like a part of an instance has no such end.
LEMMA EndsApart ==
  ASSUME NEW name, IsName(name), NEW ip, \A part \in ip : Len(part) = 1,
         <<Last(name)>> \notin ip, NEW j \in DOMAIN name
  PROVE  Rest(name, j) \notin ip
  <1> DEFINE rest == Rest(name, j)
  <1>1. name \in Seq(STRING) /\ Len(name) \in Nat /\ j \in 1 .. Len(name)
    BY LenProperties DEF IsName
  <1>2. j \in 1 .. Len(name) + 1
    BY <1>1
  <1>3. /\ rest \in Seq(STRING) /\ Len(rest) = Len(name) + 1 - j
        /\ \A i \in 1 .. Len(name) + 1 - j : rest[i] = name[j + i - 1]
    BY <1>1, <1>2, SuffixOf DEF Rest
  <1>4. SUFFICES ASSUME rest \in ip
                 PROVE  FALSE
    OBVIOUS
  <1>5. Len(rest) = 1
    BY <1>4
  <1>6. j = Len(name) /\ j + 1 - 1 = j /\ 1 \in 1 .. Len(name) + 1 - j
    <2> DEFINE l == Len(name)
    <2>1. l \in Nat /\ j \in 1 .. l /\ l + 1 - j = 1
      BY <1>1, <1>3, <1>5
    <2> HIDE DEF l
    <2>2. j = l /\ j + 1 - 1 = j /\ 1 \in 1 .. l + 1 - j
      BY <2>1
    <2>3. QED
      BY <2>2 DEF l
  <1>7. rest[1] = name[Len(name)]
    BY <1>3, <1>6
  <1> HIDE DEF rest
  <1>8. rest = <<rest[1]>>
    BY <1>3, <1>5, OnlyOne
  <1>9. rest = <<Last(name)>>
    BY <1>7, <1>8 DEF Last
  <1>10. QED
    BY <1>4, <1>9

\* The names that may end in a pointer, and how they are made.
NameMeant(f, ip) ==
  \/ f.parts = <<f.parts[1]>> /\ IsName(f.parts[1]) /\ <<Last(f.parts[1])>> \notin ip
  \/ \E h \in STRING : /\ f.parts = << <<h>>, f.parts[2] >> /\ <<h>> \in ip
                       /\ IsName(f.parts[2]) /\ <<Last(f.parts[2])>> \notin ip

\* A label is written so that its name can be read.
LEMMA LabelIsWritten ==
  ASSUME NEW v, Good(v), ~ v.overflow, NEW ip, \A part \in ip : Len(part) = 1,
         Faithful(v.cells, Tab(v, ip)),
         NEW f, f.put = "name", NameMeant(f, ip), f.parts \in Seq(Seq(STRING)),
         NEW x, x = SerializeLabel(v, f.parts)
  PROVE  IsName(NameIn(f)) /\ NameWritten(v, x, NameIn(f), ip)
  <1> DEFINE parts == f.parts
  <1>1. PICK g \in [0 .. Len(parts) -> KeptBy(v)] :
          /\ x = g[Len(parts)] /\ g[0] = v
          /\ \A k \in 1 .. Len(parts) :
               g[k] = SerializeStr(g[k - 1], parts[k], k = Len(parts))
    BY SerializeLabelSteps
  <1>2. f.put # "copy" /\ "name" # "copy"
    OBVIOUS
  <1> HIDE DEF parts
  <1>3. CASE parts = <<parts[1]>> /\ IsName(parts[1]) /\ <<Last(parts[1])>> \notin ip
    <2> DEFINE name == parts[1]
    <2>1. Len(parts) = 1 /\ 1 \in 1 .. Len(parts) /\ 1 - 1 = 0
      <3>1. Len(<<parts[1]>>) = 1
        BY OneInAList
      <3>2. Len(parts) = 1
        BY <1>3, <3>1
      <3>3. QED
        BY <3>2
    <2>2. x = SerializeStr(v, name, TRUE)
      <3>1. g[1] = SerializeStr(g[1 - 1], parts[1], 1 = Len(parts))
        BY <1>1, <2>1
      <3>2. x = g[1] /\ g[1 - 1] = v /\ (1 = Len(parts)) = TRUE
        BY <1>1, <2>1
      <3>3. QED
        BY <3>1, <3>2
    <2>3. name \in Seq(STRING) /\ IsName(name)
      BY <1>3 DEF IsName
    <2>4. NameIn(f) = name
      BY <1>2, <2>1 DEF NameIn, parts
    <2> HIDE DEF name
    <2>5. \A j \in DOMAIN name : Rest(name, j) \notin ip
      BY <1>3, <2>3, EndsApart DEF name
    <2>6. NameWritten(v, x, name, ip)
      BY <2>2, <2>3, <2>5, StrIsWritten
    <2>7. QED
      BY <2>3, <2>4, <2>6
  <1>4. CASE \E h \in STRING : /\ parts = << <<h>>, parts[2] >> /\ <<h>> \in ip
                               /\ IsName(parts[2]) /\ <<Last(parts[2])>> \notin ip
    <2>1. PICK h \in STRING : /\ parts = << <<h>>, parts[2] >> /\ <<h>> \in ip
                              /\ IsName(parts[2]) /\ <<Last(parts[2])>> \notin ip
      BY <1>4
    <2> DEFINE t == parts[2]
               first == <<h>>
               name == first \o t
               y == g[1]
    <2>2. /\ Len(parts) = 2 /\ parts[1] = first /\ 1 \in 1 .. Len(parts) /\ 2 \in 1 .. Len(parts)
          /\ 1 - 1 = 0 /\ 2 - 1 = 1 /\ 1 \in 0 .. Len(parts) /\ 2 \in 0 .. Len(parts)
      <3> DEFINE S == {first, t}
      <3>1. Len(<<first, t>>) = 2 /\ <<first, t>>[1] = first
        <4>1. first \in S /\ t \in S
          OBVIOUS
        <4> HIDE DEF S, first, t
        <4>2. QED
          BY <4>1, TwoInAList
      <3>2. Len(parts) = 2 /\ parts[1] = first
        BY <2>1, <3>1
      <3>3. QED
        BY <3>2
    <2>3. NameIn(f) = name
      BY <1>2, <2>2 DEF NameIn, parts
    <2>4. y = SerializeStr(v, <<h>>, FALSE)
      <3>1. g[1] = SerializeStr(g[1 - 1], parts[1], 1 = Len(parts))
        BY <1>1, <2>2
      <3>2. g[1 - 1] = v /\ (1 = Len(parts)) = FALSE
        BY <1>1, <2>2
      <3>3. QED
        BY <2>2, <3>1, <3>2
    <2>5. x = SerializeStr(y, t, TRUE) /\ y \in KeptBy(v) /\ x \in KeptBy(v)
      <3>1. g[2] = SerializeStr(g[2 - 1], parts[2], 2 = Len(parts))
        BY <1>1, <2>2
      <3>2. x = g[2] /\ g[2 - 1] = y /\ (2 = Len(parts)) = TRUE
        BY <1>1, <2>2
      <3>3. g[1] \in KeptBy(v) /\ g[2] \in KeptBy(v)
        BY <2>2
      <3>4. QED
        BY <3>1, <3>2, <3>3
    <2>6. t \in Seq(STRING) /\ t # <<>> /\ IsName(t)
      BY <2>1 DEF IsName
    <2> HIDE DEF y, t
    <2>7. IsName(name)
      <3>1. first \in Seq(STRING) /\ Len(first) = 1
        BY OneInAList
      <3> HIDE DEF first
      <3>2. name \in Seq(STRING) /\ Len(name) = 1 + Len(t) /\ Len(t) \in Nat
        BY <2>6, <3>1, ConcatProperties, LenProperties
      <3> HIDE DEF name
      <3>3. name # <<>>
        BY <3>2, EmptySeq
      <3>4. QED
        BY <3>2, <3>3 DEF IsName
    <2>8. /\ OnlySegments(v, y)
          /\ ~ y.overflow =>
               /\ Faithful(y.cells, Tab(y, ip)) /\ Len(y.cells) = Len(v.cells) + 2
               /\ y.cells[Len(v.cells) + 1] = LenByte
               /\ y.cells[Len(v.cells) + 2] = Text(h)
      <3>1. FirstPut(v, y, h, ip)
        BY <2>1, <2>4, FirstPartIsWritten
      <3>2. QED
        BY <3>1 DEF FirstPut
    <2>9. Good(y) /\ Grows(y, x) /\ y \in Writers /\ x \in Writers
      <3>1. Good(y)
        BY <2>5 DEF KeptBy
      <3>2. Grows(y, x)
        BY <2>5, <2>6, <3>1, SerializeStrKeeps
      <3>3. QED
        BY <2>5, <3>1, <3>2 DEF KeptBy
    <2>10. /\ Len(v.cells) \in Nat /\ Len(y.cells) \in Nat /\ Len(x.cells) \in Nat
           /\ DOMAIN y.cells = 1 .. Len(y.cells)
      BY <2>9, LenProperties DEF Writers, Good
    <2>11. CASE y.overflow
      <3>1. x.overflow /\ x.cells = y.cells
        BY <2>9, <2>11 DEF Grows
      <3>2. OnlySegments(v, x)
        BY <2>8, <3>1 DEF OnlySegments
      <3>3. QED
        BY <2>3, <2>7, <3>1, <3>2 DEF NameWritten
    <2>12. CASE ~ y.overflow
      <3>1. \A j \in DOMAIN t : Rest(t, j) \notin ip
        BY <2>1, <2>6, EndsApart DEF t
      <3>2. NameWritten(y, x, t, ip)
        BY <2>5, <2>6, <2>8, <2>9, <2>12, <3>1, StrIsWritten
      <3>3. CASE x.overflow
        <4>1. OnlySegments(y, x)
          BY <3>2, <3>3 DEF NameWritten
        <4>2. ASSUME NEW i \in Len(v.cells) + 1 .. Len(x.cells)
              PROVE  x.cells[i].k \in {"len", "text"}
          <5>1. CASE i <= Len(y.cells)
            <6>1. i \in Len(v.cells) + 1 .. Len(y.cells) /\ i \in DOMAIN y.cells
              BY <2>10, <5>1
            <6>2. x.cells[i] = y.cells[i]
              BY <2>9, <6>1 DEF Grows
            <6>3. QED
              BY <2>8, <6>1, <6>2 DEF OnlySegments
          <5>2. CASE ~ (i <= Len(y.cells))
            <6>1. i \in Len(y.cells) + 1 .. Len(x.cells)
              BY <2>10, <5>2
            <6>2. QED
              BY <4>1, <6>1 DEF OnlySegments
          <5>3. QED
            BY <5>1, <5>2
        <4>3. OnlySegments(v, x)
          BY <4>2 DEF OnlySegments
        <4>4. QED
          BY <2>3, <2>7, <3>3, <4>3 DEF NameWritten
      <3>4. CASE ~ x.overflow
        <4> DEFINE p == Len(v.cells) + 1
                   q == Len(x.cells) + 1
                   tab == Tab(x, ip)
        <4>1. Faithful(x.cells, tab)
          BY <3>2, <3>4 DEF NameWritten
        <4>2. PICK n \in Nat : Spelled(x.cells, tab, t, Len(y.cells) + 1, q, n)
          BY <3>2, <3>4 DEF NameWritten
        <4>3. /\ Len(y.cells) = Len(v.cells) + 2 /\ y.cells[p] = LenByte
              /\ y.cells[p + 1] = Text(h)
          <5>1. p + 1 = Len(v.cells) + 2
            BY <2>10
          <5>2. QED
            BY <2>8, <2>12, <5>1
        <4>4. /\ p \in Nat /\ p > 0 /\ p + 2 = Len(y.cells) + 1
              /\ p \in DOMAIN y.cells /\ p + 1 \in DOMAIN y.cells
          BY <2>10, <4>3
        <4>5. x.cells[p] = LenByte /\ x.cells[p + 1] = Text(h)
          BY <2>9, <4>3, <4>4 DEF Grows
        <4> HIDE DEF p, q, tab
        <4>6. Spelled(x.cells, tab, t, p + 2, q, n)
          BY <4>2, <4>4
        <4>7. Spelled(x.cells, tab, <<h>> \o t, p, q, n + 1)
          BY <2>6, <4>4, <4>5, <4>6, SegmentInFront
        <4>8. n + 1 \in Nat
          OBVIOUS
        <4>9. \E k \in Nat : Spelled(x.cells, tab, name, p, q, k)
          BY <4>7, <4>8
        <4> HIDE DEF name
        <4>10. QED
          BY <2>3, <2>7, <3>4, <4>1, <4>9 DEF NameWritten, p, q, tab
      <3>5. QED
        BY <3>3, <3>4
    <2>13. QED
      BY <2>11, <2>12
  <1>5. QED
    BY <1>3, <1>4 DEF NameMeant, parts

-----------------------------------------------------------------------------
(* How far a message has been written                                      *)

\* The first k fields stand in P, up to q.
Reached(P, s, k, q) ==
  \E pos \in [0 .. k -> Nat] :
    /\ pos[0] = 1 /\ pos[k] = q
    /\ \A i \in 1 .. k : Step(P, s[i], pos[i - 1], pos[i])

\* What writing a field does to a buffer.
FieldPut(v, x, f, ip) ==
  /\ v.overflow => x.overflow /\ x.cells = v.cells
  /\ ~ v.overflow => Improves(v.cells, x.cells) /\ Tab(v, ip) \subseteq Tab(x, ip)
  /\ ~ v.overflow /\ x.overflow => OnlySegments(v, x) /\ f.put # "fill"
  /\ ~ x.overflow =>
       /\ ~ v.overflow /\ Faithful(x.cells, Tab(x, ip))
       /\ Stands(Buffered(x.cells, Tab(x, ip), 0, FALSE), f, Len(v.cells) + 1, Len(x.cells) + 1)

\* P2 is what a whole buffer P has become.
Later(P, P2) == P.cut = FALSE /\ Improves(P.cells, P2.cells) /\ P.tab \subseteq P2.tab

\* What stands in the cells still does when there is more of them.
LEMMA StepStays ==
  ASSUME NEW P, NEW P2, Later(P, P2), NEW f, NEW p \in Nat, NEW q, Step(P, f, p, q)
  PROVE  Step(P2, f, p, q)
  <1> DEFINE c == P.cells
             d == P2.cells
             tab == P.tab
             tab2 == P2.tab
  <1>1. P.cut = FALSE /\ Improves(c, d) /\ tab \subseteq tab2
    BY DEF Later
  <1>2. Len(c) \in Nat /\ Len(d) \in Nat /\ Len(c) <= Len(d)
    BY <1>1 DEF Improves
  <1>3. CASE p = 0
    BY <1>1, <1>3 DEF Step
  <1>4. CASE p # 0
    <2>1. Stands(P, f, p, q)
      BY <1>1, <1>4 DEF Step
    <2>2. CASE f.put = "number"
      <3>1. p <= Len(c) /\ c[p] = Num(f.v) /\ q = p + 1
        BY <1>1, <2>1, <2>2 DEF Stands
      <3>2. p \in 1 .. Len(c) /\ Num(f.v) # Hole
        BY <1>2, <1>4, <3>1 DEF Num, Hole
      <3>3. d[p] = c[p]
        BY <1>1, <3>1, <3>2, OthersStay
      <3>4. p <= Len(d)
        BY <1>2, <3>1
      <3>5. Stands(P2, f, p, q)
        BY <1>1, <2>2, <3>1, <3>3, <3>4 DEF Stands
      <3>6. QED
        BY <1>4, <3>5 DEF Step
    <2>3. CASE f.put = "reserve"
      <3>1. p <= Len(c) /\ c[p] \in {Hole, Num("length")} /\ q = p + 1
        BY <1>1, <2>1, <2>3 DEF Stands
      <3>2. p \in 1 .. Len(c)
        BY <1>2, <1>4, <3>1
      <3>3. d[p] \in {Hole, Num("length")}
        BY <1>1, <3>1, <3>2 DEF Improves
      <3>4. p <= Len(d)
        BY <1>2, <3>1
      <3>5. Stands(P2, f, p, q)
        BY <1>1, <2>3, <3>1, <3>3, <3>4 DEF Stands
      <3>6. QED
        BY <1>4, <3>5 DEF Step
    <2>4. CASE f.put = "fill"
      <3>1. Stands(P2, f, p, q)
        BY <2>1, <2>4 DEF Stands
      <3>2. QED
        BY <1>4, <3>1 DEF Step
    <2>5. CASE f.put \notin {"number", "reserve", "fill"}
      <3>1. IsName(NameIn(f)) /\ \E n \in Nat : Spelled(c, tab, NameIn(f), p, q, n)
        BY <1>1, <2>1, <2>5 DEF Stands
      <3>2. PICK n \in Nat : Spelled(c, tab, NameIn(f), p, q, n)
        BY <3>1
      <3>3. NameIn(f) \in Seq(STRING)
        BY <3>1 DEF IsName
      <3>4. Spelled(d, tab2, NameIn(f), p, q, n)
        BY <1>1, <3>2, <3>3, SpelledStays
      <3>5. Stands(P2, f, p, q)
        BY <1>1, <2>5, <3>1, <3>4 DEF Stands
      <3>6. QED
        BY <1>4, <3>5 DEF Step
    <2>6. QED
      BY <2>2, <2>3, <2>4, <2>5
  <1>5. QED
    BY <1>3, <1>4

\* So do all the fields that were reached.
LEMMA ReachedStays ==
  ASSUME NEW P, NEW P2, Later(P, P2), NEW s, NEW k \in Nat, NEW q, Reached(P, s, k, q)
  PROVE  Reached(P2, s, k, q)
  <1>1. PICK pos \in [0 .. k -> Nat] :
          /\ pos[0] = 1 /\ pos[k] = q
          /\ \A i \in 1 .. k : Step(P, s[i], pos[i - 1], pos[i])
    BY DEF Reached
  <1>2. ASSUME NEW i \in 1 .. k
        PROVE  Step(P2, s[i], pos[i - 1], pos[i])
    <2>1. i - 1 \in 0 .. k
      BY <1>2
    <2>2. pos[i - 1] \in Nat /\ Step(P, s[i], pos[i - 1], pos[i])
      BY <1>1, <2>1
    <2>3. QED
      BY <2>2, StepStays
  <1>3. QED
    BY <1>1, <1>2 DEF Reached

\* One field more.
LEMMA ReachedOneMore ==
  ASSUME NEW P, NEW s, NEW k \in Nat, NEW q, Reached(P, s, k, q),
         NEW q2 \in Nat, Step(P, s[k + 1], q, q2)
  PROVE  Reached(P, s, k + 1, q2)
  <1>1. PICK pos \in [0 .. k -> Nat] :
          /\ pos[0] = 1 /\ pos[k] = q
          /\ \A i \in 1 .. k : Step(P, s[i], pos[i - 1], pos[i])
    BY DEF Reached
  <1> DEFINE more == [i \in 0 .. k + 1 |-> IF i <= k THEN pos[i] ELSE q2]
  <1>2. /\ more \in [0 .. k + 1 -> Nat] /\ more[k + 1] = q2
        /\ \A i \in 0 .. k : more[i] = pos[i]
    OBVIOUS
  <1> HIDE DEF more
  <1>3. ASSUME NEW i \in 1 .. k + 1
        PROVE  Step(P, s[i], more[i - 1], more[i])
    <2>1. CASE i = k + 1
      <3>1. i - 1 = k /\ k \in 0 .. k
        BY <2>1
      <3>2. more[i - 1] = q /\ more[i] = q2
        BY <1>1, <1>2, <2>1, <3>1
      <3>3. QED
        BY <2>1, <3>2
    <2>2. CASE i # k + 1
      <3>1. i \in 1 .. k /\ i \in 0 .. k /\ i - 1 \in 0 .. k
        BY <2>2
      <3>2. QED
        BY <1>1, <1>2, <3>1
    <2>3. QED
      BY <2>1, <2>2
  <1>4. more[0] = 1
    BY <1>1, <1>2
  <1>5. QED
    BY <1>2, <1>3, <1>4 DEF Reached

\* The first k fields of a message are written, or as much as there was room for.
Progress(v, m, k) ==
  /\ ~ v.overflow =>
       LET P == Buffered(v.cells, Tab(v, InstanceParts(m)), 0, FALSE)
       IN  Readable(P) /\ Reached(P, Items(m), k, Len(v.cells) + 1)
  /\ v.overflow =>
       \E tab, lim : LET P == Buffered(v.cells, tab, lim, TRUE)
                     IN  Readable(P) /\ Reached(P, Items(m), k, 0)

\* So are the first k + 1 when one more has been written.
LEMMA AfterField ==
  ASSUME NEW m, NEW k \in Nat, NEW v, NEW x, Len(v.cells) \in Nat, Len(x.cells) \in Nat,
         Progress(v, m, k), FieldPut(v, x, Items(m)[k + 1], InstanceParts(m))
  PROVE  Progress(x, m, k + 1)
  <1> DEFINE ip == InstanceParts(m)
             s == Items(m)
             f == s[k + 1]
             p == Len(v.cells) + 1
             q == Len(x.cells) + 1
             P == Buffered(v.cells, Tab(v, ip), 0, FALSE)
  <1>1. p \in Nat /\ q \in Nat /\ p # 0 /\ 0 \in Nat
    OBVIOUS
  <1>2. FieldPut(v, x, f, ip)
    OBVIOUS
  <1>3. ~ v.overflow => Readable(P) /\ Reached(P, s, k, p)
    BY DEF Progress
  <1> HIDE DEF ip, s, P
  <1>4. CASE ~ x.overflow
    <2> DEFINE P2 == Buffered(x.cells, Tab(x, ip), 0, FALSE)
    <2>1. /\ ~ v.overflow /\ Faithful(x.cells, Tab(x, ip)) /\ Stands(P2, f, p, q)
          /\ Improves(v.cells, x.cells) /\ Tab(v, ip) \subseteq Tab(x, ip)
      BY <1>2, <1>4 DEF FieldPut
    <2>2. /\ P2.cells = x.cells /\ P2.tab = Tab(x, ip) /\ P2.lim = 0 /\ P2.cut = FALSE
      BY DEF Buffered
    <2>3. Readable(P2)
      BY <1>1, <2>1, <2>2 DEF Readable
    <2>4. Step(P2, f, p, q)
      BY <1>1, <2>1 DEF Step
    <2>5. Later(P, P2)
      BY <2>1, <2>2 DEF Later, Buffered, P
    <2> HIDE DEF P2, p, q
    <2>6. Reached(P2, s, k, p)
      BY <1>3, <2>1, <2>5, ReachedStays
    <2>7. Reached(P2, s, k + 1, q)
      BY <1>1, <2>4, <2>6, ReachedOneMore
    <2>8. QED
      BY <1>4, <2>3, <2>7 DEF Progress, P2, ip, s, q
  <1>5. CASE x.overflow /\ ~ v.overflow
    <2> DEFINE tab == Tab(v, ip)
               lim == Len(v.cells)
               P2 == Buffered(x.cells, tab, lim, TRUE)
    <2>1. Improves(v.cells, x.cells) /\ OnlySegments(v, x) /\ f.put # "fill"
      BY <1>2, <1>5 DEF FieldPut
    <2>2. P2.cells = x.cells /\ P2.tab = tab /\ P2.lim = lim /\ P2.cut = TRUE
      BY DEF Buffered
    <2>3. P.cells = v.cells /\ P.tab = tab
      BY DEF Buffered, P
    <2>4. Faithful(v.cells, tab)
      BY <1>3, <1>5, <2>3 DEF Readable
    <2>5. Faithful(x.cells, tab)
      <3> HIDE DEF tab
      <3>1. QED
        BY <2>1, <2>4, FaithfulStays
    <2>6. \A i \in lim + 1 .. Len(x.cells) : x.cells[i].k \in {"len", "text"}
      BY <2>1 DEF OnlySegments
    <2>7. Readable(P2)
      BY <2>2, <2>5, <2>6 DEF Readable
    <2>8. Step(P2, f, p, 0)
      BY <2>1, <2>2 DEF Step
    <2>9. Later(P, P2) /\ P2 = Buffered(x.cells, tab, lim, TRUE)
      BY <2>1, <2>2 DEF Later, Buffered, P
    <2> HIDE DEF P2, p, q, tab, lim
    <2>10. Reached(P2, s, k, p)
      BY <1>3, <1>5, <2>9, ReachedStays
    <2>11. Reached(P2, s, k + 1, 0)
      BY <1>1, <2>8, <2>10, ReachedOneMore
    <2>12. QED
      BY <1>5, <2>7, <2>9, <2>11 DEF Progress, ip, s
  <1>6. CASE v.overflow
    <2>1. x.overflow /\ x.cells = v.cells
      BY <1>2, <1>6 DEF FieldPut
    <2>2. PICK tab, lim : LET R == Buffered(v.cells, tab, lim, TRUE)
                          IN  Readable(R) /\ Reached(R, s, k, 0)
      BY <1>6 DEF Progress, s
    <2> DEFINE R == Buffered(v.cells, tab, lim, TRUE)
    <2>3. Readable(R) /\ Reached(R, s, k, 0) /\ R = Buffered(x.cells, tab, lim, TRUE)
      BY <2>1, <2>2
    <2>4. Step(R, f, 0, 0)
      BY DEF Step
    <2> HIDE DEF R
    <2>5. Reached(R, s, k + 1, 0)
      BY <1>1, <2>3, <2>4, ReachedOneMore
    <2>6. QED
      BY <2>1, <2>3, <2>5 DEF Progress, s
  <1>7. QED
    BY <1>4, <1>5, <1>6

-----------------------------------------------------------------------------
(* What each kind of field does                                            *)

\* The reserved places that were not filled yet.
Holes(c) == {i \in 1 .. Len(c) : c[i] = Hole}

\* What a cell that was written makes of them.
HolesAfter(v, x, cell) ==
  ~ x.overflow =>
    /\ cell # Hole => Holes(x.cells) = Holes(v.cells)
    /\ cell = Hole => Holes(x.cells) = Holes(v.cells) \cup {Len(v.cells) + 1}

\* A number is one cell, and so is the place for a length.
LEMMA CellIsPut ==
  ASSUME NEW v, Good(v), NEW ip, v.overflow \/ Faithful(v.cells, Tab(v, ip)),
         NEW f, NEW cell \in Cells, NEW x, x = Write(v, <<cell>>),
         \/ f.put = "number" /\ cell = Num(f.v)
         \/ f.put = "reserve" /\ cell = Hole
  PROVE  /\ FieldPut(v, x, f, ip)
         /\ HolesAfter(v, x, cell)
  <1> DEFINE new == <<cell>>
             p == Len(v.cells) + 1
             q == Len(x.cells) + 1
  <1>1. new \in Seq(Cells) /\ Len(new) = 1 /\ new[1] = cell
    BY OneInAList
  <1>2. v \in Writers /\ x = Write(v, new)
    BY DEF Good
  <1> HIDE DEF new
  <1>3. /\ x \in Writers /\ x.lookup = v.lookup
        /\ v.overflow => x = v
        /\ x.overflow => x.cells = v.cells
        /\ ~ x.overflow => Has(v, new, x)
    BY <1>1, <1>2, WriteDoes
  <1>4. Len(v.cells) \in Nat /\ Len(x.cells) \in Nat
    BY <1>2, <1>3, LenProperties DEF Writers
  <1>5. Tab(x, ip) = Tab(v, ip)
    BY <1>3 DEF Tab
  <1>6. ASSUME ~ x.overflow
        PROVE  /\ ~ v.overflow /\ Len(x.cells) = p /\ q = p + 1 /\ x.cells[p] = cell
               /\ \A i \in 1 .. Len(v.cells) : x.cells[i] = v.cells[i]
    <2>1. 1 \in 1 .. Len(new)
      BY <1>1
    <2>2. QED
      BY <1>1, <1>3, <1>6, <2>1 DEF Has
  <1>7. Improves(v.cells, x.cells)
    <2>1. CASE x.overflow
      BY <1>3, <1>4, <2>1 DEF Improves
    <2>2. CASE ~ x.overflow
      BY <1>4, <1>6, <2>2 DEF Improves
    <2>3. QED
      BY <2>1, <2>2
  <1>8. x.overflow => OnlySegments(v, x)
    BY <1>3, <1>4 DEF OnlySegments
  <1>9. f.put # "fill"
    OBVIOUS
  <1>10. ASSUME ~ x.overflow
         PROVE  /\ ~ v.overflow /\ Faithful(x.cells, Tab(x, ip))
                /\ Stands(Buffered(x.cells, Tab(x, ip), 0, FALSE), f, p, q)
    <2> DEFINE P == Buffered(x.cells, Tab(x, ip), 0, FALSE)
    <2>1. ~ v.overflow /\ Faithful(v.cells, Tab(v, ip))
      BY <1>6, <1>10
    <2>2. Faithful(x.cells, Tab(x, ip))
      <3> DEFINE tab == Tab(v, ip)
      <3>1. Faithful(v.cells, tab) /\ Improves(v.cells, x.cells)
        BY <1>7, <2>1
      <3> HIDE DEF tab
      <3>2. Faithful(x.cells, tab)
        BY <3>1, FaithfulStays
      <3>3. QED
        BY <1>5, <3>2 DEF tab
    <2>3. P.cells = x.cells
      BY DEF Buffered
    <2>4. p <= Len(x.cells) /\ x.cells[p] = cell /\ q = p + 1
      BY <1>4, <1>6, <1>10
    <2> HIDE DEF P, p, q
    <2>5. CASE f.put = "number" /\ cell = Num(f.v)
      BY <2>1, <2>2, <2>3, <2>4, <2>5 DEF Stands, P
    <2>6. CASE f.put = "reserve" /\ cell = Hole
      BY <2>1, <2>2, <2>3, <2>4, <2>6 DEF Stands, P
    <2>7. QED
      BY <2>5, <2>6
  <1>11. FieldPut(v, x, f, ip)
    <2>1. v.overflow => x.overflow /\ x.cells = v.cells
      BY <1>3
    <2>2. Tab(v, ip) \subseteq Tab(x, ip)
      BY <1>5
    <2>3. QED
      BY <1>7, <1>8, <1>9, <1>10, <2>1, <2>2 DEF FieldPut
  <1>12. ASSUME ~ x.overflow
         PROVE  /\ cell # Hole => Holes(x.cells) = Holes(v.cells)
                /\ cell = Hole => Holes(x.cells) = Holes(v.cells) \cup {p}
    <2>1. \A i \in 1 .. Len(x.cells) : i = p \/ i \in 1 .. Len(v.cells)
      BY <1>4, <1>6, <1>12
    <2>2. p \in 1 .. Len(x.cells) /\ \A i \in 1 .. Len(v.cells) : i \in 1 .. Len(x.cells)
      BY <1>4, <1>6, <1>12
    <2> HIDE DEF p
    <2>3. cell # Hole => Holes(x.cells) = Holes(v.cells)
      BY <1>6, <1>12, <2>1, <2>2 DEF Holes
    <2>4. cell = Hole => Holes(x.cells) = Holes(v.cells) \cup {p}
      BY <1>6, <1>12, <2>1, <2>2 DEF Holes
    <2>5. QED
      BY <2>3, <2>4
  <1>13. HolesAfter(v, x, cell)
    BY <1>12 DEF HolesAfter
  <1>14. QED
    BY <1>11, <1>13

\* No place is reserved in a name.
LEMMA NoHoleInName ==
  ASSUME NEW c, Len(c) \in Nat, NEW tab, NEW name \in Seq(STRING), NEW p, NEW q, NEW n,
         Spelled(c, tab, name, p, q, n)
  PROVE  \A i \in p .. q - 1 : c[i] # Hole
  <1>1. AreSegments(c, p, q - 1)
    BY RunIsRead
  <1>2. p \in Nat /\ q - 1 \in Nat
    BY LenProperties DEF Spelled
  <1>3. Hole.k = "hole" /\ End.k = "end" /\ \A at : Ptr(at).k = "ptr"
    BY DEF Hole, End, Ptr
  <1>4. ASSUME NEW i \in p .. q - 1
        PROVE  c[i] # Hole
    <2>1. CASE i = q - 1
      <3>1. c[q - 1] = End \/ \E at : c[q - 1] = Ptr(at)
        BY DEF Spelled
      <3>2. QED
        BY <1>3, <2>1, <3>1
    <2>2. CASE i # q - 1
      <3>1. i \in p .. q - 1 - 1
        BY <1>2, <2>2
      <3>2. c[i].k = "len" \/ c[i].k = "text"
        BY <1>1, <3>1 DEF AreSegments
      <3>3. QED
        BY <1>3, <3>2
    <2>3. QED
      BY <2>1, <2>2
  <1>5. QED
    BY <1>4

\* A name that was written is a field that was.
LEMMA NameIsPut ==
  ASSUME NEW v, Good(v), NEW ip, NEW f, f.put \in {"name", "copy"},
         NEW x \in KeptBy(v), ~ v.overflow => IsName(NameIn(f)) /\ NameWritten(v, x, NameIn(f), ip)
  PROVE  /\ FieldPut(v, x, f, ip)
         /\ ~ x.overflow => Holes(x.cells) = Holes(v.cells)
  <1> DEFINE p == Len(v.cells) + 1
             q == Len(x.cells) + 1
             name == NameIn(f)
  <1>1. v \in Writers /\ x \in Writers /\ Grows(v, x)
    BY DEF Good, KeptBy
  <1>2. /\ Len(v.cells) \in Nat /\ Len(x.cells) \in Nat /\ DOMAIN v.cells = 1 .. Len(v.cells)
        /\ v.overflow \in BOOLEAN /\ x.overflow \in BOOLEAN
    BY <1>1, LenProperties DEF Writers
  <1>3. Improves(v.cells, x.cells) /\ Tab(v, ip) \subseteq Tab(x, ip)
    BY <1>1, GrowingImproves, TableGrows
  <1>4. v.overflow => x.overflow /\ x.cells = v.cells
    BY <1>1 DEF Grows
  <1>5. ~ v.overflow /\ x.overflow => OnlySegments(v, x)
    BY DEF NameWritten
  <1>6. ASSUME ~ x.overflow
        PROVE  /\ ~ v.overflow /\ IsName(name) /\ Faithful(x.cells, Tab(x, ip))
               /\ \E n \in Nat : Spelled(x.cells, Tab(x, ip), name, p, q, n)
    BY <1>4, <1>6 DEF NameWritten
  <1>7. ASSUME ~ x.overflow
        PROVE  Stands(Buffered(x.cells, Tab(x, ip), 0, FALSE), f, p, q)
    <2> DEFINE P == Buffered(x.cells, Tab(x, ip), 0, FALSE)
    <2>1. P.cells = x.cells /\ P.tab = Tab(x, ip)
      BY DEF Buffered
    <2>2. f.put # "number" /\ f.put # "reserve" /\ f.put # "fill"
      OBVIOUS
    <2> HIDE DEF P, p, q
    <2>3. Stands(P, f, p, q)
      BY <1>6, <1>7, <2>1, <2>2 DEF Stands
    <2>4. QED
      BY <2>3 DEF P
  <1>8. FieldPut(v, x, f, ip)
    <2>1. f.put # "fill"
      OBVIOUS
    <2>2. QED
      BY <1>3, <1>4, <1>5, <1>6, <1>7, <2>1 DEF FieldPut
  <1>9. ASSUME ~ x.overflow
        PROVE  Holes(x.cells) = Holes(v.cells)
    <2>1. PICK n \in Nat : Spelled(x.cells, Tab(x, ip), name, p, q, n)
      BY <1>6, <1>9
    <2>2. name \in Seq(STRING)
      BY <1>6, <1>9 DEF IsName
    <2> HIDE DEF p, q, name
    <2>3. \A i \in p .. q - 1 : x.cells[i] # Hole
      BY <1>2, <2>1, <2>2, NoHoleInName
    <2>4. \A i \in 1 .. Len(x.cells) : i \in p .. q - 1 \/ i \in 1 .. Len(v.cells)
      BY <1>2 DEF p, q
    <2>5. \A i \in 1 .. Len(v.cells) : i \in 1 .. Len(x.cells) /\ x.cells[i] = v.cells[i]
      BY <1>1, <1>2 DEF Grows
    <2>6. QED
      BY <2>3, <2>4, <2>5 DEF Holes
  <1>10. QED
    BY <1>8, <1>9

\* The place that was reserved is filled.
LEMMA PlaceIsFilled ==
  ASSUME NEW v, Good(v), NEW ip, v.overflow \/ Faithful(v.cells, Tab(v, ip)),
         NEW f, f.put = "fill", NEW at \in Nat, ~ v.overflow => at + 1 \in Holes(v.cells),
         NEW x, x = WriteReservation(v, at, Num("length"))
  PROVE  /\ FieldPut(v, x, f, ip)
         /\ ~ x.overflow => Holes(x.cells) = Holes(v.cells) \ {at + 1}
  <1>1. /\ v \in Writers /\ v.cells \in Seq(Cells) /\ v.overflow \in BOOLEAN
        /\ Len(v.cells) \in Nat /\ DOMAIN v.cells = 1 .. Len(v.cells)
    BY LenProperties DEF Good, Writers
  <1>2. CASE v.overflow
    <2>1. x = v
      BY <1>2 DEF WriteReservation
    <2>2. QED
      BY <1>2, <2>1 DEF FieldPut
  <1>3. CASE ~ v.overflow
    <2> DEFINE cells == [v.cells EXCEPT ![at + 1] = Num("length")]
               P == Buffered(x.cells, Tab(x, ip), 0, FALSE)
    <2>1. x = [v EXCEPT !.cells = cells]
      BY <1>3 DEF WriteReservation
    <2>2. at + 1 \in 1 .. Len(v.cells) /\ v.cells[at + 1] = Hole
      BY <1>3 DEF Holes
    <2>3. Num("length") \in Cells /\ Num("length") # Hole
      BY DEF Cells, Num, Values, Hole
    <2>4. /\ cells \in Seq(Cells) /\ Len(cells) = Len(v.cells)
          /\ cells[at + 1] = Num("length")
          /\ \A i \in 1 .. Len(v.cells) : i # at + 1 => cells[i] = v.cells[i]
      BY <1>1, <2>2, <2>3, ExceptSeq
    <2> HIDE DEF cells
    <2>5. x.overflow = FALSE /\ x.cells = cells /\ x.lookup = v.lookup
      BY <1>1, <1>3, <2>1 DEF Writers
    <2>6. Improves(v.cells, x.cells)
      BY <1>1, <2>2, <2>4, <2>5 DEF Improves
    <2>7. Tab(x, ip) = Tab(v, ip)
      BY <2>5 DEF Tab
    <2>8. Faithful(x.cells, Tab(x, ip))
      <3> DEFINE tab == Tab(v, ip)
      <3>1. Faithful(v.cells, tab)
        BY <1>3
      <3> HIDE DEF tab
      <3>2. Faithful(x.cells, tab)
        BY <2>6, <3>1, FaithfulStays
      <3>3. QED
        BY <2>7, <3>2 DEF tab
    <2>9. Stands(P, f, Len(v.cells) + 1, Len(x.cells) + 1)
      <3>1. Len(v.cells) + 1 = Len(x.cells) + 1
        BY <2>4, <2>5
      <3> HIDE DEF P
      <3>2. QED
        BY <3>1 DEF Stands
    <2>10. FieldPut(v, x, f, ip)
      BY <1>3, <2>5, <2>6, <2>7, <2>8, <2>9 DEF FieldPut
    <2>11. Holes(x.cells) = Holes(v.cells) \ {at + 1}
      BY <2>2, <2>3, <2>4, <2>5 DEF Holes
    <2>12. QED
      BY <2>10, <2>11
  <1>4. QED
    BY <1>1, <1>2, <1>3

-----------------------------------------------------------------------------
(* The fields of a message                                                 *)

\* A field of one of the kinds there are, and its name can be read.
Meant(f, ip) ==
  /\ f.put \in {"number", "name", "copy", "reserve", "fill"}
  /\ f.put = "name" => NameMeant(f, ip)
  /\ f.put = "copy" => IsName(f.segs)

\* open: after how many fields a place for a length is reserved and not filled.
Toggles(f, i, open) ==
  CASE f.put = "reserve" -> i - 1 \notin open /\ i \in open
    [] f.put = "fill"    -> i - 1 \in open /\ i \notin open
    [] OTHER             -> (i - 1 \in open <=> i \in open)

Paired(s, open) ==
  /\ open \subseteq 0 .. Len(s) /\ 0 \notin open /\ Len(s) \notin open
  /\ \A i \in 1 .. Len(s) : Toggles(s[i], i, open)

\* Fields that are meant, each place among them filled before the next is made.
Tidy(s, ip) ==
  /\ s \in Seq(Range(s)) /\ \A f \in Range(s) : Meant(f, ip)
  /\ \E open : Paired(s, open)

\* No fields are tidy.
LEMMA NothingIsTidy ==
  ASSUME NEW ip
  PROVE  Tidy(<<>>, ip)
  <1>1. <<>> \in Seq({}) /\ Len(<<>>) = 0 /\ Range(<<>>) = {}
    BY EmptySeq DEF Range
  <1>2. Paired(<<>>, {})
    BY <1>1 DEF Paired
  <1>3. QED
    BY <1>1, <1>2 DEF Tidy

\* So is one that reserves and fills nothing.
LEMMA OneIsTidy ==
  ASSUME NEW ip, NEW f, Meant(f, ip), f.put \notin {"reserve", "fill"}
  PROVE  Tidy(<<f>>, ip)
  <1> DEFINE s == <<f>>
  <1>1. s \in Seq({f}) /\ Len(s) = 1 /\ s[1] = f
    BY OneInAList
  <1>2. Range(s) = {f}
    BY DEF Range
  <1> HIDE DEF s
  <1>3. Paired(s, {})
    <2>1. \A i \in 1 .. Len(s) : s[i].put \notin {"reserve", "fill"}
      BY <1>1
    <2>2. QED
      BY <1>1, <2>1 DEF Paired, Toggles
  <1>4. Tidy(s, ip)
    BY <1>1, <1>2, <1>3 DEF Tidy
  <1>5. QED
    BY <1>4 DEF s

\* Tidy fields behind tidy fields.
LEMMA TidyJoined ==
  ASSUME NEW ip, NEW s, NEW t, Tidy(s, ip), Tidy(t, ip)
  PROVE  Tidy(s \o t, ip)
  <1> DEFINE both == s \o t
             T == Range(s) \cup Range(t)
             n == Len(s)
             l == Len(t)
  <1>1. s \in Seq(T) /\ t \in Seq(T)
    BY SeqMonotonic DEF Tidy
  <1>2. both \in Seq(T) /\ Range(both) = T
    BY <1>1, ConcatProperties, RangeConcatenation
  <1>3. \A f \in T : Meant(f, ip)
    BY DEF Tidy
  <1>4. n \in Nat /\ l \in Nat
    BY <1>1, LenProperties
  <1>5. /\ Len(both) = n + l
        /\ \A i \in 1 .. n : both[i] = s[i]
        /\ \A j \in 1 .. l : both[n + j] = t[j]
    BY <1>1, <1>4, ConcatProperties
  <1> HIDE DEF both, T, n, l
  <1>6. PICK a : Paired(s, a)
    BY DEF Tidy
  <1>7. PICK b : Paired(t, b)
    BY DEF Tidy
  <1> DEFINE open == a \cup {n + j : j \in b}
  <1>8. /\ a \subseteq 0 .. n /\ 0 \notin a /\ n \notin a
        /\ b \subseteq 0 .. l /\ 0 \notin b /\ l \notin b
    BY <1>6, <1>7 DEF Paired, n, l
  <1>9. \A i \in 0 .. n : i \in open <=> i \in a
    <2>1. \A i \in 0 .. n, j \in b : i # n + j
      BY <1>4, <1>8
    <2>2. QED
      BY <2>1
  <1>10. \A j \in 0 .. l : n + j \in open <=> j \in b
    <2>1. \A j \in 0 .. l : n + j \notin a
      BY <1>4, <1>8
    <2>2. \A j \in 0 .. l, i \in b : n + j = n + i => j = i
      BY <1>4, <1>8
    <2>3. QED
      BY <2>1, <2>2
  <1>11. open \subseteq 0 .. n + l
    <2>1. \A i \in a : i \in 0 .. n + l
      BY <1>4, <1>8
    <2>2. \A j \in b : n + j \in 0 .. n + l
      BY <1>4, <1>8
    <2>3. QED
      BY <2>1, <2>2
  <1> HIDE DEF open
  <1>12. 0 \notin open /\ n + l \notin open
    BY <1>4, <1>8, <1>9, <1>10
  <1>13. ASSUME NEW i \in 1 .. n + l
         PROVE  Toggles(both[i], i, open)
    <2>1. CASE i <= n
      <3>1. i \in 1 .. n /\ i \in 0 .. n /\ i - 1 \in 0 .. n
        BY <1>4, <2>1
      <3>2. (i \in open <=> i \in a) /\ (i - 1 \in open <=> i - 1 \in a)
        BY <1>9, <3>1
      <3>3. Toggles(s[i], i, a)
        BY <1>6, <3>1 DEF Paired, n
      <3>4. both[i] = s[i]
        BY <1>5, <3>1
      <3>5. QED
        BY <3>2, <3>3, <3>4 DEF Toggles
    <2>2. CASE ~ (i <= n)
      <3> DEFINE j == i - n
      <3>1. j \in 1 .. l /\ j \in 0 .. l /\ j - 1 \in 0 .. l /\ i = n + j /\ i - 1 = n + (j - 1)
        BY <1>4, <2>2
      <3> HIDE DEF j
      <3>2. (i \in open <=> j \in b) /\ (i - 1 \in open <=> j - 1 \in b)
        BY <1>10, <3>1
      <3>3. Toggles(t[j], j, b)
        BY <1>7, <3>1 DEF Paired, l
      <3>4. both[i] = t[j]
        BY <1>5, <3>1
      <3>5. QED
        BY <3>2, <3>3, <3>4 DEF Toggles
    <2>3. QED
      BY <2>1, <2>2
  <1>14. Paired(both, open)
    BY <1>5, <1>11, <1>12, <1>13 DEF Paired
  <1>15. Tidy(both, ip)
    BY <1>2, <1>3, <1>14 DEF Tidy
  <1>16. QED
    BY <1>15 DEF both

\* The tidy fields of each item of a list.
LEMMA TidyFlat ==
  ASSUME NEW ip, NEW n \in Nat, NEW xs, xs = [i \in 1 .. n |-> xs[i]],
         \A i \in 1 .. n : Tidy(xs[i], ip)
  PROVE  Tidy(FlattenSeq(xs), ip)
  <1>1. Len(xs) = n
    <2> DEFINE S == {xs[i] : i \in 1 .. n}
    <2>1. xs \in Seq(S)
      <3>1. \A i \in 1 .. n : xs[i] \in S
        OBVIOUS
      <3> HIDE DEF S
      <3>2. QED
        BY <3>1, IsASeq
    <2>2. Len(xs) \in Nat /\ DOMAIN xs = 1 .. Len(xs) /\ DOMAIN xs = 1 .. n
      BY <2>1, LenProperties
    <2> HIDE DEF S
    <2>3. QED
      BY <2>2
  <1>2. CASE n = 0
    <2>1. xs = <<>>
      BY <1>2
    <2>2. FlattenSeq(xs) = <<>>
      BY <2>1 DEF FlattenSeq
    <2>3. QED
      BY <2>2, NothingIsTidy
  <1>3. CASE n # 0
    <2>1. PICK flat : /\ FlattenSeq(xs) = flat[Len(xs)] /\ flat[1] = xs[1]
                      /\ \A k \in 2 .. Len(xs) : flat[k] = flat[k - 1] \o xs[k]
      <3>1. Len(xs) \in Nat /\ Len(xs) # 0
        BY <1>1, <1>3
      <3>2. QED
        BY Zenon, <3>1, FlattenSteps
    <2> DEFINE T == {k \in 0 .. n : k # 0 => Tidy(flat[k], ip)}
    <2>2. 0 \in T
      OBVIOUS
    <2>3. ASSUME NEW k \in 1 .. n, k - 1 \in T
          PROVE  k \in T
      <3>1. CASE k = 1
        <4>1. Tidy(flat[k], ip)
          BY <2>1, <3>1
        <4>2. QED
          BY <4>1
      <3>2. CASE k # 1
        <4>1. k \in 2 .. Len(xs) /\ k - 1 # 0
          BY <1>1, <3>2
        <4>2. flat[k] = flat[k - 1] \o xs[k] /\ Tidy(flat[k - 1], ip)
          BY <2>1, <2>3, <4>1
        <4>3. Tidy(flat[k], ip)
          BY <4>2, TidyJoined
        <4>4. QED
          BY <4>3
      <3>3. QED
        BY <3>1, <3>2
    <2> HIDE DEF T
    <2>4. \A k \in 0 .. n : k \in T
      BY <2>2, <2>3, CountUp
    <2>5. n \in T
      BY <2>4
    <2>6. QED
      BY <1>1, <1>3, <2>1, <2>5 DEF T
  <1>4. QED
    BY <1>2, <1>3

\* A name that does not end like a part of an instance.
Apart(name, ip) == IsName(name) /\ <<Last(name)>> \notin ip

\* Numbers and names are tidy.
LEMMA SimpleIsTidy ==
  ASSUME NEW ip
  PROVE  /\ \A x : Tidy(Number(x), ip)
         /\ \A name : Apart(name, ip) => Tidy(Whole(name), ip)
         /\ \A name : IsName(name) => Tidy(Copy(name), ip)
  <1>1. ASSUME NEW x
        PROVE  Tidy(Number(x), ip)
    <2> DEFINE f == [put |-> "number", v |-> x]
    <2>1. f.put = "number" /\ Number(x) = <<f>>
      BY DEF Number
    <2> HIDE DEF f
    <2>2. Meant(f, ip)
      BY <2>1 DEF Meant
    <2>3. QED
      BY <2>1, <2>2, OneIsTidy
  <1>2. ASSUME NEW name, Apart(name, ip)
        PROVE  Tidy(Whole(name), ip)
    <2> DEFINE f == [put |-> "name", parts |-> <<name>>]
    <2>1. f.put = "name" /\ f.parts = <<name>> /\ Whole(name) = <<f>>
      BY DEF Whole, Name
    <2> HIDE DEF f
    <2>2. f.parts[1] = name
      BY <2>1
    <2>3. NameMeant(f, ip)
      BY <1>2, <2>1, <2>2 DEF NameMeant, Apart
    <2>4. Meant(f, ip)
      BY <2>1, <2>3 DEF Meant
    <2>5. QED
      BY <2>1, <2>4, OneIsTidy
  <1>3. ASSUME NEW name, IsName(name)
        PROVE  Tidy(Copy(name), ip)
    <2> DEFINE f == [put |-> "copy", segs |-> name]
    <2>1. f.put = "copy" /\ f.segs = name /\ Copy(name) = <<f>>
      BY DEF Copy
    <2> HIDE DEF f
    <2>2. Meant(f, ip)
      BY <1>3, <2>1 DEF Meant
    <2>3. QED
      BY <2>1, <2>2, OneIsTidy
  <1>4. QED
    BY <1>1, <1>2, <1>3

\* The field of an instance name.
Pushed(name) == [put |-> "name", parts |-> << <<Head(name)>>, Tail(name) >>]

\* It is tidy if its first segment is known to be the part of an instance.
LEMMA InstanceIsTidy ==
  ASSUME NEW ip, NEW name, Apart(name, ip), <<Head(name)>> \in ip
  PROVE  /\ Instance(name) = <<Pushed(name)>> /\ Pushed(name).put = "name"
         /\ Meant(Pushed(name), ip) /\ Tidy(Instance(name), ip)
  <1> DEFINE f == Pushed(name)
             h == Head(name)
             t == Tail(name)
  <1>1. /\ name \in Seq(STRING) /\ name # <<>> /\ Len(name) \in Nat /\ Len(name) # 0
        /\ <<Last(name)>> \notin ip
    BY LenProperties, EmptySeq DEF Apart, IsName
  <1>2. /\ h \in STRING /\ h = name[1] /\ t \in Seq(STRING) /\ Len(t) = Len(name) - 1
        /\ \A i \in 1 .. Len(t) : t[i] = name[i + 1]
    BY <1>1, HeadTailProperties
  <1>3. Len(name) # 1
    BY <1>1, <1>2 DEF Last
  <1>4. IsName(t) /\ Last(t) = Last(name)
    <2> DEFINE l == Len(t)
    <2>1. l \in Nat /\ l # 0 /\ l \in 1 .. l /\ l + 1 = Len(name)
      BY <1>1, <1>2, <1>3
    <2>2. t # <<>>
      BY <1>2, <2>1, EmptySeq
    <2>3. t[l] = name[l + 1]
      BY <1>2, <2>1
    <2>4. QED
      BY <1>2, <2>1, <2>2, <2>3 DEF IsName, Last
  <1> HIDE DEF h, t
  <1>5. f.put = "name" /\ f.parts = << <<h>>, t >> /\ Instance(name) = <<f>>
    BY DEF Pushed, Instance, Name, h, t
  <1> HIDE DEF f
  <1>6. f.parts[2] = t
    BY <1>5
  <1>7. <<h>> \in ip
    BY DEF h
  <1>8. NameMeant(f, ip)
    BY <1>1, <1>2, <1>4, <1>5, <1>6, <1>7 DEF NameMeant
  <1>9. Meant(f, ip)
    BY <1>5, <1>8 DEF Meant
  <1>10. Tidy(<<f>>, ip)
    BY <1>5, <1>9, OneIsTidy
  <1>11. QED
    BY <1>5, <1>9, <1>10 DEF f

\* The fields of a question.
LEMMA QueryIsTidy ==
  ASSUME NEW ip, NEW q, Apart(q.name, ip), NEW kind
  PROVE  Tidy(QueryItems(q, kind), ip)
  <1> DEFINE a == IF kind = "request" THEN Whole(q.name) ELSE Copy(q.name)
  <1>1. Tidy(a, ip)
    BY SimpleIsTidy DEF Apart
  <1>2. Tidy(Number(q.qtype), ip) /\ Tidy(Number(q.qclass), ip)
    BY SimpleIsTidy
  <1>3. QueryItems(q, kind) = (a \o Number(q.qtype)) \o Number(q.qclass)
    BY DEF QueryItems
  <1> HIDE DEF a
  <1>4. Tidy(a \o Number(q.qtype), ip)
    BY <1>1, <1>2, TidyJoined
  <1>5. QED
    BY <1>2, <1>3, <1>4, TidyJoined

\* The names of a record.
RecordApart(rec, ip) ==
  /\ rec.type = "PTR" => Apart(rec.name, ip) /\ <<Head(rec.name)>> \in ip
  /\ rec.type = "SRV" => Apart(rec.target, ip)

\* The length of a record with a name in it is reserved, and then filled.
LEMMA FilledIsTidy ==
  ASSUME NEW ip, NEW s, Tidy(s, ip), Len(s) \in {1, 2},
         \A i \in 1 .. Len(s) : s[i].put \notin {"reserve", "fill"}
  PROVE  Tidy((Reserved \o s) \o Filled, ip)
  <1> DEFINE r == [put |-> "reserve"]
             e == [put |-> "fill"]
             both == (Reserved \o s) \o Filled
             n == Len(s)
             T == {r, e} \cup Range(s)
             open == 1 .. n + 1
  <1>1. r.put = "reserve" /\ e.put = "fill" /\ Meant(r, ip) /\ Meant(e, ip)
    BY DEF Meant
  <1>2. Reserved = <<r>> /\ Filled = <<e>>
    BY DEF Reserved, Filled
  <1>3. s \in Seq(T) /\ r \in T /\ e \in T /\ \A f \in T : Meant(f, ip)
    BY <1>1, SeqMonotonic DEF Tidy
  <1>4. n \in Nat
    OBVIOUS
  <1> HIDE DEF r, e, T
  <1>5. /\ Reserved \in Seq(T) /\ Len(Reserved) = 1 /\ Reserved[1] = r
        /\ Filled \in Seq(T) /\ Len(Filled) = 1 /\ Filled[1] = e
    BY <1>2, <1>3, OneInAList
  <1> DEFINE a == Reserved \o s
  <1>6. /\ a \in Seq(T) /\ Len(a) = 1 + n
        /\ \A i \in 1 .. 1 : a[i] = Reserved[i]
        /\ \A j \in 1 .. n : a[1 + j] = s[j]
    <2>1. a \in Seq(T) /\ Len(a) = Len(Reserved) + Len(s)
      BY <1>3, <1>5, ConcatProperties
    <2>2. \A i \in 1 .. Len(Reserved) : a[i] = Reserved[i]
      BY <1>3, <1>5, ConcatProperties
    <2>3. \A j \in 1 .. Len(s) : a[Len(Reserved) + j] = s[j]
      BY <1>3, <1>5, ConcatProperties
    <2>4. QED
      BY <1>5, <2>1, <2>2, <2>3
  <1>7. both = a \o Filled
    OBVIOUS
  <1> HIDE DEF a, both
  <1>8. /\ both \in Seq(T) /\ Len(both) = n + 2
        /\ \A i \in 1 .. 1 + n : both[i] = a[i]
        /\ \A j \in 1 .. 1 : both[1 + n + j] = Filled[j]
    <2>1. both \in Seq(T) /\ Len(both) = Len(a) + Len(Filled)
      BY <1>5, <1>6, <1>7, ConcatProperties
    <2>2. \A i \in 1 .. Len(a) : both[i] = a[i]
      BY <1>5, <1>6, <1>7, ConcatProperties
    <2>3. \A j \in 1 .. Len(Filled) : both[Len(a) + j] = Filled[j]
      <3>1. a \in Seq(T) /\ Filled \in Seq(T)
        BY <1>5, <1>6
      <3>2. \A j \in 1 .. Len(Filled) : (a \o Filled)[Len(a) + j] = Filled[j]
        BY <3>1, ConcatProperties
      <3>3. QED
        BY Zenon, <1>7, <3>2
    <2> HIDE DEF n
    <2>4. 1 + n + 1 = n + 2
      BY <1>4
    <2>5. QED
      BY <1>5, <1>6, <2>1, <2>2, <2>3, <2>4
  <1>9. both[1] = r /\ both[n + 2] = e /\ \A j \in 1 .. n : both[j + 1] = s[j]
    <2> HIDE DEF n
    <2>1. 1 \in 1 .. 1 /\ 1 \in 1 .. 1 + n /\ 1 + n + 1 = n + 2
      BY <1>4
    <2>2. \A j \in 1 .. n : 1 + j = j + 1 /\ j + 1 \in 1 .. 1 + n
      BY <1>4
    <2>3. both[1] = r
      BY <1>5, <1>6, <1>8, <2>1
    <2>4. both[n + 2] = e
      BY <1>5, <1>8, <2>1
    <2>5. \A j \in 1 .. n : both[j + 1] = s[j]
      BY <1>6, <1>8, <2>2
    <2>6. QED
      BY <2>3, <2>4, <2>5
  <1>10. Range(both) \subseteq T
    <2>1. DOMAIN both = 1 .. Len(both)
      BY <1>8, LenProperties
    <2>2. \A i \in DOMAIN both : both[i] \in T
      BY <1>8, <2>1, ElementOfSeq
    <2>3. QED
      BY <2>2 DEF Range
  <1>11. Paired(both, open)
    <2>1. ASSUME NEW i \in 1 .. n + 2
          PROVE  Toggles(both[i], i, open)
      <3>1. CASE i = 1
        <4>1. i - 1 \notin open /\ i \in open
          BY <1>4, <3>1
        <4>2. QED
          BY <1>1, <1>9, <3>1, <4>1 DEF Toggles
      <3>2. CASE i = n + 2
        <4>1. i - 1 \in open /\ i \notin open
          BY <1>4, <3>2
        <4>2. both[i].put = "fill"
          BY <1>1, <1>9, <3>2
        <4>3. QED
          BY <4>1, <4>2 DEF Toggles
      <3>3. CASE i # 1 /\ i # n + 2
        <4> DEFINE j == i - 1
        <4>1. j \in 1 .. n /\ j + 1 = i /\ i - 1 \in open /\ i \in open
          BY <1>4, <3>3
        <4> HIDE DEF j
        <4>2. both[i].put \notin {"reserve", "fill"}
          BY <1>9, <4>1
        <4>3. QED
          BY <4>1, <4>2 DEF Toggles
      <3>4. QED
        BY <3>1, <3>2, <3>3
    <2>2. open \subseteq 0 .. n + 2 /\ 0 \notin open /\ n + 2 \notin open
      BY <1>4
    <2> HIDE DEF open, n
    <2>3. QED
      BY <1>8, <2>1, <2>2 DEF Paired
  <1>12. both \in Seq(Range(both))
    BY <1>8, SeqOverRange
  <1> HIDE DEF open
  <1>13. Tidy(both, ip)
    BY <1>3, <1>10, <1>11, <1>12 DEF Tidy
  <1>14. QED
    BY <1>13 DEF both

\* The fields of a record.
LEMMA RecordIsTidy ==
  ASSUME NEW ip, NEW rec, RecordApart(rec, ip)
  PROVE  Tidy(RecordItems(rec), ip)
  <1>1. CASE rec.type = "PTR"
    <2> DEFINE s == Instance(rec.name)
               f == Pushed(rec.name)
    <2>1. s = <<f>> /\ f.put = "name" /\ Tidy(s, ip)
      BY <1>1, InstanceIsTidy DEF RecordApart
    <2>2. RecordItems(rec) = (Reserved \o s) \o Filled
      BY <1>1 DEF RecordItems, PtrItems
    <2> HIDE DEF s, f
    <2>3. Len(s) = 1 /\ s[1] = f
      BY <2>1, OneInAList
    <2>4. \A i \in 1 .. Len(s) : s[i].put \notin {"reserve", "fill"}
      BY <2>1, <2>3
    <2>5. Tidy((Reserved \o s) \o Filled, ip)
      BY <2>1, <2>3, <2>4, FilledIsTidy
    <2>6. QED
      BY <2>2, <2>5
  <1>2. CASE rec.type = "SRV"
    <2> DEFINE s == Number(rec.port) \o Whole(rec.target)
               f == [put |-> "number", v |-> rec.port]
               g == [put |-> "name", parts |-> <<rec.target>>]
    <2>1. Tidy(s, ip)
      <3>1. Tidy(Number(rec.port), ip) /\ Tidy(Whole(rec.target), ip)
        BY <1>2, SimpleIsTidy DEF RecordApart
      <3>2. QED
        BY <3>1, TidyJoined
    <2>2. RecordItems(rec) = (Reserved \o s) \o Filled
      <3>1. RecordItems(rec) = Reserved \o Number(rec.port) \o Whole(rec.target) \o Filled
        BY <1>2 DEF RecordItems, SrvItems
      <3>2. (Reserved \o Number(rec.port)) \o Whole(rec.target) = Reserved \o s
        <4>1. AreFields(Reserved) /\ AreFields(Number(rec.port))
          BY SimpleFields
        <4>2. Tidy(Whole(rec.target), ip)
          BY <1>2, SimpleIsTidy DEF RecordApart
        <4> DEFINE T == Range(Reserved) \cup Range(Number(rec.port)) \cup Range(Whole(rec.target))
        <4>3. Reserved \in Seq(T) /\ Number(rec.port) \in Seq(T) /\ Whole(rec.target) \in Seq(T)
          BY <4>1, <4>2, SeqMonotonic DEF AreFields, Tidy
        <4> HIDE DEF T
        <4>4. QED
          BY <4>3, ConcatAssociative
      <3>3. QED
        BY Zenon, <3>1, <3>2
    <2>3. s = <<f>> \o <<g>> /\ f.put = "number" /\ g.put = "name"
      BY DEF Number, Whole, Name
    <2> HIDE DEF s, f, g
    <2>4. s = <<f, g>>
      BY <2>3, ShortLists
    <2>5. Len(s) = 2 /\ s[1] = f /\ s[2] = g
      <3> DEFINE T == {f, g}
      <3>1. f \in T /\ g \in T
        OBVIOUS
      <3> HIDE DEF T
      <3>2. QED
        BY <2>4, <3>1, TwoInAList
    <2>6. \A i \in 1 .. Len(s) : s[i].put \notin {"reserve", "fill"}
      <3>1. \A i \in 1 .. Len(s) : i = 1 \/ i = 2
        BY <2>5
      <3>2. QED
        BY <2>3, <2>5, <3>1
    <2>7. Tidy((Reserved \o s) \o Filled, ip)
      BY <2>1, <2>5, <2>6, FilledIsTidy
    <2>8. QED
      BY <2>2, <2>7
  <1>3. CASE rec.type = "TXT"
    <2>1. RecordItems(rec) = Number("length") \o Number("text")
      BY <1>3 DEF RecordItems, TxtItems
    <2>2. Tidy(Number("length"), ip) /\ Tidy(Number("text"), ip)
      BY SimpleIsTidy
    <2>3. Tidy(Number("length") \o Number("text"), ip)
      BY <2>2, TidyJoined
    <2>4. QED
      BY <2>1, <2>3
  <1>4. CASE rec.type \notin {"PTR", "SRV", "TXT"}
    <2>1. RecordItems(rec) = Number("length") \o Number(rec.address)
      BY <1>4 DEF RecordItems, IpItems
    <2>2. Tidy(Number("length"), ip) /\ Tidy(Number(rec.address), ip)
      BY SimpleIsTidy
    <2>3. Tidy(Number("length") \o Number(rec.address), ip)
      BY <2>2, TidyJoined
    <2>4. QED
      BY <2>1, <2>3
  <1>5. QED
    BY <1>1, <1>2, <1>3, <1>4

\* The names of an answer.
AnswerApart(a, ip) ==
  /\ Apart(a.name, ip) /\ RecordApart(a.rec, ip)
  /\ a.rec.type \in {"SRV", "TXT"} => <<Head(a.name)>> \in ip

\* The fields of an answer.
LEMMA AnswerIsTidy ==
  ASSUME NEW ip, NEW a, AnswerApart(a, ip)
  PROVE  Tidy(AnswerItems(a), ip)
  <1> DEFINE n == IF a.rec.type \in {"SRV", "TXT"} THEN Instance(a.name) ELSE Whole(a.name)
             b == n \o Number(a.rec.type)
             c == b \o Number(a.aclass)
  <1>1. Tidy(n, ip)
    <2>1. CASE a.rec.type \in {"SRV", "TXT"}
      <3>1. Tidy(Instance(a.name), ip)
        BY <2>1, InstanceIsTidy DEF AnswerApart
      <3>2. QED
        BY <2>1, <3>1
    <2>2. CASE a.rec.type \notin {"SRV", "TXT"}
      <3>1. Tidy(Whole(a.name), ip)
        BY SimpleIsTidy DEF AnswerApart
      <3>2. QED
        BY <2>2, <3>1
    <2>3. QED
      BY <2>1, <2>2
  <1>2. AnswerItems(a) = c \o RecordItems(a.rec)
    BY DEF AnswerItems
  <1> HIDE DEF n
  <1>3. Tidy(b, ip)
    BY <1>1, SimpleIsTidy, TidyJoined
  <1> HIDE DEF b
  <1>4. Tidy(c, ip)
    BY <1>3, SimpleIsTidy, TidyJoined
  <1> HIDE DEF c
  <1>5. Tidy(RecordItems(a.rec), ip)
    BY RecordIsTidy DEF AnswerApart
  <1>6. QED
    BY <1>2, <1>4, <1>5, TidyJoined

\* The names of a message whose names are apart from the parts of instances.
LEMMA NamesAreApart ==
  ASSUME NEW m \in Messages, PartsApart(m), NEW ip, ip = InstanceParts(m)
  PROVE  /\ \A q \in Range(m.queries) : Apart(q.name, ip)
         /\ m.kind # "request" => \A a \in Range(m.answers) : AnswerApart(a, ip)
  <1>1. \A name \in NamesOf(m) : <<Last(name)>> \notin ip
    BY DEF PartsApart
  <1>2. ASSUME NEW q \in Range(m.queries)
        PROVE  Apart(q.name, ip)
    <2>1. IsName(q.name)
      BY MessageParts DEF IsQuery
    <2>2. q.name \in NamesOf(m)
      BY DEF NamesOf
    <2>3. QED
      BY <1>1, <2>1, <2>2 DEF Apart
  <1>3. ASSUME m.kind # "request", NEW a \in Range(m.answers)
        PROVE  AnswerApart(a, ip)
    <2>1. IsName(a.name) /\ IsRecord(a.rec)
      BY <1>3, MessageParts DEF IsAnswer
    <2> DEFINE of(b) == {b.name} \cup (CASE b.rec.type = "PTR" -> {b.rec.name}
                                         [] b.rec.type = "SRV" -> {b.rec.target}
                                         [] OTHER -> {})
    <2>2. of(a) \subseteq NamesOf(m)
      <3>1. NamesOf(m) = {q.name : q \in Range(m.queries)} \cup
                           UNION {of(b) : b \in Range(m.answers)}
        BY <1>3 DEF NamesOf
      <3>2. of(a) \in {of(b) : b \in Range(m.answers)}
        OBVIOUS
      <3> HIDE DEF of
      <3>3. QED
        BY <3>1, <3>2
    <2>3. a.name \in of(a)
      OBVIOUS
    <2>4. a.rec.type = "PTR" => a.rec.name \in of(a)
      OBVIOUS
    <2>5. a.rec.type = "SRV" => a.rec.target \in of(a)
      OBVIOUS
    <2> HIDE DEF of
    <2>6. Apart(a.name, ip)
      BY <1>1, <2>1, <2>2, <2>3 DEF Apart
    <2>7. ip = {<<Head(b.rec.name)>> : b \in {b \in Range(m.answers) : b.rec.type = "PTR"}}
                 \cup {<<Head(b.name)>> : b \in {b \in Range(m.answers) : b.rec.type \in {"SRV", "TXT"}}}
      BY <1>3 DEF InstanceParts
    <2>8. a.rec.type = "PTR" => <<Head(a.rec.name)>> \in ip
      BY <1>3, <2>7
    <2>9. a.rec.type \in {"SRV", "TXT"} => <<Head(a.name)>> \in ip
      BY <1>3, <2>7
    <2>10. a.rec.type = "PTR" => IsName(a.rec.name)
      BY <2>1 DEF IsRecord
    <2>11. a.rec.type = "SRV" => IsName(a.rec.target)
      BY <2>1 DEF IsRecord
    <2>12. RecordApart(a.rec, ip)
      BY <1>1, <2>2, <2>4, <2>5, <2>8, <2>10, <2>11 DEF RecordApart, Apart
    <2>13. QED
      BY <2>6, <2>9, <2>12 DEF AnswerApart
  <1>4. QED
    BY <1>2, <1>3

\* All the fields of such a message.
LEMMA MessageIsTidy ==
  ASSUME NEW m \in Messages, PartsApart(m), NEW ip, ip = InstanceParts(m)
  PROVE  Tidy(Items(m), ip)
  <1> DEFINE qs == FlattenSeq(QueryFields(m))
             as == FlattenSeq(AnswerFields(m))
             two == Number(m.id) \o FlagItems(m.kind)
             three == two \o Number(Len(m.queries))
  <1>1. \A x : Tidy(Number(x), ip) /\ Tidy(FlagItems(x), ip)
    BY SimpleIsTidy DEF FlagItems
  <1>2. Tidy(two, ip)
    <2>1. Tidy(Number(m.id), ip) /\ Tidy(FlagItems(m.kind), ip)
      BY <1>1
    <2>2. QED
      BY <2>1, TidyJoined
  <1> HIDE DEF two
  <1>3. Tidy(three, ip)
    <2>1. Tidy(Number(Len(m.queries)), ip)
      BY <1>1
    <2>2. QED
      BY <1>2, <2>1, TidyJoined
  <1> HIDE DEF three
  <1>4. Tidy(qs, ip)
    <2> DEFINE xs == QueryFields(m)
    <2>1. Len(m.queries) \in Nat /\ DOMAIN m.queries = 1 .. Len(m.queries)
      BY QuestionsAreFields
    <2>2. ASSUME NEW i \in 1 .. Len(m.queries)
          PROVE  Tidy(xs[i], ip)
      <3>1. m.queries[i] \in Range(m.queries) /\ xs[i] = QueryItems(m.queries[i], m.kind)
        BY <2>1 DEF Range, QueryFields
      <3>2. Apart(m.queries[i].name, ip)
        BY <3>1, NamesAreApart
      <3> HIDE DEF xs
      <3>3. QED
        BY <3>1, <3>2, QueryIsTidy
    <2>3. xs = [i \in 1 .. Len(m.queries) |-> xs[i]]
      BY <2>1 DEF QueryFields
    <2> HIDE DEF xs
    <2>4. Tidy(FlattenSeq(xs), ip)
      BY <2>1, <2>2, <2>3, TidyFlat
    <2>5. QED
      BY <2>4 DEF xs
  <1>5. ASSUME m.kind # "request"
        PROVE  Tidy(as, ip)
    <2> DEFINE xs == AnswerFields(m)
    <2>1. Len(m.answers) \in Nat /\ DOMAIN m.answers = 1 .. Len(m.answers)
      BY <1>5, AnswersAreFields
    <2>2. ASSUME NEW i \in 1 .. Len(m.answers)
          PROVE  Tidy(xs[i], ip)
      <3>1. m.answers[i] \in Range(m.answers) /\ xs[i] = AnswerItems(m.answers[i])
        BY <2>1 DEF Range, AnswerFields
      <3>2. AnswerApart(m.answers[i], ip)
        BY <1>5, <3>1, NamesAreApart
      <3> HIDE DEF xs
      <3>3. QED
        BY <3>1, <3>2, AnswerIsTidy
    <2>3. xs = [i \in 1 .. Len(m.answers) |-> xs[i]]
      BY <2>1 DEF AnswerFields
    <2> HIDE DEF xs
    <2>4. Tidy(FlattenSeq(xs), ip)
      BY <2>1, <2>2, <2>3, TidyFlat
    <2>5. QED
      BY <2>4 DEF xs
  <1>6. CASE m.kind = "request"
    <2>1. Items(m) = (three \o Number(0)) \o qs
      BY <1>6 DEF Items, RequestItems, qs, two, three, QueryFields
    <2> HIDE DEF qs
    <2>2. Tidy(three \o Number(0), ip)
      BY <1>1, <1>3, TidyJoined
    <2>3. QED
      BY <1>4, <2>1, <2>2, TidyJoined
  <1>7. CASE m.kind # "request"
    <2> DEFINE four == three \o Number(Len(m.answers))
    <2>1. Items(m) = (four \o qs) \o as
      BY <1>7 DEF Items, ResponseItems, qs, as, two, three, QueryFields, AnswerFields
    <2>2. Tidy(as, ip)
      BY <1>5, <1>7
    <2> HIDE DEF qs, as
    <2>3. Tidy(four, ip)
      <3>1. Tidy(Number(Len(m.answers)), ip)
        BY <1>1
      <3>2. QED
        BY <1>3, <3>1, TidyJoined
    <2> HIDE DEF four
    <2>4. Tidy(four \o qs, ip)
      BY <1>4, <2>3, TidyJoined
    <2>5. QED
      BY <2>1, <2>2, <2>4, TidyJoined
  <1>8. QED
    BY <1>6, <1>7

-----------------------------------------------------------------------------
(* The round of a message                                                  *)

\* No instance name has a first segment that another name ends in.
InstancesApart == \A m \in Messages : PartsApart(m)

\* k fields are written and td is left to write; a place that is reserved for
\* a length is the one behind at.
RoundAt(m, td, v, at, k, open) ==
  /\ k \in 0 .. Len(Items(m)) /\ td = Rest(Items(m), k + 1) /\ Paired(Items(m), open)
  /\ Progress(v, m, k)
  /\ ~ v.overflow => Holes(v.cells) = (IF k \in open THEN {at + 1} ELSE {})

RoundInv ==
  /\ \E k, open : RoundAt(message, todo, w, start, k, open)
  /\ outcome.kind = "sent" => todo = <<>> /\ outcome.parsed = ParseMessage(w.cells)

\* What is left of a list after its next element.
LEMMA TakeNext ==
  ASSUME NEW S, NEW s \in Seq(S), NEW k \in 0 .. Len(s), NEW t, t = Rest(s, k + 1), t # <<>>
  PROVE  /\ k + 1 \in 1 .. Len(s) /\ Head(t) = s[k + 1] /\ s[k + 1] \in S
         /\ Tail(t) = Rest(s, k + 1 + 1)
  <1>1. Len(s) \in Nat /\ k \in Nat /\ k + 1 \in 1 .. Len(s) + 1
    BY LenProperties
  <1>2. /\ t \in Seq(S) /\ Len(t) = Len(s) + 1 - (k + 1)
        /\ \A i \in 1 .. Len(s) + 1 - (k + 1) : t[i] = s[k + 1 + i - 1]
    BY <1>1, SuffixOf DEF Rest
  <1>3. Len(t) > 0 /\ Len(t) \in Nat
    BY <1>2, EmptySeq, LenProperties
  <1>4. k + 1 \in 1 .. Len(s)
    <2> DEFINE n == Len(s)
               l == Len(t)
    <2>1. n \in Nat /\ l \in Nat /\ l > 0 /\ l = n + 1 - (k + 1)
      BY <1>1, <1>2, <1>3
    <2> HIDE DEF n, l
    <2>2. k + 1 \in 1 .. n
      BY <1>1, <2>1
    <2>3. QED
      BY <2>2 DEF n
  <1>5. Head(t) = s[k + 1]
    <2>1. 1 \in 1 .. Len(s) + 1 - (k + 1) /\ k + 1 + 1 - 1 = k + 1
      BY <1>1, <1>4
    <2>2. t[1] = s[k + 1]
      BY <1>2, <2>1
    <2>3. QED
      BY <1>2, <1>3, <2>2
  <1>6. s[k + 1] \in S
    BY <1>4, ElementOfSeq
  <1>7. Tail(t) = Rest(s, k + 1 + 1)
    <2>1. Tail(t) = SubSeq(t, 2, Len(t))
      BY <1>2, TailIsSubSeq
    <2>2. 2 \in 1 .. Len(t) + 1 /\ k + 1 + 2 - 1 = k + 1 + 1
      BY <1>1, <1>3
    <2>3. t = SubSeq(s, k + 1, Len(s))
      BY DEF Rest
    <2> DEFINE i == k + 1
               j == 2
    <2>4. i \in 1 .. Len(s) + 1 /\ t = SubSeq(s, i, Len(s)) /\ j \in 1 .. Len(t) + 1
      BY <1>1, <2>2, <2>3
    <2> HIDE DEF i, j
    <2>5. SubSeq(t, j, Len(t)) = SubSeq(s, i + j - 1, Len(s))
      BY ZenonT(40), <2>4, SuffixOfSuffix
    <2>6. SubSeq(t, 2, Len(t)) = SubSeq(s, k + 1 + 2 - 1, Len(s))
      BY Zenon, <2>5 DEF i, j
    <2>7. k + 1 + 2 - 1 = k + 1 + 1
      BY <2>2
    <2>8. QED
      BY Zenon, <2>1, <2>6, <2>7 DEF Rest
  <1>8. QED
    BY <1>4, <1>5, <1>6, <1>7

\* What the next field is like, and what it finds.
NextIs(f, v, ip, k, open) ==
  /\ Meant(f, ip)
  /\ v.overflow \/ Faithful(v.cells, Tab(v, ip))
  /\ f.put = "reserve" => k \notin open /\ k + 1 \in open
  /\ f.put = "fill" => k \in open /\ k + 1 \notin open
  /\ f.put \notin {"reserve", "fill"} => (k \in open <=> k + 1 \in open)

\* It is one of the message.
LEMMA NextIsMeant ==
  ASSUME NEW m \in Messages, PartsApart(m), NEW ip, ip = InstanceParts(m),
         NEW td, NEW v, NEW at, NEW k, NEW open, RoundAt(m, td, v, at, k, open), td # <<>>
  PROVE  /\ k + 1 \in 0 .. Len(Items(m)) /\ k \in Nat
         /\ Head(td) = Items(m)[k + 1] /\ Tail(td) = Rest(Items(m), k + 1 + 1)
         /\ NextIs(Head(td), v, ip, k, open)
  <1> DEFINE s == Items(m)
             f == Head(td)
  <1>1. s \in Seq(Range(s)) /\ \A g \in Range(s) : Meant(g, ip)
    BY MessageIsTidy DEF Tidy
  <1>2. /\ k \in 0 .. Len(s) /\ td = Rest(s, k + 1) /\ Paired(s, open) /\ Progress(v, m, k)
    BY DEF RoundAt
  <1> HIDE DEF s
  <1>3. /\ k + 1 \in 1 .. Len(s) /\ f = s[k + 1] /\ s[k + 1] \in Range(s)
        /\ Tail(td) = Rest(s, k + 1 + 1)
    BY <1>1, <1>2, TakeNext
  <1>4. Len(s) \in Nat /\ k \in Nat /\ k + 1 - 1 = k /\ k + 1 \in 0 .. Len(s)
    BY <1>1, <1>2, <1>3, LenProperties
  <1>5. Meant(f, ip)
    BY <1>1, <1>3
  <1>6. Toggles(f, k + 1, open)
    BY <1>2, <1>3 DEF Paired
  <1>7. /\ f.put = "reserve" => k \notin open /\ k + 1 \in open
        /\ f.put = "fill" => k \in open /\ k + 1 \notin open
        /\ f.put \notin {"reserve", "fill"} => (k \in open <=> k + 1 \in open)
    BY <1>4, <1>6 DEF Toggles
  <1>8. v.overflow \/ Faithful(v.cells, Tab(v, ip))
    BY <1>2 DEF Progress, Readable, Buffered
  <1> HIDE DEF f
  <1>9. NextIs(f, v, ip, k, open)
    BY <1>5, <1>7, <1>8 DEF NextIs
  <1>10. QED
    BY <1>3, <1>4, <1>9 DEF s, f

\* One field further.
LEMMA FieldDone ==
  ASSUME NEW m \in Messages, PartsApart(m), NEW td, NEW v, NEW at, NEW k, NEW open,
         RoundAt(m, td, v, at, k, open), td # <<>>, Good(v), NEW x, Good(x),
         FieldPut(v, x, Head(td), InstanceParts(m)), NEW at2,
         ~ x.overflow => Holes(x.cells) = (IF k + 1 \in open THEN {at2 + 1} ELSE {})
  PROVE  RoundAt(m, Tail(td), x, at2, k + 1, open)
  <1>1. /\ k + 1 \in 0 .. Len(Items(m)) /\ k \in Nat
        /\ Head(td) = Items(m)[k + 1] /\ Tail(td) = Rest(Items(m), k + 1 + 1)
    BY NextIsMeant
  <1>2. Len(v.cells) \in Nat /\ Len(x.cells) \in Nat
    BY LenProperties DEF Good, Writers
  <1>3. Progress(v, m, k) /\ Paired(Items(m), open)
    BY DEF RoundAt
  <1>4. Progress(x, m, k + 1)
    <2>1. FieldPut(v, x, Items(m)[k + 1], InstanceParts(m))
      BY <1>1
    <2>2. QED
      BY <1>1, <1>2, <1>3, <2>1, AfterField
  <1>5. QED
    BY <1>1, <1>3, <1>4 DEF RoundAt

\* Before anything is written.
LEMMA InitRoundInv ==
  ASSUME InstancesApart, WireInit
  PROVE  RoundInv
  <1>1. PICK room \in Rooms, lk \in LKs : w = NewWriter(room, lk)
    BY DEF WireInit
  <1>2. message \in Messages /\ todo = Items(message) /\ start = 0 /\ outcome = Pending
    BY DEF WireInit
  <1> DEFINE s == Items(message)
             ip == InstanceParts(message)
             P == Buffered(w.cells, Tab(w, ip), 0, FALSE)
  <1>3. w.cells = <<>> /\ w.lookup = <<>> /\ w.overflow = FALSE /\ Len(w.cells) = 0
    BY <1>1, EmptySeq DEF NewWriter
  <1>4. s \in Seq(Range(s)) /\ Len(s) \in Nat
    BY <1>2, ItemsAreFields, LenProperties DEF AreFields
  <1>5. 0 \in 0 .. Len(s) /\ todo = Rest(s, 0 + 1)
    <2>1. SubSeq(s, 1, Len(s)) = s
      BY <1>4, SubSeqFull
    <2>2. 0 + 1 = 1 /\ 0 \in 0 .. Len(s)
      BY <1>4
    <2>3. QED
      BY <1>2, <2>1, <2>2 DEF Rest
  <1>6. Tab(w, ip) = {}
    BY <1>3 DEF Tab, Range
  <1>7. Readable(P) /\ Reached(P, s, 0, Len(w.cells) + 1)
    <2>1. P.cells = w.cells /\ P.tab = {} /\ P.lim = 0 /\ P.cut = FALSE
      BY <1>6 DEF Buffered
    <2> HIDE DEF P
    <2>2. Readable(P)
      BY <1>3, <2>1 DEF Readable, Faithful
    <2>3. Reached(P, s, 0, 1)
      <3> DEFINE pos == [i \in 0 .. 0 |-> 1]
      <3>1. pos \in [0 .. 0 -> Nat] /\ pos[0] = 1
        OBVIOUS
      <3>2. 1 .. 0 = {}
        OBVIOUS
      <3> HIDE DEF pos
      <3>3. QED
        BY <3>1, <3>2 DEF Reached
    <2>4. Len(w.cells) + 1 = 1
      BY <1>3
    <2>5. QED
      BY <2>2, <2>3, <2>4
  <1>8. Progress(w, message, 0)
    BY <1>3, <1>7 DEF Progress
  <1>9. Holes(w.cells) = {}
    BY <1>3 DEF Holes
  <1>10. outcome.kind # "sent"
    BY <1>2 DEF Pending
  <1> HIDE DEF s
  <1>11. ASSUME NEW open, Paired(s, open)
         PROVE  RoundAt(message, todo, w, start, 0, open)
    <2>1. 0 \notin open
      BY <1>11 DEF Paired
    <2>2. QED
      BY <1>5, <1>8, <1>9, <1>11, <2>1 DEF RoundAt, s
  <1>12. \E open : Paired(s, open)
    BY <1>2, MessageIsTidy DEF InstancesApart, Tidy, s
  <1>13. QED
    BY <1>10, <1>11, <1>12 DEF RoundInv

\* Each field is one step further, whether it fits or not.
LEMMA NextRoundInv ==
  ASSUME InstancesApart, WireInv, WireInv', RoundInv, [WireNext]_wireVars
  PROVE  RoundInv'
  <1> DEFINE m == message
             ip == InstanceParts(m)
             f == Head(todo)
  <1>1. /\ m \in Messages /\ PartsApart(m) /\ Good(w) /\ Good(w') /\ start \in Nat
        /\ w \in Writers /\ w.overflow \in BOOLEAN
    <2>1. m \in Messages /\ Good(w) /\ Good(w') /\ start \in 0 .. Len(w.cells)
      BY DEF WireInv
    <2>2. start \in Nat
      BY <2>1
    <2>3. QED
      BY <2>1, <2>2 DEF InstancesApart, Good, Writers
  <1>2. PICK k, open : RoundAt(m, todo, w, start, k, open)
    BY DEF RoundInv
  <1>3. outcome.kind = "sent" => todo = <<>> /\ outcome.parsed = ParseMessage(w.cells)
    BY DEF RoundInv
  <1>4. ~ w.overflow => Holes(w.cells) = (IF k \in open THEN {start + 1} ELSE {})
    BY <1>2 DEF RoundAt
  <1>5. ASSUME todo # <<>>
        PROVE  NextIs(f, w, ip, k, open)
    BY <1>1, <1>2, <1>5, NextIsMeant
  <1>6. ASSUME todo # <<>>, outcome = Pending, Wrote, FieldPut(w, w', f, ip),
               ~ w'.overflow => Holes(w'.cells) = (IF k + 1 \in open THEN {start' + 1} ELSE {})
        PROVE  RoundInv'
    <2>1. todo' = Tail(todo) /\ message' = m /\ outcome' = Pending
      BY <1>6 DEF Wrote
    <2>2. RoundAt(m, Tail(todo), w', start', k + 1, open)
      BY <1>1, <1>2, <1>6, FieldDone
    <2>3. outcome'.kind # "sent"
      BY <2>1 DEF Pending
    <2> HIDE DEF m
    <2>4. \E j, b : RoundAt(message', todo', w', start', j, b)
      BY <2>1, <2>2
    <2>5. QED
      BY <2>3, <2>4 DEF RoundInv
  <1>7. ASSUME todo # <<>>, w' = Write(w, <<Num(f.v)>>), f.put = "number"
        PROVE  Num(f.v) \in Cells
    BY <1>7, NextField
  <1>8. CASE PutNumber
    <2>1. /\ outcome = Pending /\ todo # <<>> /\ f.put = "number"
          /\ w' = Write(w, <<Num(f.v)>>) /\ Wrote /\ start' = start
      BY <1>8 DEF PutNumber, Turn
    <2>2. Num(f.v) \in Cells /\ Num(f.v) # Hole
      BY <1>7, <2>1 DEF Num, Hole
    <2>3. NextIs(f, w, ip, k, open)
      BY <1>5, <2>1
    <2> HIDE DEF f, ip, m
    <2>4. w.overflow \/ Faithful(w.cells, Tab(w, ip))
      BY <2>3 DEF NextIs
    <2>5. /\ FieldPut(w, w', f, ip)
          /\ ~ w'.overflow => Holes(w'.cells) = Holes(w.cells)
      <3> DEFINE cell == Num(f.v)
      <3>1. /\ cell \in Cells /\ cell # Hole /\ w' = Write(w, <<cell>>)
            /\ f.put = "number" /\ cell = Num(f.v)
        BY <2>1, <2>2
      <3> HIDE DEF cell
      <3>2. FieldPut(w, w', f, ip)
        BY <1>1, <2>4, <3>1, CellIsPut
      <3>3. HolesAfter(w, w', cell)
        BY <1>1, <2>4, <3>1, CellIsPut
      <3>4. QED
        BY <3>1, <3>2, <3>3 DEF HolesAfter
    <2>6. k \in open <=> k + 1 \in open
      BY <2>1, <2>3 DEF NextIs
    <2>7. ~ w'.overflow => ~ w.overflow
      BY <2>5 DEF FieldPut
    <2>8. QED
      BY <1>4, <1>6, <2>1, <2>5, <2>6, <2>7
  <1>9. ASSUME todo # <<>>, outcome = Pending, Wrote, start' = start,
               f.put \in {"name", "copy"}, Grows(w, w'),
               ~ w.overflow => IsName(NameIn(f)) /\ NameWritten(w, w', NameIn(f), ip)
        PROVE  RoundInv'
    <2>1. NextIs(f, w, ip, k, open)
      BY <1>5, <1>9
    <2>2. w' \in KeptBy(w)
      BY <1>1, <1>9 DEF KeptBy, Good
    <2> HIDE DEF f, ip, m
    <2>3. /\ FieldPut(w, w', f, ip)
          /\ ~ w'.overflow => Holes(w'.cells) = Holes(w.cells)
      BY <1>1, <1>9, <2>2, NameIsPut
    <2>4. k \in open <=> k + 1 \in open
      BY <1>9, <2>1 DEF NextIs
    <2>5. ~ w'.overflow => ~ w.overflow
      BY <2>3 DEF FieldPut
    <2>6. QED
      BY <1>4, <1>6, <1>9, <2>3, <2>4, <2>5
  <1>10. CASE PutName
    <2>1. /\ outcome = Pending /\ todo # <<>> /\ f.put = "name"
          /\ w' = SerializeLabel(w, f.parts) /\ Wrote /\ start' = start
      BY <1>10 DEF PutName, Turn
    <2>2. f.parts \in Seq(Seq(STRING))
      BY <2>1, NextField DEF FieldOK
    <2>3. NextIs(f, w, ip, k, open)
      BY <1>5, <2>1
    <2>4. \A part \in ip : Len(part) = 1
      BY DEF InstanceParts
    <2> HIDE DEF f, ip, m
    <2>5. Grows(w, w')
      BY <1>1, <2>1, <2>2, SerializeLabelKeeps
    <2>6. NameMeant(f, ip) /\ (w.overflow \/ Faithful(w.cells, Tab(w, ip)))
      BY <2>1, <2>3 DEF NextIs, Meant
    <2>7. ASSUME ~ w.overflow
          PROVE  IsName(NameIn(f)) /\ NameWritten(w, w', NameIn(f), ip)
      BY <1>1, <2>1, <2>2, <2>4, <2>6, <2>7, LabelIsWritten
    <2>8. QED
      BY <1>9, <2>1, <2>5, <2>7
  <1>11. CASE PutCopy
    <2>1. /\ outcome = Pending /\ todo # <<>> /\ f.put = "copy"
          /\ w' = SerializeRun(w, f.segs) /\ Wrote /\ start' = start
      BY <1>11 DEF PutCopy, Turn
    <2>2. f.segs \in Seq(STRING)
      BY <2>1, NextField DEF FieldOK
    <2>3. NextIs(f, w, ip, k, open)
      BY <1>5, <2>1
    <2> HIDE DEF f, ip, m
    <2>4. Grows(w, w')
      BY <1>1, <2>1, <2>2, SerializeRunKeeps
    <2>5. IsName(f.segs) /\ (w.overflow \/ Faithful(w.cells, Tab(w, ip)))
      BY <2>1, <2>3 DEF NextIs, Meant
    <2>6. NameIn(f) = f.segs
      BY <2>1 DEF NameIn
    <2>7. ASSUME ~ w.overflow
          PROVE  NameWritten(w, w', NameIn(f), ip)
      BY <1>1, <2>1, <2>2, <2>5, <2>6, <2>7, CopyIsWritten
    <2>8. QED
      BY <1>9, <2>1, <2>4, <2>5, <2>6, <2>7
  <1>12. CASE PutReservation
    <2>1. /\ outcome = Pending /\ todo # <<>> /\ f.put = "reserve"
          /\ w' = Write(w, <<Hole>>) /\ Wrote /\ start' = Len(w.cells)
      BY <1>12 DEF PutReservation, Turn, Reserve
    <2>2. Hole \in Cells
      BY DEF Cells
    <2>3. NextIs(f, w, ip, k, open)
      BY <1>5, <2>1
    <2> HIDE DEF f, ip, m
    <2>4. /\ w.overflow \/ Faithful(w.cells, Tab(w, ip))
          /\ k \notin open /\ k + 1 \in open
      BY <2>1, <2>3 DEF NextIs
    <2>5. /\ FieldPut(w, w', f, ip)
          /\ ~ w'.overflow => Holes(w'.cells) = Holes(w.cells) \cup {Len(w.cells) + 1}
      <3>1. FieldPut(w, w', f, ip)
        BY <1>1, <2>1, <2>2, <2>4, CellIsPut
      <3>2. HolesAfter(w, w', Hole)
        BY <1>1, <2>1, <2>2, <2>4, CellIsPut
      <3>3. QED
        BY <3>1, <3>2 DEF HolesAfter
    <2>6. ~ w'.overflow => ~ w.overflow
      BY <2>5 DEF FieldPut
    <2>7. ~ w'.overflow => Holes(w'.cells) = {start' + 1}
      BY <1>4, <2>1, <2>4, <2>5, <2>6
    <2>8. QED
      BY <1>6, <2>1, <2>4, <2>5, <2>7
  <1>13. CASE FillReservation
    <2>1. /\ outcome = Pending /\ todo # <<>> /\ f.put = "fill"
          /\ w' = WriteReservation(w, start, Num("length")) /\ Wrote /\ start' = start
      BY <1>13 DEF FillReservation, Turn
    <2>2. NextIs(f, w, ip, k, open)
      BY <1>5, <2>1
    <2> HIDE DEF f, ip, m
    <2>3. /\ w.overflow \/ Faithful(w.cells, Tab(w, ip))
          /\ k \in open /\ k + 1 \notin open
      BY <2>1, <2>2 DEF NextIs
    <2>4. ~ w.overflow => Holes(w.cells) = {start + 1}
      BY <1>4, <2>3
    <2>5. ~ w.overflow => start + 1 \in Holes(w.cells)
      BY <2>4
    <2>6. /\ FieldPut(w, w', f, ip)
          /\ ~ w'.overflow => Holes(w'.cells) = Holes(w.cells) \ {start + 1}
      BY <1>1, <2>1, <2>3, <2>5, PlaceIsFilled
    <2>7. ~ w'.overflow => ~ w.overflow
      BY <2>6 DEF FieldPut
    <2>8. ~ w'.overflow => Holes(w'.cells) = {}
      BY <2>4, <2>6, <2>7
    <2>9. QED
      BY <1>6, <2>1, <2>3, <2>6, <2>8
  <1>14. CASE UnderflowPanics
    <2>1. UNCHANGED << message, todo, w, start >> /\ outcome' = Panicked
      BY <1>14 DEF UnderflowPanics
    <2>2. outcome'.kind # "sent"
      BY <2>1 DEF Panicked
    <2>3. QED
      BY <1>2, <2>1, <2>2 DEF RoundInv
  <1>15. CASE Send
    <2>1. /\ UNCHANGED << message, todo, w, start >> /\ todo = <<>>
          /\ outcome' = Sent(ParseMessage(w.cells))
      BY <1>15 DEF Send
    <2>2. outcome'.parsed = ParseMessage(w.cells)
      BY <2>1 DEF Sent
    <2>3. QED
      BY <1>2, <2>1, <2>2 DEF RoundInv
  <1>16. CASE UNCHANGED wireVars
    BY <1>2, <1>3, <1>16 DEF wireVars, RoundInv
  <1>17. QED
    BY <1>8, <1>10, <1>11, <1>12, <1>13, <1>14, <1>15, <1>16 DEF WireNext

-----------------------------------------------------------------------------
(* What a peer makes of it                                                 *)

\* What is sent has been written to the end, or to the end of the buffer.
LEMMA SentIsWritten ==
  ASSUME InstancesApart, WireInv, RoundInv, outcome.kind = "sent", NEW sure,
         sure => ~ w.overflow /\ Shallow(message) /\ ParseAccepts(message)
  PROVE  \E q \in Nat : /\ MessageTracks(outcome.parsed, q, message, sure)
                        /\ w.overflow <=> q = 0
  <1> DEFINE m == message
             s == Items(m)
             ip == InstanceParts(m)
  <1>1. m \in Messages /\ Len(w.cells) \in Nat
    BY LenProperties DEF WireInv, Good, Writers
  <1>2. PICK k, open : RoundAt(m, todo, w, start, k, open)
    BY DEF RoundInv
  <1>3. todo = <<>> /\ outcome.parsed = ParseMessage(w.cells)
    BY DEF RoundInv
  <1>4. s \in Seq(Range(s)) /\ Len(s) \in Nat
    BY <1>1, ItemsAreFields, LenProperties DEF AreFields
  <1>5. k = Len(s)
    <2>1. k \in 0 .. Len(s) /\ todo = Rest(s, k + 1)
      BY <1>2 DEF RoundAt
    <2> HIDE DEF s
    <2>2. Len(<<>>) = Len(s) + 1 - (k + 1)
      <3>1. <<>> = SubSeq(s, k + 1, Len(s))
        BY <1>3, <2>1 DEF Rest
      <3>2. k + 1 \in 1 .. Len(s) + 1
        BY <1>4, <2>1
      <3>3. QED
        BY <1>4, <3>1, <3>2, SuffixOf
    <2>3. Len(<<>>) = 0
      BY EmptySeq
    <2> DEFINE n == Len(s)
    <2>4. n \in Nat /\ k \in 0 .. n /\ 0 = n + 1 - (k + 1)
      BY <1>4, <2>1, <2>2, <2>3
    <2> HIDE DEF n
    <2>5. k = n
      BY <2>4
    <2>6. QED
      BY <2>5 DEF n
  <1>6. Progress(w, m, Len(s))
    BY <1>2, <1>5 DEF RoundAt
  <1>7. \A P, q : Reached(P, s, Len(s), q) => Goes(P, s, 1, q) /\ q \in Nat
    <2> TAKE P, q
    <2> HAVE Reached(P, s, Len(s), q)
    <2> HIDE DEF s
    <2>1. PICK pos \in [0 .. Len(s) -> Nat] :
            /\ pos[0] = 1 /\ pos[Len(s)] = q
            /\ \A i \in 1 .. Len(s) : Step(P, s[i], pos[i - 1], pos[i])
      BY DEF Reached
    <2>2. Walk(P, s, 1, q, pos)
      BY <2>1 DEF Walk
    <2>3. Len(s) \in 0 .. Len(s)
      BY <1>4
    <2>4. QED
      BY <2>1, <2>2, <2>3 DEF Goes
  <1>8. CASE ~ w.overflow
    <2> DEFINE P == Buffered(w.cells, Tab(w, ip), 0, FALSE)
               q == Len(w.cells) + 1
    <2>1. Readable(P) /\ Reached(P, s, Len(s), q)
      BY <1>6, <1>8 DEF Progress
    <2>2. P.cells = w.cells
      BY DEF Buffered
    <2> HIDE DEF P, s
    <2>3. Goes(P, Items(m), 1, q)
      BY <1>7, <2>1 DEF s
    <2>4. MessageTracks(outcome.parsed, q, m, sure)
      BY <1>1, <1>3, <2>1, <2>2, <2>3, MessageIsParsed
    <2>5. q \in Nat /\ q # 0
      BY <1>1
    <2>6. QED
      BY <1>8, <2>4, <2>5
  <1>9. CASE w.overflow
    <2>1. PICK tab, lim : LET R == Buffered(w.cells, tab, lim, TRUE)
                          IN  Readable(R) /\ Reached(R, s, Len(s), 0)
      BY <1>6, <1>9 DEF Progress
    <2> DEFINE R == Buffered(w.cells, tab, lim, TRUE)
    <2>2. Readable(R) /\ Reached(R, s, Len(s), 0)
      BY <2>1
    <2>3. R.cells = w.cells
      BY DEF Buffered
    <2> HIDE DEF R, s
    <2>4. Goes(R, Items(m), 1, 0)
      BY <1>7, <2>2 DEF s
    <2>5. ~ sure
      BY <1>9
    <2>6. MessageTracks(outcome.parsed, 0, m, sure)
      BY <1>1, <1>3, <2>2, <2>3, <2>4, <2>5, MessageIsParsed
    <2>7. QED
      BY <1>9, <2>6
  <1>10. QED
    BY <1>8, <1>9

\* The invariant of every serialization of such messages.
THEOREM RoundInvariance == ASSUME InstancesApart PROVE WireSpec => [](WireInv /\ RoundInv)
  <1>1. WireInit => WireInv /\ RoundInv
    BY InitWireInv, InitRoundInv
  <1>2. WireInv /\ RoundInv /\ [WireNext]_wireVars => (WireInv /\ RoundInv)'
    <2> SUFFICES ASSUME WireInv, RoundInv, [WireNext]_wireVars
                 PROVE  WireInv' /\ RoundInv'
      OBVIOUS
    <2>1. WireInv'
      BY NextWireInv
    <2>2. RoundInv'
      BY <2>1, NextRoundInv
    <2>3. QED
      BY <2>1, <2>2
  <1>3. QED
    BY <1>1, <1>2, PTL DEF WireSpec

\* A peer that accepts a packet takes it for the message that was serialized,
\* whatever names share and wherever the buffer ends.
THEOREM NothingIsMisread == ASSUME InstancesApart PROVE WireSpec => []NeverMisread
  <1>1. WireInv /\ RoundInv => NeverMisread
    <2> SUFFICES ASSUME WireInv, RoundInv, Accepted
                 PROVE  outcome.parsed.msg = message
      BY DEF NeverMisread
    <2>1. outcome.kind = "sent" /\ outcome.parsed.ok
      BY DEF Accepted
    <2>2. PICK q \in Nat : MessageTracks(outcome.parsed, q, message, FALSE)
      BY <2>1, SentIsWritten
    <2>3. QED
      BY <2>1, <2>2 DEF MessageTracks
  <1>2. QED
    BY RoundInvariance, <1>1, PTL

\* A packet that the buffer had no room for is refused.
THEOREM TruncationIsNoticed == ASSUME InstancesApart PROVE WireSpec => []TruncatedIsRefused
  <1>1. WireInv /\ RoundInv => TruncatedIsRefused
    <2> SUFFICES ASSUME WireInv, RoundInv, w.overflow, Accepted
                 PROVE  FALSE
      BY DEF TruncatedIsRefused
    <2>1. outcome.kind = "sent" /\ outcome.parsed.ok
      BY DEF Accepted
    <2>2. PICK q \in Nat : /\ MessageTracks(outcome.parsed, q, message, FALSE)
                           /\ w.overflow <=> q = 0
      BY <2>1, SentIsWritten
    <2>3. QED
      BY <2>1, <2>2 DEF MessageTracks
  <1>2. QED
    BY RoundInvariance, <1>1, PTL

\* A message that the buffer had room for is accepted, unless its names have
\* too many segments for the pointers that are followed.
THEOREM WholeIsAccepted == ASSUME InstancesApart PROVE WireSpec => []FittingIsAccepted
  <1>1. WireInv /\ RoundInv => FittingIsAccepted
    <2> SUFFICES ASSUME WireInv, RoundInv, outcome.kind = "sent", ~ w.overflow,
                        ParseAccepts(message), \A name \in NamesOf(message) : Len(name) <= Depth
                 PROVE  Accepted
      BY DEF FittingIsAccepted
    <2>1. Shallow(message)
      BY DEF Shallow
    <2>2. PICK q \in Nat : /\ MessageTracks(outcome.parsed, q, message, TRUE)
                           /\ w.overflow <=> q = 0
      BY <2>1, SentIsWritten
    <2>3. QED
      BY <2>2 DEF MessageTracks, Accepted
  <1>2. QED
    BY RoundInvariance, <1>1, PTL

\* Every entry of the table of labels leads to where its name can be read.
THEOREM TableIsFaithful == ASSUME InstancesApart PROVE WireSpec => []LookupIsFaithful
  <1>1. WireInv /\ RoundInv => LookupIsFaithful
    <2> SUFFICES ASSUME WireInv, RoundInv, ~ w.overflow, NEW e \in Range(w.lookup),
                        e.name \notin InstanceParts(message), ~ (Len(e.name) > 5)
                 PROVE  LET label == DoParse(w.cells, e.at)
                        IN  label.ok /\ FlattenSeq(label.runs) = e.name
      BY DEF LookupIsFaithful
    <2> DEFINE tab == Tab(w, InstanceParts(message))
    <2>1. PICK k, open : RoundAt(message, todo, w, start, k, open)
      BY DEF RoundInv
    <2>2. Faithful(w.cells, tab) /\ Len(w.cells) \in Nat
      BY <2>1 DEF RoundAt, Progress, Readable, Buffered
    <2>3. e \in tab
      BY DEF Tab
    <2> HIDE DEF tab
    <2>4. IsName(e.name)
      BY <2>2, <2>3 DEF Faithful
    <2>5. PICK q \in Nat, n \in Nat : n > 0 /\ Spelled(w.cells, tab, e.name, e.at, q, n)
      BY <2>2, <2>3 DEF Faithful
    <2>6. Len(e.name) \in Nat /\ Len(e.name) <= 5
      <3>1. Len(e.name) \in Nat
        BY <2>4, LenProperties DEF IsName
      <3>2. QED
        BY <3>1
    <2> DEFINE x == DoParse(w.cells, e.at)
    <2>7. AsMeant(x, e.name, q) /\ Surely(x, Len(e.name))
      <3>1. AsMeant(x, e.name, q)
        BY <2>2, <2>4, <2>5, NameIsRead
      <3>2. Len(e.name) <= (IF n > 0 THEN 5 ELSE 4) => Surely(x, Len(e.name))
        BY <2>2, <2>4, <2>5, NameIsRead
      <3>3. QED
        BY <2>5, <2>6, <3>1, <3>2
    <2>8. QED
      BY <2>7 DEF AsMeant, Surely
  <1>2. QED
    BY RoundInvariance, <1>1, PTL
=============================================================================
