----------------------------- MODULE ListProofs -----------------------------
(***************************************************************************)
(* What the operators on lists that the server is built from return, for   *)
(* every list: filtering (Retain), joining (FlattenSeq), and the pushes    *)
(* that leave out what is there.  They are recursive functions, and each   *)
(* fact about one is shown of its least counterexample.                    *)
(***************************************************************************)
EXTENDS ServerHandlers, SequenceTheorems, FunctionTheorems, FiniteSetTheorems,
        WellFoundedInduction, TLAPS

\* The smallest of a set of numbers is one of them.
LEMMA MinOfNats ==
  ASSUME NEW S, S \subseteq Nat, S # {}
  PROVE  Min(S) \in S /\ \A y \in S : Min(S) <= y
<1>1. PICK x \in S : \A y \in S : <<y, x>> \notin OpToRel(<, Nat)
  BY WFMin, NatLessThanWellFounded
<1>2. \A y \in S : x <= y
  <2> TAKE y \in S
  <2>1. y < x => <<y, x>> \in OpToRel(<, Nat)
    BY Zenon DEF OpToRel
  <2>2. ~ (y < x)
    BY <1>1, <2>1
  <2>3. x \in Nat /\ y \in Nat
    OBVIOUS
  <2>4. QED
    BY <2>2, <2>3
<1>3. QED
  BY <1>2 DEF Min

\* A bounded set of numbers without a least element is empty.
LEMMA LeastOf ==
  ASSUME NEW S, S \subseteq Nat, S # {}
  PROVE  \E x \in S : \A y \in Nat : y < x => y \notin S
  <1>1. Min(S) \in S /\ \A y \in S : Min(S) <= y
    BY MinOfNats
  <1> DEFINE x == Min(S)
  <1> HIDE DEF x
  <1>2. x \in S /\ x \in Nat /\ \A y \in S : x <= y
    BY <1>1 DEF x
  <1>3. \A y \in Nat : y < x => y \notin S
    BY <1>2
  <1>4. QED
    BY <1>2, <1>3

-----------------------------------------------------------------------------
(* Retain                                                                  *)

\* The recursion that defines Retain.
LEMMA RetainSteps ==
  ASSUME NEW xs, NEW keep, Len(xs) \in Nat
  PROVE  \E kept :
           /\ Retain(xs, keep) = kept[Len(xs)]
           /\ kept[0] = <<>>
           /\ \A n \in 1 .. Len(xs) :
                kept[n] = IF n \in keep THEN Append(kept[n - 1], xs[n]) ELSE kept[n - 1]
  <1> DEFINE upto(f, m) ==
               [n \in 0 .. m |->
                  IF n = 0 THEN <<>>
                  ELSE IF n \in keep THEN Append(f[n - 1], xs[n]) ELSE f[n - 1]]
             kept == CHOOSE f : f = upto(f, Len(xs))
             bad == {m \in 0 .. Len(xs) : ~ \E f : f = upto(f, m)}
  <1>1. bad = {}
    <2> SUFFICES ASSUME bad # {} PROVE FALSE
      OBVIOUS
    <2>1. PICK m \in bad : \A y \in Nat : y < m => y \notin bad
      <3>1. bad \subseteq Nat
        OBVIOUS
      <3> HIDE DEF bad
      <3>2. QED
        BY <3>1, LeastOf
    <2>2. m \in 0 .. Len(xs) /\ ~ \E f : f = upto(f, m)
      OBVIOUS
    <2>3. CASE m = 0
      <3>1. [n \in 0 .. 0 |-> <<>>] = upto([n \in 0 .. 0 |-> <<>>], 0)
        OBVIOUS
      <3>2. QED
        BY <2>2, <2>3, <3>1
    <2>4. CASE m # 0
      <3>1. m - 1 \in 0 .. Len(xs) /\ m - 1 < m /\ m - 1 \in Nat
        BY <2>2, <2>4
      <3>2. PICK f : f = upto(f, m - 1)
        BY <3>1, <2>1
      <3> DEFINE g == [n \in 0 .. m |->
                         IF n = m
                         THEN IF m \in keep THEN Append(f[m - 1], xs[m]) ELSE f[m - 1]
                         ELSE f[n]]
      <3>3. g = upto(g, m)
        <4>1. \A n \in 0 .. m : g[n] = upto(g, m)[n]
          <5> TAKE n \in 0 .. m
          <5>1. CASE n = m
            BY <5>1, <3>1
          <5>2. CASE n # m /\ n = 0
            <6>1. n \in 0 .. m - 1 /\ f[n] = upto(f, m - 1)[n]
              BY <5>2, <3>1, <3>2
            <6>2. QED
              BY <6>1, <5>2
          <5>3. CASE n # m /\ n # 0
            <6>1. n \in 0 .. m - 1 /\ n - 1 \in 0 .. m /\ n - 1 # m
              BY <5>3, <3>1
            <6>2. g[n] = f[n] /\ g[n - 1] = f[n - 1]
              BY <6>1, <5>3
            <6>3. f[n] = IF n \in keep THEN Append(f[n - 1], xs[n]) ELSE f[n - 1]
              BY <3>2, <6>1, <5>3
            <6>4. QED
              BY <6>2, <6>3, <5>3
          <5>4. QED
            BY <5>1, <5>2, <5>3
        <4>2. QED
          BY <4>1
      <3> HIDE DEF g
      <3>4. QED
        BY <3>3, <2>2
    <2>5. QED
      BY <2>3, <2>4
  <1>2. Len(xs) \in 0 .. Len(xs)
    OBVIOUS
  <1>3. \E f : f = upto(f, Len(xs))
    BY <1>1, <1>2
  <1>4. kept = upto(kept, Len(xs))
    BY <1>3
  <1>5. Retain(xs, keep) = kept[Len(xs)]
    BY DEF Retain
  <1> HIDE DEF kept
  <1>6. kept[0] = <<>>
    BY <1>4
  <1>7. \A n \in 1 .. Len(xs) :
          kept[n] = IF n \in keep THEN Append(kept[n - 1], xs[n]) ELSE kept[n - 1]
    <2> TAKE n \in 1 .. Len(xs)
    <2>1. kept[n] = upto(kept, Len(xs))[n]
      BY <1>4
    <2>2. QED
      BY <2>1
  <1>8. QED
    BY <1>5, <1>6, <1>7

\* An appended element joins those that are there.
LEMMA RangeAppend ==
  ASSUME NEW S, NEW xs \in Seq(S), NEW e \in S
  PROVE  Range(Append(xs, e)) = Range(xs) \cup {e}
  <1>1. /\ Append(xs, e) \in Seq(S) /\ Len(Append(xs, e)) = Len(xs) + 1
        /\ \A i \in 1 .. Len(xs) : Append(xs, e)[i] = xs[i]
        /\ Append(xs, e)[Len(xs) + 1] = e
    BY AppendProperties
  <1>2. /\ DOMAIN xs = 1 .. Len(xs) /\ Len(xs) \in Nat
        /\ DOMAIN Append(xs, e) = 1 .. Len(xs) + 1
    BY <1>1, LenProperties
  <1>3. QED
    BY <1>1, <1>2 DEF Range

\* Retain keeps the elements at the indices in keep, and no others.
LEMMA RetainProperties ==
  ASSUME NEW S, NEW xs \in Seq(S), NEW keep
  PROVE  /\ Retain(xs, keep) \in Seq(S)
         /\ Len(Retain(xs, keep)) <= Len(xs)
         /\ Range(Retain(xs, keep)) = {xs[i] : i \in DOMAIN xs \cap keep}
  <1>1. Len(xs) \in Nat /\ DOMAIN xs = 1 .. Len(xs)
    BY LenProperties
  <1>2. PICK kept :
          /\ Retain(xs, keep) = kept[Len(xs)]
          /\ kept[0] = <<>>
          /\ \A n \in 1 .. Len(xs) :
               kept[n] = IF n \in keep THEN Append(kept[n - 1], xs[n]) ELSE kept[n - 1]
    BY <1>1, RetainSteps
  <1> DEFINE Kept(n) == /\ kept[n] \in Seq(S)
                        /\ Len(kept[n]) <= n
                        /\ Range(kept[n]) = {xs[i] : i \in (1 .. n) \cap keep}
             bad == {n \in 0 .. Len(xs) : ~ Kept(n)}
  <1>3. bad = {}
    <2> SUFFICES ASSUME bad # {} PROVE FALSE
      OBVIOUS
    <2>1. PICK n \in bad : \A y \in Nat : y < n => y \notin bad
      <3>1. bad \subseteq Nat
        OBVIOUS
      <3> HIDE DEF bad
      <3>2. QED
        BY <3>1, LeastOf
    <2>2. n \in 0 .. Len(xs) /\ ~ Kept(n)
      OBVIOUS
    <2>3. n # 0
      <3>1. Range(kept[0]) = {}
        BY <1>2, EmptySeq DEF Range
      <3>2. Kept(0)
        BY <1>2, <3>1, EmptySeq
      <3>3. QED
        BY <2>2, <3>2
    <2>4. n - 1 \in 0 .. Len(xs) /\ n - 1 \in Nat /\ n - 1 < n /\ n \in 1 .. Len(xs)
      BY <1>1, <2>2, <2>3
    <2>5. Kept(n - 1)
      BY <2>1, <2>4
    <2>6. xs[n] \in S
      BY <2>4, ElementOfSeq
    <2>7. (1 .. n) \cap keep = ((1 .. n - 1) \cap keep) \cup ({n} \cap keep)
      BY <2>4
    <2>8. CASE n \in keep
      <3>1. kept[n] = Append(kept[n - 1], xs[n])
        BY <1>2, <2>4, <2>8
      <3>2. kept[n] \in Seq(S) /\ Len(kept[n]) = Len(kept[n - 1]) + 1
        BY <3>1, <2>5, <2>6, AppendProperties
      <3>3. Range(kept[n]) = Range(kept[n - 1]) \cup {xs[n]}
        BY <3>1, <2>5, <2>6, RangeAppend
      <3>4. Range(kept[n]) = {xs[i] : i \in (1 .. n) \cap keep}
        BY <3>3, <2>5, <2>7, <2>8
      <3>5. Len(kept[n]) <= n
        BY <3>2, <2>4, <2>5, LenProperties
      <3>6. QED
        BY <3>2, <3>4, <3>5, <2>2
    <2>9. CASE n \notin keep
      <3>1. kept[n] = kept[n - 1]
        BY <1>2, <2>4, <2>9
      <3>2. Range(kept[n]) = {xs[i] : i \in (1 .. n) \cap keep}
        BY <3>1, <2>5, <2>7, <2>9
      <3>3. Len(kept[n]) <= n
        BY <3>1, <2>4, <2>5, LenProperties
      <3>4. QED
        BY <3>1, <3>2, <3>3, <2>2, <2>5
    <2>10. QED
      BY <2>8, <2>9
  <1>4. Kept(Len(xs))
    <2>1. Len(xs) \in 0 .. Len(xs)
      BY <1>1
    <2>2. \A n \in 0 .. Len(xs) : n \notin bad => Kept(n)
      BY Zenon
    <2> HIDE DEF bad, Kept
    <2>3. QED
      BY <1>3, <2>1, <2>2
  <1>5. QED
    BY <1>1, <1>2, <1>4

-----------------------------------------------------------------------------
(* FlattenSeq                                                              *)

\* The recursion that defines FlattenSeq.
LEMMA FlattenSteps ==
  ASSUME NEW seqs, Len(seqs) \in Nat, Len(seqs) # 0
  PROVE  \E flat :
           /\ FlattenSeq(seqs) = flat[Len(seqs)]
           /\ flat[1] = seqs[1]
           /\ \A n \in 2 .. Len(seqs) : flat[n] = flat[n - 1] \o seqs[n]
  <1> DEFINE upto(f, m) ==
               [i \in 1 .. m |-> IF i = 1 THEN seqs[i] ELSE f[i - 1] \o seqs[i]]
             flat == CHOOSE f : f = upto(f, Len(seqs))
             bad == {m \in 1 .. Len(seqs) : ~ \E f : f = upto(f, m)}
  <1>1. bad = {}
    <2> SUFFICES ASSUME bad # {} PROVE FALSE
      OBVIOUS
    <2>1. PICK m \in bad : \A y \in Nat : y < m => y \notin bad
      <3>1. bad \subseteq 1 .. Len(seqs)
        BY Zenon
      <3> HIDE DEF bad
      <3>2. bad \subseteq Nat
        BY <3>1
      <3>3. QED
        BY <3>2, LeastOf
    <2>2. m \in 1 .. Len(seqs) /\ ~ \E f : f = upto(f, m)
      OBVIOUS
    <2>3. CASE m = 1
      <3>1. [i \in 1 .. 1 |-> seqs[i]] = upto([i \in 1 .. 1 |-> seqs[i]], 1)
        OBVIOUS
      <3>2. QED
        BY <2>2, <2>3, <3>1
    <2>4. CASE m # 1
      <3>1. m - 1 \in 1 .. Len(seqs) /\ m - 1 < m /\ m - 1 \in Nat
        BY <2>2, <2>4
      <3>2. PICK f : f = upto(f, m - 1)
        BY <3>1, <2>1
      <3> DEFINE g == [i \in 1 .. m |->
                         IF i = m THEN f[m - 1] \o seqs[m] ELSE f[i]]
      <3>3. \A i \in 1 .. m : g[i] = upto(g, m)[i]
        <4> TAKE i \in 1 .. m
        <4>1. CASE i = m
          <5>1. i # 1 /\ i - 1 \in 1 .. m /\ i - 1 # m
            BY <4>1, <2>4, <3>1
          <5>2. g[i] = f[i - 1] \o seqs[i] /\ g[i - 1] = f[i - 1]
            BY <4>1, <5>1
          <5>3. QED
            BY <5>1, <5>2
        <4>2. CASE i # m /\ i = 1
          <5>1. i \in 1 .. m - 1 /\ f[i] = upto(f, m - 1)[i]
            BY <4>2, <3>1, <3>2
          <5>2. QED
            BY <5>1, <4>2
        <4>3. CASE i # m /\ i # 1
          <5>1. i \in 1 .. m - 1 /\ i - 1 \in 1 .. m /\ i - 1 # m
            BY <4>3, <3>1
          <5>2. g[i] = f[i] /\ g[i - 1] = f[i - 1]
            BY <5>1, <4>3
          <5>3. f[i] = f[i - 1] \o seqs[i]
            BY <3>2, <5>1, <4>3
          <5>4. QED
            BY <5>2, <5>3, <4>3
        <4>4. QED
          BY <4>1, <4>2, <4>3
      <3>4. g = upto(g, m)
        BY <3>3
      <3> HIDE DEF g
      <3>5. QED
        BY <3>4, <2>2
    <2>5. QED
      BY <2>3, <2>4
  <1>2. Len(seqs) \in 1 .. Len(seqs)
    OBVIOUS
  <1>3. \E f : f = upto(f, Len(seqs))
    BY <1>1, <1>2
  <1>4. flat = upto(flat, Len(seqs))
    BY <1>3
  <1>5. FlattenSeq(seqs) = flat[Len(seqs)]
    BY DEF FlattenSeq
  <1> HIDE DEF flat
  <1>6. flat[1] = seqs[1]
    BY <1>4
  <1>7. \A n \in 2 .. Len(seqs) : flat[n] = flat[n - 1] \o seqs[n]
    <2> TAKE n \in 2 .. Len(seqs)
    <2>1. flat[n] = upto(flat, Len(seqs))[n]
      BY <1>4
    <2>2. n \in 1 .. Len(seqs) /\ n # 1
      OBVIOUS
    <2>3. QED
      BY <2>1, <2>2
  <1>8. QED
    BY <1>5, <1>6, <1>7

\* Joining lists keeps all of their elements and adds none.
LEMMA FlattenProperties ==
  ASSUME NEW S, NEW seqs \in Seq(Seq(S))
  PROVE  /\ FlattenSeq(seqs) \in Seq(S)
         /\ Range(FlattenSeq(seqs)) = UNION {Range(seqs[i]) : i \in DOMAIN seqs}
  <1>1. Len(seqs) \in Nat /\ DOMAIN seqs = 1 .. Len(seqs)
    BY LenProperties
  <1>2. CASE Len(seqs) = 0
    <2>1. seqs = <<>> /\ FlattenSeq(seqs) = <<>>
      BY <1>2, EmptySeq DEF FlattenSeq
    <2>2. DOMAIN seqs = {} /\ Range(FlattenSeq(seqs)) = {}
      BY <1>1, <1>2, <2>1 DEF Range
    <2>3. QED
      BY <2>1, <2>2, EmptySeq
  <1>3. CASE Len(seqs) # 0
    <2>1. PICK flat :
            /\ FlattenSeq(seqs) = flat[Len(seqs)]
            /\ flat[1] = seqs[1]
            /\ \A n \in 2 .. Len(seqs) : flat[n] = flat[n - 1] \o seqs[n]
      BY <1>1, <1>3, FlattenSteps
    <2> DEFINE Joined(n) == /\ flat[n] \in Seq(S)
                            /\ Range(flat[n]) = UNION {Range(seqs[i]) : i \in 1 .. n}
               bad == {n \in 1 .. Len(seqs) : ~ Joined(n)}
    <2>2. bad = {}
      <3> SUFFICES ASSUME bad # {} PROVE FALSE
        OBVIOUS
      <3>1. PICK n \in bad : \A y \in Nat : y < n => y \notin bad
        <4>1. bad \subseteq Nat
          OBVIOUS
        <4> HIDE DEF bad
        <4>2. QED
          BY <4>1, LeastOf
      <3>2. n \in 1 .. Len(seqs) /\ ~ Joined(n) /\ seqs[n] \in Seq(S)
        BY ElementOfSeq
      <3>3. n # 1
        <4>1. seqs[1] \in Seq(S)
          BY <1>1, <1>3, ElementOfSeq
        <4>2. Joined(1)
          BY <2>1, <4>1
        <4>3. QED
          BY <3>2, <4>2
      <3>4. n - 1 \in 1 .. Len(seqs) /\ n - 1 \in Nat /\ n - 1 < n /\ n \in 2 .. Len(seqs)
        BY <1>1, <3>2, <3>3
      <3>5. Joined(n - 1)
        BY <3>1, <3>4
      <3>6. flat[n] = flat[n - 1] \o seqs[n]
        BY <2>1, <3>4
      <3>7. flat[n] \in Seq(S)
        BY <3>2, <3>5, <3>6, ConcatProperties
      <3>8. Range(flat[n]) = Range(flat[n - 1]) \cup Range(seqs[n])
        <4>1. flat[n - 1] \in Seq(S) /\ seqs[n] \in Seq(S)
          BY <3>2, <3>5
        <4> HIDE DEF bad
        <4>2. Range(flat[n - 1] \o seqs[n]) = Range(flat[n - 1]) \cup Range(seqs[n])
          BY <4>1, RangeConcatenation
        <4>3. QED
          BY <3>6, <4>2
      <3>9. 1 .. n = (1 .. n - 1) \cup {n}
        <4>1. \A m \in Nat : m >= 1 => 1 .. m = (1 .. m - 1) \cup {m}
          OBVIOUS
        <4>2. n \in Nat /\ n >= 1
          BY <1>1, <3>2
        <4> HIDE DEF bad
        <4>3. QED
          BY <4>1, <4>2
      <3>10. Range(flat[n]) = UNION {Range(seqs[i]) : i \in 1 .. n}
        BY <3>5, <3>8, <3>9
      <3>11. QED
        BY <3>2, <3>7, <3>10
    <2>3. Joined(Len(seqs))
      <3>1. Len(seqs) \in 1 .. Len(seqs)
        BY <1>1, <1>3
      <3>2. \A n \in 1 .. Len(seqs) : n \notin bad => Joined(n)
        BY Zenon
      <3> HIDE DEF bad, Joined
      <3>3. QED
        BY <2>2, <3>1, <3>2
    <2>4. QED
      BY <1>1, <2>1, <2>3
  <1>4. QED
    BY <1>2, <1>3

-----------------------------------------------------------------------------
(* Pushing what is not there                                               *)

\* A push leaves the elements where they are and repeats none.
LEMMA PushNewProperties ==
  ASSUME NEW S, NEW v \in Seq(S), NEW x \in S, NEW cap,
         NEW new, new = PushNew(v, x, cap)
  PROVE  /\ new \in Seq(S)
         /\ Len(v) <= Len(new)
         /\ Range(new) \in {Range(v), Range(v) \cup {x}}
         /\ HasRoom(v, cap) => Range(new) = Range(v) \cup {x}
         /\ \A k \in 1 .. Len(v) : new[k] = v[k]
         /\ IsInjective(v) => IsInjective(new)
  <1>1. DOMAIN v = 1 .. Len(v) /\ Len(v) \in Nat
    BY LenProperties
  <1>2. CASE Contains(v, x)
    <2>1. new = v /\ x \in Range(v)
      BY <1>1, <1>2 DEF PushNew, Contains, Range
    <2>2. QED
      BY <1>1, <2>1
  <1>3. CASE ~ Contains(v, x) /\ ~ HasRoom(v, cap)
    <2>1. new = v
      BY <1>3 DEF PushNew, VecPush
    <2>2. QED
      BY <1>1, <1>3, <2>1
  <1>4. CASE ~ Contains(v, x) /\ HasRoom(v, cap)
    <2>1. new = Append(v, x)
      BY <1>4 DEF PushNew, VecPush
    <2>2. /\ new \in Seq(S) /\ Len(new) = Len(v) + 1
          /\ \A k \in 1 .. Len(v) : new[k] = v[k]
          /\ new[Len(v) + 1] = x
      BY <2>1, AppendProperties
    <2>3. DOMAIN new = 1 .. Len(v) + 1
      BY <2>2, LenProperties
    <2>4. Range(new) = Range(v) \cup {x}
      BY <2>1, RangeAppend
    <2>5. \A k \in 1 .. Len(v) : v[k] # x
      BY <1>4 DEF Contains
    <2>6. IsInjective(v) => IsInjective(new)
      BY <1>1, <2>2, <2>3, <2>5 DEF IsInjective
    <2>7. QED
      BY <1>1, <2>2, <2>4, <2>6
  <1>5. QED
    BY <1>2, <1>3, <1>4

\* A set of positions has a last one.
LEMMA MaxOfBounded ==
  ASSUME NEW n \in Nat, NEW s, s \subseteq 1 .. n, s # {}
  PROVE  Max(s) \in s /\ \A y \in s : y <= Max(s)
  <1> DEFINE gaps == {g \in Nat : n - g \in s}
  <1>1. gaps # {}
    <2>1. PICK y \in s : TRUE
      OBVIOUS
    <2>2. y \in Nat /\ n - y \in Nat /\ n - (n - y) = y
      OBVIOUS
    <2>3. QED
      BY <2>1, <2>2
  <1>2. PICK g \in gaps : \A z \in gaps : g <= z
    BY <1>1, MinOfNats
  <1>3. PICK x \in s : g = n - x
    BY <1>2
  <1>4. \A y \in s : y <= x
    <2> TAKE y \in s
    <2>1. x \in Nat /\ y \in Nat /\ n - y \in Nat /\ n - (n - y) = y
      OBVIOUS
    <2>2. g <= n - y
      BY <1>2, <2>1
    <2>3. QED
      BY <2>1, <2>2, <1>3
  <1>5. \E m \in s : \A y \in s : m >= y
    BY <1>4
  <1>6. QED
    BY <1>5 DEF Max

\* The recursion behind a loop of such pushes.
LEMMA PushAllNewSteps ==
  ASSUME NEW xs, NEW cap, NEW n \in Nat, DOMAIN xs = 1 .. n
  PROVE  \E g :
           /\ PushAllNew(xs, cap) = g[n]
           /\ g[0] = <<>>
           /\ \A k \in 1 .. n : g[k] = PushNew(g[k - 1], xs[k], cap)
  <1> DEFINE upto(f, m) ==
               [s \in SUBSET (1 .. m) |->
                  IF s = {} THEN <<>>
                  ELSE PushNew(f[s \ {Max(s)}], xs[Max(s)], cap)]
             iter == CHOOSE f : f = upto(f, n)
             bad == {m \in 0 .. n : ~ \E f : f = upto(f, m)}
  <1>1. bad = {}
    <2> SUFFICES ASSUME bad # {} PROVE FALSE
      OBVIOUS
    <2>1. PICK m \in bad : \A y \in Nat : y < m => y \notin bad
      <3>1. bad \subseteq 0 .. n
        BY Zenon
      <3> HIDE DEF bad
      <3>2. bad \subseteq Nat
        BY <3>1
      <3>3. QED
        BY <3>2, LeastOf
    <2>2. m \in 0 .. n /\ ~ \E f : f = upto(f, m)
      BY Zenon
    <2>3. CASE m = 0
      <3>1. 1 .. 0 = {}
        OBVIOUS
      <3>2. [s \in SUBSET (1 .. 0) |-> <<>>] = upto([s \in SUBSET (1 .. 0) |-> <<>>], 0)
        BY <3>1
      <3>3. QED
        BY <2>2, <2>3, <3>2
    <2>4. CASE m # 0
      <3>1. /\ m - 1 \in 0 .. n /\ m - 1 < m /\ m - 1 \in Nat /\ m \in Nat
            /\ 1 .. m = (1 .. m - 1) \cup {m} /\ m \notin 1 .. m - 1
            /\ \A y \in 1 .. m : y \in Nat /\ y <= m
        BY <2>2, <2>4
      <3>2. m - 1 \notin bad
        BY <2>1, <3>1
      <3>3. PICK f : f = upto(f, m - 1)
        BY <3>1, <3>2
      <3> DEFINE g == [s \in SUBSET (1 .. m) |->
                         IF m \in s THEN PushNew(f[s \ {m}], xs[m], cap) ELSE f[s]]
      <3>4. ASSUME NEW s \in SUBSET (1 .. m)
            PROVE  g[s] = IF s = {} THEN <<>>
                          ELSE PushNew(g[s \ {Max(s)}], xs[Max(s)], cap)
        <4>1. CASE m \in s
          <5>1. Max(s) \in s /\ \A y \in s : y <= Max(s)
            BY <3>1, <4>1, MaxOfBounded
          <5>2. Max(s) = m
            <6>1. m <= Max(s) /\ Max(s) \in 1 .. m
              BY <5>1, <4>1
            <6>2. QED
              BY <6>1, <3>1
          <5>3. g[s \ {m}] = f[s \ {m}]
            OBVIOUS
          <5>4. g[s] = PushNew(f[s \ {m}], xs[m], cap)
            BY <4>1
          <5>5. QED
            BY <5>2, <5>3, <5>4, <4>1
        <4>2. CASE m \notin s
          <5>1. s \in SUBSET (1 .. m - 1)
            BY <3>1, <4>2
          <5>2. f[s] = IF s = {} THEN <<>>
                       ELSE PushNew(f[s \ {Max(s)}], xs[Max(s)], cap)
            BY <3>3, <5>1
          <5>3. m \notin s \ {Max(s)} /\ s \ {Max(s)} \in SUBSET (1 .. m)
            BY <4>2
          <5>4. g[s] = f[s] /\ g[s \ {Max(s)}] = f[s \ {Max(s)}]
            BY <4>2, <5>3
          <5>5. QED
            BY <5>2, <5>4
        <4>3. QED
          BY <4>1, <4>2
      <3>5. g = [s \in SUBSET (1 .. m) |-> g[s]]
        OBVIOUS
      <3> HIDE DEF g
      <3>6. g = upto(g, m)
        BY <3>4, <3>5
      <3>7. QED
        BY <3>6, <2>2
    <2>5. QED
      BY <2>3, <2>4
  <1>2. \E f : f = upto(f, n)
    <2>1. n \in 0 .. n
      OBVIOUS
    <2>2. \A m \in 0 .. n : m \notin bad => \E f : f = upto(f, m)
      BY Zenon
    <2> HIDE DEF bad, upto
    <2>3. QED
      BY <1>1, <2>1, <2>2
  <1>3. iter = upto(iter, n)
    BY <1>2
  <1>4. PushAllNew(xs, cap) = iter[1 .. n]
    BY Zenon DEF PushAllNew, FoldLeft, MapThenFoldSet
  <1> HIDE DEF iter
  <1> DEFINE g == [k \in 0 .. n |-> iter[1 .. k]]
  <1>5. g[0] = <<>>
    <2>1. 1 .. 0 = {} /\ 0 \in 0 .. n
      OBVIOUS
    <2>2. iter[{}] = <<>>
      BY <1>3
    <2>3. QED
      BY <2>1, <2>2
  <1>6. ASSUME NEW k \in 1 .. n
        PROVE  g[k] = PushNew(g[k - 1], xs[k], cap)
    <2>1. /\ 1 .. k \in SUBSET (1 .. n) /\ 1 .. k # {} /\ k \in 1 .. k
          /\ (1 .. k) \ {k} = 1 .. k - 1 /\ k - 1 \in 0 .. n /\ k \in 0 .. n /\ k \in Nat
      <3>1. k \in Nat /\ k \in 1 .. k /\ k - 1 \in 0 .. n /\ k \in 0 .. n
        OBVIOUS
      <3>2. \A y \in 1 .. k : y \in 1 .. n
        OBVIOUS
      <3>3. (1 .. k) \ {k} = 1 .. k - 1
        OBVIOUS
      <3> HIDE DEF g, upto, bad
      <3>4. QED
        BY <3>1, <3>2, <3>3
    <2>2. Max(1 .. k) \in 1 .. k /\ \A y \in 1 .. k : y <= Max(1 .. k)
      BY <2>1, MaxOfBounded
    <2>3. Max(1 .. k) = k
      BY <2>1, <2>2
    <2>4. iter[1 .. k] = PushNew(iter[(1 .. k) \ {Max(1 .. k)}], xs[Max(1 .. k)], cap)
      BY <1>3, <2>1
    <2>5. QED
      BY <2>1, <2>3, <2>4
  <1>7. g[n] = iter[1 .. n]
    OBVIOUS
  <1> HIDE DEF g
  <1>8. QED
    BY <1>4, <1>5, <1>6, <1>7

-----------------------------------------------------------------------------
(* Folds                                                                   *)

\* f holds the result of every step of a fold over a sequence of length n.
IsFoldTable(f, n, S, base, F) ==
  /\ f \in [SUBSET (1 .. n) -> S]
  /\ \A s \in SUBSET (1 .. n) :
       f[s] = IF s = {} THEN base ELSE F[Max(s)][f[s \ {Max(s)}]]

\* A fold over a sequence of length n has a table of its results, for a step
\* that stays within S.
LEMMA FoldTable ==
  ASSUME NEW n \in Nat, NEW S, NEW base \in S, NEW F,
         \A k \in 1 .. n, u \in S : F[k][u] \in S
  PROVE  \E f : IsFoldTable(f, n, S, base, F)
  <1> DEFINE IsTable(f, m) ==
               \A s \in SUBSET (1 .. m) :
                 f[s] = IF s = {} THEN base ELSE F[Max(s)][f[s \ {Max(s)}]]
             Exists(m) == \E f \in [SUBSET (1 .. m) -> S] : IsTable(f, m)
             bad == {m \in 0 .. n : ~ Exists(m)}
  <1>1. Exists(0)
    <2> DEFINE f == [s \in SUBSET (1 .. 0) |-> base]
    <2>1. \A s \in SUBSET (1 .. 0) : s = {}
      OBVIOUS
    <2>2. f \in [SUBSET (1 .. 0) -> S] /\ \A s \in SUBSET (1 .. 0) : f[s] = base
      OBVIOUS
    <2> HIDE DEF f
    <2>3. QED
      BY <2>1, <2>2
  <1>2. ASSUME NEW m \in 1 .. n, Exists(m - 1)
        PROVE  Exists(m)
    <2>1. /\ m \in Nat /\ m - 1 \in Nat /\ m \notin 1 .. m - 1
          /\ \A y \in 1 .. m : y \in Nat /\ y <= m /\ (y # m => y \in 1 .. m - 1)
          /\ \A y \in 1 .. m - 1 : y \in 1 .. m
      OBVIOUS
    <2>2. PICK f \in [SUBSET (1 .. m - 1) -> S] : IsTable(f, m - 1)
      BY <1>2
    <2> DEFINE g == [s \in SUBSET (1 .. m) |->
                       IF m \in s THEN F[m][f[s \ {m}]] ELSE f[s]]
    <2>3. ASSUME NEW s \in SUBSET (1 .. m)
          PROVE  /\ s \ {m} \in SUBSET (1 .. m - 1)
                 /\ s \ {m} \in SUBSET (1 .. m)
                 /\ m \notin s => s \in SUBSET (1 .. m - 1)
      <3>1. \A y \in s : y # m => y \in 1 .. m - 1
        BY <2>1
      <3>2. QED
        BY <3>1
    <2>4. g \in [SUBSET (1 .. m) -> S]
      <3>1. ASSUME NEW s \in SUBSET (1 .. m)
            PROVE  (IF m \in s THEN F[m][f[s \ {m}]] ELSE f[s]) \in S
        <4>1. CASE m \in s
          <5>1. f[s \ {m}] \in S
            BY <2>2, <2>3
          <5>2. QED
            BY <4>1, <5>1
        <4>2. CASE m \notin s
          BY <2>2, <2>3, <4>2
        <4>3. QED
          BY <4>1, <4>2
      <3>2. QED
        BY <3>1
    <2>5. ASSUME NEW s \in SUBSET (1 .. m)
          PROVE  g[s] = IF s = {} THEN base ELSE F[Max(s)][g[s \ {Max(s)}]]
      <3>1. CASE m \in s
        <4>1. s \subseteq 1 .. m /\ s # {}
          BY <3>1
        <4>2. Max(s) \in s /\ \A y \in s : y <= Max(s)
          BY <2>1, <4>1, MaxOfBounded
        <4>3. Max(s) = m
          <5>1. m <= Max(s) /\ Max(s) \in 1 .. m
            BY <3>1, <4>2
          <5>2. QED
            BY <5>1, <2>1
        <4>4. g[s \ {m}] = f[s \ {m}]
          BY <2>3
        <4>5. g[s] = F[m][f[s \ {m}]]
          BY <3>1
        <4>6. QED
          BY <4>1, <4>3, <4>4, <4>5
      <3>2. CASE m \notin s
        <4>1. s \in SUBSET (1 .. m - 1)
          BY <2>3, <3>2
        <4>2. f[s] = IF s = {} THEN base ELSE F[Max(s)][f[s \ {Max(s)}]]
          BY <2>2, <4>1
        <4>3. m \notin s \ {Max(s)} /\ s \ {Max(s)} \in SUBSET (1 .. m)
          BY <3>2
        <4>4. g[s] = f[s] /\ g[s \ {Max(s)}] = f[s \ {Max(s)}]
          BY <3>2, <4>3
        <4>5. QED
          BY <4>2, <4>4
      <3>3. QED
        BY <3>1, <3>2
    <2> HIDE DEF g
    <2>6. QED
      BY <2>4, <2>5
  <1> HIDE DEF IsTable, Exists
  <1>3. bad = {}
    <2> SUFFICES ASSUME bad # {} PROVE FALSE
      OBVIOUS
    <2>1. bad \subseteq Nat
      OBVIOUS
    <2>2. PICK m \in bad : \A y \in Nat : y < m => y \notin bad
      <3> HIDE DEF bad
      <3>1. QED
        BY <2>1, LeastOf
    <2>3. m \in 0 .. n /\ ~ Exists(m)
      OBVIOUS
    <2>4. m # 0
      BY <1>1, <2>3
    <2>5. m \in 1 .. n /\ m - 1 \in 0 .. n /\ m - 1 \in Nat /\ m - 1 < m
      BY <2>3, <2>4
    <2>6. Exists(m - 1)
      BY <2>2, <2>5
    <2>7. QED
      BY <1>2, <2>3, <2>5, <2>6
  <1>4. Exists(n)
    <2>1. n \in 0 .. n
      OBVIOUS
    <2>2. QED
      BY <1>3, <2>1
  <1>5. QED
    BY <1>4 DEF Exists, IsTable, IsFoldTable

\* Counting up to n, whatever each number passes on to the next.
LEMMA CountUp ==
  ASSUME NEW n \in Nat, NEW S, 0 \in S, \A k \in 1 .. n : k - 1 \in S => k \in S
  PROVE  \A k \in 0 .. n : k \in S
  <1> DEFINE bad == (0 .. n) \ S
  <1>1. bad = {}
    <2> SUFFICES ASSUME bad # {} PROVE FALSE
      OBVIOUS
    <2>1. bad \subseteq Nat
      OBVIOUS
    <2>2. PICK m \in bad : \A y \in Nat : y < m => y \notin bad
      <3> HIDE DEF bad
      <3>1. QED
        BY <2>1, LeastOf
    <2>3. m \in 0 .. n /\ m \notin S
      OBVIOUS
    <2>4. m # 0
      BY <2>3
    <2>5. m \in 1 .. n /\ m - 1 \in 0 .. n /\ m - 1 \in Nat /\ m - 1 < m
      BY <2>3, <2>4
    <2>6. m - 1 \notin bad
      BY <2>2, <2>5
    <2>7. m - 1 \in S
      BY <2>5, <2>6
    <2> HIDE DEF bad
    <2>8. QED
      BY <2>3, <2>5, <2>7
  <1>2. QED
    BY <1>1

\* The same when a number needs all of those below it.
LEMMA CountUpOnAll ==
  ASSUME NEW n \in Nat, NEW S,
         \A k \in 0 .. n : (\A j \in Nat : j < k => j \in S) => k \in S
  PROVE  \A k \in 0 .. n : k \in S
  <1> DEFINE bad == (0 .. n) \ S
  <1>1. bad = {}
    <2> SUFFICES ASSUME bad # {} PROVE FALSE
      OBVIOUS
    <2>1. bad \subseteq Nat
      OBVIOUS
    <2>2. PICK m \in bad : \A y \in Nat : y < m => y \notin bad
      <3> HIDE DEF bad
      <3>1. QED
        BY <2>1, LeastOf
    <2>3. m \in 0 .. n /\ m \notin S
      OBVIOUS
    <2>4. ASSUME NEW j \in Nat, j < m
          PROVE  j \in S
      <3>1. j \in 0 .. n /\ j \notin bad
        BY <2>2, <2>3, <2>4
      <3>2. QED
        BY <3>1
    <2> HIDE DEF bad
    <2>5. QED
      BY <2>3, <2>4
  <1>2. QED
    BY <1>1

\* The numbers up to k, and the largest of them.
LEMMA CountedSoFar ==
  ASSUME NEW n \in Nat, NEW k \in 1 .. n
  PROVE  /\ 1 .. k \in SUBSET (1 .. n) /\ 1 .. k # {} /\ Max(1 .. k) = k
         /\ (1 .. k) \ {k} = 1 .. k - 1 /\ k - 1 \in 0 .. n
  <1>1. /\ k \in 1 .. k /\ 1 .. k \subseteq 1 .. n
        /\ (1 .. k) \ {k} = 1 .. k - 1 /\ k - 1 \in 0 .. n
    OBVIOUS
  <1>2. Max(1 .. k) \in 1 .. k /\ \A y \in 1 .. k : y <= Max(1 .. k)
    BY <1>1, MaxOfBounded
  <1>3. Max(1 .. k) = k
    BY <1>1, <1>2
  <1>4. QED
    BY <1>1, <1>3

\* iter computes the fold, in S.
Iterates(iter, n, S, F) ==
  \A k \in 1 .. n, s \in SUBSET (1 .. n) :
    Max(s) = k /\ s # {} /\ iter[s \ {k}] \in S => iter[s] = F[k][iter[s \ {k}]]

\* g holds what the fold has after each element, up to the result.
IsFoldRun(g, n, S, base, F, result) ==
  /\ g \in [0 .. n -> S]
  /\ result = g[n] /\ g[0] = base
  /\ \A k \in 1 .. n : g[k] = F[k][g[k - 1]]

\* A fold over a sequence goes from one element to the next.
LEMMA FoldSteps ==
  ASSUME NEW n \in Nat, NEW S, NEW base \in S, NEW F,
         \A k \in 1 .. n, u \in S : F[k][u] \in S,
         NEW iter, iter[{}] = base, Iterates(iter, n, S, F)
  PROVE  \E g : IsFoldRun(g, n, S, base, F, iter[1 .. n])
  <1> DEFINE g == [k \in 0 .. n |-> iter[1 .. k]]
             T == {k \in 0 .. n : g[k] \in S}
  <1>1. g[0] = base /\ g[n] = iter[1 .. n]
    <2>1. 0 \in 0 .. n /\ n \in 0 .. n /\ 1 .. 0 = {}
      OBVIOUS
    <2>2. QED
      BY <2>1
  <1>2. ASSUME NEW k \in 1 .. n, g[k - 1] \in S
        PROVE  g[k] = F[k][g[k - 1]]
    <2>1. /\ 1 .. k \in SUBSET (1 .. n) /\ 1 .. k # {} /\ Max(1 .. k) = k
          /\ (1 .. k) \ {k} = 1 .. k - 1 /\ k - 1 \in 0 .. n
      BY CountedSoFar
    <2>2. g[k] = iter[1 .. k] /\ g[k - 1] = iter[1 .. k - 1]
      BY <2>1
    <2> HIDE DEF g, T
    <2>3. iter[(1 .. k) \ {k}] \in S
      BY <1>2, <2>1, <2>2
    <2>4. iter[1 .. k] = F[k][iter[(1 .. k) \ {k}]]
      BY <2>1, <2>3 DEF Iterates
    <2>5. QED
      BY <2>1, <2>2, <2>4
  <1>3. 0 \in T
    BY <1>1
  <1>4. \A k \in 1 .. n : k - 1 \in T => k \in T
    <2> TAKE k \in 1 .. n
    <2> HAVE k - 1 \in T
    <2>1. g[k - 1] \in S /\ k \in 0 .. n
      OBVIOUS
    <2> HIDE DEF g
    <2>2. QED
      BY <1>2, <2>1
  <1>5. \A k \in 0 .. n : k \in T
    <2> HIDE DEF T
    <2>1. QED
      BY <1>3, <1>4, CountUp
  <1>6. \A k \in 0 .. n : g[k] \in S
    <2> HIDE DEF g
    <2>1. QED
      BY <1>5
  <1>7. g \in [0 .. n -> S]
    BY <1>6
  <1>8. \A k \in 1 .. n : g[k] = F[k][g[k - 1]]
    <2> TAKE k \in 1 .. n
    <2>1. k - 1 \in 0 .. n
      OBVIOUS
    <2> HIDE DEF g
    <2>2. QED
      BY <1>2, <1>6, <2>1
  <1> HIDE DEF g
  <1>9. QED
    BY <1>1, <1>7, <1>8 DEF IsFoldRun

-----------------------------------------------------------------------------
(* Parts of a list                                                         *)

\* A list of one list is that list.
LEMMA FlattenOne ==
  ASSUME NEW x
  PROVE  FlattenSeq(<<x>>) = x
  <1> DEFINE y == <<x>>
  <1>1. Len(y) \in Nat /\ Len(y) # 0 /\ Len(y) = 1 /\ y[1] = x
    OBVIOUS
  <1> HIDE DEF y
  <1>2. PICK flat : FlattenSeq(y) = flat[Len(y)] /\ flat[1] = y[1]
    BY <1>1, FlattenSteps
  <1>3. QED
    BY <1>1, <1>2 DEF y

\* Joining three lists.
LEMMA JoinThree ==
  ASSUME NEW S, NEW p \in Seq(S), NEW q \in Seq(S), NEW r \in Seq(S)
  PROVE  (p \o q) \o r = p \o (q \o r)
  BY ConcatAssociative

\* One list more in front.
LEMMA FlattenCons ==
  ASSUME NEW S, NEW x \in Seq(S), NEW xs \in Seq(Seq(S))
  PROVE  FlattenSeq(<<x>> \o xs) = x \o FlattenSeq(xs)
  <1> DEFINE n == Len(xs)
             ys == <<x>> \o xs
  <1>1. n \in Nat /\ <<x>> \in Seq(Seq(S)) /\ Len(<<x>>) = 1 /\ <<x>>[1] = x
    BY LenProperties
  <1>2. /\ Len(ys) = n + 1 /\ ys[1] = x
        /\ \A k \in 1 .. n : ys[k + 1] = xs[k]
    BY <1>1, ConcatProperties
  <1> HIDE DEF ys
  <1>3. CASE n = 0
    <2>1. xs = <<>> /\ FlattenSeq(xs) = <<>>
      BY <1>3, EmptySeq DEF FlattenSeq
    <2>2. ys = <<x>>
      BY <1>1, <2>1, ConcatEmptySeq DEF ys
    <2>3. x \o FlattenSeq(xs) = x
      BY <2>1, ConcatEmptySeq
    <2>4. QED
      BY <2>2, <2>3, FlattenOne DEF ys
  <1>4. CASE n # 0
    <2>1. PICK a : /\ FlattenSeq(xs) = a[n] /\ a[1] = xs[1]
                   /\ \A k \in 2 .. n : a[k] = a[k - 1] \o xs[k]
      BY <1>1, <1>4, FlattenSteps
    <2>2. PICK b : /\ FlattenSeq(ys) = b[Len(ys)] /\ b[1] = ys[1]
                   /\ \A k \in 2 .. Len(ys) : b[k] = b[k - 1] \o ys[k]
      <3>1. Len(ys) \in Nat /\ Len(ys) # 0
        BY <1>1, <1>2
      <3>2. QED
        BY <3>1, FlattenSteps
    <2> DEFINE T == {k \in 0 .. n : k > 0 => a[k] \in Seq(S) /\ b[k + 1] = x \o a[k]}
    <2>3. 0 \in T
      BY <1>1
    <2>4. ASSUME NEW k \in 1 .. n, k - 1 \in T
          PROVE  k \in T
      <3>1. /\ xs[k] \in Seq(S) /\ k + 1 \in 2 .. Len(ys) /\ (k + 1) - 1 = k
            /\ k \in 0 .. n /\ k > 0 /\ ys[k + 1] = xs[k]
        BY <1>1, <1>2, ElementOfSeq
      <3>2. b[k + 1] = b[k] \o xs[k]
        <4>1. b[k + 1] = b[(k + 1) - 1] \o ys[k + 1]
          BY <2>2, <3>1
        <4>2. QED
          BY <3>1, <4>1
      <3>3. CASE k = 1
        <4>1. b[1] = x /\ a[1] = xs[1]
          BY <1>2, <2>1, <2>2
        <4>2. QED
          BY <3>1, <3>2, <3>3, <4>1
      <3>4. CASE k # 1
        <4>1. k \in 2 .. n /\ k - 1 > 0 /\ (k - 1) + 1 = k
          BY <1>1, <3>4
        <4>2. a[k] = a[k - 1] \o xs[k]
          BY <2>1, <4>1
        <4>3. a[k - 1] \in Seq(S) /\ b[k] = x \o a[k - 1]
          BY <2>4, <4>1
        <4>4. a[k] \in Seq(S)
          BY <3>1, <4>2, <4>3, ConcatProperties
        <4>5. (x \o a[k - 1]) \o xs[k] = x \o (a[k - 1] \o xs[k])
          <5>1. PICK q \in Seq(S) : q = a[k - 1]
            BY <4>3
          <5>2. PICK r \in Seq(S) : r = xs[k]
            BY <3>1
          <5>3. (x \o q) \o r = x \o (q \o r)
            BY SMTT(20), JoinThree
          <5>4. QED
            BY Zenon, <5>1, <5>2, <5>3
        <4>6. QED
          BY <3>1, <3>2, <4>2, <4>3, <4>4, <4>5
      <3>5. QED
        BY <3>3, <3>4
    <2> HIDE DEF T
    <2>5. \A k \in 0 .. n : k \in T
      BY <1>1, <2>3, <2>4, CountUp
    <2>6. n \in T /\ n > 0
      BY <1>1, <1>4, <2>5
    <2>7. QED
      BY <1>2, <2>1, <2>2, <2>6 DEF T, ys
  <1>5. QED
    BY <1>3, <1>4

\* What stands from the k-th element on.
LEMMA SuffixOf ==
  ASSUME NEW S, NEW s \in Seq(S), NEW k \in 1 .. Len(s) + 1
  PROVE  /\ SubSeq(s, k, Len(s)) \in Seq(S)
         /\ Len(SubSeq(s, k, Len(s))) = Len(s) + 1 - k
         /\ \A i \in 1 .. Len(s) + 1 - k : SubSeq(s, k, Len(s))[i] = s[k + i - 1]
         /\ SubSeq(s, 1, k - 1) \in Seq(S)
         /\ SubSeq(s, 1, k - 1) \o SubSeq(s, k, Len(s)) = s
  <1>1. Len(s) \in Nat /\ k \in Int /\ \A i \in 1 .. Len(s) : s[i] \in S
    BY LenProperties, ElementOfSeq
  <1>2. /\ SubSeq(s, k, Len(s)) \in Seq(S)
        /\ Len(SubSeq(s, k, Len(s))) = IF k <= Len(s) THEN Len(s) - k + 1 ELSE 0
        /\ \A i \in 1 .. Len(s) - k + 1 : SubSeq(s, k, Len(s))[i] = s[k + i - 1]
    BY <1>1, SubSeqProperties
  <1>3. SubSeq(s, 1, k - 1) \in Seq(S)
    BY <1>1, SubSeqProperties
  <1>4. SubSeq(s, 1, k - 1) \o SubSeq(s, k, Len(s)) = s
    <2>1. PICK h \in Int : h = k - 1
      BY <1>1
    <2>2. /\ 1 \in 1 .. Len(s) + 1 /\ h \in 1 - 1 .. Len(s) /\ Len(s) \in h .. Len(s)
          /\ h + 1 = k
      BY <1>1, <2>1
    <2>3. SubSeq(s, 1, h) \o SubSeq(s, h + 1, Len(s)) = SubSeq(s, 1, Len(s))
      BY <2>2, ConcatAdjacentSubSeq
    <2>4. QED
      BY <2>1, <2>2, <2>3, SubSeqFull
  <1>5. Len(s) - k + 1 = Len(s) + 1 - k /\ (k > Len(s) => Len(s) + 1 - k = 0)
    BY <1>1
  <1>6. Len(SubSeq(s, k, Len(s))) = Len(s) + 1 - k
    BY <1>1, <1>2, <1>5
  <1>7. QED
    BY <1>2, <1>3, <1>4, <1>5, <1>6

\* A suffix of a suffix.
LEMMA SuffixOfSuffix ==
  ASSUME NEW S, NEW s \in Seq(S), NEW k \in 1 .. Len(s) + 1,
         NEW t, t = SubSeq(s, k, Len(s)), NEW j \in 1 .. Len(t) + 1
  PROVE  SubSeq(t, j, Len(t)) = SubSeq(s, k + j - 1, Len(s))
  <1> DEFINE a == SubSeq(t, j, Len(t))
             b == SubSeq(s, k + j - 1, Len(s))
  <1>1. /\ t \in Seq(S) /\ Len(t) = Len(s) + 1 - k /\ Len(s) \in Nat
        /\ \A i \in 1 .. Len(t) : t[i] = s[k + i - 1]
    BY SuffixOf, LenProperties
  <1>2. k + j - 1 \in 1 .. Len(s) + 1
    BY <1>1
  <1>3. /\ a \in Seq(S) /\ Len(a) = Len(t) + 1 - j
        /\ \A i \in 1 .. Len(t) + 1 - j : a[i] = t[j + i - 1]
    BY <1>1, SuffixOf
  <1>4. /\ b \in Seq(S) /\ Len(b) = Len(s) + 1 - (k + j - 1)
        /\ \A i \in 1 .. Len(s) + 1 - (k + j - 1) : b[i] = s[(k + j - 1) + i - 1]
    BY <1>2, SuffixOf
  <1> HIDE DEF a, b
  <1>5. Len(a) = Len(b)
    BY <1>1, <1>3, <1>4
  <1>6. ASSUME NEW i \in 1 .. Len(a)
        PROVE  a[i] = b[i]
    <2>1. j + i - 1 \in 1 .. Len(t) /\ k + (j + i - 1) - 1 = (k + j - 1) + i - 1
      BY <1>1, <1>3
    <2>2. a[i] = s[k + (j + i - 1) - 1]
      BY <1>1, <1>3, <2>1
    <2>3. b[i] = s[(k + j - 1) + i - 1]
      BY <1>4, <1>5
    <2>4. QED
      BY <2>1, <2>2, <2>3
  <1>7. QED
    BY <1>3, <1>4, <1>5, <1>6, SeqEqual DEF a, b

-----------------------------------------------------------------------------
(* Lists without repetition                                                *)

\* A sequence is one over any set that holds its elements.
LEMMA SeqOverRange ==
  ASSUME NEW S, NEW T, NEW xs \in Seq(S), Range(xs) \subseteq T
  PROVE  xs \in Seq(T)
  BY SeqOfRange, SeqMonotonic

\* A sequence has finitely many elements.
LEMMA RangeIsFinite ==
  ASSUME NEW S, NEW xs \in Seq(S)
  PROVE  IsFiniteSet(Range(xs))
  <1>1. IsFiniteSet(1 .. Len(xs))
    BY FS_Interval, LenProperties
  <1>2. xs \in Surjection(1 .. Len(xs), Range(xs))
    BY Fun_RangeProperties, LenProperties
  <1>3. QED
    BY <1>1, <1>2, FS_Surjection

\* A list without repetition that lacks an element of a set is shorter than
\* the set.
LEMMA RoomForMore ==
  ASSUME NEW T, IsFiniteSet(T), NEW v \in Seq(T), IsInjective(v),
         NEW x \in T, x \notin Range(v)
  PROVE  Len(v) < Cardinality(T)
  <1>1. DOMAIN v = 1 .. Len(v) /\ Len(v) \in Nat
    BY LenProperties
  <1> DEFINE rest == T \ {x}
  <1>2. IsFiniteSet(rest) /\ Cardinality(rest) = Cardinality(T) - 1
    BY FS_RemoveElement
  <1>3. v \in Injection(1 .. Len(v), rest)
    <2>1. \A k \in 1 .. Len(v) : v[k] \in rest
      BY <1>1, ElementOfSeq DEF Range
    <2>2. v \in [1 .. Len(v) -> rest]
      BY <1>1, <2>1, LenProperties
    <2>3. QED
      BY <2>2 DEF Injection
  <1>4. Cardinality(1 .. Len(v)) <= Cardinality(rest)
    BY <1>2, <1>3, FS_Injection
  <1>5. Cardinality(1 .. Len(v)) = Len(v)
    <2>1. 1 \in Int /\ Len(v) \in Int
      BY <1>1
    <2>2. Cardinality(1 .. Len(v)) = IF 1 > Len(v) THEN 0 ELSE Len(v) - 1 + 1
      BY <2>1, FS_Interval
    <2>3. QED
      BY <1>1, <2>2
  <1>6. Cardinality(T) \in Nat
    BY FS_CardinalityType
  <1>7. QED
    BY <1>1, <1>2, <1>4, <1>5, <1>6

\* What is kept: each element once, nothing else, and all of them if there
\* is room for as many as differ.
LEMMA PushAllNewProperties ==
  ASSUME NEW S, NEW xs \in Seq(S), NEW cap \in Nat,
         NEW kept, kept = PushAllNew(xs, cap)
  PROVE  /\ kept \in Seq(S)
         /\ IsInjective(kept)
         /\ Range(kept) \subseteq Range(xs)
         /\ ExtendFits(Cardinality(Range(xs)), cap) => Range(kept) = Range(xs)
         /\ (Alloc \/ cap > 0) /\ xs # <<>> => kept # <<>>
  <1>1. DOMAIN xs = 1 .. Len(xs) /\ Len(xs) \in Nat
    BY LenProperties
  <1>2. PICK g :
          /\ kept = g[Len(xs)]
          /\ g[0] = <<>>
          /\ \A k \in 1 .. Len(xs) : g[k] = PushNew(g[k - 1], xs[k], cap)
    BY <1>1, PushAllNewSteps
  <1> DEFINE Kept(n) ==
        /\ g[n] \in Seq(S)
        /\ IsInjective(g[n])
        /\ Range(g[n]) \subseteq {xs[i] : i \in 1 .. n}
        /\ ExtendFits(Cardinality(Range(xs)), cap) =>
             Range(g[n]) = {xs[i] : i \in 1 .. n}
        /\ (Alloc \/ cap > 0) /\ n # 0 => g[n] # <<>>
      bad == {n \in 0 .. Len(xs) : ~ Kept(n)}
  <1>3. bad = {}
    <2> SUFFICES ASSUME bad # {} PROVE FALSE
      OBVIOUS
    <2>1. PICK n \in bad : \A y \in Nat : y < n => y \notin bad
      <3>1. bad \subseteq 0 .. Len(xs)
        BY Zenon
      <3> HIDE DEF bad
      <3>2. bad \subseteq Nat
        BY <1>1, <3>1
      <3>3. QED
        BY <3>2, LeastOf
    <2>2. n \in 0 .. Len(xs) /\ ~ Kept(n)
      BY Zenon
    <2>3. n # 0
      <3>1. DOMAIN g[0] = {} /\ g[0] \in Seq(S)
        BY <1>2, EmptySeq, LenProperties
      <3>2. Range(g[0]) = {} /\ IsInjective(g[0])
        BY <3>1 DEF Range, IsInjective
      <3>3. 1 .. 0 = {}
        OBVIOUS
      <3>4. {xs[i] : i \in 1 .. 0} = {}
        BY <3>3
      <3>5. Kept(0)
        BY <3>1, <3>2, <3>4
      <3>6. QED
        BY <2>2, <3>5
    <2>4. /\ n - 1 \in 0 .. Len(xs) /\ n - 1 \in Nat /\ n - 1 < n /\ n \in 1 .. Len(xs)
          /\ 1 .. n = (1 .. n - 1) \cup {n}
      BY <1>1, <2>2, <2>3
    <2>5. Kept(n - 1)
      <3>1. n - 1 \notin bad
        BY <2>1, <2>4
      <3>2. QED
        BY Zenon, <2>4, <3>1
    <2>6. xs[n] \in S /\ xs[n] \in Range(xs)
      BY <1>1, <2>4, ElementOfSeq DEF Range
    <2>7. {xs[i] : i \in 1 .. n} = {xs[i] : i \in 1 .. n - 1} \cup {xs[n]}
      BY <2>4
    <2>8. g[n] = PushNew(g[n - 1], xs[n], cap)
      BY <1>2, <2>4
    <2>9. /\ g[n] \in Seq(S)
          /\ Len(g[n - 1]) <= Len(g[n])
          /\ Range(g[n]) \in {Range(g[n - 1]), Range(g[n - 1]) \cup {xs[n]}}
          /\ HasRoom(g[n - 1], cap) => Range(g[n]) = Range(g[n - 1]) \cup {xs[n]}
          /\ IsInjective(g[n])
      <3> HIDE DEF bad
      <3>1. g[n - 1] \in Seq(S) /\ IsInjective(g[n - 1])
        BY <2>5
      <3> HIDE DEF Kept
      <3>2. QED
        BY <2>6, <2>8, <3>1, PushNewProperties
    <2>10. ASSUME ExtendFits(Cardinality(Range(xs)), cap)
           PROVE  Range(g[n]) = {xs[i] : i \in 1 .. n}
      <3>1. Range(g[n - 1]) = {xs[i] : i \in 1 .. n - 1}
        BY <2>5, <2>10
      <3>2. CASE xs[n] \in Range(g[n - 1])
        BY <2>7, <2>9, <3>1, <3>2
      <3>3. CASE xs[n] \notin Range(g[n - 1])
        <4>1. {xs[i] : i \in 1 .. n - 1} \subseteq Range(xs)
          BY <1>1, <2>4 DEF Range
        <4>2. Len(g[n - 1]) < Cardinality(Range(xs))
          <5>1. g[n - 1] \in Seq(S) /\ IsInjective(g[n - 1])
            BY <2>5
          <5> HIDE DEF Kept, bad
          <5>2. g[n - 1] \in Seq(Range(xs))
            BY <3>1, <4>1, <5>1, SeqOverRange
          <5>3. QED
            BY <2>6, <3>3, <5>1, <5>2, RangeIsFinite, RoomForMore
        <4>3. HasRoom(g[n - 1], cap)
          <5>1. Len(g[n - 1]) \in Nat
            BY <2>5, LenProperties
          <5>2. CASE Alloc
            BY <5>2 DEF HasRoom
          <5>3. CASE ~ Alloc
            <6>1. Cardinality(Range(xs)) <= cap
              BY <2>10, <5>3 DEF ExtendFits
            <6>2. Cardinality(Range(xs)) \in Nat
              BY <1>1, RangeIsFinite, FS_CardinalityType
            <6>3. QED
              BY <4>2, <5>1, <6>1, <6>2 DEF HasRoom
          <5>4. QED
            BY <5>2, <5>3
        <4>4. QED
          BY <2>7, <2>9, <3>1, <4>3
      <3>4. QED
        BY <3>2, <3>3
    <2>11. ASSUME Alloc \/ cap > 0
           PROVE  g[n] # <<>>
      <3>1. Len(g[n - 1]) \in Nat
        BY <2>5, LenProperties
      <3>2. CASE HasRoom(g[n - 1], cap)
        <4>1. xs[n] \in Range(g[n])
          BY <2>9, <3>2
        <4>2. DOMAIN <<>> = {}
          BY EmptySeq, LenProperties
        <4>3. QED
          BY <4>1, <4>2 DEF Range
      <3>3. CASE ~ HasRoom(g[n - 1], cap)
        <4>1. Len(g[n - 1]) > 0
          BY <2>11, <3>1, <3>3 DEF HasRoom
        <4>2. Len(g[n]) > 0
          BY <2>9, <3>1, <4>1, LenProperties
        <4>3. QED
          BY <4>2, EmptySeq
      <3>4. QED
        BY <3>2, <3>3
    <2>12. Range(g[n]) \subseteq {xs[i] : i \in 1 .. n}
      BY <2>5, <2>7, <2>9
    <2>13. Kept(n)
      BY <2>9, <2>10, <2>11, <2>12
    <2>14. QED
      BY Zenon, <2>2, <2>13
  <1>4. Kept(Len(xs))
    <2>1. Len(xs) \in 0 .. Len(xs)
      BY <1>1
    <2>2. \A n \in 0 .. Len(xs) : n \notin bad => Kept(n)
      BY Zenon
    <2> HIDE DEF bad, Kept
    <2>3. QED
      BY <1>3, <2>1, <2>2
  <1>5. Range(xs) = {xs[i] : i \in 1 .. Len(xs)}
    BY <1>1 DEF Range
  <1>6. xs # <<>> => Len(xs) # 0
    BY EmptySeq
  <1>7. QED
    BY <1>2, <1>4, <1>5, <1>6
=============================================================================
