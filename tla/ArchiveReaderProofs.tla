------------------------ MODULE ArchiveReaderProofs ------------------------
(***************************************************************************)
(* The theorem about ArchiveReader, for all builds and all requests: what  *)
(* is read is an entry of one build, whatever the launcher writes in the   *)
(* meantime; the destination of an extraction is replaced by a whole entry *)
(* or kept; and an archive that nobody patches is read, never refused.     *)
(*                                                                         *)
(* First come facts about numbers and sequences, by induction in a form    *)
(* that needs no operator parameter (a set takes the place of the          *)
(* predicate), and what the recursive layout of a build gives: where each  *)
(* cell is, by induction over its entries (LaidOut).  Then three           *)
(* invariants of the reader.                                               *)
(*                                                                         *)
(* ReaderInv holds under any patch: every cell is of one of the builds, so *)
(* a record the reader keeps is one that a build states (Known), and the   *)
(* reader stays within the file.  ReadsInv rests on it: the checks at the  *)
(* end compare what was put together from the cells with the record, so it *)
(* is delivered only if it is that build's entry.  SoundInv holds when     *)
(* nobody patches: it follows the reader through the whole file            *)
(* (OnTheWay), until the units read are those of the entry, which decode   *)
(* to its content (StoredDecodes, CompressedDecodes).                      *)
(***************************************************************************)
EXTENDS ArchiveReader, SequenceTheorems, FiniteSetTheorems, WellFoundedInduction, TLAPS

-----------------------------------------------------------------------------
(* Numbers and sequences.                                                  *)

\* A set of natural numbers with a member has a least one.
LEMMA SmallestNat ==
  ASSUME NEW T \in SUBSET Nat, T # {}
  PROVE  \E n \in T : \A m \in T : n <= m
<1>1. IsWellFoundedOn(OpToRel(<, Nat), Nat)
  BY NatLessThanWellFounded, Zenon
<1>2. PICK n \in T : \A m \in T : ~(<<m, n>> \in OpToRel(<, Nat))
  BY <1>1, WFMin, Zenon
<1>3. ASSUME NEW m \in T, ~(n <= m)
      PROVE  FALSE
  <2>1. m < n
    BY <1>3
  <2>2. <<m, n>> \in OpToRel(<, Nat)
    BY <2>1, Zenon DEF OpToRel
  <2> QED
    BY <2>2, <1>2, Zenon
<1> QED
  BY <1>3

\* A set with m that is closed under the next number holds all up to n.
LEMMA FromTo ==
  ASSUME NEW T, NEW m \in Nat, NEW n \in Nat, m \in T,
         \A i \in m..n : i < n /\ i \in T => i + 1 \in T
  PROVE  m..n \subseteq T
<1> SUFFICES ASSUME (m..n) \ T # {} PROVE FALSE
  OBVIOUS
<1>1. PICK i \in (m..n) \ T : \A k \in (m..n) \ T : i <= k
  <2>1. (m..n) \ T \in SUBSET Nat
    OBVIOUS
  <2> QED
    BY <2>1, SmallestNat, Zenon
<1>2. i # m /\ i - 1 \in m..n
  BY <1>1
<1>3. i - 1 \in T
  BY <1>1, <1>2
<1> QED
  BY <1>1, <1>2, <1>3

LEMMA UpTo ==
  ASSUME NEW T, NEW n \in Nat, 0 \in T,
         \A i \in 0..n : i < n /\ i \in T => i + 1 \in T
  PROVE  0..n \subseteq T
BY FromTo

LEMMA MinFact ==
  ASSUME NEW S \in SUBSET Nat, S # {}
  PROVE  Min(S) \in S /\ \A y \in S : Min(S) <= y
<1>1. \E x \in S : \A y \in S : x <= y
  BY SmallestNat
<1> QED
  BY <1>1 DEF Min

LEMMA MaxFact ==
  ASSUME NEW n \in Nat, NEW S \in SUBSET (0..n), S # {}
  PROVE  Max(S) \in S /\ \A y \in S : Max(S) >= y
<1> DEFINE T == {n - x : x \in S}
<1>1. T \in SUBSET Nat /\ T # {}
  <2>1. PICK x \in S : TRUE
    OBVIOUS
  <2>2. n - x \in T
    OBVIOUS
  <2>3. \A y \in S : n - y \in Nat
    OBVIOUS
  <2>4. T \in SUBSET Nat
    BY <2>3
  <2> HIDE DEF T
  <2> QED
    BY <2>2, <2>4
<1>2. PICK t \in T : \A u \in T : t <= u
  BY <1>1, SmallestNat
<1>3. PICK x \in S : t = n - x
  BY <1>2
<1>4. \A y \in S : x >= y
  <2> TAKE y \in S
  <2>1. n - y \in T
    OBVIOUS
  <2> QED
    BY <2>1, <1>2, <1>3
<1> QED
  BY <1>4 DEF Max

LEMMA NextNumber ==
  ASSUME NEW n \in Nat \ {0}, NEW i \in 1..n, i < n
  PROVE  i + 1 \in 1..n /\ i + 1 # 1 /\ (i + 1) - 1 = i
OBVIOUS

LEMMA OneIsFirst == \A n \in Nat \ {0} : 1 \in 1..n
OBVIOUS

LEMMA AllUpTo ==
  ASSUME NEW T, NEW n \in Nat \ {0}, 1 \in T,
         \A i \in 1..n : i < n /\ i \in T => i + 1 \in T
  PROVE  n \in T
BY FromTo

LEMMA FunctionIsSeq ==
  ASSUME NEW S, NEW n \in Nat, NEW f \in [1..n -> S]
  PROVE  f \in Seq(S) /\ Len(f) = n /\ DOMAIN f = 1..n
<1>1. f \in Seq(S)
  BY SeqDef
<1> QED
  BY <1>1, LenProperties

LEMMA SeqOfItsOwn ==
  ASSUME NEW S, NEW s \in Seq(S)
  PROVE  s \in Seq(Range(s))
<1>1. Len(s) \in Nat /\ DOMAIN s = 1..Len(s)
  BY LenProperties
<1>2. s \in [1..Len(s) -> Range(s)]
  <2>1. s = [i \in 1..Len(s) |-> s[i]]
    BY SeqDef
  <2> QED
    BY <1>1, <2>1, Zenon DEF Range
<1> QED
  BY <1>1, <1>2, FunctionIsSeq, Zenon

LEMMA ConcatAt ==
  ASSUME NEW S, NEW s \in Seq(S), NEW t \in Seq(S)
  PROVE  /\ s \o t \in Seq(S) /\ Len(s \o t) = Len(s) + Len(t)
         /\ Len(s) \in Nat /\ Len(t) \in Nat
         /\ \A i \in 1 .. Len(s) : (s \o t)[i] = s[i]
         /\ \A k \in 1 .. Len(t) : (s \o t)[Len(s) + k] = t[k]
<1>1. Len(s) \in Nat /\ Len(t) \in Nat
  BY LenProperties
<1>2. \A i \in 1 .. Len(s) + Len(t) :
        (s \o t)[i] = IF i <= Len(s) THEN s[i] ELSE t[i - Len(s)]
  BY ConcatProperties, Zenon
<1>3. \A i \in 1 .. Len(s) : i \in 1 .. Len(s) + Len(t) /\ i <= Len(s)
  BY <1>1
<1>4. \A k \in 1 .. Len(t) : Len(s) + k \in 1 .. Len(s) + Len(t) /\ ~(Len(s) + k <= Len(s))
                               /\ (Len(s) + k) - Len(s) = k
  BY <1>1
<1>5. \A i \in 1 .. Len(s) : (s \o t)[i] = s[i]
  BY <1>2, <1>3, Zenon
<1>6. \A k \in 1 .. Len(t) : (s \o t)[Len(s) + k] = t[k]
  BY <1>2, <1>4, Zenon
<1> QED
  BY <1>1, <1>5, <1>6, ConcatProperties

\* What FlattenSeq gives is found by naming what it has after each part.
LEMMA FlattenIs ==
  ASSUME NEW seqs, Len(seqs) \in Nat \ {0}, NEW t,
         t = [i \in 1..Len(seqs) |-> IF i = 1 THEN seqs[1] ELSE t[i - 1] \o seqs[i]]
  PROVE  FlattenSeq(seqs) = t[Len(seqs)]
<1> DEFINE n == Len(seqs)
           Continued(f) == [i \in 1..n |-> IF i = 1 THEN seqs[i] ELSE f[i - 1] \o seqs[i]]
           flat == CHOOSE f : f = Continued(f)
<1>1. FlattenSeq(seqs) = flat[n]
  BY DEF FlattenSeq
<1>2. t = Continued(t)
  BY Zenon
<1>3. flat = Continued(flat)
  BY <1>2, Zenon
<1> HIDE DEF flat
<1> DEFINE T == {i \in 1..n : flat[i] = t[i]}
<1>4. 1 \in T
  <2>1. 1 \in 1..n
    BY OneIsFirst, Zenon
  <2>2. t[1] = seqs[1] /\ flat[1] = seqs[1]
    BY <2>1, <1>2, <1>3, Zenon
  <2> QED
    BY <2>1, <2>2, Zenon
<1>5. ASSUME NEW i \in 1..n, i < n, i \in T
      PROVE  i + 1 \in T
  <2>1. i + 1 \in 1..n /\ i + 1 # 1 /\ (i + 1) - 1 = i
    BY <1>5, NextNumber, Zenon
  <2>2. flat[i + 1] = flat[i] \o seqs[i + 1]
    BY <2>1, <1>3, Zenon
  <2>3. t[i + 1] = t[i] \o seqs[i + 1]
    BY <2>1, <1>2, Zenon
  <2> QED
    BY <2>1, <2>2, <2>3, <1>5
<1> HIDE DEF T
<1>6. n \in T
  BY <1>4, <1>5, AllUpTo, Zenon
<1> QED
  BY <1>1, <1>6 DEF T

LEMMA OnePiece ==
  ASSUME NEW S, NEW s \in Seq(S), NEW i \in 1..Len(s)
  PROVE  SubSeq(s, i, i) = << s[i] >>
<1> DEFINE u == SubSeq(s, i, i)
<1>1. \A j \in i..i : s[j] \in S
  BY ElementOfSeq
<1>2. u \in Seq(S) /\ Len(u) = (IF i <= i THEN i - i + 1 ELSE 0)
      /\ \A j \in 1..(i - i + 1) : u[j] = s[i + j - 1]
  BY <1>1, SubSeqProperties
<1>3. i - i + 1 = 1 /\ i + 1 - 1 = i /\ i <= i /\ 1 \in 1..1
  BY LenProperties
<1>4. u \in Seq(S) /\ Len(u) = 1 /\ u[1] = s[i]
  BY <1>2, <1>3, Zenon
<1> HIDE DEF u
<1>5. u = << s[i] >>
  BY <1>4
<1> QED
  BY <1>5 DEF u

\* A sequence in pieces: its first elements one by one, and then the rest.
LEMMA Pieces ==
  ASSUME NEW S, NEW s \in Seq(S), NEW last \in Nat \ {0},
         last <= Len(s) \/ (last = 1 /\ Len(s) = 0),
         NEW seqs, Len(seqs) = last,
         \A i \in 1..last :
           seqs[i] = IF i < last THEN << s[i] >> ELSE SubSeq(s, i, Len(s))
  PROVE  FlattenSeq(seqs) = s
<1> DEFINE n == Len(s)
           upto(i) == IF i < last THEN i ELSE n
           t == [i \in 1..last |-> SubSeq(s, 1, upto(i))]
<1>1. n \in Nat
  BY LenProperties
<1>2. ASSUME NEW i \in 1..last
      PROVE  t[i] = IF i = 1 THEN seqs[1] ELSE t[i - 1] \o seqs[i]
  <2>1. t[i] = SubSeq(s, 1, upto(i))
    OBVIOUS
  <2>2. seqs[i] = SubSeq(s, i, upto(i))
    <3>1. CASE i < last
      <4>1. i \in 1..Len(s)
        BY <1>1, <3>1
      <4>3. SubSeq(s, i, i) = << s[i] >>
        BY <4>1, OnePiece
      <4> QED
        BY <3>1, <4>3
    <3>2. CASE ~ (i < last)
      BY <3>2
    <3> QED
      BY <3>1, <3>2
  <2>3. CASE i = 1
    BY <2>1, <2>2, <2>3, Zenon
  <2>4. CASE i # 1
    <3>1. i - 1 \in 1..last /\ upto(i - 1) = i - 1 /\ i - 1 \in 0..n /\ upto(i) \in (i - 1)..n
          /\ 1 \in 1..(n + 1) /\ (i - 1) + 1 = i
      BY <2>4, <1>1
    <3>2. t[i - 1] = SubSeq(s, 1, i - 1)
      BY <3>1, Zenon
    <3>3. SubSeq(s, 1, i - 1) \o SubSeq(s, (i - 1) + 1, upto(i)) = SubSeq(s, 1, upto(i))
      <4> DEFINE k == i - 1
                 w == upto(i)
      <4>1. 1 \in 1..(Len(s) + 1) /\ k \in (1 - 1)..Len(s) /\ w \in k..Len(s)
        BY <3>1
      <4> HIDE DEF k, w
      <4>2. SubSeq(s, 1, k) \o SubSeq(s, k + 1, w) = SubSeq(s, 1, w)
        BY <4>1, ConcatAdjacentSubSeq
      <4> QED
        BY <4>2 DEF k, w
    <3> QED
      BY <2>1, <2>2, <2>4, <3>1, <3>2, <3>3, Zenon
  <2> QED
    BY <2>3, <2>4
<1>3. t = [i \in 1..Len(seqs) |-> IF i = 1 THEN seqs[1] ELSE t[i - 1] \o seqs[i]]
  BY <1>2, Zenon
<1>4. FlattenSeq(seqs) = t[last]
  <2> HIDE DEF t
  <2> QED
    BY <1>3, FlattenIs
<1>5. t[last] = SubSeq(s, 1, n)
  <2>1. last \in 1..last /\ ~ (last < last)
    OBVIOUS
  <2> QED
    BY <2>1, Zenon
<1> QED
  BY <1>4, <1>5, SubSeqFull

-----------------------------------------------------------------------------
(* What a build's file holds, and where.                                   *)

UnitsOf == [k : {"data"}, out : Seq(Values), last : BOOLEAN, zero : BOOLEAN]

LEMMA UnitTyped ==
  ASSUME NEW out \in Seq(Values), NEW last \in BOOLEAN, NEW zero \in BOOLEAN
  PROVE  Unit(out, last, zero) \in UnitsOf
BY DEF Unit, UnitsOf

LEMMA EncodedTyped ==
  ASSUME NEW e \in Entries
  PROVE  Encoded(e) \in Seq(UnitsOf)
<1> DEFINE n == Len(e.content)
           last == IF n > 1 THEN n - 1 ELSE 1
<1>1. e.content \in Seq(Values) /\ n \in Nat /\ last \in Nat /\ e.endsInZero \in BOOLEAN
  BY DEF Entries
<1>2. \A i \in 1 .. n : Unit(<< e.content[i] >>, FALSE, FALSE) \in UnitsOf
  <2> TAKE i \in 1 .. n
  <2>1. << e.content[i] >> \in Seq(Values)
    BY <1>1
  <2> QED
    BY <2>1, UnitTyped
<1>3. \A i \in 1 .. last : Unit(SubSeq(e.content, i, n), TRUE, e.endsInZero) \in UnitsOf
  <2> TAKE i \in 1 .. last
  <2>1. SubSeq(e.content, i, n) \in Seq(Values)
    BY <1>1, SubSeqProperties
  <2> QED
    BY <1>1, <2>1, UnitTyped
<1>4. CASE e.method = "store"
  <2>1. Encoded(e) = [i \in 1 .. n |-> Unit(<< e.content[i] >>, FALSE, FALSE)]
    BY <1>4, Zenon DEF Encoded
  <2> HIDE DEF n
  <2>2. Encoded(e) \in [1 .. n -> UnitsOf]
    BY <2>1, <1>2, Zenon
  <2> QED
    BY <2>2, <1>1, FunctionIsSeq, Zenon
<1>5. CASE e.method # "store"
  <2>1. Encoded(e) = [i \in 1 .. last |->
              IF i < last THEN Unit(<< e.content[i] >>, FALSE, FALSE)
              ELSE Unit(SubSeq(e.content, i, n), TRUE, e.endsInZero)]
    BY <1>5, Zenon DEF Encoded
  <2>2. \A i \in 1 .. last : i < last => i \in 1 .. n
    BY <1>1
  <2> HIDE DEF n, last
  <2>3. Encoded(e) \in [1 .. last -> UnitsOf]
    BY <2>1, <2>2, <1>2, <1>3, Zenon
  <2> QED
    BY <2>3, <1>1, FunctionIsSeq, Zenon
<1> QED
  BY <1>4, <1>5

LEMMA UnitsTyped ==
  ASSUME NEW e \in Entries
  PROVE  Units(e) \in Seq(UnitsOf) /\ Len(Units(e)) \in Nat
<1>1. Encoded(e) \in Seq(UnitsOf)
  BY EncodedTyped
<1>2. Padding \in UnitsOf
  BY EmptySeq, UnitTyped DEF Padding
<1> QED
  BY <1>1, <1>2 DEF Units

LocalCells(build)  == {Local(e, build.wide) : e \in Range(build.entries)}
RecordCells(build) == {Central(x[1], x[2], build.wide) : x \in Range(build.entries) \X (Nat \ {0})}
BodyCells(build)   == LocalCells(build) \union UnitsOf

NoBody == [cells |-> << >>, records |-> << >>]

\* One entry more.
Extend(build, before, n) ==
  LET e == build.entries[n]
  IN  [cells |-> before.cells \o (<< Local(e, build.wide) >> \o Units(e)),
       records |-> Append(before.records, Central(e, Len(before.cells) + 1, build.wide))]

Continued(build, f, n) == [i \in 0..n |-> IF i = 0 THEN NoBody ELSE Extend(build, f[i - 1], i)]

LEMMA Predecessor ==
  /\ \A n \in Nat : 0 \in 0..n /\ n \in 0..n /\ n + 1 \in Nat
  /\ \A n \in Nat : \A i \in 0..(n + 1) : i # 0 /\ i # n + 1 => i \in 0..n /\ i - 1 \in 0..n
  /\ \A n \in Nat : n + 1 # 0 /\ (n + 1) - 1 = n
  /\ \A n \in Nat : \A i \in 0..n : i \in 0..(n + 1) /\ i # n + 1 /\ i \in Nat
OBVIOUS

LEMMA ContinuedExists ==
  ASSUME NEW build, NEW n \in Nat
  PROVE  \E f : f = Continued(build, f, n)
<1> DEFINE T == {i \in Nat : \E f : f = Continued(build, f, i)}
<1>1. 0 \in T
  <2> DEFINE f == [i \in 0..0 |-> NoBody]
  <2>1. \A i \in 0..0 : i = 0
    OBVIOUS
  <2>2. f = Continued(build, f, 0)
    BY <2>1, Zenon DEF Continued
  <2> QED
    BY <2>2, Zenon
<1>2. ASSUME NEW i \in 0..n, i < n, i \in T
      PROVE  i + 1 \in T
  <2>0. i \in Nat /\ i + 1 \in Nat
    OBVIOUS
  <2>1. PICK f : f = Continued(build, f, i)
    BY <1>2, Zenon
  <2> DEFINE g == [j \in 0..(i + 1) |-> IF j = i + 1 THEN Extend(build, f[i], i + 1) ELSE f[j]]
  <2>2. \A j \in 0..(i + 1) :
          g[j] = IF j = 0 THEN NoBody ELSE Extend(build, g[j - 1], j)
    <3> TAKE j \in 0..(i + 1)
    <3>1. CASE j = 0
      <4>1. j # i + 1 /\ j \in 0..i
        BY <2>0, <3>1
      <4> QED
        BY <4>1, <3>1, <2>1, Zenon DEF Continued
    <3>2. CASE j = i + 1
      <4>1. j # 0 /\ j - 1 = i /\ i \in 0..(i + 1) /\ i # i + 1
        BY <2>0, <3>2
      <4>2. g[i] = f[i]
        BY <4>1, Zenon
      <4> QED
        BY <4>1, <4>2, <3>2, Zenon
    <3>3. CASE j # 0 /\ j # i + 1
      <4>1. j \in 0..i /\ j - 1 \in 0..(i + 1) /\ j - 1 # i + 1
        BY <2>0, <3>3
      <4>2. g[j] = f[j] /\ g[j - 1] = f[j - 1]
        BY <4>1, <3>3, Zenon
      <4>3. f[j] = Extend(build, f[j - 1], j)
        BY <4>1, <3>3, <2>1, Zenon DEF Continued
      <4> QED
        BY <4>2, <4>3, <3>3, Zenon
    <3> QED
      BY <3>1, <3>2, <3>3, Zenon
  <2>3. g = Continued(build, g, i + 1)
    BY <2>2, Zenon DEF Continued
  <2> QED
    BY <2>0, <2>3, Zenon
<1>3. n \in T
  <2> HIDE DEF T
  <2> QED
    BY <1>1, <1>2, UpTo
<1> QED
  BY <1>3, Zenon

LEMMA BodyIsContinued ==
  ASSUME NEW build, Len(build.entries) \in Nat
  PROVE  \E f : f = Continued(build, f, Len(build.entries)) /\ Body(build) = f[Len(build.entries)]
<1> DEFINE n == Len(build.entries)
           after == CHOOSE f : f = [i \in 0 .. Len(build.entries) |->
        IF i = 0 THEN [cells |-> << >>, records |-> << >>]
        ELSE LET e == build.entries[i]
                 before == f[i - 1]
             IN  [cells |-> before.cells \o (<< Local(e, build.wide) >> \o Units(e)),
                  records |-> Append(before.records,
                                     Central(e, Len(before.cells) + 1, build.wide))]]
<1>1. Body(build) = after[n]
  BY Zenon DEF Body
<1>2. after = CHOOSE f : f = Continued(build, f, n)
  BY Zenon DEF Continued, Extend, NoBody
<1>3. \E f : f = Continued(build, f, n)
  BY ContinuedExists, Zenon
<1> HIDE DEF after
<1>4. after = Continued(build, after, n)
  BY <1>2, <1>3, Zenon
<1> QED
  BY <1>1, <1>4, Zenon

LEMMA EntriesOfBuild ==
  ASSUME NEW build \in Builds
  PROVE  /\ build.wide \in BOOLEAN
         /\ build.entries \in Seq(Entries)
         /\ Len(build.entries) \in Nat
         /\ \A n \in 1 .. Len(build.entries) :
              build.entries[n] \in Entries /\ build.entries[n] \in Range(build.entries)
         /\ Range(build.entries) \subseteq Entries
         /\ \A e \in Range(build.entries) : \E n \in 1 .. Len(build.entries) : e = build.entries[n]
<1>1. build.wide \in BOOLEAN /\ build.entries \in Seq(Entries)
  BY DEF Builds
<1>2. DOMAIN build.entries = 1 .. Len(build.entries) /\ Len(build.entries) \in Nat
  BY <1>1, LenProperties
<1>3. \A n \in 1 .. Len(build.entries) : build.entries[n] \in Entries
  BY <1>1, ElementOfSeq, Zenon
<1> QED
  BY <1>1, <1>2, <1>3, Zenon DEF Range

\* What the cells of one entry are.
LEMMA OneMore ==
  ASSUME NEW build \in Builds, NEW e \in Range(build.entries), NEW cells \in Seq(BodyCells(build))
  PROVE  LET more == cells \o (<< Local(e, build.wide) >> \o Units(e))
             at == Len(cells) + 1
         IN  /\ more \in Seq(BodyCells(build))
             /\ at \in Nat \ {0}
             /\ at + Len(Units(e)) = Len(more)
             /\ \A i \in 1 .. Len(cells) : more[i] = cells[i]
             /\ more[at] = Local(e, build.wide)
             /\ \A k \in 1 .. Len(Units(e)) : more[at + k] = Units(e)[k]
<1> DEFINE S == BodyCells(build)
           first == << Local(e, build.wide) >>
           own == first \o Units(e)
           more == cells \o own
<1>1. first \in Seq(S) /\ Len(first) = 1 /\ first[1] = Local(e, build.wide)
  <2>1. Local(e, build.wide) \in S
    BY DEF BodyCells, LocalCells
  <2> QED
    BY <2>1
<1>2. Units(e) \in Seq(S) /\ Len(Units(e)) \in Nat
  <2>1. e \in Entries
    BY EntriesOfBuild, Zenon
  <2>2. UnitsOf \subseteq S
    BY DEF BodyCells
  <2> QED
    BY <2>1, <2>2, UnitsTyped, SeqMonotonic
<1> HIDE DEF first, S
<1>3. /\ own \in Seq(S) /\ Len(own) = 1 + Len(Units(e))
      /\ own[1] = Local(e, build.wide)
      /\ \A k \in 1 .. Len(Units(e)) : own[1 + k] = Units(e)[k]
  <2>1. /\ own \in Seq(S) /\ Len(own) = Len(first) + Len(Units(e))
        /\ \A i \in 1 .. Len(first) : own[i] = first[i]
        /\ \A k \in 1 .. Len(Units(e)) : own[Len(first) + k] = Units(e)[k]
    BY <1>1, <1>2, ConcatAt
  <2> HIDE DEF own
  <2> QED
    BY <1>1, <1>2, <2>1
<1> HIDE DEF own
<1>4. cells \in Seq(S) /\ Len(cells) \in Nat
  BY LenProperties DEF S
<1>5. /\ more \in Seq(S) /\ Len(more) = Len(cells) + Len(own)
      /\ \A i \in 1 .. Len(cells) : more[i] = cells[i]
      /\ \A k \in 1 .. Len(own) : more[Len(cells) + k] = own[k]
  <2>1. own \in Seq(S) /\ cells \in Seq(S)
    BY <1>3, <1>4, Zenon
  <2> QED
    BY <2>1, ConcatAt
<1> HIDE DEF more
<1>6. \A k \in 1 .. Len(Units(e)) : more[Len(cells) + 1 + k] = Units(e)[k]
  <2> TAKE k \in 1 .. Len(Units(e))
  <2>1. 1 + k \in 1 .. Len(own) /\ Len(cells) + 1 + k = Len(cells) + (1 + k)
    BY <1>2, <1>3, <1>4
  <2> QED
    BY <2>1, <1>3, <1>5, Zenon
<1>7. more[Len(cells) + 1] = Local(e, build.wide)
  BY <1>2, <1>3, <1>5
<1> QED
  BY <1>2, <1>3, <1>4, <1>5, <1>6, <1>7 DEF more, own, first, S

\* Where the header of an entry is.
At(f, m) == Len(f[m - 1].cells) + 1

\* The cells and the records of the first n entries.
Laid(build, f, n) ==
  /\ f[n].cells \in Seq(BodyCells(build))
  /\ f[n].records \in Seq(RecordCells(build)) /\ Len(f[n].records) = n
  /\ \A m \in 1 .. n :
       LET e == build.entries[m]
       IN  /\ At(f, m) \in Nat \ {0}
           /\ At(f, m) + Len(Units(e)) <= Len(f[n].cells)
           /\ f[n].cells[At(f, m)] = Local(e, build.wide)
           /\ \A k \in 1 .. Len(Units(e)) : f[n].cells[At(f, m) + k] = Units(e)[k]
           /\ f[n].records[m] = Central(e, At(f, m), build.wide)

LEMMA AllLaid ==
  ASSUME NEW build \in Builds, NEW f, f = Continued(build, f, Len(build.entries))
  PROVE  Laid(build, f, Len(build.entries))
<1> DEFINE N == Len(build.entries)
           T == {n \in 0 .. N : Laid(build, f, n)}
<1>0. N \in Nat
  BY EntriesOfBuild
<1>1. 0 \in T
  <2>1. f[0] = NoBody
    BY <1>0, Predecessor, Zenon DEF Continued
  <2>2. f[0].cells = << >> /\ f[0].records = << >>
    BY <2>1 DEF NoBody
  <2>3. Laid(build, f, 0)
    BY <2>2, EmptySeq DEF Laid
  <2> QED
    BY <1>0, <2>3
<1>2. ASSUME NEW n \in 0 .. N, n < N, n \in T
      PROVE  n + 1 \in T
  <2> DEFINE e == build.entries[n + 1]
  <2>1. n + 1 \in 0 .. N /\ n + 1 # 0 /\ (n + 1) - 1 = n /\ n + 1 \in 1 .. N /\ n \in Nat
    BY <1>0, <1>2
  <2>2. f[n + 1] = Extend(build, f[n], n + 1)
    BY <2>1, Zenon DEF Continued
  <2>3. e \in Range(build.entries) /\ e \in Entries
    BY <2>1, EntriesOfBuild
  <2>4. Laid(build, f, n)
    BY <1>2
  <2>5. /\ f[n + 1].cells = f[n].cells \o (<< Local(e, build.wide) >> \o Units(e))
        /\ f[n + 1].records = Append(f[n].records, Central(e, At(f, n + 1), build.wide))
    <3>1. At(f, n + 1) = Len(f[n].cells) + 1
      BY <2>1, Zenon DEF At
    <3> DEFINE c == f[n].cells \o (<< Local(e, build.wide) >> \o Units(e))
               r == Append(f[n].records, Central(e, Len(f[n].cells) + 1, build.wide))
    <3>2. f[n + 1] = [cells |-> c, records |-> r]
      BY <2>2, Zenon DEF Extend
    <3>3. f[n + 1].cells = c /\ f[n + 1].records = r
      <4> HIDE DEF c, r
      <4> QED
        BY <3>2
    <3> QED
      BY <3>1, <3>3, Zenon
  <2> DEFINE more == f[n + 1].cells
             at == At(f, n + 1)
  <2>6. at = Len(f[n].cells) + 1
    BY <2>1, Zenon DEF At
  <2>7. f[n].cells \in Seq(BodyCells(build)) /\ Len(f[n].cells) \in Nat
    BY <2>4, LenProperties DEF Laid
  <2>8. /\ more \in Seq(BodyCells(build))
        /\ at \in Nat \ {0}
        /\ at + Len(Units(e)) = Len(more)
        /\ \A i \in 1 .. Len(f[n].cells) : more[i] = f[n].cells[i]
        /\ more[at] = Local(e, build.wide)
        /\ \A k \in 1 .. Len(Units(e)) : more[at + k] = Units(e)[k]
    <3>1. LET new == f[n].cells \o (<< Local(e, build.wide) >> \o Units(e))
              p == Len(f[n].cells) + 1
          IN  /\ new \in Seq(BodyCells(build))
              /\ p \in Nat \ {0}
              /\ p + Len(Units(e)) = Len(new)
              /\ \A i \in 1 .. Len(f[n].cells) : new[i] = f[n].cells[i]
              /\ new[p] = Local(e, build.wide)
              /\ \A k \in 1 .. Len(Units(e)) : new[p + k] = Units(e)[k]
      <4> HIDE DEF e
      <4> QED
        BY <2>3, <2>7, OneMore, Zenon
    <3> QED
      BY <2>5, <2>6, <3>1, Zenon
  <2>9. /\ f[n + 1].records \in Seq(RecordCells(build)) /\ Len(f[n + 1].records) = n + 1
        /\ \A m \in 1 .. n : f[n + 1].records[m] = f[n].records[m]
        /\ f[n + 1].records[n + 1] = Central(e, at, build.wide)
    <3>1. Central(e, at, build.wide) \in RecordCells(build)
      <4>1. << e, at >> \in Range(build.entries) \X (Nat \ {0})
        BY <2>3, <2>8
      <4>2. Central(e, at, build.wide) = Central(<< e, at >>[1], << e, at >>[2], build.wide)
        OBVIOUS
      <4> QED
        BY <4>1, <4>2, Zenon DEF RecordCells
    <3>2. f[n].records \in Seq(RecordCells(build)) /\ Len(f[n].records) = n
      BY <2>4 DEF Laid
    <3> QED
      BY <2>5, <3>1, <3>2, AppendProperties
  <2>10. Len(Units(e)) \in Nat /\ \A m \in 1 .. n : Len(Units(build.entries[m])) \in Nat
    <3>1. \A m \in 1 .. n : build.entries[m] \in Entries
      BY <2>1, EntriesOfBuild
    <3> QED
      BY <3>1, <2>3, UnitsTyped
  <2> HIDE DEF more, at, e
  <2>11. Laid(build, f, n + 1)
    <3> SUFFICES ASSUME NEW m \in 1 .. (n + 1)
                 PROVE  LET d == build.entries[m]
                        IN  /\ At(f, m) \in Nat \ {0}
                            /\ At(f, m) + Len(Units(d)) <= Len(more)
                            /\ more[At(f, m)] = Local(d, build.wide)
                            /\ \A k \in 1 .. Len(Units(d)) : more[At(f, m) + k] = Units(d)[k]
                            /\ f[n + 1].records[m] = Central(d, At(f, m), build.wide)
      BY <2>8, <2>9 DEF Laid, more
    <3>1. CASE m = n + 1
      BY <3>1, <2>8, <2>9, <2>10 DEF at, e
    <3>2. CASE m # n + 1
      <4> DEFINE d == build.entries[m]
      <4>1. m \in 1 .. n
        BY <3>2, <2>1
      <4>2. /\ At(f, m) \in Nat \ {0}
            /\ At(f, m) + Len(Units(d)) <= Len(f[n].cells)
            /\ f[n].cells[At(f, m)] = Local(d, build.wide)
            /\ \A k \in 1 .. Len(Units(d)) : f[n].cells[At(f, m) + k] = Units(d)[k]
            /\ f[n].records[m] = Central(d, At(f, m), build.wide)
        BY <4>1, <2>4, Zenon DEF Laid
      <4>3. Len(Units(d)) \in Nat /\ Len(f[n].cells) <= Len(more)
        BY <4>1, <2>6, <2>7, <2>8, <2>10
      <4> HIDE DEF d
      <4>4. At(f, m) \in 1 .. Len(f[n].cells)
            /\ \A k \in 1 .. Len(Units(d)) : At(f, m) + k \in 1 .. Len(f[n].cells)
        BY <4>2, <4>3, <2>7
      <4>5. more[At(f, m)] = Local(d, build.wide)
            /\ \A k \in 1 .. Len(Units(d)) : more[At(f, m) + k] = Units(d)[k]
        BY <4>2, <4>4, <2>8, Zenon
      <4>6. At(f, m) + Len(Units(d)) <= Len(more)
        BY <4>2, <4>3, <2>7, <2>8
      <4>7. f[n + 1].records[m] = Central(d, At(f, m), build.wide)
        BY <4>1, <4>2, <2>9, Zenon
      <4> QED
        BY <4>2, <4>5, <4>6, <4>7 DEF d
    <3> QED
      BY <3>1, <3>2
  <2> QED
    BY <2>1, <2>11
<1>3. N \in T
  <2> HIDE DEF T, N
  <2>1. 0 .. N \subseteq T
    BY <1>0, <1>1, <1>2, UpTo
  <2> QED
    BY <1>0, <2>1
<1> QED
  BY <1>3

\* The cells of a build: headers and data, the directory from a start on, and
\* the end records.
LaidOut(build, cells, at, start) ==
  LET n == Len(build.entries)
  IN  /\ at \in [1 .. n -> Nat \ {0}] /\ start \in Nat \ {0}
      /\ DOMAIN cells = 1 .. Len(cells) /\ cells \in Seq(Range(cells))
      /\ Len(cells) = IF build.wide THEN start + n + 2 ELSE start + n
      /\ \A i \in 1 .. (start - 1) : cells[i] \in BodyCells(build)
      /\ \A m \in 1 .. n :
           LET e == build.entries[m]
           IN  /\ at[m] + Len(Units(e)) < start
               /\ cells[at[m]] = Local(e, build.wide)
               /\ \A k \in 1 .. Len(Units(e)) : cells[at[m] + k] = Units(e)[k]
               /\ cells[start + m - 1] = Central(e, at[m], build.wide)
      /\ build.wide => /\ cells[start + n] = End("end64", n, start)
                       /\ cells[start + n + 1] = [k |-> "locator", at |-> start + n]
                       /\ cells[start + n + 2] = End("end", Sentinel, Sentinel)
      /\ ~build.wide => cells[start + n] = End("end", n, start)

LEMMA LayoutIsLaidOut ==
  ASSUME NEW build \in Builds
  PROVE  \E at, start : LaidOut(build, Layout(build), at, start)
<1> DEFINE N == Len(build.entries)
<1>1. PICK f : f = Continued(build, f, N) /\ Body(build) = f[N]
  BY EntriesOfBuild, BodyIsContinued
<1>2. Laid(build, f, N)
  BY <1>1, AllLaid, Zenon
<1> DEFINE cells == f[N].cells
           records == f[N].records
           start == Len(cells) + 1
           at == [m \in 1 .. N |-> At(f, m)]
           ends == Ends(build.wide, N, start)
           S == BodyCells(build) \union RecordCells(build)
                  \union {End("end64", N, start), [k |-> "locator", at |-> start + N],
                          End("end", Sentinel, Sentinel), End("end", N, start)}
           L == (cells \o records) \o ends
<1>3. N \in Nat /\ build.wide \in BOOLEAN /\ \A m \in 1 .. N : Len(Units(build.entries[m])) \in Nat
  BY EntriesOfBuild, UnitsTyped
<1>4. /\ cells \in Seq(BodyCells(build)) /\ records \in Seq(RecordCells(build))
      /\ Len(cells) \in Nat /\ Len(records) = N /\ start \in Nat \ {0}
      /\ \A i \in 1 .. Len(cells) : cells[i] \in BodyCells(build)
  <2>1. cells \in Seq(BodyCells(build)) /\ records \in Seq(RecordCells(build)) /\ Len(records) = N
    BY <1>2, Zenon DEF Laid
  <2> HIDE DEF cells, records
  <2> QED
    BY <2>1, ElementOfSeq, LenProperties
<1>5. \A m \in 1 .. N :
        LET e == build.entries[m]
        IN  /\ at[m] \in Nat \ {0}
            /\ at[m] + Len(Units(e)) <= Len(cells)
            /\ cells[at[m]] = Local(e, build.wide)
            /\ \A k \in 1 .. Len(Units(e)) : cells[at[m] + k] = Units(e)[k]
            /\ records[m] = Central(e, at[m], build.wide)
  <2> TAKE m \in 1 .. N
  <2>1. at[m] = At(f, m)
    OBVIOUS
  <2> HIDE DEF at
  <2> QED
    BY <1>2, <2>1, Zenon DEF Laid
<1>6. Layout(build) = L
  BY <1>1, <1>4, Zenon DEF Layout
<1>7. cells \in Seq(S) /\ records \in Seq(S)
  <2>1. BodyCells(build) \subseteq S /\ RecordCells(build) \subseteq S
    OBVIOUS
  <2> HIDE DEF cells, records, S
  <2> QED
    BY <1>4, <2>1, SeqMonotonic
<1>8. /\ ends \in Seq(S) /\ Len(ends) = IF build.wide THEN 3 ELSE 1
      /\ build.wide => /\ ends[1] = End("end64", N, start)
                       /\ ends[2] = [k |-> "locator", at |-> start + N]
                       /\ ends[3] = End("end", Sentinel, Sentinel)
      /\ ~build.wide => ends[1] = End("end", N, start)
  <2> DEFINE a == End("end64", N, start)
             b == [k |-> "locator", at |-> start + N]
             c == End("end", Sentinel, Sentinel)
             d == End("end", N, start)
  <2>1. a \in S /\ b \in S /\ c \in S /\ d \in S
    OBVIOUS
  <2>2. ends = IF build.wide THEN << a, b, c >> ELSE << d >>
    BY Zenon DEF Ends
  <2> HIDE DEF a, b, c, d, S, ends, start, N
  <2>3. ends \in Seq(S) /\ Len(ends) = (IF build.wide THEN 3 ELSE 1)
        /\ (build.wide => ends[1] = a /\ ends[2] = b /\ ends[3] = c)
        /\ (~build.wide => ends[1] = d)
    BY <2>1, <2>2, <1>3
  <2> QED
    BY <2>3 DEF a, b, c, d
<1> HIDE DEF S, ends, cells, records, at
<1> DEFINE body == cells \o records
<1>9. /\ body \in Seq(S) /\ Len(body) = Len(cells) + N
      /\ \A i \in 1 .. Len(cells) : body[i] = cells[i]
      /\ \A k \in 1 .. N : body[Len(cells) + k] = records[k]
  <2>1. cells \in Seq(S) /\ records \in Seq(S)
    BY <1>7, Zenon
  <2>2. /\ body \in Seq(S) /\ Len(body) = Len(cells) + Len(records)
        /\ \A i \in 1 .. Len(cells) : body[i] = cells[i]
        /\ \A k \in 1 .. Len(records) : body[Len(cells) + k] = records[k]
    BY <2>1, ConcatAt
  <2> QED
    BY <2>2, <1>4, Zenon
<1> HIDE DEF body
<1>10. /\ L \in Seq(S) /\ Len(L) = Len(cells) + N + Len(ends)
       /\ \A i \in 1 .. Len(cells) + N : L[i] = body[i]
       /\ \A k \in 1 .. Len(ends) : L[Len(cells) + N + k] = ends[k]
  <2>1. L = body \o ends
    BY DEF body
  <2>2. /\ L \in Seq(S) /\ Len(L) = Len(body) + Len(ends)
        /\ \A i \in 1 .. Len(body) : L[i] = body[i]
        /\ \A k \in 1 .. Len(ends) : L[Len(body) + k] = ends[k]
    <3>1. body \in Seq(S) /\ ends \in Seq(S)
      BY <1>8, <1>9, Zenon
    <3>2. /\ body \o ends \in Seq(S) /\ Len(body \o ends) = Len(body) + Len(ends)
          /\ \A i \in 1 .. Len(body) : (body \o ends)[i] = body[i]
          /\ \A k \in 1 .. Len(ends) : (body \o ends)[Len(body) + k] = ends[k]
      BY <3>1, ConcatAt
    <3> QED
      BY <2>1, <3>2, Zenon
  <2> QED
    BY <2>2, <1>9, Zenon
<1> HIDE DEF L
<1>11. DOMAIN L = 1 .. Len(L) /\ L \in Seq(Range(L))
  BY <1>10, LenProperties, SeqOfItsOwn
<1>12. Len(L) = IF build.wide THEN start + N + 2 ELSE start + N
  <2>1. start = Len(cells) + 1 /\ Len(cells) \in Nat /\ N \in Nat
    BY <1>3, <1>4, Zenon
  <2>2. Len(L) = Len(cells) + N + Len(ends) /\ Len(ends) = IF build.wide THEN 3 ELSE 1
    BY <1>8, <1>10, Zenon
  <2> HIDE DEF start, N
  <2> QED
    BY <2>1, <2>2
<1>13. \A i \in 1 .. Len(cells) : L[i] = cells[i]
  <2>1. \A i \in 1 .. Len(cells) : i \in 1 .. Len(cells) + N
    BY <1>3, <1>4
  <2> QED
    BY <2>1, <1>9, <1>10, Zenon
<1>14. \A m \in 1 .. N : L[start + m - 1] = records[m]
  <2> TAKE m \in 1 .. N
  <2>1. start + m - 1 = Len(cells) + m /\ Len(cells) + m \in 1 .. Len(cells) + N
    BY <1>3, <1>4
  <2> QED
    BY <2>1, <1>9, <1>10, Zenon
<1>15. \A m \in 1 .. N :
         LET e == build.entries[m]
         IN  /\ at[m] + Len(Units(e)) < start
             /\ L[at[m]] = Local(e, build.wide)
             /\ \A k \in 1 .. Len(Units(e)) : L[at[m] + k] = Units(e)[k]
             /\ L[start + m - 1] = Central(e, at[m], build.wide)
  <2> TAKE m \in 1 .. N
  <2> DEFINE e == build.entries[m]
             size == Len(Units(e))
  <2>1. size \in Nat
    BY <1>3
  <2>2. /\ at[m] \in Nat \ {0}
        /\ at[m] + size <= Len(cells)
        /\ cells[at[m]] = Local(e, build.wide)
        /\ \A k \in 1 .. size : cells[at[m] + k] = Units(e)[k]
        /\ records[m] = Central(e, at[m], build.wide)
    BY <1>5, Zenon
  <2> HIDE DEF size, e
  <2>3. /\ at[m] + size < start
        /\ at[m] \in 1 .. Len(cells)
        /\ \A k \in 1 .. size : at[m] + k \in 1 .. Len(cells)
    BY <2>1, <2>2, <1>4
  <2>4. L[at[m]] = Local(e, build.wide) /\ \A k \in 1 .. size : L[at[m] + k] = Units(e)[k]
    BY <2>2, <2>3, <1>13, Zenon
  <2>5. L[start + m - 1] = Central(e, at[m], build.wide)
    BY <2>2, <1>14, Zenon
  <2> QED
    BY <2>3, <2>4, <2>5 DEF size, e
<1>16. \A i \in 1 .. (start - 1) : L[i] \in BodyCells(build)
  BY <1>4, <1>13
<1>17. /\ build.wide => /\ L[start + N] = End("end64", N, start)
                        /\ L[start + N + 1] = [k |-> "locator", at |-> start + N]
                        /\ L[start + N + 2] = End("end", Sentinel, Sentinel)
       /\ ~build.wide => L[start + N] = End("end", N, start)
  <2>1. /\ start + N = Len(cells) + N + 1 /\ start + N + 1 = Len(cells) + N + 2
        /\ start + N + 2 = Len(cells) + N + 3
        /\ 1 \in 1 .. Len(ends) /\ (build.wide => 2 \in 1 .. Len(ends) /\ 3 \in 1 .. Len(ends))
    <3>1. start = Len(cells) + 1 /\ Len(cells) \in Nat /\ N \in Nat
      BY <1>3, <1>4, Zenon
    <3>2. Len(ends) = IF build.wide THEN 3 ELSE 1
      BY <1>8, Zenon
    <3> HIDE DEF start, N
    <3> QED
      BY <3>1, <3>2
  <2>2. /\ L[Len(cells) + N + 1] = ends[1]
        /\ build.wide => L[Len(cells) + N + 2] = ends[2] /\ L[Len(cells) + N + 3] = ends[3]
    BY <2>1, <1>10, Zenon
  <2> HIDE DEF start
  <2> QED
    BY <2>1, <2>2, <1>8
<1>18. at \in [1 .. N -> Nat \ {0}]
  BY <1>5 DEF at
<1>19. LaidOut(build, L, at, start)
  <2> HIDE DEF start
  <2> QED
    BY <1>4, <1>11, <1>12, <1>15, <1>16, <1>17, <1>18, Zenon DEF LaidOut
<1> QED
  BY <1>6, <1>19, Zenon DEF L

-----------------------------------------------------------------------------
(* The records.                                                            *)

Names == [of : STRING, slashes : STRING, upper : BOOLEAN]

FieldsOf ==
  [k : {"central"}, name : Names, method : STRING, encrypted : BOOLEAN,
   crc : Seq(Values) \union {None}, csize : Nat, fsize : Nat, offset : Nat,
   extra : {<< >>} \union (Nat \X Nat \X Nat)]

LEMMA FieldsTyped ==
  ASSUME NEW e \in Entries, NEW at \in Nat
  PROVE  /\ Fields(e, at) \in FieldsOf
         /\ Fields(e, at).name = e.name /\ Fields(e, at).method = e.method
         /\ Fields(e, at).encrypted = e.encrypted
         /\ Fields(e, at).crc = (IF e.aligned THEN None ELSE e.content)
         /\ Fields(e, at).csize = Len(Units(e)) /\ Fields(e, at).fsize = Len(e.content)
         /\ Fields(e, at).offset = at
<1> DEFINE size == Len(Units(e))
<1>1. size \in Nat
  BY UnitsTyped
<1> HIDE DEF size
<1>2. Fields(e, at) = [k |-> "central", name |-> e.name, method |-> e.method,
                       encrypted |-> e.encrypted,
                       crc |-> IF e.aligned THEN None ELSE e.content,
                       csize |-> size, fsize |-> Len(e.content), offset |-> at, extra |-> << >>]
  BY DEF Fields, size
<1> QED
  BY <1>1, <1>2 DEF Entries, FieldsOf, Names, size

\* What the record of an entry says, however wide.
Stated(e, at, wide) == [Fields(e, at) EXCEPT !.extra = Central(e, at, wide).extra]

LEMMA HowMany ==
  /\ Cardinality({"fsize"}) = 1
  /\ Cardinality({"fsize", "csize"}) = 2
  /\ Cardinality({"fsize", "csize", "offset"}) = 3
<1>1. IsFiniteSet({"fsize"}) /\ Cardinality({"fsize"}) = 1
  BY FS_Singleton
<1>2. {"fsize"} \union {"csize"} = {"fsize", "csize"}
  OBVIOUS
<1>3. {"fsize", "csize"} \union {"offset"} = {"fsize", "csize", "offset"}
  OBVIOUS
<1>4. IsFiniteSet({"fsize", "csize"}) /\ Cardinality({"fsize", "csize"}) = 2
  BY <1>1, <1>2, FS_AddElement
<1>5. Cardinality({"fsize", "csize", "offset"}) = 3
  BY <1>4, <1>3, FS_AddElement
<1> QED
  BY <1>1, <1>4, <1>5

\* The extra data gives back what the sentinels stand for.
LEMMA WidenedIs ==
  ASSUME Sentinel \notin Nat, NEW e \in Entries, NEW at \in Nat, NEW wide \in BOOLEAN
  PROVE  /\ Central(e, at, wide).k = "central" /\ Central(e, at, wide).name = e.name
         /\ Widened(Central(e, at, wide)) = Stated(e, at, wide)
<1> DEFINE f == Fields(e, at)
           r == Central(e, at, wide)
<1>1. f \in FieldsOf /\ f.name = e.name /\ f.k = "central"
  BY FieldsTyped DEF FieldsOf
<1>2. r = IF wide THEN [f EXCEPT !.csize = Sentinel, !.fsize = Sentinel, !.offset = Sentinel,
                             !.extra = << f.fsize, f.csize, at >>]
          ELSE f
  BY DEF Central
<1>3. f.offset = at /\ Stated(e, at, wide) = [f EXCEPT !.extra = r.extra]
  BY FieldsTyped DEF Stated
<1> HIDE DEF f, r
<1>4. CASE ~ wide
  <2>1. r = f /\ f.fsize # Sentinel /\ f.csize # Sentinel /\ f.offset # Sentinel
    BY <1>1, <1>2, <1>4 DEF FieldsOf
  <2>2. Widened(r) = [r EXCEPT !.fsize = r.fsize, !.csize = r.csize, !.offset = r.offset]
    BY <2>1, Zenon DEF Widened
  <2>3. [r EXCEPT !.fsize = r.fsize, !.csize = r.csize, !.offset = r.offset]
          = [f EXCEPT !.extra = r.extra]
    BY <2>1, <1>1 DEF FieldsOf
  <2> QED
    BY <2>1, <2>2, <2>3, <1>1, <1>3 DEF r
<1>5. CASE wide
  <2>1. /\ r.fsize = Sentinel /\ r.csize = Sentinel /\ r.offset = Sentinel
        /\ r.extra = << f.fsize, f.csize, at >> /\ r.name = f.name /\ r.k = f.k
        /\ [r EXCEPT !.fsize = f.fsize, !.csize = f.csize, !.offset = at]
             = [f EXCEPT !.extra = r.extra]
    BY <1>1, <1>2, <1>3, <1>5 DEF FieldsOf
  <2>2. /\ {n \in Through("fsize") : r[n] = Sentinel} = {"fsize"}
        /\ {n \in Through("csize") : r[n] = Sentinel} = {"fsize", "csize"}
        /\ {n \in Through("offset") : r[n] = Sentinel} = {"fsize", "csize", "offset"}
    BY <2>1 DEF Through
  <2>3. /\ Cardinality({n \in Through("fsize") : r[n] = Sentinel}) = 1
        /\ Cardinality({n \in Through("csize") : r[n] = Sentinel}) = 2
        /\ Cardinality({n \in Through("offset") : r[n] = Sentinel}) = 3
    BY <2>2, HowMany, Zenon
  <2>4. /\ Len(r.extra) = 3 /\ ~(1 > 3) /\ ~(2 > 3) /\ ~(3 > 3)
        /\ r.extra[1] = f.fsize /\ r.extra[2] = f.csize /\ r.extra[3] = at
    BY <2>1
  <2>5. Widened(r) = [r EXCEPT !.fsize = r.extra[1], !.csize = r.extra[2], !.offset = r.extra[3]]
    BY <2>1, <2>3, <2>4, Zenon DEF Widened
  <2> QED
    BY <2>1, <2>4, <2>5, <1>1, <1>3 DEF r
<1> QED
  BY <1>4, <1>5

LEMMA StatedTyped ==
  ASSUME NEW e \in Entries, NEW at \in Nat, NEW wide \in BOOLEAN
  PROVE  /\ Stated(e, at, wide) \in FieldsOf
         /\ Stated(e, at, wide).name = e.name /\ Stated(e, at, wide).method = e.method
         /\ Stated(e, at, wide).encrypted = e.encrypted
         /\ Stated(e, at, wide).crc = (IF e.aligned THEN None ELSE e.content)
         /\ Stated(e, at, wide).csize = Len(Units(e))
         /\ Stated(e, at, wide).fsize = Len(e.content)
         /\ Stated(e, at, wide).offset = at
<1> DEFINE f == Fields(e, at)
           size == Len(Units(e))
           extra == Central(e, at, wide).extra
<1>1. /\ f \in FieldsOf /\ f.name = e.name /\ f.method = e.method /\ f.encrypted = e.encrypted
      /\ f.crc = (IF e.aligned THEN None ELSE e.content)
      /\ f.csize = size /\ f.fsize = Len(e.content) /\ f.offset = at
  BY FieldsTyped
<1>2. extra \in {<< >>} \union (Nat \X Nat \X Nat)
  <2>1. Central(e, at, wide) = IF wide THEN [f EXCEPT !.csize = Sentinel, !.fsize = Sentinel,
                                 !.offset = Sentinel, !.extra = << f.fsize, f.csize, at >>]
                               ELSE f
    BY DEF Central
  <2> HIDE DEF f
  <2> QED
    BY <1>1, <2>1 DEF FieldsOf
<1>3. Stated(e, at, wide) = [f EXCEPT !.extra = extra]
  BY DEF Stated
<1> HIDE DEF f, size, extra
<1> QED
  BY <1>1, <1>2, <1>3 DEF FieldsOf, size

LEMMA LocalIs ==
  ASSUME NEW e \in Entries, NEW wide \in BOOLEAN
  PROVE  /\ Local(e, wide).k = "local" /\ Local(e, wide).name = e.name
         /\ Local(e, wide).method = e.method /\ Local(e, wide).aligned = e.aligned
         /\ Local(e, wide).crc = (IF e.aligned THEN None ELSE e.content)
         /\ Local(e, wide).csize \in {Len(Units(e)), Sentinel}
         /\ Local(e, wide).fsize \in {Len(e.content), Sentinel}
<1> DEFINE f == Fields(e, 0)
           r == Central(e, 0, wide)
<1>1. /\ f \in FieldsOf
      /\ f.crc = (IF e.aligned THEN None ELSE e.content)
      /\ f.csize = Len(Units(e)) /\ f.fsize = Len(e.content)
  BY FieldsTyped
<1>2. r = IF wide THEN [f EXCEPT !.csize = Sentinel, !.fsize = Sentinel, !.offset = Sentinel,
                             !.extra = << f.fsize, f.csize, 0 >>]
          ELSE f
  BY DEF Central
<1>3. Local(e, wide) = [k |-> "local", name |-> e.name, method |-> e.method, crc |-> f.crc,
                        csize |-> r.csize, fsize |-> r.fsize, aligned |-> e.aligned]
  BY DEF Local
<1> HIDE DEF f, r
<1>4. r.csize \in {f.csize, Sentinel} /\ r.fsize \in {f.fsize, Sentinel}
  BY <1>1, <1>2 DEF FieldsOf
<1> QED
  BY <1>1, <1>3, <1>4

Kinds == {"data", "local", "central", "locator", "end", "end64"}

\* What a cell of a build's file is, in a file of a given size.
CellOf(build, size, c) ==
  /\ c.k \in Kinds
  /\ c.k = "data" => c \in UnitsOf
  /\ c.k = "local" => \E e \in Range(build.entries) : c = Local(e, build.wide)
  /\ c.k = "central" =>
       \E e \in Range(build.entries), at \in Nat \ {0} :
         c = Central(e, at, build.wide) /\ at + Len(Units(e)) <= size
  /\ c.k = "locator" => c.at \in 1 .. size
  /\ c.k \in {"end", "end64"} =>
       \/ c = End("end", Sentinel, Sentinel)
       \/ \E n \in Nat, start \in Nat \ {0} : c = End(c.k, n, start) /\ start + n - 1 <= size

LEMMA EndIs ==
  ASSUME NEW kind, NEW n, NEW start
  PROVE  /\ End(kind, n, start).k = kind /\ End(kind, n, start).count = n
         /\ End(kind, n, start).size = n /\ End(kind, n, start).offset = start
BY DEF End

LEMMA CellsOfLayout ==
  ASSUME Sentinel \notin Nat, NEW build \in Builds
  PROVE  /\ DOMAIN Layout(build) = 1 .. Len(Layout(build)) /\ Len(Layout(build)) \in Nat
         /\ \A i \in 1 .. Len(Layout(build)) : CellOf(build, Len(Layout(build)), Layout(build)[i])
<1> DEFINE L == Layout(build)
           n == Len(build.entries)
           wide == build.wide
<1>1. PICK at, start : LaidOut(build, L, at, start)
  BY LayoutIsLaidOut, Zenon
<1>2. n \in Nat /\ wide \in BOOLEAN
  BY EntriesOfBuild
<1>3. /\ start \in Nat \ {0} /\ DOMAIN L = 1 .. Len(L)
      /\ Len(L) = IF wide THEN start + n + 2 ELSE start + n
      /\ \A i \in 1 .. (start - 1) : L[i] \in BodyCells(build)
      /\ \A m \in 1 .. n : L[start + m - 1] = Central(build.entries[m], at[m], wide)
      /\ \A m \in 1 .. n : at[m] \in Nat \ {0} /\ at[m] + Len(Units(build.entries[m])) < start
      /\ wide => /\ L[start + n] = End("end64", n, start)
                 /\ L[start + n + 1] = [k |-> "locator", at |-> start + n]
                 /\ L[start + n + 2] = End("end", Sentinel, Sentinel)
      /\ ~wide => L[start + n] = End("end", n, start)
  BY <1>1 DEF LaidOut
<1> HIDE DEF L
<1> DEFINE size == Len(L)
<1>4. size \in Nat /\ start + n <= size /\ (wide => size = start + n + 2)
      /\ (~ wide => size = start + n)
  <2> HIDE DEF n, wide
  <2> QED
    BY <1>2, <1>3
<1> HIDE DEF size
<1>5. ASSUME NEW i \in 1 .. (start - 1)
      PROVE  CellOf(build, size, L[i])
  <2>1. CASE L[i] \in LocalCells(build)
    <3>1. PICK e \in Range(build.entries) : L[i] = Local(e, wide)
      BY <2>1 DEF LocalCells
    <3>2. L[i].k = "local"
      <4>1. e \in Entries /\ wide \in BOOLEAN
        BY EntriesOfBuild
      <4> QED
        BY <3>1, <4>1, LocalIs
    <3> QED
      BY <3>1, <3>2 DEF CellOf, Kinds
  <2>2. CASE L[i] \in UnitsOf
    <3>1. L[i].k = "data"
      BY <2>2 DEF UnitsOf
    <3> QED
      BY <2>2, <3>1 DEF CellOf, Kinds
  <2> QED
    BY <1>3, <2>1, <2>2 DEF BodyCells
<1>6. ASSUME NEW m \in 1 .. n
      PROVE  CellOf(build, size, L[start + m - 1])
  <2> DEFINE e == build.entries[m]
  <2>1. e \in Range(build.entries) /\ e \in Entries
    BY EntriesOfBuild
  <2>2. Len(Units(e)) \in Nat
    BY <2>1, UnitsTyped
  <2>3. at[m] \in Nat \ {0} /\ at[m] + Len(Units(e)) < start
        /\ L[start + m - 1] = Central(e, at[m], wide)
    BY <1>3
  <2> HIDE DEF e, n
  <2>4. at[m] + Len(Units(e)) <= size
    BY <1>2, <1>3, <1>4, <2>2, <2>3
  <2>5. L[start + m - 1].k = "central"
    BY <1>2, <2>1, <2>3, WidenedIs
  <2> QED
    BY <2>1, <2>3, <2>4, <2>5 DEF CellOf, Kinds
<1>7. CellOf(build, size, End("end64", n, start)) /\ CellOf(build, size, End("end", n, start))
  <2>1. start + n - 1 <= size
    BY <1>2, <1>3, <1>4
  <2> HIDE DEF n
  <2> QED
    BY <1>2, <1>3, <2>1, EndIs DEF CellOf, Kinds
<1>8. CellOf(build, size, End("end", Sentinel, Sentinel))
  BY EndIs DEF CellOf, Kinds
<1>9. CellOf(build, size, [k |-> "locator", at |-> start + n])
  <2>1. start + n \in 1 .. size
    BY <1>2, <1>3, <1>4
  <2> HIDE DEF n
  <2> QED
    BY <2>1 DEF CellOf, Kinds
<1>10. ASSUME NEW i \in 1 .. size
       PROVE  CellOf(build, size, L[i])
  <2>1. CASE i < start
    <3>1. i \in 1 .. (start - 1)
      BY <2>1, <1>3
    <3> QED
      BY <3>1, <1>5
  <2>2. CASE start <= i /\ i < start + n
    <3>1. i - start + 1 \in 1 .. n /\ start + (i - start + 1) - 1 = i
      BY <2>2, <1>2, <1>3
    <3> QED
      BY <3>1, <1>6
  <2>3. CASE start + n <= i
    <3>1. \/ i = start + n
          \/ wide /\ i = start + n + 1
          \/ wide /\ i = start + n + 2
      <4> HIDE DEF n, wide
      <4> QED
        BY <2>3, <1>2, <1>3, <1>4
    <3> QED
      BY <3>1, <1>2, <1>3, <1>7, <1>8, <1>9, Zenon
  <2> QED
    BY <2>1, <2>2, <2>3, <1>2, <1>3
<1> QED
  BY <1>3, <1>4, <1>10 DEF size, L

-----------------------------------------------------------------------------
(* What holds of the reader and its file whatever the launcher writes.     *)

Wants == {"localization", "datacore"}

Directories == [k : {"end", "end64"}, count : Nat, size : Nat, offset : Nat \ {0}]

UnitsRead == UnitsOf \union {Unit(<< Garbage >>, FALSE, FALSE)}

Labels == {"end", "locator", "end64", "walk", "search", "examine", "next", "header", "data",
           "done", "refused", "missing", "cancelled"}

Readers(R) ==
  [pc : Labels, exact : BOOLEAN, wants : Seq(Wants), directory : Directories \union {None},
   at : Nat, candidates : SUBSET (Nat \X Names), entries : SUBSET FieldsOf,
   entry : FieldsOf \union {None}, aligned : BOOLEAN, units : Seq(UnitsRead), read : Seq(R)]

\* A record of a build, of an entry that lies in the file.
Known(bs, size, r) ==
  \E b \in 1 .. 2 : \E e \in Range(bs[b].entries), at \in Nat \ {0} :
    r = Stated(e, at, bs[b].wide) /\ at + Len(Units(e)) <= size

\* The reader keeps to the file, and knows records of one of the builds.
KeepsTo(bs, size, r) ==
  /\ r.pc = "locator" => r.at <= size
  /\ r.pc = "end64" => r.at \in 1 .. size
  /\ r.pc \in {"walk", "search"} =>
       /\ r.directory \in Directories /\ r.directory.count <= r.directory.size
       /\ r.directory.offset + r.directory.size - 1 <= size
  /\ r.pc = "walk" => r.at < r.directory.count
  /\ r.pc = "search" => r.at < r.directory.size
  /\ \A c \in r.candidates : c[1] \in 1 .. size
  /\ \A e \in r.entries : Known(bs, size, e)
  /\ r.pc \in {"header", "data"} => Known(bs, size, r.entry)
  /\ r.pc = "data" => Len(r.units) <= r.entry.csize
  /\ r.pc = "data" /\ r.aligned => r.entry.crc = None

Cells == Range(Layout(builds[1])) \union Range(Layout(builds[2]))

FileOfBuilds ==
  /\ builds \in Patches
  /\ file \in Seq(Cells)
  /\ Len(file) = Len(Layout(builds[1])) /\ Len(file) = Len(Layout(builds[2]))

ReaderInv ==
  /\ FileOfBuilds
  /\ \E R : reader \in Readers(R)
  /\ KeepsTo(builds, Len(file), reader)

LEMMA OfBuilds ==
  ASSUME ArchiveAssumption, builds \in Patches
  PROVE  /\ builds[1] \in Builds /\ builds[2] \in Builds
         /\ \A b \in 1 .. 2 : builds[b] \in Builds
         /\ Len(Layout(builds[1])) = Len(Layout(builds[2]))
<1>1. builds \in Builds \X Builds /\ Len(Layout(builds[1])) = Len(Layout(builds[2]))
  BY DEF ArchiveAssumption
<1>2. \A b \in 1 .. 2 : b = 1 \/ b = 2
  OBVIOUS
<1> QED
  BY <1>1, <1>2

\* A cell of the file is one of a build.
LEMMA CellsOfFile ==
  ASSUME ArchiveAssumption, FileOfBuilds
  PROVE  /\ DOMAIN file = 1 .. Len(file) /\ Len(file) \in Nat
         /\ \A i \in 1 .. Len(file) : \E b \in 1 .. 2 : CellOf(builds[b], Len(file), file[i])
<1>1. file \in Seq(Cells) /\ builds \in Patches
  BY DEF FileOfBuilds
<1>2. DOMAIN file = 1 .. Len(file) /\ Len(file) \in Nat /\ \A i \in 1 .. Len(file) : file[i] \in Cells
  BY <1>1, LenProperties, ElementOfSeq
<1>3. ASSUME NEW b \in 1 .. 2, NEW c \in Range(Layout(builds[b]))
      PROVE  CellOf(builds[b], Len(file), c)
  <2>1. builds[b] \in Builds /\ Sentinel \notin Nat
    BY <1>1, OfBuilds DEF ArchiveAssumption
  <2>2. Len(file) = Len(Layout(builds[b]))
    <3>1. b = 1 \/ b = 2
      OBVIOUS
    <3> QED
      BY <3>1 DEF FileOfBuilds
  <2>3. PICK i \in DOMAIN Layout(builds[b]) : c = Layout(builds[b])[i]
    BY Zenon DEF Range
  <2> QED
    BY <2>1, <2>2, <2>3, CellsOfLayout, Zenon
<1>4. 1 \in 1 .. 2 /\ 2 \in 1 .. 2
  OBVIOUS
<1> QED
  BY <1>2, <1>3, <1>4, Zenon DEF Cells

\* A record of the directory, widened.
LEMMA RecordIs ==
  ASSUME ArchiveAssumption, FileOfBuilds, NEW i \in 1 .. Len(file), file[i].k = "central"
  PROVE  /\ file[i].name \in Names
         /\ Widened(file[i]) \in FieldsOf
         /\ Widened(file[i]).name = file[i].name
         /\ Known(builds, Len(file), Widened(file[i]))
<1>1. PICK b \in 1 .. 2 : CellOf(builds[b], Len(file), file[i])
  BY CellsOfFile, Zenon
<1>2. PICK e \in Range(builds[b].entries), at \in Nat \ {0} :
        file[i] = Central(e, at, builds[b].wide) /\ at + Len(Units(e)) <= Len(file)
  BY <1>1, Zenon DEF CellOf
<1>3. e \in Entries /\ builds[b].wide \in BOOLEAN /\ Sentinel \notin Nat /\ at \in Nat
  BY OfBuilds, EntriesOfBuild DEF ArchiveAssumption, FileOfBuilds
<1>4. Widened(file[i]) = Stated(e, at, builds[b].wide) /\ file[i].name = e.name
  <2> DEFINE wide == builds[b].wide
  <2>1. wide \in BOOLEAN
    BY <1>3
  <2>2. Central(e, at, wide).name = e.name
        /\ Widened(Central(e, at, wide)) = Stated(e, at, wide)
    <3> HIDE DEF wide
    <3> QED
      BY <1>3, <2>1, WidenedIs
  <2> QED
    BY <1>2, <2>2, Zenon
<1>5. /\ Stated(e, at, builds[b].wide) \in FieldsOf /\ Stated(e, at, builds[b].wide).name = e.name
  BY <1>3, StatedTyped, Zenon
<1>6. e.name \in Names
  BY <1>3 DEF Entries, Names
<1> QED
  BY <1>2, <1>4, <1>5, <1>6, Zenon DEF Known

LEMMA LayoutIsSeq ==
  ASSUME Sentinel \notin Nat, NEW build \in Builds
  PROVE  Layout(build) \in Seq(Range(Layout(build)))
BY LayoutIsLaidOut, Zenon DEF LaidOut

LEMMA ReaderInvInit == ArchiveAssumption /\ ArchiveInit => ReaderInv
<1> SUFFICES ASSUME ArchiveAssumption, ArchiveInit
             PROVE  ReaderInv
  OBVIOUS
<1>1. FileOfBuilds
  <2>1. builds \in Patches /\ file = Layout(builds[1])
    BY DEF ArchiveInit
  <2>2. builds[1] \in Builds /\ Len(Layout(builds[1])) = Len(Layout(builds[2]))
    BY <2>1, OfBuilds
  <2>3. Layout(builds[1]) \in Seq(Range(Layout(builds[1])))
    <3>1. Sentinel \notin Nat
      BY DEF ArchiveAssumption
    <3> QED
      BY <2>2, <3>1, LayoutIsSeq, Zenon
  <2>4. Range(Layout(builds[1])) \subseteq Cells
    BY DEF Cells
  <2> QED
    BY <2>1, <2>2, <2>3, <2>4, SeqMonotonic DEF FileOfBuilds
<1>2. PICK request \in Requests :
        reader = [pc |-> "end", exact |-> request.exact, wants |-> request.wants,
                  directory |-> None, at |-> 0, candidates |-> {}, entries |-> {},
                  entry |-> None, aligned |-> FALSE, units |-> << >>, read |-> << >>]
  BY DEF ArchiveInit
<1>3. request.exact \in BOOLEAN /\ request.wants \in Seq(Wants)
  BY DEF ArchiveAssumption, Wants
<1>4. << >> \in Seq(UnitsRead) /\ << >> \in Seq({})
  BY EmptySeq
<1>5. reader \in Readers({})
  BY <1>2, <1>3, <1>4 DEF Readers, Labels
<1>6. KeepsTo(builds, Len(file), reader)
  BY <1>2 DEF KeepsTo
<1> QED
  BY <1>1, <1>5, <1>6 DEF ReaderInv

\* The launcher's step leaves the reader as it is, and the file as long.
LEMMA PatchKeeps ==
  ASSUME ArchiveAssumption, ReaderInv, Patch
  PROVE  ReaderInv'
<1>1. builds' = builds /\ reader' = reader
  BY DEF Patch
<1>2. PICK i \in DOMAIN Layout(builds[2]) : file' = [file EXCEPT ![i] = Layout(builds[2])[i]]
  BY Zenon DEF Patch
<1>3. /\ builds \in Patches /\ file \in Seq(Cells)
      /\ Len(file) = Len(Layout(builds[1])) /\ Len(file) = Len(Layout(builds[2]))
  BY DEF ReaderInv, FileOfBuilds
<1>4. i \in 1 .. Len(file) /\ Layout(builds[2])[i] \in Cells
  <2>1. builds[2] \in Builds /\ Sentinel \notin Nat
    BY <1>3, OfBuilds DEF ArchiveAssumption
  <2>2. DOMAIN Layout(builds[2]) = 1 .. Len(Layout(builds[2]))
    BY <2>1, CellsOfLayout, Zenon
  <2> QED
    BY <1>3, <2>2, Zenon DEF Cells, Range
<1>5. file' \in Seq(Cells) /\ Len(file') = Len(file)
  BY <1>2, <1>3, <1>4, ExceptSeq
<1>6. FileOfBuilds'
  BY <1>1, <1>3, <1>5 DEF FileOfBuilds, Cells
<1> QED
  BY <1>1, <1>5, <1>6 DEF ReaderInv

\* A step of the reader alone.
LEMMA ReaderSteps ==
  ASSUME ArchiveAssumption, ReaderInv, UNCHANGED << builds, file >>,
         NEW R, reader' \in Readers(R), KeepsTo(builds, Len(file), reader')
  PROVE  ReaderInv'
BY DEF ReaderInv, FileOfBuilds, Cells

LEMMA GoKeeps ==
  ASSUME ArchiveAssumption, ReaderInv, UNCHANGED << builds, file >>,
         NEW pc \in {"done", "refused", "missing", "cancelled", "next"},
         reader' = [reader EXCEPT !.pc = pc]
  PROVE  ReaderInv'
<1>1. PICK R : reader \in Readers(R)
  BY DEF ReaderInv
<1>2. reader' \in Readers(R)
  BY <1>1 DEF Readers, Labels
<1>3. KeepsTo(builds, Len(file), reader')
  <2>1. /\ reader'.pc = pc /\ reader'.candidates = reader.candidates
        /\ reader'.entries = reader.entries
    BY <1>1 DEF Readers, Labels
  <2> QED
    BY <2>1 DEF ReaderInv, KeepsTo
<1> QED
  BY <1>2, <1>3, ReaderSteps

LEMMA LocateKeeps ==
  ASSUME ArchiveAssumption, ReaderInv, NEW i \in 1 .. Len(file),
         file[i].k \in {"end", "end64"}, file[i].offset # Sentinel \/ file[i].k = "end64",
         Locate(file[i])
  PROVE  ReaderInv'
<1> DEFINE record == file[i]
           size == Len(file)
<1>1. PICK R : reader \in Readers(R)
  BY DEF ReaderInv
<1>2. size \in Nat /\ \E b \in 1 .. 2 : CellOf(builds[b], size, record)
  BY CellsOfFile DEF ReaderInv
<1>3. record \in Directories
  <2>1. \/ record = End("end", Sentinel, Sentinel)
        \/ \E n \in Nat, start \in Nat \ {0} : record = End(record.k, n, start)
    BY <1>2 DEF CellOf
  <2>2. PICK n \in Nat, start \in Nat \ {0} : record = End(record.k, n, start)
    <3>1. End("end", Sentinel, Sentinel).offset = Sentinel
          /\ End("end", Sentinel, Sentinel).k = "end"
      BY EndIs
    <3> QED
      BY <2>1, <3>1, Zenon
  <2>3. record.k \in {"end", "end64"}
    OBVIOUS
  <2> DEFINE kind == record.k
  <2> HIDE DEF record, kind
  <2>4. record = End(kind, n, start) /\ kind \in {"end", "end64"}
    BY <2>2, <2>3 DEF kind
  <2> QED
    BY <2>4 DEF End, Directories
<1>4. CASE Stop("refused")
  BY <1>4, GoKeeps DEF Stop
<1> HIDE DEF record, size
<1>5. CASE /\ ~ (record.size < record.count \/ record.offset + record.size - 1 > size)
           /\ reader' = [reader EXCEPT !.directory = record, !.at = 0,
                           !.pc = IF record.count = 0 THEN "next"
                                  ELSE IF reader.exact THEN "search" ELSE "walk"]
           /\ UNCHANGED << builds, file, destination >>
  <2> DEFINE pc == IF record.count = 0 THEN "next"
                   ELSE IF reader.exact THEN "search" ELSE "walk"
  <2>1. pc \in Labels /\ pc \in {"next", "search", "walk"} /\ (pc # "next" => record.count # 0)
    BY DEF Labels
  <2>2. reader' = [reader EXCEPT !.directory = record, !.at = 0, !.pc = pc]
    BY <1>5
  <2> HIDE DEF pc
  <2>3. reader' \in Readers(R)
    BY <1>1, <1>3, <2>1, <2>2 DEF Readers, Labels
  <2>4. /\ reader'.pc = pc /\ reader'.candidates = reader.candidates
        /\ reader'.entries = reader.entries /\ reader'.directory = record /\ reader'.at = 0
    BY <1>1, <2>2 DEF Readers, Labels
  <2>5. record.count \in Nat /\ record.size \in Nat /\ record.offset \in Nat
    BY <1>3 DEF Directories
  <2>6. record.count <= record.size /\ record.offset + record.size - 1 <= size
        /\ (record.count # 0 => 0 < record.count /\ 0 < record.size)
    BY <1>2, <1>5, <2>5
  <2>7. KeepsTo(builds, size, reader')
    BY <1>3, <2>1, <2>4, <2>6 DEF ReaderInv, KeepsTo, size
  <2> QED
    BY <1>5, <2>3, <2>7, ReaderSteps DEF size
<1> QED
  BY <1>4, <1>5, Zenon DEF Locate, size, record

LEMMA FindEndKeeps ==
  ASSUME ArchiveAssumption, ReaderInv, FindEnd
  PROVE  ReaderInv'
<1> DEFINE size == Len(file)
           ends == {i \in DOMAIN file : file[i].k = "end"}
           last == Max(ends)
<1>1. PICK R : reader \in Readers(R)
  BY DEF ReaderInv
<1>2. size \in Nat /\ DOMAIN file = 1 .. size
  BY CellsOfFile DEF ReaderInv
<1>3. CASE Stop("refused")
  BY <1>3, GoKeeps DEF Stop
<1>4. ends # {} => last \in 1 .. size /\ file[last].k = "end"
  <2>1. ends \subseteq 0 .. size
    BY <1>2
  <2>2. ends # {} => last \in ends
    <3> HIDE DEF ends
    <3> QED
      BY <1>2, <2>1, MaxFact
  <2> QED
    BY <1>2, <2>2
<1> HIDE DEF last, size
<1>5. CASE /\ ends # {} /\ file[last].offset = Sentinel
           /\ reader' = [reader EXCEPT !.pc = "locator", !.at = last - 1]
           /\ UNCHANGED << builds, file, destination >>
  <2>1. last - 1 \in Nat /\ last - 1 <= size
    BY <1>2, <1>4, <1>5
  <2>2. reader' \in Readers(R)
    BY <1>1, <1>5, <2>1 DEF Readers, Labels
  <2>3. /\ reader'.pc = "locator" /\ reader'.candidates = reader.candidates
        /\ reader'.entries = reader.entries /\ reader'.at = last - 1
    BY <1>1, <1>5 DEF Readers
  <2>4. KeepsTo(builds, size, reader')
    BY <2>1, <2>3 DEF ReaderInv, KeepsTo, size
  <2> QED
    BY <1>5, <2>2, <2>4, ReaderSteps DEF size
<1>6. CASE ends # {} /\ file[last].offset # Sentinel /\ Locate(file[last])
  BY <1>4, <1>6, LocateKeeps DEF size
<1> QED
  BY <1>3, <1>5, <1>6, Zenon DEF FindEnd, last

LEMMA ReadLocatorKeeps ==
  ASSUME ArchiveAssumption, ReaderInv, ReadLocator
  PROVE  ReaderInv'
<1> DEFINE size == Len(file)
<1>1. PICK R : reader \in Readers(R)
  BY DEF ReaderInv
<1>2. size \in Nat /\ \A i \in 1 .. size : \E b \in 1 .. 2 : CellOf(builds[b], size, file[i])
  BY CellsOfFile DEF ReaderInv
<1>3. CASE Stop("refused")
  BY <1>3, GoKeeps DEF Stop
<1>4. CASE /\ reader.at # 0 /\ file[reader.at].k = "locator"
           /\ reader' = [reader EXCEPT !.pc = "end64", !.at = file[reader.at].at]
           /\ UNCHANGED << builds, file, destination >>
  <2>1. reader.at \in 1 .. size
    <3>1. reader.at \in Nat
      BY <1>1 DEF Readers
    <3>2. reader.at <= size
      BY DEF ReadLocator, ReaderInv, KeepsTo
    <3> QED
      BY <1>2, <1>4, <3>1, <3>2
  <2> DEFINE at == file[reader.at].at
  <2>2. at \in 1 .. size
    BY <1>2, <1>4, <2>1, Zenon DEF CellOf
  <2>a. at \in Nat
    BY <1>2, <2>2
  <2> HIDE DEF at, size
  <2>3. reader' \in Readers(R)
    BY <1>1, <1>4, <2>a DEF Readers, Labels, at
  <2>4. /\ reader'.pc = "end64" /\ reader'.candidates = reader.candidates
        /\ reader'.entries = reader.entries /\ reader'.at = at
    BY <1>1, <1>4 DEF Readers, at
  <2>5. KeepsTo(builds, size, reader')
    BY <2>2, <2>4 DEF ReaderInv, KeepsTo, size
  <2> QED
    BY <1>4, <2>3, <2>5, ReaderSteps DEF size
<1> QED
  BY <1>3, <1>4, Zenon DEF ReadLocator

LEMMA ReadEnd64Keeps ==
  ASSUME ArchiveAssumption, ReaderInv, ReadEnd64
  PROVE  ReaderInv'
<1>1. reader.at \in 1 .. Len(file)
  BY DEF ReadEnd64, ReaderInv, KeepsTo
<1>2. CASE Stop("refused")
  BY <1>2, GoKeeps DEF Stop
<1>3. CASE file[reader.at].k = "end64" /\ Locate(file[reader.at])
  BY <1>1, <1>3, LocateKeeps
<1> QED
  BY <1>2, <1>3, Zenon DEF ReadEnd64

\* What is admitted is known; "rest" is the reader moved on.
LEMMA AdmitKeeps ==
  ASSUME ArchiveAssumption, ReaderInv, NEW i \in 1 .. Len(file), file[i].k = "central",
         NEW R, NEW rest \in Readers(R), KeepsTo(builds, Len(file), rest),
         rest.pc \notin {"header", "data"},
         Admit(file[i], rest)
  PROVE  ReaderInv'
<1> DEFINE w == Widened(file[i])
           size == Len(file)
<1>1. w \in FieldsOf /\ Known(builds, size, w)
  BY RecordIs DEF ReaderInv
<1> HIDE DEF w, size
<1>2. CASE Stop("refused")
  BY <1>2, GoKeeps DEF Stop
<1>3. CASE reader' = rest /\ UNCHANGED << builds, file, destination >>
  BY <1>3, ReaderSteps
<1>4. CASE /\ reader' = [rest EXCEPT !.entries = @ \union {w}]
           /\ UNCHANGED << builds, file, destination >>
  <2>1. reader' \in Readers(R)
    BY <1>1, <1>4 DEF Readers
  <2>2. /\ reader'.pc = rest.pc /\ reader'.candidates = rest.candidates
        /\ reader'.entries = rest.entries \union {w} /\ reader'.at = rest.at
        /\ reader'.directory = rest.directory
    BY <1>4 DEF Readers
  <2>3. KeepsTo(builds, size, reader')
    BY <1>1, <2>2 DEF KeepsTo, size
  <2> QED
    BY <1>4, <2>1, <2>3, ReaderSteps DEF size
<1> QED
  BY <1>2, <1>3, <1>4, Zenon DEF Admit, w

LEMMA Within ==
  ASSUME NEW offset \in Nat \ {0}, NEW at \in Nat, NEW count \in Nat, NEW size \in Nat,
         at < count, NEW end \in Nat, count <= size, offset + size - 1 <= end
  PROVE  offset + at \in 1 .. end
OBVIOUS

LEMMA WalkKeeps ==
  ASSUME ArchiveAssumption, ReaderInv, Walk
  PROVE  ReaderInv'
<1> DEFINE size == Len(file)
           here == reader.directory.offset + reader.at
           pc == IF reader.at + 1 = reader.directory.count THEN "next" ELSE reader.pc
           rest == [reader EXCEPT !.at = @ + 1, !.pc = pc]
<1>1. PICK R : reader \in Readers(R)
  BY DEF ReaderInv
<1>2. /\ reader.pc = "walk" /\ reader.directory \in Directories
      /\ reader.directory.count <= reader.directory.size
      /\ reader.directory.offset + reader.directory.size - 1 <= size
      /\ reader.at < reader.directory.count
  BY DEF Walk, ReaderInv, KeepsTo
<1>3. size \in Nat
  BY CellsOfFile DEF ReaderInv
<1>4. /\ reader.at \in Nat /\ reader.directory.count \in Nat
      /\ reader.directory.size \in Nat /\ reader.directory.offset \in Nat \ {0}
  BY <1>1, <1>2 DEF Readers, Directories
<1>5. here \in 1 .. size
  BY <1>2, <1>3, <1>4, Within
<1>6. /\ reader.at + 1 \in Nat
      /\ pc \in {"walk", "next"} /\ (pc = "walk" => reader.at + 1 < reader.directory.count)
  BY <1>2, <1>4
<1> HIDE DEF size, here, pc
<1>7. rest \in Readers(R)
  BY <1>1, <1>6 DEF Readers, Labels
<1>8. /\ rest.pc = pc /\ rest.at = reader.at + 1 /\ rest.directory = reader.directory
      /\ rest.candidates = reader.candidates /\ rest.entries = reader.entries
  BY <1>1 DEF Readers
<1> HIDE DEF rest
<1>9. KeepsTo(builds, size, rest)
  BY <1>2, <1>6, <1>8 DEF ReaderInv, KeepsTo, size
<1>10. CASE Stop("refused")
  BY <1>10, GoKeeps DEF Stop
<1>11. CASE file[here].k = "central" /\ Admit(file[here], rest)
  <2>1. rest.pc \notin {"header", "data"}
    BY <1>6, <1>8
  <2> QED
    BY <1>5, <1>7, <1>9, <1>11, <2>1, AdmitKeeps DEF size
<1> QED
  BY <1>10, <1>11, Zenon DEF Walk, here, rest, pc

LEMMA SearchKeeps ==
  ASSUME ArchiveAssumption, ReaderInv, Search
  PROVE  ReaderInv'
<1> DEFINE size == Len(file)
           here == reader.directory.offset + reader.at
           found == file[here].k = "central" /\ Spelled(file[here].name)
           new == << here, file[here].name >>
           candidates == IF found THEN reader.candidates \union {new} ELSE reader.candidates
           pc == IF reader.at + 1 = reader.directory.size THEN "examine" ELSE reader.pc
<1>1. PICK R : reader \in Readers(R)
  BY DEF ReaderInv
<1>2. /\ reader.pc = "search" /\ reader.directory \in Directories
      /\ reader.directory.offset + reader.directory.size - 1 <= size
      /\ reader.at < reader.directory.size
  BY DEF Search, ReaderInv, KeepsTo
<1>3. size \in Nat
  BY CellsOfFile DEF ReaderInv
<1>4. /\ reader.at \in Nat /\ reader.directory.size \in Nat
      /\ reader.directory.size <= reader.directory.size
      /\ reader.directory.offset \in Nat \ {0}
  BY <1>1, <1>2 DEF Readers, Directories
<1>5. here \in 1 .. size /\ here \in Nat
  <2>1. here \in 1 .. size
    BY <1>2, <1>3, <1>4, Within
  <2> QED
    BY <2>1, <1>3
<1>6. /\ reader.at + 1 \in Nat
      /\ pc \in {"search", "examine"} /\ (pc = "search" => reader.at + 1 < reader.directory.size)
  BY <1>2, <1>4
<1>7. found => new \in Nat \X Names /\ new[1] \in 1 .. size
  BY <1>5, RecordIs DEF ReaderInv
<1>8. /\ reader' = [reader EXCEPT !.candidates = candidates, !.at = @ + 1, !.pc = pc]
      /\ UNCHANGED << builds, file, destination >>
  BY Zenon DEF Search
<1>9. candidates \in SUBSET (Nat \X Names) /\ \A c \in candidates : c[1] \in 1 .. size
  <2>1. reader.candidates \in SUBSET (Nat \X Names)
        /\ \A c \in reader.candidates : c[1] \in 1 .. size
    BY <1>1 DEF Readers, ReaderInv, KeepsTo
  <2> HIDE DEF new, found, size
  <2> QED
    BY <2>1, <1>7
<1> HIDE DEF size, here, pc, found, new, candidates
<1>10. reader' \in Readers(R)
  BY <1>1, <1>6, <1>8, <1>9 DEF Readers, Labels
<1>11. /\ reader'.pc = pc /\ reader'.at = reader.at + 1 /\ reader'.directory = reader.directory
       /\ reader'.candidates = candidates /\ reader'.entries = reader.entries
  BY <1>1, <1>8 DEF Readers
<1>12. reader.directory.count <= reader.directory.size
  BY DEF Search, ReaderInv, KeepsTo
<1>13. KeepsTo(builds, size, reader')
  BY <1>2, <1>6, <1>9, <1>11, <1>12 DEF ReaderInv, KeepsTo, size
<1> QED
  BY <1>8, <1>10, <1>13, ReaderSteps DEF size

\* The first of the places found.
First(candidates) == CHOOSE c \in candidates : \A d \in candidates : c[1] <= d[1]

LEMMA FirstIs ==
  ASSUME NEW candidates \in SUBSET (Nat \X Names), candidates # {}
  PROVE  First(candidates) \in candidates
<1> DEFINE T == {c[1] : c \in candidates}
<1>1. T \in SUBSET Nat /\ T # {}
  OBVIOUS
<1>2. PICK t \in T : \A u \in T : t <= u
  <2> HIDE DEF T
  <2> QED
    BY <1>1, SmallestNat, Zenon
<1>3. \E c \in candidates : \A d \in candidates : c[1] <= d[1]
  BY <1>2
<1> QED
  BY <1>3, Zenon DEF First

LEMMA ExamineKeeps ==
  ASSUME ArchiveAssumption, ReaderInv, Examine
  PROVE  ReaderInv'
<1> DEFINE first == First(reader.candidates)
           rest == [reader EXCEPT !.candidates = @ \ {first}]
           cell == file[first[1]]
<1>1. PICK R : reader \in Readers(R)
  BY DEF ReaderInv
<1>2. CASE Go("next")
  BY <1>2, GoKeeps DEF Go
<1>3. ASSUME reader.candidates # {}
      PROVE  /\ first[1] \in 1 .. Len(file) /\ rest \in Readers(R)
             /\ KeepsTo(builds, Len(file), rest) /\ rest.pc \notin {"header", "data"}
  <2>1. first \in reader.candidates
    BY <1>1, <1>3, FirstIs DEF Readers
  <2> HIDE DEF first
  <2>2. first[1] \in 1 .. Len(file)
    BY <2>1 DEF ReaderInv, KeepsTo
  <2>3. rest \in Readers(R)
    BY <1>1 DEF Readers
  <2>4. /\ rest.pc = "examine" /\ rest.candidates \subseteq reader.candidates
        /\ rest.entries = reader.entries
    BY <1>1 DEF Readers, Examine
  <2> HIDE DEF rest
  <2>5. KeepsTo(builds, Len(file), rest)
    BY <2>4 DEF ReaderInv, KeepsTo
  <2> QED
    BY <2>2, <2>3, <2>4, <2>5
<1>4. CASE reader.candidates # {} /\ cell.k = "central" /\ Admit(cell, rest)
  <2> HIDE DEF rest, first
  <2> QED
    BY <1>3, <1>4, AdmitKeeps
<1>5. CASE /\ reader.candidates # {} /\ reader' = rest
           /\ UNCHANGED << builds, file, destination >>
  <2> HIDE DEF rest, first
  <2> QED
    BY <1>3, <1>5, ReaderSteps
<1> QED
  BY <1>2, <1>4, <1>5, Zenon DEF Examine, First

\* An entry that is wanted next.
Matches ==
  {e \in reader.entries :
     e.name.of = Head(reader.wants) /\ (Head(reader.wants) = "localization" \/ ~ e.name.upper)}

Skipped == [reader EXCEPT !.wants = Tail(@)]

\* The ways ReadNext may take.
LEMMA WaysOfReadNext ==
  ASSUME ReadNext, reader.wants # << >> => Head(reader.wants) \in Wants
  PROVE  /\ reader.pc = "next"
         /\ \/ reader.wants = << >> /\ Go("done")
            \/ reader.wants # << >> /\ Cardinality(Matches) > 1 /\ Stop("refused")
            \/ /\ reader.wants # << >> /\ Matches = {} /\ Head(reader.wants) = "localization"
               /\ Stop("missing")
            \/ /\ reader.wants # << >> /\ reader' = Skipped
               /\ UNCHANGED << builds, file, destination >>
            \/ /\ reader.wants # << >> /\ Matches # {}
               /\ reader' = [Skipped EXCEPT !.entry = CHOOSE e \in Matches : TRUE, !.pc = "header"]
               /\ destination' = [destination EXCEPT !.partial = (Head(reader.wants) = "datacore")]
               /\ UNCHANGED << builds, file >>
<1> DEFINE want == Head(reader.wants)
           matches == {e \in reader.entries :
                         e.name.of = want /\ (want = "localization" \/ ~ e.name.upper)}
           skipped == [reader EXCEPT !.wants = Tail(@)]
           Took == /\ reader' = [skipped EXCEPT !.entry = CHOOSE e \in matches : TRUE,
                                                !.pc = "header"]
                   /\ destination' = [destination EXCEPT !.partial = (want = "datacore")]
                   /\ UNCHANGED << builds, file >>
<1>1. matches = Matches /\ skipped = Skipped
  BY DEF Matches, Skipped
<1>2. CASE reader.wants = << >>
  BY <1>2 DEF ReadNext
<1>3. CASE reader.wants # << >>
  <2>1. reader.pc = "next" /\
        CASE Cardinality(matches) > 1 -> Stop("refused")
          [] matches = {} /\ want = "localization" -> Stop("missing")
          [] matches = {} /\ want = "datacore" ->
               reader' = skipped /\ UNCHANGED << builds, file, destination >>
          [] OTHER -> Took
    BY <1>3, Zenon DEF ReadNext
  <2>2. want \in Wants
    BY <1>3
  <2>3. Cardinality(Matches) > 1 => matches # {}
    <3>1. Cardinality({}) = 0
      BY FS_EmptySet
    <3>2. ~ (0 > 1)
      OBVIOUS
    <3> QED
      BY <3>1, <3>2, <1>1, Zenon
  <2> HIDE DEF matches, want, skipped, Took
  <2>4. \/ Cardinality(matches) > 1 /\ Stop("refused")
        \/ matches = {} /\ want = "localization" /\ Stop("missing")
        \/ reader' = skipped /\ UNCHANGED << builds, file, destination >>
        \/ matches # {} /\ Took
    BY <2>1, <2>2, <2>3, <1>1 DEF Wants
  <2> QED
    BY <2>1, <2>4, <1>1, <1>3, Zenon DEF want, Took
<1> QED
  BY <1>2, <1>3

LEMMA HeadAndTail ==
  ASSUME NEW R, NEW r \in Readers(R), r.wants # << >>
  PROVE  /\ Head(r.wants) \in Wants /\ Tail(r.wants) \in Seq(Wants)
<1>1. r.wants \in Seq(Wants)
  BY DEF Readers
<1> QED
  BY <1>1, HeadTailProperties

LEMMA ReadNextKeeps ==
  ASSUME ArchiveAssumption, ReaderInv, ReadNext
  PROVE  ReaderInv'
<1>1. PICK R : reader \in Readers(R)
  BY DEF ReaderInv
<1>2. reader.wants # << >> => Head(reader.wants) \in Wants /\ Tail(reader.wants) \in Seq(Wants)
  BY <1>1, HeadAndTail
<1>3. reader.pc = "next"
  BY DEF ReadNext
<1>4. CASE Go("done") \/ Stop("refused") \/ Stop("missing")
  BY <1>4, GoKeeps DEF Go, Stop
<1>5. CASE /\ reader.wants # << >> /\ reader' = Skipped
           /\ UNCHANGED << builds, file, destination >>
  <2>1. reader' \in Readers(R)
    BY <1>1, <1>2, <1>5 DEF Readers, Skipped
  <2>2. /\ reader'.pc = "next" /\ reader'.candidates = reader.candidates
        /\ reader'.entries = reader.entries
    BY <1>1, <1>3, <1>5 DEF Readers, Skipped
  <2>3. KeepsTo(builds, Len(file), reader')
    BY <2>2 DEF ReaderInv, KeepsTo
  <2> QED
    BY <1>5, <2>1, <2>3, ReaderSteps
<1>6. CASE /\ reader.wants # << >> /\ Matches # {}
           /\ reader' = [Skipped EXCEPT !.entry = CHOOSE e \in Matches : TRUE, !.pc = "header"]
           /\ UNCHANGED << builds, file >>
  <2> DEFINE entry == CHOOSE e \in Matches : TRUE
  <2>1. entry \in reader.entries
    <3>1. entry \in Matches
      BY <1>6, Zenon
    <3> QED
      BY <3>1, Zenon DEF Matches
  <2> HIDE DEF entry
  <2>2. entry \in FieldsOf /\ Known(builds, Len(file), entry)
    BY <1>1, <2>1 DEF Readers, ReaderInv, KeepsTo
  <2>3. reader' = [Skipped EXCEPT !.entry = entry, !.pc = "header"]
    BY <1>6 DEF entry
  <2>4. reader' \in Readers(R)
    BY <1>1, <1>2, <1>6, <2>2, <2>3 DEF Readers, Labels, Skipped
  <2>5. /\ reader'.pc = "header" /\ reader'.candidates = reader.candidates
        /\ reader'.entries = reader.entries /\ reader'.entry = entry
    BY <1>1, <2>3 DEF Readers, Skipped
  <2>6. KeepsTo(builds, Len(file), reader')
    BY <2>2, <2>5 DEF ReaderInv, KeepsTo
  <2> QED
    BY <1>6, <2>4, <2>6, ReaderSteps
<1> QED
  BY <1>2, <1>4, <1>5, <1>6, WaysOfReadNext, Zenon

\* An entry that is known lies in the file.
LEMMA KnownIs ==
  ASSUME ArchiveAssumption, FileOfBuilds, NEW r, Known(builds, Len(file), r)
  PROVE  /\ r \in FieldsOf
         /\ r.csize \in Nat /\ r.offset \in Nat \ {0} /\ r.offset + r.csize <= Len(file)
         /\ \E b \in 1 .. 2 : \E e \in Range(builds[b].entries) :
              /\ e \in Entries
              /\ r.name = e.name /\ r.fsize = Len(e.content)
              /\ r.crc = (IF e.aligned THEN None ELSE e.content)
<1>1. PICK b \in 1 .. 2 : \E e \in Range(builds[b].entries), at \in Nat \ {0} :
        r = Stated(e, at, builds[b].wide) /\ at + Len(Units(e)) <= Len(file)
  BY DEF Known
<1>2. PICK e \in Range(builds[b].entries), at \in Nat \ {0} :
        r = Stated(e, at, builds[b].wide) /\ at + Len(Units(e)) <= Len(file)
  BY <1>1
<1> DEFINE wide == builds[b].wide
<1>3. e \in Entries /\ wide \in BOOLEAN /\ at \in Nat
  <2>1. builds[b] \in Builds
    BY OfBuilds DEF FileOfBuilds
  <2> QED
    BY <2>1, EntriesOfBuild
<1> HIDE DEF wide
<1>4. /\ Stated(e, at, wide) \in FieldsOf
      /\ Stated(e, at, wide).name = e.name
      /\ Stated(e, at, wide).crc = (IF e.aligned THEN None ELSE e.content)
      /\ Stated(e, at, wide).csize = Len(Units(e))
      /\ Stated(e, at, wide).fsize = Len(e.content)
      /\ Stated(e, at, wide).offset = at
  BY <1>3, StatedTyped
<1>5. r = Stated(e, at, wide)
  BY <1>2 DEF wide
<1>6. r \in FieldsOf /\ r.csize \in Nat
  BY <1>4, <1>5 DEF FieldsOf
<1>7. r.csize = Len(Units(e)) /\ r.offset = at
  BY <1>4, <1>5, Zenon
<1> QED
  BY <1>2, <1>3, <1>4, <1>5, <1>6, <1>7, Zenon

LEMMA ReadHeaderKeeps ==
  ASSUME ArchiveAssumption, ReaderInv, ReadHeader
  PROVE  ReaderInv'
<1> DEFINE entry == reader.entry
           header == file[entry.offset]
           aligned == Advisory(entry, header)
<1>1. PICK R : reader \in Readers(R)
  BY DEF ReaderInv
<1>2. reader.pc = "header" /\ Known(builds, Len(file), entry) /\ FileOfBuilds
  BY DEF ReadHeader, ReaderInv, KeepsTo
<1>3. CASE Stop("refused")
  BY <1>3, GoKeeps DEF Stop
<1>4. CASE /\ Agrees(entry, header)
           /\ reader' = [reader EXCEPT !.pc = "data", !.units = << >>, !.aligned = aligned]
           /\ UNCHANGED << builds, file, destination >>
  <2>2. entry.csize \in Nat /\ entry.offset \in 1 .. Len(file)
    <3>1. Len(file) \in Nat
      BY <1>2, CellsOfFile
    <3>2. entry.csize \in Nat /\ entry.offset \in Nat \ {0} /\ entry.offset + entry.csize <= Len(file)
      BY <1>2, KnownIs
    <3> QED
      BY <3>1, <3>2
  <2>3. header.k = "local" /\ header.crc = entry.crc
    BY <1>4, Zenon DEF Agrees
  <2>4. PICK b \in 1 .. 2 : CellOf(builds[b], Len(file), header)
    BY <1>2, <2>2, CellsOfFile, Zenon
  <2>5. PICK e \in Range(builds[b].entries) : header = Local(e, builds[b].wide)
    BY <2>3, <2>4, Zenon DEF CellOf
  <2>6. e \in Entries /\ builds[b].wide \in BOOLEAN
    BY <1>2, OfBuilds, EntriesOfBuild DEF FileOfBuilds
  <2>7. header.aligned = e.aligned /\ header.crc = (IF e.aligned THEN None ELSE e.content)
    BY <2>5, <2>6, LocalIs
  <2>8. aligned \in BOOLEAN /\ (aligned => entry.crc = None)
    BY <2>3, <2>7 DEF Advisory
  <2> HIDE DEF aligned, entry, header
  <2>9. << >> \in Seq(UnitsRead) /\ Len(<< >>) = 0
    BY EmptySeq
  <2>10. reader' \in Readers(R)
    BY <1>1, <1>4, <2>8, <2>9 DEF Readers, Labels
  <2>11. /\ reader'.pc = "data" /\ reader'.candidates = reader.candidates
         /\ reader'.entries = reader.entries /\ reader'.entry = entry
         /\ reader'.units = << >> /\ reader'.aligned = aligned
    BY <1>1, <1>4 DEF Readers, entry
  <2>12. KeepsTo(builds, Len(file), reader')
    <3>1. Len(reader'.units) <= reader'.entry.csize
      BY <2>2, <2>9, <2>11
    <3> QED
      BY <1>2, <2>8, <2>11, <3>1 DEF ReaderInv, KeepsTo
  <2> QED
    BY <1>4, <2>10, <2>12, ReaderSteps
<1> QED
  BY <1>3, <1>4, Zenon DEF ReadHeader

LEMMA ReadUnitKeeps ==
  ASSUME ArchiveAssumption, ReaderInv, ReadUnit
  PROVE  ReaderInv'
<1> DEFINE entry == reader.entry
           cell == file[entry.offset + 1 + Len(reader.units)]
           unit == IF cell.k = "data" THEN cell ELSE Unit(<< Garbage >>, FALSE, FALSE)
<1>1. PICK R : reader \in Readers(R)
  BY DEF ReaderInv
<1>2. reader.pc = "data" /\ Known(builds, Len(file), entry) /\ FileOfBuilds
      /\ Len(reader.units) < entry.csize
  BY DEF ReadUnit, ReaderInv, KeepsTo
<1>3. reader.units \in Seq(UnitsRead) /\ Len(reader.units) \in Nat
  BY <1>1, LenProperties DEF Readers
<1>4. Len(file) \in Nat /\ entry.csize \in Nat /\ entry.offset \in Nat \ {0}
      /\ entry.offset + entry.csize <= Len(file)
  BY <1>2, CellsOfFile, KnownIs
<1> DEFINE here == entry.offset + 1 + Len(reader.units)
<1>5. here \in 1 .. Len(file)
  BY <1>2, <1>3, <1>4
<1> HIDE DEF here
<1>6. unit \in UnitsRead
  <2>1. PICK b \in 1 .. 2 : CellOf(builds[b], Len(file), file[here])
    BY <1>2, <1>5, CellsOfFile, Zenon
  <2>2. cell.k = "data" => cell \in UnitsOf
    BY <2>1, Zenon DEF CellOf, here
  <2> QED
    BY <2>2, Zenon DEF UnitsRead
<1>7. reader' = [reader EXCEPT !.units = Append(reader.units, unit)]
      /\ UNCHANGED << builds, file, destination >>
  BY Zenon DEF ReadUnit
<1> DEFINE units == Append(reader.units, unit)
<1> HIDE DEF unit
<1>8. units \in Seq(UnitsRead) /\ Len(units) = Len(reader.units) + 1
  BY <1>3, <1>6, AppendProperties
<1> HIDE DEF units
<1>9. reader' = [reader EXCEPT !.units = units]
  BY <1>7 DEF units
<1>10. reader' \in Readers(R)
  BY <1>1, <1>8, <1>9 DEF Readers
<1>11. /\ reader'.pc = "data" /\ reader'.candidates = reader.candidates
       /\ reader'.entries = reader.entries /\ reader'.entry = entry
       /\ reader'.units = units /\ reader'.aligned = reader.aligned
  BY <1>1, <1>2, <1>9 DEF Readers
<1>12. Len(units) <= entry.csize
  BY <1>2, <1>3, <1>4, <1>8
<1>13. KeepsTo(builds, Len(file), reader')
  BY <1>2, <1>11, <1>12 DEF ReaderInv, KeepsTo
<1> QED
  BY <1>7, <1>10, <1>13, ReaderSteps

\* A whole entry was read.
Delivered(got) == [reader EXCEPT !.pc = "next", !.read = Append(@, got)]

LEMMA WaysOfFinish ==
  ASSUME Finish
  PROVE  LET entry == reader.entry
             content == Decoded(entry, reader.units)
             got == [of |-> entry.name.of, content |-> content]
         IN  /\ reader.pc = "data" /\ Len(reader.units) = entry.csize
             /\ \/ content = None /\ Stop("refused")
                \/ /\ \/ Len(content) # entry.fsize
                      \/ content # entry.crc /\ ~ reader.aligned
                   /\ Stop("refused")
                \/ /\ content # None /\ Len(content) = entry.fsize
                   /\ content = entry.crc \/ reader.aligned
                   /\ reader' = Delivered(got)
                   /\ destination' = IF got.of = "datacore"
                                     THEN [holds |-> content, partial |-> FALSE] ELSE destination
                   /\ UNCHANGED << builds, file >>
BY Zenon DEF Finish, Delivered

LEMMA FinishKeeps ==
  ASSUME ArchiveAssumption, ReaderInv, Finish
  PROVE  ReaderInv'
<1>1. PICK R : reader \in Readers(R)
  BY DEF ReaderInv
<1>2. CASE Stop("refused")
  BY <1>2, GoKeeps DEF Stop
<1>3. ASSUME NEW got, reader' = Delivered(got), UNCHANGED << builds, file >>
      PROVE  ReaderInv'
  <2> DEFINE read == Append(reader.read, got)
  <2>1. reader.read \in Seq(R \union {got})
    <3>1. reader.read \in Seq(R) /\ R \subseteq R \union {got}
      BY <1>1 DEF Readers
    <3> QED
      BY <3>1, SeqMonotonic
  <2>2. read \in Seq(R \union {got})
    BY <2>1, AppendProperties
  <2> HIDE DEF read
  <2>3. reader' = [reader EXCEPT !.pc = "next", !.read = read]
    BY <1>3 DEF Delivered, read
  <2>4. reader' \in Readers(R \union {got})
    BY <1>1, <2>2, <2>3 DEF Readers, Labels
  <2>5. /\ reader'.pc = "next" /\ reader'.candidates = reader.candidates
        /\ reader'.entries = reader.entries
    BY <1>1, <2>3 DEF Readers
  <2>6. KeepsTo(builds, Len(file), reader')
    BY <2>5 DEF ReaderInv, KeepsTo
  <2> QED
    BY <1>3, <2>4, <2>6, ReaderSteps
<1> QED
  BY <1>2, <1>3, WaysOfFinish, Zenon

LEMMA ReaderInvStep ==
  ASSUME ArchiveAssumption, ReaderInv, [ArchiveNext]_archiveVars
  PROVE  ReaderInv'
<1>1. CASE Cancel
  BY <1>1, GoKeeps DEF Cancel, Stop
<1>2. CASE UNCHANGED archiveVars
  BY <1>2 DEF archiveVars, ReaderInv, FileOfBuilds, Cells
<1> QED
  BY <1>1, <1>2, PatchKeeps, FindEndKeeps, ReadLocatorKeeps, ReadEnd64Keeps, WalkKeeps,
     SearchKeeps, ExamineKeeps, ReadNextKeeps, ReadHeaderKeeps, ReadUnitKeeps, FinishKeeps
     DEF ArchiveNext

-----------------------------------------------------------------------------
(* What was read, and the destination.                                     *)

ReadOf(bs, got) ==
  \E b \in 1 .. 2 : \E e \in Range(bs[b].entries) :
    /\ e.name.of = got.of
    /\ got.content = e.content \/ (e.aligned /\ Len(got.content) = Len(e.content))

ReadsInv ==
  /\ \A i \in DOMAIN reader.read : ReadOf(builds, reader.read[i])
  /\ DestinationIsWhole
  /\ destination.partial => reader.pc \in {"header", "data"} /\ reader.entry.name.of = "datacore"
  /\ \E H : destination \in [holds : H, partial : BOOLEAN]

LEMMA ReadsInvInit == ArchiveInit => ReadsInv
<1> SUFFICES ASSUME ArchiveInit
             PROVE  ReadsInv
  OBVIOUS
<1>1. destination = [holds |-> Kept, partial |-> FALSE]
  BY DEF ArchiveInit
<1>2. reader.read = << >>
  BY DEF ArchiveInit
<1>3. destination \in [holds : {Kept}, partial : BOOLEAN]
  BY <1>1
<1>4. DestinationIsWhole
  BY <1>1 DEF DestinationIsWhole
<1>5. \A i \in DOMAIN reader.read : ReadOf(builds, reader.read[i])
  BY <1>2
<1> QED
  BY <1>1, <1>3, <1>4, <1>5 DEF ReadsInv

\* A step that reads no entry to its end and begins none.
LEMMA NothingRead ==
  ASSUME ReaderInv, ReadsInv, builds' = builds, reader'.read = reader.read,
         destination' = destination,
         ~ destination.partial \/ (reader'.pc \in {"header", "data"} /\ reader'.entry = reader.entry)
  PROVE  ReadsInv'
<1>1. destination.partial => Running(reader')
  BY DEF Running
<1>2. DestinationIsWhole'
  BY <1>1 DEF ReadsInv, DestinationIsWhole, Running
<1> QED
  BY <1>2 DEF ReadsInv

LEMMA StopReads ==
  ASSUME ReaderInv, ReadsInv, NEW why, Stop(why)
  PROVE  ReadsInv'
<1>1. PICK R : reader \in Readers(R)
  BY DEF ReaderInv
<1>2. PICK H : destination \in [holds : H, partial : BOOLEAN]
  BY DEF ReadsInv
<1>3. reader'.read = reader.read /\ builds' = builds
  BY <1>1 DEF Stop, Readers
<1>4. destination' \in [holds : H, partial : BOOLEAN] /\ destination'.holds = destination.holds
      /\ destination'.partial = FALSE
  BY <1>2 DEF Stop
<1>5. DestinationIsWhole'
  BY <1>3, <1>4 DEF ReadsInv, DestinationIsWhole
<1> QED
  BY <1>3, <1>4, <1>5 DEF ReadsInv

LEMMA AdmitReads ==
  ASSUME ReaderInv, ReadsInv, NEW record, NEW R, NEW rest \in Readers(R),
         rest.read = reader.read, ~ destination.partial, Admit(record, rest)
  PROVE  ReadsInv'
<1>1. CASE Stop("refused")
  BY <1>1, StopReads
<1>2. CASE reader' = rest /\ UNCHANGED << builds, file, destination >>
  BY <1>2, NothingRead
<1>3. CASE /\ reader' = [rest EXCEPT !.entries = @ \union {Widened(record)}]
           /\ UNCHANGED << builds, file, destination >>
  <2>1. reader'.read = reader.read
    BY <1>3 DEF Readers
  <2> QED
    BY <1>3, <2>1, NothingRead
<1> QED
  BY <1>1, <1>2, <1>3, Zenon DEF Admit

LEMMA LocateReads ==
  ASSUME ReaderInv, ReadsInv, ~ destination.partial, NEW record, Locate(record)
  PROVE  ReadsInv'
<1>1. PICK R : reader \in Readers(R)
  BY DEF ReaderInv
<1>2. CASE Stop("refused")
  BY <1>2, StopReads
<1>3. CASE /\ reader' = [reader EXCEPT !.directory = record, !.at = 0,
                           !.pc = IF record.count = 0 THEN "next"
                                  ELSE IF reader.exact THEN "search" ELSE "walk"]
           /\ UNCHANGED << builds, file, destination >>
  <2>1. reader'.read = reader.read
    BY <1>1, <1>3 DEF Readers
  <2> QED
    BY <1>3, <2>1, NothingRead
<1> QED
  BY <1>2, <1>3, Zenon DEF Locate

LEMMA OpeningReads ==
  ASSUME ReaderInv, ReadsInv, FindEnd \/ ReadLocator \/ ReadEnd64 \/ Walk \/ Search \/ Examine
  PROVE  ReadsInv'
<1>1. PICK R : reader \in Readers(R)
  BY DEF ReaderInv
<1>2. ~ destination.partial
  BY DEF FindEnd, ReadLocator, ReadEnd64, Walk, Search, Examine, ReadsInv
<1>3. CASE FindEnd
  <2> DEFINE ends == {i \in DOMAIN file : file[i].k = "end"}
             last == Max(ends)
             moved == [reader EXCEPT !.pc = "locator", !.at = last - 1]
  <2>1. \/ Stop("refused") \/ Locate(file[last])
        \/ reader' = moved /\ UNCHANGED << builds, file, destination >>
    BY <1>3, Zenon DEF FindEnd
  <2> HIDE DEF last
  <2>2. moved.read = reader.read
    BY <1>1 DEF Readers
  <2> HIDE DEF moved
  <2> QED
    BY <1>2, <2>1, <2>2, StopReads, LocateReads, NothingRead
<1>4. CASE ReadLocator
  <2> DEFINE moved == [reader EXCEPT !.pc = "end64", !.at = file[reader.at].at]
  <2>1. \/ Stop("refused")
        \/ reader' = moved /\ UNCHANGED << builds, file, destination >>
    BY <1>4, Zenon DEF ReadLocator
  <2>2. moved.read = reader.read
    BY <1>1 DEF Readers
  <2> HIDE DEF moved
  <2> QED
    BY <1>2, <2>1, <2>2, StopReads, NothingRead
<1>5. CASE ReadEnd64
  <2>1. Stop("refused") \/ Locate(file[reader.at])
    BY <1>5, Zenon DEF ReadEnd64
  <2> QED
    BY <1>2, <2>1, StopReads, LocateReads
<1>6. CASE Walk
  <2> DEFINE here == reader.directory.offset + reader.at
             pc == IF reader.at + 1 = reader.directory.count THEN "next" ELSE reader.pc
             rest == [reader EXCEPT !.at = @ + 1, !.pc = pc]
  <2>1. Stop("refused") \/ Admit(file[here], rest)
    BY <1>6, Zenon DEF Walk
  <2>2. rest \in Readers(R)
    <3>1. reader.at + 1 \in Nat /\ pc \in Labels
      BY <1>1 DEF Readers, Labels
    <3> HIDE DEF pc
    <3> QED
      BY <3>1, <1>1 DEF Readers
  <2> HIDE DEF pc, here
  <2>3. rest.read = reader.read
    BY <1>1 DEF Readers
  <2> HIDE DEF rest
  <2> QED
    BY <1>2, <2>1, <2>2, <2>3, StopReads, AdmitReads
<1>7. CASE Search
  <2>1. reader'.read = reader.read /\ UNCHANGED << builds, file, destination >>
    BY <1>1, <1>7 DEF Search, Readers
  <2> QED
    BY <1>2, <2>1, NothingRead
<1>8. CASE Examine
  <2> DEFINE first == First(reader.candidates)
             rest == [reader EXCEPT !.candidates = @ \ {first}]
  <2>1. \/ Go("next") \/ Admit(file[first[1]], rest)
        \/ reader' = rest /\ UNCHANGED << builds, file, destination >>
    BY <1>8, Zenon DEF Examine, First
  <2> HIDE DEF first
  <2>2. rest \in Readers(R) /\ rest.read = reader.read
    BY <1>1 DEF Readers
  <2> HIDE DEF rest
  <2>3. CASE Go("next")
    <3>1. reader'.read = reader.read /\ UNCHANGED << builds, file, destination >>
      BY <1>1, <2>3 DEF Go, Readers
    <3> QED
      BY <1>2, <3>1, NothingRead
  <2> QED
    BY <1>2, <2>1, <2>2, <2>3, AdmitReads, NothingRead
<1> QED
  BY <1>3, <1>4, <1>5, <1>6, <1>7, <1>8

LEMMA ReadNextReads ==
  ASSUME ReaderInv, ReadsInv, ReadNext
  PROVE  ReadsInv'
<1>1. PICK R : reader \in Readers(R)
  BY DEF ReaderInv
<1>2. reader.wants # << >> => Head(reader.wants) \in Wants /\ Tail(reader.wants) \in Seq(Wants)
  BY <1>1, HeadAndTail
<1>3. ~ destination.partial
  BY DEF ReadNext, ReadsInv
<1>4. CASE Go("done")
  <2>1. reader'.read = reader.read /\ UNCHANGED << builds, file, destination >>
    BY <1>1, <1>4 DEF Go, Readers
  <2> QED
    BY <1>3, <2>1, NothingRead
<1>5. CASE Stop("refused") \/ Stop("missing")
  BY <1>5, StopReads
<1>6. CASE /\ reader.wants # << >> /\ reader' = Skipped
           /\ UNCHANGED << builds, file, destination >>
  <2>1. reader'.read = reader.read
    BY <1>1, <1>6 DEF Skipped, Readers
  <2> QED
    BY <1>3, <1>6, <2>1, NothingRead
<1>7. CASE /\ reader.wants # << >> /\ Matches # {}
           /\ reader' = [Skipped EXCEPT !.entry = CHOOSE e \in Matches : TRUE, !.pc = "header"]
           /\ destination' = [destination EXCEPT !.partial = (Head(reader.wants) = "datacore")]
           /\ UNCHANGED << builds, file >>
  <2> DEFINE entry == CHOOSE e \in Matches : TRUE
             want == Head(reader.wants)
  <2>1. entry.name.of = want
    <3>1. entry \in Matches
      BY <1>7, Zenon
    <3> QED
      BY <3>1, Zenon DEF Matches
  <2> HIDE DEF entry
  <2>2. reader' = [Skipped EXCEPT !.entry = entry, !.pc = "header"]
    BY <1>7 DEF entry
  <2>3. reader'.read = reader.read /\ reader'.pc = "header" /\ reader'.entry = entry
    BY <1>1, <2>2 DEF Skipped, Readers
  <2>4. PICK H : destination \in [holds : H, partial : BOOLEAN]
    BY DEF ReadsInv
  <2>5. /\ destination' \in [holds : H, partial : BOOLEAN] /\ destination'.holds = destination.holds
        /\ destination'.partial = (want = "datacore")
    BY <1>7, <2>4
  <2>6. DestinationIsWhole'
    BY <2>3, <2>5 DEF ReadsInv, DestinationIsWhole, Running
  <2> QED
    BY <1>7, <2>1, <2>3, <2>5, <2>6 DEF ReadsInv
<1> QED
  BY <1>2, <1>4, <1>5, <1>6, <1>7, WaysOfReadNext, Zenon

LEMMA DataReads ==
  ASSUME ReaderInv, ReadsInv, ReadHeader \/ ReadUnit
  PROVE  ReadsInv'
<1>1. PICK R : reader \in Readers(R)
  BY DEF ReaderInv
<1>2. CASE ReadHeader
  <2> DEFINE aligned == Advisory(reader.entry, file[reader.entry.offset])
             moved == [reader EXCEPT !.pc = "data", !.units = << >>, !.aligned = aligned]
  <2>1. \/ Stop("refused")
        \/ reader' = moved /\ UNCHANGED << builds, file, destination >>
    BY <1>2, Zenon DEF ReadHeader
  <2> HIDE DEF aligned
  <2>2. moved.read = reader.read /\ moved.pc = "data" /\ moved.entry = reader.entry
    BY <1>1 DEF Readers
  <2> HIDE DEF moved
  <2> QED
    BY <2>1, <2>2, StopReads, NothingRead
<1>3. CASE ReadUnit
  <2> DEFINE cell == file[reader.entry.offset + 1 + Len(reader.units)]
             units == Append(reader.units, IF cell.k = "data" THEN cell
                                           ELSE Unit(<< Garbage >>, FALSE, FALSE))
  <2>1. reader.pc = "data" /\ reader' = [reader EXCEPT !.units = units]
        /\ UNCHANGED << builds, file, destination >>
    BY <1>3, Zenon DEF ReadUnit
  <2> HIDE DEF units
  <2>2. reader'.read = reader.read /\ reader'.pc = "data" /\ reader'.entry = reader.entry
    BY <1>1, <2>1 DEF Readers
  <2> QED
    BY <2>1, <2>2, NothingRead
<1> QED
  BY <1>2, <1>3

LEMMA FinishReads ==
  ASSUME ArchiveAssumption, ReaderInv, ReadsInv, Finish
  PROVE  ReadsInv'
<1> DEFINE entry == reader.entry
           content == Decoded(entry, reader.units)
           got == [of |-> entry.name.of, content |-> content]
<1>1. PICK R : reader \in Readers(R)
  BY DEF ReaderInv
<1>2. CASE Stop("refused")
  BY <1>2, StopReads
<1>3. CASE /\ reader.pc = "data"
           /\ content # None /\ Len(content) = entry.fsize
           /\ content = entry.crc \/ reader.aligned
           /\ reader' = Delivered(got)
           /\ destination' = IF got.of = "datacore"
                             THEN [holds |-> content, partial |-> FALSE] ELSE destination
           /\ UNCHANGED << builds, file >>
  <2>1. FileOfBuilds /\ Known(builds, Len(file), entry) /\ (reader.aligned => entry.crc = None)
    BY <1>3 DEF ReaderInv, KeepsTo
  <2>2. PICK b \in 1 .. 2 : \E e \in Range(builds[b].entries) :
          /\ e \in Entries /\ entry.name = e.name /\ entry.fsize = Len(e.content)
          /\ entry.crc = (IF e.aligned THEN None ELSE e.content)
    BY <2>1, KnownIs, Zenon
  <2>3. PICK e \in Range(builds[b].entries) :
          /\ e \in Entries /\ entry.name = e.name /\ entry.fsize = Len(e.content)
          /\ entry.crc = (IF e.aligned THEN None ELSE e.content)
    BY <2>2
  <2>4. e.content # None
    BY <2>3 DEF Entries, ArchiveAssumption
  <2> HIDE DEF content, entry
  <2>5. got.of = entry.name.of /\ got.content = content
    OBVIOUS
  <2>6. ReadOf(builds, got)
    BY <1>3, <2>1, <2>3, <2>4, <2>5, Zenon DEF ReadOf
  <2> HIDE DEF got
  <2> DEFINE n == Len(reader.read)
             read == Append(reader.read, got)
  <2>7. /\ reader.read \in Seq(R \union {got}) /\ n \in Nat /\ DOMAIN reader.read = 1 .. n
    <3>1. reader.read \in Seq(R)
      BY <1>1 DEF Readers
    <3> QED
      BY <3>1, SeqMonotonic, LenProperties
  <2>8. /\ DOMAIN read = 1 .. (n + 1) /\ read[n + 1] = got
        /\ \A i \in 1 .. n : read[i] = reader.read[i]
    <3>1. /\ read \in Seq(R \union {got}) /\ Len(read) = n + 1 /\ read[n + 1] = got
          /\ \A i \in 1 .. n : read[i] = reader.read[i]
      BY <2>7, AppendProperties
    <3> HIDE DEF read
    <3> QED
      BY <3>1, LenProperties
  <2> HIDE DEF read
  <2>9. reader' = [reader EXCEPT !.pc = "next", !.read = read]
    BY <1>3 DEF Delivered, read
  <2>10. reader'.read = read /\ reader'.pc = "next"
    BY <1>1, <2>9 DEF Readers
  <2>11. \A i \in DOMAIN reader'.read : ReadOf(builds', reader'.read[i])
    <3> SUFFICES ASSUME NEW i \in 1 .. (n + 1)
                 PROVE  ReadOf(builds, read[i])
      BY <1>3, <2>8, <2>10
    <3>1. CASE i = n + 1
      BY <2>6, <2>8, <3>1
    <3>2. CASE i \in 1 .. n
      BY <2>7, <2>8, <3>2 DEF ReadsInv
    <3> QED
      BY <2>7, <3>1, <3>2
  <2>12. /\ got \in Range(read) /\ Range(reader.read) \subseteq Range(read)
    <3>1. n + 1 \in 1 .. (n + 1) /\ \A i \in 1 .. n : i \in 1 .. (n + 1)
      BY <2>7
    <3> QED
      BY <2>7, <2>8, <3>1, Zenon DEF Range
  <2>13. CASE got.of = "datacore"
    <3>1. got = [of |-> "datacore", content |-> content]
      BY <2>13 DEF got
    <3>2. destination' = [holds |-> content, partial |-> FALSE]
      BY <1>3, <2>13
    <3>3. destination' \in [holds : {content}, partial : BOOLEAN]
          /\ destination'.holds = content /\ destination'.partial = FALSE
      BY <3>2
    <3>4. DestinationIsWhole'
      BY <2>10, <2>12, <3>1, <3>3 DEF DestinationIsWhole
    <3> QED
      BY <2>11, <3>3, <3>4 DEF ReadsInv
  <2>14. CASE got.of # "datacore"
    <3>1. destination' = destination /\ ~ destination.partial
      BY <1>3, <2>5, <2>14 DEF ReadsInv, entry
    <3>2. DestinationIsWhole'
      BY <2>10, <2>12, <3>1 DEF ReadsInv, DestinationIsWhole
    <3> QED
      BY <2>11, <3>1, <3>2 DEF ReadsInv
  <2> QED
    BY <2>13, <2>14
<1> QED
  BY <1>2, <1>3, WaysOfFinish, Zenon

LEMMA ReadsInvStep ==
  ASSUME ArchiveAssumption, ReaderInv, ReadsInv, [ArchiveNext]_archiveVars
  PROVE  ReadsInv'
<1>1. CASE Cancel
  BY <1>1, StopReads DEF Cancel
<1>2. CASE Patch
  BY <1>2 DEF Patch, ReadsInv, DestinationIsWhole
<1>3. CASE UNCHANGED archiveVars
  BY <1>3 DEF archiveVars, ReadsInv, DestinationIsWhole
<1> QED
  BY <1>1, <1>2, <1>3, OpeningReads, ReadNextReads, DataReads, FinishReads DEF ArchiveNext

LEMMA ReadsInvProperties ==
  ASSUME ReadsInv
  PROVE  ReadsOneBuild /\ DestinationIsWhole
<1> SUFFICES ASSUME NEW i \in DOMAIN reader.read
             PROVE  \E e \in EntriesOf(reader.read[i].of) :
                      \/ reader.read[i].content = e.content
                      \/ e.aligned /\ Len(reader.read[i].content) = Len(e.content)
  BY Zenon DEF ReadsInv, ReadsOneBuild
<1>1. PICK b \in 1 .. 2 : \E e \in Range(builds[b].entries) :
        /\ e.name.of = reader.read[i].of
        /\ \/ reader.read[i].content = e.content
           \/ e.aligned /\ Len(reader.read[i].content) = Len(e.content)
  BY Zenon DEF ReadsInv, ReadOf
<1> QED
  BY <1>1, Zenon DEF EntriesOf

-----------------------------------------------------------------------------
(* The units of an entry decode to what it holds.                          *)

Stores(e) == e.method = "store"

LEMMA EncodedIs ==
  ASSUME NEW e \in Entries
  PROVE  LET n == Len(e.content)
             E == Encoded(e)
             last == Len(E)
         IN  /\ E \in Seq(UnitsOf) /\ last \in Nat /\ DOMAIN E = 1 .. last
             /\ last = (IF Stores(e) THEN n ELSE IF n > 1 THEN n - 1 ELSE 1)
             /\ \A i \in 1 .. last :
                  /\ E[i] = IF Stores(e) \/ i < last THEN Unit(<< e.content[i] >>, FALSE, FALSE)
                            ELSE Unit(SubSeq(e.content, i, n), TRUE, e.endsInZero)
<1> DEFINE n == Len(e.content)
           last == IF n > 1 THEN n - 1 ELSE 1
<1>1. Encoded(e) \in Seq(UnitsOf) /\ n \in Nat /\ last \in Nat
  <2>1. e.content \in Seq(Values)
    BY DEF Entries
  <2> QED
    BY <2>1, EncodedTyped, LenProperties
<1>2. CASE Stores(e)
  <2>1. Encoded(e) = [i \in 1 .. n |-> Unit(<< e.content[i] >>, FALSE, FALSE)]
    BY <1>2, Zenon DEF Encoded, Stores
  <2>2. Len(Encoded(e)) = n /\ DOMAIN Encoded(e) = 1 .. n
    <3>1. DOMAIN Encoded(e) = 1 .. n
      BY <2>1, Zenon
    <3> QED
      BY <3>1, <1>1, LenProperties
  <2> QED
    BY <1>1, <1>2, <2>1, <2>2, Zenon
<1>3. CASE ~ Stores(e)
  <2>1. Encoded(e) = [i \in 1 .. last |->
                        IF i < last THEN Unit(<< e.content[i] >>, FALSE, FALSE)
                        ELSE Unit(SubSeq(e.content, i, n), TRUE, e.endsInZero)]
    BY <1>3, Zenon DEF Encoded, Stores
  <2>2. Len(Encoded(e)) = last /\ DOMAIN Encoded(e) = 1 .. last
    <3>1. DOMAIN Encoded(e) = 1 .. last
      BY <2>1, Zenon
    <3> HIDE DEF last
    <3> QED
      BY <3>1, <1>1, LenProperties
  <2> QED
    BY <1>1, <1>3, <2>1, <2>2, Zenon
<1> QED
  BY <1>2, <1>3

LEMMA UnitIs ==
  ASSUME NEW out, NEW last, NEW zero
  PROVE  /\ Unit(out, last, zero).out = out /\ Unit(out, last, zero).last = last
         /\ Unit(out, last, zero).zero = zero /\ Unit(out, last, zero).k = "data"
BY DEF Unit

LEMMA OutsOfEncoded ==
  ASSUME NEW e \in Entries
  PROVE  Outs(Encoded(e)) = e.content
<1> DEFINE n == Len(e.content)
           E == Encoded(e)
           last == Len(E)
           outs == [i \in DOMAIN E |-> E[i].out]
<1>1. e.content \in Seq(Values) /\ n \in Nat
  <2>1. e.content \in Seq(Values)
    BY DEF Entries
  <2> QED
    BY <2>1, LenProperties
<1>2. /\ E \in Seq(UnitsOf) /\ last \in Nat /\ DOMAIN E = 1 .. last
      /\ last = (IF Stores(e) THEN n ELSE IF n > 1 THEN n - 1 ELSE 1)
      /\ \A i \in 1 .. last :
           /\ E[i] = IF Stores(e) \/ i < last THEN Unit(<< e.content[i] >>, FALSE, FALSE)
                     ELSE Unit(SubSeq(e.content, i, n), TRUE, e.endsInZero)
  BY EncodedIs
<1> HIDE DEF E
<1>3. Outs(E) = FlattenSeq(outs)
  BY DEF Outs
<1>4. DOMAIN outs = 1 .. last /\ \A i \in 1 .. last : outs[i] = E[i].out
  BY <1>2, Zenon
<1>5. Len(outs) = last
  <2>1. outs \in [1 .. last -> {outs[i] : i \in 1 .. last}]
    <3>1. outs = [i \in 1 .. last |-> E[i].out]
      BY <1>2, Zenon
    <3> QED
      BY <3>1, Zenon
  <2> HIDE DEF outs, last
  <2> QED
    BY <2>1, <1>2, FunctionIsSeq, Zenon DEF last
<1>6. \A i \in 1 .. last :
        outs[i] = IF Stores(e) \/ i < last THEN << e.content[i] >> ELSE SubSeq(e.content, i, n)
  <2> TAKE i \in 1 .. last
  <2>1. outs[i] = E[i].out
    BY <1>4
  <2> DEFINE one == << e.content[i] >>
             more == SubSeq(e.content, i, n)
  <2>2. E[i] = IF Stores(e) \/ i < last THEN Unit(one, FALSE, FALSE)
               ELSE Unit(more, TRUE, e.endsInZero)
    BY <1>2, Zenon
  <2> HIDE DEF one, more, outs, last
  <2>3. CASE Stores(e) \/ i < last
    <3>1. E[i].out = one
      BY <2>2, <2>3 DEF Unit
    <3> QED
      BY <2>1, <2>3, <3>1, Zenon DEF one
  <2>4. CASE ~ (Stores(e) \/ i < last)
    <3>1. E[i].out = more
      BY <2>2, <2>4 DEF Unit
    <3> QED
      BY <2>1, <2>4, <3>1, Zenon DEF more
  <2> QED
    BY <2>3, <2>4
<1> HIDE DEF outs, last
<1>7. CASE last = 0
  <2>1. n = 0 /\ Stores(e)
    BY <1>1, <1>2, <1>7 DEF last
  <2>2. outs = << >> /\ e.content = << >>
    <3>1. outs = << >>
      <4>1. DOMAIN outs = {}
        BY <1>4, <1>7
      <4>2. outs = [i \in DOMAIN E |-> E[i].out]
        BY DEF outs
      <4> QED
        BY <4>1, <4>2
    <3>2. e.content = << >>
      BY <2>1, <1>1, EmptySeq
    <3> QED
      BY <3>1, <3>2
  <2>3. FlattenSeq(<< >>) = << >>
    BY DEF FlattenSeq
  <2> QED
    BY <1>3, <2>2, <2>3 DEF E
<1>8. CASE last # 0
  <2>1. last \in Nat \ {0} /\ (last <= n \/ (last = 1 /\ n = 0)) /\ (Stores(e) => last = n)
    BY <1>1, <1>2, <1>8 DEF last
  <2>2. ASSUME NEW i \in 1 .. last
        PROVE  outs[i] = IF i < last THEN << e.content[i] >> ELSE SubSeq(e.content, i, n)
    <3>1. CASE ~ Stores(e) \/ i < last
      BY <1>6, <3>1
    <3>2. CASE Stores(e) /\ ~ (i < last)
      <4>1. i = n /\ n \in 1 .. Len(e.content)
        BY <2>1, <1>1, <3>2
      <4>2. SubSeq(e.content, n, n) = << e.content[n] >>
        BY <4>1, <1>1, OnePiece
      <4> QED
        BY <1>6, <3>2, <4>1, <4>2, Zenon
    <3> QED
      BY <3>1, <3>2
  <2>3. FlattenSeq(outs) = e.content
    BY <2>1, <2>2, <1>1, <1>5, Pieces
  <2> QED
    BY <1>3, <2>3 DEF E
<1> QED
  BY <1>7, <1>8

\* An encrypted entry is padded to whole blocks.
LEMMA UnitsAre ==
  ASSUME NEW e \in Entries
  PROVE  LET E == Encoded(e)
             U == Units(e)
         IN  \/ U = E /\ (e.encrypted => Len(E) % Block = 0)
             \/ /\ e.encrypted /\ U \in Seq(UnitsOf)
                /\ Len(E) \in Nat \ {0} /\ Len(U) = Len(E) + 1 /\ Len(U) % Block = 0
                /\ U[Len(E) + 1] = Padding /\ SubSeq(U, 1, Len(E)) = E
                /\ \A i \in 1 .. Len(E) : U[i] = E[i]
<1> DEFINE E == Encoded(e)
           U == Units(e)
<1>1. E \in Seq(UnitsOf) /\ Len(E) \in Nat
  BY EncodedIs
<1>2. CASE ~ (e.encrypted /\ Len(E) % Block # 0)
  BY <1>2 DEF Units
<1>3. CASE e.encrypted /\ Len(E) % Block # 0
  <2>1. U = Append(E, Padding)
    BY <1>3, Zenon DEF Units
  <2>2. Padding \in UnitsOf
    BY EmptySeq, UnitTyped DEF Padding
  <2> HIDE DEF E, U
  <2>3. /\ U \in Seq(UnitsOf) /\ Len(U) = Len(E) + 1 /\ U[Len(E) + 1] = Padding
        /\ \A i \in 1 .. Len(E) : U[i] = E[i]
    BY <1>1, <2>1, <2>2, AppendProperties
  <2>4. Len(E) \in Nat \ {0} /\ Len(U) % Block = 0
    <3> DEFINE n == Len(E)
    <3>1. n \in Nat /\ n % 2 # 0
      BY <1>1, <1>3 DEF Block
    <3> HIDE DEF n
    <3>2. n # 0 /\ (n + 1) % 2 = 0
      BY <3>1
    <3> QED
      BY <3>1, <3>2, <2>3 DEF Block, n
  <2>5. SubSeq(U, 1, Len(E)) = E
    <3>1. U = E \o << Padding >>
      BY <2>1, <2>2, <1>1, AppendIsConcat
    <3>2. << Padding >> \in Seq(UnitsOf)
      BY <2>2
    <3>3. 1 \in 1 .. Len(E) /\ Len(E) \in 1 .. Len(E)
      BY <2>4
    <3>4. SubSeq(E \o << Padding >>, 1, Len(E)) = SubSeq(E, 1, Len(E))
      BY <1>1, <3>2, <3>3, SubSeqOfConcat1
    <3> QED
      BY <1>1, <3>1, <3>4, SubSeqFull
  <2> QED
    BY <1>3, <2>3, <2>4, <2>5 DEF E, U
<1> QED
  BY <1>2, <1>3

LEMMA MinOfTwo ==
  ASSUME NEW a \in Nat, NEW b \in Nat, a <= b
  PROVE  Min({a, b}) = a
<1>1. Min({a, b}) \in {a, b} /\ \A y \in {a, b} : Min({a, b}) <= y
  <2> DEFINE S == {a, b}
  <2>1. S \in SUBSET Nat /\ S # {}
    OBVIOUS
  <2> HIDE DEF S
  <2>2. Min(S) \in S /\ \A y \in S : Min(S) <= y
    BY <2>1, MinFact
  <2> QED
    BY <2>2 DEF S
<1> QED
  BY <1>1

\* What the record of an entry says.
Describes(r, e) ==
  /\ r.encrypted = e.encrypted /\ r.method = e.method /\ r.fsize = Len(e.content)

\* The last unit of a compressed stream looks like padding.
EndsLikePadding(e) == e.encrypted /\ e.endsInZero

\* A stored entry, with or without padding.
LEMMA StoredDecodes ==
  ASSUME NEW e \in Entries, e.method = "store", NEW r, r.encrypted = e.encrypted,
         r.method = e.method, r.fsize = Len(e.content)
  PROVE  Decoded(r, Units(e)) = e.content
<1> DEFINE n == Len(e.content)
           E == Encoded(e)
           U == Units(e)
           AllZero(us) == \A i \in DOMAIN us : us[i].zero
<1>1. E \in Seq(UnitsOf) /\ Len(E) = n /\ n \in Nat
  BY EncodedIs DEF Stores
<1>2. \/ U = E /\ (e.encrypted => Len(E) % Block = 0)
      \/ /\ e.encrypted /\ U \in Seq(UnitsOf)
         /\ Len(E) \in Nat \ {0} /\ Len(U) = Len(E) + 1 /\ Len(U) % Block = 0
         /\ U[Len(E) + 1] = Padding /\ SubSeq(U, 1, Len(E)) = E
         /\ \A i \in 1 .. Len(E) : U[i] = E[i]
  BY UnitsAre
<1>3. Outs(E) = e.content
  BY OutsOfEncoded
<1> HIDE DEF U, E
<1>4. /\ U \in Seq(UnitsOf) /\ Len(U) \in Nat /\ ~ (e.encrypted /\ Len(U) % Block # 0)
      /\ ~ (Len(U) - Len(U) >= Block) /\ n <= Len(U)
  <2>1. /\ U \in Seq(UnitsOf) /\ Len(U) \in Nat /\ ~ (e.encrypted /\ Len(U) % Block # 0)
        /\ n <= Len(U)
    BY <1>1, <1>2
  <2>2. ~ (Len(U) - Len(U) >= 2)
    BY <2>1
  <2> QED
    BY <2>1, <2>2 DEF Block
<1>5. SubSeq(U, 1, n) = E
  BY <1>1, <1>2, SubSeqFull
<1>6. AllZero(SubSeq(U, n + 1, Len(U)))
  <2>1. CASE Len(U) = n
    <3>1. SubSeq(U, n + 1, Len(U)) = << >>
      BY <1>1, <2>1, SubSeqEmpty
    <3>2. \A i \in DOMAIN << >> : FALSE
      OBVIOUS
    <3> QED
      BY <3>1, <3>2, Zenon
  <2>2. CASE Len(U) = n + 1 /\ U[n + 1] = Padding
    <3> DEFINE last == n + 1
    <3>1. last \in 1 .. Len(U)
      BY <1>1, <2>2
    <3> HIDE DEF last
    <3>2. SubSeq(U, last, last) = << U[last] >>
      BY <1>4, <3>1, OnePiece
    <3>3. Padding.zero
      BY DEF Padding, Unit
    <3>4. U[last] = Padding /\ SubSeq(U, n + 1, Len(U)) = << Padding >>
      BY <2>2, <3>2 DEF last
    <3>5. DOMAIN << Padding >> = {1} /\ << Padding >>[1] = Padding
      OBVIOUS
    <3>6. \A i \in DOMAIN << Padding >> : << Padding >>[i].zero
      BY <3>3, <3>5, Zenon
    <3> QED
      BY <3>4, <3>6, Zenon
  <2> QED
    BY <1>1, <1>2, <2>1, <2>2
<1>7. Min({n, Len(U)}) = n
  BY <1>1, <1>4, MinOfTwo
<1> DEFINE plain == IF r.encrypted /\ r.method # "store" THEN Stripped(U) ELSE U
<1>8. plain = U
  OBVIOUS
<1> HIDE DEF plain, AllZero
<1> DEFINE ends == {i \in DOMAIN plain : plain[i].last}
           stream == IF ends = {} THEN plain ELSE SubSeq(plain, 1, Min(ends))
           rest == SubSeq(plain, Len(stream) + 1, Len(plain))
           stored == IF ~ r.encrypted THEN Outs(U)
                     ELSE IF AllZero(SubSeq(U, r.fsize + 1, Len(U)))
                     THEN Outs(SubSeq(U, 1, Min({r.fsize, Len(U)}))) ELSE None
<1>9. stored = e.content
  <2>1. ~ e.encrypted => U = E
    BY <1>2
  <2> QED
    BY <1>3, <1>5, <1>6, <1>7, <2>1
<1>10. ~ (r.encrypted /\ Len(U) % Block # 0) /\ ~ (Len(U) - Len(plain) >= Block)
       /\ r.method = "store"
  BY <1>4, <1>8
<1>11. Decoded(r, U) = stored
  <2> DEFINE deflated == IF ends # {} /\ (rest = << >> \/ (r.encrypted /\ AllZero(rest)))
                         THEN Outs(stream) ELSE None
             refused == \/ r.encrypted /\ Len(U) % Block # 0
                        \/ Len(U) - Len(plain) >= Block
                        \/ r.method # "store" /\ \E i \in DOMAIN stream : stream[i].out = << Garbage >>
             one == CASE r.method = "store" -> stored
                      [] r.method = "deflate" -> deflated
                      [] r.method = "zstd" -> Outs(stream)
                      [] OTHER -> None
  <2>1. Decoded(r, U) = IF refused THEN None ELSE one
    BY Zenon DEF Decoded, plain, AllZero
  <2>2. ~ refused
    BY <1>10
  <2> HIDE DEF deflated, refused, stored, stream
  <2>3. one = stored
    BY <1>10
  <2> QED
    BY <2>1, <2>2, <2>3
<1> QED
  BY <1>9, <1>11 DEF U

\* What is left of units of which all after the last one that counts are zero.
LEMMA StrippedIs ==
  ASSUME NEW U, NEW m \in Nat, Len(U) = m, DOMAIN U = 1 .. m,
         NEW last \in Nat \ {0}, m \in {last, last + 1},
         ~ U[last].zero, m = last + 1 => U[m].zero
  PROVE  Stripped(U) = SubSeq(U, 1, last)
<1> DEFINE Counts(i) == ~ U[i].zero
           S == {0} \union {i \in 1 .. m : Counts(i)}
<1>1. Stripped(U) = SubSeq(U, 1, Max(S))
  BY DEF Stripped
<1>2. Counts(last) /\ (m = last + 1 => ~ Counts(m))
  OBVIOUS
<1> HIDE DEF Counts
<1>3. S \in SUBSET (0 .. m) /\ S # {} /\ last \in S
  BY <1>2
<1>4. \A i \in S : i <= last
  BY <1>2
<1> HIDE DEF S
<1>5. Max(S) \in S /\ \A y \in S : Max(S) >= y
  BY <1>3, MaxFact
<1>6. Max(S) \in 0 .. m
  BY <1>3, <1>5
<1>7. Max(S) = last
  BY <1>3, <1>4, <1>5, <1>6
<1> QED
  BY <1>1, <1>7

Compressed(e) == e.method \in {"deflate", "zstd"}

NoGarbage == Garbage \notin Values

\* A compressed entry: the padding is stripped, and the stream is all there is.
LEMMA CompressedDecodes ==
  ASSUME NoGarbage, NEW e \in Entries, Compressed(e), ~ EndsLikePadding(e),
         NEW r, Describes(r, e)
  PROVE  Decoded(r, Units(e)) = e.content
<1> DEFINE n == Len(e.content)
           E == Encoded(e)
           last == Len(E)
           U == Units(e)
           AllZero(us) == \A i \in DOMAIN us : us[i].zero
<1>1. /\ E \in Seq(UnitsOf) /\ last \in Nat \ {0} /\ DOMAIN E = 1 .. last
      /\ \A i \in 1 .. last :
           E[i] = IF i < last THEN Unit(<< e.content[i] >>, FALSE, FALSE)
                  ELSE Unit(SubSeq(e.content, i, n), TRUE, e.endsInZero)
  <2>1. /\ E \in Seq(UnitsOf) /\ last \in Nat /\ DOMAIN E = 1 .. last /\ n \in Nat
        /\ last = (IF Stores(e) THEN n ELSE IF n > 1 THEN n - 1 ELSE 1)
        /\ \A i \in 1 .. last :
             /\ E[i] = IF Stores(e) \/ i < last THEN Unit(<< e.content[i] >>, FALSE, FALSE)
                       ELSE Unit(SubSeq(e.content, i, n), TRUE, e.endsInZero)
    <3>1. n \in Nat
      BY DEF Entries
    <3> QED
      BY <3>1, EncodedIs
  <2>2. ~ Stores(e)
    BY DEF Stores, Compressed
  <2> HIDE DEF E, last
  <2>3. last \in Nat \ {0}
    <3>1. last = (IF n > 1 THEN n - 1 ELSE 1) /\ n \in Nat
      BY <2>1, <2>2, Zenon
    <3> HIDE DEF n
    <3> QED
      BY <3>1
  <2> QED
    BY <2>1, <2>2, <2>3, Zenon
<1>2. \/ U = E /\ (e.encrypted => last % Block = 0)
      \/ /\ e.encrypted /\ U \in Seq(UnitsOf)
         /\ last \in Nat \ {0} /\ Len(U) = last + 1 /\ Len(U) % Block = 0
         /\ U[last + 1] = Padding /\ SubSeq(U, 1, last) = E
         /\ \A i \in 1 .. last : U[i] = E[i]
  BY UnitsAre
<1>3. Outs(E) = e.content
  BY OutsOfEncoded
<1>4. e.content \in Seq(Values) /\ n \in Nat /\ e.endsInZero \in BOOLEAN /\ e.encrypted \in BOOLEAN
  BY DEF Entries
<1>a. last = Len(E)
  OBVIOUS
<1> HIDE DEF E, U, last
<1>c. last \in Nat \ {0} /\ last \in 1 .. last
  BY <1>1
<1>b. r.encrypted = e.encrypted /\ r.method = e.method
  BY DEF Describes
<1>5. \A i \in 1 .. last : E[i].last <=> i = last
  <2> TAKE i \in 1 .. last
  <2> DEFINE one == << e.content[i] >>
             more == SubSeq(e.content, i, n)
  <2>1. E[i] = IF i < last THEN Unit(one, FALSE, FALSE) ELSE Unit(more, TRUE, e.endsInZero)
    BY <1>1, Zenon
  <2> HIDE DEF one, more, last
  <2>2. CASE i < last
    BY <2>1, <2>2, <1>1 DEF Unit
  <2>3. CASE ~ (i < last)
    BY <2>1, <2>3, <1>1 DEF Unit
  <2> QED
    BY <2>2, <2>3
<1>6. e.encrypted => \A i \in 1 .. last : ~ E[i].zero
  <2> SUFFICES ASSUME e.encrypted, NEW i \in 1 .. last
               PROVE  ~ E[i].zero
    OBVIOUS
  <2> DEFINE one == << e.content[i] >>
             more == SubSeq(e.content, i, n)
  <2>1. E[i] = IF i < last THEN Unit(one, FALSE, FALSE) ELSE Unit(more, TRUE, e.endsInZero)
    BY <1>1, Zenon
  <2>2. ~ e.endsInZero
    BY DEF EndsLikePadding
  <2> HIDE DEF one, more, last
  <2>3. CASE i < last
    BY <2>1, <2>3 DEF Unit
  <2>4. CASE ~ (i < last)
    BY <2>1, <2>2, <2>4 DEF Unit
  <2> QED
    BY <2>3, <2>4
<1>7. /\ U \in Seq(UnitsOf) /\ Len(U) \in Nat /\ DOMAIN U = 1 .. Len(U)
      /\ ~ (e.encrypted /\ Len(U) % Block # 0) /\ Len(U) \in {last, last + 1}
      /\ SubSeq(U, 1, last) = E /\ (~ e.encrypted => U = E)
      /\ \A i \in 1 .. last : U[i] = E[i]
      /\ Len(U) = last + 1 => U[last + 1] = Padding
  <2>1. CASE U = E /\ (e.encrypted => last % Block = 0)
    <3>1. SubSeq(E, 1, last) = E
      BY <1>1, <1>a, SubSeqFull
    <3>2. last # last + 1 /\ last \in Nat
      BY <1>1
    <3>3. U = E /\ Len(U) = last /\ ~ (e.encrypted /\ last % Block # 0)
      BY <1>a, <2>1
    <3> QED
      BY <1>1, <3>1, <3>2, <3>3, Zenon
  <2>2. CASE /\ e.encrypted /\ U \in Seq(UnitsOf)
             /\ Len(U) = last + 1 /\ Len(U) % Block = 0
             /\ U[last + 1] = Padding /\ SubSeq(U, 1, last) = E
             /\ \A i \in 1 .. last : U[i] = E[i]
    <3>1. Len(U) \in Nat /\ DOMAIN U = 1 .. Len(U)
      BY <2>2, LenProperties
    <3> QED
      BY <2>2, <3>1, Zenon
  <2> QED
    BY <1>2, <2>1, <2>2
<1>d. Len(U) \in Nat /\ DOMAIN U = 1 .. Len(U) /\ Len(U) \in {last, last + 1}
  BY <1>7, Zenon
<1> DEFINE plain == IF r.encrypted /\ r.method # "store" THEN Stripped(U) ELSE U
           ends == {i \in DOMAIN plain : plain[i].last}
           stream == IF ends = {} THEN plain ELSE SubSeq(plain, 1, Min(ends))
           rest == SubSeq(plain, Len(stream) + 1, Len(plain))
           deflated == IF ends # {} /\ (rest = << >> \/ (r.encrypted /\ AllZero(rest)))
                       THEN Outs(stream) ELSE None
           stored == IF ~ r.encrypted THEN Outs(U)
                     ELSE IF AllZero(SubSeq(U, r.fsize + 1, Len(U)))
                     THEN Outs(SubSeq(U, 1, Min({r.fsize, Len(U)}))) ELSE None
           garbled == \E i \in DOMAIN stream : stream[i].out = << Garbage >>
           refused == \/ r.encrypted /\ Len(U) % Block # 0
                      \/ Len(U) - Len(plain) >= Block
                      \/ r.method # "store" /\ garbled
           one == CASE r.method = "store" -> stored
                    [] r.method = "deflate" -> deflated
                    [] r.method = "zstd" -> Outs(stream)
                    [] OTHER -> None
<1>8. plain = E
  <2>1. CASE ~ e.encrypted
    BY <1>b, <1>7, <2>1
  <2>2. CASE e.encrypted
    <3>1. ~ U[last].zero
      BY <1>c, <1>6, <1>7, <2>2, Zenon
    <3>2. Len(U) = last + 1 => U[Len(U)].zero
      <4>1. Padding.zero
        BY DEF Padding, Unit
      <4> QED
        BY <4>1, <1>7, Zenon
    <3>3. Stripped(U) = SubSeq(U, 1, last)
      <4> DEFINE m == Len(U)
      <4>1. m \in Nat /\ DOMAIN U = 1 .. m /\ m \in {last, last + 1} /\ Len(U) = m
            /\ (m = last + 1 => U[m].zero)
        BY <1>d, <3>2, Zenon
      <4> HIDE DEF m
      <4> QED
        BY <1>c, <3>1, <4>1, StrippedIs, Zenon
    <3>7. plain = Stripped(U)
      <4>1. r.encrypted /\ r.method # "store"
        BY <1>b, <2>2 DEF Compressed
      <4> QED
        BY <4>1
    <3> QED
      BY <3>3, <3>7, <1>7, Zenon
  <2> QED
    BY <1>4, <2>1, <2>2
<1> HIDE DEF plain
<1>9. ends = {last} /\ Min(ends) = last
  <2>1. ends = {last}
    <3>1. \A i : i \in ends <=> i \in 1 .. last /\ E[i].last
      BY <1>1, <1>8, Zenon
    <3>2. last \in 1 .. last
      BY <1>1
    <3> HIDE DEF ends
    <3>3. \A i : i \in ends <=> i = last
      BY <3>1, <3>2, <1>5, Zenon
    <3> QED
      BY <3>3
  <2>2. Min({last, last}) = last
    BY <1>1, MinOfTwo
  <2>3. {last, last} = {last}
    OBVIOUS
  <2> QED
    BY <2>1, <2>2, <2>3, Zenon
<1>10. stream = E
  <2>1. SubSeq(E, 1, last) = E
    BY <1>1, <1>a, SubSeqFull
  <2>2. ends # {}
    BY <1>9
  <2> HIDE DEF ends
  <2> QED
    BY <1>8, <1>9, <2>1, <2>2
<1>11. rest = << >> /\ ends # {}
  <2>1. SubSeq(E, last + 1, last) = << >>
    BY <1>1, SubSeqEmpty
  <2>2. rest = SubSeq(E, last + 1, last)
    BY <1>8, <1>10, <1>a
  <2> QED
    BY <1>9, <2>1, <2>2
<1> HIDE DEF stream, rest, ends
<1>12. ~ garbled
  <2>1. ASSUME NEW i \in 1 .. last, E[i].out = << Garbage >>
        PROVE  FALSE
    <3>1. E[i] \in UnitsOf
      BY <1>1, ElementOfSeq
    <3>2. E[i].out \in Seq(Values)
      BY <3>1 DEF UnitsOf
    <3> DEFINE out == E[i].out
    <3>3. out \in Seq(Values) /\ out = << Garbage >>
      BY <2>1, <3>2
    <3> HIDE DEF out
    <3>4. Len(out) = 1 /\ out[1] = Garbage
      BY <3>3
    <3>5. out[1] \in Values
      BY <3>3, <3>4
    <3> QED
      BY <3>4, <3>5 DEF NoGarbage
  <2> QED
    BY <1>1, <1>10, <2>1
<1>13. ~ refused
  <2>1. ~ (Len(U) - Len(plain) >= Block)
    <3>1. Len(plain) = last
      BY <1>8, <1>a
    <3>2. last \in Nat /\ Len(U) \in {last, last + 1}
      BY <1>c, <1>d, Zenon
    <3> QED
      BY <3>1, <3>2 DEF Block
  <2> QED
    BY <1>b, <1>7, <1>12, <2>1
<1>14. deflated = e.content /\ Outs(stream) = e.content
  BY <1>3, <1>10, <1>11
<1>15. one = e.content
  <2> HIDE DEF deflated, stored
  <2>1. r.method \in {"deflate", "zstd"}
    BY <1>b DEF Compressed
  <2> QED
    BY <1>14, <2>1
<1>16. Decoded(r, U) = IF refused THEN None ELSE one
  BY Zenon DEF Decoded, plain, AllZero, ends, stream, rest
<1> QED
  BY <1>13, <1>15, <1>16 DEF U

-----------------------------------------------------------------------------
(* An archive that nobody patches is read.                                 *)

\* Where the directory of a build starts, and where the headers of its entries are.
StartOf(build) == CHOOSE start : \E at : LaidOut(build, Layout(build), at, start)
PlaceOf(build) == CHOOSE at : LaidOut(build, Layout(build), at, StartOf(build))

Numbers(build) == 1 .. Len(build.entries)
Rec(build, m) == Stated(build.entries[m], PlaceOf(build)[m], build.wide)
Found(build, m) == << StartOf(build) + m - 1, build.entries[m].name >>

LEMMA LaidOutThere ==
  ASSUME NEW build \in Builds
  PROVE  LaidOut(build, Layout(build), PlaceOf(build), StartOf(build))
<1>1. \E start : \E at : LaidOut(build, Layout(build), at, start)
  BY LayoutIsLaidOut
<1>2. \E at : LaidOut(build, Layout(build), at, StartOf(build))
  BY <1>1, Zenon DEF StartOf
<1> QED
  BY <1>2, Zenon DEF PlaceOf

\* An entry of a build, its record and its cells.
LEMMA MemberOf ==
  ASSUME ArchiveAssumption, NEW build \in Builds, NEW m \in Numbers(build)
  PROVE  LET e == build.entries[m]
             start == StartOf(build)
             place == PlaceOf(build)[m]
             here == Layout(build)[start + m - 1]
             r == Rec(build, m)
         IN  /\ e \in Entries /\ e \in Range(build.entries)
             /\ place \in Nat \ {0} /\ place + Len(Units(e)) < start
             /\ Layout(build)[place] = Local(e, build.wide)
             /\ \A k \in 1 .. Len(Units(e)) : Layout(build)[place + k] = Units(e)[k]
             /\ here.k = "central" /\ here.name = e.name /\ Widened(here) = r
             /\ r \in FieldsOf /\ r.name = e.name /\ r.method = e.method
             /\ r.encrypted = e.encrypted /\ r.crc = (IF e.aligned THEN None ELSE e.content)
             /\ r.csize = Len(Units(e)) /\ r.fsize = Len(e.content) /\ r.offset = place
<1> DEFINE e == build.entries[m]
           start == StartOf(build)
           place == PlaceOf(build)[m]
           here == Layout(build)[start + m - 1]
<1>1. LaidOut(build, Layout(build), PlaceOf(build), start)
  BY LaidOutThere
<1>2. e \in Entries /\ e \in Range(build.entries) /\ build.wide \in BOOLEAN
  BY EntriesOfBuild DEF Numbers
<1>3. /\ place \in Nat \ {0} /\ place + Len(Units(e)) < start
      /\ Layout(build)[place] = Local(e, build.wide)
      /\ \A k \in 1 .. Len(Units(e)) : Layout(build)[place + k] = Units(e)[k]
      /\ here = Central(e, place, build.wide)
  <2>1. PlaceOf(build) \in [Numbers(build) -> Nat \ {0}]
    BY <1>1, Zenon DEF LaidOut, Numbers
  <2>2. place \in Nat \ {0}
    BY <2>1
  <2>3. /\ place + Len(Units(e)) < start
        /\ Layout(build)[place] = Local(e, build.wide)
        /\ \A k \in 1 .. Len(Units(e)) : Layout(build)[place + k] = Units(e)[k]
        /\ here = Central(e, place, build.wide)
    BY <1>1, Zenon DEF LaidOut, Numbers
  <2> QED
    BY <2>2, <2>3, Zenon
<1>4. Sentinel \notin Nat /\ place \in Nat
  BY <1>3 DEF ArchiveAssumption
<1> HIDE DEF e, place, here, start
<1>5. here.k = "central" /\ here.name = e.name /\ Widened(here) = Stated(e, place, build.wide)
  BY <1>2, <1>3, <1>4, WidenedIs, Zenon
<1>6. LET r == Stated(e, place, build.wide)
      IN  /\ r \in FieldsOf /\ r.name = e.name /\ r.method = e.method
          /\ r.encrypted = e.encrypted /\ r.crc = (IF e.aligned THEN None ELSE e.content)
          /\ r.csize = Len(Units(e)) /\ r.fsize = Len(e.content) /\ r.offset = place
  BY <1>2, <1>4, StatedTyped
<1>7. Rec(build, m) = Stated(e, place, build.wide)
  BY DEF Rec, e, place
<1> QED
  BY <1>2, <1>3, <1>5, <1>6, <1>7, Zenon DEF e, place, here, start

\* How the file of a build ends.
LEMMA EndsOfBuild ==
  ASSUME ArchiveAssumption, NEW build \in Builds
  PROVE  LET n == Len(build.entries)
             start == StartOf(build)
             cells == Layout(build)
         IN  /\ n \in Nat /\ start \in Nat \ {0} /\ build.wide \in BOOLEAN
             /\ DOMAIN cells = 1 .. Len(cells)
             /\ Len(cells) = IF build.wide THEN start + n + 2 ELSE start + n
             /\ build.wide => /\ cells[start + n] = End("end64", n, start)
                              /\ cells[start + n + 1] = [k |-> "locator", at |-> start + n]
                              /\ cells[start + n + 2] = End("end", Sentinel, Sentinel)
             /\ ~ build.wide => cells[start + n] = End("end", n, start)
<1>1. LaidOut(build, Layout(build), PlaceOf(build), StartOf(build))
  BY LaidOutThere
<1>2. Len(build.entries) \in Nat /\ build.wide \in BOOLEAN
  BY EntriesOfBuild
<1> QED
  BY <1>1, <1>2, Zenon DEF LaidOut

\* What the reader has of a build, on each stretch of its way.
Fresh(r) == r.entries = {} /\ r.candidates = {}

Located(build, r) ==
  /\ r.directory.offset = StartOf(build)
  /\ r.directory.count = Len(build.entries) /\ r.directory.size = Len(build.entries)

\* The record, or the place, of every entry looked for among the first ones.
Walked(build, r) ==
  /\ r.at < Len(build.entries) /\ r.candidates = {}
  /\ \A x \in r.entries : \E m \in 1 .. r.at : x = Rec(build, m)
  /\ \A m \in 1 .. r.at : build.entries[m].name.of = "localization" => Rec(build, m) \in r.entries

Searched(build, r) ==
  /\ r.at < Len(build.entries) /\ r.entries = {}
  /\ \A c \in r.candidates : \E m \in 1 .. r.at : c = Found(build, m)
  /\ \A m \in 1 .. r.at : Spelled(build.entries[m].name) => Found(build, m) \in r.candidates

Examined(build, r) ==
  /\ \A c \in r.candidates : \E m \in Numbers(build) : c = Found(build, m)
  /\ \A x \in r.entries :
       \E m \in Numbers(build) : x = Rec(build, m) /\ Found(build, m) \notin r.candidates
  /\ \A m \in Numbers(build) :
       Spelled(build.entries[m].name) =>
         Found(build, m) \in r.candidates \/ Rec(build, m) \in r.entries

Sought(build, r, m) ==
  IF r.exact THEN Spelled(build.entries[m].name) ELSE build.entries[m].name.of = "localization"

Listed(build, r) ==
  /\ \A x \in r.entries : \E m \in Numbers(build) : x = Rec(build, m)
  /\ \A m \in Numbers(build) : Sought(build, r, m) => Rec(build, m) \in r.entries

\* Some units of an entry.
Part(build, r) ==
  \E m \in Numbers(build) :
    /\ r.entry = Rec(build, m)
    /\ build.entries[m].aligned => r.aligned
    /\ Len(r.units) <= Len(Units(build.entries[m]))
    /\ \A k \in 1 .. Len(r.units) : r.units[k] = Units(build.entries[m])[k]

Unspelled(build, r) ==
  \A m \in Numbers(build) :
    build.entries[m].name.of = "localization" => r.exact /\ ~ Spelled(build.entries[m].name)

OnTheWay(build, r) ==
  \/ r.pc = "end" /\ Fresh(r)
  \/ r.pc = "locator" /\ Fresh(r) /\ build.wide /\ r.at = StartOf(build) + Len(build.entries) + 1
  \/ r.pc = "end64" /\ Fresh(r) /\ build.wide /\ r.at = StartOf(build) + Len(build.entries)
  \/ r.pc = "walk" /\ ~ r.exact /\ Located(build, r) /\ Walked(build, r)
  \/ r.pc = "search" /\ r.exact /\ Located(build, r) /\ Searched(build, r)
  \/ r.pc = "examine" /\ r.exact /\ Located(build, r) /\ Examined(build, r)
  \/ r.pc = "next" /\ Located(build, r) /\ Listed(build, r)
  \/ /\ r.pc = "header" /\ Located(build, r) /\ Listed(build, r)
     /\ \E m \in Numbers(build) : r.entry = Rec(build, m)
  \/ r.pc = "data" /\ Located(build, r) /\ Listed(build, r) /\ Part(build, r)
  \/ r.pc = "missing" /\ Unspelled(build, r)
  \/ r.pc \in {"done", "cancelled"}

Whole == builds[1] = builds[2] /\ Sound(builds[1])

SoundInv == Whole => file = Layout(builds[1]) /\ OnTheWay(builds[1], reader)

\* The state of a reader on its way through a whole file.
Steady(build) ==
  /\ build \in Builds /\ Sound(build) /\ file = Layout(build)
  /\ OnTheWay(build, reader)

\* A name is on one entry only.
LEMMA ToldApart ==
  ASSUME ArchiveAssumption, NEW build \in Builds, Sound(build),
         NEW m \in Numbers(build), NEW k \in Numbers(build),
         Rec(build, m).name.of = Rec(build, k).name.of
  PROVE  m = k
<1>1. Rec(build, m).name = build.entries[m].name /\ Rec(build, k).name = build.entries[k].name
  BY MemberOf
<1>2. DOMAIN build.entries = Numbers(build)
  BY EntriesOfBuild, LenProperties DEF Numbers
<1> QED
  BY <1>1, <1>2, Zenon DEF Sound

LEMMA StopIsOnTheWay ==
  ASSUME ReaderInv, NEW build, NEW why \in {"done", "cancelled"}, reader' = [reader EXCEPT !.pc = why]
  PROVE  OnTheWay(build, reader')
<1>1. PICK R : reader \in Readers(R)
  BY DEF ReaderInv
<1>2. reader'.pc = why
  BY <1>1 DEF Readers
<1> QED
  BY <1>2, Zenon DEF OnTheWay

\* The whole directory is located.
LEMMA LocateOnTheWay ==
  ASSUME ArchiveAssumption, ReaderInv, NEW build, Steady(build), Fresh(reader),
         NEW kind, Locate(End(kind, Len(build.entries), StartOf(build)))
  PROVE  OnTheWay(build, reader')
<1> DEFINE n == Len(build.entries)
           start == StartOf(build)
           record == End(kind, n, start)
<1>1. PICK R : reader \in Readers(R)
  BY DEF ReaderInv
<1>2. n \in Nat /\ start \in Nat \ {0} /\ start + n <= Len(file) /\ Len(file) \in Nat
  <2>1. build \in Builds /\ file = Layout(build)
    BY DEF Steady
  <2>2. n \in Nat /\ start \in Nat \ {0} /\ build.wide \in BOOLEAN
        /\ Len(file) = IF build.wide THEN start + n + 2 ELSE start + n
    BY <2>1, EndsOfBuild, Zenon
  <2> DEFINE len == Len(file)
  <2> HIDE DEF n, start, len
  <2>3. start + n <= len /\ len \in Nat
    <3>1. n \in Nat /\ start \in Nat \ {0}
          /\ len = IF build.wide THEN start + n + 2 ELSE start + n
      BY <2>2, Zenon DEF len
    <3> QED
      BY <3>1
  <2> QED
    BY <2>2, <2>3 DEF len
<1>3. record.count = n /\ record.size = n /\ record.offset = start
  BY EndIs
<1> DEFINE len == Len(file)
<1>4. ~ (record.size < record.count \/ record.offset + record.size - 1 > Len(file))
  <2>1. n \in Nat /\ start \in Nat \ {0} /\ start + n <= len /\ len \in Nat
    BY <1>2
  <2> HIDE DEF n, start, record, len
  <2>2. ~ (n < n \/ start + n - 1 > len)
    BY <2>1
  <2> QED
    BY <1>3, <2>2, Zenon DEF len
<1>5. reader' = [reader EXCEPT !.directory = record, !.at = 0,
                   !.pc = IF record.count = 0 THEN "next"
                          ELSE IF reader.exact THEN "search" ELSE "walk"]
  BY <1>4, Zenon DEF Locate
<1> HIDE DEF record, n, start
<1>6. /\ reader'.directory = record /\ reader'.at = 0
      /\ reader'.pc = (IF n = 0 THEN "next" ELSE IF reader.exact THEN "search" ELSE "walk")
      /\ reader'.exact = reader.exact /\ reader.exact \in BOOLEAN
      /\ reader'.entries = reader.entries /\ reader'.candidates = reader.candidates
  BY <1>1, <1>3, <1>5 DEF Readers
<1>7. Located(build, reader')
  BY <1>3, <1>6, Zenon DEF Located, n, start
<1>8. reader'.entries = {} /\ reader'.candidates = {}
  BY <1>6 DEF Fresh
<1>9. CASE n = 0
  <2>1. Numbers(build) = {}
    BY <1>9 DEF Numbers, n
  <2>2. Listed(build, reader')
    BY <1>8, <2>1 DEF Listed
  <2> QED
    BY <1>6, <1>7, <1>9, <2>2 DEF OnTheWay
<1>10. CASE n # 0
  <2>1. reader'.at < n /\ 1 .. reader'.at = {}
    BY <1>2, <1>6, <1>10
  <2>2. Walked(build, reader') /\ Searched(build, reader')
    BY <1>8, <2>1 DEF Walked, Searched, n
  <2>3. \/ reader'.exact /\ reader'.pc = "search"
        \/ ~ reader'.exact /\ reader'.pc = "walk"
    BY <1>6, <1>10
  <2> QED
    BY <1>7, <2>2, <2>3, Zenon DEF OnTheWay
<1> QED
  BY <1>9, <1>10

LEMMA FindEndOnTheWay ==
  ASSUME ArchiveAssumption, ReaderInv, NEW build, Steady(build), FindEnd
  PROVE  OnTheWay(build, reader')
<1> DEFINE n == Len(build.entries)
           start == StartOf(build)
           len == Len(file)
           ends == {i \in DOMAIN file : file[i].k = "end"}
<1>1. PICK R : reader \in Readers(R)
  BY DEF ReaderInv
<1>2. build \in Builds /\ file = Layout(build) /\ OnTheWay(build, reader)
  BY DEF Steady
<1>3. /\ n \in Nat /\ start \in Nat \ {0} /\ build.wide \in BOOLEAN
      /\ DOMAIN file = 1 .. len
      /\ len = IF build.wide THEN start + n + 2 ELSE start + n
      /\ build.wide => file[len] = End("end", Sentinel, Sentinel)
      /\ ~ build.wide => file[len] = End("end", n, start)
  BY <1>2, EndsOfBuild
<1>4. len \in Nat \ {0} /\ len \in 1 .. len
  <2> HIDE DEF n, start, len
  <2>1. n \in Nat /\ start \in Nat \ {0} /\ build.wide \in BOOLEAN
        /\ len = IF build.wide THEN start + n + 2 ELSE start + n
    BY <1>3, Zenon
  <2> QED
    BY <2>1
<1>5. file[len].k = "end"
  <2>1. \A m, at : End("end", m, at).k = "end"
    BY DEF End
  <2> QED
    BY <1>3, <2>1, Zenon
<1>6. Max(ends) = len
  <2>1. ends \in SUBSET (0 .. len) /\ len \in ends
    <3> HIDE DEF len
    <3>1. len \in Nat /\ len \in 1 .. len /\ DOMAIN file = 1 .. len
      BY <1>3, <1>4, Zenon
    <3> QED
      BY <3>1, <1>5
  <2> HIDE DEF ends, len
  <2>2. Max(ends) \in ends /\ \A y \in ends : Max(ends) >= y
    BY <1>4, <2>1, MaxFact
  <2>3. Max(ends) \in 0 .. len
    BY <2>1, <2>2
  <2> QED
    BY <1>4, <2>1, <2>2, <2>3
<1>7. reader.pc = "end" /\ ends # {}
  <2>1. len \in ends
    BY <1>3, <1>4, <1>5, Zenon
  <2> QED
    BY <2>1 DEF FindEnd
<1>8. Fresh(reader)
  BY <1>2, <1>7 DEF OnTheWay
<1>9. IF file[len].offset = Sentinel
      THEN reader' = [reader EXCEPT !.pc = "locator", !.at = len - 1]
      ELSE Locate(file[len])
  <2> HIDE DEF ends, len
  <2>1. IF file[Max(ends)].offset = Sentinel
        THEN reader' = [reader EXCEPT !.pc = "locator", !.at = Max(ends) - 1]
        ELSE Locate(file[Max(ends)])
    BY <1>7, Zenon DEF FindEnd, ends
  <2> QED
    BY <1>6, <2>1, Zenon
<1>10. CASE build.wide
  <2>1. file[len].offset = Sentinel
    <3>1. End("end", Sentinel, Sentinel).offset = Sentinel
      BY DEF End
    <3> QED
      BY <1>3, <1>10, <3>1, Zenon
  <2>2. reader' = [reader EXCEPT !.pc = "locator", !.at = len - 1]
    BY <1>9, <2>1, Zenon
  <2> DEFINE place == len - 1
  <2>3. place = start + n + 1
    <3> HIDE DEF n, start, len
    <3>1. n \in Nat /\ start \in Nat /\ len = start + n + 2
      BY <1>3, <1>10
    <3> QED
      BY <3>1 DEF place
  <2> HIDE DEF place, len
  <2>4. /\ reader'.pc = "locator" /\ reader'.at = place
        /\ reader'.entries = reader.entries /\ reader'.candidates = reader.candidates
    BY <1>1, <2>2 DEF Readers, place
  <2>5. Fresh(reader')
    BY <1>8, <2>4 DEF Fresh
  <2> QED
    BY <1>10, <2>3, <2>4, <2>5, Zenon DEF OnTheWay
<1>11. CASE ~ build.wide
  <2>1. file[len] = End("end", n, start)
    BY <1>3, <1>11, Zenon
  <2>2. Sentinel \notin Nat /\ start \in Nat
    BY <1>3 DEF ArchiveAssumption
  <2>3. file[len].offset # Sentinel
    <3>1. End("end", n, start).offset = start
      BY DEF End
    <3>2. file[len].offset = start
      BY <2>1, <3>1, Zenon
    <3> QED
      BY <2>2, <3>2
  <2>4. Locate(End("end", n, start))
    BY <1>9, <2>1, <2>3, Zenon
  <2> QED
    BY <1>8, <2>4, LocateOnTheWay
<1> QED
  BY <1>10, <1>11

LEMMA ReadLocatorOnTheWay ==
  ASSUME ArchiveAssumption, ReaderInv, NEW build, Steady(build), ReadLocator
  PROVE  OnTheWay(build, reader')
<1> DEFINE n == Len(build.entries)
           start == StartOf(build)
           here == start + n + 1
           after == start + n
<1>1. PICK R : reader \in Readers(R)
  BY DEF ReaderInv
<1>2. build \in Builds /\ file = Layout(build) /\ OnTheWay(build, reader)
  BY DEF Steady
<1>3. reader.pc = "locator"
  BY DEF ReadLocator
<1>4. Fresh(reader) /\ build.wide /\ reader.at = here
  BY <1>2, <1>3 DEF OnTheWay
<1>5. n \in Nat /\ start \in Nat /\ file[here] = [k |-> "locator", at |-> after]
  BY <1>2, <1>4, EndsOfBuild
<1>6. here # 0
  <2> HIDE DEF n, start
  <2> QED
    BY <1>5
<1>7. file[here].k = "locator" /\ file[here].at = after
  <2> HIDE DEF here, after
  <2> QED
    BY <1>5
<1>8. reader' = [reader EXCEPT !.pc = "end64", !.at = after]
  <2> HIDE DEF here, after
  <2>1. ~ (reader.at = 0 \/ file[reader.at].k # "locator")
    BY <1>4, <1>6, <1>7, Zenon
  <2>2. reader' = [reader EXCEPT !.pc = "end64", !.at = file[reader.at].at]
    BY <2>1, Zenon DEF ReadLocator
  <2> QED
    BY <1>4, <1>7, <2>2, Zenon
<1> HIDE DEF after
<1>9. /\ reader'.pc = "end64" /\ reader'.at = after
      /\ reader'.entries = reader.entries /\ reader'.candidates = reader.candidates
  BY <1>1, <1>8 DEF Readers
<1>10. Fresh(reader')
  BY <1>4, <1>9 DEF Fresh
<1> QED
  BY <1>4, <1>9, <1>10, Zenon DEF OnTheWay, after

LEMMA ReadEnd64OnTheWay ==
  ASSUME ArchiveAssumption, ReaderInv, NEW build, Steady(build), ReadEnd64
  PROVE  OnTheWay(build, reader')
<1> DEFINE n == Len(build.entries)
           start == StartOf(build)
           here == start + n
<1>1. build \in Builds /\ file = Layout(build) /\ OnTheWay(build, reader)
  BY DEF Steady
<1>2. reader.pc = "end64"
  BY DEF ReadEnd64
<1>3. Fresh(reader) /\ build.wide /\ reader.at = here
  BY <1>1, <1>2 DEF OnTheWay
<1>4. file[here] = End("end64", n, start)
  BY <1>1, <1>3, EndsOfBuild
<1>5. file[here].k = "end64"
  <2>1. End("end64", n, start).k = "end64"
    BY DEF End
  <2> QED
    BY <1>4, <2>1, Zenon
<1>6. Locate(file[here])
  BY <1>3, <1>5, Zenon DEF ReadEnd64
<1> QED
  BY <1>3, <1>4, <1>6, LocateOnTheWay

\* A record whose name is not among the entries yet is admitted if it is wanted.
LEMMA AdmitWhole ==
  ASSUME ArchiveAssumption, NEW build, Steady(build), NEW m \in Numbers(build),
         NEW cell, cell = file[StartOf(build) + m - 1], NEW rest, Admit(cell, rest),
         \A x \in reader.entries : \E k \in Numbers(build) : x = Rec(build, k) /\ k # m
  PROVE  IF reader.exact \/ build.entries[m].name.of = "localization"
         THEN reader' = [rest EXCEPT !.entries = @ \union {Rec(build, m)}]
         ELSE reader' = rest
<1>1. build \in Builds /\ Sound(build) /\ file = Layout(build)
  BY DEF Steady
<1>2. cell.name = build.entries[m].name /\ Widened(cell) = Rec(build, m)
      /\ Rec(build, m).name = cell.name
  BY <1>1, MemberOf
<1>3. ASSUME \E x \in reader.entries : Filename(x.name) = Filename(cell.name)
      PROVE  FALSE
  <2>1. PICK x \in reader.entries : Filename(x.name) = Filename(cell.name)
    BY <1>3
  <2>2. x.name.of = cell.name.of
    <3>1. \A name : Filename(name).of = name.of
      BY DEF Filename
    <3> QED
      BY <2>1, <3>1, Zenon
  <2>3. PICK k \in Numbers(build) : x = Rec(build, k) /\ k # m
    OBVIOUS
  <2>4. Rec(build, k).name.of = Rec(build, m).name.of
    BY <1>2, <2>2, <2>3, Zenon
  <2> QED
    BY <1>1, <2>3, <2>4, ToldApart, Zenon
<1> DEFINE more == [rest EXCEPT !.entries = @ \union {Widened(cell)}]
<1>4. more = [rest EXCEPT !.entries = @ \union {Rec(build, m)}]
  BY <1>2, Zenon
<1> HIDE DEF more
<1>5. IF ~ Wanted(cell.name) THEN reader' = rest ELSE reader' = more
  BY <1>3, Zenon DEF Admit, more
<1>6. Wanted(cell.name) <=> reader.exact \/ build.entries[m].name.of = "localization"
  BY <1>2, Zenon DEF Wanted
<1>7. CASE reader.exact \/ build.entries[m].name.of = "localization"
  BY <1>4, <1>5, <1>6, <1>7, Zenon
<1>8. CASE ~ (reader.exact \/ build.entries[m].name.of = "localization")
  BY <1>5, <1>6, <1>8, Zenon
<1> QED
  BY <1>7, <1>8, Zenon

LEMMA WalkOnTheWay ==
  ASSUME ArchiveAssumption, ReaderInv, NEW build, Steady(build), Walk
  PROVE  OnTheWay(build, reader')
<1> DEFINE n == Len(build.entries)
           start == StartOf(build)
           at == reader.at
           m == at + 1
           cell == file[start + m - 1]
           found == Rec(build, m)
           rest == [reader EXCEPT !.at = @ + 1,
                      !.pc = IF reader.at + 1 = reader.directory.count THEN "next" ELSE @]
<1>1. PICK R : reader \in Readers(R)
  BY DEF ReaderInv
<1>2. build \in Builds /\ Sound(build) /\ file = Layout(build) /\ OnTheWay(build, reader)
  BY DEF Steady
<1>3. reader.pc = "walk"
  BY DEF Walk
<1>4. ~ reader.exact /\ Located(build, reader) /\ Walked(build, reader)
  BY <1>2, <1>3 DEF OnTheWay
<1>5. /\ reader.directory.offset = start /\ reader.directory.count = n
      /\ at < n /\ reader.candidates = {}
      /\ \A x \in reader.entries : \E k \in 1 .. at : x = Rec(build, k)
      /\ \A k \in 1 .. at : build.entries[k].name.of = "localization" => Rec(build, k) \in reader.entries
  BY <1>4, Zenon DEF Located, Walked
<1>6. n \in Nat /\ start \in Nat /\ at \in Nat
  BY <1>1, <1>2, EndsOfBuild DEF Readers
<1>7. /\ m \in Numbers(build) /\ start + m - 1 = start + at
      /\ \A k \in 1 .. at : k \in Numbers(build) /\ k # m /\ k \in 1 .. m
      /\ m \in 1 .. m /\ (\A k \in 1 .. m : k # m => k \in 1 .. at)
      /\ m # n => m < n
  <2> HIDE DEF n, start, at
  <2>1. Numbers(build) = 1 .. n
    BY DEF Numbers, n
  <2>2. n \in Nat /\ start \in Nat /\ at \in Nat /\ at < n
    BY <1>5, <1>6, Zenon
  <2> QED
    BY <2>1, <2>2
<1>8. cell.k = "central" /\ cell = file[reader.directory.offset + reader.at]
  BY <1>2, <1>5, <1>7, MemberOf, Zenon
<1>9. Admit(cell, rest)
  <2>1. reader.pc = "walk"
        /\ IF file[reader.directory.offset + reader.at].k # "central" THEN Stop("refused")
           ELSE Admit(file[reader.directory.offset + reader.at], rest)
    BY Zenon DEF Walk
  <2> QED
    BY <1>8, <2>1, Zenon
<1> HIDE DEF rest, n, start, m, cell
<1>10. IF build.entries[m].name.of = "localization"
       THEN reader' = [rest EXCEPT !.entries = @ \union {Rec(build, m)}] ELSE reader' = rest
  <2>1. \A x \in reader.entries : \E k \in Numbers(build) : x = Rec(build, k) /\ k # m
    BY <1>5, <1>7, Zenon
  <2> QED
    BY <1>4, <1>7, <1>9, <2>1, AdmitWhole, Zenon DEF cell, start
<1>11. /\ rest.pc = (IF m = n THEN "next" ELSE "walk") /\ rest.at = m
       /\ rest.exact = reader.exact /\ rest.directory = reader.directory
       /\ rest.entries = reader.entries /\ rest.candidates = reader.candidates
       /\ rest \in [{"pc", "exact", "wants", "directory", "at", "candidates", "entries", "entry",
                     "aligned", "units", "read"} -> {rest[f] : f \in DOMAIN rest}]
  <2>1. m = reader.at + 1
    BY DEF m
  <2> QED
    BY <1>1, <1>3, <1>5, <2>1 DEF Readers, rest
<1>12. /\ reader'.pc = rest.pc /\ reader'.at = rest.at /\ reader'.exact = rest.exact
       /\ reader'.directory = rest.directory /\ reader'.candidates = rest.candidates
       /\ reader'.entries = IF build.entries[m].name.of = "localization"
                            THEN reader.entries \union {found} ELSE reader.entries
  <2> HIDE DEF found
  <2>1. CASE build.entries[m].name.of = "localization"
    <3>1. reader' = [rest EXCEPT !.entries = @ \union {found}]
      BY <1>10, <2>1, Zenon DEF found
    <3> QED
      BY <1>11, <2>1, <3>1
  <2>2. CASE ~ (build.entries[m].name.of = "localization")
    BY <1>10, <1>11, <2>2, Zenon
  <2> QED
    BY <2>1, <2>2, Zenon
<1>13. /\ \A x \in reader'.entries : \E k \in 1 .. m : x = Rec(build, k)
       /\ \A k \in 1 .. m : build.entries[k].name.of = "localization" => Rec(build, k) \in reader'.entries
  <2>1. \A x : x \in reader'.entries <=>
               \/ x \in reader.entries
               \/ x = found /\ build.entries[m].name.of = "localization"
    <3> HIDE DEF found
    <3> QED
      BY <1>12
  <2>2. ASSUME NEW x \in reader'.entries
        PROVE  \E k \in 1 .. m : x = Rec(build, k)
    BY <1>5, <1>7, <2>1, Zenon
  <2>3. ASSUME NEW k \in 1 .. m, build.entries[k].name.of = "localization"
        PROVE  Rec(build, k) \in reader'.entries
    <3>1. CASE k = m
      BY <2>1, <2>3, <3>1, Zenon
    <3>2. CASE k # m
      BY <1>5, <1>7, <2>1, <2>3, <3>2, Zenon
    <3> QED
      BY <3>1, <3>2
  <2> QED
    BY <2>2, <2>3, Zenon
<1>14. Located(build, reader') /\ ~ reader'.exact
  BY <1>4, <1>11, <1>12, Zenon DEF Located
<1>15. CASE m = n
  <2>1. reader'.pc = "next"
    BY <1>11, <1>12, <1>15, Zenon
  <2>2. Listed(build, reader')
    <3>1. Numbers(build) = 1 .. m
      BY <1>15, Zenon DEF Numbers, n
    <3> QED
      BY <1>13, <1>14, <3>1, Zenon DEF Listed, Sought
  <2> QED
    BY <1>14, <2>1, <2>2, Zenon DEF OnTheWay
<1>16. CASE m # n
  <2>1. reader'.pc = "walk" /\ reader'.at = m /\ reader'.candidates = {}
    BY <1>5, <1>11, <1>12, <1>16, Zenon
  <2>2. Walked(build, reader')
    BY <1>7, <1>13, <1>16, <2>1, Zenon DEF Walked, n
  <2> QED
    BY <1>14, <2>1, <2>2, Zenon DEF OnTheWay
<1> QED
  BY <1>15, <1>16

LEMMA SearchOnTheWay ==
  ASSUME ArchiveAssumption, ReaderInv, NEW build, Steady(build), Search
  PROVE  OnTheWay(build, reader')
<1> DEFINE n == Len(build.entries)
           start == StartOf(build)
           at == reader.at
           m == at + 1
           here == start + m - 1
           spelled == Spelled(build.entries[m].name)
           found == Found(build, m)
           pc == IF m = n THEN "examine" ELSE "search"
           candidates == IF spelled THEN reader.candidates \union {found} ELSE reader.candidates
<1>1. PICK R : reader \in Readers(R)
  BY DEF ReaderInv
<1>2. build \in Builds /\ file = Layout(build) /\ OnTheWay(build, reader)
  BY DEF Steady
<1>3. reader.pc = "search"
  BY DEF Search
<1>4. reader.exact /\ Located(build, reader) /\ Searched(build, reader)
  BY <1>2, <1>3 DEF OnTheWay
<1>5. /\ reader.directory.offset = start /\ reader.directory.size = n
      /\ at < n /\ reader.entries = {}
      /\ \A c \in reader.candidates : \E k \in 1 .. at : c = Found(build, k)
      /\ \A k \in 1 .. at : Spelled(build.entries[k].name) => Found(build, k) \in reader.candidates
  BY <1>4, Zenon DEF Located, Searched
<1>6. n \in Nat /\ start \in Nat /\ at \in Nat
  BY <1>1, <1>2, EndsOfBuild DEF Readers
<1>7. /\ m \in Numbers(build) /\ here = start + at
      /\ \A k \in 1 .. at : k \in Numbers(build) /\ k \in 1 .. m
      /\ m \in 1 .. m /\ (\A k \in 1 .. m : k # m => k \in 1 .. at)
      /\ m # n => m < n
  <2> HIDE DEF n, start, at
  <2>1. Numbers(build) = 1 .. n
    BY DEF Numbers, n
  <2>2. n \in Nat /\ start \in Nat /\ at \in Nat /\ at < n
    BY <1>5, <1>6, Zenon
  <2> QED
    BY <2>1, <2>2
<1>8. file[here].k = "central" /\ file[here].name = build.entries[m].name
      /\ here = reader.directory.offset + reader.at
  <2>1. file[here].k = "central" /\ file[here].name = build.entries[m].name
    BY <1>2, <1>7, MemberOf
  <2> QED
    BY <2>1, <1>5, <1>7, Zenon
<1>9. found = << here, file[here].name >>
  BY <1>8, Zenon DEF Found
<1>10. reader' = [reader EXCEPT !.candidates = candidates, !.at = m, !.pc = pc]
  <2> DEFINE seen == file[here].k = "central" /\ Spelled(file[here].name)
  <2>1. reader' = [reader EXCEPT
           !.candidates = IF seen THEN @ \union {<< here, file[here].name >>} ELSE @,
           !.at = @ + 1,
           !.pc = IF reader.at + 1 = reader.directory.size THEN "examine" ELSE @]
    BY <1>8, Zenon DEF Search
  <2>2. seen <=> spelled
    BY <1>8, Zenon
  <2> DEFINE name == file[here].name
             one == << here, name >>
  <2>3. found = one
    BY <1>9, Zenon
  <2> HIDE DEF seen, spelled, one, found, here
  <2> QED
    BY <1>1, <1>3, <1>5, <2>1, <2>2, <2>3 DEF Readers, one
<1> HIDE DEF pc, candidates, m
<1>11. /\ reader'.pc = pc /\ reader'.at = m /\ reader'.exact = reader.exact
       /\ reader'.directory = reader.directory /\ reader'.candidates = candidates
       /\ reader'.entries = reader.entries
  BY <1>1, <1>10 DEF Readers
<1>12. Located(build, reader') /\ reader'.exact
  BY <1>4, <1>11, Zenon DEF Located
<1>13. /\ \A c \in reader'.candidates : \E k \in 1 .. m : c = Found(build, k)
       /\ \A k \in 1 .. m : Spelled(build.entries[k].name) => Found(build, k) \in reader'.candidates
  <2>1. \A c : c \in reader'.candidates <=> c \in reader.candidates \/ (c = found /\ spelled)
    <3> HIDE DEF found, spelled
    <3> QED
      BY <1>11 DEF candidates
  <2>2. ASSUME NEW c \in reader'.candidates
        PROVE  \E k \in 1 .. m : c = Found(build, k)
    BY <1>5, <1>7, <2>1, Zenon
  <2>3. ASSUME NEW k \in 1 .. m, Spelled(build.entries[k].name)
        PROVE  Found(build, k) \in reader'.candidates
    <3>1. CASE k = m
      BY <2>1, <2>3, <3>1, Zenon
    <3>2. CASE k # m
      BY <1>5, <1>7, <2>1, <2>3, <3>2, Zenon
    <3> QED
      BY <3>1, <3>2
  <2> QED
    BY <2>2, <2>3, Zenon
<1>14. CASE m = n
  <2>1. reader'.pc = "examine"
    BY <1>11, <1>14, Zenon DEF pc
  <2>2. Examined(build, reader')
    <3>1. Numbers(build) = 1 .. m
      BY <1>14, Zenon DEF Numbers
    <3>2. \A x : x \notin reader'.entries
      BY <1>5, <1>11
    <3> QED
      BY <1>13, <3>1, <3>2, Zenon DEF Examined
  <2> QED
    BY <1>12, <2>1, <2>2, Zenon DEF OnTheWay
<1>15. CASE m # n
  <2>1. reader'.pc = "search" /\ reader'.at = m /\ reader'.entries = {}
    BY <1>5, <1>11, <1>15, Zenon DEF pc
  <2>2. Searched(build, reader')
    BY <1>7, <1>13, <1>15, <2>1, Zenon DEF Searched
  <2> QED
    BY <1>12, <2>1, <2>2, Zenon DEF OnTheWay
<1> QED
  BY <1>14, <1>15

\* A place is that of one entry.
LEMMA PlacesDiffer ==
  ASSUME ArchiveAssumption, NEW build \in Builds,
         NEW m \in Numbers(build), NEW k \in Numbers(build), Found(build, m) = Found(build, k)
  PROVE  m = k
<1> DEFINE start == StartOf(build)
           place == start + m - 1
           other == start + k - 1
           name == build.entries[m].name
           next == build.entries[k].name
<1>1. << place, name >> = << other, next >>
  BY Zenon DEF Found
<1>2. start \in Nat /\ m \in Nat /\ k \in Nat
  <2>1. start \in Nat
    BY EndsOfBuild
  <2>2. m \in Nat /\ k \in Nat
    BY EntriesOfBuild DEF Numbers
  <2> QED
    BY <2>1, <2>2
<1>3. place = other
  <2> HIDE DEF place, other, name, next
  <2> QED
    BY <1>1
<1> HIDE DEF start
<1> QED
  BY <1>2, <1>3

LEMMA ExamineOnTheWay ==
  ASSUME ArchiveAssumption, ReaderInv, NEW build, Steady(build), Examine
  PROVE  OnTheWay(build, reader')
<1> DEFINE first == First(reader.candidates)
           rest == [reader EXCEPT !.candidates = @ \ {first}]
<1>1. PICK R : reader \in Readers(R)
  BY DEF ReaderInv
<1>2. build \in Builds /\ Sound(build) /\ file = Layout(build) /\ OnTheWay(build, reader)
  BY DEF Steady
<1>3. reader.pc = "examine"
  BY DEF Examine
<1>4. reader.exact /\ Located(build, reader) /\ Examined(build, reader)
  BY <1>2, <1>3 DEF OnTheWay
<1>5. CASE reader.candidates = {}
  <2>1. reader' = [reader EXCEPT !.pc = "next"]
    BY <1>5, Zenon DEF Examine, Go
  <2>2. /\ reader'.pc = "next" /\ reader'.exact = reader.exact
        /\ reader'.entries = reader.entries /\ reader'.directory = reader.directory
    BY <1>1, <2>1 DEF Readers
  <2>3. \A c : c \notin reader.candidates
    BY <1>5
  <2>4. Listed(build, reader')
    BY <1>4, <2>2, <2>3, Zenon DEF Examined, Listed, Sought
  <2>5. Located(build, reader')
    BY <1>4, <2>2, Zenon DEF Located
  <2> QED
    BY <2>2, <2>4, <2>5, Zenon DEF OnTheWay
<1>6. CASE reader.candidates # {}
  <2>1. first \in reader.candidates
    <3>1. reader.candidates \in SUBSET (Nat \X Names)
      BY <1>1 DEF Readers
    <3> QED
      BY <1>6, <3>1, FirstIs
  <2>2. PICK m \in Numbers(build) : first = Found(build, m)
    BY <1>4, <2>1, Zenon DEF Examined
  <2> DEFINE cell == file[StartOf(build) + m - 1]
  <2>3. cell.k = "central" /\ cell.name = build.entries[m].name
    BY <1>2, MemberOf
  <2>4. first[1] = StartOf(build) + m - 1 /\ first[2] = build.entries[m].name
    <3> DEFINE place == StartOf(build) + m - 1
               name == build.entries[m].name
    <3>1. first = << place, name >>
      BY <2>2, Zenon DEF Found
    <3> HIDE DEF place, name, first
    <3>2. first[1] = place /\ first[2] = name
      BY <3>1
    <3> QED
      BY <3>2 DEF place, name
  <2>5. Admit(cell, rest)
    <3>1. IF file[first[1]].k = "central" /\ file[first[1]].name = first[2]
          THEN Admit(file[first[1]], rest)
          ELSE reader' = rest /\ UNCHANGED << builds, file, destination >>
      BY <1>6, Zenon DEF Examine, First
    <3> QED
      BY <2>3, <2>4, <3>1, Zenon
  <2>6. \A x \in reader.entries : \E k \in Numbers(build) :
          x = Rec(build, k) /\ k # m /\ Found(build, k) \notin reader.candidates
    BY <1>4, <2>1, <2>2, Zenon DEF Examined
  <2>7. reader' = [rest EXCEPT !.entries = @ \union {Rec(build, m)}]
    <3>1. \A x \in reader.entries : \E k \in Numbers(build) : x = Rec(build, k) /\ k # m
      BY <2>6, Zenon
    <3> HIDE DEF rest
    <3> QED
      BY <1>4, <2>5, <3>1, AdmitWhole, Zenon
  <2> DEFINE record == Rec(build, m)
  <2> HIDE DEF record, first
  <2>8. /\ reader'.pc = "examine" /\ reader'.exact = reader.exact
        /\ reader'.directory = reader.directory
        /\ reader'.entries = reader.entries \union {record}
        /\ reader'.candidates = reader.candidates \ {first}
    <3>1. reader' = [rest EXCEPT !.entries = @ \union {record}]
      BY <2>7, Zenon DEF record
    <3> QED
      BY <1>1, <1>3, <3>1 DEF Readers
  <2>9. /\ \A x : x \in reader'.entries <=> x \in reader.entries \/ x = record
        /\ \A c : c \in reader'.candidates <=> c \in reader.candidates /\ c # first
    BY <2>8
  <2>10. Examined(build, reader')
    <3>1. ASSUME NEW c \in reader'.candidates
          PROVE  \E k \in Numbers(build) : c = Found(build, k)
      BY <1>4, <2>9, Zenon DEF Examined
    <3>2. ASSUME NEW x \in reader'.entries
          PROVE  \E k \in Numbers(build) : x = Rec(build, k) /\ Found(build, k) \notin reader'.candidates
      BY <2>2, <2>6, <2>9, Zenon DEF record
    <3>3. ASSUME NEW k \in Numbers(build), Spelled(build.entries[k].name)
          PROVE  Found(build, k) \in reader'.candidates \/ Rec(build, k) \in reader'.entries
      <4>1. CASE k = m
        BY <2>9, <4>1, Zenon DEF record
      <4>2. CASE k # m
        <5>1. Found(build, k) # first
          BY <1>2, <2>2, <4>2, PlacesDiffer
        <5>2. Found(build, k) \in reader.candidates \/ Rec(build, k) \in reader.entries
          BY <1>4, <3>3, Zenon DEF Examined
        <5> QED
          BY <2>9, <5>1, <5>2, Zenon
      <4> QED
        BY <4>1, <4>2
    <3> QED
      BY <3>1, <3>2, <3>3, Zenon DEF Examined
  <2>11. Located(build, reader')
    BY <1>4, <2>8, Zenon DEF Located
  <2> QED
    BY <1>4, <2>8, <2>10, <2>11, Zenon DEF OnTheWay
<1> QED
  BY <1>5, <1>6

LEMMA AtMostOne ==
  ASSUME NEW S, NEW x, \A y \in S : y = x
  PROVE  ~ (Cardinality(S) > 1)
<1>1. CASE S = {}
  BY <1>1, FS_EmptySet
<1>2. CASE S # {}
  <2>1. S = {x}
    BY <1>2
  <2> QED
    BY <2>1, FS_Singleton
<1> QED
  BY <1>1, <1>2

LEMMA ReadNextOnTheWay ==
  ASSUME ArchiveAssumption, ReaderInv, NEW build, Steady(build), ReadNext
  PROVE  OnTheWay(build, reader')
<1>1. PICK R : reader \in Readers(R)
  BY DEF ReaderInv
<1>2. build \in Builds /\ Sound(build) /\ file = Layout(build) /\ OnTheWay(build, reader)
  BY DEF Steady
<1>3. reader.wants # << >> => Head(reader.wants) \in Wants /\ Tail(reader.wants) \in Seq(Wants)
  BY <1>1, HeadAndTail
<1>4. reader.pc = "next"
  BY <1>3, WaysOfReadNext
<1>5. Located(build, reader) /\ Listed(build, reader)
  BY <1>2, <1>4 DEF OnTheWay
<1>6. CASE Go("done")
  <2>1. reader' = [reader EXCEPT !.pc = "done"]
    BY <1>6, Zenon DEF Go
  <2> QED
    BY <2>1, StopIsOnTheWay
<1>7. ~ (Cardinality(Matches) > 1)
  <2>1. CASE Matches = {}
    BY <2>1, FS_EmptySet
  <2>2. CASE Matches # {}
    <3>1. PICK x \in Matches : TRUE
      BY <2>2
    <3>2. ASSUME NEW y \in Matches
          PROVE  y = x
      <4>1. /\ x \in reader.entries /\ y \in reader.entries
            /\ x.name.of = Head(reader.wants) /\ y.name.of = Head(reader.wants)
        BY <3>1 DEF Matches
      <4>2. PICK m \in Numbers(build), k \in Numbers(build) : x = Rec(build, m) /\ y = Rec(build, k)
        BY <1>5, <4>1, Zenon DEF Listed
      <4>3. m = k
        <5>1. Rec(build, m).name.of = Rec(build, k).name.of
          BY <4>1, <4>2, Zenon
        <5> QED
          BY <1>2, <5>1, ToldApart, Zenon
      <4> QED
        BY <4>2, <4>3, Zenon
    <3>3. \A y \in Matches : y = x
      BY <3>2
    <3> HIDE DEF Matches
    <3> QED
      BY <3>3, AtMostOne
  <2> QED
    BY <2>1, <2>2
<1>8. CASE Matches = {} /\ Head(reader.wants) = "localization" /\ Stop("missing")
  <2>1. reader' = [reader EXCEPT !.pc = "missing"]
    BY <1>8, Zenon DEF Stop
  <2>2. reader'.pc = "missing" /\ reader'.exact = reader.exact
    BY <1>1, <2>1 DEF Readers
  <2>3. Unspelled(build, reader')
    <3> SUFFICES ASSUME NEW m \in Numbers(build), build.entries[m].name.of = "localization"
                 PROVE  reader.exact /\ ~ Spelled(build.entries[m].name)
      BY <2>2, Zenon DEF Unspelled
    <3>1. Rec(build, m).name = build.entries[m].name
      BY <1>2, MemberOf
    <3>2. Rec(build, m) \notin reader.entries
      <4>1. Rec(build, m) \notin Matches
        BY <1>8
      <4> QED
        BY <1>8, <3>1, <4>1 DEF Matches
    <3>3. ~ Sought(build, reader, m)
      BY <1>5, <3>2, Zenon DEF Listed
    <3> QED
      BY <3>3, Zenon DEF Sought
  <2> QED
    BY <2>2, <2>3, Zenon DEF OnTheWay
<1>9. CASE reader' = Skipped
  <2>1. reader'.pc = "next" /\ reader'.exact = reader.exact
        /\ reader'.directory = reader.directory /\ reader'.entries = reader.entries
    BY <1>1, <1>4, <1>9 DEF Readers, Skipped
  <2>2. Located(build, reader') /\ Listed(build, reader')
    BY <1>5, <2>1, Zenon DEF Located, Listed, Sought
  <2> QED
    BY <2>1, <2>2, Zenon DEF OnTheWay
<1>10. CASE /\ Matches # {}
            /\ reader' = [Skipped EXCEPT !.entry = CHOOSE e \in Matches : TRUE, !.pc = "header"]
  <2> DEFINE one == CHOOSE e \in Matches : TRUE
  <2>1. one \in Matches
    BY <1>10
  <2>2. one \in reader.entries
    BY <2>1 DEF Matches
  <2>3. reader' = [Skipped EXCEPT !.entry = one, !.pc = "header"]
    BY <1>10, Zenon
  <2> HIDE DEF one
  <2>4. reader'.pc = "header" /\ reader'.exact = reader.exact /\ reader'.entry = one
        /\ reader'.directory = reader.directory /\ reader'.entries = reader.entries
    BY <1>1, <2>3 DEF Readers, Skipped
  <2>5. Located(build, reader') /\ Listed(build, reader')
    BY <1>5, <2>4, Zenon DEF Located, Listed, Sought
  <2>6. \E m \in Numbers(build) : reader'.entry = Rec(build, m)
    BY <1>5, <2>2, <2>4, Zenon DEF Listed
  <2> QED
    BY <2>4, <2>5, <2>6, Zenon DEF OnTheWay
<1>11. CASE reader.wants # << >> /\ Cardinality(Matches) > 1 /\ Stop("refused")
  BY <1>7, <1>11
<1> QED
  BY <1>3, <1>6, <1>8, <1>9, <1>10, <1>11, WaysOfReadNext, Zenon

LEMMA ReadHeaderOnTheWay ==
  ASSUME ArchiveAssumption, ReaderInv, NEW build, Steady(build), ReadHeader
  PROVE  OnTheWay(build, reader')
<1>1. PICK R : reader \in Readers(R)
  BY DEF ReaderInv
<1>2. build \in Builds /\ Sound(build) /\ file = Layout(build) /\ OnTheWay(build, reader)
  BY DEF Steady
<1>3. reader.pc = "header"
  BY DEF ReadHeader
<1>4. Located(build, reader) /\ Listed(build, reader)
      /\ \E m \in Numbers(build) : reader.entry = Rec(build, m)
  BY <1>2, <1>3 DEF OnTheWay
<1>5. PICK m \in Numbers(build) : reader.entry = Rec(build, m)
  BY <1>4
<1> DEFINE e == build.entries[m]
           r == Rec(build, m)
           header == Local(e, build.wide)
<1>6. /\ e \in Entries /\ e \in Range(build.entries) /\ build.wide \in BOOLEAN
      /\ r.offset + Len(Units(e)) < StartOf(build) /\ file[r.offset] = header
      /\ r.name = e.name /\ r.method = e.method
      /\ r.crc = (IF e.aligned THEN None ELSE e.content)
      /\ r.csize = Len(Units(e)) /\ r.fsize = Len(e.content)
  BY <1>2, MemberOf, EntriesOfBuild
<1> HIDE DEF e, r, header
<1>7. /\ header.k = "local" /\ header.name = e.name
      /\ header.method = e.method /\ header.aligned = e.aligned
      /\ header.crc = (IF e.aligned THEN None ELSE e.content)
      /\ header.csize \in {Len(Units(e)), Sentinel}
      /\ header.fsize \in {Len(e.content), Sentinel}
  BY <1>6, LocalIs DEF header
<1>8. Agrees(r, header)
  BY <1>4, <1>6, <1>7, Zenon DEF Agrees, Located
<1>9. reader' = [reader EXCEPT !.pc = "data", !.units = << >>, !.aligned = Advisory(r, header)]
  <2>1. IF ~ Agrees(reader.entry, file[reader.entry.offset]) THEN Stop("refused")
        ELSE reader' = [reader EXCEPT !.pc = "data", !.units = << >>,
                          !.aligned = Advisory(reader.entry, file[reader.entry.offset])]
    BY Zenon DEF ReadHeader
  <2> QED
    BY <1>5, <1>6, <1>8, <2>1, Zenon DEF r
<1> DEFINE advisory == Advisory(r, header)
<1>10. e.aligned => advisory
  BY <1>2, <1>6, <1>7, Zenon DEF Sound, Advisory
<1> HIDE DEF advisory
<1>11. /\ reader'.pc = "data" /\ reader'.units = << >> /\ reader'.aligned = advisory
       /\ reader'.exact = reader.exact /\ reader'.entry = reader.entry
       /\ reader'.directory = reader.directory /\ reader'.entries = reader.entries
  <2>1. reader' = [reader EXCEPT !.pc = "data", !.units = << >>, !.aligned = advisory]
    BY <1>9, Zenon DEF advisory
  <2> QED
    BY <1>1, <2>1 DEF Readers
<1>12. Located(build, reader') /\ Listed(build, reader')
  BY <1>4, <1>11, Zenon DEF Located, Listed, Sought
<1>13. Part(build, reader')
  <2>1. Len(reader'.units) <= Len(Units(e)) /\ \A k \in 1 .. Len(reader'.units) : FALSE
    <3>1. Len(Units(e)) \in Nat
      BY <1>6, UnitsTyped
    <3> DEFINE len == Len(Units(e))
    <3> HIDE DEF len
    <3>2. len \in Nat /\ reader'.units = << >>
      BY <1>11, <3>1, Zenon DEF len
    <3>3. Len(reader'.units) <= len /\ \A k \in 1 .. Len(reader'.units) : FALSE
      BY <3>2
    <3> QED
      BY <3>3, Zenon DEF len
  <2> QED
    BY <1>5, <1>10, <1>11, <2>1, Zenon DEF Part, e
<1> QED
  BY <1>11, <1>12, <1>13, Zenon DEF OnTheWay

LEMMA ReadUnitOnTheWay ==
  ASSUME ArchiveAssumption, ReaderInv, NEW build, Steady(build), ReadUnit
  PROVE  OnTheWay(build, reader')
<1>1. PICK R : reader \in Readers(R)
  BY DEF ReaderInv
<1>2. build \in Builds /\ Sound(build) /\ file = Layout(build) /\ OnTheWay(build, reader)
  BY DEF Steady
<1>3. reader.pc = "data" /\ Len(reader.units) < reader.entry.csize
  BY DEF ReadUnit
<1>4. Located(build, reader) /\ Listed(build, reader) /\ Part(build, reader)
  BY <1>2, <1>3 DEF OnTheWay
<1>5. PICK m \in Numbers(build) :
        /\ reader.entry = Rec(build, m)
        /\ build.entries[m].aligned => reader.aligned
        /\ \A k \in 1 .. Len(reader.units) : reader.units[k] = Units(build.entries[m])[k]
  BY <1>4, Zenon DEF Part
<1> DEFINE e == build.entries[m]
           r == Rec(build, m)
           U == Units(e)
           size == Len(U)
           here == Len(reader.units)
           next == here + 1
           place == r.offset
<1>6. /\ e \in Entries /\ place \in Nat \ {0} /\ r.csize = size
      /\ \A k \in 1 .. size : file[place + k] = U[k]
  BY <1>2, MemberOf
<1>7. U \in Seq(UnitsOf) /\ size \in Nat
  BY <1>6, UnitsTyped
<1>8. reader.units \in Seq(UnitsRead) /\ here \in Nat
  BY <1>1 DEF Readers
<1>9. here < size
  BY <1>3, <1>5, <1>6, Zenon
<1>10. next \in 1 .. size /\ place + 1 + here = place + next
       /\ \A k \in 1 .. next : k # next => k \in 1 .. here
  <2> HIDE DEF size, here, place
  <2>1. size \in Nat /\ here \in Nat /\ place \in Nat /\ here < size
    BY <1>6, <1>7, <1>8, <1>9
  <2> QED
    BY <2>1
<1>11. file[place + 1 + here] = U[next]
  BY <1>6, <1>10, Zenon
<1>12. U[next].k = "data" /\ U[next] \in UnitsRead
  <2>1. U[next] \in UnitsOf
    BY <1>7, <1>10, ElementOfSeq
  <2> QED
    BY <2>1 DEF UnitsOf, UnitsRead
<1> DEFINE units == Append(reader.units, U[next])
<1>13. reader' = [reader EXCEPT !.units = units]
  <2> DEFINE cell == file[reader.entry.offset + 1 + Len(reader.units)]
  <2>1. reader' = [reader EXCEPT !.units =
           Append(@, IF cell.k = "data" THEN cell ELSE Unit(<< Garbage >>, FALSE, FALSE))]
    BY Zenon DEF ReadUnit
  <2>2. cell = U[next] /\ cell.k = "data"
    BY <1>5, <1>11, <1>12, Zenon
  <2>3. units = Append(reader.units,
                       IF cell.k = "data" THEN cell ELSE Unit(<< Garbage >>, FALSE, FALSE))
    BY <2>2, Zenon
  <2> HIDE DEF units, cell
  <2> QED
    BY <2>1, <2>3, Zenon
<1> HIDE DEF place, size, here, next, U, e
<1>14. Len(units) = next /\ \A k \in 1 .. next : units[k] = U[k]
  <2>1. /\ Len(units) = next /\ units[next] = U[next]
        /\ \A k \in 1 .. here : units[k] = reader.units[k]
    BY <1>8, <1>12, AppendProperties DEF next, here
  <2> HIDE DEF units
  <2>2. \A k \in 1 .. here : reader.units[k] = U[k]
    BY <1>5, Zenon DEF here, U, e
  <2> QED
    BY <1>10, <2>1, <2>2, Zenon
<1> HIDE DEF units
<1>15. /\ reader'.pc = "data" /\ reader'.units = units /\ reader'.aligned = reader.aligned
       /\ reader'.exact = reader.exact /\ reader'.entry = reader.entry
       /\ reader'.directory = reader.directory /\ reader'.entries = reader.entries
  BY <1>1, <1>3, <1>13 DEF Readers
<1>16. Located(build, reader') /\ Listed(build, reader')
  BY <1>4, <1>15, Zenon DEF Located, Listed, Sought
<1>17. Part(build, reader')
  <2>1. Len(reader'.units) <= size
    <3>1. Len(reader'.units) = next
      BY <1>14, <1>15, Zenon
    <3>2. next <= size
      BY <1>7, <1>10
    <3> QED
      BY <3>1, <3>2, Zenon
  <2>2. \A k \in 1 .. Len(reader'.units) : reader'.units[k] = U[k]
    BY <1>14, <1>15, Zenon
  <2>3. reader'.entry = r /\ (e.aligned => reader'.aligned)
    BY <1>5, <1>15, Zenon DEF e
  <2> QED
    BY <2>1, <2>2, <2>3, Zenon DEF Part, U, e, size
<1> QED
  BY <1>15, <1>16, <1>17, Zenon DEF OnTheWay

LEMMA FinishOnTheWay ==
  ASSUME ArchiveAssumption, ReaderInv, NEW build, Steady(build), Finish
  PROVE  OnTheWay(build, reader')
<1>1. PICK R : reader \in Readers(R)
  BY DEF ReaderInv
<1>2. build \in Builds /\ Sound(build) /\ file = Layout(build) /\ OnTheWay(build, reader)
  BY DEF Steady
<1>3. reader.pc = "data" /\ Len(reader.units) = reader.entry.csize
  BY DEF Finish
<1>4. Located(build, reader) /\ Listed(build, reader) /\ Part(build, reader)
  BY <1>2, <1>3 DEF OnTheWay
<1>5. PICK m \in Numbers(build) :
        /\ reader.entry = Rec(build, m)
        /\ build.entries[m].aligned => reader.aligned
        /\ \A k \in 1 .. Len(reader.units) : reader.units[k] = Units(build.entries[m])[k]
  BY <1>4, Zenon DEF Part
<1> DEFINE e == build.entries[m]
           r == Rec(build, m)
           U == Units(e)
           content == e.content
           got == [of |-> r.name.of, content |-> content]
<1>6. /\ e \in Entries /\ e \in Range(build.entries) /\ r.csize = Len(U)
      /\ r.encrypted = e.encrypted /\ r.method = e.method /\ r.fsize = Len(content)
      /\ r.crc = (IF e.aligned THEN None ELSE content)
  BY <1>2, MemberOf
<1>7. U \in Seq(UnitsOf) /\ reader.units \in Seq(UnitsRead) /\ content \in Seq(Values)
  <2>1. U \in Seq(UnitsOf)
    BY <1>6, UnitsTyped
  <2>2. reader.units \in Seq(UnitsRead)
    BY <1>1 DEF Readers
  <2>3. content \in Seq(Values)
    BY <1>6 DEF Entries
  <2> QED
    BY <2>1, <2>2, <2>3
<1>8. reader.units = U
  <2>1. Len(reader.units) = Len(U)
    BY <1>3, <1>5, <1>6, Zenon
  <2>2. U \in Seq(UnitsRead)
    <3>1. UnitsOf \subseteq UnitsRead
      BY DEF UnitsRead
    <3> HIDE DEF U
    <3> QED
      BY <1>7, <3>1
  <2>3. \A k \in 1 .. Len(reader.units) : reader.units[k] = U[k]
    BY <1>5, Zenon
  <2> HIDE DEF U
  <2> QED
    BY <1>7, <2>1, <2>2, <2>3, SeqEqual
<1>9. Decoded(r, U) = content
  <2>1. /\ e.method \in {"store", "deflate", "zstd"}
        /\ ~ (e.encrypted /\ e.method # "store" /\ e.endsInZero)
    BY <1>2, <1>6, Zenon DEF Sound
  <2>2. CASE e.method = "store"
    <3> HIDE DEF r, e
    <3> QED
      BY <1>6, <2>2, StoredDecodes
  <2>3. CASE e.method # "store"
    <3>1. Compressed(e) /\ ~ EndsLikePadding(e) /\ Describes(r, e) /\ NoGarbage
      <4>1. Compressed(e)
        BY <2>1, <2>3 DEF Compressed
      <4>2. ~ EndsLikePadding(e)
        BY <2>1, <2>3 DEF EndsLikePadding
      <4>3. Describes(r, e)
        BY <1>6, Zenon DEF Describes
      <4>4. NoGarbage
        BY DEF ArchiveAssumption, NoGarbage
      <4> QED
        BY <4>1, <4>2, <4>3, <4>4
    <3> HIDE DEF e, r
    <3> QED
      BY <1>6, <3>1, CompressedDecodes, Zenon
  <2> QED
    BY <2>2, <2>3
<1>10. content # None
  BY <1>7 DEF ArchiveAssumption
<1>11. content = r.crc \/ reader.aligned
  <2>1. e.aligned => reader.aligned
    BY <1>5
  <2> HIDE DEF r, e, content
  <2>2. CASE e.aligned
    BY <2>1, <2>2, Zenon
  <2>3. CASE ~ e.aligned
    BY <1>6, <2>3, Zenon
  <2> QED
    BY <2>2, <2>3
<1>12. reader' = Delivered(got)
  <2>1. \/ content = None
        \/ Len(content) # r.fsize
        \/ content # r.crc /\ ~ reader.aligned
        \/ reader' = Delivered(got)
    <3> HIDE DEF content, r, U
    <3>1. Decoded(reader.entry, reader.units) = content /\ reader.entry = r
      BY <1>5, <1>8, <1>9, Zenon DEF r
    <3>2. \/ Decoded(reader.entry, reader.units) = None
          \/ Len(Decoded(reader.entry, reader.units)) # reader.entry.fsize
          \/ /\ Decoded(reader.entry, reader.units) # reader.entry.crc
             /\ ~ reader.aligned
          \/ reader' = Delivered([of |-> reader.entry.name.of,
                                  content |-> Decoded(reader.entry, reader.units)])
      BY WaysOfFinish, Zenon
    <3> QED
      BY <3>1, <3>2, Zenon
  <2> QED
    BY <1>6, <1>10, <1>11, <2>1, Zenon
<1> HIDE DEF got
<1>13. /\ reader'.pc = "next" /\ reader'.exact = reader.exact
       /\ reader'.directory = reader.directory /\ reader'.entries = reader.entries
  BY <1>1, <1>12 DEF Readers, Delivered
<1>14. Located(build, reader') /\ Listed(build, reader')
  BY <1>4, <1>13, Zenon DEF Located, Listed, Sought
<1> QED
  BY <1>13, <1>14, Zenon DEF OnTheWay

\* The launcher has nothing to write into a whole file.
LEMMA NothingToPatch ==
  ASSUME ReaderInv, Whole, file = Layout(builds[1]), Patch
  PROVE  FALSE
  BY DEF Whole, Patch

LEMMA SoundInvInit == ArchiveAssumption /\ ArchiveInit => SoundInv
<1> SUFFICES ASSUME ArchiveAssumption, ArchiveInit
             PROVE  OnTheWay(builds[1], reader)
  BY DEF SoundInv, ArchiveInit
<1>1. reader.pc = "end" /\ reader.entries = {} /\ reader.candidates = {}
  <2>1. PICK request \in Requests :
          reader = [pc |-> "end", exact |-> request.exact, wants |-> request.wants,
                    directory |-> None, at |-> 0, candidates |-> {}, entries |-> {},
                    entry |-> None, aligned |-> FALSE, units |-> << >>, read |-> << >>]
    BY DEF ArchiveInit
  <2> DEFINE exact == request.exact
             wants == request.wants
  <2>2. reader = [pc |-> "end", exact |-> exact, wants |-> wants,
                  directory |-> None, at |-> 0, candidates |-> {}, entries |-> {},
                  entry |-> None, aligned |-> FALSE, units |-> << >>, read |-> << >>]
    BY <2>1, Zenon
  <2> HIDE DEF exact, wants
  <2> QED
    BY <2>2
<1> QED
  BY <1>1, Zenon DEF OnTheWay, Fresh

LEMMA SoundInvStep ==
  ASSUME ArchiveAssumption, ReaderInv, SoundInv, [ArchiveNext]_archiveVars
  PROVE  SoundInv'
<1> SUFFICES ASSUME Whole'
             PROVE  file' = Layout(builds'[1]) /\ OnTheWay(builds'[1], reader')
  BY DEF SoundInv
<1>1. builds' = builds
  BY DEF ArchiveNext, archiveVars, Patch, Cancel, FindEnd, ReadLocator, ReadEnd64, Locate, Walk,
         Search, Examine, Admit, ReadNext, ReadHeader, ReadUnit, Finish, Go, Stop
<1>2. Whole
  BY <1>1 DEF Whole
<1> DEFINE build == builds[1]
<1>3. file = Layout(build) /\ OnTheWay(build, reader)
  BY <1>2 DEF SoundInv
<1>4. Steady(build)
  <2>1. build \in Builds
    BY OfBuilds DEF ReaderInv, FileOfBuilds
  <2>2. Sound(build)
    BY <1>2, Zenon DEF Whole
  <2> QED
    BY <1>3, <2>1, <2>2, Zenon DEF Steady
<1>5. ~ Patch
  BY <1>2, <1>3, NothingToPatch
<1>6. file' = file
  BY <1>5 DEF ArchiveNext, archiveVars, Cancel, FindEnd, ReadLocator, ReadEnd64, Locate, Walk,
         Search, Examine, Admit, ReadNext, ReadHeader, ReadUnit, Finish, Go, Stop
<1> HIDE DEF build
<1>7. OnTheWay(build, reader')
  <2>1. CASE UNCHANGED archiveVars
    <3>1. reader' = reader
      BY <2>1 DEF archiveVars
    <3> QED
      BY <1>3, <3>1, Zenon
  <2>2. CASE Cancel
    <3>1. reader' = [reader EXCEPT !.pc = "cancelled"]
      BY <2>2, Zenon DEF Cancel, Stop
    <3> QED
      BY <3>1, StopIsOnTheWay
  <2>3. CASE FindEnd
    BY <1>4, <2>3, FindEndOnTheWay
  <2>4. CASE ReadLocator
    BY <1>4, <2>4, ReadLocatorOnTheWay
  <2>5. CASE ReadEnd64
    BY <1>4, <2>5, ReadEnd64OnTheWay
  <2>6. CASE Walk
    BY <1>4, <2>6, WalkOnTheWay
  <2>7. CASE Search
    BY <1>4, <2>7, SearchOnTheWay
  <2>8. CASE Examine
    BY <1>4, <2>8, ExamineOnTheWay
  <2>9. CASE ReadNext
    BY <1>4, <2>9, ReadNextOnTheWay
  <2>10. CASE ReadHeader
    BY <1>4, <2>10, ReadHeaderOnTheWay
  <2>11. CASE ReadUnit
    BY <1>4, <2>11, ReadUnitOnTheWay
  <2>12. CASE Finish
    BY <1>4, <2>12, FinishOnTheWay
  <2> QED
    BY <1>5, <2>1, <2>2, <2>3, <2>4, <2>5, <2>6, <2>7, <2>8, <2>9, <2>10, <2>11, <2>12, Zenon
       DEF ArchiveNext
<1> QED
  BY <1>1, <1>3, <1>6, <1>7, Zenon DEF build

LEMMA SoundInvProperty ==
  ASSUME ArchiveAssumption, ReaderInv, SoundInv
  PROVE  SoundIsRead
<1> SUFFICES ASSUME builds[1] = builds[2], Sound(builds[1])
             PROVE  /\ reader.pc # "refused"
                    /\ reader.pc = "missing" =>
                         \A e \in EntriesOf("localization") : reader.exact /\ ~ Spelled(e.name)
  BY Zenon DEF SoundIsRead
<1> DEFINE build == builds[1]
<1>1. OnTheWay(build, reader) /\ build \in Builds
  BY OfBuilds DEF SoundInv, Whole, ReaderInv, FileOfBuilds
<1>2. reader.pc # "refused" /\ (reader.pc = "missing" => Unspelled(build, reader))
  BY <1>1 DEF OnTheWay
<1>3. ASSUME reader.pc = "missing", NEW e \in EntriesOf("localization")
      PROVE  reader.exact /\ ~ Spelled(e.name)
  <2>1. e \in Range(build.entries) /\ e.name.of = "localization"
    BY DEF EntriesOf
  <2>2. PICK m \in Numbers(build) : e = build.entries[m]
    BY <1>1, <2>1, EntriesOfBuild DEF Numbers
  <2> QED
    BY <1>2, <1>3, <2>1, <2>2, Zenon DEF Unspelled
<1> QED
  BY <1>2, <1>3

LEMMA ReaderInvariance ==
  ArchiveAssumption /\ ArchiveSpec => [](ReaderInv /\ ReadsInv /\ SoundInv)
<1>1. ASSUME ArchiveAssumption
      PROVE  ArchiveSpec => [](ReaderInv /\ ReadsInv /\ SoundInv)
  <2>1. ArchiveInit => ReaderInv /\ ReadsInv /\ SoundInv
    BY <1>1, ReaderInvInit, ReadsInvInit, SoundInvInit
  <2>2. ReaderInv /\ ReadsInv /\ SoundInv /\ [ArchiveNext]_archiveVars
        => ReaderInv' /\ ReadsInv' /\ SoundInv'
    BY <1>1, ReaderInvStep, ReadsInvStep, SoundInvStep
  <2> QED
    BY <2>1, <2>2, PTL DEF ArchiveSpec
<1> QED
  BY <1>1

\* Whatever the launcher writes between two reads, what is read of an archive
\* is an entry as one of the builds has it, and the destination of an
\* extraction is replaced by a whole entry or kept.  An archive that nobody
\* patches is never refused, and an entry it has is missed only by an exact
\* search for a name that is spelled otherwise.
THEOREM ArchiveReadsFaithfully == ArchiveAssumption /\ ArchiveSpec => []ReadsAreFaithful
<1>1. ASSUME ArchiveAssumption
      PROVE  ReaderInv /\ ReadsInv /\ SoundInv => ReadsAreFaithful
  BY <1>1, ReadsInvProperties, SoundInvProperty DEF ReadsAreFaithful
<1>2. ASSUME ArchiveAssumption
      PROVE  ArchiveSpec => []ReadsAreFaithful
  BY <1>1, <1>2, ReaderInvariance, PTL
<1> QED
  BY <1>2
=============================================================================
