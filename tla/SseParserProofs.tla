--------------------------- MODULE SseParserProofs ---------------------------
(***************************************************************************)
(* Proofs about SseParser, for bodies of any length and content, with any  *)
(* mixture of endings, and all ways to cut them into chunks that leave the *)
(* endings whole.                                                          *)
(***************************************************************************)
EXTENDS SseParser, Integers, FiniteSetTheorems, WellFoundedInduction, TLAPS

-----------------------------------------------------------------------------
(* What a sequence has at the positions of a set.                          *)

(* Those of a set with k - 1 members of the set before them.               *)
At(S, k) == {x \in S : Cardinality({y \in S : y < x}) = k - 1}

(* The members before x, and how many these are.                           *)
LEMMA Before ==
  ASSUME NEW S \in SUBSET Nat, IsFiniteSet(S)
  PROVE  /\ Cardinality(S) \in Nat
         /\ \A x : LET before == {y \in S : y < x} IN
              /\ IsFiniteSet(before) /\ Cardinality(before) \in Nat
              /\ Cardinality(before) <= Cardinality(S)
         /\ \A x \in S : Cardinality({y \in S : y < x}) < Cardinality(S)
<1>1. ASSUME NEW x
      PROVE  LET before == {y \in S : y < x} IN
               /\ IsFiniteSet(before) /\ Cardinality(before) \in Nat
               /\ Cardinality(before) <= Cardinality(S)
  <2> DEFINE before == {y \in S : y < x}
  <2>1. before \in SUBSET S
    OBVIOUS
  <2> QED
    BY <2>1, FS_Subset, FS_CardinalityType
<1>2. ASSUME NEW x \in S
      PROVE  Cardinality({y \in S : y < x}) < Cardinality(S)
  <2> DEFINE before == {y \in S : y < x}
  <2>1. before \in SUBSET S /\ before # S
    OBVIOUS
  <2>2. Cardinality(before) # Cardinality(S)
    BY <2>1, FS_Subset
  <2> HIDE DEF before
  <2>3. Cardinality(before) \in Nat /\ Cardinality(before) <= Cardinality(S)
    BY <1>1 DEF before
  <2>4. Cardinality(S) \in Nat
    BY FS_CardinalityType
  <2>5. Cardinality(before) < Cardinality(S)
    BY <2>2, <2>3, <2>4
  <2> QED
    BY <2>5 DEF before
<1> QED
  BY <1>1, <1>2, FS_CardinalityType

(* A position behind the others is the last one.                           *)
LEMMA NthAppend ==
  ASSUME NEW S \in SUBSET Nat, IsFiniteSet(S),
         NEW i \in Nat, \A j \in S : j < i
  PROVE  /\ Cardinality(S \cup {i}) = Cardinality(S) + 1
         /\ \A k \in 1..Cardinality(S) : Nth(S \cup {i}, k) = Nth(S, k)
         /\ Nth(S \cup {i}, Cardinality(S) + 1) = i
<1> DEFINE T == S \cup {i}
<1>0. i \notin S
  OBVIOUS
<1>1. Cardinality(T) = Cardinality(S) + 1
  BY <1>0, FS_AddElement
<1>2. \A x \in S : {y \in T : y < x} = {y \in S : y < x}
  OBVIOUS
<1>3. {y \in T : y < i} = S
  <2>1. ~(i < i) /\ \A y \in T : y < i => y \in S
    OBVIOUS
  <2>2. \A y \in S : y \in T /\ y < i
    OBVIOUS
  <2> QED
    BY <2>1, <2>2
<1>4. Cardinality(S) \in Nat /\ \A x \in S : Cardinality({y \in S : y < x}) < Cardinality(S)
  BY Before
<1>5. ASSUME NEW k \in 1..Cardinality(S)
      PROVE  Nth(T, k) = Nth(S, k)
  <2>1. k - 1 # Cardinality(S)
    BY <1>4
  <2>2. At(T, k) = At(S, k)
    BY <1>2, <1>3, <2>1 DEF At
  <2> QED
    BY <2>2 DEF Nth, At
<1>6. Nth(T, Cardinality(S) + 1) = i
  <2>1. \A x \in S : Cardinality({y \in S : y < x}) # (Cardinality(S) + 1) - 1
    <3>1. \A x \in S : Cardinality({y \in S : y < x}) \in Nat
      BY Before
    <3> QED
      BY <1>4, <3>1
  <2>2. Cardinality(S) = (Cardinality(S) + 1) - 1
    BY <1>4
  <2>3. At(T, Cardinality(S) + 1) = {i}
    BY <1>2, <1>3, <2>1, <2>2 DEF At
  <2> QED
    BY <2>3 DEF Nth, At
<1> QED
  BY <1>1, <1>5, <1>6

LEMMA PickAppend ==
  ASSUME NEW S \in SUBSET Nat, IsFiniteSet(S),
         NEW i \in Nat, \A j \in S : j < i, NEW f
  PROVE  Pick(f, S \cup {i}) = Append(Pick(f, S), f[i])
<1> DEFINE n == Cardinality(S)
           V == {f[Nth(S, k)] : k \in 1..n}
<1>1. n \in Nat
  BY FS_CardinalityType
<1>2. Pick(f, S) \in Seq(V) /\ Len(Pick(f, S)) = n
  BY <1>1 DEF Pick
<1>3. Pick(f, S \cup {i}) = [k \in 1..(n + 1) |-> f[Nth(S \cup {i}, k)]]
  BY NthAppend DEF Pick
<1>4. \A k \in 1..n : f[Nth(S \cup {i}, k)] = Pick(f, S)[k]
  BY NthAppend DEF Pick
<1>5. f[Nth(S \cup {i}, n + 1)] = f[i]
  BY NthAppend
<1> DEFINE s == Pick(f, S)
<1> HIDE DEF n, V, s
<1>6. Append(s, f[i]) = [k \in 1..(n + 1) |-> IF k = n + 1 THEN f[i] ELSE s[k]]
  BY <1>1, <1>2 DEF s
<1>7. \A k \in 1..(n + 1) :
        f[Nth(S \cup {i}, k)] = IF k = n + 1 THEN f[i] ELSE s[k]
  BY <1>1, <1>4, <1>5 DEF s
<1> QED
  BY <1>3, <1>6, <1>7 DEF s

LEMMA PickEmpty == ASSUME NEW f PROVE Pick(f, {}) = <<>>
BY FS_EmptySet DEF Pick

(* The positions up to n come first.                                       *)
LEMMA PickPrefix ==
  ASSUME NEW S \in SUBSET Nat, IsFiniteSet(S), NEW n \in Int, NEW f
  PROVE  IsPrefix(Pick(f, {i \in S : i <= n}), Pick(f, S))
<1> DEFINE T == {i \in S : i <= n}
           s == Pick(f, T)
           t == Pick(f, S)
<1>1. T \in SUBSET S
  OBVIOUS
<1>2. IsFiniteSet(T) /\ Cardinality(T) <= Cardinality(S)
  BY <1>1, FS_Subset
<1>3. Cardinality(S) \in Nat /\ Cardinality(T) \in Nat
  BY <1>2, FS_CardinalityType
<1>4. ASSUME NEW k \in 1..Cardinality(T)
      PROVE  Nth(T, k) = Nth(S, k)
  <2>1. ASSUME NEW x \in T
        PROVE  {y \in T : y < x} = {y \in S : y < x}
    <3>1. ASSUME NEW y \in S, y < x
          PROVE  y \in T
      <4>1. x \in Int /\ y \in Int /\ x <= n
        OBVIOUS
      <4> QED
        BY <3>1, <4>1
    <3> QED
      BY <1>1, <3>1
  <2>2. ASSUME NEW x \in S, x \notin T
        PROVE  Cardinality({y \in S : y < x}) # k - 1
    <3> DEFINE before == {y \in S : y < x}
    <3>1. T \in SUBSET before
      <4>1. x \in Int /\ ~(x <= n)
        BY <2>2
      <4>2. ASSUME NEW y \in T
            PROVE  y \in S /\ y < x
        <5>1. y \in Int /\ y <= n
          OBVIOUS
        <5> QED
          BY <4>1, <5>1
      <4> QED
        BY <4>2
    <3>2. IsFiniteSet(before) /\ Cardinality(before) \in Nat
      BY Before
    <3>3. Cardinality(T) <= Cardinality(before)
      BY <3>1, <3>2, FS_Subset
    <3> HIDE DEF before, T
    <3>4. Cardinality(before) # k - 1
      BY <1>3, <3>2, <3>3
    <3> QED
      BY <3>4 DEF before
  <2>3. At(T, k) = At(S, k)
    BY <1>1, <2>1, <2>2 DEF At
  <2> QED
    BY <2>3 DEF Nth, At
<1> HIDE DEF T
<1>5. \A k \in 1..Cardinality(T) : s[k] = t[k]
  BY <1>2, <1>3, <1>4 DEF Pick
<1>6. /\ Len(s) = Cardinality(T) /\ Len(t) = Cardinality(S)
      /\ s \in Seq({s[k] : k \in 1..Cardinality(T)})
      /\ t \in Seq({t[k] : k \in 1..Cardinality(S)})
  BY <1>3 DEF Pick
<1> HIDE DEF s, t
<1>7. SubSeq(s, 1, Len(s)) = SubSeq(t, 1, Len(s))
  BY <1>2, <1>3, <1>5, <1>6
<1>8. IsPrefix(s, t)
  BY <1>2, <1>3, <1>6, <1>7 DEF IsPrefix
<1> QED
  BY <1>8 DEF s, t, T

(* No position is left out.                                                *)
LEMMA PickHas ==
  ASSUME NEW S \in SUBSET Nat, IsFiniteSet(S), NEW i \in S, NEW f
  PROVE  f[i] \in ToSet(Pick(f, S))
<1> DEFINE before(x) == {y \in S : y < x}
           k == Cardinality(before(i)) + 1
<1>1. /\ Cardinality(S) \in Nat
      /\ \A x : IsFiniteSet(before(x)) /\ Cardinality(before(x)) \in Nat
      /\ Cardinality(before(i)) < Cardinality(S)
  BY Before
<1>2. k \in 1..Cardinality(S)
  BY <1>1
<1>3. ASSUME NEW x \in S, NEW y \in S, x < y
      PROVE  Cardinality(before(x)) # Cardinality(before(y))
  <2>1. x \in Int /\ y \in Int /\ ~(x < x)
    OBVIOUS
  <2>2. \A z \in before(x) : z \in before(y)
    <3>1. ASSUME NEW z \in S, z < x
          PROVE  z < y
      <4>1. z \in Int
        OBVIOUS
      <4> QED
        BY <1>3, <2>1, <3>1, <4>1
    <3> QED
      BY <3>1
  <2>3. before(x) \in SUBSET before(y) /\ x \in before(y) /\ x \notin before(x)
    BY <1>3, <2>1, <2>2
  <2> QED
    BY <1>1, <2>3, FS_Subset
<1>4. \A x \in S : x # i => Cardinality(before(x)) # Cardinality(before(i))
  BY <1>3
<1>5. Cardinality(before(i)) = k - 1
  <2> HIDE DEF before
  <2> QED
    BY <1>1
<1>6. At(S, k) = {i}
  BY <1>4, <1>5 DEF At
<1>7. Nth(S, k) = i
  BY <1>6 DEF Nth, At
<1> HIDE DEF k
<1>8. Pick(f, S)[k] = f[i] /\ DOMAIN Pick(f, S) = 1..Cardinality(S)
  BY <1>2, <1>7 DEF Pick
<1> QED
  BY <1>2, <1>8 DEF ToSet

-----------------------------------------------------------------------------
(* Lines of a text.                                                        *)

LEMMA LinesFinite ==
  ASSUME NEW text, NEW i \in Nat, NEW field
  PROVE  /\ LinesOf(text, i, field) \in SUBSET Nat
         /\ IsFiniteSet(LinesOf(text, i, field))
         /\ \A j \in LinesOf(text, i, field) : j < i
<1>1. LinesOf(text, i, field) \in SUBSET (1..(i - 1))
  BY DEF LinesOf
<1>2. IsFiniteSet(1..(i - 1))
  BY FS_Interval
<1> QED
  BY <1>1, <1>2, FS_Subset

(* The lines of an event go on until an empty line.                        *)
LEMMA LinesGoOn ==
  ASSUME NEW text, NEW p \in Nat, p > 0, NEW q \in Nat, p <= q, NEW field,
         \A k \in p..(q - 1) : ~EmptyLine(text, k)
  PROVE  LinesOf(text, q, field) =
           LinesOf(text, p, field) \cup
             {j \in p..(q - 1) : text[j].field = field /\ j < Len(text)}
<1>1. ASSUME NEW j \in 1..(q - 1)
      PROVE  (\A k \in j..(q - 1) : ~EmptyLine(text, k))
               <=> j \in p..(q - 1) \/ \A k \in j..(p - 1) : ~EmptyLine(text, k)
  <2>1. \A k \in j..(q - 1) : k \in j..(p - 1) \/ k \in p..(q - 1)
    OBVIOUS
  <2>2. \A k \in j..(p - 1) : k \in j..(q - 1)
    OBVIOUS
  <2>3. j \in p..(q - 1) => \A k \in j..(q - 1) : k \in p..(q - 1)
    OBVIOUS
  <2> QED
    BY <2>1, <2>2, <2>3
<1>2. \A j : j \in 1..(q - 1) <=> j \in 1..(p - 1) \/ j \in p..(q - 1)
  OBVIOUS
<1>3. \A j \in p..(q - 1) : j \notin 1..(p - 1)
  OBVIOUS
<1> QED
  BY <1>1, <1>2, <1>3 DEF LinesOf

LEMMA LinesBeginAgain ==
  ASSUME NEW text, NEW i \in Nat, EmptyLine(text, i), NEW field
  PROVE  LinesOf(text, i + 1, field) = {}
<1>1. \A j \in 1..i : i \in j..i
  OBVIOUS
<1>2. (i + 1) - 1 = i
  OBVIOUS
<1> QED
  BY <1>1, <1>2 DEF LinesOf

LEMMA ValuesBeginAgain ==
  ASSUME NEW text, NEW i \in Nat, EmptyLine(text, i), NEW field
  PROVE  Values(text, i + 1, field) = <<>>
BY LinesBeginAgain, PickEmpty DEF Values

(* An ending is no line of any field.                                      *)
LEMMA EndingHasNoField ==
  \A token \in {CR, LF}, field \in Fields : token.field # field
<1>1. CR.field = "CR" /\ LF.field = "LF"
  BY DEF CR, LF
<1>2. "CR" \notin Fields /\ "LF" \notin Fields
  BY DEF Fields
<1> QED
  BY <1>1, <1>2

(* A line and its ending, of one or two tokens.                            *)
LEMMA LineRead ==
  ASSUME NEW text \in Seq(Tokens), NEW p \in 1..(Len(text) - 1), NEW q \in p..(Len(text) + 1),
         text[p] \notin {CR, LF},
         \A k \in (p + 1)..(q - 1) : text[k] \in {CR, LF},
         \A k \in p..(q - 1) : ~EmptyLine(text, k),
         NEW field \in Fields, p < q
  PROVE  /\ LinesOf(text, q, field) =
              IF text[p].field = field THEN LinesOf(text, p, field) \cup {p}
                                       ELSE LinesOf(text, p, field)
         /\ Values(text, q, field) =
              IF text[p].field = field THEN Append(Values(text, p, field), text[p].value)
                                       ELSE Values(text, p, field)
<1>0. p \in Nat /\ p > 0 /\ q \in Nat /\ p <= q
  OBVIOUS
<1>1. \A k \in (p + 1)..(q - 1) : text[k].field # field
  BY EndingHasNoField
<1>2. \A j : j \in p..(q - 1) <=> j = p \/ j \in (p + 1)..(q - 1)
  OBVIOUS
<1>3. p < Len(text)
  OBVIOUS
<1>4. {j \in p..(q - 1) : text[j].field = field /\ j < Len(text)} =
        IF text[p].field = field THEN {p} ELSE {}
  BY <1>1, <1>2, <1>3
<1>5. LinesOf(text, q, field) =
        IF text[p].field = field THEN LinesOf(text, p, field) \cup {p}
                                 ELSE LinesOf(text, p, field)
  <2>1. LinesOf(text, q, field) =
          LinesOf(text, p, field) \cup
            {j \in p..(q - 1) : text[j].field = field /\ j < Len(text)}
    BY <1>0, LinesGoOn
  <2> QED
    BY <1>4, <2>1
<1> DEFINE seq == [j \in 1..Len(text) |-> text[j].value]
<1>6. Pick(seq, LinesOf(text, p, field) \cup {p}) =
        Append(Pick(seq, LinesOf(text, p, field)), seq[p])
  <2> HIDE DEF seq
  <2>1. /\ LinesOf(text, p, field) \in SUBSET Nat /\ IsFiniteSet(LinesOf(text, p, field))
        /\ \A j \in LinesOf(text, p, field) : j < p
    BY <1>0, LinesFinite
  <2> QED
    BY <1>0, <2>1, PickAppend
<1>7. seq[p] = text[p].value
  OBVIOUS
<1> QED
  BY <1>5, <1>6, <1>7 DEF Values

(* Endings without a line before them, and a line without an ending.       *)
LEMMA NothingRead ==
  ASSUME NEW text \in Seq(Tokens), NEW p \in Nat, p > 0, NEW q \in p..(Len(text) + 1),
         \A k \in p..(q - 1) : ~EmptyLine(text, k),
         \A k \in p..(q - 1) : text[k] \in {CR, LF} \/ k = Len(text),
         NEW field \in Fields
  PROVE  /\ LinesOf(text, q, field) = LinesOf(text, p, field)
         /\ Values(text, q, field) = Values(text, p, field)
<1>0. q \in Nat /\ p <= q
  OBVIOUS
<1>1. \A j \in p..(q - 1) : text[j].field # field \/ ~(j < Len(text))
  BY EndingHasNoField
<1>2. LinesOf(text, q, field) = LinesOf(text, p, field)
  <2>1. LinesOf(text, q, field) =
          LinesOf(text, p, field) \cup
            {j \in p..(q - 1) : text[j].field = field /\ j < Len(text)}
    BY <1>0, LinesGoOn
  <2> QED
    BY <1>1, <2>1
<1> QED
  BY <1>2 DEF Values

(* An event is what the parser has kept up to its end.                     *)
LEMMA EventKept ==
  ASSUME NEW text \in Seq(Tokens), NEW p \in Nat, p > 0, NEW q \in p..(Len(text) + 1),
         \A k \in p..(q - 1) : ~EmptyLine(text, k),
         \A k \in p..(q - 1) : text[k] \in {CR, LF} \/ k = Len(text),
         LinesOf(text, p, "invalid") = {}
  PROVE  EventAt(text, q) =
           FinishEvent(LastOf(Values(text, p, "event")), Values(text, p, "data"))
<1>1. "event" \in Fields /\ "data" \in Fields /\ "invalid" \in Fields
  BY DEF Fields
<1> QED
  BY <1>1, NothingRead DEF EventAt

-----------------------------------------------------------------------------
(* Events of a text.                                                       *)

LEMMA EndsFinite ==
  ASSUME NEW text \in Seq(Tokens), NEW n \in Int
  PROVE  /\ EventEnds(text) \in SUBSET Nat /\ IsFiniteSet(EventEnds(text))
         /\ {i \in EventEnds(text) : i <= n} \in SUBSET Nat
         /\ IsFiniteSet({i \in EventEnds(text) : i <= n})
<1>1. EventEnds(text) \in SUBSET (1..(Len(text) + 1))
  BY DEF EventEnds
<1>2. IsFiniteSet(1..(Len(text) + 1))
  BY FS_Interval
<1>3. IsFiniteSet(EventEnds(text))
  BY <1>1, <1>2, FS_Subset
<1>4. {i \in EventEnds(text) : i <= n} \in SUBSET EventEnds(text)
  OBVIOUS
<1> QED
  BY <1>1, <1>3, <1>4, FS_Subset

LEMMA EventsToIsPrefix ==
  ASSUME NEW text \in Seq(Tokens), NEW n \in Int
  PROVE  IsPrefix(EventsTo(text, n), Events(text))
<1> DEFINE L == Len(text) + 1
           ends(m) == {i \in EventEnds(text) : i <= m}
<1>1. ends(L) = EventEnds(text)
  BY DEF EventEnds
<1>2. IsPrefix(Pick([i \in 1..L |-> EventAt(text, i)], ends(n)),
               Pick([i \in 1..L |-> EventAt(text, i)], EventEnds(text)))
  BY EndsFinite, PickPrefix
<1> QED
  BY <1>1, <1>2 DEF Events, EventsTo

(* No event ends between p and q, but maybe one at q.                      *)
LEMMA EventsGoOn ==
  ASSUME NEW text \in Seq(Tokens), NEW p \in Nat, NEW q \in Nat, p < q, q <= Len(text) + 1,
         \A k \in (p + 1)..(q - 1) : ~EmptyLine(text, k)
  PROVE  EventsTo(text, q) =
           IF q \in EventEnds(text)
             THEN Append(EventsTo(text, p), EventAt(text, q))
             ELSE EventsTo(text, p)
<1> DEFINE L == Len(text) + 1
           ends(m) == {i \in EventEnds(text) : i <= m}
           seq == [i \in 1..L |-> EventAt(text, i)]
<1>1. \A k \in (p + 1)..(q - 1) : k \notin EventEnds(text)
  BY DEF EventEnds
<1>2. EventEnds(text) \in SUBSET (1..L)
  BY DEF EventEnds
<1>3. \A k \in 1..L : k <= q <=> k <= p \/ k \in (p + 1)..(q - 1) \/ k = q
  OBVIOUS
<1>4. ends(q) = IF q \in EventEnds(text) THEN ends(p) \cup {q} ELSE ends(p)
  BY <1>1, <1>2, <1>3
<1>5. ends(p) \in SUBSET Nat /\ IsFiniteSet(ends(p)) /\ \A j \in ends(p) : j < q
  <2>1. ends(p) \in SUBSET Nat /\ IsFiniteSet(ends(p))
    BY EndsFinite
  <2>2. ASSUME NEW j \in ends(p)
        PROVE  j < q
    <3>1. j \in Nat /\ j <= p
      BY <2>1
    <3> QED
      BY <3>1
  <2> QED
    BY <2>1, <2>2
<1> HIDE DEF ends, seq
<1>6. Pick(seq, ends(p) \cup {q}) = Append(Pick(seq, ends(p)), seq[q])
  BY <1>5, PickAppend
<1>7. q \in 1..L => seq[q] = EventAt(text, q)
  BY DEF seq
<1> QED
  BY <1>2, <1>4, <1>6, <1>7 DEF EventsTo, ends, seq

LEMMA NoEventsYet ==
  ASSUME NEW text \in Seq(Tokens)
  PROVE  EventsTo(text, 0) = <<>>
<1>1. {i \in EventEnds(text) : i <= 0} = {}
  BY DEF EventEnds
<1> QED
  BY <1>1, PickEmpty DEF EventsTo

LEMMA EventIsThere ==
  ASSUME NEW text \in Seq(Tokens), NEW i \in EventEnds(text)
  PROVE  EventAt(text, i) \in ToSet(Events(text))
<1> DEFINE L == Len(text) + 1
           seq == [j \in 1..L |-> EventAt(text, j)]
<1>1. EventEnds(text) \in SUBSET (1..L)
  BY DEF EventEnds
<1>2. {j \in EventEnds(text) : j <= L} = EventEnds(text)
  BY <1>1
<1>3. seq[i] = EventAt(text, i)
  BY <1>1
<1> HIDE DEF seq
<1>4. seq[i] \in ToSet(Pick(seq, EventEnds(text)))
  <2>1. EventEnds(text) \in SUBSET Nat /\ IsFiniteSet(EventEnds(text))
    BY EndsFinite, 0 \in Int
  <2> QED
    BY <2>1, PickHas
<1> QED
  BY <1>2, <1>3, <1>4 DEF Events, EventsTo, seq

-----------------------------------------------------------------------------
(* What is buffered.                                                       *)

LEMMA TokensApart ==
  /\ CR # LF
  /\ \A line \in Line : line \notin {CR, LF} /\ line.field \in Fields /\ line.value \in Texts
  /\ \A token \in Tokens : token \in Line \/ token \in {CR, LF}
<1>1. CR.field = "CR" /\ LF.field = "LF"
  BY DEF CR, LF
<1>2. "CR" \notin Fields /\ "LF" \notin Fields
  BY DEF Fields
<1>3. \A line \in Line : line.field \in Fields /\ line.value \in Texts
  BY DEF Line
<1>4. CR # LF
  BY <1>1
<1> QED
  BY <1>1, <1>2, <1>3, <1>4 DEF Tokens

(* next_line finds the first ending: at once, or behind a line.            *)
LEMMA FirstEnd ==
  ASSUME TypeOK, BufferInv, LineEnds # {}
  PROVE  \/ /\ LineEnd = 1 /\ Len(buffer) >= 1
            /\ buffer[1] \in {CR, LF}
         \/ /\ LineEnd = 2 /\ Len(buffer) >= 2
            /\ buffer[1] \in Line /\ buffer[2] \in {CR, LF}
<1>1. /\ Len(buffer) \in Nat /\ received \in Nat /\ Len(body) \in Nat
      /\ received <= Len(body) /\ Taken \in Nat
      /\ Taken + Len(buffer) = received
  BY DEF TypeOK, BufferInv, Taken
<1>2. PICK e \in 1..Len(buffer) : buffer[e] \in {CR, LF}
  BY DEF LineEnds
<1>3. CASE buffer[1] \in {CR, LF}
  <2>1. 1 \in LineEnds /\ \A j \in LineEnds : 1 <= j
    BY <1>1, <1>2, <1>3 DEF LineEnds
  <2>2. \A i \in LineEnds : (\A j \in LineEnds : i <= j) => i = 1
    BY <1>1, <2>1 DEF LineEnds
  <2>3. LineEnd = 1
    BY <2>1, <2>2 DEF LineEnd
  <2> QED
    BY <1>1, <1>2, <1>3, <2>3
<1>4. CASE buffer[1] \notin {CR, LF}
  <2>1. Len(buffer) >= 2
    BY <1>1, <1>2, <1>4
  <2>2. buffer[1] = body[Taken + 1] /\ buffer[2] = body[Taken + 2]
    BY <1>1, <2>1 DEF BufferInv
  <2>3. Taken + 1 \in 1..(Len(body) - 1) /\ (Taken + 1) + 1 = Taken + 2
    BY <1>1, <2>1
  <2>4. buffer[2] \in {CR, LF}
    BY <1>4, <2>2, <2>3 DEF TypeOK, IsBody
  <2>5. 2 \in LineEnds /\ \A j \in LineEnds : 2 <= j
    BY <1>1, <1>4, <2>1, <2>4 DEF LineEnds
  <2>6. \A i \in LineEnds : (\A j \in LineEnds : i <= j) => i = 2
    BY <1>1, <2>5 DEF LineEnds
  <2>7. LineEnd = 2
    BY <2>5, <2>6 DEF LineEnd
  <2>8. buffer[1] \in Line
    <3>1. buffer[1] \in Tokens
      BY <2>1 DEF TypeOK
    <3> QED
      BY <1>4, <3>1, TokensApart
  <2> QED
    BY <2>1, <2>4, <2>7, <2>8
<1> QED
  BY <1>3, <1>4

(* What TakeLine takes is a line of the body with all of its ending.       *)
LEMMA LineTaken ==
  ASSUME TypeOK, BufferInv, TakeLine
  PROVE  LET first == Taken + LineEnd IN
         /\ Taken \in Nat /\ LineEnd \in {1, 2}
         /\ buffer' \in Seq(Tokens) /\ Len(buffer') <= received
         /\ Taken' \in Nat /\ first <= Taken' /\ Taken' <= received
         /\ \A i \in 1..Len(buffer') : buffer'[i] = body[Taken' + i]
         /\ \A k \in first..Taken' : body[k] \in {CR, LF}
         /\ \A k \in first..(Taken' - 1) : ~EndsLine(body, k)
         /\ EndsLine(body, Taken')
         /\ LineEnd = 2 =>
              /\ Taken + 1 < Len(body)
              /\ buffer[1] = body[Taken + 1] /\ buffer[1] \in Line
              /\ ~EmptyLine(body, Taken')
         /\ LineEnd = 1 => EmptyLine(body, Taken')
<1> DEFINE first == Taken + LineEnd
<1>1. /\ Len(buffer) \in Nat /\ received \in Nat /\ Len(body) \in Nat
      /\ received <= Len(body) /\ Taken \in Nat
      /\ Taken + Len(buffer) = received
      /\ buffer \in Seq(Tokens) /\ body \in Seq(Tokens)
  <2>1. Len(buffer) \in Nat /\ Len(body) \in Nat /\ received \in Nat /\ received <= Len(body)
    BY DEF TypeOK
  <2>2. Len(buffer) <= received
    BY DEF BufferInv
  <2> QED
    BY <2>1, <2>2 DEF TypeOK, Taken
<1>2. LineEnds # {} /\ pc = "push" /\ body' = body /\ received' = received
  BY DEF TakeLine, source
<1>3. LineEnd \in {1, 2} /\ LineEnd <= Len(buffer) /\ buffer[LineEnd] \in {CR, LF}
  BY <1>1, <1>2, FirstEnd
<1>4. \A i \in 1..Len(buffer) : buffer[i] = body[Taken + i] /\ Taken + i <= received
  BY <1>1 DEF BufferInv
<1>5. CrLfAt(buffer, LineEnd) <=> CrLfAt(body, first)
  <2>1. CASE LineEnd < Len(buffer)
    <3>1. buffer[LineEnd] = body[first] /\ buffer[LineEnd + 1] = body[first + 1]
      <4>1. LineEnd + 1 \in 1..Len(buffer) /\ Taken + (LineEnd + 1) = first + 1
        BY <1>1, <1>3, <2>1
      <4> QED
        BY <1>1, <1>3, <1>4, <4>1
    <3>2. first < Len(body)
      BY <1>1, <1>3, <2>1
    <3> QED
      BY <2>1, <3>1, <3>2 DEF CrLfAt
  <2>2. CASE LineEnd = Len(buffer)
    <3>1. first = received
      BY <1>1, <2>2
    <3>2. ~CrLfAt(body, received)
      BY <1>2 DEF BufferInv
    <3> QED
      BY <1>1, <2>2, <3>1, <3>2 DEF CrLfAt
  <2> QED
    BY <1>1, <1>3, <2>1, <2>2
<1>6. EndingLen = 2 => LineEnd + 1 <= Len(buffer)
  BY <1>1, <1>3 DEF EndingLen, CrLfAt
<1>7. /\ EndingLen \in {1, 2} /\ LineEnd + EndingLen - 1 <= Len(buffer)
  BY <1>1, <1>3, <1>6 DEF EndingLen
<1> DEFINE taken == first + EndingLen - 1
<1>8. /\ buffer' \in Seq(Tokens)
      /\ Len(buffer') = Len(buffer) - (LineEnd + EndingLen - 1)
      /\ \A i \in 1..Len(buffer') :
           buffer'[i] = buffer[(LineEnd + EndingLen - 1) + i]
  <2>1. buffer' = SubSeq(buffer, LineEnd + EndingLen, Len(buffer))
    BY DEF TakeLine
  <2> QED
    BY <1>1, <1>3, <1>7, <2>1
<1>9. Taken' = taken
  BY <1>1, <1>2, <1>3, <1>7, <1>8 DEF Taken
<1>10. taken \in Nat /\ first <= taken /\ taken <= received /\ first \in 1..Len(body)
  BY <1>1, <1>3, <1>7
<1>11. \A i \in 1..Len(buffer') : buffer'[i] = body[taken + i]
  <2> SUFFICES ASSUME NEW i \in 1..Len(buffer')
               PROVE  buffer'[i] = body[taken + i]
    OBVIOUS
  <2> DEFINE j == (LineEnd + EndingLen - 1) + i
  <2>1. j \in 1..Len(buffer) /\ Taken + j = taken + i
    BY <1>1, <1>3, <1>7, <1>8
  <2> QED
    BY <1>4, <1>8, <2>1
<1>12. body[first] \in {CR, LF} /\ body[first] = buffer[LineEnd]
  BY <1>1, <1>3, <1>4
<1>13. /\ \A k \in first..taken : body[k] \in {CR, LF}
       /\ \A k \in first..(taken - 1) : ~EndsLine(body, k)
       /\ EndsLine(body, taken)
       /\ taken = first \/ (taken = first + 1 /\ CrLfAt(body, first))
       /\ taken = first => ~CrLfAt(body, first)
  <2>1. CASE EndingLen = 1
    <3>1. ~CrLfAt(body, first) /\ taken = first
      BY <1>5, <1>10, <2>1 DEF EndingLen
    <3>2. EndsLine(body, first)
      BY <1>10, <1>12, <3>1 DEF EndsLine
    <3> HIDE DEF first, taken
    <3> QED
      BY <1>10, <1>12, <3>1, <3>2
  <2>2. CASE EndingLen = 2
    <3>1. CrLfAt(body, first) /\ taken = first + 1
      BY <1>1, <1>3, <1>5, <1>10, <2>2 DEF EndingLen
    <3>2. body[first] = CR /\ body[first + 1] = LF
      BY <3>1 DEF CrLfAt
    <3>3. ~EndsLine(body, first)
      BY <3>1, <3>2, TokensApart DEF EndsLine
    <3>4. first + 1 \in 1..Len(body)
      BY <1>1, <1>10, <3>1
    <3>5. EndsLine(body, first + 1)
      BY <3>2, <3>4 DEF EndsLine
    <3> HIDE DEF first, taken
    <3> QED
      BY <1>10, <1>12, <3>1, <3>2, <3>3, <3>5
  <2> QED
    BY <1>7, <2>1, <2>2
<1>14. ASSUME LineEnd = 2
       PROVE  /\ Taken + 1 < Len(body)
              /\ buffer[1] = body[Taken + 1] /\ buffer[1] \in Line
              /\ ~EmptyLine(body, taken)
  <2>1. buffer[1] \in Line /\ Len(buffer) >= 2
    BY <1>2, <1>14, FirstEnd
  <2>2. Taken + 1 < Len(body) /\ buffer[1] = body[Taken + 1]
    BY <1>1, <1>4, <2>1
  <2>3. body[Taken + 1] \notin {CR, LF}
    BY <2>1, <2>2, TokensApart
  <2>4. ~EndsLine(body, Taken + 1)
    BY <2>3 DEF EndsLine
  <2>5. first = Taken + 2
    BY <1>14
  <2>6. CASE taken = first
    <3>1. ~CrLfAt(body, taken - 1)
      BY <1>1, <2>3, <2>5, <2>6 DEF CrLfAt
    <3>2. taken - 1 = Taken + 1 /\ Taken + 1 # 0
      BY <1>1, <2>5, <2>6
    <3> QED
      BY <2>1, <2>2, <2>4, <3>1, <3>2 DEF EmptyLine
  <2>7. CASE taken = first + 1 /\ CrLfAt(body, first)
    <3>1. taken - 1 = first /\ taken > 1 /\ taken - 2 = Taken + 1 /\ Taken + 1 # 0
      BY <1>1, <2>5, <2>7
    <3>2. CrLfAt(body, taken - 1)
      BY <2>7, <3>1
    <3> HIDE DEF taken, first
    <3> QED
      BY <2>1, <2>2, <2>4, <3>1, <3>2 DEF EmptyLine
  <2>8. taken = first \/ (taken = first + 1 /\ CrLfAt(body, first))
    BY <1>13
  <2> HIDE DEF first, taken
  <2> QED
    BY <2>1, <2>2, <2>6, <2>7, <2>8
<1>15. ASSUME LineEnd = 1
       PROVE  EmptyLine(body, taken)
  <2>1. first = Taken + 1
    BY <1>15
  <2>2. Taken = 0 \/ EndsLine(body, Taken)
    BY DEF BufferInv
  <2>3. CASE taken = first
    <3>1. ASSUME taken > 1, CrLfAt(body, taken - 1)
          PROVE  FALSE
      <4>1. taken - 1 = Taken /\ Taken # 0
        BY <1>1, <2>1, <2>3, <3>1
      <4>2. body[Taken] = CR
        BY <3>1, <4>1 DEF CrLfAt
      <4> QED
        BY <2>2, <3>1, <4>1, <4>2, TokensApart DEF EndsLine
    <3>2. taken - 1 = Taken
      BY <1>1, <2>1, <2>3
    <3> QED
      BY <1>13, <2>2, <3>1, <3>2 DEF EmptyLine
  <2>4. CASE taken = first + 1 /\ CrLfAt(body, first)
    <3>1. taken - 1 = first /\ taken > 1 /\ taken - 2 = Taken
      BY <1>1, <2>1, <2>4
    <3> QED
      BY <1>13, <2>2, <2>4, <3>1 DEF EmptyLine
  <2> QED
    BY <1>13, <2>3, <2>4
<1> HIDE DEF first, taken
<1>16. Len(buffer') <= received
  BY <1>1, <1>3, <1>7, <1>8
<1> QED
  BY <1>1, <1>3, <1>8, <1>9, <1>10, <1>11, <1>13, <1>14, <1>15, <1>16 DEF first
-----------------------------------------------------------------------------
(* Types.                                                                  *)

LEMMA Least ==
  ASSUME NEW S \in SUBSET Nat, S # {}
  PROVE  \E x \in S : \A y \in S : x <= y
<1>1. PICK x \in S : \A y \in S : <<y, x>> \notin OpToRel(<, Nat)
  BY NatLessThanWellFounded, WFMin
<1>2. ASSUME NEW y \in S
      PROVE  x <= y
  <2>1. x \in Nat /\ y \in Nat /\ ~(y < x)
    BY <1>1 DEF OpToRel
  <2> QED
    BY <2>1
<1> QED
  BY <1>2

LEMMA LineEndIsFirst ==
  ASSUME buffer \in Seq(Tokens), LineEnds # {}
  PROVE  LineEnd \in LineEnds /\ \A j \in LineEnds : LineEnd <= j
<1>1. LineEnds \in SUBSET Nat
  BY DEF LineEnds
<1>2. \E i \in LineEnds : \A j \in LineEnds : i <= j
  BY <1>1, Least
<1> QED
  BY <1>2 DEF LineEnd

LEMMA EventType ==
  ASSUME NEW type, NEW data \in Seq(Texts)
  PROVE  /\ FinishEvent(type, data) \in Event \cup {NoEvent, Invalid}
         /\ NoEvent # Invalid /\ NoEvent \notin Event /\ Invalid \notin Event
<1>1. NoEvent.kind = "none" /\ Invalid.kind = "invalid"
  BY DEF NoEvent, Invalid
<1>2. \A event \in Event : event.kind \in {"data", "checkpoint"}
  BY DEF Event
<1>3. [kind |-> "data", data |-> data] \in Event /\ [kind |-> "checkpoint", data |-> data] \in Event
  BY DEF Event
<1>4. FinishEvent(type, data) \in Event \cup {NoEvent, Invalid}
  BY <1>3 DEF FinishEvent
<1> QED
  BY <1>1, <1>2, <1>4

(* What a step does to the types of what the parser keeps.                 *)
LEMMA TakeLineType ==
  ASSUME TypeOK, TakeLine
  PROVE  /\ buffer' \in Seq(Tokens) /\ body' = body /\ received' = received
         /\ yielded' = yielded
         /\ LineEnd \in Nat
         /\ LineEnd > 1 => buffer[1] \in Line
<1>1. LineEnds # {} /\ buffer \in Seq(Tokens)
  BY DEF TakeLine, TypeOK
<1>2. LineEnd \in LineEnds /\ \A j \in LineEnds : LineEnd <= j
  BY <1>1, LineEndIsFirst
<1>3. LineEnd \in 1..Len(buffer) /\ EndingLen \in {1, 2}
  BY <1>2 DEF LineEnds, EndingLen
<1>4. buffer' \in Seq(Tokens)
  <2>1. buffer' = SubSeq(buffer, LineEnd + EndingLen, Len(buffer))
    BY DEF TakeLine
  <2>2. LineEnd + EndingLen \in Int /\ LineEnd + EndingLen >= 1
    BY <1>3
  <2>3. Len(buffer) \in Nat
    BY <1>1
  <2> QED
    BY <1>1, <2>1, <2>2, <2>3
<1>5. ASSUME LineEnd > 1
      PROVE  buffer[1] \in Line
  <2>1. 1 \notin LineEnds
    BY <1>2, <1>3, <1>5
  <2>2. 1 \in 1..Len(buffer)
    BY <1>1, <1>3
  <2>3. buffer[1] \notin {CR, LF}
    BY <2>1, <2>2 DEF LineEnds
  <2>4. buffer[1] \in Tokens
    BY <1>1, <2>2
  <2> QED
    BY <2>3, <2>4, TokensApart
<1> QED
  BY <1>3, <1>4, <1>5 DEF TakeLine, source

(* The parser's state has the types it is declared with, however the body  *)
(* is cut.                                                                 *)
THEOREM TypeCorrect == Spec => []TypeOK
<1>1. Init => TypeOK
  <2> SUFFICES ASSUME Init
               PROVE  TypeOK
    OBVIOUS
  <2>1. body \in Seq(Tokens) /\ IsBody(body)
    BY SseAssumption DEF Init
  <2>2. "" \in Texts
    BY SseAssumption
  <2>3. eventType \in Texts
    BY <2>2 DEF Init
  <2>4. Len(body) \in Nat
    BY <2>1
  <2>5. /\ received = 0 /\ buffer = <<>> /\ dataLines = <<>>
        /\ batch = <<>> /\ yielded = <<>> /\ pc = "read"
    BY DEF Init
  <2> QED
    BY <2>1, <2>3, <2>4, <2>5 DEF TypeOK
<1>2. TypeOK /\ [Next]_vars => TypeOK'
  <2> SUFFICES ASSUME TypeOK, [Next]_vars
               PROVE  TypeOK'
    OBVIOUS
  <2>0. Finished \in Event \cup {NoEvent, Invalid}
    BY EventType DEF TypeOK, Finished
  <2>8. "" \in Texts
    BY SseAssumption
  <2>1. CASE \E n \in 1..Len(body) : Receive(n)
    <3>1. PICK n \in 1..Len(body) : Receive(n)
      BY <2>1
    <3>2. SubSeq(body, received + 1, n) \in Seq(Tokens) /\ n \in 0..Len(body)
      BY <3>1 DEF TypeOK, Receive
    <3> QED
      BY <3>1, <3>2 DEF TypeOK, Receive
  <2>2. CASE BlankLine
    <3>1. TakeLine
      BY <2>2 DEF BlankLine
    <3>2. Finished # Invalid => Pushed \in Seq(Event)
      BY <2>0 DEF Pushed, TypeOK
    <3>3. batch' \in Seq(Event) /\ pc' \in {"read", "push", "done", "failed"}
      <4>1. CASE Finished = Invalid
        BY <2>2, <4>1 DEF BlankLine
      <4>2. CASE Finished # Invalid
        BY <2>2, <3>2, <4>2 DEF BlankLine, TypeOK
      <4> QED
        BY <4>1, <4>2
    <3>4. eventType' \in Texts /\ dataLines' = <<>>
      BY <2>2, <2>8 DEF BlankLine, Reset
    <3> QED
      BY <3>1, <3>3, <3>4, TakeLineType DEF TypeOK
  <2>3. CASE FieldLine
    <3>1. TakeLine /\ LineEnd > 1
      BY <2>3 DEF FieldLine
    <3>2. buffer[1].value \in Texts
      BY <3>1, TakeLineType, TokensApart
    <3>3. eventType' \in Texts /\ dataLines' \in Seq(Texts)
      BY <2>3, <3>2 DEF FieldLine, TypeOK
    <3>4. batch' = batch /\ pc' = pc
      BY <2>3 DEF FieldLine
    <3> QED
      BY <3>1, <3>3, <3>4, TakeLineType DEF TypeOK
  <2>4. CASE InvalidLine
    <3>1. TakeLine /\ batch' = <<>> /\ pc' = "failed" /\ UNCHANGED <<eventType, dataLines>>
      BY <2>4 DEF InvalidLine
    <3> QED
      BY <3>1, TakeLineType DEF TypeOK
  <2>5. CASE PushReturns
    BY <2>5 DEF PushReturns, TypeOK, source, parser
  <2>6. CASE Finish
    <3>1. Finished # Invalid /\ Finished # NoEvent => Append(yielded, Finished) \in Seq(Event)
      BY <2>0 DEF TypeOK
    <3>2. yielded' \in Seq(Event) /\ pc' \in {"read", "push", "done", "failed"}
      BY <2>6, <3>1 DEF Finish, TypeOK
    <3>3. eventType' \in Texts /\ dataLines' = <<>>
      BY <2>6, <2>8 DEF Finish, Reset
    <3> QED
      BY <2>6, <3>2, <3>3 DEF Finish, TypeOK, source
  <2>7. CASE UNCHANGED vars
    BY <2>7 DEF vars, TypeOK, source, parser
  <2> QED
    BY <2>1, <2>2, <2>3, <2>4, <2>5, <2>6, <2>7 DEF Next, Push
<1> QED
  BY <1>1, <1>2, PTL DEF Spec

-----------------------------------------------------------------------------
(* The invariant, when no ending is cut in two.                            *)

LEMMA InLonger == \A a \in Int, b \in Int : \A k \in a..(b - 1) : k \in a..b
OBVIOUS

LEMMA ValuesType ==
  ASSUME NEW text, NEW i \in Nat, NEW field
  PROVE  \E V : Values(text, i, field) \in Seq(V)
<1> DEFINE seq == [j \in 1..Len(text) |-> text[j].value]
           S == LinesOf(text, i, field)
           n == Cardinality(S)
           V == {seq[Nth(S, k)] : k \in 1..n}
<1>1. n \in Nat
  BY LinesFinite, FS_CardinalityType
<1>2. Pick(seq, S) \in Seq(V)
  <2> HIDE DEF seq, S
  <2> QED
    BY <1>1 DEF Pick
<1>3. Values(text, i, field) = Pick(seq, S)
  BY DEF Values
<1> QED
  BY <1>2, <1>3

LEMMA LastOfAppend ==
  ASSUME NEW V, NEW values \in Seq(V), NEW value
  PROVE  LastOf(Append(values, value)) = value
<1>1. Append(values, value) \in Seq(V \cup {value})
  OBVIOUS
<1>2. /\ Len(Append(values, value)) = Len(values) + 1
      /\ Append(values, value)[Len(values) + 1] = value
  OBVIOUS
<1>3. Append(values, value) # <<>>
  BY <1>1, <1>2
<1> QED
  BY <1>2, <1>3 DEF LastOf

LEMMA AppendLater ==
  ASSUME NEW V, NEW s \in Seq(V), NEW t \in Seq(V), NEW e \in V
  PROVE  s \o Append(t, e) = Append(s \o t, e)
OBVIOUS

(* What is dropped at the end leaves a prefix.                             *)
LEMMA PrefixKept ==
  ASSUME NEW s \in Seq(Event), NEW t \in Seq(Event), NEW u, IsPrefix(s \o t, u)
  PROVE  IsPrefix(s, u)
<1>1. Len(s) \in Nat /\ Len(t) \in Nat /\ Len(s \o t) = Len(s) + Len(t)
  OBVIOUS
<1>2. SubSeq(s \o t, 1, Len(s \o t)) = SubSeq(u, 1, Len(s \o t)) /\ Len(s \o t) <= Len(u)
  BY DEF IsPrefix
<1> QED
  BY <1>1, <1>2 DEF IsPrefix

LEMMA Numbers ==
  ASSUME TypeOK, BufferInv
  PROVE  /\ Len(buffer) \in Nat /\ received \in Nat /\ Len(body) \in Nat
         /\ received <= Len(body) /\ Taken \in Nat
         /\ Taken + Len(buffer) = received
         /\ buffer \in Seq(Tokens) /\ body \in Seq(Tokens)
<1>1. Len(buffer) \in Nat /\ Len(body) \in Nat /\ received \in Nat /\ received <= Len(body)
  BY DEF TypeOK
<1>2. Len(buffer) <= received
  BY DEF BufferInv
<1> QED
  BY <1>1, <1>2 DEF TypeOK, Taken

LEMMA InitInv ==
  ASSUME EndingsStayWhole, TypeOK, Init
  PROVE  IInv
<1>1. /\ received = 0 /\ buffer = <<>> /\ dataLines = <<>> /\ eventType = ""
      /\ batch = <<>> /\ yielded = <<>> /\ pc = "read" /\ body \in Bodies
  BY DEF Init
<1>2. Len(buffer) = 0 /\ Taken = 0 /\ Taken + 1 = 1
  <2>1. Len(<<>>) = 0
    OBVIOUS
  <2>2. Len(buffer) = 0
    BY <1>1, <2>1
  <2>3. received = 0
    BY <1>1
  <2>4. Taken = 0
    BY <2>2, <2>3 DEF Taken
  <2> QED
    BY <2>2, <2>4
<1>3. BufferInv
  <2>1. LineEnds = {}
    BY <1>2 DEF LineEnds
  <2>2. SplitEndings => \A i \in 1..Len(body) : ~CrLfAt(body, i)
    BY <1>1 DEF EndingsStayWhole
  <2>3. received = 0 /\ pc = "read" /\ batch = <<>>
    BY <1>1
  <2>4. Len(buffer) <= received /\ \A i \in 1..Len(buffer) : FALSE
    BY <1>2, <2>3
  <2> QED
    BY <1>2, <2>1, <2>2, <2>3, <2>4 DEF BufferInv
<1>4. \A field : LinesOf(body, 1, field) = {}
  BY DEF LinesOf
<1>5. LinesInv
  <2>1. \A field : Values(body, 1, field) = <<>>
    BY <1>4, PickEmpty DEF Values
  <2>2. LastOf(<<>>) = ""
    BY DEF LastOf
  <2> QED
    BY <1>1, <1>2, <1>4, <2>1, <2>2 DEF LinesInv
<1>6. body \in Seq(Tokens) /\ yielded \o batch = <<>>
  <2>1. <<>> \o <<>> = <<>>
    OBVIOUS
  <2> QED
    BY <1>1, <2>1 DEF TypeOK
<1>7. EventsTo(body, 0) = <<>> /\ IsPrefix(EventsTo(body, 0), Events(body))
  BY <1>6, NoEventsYet, EventsToIsPrefix
<1> QED
  BY <1>1, <1>2, <1>3, <1>5, <1>6, <1>7 DEF IInv, OutInv, EventsAsSent, FailsOnInvalid

LEMMA ReceiveInv ==
  ASSUME IInv, TypeOK', NEW n \in 1..Len(body), Receive(n)
  PROVE  IInv'
<1>1. TypeOK /\ BufferInv /\ LinesInv /\ OutInv
  BY DEF IInv
<1>2. /\ Len(buffer) \in Nat /\ received \in Nat /\ Len(body) \in Nat
      /\ received <= Len(body) /\ Taken \in Nat
      /\ Taken + Len(buffer) = received
      /\ buffer \in Seq(Tokens) /\ body \in Seq(Tokens)
  BY <1>1, Numbers
<1>3. /\ pc = "read" /\ pc' = "push" /\ received' = n /\ n \in (received + 1)..Len(body)
      /\ SplitEndings \/ ~CrLfAt(body, n)
      /\ buffer' = buffer \o SubSeq(body, received + 1, n)
      /\ body' = body /\ eventType' = eventType /\ dataLines' = dataLines
      /\ batch' = batch /\ yielded' = yielded
  BY DEF Receive
<1> DEFINE chunk == SubSeq(body, received + 1, n)
<1>4. /\ chunk \in Seq(Tokens) /\ Len(chunk) = n - received
      /\ \A i \in 1..Len(chunk) : chunk[i] = body[received + i]
  BY <1>2, <1>3
<1>5. Len(buffer') = Len(buffer) + (n - received)
  <2> HIDE DEF chunk
  <2> QED
    BY <1>2, <1>3, <1>4 DEF chunk
<1>6. Taken' = Taken
  BY <1>2, <1>3, <1>5 DEF Taken
<1>7. \A i \in 1..Len(buffer') : buffer'[i] = body[Taken + i]
  <2> SUFFICES ASSUME NEW i \in 1..Len(buffer')
               PROVE  buffer'[i] = body[Taken + i]
    OBVIOUS
  <2>1. CASE i <= Len(buffer)
    <3>1. buffer'[i] = buffer[i]
      BY <1>2, <1>3, <1>4, <2>1
    <3> QED
      BY <1>1, <2>1, <3>1 DEF BufferInv
  <2>2. CASE i > Len(buffer)
    <3> DEFINE j == i - Len(buffer)
    <3>1. j \in 1..Len(chunk) /\ received + j = Taken + i
      <4>1. i \in Nat /\ n \in Nat /\ i <= Len(buffer) + (n - received)
        BY <1>2, <1>5
      <4>2. Len(chunk) = n - received
        BY <1>4
      <4> HIDE DEF chunk
      <4> QED
        BY <1>2, <2>2, <4>1, <4>2
    <3>2. buffer'[i] = chunk[j]
      BY <1>2, <1>3, <1>4, <2>2, <3>1
    <3> HIDE DEF chunk, j
    <3> QED
      BY <1>4, <3>1, <3>2
  <2> QED
    BY <1>2, <1>5, <2>1, <2>2
<1>8. BufferInv'
  <2>1. Len(buffer') <= received'
    BY <1>2, <1>3, <1>5
  <2>2. ~CrLfAt(body, n)
    BY <1>1, <1>3 DEF BufferInv
  <2> QED
    BY <1>1, <1>3, <1>6, <1>7, <2>1, <2>2 DEF BufferInv
<1>9. LinesInv'
  BY <1>1, <1>3, <1>6 DEF LinesInv
<1>10. OutInv'
  BY <1>1, <1>3, <1>6 DEF OutInv
<1>11. EventsAsSent' /\ FailsOnInvalid'
  BY <1>3 DEF IInv, EventsAsSent, FailsOnInvalid
<1> QED
  BY <1>8, <1>9, <1>10, <1>11 DEF IInv

(* A line that is taken leaves the buffer as the invariant says.           *)
LEMMA BufferLeft ==
  ASSUME TypeOK, BufferInv, TakeLine, pc' # "read"
  PROVE  BufferInv'
<1>1. body' = body /\ received' = received /\ pc = "push"
  BY DEF TakeLine, source
<1>2. /\ Len(buffer') <= received
      /\ \A i \in 1..Len(buffer') : buffer'[i] = body[Taken' + i]
      /\ EndsLine(body, Taken')
  BY LineTaken
<1>3. /\ ~CrLfAt(body, received)
      /\ SplitEndings => \A i \in 1..Len(body) : ~CrLfAt(body, i)
  BY <1>1 DEF BufferInv
<1> QED
  BY <1>1, <1>2, <1>3 DEF BufferInv

LEMMA FieldLineInv ==
  ASSUME IInv, TypeOK', FieldLine
  PROVE  IInv'
<1> DEFINE p == Taken + 1
           q == Taken' + 1
<1>1. TypeOK /\ BufferInv /\ LinesInv /\ OutInv /\ TakeLine
  BY DEF IInv, FieldLine
<1>2. /\ received \in Nat /\ Len(body) \in Nat /\ received <= Len(body)
      /\ Taken \in Nat /\ body \in Seq(Tokens)
  BY <1>1, Numbers
<1>3. /\ pc = "push" /\ pc' = pc /\ body' = body
      /\ batch' = batch /\ yielded' = yielded
  BY <1>1 DEF FieldLine, TakeLine, source
<1>4. LineEnd = 2
  <2>1. LineEnd \in {1, 2} /\ LineEnd > 1
    BY <1>1, LineTaken DEF FieldLine
  <2> QED
    BY <2>1
<1>5. /\ Taken' \in Nat /\ Taken + 2 <= Taken' /\ Taken' <= received
      /\ \A k \in (Taken + 2)..Taken' : body[k] \in {CR, LF}
      /\ \A k \in (Taken + 2)..(Taken' - 1) : ~EndsLine(body, k)
      /\ p < Len(body) /\ buffer[1] = body[p] /\ buffer[1] \in Line
      /\ ~EmptyLine(body, Taken')
  BY <1>1, <1>4, LineTaken
<1>6. BufferInv'
  BY <1>1, <1>3, BufferLeft
<1>7. body[p] \notin {CR, LF}
  BY <1>5, TokensApart
<1>8. \A k \in p..Taken' : ~EmptyLine(body, k)
  <2> SUFFICES ASSUME NEW k \in p..Taken'
               PROVE  ~EmptyLine(body, k)
    OBVIOUS
  <2>1. CASE k = p
    BY <1>7, <2>1 DEF EmptyLine, EndsLine
  <2>2. CASE k \in (Taken + 2)..(Taken' - 1)
    BY <1>5, <2>2 DEF EmptyLine
  <2>3. CASE k = Taken'
    BY <1>5, <2>3
  <2> QED
    BY <1>2, <1>5, <2>1, <2>2, <2>3
<1>9. \A field \in Fields :
        /\ LinesOf(body, q, field) =
             IF body[p].field = field THEN LinesOf(body, p, field) \cup {p}
                                      ELSE LinesOf(body, p, field)
        /\ Values(body, q, field) =
             IF body[p].field = field THEN Append(Values(body, p, field), body[p].value)
                                      ELSE Values(body, p, field)
  <2>1. p \in 1..(Len(body) - 1) /\ q \in p..(Len(body) + 1) /\ p < q
    BY <1>2, <1>5
  <2>2. \A k : /\ k \in (p + 1)..(q - 1) => k \in (Taken + 2)..Taken'
               /\ k \in p..(q - 1) => k \in p..Taken'
    BY <1>2, <1>5
  <2> HIDE DEF p, q
  <2> QED
    BY <1>2, <1>5, <1>7, <1>8, <2>1, <2>2, LineRead
<1>10. "event" \in Fields /\ "data" \in Fields /\ "invalid" \in Fields
  BY DEF Fields
<1>11. /\ buffer[1].field # "invalid"
       /\ eventType' = IF buffer[1].field = "event" THEN buffer[1].value ELSE eventType
       /\ dataLines' = IF buffer[1].field = "data"
                         THEN Append(dataLines, buffer[1].value) ELSE dataLines
  BY DEF FieldLine
<1>12. /\ eventType = LastOf(Values(body, p, "event"))
       /\ dataLines = Values(body, p, "data")
       /\ LinesOf(body, p, "invalid") = {}
  BY <1>1, <1>3 DEF LinesInv
<1>13. \A value : LastOf(Append(Values(body, p, "event"), value)) = value
  <2>1. p \in Nat
    BY <1>2
  <2>2. PICK V : Values(body, p, "event") \in Seq(V)
    BY <2>1, ValuesType
  <2> HIDE DEF p
  <2> QED
    BY <2>2, LastOfAppend
<1>14. LinesInv'
  <2>1. /\ eventType' = LastOf(Values(body, q, "event"))
        /\ dataLines' = Values(body, q, "data")
        /\ LinesOf(body, q, "invalid") = {}
    <3> HIDE DEF p, q
    <3> QED
      BY <1>5, <1>9, <1>10, <1>11, <1>12, <1>13
  <2> QED
    BY <1>3, <2>1 DEF LinesInv
<1>15. EventsTo(body, Taken') = EventsTo(body, Taken)
  <2>1. Taken < Taken' /\ Taken' <= Len(body) + 1 /\ Taken' # Len(body) + 1
    BY <1>2, <1>5
  <2>2. Taken' \notin EventEnds(body)
    BY <1>5, <2>1 DEF EventEnds
  <2>3. \A k \in (Taken + 1)..(Taken' - 1) : ~EmptyLine(body, k)
    <3>1. Taken' \in Int /\ p \in Int
      BY <1>2, <1>5
    <3>2. \A k \in p..(Taken' - 1) : k \in p..Taken'
      BY <3>1, InLonger
    <3> QED
      BY <1>8, <3>2
  <2> QED
    BY <1>2, <1>5, <2>1, <2>2, <2>3, EventsGoOn
<1>16. OutInv'
  BY <1>1, <1>3, <1>15 DEF OutInv
<1>17. EventsAsSent' /\ FailsOnInvalid'
  BY <1>3 DEF IInv, EventsAsSent, FailsOnInvalid
<1> QED
  BY <1>6, <1>14, <1>16, <1>17 DEF IInv

LEMMA BlankLineInv ==
  ASSUME IInv, TypeOK', BlankLine
  PROVE  IInv'
<1> DEFINE p == Taken + 1
<1>1. TypeOK /\ BufferInv /\ LinesInv /\ OutInv /\ TakeLine /\ LineEnd = 1
  BY DEF IInv, BlankLine
<1>2. /\ received \in Nat /\ Len(body) \in Nat /\ received <= Len(body)
      /\ Taken \in Nat /\ body \in Seq(Tokens)
  BY <1>1, Numbers
<1>3. /\ pc = "push" /\ pc' \in {"push", "failed"} /\ body' = body /\ yielded' = yielded
      /\ eventType' = "" /\ dataLines' = <<>>
  BY <1>1 DEF BlankLine, TakeLine, source, Reset
<1>4. /\ Taken' \in Nat /\ p <= Taken' /\ Taken' <= received
      /\ \A k \in p..Taken' : body[k] \in {CR, LF}
      /\ \A k \in p..(Taken' - 1) : ~EndsLine(body, k)
      /\ EmptyLine(body, Taken')
  BY <1>1, LineTaken
<1>5. BufferInv'
  BY <1>1, <1>3, BufferLeft
<1>6. \A k \in p..(Taken' - 1) : ~EmptyLine(body, k)
  BY <1>4 DEF EmptyLine
<1>7. EventAt(body, Taken') = Finished
  <2>1. Taken' \in p..(Len(body) + 1) /\ p \in Nat /\ p > 0
    BY <1>2, <1>4
  <2>2. \A k \in p..(Taken' - 1) : body[k] \in {CR, LF} \/ k = Len(body)
    <3>1. Taken' \in Int /\ p \in Int
      BY <1>2, <1>4
    <3>2. \A k \in p..(Taken' - 1) : k \in p..Taken'
      BY <3>1, InLonger
    <3> QED
      BY <1>4, <3>2
  <2>3. /\ eventType = LastOf(Values(body, p, "event"))
        /\ dataLines = Values(body, p, "data")
        /\ LinesOf(body, p, "invalid") = {}
    BY <1>1, <1>3 DEF LinesInv
  <2>4. EventAt(body, Taken') =
          FinishEvent(LastOf(Values(body, p, "event")), Values(body, p, "data"))
    <3> HIDE DEF p
    <3> QED
      BY <1>2, <1>6, <2>1, <2>2, <2>3, EventKept
  <2> QED
    BY <2>3, <2>4 DEF Finished
<1>8. Taken' \in EventEnds(body) <=> Finished # NoEvent
  <2>1. Taken' \in 1..(Len(body) + 1)
    BY <1>2, <1>4
  <2> QED
    BY <1>4, <1>7, <2>1 DEF EventEnds
<1>9. CASE Finished = Invalid
  <2>1. pc' = "failed" /\ batch' = <<>>
    BY <1>9 DEF BlankLine
  <2>2. Invalid \in ToSet(Events(body))
    <3>1. NoEvent # Invalid
      BY EventType DEF NoEvent, Invalid
    <3>2. Taken' \in EventEnds(body)
      BY <1>8, <1>9, <3>1
    <3> QED
      BY <1>2, <1>7, <1>9, <3>2, EventIsThere
  <2>3. IsPrefix(yielded, Events(body))
    BY PrefixKept DEF IInv, EventsAsSent, TypeOK
  <2>4. yielded \o <<>> = yielded
    BY <1>1 DEF TypeOK
  <2> QED
    BY <1>3, <1>5, <2>1, <2>2, <2>3, <2>4
    DEF IInv, LinesInv, OutInv, EventsAsSent, FailsOnInvalid
<1>10. CASE Finished # Invalid
  <2>1. pc' = "push" /\ batch' = Pushed
    BY <1>3, <1>10 DEF BlankLine
  <2>2. LinesInv'
    <3>1. \A field : /\ Values(body, Taken' + 1, field) = <<>>
                     /\ LinesOf(body, Taken' + 1, field) = {}
      BY <1>4, LinesBeginAgain, ValuesBeginAgain
    <3>2. LastOf(<<>>) = ""
      BY DEF LastOf
    <3> QED
      BY <1>3, <3>1, <3>2 DEF LinesInv
  <2>3. EventsTo(body, Taken') =
          IF Finished = NoEvent THEN EventsTo(body, Taken)
                                ELSE Append(EventsTo(body, Taken), Finished)
    <3>1. Taken < Taken' /\ Taken' <= Len(body) + 1
      BY <1>2, <1>4
    <3> QED
      BY <1>2, <1>4, <1>6, <1>7, <1>8, <3>1, EventsGoOn
  <2>4. yielded \o batch = EventsTo(body, Taken)
    BY <1>1, <1>3 DEF OutInv
  <2>5. yielded \o batch' = EventsTo(body, Taken')
    <3>1. CASE Finished = NoEvent
      BY <2>1, <2>3, <2>4, <3>1 DEF Pushed
    <3>2. CASE Finished # NoEvent
      <4>1. Finished \in Event
        BY <1>1, <1>10, <3>2, EventType DEF Finished, TypeOK
      <4>2. batch' = Append(batch, Finished)
        BY <2>1, <3>2 DEF Pushed
      <4>3. yielded \o Append(batch, Finished) = Append(yielded \o batch, Finished)
        <5>1. yielded \in Seq(Event) /\ batch \in Seq(Event)
          BY <1>1 DEF TypeOK
        <5> QED
          BY <4>1, <5>1, AppendLater
      <4> QED
        BY <2>3, <2>4, <3>2, <4>2, <4>3
    <3> QED
      BY <3>1, <3>2
  <2>6. IsPrefix(EventsTo(body, Taken'), Events(body))
    BY <1>2, <1>4, EventsToIsPrefix
  <2> QED
    BY <1>3, <1>5, <2>1, <2>2, <2>5, <2>6
    DEF IInv, OutInv, EventsAsSent, FailsOnInvalid
<1> QED
  BY <1>9, <1>10

LEMMA InvalidLineInv ==
  ASSUME IInv, TypeOK', InvalidLine
  PROVE  IInv'
<1> DEFINE p == Taken + 1
           L == Len(body) + 1
           ends == {k \in p..L : EmptyLine(body, k) \/ k = L}
<1>1. TypeOK /\ BufferInv /\ TakeLine
  BY DEF IInv, InvalidLine
<1>2. /\ received \in Nat /\ Len(body) \in Nat /\ received <= Len(body)
      /\ Taken \in Nat /\ body \in Seq(Tokens)
  BY <1>1, Numbers
<1>3. /\ pc = "push" /\ pc' = "failed" /\ body' = body /\ batch' = <<>> /\ yielded' = yielded
      /\ buffer[1].field = "invalid"
  BY <1>1 DEF InvalidLine, TakeLine, source
<1>4. LineEnd = 2
  <2>1. LineEnd \in {1, 2} /\ LineEnd > 1
    BY <1>1, LineTaken DEF InvalidLine
  <2> QED
    BY <2>1
<1>5. p < Len(body) /\ buffer[1] = body[p] /\ buffer[1] \in Line
  BY <1>1, <1>4, LineTaken
<1>6. BufferInv'
  BY <1>1, <1>3, BufferLeft
<1>7. PICK i \in ends : \A k \in ends : i <= k
  <2>1. ends \in SUBSET Nat /\ L \in ends
    BY <1>2, <1>5
  <2> HIDE DEF ends
  <2> QED
    BY <2>1, Least
<1>8. i \in Nat /\ p <= i /\ i <= L
  BY <1>2
<1>9. i # p
  <2>1. ~EmptyLine(body, p)
    BY <1>5, TokensApart DEF EmptyLine, EndsLine
  <2>2. p # L
    BY <1>2, <1>5
  <2> QED
    BY <2>1, <2>2
<1>10. \A k \in p..(i - 1) : ~EmptyLine(body, k)
  <2> SUFFICES ASSUME NEW k \in p..(i - 1), EmptyLine(body, k)
               PROVE  FALSE
    OBVIOUS
  <2>1. k \in p..L /\ ~(i <= k)
    BY <1>2, <1>8
  <2>2. k \in ends
    BY <2>1
  <2> QED
    BY <1>7, <2>1, <2>2
<1>11. p \in LinesOf(body, i, "invalid")
  <2>1. p \in 1..(i - 1)
    BY <1>2, <1>8, <1>9
  <2> QED
    BY <1>3, <1>5, <1>10, <2>1 DEF LinesOf
<1>12. EventAt(body, i) = Invalid
  BY <1>11 DEF EventAt
<1>13. i \in EventEnds(body)
  <2>1. i \in 1..L /\ (EmptyLine(body, i) \/ i = L)
    BY <1>2, <1>8
  <2>2. NoEvent # Invalid
    BY EventType DEF NoEvent, Invalid
  <2> QED
    BY <1>12, <2>1, <2>2 DEF EventEnds
<1>14. Invalid \in ToSet(Events(body))
  BY <1>2, <1>12, <1>13, EventIsThere
<1>15. IsPrefix(yielded, Events(body))
  BY PrefixKept DEF IInv, EventsAsSent, TypeOK
<1>16. yielded \o <<>> = yielded
  BY <1>1 DEF TypeOK
<1> QED
  BY <1>3, <1>6, <1>14, <1>15, <1>16
  DEF IInv, LinesInv, OutInv, EventsAsSent, FailsOnInvalid

LEMMA PushReturnsInv ==
  ASSUME IInv, TypeOK', PushReturns
  PROVE  IInv'
<1>1. TypeOK /\ BufferInv /\ LinesInv /\ OutInv
  BY DEF IInv
<1>2. /\ pc = "push" /\ pc' = "read" /\ LineEnds = {}
      /\ yielded' = yielded \o batch /\ batch' = <<>>
      /\ body' = body /\ received' = received /\ buffer' = buffer
      /\ eventType' = eventType /\ dataLines' = dataLines
  BY DEF PushReturns, source, parser
<1>3. Taken' = Taken /\ LineEnds' = LineEnds
  BY <1>2 DEF Taken, LineEnds
<1>4. BufferInv'
  BY <1>1, <1>2, <1>3 DEF BufferInv
<1>5. LinesInv'
  BY <1>1, <1>2, <1>3 DEF LinesInv
<1>6. yielded' \o batch' = yielded \o batch
  BY <1>1, <1>2 DEF TypeOK
<1>7. OutInv'
  BY <1>1, <1>2, <1>3, <1>6 DEF OutInv
<1>8. EventsAsSent' /\ FailsOnInvalid'
  BY <1>2, <1>6 DEF IInv, EventsAsSent, FailsOnInvalid
<1> QED
  BY <1>4, <1>5, <1>7, <1>8 DEF IInv

LEMMA FinishInv ==
  ASSUME IInv, TypeOK', Finish
  PROVE  IInv'
<1> DEFINE p == Taken + 1
           L == Len(body) + 1
<1>1. TypeOK /\ BufferInv /\ LinesInv /\ OutInv
  BY DEF IInv
<1>2. /\ Len(buffer) \in Nat /\ received \in Nat /\ Len(body) \in Nat
      /\ Taken \in Nat /\ Taken + Len(buffer) = received /\ body \in Seq(Tokens)
  BY <1>1, Numbers
<1>3. /\ pc = "read" /\ pc' \in {"done", "failed"} /\ received = Len(body)
      /\ body' = body /\ received' = received /\ buffer' = buffer /\ batch' = batch
  BY DEF Finish, source
<1>4. LineEnds = {} /\ batch = <<>>
  BY <1>1, <1>3 DEF BufferInv
<1>5. BufferInv'
  <2>1. Taken' = Taken
    BY <1>3 DEF Taken
  <2> QED
    BY <1>1, <1>3, <2>1 DEF BufferInv
<1>6. \A k \in p..(L - 1) : body[k] \notin {CR, LF}
  <2> SUFFICES ASSUME NEW k \in p..(L - 1)
               PROVE  body[k] \notin {CR, LF}
    OBVIOUS
  <2> DEFINE j == k - Taken
  <2>1. j \in 1..Len(buffer) /\ Taken + j = k
    BY <1>2, <1>3
  <2>2. buffer[j] = body[k]
    BY <1>1, <2>1 DEF BufferInv
  <2>3. buffer[j] \notin {CR, LF}
    BY <1>4, <2>1 DEF LineEnds
  <2> QED
    BY <2>2, <2>3
<1>7. \A k \in p..(L - 1) : ~EmptyLine(body, k)
  BY <1>6 DEF EmptyLine, EndsLine
<1>8. \A k \in p..(L - 1) : k = Len(body)
  <2> SUFFICES ASSUME NEW k \in p..(L - 1), k # Len(body)
               PROVE  FALSE
    OBVIOUS
  <2>1. k \in 1..(Len(body) - 1) /\ k + 1 \in p..(L - 1)
    BY <1>2
  <2>2. body[k] \in {CR, LF} \/ body[k + 1] \in {CR, LF}
    BY <1>1, <2>1 DEF TypeOK, IsBody
  <2> QED
    BY <1>6, <2>1, <2>2
<1>9. EventAt(body, L) = Finished
  <2>1. L \in p..(Len(body) + 1) /\ p \in Nat /\ p > 0
    BY <1>2, <1>3
  <2>2. /\ eventType = LastOf(Values(body, p, "event"))
        /\ dataLines = Values(body, p, "data")
        /\ LinesOf(body, p, "invalid") = {}
    BY <1>1, <1>3 DEF LinesInv
  <2>3. EventAt(body, L) =
          FinishEvent(LastOf(Values(body, p, "event")), Values(body, p, "data"))
    <3> HIDE DEF p, L
    <3> QED
      BY <1>2, <1>7, <1>8, <2>1, <2>2, EventKept
  <2> QED
    BY <2>2, <2>3 DEF Finished
<1>10. L \in EventEnds(body) <=> Finished # NoEvent
  <2>1. L \in 1..(Len(body) + 1)
    BY <1>2
  <2> QED
    BY <1>9, <2>1 DEF EventEnds
<1>11. EventsTo(body, L) =
         IF Finished = NoEvent THEN EventsTo(body, Taken)
                               ELSE Append(EventsTo(body, Taken), Finished)
  <2>1. Taken < L /\ L <= Len(body) + 1 /\ L \in Nat
    BY <1>2, <1>3
  <2> HIDE DEF L
  <2> QED
    BY <1>2, <1>7, <1>9, <1>10, <2>1, EventsGoOn
<1>12. yielded \o batch = EventsTo(body, Taken) /\ yielded \o batch = yielded
  <2>1. yielded \o <<>> = yielded
    BY <1>1 DEF TypeOK
  <2> QED
    BY <1>1, <1>3, <1>4, <2>1 DEF OutInv
<1>13. CASE Finished = Invalid
  <2>1. pc' = "failed" /\ yielded' = yielded
    BY <1>13 DEF Finish
  <2>2. Invalid \in ToSet(Events(body))
    <3>1. NoEvent # Invalid
      BY EventType DEF NoEvent, Invalid
    <3>2. L \in EventEnds(body)
      BY <1>10, <1>13, <3>1
    <3> QED
      BY <1>2, <1>9, <1>13, <3>2, EventIsThere
  <2> QED
    BY <1>3, <1>5, <2>1, <2>2
    DEF IInv, LinesInv, OutInv, EventsAsSent, FailsOnInvalid
<1>14. CASE Finished # Invalid
  <2>1. /\ pc' = "done"
        /\ yielded' = IF Finished = NoEvent THEN yielded ELSE Append(yielded, Finished)
    BY <1>14 DEF Finish
  <2>2. yielded' = Events(body)
    BY <1>11, <1>12, <2>1 DEF Events
  <2>3. IsPrefix(Events(body), Events(body))
    <3>1. L \in Int
      BY <1>2
    <3> QED
      BY <1>2, <3>1, EventsToIsPrefix DEF Events
  <2>4. yielded' \o batch' = yielded'
    BY <1>3, <1>4 DEF TypeOK
  <2> QED
    BY <1>3, <1>5, <2>1, <2>2, <2>3, <2>4
    DEF IInv, LinesInv, OutInv, EventsAsSent, FailsOnInvalid
<1> QED
  BY <1>13, <1>14

(* Whatever the chunks, the parser's state says what the body says up to   *)
(* the last line it has taken.                                             *)
THEOREM Invariance == EndingsStayWhole => (Spec => []IInv)
<1>1. EndingsStayWhole /\ TypeOK /\ Init => IInv
  BY InitInv
<1>2. IInv /\ TypeOK' /\ [Next]_vars => IInv'
  <2> SUFFICES ASSUME IInv, TypeOK', [Next]_vars
               PROVE  IInv'
    OBVIOUS
  <2>1. CASE \E n \in 1..Len(body) : Receive(n)
    BY <2>1, ReceiveInv
  <2>2. CASE BlankLine
    BY <2>2, BlankLineInv
  <2>3. CASE FieldLine
    BY <2>3, FieldLineInv
  <2>4. CASE InvalidLine
    BY <2>4, InvalidLineInv
  <2>5. CASE PushReturns
    BY <2>5, PushReturnsInv
  <2>6. CASE Finish
    BY <2>6, FinishInv
  <2>7. CASE UNCHANGED vars
    BY <2>7
    DEF vars, source, parser, IInv, BufferInv, LinesInv, OutInv, EventsAsSent, FailsOnInvalid,
        Taken, LineEnds
  <2> QED
    BY <2>1, <2>2, <2>3, <2>4, <2>5, <2>6, <2>7 DEF Next, Push
<1> QED
  BY <1>1, <1>2, TypeCorrect, PTL DEF Spec

(* However a response is cut into chunks, subscribe yields the events that *)
(* were sent, in order, none twice and none left out before the last, and  *)
(* all of them if it gets to the end.                                      *)
THEOREM EventsArriveAsSent == EndingsStayWhole => (Spec => []EventsAsSent)
<1>1. IInv => EventsAsSent
  BY DEF IInv
<1> QED
  BY <1>1, Invariance, PTL

(* The parser gives an error only for a response with an invalid event.    *)
THEOREM FailureMeansInvalid == EndingsStayWhole => (Spec => []FailsOnInvalid)
<1>1. IInv => FailsOnInvalid
  BY DEF IInv
<1> QED
  BY <1>1, Invariance, PTL

(* push does not go round for ever, whatever the bytes: each of its steps  *)
(* makes the buffer shorter or is its last. This is what PushEnds rests on *)
(* but for the steps being taken (the loop of push, sse.rs:41-70).         *)
THEOREM PushAdvances ==
  Spec => [][pc = "push" => Len(buffer') < Len(buffer) \/ pc' # "push"]_vars
<1>1. ASSUME TypeOK, TakeLine
      PROVE  Len(buffer') < Len(buffer)
  <2>1. LineEnds # {} /\ buffer \in Seq(Tokens)
    BY <1>1 DEF TakeLine, TypeOK
  <2>2. LineEnd \in LineEnds
    BY <2>1, LineEndIsFirst
  <2>3. LineEnd \in 1..Len(buffer) /\ EndingLen \in {1, 2}
    BY <2>2 DEF LineEnds, EndingLen
  <2>4. EndingLen = 2 => LineEnd < Len(buffer)
    BY DEF EndingLen, CrLfAt
  <2>5. buffer' = SubSeq(buffer, LineEnd + EndingLen, Len(buffer))
    BY <1>1 DEF TakeLine
  <2>6. LineEnd + EndingLen \in 1..(Len(buffer) + 1) /\ LineEnd + EndingLen > 1
    BY <2>1, <2>3, <2>4
  <2>7. Len(buffer') = Len(buffer) - (LineEnd + EndingLen) + 1
    BY <2>1, <2>5, <2>6
  <2> QED
    BY <2>1, <2>6, <2>7
<1>2. TypeOK /\ [Next]_vars =>
        [pc = "push" => Len(buffer') < Len(buffer) \/ pc' # "push"]_vars
  <2> SUFFICES ASSUME TypeOK, Next, pc = "push", pc' = "push"
               PROVE  Len(buffer') < Len(buffer)
    OBVIOUS
  <2>1. TakeLine
    BY DEF Next, Push, Receive, Finish, PushReturns, BlankLine, FieldLine, InvalidLine
  <2> QED
    BY <1>1, <2>1
<1> QED
  BY <1>2, TypeCorrect, PTL DEF Spec
=============================================================================
