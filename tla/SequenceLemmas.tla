--------------------------- MODULE SequenceLemmas ----------------------------
(***************************************************************************)
(* Facts about sequences.                                                  *)
(*                                                                         *)
(* The key order of Python's OrderedDict, in which the budget, the rate    *)
(* limiter and the cache evict: a sequence without repetition, from which  *)
(* a key is popped (RemoveFirst), the oldest that may go is evicted        *)
(* (RemoveAt, Tail), and to whose end a key is moved.                      *)
(*                                                                         *)
(* The list comprehensions of the translations: sequences put together     *)
(* (FlattenSeq), and what they are for a sequence that is built element by *)
(* element or in two pieces.                                               *)
(***************************************************************************)
EXTENDS Integers, Sequences, SequencesExt, SequenceTheorems, FiniteSetTheorems,
        WellFoundedInduction, TLAPS

(* An order of keys of S, each once. *)
Order(S) == {s \in Seq(S) : IsInjective(s)}

(* The least element of a set of numbers, on which every induction rests.  *)
LEMMA LeastNumber ==
  ASSUME NEW T \in SUBSET Nat, T # {}
  PROVE  Min(T) \in T /\ \A y \in T : Min(T) <= y
<1>1. PICK x \in T : \A y \in T : ~(<<y, x>> \in OpToRel(<, Nat))
  BY WFMin, NatLessThanWellFounded
<1>2. \A y \in T : ~(y < x)
  BY <1>1 DEF OpToRel
<1>3. \E z \in T : \A y \in T : z =< y
  BY <1>2
<1> QED
  BY <1>3 DEF Min

(* The greatest element of a bounded set of numbers. *)
LEMMA GreatestNumber ==
  ASSUME NEW T \in SUBSET Nat, T # {}, NEW n \in Nat, \A i \in T : i <= n
  PROVE  \E x \in T : \A y \in T : y <= x
<1> DEFINE U == {n - i : i \in T}
<1>1. U \in SUBSET Nat /\ U # {}
  <2>1. \A i \in T : n - i \in Nat
    OBVIOUS
  <2>2. PICK i \in T : TRUE
    OBVIOUS
  <2> QED
    BY <2>1, <2>2
<1>2. PICK z \in U : \A y \in U : z <= y
  BY <1>1, LeastNumber
<1>3. PICK x \in T : z = n - x
  OBVIOUS
<1>4. \A y \in T : y <= x
  <2> SUFFICES ASSUME NEW y \in T PROVE y <= x
    OBVIOUS
  <2>1. n - x <= n - y
    BY <1>2, <1>3
  <2> QED
    BY <2>1
<1> QED
  BY <1>4

(* The members of an order are its values. *)
LEMMA Members ==
  ASSUME NEW S, NEW s \in Seq(S)
  PROVE  /\ ToSet(s) \subseteq S
         /\ \A k : Contains(s, k) <=> k \in ToSet(s)
         /\ \A k \in ToSet(s) : \E i \in 1..Len(s) : s[i] = k
         /\ \A i \in 1..Len(s) : s[i] \in ToSet(s)
  BY DEF ToSet, Contains

(* What is left when one position is removed. *)
LEMMA RemoveAtProperties ==
  ASSUME NEW S, NEW s \in Seq(S), NEW n \in 1..Len(s)
  PROVE  /\ RemoveAt(s, n) \in Seq(S)
         /\ Len(RemoveAt(s, n)) = Len(s) - 1
         /\ \A i \in 1..(Len(s) - 1) :
              RemoveAt(s, n)[i] = IF i < n THEN s[i] ELSE s[i + 1]
<1> DEFINE a == SubSeq(s, 1, n - 1)
           b == SubSeq(s, n + 1, Len(s))
<1>1. /\ a \in Seq(S) /\ Len(a) = n - 1
      /\ \A i \in 1..(n - 1) : a[i] = s[i]
  <2>1. \A i \in 1..(n - 1) : s[i] \in S
    OBVIOUS
  <2>2. /\ a \in Seq(S) /\ Len(a) = IF 1 <= n - 1 THEN (n - 1) - 1 + 1 ELSE 0
        /\ \A i \in 1..((n - 1) - 1 + 1) : a[i] = s[1 + i - 1]
    BY <2>1, SubSeqProperties
  <2> QED
    BY <2>2
<1>2. /\ b \in Seq(S) /\ Len(b) = Len(s) - n
      /\ \A i \in 1..(Len(s) - n) : b[i] = s[n + i]
  <2>1. \A i \in (n + 1)..Len(s) : s[i] \in S
    OBVIOUS
  <2>2. /\ b \in Seq(S) /\ Len(b) = IF n + 1 <= Len(s) THEN Len(s) - (n + 1) + 1 ELSE 0
        /\ \A i \in 1..(Len(s) - (n + 1) + 1) : b[i] = s[(n + 1) + i - 1]
    BY <2>1, SubSeqProperties
  <2> QED
    BY <2>2
<1> HIDE DEF a, b
<1>3. /\ a \o b \in Seq(S) /\ Len(a \o b) = Len(a) + Len(b)
      /\ \A i \in 1..(Len(a) + Len(b)) :
           (a \o b)[i] = IF i <= Len(a) THEN a[i] ELSE b[i - Len(a)]
  BY <1>1, <1>2, ConcatProperties
<1>4. \A i \in 1..(Len(s) - 1) : (a \o b)[i] = IF i < n THEN s[i] ELSE s[i + 1]
  BY <1>1, <1>2, <1>3
<1>5. RemoveAt(s, n) = a \o b
  BY DEF RemoveAt, a, b
<1> HIDE DEF RemoveAt
<1>6. Len(a \o b) = Len(s) - 1
  BY <1>1, <1>2, <1>3
<1> QED
  BY <1>3, <1>4, <1>5, <1>6

(* Removing a position removes its key and leaves the rest as they were.   *)
LEMMA RemoveAtOrder ==
  ASSUME NEW S, NEW s \in Order(S), NEW n \in 1..Len(s)
  PROVE  /\ RemoveAt(s, n) \in Order(S)
         /\ ToSet(RemoveAt(s, n)) = ToSet(s) \ {s[n]}
<1>0. s \in Seq(S) /\ IsInjective(s)
  BY DEF Order
<1> DEFINE r == RemoveAt(s, n)
<1>1. /\ r \in Seq(S) /\ Len(r) = Len(s) - 1
      /\ \A i \in 1..(Len(s) - 1) : r[i] = IF i < n THEN s[i] ELSE s[i + 1]
  BY <1>0, RemoveAtProperties
<1> HIDE DEF r
<1>2. IsInjective(r)
  <2> SUFFICES ASSUME NEW i \in 1..Len(r), NEW j \in 1..Len(r), r[i] = r[j]
               PROVE  i = j
    BY <1>1 DEF IsInjective
  <2> DEFINE was(m) == IF m < n THEN m ELSE m + 1
  <2>1. \A m \in 1..Len(r) : was(m) \in DOMAIN s /\ r[m] = s[was(m)]
    BY <1>0, <1>1
  <2>2. was(i) = was(j)
    BY <1>0, <2>1 DEF IsInjective
  <2> QED
    BY <2>2
<1>3. ToSet(r) \subseteq ToSet(s) \ {s[n]}
  <2> SUFFICES ASSUME NEW i \in 1..Len(r) PROVE r[i] \in ToSet(s) \ {s[n]}
    BY <1>1 DEF ToSet
  <2>1. PICK j \in 1..Len(s) : j # n /\ r[i] = s[j]
    BY <1>1
  <2> QED
    BY <2>1, <1>0 DEF ToSet, IsInjective
<1>4. ToSet(s) \ {s[n]} \subseteq ToSet(r)
  <2> SUFFICES ASSUME NEW i \in 1..Len(s), s[i] # s[n] PROVE s[i] \in ToSet(r)
    BY <1>0 DEF ToSet
  <2>1. i < n => i \in 1..Len(r) /\ r[i] = s[i]
    BY <1>1
  <2>2. i > n => i - 1 \in 1..Len(r) /\ r[i - 1] = s[i]
    BY <1>1
  <2>3. i # n
    OBVIOUS
  <2> QED
    BY <1>1, <2>1, <2>2, <2>3 DEF ToSet
<1> QED
  BY <1>1, <1>2, <1>3, <1>4 DEF Order, r

(* RemoveFirst removes a key, if it is there.  It is at some position, and *)
(* the other keys keep their order.                                        *)
LEMMA RemoveFirstOrder ==
  ASSUME NEW S, NEW s \in Order(S), NEW k
  PROVE  /\ RemoveFirst(s, k) \in Order(S)
         /\ ToSet(RemoveFirst(s, k)) = ToSet(s) \ {k}
         /\ \/ RemoveFirst(s, k) = s /\ k \notin ToSet(s)
            \/ \E n \in 1..Len(s) : s[n] = k /\ RemoveFirst(s, k) = RemoveAt(s, n)
<1> DEFINE I == {i \in 1..Len(s) : s[i] = k}
<1>0. s \in Seq(S) /\ Len(s) \in Nat
  BY DEF Order
<1>1. CASE I = {}
  <2>1. RemoveFirst(s, k) = s /\ k \notin ToSet(s)
    BY <1>0, <1>1 DEF RemoveFirst, ToSet
  <2> QED
    BY <2>1
<1>2. CASE I # {}
  <2>0. I \in SUBSET Nat
    BY <1>0
  <2>1. Min(I) \in I
    BY <2>0, <1>2, LeastNumber
  <2>2. RemoveFirst(s, k) = RemoveAt(s, Min(I))
    BY <1>2 DEF RemoveFirst, SelectInSeq
  <2> PICK n \in 1..Len(s) : n = Min(I) /\ s[n] = k
    BY <2>1
  <2>3. RemoveAt(s, n) \in Order(S) /\ ToSet(RemoveAt(s, n)) = ToSet(s) \ {s[n]}
    BY RemoveAtOrder
  <2> QED
    BY <2>2, <2>3
<1> QED
  BY <1>1, <1>2

(* A key moved to the end of the order, or entered there.                  *)
LEMMA MovedToEnd ==
  ASSUME NEW S, NEW s \in Order(S), NEW k \in S
  PROVE  LET r == Append(RemoveFirst(s, k), k) IN
         /\ r \in Order(S)
         /\ ToSet(r) = ToSet(s) \cup {k}
         /\ Len(r) = IF k \in ToSet(s) THEN Len(s) ELSE Len(s) + 1
         /\ r[Len(r)] = k
<1> DEFINE q == RemoveFirst(s, k)
           r == Append(q, k)
<1>0. s \in Seq(S) /\ Len(s) \in Nat
  BY DEF Order
<1>1. q \in Order(S) /\ ToSet(q) = ToSet(s) \ {k}
  BY RemoveFirstOrder
<1>2. Len(q) = IF k \in ToSet(s) THEN Len(s) - 1 ELSE Len(s)
  <2>1. CASE q = s /\ k \notin ToSet(s)
    BY <2>1
  <2>2. ASSUME NEW n \in 1..Len(s), s[n] = k, q = RemoveAt(s, n)
        PROVE  Len(q) = Len(s) - 1 /\ k \in ToSet(s)
    BY <2>2, <1>0, RemoveAtProperties DEF ToSet
  <2> QED
    BY <2>1, <2>2, RemoveFirstOrder
<1> HIDE DEF q
<1>3. q \in Seq(S) /\ IsInjective(q) /\ Len(q) \in Nat
  BY <1>1 DEF Order
<1>4. /\ r \in Seq(S) /\ Len(r) = Len(q) + 1 /\ r[Len(q) + 1] = k
      /\ \A i \in 1..Len(q) : r[i] = q[i]
  BY <1>3, AppendProperties
<1> HIDE DEF r
<1>5. \A i \in 1..Len(q) : q[i] # k
  BY <1>1, <1>3 DEF ToSet
<1>6. IsInjective(r)
  BY <1>3, <1>4, <1>5 DEF IsInjective
<1>7. ToSet(r) = ToSet(q) \cup {k}
  <2>1. \A i \in 1..Len(r) : i \in 1..Len(q) \/ i = Len(q) + 1
    BY <1>3, <1>4
  <2>2. 1..Len(q) \subseteq DOMAIN r /\ Len(q) + 1 \in DOMAIN r
    BY <1>3, <1>4
  <2>3. ToSet(r) \subseteq ToSet(q) \cup {k}
    BY <1>3, <1>4, <2>1 DEF ToSet
  <2>4. ToSet(q) \cup {k} \subseteq ToSet(r)
    BY <1>3, <1>4, <2>2 DEF ToSet
  <2> QED
    BY <2>3, <2>4
<1> QED
  BY <1>1, <1>2, <1>4, <1>6, <1>7 DEF Order, r, q

(* The oldest key evicted. *)
LEMMA OldestEvicted ==
  ASSUME NEW S, NEW s \in Order(S), s # <<>>
  PROVE  /\ Tail(s) \in Order(S)
         /\ ToSet(Tail(s)) = ToSet(s) \ {s[1]}
         /\ Len(Tail(s)) = Len(s) - 1
         /\ \A i \in 1..(Len(s) - 1) : Tail(s)[i] = s[i + 1]
<1>0. s \in Seq(S) /\ IsInjective(s) /\ 1 \in 1..Len(s)
  BY DEF Order
<1>1. /\ Tail(s) \in Seq(S) /\ Len(Tail(s)) = Len(s) - 1
      /\ \A i \in 1..(Len(s) - 1) : Tail(s)[i] = s[i + 1]
  BY <1>0, HeadTailProperties
<1>2. /\ RemoveAt(s, 1) \in Seq(S) /\ Len(RemoveAt(s, 1)) = Len(s) - 1
      /\ \A i \in 1..(Len(s) - 1) : RemoveAt(s, 1)[i] = s[i + 1]
  BY <1>0, RemoveAtProperties
<1>3. Tail(s) = RemoveAt(s, 1)
  BY <1>1, <1>2, SeqEqual
<1>4. RemoveAt(s, 1) \in Order(S) /\ ToSet(RemoveAt(s, 1)) = ToSet(s) \ {s[1]}
  BY <1>0, RemoveAtOrder
<1> QED
  BY <1>1, <1>3, <1>4

(* An order has as many keys as positions. *)
LEMMA OrderCardinality ==
  ASSUME NEW S, NEW s \in Order(S)
  PROVE  IsFiniteSet(ToSet(s)) /\ Cardinality(ToSet(s)) = Len(s)
<1>1. s \in Seq(S) /\ IsInjective(s) /\ Len(s) \in Nat /\ DOMAIN s = 1..Len(s)
  BY DEF Order
<1>2. s \in [1..Len(s) -> ToSet(s)] /\ \A x \in ToSet(s) : \E i \in 1..Len(s) : s[i] = x
  BY <1>1, Members
<1>3. s \in Bijection(1..Len(s), ToSet(s))
  BY <1>1, <1>2 DEF Bijection, Injection, Surjection
<1>4. ExistsBijection(1..Len(s), ToSet(s))
  BY <1>3 DEF ExistsBijection
<1>5. IsFiniteSet(1..Len(s)) /\ Cardinality(1..Len(s)) = Len(s)
  BY <1>1, FS_Interval
<1> QED
  BY <1>4, <1>5, FS_Bijection
----------------------------------------------------------------------------
(* f is the table that FlattenSeq reads for ss.                            *)
Flattens(f, ss) ==
  f = [i \in 1..Len(ss) |-> IF i = 1 THEN ss[i] ELSE f[i - 1] \o ss[i]]

(* Two equal sequences: of one length, with the same elements.             *)
LEMMA SameSequence ==
  ASSUME NEW S, NEW s \in Seq(S), NEW T, NEW t \in Seq(T), Len(s) = Len(t),
         \A i \in 1..Len(s) : s[i] = t[i]
  PROVE  s = t
<1>1. s \in Seq(S \cup T) /\ t \in Seq(S \cup T)
  OBVIOUS
<1> QED
  BY <1>1, SeqEqual

(* A sequence that is not empty is a shorter one and a last element.       *)
Shorter(s) == [i \in 1..(Len(s) - 1) |-> s[i]]

(* A sequence that is not empty is a shorter one and its last element.     *)
LEMMA LastElement ==
  ASSUME NEW S, NEW s \in Seq(S), Len(s) # 0
  PROVE  /\ s[Len(s)] \in S
         /\ Shorter(s) \in Seq(S)
         /\ Len(Shorter(s)) = Len(s) - 1
         /\ s = Append(Shorter(s), s[Len(s)])
<1>1. Len(s) - 1 \in Nat /\ s[Len(s)] \in S
  OBVIOUS
<1>2. /\ Shorter(s) \in Seq(S) /\ Len(Shorter(s)) = Len(s) - 1
      /\ \A i \in 1..(Len(s) - 1) : Shorter(s)[i] = s[i]
  BY <1>1 DEF Shorter
<1>3. /\ Append(Shorter(s), s[Len(s)]) \in Seq(S)
      /\ Len(Append(Shorter(s), s[Len(s)])) = Len(s)
      /\ \A i \in 1..Len(s) : s[i] = Append(Shorter(s), s[Len(s)])[i]
  BY <1>1, <1>2
<1>4. s = Append(Shorter(s), s[Len(s)])
  BY <1>3, SameSequence
<1> QED
  BY <1>1, <1>2, <1>4

(* The table exists: it is built up one entry at a time.                   *)
LEMMA FlattensExists ==
  ASSUME NEW S, NEW ss \in Seq(Seq(S))
  PROVE  \E f : Flattens(f, ss)
<1> DEFINE step(f, i) == IF i = 1 THEN ss[i] ELSE f[i - 1] \o ss[i]
           P(n) == \E f : f = [i \in 1..n |-> step(f, i)]
           T == {n \in 0..Len(ss) : ~P(n)}
<1>1. Len(ss) \in Nat
  OBVIOUS
<1> HIDE DEF P
<1>2. T = {}
  <2> SUFFICES ASSUME T # {} PROVE FALSE
    OBVIOUS
  <2> DEFINE m == Min(T)
  <2>1. T \in SUBSET Nat
    BY <1>1
  <2>2. m \in T /\ \A n \in T : m <= n
    BY <2>1, LeastNumber
  <2> HIDE DEF m
  <2>3. m \in 0..Len(ss) /\ ~P(m) /\ m \in Nat
    BY <2>2
  <2>4. CASE m = 0
    <3>1. <<>> = [i \in 1..m |-> step(<<>>, i)]
      BY <2>4
    <3> QED
      BY <2>3, <3>1 DEF P
  <2>5. CASE m # 0
    <3>1. m - 1 \in 0..Len(ss) /\ m - 1 \notin T
      BY <1>1, <2>2, <2>3, <2>5
    <3>2. PICK g : g = [i \in 1..(m - 1) |-> step(g, i)]
      BY <3>1 DEF P
    <3> DEFINE h == [i \in 1..m |-> step(g, i)]
    <3>3. \A i \in 1..(m - 1) : h[i] = g[i]
      <4> SUFFICES ASSUME NEW i \in 1..(m - 1) PROVE h[i] = g[i]
        OBVIOUS
      <4>1. g[i] = step(g, i)
        BY ONLY <3>2, i \in 1..(m - 1)
      <4>2. i \in 1..m
        BY <2>3
      <4> QED
        BY <4>1, <4>2
    <3>4. ASSUME NEW i \in 1..m PROVE step(g, i) = step(h, i)
      <4>1. CASE i = 1
        BY <4>1
      <4>2. CASE i # 1
        <5>1. i - 1 \in 1..(m - 1)
          BY <2>3, <4>2
        <5> HIDE DEF h
        <5> QED
          BY <3>3, <5>1
      <4> QED
        BY <4>1, <4>2
    <3>5. h = [i \in 1..m |-> step(h, i)]
      <4>1. h = [i \in 1..m |-> step(g, i)]
        OBVIOUS
      <4> HIDE DEF h, step
      <4> QED
        BY <4>1, <3>4
    <3> HIDE DEF h
    <3> QED
      BY <2>3, <3>5 DEF P
  <2> QED
    BY <2>4, <2>5
<1>3. P(Len(ss))
  <2>1. Len(ss) \in 0..Len(ss)
    BY <1>1
  <2> QED
    BY <2>1, <1>2
<1> QED
  BY <1>3 DEF P, Flattens

(* Its entries depend on what comes before them only, and are sequences.   *)
LEMMA FlattensAgree ==
  ASSUME NEW S, NEW ss \in Seq(Seq(S)), NEW tt \in Seq(Seq(S)),
         NEW n \in Nat, n <= Len(ss), n <= Len(tt),
         \A i \in 1..n : ss[i] = tt[i],
         NEW f, Flattens(f, ss), NEW g, Flattens(g, tt)
  PROVE  \A i \in 1..n : f[i] = g[i] /\ f[i] \in Seq(S)
<1> DEFINE T == {i \in 1..n : ~(f[i] = g[i] /\ f[i] \in Seq(S))}
<1>1. Len(ss) \in Nat /\ Len(tt) \in Nat
  OBVIOUS
<1> SUFFICES ASSUME T # {} PROVE FALSE
  OBVIOUS
<1> DEFINE m == Min(T)
<1>2. m \in T /\ \A i \in T : m <= i
  <2>1. T \in SUBSET Nat
    OBVIOUS
  <2> QED
    BY <2>1, LeastNumber
<1> HIDE DEF m
<1>3. m \in 1..n /\ m \in 1..Len(ss) /\ m \in 1..Len(tt) /\ m \in Nat
  BY <1>1, <1>2
<1>4. /\ f[m] = IF m = 1 THEN ss[m] ELSE f[m - 1] \o ss[m]
      /\ g[m] = IF m = 1 THEN tt[m] ELSE g[m - 1] \o tt[m]
  BY <1>3 DEF Flattens
<1>5. ss[m] \in Seq(S) /\ ss[m] = tt[m]
  BY <1>3
<1>6. CASE m = 1
  BY <1>2, <1>4, <1>5, <1>6
<1>7. CASE m # 1
  <2>1. m - 1 \in 1..n /\ m - 1 \notin T
    BY <1>2, <1>3, <1>7
  <2>2. f[m - 1] = g[m - 1] /\ f[m - 1] \in Seq(S)
    BY <2>1
  <2>3. f[m - 1] \o ss[m] \in Seq(S)
    BY <2>2, <1>5
  <2> QED
    BY <1>2, <1>4, <1>5, <1>7, <2>2, <2>3
<1> QED
  BY <1>6, <1>7

(* FlattenSeq reads the last entry of the table.                           *)
LEMMA FlattenByTable ==
  ASSUME NEW S, NEW ss \in Seq(Seq(S)), ss # <<>>, NEW f, Flattens(f, ss)
  PROVE  FlattenSeq(ss) = f[Len(ss)] /\ FlattenSeq(ss) \in Seq(S)
<1> DEFINE G == CHOOSE g : Flattens(g, ss)
<1>1. Flattens(G, ss)
  BY FlattensExists
<1>2. Len(ss) # 0 /\ Len(ss) \in Nat /\ Len(ss) \in 1..Len(ss)
  OBVIOUS
<1>3. FlattenSeq(ss) = G[Len(ss)]
  BY <1>2 DEF FlattenSeq, Flattens
<1> HIDE DEF G
<1>4. G[Len(ss)] = f[Len(ss)] /\ G[Len(ss)] \in Seq(S)
  <2>1. Len(ss) <= Len(ss) /\ \A i \in 1..Len(ss) : ss[i] = ss[i]
    BY <1>2
  <2> QED
    BY <1>1, <1>2, <2>1, FlattensAgree
<1> QED
  BY <1>3, <1>4

(* What FlattenSeq makes of sequences, one at a time.                      *)
LEMMA FlattenAppend ==
  ASSUME NEW S, NEW ss \in Seq(Seq(S)), NEW s \in Seq(S)
  PROVE  /\ FlattenSeq(<<>>) = <<>>
         /\ FlattenSeq(ss) \in Seq(S)
         /\ FlattenSeq(Append(ss, s)) = FlattenSeq(ss) \o s
<1> DEFINE tt == Append(ss, s)
<1>1. FlattenSeq(<<>>) = <<>>
  BY DEF FlattenSeq
<1>2. /\ tt \in Seq(Seq(S)) /\ tt # <<>> /\ Len(tt) = Len(ss) + 1 /\ Len(ss) \in Nat
      /\ tt[Len(tt)] = s /\ \A i \in 1..Len(ss) : tt[i] = ss[i]
  BY AppendProperties
<1>3. PICK f : Flattens(f, ss)
  BY FlattensExists
<1> HIDE DEF tt
<1>4. PICK g : Flattens(g, tt)
  BY <1>2, FlattensExists
<1>5. FlattenSeq(tt) = g[Len(tt)]
  BY <1>2, <1>4, FlattenByTable
<1>6. g[Len(tt)] = IF Len(tt) = 1 THEN tt[Len(tt)] ELSE g[Len(tt) - 1] \o tt[Len(tt)]
  <2>1. Len(tt) \in 1..Len(tt)
    BY <1>2
  <2> QED
    BY <1>4, <2>1 DEF Flattens
<1>7. CASE ss = <<>>
  <2>1. FlattenSeq(tt) = s /\ <<>> \o s = s
    BY <1>2, <1>5, <1>6, <1>7
  <2>2. FlattenSeq(ss) = <<>>
    BY <1>1, <1>7
  <2>3. <<>> \in Seq(S)
    OBVIOUS
  <2> QED
    BY <1>1, <2>1, <2>2, <2>3 DEF tt
<1>8. CASE ss # <<>>
  <2>1. Len(ss) # 0 /\ Len(tt) # 1 /\ Len(tt) - 1 = Len(ss) /\ Len(ss) \in 1..Len(ss)
    BY <1>2, <1>8
  <2>2. f[Len(ss)] = g[Len(ss)]
    <3>1. Len(ss) <= Len(tt) /\ Len(ss) <= Len(ss) /\ \A i \in 1..Len(ss) : ss[i] = tt[i]
      BY <1>2
    <3>2. \A i \in 1..Len(ss) : f[i] = g[i] /\ f[i] \in Seq(S)
      <4> DEFINE n == Len(ss)
      <4>1. n \in Nat /\ n <= Len(ss) /\ n <= Len(tt) /\ \A i \in 1..n : ss[i] = tt[i]
        BY <1>2, <3>1
      <4>2. \A i \in 1..n : f[i] = g[i] /\ f[i] \in Seq(S)
        <5> HIDE DEF n
        <5> QED
          BY <1>2, <1>3, <1>4, <4>1, FlattensAgree
      <4> QED
        BY <4>2
    <3> QED
      BY <2>1, <3>2
  <2>3. FlattenSeq(ss) = f[Len(ss)] /\ FlattenSeq(ss) \in Seq(S)
    BY <1>3, <1>8, FlattenByTable
  <2> QED
    BY <1>1, <1>2, <1>5, <1>6, <2>1, <2>2, <2>3 DEF tt
<1> QED
  BY <1>7, <1>8

(* Concatenation, with an element appended on its right.                   *)
LEMMA ConcatAppend ==
  ASSUME NEW S, NEW s \in Seq(S), NEW t \in Seq(S), NEW x \in S
  PROVE  /\ s \o t \in Seq(S) /\ Append(s \o t, x) \in Seq(S)
         /\ s \o Append(t, x) = Append(s \o t, x)
<1>1. /\ s \o t \in Seq(S) /\ Append(t, x) \in Seq(S) /\ Append(s \o t, x) \in Seq(S)
      /\ s \o Append(t, x) \in Seq(S)
      /\ Len(s \o Append(t, x)) = Len(Append(s \o t, x))
  OBVIOUS
<1>2. \A i \in 1..Len(s \o Append(t, x)) : (s \o Append(t, x))[i] = Append(s \o t, x)[i]
  OBVIOUS
<1> QED
  BY <1>1, <1>2, SameSequence

(* Flattening distributes over concatenation.                              *)
LEMMA FlattenConcat ==
  ASSUME NEW S, NEW ss \in Seq(Seq(S)), NEW tt \in Seq(Seq(S))
  PROVE  FlattenSeq(ss \o tt) = FlattenSeq(ss) \o FlattenSeq(tt)
<1> DEFINE Q(u) == FlattenSeq(ss \o u) = FlattenSeq(ss) \o FlattenSeq(u)
           T == {n \in Nat : \E u \in Seq(Seq(S)) : Len(u) = n /\ ~Q(u)}
<1>1. T = {}
  <2> SUFFICES ASSUME T # {} PROVE FALSE
    OBVIOUS
  <2> HIDE DEF Q
  <2>1. Min(T) \in T /\ \A n \in T : Min(T) <= n
    <3>1. T \in SUBSET Nat
      OBVIOUS
    <3> QED
      BY <3>1, LeastNumber
  <2>2. PICK u \in Seq(Seq(S)) : Len(u) = Min(T) /\ ~Q(u)
    BY <2>1
  <2>3. CASE Len(u) = 0
    <3>1. u = <<>> /\ ss \o u = ss
      BY <2>3
    <3>2. FlattenSeq(u) = <<>> /\ FlattenSeq(ss) \in Seq(S)
      BY <3>1, FlattenAppend
    <3> QED
      BY <2>2, <3>1, <3>2 DEF Q
  <2>4. CASE Len(u) # 0
    <3> DEFINE v == Shorter(u)
               x == u[Len(u)]
    <3>1. x \in Seq(S) /\ v \in Seq(Seq(S)) /\ Len(v) = Len(u) - 1 /\ u = Append(v, x)
      BY <2>4, LastElement
    <3> HIDE DEF v, x
    <3>2. Q(v)
      <4>1. Len(v) \in Nat /\ ~(Min(T) <= Len(v))
        BY <2>1, <2>2, <2>4, <3>1
      <4>2. Len(v) \notin T
        BY <2>1, <4>1
      <4> QED
        BY <3>1, <4>1, <4>2
    <3>3. ss \o u = Append(ss \o v, x) /\ ss \o v \in Seq(Seq(S))
      BY <3>1, ConcatAppend
    <3>4. /\ FlattenSeq(u) = FlattenSeq(v) \o x
          /\ FlattenSeq(v) \in Seq(S) /\ FlattenSeq(ss) \in Seq(S)
          /\ FlattenSeq(ss \o u) = FlattenSeq(ss \o v) \o x
      BY <3>1, <3>3, FlattenAppend
    <3>5. (FlattenSeq(ss) \o FlattenSeq(v)) \o x = FlattenSeq(ss) \o (FlattenSeq(v) \o x)
      <4> DEFINE a == FlattenSeq(ss)
                 b == FlattenSeq(v)
      <4>1. a \in Seq(S) /\ b \in Seq(S) /\ x \in Seq(S)
        BY <3>1, <3>4
      <4>2. (a \o b) \o x = a \o (b \o x)
        <5> HIDE DEF a, b
        <5> QED
          BY ONLY <4>1, ConcatAssociative
      <4> QED
        BY <4>2
    <3>6. FlattenSeq(ss \o u) = FlattenSeq(ss) \o FlattenSeq(u)
      BY <3>2, <3>4, <3>5 DEF Q
    <3> QED
      BY <2>2, <3>6 DEF Q
  <2> QED
    BY <2>3, <2>4
<1> HIDE DEF Q
<1>2. Len(tt) \in Nat
  OBVIOUS
<1>3. Q(tt)
  BY <1>1, <1>2
<1> QED
  BY <1>3 DEF Q

(* One sequence; nothing but empty ones; nothing but single elements.      *)
LEMMA FlattenOne ==
  ASSUME NEW S, NEW s \in Seq(S)
  PROVE  FlattenSeq(<<s>>) = s
<1>1. <<>> \in Seq(Seq(S)) /\ Append(<<>>, s) = <<s>> /\ <<>> \o s = s
  OBVIOUS
<1> QED
  BY <1>1, FlattenAppend

(* Nothing but empty sequences flatten to nothing.                         *)
LEMMA FlattenEmpty ==
  ASSUME NEW ss \in Seq({<<>>})
  PROVE  FlattenSeq(ss) = <<>>
<1>1. {<<>>} \subseteq Seq({})
  OBVIOUS
<1>2. ss \in Seq(Seq({}))
  BY <1>1, SeqMonotonic
<1>3. FlattenSeq(ss) \in Seq({})
  <2>1. <<>> \in Seq({})
    OBVIOUS
  <2> QED
    BY <1>2, <2>1, FlattenAppend
<1> QED
  BY <1>3

(* Sequences of one element each flatten to the sequence of those.         *)
LEMMA FlattenSingles ==
  ASSUME NEW S, NEW s \in Seq(S), NEW ss, ss = [i \in 1..Len(s) |-> <<s[i]>>]
  PROVE  FlattenSeq(ss) = s
<1> DEFINE Singles(u) == [i \in 1..Len(u) |-> <<u[i]>>]
           Q(u) == FlattenSeq(Singles(u)) = u
           T == {n \in Nat : \E u \in Seq(S) : Len(u) = n /\ ~Q(u)}
<1>1. T = {}
  <2> SUFFICES ASSUME T # {} PROVE FALSE
    OBVIOUS
  <2> HIDE DEF Q
  <2>1. Min(T) \in T /\ \A n \in T : Min(T) <= n
    <3>1. T \in SUBSET Nat
      OBVIOUS
    <3> QED
      BY <3>1, LeastNumber
  <2>2. PICK u \in Seq(S) : Len(u) = Min(T) /\ ~Q(u)
    BY <2>1
  <2>3. CASE Len(u) = 0
    <3>1. u = <<>> /\ Singles(u) = <<>>
      BY <2>3
    <3>2. FlattenSeq(<<>>) = <<>>
      BY DEF FlattenSeq
    <3> QED
      BY <2>2, <3>1, <3>2 DEF Q
  <2>4. CASE Len(u) # 0
    <3> DEFINE v == Shorter(u)
               x == u[Len(u)]
    <3>1. x \in S /\ v \in Seq(S) /\ Len(v) = Len(u) - 1 /\ u = Append(v, x)
      BY <2>4, LastElement
    <3> HIDE DEF v, x
    <3>2. Q(v)
      BY <2>1, <2>2, <2>4, <3>1
    <3>3. Singles(v) \in Seq(Seq(S)) /\ <<x>> \in Seq(S)
      BY <3>1
    <3>4. Singles(u) = Append(Singles(v), <<x>>)
      <4>1. /\ Singles(u) \in Seq(Seq(S)) /\ Append(Singles(v), <<x>>) \in Seq(Seq(S))
            /\ Len(Singles(u)) = Len(Append(Singles(v), <<x>>))
        BY <3>1, <3>3
      <4>2. \A i \in 1..Len(Singles(u)) : Singles(u)[i] = Append(Singles(v), <<x>>)[i]
        BY <3>1, <3>3
      <4> QED
        BY <4>1, <4>2, SameSequence
    <3>5. FlattenSeq(Singles(u)) = v \o <<x>>
      BY <3>2, <3>3, <3>4, FlattenAppend DEF Q
    <3>6. v \o <<x>> = u
      BY <3>1, AppendIsConcat
    <3> QED
      BY <2>2, <3>5, <3>6 DEF Q
  <2> QED
    BY <2>3, <2>4
<1> HIDE DEF Q
<1>2. Len(s) \in Nat
  OBVIOUS
<1>3. Q(s)
  BY <1>1, <1>2
<1> QED
  BY <1>3 DEF Q
----------------------------------------------------------------------------
(* Comprehensions over s: element x gives the element, or sequence, f[x].  *)
MapSeq(f, s) == [i \in DOMAIN s |-> f[s[i]]]
FlatMap(f, s) == FlattenSeq(MapSeq(f, s))

(* f is a function from S to T, by a name that lemmas are matched by.      *)
Maps(f, S, T) == f \in [S -> T]

(* A map has the length of its sequence, and f of each element in place.   *)
LEMMA MapType ==
  ASSUME NEW S, NEW T, NEW f, Maps(f, S, T), NEW s \in Seq(S)
  PROVE  /\ MapSeq(f, s) \in Seq(T)
         /\ Len(MapSeq(f, s)) = Len(s)
         /\ \A i \in 1..Len(s) : MapSeq(f, s)[i] = f[s[i]]
<1>1. Len(s) \in Nat /\ DOMAIN s = 1..Len(s) /\ \A i \in 1..Len(s) : s[i] \in S
  OBVIOUS
<1>2. \A i \in 1..Len(s) : f[s[i]] \in T
  BY <1>1 DEF Maps
<1>3. MapSeq(f, s) = [i \in 1..Len(s) |-> f[s[i]]]
  BY <1>1 DEF MapSeq
<1> QED
  BY <1>1, <1>2, <1>3

(* Maps distribute over concatenation.                                     *)
LEMMA MapConcat ==
  ASSUME NEW S, NEW T, NEW f, Maps(f, S, T), NEW s \in Seq(S), NEW t \in Seq(S)
  PROVE  MapSeq(f, s \o t) = MapSeq(f, s) \o MapSeq(f, t)
<1>1. \A u \in Seq(S) : /\ MapSeq(f, u) \in Seq(T) /\ Len(MapSeq(f, u)) = Len(u)
                        /\ Len(u) \in Nat
                        /\ \A i \in 1..Len(u) : MapSeq(f, u)[i] = f[u[i]]
  BY MapType
<1>2. /\ s \o t \in Seq(S) /\ Len(s \o t) = Len(s) + Len(t)
      /\ \A i \in 1..Len(s) : (s \o t)[i] = s[i]
      /\ \A i \in (Len(s) + 1)..(Len(s) + Len(t)) : (s \o t)[i] = t[i - Len(s)]
  BY ConcatProperties
<1> DEFINE a == MapSeq(f, s)
           b == MapSeq(f, t)
           c == MapSeq(f, s \o t)
<1>3. /\ a \in Seq(T) /\ Len(a) = Len(s) /\ \A i \in 1..Len(s) : a[i] = f[s[i]]
      /\ b \in Seq(T) /\ Len(b) = Len(t) /\ \A i \in 1..Len(t) : b[i] = f[t[i]]
      /\ c \in Seq(T) /\ Len(c) = Len(s) + Len(t)
      /\ \A i \in 1..(Len(s) + Len(t)) : c[i] = f[(s \o t)[i]]
      /\ Len(s) \in Nat /\ Len(t) \in Nat
  BY <1>1, <1>2
<1> HIDE DEF a, b, c
<1>4. a \o b \in Seq(T) /\ Len(a \o b) = Len(c)
  <2>1. a \in Seq(T) /\ b \in Seq(T)
    BY <1>3
  <2>2. a \o b \in Seq(T) /\ Len(a \o b) = Len(a) + Len(b)
    BY ONLY <2>1, ConcatProperties
  <2> QED
    BY <1>3, <2>2
<1>5. ASSUME NEW i \in 1..Len(c) PROVE c[i] = (a \o b)[i]
  <2>1. i \in 1..(Len(s) + Len(t)) /\ c[i] = f[(s \o t)[i]]
    BY <1>3
  <2>2. CASE i <= Len(s)
    <3>1. i \in 1..Len(s) /\ (a \o b)[i] = a[i]
      BY <1>3, <2>1, <2>2
    <3> QED
      BY <1>2, <1>3, <2>1, <3>1
  <2>3. CASE ~(i <= Len(s))
    <3>1. i \in (Len(s) + 1)..(Len(s) + Len(t)) /\ i - Len(s) \in 1..Len(t)
      BY <1>3, <2>1, <2>3
    <3>2. (a \o b)[i] = b[i - Len(s)]
      BY <1>3, <2>1, <2>3
    <3> QED
      BY <1>2, <1>3, <2>1, <3>1, <3>2
  <2> QED
    BY <2>2, <2>3
<1>6. c = a \o b
  BY <1>3, <1>4, <1>5, SameSequence
<1> QED
  BY <1>6 DEF a, b, c

(* A comprehension is a sequence of what its parts are sequences of.       *)
LEMMA FlatMapType ==
  ASSUME NEW S, NEW T, NEW f, Maps(f, S, Seq(T)), NEW s \in Seq(S)
  PROVE  FlatMap(f, s) \in Seq(T)
<1>1. MapSeq(f, s) \in Seq(Seq(T))
  BY MapType
<1>2. <<>> \in Seq(T)
  OBVIOUS
<1> QED
  BY <1>1, <1>2, FlattenAppend DEF FlatMap

(* Comprehensions distribute over concatenation.                           *)
LEMMA FlatMapConcat ==
  ASSUME NEW S, NEW T, NEW f, Maps(f, S, Seq(T)), NEW s \in Seq(S), NEW t \in Seq(S)
  PROVE  FlatMap(f, s \o t) = FlatMap(f, s) \o FlatMap(f, t)
<1>1. MapSeq(f, s) \in Seq(Seq(T)) /\ MapSeq(f, t) \in Seq(Seq(T))
  BY MapType
<1>2. MapSeq(f, s \o t) = MapSeq(f, s) \o MapSeq(f, t)
  BY MapConcat
<1> QED
  BY <1>1, <1>2, FlattenConcat DEF FlatMap

(* Concatenation, as an operator of its own by which facts are matched.    *)
Then(s, t) == s \o t

(* The same of that operator.                                              *)
LEMMA FlatMapThen ==
  ASSUME NEW S, NEW T, NEW f, Maps(f, S, Seq(T)), NEW s \in Seq(S), NEW t \in Seq(S)
  PROVE  /\ Then(s, t) \in Seq(S)
         /\ FlatMap(f, Then(s, t)) = Then(FlatMap(f, s), FlatMap(f, t))
<1>1. s \o t \in Seq(S)
  OBVIOUS
<1>2. FlatMap(f, s \o t) = FlatMap(f, s) \o FlatMap(f, t)
  BY FlatMapConcat
<1> QED
  BY <1>1, <1>2 DEF Then

(* The empty sequence, and a sequence of one element.                      *)
LEMMA FlatMapFew ==
  ASSUME NEW S, NEW T, NEW f, Maps(f, S, Seq(T)), NEW x \in S
  PROVE  FlatMap(f, <<>>) = <<>> /\ FlatMap(f, <<x>>) = f[x]
<1>1. [i \in DOMAIN <<>> |-> f[(<<>>)[i]]] = <<>>
  OBVIOUS
<1>2. FlatMap(f, <<>>) = <<>>
  BY <1>1 DEF FlatMap, MapSeq, FlattenSeq
<1>3. [i \in DOMAIN <<x>> |-> f[<<x>>[i]]] = <<f[x]>>
  OBVIOUS
<1>4. FlatMap(f, <<x>>) = FlattenSeq(<<f[x]>>)
  BY <1>3 DEF FlatMap, MapSeq
<1>5. f[x] \in Seq(T)
  BY DEF Maps
<1>6. FlattenSeq(<<f[x]>>) = f[x]
  BY <1>5, FlattenOne
<1> QED
  BY <1>2, <1>4, <1>6

(* An element appended brings what it gives.                               *)
LEMMA FlatMapAppend ==
  ASSUME NEW S, NEW T, NEW f, Maps(f, S, Seq(T)), NEW s \in Seq(S), NEW x \in S
  PROVE  FlatMap(f, Append(s, x)) = FlatMap(f, s) \o f[x]
<1> DEFINE t == <<x>>
<1>1. t \in Seq(S) /\ Append(s, x) = s \o t
  BY AppendIsConcat
<1>2. FlatMap(f, t) = f[x]
  BY FlatMapFew
<1> HIDE DEF t
<1>3. FlatMap(f, s \o t) = FlatMap(f, s) \o FlatMap(f, t)
  BY <1>1, FlatMapConcat
<1> QED
  BY <1>1, <1>2, <1>3

(* Only what the elements give counts.                                     *)
LEMMA FlatMapAgree ==
  ASSUME NEW S, NEW f, NEW g, NEW s \in Seq(S), \A i \in 1..Len(s) : f[s[i]] = g[s[i]]
  PROVE  FlatMap(f, s) = FlatMap(g, s)
<1>1. DOMAIN s = 1..Len(s)
  OBVIOUS
<1> QED
  BY <1>1 DEF FlatMap, MapSeq

(* An element that gives itself is kept, one that gives nothing is not.    *)
LEMMA FlatMapSame ==
  ASSUME NEW S, NEW f, NEW s \in Seq(S), \A i \in 1..Len(s) : f[s[i]] = <<s[i]>>
  PROVE  FlatMap(f, s) = s
<1>1. DOMAIN s = 1..Len(s)
  OBVIOUS
<1>2. [i \in DOMAIN s |-> f[s[i]]] = [i \in 1..Len(s) |-> <<s[i]>>]
  BY <1>1
<1> QED
  BY <1>2, FlattenSingles DEF FlatMap, MapSeq

(* If no element gives anything, neither does the comprehension.           *)
LEMMA FlatMapNone ==
  ASSUME NEW S, NEW f, NEW s \in Seq(S), \A i \in 1..Len(s) : f[s[i]] = <<>>
  PROVE  FlatMap(f, s) = <<>>
<1>1. DOMAIN s = 1..Len(s) /\ Len(s) \in Nat
  OBVIOUS
<1>2. [i \in DOMAIN s |-> f[s[i]]] \in Seq({<<>>})
  BY <1>1
<1> QED
  BY <1>2, FlattenEmpty DEF FlatMap, MapSeq

(* Each element of s gives one by f, that g names.                         *)
Single(f, g, s) == \A i \in 1..Len(s) : f[s[i]] = <<g[s[i]]>>

(* Such a comprehension is a map.                                          *)
LEMMA FlatMapEach ==
  ASSUME NEW S, NEW T, NEW f, NEW g, Maps(g, S, T), NEW s \in Seq(S), Single(f, g, s)
  PROVE  FlatMap(f, s) = MapSeq(g, s)
<1> DEFINE t == MapSeq(g, s)
<1>1. DOMAIN s = 1..Len(s) /\ Len(s) \in Nat
  OBVIOUS
<1>2. t \in Seq(T) /\ Len(t) = Len(s) /\ \A i \in 1..Len(s) : t[i] = g[s[i]]
  BY MapType
<1> HIDE DEF t
<1>3. [i \in DOMAIN s |-> f[s[i]]] = [i \in 1..Len(t) |-> <<t[i]>>]
  BY <1>1, <1>2 DEF Single
<1>4. FlatMap(f, s) = t
  BY <1>2, <1>3, FlattenSingles DEF FlatMap, MapSeq
<1> QED
  BY <1>4 DEF t

(* A comprehension over a comprehension is one.                            *)
LEMMA FlatMapTwice ==
  ASSUME NEW S, NEW T, NEW U, NEW f, Maps(f, S, Seq(T)), NEW g, Maps(g, T, Seq(U)),
         NEW h, Maps(h, S, Seq(U)), NEW s \in Seq(S),
         \A x \in S : h[x] = FlatMap(g, f[x])
  PROVE  FlatMap(g, FlatMap(f, s)) = FlatMap(h, s)
<1> DEFINE Q(u) == FlatMap(g, FlatMap(f, u)) = FlatMap(h, u)
           R == {n \in Nat : \E u \in Seq(S) : Len(u) = n /\ ~Q(u)}
<1>1. R = {}
  <2> SUFFICES ASSUME R # {} PROVE FALSE
    OBVIOUS
  <2> HIDE DEF Q
  <2>1. Min(R) \in R /\ \A n \in R : Min(R) <= n
    <3>1. R \in SUBSET Nat
      OBVIOUS
    <3> QED
      BY <3>1, LeastNumber
  <2>2. PICK u \in Seq(S) : Len(u) = Min(R) /\ ~Q(u)
    BY <2>1
  <2>3. CASE Len(u) = 0
    <3>1. u = <<>>
      BY <2>3
    <3>2. \A k : [i \in DOMAIN <<>> |-> k[(<<>>)[i]]] = <<>>
      OBVIOUS
    <3>3. \A k : FlatMap(k, <<>>) = <<>>
      BY <3>2 DEF FlatMap, MapSeq, FlattenSeq
    <3> QED
      BY <2>2, <3>1, <3>3 DEF Q
  <2>4. CASE Len(u) # 0
    <3> DEFINE v == Shorter(u)
               x == u[Len(u)]
    <3>1. x \in S /\ v \in Seq(S) /\ Len(v) = Len(u) - 1 /\ u = Append(v, x)
      BY <2>4, LastElement
    <3> HIDE DEF v, x
    <3>2. Q(v)
      <4>1. Len(v) \in Nat /\ ~(Min(R) <= Len(v))
        BY <2>1, <2>2, <2>4, <3>1
      <4>2. Len(v) \notin R
        BY <2>1, <4>1
      <4> QED
        BY <3>1, <4>1, <4>2
    <3>4. FlatMap(f, v) \in Seq(T) /\ f[x] \in Seq(T)
      BY <3>1, FlatMapType DEF Maps
    <3>5. FlatMap(f, u) = FlatMap(f, v) \o f[x]
      BY <3>1, FlatMapAppend
    <3>6. FlatMap(h, u) = FlatMap(h, v) \o h[x]
      BY <3>1, FlatMapAppend
    <3>7. FlatMap(g, FlatMap(f, v) \o f[x]) = FlatMap(g, FlatMap(f, v)) \o FlatMap(g, f[x])
      BY ONLY <3>4, FlatMapConcat, Maps(g, T, Seq(U))
    <3> QED
      BY <2>2, <3>1, <3>2, <3>5, <3>6, <3>7 DEF Q
  <2> QED
    BY <2>3, <2>4
<1> HIDE DEF Q
<1>2. Len(s) \in Nat
  OBVIOUS
<1>3. Q(s)
  BY <1>1, <1>2
<1> QED
  BY <1>3 DEF Q
==============================================================================
