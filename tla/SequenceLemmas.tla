--------------------------- MODULE SequenceLemmas ---------------------------
(***************************************************************************)
(* What FlattenSeq computes, for sequences of every length: it is the      *)
(* empty sequence for none, and each further sequence is put behind it.    *)
(*                                                                         *)
(* FlattenSeq is defined by a recursive function.  That there is exactly   *)
(* one such function is shown without an induction rule: a set of natural  *)
(* numbers that is not empty has a least element, so if some length failed *)
(* there would be a first length that fails.                               *)
(***************************************************************************)
EXTENDS Integers, Sequences, SequencesExt, SequenceTheorems, WellFoundedInduction, TLAPS

LEMMA NatOrder == OpToRel(<, Nat) = {ss \in Nat \X Nat : ss[1] < ss[2]}
  BY DEF OpToRel

LEMMA LeastNumber ==
    ASSUME NEW T, T \subseteq Nat, T # {}
    PROVE  \E n \in T : \A m \in T : n <= m
<1>1. PICK R : R = OpToRel(<, Nat) /\ IsWellFoundedOn(R, Nat)
  BY NatLessThanWellFounded
<1>2. PICK n \in T : \A m \in T : <<m, n>> \notin R
  BY <1>1, WFMin
<1>3. \A m \in T : ~(m < n)
  BY <1>1, <1>2, NatOrder
<1> QED
  BY <1>3

-----------------------------------------------------------------------------
(* One sequence behind another                                             *)

\* Sequence a is x with y behind it.
Joined(a, x, y) == a = x \o y

LEMMA JoinedBehind ==
    ASSUME NEW S, NEW x \in Seq(S), NEW y \in Seq(S), NEW z \in Seq(S),
           NEW a, Joined(a, x, y), NEW b, Joined(b, a, z), NEW c, Joined(c, y, z)
    PROVE  Joined(b, x, c)
  BY ConcatAssociative DEF Joined

-----------------------------------------------------------------------------
(* The recursive function                                                  *)

\* f is the function FlattenSeq names flatten, for the first n sequences of ss.
Flattens(f, ss, n) ==
    f = [i \in 1 .. n |-> IF i = 1 THEN ss[i] ELSE f[i - 1] \o ss[i]]

\* It is determined by ss.
LEMMA FlattensOnce ==
    ASSUME NEW ss, NEW n \in Nat, NEW f, NEW g, Flattens(f, ss, n), Flattens(g, ss, n)
    PROVE  f = g
<1>1. /\ f = [i \in 1 .. n |-> IF i = 1 THEN ss[i] ELSE f[i - 1] \o ss[i]]
      /\ g = [i \in 1 .. n |-> IF i = 1 THEN ss[i] ELSE g[i - 1] \o ss[i]]
  BY DEF Flattens
<1> DEFINE T == {i \in 1 .. n : f[i] # g[i]}
<1>2. ASSUME T # {} PROVE FALSE
  <2>1. PICK i \in T : \A j \in T : i <= j
    <3>1. T \subseteq Nat
      OBVIOUS
    <3> HIDE DEF T
    <3> QED
      BY <1>2, <3>1, LeastNumber
  <2>2. CASE i = 1
    BY <1>1, <2>1, <2>2
  <2>3. CASE i # 1
    <3>1. i - 1 \in 1 .. n /\ i - 1 \notin T
      BY <2>1, <2>3
    <3>2. f[i - 1] = g[i - 1]
      BY <3>1
    <3>3. i \in 1 .. n /\ f[i] # g[i]
      BY Zenon
    <3>4. f[i] = f[i - 1] \o ss[i] /\ g[i] = g[i - 1] \o ss[i]
      BY <1>1, <2>3, <3>3
    <3> QED
      BY <3>2, <3>3, <3>4
  <2> QED
    BY <2>2, <2>3
<1>3. \A i \in 1 .. n : f[i] = g[i]
  BY <1>2
<1>4. /\ f = [i \in 1 .. n |-> f[i]]
      /\ g = [i \in 1 .. n |-> g[i]]
  BY <1>1
<1> QED
  BY <1>3, <1>4

\* It exists for every length, its values are sequences, and each is the one before it
\* with the next sequence behind it.
LEMMA FlattensMore ==
    ASSUME NEW S, NEW ss, NEW n \in Nat \ {0}, \A i \in 1 .. n + 1 : ss[i] \in Seq(S),
           NEW f, Flattens(f, ss, n), f[n] \in Seq(S)
    PROVE  \E g : /\ Flattens(g, ss, n + 1)
                  /\ g[n + 1] = f[n] \o ss[n + 1]
                  /\ g[n + 1] \in Seq(S)
<1> DEFINE g == [i \in 1 .. n + 1 |-> IF i = n + 1 THEN f[n] \o ss[i] ELSE f[i]]
<1>1. f = [i \in 1 .. n |-> IF i = 1 THEN ss[i] ELSE f[i - 1] \o ss[i]]
  BY DEF Flattens
<1>2. \A i \in 1 .. n : f[i] = IF i = 1 THEN ss[i] ELSE f[i - 1] \o ss[i]
  BY <1>1
<1>3. \A i \in 1 .. n + 1 : g[i] = IF i = 1 THEN ss[i] ELSE g[i - 1] \o ss[i]
  <2> TAKE i \in 1 .. n + 1
  <2>1. CASE i = n + 1
    <3>1. i # 1 /\ i - 1 = n /\ n \in 1 .. n + 1 /\ n # n + 1
      BY <2>1
    <3> QED
      BY <2>1, <3>1
  <2>2. CASE i # n + 1
    <3>1. i \in 1 .. n /\ (i # 1 => i - 1 \in 1 .. n + 1 /\ i - 1 # n + 1)
      BY <2>2
    <3> QED
      BY <1>2, <2>2, <3>1
  <2> QED
    BY <2>1, <2>2
<1>4. g[n + 1] = f[n] \o ss[n + 1]
  <2>1. n + 1 \in 1 .. n + 1
    OBVIOUS
  <2> QED
    BY <2>1
<1>5. DOMAIN g = 1 .. n + 1 /\ g = [i \in 1 .. n + 1 |-> g[i]]
  OBVIOUS
<1>6. n + 1 \in 1 .. n + 1 /\ ss[n + 1] \in Seq(S)
  OBVIOUS
<1>7. f[n] \o ss[n + 1] \in Seq(S)
  BY <1>6
<1> HIDE DEF g
<1>8. Flattens(g, ss, n + 1)
  BY <1>3, <1>5 DEF Flattens
<1> QED
  BY <1>4, <1>7, <1>8

LEMMA FlattensExists ==
    ASSUME NEW S, NEW n \in Nat \ {0}, NEW ss, \A i \in 1 .. n : ss[i] \in Seq(S)
    PROVE  \E f : Flattens(f, ss, n) /\ f[n] \in Seq(S)
<1> DEFINE Good(k) == \E f : Flattens(f, ss, k) /\ f[k] \in Seq(S)
           T == {k \in 1 .. n : ~Good(k)}
<1> SUFFICES ASSUME T # {} PROVE FALSE
  <2>1. n \in 1 .. n
    OBVIOUS
  <2>2. T = {} => Good(n)
    BY <2>1
  <2> QED
    BY <2>2
<1>1. PICK k \in T : \A j \in T : k <= j
  <2>1. T \subseteq Nat
    OBVIOUS
  <2> HIDE DEF T
  <2> QED
    BY <2>1, LeastNumber
<1>2. k \in 1 .. n /\ ~Good(k)
  OBVIOUS
<1>3. Good(1)
  <2> DEFINE f == [i \in 1 .. 1 |-> ss[1]]
  <2>1. f = [i \in 1 .. 1 |-> IF i = 1 THEN ss[i] ELSE f[i - 1] \o ss[i]]
    OBVIOUS
  <2>2. f[1] \in Seq(S)
    OBVIOUS
  <2> HIDE DEF f
  <2>3. Flattens(f, ss, 1)
    BY <2>1 DEF Flattens
  <2> QED
    BY <2>2, <2>3
<1>4. k # 1
  BY <1>2, <1>3
<1>5. k - 1 \in 1 .. n /\ k - 1 \notin T /\ k - 1 \in Nat \ {0} /\ (k - 1) + 1 = k
  BY <1>1, <1>4
<1>6. Good(k - 1)
  BY <1>5
<1>7. PICK f : Flattens(f, ss, k - 1) /\ f[k - 1] \in Seq(S)
  BY <1>6
<1>8. \A i \in 1 .. (k - 1) + 1 : ss[i] \in Seq(S)
  BY <1>2
<1>9. \E g : Flattens(g, ss, (k - 1) + 1) /\ g[(k - 1) + 1] \in Seq(S)
  BY <1>5, <1>7, <1>8, FlattensMore
<1>10. Good(k)
  BY <1>5, <1>9
<1> QED
  BY <1>2, <1>10

-----------------------------------------------------------------------------
(* FlattenSeq                                                              *)

LEMMA FlattenIs ==
    ASSUME NEW ss, Len(ss) \in Nat \ {0}, NEW f, Flattens(f, ss, Len(ss))
    PROVE  FlattenSeq(ss) = f[Len(ss)]
<1> DEFINE P(g) == g = [i \in 1 .. Len(ss) |-> IF i = 1 THEN ss[i] ELSE g[i - 1] \o ss[i]]
<1>1. \A g : P(g) => Flattens(g, ss, Len(ss))
  BY DEF Flattens
<1>2. \A g : P(g) => g = f
  BY <1>1, FlattensOnce
<1>3. P(f)
  BY DEF Flattens
<1>4. (CHOOSE g : P(g)) = f
  <2> HIDE DEF P
  <2> QED
    BY <1>2, <1>3
<1> QED
  BY <1>4 DEF FlattenSeq

LEMMA FlattenEmpty ==
    ASSUME NEW ss, Len(ss) = 0
    PROVE  FlattenSeq(ss) = ss
  BY DEF FlattenSeq

LEMMA FlattenOne ==
    ASSUME NEW S, NEW x \in Seq(S)
    PROVE  FlattenSeq(<<x>>) = x
<1> DEFINE ss == <<x>>
<1>1. Len(ss) = 1 /\ ss[1] = x
  OBVIOUS
<1> HIDE DEF ss
<1>2. \A i \in 1 .. 1 : ss[i] \in Seq(S)
  BY <1>1
<1>3. PICK f : Flattens(f, ss, 1)
  BY <1>2, FlattensExists
<1>4. FlattenSeq(ss) = f[1]
  <2>1. Len(ss) \in Nat \ {0} /\ Flattens(f, ss, Len(ss))
    BY <1>1, <1>3
  <2>2. FlattenSeq(ss) = f[Len(ss)]
    BY <2>1, FlattenIs
  <2> QED
    BY <1>1, <2>2
<1>5. f[1] = x
  BY <1>1, <1>3 DEF Flattens
<1> QED
  BY <1>4, <1>5 DEF ss

LEMMA FlattenType ==
    ASSUME NEW S, NEW ss \in Seq(Seq(S))
    PROVE  FlattenSeq(ss) \in Seq(S)
<1>1. CASE Len(ss) = 0
  <2>1. ss = << >>
    BY <1>1
  <2>2. FlattenSeq(ss) = << >>
    BY <1>1, <2>1, FlattenEmpty
  <2>3. << >> \in Seq(S)
    OBVIOUS
  <2> QED
    BY <2>2, <2>3
<1>2. CASE Len(ss) # 0
  <2>1. Len(ss) \in Nat \ {0} /\ \A i \in 1 .. Len(ss) : ss[i] \in Seq(S)
    BY <1>2
  <2>2. PICK f : Flattens(f, ss, Len(ss)) /\ f[Len(ss)] \in Seq(S)
    BY <2>1, FlattensExists
  <2> QED
    BY <2>1, <2>2, FlattenIs
<1> QED
  BY <1>1, <1>2

\* A further sequence is put behind the others.
LEMMA FlattenAppend ==
    ASSUME NEW S, NEW ss \in Seq(Seq(S)), NEW x \in Seq(S)
    PROVE  FlattenSeq(Append(ss, x)) = FlattenSeq(ss) \o x
<1> DEFINE n == Len(ss)
           tt == Append(ss, x)
<1>1. /\ n \in Nat /\ \A i \in 1 .. n : ss[i] \in Seq(S)
      /\ Len(tt) = n + 1 /\ tt[n + 1] = x /\ \A i \in 1 .. n : tt[i] = ss[i]
  OBVIOUS
<1>2. CASE n = 0
  <2>1. ss = << >>
    BY <1>2
  <2>2. tt = <<x>>
    BY <2>1
  <2>3. FlattenSeq(ss) = << >> /\ FlattenSeq(tt) = x
    BY <1>2, <2>1, <2>2, FlattenEmpty, FlattenOne
  <2>4. << >> \o x = x
    OBVIOUS
  <2> QED
    BY <2>3, <2>4
<1>3. CASE n # 0
  <2> HIDE DEF n, tt
  <2>1. PICK f : Flattens(f, ss, n) /\ f[n] \in Seq(S)
    BY <1>1, <1>3, FlattensExists
  <2>2. Flattens(f, tt, n)
    <3>1. [i \in 1 .. n |-> IF i = 1 THEN ss[i] ELSE f[i - 1] \o ss[i]]
            = [i \in 1 .. n |-> IF i = 1 THEN tt[i] ELSE f[i - 1] \o tt[i]]
      BY <1>1
    <3> QED
      BY <2>1, <3>1 DEF Flattens
  <2>3. n \in Nat \ {0} /\ \A i \in 1 .. n + 1 : tt[i] \in Seq(S)
    BY <1>1, <1>3
  <2>4. PICK g : Flattens(g, tt, n + 1) /\ g[n + 1] = f[n] \o tt[n + 1]
    <3> DEFINE m == n
    <3>1. /\ m \in Nat \ {0} /\ \A i \in 1 .. m + 1 : tt[i] \in Seq(S)
          /\ Flattens(f, tt, m) /\ f[m] \in Seq(S)
      BY <2>1, <2>2, <2>3
    <3> HIDE DEF m
    <3>2. \E g : /\ Flattens(g, tt, m + 1)
                 /\ g[m + 1] = f[m] \o tt[m + 1]
                 /\ g[m + 1] \in Seq(S)
      BY <3>1, FlattensMore, Zenon
    <3> QED
      BY <3>2 DEF m
  <2>5. FlattenSeq(ss) = f[n] /\ FlattenSeq(tt) = g[n + 1]
    BY <1>1, <2>1, <2>3, <2>4, FlattenIs DEF n
  <2>6. tt[n + 1] = x
    BY <1>1
  <2>7. FlattenSeq(tt) = FlattenSeq(ss) \o x
    BY <2>4, <2>5, <2>6, Zenon
  <2> QED
    BY <2>7 DEF tt
<1> QED
  BY <1>2, <1>3

LEMMA ConcatAppend ==
    ASSUME NEW S, NEW a \in Seq(S), NEW b \in Seq(S), NEW x \in S
    PROVE  /\ a \o Append(b, x) = Append(a \o b, x)
           /\ a \o b \in Seq(S)
  OBVIOUS

LEMMA FrontAppend ==
    ASSUME NEW S, NEW a \in Seq(S), NEW n \in Nat, Len(a) = n + 1
    PROVE  \E b \in Seq(S), x \in S : a = Append(b, x) /\ Len(b) = n
<1> DEFINE b == [i \in 1 .. n |-> a[i]]
<1>1. b \in Seq(S) /\ Len(b) = n /\ a[n + 1] \in S
  OBVIOUS
<1>2. a = Append(b, a[n + 1])
  <2>1. DOMAIN a = 1 .. n + 1 /\ DOMAIN Append(b, a[n + 1]) = 1 .. n + 1
    OBVIOUS
  <2> QED
    OBVIOUS
<1> QED
  BY <1>1, <1>2

\* The sequences of two sequences one after the other.
LEMMA FlattenConcat ==
    ASSUME NEW S, NEW ss \in Seq(Seq(S)), NEW tt \in Seq(Seq(S))
    PROVE  FlattenSeq(ss \o tt) = FlattenSeq(ss) \o FlattenSeq(tt)
<1> DEFINE Good(n) == \A ts \in Seq(Seq(S)) :
               Len(ts) = n => FlattenSeq(ss \o ts) = FlattenSeq(ss) \o FlattenSeq(ts)
           T == {n \in Nat : ~Good(n)}
<1>1. Good(0)
  <2> SUFFICES ASSUME NEW ts \in Seq(Seq(S)), Len(ts) = 0
               PROVE  FlattenSeq(ss \o ts) = FlattenSeq(ss) \o FlattenSeq(ts)
    OBVIOUS
  <2>1. ts = << >> /\ ss \o ts = ss
    OBVIOUS
  <2>2. FlattenSeq(ts) = << >> /\ FlattenSeq(ss) \in Seq(S)
    BY <2>1, FlattenEmpty, FlattenType
  <2>3. FlattenSeq(ss) \o << >> = FlattenSeq(ss)
    BY <2>2
  <2> QED
    BY <2>1, <2>2, <2>3
<1>2. ASSUME NEW n \in Nat, Good(n) PROVE Good(n + 1)
  <2> SUFFICES ASSUME NEW ts \in Seq(Seq(S)), Len(ts) = n + 1
               PROVE  FlattenSeq(ss \o ts) = FlattenSeq(ss) \o FlattenSeq(ts)
    OBVIOUS
  <2>1. PICK us \in Seq(Seq(S)), x \in Seq(S) : ts = Append(us, x) /\ Len(us) = n
    BY FrontAppend
  <2>2. FlattenSeq(ss \o us) = FlattenSeq(ss) \o FlattenSeq(us)
    BY <1>2, <2>1
  <2>3. ss \o ts = Append(ss \o us, x) /\ ss \o us \in Seq(Seq(S))
    BY <2>1, ConcatAppend
  <2>4. /\ Joined(FlattenSeq(ss \o us), FlattenSeq(ss), FlattenSeq(us))
        /\ Joined(FlattenSeq(ss \o ts), FlattenSeq(ss \o us), x)
        /\ Joined(FlattenSeq(ts), FlattenSeq(us), x)
    BY <2>1, <2>2, <2>3, FlattenAppend DEF Joined
  <2>5. FlattenSeq(ss) \in Seq(S) /\ FlattenSeq(us) \in Seq(S)
    BY FlattenType
  <2>6. Joined(FlattenSeq(ss \o ts), FlattenSeq(ss), FlattenSeq(ts))
    BY <2>4, <2>5, JoinedBehind
  <2> QED
    BY <2>6 DEF Joined
<1>3. ASSUME T # {} PROVE FALSE
  <2>1. PICK n \in T : \A m \in T : n <= m
    <3>1. T \subseteq Nat
      OBVIOUS
    <3> HIDE DEF T
    <3> QED
      BY <1>3, <3>1, LeastNumber
  <2> HIDE DEF Good
  <2>2. n \in Nat /\ ~Good(n) /\ n # 0
    BY <1>1
  <2>3. n - 1 \in Nat /\ n - 1 \notin T /\ (n - 1) + 1 = n
    BY <2>1, <2>2
  <2>4. Good(n - 1)
    BY <2>3
  <2> QED
    BY <1>2, <2>2, <2>3, <2>4
<1>4. Good(Len(tt))
  <2> HIDE DEF Good
  <2>1. Len(tt) \in Nat
    OBVIOUS
  <2> QED
    BY <1>3, <2>1
<1> QED
  BY <1>4

\* ... and of a sequence that starts with one.
LEMMA FlattenFirst ==
    ASSUME NEW S, NEW ss \in Seq(Seq(S)), ss # << >>
    PROVE  FlattenSeq(ss) = Head(ss) \o FlattenSeq(Tail(ss))
<1>1. /\ ss = <<Head(ss)>> \o Tail(ss)
      /\ Head(ss) \in Seq(S) /\ Tail(ss) \in Seq(Seq(S)) /\ <<Head(ss)>> \in Seq(Seq(S))
  OBVIOUS
<1>2. FlattenSeq(<<Head(ss)>> \o Tail(ss))
        = FlattenSeq(<<Head(ss)>>) \o FlattenSeq(Tail(ss))
  BY <1>1, FlattenConcat
<1>3. FlattenSeq(<<Head(ss)>>) = Head(ss)
  BY <1>1, FlattenOne
<1> QED
  BY <1>1, <1>2, <1>3
=============================================================================
