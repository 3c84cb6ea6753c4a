---------------------------- MODULE SkillsProofs ----------------------------
(***************************************************************************)
(* Theorems about Skills for any directories, files, runs, messages and    *)
(* configuration: what a run injects is allowed, and how old it may be.    *)
(* The operators of the selection come first: a set is finite, its ranks   *)
(* make it a sequence, and what the choice is made of.  Then the invariant:*)
(* every list, wherever it is, holds skills as they were in a file.        *)
(***************************************************************************)
EXTENDS Skills, SequenceTheorems, FiniteSetTheorems, WellFoundedInduction, TLAPS

-----------------------------------------------------------------------------
(* The operators the selection is made of. *)

\* Every nonempty set of natural numbers has a least one.
LEMMA LeastOf ==
  ASSUME NEW S, S # {}, S \subseteq Nat
  PROVE  Min(S) \in S /\ \A k \in S : Min(S) <= k
<1> DEFINE R == OpToRel(<, Nat)
<1>1. IsWellFoundedOn(R, Nat)
  BY NatLessThanWellFounded
<1>2. \A x, y : <<y, x>> \in R <=> y \in Nat /\ x \in Nat /\ y < x
  BY DEF OpToRel
<1> HIDE DEF R
<1>3. \E m \in S : \A k \in S : ~(<<k, m>> \in R)
  BY <1>1, WFMin
<1>4. PICK m \in S : \A k \in S : ~(k < m)
  BY <1>2, <1>3
<1>5. \A k \in S : m <= k
  BY <1>4
<1> QED
  BY <1>5 DEF Min

LEMMA ElementsAreFinite ==
  ASSUME NEW S, NEW s \in Seq(S)
  PROVE  /\ IsFiniteSet(ToSet(s)) /\ ToSet(s) \subseteq S
         /\ \A x : x \in ToSet(s) <=> \E i \in 1..Len(s) : s[i] = x
<1>1. DOMAIN s = 1..Len(s) /\ Len(s) \in Nat /\ \A i \in 1..Len(s) : s[i] \in S
  BY LenProperties, ElementOfSeq
<1>2. \A x : x \in ToSet(s) <=> \E i \in 1..Len(s) : s[i] = x
  BY <1>1 DEF ToSet
<1>3. s \in Seq(ToSet(s))
  <2>1. \A i \in 1..Len(s) : s[i] \in ToSet(s)
    BY <1>2
  <2>2. SubSeq(s, 1, Len(s)) \in Seq(ToSet(s))
    BY <1>1, <2>1, SubSeqProperties
  <2> QED
    BY <2>2, SubSeqFull
<1>4. IsFiniteSet(ToSet(s))
  BY <1>2, <1>3 DEF IsFiniteSet
<1> QED
  BY <1>1, <1>2, <1>4

Orders(before, S) ==
  /\ \A x \in S : <<x, x>> \notin before
  /\ \A x, y, z \in S : <<x, y>> \in before /\ <<y, z>> \in before => <<x, z>> \in before
  /\ \A x, y \in S : x = y \/ <<x, y>> \in before \/ <<y, x>> \in before

\* Of a set with a strict total order, Ranked lists every element in its turn.
LEMMA RankedInOrder ==
  ASSUME NEW S, IsFiniteSet(S), NEW before, Orders(before, S)
  PROVE  LET n == Cardinality(S)
         IN /\ n \in Nat /\ Ranked(S, before) \in [1..n -> S]
            /\ \A i, j \in 1..n : i < j => <<Ranked(S, before)[i], Ranked(S, before)[j]>> \in before
<1> DEFINE under(x) == {y \in S : <<y, x>> \in before}
           rank == [x \in S |-> Cardinality(under(x))]
           n == Cardinality(S)
<1>1. n \in Nat
  BY FS_CardinalityType
<1>2. ASSUME NEW x \in S PROVE IsFiniteSet(under(x)) /\ rank[x] \in 0..(n - 1)
  <2>1. under(x) \subseteq S \ {x}
    BY DEF Orders
  <2>2. IsFiniteSet(S \ {x}) /\ Cardinality(S \ {x}) = n - 1
    BY FS_RemoveElement
  <2>3. IsFiniteSet(under(x)) /\ Cardinality(under(x)) <= Cardinality(S \ {x})
    <3> HIDE DEF under
    <3> QED
      BY <2>1, <2>2, FS_Subset
  <2>4. Cardinality(under(x)) \in Nat
    BY <2>3, FS_CardinalityType
  <2> QED
    <3>1. rank[x] = Cardinality(under(x))
      OBVIOUS
    <3> HIDE DEF under, rank
    <3> QED
      BY <1>1, <2>2, <2>3, <2>4, <3>1
<1>3. ASSUME NEW x \in S, NEW y \in S, <<x, y>> \in before PROVE rank[x] < rank[y]
  <2>1. under(x) \cup {x} \subseteq under(y) /\ x \notin under(x)
    BY <1>3 DEF Orders
  <2>2. IsFiniteSet(under(x)) /\ IsFiniteSet(under(y)) /\ rank[x] \in Nat /\ rank[y] \in Nat
    BY <1>1, <1>2
  <2>3. Cardinality(under(x) \cup {x}) = rank[x] + 1
    BY <2>1, <2>2, FS_AddElement
  <2>4. Cardinality(under(x) \cup {x}) <= rank[y]
    BY <2>1, <2>2, FS_Subset
  <2> QED
    BY <2>2, <2>3, <2>4
<1>4. ASSUME NEW i \in 1..n PROVE \E x \in S : rank[x] = i - 1
  <2> SUFFICES ASSUME \A x \in S : rank[x] # i - 1 PROVE FALSE
    OBVIOUS
  <2> DEFINE T == (0..(n - 1)) \ {i - 1}
  <2>1. rank \in [S -> T]
    BY <1>2
  <2>2. IsFiniteSet(0..(n - 1)) /\ Cardinality(0..(n - 1)) = n
    <3>1. 0 \in Int /\ n - 1 \in Int /\ ~(0 > n - 1)
      BY <1>1
    <3> QED
      BY <1>1, <3>1, FS_Interval
  <2>3. IsFiniteSet(T) /\ Cardinality(T) = n - 1
    <3>1. PICK U : U = 0..(n - 1)
      OBVIOUS
    <3>2. i - 1 \in U /\ T = U \ {i - 1} /\ IsFiniteSet(U) /\ Cardinality(U) = n
      BY <1>1, <2>2, <3>1
    <3>3. IsFiniteSet(U \ {i - 1}) /\ Cardinality(U \ {i - 1}) = Cardinality(U) - 1
      BY <3>2, FS_RemoveElement
    <3> QED
      BY <3>2, <3>3
  <2>4. n - 1 < n
    BY <1>1
  <2>5. PICK x \in S, y \in S : x # y /\ rank[x] = rank[y]
    <3> HIDE DEF rank, T
    <3> QED
      BY <2>1, <2>3, <2>4, FS_PigeonHole
  <2>6. rank[x] \in Nat /\ rank[y] \in Nat
    <3> HIDE DEF rank, under, n
    <3> QED
      BY <1>1, <1>2
  <2>7. <<x, y>> \in before \/ <<y, x>> \in before
    BY <2>5 DEF Orders
  <2>8. rank[x] < rank[y] \/ rank[y] < rank[x]
    BY <1>3, <2>7
  <2> QED
    BY <2>5, <2>6, <2>8
<1> DEFINE nth == Ranked(S, before)
<1>5. ASSUME NEW i \in 1..n PROVE nth[i] \in S /\ rank[nth[i]] = i - 1
  <2>1. nth[i] = CHOOSE x \in S : Cardinality({y \in S : <<y, x>> \in before}) = i - 1
    BY DEF Ranked
  <2>2. \E x \in S : Cardinality({y \in S : <<y, x>> \in before}) = i - 1
    BY <1>4
  <2>3. nth[i] \in S /\ Cardinality({y \in S : <<y, nth[i]>> \in before}) = i - 1
    <3> HIDE DEF nth
    <3> QED
      BY <2>1, <2>2
  <2> QED
    BY <2>3
<1>6. nth \in [1..n -> S]
  <2> DEFINE turn(i) == CHOOSE x \in S : Cardinality({y \in S : <<y, x>> \in before}) = i - 1
  <2>1. nth = [i \in 1..n |-> turn(i)]
    BY DEF Ranked
  <2> HIDE DEF nth, turn, n
  <2>2. \A i \in 1..n : turn(i) = nth[i]
    BY <2>1
  <2>3. \A i \in 1..n : turn(i) \in S
    BY <1>5, <2>2
  <2> QED
    BY <2>1, <2>3
<1> HIDE DEF nth, rank
<1>7. ASSUME NEW i \in 1..n, NEW j \in 1..n, i < j PROVE <<nth[i], nth[j]>> \in before
  <2>1. nth[i] \in S /\ nth[j] \in S /\ rank[nth[i]] = i - 1 /\ rank[nth[j]] = j - 1
    BY <1>5
  <2>2. rank[nth[i]] < rank[nth[j]]
    BY <1>7, <2>1
  <2>3. nth[i] # nth[j] /\ <<nth[j], nth[i]>> \notin before
    <3>1. rank[nth[i]] # rank[nth[j]]
      BY <1>7, <2>1
    <3>2. ~(rank[nth[j]] < rank[nth[i]])
      BY <1>7, <2>1
    <3> QED
      BY <1>3, <2>1, <3>1, <3>2
  <2> QED
    BY <2>1, <2>3 DEF Orders
<1> QED
  BY <1>1, <1>6, <1>7 DEF nth

\* AtMost keeps the beginning.
LEMMA AtMostKeeps ==
  ASSUME NEW S, NEW n \in Nat, NEW s \in [1..n -> S]
  PROVE  LET a == AtMost(Limit, s)
         IN /\ a \in Seq(S) /\ Len(a) <= Limit /\ Len(a) <= n /\ (n > 0 => a # <<>>)
            /\ \A i \in 1..Len(a) : a[i] = s[i]
<1>1. s \in Seq(S) /\ Len(s) = n
  <2>1. [i \in 1..n |-> s[i]] = s
    OBVIOUS
  <2>2. \A i \in 1..n : s[i] \in S
    OBVIOUS
  <2> QED
    OBVIOUS
<1>2. Limit \in Nat \ {0}
  BY SkillsAssumption DEF Limit
<1> DEFINE k == IF Len(s) < Limit THEN Len(s) ELSE Limit
<1>3. k \in Nat /\ k <= n /\ k <= Limit /\ (n > 0 => k > 0)
  BY <1>1, <1>2
<1>4. AtMost(Limit, s) = SubSeq(s, 1, k)
  BY DEF AtMost
<1> HIDE DEF k
<1>5. \A i \in 1..k : s[i] \in S
  BY <1>3
<1>6. /\ SubSeq(s, 1, k) \in Seq(S)
      /\ Len(SubSeq(s, 1, k)) = k
      /\ \A i \in 1..k : SubSeq(s, 1, k)[i] = s[i]
  <2>1. 1 \in Int /\ k \in Int /\ k - 1 + 1 = k /\ (1 <= k \/ k = 0)
    BY <1>3
  <2>2. /\ SubSeq(s, 1, k) \in Seq(S)
        /\ Len(SubSeq(s, 1, k)) = IF 1 <= k THEN k - 1 + 1 ELSE 0
        /\ \A i \in 1..(k - 1 + 1) : SubSeq(s, 1, k)[i] = s[1 + i - 1]
    BY <1>5, <2>1, SubSeqProperties
  <2>3. \A i \in 1..k : 1 + i - 1 = i
    OBVIOUS
  <2> QED
    BY <2>1, <2>2, <2>3
<1>7. n > 0 => SubSeq(s, 1, k) # <<>>
  BY <1>3, <1>6, EmptySeq
<1> QED
  BY <1>3, <1>4, <1>6, <1>7

-----------------------------------------------------------------------------
(* What the lists hold. *)

Reasons ==
  {"global_disabled", "parse_error", "entry_disabled", "not_allowlisted", "duplicate_name", "no"}

Found == [dir : DirSet, version : Nat, name : Nat, reason : Reasons]

\* No name is enabled twice.
Distinct(l) ==
  \A i, j \in 1..Len(l) :
    IsEnabled(l[i]) /\ IsEnabled(l[j]) /\ l[i].name = l[j].name => i = j

\* What SelectForMessage may return for a message, of the enabled skills.
Choice(m, enabled, sk) ==
  /\ sk \in Seq(enabled) /\ Len(sk) <= Limit
  /\ \A i, j \in 1..Len(sk) : sk[i].name = sk[j].name => i = j
  /\ \A i \in 1..Len(sk) :
       IF m.explicit # <<>> THEN sk[i].name \in ToSet(m.explicit)
       ELSE AutoMatch /\ m.score[sk[i].name] > 0
  /\ m.explicit = <<>> =>
       \A i \in 1..Len(sk) : i < Len(sk) => m.score[sk[i].name] >= m.score[sk[i + 1].name]

\* If one that is enabled is asked for, there is one.
Heeds(m, enabled, sk) ==
  \A i \in DOMAIN m.explicit, s \in enabled : s.name = m.explicit[i] => sk # <<>>

LEMMA ExplicitChoice ==
  ASSUME NEW m, IsMessage(m), m.explicit # <<>>, NEW enabled
  PROVE  Choice(m, enabled, Explicit(m, enabled)) /\ Heeds(m, enabled, Explicit(m, enabled))
<1> DEFINE found == {i \in DOMAIN m.explicit : \E s \in enabled : s.name = m.explicit[i]}
           before == {p \in found \X found : p[1] < p[2]}
           order == Ranked(found, before)
           c == Cardinality(found)
           chosen == [k \in DOMAIN order |-> CHOOSE s \in enabled : s.name = m.explicit[order[k]]]
<1>1. /\ DOMAIN m.explicit = 1..Len(m.explicit) /\ Len(m.explicit) \in Nat
      /\ \A i, j \in DOMAIN m.explicit : m.explicit[i] = m.explicit[j] => i = j
      /\ \A i \in DOMAIN m.explicit : m.explicit[i] \in ToSet(m.explicit)
  BY LenProperties DEF IsMessage, IsInjective, ToSet
<1>2. IsFiniteSet(found)
  <2>1. 1 \in Int /\ Len(m.explicit) \in Int
    BY <1>1
  <2>2. IsFiniteSet(1..Len(m.explicit))
    BY <2>1, FS_Interval
  <2>3. found \subseteq 1..Len(m.explicit)
    BY <1>1
  <2> HIDE DEF found
  <2> QED
    BY <2>2, <2>3, FS_Subset
<1>3. Orders(before, found)
  <2>1. \A i \in found : i \in Nat
    BY <1>1
  <2>2. \A i, j \in found : <<i, j>> \in before <=> i < j
    OBVIOUS
  <2> HIDE DEF found, before
  <2> QED
    BY <2>1, <2>2 DEF Orders
<1>4. /\ c \in Nat /\ order \in [1..c -> found]
      /\ \A i, j \in 1..c : i < j => <<order[i], order[j]>> \in before
  <2> HIDE DEF found, before
  <2> QED
    BY <1>2, <1>3, RankedInOrder
<1>5. \A i, j \in 1..c : order[i] = order[j] => i = j
  <2> SUFFICES ASSUME NEW i \in 1..c, NEW j \in 1..c, order[i] = order[j], i # j PROVE FALSE
    OBVIOUS
  <2>1. i < j \/ j < i
    <3>1. i \in Int /\ j \in Int
      <4> HIDE DEF c
      <4> QED
        BY <1>4
    <3> QED
      BY <3>1
  <2>2. <<order[i], order[j]>> \in before \/ <<order[j], order[i]>> \in before
    <3> HIDE DEF c, order, before
    <3> QED
      BY <1>4, <2>1
  <2>3. <<order[i], order[i]>> \notin before
    <3>1. order[i] \in found
      <4> HIDE DEF c, order, found, before
      <4> QED
        BY <1>4
    <3> HIDE DEF c, order, found, before
    <3> QED
      BY <1>3, <3>1 DEF Orders
  <2> HIDE DEF order, before
  <2> QED
    BY <2>2, <2>3
<1>6. ASSUME NEW k \in 1..c
      PROVE  chosen[k] \in enabled /\ chosen[k].name = m.explicit[order[k]]
  <2>1. order[k] \in found /\ DOMAIN order = 1..c
    <3> HIDE DEF c, order, found
    <3> QED
      BY <1>4
  <2>2. chosen[k] = CHOOSE s \in enabled : s.name = m.explicit[order[k]]
    <3> HIDE DEF c, order
    <3> QED
      BY <2>1
  <2>3. \E s \in enabled : s.name = m.explicit[order[k]]
    <3> HIDE DEF order
    <3> QED
      BY <2>1
  <2> HIDE DEF order, chosen
  <2> QED
    BY <2>2, <2>3
<1>7. chosen \in [1..c -> enabled]
  <2>1. DOMAIN order = 1..c
    <3> HIDE DEF c, order, found
    <3> QED
      BY <1>4
  <2>2. chosen = [k \in 1..c |-> chosen[k]]
    <3> HIDE DEF order, c
    <3> QED
      BY <2>1
  <2> HIDE DEF chosen, c
  <2> QED
    BY <1>6, <2>2
<1>8. \A k \in 1..c : order[k] \in DOMAIN m.explicit
  <2>1. \A k \in 1..c : order[k] \in found
    <3> HIDE DEF c, order, found
    <3> QED
      BY <1>4
  <2>2. found \subseteq DOMAIN m.explicit
    OBVIOUS
  <2> HIDE DEF c, order, found
  <2> QED
    BY <2>1, <2>2
<1> DEFINE sk == AtMost(Limit, chosen)
<1>9. /\ sk \in Seq(enabled) /\ Len(sk) <= Limit /\ Len(sk) <= c /\ (c > 0 => sk # <<>>)
      /\ Len(sk) \in Nat /\ \A i \in 1..Len(sk) : i \in 1..c /\ sk[i] = chosen[i]
  <2> HIDE DEF chosen, c
  <2>1. /\ sk \in Seq(enabled) /\ Len(sk) <= Limit /\ Len(sk) <= c /\ (c > 0 => sk # <<>>)
        /\ \A i \in 1..Len(sk) : sk[i] = chosen[i]
    BY <1>4, <1>7, AtMostKeeps
  <2>2. Len(sk) \in Nat
    BY <2>1, LenProperties
  <2> QED
    BY <1>4, <2>1, <2>2
<1>10. ASSUME NEW i \in DOMAIN m.explicit, NEW s \in enabled, s.name = m.explicit[i]
       PROVE  sk # <<>>
  <2>1. found # {}
    BY <1>10
  <2>2. c # 0
    <3> HIDE DEF found
    <3> QED
      BY <1>2, <2>1, FS_EmptySet
  <2> HIDE DEF sk, c
  <2> QED
    BY <1>4, <1>9, <2>2
<1>11. Explicit(m, enabled) = sk
  BY DEF Explicit
<1> HIDE DEF found, before, order, c, chosen, sk
<1>12. ASSUME NEW i \in 1..Len(sk) PROVE sk[i].name = m.explicit[order[i]] /\ i \in 1..c
  BY <1>6, <1>9
<1>13. ASSUME NEW i \in 1..Len(sk) PROVE sk[i].name \in ToSet(m.explicit)
  BY <1>1, <1>8, <1>12
<1>14. ASSUME NEW i \in 1..Len(sk), NEW j \in 1..Len(sk), sk[i].name = sk[j].name PROVE i = j
  BY <1>1, <1>5, <1>8, <1>12, <1>14
<1> QED
  BY <1>9, <1>10, <1>11, <1>13, <1>14 DEF Choice, Heeds

LEMMA AutoMatchedChoice ==
  ASSUME NEW m, IsMessage(m), m.explicit = <<>>, AutoMatch,
         NEW enabled, enabled \subseteq Found, IsFiniteSet(enabled),
         \A s \in enabled : s.name \in SkillNames,
         \A s, t \in enabled : s.name = t.name => s = t
  PROVE  Choice(m, enabled, AutoMatched(m, enabled)) /\ Heeds(m, enabled, AutoMatched(m, enabled))
<1> DEFINE hits == {s \in enabled : m.score[s.name] > 0}
           before == {p \in hits \X hits : Better(m, p[1], p[2])}
           order == Ranked(hits, before)
           c == Cardinality(hits)
<1>1. ASSUME NEW s \in enabled PROVE m.score[s.name] \in Nat /\ s.name \in Nat
  BY DEF IsMessage, Found
<1>2. IsFiniteSet(hits)
  <2>1. hits \subseteq enabled
    OBVIOUS
  <2> HIDE DEF hits
  <2> QED
    BY <2>1, FS_Subset
<1>3. \A s, t \in hits : <<s, t>> \in before <=> Better(m, s, t)
  OBVIOUS
<1>4. ASSUME NEW s \in hits, NEW t \in hits
      PROVE  Better(m, s, t) <=>
               \/ m.score[s.name] > m.score[t.name]
               \/ m.score[s.name] = m.score[t.name] /\ s.name < t.name
  <2>1. s.name = t.name => s = t
    OBVIOUS
  <2>2. ~(s.dir < s.dir)
    BY DEF Found, DirSet
  <2> QED
    BY <2>1, <2>2 DEF Better
<1>5. Orders(before, hits)
  <2>1. ASSUME NEW s \in hits PROVE <<s, s>> \notin before
    BY <1>1, <1>3, <1>4
  <2>2. ASSUME NEW s \in hits, NEW t \in hits, NEW u \in hits,
               Better(m, s, t), Better(m, t, u)
        PROVE  Better(m, s, u)
    BY <1>1, <1>4, <2>2
  <2>3. ASSUME NEW s \in hits, NEW t \in hits, s # t
        PROVE  Better(m, s, t) \/ Better(m, t, s)
    <3>1. s.name # t.name
      BY <2>3
    <3> QED
      BY <1>1, <1>4, <3>1
  <2> HIDE DEF hits, before
  <2> QED
    BY <1>3, <2>1, <2>2, <2>3 DEF Orders
<1>6. /\ c \in Nat /\ order \in [1..c -> hits]
      /\ \A i, j \in 1..c : i < j => <<order[i], order[j]>> \in before
  <2> HIDE DEF hits, before
  <2> QED
    BY <1>2, <1>5, RankedInOrder
<1> DEFINE sk == AtMost(Limit, order)
<1>7. /\ sk \in Seq(hits) /\ Len(sk) <= Limit /\ Len(sk) <= c
      /\ Len(sk) \in Nat /\ \A i \in 1..Len(sk) : i \in 1..c /\ sk[i] = order[i] /\ sk[i] \in hits
  <2> HIDE DEF order, c, hits
  <2>1. /\ sk \in Seq(hits) /\ Len(sk) <= Limit /\ Len(sk) <= c
        /\ \A i \in 1..Len(sk) : sk[i] = order[i]
    BY <1>6, AtMostKeeps
  <2>2. Len(sk) \in Nat /\ \A i \in 1..Len(sk) : sk[i] \in hits
    BY <2>1, LenProperties, ElementOfSeq
  <2> QED
    BY <1>6, <2>1, <2>2
<1>8. sk \in Seq(enabled)
  <2>1. hits \subseteq enabled
    OBVIOUS
  <2> HIDE DEF sk, hits
  <2> QED
    BY <1>7, <2>1, SeqMonotonic
<1>9. ASSUME NEW i \in 1..Len(sk), NEW j \in 1..Len(sk), i < j PROVE Better(m, sk[i], sk[j])
  <2> HIDE DEF sk, order, c, hits, before
  <2>1. <<sk[i], sk[j]>> \in before
    BY <1>6, <1>7, <1>9
  <2> QED
    BY <1>3, <1>7, <2>1
<1>10. ASSUME NEW i \in 1..Len(sk)
       PROVE  sk[i] \in enabled /\ m.score[sk[i].name] > 0
  <2>1. sk[i] \in hits
    BY <1>7
  <2> HIDE DEF sk
  <2> QED
    BY <2>1
<1>11. AutoMatched(m, enabled) = sk
  BY DEF AutoMatched
<1>12. DOMAIN m.explicit = {}
  OBVIOUS
<1> HIDE DEF sk
<1>13. ASSUME NEW i \in 1..Len(sk), NEW j \in 1..Len(sk), i < j PROVE sk[i].name # sk[j].name
  <2>1. Better(m, sk[i], sk[j]) /\ sk[i] \in hits /\ sk[j] \in hits
    BY <1>7, <1>9, <1>13
  <2> QED
    BY <1>1, <1>4, <1>10, <2>1
<1>14. ASSUME NEW i \in 1..Len(sk), NEW j \in 1..Len(sk), sk[i].name = sk[j].name PROVE i = j
  <2>1. ~(i < j) /\ ~(j < i)
    BY <1>13, <1>14
  <2> QED
    BY <2>1
<1>15. ASSUME NEW i \in 1..Len(sk), i < Len(sk)
       PROVE  m.score[sk[i].name] >= m.score[sk[i + 1].name]
  <2>1. i + 1 \in 1..Len(sk) /\ i < i + 1
    BY <1>7, <1>15
  <2>2. Better(m, sk[i], sk[i + 1])
    BY <1>9, <2>1
  <2>3. sk[i] \in hits /\ sk[i + 1] \in hits
    BY <1>7, <2>1
  <2>4. sk[i] \in enabled /\ sk[i + 1] \in enabled
    BY <1>10, <2>1
  <2> HIDE DEF hits
  <2> QED
    BY <1>1, <1>4, <2>2, <2>3, <2>4
<1> HIDE DEF hits, before, order, c
<1> QED
  BY <1>7, <1>8, <1>10, <1>11, <1>12, <1>14, <1>15 DEF Choice, Heeds

LEMMA SelectedChoice ==
  ASSUME NEW m, IsMessage(m), NEW l \in Seq(Found), Distinct(l),
         \A i \in 1..Len(l) : IsEnabled(l[i]) => l[i].name \in SkillNames
  PROVE  LET enabled == {s \in ToSet(l) : IsEnabled(s)}
             sk == SelectForMessage(m, l)
         IN Choice(m, enabled, sk) /\ Heeds(m, enabled, sk)
<1> DEFINE enabled == {s \in ToSet(l) : IsEnabled(s)}
<1>1. /\ IsFiniteSet(ToSet(l)) /\ ToSet(l) \subseteq Found
      /\ \A x : x \in ToSet(l) <=> \E i \in 1..Len(l) : l[i] = x
  BY ElementsAreFinite
<1>2. IsFiniteSet(enabled) /\ enabled \subseteq Found
  <2>1. enabled \subseteq ToSet(l)
    OBVIOUS
  <2> HIDE DEF enabled
  <2> QED
    BY <1>1, <2>1, FS_Subset
<1>3. \A s \in enabled : s.name \in SkillNames
  BY <1>1
<1>4. \A s, t \in enabled : s.name = t.name => s = t
  BY <1>1 DEF Distinct
<1> HIDE DEF enabled
<1>5. CASE m.explicit # <<>>
  <2>1. SelectForMessage(m, l) = Explicit(m, enabled)
    BY <1>5 DEF SelectForMessage, enabled
  <2> QED
    BY <1>5, <2>1, ExplicitChoice DEF enabled
<1>6. CASE m.explicit = <<>> /\ AutoMatch
  <2>1. SelectForMessage(m, l) = AutoMatched(m, enabled)
    BY <1>6 DEF SelectForMessage, enabled
  <2>2. Choice(m, enabled, AutoMatched(m, enabled)) /\ Heeds(m, enabled, AutoMatched(m, enabled))
    BY <1>2, <1>3, <1>4, <1>6, AutoMatchedChoice
  <2> QED
    BY <2>1, <2>2 DEF enabled
<1>7. CASE m.explicit = <<>> /\ ~AutoMatch
  <2>1. SelectForMessage(m, l) = <<>>
    BY <1>7 DEF SelectForMessage
  <2>2. Limit \in Nat
    BY SkillsAssumption DEF Limit
  <2>3. Choice(m, enabled, <<>>) /\ Heeds(m, enabled, <<>>)
    BY <1>7, <2>2, EmptySeq DEF Choice, Heeds
  <2> QED
    BY <2>1, <2>3 DEF enabled
<1> QED
  BY <1>5, <1>6, <1>7

-----------------------------------------------------------------------------
(* The invariant. *)

Kinds == Files \cup {First(d) : d \in DirSet}

Types ==
  /\ disk \in [DirSet -> Seq(Kinds) \ {<<>>}]
  /\ pc \in [Runs -> {"idle", "scan", "select", "done"}]
  /\ DOMAIN message = Runs /\ \A r \in Runs : pc[r] # "idle" => message[r] \in Messages
  /\ todo \in [Runs -> SUBSET DirSet]
  /\ list \in [Runs -> Seq(Found)] /\ loaded \in Seq(Found)
  /\ DOMAIN outcome = Runs
  /\ base \in [Runs -> [DirSet -> Nat]]

\* An enabled skill was in a file, and the configuration lets it through.
Gated(s) ==
  /\ s.version \in 1..Version(s.dir)
  /\ IsEnabled(s) =>
       /\ s.name # 0 /\ s.name = disk[s.dir][s.version].name
       /\ Enabled /\ s.name \notin Disabled /\ (Allowlist = {} \/ s.name \in Allowlist)

Scanned(l) == Distinct(l) /\ \A i \in 1..Len(l) : Gated(l[i])

\* The list has nothing from before the run's time.
Since(l, r) == \A i \in 1..Len(l) : l[i].version >= base[r][l[i].dir]

\* A run that scans beside this one finds what is new enough for it, too.
Timely(r) ==
  /\ pc[r] = "idle" => list[r] = <<>>
  /\ pc[r] # "idle" =>
       /\ \A d \in DirSet : base[r][d] <= Version(d)
       /\ \A q \in Runs : pc[q] = "scan" => Since(list[q], r)
  /\ pc[r] = "select" => Since(loaded, r) /\ (r \notin raced => loaded = list[r])

Result(r) ==
  LET sk == outcome[r].skills
  IN /\ pc[r] # "done" => outcome[r] = NoOutcome
     /\ sk \in Seq(Found) /\ Choice(message[r], Found, sk)
     /\ \A i \in 1..Len(sk) :
          IsEnabled(sk[i]) /\ Gated(sk[i]) /\ sk[i].version >= base[r][sk[i].dir]
     /\ pc[r] = "done" /\ ~message[r].listing /\ r \notin raced =>
          /\ outcome[r] = Outcome(message[r], list[r], list[r])
          /\ "unavailable" \notin ToSet(outcome[r].reasons)

IInv ==
  /\ Types
  /\ Scanned(loaded) /\ \A r \in Runs : Scanned(list[r])
  /\ \A r \in Runs : Timely(r)
  /\ \A r \in Runs : Result(r)

LEMMA KindsAreFiles ==
  ASSUME NEW f \in Kinds
  PROVE  f.name \in Nat /\ (f.name # 0 => f.name \in SkillNames)
<1>1. f \in FileType
  BY SkillsAssumption DEF Kinds
<1>2. f.name \in Nat
  <2>1. CASE f \in {Broken, Gone}
    BY <2>1 DEF Broken, Gone
  <2>2. CASE f \in [there : {TRUE}, name : Names]
    BY <2>2 DEF Names
  <2> QED
    BY <1>1, <2>1, <2>2 DEF FileType
<1>3. f.name # 0 => f.name \in SkillNames
  BY DEF Kinds, SkillNames
<1> QED
  BY <1>2, <1>3

LEMMA DiskTypes ==
  ASSUME Types, NEW d \in DirSet
  PROVE  /\ disk[d] \in Seq(Kinds) /\ Version(d) \in Nat \ {0}
         /\ DOMAIN disk[d] = 1..Version(d)
         /\ \A v \in 1..Version(d) : disk[d][v] \in Kinds
         /\ Present(d) = disk[d][Version(d)] /\ Present(d) \in Kinds
<1>1. disk[d] \in Seq(Kinds) /\ disk[d] # <<>>
  BY DEF Types
<1>2. Len(disk[d]) \in Nat \ {0} /\ DOMAIN disk[d] = 1..Len(disk[d])
  BY <1>1, EmptySeq, LenProperties
<1>3. \A v \in 1..Len(disk[d]) : disk[d][v] \in Kinds
  BY <1>1, ElementOfSeq
<1> QED
  BY <1>1, <1>2, <1>3 DEF Version, Present, Last

\* The files only get new versions.
DiskGrows ==
  \A d \in DirSet :
    /\ Version(d) <= Version(d)'
    /\ \A v \in 1..Version(d) : disk'[d][v] = disk[d][v]

LEMMA StaysGated ==
  ASSUME Types, Types', DiskGrows, NEW s \in Found, Gated(s)
  PROVE  Gated(s)'
<1>1. s.dir \in DirSet
  BY DEF Found
<1>2. Version(s.dir) \in Nat /\ Version(s.dir)' \in Nat /\ Version(s.dir) <= Version(s.dir)'
  BY <1>1, DiskTypes DEF DiskGrows, Types, Version
<1>3. s.version \in 1..Version(s.dir) /\ s.version \in 1..Version(s.dir)'
  BY <1>2 DEF Gated
<1>4. disk'[s.dir][s.version] = disk[s.dir][s.version]
  BY <1>1, <1>3 DEF DiskGrows
<1> QED
  BY <1>3, <1>4 DEF Gated, IsEnabled

LEMMA StaysScanned ==
  ASSUME Types, Types', DiskGrows, NEW l \in Seq(Found), Scanned(l)
  PROVE  Scanned(l)'
<1>1. \A i \in 1..Len(l) : l[i] \in Found
  BY ElementOfSeq
<1>2. \A i \in 1..Len(l) : Gated(l[i])'
  BY <1>1, StaysGated DEF Scanned
<1> QED
  BY <1>2 DEF Scanned, Distinct, IsEnabled

\* What a finished run got stays right, and an unfinished one has got nothing.
LEMMA StaysResult ==
  ASSUME Types, Types', DiskGrows, NEW r \in Runs, Result(r),
         outcome'[r] = outcome[r], pc'[r] = pc[r], message'[r] = message[r],
         base'[r] = base[r], raced \subseteq raced', pc[r] = "done" => list'[r] = list[r]
  PROVE  Result(r)'
<1> DEFINE sk == outcome[r].skills
<1>1. \A i \in 1..Len(sk) : sk[i] \in Found
  BY ElementOfSeq DEF Result
<1>2. \A i \in 1..Len(sk) : Gated(sk[i])'
  BY <1>1, StaysGated DEF Result
<1>3. Choice(message[r], Found, sk)'
  BY DEF Result, Choice
<1>4. /\ sk \in Seq(Found) /\ sk' = sk
      /\ \A i \in 1..Len(sk) : IsEnabled(sk[i]) /\ sk[i].version >= base'[r][sk[i].dir]
  BY DEF Result
<1>5. pc'[r] = "done" /\ ~message'[r].listing /\ r \notin raced' =>
        /\ outcome'[r] = Outcome(message'[r], list'[r], list'[r])
        /\ "unavailable" \notin ToSet(outcome'[r].reasons)
  BY DEF Result
<1>6. pc'[r] # "done" => outcome'[r] = NoOutcome
  BY DEF Result
<1> QED
  BY <1>2, <1>3, <1>4, <1>5, <1>6 DEF Result, IsEnabled

LEMMA NothingIsChosen ==
  /\ <<>> \in Seq(Found) /\ Len(<<>>) = 0 /\ NoOutcome.skills = <<>>
  /\ \A m : Choice(m, Found, <<>>)
<1>1. Limit \in Nat
  BY SkillsAssumption DEF Limit
<1>2. <<>> \in Seq(Found) /\ Len(<<>>) = 0 /\ NoOutcome.skills = <<>>
  BY EmptySeq DEF NoOutcome
<1> QED
  BY <1>1, <1>2 DEF Choice

LEMMA NoResultYet ==
  ASSUME NEW r \in Runs, outcome'[r] = NoOutcome, pc'[r] = "done" => message'[r].listing
  PROVE  Result(r)'
BY NothingIsChosen DEF Result

LEMMA ResultShows == ASSUME NEW r \in Runs, Result(r) PROVE Allowed(r) /\ Recent(r)
<1> DEFINE sk == outcome[r].skills
<1>1. /\ sk \in Seq(Found) /\ Choice(message[r], Found, sk)
      /\ \A i \in 1..Len(sk) :
           IsEnabled(sk[i]) /\ Gated(sk[i]) /\ sk[i].version >= base[r][sk[i].dir]
  BY DEF Result
<1>2. DOMAIN sk = 1..Len(sk)
  BY <1>1, LenProperties
<1>3. Allowed(r)
  <2> HIDE DEF sk
  <2>1. /\ Len(sk) <= Limit
        /\ \A i, j \in DOMAIN sk : sk[i].name = sk[j].name => i = j
    BY <1>1, <1>2 DEF Choice
  <2>2. ASSUME NEW i \in DOMAIN sk
        PROVE  /\ sk[i].name # 0 /\ sk[i].name = disk[sk[i].dir][sk[i].version].name
               /\ Enabled /\ sk[i].name \notin Disabled
               /\ Allowlist = {} \/ sk[i].name \in Allowlist
    BY <1>1, <1>2 DEF Gated
  <2>3. ASSUME NEW i \in DOMAIN sk
        PROVE  /\ IF message[r].explicit # <<>> THEN sk[i].name \in ToSet(message[r].explicit)
                  ELSE AutoMatch /\ message[r].score[sk[i].name] > 0
               /\ message[r].explicit = <<>> /\ i < Len(sk) =>
                    message[r].score[sk[i].name] >= message[r].score[sk[i + 1].name]
    BY <1>1, <1>2 DEF Choice
  <2> QED
    BY <2>1, <2>2, <2>3 DEF Allowed, sk
<1>4. Recent(r)
  BY <1>1, <1>2 DEF Recent, Result
<1> QED
  BY <1>3, <1>4

-----------------------------------------------------------------------------
(* The steps. *)

LEMMA InitInv == Init => IInv
<1> SUFFICES ASSUME Init PROVE IInv
  OBVIOUS
<1>1. <<>> \in Seq(Found) /\ Len(<<>>) = 0
  BY EmptySeq
<1>2. Types
  <2>1. ASSUME NEW d \in DirSet PROVE <<First(d)>> \in Seq(Kinds) \ {<<>>}
    BY DEF Kinds
  <2> QED
    BY <1>1, <2>1 DEF Init, Types
<1>3. Scanned(<<>>)
  BY <1>1 DEF Scanned, Distinct
<1>4. ASSUME NEW r \in Runs PROVE Timely(r)
  BY DEF Init, Timely
<1>5. ASSUME NEW r \in Runs PROVE Result(r)
  <2>1. outcome[r] = NoOutcome /\ pc[r] = "idle"
    BY DEF Init
  <2> QED
    BY <2>1, NothingIsChosen DEF Result
<1> QED
  BY <1>2, <1>3, <1>4, <1>5 DEF Init, IInv

\* The lists that no step touches.
LEMMA ListsStay ==
  ASSUME Types, Types', DiskGrows, loaded' = loaded, list' = list,
         Scanned(loaded), \A r \in Runs : Scanned(list[r])
  PROVE  Scanned(loaded)' /\ \A r \in Runs : Scanned(list[r])'
<1>1. ASSUME NEW l \in Seq(Found), Scanned(l) PROVE Scanned(l)'
  BY <1>1, StaysScanned
<1>2. Scanned(loaded)'
  <2>1. PICK l : l = loaded
    OBVIOUS
  <2>2. l \in Seq(Found) /\ Scanned(l) /\ l = loaded'
    BY <2>1 DEF Types
  <2>3. Scanned(l)'
    BY <1>1, <2>2
  <2> QED
    BY <2>2, <2>3 DEF Scanned, Distinct
<1>3. ASSUME NEW r \in Runs PROVE Scanned(list[r])'
  <2>1. PICK l : l = list[r]
    OBVIOUS
  <2>2. l \in Seq(Found) /\ Scanned(l) /\ l = list'[r]
    BY <2>1 DEF Types
  <2>3. Scanned(l)'
    BY <1>1, <2>2
  <2> QED
    BY <2>2, <2>3 DEF Scanned, Distinct
<1> QED
  BY <1>2, <1>3

LEMMA EditKeeps ==
  ASSUME IInv, NEW d \in DirSet, Edit(d)
  PROVE  IInv'
<1>1. PICK f \in Files : disk' = [disk EXCEPT ![d] = Append(@, f)]
  BY DEF Edit
<1>2. UNCHANGED <<loaded, pc, message, todo, list, outcome, base, raced>>
  BY DEF Edit
<1>3. Types /\ disk \in [DirSet -> Seq(Kinds) \ {<<>>}] /\ f \in Kinds
  BY DEF IInv, Types, Kinds
<1>4. /\ disk' \in [DirSet -> Seq(Kinds) \ {<<>>}]
      /\ \A c \in DirSet : c # d => disk'[c] = disk[c]
      /\ disk'[d] = Append(disk[d], f)
  <2>1. disk[d] \in Seq(Kinds)
    BY <1>3
  <2>2. Append(disk[d], f) \in Seq(Kinds) \ {<<>>}
    BY <1>3, <2>1, AppendProperties
  <2> QED
    BY <1>1, <1>3, <2>2
<1>5. Types'
  BY <1>2, <1>3, <1>4 DEF Types
<1>6. DiskGrows
  <2> SUFFICES ASSUME NEW c \in DirSet
               PROVE  /\ Version(c) <= Version(c)'
                      /\ \A v \in 1..Version(c) : disk'[c][v] = disk[c][v]
    BY DEF DiskGrows
  <2>1. disk[c] \in Seq(Kinds) /\ Version(c) \in Nat
    BY <1>3, DiskTypes
  <2>2. CASE c # d
    BY <1>4, <2>1, <2>2 DEF Version
  <2>3. CASE c = d
    <3>1. /\ Len(Append(disk[d], f)) = Len(disk[d]) + 1
          /\ \A v \in 1..Len(disk[d]) : Append(disk[d], f)[v] = disk[d][v]
      BY <1>3, <2>1, <2>3, AppendProperties
    <3>2. Version(c) = Len(disk[d]) /\ Version(c)' = Len(Append(disk[d], f))
      BY <1>4, <2>3 DEF Version
    <3> QED
      BY <1>4, <2>1, <2>3, <3>1, <3>2
  <2> QED
    BY <2>2, <2>3
<1>7. Scanned(loaded)' /\ \A r \in Runs : Scanned(list[r])'
  BY <1>2, <1>3, <1>5, <1>6, ListsStay DEF IInv
<1>8. ASSUME NEW r \in Runs PROVE Timely(r)'
  <2>1. Timely(r)
    BY DEF IInv
  <2>2. \A c \in DirSet : base[r][c] <= Version(c) => base[r][c] <= Version(c)'
    <3> SUFFICES ASSUME NEW c \in DirSet PROVE base[r][c] <= Version(c) => base[r][c] <= Version(c)'
      OBVIOUS
    <3>1. /\ Version(c) \in Nat /\ Version(c)' \in Nat /\ Version(c) <= Version(c)'
          /\ base[r][c] \in Nat
      BY <1>3, <1>5, <1>6, DiskTypes DEF DiskGrows, Version, Types
    <3> QED
      BY <3>1
  <2> QED
    BY <1>2, <2>1, <2>2 DEF Timely, Since
<1>9. ASSUME NEW r \in Runs PROVE Result(r)'
  <2>1. Result(r)
    BY DEF IInv
  <2> QED
    BY <1>2, <1>3, <1>5, <1>6, <2>1, StaysResult
<1> QED
  BY <1>5, <1>7, <1>8, <1>9 DEF IInv

LEMMA SameDisk ==
  ASSUME Types, disk' = disk
  PROVE  DiskGrows /\ \A l : Scanned(l)' <=> Scanned(l)
<1>1. DiskGrows
  BY DiskTypes DEF DiskGrows, Version
<1>2. \A l : Scanned(l)' <=> Scanned(l)
  BY DEF Scanned, Distinct, Gated, Version, IsEnabled
<1> QED
  BY <1>1, <1>2

LEMMA BeginKeeps ==
  ASSUME IInv, NEW r \in Runs, NEW m \in Messages, Begin(r, m)
  PROVE  IInv'
<1>1. /\ pc[r] = "idle" /\ pc' = [pc EXCEPT ![r] = "scan"] /\ message' = [message EXCEPT ![r] = m]
      /\ UNCHANGED <<disk, loaded, list, outcome, raced>>
  BY DEF Begin
<1>2. Types
  BY DEF IInv
<1> DEFINE scans == {q \in Runs : pc[q] = "scan"}
           ages(d) == {Version(d)} \cup {base[q][d] : q \in scans}
<1>3. base' = [base EXCEPT ![r] = [d \in DirSet |-> Min(ages(d))]]
  BY DEF Begin
<1>4. ASSUME NEW d \in DirSet
      PROVE  /\ Min(ages(d)) \in Nat /\ Min(ages(d)) <= Version(d)
             /\ \A q \in scans : Min(ages(d)) <= base[q][d]
  <2>1. Version(d) \in ages(d) /\ \A q \in scans : base[q][d] \in ages(d)
    OBVIOUS
  <2>2. ages(d) \subseteq Nat
    BY <1>2, DiskTypes DEF Types
  <2>3. ages(d) # {}
    BY <2>1
  <2> HIDE DEF ages
  <2>4. Min(ages(d)) \in ages(d) /\ \A k \in ages(d) : Min(ages(d)) <= k
    BY <2>2, <2>3, LeastOf
  <2> QED
    BY <2>1, <2>2, <2>4
<1> HIDE DEF ages
<1>5. /\ base' \in [Runs -> [DirSet -> Nat]]
      /\ \A q \in Runs : q # r => base'[q] = base[q]
      /\ \A d \in DirSet : base'[r][d] = Min(ages(d))
  BY <1>2, <1>3, <1>4 DEF Types
<1>6. Types'
  <2>1. todo' \in [Runs -> SUBSET DirSet]
    <3>1. todo \in [Runs -> SUBSET DirSet]
      BY <1>2 DEF Types
    <3>2. CASE todo' = [todo EXCEPT ![r] = {d \in DirSet : Present(d).there}]
      <4>1. {d \in DirSet : Present(d).there} \in SUBSET DirSet
        OBVIOUS
      <4> QED
        BY <3>1, <3>2, <4>1
    <3>3. CASE UNCHANGED todo
      BY <3>1, <3>3
    <3> QED
      BY <3>2, <3>3 DEF Begin
  <2>2. pc' \in [Runs -> {"idle", "scan", "select", "done"}]
    BY <1>1, <1>2 DEF Types
  <2>3. DOMAIN message' = Runs /\ \A q \in Runs : pc'[q] # "idle" => message'[q] \in Messages
    BY <1>1, <1>2 DEF Types
  <2> QED
    BY <1>1, <1>2, <1>5, <2>1, <2>2, <2>3 DEF Types
<1>7. DiskGrows
  BY <1>1, <1>2, SameDisk
<1>8. Scanned(loaded)' /\ \A q \in Runs : Scanned(list[q])'
  BY <1>1, <1>2, <1>6, <1>7, ListsStay DEF IInv
<1>9. /\ pc'[r] = "scan" /\ \A q \in Runs : q # r => pc'[q] = pc[q] /\ message'[q] = message[q]
  BY <1>1, <1>2 DEF Types
<1>10. list[r] = <<>> /\ \A q \in Runs : Timely(q) /\ list[q] \in Seq(Found)
  BY <1>1, <1>2 DEF IInv, Timely, Types
<1>11. ASSUME NEW x \in Runs PROVE Since(<<>>, x)'
  BY EmptySeq DEF Since
<1>12. ASSUME NEW x \in Runs, x # r PROVE Timely(x)'
  <2>1. Timely(x) /\ pc'[x] = pc[x] /\ base'[x] = base[x]
    BY <1>5, <1>9, <1>10, <1>12
  <2>2. ASSUME pc[x] # "idle", NEW q \in Runs, pc'[q] = "scan" PROVE Since(list[q], x)'
    <3>1. CASE q = r
      BY <1>1, <1>10, <1>11, <3>1 DEF Since
    <3>2. CASE q # r
      <4>1. Since(list[q], x)
        BY <1>9, <2>1, <2>2, <3>2 DEF Timely
      <4> QED
        BY <1>1, <2>1, <4>1 DEF Since
    <3> QED
      BY <3>1, <3>2
  <2>3. pc[x] = "select" => Since(loaded, x)' /\ (x \notin raced' => loaded' = list'[x])
    BY <1>1, <2>1 DEF Timely, Since
  <2>4. pc[x] # "idle" => \A d \in DirSet : base'[x][d] <= Version(d)'
    BY <1>1, <2>1 DEF Timely, Version
  <2> QED
    BY <1>1, <2>1, <2>2, <2>3, <2>4 DEF Timely
<1>13. Timely(r)'
  <2>1. \A d \in DirSet : base'[r][d] <= Version(d)'
    BY <1>1, <1>4, <1>5 DEF Version
  <2>2. ASSUME NEW q \in Runs, pc'[q] = "scan" PROVE Since(list[q], r)'
    <3>1. CASE q = r
      BY <1>1, <1>10, <1>11, <3>1 DEF Since
    <3>2. CASE q # r
      <4>1. q \in scans /\ Since(list[q], q) /\ list[q] \in Seq(Found)
        BY <1>9, <1>10, <2>2, <3>2 DEF Timely
      <4>2. ASSUME NEW i \in 1..Len(list[q]) PROVE list[q][i].version >= base'[r][list[q][i].dir]
        <5>1. list[q][i] \in Found
          BY <4>1, ElementOfSeq
        <5>2. PICK e \in Found : e = list[q][i]
          BY <5>1
        <5>3. e.version \in Nat /\ e.dir \in DirSet /\ e.version >= base[q][e.dir]
          BY <4>1, <5>2 DEF Since, Found
        <5>4. /\ base'[r][e.dir] <= base[q][e.dir]
              /\ base'[r][e.dir] \in Nat /\ base[q][e.dir] \in Nat
          BY <1>2, <1>4, <1>5, <4>1, <5>3 DEF Types
        <5> QED
          BY <5>2, <5>3, <5>4
      <4> QED
        BY <1>1, <4>2 DEF Since
    <3> QED
      BY <3>1, <3>2
  <2> QED
    BY <1>9, <2>1, <2>2 DEF Timely
<1>14. ASSUME NEW x \in Runs PROVE Result(x)'
  <2>1. CASE x = r
    <3>1. outcome[r] = NoOutcome
      BY <1>1 DEF IInv, Result
    <3>2. outcome'[r] = NoOutcome /\ pc'[r] # "done"
      BY <1>1, <1>9, <3>1 DEF NoOutcome
    <3> QED
      BY <2>1, <3>2, NoResultYet
  <2>2. CASE x # r
    <3>1. Result(x)
      BY DEF IInv
    <3> QED
      BY <1>1, <1>2, <1>5, <1>6, <1>7, <1>9, <2>2, <3>1, StaysResult
  <2> QED
    BY <2>1, <2>2
<1> QED
  BY <1>6, <1>8, <1>12, <1>13, <1>14 DEF IInv

LEMMA LoadIsGated ==
  ASSUME Types, NEW d \in DirSet, NEW seen
  PROVE  /\ Load(d, seen) \in Found /\ Load(d, seen).dir = d /\ Load(d, seen).version = Version(d)
         /\ Gated(Load(d, seen))
         /\ IsEnabled(Load(d, seen)) => Load(d, seen).name \notin seen
<1> DEFINE e == Load(d, seen)
           parsed == Present(d).name # 0
           name == IF parsed THEN Present(d).name ELSE DirName(d)
<1>1. /\ Version(d) \in Nat \ {0} /\ Present(d) \in Kinds
      /\ Present(d) = disk[d][Version(d)]
  BY DiskTypes
<1>2. Present(d).name \in Nat /\ DirName(d) \in Nat
  BY <1>1, KindsAreFiles, SkillsAssumption DEF Names
<1>3. /\ e.dir = d /\ e.version = Version(d) /\ e.name = name
      /\ e.reason = Reason(name, parsed, seen)
  BY DEF Load
<1>4. Reason(name, parsed, seen) \in Reasons
  <2> HIDE DEF name, parsed
  <2> QED
    BY DEF Reason, Reasons
<1>5. Reason(name, parsed, seen) = "no" =>
        Enabled /\ parsed /\ name \notin Disabled /\ (Allowlist = {} \/ name \in Allowlist)
        /\ name \notin seen
  <2> HIDE DEF name, parsed
  <2> QED
    BY DEF Reason
<1>6. e \in Found
  <2>1. name \in Nat
    BY <1>2
  <2>2. e = [dir |-> d, version |-> Version(d), name |-> name,
             reason |-> Reason(name, parsed, seen)]
    BY DEF Load
  <2> HIDE DEF e, name, parsed
  <2> QED
    BY <1>1, <1>4, <2>1, <2>2 DEF Found
<1>7. IsEnabled(e) <=> Reason(name, parsed, seen) = "no"
  BY <1>3 DEF IsEnabled
<1>8. e.version \in 1..Version(e.dir)
  BY <1>1, <1>3
<1>9. IsEnabled(e) => e.name # 0 /\ e.name = disk[e.dir][e.version].name
  BY <1>1, <1>3, <1>5, <1>7
<1>10. IsEnabled(e) =>
         /\ Enabled /\ e.name \notin Disabled /\ (Allowlist = {} \/ e.name \in Allowlist)
         /\ e.name \notin seen
  BY <1>3, <1>5, <1>7
<1> HIDE DEF e
<1>11. Gated(e)
  BY <1>8, <1>9, <1>10 DEF Gated
<1> QED
  BY <1>3, <1>6, <1>10, <1>11 DEF e

LEMMA ReadOneKeeps ==
  ASSUME IInv, NEW r \in Runs, ReadOne(r)
  PROVE  IInv'
<1>1. /\ pc[r] = "scan" /\ todo[r] # {}
      /\ list' = [list EXCEPT ![r] = Append(@, Load(Min(todo[r]), Seen(@)))]
      /\ todo' = [todo EXCEPT ![r] = @ \ {Min(@)}]
      /\ UNCHANGED <<disk, loaded, pc, message, outcome, base, raced>>
  BY DEF ReadOne
<1>2. Types /\ list[r] \in Seq(Found) /\ Scanned(list[r])
  BY DEF IInv, Types
<1>3. PICK d : d = Min(todo[r])
  OBVIOUS
<1>4. d \in DirSet
  <2>1. todo[r] \subseteq Nat /\ todo[r] \subseteq DirSet
    BY <1>2, SkillsAssumption DEF Types, DirSet
  <2> QED
    BY <1>1, <1>3, <2>1, LeastOf
<1>5. PICK e : e = Load(d, Seen(list[r]))
  OBVIOUS
<1>6. /\ e \in Found /\ e.dir = d /\ e.version = Version(d) /\ Gated(e)
      /\ IsEnabled(e) => e.name \notin Seen(list[r])
  BY <1>2, <1>4, <1>5, LoadIsGated
<1>7. PICK n \in Nat : n = Len(list[r])
  BY <1>2, LenProperties
<1>8. PICK l : l = Append(list[r], e)
  OBVIOUS
<1>9. /\ l \in Seq(Found) /\ Len(l) = n + 1 /\ l[n + 1] = e
      /\ \A i \in 1..n : l[i] = list[r][i]
  BY <1>2, <1>6, <1>7, <1>8, AppendProperties
<1>10. list'[r] = l /\ list' \in [Runs -> Seq(Found)] /\ \A q \in Runs : q # r => list'[q] = list[q]
  BY <1>1, <1>2, <1>3, <1>5, <1>8, <1>9 DEF Types
<1>11. \A i \in 1..(n + 1) : i \in 1..n \/ i = n + 1
  OBVIOUS
<1>12. Types'
  <2>1. todo' \in [Runs -> SUBSET DirSet]
    BY <1>1, <1>2 DEF Types
  <2> QED
    BY <1>1, <1>2, <1>10, <2>1 DEF Types
<1>13. Scanned(l)
  <2>1. ASSUME NEW i \in 1..Len(l) PROVE Gated(l[i])
    BY <1>2, <1>6, <1>7, <1>9, <1>11 DEF Scanned
  <2>2. ASSUME NEW i \in 1..n, IsEnabled(l[i]), IsEnabled(e) PROVE l[i].name # e.name
    <3>1. DOMAIN list[r] = 1..n
      BY <1>2, <1>7, LenProperties
    <3>2. list[r][i].name \in Seen(list[r])
      BY <1>9, <2>2, <3>1 DEF Seen
    <3> QED
      BY <1>6, <1>9, <2>2, <3>2
  <2>3. Distinct(l)
    <3> SUFFICES ASSUME NEW i \in 1..Len(l), NEW j \in 1..Len(l),
                        IsEnabled(l[i]), IsEnabled(l[j]), l[i].name = l[j].name
                 PROVE  i = j
      BY DEF Distinct
    <3>1. CASE i \in 1..n /\ j \in 1..n
      BY <1>2, <1>7, <1>9, <3>1 DEF Scanned, Distinct
    <3>2. CASE i = n + 1 \/ j = n + 1
      BY <1>9, <1>11, <2>2, <3>2
    <3> QED
      BY <1>9, <1>11, <3>1, <3>2
  <2> QED
    BY <2>1, <2>3 DEF Scanned
<1>14. DiskGrows /\ \A k : Scanned(k)' <=> Scanned(k)
  BY <1>1, <1>2, SameDisk
<1>15. Scanned(loaded)' /\ \A q \in Runs : Scanned(list[q])'
  <2>1. Scanned(loaded) /\ \A q \in Runs : Scanned(list[q])
    BY DEF IInv
  <2>2. \A k : Scanned(k) => \A i \in 1..Len(k) : Gated(k[i])'
    BY <1>1 DEF Scanned, Gated, Version, IsEnabled
  <2>3. ASSUME NEW q \in Runs PROVE Scanned(list[q])'
    <3>1. PICK k : k = list'[q]
      OBVIOUS
    <3>2. Scanned(k)
      BY <1>10, <1>13, <2>1, <3>1
    <3> QED
      BY <2>2, <3>1, <3>2 DEF Scanned, Distinct
  <2> QED
    BY <1>1, <2>1, <2>2, <2>3 DEF Scanned, Distinct
<1>16. ASSUME NEW x \in Runs PROVE Timely(x)'
  <2>1. Timely(x)
    BY DEF IInv
  <2>2. ASSUME pc[x] # "idle", NEW q \in Runs, pc[q] = "scan" PROVE Since(list[q], x)'
    <3>1. CASE q # r
      BY <1>1, <1>10, <2>1, <2>2, <3>1 DEF Timely, Since
    <3>2. CASE q = r
      <4>1. \A i \in 1..n : list[r][i].version >= base[x][list[r][i].dir]
        BY <1>7, <2>1, <2>2, <3>2 DEF Timely, Since
      <4>2. e.version >= base[x][e.dir]
        <5>1. base[x][d] <= Version(d) /\ base[x][d] \in Nat /\ Version(d) \in Nat
          BY <1>2, <1>4, <2>1, <2>2, DiskTypes DEF Timely, Types
        <5> QED
          BY <1>6, <5>1
      <4>3. \A i \in 1..Len(l) : l[i].version >= base[x][l[i].dir]
        BY <1>9, <1>11, <4>1, <4>2
      <4> QED
        BY <1>1, <1>10, <3>2, <4>3 DEF Since
    <3> QED
      BY <3>1, <3>2
  <2>3. x # r \/ pc[x] = "scan"
    BY <1>1
  <2>4. pc[x] = "select" => Since(loaded, x)' /\ (x \notin raced' => loaded' = list'[x])
    BY <1>1, <1>10, <2>1, <2>3 DEF Timely, Since
  <2>5. pc[x] = "idle" => list'[x] = <<>>
    BY <1>1, <1>10, <2>1, <2>3 DEF Timely
  <2>6. pc[x] # "idle" => \A c \in DirSet : base'[x][c] <= Version(c)'
    BY <1>1, <2>1 DEF Timely, Version
  <2> QED
    BY <1>1, <2>2, <2>4, <2>5, <2>6 DEF Timely
<1>17. ASSUME NEW x \in Runs PROVE Result(x)'
  <2>1. Result(x) /\ (pc[x] = "done" => list'[x] = list[x])
    BY <1>1, <1>10 DEF IInv
  <2> QED
    BY <1>1, <1>2, <1>12, <1>14, <2>1, StaysResult
<1> QED
  BY <1>12, <1>15, <1>16, <1>17 DEF IInv

LEMMA PublishKeeps ==
  ASSUME IInv, NEW r \in Runs, Publish(r)
  PROVE  IInv'
<1>1. /\ pc[r] = "scan" /\ loaded' = list[r]
      /\ pc' = [pc EXCEPT ![r] = IF message[r].listing THEN "done" ELSE "select"]
      /\ raced' = raced \cup {q \in Runs : pc[q] = "select"}
      /\ UNCHANGED <<disk, message, todo, list, outcome, base>>
  BY DEF Publish, Stored
<1>2. Types
  BY DEF IInv
<1>3. /\ pc'[r] \in {"done", "select"} /\ (pc'[r] = "done" => message'[r].listing)
      /\ \A q \in Runs : q # r => pc'[q] = pc[q]
  BY <1>1, <1>2 DEF Types
<1>4. Types'
  BY <1>1, <1>2 DEF Types
<1>5. DiskGrows
  BY <1>1, <1>2, SameDisk
<1>6. Scanned(loaded)' /\ \A q \in Runs : Scanned(list[q])'
  <2>1. \A q \in Runs : Scanned(list[q])
    BY DEF IInv
  <2>2. \A q \in Runs : Scanned(list[q])'
    BY <1>1, <2>1 DEF Scanned, Distinct, Gated, Version, IsEnabled
  <2> QED
    BY <1>1, <2>2 DEF Scanned, Distinct, Gated
<1>7. ASSUME NEW x \in Runs PROVE Timely(x)'
  <2>1. Timely(x) /\ Timely(r)
    BY DEF IInv
  <2>2. pc'[x] = "idle" => pc[x] = "idle"
    BY <1>3
  <2>3. pc[x] = "idle" => pc'[x] = "idle"
    BY <1>1, <1>3
  <2>4. pc[x] # "idle" => Since(list[r], x)
    BY <1>1, <2>1 DEF Timely
  <2>5. pc'[x] = "select" => Since(loaded, x)'
    BY <1>1, <2>3, <2>4 DEF Since
  <2>6. pc'[x] = "select" /\ x \notin raced' => x = r
    BY <1>1, <1>3
  <2>7. pc'[x] # "idle" => \A q \in Runs : pc'[q] = "scan" => Since(list[q], x)'
    BY <1>1, <1>3, <2>1, <2>3 DEF Timely, Since
  <2>8. pc'[x] # "idle" => \A d \in DirSet : base'[x][d] <= Version(d)'
    BY <1>1, <2>1, <2>3 DEF Timely, Version
  <2>9. pc'[x] = "idle" => list'[x] = <<>>
    BY <1>1, <2>1, <2>2 DEF Timely
  <2> QED
    BY <1>1, <2>5, <2>6, <2>7, <2>8, <2>9 DEF Timely
<1>8. ASSUME NEW x \in Runs PROVE Result(x)'
  <2>1. CASE x # r
    <3>1. Result(x)
      BY DEF IInv
    <3> QED
      BY <1>1, <1>2, <1>3, <1>4, <1>5, <2>1, <3>1, StaysResult
  <2>2. CASE x = r
    <3>1. outcome'[r] = NoOutcome
      BY <1>1 DEF IInv, Result
    <3> QED
      BY <1>3, <2>2, <3>1, NoResultYet
  <2> QED
    BY <2>1, <2>2
<1> QED
  BY <1>4, <1>6, <1>7, <1>8 DEF IInv

\* A run that acts on its own list finds a reason for each skill it cannot have.
LEMMA OwnListHasReasons ==
  ASSUME NEW m, IsMessage(m), NEW l \in Seq(Found),
         Heeds(m, {s \in ToSet(l) : IsEnabled(s)}, <<>>)
  PROVE  \A i \in DOMAIN m.explicit : WhyNot(m.explicit[i], l) # "unavailable"
<1> SUFFICES ASSUME NEW i \in DOMAIN m.explicit PROVE WhyNot(m.explicit[i], l) # "unavailable"
  OBVIOUS
<1> DEFINE name == m.explicit[i]
           at == {k \in DOMAIN l : l[k].name = name}
<1>1. CASE at = {}
  BY <1>1 DEF WhyNot
<1>2. CASE at # {}
  <2>1. DOMAIN l = 1..Len(l) /\ \A k \in 1..Len(l) : l[k] \in Found
    BY LenProperties, ElementOfSeq
  <2>2. at \subseteq Nat
    BY <2>1
  <2>3. Min(at) \in at
    <3> HIDE DEF at
    <3> QED
      BY <1>2, <2>2, LeastOf
  <2>4. PICK k \in DOMAIN l : k = Min(at) /\ l[k].name = name
    BY <2>3
  <2>5. l[k] \in Found /\ l[k] \in ToSet(l)
    BY <2>1, <2>4 DEF ToSet
  <2>6. ~IsEnabled(l[k])
    BY <2>4, <2>5, EmptySeq DEF Heeds
  <2>7. WhyNot(name, l) = l[k].reason
    BY <1>2, <2>4, <2>6 DEF WhyNot
  <2>8. l[k].reason # "unavailable"
    BY <2>5 DEF Found, Reasons
  <2> QED
    BY <2>7, <2>8
<1> QED
  BY <1>1, <1>2

LEMMA SelectKeeps ==
  ASSUME IInv, NEW r \in Runs, Select(r)
  PROVE  IInv'
<1>1. /\ pc[r] = "select"
      /\ outcome' = [outcome EXCEPT ![r] = Outcome(message[r], list[r], loaded)]
      /\ pc' = [pc EXCEPT ![r] = "done"]
      /\ UNCHANGED <<disk, loaded, message, todo, list, base, raced>>
  BY DEF Select
<1>2. Types
  BY DEF IInv
<1>3. /\ pc'[r] = "done" /\ outcome'[r] = Outcome(message[r], list[r], loaded)
      /\ \A q \in Runs : q # r => pc'[q] = pc[q] /\ outcome'[q] = outcome[q]
  BY <1>1, <1>2 DEF Types
<1>4. Types'
  BY <1>1, <1>2 DEF Types
<1>5. DiskGrows
  BY <1>1, <1>2, SameDisk
<1>6. Scanned(loaded)' /\ \A q \in Runs : Scanned(list[q])'
  BY <1>1, <1>4, <1>5, ListsStay DEF IInv
<1>7. ASSUME NEW x \in Runs PROVE Timely(x)'
  <2>1. Timely(x)
    BY DEF IInv
  <2>2. /\ pc'[x] = "idle" <=> pc[x] = "idle"
        /\ pc'[x] = "select" => pc[x] = "select"
        /\ \A q \in Runs : pc'[q] = "scan" => pc[q] = "scan"
    BY <1>1, <1>3
  <2> QED
    BY <1>1, <2>1, <2>2 DEF Timely, Since, Version
<1> DEFINE m == message[r]
           enabled == {s \in ToSet(loaded) : IsEnabled(s)}
           sk == SelectForMessage(m, loaded)
<1>8. IsMessage(m) /\ loaded \in Seq(Found) /\ Scanned(loaded)
  BY <1>1, <1>2, SkillsAssumption DEF IInv, Types
<1>9. ASSUME NEW i \in 1..Len(loaded)
      PROVE  loaded[i] \in Found /\ Gated(loaded[i])
             /\ (IsEnabled(loaded[i]) => loaded[i].name \in SkillNames)
  <2>1. loaded[i] \in Found /\ Gated(loaded[i])
    BY <1>8, ElementOfSeq DEF Scanned
  <2>2. PICK e \in Found : e = loaded[i]
    BY <2>1
  <2>3. e.dir \in DirSet /\ e.version \in 1..Version(e.dir)
    BY <2>1, <2>2 DEF Gated, Found
  <2>4. disk[e.dir][e.version] \in Kinds
    BY <1>2, <2>3, DiskTypes
  <2>5. IsEnabled(e) => e.name # 0 /\ e.name = disk[e.dir][e.version].name
    BY <2>1, <2>2 DEF Gated
  <2>6. IsEnabled(e) => e.name \in SkillNames
    BY <2>4, <2>5, KindsAreFiles
  <2> QED
    BY <2>1, <2>2, <2>6
<1>10. Choice(m, enabled, sk) /\ Heeds(m, enabled, sk)
  <2> HIDE DEF m
  <2> QED
    BY <1>8, <1>9, SelectedChoice DEF Scanned
<1>11. Limit \in Nat
  BY SkillsAssumption DEF Limit
<1>12. outcome'[r].skills = sk
  BY <1>3 DEF Outcome, NoOutcome
<1>13. ASSUME NEW i \in 1..Len(sk)
       PROVE  /\ sk[i] \in Found /\ IsEnabled(sk[i]) /\ Gated(sk[i])
              /\ sk[i].version >= base[r][sk[i].dir]
  <2>1. sk[i] \in enabled
    BY <1>10, ElementOfSeq DEF Choice
  <2>2. PICK k \in 1..Len(loaded) : loaded[k] = sk[i]
    BY <1>8, <2>1, ElementsAreFinite
  <2>3. Since(loaded, r)
    BY <1>1 DEF IInv, Timely
  <2> HIDE DEF sk
  <2> QED
    BY <1>9, <2>1, <2>2, <2>3 DEF Since
<1>14. sk \in Seq(Found) /\ Choice(m, Found, sk)
  <2>1. sk \in Seq(enabled)
    BY <1>10 DEF Choice
  <2>2. enabled \subseteq Found
    <3>1. ToSet(loaded) \subseteq Found
      BY <1>8, ElementsAreFinite
    <3> QED
      BY <3>1
  <2> HIDE DEF sk, enabled, m
  <2>3. sk \in Seq(Found)
    BY <2>1, <2>2, SeqMonotonic
  <2> QED
    BY <1>10, <2>3 DEF Choice
<1>15. ASSUME r \notin raced
       PROVE  /\ outcome'[r] = Outcome(m, list[r], list[r])
              /\ "unavailable" \notin ToSet(outcome'[r].reasons)
  <2>1. loaded = list[r]
    BY <1>1, <1>15 DEF IInv, Timely
  <2>2. CASE sk # <<>> \/ m.explicit = <<>>
    <3>1. outcome'[r].reasons = <<>>
      BY <1>3, <2>2 DEF Outcome, NoOutcome
    <3> QED
      BY <1>3, <2>1, <3>1 DEF ToSet
  <2>3. CASE sk = <<>> /\ m.explicit # <<>>
    <3>1. outcome'[r].reasons = [i \in DOMAIN m.explicit |-> WhyNot(m.explicit[i], list[r])]
      BY <1>3, <2>3 DEF Outcome, NoOutcome
    <3>2. \A i \in DOMAIN m.explicit : WhyNot(m.explicit[i], list[r]) # "unavailable"
      <4> HIDE DEF m, sk
      <4> QED
        BY <1>8, <1>10, <2>1, <2>3, OwnListHasReasons
    <3> QED
      BY <1>3, <2>1, <3>1, <3>2 DEF ToSet
  <2> QED
    BY <2>2, <2>3
<1>16. Result(r)'
  <2>1. PICK k : k = sk
    OBVIOUS
  <2>2. /\ outcome'[r].skills = k /\ k \in Seq(Found) /\ Choice(m, Found, k)
        /\ \A i \in 1..Len(k) :
             k[i] \in Found /\ IsEnabled(k[i]) /\ Gated(k[i]) /\ k[i].version >= base[r][k[i].dir]
    <3> HIDE DEF sk, m
    <3> QED
      BY <1>12, <1>13, <1>14, <2>1
  <2>3. \A i \in 1..Len(k) : Gated(k[i])'
    BY <1>2, <1>4, <1>5, <2>2, StaysGated
  <2>4. message'[r] = m /\ base' = base /\ raced' = raced /\ list' = list
    BY <1>1 DEF m
  <2>5. Choice(message'[r], Found, outcome'[r].skills)
    BY <2>2, <2>4
  <2>6. pc'[r] = "done" /\ ~message'[r].listing /\ r \notin raced' =>
          /\ outcome'[r] = Outcome(message'[r], list'[r], list'[r])
          /\ "unavailable" \notin ToSet(outcome'[r].reasons)
    BY <1>15, <2>4
  <2>7. \A i \in 1..Len(k) : IsEnabled(k[i]) /\ k[i].version >= base'[r][k[i].dir]
    BY <2>2, <2>4
  <2> HIDE DEF sk, m
  <2> QED
    BY <1>3, <2>2, <2>3, <2>5, <2>6, <2>7 DEF Result, Choice, IsEnabled
<1>17. ASSUME NEW x \in Runs, x # r PROVE Result(x)'
  <2>1. Result(x)
    BY DEF IInv
  <2> QED
    BY <1>1, <1>2, <1>3, <1>4, <1>5, <1>17, <2>1, StaysResult
<1> QED
  BY <1>4, <1>6, <1>7, <1>16, <1>17 DEF IInv

LEMMA SkillsInv == Spec => []IInv
<1>1. ASSUME IInv, [Next]_vars PROVE IInv'
  <2>1. CASE \E d \in DirSet : Edit(d)
    BY <1>1, <2>1, EditKeeps
  <2>2. CASE \E r \in Runs, m \in Messages : Begin(r, m)
    BY <1>1, <2>2, BeginKeeps
  <2>3. CASE \E r \in Runs : ReadOne(r) \/ Publish(r) \/ Select(r)
    BY <1>1, <2>3, ReadOneKeeps, PublishKeeps, SelectKeeps
  <2>4. CASE UNCHANGED vars
    <3>1. UNCHANGED <<disk, loaded, pc, message, todo, list, outcome, base, raced>>
      BY <2>4 DEF vars
    <3>2. Types /\ Types'
      BY <1>1, <3>1 DEF IInv, Types
    <3>3. Scanned(loaded)' /\ \A r \in Runs : Scanned(list[r])'
      BY <1>1, <3>1, <3>2, SameDisk, ListsStay DEF IInv
    <3>4. \A r \in Runs : Timely(r)'
      BY <1>1, <3>1 DEF IInv, Timely, Since, Version
    <3>5. ASSUME NEW r \in Runs PROVE Result(r)'
      <4>1. Result(r) /\ DiskGrows
        BY <1>1, <3>1, <3>2, SameDisk DEF IInv
      <4> QED
        BY <3>1, <3>2, <4>1, StaysResult
    <3> QED
      BY <3>2, <3>3, <3>4, <3>5 DEF IInv
  <2> QED
    BY <1>1, <2>1, <2>2, <2>3, <2>4 DEF Next
<1> QED
  BY <1>1, InitInv, PTL DEF Spec

(***************************************************************************)
(* For any directories, files, edits and concurrent runs: whatever list a  *)
(* run selects from (SelectForMessage, loader.go:118-146), what it injects *)
(* passed the gates of LoadAll when a file was read, is asked for or       *)
(* matches, once each, the best first and no more than the limit.          *)
(***************************************************************************)
THEOREM SelectionIsAllowed == Spec => []InjectedIsAllowed
<1>1. IInv => InjectedIsAllowed
  BY ResultShows DEF IInv, InjectedIsAllowed
<1> QED
  BY <1>1, SkillsInv, PTL

(***************************************************************************)
(* The list that a run finds in the service was stored after the run began,*)
(* by a scan that began no earlier than those under way then; when nobody  *)
(* has replaced the run's own list, it acts on that one.                   *)
(***************************************************************************)
THEOREM SelectionIsFresh == Spec => []InjectedIsFresh
<1>1. IInv => InjectedIsFresh
  BY ResultShows DEF IInv, InjectedIsFresh
<1> QED
  BY <1>1, SkillsInv, PTL
=============================================================================
