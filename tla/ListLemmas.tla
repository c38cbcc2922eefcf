----------------------------- MODULE ListLemmas -----------------------------
(***************************************************************************)
(* What the operations on queues and linked lists do: on the set of        *)
(* members of a queue without repetitions, and on the nodes of a list kept *)
(* in an array of next pointers, as in asl.c, pcb.c and delayDaemon.c.     *)
(***************************************************************************)
EXTENDS LinkedLists, SequencesExt, FiniteSetTheorems, FunctionTheorems, SequenceTheorems,
        NaturalsInduction, WellFoundedInduction, TLAPS

\* insertProcQ of a pcb that is not in the queue.
LEMMA AppendMember ==
  ASSUME NEW S, NEW s \in Seq(S), NEW x \in S
  PROVE  /\ Append(s, x) \in Seq(S)
         /\ Len(Append(s, x)) = Len(s) + 1
         /\ ToSet(Append(s, x)) = ToSet(s) \cup {x}
         /\ IsInjective(s) /\ x \notin ToSet(s) => IsInjective(Append(s, x))
  BY AppendProperties, LenProperties, ElementOfSeq DEF ToSet, IsInjective

\* removeProcQ of a queue that is not empty.
LEMMA TailMember ==
  ASSUME NEW S, NEW s \in Seq(S), s # <<>>, IsInjective(s)
  PROVE  /\ Head(s) \in S /\ Head(s) \in ToSet(s)
         /\ Tail(s) \in Seq(S)
         /\ Len(Tail(s)) = Len(s) - 1
         /\ ToSet(Tail(s)) = ToSet(s) \ {Head(s)}
         /\ IsInjective(Tail(s))
<1>1. /\ Tail(s) \in Seq(S) /\ Len(Tail(s)) = Len(s) - 1
      /\ \A i \in 1 .. Len(s) - 1 : Tail(s)[i] = s[i+1]
      /\ Len(s) \in Nat \ {0} /\ DOMAIN s = 1 .. Len(s)
      /\ DOMAIN Tail(s) = 1 .. Len(s) - 1 /\ Head(s) = s[1]
  BY HeadTailProperties, LenProperties, EmptySeq
<1>2. Head(s) \in S /\ Head(s) \in ToSet(s)
  BY <1>1, ElementOfSeq DEF ToSet
<1>3. IsInjective(Tail(s))
  <2> SUFFICES ASSUME NEW i \in 1 .. Len(s) - 1, NEW j \in 1 .. Len(s) - 1,
                      s[i+1] = s[j+1]
               PROVE  i = j
    BY <1>1 DEF IsInjective
  <2>1. i + 1 \in DOMAIN s /\ j + 1 \in DOMAIN s
    BY <1>1
  <2> QED BY <2>1 DEF IsInjective
<1>4. ToSet(Tail(s)) \subseteq ToSet(s) \ {Head(s)}
  <2> SUFFICES ASSUME NEW i \in 1 .. Len(s) - 1
               PROVE  s[i+1] \in ToSet(s) /\ s[i+1] # s[1]
    BY <1>1 DEF ToSet
  <2>1. i + 1 \in DOMAIN s /\ 1 \in DOMAIN s /\ i + 1 # 1
    BY <1>1
  <2> QED BY <2>1 DEF ToSet, IsInjective
<1>5. ToSet(s) \ {Head(s)} \subseteq ToSet(Tail(s))
  <2> SUFFICES ASSUME NEW i \in DOMAIN s, s[i] # s[1]
               PROVE  s[i] \in ToSet(Tail(s))
    BY <1>1 DEF ToSet
  <2>1. i - 1 \in 1 .. Len(s) - 1 /\ s[i] = Tail(s)[i-1]
    BY <1>1
  <2> QED BY <2>1, <1>1 DEF ToSet
<1> QED BY <1>1, <1>2, <1>3, <1>4, <1>5

\* One queue emptied onto the end of another.
LEMMA ConcatMember ==
  ASSUME NEW S, NEW s \in Seq(S), NEW t \in Seq(S)
  PROVE  /\ s \o t \in Seq(S)
         /\ ToSet(s \o t) = ToSet(s) \cup ToSet(t)
         /\ IsInjective(s) /\ IsInjective(t) /\ ToSet(s) \cap ToSet(t) = {}
              => IsInjective(s \o t)
<1>1. /\ s \o t \in Seq(S) /\ Len(s \o t) = Len(s) + Len(t)
      /\ \A i \in 1 .. Len(s) + Len(t) :
           (s \o t)[i] = IF i <= Len(s) THEN s[i] ELSE t[i - Len(s)]
      /\ Len(s) \in Nat /\ DOMAIN s = 1 .. Len(s)
      /\ Len(t) \in Nat /\ DOMAIN t = 1 .. Len(t)
      /\ DOMAIN (s \o t) = 1 .. Len(s) + Len(t)
  BY ConcatProperties, LenProperties
<1>2. ToSet(s \o t) \subseteq ToSet(s) \cup ToSet(t)
  BY <1>1 DEF ToSet
<1>3. ToSet(s) \subseteq ToSet(s \o t)
  BY <1>1 DEF ToSet
<1>4. ToSet(t) \subseteq ToSet(s \o t)
  <2> SUFFICES ASSUME NEW i \in DOMAIN t PROVE t[i] \in ToSet(s \o t)
    BY DEF ToSet
  <2>1. i + Len(s) \in DOMAIN (s \o t) /\ (s \o t)[i + Len(s)] = t[i]
    BY <1>1
  <2> QED BY <2>1 DEF ToSet
<1>5. ASSUME IsInjective(s), IsInjective(t), ToSet(s) \cap ToSet(t) = {}
      PROVE  IsInjective(s \o t)
  <2> SUFFICES ASSUME NEW i \in DOMAIN (s \o t), NEW j \in DOMAIN (s \o t),
                      (s \o t)[i] = (s \o t)[j]
               PROVE  i = j
    BY DEF IsInjective
  <2>1. CASE i <= Len(s) /\ j <= Len(s)
    BY <1>1, <1>5, <2>1 DEF IsInjective
  <2>2. CASE i > Len(s) /\ j > Len(s)
    <3>1. i - Len(s) \in DOMAIN t /\ j - Len(s) \in DOMAIN t
          /\ t[i - Len(s)] = t[j - Len(s)]
      BY <1>1, <2>2
    <3>2. i - Len(s) = j - Len(s)
      BY <3>1, <1>5 DEF IsInjective
    <3> QED BY <3>2, <1>1
  <2>3. CASE i <= Len(s) /\ j > Len(s)
    <3>1. i \in DOMAIN s /\ j - Len(s) \in DOMAIN t /\ s[i] = t[j - Len(s)]
      BY <1>1, <2>3
    <3> QED BY <3>1, <1>5 DEF ToSet
  <2>4. CASE i > Len(s) /\ j <= Len(s)
    <3>1. j \in DOMAIN s /\ i - Len(s) \in DOMAIN t /\ s[j] = t[i - Len(s)]
      BY <1>1, <2>4
    <3> QED BY <3>1, <1>5 DEF ToSet
  <2> QED BY <1>1, <2>1, <2>2, <2>3, <2>4
<1> QED BY <1>1, <1>2, <1>3, <1>4, <1>5

\* A queue without one of its members, position by position.
LEMMA RemoveForm ==
  ASSUME NEW S, NEW s \in Seq(S), NEW k \in 1 .. Len(s), IsInjective(s), NEW x, x = s[k]
  PROVE  LET r == RemoveFirst(s, x) IN
         /\ r \in Seq(S) /\ Len(r) = Len(s) - 1 /\ DOMAIN r = 1 .. Len(s) - 1
         /\ \A i \in 1 .. Len(s) - 1 : r[i] = IF i < k THEN s[i] ELSE s[i + 1]
<1>0. Len(s) \in Nat /\ DOMAIN s = 1 .. Len(s)
  BY LenProperties
<1>1. k \in 1 .. Len(s) /\ s[k] = x
  OBVIOUS
<1>2. {i \in 1 .. Len(s) : s[i] = x} = {k}
  BY <1>1, <1>0 DEF IsInjective
<1>3. SelectInSeq(s, LAMBDA v : v = x) = k
  <2>1. Min({k}) = k
    BY <1>1 DEF Min
  <2> QED BY <1>2, <2>1 DEF SelectInSeq
<1> DEFINE a == SubSeq(s, 1, k - 1)
           b == SubSeq(s, k + 1, Len(s))
           r == a \o b
<1>4. RemoveFirst(s, x) = r
  BY <1>1, <1>3 DEF RemoveFirst, RemoveAt
<1>5. /\ a \in Seq(S) /\ Len(a) = k - 1 /\ \A i \in 1 .. k - 1 : a[i] = s[i]
  BY <1>0, <1>1, SubSeqProperties
<1>6. /\ b \in Seq(S) /\ Len(b) = Len(s) - k
      /\ \A i \in 1 .. Len(s) - k : b[i] = s[k + i]
  <2>1. /\ \A i \in k + 1 .. Len(s) : s[i] \in S
        /\ k + 1 \in Int /\ Len(s) \in Int
    BY <1>0, <1>1, ElementOfSeq
  <2>2. /\ b \in Seq(S)
        /\ Len(b) = IF k + 1 <= Len(s) THEN Len(s) - (k + 1) + 1 ELSE 0
        /\ \A i \in 1 .. Len(s) - (k + 1) + 1 : b[i] = s[(k + 1) + i - 1]
    BY <2>1, SubSeqProperties
  <2> HIDE DEF b
  <2>3. Len(b) = Len(s) - k
    <3>1. Len(b) = IF k + 1 <= Len(s) THEN Len(s) - (k + 1) + 1 ELSE 0
      BY <2>2
    <3>2. Len(s) \in Nat /\ k \in 1 .. Len(s)
      BY <1>0
    <3>3. CASE k = Len(s)
      BY <3>1, <3>2, <3>3
    <3>4. CASE k < Len(s)
      BY <3>1, <3>2, <3>4
    <3> QED BY <3>2, <3>3, <3>4
  <2>4. ASSUME NEW i \in 1 .. Len(s) - k PROVE b[i] = s[k + i]
    <3>1. i \in 1 .. Len(s) - (k + 1) + 1 /\ (k + 1) + i - 1 = k + i
      BY <1>0, <1>1
    <3> QED BY <3>1, <2>2
  <2> QED BY <2>2, <2>3, <2>4
<1>7. /\ r \in Seq(S) /\ Len(r) = Len(s) - 1 /\ DOMAIN r = 1 .. Len(s) - 1
      /\ \A i \in 1 .. Len(s) - 1 : r[i] = IF i < k THEN s[i] ELSE s[i + 1]
  <2>1. /\ r \in Seq(S) /\ Len(r) = Len(a) + Len(b)
        /\ \A i \in 1 .. Len(a) + Len(b) :
             r[i] = IF i <= Len(a) THEN a[i] ELSE b[i - Len(a)]
    BY <1>5, <1>6, ConcatProperties
  <2> HIDE DEF a, b, r
  <2> DEFINE n == Len(s)
  <2>2. /\ n \in Int /\ k \in Int /\ 1 <= k /\ k <= n
        /\ Len(a) = k - 1 /\ Len(b) = n - k
    BY <1>0, <1>1, <1>5, <1>6
  <2>3. \A i \in 1 .. k - 1 : a[i] = s[i]
    BY <1>5
  <2>4. \A i \in 1 .. n - k : b[i] = s[k + i]
    BY <1>6
  <2>5. DOMAIN r = 1 .. Len(r)
    BY <2>1, LenProperties
  <2> HIDE DEF n
  <2>6. Len(a) + Len(b) = n - 1
    BY <2>2
  <2>7. \A i \in 1 .. n - 1 : r[i] = IF i <= k - 1 THEN a[i] ELSE b[i - (k - 1)]
    BY <2>1, <2>2, <2>6
  <2>8. ASSUME NEW i \in 1 .. n - 1
        PROVE  r[i] = IF i < k THEN s[i] ELSE s[i + 1]
    <3>1. CASE i < k
      <4>1. i <= k - 1 /\ i \in 1 .. k - 1
        BY <3>1, <2>2
      <4>2. r[i] = a[i]
        BY <4>1, <2>7
      <4> QED BY <4>1, <4>2, <3>1, <2>3
    <3>2. CASE ~(i < k)
      <4>1. /\ ~(i <= k - 1) /\ i - (k - 1) \in 1 .. n - k
            /\ k + (i - (k - 1)) = i + 1
        BY <3>2, <2>2
      <4>2. r[i] = b[i - (k - 1)]
        BY <4>1, <2>7
      <4>3. b[i - (k - 1)] = s[k + (i - (k - 1))]
        BY <4>1, <2>4
      <4> QED BY <4>1, <4>2, <4>3, <3>2
    <3> QED BY <3>1, <3>2
  <2>9. r \in Seq(S) /\ Len(r) = n - 1
    BY <2>1, <2>6
  <2> USE DEF n
  <2> QED BY <2>5, <2>8, <2>9
<1> HIDE DEF a, b, r
<1> QED BY <1>4, <1>7

\* outProcQ: the pcb leaves the queue, or was not there.
LEMMA RemoveMember ==
  ASSUME NEW S, NEW s \in Seq(S), NEW x, IsInjective(s)
  PROVE  /\ RemoveFirst(s, x) \in Seq(S)
         /\ ToSet(RemoveFirst(s, x)) = ToSet(s) \ {x}
         /\ IsInjective(RemoveFirst(s, x))
         /\ x \in ToSet(s) => Len(RemoveFirst(s, x)) = Len(s) - 1
         /\ x \notin ToSet(s) => RemoveFirst(s, x) = s
<1>1. Len(s) \in Nat /\ DOMAIN s = 1 .. Len(s)
  BY LenProperties
<1>2. CASE x \notin ToSet(s)
  <2>1. RemoveFirst(s, x) = s
    BY <1>1, <1>2 DEF RemoveFirst, ToSet
  <2> QED BY <2>1, <1>2
<1>3. CASE x \in ToSet(s)
  <2>1. PICK k \in 1 .. Len(s) : s[k] = x
    BY <1>1, <1>3 DEF ToSet
  <2>2. \A i \in 1 .. Len(s) : s[i] = x => i = k
    BY <2>1, <1>1 DEF IsInjective
  <2> DEFINE r == RemoveFirst(s, x)
  <2>7. /\ r \in Seq(S) /\ Len(r) = Len(s) - 1 /\ DOMAIN r = 1 .. Len(s) - 1
        /\ \A i \in 1 .. Len(s) - 1 : r[i] = IF i < k THEN s[i] ELSE s[i + 1]
    BY <2>1, RemoveForm
  <2> HIDE DEF r
  <2>8. ToSet(r) \subseteq ToSet(s) \ {x}
    <3> SUFFICES ASSUME NEW i \in 1 .. Len(s) - 1
                 PROVE  r[i] \in ToSet(s) /\ r[i] # x
      BY <2>7 DEF ToSet
    <3>1. PICK j \in DOMAIN s : j # k /\ r[i] = s[j]
      <4>1. i \in DOMAIN s /\ i + 1 \in DOMAIN s
        BY <1>1
      <4>2. CASE i < k
        BY <2>7, <4>1, <4>2
      <4>3. CASE ~(i < k)
        <5>1. i + 1 # k
          BY <4>3
        <5>. QED  BY <2>7, <4>1, <4>3, <5>1
      <4>. QED  BY <4>2, <4>3
    <3>2. s[j] # x
      BY <1>1, <2>2, <3>1
    <3>3. s[j] \in ToSet(s)
      BY <3>1 DEF ToSet
    <3> QED BY <3>1, <3>2, <3>3
  <2>9. ToSet(s) \ {x} \subseteq ToSet(r)
    <3> SUFFICES ASSUME NEW j \in DOMAIN s, s[j] # x PROVE s[j] \in ToSet(r)
      BY DEF ToSet
    <3>1. CASE j < k
      BY <1>1, <2>1, <2>7, <3>1 DEF ToSet
    <3>2. CASE j > k
      <4>1. j - 1 \in DOMAIN r /\ r[j - 1] = s[j]
        BY <1>1, <2>1, <2>7, <3>2
      <4> QED BY <4>1 DEF ToSet
    <3> QED BY <3>1, <3>2, <2>1, <1>1
  <2>10. IsInjective(r)
    <3> SUFFICES ASSUME NEW i \in DOMAIN r, NEW j \in DOMAIN r, r[i] = r[j]
                 PROVE  i = j
      BY DEF IsInjective
    <3> DEFINE f(n) == IF n < k THEN n ELSE n + 1
    <3>1. f(i) \in DOMAIN s /\ f(j) \in DOMAIN s /\ s[f(i)] = s[f(j)]
      BY <1>1, <2>1, <2>7
    <3>2. f(i) = f(j)
      BY <3>1 DEF IsInjective
    <3> QED BY <3>2, <2>1, <2>7, <1>1
  <2> QED BY <1>3, <2>7, <2>8, <2>9, <2>10 DEF r
<1> QED BY <1>2, <1>3

\* The innermost activation of sysTerminate returns.
LEMMA FrontLast ==
  ASSUME NEW S, NEW s \in Seq(S), s # <<>>
  PROVE  /\ Front(s) \in Seq(S) /\ Last(s) \in S
         /\ Len(s) \in Nat \ {0} /\ Len(Front(s)) = Len(s) - 1
         /\ DOMAIN s = 1 .. Len(s) /\ DOMAIN Front(s) = 1 .. Len(s) - 1
         /\ Last(s) = s[Len(s)]
         /\ \A i \in 1 .. Len(s) - 1 : Front(s)[i] = s[i]
<1>1. Len(s) \in Nat \ {0} /\ DOMAIN s = 1 .. Len(s)
  BY LenProperties, EmptySeq
<1>2. Front(s) \in Seq(S) /\ Len(Front(s)) = Len(s) - 1
      /\ \A i \in 1 .. Len(s) - 1 : Front(s)[i] = s[i]
  BY <1>1, SubSeqProperties DEF Front
<1> QED BY <1>1, <1>2, LenProperties, ElementOfSeq DEF Last

-----------------------------------------------------------------------------
(***************************************************************************)
(* Linked lists.  What a walk along next pointers returns is proved from the *)
(* smallest position at which it could differ.                             *)
(***************************************************************************)
\* s is the list that starts at first: its nodes in order, none of them twice.
IsList(s, first, next, nil) ==
  /\ s \in Seq(DOMAIN next) /\ IsInjective(s)
  /\ s = <<>> => first = nil
  /\ s # <<>> => first = s[1] /\ next[s[Len(s)]] = nil
  /\ \A i \in 1 .. Len(s) - 1 : next[s[i]] = s[i+1]

\* A set of numbers has a least one.
LEMMA Least ==
  ASSUME NEW T, T \subseteq Nat, T # {}
  PROVE  Min(T) \in T /\ \A n \in T : Min(T) <= n
<1>1. PICK f \in T : \A g \in T : ~ <<g, f>> \in OpToRel(<, Nat)
  BY NatLessThanWellFounded, WFMin, Zenon
<1>2. \A g \in T : ~(g < f)
  BY <1>1 DEF OpToRel
<1>3. f \in T /\ \A g \in T : f <= g
  BY <1>2
<1> QED BY <1>3 DEF Min

\* A finite set of numbers has a greatest one: of the sets that have none, one
\* with the fewest members would lose that with any of them.
LEMMA Greatest ==
  ASSUME NEW T, T \subseteq Int, T # {}, IsFiniteSet(T)
  PROVE  Max(T) \in T /\ \A n \in T : n <= Max(T)
<1>1. PICK Endless : Endless = {X \in SUBSET T : X # {} /\ \A m \in X : \E n \in X : n > m}
  OBVIOUS
<1>2. Endless = {}
  <2>. SUFFICES ASSUME Endless # {}
                PROVE  FALSE
    OBVIOUS
  <2>1. PICK C : C = {Cardinality(X) : X \in Endless}
    OBVIOUS
  <2>2. \A X \in Endless : X \subseteq T /\ IsFiniteSet(X) /\ Cardinality(X) \in Nat
    BY <1>1, FS_Subset, FS_CardinalityType
  <2>3. C \subseteq Nat /\ C # {}
    BY <2>1, <2>2
  <2>4. PICK X \in Endless : \A Y \in Endless : Cardinality(X) <= Cardinality(Y)
    <3>1. PICK c \in C : \A d \in C : c <= d
      BY <2>3, Least
    <3>. QED  BY <2>1, <3>1
  <2>5. PICK m \in X : TRUE
    BY <1>1
  <2>6. PICK n \in X : n > m
    BY <1>1
  <2>7. X \subseteq Int /\ n \in X \ {m}
    BY <1>1, <2>6
  <2>8. \A i \in X \ {m} : \E j \in X \ {m} : j > i
    <3>. SUFFICES ASSUME NEW i \in X \ {m}
                  PROVE  \E j \in X \ {m} : j > i
      OBVIOUS
    <3>1. PICK j \in X : j > i
      BY <1>1
    <3>2. CASE j = m
      BY <2>6, <2>7, <3>1, <3>2
    <3>. QED  BY <3>1, <3>2
  <2>9. X \ {m} \in Endless
    BY <1>1, <2>7, <2>8
  <2>10. Cardinality(X \ {m}) = Cardinality(X) - 1
    BY <2>2, FS_RemoveElement
  <2>. QED  BY <2>2, <2>4, <2>9, <2>10
<1>3. \E m \in T : \A n \in T : n <= m
  BY <1>1, <1>2
<1>. QED  BY <1>3 DEF Max

\* A queue without repetitions is as long as it has members.
LEMMA InjectiveLength ==
  ASSUME NEW S, NEW s \in Seq(S), IsInjective(s)
  PROVE  /\ IsFiniteSet(ToSet(s)) /\ Cardinality(ToSet(s)) = Len(s)
         /\ IsFiniteSet(S) => Len(s) <= Cardinality(S)
<1>1. Len(s) \in Nat /\ DOMAIN s = 1 .. Len(s) /\ s = [i \in 1 .. Len(s) |-> s[i]]
      /\ ToSet(s) \subseteq S
  BY LenProperties, ElementOfSeq DEF ToSet
<1>2. s \in Bijection(1 .. Len(s), ToSet(s))
  BY <1>1 DEF ToSet, IsInjective, Bijection, Injection, Surjection
<1>3. IsFiniteSet(1 .. Len(s)) /\ Cardinality(1 .. Len(s)) = Len(s)
  <2>1. PICK n \in Nat : n = Len(s)
    BY <1>1
  <2>2. IsFiniteSet(1 .. n) /\ Cardinality(1 .. n) = n
    BY FS_Interval
  <2>. QED  BY <2>1, <2>2
<1>4. IsFiniteSet(ToSet(s)) /\ Cardinality(ToSet(s)) = Len(s)
  BY <1>2, <1>3, FS_Bijection DEF ExistsBijection
<1>5. IsFiniteSet(S) => Cardinality(ToSet(s)) <= Cardinality(S)
  BY <1>1, FS_Subset
<1> QED BY <1>4, <1>5

\* The walk from the start of a list meets its nodes, in order.
LEMMA WalkOfList ==
  ASSUME NEW nil, NEW first, NEW next, IsFiniteSet(DOMAIN next), nil \notin DOMAIN next,
         NEW s, IsList(s, first, next, nil)
  PROVE  Walk(first, next, nil) = s
<1> DEFINE max == Cardinality(DOMAIN next)
      at[i \in 1 .. max] ==
        IF i = 1 THEN first
        ELSE IF at[i-1] = nil THEN nil ELSE next[at[i-1]]
      Rhs(g) == [i \in 1 .. max |-> IF i = 1 THEN first
                  ELSE IF g[i-1] = nil THEN nil ELSE next[g[i-1]]]
      padded == [i \in 1 .. max |-> IF i <= Len(s) THEN s[i] ELSE nil]
<1>0. /\ Len(s) \in Nat /\ \A i \in 1 .. Len(s) : s[i] # nil
      /\ s = [i \in 1 .. Len(s) |-> s[i]]
      /\ s = <<>> <=> Len(s) = 0
      /\ max \in Nat /\ Len(s) <= max
  <2>1. s \in Seq(DOMAIN next) /\ IsInjective(s)
    BY DEF IsList
  <2>2. max \in Nat /\ Len(s) <= max
    BY <2>1, InjectiveLength, FS_CardinalityType
  <2> HIDE DEF max
  <2> QED BY <2>1, <2>2, ElementOfSeq, LenProperties, EmptySeq
<1>c. /\ first = IF s = <<>> THEN nil ELSE s[1]
      /\ \A i \in 1 .. Len(s) : next[s[i]] = IF i = Len(s) THEN nil ELSE s[i+1]
  BY <1>0 DEF IsList
<1> HIDE DEF max
<1>1. padded = Rhs(padded)
  <2>1. ASSUME NEW i \in 1 .. max
        PROVE  padded[i] = Rhs(padded)[i]
    <3>1. CASE i = 1
      BY <3>1, <1>0, <1>c
    <3>2. CASE i # 1
      <4>1. i - 1 \in 1 .. max
        BY <1>0, <3>2
      <4>2. CASE i - 1 <= Len(s)
        BY <4>1, <4>2, <3>2, <1>0, <1>c
      <4>3. CASE i - 1 > Len(s)
        BY <4>1, <4>3, <3>2, <1>0, <1>c
      <4> QED BY <4>1, <4>2, <4>3, <1>0
    <3> QED BY <3>1, <3>2
  <2> QED BY <2>1
<1>2. at = Rhs(at)
  <2>1. at = CHOOSE g : g = Rhs(g)
    OBVIOUS
  <2> HIDE DEF at, Rhs, padded
  <2> QED BY <2>1, <1>1
<1>3. at = padded
  <2> SUFFICES ASSUME at # padded PROVE FALSE
    OBVIOUS
  <2> DEFINE T == {i \in 1 .. max : at[i] # padded[i]}
  <2>0. \A i \in 1 .. max : at[i] = IF i = 1 THEN first
                  ELSE IF at[i-1] = nil THEN nil ELSE next[at[i-1]]
    <3> HIDE DEF at
    <3> QED BY <1>2
  <2>1. \A i \in 1 .. max : padded[i] = IF i = 1 THEN first
                  ELSE IF padded[i-1] = nil THEN nil ELSE next[padded[i-1]]
    <3> HIDE DEF padded
    <3> QED BY <1>1
  <2>2. T # {}
    <3>1. DOMAIN at = 1 .. max /\ at = [i \in 1 .. max |-> at[i]]
      <4> HIDE DEF at
      <4> QED BY <1>2
    <3> HIDE DEF at
    <3> QED BY <3>1
  <2> HIDE DEF at, padded
  <2>3. T \subseteq Nat
    BY <1>0
  <2>4. PICK m \in T : \A n \in T : m <= n
    <3> HIDE DEF T
    <3> QED BY <2>2, <2>3, Least
  <2>5. m \in 1 .. max /\ m # 1
    BY <2>4, <2>0, <2>1, <1>0
  <2>6. m - 1 \in 1 .. max /\ m - 1 \notin T
    BY <2>4, <2>5, <1>0
  <2>7. at[m-1] = padded[m-1]
    BY <2>6
  <2> QED BY <2>4, <2>0, <2>1, <2>5, <2>6, <2>7
<1>4. {i \in DOMAIN at : at[i] # nil} = 1 .. Len(s)
  <2>1. DOMAIN at = 1 .. max
    <3> HIDE DEF at
    <3> QED BY <1>2
  <2> HIDE DEF at
  <2> QED BY <1>0, <1>3, <2>1
<1>5. Cardinality(1 .. Len(s)) = Len(s)
  BY <1>0, FS_Interval
<1>6. [i \in 1 .. Len(s) |-> at[i]] = s
  <2> HIDE DEF at
  <2>1. \A i \in 1 .. Len(s) : at[i] = s[i]
    BY <1>3, <1>0
  <2> QED BY <2>1, <1>0
<1>7. Walk(first, next, nil) = [i \in 1 .. Cardinality({i \in DOMAIN at : at[i] # nil}) |-> at[i]]
  BY DEF Walk, max
<1> HIDE DEF at
<1> QED BY <1>4, <1>5, <1>6, <1>7

\* A write to a node that is not on a list leaves the list as it is.
LEMMA ListElsewhere ==
  ASSUME NEW nil, NEW first, NEW next, NEW s, IsList(s, first, next, nil),
         NEW next2, DOMAIN next2 = DOMAIN next, \A x \in ToSet(s) : next2[x] = next[x]
  PROVE  IsList(s, first, next2, nil)
<1>1. s \in Seq(DOMAIN next) /\ Len(s) \in Nat /\ DOMAIN s = 1 .. Len(s) /\ (s = <<>> <=> Len(s) = 0)
  BY LenProperties, EmptySeq DEF IsList
<1>2. \A i \in 1 .. Len(s) : next2[s[i]] = next[s[i]]
  BY <1>1 DEF ToSet
<1> QED BY <1>1, <1>2 DEF IsList

\* A list starts with its first node, and only the empty one starts with nil.
LEMMA ListFirst ==
  ASSUME NEW nil, NEW first, NEW next, nil \notin DOMAIN next, NEW s, IsList(s, first, next, nil)
  PROVE  /\ s \in Seq(DOMAIN next) /\ IsInjective(s) /\ Len(s) \in Nat
         /\ DOMAIN s = 1 .. Len(s) /\ ToSet(s) \subseteq DOMAIN next
         /\ first = nil <=> s = <<>>
         /\ s = <<>> <=> Len(s) = 0
         /\ first # nil => first = s[1] /\ first = Head(s) /\ first \in ToSet(s)
<1>1. s \in Seq(DOMAIN next) /\ IsInjective(s)
  BY DEF IsList
<1>2. /\ Len(s) \in Nat /\ DOMAIN s = 1 .. Len(s) /\ (s = <<>> <=> Len(s) = 0)
      /\ \A i \in 1 .. Len(s) : s[i] \in DOMAIN next
      /\ s # <<>> => Head(s) = s[1]
  BY <1>1, LenProperties, EmptySeq, ElementOfSeq, HeadTailProperties
<1> QED BY <1>1, <1>2 DEF IsList, ToSet

\* The first node leaves a list.
LEMMA ListPop ==
  ASSUME NEW nil, NEW first, NEW next, nil \notin DOMAIN next, NEW s,
         IsList(s, first, next, nil), first # nil
  PROVE  /\ IsList(Tail(s), next[first], next, nil)
         /\ ToSet(Tail(s)) = ToSet(s) \ {first}
         /\ Len(Tail(s)) = Len(s) - 1
         /\ \A i \in 1 .. Len(s) - 1 : Tail(s)[i] = s[i+1]
<1>1. /\ s \in Seq(DOMAIN next) /\ IsInjective(s) /\ s # <<>> /\ first = s[1] /\ first = Head(s)
      /\ Len(s) \in Nat /\ Len(s) # 0
  BY ListFirst
<1>2. /\ Tail(s) \in Seq(DOMAIN next) /\ IsInjective(Tail(s)) /\ Len(Tail(s)) = Len(s) - 1
      /\ ToSet(Tail(s)) = ToSet(s) \ {first}
  BY <1>1, TailMember
<1>3. \A i \in 1 .. Len(s) - 1 : Tail(s)[i] = s[i+1]
  BY <1>1, HeadTailProperties
<1>4. Tail(s) = <<>> <=> Len(s) = 1
  <2>1. Tail(s) = <<>> <=> Len(Tail(s)) = 0
    BY <1>2, EmptySeq
  <2> QED BY <2>1, <1>1, <1>2
<1>5. /\ next[s[Len(s)]] = nil
      /\ \A i \in 1 .. Len(s) - 1 : next[s[i]] = s[i+1]
  BY <1>1 DEF IsList
<1>6. CASE Len(s) = 1
  <2>1. Tail(s) = <<>> /\ next[first] = nil /\ Len(Tail(s)) = 0
    BY <1>1, <1>2, <1>4, <1>5, <1>6
  <2> QED BY <1>2, <2>1, <1>3 DEF IsList
<1>7. CASE Len(s) > 1
  <2>1. next[first] = Tail(s)[1]
    BY <1>1, <1>3, <1>5, <1>7
  <2>2. Tail(s)[Len(s) - 1] = s[Len(s)]
    BY <1>1, <1>3, <1>7
  <2>3. \A i \in 1 .. Len(s) - 2 : next[Tail(s)[i]] = Tail(s)[i+1]
    <3> TAKE i \in 1 .. Len(s) - 2
    <3>1. i \in 1 .. Len(s) - 1 /\ i + 1 \in 1 .. Len(s) - 1
      BY <1>1, <1>7
    <3> QED BY <3>1, <1>3, <1>5
  <2> QED BY <1>1, <1>2, <1>3, <1>4, <1>5, <1>7, <2>1, <2>2, <2>3 DEF IsList
<1> QED BY <1>1, <1>2, <1>3, <1>6, <1>7

\* A list with n after its i-th node.
Inserted(n, s, i) ==
  [j \in 1 .. Len(s) + 1 |-> IF j <= i THEN s[j] ELSE IF j = i + 1 THEN n ELSE s[j-1]]

LEMMA InsertedIs ==
  ASSUME NEW S, NEW s \in Seq(S), IsInjective(s), NEW n \in S, n \notin ToSet(s),
         NEW i \in 0 .. Len(s)
  PROVE  /\ Inserted(n, s, i) \in Seq(S) /\ Len(Inserted(n, s, i)) = Len(s) + 1
         /\ IsInjective(Inserted(n, s, i)) /\ ToSet(Inserted(n, s, i)) = ToSet(s) \cup {n}
         /\ \A j \in 1 .. Len(s) + 1 : Inserted(n, s, i)[j] =
              IF j <= i THEN s[j] ELSE IF j = i + 1 THEN n ELSE s[j-1]
<1> DEFINE t == Inserted(n, s, i)
<1>1. /\ Len(s) \in Nat /\ DOMAIN s = 1 .. Len(s)
      /\ \A j \in 1 .. Len(s) : s[j] \in S
  BY LenProperties, ElementOfSeq
<1>3. /\ t \in Seq(S) /\ Len(t) = Len(s) + 1 /\ DOMAIN t = 1 .. Len(s) + 1
      /\ \A j \in 1 .. Len(s) + 1 : t[j] =
              IF j <= i THEN s[j] ELSE IF j = i + 1 THEN n ELSE s[j-1]
  <2>1. \A j \in 1 .. Len(s) + 1 :
          (IF j <= i THEN s[j] ELSE IF j = i + 1 THEN n ELSE s[j-1]) \in S
    BY <1>1
  <2>2. t \in [1 .. Len(s) + 1 -> S]
    BY <2>1 DEF Inserted
  <2>3. \A j \in 1 .. Len(s) + 1 : t[j] =
              IF j <= i THEN s[j] ELSE IF j = i + 1 THEN n ELSE s[j-1]
    BY DEF Inserted
  <2> HIDE DEF t
  <2> QED BY <2>2, <2>3, <1>1, IsASeq, LenProperties, SeqDef
<1> HIDE DEF t
<1>4. \A j \in 1 .. Len(s) : s[j] # n /\ s[j] \in ToSet(s)
  BY <1>1 DEF ToSet
<1>5. \A j \in 1 .. i : t[j] = s[j]
  BY <1>1, <1>3
<1>6. t[i+1] = n
  BY <1>1, <1>3
<1>7. \A j \in i + 1 .. Len(s) : t[j+1] = s[j]
  <2> TAKE j \in i + 1 .. Len(s)
  <2>1. j + 1 \in 1 .. Len(s) + 1 /\ ~(j + 1 <= i) /\ j + 1 # i + 1 /\ (j + 1) - 1 = j
    BY <1>1
  <2> QED BY <2>1, <1>3
<1>8. ToSet(t) = ToSet(s) \cup {n}
  <2>1. ToSet(t) \subseteq ToSet(s) \cup {n}
    <3> SUFFICES ASSUME NEW j \in 1 .. Len(s) + 1 PROVE t[j] \in ToSet(s) \cup {n}
      BY <1>3 DEF ToSet
    <3>1. CASE j <= i
      BY <3>1, <1>1, <1>4, <1>5
    <3>2. CASE j = i + 1
      BY <3>2, <1>6
    <3>3. CASE j > i + 1
      <4>1. j - 1 \in i + 1 .. Len(s) /\ j - 1 \in 1 .. Len(s) /\ (j - 1) + 1 = j
        BY <3>3, <1>1
      <4>2. t[j] = s[j-1]
        BY <4>1, <1>7
      <4> QED BY <4>1, <4>2, <1>4
    <3> QED BY <3>1, <3>2, <3>3, <1>1
  <2>2. n \in ToSet(t)
    <3>1. i + 1 \in DOMAIN t
      BY <1>1, <1>3
    <3> QED BY <3>1, <1>6 DEF ToSet
  <2>3. ToSet(s) \subseteq ToSet(t)
    <3> SUFFICES ASSUME NEW j \in 1 .. Len(s) PROVE s[j] \in ToSet(t)
      BY <1>1 DEF ToSet
    <3>1. j \in DOMAIN t /\ j + 1 \in DOMAIN t
      BY <1>1, <1>3
    <3>2. CASE j <= i
      BY <3>1, <3>2, <1>1, <1>5 DEF ToSet
    <3>3. CASE j > i
      <4>1. j \in i + 1 .. Len(s)
        BY <3>3, <1>1
      <4> QED BY <3>1, <4>1, <1>7 DEF ToSet
    <3> QED BY <3>2, <3>3, <1>1
  <2> QED BY <2>1, <2>2, <2>3
<1>9. IsInjective(t)
  <2>1. IsFiniteSet(ToSet(s)) /\ Cardinality(ToSet(s)) = Len(s)
    BY <1>1, InjectiveLength
  <2>2. IsFiniteSet(ToSet(t)) /\ Cardinality(ToSet(t)) = Len(t)
    <3>1. /\ IsFiniteSet(ToSet(s) \cup {n})
          /\ Cardinality(ToSet(s) \cup {n}) = Cardinality(ToSet(s)) + 1
      BY <2>1, FS_AddElement
    <3> QED BY <3>1, <2>1, <1>3, <1>8
  <2>3. t \in Surjection(1 .. Len(t), ToSet(t))
    BY <1>1, <1>3 DEF ToSet, Surjection
  <2>4. IsFiniteSet(1 .. Len(t)) /\ Cardinality(1 .. Len(t)) = Len(t)
    BY <1>1, <1>3, FS_Interval
  <2>5. t \in Injection(1 .. Len(t), ToSet(t))
    BY <2>2, <2>3, <2>4, FS_SurjSameCardinalityImpliesInj
  <2> QED BY <2>5, <1>3 DEF Injection, IsInjective
<1> QED BY <1>3, <1>8, <1>9 DEF t

\* A node that was not on a list becomes its first.
LEMMA ListPush ==
  ASSUME NEW nil, NEW first, NEW next, nil \notin DOMAIN next, NEW s,
         IsList(s, first, next, nil), NEW n \in DOMAIN next, n \notin ToSet(s),
         NEW next2, DOMAIN next2 = DOMAIN next,
         next2[n] = first, \A x \in ToSet(s) : next2[x] = next[x]
  PROVE  IsList(Inserted(n, s, 0), n, next2, nil)
<1> DEFINE t == Inserted(n, s, 0)
<1>1. /\ s \in Seq(DOMAIN next) /\ IsInjective(s) /\ Len(s) \in Nat /\ DOMAIN s = 1 .. Len(s)
      /\ (first = nil <=> s = <<>>) /\ (s = <<>> <=> Len(s) = 0)
      /\ s # <<>> => first = s[1]
  BY ListFirst
<1>2. /\ t \in Seq(DOMAIN next) /\ Len(t) = Len(s) + 1 /\ IsInjective(t)
      /\ \A j \in 1 .. Len(s) + 1 : t[j] =
           IF j <= 0 THEN s[j] ELSE IF j = 0 + 1 THEN n ELSE s[j-1]
  <2>1. 0 \in 0 .. Len(s)
    BY <1>1
  <2> QED BY <1>1, <2>1, InsertedIs
<1> HIDE DEF t
<1>3. t[1] = n
  BY <1>1, <1>2
<1>5. \A i \in 1 .. Len(s) + 1 : i # 1 => i - 1 \in 1 .. Len(s) /\ t[i] = s[i-1]
  BY <1>1, <1>2
<1>6. \A i \in 1 .. Len(s) : t[i+1] = s[i]
  BY <1>1, <1>5
<1>8. /\ DOMAIN next2 = DOMAIN next /\ next2[n] = first
      /\ \A i \in 1 .. Len(s) : next2[s[i]] = next[s[i]]
  BY <1>1 DEF ToSet
<1>9. next2[t[Len(s) + 1]] = nil
  <2>1. CASE Len(s) = 0
    BY <2>1, <1>1, <1>3, <1>8
  <2>2. CASE Len(s) # 0
    <3>1. t[Len(s) + 1] = s[Len(s)] /\ Len(s) \in 1 .. Len(s)
      BY <2>2, <1>1, <1>6
    <3> QED BY <3>1, <2>2, <1>1, <1>8 DEF IsList
  <2> QED BY <2>1, <2>2
<1>10. ASSUME NEW i \in 1 .. Len(s) PROVE next2[t[i]] = t[i+1]
  <2>1. CASE i = 1
    BY <2>1, <1>1, <1>3, <1>6, <1>8
  <2>2. CASE i # 1
    <3>1. /\ i - 1 \in 1 .. Len(s) - 1 /\ i - 1 \in 1 .. Len(s) /\ (i - 1) + 1 = i
          /\ t[i] = s[i-1] /\ t[i+1] = s[i]
      BY <2>2, <1>1, <1>5, <1>6
    <3>2. next[s[i-1]] = s[(i-1)+1]
      BY <3>1 DEF IsList
    <3> QED BY <3>1, <3>2, <1>8
  <2> QED BY <2>1, <2>2
<1>11. t # <<>>
  BY <1>1, <1>2, EmptySeq
<1> QED BY <1>1, <1>2, <1>3, <1>8, <1>9, <1>10, <1>11 DEF IsList, t

\* A node is inserted after the i-th of a list.
LEMMA ListInsert ==
  ASSUME NEW nil, NEW first, NEW next, nil \notin DOMAIN next, NEW s,
         IsList(s, first, next, nil), NEW i \in 1 .. Len(s),
         NEW n \in DOMAIN next, n \notin ToSet(s),
         NEW next2, DOMAIN next2 = DOMAIN next,
         next2[n] = next[s[i]], next2[s[i]] = n,
         \A x \in ToSet(s) \ {s[i]} : next2[x] = next[x]
  PROVE  IsList(Inserted(n, s, i), first, next2, nil)
<1> DEFINE t == Inserted(n, s, i)
<1>1. /\ s \in Seq(DOMAIN next) /\ IsInjective(s) /\ Len(s) \in Nat /\ DOMAIN s = 1 .. Len(s)
      /\ Len(s) # 0 /\ s # <<>> /\ first = s[1]
      /\ \A j \in 1 .. Len(s) : s[j] \in DOMAIN next
  BY ListFirst, ElementOfSeq
<1>0. Len(s) \in Nat /\ i \in Nat /\ 1 <= i /\ i <= Len(s)
  BY <1>1
<1>2. /\ next[s[Len(s)]] = nil
      /\ \A j \in 1 .. Len(s) - 1 : next[s[j]] = s[j+1]
  BY <1>1 DEF IsList
<1>3. /\ t \in Seq(DOMAIN next) /\ Len(t) = Len(s) + 1 /\ IsInjective(t)
      /\ \A j \in 1 .. Len(s) + 1 : t[j] =
              IF j <= i THEN s[j] ELSE IF j = i + 1 THEN n ELSE s[j-1]
  <2>1. i \in 0 .. Len(s)
    BY <1>0
  <2> QED BY <1>1, <2>1, InsertedIs
<1> HIDE DEF t
<1>4. \A j \in 1 .. Len(s) : s[j] \in ToSet(s)
  BY <1>1 DEF ToSet
<1>5. \A j \in 1 .. i : t[j] = s[j]
  BY <1>1, <1>3
<1>6. t[i+1] = n
  BY <1>1, <1>3
<1>7. \A j \in i + 1 .. Len(s) : t[j+1] = s[j]
  <2> TAKE j \in i + 1 .. Len(s)
  <2>1. j + 1 \in 1 .. Len(s) + 1 /\ ~(j + 1 <= i) /\ j + 1 # i + 1 /\ (j + 1) - 1 = j
    BY <1>1
  <2> QED BY <2>1, <1>3
<1>10. \A j \in 1 .. Len(s) : j # i => next2[s[j]] = next[s[j]]
  <2> TAKE j \in 1 .. Len(s)
  <2> HAVE j # i
  <2>1. s[j] \in ToSet(s) \ {s[i]}
    BY <1>1, <1>4 DEF IsInjective
  <2> QED BY <2>1
<1>11. t # <<>> /\ first = t[1]
  BY <1>1, <1>3, <1>5, EmptySeq
<1>12. next2[t[Len(s) + 1]] = nil
  <2>1. CASE i = Len(s)
    BY <2>1, <1>1, <1>2, <1>6
  <2>2. CASE i # Len(s)
    <3>1. Len(s) \in i + 1 .. Len(s)
      BY <2>2, <1>1
    <3>2. t[Len(s) + 1] = s[Len(s)]
      BY <3>1, <1>7
    <3>3. next2[s[Len(s)]] = next[s[Len(s)]]
      <4>1. Len(s) \in 1 .. Len(s)
        BY <1>0
      <4> QED BY <4>1, <2>2, <1>10
    <3> QED BY <3>2, <3>3, <1>2
  <2> QED BY <2>1, <2>2
<1>13. ASSUME NEW j \in 1 .. Len(s) PROVE next2[t[j]] = t[j+1]
  <2>1. CASE j < i
    <3>1. j \in 1 .. i /\ j + 1 \in 1 .. i /\ j \in 1 .. Len(s) - 1 /\ j # i
      BY <2>1, <1>1
    <3> QED BY <3>1, <1>2, <1>5, <1>10
  <2>2. CASE j = i
    BY <2>2, <1>1, <1>5, <1>6
  <2>3. CASE j = i + 1
    <3>1. i \in 1 .. Len(s) - 1 /\ j \in i + 1 .. Len(s)
      BY <2>3, <1>1
    <3> QED BY <3>1, <2>3, <1>2, <1>6, <1>7
  <2>4. CASE j > i + 1
    <3>1. /\ j - 1 \in i + 1 .. Len(s) /\ j \in i + 1 .. Len(s) /\ (j - 1) + 1 = j
          /\ j - 1 \in 1 .. Len(s) - 1 /\ j - 1 \in 1 .. Len(s) /\ j - 1 # i
      BY <2>4, <1>1
    <3>2. t[j] = s[j-1] /\ t[j+1] = s[j]
      BY <3>1, <1>7
    <3>3. next[s[j-1]] = s[j]
      BY <3>1, <1>2
    <3> QED BY <3>1, <3>2, <3>3, <1>10
  <2> QED BY <2>1, <2>2, <2>3, <2>4, <1>1
<1> QED BY <1>1, <1>3, <1>11, <1>12, <1>13 DEF IsList, t

\* A node that is not the first leaves a list.
LEMMA ListRemove ==
  ASSUME NEW nil, NEW first, NEW next, nil \notin DOMAIN next, NEW s,
         IsList(s, first, next, nil), NEW k \in 2 .. Len(s),
         NEW next2, DOMAIN next2 = DOMAIN next, next2[s[k-1]] = next[s[k]],
         \A x \in ToSet(s) \ {s[k-1], s[k]} : next2[x] = next[x]
  PROVE  IsList(RemoveFirst(s, s[k]), first, next2, nil)
<1> DEFINE t == RemoveFirst(s, s[k])
<1>1. /\ s \in Seq(DOMAIN next) /\ IsInjective(s) /\ Len(s) \in Nat /\ DOMAIN s = 1 .. Len(s)
      /\ Len(s) # 0 /\ s # <<>> /\ first = s[1] /\ k \in 1 .. Len(s) /\ k - 1 \in 1 .. Len(s)
  BY ListFirst
<1>0. Len(s) \in Nat /\ k \in Nat /\ 2 <= k /\ k <= Len(s)
  BY <1>1
<1>2. /\ next[s[Len(s)]] = nil
      /\ \A j \in 1 .. Len(s) - 1 : next[s[j]] = s[j+1]
  BY <1>1 DEF IsList
<1>3. /\ t \in Seq(DOMAIN next) /\ Len(t) = Len(s) - 1
      /\ \A j \in 1 .. Len(s) - 1 : t[j] = IF j < k THEN s[j] ELSE s[j+1]
  <2>1. s \in Seq(DOMAIN next) /\ IsInjective(s) /\ k \in 1 .. Len(s)
    BY <1>1
  <2> HIDE DEF t
  <2>2. \A x : x = s[k] =>
          /\ RemoveFirst(s, x) \in Seq(DOMAIN next) /\ Len(RemoveFirst(s, x)) = Len(s) - 1
          /\ \A j \in 1 .. Len(s) - 1 : RemoveFirst(s, x)[j] = IF j < k THEN s[j] ELSE s[j+1]
    BY <2>1, RemoveForm
  <2> QED BY <2>2 DEF t
<1>4. IsInjective(t)
  BY <1>1, RemoveMember
<1> HIDE DEF t
<1>5. ASSUME NEW j \in 1 .. Len(s), j # k - 1, j # k
      PROVE  next2[s[j]] = next[s[j]]
  <2>1. s[j] \in ToSet(s) /\ s[j] # s[k-1] /\ s[j] # s[k]
    BY <1>1, <1>5 DEF ToSet, IsInjective
  <2> QED BY <2>1
<1>6. \A j \in 1 .. k - 1 : t[j] = s[j]
  BY <1>1, <1>3
<1>7. \A j \in k .. Len(s) - 1 : t[j] = s[j+1]
  <2> TAKE j \in k .. Len(s) - 1
  <2>1. j \in 1 .. Len(s) - 1 /\ ~(j < k)
    BY <1>1
  <2> QED BY <2>1, <1>3
<1>8. t # <<>> /\ first = t[1]
  <2>1. 1 \in 1 .. k - 1 /\ Len(t) # 0
    BY <1>1, <1>3
  <2> QED BY <2>1, <1>1, <1>3, <1>6, EmptySeq
<1>9. next2[t[Len(s) - 1]] = nil
  <2>1. CASE k = Len(s)
    BY <2>1, <1>1, <1>2, <1>6
  <2>2. CASE k # Len(s)
    <3>1. Len(s) - 1 \in k .. Len(s) - 1 /\ Len(s) \in 1 .. Len(s) /\ Len(s) # k - 1
          /\ (Len(s) - 1) + 1 = Len(s)
      <4>1. k < Len(s)
        BY <2>2, <1>0
      <4> QED BY <4>1, <1>0
    <3>2. t[Len(s) - 1] = s[Len(s)]
      BY <3>1, <1>7
    <3>3. next2[s[Len(s)]] = next[s[Len(s)]]
      BY <3>1, <2>2, <1>5
    <3> QED BY <3>2, <3>3, <1>2
  <2> QED BY <2>1, <2>2
<1>10. ASSUME NEW j \in 1 .. Len(s) - 2 PROVE next2[t[j]] = t[j+1]
  <2>1. CASE j < k - 1
    <3>1. /\ j \in 1 .. k - 1 /\ j + 1 \in 1 .. k - 1 /\ j \in 1 .. Len(s) - 1
          /\ j \in 1 .. Len(s) /\ j # k - 1 /\ j # k
      BY <2>1, <1>1
    <3> QED BY <3>1, <1>2, <1>5, <1>6
  <2>2. CASE j = k - 1
    <3>1. j \in 1 .. k - 1 /\ j + 1 = k /\ k \in k .. Len(s) - 1 /\ k \in 1 .. Len(s) - 1
      BY <2>2, <1>1
    <3>2. t[j] = s[k-1] /\ t[j+1] = s[k+1] /\ next[s[k]] = s[k+1]
      BY <3>1, <2>2, <1>2, <1>6, <1>7
    <3> QED BY <3>2
  <2>3. CASE j >= k
    <3>1. /\ j \in k .. Len(s) - 1 /\ j + 1 \in k .. Len(s) - 1 /\ j + 1 \in 1 .. Len(s) - 1
          /\ j + 1 \in 1 .. Len(s) /\ j + 1 # k - 1 /\ j + 1 # k
      BY <2>3, <1>1
    <3>2. t[j] = s[j+1] /\ t[j+1] = s[(j+1)+1] /\ next[s[j+1]] = s[(j+1)+1]
      BY <3>1, <1>2, <1>7
    <3> QED BY <3>1, <3>2, <1>5
  <2> QED BY <2>1, <2>2, <2>3, <1>1
<1>11. Len(t) - 1 = Len(s) - 2
  BY <1>1, <1>3
<1>12. IsList(t, first, next2, nil)
  BY <1>3, <1>4, <1>8, <1>9, <1>10, <1>11 DEF IsList
<1> QED BY <1>12 DEF t
=============================================================================
