------------------------------ MODULE AslProofs ------------------------------
(***************************************************************************)
(* Proofs about module Asl, for any number of pcbs, descriptors and        *)
(* addresses: the sorted list and the free list as chains of pointers, the *)
(* search that stops at the first address not below the one wanted, and    *)
(* the queues that the nucleus believes it has.                            *)
(***************************************************************************)
EXTENDS Asl, ListLemmas

Active == ToSet(Asl) \ {Head0, Tail0}

\* The two chains of descriptors; addresses grow along the first, from the dummy
\* head to the dummy tail.
Chains ==
  /\ IsList(Asl, Head0, s_next, NULL) /\ IsList(FreeList, semdFree_h, s_next, NULL)
  /\ ToSet(Asl) \cap ToSet(FreeList) = {} /\ ToSet(Asl) \cup ToSet(FreeList) = Semd
  /\ Asl # <<>> /\ Asl[Len(Asl)] = Tail0
  /\ \A i, j \in 1 .. Len(Asl) : i < j => s_semAdd[Asl[i]] < s_semAdd[Asl[j]]
  /\ s_semAdd[Head0] = 0 /\ s_semAdd[Tail0] = MAXINT
  /\ \A s \in Active : s_semAdd[s] \in Addr

\* An active descriptor has waiters, and its waiters know its address.
Waiters ==
  /\ s_procQ[Head0] = <<>> /\ s_procQ[Tail0] = <<>>
  /\ \A s \in Active :
       /\ s_procQ[s] # <<>> /\ IsInjective(s_procQ[s])
       /\ \A p \in ToSet(s_procQ[s]) : p_semAdd[p] = s_semAdd[s]

AslInv == TypeOK /\ Chains /\ Waiters

-----------------------------------------------------------------------------
(* Descriptors and addresses. *)

LEMMA Descriptors ==
  /\ IsFiniteSet(Semd) /\ Cardinality(Semd) = MAXSEMD + 2 /\ NULL \notin Semd /\ Semd \subseteq Nat
  /\ Head0 \in Semd /\ Tail0 \in Semd /\ Head0 # Tail0 /\ 1 \in Semd
<1>1. MAXSEMD \in Nat \ {0}
  BY AslAssumption
<1>2. Cardinality(0 .. MAXSEMD + 1) = MAXSEMD + 2 /\ IsFiniteSet(0 .. MAXSEMD + 1)
  BY <1>1, FS_Interval
<1>. QED  BY <1>1, <1>2, AslAssumption DEF Semd, Head0, Tail0

\* The dummy tail is behind every address.
LEMMA BelowTail ==
  ASSUME NEW a \in Addr
  PROVE  a \in Nat /\ a > 0 /\ MAXINT \in Int /\ a < MAXINT
<1>1. Addr \subseteq Int /\ IsFiniteSet(Addr) /\ a \in Nat /\ a > 0
  BY AslAssumption
<1>2. Max(Addr) \in Addr /\ a <= Max(Addr)
  BY <1>1, Greatest
<1>3. PICK m \in Int : m = Max(Addr) /\ a <= m
  BY <1>1, <1>2
<1>4. MAXINT = m + 1
  BY <1>3 DEF MAXINT
<1>. QED  BY <1>1, <1>3, <1>4

LEMMA ChainFacts ==
  ASSUME TypeOK, Chains
  PROVE  /\ Asl \in Seq(Semd) /\ IsInjective(Asl) /\ Len(Asl) \in Nat /\ DOMAIN Asl = 1 .. Len(Asl)
         /\ Len(Asl) >= 2 /\ Asl[1] = Head0 /\ Asl[Len(Asl)] = Tail0
         /\ FreeList \in Seq(Semd) /\ IsInjective(FreeList)
         /\ \A i \in 1 .. Len(Asl) : Asl[i] \in Semd /\ (i < Len(Asl) => s_next[Asl[i]] = Asl[i+1])
         /\ \A i \in 2 .. Len(Asl) - 1 : Asl[i] \in Active
         /\ ToSet(Asl) = Active \cup {Head0, Tail0} /\ Active \subseteq Semd
<1>1. DOMAIN s_next = Semd /\ NULL \notin DOMAIN s_next
  BY Descriptors DEF TypeOK
<1>2. /\ Asl \in Seq(Semd) /\ IsInjective(Asl) /\ Len(Asl) \in Nat /\ DOMAIN Asl = 1 .. Len(Asl)
      /\ ToSet(Asl) \subseteq Semd /\ Asl[1] = Head0 /\ Asl # <<>> /\ Len(Asl) # 0
  <2>1. IsList(Asl, Head0, s_next, NULL) /\ Head0 # NULL /\ Asl # <<>>
    BY Descriptors DEF Chains
  <2>. QED  BY <1>1, <2>1, ListFirst
<1>3. FreeList \in Seq(Semd) /\ IsInjective(FreeList)
  <2>1. IsList(FreeList, semdFree_h, s_next, NULL)
    BY DEF Chains
  <2>. QED  BY <1>1, <2>1, ListFirst
<1>4. Asl[Len(Asl)] = Tail0
  BY DEF Chains
<1>5. Len(Asl) >= 2
  BY <1>2, <1>4, Descriptors
<1>6. \A i \in 1 .. Len(Asl) : Asl[i] \in Semd /\ Asl[i] \in ToSet(Asl)
  BY <1>2 DEF ToSet
<1>7. \A i \in 1 .. Len(Asl) : i < Len(Asl) => s_next[Asl[i]] = Asl[i+1]
  <2>1. \A i \in 1 .. Len(Asl) - 1 : s_next[Asl[i]] = Asl[i+1]
    BY DEF Chains, IsList
  <2>. QED  BY <1>2, <2>1
<1>8. \A i \in 2 .. Len(Asl) - 1 : Asl[i] \in Active
  <2>. SUFFICES ASSUME NEW i \in 2 .. Len(Asl) - 1
                PROVE  Asl[i] # Head0 /\ Asl[i] # Tail0
    BY <1>2, <1>6 DEF Active
  <2>1. PICK n \in Nat : n = Len(Asl) /\ n >= 2
    BY <1>2, <1>5
  <2>2. i \in 1 .. n /\ 1 \in 1 .. n /\ n \in 1 .. n /\ i # 1 /\ i # n
    BY <2>1
  <2>. QED  BY <1>2, <1>4, <2>1, <2>2 DEF IsInjective
<1>9. ToSet(Asl) = Active \cup {Head0, Tail0}
  <2>1. 1 \in 1 .. Len(Asl) /\ Len(Asl) \in 1 .. Len(Asl)
    BY <1>2, <1>5
  <2>2. Head0 \in ToSet(Asl) /\ Tail0 \in ToSet(Asl)
    BY <1>2, <1>4, <1>6, <2>1
  <2>. QED  BY <2>2 DEF Active
<1>. QED  BY <1>2, <1>3, <1>4, <1>5, <1>6, <1>7, <1>8, <1>9 DEF Active

\* No two descriptors of the list have one address.
LEMMA OneDescriptor ==
  ASSUME TypeOK, Chains, NEW s \in ToSet(Asl), NEW t \in ToSet(Asl), s_semAdd[s] = s_semAdd[t]
  PROVE  s = t
<1>1. Len(Asl) \in Nat /\ DOMAIN Asl = 1 .. Len(Asl)
  BY ChainFacts
<1>2. PICK i \in 1 .. Len(Asl), j \in 1 .. Len(Asl) : s = Asl[i] /\ t = Asl[j]
  BY <1>1 DEF ToSet
<1>3. s_semAdd[s] \in Nat /\ s_semAdd[t] \in Nat
  BY ChainFacts DEF TypeOK, Active, Head0, Tail0, Semd, Chains
<1>4. ~(i < j) /\ ~(j < i)
  BY <1>2, <1>3 DEF Chains
<1>. QED  BY <1>2, <1>4

\* Where the loops over prev stop.
LEMMA LastBeforeIs ==
  ASSUME TypeOK, Chains, NEW a \in Addr
  PROVE  \E k \in 1 .. Len(Asl) - 1 :
           /\ LastBefore(a) = Asl[k] /\ s_next[Asl[k]] = Asl[k+1]
           /\ \A i \in 1 .. k : s_semAdd[Asl[i]] < a
           /\ \A i \in k + 1 .. Len(Asl) : s_semAdd[Asl[i]] >= a
<1>1. /\ Len(Asl) \in Nat /\ Len(Asl) >= 2 /\ DOMAIN Asl = 1 .. Len(Asl)
      /\ Asl[1] = Head0 /\ Asl[Len(Asl)] = Tail0 /\ \A i \in 1 .. Len(Asl) : Asl[i] \in Semd
  BY ChainFacts
<1>2. PICK add : add = [i \in 1 .. Len(Asl) |-> s_semAdd[Asl[i]]]
  OBVIOUS
<1>3. /\ \A i \in 1 .. Len(Asl) : add[i] \in Nat /\ add[i] = s_semAdd[Asl[i]]
      /\ add[1] < a /\ a < add[Len(Asl)] /\ a \in Nat
      /\ \A i, j \in 1 .. Len(Asl) : i < j => add[i] < add[j]
  BY <1>1, <1>2, BelowTail DEF TypeOK, Chains
<1>4. PICK I : I = {i \in 1 .. Len(Asl) : \A j \in 2 .. i : add[j] < a}
  OBVIOUS
<1>5. I \subseteq Int /\ 1 \in I /\ IsFiniteSet(I)
  <2>1. I \subseteq 1 .. Len(Asl) /\ IsFiniteSet(1 .. Len(Asl))
    BY <1>1, <1>4, FS_Interval
  <2>. QED  BY <1>1, <1>4, <2>1, FS_Subset
<1>6. PICK k \in I : k = Max(I) /\ \A i \in I : i <= k
  BY <1>5, Greatest
<1>7. k \in 1 .. Len(Asl) - 1 /\ \A i \in 1 .. k : add[i] < a
  <2>1. PICK n \in Nat : n = Len(Asl) /\ n >= 2
    BY <1>1
  <2>2. k \in 1 .. n /\ \A j \in 2 .. k : add[j] < a
    BY <1>4, <2>1
  <2>3. \A i \in 1 .. k : add[i] < a
    BY <1>3, <2>2
  <2>4. k # n
    BY <1>3, <2>1, <2>3
  <2>. QED  BY <2>1, <2>2, <2>3, <2>4
<1>8. add[k+1] >= a
  <2>. SUFFICES ASSUME add[k+1] < a
                PROVE  FALSE
    BY <1>1, <1>3, <1>7
  <2>1. k + 1 \in 1 .. Len(Asl) /\ \A j \in 2 .. k + 1 : add[j] < a
    BY <1>1, <1>7
  <2>2. k + 1 \in I
    BY <1>4, <2>1
  <2>. QED  BY <1>6, <1>7, <2>2
<1>9. \A i \in k + 1 .. Len(Asl) : add[i] >= a
  BY <1>1, <1>3, <1>7, <1>8
<1>10. LastBefore(a) = Asl[k]
  <2>1. I = {i \in DOMAIN Asl : \A j \in 2 .. i : s_semAdd[Asl[j]] < a}
    <3>1. ASSUME NEW i \in 1 .. Len(Asl)
          PROVE  (\A j \in 2 .. i : add[j] < a) <=> (\A j \in 2 .. i : s_semAdd[Asl[j]] < a)
      BY <1>1, <1>3
    <3>. QED  BY <1>1, <1>4, <3>1
  <2>. QED  BY <1>6, <2>1 DEF LastBefore
<1>11. \A i \in 1 .. k : s_semAdd[Asl[i]] < a
  BY <1>1, <1>3, <1>7
<1>12. \A i \in k + 1 .. Len(Asl) : s_semAdd[Asl[i]] >= a
  BY <1>1, <1>3, <1>7, <1>9
<1>13. s_next[Asl[k]] = Asl[k+1]
  BY <1>1, <1>7, ChainFacts
<1>. QED  BY <1>7, <1>10, <1>11, <1>12, <1>13

\* The search misses no descriptor and returns no other.
LEMMA FindSemd ==
  ASSUME TypeOK, Chains, NEW a \in Addr
  PROVE  \/ findSemd(a) = NULL /\ \A s \in Active : s_semAdd[s] # a
         \/ findSemd(a) \in Active /\ s_semAdd[findSemd(a)] = a
<1>1. PICK k \in 1 .. Len(Asl) - 1 :
        /\ LastBefore(a) = Asl[k] /\ s_next[Asl[k]] = Asl[k+1]
        /\ \A i \in 1 .. k : s_semAdd[Asl[i]] < a
        /\ \A i \in k + 1 .. Len(Asl) : s_semAdd[Asl[i]] >= a
  BY LastBeforeIs
<1>2. /\ Len(Asl) \in Nat /\ Len(Asl) >= 2 /\ DOMAIN Asl = 1 .. Len(Asl)
      /\ Asl[Len(Asl)] = Tail0 /\ \A i \in 1 .. Len(Asl) : Asl[i] \in Semd
      /\ \A i \in 2 .. Len(Asl) - 1 : Asl[i] \in Active
  BY ChainFacts
<1>3. PICK s : s = Asl[k+1]
  OBVIOUS
<1>4. s # NULL /\ s \in Semd /\ findSemd(a) = IF s_semAdd[s] = a THEN s ELSE NULL
  BY <1>1, <1>2, <1>3, Descriptors DEF findSemd
<1>5. CASE s_semAdd[s] = a
  <2>1. s # Tail0
    BY <1>5, BelowTail DEF Chains
  <2>2. k + 1 \in 2 .. Len(Asl) - 1
    BY <1>2, <1>3, <2>1
  <2>. QED  BY <1>2, <1>3, <1>4, <1>5, <2>2
<1>6. CASE s_semAdd[s] # a
  <2>. SUFFICES ASSUME NEW t \in Active, s_semAdd[t] = a
                PROVE  FALSE
    BY <1>4, <1>6
  <2>1. PICK i \in 1 .. Len(Asl) : t = Asl[i]
    BY <1>2 DEF Active, ToSet
  <2>2. i > k + 1
    <3>1. a \in Nat
      BY BelowTail
    <3>2. ~(i <= k)
      BY <1>1, <2>1, <3>1
    <3>. QED  BY <1>3, <1>6, <2>1, <3>2
  <2>3. s_semAdd[Asl[k+1]] < s_semAdd[Asl[i]]
    BY <1>2, <2>2 DEF Chains
  <2>4. s_semAdd[Asl[k+1]] >= a /\ s_semAdd[Asl[k+1]] \in Nat
    BY <1>1, <1>2, <1>3, <1>4 DEF TypeOK
  <2>. QED  BY <2>1, <2>3, <2>4, BelowTail
<1>. QED  BY <1>5, <1>6

-----------------------------------------------------------------------------
(* What the operations do to the chains. *)

LEMMA ChainsKept ==
  ASSUME TypeOK, Chains, s_next' = s_next, s_semAdd' = s_semAdd, semdFree_h' = semdFree_h
  PROVE  Chains' /\ Active' = Active
<1>1. Asl' = Asl /\ FreeList' = FreeList
  BY DEF Asl, FreeList
<1>2. Active' = Active
  BY <1>1 DEF Active
<1>. QED  BY <1>1, <1>2 DEF Chains

\* insertBlocked takes the first free descriptor and puts it where its address goes.
LEMMA ChainsGrow ==
  ASSUME TypeOK, Chains, NEW a \in Addr, findSemd(a) = NULL, semdFree_h # NULL,
         semdFree_h' = s_next[semdFree_h],
         s_semAdd' = [s_semAdd EXCEPT ![semdFree_h] = a],
         s_next' = [s_next EXCEPT ![semdFree_h] = s_next[LastBefore(a)], ![LastBefore(a)] = semdFree_h]
  PROVE  /\ Chains' /\ Active' = Active \cup {semdFree_h}
         /\ semdFree_h \in Semd /\ semdFree_h \notin Active \cup {Head0, Tail0}
         /\ s_next' \in [Semd -> Semd \cup {NULL}]
<1>1. PICK f : f = semdFree_h
  OBVIOUS
<1>2. /\ DOMAIN s_next = Semd /\ NULL \notin DOMAIN s_next /\ f \in Semd
      /\ s_next \in [Semd -> Semd \cup {NULL}] /\ s_semAdd \in [Semd -> Nat]
      /\ IsFiniteSet(DOMAIN s_next)
  BY <1>1, Descriptors DEF TypeOK
<1>3. /\ IsList(Asl, Head0, s_next, NULL) /\ IsList(FreeList, f, s_next, NULL)
      /\ f \in ToSet(FreeList) /\ FreeList \in Seq(Semd)
      /\ f \notin ToSet(Asl)
  <2>1. IsList(Asl, Head0, s_next, NULL) /\ IsList(FreeList, f, s_next, NULL)
    BY <1>1 DEF Chains
  <2>2. f \in ToSet(FreeList)
    BY <1>1, <1>2, <2>1, ListFirst
  <2>. QED  BY <2>1, <2>2, ChainFacts DEF Chains
<1>0. PICK n \in Nat : n = Len(Asl)
  BY ChainFacts
<1>4. PICK k \in 1 .. n - 1 :
        /\ n = Len(Asl) /\ LastBefore(a) = Asl[k] /\ s_next[Asl[k]] = Asl[k+1]
        /\ \A i \in 1 .. k : s_semAdd[Asl[i]] < a
        /\ \A i \in k + 1 .. n : s_semAdd[Asl[i]] >= a
  BY <1>0, LastBeforeIs
<1>5. /\ Asl \in Seq(Semd) /\ IsInjective(Asl) /\ DOMAIN Asl = 1 .. n /\ n >= 2
      /\ Asl[1] = Head0 /\ Asl[n] = Tail0
      /\ \A i \in 1 .. n : Asl[i] \in Semd /\ Asl[i] \in ToSet(Asl)
      /\ \A i \in 2 .. n - 1 : Asl[i] \in Active
      /\ ToSet(Asl) = Active \cup {Head0, Tail0} /\ ToSet(Asl) \subseteq Semd
  BY <1>4, ChainFacts DEF ToSet
<1>p. PICK b, next2 : b = Asl[k] /\ next2 = s_next'
  OBVIOUS
<1>6. /\ next2[f] = s_next[b] /\ next2[b] = f /\ DOMAIN next2 = Semd
      /\ \A x \in Semd \ {f, b} : next2[x] = s_next[x]
      /\ next2 \in [Semd -> Semd \cup {NULL}]
      /\ b # f /\ b \in ToSet(Asl)
  <2>1. next2 = [s_next EXCEPT ![f] = s_next[b], ![b] = f]
    BY <1>1, <1>4, <1>p
  <2>2. b # f /\ b \in ToSet(Asl) /\ b \in Semd
    BY <1>3, <1>4, <1>5, <1>p
  <2>3. s_next \in [Semd -> Semd \cup {NULL}] /\ f \in Semd
    BY <1>2
  <2>. QED  BY <2>1, <2>2, <2>3
<1>7. PICK t : t = Inserted(f, Asl, k)
  OBVIOUS
<1>8. /\ t \in Seq(Semd) /\ Len(t) = n + 1 /\ ToSet(t) = ToSet(Asl) \cup {f} /\ DOMAIN t = 1 .. n + 1
      /\ \A j \in 1 .. n + 1 : t[j] = IF j <= k THEN Asl[j] ELSE IF j = k + 1 THEN f ELSE Asl[j-1]
  <2>1. k \in 0 .. Len(Asl)
    BY <1>4
  <2>2. /\ t \in Seq(Semd) /\ Len(t) = Len(Asl) + 1 /\ ToSet(t) = ToSet(Asl) \cup {f}
        /\ \A j \in 1 .. Len(Asl) + 1 : t[j] = IF j <= k THEN Asl[j] ELSE IF j = k + 1 THEN f ELSE Asl[j-1]
    BY <1>2, <1>3, <1>5, <1>7, <2>1, InsertedIs
  <2>. QED  BY <1>4, <2>2, LenProperties
<1>9. Asl' = t /\ IsList(t, Head0, next2, NULL)
  <2>1. k \in 1 .. Len(Asl) /\ DOMAIN next2 = DOMAIN s_next
    BY <1>2, <1>4, <1>6
  <2>2. \A x \in ToSet(Asl) \ {Asl[k]} : next2[x] = s_next[x]
    BY <1>3, <1>5, <1>6, <1>p
  <2>3. next2[f] = s_next[Asl[k]] /\ next2[Asl[k]] = f
    BY <1>6, <1>p
  <2>4. IsList(Inserted(f, Asl, k), Head0, next2, NULL)
    BY <1>2, <1>3, <2>1, <2>2, <2>3, ListInsert
  <2>5. IsList(t, Head0, next2, NULL)
    BY <1>7, <2>4
  <2>6. IsFiniteSet(DOMAIN next2) /\ NULL \notin DOMAIN next2
    BY <1>2, <2>1
  <2>7. Walk(Head0, next2, NULL) = t
    BY <2>5, <2>6, WalkOfList
  <2>. QED  BY <1>p, <2>5, <2>7 DEF Asl, Head0
<1>10. /\ FreeList' = Tail(FreeList) /\ IsList(Tail(FreeList), s_next[f], next2, NULL)
       /\ ToSet(FreeList') = ToSet(FreeList) \ {f}
  <2>1. /\ IsList(Tail(FreeList), s_next[f], s_next, NULL)
        /\ ToSet(Tail(FreeList)) = ToSet(FreeList) \ {f}
    BY <1>1, <1>2, <1>3, ListPop
  <2>2. \A x \in ToSet(Tail(FreeList)) : next2[x] = s_next[x]
    <3>1. ToSet(FreeList) \subseteq Semd /\ b \notin ToSet(FreeList)
      BY <1>6 DEF Chains
    <3>. QED  BY <1>6, <2>1, <3>1
  <2>3. IsList(Tail(FreeList), s_next[f], next2, NULL)
    <3>1. DOMAIN next2 = DOMAIN s_next
      BY <1>2, <1>6
    <3>2. IsList(Tail(FreeList), s_next[f], s_next, NULL)
      BY <2>1
    <3>. QED  BY <2>2, <3>1, <3>2, ListElsewhere
  <2>4. semdFree_h' = s_next[f]
    BY <1>1
  <2>5. Walk(s_next[f], next2, NULL) = Tail(FreeList)
    <3>1. IsFiniteSet(DOMAIN next2) /\ NULL \notin DOMAIN next2
      BY <1>2, <1>6
    <3>. QED  BY <2>3, <3>1, WalkOfList
  <2>6. FreeList' = Tail(FreeList)
    BY <1>p, <2>4, <2>5 DEF FreeList
  <2>. QED  BY <2>1, <2>3, <2>6
<1>11. f \notin {Head0, Tail0} /\ f \notin Active /\ Active' = Active \cup {f}
  <2>1. f \notin {Head0, Tail0} /\ f \notin Active
    BY <1>3, <1>5
  <2>. QED  BY <1>5, <1>8, <1>9, <2>1 DEF Active
<1>12. s_semAdd'[f] = a /\ \A x \in Semd \ {f} : s_semAdd'[x] = s_semAdd[x]
  BY <1>1, <1>2
<1>13. \A i \in k + 1 .. n : s_semAdd[Asl[i]] > a
  <2>. SUFFICES ASSUME NEW i \in k + 1 .. n
                PROVE  s_semAdd[Asl[i]] > a
    OBVIOUS
  <2>1. s_semAdd[Asl[i]] >= a /\ s_semAdd[Asl[i]] \in Nat /\ a \in Nat
    BY <1>2, <1>4, <1>5, BelowTail
  <2>2. CASE i = n
    BY <1>5, <2>2, BelowTail DEF Chains
  <2>3. CASE i # n
    <3>1. Asl[i] \in Active
      BY <1>4, <1>5, <2>3
    <3>2. findSemd(a) \notin Active
      BY Descriptors, ChainFacts
    <3>3. s_semAdd[Asl[i]] # a
      BY <3>1, <3>2, FindSemd
    <3>. QED  BY <2>1, <3>3
  <2>. QED  BY <2>2, <2>3
<1>14. \A i, j \in 1 .. n + 1 : i < j => s_semAdd'[t[i]] < s_semAdd'[t[j]]
  <2>1. PICK v : v = [i \in 1 .. n |-> s_semAdd[Asl[i]]]
    OBVIOUS
  <2>2. PICK w : w = [i \in 1 .. n + 1 |-> s_semAdd'[t[i]]]
    OBVIOUS
  <2>3. /\ \A i \in 1 .. n : v[i] \in Nat
        /\ \A i, j \in 1 .. n : i < j => v[i] < v[j]
        /\ \A i \in 1 .. k : v[i] < a
        /\ \A i \in k + 1 .. n : a < v[i]
    <3>1. \A i \in 1 .. n : v[i] = s_semAdd[Asl[i]] /\ v[i] \in Nat
      BY <1>2, <1>5, <2>1
    <3>2. \A i, j \in 1 .. n : i < j => v[i] < v[j]
      BY <1>4, <3>1 DEF Chains
    <3>3. \A i \in 1 .. k : v[i] < a
      BY <1>4, <3>1
    <3>4. \A i \in k + 1 .. n : a < v[i]
      BY <1>2, <1>4, <1>5, <1>13, <3>1, BelowTail
    <3>. QED  BY <3>1, <3>2, <3>3, <3>4
  <2>4. \A i \in 1 .. n + 1 : w[i] = IF i <= k THEN v[i] ELSE IF i = k + 1 THEN a ELSE v[i-1]
    <3>. SUFFICES ASSUME NEW i \in 1 .. n + 1
                  PROVE  w[i] = IF i <= k THEN v[i] ELSE IF i = k + 1 THEN a ELSE v[i-1]
      OBVIOUS
    <3>1. CASE i <= k
      <4>1. t[i] = Asl[i] /\ i \in 1 .. n
        BY <1>4, <1>8, <3>1
      <4>2. Asl[i] \in Semd \ {f}
        BY <1>3, <1>5, <4>1
      <4>. QED  BY <1>12, <2>1, <2>2, <3>1, <4>1, <4>2
    <3>2. CASE i = k + 1
      BY <1>4, <1>8, <1>12, <2>2, <3>2
    <3>3. CASE i > k + 1
      <4>1. t[i] = Asl[i-1] /\ i - 1 \in 1 .. n
        BY <1>4, <1>8, <3>3
      <4>2. Asl[i-1] \in Semd \ {f}
        BY <1>3, <1>5, <4>1
      <4>. QED  BY <1>12, <2>1, <2>2, <3>3, <4>1, <4>2
    <3>. QED  BY <3>1, <3>2, <3>3
  <2>5. \A i, j \in 1 .. n + 1 : i < j => w[i] < w[j]
    <3>. SUFFICES ASSUME NEW i \in 1 .. n + 1, NEW j \in 1 .. n + 1, i < j
                  PROVE  w[i] < w[j]
      OBVIOUS
    <3>1. a \in Nat
      BY BelowTail
    <3>2. CASE j <= k
      <4>1. w[i] = v[i] /\ w[j] = v[j] /\ i \in 1 .. n /\ j \in 1 .. n
        BY <2>4, <3>2
      <4>. QED  BY <2>3, <4>1
    <3>3. CASE j = k + 1
      <4>1. w[i] = v[i] /\ w[j] = a /\ i \in 1 .. k
        BY <2>4, <3>3
      <4>. QED  BY <2>3, <4>1
    <3>4. CASE j > k + 1 /\ i <= k
      <4>1. w[i] = v[i] /\ w[j] = v[j-1] /\ i \in 1 .. n /\ j - 1 \in 1 .. n /\ i < j - 1
        BY <2>4, <3>4
      <4>. QED  BY <2>3, <4>1
    <3>5. CASE j > k + 1 /\ i = k + 1
      <4>1. w[i] = a /\ w[j] = v[j-1] /\ j - 1 \in k + 1 .. n
        BY <2>4, <3>5
      <4>. QED  BY <2>3, <4>1
    <3>6. CASE i > k + 1
      <4>1. w[i] = v[i-1] /\ w[j] = v[j-1] /\ i - 1 \in 1 .. n /\ j - 1 \in 1 .. n /\ i - 1 < j - 1
        BY <2>4, <3>6
      <4>. QED  BY <2>3, <4>1
    <3>. QED  BY <3>2, <3>3, <3>4, <3>5, <3>6
  <2>. QED  BY <2>2, <2>5
<1>15. /\ s_semAdd'[Head0] = 0 /\ s_semAdd'[Tail0] = MAXINT
       /\ \A s \in Active' : s_semAdd'[s] \in Addr
  BY <1>11, <1>12, Descriptors, ChainFacts DEF Chains
<1>16. t # <<>> /\ t[Len(t)] = Tail0
  <2>1. n + 1 \in 1 .. n + 1 /\ ~(n + 1 <= k) /\ n + 1 # k + 1
    BY <1>4
  <2>2. t[n+1] = Tail0 /\ DOMAIN t # {}
    BY <1>5, <1>8, <2>1
  <2>. QED  BY <1>8, <2>2
<1>17. ToSet(t) \cap ToSet(FreeList') = {} /\ ToSet(t) \cup ToSet(FreeList') = Semd
  BY <1>3, <1>8, <1>10 DEF Chains
<1>18. Chains'
  <2>1. /\ IsList(Asl', Head0, s_next', NULL) /\ IsList(FreeList', semdFree_h', s_next', NULL)
    BY <1>1, <1>9, <1>10, <1>p
  <2>. QED  BY <1>8, <1>9, <1>14, <1>15, <1>16, <1>17, <2>1 DEF Chains
<1>. QED  BY <1>1, <1>2, <1>6, <1>11, <1>18, <1>p

\* A descriptor whose queue is empty leaves the sorted list for the free list.
LEMMA ChainsShrink ==
  ASSUME TypeOK, Chains, NEW f \in Active,
         semdFree_h' = f, s_semAdd' = s_semAdd,
         s_next' = [s_next EXCEPT ![Asl[SelectInSeq(Asl, LAMBDA x : x = f) - 1]] = s_next[f],
                                  ![f] = semdFree_h]
  PROVE  Chains' /\ Active' = Active \ {f} /\ s_next' \in [Semd -> Semd \cup {NULL}]
<1>1. PICK n \in Nat : n = Len(Asl)
  BY ChainFacts
<1>2. /\ Asl \in Seq(Semd) /\ IsInjective(Asl) /\ DOMAIN Asl = 1 .. n /\ n >= 2
      /\ Asl[1] = Head0 /\ Asl[n] = Tail0
      /\ \A i \in 1 .. n : Asl[i] \in Semd /\ Asl[i] \in ToSet(Asl)
      /\ ToSet(Asl) = Active \cup {Head0, Tail0} /\ ToSet(Asl) \subseteq Semd
      /\ f \in Semd /\ f # Head0 /\ f # Tail0
  BY <1>1, ChainFacts DEF ToSet, Active
<1>3. PICK k \in 1 .. n : Asl[k] = f
  BY <1>2 DEF ToSet
<1>4. k # 1 /\ k # n /\ k \in 2 .. n - 1
  BY <1>2, <1>3
<1>5. SelectInSeq(Asl, LAMBDA x : x = f) = k
  <2>1. {i \in 1 .. Len(Asl) : Asl[i] = f} = {k}
    BY <1>1, <1>2, <1>3 DEF IsInjective
  <2>2. Min({k}) = k
    BY DEF Min
  <2>. QED  BY <2>1, <2>2 DEF SelectInSeq
<1>6. PICK b, next2 : b = Asl[k-1] /\ next2 = s_next'
  OBVIOUS
<1>7. /\ DOMAIN s_next = Semd /\ NULL \notin Semd /\ IsFiniteSet(Semd)
      /\ s_next \in [Semd -> Semd \cup {NULL}] /\ semdFree_h \in Semd \cup {NULL}
      /\ IsList(Asl, Head0, s_next, NULL) /\ IsList(FreeList, semdFree_h, s_next, NULL)
      /\ ToSet(Asl) \cap ToSet(FreeList) = {} /\ ToSet(Asl) \cup ToSet(FreeList) = Semd
  BY Descriptors DEF TypeOK, Chains
<1>8. /\ next2[b] = s_next[f] /\ next2[f] = semdFree_h /\ DOMAIN next2 = Semd
      /\ \A x \in Semd \ {f, b} : next2[x] = s_next[x]
      /\ next2 \in [Semd -> Semd \cup {NULL}]
      /\ b # f /\ b \in ToSet(Asl)
  <2>1. next2 = [s_next EXCEPT ![b] = s_next[f], ![f] = semdFree_h]
    BY <1>5, <1>6
  <2>2. b # f /\ b \in ToSet(Asl) /\ b \in Semd
    <3>1. k - 1 \in 1 .. n /\ k - 1 # k
      BY <1>4
    <3>. QED  BY <1>2, <1>3, <1>6, <3>1 DEF IsInjective
  <2>3. s_next \in [Semd -> Semd \cup {NULL}] /\ f \in Semd /\ semdFree_h \in Semd \cup {NULL}
    BY <1>2, <1>7
  <2>. QED  BY <2>1, <2>2, <2>3
<1>9. PICK t : t = RemoveFirst(Asl, f)
  OBVIOUS
<1>10. /\ t \in Seq(Semd) /\ Len(t) = n - 1 /\ DOMAIN t = 1 .. n - 1 /\ ToSet(t) = ToSet(Asl) \ {f}
       /\ \A i \in 1 .. n - 1 : t[i] = IF i < k THEN Asl[i] ELSE Asl[i+1]
  <2>1. k \in 1 .. Len(Asl) /\ f = Asl[k] /\ Asl \in Seq(Semd) /\ IsInjective(Asl)
    BY <1>1, <1>2, <1>3
  <2>2. /\ t \in Seq(Semd) /\ Len(t) = Len(Asl) - 1 /\ DOMAIN t = 1 .. Len(Asl) - 1
        /\ \A i \in 1 .. Len(Asl) - 1 : t[i] = IF i < k THEN Asl[i] ELSE Asl[i+1]
    <3>1. LET r == RemoveFirst(Asl, f) IN
          /\ r \in Seq(Semd) /\ Len(r) = Len(Asl) - 1 /\ DOMAIN r = 1 .. Len(Asl) - 1
          /\ \A i \in 1 .. Len(Asl) - 1 : r[i] = IF i < k THEN Asl[i] ELSE Asl[i+1]
      BY <2>1, RemoveForm
    <3>. QED  BY <1>9, <3>1
  <2>3. ToSet(t) = ToSet(Asl) \ {f}
    BY <1>2, <1>9, RemoveMember
  <2>. QED  BY <1>1, <2>2, <2>3
<1>11. Asl' = t /\ IsList(t, Head0, next2, NULL)
  <2>1. k \in 2 .. Len(Asl) /\ DOMAIN next2 = DOMAIN s_next /\ NULL \notin DOMAIN s_next
    BY <1>1, <1>4, <1>7, <1>8
  <2>2. next2[Asl[k-1]] = s_next[Asl[k]]
    BY <1>3, <1>6, <1>8
  <2>3. \A x \in ToSet(Asl) \ {Asl[k-1], Asl[k]} : next2[x] = s_next[x]
    BY <1>2, <1>3, <1>6, <1>8
  <2>4. IsList(RemoveFirst(Asl, Asl[k]), Head0, next2, NULL)
    BY <1>7, <2>1, <2>2, <2>3, ListRemove
  <2>5. RemoveFirst(Asl, Asl[k]) = t
    BY <1>3, <1>9
  <2>6. IsList(t, Head0, next2, NULL)
    BY <2>4, <2>5
  <2>7. IsFiniteSet(DOMAIN next2) /\ NULL \notin DOMAIN next2
    BY <1>7, <1>8
  <2>8. Walk(Head0, next2, NULL) = t
    BY <2>6, <2>7, WalkOfList
  <2>. QED  BY <1>6, <2>6, <2>8 DEF Asl, Head0
<1>12. PICK free : free = FreeList
  OBVIOUS
<1>13. PICK u : u = Inserted(f, free, 0)
  OBVIOUS
<1>14. f \notin ToSet(free) /\ IsList(free, semdFree_h, s_next, NULL)
  BY <1>2, <1>7, <1>12
<1>15. ToSet(u) = ToSet(free) \cup {f}
  <2>1. free \in Seq(Semd) /\ IsInjective(free) /\ 0 \in 0 .. Len(free)
    BY <1>12, ChainFacts, LenProperties
  <2>. QED  BY <1>2, <1>13, <1>14, <2>1, InsertedIs
<1>16. FreeList' = u /\ IsList(u, f, next2, NULL)
  <2>1. DOMAIN next2 = DOMAIN s_next /\ NULL \notin DOMAIN s_next /\ f \in DOMAIN s_next
    BY <1>2, <1>7, <1>8
  <2>2. \A x \in ToSet(free) : next2[x] = s_next[x]
    BY <1>7, <1>8, <1>12, <1>14
  <2>3. IsList(Inserted(f, free, 0), f, next2, NULL)
    BY <1>8, <1>14, <2>1, <2>2, ListPush
  <2>4. IsList(u, f, next2, NULL)
    BY <1>13, <2>3
  <2>5. IsFiniteSet(DOMAIN next2) /\ NULL \notin DOMAIN next2
    BY <1>7, <1>8
  <2>6. Walk(f, next2, NULL) = u
    BY <2>4, <2>5, WalkOfList
  <2>. QED  BY <1>6, <2>4, <2>6 DEF FreeList
<1>17. Active' = Active \ {f}
  BY <1>2, <1>10, <1>11 DEF Active
<1>18. \A i, j \in 1 .. n - 1 : i < j => s_semAdd[t[i]] < s_semAdd[t[j]]
  <2>. SUFFICES ASSUME NEW i \in 1 .. n - 1, NEW j \in 1 .. n - 1, i < j
                PROVE  s_semAdd[t[i]] < s_semAdd[t[j]]
    OBVIOUS
  <2>1. \A x, y \in 1 .. n : x < y => s_semAdd[Asl[x]] < s_semAdd[Asl[y]]
    BY <1>1 DEF Chains
  <2>2. PICK x \in 1 .. n, y \in 1 .. n : x < y /\ t[i] = Asl[x] /\ t[j] = Asl[y]
    <3>1. CASE j < k
      <4>1. t[i] = Asl[i] /\ t[j] = Asl[j] /\ i \in 1 .. n /\ j \in 1 .. n
        BY <1>10, <3>1
      <4>. QED  BY <4>1
    <3>2. CASE i < k /\ ~(j < k)
      <4>1. t[i] = Asl[i] /\ t[j] = Asl[j+1] /\ i \in 1 .. n /\ j + 1 \in 1 .. n /\ i < j + 1
        BY <1>10, <3>2
      <4>. QED  BY <4>1
    <3>3. CASE ~(i < k)
      <4>1. t[i] = Asl[i+1] /\ t[j] = Asl[j+1] /\ i + 1 \in 1 .. n /\ j + 1 \in 1 .. n /\ i + 1 < j + 1
        BY <1>10, <3>3
      <4>. QED  BY <4>1
    <3>. QED  BY <3>1, <3>2, <3>3
  <2>. QED  BY <2>1, <2>2
<1>19. t # <<>> /\ t[Len(t)] = Tail0
  <2>1. n - 1 \in 1 .. n - 1 /\ ~(n - 1 < k)
    BY <1>4
  <2>2. t[n-1] = Tail0 /\ DOMAIN t # {}
    BY <1>2, <1>10, <2>1
  <2>. QED  BY <1>10, <2>2
<1>20. /\ s_semAdd'[Head0] = 0 /\ s_semAdd'[Tail0] = MAXINT
       /\ \A s \in Active' : s_semAdd'[s] \in Addr
  BY <1>17 DEF Chains
<1>21. ToSet(t) \cap ToSet(u) = {} /\ ToSet(t) \cup ToSet(u) = Semd
  BY <1>2, <1>7, <1>10, <1>12, <1>15
<1>22. Chains'
  <2>1. IsList(Asl', Head0, s_next', NULL) /\ IsList(FreeList', semdFree_h', s_next', NULL)
    BY <1>6, <1>11, <1>16
  <2>. QED  BY <1>10, <1>11, <1>16, <1>18, <1>19, <1>20, <1>21, <2>1 DEF Chains
<1>. QED  BY <1>6, <1>8, <1>17, <1>22

-----------------------------------------------------------------------------
(* The invariant. *)

LEMMA InitInv == Init => AslInv
<1>. SUFFICES ASSUME Init
              PROVE  AslInv
  OBVIOUS
<1>1. /\ MAXSEMD \in Nat \ {0} /\ Semd = 0 .. MAXSEMD + 1 /\ Head0 = 0 /\ Tail0 = MAXSEMD + 1
      /\ NULL \notin Semd /\ IsFiniteSet(Semd)
  BY AslAssumption, Descriptors DEF Semd, Head0, Tail0
<1>2. MAXINT \in Nat /\ MAXINT > 0
  <2>1. PICK a \in Addr : a = Max(Addr)
    <3>1. Addr \subseteq Int /\ Addr # {} /\ IsFiniteSet(Addr)
      BY AslAssumption
    <3>. QED  BY <3>1, Greatest
  <2>2. a \in Nat /\ MAXINT = a + 1
    BY <2>1, AslAssumption DEF MAXINT
  <2>. QED  BY <2>2
<1>3. /\ s_next[0] = MAXSEMD + 1 /\ s_next[MAXSEMD] = NULL /\ s_next[MAXSEMD + 1] = NULL
      /\ \A s \in 1 .. MAXSEMD - 1 : s_next[s] = s + 1
      /\ DOMAIN s_next = Semd
  <2>. PICK next2 : next2 = s_next
    OBVIOUS
  <2>1. next2 = [s \in Semd |-> CASE s = Head0 -> Tail0
                                [] s \in {Tail0, MAXSEMD} -> NULL
                                [] OTHER -> s + 1]
    BY DEF Init
  <2>2. next2[0] = MAXSEMD + 1
    BY <1>1, <2>1
  <2>3. next2[MAXSEMD] = NULL /\ next2[MAXSEMD + 1] = NULL
    BY <1>1, <2>1
  <2>4. \A s \in 1 .. MAXSEMD - 1 : next2[s] = s + 1
    BY <1>1, <2>1
  <2>. QED  BY <2>1, <2>2, <2>3, <2>4
<1>4. TypeOK
  <2>1. s_next \in [Semd -> Semd \cup {NULL}]
    <3>1. s_next = [s \in Semd |-> s_next[s]]
      BY DEF Init
    <3>2. \A s \in Semd : s_next[s] \in Semd \cup {NULL}
      <4>1. \A s \in Semd : s = 0 \/ s = MAXSEMD \/ s = MAXSEMD + 1 \/ s \in 1 .. MAXSEMD - 1
        BY <1>1
      <4>2. \A s \in 1 .. MAXSEMD - 1 : s + 1 \in Semd
        BY <1>1
      <4>. QED  BY <1>1, <1>3, <4>1, <4>2
    <3>. QED  BY <3>1, <3>2
  <2>2. s_semAdd \in [Semd -> Nat]
    BY <1>2 DEF Init
  <2>. QED  BY <1>1, <2>1, <2>2 DEF Init, TypeOK
<1>5. PICK L, F : L = <<Head0, Tail0>> /\ F = [i \in 1 .. MAXSEMD |-> i]
  OBVIOUS
<1>6. /\ L \in Seq(Semd) /\ Len(L) = 2 /\ DOMAIN L = 1 .. 2 /\ L[1] = Head0 /\ L[2] = Tail0
      /\ L # <<>> /\ ToSet(L) = {Head0, Tail0}
  <2>1. Head0 \in Semd /\ Tail0 \in Semd
    BY Descriptors
  <2>2. L \in Seq(Semd) /\ Len(L) = 2 /\ DOMAIN L = 1 .. 2 /\ L[1] = Head0 /\ L[2] = Tail0
    BY <1>5, <2>1
  <2>3. ToSet(L) = {Head0, Tail0}
    BY <2>2 DEF ToSet
  <2>. QED  BY <2>2, <2>3
<1>7. IsList(L, Head0, s_next, NULL)
  <2>1. \A i \in 1 .. Len(L) - 1 : s_next[L[i]] = L[i+1]
    BY <1>1, <1>3, <1>6
  <2>2. IsInjective(L)
    BY <1>6, Descriptors DEF IsInjective
  <2>. QED  BY <1>1, <1>3, <1>6, <2>1, <2>2 DEF IsList
<1>8. F \in Seq(Semd) /\ Len(F) = MAXSEMD /\ ToSet(F) = 1 .. MAXSEMD /\ IsInjective(F)
  <2>1. F \in [1 .. MAXSEMD -> Semd]
    BY <1>1, <1>5
  <2>2. F \in Seq(Semd) /\ Len(F) = MAXSEMD
    BY <1>1, <2>1, IsASeq, LenProperties
  <2>. QED  BY <1>5, <2>2 DEF ToSet, IsInjective
<1>9. IsList(F, semdFree_h, s_next, NULL)
  <2>1. semdFree_h = 1 /\ F[1] = 1 /\ F # <<>> /\ s_next[F[Len(F)]] = NULL
    BY <1>1, <1>3, <1>5, <1>8 DEF Init
  <2>2. \A i \in 1 .. Len(F) - 1 : s_next[F[i]] = F[i+1]
    BY <1>1, <1>3, <1>5, <1>8
  <2>. QED  BY <1>3, <1>8, <2>1, <2>2 DEF IsList
<1>10. Asl = L /\ FreeList = F
  <2>1. IsFiniteSet(DOMAIN s_next) /\ NULL \notin DOMAIN s_next
    BY <1>1, <1>3
  <2>2. Walk(Head0, s_next, NULL) = L
    BY <1>7, <2>1, WalkOfList
  <2>3. Walk(semdFree_h, s_next, NULL) = F
    BY <1>9, <2>1, WalkOfList
  <2>. QED  BY <2>2, <2>3 DEF Asl, FreeList
<1>11. Active = {}
  BY <1>6, <1>10 DEF Active
<1>12. s_semAdd[Head0] = 0 /\ s_semAdd[Tail0] = MAXINT
  BY Descriptors DEF Init
<1>13. Chains
  <2>1. \A i, j \in 1 .. Len(L) : i < j => s_semAdd[L[i]] < s_semAdd[L[j]]
    BY <1>2, <1>6, <1>12
  <2>2. ToSet(L) \cap ToSet(F) = {} /\ ToSet(L) \cup ToSet(F) = Semd
    BY <1>1, <1>6, <1>8
  <2>. QED  BY <1>6, <1>7, <1>9, <1>10, <1>11, <1>12, <2>1, <2>2 DEF Chains
<1>14. Waiters
  BY <1>11, Descriptors DEF Waiters, Init
<1>. QED  BY <1>4, <1>13, <1>14 DEF AslInv

\* A blocked pcb waits at an active descriptor.
LEMMA BlockedIs ==
  ASSUME AslInv, NEW p
  PROVE  Blocked(p) <=> \E s \in Active : p \in ToSet(s_procQ[s])
<1>1. ToSet(Asl) = Active \cup {Head0, Tail0}
  BY ChainFacts DEF AslInv
<1>2. p \notin ToSet(s_procQ[Head0]) /\ p \notin ToSet(s_procQ[Tail0])
  <2>1. DOMAIN <<>> = {}
    OBVIOUS
  <2>2. s_procQ[Head0] = <<>> /\ s_procQ[Tail0] = <<>>
    BY DEF AslInv, Waiters
  <2>. QED  BY <2>1, <2>2 DEF ToSet
<1>. QED  BY <1>1, <1>2 DEF Blocked

\* A pcb waits at one descriptor.
LEMMA OneQueue ==
  ASSUME AslInv, NEW s \in Active, NEW t \in Active, NEW p,
         p \in ToSet(s_procQ[s]), p \in ToSet(s_procQ[t])
  PROVE  s = t
<1>1. s_semAdd[s] = s_semAdd[t]
  BY DEF AslInv, Waiters
<1>2. s \in ToSet(Asl) /\ t \in ToSet(Asl)
  BY DEF Active
<1>. QED  BY <1>1, <1>2, OneDescriptor DEF AslInv

\* What waits at an active descriptor.
LEMMA QueueOf ==
  ASSUME AslInv, NEW s \in Active
  PROVE  /\ s \in Semd /\ s_procQ[s] \in Seq(Pcb) /\ s_procQ[s] # <<>> /\ IsInjective(s_procQ[s])
         /\ s_semAdd[s] \in Addr /\ ToSet(s_procQ[s]) \subseteq Pcb
         /\ \A p \in ToSet(s_procQ[s]) : p_semAdd[p] = s_semAdd[s]
         /\ Head(s_procQ[s]) \in ToSet(s_procQ[s])
<1>1. s \in Semd
  BY ChainFacts DEF AslInv
<1>2. s_procQ[s] \in Seq(Pcb) /\ s_procQ[s] # <<>> /\ IsInjective(s_procQ[s])
  BY <1>1 DEF AslInv, TypeOK, Waiters
<1>3. ToSet(s_procQ[s]) \subseteq Pcb
  BY <1>2, ElementOfSeq, LenProperties DEF ToSet
<1>4. Head(s_procQ[s]) \in ToSet(s_procQ[s])
  BY <1>2, TailMember
<1>. QED  BY <1>1, <1>2, <1>3, <1>4 DEF AslInv, Waiters, Chains

\* The two lists share the descriptors out between them.
LEMMA SharedOut ==
  ASSUME AslInv
  PROVE  /\ IsFiniteSet(ToSet(Asl)) /\ Cardinality(ToSet(Asl)) = Len(Asl)
         /\ Len(Asl) \in Nat /\ Len(FreeList) \in Nat /\ Len(Asl) + Len(FreeList) = MAXSEMD + 2
<1>1. /\ IsFiniteSet(ToSet(Asl)) /\ Cardinality(ToSet(Asl)) = Len(Asl)
      /\ IsFiniteSet(ToSet(FreeList)) /\ Cardinality(ToSet(FreeList)) = Len(FreeList)
      /\ Len(Asl) \in Nat /\ Len(FreeList) \in Nat
  <2>1. /\ Asl \in Seq(Semd) /\ IsInjective(Asl) /\ FreeList \in Seq(Semd) /\ IsInjective(FreeList)
    BY ChainFacts DEF AslInv
  <2>. QED  BY <2>1, InjectiveLength, LenProperties
<1>2. Len(Asl) + Len(FreeList) = MAXSEMD + 2
  <2>1. ToSet(Asl) \cap ToSet(FreeList) = {} /\ ToSet(Asl) \cup ToSet(FreeList) = Semd
    BY DEF AslInv, Chains
  <2>2. Cardinality(ToSet(Asl) \cup ToSet(FreeList)) =
          Cardinality(ToSet(Asl)) + Cardinality(ToSet(FreeList)) - Cardinality(ToSet(Asl) \cap ToSet(FreeList))
    BY <1>1, FS_Union
  <2>3. Cardinality({}) = 0 /\ Cardinality(Semd) = MAXSEMD + 2
    BY FS_EmptySet, Descriptors
  <2>4. /\ Cardinality(ToSet(Asl) \cup ToSet(FreeList)) = Cardinality(Semd)
        /\ Cardinality(ToSet(Asl) \cap ToSet(FreeList)) = Cardinality({})
    BY <2>1
  <2>5. MAXSEMD + 2 = Len(Asl) + Len(FreeList) - 0
    BY <1>1, <2>2, <2>3, <2>4
  <2>. QED  BY <1>1, <2>5
<1>. QED  BY <1>1, <1>2

\* A descriptor is free for every pcb that is not blocked: the active ones each
\* have a waiter of their own.
LEMMA DescriptorsSuffice == AslInv => NeverExhausted
<1>. SUFFICES ASSUME AslInv
              PROVE  NeverExhausted
  OBVIOUS
<1>1. PICK B : B = {p \in Pcb : Blocked(p)}
  OBVIOUS
<1>2. PICK R : R = {p \in Pcb : ~Blocked(p)}
  OBVIOUS
<1>3. /\ IsFiniteSet(B) /\ IsFiniteSet(R) /\ Cardinality(B) \in Nat /\ Cardinality(R) \in Nat
      /\ Cardinality(Pcb) = Cardinality(B) + Cardinality(R)
  <2>1. IsFiniteSet(Pcb) /\ B \subseteq Pcb /\ R \subseteq Pcb /\ B \cup R = Pcb /\ B \cap R = {}
    BY <1>1, <1>2, AslAssumption
  <2>2. IsFiniteSet(B) /\ IsFiniteSet(R)
    BY <2>1, FS_Subset
  <2>3. Cardinality(B \cup R) = Cardinality(B) + Cardinality(R) - Cardinality(B \cap R)
    BY <2>2, FS_Union
  <2>4. Cardinality(B) \in Nat /\ Cardinality(R) \in Nat /\ Cardinality({}) = 0
    BY <2>2, FS_CardinalityType, FS_EmptySet
  <2>5. Cardinality(B \cup R) = Cardinality(Pcb) /\ Cardinality(B \cap R) = Cardinality({})
    BY <2>1
  <2>6. Cardinality(Pcb) = Cardinality(B) + Cardinality(R) - 0
    BY <2>3, <2>4, <2>5
  <2>. QED  BY <2>2, <2>4, <2>6
<1>4. /\ IsFiniteSet(ToSet(Asl)) /\ Cardinality(ToSet(Asl)) = Len(Asl)
      /\ Len(Asl) \in Nat /\ Len(FreeList) \in Nat /\ Len(Asl) + Len(FreeList) = MAXSEMD + 2
  BY SharedOut
<1>6. IsFiniteSet(Active) /\ Cardinality(Active) = Len(Asl) - 2
  <2>1. Head0 \in ToSet(Asl) /\ Tail0 \in ToSet(Asl) \ {Head0}
    BY ChainFacts, Descriptors DEF AslInv
  <2>2. IsFiniteSet(ToSet(Asl) \ {Head0}) /\ Cardinality(ToSet(Asl) \ {Head0}) = Len(Asl) - 1
    BY <1>4, <2>1, FS_RemoveElement
  <2>3. /\ IsFiniteSet((ToSet(Asl) \ {Head0}) \ {Tail0})
        /\ Cardinality((ToSet(Asl) \ {Head0}) \ {Tail0}) = Len(Asl) - 1 - 1
    BY <2>1, <2>2, FS_RemoveElement
  <2>4. Active = (ToSet(Asl) \ {Head0}) \ {Tail0}
    BY DEF Active
  <2>. QED  BY <1>4, <2>3, <2>4
<1>7. Cardinality(Active) <= Cardinality(B)
  <2>1. PICK h : h = [s \in Active |-> Head(s_procQ[s])]
    OBVIOUS
  <2>2. \A s \in Active : h[s] \in B /\ h[s] \in ToSet(s_procQ[s])
    BY <1>1, <2>1, QueueOf, BlockedIs
  <2>3. \A s, t \in Active : h[s] = h[t] => s = t
    BY <2>2, OneQueue
  <2>4. h \in Injection(Active, B)
    BY <2>1, <2>2, <2>3 DEF Injection, IsInjective
  <2>. QED  BY <1>3, <2>4, FS_Injection DEF ExistsInjection
<1>8. MAXSEMD \in Nat /\ MAXSEMD >= Cardinality(Pcb)
  BY AslAssumption
<1>9. Len(FreeList) >= Cardinality(R)
  <2>1. PICK l \in Nat, f \in Nat, c \in Nat, r \in Nat :
          l = Len(Asl) /\ f = Len(FreeList) /\ c = Cardinality(B) /\ r = Cardinality(R)
    BY <1>3, <1>4
  <2>2. l + f = MAXSEMD + 2 /\ l - 2 <= c /\ MAXSEMD >= c + r
    BY <1>3, <1>4, <1>6, <1>7, <1>8, <2>1
  <2>3. f >= r
    BY <1>8, <2>2
  <2>. QED  BY <2>1, <2>3
<1>. QED  BY <1>2, <1>9 DEF NeverExhausted

\* removeBlocked and outBlocked: what is left of a queue, its descriptor retired
\* when that is nothing.
LEMMA RetireIs ==
  ASSUME AslInv, NEW f \in Active, NEW q, retire(f, q)
  PROVE  /\ Chains' /\ s_semAdd' = s_semAdd /\ s_procQ' = [s_procQ EXCEPT ![f] = q]
         /\ semdFree_h' \in Semd \cup {NULL} /\ s_next' \in [Semd -> Semd \cup {NULL}]
         /\ q # <<>> => Active' = Active
         /\ q = <<>> => Active' = Active \ {f}
<1>1. TypeOK /\ Chains /\ f \in Semd
  BY QueueOf DEF AslInv
<1>2. s_semAdd' = s_semAdd /\ s_procQ' = [s_procQ EXCEPT ![f] = q]
  BY DEF retire
<1>3. CASE q # <<>>
  <2>1. s_next' = s_next /\ semdFree_h' = semdFree_h
    BY <1>3 DEF retire
  <2>2. Chains' /\ Active' = Active
    BY <1>1, <1>2, <2>1, ChainsKept
  <2>. QED  BY <1>1, <1>2, <1>3, <2>1, <2>2 DEF TypeOK
<1>4. CASE q = <<>>
  <2>1. /\ semdFree_h' = f
        /\ s_next' = [s_next EXCEPT ![Asl[SelectInSeq(Asl, LAMBDA x : x = f) - 1]] = s_next[f],
                                    ![f] = semdFree_h]
    BY <1>4 DEF retire
  <2>2. Chains' /\ Active' = Active \ {f} /\ s_next' \in [Semd -> Semd \cup {NULL}]
    BY <1>1, <1>2, <2>1, ChainsShrink
  <2>. QED  BY <1>1, <1>2, <1>4, <2>1, <2>2
<1>. QED  BY <1>3, <1>4

LEMMA RemoveBlockedInv ==
  ASSUME AslInv, NEW a \in Addr, removeBlocked(a)
  PROVE  AslInv'
<1>1. PICK f : f = findSemd(a)
  OBVIOUS
<1>2. f \in Active /\ s_semAdd[f] = a
  BY <1>1, FindSemd DEF AslInv, removeBlocked
<1>3. /\ f \in Semd /\ s_procQ[f] \in Seq(Pcb) /\ s_procQ[f] # <<>> /\ IsInjective(s_procQ[f])
      /\ ToSet(s_procQ[f]) \subseteq Pcb
  BY <1>2, QueueOf
<1>4. PICK q, p : q = Tail(s_procQ[f]) /\ p = Head(s_procQ[f])
  OBVIOUS
<1>5. /\ p \in Pcb /\ p \in ToSet(s_procQ[f])
      /\ q \in Seq(Pcb) /\ IsInjective(q) /\ ToSet(q) = ToSet(s_procQ[f]) \ {p}
  BY <1>3, <1>4, TailMember
<1>6. p_semAdd' = [p_semAdd EXCEPT ![p] = NULL] /\ retire(f, q)
  BY <1>1, <1>4 DEF removeBlocked
<1>7. /\ Chains' /\ s_semAdd' = s_semAdd /\ s_procQ' = [s_procQ EXCEPT ![f] = q]
      /\ semdFree_h' \in Semd \cup {NULL} /\ s_next' \in [Semd -> Semd \cup {NULL}]
      /\ q # <<>> => Active' = Active
      /\ q = <<>> => Active' = Active \ {f}
  BY <1>2, <1>6, RetireIs
<1>8. TypeOK'
  BY <1>3, <1>5, <1>6, <1>7 DEF AslInv, TypeOK
<1>9. /\ s_procQ'[f] = q /\ \A s \in Semd \ {f} : s_procQ'[s] = s_procQ[s]
      /\ \A r \in Pcb \ {p} : p_semAdd'[r] = p_semAdd[r]
  BY <1>3, <1>5, <1>6, <1>7 DEF AslInv, TypeOK
<1>10. Waiters'
  <2>1. s_procQ'[Head0] = <<>> /\ s_procQ'[Tail0] = <<>>
    BY <1>2, <1>9, Descriptors DEF AslInv, Waiters, Active
  <2>2. ASSUME NEW s \in Active'
        PROVE  /\ s_procQ'[s] # <<>> /\ IsInjective(s_procQ'[s])
               /\ \A r \in ToSet(s_procQ'[s]) : p_semAdd'[r] = s_semAdd'[s]
    <3>1. CASE s = f
      <4>1. q # <<>>
        BY <1>7, <2>2, <3>1
      <4>2. \A r \in ToSet(q) : p_semAdd[r] = s_semAdd[f] /\ r \in Pcb \ {p}
        BY <1>2, <1>3, <1>5, QueueOf
      <4>. QED  BY <1>5, <1>7, <1>9, <3>1, <4>1, <4>2
    <3>2. CASE s # f
      <4>1. s \in Active
        BY <1>7, <2>2
      <4>2. s \in Semd \ {f} /\ s_procQ'[s] = s_procQ[s]
        BY <1>9, <3>2, <4>1, QueueOf
      <4>3. \A r \in ToSet(s_procQ[s]) : r \in Pcb /\ p_semAdd[r] = s_semAdd[s] /\ r # p
        BY <1>2, <1>5, <3>2, <4>1, QueueOf, OneQueue
      <4>4. s_procQ[s] # <<>> /\ IsInjective(s_procQ[s])
        BY <4>1, QueueOf
      <4>. QED  BY <1>7, <1>9, <4>2, <4>3, <4>4
    <3>. QED  BY <3>1, <3>2
  <2>. QED  BY <2>1, <2>2 DEF Waiters
<1>. QED  BY <1>7, <1>8, <1>10 DEF AslInv

LEMMA OutBlockedInv ==
  ASSUME AslInv, NEW p \in Pcb, outBlocked(p)
  PROVE  AslInv'
<1>1. PICK f, a : a = p_semAdd[p] /\ f = findSemd(a)
  OBVIOUS
<1>2. a \in Addr /\ p_semAdd' = p_semAdd
  BY <1>1 DEF outBlocked, AslInv, TypeOK
<1>3. f # NULL /\ p \in ToSet(s_procQ[f]) /\ retire(f, RemoveFirst(s_procQ[f], p))
  BY <1>1 DEF outBlocked
<1>4. f \in Active /\ s_semAdd[f] = a
  BY <1>1, <1>2, <1>3, FindSemd DEF AslInv
<1>5. f \in Semd /\ s_procQ[f] \in Seq(Pcb) /\ IsInjective(s_procQ[f])
  BY <1>4, QueueOf
<1>6. PICK q : q = RemoveFirst(s_procQ[f], p)
  OBVIOUS
<1>7. q \in Seq(Pcb) /\ IsInjective(q) /\ ToSet(q) = ToSet(s_procQ[f]) \ {p}
  BY <1>5, <1>6, RemoveMember
<1>8. /\ Chains' /\ s_semAdd' = s_semAdd /\ s_procQ' = [s_procQ EXCEPT ![f] = q]
      /\ semdFree_h' \in Semd \cup {NULL} /\ s_next' \in [Semd -> Semd \cup {NULL}]
      /\ q # <<>> => Active' = Active
      /\ q = <<>> => Active' = Active \ {f}
  BY <1>3, <1>4, <1>6, RetireIs
<1>9. TypeOK'
  BY <1>2, <1>5, <1>7, <1>8 DEF AslInv, TypeOK
<1>10. s_procQ'[f] = q /\ \A s \in Semd \ {f} : s_procQ'[s] = s_procQ[s]
  BY <1>5, <1>7, <1>8 DEF AslInv, TypeOK
<1>11. Waiters'
  <2>1. s_procQ'[Head0] = <<>> /\ s_procQ'[Tail0] = <<>>
    BY <1>4, <1>10, Descriptors DEF AslInv, Waiters, Active
  <2>2. ASSUME NEW s \in Active'
        PROVE  /\ s_procQ'[s] # <<>> /\ IsInjective(s_procQ'[s])
               /\ \A r \in ToSet(s_procQ'[s]) : p_semAdd'[r] = s_semAdd'[s]
    <3>1. CASE s = f
      <4>1. q # <<>>
        BY <1>8, <2>2, <3>1
      <4>2. \A r \in ToSet(q) : p_semAdd[r] = s_semAdd[f]
        BY <1>4, <1>7, QueueOf
      <4>. QED  BY <1>2, <1>7, <1>8, <1>10, <3>1, <4>1, <4>2
    <3>2. CASE s # f
      <4>1. s \in Active
        BY <1>8, <2>2
      <4>2. s \in Semd \ {f} /\ s_procQ'[s] = s_procQ[s]
        BY <1>10, <3>2, <4>1, QueueOf
      <4>. QED  BY <1>2, <1>8, <4>1, <4>2, QueueOf
    <3>. QED  BY <3>1, <3>2
  <2>. QED  BY <2>1, <2>2 DEF Waiters
<1>. QED  BY <1>8, <1>9, <1>11 DEF AslInv

LEMMA AllocPcbInv ==
  ASSUME AslInv, NEW p \in Pcb, allocPcb(p)
  PROVE  AslInv'
<1>1. /\ ~Blocked(p) /\ p_semAdd' = [p_semAdd EXCEPT ![p] = NULL]
      /\ semdFree_h' = semdFree_h /\ s_next' = s_next /\ s_semAdd' = s_semAdd /\ s_procQ' = s_procQ
  BY DEF allocPcb
<1>2. Chains' /\ Active' = Active
  BY <1>1, ChainsKept DEF AslInv
<1>3. TypeOK'
  BY <1>1 DEF AslInv, TypeOK
<1>4. \A s \in Active : \A r \in ToSet(s_procQ[s]) : p_semAdd'[r] = p_semAdd[r]
  <2>1. \A s \in Active : p \notin ToSet(s_procQ[s])
    BY <1>1, BlockedIs
  <2>2. \A r \in Pcb \ {p} : p_semAdd'[r] = p_semAdd[r]
    BY <1>1 DEF AslInv, TypeOK
  <2>. QED  BY <2>1, <2>2, QueueOf
<1>5. Waiters'
  BY <1>1, <1>2, <1>4 DEF AslInv, Waiters
<1>. QED  BY <1>2, <1>3, <1>5 DEF AslInv

LEMMA InsertBlockedInv ==
  ASSUME AslInv, NEW a \in Addr, NEW p \in Pcb, insertBlocked(a, p)
  PROVE  /\ AslInv'
         /\ \/ findSemd(a) # NULL
            \/ /\ semdFree_h \notin Active /\ Active' = Active \cup {semdFree_h}
               /\ s_semAdd' = [s_semAdd EXCEPT ![semdFree_h] = a]
               /\ s_procQ' = [s_procQ EXCEPT ![semdFree_h] = <<p>>]
<1>1. ~Blocked(p)
  BY DEF insertBlocked
<1>2. \A s \in Active : p \notin ToSet(s_procQ[s])
  BY <1>1, BlockedIs
<1>3. ASSUME p_semAdd' = [p_semAdd EXCEPT ![p] = a]
      PROVE  /\ p_semAdd' \in [Pcb -> Addr \cup {NULL}] /\ p_semAdd'[p] = a
             /\ \A s \in Active : \A r \in ToSet(s_procQ[s]) : p_semAdd'[r] = s_semAdd[s]
  <2>1. /\ p_semAdd' \in [Pcb -> Addr \cup {NULL}] /\ p_semAdd'[p] = a
        /\ \A r \in Pcb \ {p} : p_semAdd'[r] = p_semAdd[r]
    BY <1>3 DEF AslInv, TypeOK
  <2>. QED  BY <1>2, <2>1, QueueOf
<1>4. CASE findSemd(a) # NULL
  <2>1. PICK f : f = findSemd(a)
    OBVIOUS
  <2>2. /\ f # NULL /\ s_procQ' = [s_procQ EXCEPT ![f] = Append(@, p)]
        /\ p_semAdd' = [p_semAdd EXCEPT ![p] = a]
        /\ semdFree_h' = semdFree_h /\ s_next' = s_next /\ s_semAdd' = s_semAdd
    BY <1>4, <2>1 DEF insertBlocked
  <2>3. f \in Active /\ s_semAdd[f] = a
    BY <2>1, <2>2, FindSemd DEF AslInv
  <2>4. Chains' /\ Active' = Active
    BY <2>2, ChainsKept DEF AslInv
  <2>5. /\ f \in Semd /\ s_procQ[f] \in Seq(Pcb) /\ IsInjective(s_procQ[f])
        /\ p \notin ToSet(s_procQ[f])
    BY <1>2, <2>3, QueueOf
  <2>6. PICK q : q = Append(s_procQ[f], p)
    OBVIOUS
  <2>7. /\ q \in Seq(Pcb) /\ IsInjective(q) /\ ToSet(q) = ToSet(s_procQ[f]) \cup {p}
    BY <2>5, <2>6, AppendMember
  <2>8. q # <<>>
    <3>1. DOMAIN <<>> = {}
      OBVIOUS
    <3>. QED  BY <2>7, <3>1 DEF ToSet
  <2>9. /\ s_procQ' \in [Semd -> Seq(Pcb)]
        /\ s_procQ'[f] = q /\ \A s \in Semd \ {f} : s_procQ'[s] = s_procQ[s]
    BY <2>2, <2>5, <2>6, <2>7 DEF AslInv, TypeOK
  <2>10. TypeOK'
    BY <1>3, <2>2, <2>9 DEF AslInv, TypeOK
  <2>11. Waiters'
    <3>1. s_procQ'[Head0] = <<>> /\ s_procQ'[Tail0] = <<>>
      BY <2>3, <2>9, Descriptors DEF AslInv, Waiters, Active
    <3>2. ASSUME NEW s \in Active
          PROVE  /\ s_procQ'[s] # <<>> /\ IsInjective(s_procQ'[s])
                 /\ \A r \in ToSet(s_procQ'[s]) : p_semAdd'[r] = s_semAdd[s]
      <4>1. CASE s = f
        <5>1. \A r \in ToSet(q) : p_semAdd'[r] = s_semAdd[f]
          BY <1>3, <2>2, <2>3, <2>7
        <5>. QED  BY <2>7, <2>8, <2>9, <4>1, <5>1
      <4>2. CASE s # f
        <5>1. s_procQ'[s] = s_procQ[s]
          BY <2>9, <4>2, QueueOf
        <5>. QED  BY <1>3, <2>2, <5>1, QueueOf
      <4>. QED  BY <4>1, <4>2
    <3>. QED  BY <2>2, <2>4, <3>1, <3>2 DEF Waiters
  <2>. QED  BY <1>4, <2>4, <2>10, <2>11 DEF AslInv
<1>5. CASE findSemd(a) = NULL
  <2>1. semdFree_h # NULL
    <3>. SUFFICES ASSUME semdFree_h = NULL
                  PROVE  FALSE
      OBVIOUS
    <3>1. FreeList = <<>> /\ Len(FreeList) = 0
      <4>1. NULL \notin DOMAIN s_next /\ IsList(FreeList, semdFree_h, s_next, NULL)
        BY Descriptors DEF AslInv, TypeOK, Chains
      <4>. QED  BY <4>1, ListFirst
    <3>2. PICK R : R = {r \in Pcb : ~Blocked(r)}
      OBVIOUS
    <3>3. IsFiniteSet(R) /\ R # {} /\ Cardinality(R) <= 0
      <4>1. IsFiniteSet(R) /\ p \in R
        BY <1>1, <3>2, AslAssumption, FS_Subset
      <4>2. Cardinality(R) \in Nat
        BY <4>1, FS_CardinalityType
      <4>. QED  BY <3>1, <3>2, <4>1, <4>2, DescriptorsSuffice DEF NeverExhausted
    <3>. QED  BY <3>3, FS_CardinalityType, FS_EmptySet
  <2>2. PICK f : f = semdFree_h
    OBVIOUS
  <2>3. /\ semdFree_h' = s_next[f]
        /\ s_semAdd' = [s_semAdd EXCEPT ![f] = a]
        /\ s_procQ' = [s_procQ EXCEPT ![f] = <<p>>]
        /\ s_next' = [s_next EXCEPT ![f] = s_next[LastBefore(a)], ![LastBefore(a)] = f]
        /\ p_semAdd' = [p_semAdd EXCEPT ![p] = a]
    BY <1>5, <2>1, <2>2 DEF insertBlocked
  <2>4. /\ Chains' /\ Active' = Active \cup {f} /\ f \in Semd /\ f \notin Active \cup {Head0, Tail0}
        /\ s_next' \in [Semd -> Semd \cup {NULL}]
    <3>1. TypeOK /\ Chains
      BY DEF AslInv
    <3>2. /\ semdFree_h' = s_next[semdFree_h]
          /\ s_semAdd' = [s_semAdd EXCEPT ![semdFree_h] = a]
          /\ s_next' = [s_next EXCEPT ![semdFree_h] = s_next[LastBefore(a)], ![LastBefore(a)] = semdFree_h]
      BY <2>2, <2>3
    <3>. QED  BY <1>5, <2>1, <2>2, <3>1, <3>2, ChainsGrow
  <2>5. PICK q : q = <<p>>
    OBVIOUS
  <2>6. q \in Seq(Pcb) /\ IsInjective(q) /\ ToSet(q) = {p} /\ q # <<>>
    BY <2>5 DEF ToSet, IsInjective
  <2>7. /\ s_procQ' \in [Semd -> Seq(Pcb)] /\ s_semAdd' \in [Semd -> Nat]
        /\ s_procQ'[f] = q /\ \A s \in Semd \ {f} : s_procQ'[s] = s_procQ[s]
        /\ s_semAdd'[f] = a /\ \A s \in Semd \ {f} : s_semAdd'[s] = s_semAdd[s]
    BY <2>3, <2>4, <2>5, <2>6, BelowTail DEF AslInv, TypeOK
  <2>8. semdFree_h' \in Semd \cup {NULL}
    BY <2>3, <2>4 DEF AslInv, TypeOK
  <2>9. TypeOK'
    BY <1>3, <2>3, <2>4, <2>7, <2>8 DEF TypeOK
  <2>10. Waiters'
    <3>1. s_procQ'[Head0] = <<>> /\ s_procQ'[Tail0] = <<>>
      BY <2>4, <2>7, Descriptors DEF AslInv, Waiters
    <3>2. ASSUME NEW s \in Active \cup {f}
          PROVE  /\ s_procQ'[s] # <<>> /\ IsInjective(s_procQ'[s])
                 /\ \A r \in ToSet(s_procQ'[s]) : p_semAdd'[r] = s_semAdd'[s]
      <4>1. CASE s = f
        BY <1>3, <2>3, <2>6, <2>7, <4>1
      <4>2. CASE s # f
        <5>1. s \in Active /\ s_procQ'[s] = s_procQ[s] /\ s_semAdd'[s] = s_semAdd[s]
          BY <2>7, <4>2, QueueOf
        <5>. QED  BY <1>3, <2>3, <5>1, QueueOf
      <4>. QED  BY <4>1, <4>2
    <3>. QED  BY <2>4, <3>1, <3>2 DEF Waiters
  <2>. QED  BY <2>2, <2>3, <2>4, <2>9, <2>10 DEF AslInv
<1>. QED  BY <1>4, <1>5

LEMMA NextInv == AslInv /\ [Next]_vars => AslInv'
<1>. SUFFICES ASSUME AslInv, [Next]_vars
              PROVE  AslInv'
  OBVIOUS
<1>1. CASE UNCHANGED vars
  <2>1. /\ semdFree_h' = semdFree_h /\ s_next' = s_next /\ s_semAdd' = s_semAdd
        /\ s_procQ' = s_procQ /\ p_semAdd' = p_semAdd
    BY <1>1 DEF vars
  <2>2. Chains' /\ Active' = Active
    BY <2>1, ChainsKept DEF AslInv
  <2>3. TypeOK' /\ Waiters'
    BY <2>1, <2>2 DEF AslInv, TypeOK, Waiters
  <2>. QED  BY <2>2, <2>3 DEF AslInv
<1>2. ASSUME NEW a \in Addr, removeBlocked(a)
      PROVE  AslInv'
  BY <1>2, RemoveBlockedInv
<1>3. ASSUME NEW a \in Addr, NEW p \in Pcb, insertBlocked(a, p)
      PROVE  AslInv'
  BY <1>3, InsertBlockedInv
<1>4. ASSUME NEW p \in Pcb, outBlocked(p)
      PROVE  AslInv'
  BY <1>4, OutBlockedInv
<1>5. ASSUME NEW p \in Pcb, allocPcb(p)
      PROVE  AslInv'
  BY <1>5, AllocPcbInv
<1>. QED  BY <1>1, <1>2, <1>3, <1>4, <1>5 DEF Next

\* The descriptors stay on two chains, in the order of their addresses, and each
\* active one has waiters that know its address.
THEOREM AslInvariant == Spec => []AslInv
<1>. QED  BY InitInv, NextInv, PTL DEF Spec

\* ListsInv: the sorted list and the free list share the descriptors out between
\* them, and no active descriptor is left with an empty queue.
THEOREM AslLists == Spec => []ListsInv
<1>1. AslInv => ListsInv
  <2>. SUFFICES ASSUME AslInv
                PROVE  ListsInv
    OBVIOUS
  <2>1. TypeOK /\ ToSet(Asl) \cup ToSet(FreeList) = Semd
    BY DEF AslInv, Chains
  <2>2. Len(Asl) \in Nat /\ Len(Asl) + Len(FreeList) = MAXSEMD + 2
    BY SharedOut
  <2>3. /\ Asl[1] = Head0 /\ Asl[Len(Asl)] = Tail0
        /\ \A i \in 2 .. Len(Asl) - 1 : Asl[i] \in Active
    BY ChainFacts DEF AslInv
  <2>4. \A i \in 1 .. Len(Asl) - 1 : s_semAdd[Asl[i]] < s_semAdd[Asl[i+1]]
    <3>1. \A i, j \in 1 .. Len(Asl) : i < j => s_semAdd[Asl[i]] < s_semAdd[Asl[j]]
      BY DEF AslInv, Chains
    <3>2. \A i \in 1 .. Len(Asl) - 1 : i \in 1 .. Len(Asl) /\ i + 1 \in 1 .. Len(Asl) /\ i < i + 1
      BY <2>2
    <3>. QED  BY <3>1, <3>2
  <2>5. \A i \in 2 .. Len(Asl) - 1 : s_procQ[Asl[i]] # <<>>
    BY <2>3, QueueOf
  <2>. QED  BY <2>1, <2>2, <2>3, <2>4, <2>5 DEF ListsInv
<1>. QED  BY <1>1, AslInvariant, PTL

\* NeverExhausted: insertBlocked always finds a free descriptor, so the TRUE that
\* sysPasseren ignores is never returned.
THEOREM AslNeverExhausted == Spec => []NeverExhausted
<1>. QED  BY AslInvariant, DescriptorsSuffice, PTL

-----------------------------------------------------------------------------
(* The queues the nucleus believes it has. *)

\* The queue of each address.
View ==
  /\ \A s \in Active, a \in Addr : s_semAdd[s] = a => QueueAt(a) = s_procQ[s]
  /\ \A a \in Addr : (\A s \in Active : s_semAdd[s] # a) => QueueAt(a) = <<>>

LEMMA ViewHolds == AslInv => View
<1>. SUFFICES ASSUME AslInv
              PROVE  View
  OBVIOUS
<1>1. TypeOK /\ Chains /\ NULL \notin Active
  BY ChainFacts, Descriptors DEF AslInv
<1>2. ASSUME NEW s \in Active, NEW a \in Addr, s_semAdd[s] = a
      PROVE  QueueAt(a) = s_procQ[s]
  <2>1. findSemd(a) \in Active /\ s_semAdd[findSemd(a)] = a
    BY <1>1, <1>2, FindSemd
  <2>2. findSemd(a) = s
    BY <1>1, <1>2, <2>1, OneDescriptor DEF Active
  <2>. QED  BY <1>1, <2>2 DEF QueueAt
<1>3. ASSUME NEW a \in Addr, \A s \in Active : s_semAdd[s] # a
      PROVE  QueueAt(a) = <<>>
  BY <1>1, <1>3, FindSemd DEF QueueAt
<1>. QED  BY <1>2, <1>3 DEF View

LEMMA ViewNext == AslInv' => View'
  BY ViewHolds, PTL

\* A step that touches one descriptor changes the queue of its address only.
LEMMA OneAddress ==
  ASSUME AslInv, AslInv', NEW f \in Semd, NEW a \in Addr,
         \A s \in Semd \ {f} : s_semAdd'[s] = s_semAdd[s] /\ s_procQ'[s] = s_procQ[s],
         Active \ {f} = Active' \ {f},
         f \in Active => s_semAdd[f] = a, f \in Active' => s_semAdd'[f] = a,
         NEW queues, queues = [b \in Addr |-> QueueAt(b)],
         NEW queues2, queues2 = [b \in Addr |-> QueueAt(b)']
  PROVE  /\ queues2 = [queues EXCEPT ![a] = queues2[a]]
         /\ f \in Active => queues[a] = s_procQ[f]
         /\ f \in Active' => queues2[a] = s_procQ'[f]
         /\ f \notin Active' /\ f \in Active => queues2[a] = <<>>
<1>1. /\ \A s \in Active, b \in Addr : s_semAdd[s] = b => queues[b] = s_procQ[s]
      /\ \A b \in Addr : (\A s \in Active : s_semAdd[s] # b) => queues[b] = <<>>
  BY ViewHolds DEF View
<1>2. /\ \A s \in Active', b \in Addr : s_semAdd'[s] = b => queues2[b] = s_procQ'[s]
      /\ \A b \in Addr : (\A s \in Active' : s_semAdd'[s] # b) => queues2[b] = <<>>
  BY ViewNext DEF View
<1>3. Active \subseteq Semd
  BY ChainFacts DEF AslInv
<1>4. ASSUME NEW b \in Addr \ {a}
      PROVE  queues2[b] = queues[b]
  <2>1. CASE \E s \in Active : s_semAdd[s] = b
    <3>1. PICK s \in Active : s_semAdd[s] = b
      BY <2>1
    <3>2. s # f /\ s \in Active' /\ s_semAdd'[s] = b /\ s_procQ'[s] = s_procQ[s]
      BY <1>3, <3>1
    <3>. QED  BY <1>1, <1>2, <3>1, <3>2
  <2>2. CASE \A s \in Active : s_semAdd[s] # b
    <3>1. \A s \in Active' : s_semAdd'[s] # b
      BY <1>3, <2>2
    <3>. QED  BY <1>1, <1>2, <2>2, <3>1
  <2>. QED  BY <2>1, <2>2
<1>5. ASSUME f \notin Active', f \in Active
      PROVE  queues2[a] = <<>>
  <2>1. \A s \in Active' : s_semAdd'[s] # a
    <3>. SUFFICES ASSUME NEW s \in Active', s_semAdd'[s] = a
                  PROVE  FALSE
      OBVIOUS
    <3>1. s \in Active /\ s # f /\ s_semAdd[s] = a /\ s_semAdd[f] = a
      BY <1>3, <1>5
    <3>. QED  BY <1>5, <3>1, OneDescriptor DEF AslInv, Active
  <2>. QED  BY <1>2, <2>1
<1>6. queues2 = [queues EXCEPT ![a] = queues2[a]]
  BY <1>4
<1>. QED  BY <1>1, <1>2, <1>5, <1>6

\* The queues before and after a step.
LEMMA RetireView ==
  ASSUME AslInv, AslInv', NEW f \in Active, NEW a \in Addr, s_semAdd[f] = a,
         NEW q \in Seq(Pcb), retire(f, q),
         NEW queues, queues = [b \in Addr |-> QueueAt(b)],
         NEW queues2, queues2 = [b \in Addr |-> QueueAt(b)']
  PROVE  queues[a] = s_procQ[f] /\ queues2 = [queues EXCEPT ![a] = q]
<1>1. /\ s_semAdd' = s_semAdd /\ s_procQ' = [s_procQ EXCEPT ![f] = q]
      /\ q # <<>> => Active' = Active
      /\ q = <<>> => Active' = Active \ {f}
  BY RetireIs
<1>2. f \in Semd /\ DOMAIN s_procQ = Semd
  BY QueueOf DEF AslInv, TypeOK
<1>3. s_procQ'[f] = q /\ \A s \in Semd \ {f} : s_semAdd'[s] = s_semAdd[s] /\ s_procQ'[s] = s_procQ[s]
  BY <1>1, <1>2
<1>4. /\ Active \ {f} = Active' \ {f}
      /\ f \in Active => s_semAdd[f] = a
      /\ f \in Active' => s_semAdd'[f] = a
  BY <1>1
<1>5. /\ queues2 = [queues EXCEPT ![a] = queues2[a]]
      /\ f \in Active => queues[a] = s_procQ[f]
      /\ f \in Active' => queues2[a] = s_procQ'[f]
      /\ f \notin Active' /\ f \in Active => queues2[a] = <<>>
  BY <1>2, <1>3, <1>4, OneAddress
<1>6. queues2[a] = q
  BY <1>1, <1>3, <1>5
<1>. QED  BY <1>5, <1>6

LEMMA InsertView ==
  ASSUME AslInv, NEW a \in Addr, NEW p \in Pcb, insertBlocked(a, p),
         NEW queues, queues = [b \in Addr |-> QueueAt(b)],
         NEW queues2, queues2 = [b \in Addr |-> QueueAt(b)']
  PROVE  /\ \A b \in Addr : p \notin ToSet(queues[b])
         /\ queues2 = [queues EXCEPT ![a] = Append(queues[a], p)]
<1>1. AslInv'
  BY InsertBlockedInv
<1>2. \A b \in Addr : p \notin ToSet(queues[b])
  <2>1. ~Blocked(p)
    BY DEF insertBlocked
  <2>2. \A s \in Active : p \notin ToSet(s_procQ[s])
    BY <2>1, BlockedIs
  <2>3. p \notin ToSet(<<>>)
    <3>1. DOMAIN <<>> = {}
      OBVIOUS
    <3>. QED  BY <3>1 DEF ToSet
  <2>4. \A b \in Addr : queues[b] = <<>> \/ \E s \in Active : queues[b] = s_procQ[s]
    BY ViewHolds DEF View
  <2>. QED  BY <2>2, <2>3, <2>4
<1>3. CASE findSemd(a) # NULL
  <2>1. PICK f : f = findSemd(a)
    OBVIOUS
  <2>2. f \in Active /\ s_semAdd[f] = a
    BY <1>3, <2>1, FindSemd DEF AslInv
  <2>3. /\ s_procQ' = [s_procQ EXCEPT ![f] = Append(@, p)]
        /\ semdFree_h' = semdFree_h /\ s_next' = s_next /\ s_semAdd' = s_semAdd
    BY <1>3, <2>1 DEF insertBlocked
  <2>4. Active' = Active
    BY <2>3, ChainsKept DEF AslInv
  <2>5. f \in Semd /\ DOMAIN s_procQ = Semd
    BY <2>2, QueueOf DEF AslInv, TypeOK
  <2>6. /\ s_procQ'[f] = Append(s_procQ[f], p)
        /\ \A s \in Semd \ {f} : s_semAdd'[s] = s_semAdd[s] /\ s_procQ'[s] = s_procQ[s]
    BY <2>3, <2>5
  <2>7. /\ Active \ {f} = Active' \ {f}
        /\ f \in Active => s_semAdd[f] = a
        /\ f \in Active' => s_semAdd'[f] = a
    BY <2>2, <2>3, <2>4
  <2>8. /\ queues2 = [queues EXCEPT ![a] = queues2[a]]
        /\ queues[a] = s_procQ[f] /\ queues2[a] = s_procQ'[f]
    BY <1>1, <2>2, <2>4, <2>5, <2>6, <2>7, OneAddress
  <2>. QED  BY <1>2, <2>6, <2>8
<1>4. CASE findSemd(a) = NULL
  <2>1. PICK f : f = semdFree_h
    OBVIOUS
  <2>2. /\ f \notin Active /\ Active' = Active \cup {f}
        /\ s_semAdd' = [s_semAdd EXCEPT ![f] = a]
        /\ s_procQ' = [s_procQ EXCEPT ![f] = <<p>>]
    BY <1>4, <2>1, InsertBlockedInv
  <2>3. f \in Semd /\ DOMAIN s_procQ = Semd /\ DOMAIN s_semAdd = Semd
    <3>1. f \in Semd
      <4>1. f \in Semd \cup {NULL}
        BY <2>1 DEF AslInv, TypeOK
      <4>2. Active' \subseteq Semd
        <5>1. TypeOK' /\ Chains'
          BY <1>1 DEF AslInv
        <5>. QED  BY <5>1 DEF Chains, Active
      <4>. QED  BY <2>2, <4>2
    <3>. QED  BY <3>1 DEF AslInv, TypeOK
  <2>4. /\ s_procQ'[f] = <<p>> /\ s_semAdd'[f] = a
        /\ \A s \in Semd \ {f} : s_semAdd'[s] = s_semAdd[s] /\ s_procQ'[s] = s_procQ[s]
    BY <2>2, <2>3
  <2>5. /\ Active \ {f} = Active' \ {f}
        /\ f \in Active => s_semAdd[f] = a
        /\ f \in Active' => s_semAdd'[f] = a
    BY <2>2, <2>4
  <2>6. queues2 = [queues EXCEPT ![a] = queues2[a]] /\ queues2[a] = s_procQ'[f]
    BY <1>1, <2>2, <2>3, <2>4, <2>5, OneAddress
  <2>7. queues[a] = <<>>
    BY <1>4 DEF QueueAt
  <2>8. queues2[a] = Append(queues[a], p)
    <3>1. Append(<<>>, p) = <<p>>
      OBVIOUS
    <3>. QED  BY <2>4, <2>6, <2>7, <3>1
  <2>. QED  BY <1>2, <2>6, <2>8
<1>. QED  BY <1>3, <1>4

\* Implements: insertBlocked, removeBlocked and outBlocked work on one queue per
\* address, first in, first out, and insertion does not fail.
THEOREM AslImplements == Spec => Implements
<1>1. Init => Queues!Init
  <2>. SUFFICES ASSUME Init
                PROVE  Queues!Init
    OBVIOUS
  <2>1. AslInv
    BY InitInv
  <2>2. Active = {}
    <3>1. \A s \in Active : s_procQ[s] = <<>> /\ s_procQ[s] # <<>>
      BY <2>1, QueueOf DEF Init
    <3>. QED  BY <3>1
  <2>3. \A a \in Addr : QueueAt(a) = <<>>
    BY <2>1, <2>2, ViewHolds DEF View
  <2>. QED  BY <2>3 DEF Queues!Init
<1>2. AslInv /\ AslInv' /\ [Next]_vars => [Queues!Next]_([a \in Addr |-> QueueAt(a)])
  <2>. SUFFICES ASSUME AslInv, AslInv', [Next]_vars
                PROVE  [Queues!Next]_([a \in Addr |-> QueueAt(a)])
    OBVIOUS
  <2>1. PICK queues : queues = [a \in Addr |-> QueueAt(a)]
    OBVIOUS
  <2>2. PICK queues2 : queues2 = [a \in Addr |-> QueueAt(a)']
    OBVIOUS
  <2>3. ASSUME s_next' = s_next, s_semAdd' = s_semAdd, s_procQ' = s_procQ
        PROVE  UNCHANGED [a \in Addr |-> QueueAt(a)]
    BY <2>3 DEF QueueAt, findSemd, LastBefore, Asl
  <2>4. CASE UNCHANGED vars
    BY <2>3, <2>4 DEF vars
  <2>5. ASSUME NEW a \in Addr, removeBlocked(a)
        PROVE  Queues!removeBlocked(a)
    <3>1. PICK f : f = findSemd(a)
      OBVIOUS
    <3>2. /\ f \in Active /\ s_semAdd[f] = a /\ s_procQ[f] # <<>>
          /\ Tail(s_procQ[f]) \in Seq(Pcb) /\ retire(f, Tail(s_procQ[f]))
      <4>1. f \in Active /\ s_semAdd[f] = a
        BY <2>5, <3>1, FindSemd DEF AslInv, removeBlocked
      <4>2. s_procQ[f] # <<>> /\ Tail(s_procQ[f]) \in Seq(Pcb)
        BY <4>1, QueueOf, TailMember
      <4>. QED  BY <2>5, <3>1, <4>1, <4>2 DEF removeBlocked
    <3>3. PICK q \in Seq(Pcb) : q = Tail(s_procQ[f]) /\ retire(f, q)
      BY <3>2
    <3>4. queues[a] = s_procQ[f] /\ queues2 = [queues EXCEPT ![a] = q]
      <4>1. f \in Active /\ s_semAdd[f] = a
        BY <3>2
      <4>2. retire(f, q)
        BY <3>3
      <4>. QED  BY <2>1, <2>2, <4>1, <4>2, RetireView
    <3>5. queues[a] # <<>> /\ queues2 = [queues EXCEPT ![a] = Tail(queues[a])]
      BY <3>2, <3>3, <3>4
    <3>. QED  BY <2>1, <2>2, <3>5 DEF Queues!removeBlocked
  <2>6. ASSUME NEW a \in Addr, NEW p \in Pcb, insertBlocked(a, p)
        PROVE  Queues!insertBlocked(a, p)
    <3>1. /\ \A b \in Addr : p \notin ToSet(queues[b])
          /\ queues2 = [queues EXCEPT ![a] = Append(queues[a], p)]
      BY <2>1, <2>2, <2>6, InsertView
    <3>2. \A q \in Queues!Range(queues) : p \notin Queues!ToSet(q)
      BY <2>1, <3>1 DEF Queues!Range, Queues!ToSet, ToSet
    <3>. QED  BY <2>1, <2>2, <3>1, <3>2 DEF Queues!insertBlocked
  <2>7. ASSUME NEW p \in Pcb, outBlocked(p)
        PROVE  Queues!outBlocked(p)
    <3>1. PICK a, f : a = p_semAdd[p] /\ f = findSemd(a)
      OBVIOUS
    <3>2. /\ a \in Addr /\ f # NULL /\ p \in ToSet(s_procQ[f])
          /\ retire(f, RemoveFirst(s_procQ[f], p))
      BY <2>7, <3>1 DEF outBlocked, AslInv, TypeOK
    <3>3. f \in Active /\ s_semAdd[f] = a
      BY <3>1, <3>2, FindSemd DEF AslInv
    <3>4. PICK q \in Seq(Pcb) : q = RemoveFirst(s_procQ[f], p) /\ retire(f, q)
      BY <3>2, <3>3, QueueOf, RemoveMember
    <3>5. queues[a] = s_procQ[f] /\ queues2 = [queues EXCEPT ![a] = q]
      BY <2>1, <2>2, <3>2, <3>3, <3>4, RetireView
    <3>6. p \in ToSet(queues[a]) /\ queues2 = [queues EXCEPT ![a] = RemoveFirst(queues[a], p)]
      BY <3>2, <3>4, <3>5
    <3>7. PICK s : s = queues[a]
      OBVIOUS
    <3>8. Queues!ToSet(s) = ToSet(s)
      BY DEF Queues!ToSet, ToSet
    <3>9. Queues!RemoveFirst(s, p) = RemoveFirst(s, p)
      BY Zenon DEF Queues!RemoveFirst, RemoveFirst, Queues!RemoveAt, RemoveAt,
             Queues!SelectInSeq, SelectInSeq, Queues!Min, Min
    <3>. QED  BY <2>1, <2>2, <3>2, <3>6, <3>7, <3>8, <3>9 DEF Queues!outBlocked
  <2>8. ASSUME NEW p \in Pcb, allocPcb(p)
        PROVE  UNCHANGED [a \in Addr |-> QueueAt(a)]
    BY <2>3, <2>8 DEF allocPcb
  <2>. QED  BY <2>4, <2>5, <2>6, <2>7, <2>8 DEF Next, Queues!Next
<1>. QED  BY <1>1, <1>2, AslInvariant, PTL DEF Spec, Implements, Queues!Spec
=============================================================================
