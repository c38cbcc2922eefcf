------------------------------ MODULE PcbProofs ------------------------------
(***************************************************************************)
(* Proofs about module Pcb, for any number of pcbs and queues: the free    *)
(* list, the rings of the process queues and the families of the process   *)
(* tree as sequences of pcbs, and what each operation of pcb.c does to the *)
(* pointers of the pcbs next to the one it moves.                          *)
(***************************************************************************)
EXTENDS Pcb, ListLemmas

\* Q is the queue with tail pointer t: a ring in both directions.
Ring(Q, t, next, prev) ==
  /\ Q \in Seq(Pcb) /\ IsInjective(Q)
  /\ t = NULL => Q = <<>>
  /\ t # NULL => /\ Q # <<>> /\ t = Q[Len(Q)]
                 /\ next[Q[Len(Q)]] = Q[1] /\ prev[Q[1]] = Q[Len(Q)]
                 /\ \A i \in 1 .. Len(Q) - 1 : next[Q[i]] = Q[i+1] /\ prev[Q[i+1]] = Q[i]

\* C are the children of a, linked to their right and to their left.
Family(a, C, first, right, left, prnt) ==
  /\ IsList(C, first, right, NULL)
  /\ C # <<>> => left[C[1]] = NULL
  /\ \A i \in 1 .. Len(C) - 1 : left[C[i+1]] = C[i]
  /\ \A x \in ToSet(C) : prnt[x] = a

QueueInv ==
  /\ IsList(FreeList, pcbFree_h, p_next, NULL)
  /\ \A q \in Queue :
       /\ Ring(QueueOf(q), tp[q], p_next, p_prev)
       /\ ToSet(QueueOf(q)) \cap ToSet(FreeList) = {}
  /\ \A q, r \in Queue : q # r => ToSet(QueueOf(q)) \cap ToSet(QueueOf(r)) = {}

TreeInv ==
  /\ \A a \in Pcb : Family(a, Children(a), p_child[a], p_sib_right, p_sib_left, p_prnt)
  /\ \A p \in Pcb :
       /\ p_prnt[p] = NULL => p_sib_left[p] = NULL /\ p_sib_right[p] = NULL
       /\ p_prnt[p] # NULL => p \in ToSet(Children(p_prnt[p]))

\* A free pcb has no place in the tree.
FreeInv == \A p \in ToSet(FreeList) : p_prnt[p] = NULL /\ p_child[p] = NULL

PcbInv == TypeOK /\ QueueInv /\ TreeInv /\ FreeInv

-----------------------------------------------------------------------------
(* Sequences. *)

LEMMA SeqFacts ==
  ASSUME NEW S, NEW s \in Seq(S)
  PROVE  /\ Len(s) \in Nat /\ DOMAIN s = 1 .. Len(s) /\ (s = <<>> <=> Len(s) = 0)
         /\ \A i \in 1 .. Len(s) : s[i] \in S /\ s[i] \in ToSet(s)
         /\ ToSet(s) \subseteq S
  BY LenProperties, EmptySeq, ElementOfSeq DEF ToSet

LEMMA Single ==
  ASSUME NEW S, NEW x \in S
  PROVE  \E one \in Seq(S) : /\ one = <<x>> /\ Len(one) = 1 /\ one[1] = x /\ DOMAIN one = 1 .. 1
                             /\ one # <<>> /\ IsInjective(one) /\ ToSet(one) = {x}
<1>1. <<x>> \in Seq(S) /\ Len(<<x>>) = 1 /\ <<x>>[1] = x
  OBVIOUS
<1>2. PICK one : one = <<x>>
  OBVIOUS
<1>3. one \in Seq(S) /\ Len(one) = 1 /\ one[1] = x
  BY <1>1, <1>2
<1>4. DOMAIN one = 1 .. 1 /\ one # <<>>
  <2>1. DOMAIN one = 1 .. Len(one) /\ (one = <<>> <=> Len(one) = 0)
    BY <1>3, SeqFacts
  <2>. QED  BY <1>3, <2>1
<1>5. IsInjective(one) /\ ToSet(one) = {x}
  BY <1>3, <1>4 DEF IsInjective, ToSet
<1>. QED  BY <1>2, <1>3, <1>4, <1>5

\* The first of a queue is removed: what is left is the tail.
LEMMA RemoveHead ==
  ASSUME NEW S, NEW s \in Seq(S), IsInjective(s), s # <<>>
  PROVE  Head(s) = s[1] /\ RemoveFirst(s, s[1]) = Tail(s)
<1>1. Len(s) \in Nat /\ Len(s) # 0 /\ Head(s) = s[1]
  BY SeqFacts, HeadTailProperties
<1>2. /\ Tail(s) \in Seq(S) /\ Len(Tail(s)) = Len(s) - 1
      /\ \A i \in 1 .. Len(s) - 1 : Tail(s)[i] = s[i+1]
  BY HeadTailProperties
<1>3. 1 \in 1 .. Len(s)
  BY <1>1
<1>4. PICK x : x = s[1]
  OBVIOUS
<1>5. PICK r : r = RemoveFirst(s, x)
  OBVIOUS
<1>6. /\ r \in Seq(S) /\ Len(r) = Len(s) - 1
      /\ \A i \in 1 .. Len(s) - 1 : r[i] = IF i < 1 THEN s[i] ELSE s[i+1]
  BY <1>3, <1>4, <1>5, RemoveForm
<1>7. \A i \in 1 .. Len(s) - 1 : r[i] = Tail(s)[i]
  BY <1>2, <1>6
<1>8. r = Tail(s)
  <2>1. PICK u \in Seq(S) : u = Tail(s)
    BY <1>2
  <2>. QED  BY <1>2, <1>6, <1>7, <2>1, SeqEqual
<1>. QED  BY <1>1, <1>4, <1>5, <1>8

\* One node in front of a list.
LEMMA InsertedFirst ==
  ASSUME NEW S, NEW s \in Seq(S), NEW x \in S
  PROVE  Inserted(x, s, 0) = <<x>> \o s
<1>1. PICK one \in Seq(S) : one = <<x>> /\ Len(one) = 1 /\ one[1] = x
  BY Single
<1>2. Len(s) \in Nat
  BY LenProperties
<1>3. PICK n \in Nat : n = Len(s)
  BY <1>2
<1>4. /\ one \o s \in Seq(S) /\ Len(one \o s) = 1 + n
      /\ \A i \in 1 .. 1 + n : (one \o s)[i] = IF i <= 1 THEN one[i] ELSE s[i - 1]
  BY <1>1, <1>3, ConcatProperties
<1>5. PICK u \in Seq(S) : u = one \o s
  BY <1>4
<1>6. u = [i \in 1 .. n + 1 |-> u[i]]
  <2>1. Len(u) = n + 1
    BY <1>3, <1>4, <1>5
  <2>. QED  BY <2>1, LenProperties
<1>7. \A i \in 1 .. n + 1 : u[i] = IF i <= 0 THEN s[i] ELSE IF i = 0 + 1 THEN x ELSE s[i-1]
  BY <1>1, <1>4, <1>5
<1>8. u = Inserted(x, s, 0)
  BY <1>3, <1>6, <1>7 DEF Inserted
<1>. QED  BY <1>1, <1>5, <1>8

-----------------------------------------------------------------------------
(* Rings. *)

\* The walk from the head of a ring up to its tail.
LEMMA RingWalk ==
  ASSUME NEW Q, NEW t, NEW next, NEW prev, DOMAIN next = Pcb, Ring(Q, t, next, prev), t # NULL
  PROVE  Walk(next[t], [next EXCEPT ![t] = NULL], NULL) = Q
<1>1. Q \in Seq(Pcb) /\ IsInjective(Q) /\ Q # <<>> /\ t = Q[Len(Q)] /\ next[t] = Q[1]
      /\ \A i \in 1 .. Len(Q) - 1 : next[Q[i]] = Q[i+1]
  BY DEF Ring
<1>2. Len(Q) \in Nat /\ Len(Q) # 0 /\ DOMAIN Q = 1 .. Len(Q) /\ \A i \in 1 .. Len(Q) : Q[i] \in Pcb
  BY <1>1, SeqFacts
<1>3. PICK cut : cut = [next EXCEPT ![t] = NULL]
  OBVIOUS
<1>4. t \in Pcb /\ DOMAIN cut = Pcb /\ cut[t] = NULL /\ \A x \in Pcb \ {t} : cut[x] = next[x]
  BY <1>1, <1>2, <1>3
<1>5. \A i \in 1 .. Len(Q) - 1 : cut[Q[i]] = Q[i+1]
  <2>. SUFFICES ASSUME NEW i \in 1 .. Len(Q) - 1
                PROVE  cut[Q[i]] = Q[i+1]
    OBVIOUS
  <2>1. i \in 1 .. Len(Q) /\ Len(Q) \in 1 .. Len(Q) /\ i # Len(Q)
    <3>1. PICK n \in Nat : n = Len(Q) /\ n # 0
      BY <1>2
    <3>2. i \in 1 .. n - 1
      BY <3>1
    <3>. QED  BY <3>1, <3>2
  <2>2. Q[i] # t /\ Q[i] \in Pcb
    BY <1>1, <1>2, <2>1 DEF IsInjective
  <2>. QED  BY <1>1, <1>4, <2>2
<1>6. IsList(Q, next[t], cut, NULL)
  BY <1>1, <1>4, <1>5 DEF IsList
<1>7. IsFiniteSet(DOMAIN cut) /\ NULL \notin DOMAIN cut
  BY <1>4, PointerAssumption
<1>. QED  BY <1>3, <1>6, <1>7, WalkOfList

\* Writes to pcbs that are not in a queue leave it as it is.
LEMMA RingElsewhere ==
  ASSUME NEW Q, NEW t, NEW next, NEW prev, Ring(Q, t, next, prev),
         NEW next2, NEW prev2, \A x \in ToSet(Q) : next2[x] = next[x] /\ prev2[x] = prev[x]
  PROVE  Ring(Q, t, next2, prev2)
<1>1. /\ Len(Q) \in Nat /\ (Q = <<>> <=> Len(Q) = 0)
      /\ \A i \in 1 .. Len(Q) : next2[Q[i]] = next[Q[i]] /\ prev2[Q[i]] = prev[Q[i]]
  BY SeqFacts DEF Ring
<1>2. /\ \A i \in 1 .. Len(Q) - 1 : i \in 1 .. Len(Q) /\ i + 1 \in 1 .. Len(Q)
      /\ Q # <<>> => 1 \in 1 .. Len(Q) /\ Len(Q) \in 1 .. Len(Q)
  BY <1>1
<1>. QED  BY <1>1, <1>2 DEF Ring

LEMMA RingSingle ==
  ASSUME NEW p \in Pcb, NEW next2, NEW prev2, next2[p] = p, prev2[p] = p
  PROVE  Ring(<<p>>, p, next2, prev2)
<1>1. PICK Q \in Seq(Pcb) : Q = <<p>> /\ Len(Q) = 1 /\ Q[1] = p /\ Q # <<>> /\ IsInjective(Q)
  BY Single
<1>. QED  BY <1>1, PointerAssumption DEF Ring

\* A pcb becomes the tail of a queue that is not empty.
LEMMA RingAppend ==
  ASSUME NEW Q, NEW t, NEW next, NEW prev, Ring(Q, t, next, prev), t # NULL,
         NEW p \in Pcb, p \notin ToSet(Q), NEW next2, NEW prev2,
         next2[p] = next[t], next2[t] = p, \A x \in ToSet(Q) \ {t} : next2[x] = next[x],
         prev2[p] = t, prev2[next[t]] = p, \A x \in ToSet(Q) \ {next[t]} : prev2[x] = prev[x]
  PROVE  Ring(Append(Q, p), p, next2, prev2)
<1>1. /\ Q \in Seq(Pcb) /\ IsInjective(Q) /\ Q # <<>> /\ t = Q[Len(Q)]
      /\ next[Q[Len(Q)]] = Q[1] /\ prev[Q[1]] = Q[Len(Q)]
      /\ \A i \in 1 .. Len(Q) - 1 : next[Q[i]] = Q[i+1] /\ prev[Q[i+1]] = Q[i]
  BY DEF Ring
<1>2. PICK n \in Nat : n = Len(Q) /\ n # 0
  BY <1>1, SeqFacts
<1>3. DOMAIN Q = 1 .. n /\ \A i \in 1 .. n : Q[i] \in Pcb /\ Q[i] \in ToSet(Q)
  BY <1>1, <1>2, SeqFacts
<1>4. PICK R : R = Append(Q, p)
  OBVIOUS
<1>5. /\ R \in Seq(Pcb) /\ IsInjective(R) /\ Len(R) = n + 1 /\ R[n+1] = p
      /\ \A i \in 1 .. n : R[i] = Q[i]
  BY <1>1, <1>2, <1>4, AppendMember, AppendProperties
<1>6. \A i \in 1 .. n : i # n => Q[i] # t
  BY <1>1, <1>2, <1>3 DEF IsInjective
<1>7. \A i \in 1 .. n : i # 1 => Q[i] # next[t]
  <2>1. 1 \in 1 .. n /\ next[t] = Q[1]
    BY <1>1, <1>2
  <2>. QED  BY <1>1, <1>3, <2>1 DEF IsInjective
<1>8. ASSUME NEW i \in 1 .. n
      PROVE  next2[R[i]] = R[i+1] /\ prev2[R[i+1]] = R[i]
  <2>1. CASE i = n
    BY <1>1, <1>2, <1>5, <2>1
  <2>2. CASE i # n
    <3>1. i \in 1 .. n - 1 /\ i + 1 \in 1 .. n /\ i + 1 # 1
      BY <1>2, <2>2
    <3>2. next2[Q[i]] = next[Q[i]] /\ prev2[Q[i+1]] = prev[Q[i+1]]
      BY <1>3, <1>6, <1>7, <2>2, <3>1
    <3>. QED  BY <1>1, <1>2, <1>5, <3>1, <3>2
  <2>. QED  BY <2>1, <2>2
<1>9. next2[R[n+1]] = R[1] /\ prev2[R[1]] = R[n+1]
  <2>1. R[1] = Q[1] /\ next[t] = Q[1]
    BY <1>1, <1>2, <1>5
  <2>. QED  BY <1>5, <2>1
<1>10. R # <<>> /\ p # NULL
  <2>1. Len(R) # 0
    BY <1>5
  <2>. QED  BY <1>5, <2>1, SeqFacts, PointerAssumption
<1>11. Len(R) - 1 = n
  BY <1>5
<1>12. Ring(R, p, next2, prev2)
  BY <1>5, <1>8, <1>9, <1>10, <1>11 DEF Ring
<1>. QED  BY <1>4, <1>12

\* A pcb leaves a queue that it does not leave empty.
LEMMA RingRemove ==
  ASSUME NEW Q, NEW t, NEW next, NEW prev, Ring(Q, t, next, prev), t # NULL,
         NEW p \in ToSet(Q), ~(t = p /\ next[p] = p), NEW next2, NEW prev2,
         next2[prev[p]] = next[p], \A x \in ToSet(Q) \ {p, prev[p]} : next2[x] = next[x],
         prev2[next[p]] = prev[p], \A x \in ToSet(Q) \ {p, next[p]} : prev2[x] = prev[x]
  PROVE  /\ Ring(RemoveFirst(Q, p), IF t = p THEN prev[p] ELSE t, next2, prev2)
         /\ prev[p] \in ToSet(Q) \ {p} /\ next[p] \in ToSet(Q) \ {p}
<1>1. /\ Q \in Seq(Pcb) /\ IsInjective(Q) /\ Q # <<>> /\ t = Q[Len(Q)]
      /\ next[Q[Len(Q)]] = Q[1] /\ prev[Q[1]] = Q[Len(Q)]
      /\ \A i \in 1 .. Len(Q) - 1 : next[Q[i]] = Q[i+1] /\ prev[Q[i+1]] = Q[i]
  BY DEF Ring
<1>2. PICK n \in Nat : n = Len(Q) /\ n # 0
  BY <1>1, SeqFacts
<1>3. DOMAIN Q = 1 .. n /\ \A i \in 1 .. n : Q[i] \in Pcb /\ Q[i] \in ToSet(Q)
  BY <1>1, <1>2, SeqFacts
<1>4. PICK k \in 1 .. n : Q[k] = p
  BY <1>3 DEF ToSet
<1>5. \A i, j \in 1 .. n : Q[i] = Q[j] => i = j
  BY <1>1, <1>3 DEF IsInjective
<1>6. n >= 2
  <2>. SUFFICES ASSUME n = 1
                PROVE  FALSE
    BY <1>2
  <2>1. k = 1 /\ Len(Q) = 1
    BY <1>2
  <2>2. Q[1] = p
    BY <1>4, <2>1
  <2>3. t = p /\ next[p] = p
    BY <1>1, <2>1, <2>2
  <2>. QED  BY <2>3
<1>7. PICK r : r = RemoveFirst(Q, p)
  OBVIOUS
<1>8. /\ r \in Seq(Pcb) /\ IsInjective(r) /\ Len(r) = n - 1
      /\ \A i \in 1 .. n - 1 : r[i] = IF i < k THEN Q[i] ELSE Q[i+1]
  <2>1. k \in 1 .. Len(Q) /\ p = Q[k]
    BY <1>2, <1>4
  <2>0. Q \in Seq(Pcb) /\ IsInjective(Q)
    BY <1>1
  <2>2. LET u == RemoveFirst(Q, p) IN
        /\ u \in Seq(Pcb) /\ Len(u) = Len(Q) - 1 /\ DOMAIN u = 1 .. Len(Q) - 1
        /\ \A i \in 1 .. Len(Q) - 1 : u[i] = IF i < k THEN Q[i] ELSE Q[i+1]
    BY <2>0, <2>1, RemoveForm, SMTT(60)
  <2>3. IsInjective(r)
    BY <1>1, <1>7, RemoveMember
  <2>. QED  BY <1>2, <1>7, <2>2, <2>3
\* The neighbours of p in the ring.
<1>9. PICK b \in 1 .. n : b = IF k = 1 THEN n ELSE k - 1
  BY <1>2, <1>4
<1>10. PICK c \in 1 .. n : c = IF k = n THEN 1 ELSE k + 1
  BY <1>2, <1>4
<1>11. prev[p] = Q[b] /\ b # k
  <2>1. CASE k = 1
    BY <1>1, <1>2, <1>4, <1>6, <1>9, <2>1
  <2>2. CASE k # 1
    <3>1. k - 1 \in 1 .. n - 1 /\ (k - 1) + 1 = k
      BY <2>2
    <3>. QED  BY <1>1, <1>2, <1>4, <1>9, <2>2, <3>1
  <2>. QED  BY <2>1, <2>2
<1>12. next[p] = Q[c] /\ c # k
  <2>1. CASE k = n
    BY <1>1, <1>2, <1>4, <1>6, <1>10, <2>1
  <2>2. CASE k # n
    <3>1. k \in 1 .. n - 1
      BY <2>2
    <3>. QED  BY <1>1, <1>2, <1>4, <1>10, <2>2, <3>1
  <2>. QED  BY <2>1, <2>2
<1>13. next2[Q[b]] = Q[c] /\ prev2[Q[c]] = Q[b]
  BY <1>11, <1>12
<1>14. \A i \in 1 .. n : i # k /\ i # b => next2[Q[i]] = next[Q[i]]
  BY <1>3, <1>4, <1>5, <1>11
<1>15. \A i \in 1 .. n : i # k /\ i # c => prev2[Q[i]] = prev[Q[i]]
  BY <1>3, <1>4, <1>5, <1>12
<1>16. ASSUME NEW i \in 1 .. n - 2
       PROVE  next2[r[i]] = r[i+1] /\ prev2[r[i+1]] = r[i]
  <2>1. CASE i + 1 < k
    <3>1. /\ r[i] = Q[i] /\ r[i+1] = Q[i+1] /\ i \in 1 .. n - 1 /\ i \in 1 .. n /\ i + 1 \in 1 .. n
          /\ i # k /\ i # b /\ i + 1 # k /\ i + 1 # c
      BY <1>8, <1>9, <1>10, <2>1
    <3>. QED  BY <1>1, <1>2, <1>14, <1>15, <3>1
  <2>2. CASE i + 1 = k
    <3>1. r[i] = Q[b] /\ r[i+1] = Q[c]
      BY <1>8, <1>9, <1>10, <2>2
    <3>. QED  BY <1>13, <3>1
  <2>3. CASE i >= k
    <3>1. PICK j \in 1 .. n : j = i + 1
      OBVIOUS
    <3>2. /\ r[i] = Q[j] /\ r[j] = Q[j+1] /\ j \in 1 .. n - 1 /\ j + 1 \in 1 .. n
          /\ j # k /\ j # b /\ j + 1 # k /\ j + 1 # c
      BY <1>8, <1>9, <1>10, <2>3, <3>1
    <3>. QED  BY <1>1, <1>2, <1>14, <1>15, <3>1, <3>2
  <2>. QED  BY <2>1, <2>2, <2>3
<1>17. PICK m \in Nat : m = n - 1 /\ m \in 1 .. n - 1 /\ 1 \in 1 .. n - 1
  BY <1>6
<1>18. r[m] = (IF t = p THEN prev[p] ELSE t) /\ next2[r[m]] = r[1] /\ prev2[r[1]] = r[m]
  <2>1. t = Q[n] /\ next[Q[n]] = Q[1] /\ prev[Q[1]] = Q[n] /\ n \in 1 .. n /\ 1 \in 1 .. n
    BY <1>1, <1>2
  <2>2. CASE k = n
    <3>1. t = p /\ r[m] = Q[b] /\ r[1] = Q[c]
      BY <1>4, <1>6, <1>8, <1>9, <1>10, <1>17, <2>1, <2>2
    <3>. QED  BY <1>11, <1>13, <3>1
  <2>3. CASE k = 1
    <3>1. r[m] = Q[b] /\ r[1] = Q[c] /\ b = n /\ t # p
      BY <1>4, <1>5, <1>6, <1>8, <1>9, <1>10, <1>17, <2>1, <2>3
    <3>. QED  BY <1>13, <2>1, <3>1
  <2>4. CASE k # 1 /\ k # n
    <3>1. r[m] = Q[n] /\ r[1] = Q[1] /\ t # p /\ n # k /\ n # b /\ 1 # k /\ 1 # c
      BY <1>4, <1>5, <1>8, <1>9, <1>10, <1>17, <2>1, <2>4
    <3>. QED  BY <1>14, <1>15, <2>1, <3>1
  <2>. QED  BY <2>2, <2>3, <2>4
<1>19. prev[p] \in ToSet(Q) \ {p} /\ next[p] \in ToSet(Q) \ {p}
  BY <1>3, <1>4, <1>5, <1>11, <1>12
<1>20. (IF t = p THEN prev[p] ELSE t) # NULL
  BY <1>1, <1>2, <1>3, <1>19, SeqFacts, PointerAssumption
<1>21. r # <<>> /\ Len(r) = m /\ Len(r) - 1 = n - 2
  <2>1. Len(r) # 0
    BY <1>6, <1>8
  <2>. QED  BY <1>8, <1>17, <2>1, SeqFacts
<1>22. Ring(r, IF t = p THEN prev[p] ELSE t, next2, prev2)
  BY <1>8, <1>16, <1>18, <1>20, <1>21 DEF Ring
<1>. QED  BY <1>7, <1>19, <1>22

-----------------------------------------------------------------------------
(* Families. *)

LEMMA FamilyElsewhere ==
  ASSUME NEW a, NEW C, NEW first, NEW right, NEW left, NEW prnt,
         Family(a, C, first, right, left, prnt),
         NEW right2, NEW left2, NEW prnt2, DOMAIN right2 = DOMAIN right,
         \A x \in ToSet(C) : right2[x] = right[x] /\ left2[x] = left[x] /\ prnt2[x] = prnt[x]
  PROVE  Family(a, C, first, right2, left2, prnt2)
<1>1. IsList(C, first, right, NULL) /\ C \in Seq(DOMAIN right)
  BY DEF Family, IsList
<1>2. IsList(C, first, right2, NULL)
  BY <1>1, ListElsewhere
<1>3. /\ Len(C) \in Nat /\ (C = <<>> <=> Len(C) = 0)
      /\ \A i \in 1 .. Len(C) : C[i] \in ToSet(C)
  BY <1>1, SeqFacts
<1>4. /\ \A i \in 1 .. Len(C) - 1 : i + 1 \in 1 .. Len(C)
      /\ C # <<>> => 1 \in 1 .. Len(C)
  BY <1>3
<1>. QED  BY <1>2, <1>3, <1>4 DEF Family

\* A pcb becomes the first child.
LEMMA FamilyPush ==
  ASSUME NEW a, NEW C, NEW first, NEW right, NEW left, NEW prnt,
         Family(a, C, first, right, left, prnt), DOMAIN right = Pcb,
         NEW p \in Pcb, p \notin ToSet(C),
         NEW right2, NEW left2, NEW prnt2, DOMAIN right2 = Pcb,
         right2[p] = first, \A x \in ToSet(C) : right2[x] = right[x],
         left2[p] = NULL, first # NULL => left2[first] = p,
         \A x \in ToSet(C) \ {first} : left2[x] = left[x],
         prnt2[p] = a, \A x \in ToSet(C) : prnt2[x] = prnt[x]
  PROVE  Family(a, Inserted(p, C, 0), p, right2, left2, prnt2)
<1>1. IsList(C, first, right, NULL) /\ NULL \notin Pcb
  BY PointerAssumption DEF Family
<1>2. /\ C \in Seq(Pcb) /\ IsInjective(C) /\ Len(C) \in Nat /\ DOMAIN C = 1 .. Len(C)
      /\ (first = NULL <=> C = <<>>) /\ (C = <<>> <=> Len(C) = 0)
      /\ first # NULL => first = C[1]
  BY <1>1, ListFirst
<1>3. PICK n \in Nat : n = Len(C)
  BY <1>2
<1>4. /\ C # <<>> => left[C[1]] = NULL
      /\ \A i \in 1 .. n - 1 : left[C[i+1]] = C[i]
      /\ \A x \in ToSet(C) : prnt[x] = a
      /\ \A i \in 1 .. n : C[i] \in ToSet(C)
  BY <1>2, <1>3 DEF Family, ToSet
<1>5. PICK r : r = Inserted(p, C, 0)
  OBVIOUS
<1>6. /\ r \in Seq(Pcb) /\ Len(r) = n + 1 /\ ToSet(r) = ToSet(C) \cup {p}
      /\ \A j \in 1 .. n + 1 : r[j] = IF j <= 0 THEN C[j] ELSE IF j = 0 + 1 THEN p ELSE C[j-1]
  <2>1. 0 \in 0 .. Len(C)
    BY <1>2
  <2>. QED  BY <1>2, <1>3, <1>5, <2>1, InsertedIs
<1>7. IsList(r, p, right2, NULL)
  <2>1. DOMAIN right2 = DOMAIN right /\ p \in DOMAIN right /\ NULL \notin DOMAIN right
    BY <1>1
  <2>. QED  BY <1>1, <1>5, <2>1, ListPush
<1>8. r[1] = p
  BY <1>6
<1>9. ASSUME NEW i \in 1 .. n
      PROVE  left2[r[i+1]] = r[i]
  <2>1. r[i+1] = C[i]
    BY <1>6
  <2>2. CASE i = 1
    <3>1. first # NULL /\ first = C[i] /\ r[i] = p
      BY <1>2, <1>3, <1>8, <2>2
    <3>. QED  BY <2>1, <3>1
  <2>3. CASE i # 1
    <3>1. i - 1 \in 1 .. n - 1 /\ (i - 1) + 1 = i /\ 1 \in 1 .. n /\ r[i] = C[i-1]
      BY <1>6, <2>3
    <3>2. C[i] # first /\ C[i] \in ToSet(C)
      <4>1. first = C[1]
        BY <1>2, <1>3, <3>1
      <4>. QED  BY <1>2, <1>3, <1>4, <2>3, <3>1, <4>1 DEF IsInjective
    <3>3. left[C[(i-1)+1]] = C[i-1]
      BY <1>4, <3>1
    <3>. QED  BY <2>1, <3>1, <3>2, <3>3
  <2>. QED  BY <2>2, <2>3
<1>10. \A x \in ToSet(r) : prnt2[x] = a
  BY <1>4, <1>6
<1>11. Len(r) - 1 = n
  BY <1>6
<1>12. Family(a, r, p, right2, left2, prnt2)
  BY <1>7, <1>8, <1>9, <1>10, <1>11 DEF Family
<1>. QED  BY <1>5, <1>12

\* A child leaves its siblings.
LEMMA FamilyRemove ==
  ASSUME NEW a, NEW C, NEW first, NEW right, NEW left, NEW prnt,
         Family(a, C, first, right, left, prnt), DOMAIN right = Pcb,
         NEW p \in ToSet(C),
         NEW right2, NEW left2, NEW prnt2, DOMAIN right2 = Pcb,
         left[p] # NULL => right2[left[p]] = right[p],
         \A x \in ToSet(C) \ {p, left[p]} : right2[x] = right[x],
         right[p] # NULL => left2[right[p]] = left[p],
         \A x \in ToSet(C) \ {p, right[p]} : left2[x] = left[x],
         \A x \in ToSet(C) \ {p} : prnt2[x] = prnt[x]
  PROVE  /\ Family(a, RemoveFirst(C, p), IF first = p THEN right[p] ELSE first, right2, left2, prnt2)
         /\ first = p => RemoveFirst(C, p) = Tail(C)
         /\ left[p] \in (ToSet(C) \cup {NULL}) \ {p} /\ right[p] \in (ToSet(C) \cup {NULL}) \ {p}
<1>1. IsList(C, first, right, NULL) /\ NULL \notin Pcb
  BY PointerAssumption DEF Family
<1>2. /\ C \in Seq(Pcb) /\ IsInjective(C) /\ Len(C) \in Nat /\ DOMAIN C = 1 .. Len(C)
      /\ (first = NULL <=> C = <<>>) /\ (C = <<>> <=> Len(C) = 0)
      /\ first # NULL => first = C[1]
  BY <1>1, ListFirst
<1>3. PICK n \in Nat : n = Len(C)
  BY <1>2
<1>4. PICK k \in 1 .. n : C[k] = p
  BY <1>2, <1>3 DEF ToSet
<1>5. n # 0 /\ C # <<>> /\ first = C[1]
  BY <1>2, <1>3, <1>4
<1>6. /\ \A i, j \in 1 .. n : C[i] = C[j] => i = j
      /\ \A i \in 1 .. n : C[i] \in ToSet(C) /\ C[i] # NULL
  BY <1>1, <1>2, <1>3, SeqFacts DEF IsInjective
<1>7. /\ left[C[1]] = NULL /\ right[C[n]] = NULL
      /\ \A i \in 1 .. n - 1 : left[C[i+1]] = C[i] /\ right[C[i]] = C[i+1]
      /\ \A x \in ToSet(C) : prnt[x] = a
  BY <1>3, <1>5 DEF Family, IsList
<1>8. PICK r : r = RemoveFirst(C, p)
  OBVIOUS
<1>9. /\ r \in Seq(Pcb) /\ Len(r) = n - 1 /\ ToSet(r) = ToSet(C) \ {p}
      /\ \A i \in 1 .. n - 1 : r[i] = IF i < k THEN C[i] ELSE C[i+1]
  <2>1. k \in 1 .. Len(C) /\ p = C[k] /\ C \in Seq(Pcb) /\ IsInjective(C)
    BY <1>2, <1>3, <1>4
  <2>2. LET u == RemoveFirst(C, p) IN
        /\ u \in Seq(Pcb) /\ Len(u) = Len(C) - 1 /\ DOMAIN u = 1 .. Len(C) - 1
        /\ \A i \in 1 .. Len(C) - 1 : u[i] = IF i < k THEN C[i] ELSE C[i+1]
    BY <2>1, RemoveForm
  <2>3. ToSet(r) = ToSet(C) \ {p}
    BY <1>2, <1>8, RemoveMember
  <2>. QED  BY <1>3, <1>8, <2>2, <2>3
<1>10. /\ k = 1 => left[p] = NULL
       /\ k # 1 => left[p] = C[k-1] /\ k - 1 \in 1 .. n
  <2>1. CASE k = 1
    BY <1>4, <1>7, <2>1
  <2>2. CASE k # 1
    <3>1. k - 1 \in 1 .. n - 1 /\ (k - 1) + 1 = k /\ k - 1 \in 1 .. n
      BY <2>2
    <3>. QED  BY <1>4, <1>7, <2>2, <3>1
  <2>. QED  BY <2>1, <2>2
<1>11. /\ k = n => right[p] = NULL
       /\ k # n => right[p] = C[k+1] /\ k + 1 \in 1 .. n
  <2>1. CASE k = n
    BY <1>4, <1>7, <2>1
  <2>2. CASE k # n
    <3>1. k \in 1 .. n - 1 /\ k + 1 \in 1 .. n
      BY <2>2
    <3>. QED  BY <1>4, <1>7, <2>2, <3>1
  <2>. QED  BY <2>1, <2>2
<1>12. left[p] \in (ToSet(C) \cup {NULL}) \ {p} /\ right[p] \in (ToSet(C) \cup {NULL}) \ {p}
  <2>1. left[p] # p
    BY <1>4, <1>6, <1>10
  <2>2. right[p] # p
    BY <1>4, <1>6, <1>11
  <2>. QED  BY <1>6, <1>10, <1>11, <2>1, <2>2
<1>13. DOMAIN right2 = DOMAIN right /\ NULL \notin DOMAIN right /\ IsFiniteSet(DOMAIN right)
  BY <1>1, PointerAssumption
<1>14. IsList(r, IF first = p THEN right[p] ELSE first, right2, NULL) /\ (first = p => r = Tail(C))
  <2>1. CASE k = 1
    <3>1. first = p /\ p # NULL /\ left[p] = NULL
      BY <1>4, <1>5, <1>6, <1>10, <2>1
    <3>2. r = Tail(C)
      BY <1>2, <1>5, <1>8, <3>1, RemoveHead
    <3>3. IsList(Tail(C), right[first], right, NULL) /\ ToSet(Tail(C)) = ToSet(C) \ {first}
      BY <1>1, <1>13, <3>1, ListPop
    <3>4. \A x \in ToSet(Tail(C)) : right2[x] = right[x]
      <4>1. NULL \notin ToSet(C)
        BY <1>1, <1>2, SeqFacts
      <4>. QED  BY <3>1, <3>3, <4>1
    <3>5. IsList(r, right[p], right2, NULL)
      BY <1>13, <3>1, <3>2, <3>3, <3>4, ListElsewhere
    <3>. QED  BY <3>1, <3>2, <3>5
  <2>2. CASE k # 1
    <3>1. k \in 2 .. Len(C) /\ first # p
      <4>1. 1 \in 1 .. n
        BY <1>5
      <4>. QED  BY <1>3, <1>4, <1>5, <1>6, <2>2, <4>1
    <3>2. C[k-1] = left[p] /\ C[k] = p /\ left[p] # NULL
      BY <1>4, <1>6, <1>10, <2>2
    <3>3. right2[C[k-1]] = right[C[k]]
      BY <3>2
    <3>4. \A x \in ToSet(C) \ {C[k-1], C[k]} : right2[x] = right[x]
      BY <3>2
    <3>5. IsList(RemoveFirst(C, C[k]), first, right2, NULL)
      BY <1>1, <1>13, <3>1, <3>3, <3>4, ListRemove
    <3>6. RemoveFirst(C, C[k]) = r
      BY <1>8, <3>2
    <3>. QED  BY <3>1, <3>5, <3>6
  <2>. QED  BY <2>1, <2>2
<1>15. \A i \in 1 .. n : i # k /\ i # k + 1 => left2[C[i]] = left[C[i]]
  <2>. SUFFICES ASSUME NEW i \in 1 .. n, i # k, i # k + 1
                PROVE  left2[C[i]] = left[C[i]]
    OBVIOUS
  <2>1. C[i] # p /\ C[i] # right[p] /\ C[i] \in ToSet(C)
    BY <1>4, <1>6, <1>11
  <2>. QED  BY <2>1
<1>16. k # n => left2[C[k+1]] = left[p]
  BY <1>6, <1>11
<1>17. r # <<>> => left2[r[1]] = NULL
  <2>. SUFFICES ASSUME n # 1
                PROVE  left2[r[1]] = NULL
    <3>1. r # <<>> => Len(r) # 0
      BY <1>9, SeqFacts
    <3>. QED  BY <1>9, <3>1
  <2>1. 1 \in 1 .. n /\ 1 \in 1 .. n - 1
    BY <1>5
  <2>2. CASE k = 1
    <3>1. r[1] = C[k+1] /\ k # n
      BY <1>9, <2>1, <2>2
    <3>. QED  BY <1>10, <1>16, <2>2, <3>1
  <2>3. CASE k # 1
    <3>1. r[1] = C[1] /\ 1 # k + 1
      BY <1>9, <2>1, <2>3
    <3>. QED  BY <1>7, <1>15, <2>1, <2>3, <3>1
  <2>. QED  BY <2>2, <2>3
<1>18. ASSUME NEW i \in 1 .. n - 2
       PROVE  left2[r[i+1]] = r[i]
  <2>1. CASE i + 1 < k
    <3>1. /\ r[i] = C[i] /\ r[i+1] = C[i+1] /\ i \in 1 .. n - 1 /\ i + 1 \in 1 .. n
          /\ i + 1 # k /\ i + 1 # k + 1
      BY <1>9, <2>1
    <3>. QED  BY <1>7, <1>15, <3>1
  <2>2. CASE i + 1 = k
    <3>1. r[i] = C[k-1] /\ r[i+1] = C[k+1] /\ k # n /\ k # 1
      BY <1>9, <2>2
    <3>. QED  BY <1>10, <1>16, <3>1
  <2>3. CASE i >= k
    <3>1. PICK j \in 1 .. n - 1 : j = i + 1
      OBVIOUS
    <3>2. r[i] = C[j] /\ r[j] = C[j+1] /\ j + 1 \in 1 .. n /\ j + 1 # k /\ j + 1 # k + 1
      BY <1>9, <2>3, <3>1
    <3>. QED  BY <1>7, <1>15, <3>1, <3>2
  <2>. QED  BY <2>1, <2>2, <2>3
<1>19. \A x \in ToSet(r) : prnt2[x] = a
  BY <1>7, <1>9
<1>20. Len(r) - 1 = n - 2
  BY <1>9
<1>21. Family(a, r, IF first = p THEN right[p] ELSE first, right2, left2, prnt2)
  BY <1>14, <1>17, <1>18, <1>19, <1>20 DEF Family
<1>. QED  BY <1>8, <1>12, <1>14, <1>21

-----------------------------------------------------------------------------
(* The queues, the free list and the tree after a step. *)

LEMMA QueueFacts ==
  ASSUME TypeOK, QueueInv, NEW q \in Queue
  PROVE  /\ QueueOf(q) \in Seq(Pcb) /\ IsInjective(QueueOf(q)) /\ ToSet(QueueOf(q)) \subseteq Pcb
         /\ tp[q] = NULL <=> QueueOf(q) = <<>>
         /\ Ring(QueueOf(q), tp[q], p_next, p_prev)
         /\ ToSet(QueueOf(q)) \cap ToSet(FreeList) = {}
<1>1. Ring(QueueOf(q), tp[q], p_next, p_prev) /\ ToSet(QueueOf(q)) \cap ToSet(FreeList) = {}
  BY DEF QueueInv
<1>2. QueueOf(q) \in Seq(Pcb) /\ IsInjective(QueueOf(q)) /\ (tp[q] = NULL <=> QueueOf(q) = <<>>)
  BY <1>1 DEF Ring
<1>. QED  BY <1>1, <1>2, SeqFacts

LEMMA QueuesNext ==
  ASSUME DOMAIN p_next' = Pcb, NEW F, IsList(F, pcbFree_h', p_next', NULL),
         NEW Q, \A q \in Queue : /\ Ring(Q[q], tp'[q], p_next', p_prev')
                                 /\ ToSet(Q[q]) \cap ToSet(F) = {},
         \A q, r \in Queue : q # r => ToSet(Q[q]) \cap ToSet(Q[r]) = {}
  PROVE  QueueInv' /\ FreeList' = F /\ \A q \in Queue : QueueOf(q)' = Q[q]
<1>1. PICK next2, prev2, first2 : next2 = p_next' /\ prev2 = p_prev' /\ first2 = pcbFree_h'
  OBVIOUS
<1>2. FreeList' = F
  <2>1. IsFiniteSet(DOMAIN next2) /\ NULL \notin DOMAIN next2 /\ IsList(F, first2, next2, NULL)
    BY <1>1, PointerAssumption
  <2>2. Walk(first2, next2, NULL) = F
    BY <2>1, WalkOfList
  <2>. QED  BY <1>1, <2>2 DEF FreeList
<1>3. ASSUME NEW q \in Queue
      PROVE  QueueOf(q)' = Q[q]
  <2>1. PICK t : t = tp'[q]
    OBVIOUS
  <2>2. Ring(Q[q], t, next2, prev2) /\ DOMAIN next2 = Pcb
    BY <1>1, <2>1
  <2>3. QueueOf(q)' = IF t = NULL THEN <<>> ELSE Walk(next2[t], [next2 EXCEPT ![t] = NULL], NULL)
    BY <1>1, <2>1 DEF QueueOf
  <2>4. CASE t = NULL
    BY <2>2, <2>3, <2>4 DEF Ring
  <2>5. CASE t # NULL
    BY <2>2, <2>3, <2>5, RingWalk
  <2>. QED  BY <2>4, <2>5
<1>. QED  BY <1>2, <1>3 DEF QueueInv

LEMMA QueuesKept ==
  ASSUME QueueInv, pcbFree_h' = pcbFree_h, UNCHANGED queueLinks
  PROVE  QueueInv' /\ FreeList' = FreeList /\ \A q \in Queue : QueueOf(q)' = QueueOf(q)
<1>1. FreeList' = FreeList /\ \A q \in Queue : QueueOf(q)' = QueueOf(q)
  BY DEF queueLinks, FreeList, QueueOf
<1>. QED  BY <1>1 DEF QueueInv, queueLinks

LEMMA TreeNext ==
  ASSUME DOMAIN p_sib_right' = Pcb,
         NEW C, \A a \in Pcb : Family(a, C[a], p_child'[a], p_sib_right', p_sib_left', p_prnt'),
         \A p \in Pcb : /\ p_prnt'[p] = NULL => p_sib_left'[p] = NULL /\ p_sib_right'[p] = NULL
                        /\ p_prnt'[p] # NULL => p_prnt'[p] \in Pcb /\ p \in ToSet(C[p_prnt'[p]])
  PROVE  TreeInv' /\ \A a \in Pcb : Children(a)' = C[a]
<1>1. PICK right2 : right2 = p_sib_right'
  OBVIOUS
<1>2. ASSUME NEW a \in Pcb
      PROVE  Children(a)' = C[a]
  <2>1. PICK first2 : first2 = p_child'[a]
    OBVIOUS
  <2>2. /\ IsFiniteSet(DOMAIN right2) /\ NULL \notin DOMAIN right2
        /\ IsList(C[a], first2, right2, NULL)
    BY <1>1, <2>1, PointerAssumption DEF Family
  <2>3. Walk(first2, right2, NULL) = C[a]
    BY <2>2, WalkOfList
  <2>. QED  BY <1>1, <2>1, <2>3 DEF Children
<1>3. PICK prnt2 : prnt2 = p_prnt'
  OBVIOUS
<1>4. PICK D : D = [a \in Pcb |-> Children(a)']
  OBVIOUS
<1>5. ASSUME NEW p \in Pcb, p_prnt'[p] # NULL
      PROVE  p \in ToSet(Children(p_prnt[p]))'
  <2>1. PICK a \in Pcb : a = p_prnt'[p]
    BY <1>5
  <2>2. p \in ToSet(Children(a)')
    BY <1>2, <1>5, <2>1
  <2>3. Children(a)' = Children(p_prnt[p])'
    BY <2>1 DEF Children
  <2>. QED  BY <2>2, <2>3
<1>. QED  BY <1>2, <1>5 DEF TreeInv

LEMMA TreeKept ==
  ASSUME TreeInv, UNCHANGED treeLinks
  PROVE  TreeInv' /\ \A a \in Pcb : Children(a)' = Children(a)
<1>1. \A a \in Pcb : Children(a)' = Children(a)
  BY DEF treeLinks, Children
<1>2. /\ p_prnt' = p_prnt /\ p_child' = p_child
      /\ p_sib_left' = p_sib_left /\ p_sib_right' = p_sib_right
  BY DEF treeLinks
<1>3. ASSUME NEW p \in Pcb, p_prnt'[p] # NULL
      PROVE  p \in ToSet(Children(p_prnt[p]))'
  BY <1>2, <1>3 DEF TreeInv, Children
<1>. QED  BY <1>1, <1>2, <1>3 DEF TreeInv

-----------------------------------------------------------------------------
(* The invariant. *)

LEMMA InitInv ==
  ASSUME Init
  PROVE  /\ PcbInv /\ FreeList \in SetToSeqs(Pcb)
         /\ \A q \in Queue : QueueOf(q) = <<>>
         /\ \A a \in Pcb : Children(a) = <<>>
<1>1. PICK table \in SetToSeqs(Pcb) :
        /\ pcbFree_h = table[1]
        /\ p_next = [p \in Pcb |->
             LET i == CHOOSE i \in DOMAIN table : table[i] = p IN
             IF i = Len(table) THEN NULL ELSE table[i+1]]
  BY DEF Init
<1>2. IsFiniteSet(Pcb) /\ Pcb # {} /\ NULL \notin Pcb
  BY PointerAssumption
<1>3. PICK n \in Nat : n = Cardinality(Pcb) /\ n # 0
  BY <1>2, FS_CardinalityType, FS_EmptySet
<1>4. table \in [1 .. n -> Pcb] /\ \A i, j \in 1 .. n : i # j => table[i] # table[j]
  BY <1>1, <1>3 DEF SetToSeqs
<1>5. table \in Seq(Pcb) /\ Len(table) = n /\ DOMAIN table = 1 .. n /\ IsInjective(table)
  <2>1. table \in Seq(Pcb) /\ Len(table) = n
    BY <1>4, IsASeq, LenProperties
  <2>. QED  BY <1>4, <2>1 DEF IsInjective
<1>6. table # <<>> /\ \A i \in 1 .. n : table[i] \in Pcb
  BY <1>3, <1>4, <1>5, SeqFacts
<1>7. \A i \in 1 .. n : p_next[table[i]] = IF i = n THEN NULL ELSE table[i+1]
  <2>. SUFFICES ASSUME NEW i \in 1 .. n
                PROVE  p_next[table[i]] = IF i = n THEN NULL ELSE table[i+1]
    OBVIOUS
  <2>1. PICK x \in Pcb : x = table[i]
    BY <1>6
  <2>2. (CHOOSE j \in DOMAIN table : table[j] = x) = i
    <3>1. \A j \in DOMAIN table : table[j] = x <=> j = i
      BY <1>4, <1>5, <2>1
    <3>2. i \in DOMAIN table
      BY <1>5
    <3>. QED  BY <3>1, <3>2
  <2>3. p_next[x] = LET k == CHOOSE j \in DOMAIN table : table[j] = x IN
                    IF k = Len(table) THEN NULL ELSE table[k+1]
    BY <1>1, Zenon
  <2>4. p_next[x] = IF i = Len(table) THEN NULL ELSE table[i+1]
    BY <2>2, <2>3, Zenon
  <2>. QED  BY <1>5, <2>1, <2>4
<1>8. DOMAIN p_next = Pcb
  BY <1>1
<1>9. IsList(table, pcbFree_h, p_next, NULL)
  <2>1. /\ pcbFree_h = table[1] /\ p_next[table[Len(table)]] = NULL
        /\ \A i \in 1 .. Len(table) - 1 : p_next[table[i]] = table[i+1]
    <3>1. pcbFree_h = table[1] /\ Len(table) = n
      BY <1>1, <1>5
    <3>2. p_next[table[n]] = NULL /\ \A i \in 1 .. n - 1 : p_next[table[i]] = table[i+1]
      BY <1>3, <1>7
    <3>. QED  BY <3>1, <3>2
  <2>. QED  BY <1>5, <1>6, <1>8, <2>1 DEF IsList
<1>10. FreeList = table
  BY <1>2, <1>8, <1>9, WalkOfList DEF FreeList
<1>11. TypeOK
  <2>1. p_next \in [Pcb -> Pointer]
    <3>1. \A p \in Pcb : p_next[p] \in Pointer
      <4>. SUFFICES ASSUME NEW p \in Pcb
                    PROVE  p_next[p] \in Pointer
        OBVIOUS
      <4>1. PICK i \in 1 .. n : table[i] = p
        <5>1. IsFiniteSet(ToSet(table)) /\ Cardinality(ToSet(table)) = Cardinality(Pcb)
          BY <1>3, <1>5, InjectiveLength
        <5>2. ToSet(table) \subseteq Pcb
          BY <1>5, SeqFacts
        <5>3. ToSet(table) = Pcb
          BY <1>2, <5>1, <5>2, FS_Subset
        <5>. QED  BY <1>5, <5>3 DEF ToSet
      <4>2. i # n => i + 1 \in 1 .. n
        OBVIOUS
      <4>. QED  BY <1>6, <1>7, <4>1, <4>2 DEF Pointer
    <3>2. p_next = [p \in Pcb |-> p_next[p]]
      BY <1>1
    <3>. QED  BY <3>1, <3>2
  <2>2. pcbFree_h \in Pointer
    BY <1>1, <1>3, <1>6 DEF Pointer
  <2>3. tp \in [Queue -> Pointer] /\ p_prev \in [Pcb -> Pointer]
    BY DEF Init, Pointer
  <2>. QED  BY <2>1, <2>2, <2>3 DEF TypeOK, Init
<1>12. PICK none \in Seq(Pcb) : none = <<>> /\ IsInjective(none) /\ ToSet(none) = {} /\ Len(none) = 0
  <2>1. <<>> \in Seq(Pcb) /\ Len(<<>>) = 0 /\ DOMAIN <<>> = {}
    OBVIOUS
  <2>. QED  BY <2>1 DEF IsInjective, ToSet
<1>13. QueueInv /\ \A q \in Queue : QueueOf(q) = none
  <2>1. \A q \in Queue : QueueOf(q) = none
    BY <1>12 DEF QueueOf, Init
  <2>2. \A q \in Queue : tp[q] = NULL
    BY DEF Init
  <2>3. \A q \in Queue : Ring(none, tp[q], p_next, p_prev)
    BY <1>12, <2>2 DEF Ring
  <2>. QED  BY <1>9, <1>10, <1>12, <2>1, <2>3 DEF QueueInv
<1>14. TreeInv /\ \A a \in Pcb : Children(a) = none
  <2>1. /\ \A p \in Pcb : p_prnt[p] = NULL /\ p_child[p] = NULL /\ p_sib_left[p] = NULL
                          /\ p_sib_right[p] = NULL
        /\ DOMAIN p_sib_right = Pcb
    BY DEF Init
  <2>2. IsList(none, NULL, p_sib_right, NULL)
    BY <1>12, <2>1 DEF IsList
  <2>3. Walk(NULL, p_sib_right, NULL) = none
    BY <1>2, <2>1, <2>2, WalkOfList
  <2>4. \A a \in Pcb : Children(a) = none
    BY <2>1, <2>3 DEF Children
  <2>5. \A a \in Pcb : Family(a, none, NULL, p_sib_right, p_sib_left, p_prnt)
    BY <1>12, <2>2 DEF Family
  <2>. QED  BY <2>1, <2>4, <2>5 DEF TreeInv
<1>15. FreeInv
  BY <1>5, <1>10, SeqFacts DEF Init, FreeInv
<1>. QED  BY <1>1, <1>10, <1>11, <1>12, <1>13, <1>14, <1>15 DEF PcbInv

\* One queue changes: p and its members are the only pcbs whose links do.
LEMMA QueueChanges ==
  ASSUME PcbInv, NEW q \in Queue, NEW p \in Pcb, p \notin ToSet(FreeList),
         \A r \in Queue \ {q} : p \notin ToSet(QueueOf(r)),
         NEW R, ToSet(R) \subseteq ToSet(QueueOf(q)) \cup {p}, Ring(R, tp'[q], p_next', p_prev'),
         p_next' \in [Pcb -> Pointer], p_prev' \in [Pcb -> Pointer], tp' \in [Queue -> Pointer],
         \A r \in Queue \ {q} : tp'[r] = tp[r],
         \A x \in Pcb \ (ToSet(QueueOf(q)) \cup {p}) : p_next'[x] = p_next[x] /\ p_prev'[x] = p_prev[x],
         pcbFree_h' = pcbFree_h, UNCHANGED treeLinks
  PROVE  /\ PcbInv' /\ FreeList' = FreeList /\ \A a \in Pcb : Children(a)' = Children(a)
         /\ \A r \in Queue : QueueOf(r)' = IF r = q THEN R ELSE QueueOf(r)
<1>1. TypeOK /\ QueueInv /\ TreeInv /\ FreeInv
  BY DEF PcbInv
<1>2. /\ p \notin ToSet(FreeList) /\ \A r \in Queue \ {q} : p \notin ToSet(QueueOf(r))
      /\ pcbFree_h' = pcbFree_h /\ UNCHANGED treeLinks
  OBVIOUS
<1>3. PICK next2, prev2 : next2 = p_next' /\ prev2 = p_prev'
  OBVIOUS
<1>4. p_next \in [Pcb -> Pointer] /\ tp \in [Queue -> Pointer]
  BY <1>1 DEF TypeOK
<1>5. PICK Q : Q = [r \in Queue |-> QueueOf(r)]
  OBVIOUS
<1>6. /\ \A r \in Queue : /\ Q[r] = QueueOf(r) /\ Ring(Q[r], tp[r], p_next, p_prev)
                          /\ ToSet(Q[r]) \subseteq Pcb /\ ToSet(Q[r]) \cap ToSet(FreeList) = {}
      /\ \A r \in Queue \ {q} : p \notin ToSet(Q[r])
      /\ \A r, s \in Queue : r # s => ToSet(Q[r]) \cap ToSet(Q[s]) = {}
  BY <1>1, <1>2, <1>5, QueueFacts DEF QueueInv
<1>7. ToSet(R) \subseteq ToSet(Q[q]) \cup {p}
  BY <1>6
<1>8. /\ Ring(R, tp'[q], next2, prev2) /\ next2 \in [Pcb -> Pointer] /\ prev2 \in [Pcb -> Pointer]
      /\ \A x \in Pcb \ (ToSet(Q[q]) \cup {p}) : next2[x] = p_next[x] /\ prev2[x] = p_prev[x]
  BY <1>3, <1>6
<1>9. PICK Q2 : Q2 = [r \in Queue |-> IF r = q THEN R ELSE Q[r]]
  OBVIOUS
<1>10. /\ \A r \in Queue : /\ Ring(Q2[r], tp'[r], next2, prev2)
                           /\ ToSet(Q2[r]) \cap ToSet(FreeList) = {}
       /\ \A r, s \in Queue : r # s => ToSet(Q2[r]) \cap ToSet(Q2[s]) = {}
  <2>1. \A r \in Queue \ {q} : tp'[r] = tp[r]
    OBVIOUS
  <2>2. Q2[q] = R /\ \A r \in Queue \ {q} : Q2[r] = Q[r]
    BY <1>9
  <2>3. ASSUME NEW r \in Queue \ {q}
        PROVE  Ring(Q[r], tp[r], next2, prev2)
    <3>1. \A x \in ToSet(Q[r]) : next2[x] = p_next[x] /\ prev2[x] = p_prev[x]
      BY <1>6, <1>8
    <3>. QED  BY <1>6, <3>1, RingElsewhere
  <2>4. Ring(R, tp'[q], next2, prev2) /\ ToSet(R) \cap ToSet(FreeList) = {}
    BY <1>2, <1>6, <1>7, <1>8, <2>1
  <2>5. ASSUME NEW r \in Queue
        PROVE  Ring(Q2[r], tp'[r], next2, prev2) /\ ToSet(Q2[r]) \cap ToSet(FreeList) = {}
    <3>1. CASE r = q
      BY <2>2, <2>4, <3>1
    <3>2. CASE r # q
      BY <1>6, <2>1, <2>2, <2>3, <3>2
    <3>. QED  BY <3>1, <3>2
  <2>6. ASSUME NEW r \in Queue \ {q}
        PROVE  ToSet(Q[r]) \cap ToSet(R) = {}
    BY <1>6, <1>7
  <2>7. ASSUME NEW r \in Queue, NEW s \in Queue, r # s
        PROVE  ToSet(Q2[r]) \cap ToSet(Q2[s]) = {}
    <3>1. CASE r = q
      BY <2>2, <2>6, <2>7, <3>1
    <3>2. CASE s = q
      BY <2>2, <2>6, <2>7, <3>2
    <3>3. CASE r # q /\ s # q
      BY <1>6, <2>2, <2>7, <3>3
    <3>. QED  BY <3>1, <3>2, <3>3
  <2>. QED  BY <2>5, <2>7
<1>11. IsList(FreeList, pcbFree_h, next2, NULL)
  <2>1. IsList(FreeList, pcbFree_h, p_next, NULL)
    BY <1>1 DEF QueueInv
  <2>2. DOMAIN next2 = DOMAIN p_next /\ ToSet(FreeList) \subseteq Pcb
    <3>1. FreeList \in Seq(Pcb)
      BY <1>4, <2>1 DEF IsList
    <3>. QED  BY <1>4, <1>8, <3>1, SeqFacts
  <2>3. \A x \in ToSet(FreeList) : next2[x] = p_next[x]
    BY <1>2, <1>6, <1>8, <2>2
  <2>. QED  BY <2>1, <2>2, <2>3, ListElsewhere
<1>12. QueueInv' /\ FreeList' = FreeList /\ \A r \in Queue : QueueOf(r)' = Q2[r]
  <2>1. DOMAIN p_next' = Pcb
    BY <1>3, <1>8
  <2>2. PICK F : F = FreeList
    OBVIOUS
  <2>3. /\ IsList(F, pcbFree_h', p_next', NULL)
        /\ \A r \in Queue : Ring(Q2[r], tp'[r], p_next', p_prev') /\ ToSet(Q2[r]) \cap ToSet(F) = {}
    BY <1>2, <1>3, <1>10, <1>11, <2>2
  <2>4. \A r, s \in Queue : r # s => ToSet(Q2[r]) \cap ToSet(Q2[s]) = {}
    BY <1>10
  <2>5. QueueInv' /\ FreeList' = F /\ \A r \in Queue : QueueOf(r)' = Q2[r]
    BY <2>1, <2>3, <2>4, QueuesNext
  <2>. QED  BY <2>2, <2>5
<1>13. TreeInv' /\ \A a \in Pcb : Children(a)' = Children(a)
  BY <1>1, <1>2, TreeKept
<1>14. FreeInv'
  BY <1>1, <1>2, <1>12 DEF FreeInv, treeLinks
<1>15. TypeOK'
  BY <1>1, <1>2, <1>3, <1>8 DEF TypeOK, treeLinks
<1>16. \A r \in Queue : QueueOf(r)' = IF r = q THEN R ELSE QueueOf(r)
  BY <1>6, <1>9, <1>12
<1>. QED  BY <1>12, <1>13, <1>14, <1>15, <1>16 DEF PcbInv

\* insertProcQ: the pcb becomes the last of the queue.
LEMMA InsertProcQStep ==
  ASSUME PcbInv, NEW q \in Queue, NEW p \in Pcb, insertProcQ(q, p)
  PROVE  /\ PcbInv' /\ FreeList' = FreeList /\ \A a \in Pcb : Children(a)' = Children(a)
         /\ \A r \in Queue : QueueOf(r)' = IF r = q THEN Append(QueueOf(q), p) ELSE QueueOf(r)
<1>1. TypeOK /\ QueueInv /\ TreeInv /\ FreeInv
  BY DEF PcbInv
<1>2. /\ p \notin ToSet(FreeList) /\ \A r \in Queue : p \notin ToSet(QueueOf(r))
      /\ tp' = [tp EXCEPT ![q] = p] /\ pcbFree_h' = pcbFree_h /\ UNCHANGED treeLinks
  BY DEF insertProcQ, Allocated, Queued
<1>3. PICK t, next2, prev2 : t = tp[q] /\ next2 = p_next' /\ prev2 = p_prev'
  OBVIOUS
<1>4. /\ p_next \in [Pcb -> Pointer] /\ p_prev \in [Pcb -> Pointer] /\ tp \in [Queue -> Pointer]
      /\ pcbFree_h \in Pointer /\ NULL \notin Pcb /\ t \in Pointer
  BY <1>1, <1>3, PointerAssumption DEF TypeOK
<1>5. PICK Q : Q = [r \in Queue |-> QueueOf(r)]
  OBVIOUS
<1>6. /\ \A r \in Queue : /\ Q[r] = QueueOf(r) /\ Ring(Q[r], tp[r], p_next, p_prev)
                          /\ Q[r] \in Seq(Pcb) /\ IsInjective(Q[r]) /\ ToSet(Q[r]) \subseteq Pcb
                          /\ ToSet(Q[r]) \cap ToSet(FreeList) = {} /\ p \notin ToSet(Q[r])
      /\ \A r, s \in Queue : r # s => ToSet(Q[r]) \cap ToSet(Q[s]) = {}
  BY <1>1, <1>2, <1>5, QueueFacts DEF QueueInv
<1>7. PICK R : R = Append(Q[q], p)
  OBVIOUS
<1>8. ToSet(R) = ToSet(Q[q]) \cup {p}
  BY <1>6, <1>7, AppendMember
\* Only the pcb and members of its queue change.
<1>9. /\ Ring(R, p, next2, prev2) /\ next2 \in [Pcb -> Pointer] /\ prev2 \in [Pcb -> Pointer]
      /\ \A x \in Pcb \ (ToSet(Q[q]) \cup {p}) : next2[x] = p_next[x] /\ prev2[x] = p_prev[x]
  <2>1. CASE t = NULL
    <3>1. next2 = [p_next EXCEPT ![p] = p] /\ prev2 = [p_prev EXCEPT ![p] = p]
      BY <1>3, <2>1 DEF insertProcQ
    <3>2. /\ next2[p] = p /\ prev2[p] = p
          /\ next2 \in [Pcb -> Pointer] /\ prev2 \in [Pcb -> Pointer]
          /\ \A x \in Pcb \ {p} : next2[x] = p_next[x] /\ prev2[x] = p_prev[x]
      BY <1>4, <3>1 DEF Pointer
    <3>3. R = <<p>>
      <4>1. Q[q] = <<>>
        BY <1>3, <1>6, <2>1 DEF Ring
      <4>. QED  BY <1>7, <4>1
    <3>4. Ring(<<p>>, p, next2, prev2)
      BY <3>2, RingSingle
    <3>. QED  BY <3>2, <3>3, <3>4
  <2>2. CASE t # NULL
    <3>1. PICK h : h = p_next[t]
      OBVIOUS
    <3>2. /\ next2 = [p_next EXCEPT ![p] = h, ![t] = p]
          /\ prev2 = [p_prev EXCEPT ![p] = t, ![h] = p]
      BY <1>3, <2>2, <3>1 DEF insertProcQ
    <3>3. /\ t \in ToSet(Q[q]) /\ h \in ToSet(Q[q])
      <4>1. Q[q] # <<>> /\ t = Q[q][Len(Q[q])] /\ h = Q[q][1]
        BY <1>3, <1>6, <2>2, <3>1 DEF Ring
      <4>2. Len(Q[q]) \in Nat /\ Len(Q[q]) # 0 /\ \A i \in 1 .. Len(Q[q]) : Q[q][i] \in ToSet(Q[q])
        BY <1>6, <4>1, SeqFacts
      <4>3. 1 \in 1 .. Len(Q[q]) /\ Len(Q[q]) \in 1 .. Len(Q[q])
        BY <4>2
      <4>. QED  BY <4>1, <4>2, <4>3
    <3>4. t \in Pcb /\ h \in Pcb /\ t # p /\ h # p
      BY <1>6, <3>3
    <3>5. /\ next2[p] = h /\ next2[t] = p /\ \A x \in Pcb \ {p, t} : next2[x] = p_next[x]
          /\ prev2[p] = t /\ prev2[h] = p /\ \A x \in Pcb \ {p, h} : prev2[x] = p_prev[x]
          /\ next2 \in [Pcb -> Pointer] /\ prev2 \in [Pcb -> Pointer]
      BY <1>4, <3>2, <3>4 DEF Pointer
    <3>6. /\ Ring(Q[q], t, p_next, p_prev) /\ p \notin ToSet(Q[q])
          /\ next2[p] = p_next[t] /\ prev2[p_next[t]] = p
          /\ \A x \in ToSet(Q[q]) \ {t} : next2[x] = p_next[x]
          /\ \A x \in ToSet(Q[q]) \ {p_next[t]} : prev2[x] = p_prev[x]
      BY <1>3, <1>6, <3>1, <3>5
    <3>7. Ring(Append(Q[q], p), p, next2, prev2)
      BY <2>2, <3>5, <3>6, RingAppend
    <3>. QED  BY <1>7, <3>3, <3>5, <3>7
  <2>. QED  BY <2>1, <2>2
<1>10. tp' \in [Queue -> Pointer] /\ tp'[q] = p /\ \A r \in Queue \ {q} : tp'[r] = tp[r]
  BY <1>2, <1>4 DEF Pointer
<1>11. /\ ToSet(R) \subseteq ToSet(QueueOf(q)) \cup {p} /\ Ring(R, tp'[q], p_next', p_prev')
       /\ p_next' \in [Pcb -> Pointer] /\ p_prev' \in [Pcb -> Pointer]
       /\ \A x \in Pcb \ (ToSet(QueueOf(q)) \cup {p}) : p_next'[x] = p_next[x] /\ p_prev'[x] = p_prev[x]
  BY <1>3, <1>6, <1>8, <1>9, <1>10
<1>12. R = Append(QueueOf(q), p)
  BY <1>6, <1>7
<1>. QED  BY <1>2, <1>10, <1>11, <1>12, QueueChanges

\* The neighbours of a pcb in its ring.
LEMMA RingNeighbours ==
  ASSUME NEW Q, NEW t, NEW next, NEW prev, Ring(Q, t, next, prev), t # NULL,
         NEW p \in ToSet(Q), ~(t = p /\ next[p] = p)
  PROVE  prev[p] \in ToSet(Q) \ {p} /\ next[p] \in ToSet(Q) \ {p}
<1>1. PICK next2 : next2 = [x \in ToSet(Q) \cup {prev[p]} |-> IF x = prev[p] THEN next[p] ELSE next[x]]
  OBVIOUS
<1>2. PICK prev2 : prev2 = [x \in ToSet(Q) \cup {next[p]} |-> IF x = next[p] THEN prev[p] ELSE prev[x]]
  OBVIOUS
<1>3. /\ next2[prev[p]] = next[p] /\ \A x \in ToSet(Q) \ {p, prev[p]} : next2[x] = next[x]
      /\ prev2[next[p]] = prev[p] /\ \A x \in ToSet(Q) \ {p, next[p]} : prev2[x] = prev[x]
  BY <1>1, <1>2
<1>. QED  BY <1>3, RingRemove

\* outProcQ and removeProcQ: the pcb leaves its queue.
LEMMA UnlinkStep ==
  ASSUME PcbInv, NEW q \in Queue, NEW p \in ToSet(QueueOf(q)), unlink(q, p),
         pcbFree_h' = pcbFree_h, UNCHANGED treeLinks
  PROVE  /\ PcbInv' /\ FreeList' = FreeList /\ \A a \in Pcb : Children(a)' = Children(a)
         /\ \A r \in Queue : QueueOf(r)' = IF r = q THEN RemoveFirst(QueueOf(q), p) ELSE QueueOf(r)
<1>1. TypeOK /\ QueueInv
  BY DEF PcbInv
<1>2. PICK Q, t : Q = QueueOf(q) /\ t = tp[q]
  OBVIOUS
<1>3. /\ Q \in Seq(Pcb) /\ IsInjective(Q) /\ ToSet(Q) \subseteq Pcb /\ Ring(Q, t, p_next, p_prev)
      /\ ToSet(Q) \cap ToSet(FreeList) = {} /\ p \in Pcb /\ p \in ToSet(Q)
  BY <1>1, <1>2, QueueFacts
<1>4. t # NULL
  <2>1. ToSet(<<>>) = {}
    BY DEF ToSet
  <2>. QED  BY <1>3, <2>1 DEF Ring
<1>5. p \notin ToSet(FreeList) /\ \A r \in Queue \ {q} : p \notin ToSet(QueueOf(r))
  BY <1>1, <1>2, <1>3 DEF QueueInv
<1>6. /\ p_next \in [Pcb -> Pointer] /\ p_prev \in [Pcb -> Pointer] /\ tp \in [Queue -> Pointer]
      /\ NULL \in Pointer /\ NULL \notin Pcb
  BY <1>1, PointerAssumption DEF TypeOK, Pointer
<1>7. PICK next2, prev2 : next2 = p_next' /\ prev2 = p_prev'
  OBVIOUS
<1>8. PICK R : R = RemoveFirst(Q, p)
  OBVIOUS
<1>9. R \in Seq(Pcb) /\ ToSet(R) = ToSet(Q) \ {p} /\ IsInjective(R) /\ Len(R) = Len(Q) - 1
  BY <1>3, <1>8, RemoveMember
<1>10. /\ Ring(R, tp'[q], next2, prev2) /\ next2 \in [Pcb -> Pointer] /\ prev2 \in [Pcb -> Pointer]
       /\ tp' \in [Queue -> Pointer] /\ \A r \in Queue \ {q} : tp'[r] = tp[r]
       /\ \A x \in Pcb \ ToSet(Q) : next2[x] = p_next[x] /\ prev2[x] = p_prev[x]
  <2>1. CASE t = p /\ p_next[p] = p
    <3>1. /\ tp' = [tp EXCEPT ![q] = NULL]
          /\ next2 = [p_next EXCEPT ![p] = NULL] /\ prev2 = [p_prev EXCEPT ![p] = NULL]
      BY <1>2, <1>7, <2>1 DEF unlink
    <3>2. /\ tp'[q] = NULL /\ tp' \in [Queue -> Pointer] /\ \A r \in Queue \ {q} : tp'[r] = tp[r]
          /\ next2 \in [Pcb -> Pointer] /\ prev2 \in [Pcb -> Pointer]
          /\ \A x \in Pcb \ {p} : next2[x] = p_next[x] /\ prev2[x] = p_prev[x]
      BY <1>3, <1>6, <3>1
    <3>3. R = <<>>
      <4>1. Q # <<>> /\ p = Q[Len(Q)] /\ p_next[Q[Len(Q)]] = Q[1]
        BY <1>3, <1>4, <2>1 DEF Ring
      <4>2. Q[1] = Q[Len(Q)]
        BY <2>1, <4>1
      <4>3. Len(Q) \in Nat /\ Len(Q) # 0 /\ DOMAIN Q = 1 .. Len(Q)
        BY <1>3, <4>1, SeqFacts
      <4>4. 1 \in DOMAIN Q /\ Len(Q) \in DOMAIN Q
        BY <4>3
      <4>5. Len(Q) = 1
        BY <1>3, <4>2, <4>4 DEF IsInjective
      <4>6. Len(R) = 0
        BY <1>9, <4>5
      <4>. QED  BY <1>9, <4>6, SeqFacts
    <3>4. Ring(R, NULL, next2, prev2)
      BY <1>9, <3>3 DEF Ring
    <3>. QED  BY <1>3, <3>2, <3>4
  <2>2. CASE ~(t = p /\ p_next[p] = p)
    <3>1. PICK b, c : b = p_prev[p] /\ c = p_next[p]
      OBVIOUS
    <3>2. b \in ToSet(Q) \ {p} /\ c \in ToSet(Q) \ {p} /\ b \in Pcb /\ c \in Pcb
      BY <1>3, <1>4, <2>2, <3>1, RingNeighbours
    <3>3. /\ next2 = [p_next EXCEPT ![b] = c, ![p] = NULL]
          /\ prev2 = [p_prev EXCEPT ![c] = b, ![p] = NULL]
          /\ tp' = [tp EXCEPT ![q] = IF t = p THEN b ELSE t]
      BY <1>2, <1>7, <2>2, <3>1 DEF unlink
    <3>4. /\ tp'[q] = (IF t = p THEN b ELSE t) /\ \A r \in Queue \ {q} : tp'[r] = tp[r]
          /\ tp' \in [Queue -> Pointer]
      <4>1. (IF t = p THEN b ELSE t) \in Pointer
        BY <1>2, <1>6, <3>2 DEF Pointer
      <4>. QED  BY <1>6, <3>3, <4>1
    <3>5. /\ next2[b] = c /\ \A x \in Pcb \ {p, b} : next2[x] = p_next[x]
          /\ prev2[c] = b /\ \A x \in Pcb \ {p, c} : prev2[x] = p_prev[x]
          /\ next2 \in [Pcb -> Pointer] /\ prev2 \in [Pcb -> Pointer]
      BY <1>3, <1>6, <3>2, <3>3 DEF Pointer
    <3>6. /\ next2[p_prev[p]] = p_next[p] /\ \A x \in ToSet(Q) \ {p, p_prev[p]} : next2[x] = p_next[x]
          /\ prev2[p_next[p]] = p_prev[p] /\ \A x \in ToSet(Q) \ {p, p_next[p]} : prev2[x] = p_prev[x]
      BY <1>3, <3>1, <3>5
    <3>7. Ring(RemoveFirst(Q, p), IF t = p THEN p_prev[p] ELSE t, next2, prev2)
      BY <1>3, <1>4, <2>2, <3>6, RingRemove
    <3>8. Ring(R, tp'[q], next2, prev2)
      BY <1>8, <3>1, <3>4, <3>7
    <3>. QED  BY <1>3, <3>2, <3>4, <3>5, <3>8
  <2>. QED  BY <2>1, <2>2
<1>11. /\ ToSet(R) \subseteq ToSet(QueueOf(q)) \cup {p} /\ Ring(R, tp'[q], p_next', p_prev')
       /\ p_next' \in [Pcb -> Pointer] /\ p_prev' \in [Pcb -> Pointer]
       /\ \A x \in Pcb \ (ToSet(QueueOf(q)) \cup {p}) : p_next'[x] = p_next[x] /\ p_prev'[x] = p_prev[x]
  BY <1>2, <1>7, <1>9, <1>10
<1>12. R = RemoveFirst(QueueOf(q), p)
  BY <1>2, <1>8
<1>. QED  BY <1>3, <1>5, <1>10, <1>11, <1>12, QueueChanges

\* removeProcQ: the head leaves its queue.
LEMMA RemoveProcQStep ==
  ASSUME PcbInv, NEW q \in Queue, removeProcQ(q)
  PROVE  /\ PcbInv' /\ FreeList' = FreeList /\ \A a \in Pcb : Children(a)' = Children(a)
         /\ QueueOf(q) # <<>>
         /\ \A r \in Queue : QueueOf(r)' = IF r = q THEN Tail(QueueOf(q)) ELSE QueueOf(r)
<1>1. PICK p : p = p_next[tp[q]]
  OBVIOUS
<1>2. tp[q] # NULL /\ unlink(q, p) /\ pcbFree_h' = pcbFree_h /\ UNCHANGED treeLinks
  BY <1>1 DEF removeProcQ
<1>3. QueueOf(q) \in Seq(Pcb) /\ IsInjective(QueueOf(q)) /\ QueueOf(q) # <<>>
      /\ Ring(QueueOf(q), tp[q], p_next, p_prev)
  BY <1>2, QueueFacts DEF PcbInv
<1>4. p = QueueOf(q)[1]
  BY <1>1, <1>2, <1>3 DEF Ring
<1>5. p \in ToSet(QueueOf(q)) /\ RemoveFirst(QueueOf(q), p) = Tail(QueueOf(q))
  <2>1. RemoveFirst(QueueOf(q), QueueOf(q)[1]) = Tail(QueueOf(q))
    BY <1>3, RemoveHead
  <2>2. Len(QueueOf(q)) \in Nat /\ Len(QueueOf(q)) # 0
        /\ \A i \in 1 .. Len(QueueOf(q)) : QueueOf(q)[i] \in ToSet(QueueOf(q))
    BY <1>3, SeqFacts
  <2>3. 1 \in 1 .. Len(QueueOf(q))
    BY <2>2
  <2>. QED  BY <1>4, <2>1, <2>2, <2>3
<1>6. /\ PcbInv' /\ FreeList' = FreeList /\ \A a \in Pcb : Children(a)' = Children(a)
      /\ \A r \in Queue : QueueOf(r)' = IF r = q THEN RemoveFirst(QueueOf(q), p) ELSE QueueOf(r)
  BY <1>2, <1>5, UnlinkStep
<1>. QED  BY <1>3, <1>5, <1>6

\* freePcb: a pcb in no queue, without parent or child, goes on top of the stack.
LEMMA FreePcbStep ==
  ASSUME PcbInv, NEW p \in Pcb, freePcb(p)
  PROVE  /\ PcbInv' /\ FreeList' = <<p>> \o FreeList
         /\ \A a \in Pcb : Children(a)' = Children(a)
         /\ \A r \in Queue : QueueOf(r)' = QueueOf(r)
<1>1. TypeOK /\ QueueInv /\ TreeInv /\ FreeInv
  BY DEF PcbInv
<1>2. /\ p \notin ToSet(FreeList) /\ \A r \in Queue : p \notin ToSet(QueueOf(r))
      /\ p_prnt[p] = NULL /\ p_child[p] = NULL /\ pcbFree_h' = p
      /\ tp' = tp /\ p_prev' = p_prev /\ UNCHANGED treeLinks
  BY DEF freePcb, Allocated, Queued
<1>3. PICK next2 : next2 = p_next'
  OBVIOUS
<1>4. p_next \in [Pcb -> Pointer] /\ pcbFree_h \in Pointer /\ NULL \notin Pcb
  BY <1>1, PointerAssumption DEF TypeOK
<1>5. /\ next2 \in [Pcb -> Pointer] /\ next2[p] = pcbFree_h
      /\ \A x \in Pcb \ {p} : next2[x] = p_next[x]
  BY <1>3, <1>4 DEF freePcb
<1>6. IsList(FreeList, pcbFree_h, p_next, NULL)
  BY <1>1 DEF QueueInv
<1>7. FreeList \in Seq(Pcb) /\ IsInjective(FreeList) /\ ToSet(FreeList) \subseteq Pcb
  BY <1>4, <1>6, SeqFacts DEF IsList
<1>8. PICK F : F = Inserted(p, FreeList, 0)
  OBVIOUS
<1>9. IsList(F, p, next2, NULL)
  <2>1. /\ DOMAIN next2 = DOMAIN p_next /\ p \in DOMAIN next2 /\ NULL \notin DOMAIN p_next
        /\ \A x \in ToSet(FreeList) : next2[x] = p_next[x]
    BY <1>2, <1>4, <1>5, <1>7
  <2>. QED  BY <1>2, <1>5, <1>6, <1>8, <2>1, ListPush
<1>10. F = <<p>> \o FreeList /\ ToSet(F) = ToSet(FreeList) \cup {p}
  <2>1. Len(FreeList) \in Nat
    BY <1>7, SeqFacts
  <2>2. 0 \in 0 .. Len(FreeList)
    BY <2>1
  <2>. QED  BY <1>2, <1>7, <1>8, <2>2, InsertedFirst, InsertedIs
<1>11. PICK Q : Q = [r \in Queue |-> QueueOf(r)]
  OBVIOUS
<1>12. /\ \A r \in Queue : /\ Q[r] = QueueOf(r) /\ Ring(Q[r], tp[r], p_next, p_prev)
                           /\ ToSet(Q[r]) \subseteq Pcb /\ ToSet(Q[r]) \cap ToSet(FreeList) = {}
                           /\ p \notin ToSet(Q[r])
       /\ \A r, s \in Queue : r # s => ToSet(Q[r]) \cap ToSet(Q[s]) = {}
  BY <1>1, <1>2, <1>11, QueueFacts DEF QueueInv
<1>13. ASSUME NEW r \in Queue
       PROVE  Ring(Q[r], tp[r], next2, p_prev) /\ ToSet(Q[r]) \cap ToSet(F) = {}
  <2>1. \A x \in ToSet(Q[r]) : next2[x] = p_next[x] /\ p_prev[x] = p_prev[x]
    BY <1>5, <1>12
  <2>2. Ring(Q[r], tp[r], p_next, p_prev)
    BY <1>12
  <2>3. Ring(Q[r], tp[r], next2, p_prev)
    BY <2>1, <2>2, RingElsewhere
  <2>. QED  BY <1>10, <1>12, <2>3
<1>14. QueueInv' /\ FreeList' = F /\ \A r \in Queue : QueueOf(r)' = Q[r]
  <2>1. DOMAIN p_next' = Pcb /\ IsList(F, pcbFree_h', p_next', NULL)
    BY <1>2, <1>3, <1>5, <1>9
  <2>2. /\ \A r \in Queue : Ring(Q[r], tp'[r], p_next', p_prev') /\ ToSet(Q[r]) \cap ToSet(F) = {}
        /\ \A r, s \in Queue : r # s => ToSet(Q[r]) \cap ToSet(Q[s]) = {}
    BY <1>2, <1>3, <1>12, <1>13
  <2>. QED  BY <2>1, <2>2, QueuesNext
<1>15. TreeInv' /\ \A a \in Pcb : Children(a)' = Children(a)
  BY <1>1, <1>2, TreeKept
<1>16. FreeInv'
  BY <1>1, <1>2, <1>10, <1>14 DEF FreeInv, treeLinks
<1>17. TypeOK'
  <2>1. pcbFree_h' \in Pointer
    BY <1>2 DEF Pointer
  <2>. QED  BY <1>1, <1>2, <1>3, <1>5, <2>1 DEF TypeOK, treeLinks
<1>. QED  BY <1>10, <1>12, <1>14, <1>15, <1>16, <1>17 DEF PcbInv

\* allocPcb: the top of the stack; its links to the tree are already NULL.
LEMMA AllocPcbStep ==
  ASSUME PcbInv, allocPcb
  PROVE  /\ PcbInv' /\ FreeList # <<>> /\ FreeList' = Tail(FreeList)
         /\ \A a \in Pcb : Children(a)' = Children(a)
         /\ \A r \in Queue : QueueOf(r)' = QueueOf(r)
<1>1. TypeOK /\ QueueInv /\ TreeInv /\ FreeInv
  BY DEF PcbInv
<1>2. PICK p : p = pcbFree_h
  OBVIOUS
<1>3. /\ p_next \in [Pcb -> Pointer] /\ p_prev \in [Pcb -> Pointer] /\ p_prnt \in [Pcb -> Pointer]
      /\ p_child \in [Pcb -> Pointer] /\ p_sib_left \in [Pcb -> Pointer]
      /\ p_sib_right \in [Pcb -> Pointer] /\ pcbFree_h \in Pointer /\ NULL \notin Pcb
      /\ NULL \in Pointer
  BY <1>1, PointerAssumption DEF TypeOK, Pointer
<1>4. /\ p # NULL /\ pcbFree_h' = p_next[p] /\ tp' = tp
      /\ p_next' = [p_next EXCEPT ![p] = NULL] /\ p_prev' = [p_prev EXCEPT ![p] = NULL]
      /\ p_prnt' = [p_prnt EXCEPT ![p] = NULL] /\ p_child' = [p_child EXCEPT ![p] = NULL]
      /\ p_sib_left' = [p_sib_left EXCEPT ![p] = NULL]
      /\ p_sib_right' = [p_sib_right EXCEPT ![p] = NULL]
  BY <1>2 DEF allocPcb
<1>5. p \in Pcb
  BY <1>2, <1>3, <1>4 DEF Pointer
<1>6. IsList(FreeList, p, p_next, NULL)
  BY <1>1, <1>2 DEF QueueInv
<1>7. FreeList # <<>> /\ p \in ToSet(FreeList) /\ ToSet(FreeList) \subseteq Pcb
  <2>1. NULL \notin DOMAIN p_next /\ DOMAIN p_next = Pcb
    BY <1>3
  <2>. QED  BY <1>4, <1>6, <2>1, ListFirst
<1>8. PICK next2, prev2 : next2 = p_next' /\ prev2 = p_prev'
  OBVIOUS
<1>9. /\ next2 \in [Pcb -> Pointer] /\ prev2 \in [Pcb -> Pointer]
      /\ \A x \in Pcb \ {p} : next2[x] = p_next[x] /\ prev2[x] = p_prev[x]
  BY <1>3, <1>4, <1>8
<1>10. PICK F : F = Tail(FreeList)
  OBVIOUS
<1>11. IsList(F, p_next[p], next2, NULL) /\ ToSet(F) = ToSet(FreeList) \ {p}
  <2>1. IsList(F, p_next[p], p_next, NULL) /\ ToSet(F) = ToSet(FreeList) \ {p}
    <3>1. NULL \notin DOMAIN p_next
      BY <1>3
    <3>. QED  BY <1>4, <1>6, <1>10, <3>1, ListPop
  <2>2. DOMAIN next2 = DOMAIN p_next /\ \A x \in ToSet(F) : next2[x] = p_next[x]
    BY <1>3, <1>7, <1>9, <2>1
  <2>. QED  BY <2>1, <2>2, ListElsewhere
<1>12. PICK Q : Q = [r \in Queue |-> QueueOf(r)]
  OBVIOUS
<1>13. /\ \A r \in Queue : /\ Q[r] = QueueOf(r) /\ Ring(Q[r], tp[r], p_next, p_prev)
                           /\ ToSet(Q[r]) \subseteq Pcb /\ ToSet(Q[r]) \cap ToSet(FreeList) = {}
       /\ \A r, s \in Queue : r # s => ToSet(Q[r]) \cap ToSet(Q[s]) = {}
  BY <1>1, <1>12, QueueFacts DEF QueueInv
<1>14. ASSUME NEW r \in Queue
       PROVE  Ring(Q[r], tp[r], next2, prev2) /\ ToSet(Q[r]) \cap ToSet(F) = {}
  <2>1. \A x \in ToSet(Q[r]) : next2[x] = p_next[x] /\ prev2[x] = p_prev[x]
    BY <1>7, <1>9, <1>13
  <2>2. Ring(Q[r], tp[r], p_next, p_prev)
    BY <1>13
  <2>3. Ring(Q[r], tp[r], next2, prev2)
    BY <2>1, <2>2, RingElsewhere
  <2>. QED  BY <1>11, <1>13, <2>3
<1>15. QueueInv' /\ FreeList' = F /\ \A r \in Queue : QueueOf(r)' = Q[r]
  <2>1. DOMAIN p_next' = Pcb /\ IsList(F, pcbFree_h', p_next', NULL)
    BY <1>4, <1>8, <1>9, <1>11
  <2>2. /\ \A r \in Queue : Ring(Q[r], tp'[r], p_next', p_prev') /\ ToSet(Q[r]) \cap ToSet(F) = {}
        /\ \A r, s \in Queue : r # s => ToSet(Q[r]) \cap ToSet(Q[s]) = {}
    BY <1>4, <1>8, <1>13, <1>14
  <2>. QED  BY <2>1, <2>2, QueuesNext
<1>16. UNCHANGED treeLinks
  <2>1. p_prnt[p] = NULL /\ p_child[p] = NULL /\ p_sib_left[p] = NULL /\ p_sib_right[p] = NULL
    BY <1>1, <1>5, <1>7 DEF FreeInv, TreeInv
  <2>2. p_prnt' = p_prnt /\ p_child' = p_child
    BY <1>3, <1>4, <1>5, <2>1
  <2>3. p_sib_left' = p_sib_left /\ p_sib_right' = p_sib_right
    BY <1>3, <1>4, <1>5, <2>1
  <2>. QED  BY <2>2, <2>3 DEF treeLinks
<1>17. TreeInv' /\ \A a \in Pcb : Children(a)' = Children(a)
  BY <1>1, <1>16, TreeKept
<1>18. FreeInv'
  BY <1>1, <1>11, <1>15, <1>16 DEF FreeInv, treeLinks
<1>19. TypeOK'
  <2>1. pcbFree_h' \in Pointer
    BY <1>3, <1>4, <1>5
  <2>. QED  BY <1>1, <1>4, <1>8, <1>9, <1>16, <2>1 DEF TypeOK, treeLinks
<1>. QED  BY <1>7, <1>10, <1>13, <1>15, <1>17, <1>18, <1>19 DEF PcbInv

LEMMA TreeFacts ==
  ASSUME TypeOK, TreeInv, NEW a \in Pcb
  PROVE  /\ Family(a, Children(a), p_child[a], p_sib_right, p_sib_left, p_prnt)
         /\ Children(a) \in Seq(Pcb) /\ IsInjective(Children(a)) /\ ToSet(Children(a)) \subseteq Pcb
         /\ \A x \in ToSet(Children(a)) : p_prnt[x] = a
         /\ p_child[a] = NULL <=> Children(a) = <<>>
         /\ p_child[a] # NULL => p_child[a] \in ToSet(Children(a)) /\ p_child[a] = Children(a)[1]
<1>1. Family(a, Children(a), p_child[a], p_sib_right, p_sib_left, p_prnt)
  BY DEF TreeInv
<1>2. DOMAIN p_sib_right = Pcb /\ NULL \notin Pcb
  BY PointerAssumption DEF TypeOK
<1>3. IsList(Children(a), p_child[a], p_sib_right, NULL) /\ NULL \notin DOMAIN p_sib_right
  BY <1>1, <1>2 DEF Family
<1>4. \A x \in ToSet(Children(a)) : p_prnt[x] = a
  BY <1>1 DEF Family
<1>5. /\ Children(a) \in Seq(DOMAIN p_sib_right) /\ IsInjective(Children(a))
      /\ ToSet(Children(a)) \subseteq DOMAIN p_sib_right
      /\ p_child[a] = NULL <=> Children(a) = <<>>
      /\ p_child[a] # NULL => p_child[a] = Children(a)[1] /\ p_child[a] \in ToSet(Children(a))
  BY <1>3, ListFirst
<1>. QED  BY <1>1, <1>2, <1>4, <1>5

\* A pcb is somebody's child exactly when it has a parent.
LEMMA InTreeFacts ==
  ASSUME TypeOK, TreeInv, NEW p \in Pcb
  PROVE  /\ p_prnt[p] = NULL <=> \A a \in Pcb : p \notin ToSet(Children(a))
         /\ p_prnt[p] # NULL => p_prnt[p] \in Pcb /\ p \in ToSet(Children(p_prnt[p]))
         /\ \A a \in Pcb : p \in ToSet(Children(a)) => p_prnt[p] = a
<1>1. p_prnt[p] \in Pcb \cup {NULL} /\ NULL \notin Pcb
  BY PointerAssumption DEF TypeOK, Pointer
<1>2. \A a \in Pcb : p \in ToSet(Children(a)) => p_prnt[p] = a
  BY TreeFacts
<1>3. p_prnt[p] # NULL => p \in ToSet(Children(p_prnt[p]))
  BY DEF TreeInv
<1>. QED  BY <1>1, <1>2, <1>3

\* The tree changes: the queues and the free list do not.
LEMMA TreeChanges ==
  ASSUME PcbInv, UNCHANGED <<pcbFree_h, queueLinks>>, TreeInv',
         NEW child, NEW prnt, NEW left, NEW right,
         child = p_child', prnt = p_prnt', left = p_sib_left', right = p_sib_right',
         child \in [Pcb -> Pointer], prnt \in [Pcb -> Pointer],
         left \in [Pcb -> Pointer], right \in [Pcb -> Pointer],
         \A x \in ToSet(FreeList) : prnt[x] = NULL /\ child[x] = NULL
  PROVE  /\ PcbInv' /\ FreeList' = FreeList
         /\ \A r \in Queue : QueueOf(r)' = QueueOf(r)
<1>1. TypeOK /\ QueueInv /\ pcbFree_h' = pcbFree_h /\ UNCHANGED queueLinks
  BY DEF PcbInv
<1>2. QueueInv' /\ FreeList' = FreeList /\ \A r \in Queue : QueueOf(r)' = QueueOf(r)
  BY <1>1, QueuesKept
<1>3. TypeOK'
  BY <1>1 DEF TypeOK, queueLinks
<1>4. FreeInv'
  BY <1>2 DEF FreeInv
<1>. QED  BY <1>2, <1>3, <1>4 DEF PcbInv

\* insertChild: the newest child comes first.
LEMMA InsertChildStep ==
  ASSUME PcbInv, NEW prnt \in Pcb, NEW p \in Pcb, insertChild(prnt, p)
  PROVE  /\ PcbInv' /\ FreeList' = FreeList /\ \A r \in Queue : QueueOf(r)' = QueueOf(r)
         /\ \A a \in Pcb : Children(a)' = IF a = prnt THEN <<p>> \o Children(prnt) ELSE Children(a)
<1>1. TypeOK /\ TreeInv /\ FreeInv
  BY DEF PcbInv
<1>2. /\ prnt \notin ToSet(FreeList) /\ p \notin ToSet(FreeList) /\ prnt # p
      /\ p_prnt[p] = NULL /\ UNCHANGED <<pcbFree_h, queueLinks>>
  BY DEF insertChild, Allocated
<1>3. /\ p_prnt \in [Pcb -> Pointer] /\ p_child \in [Pcb -> Pointer]
      /\ p_sib_left \in [Pcb -> Pointer] /\ p_sib_right \in [Pcb -> Pointer]
      /\ NULL \notin Pcb /\ Pointer = Pcb \cup {NULL}
  BY <1>1, PointerAssumption DEF TypeOK, Pointer
<1>4. PICK first, child2, prnt2, left2, right2 :
        /\ first = p_child[prnt] /\ child2 = p_child' /\ prnt2 = p_prnt'
        /\ left2 = p_sib_left' /\ right2 = p_sib_right'
  OBVIOUS
<1>5. /\ child2 = [p_child EXCEPT ![prnt] = p] /\ prnt2 = [p_prnt EXCEPT ![p] = prnt]
      /\ right2 = [p_sib_right EXCEPT ![p] = first]
      /\ left2 = [a \in Pcb |-> IF a = p THEN NULL ELSE IF a = first THEN p ELSE p_sib_left[a]]
  BY <1>4 DEF insertChild
<1>6. /\ child2 \in [Pcb -> Pointer] /\ prnt2 \in [Pcb -> Pointer] /\ right2 \in [Pcb -> Pointer]
      /\ left2 \in [Pcb -> Pointer]
  BY <1>3, <1>4, <1>5
<1>7. /\ child2[prnt] = p /\ \A a \in Pcb \ {prnt} : child2[a] = p_child[a]
      /\ prnt2[p] = prnt /\ \A x \in Pcb \ {p} : prnt2[x] = p_prnt[x]
      /\ right2[p] = first /\ \A x \in Pcb \ {p} : right2[x] = p_sib_right[x]
      /\ left2[p] = NULL /\ \A x \in Pcb \ {p, first} : left2[x] = p_sib_left[x]
      /\ \A x \in Pcb \ {p} : x = first => left2[x] = p
  BY <1>3, <1>5
<1>8. PICK C : C = [a \in Pcb |-> Children(a)]
  OBVIOUS
<1>9. ASSUME NEW a \in Pcb
      PROVE  /\ C[a] = Children(a) /\ Family(a, C[a], p_child[a], p_sib_right, p_sib_left, p_prnt)
             /\ ToSet(C[a]) \subseteq Pcb /\ p \notin ToSet(C[a])
             /\ \A x \in ToSet(C[a]) : p_prnt[x] = a
  BY <1>1, <1>2, <1>8, TreeFacts, InTreeFacts
<1>10. first # NULL => first \in Pcb /\ first # p /\ first \in ToSet(C[prnt]) /\ p_prnt[first] = prnt
  <2>1. first # NULL => first \in ToSet(C[prnt])
    BY <1>1, <1>4, <1>9, TreeFacts
  <2>. QED  BY <1>9, <2>1
<1>11. PICK K : K = Inserted(p, C[prnt], 0)
  OBVIOUS
<1>12. /\ Family(prnt, K, p, right2, left2, prnt2)
       /\ K = <<p>> \o C[prnt] /\ ToSet(K) = ToSet(C[prnt]) \cup {p}
  <2>1. PICK c : c = C[prnt]
    OBVIOUS
  <2>2. Family(prnt, c, first, p_sib_right, p_sib_left, p_prnt) /\ p \notin ToSet(c)
    BY <1>4, <1>9, <2>1
  <2>3. DOMAIN p_sib_right = Pcb /\ DOMAIN right2 = Pcb
    BY <1>3, <1>6
  <2>4. /\ right2[p] = first /\ \A x \in ToSet(c) : right2[x] = p_sib_right[x]
        /\ \A x \in ToSet(c) \ {first} : left2[x] = p_sib_left[x]
        /\ prnt2[p] = prnt /\ \A x \in ToSet(c) : prnt2[x] = p_prnt[x]
    BY <1>7, <1>9, <2>1
  <2>5. left2[p] = NULL /\ (first # NULL => left2[first] = p)
    BY <1>7, <1>10
  <2>6. Family(prnt, Inserted(p, c, 0), p, right2, left2, prnt2)
    BY <2>2, <2>3, <2>4, <2>5, FamilyPush
  <2>7. c \in Seq(Pcb) /\ IsInjective(c) /\ Len(c) \in Nat
    BY <1>1, <1>9, <2>1, TreeFacts, SeqFacts
  <2>8. Inserted(p, c, 0) = <<p>> \o c
    BY <2>7, InsertedFirst
  <2>9. ToSet(Inserted(p, c, 0)) = ToSet(c) \cup {p}
    <3>1. 0 \in 0 .. Len(c)
      BY <2>7
    <3>. QED  BY <2>2, <2>7, <3>1, InsertedIs
  <2>. QED  BY <1>11, <2>1, <2>6, <2>8, <2>9
<1>13. ASSUME NEW a \in Pcb, a # prnt
       PROVE  Family(a, C[a], child2[a], right2, left2, prnt2)
  <2>1. \A x \in ToSet(C[a]) : x \in Pcb /\ x # p /\ x # first
    BY <1>9, <1>10, <1>13, <1>3
  <2>2. \A x \in ToSet(C[a]) : right2[x] = p_sib_right[x] /\ left2[x] = p_sib_left[x]
                               /\ prnt2[x] = p_prnt[x]
    BY <1>7, <2>1
  <2>3. Family(a, C[a], p_child[a], p_sib_right, p_sib_left, p_prnt) /\ DOMAIN right2 = DOMAIN p_sib_right
    BY <1>3, <1>6, <1>9
  <2>4. Family(a, C[a], p_child[a], right2, left2, prnt2)
    BY <2>2, <2>3, FamilyElsewhere
  <2>. QED  BY <1>7, <1>13, <2>4
<1>14. PICK D : D = [a \in Pcb |-> IF a = prnt THEN K ELSE C[a]]
  OBVIOUS
<1>15. \A a \in Pcb : Family(a, D[a], child2[a], right2, left2, prnt2)
  BY <1>7, <1>12, <1>13, <1>14
<1>16. ASSUME NEW x \in Pcb
       PROVE  /\ prnt2[x] = NULL => left2[x] = NULL /\ right2[x] = NULL
              /\ prnt2[x] # NULL => prnt2[x] \in Pcb /\ x \in ToSet(D[prnt2[x]])
  <2>1. CASE x = p
    BY <1>3, <1>7, <1>12, <1>14, <2>1
  <2>2. CASE x # p
    <3>1. prnt2[x] = p_prnt[x] /\ right2[x] = p_sib_right[x]
      BY <1>7, <2>2
    <3>2. CASE p_prnt[x] = NULL
      <4>1. x # first
        BY <1>3, <1>10, <3>2
      <4>2. p_sib_left[x] = NULL /\ p_sib_right[x] = NULL
        BY <1>1, <3>2 DEF TreeInv
      <4>. QED  BY <1>7, <2>2, <3>1, <3>2, <4>1, <4>2
    <3>3. CASE p_prnt[x] # NULL
      <4>1. p_prnt[x] \in Pcb /\ x \in ToSet(C[p_prnt[x]])
        BY <1>1, <1>9, <3>3, InTreeFacts
      <4>2. x \in ToSet(D[p_prnt[x]])
        BY <1>12, <1>14, <4>1
      <4>. QED  BY <3>1, <3>3, <4>1, <4>2
    <3>. QED  BY <3>2, <3>3
  <2>. QED  BY <2>1, <2>2
<1>17. TreeInv' /\ \A a \in Pcb : Children(a)' = D[a]
  <2>1. /\ DOMAIN p_sib_right' = Pcb
        /\ \A a \in Pcb : Family(a, D[a], p_child'[a], p_sib_right', p_sib_left', p_prnt')
        /\ \A x \in Pcb : /\ p_prnt'[x] = NULL => p_sib_left'[x] = NULL /\ p_sib_right'[x] = NULL
                          /\ p_prnt'[x] # NULL => p_prnt'[x] \in Pcb /\ x \in ToSet(D[p_prnt'[x]])
    BY <1>4, <1>6, <1>15, <1>16
  <2>. QED  BY <2>1, TreeNext
<1>18. \A x \in ToSet(FreeList) : prnt2[x] = NULL /\ child2[x] = NULL
  <2>1. ToSet(FreeList) \subseteq Pcb
    <3>1. FreeList \in Seq(DOMAIN p_next) /\ DOMAIN p_next = Pcb
      BY DEF PcbInv, QueueInv, IsList, TypeOK
    <3>. QED  BY <3>1, SeqFacts
  <2>. QED  BY <1>1, <1>2, <1>7, <2>1 DEF FreeInv
<1>19. PcbInv' /\ FreeList' = FreeList /\ \A r \in Queue : QueueOf(r)' = QueueOf(r)
  BY <1>2, <1>4, <1>6, <1>17, <1>18, TreeChanges
<1>. QED  BY <1>9, <1>12, <1>14, <1>17, <1>19

\* The siblings next to a child.
LEMMA FamilyNeighbours ==
  ASSUME NEW a, NEW C, NEW first, NEW right, NEW left, NEW prnt,
         Family(a, C, first, right, left, prnt), DOMAIN right = Pcb, NEW p \in ToSet(C)
  PROVE  left[p] \in (ToSet(C) \cup {NULL}) \ {p} /\ right[p] \in (ToSet(C) \cup {NULL}) \ {p}
<1>1. C \in Seq(Pcb) /\ IsInjective(C) /\ NULL \notin Pcb
  BY PointerAssumption DEF Family, IsList
<1>2. PICK n \in Nat : n = Len(C)
  BY <1>1, SeqFacts
<1>3. DOMAIN C = 1 .. n /\ \A i \in 1 .. n : C[i] \in Pcb /\ C[i] \in ToSet(C)
  BY <1>1, <1>2, SeqFacts
<1>4. PICK k \in 1 .. n : C[k] = p
  BY <1>3 DEF ToSet
<1>5. C # <<>>
  <2>1. n # 0
    BY <1>4
  <2>. QED  BY <1>1, <1>2, <2>1, SeqFacts
<1>6. /\ left[C[1]] = NULL /\ \A i \in 1 .. n - 1 : left[C[i+1]] = C[i]
      /\ right[C[n]] = NULL /\ \A i \in 1 .. n - 1 : right[C[i]] = C[i+1]
  BY <1>2, <1>5 DEF Family, IsList
<1>7. NULL # p /\ \A i \in 1 .. n : i # k => C[i] \in ToSet(C) \ {p}
  BY <1>1, <1>3, <1>4 DEF IsInjective
<1>8. left[p] \in (ToSet(C) \cup {NULL}) \ {p}
  <2>1. CASE k = 1
    BY <1>4, <1>6, <1>7, <2>1
  <2>2. CASE k # 1
    <3>1. k - 1 \in 1 .. n - 1 /\ (k - 1) + 1 = k /\ k - 1 \in 1 .. n /\ k - 1 # k
      BY <2>2
    <3>. QED  BY <1>4, <1>6, <1>7, <3>1
  <2>. QED  BY <2>1, <2>2
<1>9. right[p] \in (ToSet(C) \cup {NULL}) \ {p}
  <2>1. CASE k = n
    BY <1>4, <1>6, <1>7, <2>1
  <2>2. CASE k # n
    <3>1. k \in 1 .. n - 1 /\ k + 1 \in 1 .. n /\ k + 1 # k
      BY <2>2
    <3>. QED  BY <1>4, <1>6, <1>7, <3>1
  <2>. QED  BY <2>1, <2>2
<1>. QED  BY <1>8, <1>9

\* outChild: the pcb leaves its parent and siblings.
LEMMA OutChildStep ==
  ASSUME PcbInv, NEW p \in Pcb, outChild(p)
  PROVE  /\ PcbInv' /\ FreeList' = FreeList /\ \A r \in Queue : QueueOf(r)' = QueueOf(r)
         /\ \E a \in Pcb : p \in ToSet(Children(a))
         /\ \A a \in Pcb : Children(a)' = RemoveFirst(Children(a), p)
<1>1. TypeOK /\ TreeInv /\ FreeInv
  BY DEF PcbInv
<1>2. p_prnt[p] # NULL /\ UNCHANGED <<pcbFree_h, queueLinks>>
  BY DEF outChild
<1>3. /\ p_prnt \in [Pcb -> Pointer] /\ p_child \in [Pcb -> Pointer]
      /\ p_sib_left \in [Pcb -> Pointer] /\ p_sib_right \in [Pcb -> Pointer]
      /\ NULL \notin Pcb /\ Pointer = Pcb \cup {NULL}
  BY <1>1, PointerAssumption DEF TypeOK, Pointer
<1>4. PICK C : C = [a \in Pcb |-> Children(a)]
  OBVIOUS
<1>5. ASSUME NEW a \in Pcb
      PROVE  /\ C[a] = Children(a) /\ Family(a, C[a], p_child[a], p_sib_right, p_sib_left, p_prnt)
             /\ C[a] \in Seq(Pcb) /\ IsInjective(C[a]) /\ ToSet(C[a]) \subseteq Pcb
             /\ \A x \in ToSet(C[a]) : p_prnt[x] = a
             /\ p_child[a] = NULL <=> C[a] = <<>>
  BY <1>1, <1>4, TreeFacts
<1>6. PICK prnt \in Pcb : prnt = p_prnt[p] /\ p \in ToSet(C[prnt])
  BY <1>1, <1>2, <1>5, InTreeFacts
<1>7. PICK c, first : c = C[prnt] /\ first = p_child[prnt]
  OBVIOUS
<1>8. PICK l, r : l = p_sib_left[p] /\ r = p_sib_right[p]
  OBVIOUS
<1>9. /\ Family(prnt, c, first, p_sib_right, p_sib_left, p_prnt) /\ DOMAIN p_sib_right = Pcb
      /\ p \in ToSet(c) /\ c \in Seq(Pcb) /\ IsInjective(c) /\ ToSet(c) \subseteq Pcb
      /\ \A x \in ToSet(c) : p_prnt[x] = prnt
  BY <1>3, <1>5, <1>6, <1>7
<1>10. l \in (ToSet(c) \cup {NULL}) \ {p} /\ r \in (ToSet(c) \cup {NULL}) \ {p}
  BY <1>8, <1>9, FamilyNeighbours
<1>11. PICK child2, prnt2, left2, right2 :
         child2 = p_child' /\ prnt2 = p_prnt' /\ left2 = p_sib_left' /\ right2 = p_sib_right'
  OBVIOUS
<1>12. /\ child2 = [p_child EXCEPT ![prnt] = IF first = p THEN r ELSE first]
       /\ prnt2 = [p_prnt EXCEPT ![p] = NULL]
       /\ right2 = [a \in Pcb |-> IF a = p THEN NULL ELSE IF a = l THEN r ELSE p_sib_right[a]]
       /\ left2 = [a \in Pcb |-> IF a = p THEN NULL ELSE IF a = r THEN l ELSE p_sib_left[a]]
  BY <1>3, <1>6, <1>7, <1>8, <1>11 DEF outChild
<1>13. l \in Pointer /\ r \in Pointer /\ NULL \in Pointer /\ first \in Pointer
  BY <1>3, <1>7, <1>9, <1>10
<1>14. /\ child2 \in [Pcb -> Pointer] /\ prnt2 \in [Pcb -> Pointer] /\ right2 \in [Pcb -> Pointer]
       /\ left2 \in [Pcb -> Pointer]
  BY <1>3, <1>12, <1>13
<1>15. /\ child2[prnt] = (IF first = p THEN r ELSE first)
       /\ \A a \in Pcb \ {prnt} : child2[a] = p_child[a]
       /\ prnt2[p] = NULL /\ \A x \in Pcb \ {p} : prnt2[x] = p_prnt[x]
       /\ right2[p] = NULL /\ \A x \in Pcb \ {p, l} : right2[x] = p_sib_right[x]
       /\ left2[p] = NULL /\ \A x \in Pcb \ {p, r} : left2[x] = p_sib_left[x]
  BY <1>3, <1>12
<1>16. /\ l # NULL => right2[l] = r
       /\ r # NULL => left2[r] = l
  BY <1>9, <1>10, <1>12
<1>17. PICK K : K = RemoveFirst(c, p)
  OBVIOUS
<1>18. ToSet(K) = ToSet(c) \ {p}
  BY <1>9, <1>17, RemoveMember
<1>19. Family(prnt, K, child2[prnt], right2, left2, prnt2)
  <2>1. /\ p_sib_left[p] # NULL => right2[p_sib_left[p]] = p_sib_right[p]
        /\ \A x \in ToSet(c) \ {p, p_sib_left[p]} : right2[x] = p_sib_right[x]
    BY <1>8, <1>9, <1>15, <1>16
  <2>2. /\ p_sib_right[p] # NULL => left2[p_sib_right[p]] = p_sib_left[p]
        /\ \A x \in ToSet(c) \ {p, p_sib_right[p]} : left2[x] = p_sib_left[x]
    BY <1>8, <1>9, <1>15, <1>16
  <2>3. DOMAIN right2 = Pcb /\ \A x \in ToSet(c) \ {p} : prnt2[x] = p_prnt[x]
    BY <1>9, <1>14, <1>15
  <2>4. Family(prnt, RemoveFirst(c, p), IF first = p THEN p_sib_right[p] ELSE first, right2, left2, prnt2)
    BY <1>9, <2>1, <2>2, <2>3, FamilyRemove
  <2>. QED  BY <1>8, <1>15, <1>17, <2>4
<1>20. ASSUME NEW a \in Pcb, a # prnt
       PROVE  Family(a, C[a], child2[a], right2, left2, prnt2) /\ p \notin ToSet(C[a])
  <2>1. \A x \in ToSet(C[a]) : x \in Pcb /\ x # p /\ x # l /\ x # r
    BY <1>3, <1>5, <1>6, <1>9, <1>10, <1>20
  <2>2. \A x \in ToSet(C[a]) : right2[x] = p_sib_right[x] /\ left2[x] = p_sib_left[x]
                               /\ prnt2[x] = p_prnt[x]
    BY <1>15, <2>1
  <2>3. Family(a, C[a], p_child[a], p_sib_right, p_sib_left, p_prnt) /\ DOMAIN right2 = DOMAIN p_sib_right
    BY <1>3, <1>5, <1>14
  <2>4. Family(a, C[a], p_child[a], right2, left2, prnt2)
    BY <2>2, <2>3, FamilyElsewhere
  <2>. QED  BY <1>15, <1>20, <2>1, <2>4
<1>21. PICK D : D = [a \in Pcb |-> IF a = prnt THEN K ELSE C[a]]
  OBVIOUS
<1>22. \A a \in Pcb : Family(a, D[a], child2[a], right2, left2, prnt2)
  BY <1>19, <1>20, <1>21
<1>23. ASSUME NEW x \in Pcb
       PROVE  /\ prnt2[x] = NULL => left2[x] = NULL /\ right2[x] = NULL
              /\ prnt2[x] # NULL => prnt2[x] \in Pcb /\ x \in ToSet(D[prnt2[x]])
  <2>1. CASE x = p
    BY <1>15, <2>1
  <2>2. CASE x # p /\ p_prnt[x] = NULL
    <3>1. x # l /\ x # r
      BY <1>3, <1>9, <1>10, <2>2
    <3>2. p_sib_left[x] = NULL /\ p_sib_right[x] = NULL
      BY <1>1, <2>2 DEF TreeInv
    <3>. QED  BY <1>15, <2>2, <3>1, <3>2
  <2>3. CASE x # p /\ p_prnt[x] # NULL
    <3>1. p_prnt[x] \in Pcb /\ x \in ToSet(C[p_prnt[x]])
      BY <1>1, <1>5, <2>3, InTreeFacts
    <3>2. x \in ToSet(D[p_prnt[x]])
      BY <1>7, <1>18, <1>21, <2>3, <3>1
    <3>. QED  BY <1>15, <2>3, <3>1, <3>2
  <2>. QED  BY <2>1, <2>2, <2>3
<1>24. TreeInv' /\ \A a \in Pcb : Children(a)' = D[a]
  <2>1. /\ DOMAIN p_sib_right' = Pcb
        /\ \A a \in Pcb : Family(a, D[a], p_child'[a], p_sib_right', p_sib_left', p_prnt')
        /\ \A x \in Pcb : /\ p_prnt'[x] = NULL => p_sib_left'[x] = NULL /\ p_sib_right'[x] = NULL
                          /\ p_prnt'[x] # NULL => p_prnt'[x] \in Pcb /\ x \in ToSet(D[p_prnt'[x]])
    BY <1>11, <1>14, <1>22, <1>23
  <2>. QED  BY <2>1, TreeNext
<1>25. \A x \in ToSet(FreeList) : prnt2[x] = NULL /\ child2[x] = NULL
  <2>1. ToSet(FreeList) \subseteq Pcb
    <3>1. FreeList \in Seq(DOMAIN p_next) /\ DOMAIN p_next = Pcb
      BY DEF PcbInv, QueueInv, IsList, TypeOK
    <3>. QED  BY <3>1, SeqFacts
  <2>2. p_child[prnt] # NULL
    <3>1. ToSet(<<>>) = {}
      BY DEF ToSet
    <3>. QED  BY <1>5, <1>6, <3>1
  <2>3. prnt \notin ToSet(FreeList)
    BY <1>1, <2>2 DEF FreeInv
  <2>. QED  BY <1>1, <1>15, <2>1, <2>3 DEF FreeInv
<1>26. PcbInv' /\ FreeList' = FreeList /\ \A x \in Queue : QueueOf(x)' = QueueOf(x)
  BY <1>2, <1>11, <1>14, <1>24, <1>25, TreeChanges
<1>27. ASSUME NEW a \in Pcb
       PROVE  Children(a)' = RemoveFirst(Children(a), p)
  <2>1. CASE a = prnt
    BY <1>5, <1>7, <1>17, <1>21, <1>24, <2>1
  <2>2. CASE a # prnt
    <3>1. RemoveFirst(C[a], p) = C[a]
      BY <1>5, <1>20, <2>2, RemoveMember
    <3>. QED  BY <1>5, <1>21, <1>24, <2>2, <3>1
  <2>. QED  BY <2>1, <2>2
<1>. QED  BY <1>5, <1>6, <1>26, <1>27

\* removeChild: the newest child leaves.
LEMMA RemoveChildStep ==
  ASSUME PcbInv, NEW prnt \in Pcb, removeChild(prnt)
  PROVE  /\ PcbInv' /\ FreeList' = FreeList /\ \A r \in Queue : QueueOf(r)' = QueueOf(r)
         /\ Children(prnt) # <<>>
         /\ \A a \in Pcb : Children(a)' = IF a = prnt THEN Tail(Children(prnt)) ELSE Children(a)
<1>1. TypeOK /\ TreeInv
  BY DEF PcbInv
<1>2. PICK p : p = p_child[prnt]
  OBVIOUS
<1>3. p # NULL /\ outChild(p)
  BY <1>2 DEF removeChild
<1>4. /\ Children(prnt) \in Seq(Pcb) /\ IsInjective(Children(prnt)) /\ Children(prnt) # <<>>
      /\ p \in ToSet(Children(prnt)) /\ p = Children(prnt)[1] /\ p \in Pcb
  BY <1>1, <1>2, <1>3, TreeFacts
<1>5. /\ PcbInv' /\ FreeList' = FreeList /\ \A r \in Queue : QueueOf(r)' = QueueOf(r)
      /\ \A a \in Pcb : Children(a)' = RemoveFirst(Children(a), p)
  BY <1>3, <1>4, OutChildStep
<1>6. RemoveFirst(Children(prnt), p) = Tail(Children(prnt))
  <2>1. RemoveFirst(Children(prnt), Children(prnt)[1]) = Tail(Children(prnt))
    BY <1>4, RemoveHead
  <2>. QED  BY <1>4, <2>1
<1>7. ASSUME NEW a \in Pcb, a # prnt
      PROVE  RemoveFirst(Children(a), p) = Children(a)
  <2>1. p \notin ToSet(Children(a))
    BY <1>1, <1>4, <1>7, InTreeFacts
  <2>2. Children(a) \in Seq(Pcb) /\ IsInjective(Children(a))
    BY <1>1, TreeFacts
  <2>. QED  BY <2>1, <2>2, RemoveMember
<1>. QED  BY <1>4, <1>5, <1>6, <1>7

\* outProcQ: the pcb leaves the middle of its queue.
LEMMA OutProcQStep ==
  ASSUME PcbInv, NEW q \in Queue, NEW p \in Pcb, outProcQ(q, p)
  PROVE  /\ PcbInv' /\ FreeList' = FreeList /\ \A a \in Pcb : Children(a)' = Children(a)
         /\ p \in ToSet(QueueOf(q))
         /\ \A r \in Queue : QueueOf(r)' = IF r = q THEN RemoveFirst(QueueOf(q), p) ELSE QueueOf(r)
<1>1. /\ p \in ToSet(QueueOf(q)) /\ unlink(q, p) /\ pcbFree_h' = pcbFree_h /\ UNCHANGED treeLinks
  BY DEF outProcQ
<1>. QED  BY <1>1, UnlinkStep

LEMMA NextInv == PcbInv /\ [Next]_vars => PcbInv'
<1>. SUFFICES ASSUME PcbInv, [Next]_vars
              PROVE  PcbInv'
  OBVIOUS
<1>1. CASE UNCHANGED vars
  <2>1. pcbFree_h' = pcbFree_h /\ UNCHANGED queueLinks /\ UNCHANGED treeLinks
    BY <1>1 DEF vars, queueLinks, treeLinks
  <2>2. /\ QueueInv' /\ FreeList' = FreeList /\ TreeInv'
    BY <2>1, QueuesKept, TreeKept DEF PcbInv
  <2>. QED  BY <2>1, <2>2 DEF PcbInv, TypeOK, FreeInv, queueLinks, treeLinks
<1>2. CASE allocPcb
  BY <1>2, AllocPcbStep
<1>3. ASSUME NEW p \in Pcb, freePcb(p) \/ removeChild(p) \/ outChild(p)
      PROVE  PcbInv'
  BY <1>3, FreePcbStep, RemoveChildStep, OutChildStep
<1>4. ASSUME NEW p \in Pcb, NEW q \in Queue, insertProcQ(q, p) \/ outProcQ(q, p)
      PROVE  PcbInv'
  BY <1>4, InsertProcQStep, OutProcQStep
<1>5. ASSUME NEW p \in Pcb, NEW a \in Pcb, insertChild(a, p)
      PROVE  PcbInv'
  BY <1>5, InsertChildStep
<1>6. ASSUME NEW q \in Queue, removeProcQ(q)
      PROVE  PcbInv'
  BY <1>6, RemoveProcQStep
<1>. QED  BY <1>1, <1>2, <1>3, <1>4, <1>5, <1>6 DEF Next

-----------------------------------------------------------------------------
(* The theorems. *)

\* The free list is a list without a cycle, every process queue a ring closed
\* in both directions and every parent's children a list linked both ways; no
\* pcb is on the free list or in a queue twice or in two of them, and a free
\* pcb has no place in the tree.
THEOREM PcbInvariant == Spec => []PcbInv
<1>1. Init => PcbInv
  BY InitInv
<1>. QED  BY <1>1, NextInv, PTL DEF Spec

LEMMA PcbInvLinks == PcbInv => LinksMirror
<1>. SUFFICES ASSUME PcbInv
              PROVE  LinksMirror
  OBVIOUS
<1>1. TypeOK /\ QueueInv /\ TreeInv
  BY DEF PcbInv
<1>2. ASSUME NEW q \in Queue, NEW i \in DOMAIN QueueOf(q)
      PROVE  p_prev[QueueOf(q)[i]] = QueueOf(q)[IF i = 1 THEN Len(QueueOf(q)) ELSE i - 1]
  <2>1. PICK Q : Q = QueueOf(q)
    OBVIOUS
  <2>2. Q \in Seq(Pcb) /\ Ring(Q, tp[q], p_next, p_prev)
    BY <1>1, <2>1, QueueFacts
  <2>3. PICK n \in Nat : n = Len(Q) /\ DOMAIN Q = 1 .. n /\ (Q = <<>> <=> n = 0)
    BY <2>2, SeqFacts
  <2>4. i \in 1 .. n /\ Q # <<>>
    BY <1>2, <2>1, <2>3
  <2>5. p_prev[Q[1]] = Q[n] /\ \A j \in 1 .. n - 1 : p_prev[Q[j+1]] = Q[j]
    BY <2>2, <2>3, <2>4 DEF Ring
  <2>6. CASE i = 1
    BY <2>1, <2>3, <2>5, <2>6
  <2>7. CASE i # 1
    <3>1. i - 1 \in 1 .. n - 1 /\ (i - 1) + 1 = i
      BY <2>4, <2>7
    <3>2. p_prev[Q[i]] = Q[i - 1]
      BY <2>5, <3>1
    <3>. QED  BY <2>1, <2>7, <3>2
  <2>. QED  BY <2>6, <2>7
<1>3. ASSUME NEW p \in Pcb, p_sib_right[p] # NULL
      PROVE  p_sib_left[p_sib_right[p]] = p /\ p_prnt[p_sib_right[p]] = p_prnt[p]
  <2>1. p_prnt[p] # NULL
    BY <1>1, <1>3 DEF TreeInv
  <2>2. PICK a \in Pcb : a = p_prnt[p] /\ p \in ToSet(Children(a))
    BY <1>1, <2>1, InTreeFacts
  <2>3. PICK C : C = Children(a)
    OBVIOUS
  <2>4. /\ Family(a, C, p_child[a], p_sib_right, p_sib_left, p_prnt) /\ C \in Seq(Pcb)
        /\ p \in ToSet(C) /\ \A x \in ToSet(C) : p_prnt[x] = a
    BY <1>1, <2>2, <2>3, TreeFacts
  <2>5. PICK n \in Nat : n = Len(C) /\ DOMAIN C = 1 .. n /\ (C = <<>> <=> n = 0)
    BY <2>4, SeqFacts
  <2>6. PICK k \in 1 .. n : C[k] = p
    BY <2>4, <2>5 DEF ToSet
  <2>7. n # 0 /\ C # <<>>
    BY <2>5, <2>6
  <2>8. /\ \A i \in 1 .. n - 1 : p_sib_left[C[i+1]] = C[i] /\ p_sib_right[C[i]] = C[i+1]
        /\ p_sib_right[C[n]] = NULL
    BY <2>4, <2>5, <2>7 DEF Family, IsList
  <2>9. k \in 1 .. n - 1 /\ k + 1 \in 1 .. n
    <3>1. k # n
      BY <1>3, <2>6, <2>8
    <3>. QED  BY <3>1
  <2>10. p_sib_right[p] = C[k+1] /\ p_sib_left[C[k+1]] = p
    BY <2>6, <2>8, <2>9
  <2>11. C[k+1] \in ToSet(C)
    BY <2>5, <2>9 DEF ToSet
  <2>. QED  BY <2>2, <2>4, <2>10, <2>11
<1>4. \A p \in Pcb : p_prnt[p] # NULL => p \in ToSet(Children(p_prnt[p]))
  BY <1>1 DEF TreeInv
<1>. QED  BY <1>1, <1>2, <1>3, <1>4 DEF LinksMirror

\* What outProcQ and outChild rely on to unlink from the middle: the pcb before
\* a queued pcb leads to it, the right sibling of a child leads back to it and
\* has the same parent, and a pcb with a parent is among that parent's children.
THEOREM PcbLinks == Spec => []LinksMirror
BY PcbInvariant, PcbInvLinks, PTL

\* The linked lists of pcb.c are the stack, the FIFO queues and the tree of
\* ProcQueues, call by call.
THEOREM PcbImplements == Spec => Implements
<1>1. Init => Lists!Init
  <2>. SUFFICES ASSUME Init
                PROVE  Lists!Init
    OBVIOUS
  <2>1. FreeList \in SetToSeqs(Pcb)
    BY InitInv
  <2>2. FreeList \in Lists!SetToSeqs(Pcb)
    <3>1. Lists!Cardinality(Pcb) = Cardinality(Pcb)
      BY Zenon DEF Lists!Cardinality, Cardinality
    <3>2. Lists!SetToSeqs(Pcb) = SetToSeqs(Pcb)
      BY <3>1, Zenon DEF SetToSeqs, Lists!SetToSeqs
    <3>. QED  BY <2>1, <3>2
  <2>3. [q \in Queue |-> QueueOf(q)] = [q \in Queue |-> <<>>]
    BY InitInv
  <2>4. [p \in Pcb |-> Children(p)] = [p \in Pcb |-> <<>>]
    BY InitInv
  <2>. QED  BY <2>2, <2>3, <2>4 DEF Lists!Init
<1>2. PcbInv /\ [Next]_vars => [Lists!Next]_<<FreeList, [q \in Queue |-> QueueOf(q)],
                                              [p \in Pcb |-> Children(p)]>>
  <2>. SUFFICES ASSUME PcbInv, [Next]_vars
                PROVE  [Lists!Next]_<<FreeList, [q \in Queue |-> QueueOf(q)],
                                      [p \in Pcb |-> Children(p)]>>
    OBVIOUS
\* The abstract state before and after.
  <2>1. PICK free, queues, family : /\ free = FreeList /\ queues = [q \in Queue |-> QueueOf(q)]
                                    /\ family = [p \in Pcb |-> Children(p)]
    OBVIOUS
  <2>2. PICK free2, queues2, family2 : /\ free2 = FreeList'
                                       /\ queues2 = [q \in Queue |-> QueueOf(q)]'
                                       /\ family2 = [p \in Pcb |-> Children(p)]'
    OBVIOUS
  <2>3. \A s : Lists!ToSet(s) = ToSet(s)
    BY DEF Lists!ToSet, ToSet
  <2>4. \A s, x : Lists!RemoveFirst(s, x) = RemoveFirst(s, x)
    BY Zenon DEF Lists!RemoveFirst, RemoveFirst, Lists!RemoveAt, RemoveAt,
           Lists!SelectInSeq, SelectInSeq, Lists!Min, Min
  <2>5. ASSUME \A r \in Queue : QueueOf(r)' = QueueOf(r)
        PROVE  queues2 = queues
    BY <2>1, <2>2, <2>5
  <2>6. ASSUME \A a \in Pcb : Children(a)' = Children(a)
        PROVE  family2 = family
    BY <2>1, <2>2, <2>6
\* Nothing else of the abstract state but what the guards of the callers read.
  <2>7. ASSUME NEW p \in Pcb
        PROVE  /\ Allocated(p) <=> p \notin Lists!ToSet(free)
               /\ Queued(p) <=> \E q \in Queue : p \in Lists!ToSet(queues[q])
               /\ p_prnt[p] = NULL <=> ~\E a \in Pcb : p \in Lists!ToSet(family[a])
               /\ p_child[p] = NULL <=> family[p] = <<>>
    <3>1. Allocated(p) <=> p \notin Lists!ToSet(free)
      BY <2>1, <2>3 DEF Allocated
    <3>2. Queued(p) <=> \E q \in Queue : p \in Lists!ToSet(queues[q])
      BY <2>1, <2>3 DEF Queued
    <3>3. p_prnt[p] = NULL <=> ~\E a \in Pcb : p \in Lists!ToSet(family[a])
      BY <2>1, <2>3, InTreeFacts DEF PcbInv
    <3>4. p_child[p] = NULL <=> family[p] = <<>>
      BY <2>1, TreeFacts DEF PcbInv
    <3>. QED  BY <3>1, <3>2, <3>3, <3>4
  <2>8. CASE UNCHANGED vars
    <3>1. pcbFree_h' = pcbFree_h /\ UNCHANGED queueLinks /\ UNCHANGED treeLinks
      BY <2>8 DEF vars, queueLinks, treeLinks
    <3>2. FreeList' = FreeList /\ queues2 = queues /\ family2 = family
      BY <2>5, <2>6, <3>1, QueuesKept, TreeKept DEF PcbInv
    <3>. QED  BY <2>1, <2>2, <3>2
  <2>9. CASE allocPcb
    <3>1. /\ FreeList # <<>> /\ FreeList' = Tail(FreeList)
          /\ queues2 = queues /\ family2 = family
      BY <2>5, <2>6, <2>9, AllocPcbStep
    <3>2. Lists!allocPcb
      BY <2>1, <2>2, <3>1 DEF Lists!allocPcb
    <3>. QED  BY <3>2 DEF Lists!Next
  <2>10. ASSUME NEW p \in Pcb, freePcb(p)
         PROVE  Lists!freePcb(p)
    <3>1. /\ FreeList' = <<p>> \o FreeList /\ queues2 = queues /\ family2 = family
      BY <2>5, <2>6, <2>10, FreePcbStep
    <3>2. Allocated(p) /\ ~Queued(p) /\ p_prnt[p] = NULL /\ p_child[p] = NULL
      BY <2>10 DEF freePcb
    <3>3. Lists!Idle(p) /\ ~Lists!InTree(p) /\ family[p] = <<>>
      BY <2>1, <2>7, <3>2 DEF Lists!Idle, Lists!Queued, Lists!InTree
    <3>. QED  BY <2>1, <2>2, <3>1, <3>3 DEF Lists!freePcb
  <2>11. ASSUME NEW p \in Pcb, removeChild(p)
         PROVE  Lists!removeChild(p)
    <3>1. /\ FreeList' = FreeList /\ \A r \in Queue : QueueOf(r)' = QueueOf(r)
          /\ Children(p) # <<>>
          /\ \A a \in Pcb : Children(a)' = IF a = p THEN Tail(Children(p)) ELSE Children(a)
      BY <2>11, RemoveChildStep
    <3>2. queues2 = queues /\ family[p] # <<>> /\ family2 = [family EXCEPT ![p] = Tail(family[p])]
      BY <2>1, <2>2, <2>5, <3>1
    <3>. QED  BY <2>1, <2>2, <3>1, <3>2 DEF Lists!removeChild
  <2>12. ASSUME NEW p \in Pcb, outChild(p)
         PROVE  Lists!outChild(p)
    <3>1. /\ FreeList' = FreeList /\ \A r \in Queue : QueueOf(r)' = QueueOf(r)
          /\ \E a \in Pcb : p \in ToSet(Children(a))
          /\ \A a \in Pcb : Children(a)' = RemoveFirst(Children(a), p)
      BY <2>12, OutChildStep
    <3>2. queues2 = queues /\ \E a \in Pcb : p \in Lists!ToSet(family[a])
      BY <2>1, <2>3, <2>5, <3>1
    <3>3. family2 = [a \in Pcb |-> Lists!RemoveFirst(family[a], p)]
      BY <2>1, <2>2, <2>4, <3>1
    <3>. QED  BY <2>1, <2>2, <3>1, <3>2, <3>3 DEF Lists!outChild, Lists!InTree
  <2>13. ASSUME NEW p \in Pcb, NEW q \in Queue, insertProcQ(q, p)
         PROVE  Lists!insertProcQ(q, p)
    <3>1. /\ FreeList' = FreeList /\ \A a \in Pcb : Children(a)' = Children(a)
          /\ \A r \in Queue : QueueOf(r)' = IF r = q THEN Append(QueueOf(q), p) ELSE QueueOf(r)
      BY <2>13, InsertProcQStep
    <3>2. family2 = family /\ queues2 = [queues EXCEPT ![q] = Append(queues[q], p)]
      BY <2>1, <2>2, <2>6, <3>1
    <3>3. Allocated(p) /\ ~Queued(p)
      BY <2>13 DEF insertProcQ
    <3>4. Lists!Idle(p)
      BY <2>1, <2>7, <3>3 DEF Lists!Idle, Lists!Queued
    <3>. QED  BY <2>1, <2>2, <3>1, <3>2, <3>4 DEF Lists!insertProcQ
  <2>14. ASSUME NEW p \in Pcb, NEW q \in Queue, outProcQ(q, p)
         PROVE  Lists!outProcQ(q, p)
    <3>1. /\ FreeList' = FreeList /\ \A a \in Pcb : Children(a)' = Children(a)
          /\ p \in ToSet(QueueOf(q))
          /\ \A r \in Queue : QueueOf(r)' = IF r = q THEN RemoveFirst(QueueOf(q), p) ELSE QueueOf(r)
      BY <2>14, OutProcQStep
    <3>2. family2 = family /\ queues2 = [queues EXCEPT ![q] = Lists!RemoveFirst(queues[q], p)]
      BY <2>1, <2>2, <2>4, <2>6, <3>1
    <3>3. p \in Lists!ToSet(queues[q])
      BY <2>1, <2>3, <3>1
    <3>. QED  BY <2>1, <2>2, <3>1, <3>2, <3>3 DEF Lists!outProcQ
  <2>15. ASSUME NEW p \in Pcb, NEW a \in Pcb, insertChild(a, p)
         PROVE  Lists!insertChild(a, p)
    <3>1. /\ FreeList' = FreeList /\ \A r \in Queue : QueueOf(r)' = QueueOf(r)
          /\ \A b \in Pcb : Children(b)' = IF b = a THEN <<p>> \o Children(a) ELSE Children(b)
      BY <2>15, InsertChildStep
    <3>2. queues2 = queues /\ family2 = [family EXCEPT ![a] = <<p>> \o family[a]]
      BY <2>1, <2>2, <2>5, <3>1
    <3>3. Allocated(a) /\ Allocated(p) /\ a # p /\ p_prnt[p] = NULL /\ p_child[p] = NULL
      BY <2>15 DEF insertChild
    <3>4. {a, p} \cap Lists!ToSet(free) = {} /\ ~Lists!InTree(p) /\ family[p] = <<>>
      BY <2>1, <2>7, <3>3 DEF Lists!InTree
    <3>. QED  BY <2>1, <2>2, <3>1, <3>2, <3>3, <3>4 DEF Lists!insertChild
  <2>16. ASSUME NEW q \in Queue, removeProcQ(q)
         PROVE  Lists!removeProcQ(q)
    <3>1. /\ FreeList' = FreeList /\ \A a \in Pcb : Children(a)' = Children(a)
          /\ QueueOf(q) # <<>>
          /\ \A r \in Queue : QueueOf(r)' = IF r = q THEN Tail(QueueOf(q)) ELSE QueueOf(r)
      BY <2>16, RemoveProcQStep
    <3>2. family2 = family /\ queues[q] # <<>> /\ queues2 = [queues EXCEPT ![q] = Tail(queues[q])]
      BY <2>1, <2>2, <2>6, <3>1
    <3>. QED  BY <2>1, <2>2, <3>1, <3>2 DEF Lists!removeProcQ
  <2>. QED  BY <2>8, <2>9, <2>10, <2>11, <2>12, <2>13, <2>14, <2>15, <2>16 DEF Next, Lists!Next
<1>. QED  BY <1>1, <1>2, PcbInvariant, PTL DEF Spec, Implements, Lists!Spec, Lists!vars
=============================================================================
