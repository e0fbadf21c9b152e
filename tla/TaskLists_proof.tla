-------------------------- MODULE TaskLists_proof ---------------------------
(***************************************************************************)
(* Rows and answers of the task list handlers: proved of TaskLists for any *)
(* number of handlers, lists, tasks, rules and dates, every request, and   *)
(* trees of every size.                                                    *)
(***************************************************************************)
EXTENDS TaskLists, FiniteSetTheorems, TLAPS

-----------------------------------------------------------------------------
(***************************************************************************)
(* Counting: what the ranks of ByPosition and Picked are.                  *)
(***************************************************************************)
LEMMA Counted ==
    ASSUME NEW n \in Nat
    PROVE  /\ IsFiniteSet(1..n) /\ Cardinality(1..n) = n
           /\ IsFiniteSet(0..n - 1) /\ Cardinality(0..n - 1) = n
  <1>1. 0 \in Int /\ 1 \in Int /\ n \in Int /\ n - 1 \in Int  OBVIOUS
  <1>2. /\ IsFiniteSet(1..n)
        /\ Cardinality(1..n) = IF 1 > n THEN 0 ELSE n - 1 + 1
    BY <1>1, FS_Interval
  <1>3. /\ IsFiniteSet(0..n - 1)
        /\ Cardinality(0..n - 1) = IF 0 > n - 1 THEN 0 ELSE n - 1 - 0 + 1
    BY <1>1, FS_Interval
  <1> QED  BY <1>2, <1>3

\* A list of n different members that leaves none out has all n of them.
LEMMA Enumerated ==
    ASSUME NEW n \in Nat, NEW S, NEW f \in [1..n -> S],
           \A i, j \in 1..n : f[i] = f[j] => i = j,
           \A t \in S : \E i \in 1..n : f[i] = t
    PROVE  IsFiniteSet(S) /\ Cardinality(S) = n
  <1>1. f \in Injection(1..n, S)  BY DEF Injection, IsInjective
  <1>2. f \in Surjection(1..n, S)  BY DEF Surjection
  <1>3. ExistsBijection(1..n, S)
    BY <1>1, <1>2 DEF Bijection, ExistsBijection
  <1>4. IsFiniteSet(1..n) /\ Cardinality(1..n) = n  BY Counted
  <1> QED  BY <1>3, <1>4, FS_Bijection

\* When the positions of S are 0 .. |S|-1, no two are equal, and a member has as
\* many members up to it as its position says.
LEMMA NumberedRank ==
    ASSUME NEW S, IsFiniteSet(S), NEW pos \in [S -> Nat],
           {pos[t] : t \in S} = 0 .. Cardinality(S) - 1
    PROVE  /\ \A t, u \in S : pos[t] = pos[u] => t = u
           /\ \A t \in S : Cardinality({u \in S : pos[u] <= pos[t]}) = pos[t] + 1
  <1> DEFINE n == Cardinality(S)
  <1>1. n \in Nat  BY FS_CardinalityType
  <1>2. pos \in Surjection(S, 0..n - 1)
    <2>1. \A t \in S : pos[t] \in 0..n - 1  OBVIOUS
    <2>2. pos \in [S -> 0..n - 1]  BY <2>1
    <2>3. \A k \in 0..n - 1 : \E t \in S : pos[t] = k  OBVIOUS
    <2> QED  BY <2>2, <2>3 DEF Surjection
  <1>3. Cardinality(0..n - 1) = n  BY <1>1, Counted
  <1>4. pos \in Injection(S, 0..n - 1)
    BY <1>2, <1>3, FS_SurjSameCardinalityImpliesInj
  <1>5. \A t, u \in S : pos[t] = pos[u] => t = u
    BY <1>4 DEF Injection, IsInjective
  <1>6. ASSUME NEW t \in S
        PROVE  Cardinality({u \in S : pos[u] <= pos[t]}) = pos[t] + 1
    <2> DEFINE U == {u \in S : pos[u] <= pos[t]}
               m == pos[t] + 1
               f == [i \in 1..m |-> CHOOSE u \in S : pos[u] = i - 1]
    <2>1. m \in Nat  OBVIOUS
    <2>2. \A i \in 1..m : f[i] \in S /\ pos[f[i]] = i - 1
      <3> TAKE i \in 1..m
      <3>1. i - 1 \in 0..n - 1
        <4>1. pos[t] \in 0..n - 1  OBVIOUS
        <4> QED  BY <1>1, <4>1
      <3>2. \E u \in S : pos[u] = i - 1  BY <3>1
      <3> QED  BY <3>2
    <2>3. f \in [1..m -> U]  BY <2>2
    <2>4. \A i, j \in 1..m : f[i] = f[j] => i = j  BY <2>2
    <2>5. \A u \in U : \E i \in 1..m : f[i] = u
      <3> TAKE u \in U
      <3>1. pos[u] + 1 \in 1..m  OBVIOUS
      <3>2. pos[f[pos[u] + 1]] = pos[u]  BY <2>2, <3>1
      <3> QED  BY <1>5, <2>2, <3>1, <3>2
    <2> HIDE DEF f, U, m
    <2>6. Cardinality(U) = m  BY <2>1, <2>3, <2>4, <2>5, Enumerated
    <2> QED  BY <2>6 DEF U, m
  <1> QED  BY <1>5, <1>6

\* The n-th smallest member of K.
Nth(K, n) == CHOOSE k \in K : Cardinality({j \in K : j <= k}) = n

LEMMA NthMember ==
    ASSUME NEW K \in SUBSET Nat, IsFiniteSet(K)
    PROVE  /\ Cardinality(K) \in Nat
           /\ \A n \in 1..Cardinality(K) :
                 Nth(K, n) \in K /\ Cardinality({j \in K : j <= Nth(K, n)}) = n
           /\ \A n, m \in 1..Cardinality(K) : Nth(K, n) = Nth(K, m) => n = m
           /\ \A k \in K : \E n \in 1..Cardinality(K) : Nth(K, n) = k
  <1> DEFINE c == Cardinality(K)
             upTo(k) == {j \in K : j <= k}
             rank == [k \in K |-> Cardinality(upTo(k))]
  <1>1. c \in Nat  BY FS_CardinalityType
  <1>2. \A k \in K : /\ IsFiniteSet(upTo(k)) /\ Cardinality(upTo(k)) \in Nat
                     /\ Cardinality(upTo(k)) <= c
                     /\ Cardinality(upTo(k)) # 0
    <2> TAKE k \in K
    <2>1. upTo(k) \in SUBSET K /\ k \in upTo(k)  OBVIOUS
    <2> HIDE DEF upTo
    <2>2. IsFiniteSet(upTo(k)) /\ Cardinality(upTo(k)) <= c  BY <2>1, FS_Subset
    <2>3. Cardinality(upTo(k)) \in Nat  BY <2>2, FS_CardinalityType
    <2>4. Cardinality(upTo(k)) # 0  BY <2>1, <2>2, FS_EmptySet
    <2> QED  BY <2>2, <2>3, <2>4
  <1>3. \A j, k \in K : j < k => Cardinality(upTo(j)) # Cardinality(upTo(k))
    <2> SUFFICES ASSUME NEW j \in K, NEW k \in K, j < k
                 PROVE  Cardinality(upTo(j)) # Cardinality(upTo(k))
      OBVIOUS
    <2>1. upTo(j) \in SUBSET upTo(k)
      <3>1. \A x \in K : x <= j => x <= k  OBVIOUS
      <3> QED  BY <3>1
    <2>2. k \in upTo(k) /\ k \notin upTo(j)  OBVIOUS
    <2>3. IsFiniteSet(upTo(k))  BY <1>2
    <2> HIDE DEF upTo
    <2> QED  BY <2>1, <2>2, <2>3, FS_Subset
  <1>4. rank \in Injection(K, 1..c)
    <2>1. \A k \in K : rank[k] \in 1..c  BY <1>1, <1>2
    <2>2. rank \in [K -> 1..c]  BY <2>1
    <2>3. \A j, k \in K : rank[j] = rank[k] => j = k
      <3> SUFFICES ASSUME NEW j \in K, NEW k \in K, j # k PROVE rank[j] # rank[k]
        OBVIOUS
      <3>1. j < k \/ k < j  OBVIOUS
      <3> QED  BY <1>3, <3>1
    <2> QED  BY <2>2, <2>3 DEF Injection, IsInjective
  <1>5. IsFiniteSet(1..c) /\ Cardinality(1..c) = c  BY <1>1, Counted
  <1>6. rank \in Surjection(K, 1..c)  BY <1>4, <1>5, FS_Injection
  <1>7. \A n \in 1..c : \E k \in K : Cardinality(upTo(k)) = n
    BY <1>6 DEF Surjection
  <1>8. \A n \in 1..c : Nth(K, n) \in K /\ Cardinality(upTo(Nth(K, n))) = n
    BY <1>7 DEF Nth
  <1>9. \A k \in K : \E n \in 1..c : Nth(K, n) = k
    <2> TAKE k \in K
    <2>1. rank[k] \in 1..c  BY <1>4 DEF Injection
    <2>2. Nth(K, rank[k]) \in K /\ rank[Nth(K, rank[k])] = rank[k]
      BY <1>8, <2>1
    <2>3. Nth(K, rank[k]) = k  BY <1>4, <2>2 DEF Injection, IsInjective
    <2> QED  BY <2>1, <2>3
  <1> QED  BY <1>1, <1>8, <1>9

-----------------------------------------------------------------------------
(***************************************************************************)
(* Trees with all their ids, and what the handlers make of them.           *)
(***************************************************************************)
Task == MainTasks(TaskIds)
Tree == Trees(TaskIds)

\* What filtering keeps, in the order that it had.
LEMMA PickedSeq ==
    ASSUME NEW T, NEW seq \in Seq(T), NEW K \in SUBSET DOMAIN seq
    PROVE  /\ Picked(seq, K) \in Seq(T)
           /\ Len(Picked(seq, K)) = Cardinality(K)
           /\ Cardinality(K) \in Nat
           /\ \A n \in 1..Cardinality(K) : Nth(K, n) \in K /\ Picked(seq, K)[n] = seq[Nth(K, n)]
           /\ \A n, m \in 1..Cardinality(K) : Nth(K, n) = Nth(K, m) => n = m
           /\ \A k \in K : \E n \in 1..Cardinality(K) : Nth(K, n) = k
  <1>1. Len(seq) \in Nat /\ DOMAIN seq = 1..Len(seq)  OBVIOUS
  <1>2. K \in SUBSET (1..Len(seq)) /\ K \in SUBSET Nat  BY <1>1
  <1>3. IsFiniteSet(K)  BY <1>1, <1>2, Counted, FS_Subset
  <1>4. /\ Cardinality(K) \in Nat
        /\ \A n \in 1..Cardinality(K) : Nth(K, n) \in K
        /\ \A n, m \in 1..Cardinality(K) : Nth(K, n) = Nth(K, m) => n = m
        /\ \A k \in K : \E n \in 1..Cardinality(K) : Nth(K, n) = k
    BY <1>2, <1>3, NthMember
  <1>5. Picked(seq, K) = [n \in 1..Cardinality(K) |-> seq[Nth(K, n)]]
    BY DEF Picked, Nth
  <1>6. \A n \in 1..Cardinality(K) : seq[Nth(K, n)] \in T  BY <1>2, <1>4
  <1> HIDE DEF Nth
  <1> QED  BY <1>4, <1>5, <1>6

LEMMA SlotsOf ==
    ASSUME NEW ids, NEW tree \in Trees(ids)
    PROVE  /\ Len(tree) \in Nat /\ DOMAIN tree = 1..Len(tree)
           /\ \A i \in 1..Len(tree) : /\ tree[i] \in MainTasks(ids)
                                      /\ Len(tree[i].subs) \in Nat
                                      /\ DOMAIN tree[i].subs = 1..Len(tree[i].subs)
           /\ \A s \in Slots(tree) :
                 \/ \E i \in 1..Len(tree) : s = <<i, 0>>
                 \/ \E i \in 1..Len(tree) : \E j \in 1..Len(tree[i].subs) : s = <<i, j>>
           /\ \A i \in 1..Len(tree) : <<i, 0>> \in Slots(tree)
           /\ \A i \in 1..Len(tree) : \A j \in 1..Len(tree[i].subs) : <<i, j>> \in Slots(tree)
  <1>1. Len(tree) \in Nat /\ DOMAIN tree = 1..Len(tree)  BY DEF Trees
  <1>2. \A i \in 1..Len(tree) : tree[i] \in MainTasks(ids)  BY DEF Trees
  <1>3. \A i \in 1..Len(tree) : tree[i].subs \in Seq(SubTasks(ids))
    BY <1>2 DEF MainTasks
  <1>4. \A i \in 1..Len(tree) : /\ Len(tree[i].subs) \in Nat
                                /\ DOMAIN tree[i].subs = 1..Len(tree[i].subs)
    BY <1>3
  <1>5. \A i \in 1..Len(tree) : \A j \in 0..Len(tree[i].subs) : <<i, j>> \in Slots(tree)
    BY <1>1 DEF Slots
  <1>6. ASSUME NEW s \in Slots(tree)
        PROVE  \/ \E i \in 1..Len(tree) : s = <<i, 0>>
               \/ \E i \in 1..Len(tree) : \E j \in 1..Len(tree[i].subs) : s = <<i, j>>
    <2>1. PICK i \in 1..Len(tree) : s \in {<<i, j>> : j \in 0..Len(tree[i].subs)}
      BY <1>1 DEF Slots
    <2>2. PICK j \in 0..Len(tree[i].subs) : s = <<i, j>>  BY <2>1
    <2>3. j = 0 \/ j \in 1..Len(tree[i].subs)  BY <1>4
    <2> QED  BY <2>2, <2>3
  <1>7. \A i \in 1..Len(tree) :
           0 \in 0..Len(tree[i].subs) /\ \A j \in 1..Len(tree[i].subs) : j \in 0..Len(tree[i].subs)
    BY <1>4
  <1> QED  BY <1>1, <1>2, <1>4, <1>5, <1>6, <1>7

LEMMA IdsInTree ==
    ASSUME NEW ids, NEW tree \in Trees(ids)
    PROVE  /\ \A i \in 1..Len(tree) : IdAt(tree, <<i, 0>>) = tree[i].id
           /\ \A i \in 1..Len(tree) : \A j \in 1..Len(tree[i].subs) :
                 IdAt(tree, <<i, j>>) = tree[i].subs[j].id
           /\ IdsOf(tree) \subseteq ids
  <1>1. \A i \in 1..Len(tree) : IdAt(tree, <<i, 0>>) = tree[i].id  BY DEF IdAt
  <1>2. \A i \in 1..Len(tree) : \A j \in 1..Len(tree[i].subs) :
           IdAt(tree, <<i, j>>) = tree[i].subs[j].id
    BY DEF IdAt
  <1>3. \A i \in 1..Len(tree) : tree[i].id \in ids /\ tree[i].subs \in Seq(SubTasks(ids))
    BY SlotsOf DEF MainTasks
  <1>4. \A i \in 1..Len(tree) : \A j \in 1..Len(tree[i].subs) : tree[i].subs[j].id \in ids
    <2> TAKE i \in 1..Len(tree)
    <2>1. tree[i].subs \in Seq(SubTasks(ids))  BY <1>3
    <2>2. \A j \in 1..Len(tree[i].subs) : tree[i].subs[j] \in SubTasks(ids)  BY <2>1
    <2> QED  BY <2>2 DEF SubTasks
  <1>5. \A s \in Slots(tree) : IdAt(tree, s) \in ids
    <2> TAKE s \in Slots(tree)
    <2>1. \/ \E i \in 1..Len(tree) : s = <<i, 0>>
          \/ \E i \in 1..Len(tree) : \E j \in 1..Len(tree[i].subs) : s = <<i, j>>
      BY SlotsOf
    <2> QED  BY <1>1, <1>2, <1>3, <1>4, <2>1, Zenon
  <1> QED  BY <1>1, <1>2, <1>5 DEF IdsOf

LEMMA ValidDates ==
    ASSUME NEW ids, NEW tree \in Trees(ids)
    PROVE  Valid(tree) <=>
           /\ Len(tree) <= MaxTasks
           /\ \A i \in 1..Len(tree) : /\ Len(tree[i].subs) <= MaxSubtasks
                                      /\ tree[i].rec # NoRule => tree[i].due # 0
  <1>1. DOMAIN tree = 1..Len(tree)  BY DEF Trees
  <1>2. Range(tree) = {tree[i] : i \in 1..Len(tree)}  BY <1>1 DEF Range
  <1> QED  BY <1>2 DEF Valid

\* Once every place that has no id of TaskIds is given one, all have one.
LEMMA Named ==
    ASSUME NEW tree \in Trees(TaskIds \cup {Blank}), NEW f, NEW S \in SUBSET Slots(tree),
           f \in [S -> TaskIds],
           \A s \in Slots(tree) \ S : IdAt(tree, s) # Blank
    PROVE  /\ WithIds(tree, f) \in Tree
           /\ Len(WithIds(tree, f)) = Len(tree)
           /\ \A i \in 1..Len(tree) :
                 /\ WithIds(tree, f)[i].rec = tree[i].rec
                 /\ WithIds(tree, f)[i].due = tree[i].due
                 /\ Len(WithIds(tree, f)[i].subs) = Len(tree[i].subs)
           /\ Valid(tree) => Valid(WithIds(tree, f))
  <1> DEFINE ids == TaskIds \cup {Blank}
             id(s) == IF s \in DOMAIN f THEN f[s] ELSE IdAt(tree, s)
             subs(i) == [j \in DOMAIN tree[i].subs |->
                            [tree[i].subs[j] EXCEPT !.id = id(<<i, j>>)]]
             task(i) == [tree[i] EXCEPT !.id = id(<<i, 0>>), !.subs = subs(i)]
  <1>1. /\ Len(tree) \in Nat /\ DOMAIN tree = 1..Len(tree)
        /\ \A i \in 1..Len(tree) : /\ tree[i] \in MainTasks(ids)
                                   /\ Len(tree[i].subs) \in Nat
                                   /\ DOMAIN tree[i].subs = 1..Len(tree[i].subs)
        /\ \A i \in 1..Len(tree) : <<i, 0>> \in Slots(tree)
        /\ \A i \in 1..Len(tree) : \A j \in 1..Len(tree[i].subs) : <<i, j>> \in Slots(tree)
    BY SlotsOf
  <1>2. \A s \in Slots(tree) : id(s) \in TaskIds
    <2>1. \A s \in Slots(tree) : IdAt(tree, s) \in ids  BY IdsInTree DEF IdsOf
    <2> QED  BY <2>1
  <1>3. \A i \in 1..Len(tree) :
           subs(i) \in Seq(SubTasks(TaskIds)) /\ Len(subs(i)) = Len(tree[i].subs)
    <2> TAKE i \in 1..Len(tree)
    <2>1. tree[i].subs \in Seq(SubTasks(ids))  BY <1>1 DEF MainTasks
    <2>2. \A j \in 1..Len(tree[i].subs) : tree[i].subs[j] \in SubTasks(ids)  BY <2>1
    <2>3. \A j \in 1..Len(tree[i].subs) : id(<<i, j>>) \in TaskIds  BY <1>1, <1>2
    <2> HIDE DEF id
    <2>4. \A j \in 1..Len(tree[i].subs) :
             [tree[i].subs[j] EXCEPT !.id = id(<<i, j>>)] \in SubTasks(TaskIds)
      BY <2>2, <2>3 DEF SubTasks
    <2>5. DOMAIN tree[i].subs = 1..Len(tree[i].subs) /\ Len(tree[i].subs) \in Nat  BY <1>1
    <2>6. \A n \in Nat : \A T, g : g = [j \in 1..n |-> g[j]] /\ (\A j \in 1..n : g[j] \in T)
                                  => g \in Seq(T)
      OBVIOUS
    <2>7. subs(i) = [j \in 1..Len(tree[i].subs) |-> subs(i)[j]]  BY <2>5, Zenon
    <2>8. \A j \in 1..Len(tree[i].subs) : subs(i)[j] \in SubTasks(TaskIds)
      BY <2>4, <2>5, Zenon
    <2>9. DOMAIN subs(i) = 1..Len(tree[i].subs)  BY <2>5, Zenon
    <2> HIDE DEF subs
    <2>10. subs(i) \in Seq(SubTasks(TaskIds))  BY <2>5, <2>6, <2>7, <2>8, Zenon
    <2>11. Len(subs(i)) = Len(tree[i].subs)  BY <2>5, <2>9, <2>10
    <2> QED  BY <2>10, <2>11
  <1>4. \A i \in 1..Len(tree) : id(<<i, 0>>) \in TaskIds  BY <1>1, <1>2
  <1>5. WithIds(tree, f) = [i \in DOMAIN tree |-> task(i)]  BY DEF WithIds
  <1> HIDE DEF id, subs
  <1>6. \A i \in 1..Len(tree) : /\ task(i) \in MainTasks(TaskIds)
                                /\ task(i).rec = tree[i].rec /\ task(i).due = tree[i].due
                                /\ task(i).subs = subs(i)
    BY <1>1, <1>3, <1>4 DEF MainTasks
  <1> HIDE DEF task
  <1>7. WithIds(tree, f) \in Tree /\ Len(WithIds(tree, f)) = Len(tree)
    BY <1>1, <1>5, <1>6 DEF Tree, Trees
  <1>8. \A i \in 1..Len(tree) :
           /\ WithIds(tree, f)[i].rec = tree[i].rec
           /\ WithIds(tree, f)[i].due = tree[i].due
           /\ Len(WithIds(tree, f)[i].subs) = Len(tree[i].subs)
    BY <1>1, <1>3, <1>5, <1>6
  <1>9. Valid(tree) => Valid(WithIds(tree, f))
    <2>1. Valid(tree) <=>
             /\ Len(tree) <= MaxTasks
             /\ \A i \in 1..Len(tree) : /\ Len(tree[i].subs) <= MaxSubtasks
                                        /\ tree[i].rec # NoRule => tree[i].due # 0
      BY ValidDates
    <2> DEFINE w == WithIds(tree, f)
    <2>2. w \in Trees(TaskIds)  BY <1>7 DEF Tree
    <2> HIDE DEF w
    <2>3. Valid(w) <=>
             /\ Len(w) <= MaxTasks
             /\ \A i \in 1..Len(w) : /\ Len(w[i].subs) <= MaxSubtasks
                                     /\ w[i].rec # NoRule => w[i].due # 0
      BY <2>2, ValidDates
    <2> QED  BY <1>7, <1>8, <2>1, <2>3 DEF w
  <1> QED  BY <1>7, <1>8, <1>9

\* After gives the new date, if the rule has one.
LEMMA Advanced ==
    ASSUME NEW tree \in Tree, Valid(tree), NEW existing
    PROVE  LET adv == AdvanceRecurringTasks(tree, existing) IN
           /\ adv \in Tree /\ Len(adv) = Len(tree)
           /\ \A i \in 1..Len(tree) :
                 /\ adv[i].id = tree[i].id /\ adv[i].rec = tree[i].rec
                 /\ NewlyDone(tree[i], existing) =>
                       adv[i].done = FALSE /\ adv[i].due = After(tree[i].rec, tree[i].due)
                 /\ ~NewlyDone(tree[i], existing) => adv[i] = tree[i]
  <1> DEFINE adv == AdvanceRecurringTasks(tree, existing)
             moved(i) == [tree[i] EXCEPT !.done = FALSE,
                                         !.due = After(tree[i].rec, tree[i].due)]
  <1>1. /\ Len(tree) \in Nat /\ DOMAIN tree = 1..Len(tree)
        /\ \A i \in 1..Len(tree) : tree[i] \in Task
    BY SlotsOf DEF Tree, Task
  <1>2. \A i \in 1..Len(tree) : tree[i].rec # NoRule => tree[i].due # 0
    BY ValidDates DEF Tree
  <1>3. \A i \in 1..Len(tree) : NewlyDone(tree[i], existing) =>
           After(tree[i].rec, tree[i].due) \in Dates \cup {0}
    <2> SUFFICES ASSUME NEW i \in 1..Len(tree), NewlyDone(tree[i], existing)
                 PROVE  After(tree[i].rec, tree[i].due) \in Dates \cup {0}
      OBVIOUS
    <2>1. tree[i].rec \in Rules  BY <1>1 DEF NewlyDone, Task, MainTasks
    <2>2. tree[i].due \in Dates  BY <1>1, <1>2 DEF NewlyDone, Task, MainTasks
    <2> QED  BY <2>1, <2>2, RulesAssumption DEF After
  <1>4. \A i \in 1..Len(tree) : NewlyDone(tree[i], existing) =>
           /\ moved(i) \in Task
           /\ moved(i).id = tree[i].id /\ moved(i).rec = tree[i].rec
           /\ moved(i).done = FALSE /\ moved(i).due = After(tree[i].rec, tree[i].due)
    BY <1>1, <1>3 DEF Task, MainTasks
  <1>5. adv = [i \in 1..Len(tree) |-> IF NewlyDone(tree[i], existing) THEN moved(i) ELSE tree[i]]
    BY <1>1 DEF AdvanceRecurringTasks
  <1> HIDE DEF adv, moved
  <1>6. \A i \in 1..Len(tree) : /\ NewlyDone(tree[i], existing) => adv[i] = moved(i)
                                /\ ~NewlyDone(tree[i], existing) => adv[i] = tree[i]
                                /\ adv[i] \in Task
    BY <1>1, <1>4, <1>5
  <1>7. adv \in Seq(Task) /\ Len(adv) = Len(tree)  BY <1>1, <1>5, <1>6
  <1>8. \A i \in 1..Len(tree) :
           /\ adv[i].id = tree[i].id /\ adv[i].rec = tree[i].rec
           /\ NewlyDone(tree[i], existing) =>
                 adv[i].done = FALSE /\ adv[i].due = After(tree[i].rec, tree[i].due)
           /\ ~NewlyDone(tree[i], existing) => adv[i] = tree[i]
    BY <1>4, <1>6
  <1> QED  BY <1>7, <1>8 DEF adv, Tree, Trees, Task

LEMMA Filtered ==
    ASSUME NEW tree \in Tree
    PROVE  LET kept == FilterAutoDeleted(tree)
               S    == Stays(tree)
           IN  /\ kept \in Tree /\ Len(kept) = Cardinality(S)
               /\ S \subseteq 1..Len(tree)
               /\ \A n \in 1..Len(kept) :
                     /\ Nth(S, n) \in S
                     /\ kept[n].id = tree[Nth(S, n)].id /\ kept[n].rec = tree[Nth(S, n)].rec
                     /\ kept[n].done = tree[Nth(S, n)].done /\ kept[n].due = tree[Nth(S, n)].due
               /\ \A n, m \in 1..Len(kept) : Nth(S, n) = Nth(S, m) => n = m
               /\ \A i \in S : \E n \in 1..Len(kept) : Nth(S, n) = i
  <1> DEFINE S == Stays(tree)
             cut(i) == [tree[i] EXCEPT !.subs = OpenSubs(tree[i])]
             open == [i \in DOMAIN tree |-> cut(i)]
  <1>1. /\ Len(tree) \in Nat /\ DOMAIN tree = 1..Len(tree)
        /\ \A i \in 1..Len(tree) : tree[i] \in Task
    BY SlotsOf DEF Tree, Task
  <1>2. \A i \in 1..Len(tree) : OpenSubs(tree[i]) \in Seq(SubTasks(TaskIds))
    <2> TAKE i \in 1..Len(tree)
    <2>1. tree[i].subs \in Seq(SubTasks(TaskIds))  BY <1>1 DEF Task, MainTasks
    <2>2. {j \in DOMAIN tree[i].subs : ~tree[i].subs[j].done} \in SUBSET DOMAIN tree[i].subs
      OBVIOUS
    <2> QED  BY <2>1, <2>2, PickedSeq DEF OpenSubs
  <1>3. \A i \in 1..Len(tree) :
           /\ cut(i) \in Task
           /\ cut(i).id = tree[i].id /\ cut(i).rec = tree[i].rec
           /\ cut(i).done = tree[i].done /\ cut(i).due = tree[i].due
    BY <1>1, <1>2 DEF Task, MainTasks
  <1>4. FilterAutoDeleted(tree) = Picked(open, S)  BY DEF FilterAutoDeleted
  <1> HIDE DEF cut
  <1>5. open \in Seq(Task) /\ DOMAIN open = 1..Len(tree)  BY <1>1, <1>3
  <1>6. S \in SUBSET DOMAIN open  BY <1>1, <1>5 DEF Stays
  <1>7. \A i \in 1..Len(tree) : open[i] = cut(i)  BY <1>1
  <1> HIDE DEF S, open
  <1>8. /\ Picked(open, S) \in Seq(Task)
        /\ Len(Picked(open, S)) = Cardinality(S)
        /\ \A n \in 1..Cardinality(S) : Nth(S, n) \in S /\ Picked(open, S)[n] = open[Nth(S, n)]
        /\ \A n, m \in 1..Cardinality(S) : Nth(S, n) = Nth(S, m) => n = m
        /\ \A k \in S : \E n \in 1..Cardinality(S) : Nth(S, n) = k
    BY <1>5, <1>6, PickedSeq
  <1>9. \A n \in 1..Cardinality(S) :
           /\ Nth(S, n) \in S
           /\ Picked(open, S)[n].id = tree[Nth(S, n)].id
           /\ Picked(open, S)[n].rec = tree[Nth(S, n)].rec
           /\ Picked(open, S)[n].done = tree[Nth(S, n)].done
           /\ Picked(open, S)[n].due = tree[Nth(S, n)].due
    BY <1>3, <1>5, <1>6, <1>7, <1>8
  <1>10. S \subseteq 1..Len(tree)  BY <1>5, <1>6
  <1> QED  BY <1>4, <1>8, <1>9, <1>10 DEF S, Tree, Trees, Task

\* The task of the request that the n-th task of the plan comes from: it does
\* not depend on what was stored before.
Origin(tree, auto, n) == IF auto THEN Nth(Stays(tree), n) ELSE n

\* plan has the tasks of the request that are left, the newly done ones advanced,
\* and among them all that recur.
PlanOf(plan, tree, auto, existing) ==
    /\ plan \in Tree
    /\ \A n \in 1..Len(plan) :
          /\ Origin(tree, auto, n) \in 1..Len(tree)
          /\ plan[n].id = tree[Origin(tree, auto, n)].id
          /\ plan[n].rec = tree[Origin(tree, auto, n)].rec
          /\ NewlyDone(tree[Origin(tree, auto, n)], existing) =>
                /\ plan[n].done = FALSE
                /\ plan[n].due = After(tree[Origin(tree, auto, n)].rec,
                                          tree[Origin(tree, auto, n)].due)
          /\ ~NewlyDone(tree[Origin(tree, auto, n)], existing) =>
                /\ plan[n].done = tree[Origin(tree, auto, n)].done
                /\ plan[n].due = tree[Origin(tree, auto, n)].due
    /\ \A i \in 1..Len(tree) : tree[i].rec # NoRule =>
          \E n \in 1..Len(plan) : Origin(tree, auto, n) = i

LEMMA OutcomeTasks ==
    ASSUME NEW tree \in Tree, Valid(tree), NEW auto \in BOOLEAN, NEW existing, NEW plan,
           plan = Outcome(tree, auto, existing)
    PROVE  PlanOf(plan, tree, auto, existing)
  <1> DEFINE adv == AdvanceRecurringTasks(tree, existing)
  <1>1. /\ adv \in Tree /\ Len(adv) = Len(tree)
        /\ \A i \in 1..Len(tree) :
              /\ adv[i].id = tree[i].id /\ adv[i].rec = tree[i].rec
              /\ NewlyDone(tree[i], existing) =>
                    adv[i].done = FALSE /\ adv[i].due = After(tree[i].rec, tree[i].due)
              /\ ~NewlyDone(tree[i], existing) => adv[i] = tree[i]
    BY Advanced
  <1>2. Len(tree) \in Nat /\ DOMAIN tree = 1..Len(tree) /\ DOMAIN adv = 1..Len(tree)
    BY <1>1, SlotsOf DEF Tree
  <1>3. \A i \in 1..Len(tree) : NewlyDone(tree[i], existing) => tree[i].rec # NoRule
    BY DEF NewlyDone
  <1>4. Outcome(tree, auto, existing) = IF auto THEN FilterAutoDeleted(adv) ELSE adv
    BY DEF Outcome
  <1> HIDE DEF adv
  <1>5. CASE ~auto
    <2>1. Outcome(tree, auto, existing) = adv  BY <1>4, <1>5
    <2>2. \A n \in 1..Len(adv) : Origin(tree, auto, n) = n  BY <1>5 DEF Origin
    <2> QED  BY <1>1, <2>1, <2>2 DEF PlanOf
  <1>6. CASE auto
    <2>1. Stays(adv) = Stays(tree)
      <3>1. \A i \in 1..Len(tree) :
               ~(adv[i].done /\ adv[i].rec = NoRule) <=> ~(tree[i].done /\ tree[i].rec = NoRule)
        BY <1>1, <1>3
      <3> QED  BY <1>2, <3>1 DEF Stays
    <2> DEFINE kept == FilterAutoDeleted(adv)
               S == Stays(tree)
    <2>2. /\ kept \in Tree
          /\ S \subseteq 1..Len(tree)
          /\ \A n \in 1..Len(kept) :
                /\ Nth(S, n) \in S
                /\ kept[n].id = adv[Nth(S, n)].id /\ kept[n].rec = adv[Nth(S, n)].rec
                /\ kept[n].done = adv[Nth(S, n)].done /\ kept[n].due = adv[Nth(S, n)].due
          /\ \A i \in S : \E n \in 1..Len(kept) : Nth(S, n) = i
      <3>1. /\ FilterAutoDeleted(adv) \in Tree
            /\ Stays(adv) \subseteq 1..Len(adv)
            /\ \A n \in 1..Len(FilterAutoDeleted(adv)) :
                  /\ Nth(Stays(adv), n) \in Stays(adv)
                  /\ FilterAutoDeleted(adv)[n].id = adv[Nth(Stays(adv), n)].id
                  /\ FilterAutoDeleted(adv)[n].rec = adv[Nth(Stays(adv), n)].rec
                  /\ FilterAutoDeleted(adv)[n].done = adv[Nth(Stays(adv), n)].done
                  /\ FilterAutoDeleted(adv)[n].due = adv[Nth(Stays(adv), n)].due
            /\ \A i \in Stays(adv) : \E n \in 1..Len(FilterAutoDeleted(adv)) :
                  Nth(Stays(adv), n) = i
        BY <1>1, Filtered
      <3> QED  BY <1>1, <2>1, <3>1, Zenon
    <2>3. Outcome(tree, auto, existing) = kept  BY <1>4, <1>6
    <2>4. \A n : Origin(tree, auto, n) = Nth(S, n)  BY <1>6 DEF Origin
    <2>5. \A i \in 1..Len(tree) : tree[i].rec # NoRule => i \in S  BY <1>2 DEF Stays
    <2> HIDE DEF kept, S
    <2>6. \A n \in 1..Len(kept) : Nth(S, n) \in 1..Len(tree)  BY <2>2
    <2>7. \A n \in 1..Len(kept) :
             /\ kept[n].id = tree[Nth(S, n)].id /\ kept[n].rec = tree[Nth(S, n)].rec
             /\ NewlyDone(tree[Nth(S, n)], existing) =>
                   /\ kept[n].done = FALSE
                   /\ kept[n].due = After(tree[Nth(S, n)].rec, tree[Nth(S, n)].due)
             /\ ~NewlyDone(tree[Nth(S, n)], existing) =>
                   kept[n].done = tree[Nth(S, n)].done /\ kept[n].due = tree[Nth(S, n)].due
      <3> TAKE n \in 1..Len(kept)
      <3>1. Nth(S, n) \in 1..Len(tree)  BY <2>6
      <3>2. /\ kept[n].id = adv[Nth(S, n)].id /\ kept[n].rec = adv[Nth(S, n)].rec
            /\ kept[n].done = adv[Nth(S, n)].done /\ kept[n].due = adv[Nth(S, n)].due
        BY <2>2
      <3> QED  BY <1>1, <3>1, <3>2
    <2>8. \A i \in 1..Len(tree) : tree[i].rec # NoRule => \E n \in 1..Len(kept) : Nth(S, n) = i
      BY <2>2, <2>5
    <2>9. /\ \A n : Origin(tree, auto, n) = Nth(S, n)
          /\ \A n \in 1..Len(kept) : Origin(tree, auto, n) \in 1..Len(tree)
          /\ \A i \in 1..Len(tree) : tree[i].rec # NoRule =>
                \E n \in 1..Len(kept) : Origin(tree, auto, n) = i
      BY <2>4, <2>6, <2>8
    <2> QED  BY <2>2, <2>3, <2>7, <2>9 DEF PlanOf
  <1> QED  BY <1>5, <1>6

\* The outcome looks at the stored tasks only to see which of the request's are
\* newly done.
LEMMA SameOutcome ==
    ASSUME NEW tree \in Tree, NEW auto, NEW one, NEW other,
           \A i \in 1..Len(tree) : NewlyDone(tree[i], one) <=> NewlyDone(tree[i], other)
    PROVE  Outcome(tree, auto, one) = Outcome(tree, auto, other)
  <1>1. DOMAIN tree = 1..Len(tree)  BY SlotsOf DEF Tree
  <1>2. AdvanceRecurringTasks(tree, one) = AdvanceRecurringTasks(tree, other)
    BY <1>1 DEF AdvanceRecurringTasks
  <1> QED  BY <1>2 DEF Outcome

\* A second UpdateTaskList, over the outcome of the first, has the same outcome.
LEMMA OutcomeAgain ==
    ASSUME NEW tree \in Tree, Valid(tree), NEW auto \in BOOLEAN, NEW existing, NEW plan,
           plan = Outcome(tree, auto, existing),
           \A n, m \in 1..Len(plan) : plan[n].id = plan[m].id => n = m
    PROVE  Outcome(tree, auto, plan) = plan
  <1> PlanOf(plan, tree, auto, existing)  BY OutcomeTasks
  <1>1. /\ plan \in Tree
        /\ \A n \in 1..Len(plan) :
              /\ Origin(tree, auto, n) \in 1..Len(tree)
              /\ plan[n].id = tree[Origin(tree, auto, n)].id
              /\ NewlyDone(tree[Origin(tree, auto, n)], existing) => plan[n].done = FALSE
              /\ ~NewlyDone(tree[Origin(tree, auto, n)], existing) =>
                    plan[n].done = tree[Origin(tree, auto, n)].done
        /\ \A i \in 1..Len(tree) : tree[i].rec # NoRule =>
              \E n \in 1..Len(plan) : Origin(tree, auto, n) = i
    BY DEF PlanOf
  <1>2. DOMAIN plan = 1..Len(plan)  BY <1>1, SlotsOf DEF Tree
  <1>3. Range(plan) = {plan[n] : n \in 1..Len(plan)}  BY <1>2 DEF Range
  <1>4. ASSUME NEW i \in 1..Len(tree)
        PROVE  NewlyDone(tree[i], plan) <=> NewlyDone(tree[i], existing)
    <2>1. CASE ~(tree[i].rec # NoRule /\ tree[i].done)  BY <2>1 DEF NewlyDone
    <2>2. CASE tree[i].rec # NoRule /\ tree[i].done
      <3>1. PICK n \in 1..Len(plan) : Origin(tree, auto, n) = i  BY <1>1, <2>2
      <3>2. \A e \in Range(plan) : e.id = tree[i].id => e = plan[n]  BY <1>1, <1>3, <3>1
      <3>3. NewlyDone(tree[i], plan) <=> ~plan[n].done
        BY <1>1, <1>3, <2>2, <3>1, <3>2 DEF NewlyDone
      <3> QED  BY <1>1, <2>2, <3>1, <3>3
    <2> QED  BY <2>1, <2>2
  <1> QED  BY <1>4, SameOutcome

-----------------------------------------------------------------------------
(***************************************************************************)
(* The operators on rows, for any contents tab of the table tasks: inside  *)
(* a transaction the table is neither the old nor the new one.             *)
(***************************************************************************)
Rows == [TaskIds -> TaskRows \cup {None}]

IsMainIn(tab, t) == tab[t] # None /\ tab[t].list # None

MainsIn(tab, l) == {t \in TaskIds : IsMainIn(tab, t) /\ tab[t].list = l}
SubsIn(tab, m)  == {t \in TaskIds : tab[t] # None /\ tab[t].parent = m}

OrderIn(tab, S) ==
    [n \in 1 .. Cardinality(S) |->
        CHOOSE t \in S : Cardinality({u \in S : tab[u].position <= tab[t].position}) = n]

MainTaskIn(tab, t) ==
    LET subs == OrderIn(tab, SubsIn(tab, t)) IN
    [id |-> t, done |-> tab[t].done, due |-> tab[t].due, rec |-> tab[t].rec,
     subs |-> [j \in DOMAIN subs |-> [id |-> subs[j], done |-> tab[subs[j]].done]]]

StoredIn(tab, l) ==
    LET mains == OrderIn(tab, MainsIn(tab, l)) IN
    [i \in DOMAIN mains |-> MainTaskIn(tab, mains[i])]

Numbered(tab, S) == {tab[t].position : t \in S} = 0 .. Cardinality(S) - 1

\* The row is a main task of a list in ls or a subtask of a main task in tab.
HasOwner(tab, ls, t) ==
    \/ tab[t].parent = None /\ tab[t].list # None /\ ls[tab[t].list] # None
    \/ tab[t].list = None /\ tab[t].parent # None /\ IsMainIn(tab, tab[t].parent)

BelongIn(tab, ls) ==
    /\ \A t \in TaskIds : tab[t] # None => HasOwner(tab, ls, t)
    /\ \A l \in ListIds : Numbered(tab, MainsIn(tab, l))
    /\ \A m \in TaskIds : Numbered(tab, SubsIn(tab, m))

LEMMA OfTables ==
    /\ RowsBelong <=> BelongIn(tasks, lists)
    /\ \A l : Stored(l) = StoredIn(tasks, l)
    /\ \A l : Mains(l) = MainsIn(tasks, l)
    /\ \A m : Subs(m) = SubsIn(tasks, m)
  <1>1. \A l : Mains(l) = MainsIn(tasks, l)  BY DEF Mains, IsMain, MainsIn, IsMainIn
  <1>2. \A m : Subs(m) = SubsIn(tasks, m)  BY DEF Subs, SubsIn
  <1>3. \A S : ByPosition(S) = OrderIn(tasks, S)  BY DEF ByPosition, OrderIn
  <1>4. \A t : MainTask(t) = MainTaskIn(tasks, t)  BY <1>2, <1>3 DEF MainTask, MainTaskIn
  <1>5. \A l : Stored(l) = StoredIn(tasks, l)  BY <1>1, <1>3, <1>4 DEF Stored, StoredIn
  <1>6. RowsBelong <=> BelongIn(tasks, lists)
    BY <1>1, <1>2 DEF RowsBelong, BelongIn, HasOwner, IsMain, IsMainIn, Numbered
  <1> QED  BY <1>1, <1>2, <1>5, <1>6

LEMMA OfNewTables ==
    /\ RowsBelong' <=> BelongIn(tasks', lists')
    /\ \A l : Stored(l)' = StoredIn(tasks', l)
    /\ \A l : Mains(l)' = MainsIn(tasks', l)
  <1>1. \A l : Mains(l)' = MainsIn(tasks', l)  BY DEF Mains, IsMain, MainsIn, IsMainIn
  <1>2. \A m : Subs(m)' = SubsIn(tasks', m)  BY DEF Subs, SubsIn
  <1>3. \A S : ByPosition(S)' = OrderIn(tasks', S)  BY DEF ByPosition, OrderIn
  <1>4. \A t : MainTask(t)' = MainTaskIn(tasks', t)  BY <1>2, <1>3 DEF MainTask, MainTaskIn
  <1>5. \A l : Stored(l)' = StoredIn(tasks', l)  BY <1>1, <1>3, <1>4 DEF Stored, StoredIn
  <1>6. RowsBelong' <=> BelongIn(tasks', lists')
    BY <1>1, <1>2 DEF RowsBelong, BelongIn, HasOwner, IsMain, IsMainIn, Numbered
  <1> QED  BY <1>1, <1>5, <1>6

\* Rows at the positions 0 .. n-1 are read in the order of f.
LEMMA OrderedAs ==
    ASSUME NEW tab \in Rows, NEW S \in SUBSET TaskIds, NEW n \in Nat, NEW f \in [1..n -> S],
           \A t \in S : \E i \in 1..n : f[i] = t,
           \A i \in 1..n : tab[f[i]].position = i - 1
    PROVE  /\ OrderIn(tab, S) = f
           /\ Cardinality(S) = n
           /\ Numbered(tab, S)
  <1>1. \A i, j \in 1..n : f[i] = f[j] => i = j
    <2> TAKE i, j \in 1..n
    <2>1. tab[f[i]].position = i - 1  OBVIOUS
    <2>2. tab[f[j]].position = j - 1  OBVIOUS
    <2> QED  BY <2>1, <2>2
  <1>2. IsFiniteSet(S) /\ Cardinality(S) = n  BY <1>1, Enumerated
  <1> DEFINE pos == [t \in S |-> tab[t].position]
  <1>3. \A i \in 1..n : pos[f[i]] = i - 1  OBVIOUS
  <1>4. \A t \in S : pos[t] \in 0..n - 1
    <2> TAKE t \in S
    <2>1. PICK i \in 1..n : f[i] = t  OBVIOUS
    <2> QED  BY <1>3, <2>1
  <1>5. \A k \in 0..n - 1 : k + 1 \in 1..n /\ f[k + 1] \in S /\ pos[f[k + 1]] = k
    <2> TAKE k \in 0..n - 1
    <2>1. k + 1 \in 1..n /\ (k + 1) - 1 = k  OBVIOUS
    <2> QED  BY <1>3, <2>1
  <1>6. pos \in [S -> Nat] /\ {pos[t] : t \in S} = 0 .. Cardinality(S) - 1
    <2>1. {pos[t] : t \in S} \subseteq 0..n - 1  BY <1>4
    <2>2. \A k \in 0..n - 1 : k \in {pos[t] : t \in S}  BY <1>5
    <2>3. pos \in [S -> Nat]  BY <1>4
    <2> QED  BY <1>2, <2>1, <2>2, <2>3
  <1>7. \A t \in S : Cardinality({u \in S : pos[u] <= pos[t]}) = pos[t] + 1
    BY <1>2, <1>6, NumberedRank
  <1>8. \A t \in S : {u \in S : pos[u] <= pos[t]} = {u \in S : tab[u].position <= tab[t].position}
    OBVIOUS
  <1>9. \A i \in 1..n :
           (CHOOSE t \in S : Cardinality({u \in S : tab[u].position <= tab[t].position}) = i) = f[i]
    <2> TAKE i \in 1..n
    <2> DEFINE rank(t) == Cardinality({u \in S : tab[u].position <= tab[t].position})
    <2>1. \A t \in S : rank(t) = pos[t] + 1  BY <1>7, <1>8, Zenon
    <2>2. ASSUME NEW j \in 1..n PROVE f[j] \in S /\ rank(f[j]) = j
      <3>1. f[j] \in S /\ pos[f[j]] = j - 1  BY <1>3
      <3>2. rank(f[j]) = pos[f[j]] + 1  BY <2>1, <3>1
      <3> HIDE DEF rank, pos
      <3> QED  BY <3>1, <3>2
    <2>3. f[i] \in S /\ rank(f[i]) = i  BY <2>2
    <2> HIDE DEF rank, pos
    <2>4. \A t \in S : rank(t) = i => t = f[i]
      <3> SUFFICES ASSUME NEW t \in S, rank(t) = i PROVE t = f[i]
        OBVIOUS
      <3>1. PICK j \in 1..n : f[j] = t  OBVIOUS
      <3>2. rank(t) = j  BY <2>2, <3>1
      <3> QED  BY <3>1, <3>2
    <2>5. (CHOOSE t \in S : rank(t) = i) = f[i]  BY <2>3, <2>4
    <2> QED  BY <2>5 DEF rank
  <1>10. OrderIn(tab, S) = [i \in 1..n |-> f[i]]  BY <1>2, <1>9 DEF OrderIn
  <1>11. Numbered(tab, S)  BY <1>6 DEF Numbered
  <1> QED  BY <1>2, <1>10, <1>11

-----------------------------------------------------------------------------
(***************************************************************************)
(* A transaction stores a tree.                                            *)
(***************************************************************************)
MainIds(tree) == {tree[i].id : i \in 1..Len(tree)}

\* The ids of a tree that can be stored: all different, none of them in the table.
DistinctIds(tree) ==
    /\ \A i, k \in 1..Len(tree) : tree[i].id = tree[k].id => i = k
    /\ \A i, k \in 1..Len(tree) : \A j \in 1..Len(tree[k].subs) :
          tree[i].id # tree[k].subs[j].id
    /\ \A i, k \in 1..Len(tree) :
          \A j \in 1..Len(tree[i].subs), m \in 1..Len(tree[k].subs) :
             tree[i].subs[j].id = tree[k].subs[m].id => i = k /\ j = m

LEMMA InsertableIds ==
    ASSUME NEW tab, NEW tree \in Tree, Insertable(tab, tree)
    PROVE  DistinctIds(tree) /\ \A t \in IdsOf(tree) : t \in TaskIds /\ tab[t] = None
  <1>1. /\ Len(tree) \in Nat
        /\ \A i \in 1..Len(tree) : <<i, 0>> \in Slots(tree) /\ IdAt(tree, <<i, 0>>) = tree[i].id
        /\ \A i \in 1..Len(tree) : \A j \in 1..Len(tree[i].subs) :
              <<i, j>> \in Slots(tree) /\ IdAt(tree, <<i, j>>) = tree[i].subs[j].id
    BY SlotsOf, IdsInTree DEF Tree
  <1>2. \A s, r \in Slots(tree) : IdAt(tree, s) = IdAt(tree, r) => s = r
    BY DEF Insertable
  <1>3. \A i, k \in 1..Len(tree) : tree[i].id = tree[k].id => i = k
    <2> TAKE i, k \in 1..Len(tree)
    <2>1. IdAt(tree, <<i, 0>>) = IdAt(tree, <<k, 0>>) => <<i, 0>> = <<k, 0>>  BY <1>1, <1>2
    <2> QED  BY <1>1, <2>1
  <1>4. \A i, k \in 1..Len(tree) : \A j \in 1..Len(tree[k].subs) :
           tree[i].id # tree[k].subs[j].id
    <2> TAKE i, k \in 1..Len(tree)
    <2> TAKE j \in 1..Len(tree[k].subs)
    <2>1. IdAt(tree, <<i, 0>>) = IdAt(tree, <<k, j>>) => <<i, 0>> = <<k, j>>  BY <1>1, <1>2
    <2>2. j # 0  OBVIOUS
    <2> QED  BY <1>1, <2>1, <2>2
  <1>5. \A i, k \in 1..Len(tree) :
           \A j \in 1..Len(tree[i].subs), m \in 1..Len(tree[k].subs) :
              tree[i].subs[j].id = tree[k].subs[m].id => i = k /\ j = m
    <2> TAKE i, k \in 1..Len(tree)
    <2> TAKE j \in 1..Len(tree[i].subs), m \in 1..Len(tree[k].subs)
    <2>1. IdAt(tree, <<i, j>>) = IdAt(tree, <<k, m>>) => <<i, j>> = <<k, m>>  BY <1>1, <1>2
    <2> QED  BY <1>1, <2>1
  <1>6. \A t \in IdsOf(tree) : t \in TaskIds /\ tab[t] = None
    BY IdsInTree DEF Tree, Insertable, IdsOf
  <1> QED  BY <1>3, <1>4, <1>5, <1>6 DEF DistinctIds

\* new is tab with a row for each task of the tree and no other change.
StoredAs(new, tab, l, tree) ==
    /\ new \in Rows
    /\ \A i \in 1..Len(tree) :
          /\ tree[i].id \in IdsOf(tree) /\ new[tree[i].id] \in TaskRows
          /\ new[tree[i].id] = [list |-> l, parent |-> None, position |-> i - 1,
                                done |-> tree[i].done, due |-> tree[i].due, rec |-> tree[i].rec]
    /\ \A i \in 1..Len(tree) : \A j \in 1..Len(tree[i].subs) :
          /\ tree[i].subs[j].id \in IdsOf(tree) /\ new[tree[i].subs[j].id] \in TaskRows
          /\ new[tree[i].subs[j].id] =
                [list |-> None, parent |-> tree[i].id, position |-> j - 1,
                 done |-> tree[i].subs[j].done, due |-> 0, rec |-> NoRule]
    /\ \A t \in IdsOf(tree) :
          \/ \E i \in 1..Len(tree) : t = tree[i].id
          \/ \E i \in 1..Len(tree) : \E j \in 1..Len(tree[i].subs) : t = tree[i].subs[j].id
    /\ \A t \in TaskIds : t \notin IdsOf(tree) => new[t] = tab[t]

LEMMA RowType ==
    ASSUME NEW list \in ListIds \cup {None}, NEW parent \in TaskIds \cup {None},
           NEW position \in Nat, NEW done \in BOOLEAN, NEW due \in Dates \cup {0},
           NEW rec \in Rules \cup {NoRule}
    PROVE  [list |-> list, parent |-> parent, position |-> position, done |-> done,
            due |-> due, rec |-> rec] \in TaskRows
  BY DEF TaskRows

LEMMA InsertedRows ==
    ASSUME NEW tab \in Rows, NEW l \in ListIds, NEW tree \in Tree, Insertable(tab, tree),
           NEW new, new = Inserted(tab, l, tree)
    PROVE  StoredAs(new, tab, l, tree)
  <1>1. /\ Len(tree) \in Nat
        /\ \A i \in 1..Len(tree) : /\ tree[i] \in Task
                                   /\ Len(tree[i].subs) \in Nat
                                   /\ tree[i].subs \in Seq(SubTasks(TaskIds))
        /\ \A i \in 1..Len(tree) : <<i, 0>> \in Slots(tree) /\ IdAt(tree, <<i, 0>>) = tree[i].id
        /\ \A i \in 1..Len(tree) : \A j \in 1..Len(tree[i].subs) :
              <<i, j>> \in Slots(tree) /\ IdAt(tree, <<i, j>>) = tree[i].subs[j].id
    BY SlotsOf, IdsInTree DEF Tree, Task, MainTasks
  <1>2. \A s \in Slots(tree) : \/ \E i \in 1..Len(tree) : s = <<i, 0>>
                               \/ \E i \in 1..Len(tree) :
                                     \E j \in 1..Len(tree[i].subs) : s = <<i, j>>
    BY SlotsOf DEF Tree
  <1>3. IdsOf(tree) \subseteq TaskIds  BY IdsInTree DEF Tree
  <1>4. \A s, r \in Slots(tree) : IdAt(tree, s) = IdAt(tree, r) => s = r
    BY DEF Insertable
  <1>5. \A t \in TaskIds : t \notin IdsOf(tree) => new[t] = tab[t]
    BY DEF Inserted, IdsOf
  <1>6. ASSUME NEW s \in Slots(tree)
        PROVE  IdAt(tree, s) \in IdsOf(tree) /\ new[IdAt(tree, s)] = RowAt(l, tree, s)
    <2>1. IdAt(tree, s) \in IdsOf(tree)  BY DEF IdsOf
    <2>2. (CHOOSE r \in Slots(tree) : IdAt(tree, r) = IdAt(tree, s)) = s  BY <1>4
    <2>3. IdAt(tree, s) \in TaskIds  BY <1>3, <2>1
    <2>4. new[IdAt(tree, s)] =
             RowAt(l, tree, CHOOSE r \in Slots(tree) : IdAt(tree, r) = IdAt(tree, s))
      BY <2>3 DEF Inserted
    <2> QED  BY <2>1, <2>2, <2>4
  <1>7. ASSUME NEW i \in 1..Len(tree)
        PROVE  /\ tree[i].id \in IdsOf(tree)
               /\ new[tree[i].id] = [list |-> l, parent |-> None, position |-> i - 1,
                                     done |-> tree[i].done, due |-> tree[i].due,
                                     rec |-> tree[i].rec]
    <2>1. tree[i].id \in IdsOf(tree) /\ new[tree[i].id] = RowAt(l, tree, <<i, 0>>)
      BY <1>1, <1>6
    <2> QED  BY <2>1 DEF RowAt
  <1>8. ASSUME NEW i \in 1..Len(tree), NEW j \in 1..Len(tree[i].subs)
        PROVE  /\ tree[i].subs[j].id \in IdsOf(tree)
               /\ new[tree[i].subs[j].id] =
                     [list |-> None, parent |-> tree[i].id, position |-> j - 1,
                      done |-> tree[i].subs[j].done, due |-> 0, rec |-> NoRule]
    <2>1. /\ tree[i].subs[j].id \in IdsOf(tree)
          /\ new[tree[i].subs[j].id] = RowAt(l, tree, <<i, j>>)
      BY <1>1, <1>6
    <2>2. j # 0  OBVIOUS
    <2> QED  BY <2>1, <2>2 DEF RowAt
  <1>9. ASSUME NEW t \in IdsOf(tree)
        PROVE  \/ \E i \in 1..Len(tree) : t = tree[i].id
               \/ \E i \in 1..Len(tree) : \E j \in 1..Len(tree[i].subs) :
                     t = tree[i].subs[j].id
    <2>1. PICK s \in Slots(tree) : t = IdAt(tree, s)  BY DEF IdsOf
    <2>2. CASE \E i \in 1..Len(tree) : s = <<i, 0>>  BY <1>1, <2>1, <2>2
    <2>3. CASE \E i \in 1..Len(tree) : \E j \in 1..Len(tree[i].subs) : s = <<i, j>>
      <3>1. PICK i \in 1..Len(tree) : \E j \in 1..Len(tree[i].subs) : s = <<i, j>>  BY <2>3
      <3>2. PICK j \in 1..Len(tree[i].subs) : s = <<i, j>>  BY <3>1
      <3>3. t = tree[i].subs[j].id  BY <1>1, <2>1, <3>2
      <3> QED  BY <3>3
    <2> QED  BY <1>2, <2>2, <2>3, Zenon
  <1>10. \A i \in 1..Len(tree) : new[tree[i].id] \in TaskRows
    <2> TAKE i \in 1..Len(tree)
    <2>1. i - 1 \in Nat  OBVIOUS
    <2>2. tree[i].done \in BOOLEAN /\ tree[i].due \in Dates \cup {0}
          /\ tree[i].rec \in Rules \cup {NoRule}
      BY <1>1 DEF Task, MainTasks
    <2>3. [list |-> l, parent |-> None, position |-> i - 1, done |-> tree[i].done,
           due |-> tree[i].due, rec |-> tree[i].rec] \in TaskRows
      BY <2>1, <2>2, RowType
    <2> QED  BY <1>7, <2>3, Zenon
  <1>11. \A i \in 1..Len(tree) : \A j \in 1..Len(tree[i].subs) :
            new[tree[i].subs[j].id] \in TaskRows
    <2> TAKE i \in 1..Len(tree)
    <2> TAKE j \in 1..Len(tree[i].subs)
    <2>1. j - 1 \in Nat  OBVIOUS
    <2>2. tree[i].subs[j].done \in BOOLEAN
      <3>1. tree[i].subs \in Seq(SubTasks(TaskIds))  BY <1>1
      <3>2. tree[i].subs[j] \in SubTasks(TaskIds)  BY <3>1
      <3> QED  BY <3>2 DEF SubTasks
    <2>3. tree[i].id \in TaskIds  BY <1>1 DEF Task, MainTasks
    <2>4. [list |-> None, parent |-> tree[i].id, position |-> j - 1,
           done |-> tree[i].subs[j].done, due |-> 0, rec |-> NoRule] \in TaskRows
      BY <2>1, <2>2, <2>3, RowType
    <2> QED  BY <1>8, <2>4, Zenon
  <1>12. new \in Rows
    <2>1. \A t \in TaskIds : new[t] \in TaskRows \cup {None}
      <3> TAKE t \in TaskIds
      <3>1. CASE t \notin IdsOf(tree)  BY <1>5, <3>1 DEF Rows
      <3>2. CASE t \in IdsOf(tree)  BY <1>9, <1>10, <1>11, <3>2, Zenon
      <3> QED  BY <3>1, <3>2
    <2>2. new = [t \in TaskIds |-> new[t]]  BY DEF Inserted
    <2> QED  BY <2>1, <2>2 DEF Rows
  <1> QED  BY <1>5, <1>7, <1>8, <1>9, <1>10, <1>11, <1>12 DEF StoredAs

\* The list has the main tasks of the tree, these have its subtasks, and no other
\* list or task has any of them.
FamiliesOf(new, tab, l, tree) ==
    /\ MainsIn(new, l) = MainIds(tree)
    /\ \A k \in ListIds : k # l => MainsIn(new, k) = MainsIn(tab, k)
    /\ \A i \in 1..Len(tree) :
          SubsIn(new, tree[i].id) = {tree[i].subs[j].id : j \in 1..Len(tree[i].subs)}
    /\ \A m \in TaskIds : m \notin MainIds(tree) => SubsIn(new, m) = SubsIn(tab, m)

LEMMA InsertedFamilies ==
    ASSUME NEW tab \in Rows, NEW ls, BelongIn(tab, ls),
           NEW l \in ListIds, MainsIn(tab, l) = {},
           NEW tree \in Tree, Insertable(tab, tree),
           NEW new, StoredAs(new, tab, l, tree)
    PROVE  FamiliesOf(new, tab, l, tree)
  <1>1. DistinctIds(tree) /\ \A t \in IdsOf(tree) : t \in TaskIds /\ tab[t] = None
    BY InsertableIds
  <1>2. \A i \in 1..Len(tree) :
           /\ tree[i].id \in IdsOf(tree) /\ new[tree[i].id] # None
           /\ new[tree[i].id].list = l /\ new[tree[i].id].parent = None
    <2> TAKE i \in 1..Len(tree)
    <2>1. /\ tree[i].id \in IdsOf(tree) /\ new[tree[i].id] \in TaskRows
          /\ new[tree[i].id] = [list |-> l, parent |-> None, position |-> i - 1,
                                done |-> tree[i].done, due |-> tree[i].due, rec |-> tree[i].rec]
      BY Zenon DEF StoredAs
    <2> QED  BY <2>1, RowsAssumption
  <1>3. \A i \in 1..Len(tree) : \A j \in 1..Len(tree[i].subs) :
           /\ tree[i].subs[j].id \in IdsOf(tree) /\ new[tree[i].subs[j].id] # None
           /\ new[tree[i].subs[j].id].list = None
           /\ new[tree[i].subs[j].id].parent = tree[i].id
    <2> TAKE i \in 1..Len(tree)
    <2> TAKE j \in 1..Len(tree[i].subs)
    <2>1. /\ tree[i].subs[j].id \in IdsOf(tree) /\ new[tree[i].subs[j].id] \in TaskRows
          /\ new[tree[i].subs[j].id] =
                [list |-> None, parent |-> tree[i].id, position |-> j - 1,
                 done |-> tree[i].subs[j].done, due |-> 0, rec |-> NoRule]
      BY Zenon DEF StoredAs
    <2> QED  BY <2>1, RowsAssumption
  <1>4. \A t \in IdsOf(tree) :
           \/ \E i \in 1..Len(tree) : t = tree[i].id
           \/ \E i \in 1..Len(tree) : \E j \in 1..Len(tree[i].subs) : t = tree[i].subs[j].id
    BY DEF StoredAs
  <1>5. \A t \in TaskIds : t \notin IdsOf(tree) => new[t] = tab[t]  BY DEF StoredAs
  <1>6. \A k \in ListIds : k # None  BY IdsAssumption
  <1>7. \A k \in TaskIds : k # None  BY IdsAssumption
  <1>8. ASSUME NEW k \in ListIds, NEW t \in TaskIds
        PROVE  t \in MainsIn(new, k) <=> (t \in MainsIn(tab, k) \/ (k = l /\ t \in MainIds(tree)))
    <2>1. CASE t \notin IdsOf(tree)
      <3>1. t \notin MainIds(tree)  BY <1>2, <2>1 DEF MainIds
      <3> QED  BY <1>5, <2>1, <3>1 DEF MainsIn, IsMainIn
    <2>2. CASE \E i \in 1..Len(tree) : t = tree[i].id
      <3>1. t \in MainIds(tree) /\ tab[t] = None  BY <1>1, <1>2, <2>2 DEF MainIds
      <3>2. new[t] # None /\ new[t].list = l  BY <1>2, <2>2
      <3> QED  BY <1>6, <3>1, <3>2 DEF MainsIn, IsMainIn
    <2>3. CASE \E i \in 1..Len(tree) : \E j \in 1..Len(tree[i].subs) : t = tree[i].subs[j].id
      <3>1. tab[t] = None /\ new[t].list = None  BY <1>1, <1>3, <2>3
      <3>2. t \notin MainIds(tree)  BY <1>2, <1>6, <3>1 DEF MainIds
      <3> QED  BY <1>6, <3>1, <3>2 DEF MainsIn, IsMainIn
    <2> QED  BY <1>4, <2>1, <2>2, <2>3, Zenon
  <1>9. \A k : MainsIn(new, k) \subseteq TaskIds /\ MainsIn(tab, k) \subseteq TaskIds
    BY DEF MainsIn
  <1>10. MainIds(tree) \subseteq TaskIds  BY <1>1, <1>2 DEF MainIds
  <1>11. MainsIn(new, l) = MainIds(tree)  BY <1>8, <1>9, <1>10
  <1>12. \A k \in ListIds : k # l => MainsIn(new, k) = MainsIn(tab, k)  BY <1>8, <1>9
  <1>13. ASSUME NEW t \in TaskIds, tab[t] # None, tab[t].parent # None
         PROVE  tab[t].parent \notin MainIds(tree)
    <2>1. tab[tab[t].parent] # None  BY <1>13 DEF BelongIn, HasOwner, IsMainIn
    <2> QED  BY <1>1, <1>2, <2>1 DEF MainIds
  <1>14. ASSUME NEW m \in TaskIds, m \notin MainIds(tree)
         PROVE  SubsIn(new, m) = SubsIn(tab, m)
    <2>1. ASSUME NEW t \in TaskIds PROVE t \in SubsIn(new, m) <=> t \in SubsIn(tab, m)
      <3>1. CASE t \notin IdsOf(tree)  BY <1>5, <3>1 DEF SubsIn
      <3>2. CASE \E i \in 1..Len(tree) : t = tree[i].id
        <4>1. tab[t] = None /\ new[t].parent = None  BY <1>1, <1>2, <3>2
        <4> QED  BY <1>7, <4>1 DEF SubsIn
      <3>3. CASE \E i \in 1..Len(tree) : \E j \in 1..Len(tree[i].subs) : t = tree[i].subs[j].id
        <4>1. tab[t] = None /\ new[t].parent \in MainIds(tree)
          BY <1>1, <1>3, <3>3 DEF MainIds
        <4> QED  BY <1>14, <4>1 DEF SubsIn
      <3> QED  BY <1>4, <3>1, <3>2, <3>3, Zenon
    <2> QED  BY <2>1 DEF SubsIn
  <1>15. ASSUME NEW i \in 1..Len(tree)
         PROVE  SubsIn(new, tree[i].id) = {tree[i].subs[j].id : j \in 1..Len(tree[i].subs)}
    <2> DEFINE mine == {tree[i].subs[j].id : j \in 1..Len(tree[i].subs)}
    <2>1. \A t \in mine : t \in SubsIn(new, tree[i].id)  BY <1>1, <1>3 DEF SubsIn
    <2>2. ASSUME NEW t \in SubsIn(new, tree[i].id) PROVE t \in mine
      <3>1. t \in TaskIds /\ new[t] # None /\ new[t].parent = tree[i].id  BY DEF SubsIn
      <3>2. tree[i].id \in MainIds(tree) /\ tree[i].id # None
        BY <1>1, <1>2, <1>7 DEF MainIds
      <3>3. CASE t \notin IdsOf(tree)
        <4>1. tab[t] = new[t]  BY <1>5, <3>1, <3>3
        <4> QED  BY <1>13, <3>1, <3>2, <4>1
      <3>4. CASE \E k \in 1..Len(tree) : t = tree[k].id  BY <1>2, <3>1, <3>2, <3>4
      <3>5. CASE \E k \in 1..Len(tree) : \E j \in 1..Len(tree[k].subs) : t = tree[k].subs[j].id
        <4>1. PICK k \in 1..Len(tree) : \E j \in 1..Len(tree[k].subs) : t = tree[k].subs[j].id
          BY <3>5
        <4>2. tree[k].id = tree[i].id  BY <1>3, <3>1, <4>1
        <4>3. k = i  BY <1>1, <4>2 DEF DistinctIds
        <4> QED  BY <4>1, <4>3
      <3> QED  BY <1>4, <3>3, <3>4, <3>5, Zenon
    <2> QED  BY <2>1, <2>2
  <1> QED  BY <1>11, <1>12, <1>14, <1>15 DEF FamiliesOf

\* The tasks of a tree that has been stored are read back as they were sent, in
\* their order.
LEMMA StoredBack ==
    ASSUME NEW new \in Rows, NEW tab, NEW l \in ListIds, NEW tree \in Tree,
           DistinctIds(tree), \A t \in IdsOf(tree) : t \in TaskIds,
           StoredAs(new, tab, l, tree),
           MainsIn(new, l) = MainIds(tree),
           \A i \in 1..Len(tree) :
              SubsIn(new, tree[i].id) = {tree[i].subs[j].id : j \in 1..Len(tree[i].subs)}
    PROVE  /\ StoredIn(new, l) = tree
           /\ Numbered(new, MainIds(tree))
           /\ \A i \in 1..Len(tree) : Numbered(new, SubsIn(new, tree[i].id))
  <1>1. /\ Len(tree) \in Nat /\ DOMAIN tree = 1..Len(tree)
        /\ \A i \in 1..Len(tree) : /\ tree[i] \in Task
                                   /\ Len(tree[i].subs) \in Nat
                                   /\ DOMAIN tree[i].subs = 1..Len(tree[i].subs)
    BY SlotsOf DEF Tree, Task
  <1>2. \A i \in 1..Len(tree) :
           /\ tree[i].id \in TaskIds
           /\ new[tree[i].id] = [list |-> l, parent |-> None, position |-> i - 1,
                                 done |-> tree[i].done, due |-> tree[i].due,
                                 rec |-> tree[i].rec]
    BY Zenon DEF StoredAs
  <1>3. \A i \in 1..Len(tree) : \A j \in 1..Len(tree[i].subs) :
           /\ tree[i].subs[j].id \in TaskIds
           /\ new[tree[i].subs[j].id] =
                 [list |-> None, parent |-> tree[i].id, position |-> j - 1,
                  done |-> tree[i].subs[j].done, due |-> 0, rec |-> NoRule]
    BY Zenon DEF StoredAs
  <1>4. ASSUME NEW i \in 1..Len(tree)
        PROVE  /\ Numbered(new, SubsIn(new, tree[i].id))
               /\ MainTaskIn(new, tree[i].id) = tree[i]
    <2> DEFINE S == SubsIn(new, tree[i].id)
               n == Len(tree[i].subs)
               f == [j \in 1..n |-> tree[i].subs[j].id]
    <2>1. n \in Nat  BY <1>1
    <2>2. S \in SUBSET TaskIds /\ f \in [1..n -> S]
          /\ \A t \in S : \E j \in 1..n : f[j] = t
      BY DEF SubsIn
    <2>3. \A j \in 1..n : new[f[j]].position = j - 1 /\ new[f[j]].done = tree[i].subs[j].done
      <3> TAKE j \in 1..n
      <3>1. new[tree[i].subs[j].id] =
               [list |-> None, parent |-> tree[i].id, position |-> j - 1,
                done |-> tree[i].subs[j].done, due |-> 0, rec |-> NoRule]
        BY <1>3
      <3> QED  BY <3>1
    <2> HIDE DEF S, f, n
    <2>4. OrderIn(new, S) = f /\ Numbered(new, S)  BY <2>1, <2>2, <2>3, OrderedAs
    <2>5. DOMAIN f = 1..n  BY DEF f
    <2> DEFINE g == [j \in DOMAIN f |-> [id |-> f[j], done |-> new[f[j]].done]]
    <2>6. g = tree[i].subs
      <3>1. tree[i].subs \in Seq(SubTasks(TaskIds))  BY <1>1 DEF Task, MainTasks
      <3>2. \A j \in 1..n : tree[i].subs[j] \in SubTasks(TaskIds)  BY <3>1 DEF n
      <3>3. \A j \in 1..n : tree[i].subs[j] =
               [id |-> tree[i].subs[j].id, done |-> tree[i].subs[j].done]
        BY <3>2 DEF SubTasks
      <3>4. \A j \in 1..n : [id |-> f[j], done |-> new[f[j]].done] = tree[i].subs[j]
        BY <2>3, <3>3 DEF f
      <3>5. tree[i].subs = [j \in 1..n |-> tree[i].subs[j]]  BY <3>1 DEF n
      <3> HIDE DEF n
      <3>6. g = [j \in 1..n |-> tree[i].subs[j]]  BY <2>5, <3>4, Zenon
      <3> QED  BY <3>5, <3>6
    <2>7. new[tree[i].id].done = tree[i].done /\ new[tree[i].id].due = tree[i].due
          /\ new[tree[i].id].rec = tree[i].rec
      <3>1. new[tree[i].id] = [list |-> l, parent |-> None, position |-> i - 1,
                               done |-> tree[i].done, due |-> tree[i].due,
                               rec |-> tree[i].rec]
        BY <1>2, Zenon
      <3> QED  BY <3>1
    <2>8. tree[i] = [id |-> tree[i].id, done |-> tree[i].done, due |-> tree[i].due,
                     rec |-> tree[i].rec, subs |-> tree[i].subs]
      BY <1>1 DEF Task, MainTasks
    <2>9. MainTaskIn(new, tree[i].id) =
             [id |-> tree[i].id, done |-> new[tree[i].id].done, due |-> new[tree[i].id].due,
              rec |-> new[tree[i].id].rec, subs |-> g]
      BY <2>4, Zenon DEF MainTaskIn, S
    <2>10. MainTaskIn(new, tree[i].id) = tree[i]
      <3> HIDE DEF g
      <3> QED  BY <2>6, <2>7, <2>8, <2>9, Zenon
    <2> QED  BY <2>4, <2>10 DEF S
  <1> DEFINE S == MainIds(tree)
             n == Len(tree)
             f == [i \in 1..n |-> tree[i].id]
  <1>5. n \in Nat /\ S \in SUBSET TaskIds /\ f \in [1..n -> S]
        /\ \A t \in S : \E i \in 1..n : f[i] = t
    BY <1>1, <1>2 DEF MainIds
  <1>6. \A i \in 1..n : new[f[i]].position = i - 1
    <2> TAKE i \in 1..n
    <2>1. new[tree[i].id] = [list |-> l, parent |-> None, position |-> i - 1,
                             done |-> tree[i].done, due |-> tree[i].due, rec |-> tree[i].rec]
      BY <1>2, Zenon
    <2> QED  BY <2>1
  <1> HIDE DEF S, f
  <1>7. OrderIn(new, S) = f /\ Numbered(new, S)  BY <1>5, <1>6, OrderedAs
  <1>8. DOMAIN f = 1..n /\ \A i \in 1..n : f[i] = tree[i].id  BY DEF f
  <1>9. StoredIn(new, l) = [i \in 1..n |-> MainTaskIn(new, f[i])]
    BY <1>7, <1>8, Zenon DEF StoredIn, S
  <1>10. StoredIn(new, l) = [i \in 1..n |-> tree[i]]
    <2>1. \A i \in 1..n : MainTaskIn(new, f[i]) = tree[i]  BY <1>4, <1>8
    <2> HIDE DEF n
    <2> QED  BY <1>9, <2>1, Zenon
  <1>11. tree = [i \in 1..n |-> tree[i]]  BY DEF Tree, Trees
  <1> QED  BY <1>4, <1>7, <1>10, <1>11 DEF S

\* What is read in order is the set, every member once.
LEMMA OrderMembers ==
    ASSUME NEW tab \in Rows, NEW S \in SUBSET TaskIds, \A t \in S : tab[t] # None,
           Numbered(tab, S)
    PROVE  /\ \A n \in 1..Cardinality(S) : OrderIn(tab, S)[n] \in S
           /\ \A t \in S : \E n \in 1..Cardinality(S) : OrderIn(tab, S)[n] = t
  <1> DEFINE pos == [t \in S |-> tab[t].position]
             rank(t) == Cardinality({u \in S : tab[u].position <= tab[t].position})
             c == Cardinality(S)
  <1>1. IsFiniteSet(S)  BY IdsAssumption, FS_Subset
  <1>2. \A t \in S : tab[t].position \in Nat  BY DEF Rows, TaskRows
  <1>3. pos \in [S -> Nat] /\ {pos[t] : t \in S} = 0 .. c - 1
    BY <1>2 DEF Numbered
  <1>4. /\ \A t \in S : Cardinality({u \in S : pos[u] <= pos[t]}) = pos[t] + 1
        /\ \A t, u \in S : pos[t] = pos[u] => t = u
    BY <1>1, <1>3, NumberedRank
  <1>5. \A t \in S : {u \in S : pos[u] <= pos[t]} = {u \in S : tab[u].position <= tab[t].position}
    OBVIOUS
  <1>6. \A t \in S : rank(t) = pos[t] + 1  BY <1>4, <1>5, Zenon
  <1>7. c \in Nat  BY <1>1, FS_CardinalityType
  <1>8. OrderIn(tab, S) = [n \in 1..c |-> CHOOSE t \in S : rank(t) = n]
    BY DEF OrderIn
  <1> HIDE DEF rank, pos, c
  <1>9. \A n \in 1..c : \E t \in S : rank(t) = n
    <2> TAKE n \in 1..c
    <2>1. n - 1 \in 0 .. c - 1  BY <1>7
    <2>2. PICK t \in S : pos[t] = n - 1  BY <1>3, <2>1
    <2>3. rank(t) = n  BY <1>6, <2>2
    <2> QED  BY <2>3
  <1>10. \A n \in 1..c : OrderIn(tab, S)[n] \in S /\ rank(OrderIn(tab, S)[n]) = n
    BY <1>8, <1>9
  <1>11. \A t \in S : rank(t) \in 1..c /\ \A u \in S : rank(u) = rank(t) => u = t
    <2> TAKE t \in S
    <2>1. pos[t] \in 0 .. c - 1  BY <1>3
    <2>2. rank(t) \in 1..c  BY <1>6, <1>7, <2>1
    <2>3. \A u \in S : pos[u] \in Nat  BY <1>3
    <2> QED  BY <1>4, <1>6, <2>2, <2>3
  <1>12. \A t \in S : \E n \in 1..c : OrderIn(tab, S)[n] = t  BY <1>10, <1>11
  <1> QED  BY <1>10, <1>12 DEF c

\* A list reads the same as long as its rows do.
LEMMA StoredSame ==
    ASSUME NEW tab \in Rows, NEW ls, BelongIn(tab, ls), NEW l \in ListIds, NEW new,
           MainsIn(new, l) = MainsIn(tab, l),
           \A t \in MainsIn(tab, l) : /\ new[t] = tab[t]
                                      /\ SubsIn(new, t) = SubsIn(tab, t)
                                      /\ \A u \in SubsIn(tab, t) : new[u] = tab[u]
    PROVE  StoredIn(new, l) = StoredIn(tab, l)
  <1>1. ASSUME NEW S, \A u \in S : new[u] = tab[u]
        PROVE  OrderIn(new, S) = OrderIn(tab, S)
    <2>1. \A t \in S : {u \in S : new[u].position <= new[t].position}
                        = {u \in S : tab[u].position <= tab[t].position}
      BY <1>1
    <2> DEFINE one(n) == CHOOSE t \in S :
                            Cardinality({u \in S : new[u].position <= new[t].position}) = n
               other(n) == CHOOSE t \in S :
                              Cardinality({u \in S : tab[u].position <= tab[t].position}) = n
    <2>2. \A n : one(n) = other(n)  BY <2>1
    <2>3. /\ OrderIn(new, S) = [n \in 1..Cardinality(S) |-> one(n)]
          /\ OrderIn(tab, S) = [n \in 1..Cardinality(S) |-> other(n)]
      BY Zenon DEF OrderIn
    <2> HIDE DEF one, other
    <2> QED  BY <2>2, <2>3, Zenon
  <1>2. ASSUME NEW t \in MainsIn(tab, l)
        PROVE  MainTaskIn(new, t) = MainTaskIn(tab, t)
    <2> DEFINE S == SubsIn(tab, t)
    <2>1. new[t] = tab[t] /\ SubsIn(new, t) = S /\ \A u \in S : new[u] = tab[u]  OBVIOUS
    <2>2. OrderIn(new, S) = OrderIn(tab, S)  BY <1>1, <2>1
    <2>3. t \in TaskIds /\ S \in SUBSET TaskIds /\ (\A u \in S : tab[u] # None)
          /\ Numbered(tab, S)
      BY DEF MainsIn, SubsIn, BelongIn
    <2>4. \A n \in 1..Cardinality(S) : OrderIn(tab, S)[n] \in S  BY <2>3, OrderMembers
    <2>5. DOMAIN OrderIn(tab, S) = 1..Cardinality(S)  BY DEF OrderIn
    <2>6. \A j \in DOMAIN OrderIn(tab, S) :
             new[OrderIn(tab, S)[j]].done = tab[OrderIn(tab, S)[j]].done
      BY <2>1, <2>4, <2>5
    <2> HIDE DEF S
    <2>7. [j \in DOMAIN OrderIn(tab, S) |->
              [id |-> OrderIn(tab, S)[j], done |-> new[OrderIn(tab, S)[j]].done]]
          = [j \in DOMAIN OrderIn(tab, S) |->
              [id |-> OrderIn(tab, S)[j], done |-> tab[OrderIn(tab, S)[j]].done]]
      BY <2>6, Zenon
    <2> QED  BY <2>1, <2>2, <2>7, Zenon DEF MainTaskIn, S
  <1> DEFINE M == MainsIn(tab, l)
  <1>3. OrderIn(new, M) = OrderIn(tab, M)  BY <1>1
  <1>4. M \in SUBSET TaskIds /\ (\A t \in M : tab[t] # None) /\ Numbered(tab, M)
    BY DEF MainsIn, IsMainIn, BelongIn
  <1>5. \A n \in 1..Cardinality(M) : OrderIn(tab, M)[n] \in M  BY <1>4, OrderMembers
  <1>6. DOMAIN OrderIn(tab, M) = 1..Cardinality(M)  BY DEF OrderIn
  <1>7. \A i \in DOMAIN OrderIn(tab, M) :
           MainTaskIn(new, OrderIn(tab, M)[i]) = MainTaskIn(tab, OrderIn(tab, M)[i])
    BY <1>2, <1>5, <1>6
  <1>8. StoredIn(new, l) = [i \in DOMAIN OrderIn(tab, M) |-> MainTaskIn(new, OrderIn(tab, M)[i])]
    BY <1>3 DEF StoredIn
  <1>9. StoredIn(tab, l) = [i \in DOMAIN OrderIn(tab, M) |-> MainTaskIn(tab, OrderIn(tab, M)[i])]
    BY DEF StoredIn
  <1> HIDE DEF M
  <1> QED  BY <1>7, <1>8, <1>9, Zenon

LEMMA NumberedSame ==
    ASSUME NEW tab, NEW new, NEW S, \A t \in S : new[t] = tab[t], Numbered(tab, S)
    PROVE  Numbered(new, S)
  <1>1. {new[t].position : t \in S} = {tab[t].position : t \in S}  OBVIOUS
  <1> QED  BY <1>1 DEF Numbered

Lists == [ListIds -> BOOLEAN \cup {None}]

\* Every row of new belongs, the list reads back as the tree, and the other lists
\* as before.
ListHolds(new, ls, tab, l, tree) ==
    /\ new \in Rows
    /\ BelongIn(new, ls)
    /\ StoredIn(new, l) = tree
    /\ \A k \in ListIds : k # l => StoredIn(new, k) = StoredIn(tab, k)

\* Storing a tree in a list without tasks.
LEMMA StoreBelongs ==
    ASSUME NEW tab \in Rows, NEW ls \in Lists, BelongIn(tab, ls),
           NEW l \in ListIds, MainsIn(tab, l) = {}, NEW auto \in BOOLEAN,
           NEW tree \in Tree, Insertable(tab, tree),
           NEW new, new = Inserted(tab, l, tree),
           NEW ls2, ls2 = [ls EXCEPT ![l] = auto]
    PROVE  ListHolds(new, ls2, tab, l, tree)
  <1>1. StoredAs(new, tab, l, tree)  BY InsertedRows
  <1>2. DistinctIds(tree) /\ \A t \in IdsOf(tree) : t \in TaskIds /\ tab[t] = None
    BY InsertableIds
  <1>3. /\ MainsIn(new, l) = MainIds(tree)
        /\ \A k \in ListIds : k # l => MainsIn(new, k) = MainsIn(tab, k)
        /\ \A i \in 1..Len(tree) :
              SubsIn(new, tree[i].id) = {tree[i].subs[j].id : j \in 1..Len(tree[i].subs)}
        /\ \A m \in TaskIds : m \notin MainIds(tree) => SubsIn(new, m) = SubsIn(tab, m)
    <2>1. FamiliesOf(new, tab, l, tree)  BY <1>1, InsertedFamilies
    <2> QED  BY <2>1 DEF FamiliesOf
  <1>4. new \in Rows  BY <1>1 DEF StoredAs
  <1>5. /\ StoredIn(new, l) = tree
        /\ Numbered(new, MainIds(tree))
        /\ \A i \in 1..Len(tree) : Numbered(new, SubsIn(new, tree[i].id))
    BY <1>1, <1>2, <1>3, <1>4, StoredBack
  <1>6. \A t \in TaskIds : tab[t] # None => new[t] = tab[t]
    BY <1>1, <1>2 DEF StoredAs
  <1>7. ASSUME NEW k \in ListIds, k # l
        PROVE  /\ StoredIn(new, k) = StoredIn(tab, k)
               /\ Numbered(new, MainsIn(new, k))
    <2>1. \A t \in MainsIn(tab, k) : t \in TaskIds /\ tab[t] # None  BY DEF MainsIn, IsMainIn
    <2>2. \A t \in MainsIn(tab, k) : t \notin MainIds(tree)
      <3>1. \A t \in MainIds(tree) : tab[t] = None
        <4>1. \A i \in 1..Len(tree) : tree[i].id \in IdsOf(tree)  BY <1>1, Zenon DEF StoredAs
        <4> QED  BY <1>2, <4>1 DEF MainIds
      <3> QED  BY <2>1, <3>1
    <2>3. \A m, t : t \in SubsIn(tab, m) => t \in TaskIds /\ tab[t] # None  BY DEF SubsIn
    <2>4. MainsIn(new, k) = MainsIn(tab, k)  BY <1>3, <1>7
    <2>5. StoredIn(new, k) = StoredIn(tab, k)
      BY <1>3, <1>6, <2>1, <2>2, <2>3, <2>4, StoredSame
    <2>6. Numbered(tab, MainsIn(tab, k))  BY DEF BelongIn
    <2>7. \A t \in MainsIn(tab, k) : new[t] = tab[t]  BY <1>6, <2>1
    <2>8. Numbered(new, MainsIn(tab, k))  BY <2>6, <2>7, NumberedSame
    <2> QED  BY <2>4, <2>5, <2>8
  <1>8. ASSUME NEW m \in TaskIds PROVE Numbered(new, SubsIn(new, m))
    <2>1. CASE m \in MainIds(tree)  BY <1>5, <2>1 DEF MainIds
    <2>2. CASE m \notin MainIds(tree)
      <3>1. SubsIn(new, m) = SubsIn(tab, m) /\ Numbered(tab, SubsIn(tab, m))
        BY <1>3, <2>2 DEF BelongIn
      <3>2. \A t \in SubsIn(tab, m) : new[t] = tab[t]  BY <1>6 DEF SubsIn
      <3>3. Numbered(new, SubsIn(tab, m))  BY <3>1, <3>2, NumberedSame
      <3> QED  BY <3>1, <3>3
    <2> QED  BY <2>1, <2>2
  <1>9. ls2[l] # None /\ \A k \in ListIds : ls[k] # None => ls2[k] # None
    BY IdsAssumption DEF Lists
  <1>10. \A i \in 1..Len(tree) :
            /\ tree[i].id \in TaskIds
            /\ new[tree[i].id].list = l /\ new[tree[i].id].parent = None
            /\ new[tree[i].id] # None
    <2> TAKE i \in 1..Len(tree)
    <2>1. /\ tree[i].id \in IdsOf(tree) /\ new[tree[i].id] \in TaskRows
          /\ new[tree[i].id] = [list |-> l, parent |-> None, position |-> i - 1,
                                done |-> tree[i].done, due |-> tree[i].due, rec |-> tree[i].rec]
      BY <1>1, Zenon DEF StoredAs
    <2> QED  BY <1>2, <2>1, RowsAssumption
  <1>11. \A i \in 1..Len(tree) : \A j \in 1..Len(tree[i].subs) :
            /\ new[tree[i].subs[j].id].list = None
            /\ new[tree[i].subs[j].id].parent = tree[i].id
    <2> TAKE i \in 1..Len(tree)
    <2> TAKE j \in 1..Len(tree[i].subs)
    <2>1. new[tree[i].subs[j].id] =
             [list |-> None, parent |-> tree[i].id, position |-> j - 1,
              done |-> tree[i].subs[j].done, due |-> 0, rec |-> NoRule]
      BY <1>1, Zenon DEF StoredAs
    <2> QED  BY <2>1
  <1>12. ASSUME NEW t \in TaskIds, new[t] # None PROVE HasOwner(new, ls2, t)
    <2>1. CASE t \notin IdsOf(tree)
      <3>1. new[t] = tab[t]  BY <1>1, <2>1 DEF StoredAs
      <3>2. HasOwner(tab, ls, t)  BY <1>12, <3>1 DEF BelongIn
      <3>3. tab[t] \in TaskRows  BY <1>12, <3>1 DEF Rows
      <3>4. CASE tab[t].parent = None /\ tab[t].list # None /\ ls[tab[t].list] # None
        <4>1. tab[t].list \in ListIds  BY <3>3, <3>4 DEF TaskRows
        <4> QED  BY <1>9, <3>1, <3>4, <4>1 DEF HasOwner
      <3>5. CASE tab[t].list = None /\ tab[t].parent # None /\ IsMainIn(tab, tab[t].parent)
        <4>1. tab[t].parent \in TaskIds  BY <3>3, <3>5 DEF TaskRows
        <4>2. new[tab[t].parent] = tab[tab[t].parent]  BY <1>6, <3>5, <4>1 DEF IsMainIn
        <4> QED  BY <3>1, <3>5, <4>2 DEF HasOwner, IsMainIn
      <3> QED  BY <3>2, <3>4, <3>5 DEF HasOwner
    <2>2. CASE \E i \in 1..Len(tree) : t = tree[i].id
      <3>1. new[t].list = l /\ new[t].parent = None  BY <1>10, <2>2
      <3> QED  BY <1>9, <3>1, IdsAssumption DEF HasOwner
    <2>3. CASE \E i \in 1..Len(tree) : \E j \in 1..Len(tree[i].subs) : t = tree[i].subs[j].id
      <3>1. PICK i \in 1..Len(tree) : \E j \in 1..Len(tree[i].subs) : t = tree[i].subs[j].id
        BY <2>3
      <3>2. new[t].list = None /\ new[t].parent = tree[i].id  BY <1>11, <3>1
      <3>3. tree[i].id # None /\ IsMainIn(new, tree[i].id)
        BY <1>10, IdsAssumption DEF IsMainIn
      <3> QED  BY <3>2, <3>3 DEF HasOwner
    <2>4. \A u \in IdsOf(tree) :
             \/ \E i \in 1..Len(tree) : u = tree[i].id
             \/ \E i \in 1..Len(tree) : \E j \in 1..Len(tree[i].subs) : u = tree[i].subs[j].id
      BY <1>1, Zenon DEF StoredAs
    <2> QED  BY <2>1, <2>2, <2>3, <2>4, Zenon
  <1>13. BelongIn(new, ls2)
    <2>1. \A k \in ListIds : Numbered(new, MainsIn(new, k))  BY <1>3, <1>5, <1>7
    <2> QED  BY <1>8, <1>12, <2>1 DEF BelongIn
  <1> QED  BY <1>4, <1>5, <1>7, <1>13 DEF ListHolds

\* The rows that are left when those of one list are deleted.
LEMMA KeptBelongs ==
    ASSUME tasks \in Rows, BelongIn(tasks, lists), NEW l \in ListIds,
           NEW kept, kept = Without(l),
           NEW ls2, \A k \in ListIds : k # l => ls2[k] = lists[k]
    PROVE  /\ kept \in Rows
           /\ BelongIn(kept, ls2)
           /\ MainsIn(kept, l) = {}
           /\ \A k \in ListIds : k # l => StoredIn(kept, k) = StoredIn(tasks, k)
  <1> DEFINE M == MainsIn(tasks, l)
             Gone == M \cup UNION {SubsIn(tasks, m) : m \in M}
  <1>1. kept = [t \in TaskIds |-> IF t \in Gone THEN None ELSE tasks[t]]
    <2>1. Mains(l) = M /\ \A m : Subs(m) = SubsIn(tasks, m)  BY OfTables
    <2> QED  BY <2>1 DEF Without
  <1>2. kept \in Rows  BY <1>1 DEF Rows
  <1>3. \A t \in TaskIds :
           t \in Gone <=> (t \in M \/ (tasks[t] # None /\ tasks[t].parent \in M))
    BY DEF SubsIn
  <1>4. \A t \in TaskIds : /\ t \in Gone => kept[t] = None
                           /\ t \notin Gone => kept[t] = tasks[t]
    BY <1>1
  <1> HIDE DEF Gone
  <1>5. \A t \in TaskIds : tasks[t] # None => HasOwner(tasks, lists, t)  BY DEF BelongIn
  <1>6. None \notin M /\ None \notin ListIds /\ None \notin TaskIds
    BY IdsAssumption DEF MainsIn
  <1>7. ASSUME NEW t \in TaskIds, IsMainIn(tasks, t), tasks[t].list # l
        PROVE  t \notin Gone
    <2>1. tasks[t].parent = None  BY <1>5, <1>7 DEF HasOwner, IsMainIn
    <2> QED  BY <1>3, <1>6, <1>7, <2>1 DEF MainsIn
  <1>8. \A t \in TaskIds : t \notin Gone => ~(IsMainIn(tasks, t) /\ tasks[t].list = l)
    BY <1>3 DEF MainsIn
  <1>9. MainsIn(kept, l) = {}
    <2>1. ASSUME NEW t \in TaskIds PROVE ~(IsMainIn(kept, t) /\ kept[t].list = l)
      BY <1>4, <1>8 DEF IsMainIn
    <2> QED  BY <2>1 DEF MainsIn
  <1>10. ASSUME NEW k \in ListIds, k # l
         PROVE  /\ MainsIn(kept, k) = MainsIn(tasks, k)
                /\ \A t \in MainsIn(tasks, k) : t \notin Gone
    <2>1. \A t \in MainsIn(tasks, k) : t \notin Gone  BY <1>7, <1>10 DEF MainsIn
    <2>2. ASSUME NEW t \in TaskIds
          PROVE  IsMainIn(kept, t) /\ kept[t].list = k <=> IsMainIn(tasks, t) /\ tasks[t].list = k
      BY <1>4, <1>7, <1>10 DEF IsMainIn
    <2> QED  BY <2>1, <2>2 DEF MainsIn
  <1>11. ASSUME NEW m \in TaskIds, m \notin M
         PROVE  /\ SubsIn(kept, m) = SubsIn(tasks, m)
                /\ \A t \in SubsIn(tasks, m) : t \notin Gone
    <2>1. ASSUME NEW t \in SubsIn(tasks, m) PROVE t \in TaskIds /\ t \notin Gone
      <3>1. t \in TaskIds /\ tasks[t] # None /\ tasks[t].parent = m  BY DEF SubsIn
      <3>2. tasks[t].list = None  BY <1>5, <1>6, <3>1 DEF HasOwner
      <3> QED  BY <1>3, <1>6, <1>11, <3>1, <3>2 DEF MainsIn, IsMainIn
    <2>2. ASSUME NEW t \in TaskIds
          PROVE  kept[t] # None /\ kept[t].parent = m <=> tasks[t] # None /\ tasks[t].parent = m
      BY <1>4, <2>1 DEF SubsIn
    <2> QED  BY <2>1, <2>2 DEF SubsIn
  <1>12. ASSUME NEW m \in TaskIds, m \in M PROVE SubsIn(kept, m) = {}
    <2>1. ASSUME NEW t \in TaskIds PROVE ~(kept[t] # None /\ kept[t].parent = m)
      BY <1>3, <1>4, <1>12
    <2> QED  BY <2>1 DEF SubsIn
  <1>13. Numbered(kept, {})
    <2>1. Cardinality({}) = 0  BY FS_EmptySet
    <2> QED  BY <2>1 DEF Numbered
  <1>14. ASSUME NEW k \in ListIds PROVE Numbered(kept, MainsIn(kept, k))
    <2>1. CASE k = l  BY <1>9, <1>13, <2>1
    <2>2. CASE k # l
      <3>1. Numbered(tasks, MainsIn(tasks, k))  BY DEF BelongIn
      <3>2. \A t \in MainsIn(tasks, k) : kept[t] = tasks[t]
        BY <1>4, <1>10, <2>2 DEF MainsIn
      <3> QED  BY <1>10, <2>2, <3>1, <3>2, NumberedSame
    <2> QED  BY <2>1, <2>2
  <1>15. ASSUME NEW m \in TaskIds PROVE Numbered(kept, SubsIn(kept, m))
    <2>1. CASE m \in M  BY <1>12, <1>13, <2>1
    <2>2. CASE m \notin M
      <3>1. Numbered(tasks, SubsIn(tasks, m))  BY DEF BelongIn
      <3>2. \A t \in SubsIn(tasks, m) : kept[t] = tasks[t]
        BY <1>4, <1>11, <2>2 DEF SubsIn
      <3> QED  BY <1>11, <2>2, <3>1, <3>2, NumberedSame
    <2> QED  BY <2>1, <2>2
  <1>16. ASSUME NEW t \in TaskIds, kept[t] # None PROVE HasOwner(kept, ls2, t)
    <2>1. t \notin Gone /\ kept[t] = tasks[t] /\ tasks[t] # None  BY <1>4, <1>16
    <2>2. HasOwner(tasks, lists, t) /\ tasks[t] \in TaskRows  BY <1>5, <2>1 DEF Rows
    <2>3. CASE tasks[t].parent = None /\ tasks[t].list # None /\ lists[tasks[t].list] # None
      <3>1. tasks[t].list \in ListIds  BY <2>2, <2>3 DEF TaskRows
      <3>2. tasks[t].list # l  BY <1>8, <2>1, <2>3 DEF IsMainIn
      <3> QED  BY <2>1, <2>3, <3>1, <3>2 DEF HasOwner
    <2>4. CASE tasks[t].list = None /\ tasks[t].parent # None /\ IsMainIn(tasks, tasks[t].parent)
      <3>1. tasks[t].parent \in TaskIds  BY <2>2, <2>4 DEF TaskRows
      <3>2. tasks[t].parent \notin M  BY <1>3, <2>1
      <3>3. tasks[tasks[t].parent].list # l  BY <2>4, <3>1, <3>2 DEF MainsIn
      <3>4. kept[tasks[t].parent] = tasks[tasks[t].parent]  BY <1>4, <1>7, <2>4, <3>1, <3>3
      <3> QED  BY <2>1, <2>4, <3>4 DEF HasOwner, IsMainIn
    <2> QED  BY <2>2, <2>3, <2>4 DEF HasOwner
  <1>17. ASSUME NEW k \in ListIds, k # l PROVE StoredIn(kept, k) = StoredIn(tasks, k)
    <2>1. \A t \in MainsIn(tasks, k) : t \in TaskIds /\ t \notin M /\ kept[t] = tasks[t]
      BY <1>3, <1>4, <1>10, <1>17 DEF MainsIn
    <2>2. \A t \in MainsIn(tasks, k) : SubsIn(kept, t) = SubsIn(tasks, t)  BY <1>11, <2>1
    <2>3. \A t \in MainsIn(tasks, k) : \A u \in SubsIn(tasks, t) : kept[u] = tasks[u]
      <3>1. \A m, u : u \in SubsIn(tasks, m) => u \in TaskIds  BY DEF SubsIn
      <3> QED  BY <1>4, <1>11, <2>1, <3>1
    <2>4. MainsIn(kept, k) = MainsIn(tasks, k)  BY <1>10, <1>17
    <2> QED  BY <2>1, <2>2, <2>3, <2>4, StoredSame
  <1>18. BelongIn(kept, ls2)  BY <1>14, <1>15, <1>16 DEF BelongIn
  <1> QED  BY <1>2, <1>9, <1>17, <1>18

-----------------------------------------------------------------------------
(***************************************************************************)
(* The inductive invariant.  What a handler carries from one database call *)
(* to the next: a request with all its ids that has passed validation and, *)
(* before the transaction of UpdateTaskList, the outcome of that request   *)
(* over some contents of the list, for which every date could be computed. *)
(***************************************************************************)
Labels  == {"idle", "readTasks", "updateTx", "readSubs", "listScan", "listTasks", "done"}
Calls   == [op : {"none", "get", "update"}, list : ListIds \cup {None}, tree : Tree,
            auto : BOOLEAN, plan : Tree, todo : SUBSET ListIds]

Types ==
    /\ lists \in Lists
    /\ tasks \in Rows
    /\ cursor \in Handlers \cup {None}
    /\ pc \in [Handlers -> Labels]
    /\ call \in [Handlers -> Calls]
    /\ reply \in [Handlers -> Replies \cup {None}]

\* The local variables c are as they must be before the call named label.
Prepared(label, c) ==
    /\ label \in {"readTasks", "updateTx"} => c.list \in ListIds
    /\ label = "readTasks" /\ c.op = "update" => Valid(c.tree)
    /\ label = "updateTx" =>
          /\ Valid(c.tree)
          /\ \E existing : /\ c.plan = Outcome(c.tree, c.auto, existing)
                           /\ ~CannotAdvance(c.tree, existing)

CallsPrepared  == \A h \in Handlers : Prepared(pc[h], call[h])
OpenUnanswered == \A h \in Handlers : pc[h] # "done" => reply[h] = None

IInv == Types /\ RowsBelong /\ CallsPrepared /\ OpenUnanswered

LEMMA TypesSuffice == Types => TypeOK
  <1> SUFFICES ASSUME Types PROVE TypeOK
    OBVIOUS
  <1>1. ASSUME NEW h \in Handlers
        PROVE  /\ call[h].list \in ListIds \cup {None}
               /\ call[h].todo \subseteq ListIds
               /\ IdsOf(call[h].tree) \subseteq TaskIds
               /\ IdsOf(call[h].plan) \subseteq TaskIds
    <2>1. call[h] \in Calls  BY DEF Types
    <2>2. call[h].tree \in Trees(TaskIds) /\ call[h].plan \in Trees(TaskIds)
      BY <2>1 DEF Calls, Tree
    <2>3. call[h].list \in ListIds \cup {None} /\ call[h].todo \subseteq ListIds
      BY <2>1 DEF Calls
    <2> QED  BY <2>2, <2>3, IdsInTree
  <1> QED  BY <1>1 DEF TypeOK, Types, Lists, Rows, Labels, Replies

LEMMA InitInv == Init => IInv
  <1> SUFFICES ASSUME Init PROVE IInv
    OBVIOUS
  <1>1. NoCall \in Calls  BY DEF NoCall, Calls, Tree, Trees
  <1>2. Types  BY <1>1 DEF Init, Types, Lists, Rows, Labels
  <1>3. \A l : MainsIn(tasks, l) = {}  BY DEF Init, MainsIn, IsMainIn
  <1>4. \A m : SubsIn(tasks, m) = {}  BY DEF Init, SubsIn
  <1>5. Numbered(tasks, {})
    <2>1. Cardinality({}) = 0  BY FS_EmptySet
    <2> QED  BY <2>1 DEF Numbered
  <1>6. BelongIn(tasks, lists)  BY <1>3, <1>4, <1>5 DEF BelongIn, Init
  <1> QED  BY <1>2, <1>6, OfTables DEF IInv, Init, CallsPrepared, Prepared, OpenUnanswered

-----------------------------------------------------------------------------
(***************************************************************************)
(* What a step of handler h does to the tables and to what handlers carry. *)
(***************************************************************************)
Leaves(h) == UNCHANGED Tables /\ ~(pc[h] = "updateTx" /\ reply'[h] = "ok")

Creates(h) ==
    /\ pc[h] = "idle"
    /\ \E l \in ListIds, auto \in BOOLEAN, tree \in Tree :
          /\ lists[l] = None /\ Insertable(tasks, tree)
          /\ lists' = [lists EXCEPT ![l] = auto]
          /\ tasks' = Inserted(tasks, l, tree)

Deletes(h) ==
    /\ pc[h] = "idle"
    /\ \E l \in ListIds : lists' = [lists EXCEPT ![l] = None] /\ tasks' = Without(l)

Overwrites(h) ==
    LET l == call[h].list IN
    /\ pc[h] = "updateTx" /\ lists[l] # None /\ reply'[h] = "ok"
    /\ Insertable(Without(l), call[h].plan)
    /\ lists' = [lists EXCEPT ![l] = call[h].auto]
    /\ tasks' = Inserted(Without(l), l, call[h].plan)

TableStep(h) == Leaves(h) \/ Creates(h) \/ Deletes(h) \/ Overwrites(h)

CallStep(h) ==
    \/ \E outcome \in Replies : Return(h, outcome)
    \/ /\ pc[h] # "done"
       /\ \E label \in Labels \ {"done"}, c \in Calls : Prepared(label, c) /\ Goto(h, label, c)
    \/ /\ pc' = [pc EXCEPT ![h] = "idle"]
       /\ reply' = [reply EXCEPT ![h] = None]
       /\ UNCHANGED call

Effect(h) == TableStep(h) /\ CallStep(h) /\ cursor' \in Handlers \cup {None}

\* A request that is checked and given its ids.
LEMMA RequestTree ==
    ASSUME NEW body \in Bodies, Valid(body.tree), NEW S \in SUBSET Slots(body.tree),
           \A s \in Slots(body.tree) \ S : IdAt(body.tree, s) # Blank,
           NEW f \in Namings(body.tree, S)
    PROVE  /\ WithIds(body.tree, f) \in Tree /\ Valid(WithIds(body.tree, f))
           /\ body.auto \in BOOLEAN
  <1>1. body.tree \in Trees(TaskIds \cup {Blank}) /\ body.auto \in BOOLEAN
    BY BodiesAssumption
  <1>2. f \in [S -> TaskIds]  BY DEF Namings, Injection, FreshTasks
  <1> QED  BY <1>1, <1>2, Named

LEMMA CreateEffect ==
    ASSUME Types, NEW h \in Handlers, CreateTaskList(h)
    PROVE  Effect(h)
  <1>1. PICK l \in FreshLists, body \in Bodies :
           /\ Valid(body.tree)
           /\ \E f \in Namings(body.tree, Slots(body.tree)) :
                 Store(h, l, body.auto, tasks, WithIds(body.tree, f))
    BY DEF CreateTaskList
  <1>2. PICK f \in Namings(body.tree, Slots(body.tree)) :
           Store(h, l, body.auto, tasks, WithIds(body.tree, f))
    BY <1>1
  <1> DEFINE tree == WithIds(body.tree, f)
  <1>3. tree \in Tree /\ body.auto \in BOOLEAN  BY <1>1, RequestTree
  <1>4. l \in ListIds /\ lists[l] = None  BY DEF FreshLists
  <1>5. pc[h] = "idle" /\ cursor' = cursor  BY DEF CreateTaskList, Query
  <1> HIDE DEF tree
  <1>6. CASE Return(h, "internal") /\ UNCHANGED Tables
    BY <1>5, <1>6 DEF Effect, TableStep, Leaves, CallStep, Replies, Types
  <1>7. CASE /\ Insertable(tasks, tree)
             /\ lists' = [lists EXCEPT ![l] = body.auto]
             /\ tasks' = Inserted(tasks, l, tree)
             /\ Return(h, "ok")
    <2>1. Creates(h)  BY <1>3, <1>4, <1>5, <1>7 DEF Creates
    <2> QED  BY <1>5, <1>7, <2>1 DEF Effect, TableStep, CallStep, Replies, Types
  <1> QED  BY <1>2, <1>6, <1>7 DEF Store, tree

LEMMA UpdateEffect ==
    ASSUME Types, CallsPrepared, NEW h \in Handlers, UpdateTx(h)
    PROVE  Effect(h)
  <1>1. pc[h] = "updateTx" /\ cursor' = cursor /\ reply \in [Handlers -> Replies \cup {None}]
    BY DEF UpdateTx, Query, Types
  <1>2. CASE Return(h, "notfound") /\ UNCHANGED Tables
    <2>1. reply'[h] = "notfound"  BY <1>1, <1>2 DEF Return
    <2> QED  BY <1>1, <1>2, <2>1 DEF Effect, TableStep, Leaves, CallStep, Replies, Types
  <1>3. CASE Return(h, "internal") /\ UNCHANGED Tables
    <2>1. reply'[h] = "internal"  BY <1>1, <1>3 DEF Return
    <2> QED  BY <1>1, <1>3, <2>1 DEF Effect, TableStep, Leaves, CallStep, Replies, Types
  <1>4. CASE /\ lists[call[h].list] # None
             /\ Insertable(Without(call[h].list), call[h].plan)
             /\ lists' = [lists EXCEPT ![call[h].list] = call[h].auto]
             /\ tasks' = Inserted(Without(call[h].list), call[h].list, call[h].plan)
             /\ Return(h, "ok")
    <2>1. reply'[h] = "ok"  BY <1>1, <1>4 DEF Return
    <2> QED  BY <1>1, <1>4, <2>1 DEF Effect, TableStep, Overwrites, CallStep, Replies, Types
  <1> QED  BY <1>2, <1>3, <1>4 DEF UpdateTx, Store

LEMMA ReadTasksEffect ==
    ASSUME Types, CallsPrepared, NEW h \in Handlers, ReadTasks(h)
    PROVE  Effect(h)
  <1>1. /\ pc[h] = "readTasks" /\ cursor' = cursor /\ UNCHANGED Tables
        /\ cursor \in Handlers \cup {None}
    BY DEF ReadTasks, Query, Types
  <1>2. Leaves(h)  BY <1>1 DEF Leaves
  <1>3. CASE Return(h, "ok") \/ Return(h, "internal")
    BY <1>1, <1>2, <1>3 DEF Effect, TableStep, CallStep, Replies
  <1> DEFINE existing == Stored(call[h].list)
             plan == Outcome(call[h].tree, call[h].auto, existing)
             c == [call[h] EXCEPT !.plan = plan]
  <1>4. CASE /\ call[h].op = "update" /\ ~CannotAdvance(call[h].tree, existing)
             /\ Goto(h, "updateTx", c)
    <2>1. call[h] \in Calls /\ call[h].list \in ListIds /\ Valid(call[h].tree)
      BY <1>1, <1>4 DEF Types, CallsPrepared, Prepared
    <2>2. call[h].tree \in Tree /\ call[h].auto \in BOOLEAN  BY <2>1 DEF Calls
    <2>3. plan \in Tree
      <3>1. PlanOf(plan, call[h].tree, call[h].auto, existing)  BY <2>1, <2>2, OutcomeTasks
      <3> QED  BY <3>1 DEF PlanOf
    <2> HIDE DEF plan, existing
    <2>4. /\ c \in Calls /\ c.plan = plan /\ c.list = call[h].list /\ c.tree = call[h].tree
          /\ c.auto = call[h].auto
      BY <2>1, <2>3 DEF Calls
    <2> HIDE DEF c
    <2>5. c.plan = Outcome(c.tree, c.auto, existing) /\ ~CannotAdvance(c.tree, existing)
      BY <1>4, <2>4, Zenon DEF plan
    <2>6. Prepared("updateTx", c)
      <3>1. c.list \in ListIds /\ Valid(c.tree)  BY <2>1, <2>4
      <3>2. \E E : c.plan = Outcome(c.tree, c.auto, E) /\ ~CannotAdvance(c.tree, E)
        BY <2>5, Zenon
      <3> QED  BY <3>1, <3>2 DEF Prepared
    <2>7. CallStep(h)  BY <1>1, <1>4, <2>4, <2>6 DEF CallStep, Labels
    <2> QED  BY <1>1, <1>2, <2>7 DEF Effect, TableStep
  <1> QED  BY <1>3, <1>4, Zenon DEF ReadTasks

\* A step that leaves the tables alone and answers, and one that goes on.
LEMMA AnswerEffect ==
    ASSUME Types, NEW h \in Handlers, NEW outcome \in Replies, Return(h, outcome),
           UNCHANGED Tables, cursor' \in Handlers \cup {None},
           pc[h] # "updateTx" \/ outcome # "ok"
    PROVE  Effect(h)
  <1>1. reply'[h] = outcome  BY DEF Types, Return
  <1>2. Leaves(h)  BY <1>1 DEF Leaves
  <1> QED  BY <1>2 DEF Effect, TableStep, CallStep

LEMMA GotoEffect ==
    ASSUME Types, NEW h \in Handlers, NEW label \in Labels \ {"done"}, NEW c \in Calls,
           Prepared(label, c), Goto(h, label, c),
           UNCHANGED Tables, cursor' \in Handlers \cup {None},
           pc[h] \notin {"updateTx", "done"}
    PROVE  Effect(h)
  <1>1. Leaves(h)  BY DEF Leaves
  <1>2. CallStep(h)  BY DEF CallStep
  <1> QED  BY <1>1, <1>2 DEF Effect, TableStep

LEMMA ReadListEffect ==
    ASSUME Types, NEW h \in Handlers, NEW c \in Calls, c.list \in ListIds,
           c.op = "update" => Valid(c.tree), ReadList(h, c)
    PROVE  Effect(h)
  <1>1. /\ pc[h] = "idle" /\ UNCHANGED Tables /\ cursor' \in Handlers \cup {None}
        /\ Return(h, "notfound") \/ Goto(h, "readTasks", c)
    BY DEF ReadList, Query, Types
  <1>2. CASE Return(h, "notfound")  BY <1>1, <1>2, AnswerEffect DEF Replies
  <1>3. CASE Goto(h, "readTasks", c)
    <2>1. Prepared("readTasks", c)  BY DEF Prepared
    <2> QED  BY <1>1, <1>3, <2>1, GotoEffect DEF Labels
  <1> QED  BY <1>1, <1>2, <1>3

LEMMA NewRequestEffect ==
    ASSUME Types, NEW h \in Handlers,
           GetTaskList(h) \/ UpdateTaskList(h) \/ GetMainTask(h) \/ ListTaskLists(h)
    PROVE  Effect(h)
  <1>1. NoCall \in Calls  BY DEF NoCall, Calls, Tree, Trees
  <1>2. CASE GetTaskList(h)
    <2>1. PICK l \in ListIds : ReadList(h, [NoCall EXCEPT !.op = "get", !.list = l])
      BY <1>2 DEF GetTaskList
    <2> DEFINE c == [NoCall EXCEPT !.op = "get", !.list = l]
    <2>2. c \in Calls /\ c.list = l /\ c.op = "get"  BY <1>1 DEF NoCall, Calls
    <2> HIDE DEF c
    <2> QED  BY <2>1, <2>2, ReadListEffect DEF c
  <1>3. CASE UpdateTaskList(h)
    <2>1. PICK l \in ListIds, body \in Bodies :
             /\ Valid(body.tree)
             /\ \E f \in Namings(body.tree,
                                 {s \in Slots(body.tree) : IdAt(body.tree, s) = Blank}) :
                   ReadList(h, [NoCall EXCEPT !.op = "update", !.list = l, !.auto = body.auto,
                                              !.tree = WithIds(body.tree, f)])
      BY <1>3 DEF UpdateTaskList
    <2> DEFINE blank == {s \in Slots(body.tree) : IdAt(body.tree, s) = Blank}
    <2>2. PICK f \in Namings(body.tree, blank) :
             ReadList(h, [NoCall EXCEPT !.op = "update", !.list = l, !.auto = body.auto,
                                        !.tree = WithIds(body.tree, f)])
      BY <2>1
    <2>3. /\ blank \in SUBSET Slots(body.tree)
          /\ \A s \in Slots(body.tree) \ blank : IdAt(body.tree, s) # Blank
      OBVIOUS
    <2> HIDE DEF blank
    <2> DEFINE tree == WithIds(body.tree, f)
               c == [NoCall EXCEPT !.op = "update", !.list = l, !.auto = body.auto,
                                   !.tree = tree]
    <2>4. tree \in Tree /\ Valid(tree) /\ body.auto \in BOOLEAN
      BY <2>1, <2>2, <2>3, RequestTree
    <2>5. ReadList(h, c)  BY <2>2
    <2> HIDE DEF tree
    <2>6. c \in Calls /\ c.list = l /\ c.tree = tree  BY <1>1, <2>4 DEF NoCall, Calls
    <2> HIDE DEF c
    <2> QED  BY <2>4, <2>5, <2>6, ReadListEffect
  <1>4. CASE GetMainTask(h)
    <2>1. /\ pc[h] = "idle" /\ UNCHANGED Tables /\ cursor' \in Handlers \cup {None}
          /\ Goto(h, "readSubs", NoCall) \/ Return(h, "notfound")
      BY <1>4 DEF GetMainTask, Query, Types
    <2>2. Prepared("readSubs", NoCall)  BY DEF Prepared
    <2> QED  BY <1>1, <2>1, <2>2, GotoEffect, AnswerEffect DEF Labels, Replies
  <1>5. CASE ListTaskLists(h)
    <2> DEFINE c == [NoCall EXCEPT !.todo = {l \in ListIds : lists[l] # None}]
    <2>1. /\ pc[h] = "idle" /\ UNCHANGED Tables /\ cursor' \in Handlers \cup {None}
          /\ Goto(h, "listScan", c)
      BY <1>5 DEF ListTaskLists, Query
    <2>2. c \in Calls  BY <1>1 DEF NoCall, Calls
    <2>3. Prepared("listScan", c)  BY DEF Prepared
    <2> HIDE DEF c
    <2> QED  BY <2>1, <2>2, <2>3, GotoEffect DEF Labels
  <1> QED  BY <1>2, <1>3, <1>4, <1>5

LEMMA ReadEffect ==
    ASSUME Types, NEW h \in Handlers,
           \/ Refuse(h) \/ ListUpcomingMainTasks(h) \/ ReadSubs(h) \/ ListScan(h)
           \/ ListTasks(h) \/ DbError(h)
    PROVE  Effect(h)
  <1>1. CASE Refuse(h) \/ ListUpcomingMainTasks(h) \/ ReadSubs(h) \/ DbError(h)
    <2>1. /\ UNCHANGED Tables /\ cursor' \in Handlers \cup {None}
          /\ \E outcome \in Replies : /\ Return(h, outcome)
                                      /\ pc[h] # "updateTx" \/ outcome # "ok"
      BY <1>1
      DEF Refuse, Idle, ListUpcomingMainTasks, ReadSubs, DbError, Query, Types, Replies
    <2> QED  BY <2>1, AnswerEffect
  <1>2. call[h] \in Calls  BY DEF Types
  <1>3. Prepared("listTasks", call[h])  BY DEF Prepared
  <1>4. CASE ListScan(h)
    <2>1. /\ UNCHANGED Tables /\ cursor' \in Handlers \cup {None} /\ pc[h] = "listScan"
          /\ Goto(h, "listTasks", call[h])
      BY <1>4 DEF ListScan
    <2> QED  BY <1>2, <1>3, <2>1, GotoEffect DEF Labels
  <1>5. CASE ListTasks(h)
    <2>1. /\ UNCHANGED Tables /\ cursor' \in Handlers \cup {None} /\ pc[h] = "listTasks"
          /\ \/ Return(h, "ok")
             \/ \E l \in ListIds : Goto(h, "listTasks", [call[h] EXCEPT !.todo = @ \ {l}])
      BY <1>2, <1>5 DEF ListTasks, Types, Calls
    <2>2. CASE Return(h, "ok")  BY <2>1, <2>2, AnswerEffect DEF Replies
    <2>3. ASSUME NEW l \in ListIds, Goto(h, "listTasks", [call[h] EXCEPT !.todo = @ \ {l}])
          PROVE  Effect(h)
      <3> DEFINE c == [call[h] EXCEPT !.todo = @ \ {l}]
      <3>1. c \in Calls  BY <1>2 DEF Calls
      <3>2. Prepared("listTasks", c)  BY DEF Prepared
      <3>3. Goto(h, "listTasks", c)  BY <2>3
      <3> HIDE DEF c
      <3> QED  BY <2>1, <3>1, <3>2, <3>3, GotoEffect DEF Labels
    <2> QED  BY <2>1, <2>2, <2>3
  <1> QED  BY <1>1, <1>4, <1>5

\* DeleteTaskList, and the response.
LEMMA DeleteEffect ==
    ASSUME Types, NEW h \in Handlers, DeleteTaskList(h)
    PROVE  Effect(h)
  <1>1. /\ pc[h] = "idle" /\ cursor' \in Handlers \cup {None}
        /\ \E l \in ListIds : lists' = [lists EXCEPT ![l] = None] /\ tasks' = Without(l)
        /\ Return(h, "notfound") \/ Return(h, "ok")
    BY DEF DeleteTaskList, Query, Types
  <1>2. Deletes(h)  BY <1>1 DEF Deletes
  <1> QED  BY <1>1, <1>2 DEF Effect, TableStep, CallStep, Replies

LEMMA RespondEffect ==
    ASSUME Types, NEW h \in Handlers, Respond(h)
    PROVE  Effect(h)
  BY DEF Respond, Types, Effect, TableStep, Leaves, CallStep

LEMMA NextEffect ==
    ASSUME Types, CallsPrepared, Next
    PROVE  \E h \in Handlers : Effect(h)
  <1>1. PICK h \in Handlers : Request(h) \/ Step(h) \/ DbError(h)  BY DEF Next
  <1>2. Effect(h)
    BY <1>1, CreateEffect, DeleteEffect, NewRequestEffect, ReadTasksEffect, UpdateEffect,
       ReadEffect, RespondEffect DEF Request, Step
  <1> QED  BY <1>2

-----------------------------------------------------------------------------
(***************************************************************************)
(* The step on the tables: every row belongs, the list that UpdateTaskList *)
(* writes reads back as its plan, and other lists stay unless they come or *)
(* go.                                                                     *)
(***************************************************************************)
TablesAfter(h) ==
    /\ lists' \in Lists /\ tasks' \in Rows
    /\ BelongIn(tasks', lists')
    /\ Overwrites(h) => StoredIn(tasks', call[h].list) = call[h].plan
    /\ \A l \in ListIds :
          \/ StoredIn(tasks', l) = StoredIn(tasks, l)
          \/ lists[l] = None \/ lists'[l] = None
          \/ Overwrites(h) /\ call[h].list = l

LEMMA CreateTables ==
    ASSUME Types, BelongIn(tasks, lists), NEW h \in Handlers, Creates(h)
    PROVE  TablesAfter(h)
  <1>1. PICK l \in ListIds, auto \in BOOLEAN, tree \in Tree :
           /\ lists[l] = None /\ Insertable(tasks, tree)
           /\ lists' = [lists EXCEPT ![l] = auto]
           /\ tasks' = Inserted(tasks, l, tree)
    BY DEF Creates
  <1>2. MainsIn(tasks, l) = {}
    <2> SUFFICES ASSUME NEW t \in MainsIn(tasks, l) PROVE FALSE
      OBVIOUS
    <2>1. t \in TaskIds /\ tasks[t] # None /\ tasks[t].list = l /\ tasks[t].list # None
      BY DEF MainsIn, IsMainIn
    <2>2. HasOwner(tasks, lists, t)  BY <2>1 DEF BelongIn
    <2> QED  BY <1>1, <2>1, <2>2 DEF HasOwner
  <1>3. tasks \in Rows /\ lists \in Lists  BY DEF Types
  <1>4. /\ tasks' \in Rows /\ BelongIn(tasks', lists')
        /\ \A k \in ListIds : k # l => StoredIn(tasks', k) = StoredIn(tasks, k)
    <2>1. ListHolds(tasks', lists', tasks, l, tree)  BY <1>1, <1>2, <1>3, StoreBelongs
    <2> QED  BY <2>1 DEF ListHolds
  <1>5. lists' \in Lists  BY <1>1, <1>3 DEF Lists
  <1>6. ~Overwrites(h)  BY DEF Creates, Overwrites
  <1> QED  BY <1>1, <1>4, <1>5, <1>6 DEF TablesAfter

LEMMA DeleteTables ==
    ASSUME Types, BelongIn(tasks, lists), NEW h \in Handlers, Deletes(h)
    PROVE  TablesAfter(h)
  <1>1. PICK l \in ListIds : lists' = [lists EXCEPT ![l] = None] /\ tasks' = Without(l)
    BY DEF Deletes
  <1>2. tasks \in Rows /\ lists \in Lists  BY DEF Types
  <1>3. lists' \in Lists /\ lists'[l] = None /\ \A k \in ListIds : k # l => lists'[k] = lists[k]
    BY <1>1, <1>2 DEF Lists
  <1>4. /\ tasks' \in Rows /\ BelongIn(tasks', lists')
        /\ \A k \in ListIds : k # l => StoredIn(tasks', k) = StoredIn(tasks, k)
    BY <1>1, <1>2, <1>3, KeptBelongs
  <1>5. ~Overwrites(h)  BY DEF Deletes, Overwrites
  <1> QED  BY <1>3, <1>4, <1>5 DEF TablesAfter

LEMMA OverwriteTables ==
    ASSUME Types, BelongIn(tasks, lists), CallsPrepared, NEW h \in Handlers, Overwrites(h)
    PROVE  TablesAfter(h)
  <1> DEFINE l == call[h].list
             plan == call[h].plan
             auto == call[h].auto
             kept == Without(l)
  <1>1. /\ pc[h] = "updateTx" /\ Insertable(kept, plan)
        /\ lists' = [lists EXCEPT ![l] = auto]
        /\ tasks' = Inserted(kept, l, plan)
    BY DEF Overwrites
  <1>2. l \in ListIds /\ plan \in Tree /\ auto \in BOOLEAN
    BY <1>1 DEF CallsPrepared, Prepared, Types, Calls
  <1>3. tasks \in Rows /\ lists \in Lists  BY DEF Types
  <1> HIDE DEF l, plan, auto, kept
  <1>4. /\ kept \in Rows /\ BelongIn(kept, lists) /\ MainsIn(kept, l) = {}
        /\ \A k \in ListIds : k # l => StoredIn(kept, k) = StoredIn(tasks, k)
    BY <1>2, <1>3, KeptBelongs DEF kept
  <1>5. /\ tasks' \in Rows /\ BelongIn(tasks', lists')
        /\ StoredIn(tasks', l) = plan
        /\ \A k \in ListIds : k # l => StoredIn(tasks', k) = StoredIn(kept, k)
    <2>1. ListHolds(tasks', lists', kept, l, plan)
      BY <1>1, <1>2, <1>3, <1>4, StoreBelongs
    <2> QED  BY <2>1 DEF ListHolds
  <1>6. lists' \in Lists  BY <1>1, <1>2, <1>3 DEF Lists
  <1> QED  BY <1>4, <1>5, <1>6 DEF TablesAfter, l, plan

LEMMA StepTables ==
    ASSUME Types, RowsBelong, CallsPrepared, NEW h \in Handlers, Effect(h)
    PROVE  TablesAfter(h)
  <1>1. BelongIn(tasks, lists)  BY OfTables
  <1>2. CASE Leaves(h)
    <2>1. lists' = lists /\ tasks' = tasks  BY <1>2 DEF Leaves, Tables
    <2>2. ~Overwrites(h)  BY <1>2 DEF Leaves, Overwrites
    <2> QED  BY <1>1, <2>1, <2>2 DEF TablesAfter, Types
  <1> QED  BY <1>1, <1>2, CreateTables, DeleteTables, OverwriteTables DEF Effect, TableStep

\* The step on what the handlers carry.
LEMMA StepCalls ==
    ASSUME Types, CallsPrepared, OpenUnanswered, NEW h \in Handlers, Effect(h)
    PROVE  /\ pc' \in [Handlers -> Labels]
           /\ call' \in [Handlers -> Calls]
           /\ reply' \in [Handlers -> Replies \cup {None}]
           /\ CallsPrepared' /\ OpenUnanswered'
           /\ \A g \in Handlers : g # h => reply'[g] = reply[g]
  <1>1. /\ pc \in [Handlers -> Labels] /\ call \in [Handlers -> Calls]
        /\ reply \in [Handlers -> Replies \cup {None}]
    BY DEF Types
  <1>2. CASE \E outcome \in Replies : Return(h, outcome)
    <2>1. PICK outcome \in Replies : Return(h, outcome)  BY <1>2
    <2>2. NoCall \in Calls  BY DEF NoCall, Calls, Tree, Trees
    <2>3. /\ pc'[h] = "done" /\ \A g \in Handlers : g # h =>
                pc'[g] = pc[g] /\ call'[g] = call[g] /\ reply'[g] = reply[g]
      BY <1>1, <2>1 DEF Return
    <2>4. CallsPrepared'  BY <2>3 DEF CallsPrepared, Prepared
    <2>5. OpenUnanswered'  BY <2>3 DEF OpenUnanswered
    <2> QED  BY <1>1, <2>1, <2>2, <2>3, <2>4, <2>5 DEF Return, Labels
  <1>3. CASE /\ pc[h] # "done"
             /\ \E label \in Labels \ {"done"}, c \in Calls :
                   Prepared(label, c) /\ Goto(h, label, c)
    <2>1. PICK label \in Labels \ {"done"}, c \in Calls : Prepared(label, c) /\ Goto(h, label, c)
      BY <1>3
    <2>2. /\ pc'[h] = label /\ call'[h] = c /\ reply' = reply
          /\ \A g \in Handlers : g # h => pc'[g] = pc[g] /\ call'[g] = call[g]
      BY <1>1, <2>1 DEF Goto
    <2>3. \A g \in Handlers : Prepared(pc'[g], call'[g])
      BY <2>1, <2>2, Zenon DEF CallsPrepared
    <2>4. CallsPrepared'  BY <2>3 DEF CallsPrepared, Prepared
    <2>5. OpenUnanswered'  BY <1>3, <2>2 DEF OpenUnanswered
    <2> QED  BY <1>1, <2>1, <2>2, <2>4, <2>5 DEF Goto
  <1>4. CASE /\ pc' = [pc EXCEPT ![h] = "idle"] /\ reply' = [reply EXCEPT ![h] = None]
             /\ UNCHANGED call
    <2>1. /\ pc'[h] = "idle" /\ reply'[h] = None
          /\ \A g \in Handlers : g # h => pc'[g] = pc[g] /\ reply'[g] = reply[g]
      BY <1>1, <1>4
    <2>2. CallsPrepared'  BY <1>4, <2>1 DEF CallsPrepared, Prepared
    <2>3. OpenUnanswered'  BY <2>1 DEF OpenUnanswered
    <2> QED  BY <1>1, <1>4, <2>1, <2>2, <2>3 DEF Labels
  <1> QED  BY <1>2, <1>3, <1>4 DEF Effect, CallStep

LEMMA StepInv == IInv /\ [Next]_vars => IInv'
  <1> SUFFICES ASSUME IInv, [Next]_vars PROVE IInv'
    OBVIOUS
  <1> USE DEF IInv
  <1>1. CASE Next
    <2>1. PICK h \in Handlers : Effect(h)  BY <1>1, NextEffect
    <2>2. TablesAfter(h)  BY <2>1, StepTables
    <2>3. RowsBelong'  BY <2>2, OfNewTables DEF TablesAfter
    <2>4. lists' \in Lists /\ tasks' \in Rows  BY <2>2 DEF TablesAfter
    <2>5. cursor' \in Handlers \cup {None}  BY <2>1 DEF Effect
    <2>6. /\ pc' \in [Handlers -> Labels] /\ call' \in [Handlers -> Calls]
          /\ reply' \in [Handlers -> Replies \cup {None}]
          /\ CallsPrepared' /\ OpenUnanswered'
      BY <2>1, StepCalls
    <2>7. Types'  BY <2>4, <2>5, <2>6 DEF Types
    <2> QED  BY <2>3, <2>6, <2>7
  <1>2. CASE UNCHANGED vars
    <2>1. tasks' = tasks /\ lists' = lists /\ pc' = pc /\ call' = call /\ reply' = reply
          /\ cursor' = cursor
      BY <1>2 DEF vars
    <2>2. Types'  BY <2>1 DEF Types
    <2>3. RowsBelong'  BY <2>1, OfTables, OfNewTables
    <2>4. CallsPrepared' /\ OpenUnanswered'
      BY <2>1 DEF CallsPrepared, Prepared, OpenUnanswered
    <2> QED  BY <2>2, <2>3, <2>4
  <1> QED  BY <1>1, <1>2

-----------------------------------------------------------------------------
\* Types and operators: every variable keeps its type and every task id of a
\* request or a plan is one.
THEOREM TypeCorrect == Spec => []TypeOK
  <1>1. Init => IInv  BY InitInv
  <1>2. IInv /\ [Next]_vars => IInv'  BY StepInv
  <1>3. IInv => TypeOK  BY TypesSuffice DEF IInv
  <1> QED  BY <1>1, <1>2, <1>3, PTL DEF Spec

\* Whatever requests are made and fail, and however they overlap, no task is left
\* without its list or its main task, and the positions of siblings are 0, 1, 2
\* and so on.
THEOREM RowsBelongHolds == Spec => []RowsBelong
  <1>1. Init => IInv  BY InitInv
  <1>2. IInv /\ [Next]_vars => IInv'  BY StepInv
  <1>3. IInv => RowsBelong  BY DEF IInv
  <1> QED  BY <1>1, <1>2, <1>3, PTL DEF Spec

-----------------------------------------------------------------------------
(***************************************************************************)
(* The step in which UpdateTaskList commits.                               *)
(***************************************************************************)
\* What is known of it: h overwrites the list with the outcome of its request.
Commits(h, l) ==
    /\ Overwrites(h) /\ l = call[h].list
    /\ StoredIn(tasks', l) = call[h].plan
    /\ Prepared("updateTx", call[h])
    /\ call[h] \in Calls /\ Insertable(Without(l), call[h].plan)

LEMMA UpdateCommits ==
    ASSUME IInv, Next, NEW h \in Handlers, NEW l, Updates(h, l)
    PROVE  Commits(h, l)
  <1> USE DEF IInv
  <1>1. PICK g \in Handlers : Effect(g)  BY NextEffect
  <1>2. pc[h] = "updateTx" /\ call[h].list = l /\ reply'[h] = "ok"  BY DEF Updates
  <1>3. reply[h] = None  BY <1>2 DEF OpenUnanswered
  <1>4. None # "ok"  BY IdsAssumption DEF Replies
  <1>5. g = h
    <2>1. g # h => reply'[h] = reply[h]  BY <1>1, StepCalls
    <2> QED  BY <1>2, <1>3, <1>4, <2>1
  <1>6. Overwrites(h)
    BY <1>1, <1>2, <1>5 DEF Effect, TableStep, Leaves, Creates, Deletes
  <1>7. TablesAfter(h)  BY <1>1, <1>5, StepTables
  <1>8. Prepared("updateTx", call[h])  BY <1>2, Zenon DEF CallsPrepared
  <1>9. call[h] \in Calls  BY DEF Types
  <1> QED  BY <1>2, <1>6, <1>7, <1>8, <1>9 DEF Commits, TablesAfter, Overwrites

\* UpdateTaskList answers with the tree that GetTaskList reads back after it:
\* nothing that other requests do between its read and its transaction is mixed
\* into the list.
THEOREM AnswerIsStoredHolds == Spec => AnswerIsStored
  <1>1. Init => IInv  BY InitInv
  <1>2. IInv /\ [Next]_vars => IInv'  BY StepInv
  <1>3. ASSUME IInv, Next, NEW h \in Handlers, NEW l \in ListIds, Updates(h, l)
        PROVE  Stored(l)' = call[h].plan
    <2>1. StoredIn(tasks', l) = call[h].plan  BY <1>3, UpdateCommits DEF Commits
    <2> QED  BY <2>1, OfNewTables
  <1>4. IInv /\ [Next]_vars =>
           [\A h \in Handlers, l \in ListIds : Updates(h, l) => Stored(l)' = call[h].plan]_vars
    BY <1>3
  <1> QED  BY <1>1, <1>2, <1>4, PTL DEF Spec, AnswerIsStored

\* The tasks of a list change only by its deletion or by an UpdateTaskList of that
\* list that succeeds: an id in a request never takes over a task of another
\* list, and a request that fails has changed nothing.
THEOREM OtherListsUntouchedHolds == Spec => OtherListsUntouched
  <1> DEFINE A == \A l \in ListIds :
                     lists[l] # None /\ Stored(l)' # Stored(l) =>
                        lists'[l] = None \/ \E h \in Handlers : Updates(h, l)
  <1>1. Init => IInv  BY InitInv
  <1>2. IInv /\ [Next]_vars => IInv'  BY StepInv
  <1>3. ASSUME IInv, Next PROVE A
    <2> SUFFICES ASSUME NEW l \in ListIds, lists[l] # None, Stored(l)' # Stored(l),
                        lists'[l] # None
                 PROVE  \E h \in Handlers : Updates(h, l)
      OBVIOUS
    <2>1. PICK h \in Handlers : Effect(h)  BY <1>3, NextEffect DEF IInv
    <2>2. TablesAfter(h)  BY <1>3, <2>1, StepTables DEF IInv
    <2>3. StoredIn(tasks', l) # StoredIn(tasks, l)  BY OfTables, OfNewTables
    <2>4. Overwrites(h) /\ call[h].list = l  BY <2>2, <2>3 DEF TablesAfter
    <2> QED  BY <2>4 DEF Overwrites, Updates
  <1>4. IInv /\ [Next]_vars => [A]_tasks  BY <1>3 DEF vars
  <1> QED  BY <1>1, <1>2, <1>4, PTL DEF Spec, OtherListsUntouched

\* A repeated UpdateTaskList whose tasks are named would store what is stored: the
\* due date of a completed recurring task is not advanced twice.
THEOREM RetryIsNoOpHolds == Spec => RetryIsNoOp
  <1>1. Init => IInv  BY InitInv
  <1>2. IInv /\ [Next]_vars => IInv'  BY StepInv
  <1>3. ASSUME IInv, Next, NEW h \in Handlers, NEW l \in ListIds, Updates(h, l)
        PROVE  Outcome(call[h].tree, call[h].auto, Stored(l)') = Stored(l)'
    <2> DEFINE tree == call[h].tree
               auto == call[h].auto
               plan == call[h].plan
    <2>1. Commits(h, l)  BY <1>3, UpdateCommits
    <2>2. tree \in Tree /\ auto \in BOOLEAN /\ plan \in Tree /\ Valid(tree)
      BY <2>1 DEF Commits, Calls, Prepared
    <2>3. PICK existing : plan = Outcome(tree, auto, existing)
      BY <2>1 DEF Commits, Prepared
    <2>4. DistinctIds(plan)  BY <2>1, <2>2, InsertableIds DEF Commits
    <2>5. \A n, m \in 1..Len(plan) : plan[n].id = plan[m].id => n = m
      BY <2>4 DEF DistinctIds
    <2>6. Stored(l)' = plan  BY <2>1, OfNewTables DEF Commits
    <2> HIDE DEF tree, auto, plan
    <2>7. Outcome(tree, auto, plan) = plan  BY <2>2, <2>3, <2>5, OutcomeAgain
    <2> QED  BY <2>6, <2>7 DEF tree, auto
  <1>4. IInv /\ [Next]_vars =>
           [\A h \in Handlers, l \in ListIds : Updates(h, l) =>
               LET stored == Stored(l)' IN
               Outcome(call[h].tree, call[h].auto, stored) = stored]_vars
    BY <1>3
  <1> QED  BY <1>1, <1>2, <1>4, PTL DEF Spec, RetryIsNoOp

\* Every main task of a list is read with it.
LEMMA StoredEntry ==
    ASSUME NEW tab \in Rows, NEW ls, BelongIn(tab, ls), NEW l \in ListIds,
           NEW t \in MainsIn(tab, l)
    PROVE  \E e \in Range(StoredIn(tab, l)) : e.id = t /\ e.done = tab[t].done
  <1> DEFINE M == MainsIn(tab, l)
  <1>1. M \in SUBSET TaskIds /\ (\A u \in M : tab[u] # None) /\ Numbered(tab, M)
    BY DEF MainsIn, IsMainIn, BelongIn
  <1>2. PICK n \in 1..Cardinality(M) : OrderIn(tab, M)[n] = t  BY <1>1, OrderMembers
  <1>3. DOMAIN OrderIn(tab, M) = 1..Cardinality(M)  BY DEF OrderIn
  <1>4. /\ DOMAIN StoredIn(tab, l) = 1..Cardinality(M)
        /\ StoredIn(tab, l)[n] = MainTaskIn(tab, t)
    BY <1>2, <1>3 DEF StoredIn
  <1>5. MainTaskIn(tab, t).id = t /\ MainTaskIn(tab, t).done = tab[t].done
    BY DEF MainTaskIn
  <1> HIDE DEF M
  <1> QED  BY <1>2, <1>4, <1>5 DEF Range

\* A task that was in the list and is a main task of the new table is one of the
\* tree that was stored, since the list's rows are deleted before.
LEMMA StaysByPlan ==
    ASSUME IInv, NEW h \in Handlers, NEW l \in ListIds, Commits(h, l),
           NEW t \in MainsIn(tasks, l), IsMainIn(tasks', t)
    PROVE  \E n \in 1..Len(call[h].plan) :
              /\ call[h].plan[n].id = t
              /\ tasks'[t].done = call[h].plan[n].done
              /\ tasks'[t].due = call[h].plan[n].due
              /\ tasks'[t].rec = call[h].plan[n].rec
  <1> DEFINE plan == call[h].plan
             kept == Without(l)
  <1>1. t \in TaskIds  BY DEF MainsIn
  <1>2. kept[t] = None
    <2>1. t \in Mains(l)  BY OfTables
    <2> QED  BY <1>1, <2>1 DEF Without
  <1>3. kept \in Rows  BY DEF Without, Rows, IInv, Types
  <1>4. plan \in Tree /\ tasks' = Inserted(kept, l, plan) /\ Insertable(kept, plan)
    BY DEF Commits, Overwrites, Calls
  <1> HIDE DEF plan, kept
  <1>5. StoredAs(tasks', kept, l, plan)  BY <1>3, <1>4, InsertedRows
  <1>6. tasks'[t] # None /\ tasks'[t].list # None  BY DEF IsMainIn
  <1>7. t \in IdsOf(plan)  BY <1>1, <1>2, <1>5, <1>6, Zenon DEF StoredAs
  <1>8. \/ \E i \in 1..Len(plan) : t = plan[i].id
        \/ \E i \in 1..Len(plan) : \E j \in 1..Len(plan[i].subs) : t = plan[i].subs[j].id
    BY <1>5, <1>7, Zenon DEF StoredAs
  <1>9. \A i \in 1..Len(plan) : \A j \in 1..Len(plan[i].subs) : t # plan[i].subs[j].id
    <2> TAKE i \in 1..Len(plan)
    <2> TAKE j \in 1..Len(plan[i].subs)
    <2>1. tasks'[plan[i].subs[j].id] =
             [list |-> None, parent |-> plan[i].id, position |-> j - 1,
              done |-> plan[i].subs[j].done, due |-> 0, rec |-> NoRule]
      BY <1>5, Zenon DEF StoredAs
    <2> QED  BY <1>6, <2>1
  <1>10. PICK n \in 1..Len(plan) : t = plan[n].id  BY <1>8, <1>9
  <1>11. tasks'[plan[n].id] = [list |-> l, parent |-> None, position |-> n - 1,
                               done |-> plan[n].done, due |-> plan[n].due,
                               rec |-> plan[n].rec]
    BY <1>5, Zenon DEF StoredAs
  <1> QED  BY <1>10, <1>11 DEF plan

LEMMA FreshReopens ==
    ASSUME IInv, NEW h \in Handlers, NEW l \in ListIds, Commits(h, l), UpToDate(h, l),
           NEW t \in MainsIn(tasks, l), ~tasks[t].done,
           IsMainIn(tasks', t), tasks'[t].rec # NoRule
    PROVE  ~tasks'[t].done /\ tasks'[t].due # 0
  <1> DEFINE tree == call[h].tree
             auto == call[h].auto
             plan == call[h].plan
             before == Stored(l)
  <1>1. tree \in Tree /\ auto \in BOOLEAN /\ Valid(tree)
    BY DEF Commits, Calls, Prepared
  <1>2. PICK existing : plan = Outcome(tree, auto, existing) /\ ~CannotAdvance(tree, existing)
    BY DEF Commits, Prepared
  <1>3. plan = Outcome(tree, auto, before)  BY DEF UpToDate
  <1>4. PICK n \in 1..Len(plan) :
           /\ plan[n].id = t /\ tasks'[t].done = plan[n].done
           /\ tasks'[t].due = plan[n].due /\ tasks'[t].rec = plan[n].rec
    BY StaysByPlan
  <1>5. \E e \in Range(before) : e.id = t /\ ~e.done
    <2>1. tasks \in Rows /\ BelongIn(tasks, lists)  BY OfTables DEF IInv, Types
    <2>2. \E e \in Range(StoredIn(tasks, l)) : e.id = t /\ e.done = tasks[t].done
      BY <2>1, StoredEntry
    <2>3. before = StoredIn(tasks, l)  BY OfTables
    <2> HIDE DEF before
    <2> QED  BY <2>2, <2>3
  <1> HIDE DEF tree, auto, plan, before
  <1>6. PlanOf(plan, tree, auto, existing) /\ PlanOf(plan, tree, auto, before)
    BY <1>1, <1>2, <1>3, OutcomeTasks
  <1> DEFINE i == Origin(tree, auto, n)
  <1>7. /\ i \in 1..Len(tree) /\ tree[i].id = t /\ tree[i].rec # NoRule
        /\ NewlyDone(tree[i], before) => plan[n].done = FALSE
        /\ NewlyDone(tree[i], existing) => plan[n].due = After(tree[i].rec, tree[i].due)
        /\ ~NewlyDone(tree[i], existing) =>
              plan[n].done = tree[i].done /\ plan[n].due = tree[i].due
        /\ NewlyDone(tree[i], existing) => plan[n].done = FALSE
    BY <1>4, <1>6 DEF PlanOf
  <1> HIDE DEF i
  <1>8. tree[i] \in Range(tree)
    <2>1. DOMAIN tree = 1..Len(tree)  BY <1>1 DEF Tree, Trees
    <2> QED  BY <1>7, <2>1 DEF Range
  <1>9. CASE tree[i].done
    <2>1. NewlyDone(tree[i], before)  BY <1>5, <1>7, <1>9 DEF NewlyDone
    <2>2. NewlyDone(tree[i], existing)  BY <1>7, <1>9, <2>1
    <2>3. After(tree[i].rec, tree[i].due) # 0  BY <1>2, <1>8, <2>2 DEF CannotAdvance
    <2> QED  BY <1>4, <1>7, <2>1, <2>2, <2>3
  <1>10. CASE ~tree[i].done
    <2>1. ~NewlyDone(tree[i], existing)  BY <1>10 DEF NewlyDone
    <2>2. tree[i].due # 0  BY <1>1, <1>7, ValidDates DEF Tree
    <2> QED  BY <1>4, <1>7, <1>10, <2>1, <2>2
  <1> QED  BY <1>9, <1>10

\* An open task that an UpdateTaskList completes and that recurs is open again,
\* and still upcoming, when no other request has come between the read and the
\* transaction to change the outcome.
THEOREM RecurringStaysOpenIfFreshHolds == Spec => RecurringStaysOpenIfFresh
  <1>1. Init => IInv  BY InitInv
  <1>2. IInv /\ [Next]_vars => IInv'  BY StepInv
  <1>3. ASSUME IInv, Next, NEW h \in Handlers, NEW l \in ListIds, Updates(h, l),
               UpToDate(h, l)
        PROVE  ~LosesReopening(l)
    <2> SUFFICES ASSUME NEW t \in Mains(l), ~tasks[t].done, IsMain(t)',
                        tasks'[t].rec # NoRule
                 PROVE  t \in Upcoming(1)'
      BY DEF LosesReopening
    <2>1. Commits(h, l)  BY <1>3, UpdateCommits
    <2>2. t \in MainsIn(tasks, l) /\ t \in TaskIds  BY OfTables DEF Mains
    <2>3. IsMainIn(tasks', t)  BY DEF IsMain, IsMainIn
    <2>4. ~tasks'[t].done /\ tasks'[t].due # 0  BY <1>3, <2>1, <2>2, <2>3, FreshReopens
    <2>5. tasks'[t].due >= 1
      <3>1. tasks' \in Rows  BY <1>2, <1>3 DEF IInv, Types
      <3>2. tasks'[t] \in TaskRows  BY <2>2, <2>3, <3>1 DEF Rows, IsMainIn
      <3>3. tasks'[t].due \in Dates \cup {0}  BY <3>2 DEF TaskRows
      <3>4. Dates \cup {0} \subseteq Nat  BY DatesAssumption
      <3>5. tasks'[t].due \in Nat  BY <3>3, <3>4
      <3> QED  BY <2>4, <3>5
    <2> QED  BY <2>2, <2>4, <2>5 DEF Upcoming
  <1>4. IInv /\ [Next]_vars =>
           [\A h \in Handlers, l \in ListIds :
               Updates(h, l) /\ UpToDate(h, l) => ~LosesReopening(l)]_vars
    BY <1>3
  <1> QED  BY <1>1, <1>2, <1>4, PTL DEF Spec, RecurringStaysOpenIfFresh
=============================================================================
