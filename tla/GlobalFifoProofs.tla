--------------------------- MODULE GlobalFifoProofs ---------------------------
(***************************************************************************)
(* The theorems about GlobalFifo and RaceShare, for any tasks, slices and  *)
(* timeout, and any way of attaching the scheduler.                        *)
(***************************************************************************)
EXTENDS RaceShare, FiniteSetTheorems, SequenceTheorems, TLAPS

(* A set of naturals has a least element.  The arguments by induction      *)
(* below are about the least counterexample.                               *)
LEMMA Least ==
    ASSUME NEW N, N \subseteq Nat, N # {}
    PROVE  \E n \in N : \A m \in N : n <= m
<1> DEFINE Less == {ss \in Nat \X Nat : ss[1] < ss[2]}
<1>1. Less = OpToRel(<, Nat)
  BY DEF OpToRel
<1>2. IsWellFoundedOn(Less, Nat)
  BY <1>1, NatLessThanWellFounded, Zenon
<1>3. PICK n \in N : \A m \in N : ~ (<<m, n>> \in Less)
  <2> HIDE DEF Less
  <2> QED  BY <1>2, WFMin
<1>4. ASSUME NEW m \in N  PROVE n <= m
  <2>1. m \in Nat /\ n \in Nat /\ <<m, n>> \in Nat \X Nat
    OBVIOUS
  <2>2. ~(m < n)
    BY <1>3, <2>1
  <2> QED  BY <2>1, <2>2
<1> QED  BY <1>4

(* Of a set of finite sets, one is the smallest. *)
LEMMA Smallest ==
    ASSUME NEW F, F # {}, \A s \in F : IsFiniteSet(s)
    PROVE  \E s \in F : \A r \in F : Cardinality(s) <= Cardinality(r)
<1> DEFINE N == {Cardinality(s) : s \in F}
<1>1. \A s \in F : Cardinality(s) \in Nat
  BY FS_CardinalityType
<1>2. N \subseteq Nat /\ N # {}
  BY <1>1
<1>3. PICK n \in N : \A m \in N : n <= m
  <2> HIDE DEF N
  <2> QED  BY <1>2, Least
<1> QED  BY <1>3

(* The element of a set that MapThenSumSet takes first. *)
First(s) == CHOOSE x \in s : TRUE

(* The value of the sum over s, given its values over smaller sets. *)
SumStep(w, g, s) == IF s = {} THEN 0 ELSE w[First(s)] + g[s \ {First(s)}]

(* First takes an element of the set. *)
LEMMA FirstIn == \A s : s # {} => First(s) \in s
  BY DEF First

(* The recursive equation of the sum of w over the subsets of T has a      *)
(* solution: sets of n elements at most are summed by extending the sum    *)
(* over the sets of n - 1.                                                 *)
LEMMA SumExists ==
    ASSUME NEW T, IsFiniteSet(T), NEW w \in [T -> Nat]
    PROVE  \E g \in [SUBSET T -> Nat] : \A s \in SUBSET T : g[s] = SumStep(w, g, s)
<1> DEFINE Small(n) == {s \in SUBSET T : Cardinality(s) <= n}
           Sums(n) == \E g \in [Small(n) -> Nat] :
                          \A s \in Small(n) : g[s] = SumStep(w, g, s)
           Bad == {n \in Nat : ~Sums(n)}
<1>1. \A s \in SUBSET T : IsFiniteSet(s) /\ Cardinality(s) \in Nat
                          /\ (Cardinality(s) = 0 <=> s = {})
  BY FS_Subset, FS_CardinalityType, FS_EmptySet
<1>2. \A s \in SUBSET T : s # {} =>
          /\ First(s) \in T /\ s \ {First(s)} \in SUBSET T
          /\ Cardinality(s \ {First(s)}) = Cardinality(s) - 1
  BY <1>1, FirstIn, FS_RemoveElement
<1>3. Sums(0)
  <2>1. \A s \in Small(0) : s = {}
    BY <1>1
  <2>2. [s \in Small(0) |-> 0] \in [Small(0) -> Nat]
    OBVIOUS
  <2>3. \A s \in Small(0) : [r \in Small(0) |-> 0][s] = SumStep(w, [r \in Small(0) |-> 0], s)
    BY <2>1 DEF SumStep
  <2> QED  BY <2>2, <2>3
<1>4. ASSUME NEW n \in Nat, Sums(n)  PROVE Sums(n + 1)
  <2>1. PICK g \in [Small(n) -> Nat] : \A s \in Small(n) : g[s] = SumStep(w, g, s)
    BY <1>4
  <2> DEFINE h == [s \in Small(n + 1) |-> SumStep(w, g, s)]
  <2>2. \A s \in Small(n + 1) : s # {} => s \ {First(s)} \in Small(n)
    BY <1>1, <1>2
  <2>3. \A s \in Small(n + 1) : SumStep(w, g, s) \in Nat
    BY <1>2, <2>2 DEF SumStep
  <2>4. h \in [Small(n + 1) -> Nat]
    BY <2>3
  <2>5. \A s \in Small(n) : s \in Small(n + 1) /\ h[s] = g[s]
    BY <1>1, <2>1
  <2>6. \A s \in Small(n + 1) : h[s] = SumStep(w, h, s)
    <3> SUFFICES ASSUME NEW s \in Small(n + 1)  PROVE SumStep(w, g, s) = SumStep(w, h, s)
      OBVIOUS
    <3> HIDE DEF h, Small
    <3> QED  BY <2>2, <2>5 DEF SumStep
  <2> QED  BY <2>4, <2>6
<1>5. Bad = {}
  <2> SUFFICES ASSUME Bad # {}  PROVE FALSE
    OBVIOUS
  <2>1. PICK n \in Bad : \A m \in Bad : n <= m
    <3> HIDE DEF Sums
    <3>1. Bad \subseteq Nat
      OBVIOUS
    <3> HIDE DEF Bad
    <3> QED  BY <3>1, Least
  <2> HIDE DEF Sums
  <2>2. n \in Nat /\ n # 0 /\ ~Sums(n)
    BY <1>3
  <2>3. n - 1 \in Nat /\ (n - 1) + 1 = n
    BY <2>2
  <2>4. ~Sums(n - 1)
    BY <1>4, <2>2, <2>3
  <2>5. n - 1 \in Bad
    BY <2>3, <2>4
  <2> QED  BY <2>1, <2>2, <2>3, <2>5
<1>6. Small(Cardinality(T)) = SUBSET T
  BY <1>1, FS_Subset
<1>7. Sums(Cardinality(T))
  <2> HIDE DEF Sums
  <2> QED  BY <1>1, <1>5
<1> QED  BY <1>6, <1>7

(* A sum of naturals grows with the set. *)
LEMMA SumGrows ==
    ASSUME NEW T, IsFiniteSet(T), NEW w \in [T -> Nat], NEW g \in [SUBSET T -> Nat],
           \A s \in SUBSET T : \A x \in s : g[s] = w[x] + g[s \ {x}]
    PROVE  \A s \in SUBSET T : \A r \in SUBSET s : g[r] <= g[s]
<1> DEFINE Wrong == {s \in SUBSET T : \E r \in SUBSET s : ~(g[r] <= g[s])}
<1> SUFFICES ASSUME Wrong # {}  PROVE FALSE
  OBVIOUS
<1>1. \A s \in SUBSET T : IsFiniteSet(s) /\ Cardinality(s) \in Nat
  BY FS_Subset, FS_CardinalityType
<1>2. PICK s \in Wrong : \A r \in Wrong : Cardinality(s) <= Cardinality(r)
  <2>1. \A r \in Wrong : IsFiniteSet(r)
    BY <1>1
  <2> HIDE DEF Wrong
  <2> QED  BY <2>1, Smallest
<1>3. PICK r \in SUBSET s : ~(g[r] <= g[s])
  OBVIOUS
<1>4. s \in SUBSET T /\ g[s] \in Nat /\ g[r] \in Nat
  OBVIOUS
<1>5. PICK x \in s : x \notin r
  <2>1. r # s
    BY <1>3, <1>4
  <2>2. r \subseteq s
    OBVIOUS
  <2> QED  BY <2>1, <2>2
<1>6. /\ s \ {x} \in SUBSET T /\ w[x] \in Nat /\ g[s \ {x}] \in Nat
      /\ r \in SUBSET (s \ {x})
  BY <1>4, <1>5
<1>7. s \ {x} \notin Wrong
  <2>1. Cardinality(s \ {x}) = Cardinality(s) - 1
    BY <1>1, <1>4, FS_RemoveElement
  <2> QED  BY <1>1, <1>2, <1>4, <2>1
<1>8. g[r] <= g[s \ {x}]
  BY <1>6, <1>7
<1>9. g[s] = w[x] + g[s \ {x}]
  BY <1>4
<1> QED  BY <1>3, <1>4, <1>6, <1>8, <1>9

(* There is one function that sums w over the subsets of T, and which      *)
(* element it takes first does not matter: exchange the first two.         *)
LEMMA SumsExist ==
    ASSUME NEW T, IsFiniteSet(T), NEW w \in [T -> Nat]
    PROVE  \E g \in [SUBSET T -> Nat] :
              /\ \A s \in SUBSET T : g[s] = SumStep(w, g, s)
              /\ \A s \in SUBSET T : \A x \in s : g[s] = w[x] + g[s \ {x}]
              /\ \A s \in SUBSET T : \A r \in SUBSET s : g[r] <= g[s]
<1>1. PICK g \in [SUBSET T -> Nat] : \A s \in SUBSET T : g[s] = SumStep(w, g, s)
  BY SumExists
<1>2. \A s \in SUBSET T : \A x \in s : g[s] = w[x] + g[s \ {x}]
  <2> DEFINE Wrong == {s \in SUBSET T : \E x \in s : g[s] # w[x] + g[s \ {x}]}
  <2> SUFFICES ASSUME Wrong # {}  PROVE FALSE
    OBVIOUS
  <2>1. \A s \in SUBSET T : IsFiniteSet(s) /\ Cardinality(s) \in Nat
    BY FS_Subset, FS_CardinalityType
  <2>2. PICK s \in Wrong : \A r \in Wrong : Cardinality(s) <= Cardinality(r)
    <3>1. \A r \in Wrong : IsFiniteSet(r)
      BY <2>1
    <3> HIDE DEF Wrong
    <3> QED  BY <3>1, Smallest
  <2>3. PICK x \in s : g[s] # w[x] + g[s \ {x}]
    OBVIOUS
  <2> DEFINE y == First(s)
  <2>4. y \in s /\ s \in SUBSET T
    BY FirstIn
  <2>5. g[s] = w[y] + g[s \ {y}]
    BY <1>1, <2>4 DEF SumStep
  <2> HIDE DEF y
  <2>6. x # y
    BY <2>3, <2>5
  <2>7. \A z \in s : s \ {z} \in SUBSET T /\ s \ {z} \notin Wrong
    <3> SUFFICES ASSUME NEW z \in s, s \ {z} \in Wrong  PROVE FALSE
      BY <2>4
    <3>1. Cardinality(s \ {z}) = Cardinality(s) - 1
      BY <2>1, <2>4, FS_RemoveElement
    <3>2. Cardinality(s) <= Cardinality(s \ {z})
      BY <2>2
    <3> QED  BY <2>1, <2>4, <3>1, <3>2
  <2>8. g[s \ {y}] = w[x] + g[(s \ {y}) \ {x}]
    <3>1. x \in s \ {y}
      BY <2>6
    <3> QED  BY <2>4, <2>7, <3>1
  <2>9. g[s \ {x}] = w[y] + g[(s \ {x}) \ {y}]
    <3>1. y \in s \ {x}
      BY <2>4, <2>6
    <3> QED  BY <2>7, <3>1
  <2>10. (s \ {y}) \ {x} = (s \ {x}) \ {y} /\ (s \ {x}) \ {y} \in SUBSET T
    BY <2>4
  <2>11. w[x] \in Nat /\ w[y] \in Nat /\ g[(s \ {x}) \ {y}] \in Nat
    BY <2>4, <2>10
  <2>12. g[s \ {y}] = w[x] + g[(s \ {x}) \ {y}]
    BY <2>8, <2>10
  <2> QED  BY <2>3, <2>5, <2>9, <2>11, <2>12
<1>3. \A s \in SUBSET T : \A r \in SUBSET s : g[r] <= g[s]
  BY <1>2, SumGrows
<1> QED  BY <1>1, <1>2, <1>3
-----------------------------------------------------------------------------
(* The CPU time that the tasks of S can take, one run each. *)
Total(S) == MapThenSumSet(LongestRun, S)

(* Max of two, as LongestRun takes it. *)
LEMMA Larger ==
    ASSUME NEW a \in Int, NEW b \in Int
    PROVE  Max({a, b}) = IF a >= b THEN a ELSE b
  BY DEF Max

(* A run is a positive time, and no slice of the thread is longer. *)
LEMMA LongestRunBounds ==
    ASSUME NEW t \in Threads
    PROVE  /\ LongestRun(t) \in Nat \ {0} /\ Slice[t] \in Nat \ {0}
           /\ Granted(t) = Slice[t]
           /\ Slice[t] <= LongestRun(t) /\ DefaultSlice <= LongestRun(t)
<1>1. Slice[t] \in Nat \ {0} /\ DefaultSlice \in Nat \ {0}
  BY SliceAssumption
<1>2. LongestRun(t) = IF Slice[t] >= DefaultSlice THEN Slice[t] ELSE DefaultSlice
  BY <1>1, Larger DEF LongestRun, Granted
<1> QED  BY <1>1, <1>2 DEF Granted

(* The fold of the library is a sum as expected: over each set of threads  *)
(* it has the value of one function that takes the elements in any order.  *)
LEMMA TotalFunction ==
    \E g \in [SUBSET Threads -> Nat] :
        /\ \A S \in SUBSET Threads : Total(S) = g[S]
        /\ g[{}] = 0
        /\ \A S \in SUBSET Threads : \A x \in S : g[S] = LongestRun(x) + g[S \ {x}]
        /\ \A S \in SUBSET Threads : \A R \in SUBSET S : g[R] <= g[S]
<1> DEFINE w == [t \in Threads |-> LongestRun(t)]
<1>1. w \in [Threads -> Nat]
  BY LongestRunBounds
<1>2. IsFiniteSet(Threads)
  BY TasksAssumption, FS_AddElement DEF Threads
<1>3. \A t \in Threads : w[t] = LongestRun(t)
  OBVIOUS
<1> HIDE DEF w
<1>4. PICK g \in [SUBSET Threads -> Nat] :
        /\ \A s \in SUBSET Threads : g[s] = SumStep(w, g, s)
        /\ \A s \in SUBSET Threads : \A x \in s : g[s] = w[x] + g[s \ {x}]
        /\ \A s \in SUBSET Threads : \A r \in SUBSET s : g[r] <= g[s]
  BY <1>1, <1>2, SumsExist
<1>7. \A s \in SUBSET Threads :
          g[s] = IF s = {} THEN 0 ELSE LongestRun(First(s)) + g[s \ {First(s)}]
  <2>1. \A s \in SUBSET Threads : s # {} => First(s) \in Threads
    BY FirstIn
  <2> QED  BY <1>3, <1>4, <2>1 DEF SumStep
<1>8. ASSUME NEW S \in SUBSET Threads  PROVE Total(S) = g[S]
  <2> DEFINE Sums(h) == h = [s \in SUBSET S |-> IF s = {} THEN 0
                                 ELSE LongestRun(First(s)) + h[s \ {First(s)}]]
  <2>1. Total(S) = (CHOOSE h : Sums(h))[S]
    BY DEF Total, MapThenSumSet, MapThenFoldSet, First
  <2>2. Sums([s \in SUBSET S |-> g[s]])
    <3>1. \A s \in SUBSET S : s # {} => s \ {First(s)} \in SUBSET S
      OBVIOUS
    <3> QED  BY <1>7, <3>1
  <2>3. PICK h : Sums(h) /\ h = CHOOSE f : Sums(f)
    <3> HIDE DEF Sums
    <3> QED  BY <2>2
  <2>4. \A s \in SUBSET S :
            h[s] = IF s = {} THEN 0 ELSE LongestRun(First(s)) + h[s \ {First(s)}]
    BY <2>3
  <2> HIDE DEF Sums
  <2> DEFINE Wrong == {s \in SUBSET S : h[s] # g[s]}
  <2>5. Wrong = {}
    <3> SUFFICES ASSUME Wrong # {}  PROVE FALSE
      OBVIOUS
    <3>1. \A s \in SUBSET S : IsFiniteSet(s) /\ Cardinality(s) \in Nat
      BY <1>2, FS_Subset, FS_CardinalityType
    <3>2. PICK s \in Wrong : \A r \in Wrong : Cardinality(s) <= Cardinality(r)
      <4>1. \A r \in Wrong : IsFiniteSet(r)
        BY <3>1
      <4> HIDE DEF Wrong
      <4> QED  BY <4>1, Smallest
    <3>3. s \in SUBSET S /\ h[s] # g[s]
      OBVIOUS
    <3>4. s # {} /\ First(s) \in s
      BY <1>7, <2>4, <3>3, FirstIn
    <3>5. s \ {First(s)} \in SUBSET S /\ h[s \ {First(s)}] # g[s \ {First(s)}]
      BY <1>7, <2>4, <3>3, <3>4
    <3>6. s \ {First(s)} \in Wrong
      BY <3>5
    <3>7. Cardinality(s \ {First(s)}) = Cardinality(s) - 1
      BY <3>1, <3>3, <3>4, FS_RemoveElement
    <3> QED  BY <3>1, <3>2, <3>3, <3>6, <3>7
  <2>6. h[S] = g[S]
    BY <2>5
  <2> QED  BY <2>1, <2>3, <2>6
<1> QED  BY <1>3, <1>4, <1>7, <1>8

(* The longest runs of some threads sum to a natural. *)
LEMMA TotalType == \A S \in SUBSET Threads : Total(S) \in Nat
  BY TotalFunction

(* A thread's longest run can be taken out of the sum. *)
LEMMA TotalSplit ==
    \A S \in SUBSET Threads : \A x \in S : Total(S) = LongestRun(x) + Total(S \ {x})
<1>1. \A S \in SUBSET Threads : \A x \in S : S \ {x} \in SUBSET Threads
  OBVIOUS
<1> QED  BY <1>1, TotalFunction

(* More threads, more time. *)
LEMMA TotalGrows ==
    \A S \in SUBSET Threads : \A R \in SUBSET S : Total(R) <= Total(S)
<1>1. \A S \in SUBSET Threads : \A R \in SUBSET S : R \in SUBSET Threads
  OBVIOUS
<1> QED  BY <1>1, TotalFunction
-----------------------------------------------------------------------------
(* u is before t in the queue s. *)
Precedes(s, u, t) == \E i, j \in 1..Len(s) : i < j /\ s[i] = u /\ s[j] = t

(* The tasks that are not before t in the queue: those that run or have    *)
(* run while t waits, that block, or that queue behind t.                  *)
Behind(t) == (Scheduled \ {t}) \ {u \in Threads : Precedes(fifo, u, t)}

(* s holds the elements of Q, each once. *)
Lists(s, Q) ==
    /\ s \in Seq(Q)
    /\ \A i, j \in 1..Len(s) : s[i] = s[j] => i = j
    /\ \A t \in Q : \E i \in 1..Len(s) : s[i] = t

Queued == {t \in Threads : where[t] = "queued"}

(* The queue holds the queued tasks, each once. *)
QueueExact == Lists(fifo, Queued)

(* One task runs at most, for no longer than one run of its own. *)
CpuExact ==
    /\ \A t \in Threads : where[t] = "running" <=> cur = t
    /\ cur = None => left = 0
    /\ \A t \in Threads : cur = t => left <= LongestRun(t)

(* Which places a thread can be in, by the mode of the scheduler. *)
Placed ==
    /\ \A t \in Threads \ Scheduled : where[t] = "fair"
    /\ scx = "enabled" => \A t \in Scheduled : where[t] # "fair"
    /\ scx = "disabled" => \A t \in Threads : where[t] = "fair"
    /\ \A t \in Threads : where[t] = "queued" => ~attached.drops
    /\ \A t \in Threads : where[t] = "dropped" => attached.drops

(* The time that t has waited, and what is left of the slice it waits for, *)
(* is at most one run of each task that is not before it in the queue.     *)
Served == \A t \in Threads : where[t] = "queued" => age[t] + left <= Total(Behind(t))

(* The check is overdue by no more than its thread has waited.  While the  *)
(* thread runs no time passes: it checks, and blocks.                      *)
Checks ==
    /\ checked <= Timeout + 1
    /\ where[Worker] = "blocked" \/ attached.partial => checked <= Period
    /\ where[Worker] = "queued" => Period <= checked /\ checked <= Period + age[Worker]
    /\ where[Worker] = "running" =>
           Period <= checked /\ checked <= Period + Rest(Worker) /\ left > 0

(* At the last check nobody had waited for longer than the timeout.  If    *)
(* enqueue drops all tasks in system-wide mode there was no check, and     *)
(* everybody who waits began to wait after the attachment.                 *)
Aged ==
    /\ \A t \in Threads : Waiting(t) => age[t] <= Timeout + checked
    /\ attached.drops /\ ~attached.partial =>
           /\ where[Worker] # "running"
           /\ \A t \in Threads : Waiting(t) => age[t] <= checked

IInv ==
    /\ TypeOK
    /\ QueueExact /\ CpuExact /\ Placed
    /\ Served /\ Checks /\ Aged

-----------------------------------------------------------------------------
(* A thread that was not queued is put last, and listed once. *)
LEMMA ListsAppend ==
    ASSUME NEW Q, NEW s, Lists(s, Q), NEW a, a \notin Q
    PROVE  /\ Lists(Append(s, a), Q \cup {a})
           /\ \A u, t : Precedes(Append(s, a), u, t) <=>
                            Precedes(s, u, t) \/ (t = a /\ u \in Q)
<1> DEFINE n == Len(s)
           r == Append(s, a)
<1>1. /\ n \in Nat /\ \A i \in 1..n : s[i] \in Q
      /\ s \in Seq(Q \cup {a})
  BY LenProperties, ElementOfSeq, SeqMonotonic DEF Lists
<1>2. /\ r \in Seq(Q \cup {a}) /\ Len(r) = n + 1 /\ r[n + 1] = a
      /\ \A i \in 1..n : r[i] = s[i]
  BY <1>1, AppendProperties
<1>3. \A i \in 1..Len(r) : i \in 1..n \/ i = n + 1
  BY <1>1, <1>2
<1> HIDE DEF n, r
<1>4. \A i \in 1..n : i \in 1..Len(r) /\ i < n + 1
  BY <1>1, <1>2
<1>5. n + 1 \in 1..Len(r)
  BY <1>1, <1>2
<1>6. Lists(r, Q \cup {a})
  <2>1. ASSUME NEW i \in 1..Len(r), NEW j \in 1..Len(r), r[i] = r[j]  PROVE i = j
    BY <1>1, <1>2, <1>3, <2>1 DEF Lists, n
  <2>2. ASSUME NEW t \in Q \cup {a}  PROVE \E i \in 1..Len(r) : r[i] = t
    BY <1>2, <1>4, <1>5 DEF Lists, n
  <2> QED  BY <1>2, <2>1, <2>2 DEF Lists
<1>7. ASSUME NEW u, NEW t, Precedes(r, u, t)
      PROVE  Precedes(s, u, t) \/ (t = a /\ u \in Q)
  <2>1. PICK i \in 1..Len(r), j \in 1..Len(r) : i < j /\ r[i] = u /\ r[j] = t
    BY <1>7 DEF Precedes
  <2>2. i \in 1..n
    BY <1>1, <1>2, <2>1
  <2>3. CASE j = n + 1
    BY <1>1, <1>2, <2>1, <2>2, <2>3
  <2>4. CASE j \in 1..n
    BY <1>2, <2>1, <2>2, <2>4 DEF Precedes, n
  <2> QED  BY <1>3, <2>3, <2>4
<1>8. ASSUME NEW u, NEW t, Precedes(s, u, t)  PROVE Precedes(r, u, t)
  <2>1. PICK i \in 1..n, j \in 1..n : i < j /\ s[i] = u /\ s[j] = t
    BY <1>8 DEF Precedes, n
  <2> QED  BY <1>2, <1>4, <2>1 DEF Precedes
<1>9. ASSUME NEW u \in Q  PROVE Precedes(r, u, a)
  <2>1. PICK i \in 1..n : s[i] = u
    BY DEF Lists, n
  <2> QED  BY <1>2, <1>4, <1>5, <2>1 DEF Precedes
<1> QED  BY <1>6, <1>7, <1>8, <1>9 DEF r

(* The head leaves the list, the order of the others stays. *)
LEMMA ListsTail ==
    ASSUME NEW Q, NEW s, Lists(s, Q), s # <<>>
    PROVE  /\ Head(s) \in Q /\ Lists(Tail(s), Q \ {Head(s)})
           /\ \A u, t : Precedes(Tail(s), u, t) <=> Precedes(s, u, t) /\ u # Head(s)
           /\ \A t \in Q \ {Head(s)} : Precedes(s, Head(s), t)
<1> DEFINE n == Len(s)
           h == Head(s)
           r == Tail(s)
<1>1. /\ s \in Seq(Q) /\ n \in Nat \ {0} /\ \A i \in 1..n : s[i] \in Q
  BY LenProperties, ElementOfSeq, EmptySeq DEF Lists
<1>2. /\ h \in Q /\ h = s[1]
      /\ r \in Seq(Q) /\ Len(r) = n - 1 /\ \A i \in 1..Len(r) : r[i] = s[i + 1]
  BY <1>1, HeadTailProperties
<1> HIDE DEF n, h, r
<1>3. \A i \in 1..Len(r) : i + 1 \in 1..n /\ i + 1 # 1 /\ r[i] = s[i + 1] /\ i \in Int
  BY <1>1, <1>2
<1>4. \A i \in 1..n : i # 1 => i - 1 \in 1..Len(r) /\ r[i - 1] = s[i]
  BY <1>1, <1>2
<1>5. 1 \in 1..n /\ \A i \in 1..n : i # 1 => s[i] # h
  BY <1>1, <1>2 DEF Lists, n
<1>6. Lists(r, Q \ {h})
  <2>1. \A i \in 1..Len(r) : r[i] \in Q \ {h}
    BY <1>1, <1>3, <1>5
  <2>2. r \in Seq(Q \ {h})
    <3>1. Len(r) \in Nat /\ r \in [1..Len(r) -> Q]
      BY <1>2, LenProperties
    <3>2. r \in [1..Len(r) -> Q \ {h}]
      BY <2>1, <3>1
    <3> QED  BY <3>1, <3>2, SeqDef
  <2>3. ASSUME NEW i \in 1..Len(r), NEW j \in 1..Len(r), r[i] = r[j]  PROVE i = j
    <3>1. i + 1 = j + 1
      BY <1>3, <2>3 DEF Lists, n
    <3> QED  BY <1>3, <3>1
  <2>4. ASSUME NEW t \in Q \ {h}  PROVE \E i \in 1..Len(r) : r[i] = t
    <3>1. PICK i \in 1..n : s[i] = t
      BY DEF Lists, n
    <3> QED  BY <1>2, <1>4, <3>1
  <2> QED  BY <2>2, <2>3, <2>4 DEF Lists
<1>7. ASSUME NEW u, NEW t, Precedes(r, u, t)  PROVE Precedes(s, u, t) /\ u # h
  <2>1. PICK i \in 1..Len(r), j \in 1..Len(r) : i < j /\ r[i] = u /\ r[j] = t
    BY <1>7 DEF Precedes
  <2>2. i + 1 \in 1..n /\ j + 1 \in 1..n /\ i + 1 < j + 1 /\ s[i + 1] = u /\ s[j + 1] = t
    BY <1>3, <2>1
  <2> QED  BY <1>3, <1>5, <2>2 DEF Precedes, n
<1>8. ASSUME NEW u, NEW t, Precedes(s, u, t), u # h  PROVE Precedes(r, u, t)
  <2>1. PICK i \in 1..n, j \in 1..n : i < j /\ s[i] = u /\ s[j] = t
    BY <1>8 DEF Precedes, n
  <2>2. i # 1 /\ j # 1
    BY <1>2, <1>8, <2>1
  <2>3. i - 1 \in 1..Len(r) /\ j - 1 \in 1..Len(r) /\ i - 1 < j - 1
        /\ r[i - 1] = u /\ r[j - 1] = t
    BY <1>4, <2>1, <2>2
  <2> QED  BY <2>3 DEF Precedes
<1>9. ASSUME NEW t \in Q \ {h}  PROVE Precedes(s, h, t)
  <2>1. PICK j \in 1..n : s[j] = t
    BY DEF Lists, n
  <2>2. 1 < j
    BY <1>2, <2>1
  <2> QED  BY <1>2, <1>5, <2>1, <2>2 DEF Precedes, n
<1> QED  BY <1>2, <1>6, <1>7, <1>8, <1>9 DEF h, r
-----------------------------------------------------------------------------
(* t wakes up: a task at any time, the watchdog's thread when the check is *)
(* due.                                                                    *)
Woken(t) ==
    /\ scx = "enabled" /\ where[t] = "blocked"
    /\ t = Worker => CheckDue
    /\ Insert(t)
    /\ age' = [age EXCEPT ![t] = 0]
    /\ UNCHANGED <<attached, cur, left, checked, scx>>

(* The check finds nobody stalled. *)
CheckPassed ==
    /\ scx = "enabled" /\ where[Worker] \in {"fair", "running"}
    /\ \A t \in Threads : ~Stalled(t)
    /\ checked' = 0
    /\ IF attached.partial THEN UNCHANGED <<where, cur, left>>
       ELSE where' = [where EXCEPT ![Worker] = "blocked"] /\ cur' = None /\ left' = 0
    /\ UNCHANGED <<attached, fifo, age, scx>>

(* The scheduler is ejected, by the check or by the tick. *)
Ejected ==
    /\ scx = "enabled"
    /\ \/ checked > Timeout
       \/ /\ where[Worker] \in {"fair", "running"}
          /\ \E t \in Threads : Stalled(t)
    /\ Eject

(* The steps, the waking of the watchdog's thread with that of the tasks. *)
LEMMA NextCases ==
    ASSUME [Next]_vars
    PROVE  \/ \E t \in Threads : Woken(t)
           \/ Block \/ RunHead \/ KeepRunning \/ CheckPassed \/ Ejected \/ Tick
           \/ UNCHANGED vars
<1>1. ASSUME NEW t \in Tasks, Wake(t)  PROVE Woken(t) /\ t \in Threads
  BY <1>1, ModeAssumption DEF Wake, Woken, Threads
<1>2. CASE WakeWorker
  BY <1>2 DEF WakeWorker, Woken, Threads
<1>3. CASE Check
  BY <1>3 DEF Check, CheckPassed, Ejected
<1>4. CASE CheckOverdue
  BY <1>4 DEF CheckOverdue, Ejected
<1> QED  BY <1>1, <1>2, <1>3, <1>4 DEF Next

(* What the proofs use of the assumptions on the constants. *)
LEMMA Constants ==
    /\ Threads = Tasks \cup {Worker} /\ None \notin Threads
    /\ Worker \in Threads /\ Sleepers \subseteq Tasks
    /\ Timeout \in Nat /\ Period \in Nat /\ Period <= Timeout
    /\ DefaultSlice \in Nat \ {0}
  BY ModeAssumption, TimeoutAssumption, SliceAssumption DEF Threads, Period

(* What RunHead does to each thread, whether or not a task has expired. *)
LEMMA RunHeadEffect ==
    ASSUME TypeOK, QueueExact, CpuExact, RunHead
    PROVE  /\ Head(fifo) \in Queued /\ fifo # <<>> /\ Head(fifo) # cur
           /\ left = 0 /\ cur' = Head(fifo) /\ left' = Granted(Head(fifo))
           /\ where' = [t \in Threads |-> IF t = Head(fifo) THEN "running"
                                          ELSE IF t = cur THEN "queued" ELSE where[t]]
           /\ age' = [t \in Threads |-> IF t = cur THEN 0 ELSE age[t]]
           /\ fifo' = IF cur = None THEN Tail(fifo) ELSE Append(Tail(fifo), cur)
           /\ cur \in Threads \cup {None} /\ cur \notin Queued
           /\ UNCHANGED <<attached, checked, scx>>
<1> DEFINE h == Head(fifo)
<1>1. h \in Queued
  BY ListsTail DEF RunHead, QueueExact
<1>2. cur \notin Queued
  BY DEF Queued, CpuExact
<1>3. left = 0
  BY DEF RunHead, MustSchedule, CpuExact
<1> HIDE DEF h
<1>4. CASE cur = None
  <2>1. /\ where' = [where EXCEPT ![h] = "running"] /\ fifo' = Tail(fifo) /\ age' = age
    BY <1>4 DEF RunHead, h
  <2> QED  BY <1>1, <1>2, <1>3, <1>4, <2>1, Constants DEF RunHead, h, TypeOK
<1>5. CASE cur # None
  <2>1. /\ where' = [where EXCEPT ![h] = "running", ![cur] = "queued"]
        /\ fifo' = Append(Tail(fifo), cur) /\ age' = [age EXCEPT ![cur] = 0]
    BY <1>5 DEF RunHead, h
  <2>2. h # cur /\ h \in Threads /\ cur \in Threads
    BY <1>1, <1>2, <1>5 DEF TypeOK, Queued
  <2>3. where' = [t \in Threads |-> IF t = h THEN "running"
                                   ELSE IF t = cur THEN "queued" ELSE where[t]]
    BY <2>1, <2>2 DEF TypeOK
  <2>4. age' = [t \in Threads |-> IF t = cur THEN 0 ELSE age[t]]
    BY <2>1 DEF TypeOK
  <2> QED  BY <1>1, <1>2, <1>3, <1>5, <2>1, <2>2, <2>3, <2>4 DEF RunHead, h, TypeOK
<1> QED  BY <1>4, <1>5

(* RunHead keeps the order of those that stay queued, and puts the expired *)
(* task behind all of them.                                                *)
LEMMA RunHeadOrder ==
    ASSUME TypeOK, QueueExact, CpuExact, RunHead
    PROVE  /\ \A u, t : Precedes(fifo', u, t) <=>
                 \/ Precedes(fifo, u, t) /\ u # Head(fifo)
                 \/ t = cur /\ cur # None /\ u \in Queued \ {Head(fifo)}
           /\ \A t \in Queued \ {Head(fifo)} : Precedes(fifo, Head(fifo), t)
           /\ \A u, t : Precedes(fifo, u, t) => u \in Queued /\ t \in Queued
<1> DEFINE h == Head(fifo)
<1>1. /\ Lists(Tail(fifo), Queued \ {h})
      /\ \A u, t : Precedes(Tail(fifo), u, t) <=> Precedes(fifo, u, t) /\ u # h
      /\ \A t \in Queued \ {h} : Precedes(fifo, h, t)
  BY RunHeadEffect, ListsTail DEF QueueExact
<1>2. \A u, t : Precedes(fifo, u, t) => u \in Queued /\ t \in Queued
  <2>1. \A i \in 1..Len(fifo) : fifo[i] \in Queued
    BY ElementOfSeq DEF QueueExact, Lists
  <2> QED  BY <2>1 DEF Precedes
<1>3. CASE cur = None
  BY <1>1, <1>2, <1>3, RunHeadEffect
<1>4. CASE cur # None
  <2>1. fifo' = Append(Tail(fifo), cur) /\ cur \notin Queued \ {h}
    BY <1>4, RunHeadEffect
  <2>2. \A u, t : Precedes(Append(Tail(fifo), cur), u, t) <=>
                     Precedes(Tail(fifo), u, t) \/ (t = cur /\ u \in Queued \ {h})
    BY <1>1, <2>1, ListsAppend
  <2> QED  BY <1>1, <1>2, <1>4, <2>1, <2>2
<1> QED  BY <1>3, <1>4
-----------------------------------------------------------------------------
(* Every step keeps the types. *)
LEMMA TypeStep == TypeOK /\ QueueExact /\ CpuExact /\ [Next]_vars => TypeOK'
<1> SUFFICES ASSUME TypeOK, QueueExact, CpuExact, [Next]_vars  PROVE TypeOK'
  OBVIOUS
<1> USE Constants DEF TypeOK, Places
<1>1. ASSUME NEW t \in Threads, Woken(t)  PROVE TypeOK'
  <2>1. Append(fifo, t) \in Seq(Threads)
    BY AppendProperties
  <2>2. fifo' \in Seq(Threads) /\ where' \in [Threads -> Places]
    BY <1>1, <2>1 DEF Woken, Insert, InsertGlobal, InsertNothing
  <2>3. age' \in [Threads -> Nat] /\ UNCHANGED <<attached, cur, left, checked, scx>>
    BY <1>1 DEF Woken
  <2> QED  BY <2>2, <2>3
<1>2. CASE Block
  BY <1>2 DEF Block
<1>3. CASE RunHead
  <2>1. Head(fifo) \in Threads /\ Tail(fifo) \in Seq(Threads)
    BY <1>3, HeadTailProperties DEF RunHead
  <2>2. fifo' \in Seq(Threads)
    <3>1. cur # None => Append(Tail(fifo), cur) \in Seq(Threads)
      BY <2>1, AppendProperties
    <3> QED  BY <1>3, <2>1, <3>1, RunHeadEffect
  <2>3. left' \in Nat
    BY <1>3, <2>1, RunHeadEffect, LongestRunBounds
  <2> QED  BY <1>3, <2>1, <2>2, <2>3, RunHeadEffect
<1>4. CASE KeepRunning
  BY <1>4 DEF KeepRunning
<1>5. CASE CheckPassed
  BY <1>5 DEF CheckPassed
<1>6. CASE Ejected
  BY <1>6, EmptySeq DEF Ejected, Eject
<1>7. CASE Tick
  BY <1>7 DEF Tick, Settled
<1>8. CASE UNCHANGED vars
  BY <1>8 DEF vars
<1> QED  BY <1>1, <1>2, <1>3, <1>4, <1>5, <1>6, <1>7, <1>8, NextCases
-----------------------------------------------------------------------------
(* No action loses a queued task or queues one twice. *)
LEMMA QueueStep == TypeOK /\ QueueExact /\ CpuExact /\ [Next]_vars => QueueExact'
<1> SUFFICES ASSUME TypeOK, QueueExact, CpuExact, [Next]_vars  PROVE QueueExact'
  OBVIOUS
<1>0. ASSUME fifo' = fifo, Queued' = Queued  PROVE QueueExact'
  BY <1>0 DEF QueueExact
<1>1. ASSUME NEW t \in Threads, Woken(t)  PROVE QueueExact'
  <2>1. CASE attached.drops
    <3>1. fifo' = fifo /\ where' = [where EXCEPT ![t] = "dropped"] /\ where[t] = "blocked"
      BY <1>1, <2>1 DEF Woken, Insert, InsertNothing
    <3>2. Queued' = Queued
      BY <3>1 DEF Queued, TypeOK
    <3> QED  BY <1>0, <3>1, <3>2
  <2>2. CASE ~attached.drops
    <3>1. /\ fifo' = Append(fifo, t) /\ where' = [where EXCEPT ![t] = "queued"]
          /\ where[t] = "blocked"
      BY <1>1, <2>2 DEF Woken, Insert, InsertGlobal
    <3>2. Queued' = Queued \cup {t} /\ t \notin Queued
      BY <3>1 DEF Queued, TypeOK
    <3> QED  BY <3>1, <3>2, ListsAppend DEF QueueExact
  <2> QED  BY <2>1, <2>2
<1>2. CASE Block
  <2>1. where[cur] = "running" /\ where' = [where EXCEPT ![cur] = "blocked"] /\ fifo' = fifo
    BY <1>2, Constants DEF Block, CpuExact
  <2>2. Queued' = Queued
    BY <2>1 DEF Queued, TypeOK
  <2> QED  BY <1>0, <2>1, <2>2
<1>3. CASE RunHead
  <2> DEFINE h == Head(fifo)
  <2>1. Lists(Tail(fifo), Queued \ {h})
    BY <1>3, RunHeadEffect, ListsTail DEF QueueExact
  <2>2. CASE cur = None
    <3>1. Queued' = Queued \ {h}
      BY <1>3, <2>2, RunHeadEffect, Constants DEF Queued
    <3> QED  BY <1>3, <2>1, <2>2, <3>1, RunHeadEffect DEF QueueExact
  <2>3. CASE cur # None
    <3>1. cur \in Threads /\ cur \notin Queued /\ h # cur
      BY <1>3, <2>3, RunHeadEffect
    <3>2. Queued' = (Queued \ {h}) \cup {cur}
      BY <1>3, <3>1, RunHeadEffect DEF Queued
    <3>3. cur \notin Queued \ {h}
      BY <3>1
    <3>4. fifo' = Append(Tail(fifo), cur)
      BY <1>3, <2>3, RunHeadEffect
    <3> QED  BY <2>1, <3>2, <3>3, <3>4, ListsAppend DEF QueueExact
  <2> QED  BY <2>2, <2>3
<1>4. CASE KeepRunning
  BY <1>0, <1>4 DEF KeepRunning, Queued
<1>5. CASE CheckPassed
  <2>1. Queued' = Queued
    BY <1>5 DEF CheckPassed, Queued, TypeOK
  <2> QED  BY <1>0, <1>5, <2>1 DEF CheckPassed
<1>6. CASE Ejected
  <2>1. fifo' = <<>> /\ Queued' = {}
    BY <1>6 DEF Ejected, Eject, Queued
  <2> QED  BY <2>1, EmptySeq DEF QueueExact, Lists
<1>7. CASE Tick
  BY <1>0, <1>7 DEF Tick, Queued
<1>8. CASE UNCHANGED vars
  BY <1>0, <1>8 DEF vars, Queued
<1> QED  BY <1>1, <1>2, <1>3, <1>4, <1>5, <1>6, <1>7, <1>8, NextCases

(* One task runs at most, for one run of its own at most. *)
LEMMA CpuStep == TypeOK /\ QueueExact /\ CpuExact /\ Placed /\ [Next]_vars => CpuExact'
<1> SUFFICES ASSUME TypeOK, QueueExact, CpuExact, Placed, [Next]_vars  PROVE CpuExact'
  OBVIOUS
<1>0. \A t \in Threads : LongestRun(t)' = LongestRun(t)
  BY DEF LongestRun, Granted
<1> USE DEF CpuExact
<1>1. ASSUME NEW t \in Threads, Woken(t)  PROVE CpuExact'
  BY <1>0, <1>1 DEF Woken, Insert, InsertGlobal, InsertNothing, TypeOK
<1>2. CASE Block
  BY <1>2, Constants DEF Block, TypeOK
<1>3. CASE RunHead
  <2>1. Head(fifo) \in Threads
    BY <1>3, RunHeadEffect DEF Queued
  <2>2. left' <= LongestRun(Head(fifo))
    BY <1>3, <2>1, RunHeadEffect, LongestRunBounds
  <2> QED  BY <1>0, <1>3, <2>1, <2>2, RunHeadEffect, Constants
<1>4. CASE KeepRunning
  BY <1>0, <1>4, LongestRunBounds DEF KeepRunning
<1>5. CASE CheckPassed
  <2>1. CASE attached.partial
    BY <1>0, <1>5, <2>1 DEF CheckPassed
  <2>2. CASE ~attached.partial
    <3>1. where[Worker] = "running" /\ cur = Worker
      BY <1>5, <2>2, Constants DEF CheckPassed, Placed, Scheduled
    <3> QED  BY <1>5, <2>2, <3>1, Constants DEF CheckPassed, TypeOK
  <2> QED  BY <2>1, <2>2
<1>6. CASE Ejected
  BY <1>6, Constants DEF Ejected, Eject
<1>7. CASE Tick
  <2>1. \A t \in Threads : LongestRun(t) \in Nat
    BY LongestRunBounds
  <2> QED  BY <1>0, <1>7, <2>1 DEF Tick, TypeOK
<1>8. CASE UNCHANGED vars
  BY <1>0, <1>8 DEF vars
<1> QED  BY <1>1, <1>2, <1>3, <1>4, <1>5, <1>6, <1>7, <1>8, NextCases

(* Every thread stays where its class puts it. *)
LEMMA PlacedStep == TypeOK /\ QueueExact /\ CpuExact /\ Placed /\ [Next]_vars => Placed'
<1> SUFFICES ASSUME TypeOK, QueueExact, CpuExact, Placed, [Next]_vars  PROVE Placed'
  OBVIOUS
<1> DEFINE Moved(t) ==
           /\ t \in Scheduled /\ scx = "enabled" /\ where'[t] # "fair"
           /\ where'[t] = "queued" => ~attached.drops
           /\ where'[t] = "dropped" => attached.drops
<1>0. ASSUME attached' = attached, scx' = scx,
             \A t \in Threads : where'[t] = where[t] \/ Moved(t)
      PROVE  Placed'
  <2>1. Scheduled' = Scheduled
    BY <1>0 DEF Scheduled
  <2>2. ASSUME NEW t \in Threads \ Scheduled  PROVE where'[t] = "fair"
    BY <1>0, <2>2 DEF Placed
  <2>3. ASSUME scx = "enabled", NEW t \in Scheduled, t \in Threads  PROVE where'[t] # "fair"
    BY <1>0, <2>3 DEF Placed
  <2>4. ASSUME scx = "disabled", NEW t \in Threads  PROVE where'[t] = "fair"
    BY <1>0, <2>4 DEF Placed
  <2>5. ASSUME NEW t \in Threads
        PROVE  /\ where'[t] = "queued" => ~attached.drops
               /\ where'[t] = "dropped" => attached.drops
    BY <1>0 DEF Placed
  <2>6. \A t \in Scheduled : t \in Threads
    BY Constants DEF Scheduled
  <2> QED  BY <1>0, <2>1, <2>2, <2>3, <2>4, <2>5, <2>6 DEF Placed
<1>1. ASSUME NEW t \in Threads, Woken(t)  PROVE Placed'
  <2>1. Moved(t)
    BY <1>1 DEF Woken, Insert, InsertGlobal, InsertNothing, TypeOK, Placed
  <2>2. \A u \in Threads \ {t} : where'[u] = where[u]
    BY <1>1 DEF Woken, Insert, InsertGlobal, InsertNothing, TypeOK
  <2> HIDE DEF Moved
  <2> QED  BY <1>0, <1>1, <2>1, <2>2 DEF Woken
<1>2. CASE Block
  <2>1. cur \in Threads /\ where[cur] = "running" /\ scx = "enabled"
    BY <1>2, Constants DEF Block, CpuExact
  <2>2. Moved(cur)
    BY <1>2, <2>1 DEF Block, TypeOK, Placed
  <2>3. \A u \in Threads \ {cur} : where'[u] = where[u]
    BY <1>2 DEF Block, TypeOK
  <2> HIDE DEF Moved
  <2> QED  BY <1>0, <1>2, <2>2, <2>3 DEF Block
<1>3. CASE RunHead
  <2>1. where[Head(fifo)] = "queued" /\ Head(fifo) \in Threads
    BY <1>3, RunHeadEffect DEF Queued
  <2>2. cur \in Threads => where[cur] = "running"
    BY DEF CpuExact
  <2>3. ~attached.drops /\ attached' = attached /\ scx' = scx /\ scx = "enabled"
    BY <1>3, <2>1, RunHeadEffect DEF RunHead, Placed
  <2>4. \A t \in Threads : where'[t] = IF t = Head(fifo) THEN "running"
                                      ELSE IF t = cur THEN "queued" ELSE where[t]
    BY <1>3, RunHeadEffect
  <2>5. \A t \in Threads : t = Head(fifo) \/ t = cur => Moved(t)
    BY <2>1, <2>2, <2>3, <2>4 DEF Placed
  <2> HIDE DEF Moved
  <2> QED  BY <1>0, <2>3, <2>4, <2>5
<1>4. CASE KeepRunning
  BY <1>0, <1>4 DEF KeepRunning
<1>5. CASE CheckPassed
  <2>1. ~attached.partial => Moved(Worker)
    BY <1>5, Constants DEF CheckPassed, TypeOK, Scheduled
  <2>2. \A t \in Threads : where'[t] = where[t] \/ (~attached.partial /\ t = Worker)
    BY <1>5 DEF CheckPassed, TypeOK
  <2> HIDE DEF Moved
  <2> QED  BY <1>0, <1>5, <2>1, <2>2 DEF CheckPassed
<1>6. CASE Ejected
  <2>1. \A t \in Threads : where'[t] = "fair"
    BY <1>6 DEF Ejected, Eject
  <2>2. scx' = "disabled"
    BY <1>6 DEF Ejected, Eject
  <2> QED  BY <2>1, <2>2 DEF Placed
<1>7. CASE Tick
  BY <1>0, <1>7 DEF Tick
<1>8. CASE UNCHANGED vars
  BY <1>0, <1>8 DEF vars
<1> QED  BY <1>1, <1>2, <1>3, <1>4, <1>5, <1>6, <1>7, <1>8, NextCases
-----------------------------------------------------------------------------
(* The threads behind t, when a thread is queued, and when the head of the *)
(* queue leaves it.                                                        *)
LEMMA BehindAppend ==
    ASSUME TypeOK, QueueExact, NEW a \in Threads \ Queued, fifo' = Append(fifo, a),
           attached' = attached
    PROVE  /\ \A t \in Queued : Behind(t)' = Behind(t)
           /\ Behind(a)' = (Scheduled \ {a}) \ Queued
<1>1. \A u, t : Precedes(fifo', u, t) <=> Precedes(fifo, u, t) \/ (t = a /\ u \in Queued)
  BY ListsAppend DEF QueueExact
<1>2. \A u : ~Precedes(fifo, u, a)
  <2>1. \A i \in 1..Len(fifo) : fifo[i] \in Queued
    BY ElementOfSeq DEF QueueExact, Lists
  <2> QED  BY <2>1 DEF Precedes
<1>3. Scheduled' = Scheduled
  BY DEF Scheduled
<1>4. \A t \in Queued : t # a /\ t \in Threads
  BY DEF Queued
<1>5. ASSUME NEW t \in Queued  PROVE Behind(t)' = Behind(t)
  BY <1>1, <1>3, <1>4 DEF Behind
<1>6. Behind(a)' = (Scheduled \ {a}) \ Queued
  BY <1>1, <1>2, <1>3 DEF Behind, Queued
<1> QED  BY <1>5, <1>6

LEMMA BehindTail ==
    ASSUME TypeOK, QueueExact, fifo # <<>>, fifo' = Tail(fifo), attached' = attached,
           Head(fifo) \in Scheduled
    PROVE  \A t \in Queued \ {Head(fifo)} :
              Behind(t)' = Behind(t) \cup {Head(fifo)} /\ Head(fifo) \notin Behind(t)
<1> DEFINE h == Head(fifo)
<1>1. /\ h \in Queued
      /\ \A u, t : Precedes(fifo', u, t) <=> Precedes(fifo, u, t) /\ u # h
      /\ \A t \in Queued \ {h} : Precedes(fifo, h, t)
  BY ListsTail DEF QueueExact
<1>2. Scheduled' = Scheduled
  BY DEF Scheduled
<1> HIDE DEF h
<1>3. ASSUME NEW t \in Queued \ {h}  PROVE Behind(t)' = Behind(t) \cup {h} /\ h \notin Behind(t)
  <2>1. h \in Threads /\ h \in Scheduled
    BY <1>1 DEF Queued, h
  <2> QED  BY <1>1, <1>2, <2>1 DEF Behind
<1> QED  BY <1>3 DEF h

(* The sums are over sets of threads. *)
LEMMA BehindType == \A t : Behind(t) \in SUBSET Threads /\ Scheduled \in SUBSET Threads
  BY Constants DEF Behind, Scheduled

(* The sum is not less than the longest run of any of the threads. *)
LEMMA TotalOne ==
    ASSUME NEW S \in SUBSET Threads, NEW t \in S
    PROVE  Total(S) >= LongestRun(t) /\ LongestRun(t) \in Nat
<1>1. S \ {t} \in SUBSET Threads /\ LongestRun(t) \in Nat
  BY LongestRunBounds
<1>2. Total(S \ {t}) \in Nat /\ Total(S) = LongestRun(t) + Total(S \ {t})
  BY <1>1, TotalSplit, TotalType
<1> QED  BY <1>1, <1>2

(* No action makes a queued task wait for more than one run of every other *)
(* task: whoever runs now is behind it.                                    *)
LEMMA ServedStep ==
    TypeOK /\ QueueExact /\ CpuExact /\ Placed /\ Served /\ [Next]_vars => Served'
<1> SUFFICES ASSUME TypeOK, QueueExact, CpuExact, Placed, Served, [Next]_vars  PROVE Served'
  OBVIOUS
<1>q. QueueExact'
  BY QueueStep
<1>a. \A t \in Threads : age[t] \in Nat /\ left \in Nat /\ Total(Behind(t)) \in Nat
  BY BehindType, TotalType DEF TypeOK
<1>r. cur # None => /\ cur \in Scheduled /\ cur \in Threads /\ cur \notin Queued
                   /\ left <= LongestRun(cur)
  BY DEF TypeOK, CpuExact, Placed, Queued
<1>s. \A t \in Queued : t \in Threads /\ age[t] + left <= Total(Behind(t))
  BY DEF Served, Queued
<1>0. ASSUME fifo' = fifo, Queued' = Queued, attached' = attached,
             \A t \in Queued : age'[t] + left' <= age[t] + left
      PROVE  Served'
  <2> SUFFICES ASSUME NEW t \in Queued  PROVE age'[t] + left' <= Total(Behind(t))'
    BY <1>0 DEF Served, Queued
  <2>1. Behind(t)' = Behind(t)
    BY <1>0 DEF Behind, Scheduled
  <2>2. TypeOK'
    BY TypeStep
  <2>3. age'[t] \in Nat /\ left' \in Nat
    BY <1>s, <2>2 DEF TypeOK
  <2> QED  BY <1>0, <1>a, <1>s, <2>1, <2>3
<1>1. ASSUME NEW a \in Threads, Woken(a)  PROVE Served'
  <2>1. where[a] = "blocked" /\ attached' = attached /\ left' = left /\ age' = [age EXCEPT ![a] = 0]
    BY <1>1 DEF Woken
  <2>2. CASE attached.drops
    <3>1. fifo' = fifo /\ where' = [where EXCEPT ![a] = "dropped"]
      BY <1>1, <2>2 DEF Woken, Insert, InsertNothing
    <3>2. Queued' = Queued
      BY <2>1, <3>1 DEF Queued, TypeOK
    <3>3. \A t \in Queued : age'[t] = age[t]
      BY <2>1 DEF Queued, TypeOK
    <3>4. \A t \in Queued : age'[t] + left' <= age[t] + left
      BY <1>a, <1>s, <2>1, <3>3
    <3> QED  BY <1>0, <2>1, <3>1, <3>2, <3>4
  <2>3. CASE ~attached.drops
    <3>1. fifo' = Append(fifo, a) /\ where' = [where EXCEPT ![a] = "queued"]
      BY <1>1, <2>3 DEF Woken, Insert, InsertGlobal
    <3>2. Queued' = Queued \cup {a} /\ a \notin Queued
      BY <2>1, <3>1 DEF Queued, TypeOK
    <3>3. /\ \A t \in Queued : Behind(t)' = Behind(t)
          /\ Behind(a)' = (Scheduled \ {a}) \ Queued
      BY <2>1, <3>1, <3>2, BehindAppend
    <3>4. ASSUME NEW t \in Queued  PROVE age'[t] + left' <= Total(Behind(t))'
      <4>1. age'[t] = age[t]
        BY <2>1, <3>2 DEF Queued, TypeOK
      <4> QED  BY <1>s, <2>1, <3>3, <4>1
    <3>5. age'[a] + left' <= Total(Behind(a))'
      <4>1. age'[a] = 0
        BY <2>1 DEF TypeOK
      <4>2. Behind(a)' \in SUBSET Threads
        BY <3>3, BehindType
      <4>3. left <= Total(Behind(a)')
        <5>1. CASE cur = None
          BY <4>2, <5>1, TotalType DEF CpuExact
        <5>2. CASE cur # None
          <6>1. cur # a
            BY <1>1, <5>2 DEF Woken, CpuExact
          <6>2. cur \in Behind(a)'
            BY <1>r, <3>3, <5>2, <6>1
          <6> QED  BY <1>a, <1>r, <4>2, <5>2, <6>2, TotalOne, TotalType
        <5> QED  BY <5>1, <5>2
      <4> QED  BY <1>a, <2>1, <4>1, <4>3
    <3>6. \A t \in Threads : where'[t] = "queued" => t \in Queued \/ t = a
      BY <3>1 DEF Queued, TypeOK
    <3> QED  BY <3>4, <3>5, <3>6 DEF Served
  <2> QED  BY <2>2, <2>3
<1>2. CASE Block
  <2>1. where[cur] = "running" /\ where' = [where EXCEPT ![cur] = "blocked"]
    BY <1>2, Constants DEF Block, CpuExact
  <2>2. Queued' = Queued
    BY <2>1 DEF Queued, TypeOK
  <2>3. left' = 0 /\ age' = age
    BY <1>2 DEF Block
  <2> QED  BY <1>0, <1>2, <1>a, <1>s, <2>2, <2>3 DEF Block
<1>3. CASE RunHead
  <2> DEFINE h == Head(fifo)
  <2>1. /\ h \in Queued /\ h \in Threads /\ h \in Scheduled /\ h # cur /\ fifo # <<>>
        /\ left = 0 /\ left' = Granted(h) /\ attached' = attached
        /\ cur \in Threads \cup {None}
    BY <1>3, RunHeadEffect, Constants DEF Queued, Placed
  <2>2. /\ \A t \in Threads : where'[t] = "queued" =>
                 (t \in Queued /\ t # h /\ t # cur) \/ (t = cur /\ cur # None)
        /\ \A t \in Threads : age'[t] = IF t = cur THEN 0 ELSE age[t]
    BY <1>3, RunHeadEffect, Constants DEF Queued
  <2>3. LongestRun(h) \in Nat /\ Granted(h) \in Nat /\ Granted(h) <= LongestRun(h)
    BY <2>1, LongestRunBounds
  <2>4. /\ \A u, t : Precedes(fifo', u, t) <=> \/ Precedes(fifo, u, t) /\ u # h
                                               \/ t = cur /\ cur # None /\ u \in Queued \ {h}
        /\ \A t \in Queued \ {h} : Precedes(fifo, h, t)
        /\ \A u, t : Precedes(fifo, u, t) => u \in Queued /\ t \in Queued
    BY <1>3, RunHeadOrder
  <2>5. Scheduled' = Scheduled
    BY <2>1 DEF Scheduled
  <2> HIDE DEF h
  <2>7. ASSUME NEW t \in Queued, t # h, t # cur  PROVE age'[t] + left' <= Total(Behind(t))'
    <3>1. Behind(t)' = Behind(t) \cup {h} /\ h \notin Behind(t)
      BY <2>1, <2>4, <2>5, <2>7 DEF Behind
    <3>2. /\ Behind(t) \cup {h} \in SUBSET Threads /\ h \in Behind(t) \cup {h}
          /\ (Behind(t) \cup {h}) \ {h} = Behind(t)
      BY <2>1, <3>1, BehindType
    <3>3. Total(Behind(t) \cup {h}) = LongestRun(h) + Total(Behind(t))
      BY <3>2, TotalSplit
    <3>4. age'[t] = age[t]
      BY <1>s, <2>2, <2>7
    <3>5. age[t] \in Nat /\ Total(Behind(t)) \in Nat /\ age[t] + 0 <= Total(Behind(t))
      BY <1>a, <1>s, <2>1
    <3>6. age[t] + Granted(h) <= Total(Behind(t) \cup {h})
      BY <2>3, <3>3, <3>5
    <3> QED  BY <2>1, <3>1, <3>4, <3>6
  <2>8. ASSUME NEW c \in Threads, c = cur  PROVE age'[c] + left' <= Total(Behind(c))'
    <3>4. h \in Behind(c)'
      <4>1. c \notin Queued
        BY <1>3, <2>8, RunHeadEffect
      <4>2. ~Precedes(fifo', h, c)
        BY <2>4, <4>1
      <4> QED  BY <2>1, <2>5, <2>8, <4>2 DEF Behind
    <3>5. Behind(c)' \in SUBSET Threads
      BY <2>5, Constants DEF Behind, Scheduled
    <3>6. Granted(h) <= Total(Behind(c)')
      BY <2>3, <3>4, <3>5, TotalOne, TotalType
    <3>7. age'[c] = 0
      BY <2>2, <2>8
    <3> QED  BY <2>1, <2>3, <3>6, <3>7
  <2>9. ASSUME NEW t \in Threads, where'[t] = "queued"
        PROVE  age'[t] + left' <= Total(Behind(t))'
    BY <2>2, <2>7, <2>8, <2>9
  <2> QED  BY <2>9 DEF Served
<1>4. CASE KeepRunning
  <2>1. Queued = {} /\ where' = where
    <3>1. \A t \in Queued : \E i \in 1..Len(<<>>) : <<>>[i] = t
      BY <1>4 DEF KeepRunning, QueueExact, Lists
    <3>2. Len(<<>>) = 0
      BY EmptySeq
    <3> QED  BY <1>4, <3>1, <3>2 DEF KeepRunning
  <2>2. \A t \in Threads : where'[t] # "queued"
    BY <2>1 DEF Queued
  <2> QED  BY <2>2 DEF Served
<1>5. CASE CheckPassed
  <2>1. Queued' = Queued
    BY <1>5 DEF CheckPassed, Queued, TypeOK
  <2>2. left' \in {left, 0} /\ age' = age /\ fifo' = fifo /\ attached' = attached
    BY <1>5 DEF CheckPassed
  <2> QED  BY <1>0, <1>a, <1>s, <2>1, <2>2
<1>6. CASE Ejected
  BY <1>6 DEF Ejected, Eject, Served
<1>7. CASE Tick
  <2>1. ASSUME NEW t \in Queued  PROVE left > 0 /\ cur # None
    <3>1. fifo # <<>>
      <4>1. PICK i \in 1..Len(fifo) : fifo[i] = t
        BY DEF QueueExact, Lists
      <4> QED  BY <4>1, EmptySeq
    <3> QED  BY <1>7, <3>1 DEF Tick, Settled
  <2>2. ASSUME NEW t \in Queued  PROVE age'[t] + left' <= age[t] + left
    <3>1. age'[t] = age[t] + 1
      BY <1>7, <1>s DEF Tick, Waiting, Queued
    <3>2. left' = left - 1
      BY <1>7, <2>1 DEF Tick
    <3> QED  BY <1>a, <1>s, <3>1, <3>2
  <2>3. Queued' = Queued
    BY <1>7 DEF Tick, Queued
  <2> QED  BY <1>0, <1>7, <2>2, <2>3 DEF Tick
<1>8. CASE UNCHANGED vars
  <2>1. Queued' = Queued
    BY <1>8 DEF vars, Queued
  <2> QED  BY <1>0, <1>8, <1>a, <1>s, <2>1 DEF vars
<1> QED  BY <1>1, <1>2, <1>3, <1>4, <1>5, <1>6, <1>7, <1>8, NextCases
-----------------------------------------------------------------------------
(* The bound of WaitBound is what is left when the sum over the threads    *)
(* that are not before t is extended to all others.                        *)
LEMMA ServedBound == TypeOK /\ Served => WaitBound
<1> SUFFICES ASSUME TypeOK, Served, NEW t \in Threads, where[t] = "queued"
             PROVE  age[t] <= Rest(t)
  BY DEF WaitBound
<1>1. age[t] + left <= Total(Behind(t)) /\ age[t] \in Nat /\ left \in Nat
  BY DEF Served, TypeOK
<1>2. Scheduled \ {t} \in SUBSET Threads /\ Behind(t) \in SUBSET (Scheduled \ {t})
  BY BehindType DEF Behind
<1>3. Total(Behind(t)) <= Total(Scheduled \ {t})
  BY <1>2, TotalGrows
<1>4. Total(Behind(t)) \in Nat /\ Total(Scheduled \ {t}) \in Nat
  BY <1>2, BehindType, TotalType
<1>5. Rest(t) = Total(Scheduled \ {t})
  BY DEF Rest, Total
<1> QED  BY <1>1, <1>3, <1>4, <1>5

(* The bound of a thread's wait is a natural, and depends on the mode only. *)
LEMMA RestType ==
    /\ \A t : Rest(t) \in Nat
    /\ attached' = attached => \A t : Rest(t)' = Rest(t)
<1>1. \A t : Scheduled \ {t} \in SUBSET Threads
  BY BehindType
<1>2. \A t : Rest(t) = Total(Scheduled \ {t})
  BY DEF Rest, Total
<1>3. ASSUME attached' = attached, NEW t  PROVE Rest(t)' = Rest(t)
  <2>1. Scheduled' = Scheduled
    BY <1>3 DEF Scheduled
  <2> QED  BY <2>1 DEF Rest
<1> QED  BY <1>1, <1>2, <1>3, TotalType

(* In partial mode the watchdog's thread stays in the fair class. *)
LEMMA WorkerApart == Placed /\ attached.partial => where[Worker] = "fair"
<1> SUFFICES ASSUME Placed, attached.partial  PROVE where[Worker] = "fair"
  OBVIOUS
<1>1. Worker \in Threads \ Scheduled
  BY Constants, ModeAssumption DEF Scheduled
<1> QED  BY <1>1 DEF Placed

(* Time passes only while the check is not due or waits its turn. *)
LEMMA ChecksStep ==
    /\ TypeOK /\ QueueExact /\ CpuExact /\ Placed /\ Served /\ Checks
    /\ [Next]_vars
    => Checks'
<1> SUFFICES ASSUME TypeOK, QueueExact, CpuExact, Placed, Served, Checks, [Next]_vars
             PROVE  Checks'
  OBVIOUS
<1>a. /\ checked \in Nat /\ left \in Nat /\ age[Worker] \in Nat
      /\ Rest(Worker) \in Nat /\ TypeOK'
  BY RestType, TypeStep, Constants DEF TypeOK
<1>w. where[Worker] = "queued" => age[Worker] <= Rest(Worker)
  BY ServedBound, Constants DEF WaitBound
<1>0. ASSUME attached' = attached, checked' = checked, left' = left \/ left' > 0,
             where'[Worker] = where[Worker],
             where[Worker] = "queued" => age'[Worker] = age[Worker]
      PROVE  Checks'
  BY <1>0, <1>a, RestType DEF Checks
<1>1. ASSUME NEW t \in Threads, Woken(t)  PROVE Checks'
  <2>1. /\ UNCHANGED <<attached, left, checked>> /\ where[t] = "blocked"
        /\ age' = [age EXCEPT ![t] = 0] /\ (t = Worker => CheckDue)
    BY <1>1 DEF Woken
  <2>2. CASE t # Worker
    <3>1. where'[Worker] = where[Worker] /\ age'[Worker] = age[Worker]
      BY <1>1, <2>1, <2>2, Constants DEF Insert, InsertGlobal, InsertNothing, Woken, TypeOK
    <3> QED  BY <1>0, <2>1, <3>1
  <2>3. CASE t = Worker
    <3>1. where'[Worker] \in {"queued", "dropped"} /\ age'[Worker] = 0
      BY <1>1, <2>1, <2>3 DEF Insert, InsertGlobal, InsertNothing, Woken, TypeOK
    <3>2. attached.partial => where[Worker] = "fair"
      BY WorkerApart
    <3>3. checked = Period
      BY <1>a, <2>1, <2>3, Constants DEF Checks, CheckDue
    <3> QED  BY <1>a, <2>1, <2>3, <3>1, <3>2, <3>3, Constants DEF Checks
  <2> QED  BY <2>2, <2>3
<1>2. CASE Block
  <2>1. cur # Worker /\ cur \in Threads /\ where[cur] = "running"
    BY <1>2, Constants, ModeAssumption DEF Block, CpuExact
  <2>2. where[Worker] # "running" /\ where'[Worker] = where[Worker]
    BY <1>2, <2>1, Constants DEF Block, CpuExact, TypeOK
  <2>3. UNCHANGED <<attached, checked, age>>
    BY <1>2 DEF Block
  <2> QED  BY <2>2, <2>3, RestType DEF Checks
<1>3. CASE RunHead
  <2> DEFINE h == Head(fifo)
  <2>1. /\ h \in Threads /\ where[h] = "queued" /\ left = 0 /\ left' = Granted(h)
        /\ UNCHANGED <<attached, checked>>
    BY <1>3, RunHeadEffect DEF Queued
  <2>2. Granted(h) \in Nat \ {0}
    BY <2>1, LongestRunBounds
  <2>3. /\ where'[Worker] = IF Worker = h THEN "running"
                            ELSE IF Worker = cur THEN "queued" ELSE where[Worker]
        /\ age'[Worker] = IF Worker = cur THEN 0 ELSE age[Worker]
    BY <1>3, RunHeadEffect, Constants
  <2> HIDE DEF h
  <2>4. cur # Worker
    BY <1>a, <2>1, Constants DEF Checks, CpuExact
  <2>5. CASE Worker = h
    <3>1. Period <= checked /\ checked <= Period + Rest(Worker)
      BY <1>a, <1>w, <2>1, <2>5, Constants DEF Checks
    <3>2. left' > 0
      BY <2>1, <2>2
    <3>3. attached.partial => where[Worker] = "fair"
      BY WorkerApart
    <3> QED  BY <1>a, <2>1, <2>3, <2>5, <3>1, <3>2, <3>3, RestType DEF Checks
  <2>6. CASE Worker # h
    BY <1>0, <2>1, <2>2, <2>3, <2>4, <2>6
  <2> QED  BY <2>5, <2>6
<1>4. CASE KeepRunning
  BY <1>0, <1>4, Constants DEF KeepRunning
<1>5. CASE CheckPassed
  <2>1. CASE attached.partial
    <3>1. where'[Worker] = "fair" /\ checked' = 0 /\ attached' = attached
      BY <1>5, <2>1, WorkerApart DEF CheckPassed
    <3> QED  BY <3>1, Constants DEF Checks
  <2>2. CASE ~attached.partial
    <3>1. where'[Worker] = "blocked" /\ checked' = 0
      BY <1>5, <2>2, Constants DEF CheckPassed, TypeOK
    <3> QED  BY <3>1, Constants DEF Checks
  <2> QED  BY <2>1, <2>2
<1>6. CASE Ejected
  <2>1. where'[Worker] = "fair" /\ checked' = 0
    BY <1>6, Constants DEF Ejected, Eject
  <2> QED  BY <2>1, Constants DEF Checks
<1>7. CASE Tick
  <2>1. /\ checked' = checked + 1 /\ where' = where /\ attached' = attached
        /\ checked <= Timeout
        /\ checked >= Period => Waiting(Worker)
    BY <1>7 DEF Tick, Settled, CheckDue
  <2>2. where[Worker] = "queued" => age'[Worker] = age[Worker] + 1
    BY <1>7, Constants DEF Tick, Waiting
  <2>3. attached.partial => where[Worker] = "fair"
    BY WorkerApart
  <2>4. where[Worker] # "running"
    BY <2>1 DEF Checks, Waiting
  <2> QED  BY <1>a, <2>1, <2>2, <2>3, <2>4, Constants DEF Checks, Waiting
<1>8. CASE UNCHANGED vars
  BY <1>0, <1>8 DEF vars
<1> QED  BY <1>1, <1>2, <1>3, <1>4, <1>5, <1>6, <1>7, <1>8, NextCases

(* A wait is never longer than the timeout was at the last check. *)
LEMMA AgedStep ==
    TypeOK /\ QueueExact /\ CpuExact /\ Placed /\ Aged /\ [Next]_vars => Aged'
<1> SUFFICES ASSUME TypeOK, QueueExact, CpuExact, Placed, Aged, [Next]_vars  PROVE Aged'
  OBVIOUS
<1>a. checked \in Nat /\ (\A t \in Threads : age[t] \in Nat) /\ TypeOK'
  BY TypeStep DEF TypeOK
<1>b. checked' \in Nat
  BY <1>a DEF TypeOK
<1>0. ASSUME attached' = attached, checked' = checked,
             where'[Worker] = "running" => where[Worker] = "running",
             \A t \in Threads : Waiting(t)' =>
                 age'[t] = 0 \/ (Waiting(t) /\ age'[t] = age[t])
      PROVE  Aged'
  BY <1>0, <1>a, <1>b, Constants DEF Aged
<1>1. ASSUME NEW t \in Threads, Woken(t)  PROVE Aged'
  <2>1. /\ age' = [age EXCEPT ![t] = 0] /\ UNCHANGED <<attached, checked>>
        /\ where'[t] # "running" /\ \A u \in Threads \ {t} : where'[u] = where[u]
    BY <1>1 DEF Woken, Insert, InsertGlobal, InsertNothing, TypeOK
  <2>2. age'[t] = 0 /\ \A u \in Threads \ {t} : age'[u] = age[u]
    BY <2>1 DEF TypeOK
  <2> QED  BY <1>0, <2>1, <2>2, Constants DEF Waiting
<1>2. CASE Block
  <2>1. /\ cur \in Threads /\ UNCHANGED <<attached, checked, age>>
        /\ where' = [where EXCEPT ![cur] = "blocked"]
    BY <1>2, Constants DEF Block
  <2> QED  BY <1>0, <2>1, Constants DEF Waiting, TypeOK
<1>3. CASE RunHead
  <2>1. /\ where[Head(fifo)] = "queued" /\ Head(fifo) \in Threads
        /\ attached' = attached /\ checked' = checked
    BY <1>3, RunHeadEffect DEF Queued
  <2>2. ~attached.drops
    BY <2>1 DEF Placed
  <2>3. ASSUME NEW t \in Threads, Waiting(t)'
        PROVE  age'[t] = 0 \/ (Waiting(t) /\ age'[t] = age[t])
    <3>1. where'[t] = IF t = Head(fifo) THEN "running"
                      ELSE IF t = cur THEN "queued" ELSE where[t]
      BY <1>3, RunHeadEffect
    <3>2. age'[t] = IF t = cur THEN 0 ELSE age[t]
      BY <1>3, RunHeadEffect
    <3>3. t # Head(fifo)
      BY <2>3, <3>1 DEF Waiting
    <3> QED  BY <2>3, <3>1, <3>2, <3>3 DEF Waiting
  <2> QED  BY <1>a, <1>b, <2>1, <2>2, <2>3, Constants DEF Aged
<1>4. CASE KeepRunning
  BY <1>0, <1>4 DEF KeepRunning, Waiting
<1>5. CASE CheckPassed
  <2>1. /\ checked' = 0 /\ age' = age /\ attached' = attached /\ scx = "enabled"
        /\ where[Worker] \in {"fair", "running"}
        /\ \A t \in Threads : Waiting(t) => age[t] <= Timeout
    BY <1>5, <1>a, Constants DEF CheckPassed, Stalled
  <2>2. \A t \in Threads : Waiting(t)' => Waiting(t)
    BY <1>5, Constants DEF CheckPassed, Waiting, TypeOK
  <2>3. ~(attached.drops /\ ~attached.partial)
    BY <2>1, Constants DEF Aged, Placed, Scheduled
  <2> QED  BY <2>1, <2>2, <2>3, Constants DEF Aged
<1>6. CASE Ejected
  BY <1>6, Constants DEF Ejected, Eject, Aged, Waiting
<1>7. CASE Tick
  <2>1. /\ checked' = checked + 1 /\ where' = where /\ attached' = attached
        /\ \A t \in Threads : Waiting(t) => age'[t] = age[t] + 1
    BY <1>7 DEF Tick
  <2> QED  BY <1>a, <2>1, Constants DEF Aged, Waiting
<1>8. CASE UNCHANGED vars
  BY <1>0, <1>8 DEF vars, Waiting
<1> QED  BY <1>1, <1>2, <1>3, <1>4, <1>5, <1>6, <1>7, <1>8, NextCases
-----------------------------------------------------------------------------
(* The invariant holds when the scheduler is attached. *)
LEMMA InitIInv == Init => IInv
<1> SUFFICES ASSUME Init  PROVE IInv
  OBVIOUS
<1>1. /\ fifo = <<>> /\ cur \in Tasks \cup {None} /\ checked = 0 /\ scx = "enabled"
      /\ left = IF cur = None THEN 0 ELSE DefaultSlice
      /\ age = [t \in Threads |-> 0] /\ attached \in Attachments
      /\ where \in [Threads -> {"fair", "running", "blocked"}]
      /\ \A t \in Threads : where[t] = IF t \notin Scheduled THEN "fair"
                                        ELSE IF t = cur THEN "running" ELSE "blocked"
  BY DEF Init
<1>2. Tasks \subseteq Scheduled /\ (~attached.partial => Worker \in Scheduled)
  BY Constants DEF Scheduled
<1>3. TypeOK
  BY <1>1, Constants, EmptySeq DEF TypeOK, Places
<1>4. QueueExact
  <2>1. Queued = {}
    BY <1>1 DEF Queued
  <2> QED  BY <1>1, <2>1, EmptySeq DEF QueueExact, Lists
<1>5. CpuExact
  <2>1. cur # None => cur \in Threads /\ left <= LongestRun(cur)
    BY <1>1, Constants, LongestRunBounds
  <2>2. \A t \in Threads : where[t] = "running" <=> cur = t
    BY <1>1, <1>2, Constants
  <2> QED  BY <1>1, <2>1, <2>2, Constants DEF CpuExact
<1>6. Placed
  <2>1. \A t \in Threads : where[t] \in {"fair", "running", "blocked"}
    BY <1>1
  <2>2. \A t \in Scheduled : t \in Threads /\ where[t] # "fair"
    BY <1>1, BehindType
  <2>3. \A t \in Threads \ Scheduled : where[t] = "fair"
    BY <1>1
  <2> QED  BY <1>1, <2>1, <2>2, <2>3 DEF Placed
<1>7. Served
  BY <1>1 DEF Served
<1>8. Checks
  <2>1. where[Worker] # "running" /\ where[Worker] # "queued"
    BY <1>1, Constants, ModeAssumption
  <2> QED  BY <1>1, <2>1, Constants DEF Checks
<1>9. Aged
  <2>1. where[Worker] # "running"
    BY <1>1, Constants, ModeAssumption
  <2> QED  BY <1>1, <2>1, Constants DEF Aged, Waiting
<1> QED  BY <1>3, <1>4, <1>5, <1>6, <1>7, <1>8, <1>9 DEF IInv

(* The invariant is inductive. *)
LEMMA StepIInv == IInv /\ [Next]_vars => IInv'
  BY TypeStep, QueueStep, CpuStep, PlacedStep, ServedStep, ChecksStep, AgedStep DEF IInv

(* The invariant, which the theorems below are read off. *)
THEOREM Invariance == Spec => []IInv
<1>1. Init => IInv
  BY InitIInv
<1>2. IInv /\ [Next]_vars => IInv'
  BY StepIInv
<1> QED  BY <1>1, <1>2, PTL DEF Spec

(* Type correctness, for any tasks, slices and timeout. *)
THEOREM TypeCorrect == Spec => []TypeOK
<1>1. IInv => TypeOK
  BY DEF IInv
<1> QED  BY <1>1, Invariance, PTL

(* A queued task waits for one run of every other task at most, whatever   *)
(* the slices and however many tasks there are.                            *)
THEOREM WaitIsBounded == Spec => []WaitBound
<1>1. IInv => WaitBound
  BY ServedBound DEF IInv
<1> QED  BY <1>1, Invariance, PTL

(* A stall is noticed within the time that Latest gives for each mode.     *)
THEOREM StallsAreNoticed == Spec => []StallNoticed
<1>1. IInv => StallNoticed
  <2> SUFFICES ASSUME IInv, NEW t \in Threads, Waiting(t)  PROVE age[t] <= Latest
    BY DEF StallNoticed
  <2>1. /\ age[t] \in Nat /\ checked \in Nat /\ age[t] <= Timeout + checked
        /\ checked <= Timeout + 1
        /\ attached.partial => checked <= Period
        /\ attached.drops /\ ~attached.partial => age[t] <= checked
    BY DEF IInv, TypeOK, Aged, Checks
  <2> QED  BY <2>1, Constants DEF Latest
<1> QED  BY <1>1, Invariance, PTL

(* When the slices fit the timeout, neither the check nor the tick finds a *)
(* reason to eject the scheduler.                                          *)
LEMMA NoReason == IInv /\ Fits => ~Ejected
<1> SUFFICES ASSUME IInv, Fits, Ejected  PROVE FALSE
  OBVIOUS
<1>1. /\ checked \in Nat /\ \A t \in Threads : age[t] \in Nat
      /\ WaitBound /\ Placed /\ Checks
  BY ServedBound DEF IInv, TypeOK
<1>2. \A t \in Threads : where[t] = "queued" => age[t] <= Rest(t) /\ Rest(t) \in Nat
  BY <1>1, RestType DEF WaitBound
<1>3. \A t \in Tasks : Rest(t) <= Timeout
  BY DEF Fits
<1>4. \A t \in Threads : Waiting(t) => where[t] = "queued"
  BY <1>1 DEF Waiting, Placed, Fits
<1>5. CASE checked > Timeout
  <2>1. CASE attached.partial
    BY <1>1, <1>5, <2>1, Constants DEF Checks
  <2>2. CASE ~attached.partial
    <3>1. Period + Rest(Worker) <= Timeout /\ Rest(Worker) \in Nat
      BY <2>2, RestType DEF Fits
    <3>2. where[Worker] \in {"blocked", "queued", "running"}
      <4>1. where[Worker] \in Places /\ Worker \in Scheduled
        BY <2>2, Constants DEF IInv, TypeOK, Scheduled
      <4>2. where[Worker] # "fair"
        BY <1>1, <4>1 DEF Placed, Ejected
      <4>3. where[Worker] # "dropped"
        BY <1>4, Constants DEF Waiting
      <4> QED  BY <4>1, <4>2, <4>3 DEF Places
    <3> QED  BY <1>1, <1>2, <1>5, <3>1, <3>2, Constants DEF Checks
  <2> QED  BY <2>1, <2>2
<1>6. CASE where[Worker] \in {"fair", "running"} /\ \E t \in Threads : Stalled(t)
  <2>1. PICK t \in Threads : Waiting(t) /\ age[t] > Timeout
    BY <1>6 DEF Stalled
  <2>2. t # Worker
    BY <1>6, <2>1 DEF Waiting
  <2>3. t \in Tasks /\ where[t] = "queued"
    BY <1>4, <2>1, <2>2, Constants
  <2> QED  BY <1>1, <1>2, <1>3, <2>1, <2>3, Constants
<1> QED  BY <1>5, <1>6 DEF Ejected

(* The watchdog never ejects a scheduler whose slices fit the timeout.     *)
THEOREM NoFalseAlarm == Spec => []NoFalseStall
<1>1. Init => NoFalseStall
  BY DEF Init, NoFalseStall
<1>2. IInv /\ NoFalseStall /\ [Next]_vars => NoFalseStall'
  <2> SUFFICES ASSUME IInv, NoFalseStall, [Next]_vars, Fits'  PROVE scx' = "enabled"
    BY DEF NoFalseStall
  <2>1. attached' = attached /\ (scx' = scx \/ Ejected)
    BY NextCases DEF Woken, Block, RunHead, KeepRunning, CheckPassed, Ejected, Eject, Tick, vars
  <2>2. \A t : Rest(t)' = Rest(t)
    BY <2>1, RestType
  <2>3. Fits
    BY <2>1, <2>2 DEF Fits
  <2>4. ~Ejected
    BY <2>3, NoReason
  <2> QED  BY <2>1, <2>3, <2>4 DEF NoFalseStall
<1> QED  BY <1>1, <1>2, Invariance, PTL DEF Spec
-----------------------------------------------------------------------------
(* One run of each racer, weighted by the other's slice, and the product   *)
(* of the slices, which is what the race is worth to each in one round.    *)
RunA == LongestRun(RaceA) * Slice[RaceB]
RunB == LongestRun(RaceB) * Slice[RaceA]
Round == Slice[RaceA] * Slice[RaceB]

(* How far A may be ahead or behind depends on whose turn it is.  Who runs *)
(* is counted as if its slice were used up already; before its turn a      *)
(* racer is behind by one round more than after it.                        *)
Share ==
    /\ lag \in Int
    /\ ~Competing => lag = 0
    /\ Competing /\ cur = RaceA =>
           /\ -RunB <= lag
           /\ Round - RunB <= lag + left * Slice[RaceB] /\ lag + left * Slice[RaceB] <= RunA
    /\ Competing /\ cur = RaceB =>
           /\ lag <= RunA
           /\ -RunB <= lag - left * Slice[RaceA] /\ lag - left * Slice[RaceA] <= RunA - Round
    /\ Competing /\ cur \notin {RaceA, RaceB} /\ Precedes(fifo, RaceA, RaceB) =>
           -RunB <= lag /\ lag <= RunA - Round
    /\ Competing /\ cur \notin {RaceA, RaceB} /\ Precedes(fifo, RaceB, RaceA) =>
           Round - RunB <= lag /\ lag <= RunA

(* The racers' slices, as RunA and RunB weigh them. *)
LEMMA Racers ==
    ASSUME RacersAssumption
    PROVE  /\ RaceA \in Threads /\ RaceB \in Threads /\ RaceA # RaceB
           /\ RaceA # Worker /\ RaceB # Worker
           /\ Slice[RaceA] \in Nat \ {0} /\ Slice[RaceB] \in Nat \ {0}
           /\ Granted(RaceA) = Slice[RaceA] /\ Granted(RaceB) = Slice[RaceB]
           /\ RunA \in Nat /\ RunB \in Nat /\ Round \in Nat
           /\ Round <= RunA /\ Round <= RunB
<1>1. /\ RaceA \in Threads /\ RaceB \in Threads /\ RaceA # RaceB
      /\ RaceA # Worker /\ RaceB # Worker
  BY Constants, ModeAssumption DEF RacersAssumption
<1>2. \A l, m, n \in Nat : l <= m => l * n \in Nat /\ m * n \in Nat /\ l * n <= m * n
  OBVIOUS
<1>3. \A m, n \in Nat : m * n = n * m
  OBVIOUS
<1>4. \A t \in {RaceA, RaceB} :
          /\ Slice[t] \in Nat \ {0} /\ Granted(t) = Slice[t]
          /\ LongestRun(t) \in Nat /\ Slice[t] <= LongestRun(t)
  BY <1>1, LongestRunBounds
<1>5. RunA \in Nat /\ Round \in Nat /\ Round <= RunA
  BY <1>2, <1>4 DEF RunA, Round
<1>6. RunB \in Nat /\ Slice[RaceB] * Slice[RaceA] <= RunB
  BY <1>2, <1>4 DEF RunB
<1>7. Round = Slice[RaceB] * Slice[RaceA]
  BY <1>3, <1>4 DEF Round
<1> QED  BY <1>1, <1>4, <1>5, <1>6, <1>7

(* What is left of a slice, weighted. *)
LEMMA Weighted ==
    ASSUME NEW n \in Nat \ {0}, NEW l \in Nat
    PROVE  /\ l * n \in Nat /\ 0 * n = 0
           /\ l # 0 => (l - 1) * n = l * n - n
           /\ \A m \in Nat : l <= m => l * n <= m * n
  OBVIOUS

(* When they begin to compete nobody is ahead, and who runs has no more    *)
(* left than one run of its own.                                           *)
LEMMA ShareZero == RacersAssumption /\ CpuExact /\ left \in Nat /\ lag = 0 => Share
<1> SUFFICES ASSUME RacersAssumption, CpuExact, left \in Nat, lag = 0  PROVE Share
  OBVIOUS
<1>1. cur = RaceA => left * Slice[RaceB] \in Nat /\ left * Slice[RaceB] <= RunA
  BY Racers, Weighted, LongestRunBounds DEF CpuExact, RunA
<1>2. cur = RaceB => left * Slice[RaceA] \in Nat /\ left * Slice[RaceA] <= RunB
  BY Racers, Weighted, LongestRunBounds DEF CpuExact, RunB
<1> QED  BY <1>1, <1>2, Racers DEF Share

(* Two competitors that do not run are both in the queue. *)
LEMMA Competitors ==
    ASSUME RacersAssumption, TypeOK, QueueExact, CpuExact, Competing
    PROVE  /\ cur # RaceA => RaceA \in Queued
           /\ cur # RaceB => RaceB \in Queued
           /\ cur \notin {RaceA, RaceB} =>
                  Precedes(fifo, RaceA, RaceB) \/ Precedes(fifo, RaceB, RaceA)
<1>1. /\ cur # RaceA => RaceA \in Queued
      /\ cur # RaceB => RaceB \in Queued
  BY Racers DEF Competing, CpuExact, Queued
<1>2. ASSUME cur \notin {RaceA, RaceB}
      PROVE  Precedes(fifo, RaceA, RaceB) \/ Precedes(fifo, RaceB, RaceA)
  <2>1. PICK i \in 1..Len(fifo) : fifo[i] = RaceA
    BY <1>1, <1>2 DEF QueueExact, Lists
  <2>2. PICK j \in 1..Len(fifo) : fifo[j] = RaceB
    BY <1>1, <1>2 DEF QueueExact, Lists
  <2>3. i < j \/ j < i
    BY <2>1, <2>2, Racers
  <2> QED  BY <2>1, <2>2, <2>3 DEF Precedes
<1> QED  BY <1>1, <1>2

(* As long as both compete, every step keeps the balance. *)
LEMMA ShareStep ==
    ASSUME RacersAssumption, IInv, Share, [Next /\ lag' = LagAfter]_raceVars,
           Competing, Competing'
    PROVE  Share'
<1> DEFINE a == Slice[RaceA]
           b == Slice[RaceB]
<1>a. TypeOK /\ QueueExact /\ CpuExact /\ Placed /\ left \in Nat /\ checked \in Nat /\ lag \in Int
  BY DEF IInv, TypeOK, Share
<1>b. [Next]_vars /\ (lag' = LagAfter \/ (UNCHANGED vars /\ lag' = lag))
  BY DEF raceVars
<1>c. /\ RunA' = RunA /\ RunB' = RunB /\ Round' = Round
  BY DEF RunA, RunB, Round, LongestRun, Granted
<1>d. checked' = checked \/ checked' = 0 => lag' = lag
  BY <1>a, <1>b DEF LagAfter, vars
<1>0. ASSUME lag' = lag,
             \/ cur' = cur /\ left' = left
             \/ cur' = None /\ cur \notin {RaceA, RaceB},
             Precedes(fifo', RaceA, RaceB) => Precedes(fifo, RaceA, RaceB),
             Precedes(fifo', RaceB, RaceA) => Precedes(fifo, RaceB, RaceA)
      PROVE  Share'
  <2>1. cur' = cur \/ (cur' \notin {RaceA, RaceB} /\ cur \notin {RaceA, RaceB})
    BY <1>0, Racers, Constants
  <2> QED  BY <1>0, <1>c, <2>1, Racers, Constants DEF Share
<1>1. ASSUME NEW t \in Threads, Woken(t)  PROVE Share'
  <2>1. /\ lag' = lag /\ cur' = cur /\ left' = left /\ t \notin {RaceA, RaceB} /\ t \notin Queued
    BY <1>1, <1>d DEF Woken, Competing, Queued
  <2>2. fifo' = fifo \/ fifo' = Append(fifo, t)
    BY <1>1 DEF Woken, Insert, InsertGlobal, InsertNothing
  <2>3. \A u, v : Precedes(Append(fifo, t), u, v) <=>
                     Precedes(fifo, u, v) \/ (v = t /\ u \in Queued)
    BY <1>a, <2>1, ListsAppend DEF QueueExact
  <2> QED  BY <1>0, <2>1, <2>2, <2>3
<1>2. CASE Block
  <2>1. cur \notin {RaceA, RaceB}
    <3>1. where'[cur] = "blocked" /\ cur \in Threads
      BY <1>2, <1>a, Constants DEF Block, TypeOK
    <3> QED  BY <3>1 DEF Competing
  <2> QED  BY <1>0, <1>2, <1>d, <2>1 DEF Block
<1>3. CASE RunHead
  <2> DEFINE h == Head(fifo)
  <2>1. /\ h \in Queued /\ h # cur /\ left = 0 /\ cur' = h /\ left' = Granted(h)
        /\ lag' = lag
    BY <1>3, <1>a, <1>d, RunHeadEffect
  <2>2. /\ \A u, t : Precedes(fifo', u, t) <=> \/ Precedes(fifo, u, t) /\ u # h
                                               \/ t = cur /\ cur # None /\ u \in Queued \ {h}
        /\ \A t \in Queued \ {h} : Precedes(fifo, h, t)
        /\ \A u, t : Precedes(fifo, u, t) => u \in Queued /\ t \in Queued
    BY <1>3, <1>a, RunHeadOrder
  <2>3. /\ cur # RaceA => RaceA \in Queued
        /\ cur # RaceB => RaceB \in Queued
        /\ cur \notin Queued
    BY <1>3, <1>a, Competitors, RunHeadEffect
  <2>4. a * b = Round /\ b * a = Round /\ left * a = 0 /\ left * b = 0
    BY <2>1, Racers DEF Round
  <2> HIDE DEF h
  <2>5. CASE h = RaceA
    <3>1. -RunB <= lag /\ lag <= RunA - Round
      <4>1. CASE cur = RaceB
        BY <2>4, <4>1, <1>a, Racers DEF Share
      <4>2. CASE cur # RaceB
        <5>1. Precedes(fifo, RaceA, RaceB) /\ cur \notin {RaceA, RaceB}
          BY <2>1, <2>2, <2>3, <2>5, <4>2, Racers
        <5> QED  BY <5>1 DEF Share
      <4> QED  BY <4>1, <4>2
    <3>2. cur' = RaceA /\ left' * b = Round
      BY <2>1, <2>4, <2>5, Racers
    <3> QED  BY <1>a, <1>c, <2>1, <3>1, <3>2, Racers DEF Share
  <2>6. CASE h = RaceB
    <3>1. Round - RunB <= lag /\ lag <= RunA
      <4>1. CASE cur = RaceA
        BY <2>4, <4>1, <1>a, Racers DEF Share
      <4>2. CASE cur # RaceA
        <5>1. Precedes(fifo, RaceB, RaceA) /\ cur \notin {RaceA, RaceB}
          BY <2>1, <2>2, <2>3, <2>6, <4>2, Racers
        <5> QED  BY <5>1 DEF Share
      <4> QED  BY <4>1, <4>2
    <3>2. cur' = RaceB /\ left' * a = Round
      BY <2>1, <2>4, <2>6, Racers
    <3> QED  BY <1>a, <1>c, <2>1, <3>1, <3>2, Racers DEF Share
  <2>7. CASE h \notin {RaceA, RaceB}
    <3>1. ASSUME Precedes(fifo', RaceA, RaceB)  PROVE -RunB <= lag /\ lag <= RunA - Round
      <4>1. CASE cur = RaceB
        BY <2>4, <4>1, <1>a, Racers DEF Share
      <4>2. CASE cur # RaceB
        <5>1. Precedes(fifo, RaceA, RaceB) /\ cur \notin {RaceA, RaceB}
          BY <2>2, <2>3, <3>1, <4>2
        <5> QED  BY <5>1 DEF Share
      <4> QED  BY <4>1, <4>2
    <3>2. ASSUME Precedes(fifo', RaceB, RaceA)  PROVE Round - RunB <= lag /\ lag <= RunA
      <4>1. CASE cur = RaceA
        BY <2>4, <4>1, <1>a, Racers DEF Share
      <4>2. CASE cur # RaceA
        <5>1. Precedes(fifo, RaceB, RaceA) /\ cur \notin {RaceA, RaceB}
          BY <2>2, <2>3, <3>2, <4>2
        <5> QED  BY <5>1 DEF Share
      <4> QED  BY <4>1, <4>2
    <3> QED  BY <1>a, <1>c, <2>1, <2>7, <3>1, <3>2 DEF Share
  <2> QED  BY <2>5, <2>6, <2>7
<1>4. CASE KeepRunning
  <2>1. RaceA \in Queued \/ RaceB \in Queued
    BY <1>a, Competitors, Racers
  <2>2. PICK i \in 1..Len(fifo) : TRUE
    BY <1>a, <2>1 DEF QueueExact, Lists
  <2> QED  BY <1>4, <2>2, EmptySeq DEF KeepRunning
<1>5. CASE CheckPassed
  <2>1. lag' = lag /\ fifo' = fifo
    BY <1>5, <1>d DEF CheckPassed
  <2>2. CASE attached.partial
    BY <1>0, <1>5, <2>1, <2>2 DEF CheckPassed
  <2>3. CASE ~attached.partial
    <3>1. cur = Worker /\ cur' = None
      BY <1>5, <1>a, <2>3, Constants DEF CheckPassed, CpuExact, Placed, Scheduled
    <3> QED  BY <1>0, <2>1, <3>1, Racers
  <2> QED  BY <2>2, <2>3
<1>6. CASE Ejected
  <2>1. where'[RaceA] = "fair"
    BY <1>6, Racers DEF Ejected, Eject
  <2> QED  BY <2>1 DEF Competing
<1>7. CASE Tick
  <2>1. /\ cur' = cur /\ fifo' = fifo /\ checked' = checked + 1
        /\ cur # None => left' = left - 1 /\ left # 0
    BY <1>7, <1>a DEF Tick, Settled
  <2>2. lag' = lag + Weight(cur)
    BY <1>a, <1>b, <2>1 DEF LagAfter, vars
  <2>3. CASE cur = RaceA
    <3>1. lag' = lag + b /\ left' * b = left * b - b /\ left * b \in Nat
      BY <1>a, <2>1, <2>2, <2>3, Racers, Constants, Weighted DEF Weight
    <3> QED  BY <1>a, <1>c, <2>1, <2>3, <3>1, Racers DEF Share
  <2>4. CASE cur = RaceB
    <3>1. lag' = lag - a /\ left' * a = left * a - a /\ left * a \in Nat
      BY <1>a, <2>1, <2>2, <2>4, Racers, Constants, Weighted DEF Weight
    <3> QED  BY <1>a, <1>c, <2>1, <2>4, <3>1, Racers DEF Share
  <2>5. CASE cur \notin {RaceA, RaceB}
    <3>1. lag' = lag
      BY <1>a, <2>2, <2>5 DEF Weight
    <3> QED  BY <1>c, <2>1, <2>5, <3>1 DEF Share
  <2> QED  BY <2>3, <2>4, <2>5
<1>8. CASE UNCHANGED vars
  BY <1>0, <1>8, <1>d DEF vars
<1> QED  BY <1>b, <1>1, <1>2, <1>3, <1>4, <1>5, <1>6, <1>7, <1>8, NextCases

(* The bound of ProportionalShare follows from the balance. *)
LEMMA ShareBound == RacersAssumption /\ IInv /\ Share => ProportionalShare
<1> SUFFICES ASSUME RacersAssumption, IInv, Share  PROVE -RunB <= lag /\ lag <= RunA
  BY DEF ProportionalShare, RunA, RunB
<1>1. TypeOK /\ QueueExact /\ CpuExact /\ left \in Nat /\ lag \in Int
  BY DEF IInv, TypeOK, Share
<1>2. left * Slice[RaceA] \in Nat /\ left * Slice[RaceB] \in Nat
  BY <1>1, Racers
<1>3. CASE ~Competing
  BY <1>3, Racers DEF Share
<1>4. CASE Competing /\ cur = RaceA
  BY <1>1, <1>2, <1>4, Racers DEF Share
<1>5. CASE Competing /\ cur = RaceB
  BY <1>1, <1>2, <1>5, Racers DEF Share
<1>6. CASE Competing /\ cur \notin {RaceA, RaceB}
  BY <1>1, <1>6, Racers, Competitors DEF Share
<1> QED  BY <1>3, <1>4, <1>5, <1>6

(* A's share of the CPU is in the proportion of the slices, for any slices *)
(* of the two racers and whatever else runs beside them.                   *)
THEOREM SharesInProportion == RacersAssumption => (RaceSpec => []ProportionalShare)
<1> SUFFICES ASSUME RacersAssumption  PROVE RaceSpec => []ProportionalShare
  OBVIOUS
<1>1. RaceInit => IInv /\ Share
  BY InitIInv, ShareZero DEF RaceInit, IInv, TypeOK
<1>2. IInv /\ Share /\ [Next /\ lag' = LagAfter]_raceVars => IInv' /\ Share'
  <2> SUFFICES ASSUME IInv, Share, [Next /\ lag' = LagAfter]_raceVars  PROVE IInv' /\ Share'
    OBVIOUS
  <2>1. IInv'
    BY StepIInv DEF raceVars
  <2>2. CASE Competing /\ Competing'
    BY <2>1, <2>2, ShareStep
  <2>3. CASE ~(Competing /\ Competing')
    <3>1. lag' = 0
      BY <2>3 DEF LagAfter, raceVars, vars, Share, Competing
    <3>2. (RacersAssumption /\ CpuExact /\ left \in Nat /\ lag = 0 => Share)'
      BY ShareZero, PTL
    <3> QED  BY <2>1, <3>1, <3>2 DEF IInv, TypeOK, RacersAssumption
  <2> QED  BY <2>2, <2>3
<1>3. IInv /\ Share => ProportionalShare
  BY ShareBound
<1> QED  BY <1>1, <1>2, <1>3, PTL DEF RaceSpec
-----------------------------------------------------------------------------
(* The promise of CpuSharing, for the one CPU.  A task of the fair class   *)
(* is none of this scheduler's.                                            *)
Promised(place) ==
    CASE place \in {"blocked", "fair"} -> "asleep"
      [] place = "running" -> "running"
      [] OTHER -> "waiting"

OnlyCpu == {0}

Sharing == INSTANCE CpuSharing
           WITH Tasks <- Threads, Cpus <- OnlyCpu, Allowed <- [t \in Threads |-> OnlyCpu],
                state <- [t \in Threads |-> Promised(where[t])],
                on <- [c \in OnlyCpu |-> cur]

(* As long as the scheduler stays attached it shares the CPU as CpuSharing *)
(* says: who runs goes on until it blocks or until another runs in the     *)
(* same step, and none but a waiting task is started.  The ejection is not *)
(* such a step, and the task on the CPU at the attachment not an initial   *)
(* state of CpuSharing.                                                    *)
SharesCpu == [][scx' = "enabled" => [Sharing!Next]_(Sharing!vars)]_vars

(* A step that changes nobody's promised state is invisible to CpuSharing. *)
LEMMA Invisible ==
    ASSUME UNCHANGED cur, \A t \in Threads : Promised(where'[t]) = Promised(where[t])
    PROVE  UNCHANGED Sharing!vars
  BY DEF Sharing!vars

(* A step before the ejection is a step of CpuSharing, or invisible to it. *)
LEMMA SharingStep ==
    ASSUME IInv, [Next]_vars, scx' = "enabled"
    PROVE  [Sharing!Next]_(Sharing!vars)
<1> USE DEF Promised
<1>0. /\ where \in [Threads -> Places] /\ None \notin Threads /\ 0 \in OnlyCpu
      /\ \A t \in Threads : where[t] = "running" <=> cur = t
      /\ cur \in Threads \cup {None}
  BY Constants DEF IInv, TypeOK, CpuExact, OnlyCpu
<1>1. ASSUME NEW t \in Threads, Woken(t)  PROVE Sharing!Next
  <2>1. cur' = cur /\ where[t] = "blocked"
    BY <1>1 DEF Woken
  <2>2. \E q \in {"queued", "dropped"} : where' = [where EXCEPT ![t] = q]
    BY <1>1 DEF Woken, Insert, InsertGlobal, InsertNothing
  <2>3. Sharing!Wake(t)
    BY <1>0, <2>1, <2>2 DEF Sharing!Wake
  <2> QED  BY <2>3 DEF Sharing!Next
<1>2. ASSUME cur \in Threads, where' = [where EXCEPT ![cur] = "blocked"], cur' = None
      PROVE  Sharing!Next
  <2>1. Sharing!Sleep(0)
    BY <1>0, <1>2 DEF Sharing!Sleep, OnlyCpu
  <2> QED  BY <1>0, <2>1 DEF Sharing!Next
<1>3. ASSUME UNCHANGED <<where, cur>>  PROVE UNCHANGED Sharing!vars
  BY <1>3, Invisible
<1>4. ASSUME Block  PROVE Sharing!Next
  BY <1>2, <1>4, Constants DEF Block
<1>5. ASSUME RunHead  PROVE Sharing!Next
  <2>1. PICK h \in Threads :
          /\ where[h] = "queued" /\ h # cur /\ cur' = h
          /\ where' = [t \in Threads |-> IF t = h THEN "running"
                                         ELSE IF t = cur THEN "queued" ELSE where[t]]
    BY <1>5, RunHeadEffect DEF IInv, Queued
  <2>2. CASE cur = None
    <3>1. Sharing!Start(0, h)
      BY <1>0, <2>1, <2>2 DEF Sharing!Start, OnlyCpu
    <3> QED  BY <1>0, <2>1, <3>1 DEF Sharing!Next
  <2>3. CASE cur # None
    <3>1. Sharing!Switch(0, h)
      BY <1>0, <2>1, <2>3 DEF Sharing!Switch, OnlyCpu
    <3> QED  BY <1>0, <2>1, <3>1 DEF Sharing!Next
  <2> QED  BY <2>2, <2>3
<1>6. ASSUME CheckPassed  PROVE Sharing!Next \/ UNCHANGED <<where, cur>>
  <2>1. CASE attached.partial
    BY <1>6, <2>1 DEF CheckPassed
  <2>2. CASE ~attached.partial
    <3>1. where[Worker] = "running" /\ cur = Worker
      BY <1>0, <1>6, <2>2, Constants DEF CheckPassed, IInv, Placed, Scheduled
    <3>2. where' = [where EXCEPT ![Worker] = "blocked"] /\ cur' = None
      BY <1>6, <2>2 DEF CheckPassed
    <3> QED  BY <1>2, <3>1, <3>2, Constants
  <2> QED  BY <2>1, <2>2
<1>7. ~Ejected
  BY DEF Ejected, Eject
<1>8. ASSUME KeepRunning \/ Tick \/ UNCHANGED vars  PROVE UNCHANGED <<where, cur>>
  BY <1>8 DEF KeepRunning, Tick, vars
<1>9. Sharing!Next \/ UNCHANGED <<where, cur>>
  BY <1>1, <1>4, <1>5, <1>6, <1>7, <1>8, NextCases
<1> QED  BY <1>3, <1>9

(* Until it is ejected, every step of a global FIFO scheduler is one that  *)
(* CpuSharing allows, or invisible to it: in particular an expired task is *)
(* put back in the very step in which another takes its CPU.               *)
THEOREM StepsShareCpu == Spec => SharesCpu
<1>1. IInv /\ [Next]_vars => [scx' = "enabled" => [Sharing!Next]_(Sharing!vars)]_vars
  BY SharingStep
<1> QED  BY <1>1, Invariance, PTL DEF Spec, SharesCpu
=============================================================================
