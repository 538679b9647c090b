--------------------------- MODULE SharedDsqProofs ---------------------------
(***************************************************************************)
(* The theorems about SharedDsq, for any tasks, CPUs, affinity masks and   *)
(* classification, and at the end those about TeamRace, for one CPU and    *)
(* any two teams on it.                                                    *)
(***************************************************************************)
EXTENDS TeamRace, SequenceTheorems, TLAPS

(* Removing position i closes the gap: what is left is in the same order,  *)
(* and every other element is still there.                                 *)
LEMMA RemoveAtProperties ==
    ASSUME NEW S, NEW s \in Seq(S), NEW i \in 1..Len(s)
    PROVE  /\ RemoveAt(s, i) \in Seq(S)
           /\ Len(RemoveAt(s, i)) = Len(s) - 1
           /\ \A k \in 1..(Len(s) - 1) :
                  RemoveAt(s, i)[k] = IF k < i THEN s[k] ELSE s[k + 1]
<1> DEFINE a == SubSeq(s, 1, i - 1)
           b == SubSeq(s, i + 1, Len(s))
<1>1. Len(s) \in Nat /\ \A k \in 1..Len(s) : s[k] \in S
  BY LenProperties, ElementOfSeq
<1>2. /\ a \in Seq(S) /\ Len(a) = i - 1
      /\ \A k \in 1..(i - 1) : a[k] = s[k]
  <2>1. 1 \in Int /\ i - 1 \in Int /\ \A k \in 1..(i - 1) : s[k] \in S
    BY <1>1
  <2>2. /\ a \in Seq(S)
        /\ Len(a) = IF 1 <= i - 1 THEN (i - 1) - 1 + 1 ELSE 0
        /\ \A k \in 1..((i - 1) - 1 + 1) : a[k] = s[1 + k - 1]
    BY <2>1, SubSeqProperties
  <2> QED  BY <1>1, <2>2
<1>3. /\ b \in Seq(S) /\ Len(b) = Len(s) - i
      /\ \A k \in 1..(Len(s) - i) : b[k] = s[k + i]
  <2>1. i + 1 \in Int /\ Len(s) \in Int /\ \A k \in (i + 1)..Len(s) : s[k] \in S
    BY <1>1
  <2>2. /\ b \in Seq(S)
        /\ Len(b) = IF i + 1 <= Len(s) THEN Len(s) - (i + 1) + 1 ELSE 0
        /\ \A k \in 1..(Len(s) - (i + 1) + 1) : b[k] = s[(i + 1) + k - 1]
    BY <2>1, SubSeqProperties
  <2> QED  BY <1>1, <2>2
<1>4. RemoveAt(s, i) = a \o b
  BY DEF RemoveAt
<1>5. /\ a \o b \in Seq(S)
      /\ Len(a \o b) = Len(a) + Len(b)
      /\ \A k \in 1..(Len(a) + Len(b)) :
             (a \o b)[k] = IF k <= Len(a) THEN a[k] ELSE b[k - Len(a)]
  BY <1>2, <1>3, ConcatProperties
<1> HIDE DEF a, b
<1> QED  BY <1>1, <1>2, <1>3, <1>4, <1>5
-----------------------------------------------------------------------------
(* Both calls of dispatch are a move from some queue d that leaves the     *)
(* turn on the other queue, or find nothing and only advance the phase.    *)
LEMMA DispatchCases ==
    ASSUME NEW c \in Cpus, TypeOK, Dispatch(c)
    PROVE  /\ UNCHANGED <<key, at, cur, resched, idle>>
           /\ \/ /\ phase[c] \in {"first", "second"}
                 /\ \E d \in Dsqs :
                       /\ phase[c] = "first" => d = turn[c]
                       /\ phase[c] = "second" => d = Other(turn[c])
                       /\ MoveToLocal(c, d)
                       /\ turn' = [turn EXCEPT ![c] = Other(d)]
              \/ /\ phase[c] = "first"
                 /\ NoneMovable(c, turn[c])
                 /\ phase' = [phase EXCEPT ![c] = "second"]
                 /\ UNCHANGED <<where, rq, dsq, local, turn, bypass>>
              \/ /\ phase[c] = "second"
                 /\ NoneMovable(c, Other(turn[c]))
                 /\ phase' = [phase EXCEPT ![c] = "pick"]
                 /\ UNCHANGED <<where, rq, dsq, local, turn, bypass>>
<1>1. turn[c] \in Dsqs /\ Other(turn[c]) \in Dsqs
  BY DEF TypeOK, Other, Dsqs
<1>2. CASE MoveFirst(c)
  BY <1>1, <1>2 DEF MoveFirst, StoreTurn
<1>3. CASE MoveSecond(c)
  BY <1>1, <1>3 DEF MoveSecond, StoreTurn
<1> QED  BY <1>2, <1>3 DEF Dispatch

(* What a successful move does, for the task x that is moved. *)
LEMMA MoveEffect ==
    ASSUME NEW c \in Cpus, NEW d \in Dsqs, TypeOK, QueuesExact, MoveToLocal(c, d)
    PROVE  \E i \in 1..Len(dsq[d]) : \E x \in Tasks :
              /\ x = dsq[d][i]
              /\ where[x] = "queued" /\ at[x] = d /\ c \in Allowed[x]
              /\ dsq' = [dsq EXCEPT ![d] = RemoveAt(dsq[d], i)]
              /\ local' = [local EXCEPT ![c] = Append(local[c], x)]
              /\ where' = [where EXCEPT ![x] = "local"]
              /\ rq' = [rq EXCEPT ![x] = c]
              /\ phase' = [phase EXCEPT ![c] = IF rq[x] = c THEN "pick" ELSE "pulled"]
              /\ bypass' = BypassAfter(c, d, x)
<1>1. PICK i \in 1..Len(dsq[d]) :
        /\ c \in Allowed[dsq[d][i]]
        /\ dsq' = [dsq EXCEPT ![d] = RemoveAt(dsq[d], i)]
        /\ local' = [local EXCEPT ![c] = Append(local[c], dsq[d][i])]
        /\ where' = [where EXCEPT ![dsq[d][i]] = "local"]
        /\ rq' = [rq EXCEPT ![dsq[d][i]] = c]
        /\ phase' = [phase EXCEPT ![c] = IF rq[dsq[d][i]] = c THEN "pick" ELSE "pulled"]
        /\ bypass' = BypassAfter(c, d, dsq[d][i])
  BY DEF MoveToLocal, Movable, PhaseAfterMove
<1>2. dsq[d][i] \in Tasks /\ where[dsq[d][i]] = "queued" /\ at[dsq[d][i]] = d
  BY ElementOfSeq DEF TypeOK, QueuesExact
<1> QED  BY <1>1, <1>2
-----------------------------------------------------------------------------
(* Both calls of dispatch keep the state well typed. *)
LEMMA DispatchType ==
    ASSUME NEW c \in Cpus, TypeOK, QueuesExact, Dispatch(c)
    PROVE  TypeOK'
<1>1. ASSUME NEW d \in Dsqs, MoveToLocal(c, d), UNCHANGED <<key, at, cur, resched, idle>>,
             turn' = [turn EXCEPT ![c] = Other(d)]
      PROVE  TypeOK'
  <2>1. PICK i \in 1..Len(dsq[d]), x \in Tasks :
          /\ dsq' = [dsq EXCEPT ![d] = RemoveAt(dsq[d], i)]
          /\ local' = [local EXCEPT ![c] = Append(local[c], x)]
          /\ where' = [where EXCEPT ![x] = "local"]
          /\ rq' = [rq EXCEPT ![x] = c]
          /\ phase' = [phase EXCEPT ![c] = IF rq[x] = c THEN "pick" ELSE "pulled"]
          /\ bypass' = BypassAfter(c, d, x)
    BY <1>1, MoveEffect
  <2>2. dsq[d] \in Seq(Tasks) /\ local[c] \in Seq(Tasks)
    BY DEF TypeOK
  <2>3. RemoveAt(dsq[d], i) \in Seq(Tasks) /\ Append(local[c], x) \in Seq(Tasks)
    BY <2>2, RemoveAtProperties, AppendProperties
  <2>4. Other(d) \in Dsqs
    BY DEF Other, Dsqs
  <2>5. bypass' \in [Cpus -> [Tasks -> Nat]]
    <3>1. \A b \in Cpus, t \in Tasks : bypass[b][t] \in Nat
      BY DEF TypeOK
    <3>2. \A b \in Cpus : [t \in Tasks |->
              IF t = x THEN 0
              ELSE IF b # c THEN bypass[b][t]
              ELSE IF at[t] # d /\ where[t] = "queued" /\ c \in Allowed[t]
                   THEN bypass[c][t] + 1
              ELSE 0] \in [Tasks -> Nat]
      BY <3>1
    <3> QED  BY <2>1, <3>2 DEF BypassAfter
  <2>6. dsq' \in [Dsqs -> Seq(Tasks)] /\ local' \in [Cpus -> Seq(Tasks)]
    BY <2>1, <2>3 DEF TypeOK
  <2>7. where' \in [Tasks -> Places] /\ rq' \in [Tasks -> Cpus]
    BY <2>1 DEF TypeOK, Places
  <2>8. phase' \in [Cpus -> Phases] /\ turn' \in [Cpus -> Dsqs]
    BY <1>1, <2>1, <2>4 DEF TypeOK, Phases
  <2> QED  BY <1>1, <2>5, <2>6, <2>7, <2>8 DEF TypeOK
<1>2. ASSUME NEW p \in Phases, phase' = [phase EXCEPT ![c] = p],
             UNCHANGED <<where, rq, key, at, dsq, local, cur, resched, idle, turn, bypass>>
      PROVE  TypeOK'
  BY <1>2 DEF TypeOK
<1> QED  BY <1>1, <1>2, DispatchCases DEF Phases

(* Each action of the system keeps the state well typed. *)
LEMMA TypeStep == TypeOK /\ QueuesExact /\ LocalExact /\ Affinity /\ [Next]_vars => TypeOK'
<1> SUFFICES ASSUME TypeOK, QueuesExact, LocalExact, Affinity, [Next]_vars
             PROVE  TypeOK'
  OBVIOUS
<1> USE DEF TypeOK, Places, Phases
<1>1. ASSUME NEW t \in Tasks, SelectCpu(t)  PROVE TypeOK'
  <2>1. \A c \in Allowed[t] : c \in Cpus
    BY AllowedAssumption
  <2> QED  BY <1>1, <2>1 DEF SelectCpu
<1>2. ASSUME NEW t \in Tasks, Insert(t)
      PROVE  dsq' \in [Dsqs -> Seq(Tasks)] /\ at' \in [Tasks -> Dsqs]
  <2>1. Class[key[t]] \in Dsqs
    BY ClassAssumption
  <2>2. Append(dsq[Class[key[t]]], t) \in Seq(Tasks)
    BY <2>1, AppendProperties
  <2> QED  BY <1>2, <2>1, <2>2 DEF Insert
<1>3. ASSUME NEW t \in Tasks, Enqueue(t)  PROVE TypeOK'
  BY <1>2, <1>3 DEF Enqueue
<1>4. ASSUME NEW t \in Tasks, Rename(t)  PROVE TypeOK'
  BY <1>4 DEF Rename
<1>5. ASSUME NEW c \in Cpus, Expire(c)  PROVE TypeOK'
  BY <1>5 DEF Expire, places
<1>6. ASSUME NEW c \in Cpus, Block(c)  PROVE TypeOK'
  BY <1>6 DEF Block
<1>7. ASSUME NEW c \in Cpus, WakeIdle(c)  PROVE TypeOK'
  BY <1>7 DEF WakeIdle, places
<1>8. ASSUME NEW c \in Cpus, Dispatch(c)  PROVE TypeOK'
  BY <1>8, DispatchType
<1>9. ASSUME NEW c \in Cpus, RunNext(c)  PROVE TypeOK'
  <2>1. Head(local[c]) \in Tasks /\ Tail(local[c]) \in Seq(Tasks)
    BY <1>9, HeadTailProperties DEF RunNext
  <2>2. CASE cur[c] = None
    BY <1>9, <2>1, <2>2 DEF RunNext
  <2>3. CASE cur[c] # None
    <3>1. cur[c] \in Tasks
      BY <2>3
    <3>2. Insert(cur[c])
      BY <1>9, <2>3 DEF RunNext
    <3> QED  BY <1>2, <1>9, <2>1, <2>3, <3>1, <3>2 DEF RunNext
  <2> QED  BY <2>2, <2>3
<1>10. ASSUME NEW c \in Cpus, KeepPrev(c)  PROVE TypeOK'
  BY <1>10 DEF KeepPrev, places
<1>11. ASSUME NEW c \in Cpus, GoIdle(c)  PROVE TypeOK'
  BY <1>11 DEF GoIdle, places
<1>12. CASE UNCHANGED vars
  BY <1>12 DEF vars
<1> QED
  BY <1>1, <1>3, <1>4, <1>5, <1>6, <1>7, <1>8, <1>9, <1>10, <1>11, <1>12 DEF Next, Pick
-----------------------------------------------------------------------------
(* An insertion of a task that is in no queue keeps the queues exact. *)
LEMMA InsertExact ==
    ASSUME NEW p \in Tasks, TypeOK, QueuesExact, Insert(p), where[p] # "queued",
           where'[p] = "queued",
           \A t \in Tasks \ {p} : where'[t] = "queued" <=> where[t] = "queued"
    PROVE  QueuesExact'
<1> DEFINE e == Class[key[p]]
<1>1. e \in Dsqs
  BY ClassAssumption DEF TypeOK
<1>2. /\ dsq' = [dsq EXCEPT ![e] = Append(dsq[e], p)]
      /\ at' = [at EXCEPT ![p] = e]
  BY DEF Insert
<1>3. /\ dsq \in [Dsqs -> Seq(Tasks)] /\ at \in [Tasks -> Dsqs]
      /\ \A d \in Dsqs : Len(dsq[d]) \in Nat
      /\ \A d \in Dsqs : \A i \in 1..Len(dsq[d]) : dsq[d][i] \in Tasks
  BY LenProperties, ElementOfSeq DEF TypeOK
<1>4. /\ Len(dsq'[e]) = Len(dsq[e]) + 1
      /\ \A i \in 1..Len(dsq[e]) : dsq'[e][i] = dsq[e][i]
      /\ dsq'[e][Len(dsq[e]) + 1] = p
      /\ \A d \in Dsqs \ {e} : dsq'[d] = dsq[d]
  BY <1>1, <1>2, <1>3, AppendProperties
<1>5. \A d \in Dsqs : \A i \in 1..Len(dsq[d]) : dsq[d][i] # p
  BY DEF QueuesExact
<1> HIDE DEF e
<1>6. \A d \in Dsqs : \A i \in 1..Len(dsq'[d]) :
          where'[dsq'[d][i]] = "queued" /\ at'[dsq'[d][i]] = d
  <2> SUFFICES ASSUME NEW d \in Dsqs, NEW i \in 1..Len(dsq'[d])
               PROVE  where'[dsq'[d][i]] = "queued" /\ at'[dsq'[d][i]] = d
    OBVIOUS
  <2>1. CASE d = e /\ i = Len(dsq[e]) + 1
    BY <1>2, <1>3, <1>4, <2>1
  <2>2. CASE ~(d = e /\ i = Len(dsq[e]) + 1)
    <3>1. i \in 1..Len(dsq[d]) /\ dsq'[d][i] = dsq[d][i]
      <4>1. CASE d = e
        <5>1. i \in 1..(Len(dsq[e]) + 1) /\ Len(dsq[e]) \in Nat
          BY <1>1, <1>3, <1>4, <4>1
        <5> QED  BY <1>4, <2>2, <4>1, <5>1
      <4>2. CASE d # e
        BY <1>4, <4>2
      <4> QED  BY <4>1, <4>2
    <3>2. dsq[d][i] \in Tasks \ {p} /\ where[dsq[d][i]] = "queued" /\ at[dsq[d][i]] = d
      BY <1>3, <1>5, <3>1 DEF QueuesExact
    <3> QED  BY <1>2, <1>3, <3>1, <3>2
  <2> QED  BY <2>1, <2>2
<1>7. \A d \in Dsqs : \A i, j \in 1..Len(dsq'[d]) : dsq'[d][i] = dsq'[d][j] => i = j
  <2> SUFFICES ASSUME NEW d \in Dsqs, NEW i \in 1..Len(dsq'[d]), NEW j \in 1..Len(dsq'[d]),
                      dsq'[d][i] = dsq'[d][j]
               PROVE  i = j
    OBVIOUS
  <2>1. CASE d # e
    BY <1>4, <2>1 DEF QueuesExact
  <2>2. CASE d = e
    <3>1. ASSUME NEW k \in 1..Len(dsq'[e]), k # Len(dsq[e]) + 1
          PROVE  k \in 1..Len(dsq[e]) /\ dsq'[e][k] = dsq[e][k] /\ dsq'[e][k] # p
      <4>1. k \in 1..Len(dsq[e])
        BY <1>1, <1>3, <1>4, <3>1
      <4> QED  BY <1>1, <1>4, <1>5, <4>1
    <3>2. CASE i = Len(dsq[e]) + 1 \/ j = Len(dsq[e]) + 1
      BY <1>4, <2>2, <3>1, <3>2
    <3>3. CASE i # Len(dsq[e]) + 1 /\ j # Len(dsq[e]) + 1
      <4>1. i \in 1..Len(dsq[e]) /\ j \in 1..Len(dsq[e]) /\ dsq[e][i] = dsq[e][j]
        BY <2>2, <3>1, <3>3
      <4> QED  BY <1>1, <4>1 DEF QueuesExact
    <3> QED  BY <3>2, <3>3
  <2> QED  BY <2>1, <2>2
<1>8. \A t \in Tasks : where'[t] = "queued" =>
          \E i \in 1..Len(dsq'[at'[t]]) : dsq'[at'[t]][i] = t
  <2> SUFFICES ASSUME NEW t \in Tasks, where'[t] = "queued"
               PROVE  \E i \in 1..Len(dsq'[at'[t]]) : dsq'[at'[t]][i] = t
    OBVIOUS
  <2>1. CASE t = p
    BY <1>1, <1>2, <1>3, <1>4, <2>1
  <2>2. CASE t # p
    <3>1. where[t] = "queued" /\ at'[t] = at[t] /\ at[t] \in Dsqs
      BY <1>2, <1>3, <2>2
    <3>2. PICK i \in 1..Len(dsq[at[t]]) : dsq[at[t]][i] = t
      BY <3>1 DEF QueuesExact
    <3>3. i \in 1..Len(dsq'[at[t]]) /\ dsq'[at[t]][i] = t
      <4>1. CASE at[t] = e
        <5>1. i \in 1..Len(dsq[e]) /\ Len(dsq[e]) \in Nat
          BY <1>1, <1>3, <3>2, <4>1
        <5> QED  BY <1>4, <3>2, <4>1, <5>1
      <4>2. CASE at[t] # e
        BY <1>4, <3>1, <3>2, <4>2
      <4> QED  BY <4>1, <4>2
    <3> QED  BY <3>1, <3>3
  <2> QED  BY <2>1, <2>2
<1> QED  BY <1>6, <1>7, <1>8 DEF QueuesExact

(* A move out of a queue keeps the queues exact. *)
LEMMA MoveExact ==
    ASSUME NEW c \in Cpus, NEW d \in Dsqs, TypeOK, QueuesExact, MoveToLocal(c, d), at' = at
    PROVE  QueuesExact'
<1>1. PICK i \in 1..Len(dsq[d]), x \in Tasks :
        /\ x = dsq[d][i]
        /\ where[x] = "queued" /\ at[x] = d
        /\ dsq' = [dsq EXCEPT ![d] = RemoveAt(dsq[d], i)]
        /\ where' = [where EXCEPT ![x] = "local"]
  BY MoveEffect
<1>2. /\ dsq \in [Dsqs -> Seq(Tasks)] /\ at \in [Tasks -> Dsqs]
      /\ where \in [Tasks -> Places]
      /\ \A g \in Dsqs : Len(dsq[g]) \in Nat
      /\ \A g \in Dsqs : \A k \in 1..Len(dsq[g]) : dsq[g][k] \in Tasks
  BY LenProperties, ElementOfSeq DEF TypeOK
<1>3. /\ Len(dsq'[d]) = Len(dsq[d]) - 1
      /\ \A k \in 1..(Len(dsq[d]) - 1) :
            dsq'[d][k] = IF k < i THEN dsq[d][k] ELSE dsq[d][k + 1]
      /\ \A g \in Dsqs \ {d} : dsq'[g] = dsq[g]
  <2>1. /\ Len(RemoveAt(dsq[d], i)) = Len(dsq[d]) - 1
        /\ \A k \in 1..(Len(dsq[d]) - 1) :
              RemoveAt(dsq[d], i)[k] = IF k < i THEN dsq[d][k] ELSE dsq[d][k + 1]
    <3>1. dsq[d] \in Seq(Tasks)
      BY <1>2
    <3> QED  BY <3>1, RemoveAtProperties
  <2>2. dsq'[d] = RemoveAt(dsq[d], i) /\ \A g \in Dsqs \ {d} : dsq'[g] = dsq[g]
    BY <1>1, <1>2
  <2> QED  BY <2>1, <2>2
<1>4. \A g \in Dsqs : \A k \in 1..Len(dsq[g]) : dsq[g][k] = x => g = d /\ k = i
  BY <1>1 DEF QueuesExact
<1>5. ASSUME NEW k \in 1..Len(dsq'[d])
      PROVE  \E m \in 1..Len(dsq[d]) :
                m = (IF k < i THEN k ELSE k + 1) /\ m # i /\ dsq'[d][k] = dsq[d][m]
  <2>1. Len(dsq[d]) \in Nat /\ k \in 1..(Len(dsq[d]) - 1)
    BY <1>2, <1>3
  <2> QED  BY <1>3, <2>1
<1>6. \A g \in Dsqs : \A k \in 1..Len(dsq'[g]) :
          where'[dsq'[g][k]] = "queued" /\ at'[dsq'[g][k]] = g
  <2> SUFFICES ASSUME NEW g \in Dsqs, NEW k \in 1..Len(dsq'[g])
               PROVE  where'[dsq'[g][k]] = "queued" /\ at'[dsq'[g][k]] = g
    OBVIOUS
  <2>1. PICK m \in 1..Len(dsq[g]) : dsq'[g][k] = dsq[g][m] /\ dsq[g][m] # x
    <3>1. CASE g = d
      BY <1>4, <1>5, <3>1
    <3>2. CASE g # d
      BY <1>3, <1>4, <3>2
    <3> QED  BY <3>1, <3>2
  <2> QED  BY <1>1, <1>2, <2>1 DEF QueuesExact
<1>7. \A g \in Dsqs : \A k, l \in 1..Len(dsq'[g]) : dsq'[g][k] = dsq'[g][l] => k = l
  <2> SUFFICES ASSUME NEW g \in Dsqs, NEW k \in 1..Len(dsq'[g]), NEW l \in 1..Len(dsq'[g]),
                      dsq'[g][k] = dsq'[g][l]
               PROVE  k = l
    OBVIOUS
  <2>1. CASE g # d
    BY <1>3, <2>1 DEF QueuesExact
  <2>2. CASE g = d
    <3>1. PICK m \in 1..Len(dsq[d]) :
            m = (IF k < i THEN k ELSE k + 1) /\ dsq'[d][k] = dsq[d][m]
      BY <1>5, <2>2
    <3>2. PICK n \in 1..Len(dsq[d]) :
            n = (IF l < i THEN l ELSE l + 1) /\ dsq'[d][l] = dsq[d][n]
      BY <1>5, <2>2
    <3>3. m = n
      BY <2>2, <3>1, <3>2 DEF QueuesExact
    <3> QED  BY <3>1, <3>2, <3>3
  <2> QED  BY <2>1, <2>2
<1>8. \A t \in Tasks : where'[t] = "queued" =>
          \E k \in 1..Len(dsq'[at'[t]]) : dsq'[at'[t]][k] = t
  <2> SUFFICES ASSUME NEW t \in Tasks, where'[t] = "queued"
               PROVE  \E k \in 1..Len(dsq'[at[t]]) : dsq'[at[t]][k] = t
    OBVIOUS
  <2>1. t # x /\ where[t] = "queued" /\ at[t] \in Dsqs
    BY <1>1, <1>2
  <2>2. PICK m \in 1..Len(dsq[at[t]]) : dsq[at[t]][m] = t
    BY <2>1 DEF QueuesExact
  <2>3. CASE at[t] # d
    BY <1>3, <2>1, <2>2, <2>3
  <2>4. CASE at[t] = d
    <3>1. m # i /\ Len(dsq[d]) \in Nat
      BY <1>1, <1>2, <2>1, <2>2, <2>4
    <3>2. CASE m < i
      BY <1>3, <2>2, <2>4, <3>1, <3>2
    <3>3. CASE m > i
      <4>1. m - 1 \in 1..(Len(dsq[d]) - 1) /\ ~(m - 1 < i) /\ (m - 1) + 1 = m
        BY <2>2, <2>4, <3>1, <3>3
      <4> QED  BY <1>3, <2>2, <2>4, <4>1
    <3> QED  BY <2>2, <2>4, <3>1, <3>2, <3>3
  <2> QED  BY <2>3, <2>4
<1> QED  BY <1>6, <1>7, <1>8 DEF QueuesExact
(* No action loses a waiting task or queues one twice. *)
LEMMA QueuesStep == TypeOK /\ ExactlyOnce /\ [Next]_vars => QueuesExact'
<1> SUFFICES ASSUME TypeOK, QueuesExact, LocalExact, RunningExact, [Next]_vars
             PROVE  QueuesExact'
  BY DEF ExactlyOnce
<1>0. ASSUME UNCHANGED <<dsq, at>>,
             \A t \in Tasks : where'[t] = "queued" <=> where[t] = "queued"
      PROVE  QueuesExact'
  <2>1. \A d \in Dsqs : \A i \in 1..Len(dsq[d]) : dsq[d][i] \in Tasks
    BY ElementOfSeq DEF TypeOK
  <2> QED  BY <1>0, <2>1 DEF QueuesExact
<1>1. ASSUME NEW t \in Tasks, SelectCpu(t)  PROVE QueuesExact'
  BY <1>0, <1>1 DEF SelectCpu, TypeOK
<1>2. ASSUME NEW t \in Tasks, Enqueue(t)  PROVE QueuesExact'
  BY <1>2, InsertExact DEF Enqueue, TypeOK
<1>3. ASSUME NEW t \in Tasks, Rename(t)  PROVE QueuesExact'
  BY <1>0, <1>3 DEF Rename
<1>4. ASSUME NEW c \in Cpus, Expire(c)  PROVE QueuesExact'
  BY <1>0, <1>4 DEF Expire, places
<1>5. ASSUME NEW c \in Cpus, Block(c)  PROVE QueuesExact'
  <2>1. cur[c] \in Tasks /\ where[cur[c]] = "running"
    BY <1>5, NoneAssumption DEF Block, TypeOK, RunningExact
  <2> QED  BY <1>0, <1>5, <2>1 DEF Block, TypeOK
<1>6. ASSUME NEW c \in Cpus, WakeIdle(c)  PROVE QueuesExact'
  BY <1>0, <1>6 DEF WakeIdle, places
<1>7. ASSUME NEW c \in Cpus, Dispatch(c)  PROVE QueuesExact'
  BY <1>0, <1>7, DispatchCases, MoveExact
<1>8. ASSUME NEW c \in Cpus, RunNext(c)  PROVE QueuesExact'
  <2> DEFINE h == Head(local[c])
  <2>1. h \in Tasks /\ where[h] = "local"
    <3>1. local[c] \in Seq(Tasks) /\ local[c] # <<>>
      BY <1>8 DEF RunNext, TypeOK
    <3>2. h \in Tasks /\ h = local[c][1]
      BY <3>1, HeadTailProperties
    <3> QED  BY <3>1, <3>2 DEF LocalExact
  <2>2. CASE cur[c] = None
    BY <1>0, <1>8, <2>1, <2>2 DEF RunNext, TypeOK
  <2>3. CASE cur[c] # None
    <3>1. cur[c] \in Tasks /\ where[cur[c]] = "running"
      BY <2>3 DEF TypeOK, RunningExact
    <3>2. /\ where' = [where EXCEPT ![h] = "running", ![cur[c]] = "queued"]
          /\ Insert(cur[c])
      BY <1>8, <2>3 DEF RunNext
    <3>3. where'[cur[c]] = "queued"
      BY <3>1, <3>2 DEF TypeOK
    <3>4. \A t \in Tasks \ {cur[c]} : where'[t] = "queued" <=> where[t] = "queued"
      BY <2>1, <3>1, <3>2 DEF TypeOK
    <3> QED  BY <3>1, <3>2, <3>3, <3>4, InsertExact
  <2> QED  BY <2>2, <2>3
<1>9. ASSUME NEW c \in Cpus, KeepPrev(c)  PROVE QueuesExact'
  BY <1>0, <1>9 DEF KeepPrev, places
<1>10. ASSUME NEW c \in Cpus, GoIdle(c)  PROVE QueuesExact'
  BY <1>0, <1>10 DEF GoIdle, places
<1>11. CASE UNCHANGED vars
  BY <1>0, <1>11 DEF vars
<1> QED
  BY <1>1, <1>2, <1>3, <1>4, <1>5, <1>6, <1>7, <1>8, <1>9, <1>10, <1>11 DEF Next, Pick

-----------------------------------------------------------------------------
(* What the pick of the head of a local queue does: h runs, and p, the     *)
(* expired task if there is one, waits.                                    *)
LEMMA RunNextEffect ==
    ASSUME NEW c \in Cpus, TypeOK, LocalExact, RunningExact, RunNext(c)
    PROVE  \E h \in Tasks :
              /\ h = local[c][1] /\ where[h] = "local" /\ rq[h] = c
              /\ cur' = [cur EXCEPT ![c] = h]
              /\ local' = [local EXCEPT ![c] = <<>>]
              /\ phase' = [phase EXCEPT ![c] = "exec"]
              /\ where'[h] = "running"
              /\ \A t \in Tasks \ {h, cur[c]} : where'[t] = where[t]
              /\ cur[c] # None => where'[cur[c]] = "queued"
              /\ \A t \in Tasks : t # cur[c] => at'[t] = at[t]
              /\ UNCHANGED <<rq, key, turn, bypass>>
<1> DEFINE h == Head(local[c])
<1>1. /\ local[c] \in Seq(Tasks) /\ local[c] # <<>> /\ Len(local[c]) = 1
      /\ where[local[c][1]] = "local" /\ rq[local[c][1]] = c
  BY DEF RunNext, TypeOK, LocalExact
<1>2. h \in Tasks /\ h = local[c][1]
  BY <1>1, HeadTailProperties
<1>3. Tail(local[c]) = <<>>
  <2>1. Tail(local[c]) \in Seq(Tasks) /\ Len(Tail(local[c])) = 0
    BY <1>1, HeadTailProperties
  <2> QED  BY <2>1, EmptySeq
<1>4. cur[c] # None => cur[c] \in Tasks /\ where[cur[c]] = "running"
  BY DEF TypeOK, RunningExact
<1>5. /\ cur' = [cur EXCEPT ![c] = h]
      /\ local' = [local EXCEPT ![c] = <<>>]
      /\ phase' = [phase EXCEPT ![c] = "exec"]
      /\ UNCHANGED <<rq, key, turn, bypass>>
  BY <1>3 DEF RunNext
<1>6. where \in [Tasks -> Places] /\ at \in [Tasks -> Dsqs]
  BY DEF TypeOK
<1>7. CASE cur[c] = None
  BY <1>1, <1>2, <1>5, <1>6, <1>7 DEF RunNext
<1>8. CASE cur[c] # None
  <2>1. where' = [where EXCEPT ![h] = "running", ![cur[c]] = "queued"]
    BY <1>8 DEF RunNext
  <2>2. at' = [at EXCEPT ![cur[c]] = Class[key[cur[c]]]]
    BY <1>8 DEF RunNext, Insert
  <2> QED  BY <1>1, <1>2, <1>4, <1>5, <1>6, <1>8, <2>1, <2>2
<1> QED  BY <1>7, <1>8
(* What a successful move changes for the local queues: x alone is there. *)
LEMMA MoveLocal ==
    ASSUME NEW c \in Cpus, NEW d \in Dsqs, TypeOK, QueuesExact, LocalExact,
           phase[c] \in {"first", "second"}, MoveToLocal(c, d)
    PROVE  \E x \in Tasks :
              /\ where[x] = "queued" /\ at[x] = d /\ c \in Allowed[x]
              /\ where' = [where EXCEPT ![x] = "local"]
              /\ rq' = [rq EXCEPT ![x] = c]
              /\ local' = [local EXCEPT ![c] = <<x>>]
              /\ phase' = [phase EXCEPT ![c] = IF rq[x] = c THEN "pick" ELSE "pulled"]
              /\ bypass' = BypassAfter(c, d, x)
<1>1. PICK i \in 1..Len(dsq[d]), x \in Tasks :
        /\ where[x] = "queued" /\ at[x] = d /\ c \in Allowed[x]
        /\ local' = [local EXCEPT ![c] = Append(local[c], x)]
        /\ where' = [where EXCEPT ![x] = "local"]
        /\ rq' = [rq EXCEPT ![x] = c]
        /\ phase' = [phase EXCEPT ![c] = IF rq[x] = c THEN "pick" ELSE "pulled"]
        /\ bypass' = BypassAfter(c, d, x)
  BY MoveEffect
<1>2. local[c] = <<>>
  BY DEF LocalExact, Picking
<1>3. Append(<<>>, x) = <<x>>
  OBVIOUS
<1> QED  BY <1>1, <1>2, <1>3

(* A local queue is filled by one move and emptied by the pick after it. *)
LEMMA LocalStep == TypeOK /\ ExactlyOnce /\ [Next]_vars => LocalExact'
<1> SUFFICES ASSUME TypeOK, QueuesExact, LocalExact, RunningExact, [Next]_vars
             PROVE  LocalExact'
  BY DEF ExactlyOnce
<1>a. ASSUME NEW c \in Cpus, local[c] # <<>>  PROVE local[c][1] \in Tasks
  BY <1>a, ElementOfSeq DEF LocalExact, TypeOK
<1>0. ASSUME UNCHANGED local,
             \A t \in Tasks : where'[t] = "local" <=> where[t] = "local",
             \A t \in Tasks : where[t] = "local" => rq'[t] = rq[t],
             \A c \in Cpus : Picking(c) /\ local[c] # <<>> => Picking(c)'
      PROVE  LocalExact'
  BY <1>a, <1>0 DEF LocalExact
<1>1. ASSUME NEW t \in Tasks, SelectCpu(t)  PROVE LocalExact'
  BY <1>0, <1>1 DEF SelectCpu, TypeOK, Picking
<1>2. ASSUME NEW t \in Tasks, Enqueue(t)  PROVE LocalExact'
  BY <1>0, <1>2 DEF Enqueue, TypeOK, Picking
<1>3. ASSUME NEW t \in Tasks, Rename(t)  PROVE LocalExact'
  BY <1>0, <1>3 DEF Rename, Picking
<1>4. ASSUME NEW c \in Cpus, Expire(c)  PROVE LocalExact'
  BY <1>0, <1>4 DEF Expire, places, TypeOK, Picking
<1>5. ASSUME NEW c \in Cpus, Block(c)  PROVE LocalExact'
  <2>1. cur[c] \in Tasks /\ where[cur[c]] = "running"
    BY <1>5, NoneAssumption DEF Block, TypeOK, RunningExact
  <2> QED  BY <1>0, <1>5, <2>1 DEF Block, TypeOK, Picking
<1>6. ASSUME NEW c \in Cpus, WakeIdle(c)  PROVE LocalExact'
  BY <1>0, <1>6 DEF WakeIdle, places, TypeOK, Picking
<1>7. ASSUME NEW c \in Cpus, Dispatch(c)  PROVE LocalExact'
  <2>1. ASSUME NEW d \in Dsqs, phase[c] \in {"first", "second"}, MoveToLocal(c, d)
        PROVE  LocalExact'
    <3>1. PICK x \in Tasks :
            /\ where[x] = "queued"
            /\ where' = [where EXCEPT ![x] = "local"]
            /\ rq' = [rq EXCEPT ![x] = c]
            /\ local' = [local EXCEPT ![c] = <<x>>]
            /\ phase' = [phase EXCEPT ![c] = IF rq[x] = c THEN "pick" ELSE "pulled"]
      BY <2>1, MoveLocal
    <3>2. local[c] = <<>>
      BY <2>1 DEF LocalExact, Picking
    <3>3. ASSUME NEW b \in Cpus, local'[b] # <<>>
          PROVE  /\ Picking(b)' /\ Len(local'[b]) = 1
                 /\ where'[local'[b][1]] = "local" /\ rq'[local'[b][1]] = b
      <4>1. CASE b = c
        BY <3>1, <4>1 DEF TypeOK, Picking
      <4>2. CASE b # c
        <5>1. local'[b] = local[b] /\ local[b][1] \in Tasks /\ local[b][1] # x
          BY <1>a, <3>1, <3>3, <4>2 DEF LocalExact, TypeOK
        <5> QED  BY <3>1, <3>3, <4>2, <5>1 DEF LocalExact, TypeOK, Picking
      <4> QED  BY <4>1, <4>2
    <3>4. ASSUME NEW t \in Tasks, where'[t] = "local"
          PROVE  local'[rq'[t]] # <<>> /\ local'[rq'[t]][1] = t
      <4>1. CASE t = x
        BY <3>1, <4>1 DEF TypeOK
      <4>2. CASE t # x
        <5>1. where[t] = "local" /\ rq'[t] = rq[t] /\ rq[t] \in Cpus
          BY <3>1, <3>4, <4>2 DEF TypeOK
        <5>2. local[rq[t]] # <<>> /\ local[rq[t]][1] = t /\ rq[t] # c
          BY <3>2, <5>1 DEF LocalExact
        <5> QED  BY <3>1, <5>1, <5>2 DEF TypeOK
      <4> QED  BY <4>1, <4>2
    <3> QED  BY <3>3, <3>4 DEF LocalExact
  <2>2. ASSUME UNCHANGED <<where, rq, local>>, phase[c] \in {"first", "second"},
               NEW p \in Phases, phase' = [phase EXCEPT ![c] = p]
        PROVE  LocalExact'
    BY <1>0, <2>2 DEF Picking, TypeOK
  <2> QED  BY <1>7, <2>1, <2>2, DispatchCases DEF Phases
<1>8. ASSUME NEW c \in Cpus, RunNext(c)  PROVE LocalExact'
  <2>1. PICK h \in Tasks :
          /\ h = local[c][1] /\ where[h] = "local" /\ rq[h] = c
          /\ local' = [local EXCEPT ![c] = <<>>]
          /\ phase' = [phase EXCEPT ![c] = "exec"]
          /\ where'[h] = "running"
          /\ \A t \in Tasks \ {h, cur[c]} : where'[t] = where[t]
          /\ cur[c] # None => where'[cur[c]] = "queued"
          /\ rq' = rq
    BY <1>8, RunNextEffect
  <2>2. \A t \in Tasks : where'[t] = "local" => where[t] = "local" /\ t # h
    BY <2>1, NoneAssumption
  <2>3. \A t \in Tasks : where[t] = "local" /\ t # h => where'[t] = "local" /\ rq[t] # c
    <3>1. ASSUME NEW t \in Tasks, where[t] = "local", t # h
          PROVE  where'[t] = "local" /\ rq[t] # c
      <4>1. rq[t] # c
        BY <2>1, <3>1 DEF LocalExact
      <4>2. t # cur[c]
        <5>1. cur[c] # None => where[cur[c]] = "running"
          BY DEF RunningExact
        <5> QED  BY <3>1, <5>1, NoneAssumption
      <4> QED  BY <2>1, <3>1, <4>1, <4>2
    <3> QED  BY <3>1
  <2>4. ASSUME NEW b \in Cpus, local'[b] # <<>>
        PROVE  /\ Picking(b)' /\ Len(local'[b]) = 1
               /\ where'[local'[b][1]] = "local" /\ rq'[local'[b][1]] = b
    <3>1. b # c /\ local'[b] = local[b] /\ local[b][1] \in Tasks
      BY <1>a, <2>1, <2>4 DEF TypeOK
    <3>2. local[b][1] # h
      BY <2>1, <2>4, <3>1 DEF LocalExact
    <3>3. Picking(b) /\ Len(local[b]) = 1 /\ where[local[b][1]] = "local" /\ rq[local[b][1]] = b
      BY <2>4, <3>1 DEF LocalExact
    <3>4. phase'[b] = phase[b] /\ where'[local[b][1]] = "local"
      BY <2>1, <2>3, <3>1, <3>2, <3>3 DEF TypeOK
    <3> QED  BY <2>1, <3>1, <3>3, <3>4 DEF Picking
  <2>5. ASSUME NEW t \in Tasks, where'[t] = "local"
        PROVE  local'[rq'[t]] # <<>> /\ local'[rq'[t]][1] = t
    BY <2>1, <2>2, <2>3, <2>5 DEF LocalExact, TypeOK
  <2> QED  BY <2>4, <2>5 DEF LocalExact
<1>9. ASSUME NEW c \in Cpus, KeepPrev(c)  PROVE LocalExact'
  BY <1>0, <1>9 DEF KeepPrev, places, TypeOK, Picking
<1>10. ASSUME NEW c \in Cpus, GoIdle(c)  PROVE LocalExact'
  BY <1>0, <1>10 DEF GoIdle, places, TypeOK, Picking
<1>11. CASE UNCHANGED vars
  BY <1>0, <1>11 DEF vars, Picking
<1> QED
  BY <1>1, <1>2, <1>3, <1>4, <1>5, <1>6, <1>7, <1>8, <1>9, <1>10, <1>11 DEF Next, Pick
(* Every task that runs does so on the one CPU of its run queue. *)
LEMMA RunningStep == TypeOK /\ ExactlyOnce /\ [Next]_vars => RunningExact'
<1> SUFFICES ASSUME TypeOK, QueuesExact, LocalExact, RunningExact, [Next]_vars
             PROVE  RunningExact'
  BY DEF ExactlyOnce
<1>a. \A c \in Cpus : cur[c] # None => cur[c] \in Tasks
  BY DEF TypeOK
<1>0. ASSUME UNCHANGED cur,
             \A t \in Tasks : where'[t] = "running" <=> where[t] = "running",
             \A t \in Tasks : where[t] = "running" => rq'[t] = rq[t],
             \A c \in Cpus : phase'[c] = "idle" => cur[c] = None,
             \A c \in Cpus : phase'[c] = "exec" => cur[c] # None
      PROVE  RunningExact'
  BY <1>a, <1>0 DEF RunningExact
<1>1. ASSUME NEW t \in Tasks, SelectCpu(t)  PROVE RunningExact'
  BY <1>0, <1>1 DEF SelectCpu, TypeOK, RunningExact
<1>2. ASSUME NEW t \in Tasks, Enqueue(t)  PROVE RunningExact'
  BY <1>0, <1>2 DEF Enqueue, TypeOK, RunningExact
<1>3. ASSUME NEW t \in Tasks, Rename(t)  PROVE RunningExact'
  BY <1>0, <1>3 DEF Rename, RunningExact
<1>4. ASSUME NEW c \in Cpus, Expire(c)  PROVE RunningExact'
  BY <1>0, <1>4 DEF Expire, places, TypeOK, RunningExact
<1>5. ASSUME NEW c \in Cpus, Block(c)  PROVE RunningExact'
  <2>1. cur[c] \in Tasks /\ where[cur[c]] = "running" /\ rq[cur[c]] = c
    BY <1>5, NoneAssumption DEF Block, TypeOK, RunningExact
  <2>2. /\ where' = [where EXCEPT ![cur[c]] = "blocked"]
        /\ cur' = [cur EXCEPT ![c] = None]
        /\ phase' = [phase EXCEPT ![c] = "first"]
        /\ rq' = rq
    BY <1>5 DEF Block
  <2>3. ASSUME NEW b \in Cpus, cur'[b] # None
        PROVE  where'[cur'[b]] = "running" /\ rq'[cur'[b]] = b
    <3>1. b # c /\ cur'[b] = cur[b]
      BY <2>2, <2>3 DEF TypeOK
    <3>2. cur[b] \in Tasks /\ where[cur[b]] = "running" /\ rq[cur[b]] = b
      BY <1>a, <2>3, <3>1 DEF RunningExact
    <3> QED  BY <2>1, <2>2, <3>1, <3>2 DEF TypeOK
  <2>4. ASSUME NEW t \in Tasks, where'[t] = "running"  PROVE cur'[rq'[t]] = t
    <3>1. t # cur[c] /\ where[t] = "running"
      BY <2>1, <2>2, <2>4 DEF TypeOK
    <3>2. cur[rq[t]] = t /\ rq[t] # c
      BY <3>1 DEF RunningExact
    <3> QED  BY <2>2, <3>2 DEF TypeOK
  <2>5. \A b \in Cpus : /\ phase'[b] = "idle" => cur'[b] = None
                        /\ phase'[b] = "exec" => cur'[b] # None
    BY <2>2 DEF RunningExact, TypeOK
  <2> QED  BY <2>3, <2>4, <2>5 DEF RunningExact
<1>6. ASSUME NEW c \in Cpus, WakeIdle(c)  PROVE RunningExact'
  BY <1>0, <1>6 DEF WakeIdle, places, TypeOK, RunningExact
<1>7. ASSUME NEW c \in Cpus, Dispatch(c)  PROVE RunningExact'
  <2>1. ASSUME NEW d \in Dsqs, phase[c] \in {"first", "second"}, MoveToLocal(c, d), cur' = cur
        PROVE  RunningExact'
    <3>1. PICK x \in Tasks :
            /\ where[x] = "queued"
            /\ where' = [where EXCEPT ![x] = "local"]
            /\ rq' = [rq EXCEPT ![x] = c]
            /\ phase' = [phase EXCEPT ![c] = IF rq[x] = c THEN "pick" ELSE "pulled"]
      BY <2>1, MoveLocal
    <3> QED  BY <1>0, <2>1, <3>1 DEF TypeOK, RunningExact
  <2>2. ASSUME UNCHANGED <<where, rq, cur>>, NEW p \in {"second", "pick"},
               phase' = [phase EXCEPT ![c] = p]
        PROVE  RunningExact'
    BY <1>0, <2>2 DEF TypeOK, RunningExact
  <2> QED  BY <1>7, <2>1, <2>2, DispatchCases
<1>8. ASSUME NEW c \in Cpus, RunNext(c)  PROVE RunningExact'
  <2>1. PICK h \in Tasks :
          /\ where[h] = "local" /\ rq[h] = c
          /\ cur' = [cur EXCEPT ![c] = h]
          /\ phase' = [phase EXCEPT ![c] = "exec"]
          /\ where'[h] = "running"
          /\ \A t \in Tasks \ {h, cur[c]} : where'[t] = where[t]
          /\ cur[c] # None => where'[cur[c]] = "queued"
          /\ rq' = rq
    BY <1>8, RunNextEffect
  <2>2. ASSUME NEW b \in Cpus, cur'[b] # None
        PROVE  where'[cur'[b]] = "running" /\ rq'[cur'[b]] = b
    <3>1. CASE b = c
      BY <2>1, <3>1 DEF TypeOK
    <3>2. CASE b # c
      <4>1. cur'[b] = cur[b] /\ cur[b] \in Tasks
        BY <1>a, <2>1, <2>2, <3>2 DEF TypeOK
      <4>2. where[cur[b]] = "running" /\ rq[cur[b]] = b
        BY <2>2, <4>1 DEF RunningExact
      <4>3. cur[b] # cur[c]
        BY <3>2, <4>1, <4>2, NoneAssumption DEF RunningExact
      <4> QED  BY <2>1, <4>1, <4>2, <4>3
    <3> QED  BY <3>1, <3>2
  <2>3. ASSUME NEW t \in Tasks, where'[t] = "running"  PROVE cur'[rq'[t]] = t
    <3>1. CASE t = h
      BY <2>1, <3>1 DEF TypeOK
    <3>2. CASE t # h
      <4>1. t # cur[c]
        BY <2>1, <2>3, NoneAssumption
      <4>2. cur[rq[t]] = t /\ rq[t] # c
        BY <2>1, <2>3, <3>2, <4>1 DEF RunningExact
      <4> QED  BY <2>1, <4>2 DEF TypeOK
    <3> QED  BY <3>1, <3>2
  <2>4. \A b \in Cpus : /\ phase'[b] = "idle" => cur'[b] = None
                        /\ phase'[b] = "exec" => cur'[b] # None
    BY <2>1, NoneAssumption DEF RunningExact, TypeOK
  <2> QED  BY <2>2, <2>3, <2>4 DEF RunningExact
<1>9. ASSUME NEW c \in Cpus, KeepPrev(c)  PROVE RunningExact'
  BY <1>0, <1>9 DEF KeepPrev, places, TypeOK, RunningExact
<1>10. ASSUME NEW c \in Cpus, GoIdle(c)  PROVE RunningExact'
  BY <1>0, <1>10 DEF GoIdle, places, TypeOK, RunningExact
<1>11. CASE UNCHANGED vars
  BY <1>0, <1>11 DEF vars, RunningExact
<1> QED
  BY <1>1, <1>2, <1>3, <1>4, <1>5, <1>6, <1>7, <1>8, <1>9, <1>10, <1>11 DEF Next, Pick

-----------------------------------------------------------------------------
(* A run queue change respects the affinity mask. *)
LEMMA AffinityStep == TypeOK /\ ExactlyOnce /\ Affinity /\ [Next]_vars => Affinity'
<1> SUFFICES ASSUME TypeOK, QueuesExact, LocalExact, RunningExact, Affinity, [Next]_vars
             PROVE  Affinity'
  BY DEF ExactlyOnce
<1>1. ASSUME NEW t \in Tasks, SelectCpu(t)  PROVE Affinity'
  BY <1>1 DEF SelectCpu, TypeOK, Affinity
<1>2. ASSUME NEW c \in Cpus, Dispatch(c)  PROVE Affinity'
  <2>1. ASSUME NEW d \in Dsqs, phase[c] \in {"first", "second"}, MoveToLocal(c, d)
        PROVE  Affinity'
    <3>1. PICK x \in Tasks : c \in Allowed[x] /\ rq' = [rq EXCEPT ![x] = c]
      BY <2>1, MoveLocal
    <3> QED  BY <3>1 DEF TypeOK, Affinity
  <2>2. CASE UNCHANGED rq
    BY <2>2 DEF Affinity
  <2> QED  BY <1>2, <2>1, <2>2, DispatchCases
<1>3. CASE UNCHANGED rq
  BY <1>3 DEF Affinity
<1>4. ASSUME NEW t \in Tasks, Enqueue(t) \/ Rename(t)  PROVE UNCHANGED rq
  BY <1>4 DEF Enqueue, Rename
<1>5. ASSUME NEW c \in Cpus, Expire(c) \/ Block(c) \/ WakeIdle(c) \/ Pick(c)
      PROVE  UNCHANGED rq
  BY <1>5 DEF Expire, Block, WakeIdle, Pick, RunNext, KeepPrev, GoIdle, places
<1> QED  BY <1>1, <1>2, <1>3, <1>4, <1>5 DEF Next, vars
-----------------------------------------------------------------------------
(* A CPU that passed a task over comes to that task's queue next. *)
LEMMA TurnStep == TypeOK /\ ExactlyOnce /\ TurnInv /\ [Next]_vars => TurnInv'
<1> SUFFICES ASSUME TypeOK, QueuesExact, LocalExact, RunningExact, TurnInv, [Next]_vars
             PROVE  TurnInv'
  BY DEF ExactlyOnce
<1>0. ASSUME UNCHANGED <<bypass, turn>>,
             \A t \in Tasks : where[t] = "queued" => where'[t] = "queued" /\ at'[t] = at[t],
             \A c \in Cpus : phase'[c] = "second" => phase[c] = "second"
      PROVE  TurnInv'
  BY <1>0 DEF TurnInv
<1>1. ASSUME NEW t \in Tasks, SelectCpu(t)  PROVE TurnInv'
  BY <1>0, <1>1 DEF SelectCpu, TypeOK
<1>2. ASSUME NEW t \in Tasks, Enqueue(t)  PROVE TurnInv'
  BY <1>0, <1>2 DEF Enqueue, Insert, TypeOK
<1>3. ASSUME NEW t \in Tasks, Rename(t)  PROVE TurnInv'
  BY <1>0, <1>3 DEF Rename
<1>4. ASSUME NEW c \in Cpus, Expire(c)  PROVE TurnInv'
  BY <1>0, <1>4 DEF Expire, places, TypeOK
<1>5. ASSUME NEW c \in Cpus, Block(c)  PROVE TurnInv'
  <2>1. cur[c] \in Tasks /\ where[cur[c]] = "running"
    BY <1>5, NoneAssumption DEF Block, TypeOK, RunningExact
  <2> QED  BY <1>0, <1>5, <2>1 DEF Block, TypeOK
<1>6. ASSUME NEW c \in Cpus, WakeIdle(c)  PROVE TurnInv'
  BY <1>0, <1>6 DEF WakeIdle, places, TypeOK
<1>7. ASSUME NEW c \in Cpus, Dispatch(c)  PROVE TurnInv'
  <2>1. ASSUME NEW d \in Dsqs, MoveToLocal(c, d), at' = at,
               turn' = [turn EXCEPT ![c] = Other(d)],
               \/ phase[c] = "first" /\ d = turn[c]
               \/ phase[c] = "second" /\ d = Other(turn[c])
        PROVE  TurnInv'
    <3>1. PICK x \in Tasks :
            /\ where[x] = "queued"
            /\ where' = [where EXCEPT ![x] = "local"]
            /\ phase' = [phase EXCEPT ![c] = IF rq[x] = c THEN "pick" ELSE "pulled"]
            /\ bypass' = BypassAfter(c, d, x)
      BY <2>1, MoveLocal
    <3>2. SUFFICES ASSUME NEW b \in Cpus, NEW t \in Tasks, bypass'[b][t] # 0
                   PROVE  /\ bypass'[b][t] = 1 /\ where'[t] = "queued" /\ b \in Allowed[t]
                          /\ turn'[b] = at'[t] /\ phase'[b] # "second"
      BY DEF TurnInv
    <3>3. t # x
      BY <3>1, <3>2 DEF BypassAfter
    <3>4. CASE b # c
      <4>1. bypass[b][t] # 0 /\ bypass'[b][t] = bypass[b][t]
        BY <3>1, <3>2, <3>3, <3>4 DEF BypassAfter
      <4>2. turn'[b] = turn[b] /\ phase'[b] = phase[b] /\ where'[t] = where[t]
        BY <2>1, <3>1, <3>3, <3>4 DEF TypeOK
      <4> QED  BY <2>1, <4>1, <4>2 DEF TurnInv
    <3>5. CASE b = c
      <4>1. /\ at[t] # d /\ where[t] = "queued" /\ c \in Allowed[t]
            /\ bypass'[b][t] = bypass[c][t] + 1
        BY <3>1, <3>2, <3>3, <3>5 DEF BypassAfter
      <4>2. at[t] = Other(d) /\ d = Other(Other(d))
        BY <4>1 DEF TypeOK, Dsqs, Other
      <4>3. bypass[c][t] = 0
        <5>1. CASE phase[c] = "first" /\ d = turn[c]
          BY <4>1, <5>1 DEF TurnInv
        <5>2. CASE phase[c] = "second"
          BY <5>2 DEF TurnInv
        <5> QED  BY <2>1, <5>1, <5>2
      <4>4. turn'[c] = Other(d) /\ phase'[c] # "second" /\ where'[t] = "queued"
        BY <2>1, <3>1, <3>3, <4>1 DEF TypeOK
      <4> QED  BY <2>1, <3>5, <4>1, <4>2, <4>3, <4>4
    <3> QED  BY <3>4, <3>5
  <2>2. ASSUME phase[c] = "first", NoneMovable(c, turn[c]),
               phase' = [phase EXCEPT ![c] = "second"],
               UNCHANGED <<where, at, turn, bypass>>
        PROVE  TurnInv'
    <3>1. \A t \in Tasks : where[t] = "queued" /\ at[t] = turn[c] => c \notin Allowed[t]
      BY <2>2 DEF NoneMovable, Movable, QueuesExact
    <3>2. \A t \in Tasks : bypass[c][t] = 0
      BY <3>1 DEF TurnInv
    <3> QED  BY <2>2, <3>2 DEF TurnInv, TypeOK
  <2>3. ASSUME phase' = [phase EXCEPT ![c] = "pick"], UNCHANGED <<where, at, turn, bypass>>
        PROVE  TurnInv'
    BY <1>0, <2>3 DEF TypeOK
  <2> QED  BY <1>7, <2>1, <2>2, <2>3, DispatchCases
<1>8. ASSUME NEW c \in Cpus, RunNext(c)  PROVE TurnInv'
  <2>1. PICK h \in Tasks :
          /\ where[h] = "local"
          /\ phase' = [phase EXCEPT ![c] = "exec"]
          /\ \A t \in Tasks \ {h, cur[c]} : where'[t] = where[t]
          /\ \A t \in Tasks : t # cur[c] => at'[t] = at[t]
          /\ UNCHANGED <<turn, bypass>>
    BY <1>8, RunNextEffect
  <2>2. \A t \in Tasks : where[t] = "queued" => t # h /\ t # cur[c]
    BY <2>1, NoneAssumption DEF RunningExact
  <2> QED  BY <1>0, <2>1, <2>2 DEF TypeOK
<1>9. ASSUME NEW c \in Cpus, KeepPrev(c)  PROVE TurnInv'
  BY <1>0, <1>9 DEF KeepPrev, places, TypeOK
<1>10. ASSUME NEW c \in Cpus, GoIdle(c)  PROVE TurnInv'
  BY <1>0, <1>10 DEF GoIdle, places, TypeOK
<1>11. CASE UNCHANGED vars
  BY <1>0, <1>11 DEF vars
<1> QED
  BY <1>1, <1>2, <1>3, <1>4, <1>5, <1>6, <1>7, <1>8, <1>9, <1>10, <1>11 DEF Next, Pick

-----------------------------------------------------------------------------
(* No CPU goes idle on a task that waits for it. *)
LEMMA StrandStep ==
    TypeOK /\ ExactlyOnce /\ Affinity /\ StrandInv /\ [Next]_vars => StrandInv'
<1> SUFFICES ASSUME TypeOK, QueuesExact, LocalExact, RunningExact, Affinity, StrandInv,
                    [Next]_vars
             PROVE  StrandInv'
  BY DEF ExactlyOnce
<1> USE DEF StrandInv, NoStranded
<1>1. ASSUME NEW t \in Tasks, SelectCpu(t)  PROVE StrandInv'
  <2>1. \A u \in Tasks : where'[u] = "queued" => where[u] = "queued" /\ rq'[u] = rq[u]
    BY <1>1 DEF SelectCpu, TypeOK
  <2>2. UNCHANGED <<at, local, phase, turn, resched>>
    BY <1>1 DEF SelectCpu
  <2> QED  BY <2>1, <2>2
<1>2. ASSUME NEW t \in Tasks, Enqueue(t)  PROVE StrandInv'
  <2>1. /\ \A u \in Tasks \ {t} : where'[u] = where[u] /\ at'[u] = at[u]
        /\ UNCHANGED <<rq, local, phase, turn>>
        /\ phase[rq[t]] \in {"idle", "exec", "pulled"}
    BY <1>2 DEF Enqueue, Insert, Unlocked, TypeOK
  <2>2. /\ phase[rq[t]] = "idle" => resched'[rq[t]]
        /\ \A c \in Cpus : c # rq[t] => resched'[c] = resched[c]
    BY <1>2 DEF Enqueue, TypeOK
  <2>3. \A u \in Tasks : rq[u] \in Cpus
    BY DEF TypeOK
  <2> QED  BY <2>1, <2>2, <2>3
<1>3. ASSUME NEW t \in Tasks, Rename(t)  PROVE StrandInv'
  BY <1>3 DEF Rename
<1>4. ASSUME NEW c \in Cpus, Expire(c)  PROVE StrandInv'
  BY <1>4 DEF Expire, places, TypeOK
<1>5. ASSUME NEW c \in Cpus, Block(c)  PROVE StrandInv'
  <2>1. \A u \in Tasks : where'[u] = "queued" => where[u] = "queued"
    BY <1>5 DEF Block, TypeOK
  <2> QED  BY <1>5, <2>1 DEF Block, TypeOK
<1>6. ASSUME NEW c \in Cpus, WakeIdle(c)  PROVE StrandInv'
  BY <1>6 DEF WakeIdle, places, TypeOK
<1>7. ASSUME NEW c \in Cpus, Dispatch(c)  PROVE StrandInv'
  <2>a. \A t \in Tasks : rq[t] \in Cpus /\ at[t] \in Dsqs
    BY DEF TypeOK
  <2>1. ASSUME NEW d \in Dsqs, phase[c] \in {"first", "second"}, MoveToLocal(c, d),
               UNCHANGED <<at, resched>>,
               turn' = [turn EXCEPT ![c] = Other(d)]
        PROVE  StrandInv'
    <3>1. PICK x \in Tasks :
            /\ where' = [where EXCEPT ![x] = "local"]
            /\ rq' = [rq EXCEPT ![x] = c]
            /\ local' = [local EXCEPT ![c] = <<x>>]
            /\ phase' = [phase EXCEPT ![c] = IF rq[x] = c THEN "pick" ELSE "pulled"]
      BY <2>1, MoveLocal
    <3>2. \A t \in Tasks : where'[t] = "queued" => where[t] = "queued" /\ rq'[t] = rq[t]
      BY <3>1 DEF TypeOK
    <3>3. /\ \A b \in Cpus \ {c} :
                 phase'[b] = phase[b] /\ local'[b] = local[b] /\ turn'[b] = turn[b]
          /\ phase'[c] \in {"pick", "pulled"} /\ local'[c] # <<>>
      BY <2>1, <3>1 DEF TypeOK
    <3>4. \A b \in Cpus : phase'[b] = "pulled" => local'[b] # <<>>
      BY <3>3
    <3>5. \A t \in Tasks : where'[t] = "queued" =>
             /\ phase'[rq[t]] = "second" => at[t] # turn'[rq[t]]
             /\ phase'[rq[t]] = "pick" => local'[rq[t]] # <<>>
             /\ phase'[rq[t]] = "idle" => resched[rq[t]]
      BY <2>a, <3>2, <3>3
    <3> QED  BY <2>1, <3>2, <3>4, <3>5
  <2>2. ASSUME NEW d \in Dsqs, NoneMovable(c, d)
        PROVE  \A t \in Tasks : where[t] = "queued" /\ rq[t] = c => at[t] # d
    BY <2>2 DEF NoneMovable, Movable, QueuesExact, Affinity
  <2>3. ASSUME NoneMovable(c, turn[c]), phase' = [phase EXCEPT ![c] = "second"],
               UNCHANGED <<where, rq, at, local, turn, resched>>
        PROVE  StrandInv'
    <3>1. turn[c] \in Dsqs
      BY DEF TypeOK
    <3>2. /\ phase'[c] = "second" /\ \A b \in Cpus \ {c} : phase'[b] = phase[b]
      BY <2>3 DEF TypeOK
    <3> QED  BY <2>a, <2>2, <2>3, <3>1, <3>2
  <2>4. ASSUME phase[c] = "second", NoneMovable(c, Other(turn[c])),
               phase' = [phase EXCEPT ![c] = "pick"],
               UNCHANGED <<where, rq, at, local, turn, resched>>
        PROVE  StrandInv'
    <3>1. turn[c] \in Dsqs /\ Other(turn[c]) \in Dsqs
      BY DEF TypeOK, Other, Dsqs
    <3>2. \A e \in Dsqs : e = turn[c] \/ e = Other(turn[c])
      BY <3>1 DEF Dsqs, Other
    <3>3. \A t \in Tasks : where[t] = "queued" => rq[t] # c
      BY <2>a, <2>2, <2>4, <3>1, <3>2
    <3>4. /\ phase'[c] = "pick" /\ \A b \in Cpus \ {c} : phase'[b] = phase[b]
      BY <2>4 DEF TypeOK
    <3> QED  BY <2>a, <2>4, <3>3, <3>4
  <2> QED  BY <1>7, <2>1, <2>3, <2>4, DispatchCases
<1>8. ASSUME NEW c \in Cpus, RunNext(c)  PROVE StrandInv'
  <2>1. PICK h \in Tasks :
          /\ where'[h] = "running" /\ rq[h] = c
          /\ local' = [local EXCEPT ![c] = <<>>]
          /\ phase' = [phase EXCEPT ![c] = "exec"]
          /\ \A t \in Tasks \ {h, cur[c]} : where'[t] = where[t]
          /\ \A t \in Tasks : t # cur[c] => at'[t] = at[t]
          /\ UNCHANGED <<rq, turn>>
    BY <1>8, RunNextEffect
  <2>2. resched' = [resched EXCEPT ![c] = FALSE]
    BY <1>8 DEF RunNext
  <2>3. /\ phase'[c] = "exec"
        /\ \A b \in Cpus \ {c} : /\ phase'[b] = phase[b] /\ local'[b] = local[b]
                                 /\ resched'[b] = resched[b]
    BY <2>1, <2>2 DEF TypeOK
  <2>4. \A t \in Tasks : rq[t] # c =>
           where'[t] = where[t] /\ at'[t] = at[t] /\ rq[t] \in Cpus \ {c}
    BY <2>1, NoneAssumption DEF RunningExact, TypeOK
  <2>5. \A b \in Cpus : phase'[b] = "pulled" => local'[b] # <<>>
    BY <2>3
  <2>6. ASSUME NEW t \in Tasks, where'[t] = "queued"
        PROVE  /\ phase'[rq[t]] = "second" => at'[t] # turn[rq[t]]
               /\ phase'[rq[t]] = "pick" => local'[rq[t]] # <<>>
               /\ phase'[rq[t]] = "idle" => resched'[rq[t]]
    <3>1. CASE rq[t] = c
      BY <2>3, <3>1
    <3>2. CASE rq[t] # c
      BY <2>3, <2>4, <2>6, <3>2
    <3> QED  BY <3>1, <3>2
  <2> QED  BY <2>1, <2>5, <2>6
<1>9. ASSUME NEW c \in Cpus, KeepPrev(c)  PROVE StrandInv'
  BY <1>9 DEF KeepPrev, places, TypeOK
<1>10. ASSUME NEW c \in Cpus, GoIdle(c)  PROVE StrandInv'
  <2>1. /\ phase' = [phase EXCEPT ![c] = "idle"] /\ local[c] = <<>> /\ Picking(c)
        /\ UNCHANGED <<where, rq, at, local, turn, resched>>
    BY <1>10 DEF GoIdle, places
  <2>2. \A t \in Tasks : where[t] = "queued" => rq[t] # c
    BY <2>1 DEF Picking
  <2> QED  BY <2>1, <2>2 DEF TypeOK
<1>11. CASE UNCHANGED vars
  BY <1>11 DEF vars
<1> QED
  BY <1>1, <1>2, <1>3, <1>4, <1>5, <1>6, <1>7, <1>8, <1>9, <1>10, <1>11 DEF Next, Pick
-----------------------------------------------------------------------------
(* The initial states satisfy the inductive invariant: nothing is queued,  *)
(* and no CPU has passed anything over.                                    *)
LEMMA InitIInv == Init => IInv
<1> SUFFICES ASSUME Init  PROVE IInv
  OBVIOUS
<1>1. TypeOK
  <2>1. \A t \in Tasks : rq[t] \in Cpus
    BY AllowedAssumption DEF Init
  <2>2. <<>> \in Seq(Tasks)
    BY EmptySeq
  <2> QED  BY <2>1, <2>2, KeyAssumption DEF Init, TypeOK, Places, Phases, Dsqs
<1>2. QueuesExact
  <2>1. \A d \in Dsqs : dsq[d] = <<>> /\ Len(dsq[d]) = 0
    BY EmptySeq DEF Init
  <2> QED  BY <2>1 DEF Init, QueuesExact
<1>3. LocalExact /\ RunningExact
  BY DEF Init, LocalExact, RunningExact
<1>4. Affinity
  BY DEF Init, Affinity
<1>5. TurnInv /\ StrandInv
  BY <1>1 DEF Init, TurnInv, StrandInv, NoStranded, TypeOK
<1> QED  BY <1>1, <1>2, <1>3, <1>4, <1>5 DEF IInv, ExactlyOnce

(* IInv is an invariant of the scheduler. *)
THEOREM Invariance == Spec => []IInv
<1>1. Init => IInv
  BY InitIInv
<1>2. IInv /\ [Next]_vars => IInv'
  BY TypeStep, QueuesStep, LocalStep, RunningStep, AffinityStep, TurnStep, StrandStep
  DEF IInv, ExactlyOnce
<1> QED  BY <1>1, <1>2, PTL DEF Spec

(* The handlers' and the kernel's state keeps its types. *)
THEOREM TypeCorrect == Spec => []TypeOK
<1>1. IInv => TypeOK
  BY DEF IInv
<1> QED  BY <1>1, Invariance, PTL

(* enqueue and dispatch, on any number of CPUs, neither lose a task nor    *)
(* hand it out twice.                                                      *)
THEOREM NoTaskLostOrDoubled == Spec => []ExactlyOnce
<1>1. IInv => ExactlyOnce
  BY DEF IInv
<1> QED  BY <1>1, Invariance, PTL

(* No task is moved to, or run by, a CPU outside its affinity mask. *)
THEOREM AffinityRespected == Spec => []Affinity
<1>1. IInv => Affinity
  BY DEF IInv
<1> QED  BY <1>1, Invariance, PTL

(* The turn kept by dispatch bounds how often a queue is passed over by a  *)
(* CPU that could have moved one of its tasks: once.                       *)
THEOREM Alternation == Spec => []AlternationBound
<1>1. IInv => AlternationBound
  <2> SUFFICES ASSUME IInv, NEW c \in Cpus, NEW t \in Tasks  PROVE bypass[c][t] <= 1
    BY DEF AlternationBound
  <2>1. bypass[c][t] = 0 \/ bypass[c][t] = 1
    BY DEF IInv, TurnInv
  <2> QED  BY <2>1
<1> QED  BY <1>1, Invariance, PTL

(* A CPU that goes idle leaves no task of its run queue in either queue.   *)
THEOREM NothingStranded == Spec => []NoStranded
<1>1. IInv => NoStranded
  BY DEF IInv, StrandInv
<1> QED  BY <1>1, Invariance, PTL
-----------------------------------------------------------------------------
(* A step that changes no task's promised state and no CPU's task is       *)
(* invisible to CpuSharing.                                                *)
LEMMA Invisible ==
    ASSUME UNCHANGED cur, \A t \in Tasks : Promised(where'[t]) = Promised(where[t])
    PROVE  UNCHANGED Sharing!vars
BY DEF Sharing!vars

(* A step of SharedDsq is a step of CpuSharing, or invisible to it. *)
LEMMA SharingStep == IInv /\ [Next]_vars => [Sharing!Next]_(Sharing!vars)
<1> SUFFICES ASSUME TypeOK, QueuesExact, LocalExact, RunningExact, Affinity, [Next]_vars
             PROVE  [Sharing!Next]_(Sharing!vars)
  BY DEF IInv, ExactlyOnce
<1> USE DEF Promised
<1>0. where \in [Tasks -> Places] /\ cur \in [Cpus -> Tasks \cup {None}]
  BY DEF TypeOK
<1>1. ASSUME NEW t \in Tasks, SelectCpu(t)  PROVE Sharing!Next
  <2>1. where[t] = "blocked" /\ where' = [where EXCEPT ![t] = "waking"] /\ cur' = cur
    BY <1>1 DEF SelectCpu
  <2>2. Sharing!Wake(t)
    BY <1>0, <2>1 DEF Sharing!Wake
  <2> QED  BY <2>2 DEF Sharing!Next
<1>2. ASSUME NEW t \in Tasks, Enqueue(t)  PROVE UNCHANGED Sharing!vars
  <2>1. where[t] = "waking" /\ where' = [where EXCEPT ![t] = "queued"] /\ cur' = cur
    BY <1>2 DEF Enqueue
  <2> QED  BY <1>0, <2>1, Invisible
<1>3. ASSUME UNCHANGED <<where, cur>>  PROVE UNCHANGED Sharing!vars
  BY <1>3, Invisible
<1>4. ASSUME NEW c \in Cpus, Block(c)  PROVE Sharing!Next
  <2>1. /\ cur[c] \in Tasks
        /\ where' = [where EXCEPT ![cur[c]] = "blocked"] /\ cur' = [cur EXCEPT ![c] = None]
    BY <1>4, NoneAssumption DEF Block, TypeOK, RunningExact
  <2>2. Sharing!Sleep(c)
    BY <1>0, <2>1, NoneAssumption DEF Sharing!Sleep
  <2> QED  BY <2>2 DEF Sharing!Next
<1>5. ASSUME NEW c \in Cpus, Dispatch(c)  PROVE UNCHANGED Sharing!vars
  <2>1. ASSUME NEW d \in Dsqs, phase[c] \in {"first", "second"}, MoveToLocal(c, d), cur' = cur
        PROVE  UNCHANGED Sharing!vars
    <3>1. PICK x \in Tasks : where[x] = "queued" /\ where' = [where EXCEPT ![x] = "local"]
      BY <2>1, MoveLocal
    <3> QED  BY <1>0, <2>1, <3>1, Invisible
  <2> QED  BY <1>3, <1>5, <2>1, DispatchCases
<1>6. ASSUME NEW c \in Cpus, RunNext(c)  PROVE Sharing!Next
  <2>1. PICK h \in Tasks :
          /\ where[h] = "local" /\ rq[h] = c
          /\ cur' = [cur EXCEPT ![c] = h]
          /\ where'[h] = "running"
          /\ \A t \in Tasks \ {h, cur[c]} : where'[t] = where[t]
          /\ cur[c] # None => where'[cur[c]] = "queued"
    BY <1>6, RunNextEffect
  <2>2. c \in Allowed[h]
    BY <2>1 DEF Affinity
  <2>3. CASE cur[c] = None
    <3>1. \A t \in Tasks : Promised(where'[t]) = IF t = h THEN "running" ELSE Promised(where[t])
      BY <2>1, <2>3, NoneAssumption
    <3>2. Sharing!Start(c, h)
      BY <2>1, <2>2, <2>3, <3>1 DEF Sharing!Start
    <3> QED  BY <3>2 DEF Sharing!Next
  <2>4. CASE cur[c] # None
    <3>1. cur[c] \in Tasks /\ where[cur[c]] = "running" /\ cur[c] # h
      BY <1>0, <2>1, <2>4 DEF RunningExact
    <3>2. \A t \in Tasks : Promised(where'[t]) =
             IF t = cur[c] THEN "waiting" ELSE IF t = h THEN "running" ELSE Promised(where[t])
      BY <2>1, <2>4, <3>1
    <3>3. Sharing!Switch(c, h)
      BY <2>1, <2>2, <2>4, <3>1, <3>2 DEF Sharing!Switch
    <3> QED  BY <3>3 DEF Sharing!Next
  <2> QED  BY <2>3, <2>4
<1>7. ASSUME NEW t \in Tasks, Rename(t)  PROVE UNCHANGED <<where, cur>>
  BY <1>7 DEF Rename
<1>8. ASSUME NEW c \in Cpus, Expire(c) \/ WakeIdle(c) \/ KeepPrev(c) \/ GoIdle(c)
      PROVE  UNCHANGED <<where, cur>>
  BY <1>8 DEF Expire, WakeIdle, KeepPrev, GoIdle, places
<1> QED
  BY <1>1, <1>2, <1>3, <1>4, <1>5, <1>6, <1>7, <1>8 DEF Next, Pick, vars

(* The two-queue scheduler implements CpuSharing.  The invariant is what   *)
(* makes a pick from a local queue a start of one waiting task, on a CPU   *)
(* the task may use.                                                       *)
THEOREM ImplementsSharing == Spec => SharesCpus
<1>1. Init => Sharing!Init
  BY DEF Init, Sharing!Init, Promised
<1>2. IInv /\ [Next]_vars => [Sharing!Next]_(Sharing!vars)
  BY SharingStep
<1> QED  BY <1>1, <1>2, Invariance, PTL DEF Spec, SharesCpus, Sharing!Spec
-----------------------------------------------------------------------------
(* The task that was moved last, and the one that runs when no other was   *)
(* moved since, belong to the queue that is not next.                      *)
GoneRound ==
    \A t \in Tasks :
        where[t] = "local" \/ (where[t] = "running" /\ local[TheCpu] = <<>>)
            => at[t] = Other(turn[TheCpu])

(* The team that is one slice ahead is not next. *)
Balance ==
    /\ lead \in -1..1
    /\ lead = 1 => turn[TheCpu] = 1
    /\ lead = -1 => turn[TheCpu] = 0

(* Whoever was dispatched while u waited is behind u when it waits again.  *)
InTurn ==
    \A d \in Dsqs : \A i, j \in 1..Len(dsq[d]) : dsq[d][j] \in over[dsq[d][i]] => i < j

RaceInv == IInv /\ GoneRound /\ Balance /\ InTurn

(* A step leaves the two queues alone, appends one task to one of them, or *)
(* is a move of dispatch.                                                  *)
LEMMA QueueCases ==
    ASSUME TypeOK, ExactlyOnce, [Next]_vars
    PROVE  \/ /\ UNCHANGED <<dsq, turn>>
              /\ \A t \in Tasks : where'[t] = "queued" <=> where[t] = "queued"
           \/ \E p \in Tasks, g \in Dsqs :
                 /\ where[p] # "queued" /\ where'[p] = "queued"
                 /\ \A t \in Tasks \ {p} : where'[t] = "queued" <=> where[t] = "queued"
                 /\ dsq' = [dsq EXCEPT ![g] = Append(dsq[g], p)]
                 /\ turn' = turn
           \/ \E c \in Cpus, d \in Dsqs :
                 /\ \/ phase[c] = "first" /\ d = turn[c]
                    \/ phase[c] = "second" /\ d = Other(turn[c])
                 /\ MoveToLocal(c, d)
                 /\ turn' = [turn EXCEPT ![c] = Other(d)]
                 /\ at' = at
<1> DEFINE Still == /\ UNCHANGED <<dsq, turn>>
                    /\ \A t \in Tasks : where'[t] = "queued" <=> where[t] = "queued"
           Queues == \E p \in Tasks, g \in Dsqs :
                 /\ where[p] # "queued" /\ where'[p] = "queued"
                 /\ \A t \in Tasks \ {p} : where'[t] = "queued" <=> where[t] = "queued"
                 /\ dsq' = [dsq EXCEPT ![g] = Append(dsq[g], p)]
                 /\ turn' = turn
           Moves == \E c \in Cpus, d \in Dsqs :
                 /\ \/ phase[c] = "first" /\ d = turn[c]
                    \/ phase[c] = "second" /\ d = Other(turn[c])
                 /\ MoveToLocal(c, d)
                 /\ turn' = [turn EXCEPT ![c] = Other(d)]
                 /\ at' = at
<1> USE DEF ExactlyOnce
<1>0. where \in [Tasks -> Places] /\ \A t \in Tasks : Class[key[t]] \in Dsqs
  BY ClassAssumption DEF TypeOK
<1>1. ASSUME NEW t \in Tasks, SelectCpu(t)  PROVE Still
  BY <1>0, <1>1 DEF SelectCpu
<1>2. ASSUME NEW t \in Tasks, Enqueue(t)  PROVE Queues
  <2>1. /\ where[t] = "waking" /\ where' = [where EXCEPT ![t] = "queued"]
        /\ dsq' = [dsq EXCEPT ![Class[key[t]]] = Append(dsq[Class[key[t]]], t)]
        /\ turn' = turn
    BY <1>2 DEF Enqueue, Insert
  <2> QED  BY <1>0, <2>1
<1>3. ASSUME NEW c \in Cpus, Block(c)  PROVE Still
  <2>1. cur[c] \in Tasks /\ where[cur[c]] = "running"
    BY <1>3, NoneAssumption DEF Block, TypeOK, RunningExact
  <2> QED  BY <1>0, <1>3, <2>1 DEF Block
<1>4. ASSUME NEW c \in Cpus, Dispatch(c)  PROVE Still \/ Moves
  <2> HIDE DEF ExactlyOnce
  <2> QED  BY <1>4, DispatchCases
<1>5. ASSUME NEW c \in Cpus, RunNext(c)  PROVE Still \/ Queues
  <2>1. PICK h \in Tasks :
          /\ where[h] = "local" /\ where'[h] = "running"
          /\ \A t \in Tasks \ {h, cur[c]} : where'[t] = where[t]
          /\ cur[c] # None => where'[cur[c]] = "queued"
          /\ turn' = turn
    BY <1>5, RunNextEffect
  <2>2. CASE cur[c] = None
    BY <1>5, <2>1, <2>2, NoneAssumption DEF RunNext
  <2>3. CASE cur[c] # None
    <3>1. cur[c] \in Tasks /\ where[cur[c]] = "running"
      BY <2>3 DEF TypeOK, RunningExact
    <3>2. dsq' = [dsq EXCEPT ![Class[key[cur[c]]]] = Append(dsq[Class[key[cur[c]]]], cur[c])]
      BY <1>5, <2>3 DEF RunNext, Insert
    <3> QED  BY <1>0, <2>1, <2>3, <3>1, <3>2
  <2> QED  BY <2>2, <2>3
<1>6. ASSUME NEW t \in Tasks, Rename(t)  PROVE Still
  BY <1>6 DEF Rename
<1>7. ASSUME NEW c \in Cpus, Expire(c) \/ WakeIdle(c) \/ KeepPrev(c) \/ GoIdle(c)
      PROVE  Still
  BY <1>7 DEF Expire, WakeIdle, KeepPrev, GoIdle, places
<1>8. CASE UNCHANGED vars
  <2>1. Still
    BY <1>8 DEF vars
  <2> QED  BY <2>1
<1> HIDE DEF Still, Queues, Moves
<1>9. Still \/ Queues \/ Moves
  <2>1. CASE Next
    BY <1>1, <1>2, <1>3, <1>4, <1>5, <1>6, <1>7, <2>1 DEF Next, Pick
  <2>2. CASE UNCHANGED vars
    BY <1>8, <2>2 DEF Still, Queues, Moves
  <2> QED  BY <2>1, <2>2
<1> QED  BY <1>9 DEF Still, Queues, Moves

(* Only a move dispatches a task, and it dispatches one. *)
LEMMA DispatchedOne ==
    ASSUME TypeOK, ExactlyOnce, [Next]_vars
    PROVE  \/ turn' = turn /\ \A t \in Tasks : ~Dispatched(t)
           \/ \E c \in Cpus, d \in Dsqs, x \in Tasks :
                 /\ \/ phase[c] = "first" /\ d = turn[c]
                    \/ phase[c] = "second" /\ d = Other(turn[c])
                 /\ MoveToLocal(c, d)
                 /\ turn' = [turn EXCEPT ![c] = Other(d)]
                 /\ at[x] = d
                 /\ \A t \in Tasks : Dispatched(t) <=> t = x
<1>1. ASSUME NEW c \in Cpus, NEW d \in Dsqs, MoveToLocal(c, d)
      PROVE  \E x \in Tasks : at[x] = d /\ \A t \in Tasks : Dispatched(t) <=> t = x
  <2>1. PICK x \in Tasks :
          where[x] = "queued" /\ at[x] = d /\ where' = [where EXCEPT ![x] = "local"]
    BY <1>1, MoveEffect DEF ExactlyOnce
  <2> QED  BY <2>1 DEF Dispatched, TypeOK
<1>2. ASSUME \A t \in Tasks : where[t] = "queued" => where'[t] = "queued"
      PROVE  \A t \in Tasks : ~Dispatched(t)
  BY <1>2 DEF Dispatched
<1> QED  BY <1>1, <1>2, QueueCases

(* The queue whose turn it is is the one that the CPU has not just served. *)
LEMMA GoneRoundStep ==
    ASSUME OneCpuAssumption, TypeOK, ExactlyOnce, GoneRound, [Next]_vars
    PROVE  GoneRound'
<1> USE DEF OneCpuAssumption
<1>0. ASSUME local'[TheCpu] = local[TheCpu], turn' = turn,
             \A t \in Tasks : where'[t] \in {"local", "running"} =>
                                  where'[t] = where[t] /\ at'[t] = at[t]
      PROVE  GoneRound'
  BY <1>0 DEF GoneRound
<1>t. /\ where \in [Tasks -> Places] /\ at \in [Tasks -> Dsqs] /\ rq \in [Tasks -> Cpus]
      /\ turn \in [Cpus -> Dsqs] /\ local \in [Cpus -> Seq(Tasks)]
  BY DEF TypeOK
<1>1. ASSUME NEW t \in Tasks, SelectCpu(t)  PROVE GoneRound'
  BY <1>0, <1>t, <1>1 DEF SelectCpu
<1>2. ASSUME NEW t \in Tasks, Enqueue(t)  PROVE GoneRound'
  BY <1>0, <1>t, <1>2 DEF Enqueue, Insert
<1>3. ASSUME NEW t \in Tasks, Rename(t)  PROVE GoneRound'
  BY <1>0, <1>3 DEF Rename
<1>4. ASSUME NEW c \in Cpus, Block(c)  PROVE GoneRound'
  BY <1>0, <1>t, <1>4 DEF Block
<1>5. ASSUME NEW c \in Cpus, Dispatch(c)  PROVE GoneRound'
  <2>1. ASSUME NEW d \in Dsqs, phase[c] \in {"first", "second"}, MoveToLocal(c, d), at' = at,
               turn' = [turn EXCEPT ![c] = Other(d)]
        PROVE  GoneRound'
    <3>1. PICK x \in Tasks :
            /\ at[x] = d
            /\ where' = [where EXCEPT ![x] = "local"]
            /\ local' = [local EXCEPT ![c] = <<x>>]
      BY <2>1, MoveLocal DEF ExactlyOnce
    <3>2. local[c] = <<>> /\ \A t \in Tasks : where[t] # "local"
      BY <1>t, <2>1 DEF ExactlyOnce, LocalExact, Picking
    <3>3. local'[TheCpu] # <<>> /\ turn'[TheCpu] = Other(d)
      BY <1>t, <2>1, <3>1
    <3>4. \A t \in Tasks : where'[t] = "local" => t = x
      BY <1>t, <3>1, <3>2
    <3>5. d = Other(Other(d))
      BY DEF Other, Dsqs
    <3> QED  BY <2>1, <3>1, <3>3, <3>4, <3>5 DEF GoneRound
  <2>2. ASSUME UNCHANGED <<where, local, turn, at>>  PROVE GoneRound'
    BY <1>0, <2>2
  <2> QED  BY <1>5, <2>1, <2>2, DispatchCases
<1>6. ASSUME NEW c \in Cpus, RunNext(c)  PROVE GoneRound'
  <2>1. PICK h \in Tasks :
          /\ h = local[c][1] /\ where[h] = "local"
          /\ where'[h] = "running"
          /\ \A t \in Tasks \ {h, cur[c]} : where'[t] = where[t]
          /\ cur[c] # None => where'[cur[c]] = "queued"
          /\ \A t \in Tasks : t # cur[c] => at'[t] = at[t]
          /\ turn' = turn
    BY <1>6, RunNextEffect DEF ExactlyOnce
  <2>2. h # cur[c]
    BY <2>1, NoneAssumption DEF ExactlyOnce, RunningExact
  <2>3. \A t \in Tasks \ {h, cur[c]} : where[t] \notin {"local", "running"}
    BY <1>t, <2>1 DEF ExactlyOnce, LocalExact, RunningExact
  <2>4. at'[h] = Other(turn'[TheCpu])
    BY <2>1, <2>2 DEF GoneRound
  <2> QED  BY <2>1, <2>3, <2>4, NoneAssumption DEF GoneRound
<1>7. ASSUME NEW c \in Cpus, Expire(c) \/ WakeIdle(c) \/ KeepPrev(c) \/ GoIdle(c)
      PROVE  GoneRound'
  BY <1>0, <1>7 DEF Expire, WakeIdle, KeepPrev, GoIdle, places
<1>8. CASE UNCHANGED vars
  BY <1>0, <1>8 DEF vars
<1> QED  BY <1>1, <1>2, <1>3, <1>4, <1>5, <1>6, <1>7, <1>8 DEF Next, Pick

(* When both teams compete, dispatch finds a task in the queue whose turn  *)
(* it is, although the task that was running is in neither.                *)
LEMMA TurnTaken ==
    ASSUME OneCpuAssumption, TypeOK, ExactlyOnce, StrandInv, GoneRound, Competing,
           NEW c \in Cpus, phase[c] = "second"
    PROVE  FALSE
<1> USE DEF OneCpuAssumption
<1>1. c = TheCpu /\ turn[c] \in Dsqs /\ local[c] = <<>> /\ \A t \in Tasks : rq[t] = c
  BY DEF TypeOK, ExactlyOnce, LocalExact, Picking
<1>2. PICK t \in Tasks : Runnable(t) /\ at[t] = turn[c]
  BY <1>1 DEF Competing
<1>3. Other(turn[c]) # turn[c]
  BY <1>1 DEF Other, Dsqs
<1>4. where[t] # "queued"
  BY <1>1, <1>2 DEF StrandInv
<1>5. where[t] \notin {"local", "running"}
  BY <1>1, <1>2, <1>3 DEF GoneRound, ExactlyOnce, LocalExact
<1> QED  BY <1>2, <1>4, <1>5 DEF Runnable

(* Each slice goes to the team that is not ahead. *)
LEMMA BalanceStep ==
    ASSUME OneCpuAssumption, TypeOK, ExactlyOnce, StrandInv, GoneRound, Balance,
           [Next]_vars, lead' = LeadAfter
    PROVE  Balance'
<1>1. CASE ~(Competing /\ Competing')
  BY <1>1 DEF LeadAfter, Balance
<1>2. CASE Competing /\ turn' = turn /\ \A t \in Tasks : ~Dispatched(t)
  <2>1. lead' \in {0, lead}
    BY <1>2 DEF LeadAfter, Balance
  <2> QED  BY <1>2, <2>1 DEF Balance
<1>3. ASSUME NEW c \in Cpus, NEW d \in Dsqs, NEW x \in Tasks,
             \/ phase[c] = "first" /\ d = turn[c]
             \/ phase[c] = "second" /\ d = Other(turn[c]),
             turn' = [turn EXCEPT ![c] = Other(d)],
             at[x] = d, \A t \in Tasks : Dispatched(t) <=> t = x,
             Competing, Competing'
      PROVE  Balance'
  <2>1. c = TheCpu /\ d = turn[c]
    BY <1>3, TurnTaken DEF OneCpuAssumption
  <2>2. turn'[TheCpu] = Other(d)
    BY <1>3, <2>1 DEF TypeOK
  <2>3. /\ (\E t \in Tasks : Dispatched(t) /\ at[t] = 0) <=> d = 0
        /\ (\E t \in Tasks : Dispatched(t) /\ at[t] = 1) <=> d = 1
    BY <1>3
  <2>4. lead' = lead + (IF d = 0 THEN 1 ELSE 0) - (IF d = 1 THEN 1 ELSE 0)
    BY <1>3, <2>3 DEF LeadAfter
  <2>5. lead \in -1..1 /\ (lead = 1 => d = 1) /\ (lead = -1 => d = 0)
    BY <2>1 DEF Balance
  <2> QED  BY <2>2, <2>4, <2>5 DEF Balance, Other, Dsqs
<1> QED  BY <1>1, <1>2, <1>3, DispatchedOne

(* Neither an insertion nor a removal lets a task overtake another that    *)
(* has seen it pass.                                                       *)
LEMMA InTurnStep ==
    ASSUME TypeOK, ExactlyOnce, InTurn, [Next]_vars, over' = OverAfter
    PROVE  InTurn'
<1>q. /\ dsq \in [Dsqs -> Seq(Tasks)] /\ \A d \in Dsqs : Len(dsq[d]) \in Nat
      /\ \A d \in Dsqs : \A i \in 1..Len(dsq[d]) :
             dsq[d][i] \in Tasks /\ where[dsq[d][i]] = "queued" /\ at[dsq[d][i]] = d
  BY ElementOfSeq, LenProperties DEF TypeOK, ExactlyOnce, QueuesExact
<1>o. \A u \in Tasks :
          over'[u] = IF where[u] = "queued" /\ where'[u] = "queued"
                     THEN over[u] \cup {t \in Tasks : Dispatched(t) /\ at[t] = at[u]}
                     ELSE {}
  BY DEF OverAfter
<1>1. CASE /\ UNCHANGED <<dsq, turn>>
           /\ \A t \in Tasks : where'[t] = "queued" <=> where[t] = "queued"
  <2>1. \A t \in Tasks : ~Dispatched(t)
    BY <1>1 DEF Dispatched
  <2>2. \A u \in Tasks : over'[u] \subseteq over[u]
    BY <1>1, <1>o, <2>1
  <2> QED  BY <1>1, <1>q, <2>2 DEF InTurn
<1>2. ASSUME NEW p \in Tasks, NEW g \in Dsqs,
             where[p] # "queued", where'[p] = "queued",
             \A t \in Tasks \ {p} : where'[t] = "queued" <=> where[t] = "queued",
             dsq' = [dsq EXCEPT ![g] = Append(dsq[g], p)]
      PROVE  InTurn'
  <2>1. \A t \in Tasks : ~Dispatched(t)
    BY <1>2 DEF Dispatched
  <2>2. over'[p] = {} /\ \A u \in Tasks : over'[u] = {} \/ over'[u] = over[u]
    BY <1>2, <1>o, <2>1
  <2>3. /\ Len(dsq'[g]) = Len(dsq[g]) + 1
        /\ \A k \in 1..Len(dsq[g]) : dsq'[g][k] = dsq[g][k]
        /\ dsq'[g][Len(dsq[g]) + 1] = p
        /\ \A d \in Dsqs \ {g} : dsq'[d] = dsq[d]
    BY <1>2, <1>q, AppendProperties
  <2>4. SUFFICES ASSUME NEW d \in Dsqs, NEW i \in 1..Len(dsq'[d]), NEW j \in 1..Len(dsq'[d]),
                        dsq'[d][j] \in over'[dsq'[d][i]]
                 PROVE  i < j
    BY DEF InTurn
  <2>5. CASE d # g
    <3>1. dsq'[d] = dsq[d] /\ dsq[d][i] \in Tasks
      BY <1>q, <2>3, <2>5
    <3>2. dsq[d][j] \in over[dsq[d][i]]
      BY <2>2, <2>4, <3>1
    <3> QED  BY <3>1, <3>2 DEF InTurn
  <2>6. CASE d = g
    <3>1. i # Len(dsq[g]) + 1
      BY <2>2, <2>3, <2>4, <2>6
    <3>2. i \in 1..Len(dsq[g]) /\ (j = Len(dsq[g]) + 1 \/ j \in 1..Len(dsq[g]))
      BY <1>q, <2>3, <2>6, <3>1
    <3>3. CASE j = Len(dsq[g]) + 1
      BY <1>q, <3>2, <3>3
    <3>4. CASE j \in 1..Len(dsq[g])
      <4>1. dsq'[d][i] = dsq[g][i] /\ dsq'[d][j] = dsq[g][j]
        BY <2>3, <2>6, <3>2, <3>4
      <4>2. dsq[g][i] \in Tasks
        BY <1>q, <3>2
      <4>3. dsq[g][j] \in over[dsq[g][i]]
        BY <2>2, <2>4, <4>1, <4>2
      <4> QED  BY <3>2, <3>4, <4>3 DEF InTurn
    <3> QED  BY <3>2, <3>3, <3>4
  <2> QED  BY <2>5, <2>6
<1>3. ASSUME NEW c \in Cpus, NEW g \in Dsqs, MoveToLocal(c, g)
      PROVE  InTurn'
  <2>1. PICK k \in 1..Len(dsq[g]), x \in Tasks :
          /\ x = dsq[g][k]
          /\ dsq' = [dsq EXCEPT ![g] = RemoveAt(dsq[g], k)]
          /\ where' = [where EXCEPT ![x] = "local"]
    BY <1>3, MoveEffect DEF ExactlyOnce
  <2>2. \A t \in Tasks : Dispatched(t) => t = x
    BY <2>1 DEF Dispatched, TypeOK
  <2>3. \A u \in Tasks : over'[u] \subseteq over[u] \cup {x}
    BY <1>o, <2>2
  <2>4. /\ Len(dsq'[g]) = Len(dsq[g]) - 1
        /\ \A m \in 1..(Len(dsq[g]) - 1) :
               dsq'[g][m] = IF m < k THEN dsq[g][m] ELSE dsq[g][m + 1]
        /\ \A d \in Dsqs \ {g} : dsq'[d] = dsq[d]
    <3>1. dsq[g] \in Seq(Tasks) /\ dsq'[g] = RemoveAt(dsq[g], k)
      BY <1>q, <2>1
    <3>2. \A d \in Dsqs \ {g} : dsq'[d] = dsq[d]
      BY <1>q, <2>1
    <3> QED  BY <3>1, <3>2, RemoveAtProperties
  <2>5. SUFFICES ASSUME NEW d \in Dsqs, NEW i \in 1..Len(dsq'[d]), NEW j \in 1..Len(dsq'[d]),
                        dsq'[d][j] \in over'[dsq'[d][i]]
                 PROVE  i < j
    BY DEF InTurn
  <2> DEFINE Old(m) == IF d = g /\ m >= k THEN m + 1 ELSE m
  <2>6. ASSUME NEW m \in 1..Len(dsq'[d])
        PROVE  Old(m) \in 1..Len(dsq[d]) /\ dsq'[d][m] = dsq[d][Old(m)] /\ dsq[d][Old(m)] # x
    <3>1. Old(m) \in 1..Len(dsq[d]) /\ dsq'[d][m] = dsq[d][Old(m)]
      <4>1. CASE d = g
        BY <1>q, <2>4, <2>6, <4>1
      <4>2. CASE d # g
        BY <1>q, <2>4, <2>6, <4>2
      <4> QED  BY <4>1, <4>2
    <3>2. d = g => Old(m) # k
      BY <2>6
    <3>3. at[x] = g /\ \A n \in 1..Len(dsq[g]) : dsq[g][n] = x => n = k
      BY <1>q, <2>1 DEF ExactlyOnce, QueuesExact
    <3> QED  BY <1>q, <3>1, <3>2, <3>3
  <2>7. dsq[d][Old(j)] \in over[dsq[d][Old(i)]]
    BY <1>q, <2>3, <2>5, <2>6
  <2>8. Old(i) < Old(j)
    BY <2>6, <2>7 DEF InTurn
  <2> QED  BY <2>6, <2>8
<1> QED  BY <1>1, <1>2, <1>3, QueueCases

(* The histories start empty. *)
LEMMA InitRace == RaceInit => RaceInv
<1> SUFFICES ASSUME RaceInit  PROVE RaceInv
  OBVIOUS
<1>1. IInv
  BY InitIInv DEF RaceInit
<1>2. \A d \in Dsqs : Len(dsq[d]) = 0
  BY EmptySeq DEF RaceInit, Init
<1>3. GoneRound /\ Balance /\ InTurn
  BY <1>2 DEF RaceInit, Init, GoneRound, Balance, InTurn
<1> QED  BY <1>1, <1>3 DEF RaceInv

(* RaceInv is inductive on one CPU. *)
LEMMA RaceStep == OneCpuAssumption /\ RaceInv /\ [RaceNext]_raceVars => RaceInv'
<1> SUFFICES ASSUME OneCpuAssumption, RaceInv, [RaceNext]_raceVars  PROVE RaceInv'
  OBVIOUS
<1>1. [Next]_vars
  BY DEF RaceNext, raceVars
<1>2. IInv'
  BY <1>1, TypeStep, QueuesStep, LocalStep, RunningStep, AffinityStep, TurnStep, StrandStep
  DEF RaceInv, IInv, ExactlyOnce
<1>3. GoneRound'
  BY <1>1, GoneRoundStep DEF RaceInv, IInv
<1>4. CASE RaceNext
  BY <1>1, <1>2, <1>3, <1>4, BalanceStep, InTurnStep DEF RaceNext, RaceInv, IInv
<1>5. CASE UNCHANGED raceVars
  <2>1. Balance' /\ InTurn'
    BY <1>5 DEF raceVars, vars, RaceInv, Balance, InTurn
  <2> QED  BY <1>2, <1>3, <2>1 DEF RaceInv
<1> QED  BY <1>4, <1>5

(* The two teams get the same number of slices, to within one, whatever    *)
(* their sizes, whoever joins, leaves or changes team: dispatch alternates *)
(* as long as both have something to run.                                  *)
THEOREM TeamsShareEqually == OneCpuAssumption => (RaceSpec => []EqualShare)
<1> SUFFICES ASSUME OneCpuAssumption  PROVE RaceSpec => []EqualShare
  OBVIOUS
<1>1. RaceInit => RaceInv
  BY InitRace
<1>2. RaceInv /\ [RaceNext]_raceVars => RaceInv'
  BY RaceStep
<1>3. RaceInv => EqualShare
  BY DEF RaceInv, Balance, EqualShare
<1> QED  BY <1>1, <1>2, <1>3, PTL DEF RaceSpec

(* On one CPU every task is movable, and a move takes the first task.      *)
LEMMA FirstMoved ==
    ASSUME OneCpuAssumption, TypeOK, NEW c \in Cpus, NEW d \in Dsqs, MoveToLocal(c, d)
    PROVE  where' = [where EXCEPT ![dsq[d][1]] = "local"] /\ dsq[d][1] \in Tasks
<1>1. \A i \in 1..Len(dsq[d]) : dsq[d][i] \in Tasks
  BY ElementOfSeq DEF TypeOK
<1>2. \A t \in Tasks : c \in Allowed[t]
  BY AllowedAssumption DEF OneCpuAssumption
<1>3. PICK i \in 1..Len(dsq[d]) :
        /\ \A j \in 1..(i - 1) : ~Movable(c, dsq[d][j])
        /\ where' = [where EXCEPT ![dsq[d][i]] = "local"]
  BY DEF MoveToLocal
<1>4. dsq \in [Dsqs -> Seq(Tasks)] /\ Len(dsq[d]) \in Nat
  BY LenProperties DEF TypeOK
<1>5. i = 1
  <2>1. i > 1 => 1 \in 1..(i - 1) /\ 1 \in 1..Len(dsq[d])
    BY <1>4
  <2>2. ~(i > 1)
    BY <1>1, <1>2, <1>3, <2>1 DEF Movable
  <2> QED  BY <1>4, <2>2
<1> QED  BY <1>1, <1>3, <1>5

(* Within a team nobody is dispatched twice while a teammate waits.        *)
THEOREM TeamGoesRound == OneCpuAssumption => (RaceSpec => RoundRobin)
<1> SUFFICES ASSUME OneCpuAssumption  PROVE RaceSpec => RoundRobin
  OBVIOUS
<1>1. RaceInit => RaceInv
  BY InitRace
<1>2. RaceInv /\ [RaceNext]_raceVars => RaceInv'
  BY RaceStep
<1>3. RaceInv /\ [RaceNext]_raceVars =>
          [\A u, t \in Tasks :
              Dispatched(t) /\ where[u] = "queued" /\ at[u] = at[t] => t \notin over[u]]_raceVars
  <2> SUFFICES ASSUME RaceInv, RaceNext, NEW u \in Tasks, NEW t \in Tasks,
                      Dispatched(t), where[u] = "queued", at[u] = at[t], t \in over[u]
               PROVE  FALSE
    OBVIOUS
  <2>1. TypeOK /\ ExactlyOnce /\ InTurn /\ [Next]_vars
    BY DEF RaceInv, IInv, RaceNext
  <2>2. PICK c \in Cpus, d \in Dsqs : MoveToLocal(c, d) /\ at[t] = d
    BY <2>1, DispatchedOne
  <2>3. t = dsq[d][1]
    BY <2>1, <2>2, FirstMoved DEF Dispatched, TypeOK
  <2>4. PICK i \in 1..Len(dsq[d]) : dsq[d][i] = u
    BY <2>1, <2>2 DEF ExactlyOnce, QueuesExact
  <2>5. Len(dsq[d]) \in Nat /\ 1 \in 1..Len(dsq[d])
    BY <2>1, <2>4, LenProperties DEF TypeOK
  <2>6. i < 1
    BY <2>1, <2>3, <2>4, <2>5 DEF InTurn
  <2> QED  BY <2>4, <2>6
<1> QED  BY <1>1, <1>2, <1>3, PTL DEF RaceSpec, RoundRobin
=============================================================================
