-------------------------- MODULE ReadyListProofs -------------------------
(***************************************************************************)
(* Proofs about module ReadyList: the pointers of the ready queues stay    *)
(* well linked, and they implement the sequences of module Task.           *)
(***************************************************************************)
EXTENDS ReadyList, BasicLemmas, FiniteSetTheorems, TLAPS

---------------------------------------------------------------------------
(* A sequence s that the pointers represent: head and tail are its ends,   *)
(* and each task of it links to the next one.                              *)
Chain(s, head, tail, next) ==
    /\ s \in Seq(Tasks)
    /\ IsInjective(s)
    /\ head = IF Len(s) = 0 THEN NULL ELSE s[1]
    /\ tail = IF Len(s) = 0 THEN NULL ELSE s[Len(s)]
    /\ \A i \in 1 .. Len(s) : next[s[i]] = IF i = Len(s) THEN NULL ELSE s[i + 1]

(* A list without duplicates is no longer than the task table.             *)
LEMMA ChainFits ==
    ASSUME NEW s \in Seq(Tasks), IsInjective(s)
    PROVE  Len(s) \in 0 .. TASK_COUNT
  <1>1. s \in Injection(1 .. Len(s), Tasks)
    BY DEF Injection
  <1>2. IsFiniteSet(Tasks) /\ Cardinality(Tasks) = TASK_COUNT
    BY FS_Interval, ReadyListAssumption DEF Tasks
  <1>3. Cardinality(1 .. Len(s)) <= TASK_COUNT
    BY <1>1, <1>2, FS_Injection
  <1>4. Len(s) \in Nat
    OBVIOUS
  <1>5. ASSUME NEW n \in Nat
        PROVE  Cardinality(1 .. n) = n
    BY FS_Interval
  <1> QED
    BY <1>3, <1>4, <1>5, ReadyListAssumption

---------------------------------------------------------------------------
(* What the loops that follow next_ready see of a chain: its tasks in      *)
(* their order and then NULL.                                              *)
Steps(s) == [n \in 0 .. TASK_COUNT |-> IF n < Len(s) THEN s[n + 1] ELSE NULL]

IsStep(g, head, next) ==
    g = [n \in 0 .. TASK_COUNT |->
            IF n = 0 THEN head ELSE IF g[n - 1] = NULL THEN NULL ELSE next[g[n - 1]]]

LEMMA WalkChain ==
    ASSUME NEW s, NEW head, NEW tail, NEW next, Chain(s, head, tail, next)
    PROVE  Walk(head, next) = Steps(s)
  <1> DEFINE step == Walk(head, next)
  <1>1. step = CHOOSE g : IsStep(g, head, next)
    BY DEF Walk, IsStep
  <1>0. s \in Seq(Tasks) /\ Len(s) \in Nat
    BY DEF Chain
  <1>2. \A i \in 1 .. Len(s) : s[i] # NULL
    BY <1>0, ReadyListAssumption DEF Tasks
  <1>3. IsStep(Steps(s), head, next)
    <2>1. ASSUME NEW n \in 0 .. TASK_COUNT
          PROVE  Steps(s)[n] = IF n = 0 THEN head
                               ELSE IF Steps(s)[n - 1] = NULL THEN NULL
                               ELSE next[Steps(s)[n - 1]]
      <3>1. CASE n = 0
        BY <3>1, <1>0 DEF Steps, Chain
      <3>2. CASE n # 0
        <4>1. n - 1 \in 0 .. TASK_COUNT /\ (n - 1) + 1 = n
          BY <3>2, ReadyListAssumption
        <4>2. Steps(s)[n - 1] = IF n - 1 < Len(s) THEN s[n] ELSE NULL
          BY <4>1 DEF Steps
        <4>3. CASE n - 1 < Len(s)
          <5>1. n \in 1 .. Len(s)
            BY <4>3, <3>2, <1>0, ReadyListAssumption
          <5>2. next[s[n]] = IF n = Len(s) THEN NULL ELSE s[n + 1]
            BY <5>1 DEF Chain
          <5> QED
            BY <5>1, <5>2, <4>2, <4>3, <3>2, <1>0, <1>2 DEF Steps
        <4>4. CASE ~(n - 1 < Len(s))
          BY <4>4, <4>2, <3>2, <1>0, ReadyListAssumption DEF Steps
        <4> QED
          BY <4>3, <4>4
      <3> QED
        BY <3>1, <3>2
    <2> QED
      BY <2>1 DEF IsStep, Steps
  <1>4. IsStep(step, head, next)
    BY <1>1, <1>3
  <1> HIDE DEF step
  <1>5. \A g : IsStep(g, head, next) =>
           \A n \in 0 .. TASK_COUNT :
              g[n] = IF n = 0 THEN head ELSE IF g[n - 1] = NULL THEN NULL ELSE next[g[n - 1]]
    BY DEF IsStep
  <1> DEFINE N == {n \in 0 .. TASK_COUNT : step[n] # Steps(s)[n]}
  <1>6. N \subseteq Nat
    BY ReadyListAssumption
  <1>7. N = {}
    <2> SUFFICES ASSUME N # {}
                 PROVE  FALSE
      OBVIOUS
    <2>1. PICK x \in N : \A y \in N : x <= y
      BY <1>6, LeastNat
    <2>2. x # 0
      BY <2>1, <1>3, <1>4, <1>5
    <2>3. x - 1 \in 0 .. TASK_COUNT /\ x - 1 \notin N
      BY <2>1, <2>2, ReadyListAssumption
    <2>4. step[x - 1] = Steps(s)[x - 1]
      BY <2>3
    <2> QED
      BY <2>1, <2>2, <2>4, <1>3, <1>4, <1>5
  <1>8. step = [n \in 0 .. TASK_COUNT |-> step[n]]
    BY <1>4 DEF IsStep
  <1>9. \A n \in 0 .. TASK_COUNT : step[n] = Steps(s)[n]
    BY <1>7
  <1>10. step = Steps(s)
    BY <1>8, <1>9 DEF Steps
  <1> QED
    BY <1>10 DEF step

(* The pointers determine the sequence.                                    *)
LEMMA FollowChain ==
    ASSUME NEW s, NEW head, NEW tail, NEW next, Chain(s, head, tail, next)
    PROVE  Follow(head, next) = s
  <1>0. s \in Seq(Tasks) /\ Len(s) \in 0 .. TASK_COUNT
    BY ChainFits DEF Chain
  <1>1. \A i \in 1 .. Len(s) : s[i] # NULL
    BY <1>0, ReadyListAssumption DEF Tasks
  <1> DEFINE step == Steps(s)
             IsLength(n) == step[n] = NULL /\ \A m \in 0 .. n - 1 : step[m] # NULL
             length == CHOOSE n \in 0 .. TASK_COUNT : IsLength(n)
  <1>2. Follow(head, next) = [i \in 1 .. length |-> step[i - 1]]
    BY WalkChain DEF Follow
  <1>3. IsLength(Len(s))
    BY <1>0, <1>1, ReadyListAssumption DEF Steps
  <1>4. ASSUME NEW n \in 0 .. TASK_COUNT, IsLength(n)
        PROVE  n = Len(s)
    <2>1. CASE n < Len(s)
      BY <2>1, <1>0, <1>1, <1>4, ReadyListAssumption DEF Steps
    <2>2. CASE n > Len(s)
      <3>1. Len(s) \in 0 .. n - 1
        BY <2>2, <1>0, ReadyListAssumption
      <3> QED
        BY <3>1, <1>3, <1>4
    <2> QED
      BY <2>1, <2>2, <1>0, ReadyListAssumption
  <1> HIDE DEF IsLength
  <1>5. length = Len(s)
    BY <1>0, <1>3, <1>4
  <1> HIDE DEF length
  <1>6. ASSUME NEW i \in 1 .. Len(s)
        PROVE  step[i - 1] = s[i]
    <2>1. i - 1 \in 0 .. TASK_COUNT /\ i - 1 < Len(s) /\ (i - 1) + 1 = i
      BY <1>0, ReadyListAssumption
    <2> QED
      BY <2>1 DEF Steps
  <1>7. s = [i \in 1 .. Len(s) |-> s[i]]
    BY <1>0
  <1> QED
    BY <1>2, <1>5, <1>6, <1>7
---------------------------------------------------------------------------
(* The pointer operations on one chain, and on the chains they leave       *)
(* alone.                                                                  *)
LEMMA ChainFrame ==
    ASSUME NEW s, NEW head, NEW tail, NEW next, NEW next2,
           Chain(s, head, tail, next),
           \A i \in 1 .. Len(s) : next2[s[i]] = next[s[i]]
    PROVE  Chain(s, head, tail, next2)
  BY DEF Chain

(* enqueue_task makes the task the last one.                               *)
LEMMA ChainAppend ==
    ASSUME NEW s, NEW head, NEW tail, NEW next \in [Tasks -> Tasks \cup {NULL}],
           NEW next2 \in [Tasks -> Tasks \cup {NULL}],
           Chain(s, head, tail, next), NEW e \in Tasks, ~Contains(s, e),
           next2 = IF head = NULL THEN [next EXCEPT ![e] = NULL]
                   ELSE [next EXCEPT ![e] = NULL, ![tail] = e]
    PROVE  Chain(Append(s, e), IF head = NULL THEN e ELSE head, e, next2)
  <1>1. s \in Seq(Tasks) /\ Len(s) \in Nat /\ IsInjective(s)
    BY DEF Chain
  <1>2. \A i \in 1 .. Len(s) : s[i] \in Tasks /\ s[i] # NULL /\ s[i] # e
    BY <1>1, ReadyListAssumption DEF Tasks, Contains
  <1> DEFINE r == Append(s, e)
  <1>3. r \in Seq(Tasks) /\ IsInjective(r)
    BY <1>1, AppendList
  <1>4. /\ Len(r) = Len(s) + 1
        /\ r[Len(r)] = e
        /\ \A i \in 1 .. Len(s) : r[i] = s[i]
    BY <1>1
  <1> HIDE DEF r
  <1>5. (IF head = NULL THEN e ELSE head) = r[1]
    BY <1>1, <1>2, <1>4 DEF Chain
  <1>6. ASSUME NEW i \in 1 .. Len(r)
        PROVE  next2[r[i]] = IF i = Len(r) THEN NULL ELSE r[i + 1]
    <2>1. CASE Len(s) = 0
      BY <2>1, <1>4 DEF Chain
    <2>2. CASE Len(s) # 0
      <3>1. /\ head # NULL
            /\ tail = s[Len(s)]
            /\ Len(s) \in 1 .. Len(s)
        BY <2>2, <1>1, <1>2 DEF Chain
      <3>2. tail \in Tasks /\ tail # e
        BY <3>1, <1>2
      <3>3. CASE i = Len(r)
        BY <3>1, <3>2, <3>3, <1>4
      <3>4. CASE i = Len(s)
        BY <3>1, <3>2, <3>4, <1>1, <1>4
      <3>5. CASE i # Len(s) /\ i # Len(r)
        <4>1. i \in 1 .. Len(s) /\ i + 1 \in 1 .. Len(s)
          BY <3>5, <1>1, <1>4
        <4>2. s[i] # tail
          BY <4>1, <3>1, <3>5, <1>1 DEF IsInjective
        <4>3. next2[s[i]] = next[s[i]]
          BY <4>1, <4>2, <3>1, <1>2
        <4>4. next[s[i]] = s[i + 1]
          BY <4>1, <3>5 DEF Chain
        <4> QED
          BY <4>1, <4>3, <4>4, <3>5, <1>4
      <3> QED
        BY <3>3, <3>4, <3>5
    <2> QED
      BY <2>1, <2>2
  <1>7. Chain(r, r[1], e, next2)
    BY <1>1, <1>3, <1>4, <1>6 DEF Chain
  <1> QED
    BY <1>5, <1>7 DEF r

(* dequeue_task links the task before the k-th one to the one after it.    *)
Before(s, k) == IF k = 1 THEN NULL ELSE s[k - 1]
LinksWithout(next, e, prev) ==
    IF prev = NULL THEN [next EXCEPT ![e] = NULL]
    ELSE [next EXCEPT ![prev] = next[e], ![e] = NULL]
HeadWithout(head, next, e, prev) == IF prev = NULL THEN next[e] ELSE head
TailWithout(tail, e, prev) == IF tail = e THEN prev ELSE tail

LEMMA ChainRemove ==
    ASSUME NEW s, NEW head, NEW tail, NEW next \in [Tasks -> Tasks \cup {NULL}],
           Chain(s, head, tail, next), NEW k \in 1 .. Len(s),
           NEW prev, prev = Before(s, k)
    PROVE  Chain(RemoveFirst(s, s[k]), HeadWithout(head, next, s[k], prev),
                 TailWithout(tail, s[k], prev), LinksWithout(next, s[k], prev))
  <1> USE DEF Before, HeadWithout, TailWithout
  <1> DEFINE next2 == LinksWithout(next, s[k], prev)
  <1>0. next2 = IF prev = NULL THEN [next EXCEPT ![s[k]] = NULL]
                ELSE [next EXCEPT ![prev] = next[s[k]], ![s[k]] = NULL]
    BY DEF LinksWithout
  <1> HIDE DEF next2
  <1>1. s \in Seq(Tasks) /\ Len(s) \in Nat /\ IsInjective(s)
    BY DEF Chain
  <1>2. /\ \A i \in 1 .. Len(s) : s[i] \in Tasks /\ s[i] # NULL
        /\ \A i, j \in 1 .. Len(s) : s[i] = s[j] => i = j
    <2>1. \A i \in 1 .. Len(s) : s[i] \in Tasks /\ s[i] # NULL
      BY <1>1, ReadyListAssumption DEF Tasks
    <2>2. \A i, j \in 1 .. Len(s) : s[i] = s[j] => i = j
      BY <1>1 DEF IsInjective
    <2> QED
      BY <2>1, <2>2
  <1> DEFINE r == RemoveAt(s, k)
  <1>3. RemoveFirst(s, s[k]) = r /\ r \in Seq(Tasks) /\ IsInjective(r)
    BY <1>1, RemoveFirstAt, RemoveAtList
  <1>4. /\ Len(r) = Len(s) - 1
        /\ \A j \in 1 .. Len(s) - 1 : r[j] = IF j < k THEN s[j] ELSE s[j + 1]
    BY <1>1, RemoveAtElements
  <1> HIDE DEF r
  <1>5. /\ head = s[1]
        /\ tail = s[Len(s)]
        /\ \A i \in 1 .. Len(s) : next[s[i]] = IF i = Len(s) THEN NULL ELSE s[i + 1]
    BY <1>1 DEF Chain
  <1>6. prev = NULL <=> k = 1
    BY <1>1, <1>2
  <1>7. (IF prev = NULL THEN next[s[k]] ELSE head) = IF Len(r) = 0 THEN NULL ELSE r[1]
    BY <1>1, <1>4, <1>5, <1>6
  <1>8. (IF tail = s[k] THEN prev ELSE tail) = IF Len(r) = 0 THEN NULL ELSE r[Len(r)]
    <2>1. tail = s[k] <=> k = Len(s)
      BY <1>1, <1>2, <1>5
    <2> QED
      BY <2>1, <1>1, <1>4, <1>5
  <1>9. ASSUME NEW i \in 1 .. Len(r)
        PROVE  next2[r[i]] = IF i = Len(r) THEN NULL ELSE r[i + 1]
    <2>1. i \in 1 .. Len(s) /\ i + 1 \in 1 .. Len(s) /\ k \in 1 .. Len(s)
      BY <1>1, <1>4
    <2>2. CASE i + 1 < k
      <3>1. r[i] = s[i] /\ r[i + 1] = s[i + 1] /\ i # Len(r)
        BY <2>1, <2>2, <1>1, <1>4
      <3>2. k - 1 \in 1 .. Len(s) /\ k # 1 /\ i # k - 1 /\ i # k /\ i # Len(s)
        BY <2>1, <2>2, <1>1
      <3>3. prev = s[k - 1] /\ s[i] # prev /\ s[i] # s[k]
        BY <3>2, <2>1, <1>2
      <3>4. next2[s[i]] = next[s[i]]
        BY <3>2, <3>3, <2>1, <1>0, <1>2, <1>6
      <3> QED
        BY <3>1, <3>2, <3>4, <2>1, <1>5
    <2>3. CASE i + 1 = k
      <3>1. k # 1 /\ k - 1 = i
        BY <2>1, <2>3
      <3>2. prev = s[i] /\ prev # s[k] /\ prev # NULL
        BY <3>1, <2>1, <1>2
      <3>3. next2[s[i]] = next[s[k]]
        BY <3>2, <2>1, <1>0, <1>2
      <3>4. r[i] = s[i] /\ (i # Len(r) => r[i + 1] = s[k + 1])
        BY <2>1, <2>3, <1>1, <1>4
      <3>5. i = Len(r) <=> k = Len(s)
        BY <2>3, <1>1, <1>4
      <3> QED
        BY <3>3, <3>4, <3>5, <1>5
    <2>4. CASE i + 1 > k
      <3>1. r[i] = s[i + 1] /\ (i # Len(r) => r[i + 1] = s[(i + 1) + 1])
        BY <2>1, <2>4, <1>1, <1>4
      <3>2. s[i + 1] # s[k]
        BY <2>1, <2>4, <1>2
      <3>3. prev = NULL \/ s[i + 1] # prev
        BY <2>1, <2>4, <1>1, <1>2
      <3>4. next2[s[i + 1]] = next[s[i + 1]]
        BY <3>2, <3>3, <2>1, <1>0, <1>2
      <3>5. i = Len(r) <=> i + 1 = Len(s)
        BY <2>1, <1>1, <1>4
      <3> QED
        BY <3>1, <3>4, <3>5, <2>1, <1>5
    <2> QED
      BY <2>1, <2>2, <2>3, <2>4
  <1>10. Chain(r, IF prev = NULL THEN next[s[k]] ELSE head,
               IF tail = s[k] THEN prev ELSE tail, next2)
    BY <1>3, <1>7, <1>8, <1>9 DEF Chain
  <1> QED
    BY <1>3, <1>10 DEF next2
---------------------------------------------------------------------------
(* The inductive invariant: every queue is a chain of tasks of its         *)
(* priority, and a decision that stands names a task.                      *)
PointerTypeOK ==
    /\ queue_head \in [Priority -> Tasks \cup {NULL}]
    /\ queue_tail \in [Priority -> Tasks \cup {NULL}]
    /\ next_ready \in [Tasks -> Tasks \cup {NULL}]
    /\ priority \in [Tasks -> Priority]
    /\ reschedule_needed \in BOOLEAN
    /\ ~reschedule_needed => next_task \in Tasks

QueueOf(p, s) ==
    /\ Chain(s, queue_head[p], queue_tail[p], next_ready)
    /\ \A i \in 1 .. Len(s) : priority[s[i]] = p

ChainInv == \A p \in Priority : QueueOf(p, ListOf(p))

PointerInv == PointerTypeOK /\ ChainInv

(* It is enough to name the sequence that a queue represents.              *)
LEMMA QueueIs ==
    ASSUME NEW p \in Priority, NEW s, QueueOf(p, s)
    PROVE  ListOf(p) = s /\ QueueOf(p, ListOf(p))
  <1>1. Follow(queue_head[p], next_ready) = s
    BY FollowChain DEF QueueOf
  <1> QED
    BY <1>1 DEF ListOf

LEMMA QueueIsNext ==
    ASSUME NEW p \in Priority, NEW s, QueueOf(p, s)'
    PROVE  ListOf(p)' = s /\ QueueOf(p, ListOf(p))'
  <1>1. Chain(s, queue_head'[p], queue_tail'[p], next_ready')
    BY DEF QueueOf
  <1>2. Follow(queue_head'[p], next_ready') = s
    BY <1>1, FollowChain
  <1>3. ListOf(p)' = s
    BY <1>2 DEF ListOf
  <1> QED
    BY <1>3

(* What the invariant says of the queue a task belongs to.                 *)
LEMMA QueueFacts ==
    ASSUME PointerInv, NEW p \in Priority
    PROVE  /\ Chain(ListOf(p), queue_head[p], queue_tail[p], next_ready)
           /\ ListOf(p) \in Seq(Tasks) /\ IsInjective(ListOf(p))
           /\ Len(ListOf(p)) \in 0 .. TASK_COUNT
           /\ \A i \in 1 .. Len(ListOf(p)) :
                 /\ ListOf(p)[i] \in Tasks /\ ListOf(p)[i] # NULL
                 /\ priority[ListOf(p)[i]] = p
           /\ Walk(queue_head[p], next_ready) = Steps(ListOf(p))
  <1>1. QueueOf(p, ListOf(p))
    BY DEF PointerInv, ChainInv
  <1> DEFINE s == ListOf(p)
  <1>2. Chain(s, queue_head[p], queue_tail[p], next_ready)
    BY <1>1 DEF QueueOf
  <1>3. s \in Seq(Tasks) /\ IsInjective(s)
    BY <1>2 DEF Chain
  <1> HIDE DEF s
  <1>4. Len(s) \in 0 .. TASK_COUNT
    BY <1>3, ChainFits
  <1>5. \A i \in 1 .. Len(s) : s[i] \in Tasks /\ s[i] # NULL
    BY <1>3, ReadyListAssumption DEF Tasks
  <1>6. Walk(queue_head[p], next_ready) = Steps(s)
    BY <1>2, WalkChain
  <1>7. \A i \in 1 .. Len(s) : priority[s[i]] = p
    BY <1>1 DEF QueueOf, s
  <1> QED
    BY <1>2, <1>3, <1>4, <1>5, <1>6, <1>7 DEF s

(* The loop of dequeue_task finds a task exactly when the queue has it.    *)
LEMMA StepsFind ==
    ASSUME NEW s \in Seq(Tasks), Len(s) \in 0 .. TASK_COUNT, NEW t \in Tasks,
           NEW n \in 0 .. TASK_COUNT
    PROVE  Steps(s)[n] = t <=> n + 1 \in 1 .. Len(s) /\ s[n + 1] = t
  <1>1. t # NULL
    BY ReadyListAssumption DEF Tasks
  <1> QED
    BY <1>1, ReadyListAssumption DEF Steps

LEMMA ListTypes ==
    ASSUME PointerInv
    PROVE  /\ WellLinked
           /\ \A p \in Priority : queue_head[p] = NULL <=> ListOf(p) = <<>>
           /\ \A p \in Priority : queue_head[p] # NULL => queue_head[p] = Head(ListOf(p))
  <1> SUFFICES ASSUME NEW p \in Priority
               PROVE  /\ Walk(queue_head[p], next_ready)[TASK_COUNT] = NULL
                      /\ \A i \in DOMAIN ListOf(p) : priority[ListOf(p)[i]] = p
                      /\ queue_tail[p] = IF queue_head[p] = NULL THEN NULL
                                         ELSE ListOf(p)[Len(ListOf(p))]
                      /\ queue_head[p] = NULL <=> ListOf(p) = <<>>
                      /\ queue_head[p] # NULL => queue_head[p] = Head(ListOf(p))
    BY DEF WellLinked
  <1> DEFINE s == ListOf(p)
  <1>1. /\ Chain(s, queue_head[p], queue_tail[p], next_ready)
        /\ s \in Seq(Tasks) /\ Len(s) \in 0 .. TASK_COUNT
        /\ \A i \in 1 .. Len(s) : s[i] # NULL /\ priority[s[i]] = p
        /\ Walk(queue_head[p], next_ready) = Steps(s)
    BY QueueFacts
  <1> HIDE DEF s
  <1>2. queue_head[p] = IF Len(s) = 0 THEN NULL ELSE s[1]
    BY <1>1 DEF Chain
  <1>3. queue_tail[p] = IF Len(s) = 0 THEN NULL ELSE s[Len(s)]
    BY <1>1 DEF Chain
  <1>4. queue_head[p] = NULL <=> Len(s) = 0
    BY <1>1, <1>2, ReadyListAssumption
  <1>5. Len(s) = 0 <=> s = <<>>
    BY <1>1
  <1>6. s # <<>> => Head(s) = s[1]
    BY <1>1, TailElements
  <1>7. Steps(s)[TASK_COUNT] = NULL
    BY <1>1, ReadyListAssumption DEF Steps
  <1> QED
    BY <1>1, <1>2, <1>3, <1>4, <1>5, <1>6, <1>7 DEF s

---------------------------------------------------------------------------
(* enqueue_task appends the task to the queue of its priority.             *)
LEMMA EnqueueStep ==
    ASSUME PointerInv, NEW tsk \in Tasks, enqueue_task(tsk)
    PROVE  PointerInv' /\ T!enqueue_task(tsk)
  <1>1. PointerTypeOK
    BY DEF PointerInv
  <1>2. PICK prio \in Priority : prio = priority[tsk]
    BY <1>1 DEF PointerTypeOK
  <1>3. PICK s : s = ListOf(prio)
    OBVIOUS
  <1>4. ASSUME NEW p \in Priority
        PROVE  ~Contains(ListOf(p), tsk)
    <2>1. /\ ListOf(p) \in Seq(Tasks) /\ Len(ListOf(p)) \in 0 .. TASK_COUNT
          /\ Walk(queue_head[p], next_ready) = Steps(ListOf(p))
      BY QueueFacts
    <2>2. \A n \in 0 .. TASK_COUNT : Steps(ListOf(p))[n] # tsk
      BY <2>1 DEF enqueue_task, Linked
    <2>3. ASSUME NEW i \in 1 .. Len(ListOf(p)), ListOf(p)[i] = tsk
          PROVE  FALSE
      <3>1. i - 1 \in 0 .. TASK_COUNT /\ (i - 1) + 1 = i
        BY <2>1, ReadyListAssumption
      <3> QED
        BY <3>1, <2>1, <2>2, <2>3, StepsFind
    <2> QED
      BY <2>3, <2>1 DEF Contains
  <1>5. /\ Chain(s, queue_head[prio], queue_tail[prio], next_ready)
        /\ s \in Seq(Tasks) /\ ~Contains(s, tsk)
        /\ \A i \in 1 .. Len(s) : s[i] \in Tasks /\ priority[s[i]] = prio
    BY <1>3, <1>4, QueueFacts
  <1>6. /\ next_ready' = IF queue_head[prio] = NULL THEN [next_ready EXCEPT ![tsk] = NULL]
                         ELSE [next_ready EXCEPT ![tsk] = NULL, ![queue_tail[prio]] = tsk]
        /\ queue_head' = [queue_head EXCEPT ![prio] = IF queue_head[prio] = NULL THEN tsk
                                                      ELSE queue_head[prio]]
        /\ queue_tail' = [queue_tail EXCEPT ![prio] = tsk]
        /\ reschedule_needed' = TRUE
        /\ priority' = priority /\ current_task' = current_task /\ next_task' = next_task
    BY <1>1, <1>2 DEF enqueue_task, PointerTypeOK
  <1>7. /\ next_ready' \in [Tasks -> Tasks \cup {NULL}]
        /\ \A t \in Tasks : t # tsk /\ (queue_head[prio] = NULL \/ t # queue_tail[prio])
              => next_ready'[t] = next_ready[t]
    BY <1>1, <1>6 DEF PointerTypeOK
  <1>8. /\ queue_head'[prio] = IF queue_head[prio] = NULL THEN tsk ELSE queue_head[prio]
        /\ queue_tail'[prio] = tsk
        /\ \A p \in Priority : p # prio =>
              queue_head'[p] = queue_head[p] /\ queue_tail'[p] = queue_tail[p]
    BY <1>1, <1>6 DEF PointerTypeOK
  <1>9. PointerTypeOK'
    BY <1>1, <1>6, <1>7 DEF PointerTypeOK
  <1>10. ListOf(prio)' = Append(s, tsk) /\ QueueOf(prio, ListOf(prio))'
    <2>1. Chain(Append(s, tsk), queue_head'[prio], queue_tail'[prio], next_ready')
      <3>1. next_ready \in [Tasks -> Tasks \cup {NULL}]
        BY <1>1 DEF PointerTypeOK
      <3>2. next_ready' \in [Tasks -> Tasks \cup {NULL}]
        BY <1>7
      <3>3. next_ready' = IF queue_head[prio] = NULL THEN [next_ready EXCEPT ![tsk] = NULL]
                          ELSE [next_ready EXCEPT ![tsk] = NULL, ![queue_tail[prio]] = tsk]
        BY <1>6
      <3>4. Chain(Append(s, tsk), IF queue_head[prio] = NULL THEN tsk ELSE queue_head[prio],
                  tsk, next_ready')
        BY <3>1, <3>2, <3>3, <1>5, ChainAppend, Zenon
      <3> QED
        BY <3>4, <1>8
    <2>2. \A i \in 1 .. Len(Append(s, tsk)) : priority'[Append(s, tsk)[i]] = prio
      BY <1>2, <1>5, <1>6
    <2>3. QueueOf(prio, Append(s, tsk))'
      BY <2>1, <2>2 DEF QueueOf
    <2> QED
      BY <2>3, QueueIsNext
  <1>11. ASSUME NEW p \in Priority, p # prio
         PROVE  ListOf(p)' = ListOf(p) /\ QueueOf(p, ListOf(p))'
    <2>1. PICK r : r = ListOf(p)
      OBVIOUS
    <2>2. /\ Chain(r, queue_head[p], queue_tail[p], next_ready)
          /\ r \in Seq(Tasks) /\ ~Contains(r, tsk)
          /\ \A i \in 1 .. Len(r) : r[i] \in Tasks /\ priority[r[i]] = p
      BY <2>1, <1>4, QueueFacts
    <2>3. queue_head[prio] # NULL => priority[queue_tail[prio]] = prio
      BY <1>5 DEF Chain
    <2>4. \A i \in 1 .. Len(r) : next_ready'[r[i]] = next_ready[r[i]]
      BY <2>2, <2>3, <1>7, <1>11 DEF Contains
    <2>5. Chain(r, queue_head'[p], queue_tail'[p], next_ready')
      BY <2>2, <2>4, <1>8, <1>11, ChainFrame
    <2>6. QueueOf(p, r)'
      BY <2>2, <2>5, <1>6 DEF QueueOf
    <2> QED
      BY <2>1, <2>6, QueueIsNext
  <1>12. PointerInv'
    BY <1>9, <1>10, <1>11 DEF PointerInv, ChainInv
  <1>13. Queues' = [Queues EXCEPT ![priority[tsk]] = Append(@, tsk)]
    BY <1>2, <1>3, <1>10, <1>11 DEF Queues
  <1>14. T!enqueue_task(tsk)
    BY <1>6, <1>13 DEF T!enqueue_task
  <1> QED
    BY <1>12, <1>14

(* dequeue_task removes the task from the queue of its priority, if it is  *)
(* there.                                                                  *)
LEMMA DequeueFound ==
    ASSUME PointerInv, NEW tsk \in Tasks, NEW prio \in Priority, prio = priority[tsk],
           NEW n \in 0 .. TASK_COUNT, NEW prev, UNCHANGED priority,
           Walk(queue_head[prio], next_ready)[n] = tsk,
           prev = IF n = 0 THEN NULL ELSE Walk(queue_head[prio], next_ready)[n - 1],
           Unlink(tsk, prio, prev)
    PROVE  /\ Contains(ListOf(prio), tsk)
           /\ Queues' = [Queues EXCEPT ![prio] = RemoveFirst(@, tsk)]
           /\ ChainInv'
           /\ queue_head' \in [Priority -> Tasks \cup {NULL}]
           /\ queue_tail' \in [Priority -> Tasks \cup {NULL}]
           /\ next_ready' \in [Tasks -> Tasks \cup {NULL}]
  <1>1. PointerTypeOK /\ next_ready \in [Tasks -> Tasks \cup {NULL}]
    BY DEF PointerInv, PointerTypeOK
  <1>2. PICK s : s = ListOf(prio)
    OBVIOUS
  <1>3. /\ Chain(s, queue_head[prio], queue_tail[prio], next_ready)
        /\ s \in Seq(Tasks) /\ IsInjective(s) /\ Len(s) \in 0 .. TASK_COUNT
        /\ \A i \in 1 .. Len(s) : s[i] \in Tasks /\ s[i] # NULL /\ priority[s[i]] = prio
        /\ Walk(queue_head[prio], next_ready) = Steps(s)
    BY <1>2, QueueFacts
  <1>4. PICK k \in 1 .. Len(s) : k = n + 1 /\ s[k] = tsk
    BY <1>3, StepsFind
  <1>5. prev = Before(s, k)
    <2>1. CASE n = 0
      BY <2>1, <1>4 DEF Before
    <2>2. CASE n # 0
      <3>1. n - 1 \in 0 .. TASK_COUNT /\ n - 1 < Len(s) /\ (n - 1) + 1 = k - 1 /\ k # 1
        BY <2>2, <1>3, <1>4, ReadyListAssumption
      <3>2. Steps(s)[n - 1] = s[k - 1]
        BY <3>1 DEF Steps
      <3> QED
        BY <2>2, <3>1, <3>2, <1>3 DEF Before
    <2> QED
      BY <2>1, <2>2
  <1>6. prev # NULL => prev \in Tasks /\ priority[prev] = prio
    BY <1>3, <1>4, <1>5 DEF Before
  <1>7. /\ next_ready' = IF prev = NULL THEN [next_ready EXCEPT ![s[k]] = NULL]
                         ELSE [next_ready EXCEPT ![prev] = next_ready[s[k]], ![s[k]] = NULL]
        /\ queue_head' = [queue_head EXCEPT ![prio] =
                             IF prev = NULL THEN next_ready[s[k]] ELSE queue_head[prio]]
        /\ queue_tail' = [queue_tail EXCEPT ![prio] =
                             IF queue_tail[prio] = s[k] THEN prev ELSE queue_tail[prio]]
    BY <1>1, <1>4 DEF Unlink, PointerTypeOK
  <1>8. /\ queue_head' \in [Priority -> Tasks \cup {NULL}]
        /\ queue_tail' \in [Priority -> Tasks \cup {NULL}]
        /\ next_ready' \in [Tasks -> Tasks \cup {NULL}]
    BY <1>1, <1>4, <1>6, <1>7 DEF PointerTypeOK
  <1>9. /\ queue_head'[prio] = IF prev = NULL THEN next_ready[s[k]] ELSE queue_head[prio]
        /\ queue_tail'[prio] = IF queue_tail[prio] = s[k] THEN prev ELSE queue_tail[prio]
        /\ \A p \in Priority : p # prio =>
              queue_head'[p] = queue_head[p] /\ queue_tail'[p] = queue_tail[p]
    BY <1>1, <1>7 DEF PointerTypeOK
  <1>10. \A t \in Tasks : t # tsk /\ (prev = NULL \/ t # prev) => next_ready'[t] = next_ready[t]
    BY <1>1, <1>4, <1>7
  <1>11. ListOf(prio)' = RemoveFirst(s, tsk) /\ QueueOf(prio, ListOf(prio))'
    <2>1. Chain(RemoveFirst(s, s[k]), HeadWithout(queue_head[prio], next_ready, s[k], prev),
                TailWithout(queue_tail[prio], s[k], prev), LinksWithout(next_ready, s[k], prev))
      BY <1>1, <1>3, <1>4, <1>5, ChainRemove
    <2>2. PICK r : r = RemoveFirst(s, tsk)
      OBVIOUS
    <2>3. Chain(r, queue_head'[prio], queue_tail'[prio], next_ready')
      BY <2>1, <2>2, <1>4, <1>7, <1>9 DEF HeadWithout, TailWithout, LinksWithout
    <2>4. r \in Seq(Tasks) /\ \A x : Contains(r, x) => Contains(s, x)
      BY <2>2, <1>3, RemoveFirstList
    <2>5. ASSUME NEW i \in 1 .. Len(r)
          PROVE  priority'[r[i]] = prio
      <3>1. Contains(r, r[i])
        BY <2>4 DEF Contains
      <3>2. PICK j \in 1 .. Len(s) : s[j] = r[i]
        BY <3>1, <2>4 DEF Contains
      <3> QED
        BY <3>2, <1>3
    <2>6. QueueOf(prio, r)'
      BY <2>3, <2>5 DEF QueueOf
    <2> QED
      BY <2>2, <2>6, QueueIsNext
  <1>12. ASSUME NEW p \in Priority, p # prio
         PROVE  ListOf(p)' = ListOf(p) /\ QueueOf(p, ListOf(p))'
    <2>1. PICK r : r = ListOf(p)
      OBVIOUS
    <2>2. /\ Chain(r, queue_head[p], queue_tail[p], next_ready)
          /\ \A i \in 1 .. Len(r) : r[i] \in Tasks /\ priority[r[i]] = p
      BY <2>1, QueueFacts
    <2>3. \A i \in 1 .. Len(r) : next_ready'[r[i]] = next_ready[r[i]]
      BY <2>2, <1>6, <1>10, <1>12
    <2>4. Chain(r, queue_head'[p], queue_tail'[p], next_ready')
      BY <2>2, <2>3, <1>9, <1>12, ChainFrame
    <2>5. QueueOf(p, r)'
      BY <2>2, <2>4 DEF QueueOf
    <2> QED
      BY <2>1, <2>5, QueueIsNext
  <1>13. Queues' = [Queues EXCEPT ![prio] = RemoveFirst(@, tsk)]
    BY <1>2, <1>11, <1>12 DEF Queues
  <1>14. ChainInv'
    BY <1>11, <1>12 DEF ChainInv
  <1>15. Contains(ListOf(prio), tsk)
    BY <1>2, <1>3, <1>4 DEF Contains
  <1> QED
    BY <1>8, <1>13, <1>14, <1>15

(* The pointers alone determine the queues and the invariant.              *)
LEMMA UnchangedLists ==
    ASSUME UNCHANGED listVars, UNCHANGED priority
    PROVE  /\ Queues' = Queues
           /\ ChainInv => ChainInv'
  BY DEF listVars, Queues, ListOf, ChainInv, QueueOf

LEMMA DequeueStep ==
    ASSUME PointerInv, NEW tsk \in Tasks, dequeue_task(tsk)
    PROVE  PointerInv' /\ T!dequeue_task(tsk)
  <1>1. PointerTypeOK /\ ChainInv
    BY DEF PointerInv
  <1>2. PICK prio \in Priority : prio = priority[tsk]
    BY <1>1 DEF PointerTypeOK
  <1>3. priority' = priority /\ current_task' = current_task /\ next_task' = next_task
    BY DEF dequeue_task
  <1> DEFINE step == Walk(queue_head[prio], next_ready)
             named == tsk \in {current_task, next_task}
             Abstract == /\ Queues' = [Queues EXCEPT ![prio] = RemoveFirst(@, tsk)]
                         /\ reschedule_needed' =
                               (reschedule_needed \/ (Contains(ListOf(prio), tsk) /\ named))
  <1>4. \/ \E n \in 0 .. TASK_COUNT :
              /\ step[n] = tsk
              /\ Unlink(tsk, prio, IF n = 0 THEN NULL ELSE step[n - 1])
              /\ reschedule_needed' = (reschedule_needed \/ named)
        \/ /\ \A n \in 0 .. TASK_COUNT : step[n] # tsk
           /\ UNCHANGED <<listVars, reschedule_needed>>
    BY <1>2 DEF dequeue_task
  <1> HIDE DEF named
  <1>5. ASSUME \E n \in 0 .. TASK_COUNT :
                  /\ step[n] = tsk
                  /\ Unlink(tsk, prio, IF n = 0 THEN NULL ELSE step[n - 1])
                  /\ reschedule_needed' = (reschedule_needed \/ named)
        PROVE  PointerInv' /\ Abstract
    <2>1. PICK n \in 0 .. TASK_COUNT :
               /\ step[n] = tsk
               /\ Unlink(tsk, prio, IF n = 0 THEN NULL ELSE step[n - 1])
               /\ reschedule_needed' = (reschedule_needed \/ named)
      BY <1>5
    <2>2. PICK prev : prev = IF n = 0 THEN NULL ELSE step[n - 1]
      OBVIOUS
    <2>3. Unlink(tsk, prio, prev)
      BY <2>1, <2>2
    <2>4. /\ Contains(ListOf(prio), tsk)
          /\ Queues' = [Queues EXCEPT ![prio] = RemoveFirst(@, tsk)]
          /\ ChainInv'
          /\ queue_head' \in [Priority -> Tasks \cup {NULL}]
          /\ queue_tail' \in [Priority -> Tasks \cup {NULL}]
          /\ next_ready' \in [Tasks -> Tasks \cup {NULL}]
      BY <2>1, <2>2, <2>3, <1>2, <1>3, DequeueFound
    <2>5. reschedule_needed' \in BOOLEAN /\ (reschedule_needed => reschedule_needed')
      BY <2>1, <1>1 DEF PointerTypeOK
    <2>6. PointerTypeOK'
      BY <2>4, <2>5, <1>1, <1>3 DEF PointerTypeOK
    <2> QED
      BY <2>1, <2>4, <2>6 DEF PointerInv
  <1>6. ASSUME \A n \in 0 .. TASK_COUNT : step[n] # tsk,
               UNCHANGED <<listVars, reschedule_needed>>
        PROVE  PointerInv' /\ Abstract
    <2>1. PICK s : s = ListOf(prio)
      OBVIOUS
    <2>2. /\ s \in Seq(Tasks) /\ IsInjective(s) /\ Len(s) \in 0 .. TASK_COUNT
          /\ step = Steps(s)
      BY <2>1, QueueFacts
    <2>3. ASSUME NEW i \in 1 .. Len(s), s[i] = tsk
          PROVE  FALSE
      <3>1. i - 1 \in 0 .. TASK_COUNT /\ (i - 1) + 1 = i
        BY <2>2, ReadyListAssumption
      <3> QED
        BY <3>1, <2>2, <2>3, <1>6, StepsFind
    <2>4. ~Contains(s, tsk)
      BY <2>2, <2>3 DEF Contains
    <2>5. RemoveFirst(s, tsk) = s
      BY <2>2, <2>4, RemoveFirstList
    <2>6. UNCHANGED listVars /\ reschedule_needed' = reschedule_needed
      BY <1>6
    <2>7. Queues' = Queues /\ ChainInv'
      BY <2>6, <1>1, <1>3, UnchangedLists
    <2>8. Queues' = [Queues EXCEPT ![prio] = RemoveFirst(@, tsk)]
      BY <2>1, <2>5, <2>7 DEF Queues
    <2>9. PointerTypeOK'
      BY <2>6, <1>1, <1>3 DEF PointerTypeOK, listVars
    <2>10. reschedule_needed' = (reschedule_needed \/ (Contains(ListOf(prio), tsk) /\ named))
      BY <2>1, <2>4, <2>6, <1>1 DEF PointerTypeOK
    <2> QED
      BY <2>7, <2>8, <2>9, <2>10 DEF PointerInv
  <1>7. PointerInv' /\ Abstract
    BY <1>4, <1>5, <1>6
  <1>8. \A s : T!RemoveFirst(s, tsk) = RemoveFirst(s, tsk) /\ T!Contains(s, tsk) = Contains(s, tsk)
    BY DEF T!RemoveFirst, RemoveFirst, T!RemoveAt, RemoveAt, T!SelectInSeq, SelectInSeq, T!Min, Min,
       T!Contains, Contains
  <1>9. Queues[prio] = ListOf(prio)
    BY DEF Queues
  <1>10. T!dequeue_task(tsk)
    BY <1>2, <1>7, <1>8, <1>9 DEF T!dequeue_task, named
  <1> QED
    BY <1>7, <1>10

(* scheduler looks at the heads only, and picks what Task's operator picks.*)
LEMMA SchedulerStep ==
    ASSUME PointerInv, scheduler
    PROVE  PointerInv' /\ \E tsk \in Tasks : T!scheduler(tsk) /\ UNCHANGED listVars
  <1>1. PointerTypeOK /\ ChainInv
    BY DEF PointerInv
  <1>2. /\ UNCHANGED listVars /\ priority' = priority
        /\ queue_head' = queue_head /\ queue_tail' = queue_tail /\ next_ready' = next_ready
        /\ reschedule_needed' = FALSE
    BY DEF scheduler, listVars
  <1>3. ChainInv'
    BY <1>1, <1>2, UnchangedLists
  <1>4. \A p \in Priority :
           /\ queue_head[p] = NULL <=> Queues[p] = <<>>
           /\ queue_head[p] # NULL => queue_head[p] = Head(Queues[p])
    BY ListTypes DEF Queues
  <1>5. ASSUME reschedule_needed
        PROVE  next_task' \in Tasks /\ T!Picks(next_task')
    <2>1. CASE (\A p \in Priority : queue_head[p] = NULL) /\ next_task' = idle_task
      BY <2>1, <1>4, ReadyListAssumption DEF T!Picks, T!Priority, Priority, T!idle_task, idle_task, Tasks
    <2>2. CASE \E p \in Priority :
                  /\ queue_head[p] # NULL
                  /\ \A q \in 0 .. p - 1 : queue_head[q] = NULL
                  /\ next_task' = queue_head[p]
      <3>1. PICK p \in Priority :
                  /\ queue_head[p] # NULL
                  /\ \A q \in 0 .. p - 1 : queue_head[q] = NULL
                  /\ next_task' = queue_head[p]
        BY <2>2
      <3>2. next_task' \in Tasks
        BY <3>1, <1>1 DEF PointerTypeOK
      <3>3. \A q \in 0 .. p - 1 : q \in Priority
        BY ReadyListAssumption DEF Priority
      <3>4. /\ Queues[p] # <<>> /\ next_task' = Head(Queues[p])
            /\ \A q \in 0 .. p - 1 : Queues[q] = <<>>
        BY <3>1, <3>3, <1>4
      <3> QED
        BY <3>2, <3>4 DEF T!Picks, T!Priority, Priority
    <2> QED
      BY <1>5, <2>1, <2>2 DEF scheduler
  <1>6. ASSUME ~reschedule_needed
        PROVE  next_task' = next_task /\ next_task \in Tasks
    BY <1>1, <1>6 DEF scheduler, PointerTypeOK
  <1>7. next_task' \in Tasks /\ T!scheduler(next_task')
    BY <1>2, <1>5, <1>6 DEF T!scheduler
  <1>8. PointerTypeOK'
    BY <1>1, <1>2, <1>7 DEF PointerTypeOK
  <1> QED
    BY <1>2, <1>3, <1>7, <1>8 DEF PointerInv

---------------------------------------------------------------------------
AbstractStep ==
    \/ \E tsk \in Tasks : T!enqueue_task(tsk) \/ T!dequeue_task(tsk)
    \/ \E tsk \in Tasks : T!scheduler(tsk) /\ UNCHANGED listVars

LEMMA PointersStart == Init => PointerInv
  <1> SUFFICES ASSUME Init
               PROVE  PointerInv
    OBVIOUS
  <1>1. PointerTypeOK
    BY DEF Init, PointerTypeOK
  <1>2. ASSUME NEW p \in Priority
        PROVE  QueueOf(p, ListOf(p))
    <2>1. queue_head[p] = NULL /\ queue_tail[p] = NULL
      BY DEF Init
    <2>2. Chain(<<>>, NULL, NULL, next_ready)
      BY DEF Chain, IsInjective
    <2>3. QueueOf(p, <<>>)
      BY <2>1, <2>2 DEF QueueOf
    <2> QED
      BY <2>3, QueueIs
  <1> QED
    BY <1>1, <1>2 DEF PointerInv, ChainInv

LEMMA PointersStep ==
    ASSUME PointerInv, [Next]_vars
    PROVE  PointerInv' /\ [AbstractStep]_vars
  <1>1. CASE Next
    <2>1. ASSUME NEW tsk \in Tasks \ {idle_task}, enqueue_task(tsk)
          PROVE  PointerInv' /\ AbstractStep
      BY <2>1, EnqueueStep DEF AbstractStep
    <2>2. ASSUME NEW tsk \in Tasks \ {idle_task}, dequeue_task(tsk)
          PROVE  PointerInv' /\ AbstractStep
      BY <2>2, DequeueStep DEF AbstractStep
    <2>3. ASSUME scheduler
          PROVE  PointerInv' /\ AbstractStep
      BY <2>3, SchedulerStep DEF AbstractStep
    <2> QED
      BY <1>1, <2>1, <2>2, <2>3 DEF Next
  <1>2. CASE UNCHANGED vars
    <2>1. UNCHANGED listVars /\ priority' = priority
      BY <1>2 DEF vars
    <2>2. PointerTypeOK'
      BY <1>2 DEF vars, listVars, PointerInv, PointerTypeOK
    <2> QED
      BY <1>2, <2>1, <2>2, UnchangedLists DEF PointerInv
  <1> QED
    BY <1>1, <1>2

(* The inductive invariant: every queue stays a chain of distinct tasks of *)
(* its priority that starts at queue_head and ends at queue_tail, whatever *)
(* the order in which enqueue_task, dequeue_task and scheduler are called. *)
THEOREM PointersInvariance == Spec => []PointerInv
  BY PointersStart, PointersStep, PTL DEF Spec

(* The lists of task.c never have a cycle, a task of another priority or   *)
(* a tail pointer that is not their last task, so that enqueue_task links  *)
(* behind the right task.                                                  *)
THEOREM ListsWellLinked == Spec => []WellLinked
  <1>1. PointerInv => WellLinked
    BY ListTypes
  <1> QED
    BY <1>1, PointersInvariance, PTL

(* Every operation on the pointers of task.c is the operation of module    *)
(* Task on the sequences they represent: what is proved of the kernel with *)
(* sequences holds for the lists the code keeps.                           *)
THEOREM PointersImplementQueues == Spec => ImplementsQueues
  <1>1. PointerInv /\ [Next]_vars => [AbstractStep]_vars
    BY PointersStep
  <1>2. Spec => [][AbstractStep]_vars
    BY <1>1, PointersInvariance, PTL DEF Spec
  <1> QED
    BY <1>2 DEF ImplementsQueues, AbstractStep
============================================================================
