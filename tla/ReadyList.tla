----------------------------- MODULE ReadyList ----------------------------
(***************************************************************************)
(* The ready queues as kernel/task.c stores them: a head and a tail        *)
(* pointer per priority, and one next_ready link in each task. Shown to    *)
(* implement the sequences of module Task, by whose operators everything   *)
(* else is specified.                                                      *)
(***************************************************************************)
EXTENDS Integers, Sequences, FiniteSets

CONSTANTS TASK_COUNT, LOWEST_TASK_PRIORITY, TASK_DEFAULT_QUANTUM, NULL

ASSUME ReadyListAssumption ==
    /\ TASK_COUNT \in Nat \ {0}
    /\ LOWEST_TASK_PRIORITY \in Nat
    /\ TASK_DEFAULT_QUANTUM \in Nat \ {0}
    /\ NULL \notin 0 .. TASK_COUNT - 1

Tasks == 0 .. TASK_COUNT - 1
Priority == 0 .. LOWEST_TASK_PRIORITY
idle_task == 0

VARIABLES queue_head, queue_tail,     \* per priority: a task or NULL
          next_ready,                 \* per task: a task or NULL
          reschedule_needed,
          priority, current_task, next_task

listVars == <<queue_head, queue_tail, next_ready>>
vars == <<listVars, reschedule_needed, priority, current_task, next_task>>

(* The task n links after head, and the list that starts there; a list     *)
(* with a cycle has no length.                                             *)
Walk(head, next) ==
    LET step[n \in 0 .. TASK_COUNT] ==
            IF n = 0 THEN head
            ELSE IF step[n - 1] = NULL THEN NULL ELSE next[step[n - 1]]
    IN  step

Follow(head, next) ==
    LET step == Walk(head, next)
        length == CHOOSE n \in 0 .. TASK_COUNT :
                    step[n] = NULL /\ \A m \in 0 .. n - 1 : step[m] # NULL
    IN  [i \in 1 .. length |-> step[i - 1]]

ListOf(p) == Follow(queue_head[p], next_ready)

Linked(t) ==
    \E p \in Priority : \E n \in 0 .. TASK_COUNT : Walk(queue_head[p], next_ready)[n] = t

---------------------------------------------------------------------------
Init ==
    /\ queue_head = [p \in Priority |-> NULL]
    /\ queue_tail = [p \in Priority |-> NULL]
    /\ next_ready = [t \in Tasks |-> NULL]
    /\ reschedule_needed = TRUE
    /\ priority \in [Tasks -> Priority]
    /\ current_task = NULL
    /\ next_task = NULL

(* A task is only enqueued when it is in no ready queue (OnePlace of       *)
(* module Kernel).                                                         *)
enqueue_task(tsk) ==
    LET prio == priority[tsk] IN
    /\ ~Linked(tsk)
    /\ \/ /\ queue_head[prio] = NULL
          /\ queue_head' = [queue_head EXCEPT ![prio] = tsk]
          /\ next_ready' = [next_ready EXCEPT ![tsk] = NULL]
       \/ /\ queue_head[prio] # NULL
          /\ next_ready' = [next_ready EXCEPT ![tsk] = NULL, ![queue_tail[prio]] = tsk]
          /\ UNCHANGED queue_head
    /\ queue_tail' = [queue_tail EXCEPT ![prio] = tsk]
    /\ reschedule_needed' = TRUE
    /\ UNCHANGED <<priority, current_task, next_task>>

(* dequeue_task, in the case that its loop finds tsk after n links: cur is *)
(* the head pointer or the next_ready of prev.                             *)
Unlink_keeps_tail(tsk, prio, prev) ==
    /\ IF prev = NULL
       THEN /\ queue_head' = [queue_head EXCEPT ![prio] = next_ready[tsk]]
            /\ next_ready' = [next_ready EXCEPT ![tsk] = NULL]
       ELSE /\ next_ready' = [next_ready EXCEPT ![prev] = next_ready[tsk], ![tsk] = NULL]
            /\ UNCHANGED queue_head
    /\ UNCHANGED queue_tail

Unlink_cuts_list(tsk, prio, prev) ==
    /\ IF prev = NULL
       THEN /\ queue_head' = [queue_head EXCEPT ![prio] = next_ready[tsk]]
            /\ next_ready' = [next_ready EXCEPT ![tsk] = NULL]
       ELSE /\ next_ready' = [next_ready EXCEPT ![prev] = NULL, ![tsk] = NULL]
            /\ UNCHANGED queue_head
    /\ queue_tail' = IF prev # NULL \/ queue_tail[prio] = tsk
                     THEN [queue_tail EXCEPT ![prio] = prev]
                     ELSE queue_tail

Unlink(tsk, prio, prev) ==
    /\ IF prev = NULL
       THEN /\ queue_head' = [queue_head EXCEPT ![prio] = next_ready[tsk]]
            /\ next_ready' = [next_ready EXCEPT ![tsk] = NULL]
       ELSE /\ next_ready' = [next_ready EXCEPT ![prev] = next_ready[tsk], ![tsk] = NULL]
            /\ UNCHANGED queue_head
    /\ queue_tail' = IF queue_tail[prio] = tsk
                     THEN [queue_tail EXCEPT ![prio] = prev]
                     ELSE queue_tail

dequeue_task(tsk) ==
    LET prio == priority[tsk]
        step == Walk(queue_head[prio], next_ready)
    IN
    /\ \/ \E n \in 0 .. TASK_COUNT :
             /\ step[n] = tsk
             /\ Unlink(tsk, prio, IF n = 0 THEN NULL ELSE step[n - 1])
             /\ reschedule_needed' = (reschedule_needed \/ tsk \in {current_task, next_task})
       \/ /\ \A n \in 0 .. TASK_COUNT : step[n] # tsk
          /\ UNCHANGED <<listVars, reschedule_needed>>
    /\ UNCHANGED <<priority, current_task, next_task>>

(* scheduler() looks at the heads only; resume then makes next_task the    *)
(* current task.                                                           *)
scheduler ==
    /\ \/ /\ reschedule_needed
          /\ \/ /\ \A p \in Priority : queue_head[p] = NULL
                /\ next_task' = idle_task
             \/ \E p \in Priority :
                   /\ queue_head[p] # NULL
                   /\ \A q \in 0 .. p - 1 : queue_head[q] = NULL
                   /\ next_task' = queue_head[p]
       \/ ~reschedule_needed /\ UNCHANGED next_task
    /\ reschedule_needed' = FALSE
    /\ current_task' = next_task'
    /\ UNCHANGED <<listVars, priority>>

Next ==
    \/ \E tsk \in Tasks \ {idle_task} : enqueue_task(tsk) \/ dequeue_task(tsk)
    \/ scheduler

Spec == Init /\ [][Next]_vars

---------------------------------------------------------------------------
(* The tail pointer of a queue is its last task, the last task has no      *)
(* successor, and no list has a cycle or reaches a task of another         *)
(* priority. enqueue_task writes through queue_tail without looking at     *)
(* the list, and dequeue_task has to find prev for a tail it removes.      *)
WellLinked ==
    \A p \in Priority :
        /\ Walk(queue_head[p], next_ready)[TASK_COUNT] = NULL
        /\ \A i \in DOMAIN ListOf(p) : priority[ListOf(p)[i]] = p
        /\ queue_tail[p] = IF queue_head[p] = NULL THEN NULL
                           ELSE ListOf(p)[Len(ListOf(p))]

(* Every operation on the pointers does to the lists what the operator of  *)
(* module Task does to its sequences.                                      *)
Queues == [p \in Priority |-> ListOf(p)]

T == INSTANCE Task WITH
        queue <- Queues,
        pid <- 0, flags <- 0, ticks_left <- 0, pid_count <- 0

ImplementsQueues ==
    [][\/ \E tsk \in Tasks : T!enqueue_task(tsk) \/ T!dequeue_task(tsk)
       \/ \E tsk \in Tasks : T!scheduler(tsk) /\ UNCHANGED listVars]_vars
============================================================================
