---------------------------- MODULE KernelProofs --------------------------
(***************************************************************************)
(* Proofs about module Kernel, for every number of tasks and priorities,   *)
(* every quantum and clock, and all arguments of kernel calls.             *)
(***************************************************************************)
EXTENDS Kernel, BasicLemmas

(***************************************************************************)
(* The ready queues: what enqueue_task, dequeue_task and preempt do to the *)
(* set of ready tasks.                                                     *)
(***************************************************************************)
QueueTypeOK ==
    /\ queue \in [Priority -> Seq(Tasks)]
    /\ priority \in [Tasks -> Priority]

(* enqueue_task of a task in no queue makes it, and nothing else, ready.   *)
LEMMA EnqueueEffect ==
    ASSUME QueueTypeOK, ReadyOnce, NEW tsk \in Tasks, ~InQueue(tsk),
           enqueue_task(tsk), UNCHANGED priority
    PROVE  /\ QueueTypeOK'
           /\ ReadyOnce'
           /\ reschedule_needed' = TRUE
           /\ \A t \in Tasks : InQueue(t)' <=> InQueue(t) \/ t = tsk
  <1> DEFINE p0 == priority[tsk]
  <1>1. /\ p0 \in Priority
        /\ queue[p0] \in Seq(Tasks)
        /\ queue' = [queue EXCEPT ![p0] = Append(queue[p0], tsk)]
        /\ IsInjective(queue[p0]) /\ ~Contains(queue[p0], tsk)
    BY DEF QueueTypeOK, enqueue_task, ReadyOnce, InQueue
  <1>2. /\ Append(queue[p0], tsk) \in Seq(Tasks)
        /\ \A x : Contains(Append(queue[p0], tsk), x) <=> Contains(queue[p0], x) \/ x = tsk
        /\ IsInjective(Append(queue[p0], tsk))
    BY <1>1, AppendList
  <1>3. QueueTypeOK'
    BY <1>1, <1>2 DEF QueueTypeOK
  <1>4. \A p \in Priority : queue'[p] = IF p = p0 THEN Append(queue[p0], tsk) ELSE queue[p]
    BY <1>1 DEF QueueTypeOK
  <1>5. ReadyOnce'
    BY <1>1, <1>2, <1>4 DEF ReadyOnce
  <1>6. \A t \in Tasks : InQueue(t)' <=> InQueue(t) \/ t = tsk
    BY <1>1, <1>2, <1>4 DEF InQueue
  <1> QED
    BY <1>3, <1>5, <1>6 DEF enqueue_task

(* dequeue_task takes the task, and nothing else, from the ready tasks.    *)
LEMMA DequeueEffect ==
    ASSUME QueueTypeOK, ReadyOnce, NEW tsk \in Tasks, dequeue_task(tsk), UNCHANGED priority
    PROVE  /\ QueueTypeOK'
           /\ ReadyOnce'
           /\ reschedule_needed' = 
                 (reschedule_needed \/ (InQueue(tsk) /\ tsk \in {current_task, next_task}))
           /\ \A t \in Tasks : InQueue(t)' <=> InQueue(t) /\ t # tsk
  <1> DEFINE p0 == priority[tsk]
             r == RemoveFirst(queue[p0], tsk)
  <1>1. /\ p0 \in Priority
        /\ queue[p0] \in Seq(Tasks)
        /\ queue' = [queue EXCEPT ![p0] = r]
        /\ IsInjective(queue[p0])
    BY DEF QueueTypeOK, dequeue_task, ReadyOnce
  <1>2. /\ r \in Seq(Tasks)
        /\ \A x : Contains(r, x) <=> Contains(queue[p0], x) /\ x # tsk
        /\ IsInjective(r)
    BY <1>1, RemoveFirstList
  <1>3. InQueue(tsk) <=> Contains(queue[p0], tsk)
    BY <1>1 DEF InQueue, ReadyOnce
  <1> HIDE DEF r
  <1>4. QueueTypeOK'
    BY <1>1, <1>2 DEF QueueTypeOK
  <1>5. \A p \in Priority : queue'[p] = IF p = p0 THEN r ELSE queue[p]
    BY <1>1 DEF QueueTypeOK
  <1>6. ReadyOnce'
    BY <1>1, <1>2, <1>5 DEF ReadyOnce
  <1>7. \A t \in Tasks : InQueue(t)' <=> InQueue(t) /\ t # tsk
    BY <1>1, <1>2, <1>5 DEF InQueue, ReadyOnce
  <1> QED
    BY <1>3, <1>4, <1>6, <1>7 DEF dequeue_task

(* preempt of a ready task leaves the set of ready tasks alone.            *)
LEMMA PreemptEffect ==
    ASSUME QueueTypeOK, ReadyOnce, current_task \in Tasks, InQueue(current_task),
           preempt, UNCHANGED priority
    PROVE  /\ QueueTypeOK'
           /\ ReadyOnce'
           /\ reschedule_needed' = TRUE
           /\ \A t \in Tasks : InQueue(t)' <=> InQueue(t)
  <1> DEFINE p0 == priority[current_task]
             r == RemoveFirst(queue[p0], current_task)
             a == Append(r, current_task)
  <1>1. /\ p0 \in Priority
        /\ queue[p0] \in Seq(Tasks)
        /\ queue' = [queue EXCEPT ![p0] = a]
        /\ IsInjective(queue[p0])
    BY DEF QueueTypeOK, preempt, ReadyOnce
  <1>2. /\ r \in Seq(Tasks)
        /\ \A x : Contains(r, x) <=> Contains(queue[p0], x) /\ x # current_task
        /\ IsInjective(r)
    BY <1>1, RemoveFirstList
  <1>3. Contains(queue[p0], current_task)
    BY <1>1 DEF InQueue, ReadyOnce
  <1> HIDE DEF r
  <1>4. /\ a \in Seq(Tasks)
        /\ \A x : Contains(a, x) <=> Contains(r, x) \/ x = current_task
        /\ IsInjective(a)
    BY <1>2, AppendList
  <1> HIDE DEF a
  <1>5. QueueTypeOK'
    BY <1>1, <1>4 DEF QueueTypeOK
  <1>6. \A p \in Priority : queue'[p] = IF p = p0 THEN a ELSE queue[p]
    BY <1>1 DEF QueueTypeOK
  <1>7. \A x : Contains(a, x) <=> Contains(queue[p0], x)
    BY <1>2, <1>3, <1>4
  <1>8. ReadyOnce'
    BY <1>1, <1>4, <1>6, <1>7 DEF ReadyOnce
  <1>9. \A t \in Tasks : InQueue(t)' <=> InQueue(t)
    BY <1>1, <1>6, <1>7 DEF InQueue
  <1> QED
    BY <1>5, <1>8, <1>9 DEF preempt

(***************************************************************************)
(* Consequences of the invariant.                                          *)
(***************************************************************************)

(* A task waits to send exactly when its flag says so.                     *)
LEMMA SendingFlag ==
    ASSUME SendersOnce, TableInv
    PROVE  \A t \in Tasks : Sending(t) <=> "SENDING" \in message_flags[t]
  BY DEF SendersOnce, TableInv, Sending

(* The head of a list is in it.                                            *)
LEMMA HeadContained ==
    ASSUME NEW S, NEW s \in Seq(S), s # <<>>
    PROVE  Head(s) \in S /\ Contains(s, Head(s))
  BY DEF Contains

(* No task is in an empty list.                                            *)
LEMMA EmptyList == \A x : ~Contains(<<>>, x)
  BY DEF Contains

(* The task the scheduler picks is the idle task or a ready task.          *)
LEMMA PicksReady ==
    ASSUME QueueTypeOK, NEW tsk, Picks(tsk)
    PROVE  tsk = idle_task \/ (tsk \in Tasks /\ InQueue(tsk))
  BY HeadContained DEF QueueTypeOK, Picks, InQueue

(* A task that makes a kernel call is ready, has a pid and no unfinished   *)
(* call to the message system.                                             *)
LEMMA CallerFacts ==
    ASSUME IInv, pc = "task", current_task # idle_task
    PROVE  /\ current_task \in Tasks /\ current_task \in Created
           /\ InQueue(current_task)
           /\ current_task \notin Sleeping /\ ~Sending(current_task)
           /\ ~Receiving(current_task)
           /\ message_flags[current_task] = {}
           /\ pid[current_task] \in Pids
           /\ next_task = current_task
  <1>1. current_task \in Created /\ ~reschedule_needed
    BY DEF IInv, DecisionInv
  <1>2. current_task \in Tasks /\ pid[current_task] # PID_NO_TASK
    BY <1>1 DEF Created
  <1>3. QueueTypeOK
    BY DEF IInv, TypeOK, TaskTypeOK, QueueTypeOK
  <1>4. InQueue(current_task) /\ next_task = current_task
    BY <1>1, <1>3, PicksReady DEF IInv, DecisionInv
  <1>5. pid[current_task] \in Pids
    BY <1>2 DEF IInv, TypeOK, TaskTypeOK, Pids
  <1> QED
    BY <1>1, <1>2, <1>4, <1>5 DEF IInv, OnePlace, DeliveryPending

(***************************************************************************)
(* The initial state.                                                      *)
(***************************************************************************)
LEMMA InitInv == Init => IInv
  <1> SUFFICES ASSUME Init PROVE IInv
    OBVIOUS
  <1> USE TaskAssumption, NullAssumption, ClockAssumption, AddressAssumption
  <1> USE DEF Init, multitasking_init, clock_setup, message_init
  <1>1. TypeOK
    BY DEF TypeOK, TaskTypeOK, ClockTypeOK, MessageTypeOK, KernelTypeOK, Tasks, Priority,
           Pids, MessageType, ZeroMessage, idle_task, PID_NO_TASK, TaskFlags, MessageFlags
  <1>2. TableInv /\ BootInv
    BY DEF TableInv, BootInv, Tasks, idle_task
  <1>3. LinkedOnce
    BY EmptyList DEF LinkedOnce, ReadyOnce, TimersOnce, SendersOnce, IsInjective
  <1>4. OnePlace
    BY EmptyList DEF OnePlace, Placed, InQueue, Sleeping, Sending, Receiving
  <1>5. DecisionInv /\ DeliveryPending /\ NoLostWakeup
    BY DEF DecisionInv, DeliveryPending, NoLostWakeup, Receiving
  <1> QED
    BY <1>1, <1>2, <1>3, <1>4, <1>5 DEF IInv

(***************************************************************************)
(* Boot preserves the invariant.                                           *)
(***************************************************************************)
LEMMA CreateTaskInv ==
    ASSUME IInv, NEW tsk \in Tasks, NEW kind \in TaskKinds, CreateTask(tsk, kind)
    PROVE  IInv'
  <1> USE TaskAssumption, NullAssumption, AddressAssumption, KernelAssumption
  <1>1. TypeOK /\ TableInv /\ BootInv /\ LinkedOnce /\ OnePlace /\ pc = "boot" /\ pc' = "boot"
    BY DEF IInv, CreateTask
  <1>2. kind.priority \in Priority /\ kind.preemptible \in BOOLEAN
    OBVIOUS
  <1>3. tsk = pid_count /\ tsk \notin Created /\ tsk # idle_task
    <2>1. pid_count \in Nat /\ tsk \in Nat /\ pid_count >= 1
      BY <1>1 DEF TypeOK, TaskTypeOK, TableInv, Tasks
    <2>2. ~(tsk < pid_count)
      BY <1>1 DEF TableInv, CreateTask, create_kernel_task, FreeSlot, Tasks, PID_NO_TASK
    <2>3. ASSUME tsk > pid_count PROVE FALSE
      <3>1. pid_count \in 0 .. tsk - 1 /\ pid_count \in Tasks
        BY <2>1, <2>3 DEF Tasks
      <3>2. pid[pid_count] = PID_NO_TASK
        BY <1>1, <2>1, <3>1 DEF TableInv
      <3> QED
        BY <3>1, <3>2 DEF CreateTask, create_kernel_task, FreeSlot
    <2> QED
      BY <2>1, <2>2, <2>3 DEF CreateTask, create_kernel_task, FreeSlot, Created, idle_task
  <1>4. \A t \in Tasks : ~InQueue(t) /\ t \notin Sleeping /\ ~Sending(t) /\ ~Receiving(t)
    BY <1>1, SendingFlag DEF CreateTask, BootInv, LinkedOnce, Sleeping, Receiving
  <1>5. TypeOK'
    <2>1. TaskTypeOK'
      <3>1. TaskTypeOK /\ tsk \in Tasks
        BY <1>1 DEF TypeOK
      <3>2. pid_count \in 0 .. TASK_COUNT - 1 /\ pid_count + 1 \in 0 .. TASK_COUNT
        BY <1>3, <3>1 DEF Tasks
      <3>3. pid' \in [Tasks -> {PID_NO_TASK} \cup 0 .. TASK_COUNT - 1]
        BY <3>1, <3>2 DEF TaskTypeOK, CreateTask, create_kernel_task
      <3>4. priority' \in [Tasks -> Priority] /\ ticks_left' \in [Tasks -> 0 .. TASK_DEFAULT_QUANTUM]
        BY <1>2, <3>1, TaskAssumption DEF TaskTypeOK, CreateTask, create_kernel_task
      <3>5. flags' \in [Tasks -> SUBSET TaskFlags]
        BY <1>2, <3>1 DEF TaskTypeOK, CreateTask, setPreemptible, TaskFlags
      <3> QED
        BY <3>1, <3>2, <3>3, <3>4, <3>5 DEF TaskTypeOK, CreateTask, create_kernel_task, readyVars
    <2>2. ClockTypeOK'
      BY <1>1 DEF TypeOK, ClockTypeOK, CreateTask, clockVars
    <2>3. MessageTypeOK'
      BY <1>1 DEF TypeOK, MessageTypeOK, CreateTask, message_reset, ZeroMessage, MessageType,
         Pids, PID_NO_TASK
    <2>4. KernelTypeOK'
      BY <1>1 DEF TypeOK, KernelTypeOK, CreateTask
    <2> QED
      BY <2>1, <2>2, <2>3, <2>4 DEF TypeOK
  <1>6. BootInv'
    BY <1>1 DEF BootInv, TypeOK, MessageTypeOK, CreateTask, message_reset, readyVars, clockVars
  <1>7. TableInv'
    <2>1. pid_count' >= 1 /\ \A t \in Tasks : pid'[t] = IF t < pid_count' THEN t ELSE PID_NO_TASK
      <3>1. /\ pid' = [pid EXCEPT ![tsk] = tsk] /\ pid_count' = tsk + 1
            /\ pid \in [Tasks -> {PID_NO_TASK} \cup 0 .. TASK_COUNT - 1]
            /\ tsk \in Nat /\ tsk >= 1
        BY <1>1, <1>3 DEF TableInv, TypeOK, TaskTypeOK, CreateTask, create_kernel_task, Tasks
      <3>2. \A t \in Tasks : pid'[t] = IF t = tsk THEN tsk ELSE pid[t]
        BY <3>1
      <3>3. \A t \in Tasks : t \in Nat /\ pid[t] = IF t < tsk THEN t ELSE PID_NO_TASK
        BY <1>1, <1>3 DEF TableInv, Tasks
      <3> QED
        BY <3>1, <3>2, <3>3
    <2>2. \A t \in Tasks : "PREEMPTIBLE" \in flags'[t] => ticks_left'[t] >= 1 /\ t # idle_task
      BY <1>1, <1>3 DEF TableInv, TypeOK, TaskTypeOK, CreateTask, create_kernel_task
    <2>3. \A t \in Tasks : "SENDING" \notin message_flags'[t]
      BY <1>1, <1>6 DEF BootInv
    <2> QED
      BY <2>1, <2>2, <2>3 DEF TableInv
  <1>8. LinkedOnce'
    <2>1. ReadyOnce'
      BY <1>1, <1>4 DEF LinkedOnce, ReadyOnce, InQueue, TypeOK, TaskTypeOK, CreateTask,
         create_kernel_task, readyVars
    <2>2. TimersOnce'
      BY <1>1 DEF LinkedOnce, TimersOnce, CreateTask, clockVars
    <2>3. \A d \in Tasks : /\ IsInjective(message_q'[d])
                           /\ \A t \in Tasks : ~Contains(message_q'[d], t)
      BY <1>1, <1>4, EmptyList DEF LinkedOnce, SendersOnce, Sending, IsInjective, TypeOK,
         MessageTypeOK, CreateTask, message_reset
    <2>4. SendersOnce'
      BY <1>1, <1>6, <2>3 DEF SendersOnce, BootInv
    <2> QED
      BY <2>1, <2>2, <2>4 DEF LinkedOnce
  <1>9. OnePlace'
    <2>1. \A t \in Tasks : ~InQueue(t)' /\ ~(t \in Sleeping)' /\ ~Receiving(t)'
      BY <1>1, <1>4, <1>6 DEF InQueue, Sleeping, Receiving, BootInv, CreateTask, readyVars, clockVars
    <2>2. \A t \in Tasks : ~Sending(t)'
      BY <1>1, <1>6, <1>8 DEF LinkedOnce, SendersOnce, Sending, BootInv
    <2> QED
      BY <1>1, <2>1, <2>2 DEF OnePlace, Placed
  <1>10. DecisionInv'
    BY <1>1 DEF DecisionInv, BootInv, CreateTask, readyVars
  <1>11. DeliveryPending'
    BY <1>1, <1>6 DEF IInv, DeliveryPending, BootInv, TypeOK, TaskTypeOK, MessageTypeOK, CreateTask,
       message_reset, setPreemptible
  <1>12. NoLostWakeup'
    BY <1>1, <1>6 DEF NoLostWakeup, BootInv, Receiving
  <1> QED
    BY <1>5, <1>7, <1>6, <1>8, <1>9, <1>10, <1>11, <1>12 DEF IInv

(* enqueue_task of a created task, by kernel_main, keeps the invariant.    *)
LEMMA StartTaskInv ==
    ASSUME IInv, NEW tsk \in Tasks, StartTask(tsk)
    PROVE  IInv'
  <1>1. /\ TypeOK /\ TableInv /\ BootInv /\ LinkedOnce /\ OnePlace /\ pc = "boot" /\ pc' = "boot"
        /\ QueueTypeOK /\ ReadyOnce
    BY DEF IInv, StartTask, TypeOK, TaskTypeOK, QueueTypeOK, LinkedOnce
  <1>2. /\ QueueTypeOK' /\ ReadyOnce' /\ reschedule_needed' = TRUE
        /\ \A t \in Tasks : InQueue(t)' <=> InQueue(t) \/ t = tsk
    BY <1>1, EnqueueEffect DEF StartTask, tableVars
  <1>3. TypeOK'
    BY <1>1, <1>2 DEF TypeOK, TaskTypeOK, ClockTypeOK, MessageTypeOK, KernelTypeOK, StartTask,
       QueueTypeOK, tableVars, clockVars, messageVars
  <1>4. TableInv' /\ BootInv'
    BY <1>1, <1>2 DEF TableInv, BootInv, StartTask, tableVars, clockVars, messageVars
  <1>5. LinkedOnce'
    BY <1>1, <1>2 DEF LinkedOnce, TimersOnce, SendersOnce, StartTask, clockVars, messageVars
  <1>6. OnePlace'
    <2>1. \A t \in Tasks : ~(t \in Sleeping)' /\ ~Receiving(t)' /\ ~Sending(t)'
      BY <1>1, <1>4, <1>5 DEF BootInv, Sleeping, Receiving, Sending, LinkedOnce, SendersOnce
    <2> QED
      BY <1>1, <1>2, <2>1 DEF OnePlace, Placed, Created, StartTask, tableVars
  <1>7. DecisionInv' /\ NoLostWakeup'
    BY <1>1, <1>2, <1>4 DEF DecisionInv, NoLostWakeup, Receiving, BootInv
  <1>8. DeliveryPending'
    BY <1>1, <1>2 DEF IInv, DeliveryPending, BootInv, Receiving, StartTask, messageVars
  <1> QED
    BY <1>3, <1>4, <1>5, <1>6, <1>7, <1>8 DEF IInv

(* The first call of resume() keeps the invariant: kernel_main has         *)
(* enqueued every task it created.                                         *)
LEMMA BootDoneInv ==
    ASSUME IInv, BootDone
    PROVE  IInv'
  <1>1. UNCHANGED <<taskVars, clockVars, messageVars, eax>> /\ pc = "boot" /\ pc' = "resume"
    BY DEF BootDone
  <1> USE <1>1 DEF IInv, taskVars, tableVars, readyVars, clockVars, messageVars
  <1>2. TypeOK'
    BY DEF TypeOK, TaskTypeOK, ClockTypeOK, MessageTypeOK, KernelTypeOK
  <1>3. TableInv' /\ BootInv' /\ LinkedOnce'
    BY DEF TableInv, BootInv, LinkedOnce, ReadyOnce, TimersOnce, SendersOnce
  <1>4. OnePlace'
    BY DEF BootDone, OnePlace, Placed, Created, InQueue, Sleeping, Sending, Receiving
  <1>5. DecisionInv'
    BY DEF DecisionInv, BootInv
  <1>6. DeliveryPending' /\ NoLostWakeup'
    BY DEF DeliveryPending, NoLostWakeup, Receiving, InQueue, Wanted
  <1> QED
    BY <1>2, <1>3, <1>4, <1>5, <1>6 DEF IInv

(***************************************************************************)
(* Steps that leave the lists alone, or only turn a ready queue.           *)
(***************************************************************************)

(* A handler that changes no list: getpid, an unknown call, a sleep of no  *)
(* time, the end of timer_callback, and a task using its message.          *)
LEMMA FrameInv ==
    ASSUME IInv, UNCHANGED <<taskVars, clockVars, message_buffer, message_ptr, message_flags,
                             message_send_to, message_rec_pid, message_q>>,
           mess' \in [Tasks -> MessageType], eax' \in [Tasks -> Int],
           pc \in {"task", "timer"}, pc' \in {pc, "resume"}
    PROVE  IInv'
  <1> USE DEF taskVars, tableVars, readyVars, clockVars
  <1>1. TypeOK /\ TableInv /\ LinkedOnce /\ OnePlace /\ DecisionInv /\ DeliveryPending /\ NoLostWakeup
    BY DEF IInv
  <1>2. TypeOK'
    BY <1>1 DEF TypeOK, TaskTypeOK, ClockTypeOK, MessageTypeOK, KernelTypeOK
  <1>3. TableInv' /\ BootInv' /\ LinkedOnce'
    BY <1>1 DEF TableInv, BootInv, LinkedOnce, ReadyOnce, TimersOnce, SendersOnce
  <1>4. OnePlace'
    BY <1>1 DEF OnePlace, Placed, Created, InQueue, Sleeping, Sending, Receiving
  <1>5. DecisionInv'
    BY <1>1 DEF DecisionInv, Picks, Created
  <1>6. DeliveryPending' /\ NoLostWakeup'
    BY <1>1 DEF DeliveryPending, NoLostWakeup, Receiving, InQueue, Wanted
  <1> QED
    BY <1>2, <1>3, <1>4, <1>5, <1>6 DEF IInv

(* The running task keeps its place or goes to the tail of its queue.      *)
LEMMA TurnInv ==
    ASSUME IInv, pc = "task", pc' \in {"timer", "resume"},
           UNCHANGED <<tableVars, flags, next_task, current_task, timers, messageVars>>,
           ticks_left' \in [Tasks -> 0 .. TASK_DEFAULT_QUANTUM],
           \A t \in Tasks : "PREEMPTIBLE" \in flags[t] => ticks_left'[t] >= 1,
           clock_ticks' \in 0 .. WORD - 1, eax' \in [Tasks -> Int],
           \/ UNCHANGED readyVars
           \/ preempt /\ current_task # idle_task
    PROVE  IInv'
  <1> USE DEF tableVars, messageVars
  <1>1. TypeOK /\ TableInv /\ LinkedOnce /\ OnePlace /\ DecisionInv /\ DeliveryPending /\ NoLostWakeup
        /\ QueueTypeOK /\ ReadyOnce
    BY DEF IInv, LinkedOnce, TypeOK, TaskTypeOK, QueueTypeOK
  <1>2. /\ QueueTypeOK' /\ ReadyOnce'
        /\ \A t \in Tasks : InQueue(t)' <=> InQueue(t)
        /\ reschedule_needed' = TRUE \/ UNCHANGED readyVars
    <2>1. CASE UNCHANGED readyVars
      BY <1>1, <2>1 DEF QueueTypeOK, ReadyOnce, InQueue, readyVars
    <2>2. CASE preempt /\ current_task # idle_task
      BY <1>1, <2>2, CallerFacts, PreemptEffect
    <2> QED
      BY <2>1, <2>2
  <1>3. TypeOK'
    BY <1>1, <1>2 DEF TypeOK, TaskTypeOK, ClockTypeOK, MessageTypeOK, KernelTypeOK, QueueTypeOK, readyVars
  <1>4. TableInv' /\ BootInv' /\ LinkedOnce'
    BY <1>1, <1>2 DEF TableInv, BootInv, LinkedOnce, TimersOnce, SendersOnce
  <1>5. OnePlace'
    BY <1>1, <1>2 DEF OnePlace, Placed, Created, Sleeping, Sending, Receiving
  <1>6. DecisionInv'
    BY <1>1, <1>2 DEF DecisionInv, Picks, Created, readyVars
  <1>7. DeliveryPending' /\ NoLostWakeup'
    BY <1>1, <1>2 DEF DeliveryPending, NoLostWakeup, Receiving, Wanted
  <1> QED
    BY <1>3, <1>4, <1>5, <1>6, <1>7 DEF IInv

(* What handle_kernel_call writes to the caller's eax is an integer.       *)
LEMMA ReturnType ==
    ASSUME TypeOK, NEW result \in Int, Return(result)
    PROVE  eax' \in [Tasks -> Int] /\ pc' = "resume"
  BY DEF Return, TypeOK, KernelTypeOK

(* The cleared message buffer is a message.                                *)
LEMMA ZeroType == ZeroMessage \in MessageType
  BY TaskAssumption DEF ZeroMessage, MessageType, Pids

(* The preempt call keeps the invariant.                                   *)
LEMMA PreemptCallInv ==
    ASSUME IInv, PreemptCall
    PROVE  IInv'
  <1>1. TypeOK /\ TableInv
    BY DEF IInv
  <1>2. eax' \in [Tasks -> Int] /\ pc' = "resume"
    BY <1>1, ReturnType DEF PreemptCall
  <1> QED
    BY <1>1, <1>2, TurnInv DEF PreemptCall, Caller, TypeOK, TaskTypeOK, ClockTypeOK, TableInv, clockVars

(* The getpid call keeps the invariant.                                    *)
LEMMA GetPidCallInv ==
    ASSUME IInv, GetPidCall
    PROVE  IInv'
  <1>1. TypeOK
    BY DEF IInv
  <1>2. pid[current_task] \in Int
    BY CallerFacts DEF GetPidCall, Caller, Pids
  <1>3. eax' \in [Tasks -> Int] /\ pc' = "resume"
    BY <1>1, <1>2, ReturnType DEF GetPidCall
  <1> QED
    BY <1>1, <1>3, FrameInv DEF GetPidCall, Caller, messageVars, TypeOK, MessageTypeOK

(* A kernel call with an unknown number keeps the invariant.               *)
LEMMA UnknownCallInv ==
    ASSUME IInv, UnknownCall
    PROVE  IInv'
  <1>1. TypeOK
    BY DEF IInv
  <1>2. eax' \in [Tasks -> Int] /\ pc' = "resume"
    BY <1>1, ReturnType DEF UnknownCall
  <1> QED
    BY <1>1, <1>2, FrameInv DEF UnknownCall, Caller, messageVars, TypeOK, MessageTypeOK

(* A task that reads its message keeps the invariant.                      *)
LEMMA UseMessageInv ==
    ASSUME IInv, UseMessage
    PROVE  IInv'
  <1>1. TypeOK
    BY DEF IInv
  <1>2. ZeroMessage \in MessageType
    BY ZeroType
  <1>3. mess' \in [Tasks -> MessageType]
    BY <1>1, <1>2 DEF TypeOK, MessageTypeOK, UseMessage
  <1> QED
    BY <1>1, <1>3, FrameInv DEF UseMessage, TypeOK, KernelTypeOK

(* The end of the loop of timer_callback keeps the invariant.              *)
LEMMA TimerDoneInv ==
    ASSUME IInv, TimerDone
    PROVE  IInv'
  <1>1. TypeOK
    BY DEF IInv
  <1> QED
    BY <1>1, FrameInv DEF TimerDone, messageVars, TypeOK, MessageTypeOK, KernelTypeOK

(* A number modulo the period of the clock is a value of the clock.        *)
LEMMA ClockMod ==
    ASSUME NEW n \in Int
    PROVE  n % WORD \in 0 .. WORD - 1
  BY ClockAssumption

(* timer_callback: the quantum of the running task never goes below one    *)
(* without being renewed.                                                  *)
LEMMA TimerTickInv ==
    ASSUME IInv, TimerTick
    PROVE  IInv'
  <1>1. TypeOK /\ TableInv /\ pc = "task" /\ pc' = "timer"
    BY DEF IInv, TimerTick
  <1>2. current_task \in Tasks
    BY <1>1 DEF IInv, DecisionInv, Created
  <1>3. clock_ticks' \in 0 .. WORD - 1
    BY <1>1, ClockMod DEF TimerTick, timer_callback, TypeOK, ClockTypeOK
  <1>4. /\ ticks_left' \in [Tasks -> 0 .. TASK_DEFAULT_QUANTUM]
        /\ \A t \in Tasks : "PREEMPTIBLE" \in flags[t] => ticks_left'[t] >= 1
    <2> DEFINE c == current_task
    <2>1. /\ ticks_left \in [Tasks -> 0 .. TASK_DEFAULT_QUANTUM]
          /\ \A t \in Tasks : "PREEMPTIBLE" \in flags[t] => ticks_left[t] >= 1
      BY <1>1 DEF TypeOK, TaskTypeOK, TableInv
    <2>2. CASE "PREEMPTIBLE" \in flags[c] /\ ticks_left[c] # 1
      <3>1. ticks_left' = [ticks_left EXCEPT ![c] = ticks_left[c] - 1]
        BY <2>2 DEF TimerTick, timer_callback
      <3>2. ticks_left[c] - 1 \in 1 .. TASK_DEFAULT_QUANTUM
        BY <1>2, <2>1, <2>2, TaskAssumption
      <3> QED
        BY <1>2, <2>1, <3>1, <3>2
    <2>3. CASE "PREEMPTIBLE" \in flags[c] /\ ticks_left[c] = 1
      <3>1. ticks_left' = [ticks_left EXCEPT ![c] = TASK_DEFAULT_QUANTUM]
        BY <2>3 DEF TimerTick, timer_callback
      <3> QED
        BY <1>2, <2>1, <3>1, TaskAssumption
    <2>4. CASE "PREEMPTIBLE" \notin flags[c]
      BY <2>1, <2>4 DEF TimerTick, timer_callback
    <2> QED
      BY <2>2, <2>3, <2>4
  <1>5. \/ UNCHANGED readyVars
        \/ preempt /\ current_task # idle_task
    BY <1>1, <1>2 DEF TimerTick, timer_callback, TableInv
  <1> QED
    BY <1>1, <1>3, <1>4, <1>5, TurnInv DEF TimerTick, TypeOK, KernelTypeOK

(***************************************************************************)
(* The timer list.                                                         *)
(***************************************************************************)

(* sleep_ms links a task that does not sleep into the list, once.          *)
LEMMA SleepEffect ==
    ASSUME timers \in Seq(TimerEvent), TimersOnce, current_task \in Tasks,
           current_task \notin Sleeping, NEW expire \in 0 .. WORD - 1,
           NEW i \in 1 .. Len(timers) + 1, sleep_ms_at(i, expire)
    PROVE  /\ timers' \in Seq(TimerEvent)
           /\ TimersOnce'
           /\ Sleeping' = Sleeping \cup {current_task}
  <1> DEFINE e == [tsk |-> current_task, timer_expire |-> expire]
  <1>1. e \in TimerEvent /\ e.tsk = current_task /\ timers' = InsertAt(timers, i, e)
    BY DEF TimerEvent, sleep_ms_at
  <1> HIDE DEF e
  <1>2. /\ timers' \in Seq(TimerEvent)
        /\ Len(timers') = Len(timers) + 1
        /\ \A j \in 1 .. Len(timers) + 1 :
              timers'[j] = IF j < i THEN timers[j] ELSE IF j = i THEN e ELSE timers[j - 1]
    <2>1. /\ InsertAt(timers, i, e) \in Seq(TimerEvent)
          /\ Len(InsertAt(timers, i, e)) = Len(timers) + 1
          /\ \A j \in 1 .. Len(timers) + 1 :
                InsertAt(timers, i, e)[j] =
                    IF j < i THEN timers[j] ELSE IF j = i THEN e ELSE timers[j - 1]
      <3>1. /\ timers \in Seq(TimerEvent) /\ e \in TimerEvent /\ i \in 1 .. Len(timers) + 1
        BY <1>1
      <3> HIDE DEF TimerEvent
      <3>2. Inserted(InsertAt(timers, i, e), TimerEvent, timers, i, e)
        BY <3>1, InsertAtElements
      <3> QED
        BY <3>2 DEF Inserted
    <2> QED
      BY <1>1, <2>1
  <1>3. \A j \in 1 .. Len(timers) : timers[j].tsk # current_task
    BY DEF Sleeping
  <1>4. \A j, k \in 1 .. Len(timers) : timers[j].tsk = timers[k].tsk => j = k
    BY DEF TimersOnce
  <1>5. ASSUME NEW j \in 1 .. Len(timers) + 1, NEW k \in 1 .. Len(timers) + 1,
               timers'[j].tsk = timers'[k].tsk
        PROVE  j = k
    <2>1. timers'[j] = IF j < i THEN timers[j] ELSE IF j = i THEN e ELSE timers[j - 1]
      BY <1>2
    <2>2. timers'[k] = IF k < i THEN timers[k] ELSE IF k = i THEN e ELSE timers[k - 1]
      BY <1>2
    <2>3. /\ j < i => j \in 1 .. Len(timers)
          /\ j > i => j - 1 \in 1 .. Len(timers)
          /\ k < i => k \in 1 .. Len(timers)
          /\ k > i => k - 1 \in 1 .. Len(timers)
      OBVIOUS
    <2>4. CASE j = i
      BY <1>1, <1>3, <1>5, <2>1, <2>2, <2>3, <2>4
    <2>5. CASE k = i
      BY <1>1, <1>3, <1>5, <2>1, <2>2, <2>3, <2>5
    <2>6. CASE j # i /\ k # i
      <3> DEFINE jj == IF j < i THEN j ELSE j - 1
                 kk == IF k < i THEN k ELSE k - 1
      <3>1. jj \in 1 .. Len(timers) /\ kk \in 1 .. Len(timers) /\ (jj = kk => j = k)
        BY <2>6
      <3>2. timers[jj].tsk = timers[kk].tsk
        BY <1>5, <2>1, <2>2, <2>6
      <3> HIDE DEF jj, kk
      <3> QED
        BY <1>4, <3>1, <3>2
    <2> QED
      BY <2>4, <2>5, <2>6
  <1>6. DOMAIN timers = 1 .. Len(timers) /\ DOMAIN timers' = 1 .. Len(timers) + 1
    BY <1>2
  <1>7. TimersOnce'
    BY <1>5, <1>6 DEF TimersOnce
  <1>8. ASSUME NEW j \in 1 .. Len(timers) + 1
        PROVE  timers'[j].tsk \in Sleeping \cup {current_task}
    <2>1. timers'[j] = IF j < i THEN timers[j] ELSE IF j = i THEN e ELSE timers[j - 1]
      BY <1>2
    <2>2. (j < i => j \in 1 .. Len(timers)) /\ (j > i => j - 1 \in 1 .. Len(timers))
      OBVIOUS
    <2> QED
      BY <1>1, <1>6, <2>1, <2>2 DEF Sleeping
  <1>9. ASSUME NEW j \in 1 .. Len(timers)
        PROVE  \E k \in 1 .. Len(timers) + 1 : timers'[k].tsk = timers[j].tsk
    <2>1. CASE j < i
      BY <1>2, <2>1
    <2>2. CASE ~(j < i)
      <3>1. j + 1 \in 1 .. Len(timers) + 1 /\ ~(j + 1 < i) /\ j + 1 # i /\ (j + 1) - 1 = j
        BY <2>2
      <3> QED
        BY <1>2, <3>1
    <2> QED
      BY <2>1, <2>2
  <1>10. i \in 1 .. Len(timers) + 1 /\ timers'[i].tsk = current_task
    BY <1>1, <1>2
  <1>11. Sleeping' = Sleeping \cup {current_task}
    <2>1. Sleeping' = {timers'[k].tsk : k \in 1 .. Len(timers) + 1}
      BY <1>6 DEF Sleeping
    <2>2. Sleeping = {timers[j].tsk : j \in 1 .. Len(timers)}
      BY <1>6 DEF Sleeping
    <2>3. \A t \in Sleeping' : t \in Sleeping \cup {current_task}
      BY <1>8, <2>1
    <2>4. current_task \in Sleeping'
      BY <1>10, <2>1
    <2>5. ASSUME NEW t \in Sleeping
          PROVE  t \in Sleeping'
      <3>1. PICK j \in 1 .. Len(timers) : t = timers[j].tsk
        BY <2>2
      <3>2. PICK k \in 1 .. Len(timers) + 1 : timers'[k].tsk = timers[j].tsk
        BY <1>9
      <3> QED
        BY <3>1, <3>2, <2>1
    <2> QED
      BY <2>3, <2>4, <2>5
  <1> QED
    BY <1>2, <1>7, <1>11

(* The loop of timer_callback takes the first task from the list.          *)
LEMMA WakeEffect ==
    ASSUME timers \in Seq(TimerEvent), TimersOnce, timers # <<>>, timers' = Tail(timers)
    PROVE  /\ timers' \in Seq(TimerEvent)
           /\ TimersOnce'
           /\ Head(timers).tsk \in Tasks /\ Head(timers).tsk \in Sleeping
           /\ Sleeping' = Sleeping \ {Head(timers).tsk}
  <1>1. /\ Head(timers) \in TimerEvent
        /\ Head(timers) = timers[1]
        /\ 1 \in DOMAIN timers
        /\ DOMAIN timers' = 1 .. Len(timers) - 1
        /\ timers' \in Seq(TimerEvent)
        /\ \A i \in 1 .. Len(timers) - 1 : timers'[i] = timers[i + 1]
    BY TailElements
  <1>2. \A j, k \in 1 .. Len(timers) : timers[j].tsk = timers[k].tsk => j = k
    BY DEF TimersOnce
  <1>3. TimersOnce'
    <2>1. ASSUME NEW j \in 1 .. Len(timers) - 1, NEW k \in 1 .. Len(timers) - 1,
                 timers'[j].tsk = timers'[k].tsk
          PROVE  j = k
      <3>1. j + 1 \in 1 .. Len(timers) /\ k + 1 \in 1 .. Len(timers)
        OBVIOUS
      <3>2. timers[j + 1].tsk = timers[k + 1].tsk
        BY <1>1, <2>1
      <3> QED
        BY <1>2, <3>1, <3>2
    <2> QED
      BY <1>1, <2>1 DEF TimersOnce
  <1>4. ASSUME NEW j \in 1 .. Len(timers) - 1
        PROVE  timers'[j].tsk \in Sleeping /\ timers'[j].tsk # timers[1].tsk
    <2>1. j + 1 \in 1 .. Len(timers) /\ j + 1 # 1 /\ 1 \in 1 .. Len(timers)
      OBVIOUS
    <2> QED
      BY <1>1, <1>2, <2>1 DEF Sleeping
  <1>5. ASSUME NEW j \in 1 .. Len(timers), timers[j].tsk # timers[1].tsk
        PROVE  \E k \in 1 .. Len(timers) - 1 : timers'[k].tsk = timers[j].tsk
    <2>1. j - 1 \in 1 .. Len(timers) - 1 /\ (j - 1) + 1 = j
      BY <1>5
    <2> QED
      BY <1>1, <2>1
  <1>6. Sleeping' = Sleeping \ {timers[1].tsk}
    <2>1. Sleeping' = {timers'[k].tsk : k \in 1 .. Len(timers) - 1}
      BY <1>1 DEF Sleeping
    <2>2. Sleeping = {timers[j].tsk : j \in 1 .. Len(timers)}
      BY DEF Sleeping
    <2>3. \A t \in Sleeping' : t \in Sleeping \ {timers[1].tsk}
      BY <1>4, <2>1
    <2>4. ASSUME NEW t \in Sleeping \ {timers[1].tsk}
          PROVE  t \in Sleeping'
      <3>1. PICK j \in 1 .. Len(timers) : t = timers[j].tsk
        BY <2>2
      <3>2. PICK k \in 1 .. Len(timers) - 1 : timers'[k].tsk = timers[j].tsk
        BY <1>5, <3>1
      <3> QED
        BY <3>1, <3>2, <2>1
    <2> QED
      BY <2>3, <2>4
  <1> QED
    BY <1>1, <1>3, <1>6 DEF TimerEvent, Sleeping

(* sleep_ms moves the caller from its ready queue to the timer list and    *)
(* keeps the invariant.                                                    *)
LEMMA SleepCallInv ==
    ASSUME IInv, NEW ms \in SleepTimes, SleepCall(ms)
    PROVE  IInv'
  <1> DEFINE expire == (ticks(ms) + clock_ticks) % WORD
  <1>1. TypeOK /\ TableInv /\ LinkedOnce /\ OnePlace /\ DecisionInv /\ DeliveryPending /\ NoLostWakeup
        /\ QueueTypeOK /\ ReadyOnce /\ pc = "task" /\ current_task # idle_task
    BY DEF IInv, LinkedOnce, TypeOK, TaskTypeOK, QueueTypeOK, SleepCall, Caller
  <1>2. eax' \in [Tasks -> Int] /\ pc' = "resume"
    BY <1>1, ReturnType DEF SleepCall
  <1>3. CASE UNCHANGED <<readyVars, clockVars>>
    BY <1>1, <1>2, <1>3, FrameInv DEF SleepCall, messageVars, TypeOK, MessageTypeOK, taskVars
  <1>4. CASE sleep_ms(ms)
    <2> USE DEF tableVars, messageVars
    <2>1. /\ current_task \in Tasks /\ current_task \in Created /\ InQueue(current_task)
          /\ current_task \notin Sleeping /\ ~Sending(current_task) /\ ~Receiving(current_task)
          /\ message_flags[current_task] = {}
      BY <1>1, CallerFacts
    <2>2. expire \in 0 .. WORD - 1
      <3>1. ticks(ms) \in Int
        BY ClockAssumption DEF ticks
      <3>2. ticks(ms) + clock_ticks \in Int
        BY <1>1, <3>1 DEF TypeOK, ClockTypeOK
      <3> QED
        BY <3>2, ClockMod
    <2>3. PICK i \in 1 .. Len(timers) + 1 : sleep_ms_at(i, expire)
      BY <1>4 DEF sleep_ms
    <2>4. /\ timers' \in Seq(TimerEvent) /\ TimersOnce'
          /\ Sleeping' = Sleeping \cup {current_task}
      BY <1>1, <2>1, <2>2, <2>3, SleepEffect DEF LinkedOnce, TypeOK, ClockTypeOK
    <2>5. /\ QueueTypeOK' /\ ReadyOnce' /\ reschedule_needed' = TRUE
          /\ \A t \in Tasks : InQueue(t)' <=> InQueue(t) /\ t # current_task
      BY <1>1, <1>4, <2>1, DequeueEffect DEF sleep_ms, block_task, SleepCall
    <2>6. TypeOK'
      BY <1>1, <1>2, <1>4, <2>4, <2>5 DEF TypeOK, TaskTypeOK, ClockTypeOK, MessageTypeOK, KernelTypeOK,
         QueueTypeOK, SleepCall, sleep_ms
    <2>7. TableInv' /\ BootInv' /\ LinkedOnce'
      BY <1>1, <1>2, <2>4, <2>5 DEF TableInv, BootInv, LinkedOnce, SendersOnce, SleepCall
    <2>8. OnePlace'
      BY <1>1, <2>1, <2>4, <2>5 DEF OnePlace, Placed, Created, Sending, Receiving, SleepCall
    <2>9. DecisionInv'
      BY <1>2, <2>5 DEF DecisionInv
    <2>10. DeliveryPending' /\ NoLostWakeup'
      BY <1>1, <1>2, <2>1, <2>5 DEF DeliveryPending, NoLostWakeup, Receiving, Wanted, SleepCall
    <2> QED
      BY <2>6, <2>7, <2>8, <2>9, <2>10 DEF IInv
  <1> QED
    BY <1>3, <1>4 DEF SleepCall

(* One iteration of the loop of timer_callback moves a task from the timer *)
(* list to its ready queue and keeps the invariant.                        *)
LEMMA WakeExpiredInv ==
    ASSUME IInv, WakeExpired
    PROVE  IInv'
  <1> DEFINE woken == Head(timers).tsk
  <1> USE DEF tableVars, messageVars
  <1>1. TypeOK /\ TableInv /\ LinkedOnce /\ OnePlace /\ DecisionInv /\ DeliveryPending /\ NoLostWakeup
        /\ QueueTypeOK /\ ReadyOnce /\ pc = "timer" /\ pc' = "timer"
    BY DEF IInv, LinkedOnce, TypeOK, TaskTypeOK, QueueTypeOK, WakeExpired
  <1>2. /\ timers' \in Seq(TimerEvent) /\ TimersOnce'
        /\ woken \in Tasks /\ woken \in Sleeping
        /\ Sleeping' = Sleeping \ {woken}
    BY <1>1, WakeEffect DEF WakeExpired, HeadExpired, WakeHead, LinkedOnce, TypeOK, ClockTypeOK
  <1>3. ~InQueue(woken) /\ ~Sending(woken) /\ ~Receiving(woken) /\ woken \in Created \ {idle_task}
    BY <1>1, <1>2 DEF OnePlace, Placed
  <1>4. enqueue_task(woken) /\ UNCHANGED priority
    BY DEF WakeExpired, WakeHead, unblock_task
  <1> HIDE DEF woken
  <1>5. /\ QueueTypeOK' /\ ReadyOnce' /\ reschedule_needed' = TRUE
        /\ \A t \in Tasks : InQueue(t)' <=> InQueue(t) \/ t = woken
    BY <1>1, <1>2, <1>3, <1>4, EnqueueEffect
  <1>6. TypeOK'
    BY <1>1, <1>2, <1>5 DEF TypeOK, TaskTypeOK, ClockTypeOK, MessageTypeOK, KernelTypeOK, QueueTypeOK,
       WakeExpired
  <1>7. TableInv' /\ BootInv' /\ LinkedOnce'
    BY <1>1, <1>2, <1>5 DEF TableInv, BootInv, LinkedOnce, SendersOnce, WakeExpired
  <1>8. OnePlace'
    BY <1>1, <1>2, <1>3, <1>5 DEF OnePlace, Placed, Created, Sending, Receiving, WakeExpired
  <1>9. DecisionInv'
    BY <1>1, <1>5 DEF DecisionInv, Created, WakeExpired
  <1>10. DeliveryPending' /\ NoLostWakeup'
    BY <1>1, <1>5 DEF DeliveryPending, NoLostWakeup, Receiving, Wanted, WakeExpired
  <1> QED
    BY <1>6, <1>7, <1>8, <1>9, <1>10 DEF IInv

(***************************************************************************)
(* Sending and receiving.                                                  *)
(***************************************************************************)

(* What holds whenever message_send or message_receive is called, and what *)
(* every one of their steps leaves alone.                                  *)
CallContext ==
    /\ IInv
    /\ pc = "task" /\ current_task # idle_task
    /\ pc' = "resume" /\ eax' \in [Tasks -> Int]
    /\ UNCHANGED <<tableVars, ticks_left, next_task, current_task, clockVars>>

(* message_send to a task that waits for the message.                      *)
LEMMA HandOverInv ==
    ASSUME CallContext, NEW dest \in Tasks, NEW m \in MessageType,
           Awaits(dest, current_task), HandOver(current_task, dest, m)
    PROVE  IInv'
  <1> USE DEF tableVars, clockVars
  <1>1. TypeOK /\ TableInv /\ LinkedOnce /\ OnePlace /\ DecisionInv /\ DeliveryPending /\ NoLostWakeup
        /\ QueueTypeOK /\ ReadyOnce /\ pc = "task" /\ pc' = "resume"
    BY DEF CallContext, IInv, LinkedOnce, TypeOK, TaskTypeOK, QueueTypeOK
  <1>2. /\ Receiving(dest) /\ ~InQueue(dest) /\ dest \notin Sleeping /\ ~Sending(dest)
        /\ dest \in Created \ {idle_task}
    BY <1>1 DEF Awaits, Receiving, OnePlace, Placed
  <1>3. /\ QueueTypeOK' /\ ReadyOnce' /\ reschedule_needed' = TRUE
        /\ \A t \in Tasks : InQueue(t)' <=> InQueue(t) \/ t = dest
    BY <1>1, <1>2, EnqueueEffect DEF CallContext, HandOver, unblock_task
  <1>4. \A t \in Tasks : /\ t # dest => message_flags'[t] = message_flags[t] /\ flags'[t] = flags[t]
                         /\ "SENDING" \in message_flags'[t] <=> "SENDING" \in message_flags[t]
    BY <1>1 DEF HandOver, TypeOK, TaskTypeOK, MessageTypeOK
  <1>5. /\ message_flags'[dest] = (message_flags[dest] \ {"RECEIVING"}) \cup {"DELIVERING"}
        /\ flags'[dest] = flags[dest] \cup {"AFTER_SWITCH"}
    BY <1>1 DEF HandOver, TypeOK, TaskTypeOK, MessageTypeOK
  <1>6. TypeOK'
    <2>1. message_buffer' \in [Tasks -> MessageType]
      BY <1>1 DEF HandOver, TypeOK, MessageTypeOK
    <2>2. /\ message_flags' \in [Tasks -> SUBSET MessageFlags]
          /\ flags' \in [Tasks -> SUBSET TaskFlags]
      BY <1>1 DEF HandOver, TypeOK, TaskTypeOK, MessageTypeOK, MessageFlags, TaskFlags
    <2> QED
      BY <1>1, <1>3, <2>1, <2>2 DEF TypeOK, TaskTypeOK, ClockTypeOK, MessageTypeOK, KernelTypeOK,
         QueueTypeOK, HandOver, CallContext
  <1>7. TableInv'
    BY <1>1, <1>4, <1>5 DEF TableInv, HandOver, CallContext
  <1>8. LinkedOnce'
    BY <1>1, <1>3, <1>4 DEF LinkedOnce, TimersOnce, SendersOnce, HandOver, CallContext
  <1>9. OnePlace'
    <2>1. \A t \in Tasks : Receiving(t)' <=> Receiving(t) /\ t # dest
      BY <1>4, <1>5 DEF Receiving
    <2>2. \A t \in Tasks : (Sending(t)' <=> Sending(t)) /\ (t \in Sleeping' <=> t \in Sleeping)
      BY DEF Sending, Sleeping, HandOver, CallContext
    <2> QED
      BY <1>1, <1>2, <1>3, <2>1, <2>2 DEF OnePlace, Placed, Created, CallContext
  <1>10. DecisionInv' /\ BootInv'
    BY <1>1, <1>3 DEF DecisionInv, BootInv
  <1>11. DeliveryPending'
    BY <1>1, <1>2, <1>3, <1>4, <1>5 DEF DeliveryPending, Receiving, HandOver
  <1>12. NoLostWakeup'
    BY <1>1, <1>4, <1>5 DEF NoLostWakeup, Receiving, Wanted, HandOver, CallContext
  <1> QED
    BY <1>6, <1>7, <1>8, <1>9, <1>10, <1>11, <1>12 DEF IInv

(* message_send to a task that does not wait for the message.              *)
LEMMA ParkInv ==
    ASSUME CallContext, NEW dest \in Tasks, NEW m \in MessageType,
           ~Awaits(dest, current_task), Park(current_task, dest, m)
    PROVE  IInv'
  <1> USE DEF tableVars, clockVars
  <1> DEFINE c == current_task
             q == Append(message_q[dest], c)
  <1>1. TypeOK /\ TableInv /\ LinkedOnce /\ OnePlace /\ DecisionInv /\ DeliveryPending /\ NoLostWakeup
        /\ QueueTypeOK /\ ReadyOnce /\ pc = "task" /\ pc' = "resume"
    BY DEF CallContext, IInv, LinkedOnce, TypeOK, TaskTypeOK, QueueTypeOK
  <1>2. /\ c \in Tasks /\ c \in Created /\ c # idle_task /\ InQueue(c) /\ c \notin Sleeping
        /\ ~Sending(c) /\ ~Receiving(c) /\ message_flags[c] = {}
    BY CallerFacts DEF CallContext
  <1>3. /\ QueueTypeOK' /\ ReadyOnce' /\ reschedule_needed' = TRUE
        /\ \A t \in Tasks : InQueue(t)' <=> InQueue(t) /\ t # c
    BY <1>1, <1>2, DequeueEffect DEF CallContext, Park, block_task
  <1>4. /\ q \in Seq(Tasks)
        /\ \A x : Contains(q, x) <=> Contains(message_q[dest], x) \/ x = c
        /\ IsInjective(q)
    <2>1. message_q[dest] \in Seq(Tasks) /\ IsInjective(message_q[dest]) /\ ~Contains(message_q[dest], c)
      BY <1>1, <1>2 DEF TypeOK, MessageTypeOK, LinkedOnce, SendersOnce, Sending
    <2> QED
      BY <1>2, <2>1, AppendList
  <1>5. \A d \in Tasks : message_q'[d] = IF d = dest THEN q ELSE message_q[d]
    BY <1>1 DEF Park, TypeOK, MessageTypeOK
  <1>14. /\ DOMAIN q = 1 .. Len(message_q[dest]) + 1
         /\ \A i \in 1 .. Len(message_q[dest]) : q[i] = message_q[dest][i]
         /\ q[Len(message_q[dest]) + 1] = c
         /\ message_q[dest] \in Seq(Tasks)
    BY <1>1, <1>2 DEF TypeOK, MessageTypeOK
  <1>6. \A t \in Tasks : /\ message_flags'[t] = IF t = c THEN {"SENDING"} ELSE message_flags[t]
                         /\ message_send_to'[t] = IF t = c THEN dest ELSE message_send_to[t]
    BY <1>1, <1>2 DEF Park, TypeOK, MessageTypeOK
  <1>7. TypeOK'
    <2>1. message_q' \in [Tasks -> Seq(Tasks)]
      BY <1>1, <1>4 DEF Park, TypeOK, MessageTypeOK
    <2>2. message_flags' \in [Tasks -> SUBSET MessageFlags]
      BY <1>1, <1>2 DEF Park, TypeOK, MessageTypeOK, MessageFlags
    <2>3. /\ message_send_to' \in [Tasks -> Tasks \cup {NULL}]
          /\ message_buffer' \in [Tasks -> MessageType]
      BY <1>1 DEF Park, TypeOK, MessageTypeOK
    <2> QED
      BY <1>1, <1>3, <2>1, <2>2, <2>3 DEF TypeOK, TaskTypeOK, ClockTypeOK, MessageTypeOK, KernelTypeOK,
         QueueTypeOK, Park, CallContext
  <1> HIDE DEF q
  <1>8. TableInv'
    BY <1>1, <1>6 DEF TableInv, Park, CallContext
  <1>9. LinkedOnce'
    <2>1. \A d \in Tasks : IsInjective(message_q'[d])
      BY <1>1, <1>4, <1>5 DEF LinkedOnce, SendersOnce
    <2>2. \A d, t \in Tasks : Contains(message_q'[d], t) <=>
             "SENDING" \in message_flags'[t] /\ message_send_to'[t] = d
      BY <1>1, <1>2, <1>4, <1>5, <1>6 DEF LinkedOnce, SendersOnce, Sending
    <2> QED
      BY <1>1, <1>3, <2>1, <2>2 DEF LinkedOnce, TimersOnce, SendersOnce, CallContext
  <1>10. OnePlace'
    <2>1. \A t \in Tasks : Receiving(t)' <=> Receiving(t)
      BY <1>2, <1>6 DEF Receiving
    <2>2. \A t \in Tasks : Sending(t)' <=> Sending(t) \/ t = c
      BY <1>2, <1>4, <1>5 DEF Sending
    <2>3. Sleeping' = Sleeping
      BY DEF Sleeping, CallContext
    <2> QED
      BY <1>1, <1>2, <1>3, <2>1, <2>2, <2>3 DEF OnePlace, Placed, Created, CallContext
  <1>11. DecisionInv' /\ BootInv'
    BY <1>1, <1>3 DEF DecisionInv, BootInv
  <1>12. DeliveryPending'
    BY <1>1, <1>2, <1>3, <1>6 DEF DeliveryPending, Receiving, Park
  <1>13. NoLostWakeup'
    <2> SUFFICES ASSUME NEW d \in Tasks, Receiving(d)', NEW i \in DOMAIN message_q'[d]
                 PROVE  ~Wanted(d, message_rec_pid[d], i)'
      BY DEF NoLostWakeup, Park
    <2>1. Receiving(d)
      BY <1>6 DEF Receiving
    <2>2. CASE d # dest
      BY <1>1, <1>5, <2>1, <2>2 DEF NoLostWakeup, Wanted, Park, CallContext
    <2>3. CASE d = dest
      <3>1. message_q[dest] \in Seq(Tasks) /\ i \in 1 .. Len(message_q[dest]) + 1
        BY <1>5, <1>14, <2>3
      <3>2. CASE i \in 1 .. Len(message_q[dest])
        <4>1. message_q'[d][i] = message_q[d][i] /\ i \in DOMAIN message_q[d]
          BY <1>5, <1>14, <2>3, <3>2
        <4> QED
          BY <1>1, <2>1, <4>1 DEF NoLostWakeup, Wanted, Park, CallContext
      <3>3. CASE i = Len(message_q[dest]) + 1
        <4>1. message_q'[d][i] = c
          BY <1>5, <1>14, <2>3, <3>3
        <4> QED
          BY <2>1, <2>3, <4>1 DEF Awaits, Receiving, Wanted, Park, CallContext
      <3> QED
        BY <3>1, <3>2, <3>3
    <2> QED
      BY <2>2, <2>3
  <1> QED
    BY <1>7, <1>8, <1>9, <1>10, <1>11, <1>12, <1>13 DEF IInv

(* message_send keeps the invariant, in its three cases.                   *)
LEMMA SendCallInv ==
    ASSUME IInv, NEW dest_pid \in DestPids, NEW num \in Numbers, SendCall(dest_pid, num)
    PROVE  IInv'
  <1> DEFINE m == [pid |-> pid[current_task], num |-> num]
  <1>1. TypeOK /\ pc = "task" /\ current_task # idle_task
    BY DEF IInv, SendCall, Caller
  <1>2. PICK result \in {0, -1} : message_send(current_task, dest_pid, m, result) /\ Return(result)
    BY DEF SendCall
  <1>3. eax' \in [Tasks -> Int] /\ pc' = "resume"
    BY <1>1, <1>2, ReturnType
  <1>4. CallContext
    BY <1>1, <1>3 DEF CallContext, SendCall
  <1>5. m \in MessageType
    BY <1>1, CallerFacts, MessageAssumption DEF MessageType
  <1> HIDE DEF m
  <1>6. CASE UNCHANGED <<readyVars, flags, messageVars>>
    BY <1>1, <1>3, <1>6, FrameInv DEF SendCall, taskVars, messageVars, TypeOK, MessageTypeOK
  <1>7. ASSUME NEW dest \in Tasks, Awaits(dest, current_task), HandOver(current_task, dest, m)
        PROVE  IInv'
    BY <1>4, <1>5, <1>7, HandOverInv
  <1>8. ASSUME NEW dest \in Tasks, ~Awaits(dest, current_task), Park(current_task, dest, m)
        PROVE  IInv'
    BY <1>4, <1>5, <1>8, ParkInv
  <1> QED
    BY <1>2, <1>6, <1>7, <1>8 DEF message_send

(* message_receive when a wanted sender waits.                             *)
LEMMA TakeFromInv ==
    ASSUME CallContext, NEW i \in DOMAIN message_q[current_task], TakeFrom(current_task, i)
    PROVE  IInv'
  <1> USE DEF tableVars, clockVars
  <1> DEFINE c == current_task
             sender == message_q[c][i]
             q == RemoveAt(message_q[c], i)
  <1>1. TypeOK /\ TableInv /\ LinkedOnce /\ OnePlace /\ DecisionInv /\ DeliveryPending /\ NoLostWakeup
        /\ QueueTypeOK /\ ReadyOnce /\ pc = "task" /\ pc' = "resume"
    BY DEF CallContext, IInv, LinkedOnce, TypeOK, TaskTypeOK, QueueTypeOK
  <1>2. /\ c \in Tasks /\ c # idle_task /\ InQueue(c) /\ ~Sending(c) /\ ~Receiving(c)
    BY CallerFacts DEF CallContext
  <1>3. message_q[c] \in Seq(Tasks) /\ IsInjective(message_q[c]) /\ i \in 1 .. Len(message_q[c])
    BY <1>1, <1>2 DEF TypeOK, MessageTypeOK, LinkedOnce, SendersOnce
  <1>4. sender \in Tasks /\ Contains(message_q[c], sender)
    BY <1>3 DEF Contains
  <1>5. /\ q \in Seq(Tasks)
        /\ \A x : Contains(q, x) <=> Contains(message_q[c], x) /\ x # sender
        /\ IsInjective(q)
    BY <1>3, RemoveAtList
  <1> HIDE DEF q
  <1>6. /\ Sending(sender) /\ ~InQueue(sender) /\ sender \notin Sleeping /\ ~Receiving(sender)
        /\ sender \in Created \ {idle_task} /\ sender # c
        /\ "SENDING" \in message_flags[sender] /\ message_send_to[sender] = c
    BY <1>1, <1>2, <1>4 DEF OnePlace, Placed, Sending, LinkedOnce, SendersOnce
  <1>7. /\ enqueue_task(sender) /\ UNCHANGED priority
        /\ mess' = [mess EXCEPT ![c] = message_buffer[sender]]
        /\ message_q' = [message_q EXCEPT ![c] = q]
        /\ message_send_to' = [message_send_to EXCEPT ![sender] = NULL]
        /\ message_flags' = [message_flags EXCEPT ![sender] = message_flags[sender] \ {"SENDING"}]
        /\ UNCHANGED <<flags, message_buffer, message_ptr, message_rec_pid>>
    BY DEF TakeFrom, unblock_task, CallContext, q
  <1> HIDE DEF sender
  <1>8. /\ QueueTypeOK' /\ ReadyOnce' /\ reschedule_needed' = TRUE
        /\ \A t \in Tasks : InQueue(t)' <=> InQueue(t) \/ t = sender
    BY <1>1, <1>4, <1>6, <1>7, EnqueueEffect
  <1>9. /\ \A d \in Tasks : message_q'[d] = IF d = c THEN q ELSE message_q[d]
        /\ \A t \in Tasks :
              /\ message_flags'[t] = IF t = sender THEN message_flags[t] \ {"SENDING"} ELSE message_flags[t]
              /\ message_send_to'[t] = IF t = sender THEN NULL ELSE message_send_to[t]
    BY <1>1, <1>7 DEF TypeOK, MessageTypeOK
  <1>10. TypeOK'
    <2>1. message_q' \in [Tasks -> Seq(Tasks)] /\ message_send_to' \in [Tasks -> Tasks \cup {NULL}]
      BY <1>1, <1>2, <1>5, <1>7 DEF TypeOK, MessageTypeOK
    <2>2. message_flags' \in [Tasks -> SUBSET MessageFlags]
      BY <1>1, <1>4, <1>7 DEF TypeOK, MessageTypeOK, MessageFlags
    <2>3. mess' \in [Tasks -> MessageType]
      BY <1>1, <1>4, <1>7 DEF TypeOK, MessageTypeOK
    <2> QED
      BY <1>1, <1>7, <1>8, <2>1, <2>2, <2>3 DEF TypeOK, TaskTypeOK, ClockTypeOK, MessageTypeOK,
         KernelTypeOK, QueueTypeOK, CallContext
  <1>11. TableInv'
    <2>1. /\ pid' = pid /\ pid_count' = pid_count /\ flags' = flags /\ ticks_left' = ticks_left
      BY <1>7 DEF CallContext
    <2>2. ASSUME NEW t \in Tasks, "SENDING" \in message_flags'[t]
          PROVE  message_send_to'[t] \in Tasks
      <3>1. t # sender
        BY <1>9, <2>2
      <3> QED
        BY <1>1, <1>9, <2>2, <3>1 DEF TableInv
    <2> QED
      BY <1>1, <2>1, <2>2 DEF TableInv
  <1>12. LinkedOnce'
    <2>1. \A d \in Tasks : IsInjective(message_q'[d])
      BY <1>1, <1>5, <1>9 DEF LinkedOnce, SendersOnce
    <2>2. \A d, t \in Tasks : Contains(message_q'[d], t) <=>
             "SENDING" \in message_flags'[t] /\ message_send_to'[t] = d
      <3> SUFFICES ASSUME NEW d \in Tasks, NEW t \in Tasks
                   PROVE  Contains(message_q'[d], t) <=>
                            "SENDING" \in message_flags'[t] /\ message_send_to'[t] = d
        OBVIOUS
      <3>1. Contains(message_q[d], t) <=> "SENDING" \in message_flags[t] /\ message_send_to[t] = d
        BY <1>1 DEF LinkedOnce, SendersOnce
      <3>2. CASE t = sender
        <4>1. "SENDING" \notin message_flags'[t]
          BY <1>9, <3>2
        <4>2. d # c => ~Contains(message_q[d], t)
          BY <1>6, <3>1, <3>2
        <4> QED
          BY <1>2, <1>5, <1>9, <3>2, <4>1, <4>2
      <3>3. CASE t # sender
        BY <1>2, <1>5, <1>9, <3>1, <3>3
      <3> QED
        BY <3>2, <3>3
    <2> QED
      BY <1>1, <1>8, <2>1, <2>2 DEF LinkedOnce, TimersOnce, SendersOnce, CallContext
  <1>13. OnePlace'
    <2>1. \A t \in Tasks : Receiving(t)' <=> Receiving(t)
      BY <1>9 DEF Receiving
    <2>2. \A t \in Tasks : Sending(t)' <=> Sending(t) /\ t # sender
      BY <1>1, <1>11, <1>12, <1>9, SendingFlag DEF Sending, LinkedOnce, SendersOnce, TableInv
    <2>3. Sleeping' = Sleeping
      BY DEF Sleeping, CallContext
    <2> QED
      BY <1>1, <1>6, <1>8, <2>1, <2>2, <2>3 DEF OnePlace, Placed, Created, CallContext
  <1>14. DecisionInv' /\ BootInv'
    BY <1>1, <1>8 DEF DecisionInv, BootInv
  <1>15. DeliveryPending'
    BY <1>1, <1>6, <1>7, <1>8, <1>9 DEF DeliveryPending, Receiving
  <1>16. NoLostWakeup'
    <2> SUFFICES ASSUME NEW d \in Tasks, Receiving(d)', NEW j \in DOMAIN message_q'[d]
                 PROVE  ~Wanted(d, message_rec_pid[d], j)'
      BY <1>7 DEF NoLostWakeup
    <2>1. Receiving(d) /\ d # c
      BY <1>2, <1>9 DEF Receiving
    <2> QED
      BY <1>1, <1>7, <1>9, <2>1 DEF NoLostWakeup, Wanted, CallContext
  <1> QED
    BY <1>10, <1>11, <1>12, <1>13, <1>14, <1>15, <1>16 DEF IInv

(* message_receive when no wanted sender waits.                            *)
LEMMA AwaitMessageInv ==
    ASSUME CallContext, NEW origin_pid \in Int,
           \A i \in DOMAIN message_q[current_task] : ~Wanted(current_task, origin_pid, i),
           AwaitMessage(current_task, origin_pid)
    PROVE  IInv'
  <1> USE DEF tableVars, clockVars
  <1> DEFINE c == current_task
  <1>1. TypeOK /\ TableInv /\ LinkedOnce /\ OnePlace /\ DecisionInv /\ DeliveryPending /\ NoLostWakeup
        /\ QueueTypeOK /\ ReadyOnce /\ pc = "task" /\ pc' = "resume"
    BY DEF CallContext, IInv, LinkedOnce, TypeOK, TaskTypeOK, QueueTypeOK
  <1>2. /\ c \in Tasks /\ c \in Created /\ c # idle_task /\ InQueue(c) /\ c \notin Sleeping
        /\ ~Sending(c) /\ ~Receiving(c) /\ message_flags[c] = {}
    BY CallerFacts DEF CallContext
  <1>3. /\ QueueTypeOK' /\ ReadyOnce' /\ reschedule_needed' = TRUE
        /\ \A t \in Tasks : InQueue(t)' <=> InQueue(t) /\ t # c
    BY <1>1, <1>2, DequeueEffect DEF CallContext, AwaitMessage, block_task
  <1>4. \A t \in Tasks : /\ message_flags'[t] = IF t = c THEN {"RECEIVING"} ELSE message_flags[t]
                         /\ message_rec_pid'[t] = IF t = c THEN origin_pid ELSE message_rec_pid[t]
                         /\ message_ptr'[t] = IF t = c THEN MESS ELSE message_ptr[t]
    BY <1>1, <1>2 DEF AwaitMessage, TypeOK, MessageTypeOK
  <1>5. TypeOK'
    <2>1. message_flags' \in [Tasks -> SUBSET MessageFlags]
      BY <1>1, <1>2 DEF AwaitMessage, TypeOK, MessageTypeOK, MessageFlags
    <2>2. /\ message_ptr' \in [Tasks -> {NULL, MESS}]
          /\ message_rec_pid' \in [Tasks -> {PID_NO_TASK, PID_ALL_TASKS} \cup Int]
      BY <1>1 DEF AwaitMessage, TypeOK, MessageTypeOK
    <2> QED
      BY <1>1, <1>3, <2>1, <2>2 DEF TypeOK, TaskTypeOK, ClockTypeOK, MessageTypeOK, KernelTypeOK,
         QueueTypeOK, AwaitMessage, CallContext
  <1>6. TableInv'
    BY <1>1, <1>4 DEF TableInv, AwaitMessage, CallContext
  <1>7. LinkedOnce'
    BY <1>1, <1>2, <1>3, <1>4 DEF LinkedOnce, TimersOnce, SendersOnce, AwaitMessage, CallContext
  <1>8. OnePlace'
    <2>1. \A t \in Tasks : Receiving(t)' <=> Receiving(t) \/ t = c
      BY <1>2, <1>4 DEF Receiving
    <2>2. \A t \in Tasks : (Sending(t)' <=> Sending(t)) /\ (t \in Sleeping' <=> t \in Sleeping)
      BY DEF Sending, Sleeping, AwaitMessage, CallContext
    <2> QED
      BY <1>1, <1>2, <1>3, <2>1, <2>2 DEF OnePlace, Placed, Created, CallContext
  <1>9. DecisionInv' /\ BootInv'
    BY <1>1, <1>3 DEF DecisionInv, BootInv
  <1>10. DeliveryPending'
    BY <1>1, <1>2, <1>3, <1>4 DEF DeliveryPending, Receiving, AwaitMessage
  <1>11. NoLostWakeup'
    BY <1>1, <1>4 DEF NoLostWakeup, Receiving, Wanted, AwaitMessage, CallContext
  <1> QED
    BY <1>5, <1>6, <1>7, <1>8, <1>9, <1>10, <1>11 DEF IInv

(* message_receive keeps the invariant, in its three cases.                *)
LEMMA ReceiveCallInv ==
    ASSUME IInv, NEW origin_pid \in OriginPids, ReceiveCall(origin_pid)
    PROVE  IInv'
  <1>1. TypeOK /\ pc = "task" /\ current_task # idle_task /\ origin_pid \in Int
    BY KernelAssumption DEF IInv, ReceiveCall, Caller
  <1>2. PICK result \in {0, -1} : message_receive(current_task, origin_pid, result) /\ Return(result)
    BY DEF ReceiveCall
  <1>3. eax' \in [Tasks -> Int] /\ pc' = "resume"
    BY <1>1, <1>2, ReturnType
  <1>4. CallContext
    BY <1>1, <1>3 DEF CallContext, ReceiveCall
  <1>5. CASE UNCHANGED <<readyVars, flags, messageVars>>
    BY <1>1, <1>3, <1>5, FrameInv DEF ReceiveCall, taskVars, messageVars, TypeOK, MessageTypeOK
  <1>6. ASSUME NEW i \in DOMAIN message_q[current_task], TakeFrom(current_task, i)
        PROVE  IInv'
    BY <1>4, <1>6, TakeFromInv
  <1>7. ASSUME \A i \in DOMAIN message_q[current_task] : ~Wanted(current_task, origin_pid, i),
               AwaitMessage(current_task, origin_pid)
        PROVE  IInv'
    BY <1>1, <1>4, <1>7, AwaitMessageInv
  <1> QED
    BY <1>2, <1>5, <1>6, <1>7 DEF message_receive

(***************************************************************************)
(* The switch to the next task.                                            *)
(***************************************************************************)
LEMMA ResumeInv ==
    ASSUME IInv, Resume
    PROVE  IInv'
  <1> USE DEF tableVars, clockVars
  <1>1. TypeOK /\ TableInv /\ LinkedOnce /\ OnePlace /\ DecisionInv /\ DeliveryPending /\ NoLostWakeup
        /\ QueueTypeOK /\ pc = "resume" /\ pc' = "task"
    BY DEF IInv, TypeOK, TaskTypeOK, QueueTypeOK, Resume
  <1>2. PICK tsk \in Tasks : scheduler(tsk) /\ current_task' = tsk /\ after_context_switch(tsk)
    BY DEF Resume
  <1>3. /\ Picks(tsk) /\ next_task' = tsk /\ reschedule_needed' = FALSE
        /\ UNCHANGED <<tableVars, queue, ticks_left, clockVars>>
    BY <1>1, <1>2 DEF scheduler, DecisionInv, Resume
  <1>4. tsk \in Created /\ ~Receiving(tsk) /\ ~Sending(tsk)
    <2>1. CASE tsk = idle_task
      <3>1. pid_count \in Nat /\ pid[tsk] = 0
        BY <1>1, <1>2, <2>1 DEF TableInv, TypeOK, TaskTypeOK, idle_task
      <3> QED
        BY <1>1, <1>2, <2>1, <3>1 DEF OnePlace, Placed, Created, PID_NO_TASK
    <2>2. CASE InQueue(tsk)
      BY <1>1, <1>2, <2>2 DEF OnePlace, Placed
    <2> QED
      BY <1>1, <1>3, <2>1, <2>2, PicksReady
  <1>5. "SENDING" \notin message_flags[tsk] /\ "RECEIVING" \notin message_flags[tsk]
    BY <1>1, <1>2, <1>4, SendingFlag DEF LinkedOnce, Receiving
  <1>6. message_flags[tsk] \in SUBSET {"SENDING", "RECEIVING", "DELIVERING"}
    BY <1>1, <1>2 DEF TypeOK, MessageTypeOK, MessageFlags
  <1>7. /\ eax' \in [Tasks -> Int]
        /\ mess' \in [Tasks -> MessageType] /\ message_buffer' \in [Tasks -> MessageType]
        /\ message_rec_pid' \in [Tasks -> {PID_NO_TASK, PID_ALL_TASKS} \cup Int]
        /\ flags' = [flags EXCEPT ![tsk] = flags[tsk] \ {"AFTER_SWITCH"}]
        /\ message_flags' = [message_flags EXCEPT ![tsk] = {}]
        /\ message_ptr' = [message_ptr EXCEPT ![tsk] = NULL]
        /\ \A t \in Tasks : t # tsk => message_rec_pid'[t] = message_rec_pid[t]
        /\ UNCHANGED <<message_send_to, message_q>>
    <2>1. CASE "AFTER_SWITCH" \in flags[tsk]
      <3>1. message_deliver(tsk) /\ eax' = [eax EXCEPT ![tsk] = 0]
            /\ flags' = [flags EXCEPT ![tsk] = flags[tsk] \ {"AFTER_SWITCH"}]
        BY <1>1, <1>2, <2>1 DEF after_context_switch, DeliveryPending
      <3>2. message_flags[tsk] \ {"DELIVERING"} = {}
        BY <1>5, <1>6
      <3>3. mess' \in [Tasks -> MessageType] /\ message_buffer' \in [Tasks -> MessageType]
        BY <1>1, <1>2, <3>1, ZeroType DEF message_deliver, TypeOK, MessageTypeOK
      <3>4. /\ message_flags' = [message_flags EXCEPT ![tsk] = {}]
            /\ message_ptr' = [message_ptr EXCEPT ![tsk] = NULL]
            /\ UNCHANGED <<message_send_to, message_q>>
        BY <3>1, <3>2 DEF message_deliver
      <3>5. /\ message_rec_pid' \in [Tasks -> {PID_NO_TASK, PID_ALL_TASKS} \cup Int]
            /\ \A t \in Tasks : t # tsk => message_rec_pid'[t] = message_rec_pid[t]
            /\ eax' \in [Tasks -> Int]
        BY <1>1, <1>2, <3>1 DEF message_deliver, TypeOK, MessageTypeOK, KernelTypeOK
      <3> QED
        BY <3>1, <3>3, <3>4, <3>5
    <2>2. CASE "AFTER_SWITCH" \notin flags[tsk]
      <3>1. UNCHANGED <<flags, messageVars, eax>>
        BY <1>2, <2>2 DEF after_context_switch
      <3>2. message_flags[tsk] = {} /\ message_ptr[tsk] # MESS
        BY <1>1, <1>2, <1>5, <1>6, <2>2 DEF DeliveryPending
      <3>3. flags[tsk] \ {"AFTER_SWITCH"} = flags[tsk] /\ message_ptr[tsk] = NULL
        BY <1>1, <1>2, <2>2, <3>2 DEF TypeOK, TaskTypeOK, MessageTypeOK
      <3> QED
        BY <1>1, <1>2, <3>1, <3>2, <3>3 DEF TypeOK, TaskTypeOK, MessageTypeOK, KernelTypeOK, messageVars
    <2> QED
      BY <2>1, <2>2
  <1>8. /\ \A t \in Tasks : InQueue(t)' <=> InQueue(t)
        /\ \A t \in Tasks : Sending(t)' <=> Sending(t)
        /\ \A t \in Tasks : Receiving(t)' <=> Receiving(t)
        /\ Sleeping' = Sleeping
    <2>1. \A t \in Tasks : (InQueue(t)' <=> InQueue(t)) /\ (Sending(t)' <=> Sending(t))
      BY <1>3, <1>7 DEF InQueue, Sending
    <2>2. \A t \in Tasks : Receiving(t)' <=> Receiving(t)
      BY <1>1, <1>4, <1>7 DEF Receiving, TypeOK, MessageTypeOK
    <2> QED
      BY <1>3, <2>1, <2>2 DEF Sleeping
  <1>9. TypeOK'
    <2>1. /\ flags' \in [Tasks -> SUBSET TaskFlags]
          /\ message_flags' \in [Tasks -> SUBSET MessageFlags]
          /\ message_ptr' \in [Tasks -> {NULL, MESS}]
      BY <1>1, <1>2, <1>7 DEF TypeOK, TaskTypeOK, MessageTypeOK
    <2> QED
      BY <1>1, <1>2, <1>3, <1>7, <2>1 DEF TypeOK, TaskTypeOK, ClockTypeOK, MessageTypeOK, KernelTypeOK
  <1>10. TableInv'
    BY <1>1, <1>3, <1>7 DEF TableInv, TypeOK, TaskTypeOK, MessageTypeOK
  <1>11. LinkedOnce'
    BY <1>1, <1>3, <1>5, <1>7 DEF LinkedOnce, ReadyOnce, TimersOnce, SendersOnce, TypeOK, MessageTypeOK
  <1>12. OnePlace'
    BY <1>1, <1>3, <1>8 DEF OnePlace, Placed, Created
  <1>13. DecisionInv' /\ BootInv'
    BY <1>1, <1>2, <1>3, <1>4 DEF DecisionInv, BootInv, Picks, Created
  <1>14. DeliveryPending'
    BY <1>1, <1>2, <1>7, <1>8, AddressAssumption DEF DeliveryPending, TypeOK, TaskTypeOK, MessageTypeOK
  <1>15. NoLostWakeup'
    BY <1>1, <1>3, <1>4, <1>7, <1>8 DEF NoLostWakeup, Wanted
  <1> QED
    BY <1>9, <1>10, <1>11, <1>12, <1>13, <1>14, <1>15 DEF IInv

(***************************************************************************)
(* The theorems.                                                           *)
(***************************************************************************)
LEMMA NextInv ==
    ASSUME IInv, [Next]_vars
    PROVE  IInv'
  <1>1. CASE Boot
    BY <1>1, CreateTaskInv, StartTaskInv, BootDoneInv DEF Boot
  <1>2. CASE KernelCall
    BY <1>2, SleepCallInv, PreemptCallInv, GetPidCallInv, SendCallInv, ReceiveCallInv, UnknownCallInv
       DEF KernelCall
  <1>3. CASE UseMessage
    BY <1>3, UseMessageInv
  <1>4. CASE TimerTick
    BY <1>4, TimerTickInv
  <1>5. CASE InKernel
    BY <1>5, WakeExpiredInv, TimerDoneInv, ResumeInv DEF InKernel
  <1>6. CASE UNCHANGED vars
    <2> USE <1>6 DEF vars, taskVars, tableVars, readyVars, clockVars, messageVars
    <2>1. TypeOK' /\ TableInv' /\ BootInv' /\ LinkedOnce'
      BY DEF IInv, TypeOK, TaskTypeOK, ClockTypeOK, MessageTypeOK, KernelTypeOK, TableInv, BootInv,
         LinkedOnce, ReadyOnce, TimersOnce, SendersOnce
    <2>2. OnePlace'
      BY DEF IInv, OnePlace, Placed, Created, InQueue, Sleeping, Sending, Receiving
    <2>3. DecisionInv' /\ DeliveryPending' /\ NoLostWakeup'
      BY DEF IInv, DecisionInv, Picks, Created, DeliveryPending, NoLostWakeup, Receiving, InQueue, Wanted
    <2> QED
      BY <2>1, <2>2, <2>3 DEF IInv
  <1> QED
    BY <1>1, <1>2, <1>3, <1>4, <1>5, <1>6 DEF Next

(* The invariant of the kernel holds in every reachable state.             *)
THEOREM Invariance == Spec => []IInv
  <1>1. Init => IInv
    BY InitInv
  <1>2. IInv /\ [Next]_vars => IInv'
    BY NextInv
  <1> QED
    BY <1>1, <1>2, PTL DEF Spec

(* Every field of the task table, the lists and the clock keep their       *)
(* types; in particular ticks_left, which timer_callback decrements        *)
(* before it looks at it, and pid_count never leave their ranges.          *)
THEOREM TypeCorrect == Spec => []TypeOK
  <1>1. IInv => TypeOK
    BY DEF IInv
  <1> QED
    BY <1>1, Invariance, PTL

(* No list of tasks holds a task twice.                                    *)
THEOREM TasksLinkedOnce == Spec => []LinkedOnce
  <1>1. IInv => LinkedOnce
    BY DEF IInv
  <1> QED
    BY <1>1, Invariance, PTL

(* No task is lost and none is in two places.                              *)
THEOREM TasksInOnePlace == Spec => []OnePlace
  <1>1. IInv => OnePlace
    BY DEF IInv
  <1> QED
    BY <1>1, Invariance, PTL

(* The task that runs is the one scheduler() would pick now.               *)
THEOREM FirstReadyRuns == Spec => []RunsFirstReady
  <1>1. IInv => RunsFirstReady
    BY DEF IInv, DecisionInv, RunsFirstReady
  <1> QED
    BY <1>1, Invariance, PTL

(* A sender and a receiver that match never both wait.                     *)
THEOREM WakeupNotLost == Spec => []NoLostWakeup
  <1>1. IInv => NoLostWakeup
    BY DEF IInv
  <1> QED
    BY <1>1, Invariance, PTL

(* A message on its way reaches the receiver's buffer before the receiver  *)
(* runs.                                                                   *)
THEOREM DeliveredBeforeRunning == Spec => []DeliveryPending
  <1>1. IInv => DeliveryPending
    BY DEF IInv
  <1> QED
    BY <1>1, Invariance, PTL

---------------------------------------------------------------------------
(***************************************************************************)
(* The timer list of module Clock, as module Kernel uses it: the list      *)
(* stays sorted, and no task sleeps longer than it asked for.              *)
(***************************************************************************)

(* Arithmetic modulo the period of the clock.                              *)
LEMMA ModSmall ==
    ASSUME NEW n \in 0 .. WORD - 1
    PROVE  n % WORD = n
  BY ClockAssumption

LEMMA ModOver ==
    ASSUME NEW n \in WORD .. 2 * WORD - 1
    PROVE  n % WORD = n - WORD
  BY ClockAssumption

LEMMA ModUnder ==
    ASSUME NEW n \in -WORD .. -1
    PROVE  n % WORD = n + WORD
  BY ClockAssumption

LEMMA TicksPositive ==
    ASSUME NEW ms \in SleepTimes, ms > 0
    PROVE  ticks(ms) \in 1 .. WORD - 1
  <1>1. KERNEL_CLOCK_FREQ * ms \in Nat /\ KERNEL_CLOCK_FREQ * ms >= 1
    BY ClockAssumption
  <1>2. ticks(ms) \in Nat /\ ticks(ms) >= 1
    BY <1>1, ClockAssumption DEF ticks
  <1> QED
    BY <1>2, ClockAssumption

(***************************************************************************)
(* The ticks a sleeping task has still to wait: at least one and at most   *)
(* those of its sleep, and one less in the loop of timer_callback, which   *)
(* has counted a tick and not yet woken every task it expires.             *)
(***************************************************************************)
SleepInv ==
    \A i \in DOMAIN timers : \E ms \in SleepTimes :
        /\ ms > 0
        /\ IF pc = "timer" THEN Remaining(i) \in 0 .. ticks(ms) - 1
                           ELSE Remaining(i) \in 1 .. ticks(ms)

TimerInv == TimersSorted /\ SleepInv

(* The types the proofs below need.                                        *)
LEMMA TimerTypes ==
    ASSUME IInv
    PROVE  /\ timers \in Seq(TimerEvent)
           /\ DOMAIN timers = 1 .. Len(timers) /\ Len(timers) \in Nat
           /\ clock_ticks \in 0 .. WORD - 1
           /\ \A i \in 1 .. Len(timers) : timers[i].timer_expire \in 0 .. WORD - 1
  <1>1. timers \in Seq(TimerEvent) /\ clock_ticks \in 0 .. WORD - 1
    BY DEF IInv, TypeOK, ClockTypeOK
  <1>2. \A i \in 1 .. Len(timers) : timers[i] \in TimerEvent
    BY <1>1
  <1> QED
    BY <1>1, <1>2 DEF TimerEvent

(* Remaining without the modulo.                                           *)
LEMMA RemainingValue ==
    ASSUME NEW e \in 0 .. WORD - 1, NEW c \in 0 .. WORD - 1
    PROVE  (e - c) % WORD = IF e >= c THEN e - c ELSE e - c + WORD
  <1>0. WORD \in Nat \ {0}
    BY ClockAssumption
  <1>1. CASE e >= c
    <2>1. e - c \in 0 .. WORD - 1
      BY <1>0, <1>1
    <2> QED
      BY <1>1, <2>1, ModSmall
  <1>2. CASE ~(e >= c)
    <2>1. e - c \in -WORD .. -1
      BY <1>0, <1>2
    <2> QED
      BY <1>2, <2>1, ModUnder
  <1> QED
    BY <1>1, <1>2

(* A tick takes one from a remaining time that is not zero.                *)
LEMMA TickRemaining ==
    ASSUME NEW e \in 0 .. WORD - 1, NEW c \in 0 .. WORD - 1, (e - c) % WORD # 0
    PROVE  (e - ((c + 1) % WORD)) % WORD = ((e - c) % WORD) - 1
  <1>0. WORD \in Nat \ {0}
    BY ClockAssumption
  <1>1. (e - c) % WORD = IF e >= c THEN e - c ELSE e - c + WORD
    BY RemainingValue
  <1>2. e # c
    BY <1>0, <1>1
  <1>3. CASE c + 1 < WORD
    <2>1. (c + 1) % WORD = c + 1 /\ c + 1 \in 0 .. WORD - 1
      BY <1>0, <1>3, ModSmall
    <2>2. (e - (c + 1)) % WORD = IF e >= c + 1 THEN e - (c + 1) ELSE e - (c + 1) + WORD
      BY <2>1, RemainingValue
    <2> QED
      BY <1>0, <1>1, <1>2, <2>1, <2>2
  <1>4. CASE ~(c + 1 < WORD)
    <2>1. c + 1 \in WORD .. 2 * WORD - 1 /\ (c + 1) - WORD = 0
      BY <1>0, <1>4
    <2>2. (c + 1) % WORD = 0
      <3> DEFINE n == c + 1
      <3>1. n \in WORD .. 2 * WORD - 1 /\ n - WORD = 0
        BY <1>0, <2>1
      <3> HIDE DEF n
      <3>2. n % WORD = n - WORD
        BY <3>1, ModOver
      <3> QED
        BY <3>1, <3>2 DEF n
    <2>3. e % WORD = e /\ e - 0 = e
      BY ModSmall
    <2> QED
      BY <1>0, <1>1, <1>2, <2>1, <2>2, <2>3
  <1> QED
    BY <1>3, <1>4

(* A sleep that starts now has all its ticks to wait.                      *)
LEMMA FullRemaining ==
    ASSUME NEW n \in 1 .. WORD - 1, NEW c \in 0 .. WORD - 1
    PROVE  (((n + c) % WORD) - c) % WORD = n
  <1>0. WORD \in Nat \ {0}
    BY ClockAssumption
  <1>1. CASE n + c < WORD
    <2>1. (n + c) % WORD = n + c
      BY <1>0, <1>1, ModSmall
    <2>2. (n + c) - c = n /\ n \in 0 .. WORD - 1
      BY <1>0
    <2> QED
      BY <2>1, <2>2, ModSmall
  <1>2. CASE ~(n + c < WORD)
    <2>1. n + c \in WORD .. 2 * WORD - 1
      BY <1>0, <1>2
    <2>2. (n + c) % WORD = (n + c) - WORD
      <3> DEFINE k == n + c
      <3>1. k \in WORD .. 2 * WORD - 1
        BY <2>1
      <3> HIDE DEF k
      <3>2. k % WORD = k - WORD
        BY <3>1, ModOver
      <3> QED
        BY <3>2 DEF k
    <2>3. ((n + c) - WORD) - c = n - WORD /\ n - WORD \in -WORD .. -1 /\ (n - WORD) + WORD = n
      BY <1>0
    <2> QED
      BY <2>2, <2>3, ModUnder
  <1> QED
    BY <1>1, <1>2

(***************************************************************************)
(* Every step keeps TimerInv.                                              *)
(***************************************************************************)

(* A step that leaves clock and list alone.                                *)
LEMMA OtherStep ==
    ASSUME TimerInv, UNCHANGED clockVars, pc' = "timer" <=> pc = "timer"
    PROVE  TimerInv'
  BY DEF TimerInv, TimersSorted, SleepInv, Remaining, clockVars

(* sleep_ms puts the task before the first one that expires later.         *)
LEMMA SleepSorted ==
    ASSUME timers \in Seq(TimerEvent), TimersSorted, current_task \in Tasks,
           NEW expire \in 0 .. WORD - 1,
           NEW i \in 1 .. Len(timers) + 1, sleep_ms_at(i, expire)
    PROVE  /\ TimersSorted'
           /\ DOMAIN timers' = 1 .. Len(timers) + 1
           /\ timers'[i].timer_expire = expire
           /\ \A j \in 1 .. Len(timers) + 1 : j # i =>
                 \E k \in 1 .. Len(timers) : timers'[j] = timers[k]
  <1> DEFINE e == [tsk |-> current_task, timer_expire |-> expire]
             n == Len(timers)
  <1>1. /\ e \in TimerEvent /\ e.timer_expire = expire /\ timers' = InsertAt(timers, i, e)
        /\ n \in Nat /\ DOMAIN timers = 1 .. n
    BY DEF TimerEvent, sleep_ms_at
  <1>2. \A j \in 1 .. n : timers[j] \in TimerEvent /\ timers[j].timer_expire \in Int
    <2>1. \A j \in 1 .. n : timers[j] \in TimerEvent
      BY <1>1
    <2> QED
      BY <2>1 DEF TimerEvent
  <1>3. /\ \A j \in 1 .. i - 1 : ~(timers[j].timer_expire > expire)
        /\ i \in 1 .. n => timers[i].timer_expire > expire
    BY <1>1 DEF sleep_ms_at, ExpiresAfter
  <1> HIDE DEF e, TimerEvent
  <1>4. /\ InsertAt(timers, i, e) \in Seq(TimerEvent)
        /\ Len(InsertAt(timers, i, e)) = n + 1
        /\ \A j \in 1 .. n + 1 : InsertAt(timers, i, e)[j] =
              IF j < i THEN timers[j] ELSE IF j = i THEN e ELSE timers[j - 1]
    <2>1. timers \in Seq(TimerEvent) /\ e \in TimerEvent /\ i \in 1 .. Len(timers) + 1
      BY <1>1
    <2>2. Inserted(InsertAt(timers, i, e), TimerEvent, timers, i, e)
      BY <2>1, InsertAtElements
    <2> QED
      BY <2>2 DEF Inserted
  <1>5. /\ DOMAIN timers' = 1 .. n + 1
        /\ \A j \in 1 .. n + 1 :
              timers'[j] = IF j < i THEN timers[j] ELSE IF j = i THEN e ELSE timers[j - 1]
    BY <1>1, <1>4
  <1>6. \A j, k \in 1 .. n : j < k => timers[j].timer_expire <= timers[k].timer_expire
    BY <1>1 DEF TimersSorted
  <1>7. ASSUME NEW j \in 1 .. n + 1, NEW k \in 1 .. n + 1, j < k
        PROVE  timers'[j].timer_expire <= timers'[k].timer_expire
    <2>1. CASE j < i /\ k < i
      <3>1. timers'[j] = timers[j] /\ timers'[k] = timers[k] /\ j \in 1 .. n /\ k \in 1 .. n
        BY <1>1, <1>5, <2>1
      <3> QED
        BY <1>6, <1>7, <3>1
    <2>2. CASE j < i /\ k = i
      <3>1. timers'[j] = timers[j] /\ timers'[k] = e /\ j \in 1 .. n /\ j \in 1 .. i - 1
        BY <1>1, <1>5, <2>2
      <3> QED
        BY <1>1, <1>2, <1>3, <3>1
    <2>3. CASE j < i /\ k > i
      <3>1. /\ timers'[j] = timers[j] /\ timers'[k] = timers[k - 1]
            /\ j \in 1 .. n /\ k - 1 \in 1 .. n /\ j < k - 1
        BY <1>1, <1>5, <2>3
      <3> QED
        BY <1>6, <3>1
    <2>4. CASE j = i
      <3>1. /\ timers'[j] = e /\ timers'[k] = timers[k - 1]
            /\ i \in 1 .. n /\ k - 1 \in 1 .. n /\ (i = k - 1 \/ i < k - 1)
        BY <1>1, <1>5, <1>7, <2>4
      <3>2. timers[i].timer_expire <= timers[k - 1].timer_expire
        BY <1>2, <1>6, <3>1
      <3> QED
        BY <1>1, <1>2, <1>3, <3>1, <3>2
    <2>5. CASE j > i
      <3>1. /\ timers'[j] = timers[j - 1] /\ timers'[k] = timers[k - 1]
            /\ j - 1 \in 1 .. n /\ k - 1 \in 1 .. n /\ j - 1 < k - 1
        BY <1>1, <1>5, <1>7, <2>5
      <3> QED
        BY <1>6, <3>1
    <2> QED
      BY <1>7, <2>1, <2>2, <2>3, <2>4, <2>5
  <1>8. TimersSorted'
    BY <1>5, <1>7 DEF TimersSorted
  <1>9. ASSUME NEW j \in 1 .. n + 1, j # i
        PROVE  \E k \in 1 .. n : timers'[j] = timers[k]
    <2>1. CASE j < i
      BY <1>1, <1>5, <2>1
    <2>2. CASE j > i
      <3>1. timers'[j] = timers[j - 1] /\ j - 1 \in 1 .. n
        BY <1>1, <1>5, <2>2
      <3> QED
        BY <3>1
    <2> QED
      BY <1>9, <2>1, <2>2
  <1>10. timers'[i].timer_expire = expire
    BY <1>1, <1>5
  <1> QED
    BY <1>5, <1>8, <1>9, <1>10

LEMMA SleepCallTimer ==
    ASSUME IInv, TimerInv, NEW ms \in SleepTimes, SleepCall(ms)
    PROVE  TimerInv'
  <1> DEFINE expire == (ticks(ms) + clock_ticks) % WORD
  <1>1. pc = "task" /\ pc' = "resume" /\ current_task # idle_task
    BY DEF SleepCall, Caller, Return
  <1>2. CASE UNCHANGED clockVars
    BY <1>1, <1>2, OtherStep
  <1>3. CASE sleep_ms(ms)
    <2>1. /\ clock_ticks' = clock_ticks /\ ms > 0
          /\ \E i \in 1 .. Len(timers) + 1 : sleep_ms_at(i, expire)
      BY <1>3 DEF sleep_ms
    <2>2. /\ ticks(ms) \in 1 .. WORD - 1 /\ clock_ticks \in 0 .. WORD - 1
          /\ timers \in Seq(TimerEvent) /\ DOMAIN timers = 1 .. Len(timers)
          /\ current_task \in Tasks
      BY <1>1, <2>1, TicksPositive, TimerTypes, CallerFacts
    <2>3. expire \in 0 .. WORD - 1 /\ (expire - clock_ticks) % WORD = ticks(ms)
      <3>1. ticks(ms) + clock_ticks \in Int
        BY <2>2
      <3> QED
        BY <2>2, <3>1, ClockMod, FullRemaining
    <2> HIDE DEF expire
    <2>4. PICK i \in 1 .. Len(timers) + 1 : sleep_ms_at(i, expire)
      BY <2>1
    <2>5. /\ TimersSorted'
          /\ DOMAIN timers' = 1 .. Len(timers) + 1
          /\ timers'[i].timer_expire = expire
          /\ \A j \in 1 .. Len(timers) + 1 : j # i =>
                \E k \in 1 .. Len(timers) : timers'[j] = timers[k]
      BY <2>2, <2>3, <2>4, SleepSorted DEF TimerInv
    <2>6. ASSUME NEW j \in DOMAIN timers'
          PROVE  \E m \in SleepTimes : m > 0 /\ Remaining(j)' \in 1 .. ticks(m)
      <3>1. CASE j = i
        <4>1. Remaining(j)' = ticks(ms)
          BY <2>1, <2>3, <2>5, <3>1 DEF Remaining
        <4> QED
          BY <2>1, <2>2, <4>1
      <3>2. CASE j # i
        <4>1. PICK k \in 1 .. Len(timers) : timers'[j] = timers[k]
          BY <2>5, <2>6, <3>2
        <4>2. Remaining(j)' = Remaining(k)
          BY <2>1, <4>1 DEF Remaining
        <4> QED
          BY <1>1, <2>2, <4>2 DEF TimerInv, SleepInv
      <3> QED
        BY <3>1, <3>2
    <2>7. SleepInv'
      BY <1>1, <2>6 DEF SleepInv
    <2> QED
      BY <2>5, <2>7 DEF TimerInv
  <1> QED
    BY <1>2, <1>3 DEF SleepCall

LEMMA TimerTickTimer ==
    ASSUME IInv, TimerInv, TimerTick
    PROVE  TimerInv'
  <1>1. /\ pc = "task" /\ pc' = "timer" /\ timers' = timers
        /\ clock_ticks' = (clock_ticks + 1) % WORD
    BY DEF TimerTick, timer_callback
  <1>2. /\ DOMAIN timers = 1 .. Len(timers)
        /\ clock_ticks \in 0 .. WORD - 1
        /\ \A i \in 1 .. Len(timers) : timers[i].timer_expire \in 0 .. WORD - 1
    BY TimerTypes
  <1>3. ASSUME NEW i \in DOMAIN timers'
        PROVE  \E ms \in SleepTimes : ms > 0 /\ Remaining(i)' \in 0 .. ticks(ms) - 1
    <2>1. PICK ms \in SleepTimes : ms > 0 /\ Remaining(i) \in 1 .. ticks(ms)
      BY <1>1, <1>3 DEF TimerInv, SleepInv
    <2>2. ticks(ms) \in Int
      BY <2>1, TicksPositive
    <2>3. Remaining(i)' = Remaining(i) - 1
      <3>1. timers[i].timer_expire \in 0 .. WORD - 1
        BY <1>1, <1>2
      <3>2. (timers[i].timer_expire - clock_ticks) % WORD # 0
        BY <2>1, <2>2 DEF Remaining
      <3> QED
        BY <1>1, <1>2, <3>1, <3>2, TickRemaining DEF Remaining
    <2> QED
      BY <2>1, <2>2, <2>3
  <1>4. TimersSorted' /\ SleepInv'
    BY <1>1, <1>3 DEF TimerInv, TimersSorted, SleepInv
  <1> QED
    BY <1>4 DEF TimerInv

LEMMA WakeExpiredTimer ==
    ASSUME IInv, TimerInv, WakeExpired
    PROVE  TimerInv'
  <1> DEFINE n == Len(timers)
  <1>1. /\ pc = "timer" /\ pc' = "timer" /\ clock_ticks' = clock_ticks
        /\ timers' = Tail(timers) /\ timers # <<>>
    BY DEF WakeExpired, WakeHead, HeadExpired
  <1>2. timers \in Seq(TimerEvent) /\ DOMAIN timers = 1 .. n /\ n \in Nat
    BY TimerTypes
  <1>3. /\ DOMAIN timers' = 1 .. n - 1
        /\ \A i \in 1 .. n - 1 : timers'[i] = timers[i + 1] /\ i + 1 \in 1 .. n
    BY <1>1, <1>2, TailElements
  <1>4. TimersSorted'
    <2> SUFFICES ASSUME NEW i \in 1 .. n - 1, NEW j \in 1 .. n - 1, i < j
                 PROVE  timers'[i].timer_expire <= timers'[j].timer_expire
      BY <1>3 DEF TimersSorted
    <2>1. i + 1 < j + 1 /\ i + 1 \in 1 .. n /\ j + 1 \in 1 .. n
      BY <1>2
    <2>2. timers[i + 1].timer_expire <= timers[j + 1].timer_expire
      BY <1>2, <2>1 DEF TimerInv, TimersSorted
    <2> QED
      BY <1>3, <2>2
  <1>5. SleepInv'
    <2> SUFFICES ASSUME NEW i \in 1 .. n - 1
                 PROVE  \E ms \in SleepTimes : ms > 0 /\ Remaining(i)' \in 0 .. ticks(ms) - 1
      BY <1>1, <1>3 DEF SleepInv
    <2>1. Remaining(i)' = Remaining(i + 1) /\ i + 1 \in DOMAIN timers
      BY <1>1, <1>2, <1>3 DEF Remaining
    <2> QED
      BY <1>1, <2>1 DEF TimerInv, SleepInv
  <1> QED
    BY <1>4, <1>5 DEF TimerInv

(* The loop stops at a task that has not expired: because the list is      *)
(* sorted, none behind it has expired either.                              *)
LEMMA TimerDoneTimer ==
    ASSUME IInv, TimerInv, TimerDone
    PROVE  TimerInv'
  <1>1. pc = "timer" /\ pc' = "resume" /\ ~HeadExpired /\ UNCHANGED clockVars
    BY DEF TimerDone
  <1>2. /\ DOMAIN timers = 1 .. Len(timers) /\ Len(timers) \in Nat
        /\ timers \in Seq(TimerEvent)
        /\ clock_ticks \in 0 .. WORD - 1
        /\ \A i \in 1 .. Len(timers) : timers[i].timer_expire \in 0 .. WORD - 1
    BY TimerTypes
  <1>3. ASSUME NEW i \in DOMAIN timers
        PROVE  \E ms \in SleepTimes : ms > 0 /\ Remaining(i) \in 1 .. ticks(ms)
    <2>1. timers # <<>> /\ Head(timers) = timers[1] /\ 1 \in DOMAIN timers
      BY <1>2, <1>3
    <2>2. timers[1].timer_expire > clock_ticks
      BY <1>1, <1>2, <2>1 DEF HeadExpired
    <2>3. timers[1].timer_expire <= timers[i].timer_expire
      BY <1>2, <1>3, <2>1 DEF TimerInv, TimersSorted
    <2>4. timers[i].timer_expire > clock_ticks
      BY <1>2, <1>3, <2>1, <2>2, <2>3
    <2>5. Remaining(i) = timers[i].timer_expire - clock_ticks
      BY <1>2, <1>3, <2>4, RemainingValue DEF Remaining
    <2>6. Remaining(i) \in Int /\ Remaining(i) >= 1
      BY <1>2, <1>3, <2>4, <2>5
    <2>7. PICK ms \in SleepTimes : ms > 0 /\ Remaining(i) \in 0 .. ticks(ms) - 1
      BY <1>1, <1>3 DEF TimerInv, SleepInv
    <2>8. ticks(ms) \in Int
      BY <2>7, TicksPositive
    <2> QED
      BY <2>6, <2>7, <2>8
  <1>4. TimersSorted' /\ SleepInv'
    BY <1>1, <1>3 DEF TimerInv, TimersSorted, SleepInv, Remaining, clockVars
  <1> QED
    BY <1>4 DEF TimerInv

LEMMA TimerNext ==
    ASSUME IInv, TimerInv, [Next]_vars
    PROVE  TimerInv'
  <1>1. CASE Boot
    BY <1>1, OtherStep DEF Boot, CreateTask, StartTask, BootDone, clockVars
  <1>2. CASE KernelCall
    <2>1. CASE \E ms \in SleepTimes : SleepCall(ms)
      BY <2>1, SleepCallTimer
    <2>2. CASE ~\E ms \in SleepTimes : SleepCall(ms)
      BY <1>2, <2>2, OtherStep DEF KernelCall, PreemptCall, GetPidCall, SendCall, ReceiveCall,
           UnknownCall, Caller, Return
    <2> QED
      BY <2>1, <2>2
  <1>3. CASE UseMessage
    BY <1>3, OtherStep DEF UseMessage
  <1>4. CASE TimerTick
    BY <1>4, TimerTickTimer
  <1>5. CASE WakeExpired
    BY <1>5, WakeExpiredTimer
  <1>6. CASE TimerDone
    BY <1>6, TimerDoneTimer
  <1>7. CASE Resume
    BY <1>7, OtherStep DEF Resume
  <1>8. CASE UNCHANGED vars
    BY <1>8, OtherStep DEF vars
  <1> QED
    BY <1>1, <1>2, <1>3, <1>4, <1>5, <1>6, <1>7, <1>8 DEF Next, InKernel

LEMMA TimerInit == Init => TimerInv
  BY DEF Init, clock_setup, TimerInv, TimersSorted, SleepInv

LEMMA TimerInvariance == Spec => []TimerInv
  <1>1. IInv /\ TimerInv /\ [Next]_vars => TimerInv'
    BY TimerNext
  <1> QED
    BY <1>1, TimerInit, Invariance, PTL DEF Spec

(* sleep_ms keeps the timer list sorted by timer_expire.                   *)
THEOREM TimersStaySorted == Spec => []TimersSorted
  <1>1. TimerInv => TimersSorted
    BY DEF TimerInv
  <1> QED
    BY <1>1, TimerInvariance, PTL

(* Whenever a task runs, every sleeping task has at least one tick to wait *)
(* and at most those it asked for, also when the clock wraps meanwhile.    *)
THEOREM NoOversleeping == Spec => []NeverOversleeps
  <1>1. TimerInv => NeverOversleeps
    BY DEF TimerInv, SleepInv, NeverOversleeps
  <1> QED
    BY <1>1, TimerInvariance, PTL

---------------------------------------------------------------------------
(***************************************************************************)
(* The kernel implements the atomic mailbox of module Mailbox. The         *)
(* refinement mapping Box, Want, Inbox is defined in module Kernel.        *)
(***************************************************************************)

(* The message of a task that waits to send carries its pid: nothing       *)
(* overwrites the copy in the sender's table entry.                        *)
BufferInv ==
    \A t \in Tasks : "SENDING" \in message_flags[t] => message_buffer[t].pid = t

(* A task in a table slot is its own pid, and no pid is a wildcard.        *)
LEMMA OwnPid ==
    ASSUME IInv
    PROVE  /\ \A t \in Created : t \in Tasks /\ pid[t] = t
           /\ \A t \in Tasks : t \in Int /\ t \notin {PID_NO_TASK, PID_ALL_TASKS}
  BY TaskAssumption DEF IInv, TableInv, Created, Tasks, PID_NO_TASK, PID_ALL_TASKS

(* The messages in the boxes are those of the waiting senders.             *)
LEMMA BoxEntries ==
    ASSUME IInv, BufferInv, NEW d \in Tasks
    PROVE  /\ message_q[d] \in Seq(Tasks)
           /\ DOMAIN Box[d] = DOMAIN message_q[d]
           /\ \A i \in DOMAIN message_q[d] :
                 /\ message_q[d][i] \in Tasks
                 /\ Sending(message_q[d][i])
                 /\ "SENDING" \in message_flags[message_q[d][i]]
                 /\ Box[d][i] = message_buffer[message_q[d][i]]
                 /\ Box[d][i].pid = message_q[d][i]
                 /\ pid[message_q[d][i]] = message_q[d][i]
  <1>1. message_q[d] \in Seq(Tasks)
    BY DEF IInv, TypeOK, MessageTypeOK
  <1>2. Box[d] = [i \in DOMAIN message_q[d] |-> message_buffer[message_q[d][i]]]
    BY DEF Box
  <1>3. ASSUME NEW i \in DOMAIN message_q[d]
        PROVE  /\ message_q[d][i] \in Tasks
               /\ Sending(message_q[d][i])
               /\ "SENDING" \in message_flags[message_q[d][i]]
               /\ message_q[d][i] \in Created
    <2>1. message_q[d][i] \in Tasks /\ Contains(message_q[d], message_q[d][i])
      BY <1>1 DEF Contains
    <2>2. Sending(message_q[d][i])
      BY <2>1 DEF Sending
    <2>3. Placed(message_q[d][i])
      BY <2>2 DEF Placed
    <2> QED
      BY <2>1, <2>2, <2>3, SendingFlag DEF IInv, LinkedOnce, OnePlace
  <1> QED
    BY <1>1, <1>2, <1>3, OwnPid DEF BufferInv

(* Steps that change neither the lists nor the message of a waiting sender *)
(* leave the boxes alone.                                                  *)
LEMMA BoxKept ==
    ASSUME IInv, BufferInv, message_q' = message_q,
           \A t \in Tasks : "SENDING" \in message_flags[t] =>
                               message_buffer'[t] = message_buffer[t]
    PROVE  Box' = Box
  <1>1. ASSUME NEW d \in Tasks, NEW i \in DOMAIN message_q[d]
        PROVE  message_buffer'[message_q'[d][i]] = message_buffer[message_q[d][i]]
    BY <1>1, BoxEntries
  <1> QED
    BY <1>1 DEF Box

(* A task that makes a call has no message anywhere.                       *)
LEMMA CallerFree ==
    ASSUME IInv, BufferInv, Caller
    PROVE  /\ MB!Free(current_task)
           /\ current_task \in Tasks
           /\ pid[current_task] = current_task
           /\ Inbox[current_task] = mess[current_task]
           /\ message_flags[current_task] = {}
  <1> DEFINE c == current_task
  <1>1. c \in Tasks /\ c \in Created /\ ~Sending(c) /\ ~Receiving(c) /\ message_flags[c] = {}
    BY CallerFacts DEF Caller
  <1>2. Want[c] = PID_NO_TASK /\ Inbox[c] = mess[c] /\ mess[c] = ZeroMessage
    BY <1>1 DEF Want, Inbox, Caller
  <1>3. ASSUME NEW d \in Tasks, NEW i \in DOMAIN Box[d]
        PROVE  Box[d][i].pid # c
    BY <1>1, BoxEntries
  <1> QED
    BY <1>1, <1>2, <1>3, OwnPid DEF MB!Free

(* A step that the tasks do not see.                                       *)
LEMMA Unseen ==
    ASSUME IInv, BufferInv, message_q' = message_q,
           UNCHANGED <<message_buffer, message_flags, message_rec_pid, mess>>
    PROVE  UNCHANGED MB!vars /\ BufferInv'
  <1>1. Box' = Box
    BY BoxKept
  <1>2. Want' = Want /\ Inbox' = Inbox
    BY DEF Want, Inbox, Receiving
  <1> QED
    BY <1>1, <1>2 DEF MB!vars, BufferInv

---------------------------------------------------------------------------
(* message_send to a task that waits for the message gives it to that task *)
(* at once, as the tasks see it.                                           *)
LEMMA HandOverSends ==
    ASSUME IInv, BufferInv, Caller, NEW dest \in Tasks, NEW num \in Numbers,
           NEW m, m = [pid |-> pid[current_task], num |-> num],
           Awaits(dest, current_task), HandOver(current_task, dest, m)
    PROVE  MB!Send(current_task, dest, [pid |-> current_task, num |-> num]) /\ BufferInv'
  <1> DEFINE c == current_task
  <1>1. /\ MB!Free(c) /\ c \in Tasks /\ pid[c] = c /\ m = [pid |-> c, num |-> num] /\ m.pid = c
    BY CallerFree
  <1>2. /\ message_buffer \in [Tasks -> MessageType]
        /\ message_flags \in [Tasks -> SUBSET MessageFlags]
        /\ "RECEIVING" \in message_flags[dest]
    BY DEF IInv, TypeOK, MessageTypeOK, Awaits
  <1>3. /\ message_buffer' = [message_buffer EXCEPT ![dest] = m]
        /\ message_flags' = [message_flags EXCEPT ![dest] = (@ \ {"RECEIVING"}) \cup {"DELIVERING"}]
        /\ UNCHANGED <<message_rec_pid, message_q, mess>>
    BY DEF HandOver
  <1>4. "SENDING" \notin message_flags[dest]
    <2>1. ~Sending(dest)
      BY <1>2 DEF IInv, OnePlace, Receiving
    <2> QED
      BY <2>1, SendingFlag DEF IInv, LinkedOnce
  <1>5. Box' = Box
    BY <1>2, <1>3, <1>4, BoxKept
  <1>6. \A d \in Tasks : /\ message_buffer'[d] = IF d = dest THEN m ELSE message_buffer[d]
                         /\ d # dest => message_flags'[d] = message_flags[d]
    BY <1>2, <1>3
  <1>7. /\ "DELIVERING" \in message_flags'[dest] /\ "RECEIVING" \notin message_flags'[dest]
        /\ "SENDING" \notin message_flags'[dest]
    BY <1>2, <1>3, <1>4
  <1>8. Want' = [Want EXCEPT ![dest] = PID_NO_TASK]
    BY <1>3, <1>6, <1>7 DEF Want, Receiving
  <1>9. Inbox' = [Inbox EXCEPT ![dest] = m]
    BY <1>3, <1>6, <1>7 DEF Inbox
  <1>10. MB!Fits(Want[dest], m)
    BY <1>1, <1>2 DEF Want, Receiving, Awaits, MB!Fits
  <1>11. BufferInv'
    BY <1>6, <1>7 DEF BufferInv
  <1> QED
    BY <1>1, <1>5, <1>8, <1>9, <1>10, <1>11 DEF MB!Send

(* Otherwise the message goes to the end of the destination's box.         *)
LEMMA ParkSends ==
    ASSUME IInv, BufferInv, Caller, NEW dest \in Tasks, NEW num \in Numbers,
           NEW m, m = [pid |-> pid[current_task], num |-> num],
           ~Awaits(dest, current_task), Park(current_task, dest, m)
    PROVE  MB!Send(current_task, dest, [pid |-> current_task, num |-> num]) /\ BufferInv'
  <1> DEFINE c == current_task
             q == message_q[dest]
  <1>1. /\ MB!Free(c) /\ c \in Tasks /\ pid[c] = c /\ m = [pid |-> c, num |-> num] /\ m.pid = c
        /\ message_flags[c] = {}
    BY CallerFree
  <1>2. /\ message_buffer \in [Tasks -> MessageType]
        /\ message_flags \in [Tasks -> SUBSET MessageFlags]
        /\ message_q \in [Tasks -> Seq(Tasks)]
    BY DEF IInv, TypeOK, MessageTypeOK
  <1>3. /\ message_buffer' = [message_buffer EXCEPT ![c] = m]
        /\ message_flags' = [message_flags EXCEPT ![c] = @ \cup {"SENDING"}]
        /\ message_q' = [message_q EXCEPT ![dest] = Append(q, c)]
        /\ UNCHANGED <<message_rec_pid, mess>>
    BY DEF Park
  <1>4. \A d \in Tasks : /\ message_buffer'[d] = IF d = c THEN m ELSE message_buffer[d]
                         /\ d # c => message_flags'[d] = message_flags[d]
                         /\ d # dest => message_q'[d] = message_q[d]
    BY <1>1, <1>2, <1>3
  <1>5. message_flags'[c] = {"SENDING"}
    BY <1>1, <1>2, <1>3
  <1>6. Want' = Want
    BY <1>1, <1>3, <1>4, <1>5 DEF Want, Receiving
  <1>7. Inbox' = Inbox
    <2> SUFFICES ASSUME NEW d \in Tasks
                 PROVE  (IF "DELIVERING" \in message_flags'[d] THEN message_buffer'[d] ELSE mess'[d])
                        = (IF "DELIVERING" \in message_flags[d] THEN message_buffer[d] ELSE mess[d])
      BY DEF Inbox
    <2> QED
      BY <1>1, <1>3, <1>4, <1>5
  <1>8. \A d \in Tasks : \A i \in DOMAIN message_q[d] :
           message_q[d][i] \in Tasks /\ message_q[d][i] # c
    BY <1>1, BoxEntries
  <1>9. ASSUME NEW d \in Tasks, d # dest
        PROVE  Box'[d] = Box[d]
    BY <1>4, <1>8, <1>9 DEF Box
  <1>10. Box'[dest] = Append(Box[dest], m)
    <2>1. /\ q \in Seq(Tasks) /\ Len(q) \in Nat /\ DOMAIN q = 1 .. Len(q)
          /\ message_q'[dest] = Append(q, c)
          /\ DOMAIN Append(q, c) = 1 .. Len(q) + 1
          /\ Append(q, c)[Len(q) + 1] = c
          /\ \A i \in 1 .. Len(q) : Append(q, c)[i] = q[i]
      BY <1>1, <1>2, <1>3
    <2>2. Box'[dest] = [i \in 1 .. Len(q) + 1 |-> message_buffer'[Append(q, c)[i]]]
      BY <2>1 DEF Box
    <2>3. Box[dest] = [i \in 1 .. Len(q) |-> message_buffer[q[i]]]
      BY <2>1 DEF Box
    <2>4. Box[dest] \in Seq(MessageType) /\ Len(Box[dest]) = Len(q)
      <3>1. \A i \in 1 .. Len(q) : message_buffer[q[i]] \in MessageType
        BY <1>2, <2>1
      <3> QED
        BY <2>1, <2>3, <3>1
    <2>5. Append(Box[dest], m) = [i \in 1 .. Len(q) + 1 |->
                                     IF i = Len(q) + 1 THEN m ELSE Box[dest][i]]
      BY <2>1, <2>3, <2>4
    <2>6. ASSUME NEW i \in 1 .. Len(q) + 1
          PROVE  message_buffer'[Append(q, c)[i]] = IF i = Len(q) + 1 THEN m ELSE Box[dest][i]
      <3>1. CASE i = Len(q) + 1
        BY <1>1, <1>4, <2>1, <3>1
      <3>2. CASE i # Len(q) + 1
        <4>1. i \in 1 .. Len(q)
          BY <2>1, <3>2
        <4> QED
          BY <1>4, <1>8, <2>1, <2>3, <3>2, <4>1
      <3> QED
        BY <3>1, <3>2
    <2> QED
      BY <2>2, <2>5, <2>6
  <1>11. Box' = [Box EXCEPT ![dest] = Append(@, m)]
    BY <1>9, <1>10 DEF Box
  <1>12. ~MB!Fits(Want[dest], m)
    <2>1. CASE Receiving(dest)
      BY <1>1, <2>1, Zenon DEF Want, Receiving, Awaits, MB!Fits
    <2>2. CASE ~Receiving(dest)
      <3>1. Want[dest] = PID_NO_TASK
        BY <2>2 DEF Want
      <3>2. PID_NO_TASK \notin {PID_ALL_TASKS, c}
        BY <1>1, OwnPid DEF PID_NO_TASK, PID_ALL_TASKS
      <3> QED
        BY <1>1, <3>1, <3>2, Zenon DEF MB!Fits
    <2> QED
      BY <2>1, <2>2
  <1>13. BufferInv'
    BY <1>1, <1>4 DEF BufferInv
  <1> QED
    BY <1>1, <1>6, <1>7, <1>11, <1>12, <1>13 DEF MB!Send

LEMMA SendCallSends ==
    ASSUME IInv, BufferInv, NEW dest_pid \in DestPids, NEW num \in Numbers,
           SendCall(dest_pid, num)
    PROVE  [MB!Next]_MB!vars /\ BufferInv'
  <1> DEFINE m == [pid |-> pid[current_task], num |-> num]
  <1>1. Caller /\ \E result \in {0, -1} : message_send(current_task, dest_pid, m, result)
    BY DEF SendCall
  <1>2. CASE UNCHANGED messageVars
    BY <1>2, Unseen DEF messageVars
  <1>3. ASSUME NEW dest \in Tasks,
               \/ Awaits(dest, current_task) /\ HandOver(current_task, dest, m)
               \/ ~Awaits(dest, current_task) /\ Park(current_task, dest, m)
        PROVE  [MB!Next]_MB!vars /\ BufferInv'
    <2>1. MB!Send(current_task, dest, [pid |-> current_task, num |-> num]) /\ BufferInv'
      BY <1>1, <1>3, HandOverSends, ParkSends
    <2>2. current_task \in Tasks
      BY <1>1, CallerFree
    <2> QED
      BY <2>1, <2>2 DEF MB!Next
  <1> QED
    BY <1>1, <1>2, <1>3 DEF message_send

---------------------------------------------------------------------------
(* The senders message_receive looks for are those whose message fits.     *)
LEMMA WantedFits ==
    ASSUME IInv, BufferInv, NEW d \in Tasks, NEW origin_pid, NEW i \in DOMAIN message_q[d]
    PROVE  Wanted(d, origin_pid, i) <=> MB!Fits(origin_pid, Box[d][i])
  <1>1. Box[d][i].pid = pid[message_q[d][i]]
    BY BoxEntries
  <1> QED
    BY <1>1 DEF Wanted, MB!Fits

(* message_receive takes the oldest message that fits.                     *)
LEMMA TakeFromReceives ==
    ASSUME IInv, BufferInv, Caller, NEW origin_pid,
           NEW i \in DOMAIN message_q[current_task],
           Wanted(current_task, origin_pid, i),
           \A j \in 1 .. i - 1 : ~Wanted(current_task, origin_pid, j),
           TakeFrom(current_task, i)
    PROVE  MB!Receive(current_task, origin_pid) /\ BufferInv'
  <1> DEFINE c == current_task
             q == message_q[c]
             sender == q[i]
             r == RemoveAt(q, i)
  <1>1. /\ MB!Free(c) /\ c \in Tasks /\ message_flags[c] = {}
    BY CallerFree
  <1>2. /\ message_buffer \in [Tasks -> MessageType]
        /\ message_flags \in [Tasks -> SUBSET MessageFlags]
        /\ message_q \in [Tasks -> Seq(Tasks)]
        /\ mess \in [Tasks -> MessageType]
    BY DEF IInv, TypeOK, MessageTypeOK
  <1>3. /\ q \in Seq(Tasks) /\ DOMAIN q = 1 .. Len(q) /\ Len(q) \in Nat /\ i \in 1 .. Len(q)
        /\ sender \in Tasks /\ "SENDING" \in message_flags[sender]
    BY <1>1, <1>2, BoxEntries
  <1>4. /\ mess' = [mess EXCEPT ![c] = message_buffer[sender]]
        /\ message_q' = [message_q EXCEPT ![c] = r]
        /\ message_flags' = [message_flags EXCEPT ![sender] = @ \ {"SENDING"}]
        /\ UNCHANGED <<message_buffer, message_rec_pid>>
    BY DEF TakeFrom
  <1>5. sender # c
    BY <1>1, <1>3
  <1>6. \A d \in Tasks : /\ d # c => message_q'[d] = message_q[d]
                         /\ mess'[d] = IF d = c THEN message_buffer[sender] ELSE mess[d]
                         /\ message_flags'[d] = IF d = sender THEN message_flags[d] \ {"SENDING"}
                                                ELSE message_flags[d]
    BY <1>1, <1>2, <1>3, <1>4
  <1>7. /\ Box[c] = [j \in 1 .. Len(q) |-> message_buffer[q[j]]]
        /\ Box[c] \in Seq(MessageType) /\ Len(Box[c]) = Len(q)
        /\ Box[c][i] = message_buffer[sender]
    <2>1. Box[c] = [j \in 1 .. Len(q) |-> message_buffer[q[j]]]
      BY <1>1, <1>3 DEF Box
    <2>2. \A j \in 1 .. Len(q) : message_buffer[q[j]] \in MessageType
      BY <1>2, <1>3
    <2> QED
      BY <1>3, <2>1, <2>2
  <1>8. Want' = Want
    BY <1>4, <1>6 DEF Want, Receiving
  <1>9. Inbox' = [Inbox EXCEPT ![c] = Box[c][i]]
    <2>1. \A d \in Tasks : "DELIVERING" \in message_flags'[d] <=> "DELIVERING" \in message_flags[d]
      BY <1>6
    <2>2. \A d \in Tasks : Inbox'[d] = IF d = c THEN message_buffer[sender] ELSE Inbox[d]
      BY <1>1, <1>4, <1>6, <2>1 DEF Inbox
    <2> DEFINE b == message_buffer[sender]
    <2>3. b = Box[c][i] /\ \A d \in Tasks : Inbox'[d] = IF d = c THEN b ELSE Inbox[d]
      BY <1>7, <2>2
    <2> HIDE DEF b
    <2> QED
      BY <2>3 DEF Inbox
  <1>10. Box'[c] = RemoveAt(Box[c], i)
    <2>1. /\ r \in Seq(Tasks) /\ Len(r) = Len(q) - 1
          /\ \A j \in 1 .. Len(q) - 1 : r[j] = IF j < i THEN q[j] ELSE q[j + 1]
      BY <1>3, RemoveAtElements
    <2>2. /\ RemoveAt(Box[c], i) \in Seq(MessageType)
          /\ Len(RemoveAt(Box[c], i)) = Len(q) - 1
          /\ \A j \in 1 .. Len(q) - 1 :
                RemoveAt(Box[c], i)[j] = IF j < i THEN Box[c][j] ELSE Box[c][j + 1]
      <3>1. Box[c] \in Seq(MessageType) /\ i \in 1 .. Len(Box[c]) /\ Len(Box[c]) = Len(q)
        BY <1>3, <1>7
      <3> HIDE DEF MessageType
      <3> QED
        BY <3>1, RemoveAtElements
    <2>3. Box'[c] = [j \in 1 .. Len(q) - 1 |-> message_buffer[r[j]]]
      <3>1. message_q'[c] = r /\ DOMAIN r = 1 .. Len(q) - 1
        BY <1>1, <1>2, <1>4, <2>1
      <3> QED
        BY <1>1, <1>4, <3>1 DEF Box
    <2>4. ASSUME NEW j \in 1 .. Len(q) - 1
          PROVE  message_buffer[r[j]] = RemoveAt(Box[c], i)[j]
      <3>1. CASE j < i
        <4>1. j \in 1 .. Len(q)
          BY <1>3
        <4>2. r[j] = q[j] /\ RemoveAt(Box[c], i)[j] = Box[c][j]
          BY <2>1, <2>2, <3>1
        <4>3. Box[c][j] = message_buffer[q[j]]
          BY <1>7, <4>1
        <4> QED
          BY <4>2, <4>3
      <3>2. CASE ~(j < i)
        <4>1. j + 1 \in 1 .. Len(q)
          BY <1>3
        <4>2. r[j] = q[j + 1] /\ RemoveAt(Box[c], i)[j] = Box[c][j + 1]
          BY <2>1, <2>2, <3>2
        <4>3. Box[c][j + 1] = message_buffer[q[j + 1]]
          BY <1>7, <4>1
        <4> QED
          BY <4>2, <4>3
      <3> QED
        BY <3>1, <3>2
    <2>5. RemoveAt(Box[c], i) = [j \in 1 .. Len(q) - 1 |-> RemoveAt(Box[c], i)[j]]
      <3> DEFINE b == RemoveAt(Box[c], i)
      <3>1. b \in Seq(MessageType) /\ Len(b) = Len(q) - 1
        BY <2>2
      <3> HIDE DEF b, MessageType
      <3>2. b = [j \in 1 .. Len(q) - 1 |-> b[j]]
        BY <3>1
      <3> QED
        BY <3>2 DEF b
    <2> QED
      BY <2>3, <2>4, <2>5
  <1>11. ASSUME NEW d \in Tasks, d # c
         PROVE  Box'[d] = Box[d]
    BY <1>4, <1>6, <1>11 DEF Box
  <1>12. Box' = [Box EXCEPT ![c] = MB!RemoveAt(@, i)]
    <2>1. RemoveAt(Box[c], i) = MB!RemoveAt(Box[c], i)
      BY DEF RemoveAt, MB!RemoveAt
    <2> QED
      BY <1>10, <1>11, <2>1 DEF Box
  <1>13. /\ MB!Fits(origin_pid, Box[c][i])
         /\ \A j \in 1 .. i - 1 : ~MB!Fits(origin_pid, Box[c][j])
    <2>1. \A j \in 1 .. i - 1 : j \in DOMAIN q
      BY <1>3
    <2> QED
      BY <1>1, <2>1, WantedFits
  <1>14. BufferInv'
    BY <1>4, <1>6 DEF BufferInv
  <1>15. i \in DOMAIN Box[c]
    BY <1>1, BoxEntries
  <1>16. \E k \in DOMAIN Box[c] :
            /\ MB!Fits(origin_pid, Box[c][k])
            /\ \A j \in 1 .. k - 1 : ~MB!Fits(origin_pid, Box[c][j])
            /\ Inbox' = [Inbox EXCEPT ![c] = Box[c][k]]
            /\ Box' = [Box EXCEPT ![c] = MB!RemoveAt(@, k)]
            /\ UNCHANGED Want
    BY <1>8, <1>9, <1>12, <1>13, <1>15, Zenon
  <1>17. MB!Receive(c, origin_pid)
    BY <1>1, <1>16, Zenon DEF MB!Receive
  <1> QED
    BY <1>14, <1>17

(* Otherwise it waits for one.                                             *)
LEMMA AwaitReceives ==
    ASSUME IInv, BufferInv, Caller, NEW origin_pid,
           \A i \in DOMAIN message_q[current_task] : ~Wanted(current_task, origin_pid, i),
           AwaitMessage(current_task, origin_pid)
    PROVE  MB!Receive(current_task, origin_pid) /\ BufferInv'
  <1> DEFINE c == current_task
  <1>1. /\ MB!Free(c) /\ c \in Tasks /\ message_flags[c] = {}
    BY CallerFree
  <1>2. /\ message_flags \in [Tasks -> SUBSET MessageFlags]
        /\ message_rec_pid \in [Tasks -> {PID_NO_TASK, PID_ALL_TASKS} \cup Int]
    BY DEF IInv, TypeOK, MessageTypeOK
  <1>3. /\ message_rec_pid' = [message_rec_pid EXCEPT ![c] = origin_pid]
        /\ message_flags' = [message_flags EXCEPT ![c] = @ \cup {"RECEIVING"}]
        /\ UNCHANGED <<message_buffer, message_q, mess>>
    BY DEF AwaitMessage
  <1>4. /\ message_flags'[c] = {"RECEIVING"} /\ message_rec_pid'[c] = origin_pid
        /\ \A d \in Tasks : d # c => /\ message_flags'[d] = message_flags[d]
                                     /\ message_rec_pid'[d] = message_rec_pid[d]
    BY <1>1, <1>2, <1>3
  <1>5. Box' = Box
    BY <1>3, BoxKept
  <1>6. Inbox' = Inbox
    <2> SUFFICES ASSUME NEW d \in Tasks
                 PROVE  "DELIVERING" \in message_flags'[d] <=> "DELIVERING" \in message_flags[d]
      BY <1>3 DEF Inbox
    <2> QED
      BY <1>1, <1>4
  <1>7. Want' = [Want EXCEPT ![c] = origin_pid]
    BY <1>1, <1>4 DEF Want, Receiving
  <1>8. \A i \in DOMAIN Box[c] : ~MB!Fits(origin_pid, Box[c][i])
    BY <1>1, BoxEntries, WantedFits
  <1>9. BufferInv'
    BY <1>3, <1>4 DEF BufferInv
  <1> QED
    BY <1>1, <1>5, <1>6, <1>7, <1>8, <1>9 DEF MB!Receive

LEMMA ReceiveCallReceives ==
    ASSUME IInv, BufferInv, NEW origin_pid \in OriginPids, ReceiveCall(origin_pid)
    PROVE  [MB!Next]_MB!vars /\ BufferInv'
  <1>1. Caller /\ \E result \in {0, -1} : message_receive(current_task, origin_pid, result)
    BY DEF ReceiveCall
  <1>2. CASE UNCHANGED messageVars
    BY <1>2, Unseen DEF messageVars
  <1>3. CASE ~UNCHANGED messageVars
    <2>1. origin_pid \in OriginPids \ {PID_NO_TASK}
      BY <1>1, <1>3 DEF message_receive
    <2>2. MB!Receive(current_task, origin_pid) /\ BufferInv'
      BY <1>1, <1>3, TakeFromReceives, AwaitReceives DEF message_receive
    <2>3. current_task \in Tasks
      BY <1>1, CallerFree
    <2> QED
      BY <2>1, <2>2, <2>3 DEF MB!Next
  <1> QED
    BY <1>2, <1>3

---------------------------------------------------------------------------
LEMMA UseMessageUses ==
    ASSUME IInv, BufferInv, UseMessage
    PROVE  [MB!Next]_MB!vars /\ BufferInv'
  <1> DEFINE c == current_task
  <1>1. /\ pc = "task" /\ mess[c] # ZeroMessage
        /\ mess' = [mess EXCEPT ![c] = ZeroMessage]
        /\ UNCHANGED <<message_buffer, message_flags, message_rec_pid, message_q>>
    BY DEF UseMessage
  <1>2. /\ c \in Tasks /\ message_flags[c] = {}
        /\ mess \in [Tasks -> MessageType]
    BY <1>1 DEF IInv, DecisionInv, Created, DeliveryPending, TypeOK, MessageTypeOK
  <1>3. Box' = Box /\ Want' = Want
    BY <1>1, BoxKept DEF Want, Receiving
  <1>4. Inbox[c] = mess[c] /\ Inbox' = [Inbox EXCEPT ![c] = ZeroMessage]
    BY <1>1, <1>2 DEF Inbox
  <1>5. MB!Use(c)
    BY <1>1, <1>3, <1>4 DEF MB!Use
  <1> QED
    BY <1>1, <1>2, <1>5 DEF MB!Next, BufferInv

(* message_deliver copies the message from the table entry of the receiver *)
(* to its own buffer, which is the same to the tasks.                      *)
LEMMA ResumeUnseen ==
    ASSUME IInv, BufferInv, Resume
    PROVE  UNCHANGED MB!vars /\ BufferInv'
  <1>1. PICK tsk \in Tasks : after_context_switch(tsk)
    BY DEF Resume
  <1>2. CASE UNCHANGED messageVars
    BY <1>2, Unseen DEF messageVars
  <1>3. CASE message_deliver(tsk)
    <2>1. /\ "DELIVERING" \in message_flags[tsk]
          /\ mess' = [mess EXCEPT ![tsk] = message_buffer[tsk]]
          /\ message_buffer' = [message_buffer EXCEPT ![tsk] = ZeroMessage]
          /\ message_flags' = [message_flags EXCEPT ![tsk] = @ \ {"DELIVERING"}]
          /\ message_rec_pid' = [message_rec_pid EXCEPT ![tsk] = PID_NO_TASK]
          /\ UNCHANGED message_q
      BY <1>3 DEF message_deliver
    <2>2. /\ message_buffer \in [Tasks -> MessageType]
          /\ message_flags \in [Tasks -> SUBSET MessageFlags]
          /\ message_rec_pid \in [Tasks -> {PID_NO_TASK, PID_ALL_TASKS} \cup Int]
          /\ mess \in [Tasks -> MessageType]
      BY DEF IInv, TypeOK, MessageTypeOK
    <2>3. "SENDING" \notin message_flags[tsk] /\ ~Receiving(tsk)
      <3>1. InQueue(tsk)
        BY <2>1 DEF IInv, DeliveryPending
      <3>2. ~Sending(tsk) /\ ~Receiving(tsk)
        BY <3>1 DEF IInv, OnePlace
      <3> QED
        BY <3>2, SendingFlag DEF IInv, LinkedOnce
    <2>4. \A d \in Tasks : d # tsk =>
             /\ mess'[d] = mess[d] /\ message_buffer'[d] = message_buffer[d]
             /\ message_flags'[d] = message_flags[d] /\ message_rec_pid'[d] = message_rec_pid[d]
      BY <2>1, <2>2
    <2>5. /\ mess'[tsk] = message_buffer[tsk]
          /\ message_flags'[tsk] = message_flags[tsk] \ {"DELIVERING"}
      BY <2>1, <2>2
    <2>6. Box' = Box
      BY <2>1, <2>3, <2>4, BoxKept
    <2>7. Want' = Want
      BY <2>3, <2>4, <2>5 DEF Want, Receiving
    <2>8. Inbox' = Inbox
      BY <2>1, <2>4, <2>5 DEF Inbox
    <2>9. BufferInv'
      BY <2>3, <2>4, <2>5 DEF BufferInv
    <2> QED
      BY <2>6, <2>7, <2>8, <2>9 DEF MB!vars
  <1> QED
    BY <1>1, <1>2, <1>3 DEF after_context_switch

(* create_kernel_task clears message fields that are clear.                *)
LEMMA CreateUnseen ==
    ASSUME IInv, BufferInv, NEW tsk \in Tasks, NEW kind \in TaskKinds, CreateTask(tsk, kind)
    PROVE  UNCHANGED MB!vars /\ BufferInv'
  <1>1. /\ pc = "boot" /\ \A t \in Tasks : message_flags[t] = {}
    BY DEF CreateTask, IInv, BootInv
  <1>2. /\ message_buffer \in [Tasks -> MessageType]
        /\ message_flags \in [Tasks -> SUBSET MessageFlags]
        /\ message_q \in [Tasks -> Seq(Tasks)]
    BY DEF IInv, TypeOK, MessageTypeOK
  <1>3. \A d \in Tasks : message_q[d] = <<>>
    <2> SUFFICES ASSUME NEW d \in Tasks, message_q[d] # <<>>
                 PROVE  FALSE
      OBVIOUS
    <2>1. 1 \in DOMAIN message_q[d]
      BY <1>2
    <2>2. message_q[d][1] \in Tasks /\ "SENDING" \in message_flags[message_q[d][1]]
      BY <2>1, BoxEntries
    <2> QED
      BY <1>1, <2>2
  <1>4. /\ message_q' = [message_q EXCEPT ![tsk] = <<>>]
        /\ message_flags' = [message_flags EXCEPT ![tsk] = {}]
        /\ message_buffer' = [message_buffer EXCEPT ![tsk] = ZeroMessage]
        /\ UNCHANGED mess
    BY DEF CreateTask, message_reset
  <1>5. message_q' = message_q /\ \A d \in Tasks : message_flags'[d] = {}
    BY <1>1, <1>2, <1>3, <1>4
  <1>6. Box' = Box
    BY <1>1, <1>5, BoxKept
  <1>7. Want' = Want
    BY <1>1, <1>5 DEF Want, Receiving
  <1>8. Inbox' = Inbox
    BY <1>1, <1>4, <1>5 DEF Inbox
  <1>9. BufferInv'
    BY <1>5 DEF BufferInv
  <1> QED
    BY <1>6, <1>7, <1>8, <1>9 DEF MB!vars

---------------------------------------------------------------------------
LEMMA RefinedStep ==
    ASSUME IInv, BufferInv, [Next]_vars
    PROVE  [MB!Next]_MB!vars /\ BufferInv'
  <1>1. CASE UNCHANGED messageVars
    BY <1>1, Unseen DEF messageVars
  <1>2. CASE Boot
    <2>1. ASSUME NEW tsk \in Tasks, NEW kind \in TaskKinds, CreateTask(tsk, kind)
          PROVE  [MB!Next]_MB!vars /\ BufferInv'
      BY <2>1, CreateUnseen
    <2> QED
      BY <1>1, <1>2, <2>1 DEF Boot, StartTask, BootDone
  <1>3. CASE KernelCall
    BY <1>1, <1>3, SendCallSends, ReceiveCallReceives
       DEF KernelCall, SleepCall, PreemptCall, GetPidCall, UnknownCall
  <1>4. CASE UseMessage
    BY <1>4, UseMessageUses
  <1>5. CASE TimerTick
    BY <1>1, <1>5 DEF TimerTick
  <1>6. CASE InKernel
    <2>1. CASE Resume
      BY <2>1, ResumeUnseen
    <2> QED
      BY <1>1, <1>6, <2>1 DEF InKernel, WakeExpired, TimerDone
  <1>7. CASE UNCHANGED vars
    BY <1>1, <1>7 DEF vars
  <1> QED
    BY <1>2, <1>3, <1>4, <1>5, <1>6, <1>7 DEF Next

LEMMA RefinedInit == Init => MB!Init /\ BufferInv
  <1> SUFFICES ASSUME Init PROVE MB!Init /\ BufferInv
    OBVIOUS
  <1> USE DEF Init, message_init
  <1>1. Box = [d \in Tasks |-> <<>>]
    BY DEF Box
  <1>2. Want = [d \in Tasks |-> PID_NO_TASK] /\ Inbox = [d \in Tasks |-> ZeroMessage]
    BY DEF Want, Inbox, Receiving
  <1> QED
    BY <1>1, <1>2 DEF MB!Init, BufferInv

(* Seen by the tasks the kernel is an atomic mailbox: messages are neither *)
(* lost nor duplicated nor given to a task that did not ask for them, and  *)
(* a receiver gets the oldest one that fits, although a message is kept in *)
(* the table entries of sender and receiver and delivered later.           *)
THEOREM KernelImplementsMailbox == Spec => ImplementsMailbox
  <1>1. IInv /\ BufferInv /\ [Next]_vars => [MB!Next]_MB!vars /\ BufferInv'
    BY RefinedStep
  <1> QED
    BY <1>1, RefinedInit, Invariance, PTL DEF Spec, ImplementsMailbox, MB!Spec
=============================================================================
