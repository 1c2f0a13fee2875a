------------------------------- MODULE Clock ------------------------------
(***************************************************************************)
(* The kernel clock and its list of sleeping tasks (kernel/clock.c).       *)
(*                                                                         *)
(* The list that starts at next_timer_event is the sequence timers of the  *)
(* tasks on it with their timer_expire, a field that is only read while    *)
(* the task is on the list. clock_ticks and timer_expire are uint32_t:     *)
(* they wrap at WORD, which stands for 2^32.                               *)
(***************************************************************************)
EXTENDS Task

CONSTANTS WORD,                   \* clock_ticks is a number modulo WORD
          KERNEL_CLOCK_FREQ,      \* clock ticks per second
          MS_PER_SEC,             \* 1000
          SleepTimes              \* arguments of sleep_ms, in milliseconds

(* ticks: the ticks a sleep of ms milliseconds lasts, rounded up.          *)
ticks(ms) == (KERNEL_CLOCK_FREQ * ms + (MS_PER_SEC - 1)) \div MS_PER_SEC

(* KERNEL_CLOCK_FREQ * ms is an int multiplication: the arguments are      *)
(* those for which it does not overflow, and then the sleep is shorter     *)
(* than the period of the counter.                                         *)
ASSUME ClockAssumption ==
    /\ WORD \in Nat \ {0}
    /\ KERNEL_CLOCK_FREQ \in Nat \ {0}
    /\ MS_PER_SEC \in Nat \ {0}
    /\ SleepTimes \subseteq Int
    /\ \A ms \in SleepTimes : ticks(ms) < WORD

VARIABLES clock_ticks,            \* ticks since boot, modulo WORD
          timers                  \* the list at next_timer_event

clockVars == <<clock_ticks, timers>>

TimerEvent == [tsk : Tasks, timer_expire : 0 .. WORD - 1]

ClockTypeOK ==
    /\ clock_ticks \in 0 .. WORD - 1
    /\ timers \in Seq(TimerEvent)

clock_setup ==
    /\ clock_ticks = 0
    /\ timers = <<>>

(* The tasks on the timer list.                                            *)
Sleeping == {timers[i].tsk : i \in DOMAIN timers}

---------------------------------------------------------------------------
(* timer_callback, up to its loop: the tick is counted, and a preemptible  *)
(* task that has used its quantum goes to the tail of its queue.           *)
timer_callback_no_reset ==
    /\ clock_ticks' = (clock_ticks + 1) % WORD
    /\ ticks_left' = IF "PREEMPTIBLE" \in flags[current_task]
                     THEN [ticks_left EXCEPT ![current_task] = @ - 1] ELSE ticks_left
    /\ IF ticks_left'[current_task] = 0 THEN preempt ELSE UNCHANGED readyVars

timer_callback_no_preempt ==
    /\ clock_ticks' = (clock_ticks + 1) % WORD
    /\ UNCHANGED <<readyVars, ticks_left>>

timer_callback_uncounted ==
    \/ /\ "PREEMPTIBLE" \in flags[current_task]
       /\ clock_ticks' = (clock_ticks + 1) % WORD
       /\ preempt
       /\ UNCHANGED ticks_left
    \/ /\ "PREEMPTIBLE" \notin flags[current_task]
       /\ UNCHANGED <<readyVars, ticks_left, clock_ticks>>

timer_callback ==
    /\ clock_ticks' = (clock_ticks + 1) % WORD
    /\ \/ /\ "PREEMPTIBLE" \in flags[current_task]
          /\ ticks_left[current_task] # 1
          /\ ticks_left' = [ticks_left EXCEPT ![current_task] = @ - 1]
          /\ UNCHANGED readyVars
       \/ /\ "PREEMPTIBLE" \in flags[current_task]
          /\ ticks_left[current_task] = 1
          /\ ticks_left' = [ticks_left EXCEPT ![current_task] = TASK_DEFAULT_QUANTUM]
          /\ preempt
       \/ /\ "PREEMPTIBLE" \notin flags[current_task]
          /\ UNCHANGED <<readyVars, ticks_left>>

(* The condition and one iteration of the loop of timer_callback.          *)
HeadExpired_strict == timers # <<>> /\ Head(timers).timer_expire < clock_ticks

HeadExpired == timers # <<>> /\ Head(timers).timer_expire <= clock_ticks

WakeHead ==
    /\ timers' = Tail(timers)
    /\ unblock_task(Head(timers).tsk)

(* sleep_ms for a positive argument: the task goes before the first task   *)
(* that expires later, and blocks. i is the place where the loop stops.    *)
ExpiresAfter(i, expire) == timers[i].timer_expire > expire

sleep_ms_at_front(i, expire) ==
    /\ i = 1
    /\ timers' = InsertAt(timers, i, [tsk |-> current_task, timer_expire |-> expire])

sleep_ms_at(i, expire) ==
    /\ \A j \in 1 .. i - 1 : ~ExpiresAfter(j, expire)
    /\ i \in DOMAIN timers => ExpiresAfter(i, expire)
    /\ timers' = InsertAt(timers, i, [tsk |-> current_task, timer_expire |-> expire])

sleep_ms(ms) ==
    /\ ms > 0
    /\ \E i \in 1 .. Len(timers) + 1 : sleep_ms_at(i, (ticks(ms) + clock_ticks) % WORD)
    /\ block_task(current_task)
    /\ UNCHANGED clock_ticks
============================================================================
