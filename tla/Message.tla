------------------------------ MODULE Message -----------------------------
(***************************************************************************)
(* Synchronous message passing between tasks (kernel/message.c).           *)
(*                                                                         *)
(* A message is its first two bytes, used as the tasks of main.c use them: *)
(* the pid of the sender and a number. The list of the tasks that wait to  *)
(* send to t (message_q_head, message_q_next) is the sequence message_q[t].*)
(* mess[t] is the buffer in t's own memory that it passes to the kernel,   *)
(* and message_ptr[t] the address of it that the kernel keeps while t      *)
(* waits.                                                                  *)
(***************************************************************************)
EXTENDS Task

CONSTANT Numbers                  \* the second byte of a message

ASSUME MessageAssumption == Numbers \subseteq Nat

VARIABLES message_buffer, message_ptr, message_flags, message_send_to,
          message_rec_pid, message_q, mess

messageVars == <<message_buffer, message_ptr, message_flags, message_send_to,
                 message_rec_pid, message_q, mess>>

MessageFlags == {"SENDING", "RECEIVING", "DELIVERING"}
Pids == 0 .. TASK_COUNT - 1
MessageType == [pid : Pids, num : Nat]
ZeroMessage == [pid |-> 0, num |-> 0]
MESS == "mess"                    \* the address of a task's own buffer

ASSUME AddressAssumption == NULL # MESS

MessageTypeOK ==
    /\ message_buffer \in [Tasks -> MessageType]
    /\ message_ptr \in [Tasks -> {NULL, MESS}]
    /\ message_flags \in [Tasks -> SUBSET MessageFlags]
    /\ message_send_to \in [Tasks -> Tasks \cup {NULL}]
    /\ message_rec_pid \in [Tasks -> {PID_NO_TASK, PID_ALL_TASKS} \cup Int]
    /\ message_q \in [Tasks -> Seq(Tasks)]
    /\ mess \in [Tasks -> MessageType]

(* The part of multitasking_init and create_kernel_task that clears the    *)
(* message fields. No slot is used twice, so the reset in                  *)
(* create_kernel_task finds them as multitasking_init left them.           *)
message_init ==
    /\ message_buffer = [t \in Tasks |-> ZeroMessage]
    /\ message_ptr = [t \in Tasks |-> NULL]
    /\ message_flags = [t \in Tasks |-> {}]
    /\ message_send_to = [t \in Tasks |-> NULL]
    /\ message_rec_pid = [t \in Tasks |-> PID_NO_TASK]
    /\ message_q = [t \in Tasks |-> <<>>]
    /\ mess = [t \in Tasks |-> ZeroMessage]

message_reset(tsk) ==
    /\ message_buffer' = [message_buffer EXCEPT ![tsk] = ZeroMessage]
    /\ message_ptr' = [message_ptr EXCEPT ![tsk] = NULL]
    /\ message_flags' = [message_flags EXCEPT ![tsk] = {}]
    /\ message_send_to' = [message_send_to EXCEPT ![tsk] = NULL]
    /\ message_rec_pid' = [message_rec_pid EXCEPT ![tsk] = PID_NO_TASK]
    /\ message_q' = [message_q EXCEPT ![tsk] = <<>>]
    /\ UNCHANGED mess

---------------------------------------------------------------------------
(* message_send                                                            *)

Awaits_anyone(dest, caller) == "RECEIVING" \in message_flags[dest]
Awaits_named(dest, caller) ==
    /\ "RECEIVING" \in message_flags[dest]
    /\ message_rec_pid[dest] = pid[caller]

Awaits(dest, caller) ==
    /\ "RECEIVING" \in message_flags[dest]
    /\ message_rec_pid[dest] \in {pid[caller], PID_ALL_TASKS}

(* The destination waits for this message: it is copied to its table entry *)
(* and the destination becomes ready. It is handed on when the destination *)
(* is next switched to. The sender goes on.                                *)
HandOver_keeps_receiving(caller, dest, message) ==
    /\ message_buffer' = [message_buffer EXCEPT ![dest] = message]
    /\ message_flags' = [message_flags EXCEPT ![dest] = @ \cup {"DELIVERING"}]
    /\ flags' = [flags EXCEPT ![dest] = @ \cup {"AFTER_SWITCH"}]
    /\ unblock_task(dest)
    /\ UNCHANGED <<message_ptr, message_send_to, message_rec_pid, message_q, mess>>

HandOver_no_after_switch(caller, dest, message) ==
    /\ message_buffer' = [message_buffer EXCEPT ![dest] = message]
    /\ message_flags' = [message_flags EXCEPT ![dest] =
                            (@ \ {"RECEIVING"}) \cup {"DELIVERING"}]
    /\ unblock_task(dest)
    /\ UNCHANGED <<flags, message_ptr, message_send_to, message_rec_pid, message_q, mess>>

HandOver(caller, dest, message) ==
    /\ message_buffer' = [message_buffer EXCEPT ![dest] = message]
    /\ message_flags' = [message_flags EXCEPT ![dest] =
                            (@ \ {"RECEIVING"}) \cup {"DELIVERING"}]
    /\ flags' = [flags EXCEPT ![dest] = @ \cup {"AFTER_SWITCH"}]
    /\ unblock_task(dest)
    /\ UNCHANGED <<message_ptr, message_send_to, message_rec_pid, message_q, mess>>

(* Otherwise the sender keeps the message and waits at the end of the      *)
(* destination's list.                                                     *)
Park(caller, dest, message) ==
    /\ message_flags' = [message_flags EXCEPT ![caller] = @ \cup {"SENDING"}]
    /\ message_send_to' = [message_send_to EXCEPT ![caller] = dest]
    /\ message_buffer' = [message_buffer EXCEPT ![caller] = message]
    /\ message_q' = [message_q EXCEPT ![dest] = Append(@, caller)]
    /\ block_task(caller)
    /\ UNCHANGED <<flags, message_ptr, message_rec_pid, mess>>

message_send(caller, dest_pid, message, result) ==
    \/ /\ find_task(dest_pid) = NULL
       /\ result = -1
       /\ UNCHANGED <<readyVars, flags, messageVars>>
    \/ \E dest \in Tasks :
          /\ dest = find_task(dest_pid)
          /\ result = 0
          /\ \/ Awaits(dest, caller) /\ HandOver(caller, dest, message)
             \/ ~Awaits(dest, caller) /\ Park(caller, dest, message)

---------------------------------------------------------------------------
(* message_receive                                                         *)

Wanted_anyone(caller, origin_pid, i) == TRUE

Wanted(caller, origin_pid, i) ==
    origin_pid \in {PID_ALL_TASKS, pid[message_q[caller][i]]}

(* The loop stops at the first sender in the list that is wanted: its      *)
(* message is copied, and it is taken off the list and becomes ready.      *)
TakeFrom_keeps_list(caller, i) ==
    LET sender == message_q[caller][i] IN
    /\ mess' = [mess EXCEPT ![caller] = message_buffer[sender]]
    /\ message_send_to' = [message_send_to EXCEPT ![sender] = NULL]
    /\ message_flags' = [message_flags EXCEPT ![sender] = @ \ {"SENDING"}]
    /\ unblock_task(sender)
    /\ UNCHANGED <<flags, message_buffer, message_ptr, message_q, message_rec_pid>>

TakeFrom_no_unblock(caller, i) ==
    LET sender == message_q[caller][i] IN
    /\ mess' = [mess EXCEPT ![caller] = message_buffer[sender]]
    /\ message_q' = [message_q EXCEPT ![caller] = RemoveAt(@, i)]
    /\ message_send_to' = [message_send_to EXCEPT ![sender] = NULL]
    /\ message_flags' = [message_flags EXCEPT ![sender] = @ \ {"SENDING"}]
    /\ UNCHANGED <<readyVars, flags, message_buffer, message_ptr, message_rec_pid>>

TakeFrom(caller, i) ==
    LET sender == message_q[caller][i] IN
    /\ mess' = [mess EXCEPT ![caller] = message_buffer[sender]]
    /\ message_q' = [message_q EXCEPT ![caller] = RemoveAt(@, i)]
    /\ message_send_to' = [message_send_to EXCEPT ![sender] = NULL]
    /\ message_flags' = [message_flags EXCEPT ![sender] = @ \ {"SENDING"}]
    /\ unblock_task(sender)
    /\ UNCHANGED <<flags, message_buffer, message_ptr, message_rec_pid>>

(* Nobody in the list is wanted: the caller waits.                         *)
AwaitMessage(caller, origin_pid) ==
    /\ message_ptr' = [message_ptr EXCEPT ![caller] = MESS]
    /\ message_rec_pid' = [message_rec_pid EXCEPT ![caller] = origin_pid]
    /\ message_flags' = [message_flags EXCEPT ![caller] = @ \cup {"RECEIVING"}]
    /\ block_task(caller)
    /\ UNCHANGED <<flags, message_buffer, message_send_to, message_q, mess>>

message_receive(caller, origin_pid, result) ==
    \/ /\ origin_pid = PID_NO_TASK
       /\ result = -1
       /\ UNCHANGED <<readyVars, flags, messageVars>>
    \/ /\ origin_pid # PID_NO_TASK
       /\ result = 0
       /\ \/ \E i \in DOMAIN message_q[caller] :
                /\ Wanted(caller, origin_pid, i)
                /\ \A j \in 1 .. i - 1 : ~Wanted(caller, origin_pid, j)
                /\ TakeFrom(caller, i)
          \/ /\ \A i \in DOMAIN message_q[caller] : ~Wanted(caller, origin_pid, i)
             /\ AwaitMessage(caller, origin_pid)

---------------------------------------------------------------------------
(* message_deliver, when it returns true.                                  *)
message_deliver(caller) ==
    /\ "DELIVERING" \in message_flags[caller]
    /\ mess' = [mess EXCEPT ![caller] = message_buffer[caller]]
    /\ message_buffer' = [message_buffer EXCEPT ![caller] = ZeroMessage]
    /\ message_flags' = [message_flags EXCEPT ![caller] = @ \ {"DELIVERING"}]
    /\ message_rec_pid' = [message_rec_pid EXCEPT ![caller] = PID_NO_TASK]
    /\ message_ptr' = [message_ptr EXCEPT ![caller] = NULL]
    /\ UNCHANGED <<message_send_to, message_q>>
============================================================================
