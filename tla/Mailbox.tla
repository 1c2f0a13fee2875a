------------------------------ MODULE Mailbox -----------------------------
(***************************************************************************)
(* What the message system promises to the tasks, without the kernel:      *)
(* every task has a mailbox of the messages sent to it that it has not yet *)
(* received, in the order in which they were sent. A receiver names one    *)
(* sender or any; it gets the oldest message that fits, once, or waits for *)
(* one. A message for a waiting receiver goes to it at once. A task whose  *)
(* message is in a mailbox, or that waits, does nothing until the message  *)
(* is taken, or comes.                                                     *)
(***************************************************************************)
EXTENDS Integers, Sequences, SequencesExt

CONSTANTS Procs,          \* the processes, which are their own pids
          AnyProc,          \* the origin that fits every sender
          None,           \* no origin
          Origins,        \* the origins a receiver names
          Numbers,        \* contents of messages
          Zero            \* an empty receive buffer

VARIABLES box,            \* box[d]: messages sent to d and not yet received
          want,           \* want[d]: the origin d waits for, or None
          inbox           \* inbox[d]: the message d has received and not yet used

vars == <<box, want, inbox>>

Init ==
    /\ box = [d \in Procs |-> <<>>]
    /\ want = [d \in Procs |-> None]
    /\ inbox = [d \in Procs |-> Zero]

Fits(origin, m) == origin \in {AnyProc, m.pid}

(* p has returned from its last call and has used what it received.        *)
Free(p) ==
    /\ want[p] = None
    /\ inbox[p] = Zero
    /\ \A d \in Procs : \A i \in DOMAIN box[d] : box[d][i].pid # p

Send(s, d, m) ==
    /\ Free(s)
    /\ m.pid = s
    /\ \/ /\ Fits(want[d], m)
          /\ inbox' = [inbox EXCEPT ![d] = m]
          /\ want' = [want EXCEPT ![d] = None]
          /\ UNCHANGED box
       \/ /\ ~Fits(want[d], m)
          /\ box' = [box EXCEPT ![d] = Append(@, m)]
          /\ UNCHANGED <<want, inbox>>

Receive(d, origin) ==
    /\ Free(d)
    /\ \/ \E i \in DOMAIN box[d] :
             /\ Fits(origin, box[d][i])
             /\ \A j \in 1 .. i - 1 : ~Fits(origin, box[d][j])
             /\ inbox' = [inbox EXCEPT ![d] = box[d][i]]
             /\ box' = [box EXCEPT ![d] = RemoveAt(@, i)]
             /\ UNCHANGED want
       \/ /\ \A i \in DOMAIN box[d] : ~Fits(origin, box[d][i])
          /\ want' = [want EXCEPT ![d] = origin]
          /\ UNCHANGED <<box, inbox>>

Use(d) ==
    /\ inbox[d] # Zero
    /\ inbox' = [inbox EXCEPT ![d] = Zero]
    /\ UNCHANGED <<box, want>>

Next ==
    \/ \E s, d \in Procs, n \in Numbers : Send(s, d, [pid |-> s, num |-> n])
    \/ \E d \in Procs, origin \in Origins : Receive(d, origin)
    \/ \E d \in Procs : Use(d)

Spec == Init /\ [][Next]_vars
============================================================================
