------------------------------ MODULE ReadQueue ------------------------------
(***************************************************************************)
(* What a client of the bulk character device may rely on: each of its     *)
(* threads has a queue of the packets the device has sent since the thread *)
(* first asked.  A packet enters every queue, leaves it at most once and   *)
(* in the order of arrival, and is lost only when the queue is full and it *)
(* is the oldest.  Nothing is said of locks, buffers, files or waiting.    *)
(***************************************************************************)
EXTENDS Naturals, Sequences

CONSTANTS Queue, Capacity

VARIABLES
  packets, \* packets sent so far; they are numbered
  live,    \* the queues there are
  fifo,    \* [Queue -> Seq(Nat)]: the packets a queue holds
  hand     \* [Queue -> Nat]: the packet on its way to user memory, or 0

qvars == <<packets, live, fifo, hand>>

Init ==
  /\ packets = 0
  /\ live = {}
  /\ fifo = [q \in Queue |-> <<>>]
  /\ hand = [q \in Queue |-> 0]

(* A packet in the hand still takes a place.                               *)
Room(q) == Capacity - (IF hand[q] = 0 THEN 0 ELSE 1)

Arrive ==
  /\ packets' = packets + 1
  /\ fifo' = [q \in Queue |->
                IF q \notin live THEN fifo[q]
                ELSE Append(IF Len(fifo[q]) < Room(q) THEN fifo[q] ELSE Tail(fifo[q]),
                            packets')]
  /\ UNCHANGED <<live, hand>>

Create(q) ==
  /\ q \notin live
  /\ live' = live \cup {q}
  /\ UNCHANGED <<packets, fifo, hand>>

Take(q) ==
  /\ q \in live /\ hand[q] = 0 /\ fifo[q] # <<>>
  /\ hand' = [hand EXCEPT ![q] = Head(fifo[q])]
  /\ fifo' = [fifo EXCEPT ![q] = Tail(fifo[q])]
  /\ UNCHANGED <<packets, live>>

Deliver(q) ==
  /\ hand[q] # 0
  /\ hand' = [hand EXCEPT ![q] = 0]
  /\ UNCHANGED <<packets, live, fifo>>

Close(gone) ==
  /\ gone # {} /\ \A q \in gone : hand[q] = 0
  /\ live' = live \ gone
  /\ fifo' = [q \in Queue |-> IF q \in gone THEN <<>> ELSE fifo[q]]
  /\ UNCHANGED <<packets, hand>>

Next ==
  \/ Arrive
  \/ \E q \in Queue : Create(q) \/ Take(q) \/ Deliver(q)
  \/ \E gone \in SUBSET live : Close(gone)

Spec == Init /\ [][Next]_qvars
=============================================================================
