----------------------------- MODULE BulkReader -----------------------------
(***************************************************************************)
(* The readers of the bulk character device (bulk.c): every open file has  *)
(* an item on open_list, every thread that has read or polled it a queue   *)
(* of buffers there, which the completion of the continuous reader's URBs  *)
(* fills under read_list_lock.  A critical section of that lock is one     *)
(* step.  The callers hold a reference on the chip (ChipRegistry), so the  *)
(* lists are there.  Early returns that change nothing (no chip, I/O       *)
(* forbidden, buffer too small, no memory) are no steps.                   *)
(***************************************************************************)
EXTENDS Integers, Sequences, FiniteSets

CONSTANTS
  Thread,      \* threads of the client processes
  File,        \* their open files
  NumBuffers,  \* HDJ_READ_BUFFERS_COUNT
  MaxPackets,  \* bounds the packets the device sends; Nat is no bound
  NoFile

ASSUME ThreadAssumption  == IsFiniteSet(Thread)
ASSUME FileAssumption    == NoFile \notin File
ASSUME BuffersAssumption == NumBuffers \in Nat \ {0, 1}
ASSUME PacketsAssumption == MaxPackets \in Nat

VARIABLES
  bound,             \* "bound", "signalled" (hdj_disconnect has signalled the
                     \* readers), "gone" (the USB core has unbound the driver)
  packets,           \* packets received; a packet is its number
  opened,            \* the files that are open, to the VFS
  open_list,         \* the files with an item on ubulk->open_list
  access_count,      \* [File -> Int]
  is_releasing,      \* [File -> BOOLEAN]
  read_list,         \* the queues there are: pairs of thread and file
  list_buffers,      \* [Queue -> Seq(Nat)]: a buffer is the packet in it, or
                     \* NotReady
  num_pending_waits, \* [Queue -> {0, 1}]
  read_completion,   \* [Queue -> Nat]: the done count
  pc,                \* [Thread -> Label]
  file,              \* [Thread -> File \cup {NoFile}]: the file being read
  taken,             \* [Thread -> Nat]: the packet taken off the list
  interrupted,       \* history: queues on which a wait was ever interrupted
  missed             \* history: threads whose queue was filled between their
                     \* look and their announcement

NotReady == 0
Queue    == Thread \X File
Label    == {"idle", "announce", "sleep", "give_up", "take", "copy"}

fileVars  == <<opened, open_list, access_count, is_releasing>>
queueVars == <<read_list, list_buffers, num_pending_waits, read_completion>>
vars == <<bound, packets, fileVars, queueVars, pc, file, taken, interrupted, missed>>

TypeOK ==
  /\ bound \in {"bound", "signalled", "gone"}
  /\ packets \in Nat
  /\ opened \subseteq File /\ open_list \subseteq File
  /\ access_count \in [File -> Int]
  /\ is_releasing \in [File -> BOOLEAN]
  /\ read_list \subseteq Queue
  /\ list_buffers \in [Queue -> Seq(Nat)]
  /\ \A q \in Queue : Len(list_buffers[q]) <= NumBuffers
  /\ num_pending_waits \in [Queue -> {0, 1}]
  /\ read_completion \in [Queue -> Nat]
  /\ pc \in [Thread -> Label]
  /\ file \in [Thread -> File \cup {NoFile}]
  /\ taken \in [Thread -> Nat]
  /\ interrupted \subseteq Queue /\ missed \subseteq Thread

Init ==
  /\ bound = "bound"
  /\ packets = 0
  /\ opened = {} /\ open_list = {}
  /\ access_count = [f \in File |-> 0]
  /\ is_releasing = [f \in File |-> FALSE]
  /\ read_list = {}
  /\ list_buffers = [q \in Queue |-> <<>>]
  /\ num_pending_waits = [q \in Queue |-> 0]
  /\ read_completion = [q \in Queue |-> 0]
  /\ pc = [t \in Thread |-> "idle"]
  /\ file = [t \in Thread |-> NoFile]
  /\ taken = [t \in Thread |-> NotReady]
  /\ interrupted = {} /\ missed = {}

-----------------------------------------------------------------------------
(* Helpers                                                                 *)

(* The queue of a thread that is reading.                                  *)
Own(t) == <<t, file[t]>>

IsReady(buffer) == buffer # NotReady
HasReady(q) == \E i \in DOMAIN list_buffers[q] : IsReady(list_buffers[q][i])

(* Where fill_queued_buffers puts a packet: the first free buffer, or the  *)
(* oldest one, which goes to the end of the list.                          *)
FreeBuffers(b) == {i \in DOMAIN b : ~IsReady(b[i])}
(* Mutant: the oldest buffer is overwritten where it is.                   *)
FilledInPlace(b, p) ==
  IF FreeBuffers(b) = {} THEN [b EXCEPT ![1] = p]
  ELSE [b EXCEPT ![CHOOSE i \in FreeBuffers(b) : \A j \in FreeBuffers(b) : i <= j] = p]
Filled(b, p) ==
  IF FreeBuffers(b) = {} THEN Append(Tail(b), p)
  ELSE [b EXCEPT ![CHOOSE i \in FreeBuffers(b) : \A j \in FreeBuffers(b) : i <= j] = p]

(* free_open_list: the items of a file and everything on them.  bufs is    *)
(* what the step has made of the buffers so far.                           *)
Freed(f, bufs) ==
  /\ open_list' = open_list \ {f}
  /\ read_list' = {q \in read_list : q[2] # f}
  /\ list_buffers' = [q \in Queue |-> IF q[2] = f THEN <<>> ELSE bufs[q]]
  /\ num_pending_waits' = [q \in Queue |-> IF q[2] = f THEN 0 ELSE num_pending_waits[q]]
  /\ read_completion' = [q \in Queue |-> IF q[2] = f THEN 0 ELSE read_completion[q]]
  /\ interrupted' = {q \in interrupted : q[2] # f}

(* The end of a read, and of a release: the item is given back, and freed  *)
(* with its last user.  Mutant: the first release frees it.                *)
GiveBackAtOnce(f, bufs) ==
  /\ access_count' = [access_count EXCEPT ![f] = @ - 1]
  /\ Freed(f, bufs)
GiveBack(f, bufs) ==
  /\ access_count' = [access_count EXCEPT ![f] = @ - 1]
  /\ IF access_count[f] = 1 THEN Freed(f, bufs)
     ELSE /\ list_buffers' = bufs
          /\ UNCHANGED <<open_list, read_list, num_pending_waits, read_completion,
                         interrupted>>

Goto(t, label) == pc' = [pc EXCEPT ![t] = label]

(* A read returns; its file is nobody's business any more.                 *)
Return(t) ==
  /\ Goto(t, "idle")
  /\ file' = [file EXCEPT ![t] = NoFile]
  /\ UNCHANGED <<bound, packets, opened, is_releasing, missed>>

-----------------------------------------------------------------------------
(* open, release, poll                                                     *)

Open(f) ==
  /\ bound # "gone" /\ f \notin opened
  /\ opened' = opened \cup {f}
  /\ open_list' = open_list \cup {f}
  /\ IF f \in open_list THEN UNCHANGED <<access_count, is_releasing>>
     ELSE /\ access_count' = [access_count EXCEPT ![f] = 1]
          /\ is_releasing' = [is_releasing EXCEPT ![f] = FALSE]
  /\ UNCHANGED <<bound, packets, queueVars, pc, file, taken, interrupted, missed>>

(* The VFS calls release when the last system call on the file is over.    *)
Release(f) ==
  /\ f \in opened /\ \A t \in Thread : file[t] # f
  /\ f \in open_list \* it is (ItemsInUse)
  /\ opened' = opened \ {f}
  /\ is_releasing' = [is_releasing EXCEPT ![f] = TRUE]
  /\ GiveBack(f, list_buffers)
  /\ UNCHANGED <<bound, packets, pc, file, taken, missed>>

(* alloc_and_init_read_list_item                                           *)
NewQueue(q) ==
  /\ read_list' = read_list \cup {q}
  /\ list_buffers' = [list_buffers EXCEPT ![q] = [i \in 1..NumBuffers |-> NotReady]]
  /\ num_pending_waits' = [num_pending_waits EXCEPT ![q] = 0]
  /\ read_completion' = [read_completion EXCEPT ![q] = 0]

(* A poll of a thread without a queue makes one; any other only looks.     *)
PollCreates(t, f) ==
  /\ pc[t] = "idle" /\ f \in opened
  /\ f \in open_list /\ ~is_releasing[f]
  /\ <<t, f>> \notin read_list
  /\ NewQueue(<<t, f>>)
  /\ UNCHANGED <<bound, packets, fileVars, pc, file, taken, interrupted, missed>>

-----------------------------------------------------------------------------
(* hdjbulk_read                                                            *)

(* The look: the thread gets a queue if it has none, and waits unless a    *)
(* buffer is ready.                                                        *)
ReadEnter(t, f) ==
  /\ pc[t] = "idle" /\ f \in opened
  /\ f \in open_list /\ ~is_releasing[f]
  /\ access_count' = [access_count EXCEPT ![f] = @ + 1]
  /\ file' = [file EXCEPT ![t] = f]
  /\ missed' = missed \ {t}
  /\ \/ /\ <<t, f>> \notin read_list
        /\ NewQueue(<<t, f>>)
        /\ Goto(t, "announce")
     \/ /\ <<t, f>> \in read_list
        /\ Goto(t, IF HasReady(<<t, f>>) THEN "take" ELSE "announce")
        /\ UNCHANGED queueVars
  /\ UNCHANGED <<bound, packets, opened, open_list, is_releasing, taken, interrupted>>

(* O_NONBLOCK, a flag that fcntl may set at any time: -EAGAIN.             *)
ReadAgain(t) ==
  /\ pc[t] = "announce"
  /\ GiveBack(file[t], list_buffers)
  /\ Return(t) /\ UNCHANGED taken

(* Mutant: nobody is told of the wait.                                     *)
AnnounceNothing(t) ==
  /\ pc[t] = "announce"
  /\ Goto(t, "sleep")
  /\ UNCHANGED <<bound, packets, fileVars, queueVars, file, taken, interrupted, missed>>
Announce(t) ==
  /\ pc[t] = "announce"
  /\ num_pending_waits' = [num_pending_waits EXCEPT ![Own(t)] = 1]
  /\ Goto(t, "sleep")
  /\ UNCHANGED <<bound, packets, fileVars, read_list, list_buffers, read_completion, file,
                 taken, interrupted, missed>>

(* The wait takes a completion.  Mutant: it leaves it.                     *)
WokenKeeps(t) ==
  /\ pc[t] = "sleep" /\ read_completion[Own(t)] > 0
  /\ Goto(t, "take")
  /\ UNCHANGED <<bound, packets, fileVars, queueVars, file, taken, interrupted, missed>>
Woken(t) ==
  /\ pc[t] = "sleep" /\ read_completion[Own(t)] > 0
  /\ read_completion' = [read_completion EXCEPT ![Own(t)] = @ - 1]
  /\ \E label \in {"take", "give_up"} : Goto(t, label) \* a signal may be pending
  /\ UNCHANGED <<bound, packets, fileVars, read_list, list_buffers, num_pending_waits, file,
                 taken, interrupted, missed>>

(* A signal ends the wait; the announcement stays.                         *)
Interrupt(t) ==
  /\ pc[t] = "sleep" /\ read_completion[Own(t)] = 0
  /\ interrupted' = interrupted \cup {Own(t)}
  /\ Goto(t, "give_up")
  /\ UNCHANGED <<bound, packets, fileVars, queueVars, file, taken, missed>>

GiveUp(t) ==
  /\ pc[t] = "give_up"
  /\ GiveBack(file[t], list_buffers)
  /\ Return(t) /\ UNCHANGED taken

(* The head of the list is the oldest packet, or there is none: -EINVAL;   *)
(* -ENODEV when the file is being released or the device disconnected.     *)
Take(t) ==
  /\ pc[t] = "take"
  /\ ~is_releasing[file[t]]
  /\ list_buffers[Own(t)] # <<>> /\ IsReady(Head(list_buffers[Own(t)]))
  /\ taken' = [taken EXCEPT ![t] = Head(list_buffers[Own(t)])]
  /\ list_buffers' = [list_buffers EXCEPT ![Own(t)] = Tail(@)]
  /\ Goto(t, "copy")
  /\ UNCHANGED <<bound, packets, fileVars, read_list, num_pending_waits, read_completion,
                 file, interrupted, missed>>

TakeFails(t) ==
  /\ pc[t] = "take"
  /\ \/ is_releasing[file[t]]
     \/ list_buffers[Own(t)] = <<>>
     \/ ~IsReady(Head(list_buffers[Own(t)]))
  /\ GiveBack(file[t], list_buffers)
  /\ Return(t) /\ UNCHANGED taken

(* The packet is in user memory; its buffer goes to the end of the list.   *)
PutBack(t) ==
  /\ pc[t] = "copy"
  /\ taken' = [taken EXCEPT ![t] = NotReady]
  /\ GiveBack(file[t], [list_buffers EXCEPT ![Own(t)] = Append(@, NotReady)])
  /\ Return(t)

-----------------------------------------------------------------------------
(* The device                                                              *)

(* An URB of the continuous reader completes: fill_queued_buffers.  The    *)
(* completion is signalled if somebody has announced a wait.               *)
Wakes(q) == q \in read_list /\ num_pending_waits[q] = 1
Fill ==
  /\ bound # "gone" /\ packets < MaxPackets
  /\ packets' = packets + 1
  /\ list_buffers' = [q \in Queue |-> IF q \in read_list
                                     THEN Filled(list_buffers[q], packets + 1) ELSE <<>>]
  /\ num_pending_waits' = [q \in Queue |-> IF Wakes(q) THEN 0 ELSE num_pending_waits[q]]
  /\ read_completion' = [q \in Queue |->
                           read_completion[q] + (IF Wakes(q) THEN 1 ELSE 0)]
  /\ missed' = missed \cup {t \in Thread : pc[t] = "announce"}
  /\ UNCHANGED <<bound, fileVars, read_list, pc, file, taken, interrupted>>

(* hdj_disconnect calls signal_all_waiting_readers.  Mutant: only those    *)
(* are signalled that have announced a wait.                               *)
SignalWaiting ==
  /\ bound = "bound"
  /\ bound' = "signalled"
  /\ is_releasing' = [f \in File |-> is_releasing[f] \/ f \in open_list]
  /\ read_completion' = [q \in Queue |-> read_completion[q] + num_pending_waits[q]]
  /\ UNCHANGED <<packets, opened, open_list, access_count, read_list, list_buffers,
                 num_pending_waits, pc, file, taken, interrupted, missed>>
SignalAllWaitingReaders ==
  /\ bound = "bound"
  /\ bound' = "signalled"
  /\ is_releasing' = [f \in File |-> is_releasing[f] \/ f \in open_list]
  /\ read_completion' = [q \in Queue |->
                           read_completion[q] + (IF q \in read_list THEN 1 ELSE 0)]
  /\ UNCHANGED <<packets, opened, open_list, access_count, read_list, list_buffers,
                 num_pending_waits, pc, file, taken, interrupted, missed>>

(* hdj_disconnect has returned: no more URBs, and usb_find_interface       *)
(* finds the interface no more.                                            *)
Unbind ==
  /\ bound = "signalled"
  /\ bound' = "gone"
  /\ UNCHANGED <<packets, fileVars, queueVars, pc, file, taken, interrupted, missed>>

-----------------------------------------------------------------------------
(* The steps a thread in read makes by itself.                             *)
ReadStep(t) ==
  ReadAgain(t) \/ Announce(t) \/ Woken(t) \/ GiveUp(t) \/ Take(t) \/ TakeFails(t) \/ PutBack(t)

Next ==
  \/ Fill \/ SignalAllWaitingReaders \/ Unbind
  \/ \E f \in File : Open(f) \/ Release(f)
  \/ \E t \in Thread, f \in File : PollCreates(t, f) \/ ReadEnter(t, f)
  \/ \E t \in Thread : ReadStep(t) \/ Interrupt(t)

Spec == Init /\ [][Next]_vars

(* A thread in the kernel is run again.                                    *)
FairSpec == Spec /\ \A t \in Thread : WF_vars(ReadStep(t))

-----------------------------------------------------------------------------
(* Properties                                                              *)

Readers(f) == {t \in Thread : pc[t] # "idle" /\ file[t] = f}

(* Every open file has an item, no other file has one, and the item counts *)
(* the file and the reads that are under way; a read under way has its     *)
(* queue.  So free_open_list never frees what a read will use after it has *)
(* slept or copied (bulk.c:2409, 2421, 2448).                              *)
ItemsInUse ==
  /\ open_list = opened
  /\ \A f \in File : access_count[f] = (IF f \in opened THEN 1 ELSE 0)
                                       + Cardinality(Readers(f))
  /\ \A t \in Thread : pc[t] # "idle" => file[t] \in opened /\ Own(t) \in read_list

(* A queue's announcement and its completions never add up to more than    *)
(* one outside of a wait and two in one, the one of hdj_disconnect apart:  *)
(* however many waits are interrupted, one wake-up at most is stale.       *)
SignalsBounded ==
  \A q \in Queue :
    num_pending_waits[q] + read_completion[q]
      <= 1 + (IF pc[q[1]] = "sleep" /\ file[q[1]] = q[2] THEN 1 ELSE 0)
           + (IF bound = "bound" THEN 0 ELSE 1)

(* A thread that sleeps while its queue has a packet is being woken, but   *)
(* for packets that came between its look and its announcement.            *)
WokenUnlessMissed ==
  \A t \in Thread :
    pc[t] = "sleep" /\ HasReady(Own(t)) => read_completion[Own(t)] > 0 \/ t \in missed

(* A read that is about to take a packet finds one, unless the device is   *)
(* gone or a wait on this queue was interrupted before.                    *)
TakeFindsData ==
  \A t \in Thread :
    pc[t] = "take" => \/ /\ list_buffers[Own(t)] # <<>>
                         /\ IsReady(Head(list_buffers[Own(t)]))
                      \/ is_releasing[file[t]]
                      \/ Own(t) \in interrupted

(* hdj_disconnect unblocks the readers of the files that were open when it *)
(* signalled them, wherever they were in read (bulk.c:2302).               *)
SignalledReadersReturn ==
  \A t \in Thread : pc[t] # "idle" /\ is_releasing[file[t]] ~> pc[t] = "idle"

-----------------------------------------------------------------------------
(* The inductive invariant                                                 *)

Sleeps(q) == pc[q[1]] = "sleep" /\ file[q[1]] = q[2]
Copies(q) == pc[q[1]] = "copy" /\ file[q[1]] = q[2]

(* A thread in read has a file, and a packet while it copies.              *)
ReadersLocals ==
  \A t \in Thread : /\ (file[t] = NoFile <=> pc[t] = "idle")
                    /\ (IsReady(taken[t]) <=> pc[t] = "copy")

(* Only an open file has queues, and only a queue has something on it.     *)
QueuesOfOpened ==
  /\ \A q \in read_list : q[2] \in opened
  /\ \A q \in Queue \ read_list : /\ list_buffers[q] = <<>>
                                  /\ num_pending_waits[q] = 0 /\ read_completion[q] = 0

(* While a file is open, only hdj_disconnect marks it.                     *)
MarkedBySignal == bound = "bound" => \A f \in opened : ~is_releasing[f]

(* A queue has all its buffers, but one that is being copied; the ready    *)
(* ones come first.                                                        *)
BuffersKept ==
  \A q \in read_list :
    /\ Len(list_buffers[q]) = (IF Copies(q) THEN NumBuffers - 1 ELSE NumBuffers)
    /\ \A i, j \in DOMAIN list_buffers[q] :
         i < j /\ IsReady(list_buffers[q][j]) => IsReady(list_buffers[q][i])

(* The wake-ups of a queue: at most one too many, and one more from        *)
(* hdj_disconnect; none too many before a wait is interrupted.             *)
WakeUps(q) == num_pending_waits[q] + read_completion[q]
WakeUpsCounted ==
  \A q \in read_list :
    /\ WakeUps(q) <= 1 + (IF Sleeps(q) THEN 1 ELSE 0) + (IF is_releasing[q[2]] THEN 1 ELSE 0)
    /\ q \notin interrupted /\ ~is_releasing[q[2]]
         => WakeUps(q) = (IF Sleeps(q) THEN 1 ELSE 0)

(* A wait that was announced was not forgotten: it still is announced, or  *)
(* it has been completed; and then there is a packet.                      *)
WaitsAnswered ==
  \A t \in Thread :
    /\ pc[t] = "sleep" => num_pending_waits[Own(t)] = 1 \/ read_completion[Own(t)] > 0
    /\ pc[t] = "take" \/ (pc[t] = "sleep" /\ num_pending_waits[Own(t)] = 0)
         => is_releasing[file[t]] \/ Own(t) \in interrupted \/ HasReady(Own(t))
    /\ pc[t] = "announce" /\ t \notin missed => ~HasReady(Own(t))

ReaderInv ==
  /\ TypeOK /\ ReadersLocals
  /\ ItemsInUse /\ QueuesOfOpened /\ MarkedBySignal
  /\ BuffersKept
  /\ WakeUpsCounted /\ WaitsAnswered /\ WokenUnlessMissed

(* The packets that wait in a queue: its ready buffers, which come first   *)
(* (BuffersKept).                                                          *)
NumReady(b) == CHOOSE n \in 0..Len(b) : \A i \in DOMAIN b : IsReady(b[i]) <=> i <= n
Waiting(b)  == SubSeq(b, 1, NumReady(b))

(* Reads, polls and the continuous reader together are the queues of       *)
(* ReadQueue: each packet once, in order, the oldest lost when it is full. *)
RQ == INSTANCE ReadQueue WITH
        Capacity <- NumBuffers,
        live     <- read_list,
        fifo     <- [q \in Queue |-> Waiting(list_buffers[q])],
        hand     <- [q \in Queue |-> IF file[q[1]] = q[2] THEN taken[q[1]] ELSE 0]
ImplementsReadQueue == RQ!Spec
=============================================================================
