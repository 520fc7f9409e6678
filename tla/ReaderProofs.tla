---------------------------- MODULE ReaderProofs ----------------------------
(* The invariants of BulkReader, proved for any threads, files and numbers *)
(* of buffers and packets.                                                 *)
EXTENDS BulkReader, FiniteSetTheorems, WellFoundedInduction, TLAPS

(* What ReaderInv says of one queue and of one thread.                     *)
Prefixed(b) == \A i, j \in DOMAIN b : i < j /\ IsReady(b[j]) => IsReady(b[i])
AnyReady(b) == \E i \in DOMAIN b : IsReady(b[i])

QueueOK(q) ==
  /\ q \in read_list =>
       /\ q[2] \in opened
       /\ Len(list_buffers[q]) = (IF Copies(q) THEN NumBuffers - 1 ELSE NumBuffers)
       /\ Prefixed(list_buffers[q])
       /\ WakeUps(q) <= 1 + (IF Sleeps(q) THEN 1 ELSE 0) + (IF is_releasing[q[2]] THEN 1 ELSE 0)
       /\ q \notin interrupted /\ ~is_releasing[q[2]]
            => WakeUps(q) = (IF Sleeps(q) THEN 1 ELSE 0)
  /\ q \notin read_list =>
       list_buffers[q] = <<>> /\ num_pending_waits[q] = 0 /\ read_completion[q] = 0

ThreadOK(t) ==
  /\ (file[t] = NoFile <=> pc[t] = "idle")
  /\ (IsReady(taken[t]) <=> pc[t] = "copy")
  /\ pc[t] = "sleep" => num_pending_waits[Own(t)] = 1 \/ read_completion[Own(t)] > 0
  /\ pc[t] = "take" \/ (pc[t] = "sleep" /\ num_pending_waits[Own(t)] = 0)
       => is_releasing[file[t]] \/ Own(t) \in interrupted \/ AnyReady(list_buffers[Own(t)])
  /\ pc[t] = "announce" /\ t \notin missed => ~AnyReady(list_buffers[Own(t)])
  /\ pc[t] = "sleep" /\ AnyReady(list_buffers[Own(t)])
       => read_completion[Own(t)] > 0 \/ t \in missed

PartsOK ==
  /\ TypeOK /\ ItemsInUse /\ MarkedBySignal
  /\ \A q \in Queue : QueueOK(q)
  /\ \A t \in Thread : ThreadOK(t)

LEMMA ByQueueAndThread == ReaderInv <=> PartsOK
<1>1. ASSUME TypeOK
      PROVE  /\ QueuesOfOpened /\ BuffersKept /\ WakeUpsCounted <=> \A q \in Queue : QueueOK(q)
  <2>1. read_list \subseteq Queue
    BY <1>1 DEF TypeOK
  <2> QED  BY <2>1 DEF QueuesOfOpened, BuffersKept, WakeUpsCounted, QueueOK, Prefixed
<1>2. ReadersLocals /\ WaitsAnswered /\ WokenUnlessMissed <=> \A t \in Thread : ThreadOK(t)
  BY DEF ReadersLocals, WaitsAnswered, WokenUnlessMissed, ThreadOK, HasReady, AnyReady
<1> QED  BY <1>1, <1>2 DEF ReaderInv, PartsOK

-----------------------------------------------------------------------------
(* The buffers of a queue                                                  *)

(* A nonempty set of indices has a first one.                              *)
LEMMA FirstIndex ==
  ASSUME NEW n \in Nat, NEW S \in SUBSET (1 .. n), S # {}
  PROVE  \E i \in S : \A j \in S : i <= j
<1> DEFINE Below(i) == 1 .. i - 1
           Segments == {Below(i) : i \in S}
<1>1. \A i \in S : IsFiniteSet(Below(i)) /\ Below(i) \subseteq 1 .. n
  <2> TAKE i \in S
  <2>1. IsFiniteSet(Below(i))
    BY FS_Interval
  <2> QED  BY <2>1
<1>2. Segments \subseteq FiniteSubsetsOf(1 .. n) /\ Segments # {}
  BY <1>1 DEF FiniteSubsetsOf
<1>3. PICK B \in Segments : \A C \in Segments : <<C, B>> \notin StrictSubsetOrdering(1 .. n)
  <2> HIDE DEF Segments
  <2> QED  BY <1>2, FS_StrictSubsetOrderingWellFounded, WFMin
<1>4. PICK i \in S : B = Below(i)
  OBVIOUS
<1>5. \A j \in S : i <= j
  <2> SUFFICES ASSUME NEW j \in S, j < i
               PROVE  FALSE
    OBVIOUS
  <2>1. Below(j) \subseteq Below(i) /\ j \in Below(i) \ Below(j)
    OBVIOUS
  <2>2. <<Below(j), Below(i)>> \in StrictSubsetOrdering(1 .. n)
    BY <2>1, <1>1 DEF StrictSubsetOrdering
  <2> QED  BY <2>2, <1>3, <1>4
<1> QED  BY <1>5

(* A packet takes one place; the ready buffers stay in front.              *)
LEMMA FilledEffect ==
  ASSUME NEW b \in Seq(Nat), Len(b) > 0, NEW p \in Nat \ {0}
  PROVE  /\ Filled(b, p) \in Seq(Nat) /\ Len(Filled(b, p)) = Len(b)
         /\ Prefixed(b) => Prefixed(Filled(b, p))
         /\ AnyReady(Filled(b, p))
<1>1. CASE FreeBuffers(b) = {}
  <2>1. Filled(b, p) = Append(Tail(b), p)
    BY <1>1 DEF Filled
  <2>2. \A i \in 1 .. Len(b) : b[i] # NotReady
    BY <1>1 DEF FreeBuffers, IsReady
  <2>3. /\ Tail(b) \in Seq(Nat) /\ Len(Tail(b)) = Len(b) - 1
        /\ \A i \in 1 .. Len(b) - 1 : Tail(b)[i] = b[i + 1]
    OBVIOUS
  <2> DEFINE c == Tail(b)
  <2>4. c \in Seq(Nat) /\ Len(c) \in Nat /\ Len(b) = Len(c) + 1
    BY <2>3
  <2> HIDE DEF c
  <2>5. /\ Append(c, p) \in Seq(Nat) /\ Len(Append(c, p)) = Len(c) + 1
        /\ \A i \in 1 .. Len(c) + 1 : Append(c, p)[i] = IF i = Len(c) + 1 THEN p ELSE c[i]
    BY <2>4
  <2>6. /\ Filled(b, p) = Append(c, p)
        /\ DOMAIN Append(c, p) = 1 .. Len(b)
        /\ \A i \in 1 .. Len(b) - 1 : c[i] = b[i + 1]
    <3>1. Filled(b, p) = Append(c, p) /\ \A i \in 1 .. Len(b) - 1 : c[i] = b[i + 1]
      BY <2>1, <2>3 DEF c
    <3>2. DOMAIN Append(c, p) = 1 .. Len(b)
      BY <2>4, <2>5
    <3> QED  BY <3>1, <3>2
  <2>7. \A i \in 1 .. Len(b) : IsReady(Append(c, p)[i])
    <3> TAKE i \in 1 .. Len(b)
    <3>1. CASE i = Len(b)
      BY <3>1, <2>4, <2>5 DEF IsReady, NotReady
    <3>2. CASE i # Len(b)
      <4>1. i \in 1 .. Len(c) /\ i + 1 \in 1 .. Len(b)
        BY <3>2, <2>4
      <4>2. Append(c, p)[i] = b[i + 1]
        BY <4>1, <2>4, <2>5, <2>6
      <4> QED  BY <4>1, <4>2, <2>2 DEF IsReady
    <3> QED  BY <3>1, <3>2
  <2>8. 1 \in 1 .. Len(b)
    BY <2>4
  <2>9. Prefixed(Append(c, p)) /\ AnyReady(Append(c, p))
    BY <2>6, <2>7, <2>8 DEF Prefixed, AnyReady
  <2> QED  BY <2>4, <2>5, <2>6, <2>9
<1>2. CASE FreeBuffers(b) # {}
  <2> DEFINE k == CHOOSE i \in FreeBuffers(b) : \A j \in FreeBuffers(b) : i <= j
  <2>1. FreeBuffers(b) \in SUBSET (1 .. Len(b)) /\ Len(b) \in Nat
    BY DEF FreeBuffers
  <2>2. k \in FreeBuffers(b) /\ \A j \in FreeBuffers(b) : k <= j
    BY <1>2, <2>1, FirstIndex
  <2>3. Filled(b, p) = [b EXCEPT ![k] = p]
    BY <1>2 DEF Filled
  <2> HIDE DEF k
  <2>4. k \in 1 .. Len(b)
    BY <2>1, <2>2
  <2>5. /\ Filled(b, p) \in Seq(Nat) /\ Len(Filled(b, p)) = Len(b)
        /\ \A i \in 1 .. Len(b) : Filled(b, p)[i] = IF i = k THEN p ELSE b[i]
    BY <2>3, <2>4
  <2>6. DOMAIN Filled(b, p) = 1 .. Len(b) /\ DOMAIN b = 1 .. Len(b)
    BY <2>5
  <2>7. \A i \in 1 .. Len(b) : i < k => IsReady(b[i])
    BY <2>1, <2>2, <2>6 DEF FreeBuffers
  <2>8. AnyReady(Filled(b, p))
    BY <2>4, <2>5, <2>6 DEF AnyReady, IsReady, NotReady
  <2>9. ASSUME Prefixed(b)
        PROVE  Prefixed(Filled(b, p))
    <3> SUFFICES ASSUME NEW i \in 1 .. Len(b), NEW j \in 1 .. Len(b), i < j,
                        IsReady(Filled(b, p)[j])
                 PROVE  IsReady(Filled(b, p)[i])
      BY <2>6 DEF Prefixed
    <3>1. CASE i = k
      BY <3>1, <2>5 DEF IsReady, NotReady
    <3>2. CASE i # k /\ j = k
      BY <3>2, <2>5, <2>7
    <3>3. CASE i # k /\ j # k
      BY <3>3, <2>5, <2>6, <2>9 DEF Prefixed
    <3> QED  BY <3>1, <3>2, <3>3
  <2> QED  BY <2>5, <2>8, <2>9
<1> QED  BY <1>1, <1>2

(* Taking the first buffer off, and putting one back.                      *)
LEMMA TailEffect ==
  ASSUME NEW b \in Seq(Nat), b # <<>>, Prefixed(b)
  PROVE  /\ Tail(b) \in Seq(Nat) /\ Len(Tail(b)) = Len(b) - 1
         /\ Prefixed(Tail(b))
         /\ Head(b) \in Nat
         /\ AnyReady(b) => IsReady(Head(b))
<1>1. /\ Tail(b) \in Seq(Nat) /\ Len(Tail(b)) = Len(b) - 1
      /\ \A i \in 1 .. Len(b) - 1 : Tail(b)[i] = b[i + 1]
      /\ Len(b) > 0 /\ Head(b) = b[1] /\ Head(b) \in Nat
  OBVIOUS
<1>2. DOMAIN Tail(b) = 1 .. Len(b) - 1 /\ DOMAIN b = 1 .. Len(b)
  BY <1>1
<1>3. Prefixed(Tail(b))
  BY <1>1, <1>2 DEF Prefixed
<1>4. AnyReady(b) => IsReady(b[1])
  BY <1>1, <1>2 DEF Prefixed, AnyReady
<1> QED  BY <1>1, <1>3, <1>4

LEMMA AppendEffect ==
  ASSUME NEW b \in Seq(Nat), Prefixed(b)
  PROVE  /\ Append(b, NotReady) \in Seq(Nat) /\ Len(Append(b, NotReady)) = Len(b) + 1
         /\ Prefixed(Append(b, NotReady))
<1>1. /\ Append(b, NotReady) \in Seq(Nat) /\ Len(Append(b, NotReady)) = Len(b) + 1
      /\ \A i \in 1 .. Len(b) + 1 :
           Append(b, NotReady)[i] = IF i = Len(b) + 1 THEN NotReady ELSE b[i]
  BY DEF NotReady
<1>2. DOMAIN Append(b, NotReady) = 1 .. Len(b) + 1 /\ DOMAIN b = 1 .. Len(b)
  BY <1>1
<1>3. Prefixed(Append(b, NotReady))
  BY <1>1, <1>2 DEF Prefixed, IsReady
<1> QED  BY <1>1, <1>3

(* A new queue has no packet.                                              *)
Empty == [i \in 1 .. NumBuffers |-> NotReady]
LEMMA EmptyEffect ==
  /\ Empty \in Seq(Nat) /\ Len(Empty) = NumBuffers
  /\ Prefixed(Empty) /\ ~AnyReady(Empty)
<1>1. NumBuffers \in Nat /\ Empty \in [1 .. NumBuffers -> Nat]
  BY BuffersAssumption DEF Empty, NotReady
<1>2. Empty \in Seq(Nat) /\ Len(Empty) = NumBuffers /\ DOMAIN Empty = 1 .. NumBuffers
  BY <1>1
<1>3. \A i \in 1 .. NumBuffers : ~IsReady(Empty[i])
  BY DEF Empty, IsReady
<1> QED  BY <1>2, <1>3 DEF Prefixed, AnyReady

-----------------------------------------------------------------------------
(* The items of open files                                                 *)

LEMMA ReadersFinite ==
  \A f \in File : IsFiniteSet(Readers(f)) /\ Cardinality(Readers(f)) \in Nat
<1> TAKE f \in File
<1>1. IsFiniteSet(Readers(f))
  BY ThreadAssumption, FS_Subset DEF Readers
<1> QED  BY <1>1, FS_CardinalityType

(* A read under way is counted beside the file, so it never frees the item.*)
LEMMA ReadIsCounted ==
  ASSUME ItemsInUse, NEW t \in Thread, pc[t] # "idle", opened \subseteq File
  PROVE  /\ file[t] \in File /\ file[t] \in opened /\ Own(t) \in read_list
         /\ Own(t) \in Queue /\ access_count[file[t]] >= 2
<1>1. file[t] \in File /\ file[t] \in opened /\ Own(t) \in read_list
  BY DEF ItemsInUse
<1>2. t \in Readers(file[t])
  BY <1>1 DEF Readers
<1>3. Cardinality(Readers(file[t])) >= 1
  BY <1>1, <1>2, ReadersFinite, FS_EmptySet
<1>4. access_count[file[t]] = 1 + Cardinality(Readers(file[t]))
  BY <1>1 DEF ItemsInUse
<1> QED  BY <1>1, <1>3, <1>4, ReadersFinite DEF Own, Queue

LEMMA FreeOfReaders ==
  ASSUME ItemsInUse, NEW f \in opened, f \in File, \A t \in Thread : file[t] # f
  PROVE  access_count[f] = 1
<1>1. Readers(f) = {}
  BY DEF Readers
<1> QED  BY <1>1, FS_EmptySet DEF ItemsInUse

(* The end of a read.                                                      *)
Leaves(t, bufs) ==
  /\ access_count' = [access_count EXCEPT ![file[t]] = @ - 1]
  /\ list_buffers' = bufs
  /\ pc' = [pc EXCEPT ![t] = "idle"] /\ file' = [file EXCEPT ![t] = NoFile]
  /\ UNCHANGED <<bound, packets, opened, open_list, is_releasing, read_list,
                 num_pending_waits, read_completion, interrupted, missed>>

LEMMA LeavesEffect ==
  ASSUME TypeOK, ItemsInUse, NEW t \in Thread, pc[t] # "idle", NEW bufs,
         GiveBack(file[t], bufs), Return(t)
  PROVE  Leaves(t, bufs)
<1>1. opened \subseteq File /\ \A f \in File : access_count[f] \in Int
  BY DEF TypeOK
<1>2. file[t] \in File /\ access_count[file[t]] >= 2
  BY <1>1, ReadIsCounted
<1>3. access_count[file[t]] # 1
  BY <1>1, <1>2
<1> QED  BY <1>3 DEF GiveBack, Return, Goto, Leaves

LEMMA ItemsLeave ==
  ASSUME TypeOK, ItemsInUse, NEW t \in Thread, pc[t] # "idle", NEW bufs, Leaves(t, bufs)
  PROVE  ItemsInUse'
<1>1. \A u \in Thread \ {t} : pc'[u] = pc[u] /\ file'[u] = file[u]
  BY DEF Leaves, TypeOK
<1>2. pc'[t] = "idle" /\ file'[t] = NoFile /\ file[t] \in File
  BY ReadIsCounted DEF Leaves, TypeOK
<1>3. \A f \in File : Readers(f)' = Readers(f) \ {t}
  BY <1>1, <1>2 DEF Readers
<1>4. \A f \in File : t \in Readers(f) <=> f = file[t]
  BY <1>2 DEF Readers
<1>5. \A f \in File : Cardinality(Readers(f)')
                      = Cardinality(Readers(f)) - (IF f = file[t] THEN 1 ELSE 0)
  BY <1>3, <1>4, ReadersFinite, FS_RemoveElement
<1>6. \A f \in File : access_count'[f] = (IF f \in opened' THEN 1 ELSE 0)
                                          + Cardinality(Readers(f)')
  BY <1>5, ReadersFinite DEF Leaves, ItemsInUse, TypeOK
<1>7. open_list' = opened'
  BY DEF Leaves, ItemsInUse
<1>8. \A u \in Thread : pc'[u] # "idle" => file'[u] \in opened' /\ Own(u)' \in read_list'
  BY <1>1, <1>2 DEF ItemsInUse, Leaves, Own
<1> QED  BY <1>6, <1>7, <1>8 DEF ItemsInUse

(* The counts of the files, when no read begins or ends.                   *)
LEMMA ItemsStay ==
  ASSUME TypeOK, ItemsInUse, file' = file,
         \A t \in Thread : pc'[t] = "idle" <=> pc[t] = "idle",
         UNCHANGED fileVars, read_list \subseteq read_list'
  PROVE  ItemsInUse'
<1>1. \A f \in File : Readers(f)' = Readers(f)
  BY DEF Readers
<1>2. \A t \in Thread : pc'[t] # "idle" => file'[t] \in opened' /\ Own(t)' \in read_list'
  BY DEF ItemsInUse, fileVars, Own
<1> QED  BY <1>1, <1>2 DEF ItemsInUse, fileVars

LEMMA ItemsEnter ==
  ASSUME TypeOK, ItemsInUse, NEW t \in Thread, NEW f \in File, ReadEnter(t, f)
  PROVE  ItemsInUse'
<1>1. /\ pc[t] = "idle" /\ f \in opened /\ file' = [file EXCEPT ![t] = f]
      /\ access_count' = [access_count EXCEPT ![f] = @ + 1]
      /\ UNCHANGED <<opened, open_list>>
      /\ \E l \in {"take", "announce"} : pc' = [pc EXCEPT ![t] = l]
      /\ read_list' = read_list \cup {<<t, f>>}
  BY DEF ReadEnter, Goto, NewQueue, queueVars
<1>2. \A u \in Thread \ {t} : pc'[u] = pc[u] /\ file'[u] = file[u]
  BY <1>1 DEF TypeOK
<1>3. pc'[t] # "idle" /\ file'[t] = f
  BY <1>1 DEF TypeOK
<1>4. \A g \in File : Readers(g)' = IF g = f THEN Readers(g) \cup {t} ELSE Readers(g)
  BY <1>1, <1>2, <1>3 DEF Readers
<1>5. t \notin Readers(f)
  BY <1>1 DEF Readers
<1>6. \A g \in File : Cardinality(Readers(g)')
                      = Cardinality(Readers(g)) + (IF g = f THEN 1 ELSE 0)
  BY <1>4, <1>5, ReadersFinite, FS_AddElement
<1>7. \A g \in File : access_count'[g] = (IF g \in opened' THEN 1 ELSE 0)
                                          + Cardinality(Readers(g)')
  BY <1>1, <1>6, ReadersFinite DEF ItemsInUse, TypeOK
<1>8. \A u \in Thread : pc'[u] # "idle" => file'[u] \in opened' /\ Own(u)' \in read_list'
  BY <1>1, <1>2, <1>3 DEF ItemsInUse, Own
<1> QED  BY <1>1, <1>7, <1>8 DEF ItemsInUse

LEMMA ItemsOpen ==
  ASSUME TypeOK, ItemsInUse, NEW f \in File, Open(f)
  PROVE  ItemsInUse'
<1>1. f \notin open_list /\ f \notin opened
  BY DEF Open, ItemsInUse
<1>2. Readers(f) = {}
  BY <1>1 DEF Readers, ItemsInUse
<1>3. \A g \in File : Readers(g)' = Readers(g)
  BY DEF Readers, Open
<1>4. \A g \in File : access_count'[g] = (IF g \in opened' THEN 1 ELSE 0)
                                          + Cardinality(Readers(g)')
  BY <1>1, <1>2, <1>3, FS_EmptySet, ReadersFinite DEF Open, ItemsInUse, TypeOK
<1>5. \A u \in Thread : pc'[u] # "idle" => file'[u] \in opened' /\ Own(u)' \in read_list'
  BY DEF ItemsInUse, Own, Open, queueVars
<1>6. open_list' = opened'
  BY DEF Open, ItemsInUse
<1> QED  BY <1>4, <1>5, <1>6 DEF ItemsInUse

LEMMA ItemsRelease ==
  ASSUME TypeOK, ItemsInUse, NEW f \in File, Release(f)
  PROVE  /\ ItemsInUse' /\ Freed(f, list_buffers)
<1>1. access_count[f] = 1
  BY FreeOfReaders DEF Release
<1>2. /\ Freed(f, list_buffers) /\ access_count' = [access_count EXCEPT ![f] = @ - 1]
      /\ opened' = opened \ {f} /\ \A t \in Thread : file[t] # f
      /\ UNCHANGED <<pc, file>>
  BY <1>1 DEF Release, GiveBack
<1>3. Readers(f) = {} /\ \A g \in File : Readers(g)' = Readers(g)
  BY <1>2 DEF Readers
<1>4. \A g \in File : access_count'[g] = (IF g \in opened' THEN 1 ELSE 0)
                                          + Cardinality(Readers(g)')
  BY <1>1, <1>2, <1>3, FS_EmptySet, ReadersFinite DEF ItemsInUse, TypeOK
<1>5. \A u \in Thread : pc'[u] # "idle" => file'[u] \in opened' /\ Own(u)' \in read_list'
  BY <1>2 DEF ItemsInUse, Own, Freed
<1>6. open_list' = opened'
  BY <1>2 DEF Freed, ItemsInUse
<1> QED  BY <1>2, <1>4, <1>5, <1>6 DEF ItemsInUse

-----------------------------------------------------------------------------
(* A step of t in a read of f touches nothing of other threads and queues. *)
OnlyOf(t, f) ==
  /\ UNCHANGED <<is_releasing, opened>>
  /\ \A u \in Thread \ {t} :
       /\ pc'[u] = pc[u] /\ file'[u] = file[u] /\ taken'[u] = taken[u]
       /\ (u \in missed' <=> u \in missed)
  /\ \A q \in Queue \ {<<t, f>>} :
       /\ list_buffers'[q] = list_buffers[q]
       /\ num_pending_waits'[q] = num_pending_waits[q]
       /\ read_completion'[q] = read_completion[q]
       /\ (q \in read_list' <=> q \in read_list)
       /\ (q \in interrupted' <=> q \in interrupted)
  /\ file[t] \in {f, NoFile} /\ file'[t] \in {f, NoFile}

LEMMA OtherQueues ==
  ASSUME NEW t \in Thread, NEW f \in File, OnlyOf(t, f),
         NEW q \in Queue \ {<<t, f>>}, QueueOK(q)
  PROVE  QueueOK(q)'
<1>1. PICK u \in Thread, g \in File : q = <<u, g>>
  BY DEF Queue
<1>2. g # NoFile /\ (u = t => g # f)
  BY <1>1, FileAssumption
<1>3. /\ list_buffers'[q] = list_buffers[q]
      /\ num_pending_waits'[q] = num_pending_waits[q]
      /\ read_completion'[q] = read_completion[q]
      /\ (q \in read_list' <=> q \in read_list)
      /\ (q \in interrupted' <=> q \in interrupted)
  BY Zenon DEF OnlyOf
<1>4. /\ ((pc'[u] = "sleep" /\ file'[u] = g) <=> (pc[u] = "sleep" /\ file[u] = g))
      /\ ((pc'[u] = "copy" /\ file'[u] = g) <=> (pc[u] = "copy" /\ file[u] = g))
  <2>1. CASE u = t
    BY <1>2, <2>1 DEF OnlyOf
  <2>2. CASE u # t
    BY <2>2, Zenon DEF OnlyOf
  <2> QED  BY <2>1, <2>2
<1>5. /\ (Sleeps(q)' <=> Sleeps(q))
      /\ (Copies(q)' <=> Copies(q))
  BY <1>1, <1>4 DEF Sleeps, Copies
<1>6. WakeUps(q)' = WakeUps(q)
  BY <1>3 DEF WakeUps
<1>7. is_releasing' = is_releasing /\ opened' = opened
  BY DEF OnlyOf
<1> QED  BY <1>3, <1>5, <1>6, <1>7 DEF QueueOK

LEMMA OtherThreads ==
  ASSUME NEW t \in Thread, NEW f \in File, OnlyOf(t, f), file \in [Thread -> File \cup {NoFile}],
         NEW u \in Thread \ {t}, ThreadOK(u)
  PROVE  ThreadOK(u)'
<1>1. /\ pc'[u] = pc[u] /\ file'[u] = file[u] /\ taken'[u] = taken[u]
      /\ (u \in missed' <=> u \in missed)
      /\ is_releasing' = is_releasing
  BY Zenon DEF OnlyOf
<1>2. Own(u)' = Own(u)
  BY <1>1 DEF Own
<1>3. CASE file[u] = NoFile
  BY <1>1, <1>3 DEF ThreadOK
<1>4. CASE file[u] # NoFile
  <2>1. Own(u) \in Queue \ {<<t, f>>}
    BY <1>4 DEF Own, Queue
  <2>2. /\ list_buffers'[Own(u)] = list_buffers[Own(u)]
        /\ num_pending_waits'[Own(u)] = num_pending_waits[Own(u)]
        /\ read_completion'[Own(u)] = read_completion[Own(u)]
        /\ (Own(u) \in interrupted' <=> Own(u) \in interrupted)
    BY <2>1, Zenon DEF OnlyOf
  <2> QED  BY <1>1, <1>2, <2>2 DEF ThreadOK
<1> QED  BY <1>3, <1>4

(* So such a step keeps the invariant if it does so for t and its queue.   *)
LEMMA OwnSuffices ==
  ASSUME ReaderInv, TypeOK', ItemsInUse', bound' = bound,
         NEW t \in Thread, NEW f \in File, OnlyOf(t, f),
         QueueOK(<<t, f>>)', ThreadOK(t)'
  PROVE  ReaderInv'
<1>1. /\ TypeOK /\ MarkedBySignal
      /\ \A q \in Queue : QueueOK(q)
      /\ \A u \in Thread : ThreadOK(u)
  BY ByQueueAndThread DEF PartsOK
<1>2. \A q \in Queue : QueueOK(q)'
  BY <1>1, OtherQueues
<1>3. \A u \in Thread : ThreadOK(u)'
  <2>1. file \in [Thread -> File \cup {NoFile}]
    BY <1>1 DEF TypeOK
  <2> QED  BY <1>1, <2>1, OtherThreads
<1>4. MarkedBySignal'
  BY <1>1 DEF MarkedBySignal, OnlyOf
<1>5. PartsOK'
  BY <1>2, <1>3, <1>4 DEF PartsOK
<1> QED  BY <1>5, ByQueueAndThread, PTL

(* What a thread in read knows of itself.                                  *)
LEMMA OwnFacts ==
  ASSUME ReaderInv, NEW t \in Thread, pc[t] # "idle"
  PROVE  /\ TypeOK /\ ItemsInUse
         /\ file[t] \in File /\ file[t] \in opened /\ Own(t) = <<t, file[t]>>
         /\ Own(t) \in Queue /\ Own(t) \in read_list
         /\ QueueOK(Own(t)) /\ ThreadOK(t)
         /\ (Sleeps(Own(t)) <=> pc[t] = "sleep")
         /\ (Copies(Own(t)) <=> pc[t] = "copy")
         /\ list_buffers[Own(t)] \in Seq(Nat) /\ read_completion[Own(t)] \in Nat
         /\ num_pending_waits[Own(t)] \in {0, 1}
<1>1. TypeOK /\ ItemsInUse /\ \A q \in Queue : QueueOK(q)
  BY ByQueueAndThread DEF PartsOK
<1>2. ThreadOK(t)
  BY ByQueueAndThread DEF PartsOK
<1>3. opened \subseteq File
  BY <1>1 DEF TypeOK
<1>4. /\ file[t] \in File /\ file[t] \in opened
      /\ Own(t) \in Queue /\ Own(t) \in read_list
  BY <1>1, <1>3, ReadIsCounted
<1>5. Own(t) = <<t, file[t]>>
  BY DEF Own
<1>6. /\ (Sleeps(Own(t)) <=> pc[t] = "sleep")
      /\ (Copies(Own(t)) <=> pc[t] = "copy")
  BY <1>5 DEF Sleeps, Copies
<1>7. list_buffers[Own(t)] \in Seq(Nat) /\ read_completion[Own(t)] \in Nat
      /\ num_pending_waits[Own(t)] \in {0, 1}
  BY <1>1, <1>4 DEF TypeOK
<1> QED  BY <1>1, <1>2, <1>4, <1>5, <1>6, <1>7

-----------------------------------------------------------------------------
(* The steps of a read                                                     *)

(* A read that returns without a packet.                                   *)
LEMMA EmptyHanded ==
  ASSUME ReaderInv, NEW t \in Thread, pc[t] \in {"announce", "give_up", "take"},
         GiveBack(file[t], list_buffers), Return(t), taken' = taken
  PROVE  ReaderInv'
<1> PICK f \in File : file[t] = f /\ f \in opened
  BY OwnFacts
<1>1. /\ TypeOK /\ ItemsInUse /\ Own(t) = <<t, f>> /\ <<t, f>> \in read_list
      /\ QueueOK(<<t, f>>) /\ ThreadOK(t)
      /\ ~Sleeps(<<t, f>>) /\ ~Copies(<<t, f>>)
  BY OwnFacts
<1>2. Leaves(t, list_buffers)
  BY <1>1, LeavesEffect
<1>3. pc'[t] = "idle" /\ file'[t] = NoFile
  BY <1>1, <1>2 DEF Leaves, TypeOK
<1>4. TypeOK'
  BY <1>1, <1>2 DEF Leaves, TypeOK, Label
<1>5. ItemsInUse'
  BY <1>1, <1>2, ItemsLeave
<1>6. OnlyOf(t, f)
  BY <1>1, <1>2, <1>3 DEF OnlyOf, Leaves, TypeOK
<1>7. ~Sleeps(<<t, f>>)' /\ ~Copies(<<t, f>>)'
  BY <1>3 DEF Sleeps, Copies
<1>8. QueueOK(<<t, f>>)'
  <2>1. WakeUps(<<t, f>>)' = WakeUps(<<t, f>>)
    BY <1>2 DEF Leaves, WakeUps
  <2> QED  BY <1>1, <1>2, <1>7, <2>1 DEF QueueOK, Leaves
<1>9. ThreadOK(t)'
  BY <1>1, <1>3 DEF ThreadOK
<1> QED  BY <1>2, <1>4, <1>5, <1>6, <1>8, <1>9, OwnSuffices DEF Leaves

(* A packet that came since the look is there, or none did.                *)
LEMMA AnnounceStep ==
  ASSUME ReaderInv, NEW t \in Thread, Announce(t)
  PROVE  ReaderInv'
<1>0. pc[t] = "announce" /\ pc' = [pc EXCEPT ![t] = "sleep"]
  BY DEF Announce, Goto
<1> PICK f \in File : file[t] = f /\ f \in opened
  BY <1>0, OwnFacts
<1>1. /\ TypeOK /\ ItemsInUse /\ Own(t) = <<t, f>> /\ <<t, f>> \in read_list
      /\ <<t, f>> \in Queue /\ QueueOK(<<t, f>>) /\ ThreadOK(t)
      /\ ~Sleeps(<<t, f>>) /\ ~Copies(<<t, f>>)
      /\ read_completion[<<t, f>>] \in Nat /\ num_pending_waits[<<t, f>>] \in {0, 1}
  BY <1>0, OwnFacts
<1>2. /\ num_pending_waits' = [num_pending_waits EXCEPT ![<<t, f>>] = 1]
      /\ UNCHANGED <<bound, packets, opened, open_list, access_count, is_releasing, read_list,
                     list_buffers, read_completion, file, taken, interrupted, missed>>
  BY <1>1 DEF Announce, fileVars
<1>3. /\ pc'[t] = "sleep" /\ \A u \in Thread \ {t} : pc'[u] = pc[u]
      /\ num_pending_waits'[<<t, f>>] = 1
      /\ \A q \in Queue \ {<<t, f>>} : num_pending_waits'[q] = num_pending_waits[q]
  BY <1>0, <1>1, <1>2 DEF TypeOK
<1>4. TypeOK'
  BY <1>0, <1>1, <1>2 DEF TypeOK, Label
<1>5. ItemsInUse'
  <2>1. \A u \in Thread : pc'[u] = "idle" <=> pc[u] = "idle"
    BY <1>0, <1>3
  <2> QED  BY <1>1, <1>2, <2>1, ItemsStay DEF fileVars
<1>6. OnlyOf(t, f)
  BY <1>2, <1>3 DEF OnlyOf
<1>7. Sleeps(<<t, f>>)' /\ ~Copies(<<t, f>>)'
  BY <1>2, <1>3 DEF Sleeps, Copies
<1>8. QueueOK(<<t, f>>)'
  <2>1. /\ WakeUps(<<t, f>>)' = 1 + read_completion[<<t, f>>]
        /\ WakeUps(<<t, f>>) = num_pending_waits[<<t, f>>] + read_completion[<<t, f>>]
    BY <1>2, <1>3 DEF WakeUps
  <2>2. /\ WakeUps(<<t, f>>) <= 1 + (IF is_releasing[f] THEN 1 ELSE 0)
        /\ <<t, f>> \notin interrupted /\ ~is_releasing[f] => WakeUps(<<t, f>>) = 0
    BY <1>1 DEF QueueOK
  <2>3. /\ WakeUps(<<t, f>>)' <= 2 + (IF is_releasing[f] THEN 1 ELSE 0)
        /\ <<t, f>> \notin interrupted /\ ~is_releasing[f] => WakeUps(<<t, f>>)' = 1
    BY <1>1, <2>1, <2>2
  <2> QED  BY <1>1, <1>2, <1>7, <2>3 DEF QueueOK
<1>9. ThreadOK(t)'
  <2>1. Own(t)' = <<t, f>>
    BY <1>2 DEF Own
  <2> QED  BY <1>0, <1>1, <1>2, <1>3, <2>1 DEF ThreadOK
<1> QED  BY <1>2, <1>4, <1>5, <1>6, <1>8, <1>9, OwnSuffices

(* The one completion there is has been taken; the packet it stands for is *)
(* there.                                                                  *)
LEMMA WokenStep ==
  ASSUME ReaderInv, NEW t \in Thread, Woken(t)
  PROVE  ReaderInv'
<1>0. pc[t] = "sleep" /\ \E l \in {"take", "give_up"} : pc' = [pc EXCEPT ![t] = l]
  BY DEF Woken, Goto
<1> PICK f \in File : file[t] = f /\ f \in opened
  BY <1>0, OwnFacts
<1>1. /\ TypeOK /\ ItemsInUse /\ Own(t) = <<t, f>> /\ <<t, f>> \in read_list
      /\ <<t, f>> \in Queue /\ QueueOK(<<t, f>>) /\ ThreadOK(t)
      /\ Sleeps(<<t, f>>) /\ ~Copies(<<t, f>>)
      /\ read_completion[<<t, f>>] \in Nat /\ num_pending_waits[<<t, f>>] \in {0, 1}
  BY <1>0, OwnFacts
<1>2. /\ read_completion[<<t, f>>] > 0
      /\ read_completion' = [read_completion EXCEPT ![<<t, f>>] = @ - 1]
      /\ UNCHANGED <<bound, packets, opened, open_list, access_count, is_releasing, read_list,
                     list_buffers, num_pending_waits, file, taken, interrupted, missed>>
  BY <1>1 DEF Woken, fileVars
<1>3. /\ pc'[t] \in {"take", "give_up"} /\ \A u \in Thread \ {t} : pc'[u] = pc[u]
      /\ read_completion'[<<t, f>>] = read_completion[<<t, f>>] - 1
      /\ \A q \in Queue \ {<<t, f>>} : read_completion'[q] = read_completion[q]
  BY <1>0, <1>1, <1>2 DEF TypeOK
<1>4. TypeOK'
  BY <1>0, <1>1, <1>2 DEF TypeOK, Label
<1>5. ItemsInUse'
  <2>1. \A u \in Thread : pc'[u] = "idle" <=> pc[u] = "idle"
    BY <1>0, <1>3
  <2> QED  BY <1>1, <1>2, <2>1, ItemsStay DEF fileVars
<1>6. OnlyOf(t, f)
  BY <1>2, <1>3 DEF OnlyOf
<1>7. ~Sleeps(<<t, f>>)' /\ ~Copies(<<t, f>>)'
  BY <1>3 DEF Sleeps, Copies
<1>8. WakeUps(<<t, f>>) = num_pending_waits[<<t, f>>] + read_completion[<<t, f>>]
  BY DEF WakeUps
<1>9. /\ WakeUps(<<t, f>>) <= 2 + (IF is_releasing[f] THEN 1 ELSE 0)
      /\ <<t, f>> \notin interrupted /\ ~is_releasing[f] => WakeUps(<<t, f>>) = 1
  BY <1>1 DEF QueueOK
<1>10. QueueOK(<<t, f>>)'
  <2>1. WakeUps(<<t, f>>)' = num_pending_waits[<<t, f>>] + (read_completion[<<t, f>>] - 1)
    BY <1>2, <1>3 DEF WakeUps
  <2>2. /\ WakeUps(<<t, f>>)' <= 1 + (IF is_releasing[f] THEN 1 ELSE 0)
        /\ <<t, f>> \notin interrupted /\ ~is_releasing[f] => WakeUps(<<t, f>>)' = 0
    BY <1>1, <1>8, <1>9, <2>1
  <2> QED  BY <1>1, <1>2, <1>7, <2>2 DEF QueueOK
<1>11. ThreadOK(t)'
  <2>1. is_releasing[f] \/ <<t, f>> \in interrupted \/ num_pending_waits[<<t, f>>] = 0
    BY <1>1, <1>2, <1>8, <1>9
  <2>2. is_releasing[f] \/ <<t, f>> \in interrupted \/ AnyReady(list_buffers[<<t, f>>])
    BY <1>0, <1>1, <2>1 DEF ThreadOK
  <2>3. Own(t)' = <<t, f>> /\ file'[t] = f
    BY <1>2 DEF Own
  <2> QED  BY <1>0, <1>1, <1>2, <1>3, <2>2, <2>3 DEF ThreadOK
<1> QED  BY <1>2, <1>4, <1>5, <1>6, <1>10, <1>11, OwnSuffices

LEMMA InterruptStep ==
  ASSUME ReaderInv, NEW t \in Thread, Interrupt(t)
  PROVE  ReaderInv'
<1>0. pc[t] = "sleep" /\ pc' = [pc EXCEPT ![t] = "give_up"]
  BY DEF Interrupt, Goto
<1> PICK f \in File : file[t] = f /\ f \in opened
  BY <1>0, OwnFacts
<1>1. /\ TypeOK /\ ItemsInUse /\ Own(t) = <<t, f>> /\ <<t, f>> \in read_list
      /\ <<t, f>> \in Queue /\ QueueOK(<<t, f>>) /\ ThreadOK(t)
      /\ Sleeps(<<t, f>>) /\ ~Copies(<<t, f>>)
      /\ read_completion[<<t, f>>] \in Nat /\ num_pending_waits[<<t, f>>] \in {0, 1}
  BY <1>0, OwnFacts
<1>2. /\ interrupted' = interrupted \cup {<<t, f>>} /\ read_completion[<<t, f>>] = 0
      /\ UNCHANGED <<bound, packets, opened, open_list, access_count, is_releasing, read_list,
                     list_buffers, num_pending_waits, read_completion, file, taken, missed>>
  BY <1>1 DEF Interrupt, fileVars, queueVars
<1>3. pc'[t] = "give_up" /\ \A u \in Thread \ {t} : pc'[u] = pc[u]
  BY <1>0, <1>1 DEF TypeOK
<1>4. TypeOK'
  BY <1>0, <1>1, <1>2 DEF TypeOK, Label
<1>5. ItemsInUse'
  <2>1. \A u \in Thread : pc'[u] = "idle" <=> pc[u] = "idle"
    BY <1>0, <1>3
  <2> QED  BY <1>1, <1>2, <2>1, ItemsStay DEF fileVars
<1>6. OnlyOf(t, f)
  BY <1>2, <1>3 DEF OnlyOf
<1>7. ~Sleeps(<<t, f>>)' /\ ~Copies(<<t, f>>)'
  BY <1>3 DEF Sleeps, Copies
<1>8. QueueOK(<<t, f>>)'
  <2>1. /\ WakeUps(<<t, f>>)' = WakeUps(<<t, f>>)
        /\ WakeUps(<<t, f>>) = num_pending_waits[<<t, f>>] + read_completion[<<t, f>>]
    BY <1>2 DEF WakeUps
  <2>2. WakeUps(<<t, f>>)' <= 1 /\ <<t, f>> \in interrupted'
    BY <1>1, <1>2, <2>1
  <2> QED  BY <1>1, <1>2, <1>7, <2>1, <2>2 DEF QueueOK
<1>9. ThreadOK(t)'
  BY <1>0, <1>1, <1>2, <1>3 DEF ThreadOK
<1> QED  BY <1>2, <1>4, <1>5, <1>6, <1>8, <1>9, OwnSuffices

(* The head goes, and it was ready.                                        *)
LEMMA TakeStep ==
  ASSUME ReaderInv, NEW t \in Thread, Take(t)
  PROVE  ReaderInv'
<1>0. pc[t] = "take" /\ pc' = [pc EXCEPT ![t] = "copy"]
  BY DEF Take, Goto
<1> PICK f \in File : file[t] = f /\ f \in opened
  BY <1>0, OwnFacts
<1> DEFINE b == list_buffers[<<t, f>>]
<1>1. /\ TypeOK /\ ItemsInUse /\ Own(t) = <<t, f>> /\ <<t, f>> \in read_list
      /\ <<t, f>> \in Queue /\ QueueOK(<<t, f>>) /\ ThreadOK(t)
      /\ ~Sleeps(<<t, f>>) /\ ~Copies(<<t, f>>) /\ b \in Seq(Nat)
  BY <1>0, OwnFacts
<1>2. /\ b # <<>> /\ IsReady(Head(b))
      /\ taken' = [taken EXCEPT ![t] = Head(b)]
      /\ list_buffers' = [list_buffers EXCEPT ![<<t, f>>] = Tail(b)]
      /\ UNCHANGED <<bound, packets, opened, open_list, access_count, is_releasing, read_list,
                     num_pending_waits, read_completion, file, interrupted, missed>>
  BY <1>1 DEF Take, fileVars
<1>3. Prefixed(b) /\ Len(b) = NumBuffers
  BY <1>1 DEF QueueOK
<1> DEFINE h == Head(b)
           c == Tail(b)
<1>4. c \in Seq(Nat) /\ Len(c) = NumBuffers - 1 /\ Prefixed(c) /\ h \in Nat /\ IsReady(h)
  BY <1>1, <1>2, <1>3, TailEffect
<1>5. /\ taken' = [taken EXCEPT ![t] = h]
      /\ list_buffers' = [list_buffers EXCEPT ![<<t, f>>] = c]
  BY <1>2
<1> HIDE DEF b, c, h
<1>6. /\ pc'[t] = "copy" /\ taken'[t] = h /\ list_buffers'[<<t, f>>] = c
      /\ \A u \in Thread \ {t} : pc'[u] = pc[u] /\ taken'[u] = taken[u]
      /\ \A q \in Queue \ {<<t, f>>} : list_buffers'[q] = list_buffers[q]
  BY <1>0, <1>1, <1>5 DEF TypeOK
<1>7. TypeOK'
  <2>1. list_buffers' \in [Queue -> Seq(Nat)] /\ taken' \in [Thread -> Nat]
    BY <1>1, <1>4, <1>5 DEF TypeOK
  <2>2. \A q \in Queue : Len(list_buffers'[q]) <= NumBuffers
    <3>1. \A q \in Queue : Len(list_buffers[q]) <= NumBuffers
      BY <1>1 DEF TypeOK
    <3>2. Len(c) <= NumBuffers
      BY <1>4, BuffersAssumption
    <3> QED  BY <3>1, <3>2, <1>6
  <2> QED  BY <1>0, <1>1, <1>2, <2>1, <2>2 DEF TypeOK, Label
<1>8. ItemsInUse'
  <2>1. \A u \in Thread : pc'[u] = "idle" <=> pc[u] = "idle"
    BY <1>0, <1>6
  <2> QED  BY <1>1, <1>2, <2>1, ItemsStay DEF fileVars
<1>9. OnlyOf(t, f)
  BY <1>2, <1>6 DEF OnlyOf
<1>10. ~Sleeps(<<t, f>>)' /\ Copies(<<t, f>>)'
  BY <1>2, <1>6 DEF Sleeps, Copies
<1>11. QueueOK(<<t, f>>)'
  <2>1. WakeUps(<<t, f>>)' = WakeUps(<<t, f>>)
    BY <1>2 DEF WakeUps
  <2>2. /\ WakeUps(<<t, f>>)' <= 1 + (IF is_releasing[f] THEN 1 ELSE 0)
        /\ <<t, f>> \notin interrupted /\ ~is_releasing[f] => WakeUps(<<t, f>>)' = 0
    BY <1>1, <2>1 DEF QueueOK
  <2>3. UNCHANGED <<is_releasing, opened, interrupted, read_list>>
    BY <1>2
  <2> QED  BY <1>1, <1>4, <1>6, <1>10, <2>2, <2>3 DEF QueueOK
<1>12. ThreadOK(t)'
  BY <1>2, <1>4, <1>6, FileAssumption DEF ThreadOK
<1> QED  BY <1>2, <1>7, <1>8, <1>9, <1>11, <1>12, OwnSuffices

LEMMA PutBackStep ==
  ASSUME ReaderInv, NEW t \in Thread, PutBack(t)
  PROVE  ReaderInv'
<1>0. pc[t] = "copy" /\ Return(t) /\ taken' = [taken EXCEPT ![t] = NotReady]
  BY DEF PutBack
<1> PICK f \in File : file[t] = f /\ f \in opened
  BY <1>0, OwnFacts
<1> DEFINE b == list_buffers[<<t, f>>]
<1>1. /\ TypeOK /\ ItemsInUse /\ Own(t) = <<t, f>> /\ <<t, f>> \in read_list
      /\ <<t, f>> \in Queue /\ QueueOK(<<t, f>>) /\ ThreadOK(t)
      /\ ~Sleeps(<<t, f>>) /\ Copies(<<t, f>>) /\ b \in Seq(Nat)
  BY <1>0, OwnFacts
<1> DEFINE c == Append(b, NotReady)
           bufs == [list_buffers EXCEPT ![<<t, f>>] = c]
<1>2. Leaves(t, bufs)
  <2>1. GiveBack(file[t], bufs)
    BY <1>1 DEF PutBack
  <2> HIDE DEF bufs
  <2> QED  BY <1>0, <1>1, <2>1, LeavesEffect
<1>3. Prefixed(b) /\ Len(b) = NumBuffers - 1
  BY <1>1 DEF QueueOK
<1>4. c \in Seq(Nat) /\ Len(c) = NumBuffers /\ Prefixed(c)
  <2>1. c \in Seq(Nat) /\ Len(c) = Len(b) + 1 /\ Prefixed(c)
    BY <1>1, <1>3, AppendEffect
  <2> HIDE DEF b, c
  <2> QED  BY <1>3, <2>1, BuffersAssumption
<1> HIDE DEF b, c
<1>5. /\ pc'[t] = "idle" /\ file'[t] = NoFile /\ list_buffers'[<<t, f>>] = c
      /\ taken'[t] = NotReady
      /\ \A u \in Thread \ {t} : pc'[u] = pc[u] /\ file'[u] = file[u] /\ taken'[u] = taken[u]
      /\ \A q \in Queue \ {<<t, f>>} : list_buffers'[q] = list_buffers[q]
  BY <1>0, <1>1, <1>2 DEF TypeOK, Leaves
<1>6. TypeOK'
  <2>1. list_buffers' \in [Queue -> Seq(Nat)] /\ taken' \in [Thread -> Nat]
    BY <1>0, <1>1, <1>2, <1>4 DEF TypeOK, Leaves, NotReady
  <2>2. \A q \in Queue : Len(list_buffers'[q]) <= NumBuffers
    <3>1. \A q \in Queue : Len(list_buffers[q]) <= NumBuffers
      BY <1>1 DEF TypeOK
    <3>2. Len(c) <= NumBuffers
      BY <1>4, BuffersAssumption
    <3> QED  BY <3>1, <3>2, <1>5
  <2>3. /\ access_count' \in [File -> Int] /\ pc' \in [Thread -> Label]
        /\ file' \in [Thread -> File \cup {NoFile}]
    BY <1>1, <1>2 DEF TypeOK, Label, Leaves
  <2>4. UNCHANGED <<bound, packets, opened, open_list, is_releasing, read_list,
                    num_pending_waits, read_completion, interrupted, missed>>
    BY <1>2 DEF Leaves
  <2> QED  BY <1>1, <2>1, <2>2, <2>3, <2>4 DEF TypeOK
<1>7. ItemsInUse'
  <2> HIDE DEF bufs
  <2> QED  BY <1>0, <1>1, <1>2, ItemsLeave
<1>8. OnlyOf(t, f)
  BY <1>2, <1>5 DEF OnlyOf, Leaves
<1>9. ~Sleeps(<<t, f>>)' /\ ~Copies(<<t, f>>)'
  BY <1>5 DEF Sleeps, Copies
<1>10. QueueOK(<<t, f>>)'
  <2>1. WakeUps(<<t, f>>)' = WakeUps(<<t, f>>)
    BY <1>2 DEF WakeUps, Leaves
  <2>2. /\ WakeUps(<<t, f>>)' <= 1 + (IF is_releasing[f] THEN 1 ELSE 0)
        /\ <<t, f>> \notin interrupted /\ ~is_releasing[f] => WakeUps(<<t, f>>)' = 0
    BY <1>1, <2>1 DEF QueueOK
  <2>3. UNCHANGED <<is_releasing, opened, interrupted, read_list>>
    BY <1>2 DEF Leaves
  <2> QED  BY <1>1, <2>3, <1>4, <1>5, <1>9, <2>2 DEF QueueOK
<1>11. ThreadOK(t)'
  BY <1>5 DEF ThreadOK, IsReady
<1>12. bound' = bound
  BY <1>2 DEF Leaves
<1> QED  BY <1>12, <1>6, <1>7, <1>8, <1>10, <1>11, OwnSuffices

-----------------------------------------------------------------------------
(* The steps that may make a queue                                         *)

(* A new queue: all of its buffers are free, nobody waits on it.           *)
LEMMA NewQueueEffect ==
  ASSUME TypeOK, NEW q \in Queue, NewQueue(q)
  PROVE  /\ read_list' = read_list \cup {q}
         /\ list_buffers'[q] = Empty
         /\ num_pending_waits'[q] = 0 /\ read_completion'[q] = 0
         /\ \A p \in Queue \ {q} : /\ list_buffers'[p] = list_buffers[p]
                                  /\ num_pending_waits'[p] = num_pending_waits[p]
                                  /\ read_completion'[p] = read_completion[p]
         /\ read_list' \subseteq Queue
         /\ list_buffers' \in [Queue -> Seq(Nat)]
         /\ \A p \in Queue : Len(list_buffers'[p]) <= NumBuffers
         /\ num_pending_waits' \in [Queue -> {0, 1}]
         /\ read_completion' \in [Queue -> Nat]
<1>1. list_buffers' = [list_buffers EXCEPT ![q] = Empty]
  BY DEF NewQueue, Empty
<1>2. Empty \in Seq(Nat) /\ Len(Empty) = NumBuffers /\ NumBuffers \in Nat
  BY EmptyEffect, BuffersAssumption
<1>3. list_buffers' \in [Queue -> Seq(Nat)]
  BY <1>1, <1>2 DEF TypeOK
<1>4. /\ list_buffers'[q] = Empty
      /\ \A p \in Queue \ {q} : list_buffers'[p] = list_buffers[p]
  BY <1>1 DEF TypeOK
<1>5. \A p \in Queue : Len(list_buffers'[p]) <= NumBuffers
  <2>1. \A p \in Queue : Len(list_buffers[p]) <= NumBuffers
    BY DEF TypeOK
  <2> QED  BY <2>1, <1>2, <1>4
<1>6. /\ read_list' = read_list \cup {q}
      /\ num_pending_waits' = [num_pending_waits EXCEPT ![q] = 0]
      /\ read_completion' = [read_completion EXCEPT ![q] = 0]
  BY DEF NewQueue
<1>7. /\ num_pending_waits'[q] = 0 /\ read_completion'[q] = 0
      /\ \A p \in Queue \ {q} : /\ num_pending_waits'[p] = num_pending_waits[p]
                               /\ read_completion'[p] = read_completion[p]
      /\ read_list' \subseteq Queue
      /\ num_pending_waits' \in [Queue -> {0, 1}]
      /\ read_completion' \in [Queue -> Nat]
  BY <1>6 DEF TypeOK
<1> QED  BY <1>3, <1>4, <1>5, <1>6, <1>7

LEMMA NewQueueOK ==
  ASSUME TypeOK, NEW q \in Queue, q[2] \in opened', NewQueue(q), ~Sleeps(q)', ~Copies(q)'
  PROVE  QueueOK(q)'
<1>1. /\ q \in read_list' /\ list_buffers'[q] = Empty
      /\ num_pending_waits'[q] = 0 /\ read_completion'[q] = 0
  BY NewQueueEffect
<1>2. Len(list_buffers'[q]) = NumBuffers /\ Prefixed(list_buffers'[q])
  BY <1>1, EmptyEffect
<1>3. WakeUps(q)' = 0
  BY <1>1 DEF WakeUps
<1> QED  BY <1>1, <1>2, <1>3 DEF QueueOK

LEMMA PollStep ==
  ASSUME ReaderInv, NEW t \in Thread, NEW f \in File, PollCreates(t, f)
  PROVE  ReaderInv'
<1>1. TypeOK /\ ItemsInUse /\ ThreadOK(t)
  BY ByQueueAndThread DEF PartsOK
<1>2. /\ pc[t] = "idle" /\ f \in opened /\ NewQueue(<<t, f>>) /\ <<t, f>> \in Queue
      /\ UNCHANGED <<bound, packets, opened, open_list, access_count, is_releasing, pc, file,
                     taken, interrupted, missed>>
  BY DEF PollCreates, fileVars, Queue
<1>3. file[t] = NoFile
  BY <1>1, <1>2 DEF ThreadOK
<1>4. TypeOK'
  BY <1>1, <1>2, NewQueueEffect DEF TypeOK
<1>5. ItemsInUse'
  BY <1>1, <1>2, NewQueueEffect, ItemsStay DEF fileVars
<1>6. OnlyOf(t, f)
  BY <1>1, <1>2, <1>3, NewQueueEffect DEF OnlyOf
<1>7. QueueOK(<<t, f>>)'
  BY <1>1, <1>2, NewQueueOK DEF Sleeps, Copies
<1>8. ThreadOK(t)'
  BY <1>1, <1>2 DEF ThreadOK
<1> QED  BY <1>2, <1>4, <1>5, <1>6, <1>7, <1>8, OwnSuffices

LEMMA EnterStep ==
  ASSUME ReaderInv, NEW t \in Thread, NEW f \in File, ReadEnter(t, f)
  PROVE  ReaderInv'
<1>1. TypeOK /\ ItemsInUse /\ ThreadOK(t) /\ QueueOK(<<t, f>>)
  BY ByQueueAndThread DEF PartsOK, Queue
<1>2. /\ pc[t] = "idle" /\ f \in opened /\ <<t, f>> \in Queue
      /\ access_count' = [access_count EXCEPT ![f] = @ + 1]
      /\ file' = [file EXCEPT ![t] = f] /\ missed' = missed \ {t}
      /\ UNCHANGED <<bound, packets, opened, open_list, is_releasing, taken, interrupted>>
  BY DEF ReadEnter, Queue
<1>3. PICK l \in {"take", "announce"} :
        /\ pc' = [pc EXCEPT ![t] = l]
        /\ \/ l = "announce" /\ NewQueue(<<t, f>>)
           \/ /\ <<t, f>> \in read_list
              /\ l = IF AnyReady(list_buffers[<<t, f>>]) THEN "take" ELSE "announce"
              /\ UNCHANGED queueVars
  BY DEF ReadEnter, Goto, HasReady, AnyReady
<1>4. file[t] = NoFile /\ taken[t] = NotReady
  BY <1>1, <1>2 DEF ThreadOK, IsReady
<1>5. /\ pc'[t] = l /\ file'[t] = f
      /\ \A u \in Thread \ {t} : pc'[u] = pc[u] /\ file'[u] = file[u]
  BY <1>1, <1>2, <1>3 DEF TypeOK
<1>6. ItemsInUse'
  BY <1>1, ItemsEnter
<1>7. ~Sleeps(<<t, f>>)' /\ ~Copies(<<t, f>>)'
  BY <1>5 DEF Sleeps, Copies
<1>8. /\ read_list' \subseteq Queue
      /\ list_buffers' \in [Queue -> Seq(Nat)]
      /\ \A p \in Queue : Len(list_buffers'[p]) <= NumBuffers
      /\ num_pending_waits' \in [Queue -> {0, 1}]
      /\ read_completion' \in [Queue -> Nat]
  <2>1. CASE NewQueue(<<t, f>>)
    BY <1>1, <1>2, <2>1, NewQueueEffect
  <2>2. CASE UNCHANGED queueVars
    BY <1>1, <2>2 DEF TypeOK, queueVars
  <2> QED  BY <1>3, <2>1, <2>2
<1>9. TypeOK'
  <2>1. /\ pc' \in [Thread -> Label] /\ file' \in [Thread -> File \cup {NoFile}]
        /\ access_count' \in [File -> Int] /\ missed' \subseteq Thread
    BY <1>1, <1>2, <1>3 DEF TypeOK, Label
  <2> QED  BY <1>1, <1>2, <1>8, <2>1 DEF TypeOK
<1>10. OnlyOf(t, f)
  <2>1. \A q \in Queue \ {<<t, f>>} : /\ list_buffers'[q] = list_buffers[q]
                                     /\ num_pending_waits'[q] = num_pending_waits[q]
                                     /\ read_completion'[q] = read_completion[q]
                                     /\ (q \in read_list' <=> q \in read_list)
    <3>1. CASE NewQueue(<<t, f>>)
      BY <1>1, <1>2, <3>1, NewQueueEffect
    <3>2. CASE UNCHANGED queueVars
      BY <3>2 DEF queueVars
    <3> QED  BY <1>3, <3>1, <3>2
  <2> QED  BY <2>1, <1>2, <1>4, <1>5 DEF OnlyOf
<1>11. QueueOK(<<t, f>>)' /\ ThreadOK(t)'
  <2>1. Own(t)' = <<t, f>>
    BY <1>5 DEF Own
  <2>2. f # NoFile /\ t \notin missed' /\ taken'[t] = NotReady
    BY <1>2, <1>4, FileAssumption
  <2>3. CASE l = "announce" /\ NewQueue(<<t, f>>)
    <3>1. ~AnyReady(list_buffers'[<<t, f>>])
      BY <1>1, <1>2, <2>3, NewQueueEffect, EmptyEffect
    <3>2. ThreadOK(t)'
      BY <1>5, <2>1, <2>2, <2>3, <3>1 DEF ThreadOK, IsReady
    <3>3. QueueOK(<<t, f>>)'
      BY <1>1, <1>2, <1>7, <2>3, NewQueueOK
    <3> QED  BY <3>2, <3>3
  <2>4. CASE /\ <<t, f>> \in read_list
             /\ l = IF AnyReady(list_buffers[<<t, f>>]) THEN "take" ELSE "announce"
             /\ UNCHANGED queueVars
    <3>1. UNCHANGED <<read_list, list_buffers, num_pending_waits, read_completion>>
      BY <2>4 DEF queueVars
    <3>2. ThreadOK(t)'
      BY <1>5, <2>1, <2>2, <2>4, <3>1 DEF ThreadOK, IsReady
    <3>3. WakeUps(<<t, f>>)' = WakeUps(<<t, f>>)
      BY <3>1 DEF WakeUps
    <3>4. ~Sleeps(<<t, f>>) /\ ~Copies(<<t, f>>)
      BY <1>2 DEF Sleeps, Copies
    <3>5. QueueOK(<<t, f>>)'
      BY <1>1, <1>2, <1>7, <3>1, <3>3, <3>4 DEF QueueOK
    <3> QED  BY <3>2, <3>5
  <2> QED  BY <1>3, <2>3, <2>4
<1> QED  BY <1>2, <1>6, <1>9, <1>10, <1>11, OwnSuffices

-----------------------------------------------------------------------------
(* The steps of the device, and of the files                               *)

(* A packet comes to every queue, and completes the waits announced.       *)
LEMMA FillStep ==
  ASSUME ReaderInv, Fill
  PROVE  ReaderInv'
<1>1. /\ TypeOK /\ ItemsInUse /\ MarkedBySignal
      /\ \A q \in Queue : QueueOK(q)
      /\ \A t \in Thread : ThreadOK(t)
  BY ByQueueAndThread DEF PartsOK
<1>2. UNCHANGED <<bound, opened, open_list, access_count, is_releasing, read_list, pc, file, taken,
                  interrupted>>
  BY DEF Fill, fileVars
<1>3. packets' \in Nat /\ packets' = packets + 1 /\ packets' \in Nat \ {0}
  BY <1>1 DEF Fill, TypeOK
<1>4. ASSUME NEW q \in Queue
      PROVE  /\ list_buffers'[q] \in Seq(Nat) /\ Len(list_buffers'[q]) = Len(list_buffers[q])
             /\ q \in read_list /\ Prefixed(list_buffers[q]) => Prefixed(list_buffers'[q])
             /\ q \in read_list => AnyReady(list_buffers'[q])
             /\ q \notin read_list => list_buffers'[q] = <<>>
  <2>1. list_buffers'[q] = IF q \in read_list THEN Filled(list_buffers[q], packets') ELSE <<>>
    BY <1>3 DEF Fill
  <2>2. list_buffers[q] \in Seq(Nat)
    BY <1>1 DEF TypeOK
  <2>3. CASE q \in read_list
    <3>1. Len(list_buffers[q]) \in {NumBuffers, NumBuffers - 1}
      BY <1>1, <2>3 DEF QueueOK
    <3>2. Len(list_buffers[q]) > 0
      BY <3>1, BuffersAssumption
    <3> QED  BY <1>3, <2>1, <2>2, <2>3, <3>2, FilledEffect
  <2>4. CASE q \notin read_list
    BY <1>1, <2>1, <2>4 DEF QueueOK
  <2> QED  BY <2>3, <2>4
<1>5. \A q \in Queue :
        /\ num_pending_waits'[q] = (IF Wakes(q) THEN 0 ELSE num_pending_waits[q])
        /\ read_completion'[q] = read_completion[q] + (IF Wakes(q) THEN 1 ELSE 0)
        /\ num_pending_waits[q] \in {0, 1} /\ read_completion[q] \in Nat
  BY <1>1 DEF Fill, TypeOK
<1>6. TypeOK'
  <2>1. list_buffers' \in [Queue -> Seq(Nat)]
    <3>1. list_buffers' = [q \in Queue |-> list_buffers'[q]]
      BY DEF Fill
    <3> QED  BY <3>1, <1>4
  <2>2. \A q \in Queue : Len(list_buffers'[q]) <= NumBuffers
    BY <1>1, <1>4 DEF TypeOK
  <2>3. num_pending_waits' \in [Queue -> {0, 1}] /\ read_completion' \in [Queue -> Nat]
    BY <1>1 DEF Fill, TypeOK
  <2>4. missed' \subseteq Thread
    BY <1>1 DEF Fill, TypeOK
  <2> QED  BY <1>1, <1>2, <1>3, <2>1, <2>2, <2>3, <2>4 DEF TypeOK
<1>7. ItemsInUse'
  BY <1>1, <1>2, ItemsStay DEF fileVars
<1>8. MarkedBySignal'
  BY <1>1, <1>2 DEF MarkedBySignal
<1>9. ASSUME NEW q \in Queue
      PROVE  QueueOK(q)'
  <2>1. WakeUps(q)' = WakeUps(q)
    BY <1>5 DEF WakeUps, Wakes
  <2>2. (Sleeps(q)' <=> Sleeps(q)) /\ (Copies(q)' <=> Copies(q))
    BY <1>2 DEF Sleeps, Copies
  <2>3. q \notin read_list => ~Wakes(q)
    BY DEF Wakes
  <2>4. UNCHANGED <<opened, is_releasing, read_list, interrupted>>
    BY <1>2
  <2>5. CASE q \in read_list
    <3>1. /\ Len(list_buffers'[q]) = Len(list_buffers[q])
          /\ Prefixed(list_buffers[q]) => Prefixed(list_buffers'[q])
      BY <1>4, <2>5
    <3> QED  BY <1>1, <2>1, <2>2, <2>4, <2>5, <3>1 DEF QueueOK
  <2>6. CASE q \notin read_list
    <3>1. /\ list_buffers'[q] = <<>>
          /\ num_pending_waits'[q] = num_pending_waits[q]
          /\ read_completion'[q] = read_completion[q]
      BY <1>4, <1>5, <2>3, <2>6
    <3> QED  BY <1>1, <2>4, <2>6, <3>1 DEF QueueOK
  <2> QED  BY <2>5, <2>6
<1>10. ASSUME NEW t \in Thread
       PROVE  ThreadOK(t)'
  <2>1. UNCHANGED <<is_releasing, pc, file, taken, interrupted>> /\ Own(t)' = Own(t)
    BY <1>2 DEF Own
  <2>2. CASE pc[t] = "idle"
    BY <1>1, <2>1, <2>2 DEF ThreadOK
  <2>3. CASE pc[t] # "idle"
    <3>1. Own(t) \in Queue /\ Own(t) \in read_list
      BY <2>3, OwnFacts
    <3>2. AnyReady(list_buffers'[Own(t)])
      BY <1>4, <3>1
    <3>3. pc[t] = "announce" => t \in missed'
      BY DEF Fill
    <3>4. pc[t] = "sleep" => read_completion'[Own(t)] > 0
      <4>1. pc[t] = "sleep" => num_pending_waits[Own(t)] = 1 \/ read_completion[Own(t)] > 0
        BY <1>1 DEF ThreadOK
      <4> QED  BY <4>1, <3>1, <1>5 DEF Wakes
    <3> QED  BY <1>1, <2>1, <3>2, <3>3, <3>4 DEF ThreadOK
  <2> QED  BY <2>2, <2>3
<1>11. PartsOK'
  BY <1>6, <1>7, <1>8, <1>9, <1>10 DEF PartsOK
<1> QED  BY <1>11, ByQueueAndThread, PTL

(* hdj_disconnect marks every item and completes once on every queue.      *)
LEMMA SignalStep ==
  ASSUME ReaderInv, SignalAllWaitingReaders
  PROVE  ReaderInv'
<1>1. /\ TypeOK /\ ItemsInUse /\ MarkedBySignal
      /\ \A q \in Queue : QueueOK(q)
      /\ \A t \in Thread : ThreadOK(t)
  BY ByQueueAndThread DEF PartsOK
<1>2. /\ bound = "bound" /\ bound' = "signalled"
      /\ UNCHANGED <<packets, opened, open_list, access_count, read_list, list_buffers,
                     num_pending_waits, pc, file, taken, interrupted, missed>>
  BY DEF SignalAllWaitingReaders
<1>3. /\ \A f \in opened : is_releasing'[f] /\ ~is_releasing[f]
      /\ is_releasing' \in [File -> BOOLEAN]
  BY <1>1, <1>2 DEF SignalAllWaitingReaders, ItemsInUse, MarkedBySignal, TypeOK
<1>4. /\ \A q \in Queue : /\ read_completion'[q]
                             = read_completion[q] + (IF q \in read_list THEN 1 ELSE 0)
                          /\ read_completion[q] \in Nat /\ num_pending_waits[q] \in {0, 1}
      /\ read_completion' \in [Queue -> Nat]
  BY <1>1 DEF SignalAllWaitingReaders, TypeOK
<1>5. TypeOK'
  BY <1>1, <1>2, <1>3, <1>4 DEF TypeOK
<1>6. ItemsInUse'
  <2>1. \A f \in File : Readers(f)' = Readers(f)
    BY <1>2 DEF Readers
  <2> QED  BY <1>1, <1>2, <2>1 DEF ItemsInUse, Own
<1>7. MarkedBySignal'
  BY <1>2 DEF MarkedBySignal
<1>8. ASSUME NEW q \in Queue
      PROVE  QueueOK(q)'
  <2>1. (Sleeps(q)' <=> Sleeps(q)) /\ (Copies(q)' <=> Copies(q))
    BY <1>2 DEF Sleeps, Copies
  <2>2. CASE q \in read_list
    <3>1. q[2] \in opened /\ is_releasing'[q[2]] /\ ~is_releasing[q[2]]
      BY <1>1, <1>3, <2>2 DEF QueueOK
    <3>2. /\ WakeUps(q)' = WakeUps(q) + 1
          /\ WakeUps(q) \in Nat
      BY <1>2, <1>4, <2>2 DEF WakeUps
    <3>3. WakeUps(q) <= 1 + (IF Sleeps(q) THEN 1 ELSE 0)
      BY <1>1, <2>2, <3>1 DEF QueueOK
    <3>4. WakeUps(q)' <= 1 + (IF Sleeps(q) THEN 1 ELSE 0) + 1
      BY <3>2, <3>3
    <3> QED  BY <1>1, <1>2, <2>1, <2>2, <3>1, <3>4 DEF QueueOK
  <2>3. CASE q \notin read_list
    BY <1>1, <1>2, <1>4, <2>3 DEF QueueOK
  <2> QED  BY <2>2, <2>3
<1>9. ASSUME NEW t \in Thread
      PROVE  ThreadOK(t)'
  <2>1. Own(t)' = Own(t)
    BY <1>2 DEF Own
  <2>2. CASE pc[t] = "idle"
    BY <1>1, <1>2, <2>2 DEF ThreadOK
  <2>3. CASE pc[t] # "idle"
    <3>1. file[t] \in opened /\ Own(t) \in Queue /\ Own(t) \in read_list
      BY <2>3, OwnFacts
    <3>2. is_releasing'[file[t]] /\ read_completion'[Own(t)] > 0
      BY <1>3, <1>4, <3>1
    <3> QED  BY <1>1, <1>2, <2>1, <3>2 DEF ThreadOK
  <2> QED  BY <2>2, <2>3
<1>10. PartsOK'
  BY <1>5, <1>6, <1>7, <1>8, <1>9 DEF PartsOK
<1> QED  BY <1>10, ByQueueAndThread, PTL

(* Nothing in read depends on more than these.                             *)
LEMMA UnbindStep ==
  ASSUME ReaderInv, Unbind \/ UNCHANGED vars
  PROVE  ReaderInv'
<1>1. /\ TypeOK /\ ItemsInUse /\ MarkedBySignal
      /\ \A q \in Queue : QueueOK(q)
      /\ \A t \in Thread : ThreadOK(t)
  BY ByQueueAndThread DEF PartsOK
<1>2. /\ UNCHANGED <<packets, opened, open_list, access_count, is_releasing, read_list, list_buffers,
                     num_pending_waits, read_completion, pc, file, taken, interrupted, missed>>
      /\ bound' = bound \/ bound' = "gone"
  BY DEF Unbind, vars, fileVars, queueVars
<1>3. TypeOK' /\ MarkedBySignal'
  BY <1>1, <1>2 DEF TypeOK, MarkedBySignal
<1>4. ItemsInUse'
  BY <1>1, <1>2, ItemsStay DEF fileVars
<1>5. \A q \in Queue : QueueOK(q)'
  BY <1>1, <1>2 DEF QueueOK, Sleeps, Copies, WakeUps
<1>6. \A t \in Thread : ThreadOK(t)'
  BY <1>1, <1>2 DEF ThreadOK, Own
<1>7. PartsOK'
  BY <1>3, <1>4, <1>5, <1>6 DEF PartsOK
<1> QED  BY <1>7, ByQueueAndThread, PTL

(* A file that is opened has no queue yet.                                 *)
LEMMA OpenStep ==
  ASSUME ReaderInv, NEW f \in File, Open(f)
  PROVE  ReaderInv'
<1>1. /\ TypeOK /\ ItemsInUse /\ MarkedBySignal
      /\ \A q \in Queue : QueueOK(q)
      /\ \A t \in Thread : ThreadOK(t)
  BY ByQueueAndThread DEF PartsOK
<1>2. /\ f \notin opened /\ opened' = opened \cup {f} /\ open_list' = open_list \cup {f}
      /\ access_count' = [access_count EXCEPT ![f] = 1]
      /\ is_releasing' = [is_releasing EXCEPT ![f] = FALSE]
      /\ UNCHANGED <<bound, packets, read_list, list_buffers, num_pending_waits, read_completion,
                     pc, file, taken, interrupted, missed>>
  BY <1>1 DEF Open, queueVars, ItemsInUse
<1>3. ~is_releasing'[f] /\ \A g \in File \ {f} : is_releasing'[g] = is_releasing[g]
  BY <1>1, <1>2 DEF TypeOK
<1>4. TypeOK'
  BY <1>1, <1>2 DEF TypeOK
<1>5. ItemsInUse'
  BY <1>1, ItemsOpen
<1>6. MarkedBySignal'
  BY <1>1, <1>2, <1>3 DEF MarkedBySignal, TypeOK
<1>7. ASSUME NEW q \in Queue
      PROVE  QueueOK(q)'
  <2>1. /\ (Sleeps(q)' <=> Sleeps(q)) /\ (Copies(q)' <=> Copies(q))
        /\ WakeUps(q)' = WakeUps(q)
    BY <1>2 DEF Sleeps, Copies, WakeUps
  <2>2. q \in read_list => q[2] \in opened' /\ is_releasing'[q[2]] = is_releasing[q[2]]
    BY <1>1, <1>2, <1>3 DEF QueueOK, Queue
  <2> QED  BY <1>1, <1>2, <2>1, <2>2 DEF QueueOK
<1>8. ASSUME NEW t \in Thread
      PROVE  ThreadOK(t)'
  <2>1. Own(t)' = Own(t)
    BY <1>2 DEF Own
  <2>2. CASE pc[t] = "idle"
    BY <1>1, <1>2, <2>2 DEF ThreadOK
  <2>3. CASE pc[t] # "idle"
    <3>1. is_releasing'[file[t]] = is_releasing[file[t]]
      BY <1>2, <1>3, <2>3, OwnFacts
    <3> QED  BY <1>1, <1>2, <2>1, <3>1 DEF ThreadOK
  <2> QED  BY <2>2, <2>3
<1>9. PartsOK'
  BY <1>4, <1>5, <1>6, <1>7, <1>8 DEF PartsOK
<1> QED  BY <1>9, ByQueueAndThread, PTL

(* The last user of a file is its release: the item goes with its queues.  *)
LEMMA ReleaseStep ==
  ASSUME ReaderInv, NEW f \in File, Release(f)
  PROVE  ReaderInv'
<1>1. /\ TypeOK /\ ItemsInUse /\ MarkedBySignal
      /\ \A q \in Queue : QueueOK(q)
      /\ \A t \in Thread : ThreadOK(t)
  BY ByQueueAndThread DEF PartsOK
<1>2. ItemsInUse' /\ Freed(f, list_buffers)
  BY <1>1, ItemsRelease
<1>3. /\ opened' = opened \ {f} /\ access_count' = [access_count EXCEPT ![f] = @ - 1]
      /\ is_releasing' = [is_releasing EXCEPT ![f] = TRUE]
      /\ \A t \in Thread : file[t] # f
      /\ UNCHANGED <<bound, packets, pc, file, taken, missed>>
  BY DEF Release, GiveBack
<1>4. \A g \in File \ {f} : is_releasing'[g] = is_releasing[g]
  BY <1>1, <1>3 DEF TypeOK
<1>5. ASSUME NEW q \in Queue
      PROVE  /\ q \in read_list' <=> q \in read_list /\ q[2] # f
             /\ q[2] # f => /\ list_buffers'[q] = list_buffers[q]
                            /\ num_pending_waits'[q] = num_pending_waits[q]
                            /\ read_completion'[q] = read_completion[q]
                            /\ (q \in interrupted' <=> q \in interrupted)
             /\ q[2] = f => /\ list_buffers'[q] = <<>>
                            /\ num_pending_waits'[q] = 0 /\ read_completion'[q] = 0
  BY <1>2 DEF Freed
<1>6. TypeOK'
  <2>1. list_buffers' \in [Queue -> Seq(Nat)]
    BY <1>1, <1>2 DEF TypeOK, Freed
  <2>2. \A q \in Queue : Len(list_buffers'[q]) <= NumBuffers
    <3>1. \A q \in Queue : Len(list_buffers[q]) <= NumBuffers
      BY <1>1 DEF TypeOK
    <3>2. Len(<<>>) <= NumBuffers
      BY BuffersAssumption
    <3> QED  BY <1>5, <3>1, <3>2
  <2>3. /\ num_pending_waits' \in [Queue -> {0, 1}] /\ read_completion' \in [Queue -> Nat]
        /\ read_list' \subseteq Queue /\ interrupted' \subseteq Queue
        /\ open_list' \subseteq File
    BY <1>1, <1>2 DEF TypeOK, Freed
  <2> QED  BY <1>1, <1>3, <2>1, <2>2, <2>3 DEF TypeOK
<1>7. MarkedBySignal'
  BY <1>1, <1>3, <1>4 DEF MarkedBySignal, TypeOK
<1>8. ASSUME NEW q \in Queue
      PROVE  QueueOK(q)'
  <2>1. CASE q[2] = f
    BY <1>5, <2>1 DEF QueueOK
  <2>2. CASE q[2] # f
    <3>1. /\ (Sleeps(q)' <=> Sleeps(q)) /\ (Copies(q)' <=> Copies(q))
          /\ WakeUps(q)' = WakeUps(q)
      BY <1>3, <1>5, <2>2 DEF Sleeps, Copies, WakeUps
    <3>2. is_releasing'[q[2]] = is_releasing[q[2]]
      BY <1>4, <2>2 DEF Queue
    <3>3. q[2] \in opened' <=> q[2] \in opened
      BY <1>3, <2>2
    <3> QED  BY <1>1, <1>5, <2>2, <3>1, <3>2, <3>3 DEF QueueOK
  <2> QED  BY <2>1, <2>2
<1>9. ASSUME NEW t \in Thread
      PROVE  ThreadOK(t)'
  <2>1. Own(t)' = Own(t)
    BY <1>3 DEF Own
  <2>2. CASE pc[t] = "idle"
    BY <1>1, <1>3, <2>2 DEF ThreadOK
  <2>3. CASE pc[t] # "idle"
    <3>1. file[t] \in File \ {f} /\ Own(t) \in Queue /\ Own(t) = <<t, file[t]>>
      BY <1>3, <2>3, OwnFacts
    <3>2. /\ list_buffers'[Own(t)] = list_buffers[Own(t)]
          /\ num_pending_waits'[Own(t)] = num_pending_waits[Own(t)]
          /\ read_completion'[Own(t)] = read_completion[Own(t)]
          /\ (Own(t) \in interrupted' <=> Own(t) \in interrupted)
          /\ is_releasing'[file[t]] = is_releasing[file[t]]
      BY <1>4, <1>5, <3>1
    <3> QED  BY <1>1, <1>3, <2>1, <3>2 DEF ThreadOK
  <2> QED  BY <2>2, <2>3
<1>10. PartsOK'
  BY <1>2, <1>6, <1>7, <1>8, <1>9 DEF PartsOK
<1> QED  BY <1>10, ByQueueAndThread, PTL

-----------------------------------------------------------------------------
(* The theorems                                                            *)

LEMMA InitOK == Init => ReaderInv
<1> SUFFICES ASSUME Init PROVE ReaderInv
  OBVIOUS
<1>1. NumBuffers \in Nat /\ Len(<<>>) <= NumBuffers
  BY BuffersAssumption
<1>2. TypeOK
  <2>1. <<>> \in Seq(Nat)
    OBVIOUS
  <2>2. list_buffers \in [Queue -> Seq(Nat)] /\ \A q \in Queue : Len(list_buffers[q]) <= NumBuffers
    BY <1>1, <2>1 DEF Init
  <2> QED  BY <2>2 DEF Init, TypeOK, Label, NotReady
<1>3. ItemsInUse
  <2>1. \A f \in File : Readers(f) = {}
    BY DEF Init, Readers
  <2>2. \A f \in File : Cardinality(Readers(f)) = 0
    BY <2>1, FS_EmptySet
  <2>3. \A f \in File : access_count[f] = (IF f \in opened THEN 1 ELSE 0)
                                           + Cardinality(Readers(f))
    BY <2>2 DEF Init
  <2>4. open_list = opened /\ \A t \in Thread : pc[t] = "idle"
    BY DEF Init
  <2> QED  BY <2>3, <2>4 DEF ItemsInUse
<1>4. \A q \in Queue : QueueOK(q)
  BY DEF Init, QueueOK
<1>5. \A t \in Thread : ThreadOK(t)
  BY DEF Init, ThreadOK, IsReady
<1> QED  BY <1>2, <1>3, <1>4, <1>5, ByQueueAndThread DEF PartsOK, MarkedBySignal, Init

LEMMA StepOK == ReaderInv /\ [Next]_vars => ReaderInv'
<1> SUFFICES ASSUME ReaderInv, [Next]_vars PROVE ReaderInv'
  OBVIOUS
<1>1. CASE Fill
  BY <1>1, FillStep
<1>2. CASE SignalAllWaitingReaders
  BY <1>2, SignalStep
<1>3. CASE Unbind \/ UNCHANGED vars
  BY <1>3, UnbindStep
<1>4. ASSUME NEW f \in File, Open(f) \/ Release(f)
      PROVE  ReaderInv'
  BY <1>4, OpenStep, ReleaseStep
<1>5. ASSUME NEW t \in Thread, NEW f \in File, PollCreates(t, f) \/ ReadEnter(t, f)
      PROVE  ReaderInv'
  BY <1>5, PollStep, EnterStep
<1>6. ASSUME NEW t \in Thread, ReadAgain(t) \/ GiveUp(t) \/ TakeFails(t)
      PROVE  ReaderInv'
  BY <1>6, EmptyHanded DEF ReadAgain, GiveUp, TakeFails
<1>7. ASSUME NEW t \in Thread,
             Announce(t) \/ Woken(t) \/ Interrupt(t) \/ Take(t) \/ PutBack(t)
      PROVE  ReaderInv'
  BY <1>7, AnnounceStep, WokenStep, InterruptStep, TakeStep, PutBackStep
<1> QED  BY <1>1, <1>2, <1>3, <1>4, <1>5, <1>6, <1>7 DEF Next, ReadStep

(* The inductive invariant holds in every reachable state.                 *)
THEOREM ReaderCorrect == Spec => []ReaderInv
<1> QED  BY InitOK, StepOK, PTL DEF Spec

(* Every variable keeps its type; no queue has more buffers than it was    *)
(* made with (alloc_and_init_read_list_item).                              *)
THEOREM ReaderTyped == Spec => []TypeOK
<1>1. ReaderInv => TypeOK
  BY DEF ReaderInv
<1> QED  BY <1>1, ReaderCorrect, PTL

(* access_count counts the open file and the reads under way, so that      *)
(* free_open_list frees an item, and the queues on it, only when no read   *)
(* will look at them again.                                                *)
THEOREM ItemsCorrect == Spec => []ItemsInUse
<1>1. ReaderInv => ItemsInUse
  BY DEF ReaderInv
<1> QED  BY <1>1, ReaderCorrect, PTL

(* However many waits are interrupted, whose announcements hdjbulk_read    *)
(* leaves behind, a queue has at most one wake-up too many, and one more   *)
(* from hdj_disconnect.                                                    *)
THEOREM SignalsCorrect == Spec => []SignalsBounded
<1>1. ASSUME ReaderInv, NEW q \in Queue
      PROVE  num_pending_waits[q] + read_completion[q]
               <= 1 + (IF pc[q[1]] = "sleep" /\ file[q[1]] = q[2] THEN 1 ELSE 0)
                    + (IF bound = "bound" THEN 0 ELSE 1)
  <2>1. TypeOK /\ MarkedBySignal /\ QueueOK(q)
    BY <1>1, ByQueueAndThread DEF PartsOK
  <2>2. CASE q \in read_list
    <3>1. WakeUps(q) <= 1 + (IF Sleeps(q) THEN 1 ELSE 0) + (IF is_releasing[q[2]] THEN 1 ELSE 0)
      BY <2>1, <2>2 DEF QueueOK
    <3>2. is_releasing[q[2]] => bound # "bound"
      BY <2>1, <2>2 DEF QueueOK, MarkedBySignal
    <3>3. num_pending_waits[q] \in {0, 1} /\ read_completion[q] \in Nat
      BY <2>1 DEF TypeOK
    <3> QED  BY <3>1, <3>2, <3>3 DEF WakeUps, Sleeps
  <2>3. CASE q \notin read_list
    BY <2>1, <2>3 DEF QueueOK
  <2> QED  BY <2>2, <2>3
<1>2. ReaderInv => SignalsBounded
  BY <1>1 DEF SignalsBounded
<1> QED  BY <1>2, ReaderCorrect, PTL

(* A thread sleeps on a packet only if the packet came between its look    *)
(* and its announcement (bulk.c:2373-2389).                                *)
THEOREM WokenCorrect == Spec => []WokenUnlessMissed
<1>1. ReaderInv => WokenUnlessMissed
  BY DEF ReaderInv
<1> QED  BY <1>1, ReaderCorrect, PTL

(* A thread that was woken finds a packet at the head of its queue, unless *)
(* the device is gone or one of its earlier waits was interrupted.         *)
THEOREM TakeCorrect == Spec => []TakeFindsData
<1>1. ASSUME ReaderInv, NEW t \in Thread, pc[t] = "take",
             ~is_releasing[file[t]], Own(t) \notin interrupted
      PROVE  list_buffers[Own(t)] # <<>> /\ IsReady(Head(list_buffers[Own(t)]))
  <2> DEFINE b == list_buffers[Own(t)]
  <2>1. /\ b \in Seq(Nat) /\ Own(t) \in read_list
        /\ QueueOK(Own(t)) /\ ThreadOK(t)
    BY <1>1, OwnFacts
  <2>2. AnyReady(b) /\ Prefixed(b)
    BY <1>1, <2>1 DEF ThreadOK, QueueOK
  <2> HIDE DEF b
  <2>3. b # <<>>
    BY <2>2 DEF AnyReady
  <2>4. IsReady(Head(b))
    BY <2>1, <2>2, <2>3, TailEffect
  <2> QED  BY <2>3, <2>4 DEF b
<1>2. ReaderInv => TakeFindsData
  BY <1>1 DEF TakeFindsData
<1> QED  BY <1>2, ReaderCorrect, PTL
-----------------------------------------------------------------------------
(* The refinement of ReadQueue: what the steps do to the packets that wait *)

(* s is what waits in b.                                                   *)
ReadyPart(b, s) ==
  /\ Len(s) \in 0 .. Len(b)
  /\ \A i \in 1 .. Len(b) : IsReady(b[i]) <=> i <= Len(s)
  /\ \A i \in 1 .. Len(s) : s[i] = b[i]

LEMMA LenFacts ==
  ASSUME NEW b \in Seq(Nat)
  PROVE  Len(b) \in Nat /\ DOMAIN b = 1 .. Len(b)
OBVIOUS

LEMMA AppendFacts ==
  ASSUME NEW b \in Seq(Nat), NEW e \in Nat
  PROVE  \E c \in Seq(Nat) : /\ c = Append(b, e) /\ Len(c) = Len(b) + 1
                             /\ c[Len(b) + 1] = e
                             /\ \A i \in 1 .. Len(b) : c[i] = b[i]
<1> DEFINE c == Append(b, e)
<1>1. c \in Seq(Nat) /\ Len(c) = Len(b) + 1 /\ c[Len(b) + 1] = e
  OBVIOUS
<1>2. ASSUME NEW i \in 1 .. Len(b) PROVE c[i] = b[i]
  BY <1>2
<1> HIDE DEF c
<1>3. c = Append(b, e)
  BY DEF c
<1> QED  BY <1>1, <1>2, <1>3

LEMMA WaitingIs ==
  ASSUME NEW b \in Seq(Nat), NEW s \in Seq(Nat), ReadyPart(b, s)
  PROVE  Waiting(b) = s
<1> DEFINE P(n) == \A i \in DOMAIN b : IsReady(b[i]) <=> i <= n
<1>1. Len(b) \in Nat /\ Len(s) \in Nat /\ DOMAIN b = 1 .. Len(b) /\ Len(s) \in 0 .. Len(b)
  BY LenFacts DEF ReadyPart
<1>2. P(Len(s))
  BY <1>1 DEF ReadyPart
<1>3. ASSUME NEW n \in 0 .. Len(b), P(n) PROVE n = Len(s)
  <2>1. CASE n < Len(s)
    <3>1. n + 1 \in DOMAIN b /\ n + 1 <= Len(s)
      BY <1>1, <2>1
    <3>2. IsReady(b[n + 1])
      BY <1>2, <3>1
    <3>3. n + 1 <= n
      BY <1>3, <3>1, <3>2
    <3> QED  BY <1>1, <3>3
  <2>2. CASE n > Len(s)
    <3>1. n \in DOMAIN b
      BY <1>1, <2>2
    <3>2. IsReady(b[n])
      BY <1>3, <3>1
    <3>3. n <= Len(s)
      BY <1>2, <3>1, <3>2
    <3> QED  BY <1>1, <2>2, <3>3
  <2> QED  BY <1>1, <2>1, <2>2
<1>4. NumReady(b) = Len(s)
  BY <1>1, <1>2, <1>3 DEF NumReady
<1>5. SubSeq(b, 1, Len(s)) = s
  BY <1>1 DEF ReadyPart
<1> QED  BY <1>4, <1>5 DEF Waiting

(* What waits in a queue whose ready buffers come first.                   *)
LEMMA WaitingFacts ==
  ASSUME NEW b \in Seq(Nat), Prefixed(b)
  PROVE  Waiting(b) \in Seq(Nat) /\ ReadyPart(b, Waiting(b))
<1>1. Len(b) \in Nat /\ DOMAIN b = 1 .. Len(b) /\ FreeBuffers(b) \in SUBSET (1 .. Len(b))
  BY DEF FreeBuffers
<1>2. \E n \in 0 .. Len(b) : \A i \in 1 .. Len(b) : IsReady(b[i]) <=> i <= n
  <2>1. CASE FreeBuffers(b) = {}
    <3>1. ASSUME NEW i \in 1 .. Len(b) PROVE IsReady(b[i]) <=> i <= Len(b)
      BY <1>1, <2>1 DEF FreeBuffers
    <3>2. Len(b) \in 0 .. Len(b)
      BY <1>1
    <3> QED  BY <3>1, <3>2, Zenon
  <2>2. CASE FreeBuffers(b) # {}
    <3>1. PICK k \in FreeBuffers(b) : \A j \in FreeBuffers(b) : k <= j
      BY <1>1, <2>2, FirstIndex
    <3>2. k \in 1 .. Len(b) /\ ~IsReady(b[k])
      BY <1>1, <3>1 DEF FreeBuffers
    <3>3. ASSUME NEW i \in 1 .. Len(b) PROVE IsReady(b[i]) <=> i <= k - 1
      <4>1. CASE i < k
        BY <1>1, <3>1, <3>2, <4>1 DEF FreeBuffers
      <4>2. CASE i >= k
        BY <1>1, <3>2, <4>2 DEF Prefixed
      <4> QED  BY <1>1, <3>2, <4>1, <4>2
    <3>4. k - 1 \in 0 .. Len(b)
      BY <1>1, <3>2
    <3> QED  BY <3>3, <3>4
  <2> QED  BY <2>1, <2>2
<1>3. PICK n \in 0 .. Len(b) : \A i \in 1 .. Len(b) : IsReady(b[i]) <=> i <= n
  BY <1>2
<1>4. /\ SubSeq(b, 1, n) \in Seq(Nat) /\ Len(SubSeq(b, 1, n)) = n
      /\ \A i \in 1 .. n : SubSeq(b, 1, n)[i] = b[i]
  BY <1>1
<1>5. ReadyPart(b, SubSeq(b, 1, n))
  BY <1>3, <1>4 DEF ReadyPart
<1> QED  BY <1>4, <1>5, WaitingIs

(* A list without a packet; one that is taken; a free buffer put back.     *)
LEMMA WaitingNone ==
  ASSUME NEW b \in Seq(Nat), ~AnyReady(b)
  PROVE  Waiting(b) = <<>>
<1>1. <<>> \in Seq(Nat) /\ Len(<<>>) = 0 /\ Len(b) \in Nat /\ DOMAIN b = 1 .. Len(b)
  OBVIOUS
<1>2. ReadyPart(b, <<>>)
  <2>1. ASSUME NEW i \in 1 .. Len(b) PROVE ~IsReady(b[i]) /\ ~(i <= 0)
    BY <1>1 DEF AnyReady
  <2> QED  BY <1>1, <2>1 DEF ReadyPart
<1> QED  BY <1>1, <1>2, WaitingIs

LEMMA WaitingTail ==
  ASSUME NEW b \in Seq(Nat), Prefixed(b), b # <<>>, IsReady(Head(b))
  PROVE  /\ Waiting(b) # <<>> /\ Head(Waiting(b)) = Head(b)
         /\ Waiting(Tail(b)) = Tail(Waiting(b))
<1>1. PICK w \in Seq(Nat) : w = Waiting(b) /\ ReadyPart(b, w)
  BY WaitingFacts
<1>2. /\ Tail(b) \in Seq(Nat) /\ Len(Tail(b)) = Len(b) - 1
      /\ \A i \in 1 .. Len(b) - 1 : Tail(b)[i] = b[i + 1]
      /\ Len(b) \in Nat /\ Len(b) > 0 /\ Head(b) = b[1]
  OBVIOUS
<1>3. Len(w) > 0 /\ Len(w) \in 0 .. Len(b)
  BY <1>1, <1>2 DEF ReadyPart
<1>4. /\ Tail(w) \in Seq(Nat) /\ Len(Tail(w)) = Len(w) - 1
      /\ \A i \in 1 .. Len(w) - 1 : Tail(w)[i] = w[i + 1]
      /\ w # <<>> /\ Head(w) = w[1]
  BY <1>1, <1>3
<1>5. ASSUME NEW i \in 1 .. Len(Tail(b))
      PROVE  IsReady(Tail(b)[i]) <=> i <= Len(Tail(w))
  <2>1. i + 1 \in 1 .. Len(b) /\ Tail(b)[i] = b[i + 1]
    BY <1>2
  <2>2. IsReady(b[i + 1]) <=> i + 1 <= Len(w)
    BY <1>1, <2>1 DEF ReadyPart
  <2> QED  BY <1>2, <1>3, <1>4, <2>1, <2>2
<1>6. ASSUME NEW i \in 1 .. Len(Tail(w)) PROVE Tail(w)[i] = Tail(b)[i]
  <2>1. i + 1 \in 1 .. Len(w) /\ i \in 1 .. Len(b) - 1 /\ i \in 1 .. Len(w) - 1
    BY <1>2, <1>3, <1>4
  <2>2. w[i + 1] = b[i + 1]
    BY <1>1, <2>1 DEF ReadyPart
  <2> QED  BY <1>2, <1>4, <2>1, <2>2
<1>7. ReadyPart(Tail(b), Tail(w))
  <2>1. Len(Tail(w)) \in 0 .. Len(Tail(b))
    BY <1>2, <1>3, <1>4
  <2> QED  BY <1>5, <1>6, <2>1 DEF ReadyPart
<1>8. Waiting(Tail(b)) = Tail(w)
  BY <1>2, <1>4, <1>7, WaitingIs
<1>9. Head(w) = Head(b)
  BY <1>1, <1>2, <1>3, <1>4 DEF ReadyPart
<1> QED  BY <1>1, <1>4, <1>8, <1>9

LEMMA WaitingPutBack ==
  ASSUME NEW b \in Seq(Nat), Prefixed(b)
  PROVE  Waiting(Append(b, NotReady)) = Waiting(b)
<1>1. PICK w \in Seq(Nat) : w = Waiting(b) /\ ReadyPart(b, w)
  BY WaitingFacts
<1>2. PICK c \in Seq(Nat) : /\ c = Append(b, NotReady)
                            /\ Len(c) = Len(b) + 1
                            /\ c[Len(b) + 1] = NotReady
                            /\ \A i \in 1 .. Len(b) : c[i] = b[i]
  <2>1. NotReady \in Nat
    BY DEF NotReady
  <2> QED  BY <2>1, AppendFacts
<1>3. Len(b) \in Nat /\ Len(w) \in 0 .. Len(b)
  BY <1>1 DEF ReadyPart
<1>4. ASSUME NEW i \in 1 .. Len(c) PROVE IsReady(c[i]) <=> i <= Len(w)
  <2>1. CASE i = Len(b) + 1
    BY <1>2, <1>3, <2>1 DEF IsReady
  <2>2. CASE i # Len(b) + 1
    <3>1. i \in 1 .. Len(b)
      BY <1>2, <1>3, <2>2
    <3>2. c[i] = b[i] /\ (IsReady(b[i]) <=> i <= Len(w))
      BY <1>1, <1>2, <3>1 DEF ReadyPart
    <3> QED  BY <3>2
  <2> QED  BY <2>1, <2>2
<1>5. ASSUME NEW i \in 1 .. Len(w) PROVE w[i] = c[i]
  <2>1. i \in 1 .. Len(b)
    BY <1>3
  <2> QED  BY <1>1, <1>2, <2>1 DEF ReadyPart
<1>6. Len(w) \in 0 .. Len(c)
  BY <1>2, <1>3
<1>7. ReadyPart(c, w)
  BY <1>4, <1>5, <1>6 DEF ReadyPart
<1> QED  BY <1>1, <1>2, <1>7, WaitingIs

(* A packet that arrives goes to the end, and over the oldest one if every *)
(* buffer has one.                                                         *)
LEMMA WaitingFilled ==
  ASSUME NEW b \in Seq(Nat), Len(b) > 0, Prefixed(b), NEW p \in Nat \ {0}
  PROVE  /\ Waiting(b) \in Seq(Nat) /\ Len(Waiting(b)) \in 0 .. Len(b)
         /\ Waiting(Filled(b, p)) =
           Append(IF Len(Waiting(b)) < Len(b) THEN Waiting(b) ELSE Tail(Waiting(b)), p)
<1>1. PICK w \in Seq(Nat) : w = Waiting(b) /\ ReadyPart(b, w)
  BY WaitingFacts
<1>2. PICK c \in Seq(Nat) : c = Filled(b, p) /\ Len(c) = Len(b)
  BY FilledEffect
<1>3. Len(b) \in Nat /\ Len(w) \in 0 .. Len(b) /\ DOMAIN b = 1 .. Len(b)
  BY <1>1 DEF ReadyPart
<1>4. CASE Len(w) < Len(b)
  <2>1. PICK k \in 1 .. Len(b) : k = Len(w) + 1
    BY <1>3, <1>4
  <2>2. k \in FreeBuffers(b)
    BY <1>1, <1>3, <2>1 DEF ReadyPart, FreeBuffers
  <2>3. ASSUME NEW j \in FreeBuffers(b) PROVE k <= j
    <3>1. j \in 1 .. Len(b) /\ ~IsReady(b[j])
      BY <1>3 DEF FreeBuffers
    <3>2. ~(j <= Len(w))
      BY <1>1, <3>1 DEF ReadyPart
    <3> QED  BY <1>3, <2>1, <3>1, <3>2
  <2>4. ASSUME NEW l \in FreeBuffers(b), \A j \in FreeBuffers(b) : l <= j
        PROVE  l = k
    <3>1. l \in 1 .. Len(b) /\ l <= k /\ k <= l
      BY <1>3, <2>2, <2>3, <2>4 DEF FreeBuffers
    <3> QED  BY <1>3, <3>1
  <2>5. (CHOOSE i \in FreeBuffers(b) : \A j \in FreeBuffers(b) : i <= j) = k
    BY <2>2, <2>3, <2>4
  <2>6. c = [b EXCEPT ![k] = p]
    BY <1>2, <2>2, <2>5 DEF Filled
  <2>7. c[k] = p /\ \A i \in 1 .. Len(b) : i # k => c[i] = b[i]
    BY <1>3, <2>6
  <2>8. PICK s \in Seq(Nat) : /\ s = Append(w, p) /\ Len(s) = k /\ s[k] = p
                              /\ \A i \in 1 .. Len(w) : s[i] = w[i]
    BY <2>1, AppendFacts
  <2>9. ASSUME NEW i \in 1 .. Len(c) PROVE IsReady(c[i]) <=> i <= Len(s)
    <3>1. CASE i = k
      BY <1>3, <2>7, <2>8, <3>1 DEF IsReady, NotReady
    <3>2. CASE i # k
      <4>1. c[i] = b[i] /\ (IsReady(b[i]) <=> i <= Len(w))
        BY <1>1, <1>2, <2>7, <3>2 DEF ReadyPart
      <4>2. i <= Len(w) <=> i <= Len(s)
        BY <1>2, <1>3, <2>1, <2>8, <3>2
      <4> QED  BY <4>1, <4>2
    <3> QED  BY <3>1, <3>2
  <2>10. ASSUME NEW i \in 1 .. Len(s) PROVE s[i] = c[i]
    <3>1. CASE i = k
      BY <2>7, <2>8, <3>1
    <3>2. CASE i # k
      <4>1. i \in 1 .. Len(w) /\ i \in 1 .. Len(b)
        BY <1>3, <2>1, <2>8, <3>2
      <4>2. s[i] = w[i] /\ w[i] = b[i] /\ c[i] = b[i]
        BY <1>1, <2>7, <2>8, <3>2, <4>1 DEF ReadyPart
      <4> QED  BY <4>2
    <3> QED  BY <3>1, <3>2
  <2>11. Len(s) \in 0 .. Len(c)
    BY <1>2, <1>3, <2>8
  <2>12. ReadyPart(c, s)
    BY <2>9, <2>10, <2>11 DEF ReadyPart
  <2> QED  BY <1>1, <1>2, <1>3, <1>4, <2>8, <2>12, WaitingIs
<1>5. CASE Len(w) = Len(b)
  <2>1. ASSUME NEW i \in 1 .. Len(b) PROVE IsReady(b[i]) /\ w[i] = b[i]
    BY <1>1, <1>3, <1>5 DEF ReadyPart
  <2>2. FreeBuffers(b) = {}
    BY <1>3, <2>1 DEF FreeBuffers
  <2>3. w = b
    BY <1>3, <1>5, <2>1
  <2>4. c = Append(Tail(b), p)
    BY <1>2, <2>2 DEF Filled
  <2>5. PICK d \in Seq(Nat) : /\ d = Tail(b) /\ Len(d) = Len(b) - 1
                              /\ \A i \in 1 .. Len(b) - 1 : d[i] = b[i + 1]
    <3> DEFINE d == Tail(b)
    <3>1. d \in Seq(Nat) /\ Len(d) = Len(b) - 1 /\ \A i \in 1 .. Len(b) - 1 : d[i] = b[i + 1]
      BY <1>3
    <3>2. d = Tail(b)
      OBVIOUS
    <3> HIDE DEF d
    <3> QED  BY <3>1, <3>2
  <2>6. Len(c) = Len(d) + 1 /\ c[Len(d) + 1] = p /\ \A i \in 1 .. Len(d) : c[i] = d[i]
    BY <2>4, <2>5, AppendFacts
  <2>7. ASSUME NEW i \in 1 .. Len(c) PROVE IsReady(c[i])
    <3>1. CASE i = Len(d) + 1
      BY <2>6, <3>1 DEF IsReady, NotReady
    <3>2. CASE i # Len(d) + 1
      <4>1. i \in 1 .. Len(d) /\ i \in 1 .. Len(b) - 1 /\ i + 1 \in 1 .. Len(b)
        BY <1>2, <1>3, <2>5, <3>2
      <4>2. c[i] = d[i] /\ d[i] = b[i + 1]
        BY <2>5, <2>6, <4>1
      <4> QED  BY <2>1, <4>1, <4>2
    <3> QED  BY <3>1, <3>2
  <2>8. ReadyPart(c, c)
    <3>1. Len(c) \in 0 .. Len(c) /\ \A i \in 1 .. Len(c) : i <= Len(c)
      BY <1>2, <1>3
    <3> QED  BY <2>7, <3>1 DEF ReadyPart
  <2>9. Waiting(c) = c
    BY <1>2, <2>8, WaitingIs
  <2> QED  BY <1>1, <1>2, <1>3, <1>5, <2>3, <2>4, <2>9
<1> QED  BY <1>3, <1>4, <1>5

(* The steps of ReadQueue, said of each queue.                             *)
Fifo(q) == Waiting(list_buffers[q])
Hand(q) == IF file[q[1]] = q[2] THEN taken[q[1]] ELSE 0

LEMMA ToStutter ==
  ASSUME UNCHANGED <<packets, read_list>>,
         \A q \in Queue : Fifo(q)' = Fifo(q) /\ Hand(q)' = Hand(q)
  PROVE  UNCHANGED RQ!qvars
<1>1. /\ [q \in Queue |-> Fifo(q)]' = [q \in Queue |-> Fifo(q)]
      /\ [q \in Queue |-> Hand(q)]' = [q \in Queue |-> Hand(q)]
  OBVIOUS
<1> QED  BY <1>1 DEF RQ!qvars, Fifo, Hand

LEMMA ToArrive ==
  ASSUME packets' = packets + 1, read_list' = read_list,
         \A q \in Queue :
           /\ Hand(q)' = Hand(q)
           /\ Fifo(q)' = IF q \notin read_list THEN Fifo(q)
                         ELSE Append(IF Len(Fifo(q)) < NumBuffers - (IF Hand(q) = 0 THEN 0 ELSE 1)
                                     THEN Fifo(q) ELSE Tail(Fifo(q)), packets')
  PROVE  RQ!Arrive
<1>1. \A q \in Queue : /\ [p \in Queue |-> Fifo(p)][q] = Fifo(q)
                       /\ [p \in Queue |-> Hand(p)][q] = Hand(q)
  OBVIOUS
<1>2. [q \in Queue |-> Hand(q)]' = [q \in Queue |-> Hand(q)]
  OBVIOUS
<1>3. [q \in Queue |-> Fifo(q)]' =
        [q \in Queue |->
           IF q \notin read_list THEN Fifo(q)
           ELSE Append(IF Len(Fifo(q)) < NumBuffers - (IF Hand(q) = 0 THEN 0 ELSE 1)
                       THEN Fifo(q) ELSE Tail(Fifo(q)), packets')]
  OBVIOUS
<1> QED  BY <1>1, <1>2, <1>3 DEF RQ!Arrive, RQ!Room, Fifo, Hand

LEMMA ToCreate ==
  ASSUME NEW q \in Queue, q \notin read_list, read_list' = read_list \cup {q}, packets' = packets,
         \A p \in Queue : Fifo(p)' = Fifo(p) /\ Hand(p)' = Hand(p)
  PROVE  RQ!Create(q)
<1>1. /\ [p \in Queue |-> Fifo(p)]' = [p \in Queue |-> Fifo(p)]
      /\ [p \in Queue |-> Hand(p)]' = [p \in Queue |-> Hand(p)]
  OBVIOUS
<1> QED  BY <1>1 DEF RQ!Create, Fifo, Hand

LEMMA ToTake ==
  ASSUME NEW q \in Queue, UNCHANGED <<packets, read_list>>, q \in read_list,
         Hand(q) = 0, Fifo(q) # <<>>, Hand(q)' = Head(Fifo(q)), Fifo(q)' = Tail(Fifo(q)),
         \A p \in Queue \ {q} : Fifo(p)' = Fifo(p) /\ Hand(p)' = Hand(p)
  PROVE  RQ!Take(q)
<1> DEFINE F == [p \in Queue |-> Fifo(p)]
           H == [p \in Queue |-> Hand(p)]
<1>1. F[q] = Fifo(q) /\ H[q] = Hand(q)
  OBVIOUS
<1>2. F' = [F EXCEPT ![q] = Tail(Fifo(q))] /\ H' = [H EXCEPT ![q] = Head(Fifo(q))]
  OBVIOUS
<1> QED  BY <1>1, <1>2 DEF RQ!Take, Fifo, Hand

LEMMA ToDeliver ==
  ASSUME NEW q \in Queue, UNCHANGED <<packets, read_list>>,
         Hand(q) # 0, Hand(q)' = 0, Fifo(q)' = Fifo(q),
         \A p \in Queue \ {q} : Fifo(p)' = Fifo(p) /\ Hand(p)' = Hand(p)
  PROVE  RQ!Deliver(q)
<1> DEFINE F == [p \in Queue |-> Fifo(p)]
           H == [p \in Queue |-> Hand(p)]
<1>1. F[q] = Fifo(q) /\ H[q] = Hand(q)
  OBVIOUS
<1>2. \A p \in Queue : Fifo(p)' = Fifo(p) /\ Hand(p)' = IF p = q THEN 0 ELSE Hand(p)
  OBVIOUS
<1>3. F' = F /\ H' = [H EXCEPT ![q] = 0]
  BY <1>2
<1> QED  BY <1>1, <1>3 DEF RQ!Deliver, Fifo, Hand

LEMMA ToClose ==
  ASSUME NEW gone \in SUBSET read_list, read_list \subseteq Queue, gone # {}, packets' = packets,
         read_list' = read_list \ gone,
         \A q \in Queue : Hand(q)' = Hand(q) /\ Fifo(q)' = IF q \in gone THEN <<>> ELSE Fifo(q),
         \A q \in gone : Hand(q) = 0
  PROVE  RQ!Close(gone)
<1> DEFINE F == [p \in Queue |-> Fifo(p)]
           H == [p \in Queue |-> Hand(p)]
<1>1. \A q \in Queue : F[q] = Fifo(q) /\ H[q] = Hand(q)
  OBVIOUS
<1>2. F' = [q \in Queue |-> IF q \in gone THEN <<>> ELSE F[q]] /\ H' = H
  OBVIOUS
<1> QED  BY <1>1, <1>2 DEF RQ!Close, Fifo, Hand

(* The queues of other threads, and of other files, are left alone.        *)
LEMMA OthersAlone ==
  ASSUME TypeOK, NEW t \in Thread, NEW f \in File,
         file[t] \in {f, NoFile}, file'[t] \in {f, NoFile},
         \A u \in Thread \ {t} : file'[u] = file[u] /\ taken'[u] = taken[u],
         \A q \in Queue \ {<<t, f>>} : list_buffers'[q] = list_buffers[q]
  PROVE  \A q \in Queue \ {<<t, f>>} : Fifo(q)' = Fifo(q) /\ Hand(q)' = Hand(q)
<1> TAKE q \in Queue \ {<<t, f>>}
<1>1. PICK u \in Thread, g \in File : q = <<u, g>>
  BY DEF Queue
<1>2. Fifo(q)' = Fifo(q)
  BY DEF Fifo
<1>3. CASE u = t
  <2>1. g # f /\ g # NoFile
    BY <1>1, <1>3, FileAssumption
  <2>2. file[u] # g /\ file'[u] # g
    BY <1>3, <2>1
  <2> QED  BY <1>1, <1>2, <2>2 DEF Hand
<1>4. CASE u # t
  BY <1>1, <1>2, <1>4 DEF Hand
<1> QED  BY <1>3, <1>4

(* A read that begins: a queue is made, if the thread has none.            *)
LEMMA CreateRefines ==
  ASSUME ReaderInv, NEW t \in Thread, NEW f \in File, pc[t] = "idle",
         <<t, f>> \notin read_list, NewQueue(<<t, f>>), packets' = packets,
         taken' = taken, file' \in {file, [file EXCEPT ![t] = f]}
  PROVE  RQ!Create(<<t, f>>)
<1> DEFINE q == <<t, f>>
<1>1. /\ TypeOK /\ QueueOK(q) /\ q \in Queue /\ ThreadOK(t)
      /\ file \in [Thread -> File \cup {NoFile}] /\ taken \in [Thread -> Nat]
  BY ByQueueAndThread DEF PartsOK, Queue, TypeOK
<1>2. /\ read_list' = read_list \cup {q} /\ list_buffers'[q] = Empty
      /\ \A p \in Queue \ {q} : list_buffers'[p] = list_buffers[p]
  BY <1>1, NewQueueEffect
<1>3. list_buffers[q] = <<>> /\ file[t] = NoFile
  BY <1>1 DEF QueueOK, ThreadOK
<1>4. Fifo(q) = <<>> /\ Fifo(q)' = <<>>
  <2>1. Waiting(Empty) = <<>>
    BY EmptyEffect, WaitingNone
  <2>2. <<>> \in Seq(Nat) /\ ~AnyReady(<<>>)
    BY DEF AnyReady
  <2>3. Waiting(<<>>) = <<>>
    BY <2>2, WaitingNone
  <2> QED  BY <1>2, <1>3, <2>1, <2>3 DEF Fifo
<1>5. file'[t] \in {f, NoFile} /\ \A u \in Thread \ {t} : file'[u] = file[u]
  BY <1>1, <1>3
<1>6. Hand(q) = 0 /\ Hand(q)' = 0
  <2>1. taken[t] = 0
    BY <1>1 DEF ThreadOK, IsReady, NotReady
  <2> QED  BY <2>1 DEF Hand
<1>7. \A p \in Queue \ {q} : Fifo(p)' = Fifo(p) /\ Hand(p)' = Hand(p)
  BY <1>1, <1>2, <1>3, <1>5, OthersAlone
<1>8. \A p \in Queue : Fifo(p)' = Fifo(p) /\ Hand(p)' = Hand(p)
  BY <1>4, <1>6, <1>7
<1> QED  BY <1>1, <1>2, <1>8, ToCreate

LEMMA EnterRefines ==
  ASSUME ReaderInv, NEW t \in Thread, NEW f \in File, ReadEnter(t, f)
  PROVE  RQ!Create(<<t, f>>) \/ UNCHANGED RQ!qvars
<1>1. /\ pc[t] = "idle" /\ packets' = packets /\ taken' = taken
      /\ file' = [file EXCEPT ![t] = f]
  BY DEF ReadEnter
<1>2. CASE <<t, f>> \notin read_list /\ NewQueue(<<t, f>>)
  BY <1>1, <1>2, CreateRefines
<1>3. CASE UNCHANGED queueVars
  <2>1. TypeOK /\ ThreadOK(t) /\ file \in [Thread -> File \cup {NoFile}] /\ <<t, f>> \in Queue
    BY ByQueueAndThread DEF PartsOK, TypeOK, Queue
  <2>2. file[t] = NoFile /\ file'[t] = f /\ \A u \in Thread \ {t} : file'[u] = file[u]
    BY <1>1, <2>1 DEF ThreadOK
  <2>3. read_list' = read_list /\ list_buffers' = list_buffers
    BY <1>3 DEF queueVars
  <2>4. \A q \in Queue \ {<<t, f>>} : Fifo(q)' = Fifo(q) /\ Hand(q)' = Hand(q)
    BY <1>1, <2>1, <2>2, <2>3, OthersAlone
  <2>5. Hand(<<t, f>>) = 0 /\ Hand(<<t, f>>)' = 0 /\ Fifo(<<t, f>>)' = Fifo(<<t, f>>)
    <3>1. taken[t] = 0
      BY <1>1, <2>1 DEF ThreadOK, IsReady, NotReady
    <3> QED  BY <1>1, <2>3, <3>1 DEF Hand, Fifo
  <2>6. \A q \in Queue : Fifo(q)' = Fifo(q) /\ Hand(q)' = Hand(q)
    BY <2>4, <2>5
  <2> QED  BY <1>1, <2>3, <2>6, ToStutter
<1> QED  BY <1>2, <1>3, Zenon DEF ReadEnter

(* A read that returns without a packet changes no queue.                  *)
LEMMA LeaveRefines ==
  ASSUME ReaderInv, NEW t \in Thread, pc[t] \in {"announce", "give_up", "take"},
         GiveBack(file[t], list_buffers), Return(t), taken' = taken
  PROVE  UNCHANGED RQ!qvars
<1> PICK f \in File : file[t] = f /\ f \in opened
  BY OwnFacts
<1>1. /\ TypeOK /\ ItemsInUse /\ ThreadOK(t) /\ <<t, f>> \in Queue
      /\ file \in [Thread -> File \cup {NoFile}]
  BY OwnFacts DEF TypeOK, Queue
<1>2. Leaves(t, list_buffers)
  BY <1>1, LeavesEffect
<1>3. /\ file'[t] = NoFile /\ \A u \in Thread \ {t} : file'[u] = file[u]
      /\ UNCHANGED <<packets, read_list, list_buffers>>
  BY <1>1, <1>2 DEF Leaves
<1>4. \A q \in Queue \ {<<t, f>>} : Fifo(q)' = Fifo(q) /\ Hand(q)' = Hand(q)
  BY <1>1, <1>3, OthersAlone
<1>5. Hand(<<t, f>>) = 0 /\ Hand(<<t, f>>)' = 0 /\ Fifo(<<t, f>>)' = Fifo(<<t, f>>)
  <2>1. taken[t] = 0
    BY <1>1 DEF ThreadOK, IsReady, NotReady
  <2> QED  BY <1>3, <2>1 DEF Hand, Fifo
<1>6. \A q \in Queue : Fifo(q)' = Fifo(q) /\ Hand(q)' = Hand(q)
  BY <1>4, <1>5
<1> QED  BY <1>3, <1>6, ToStutter

(* The oldest packet goes to the hand, and from there to user memory.      *)
LEMMA TakeRefines ==
  ASSUME ReaderInv, NEW t \in Thread, Take(t)
  PROVE  \E q \in Queue : RQ!Take(q)
<1>0. pc[t] = "take"
  BY DEF Take
<1> PICK f \in File : file[t] = f /\ f \in opened
  BY <1>0, OwnFacts
<1> DEFINE own == <<t, f>>
           b == list_buffers[own]
<1>1. /\ TypeOK /\ ThreadOK(t) /\ own \in Queue /\ own \in read_list /\ Own(t) = own
      /\ b \in Seq(Nat) /\ Prefixed(b)
      /\ file \in [Thread -> File \cup {NoFile}] /\ taken \in [Thread -> Nat]
      /\ list_buffers \in [Queue -> Seq(Nat)]
  BY <1>0, OwnFacts DEF TypeOK, QueueOK
<1>2. /\ b # <<>> /\ IsReady(Head(b)) /\ UNCHANGED <<packets, read_list, file>>
      /\ taken' = [taken EXCEPT ![t] = Head(b)]
      /\ list_buffers' = [list_buffers EXCEPT ![own] = Tail(b)]
  BY <1>1 DEF Take, fileVars
<1>3. /\ list_buffers'[own] = Tail(b) /\ \A p \in Queue \ {own} : list_buffers'[p] = list_buffers[p]
      /\ taken'[t] = Head(b) /\ \A u \in Thread \ {t} : taken'[u] = taken[u]
  BY <1>1, <1>2
<1>4. Fifo(own) # <<>> /\ Head(Fifo(own)) = Head(b) /\ Fifo(own)' = Tail(Fifo(own))
  BY <1>1, <1>2, <1>3, WaitingTail DEF Fifo
<1>5. Hand(own) = 0 /\ Hand(own)' = Head(b)
  <2>1. taken[t] = 0
    BY <1>0, <1>1 DEF ThreadOK, IsReady, NotReady
  <2> QED  BY <1>2, <1>3, <2>1 DEF Hand
<1>6. \A p \in Queue \ {own} : Fifo(p)' = Fifo(p) /\ Hand(p)' = Hand(p)
  BY <1>1, <1>2, <1>3, OthersAlone
<1>7. RQ!Take(own)
  <2> HIDE DEF own, b
  <2> QED  BY <1>1, <1>2, <1>4, <1>5, <1>6, ToTake
<1> QED  BY <1>1, <1>7

LEMMA PutBackRefines ==
  ASSUME ReaderInv, NEW t \in Thread, PutBack(t)
  PROVE  \E q \in Queue : RQ!Deliver(q)
<1>0. /\ pc[t] = "copy" /\ Return(t) /\ taken' = [taken EXCEPT ![t] = NotReady]
      /\ GiveBack(file[t], [list_buffers EXCEPT ![Own(t)] = Append(list_buffers[Own(t)], NotReady)])
  BY DEF PutBack
<1> PICK f \in File : file[t] = f /\ f \in opened
  BY <1>0, OwnFacts
<1> DEFINE own == <<t, f>>
           b == list_buffers[own]
           bufs == [list_buffers EXCEPT ![own] = Append(b, NotReady)]
<1>1. /\ TypeOK /\ ItemsInUse /\ ThreadOK(t) /\ own \in Queue /\ own \in read_list /\ Own(t) = own
      /\ b \in Seq(Nat) /\ Prefixed(b)
      /\ file \in [Thread -> File \cup {NoFile}] /\ taken \in [Thread -> Nat]
      /\ list_buffers \in [Queue -> Seq(Nat)]
  BY <1>0, OwnFacts DEF TypeOK, QueueOK
<1>2. Leaves(t, bufs)
  BY <1>0, <1>1, LeavesEffect
<1>3. /\ file'[t] = NoFile /\ \A u \in Thread \ {t} : file'[u] = file[u]
      /\ UNCHANGED <<packets, read_list>> /\ list_buffers' = bufs
  BY <1>1, <1>2 DEF Leaves
<1>4. /\ list_buffers'[own] = Append(b, NotReady)
      /\ \A p \in Queue \ {own} : list_buffers'[p] = list_buffers[p]
      /\ \A u \in Thread \ {t} : taken'[u] = taken[u]
  BY <1>0, <1>1, <1>3
<1>5. Fifo(own)' = Fifo(own)
  BY <1>1, <1>4, WaitingPutBack DEF Fifo
<1>6. Hand(own) # 0 /\ Hand(own)' = 0
  <2>1. taken[t] # 0
    BY <1>0, <1>1 DEF ThreadOK, IsReady, NotReady
  <2>2. file'[t] # f
    BY <1>3, FileAssumption
  <2> QED  BY <2>1, <2>2 DEF Hand
<1>7. \A p \in Queue \ {own} : Fifo(p)' = Fifo(p) /\ Hand(p)' = Hand(p)
  BY <1>1, <1>3, <1>4, OthersAlone
<1>8. RQ!Deliver(own)
  <2> HIDE DEF own, b, bufs
  <2> QED  BY <1>1, <1>3, <1>5, <1>6, <1>7, ToDeliver
<1> QED  BY <1>1, <1>8

(* A packet arrives in every queue there is.                               *)
LEMMA FillRefines ==
  ASSUME ReaderInv, Fill
  PROVE  RQ!Arrive
<1>1. /\ PartsOK /\ TypeOK /\ packets \in Nat /\ read_list \subseteq Queue
      /\ list_buffers \in [Queue -> Seq(Nat)]
      /\ NumBuffers \in Nat \ {0, 1}
  BY ByQueueAndThread, BuffersAssumption DEF PartsOK, TypeOK
<1>2. /\ packets' = packets + 1 /\ UNCHANGED <<read_list, file, taken>>
      /\ list_buffers' = [q \in Queue |-> IF q \in read_list
                                         THEN Filled(list_buffers[q], packets + 1) ELSE <<>>]
  BY DEF Fill
<1>3. ASSUME NEW q \in Queue
      PROVE  /\ Hand(q)' = Hand(q)
             /\ Fifo(q)' = IF q \notin read_list THEN Fifo(q)
                           ELSE Append(IF Len(Fifo(q)) < NumBuffers - (IF Hand(q) = 0 THEN 0 ELSE 1)
                                       THEN Fifo(q) ELSE Tail(Fifo(q)), packets')
  <2>1. Hand(q)' = Hand(q)
    BY <1>2 DEF Hand
  <2>2. QueueOK(q) /\ q[1] \in Thread /\ ThreadOK(q[1])
    BY <1>1, <1>3 DEF PartsOK, Queue
  <2>3. CASE q \notin read_list
    <3>1. list_buffers'[q] = <<>> /\ list_buffers[q] = <<>>
      BY <1>2, <1>3, <2>2, <2>3 DEF QueueOK
    <3> QED  BY <2>1, <2>3, <3>1 DEF Fifo
  <2>4. CASE q \in read_list
    <3>1. PICK b \in Seq(Nat) : b = list_buffers[q]
      BY <1>1, <1>3
    <3>2. /\ Len(b) = (IF Copies(q) THEN NumBuffers - 1 ELSE NumBuffers) /\ Prefixed(b)
          /\ list_buffers'[q] = Filled(b, packets + 1)
      BY <1>2, <1>3, <2>2, <2>4, <3>1 DEF QueueOK
    <3>3. Hand(q) = 0 <=> ~Copies(q)
      BY <2>2 DEF Hand, Copies, ThreadOK, IsReady, NotReady
    <3>4. Len(b) = NumBuffers - (IF Hand(q) = 0 THEN 0 ELSE 1) /\ Len(b) > 0
      BY <1>1, <3>2, <3>3
    <3>5. packets + 1 \in Nat \ {0}
      BY <1>1
    <3>6. Waiting(Filled(b, packets + 1)) =
            Append(IF Len(Waiting(b)) < Len(b) THEN Waiting(b) ELSE Tail(Waiting(b)), packets + 1)
      BY <3>2, <3>4, <3>5, WaitingFilled
    <3>7. Fifo(q) = Waiting(b) /\ Fifo(q)' = Waiting(Filled(b, packets + 1))
      BY <3>1, <3>2 DEF Fifo
    <3> QED  BY <1>2, <2>1, <2>4, <3>4, <3>6, <3>7
  <2> QED  BY <2>3, <2>4
<1> QED  BY <1>2, <1>3, ToArrive

(* The release of a file closes the queues of the threads that read it.    *)
LEMMA ReleaseRefines ==
  ASSUME ReaderInv, NEW f \in File, Release(f)
  PROVE  (\E gone \in SUBSET read_list : RQ!Close(gone)) \/ UNCHANGED RQ!qvars
<1> DEFINE gone == {q \in read_list : q[2] = f}
<1>1. PartsOK /\ TypeOK /\ ItemsInUse /\ read_list \subseteq Queue
  BY ByQueueAndThread DEF PartsOK, TypeOK
<1>2. Freed(f, list_buffers) /\ UNCHANGED <<packets, file, taken>> /\ \A t \in Thread : file[t] # f
  BY <1>1, ItemsRelease DEF Release
<1>3. read_list' = read_list \ gone /\ gone \in SUBSET read_list
  BY <1>2 DEF Freed
<1>4. ASSUME NEW q \in Queue
      PROVE  /\ Hand(q)' = Hand(q) /\ Fifo(q)' = IF q \in gone THEN <<>> ELSE Fifo(q)
             /\ q \in gone => Hand(q) = 0
  <2>1. Hand(q)' = Hand(q)
    BY <1>2 DEF Hand
  <2>2. list_buffers'[q] = IF q[2] = f THEN <<>> ELSE list_buffers[q]
    BY <1>2, <1>4 DEF Freed
  <2>3. q \notin read_list => list_buffers[q] = <<>>
    BY <1>1, <1>4 DEF PartsOK, QueueOK
  <2>4. Waiting(<<>>) = <<>>
    <3>1. <<>> \in Seq(Nat) /\ ~AnyReady(<<>>)
      BY DEF AnyReady
    <3> QED  BY <3>1, WaitingNone
  <2>5. Fifo(q)' = IF q \in gone THEN <<>> ELSE Fifo(q)
    BY <2>2, <2>3, <2>4 DEF Fifo
  <2>6. q \in gone => Hand(q) = 0
    BY <1>1, <1>2, <1>4 DEF Hand, Queue
  <2> QED  BY <2>1, <2>5, <2>6
<1> HIDE DEF gone
<1>5. CASE gone = {}
  <2>1. read_list' = read_list /\ \A q \in Queue : Fifo(q)' = Fifo(q) /\ Hand(q)' = Hand(q)
    BY <1>3, <1>4, <1>5
  <2> QED  BY <1>2, <2>1, ToStutter
<1>6. CASE gone # {}
  <2>1. \A q \in gone : Hand(q) = 0
    BY <1>1, <1>3, <1>4
  <2>2. RQ!Close(gone)
    BY <1>1, <1>2, <1>3, <1>4, <1>6, <2>1, ToClose
  <2> QED  BY <1>3, <2>2
<1> QED  BY <1>5, <1>6

LEMMA AlikeStutters ==
  ASSUME UNCHANGED <<packets, read_list, list_buffers, file, taken>>
  PROVE  UNCHANGED RQ!qvars
<1>1. \A q \in Queue : Fifo(q)' = Fifo(q) /\ Hand(q)' = Hand(q)
  BY DEF Fifo, Hand
<1> QED  BY <1>1, ToStutter

LEMMA PollRefines ==
  ASSUME ReaderInv, NEW t \in Thread, NEW f \in File, PollCreates(t, f)
  PROVE  RQ!Create(<<t, f>>)
<1>1. /\ pc[t] = "idle" /\ <<t, f>> \notin read_list /\ NewQueue(<<t, f>>)
      /\ packets' = packets /\ taken' = taken /\ file' = file
  BY DEF PollCreates
<1> QED  BY <1>1, CreateRefines

(* A step of a thread in read.                                             *)
LEMMA ReadRefines ==
  ASSUME ReaderInv, NEW t \in Thread, ReadStep(t)
  PROVE  (\E q \in Queue : RQ!Take(q) \/ RQ!Deliver(q)) \/ UNCHANGED RQ!qvars
<1>1. pc[t] # "idle" /\ Own(t) \in Queue
  <2>1. pc[t] # "idle"
    BY DEF ReadStep, ReadAgain, Announce, Woken, GiveUp, Take, TakeFails, PutBack
  <2> QED  BY <2>1, OwnFacts
<1>2. CASE ReadAgain(t) \/ GiveUp(t) \/ TakeFails(t)
  BY <1>2, LeaveRefines DEF ReadAgain, GiveUp, TakeFails
<1>3. CASE Announce(t) \/ Woken(t)
  BY <1>3, AlikeStutters DEF Announce, Woken
<1>4. CASE Take(t)
  BY <1>1, <1>4, TakeRefines
<1>5. CASE PutBack(t)
  BY <1>1, <1>5, PutBackRefines
<1> QED  BY <1>2, <1>3, <1>4, <1>5 DEF ReadStep

LEMMA InitRefines == Init => RQ!Init
<1> SUFFICES ASSUME Init
             PROVE  RQ!Init
  OBVIOUS
<1>1. packets = 0 /\ read_list = {}
  BY DEF Init
<1>2. Waiting(<<>>) = <<>>
  <2>1. <<>> \in Seq(Nat) /\ ~AnyReady(<<>>)
    BY DEF AnyReady
  <2> QED  BY <2>1, WaitingNone
<1>3. \A q \in Queue : Fifo(q) = <<>> /\ Hand(q) = 0
  BY <1>2 DEF Init, Fifo, Hand, Queue, NotReady
<1>4. [q \in Queue |-> Fifo(q)] = [q \in Queue |-> <<>>]
  BY <1>3
<1>5. [q \in Queue |-> Hand(q)] = [q \in Queue |-> 0]
  BY <1>3
<1> QED  BY <1>1, <1>4, <1>5 DEF RQ!Init, Fifo, Hand

LEMMA StepRefines == ReaderInv /\ [Next]_vars => [RQ!Next]_RQ!qvars
<1> SUFFICES ASSUME ReaderInv, [Next]_vars
             PROVE  RQ!Next \/ UNCHANGED RQ!qvars
  OBVIOUS
<1>1. CASE Fill
  BY <1>1, FillRefines DEF RQ!Next
<1>2. CASE SignalAllWaitingReaders \/ Unbind
  BY <1>2, AlikeStutters DEF SignalAllWaitingReaders, Unbind, queueVars
<1>3. ASSUME NEW f \in File, Open(f) PROVE UNCHANGED RQ!qvars
  BY <1>3, AlikeStutters DEF Open, queueVars
<1>4. ASSUME NEW f \in File, Release(f) PROVE RQ!Next \/ UNCHANGED RQ!qvars
  BY <1>4, ReleaseRefines DEF RQ!Next
<1>5. ASSUME NEW t \in Thread, NEW f \in File, PollCreates(t, f) \/ ReadEnter(t, f)
      PROVE  RQ!Next \/ UNCHANGED RQ!qvars
  <2>1. <<t, f>> \in Queue
    BY DEF Queue
  <2> QED  BY <1>5, <2>1, PollRefines, EnterRefines DEF RQ!Next
<1>6. ASSUME NEW t \in Thread, ReadStep(t) PROVE RQ!Next \/ UNCHANGED RQ!qvars
  BY <1>6, ReadRefines DEF RQ!Next
<1>7. ASSUME NEW t \in Thread, Interrupt(t) PROVE UNCHANGED RQ!qvars
  BY <1>7, AlikeStutters DEF Interrupt, queueVars
<1>8. CASE UNCHANGED vars
  BY <1>8, AlikeStutters DEF vars, queueVars
<1> QED  BY <1>1, <1>2, <1>3, <1>4, <1>5, <1>6, <1>7, <1>8 DEF Next

(* Whatever the interleaving of reads, polls, signals, releases and the    *)
(* disconnect, every thread sees the packets since its first look once and *)
(* in order, and loses only the oldest ones of a full queue: locks, lists, *)
(* wake-ups and the life of items are invisible (bulk.c:2287-2520).        *)
THEOREM QueuesCorrect == Spec => ImplementsReadQueue
<1>1. Init => RQ!Init
  BY InitRefines
<1>2. ReaderInv /\ [Next]_vars => [RQ!Next]_RQ!qvars
  BY StepRefines
<1> QED  BY <1>1, <1>2, ReaderCorrect, PTL DEF Spec, ImplementsReadQueue, RQ!Spec
=============================================================================
