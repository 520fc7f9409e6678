---------------------------- MODULE VendorProofs ----------------------------
(* The safety properties of VendorRequest, proved for any number of        *)
(* requesters and lockers and any set of events, and those of Talkover,    *)
(* whose calls are made of such requests, for any number of clients.       *)
EXTENDS VendorRequest, Talkover, FiniteSetTheorems, TLAPS

(* A requester that goes to l leaves the others where they are.            *)
LEMMA GotoEffect ==
  ASSUME TypeOK, NEW t \in Requester, NEW l \in Label, Goto(t, l)
  PROVE  /\ pc' \in [Requester -> Label] /\ pc'[t] = l
         /\ \A s \in Requester \ {t} : pc'[s] = pc[s]
BY DEF TypeOK, Goto

(* The requests that are counted, when t goes to l.                        *)
LEMMA InRequestEffect ==
  ASSUME TypeOK, NEW t \in Requester, NEW l \in Label, Goto(t, l)
  PROVE  /\ Cardinality(InRequest') =
              IF l \in CountLabel /\ t \notin InRequest THEN Cardinality(InRequest) + 1
              ELSE IF l \notin CountLabel /\ t \in InRequest THEN Cardinality(InRequest) - 1
              ELSE Cardinality(InRequest)
         /\ t \in InRequest <=> pc[t] \in CountLabel
         /\ IsFiniteSet(InRequest)
<1>1. IsFiniteSet(InRequest)
  BY RequesterAssumption, FS_Subset DEF InRequest
<1>2. CASE l \in CountLabel
  <2>1. InRequest' = InRequest \cup {t}
    BY <1>2, GotoEffect DEF InRequest
  <2> QED  BY <1>1, <1>2, <2>1, FS_AddElement DEF InRequest
<1>3. CASE l \notin CountLabel
  <2>1. InRequest' = InRequest \ {t}
    BY <1>3, GotoEffect DEF InRequest
  <2> QED  BY <1>1, <1>3, <2>1, FS_RemoveElement DEF InRequest
<1> QED  BY <1>2, <1>3

(* The lockers, when l goes to p.                                          *)
LEMMA LockersEffect ==
  ASSUME TypeOK, NEW l \in Locker, NEW p \in {"idle", "drain", "locked"},
         lock_pc' = [lock_pc EXCEPT ![l] = p]
  PROVE  /\ Cardinality(Lockers') =
              IF p # "idle" /\ lock_pc[l] = "idle" THEN Cardinality(Lockers) + 1
              ELSE IF p = "idle" /\ lock_pc[l] # "idle" THEN Cardinality(Lockers) - 1
              ELSE Cardinality(Lockers)
         /\ IsFiniteSet(Lockers)
<1>1. IsFiniteSet(Lockers)
  BY LockerAssumption, FS_Subset DEF Lockers
<1>2. CASE p # "idle"
  <2>1. Lockers' = Lockers \cup {l}
    BY <1>2 DEF Lockers, TypeOK
  <2> QED  BY <1>1, <1>2, <2>1, FS_AddElement DEF Lockers
<1>3. CASE p = "idle"
  <2>1. Lockers' = Lockers \ {l}
    BY <1>3 DEF Lockers, TypeOK
  <2> QED  BY <1>1, <1>3, <2>1, FS_RemoveElement DEF Lockers
<1> QED  BY <1>2, <1>3

(* While somebody has the lock, or waits for it, locked_io says so.        *)
LEMMA LockedIoPositive ==
  ASSUME TypeOK, LocksCounted, NEW l \in Locker, lock_pc[l] # "idle"
  PROVE  locked_io > 0
<1>1. IsFiniteSet(Lockers) /\ Lockers # {}
  BY LockerAssumption, FS_Subset DEF Lockers
<1>2. Cardinality(Lockers) # 0 /\ Cardinality(Lockers) \in Nat
  BY <1>1, FS_EmptySet, FS_CardinalityType
<1> QED  BY <1>2 DEF LocksCounted

-----------------------------------------------------------------------------
LEMMA InitKeeps ==
  ASSUME Init
  PROVE  VendorInv
<1> USE DEF Init
<1>1. TypeOK
  <2>1. has_buffers \in BOOLEAN /\ no_urb_submission \in BOOLEAN
    BY Zenon
  <2> QED  BY <2>1 DEF TypeOK, Label
<1>2. InRequest = {} /\ Lockers = {}
  BY DEF InRequest, CountLabel, MutexLabel, Lockers
<1>3. CountMatches /\ LocksCounted
  BY <1>2, FS_EmptySet DEF CountMatches, LocksCounted
<1>4. StaleBounded /\ NothingStale
  BY DEF StaleBounded, NothingStale, Pending, Waiting
<1>5. LockDrains
  BY DEF LockDrains, VendorLocked
<1>6. MutexHeld /\ SuspendSeen /\ AnswerIsOwn
  BY DEF MutexHeld, SuspendSeen, AnswerIsOwn, MutexLabel
<1> QED  BY <1>1, <1>3, <1>4, <1>5, <1>6 DEF VendorInv

LEMMA TypeKeeps ==
  ASSUME TypeOK, Next
  PROVE  TypeOK'
<1> USE DEF TypeOK, lockVars, urbVars, powerVars
<1>1. ASSUME NEW t \in Requester, TestUnlocked(t) \/ CountRequest(t) \/ Down(t) \/ DownNoBuffer(t)
      PROVE  TypeOK'
  BY <1>1 DEF TestUnlocked, CountRequest, Down, DownNoBuffer, Goto, Label, CountLabel, MutexLabel
<1>2. ASSUME NEW t \in Requester, FillUrb(t) \/ SubmitUrb(t) \/ SubmitFails(t)
      PROVE  TypeOK'
  BY <1>2 DEF FillUrb, SubmitUrb, SubmitFails, Goto, Label, CountLabel, MutexLabel
<1>3. ASSUME NEW t \in Requester, WaitDone(t) \/ WaitGivenUp(t) \/ KillAfterTimeout(t)
      PROVE  TypeOK'
  BY <1>3 DEF WaitDone, WaitGivenUp, KillAfterTimeout, KillCtrlUrb, Goto, Label,
              CountLabel, MutexLabel
<1>4. ASSUME NEW t \in Requester, CheckStatus(t) \/ Up(t) \/ Uncount(t)
      PROVE  TypeOK'
  BY <1>4 DEF CheckStatus, Up, Uncount, Goto, Label, CountLabel, MutexLabel
<1>5. CASE CtrlCallback
  BY <1>5 DEF CtrlCallback
<1>6. ASSUME NEW l \in Locker, LockVendorIo(l) \/ Drain(l) \/ UnlockVendorIo(l)
      PROVE  TypeOK'
  BY <1>6 DEF LockVendorIo, Drain, UnlockVendorIo
<1>7. CASE SuspendForbid
  BY <1>7 DEF SuspendForbid
<1>8. CASE SuspendKill
  BY <1>8 DEF SuspendKill, KillCtrlUrb
<1>9. CASE Resume
  BY <1>9 DEF Resume
<1> QED  BY <1>8, <1>9, <1>1, <1>2, <1>3, <1>4, <1>5, <1>6, <1>7 DEF Next, Progress

(* vendor_command_in_progress and locked_io keep their counts.             *)
LEMMA CountKeeps ==
  ASSUME TypeOK, CountMatches, Next
  PROVE  CountMatches'
<1> USE DEF lockVars, urbVars, powerVars
<1>1. ASSUME NEW t \in Requester, NEW l \in Label, Goto(t, l),
             vendor_command_in_progress' = vendor_command_in_progress,
             pc[t] \in CountLabel <=> l \in CountLabel
      PROVE  CountMatches'
  BY <1>1, InRequestEffect DEF CountMatches
<1>2. ASSUME NEW t \in Requester, CountRequest(t)
      PROVE  CountMatches'
  <2>1. Goto(t, "down") /\ pc[t] = "count"
    BY <1>2 DEF CountRequest
  <2> QED
    BY <1>2, <2>1, InRequestEffect DEF CountMatches, CountRequest, Label, CountLabel, MutexLabel
<1>3. ASSUME NEW t \in Requester, DownNoBuffer(t) \/ Uncount(t)
      PROVE  CountMatches'
  <2>1. Goto(t, "idle") /\ pc[t] \in {"down", "uncount"}
        /\ vendor_command_in_progress' = vendor_command_in_progress - 1
    BY <1>3 DEF DownNoBuffer, Uncount
  <2> QED
    BY <2>1, InRequestEffect DEF CountMatches, Label, CountLabel, MutexLabel
<1>4. ASSUME NEW t \in Requester, TestUnlocked(t)
      PROVE  CountMatches'
  BY <1>1, <1>4 DEF TestUnlocked, Label, CountLabel, MutexLabel
<1>5. ASSUME NEW t \in Requester,
             \/ Down(t) \/ FillUrb(t) \/ SubmitUrb(t) \/ SubmitFails(t) \/ WaitDone(t)
             \/ WaitGivenUp(t) \/ KillAfterTimeout(t) \/ CheckStatus(t) \/ Up(t)
      PROVE  CountMatches'
  <2>1. /\ pc[t] \in CountLabel /\ vendor_command_in_progress' = vendor_command_in_progress
        /\ \E l \in CountLabel : Goto(t, l)
    BY <1>5 DEF Down, FillUrb, SubmitUrb, SubmitFails, WaitDone, WaitGivenUp,
                KillAfterTimeout, CheckStatus, Up, CountLabel, MutexLabel
  <2> QED  BY <1>1, <2>1 DEF Label
<1>6. ASSUME pc' = pc, vendor_command_in_progress' = vendor_command_in_progress
      PROVE  CountMatches'
  BY <1>6 DEF CountMatches, InRequest
<1>7. ASSUME NEW l \in Locker, LockVendorIo(l) \/ Drain(l) \/ UnlockVendorIo(l)
      PROVE  CountMatches'
  BY <1>6, <1>7 DEF LockVendorIo, Drain, UnlockVendorIo
<1>8. CASE CtrlCallback \/ SuspendForbid \/ SuspendKill \/ Resume
  BY <1>6, <1>8 DEF CtrlCallback, SuspendForbid, SuspendKill, Resume
<1> QED  BY <1>2, <1>3, <1>4, <1>5, <1>7, <1>8 DEF Next, Progress

LEMMA LocksKeep ==
  ASSUME TypeOK, LocksCounted, Next
  PROVE  LocksCounted'
<1> USE DEF lockVars, urbVars, powerVars
<1>1. ASSUME NEW l \in Locker, LockVendorIo(l)
      PROVE  LocksCounted'
  BY <1>1, LockersEffect DEF LocksCounted, LockVendorIo
<1>2. ASSUME NEW l \in Locker, Drain(l)
      PROVE  LocksCounted'
  BY <1>2, LockersEffect DEF LocksCounted, Drain
<1>3. ASSUME NEW l \in Locker, UnlockVendorIo(l)
      PROVE  LocksCounted'
  <2>1. locked_io > 0 /\ lock_pc[l] = "locked"
    BY <1>3, LockedIoPositive DEF UnlockVendorIo
  <2>2. locked_io' = locked_io - 1
    BY <1>3, <2>1 DEF UnlockVendorIo, TypeOK
  <2>3. lock_pc' = [lock_pc EXCEPT ![l] = "idle"]
    BY <1>3 DEF UnlockVendorIo
  <2> QED  BY <2>1, <2>2, <2>3, LockersEffect DEF LocksCounted
<1>4. ASSUME lock_pc' = lock_pc, locked_io' = locked_io
      PROVE  LocksCounted'
  BY <1>4 DEF LocksCounted, Lockers
<1>5. ASSUME NEW t \in Requester, TestUnlocked(t) \/ Progress(t)
      PROVE  LocksCounted'
  BY <1>4, <1>5 DEF TestUnlocked, Progress, CountRequest, Down, DownNoBuffer, FillUrb,
                    SubmitUrb, SubmitFails, WaitDone, WaitGivenUp, KillAfterTimeout,
                    CheckStatus, Up, Uncount
<1>6. CASE CtrlCallback \/ SuspendForbid \/ SuspendKill \/ Resume
  BY <1>4, <1>6 DEF CtrlCallback, SuspendForbid, SuspendKill, Resume
<1> QED  BY <1>1, <1>2, <1>3, <1>5, <1>6 DEF Next

(* Nobody but the requests that have slipped through is under way while    *)
(* vendor I/O is locked.                                                   *)
LEMMA DrainsKeep ==
  ASSUME TypeOK, CountMatches, LocksCounted, LockDrains, Next
  PROVE  LockDrains'
<1> USE DEF lockVars, urbVars, powerVars
<1>1. ASSUME NEW t \in Requester, TestUnlocked(t)
      PROVE  LockDrains'
  <2>1. \A l \in Locker : lock_pc[l] = "idle"
    BY <1>1, LockedIoPositive DEF TestUnlocked, TypeOK
  <2> QED  BY <1>1, <2>1 DEF TestUnlocked, LockDrains, VendorLocked
<1>2. ASSUME NEW t \in Requester, DownNoBuffer(t) \/ Uncount(t)
      PROVE  LockDrains'
  BY <1>2 DEF DownNoBuffer, Uncount, Goto, LockDrains, VendorLocked, TypeOK
<1>3. ASSUME NEW t \in Requester, pc[t] # "idle", NEW l \in Label, Goto(t, l),
             UNCHANGED lockVars
      PROVE  LockDrains'
  BY <1>3, GotoEffect DEF LockDrains, VendorLocked
<1>4. ASSUME NEW t \in Requester,
             \/ CountRequest(t)
             \/ Down(t) \/ FillUrb(t) \/ SubmitUrb(t) \/ SubmitFails(t) \/ WaitDone(t)
             \/ WaitGivenUp(t) \/ KillAfterTimeout(t) \/ CheckStatus(t) \/ Up(t)
      PROVE  LockDrains'
  <2>1. pc[t] # "idle" /\ UNCHANGED lockVars /\ \E l \in CountLabel : Goto(t, l)
    BY <1>4 DEF CountRequest, Down, FillUrb, SubmitUrb, SubmitFails, WaitDone, WaitGivenUp,
                KillAfterTimeout, CheckStatus, Up, CountLabel, MutexLabel
  <2> QED  BY <1>3, <2>1 DEF Label
<1>5. ASSUME NEW l \in Locker, Drain(l)
      PROVE  LockDrains'
  <2>1. Cardinality(InRequest) = 0 /\ IsFiniteSet(InRequest)
    BY <1>5, RequesterAssumption, FS_Subset DEF Drain, CountMatches, InRequest
  <2>2. InRequest = {}
    BY <2>1, FS_EmptySet
  <2>3. \A t \in Requester : pc[t] \in {"idle", "count"}
    BY <2>2 DEF InRequest, TypeOK, Label
  <2> QED  BY <1>5, <2>3 DEF Drain, LockDrains
<1>6. ASSUME NEW l \in Locker, LockVendorIo(l) \/ UnlockVendorIo(l)
      PROVE  LockDrains'
  <2>1. pc' = pc /\ slipped' = slipped /\ (VendorLocked' => VendorLocked)
    BY <1>6 DEF LockVendorIo, UnlockVendorIo, VendorLocked, TypeOK
  <2> QED  BY <2>1 DEF LockDrains
<1>7. CASE CtrlCallback \/ SuspendForbid \/ SuspendKill \/ Resume
  BY <1>7 DEF CtrlCallback, SuspendForbid, SuspendKill, Resume, LockDrains, VendorLocked
<1> QED  BY <1>1, <1>2, <1>4, <1>5, <1>6, <1>7 DEF Next, Progress

-----------------------------------------------------------------------------
(* Two requesters are never both between down and up.                      *)
LEMMA OneInside ==
  ASSUME MutexHeld, NEW s \in Requester, NEW t \in Requester,
         pc[s] \in MutexLabel, pc[t] \in MutexLabel
  PROVE  s = t
BY DEF MutexHeld

LEMMA MutexKeeps ==
  ASSUME TypeOK, MutexHeld, Next
  PROVE  MutexHeld'
<1> USE DEF lockVars, urbVars, powerVars
<1>1. ASSUME NEW t \in Requester, Down(t) \/ DownNoBuffer(t)
      PROVE  MutexHeld'
  <2>1. \A s \in Requester : pc[s] \notin MutexLabel
    BY <1>1, RequesterAssumption DEF Down, DownNoBuffer, MutexHeld
  <2> QED  BY <1>1, <2>1 DEF Down, DownNoBuffer, Goto, MutexHeld, MutexLabel, TypeOK
<1>2. ASSUME NEW t \in Requester, Up(t)
      PROVE  MutexHeld'
  BY <1>2 DEF Up, Goto, MutexHeld, MutexLabel, TypeOK
<1>3. ASSUME NEW t \in Requester, NEW l \in Label, Goto(t, l),
             vendor_request_mutex' = vendor_request_mutex,
             l \in MutexLabel => pc[t] \in MutexLabel
      PROVE  MutexHeld'
  BY <1>3, GotoEffect DEF MutexHeld
<1>4. ASSUME NEW t \in Requester, TestUnlocked(t) \/ CountRequest(t) \/ Uncount(t)
      PROVE  MutexHeld'
  <2>1. /\ vendor_request_mutex' = vendor_request_mutex
        /\ \E l \in Label \ MutexLabel : Goto(t, l)
    BY <1>4 DEF TestUnlocked, CountRequest, Uncount, Label, CountLabel, MutexLabel
  <2> QED  BY <1>3, <2>1
<1>5. ASSUME NEW t \in Requester,
             \/ FillUrb(t) \/ SubmitUrb(t) \/ SubmitFails(t) \/ WaitDone(t)
             \/ WaitGivenUp(t) \/ KillAfterTimeout(t) \/ CheckStatus(t)
      PROVE  MutexHeld'
  <2>1. /\ vendor_request_mutex' = vendor_request_mutex
        /\ pc[t] \in MutexLabel /\ \E l \in MutexLabel : Goto(t, l)
    BY <1>5 DEF FillUrb, SubmitUrb, SubmitFails, WaitDone, WaitGivenUp,
                KillAfterTimeout, CheckStatus, MutexLabel
  <2> QED  BY <1>3, <2>1 DEF Label, CountLabel
<1>6. ASSUME pc' = pc, vendor_request_mutex' = vendor_request_mutex
      PROVE  MutexHeld'
  BY <1>6 DEF MutexHeld
<1>7. ASSUME NEW l \in Locker, LockVendorIo(l) \/ Drain(l) \/ UnlockVendorIo(l)
      PROVE  MutexHeld'
  BY <1>6, <1>7 DEF LockVendorIo, Drain, UnlockVendorIo
<1>8. CASE CtrlCallback \/ SuspendForbid \/ SuspendKill \/ Resume
  BY <1>6, <1>8 DEF CtrlCallback, SuspendForbid, SuspendKill, Resume
<1> QED  BY <1>1, <1>2, <1>4, <1>5, <1>7, <1>8 DEF Next, Progress

-----------------------------------------------------------------------------
(* Giving the URB back does not change what is there or yet to come.       *)
LEMMA KillKeepsPending ==
  ASSUME TypeOK, KillCtrlUrb
  PROVE  Pending' = Pending
BY DEF TypeOK, KillCtrlUrb, Pending

(* The completions there or yet to come, and who waits for one.            *)
LEMMA PendingKeeps ==
  ASSUME TypeOK, MutexHeld, StaleBounded, NothingStale, Next
  PROVE  StaleBounded' /\ NothingStale'
<1> USE DEF lockVars, urbVars, powerVars
<1>1. ASSUME Pending' = Pending, upsets \subseteq upsets',
             NEW t \in Requester, NEW l \in Label, Goto(t, l),
             pc[t] # "wait", l \notin {"wait", "kill"}
      PROVE  StaleBounded' /\ NothingStale'
  <2>1. \A s \in Requester : /\ pc'[s] = "wait" <=> pc[s] = "wait"
                             /\ pc'[s] = "kill" => pc[s] = "kill"
    BY <1>1, GotoEffect
  <2> QED  BY <1>1, <2>1 DEF StaleBounded, NothingStale, Waiting
<1>2. ASSUME Pending' = Pending, upsets \subseteq upsets', pc' = pc
      PROVE  StaleBounded' /\ NothingStale'
  BY <1>2 DEF StaleBounded, NothingStale, Waiting
<1>3. ASSUME NEW t \in Requester, SubmitUrb(t)
      PROVE  StaleBounded' /\ NothingStale'
  <2>1. pc[t] = "submit" /\ pc'[t] = "wait" /\ \A s \in Requester \ {t} : pc'[s] = pc[s]
    BY <1>3 DEF SubmitUrb, Goto, TypeOK
  <2>2. ~Waiting
    BY <2>1, OneInside DEF Waiting, MutexLabel
  <2>3. Pending' = Pending + 1 /\ Pending <= 1 /\ Pending \in Nat
    BY <1>3, <2>2 DEF SubmitUrb, StaleBounded, Pending, Waiting, TypeOK
  <2>4. StaleBounded'
    BY <2>1, <2>3 DEF StaleBounded
  <2>5. NothingStale'
    BY <1>3, <2>1, <2>2, <2>3 DEF NothingStale, Waiting, SubmitUrb
  <2> QED  BY <2>4, <2>5
<1>4. ASSUME NEW t \in Requester, WaitDone(t)
      PROVE  StaleBounded' /\ NothingStale'
  <2>1. pc[t] = "wait" /\ pc'[t] = "status" /\ \A s \in Requester \ {t} : pc'[s] = pc[s]
    BY <1>4 DEF WaitDone, Goto, TypeOK
  <2>2. \A s \in Requester \ {t} : pc[s] # "wait"
    BY <2>1, OneInside DEF MutexLabel
  <2>3. Pending' = Pending - 1 /\ Pending \in Nat
    BY <1>4 DEF WaitDone, Pending, TypeOK
  <2>4. Waiting /\ ~Waiting'
    BY <2>1, <2>2 DEF Waiting
  <2>5. StaleBounded'
    BY <2>3 DEF StaleBounded
  <2>6. NothingStale'
    BY <1>4, <2>1, <2>3, <2>4 DEF NothingStale, WaitDone
  <2> QED  BY <2>5, <2>6
<1>5. ASSUME NEW t \in Requester, WaitGivenUp(t)
      PROVE  StaleBounded' /\ NothingStale'
  BY <1>5 DEF WaitGivenUp, StaleBounded, NothingStale, Pending, TypeOK
<1>6. ASSUME NEW t \in Requester, KillAfterTimeout(t)
      PROVE  StaleBounded' /\ NothingStale'
  BY <1>1, <1>6, KillKeepsPending DEF KillAfterTimeout, Label, CountLabel, MutexLabel
<1>7. ASSUME NEW t \in Requester,
             \/ TestUnlocked(t) \/ CountRequest(t) \/ Down(t) \/ DownNoBuffer(t)
             \/ FillUrb(t) \/ SubmitFails(t) \/ CheckStatus(t) \/ Up(t) \/ Uncount(t)
      PROVE  StaleBounded' /\ NothingStale'
  <2>1. /\ Pending' = Pending /\ upsets' = upsets /\ pc[t] # "wait"
        /\ \E l \in {"idle", "count", "down", "fill", "submit", "status", "up", "uncount"} :
              Goto(t, l)
    BY <1>7 DEF TestUnlocked, CountRequest, Down, DownNoBuffer, FillUrb, SubmitFails,
                CheckStatus, Up, Uncount, Pending
  <2> QED  BY <1>1, <2>1 DEF Label, CountLabel, MutexLabel
<1>8. CASE CtrlCallback
  <2>1. Pending' = Pending
    BY <1>8 DEF CtrlCallback, Pending, TypeOK
  <2> QED  BY <1>2, <1>8, <2>1 DEF CtrlCallback
<1>9. ASSUME NEW l \in Locker, LockVendorIo(l) \/ Drain(l) \/ UnlockVendorIo(l)
      PROVE  StaleBounded' /\ NothingStale'
  BY <1>2, <1>9 DEF LockVendorIo, Drain, UnlockVendorIo, Pending
<1>10. CASE SuspendKill
  BY <1>2, <1>10, KillKeepsPending DEF SuspendKill
<1>11. CASE SuspendForbid \/ Resume
  BY <1>2, <1>11 DEF SuspendForbid, Resume, Pending
<1> QED
  BY <1>3, <1>4, <1>5, <1>6, <1>7, <1>8, <1>9, <1>10, <1>11 DEF Next, Progress

LEMMA SuspendKeeps ==
  ASSUME SuspendSeen, Next
  PROVE  SuspendSeen'
<1> USE DEF SuspendSeen, lockVars, urbVars, powerVars
<1>1. ASSUME NEW t \in Requester, TestUnlocked(t) \/ Progress(t)
      PROVE  SuspendSeen'
  BY <1>1 DEF TestUnlocked, Progress, CountRequest, Down, DownNoBuffer, FillUrb,
              SubmitUrb, SubmitFails, WaitDone, WaitGivenUp, KillAfterTimeout,
              CheckStatus, Up, Uncount
<1>2. ASSUME NEW l \in Locker, LockVendorIo(l) \/ Drain(l) \/ UnlockVendorIo(l)
      PROVE  SuspendSeen'
  BY <1>2 DEF LockVendorIo, Drain, UnlockVendorIo
<1>3. CASE CtrlCallback \/ SuspendForbid \/ SuspendKill \/ Resume
  BY <1>3 DEF CtrlCallback, SuspendForbid, SuspendKill, Resume
<1> QED  BY <1>1, <1>2, <1>3 DEF Next

(* Whose answer the control URB has, as long as nothing has gone wrong.    *)
LEMMA AnswerKeeps ==
  ASSUME TypeOK, MutexHeld, SuspendSeen, NothingStale, AnswerIsOwn, Next
  PROVE  AnswerIsOwn'
<1> USE DEF lockVars, urbVars, powerVars
<1> SUFFICES ASSUME upsets' = {}
             PROVE  AnswerIsOwn'
  BY DEF AnswerIsOwn
<1>1. ASSUME upsets = {}, UNCHANGED <<urb_status, urb_owner>>,
             NEW t \in Requester, NEW l \in Label, Goto(t, l),
             \A s \in Requester \ {t} : ret'[s] = ret[s],
             l = "status" => pc[t] = "wait",
             l # "wait", l = "up" => ret'[t] = "failed"
      PROVE  AnswerIsOwn'
  BY <1>1, GotoEffect DEF AnswerIsOwn
<1>2. ASSUME NEW t \in Requester,
             \/ TestUnlocked(t) \/ CountRequest(t) \/ Down(t) \/ DownNoBuffer(t)
             \/ Up(t)
      PROVE  AnswerIsOwn'
  <2>1. /\ upsets' = upsets /\ UNCHANGED <<urb_status, urb_owner, ret>>
        /\ \E l \in {"idle", "count", "down", "fill", "uncount"} : Goto(t, l)
    BY <1>2 DEF TestUnlocked, CountRequest, Down, DownNoBuffer, Up
  <2> QED  BY <1>1, <2>1 DEF Label, CountLabel, MutexLabel
<1>3. ASSUME NEW t \in Requester, Uncount(t)
      PROVE  AnswerIsOwn'
  BY <1>1, <1>3 DEF Uncount, TypeOK, Label
<1>4. ASSUME NEW t \in Requester, FillUrb(t) \/ SubmitFails(t)
      PROVE  AnswerIsOwn'
  <2>1. /\ upsets' = upsets /\ UNCHANGED <<urb_status, urb_owner>>
        /\ \A s \in Requester \ {t} : ret'[s] = ret[s]
        /\ Goto(t, "submit") \/ (Goto(t, "up") /\ ret'[t] = "failed")
    BY <1>4 DEF FillUrb, SubmitFails, TypeOK
  <2> QED  BY <1>1, <2>1 DEF Label, CountLabel, MutexLabel
<1>5. ASSUME NEW t \in Requester, SubmitUrb(t)
      PROVE  AnswerIsOwn'
  <2>1. pc[t] = "submit" /\ pc'[t] = "wait" /\ \A s \in Requester \ {t} : pc'[s] = pc[s]
    BY <1>5 DEF SubmitUrb, Goto, TypeOK
  <2>2. \A s \in Requester \ {t} : pc[s] \notin MutexLabel
    BY <2>1, OneInside DEF MutexLabel
  <2> QED  BY <1>5, <2>1, <2>2 DEF SubmitUrb, AnswerIsOwn, MutexLabel
<1>6. ASSUME NEW t \in Requester, WaitDone(t)
      PROVE  AnswerIsOwn'
  <2>1. pc[t] = "wait" /\ \A s \in Requester \ {t} : ret'[s] = ret[s]
    BY <1>6 DEF WaitDone, TypeOK
  <2> QED  BY <1>1, <1>6, <2>1 DEF WaitDone, Label, CountLabel, MutexLabel
<1>7. ASSUME NEW t \in Requester, WaitGivenUp(t)
      PROVE  AnswerIsOwn'
  BY <1>7 DEF WaitGivenUp
<1>8. ASSUME NEW t \in Requester, KillAfterTimeout(t)
      PROVE  AnswerIsOwn'
  BY <1>8 DEF KillAfterTimeout, NothingStale
<1>9. ASSUME NEW t \in Requester, CheckStatus(t)
      PROVE  AnswerIsOwn'
  <2>1. /\ pc[t] = "status" /\ upsets = {} /\ pc'[t] = "up"
        /\ \A s \in Requester \ {t} : pc'[s] = pc[s] /\ ret'[s] = ret[s]
        /\ UNCHANGED <<urb_status, urb_owner>>
        /\ urb_status = "stall" => ret'[t] = "failed"
    BY <1>9 DEF CheckStatus, Goto, TypeOK
  <2>2. ~Waiting
    BY <2>1, OneInside DEF Waiting, MutexLabel
  <2>3. urb_status # "active"
    BY <2>1, <2>2 DEF NothingStale, Pending, TypeOK
  <2> QED  BY <2>1, <2>3 DEF AnswerIsOwn
<1>10. CASE CtrlCallback
  <2>1. upsets = {} /\ urb_status = "active" /\ urb_status' \in {"ok", "stall"}
        /\ UNCHANGED <<urb_owner, pc, ret>>
    BY <1>10 DEF CtrlCallback
  <2> QED  BY <2>1 DEF AnswerIsOwn
<1>11. ASSUME NEW l \in Locker, LockVendorIo(l) \/ Drain(l) \/ UnlockVendorIo(l)
      PROVE  AnswerIsOwn'
  BY <1>11 DEF LockVendorIo, Drain, UnlockVendorIo, AnswerIsOwn
<1>12. CASE SuspendForbid \/ SuspendKill
  BY <1>12 DEF SuspendForbid, SuspendKill, SuspendSeen
<1>13. CASE Resume
  BY <1>13 DEF Resume, AnswerIsOwn
<1> QED
  BY <1>2, <1>3, <1>4, <1>5, <1>6, <1>7, <1>8, <1>9, <1>10, <1>11, <1>12, <1>13
     DEF Next, Progress

LEMMA StutterKeeps ==
  ASSUME VendorInv, UNCHANGED vars
  PROVE  VendorInv'
<1> USE DEF vars, lockVars, urbVars, powerVars
<1>1. TypeOK'
  BY DEF VendorInv, TypeOK
<1>2. CountMatches' /\ LocksCounted'
  BY DEF VendorInv, CountMatches, LocksCounted, InRequest, Lockers
<1>3. StaleBounded' /\ NothingStale'
  BY DEF VendorInv, StaleBounded, NothingStale, Pending, Waiting
<1>4. LockDrains' /\ MutexHeld' /\ SuspendSeen' /\ AnswerIsOwn'
  BY DEF VendorInv, LockDrains, VendorLocked, MutexHeld, SuspendSeen, AnswerIsOwn
<1> QED  BY <1>1, <1>2, <1>3, <1>4 DEF VendorInv

-----------------------------------------------------------------------------
(* The inductive invariant holds for any requesters, lockers and events.   *)
THEOREM VendorCorrect == Spec => []VendorInv
<1>1. Init => VendorInv
  BY InitKeeps
<1>2. ASSUME VendorInv, [Next]_vars
      PROVE  VendorInv'
  <2>1. CASE Next
    BY <1>2, <2>1, TypeKeeps, CountKeeps, LocksKeep, DrainsKeep, MutexKeeps,
       PendingKeeps, SuspendKeeps, AnswerKeeps DEF VendorInv
  <2>2. CASE UNCHANGED vars
    BY <1>2, <2>2, StutterKeeps
  <2> QED  BY <1>2, <2>1, <2>2
<1> QED  BY <1>1, <1>2, PTL DEF Spec

(* Every variable keeps its type; neither done count nor lock count is     *)
(* ever negative.                                                          *)
THEOREM VendorTyped == Spec => []TypeOK
<1>1. VendorInv => TypeOK
  BY DEF VendorInv
<1> QED  BY <1>1, VendorCorrect, PTL

(* The count lock_vendor_io waits for is that of the requests under way.   *)
THEOREM CountCorrect == Spec => []CountMatches
<1>1. VendorInv => CountMatches
  BY DEF VendorInv
<1> QED  BY <1>1, VendorCorrect, PTL

(* However many requests are given up, at most one stale completion waits  *)
(* for the next request.                                                   *)
THEOREM StaleCorrect == Spec => []StaleBounded
<1>1. VendorInv => StaleBounded
  BY DEF VendorInv
<1> QED  BY <1>1, VendorCorrect, PTL

(* When lock_vendor_io has returned, only requests from the window between *)
(* the test of locked_io and the count are still under way.                *)
THEOREM LockCorrect == Spec => []LockDrains
<1>1. VendorInv => LockDrains
  BY DEF VendorInv
<1> QED  BY <1>1, VendorCorrect, PTL

(* "constrain to one request at a time" (bulk.c:417), until a wait is      *)
(* given up.                                                               *)
THEOREM OneRequestCorrect == Spec => []OneRequestUntilGivenUp
<1>1. ASSUME VendorInv
      PROVE  OneRequestUntilGivenUp
  <2> SUFFICES ASSUME "timeout" \notin upsets, NEW t \in Requester, pc[t] = "fill"
               PROVE  urb_status # "active"
    BY DEF OneRequestUntilGivenUp, OneRequestOnTheWire
  <2>1. ~Waiting
    BY <1>1, OneInside DEF VendorInv, Waiting, MutexLabel
  <2> QED  BY <1>1, <2>1 DEF VendorInv, NothingStale, Pending, TypeOK
<1> QED  BY <1>1, VendorCorrect, PTL

(* A request that returns 0 was answered, until something goes wrong.      *)
THEOREM SuccessCorrect == Spec => []SuccessUntilUpset
<1>1. VendorInv => SuccessUntilUpset
  BY DEF VendorInv, AnswerIsOwn, SuccessUntilUpset, SuccessIsAnswered
<1> QED  BY <1>1, VendorCorrect, PTL

-----------------------------------------------------------------------------
(***************************************************************************)
(* Talkover, for any number of clients and of calls.  A call that has been *)
(* alone since it began has nobody beside it, which is what its history    *)
(* claims of it; the others let go of what the history claims.             *)
(***************************************************************************)

(* What the products have in common.                                       *)
LEMMA ProductFacts ==
  ASSUME product \in Product
  PROVE  /\ Size(product) \in {32, 64, 128} /\ Off(product) \in Values
         /\ Divisor(product) \in {1, 2} /\ ThreeDb(product) \in Values
         /\ ThreeDb(product) \notin {0, Off(product)}
         /\ Off(product) \in {0, 1}
         /\ product # "mk2" => Off(product) = 0
BY DEF Product, Size, Off, Divisor, ThreeDb, Values

(* A number of decibels, of half decibels, and what is left of it.         *)
LEMMA HalfFacts ==
  ASSUME product \in Product, NEW v \in Values
  PROVE  v \div Divisor(product) \in Values
<1>1. v \div 1 = v /\ v \div 2 \in 0..v
  BY DEF Values
<1>2. v \div Divisor(product) \in 0..v
  BY <1>1, ProductFacts DEF Values
<1> QED  BY <1>2, ProductFacts DEF Values

(* What set_talkover_att makes of an attenuation.                          *)
LEMMA AskFacts ==
  ASSUME product \in Product, NEW a \in Nat
  PROVE  /\ FieldOf(a) \in Values /\ TellOf(a) \in Values
         /\ Fits(a) => TellOf(a) = FieldOf(a) \div Divisor(product)
<1> DEFINE t == a % Size(product)
<1>1. t \in Values
  BY ProductFacts DEF Values
<1>2. /\ \A n \in 0..63 : n % 32 \in 0..31
      /\ \A n \in 0..127 : n % 64 \in 0..63
      /\ \A n \in 0..255 : n % 128 \in 0..127
  OBVIOUS
<1>3. (Divisor(product) * t) % Size(product) \in Values
  BY <1>1, <1>2, ProductFacts, SMT DEF Values
<1>4. /\ \A n \in 0..31 : n % 32 = n
      /\ \A n \in 0..63 : n % 64 = n
      /\ \A n \in 0..127 : n % 128 = n
      /\ \A n \in Nat : (1 * n) \div 1 = n /\ (2 * n) \div 2 = n
  OBVIOUS
<1>5. ASSUME Divisor(product) * t < Size(product)
      PROVE  t = ((Divisor(product) * t) % Size(product)) \div Divisor(product)
  BY <1>1, <1>4, <1>5, ProductFacts, SMT DEF Values
<1> QED  BY <1>1, <1>3, <1>5 DEF FieldOf, TellOf, Fits

(* What set_talkover_enable and get_talkover_att begin with.               *)
LEMMA BackFacts ==
  ASSUME product \in Product, NEW v \in Values
  PROVE  /\ Back(v) \in Values /\ Back(v) # 0 /\ Back(Back(v)) = Back(v)
         /\ v # Off(product) => Back(v) # Off(product)
BY ProductFacts DEF Back

(* The others stay where they are, in their calls.                         *)
Aside(c) == \A d \in Client \ {c} : step'[d] = step[d] /\ op'[d] = op[d]

(* c has begun a call.                                                     *)
Begun(c, kind, value, tell, fits) ==
  /\ step[c] = "idle" /\ step'[c] = "send"
  /\ op'[c] \in Op
  /\ op'[c].kind = kind /\ op'[c].value = value /\ op'[c].tell = tell
  /\ op'[c].from = (IF disturbed THEN Unknown ELSE field)
  /\ op'[c].fits = fits
  /\ op'[c].alone <=> \A d \in Client \ {c} : step[d] = "idle"
  /\ \A d \in Client \ {c} :
       /\ step'[d] = step[d]
       /\ op'[d] \in Op
       /\ op'[d].kind = op[d].kind /\ op'[d].value = op[d].value
       /\ op'[d].tell = op[d].tell /\ op'[d].from = op[d].from
       /\ op'[d].fits = op[d].fits
       /\ op'[d].alone <=> op[d].alone /\ step[d] = "idle"
       /\ op[d] = NoOp /\ step[d] = "idle" => op'[d] = NoOp

Steps == {"idle", "send", "store", "notify"}

(* A call that begins is alone if the others are idle, and they no longer. *)
LEMMA BeginEffect ==
  ASSUME TalkTypeOK, NEW c \in Client, NEW kind \in {"att", "on", "off", "get"},
         NEW value \in Values, NEW tell \in Values, NEW fits \in BOOLEAN,
         Begin(c, kind, value, tell, fits)
  PROVE  /\ Begun(c, kind, value, tell, fits)
         /\ step' \in [Client -> Steps] /\ op' \in [Client -> Op]
         /\ calls' \in 0..MaxCalls
<1>1. /\ step \in [Client -> Steps] /\ op \in [Client -> Op] /\ calls \in 0..MaxCalls
      /\ field \in Values /\ disturbed \in BOOLEAN
  BY DEF TalkTypeOK, Steps
<1>2. step' = [step EXCEPT ![c] = "send"] /\ step[c] = "idle"
  BY DEF Begin
<1>3. calls' \in 0..MaxCalls
  BY <1>1, MaxCallsAssumption DEF Begin
<1>4. step' \in [Client -> Steps] /\ step'[c] = "send"
      /\ \A d \in Client \ {c} : step'[d] = step[d]
  BY <1>1, <1>2 DEF Steps
<1> DEFINE new == [kind |-> kind, value |-> value, tell |-> tell,
                   from |-> IF disturbed THEN Unknown ELSE field,
                   fits |-> fits, alone |-> Others(c) = {}]
           old(d) == [op[d] EXCEPT !.alone = op[d].alone /\ step[d] = "idle"]
<1>5. new \in Op
  BY <1>1 DEF Op
<1>6. ASSUME NEW d \in Client
      PROVE  /\ old(d) \in Op
             /\ old(d).kind = op[d].kind /\ old(d).value = op[d].value
             /\ old(d).tell = op[d].tell /\ old(d).from = op[d].from
             /\ old(d).fits = op[d].fits
             /\ old(d).alone <=> op[d].alone /\ step[d] = "idle"
             /\ op[d] = NoOp /\ step[d] = "idle" => old(d) = NoOp
  BY <1>1 DEF Op, NoOp
<1>7. op' = [d \in Client |-> IF d = c THEN new ELSE old(d)]
  BY Zenon DEF Begin
<1>8. op'[c] = new /\ \A d \in Client \ {c} : op'[d] = old(d)
  BY <1>7
<1>9. new.alone <=> \A d \in Client \ {c} : step[d] = "idle"
  BY DEF Others
<1>10. /\ new.kind = kind /\ new.value = value /\ new.tell = tell
       /\ new.from = (IF disturbed THEN Unknown ELSE field) /\ new.fits = fits
  OBVIOUS
<1>11. op' \in [Client -> Op]
  BY <1>5, <1>6, <1>7
<1> HIDE DEF new, old
<1>12. \A d \in Client \ {c} :
       /\ op'[d] \in Op
       /\ op'[d].kind = op[d].kind /\ op'[d].value = op[d].value
       /\ op'[d].tell = op[d].tell /\ op'[d].from = op[d].from
       /\ op'[d].fits = op[d].fits
       /\ op'[d].alone <=> op[d].alone /\ step[d] = "idle"
       /\ op[d] = NoOp /\ step[d] = "idle" => op'[d] = NoOp
  BY <1>6, <1>8
<1>13. /\ op'[c] \in Op
       /\ op'[c].kind = kind /\ op'[c].value = value /\ op'[c].tell = tell
       /\ op'[c].from = (IF disturbed THEN Unknown ELSE field)
       /\ op'[c].fits = fits
       /\ op'[c].alone <=> \A d \in Client \ {c} : step[d] = "idle"
  BY <1>5, <1>8, <1>9, <1>10, Zenon
<1>14. Begun(c, kind, value, tell, fits)
  BY <1>2, <1>4, <1>12, <1>13, Zenon DEF Begun
<1> QED  BY <1>3, <1>4, <1>11, <1>14

(* A call that moves on, or returns, leaves the others aside.              *)
LEMMA GoesEffect ==
  ASSUME TalkTypeOK, NEW c \in Client, NEW s \in Steps,
         step' = [step EXCEPT ![c] = s], op' = op
  PROVE  /\ step'[c] = s /\ op'[c] = op[c] /\ Aside(c)
         /\ step' \in [Client -> Steps]
BY DEF TalkTypeOK, Steps, Aside

LEMMA ReturnEffect ==
  ASSUME TalkTypeOK, product' = product, NEW c \in Client, Return(c)
  PROVE  /\ step'[c] = "idle" /\ op'[c] = NoOp /\ Aside(c)
         /\ step' \in [Client -> Steps] /\ op' \in [Client -> Op]
<1>1. step' = [step EXCEPT ![c] = "idle"] /\ op' = [op EXCEPT ![c] = NoOp]
  BY DEF Return
<1>2. NoOp \in Op
  BY ProductFacts DEF NoOp, Op, Values, TalkTypeOK
<1>3. op' \in [Client -> Op]
  BY <1>1, <1>2 DEF TalkTypeOK
<1>4. op'[c] = NoOp /\ \A d \in Client \ {c} : op'[d] = op[d]
  BY <1>1 DEF TalkTypeOK
<1>5. /\ step' \in [Client -> Steps] /\ step'[c] = "idle"
      /\ \A d \in Client \ {c} : step'[d] = step[d]
  BY <1>1 DEF TalkTypeOK, Steps
<1> QED  BY <1>3, <1>4, <1>5, Zenon DEF Aside
(* What begins a call changes, but for the call.                           *)
Started(c) ==
  /\ UNCHANGED <<product, device, field, told, disturbed, mistold, said>>
  /\ step' \in [Client -> Steps] /\ op' \in [Client -> Op] /\ calls' \in 0..MaxCalls
  /\ \/ /\ \E a \in Nat : Begun(c, "att", FieldOf(a), TellOf(a), Fits(a))
        /\ saved' = saved /\ before' = Unknown
     \/ /\ Begun(c, "off", Off(product), Off(product) \div Divisor(product), TRUE)
        /\ saved' = field /\ field # Off(product) /\ before' = before
     \/ /\ Begun(c, "on", Back(saved), Back(saved) \div Divisor(product), TRUE)
        /\ saved' = Back(saved) /\ before' = before
     \/ /\ Begun(c, "get", 0, 0, TRUE) /\ product # "djc"
        /\ saved' = saved /\ before' = before

LEMMA Starts ==
  ASSUME TalkTypeOK, NEW c \in Client, IoctlTalkover(c) \/ ProcTalkover(c)
  PROVE  Started(c)
<1>1. /\ product \in Product /\ field \in Values /\ saved \in Values
      /\ 0 \in Values /\ Off(product) \in Values /\ Off(product) \div Divisor(product) \in Values
      /\ Back(saved) \in Values /\ Back(saved) \div Divisor(product) \in Values
  <2>1. product \in Product /\ field \in Values /\ saved \in Values
    BY DEF TalkTypeOK
  <2>2. 0 \in Values /\ Off(product) \in Values
    BY <2>1, ProductFacts DEF Values
  <2>3. Back(saved) \in Values
    BY <2>1, BackFacts
  <2> QED  BY <2>1, <2>2, <2>3, HalfFacts
<1>2. CASE SetAtt(c)
  <2>1. PICK a \in Asks :
          /\ Begin(c, "att", FieldOf(a), TellOf(a), Fits(a))
          /\ before' = Unknown
          /\ UNCHANGED <<product, device, field, saved, told, disturbed, mistold, said>>
    BY <1>2, Zenon DEF SetAtt
  <2>2. a \in Nat
    BY AsksAssumption
  <2>3. FieldOf(a) \in Values /\ TellOf(a) \in Values /\ Fits(a) \in BOOLEAN
    BY <1>1, <2>2, AskFacts DEF Fits
  <2>4. /\ Begun(c, "att", FieldOf(a), TellOf(a), Fits(a))
        /\ step' \in [Client -> Steps] /\ op' \in [Client -> Op] /\ calls' \in 0..MaxCalls
    BY <2>1, <2>3, BeginEffect, Zenon
  <2> QED  BY <2>1, <2>2, <2>4, Zenon DEF Started
<1>3. CASE TurnOff(c)
  <2>1. /\ Begun(c, "off", Off(product), Off(product) \div Divisor(product), TRUE)
        /\ step' \in [Client -> Steps] /\ op' \in [Client -> Op] /\ calls' \in 0..MaxCalls
    BY <1>1, <1>3, BeginEffect, Zenon DEF TurnOff
  <2> QED  BY <1>3, <2>1 DEF TurnOff, Started, histVars
<1>4. CASE TurnOn(c)
  <2>1. /\ Begin(c, "on", Back(saved), Back(saved) \div Divisor(product), TRUE)
        /\ saved' = Back(saved)
        /\ UNCHANGED <<product, device, field, told, histVars>>
    BY <1>4, Zenon DEF TurnOn, Back
  <2>2. /\ Begun(c, "on", Back(saved), Back(saved) \div Divisor(product), TRUE)
        /\ step' \in [Client -> Steps] /\ op' \in [Client -> Op] /\ calls' \in 0..MaxCalls
    BY <1>1, <2>1, BeginEffect, Zenon
  <2> QED  BY <2>1, <2>2 DEF Started, histVars
<1>5. CASE GetAtt(c)
  <2>1. /\ Begun(c, "get", 0, 0, TRUE)
        /\ step' \in [Client -> Steps] /\ op' \in [Client -> Op] /\ calls' \in 0..MaxCalls
    BY <1>1, <1>5, BeginEffect, Zenon DEF GetAtt
  <2> QED  BY <1>5, <2>1 DEF GetAtt, Started, histVars
<1> QED  BY <1>2, <1>3, <1>4, <1>5, Zenon DEF IoctlTalkover, ProcTalkover

(* The type.                                                               *)
LEMMA TalkTypeInit == TalkInit => TalkTypeOK
<1> SUFFICES ASSUME TalkInit PROVE TalkTypeOK
  OBVIOUS
<1>1. product \in Product /\ device \in Values /\ field \in Values
  BY ProductFacts DEF TalkInit
<1>2. saved \in Values
  <2>1. \A f \in PowerOn : f \in Values
    BY <1>1, ProductFacts, PowerOnAssumption DEF Values
  <2> QED  BY <1>1, <2>1, ProductFacts DEF TalkInit, Values
<1>3. NoOp \in Op
  BY <1>1, ProductFacts DEF NoOp, Op, Values
<1>4. op \in [Client -> Op]
  BY <1>3 DEF TalkInit
<1>5. disturbed \in BOOLEAN /\ mistold \in BOOLEAN
  BY Zenon DEF TalkInit
<1>6. /\ calls \in 0..MaxCalls
      /\ said \in {"none", "on", "off"} /\ before \in Values \cup {Unknown}
      /\ told \in Values \cup {Unknown} /\ step \in [Client -> Steps]
  BY MaxCallsAssumption DEF TalkInit, Steps
<1> QED  BY <1>1, <1>2, <1>4, <1>5, <1>6 DEF TalkTypeOK, Steps

LEMMA TalkTypeStep ==
  ASSUME TalkTypeOK, \A c \in Client : CallOK(c), [TalkNext]_talkVars
  PROVE  TalkTypeOK'
<1> USE DEF Steps
<1>0. ASSUME product' = product
      PROVE  /\ Values' = Values /\ Op' = Op /\ Size(product)' = Size(product)
             /\ Off(product)' = Off(product) /\ Divisor(product)' = Divisor(product)
  BY <1>0 DEF Values, Op, Size, Off, Divisor
<1>1. /\ product \in Product
      /\ device \in Values /\ field \in Values /\ saved \in Values
      /\ told \in Values \cup {Unknown}
      /\ step \in [Client -> Steps]
      /\ op \in [Client -> Op]
      /\ calls \in 0..MaxCalls
      /\ disturbed \in BOOLEAN /\ mistold \in BOOLEAN
      /\ said \in {"none", "on", "off"}
      /\ before \in Values \cup {Unknown}
  BY DEF TalkTypeOK
<1>2. CASE UNCHANGED talkVars
  BY <1>0, <1>1, <1>2 DEF talkVars, histVars, TalkTypeOK
<1>3. ASSUME NEW c \in Client, Started(c)
      PROVE  TalkTypeOK'
  <2>1. /\ UNCHANGED <<product, device, field, told, disturbed, mistold, said>>
        /\ step' \in [Client -> Steps] /\ op' \in [Client -> Op] /\ calls' \in 0..MaxCalls
        /\ before' = before \/ before' = Unknown
        /\ saved' = saved \/ saved' = field \/ saved' = Back(saved)
    BY <1>3, Zenon DEF Started
  <2>2. saved' \in Values
    BY <1>1, <2>1, BackFacts
  <2> QED  BY <1>0, <1>1, <2>1, <2>2 DEF TalkTypeOK
<1>4. ASSUME NEW c \in Client,
             SendSet(c) \/ SendSetFails(c) \/ SendGet(c)
               \/ StoreSet(c) \/ StoreGet(c) \/ ConfigSet(c) \/ Notify(c)
      PROVE  TalkTypeOK'
  <2>1. op[c] \in Op /\ op[c].value \in Values /\ op[c].tell \in Values
        /\ op[c].from \in Values \cup {Unknown} /\ op[c].alone \in BOOLEAN
        /\ op[c].fits \in BOOLEAN
        /\ op[c].kind \in {"none", "att", "on", "off", "get"}
    BY <1>1 DEF Op
  <2>2. CASE SendSet(c)
    BY <1>0, <1>1, <2>1, <2>2, GoesEffect DEF SendSet, TalkTypeOK, histVars
  <2>3. CASE SendSetFails(c)
    <3>1. /\ UNCHANGED <<product, field, saved, told, calls>> /\ Return(c)
          /\ \/ UNCHANGED <<device, histVars>>
             \/ /\ device' = op[c].value
                /\ disturbed' = TRUE /\ mistold' = TRUE
                /\ said' = "none" /\ before' = Unknown
      BY <2>3, Zenon DEF SendSetFails
    <3>2. step' \in [Client -> Steps] /\ op' \in [Client -> Op]
      BY <3>1, ReturnEffect
    <3> QED  BY <1>0, <1>1, <2>1, <3>1, <3>2 DEF TalkTypeOK, histVars
  <2>4. CASE SendGet(c)
    <3>1. CASE Return(c)
      <4>1. step' \in [Client -> Steps] /\ op' \in [Client -> Op]
        BY <2>4, <3>1, ReturnEffect DEF SendGet
      <4> QED  BY <1>0, <1>1, <2>4, <4>1 DEF SendGet, TalkTypeOK, histVars
    <3>2. CASE op' = [op EXCEPT ![c].value = device]
               /\ step' = [step EXCEPT ![c] = "store"]
      <4>1. [op[c] EXCEPT !.value = device] \in Op
        BY <1>1 DEF Op
      <4>2. op' \in [Client -> Op]
        BY <1>1, <3>2, <4>1
      <4>3. step' \in [Client -> Steps]
        BY <1>1, <3>2
      <4> QED  BY <1>0, <1>1, <2>4, <4>2, <4>3 DEF SendGet, TalkTypeOK, histVars
    <3> QED  BY <2>4, <3>1, <3>2, Zenon DEF SendGet
  <2>5. ASSUME Stored(c)
        PROVE  /\ disturbed' \in BOOLEAN /\ said' \in {"none", "on", "off"}
               /\ before' \in Values \cup {Unknown}
    BY <1>1, <2>1, <2>5 DEF Stored
  <2>6. CASE StoreSet(c)
    BY <1>0, <1>1, <2>1, <2>5, <2>6, GoesEffect DEF StoreSet, TalkTypeOK
  <2>7. CASE StoreGet(c)
    <3>1. step' \in [Client -> Steps] /\ op' \in [Client -> Op]
      BY <2>7, ReturnEffect DEF StoreGet
    <3> QED  BY <1>0, <1>1, <2>1, <2>5, <2>7, <3>1 DEF StoreGet, TalkTypeOK
  <2>8. CASE ConfigSet(c)
    BY <1>0, <1>1, <2>1, <2>5, <2>8, GoesEffect DEF ConfigSet, TalkTypeOK
  <2>9. CASE Notify(c)
    <3>1. step' \in [Client -> Steps] /\ op' \in [Client -> Op]
      BY <2>9, ReturnEffect DEF Notify
    <3>2. /\ UNCHANGED <<product, device, field, saved, calls, disturbed, before>>
          /\ told' = op[c].tell /\ mistold' \in BOOLEAN
      BY <2>9, Zenon DEF Notify
    <3>3. said' \in {"none", "on", "off"}
      BY <2>1, <2>9 DEF Notify, CallOK, SetKinds
    <3> QED  BY <1>0, <1>1, <2>1, <3>1, <3>2, <3>3 DEF TalkTypeOK
  <2> QED  BY <1>4, <2>2, <2>3, <2>4, <2>6, <2>7, <2>8, <2>9, Zenon
<1> QED  BY <1>2, <1>3, <1>4, Starts, Zenon DEF TalkNext
(* What each later step of a call does, and where it leaves the others.    *)
LEMMA SendSetEffect ==
  ASSUME TalkTypeOK, NEW c \in Client, SendSet(c)
  PROVE  /\ step[c] = "send" /\ step'[c] = "store" /\ op'[c] = op[c] /\ Aside(c)
         /\ op[c].kind \in SetKinds /\ product # "djc" /\ device' = op[c].value
         /\ UNCHANGED <<product, field, saved, told, disturbed, mistold, said, before>>
BY GoesEffect DEF SendSet, Steps, histVars

LEMMA SendSetFailsEffect ==
  ASSUME TalkTypeOK, NEW c \in Client, SendSetFails(c)
  PROVE  /\ step[c] = "send" /\ step'[c] = "idle" /\ op'[c] = NoOp /\ Aside(c)
         /\ UNCHANGED <<product, field, saved, told>>
         /\ \/ UNCHANGED <<device, disturbed, mistold, said, before>>
            \/ disturbed' /\ mistold' /\ said' = "none" /\ before' = Unknown
BY ReturnEffect, Zenon DEF SendSetFails, histVars

LEMMA SendGetEffect ==
  ASSUME TalkTypeOK, NEW c \in Client, SendGet(c)
  PROVE  /\ step[c] = "send" /\ op[c].kind = "get" /\ Aside(c)
         /\ UNCHANGED <<product, device, field, saved, told, disturbed, mistold, said, before>>
         /\ \/ step'[c] = "idle" /\ op'[c] = NoOp
            \/ /\ step'[c] = "store" /\ op'[c].kind = "get" /\ op'[c].value = device
               /\ op'[c].tell = op[c].tell /\ op'[c].fits = op[c].fits
               /\ op'[c].from = op[c].from /\ op'[c].alone = op[c].alone
<1>1. /\ step[c] = "send" /\ op[c].kind = "get"
      /\ UNCHANGED <<product, device, field, saved, told, disturbed, mistold, said, before>>
  BY Zenon DEF SendGet, histVars
<1>2. CASE Return(c)
  BY <1>1, <1>2, ReturnEffect, Zenon
<1>3. CASE op' = [op EXCEPT ![c].value = device] /\ step' = [step EXCEPT ![c] = "store"]
  <2>1. step \in [Client -> Steps] /\ op \in [Client -> Op]
    BY DEF TalkTypeOK, Steps
  <2>2. /\ step'[c] = "store" /\ op'[c] = [op[c] EXCEPT !.value = device]
        /\ Aside(c)
    BY <1>3, <2>1 DEF Aside
  <2>3. op[c] \in Op
    BY <2>1
  <2>4. /\ op'[c].kind = op[c].kind /\ op'[c].value = device
        /\ op'[c].tell = op[c].tell /\ op'[c].fits = op[c].fits
        /\ op'[c].from = op[c].from /\ op'[c].alone = op[c].alone
    BY <2>2, <2>3 DEF Op
  <2> QED  BY <1>1, <2>2, <2>4, Zenon
<1> QED  BY <1>2, <1>3, Zenon DEF SendGet

LEMMA StoreSetEffect ==
  ASSUME TalkTypeOK, NEW c \in Client, StoreSet(c)
  PROVE  /\ step[c] = "store" /\ step'[c] = "notify" /\ op'[c] = op[c] /\ Aside(c)
         /\ op[c].kind \in SetKinds /\ field' = op[c].value /\ Stored(c)
         /\ UNCHANGED <<product, device, saved, told, mistold>>
BY GoesEffect DEF StoreSet, Steps

LEMMA StoreGetEffect ==
  ASSUME TalkTypeOK, NEW c \in Client, StoreGet(c)
  PROVE  /\ step[c] = "store" /\ step'[c] = "idle" /\ op'[c] = NoOp /\ Aside(c)
         /\ op[c].kind = "get" /\ field' = op[c].value /\ Stored(c)
         /\ mistold' <=> mistold \/ ~op[c].alone
         /\ UNCHANGED <<product, device, saved, told>>
BY ReturnEffect, Zenon DEF StoreGet

LEMMA ConfigSetEffect ==
  ASSUME TalkTypeOK, NEW c \in Client, ConfigSet(c)
  PROVE  /\ step[c] = "send" /\ step'[c] = "notify" /\ op'[c] = op[c] /\ Aside(c)
         /\ product = "djc" /\ field' = op[c].value /\ device' = op[c].value /\ Stored(c)
         /\ UNCHANGED <<product, saved, told, mistold>>
BY GoesEffect DEF ConfigSet, Steps

LEMMA NotifyEffect ==
  ASSUME TalkTypeOK, NEW c \in Client, Notify(c)
  PROVE  /\ step[c] = "notify" /\ step'[c] = "idle" /\ op'[c] = NoOp /\ Aside(c)
         /\ told' = op[c].tell
         /\ mistold' <=> ~op[c].alone \/ disturbed \/ ~op[c].fits
         /\ said' = (IF op[c].kind = "att" \/ ~op[c].alone THEN "none" ELSE op[c].kind)
         /\ UNCHANGED <<product, device, field, saved, disturbed, before>>
BY ReturnEffect, Zenon DEF Notify

(* What an answer stored alone leaves of the history, and one that is not. *)
LEMMA StoredEffect ==
  ASSUME NEW c \in Client, Stored(c)
  PROVE  /\ ~op[c].alone =>
              before' = Unknown /\ said' = "none" /\ (product # "djc" => disturbed')
         /\ op[c].alone =>
              /\ ~disturbed'
              /\ before' = IF op[c].kind = "off" THEN op[c].from ELSE before
         /\ op[c].kind = "get" /\ op[c].alone => said' = said
BY Zenon DEF Stored

(* What a call knows of itself.                                            *)
LEMMA NoOpFacts ==
  /\ NoOp.kind = "none" /\ NoOp.kind \notin SetKinds /\ NoOp.alone
BY DEF NoOp, SetKinds

LEMMA CallInit ==
  ASSUME TalkInit
  PROVE  \A c \in Client : CallOK(c)
<1> SUFFICES ASSUME NEW c \in Client PROVE CallOK(c)
  OBVIOUS
<1>1. step[c] = "idle" /\ op[c] = NoOp
  BY DEF TalkInit
<1>2. NoOp.kind = "none"
  BY DEF NoOp
<1> QED  BY <1>1, <1>2 DEF CallOK, SetKinds

(* A call is left alone by its own steps, and by nobody else's: those need *)
(* somebody else who is at work.                                           *)
LEMMA AsideCall ==
  ASSUME TalkTypeOK, product' = product, NEW c \in Client, Aside(c), step[c] # "idle",
         NEW d \in Client \ {c}, CallOK(d)
  PROVE  CallOK(d)' /\ (step[d] # "idle" => ~op[d].alone)
<1>1. step'[d] = step[d] /\ op'[d] = op[d] /\ Off(product)' = Off(product)
      /\ Divisor(product)' = Divisor(product)
  BY DEF Aside, Off, Divisor
<1>2. step[d] # "idle" => ~op[d].alone
  BY DEF CallOK, Others
<1> QED  BY <1>1, <1>2, Zenon DEF CallOK
(* The caller itself goes on with what it knows.                           *)
LEMMA OwnCall ==
  ASSUME TalkTypeOK, product' = product, NEW c \in Client, Aside(c), CallOK(c),
         step[c] # "idle",
         \/ step'[c] = "idle" /\ op'[c] = NoOp
         \/ /\ step'[c] = "store" /\ product # "djc" /\ op'[c].kind = op[c].kind
            /\ op[c].kind \in SetKinds => op'[c] = op[c]
            /\ op'[c].alone => op[c].alone
         \/ step'[c] = "notify" /\ op'[c] = op[c] /\ op[c].kind \in SetKinds
  PROVE  CallOK(c)'
<1>1. Off(product)' = Off(product) /\ Divisor(product)' = Divisor(product)
  BY DEF Off, Divisor
<1>2. Others(c)' = Others(c)
  BY DEF Others, Aside
<1>3. CASE step'[c] = "idle" /\ op'[c] = NoOp
  BY <1>3, NoOpFacts DEF CallOK, SetKinds
<1>4. CASE step'[c] = "notify" /\ op'[c] = op[c] /\ op[c].kind \in SetKinds
  BY <1>1, <1>2, <1>4 DEF CallOK
<1>5. CASE /\ step'[c] = "store" /\ product # "djc" /\ op'[c].kind = op[c].kind
           /\ op[c].kind \in SetKinds => op'[c] = op[c]
           /\ op'[c].alone => op[c].alone
  BY <1>1, <1>2, <1>5 DEF CallOK, SetKinds
<1> QED  BY <1>3, <1>4, <1>5, Zenon

(* Nobody else is at work beside a call that began alone.                  *)
LEMMA CallStart ==
  ASSUME TalkTypeOK, NEW c \in Client, Started(c), \A d \in Client : CallOK(d),
         saved # 0 => saved # Off(product)
  PROVE  /\ \A d \in Client : CallOK(d)'
         /\ \A d \in Client \ {c} : step[d] # "idle" => ~op'[d].alone
<1>1. Off(product)' = Off(product) /\ Divisor(product)' = Divisor(product)
      /\ product' = product
  BY DEF Off, Divisor, Started
<1>2. PICK kind, value, tell, fits : Begun(c, kind, value, tell, fits)
  BY Zenon DEF Started
<1>3. ASSUME NEW d \in Client \ {c}
      PROVE  CallOK(d)' /\ (step[d] # "idle" => ~op'[d].alone)
  <2>1. /\ step'[d] = step[d]
        /\ op'[d].kind = op[d].kind /\ op'[d].value = op[d].value
        /\ op'[d].tell = op[d].tell /\ op'[d].from = op[d].from
        /\ op'[d].fits = op[d].fits
        /\ op'[d].alone <=> op[d].alone /\ step[d] = "idle"
        /\ op[d] = NoOp /\ step[d] = "idle" => op'[d] = NoOp
    BY <1>2, <1>3, Zenon DEF Begun
  <2>2. CallOK(d)
    OBVIOUS
  <2> QED  BY <1>1, <2>1, <2>2, Zenon DEF CallOK
<1>4. CallOK(c)'
  <2>1. /\ step'[c] = "send" /\ product' = product
        /\ op'[c].alone => Others(c)' = {}
    BY <1>1, <1>2 DEF Begun, Others
  <2>2. product \in Product /\ saved \in Values
    BY DEF TalkTypeOK
  <2>3. CASE \E a \in Nat : Begun(c, "att", FieldOf(a), TellOf(a), Fits(a))
    <3>1. PICK a \in Nat : Begun(c, "att", FieldOf(a), TellOf(a), Fits(a))
      BY <2>3
    <3>2. /\ op'[c].kind = "att" /\ op'[c].value = FieldOf(a)
          /\ op'[c].tell = TellOf(a) /\ op'[c].fits = Fits(a)
      BY <3>1 DEF Begun
    <3>3. op'[c].fits => op'[c].tell = op'[c].value \div Divisor(product)
      BY <2>2, <3>2, AskFacts
    <3> QED  BY <1>1, <2>1, <3>2, <3>3 DEF CallOK, SetKinds
  <2>4. CASE Begun(c, "off", Off(product), Off(product) \div Divisor(product), TRUE)
    <3>1. /\ op'[c].kind = "off" /\ op'[c].value = Off(product)
          /\ op'[c].tell = Off(product) \div Divisor(product)
      BY <2>4 DEF Begun
    <3> QED  BY <1>1, <2>1, <3>1 DEF CallOK, SetKinds
  <2>5. CASE Begun(c, "on", Back(saved), Back(saved) \div Divisor(product), TRUE)
    <3>1. /\ op'[c].kind = "on" /\ op'[c].value = Back(saved)
          /\ op'[c].tell = Back(saved) \div Divisor(product)
      BY <2>5 DEF Begun
    <3>2. Back(saved) # Off(product)
      BY <2>2, ProductFacts DEF Back
    <3> QED  BY <1>1, <2>1, <3>1, <3>2 DEF CallOK, SetKinds
  <2>6. CASE Begun(c, "get", 0, 0, TRUE) /\ product # "djc"
    <3>1. op'[c].kind = "get"
      BY <2>6 DEF Begun
    <3> QED  BY <1>1, <2>1, <2>6, <3>1 DEF CallOK, SetKinds
  <2> QED  BY <2>3, <2>4, <2>5, <2>6, Zenon DEF Started
<1> QED  BY <1>3, <1>4

LEMMA CallStep ==
  ASSUME TalkTypeOK, \A d \in Client : CallOK(d), NEW c \in Client,
         SendSet(c) \/ SendSetFails(c) \/ SendGet(c)
           \/ StoreSet(c) \/ StoreGet(c) \/ ConfigSet(c) \/ Notify(c)
  PROVE  \A d \in Client : CallOK(d)'
<1>1. CallOK(c)
  OBVIOUS
<1>2. product' = product /\ Aside(c) /\ step[c] # "idle" /\ CallOK(c)'
  <2>1. CASE SendSet(c)
    BY <1>1, <2>1, SendSetEffect, OwnCall
  <2>2. CASE SendSetFails(c)
    BY <1>1, <2>2, SendSetFailsEffect, OwnCall
  <2>3. CASE SendGet(c)
    BY <1>1, <2>3, SendGetEffect, OwnCall DEF CallOK, SetKinds
  <2>4. CASE StoreSet(c)
    BY <1>1, <2>4, StoreSetEffect, OwnCall
  <2>5. CASE StoreGet(c)
    BY <1>1, <2>5, StoreGetEffect, OwnCall
  <2>6. CASE ConfigSet(c)
    <3>1. /\ step[c] = "send" /\ op[c].kind # "get" /\ op[c].kind # "none"
          /\ op[c].kind \in {"none", "att", "on", "off", "get"}
      BY <1>1, <2>6, ConfigSetEffect DEF CallOK, TalkTypeOK, Op
    <3>2. op[c].kind \in SetKinds
      BY <3>1 DEF SetKinds
    <3> QED  BY <1>1, <2>6, <3>1, <3>2, ConfigSetEffect, OwnCall
  <2>7. CASE Notify(c)
    BY <1>1, <2>7, NotifyEffect, OwnCall
  <2> QED  BY <2>1, <2>2, <2>3, <2>4, <2>5, <2>6, <2>7
<1> QED  BY <1>2, AsideCall
(* Who is at work keeps the others from having been alone.                 *)
LEMMA NotBeside ==
  ASSUME NEW c \in Client, NEW d \in Client \ {c}, step[c] # "idle", step[d] # "idle",
         CallOK(c)
  PROVE  ~op[c].alone
BY DEF CallOK, Others

(* Cache and device agree, and through every step.                         *)
LEMMA CacheInit == TalkInit => CacheAgrees
<1> SUFFICES ASSUME TalkInit PROVE CacheAgrees
  OBVIOUS
<1>1. \A c \in Client : step[c] = "idle"
  BY DEF TalkInit
<1>2. saved # 0 => saved # Off(product)
  BY DEF TalkInit
<1>3. field = device
  BY DEF TalkInit
<1> QED  BY <1>1, <1>2, <1>3 DEF CacheAgrees

LEMMA CacheStart ==
  ASSUME TalkTypeOK, NEW c \in Client, Started(c), \A d \in Client : CallOK(d), CacheAgrees
  PROVE  CacheAgrees'
<1>1. /\ UNCHANGED <<product, device, field, disturbed>>
      /\ Off(product)' = Off(product) /\ product \in Product /\ saved \in Values
  BY DEF Off, Started, TalkTypeOK
<1>2. PICK kind, value, tell, fits : Begun(c, kind, value, tell, fits)
  BY Zenon DEF Started
<1>3. (saved # 0 => saved # Off(product))'
  <2>1. saved # 0 => saved # Off(product)
    BY DEF CacheAgrees
  <2>2. Back(saved) # Off(product)
    BY <1>1, <2>1, ProductFacts DEF Back
  <2>3. \/ saved' = saved
        \/ saved' = field /\ field # Off(product)
        \/ saved' = Back(saved)
    BY DEF Started
  <2> QED  BY <1>1, <2>1, <2>2, <2>3
<1>4. Storing' <=> Storing
  BY <1>2, Zenon DEF Storing, Begun
<1>5. ASSUME NEW d \in Client, op'[d].alone
      PROVE  step'[d] \in {"idle", "send"}
  BY <1>2, <1>5, CallStart DEF Begun, CacheAgrees
<1>6. (~disturbed /\ ~Storing => field = device)'
  BY <1>1, <1>4, Zenon DEF CacheAgrees
<1> QED  BY <1>3, <1>5, <1>6 DEF CacheAgrees

LEMMA CacheStep ==
  ASSUME TalkTypeOK, \A d \in Client : CallOK(d), CacheAgrees, NEW c \in Client,
         SendSet(c) \/ SendSetFails(c) \/ SendGet(c)
           \/ StoreSet(c) \/ StoreGet(c) \/ ConfigSet(c) \/ Notify(c)
  PROVE  CacheAgrees'
<1> DEFINE Mine(d) == op'[d].alone =>
             /\ step'[d] = "store"  => op'[d].value = device'
             /\ step'[d] = "notify" => op'[d].value = device' /\ field' = device' /\ ~disturbed'
<1>1. /\ CallOK(c) /\ op[c].alone \in BOOLEAN /\ disturbed \in BOOLEAN
      /\ saved # 0 => saved # Off(product)
      /\ ~disturbed /\ ~Storing => field = device
      /\ op[c].alone => /\ step[c] = "store"  => op[c].value = device
                        /\ step[c] = "notify" => op[c].value = device /\ field = device /\ ~disturbed
  BY DEF CacheAgrees, TalkTypeOK, Op
<1>2. ASSUME Aside(c), step[c] # "idle", Mine(c), UNCHANGED <<product, saved>>,
             ~disturbed' /\ ~Storing' => field' = device'
      PROVE  CacheAgrees'
  <2>1. (saved # 0 => saved # Off(product))'
    BY <1>1, <1>2 DEF Off
  <2>2. ASSUME NEW d \in Client \ {c} PROVE Mine(d)
    <3>1. step'[d] = step[d] /\ op'[d] = op[d] /\ CallOK(d)
      BY <1>2 DEF Aside
    <3>2. step[d] # "idle" => ~op[d].alone
      BY <1>2, <3>1, NotBeside
    <3> QED  BY <3>1, <3>2
  <2>3. \A d \in Client : Mine(d)
    BY <1>2, <2>2
  <2> QED  BY <1>2, <2>1, <2>3 DEF CacheAgrees
<1>3. ASSUME Aside(c), op'[c].kind \in SetKinds /\ step'[c] = "store"
                         <=> op[c].kind \in SetKinds /\ step[c] = "store"
      PROVE  Storing' <=> Storing
  BY <1>3, Zenon DEF Storing, Aside
<1>4. CASE SendSet(c)
  <2>1. Storing'
    BY <1>4, SendSetEffect DEF Storing
  <2> QED  BY <1>2, <1>4, <2>1, SendSetEffect
<1>5. CASE SendSetFails(c)
  <2>1. Storing' <=> Storing
    BY <1>3, <1>5, SendSetFailsEffect, NoOpFacts
  <2> QED  BY <1>1, <1>2, <1>5, <2>1, SendSetFailsEffect
<1>6. CASE SendGet(c)
  <2>1. Storing' <=> Storing
    BY <1>3, <1>6, SendGetEffect, NoOpFacts DEF SetKinds
  <2> QED  BY <1>1, <1>2, <1>6, <2>1, SendGetEffect
<1>7. CASE StoreSet(c)
  <2>1. product # "djc"
    BY <1>1, <1>7, StoreSetEffect DEF CallOK
  <2> QED  BY <1>1, <1>2, <1>7, <2>1, StoreSetEffect, StoredEffect
<1>8. CASE StoreGet(c)
  <2>1. product # "djc"
    BY <1>1, <1>8, StoreGetEffect DEF CallOK
  <2> QED  BY <1>1, <1>2, <1>8, <2>1, StoreGetEffect, StoredEffect
<1>9. CASE ConfigSet(c)
  BY <1>1, <1>2, <1>9, ConfigSetEffect, StoredEffect
<1>10. CASE Notify(c)
  <2>1. Storing' <=> Storing
    BY <1>3, <1>10, NotifyEffect, NoOpFacts
  <2> QED  BY <1>1, <1>2, <1>10, <2>1, NotifyEffect
<1> QED  BY <1>4, <1>5, <1>6, <1>7, <1>8, <1>9, <1>10
(* What clients were told is true between the calls.                       *)
LEMMA ToldInit == TalkInit => ToldAgrees
BY Zenon DEF TalkInit, ToldAgrees

LEMMA ToldStart ==
  ASSUME NEW c \in Client, Started(c), ToldAgrees
  PROVE  ToldAgrees'
<1>1. /\ UNCHANGED <<product, device, told, mistold, said>>
      /\ Off(product)' = Off(product) /\ Divisor(product)' = Divisor(product)
  BY DEF Off, Divisor, Started
<1>2. PICK kind, value, tell, fits : Begun(c, kind, value, tell, fits)
  BY Zenon DEF Started
<1>3. Ending' <=> Ending
  BY <1>2, Zenon DEF Ending, Begun
<1> QED  BY <1>1, <1>3, Zenon DEF ToldAgrees

LEMMA ToldStep ==
  ASSUME TalkTypeOK, \A d \in Client : CallOK(d), CacheAgrees, ToldAgrees, NEW c \in Client,
         SendSet(c) \/ SendSetFails(c) \/ SendGet(c)
           \/ StoreSet(c) \/ StoreGet(c) \/ ConfigSet(c) \/ Notify(c)
  PROVE  ToldAgrees'
<1>1. /\ CallOK(c) /\ op[c].alone \in BOOLEAN /\ disturbed \in BOOLEAN
      /\ op[c].fits \in BOOLEAN
      /\ op[c].alone => /\ step[c] = "notify" => op[c].value = device /\ field = device /\ ~disturbed
  BY DEF CacheAgrees, TalkTypeOK, Op
<1>2. ASSUME product' = product
      PROVE  Off(product)' = Off(product) /\ Divisor(product)' = Divisor(product)
  BY <1>2 DEF Off, Divisor
<1>3. ASSUME Aside(c), op'[c].kind \in SetKinds /\ step'[c] \in {"store", "notify"}
                         <=> op[c].kind \in SetKinds /\ step[c] \in {"store", "notify"}
      PROVE  Ending' <=> Ending
  BY <1>3, Zenon DEF Ending, Aside
<1>4. ASSUME product' = product,
             Ending' => Ending, ~Ending' => ~Ending,
             \/ UNCHANGED <<device, told, mistold, said>>
             \/ said' = "none" /\ mistold'
      PROVE  ToldAgrees'
  BY <1>2, <1>4 DEF ToldAgrees
<1>5. CASE SendSet(c)
  <2>1. Ending'
    BY <1>5, SendSetEffect DEF Ending
  <2> QED  BY <2>1 DEF ToldAgrees
<1>6. CASE SendSetFails(c)
  <2>1. Ending' <=> Ending
    BY <1>3, <1>6, SendSetFailsEffect, NoOpFacts
  <2> QED  BY <1>4, <1>6, <2>1, SendSetFailsEffect
<1>7. CASE SendGet(c)
  <2>1. Ending' <=> Ending
    BY <1>3, <1>7, SendGetEffect, NoOpFacts DEF SetKinds
  <2> QED  BY <1>4, <1>7, <2>1, SendGetEffect
<1>8. CASE StoreSet(c)
  <2>1. Ending'
    BY <1>8, StoreSetEffect DEF Ending
  <2> QED  BY <2>1 DEF ToldAgrees
<1>9. CASE StoreGet(c)
  <2>1. Ending' <=> Ending
    BY <1>3, <1>9, StoreGetEffect, NoOpFacts DEF SetKinds
  <2>2. mistold \in BOOLEAN
    BY DEF TalkTypeOK
  <2>3. \/ UNCHANGED <<device, told, said>> /\ (mistold' <=> mistold)
        \/ said' = "none" /\ mistold'
    BY <1>1, <1>9, <2>2, StoreGetEffect, StoredEffect
  <2> QED  BY <1>2, <1>9, <2>1, <2>3, StoreGetEffect DEF ToldAgrees
<1>10. CASE ConfigSet(c)
  <2>1. /\ step[c] = "send" /\ op[c].kind # "get" /\ op[c].kind # "none"
        /\ op[c].kind \in {"none", "att", "on", "off", "get"}
    BY <1>1, <1>10, ConfigSetEffect DEF CallOK, TalkTypeOK, Op
  <2>2. Ending'
    BY <1>10, <2>1, ConfigSetEffect DEF Ending, SetKinds
  <2> QED  BY <2>2 DEF ToldAgrees
<1>11. CASE Notify(c)
  <2>1. /\ step[c] = "notify" /\ UNCHANGED <<product, device>>
        /\ told' = op[c].tell
        /\ mistold' <=> ~op[c].alone \/ disturbed \/ ~op[c].fits
        /\ said' = (IF op[c].kind = "att" \/ ~op[c].alone THEN "none" ELSE op[c].kind)
    BY <1>11, NotifyEffect
  <2>2. CASE ~op[c].alone
    BY <2>1, <2>2 DEF ToldAgrees
  <2>3. CASE op[c].alone
    <3>1. /\ op[c].kind \in SetKinds /\ op[c].value = device
          /\ op[c].kind = "on" => op[c].value # Off(product)
          /\ op[c].kind = "off" => op[c].value = Off(product)
          /\ op[c].fits => op[c].tell = op[c].value \div Divisor(product)
      BY <1>1, <2>1, <2>3 DEF CallOK
    <3> QED  BY <1>2, <2>1, <2>3, <3>1 DEF ToldAgrees
  <2> QED  BY <1>1, <2>2, <2>3
<1> QED  BY <1>5, <1>6, <1>7, <1>8, <1>9, <1>10, <1>11
(* What talkover was turned off from is saved, through every step.         *)
Restores(c) ==
  op[c].alone /\ step[c] \in {"send", "store"} =>
    /\ op[c].kind = "att" => before = Unknown
    /\ op[c].kind = "off" /\ op[c].from # Unknown => saved = op[c].from
    /\ op[c].kind = "on" /\ before # Unknown =>
         op[c].value = Back(before) /\ saved = op[c].value
Saves ==
  before # Unknown => device \in {Off(product), Back(before)} /\ Back(saved) = Back(before)

LEMMA RestoreParts ==
  WillRestore <=> /\ before # Unknown => ~disturbed
                  /\ ~Storing => Saves
                  /\ \A c \in Client : Restores(c)
BY Zenon DEF WillRestore, Saves, Restores

LEMMA RestoreJoin ==
  ASSUME (before # Unknown => ~disturbed)', ~Storing' => Saves',
         \A c \in Client : Restores(c)'
  PROVE  WillRestore'
BY Zenon DEF WillRestore, Saves, Restores

LEMMA RestoreInit == TalkInit => WillRestore
<1> SUFFICES ASSUME TalkInit PROVE WillRestore
  OBVIOUS
<1>1. before = Unknown /\ \A c \in Client : step[c] = "idle"
  BY DEF TalkInit
<1> QED  BY <1>1, RestoreParts DEF Saves, Restores

LEMMA RestoreStart ==
  ASSUME TalkTypeOK, NEW c \in Client, Started(c), \A d \in Client : CallOK(d),
         CacheAgrees, WillRestore
  PROVE  WillRestore'
<1>1. /\ UNCHANGED <<product, device, field, disturbed>>
      /\ Off(product)' = Off(product) /\ ThreeDb(product)' = ThreeDb(product)
      /\ product \in Product /\ saved \in Values /\ field \in Values
      /\ before \in Values \cup {Unknown} /\ disturbed \in BOOLEAN
  BY DEF Off, ThreeDb, Divisor, Started, TalkTypeOK
<1>2. /\ before # Unknown => ~disturbed
      /\ ~Storing => Saves
      /\ ~disturbed /\ ~Storing => field = device
  BY RestoreParts DEF CacheAgrees
<1>3. PICK kind, value, tell, fits : Begun(c, kind, value, tell, fits)
  BY Zenon DEF Started
<1>4. Storing' <=> Storing
  BY <1>3, Zenon DEF Storing, Begun
<1>5. \/ before' = Unknown /\ saved' = saved
      \/ before' = before /\ saved' = saved
      \/ before' = before /\ saved' = field /\ field # Off(product)
      \/ before' = before /\ saved' = Back(saved)
  BY DEF Started
<1>6. (before # Unknown => ~disturbed)'
  BY <1>1, <1>2, <1>5
<1>7. ASSUME ~Storing' PROVE Saves'
  <2>2. Saves' <=> (before' # Unknown =>
          /\ device \in {Off(product), IF before' = 0 THEN ThreeDb(product) ELSE before'}
          /\ (IF saved' = 0 THEN ThreeDb(product) ELSE saved')
               = (IF before' = 0 THEN ThreeDb(product) ELSE before'))
    BY <1>1 DEF Saves, Back
  <2>3. Saves
    BY <1>2, <1>4, <1>7
  <2>4. before # Unknown => field = device
    BY <1>2, <1>4, <1>7
  <2> QED  BY <1>1, <1>5, <2>2, <2>3, <2>4, ProductFacts DEF Saves, Back, Unknown, Values
<1>8. ASSUME NEW d \in Client \ {c} PROVE Restores(d)'
  <2>1. /\ step'[d] = step[d] /\ step[d] # "idle" => ~op'[d].alone
        /\ step'[d] = step[d]
    BY <1>3, CallStart DEF Begun, CacheAgrees
  <2> QED  BY <2>1 DEF Restores
<1>9. Restores(c)'
  <2>2. ASSUME op'[c].alone
        PROVE  ~Storing
    BY <1>3, <2>2 DEF Begun, Storing
  <2>3. CASE \E a \in Nat : Begun(c, "att", FieldOf(a), TellOf(a), Fits(a)) /\ before' = Unknown
    BY <2>3 DEF Begun, Restores
  <2>4. CASE /\ Begun(c, "off", Off(product), Off(product) \div Divisor(product), TRUE)
             /\ saved' = field
    BY <1>1, <2>4 DEF Begun, Restores
  <2>5. CASE /\ Begun(c, "on", Back(saved), Back(saved) \div Divisor(product), TRUE)
             /\ saved' = Back(saved) /\ before' = before
    <3>1. op'[c].kind = "on" /\ op'[c].value = Back(saved)
      BY <2>5 DEF Begun
    <3>2. op'[c].alone /\ before' # Unknown => Back(saved) = Back(before)
      BY <1>2, <2>2, <2>5 DEF Saves
    <3>3. before' # Unknown => Back(before)' = Back(before)
      BY <1>1, <2>5 DEF Back
    <3> QED  BY <2>5, <3>1, <3>2, <3>3 DEF Restores
  <2>6. CASE Begun(c, "get", 0, 0, TRUE)
    BY <2>6 DEF Begun, Restores
  <2> QED  BY <2>3, <2>4, <2>5, <2>6, Zenon DEF Started
<1> QED  BY <1>6, <1>7, <1>8, <1>9, RestoreJoin
LEMMA RestoreStep ==
  ASSUME TalkTypeOK, \A d \in Client : CallOK(d), CacheAgrees, WillRestore, NEW c \in Client,
         SendSet(c) \/ SendSetFails(c) \/ SendGet(c)
           \/ StoreSet(c) \/ StoreGet(c) \/ ConfigSet(c) \/ Notify(c)
  PROVE  WillRestore'
<1>1. /\ CallOK(c) /\ op[c].alone \in BOOLEAN /\ disturbed \in BOOLEAN
      /\ op[c].alone /\ step[c] = "store" => op[c].value = device
      /\ product \in Product /\ before \in Values \cup {Unknown}
      /\ op[c].from \in Values \cup {Unknown}
      /\ op[c].kind \in {"none", "att", "on", "off", "get"}
  BY DEF CacheAgrees, TalkTypeOK, Op
<1>2. /\ before # Unknown => ~disturbed
      /\ ~Storing => Saves
      /\ Restores(c)
  BY RestoreParts
<1>3. ASSUME product' = product
      PROVE  /\ Off(product)' = Off(product) /\ Divisor(product)' = Divisor(product)
             /\ ThreeDb(product)' = ThreeDb(product)
  BY <1>3 DEF Off, Divisor, ThreeDb
<1>4. ASSUME Aside(c), step[c] # "idle", Restores(c)',
             before' # Unknown => ~disturbed', ~Storing' => Saves'
      PROVE  WillRestore'
  <2>1. ASSUME NEW d \in Client \ {c} PROVE Restores(d)'
    <3>1. step'[d] = step[d] /\ op'[d] = op[d] /\ CallOK(d)
      BY <1>4 DEF Aside
    <3>2. step[d] # "idle" => ~op[d].alone
      BY <1>4, <3>1, NotBeside
    <3> QED  BY <3>1, <3>2 DEF Restores
  <2> QED  BY <1>4, <2>1, RestoreJoin
<1>5. ASSUME Aside(c), op'[c].kind \in SetKinds /\ step'[c] = "store"
                         <=> op[c].kind \in SetKinds /\ step[c] = "store"
      PROVE  Storing' <=> Storing
  BY <1>5, Zenon DEF Storing, Aside
<1>6. ASSUME UNCHANGED <<product, device, saved, before>>
      PROVE  Saves' <=> Saves
  BY <1>3, <1>6 DEF Saves, Back
<1>7. ASSUME before' = Unknown PROVE Saves'
  BY <1>7 DEF Saves, Unknown
<1>8. CASE SendSet(c)
  <2>1. Storing'
    BY <1>8, SendSetEffect DEF Storing
  <2>2. Restores(c)'
    BY <1>2, <1>3, <1>8, SendSetEffect DEF Restores, Back
  <2> QED  BY <1>2, <1>4, <1>8, <2>1, <2>2, SendSetEffect
<1>9. CASE SendSetFails(c)
  <2>1. Storing' <=> Storing
    BY <1>5, <1>9, SendSetFailsEffect, NoOpFacts
  <2>2. Restores(c)'
    BY <1>9, SendSetFailsEffect DEF Restores
  <2>3. ~Storing' => Saves'
    BY <1>2, <1>6, <1>7, <1>9, <2>1, SendSetFailsEffect
  <2> QED  BY <1>2, <1>4, <1>9, <2>2, <2>3, SendSetFailsEffect
<1>10. CASE SendGet(c)
  <2>1. Storing' <=> Storing
    BY <1>5, <1>10, SendGetEffect, NoOpFacts DEF SetKinds
  <2>2. Restores(c)'
    BY <1>10, SendGetEffect DEF Restores
  <2>3. ~Storing' => Saves'
    BY <1>2, <1>6, <1>10, <2>1, SendGetEffect
  <2> QED  BY <1>2, <1>4, <1>10, <2>2, <2>3, SendGetEffect
<1>11. ASSUME StoreSet(c) \/ ConfigSet(c)
       PROVE  /\ Aside(c) /\ step[c] \in {"send", "store"} /\ op[c].kind \in SetKinds
              /\ step'[c] = "notify" /\ op'[c] = op[c] /\ Stored(c)
              /\ UNCHANGED <<product, saved>>
              /\ op[c].alone => device' = op[c].value
  BY <1>1, <1>11, StoreSetEffect, ConfigSetEffect DEF CallOK, SetKinds
<1>12. CASE StoreSet(c) \/ ConfigSet(c)
  <2>1. Restores(c)'
    BY <1>11, <1>12 DEF Restores
  <2>2. CASE ~op[c].alone
    BY <1>4, <1>7, <1>11, <1>12, <2>1, <2>2, StoredEffect
  <2>3. CASE op[c].alone
    <3>1. /\ ~disturbed'
          /\ before' = IF op[c].kind = "off" THEN op[c].from ELSE before
      BY <1>11, <1>12, <2>3, StoredEffect
    <3>2. CASE op[c].kind = "att"
      BY <1>2, <1>4, <1>7, <1>11, <1>12, <2>1, <2>3, <3>1, <3>2 DEF Restores
    <3>3. CASE op[c].kind = "off"
      <4>1. /\ device' = Off(product) /\ before' = op[c].from
            /\ op[c].from # Unknown => saved' = op[c].from
        BY <1>1, <1>2, <1>11, <1>12, <2>3, <3>1, <3>3 DEF Restores, CallOK
      <4>2. Saves'
        BY <1>3, <1>11, <1>12, <4>1 DEF Saves, Back
      <4> QED  BY <1>4, <1>11, <1>12, <2>1, <3>1, <4>2
    <3>4. CASE op[c].kind = "on"
      <4>1. /\ before' = before
            /\ before # Unknown => device' = Back(before) /\ saved' = Back(before)
        BY <1>2, <1>11, <1>12, <2>3, <3>1, <3>4 DEF Restores
      <4>2. before # Unknown => Back(Back(before)) = Back(before)
        BY <1>1, BackFacts
      <4>3. Saves'
        BY <1>3, <1>11, <1>12, <4>1, <4>2 DEF Saves, Back
      <4> QED  BY <1>4, <1>11, <1>12, <2>1, <3>1, <4>3
    <3> QED  BY <1>11, <1>12, <3>2, <3>3, <3>4 DEF SetKinds
  <2> QED  BY <1>1, <2>2, <2>3
<1>13. CASE StoreGet(c)
  <2>1. Storing' <=> Storing
    BY <1>5, <1>13, StoreGetEffect, NoOpFacts DEF SetKinds
  <2>2. Restores(c)'
    BY <1>13, StoreGetEffect DEF Restores
  <2>3. /\ before' = Unknown \/ (before' = before /\ ~disturbed')
        /\ UNCHANGED <<product, device, saved>>
    BY <1>1, <1>13, StoreGetEffect, StoredEffect
  <2>4. ~Storing' => Saves'
    BY <1>2, <1>6, <1>7, <2>1, <2>3
  <2> QED  BY <1>4, <1>13, <2>2, <2>3, <2>4, StoreGetEffect
<1>14. CASE Notify(c)
  <2>1. Storing' <=> Storing
    BY <1>5, <1>14, NotifyEffect, NoOpFacts
  <2>2. Restores(c)'
    BY <1>14, NotifyEffect DEF Restores
  <2>3. ~Storing' => Saves'
    BY <1>2, <1>6, <1>14, <2>1, NotifyEffect
  <2> QED  BY <1>2, <1>4, <1>14, <2>2, <2>3, NotifyEffect
<1> QED  BY <1>8, <1>9, <1>10, <1>12, <1>13, <1>14

(* The talkover invariant holds of every state, with the answers it gives. *)
THEOREM TalkoverCorrect == TalkSpec => []TalkInv
<1>1. TalkInit => TalkInv
  BY TalkTypeInit, CallInit, CacheInit, ToldInit, RestoreInit, Zenon DEF TalkInv
<1>2. ASSUME TalkInv, [TalkNext]_talkVars PROVE TalkInv'
  <2>1. /\ TalkTypeOK /\ (\A d \in Client : CallOK(d)) /\ CacheAgrees
        /\ ToldAgrees /\ WillRestore
    BY <1>2, Zenon DEF TalkInv
  <2>2. TalkTypeOK'
    BY <1>2, <2>1, TalkTypeStep
  <2>3. CASE UNCHANGED talkVars
    <3>1. UNCHANGED <<product, device, field, saved, told, step, op,
                      disturbed, mistold, said, before>>
      BY <2>3 DEF talkVars, histVars
    <3>2. Off(product)' = Off(product) /\ Divisor(product)' = Divisor(product)
          /\ ThreeDb(product)' = ThreeDb(product)
          /\ (Storing' <=> Storing) /\ (Ending' <=> Ending)
      BY <3>1, Zenon DEF Off, Divisor, ThreeDb, Storing, Ending
    <3>3. \A d \in Client : CallOK(d)'
      BY <2>1, <3>1, <3>2, Zenon DEF CallOK, Others
    <3>4. CacheAgrees'
      BY <2>1, <3>1, <3>2, Zenon DEF CacheAgrees
    <3>5. ToldAgrees'
      BY <2>1, <3>1, <3>2, Zenon DEF ToldAgrees
    <3>6. WillRestore'
      BY <2>1, <3>1, <3>2, Zenon DEF WillRestore, Back
    <3> QED  BY <2>2, <3>3, <3>4, <3>5, <3>6, Zenon DEF TalkInv
  <2>4. ASSUME NEW c \in Client, IoctlTalkover(c) \/ ProcTalkover(c)
        PROVE  TalkInv'
    <3>1. Started(c)
      BY <2>1, <2>4, Starts
    <3>2. \A d \in Client : CallOK(d)'
      BY <2>1, <3>1, CallStart DEF CacheAgrees
    <3>3. CacheAgrees' /\ ToldAgrees' /\ WillRestore'
      BY <2>1, <3>1, CacheStart, ToldStart, RestoreStart
    <3> QED  BY <2>2, <3>2, <3>3, Zenon DEF TalkInv
  <2>5. ASSUME NEW c \in Client,
               SendSet(c) \/ SendSetFails(c) \/ SendGet(c)
                 \/ StoreSet(c) \/ StoreGet(c) \/ ConfigSet(c) \/ Notify(c)
        PROVE  TalkInv'
    <3>1. \A d \in Client : CallOK(d)'
      BY <2>1, <2>5, CallStep
    <3>2. CacheAgrees' /\ ToldAgrees' /\ WillRestore'
      BY <2>1, <2>5, CacheStep, ToldStep, RestoreStep
    <3> QED  BY <2>2, <3>1, <3>2, Zenon DEF TalkInv
  <2> QED  BY <1>2, <2>3, <2>4, <2>5, Zenon DEF TalkNext
<1> QED  BY <1>1, <1>2, PTL DEF TalkSpec

(* Whoever turns talkover off and on again, with any number of clients     *)
(* asking in between, finds the attenuation there was.                     *)
THEOREM RestoresCorrect == TalkSpec => []OffAndOnRestores
<1>1. TalkInv => OffAndOnRestores
  BY Zenon DEF TalkInv, WillRestore, OffAndOnRestores, Quiet, Storing, Back
<1> QED  BY <1>1, TalkoverCorrect, PTL

(* Between the calls the cached field and what clients heard last are what *)
(* the device holds, and on the Mk2 and the Rmx so are the answers; with   *)
(* the exceptions that TalkoverTrue names.                                 *)
THEOREM TalkoverTrueCorrect == TalkSpec => []TalkoverTrue
<1>1. TalkInv => TalkoverTrue
  <2> SUFFICES ASSUME TalkInv, Quiet PROVE TalkoverTrue
    BY Zenon DEF TalkoverTrue
  <2>1. ~Storing /\ ~Ending /\ product \in Product
    BY DEF Quiet, Storing, Ending, TalkInv, TalkTypeOK
  <2>2. ~disturbed => field = device
    BY <2>1 DEF TalkInv, CacheAgrees
  <2>3. /\ said = "on"  => device # Off(product)
        /\ said = "off" => device = Off(product)
        /\ ~mistold => told = device \div Divisor(product)
    BY <2>1 DEF TalkInv, ToldAgrees
  <2>4. ASSUME product # "djc", field = device
        PROVE  AttTrue
    BY <2>4 DEF AttTrue, CachedAtt, IsOff
  <2>5. ASSUME product # "djc", field = device
        PROVE  EnableTrue
    BY <2>5 DEF EnableTrue, ShownEnable
  <2> QED  BY <2>2, <2>3, <2>4, <2>5 DEF TalkoverTrue
<1> QED  BY <1>1, TalkoverCorrect, PTL
=============================================================================
