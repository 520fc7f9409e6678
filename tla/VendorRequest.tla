---------------------------- MODULE VendorRequest ----------------------------
(***************************************************************************)
(* Vendor requests of bulk.c on one chip: send_vendor_request, its         *)
(* completion ctrl_callback, the lock that a firmware updater takes with   *)
(* lock_vendor_io, and the suspend callback that forbids URBs and kills    *)
(* the control URB.  The callers hold a reference on the chip, so the chip *)
(* is there (ChipRegistry); only firmware_start_bulk forces requests, and  *)
(* nothing calls it.                                                       *)
(***************************************************************************)
EXTENDS Integers, FiniteSets

CONSTANTS
  Requester,   \* threads that send vendor requests
  Locker,      \* threads that lock and unlock vendor I/O
  Events,      \* what may go wrong (see AllEvents)
  NoOwner

AllEvents == {"timeout", "error", "suspend"}

ASSUME RequesterAssumption == IsFiniteSet(Requester) /\ NoOwner \notin Requester
ASSUME LockerAssumption == IsFiniteSet(Locker)
ASSUME EventsAssumption == Events \subseteq AllEvents

VARIABLES
  locked_io,                  \* chip->locked_io
  vendor_command_in_progress, \* chip->vendor_command_in_progress
  vendor_request_mutex,       \* its owner, or NoOwner
  ctrl_completion,            \* the done count of chip->ctrl_completion
  urb_status,                 \* chip->ctrl_urb->status
  urb_owner,                  \* the requester that submitted ctrl_urb last
  no_urb_submission,          \* chip->no_urb_submission > 0
  power,                      \* "on", "forbid" (hdj_suspend is at work), "off"
  has_buffers,                \* chip->ctl_req # NULL: snd_hdj_chip_create
                              \* reports a failed allocation as success
  pc,                         \* [Requester -> Label]
  ret,                        \* [Requester -> {"ok", "failed"}]
  lock_pc,                    \* [Locker -> {"idle", "drain", "locked"}]
  slipped,                    \* history: requests that had passed the test of
                              \* locked_io, and were not counted yet, when a
                              \* lock was last granted
  upsets                      \* history: which of the Events have happened

lockVars  == <<locked_io, lock_pc, slipped>>
urbVars   == <<ctrl_completion, urb_status, urb_owner>>
powerVars == <<no_urb_submission, power, has_buffers>>
vars == <<lockVars, urbVars, powerVars, vendor_command_in_progress,
          vendor_request_mutex, pc, ret, upsets>>

(* The labels of send_vendor_request: those at which the request is        *)
(* counted, and those at which its thread has vendor_request_mutex.        *)
MutexLabel == {"fill", "submit", "wait", "kill", "status", "up"}
CountLabel == {"down", "uncount"} \cup MutexLabel
Label      == {"idle", "count"} \cup CountLabel

TypeOK ==
  /\ locked_io \in Nat
  /\ vendor_command_in_progress \in Int
  /\ vendor_request_mutex \in Requester \cup {NoOwner}
  /\ ctrl_completion \in Nat
  /\ urb_status \in {"unused", "active", "ok", "stall", "error", "killed"}
  /\ urb_owner \in Requester \cup {NoOwner}
  /\ no_urb_submission \in BOOLEAN
  /\ power \in {"on", "forbid", "off"}
  /\ has_buffers \in BOOLEAN
  /\ pc \in [Requester -> Label]
  /\ ret \in [Requester -> {"ok", "failed"}]
  /\ lock_pc \in [Locker -> {"idle", "drain", "locked"}]
  /\ slipped \subseteq Requester
  /\ upsets \subseteq Events

Init ==
  /\ locked_io = 0
  /\ vendor_command_in_progress = 0
  /\ vendor_request_mutex = NoOwner
  /\ ctrl_completion = 0
  /\ urb_status = "unused"
  /\ urb_owner = NoOwner
  /\ no_urb_submission = FALSE
  /\ power = "on"
  /\ has_buffers \in BOOLEAN
  /\ pc = [t \in Requester |-> "idle"]
  /\ ret = [t \in Requester |-> "ok"]
  /\ lock_pc = [l \in Locker |-> "idle"]
  /\ slipped = {}
  /\ upsets = {}

Goto(t, l) == pc' = [pc EXCEPT ![t] = l]

-----------------------------------------------------------------------------
(* send_vendor_request                                                     *)

(* Mutant: locked_io is not looked at.                                     *)
TestUnlockedSkipped(t) ==
  /\ pc[t] = "idle"
  /\ Goto(t, "count")
  /\ UNCHANGED <<lockVars, urbVars, powerVars, vendor_command_in_progress,
                 vendor_request_mutex, ret, upsets>>

(* The test of locked_io; a locked request returns -EPERM at once.         *)
TestUnlocked(t) ==
  /\ pc[t] = "idle"
  /\ locked_io = 0
  /\ Goto(t, "count")
  /\ UNCHANGED <<lockVars, urbVars, powerVars, vendor_command_in_progress,
                 vendor_request_mutex, ret, upsets>>

CountRequest(t) ==
  /\ pc[t] = "count"
  /\ vendor_command_in_progress' = vendor_command_in_progress + 1
  /\ Goto(t, "down")
  /\ UNCHANGED <<lockVars, urbVars, powerVars, vendor_request_mutex, ret, upsets>>

(* Mutant: requests are not constrained to one at a time.                  *)
DownNoWait(t) ==
  /\ pc[t] = "down" /\ has_buffers
  /\ vendor_request_mutex' = t
  /\ Goto(t, "fill")
  /\ UNCHANGED <<lockVars, urbVars, powerVars, vendor_command_in_progress, ret, upsets>>

Down(t) ==
  /\ pc[t] = "down" /\ has_buffers
  /\ vendor_request_mutex = NoOwner
  /\ vendor_request_mutex' = t
  /\ Goto(t, "fill")
  /\ UNCHANGED <<lockVars, urbVars, powerVars, vendor_command_in_progress, ret, upsets>>

(* ctl_req or ctrl_req_buffer is NULL: the request returns with the mutex. *)
DownNoBuffer(t) ==
  /\ pc[t] = "down" /\ ~has_buffers
  /\ vendor_request_mutex = NoOwner
  /\ vendor_request_mutex' = t
  /\ vendor_command_in_progress' = vendor_command_in_progress - 1
  /\ slipped' = slipped \ {t}
  /\ Goto(t, "idle")
  /\ UNCHANGED <<locked_io, lock_pc, urbVars, powerVars, ret, upsets>>

(* Fill the buffers and the URB; hdjbulk_submit_urb asks can_send_urbs.    *)
FillUrb(t) ==
  /\ pc[t] = "fill"
  /\ IF no_urb_submission
       THEN Goto(t, "up") /\ ret' = [ret EXCEPT ![t] = "failed"]
       ELSE Goto(t, "submit") /\ UNCHANGED ret
  /\ UNCHANGED <<lockVars, urbVars, powerVars, vendor_command_in_progress,
                 vendor_request_mutex, upsets>>

(* usb_submit_urb accepts the URB, unless it is still on the wire ...      *)
SubmitUrb(t) ==
  /\ pc[t] = "submit"
  /\ urb_status # "active"
  /\ urb_status' = "active" /\ urb_owner' = t
  /\ Goto(t, "wait")
  /\ UNCHANGED <<lockVars, powerVars, ctrl_completion, vendor_command_in_progress,
                 vendor_request_mutex, ret, upsets>>

(* ... or the submission fails for another reason.                         *)
SubmitFails(t) ==
  /\ pc[t] = "submit"
  /\ urb_status = "active" \/ "error" \in Events
  /\ ret' = [ret EXCEPT ![t] = "failed"]
  /\ Goto(t, "up")
  /\ UNCHANGED <<lockVars, urbVars, powerVars, vendor_command_in_progress,
                 vendor_request_mutex, upsets>>

(* wait_for_completion_interruptible_timeout: a completion is there ...    *)
WaitDone(t) ==
  /\ pc[t] = "wait"
  /\ ctrl_completion > 0
  /\ ctrl_completion' = ctrl_completion - 1
  /\ ret' = [ret EXCEPT ![t] = "ok"]
  /\ Goto(t, "status")
  /\ UNCHANGED <<lockVars, powerVars, urb_status, urb_owner,
                 vendor_command_in_progress, vendor_request_mutex, upsets>>

(* ... or a second has passed, or a signal is pending.                     *)
WaitGivenUp(t) ==
  /\ "timeout" \in Events
  /\ pc[t] = "wait"
  /\ ctrl_completion = 0
  /\ ret' = [ret EXCEPT ![t] = "failed"]
  /\ upsets' = upsets \cup {"timeout"}
  /\ Goto(t, "kill")
  /\ UNCHANGED <<lockVars, urbVars, powerVars, vendor_command_in_progress,
                 vendor_request_mutex>>

(* usb_kill_urb gives the URB back, through ctrl_callback, if it is out.   *)
KillCtrlUrb ==
  IF urb_status = "active"
    THEN urb_status' = "killed" /\ ctrl_completion' = ctrl_completion + 1
    ELSE UNCHANGED <<urb_status, ctrl_completion>>

KillAfterTimeout(t) ==
  /\ pc[t] = "kill"
  /\ KillCtrlUrb
  /\ Goto(t, "status")
  /\ UNCHANGED <<lockVars, powerVars, urb_owner, vendor_command_in_progress,
                 vendor_request_mutex, ret, upsets>>

(* Only a stalled pipe is looked for in the URB's status.                  *)
CheckStatus(t) ==
  /\ pc[t] = "status"
  /\ ret' = [ret EXCEPT ![t] = IF urb_status = "stall" THEN "failed" ELSE @]
  /\ Goto(t, "up")
  /\ UNCHANGED <<lockVars, urbVars, powerVars, vendor_command_in_progress,
                 vendor_request_mutex, upsets>>

(* Copy the answer out of ctrl_req_buffer and release the lock.            *)
Up(t) ==
  /\ pc[t] = "up"
  /\ vendor_request_mutex' = NoOwner
  /\ Goto(t, "uncount")
  /\ UNCHANGED <<lockVars, urbVars, powerVars, vendor_command_in_progress, ret, upsets>>

(* Mutant: the request is not counted out.                                 *)
UncountForgotten(t) ==
  /\ pc[t] = "uncount"
  /\ slipped' = slipped \ {t}
  /\ ret' = [ret EXCEPT ![t] = "ok"]
  /\ Goto(t, "idle")
  /\ UNCHANGED <<locked_io, lock_pc, urbVars, powerVars, vendor_command_in_progress,
                 vendor_request_mutex, upsets>>

(* The request returns ret[t], which then is nobody's any more.            *)
Uncount(t) ==
  /\ pc[t] = "uncount"
  /\ vendor_command_in_progress' = vendor_command_in_progress - 1
  /\ slipped' = slipped \ {t}
  /\ ret' = [ret EXCEPT ![t] = "ok"]
  /\ Goto(t, "idle")
  /\ UNCHANGED <<locked_io, lock_pc, urbVars, powerVars, vendor_request_mutex, upsets>>

(* The device answers, refuses, or the transfer fails: ctrl_callback.      *)
CtrlCallback ==
  /\ urb_status = "active"
  /\ urb_status' \in {"ok", "stall"} \cup ({"error"} \cap Events)
  /\ upsets' = upsets \cup ({urb_status'} \cap {"error"})
  /\ ctrl_completion' = ctrl_completion + 1
  /\ UNCHANGED <<lockVars, powerVars, urb_owner, vendor_command_in_progress,
                 vendor_request_mutex, pc, ret>>

-----------------------------------------------------------------------------
(* lock_vendor_io and unlock_vendor_io.  A client unlocks what it locked.  *)

LockVendorIo(l) ==
  /\ lock_pc[l] = "idle"
  /\ locked_io' = locked_io + 1
  /\ lock_pc' = [lock_pc EXCEPT ![l] = "drain"]
  /\ UNCHANGED <<slipped, urbVars, powerVars, vendor_command_in_progress,
                 vendor_request_mutex, pc, ret, upsets>>

Drain(l) ==
  /\ lock_pc[l] = "drain"
  /\ vendor_command_in_progress = 0
  /\ lock_pc' = [lock_pc EXCEPT ![l] = "locked"]
  /\ slipped' = {t \in Requester : pc[t] = "count"}
  /\ UNCHANGED <<locked_io, urbVars, powerVars, vendor_command_in_progress,
                 vendor_request_mutex, pc, ret, upsets>>

UnlockVendorIo(l) ==
  /\ lock_pc[l] = "locked"
  /\ locked_io' = IF locked_io > 0 THEN locked_io - 1 ELSE locked_io
  /\ lock_pc' = [lock_pc EXCEPT ![l] = "idle"]
  /\ UNCHANGED <<slipped, urbVars, powerVars, vendor_command_in_progress,
                 vendor_request_mutex, pc, ret, upsets>>

-----------------------------------------------------------------------------
(* hdj_suspend: forbid URBs, then kill the control URB; hdj_resume.        *)

SuspendForbid ==
  /\ "suspend" \in Events
  /\ power = "on"
  /\ no_urb_submission' = TRUE
  /\ power' = "forbid"
  /\ upsets' = upsets \cup {"suspend"}
  /\ UNCHANGED <<lockVars, urbVars, has_buffers, vendor_command_in_progress,
                 vendor_request_mutex, pc, ret>>

SuspendKill ==
  /\ power = "forbid"
  /\ KillCtrlUrb
  /\ power' = "off"
  /\ UNCHANGED <<lockVars, no_urb_submission, has_buffers, urb_owner,
                 vendor_command_in_progress, vendor_request_mutex, pc, ret, upsets>>

Resume ==
  /\ power = "off"
  /\ no_urb_submission' = FALSE
  /\ power' = "on"
  /\ UNCHANGED <<lockVars, urbVars, has_buffers, vendor_command_in_progress,
                 vendor_request_mutex, pc, ret, upsets>>

-----------------------------------------------------------------------------
Progress(t) ==
  \/ CountRequest(t) \/ Down(t) \/ DownNoBuffer(t) \/ FillUrb(t)
  \/ SubmitUrb(t) \/ SubmitFails(t)
  \/ WaitDone(t) \/ WaitGivenUp(t) \/ KillAfterTimeout(t) \/ CheckStatus(t)
  \/ Up(t) \/ Uncount(t)

Next ==
  \/ \E t \in Requester : TestUnlocked(t) \/ Progress(t)
  \/ CtrlCallback
  \/ \E l \in Locker : LockVendorIo(l) \/ Drain(l) \/ UnlockVendorIo(l)
  \/ SuspendForbid \/ SuspendKill \/ Resume

Spec == Init /\ [][Next]_vars

(* A thread in a request keeps running, and the semaphore serves its       *)
(* waiters in order; lock_vendor_io looks again every 10 ms.  The device   *)
(* need not answer: the timeout is part of Progress.                       *)
FairSpec ==
  /\ Spec
  /\ \A t \in Requester : SF_vars(Progress(t))
  /\ \A l \in Locker : WF_vars(Drain(l))

-----------------------------------------------------------------------------
InRequest == {t \in Requester : pc[t] \in CountLabel}
Pending   == ctrl_completion + IF urb_status = "active" THEN 1 ELSE 0
VendorLocked == \E l \in Locker : lock_pc[l] = "locked"

(* vendor_command_in_progress, which lock_vendor_io waits for, counts the  *)
(* requests between their increment and their decrement, on every path.    *)
CountMatches == vendor_command_in_progress = Cardinality(InRequest)

(* A wait that is given up leaves a completion behind (the kill completes, *)
(* too), and the next wait takes it for its own.  The damage does not add  *)
(* up: outside a wait at most one completion is there or yet to come.      *)
StaleBounded ==
  /\ Pending <= 2
  /\ Pending = 2 => \E t \in Requester : pc[t] = "wait"

(* When lock_vendor_io has returned, the requests still under way are      *)
(* those that had passed the test of locked_io and were not yet counted    *)
(* when it looked: nobody who tests later, and nobody counted, remains.    *)
(* "NO vendor I/O can be sent down the stack" (bulk.c:2855) is so but for  *)
(* those.                                                                  *)
LockDrains == VendorLocked => \A t \in Requester : pc[t] # "idle" => t \in slipped

(* "constrain to one request at a time" (bulk.c:417): the URB a request is *)
(* about to fill is not on the wire with the request of another.           *)
OneRequestOnTheWire == \A t \in Requester : pc[t] = "fill" => urb_status # "active"

(* That is so until a wait is given up; a transfer that fails and a        *)
(* suspend that kills the URB do not endanger it.                          *)
OneRequestUntilGivenUp == "timeout" \notin upsets => OneRequestOnTheWire

(* A request that returns 0 was answered: its callers record what they     *)
(* asked for ("success- now record new MIDI mode", midi.c:304).            *)
SuccessIsAnswered ==
  \A t \in Requester : pc[t] = "up" /\ ret[t] = "ok" =>
                          urb_status = "ok" /\ urb_owner = t

(* That is so until one of the Events happens: each of them lets a request *)
(* return 0 unanswered.  A device that refuses a request (a stall) does    *)
(* not, nor does a lock of vendor I/O.                                     *)
SuccessUntilUpset == upsets = {} => SuccessIsAnswered

(* lock_vendor_io gets its lock: requests in progress drain.               *)
LockReturns ==
  \A l \in Locker : lock_pc[l] = "drain" /\ has_buffers ~> lock_pc[l] = "locked"

-----------------------------------------------------------------------------
(* The inductive invariant.                                                *)

MutexHeld == \A t \in Requester : pc[t] \in MutexLabel => vendor_request_mutex = t

Lockers      == {l \in Locker : lock_pc[l] # "idle"}
LocksCounted == locked_io = Cardinality(Lockers)

SuspendSeen == power # "on" => "suspend" \in upsets

(* Until a wait is given up there is nothing to complete but the one       *)
(* request that waits.                                                     *)
Waiting == \E t \in Requester : pc[t] = "wait"
NothingStale ==
  "timeout" \notin upsets => /\ Pending = IF Waiting THEN 1 ELSE 0
                             /\ \A t \in Requester : pc[t] # "kill"

(* Until something goes wrong the control URB is that of the request that  *)
(* has the mutex, from its submission on.                                  *)
AnswerIsOwn ==
  upsets = {} =>
    \A t \in Requester :
      /\ pc[t] \in {"wait", "status"}
           => urb_owner = t /\ urb_status \in {"active", "ok", "stall"}
      /\ pc[t] = "up" /\ ret[t] = "ok" => urb_owner = t /\ urb_status = "ok"

VendorInv ==
  /\ TypeOK /\ CountMatches /\ StaleBounded /\ LockDrains
  /\ MutexHeld /\ LocksCounted /\ SuspendSeen /\ NothingStale /\ AnswerIsOwn
=============================================================================
