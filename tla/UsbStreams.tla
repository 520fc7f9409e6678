------------------------------ MODULE UsbStreams ------------------------------
(***************************************************************************)
(* The input URBs of a device while it sleeps, wakes, is reset and goes    *)
(* away: those of the continuous reader (bulk.c), numbered from 1, and the *)
(* one of the MIDI input (midicapture.c), number 0.  Each is submitted     *)
(* again by its completion handler; the handlers of the USB core's power   *)
(* and reset callbacks (device.c, midi.c, bulk.c) stop and start them, per *)
(* interface and under the lock of the device, so one at a time.  A        *)
(* handler's test of can_send_urbs and its usb_submit_urb are two steps.   *)
(***************************************************************************)
EXTENDS Integers, Sequences, FiniteSets

CONSTANTS
  Intf,       \* the interfaces of the device this driver is bound to
  Urbs,       \* DJ_POLL_INPUT_URB_COUNT
  MaxRounds,  \* bound: times the device is put to sleep or reset
  MaxErrors,  \* bound: transfers of MIDI input that fail
  MaxFailures \* bound: submissions that fail while the device is there

ASSUME IntfAssumption == IsFiniteSet(Intf) /\ Intf # {}
ASSUME UrbsAssumption == Urbs \in Nat \ {0}
ASSUME BoundAssumption == {MaxRounds, MaxErrors, MaxFailures} \subseteq Nat

Reader == 1..Urbs
Midi   == 0
Urb    == Reader \cup {Midi}

VARIABLES
  no_urb_submission, num_suspended_intf, shutdown, \* the counts of the chip
  reader_state,   \* ubulk->continuous_reader_state
  flight,         \* where each URB is: "done" and "tested" in its handler
  status,         \* urb->status
  error_resubmit, \* ep->error_resubmit of the MIDI input
  timer,          \* error_timer: pending or not
  timer_tested,   \* its handler is between the test and the submission
  intf,           \* what the core has done to each interface
  phase,          \* what it is doing to the device
  todo,           \* the rest of the callback that runs
  result,         \* rc of the last submission in start_continuous_reader
  present,        \* the device is plugged in
  freed,          \* hdj_delete and snd_hdj_free have run
  rounds, errors, failures, \* history: what the bounds count
  unlucky,        \* history: URBs whose submission, or transfer, has failed
  lost            \* history: URBs that completed while a reset forbade them

chipVars  == <<no_urb_submission, num_suspended_intf, shutdown>>
urbVars   == <<flight, status>>
timerVars == <<error_resubmit, timer, timer_tested>>
coreVars  == <<intf, phase, present, rounds>>
ghostVars == <<unlucky, lost>>
vars == <<chipVars, reader_state, urbVars, timerVars, coreVars, todo, result,
          freed, errors, failures, ghostVars>>

Step == [do : {"del", "kill", "start", "run", "stop", "uninit", "shut", "free",
               "check"}, urb : Urb]
Do(what) == [do |-> what, urb |-> Midi]
Each(what) == [u \in Reader |-> [do |-> what, urb |-> u]]

TypeOK ==
  /\ no_urb_submission \in 0..(Cardinality(Intf) + 1)
  /\ num_suspended_intf \in 0..Cardinality(Intf)
  /\ {shutdown, error_resubmit, timer, timer_tested, present, freed} \subseteq BOOLEAN
  /\ reader_state \in {"CR_UNINIT", "CR_STOPPED", "CR_STARTED"}
  /\ flight \in [Urb -> {"idle", "flying", "done", "tested"}]
  /\ status \in [Urb -> {"ok", "unlinked", "error"}]
  /\ intf \in [Intf -> {"on", "suspended", "reset"}]
  /\ phase \in {"probe", "on", "sleep", "asleep", "wake", "pre", "post", "gone"}
  /\ todo \in Seq(Step)
  /\ result \in {"ok", "failed"}
  /\ rounds \in 0..MaxRounds /\ errors \in 0..MaxErrors /\ failures \in 0..MaxFailures
  /\ unlucky \subseteq Urb /\ lost \subseteq Reader

(* The probe has initialised the continuous reader and goes on to start    *)
(* the streams: bulk first, or MIDI first.                                 *)
Init ==
  /\ no_urb_submission = 0 /\ num_suspended_intf = 0 /\ shutdown = FALSE
  /\ reader_state = "CR_STOPPED"
  /\ flight = [u \in Urb |-> "idle"] /\ status = [u \in Urb |-> "ok"]
  /\ error_resubmit = FALSE /\ timer = FALSE /\ timer_tested = FALSE
  /\ intf = [i \in Intf |-> "on"] /\ phase = "probe" /\ present = TRUE
  /\ todo \in {<<Do("run"), Do("check"), Do("start")>>,
               <<Do("start"), Do("run"), Do("check")>>}
  /\ result = "ok" /\ freed = FALSE
  /\ rounds = 0 /\ errors = 0 /\ failures = 0
  /\ unlucky = {} /\ lost = {}

-----------------------------------------------------------------------------
(* Submission.                                                             *)
CanSend == no_urb_submission = 0 /\ ~shutdown
Killing(u) == todo # <<>> /\ Head(todo) = [do |-> "kill", urb |-> u]
Resetting == phase \in {"pre", "post"}

(* usb_submit_urb of an URB that is idle, or in its own handler.           *)
SubmitTaken(u) ==
  /\ present /\ ~Killing(u)
  /\ flight' = [flight EXCEPT ![u] = "flying"]
  /\ unlucky' = unlucky \ {u} /\ lost' = lost \ {u}
  /\ result' = "ok"
  /\ UNCHANGED failures

SubmitFails(u) ==
  /\ flight' = [flight EXCEPT ![u] = "idle"]
  /\ \/ (~present \/ Killing(u)) /\ UNCHANGED <<failures, unlucky>>
     \/ /\ present /\ ~Killing(u) /\ failures < MaxFailures
        /\ failures' = failures + 1
        /\ unlucky' = unlucky \cup {u}
  /\ result' = "failed"
  /\ UNCHANGED lost

Submit(u) == SubmitTaken(u) \/ SubmitFails(u)

(* An URB the host controller has already is refused.                      *)
SubmitTwice(u) ==
  /\ result' = "failed"
  /\ UNCHANGED <<flight, failures, ghostVars>>

(* A transfer ends, with data or because the device does not answer.       *)
Complete(u) ==
  /\ flight[u] = "flying"
  /\ flight' = [flight EXCEPT ![u] = "done"]
  /\ \/ present /\ status' = [status EXCEPT ![u] = "ok"] /\ UNCHANGED errors
     \/ /\ u = Midi /\ errors < MaxErrors /\ errors' = errors + 1
        /\ status' = [status EXCEPT ![u] = "error"]
     \/ /\ ~present \/ phase = "post"
        /\ status' = [status EXCEPT ![u] = "unlinked"] /\ UNCHANGED errors
  /\ UNCHANGED <<chipVars, reader_state, timerVars, coreVars, todo, result, freed,
                 failures, ghostVars>>

(* hdjbulk_in_urb_complete: the URB is to fly again, whatever its status.  *)
ReaderTest(u) ==
  /\ u \in Reader /\ flight[u] = "done"
  /\ flight' = [flight EXCEPT ![u] = IF CanSend THEN "tested" ELSE "idle"]
  /\ lost' = IF ~CanSend /\ Resetting THEN lost \cup {u} ELSE lost
  /\ UNCHANGED <<chipVars, reader_state, status, timerVars, coreVars, todo, result,
                 freed, errors, failures, unlucky>>

(* snd_hdjmidi_in_urb_complete.  The timer that would submit it again is   *)
(* only started while submission is forbidden.                             *)
MidiTest ==
  /\ flight[Midi] = "done"
  /\ flight' = [flight EXCEPT ![Midi] =
                  IF status[Midi] = "ok" /\ CanSend THEN "tested" ELSE "idle"]
  /\ IF status[Midi] = "error" /\ no_urb_submission # 0
       THEN error_resubmit' = TRUE /\ timer' = TRUE
       ELSE UNCHANGED <<error_resubmit, timer>>
  /\ unlucky' = IF status[Midi] = "error" THEN unlucky \cup {Midi} ELSE unlucky
  /\ UNCHANGED <<chipVars, reader_state, status, timer_tested, coreVars, todo,
                 result, freed, errors, failures, lost>>

HandlerSubmits(u) ==
  /\ flight[u] = "tested"
  /\ Submit(u)
  /\ UNCHANGED <<chipVars, reader_state, status, timerVars, coreVars, todo, freed,
                 errors>>

(* snd_hdjmidi_error_timer.                                                *)
TimerFires ==
  /\ timer /\ ~timer_tested
  /\ timer' = FALSE
  /\ error_resubmit' = FALSE
  /\ timer_tested' = (error_resubmit /\ CanSend)
  /\ UNCHANGED <<chipVars, reader_state, urbVars, coreVars, todo, result, freed,
                 errors, failures, ghostVars>>

TimerSubmits ==
  /\ timer_tested
  /\ timer_tested' = FALSE
  /\ IF flight[Midi] = "idle" THEN Submit(Midi) ELSE SubmitTwice(Midi)
  /\ UNCHANGED <<chipVars, reader_state, status, error_resubmit, timer, coreVars,
                 todo, freed, errors>>

-----------------------------------------------------------------------------
(* The steps of a callback.                                                *)
Next1 == todo' = Tail(todo)
Now(what) == todo # <<>> /\ Head(todo).do = what

DelTimer ==
  /\ Now("del") /\ ~timer_tested
  /\ timer' = FALSE
  /\ Next1
  /\ UNCHANGED <<chipVars, reader_state, urbVars, error_resubmit, timer_tested,
                 coreVars, result, freed, errors, failures, ghostVars>>

(* usb_kill_urb: unlinks the URB and waits for its handler.                *)
Kill ==
  /\ Now("kill")
  /\ LET u == Head(todo).urb
     IN \/ /\ flight[u] = "flying"
           /\ flight' = [flight EXCEPT ![u] = "done"]
           /\ status' = [status EXCEPT ![u] = "unlinked"]
           /\ UNCHANGED todo
        \/ /\ flight[u] = "idle"
           /\ Next1
           /\ UNCHANGED urbVars
  /\ UNCHANGED <<chipVars, reader_state, timerVars, coreVars, result, freed,
                 errors, failures, ghostVars>>

(* snd_hdjmidi_input_start_ep and hdjbulk_input_start_ep.                  *)
Start ==
  /\ Now("start")
  /\ LET u == Head(todo).urb
     IN IF CanSend /\ flight[u] = "idle" THEN Submit(u) ELSE SubmitTwice(u)
  /\ Next1
  /\ UNCHANGED <<chipVars, reader_state, status, timerVars, coreVars, freed, errors>>

StartReader ==
  /\ Now("run")
  /\ IF reader_state = "CR_STOPPED"
       THEN reader_state' = "CR_STARTED" /\ todo' = Each("start") \o Tail(todo)
       ELSE UNCHANGED reader_state /\ Next1
  /\ result' = "ok"
  /\ UNCHANGED <<chipVars, urbVars, timerVars, coreVars, freed, errors, failures,
                 ghostVars>>

StopReader ==
  /\ Now("stop")
  /\ IF reader_state = "CR_STARTED"
       THEN reader_state' = "CR_STOPPED" /\ todo' = Each("kill") \o Tail(todo)
       ELSE UNCHANGED reader_state /\ Next1
  /\ UNCHANGED <<chipVars, urbVars, timerVars, coreVars, result, freed, errors,
                 failures, ghostVars>>

UninitReader ==
  /\ Now("uninit")
  /\ reader_state' = IF reader_state = "CR_STOPPED" THEN "CR_UNINIT" ELSE reader_state
  /\ Next1
  /\ UNCHANGED <<chipVars, urbVars, timerVars, coreVars, result, freed, errors,
                 failures, ghostVars>>

(* The last reference to the chip is given back: disconnect of both        *)
(* drivers, and the release of their objects.                              *)
KillMidi == <<Do("del"), Do("kill")>>

(* Mutant: the timer is left to its own devices.                           *)
DisconnectStepsKeepTimer ==
  <<Do("shut"), Do("kill"), Do("stop"), Do("stop"), Do("uninit")>>
    \o Each("kill") \o <<Do("free")>>

DisconnectSteps ==
  <<Do("shut")>> \o KillMidi \o <<Do("stop"), Do("stop"), Do("uninit")>>
    \o Each("kill") \o <<Do("free")>>

(* The probe gives up if the last URB of the reader could not be started,  *)
(* and with it goes the chip, unless the MIDI interface has come first.    *)
CheckStarted ==
  /\ Now("check")
  /\ IF result = "failed" /\ Tail(todo) # <<>>
       THEN todo' = DisconnectSteps /\ phase' = "gone"
       ELSE Next1 /\ UNCHANGED phase
  /\ UNCHANGED <<chipVars, reader_state, urbVars, timerVars, intf, present, rounds,
                 result, freed, errors, failures, ghostVars>>

Shutdown ==
  /\ Now("shut")
  /\ shutdown' = TRUE
  /\ Next1
  /\ UNCHANGED <<no_urb_submission, num_suspended_intf, reader_state, urbVars,
                 timerVars, coreVars, result, freed, errors, failures, ghostVars>>

Free ==
  /\ Now("free")
  /\ freed' = TRUE
  /\ Next1
  /\ UNCHANGED <<chipVars, reader_state, urbVars, timerVars, coreVars, result,
                 errors, failures, ghostVars>>

CallbackStep ==
  \/ DelTimer \/ Kill \/ Start \/ StartReader \/ StopReader \/ UninitReader
  \/ CheckStarted \/ Shutdown \/ Free

-----------------------------------------------------------------------------
(* The callbacks, one at a time.                                           *)
All(which) == \A i \in Intf : intf'[i] = which
Set(i, which) == intf' = [intf EXCEPT ![i] = which]

Probed ==
  /\ todo = <<>> /\ phase = "probe"
  /\ phase' = "on"
  /\ UNCHANGED <<chipVars, reader_state, urbVars, timerVars, intf, present, rounds,
                 todo, result, freed, errors, failures, ghostVars>>

(* Mutant: bulk does nothing.                                              *)
SuspendStepsMidiOnly == KillMidi

SuspendSteps == KillMidi \o Each("kill") \o <<Do("stop")>>

hdj_suspend(i) ==
  /\ todo = <<>> /\ intf[i] = "on"
  /\ \/ phase = "on" /\ rounds < MaxRounds /\ rounds' = rounds + 1
     \/ phase = "sleep" /\ UNCHANGED rounds
  /\ Set(i, "suspended")
  /\ phase' = IF All("suspended") THEN "asleep" ELSE "sleep"
  /\ num_suspended_intf' = num_suspended_intf + 1
  /\ IF num_suspended_intf' = 1
       THEN no_urb_submission' = no_urb_submission + 1 /\ todo' = SuspendSteps
       ELSE UNCHANGED <<no_urb_submission, todo>>
  /\ UNCHANGED <<shutdown, reader_state, urbVars, timerVars, present, result, freed,
                 errors, failures, ghostVars>>

(* The core may also give up putting the device to sleep half-way.         *)
hdj_resume(i) ==
  /\ todo = <<>> /\ intf[i] = "suspended"
  /\ phase \in {"sleep", "asleep", "wake"}
  /\ Set(i, "on")
  /\ phase' = IF All("on") THEN "on" ELSE "wake"
  /\ num_suspended_intf' = num_suspended_intf - 1
  /\ IF num_suspended_intf' = 0
       THEN /\ no_urb_submission' = no_urb_submission - 1
            /\ todo' = <<Do("start"), Do("run")>>
       ELSE UNCHANGED <<no_urb_submission, todo>>
  /\ UNCHANGED <<shutdown, reader_state, urbVars, timerVars, present, rounds, result,
                 freed, errors, failures, ghostVars>>

(* Of the two drivers only MIDI stops and starts for a reset:              *)
(* snd_hdjbulk_pre_reset and snd_hdjbulk_post_reset always return at once. *)
hdj_pre_reset(i) ==
  /\ todo = <<>> /\ intf[i] = "on"
  /\ \/ phase = "on" /\ rounds < MaxRounds /\ rounds' = rounds + 1
     \/ phase = "pre" /\ UNCHANGED rounds
  /\ Set(i, "reset")
  /\ phase' = IF All("reset") THEN "post" ELSE "pre"
  /\ no_urb_submission' = no_urb_submission + 1
  /\ todo' = KillMidi
  /\ UNCHANGED <<num_suspended_intf, shutdown, reader_state, urbVars, timerVars,
                 present, result, freed, errors, failures, ghostVars>>

(* Mutant: MIDI is started before submission is allowed.                   *)
hdj_post_reset_early(i) ==
  /\ todo = <<>> /\ intf[i] = "reset" /\ phase = "post"
  /\ Set(i, "on")
  /\ phase' = IF All("on") THEN "on" ELSE "post"
  /\ no_urb_submission' = no_urb_submission - 1
  /\ todo' = IF phase' = "on" THEN <<>> ELSE <<Do("start")>>
  /\ UNCHANGED <<num_suspended_intf, shutdown, reader_state, urbVars, timerVars,
                 present, rounds, result, freed, errors, failures, ghostVars>>

hdj_post_reset(i) ==
  /\ todo = <<>> /\ intf[i] = "reset" /\ phase = "post"
  /\ Set(i, "on")
  /\ phase' = IF All("on") THEN "on" ELSE "post"
  /\ no_urb_submission' = no_urb_submission - 1
  /\ todo' = <<Do("start")>>
  /\ UNCHANGED <<num_suspended_intf, shutdown, reader_state, urbVars, timerVars,
                 present, rounds, result, freed, errors, failures, ghostVars>>

Unplug ==
  /\ present
  /\ present' = FALSE
  /\ UNCHANGED <<chipVars, reader_state, urbVars, timerVars, intf, phase, rounds,
                 todo, result, freed, errors, failures, ghostVars>>

(* A device that sleeps is woken before its driver leaves it, if it can.   *)
Disconnect ==
  /\ todo = <<>>
  /\ phase = "on" \/ (phase = "asleep" /\ ~present)
  /\ phase' = "gone"
  /\ todo' = DisconnectSteps
  /\ UNCHANGED <<chipVars, reader_state, urbVars, timerVars, intf, present, rounds,
                 result, freed, errors, failures, ghostVars>>

Handler(u) == ReaderTest(u) \/ (u = Midi /\ MidiTest) \/ HandlerSubmits(u)

Next ==
  \/ \E u \in Urb : Complete(u) \/ Handler(u)
  \/ TimerFires \/ TimerSubmits
  \/ CallbackStep
  \/ \E i \in Intf : hdj_suspend(i) \/ hdj_resume(i) \/ hdj_pre_reset(i)
                       \/ hdj_post_reset(i)
  \/ Probed \/ Unplug \/ Disconnect

Spec == Init /\ [][Next]_vars

-----------------------------------------------------------------------------
(* Submission is forbidden once for each interface in a reset and once for *)
(* those that are suspended together, so it is allowed when all are on.    *)
With(which) == {i \in Intf : intf[i] = which}
CountsMatch ==
  /\ num_suspended_intf = Cardinality(With("suspended"))
  /\ no_urb_submission = Cardinality(With("reset"))
                           + (IF With("suspended") # {} THEN 1 ELSE 0)

(* From the return of the first hdj_suspend to the last hdj_resume no URB  *)
(* is in flight, and none of MIDI from hdj_pre_reset to hdj_post_reset.    *)
NothingFliesAsleep ==
  todo = <<>> =>
    /\ With("suspended") # {} => \A u \in Urb : flight[u] = "idle"
    /\ With("reset") # {} => flight[Midi] = "idle"

(* While the device is awake the continuous reader is started and its URBs *)
(* and that of MIDI fly, through every sleep and reset, but for those that *)
(* could not be submitted or failed, and those of the reader that          *)
(* completed during a reset: snd_hdjbulk_post_reset does not start them    *)
(* again.                                                                  *)
Awake == phase = "on" /\ todo = <<>> /\ present
StreamsRun ==
  Awake =>
    /\ reader_state = "CR_STARTED"
    /\ \A u \in Urb \ (unlucky \cup lost) : flight[u] # "idle"

(* Nothing touches what hdj_delete and snd_hdj_free have freed.            *)
NothingAfterFree ==
  freed => ~timer /\ ~timer_tested /\ \A u \in Urb : flight[u] = "idle"
-----------------------------------------------------------------------------
(* What is inductive.  A list of steps keeps its order: the kill of MIDI   *)
(* comes right after the timer's deletion, and nothing after the free; and *)
(* some steps belong to a phase.                                           *)
In(x, s) == \E k \in 1..Len(s) : s[k] = x
Follows(s) ==
  \A k \in 1..Len(s) :
    /\ s[k].do = "del" => k < Len(s) /\ s[k + 1] = Do("kill")
    /\ s[k].do = "free" => k = Len(s)
Belongs(s, p) ==
  \A k \in 1..Len(s) :
    /\ s[k].do \in {"shut", "free"} => p = "gone"
    /\ s[k].do = "check" => p = "probe"

PhaseFits ==
  /\ phase \in {"probe", "on"} => With("reset") = {} /\ With("suspended") = {}
  /\ phase = "asleep" => With("suspended") # {}

(* An URB that must not fly does not, or will be killed; the timer will    *)
(* not submit, or will be stopped.                                         *)
Stilled(u) == flight[u] = "idle" \/ In([do |-> "kill", urb |-> u], todo)
StilledAsleep ==
  /\ With("suspended") # {} => \A u \in Urb : Stilled(u)
  /\ With("reset") # {} => Stilled(Midi)
  /\ no_urb_submission # 0 /\ timer_tested => In(Do("del"), todo)

StilledGone ==
  /\ phase = "gone" /\ ~shutdown => todo = DisconnectSteps
  /\ phase = "gone" /\ no_urb_submission # 0 => flight[Midi] = "idle" /\ ~timer_tested
  /\ shutdown => /\ phase = "gone"
                 /\ \A u \in Urb : Stilled(u)
                 /\ timer \/ timer_tested => In(Do("del"), todo)
  /\ freed => shutdown /\ todo = <<>>

StreamsInv ==
  /\ TypeOK /\ CountsMatch /\ PhaseFits
  /\ Follows(todo) /\ Belongs(todo, phase)
  /\ StilledAsleep /\ StilledGone

(* What StreamsRun needs besides.  Which steps a list holds depends on the *)
(* phase.  Until the device is unplugged, an URB that is idle while the    *)
(* device wakes or is probed has its start still to come, or has failed;   *)
(* the reader is stopped for a sleep and not for a reset.                  *)
StepsFit(s, p) ==
  \A k \in 1..Len(s) :
    /\ p \in {"probe", "on"} => s[k].do \in {"start", "run", "check"}
    /\ p \in {"pre", "post"} => s[k].do \in {"del", "start"} \/ s[k] = Do("kill")
    /\ p \in {"sleep", "asleep", "wake"} => s[k].do \in {"del", "kill", "stop"}

Excused(u) == flight[u] # "idle" \/ u \in unlucky \cup lost
ToRun == reader_state = "CR_STOPPED" /\ In(Do("run"), todo)
Due(u) ==
  \/ Excused(u)
  \/ In([do |-> "start", urb |-> u], todo)
  \/ u \in Reader /\ ToRun

RunInv ==
  /\ StepsFit(todo, phase)
  /\ phase \in {"sleep", "asleep", "wake"} => With("reset") = {}
  /\ present /\ phase \in {"probe", "on"} =>
       /\ \A u \in Urb : Due(u)
       /\ reader_state = "CR_STARTED" \/ ToRun
       /\ flight[Midi] = "done" => status[Midi] # "unlinked"
  /\ present /\ phase \in {"pre", "post"} =>
       /\ \A u \in Reader : Excused(u)
       /\ reader_state = "CR_STARTED"
  /\ present /\ phase \in {"sleep", "asleep", "wake"} =>
       \/ reader_state = "CR_STOPPED"
       \/ reader_state = "CR_STARTED" /\ In(Do("stop"), todo)
=============================================================================
