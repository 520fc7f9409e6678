------------------------------ MODULE SteelBulk ------------------------------
(***************************************************************************)
(* The bulk protocol of the DJ Control Steel (bulk.c and                   *)
(* configuration_manager.c).  Commands go out on one URB                   *)
(* (firmware_send_bulk); reports come in through the continuous reader,    *)
(* some of them asked for and some not.  A call that wants an answer sets  *)
(* is_bulk_read_request_pending, asks for a report and waits for           *)
(* bulk_request_completion under bulk_request_mutex; the next report that  *)
(* comes in is its answer.  A wait that times out leaves both as they are. *)
(* The lock and the sensitivity of the jog wheels are one word, and a call *)
(* that sets one takes the other from the last report.                     *)
(*                                                                         *)
(* Values that reports carry and the driver only passes on (effects, shift *)
(* mode, serial number, firmware version) are left out.                    *)
(***************************************************************************)
EXTENDS Integers, Sequences

CONSTANTS
  Client,     \* threads in ioctl and in /proc handlers
  NoOne,      \* nobody has bulk_request_mutex
  MaxRetry,   \* DJ_MAX_RETRY and DJ_STEEL_MAX_RETRY_UPGRADE
  Modes,      \* the device modes explored
  MaxCalls,   \* bound: calls begun
  MaxReports, \* bound: reports nobody asked for
  MaxFailures \* bound: sends that fail and waits that time out

ASSUME ClientAssumption == NoOne \notin Client
ASSUME MaxRetryAssumption == MaxRetry \in Nat \ {0}
ASSUME ModesAssumption == Modes \subseteq {"normal", "boot"}
ASSUME BoundAssumption == {MaxCalls, MaxReports, MaxFailures} \subseteq Nat

JogWord == SUBSET {"lock", "sens"}
Channel == {1, 2}

(* A report: the words of the device that matter here, and in boot mode    *)
(* whether it is the reply of success.                                     *)
Report == [jog : JogWord, chan : Channel, good : BOOLEAN]

(* What the calls look at in their answer.                                 *)
Looked(report) == [chan |-> report.chan, good |-> report.good]

(* Reports the device and the host controller hold.                        *)
MaxWire == 2

VARIABLES
  mode,       \* dc->device_mode, fixed while the device is plugged in
  device,     \* the state of the device
  wire,       \* reports sent and not yet completed
  flying,     \* the command of an output URB nobody waits for, in a set
  out_done,   \* ubulk->bulk_out_completion has been completed once too often
  jog,        \* dc->jog_wheel_parameters
  pending,    \* dc->is_bulk_read_request_pending
  done,       \* dc->bulk_request_completion
  bulk_data,  \* dc->bulk_data, the parts that are looked at
  mutex,      \* the owner of dc->bulk_request_mutex
  pc,         \* the step of each client
  op,         \* the locals of each client's call
  calls, reports, failures, \* history: what the bounds count
  filled,     \* history: bulk_data has come in since mutex was taken
  unanswered, \* history: an attempt ended without an answer
  stale,      \* history: an answer was used that came before its call
  asked_jog,  \* history: what the calls that returned 0 set the jog word to
  jog_broken, \* history: a jog call failed, or overlapped with another
  jog_rushed, \* history: a jog call began before the last was reported
  chan_raced, \* history: the last call that sets the channel met another
  older,      \* history: reports on the wire from before that call, while it lasts
  data_old,   \* history: bulk_data is from before that call, while it lasts
  said_chan   \* history: the channel that call stored and read back, in a set

outVars   == <<flying, out_done>>
askVars   == <<pending, done, bulk_data, mutex>>
countVars == <<calls, reports, failures>>
chanVars  == <<chan_raced, older, data_old, said_chan>>
histVars  == <<filled, unanswered, stale, asked_jog, jog_broken, jog_rushed, chanVars>>
vars == <<mode, device, wire, outVars, jog, askVars, pc, op, countVars, histVars>>

Kind == {"write", "lock", "sens", "chan", "get", "exit"}
JogKinds == {"lock", "sens"}

(* What is sent: a request for a report, the jog word, the channel, the    *)
(* boot loader's exit, or a command that changes nothing modelled.         *)
Command == [to : {"report", "jog", "chan", "exit", "other"},
            jog : JogWord, chan : Channel]

(* "set" sends what the call is for; the other phases ask for a report.    *)
Op == [kind : Kind, phase : {"set", "serial", "verify", "get"}, command : Command,
       tries : 0..MaxRetry, sends : 0..MaxRetry]
NoOp == [kind |-> "get", phase |-> "get", tries |-> 0, sends |-> 0,
         command |-> [to |-> "report", jog |-> {}, chan |-> 1]]

TypeOK ==
  /\ mode \in Modes
  /\ device \in Report
  /\ wire \in Seq(Report) /\ Len(wire) <= MaxWire
  /\ flying \subseteq Command /\ out_done \in BOOLEAN
  /\ jog \in JogWord
  /\ pending \in BOOLEAN
  /\ done \in Nat
  /\ bulk_data \in [chan : Channel, good : BOOLEAN]
  /\ mutex \in Client \cup {NoOne}
  /\ pc \in [Client -> {"idle", "down", "ask", "send", "wait", "copy"}]
  /\ op \in [Client -> Op]
  /\ calls \in 0..MaxCalls /\ reports \in 0..MaxReports
  /\ failures \in 0..MaxFailures
  /\ {filled, unanswered, stale, jog_broken, jog_rushed} \subseteq BOOLEAN
  /\ chan_raced \in BOOLEAN /\ older \in 0..MaxWire /\ data_old \in BOOLEAN
  /\ asked_jog \in JogWord
  /\ said_chan \subseteq Channel

(* hdjbulk_init_dj_steel has asked for the state of the device.            *)
Init ==
  /\ mode \in Modes
  /\ device = [jog |-> {}, chan |-> 1, good |-> FALSE]
  /\ wire = <<>>
  /\ flying = {} /\ out_done = FALSE
  /\ jog = device.jog
  /\ pending = FALSE /\ done = 0 /\ bulk_data = Looked(device)
  /\ mutex = NoOne
  /\ pc = [c \in Client |-> "idle"]
  /\ op = [c \in Client |-> NoOp]
  /\ calls = 0 /\ reports = 0 /\ failures = 0
  /\ filled = FALSE /\ unanswered = FALSE /\ stale = FALSE
  /\ asked_jog = {} /\ jog_broken = FALSE /\ jog_rushed = FALSE
  /\ chan_raced = FALSE /\ older = 0 /\ data_old = FALSE /\ said_chan = {}

-----------------------------------------------------------------------------
(* The device.                                                             *)
After(d, command) ==
  CASE command.to = "jog"  -> [d EXCEPT !.jog = command.jog]
    [] command.to = "chan" -> [d EXCEPT !.chan = command.chan]
    [] OTHER               -> d

(* Reports it has no room for are lost; in boot mode it answers commands   *)
(* with success or with something else.                                    *)
Sent(report) == IF Len(wire) < MaxWire THEN Append(wire, report) ELSE wire
Answered(command) ==
  CASE command.to = "report" /\ mode = "normal" -> {Sent(After(device, command))}
    [] command.to = "exit" -> {Sent([device EXCEPT !.good = g]) : g \in BOOLEAN}
    [] OTHER -> {wire}

Takes(command) == device' = After(device, command) /\ wire' \in Answered(command)

(* A knob is turned.                                                       *)
Unasked ==
  /\ reports < MaxReports
  /\ reports' = reports + 1
  /\ wire' = Sent(device)
  /\ UNCHANGED <<mode, device, outVars, jog, askVars, pc, op, calls, failures,
                 histVars>>

(* The URB nobody waits for is done, and completes for the next one.       *)
LateTake ==
  \E command \in flying :
    /\ Takes(command)
    /\ flying' = {}
    /\ out_done' = TRUE
    /\ UNCHANGED <<mode, jog, askVars, pc, op, countVars, histVars>>

(* Mutant: a report is an answer whether or not one is waited for.         *)
AnswersAll == pending \in BOOLEAN

(* A request is pending: this report is its answer.                        *)
Answers == pending

(* hdjbulk_in_urb_complete_steel.  In boot mode a report has no state.     *)
InComplete ==
  /\ wire # <<>>
  /\ wire' = Tail(wire)
  /\ jog' = IF mode = "normal" THEN Head(wire).jog ELSE jog
  /\ IF Answers
       THEN /\ bulk_data' = Looked(Head(wire))
            /\ pending' = FALSE
            /\ done' = done + 1
            /\ filled' = TRUE
            /\ data_old' = (older > 0)
       ELSE UNCHANGED <<pending, done, bulk_data, filled, data_old>>
  /\ older' = IF older > 0 THEN older - 1 ELSE 0
  /\ UNCHANGED <<mode, device, outVars, mutex, pc, op, countVars, unanswered,
                 stale, asked_jog, jog_broken, jog_rushed, chan_raced, said_chan>>

-----------------------------------------------------------------------------
(* The calls.                                                              *)
ToSend(to, word, chan) == [to |-> to, jog |-> word, chan |-> chan]

Overlaps(c, kinds) == \E d \in Client \ {c} : pc[d] # "idle" /\ op[d].kind \in kinds

ChannelFlies == \E command \in flying : command.to = "chan"

Begin(c, kind, phase, command, label) ==
  /\ pc[c] = "idle" /\ calls < MaxCalls
  /\ calls' = calls + 1
  /\ pc' = [pc EXCEPT ![c] = label]
  /\ op' = [op EXCEPT ![c] = [kind |-> kind, phase |-> phase, command |-> command,
                              tries |-> 0, sends |-> 0]]
  /\ jog_broken' = (jog_broken \/ (kind \in JogKinds /\ Overlaps(c, JogKinds)))
  /\ jog_rushed' = (jog_rushed \/ (kind \in JogKinds /\ jog # device.jog))
  /\ IF kind = "chan"
       THEN /\ chan_raced' = (Overlaps(c, {"chan"}) \/ ChannelFlies)
            /\ IF chan_raced'
                 THEN older' = 0 /\ data_old' = FALSE
                 ELSE older' = Len(wire) /\ data_old' = TRUE
            /\ said_chan' = {}
       ELSE UNCHANGED <<chan_raced, older, data_old, said_chan>>
  /\ UNCHANGED <<mode, device, wire, outVars, jog, askVars, reports, failures,
                 filled, unanswered, stale, asked_jog>>

(* In boot mode send_bulk_write refuses: these end where they began.       *)
BeginSet(c, kind, command) ==
  mode = "normal" /\ Begin(c, kind, "set", command, "send")

SetModeShiftState(c) == BeginSet(c, "write", ToSend("other", {}, 1))
SetFxState(c) == BeginSet(c, "write", ToSend("other", {}, 1))

(* The ioctl that sends a packet of LEDs or a request for a report.        *)
SendBulkWrite(c) ==
  \E to \in {"other", "report"} : BeginSet(c, "write", ToSend(to, {}, 1))

(* Mutant: the lock is built on an empty word.                             *)
SetLockAlone(c) ==
  \E on \in SUBSET {"lock"} : BeginSet(c, "lock", ToSend("jog", on, 1))

(* The word in the context with the lock, or with the sensitivity, changed.*)
SetLock(c) ==
  \E on \in SUBSET {"lock"} :
    BeginSet(c, "lock", ToSend("jog", (jog \ {"lock"}) \cup on, 1))

SetSensitivity(c) ==
  \E on \in SUBSET {"sens"} :
    BeginSet(c, "sens", ToSend("jog", (jog \ {"sens"}) \cup on, 1))

(* set_djcontrolsteel_non_volatile_data asks for the serial number first.  *)
SetChannel(c) ==
  \E chan \in Channel :
    Begin(c, "chan", "serial", ToSend("chan", {}, chan), "down")

(* The calls that only ask for a report, each for another part of it.      *)
GetBulkData(c) == Begin(c, "get", "get", ToSend("report", {}, 1), "down")
GetJogParameters(c) == GetBulkData(c)
GetChannel(c) == GetBulkData(c)
GetSerialNumber(c) == GetBulkData(c)
GetFirmwareVersion(c) == mode = "normal" /\ GetBulkData(c)
GetModeShiftState(c) == GetBulkData(c)
GetFxState(c) == GetBulkData(c)

RebootToBootMode(c) == BeginSet(c, "write", ToSend("other", {}, 1))
ExitBootMode(c) ==
  mode = "boot" /\ Begin(c, "exit", "get", ToSend("exit", {}, 1), "down")

IoctlSteel(c) ==
  \/ SetModeShiftState(c) \/ GetModeShiftState(c) \/ SetFxState(c) \/ GetFxState(c)
  \/ RebootToBootMode(c) \/ ExitBootMode(c) \/ SendBulkWrite(c)
ProcSteel(c) ==
  \/ SetModeShiftState(c) \/ GetModeShiftState(c) \/ SetFxState(c) \/ GetFxState(c)
SteelSettings(c) ==
  \/ SetLock(c) \/ SetSensitivity(c) \/ GetJogParameters(c)
  \/ SetChannel(c) \/ GetChannel(c) \/ GetSerialNumber(c) \/ GetFirmwareVersion(c)

-----------------------------------------------------------------------------
(* The steps of a call.                                                    *)
Goto(c, label) == pc' = [pc EXCEPT ![c] = label]
Return(c) == Goto(c, "idle") /\ op' = [op EXCEPT ![c] = NoOp]

Down(c) ==
  /\ pc[c] = "down" /\ mutex = NoOne
  /\ mutex' = c
  /\ filled' = FALSE
  /\ Goto(c, "ask")
  /\ UNCHANGED <<mode, device, wire, outVars, jog, pending, done, bulk_data, op,
                 countVars, unanswered, stale, asked_jog, jog_broken, jog_rushed,
                 chanVars>>

Ask(c) ==
  /\ pc[c] = "ask"
  /\ pending' = TRUE
  /\ op' = [op EXCEPT ![c] = [@ EXCEPT !.sends = 0]]
  /\ Goto(c, "send")
  /\ UNCHANGED <<mode, device, wire, outVars, jog, done, bulk_data, mutex,
                 countVars, histVars>>

CommandOf(c) ==
  IF op[c].phase = "set" \/ op[c].kind = "exit" THEN op[c].command
                                                ELSE ToSend("report", {}, 1)

(* An attempt to get an answer has failed; the next one gives the mutex    *)
(* back only in send_boot_loader_command.                                  *)
Retries(c) == op[c].tries + 1 < MaxRetry

(* Mutant: the last attempt keeps the mutex.                               *)
NextTryNoUp(c) ==
  IF Retries(c)
    THEN /\ op' = [op EXCEPT ![c] = [@ EXCEPT !.tries = op[c].tries + 1, !.sends = 0]]
         /\ Goto(c, IF op[c].kind = "exit" THEN "down" ELSE "ask")
         /\ mutex' = IF op[c].kind = "exit" THEN NoOne ELSE mutex
    ELSE /\ Return(c)
         /\ UNCHANGED mutex

NextTry(c) ==
  IF Retries(c)
    THEN /\ op' = [op EXCEPT ![c] = [@ EXCEPT !.tries = op[c].tries + 1, !.sends = 0]]
         /\ Goto(c, IF op[c].kind = "exit" THEN "down" ELSE "ask")
         /\ mutex' = IF op[c].kind = "exit" THEN NoOne ELSE mutex
    ELSE /\ Return(c)
         /\ mutex' = NoOne

(* The command has gone out, or so it seems.                               *)
SendDone(c) ==
  CASE op[c].phase # "set" -> Goto(c, "wait") /\ UNCHANGED op
    [] op[c].phase = "set" /\ op[c].kind = "chan" ->
         /\ op' = [op EXCEPT ![c] = [@ EXCEPT !.phase = "verify", !.tries = 0]]
         /\ Goto(c, "down")
    [] OTHER -> Return(c)

IsJogSet(c) == op[c].kind \in JogKinds

Reaches(c) == mode = "normal" \/ op[c].kind = "exit"

(* firmware_send_bulk: the device takes the command.                       *)
SendOk(c) ==
  /\ pc[c] = "send" /\ Reaches(c) /\ flying = {} /\ ~out_done
  /\ Takes(CommandOf(c))
  /\ SendDone(c)
  /\ asked_jog' = IF IsJogSet(c)
                   THEN (asked_jog \ {op[c].kind}) \cup (op[c].command.jog \cap {op[c].kind})
                   ELSE asked_jog
  /\ UNCHANGED <<mode, outVars, jog, askVars, countVars, filled, unanswered,
                 stale, jog_broken, jog_rushed, chanVars>>

(* An earlier URB's completion is taken for this one's: the call goes on   *)
(* while the URB is on its way.                                            *)
SendUnawaited(c) ==
  /\ pc[c] = "send" /\ Reaches(c) /\ flying = {} /\ out_done
  /\ flying' = {CommandOf(c)}
  /\ out_done' = FALSE
  /\ SendDone(c)
  /\ jog_broken' = (jog_broken \/ IsJogSet(c))
  /\ UNCHANGED <<mode, device, wire, jog, askVars, countVars, filled, unanswered,
                 stale, asked_jog, jog_rushed, chanVars>>

(* send_bulk_write tries MaxRetry times, send_boot_loader_command once.    *)
SendLimit(c) == IF op[c].kind = "exit" THEN 1 ELSE MaxRetry

SendFailed(c) ==
  /\ IF op[c].sends + 1 < SendLimit(c) /\ Reaches(c)
       THEN /\ op' = [op EXCEPT ![c] = [@ EXCEPT !.sends = op[c].sends + 1]]
            /\ UNCHANGED <<pc, mutex, unanswered>>
       ELSE IF op[c].phase = "set"
              THEN Return(c) /\ UNCHANGED <<mutex, unanswered>>
              ELSE NextTry(c) /\ unanswered' = TRUE
  /\ jog_broken' = (jog_broken \/ IsJogSet(c))

(* A send fails: refused, interrupted, or given up before or after the     *)
(* device took it; an URB that is given up completes as it is killed.      *)
SendFails(c) ==
  /\ pc[c] = "send" /\ Reaches(c) /\ flying = {} /\ ~out_done
  /\ failures < MaxFailures
  /\ failures' = failures + 1
  /\ Takes(CommandOf(c)) \/ UNCHANGED <<device, wire>>
  /\ out_done' \in BOOLEAN
  /\ SendFailed(c)
  /\ UNCHANGED <<mode, flying, jog, pending, done, bulk_data, calls, reports,
                 filled, stale, asked_jog, jog_rushed, chanVars>>

(* The URB is still on its way: it is filled again, and not submitted.     *)
SendBusy(c) ==
  /\ pc[c] = "send" /\ Reaches(c) /\ flying # {}
  /\ flying' \in {flying, {CommandOf(c)}}
  /\ SendFailed(c)
  /\ UNCHANGED <<mode, device, wire, out_done, jog, pending, done, bulk_data,
                 countVars, filled, stale, asked_jog, jog_rushed, chanVars>>

(* In boot mode send_bulk_write refuses.                                   *)
SendRefused(c) ==
  /\ pc[c] = "send" /\ ~Reaches(c)
  /\ SendFailed(c)
  /\ UNCHANGED <<mode, device, wire, outVars, jog, pending, done, bulk_data,
                 countVars, filled, stale, asked_jog, jog_rushed, chanVars>>

WaitDone(c) ==
  /\ pc[c] = "wait" /\ done > 0
  /\ done' = done - 1
  /\ Goto(c, "copy")
  /\ UNCHANGED <<mode, device, wire, outVars, jog, pending, bulk_data, mutex, op,
                 countVars, histVars>>

(* 50 ms without an answer, because it is late or because none comes.      *)
WaitTimesOut(c) ==
  /\ pc[c] = "wait" /\ done = 0
  /\ \/ failures < MaxFailures /\ failures' = failures + 1
     \/ wire = <<>> /\ flying = {} /\ UNCHANGED failures
  /\ unanswered' = TRUE
  /\ NextTry(c)
  /\ UNCHANGED <<mode, device, wire, outVars, jog, pending, done, bulk_data,
                 calls, reports, filled, stale, asked_jog, jog_broken, jog_rushed,
                 chanVars>>

(* Mutant: the report that should verify the write is not looked at.       *)
AsWritten(c) == op[c].command.chan \in Channel

Verified(c) == bulk_data.chan = op[c].command.chan

(* The answer is copied, and the mutex given back.                         *)
Copy(c) ==
  /\ pc[c] = "copy"
  /\ stale' = (stale \/ ~filled)
  /\ CASE op[c].phase = "serial" ->
            /\ op' = [op EXCEPT ![c] = [@ EXCEPT !.phase = "set", !.sends = 0]]
            /\ Goto(c, "send") /\ mutex' = NoOne
       [] op[c].phase = "get" /\ op[c].kind = "exit" /\ ~bulk_data.good -> NextTry(c)
       [] OTHER -> Return(c) /\ mutex' = NoOne
  /\ IF op[c].phase = "verify"
       THEN /\ said_chan' = IF Verified(c) /\ ~data_old THEN {op[c].command.chan} ELSE {}
            /\ older' = 0 /\ data_old' = FALSE
       ELSE UNCHANGED <<said_chan, older, data_old>>
  /\ UNCHANGED <<mode, device, wire, outVars, jog, pending, done, bulk_data,
                 countVars, filled, unanswered, asked_jog, jog_broken, jog_rushed,
                 chan_raced>>

Step(c) ==
  \/ Ask(c) \/ SendOk(c) \/ SendUnawaited(c) \/ SendFails(c) \/ SendBusy(c)
  \/ SendRefused(c) \/ WaitDone(c) \/ WaitTimesOut(c) \/ Copy(c)

Next ==
  \/ \E c \in Client : IoctlSteel(c) \/ ProcSteel(c) \/ SteelSettings(c)
  \/ \E c \in Client : Down(c) \/ Step(c)
  \/ Unasked \/ LateTake \/ InComplete

(* Reports that have been sent come in, an URB ends by its completion or   *)
(* its kill, and a semaphore wakes the threads that wait in their order.   *)
Fairness ==
  /\ WF_vars(InComplete) /\ WF_vars(LateTake)
  /\ \A c \in Client : WF_vars(Step(c)) /\ SF_vars(Down(c))

Spec == Init /\ [][Next]_vars /\ Fairness

-----------------------------------------------------------------------------
(* A call is answered by a report that came in while it had the mutex,     *)
(* until an attempt has ended without its answer: then the completion      *)
(* that is left over makes every later call take the answer before its own.*)
AnswerFromThisCall == stale => unanswered

(* A channel that set_djcontrolsteel_non_volatile_data says it has stored  *)
(* and verified is the device's from then on, also when a write was lost   *)
(* on the way or failed after the device took it, whatever the other calls *)
(* do, and if no other call that sets the channel overlapped or had left   *)
(* its command in the URB.  A report that was on the wire before the call  *)
(* may verify what was not written; such an answer is not said_chan.       *)
StoredAsSaid == ~chan_raced => said_chan \subseteq {device.chan}

(* The lock and the sensitivity are what the calls asked, if every call    *)
(* found the word of the one before it reported.                           *)
NoJogCall == \A c \in Client : pc[c] # "idle" => op[c].kind \notin JogKinds
JogKeptIfReported ==
  NoJogCall /\ ~jog_broken /\ ~jog_rushed => device.jog = asked_jog

(* Every call returns, however many answers are lost: no client stays in   *)
(* the driver for ever.                                                    *)
EveryCallReturns == \A c \in Client : []<>(pc[c] = "idle")
=============================================================================
