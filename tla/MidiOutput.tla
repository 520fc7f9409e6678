------------------------------ MODULE MidiOutput ------------------------------
(***************************************************************************)
(* The way of a client's MIDI bytes to the device (midirender.c): the      *)
(* client fills ALSA's buffer and triggers; snd_hdjmidi_do_output, run by  *)
(* a tasklet, the completion of the URB or a timer, empties it into the    *)
(* one URB of the endpoint.  The power callbacks stop it in midi.c.  Of    *)
(* the bytes in ALSA's buffer only the number is kept; what they are shows *)
(* when they are taken.                                                    *)
(***************************************************************************)
EXTENDS MidiBytes

CONSTANTS
  Room,        \* bytes ALSA's buffer holds
  MaxTransfer, \* ep->max_transfer
  MaxUpsets    \* bound: sleeps, and transfers and submissions that fail

ASSUME RoomAssumption == Room \in Nat \ {0}
ASSUME TransferAssumption == MaxTransfer \in Nat /\ MaxTransfer > 3
ASSUME UpsetAssumption == MaxUpsets \in Nat

VARIABLES
  pending,      \* bytes in ALSA's buffer
  active,       \* port->active
  client,       \* where the client is in a write: "write", then its trigger
  urb_active,   \* ep->urb_active
  filled,       \* urb->transfer_buffer_length
  flight,       \* the URB is with the host controller
  status,       \* urb->status
  handler,      \* where its completion handler is
  tasklet,      \* ep->tasklet is scheduled
  delay_timer,  \* render_delay_timer is pending
  error_timer,  \* umidi->error_timer is pending
  too_early,    \* jiffies is before last_send_time, if that matters
  output,       \* where do_output is: it runs under buffer_lock
  runner,       \* who runs it
  throttled,    \* the product is the DJ Control MP3
  forbidden,    \* no_urb_submission
  shutdown,
  power,        \* how far suspend or disconnect has come
  upsets,       \* history: what the bound counts
  overtaken,    \* history: a trigger came before its predecessor's end
  excused       \* history: a sleep or an error since the last trigger

clientVars == <<pending, active, client>>
urbVars    == <<urb_active, filled, flight, status>>
runVars    == <<tasklet, delay_timer, error_timer, too_early, output, runner>>
chipVars   == <<throttled, forbidden, shutdown, power>>
ghostVars  == <<upsets, overtaken, excused>>
vars == <<byteVars, clientVars, urbVars, handler, runVars, chipVars, ghostVars>>

TypeOK ==
  /\ ByteTypeOK
  /\ pending \in 0..Room
  /\ client \in {"closed", "idle", "written", "up", "allowed"}
  /\ {active, urb_active, flight, tasklet, delay_timer, error_timer, too_early,
      throttled, forbidden, shutdown, overtaken, excused} \subseteq BOOLEAN
  /\ filled \in 0..MaxTransfer
  /\ status \in {"ok", "error", "unlinked", "in progress"}
  /\ handler \in {"none", "done", "look", "output"}
  /\ output \in {"idle", "fill", "loop", "empty", "send", "submit"}
  /\ runner \in {"none", "tasklet", "handler", "delay", "error"}
  /\ power \in {"on", "timer", "tasklet", "kill", "asleep",
               "gone timer", "gone kill", "gone tasklet", "gone"}
  /\ upsets \in 0..MaxUpsets

Init ==
  /\ ByteInit
  /\ pending = 0 /\ active = FALSE /\ client = "closed"
  /\ urb_active = FALSE /\ filled = 0 /\ flight = FALSE /\ status = "ok"
  /\ handler = "none"
  /\ tasklet = FALSE /\ delay_timer = FALSE /\ error_timer = FALSE /\ too_early = FALSE
  /\ output = "idle" /\ runner = "none"
  /\ throttled \in BOOLEAN /\ forbidden = FALSE /\ shutdown = FALSE /\ power = "on"
  /\ upsets = 0
  /\ overtaken = FALSE /\ excused = FALSE

-----------------------------------------------------------------------------
(* The client, through ALSA.  To open counts as to send for the throttle.  *)
Open ==
  /\ client = "closed" /\ ~shutdown /\ client' = "idle"
  /\ OutputOpen
  /\ too_early' = throttled
  /\ UNCHANGED <<pending, active, urbVars, handler, tasklet, delay_timer, error_timer,
                 output, runner, chipVars, ghostVars>>

(* ALSA has the device drain the buffer and then stops it, or only stops   *)
(* it; what is left then goes.                                             *)
Close ==
  /\ client = "idle" /\ client' = "closed"
  /\ pending' = 0 /\ active' = FALSE
  /\ UNCHANGED <<byteVars, urbVars, handler, runVars, chipVars, ghostVars>>

Write ==
  /\ client = "idle" /\ client' = "written"
  /\ \E n \in 1..(Room - pending) : pending' = pending + n
  /\ UNCHANGED <<byteVars, active, urbVars, handler, runVars, chipVars, ghostVars>>

(* snd_hdjmidi_output_trigger(substream, 1).                               *)
TriggerUp ==
  /\ client = "written" /\ client' = "up"
  /\ active' = TRUE
  /\ UNCHANGED <<byteVars, pending, urbVars, handler, runVars, chipVars, ghostVars>>

(* After a disconnect the bytes are swallowed, for those who drain.        *)
TriggerLooks ==
  /\ client = "up"
  /\ client' = IF shutdown \/ forbidden THEN "idle" ELSE "allowed"
  /\ pending' = IF shutdown THEN 0 ELSE pending
  /\ UNCHANGED <<byteVars, active, urbVars, handler, runVars, chipVars, ghostVars>>

TriggerSchedules ==
  /\ client = "allowed" /\ client' = "idle"
  /\ tasklet' = TRUE
  /\ overtaken' = (pending > 0 /\ ~active)
  /\ excused' = (forbidden \/ power # "on")
  /\ UNCHANGED <<byteVars, pending, active, urbVars, handler, delay_timer, error_timer,
                 too_early, output, runner, chipVars, upsets>>

-----------------------------------------------------------------------------
(* snd_hdjmidi_do_output, under buffer_lock.                               *)
Leave == output' = "idle" /\ runner' = "none"

(* Mutant: does not look whether the URB is on its way.                    *)
EnterAnyway ==
  /\ UNCHANGED <<delay_timer, filled>>
  /\ IF shutdown THEN Leave ELSE output' = "fill"

Enter ==
  IF urb_active \/ shutdown
    THEN Leave /\ UNCHANGED <<delay_timer, filled>>
    ELSE IF throttled /\ too_early
      THEN delay_timer' = TRUE /\ Leave /\ UNCHANGED filled
      ELSE filled' = 0 /\ output' = "fill" /\ UNCHANGED delay_timer

(* A tasklet runs, or a timer, or the handler goes on: each takes the lock *)
(* and looks.  Nobody keeps render_delay_timer from doing so in a sleep.   *)
RunTasklet ==
  /\ tasklet /\ output = "idle"
  /\ tasklet' = FALSE
  /\ Enter
  /\ runner' = IF output' = "idle" THEN "none" ELSE "tasklet"
  /\ UNCHANGED <<byteVars, clientVars, urb_active, flight, status, handler, error_timer,
                 too_early, chipVars, ghostVars>>

DelayTimerFires ==
  /\ delay_timer /\ output = "idle"
  /\ IF urb_active \/ shutdown \/ too_early
       THEN /\ delay_timer' = (~urb_active /\ ~shutdown)
            /\ UNCHANGED <<output, runner, filled>>
       ELSE /\ delay_timer' = FALSE /\ filled' = 0
            /\ output' = "fill" /\ runner' = "delay"
  /\ UNCHANGED <<byteVars, clientVars, urb_active, flight, status, handler, tasklet,
                 error_timer, too_early, chipVars, ghostVars>>

ErrorTimerFires ==
  /\ error_timer /\ output = "idle"
  /\ error_timer' = FALSE
  /\ Enter
  /\ runner' = IF output' = "idle" THEN "none" ELSE "error"
  /\ UNCHANGED <<byteVars, clientVars, urb_active, flight, status, handler, tasklet,
                 too_early, chipVars, ghostVars>>

(* snd_hdjmidi_standard_output: takes bytes while a packet still fits.     *)
Fits == filled + 3 < MaxTransfer
FitsWithout == filled < MaxTransfer \* Mutant: no room for a whole packet.

Take ==
  /\ output = "loop" /\ Fits /\ pending > 0
  /\ pending' = pending - 1
  /\ \E b \in Bytes : snd_hdjmidi_transmit_byte(b)
  /\ filled' = filled + Len(packet')
  /\ UNCHANGED <<active, client, urb_active, flight, status, handler, runVars, chipVars,
                 ghostVars>>

FindEmpty ==
  /\ output = "loop" /\ Fits /\ pending = 0
  /\ output' = "empty"
  /\ UNCHANGED <<byteVars, clientVars, urbVars, handler, tasklet, delay_timer, error_timer,
                 too_early, runner, chipVars, ghostVars>>

(* A trigger may have come since the buffer was found empty: its active    *)
(* is then wiped out.                                                      *)
NoLongerActive ==
  /\ output = "empty" /\ output' = "send"
  /\ active' = FALSE
  /\ overtaken' = (overtaken \/ pending > 0)
  /\ UNCHANGED <<byteVars, pending, client, urbVars, handler, tasklet, delay_timer,
                 error_timer, too_early, runner, chipVars, upsets, excused>>

Fill ==
  /\ \/ output = "fill" /\ output' = IF active THEN "loop" ELSE "send"
     \/ output = "loop" /\ ~Fits /\ output' = "send"
  /\ UNCHANGED <<byteVars, clientVars, urbVars, handler, tasklet, delay_timer, error_timer,
                 too_early, runner, chipVars, ghostVars>>

(* snd_hdjmidi_submit_urb: a look at the chip, then the submission.  What  *)
(* is refused is lost, whoever refuses it.                                 *)
Refused == urb_active' = FALSE /\ too_early' = throttled /\ Leave

(* Mutant: asks after the transfer only.                                   *)
NothingToSend == filled = 0 /\ Leave /\ UNCHANGED <<urb_active, too_early>>

Look ==
  /\ output = "send"
  /\ \/ NothingToSend
     \/ filled > 0 /\ (forbidden \/ shutdown) /\ Refused
     \/ /\ filled > 0 /\ ~forbidden /\ ~shutdown
        /\ output' = "submit" /\ UNCHANGED <<runner, urb_active, too_early>>
  /\ excused' = (excused \/ (output' = "idle" /\ filled > 0))
  /\ UNCHANGED <<byteVars, clientVars, filled, flight, status, handler, tasklet,
                 delay_timer, error_timer, chipVars, upsets, overtaken>>

Submit ==
  /\ output = "submit" /\ ~flight
  /\ flight' = TRUE /\ status' = "in progress"
  /\ urb_active' = TRUE /\ too_early' = throttled
  /\ Leave
  /\ UNCHANGED <<byteVars, clientVars, filled, handler, tasklet, delay_timer,
                 error_timer, chipVars, ghostVars>>

(* An URB the host controller still has is refused, and any may be.        *)
SubmitFails ==
  /\ output = "submit"
  /\ IF flight THEN UNCHANGED <<upsets, excused>>
       ELSE upsets < MaxUpsets /\ upsets' = upsets + 1 /\ excused' = TRUE
  /\ Refused
  /\ UNCHANGED <<byteVars, clientVars, filled, flight, status, handler, tasklet,
                 delay_timer, error_timer, chipVars, overtaken>>

DoOutput == Fill \/ Take \/ FindEmpty \/ NoLongerActive \/ Look \/ Submit \/ SubmitFails

-----------------------------------------------------------------------------
(* snd_hdjmidi_out_urb_complete, hid_ctrl_complete.                        *)
Complete ==
  /\ flight /\ handler = "none"
  /\ flight' = FALSE
  /\ \/ status' = "ok" /\ UNCHANGED <<upsets, excused>>
     \/ /\ upsets < MaxUpsets /\ upsets' = upsets + 1
        /\ status' = "error" /\ excused' = TRUE
  /\ handler' = "done"
  /\ UNCHANGED <<byteVars, clientVars, urb_active, filled, runVars, chipVars,
                 overtaken>>

(* Mutant: the URB is free again only when the handler has looked at it.   *)
HandlerFreesLate ==
  /\ handler = "done" /\ output = "idle"
  /\ handler' = "look"
  /\ UNCHANGED <<byteVars, clientVars, urbVars, runVars, chipVars, ghostVars>>

HandlerFrees ==
  /\ handler = "done" /\ output = "idle"
  /\ urb_active' = FALSE
  /\ handler' = "look"
  /\ UNCHANGED <<byteVars, clientVars, filled, flight, status, runVars, chipVars,
                 ghostVars>>

(* By now the URB may be on its way again, with a status to match.         *)
HandlerLooks ==
  /\ handler = "look"
  /\ IF status \in {"ok", "in progress"}
       THEN handler' = "output" /\ UNCHANGED <<excused, error_timer>>
       ELSE /\ handler' = "none" /\ excused' = TRUE
            /\ error_timer' = (error_timer \/ (status = "error" /\ forbidden))
  /\ UNCHANGED <<byteVars, clientVars, urbVars, tasklet, delay_timer, too_early, output,
                 runner, chipVars, upsets, overtaken>>

HandlerOutputs ==
  /\ handler = "output" /\ output = "idle"
  /\ handler' = "none"
  /\ Enter
  /\ runner' = IF output' = "idle" THEN "none" ELSE "handler"
  /\ UNCHANGED <<byteVars, clientVars, urb_active, flight, status, tasklet, error_timer,
                 too_early, chipVars, ghostVars>>

TimePasses ==
  /\ too_early
  /\ too_early' = FALSE
  /\ UNCHANGED <<byteVars, clientVars, urbVars, handler, tasklet, delay_timer,
                 error_timer, output, runner, chipVars, ghostVars>>

-----------------------------------------------------------------------------
(* Power and disconnect (device.c, snd_hdjmidi_suspend, _resume and        *)
(* _disconnect).                                                           *)
Suspend ==
  /\ power = "on" /\ upsets < MaxUpsets
  /\ upsets' = upsets + 1
  /\ power' = "timer" /\ forbidden' = TRUE
  /\ excused' = TRUE
  /\ UNCHANGED <<byteVars, clientVars, urbVars, handler, runVars, throttled, shutdown,
                 overtaken>>

(* del_timer_sync, which waits for the timer's function.                   *)
DelErrorTimer ==
  /\ power \in {"timer", "gone timer"} /\ runner # "error"
  /\ error_timer' = FALSE
  /\ power' = IF power = "timer" THEN "tasklet" ELSE "gone kill"
  /\ UNCHANGED <<byteVars, clientVars, urbVars, handler, tasklet, delay_timer, too_early,
                 output, runner, throttled, forbidden, shutdown, ghostVars>>

(* tasklet_kill: lets a scheduled tasklet run, and waits for it.           *)
KillTasklet ==
  /\ power \in {"tasklet", "gone tasklet"}
  /\ ~tasklet /\ runner # "tasklet"
  /\ power' = IF power = "tasklet" THEN "kill" ELSE "gone"
  /\ UNCHANGED <<byteVars, clientVars, urbVars, handler, runVars, throttled, forbidden,
                 shutdown, ghostVars>>

(* usb_kill_urb, by snd_hdjmidi_output_kill_urbs: unlinks the URB and      *)
(* waits for its handler, which goes through do_output.                    *)
KillUrb ==
  /\ power \in {"kill", "gone kill"}
  /\ \/ /\ flight /\ handler = "none"
        /\ flight' = FALSE /\ status' = "unlinked" /\ handler' = "done"
        /\ UNCHANGED power
     \/ /\ ~flight /\ handler = "none" /\ runner # "handler"
        /\ power' = IF power = "kill" THEN "asleep" ELSE "gone tasklet"
        /\ UNCHANGED <<flight, status, handler>>
  /\ UNCHANGED <<byteVars, clientVars, urb_active, filled, runVars, throttled, forbidden,
                 shutdown, upsets, overtaken, excused>>

(* Input is started again; output waits for the next trigger.              *)
Resume ==
  /\ power = "asleep"
  /\ power' = "on" /\ forbidden' = FALSE
  /\ UNCHANGED <<byteVars, clientVars, urbVars, handler, runVars, throttled, shutdown,
                 ghostVars>>

(* The last reference to the chip is given back.                           *)
Disconnect ==
  /\ power = "on"
  /\ power' = "gone timer" /\ shutdown' = TRUE /\ excused' = TRUE
  /\ UNCHANGED <<byteVars, clientVars, urbVars, handler, runVars, throttled, forbidden,
                 upsets, overtaken>>

PowerStep == DelErrorTimer \/ KillTasklet \/ KillUrb

Renumber ==
  /\ \E c \in Channels : SetChannel(c)
  /\ UNCHANGED <<clientVars, urbVars, handler, runVars, chipVars, ghostVars>>

Trigger == TriggerUp \/ TriggerLooks \/ TriggerSchedules
Handler == HandlerFrees \/ HandlerLooks \/ HandlerOutputs

Next ==
  \/ Open \/ Close \/ Write \/ Trigger
  \/ RunTasklet \/ DelayTimerFires \/ ErrorTimerFires \/ DoOutput
  \/ Complete \/ Handler \/ TimePasses
  \/ Suspend \/ PowerStep \/ Resume \/ Disconnect
  \/ Renumber

Spec == Init /\ [][Next]_vars

(* States that differ only in what nothing reads any more are one to TLC.  *)
LiveState ==
  <<state, dueVars, channel, clientVars, urb_active, flight, handler,
    runVars, chipVars, ghostVars,
    state \in {"1PARAM", "2PARAM_1", "2PARAM_2"} /\ renumbered,
    IF state \in {"UNKNOWN", "SYSEX_0"} THEN 0 ELSE data0,
    IF state \in {"2PARAM_2", "SYSEX_2"} THEN data1 ELSE 0,
    IF output \in {"idle", "submit"} THEN 0 ELSE filled,
    IF flight \/ handler = "none" THEN "ok" ELSE status>>

-----------------------------------------------------------------------------
(* The URB is not touched while the host controller has it.                *)
UrbUntouchedInFlight == output # "idle" => ~flight

(* Bytes that have been taken are handed to the host controller, unless    *)
(* the device sleeps or is gone, or the submission itself fails: never     *)
(* because the URB is still on its way with earlier ones.                  *)
ThrownAway ==
  /\ output \in {"send", "submit"} /\ output' = "idle"
  /\ filled > 0 /\ ~urb_active'
LostForAReason ==
  [][ThrownAway => forbidden \/ shutdown \/ upsets' > upsets]_vars

(* When everything is quiet no bytes are left, unless a trigger came just  *)
(* as do_output found the buffer empty, or the device slept or a transfer  *)
(* failed since the last trigger.                                          *)
Quiet ==
  /\ client \in {"closed", "idle"} /\ output = "idle" /\ handler = "none"
  /\ ~tasklet /\ ~delay_timer /\ ~error_timer /\ ~flight /\ power = "on"
NothingLeftBehind == Quiet /\ pending > 0 => overtaken \/ excused
-----------------------------------------------------------------------------
(* What is inductive.  Bytes in ALSA's buffer have somebody who will see   *)
(* to them: the client that has yet to trigger, a tasklet or a timer that  *)
(* is pending, do_output itself unless it has found nothing to send, or    *)
(* the URB, whose handler comes back for more.                             *)
AtWork ==
  \/ client \in {"written", "up", "allowed"}
  \/ tasklet \/ delay_timer \/ flight \/ handler # "none"
  \/ output \in {"fill", "loop", "empty", "submit"}
  \/ output = "send" /\ filled > 0

Within == pending \in 0..Room /\ filled \in 0..MaxTransfer
UrbInv ==
  /\ output # "idle" => ~urb_active
  /\ flight => urb_active
  /\ handler = "done" => urb_active /\ ~flight
  /\ urb_active => flight \/ handler = "done"
  /\ upsets \in Nat
PowerExcuses ==
  /\ shutdown => power \in {"gone timer", "gone kill", "gone tasklet", "gone"}
  /\ forbidden \/ power # "on" => excused
Activated == pending > 0 /\ ~active => overtaken \/ client = "written"
SeenTo == pending > 0 => overtaken \/ excused \/ AtWork
LeftInv == Within /\ UrbInv /\ PowerExcuses /\ Activated /\ SeenTo
=============================================================================
