--------------------------- MODULE DeviceSettings ---------------------------
(***************************************************************************)
(* The cached device settings of configuration_manager.c: a word per       *)
(* setting in the device, a copy of it in the device context, and the      *)
(* notifications that tell clients of a change.  Clients reach them        *)
(* through ioctl (bulk.c) and /proc (device.c); the probe of the           *)
(* interfaces sets the configuration of a DJ Console as well, and a change *)
(* of its MIDI bit goes on to midi.c.  A vendor request is one step here   *)
(* (VendorRequest models it): it may fail, and a write that fails by its   *)
(* timeout may still have reached the device.                              *)
(*                                                                         *)
(* A word is the set of its bits that are on.  Talkover of the Mk2 and of  *)
(* the Rmx is module Talkover.                                             *)
(***************************************************************************)
EXTENDS Integers

CONSTANTS
  Client,   \* threads in ioctl and in /proc handlers
  Probe,    \* the thread that probes the interfaces
  NoOne,    \* nobody has device_config_mutex
  MaxCalls  \* bound: calls the clients begin

ASSUME ClientAssumption == Probe \notin Client /\ NoOne \notin Client \cup {Probe}
ASSUME MaxCallsAssumption == MaxCalls \in Nat

Thread  == Client \cup {Probe}
Product == {"djc", "mk2", "rmx"}

SettingsOf(p) ==
  CASE p = "djc" -> {"device_config", "sample_rate"}
    [] p = "mk2" -> {"audio_config", "sample_rate", "crossfader_lock", "crossfader_style"}
    [] p = "rmx" -> {"audio_config", "sample_rate", "jog_lock", "jog_sensitivity"}

Setting == UNION {SettingsOf(p) : p \in Product}

(* The bits the properties tell apart.  device_config: MIDI_IN_BUTTONS,    *)
(* the talkover attenuation and its enable bit.  A lock has a bit per      *)
(* deck.  The others have two values.                                      *)
Bits(s) ==
  CASE s = "device_config" -> {"midi", "att", "enable"}
    [] s = "audio_config"  -> {"asio", "loop"}
    [] s = "jog_lock"      -> {"bit0", "bit8"}
    [] OTHER               -> {"value"}

AllBits == UNION {Bits(s) : s \in Setting}
TalkoverBits == {"att", "enable"}

VARIABLES
  product,      \* chip->product_code
  device,       \* the word of each setting in the device
  cache,        \* the atomic_t of each setting in the device context
  told,         \* the word of each setting in its last notification
  config_mutex, \* the owner of device_config_mutex
  midi_mode,    \* umidi->midi_mode
  device_midi,  \* the MIDI input the device runs
  probed,       \* interfaces of a DJ Console whose objects exist
  pc,           \* the step of each thread
  op,           \* the locals of each thread's call
  calls,        \* history: calls the clients have begun
  asked,        \* history: the configuration the successful calls asked for
  spoiled,      \* history: the cache may differ from the device
  mistold,      \* history: the last notification may differ from the device
  unsettled     \* history: the MIDI mode may differ from the configuration

midiVars == <<midi_mode, device_midi, probed, unsettled>>
histVars == <<asked, spoiled, mistold>>
vars == <<product, device, cache, told, config_mutex, midiVars, pc, op, calls,
          histVars>>

Label == {"idle", "down", "send", "store", "stop", "start", "notify", "ask",
          "keep", "stopgap"}

(* The labels at which a thread has device_config_mutex, when its call is  *)
(* about the configuration.                                                *)
Holding == {"send", "store", "stop", "start", "notify"}

Op == [setting : Setting, value : SUBSET AllBits, mask : SUBSET AllBits,
       old : SUBSET AllBits, tell : SUBSET AllBits, failed : BOOLEAN,
       alone : BOOLEAN]
NoOp == [setting |-> "sample_rate", value |-> {}, mask |-> {}, old |-> {},
         tell |-> {}, failed |-> FALSE, alone |-> TRUE]

TypeOK ==
  /\ product \in Product
  /\ device \in [Setting -> SUBSET AllBits]
  /\ cache \in [Setting -> SUBSET AllBits]
  /\ told \in [Setting -> SUBSET AllBits]
  /\ config_mutex \in Thread \cup {NoOne}
  /\ midi_mode \in {"controller", "physical"}
  /\ device_midi \in {"none", "controller", "physical"}
  /\ probed \subseteq {"bulk", "midi"}
  /\ pc \in [Thread -> Label]
  /\ op \in [Thread -> Op]
  /\ calls \in 0..MaxCalls
  /\ asked \subseteq AllBits
  /\ spoiled \in [Setting -> BOOLEAN]
  /\ mistold \in [Setting -> BOOLEAN]
  /\ unsettled \in BOOLEAN

(* hdjbulk_init_dj_* have read every setting the device can tell; the      *)
(* configuration and the crossfader style it cannot.                       *)
Unreadable == {"device_config", "crossfader_style"}

Init ==
  /\ product \in Product
  /\ cache = [s \in Setting |-> {}]
  /\ \E style \in SUBSET Bits("crossfader_style") :
       device = [s \in Setting |-> IF s = "crossfader_style" THEN style ELSE {}]
  /\ told = cache
  /\ config_mutex = NoOne
  /\ midi_mode = "controller"
  /\ device_midi = "none"
  /\ probed = IF product = "djc" THEN {} ELSE {"bulk", "midi"}
  /\ pc = [t \in Thread |-> "idle"]
  /\ op = [t \in Thread |-> NoOp]
  /\ calls = 0
  /\ asked = {}
  /\ spoiled = [s \in Setting |-> s \in Unreadable]
  /\ mistold = [s \in Setting |-> TRUE]
  /\ unsettled = TRUE

-----------------------------------------------------------------------------
(* The loops over the bits of a mask.                                      *)
Merged(word, value, mask) == (word \ mask) \cup (value \cap mask)

(* The common format of a jog wheel lock has deck A in bit 0 and deck B in *)
(* bit 8, the native one of the Rmx the other way round.                   *)
Swapped(lock) == {IF b = "bit0" THEN "bit8" ELSE "bit0" : b \in lock}
ToNativeLock(lock) == Swapped(lock \cap Bits("jog_lock"))
ToCommonLock(lock) == Swapped(lock)
Common(s, word) == IF s = "jog_lock" THEN ToCommonLock(word) ELSE word

(* What /proc and ioctl show of the configuration, from the cache.         *)
ShownConfig(include_to) ==
  IF include_to THEN cache["device_config"]
                ELSE cache["device_config"] \ TalkoverBits

(* get_sample_rate without a query of the hardware looks for the Mk2 and   *)
(* the Rmx and names the DJ Console twice.                                 *)
CachedSampleRate == IF product \in {"djc", "rmx"} THEN cache["sample_rate"] ELSE {}

CachedAnswer(s) ==
  CASE s = "sample_rate"   -> CachedSampleRate
    [] s = "device_config" -> ShownConfig(TRUE)
    [] OTHER               -> Common(s, cache[s])

Busy(s) == \E t \in Thread : pc[t] # "idle" /\ op[t].setting = s

Goto(t, label) == pc' = [pc EXCEPT ![t] = label]

(* A thread enters a function of the configuration manager.  Calls on a    *)
(* setting with no mutex overlap if another is at work on it.              *)
Begin(t, s, value, mask, tell, label) ==
  /\ pc[t] = "idle"
  /\ s \in SettingsOf(product)
  /\ Goto(t, label)
  /\ op' = [u \in Thread |->
       IF u = t
         THEN [NoOp EXCEPT !.setting = s, !.value = value, !.mask = mask,
                           !.tell = tell,
                           !.alone = s = "device_config" \/ ~Busy(s)]
         ELSE IF pc[u] # "idle" /\ op[u].setting = s /\ s # "device_config"
                THEN [op[u] EXCEPT !.alone = FALSE] ELSE op[u]]

Return(t) == Goto(t, "idle") /\ op' = [op EXCEPT ![t] = NoOp]

-----------------------------------------------------------------------------
(* The functions the clients call.                                         *)
ClientBegin(c, s, value, mask, tell, label) ==
  /\ c \in Client /\ calls < MaxCalls /\ "bulk" \in probed
  /\ Begin(c, s, value, mask, tell, label)
  /\ calls' = calls + 1
  /\ UNCHANGED <<product, device, cache, told, config_mutex, midiVars, histVars>>

SetWhole(c, s, v) == ClientBegin(c, s, v, Bits(s), v, "send")
Get(c, s) == ClientBegin(c, s, {}, Bits(s), {}, "ask")

SetJogLock(c) ==
  \E lock \in SUBSET Bits("jog_lock") :
    ClientBegin(c, "jog_lock", ToNativeLock(lock), Bits("jog_lock"), lock, "send")

GetJogLock(c) == Get(c, "jog_lock")

SetJogSensitivity(c) ==
  \E v \in SUBSET Bits("jog_sensitivity") : SetWhole(c, "jog_sensitivity", v)

GetJogSensitivity(c) == Get(c, "jog_sensitivity")

(* The old word is read from the cache, without a mutex; the mask goes to  *)
(* the device with the word.                                               *)
SetAudioConfig(c) ==
  \E mask \in SUBSET Bits("audio_config") : \E v \in SUBSET mask :
    LET word == Merged(cache["audio_config"], v, mask)
    IN  ClientBegin(c, "audio_config", word, mask, word, "send")

GetAudioConfig(c) == Get(c, "audio_config")

(* Only a DJ Console has a writable sample rate.                           *)
SetSampleRate(c) ==
  /\ product = "djc"
  /\ \E v \in SUBSET Bits("sample_rate") : SetWhole(c, "sample_rate", v)

GetSampleRate(c) == Get(c, "sample_rate")

SetCrossfaderLock(c) ==
  \E v \in SUBSET Bits("crossfader_lock") : SetWhole(c, "crossfader_lock", v)

GetCrossfaderLock(c) == Get(c, "crossfader_lock")

SetCrossfaderStyle(c) ==
  \E v \in SUBSET Bits("crossfader_style") : SetWhole(c, "crossfader_style", v)

(* set_djconsole_device_config up to its mutex.  ioctl and /proc have the  *)
(* talkover bits taken out of what they ask.                               *)
SetConfig(c) ==
  \E mask \in SUBSET (Bits("device_config") \ TalkoverBits) : \E v \in SUBSET mask :
    ClientBegin(c, "device_config", v, mask, {}, "down")

(* set_talkover_att and set_talkover_enable on a DJ Console: the word is   *)
(* read from the cache outside the mutex, and only the attenuation is in   *)
(* the mask.                                                               *)
SetTalkover(c) ==
  \E att \in SUBSET {"att"} :
    ClientBegin(c, "device_config", (cache["device_config"] \ {"att"}) \cup att,
                {"att"}, {}, "down")

(* The ioctls and the /proc files that lead to them.                       *)
IoctlJogWheel(c) ==
  SetJogLock(c) \/ GetJogLock(c) \/ SetJogSensitivity(c) \/ GetJogSensitivity(c)
IoctlConfig(c) == SetConfig(c) \/ SetAudioConfig(c) \/ GetAudioConfig(c)
IoctlSampleRate(c) == SetSampleRate(c)
IoctlCrossfader(c) == SetCrossfaderLock(c) \/ SetCrossfaderStyle(c)

ProcJogWheel(c) ==
  SetJogLock(c) \/ GetJogLock(c) \/ SetJogSensitivity(c) \/ GetJogSensitivity(c)
ProcTalkover(c) == SetTalkover(c)
ProcConfig(c) == SetConfig(c) \/ SetAudioConfig(c) \/ GetAudioConfig(c)
ProcSampleRate(c) == SetSampleRate(c) \/ GetSampleRate(c)
ProcCrossfader(c) ==
  SetCrossfaderLock(c) \/ GetCrossfaderLock(c) \/ SetCrossfaderStyle(c)

Call(c) ==
  \/ IoctlJogWheel(c)   \/ ProcJogWheel(c)
  \/ IoctlConfig(c)     \/ ProcConfig(c)     \/ ProcTalkover(c)
  \/ IoctlSampleRate(c) \/ ProcSampleRate(c)
  \/ IoctlCrossfader(c) \/ ProcCrossfader(c)

-----------------------------------------------------------------------------
(* The steps of a call.                                                    *)

(* Mutant: nobody waits for the mutex.                                     *)
ConfigDownOpen(t) ==
  LET old == cache["device_config"]
      new == Merged(old, op[t].value, op[t].mask)
  IN  /\ pc[t] = "down"
      /\ config_mutex' = t
      /\ op' = [op EXCEPT ![t] = [@ EXCEPT !.value = new, !.old = old, !.tell = new]]
      /\ Goto(t, "send")
      /\ UNCHANGED <<product, device, cache, told, midiVars, calls, histVars>>

(* The lock of set_djconsole_device_config, and the bits of the mask put   *)
(* into the cached word.                                                   *)
ConfigDown(t) ==
  LET old == cache["device_config"]
      new == Merged(old, op[t].value, op[t].mask)
  IN  /\ pc[t] = "down"
      /\ config_mutex = NoOne
      /\ config_mutex' = t
      /\ op' = [op EXCEPT ![t] = [@ EXCEPT !.value = new, !.old = old, !.tell = new]]
      /\ Goto(t, "send")
      /\ UNCHANGED <<product, device, cache, told, midiVars, calls, histVars>>

(* The device takes the whole word of the configuration, and of the other  *)
(* settings what their masks select.                                       *)
Taken(t) ==
  LET s == op[t].setting
  IN  IF s = "device_config" THEN op[t].value
                             ELSE Merged(device[s], op[t].value, op[t].mask)

SendOk(t) ==
  /\ pc[t] = "send"
  /\ device' = [device EXCEPT ![op[t].setting] = Taken(t)]
  /\ Goto(t, "store")
  /\ UNCHANGED <<product, cache, told, config_mutex, midiVars, op, calls, histVars>>

(* A request that fails: the device has not taken it, or it has and the    *)
(* answer came too late.                                                   *)
SendFails(t) ==
  LET s == op[t].setting
  IN  /\ pc[t] = "send"
      /\ \/ UNCHANGED device
         \/ device' = [device EXCEPT ![s] = Taken(t)]
      /\ spoiled' = [spoiled EXCEPT ![s] = TRUE]
      /\ mistold' = [mistold EXCEPT ![s] = @ \/ s # "device_config"]
      /\ IF s = "device_config"
           THEN /\ op' = [op EXCEPT ![t] = [@ EXCEPT !.failed = TRUE]]
                /\ Goto(t, "store")
           ELSE Return(t)
      /\ UNCHANGED <<product, cache, told, config_mutex, midiVars, calls, asked>>

Whole(t) == op[t].setting = "device_config" \/ op[t].mask = Bits(op[t].setting)

(* What the history says of a cache after a call has stored its word.      *)
SpoiledAfter(t) ==
  LET s == op[t].setting
  IN  [spoiled EXCEPT ![s] = ~op[t].alone \/ (@ /\ ~Whole(t))]

(* Mutant: the new word is not kept in the cache.                          *)
StoreNothing(t) ==
  LET s == op[t].setting
  IN  /\ pc[t] = "store" /\ s # "device_config"
      /\ spoiled' = SpoiledAfter(t)
      /\ Goto(t, "notify")
      /\ UNCHANGED <<product, device, cache, told, config_mutex, midiVars, op,
                     calls, asked, mistold>>

(* Mutant: only a bit that is switched on counts as a change.              *)
MidiBitSet(t) == "midi" \notin op[t].old /\ "midi" \in op[t].value

Store(t) ==
  LET s == op[t].setting
  IN  /\ pc[t] = "store" /\ s # "device_config"
      /\ cache' = [cache EXCEPT ![s] = op[t].value]
      /\ spoiled' = SpoiledAfter(t)
      /\ Goto(t, "notify")
      /\ UNCHANGED <<product, device, told, config_mutex, midiVars, op, calls,
                     asked, mistold>>

MidiBitChanged(t) == ("midi" \in op[t].old) # ("midi" \in op[t].value)

(* Mutant: the mutex is given back before the clients are notified.        *)
ConfigStoreUps(t) ==
  /\ pc[t] = "store" /\ op[t].setting = "device_config" /\ ~op[t].failed
  /\ cache' = [cache EXCEPT !["device_config"] = op[t].value]
  /\ asked' = Merged(asked, op[t].value, op[t].mask)
  /\ config_mutex' = NoOne
  /\ Goto(t, "notify")
  /\ UNCHANGED <<product, device, told, midiVars, op, calls, spoiled, mistold>>

(* The new configuration is cached; if its MIDI bit has changed the MIDI   *)
(* driver is told, if there is one.                                        *)
ConfigStore(t) ==
  /\ pc[t] = "store" /\ op[t].setting = "device_config" /\ ~op[t].failed
  /\ cache' = [cache EXCEPT !["device_config"] = op[t].value]
  /\ asked' = Merged(asked, op[t].value, op[t].mask)
  /\ spoiled' = SpoiledAfter(t)
  /\ IF MidiBitChanged(t)
       THEN /\ unsettled' = TRUE
            /\ op' = [op EXCEPT ![t] = [@ EXCEPT !.failed = "midi" \notin probed]]
            /\ Goto(t, IF "midi" \in probed THEN "stop" ELSE "notify")
       ELSE /\ Goto(t, "notify")
            /\ UNCHANGED <<op, unsettled>>
  /\ UNCHANGED <<product, device, told, config_mutex, midi_mode, device_midi,
                 probed, calls, mistold>>

(* After the probe of the MIDI interface has failed to set the             *)
(* configuration it starts the input itself.                               *)
Leave(t) ==
  IF t = Probe /\ op[t].failed /\ op[t].mask = {"midi"}
    THEN Goto(t, "stopgap") /\ op' = [op EXCEPT ![t] = NoOp]
    ELSE Return(t)

(* The request failed: the old word is put back.                           *)
ConfigRestore(t) ==
  /\ pc[t] = "store" /\ op[t].setting = "device_config" /\ op[t].failed
  /\ cache' = [cache EXCEPT !["device_config"] = op[t].old]
  /\ config_mutex' = NoOne
  /\ Leave(t)
  /\ UNCHANGED <<product, device, told, midiVars, calls, histVars>>

(* snd_djc_start_midi: a request that stops the input that runs, ...       *)
MidiStop(t) ==
  /\ pc[t] = "stop"
  /\ \/ device_midi' = "none" /\ Goto(t, "start") /\ UNCHANGED op
     \/ /\ device_midi' \in {device_midi, "none"}
        /\ op' = [op EXCEPT ![t] = [@ EXCEPT !.failed = TRUE]]
        /\ Goto(t, "notify")
  /\ UNCHANGED <<product, device, cache, told, config_mutex, midi_mode, probed,
                 unsettled, calls, histVars>>

ModeOf(word) == IF "midi" \in word THEN "controller" ELSE "physical"

(* ... and one that starts the other.                                      *)
MidiStart(t) ==
  /\ pc[t] = "start"
  /\ \/ /\ device_midi' = ModeOf(op[t].value)
        /\ midi_mode' = ModeOf(op[t].value)
        /\ unsettled' = FALSE
        /\ UNCHANGED op
     \/ /\ device_midi' \in {device_midi, ModeOf(op[t].value)}
        /\ op' = [op EXCEPT ![t] = [@ EXCEPT !.failed = TRUE]]
        /\ UNCHANGED <<midi_mode, unsettled>>
  /\ Goto(t, "notify")
  /\ UNCHANGED <<product, device, cache, told, config_mutex, probed, calls, histVars>>

(* The change is sent to the clients; set_djconsole_device_config still    *)
(* has its mutex.                                                          *)
Notify(t) ==
  LET s == op[t].setting
  IN  /\ pc[t] = "notify" /\ s # "device_config"
      /\ told' = [told EXCEPT ![s] = op[t].tell]
      /\ mistold' = [mistold EXCEPT ![s] = spoiled[s] \/ ~op[t].alone]
      /\ Return(t)
      /\ UNCHANGED <<product, device, cache, config_mutex, midiVars, calls,
                     asked, spoiled>>

ConfigNotify(t) ==
  /\ pc[t] = "notify" /\ op[t].setting = "device_config"
  /\ told' = [told EXCEPT !["device_config"] = op[t].tell]
  /\ mistold' = [mistold EXCEPT !["device_config"] = FALSE]
  /\ config_mutex' = NoOne
  /\ Leave(t)
  /\ UNCHANGED <<product, device, cache, midiVars, calls, asked, spoiled>>

(* A read of the device, ...                                               *)
Ask(t) ==
  LET s == op[t].setting
  IN  /\ pc[t] = "ask"
      /\ \/ /\ op' = [op EXCEPT ![t] = [@ EXCEPT !.value = device[s]]]
            /\ Goto(t, "keep")
         \/ Return(t)
      /\ UNCHANGED <<product, device, cache, told, config_mutex, midiVars, calls,
                     histVars>>

(* ... which is kept in the cache.                                         *)
Keep(t) ==
  LET s == op[t].setting
  IN  /\ pc[t] = "keep"
      /\ cache' = [cache EXCEPT ![s] = op[t].value]
      /\ spoiled' = SpoiledAfter(t)
      /\ Return(t)
      /\ UNCHANGED <<product, device, told, config_mutex, midiVars, calls,
                     asked, mistold>>

-----------------------------------------------------------------------------
(* The probes of the two interfaces of a DJ Console, in either order.      *)

(* hdjbulk_init_dj_console activates talkover: the word from the cache,    *)
(* with the enable bit as mask.                                            *)
ProbeBulk ==
  /\ product = "djc" /\ "bulk" \notin probed
  /\ Begin(Probe, "device_config", cache["device_config"] \cup {"enable"},
           {"enable"}, {}, "down")
  /\ probed' = probed \cup {"bulk"}
  /\ UNCHANGED <<product, device, cache, told, config_mutex, midi_mode,
                 device_midi, unsettled, calls, histVars>>

(* snd_hdj_create_midi_interface asks for controller mode; with no bulk    *)
(* interface yet there is no configuration to set.                         *)
ProbeMidi ==
  /\ product = "djc" /\ "midi" \notin probed
  /\ IF "bulk" \in probed
       THEN Begin(Probe, "device_config", {"midi"}, {"midi"}, {}, "down")
       ELSE pc[Probe] = "idle" /\ Goto(Probe, "stopgap") /\ UNCHANGED op
  /\ probed' = probed \cup {"midi"}
  /\ midi_mode' = "controller"
  /\ unsettled' = TRUE
  /\ UNCHANGED <<product, device, cache, told, config_mutex, device_midi, calls,
                 histVars>>

(* The stopgap runs without device_config_mutex and stops nothing first.   *)
Stopgap(t) ==
  /\ pc[t] = "stopgap"
  /\ \/ device_midi' = "controller" /\ midi_mode' = "controller"
     \/ device_midi' \in {device_midi, "controller"} /\ UNCHANGED midi_mode
  /\ unsettled' = TRUE
  /\ Return(t)
  /\ UNCHANGED <<product, device, cache, told, config_mutex, probed, calls, histVars>>

Proceed(t) ==
  \/ SendOk(t) \/ SendFails(t) \/ Store(t) \/ ConfigStore(t) \/ ConfigRestore(t)
  \/ MidiStop(t) \/ MidiStart(t) \/ Notify(t) \/ ConfigNotify(t)
  \/ Ask(t) \/ Keep(t) \/ Stopgap(t)

Next ==
  \/ \E c \in Client : Call(c)
  \/ \E t \in Thread : ConfigDown(t) \/ Proceed(t)
  \/ ProbeBulk \/ ProbeMidi

Spec == Init /\ [][Next]_vars

-----------------------------------------------------------------------------
Quiet(s) == ~Busy(s)

(* What a client is answered without a query of the device is what the     *)
(* device has, once nobody is at work on the setting, unless since the     *)
(* last whole and undisturbed call on it two calls overlapped or a write   *)
(* failed: no single call of configuration_manager.c leaves the two apart. *)
(* (The sample rate of the Mk2 is always answered as 0.)                   *)
AnswersTrue ==
  \A s \in SettingsOf(product) :
    Quiet(s) /\ ~spoiled[s] /\ (s = "sample_rate" => product # "mk2")
      => CachedAnswer(s) = Common(s, device[s])

(* What clients were told last, in the format of ioctl, is what the device *)
(* has, but for the configuration of a DJ Console, which it cannot tell:   *)
(* clients hear of configurations in the order they were stored, also when *)
(* requests fail, and what ioctl shows of one is what they heard.          *)
ToldTrue ==
  /\ \A s \in SettingsOf(product) \ {"device_config"} :
       Quiet(s) /\ ~mistold[s] => told[s] = Common(s, device[s])
  /\ config_mutex = NoOne /\ ~mistold["device_config"]
       => /\ told["device_config"] = cache["device_config"]
          /\ ShownConfig(FALSE) \subseteq told["device_config"]

(* Under device_config_mutex no call on the configuration of a DJ Console  *)
(* loses the bits of another, however stale the word it read before it     *)
(* locked, and a failed one leaves no trace in the cache.                  *)
ConfigAsAsked == config_mutex = NoOne => cache["device_config"] = asked

(* The MIDI input runs in the mode the configuration asks for, and umidi   *)
(* knows, once the change is over, unless a request failed, the MIDI       *)
(* interface was not there to be told, or it came before the bulk one.     *)
MidiModeAgrees ==
  product = "djc" /\ config_mutex = NoOne /\ ~unsettled
    => /\ midi_mode = ModeOf(cache["device_config"])
       /\ device_midi = midi_mode
=============================================================================
