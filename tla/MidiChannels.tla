---------------------------- MODULE MidiChannels ----------------------------
(***************************************************************************)
(* The reservation of MIDI channels in midi.c: channel_list, which says    *)
(* for each channel which device has reserved it, against the channel each *)
(* device believes is its own and the channel a device with non-volatile   *)
(* memory has stored.  Each access to channel_list holds channel_list_lock *)
(* and is one step; the requests to the device, which sleep, lie between   *)
(* such steps.  The requests themselves are VendorRequest's.               *)
(***************************************************************************)
EXTENDS Integers, FiniteSets

CONSTANTS
  Device,       \* MIDI devices (umidi)
  NonVolatile,  \* those with caps.non_volatile_channel = 1
  Setter,       \* threads that set a device's channel (ioctl, /proc)
  NumChannels,  \* NUM_MIDI_CHANNELS
  NoDevice

ASSUME DeviceAssumption == NonVolatile \subseteq Device /\ NoDevice \notin Device
ASSUME ThreadAssumption == Setter \cap Device = {}
ASSUME ChannelAssumption == NumChannels \in Nat \ {0}

Channel == 0 .. NumChannels - 1
Invalid == NumChannels                 \* MIDI_INVALID_CHANNEL
Thread  == Device \cup Setter          \* Device: the hub thread, creating it

VARIABLES
  channel_list,  \* [Channel -> Device or NoDevice]: FREE_MIDI_CHANNEL
  channel,       \* [Device -> Channel or Invalid]: umidi->channel
  stored,        \* [NonVolatile -> Channel or Invalid]: the memory of the
                 \* device; Invalid: every value that is no channel
  phase,         \* [Device -> {"absent", "creating", "ready"}]
  pc, dev,       \* [Thread -> Label], the device the thread works on
  want, got,     \* locals channel_device or channel_to_set, and new_channel
  overlapped     \* history: devices on which two calls have overlapped

mapVars == <<channel_list, channel>>
vars == <<mapVars, stored, phase, pc, dev, want, got, overlapped>>

Label == {"idle", "read", "clear", "assign", "look", "write", "free", "forget"}

(* The last conjunct: no device is ever sent a channel it does not have.   *)
TypeOK ==
  /\ channel_list \in [Channel -> Device \cup {NoDevice}]
  /\ channel \in [Device -> Channel \cup {Invalid}]
  /\ stored \in [NonVolatile -> Channel \cup {Invalid}]
  /\ phase \in [Device -> {"absent", "creating", "ready"}]
  /\ pc \in [Thread -> Label]
  /\ dev \in [Thread -> Device]
  /\ want \in [Thread -> Channel \cup {Invalid}]
  /\ got \in [Thread -> Channel \cup {Invalid}]
  /\ overlapped \subseteq Device
  /\ \A d \in Device : dev[d] = d
  /\ \A t \in Thread : pc[t] = "write" => got[t] \in Channel

Init ==
  /\ channel_list = [c \in Channel |-> NoDevice]
  /\ channel = [d \in Device |-> Invalid]
  /\ stored \in [NonVolatile -> Channel \cup {Invalid}]
  /\ phase = [d \in Device |-> "absent"]
  /\ pc = [t \in Thread |-> "idle"]
  /\ dev \in {f \in [Thread -> Device] : \A d \in Device : f[d] = d}
  /\ want = [t \in Thread |-> Invalid]
  /\ got = [t \in Thread |-> Invalid]
  /\ overlapped = {}

-----------------------------------------------------------------------------
(* The list and the devices' channels, as one value m that each critical   *)
(* section of channel_list_lock maps to another.                           *)

Map == [list |-> channel_list, channel |-> channel]
SetMap(m) == channel_list' = m.list /\ channel' = m.channel

Usable(m, d) == {c \in Channel : m.list[c] \in {NoDevice, d}}
Lowest(S)    == CHOOSE c \in S : \A e \in S : c <= e
Give(m, d, c) == [list    |-> [m.list EXCEPT ![c] = d],
                  channel |-> [m.channel EXCEPT ![d] = c]]

(* assign_first_midi_channel_on_array                                      *)
AssignFirst(m, d) ==
  IF Usable(m, d) = {}
    THEN [list |-> m.list, channel |-> [m.channel EXCEPT ![d] = Invalid]]
    ELSE Give(m, d, Lowest(Usable(m, d)))

(* Mutant: the bumped owner is not given another channel.                  *)
BumpKeepsChannel(m, d, c) == Give(m, d, c)

(* The owner of c is bumped: it gets another channel, if there is one.     *)
Bump(m, d, c) == AssignFirst(Give(m, d, c), m.list[c])

(* Mutant: any owner can be bumped.                                        *)
BumpableByAll(d, o) == BOOLEAN

(* Whether d finds that it can bump the owner o.  The code reads o's       *)
(* capabilities; an owner whose memory is freed may look like anything.    *)
Bumpable(d, o) ==
  IF d \notin NonVolatile THEN {FALSE}
  ELSE IF phase[o] = "absent" THEN BOOLEAN
  ELSE {o \notin NonVolatile}

(* assign_midi_channel_helper: the possible results.  Invalid asks for any *)
(* channel (MIDI_CHANNEL_ANY, or a number out of range).                   *)
AssignChannel(m, d, c) ==
  IF c = Invalid THEN {AssignFirst(m, d)}
  ELSE IF c \in Usable(m, d) THEN {Give(m, d, c)}
  ELSE {IF b THEN Bump(m, d, c) ELSE AssignFirst(m, d) : b \in Bumpable(d, m.list[c])}

(* free_midi_channel_helper                                                *)
FreeChannel(m, d) ==
  LET c == m.channel[d]
  IN  IF c # Invalid /\ m.list[c] = d
        THEN [list    |-> [m.list EXCEPT ![c] = NoDevice],
              channel |-> [m.channel EXCEPT ![d] = Invalid]]
        ELSE m

-----------------------------------------------------------------------------
Goto(t, l) == pc' = [pc EXCEPT ![t] = l]

(* The call is over; its locals are gone.  The hub has then created its    *)
(* device.                                                                 *)
Return(t) ==
  /\ Goto(t, "idle")
  /\ want' = [want EXCEPT ![t] = Invalid]
  /\ got' = [got EXCEPT ![t] = Invalid]
  /\ phase' = IF t \in Device THEN [phase EXCEPT ![t] = "ready"] ELSE phase

(* snd_hdj_create_midi_interface, up to assign_midi_channel.               *)
CreateMidiInterface(d) ==
  /\ phase[d] = "absent"
  /\ phase' = [phase EXCEPT ![d] = "creating"]
  /\ channel' = [channel EXCEPT ![d] = Invalid]
  /\ Goto(d, IF d \in NonVolatile THEN "read" ELSE "assign")
  /\ UNCHANGED <<channel_list, stored, dev, want, got, overlapped>>

(* read_midi_channel_device; a failed read leaves the device without.      *)
ReadDevice(d) ==
  /\ pc[d] = "read"
  /\ \/ /\ want' = [want EXCEPT ![d] = stored[d]]
        /\ Goto(d, "assign")
        /\ UNCHANGED <<got, phase>>
     \/ Return(d)
  /\ UNCHANGED <<mapVars, stored, dev, overlapped>>

(* snd_hdjmidi_set_midi_channel_helper(chip_index, c): the caller has the  *)
(* device's chip, so the device is there.                                  *)
SetMidiChannel(t, d, c) ==
  /\ pc[t] = "idle"
  /\ phase[d] # "absent"
  /\ dev' = [dev EXCEPT ![t] = d]
  /\ want' = [want EXCEPT ![t] = c]
  /\ overlapped' = IF \E s \in Thread : pc[s] # "idle" /\ dev[s] = d
                     THEN overlapped \cup {d} ELSE overlapped
  /\ Goto(t, "clear")
  /\ UNCHANGED <<mapVars, stored, phase, got>>

(* Mutant: a setter does not free the channel its device has.              *)
ClearNothing(t) ==
  /\ pc[t] = "clear"
  /\ Goto(t, "assign")
  /\ UNCHANGED <<mapVars, stored, phase, dev, want, got, overlapped>>

(* A setter frees the channel its device has ...                           *)
Clear(t) ==
  /\ pc[t] = "clear"
  /\ SetMap(FreeChannel(Map, dev[t]))
  /\ Goto(t, "assign")
  /\ UNCHANGED <<stored, phase, dev, want, got, overlapped>>

(* ... and asks for the one it wants; a device without memory is done.     *)
Assign(t) ==
  /\ pc[t] = "assign"
  /\ \E m \in AssignChannel(Map, dev[t], want[t]) : SetMap(m)
  /\ IF t \in Device \ NonVolatile
       THEN Return(t)
       ELSE Goto(t, "look") /\ UNCHANGED <<want, got, phase>>
  /\ UNCHANGED <<stored, dev, overlapped>>

(* Mutant: nothing is written to the device.                               *)
LookOnly(t) ==
  /\ pc[t] = "look"
  /\ Return(t)
  /\ UNCHANGED <<mapVars, stored, dev, overlapped>>

(* The channel the device has got is read outside of the lock.  Creation   *)
(* does not write what the device has stored already.                      *)
Look(t) ==
  /\ pc[t] = "look"
  /\ LET c == channel[dev[t]]
     IN  IF c = Invalid \/ (t \in Device /\ c = want[t])
           THEN Return(t)
           ELSE /\ got' = [got EXCEPT ![t] = c]
                /\ Goto(t, "write")
                /\ UNCHANGED <<want, phase>>
  /\ UNCHANGED <<mapVars, stored, dev, overlapped>>

(* write_midi_channel_device.  A write that fails may have reached the     *)
(* device; a device without memory is not written, and nothing fails.      *)
WriteDevice(t) ==
  /\ pc[t] = "write"
  /\ \/ /\ stored' = IF dev[t] \in NonVolatile
                       THEN [stored EXCEPT ![dev[t]] = got[t]] ELSE stored
        /\ Return(t)
     \/ /\ dev[t] \in NonVolatile
        /\ stored' \in {stored, [stored EXCEPT ![dev[t]] = got[t]]}
        /\ Goto(t, "free")
        /\ UNCHANGED <<want, got, phase>>
  /\ UNCHANGED <<mapVars, dev, overlapped>>

(* The channel that could not be written is freed.                         *)
FreeUnwritten(t) ==
  /\ pc[t] = "free"
  /\ SetMap(FreeChannel(Map, dev[t]))
  /\ IF t \in Device
       THEN Goto(t, "forget") /\ UNCHANGED <<want, got, phase>>
       ELSE Return(t)
  /\ UNCHANGED <<stored, dev, overlapped>>

(* Creation marks the channel invalid once more, outside of the lock.      *)
Forget(d) ==
  /\ pc[d] = "forget"
  /\ channel' = [channel EXCEPT ![d] = Invalid]
  /\ Return(d)
  /\ UNCHANGED <<channel_list, stored, dev, overlapped>>

(* snd_hdjmidi_disconnect, and then snd_hdj_free: the last reference to    *)
(* the chip is gone, so no call is at work on the device.                  *)
Disconnect(d) ==
  /\ phase[d] = "ready"
  /\ \A t \in Thread : pc[t] # "idle" => dev[t] # d
  /\ SetMap(FreeChannel(Map, d))
  /\ phase' = [phase EXCEPT ![d] = "absent"]
  /\ UNCHANGED <<stored, pc, dev, want, got, overlapped>>

Step(t) ==
  \/ Clear(t) \/ Assign(t) \/ Look(t) \/ WriteDevice(t) \/ FreeUnwritten(t)

Next ==
  \/ \E d \in Device : \/ CreateMidiInterface(d) \/ ReadDevice(d)
                       \/ Forget(d) \/ Disconnect(d)
  \/ \E t \in Setter, d \in Device, c \in Channel : SetMidiChannel(t, d, c)
  \/ \E t \in Thread : Step(t)

Spec == Init /\ [][Next]_vars

-----------------------------------------------------------------------------
Busy(d) == \E t \in Thread : pc[t] # "idle" /\ dev[t] = d

(* A device that believes it has a channel has reserved it, under every    *)
(* interleaving; so two devices never send on the same channel.            *)
OwnerAgrees ==
  \A d \in Device : channel[d] # Invalid => channel_list[channel[d]] = d

(* Unless two calls on a device have overlapped, it has reserved at most   *)
(* the channel it believes it has ...                                      *)
Single(d) == \A c \in Channel : channel_list[c] = d => channel[d] = c
OneChannelUnlessOverlapped == \A d \in Device \ overlapped : Single(d)

(* ... and the channel is the one in its memory, whenever no call is at    *)
(* work on it.                                                             *)
StoredUnlessOverlapped ==
  \A d \in NonVolatile \ overlapped :
     ~Busy(d) /\ channel[d] # Invalid => stored[d] = channel[d]

(* "free the midi channel" (midi.c:2673): a device that is gone has        *)
(* reserved nothing, unless two calls on it have overlapped.  The code     *)
(* follows the pointer in the list (midi.c:1937).                          *)
GoneOwnsNothingUnlessOverlapped ==
  \A d \in Device \ overlapped, c \in Channel :
     phase[d] = "absent" => channel_list[c] # d

(* A device with non-volatile memory is never bumped: its channel changes  *)
(* only in a call on the device itself, or when it is created or goes.     *)
NeverBumped ==
  [][\A d \in NonVolatile : phase[d] # "absent" /\ channel'[d] # channel[d] =>
        \/ \E t \in Thread : dev[t] = d /\ pc[t] # "idle" /\ pc'[t] # pc[t]
        \/ phase'[d] # phase[d]]_vars

-----------------------------------------------------------------------------
(* The inductive invariant.                                                *)

(* A device that no two calls have shared has one call at work on it.      *)
Alone ==
  \A s, t \in Thread : /\ pc[s] # "idle" /\ pc[t] # "idle"
                       /\ dev[s] = dev[t] /\ dev[t] \notin overlapped
                       => s = t

(* The hub thread is at work while the device is being created, and only   *)
(* on devices with memory beyond Assign; calls work on devices that exist. *)
CallsOnDevices ==
  /\ \A d \in Device : pc[d] # "idle" <=> phase[d] = "creating"
  /\ \A t \in Thread : pc[t] # "idle" => phase[dev[t]] # "absent"
  /\ \A d \in Device : pc[d] \notin {"idle", "assign"} => d \in NonVolatile
  /\ \A t \in Thread : pc[t] = "clear" => t \in Setter
  /\ \A t \in Thread : pc[t] \in {"read", "forget"} => t \in Device

(* A device that is gone, or waits for a channel, has none.                *)
NoneYet(d) ==
  \/ phase[d] = "absent"
  \/ \E t \in Thread : dev[t] = d /\ pc[t] \in {"read", "assign", "forget"}
  => channel[d] = Invalid

(* What is stored differs from the channel only while the call that will   *)
(* write it is on its way; creation remembers what is stored.              *)
StoredOrComing(d) ==
  /\ \/ channel[d] = Invalid
     \/ stored[d] = channel[d]
     \/ \E t \in Thread : dev[t] = d /\ pc[t] \in {"look", "write", "free"}
  /\ pc[d] \in {"assign", "look"} => want[d] = stored[d]
  /\ \A t \in Thread : dev[t] = d /\ pc[t] = "write" => got[t] = channel[d]

DevicesInOrder ==
  /\ \A d \in Device \ overlapped : NoneYet(d)
  /\ \A d \in NonVolatile \ overlapped : StoredOrComing(d)

MidiInv ==
  /\ TypeOK /\ OwnerAgrees /\ OneChannelUnlessOverlapped
  /\ Alone /\ CallsOnDevices /\ DevicesInOrder
=============================================================================
