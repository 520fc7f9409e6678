------------------------------ MODULE MidiBytes ------------------------------
(***************************************************************************)
(* snd_hdjmidi_transmit_byte (midirender.c): the state machine that cuts   *)
(* the bytes of a client into packets for the device, each one whole       *)
(* message with its status byte, or up to three bytes of a system          *)
(* exclusive message.  Beside it, as history, goes a reader of the MIDI    *)
(* protocol who is told the same bytes and says what each one completes.   *)
(***************************************************************************)
EXTENDS Integers, Sequences

CONSTANTS
  Bytes,       \* the bytes the client may write
  Channels,    \* the MIDI channels the device may have
  NonVolatile  \* caps.non_volatile_channel: the device knows its channel

MIDI_INVALID_CHANNEL == 16

ASSUME BytesAssumption == Bytes \subseteq 0..255
ASSUME ChannelAssumption == Channels \subseteq 0..MIDI_INVALID_CHANNEL
ASSUME NonVolatileAssumption == NonVolatile \in BOOLEAN

VARIABLES
  state, data0, data1, \* port->state and port->data
  packet,              \* what the last byte made output_packet append
  channel,             \* umidi->channel
  due_status,          \* history: the status that data bytes are read under
  due_params,          \* history: its parameters so far
  renumbered           \* history: the channel was set since the status byte

portVars  == <<state, data0, data1>>
dueVars   == <<due_status, due_params>>
byteVars  == <<portVars, packet, channel, dueVars, renumbered>>

SysEx == 240 \* 0xf0
EndOfSysEx == 247 \* 0xf7
None == 0

ByteTypeOK ==
  /\ state \in {"UNKNOWN", "1PARAM", "2PARAM_1", "2PARAM_2",
                "SYSEX_0", "SYSEX_1", "SYSEX_2"}
  /\ data0 \in 0..255 /\ data1 \in 0..127
  /\ packet \in Seq(0..255) /\ Len(packet) \leq 3
  /\ channel \in Channels
  /\ due_status \in {None} \cup 128..255
  /\ due_params \in Seq(0..127) /\ Len(due_params) \leq 1
  /\ renumbered \in BOOLEAN

ByteInit ==
  /\ state = "UNKNOWN" /\ data0 = 0 /\ data1 = 0
  /\ packet = <<>>
  /\ channel \in Channels
  /\ due_status = None /\ due_params = <<>>
  /\ renumbered = FALSE

-----------------------------------------------------------------------------
(* The protocol.                                                           *)
RealTime(b) == b >= 248
IsStatus(b) == b \in 128..247
TakesOne(s) == s \in 192..223 \cup {241, 243}
TakesTwo(s) == s \in 128..191 \cup 224..239 \cup {242}

(* The client's status byte with the channel of the device in it.          *)
Rechannel == channel # MIDI_INVALID_CHANNEL /\ NonVolatile
Addressed(b) ==
  IF b < SysEx /\ Rechannel THEN (b - (b % 16)) + channel ELSE b

(* What is complete once b is there.                                       *)
Due(b) ==
  CASE RealTime(b) -> <<b>>
    [] b = SysEx \/ b = 246 -> <<b>>
    [] b = EndOfSysEx /\ due_status = SysEx -> <<b>>
    [] b < 128 /\ due_status = SysEx -> <<b>>
    [] b < 128 /\ TakesOne(due_status) -> <<due_status, b>>
    [] b < 128 /\ TakesTwo(due_status) /\ Len(due_params) = 1 ->
         <<due_status, due_params[1], b>>
    [] OTHER -> <<>>

(* A system common message takes its parameters once, a channel message    *)
(* as often as they come.                                                  *)
FollowData(b) ==
  \/ /\ TakesTwo(due_status) /\ due_params = <<>>
     /\ due_params' = <<b>> /\ UNCHANGED due_status
  \/ /\ TakesOne(due_status) \/ (TakesTwo(due_status) /\ due_params # <<>>)
     /\ due_status' = IF due_status > SysEx THEN None ELSE due_status
     /\ due_params' = <<>>
  \/ ~TakesOne(due_status) /\ ~TakesTwo(due_status) /\ UNCHANGED dueVars

Follow(b) ==
  \/ RealTime(b) /\ UNCHANGED dueVars
  \/ /\ IsStatus(b)
     /\ due_status' = IF b \in {244, 245, 246, 247} THEN None ELSE Addressed(b)
     /\ due_params' = <<>>
  \/ b < 128 /\ FollowData(b)

(* The bytes of a system exclusive message that wait for their packet.     *)
Held ==
  CASE state = "SYSEX_1" -> <<data0>>
    [] state = "SYSEX_2" -> <<data0, data1>>
    [] OTHER -> <<>>

-----------------------------------------------------------------------------
(* The code.                                                               *)
Output(p) == packet' = p
Silent == packet' = <<>>

RealTimeByte(b) ==
  /\ RealTime(b)
  /\ Output(<<b>>)
  /\ UNCHANGED portVars

SystemByte(b) ==
  /\ b \in 240..247
  /\ state' = CASE b = SysEx -> "SYSEX_1"
                [] b \in {241, 243} -> "1PARAM"
                [] b = 242 -> "2PARAM_1"
                [] OTHER -> "UNKNOWN"
  /\ data0' = IF b \leq 243 THEN b ELSE data0
  /\ packet' = CASE b = 246 -> <<b>>
                 [] b = EndOfSysEx /\ state = "SYSEX_0" -> <<b>>
                 [] b = EndOfSysEx /\ state = "SYSEX_1" -> <<data0, b>>
                 [] b = EndOfSysEx /\ state = "SYSEX_2" -> <<data0, data1, b>>
                 [] OTHER -> <<>>
  /\ UNCHANGED data1

(* Mutant: takes the channel of the client.                                *)
ChannelByteAsWritten(b) ==
  /\ b \in 128..239
  /\ state' = IF b \in 192..223 THEN "1PARAM" ELSE "2PARAM_1"
  /\ data0' = b
  /\ Silent
  /\ UNCHANGED data1

ChannelByte(b) ==
  /\ b \in 128..239
  /\ state' = IF b \in 192..223 THEN "1PARAM" ELSE "2PARAM_1"
  /\ data0' = Addressed(b)
  /\ Silent
  /\ UNCHANGED data1

(* Mutant: a two-parameter message keeps no running status.                *)
ParameterOnce(b) ==
  \/ /\ state = "1PARAM"
     /\ state' = IF data0 >= SysEx THEN "UNKNOWN" ELSE state
     /\ Output(<<data0, b>>)
     /\ UNCHANGED <<data0, data1>>
  \/ /\ state = "2PARAM_1"
     /\ state' = "2PARAM_2" /\ data1' = b
     /\ Silent
     /\ UNCHANGED data0
  \/ /\ state = "2PARAM_2"
     /\ state' = "UNKNOWN"
     /\ Output(<<data0, data1, b>>)
     /\ UNCHANGED <<data0, data1>>

Parameter(b) ==
  \/ /\ state = "1PARAM"
     /\ state' = IF data0 >= SysEx THEN "UNKNOWN" ELSE state
     /\ Output(<<data0, b>>)
     /\ UNCHANGED <<data0, data1>>
  \/ /\ state = "2PARAM_1"
     /\ state' = "2PARAM_2" /\ data1' = b
     /\ Silent
     /\ UNCHANGED data0
  \/ /\ state = "2PARAM_2"
     /\ state' = IF data0 < SysEx THEN "2PARAM_1" ELSE "UNKNOWN"
     /\ Output(<<data0, data1, b>>)
     /\ UNCHANGED <<data0, data1>>

SysExByte(b) ==
  \/ /\ state = "SYSEX_0"
     /\ state' = "SYSEX_1" /\ data0' = b
     /\ Silent
     /\ UNCHANGED data1
  \/ /\ state = "SYSEX_1"
     /\ state' = "SYSEX_2" /\ data1' = b
     /\ Silent
     /\ UNCHANGED data0
  \/ /\ state = "SYSEX_2"
     /\ state' = "SYSEX_0"
     /\ Output(<<data0, data1, b>>)
     /\ UNCHANGED <<data0, data1>>

DataByte(b) ==
  /\ b < 128
  /\ \/ Parameter(b)
     \/ SysExByte(b)
     \/ state = "UNKNOWN" /\ Silent /\ UNCHANGED portVars

snd_hdjmidi_transmit_byte(b) ==
  /\ RealTimeByte(b) \/ SystemByte(b) \/ ChannelByte(b) \/ DataByte(b)
  /\ Follow(b)
  /\ renumbered' = (renumbered /\ ~IsStatus(b))
  /\ UNCHANGED channel

(* Mutant: forgets the bytes before it, not what to read them under.       *)
OutputOpenKeeps ==
  /\ due_status' = None /\ due_params' = <<>>
  /\ packet' = <<>>
  /\ UNCHANGED <<portVars, channel, renumbered>>

(* snd_hdjmidi_output_open: a new client, a new stream of bytes.           *)
OutputOpen ==
  /\ state' = "UNKNOWN"
  /\ due_status' = None /\ due_params' = <<>>
  /\ packet' = <<>>
  /\ UNCHANGED <<data0, data1, channel, renumbered>>

(* A caller of set_midi_channel changes the channel under the port.        *)
SetChannel(c) ==
  /\ c # channel
  /\ channel' = c
  /\ renumbered' = TRUE
  /\ packet' = <<>>
  /\ UNCHANGED <<portVars, dueVars>>

ByteNext ==
  \/ \E b \in Bytes : snd_hdjmidi_transmit_byte(b)
  \/ OutputOpen
  \/ \E c \in Channels : SetChannel(c)

ByteSpec == ByteInit /\ [][ByteNext]_byteVars

-----------------------------------------------------------------------------
(* What the port is in the middle of is what the protocol says it is.      *)
SameMessage ==
  /\ state = "UNKNOWN" <=> due_status = None
  /\ state = "1PARAM" <=> TakesOne(due_status)
  /\ state \in {"2PARAM_1", "2PARAM_2"} <=> TakesTwo(due_status)
  /\ state \in {"SYSEX_0", "SYSEX_1", "SYSEX_2"} <=> due_status = SysEx
  /\ state \in {"1PARAM", "2PARAM_1", "2PARAM_2"} => data0 = due_status
  /\ state = "2PARAM_2" => due_params = <<data1>>
  /\ state # "2PARAM_2" => due_params = <<>>

(* Every message reaches the device whole, once and in order, with a       *)
(* status byte of its own even where the client left it out, and realtime  *)
(* bytes pass at once: with each byte, what was held back and what is now  *)
(* due is what goes out and what is held back still.  Only an exclusive    *)
(* message the client itself breaks off loses its end.                     *)
BreaksOff(b) == IsStatus(b) /\ b # EndOfSysEx
HeldBefore(b) == IF BreaksOff(b) THEN <<>> ELSE Held
OutputAsWritten(b) ==
  IF RealTime(b) THEN packet' = <<b>> /\ Held' = Held
                 ELSE HeldBefore(b) \o Due(b) = packet' \o Held'
AsWritten ==
  [][\A b \in Bytes : snd_hdjmidi_transmit_byte(b) => OutputAsWritten(b)]_byteVars

(* A channel message to a device that knows its channel carries that       *)
(* channel, unless it was changed under a running status.                  *)
OnDeviceChannel ==
  (/\ state \in {"1PARAM", "2PARAM_1", "2PARAM_2"} /\ data0 < SysEx
   /\ Rechannel /\ ~renumbered) => data0 % 16 = channel
=============================================================================
