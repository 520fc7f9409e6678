--------------------------- MODULE MidiOutputProofs ---------------------------
(***************************************************************************)
(* What is proved of the MIDI output: the byte machine is right for every  *)
(* stream of bytes and every channel, and the URB of the endpoint is never *)
(* touched, nor submitted a second time, while it is in flight.            *)
(***************************************************************************)
EXTENDS MidiOutput, SequenceTheorems, TLAPS

-----------------------------------------------------------------------------
(* A channel put into a status byte changes neither what kind of message   *)
(* it begins nor anything but its lowest four bits.                        *)
LEMMA AddressedKind ==
  ASSUME NEW b \in 128..239, channel \in 0..MIDI_INVALID_CHANNEL
  PROVE  /\ Addressed(b) \in 128..239
         /\ Addressed(b) \in 192..223 <=> b \in 192..223
         /\ Rechannel => Addressed(b) % 16 = channel
<1>1. CASE ~Rechannel
  BY <1>1 DEF Addressed, SysEx
<1>2. CASE Rechannel
  <2>1. channel \in 0..15
    BY <1>2 DEF Rechannel, MIDI_INVALID_CHANNEL
  <2>2. PICK h \in 8..14, l \in 0..15 : b = 16 * h + l
    <3>1. b \div 16 \in 8..14 /\ b % 16 \in 0..15 /\ b = 16 * (b \div 16) + (b % 16)
      BY SMT
    <3> QED BY <3>1
  <2>3. b % 16 = l
    BY <2>2, SMT
  <2>4. Addressed(b) = 16 * h + channel
    BY <1>2, <2>1, <2>2, <2>3 DEF Addressed, SysEx
  <2>5. (16 * h + channel) % 16 = channel
    BY <2>1, <2>2, SMT
  <2> QED BY <2>1, <2>2, <2>4, <2>5
<1> QED BY <1>1, <1>2

(* Short sequences, end to end.                                            *)
LEMMA JoinedThree ==
  ASSUME NEW a \in Int, NEW b \in Int, NEW c \in Int
  PROVE  /\ <<>> \o <<>> = <<>>
         /\ <<>> \o <<a>> = <<a>>
         /\ <<>> \o <<a, b>> = <<a, b>>
         /\ <<>> \o <<a, b, c>> = <<a, b, c>>
         /\ <<a>> \o <<>> = <<a>>
         /\ <<a, b>> \o <<>> = <<a, b>>
         /\ <<a, b, c>> \o <<>> = <<a, b, c>>
         /\ <<a>> \o <<b>> = <<a, b>>
         /\ <<a, b>> \o <<c>> = <<a, b, c>>
<1>1. /\ <<>> \in Seq(Int) /\ <<a>> \in Seq(Int) /\ <<b>> \in Seq(Int) /\ <<c>> \in Seq(Int)
      /\ <<a, b>> \in Seq(Int) /\ <<a, b, c>> \in Seq(Int)
  OBVIOUS
<1>2. <<a>> \o <<b>> = <<a, b>>
  <2>1. /\ <<a>> \o <<b>> \in Seq(Int) /\ Len(<<a>> \o <<b>>) = 2
        /\ (<<a>> \o <<b>>)[1] = a /\ (<<a>> \o <<b>>)[2] = b
    BY <1>1, ConcatProperties
  <2>2. Len(<<a, b>>) = 2 /\ \A i \in 1..2 : (<<a>> \o <<b>>)[i] = <<a, b>>[i]
    <3>1. \A i \in 1..2 : i = 1 \/ i = 2
      OBVIOUS
    <3>2. <<a, b>>[1] = a /\ <<a, b>>[2] = b /\ Len(<<a, b>>) = 2
      OBVIOUS
    <3> QED BY <2>1, <3>1, <3>2, Zenon
  <2> QED BY <1>1, <2>1, <2>2, SeqEqual
<1>3. <<a, b>> \o <<c>> = <<a, b, c>>
  <2>1. /\ <<a, b>> \o <<c>> \in Seq(Int) /\ Len(<<a, b>> \o <<c>>) = 3
        /\ (<<a, b>> \o <<c>>)[1] = a /\ (<<a, b>> \o <<c>>)[2] = b
        /\ (<<a, b>> \o <<c>>)[3] = c
    BY <1>1, ConcatProperties
  <2>2. /\ Len(<<a, b, c>>) = 3
        /\ \A i \in 1..3 : (<<a, b>> \o <<c>>)[i] = <<a, b, c>>[i]
    <3>1. \A i \in 1..3 : i = 1 \/ i = 2 \/ i = 3
      OBVIOUS
    <3>2. /\ <<a, b, c>>[1] = a /\ <<a, b, c>>[2] = b /\ <<a, b, c>>[3] = c
          /\ Len(<<a, b, c>>) = 3
      OBVIOUS
    <3> QED BY <2>1, <3>1, <3>2, Zenon
  <2> QED BY <1>1, <2>1, <2>2, SeqEqual
<1>4. \A s \in Seq(Int) : s \o <<>> = s /\ <<>> \o s = s
  BY ConcatEmptySeq
<1> QED BY <1>1, <1>2, <1>3, <1>4

LEMMA Joined ==
  /\ <<>> \o <<>> = <<>>
  /\ \A a \in Int : <<>> \o <<a>> = <<a>> /\ <<a>> \o <<>> = <<a>>
  /\ \A a, b \in Int : /\ <<>> \o <<a, b>> = <<a, b>>
                      /\ <<a, b>> \o <<>> = <<a, b>>
                      /\ <<a>> \o <<b>> = <<a, b>>
  /\ \A a, b, c \in Int : /\ <<>> \o <<a, b, c>> = <<a, b, c>>
                         /\ <<a, b, c>> \o <<>> = <<a, b, c>>
                         /\ <<a, b>> \o <<c>> = <<a, b, c>>
<1>1. ASSUME NEW a \in Int, NEW b \in Int, NEW c \in Int
      PROVE  /\ <<>> \o <<>> = <<>>
             /\ <<>> \o <<a>> = <<a>> /\ <<a>> \o <<>> = <<a>>
             /\ <<>> \o <<a, b>> = <<a, b>> /\ <<a, b>> \o <<>> = <<a, b>>
             /\ <<a>> \o <<b>> = <<a, b>>
             /\ <<>> \o <<a, b, c>> = <<a, b, c>> /\ <<a, b, c>> \o <<>> = <<a, b, c>>
             /\ <<a, b>> \o <<c>> = <<a, b, c>>
  BY JoinedThree, Zenon
<1>2. 0 \in Int
  OBVIOUS
<1> QED BY <1>1, <1>2, Zenon

-----------------------------------------------------------------------------
(* The byte machine.                                                       *)
ByteInv == ByteTypeOK /\ SameMessage /\ OnDeviceChannel

(* The type invariant, a conjunct at a time.                                *)
TypeOfPort ==
  /\ state \in {"UNKNOWN", "1PARAM", "2PARAM_1", "2PARAM_2",
                "SYSEX_0", "SYSEX_1", "SYSEX_2"}
  /\ data0 \in 0..255 /\ data1 \in 0..127
TypeOfDue ==
  /\ due_status \in {None} \cup 128..255
  /\ due_params \in Seq(0..127) /\ Len(due_params) \leq 1

LEMMA TypeParts ==
  ByteTypeOK <=> (/\ TypeOfPort /\ TypeOfDue
                  /\ packet \in Seq(0..255) /\ Len(packet) \leq 3
                  /\ channel \in Channels /\ renumbered \in BOOLEAN)
BY Zenon DEF ByteTypeOK, TypeOfPort, TypeOfDue

LEMMA Packets ==
  /\ <<>> \in Seq(0..255) /\ Len(<<>>) = 0
  /\ \A a \in 0..255 : <<a>> \in Seq(0..255) /\ Len(<<a>>) = 1
  /\ \A a, b \in 0..255 : <<a, b>> \in Seq(0..255) /\ Len(<<a, b>>) = 2
  /\ \A a, b, c \in 0..255 : <<a, b, c>> \in Seq(0..255) /\ Len(<<a, b, c>>) = 3
<1>1. ASSUME NEW a \in 0..255, NEW b \in 0..255, NEW c \in 0..255
      PROVE  /\ <<a>> \in Seq(0..255) /\ Len(<<a>>) = 1
             /\ <<a, b>> \in Seq(0..255) /\ Len(<<a, b>>) = 2
             /\ <<a, b, c>> \in Seq(0..255) /\ Len(<<a, b, c>>) = 3
  OBVIOUS
<1>2. <<>> \in Seq(0..255) /\ Len(<<>>) = 0
  OBVIOUS
<1>3. 0 \in 0..255
  OBVIOUS
<1> QED BY <1>1, <1>2, <1>3, Zenon

LEMMA ByteInitInv == ByteInit => ByteInv
<1> SUFFICES ASSUME ByteInit PROVE ByteInv
  OBVIOUS
<1>1. ByteTypeOK
  <2>1. TypeOfPort /\ TypeOfDue
    BY DEF ByteInit, TypeOfPort, TypeOfDue, None
  <2>2. packet \in Seq(0..255) /\ Len(packet) \leq 3
    BY DEF ByteInit
  <2>3. channel \in Channels /\ renumbered \in BOOLEAN
    BY Zenon DEF ByteInit
  <2> QED BY <2>1, <2>2, <2>3, TypeParts
<1>2. SameMessage
  BY DEF ByteInit, SameMessage, TakesOne, TakesTwo, None, SysEx
<1>3. OnDeviceChannel
  BY DEF ByteInit, OnDeviceChannel
<1> QED BY <1>1, <1>2, <1>3 DEF ByteInv

(* What goes with a byte beside the machine's own step.                    *)
Beside(b) ==
  /\ Follow(b)
  /\ renumbered' = (renumbered /\ ~IsStatus(b))
  /\ UNCHANGED channel

LEMMA BesideType ==
  ASSUME ByteTypeOK, NEW b, Beside(b)
  PROVE  channel' \in Channels /\ renumbered' \in BOOLEAN
BY Zenon DEF ByteTypeOK, Beside

LEMMA RealTimeStep ==
  ASSUME ByteInv, NEW b \in Bytes, RealTimeByte(b), Beside(b)
  PROVE  ByteInv' /\ OutputAsWritten(b)
<1>0. ByteTypeOK /\ SameMessage /\ OnDeviceChannel
  BY DEF ByteInv
<1>1. b \in 248..255 /\ packet' = <<b>> /\ UNCHANGED portVars
  BY BytesAssumption DEF RealTimeByte, RealTime, Output
<1>2. UNCHANGED dueVars
  BY <1>1 DEF Beside, Follow, RealTime, IsStatus, dueVars
<1>3. UNCHANGED channel /\ (renumbered' <=> renumbered)
  <2>1. ~IsStatus(b)
    BY <1>1 DEF IsStatus
  <2> QED BY <2>1, Zenon DEF Beside
<1>4. ByteTypeOK'
  <2>1. TypeOfPort' /\ TypeOfDue'
    BY <1>0, <1>1, <1>2, TypeParts DEF portVars, dueVars, TypeOfPort, TypeOfDue, None
  <2>2. packet' \in Seq(0..255) /\ Len(packet') \leq 3
    BY <1>1
  <2>3. channel' \in Channels /\ renumbered' \in BOOLEAN
    BY <1>0, BesideType
  <2> QED BY <2>1, <2>2, <2>3, Zenon DEF ByteTypeOK, TypeOfPort, TypeOfDue
<1>5. SameMessage' /\ OnDeviceChannel'
  BY <1>0, <1>1, <1>2, <1>3
     DEF SameMessage, OnDeviceChannel, Rechannel, TakesOne, TakesTwo, portVars, dueVars
<1>6. OutputAsWritten(b)
  BY <1>1 DEF OutputAsWritten, RealTime, Held, portVars
<1> QED BY <1>4, <1>5, <1>6 DEF ByteInv

LEMMA SystemStep ==
  ASSUME ByteInv, NEW b \in Bytes, SystemByte(b), Beside(b)
  PROVE  ByteInv' /\ OutputAsWritten(b)
<1>0. ByteTypeOK /\ SameMessage /\ OnDeviceChannel /\ TypeOfPort /\ TypeOfDue
  BY TypeParts, Zenon DEF ByteInv
<1>1. b \in 240..247
  BY DEF SystemByte
<1>2. /\ due_status' = (IF b \in {244, 245, 246, 247} THEN None ELSE b)
      /\ due_params' = <<>>
  BY <1>1 DEF Beside, Follow, RealTime, IsStatus, Addressed, SysEx
<1>3. /\ data0 \in 0..255 /\ data1 \in 0..127 /\ data1' = data1
      /\ data0' = IF b \leq 243 THEN b ELSE data0
  BY <1>0 DEF SystemByte, TypeOfPort
<1>4. /\ b = 240 => state' = "SYSEX_1" /\ packet' = <<>>
      /\ b \in {241, 243} => state' = "1PARAM" /\ packet' = <<>>
      /\ b = 242 => state' = "2PARAM_1" /\ packet' = <<>>
      /\ b \in 244..247 => state' = "UNKNOWN"
      /\ b \in 244..245 => packet' = <<>>
      /\ b = 246 => packet' = <<b>>
  BY <1>1 DEF SystemByte, SysEx, EndOfSysEx
<1>5. ASSUME b = 247
      PROVE  /\ state = "SYSEX_0" => packet' = <<b>>
             /\ state = "SYSEX_1" => packet' = <<data0, b>>
             /\ state = "SYSEX_2" => packet' = <<data0, data1, b>>
             /\ state \notin {"SYSEX_0", "SYSEX_1", "SYSEX_2"} => packet' = <<>>
  BY <1>5 DEF SystemByte, SysEx, EndOfSysEx
<1>6. ByteTypeOK'
  <2>1. TypeOfPort'
    BY <1>1, <1>3, <1>4 DEF TypeOfPort
  <2>2. TypeOfDue'
    BY <1>1, <1>2 DEF TypeOfDue, None
  <2>3. packet' \in Seq(0..255) /\ Len(packet') \leq 3
    <3>1. b \in 0..255 /\ data0 \in 0..255 /\ data1 \in 0..255
      BY <1>1, <1>3
    <3>2. \/ packet' = <<>> \/ packet' = <<b>> \/ packet' = <<data0, b>>
          \/ packet' = <<data0, data1, b>>
      <4>1. CASE b = 247
        BY <1>5, <4>1
      <4>2. CASE b = 246
        BY <1>4, <4>2
      <4>3. CASE b \in 240..245
        <5>1. b \in 244..247 \/ b = 240 \/ b \in {241, 243} \/ b = 242
          BY <4>3
        <5>2. packet' = <<>>
          BY <1>4, <4>3, <5>1
        <5> QED BY <5>2
      <4> QED BY <1>1, <4>1, <4>2, <4>3
    <3>3. CASE packet' = <<data0, b>>
      BY <3>1, <3>3
    <3>4. CASE packet' = <<data0, data1, b>>
      BY <3>1, <3>4
    <3>5. CASE packet' = <<b>>
      BY <3>1, <3>5
    <3>6. CASE packet' = <<>>
      BY <3>6
    <3> QED BY <3>2, <3>3, <3>4, <3>5, <3>6
  <2>4. channel' \in Channels /\ renumbered' \in BOOLEAN
    BY <1>0, BesideType
  <2> QED BY <2>1, <2>2, <2>3, <2>4, Zenon DEF ByteTypeOK, TypeOfPort, TypeOfDue
<1>7. SameMessage'
  BY <1>1, <1>2, <1>3, <1>4 DEF SameMessage, TakesOne, TakesTwo, None, SysEx
<1>8. OnDeviceChannel'
  BY <1>1, <1>3, <1>4 DEF OnDeviceChannel, SysEx
<1>9. OutputAsWritten(b)
  <2> SUFFICES HeldBefore(b) \o Due(b) = packet' \o Held'
    BY <1>1 DEF OutputAsWritten, RealTime
  <2>0. b \in Int /\ data0 \in Int /\ data1 \in Int
    BY <1>1, <1>3
  <2>1. CASE b = 240
    <3>1. Held' = <<b>> /\ packet' = <<>>
      BY <1>3, <1>4, <2>1 DEF Held
    <3>2. HeldBefore(b) = <<>> /\ Due(b) = <<b>>
      BY <2>1 DEF HeldBefore, BreaksOff, IsStatus, EndOfSysEx, Due, RealTime, SysEx
    <3> QED BY <3>1, <3>2, Zenon
  <2>2. CASE b = 246
    <3>1. Held' = <<>> /\ packet' = <<b>>
      BY <1>3, <1>4, <2>2 DEF Held
    <3>2. HeldBefore(b) = <<>> /\ Due(b) = <<b>>
      BY <2>2 DEF HeldBefore, BreaksOff, IsStatus, EndOfSysEx, Due, RealTime, SysEx
    <3> QED BY <2>0, <3>1, <3>2, Joined, Zenon
  <2>3. CASE b \in {241, 242, 243, 244, 245}
    <3>1. Held' = <<>> /\ packet' = <<>>
      BY <1>4, <2>3 DEF Held
    <3>2. HeldBefore(b) = <<>> /\ Due(b) = <<>>
      BY <2>3 DEF HeldBefore, BreaksOff, IsStatus, EndOfSysEx, Due, RealTime, SysEx
    <3> QED BY <3>1, <3>2, Zenon
  <2>4. CASE b = 247
    <3>1. HeldBefore(b) = Held
      BY <2>4 DEF HeldBefore, BreaksOff, EndOfSysEx
    <3>2. state \in {"SYSEX_0", "SYSEX_1", "SYSEX_2"} <=> due_status = SysEx
      BY <1>0 DEF SameMessage
    <3>3. Due(b) = IF due_status = SysEx THEN <<b>> ELSE <<>>
      BY <2>4 DEF Due, RealTime, SysEx, EndOfSysEx
    <3>4. Held' = <<>>
      BY <1>4, <2>4 DEF Held
    <3>5. CASE state = "SYSEX_0"
      <4>1. HeldBefore(b) = <<>> /\ Due(b) = <<b>> /\ packet' = <<b>>
        BY <1>5, <2>4, <3>1, <3>2, <3>3, <3>5 DEF Held
      <4> QED BY <2>0, <3>4, <4>1, Joined, Zenon
    <3>6. CASE state = "SYSEX_1"
      <4>1. HeldBefore(b) = <<data0>> /\ Due(b) = <<b>> /\ packet' = <<data0, b>>
        BY <1>5, <2>4, <3>1, <3>2, <3>3, <3>6 DEF Held
      <4> QED BY <2>0, <3>4, <4>1, Joined, Zenon
    <3>7. CASE state = "SYSEX_2"
      <4>1. HeldBefore(b) = <<data0, data1>> /\ Due(b) = <<b>> /\ packet' = <<data0, data1, b>>
        BY <1>5, <2>4, <3>1, <3>2, <3>3, <3>7 DEF Held
      <4>2. /\ <<data0, data1>> \o <<b>> = <<data0, data1, b>>
            /\ <<data0, data1, b>> \o <<>> = <<data0, data1, b>>
        BY <2>0, JoinedThree
      <4> QED BY <3>4, <4>1, <4>2, Zenon
    <3>8. CASE state \notin {"SYSEX_0", "SYSEX_1", "SYSEX_2"}
      <4>1. HeldBefore(b) = <<>> /\ Due(b) = <<>> /\ packet' = <<>>
        BY <1>5, <2>4, <3>1, <3>2, <3>3, <3>8 DEF Held
      <4> QED BY <3>1, <3>4, <4>1, Zenon
    <3> QED BY <3>5, <3>6, <3>7, <3>8
  <2> QED BY <1>1, <2>1, <2>2, <2>3, <2>4
<1> QED BY <1>6, <1>7, <1>8, <1>9 DEF ByteInv

LEMMA ChannelStep ==
  ASSUME ByteInv, NEW b \in Bytes, ChannelByte(b), Beside(b)
  PROVE  ByteInv' /\ OutputAsWritten(b)
<1>0. ByteTypeOK /\ SameMessage /\ OnDeviceChannel /\ TypeOfPort /\ TypeOfDue
  BY TypeParts, Zenon DEF ByteInv
<1>1. /\ b \in 128..239
      /\ state' = IF b \in 192..223 THEN "1PARAM" ELSE "2PARAM_1"
      /\ data0' = Addressed(b) /\ data1' = data1 /\ packet' = <<>>
  BY DEF ChannelByte, Silent
<1>2. channel \in 0..MIDI_INVALID_CHANNEL /\ channel' = channel
  BY <1>0, ChannelAssumption, TypeParts DEF Beside
<1>3. /\ Addressed(b) \in 128..239
      /\ Addressed(b) \in 192..223 <=> b \in 192..223
      /\ Rechannel => Addressed(b) % 16 = channel
  BY <1>1, <1>2, AddressedKind
<1>4. due_status' = Addressed(b) /\ due_params' = <<>>
  BY <1>1 DEF Beside, Follow, RealTime, IsStatus
<1>5. ByteTypeOK'
  <2>1. TypeOfPort'
    BY <1>0, <1>1, <1>3 DEF TypeOfPort
  <2>2. TypeOfDue'
    BY <1>3, <1>4 DEF TypeOfDue, None
  <2>3. packet' \in Seq(0..255) /\ Len(packet') \leq 3
    BY <1>1
  <2>4. channel' \in Channels /\ renumbered' \in BOOLEAN
    BY <1>0, BesideType
  <2> QED BY <2>1, <2>2, <2>3, <2>4, Zenon DEF ByteTypeOK, TypeOfPort, TypeOfDue
<1>6. SameMessage'
  <2>1. data0' = due_status' /\ due_status' \in 128..239 /\ due_params' = <<>>
    BY <1>1, <1>3, <1>4
  <2>2. CASE b \in 192..223
    <3>1. state' = "1PARAM" /\ due_status' \in 192..223
      BY <1>1, <1>3, <1>4, <2>2
    <3> QED BY <2>1, <3>1 DEF SameMessage, TakesOne, TakesTwo, None, SysEx
  <2>3. CASE b \notin 192..223
    <3>1. state' = "2PARAM_1" /\ due_status' \notin 192..223
      BY <1>1, <1>3, <1>4, <2>3
    <3> QED BY <2>1, <3>1 DEF SameMessage, TakesOne, TakesTwo, None, SysEx
  <2> QED BY <2>2, <2>3
<1>7. OnDeviceChannel'
  BY <1>1, <1>2, <1>3 DEF OnDeviceChannel, Rechannel
<1>8. OutputAsWritten(b)
  <2>1. HeldBefore(b) = <<>>
    BY <1>1 DEF HeldBefore, BreaksOff, IsStatus, EndOfSysEx
  <2>2. Due(b) = <<>>
    <3>1. /\ ~RealTime(b) /\ ~(b < 128)
          /\ b # 240 /\ b # 246 /\ b # 247
      BY <1>1 DEF RealTime
    <3> QED BY <3>1, Zenon DEF Due, SysEx, EndOfSysEx
  <2>3. Held' = <<>>
    <3>1. state' = "1PARAM" \/ state' = "2PARAM_1"
      BY <1>1
    <3> QED BY <3>1 DEF Held
  <2>4. ~RealTime(b)
    BY <1>1 DEF RealTime
  <2> QED BY <1>1, <2>1, <2>2, <2>3, <2>4, Zenon DEF OutputAsWritten
<1> QED BY <1>5, <1>6, <1>7, <1>8 DEF ByteInv

(* What a data byte leaves alone.                                          *)
LEMMA DataBeside ==
  ASSUME ByteInv, NEW b \in 0..127, Beside(b)
  PROVE  /\ FollowData(b)
         /\ channel' = channel /\ channel' \in Channels
         /\ renumbered' \in BOOLEAN /\ (renumbered' <=> renumbered)
<1>1. ~IsStatus(b) /\ ~RealTime(b)
  BY DEF IsStatus, RealTime
<1>2. FollowData(b)
  BY <1>1, Zenon DEF Beside, Follow
<1>3. ByteTypeOK
  BY DEF ByteInv
<1> QED BY <1>1, <1>2, <1>3, BesideType, Zenon DEF Beside

LEMMA ParameterStep ==
  ASSUME ByteInv, NEW b \in Bytes, b < 128, Parameter(b), Beside(b)
  PROVE  ByteInv' /\ OutputAsWritten(b)
<1>0. ByteTypeOK /\ SameMessage /\ OnDeviceChannel /\ TypeOfPort /\ TypeOfDue
  BY TypeParts, Zenon DEF ByteInv
<1>1. b \in 0..127 /\ ~RealTime(b) /\ ~BreaksOff(b)
  BY BytesAssumption DEF RealTime, BreaksOff, IsStatus
<1>2. /\ FollowData(b)
      /\ channel' = channel /\ channel' \in Channels
      /\ renumbered' \in BOOLEAN /\ (renumbered' <=> renumbered)
  BY <1>1, DataBeside
<1>3. /\ data0 \in 0..255 /\ data1 \in 0..127 /\ due_status \in {None} \cup 128..255
  BY <1>0 DEF TypeOfPort, TypeOfDue
<1>4. HeldBefore(b) = <<>>
  BY <1>1 DEF HeldBefore, Held, Parameter
<1> SUFFICES /\ TypeOfPort' /\ TypeOfDue'
             /\ packet' \in Seq(0..255) /\ Len(packet') \leq 3
             /\ SameMessage' /\ OnDeviceChannel'
             /\ Due(b) = packet' /\ Held' = <<>>
  <2>1. ByteTypeOK'
    BY <1>2, Zenon DEF ByteTypeOK, TypeOfPort, TypeOfDue
  <2>3. <<>> \o packet' = packet' \o <<>>
    BY ConcatEmptySeq
  <2> QED BY <1>1, <1>4, <2>1, <2>3, Zenon DEF ByteInv, OutputAsWritten
<1>5. CASE state = "1PARAM"
  <2>1. /\ state' = IF data0 >= SysEx THEN "UNKNOWN" ELSE "1PARAM"
        /\ packet' = <<data0, b>> /\ data0' = data0 /\ data1' = data1
    BY <1>5 DEF Parameter, Output
  <2>2. TakesOne(due_status) /\ data0 = due_status /\ due_params = <<>>
    BY <1>0, <1>5 DEF SameMessage
  <2>3. /\ due_status' = IF data0 > SysEx THEN None ELSE data0
        /\ due_params' = <<>>
    BY <1>2, <1>3, <2>2 DEF FollowData, TakesOne, TakesTwo, SysEx, None
  <2>4. TypeOfPort' /\ TypeOfDue'
    BY <1>3, <2>1, <2>2, <2>3 DEF TypeOfPort, TypeOfDue, TakesOne
  <2>5. SameMessage'
    BY <1>3, <2>1, <2>2, <2>3 DEF SameMessage, TakesOne, TakesTwo, None, SysEx
  <2>6. OnDeviceChannel'
    BY <1>0, <1>2, <1>5, <2>1 DEF OnDeviceChannel, Rechannel, SysEx
  <2>7. Due(b) = packet' /\ Held' = <<>>
    BY <1>1, <2>1, <2>2 DEF Due, RealTime, SysEx, EndOfSysEx, TakesOne, TakesTwo, Held
  <2>8. packet' \in Seq(0..255) /\ Len(packet') \leq 3
    BY <1>1, <1>3, <2>1
  <2> QED BY <2>4, <2>5, <2>6, <2>7, <2>8
<1>6. CASE state = "2PARAM_1"
  <2>1. /\ state' = "2PARAM_2"
        /\ packet' = <<>> /\ data0' = data0 /\ data1' = b
    BY <1>6 DEF Parameter, Silent
  <2>2. TakesTwo(due_status) /\ data0 = due_status /\ due_params = <<>>
    BY <1>0, <1>6 DEF SameMessage
  <2>3. due_status' = data0 /\ due_params' = <<b>>
    BY <1>2, <1>3, <2>2 DEF FollowData, TakesOne, TakesTwo, SysEx, None
  <2>4. TypeOfPort' /\ TypeOfDue'
    BY <1>1, <1>3, <2>1, <2>2, <2>3 DEF TypeOfPort, TypeOfDue, TakesTwo
  <2>5. SameMessage'
    BY <1>3, <2>1, <2>2, <2>3 DEF SameMessage, TakesOne, TakesTwo, None, SysEx
  <2>6. OnDeviceChannel'
    BY <1>0, <1>2, <1>6, <2>1 DEF OnDeviceChannel, Rechannel, SysEx
  <2>7. Due(b) = packet' /\ Held' = <<>>
    <3>1. Len(due_params) = 0 /\ due_status # SysEx /\ ~TakesOne(due_status)
      BY <2>2 DEF TakesOne, TakesTwo, SysEx
    <3>2. Due(b) = <<>>
      BY <1>1, <3>1 DEF Due, RealTime, SysEx, EndOfSysEx
    <3> QED BY <2>1, <3>2 DEF Held
  <2>8. packet' \in Seq(0..255) /\ Len(packet') \leq 3
    BY <2>1
  <2> QED BY <2>4, <2>5, <2>6, <2>7, <2>8
<1>7. CASE state = "2PARAM_2"
  <2>1. /\ state' = IF data0 < SysEx THEN "2PARAM_1" ELSE "UNKNOWN"
        /\ packet' = <<data0, data1, b>> /\ data0' = data0 /\ data1' = data1
    BY <1>7 DEF Parameter, Output
  <2>2. TakesTwo(due_status) /\ data0 = due_status /\ due_params = <<data1>>
    BY <1>0, <1>7 DEF SameMessage
  <2>3. /\ due_status' = IF data0 > SysEx THEN None ELSE data0
        /\ due_params' = <<>>
    BY <1>2, <1>3, <2>2 DEF FollowData, TakesOne, TakesTwo, SysEx, None
  <2>4. TypeOfPort' /\ TypeOfDue'
    BY <1>3, <2>1, <2>2, <2>3 DEF TypeOfPort, TypeOfDue, TakesTwo
  <2>5. SameMessage'
    BY <1>3, <2>1, <2>2, <2>3 DEF SameMessage, TakesOne, TakesTwo, None, SysEx
  <2>6. OnDeviceChannel'
    BY <1>0, <1>2, <1>7, <2>1 DEF OnDeviceChannel, Rechannel, SysEx
  <2>7. Due(b) = packet' /\ Held' = <<>>
    BY <1>1, <2>1, <2>2 DEF Due, RealTime, SysEx, EndOfSysEx, TakesOne, TakesTwo, Held
  <2>8. packet' \in Seq(0..255) /\ Len(packet') \leq 3
    BY <1>1, <1>3, <2>1
  <2> QED BY <2>4, <2>5, <2>6, <2>7, <2>8
<1> QED BY <1>5, <1>6, <1>7 DEF Parameter

LEMMA SysExStep ==
  ASSUME ByteInv, NEW b \in Bytes, b < 128, SysExByte(b), Beside(b)
  PROVE  ByteInv' /\ OutputAsWritten(b)
<1>0. ByteTypeOK /\ SameMessage /\ OnDeviceChannel /\ TypeOfPort /\ TypeOfDue
  BY TypeParts, Zenon DEF ByteInv
<1>1. b \in 0..127 /\ ~RealTime(b) /\ ~BreaksOff(b)
  BY BytesAssumption DEF RealTime, BreaksOff, IsStatus
<1>2. /\ FollowData(b)
      /\ channel' = channel /\ channel' \in Channels
      /\ renumbered' \in BOOLEAN /\ (renumbered' <=> renumbered)
  BY <1>1, DataBeside
<1>3. data0 \in 0..255 /\ data1 \in 0..127 /\ due_status = SysEx /\ due_params = <<>>
  BY <1>0 DEF TypeOfPort, SameMessage, SysExByte
<1>4. ~TakesOne(due_status) /\ ~TakesTwo(due_status)
  BY <1>3 DEF TakesOne, TakesTwo, SysEx
<1>5. Due(b) = <<b>>
  <2>1. b # 240 /\ b # 246 /\ b # 247
    BY <1>1
  <2> QED BY <1>1, <1>3, <1>4, <2>1, Zenon DEF Due, SysEx, EndOfSysEx
<1>6. due_status' = SysEx /\ due_params' = <<>>
  <2>1. UNCHANGED dueVars
    BY <1>2, <1>4, Zenon DEF FollowData
  <2> QED BY <1>3, <2>1 DEF dueVars
<1>7. HeldBefore(b) = Held
  BY <1>1 DEF HeldBefore
<1>8. b \in Int /\ data0 \in Int /\ data1 \in Int
  BY <1>1, <1>3
<1>9. state' \in {"SYSEX_0", "SYSEX_1", "SYSEX_2"}
  BY DEF SysExByte
<1>10. SameMessage' /\ OnDeviceChannel'
  <2>1. SameMessage'
    BY <1>6, <1>9 DEF SameMessage, TakesOne, TakesTwo, SysEx, None
  <2>2. OnDeviceChannel'
    BY <1>9 DEF OnDeviceChannel
  <2> QED BY <2>1, <2>2
<1> SUFFICES /\ TypeOfPort'
             /\ packet' \in Seq(0..255) /\ Len(packet') \leq 3
             /\ Held \o <<b>> = packet' \o Held'
  <2>1. TypeOfDue'
    BY <1>6 DEF TypeOfDue, SysEx
  <2>2. ByteTypeOK'
    BY <1>2, <2>1, Zenon DEF ByteTypeOK, TypeOfPort, TypeOfDue
  <2> QED BY <1>1, <1>5, <1>7, <1>10, <2>2, Zenon DEF ByteInv, OutputAsWritten
<1>11. CASE state = "SYSEX_0"
  <2>1. state' = "SYSEX_1" /\ data0' = b /\ data1' = data1 /\ packet' = <<>>
    BY <1>11 DEF SysExByte, Silent
  <2>2. Held = <<>> /\ Held' = <<b>>
    BY <1>11, <2>1 DEF Held
  <2>3. TypeOfPort' /\ packet' \in Seq(0..255) /\ Len(packet') \leq 3
    BY <1>1, <1>3, <2>1 DEF TypeOfPort
  <2> QED BY <2>1, <2>2, <2>3, Zenon
<1>12. CASE state = "SYSEX_1"
  <2>1. state' = "SYSEX_2" /\ data0' = data0 /\ data1' = b /\ packet' = <<>>
    BY <1>12 DEF SysExByte, Silent
  <2>2. Held = <<data0>> /\ Held' = <<data0, b>>
    BY <1>12, <2>1 DEF Held
  <2>3. TypeOfPort' /\ packet' \in Seq(0..255) /\ Len(packet') \leq 3
    BY <1>1, <1>3, <2>1 DEF TypeOfPort
  <2>4. <<data0>> \o <<b>> = <<data0, b>> /\ <<>> \o <<data0, b>> = <<data0, b>>
    BY <1>8, JoinedThree
  <2> QED BY <2>1, <2>2, <2>3, <2>4, Zenon
<1>13. CASE state = "SYSEX_2"
  <2>1. /\ state' = "SYSEX_0" /\ data0' = data0 /\ data1' = data1
        /\ packet' = <<data0, data1, b>>
    BY <1>13 DEF SysExByte, Output
  <2>2. Held = <<data0, data1>> /\ Held' = <<>>
    BY <1>13, <2>1 DEF Held
  <2>3. TypeOfPort'
    BY <1>3, <2>1 DEF TypeOfPort
  <2>4. packet' \in Seq(0..255) /\ Len(packet') \leq 3
    BY <1>1, <1>3, <2>1
  <2>5. /\ <<data0, data1>> \o <<b>> = <<data0, data1, b>>
        /\ <<data0, data1, b>> \o <<>> = <<data0, data1, b>>
    BY <1>8, JoinedThree
  <2> QED BY <2>1, <2>2, <2>3, <2>4, <2>5, Zenon
<1> QED BY <1>11, <1>12, <1>13 DEF SysExByte

LEMMA StrayStep ==
  ASSUME ByteInv, NEW b \in Bytes, b < 128, state = "UNKNOWN", Silent,
         UNCHANGED portVars, Beside(b)
  PROVE  ByteInv' /\ OutputAsWritten(b)
<1>0. ByteTypeOK /\ SameMessage /\ OnDeviceChannel
  BY DEF ByteInv
<1>1. b \in 0..127 /\ ~RealTime(b) /\ ~BreaksOff(b)
  BY BytesAssumption DEF RealTime, BreaksOff, IsStatus
<1>2. /\ FollowData(b)
      /\ channel' = channel /\ channel' \in Channels
      /\ renumbered' \in BOOLEAN /\ (renumbered' <=> renumbered)
  BY <1>1, DataBeside
<1>3. due_status = None /\ due_params = <<>>
  BY <1>0 DEF SameMessage
<1>4. ~TakesOne(due_status) /\ ~TakesTwo(due_status) /\ due_status # SysEx
  BY <1>3 DEF TakesOne, TakesTwo, None, SysEx
<1>5. UNCHANGED <<state, data0, data1, due_status, due_params>> /\ packet' = <<>>
  <2>1. UNCHANGED dueVars
    BY <1>2, <1>4, Zenon DEF FollowData
  <2> QED BY <2>1 DEF dueVars, portVars, Silent
<1>6. ByteTypeOK'
  <2>1. TypeOfPort' /\ TypeOfDue'
    BY <1>0, <1>5, TypeParts DEF TypeOfPort, TypeOfDue, None
  <2>2. packet' \in Seq(0..255) /\ Len(packet') \leq 3
    BY <1>5
  <2> QED BY <1>2, <2>1, <2>2, Zenon DEF ByteTypeOK, TypeOfPort, TypeOfDue
<1>7. SameMessage' /\ OnDeviceChannel'
  BY <1>0, <1>5 DEF SameMessage, OnDeviceChannel, TakesOne, TakesTwo
<1>8. OutputAsWritten(b)
  <2>1. Due(b) = <<>>
    <3>1. b # 240 /\ b # 246 /\ b # 247
      BY <1>1
    <3> QED BY <1>1, <1>4, <3>1, Zenon DEF Due, SysEx, EndOfSysEx
  <2>2. Held = <<>> /\ Held' = <<>>
    BY <1>5 DEF Held
  <2> QED BY <1>1, <1>5, <2>1, <2>2, Zenon DEF OutputAsWritten, HeldBefore
<1> QED BY <1>6, <1>7, <1>8 DEF ByteInv

LEMMA TransmitStep ==
  ASSUME ByteInv, NEW b \in Bytes, snd_hdjmidi_transmit_byte(b)
  PROVE  ByteInv' /\ OutputAsWritten(b)
<1>1. Beside(b)
  BY Zenon DEF snd_hdjmidi_transmit_byte, Beside
<1>2. CASE DataByte(b)
  BY <1>1, <1>2, ParameterStep, SysExStep, StrayStep, Zenon DEF DataByte
<1> QED BY <1>1, <1>2, RealTimeStep, SystemStep, ChannelStep, Zenon
       DEF snd_hdjmidi_transmit_byte

-----------------------------------------------------------------------------
(* A new client, and a new channel.                                        *)
LEMMA OutputOpenStep ==
  ASSUME ByteInv, OutputOpen
  PROVE  ByteInv'
<1>0. ByteTypeOK /\ SameMessage /\ OnDeviceChannel /\ TypeOfPort /\ TypeOfDue
  BY TypeParts, Zenon DEF ByteInv
<1>1. /\ state' = "UNKNOWN" /\ data0' = data0 /\ data1' = data1
      /\ due_status' = None /\ due_params' = <<>> /\ packet' = <<>>
  BY DEF OutputOpen
<1>2. channel' \in Channels /\ renumbered' \in BOOLEAN
  BY <1>0, Zenon DEF OutputOpen, ByteTypeOK
<1>3. TypeOfPort' /\ TypeOfDue' /\ packet' \in Seq(0..255) /\ Len(packet') \leq 3
  BY <1>0, <1>1 DEF TypeOfPort, TypeOfDue
<1>4. SameMessage'
  BY <1>1 DEF SameMessage, TakesOne, TakesTwo, None, SysEx
<1>5. OnDeviceChannel'
  BY <1>1 DEF OnDeviceChannel
<1> QED BY <1>2, <1>3, <1>4, <1>5, Zenon DEF ByteInv, ByteTypeOK, TypeOfPort, TypeOfDue

LEMMA SetChannelStep ==
  ASSUME ByteInv, NEW c \in Channels, SetChannel(c)
  PROVE  ByteInv'
<1>0. ByteTypeOK /\ SameMessage /\ OnDeviceChannel /\ TypeOfPort /\ TypeOfDue
  BY TypeParts, Zenon DEF ByteInv
<1>1. /\ state' = state /\ data0' = data0 /\ data1' = data1
      /\ due_status' = due_status /\ due_params' = due_params /\ packet' = <<>>
  BY DEF SetChannel, portVars, dueVars
<1>2. channel' \in Channels /\ renumbered' = TRUE
  BY DEF SetChannel
<1>3. TypeOfPort' /\ TypeOfDue' /\ packet' \in Seq(0..255) /\ Len(packet') \leq 3
  BY <1>0, <1>1 DEF TypeOfPort, TypeOfDue, None
<1>4. SameMessage'
  BY <1>0, <1>1 DEF SameMessage, TakesOne, TakesTwo
<1>5. OnDeviceChannel'
  BY <1>2, Zenon DEF OnDeviceChannel
<1> QED BY <1>2, <1>3, <1>4, <1>5, Zenon DEF ByteInv, ByteTypeOK, TypeOfPort, TypeOfDue

LEMMA ByteStep == ByteInv /\ [ByteNext]_byteVars => ByteInv'
<1> SUFFICES ASSUME ByteInv, [ByteNext]_byteVars PROVE ByteInv'
  OBVIOUS
<1>1. CASE ByteNext
  BY <1>1, TransmitStep, OutputOpenStep, SetChannelStep, Zenon DEF ByteNext
<1>2. CASE UNCHANGED byteVars
  <2>1. /\ state' = state /\ data0' = data0 /\ data1' = data1
        /\ packet' = packet /\ channel' = channel /\ renumbered' = renumbered
        /\ due_status' = due_status /\ due_params' = due_params
    BY <1>2, Zenon DEF byteVars, portVars, dueVars
  <2>2. ByteTypeOK'
    BY <2>1 DEF ByteInv, ByteTypeOK
  <2>3. SameMessage' /\ OnDeviceChannel'
    BY <2>1 DEF ByteInv, SameMessage, OnDeviceChannel, Rechannel, TakesOne, TakesTwo
  <2> QED BY <2>2, <2>3 DEF ByteInv
<1> QED BY <1>1, <1>2

(* The byte machine keeps its invariant, whoever writes and whatever the   *)
(* channel is set to.                                                      *)
THEOREM ByteCorrect == ByteSpec => []ByteInv
BY ByteInitInv, ByteStep, PTL DEF ByteSpec

-----------------------------------------------------------------------------
(* The output path takes bytes only by the byte machine's own steps.       *)
LEMMA NextByte == [Next]_vars => [ByteNext]_byteVars
<1> SUFFICES ASSUME [Next]_vars PROVE ByteNext \/ UNCHANGED byteVars
  BY Zenon
<1>1. CASE Open
  BY <1>1, Zenon DEF Open, ByteNext
<1>2. CASE Take
  BY <1>2, Zenon DEF Take, ByteNext
<1>3. CASE Renumber
  BY <1>3, Zenon DEF Renumber, ByteNext
<1>4. CASE Close \/ Write \/ Trigger
  BY <1>4 DEF Close, Write, Trigger, TriggerUp, TriggerLooks, TriggerSchedules
<1>5. CASE RunTasklet \/ DelayTimerFires \/ ErrorTimerFires
  BY <1>5 DEF RunTasklet, DelayTimerFires, ErrorTimerFires
<1>6. CASE Fill \/ FindEmpty \/ NoLongerActive \/ Look \/ Submit \/ SubmitFails
  BY <1>6 DEF Fill, FindEmpty, NoLongerActive, Look, Submit, SubmitFails
<1>7. CASE Complete \/ Handler \/ TimePasses
  BY <1>7 DEF Complete, Handler, HandlerFrees, HandlerLooks, HandlerOutputs, TimePasses
<1>8. CASE Suspend \/ PowerStep \/ Resume \/ Disconnect
  BY <1>8 DEF Suspend, PowerStep, DelErrorTimer, KillTasklet, KillUrb, Resume, Disconnect
<1>9. CASE UNCHANGED vars
  BY <1>9 DEF vars
<1> QED BY <1>1, <1>2, <1>3, <1>4, <1>5, <1>6, <1>7, <1>8, <1>9, Zenon
       DEF Next, DoOutput

(* MidiOutput takes bytes only by steps of the byte machine.               *)
THEOREM OutputImplementsBytes == Spec => ByteSpec
<1>1. Init => ByteInit
  BY DEF Init
<1> QED BY <1>1, NextByte, PTL DEF Spec, ByteSpec

(* What the port is in the middle of is what the protocol says the client  *)
(* is in the middle of.                                                    *)
THEOREM SameMessageCorrect == Spec => []SameMessage
<1>1. ByteInv => SameMessage
  BY DEF ByteInv
<1> QED BY <1>1, ByteCorrect, OutputImplementsBytes, PTL

(* A channel message carries the device's own channel.                     *)
THEOREM OnDeviceChannelCorrect == Spec => []OnDeviceChannel
<1>1. ByteInv => OnDeviceChannel
  BY DEF ByteInv
<1> QED BY <1>1, ByteCorrect, OutputImplementsBytes, PTL

(* Every message reaches a packet whole, once and in order.                *)
THEOREM AsWrittenCorrect == Spec => AsWritten
<1>1. ByteInv => [\A b \in Bytes : snd_hdjmidi_transmit_byte(b) => OutputAsWritten(b)]_byteVars
  BY TransmitStep
<1> QED BY <1>1, ByteCorrect, OutputImplementsBytes, PTL DEF AsWritten

-----------------------------------------------------------------------------
(* Who fills the URB holds it: it is marked active from its submission to  *)
(* the beginning of its completion handler, and no one fills it then.      *)
LEMMA UrbStep == UrbInv /\ [Next]_vars => UrbInv'
<1> SUFFICES ASSUME UrbInv, [Next]_vars PROVE UrbInv'
  OBVIOUS
<1> USE DEF UrbInv
<1>1. CASE Open \/ Close \/ Write \/ Renumber
  BY <1>1 DEF Open, Close, Write, Renumber, urbVars, runVars, ghostVars
<1>2. CASE Trigger
  BY <1>2 DEF Trigger, TriggerUp, TriggerLooks, TriggerSchedules, urbVars, runVars, ghostVars
<1>3. CASE RunTasklet \/ ErrorTimerFires
  BY <1>3 DEF RunTasklet, ErrorTimerFires, Enter, Leave, ghostVars
<1>4. CASE DelayTimerFires
  BY <1>4 DEF DelayTimerFires, ghostVars
<1>5. CASE Fill \/ Take \/ FindEmpty \/ NoLongerActive
  BY <1>5 DEF Fill, Take, FindEmpty, NoLongerActive, urbVars, runVars, ghostVars
<1>6. CASE Look
  BY <1>6 DEF Look, NothingToSend, Refused, Leave
<1>7. CASE Submit
  BY <1>7 DEF Submit, Leave, ghostVars
<1>8. CASE SubmitFails
  BY <1>8 DEF SubmitFails, Refused, Leave
<1>9. CASE Complete
  BY <1>9 DEF Complete, runVars
<1>10. CASE Handler
  <2>1. CASE HandlerFrees
    BY <2>1 DEF HandlerFrees, runVars, ghostVars
  <2>2. CASE HandlerLooks
    <3>1. /\ UNCHANGED <<output, urb_active, flight, upsets>>
          /\ handler = "look" /\ handler' \in {"none", "output"}
      BY <2>2 DEF HandlerLooks, urbVars
    <3> QED BY <3>1
  <2>3. CASE HandlerOutputs
    BY <2>3 DEF HandlerOutputs, Enter, Leave, ghostVars
  <2> QED BY <1>10, <2>1, <2>2, <2>3 DEF Handler
<1>11. CASE TimePasses
  BY <1>11 DEF TimePasses, urbVars, ghostVars
<1>12. CASE Suspend \/ Resume \/ Disconnect
  <2>1. UNCHANGED <<output, urb_active, flight, handler>>
    BY <1>12, Zenon DEF Suspend, Resume, Disconnect, urbVars, runVars
  <2>2. upsets' = upsets + 1 \/ upsets' = upsets
    BY <1>12, Zenon DEF Suspend, Resume, Disconnect, ghostVars
  <2> QED BY <2>1, <2>2
<1>13. CASE PowerStep
  <2>1. UNCHANGED <<output, urb_active, upsets>>
    BY <1>13, Zenon DEF PowerStep, DelErrorTimer, KillTasklet, KillUrb, urbVars, runVars,
                        ghostVars
  <2>2. \/ UNCHANGED <<flight, handler>>
        \/ flight /\ flight' = FALSE /\ handler' = "done"
    BY <1>13, Zenon DEF PowerStep, DelErrorTimer, KillTasklet, KillUrb, urbVars
  <2> QED BY <2>1, <2>2
<1>14. CASE UNCHANGED vars
  BY <1>14 DEF vars, urbVars, runVars, ghostVars
<1> QED BY <1>1, <1>2, <1>3, <1>4, <1>5, <1>6, <1>7, <1>8, <1>9, <1>10, <1>11, <1>12,
           <1>13, <1>14, Zenon DEF Next, DoOutput

(* The URB is active from its submission to the end of its handler.        *)
THEOREM UrbCorrect == Spec => []UrbInv
<1>1. Init => UrbInv
  BY DEF Init, UrbInv
<1> QED BY <1>1, UrbStep, PTL DEF Spec

(* do_output never touches the URB while the host controller has it.       *)
THEOREM UrbUntouchedCorrect == Spec => []UrbUntouchedInFlight
<1>1. UrbInv => UrbUntouchedInFlight
  BY DEF UrbInv, UrbUntouchedInFlight
<1> QED BY <1>1, UrbCorrect, PTL

(* Bytes taken from the client are lost only in a sleep, after a           *)
(* disconnect or by an error of the submission itself.                     *)
LEMMA LostStep ==
  UrbInv /\ [Next]_vars => [ThrownAway => forbidden \/ shutdown \/ upsets' > upsets]_vars
<1> SUFFICES ASSUME UrbInv, Next, ThrownAway
             PROVE  forbidden \/ shutdown \/ upsets' > upsets
  BY Zenon
<1>1. output \in {"send", "submit"} /\ output' = "idle" /\ filled > 0 /\ ~urb_active'
  BY DEF ThrownAway
<1>2. CASE Look
  BY <1>1, <1>2 DEF Look, NothingToSend
<1>3. CASE SubmitFails
  BY <1>1, <1>3 DEF SubmitFails, UrbInv
<1>4. CASE Submit
  BY <1>1, <1>4 DEF Submit
<1>5. CASE Fill \/ Take \/ FindEmpty \/ NoLongerActive
  BY <1>1, <1>5 DEF Fill, Take, FindEmpty, NoLongerActive, runVars
<1>6. CASE Open \/ Close \/ Write \/ Trigger \/ Renumber
  BY <1>1, <1>6 DEF Open, Close, Write, Trigger, TriggerUp, TriggerLooks,
                    TriggerSchedules, Renumber, runVars
<1>7. CASE RunTasklet \/ DelayTimerFires \/ ErrorTimerFires
  BY <1>1, <1>7 DEF RunTasklet, DelayTimerFires, ErrorTimerFires
<1>8. CASE Complete \/ Handler \/ TimePasses
  BY <1>1, <1>8 DEF Complete, Handler, HandlerFrees, HandlerLooks, HandlerOutputs,
                    TimePasses, runVars
<1>9. CASE Suspend \/ PowerStep \/ Resume \/ Disconnect
  BY <1>1, <1>9 DEF Suspend, PowerStep, DelErrorTimer, KillTasklet, KillUrb, Resume,
                    Disconnect, runVars
<1> QED BY <1>2, <1>3, <1>4, <1>5, <1>6, <1>7, <1>8, <1>9, Zenon DEF Next, DoOutput

(* Whatever is lost of what a client wrote is lost for one of the reasons. *)
THEOREM LostCorrect == Spec => LostForAReason
BY UrbCorrect, LostStep, PTL DEF Spec, LostForAReason
-----------------------------------------------------------------------------
(* Nothing is left behind.                                                 *)

(* The buffers hold what they have room for: a packet is only made while a *)
(* whole one still fits.                                                   *)
LEMMA WithinStep == Within /\ ByteInv' /\ [Next]_vars => Within'
<1>1. SUFFICES ASSUME Within, ByteInv', [Next]_vars PROVE Within'
  OBVIOUS
<1>2. 0 \in 0..Room /\ 0 \in 0..MaxTransfer /\ Room \in Nat /\ MaxTransfer \in Nat
  BY RoomAssumption, TransferAssumption
<1>3. pending \in 0..Room /\ filled \in 0..MaxTransfer
  BY <1>1 DEF Within
<1>4. CASE Write
  BY <1>2, <1>3, <1>4 DEF Write, urbVars, Within
<1>5. CASE Take
  <2>1. packet' \in Seq(0..255) /\ Len(packet') \leq 3
    BY <1>1, Zenon DEF ByteInv, ByteTypeOK
  <2>2. Len(packet') \in 0..3
    <3>1. Len(packet') \in Nat
      BY <2>1, LenProperties, Zenon
    <3>2. \A l \in Nat : l \leq 3 => l \in 0..3
      OBVIOUS
    <3>  QED  BY <2>1, <3>1, <3>2, Zenon
  <2>3. /\ pending > 0 /\ pending' = pending - 1 /\ filled' = filled + Len(packet')
        /\ filled + 3 < MaxTransfer
    BY <1>5 DEF Take, Fits
  <2>4. \A l \in 0..3 : filled + 3 < MaxTransfer => filled + l \in 0..MaxTransfer
    BY <1>2, <1>3
  <2>5. pending > 0 => pending - 1 \in 0..Room
    BY <1>2, <1>3
  <2>  QED  BY <2>2, <2>3, <2>4, <2>5, Zenon DEF Within
<1>6. (pending' \in {pending, 0} /\ filled' \in {filled, 0}) \/ Write \/ Take
  <2>1. CASE Open \/ Close \/ Trigger \/ Renumber
    BY <2>1 DEF Open, Close, Trigger, TriggerUp, TriggerLooks, TriggerSchedules, Renumber,
                urbVars, clientVars
  <2>2. CASE RunTasklet \/ DelayTimerFires \/ ErrorTimerFires \/ HandlerOutputs
    BY <2>2 DEF RunTasklet, DelayTimerFires, ErrorTimerFires, HandlerOutputs, Enter, clientVars
  <2>3. CASE Fill \/ FindEmpty \/ NoLongerActive \/ Look \/ Submit \/ SubmitFails
    BY <2>3 DEF Fill, FindEmpty, NoLongerActive, Look, Submit, SubmitFails, clientVars, urbVars
  <2>4. CASE Complete \/ HandlerFrees \/ HandlerLooks \/ TimePasses
    BY <2>4 DEF Complete, HandlerFrees, HandlerLooks, TimePasses, clientVars, urbVars
  <2>5. CASE Suspend \/ PowerStep \/ Resume \/ Disconnect
    BY <2>5, Zenon DEF Suspend, PowerStep, DelErrorTimer, KillTasklet, KillUrb, Resume,
                       Disconnect, clientVars, urbVars
  <2>6. CASE UNCHANGED vars
    BY <2>6 DEF vars, clientVars, urbVars
  <2>  QED  BY <1>1, <2>1, <2>2, <2>3, <2>4, <2>5, <2>6, Zenon DEF Next, DoOutput, Handler
<1>  QED  BY <1>2, <1>3, <1>4, <1>5, <1>6 DEF Within

(* A sleep and a disconnect excuse what is not sent until the first        *)
(* trigger after they have ended.                                          *)
LEMMA PowerStepExcuses == PowerExcuses /\ [Next]_vars => PowerExcuses'
<1>1. SUFFICES ASSUME PowerExcuses, [Next]_vars PROVE PowerExcuses'
  OBVIOUS
<1>2. CASE UNCHANGED <<forbidden, shutdown, power>> /\ (excused => excused')
  BY <1>1, <1>2 DEF PowerExcuses
<1>3. CASE TriggerSchedules
  <2>1. UNCHANGED <<forbidden, shutdown, power>> /\ excused' = (forbidden \/ power # "on")
    BY <1>3 DEF TriggerSchedules, chipVars
  <2>  QED  BY <1>1, <2>1 DEF PowerExcuses
<1>4. CASE Suspend \/ Disconnect
  <2>1. excused'
    BY <1>4 DEF Suspend, Disconnect
  <2>2. shutdown' => power' \in {"gone timer", "gone kill", "gone tasklet", "gone"}
    BY <1>1, <1>4 DEF Suspend, Disconnect, PowerExcuses
  <2>  QED  BY <2>1, <2>2, Zenon DEF PowerExcuses
<1>5. CASE Resume
  <2>1. /\ power = "asleep" /\ power' = "on" /\ ~forbidden'
        /\ shutdown' = shutdown /\ excused' = excused
    BY <1>5, Zenon DEF Resume, ghostVars
  <2>2. ~shutdown
    BY <1>1, <2>1 DEF PowerExcuses
  <2>  QED  BY <2>1, <2>2 DEF PowerExcuses
<1>6. CASE PowerStep
  <2>1. UNCHANGED <<forbidden, shutdown, excused>> /\ power # "on"
    BY <1>6, Zenon DEF PowerStep, DelErrorTimer, KillTasklet, KillUrb, ghostVars
  <2>2. power \in {"gone timer", "gone kill", "gone tasklet", "gone"} =>
          power' \in {"gone kill", "gone tasklet", "gone"}
    BY <1>6 DEF PowerStep, DelErrorTimer, KillTasklet, KillUrb
  <2>  QED  BY <1>1, <2>1, <2>2 DEF PowerExcuses
<1>7. CASE Open \/ Close \/ Write \/ TriggerUp \/ TriggerLooks \/ Renumber
  BY <1>2, <1>7 DEF Open, Close, Write, TriggerUp, TriggerLooks, Renumber, chipVars, ghostVars
<1>8. CASE RunTasklet \/ DelayTimerFires \/ ErrorTimerFires \/ HandlerOutputs
  BY <1>2, <1>8 DEF RunTasklet, DelayTimerFires, ErrorTimerFires, HandlerOutputs, chipVars,
                    ghostVars
<1>9. CASE DoOutput
  BY <1>2, <1>9 DEF DoOutput, Fill, Take, FindEmpty, NoLongerActive, Look, Submit, SubmitFails,
                    chipVars, ghostVars
<1>10. CASE Complete \/ HandlerFrees \/ HandlerLooks \/ TimePasses
  <2>1. CASE Complete \/ HandlerFrees \/ TimePasses
    BY <1>2, <2>1 DEF Complete, HandlerFrees, TimePasses, chipVars, ghostVars
  <2>2. CASE HandlerLooks
    <3>1. UNCHANGED chipVars /\ (excused => excused')
      BY <2>2, Zenon DEF HandlerLooks
    <3>  QED  BY <1>2, <3>1 DEF chipVars
  <2>  QED  BY <1>10, <2>1, <2>2
<1>11. CASE UNCHANGED vars
  BY <1>2, <1>11 DEF vars, chipVars, ghostVars
<1>  QED  BY <1>1, <1>3, <1>4, <1>5, <1>6, <1>7, <1>8, <1>9, <1>10, <1>11, Zenon
          DEF Next, Handler, Trigger

(* Bytes of a port that is no longer active were put there by a client     *)
(* that has yet to trigger, or was overtaken.                              *)
LEMMA ActivatedStep == Within /\ Activated /\ [Next]_vars => Activated'
<1>1. SUFFICES ASSUME Within, Activated, [Next]_vars PROVE Activated'
  OBVIOUS
<1>2. CASE UNCHANGED <<pending, active, client>> /\ (overtaken => overtaken')
  BY <1>1, <1>2 DEF Activated
<1>3. CASE Open \/ Close \/ Write
  <2>1. CASE Open
    BY <1>1, <2>1 DEF Open, ghostVars, Activated
  <2>2. CASE Close \/ Write
    BY <2>2 DEF Close, Write, Activated
  <2>  QED  BY <1>3, <2>1, <2>2
<1>4. CASE Trigger
  <2>1. CASE TriggerUp
    BY <2>1 DEF TriggerUp, Activated
  <2>2. CASE TriggerLooks
    <3>1. UNCHANGED <<active, overtaken>> /\ client = "up" /\ pending' \in {pending, 0}
      BY <2>2 DEF TriggerLooks, ghostVars
    <3>  QED  BY <1>1, <3>1 DEF Activated
  <2>3. CASE TriggerSchedules
    <3>1. UNCHANGED <<pending, active>> /\ overtaken' = (pending > 0 /\ ~active)
      BY <2>3 DEF TriggerSchedules
    <3>  QED  BY <3>1, Zenon DEF Activated
  <2>  QED  BY <1>4, <2>1, <2>2, <2>3 DEF Trigger
<1>5. CASE Take
  BY <1>1, <1>5 DEF Take, ghostVars, Activated, Within
<1>6. CASE NoLongerActive
  BY <1>1, <1>6 DEF NoLongerActive, Activated
<1>7. CASE RunTasklet \/ DelayTimerFires \/ ErrorTimerFires \/ HandlerOutputs
  BY <1>2, <1>7 DEF RunTasklet, DelayTimerFires, ErrorTimerFires, HandlerOutputs, clientVars,
                    ghostVars
<1>8. CASE Fill \/ FindEmpty \/ Look \/ Submit \/ SubmitFails
  BY <1>2, <1>8 DEF Fill, FindEmpty, Look, Submit, SubmitFails, clientVars, ghostVars
<1>9. CASE Complete \/ HandlerFrees \/ HandlerLooks \/ TimePasses
  BY <1>2, <1>9 DEF Complete, HandlerFrees, HandlerLooks, TimePasses, clientVars, ghostVars
<1>10. CASE Suspend \/ PowerStep \/ Resume \/ Disconnect \/ Renumber
  BY <1>2, <1>10, Zenon DEF Suspend, PowerStep, DelErrorTimer, KillTasklet, KillUrb, Resume,
                     Disconnect, Renumber, clientVars, ghostVars
<1>11. CASE UNCHANGED vars
  BY <1>2, <1>11 DEF vars, clientVars, ghostVars
<1>  QED  BY <1>1, <1>3, <1>4, <1>5, <1>6, <1>7, <1>8, <1>9, <1>10, <1>11, Zenon
          DEF Next, Handler, DoOutput

(* Whoever enters do_output fills the URB, has set the timer, or leaves it *)
(* to the URB's handler.                                                   *)
LEMMA SeenToEntered ==
  ASSUME UrbInv, PowerExcuses,
         RunTasklet \/ DelayTimerFires \/ ErrorTimerFires \/ HandlerOutputs
  PROVE  excused \/ AtWork'
<1>1. /\ UNCHANGED <<urb_active, flight>> /\ output = "idle"
      /\ handler = "done" => handler' = "done"
  BY DEF RunTasklet, DelayTimerFires, ErrorTimerFires, HandlerOutputs
<1>2. urb_active => flight' \/ handler' = "done"
  BY <1>1 DEF UrbInv
<1>3. shutdown => excused
  BY DEF PowerExcuses
<1>4. CASE Enter
  BY <1>2, <1>3, <1>4 DEF Enter, AtWork
<1>5. CASE DelayTimerFires
  BY <1>2, <1>3, <1>5 DEF DelayTimerFires, AtWork
<1>  QED  BY <1>4, <1>5 DEF RunTasklet, ErrorTimerFires, HandlerOutputs

(* do_output sends what it has taken and then comes back.                  *)
LEMMA SeenToSent ==
  ASSUME LeftInv, DoOutput
  PROVE  SeenTo'
<1>1. Within /\ UrbInv /\ Activated /\ SeenTo
  BY DEF LeftInv
<1>2. MaxTransfer \in Nat /\ MaxTransfer > 3
  BY TransferAssumption
<1>3. CASE Take
  BY <1>1, <1>3 DEF Take, runVars, SeenTo, AtWork
<1>4. CASE Fill
  <2>1. UNCHANGED <<pending, active, client, filled, flight, handler, tasklet, delay_timer,
                    overtaken, excused>>
    BY <1>4, Zenon DEF Fill, clientVars, urbVars, ghostVars
  <2>2. \/ output' = "loop" \/ (output' = "send" /\ ~active)
        \/ output' = "send" /\ ~(filled + 3 < MaxTransfer)
    BY <1>4 DEF Fill, Fits
  <2>3. ~(filled + 3 < MaxTransfer) => filled > 0
    BY <1>1, <1>2 DEF Within
  <2>4. CASE ~active
    BY <1>1, <2>1, <2>4 DEF Activated, SeenTo, AtWork
  <2>5. CASE output' = "loop" \/ (output' = "send" /\ filled > 0)
    <3>1. AtWork'
      BY <2>1, <2>5 DEF AtWork
    <3>  QED  BY <3>1 DEF SeenTo
  <2>  QED  BY <2>2, <2>3, <2>4, <2>5
<1>5. CASE FindEmpty
  BY <1>5 DEF FindEmpty, SeenTo, AtWork
<1>6. CASE NoLongerActive
  BY <1>6 DEF NoLongerActive, SeenTo
<1>7. CASE Look
  <2>1. /\ UNCHANGED <<pending, client, filled, flight, handler, tasklet, delay_timer,
                       overtaken>>
        /\ output = "send" /\ excused' = (excused \/ (output' = "idle" /\ filled > 0))
    BY <1>7, Zenon DEF Look, clientVars
  <2>2. filled = 0 \/ (filled > 0 /\ output' = "idle") \/ output' = "submit"
    BY <1>7 DEF Look, NothingToSend, Refused, Leave
  <2>3. CASE filled = 0
    <3>1. ~(filled > 0)
      BY <2>3
    <3>  QED  BY <1>1, <2>1, <3>1 DEF SeenTo, AtWork
  <2>4. CASE filled > 0 /\ output' = "idle"
    BY <2>1, <2>4 DEF SeenTo
  <2>5. CASE output' = "submit"
    BY <2>5 DEF SeenTo, AtWork
  <2>  QED  BY <2>2, <2>3, <2>4, <2>5
<1>8. CASE Submit
  BY <1>8 DEF Submit, SeenTo, AtWork
<1>9. CASE SubmitFails
  <2>1. ~flight
    BY <1>1, <1>9 DEF SubmitFails, UrbInv
  <2>  QED  BY <1>9, <2>1 DEF SubmitFails, SeenTo
<1>  QED  BY <1>3, <1>4, <1>5, <1>6, <1>7, <1>8, <1>9 DEF DoOutput

LEMMA SeenToStep == LeftInv /\ [Next]_vars => SeenTo'
<1>1. SUFFICES ASSUME LeftInv, [Next]_vars PROVE SeenTo'
  OBVIOUS
<1>2. Within /\ UrbInv /\ PowerExcuses /\ Activated /\ SeenTo
  BY <1>1 DEF LeftInv
<1>3. CASE Open \/ Renumber
  BY <1>2, <1>3 DEF Open, Renumber, clientVars, urbVars, runVars, ghostVars, SeenTo, AtWork
<1>4. CASE Close
  BY <1>4 DEF Close, SeenTo
<1>5. CASE Write \/ TriggerUp
  <2>1. AtWork'
    BY <1>5 DEF Write, TriggerUp, AtWork
  <2>  QED  BY <2>1 DEF SeenTo
<1>6. CASE TriggerLooks
  <2>1. client' = "allowed" \/ pending' = 0 \/ (excused /\ excused' = excused)
    BY <1>2, <1>6 DEF TriggerLooks, PowerExcuses, ghostVars
  <2>  QED  BY <2>1 DEF SeenTo, AtWork
<1>7. CASE TriggerSchedules
  <2>1. AtWork'
    BY <1>7 DEF TriggerSchedules, AtWork
  <2>  QED  BY <2>1 DEF SeenTo
<1>8. CASE RunTasklet \/ DelayTimerFires \/ ErrorTimerFires \/ HandlerOutputs
  <2>1. excused \/ AtWork'
    BY <1>2, <1>8, SeenToEntered
  <2>2. excused' = excused
    BY <1>8 DEF RunTasklet, DelayTimerFires, ErrorTimerFires, HandlerOutputs, ghostVars
  <2>  QED  BY <2>1, <2>2 DEF SeenTo
<1>9. CASE DoOutput
  BY <1>1, <1>9, SeenToSent
<1>10. CASE Complete \/ HandlerFrees
  <2>1. AtWork'
    BY <1>10 DEF Complete, HandlerFrees, AtWork
  <2>  QED  BY <2>1 DEF SeenTo
<1>11. CASE HandlerLooks
  <2>1. handler' = "output" \/ excused'
    BY <1>11 DEF HandlerLooks
  <2>  QED  BY <2>1 DEF SeenTo, AtWork
<1>12. CASE TimePasses
  BY <1>2, <1>12 DEF TimePasses, clientVars, urbVars, ghostVars, SeenTo, AtWork
<1>13. CASE Suspend \/ Disconnect
  BY <1>13 DEF Suspend, Disconnect, SeenTo
<1>14. CASE Resume
  BY <1>2, <1>14 DEF Resume, clientVars, urbVars, runVars, ghostVars, SeenTo, AtWork
<1>15. CASE PowerStep
  <2>1. excused
    BY <1>2, <1>15 DEF PowerStep, DelErrorTimer, KillTasklet, KillUrb, PowerExcuses
  <2>2. excused' = excused
    BY <1>15, Zenon DEF PowerStep, DelErrorTimer, KillTasklet, KillUrb, ghostVars
  <2>  QED  BY <2>1, <2>2 DEF SeenTo
<1>16. CASE UNCHANGED vars
  BY <1>2, <1>16 DEF vars, clientVars, urbVars, runVars, ghostVars, SeenTo, AtWork
<1>  QED  BY <1>1, <1>3, <1>4, <1>5, <1>6, <1>7, <1>8, <1>9, <1>10, <1>11, <1>12, <1>13,
          <1>14, <1>15, <1>16, Zenon DEF Next, Handler, Trigger

(* Neither ALSA's buffer nor that of the URB is ever overfilled, and bytes *)
(* left over are somebody's: SeenTo names whose at every step.             *)
THEOREM LeftCorrect == Spec => []LeftInv
<1>1. Init => LeftInv
  BY RoomAssumption, TransferAssumption
     DEF Init, LeftInv, Within, UrbInv, PowerExcuses, Activated, SeenTo
<1>2. Spec => []ByteInv
  BY ByteCorrect, OutputImplementsBytes, PTL
<1>3. LeftInv /\ ByteInv' /\ [Next]_vars => LeftInv'
  BY WithinStep, UrbStep, PowerStepExcuses, ActivatedStep, SeenToStep, Zenon DEF LeftInv
<1>  QED  BY <1>1, <1>2, <1>3, PTL DEF Spec

(* Bytes that stay in ALSA's buffer when the tasklet, the timers, the URB  *)
(* and its handler have all come to rest were put there by a trigger that  *)
(* overtook do_output, or there has been a sleep or an error since.        *)
THEOREM NothingLeftCorrect == Spec => []NothingLeftBehind
<1>1. LeftInv => NothingLeftBehind
  BY DEF LeftInv, SeenTo, AtWork, NothingLeftBehind, Quiet
<1>  QED  BY <1>1, LeftCorrect, PTL
=============================================================================
