------------------------- MODULE MidiChannelsProofs -------------------------

(* The invariants of MidiChannels, proved for every number of devices,     *)
(* setters and channels: no two devices have one channel, and what else    *)
(* holds of a device on which no two calls overlap.                        *)
EXTENDS MidiChannels, FiniteSetTheorems, TLAPS

MapType == [list : [Channel -> Device \cup {NoDevice}],
            channel : [Device -> Channel \cup {Invalid}]]

(* Of the device e in the map m: its channel is its own, and it is the     *)
(* only one it has reserved.                                               *)
Owns(m, e) == m.channel[e] # Invalid => m.list[m.channel[e]] = e
One(m, e)  == \A c \in Channel : m.list[c] = e => m.channel[e] = c

-----------------------------------------------------------------------------

(* A nonempty set of channels has a lowest element, and Lowest returns it: *)
(* the segments of channels below the elements have a smallest one.        *)
LEMMA LowestIsMember ==
  ASSUME NEW S \in SUBSET Channel, S # {}
  PROVE  Lowest(S) \in S
<1> DEFINE Below(c) == 0 .. c - 1
           Segments == {Below(c) : c \in S}
<1>1. S \subseteq Nat
  BY ChannelAssumption DEF Channel
<1>2. \A c \in S : IsFiniteSet(Below(c)) /\ Below(c) \subseteq Channel
  <2> TAKE c \in S
  <2>1. IsFiniteSet(Below(c))
    BY <1>1, FS_Interval
  <2>2. Below(c) \subseteq Channel
    BY <1>1, ChannelAssumption DEF Channel
  <2> QED  BY <2>1, <2>2
<1>3. Segments \subseteq FiniteSubsetsOf(Channel) /\ Segments # {}
  BY <1>2 DEF FiniteSubsetsOf
<1>4. PICK B \in Segments : \A C \in Segments : <<C, B>> \notin StrictSubsetOrdering(Channel)
  <2> HIDE DEF Segments
  <2> QED  BY <1>3, FS_StrictSubsetOrderingWellFounded, WFMin
<1>5. PICK c \in S : B = Below(c)
  OBVIOUS
<1>6. \A u \in S : c <= u
  <2> SUFFICES ASSUME NEW u \in S, u < c
               PROVE  FALSE
    BY <1>1
  <2>1. Below(u) \subseteq Below(c) /\ u \in Below(c) \ Below(u)
    BY <1>1
  <2>2. <<Below(u), Below(c)>> \in StrictSubsetOrdering(Channel)
    BY <2>1, <1>2 DEF StrictSubsetOrdering
  <2> QED  BY <2>2, <1>4, <1>5
<1> QED  BY <1>6 DEF Lowest

LEMMA InvalidIsNoChannel == Invalid \notin Channel
BY ChannelAssumption DEF Invalid, Channel

-----------------------------------------------------------------------------

(* Giving d a channel: the types, d itself, and every other device e that  *)
(* has not reserved that channel.                                          *)
LEMMA GiveEffect ==
  ASSUME NEW m \in MapType, NEW d \in Device, NEW c \in Channel
  PROVE  /\ Give(m, d, c) \in MapType
         /\ Owns(Give(m, d, c), d)
         /\ (\A b \in Channel : m.list[b] = d => b = c) => One(Give(m, d, c), d)
         /\ Give(m, d, c).list[c] = d
         /\ Give(m, d, c).channel[d] = c
         /\ \A b \in Channel \ {c} : Give(m, d, c).list[b] = m.list[b]
         /\ \A e \in Device \ {d} : Give(m, d, c).channel[e] = m.channel[e]
<1> DEFINE g == Give(m, d, c)
<1>1. /\ g.list = [m.list EXCEPT ![c] = d]
      /\ g.channel = [m.channel EXCEPT ![d] = c]
      /\ g = [list |-> g.list, channel |-> g.channel]
  BY DEF Give
<1>2. /\ m.list \in [Channel -> Device \cup {NoDevice}]
      /\ m.channel \in [Device -> Channel \cup {Invalid}]
  BY DEF MapType
<1> HIDE DEF g
<1>3. g \in MapType
  BY <1>1, <1>2 DEF MapType
<1>4. /\ g.list[c] = d /\ g.channel[d] = c
      /\ \A b \in Channel \ {c} : g.list[b] = m.list[b]
      /\ \A e \in Device \ {d} : g.channel[e] = m.channel[e]
  BY <1>1, <1>2
<1>5. Owns(g, d)
  BY <1>4 DEF Owns
<1>6. (\A b \in Channel : m.list[b] = d => b = c) => One(g, d)
  BY <1>4 DEF One
<1> QED  BY <1>3, <1>4, <1>5, <1>6 DEF g

(* Looking for a first channel for d leaves all other devices as they are, *)
(* and d with a channel that is its own, or with none; if d had reserved   *)
(* none, it has one at most.                                               *)
OnlyFor(m, r, d) ==
  /\ r \in MapType
  /\ Owns(r, d)
  /\ (\A c \in Channel : m.list[c] # d) => One(r, d)
  /\ \A e \in Device \ {d} : /\ r.channel[e] = m.channel[e]
                             /\ \A c \in Channel : r.list[c] = e <=> m.list[c] = e

LEMMA AssignFirstEffect ==
  ASSUME NEW m \in MapType, NEW d \in Device
  PROVE  OnlyFor(m, AssignFirst(m, d), d)
<1> DEFINE r == AssignFirst(m, d)
<1>1. CASE Usable(m, d) = {}
  <2>1. r = [list |-> m.list, channel |-> [m.channel EXCEPT ![d] = Invalid]]
    BY <1>1 DEF AssignFirst
  <2>2. /\ r.list = m.list /\ r.channel = [m.channel EXCEPT ![d] = Invalid]
        /\ r \in MapType
    BY <2>1 DEF MapType
  <2>3. /\ r.channel[d] = Invalid
        /\ \A e \in Device \ {d} : r.channel[e] = m.channel[e]
    BY <2>2 DEF MapType
  <2> HIDE DEF r
  <2> QED  BY <2>2, <2>3 DEF OnlyFor, Owns, One, r
<1>2. CASE Usable(m, d) # {}
  <2> DEFINE c == Lowest(Usable(m, d))
  <2>1. c \in Channel /\ m.list[c] \in {NoDevice, d}
    <3>1. Usable(m, d) \in SUBSET Channel
      BY DEF Usable
    <3>2. c \in Usable(m, d)
      BY <3>1, <1>2, LowestIsMember
    <3> HIDE DEF c
    <3> QED  BY <3>2 DEF Usable
  <2>2. r = Give(m, d, c)
    BY <1>2 DEF AssignFirst
  <2> HIDE DEF c, r
  <2>3. /\ r \in MapType /\ Owns(r, d) /\ r.list[c] = d
        /\ (\A b \in Channel : m.list[b] = d => b = c) => One(r, d)
        /\ \A b \in Channel \ {c} : r.list[b] = m.list[b]
        /\ \A e \in Device \ {d} : r.channel[e] = m.channel[e]
    BY <2>1, <2>2, GiveEffect
  <2>4. \A e \in Device \ {d}, b \in Channel : r.list[b] = e <=> m.list[b] = e
    BY <2>1, <2>3, DeviceAssumption
  <2> QED  BY <2>3, <2>4 DEF OnlyFor, r
<1> QED  BY <1>1, <1>2

(* Assigning a channel to d: every device's channel is its own; what was   *)
(* reserved once still is; the channel of another device changes only if   *)
(* it can be bumped, and never if it has none.                             *)
AssignKeeps(m, r, d) ==
  /\ r \in MapType
  /\ \A e \in Device : Owns(r, e)
  /\ (\A c \in Channel : m.list[c] # d) => One(r, d)
  /\ \A e \in Device \ {d} :
        /\ One(m, e) => One(r, e)
        /\ e \in NonVolatile /\ phase[e] # "absent" => r.channel[e] = m.channel[e]
        /\ One(m, e) /\ m.channel[e] = Invalid => r.channel[e] = Invalid

LEMMA FirstKeeps ==
  ASSUME NEW m \in MapType, \A e \in Device : Owns(m, e), NEW d \in Device
  PROVE  AssignKeeps(m, AssignFirst(m, d), d)
<1> DEFINE r == AssignFirst(m, d)
<1>1. /\ r \in MapType /\ Owns(r, d)
      /\ (\A c \in Channel : m.list[c] # d) => One(r, d)
      /\ \A e \in Device \ {d} : /\ r.channel[e] = m.channel[e]
                                 /\ \A c \in Channel : r.list[c] = e <=> m.list[c] = e
  BY AssignFirstEffect DEF OnlyFor
<1>2. \A e \in Device : m.channel[e] \in Channel \cup {Invalid}
  BY DEF MapType
<1> HIDE DEF r
<1>3. \A e \in Device \ {d} : Owns(r, e)
  BY <1>1, <1>2 DEF Owns
<1>4. \A e \in Device \ {d} : One(m, e) => One(r, e)
  BY <1>1 DEF One
<1> QED  BY <1>1, <1>3, <1>4 DEF AssignKeeps, r

LEMMA GiveKeeps ==
  ASSUME NEW m \in MapType, \A e \in Device : Owns(m, e), NEW d \in Device,
         NEW c \in Usable(m, d)
  PROVE  AssignKeeps(m, Give(m, d, c), d)
<1> DEFINE r == Give(m, d, c)
<1>1. c \in Channel /\ m.list[c] \in {NoDevice, d}
  BY DEF Usable
<1>2. /\ r \in MapType /\ Owns(r, d) /\ r.list[c] = d
      /\ (\A b \in Channel : m.list[b] = d => b = c) => One(r, d)
      /\ \A b \in Channel \ {c} : r.list[b] = m.list[b]
      /\ \A e \in Device \ {d} : r.channel[e] = m.channel[e]
  BY <1>1, GiveEffect
<1>3. \A e \in Device : m.channel[e] \in Channel \cup {Invalid}
  BY DEF MapType
<1> HIDE DEF r
<1>4. \A e \in Device \ {d}, b \in Channel : r.list[b] = e <=> m.list[b] = e
  BY <1>1, <1>2, DeviceAssumption
<1>5. \A e \in Device \ {d} : Owns(r, e)
  BY <1>2, <1>3, <1>4 DEF Owns
<1>6. \A e \in Device \ {d} : One(m, e) => One(r, e)
  BY <1>2, <1>4 DEF One
<1> QED  BY <1>2, <1>5, <1>6 DEF AssignKeeps, r

(* The owner o of c is bumped: it loses c, and then looks for another.     *)
LEMMA BumpKeeps ==
  ASSUME NEW m \in MapType, \A e \in Device : Owns(m, e), NEW d \in Device,
         NEW c \in Channel, m.list[c] \in Device \ {d},
         m.list[c] \notin NonVolatile \/ phase[m.list[c]] = "absent"
  PROVE  AssignKeeps(m, Bump(m, d, c), d)
<1> DEFINE o == m.list[c]
           g == Give(m, d, c)
           r == Bump(m, d, c)
<1>1. /\ g \in MapType /\ Owns(g, d) /\ g.list[c] = d /\ g.channel[d] = c
      /\ (\A b \in Channel : m.list[b] = d => b = c) => One(g, d)
      /\ \A b \in Channel \ {c} : g.list[b] = m.list[b]
      /\ \A e \in Device \ {d} : g.channel[e] = m.channel[e]
  BY GiveEffect
<1>2. r = AssignFirst(g, o) /\ o \in Device
  BY DEF Bump
<1> HIDE DEF g, r, o
<1>3. /\ r \in MapType /\ Owns(r, o)
      /\ (\A b \in Channel : g.list[b] # o) => One(r, o)
      /\ \A e \in Device \ {o} : /\ r.channel[e] = g.channel[e]
                                 /\ \A b \in Channel : r.list[b] = e <=> g.list[b] = e
  <2>1. OnlyFor(g, r, o)
    BY <1>1, <1>2, AssignFirstEffect
  <2> QED  BY <2>1 DEF OnlyFor
<1>4. \A e \in Device : m.channel[e] \in Channel \cup {Invalid}
  BY DEF MapType
<1>5. o \in Device \ {d} /\ o = m.list[c]
  BY DEF o
<1>6. o \notin NonVolatile \/ phase[o] = "absent"
  BY DEF o
<1>7. Owns(r, d) /\ (One(g, d) => One(r, d))
  BY <1>1, <1>3, <1>5 DEF Owns, One
<1>8. \A e \in Device \ {d, o}, b \in Channel : r.list[b] = e <=> m.list[b] = e
  BY <1>1, <1>3, <1>5
<1>9. \A e \in Device \ {d, o} :
         /\ r.channel[e] = m.channel[e]
         /\ Owns(r, e)
         /\ One(m, e) => One(r, e)
  BY <1>1, <1>3, <1>4, <1>8 DEF Owns, One
<1>10. One(m, o) => One(r, o)
  <2> SUFFICES ASSUME One(m, o)
               PROVE  One(r, o)
    OBVIOUS
  <2>1. m.channel[o] = c
    BY <1>5 DEF One
  <2>2. \A b \in Channel : g.list[b] # o
    BY <2>1, <1>1, <1>5 DEF One
  <2> QED  BY <2>2, <1>3
<1>11. One(m, o) => m.channel[o] # Invalid
  BY <1>5, InvalidIsNoChannel DEF One
<1>12. \A e \in Device : Owns(r, e)
  BY <1>3, <1>7, <1>9
<1>13. (\A b \in Channel : m.list[b] # d) => One(r, d)
  BY <1>1, <1>7
<1>14. \A e \in Device \ {d} :
         /\ One(m, e) => One(r, e)
         /\ e \in NonVolatile /\ phase[e] # "absent" => r.channel[e] = m.channel[e]
         /\ One(m, e) /\ m.channel[e] = Invalid => r.channel[e] = Invalid
  BY <1>9, <1>10, <1>11, <1>6
<1> QED  BY <1>3, <1>12, <1>13, <1>14 DEF AssignKeeps, r

LEMMA AssignEffect ==
  ASSUME NEW m \in MapType, \A e \in Device : Owns(m, e), NEW d \in Device,
         NEW w \in Channel \cup {Invalid}, NEW r \in AssignChannel(m, d, w)
  PROVE  AssignKeeps(m, r, d)
<1>1. CASE r = AssignFirst(m, d)
  BY <1>1, FirstKeeps
<1>2. CASE w \in Usable(m, d) /\ r = Give(m, d, w)
  BY <1>2, GiveKeeps
<1>3. CASE /\ w \in Channel \ Usable(m, d) /\ r = Bump(m, d, w)
           /\ TRUE \in Bumpable(d, m.list[w])
  <2>1. m.list[w] \in Device \ {d}
    BY <1>3 DEF MapType, Usable
  <2>2. m.list[w] \notin NonVolatile \/ phase[m.list[w]] = "absent"
    BY <1>3, Zenon DEF Bumpable
  <2> QED  BY <1>3, <2>1, <2>2, BumpKeeps
<1>4. CASE w = Invalid
  BY <1>1, <1>4 DEF AssignChannel
<1>5. CASE w \in Usable(m, d)
  <2>1. w # Invalid
    BY <1>5, InvalidIsNoChannel DEF Usable
  <2> QED  BY <1>2, <1>5, <2>1 DEF AssignChannel
<1>6. CASE w \in Channel \ Usable(m, d)
  <2>1. w # Invalid
    BY <1>6, InvalidIsNoChannel
  <2>2. PICK b \in Bumpable(d, m.list[w]) :
               r = IF b THEN Bump(m, d, w) ELSE AssignFirst(m, d)
    BY <1>6, <2>1 DEF AssignChannel
  <2>3. b \in BOOLEAN
    BY Zenon DEF Bumpable
  <2>4. CASE b = TRUE
    BY <1>3, <1>6, <2>2, <2>4
  <2>5. CASE b = FALSE
    BY <1>1, <2>2, <2>5
  <2> QED  BY <2>3, <2>4, <2>5
<1> QED  BY <1>4, <1>5, <1>6 DEF Usable

(* Freeing the channel of d leaves it without, and all others as they are. *)
FreeKeeps(m, r, d) ==
  /\ r \in MapType
  /\ \A e \in Device : Owns(r, e)
  /\ r.channel[d] = Invalid
  /\ One(m, d) => \A c \in Channel : r.list[c] # d
  /\ \A e \in Device \ {d} : /\ r.channel[e] = m.channel[e]
                             /\ One(m, e) => One(r, e)

LEMMA FreeEffect ==
  ASSUME NEW m \in MapType, \A e \in Device : Owns(m, e), NEW d \in Device
  PROVE  FreeKeeps(m, FreeChannel(m, d), d)
<1> DEFINE r == FreeChannel(m, d)
           c == m.channel[d]
<1>1. /\ m.list \in [Channel -> Device \cup {NoDevice}]
      /\ m.channel \in [Device -> Channel \cup {Invalid}]
  BY DEF MapType
<1>2. CASE c = Invalid
  <2>1. r = m
    BY <1>2 DEF FreeChannel
  <2>2. One(m, d) => \A b \in Channel : m.list[b] # d
    BY <1>2, InvalidIsNoChannel DEF One
  <2> QED  BY <1>2, <2>1, <2>2 DEF FreeKeeps
<1>3. CASE c # Invalid
  <2>1. c \in Channel /\ m.list[c] = d
    BY <1>1, <1>3 DEF Owns
  <2>2. /\ r.list = [m.list EXCEPT ![c] = NoDevice]
        /\ r.channel = [m.channel EXCEPT ![d] = Invalid]
        /\ r = [list |-> r.list, channel |-> r.channel]
    BY <1>3, <2>1 DEF FreeChannel
  <2>8. \A e \in Device : m.channel[e] # Invalid => m.list[m.channel[e]] = e
    BY DEF Owns
  <2>9. One(m, d) => \A b \in Channel : m.list[b] = d => c = b
    BY DEF One
  <2> HIDE DEF r, c
  <2>3. r \in MapType
    BY <1>1, <2>2 DEF MapType
  <2>4. /\ r.channel[d] = Invalid /\ r.list[c] = NoDevice
        /\ \A b \in Channel \ {c} : r.list[b] = m.list[b]
        /\ \A e \in Device \ {d} : r.channel[e] = m.channel[e]
    BY <1>1, <2>1, <2>2
  <2>5. \A e \in Device : Owns(r, e)
    BY <1>1, <2>1, <2>4, <2>8 DEF Owns
  <2>6. One(m, d) => \A b \in Channel : r.list[b] # d
    BY <2>4, <2>9, DeviceAssumption
  <2>7. \A e \in Device \ {d} : One(m, e) => One(r, e)
    BY <2>1, <2>4, DeviceAssumption DEF One
  <2> QED  BY <2>3, <2>4, <2>5, <2>6, <2>7 DEF FreeKeeps, r
<1> QED  BY <1>2, <1>3

-----------------------------------------------------------------------------

(* The same, said of a step on the device d.                               *)
MapStep(d) ==
  /\ channel_list' \in [Channel -> Device \cup {NoDevice}]
  /\ channel' \in [Device -> Channel \cup {Invalid}]
  /\ OwnerAgrees'
  /\ \A e \in Device \ {d} :
        /\ Single(e) => \A c \in Channel : channel_list'[c] = e => channel'[e] = c
        /\ e \in NonVolatile /\ phase[e] # "absent" => channel'[e] = channel[e]
        /\ Single(e) /\ channel[e] = Invalid => channel'[e] = Invalid

LEMMA MapTyped ==
  ASSUME TypeOK, OwnerAgrees
  PROVE  /\ Map \in MapType
         /\ \A e \in Device : Owns(Map, e)
         /\ \A e \in Device : One(Map, e) <=> Single(e)
BY DEF TypeOK, OwnerAgrees, Map, MapType, Owns, One, Single

LEMMA AssignStep ==
  ASSUME TypeOK, OwnerAgrees, NEW d \in Device, NEW w \in Channel \cup {Invalid},
         \E m \in AssignChannel(Map, d, w) : SetMap(m)
  PROVE  /\ MapStep(d)
         /\ (\A c \in Channel : channel_list[c] # d)
              => \A c \in Channel : channel_list'[c] = d => channel'[d] = c
<1>1. PICK r \in AssignChannel(Map, d, w) : SetMap(r)
  OBVIOUS
<1>2. AssignKeeps(Map, r, d)
  BY MapTyped, AssignEffect
<1>3. channel_list' = r.list /\ channel' = r.channel
  BY <1>1 DEF SetMap
<1>4. r \in MapType /\ \A e \in Device : Owns(r, e)
  BY <1>2 DEF AssignKeeps
<1>5. /\ channel_list' \in [Channel -> Device \cup {NoDevice}]
      /\ channel' \in [Device -> Channel \cup {Invalid}]
      /\ OwnerAgrees'
  BY <1>3, <1>4 DEF MapType, Owns, OwnerAgrees
<1>6. \A e \in Device \ {d} :
        /\ Single(e) => \A c \in Channel : channel_list'[c] = e => channel'[e] = c
        /\ e \in NonVolatile /\ phase[e] # "absent" => channel'[e] = channel[e]
        /\ Single(e) /\ channel[e] = Invalid => channel'[e] = Invalid
  BY <1>2, <1>3 DEF AssignKeeps, One, Single, Map
<1>7. (\A c \in Channel : channel_list[c] # d)
         => \A c \in Channel : channel_list'[c] = d => channel'[d] = c
  BY <1>2, <1>3 DEF AssignKeeps, One, Map
<1> QED  BY <1>5, <1>6, <1>7 DEF MapStep

LEMMA FreeStep ==
  ASSUME TypeOK, OwnerAgrees, NEW d \in Device, SetMap(FreeChannel(Map, d))
  PROVE  /\ MapStep(d)
         /\ channel'[d] = Invalid
         /\ Single(d) => \A c \in Channel : channel_list'[c] # d
         /\ \A e \in Device \ {d} : channel'[e] = channel[e]
<1> DEFINE r == FreeChannel(Map, d)
<1>1. FreeKeeps(Map, r, d)
  BY MapTyped, FreeEffect
<1>2. channel_list' = r.list /\ channel' = r.channel
  BY DEF SetMap
<1> HIDE DEF r
<1>3. r \in MapType /\ \A e \in Device : Owns(r, e)
  BY <1>1 DEF FreeKeeps
<1>4. /\ channel_list' \in [Channel -> Device \cup {NoDevice}]
      /\ channel' \in [Device -> Channel \cup {Invalid}]
      /\ OwnerAgrees'
  BY <1>2, <1>3 DEF MapType, Owns, OwnerAgrees
<1>5. \A e \in Device \ {d} : channel'[e] = channel[e]
  BY <1>1, <1>2 DEF FreeKeeps, Map
<1>6. \A e \in Device \ {d} :
        Single(e) => \A c \in Channel : channel_list'[c] = e => channel'[e] = c
  BY <1>1, <1>2 DEF FreeKeeps, One, Single, Map
<1>7. channel'[d] = Invalid /\ (Single(d) => \A c \in Channel : channel_list'[c] # d)
  BY <1>1, <1>2 DEF FreeKeeps, One, Single, Map
<1> QED  BY <1>4, <1>5, <1>6, <1>7 DEF MapStep
-----------------------------------------------------------------------------

(* The inductive invariant, initially and over each action.                *)
LEMMA InitKeeps ==
  ASSUME Init
  PROVE  MidiInv
<1> USE DEF Init
<1>1. TypeOK
  BY InvalidIsNoChannel DEF TypeOK, Label
<1>2. OwnerAgrees /\ OneChannelUnlessOverlapped
  BY DeviceAssumption DEF OwnerAgrees, OneChannelUnlessOverlapped, Single
<1>3. Alone /\ CallsOnDevices
  BY <1>1 DEF Alone, CallsOnDevices, Thread, TypeOK
<1>4. DevicesInOrder
  BY <1>1, DeviceAssumption DEF DevicesInOrder, NoneYet, StoredOrComing, Thread
<1> QED  BY <1>1, <1>2, <1>3, <1>4 DEF MidiInv

(* A step that works on d keeps what holds of every other device.          *)
LEMMA OthersKept ==
  ASSUME MidiInv, NEW d \in Device, MapStep(d),
         dev' = dev, overlapped' = overlapped,
         \A s \in Thread : dev[s] # d => pc'[s] = pc[s] /\ want'[s] = want[s] /\ got'[s] = got[s],
         \A e \in Device \ {d} : phase'[e] = phase[e],
         \A e \in NonVolatile \ {d} : stored'[e] = stored[e]
  PROVE  \A e \in Device \ {d} :
            e \notin overlapped => /\ Single(e)' /\ NoneYet(e)'
                                   /\ e \in NonVolatile => StoredOrComing(e)'
<1> SUFFICES ASSUME NEW e \in Device \ {d}, e \notin overlapped
             PROVE  /\ Single(e)' /\ NoneYet(e)'
                    /\ e \in NonVolatile => StoredOrComing(e)'
  OBVIOUS
<1>1. Single(e) /\ NoneYet(e) /\ (e \in NonVolatile => StoredOrComing(e))
  BY DEF MidiInv, OneChannelUnlessOverlapped, DevicesInOrder
<1>2. /\ \A s \in Thread : dev[s] = e => pc'[s] = pc[s] /\ want'[s] = want[s] /\ got'[s] = got[s]
      /\ e \in Thread /\ dev[e] = e
  BY DEF MidiInv, TypeOK, Thread
<1>3. /\ Single(e) => \A c \in Channel : channel_list'[c] = e => channel'[e] = c
      /\ e \in NonVolatile /\ phase[e] # "absent" => channel'[e] = channel[e]
      /\ Single(e) /\ channel[e] = Invalid => channel'[e] = Invalid
  BY DEF MapStep
<1>4. Single(e)'
  BY <1>1, <1>3 DEF Single
<1>5. NoneYet(e)'
  BY <1>1, <1>2, <1>3 DEF NoneYet
<1>6. ASSUME e \in NonVolatile
      PROVE  StoredOrComing(e)'
  <2>1. channel'[e] = channel[e]
    BY <1>1, <1>3, <1>6 DEF NoneYet
  <2>2. stored'[e] = stored[e]
    BY <1>6
  <2> QED  BY <1>1, <1>2, <1>6, <2>1, <2>2 DEF StoredOrComing
<1> QED  BY <1>4, <1>5, <1>6

(* The same invariant, put together from what a step does to d.            *)
LEMMA DeviceStep ==
  ASSUME MidiInv, NEW d \in Device, MapStep(d),
         dev' = dev, overlapped' = overlapped,
         \A s \in Thread : dev[s] # d => pc'[s] = pc[s] /\ want'[s] = want[s] /\ got'[s] = got[s],
         \A e \in Device \ {d} : phase'[e] = phase[e],
         \A e \in NonVolatile \ {d} : stored'[e] = stored[e],
         TypeOK', Alone', CallsOnDevices',
         d \notin overlapped => /\ Single(d)' /\ NoneYet(d)'
                                /\ d \in NonVolatile => StoredOrComing(d)'
  PROVE  MidiInv'
<1>1. \A e \in Device \ {d} :
         e \notin overlapped => /\ Single(e)' /\ NoneYet(e)'
                                /\ e \in NonVolatile => StoredOrComing(e)'
  BY OthersKept
<1>2. OwnerAgrees'
  BY DEF MapStep
<1>3. OneChannelUnlessOverlapped'
  <2> SUFFICES ASSUME NEW e \in Device, e \notin overlapped
               PROVE  Single(e)'
    BY DEF OneChannelUnlessOverlapped
  <2>1. CASE e = d
    BY <2>1 DEF Single, NoneYet, StoredOrComing
  <2>2. CASE e # d
    BY <1>1, <2>2 DEF Single, NoneYet, StoredOrComing
  <2> QED  BY <2>1, <2>2
<1>4. DevicesInOrder'
  <2> SUFFICES ASSUME NEW e \in Device, e \notin overlapped
               PROVE  NoneYet(e)' /\ (e \in NonVolatile => StoredOrComing(e)')
    BY DeviceAssumption DEF DevicesInOrder
  <2>1. CASE e = d
    BY <2>1 DEF Single, NoneYet, StoredOrComing
  <2>2. CASE e # d
    BY <1>1, <2>2 DEF Single, NoneYet, StoredOrComing
  <2> QED  BY <2>1, <2>2
<1> QED  BY <1>2, <1>3, <1>4 DEF MidiInv

LEMMA OnlyCall ==
  ASSUME MidiInv, NEW t \in Thread, pc[t] # "idle", NEW d \in Device, dev[t] = d,
         d \notin overlapped
  PROVE  \A s \in Thread : dev[s] = d /\ pc[s] # "idle" => s = t
BY DEF MidiInv, Alone

LEMMA SameMap ==
  ASSUME TypeOK, OwnerAgrees, NEW d \in Device, channel_list' = channel_list,
         channel' = channel \/ channel' = [channel EXCEPT ![d] = Invalid]
  PROVE  MapStep(d)
<1>1. /\ channel' \in [Device -> Channel \cup {Invalid}]
      /\ \A e \in Device \ {d} : channel'[e] = channel[e]
      /\ channel'[d] \in {channel[d], Invalid}
  BY DEF TypeOK
<1>2. OwnerAgrees'
  BY <1>1 DEF OwnerAgrees
<1> QED  BY <1>1, <1>2 DEF MapStep, TypeOK, Single

LEMMA CallGoesOn ==
  ASSUME MidiInv, NEW t \in Thread, pc[t] # "idle",
         NEW l \in {"assign", "look", "write", "free", "forget"},
         t \in Device /\ l # "assign" => t \in NonVolatile,
         l = "forget" => t \in Device,
         Goto(t, l), UNCHANGED <<phase, dev, overlapped>>
  PROVE  Alone' /\ CallsOnDevices'
<1>1. pc'[t] = l /\ \A s \in Thread \ {t} : pc'[s] = pc[s]
  BY DEF Goto, MidiInv, TypeOK
<1>2. Alone'
  BY <1>1 DEF MidiInv, Alone
<1>3. CallsOnDevices'
  BY <1>1, DeviceAssumption DEF MidiInv, CallsOnDevices, Thread
<1> QED  BY <1>2, <1>3

LEMMA CallReturns ==
  ASSUME MidiInv, NEW t \in Thread, pc[t] # "idle", Return(t),
         UNCHANGED <<dev, overlapped>>
  PROVE  Alone' /\ CallsOnDevices'
<1>1. pc'[t] = "idle" /\ \A s \in Thread \ {t} : pc'[s] = pc[s]
  BY DEF Return, Goto, MidiInv, TypeOK
<1>2. Alone'
  BY <1>1 DEF MidiInv, Alone
<1>3. \A d \in Device : phase'[d] = IF d = t THEN "ready" ELSE phase[d]
  BY DEF Return, MidiInv, TypeOK
<1>4. CallsOnDevices'
  BY <1>1, <1>3 DEF MidiInv, CallsOnDevices, TypeOK, Thread
<1> QED  BY <1>2, <1>4

LEMMA CreateKeeps ==
  ASSUME MidiInv, NEW d \in Device, CreateMidiInterface(d)
  PROVE  MidiInv'
<1> USE DEF CreateMidiInterface, Goto
<1>1. TypeOK'
  BY InvalidIsNoChannel DEF MidiInv, TypeOK, Label, Thread
<1>2. /\ \A s \in Thread : pc[s] # "idle" => dev[s] # d
      /\ pc[d] = "idle" /\ dev[d] = d /\ d \in Thread
  BY DEF MidiInv, CallsOnDevices, TypeOK, Thread
<1>3. /\ pc'[d] = IF d \in NonVolatile THEN "read" ELSE "assign"
      /\ \A s \in Thread \ {d} : pc'[s] = pc[s]
      /\ phase'[d] = "creating" /\ \A e \in Device \ {d} : phase'[e] = phase[e]
  BY <1>2 DEF MidiInv, TypeOK
<1>4. Alone'
  BY <1>2, <1>3 DEF MidiInv, Alone
<1>5. CallsOnDevices'
  BY <1>1, <1>2, <1>3, ThreadAssumption, DeviceAssumption
     DEF MidiInv, CallsOnDevices, TypeOK, Thread
<1>6. MapStep(d)
  BY SameMap DEF MidiInv
<1>7. channel'[d] = Invalid
  BY DEF MidiInv, TypeOK
<1>8. d \notin overlapped => Single(d)'
  BY DEF MidiInv, OneChannelUnlessOverlapped, Single, DevicesInOrder, NoneYet, TypeOK
<1>9. NoneYet(d)' /\ (d \in NonVolatile => StoredOrComing(d)')
  BY <1>2, <1>3, <1>7 DEF NoneYet, StoredOrComing
<1>10. MidiInv'
  BY <1>1, <1>2, <1>3, <1>4, <1>5, <1>6, <1>8, <1>9, DeviceStep
<1> QED  BY <1>10

LEMMA DisconnectKeepsInv ==
  ASSUME MidiInv, NEW d \in Device, Disconnect(d)
  PROVE  MidiInv'
<1> USE DEF Disconnect
<1>1. MapStep(d) /\ channel'[d] = Invalid /\ (Single(d) => \A c \in Channel : channel_list'[c] # d)
  BY FreeStep DEF MidiInv
<1>2. TypeOK'
  BY <1>1 DEF MidiInv, TypeOK, MapStep
<1>3. /\ phase'[d] = "absent" /\ \A e \in Device \ {d} : phase'[e] = phase[e]
      /\ dev[d] = d /\ d \in Thread
  BY DEF MidiInv, TypeOK, Thread
<1>4. Alone' /\ CallsOnDevices'
  BY <1>3 DEF MidiInv, Alone, CallsOnDevices, TypeOK
<1>5. d \notin overlapped => Single(d)'
  BY <1>1 DEF MidiInv, OneChannelUnlessOverlapped, Single
<1>6. NoneYet(d)' /\ (d \in NonVolatile => StoredOrComing(d)')
  BY <1>1, <1>3 DEF NoneYet, StoredOrComing
<1> QED  BY <1>1, <1>2, <1>3, <1>4, <1>5, <1>6, DeviceStep

LEMMA SetKeeps ==
  ASSUME MidiInv, NEW t \in Setter, NEW d \in Device, NEW c \in Channel,
         SetMidiChannel(t, d, c)
  PROVE  MidiInv'
<1> USE DEF SetMidiChannel, Goto
<1>1. TypeOK'
  <2>1. pc' \in [Thread -> Label] /\ dev' \in [Thread -> Device]
        /\ want' \in [Thread -> Channel \cup {Invalid}]
    BY DEF MidiInv, TypeOK, Label, Thread
  <2>2. overlapped' \subseteq Device
    BY DEF MidiInv, TypeOK
  <2>3. \A e \in Device : dev'[e] = e
    BY ThreadAssumption DEF MidiInv, TypeOK, Thread
  <2>4. \A s \in Thread : pc'[s] = "write" => got'[s] \in Channel
    BY DEF MidiInv, TypeOK, Thread
  <2> QED  BY <2>1, <2>2, <2>3, <2>4 DEF MidiInv, TypeOK, mapVars
<1>2. /\ t \in Thread /\ t \notin Device /\ pc[t] = "idle"
      /\ pc'[t] = "clear" /\ dev'[t] = d
      /\ \A s \in Thread \ {t} : pc'[s] = pc[s] /\ dev'[s] = dev[s] /\ want'[s] = want[s]
      /\ overlapped \subseteq overlapped'
      /\ d \notin overlapped' => \A s \in Thread : pc[s] # "idle" => dev[s] # d
  BY ThreadAssumption DEF MidiInv, TypeOK, Thread
<1>3. Alone'
  BY <1>2 DEF MidiInv, Alone
<1>4. CallsOnDevices'
  BY <1>2 DEF MidiInv, CallsOnDevices, Thread
<1>5. OwnerAgrees' /\ OneChannelUnlessOverlapped'
  BY <1>2 DEF MidiInv, OwnerAgrees, OneChannelUnlessOverlapped, Single, mapVars
<1>6. ASSUME NEW e \in Device \ overlapped'
      PROVE  NoneYet(e)' /\ (e \in NonVolatile => StoredOrComing(e)')
  <2>1. NoneYet(e) /\ (e \in NonVolatile => StoredOrComing(e)) /\ e \in Thread /\ e # t
    BY <1>2 DEF MidiInv, DevicesInOrder, Thread
  <2>2. NoneYet(e)'
    BY <1>2, <2>1 DEF NoneYet, mapVars
  <2>3. e \in NonVolatile => StoredOrComing(e)'
    BY <1>2, <2>1 DEF StoredOrComing, mapVars
  <2> QED  BY <2>2, <2>3
<1>7. DevicesInOrder'
  BY <1>6, DeviceAssumption DEF DevicesInOrder, NoneYet, StoredOrComing
<1> QED  BY <1>1, <1>3, <1>4, <1>5, <1>7 DEF MidiInv

(* The steps of a call that is under way.                                  *)
LEMMA ReadKeeps ==
  ASSUME MidiInv, NEW d \in Device, ReadDevice(d)
  PROVE  MidiInv'
<1>1. /\ pc[d] = "read" /\ d \in Thread /\ dev[d] = d /\ d \in NonVolatile
      /\ channel_list' = channel_list /\ channel' = channel
      /\ stored' = stored /\ dev' = dev /\ overlapped' = overlapped
  BY DEF ReadDevice, MidiInv, TypeOK, CallsOnDevices, Thread, mapVars
<1>2. MapStep(d)
  BY <1>1, SameMap DEF MidiInv
<1>3. /\ \A s \in Thread \ {d} : pc'[s] = pc[s] /\ want'[s] = want[s] /\ got'[s] = got[s]
      /\ \A e \in Device \ {d} : phase'[e] = phase[e]
  BY DEF ReadDevice, Return, Goto, MidiInv, TypeOK
<1>4. d \notin overlapped => /\ channel[d] = Invalid /\ Single(d)
                             /\ \A s \in Thread : dev[s] = d /\ pc[s] # "idle" => s = d
  BY <1>1, OnlyCall DEF MidiInv, DevicesInOrder, NoneYet, OneChannelUnlessOverlapped
<1>5. d \notin overlapped => Single(d)' /\ NoneYet(d)'
  BY <1>1, <1>4 DEF Single, NoneYet
<1>6. CASE want' = [want EXCEPT ![d] = stored[d]] /\ Goto(d, "assign") /\ UNCHANGED <<got, phase>>
  <2>1. TypeOK'
    BY <1>1, <1>6 DEF MidiInv, TypeOK, Goto, Label
  <2>2. Alone' /\ CallsOnDevices'
    BY <1>1, <1>6, CallGoesOn
  <2>3. want'[d] = stored[d] /\ pc'[d] = "assign"
    BY <1>1, <1>6 DEF MidiInv, TypeOK, Goto
  <2>4. d \notin overlapped => StoredOrComing(d)'
    BY <1>1, <1>3, <1>4, <2>3 DEF StoredOrComing
  <2> QED  BY <1>1, <1>2, <1>3, <1>5, <2>1, <2>2, <2>4, DeviceStep
<1>7. CASE Return(d)
  <2>1. TypeOK'
    BY <1>1, <1>7 DEF MidiInv, TypeOK, Return, Goto, Label
  <2>2. Alone' /\ CallsOnDevices'
    BY <1>1, <1>7, CallReturns
  <2>3. pc'[d] = "idle"
    BY <1>1, <1>7 DEF MidiInv, TypeOK, Return, Goto
  <2>4. d \notin overlapped => StoredOrComing(d)'
    BY <1>1, <1>3, <1>4, <2>3 DEF StoredOrComing
  <2> QED  BY <1>1, <1>2, <1>3, <1>5, <2>1, <2>2, <2>4, DeviceStep
<1> QED  BY <1>6, <1>7 DEF ReadDevice

LEMMA ForgetKeeps ==
  ASSUME MidiInv, NEW d \in Device, Forget(d)
  PROVE  MidiInv'
<1>1. /\ pc[d] = "forget" /\ d \in Thread /\ dev[d] = d
      /\ channel_list' = channel_list /\ channel' = [channel EXCEPT ![d] = Invalid]
      /\ stored' = stored /\ dev' = dev /\ overlapped' = overlapped /\ Return(d)
  BY DEF Forget, MidiInv, TypeOK, Thread
<1>2. MapStep(d)
  BY <1>1, SameMap DEF MidiInv
<1>3. /\ \A s \in Thread \ {d} : pc'[s] = pc[s] /\ want'[s] = want[s] /\ got'[s] = got[s]
      /\ \A e \in Device \ {d} : phase'[e] = phase[e]
      /\ pc'[d] = "idle" /\ channel'[d] = Invalid
  BY <1>1 DEF Return, Goto, MidiInv, TypeOK
<1>4. d \notin overlapped => /\ channel[d] = Invalid /\ Single(d)
                             /\ \A s \in Thread : dev[s] = d /\ pc[s] # "idle" => s = d
  BY <1>1, OnlyCall DEF MidiInv, DevicesInOrder, NoneYet, OneChannelUnlessOverlapped
<1>5. d \notin overlapped => Single(d)' /\ NoneYet(d)' /\ StoredOrComing(d)'
  BY <1>1, <1>3, <1>4 DEF Single, NoneYet, StoredOrComing
<1>6. TypeOK'
  BY <1>1 DEF MidiInv, TypeOK, Return, Goto, Label
<1>7. Alone' /\ CallsOnDevices'
  BY <1>1, CallReturns
<1> QED  BY <1>1, <1>2, <1>3, <1>5, <1>6, <1>7, DeviceStep

LEMMA ClearKeeps ==
  ASSUME MidiInv, NEW t \in Thread, Clear(t)
  PROVE  MidiInv'
<1>1. PICK d \in Device : d = dev[t]
  BY DEF MidiInv, TypeOK
<1>2. /\ pc[t] = "clear" /\ t \in Setter /\ t \notin Device
      /\ SetMap(FreeChannel(Map, d)) /\ Goto(t, "assign")
      /\ UNCHANGED <<stored, phase, dev, want, got, overlapped>>
  BY <1>1, ThreadAssumption DEF Clear, MidiInv, CallsOnDevices
<1>3. MapStep(d) /\ channel'[d] = Invalid /\ (Single(d) => \A c \in Channel : channel_list'[c] # d)
  BY <1>2, FreeStep DEF MidiInv
<1>4. /\ \A s \in Thread \ {t} : pc'[s] = pc[s]
      /\ pc'[t] = "assign"
      /\ d \in Thread /\ dev[d] = d /\ d # t
  BY <1>2 DEF Goto, MidiInv, TypeOK, Thread
<1>5. d \notin overlapped => \A s \in Thread : dev[s] = d /\ pc[s] # "idle" => s = t
  BY <1>1, <1>2, OnlyCall
<1>6. d \notin overlapped => Single(d)' /\ NoneYet(d)'
  BY <1>2, <1>3 DEF Single, NoneYet, MidiInv, OneChannelUnlessOverlapped
<1>7. d \notin overlapped => StoredOrComing(d)'
  BY <1>2, <1>3, <1>4, <1>5 DEF StoredOrComing
<1>8. TypeOK'
  BY <1>2, <1>3, <1>4 DEF MidiInv, TypeOK, MapStep, Goto, Label
<1>9. Alone' /\ CallsOnDevices'
  BY <1>2, CallGoesOn
<1> QED  BY <1>1, <1>2, <1>3, <1>4, <1>6, <1>7, <1>8, <1>9, DeviceStep

LEMMA AssignKeepsInv ==
  ASSUME MidiInv, NEW t \in Thread, Assign(t)
  PROVE  MidiInv'
<1>1. PICK d \in Device : d = dev[t]
  BY DEF MidiInv, TypeOK
<1>2. /\ pc[t] = "assign"
      /\ \E m \in AssignChannel(Map, d, want[t]) : SetMap(m)
      /\ stored' = stored /\ dev' = dev /\ overlapped' = overlapped
      /\ want[t] \in Channel \cup {Invalid}
  BY <1>1 DEF Assign, MidiInv, TypeOK
<1>3. /\ MapStep(d)
      /\ (\A c \in Channel : channel_list[c] # d)
           => \A c \in Channel : channel_list'[c] = d => channel'[d] = c
  BY <1>2, AssignStep DEF MidiInv
<1>4. /\ d \in Thread /\ dev[d] = d /\ phase[d] # "absent"
      /\ t \in Device => t = d
  BY <1>1, <1>2 DEF MidiInv, TypeOK, CallsOnDevices, Thread
<1>5. d \notin overlapped
        => /\ channel[d] = Invalid /\ Single(d)
           /\ \A s \in Thread : dev[s] = d /\ pc[s] # "idle" => s = t
           /\ d \in NonVolatile => StoredOrComing(d)
  BY <1>1, <1>2, OnlyCall DEF MidiInv, DevicesInOrder, NoneYet, OneChannelUnlessOverlapped
<1>6. d \notin overlapped => Single(d)'
  BY <1>3, <1>5, InvalidIsNoChannel DEF Single
<1>7. CASE t \in Device \ NonVolatile /\ Return(t)
  <2>1. /\ \A s \in Thread \ {t} : pc'[s] = pc[s] /\ want'[s] = want[s] /\ got'[s] = got[s]
        /\ pc'[t] = "idle" /\ phase'[d] = "ready"
        /\ \A e \in Device \ {d} : phase'[e] = phase[e]
    BY <1>4, <1>7 DEF Return, Goto, MidiInv, TypeOK
  <2>2. TypeOK'
    BY <1>2, <1>3, <1>7 DEF MidiInv, TypeOK, MapStep, Return, Goto, Label
  <2>3. Alone' /\ CallsOnDevices'
    BY <1>2, <1>7, CallReturns
  <2>4. d \notin overlapped => NoneYet(d)' /\ d \notin NonVolatile
    BY <1>2, <1>4, <1>5, <1>7, <2>1 DEF NoneYet
  <2> QED  BY <1>1, <1>2, <1>3, <1>6, <2>1, <2>2, <2>3, <2>4, DeviceStep
<1>8. CASE t \notin Device \ NonVolatile /\ Goto(t, "look") /\ UNCHANGED <<want, got, phase>>
  <2>1. pc'[t] = "look" /\ \A s \in Thread \ {t} : pc'[s] = pc[s]
    BY <1>8 DEF Goto, MidiInv, TypeOK
  <2>2. TypeOK'
    BY <1>2, <1>3, <1>8 DEF MidiInv, TypeOK, MapStep, Goto, Label
  <2>3. Alone' /\ CallsOnDevices'
    BY <1>2, <1>8, CallGoesOn
  <2>4. d \notin overlapped => NoneYet(d)'
    BY <1>2, <1>4, <1>5, <1>8, <2>1 DEF NoneYet
  <2>5. d \notin overlapped /\ d \in NonVolatile => StoredOrComing(d)'
    BY <1>1, <1>2, <1>4, <1>5, <1>8, <2>1 DEF StoredOrComing
  <2> QED  BY <1>1, <1>2, <1>3, <1>6, <1>8, <2>1, <2>2, <2>3, <2>4, <2>5, DeviceStep
<1> QED  BY <1>7, <1>8 DEF Assign

LEMMA LookKeeps ==
  ASSUME MidiInv, NEW t \in Thread, Look(t)
  PROVE  MidiInv'
<1>1. PICK d \in Device : d = dev[t]
  BY DEF MidiInv, TypeOK
<1>2. /\ pc[t] = "look" /\ channel_list' = channel_list /\ channel' = channel
      /\ stored' = stored /\ dev' = dev /\ overlapped' = overlapped
      /\ t \in Device => t = d /\ t \in NonVolatile
  BY <1>1 DEF Look, mapVars, MidiInv, TypeOK, CallsOnDevices
<1>3. MapStep(d)
  BY <1>2, SameMap DEF MidiInv
<1>4. d \in Thread /\ dev[d] = d /\ phase[d] # "absent"
  BY <1>1, <1>2 DEF MidiInv, TypeOK, CallsOnDevices, Thread
<1>5. d \notin overlapped
        => /\ Single(d) /\ NoneYet(d) /\ (d \in NonVolatile => StoredOrComing(d))
           /\ \A s \in Thread : dev[s] = d /\ pc[s] # "idle" => s = t
  BY <1>1, <1>2, OnlyCall DEF MidiInv, DevicesInOrder, OneChannelUnlessOverlapped
<1>6. d \notin overlapped => Single(d)'
  BY <1>2, <1>5 DEF Single
<1>7. CASE /\ channel[d] = Invalid \/ (t \in Device /\ channel[d] = want[t])
           /\ Return(t)
  <2>1. /\ \A s \in Thread \ {t} : pc'[s] = pc[s] /\ want'[s] = want[s] /\ got'[s] = got[s]
        /\ pc'[t] = "idle" /\ phase'[d] # "absent"
        /\ \A e \in Device \ {d} : phase'[e] = phase[e]
    BY <1>2, <1>4, <1>7 DEF Return, Goto, MidiInv, TypeOK
  <2>2. TypeOK'
    BY <1>2, <1>7 DEF MidiInv, TypeOK, Return, Goto, Label
  <2>3. Alone' /\ CallsOnDevices'
    BY <1>2, <1>7, CallReturns
  <2>4. d \notin overlapped => NoneYet(d)'
    BY <1>2, <1>4, <1>5, <2>1 DEF NoneYet
  <2>5. d \notin overlapped /\ d \in NonVolatile => StoredOrComing(d)'
    BY <1>1, <1>2, <1>4, <1>5, <1>7, <2>1 DEF StoredOrComing
  <2> QED  BY <1>1, <1>2, <1>3, <1>6, <2>1, <2>2, <2>3, <2>4, <2>5, DeviceStep
<1>8. CASE /\ channel[d] # Invalid /\ got' = [got EXCEPT ![t] = channel[d]]
           /\ Goto(t, "write") /\ UNCHANGED <<want, phase>>
  <2>1. /\ pc'[t] = "write" /\ got'[t] = channel[d]
        /\ \A s \in Thread \ {t} : pc'[s] = pc[s] /\ got'[s] = got[s]
    BY <1>8 DEF Goto, MidiInv, TypeOK
  <2>2. TypeOK'
    <3>1. got' \in [Thread -> Channel \cup {Invalid}] /\ channel[d] \in Channel
      BY <1>8 DEF MidiInv, TypeOK
    <3>2. pc' \in [Thread -> Label]
      BY <1>8 DEF MidiInv, TypeOK, Goto, Label
    <3>3. \A s \in Thread : pc'[s] = "write" => got'[s] \in Channel
      BY <2>1, <3>1 DEF MidiInv, TypeOK
    <3> QED  BY <1>2, <1>8, <3>1, <3>2, <3>3 DEF MidiInv, TypeOK
  <2>3. Alone' /\ CallsOnDevices'
    BY <1>2, <1>8, CallGoesOn
  <2>4. d \notin overlapped => NoneYet(d)'
    BY <1>2, <1>4, <1>5, <1>8, <2>1 DEF NoneYet
  <2>5. d \notin overlapped /\ d \in NonVolatile => StoredOrComing(d)'
    BY <1>1, <1>2, <1>4, <1>5, <1>8, <2>1 DEF StoredOrComing
  <2> QED  BY <1>1, <1>2, <1>3, <1>6, <1>8, <2>1, <2>2, <2>3, <2>4, <2>5, DeviceStep
<1> QED  BY <1>1, <1>7, <1>8 DEF Look

LEMMA WriteKeeps ==
  ASSUME MidiInv, NEW t \in Thread, WriteDevice(t)
  PROVE  MidiInv'
<1>1. PICK d \in Device : d = dev[t]
  BY DEF MidiInv, TypeOK
<1>2. /\ pc[t] = "write" /\ channel_list' = channel_list /\ channel' = channel
      /\ dev' = dev /\ overlapped' = overlapped
      /\ got[t] \in Channel
      /\ t \in Device => t = d /\ t \in NonVolatile
  BY <1>1 DEF WriteDevice, mapVars, MidiInv, TypeOK, CallsOnDevices
<1>3. MapStep(d)
  BY <1>2, SameMap DEF MidiInv
<1>4. d \in Thread /\ dev[d] = d /\ phase[d] # "absent"
  BY <1>1, <1>2 DEF MidiInv, TypeOK, CallsOnDevices, Thread
<1>5. d \notin overlapped
        => /\ Single(d) /\ NoneYet(d) /\ (d \in NonVolatile => StoredOrComing(d))
           /\ \A s \in Thread : dev[s] = d /\ pc[s] # "idle" => s = t
  BY <1>1, <1>2, OnlyCall DEF MidiInv, DevicesInOrder, OneChannelUnlessOverlapped
<1>6. d \notin overlapped => Single(d)'
  BY <1>2, <1>5 DEF Single
<1>7. CASE /\ stored' = IF d \in NonVolatile THEN [stored EXCEPT ![d] = got[t]] ELSE stored
           /\ Return(t)
  <2>1. /\ \A s \in Thread \ {t} : pc'[s] = pc[s] /\ want'[s] = want[s] /\ got'[s] = got[s]
        /\ pc'[t] = "idle" /\ phase'[d] # "absent"
        /\ \A e \in Device \ {d} : phase'[e] = phase[e]
        /\ \A e \in NonVolatile \ {d} : stored'[e] = stored[e]
        /\ d \in NonVolatile => stored'[d] = got[t]
    BY <1>2, <1>4, <1>7 DEF Return, Goto, MidiInv, TypeOK
  <2>2. TypeOK'
    <3>1. stored' \in [NonVolatile -> Channel \cup {Invalid}]
      BY <1>2, <1>7 DEF MidiInv, TypeOK
    <3> QED  BY <1>2, <1>7, <3>1 DEF MidiInv, TypeOK, Return, Goto, Label
  <2>3. Alone' /\ CallsOnDevices'
    BY <1>2, <1>7, CallReturns
  <2>4. d \notin overlapped => NoneYet(d)'
    BY <1>2, <1>4, <1>5, <2>1 DEF NoneYet
  <2>5. d \notin overlapped /\ d \in NonVolatile => StoredOrComing(d)'
    BY <1>1, <1>2, <1>4, <1>5, <2>1 DEF StoredOrComing
  <2> QED  BY <1>1, <1>2, <1>3, <1>6, <2>1, <2>2, <2>3, <2>4, <2>5, DeviceStep
<1>8. CASE /\ d \in NonVolatile
           /\ stored' \in {stored, [stored EXCEPT ![d] = got[t]]}
           /\ Goto(t, "free") /\ UNCHANGED <<want, got, phase>>
  <2>1. /\ pc'[t] = "free"
        /\ \A s \in Thread \ {t} : pc'[s] = pc[s]
        /\ \A e \in NonVolatile \ {d} : stored'[e] = stored[e]
    BY <1>8 DEF Goto, MidiInv, TypeOK
  <2>2. TypeOK'
    <3>1. stored' \in [NonVolatile -> Channel \cup {Invalid}]
      BY <1>2, <1>8 DEF MidiInv, TypeOK
    <3> QED  BY <1>2, <1>8, <3>1 DEF MidiInv, TypeOK, Goto, Label
  <2>3. Alone' /\ CallsOnDevices'
    BY <1>2, <1>8, CallGoesOn
  <2>4. d \notin overlapped => NoneYet(d)'
    BY <1>2, <1>4, <1>5, <1>8, <2>1 DEF NoneYet
  <2>5. d \notin overlapped => StoredOrComing(d)'
    BY <1>1, <1>2, <1>4, <1>5, <1>8, <2>1 DEF StoredOrComing
  <2> QED  BY <1>1, <1>2, <1>3, <1>6, <1>8, <2>1, <2>2, <2>3, <2>4, <2>5, DeviceStep
<1> QED  BY <1>1, <1>7, <1>8 DEF WriteDevice

LEMMA FreeUnwrittenKeeps ==
  ASSUME MidiInv, NEW t \in Thread, FreeUnwritten(t)
  PROVE  MidiInv'
<1>1. PICK d \in Device : d = dev[t]
  BY DEF MidiInv, TypeOK
<1>2. /\ pc[t] = "free" /\ SetMap(FreeChannel(Map, d))
      /\ stored' = stored /\ dev' = dev /\ overlapped' = overlapped
      /\ t \in Device => t = d /\ t \in NonVolatile
  BY <1>1 DEF FreeUnwritten, MidiInv, TypeOK, CallsOnDevices
<1>3. MapStep(d) /\ channel'[d] = Invalid /\ (Single(d) => \A c \in Channel : channel_list'[c] # d)
  BY <1>2, FreeStep DEF MidiInv
<1>4. d \in Thread /\ dev[d] = d /\ phase[d] # "absent"
  BY <1>1, <1>2 DEF MidiInv, TypeOK, CallsOnDevices, Thread
<1>5. d \notin overlapped => \A s \in Thread : dev[s] = d /\ pc[s] # "idle" => s = t
  BY <1>1, <1>2, OnlyCall
<1>6. d \notin overlapped => Single(d)' /\ NoneYet(d)'
  BY <1>3 DEF Single, NoneYet, MidiInv, OneChannelUnlessOverlapped
<1>7. CASE t \in Device /\ Goto(t, "forget") /\ UNCHANGED <<want, got, phase>>
  <2>1. pc'[t] = "forget" /\ \A s \in Thread \ {t} : pc'[s] = pc[s]
    BY <1>7 DEF Goto, MidiInv, TypeOK
  <2>2. TypeOK'
    BY <1>2, <1>3, <1>7 DEF MidiInv, TypeOK, MapStep, Goto, Label
  <2>3. Alone' /\ CallsOnDevices'
    BY <1>2, <1>7, CallGoesOn
  <2>4. d \notin overlapped => StoredOrComing(d)'
    BY <1>2, <1>3, <1>4, <1>5, <1>7, <2>1 DEF StoredOrComing
  <2> QED  BY <1>1, <1>2, <1>3, <1>6, <1>7, <2>1, <2>2, <2>3, <2>4, DeviceStep
<1>8. CASE t \notin Device /\ Return(t)
  <2>1. /\ \A s \in Thread \ {t} : pc'[s] = pc[s] /\ want'[s] = want[s] /\ got'[s] = got[s]
        /\ pc'[t] = "idle" /\ phase' = phase
    BY <1>8 DEF Return, Goto, MidiInv, TypeOK
  <2>2. TypeOK'
    BY <1>2, <1>3, <1>8 DEF MidiInv, TypeOK, MapStep, Return, Goto, Label
  <2>3. Alone' /\ CallsOnDevices'
    BY <1>2, <1>8, CallReturns
  <2>4. d \notin overlapped => StoredOrComing(d)'
    BY <1>2, <1>3, <1>4, <1>5, <1>8, <2>1 DEF StoredOrComing
  <2> QED  BY <1>1, <1>2, <1>3, <1>6, <2>1, <2>2, <2>3, <2>4, DeviceStep
<1> QED  BY <1>7, <1>8 DEF FreeUnwritten

LEMMA StutterKeeps ==
  ASSUME MidiInv, UNCHANGED vars
  PROVE  MidiInv'
<1> USE DEF vars, mapVars
<1>1. TypeOK'
  BY DEF MidiInv, TypeOK
<1>2. OwnerAgrees' /\ OneChannelUnlessOverlapped'
  BY DEF MidiInv, OwnerAgrees, OneChannelUnlessOverlapped, Single
<1>3. Alone' /\ CallsOnDevices'
  BY DEF MidiInv, Alone, CallsOnDevices
<1>4. DevicesInOrder'
  BY DEF MidiInv, DevicesInOrder, NoneYet, StoredOrComing
<1> QED  BY <1>1, <1>2, <1>3, <1>4 DEF MidiInv

LEMMA NextKeeps ==
  ASSUME MidiInv, [Next]_vars
  PROVE  MidiInv'
<1>1. ASSUME NEW d \in Device,
             CreateMidiInterface(d) \/ ReadDevice(d) \/ Forget(d) \/ Disconnect(d)
      PROVE  MidiInv'
  BY <1>1, CreateKeeps, ReadKeeps, ForgetKeeps, DisconnectKeepsInv
<1>2. ASSUME NEW t \in Setter, NEW d \in Device, NEW c \in Channel, SetMidiChannel(t, d, c)
      PROVE  MidiInv'
  BY <1>2, SetKeeps
<1>3. ASSUME NEW t \in Thread, Step(t)
      PROVE  MidiInv'
  <2>1. CASE Clear(t)
    BY <2>1, ClearKeeps
  <2>2. CASE Assign(t)
    BY <2>2, AssignKeepsInv
  <2>3. CASE Look(t)
    BY <2>3, LookKeeps
  <2>4. CASE WriteDevice(t)
    BY <2>4, WriteKeeps
  <2>5. CASE FreeUnwritten(t)
    BY <2>5, FreeUnwrittenKeeps
  <2> QED  BY <1>3, <2>1, <2>2, <2>3, <2>4, <2>5 DEF Step
<1>4. CASE UNCHANGED vars
  BY <1>4, StutterKeeps
<1> QED  BY <1>1, <1>2, <1>3, <1>4 DEF Next

-----------------------------------------------------------------------------
(* The channel reservation works as its inductive invariant says, for any  *)
(* devices, any setters and any number of channels.                        *)
THEOREM MidiCorrect == Spec => []MidiInv
<1>1. Init => MidiInv
  BY InitKeeps
<1>2. MidiInv /\ [Next]_vars => MidiInv'
  BY NextKeeps
<1> QED  BY <1>1, <1>2, PTL DEF Spec

(* Every variable keeps its type; in particular a device is only ever sent *)
(* a channel, never MIDI_INVALID_CHANNEL.                                  *)
THEOREM MidiTyped == Spec => []TypeOK
<1>1. MidiInv => TypeOK
  BY DEF MidiInv
<1> QED  BY <1>1, MidiCorrect, PTL

(* What umidi->channel says, channel_list confirms, in every interleaving  *)
(* of creations, setters and disconnects.                                  *)
THEOREM OwnerCorrect == Spec => []OwnerAgrees
<1>1. MidiInv => OwnerAgrees
  BY DEF MidiInv
<1> QED  BY <1>1, MidiCorrect, PTL

(* No two devices believe they have the same channel.                      *)
NoSharedChannel ==
  \A d, e \in Device : channel[d] = channel[e] /\ channel[d] # Invalid => d = e

(* So the MIDI events of two devices never mix, whatever the setters do.   *)
THEOREM ChannelsDistinct == Spec => []NoSharedChannel
<1>1. OwnerAgrees => NoSharedChannel
  BY DEF OwnerAgrees, NoSharedChannel
<1> QED  BY <1>1, OwnerCorrect, PTL

(* A device on which calls never overlapped reserves one channel at most.  *)
THEOREM OneChannelCorrect == Spec => []OneChannelUnlessOverlapped
<1>1. MidiInv => OneChannelUnlessOverlapped
  BY DEF MidiInv
<1> QED  BY <1>1, MidiCorrect, PTL

(* Between such calls its memory holds the channel that is reserved.       *)
THEOREM StoredCorrect == Spec => []StoredUnlessOverlapped
<1>1. ASSUME MidiInv
      PROVE  StoredUnlessOverlapped
  <2> SUFFICES ASSUME NEW d \in NonVolatile, d \notin overlapped, ~Busy(d),
                      channel[d] # Invalid
               PROVE  stored[d] = channel[d]
    BY DEF StoredUnlessOverlapped
  <2>1. StoredOrComing(d)
    BY <1>1 DEF MidiInv, DevicesInOrder
  <2> QED  BY <2>1 DEF StoredOrComing, Busy
<1> QED  BY <1>1, MidiCorrect, PTL

(* Once it is gone the list does not point to it any more.                 *)
THEOREM GoneCorrect == Spec => []GoneOwnsNothingUnlessOverlapped
<1>1. ASSUME MidiInv
      PROVE  GoneOwnsNothingUnlessOverlapped
  <2> SUFFICES ASSUME NEW d \in Device, d \notin overlapped, phase[d] = "absent",
                      NEW c \in Channel, channel_list[c] = d
               PROVE  FALSE
    BY DEF GoneOwnsNothingUnlessOverlapped
  <2>1. channel[d] = Invalid
    BY <1>1 DEF MidiInv, DevicesInOrder, NoneYet
  <2>2. channel[d] = c
    BY <1>1 DEF MidiInv, OneChannelUnlessOverlapped, Single
  <2> QED  BY <2>1, <2>2, InvalidIsNoChannel
<1> QED  BY <1>1, MidiCorrect, PTL

-----------------------------------------------------------------------------
(* A step of the thread t changes no channel of another device that has    *)
(* memory.                                                                 *)
LEMMA StepSparesOthers ==
  ASSUME MidiInv, NEW t \in Thread, Step(t), NEW e \in NonVolatile,
         phase[e] # "absent", dev[t] # e
  PROVE  channel'[e] = channel[e]
<1>1. PICK d \in Device : d = dev[t]
  BY DEF MidiInv, TypeOK
<1>2. e \in Device \ {d} /\ want[t] \in Channel \cup {Invalid}
  BY <1>1, DeviceAssumption DEF MidiInv, TypeOK
<1>3. CASE SetMap(FreeChannel(Map, d))
  BY <1>2, <1>3, FreeStep DEF MidiInv
<1>4. CASE \E m \in AssignChannel(Map, d, want[t]) : SetMap(m)
  BY <1>2, <1>4, AssignStep DEF MidiInv, MapStep
<1>5. CASE channel' = channel
  BY <1>5
<1> QED
  BY <1>1, <1>3, <1>4, <1>5
     DEF Step, Clear, Assign, Look, WriteDevice, FreeUnwritten, mapVars

(* A step of t takes its call to another place.                            *)
LEMMA StepMoves ==
  ASSUME MidiInv, NEW t \in Thread, Step(t)
  PROVE  pc[t] # "idle" /\ pc'[t] # pc[t]
BY DEF Step, Clear, Assign, Look, WriteDevice, FreeUnwritten, Return, Goto,
       MidiInv, TypeOK

(* A device with memory is never bumped (assign_midi_channel_helper): its  *)
(* channel changes in its own calls, and when it comes and goes.           *)
THEOREM NeverBumpedCorrect == Spec => NeverBumped
<1> DEFINE OwnCall(d) == \/ \E t \in Thread : dev[t] = d /\ pc[t] # "idle" /\ pc'[t] # pc[t]
                         \/ phase'[d] # phase[d]
<1>1. ASSUME MidiInv, Next, NEW d \in NonVolatile, phase[d] # "absent", channel'[d] # channel[d]
      PROVE  OwnCall(d)
  <2>1. ASSUME NEW e \in Device, CreateMidiInterface(e) \/ ReadDevice(e)
        PROVE  OwnCall(d)
    BY <1>1, <2>1, DeviceAssumption
       DEF CreateMidiInterface, ReadDevice, mapVars, MidiInv, TypeOK
  <2>2. ASSUME NEW e \in Device, Forget(e)
        PROVE  OwnCall(d)
    <3>1. d = e /\ d \in Thread /\ dev[d] = d
      BY <1>1, <2>2, DeviceAssumption DEF Forget, MidiInv, TypeOK, Thread
    <3> QED  BY <1>1, <2>2, <3>1 DEF Forget, Return, Goto, MidiInv, TypeOK
  <2>3. ASSUME NEW e \in Device, Disconnect(e)
        PROVE  OwnCall(d)
    <3>1. d = e
      BY <1>1, <2>3, FreeStep, DeviceAssumption DEF Disconnect, MidiInv
    <3> QED  BY <1>1, <2>3, <3>1 DEF Disconnect, MidiInv, TypeOK
  <2>4. ASSUME NEW t \in Setter, NEW e \in Device, NEW c \in Channel, SetMidiChannel(t, e, c)
        PROVE  OwnCall(d)
    BY <1>1, <2>4 DEF SetMidiChannel, mapVars
  <2>5. ASSUME NEW t \in Thread, Step(t)
        PROVE  OwnCall(d)
    BY <1>1, <2>5, StepMoves, StepSparesOthers
  <2> QED  BY <1>1, <2>1, <2>2, <2>3, <2>4, <2>5 DEF Next
<1>2. MidiInv /\ [Next]_vars => [\A d \in NonVolatile :
         phase[d] # "absent" /\ channel'[d] # channel[d] => OwnCall(d)]_vars
  BY <1>1
<1> QED  BY <1>2, MidiCorrect, PTL DEF Spec, NeverBumped
=============================================================================
