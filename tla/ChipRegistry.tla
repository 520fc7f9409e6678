---------------------------- MODULE ChipRegistry ----------------------------
(***************************************************************************)
(* The chip registry of device.c: the table usb_chip[] under               *)
(* register_mutex, the reference count of a chip (one per USB device), and *)
(* everything that takes and gives back references: hdj_probe and          *)
(* hdj_disconnect (called by the USB core once per interface, serialised   *)
(* per device), the power callbacks, the file operations of the bulk and   *)
(* MIDI character devices, and the /proc readers.                          *)
(*                                                                         *)
(* The C code counts references; it does not say who owns them.  The model *)
(* names the owners: holds[k] is the chip on which owner k has a           *)
(* reference.  ref_count is the code's own counter and is updated exactly  *)
(* as the code updates it, through usb_chip[index] and not through the     *)
(* owner, so the two can drift apart; whether they do is what the          *)
(* properties ask.                                                         *)
(***************************************************************************)
EXTENDS Integers, FiniteSets

CONSTANTS
  Device,           \* struct usb_device objects, one hub thread each
  IfNum,            \* the interfaces this driver is bound to on a device
  CharIf,           \* the interfaces with a character device (bulk, MP3)
  Client,           \* user threads: each opens at most one file at a time
  AlsaClient,       \* users of the sound card through ALSA
  Chip,             \* the struct snd_hdj_chip objects memory can hold
  NumSlots,         \* SNDRV_CARDS
  Ops,              \* which client operations occur (see AllOps)
  NetlinkMutexInit, \* initial count of chip->netlink_list_mutex
  MaxLeak,          \* bound: a leaking call happens only below this count
  NoChip, NoOwner

AllOps == {"open", "proc", "long_name", "vendor", "set_channel", "register", "pm"}

ASSUME FiniteAssumption == /\ IsFiniteSet(Device) /\ Device # {}
                           /\ IsFiniteSet(IfNum) /\ IfNum # {}
                           /\ IsFiniteSet(Client)
ASSUME ThreadAssumption == Device \cap Client = {}
ASSUME OwnerAssumption  == NoOwner \notin Device \cup Client
ASSUME ChipAssumption   == NoChip \notin Chip
ASSUME SlotAssumption   == NumSlots \in Nat \ {0}
ASSUME IfAssumption     == CharIf \subseteq IfNum
ASSUME OpsAssumption    == Ops \subseteq AllOps
ASSUME LeakAssumption   == MaxLeak \in Nat
ASSUME MutexAssumption  == NetlinkMutexInit \in {0, 1}

Thread == Device \cup Client
Slot   == 0 .. NumSlots - 1
Intf   == Device \X IfNum

(* The owners of references: the operation a thread is running, a call     *)
(* nested in it, an open file, and a bound interface.                      *)
OpRef(t)   == <<"op", t>>
SubRef(t)  == <<"sub", t>>
FileRef(c) == <<"file", c>>
IntfRef(f) == <<"intf", f>>
RefOwner   == ({"op", "sub"} \X Thread) \cup ({"file"} \X Client)
                                        \cup ({"intf"} \X Intf)

VARIABLES
  usb_chip,           \* [Slot -> Chip or NoChip]
  register_mutex,     \* its owner across a blocking section, or NoOwner
  phase,              \* "free" memory, "live", or "released" (shutdown = 1)
  chip_dev,           \* chip->dev
  chip_index,         \* chip->index
  ref_count,          \* chip->ref_count
  netlink_list_mutex, \* count of the semaphore chip->netlink_list_mutex
  netlink_registered, \* clients on chip->netlink_registered_processes
  card_registered,    \* the sound card and its /proc files are visible
  dying,              \* the chip the owner of register_mutex is tearing down
  holds,              \* [RefOwner -> Chip or NoChip]: who owns a reference
  bound,              \* the interfaces the USB core has bound to the driver
  intfdata,           \* [Intf -> Slot]: usb_set_intfdata
  private_data,       \* [Client -> Slot]: file->private_data of its open file
  alsa,               \* [AlsaClient -> Chip or NoChip]
  pc,                 \* [Thread -> Label]
  cont,               \* [Thread -> Label]: where a nested call returns to
  idx,                \* [Thread -> Slot]: the local chip_index
  ifn,                \* [Device -> IfNum]: the interface being (un)bound
  probe_chip,         \* [Device -> Chip or NoChip]: chip in hdj_probe
  robbed              \* history: hdj_probe's increment missed its chip

chipVars   == <<chip_dev, chip_index>>
netVars    == <<netlink_list_mutex, netlink_registered>>
slotVars   == <<usb_chip, register_mutex, phase, dying>>
usbVars    == <<bound, intfdata, ifn, probe_chip>>
localVars  == <<pc, cont, idx>>
vars == <<slotVars, chipVars, netVars, usbVars, localVars, ref_count, holds,
          card_registered, private_data, alsa, robbed>>

HubLabel == {"probe_inc", "probe_streams", "probe_card", "probe_error",
             "disc_signal", "disc_dec", "disc_dec_probe", "unbind"}
OpenLabel == {"open_inc", "open_inc_again", "open_undo", "open_body",
              "open_dec", "open_fail_dec", "open_fail_dec_again"}
CloseLabel == {"rel_unregister", "rel_dec", "rel_dec_open"}
Label == {"idle", "use", "ioctl", "dec", "sub", "long_inc", "proc_inc", "releasing"}
           \cup HubLabel \cup OpenLabel \cup CloseLabel

TypeOK ==
  /\ usb_chip \in [Slot -> Chip \cup {NoChip}]
  /\ register_mutex \in Thread \cup {NoOwner}
  /\ phase \in [Chip -> {"free", "live", "released"}]
  /\ chip_dev \in [Chip -> Device]
  /\ chip_index \in [Chip -> Slot]
  /\ ref_count \in [Chip -> Int]
  /\ netlink_list_mutex \in [Chip -> {0, 1}]
  /\ netlink_registered \in [Chip -> SUBSET Client]
  /\ card_registered \in [Chip -> BOOLEAN]
  /\ dying \in Chip \cup {NoChip}
  /\ holds \in [RefOwner -> Chip \cup {NoChip}]
  /\ bound \subseteq Intf
  /\ intfdata \in [Intf -> Slot]
  /\ private_data \in [Client -> Slot]
  /\ alsa \in [AlsaClient -> Chip \cup {NoChip}]
  /\ pc \in [Thread -> Label]
  /\ cont \in [Thread -> Label]
  /\ idx \in [Thread -> Slot]
  /\ ifn \in [Device -> IfNum]
  /\ probe_chip \in [Device -> Chip \cup {NoChip}]
  /\ robbed \in BOOLEAN

(* Module load: no slot is used and no interface is bound.  Fields of a    *)
(* chip and locals that have no value yet have an arbitrary one.           *)
Init ==
  /\ usb_chip = [s \in Slot |-> NoChip]
  /\ register_mutex = NoOwner
  /\ phase = [ch \in Chip |-> "free"]
  /\ chip_dev = [ch \in Chip |-> CHOOSE d \in Device : TRUE]
  /\ chip_index = [ch \in Chip |-> 0]
  /\ ref_count = [ch \in Chip |-> 0]
  /\ netlink_list_mutex = [ch \in Chip |-> NetlinkMutexInit]
  /\ netlink_registered = [ch \in Chip |-> {}]
  /\ card_registered = [ch \in Chip |-> FALSE]
  /\ dying = NoChip
  /\ holds = [k \in RefOwner |-> NoChip]
  /\ bound = {}
  /\ intfdata = [f \in Intf |-> 0]
  /\ private_data = [c \in Client |-> 0]
  /\ alsa = [a \in AlsaClient |-> NoChip]
  /\ pc = [t \in Thread |-> "idle"]
  /\ cont = [t \in Thread |-> "idle"]
  /\ idx = [t \in Thread |-> 0]
  /\ ifn = [d \in Device |-> CHOOSE n \in IfNum : TRUE]
  /\ probe_chip = [d \in Device |-> NoChip]
  /\ robbed = FALSE

Goto(t, l) == pc' = [pc EXCEPT ![t] = l]

-----------------------------------------------------------------------------
(* inc_chip_ref_count and dec_chip_ref_count                               *)

(* The test inc_chip_ref_count makes under register_mutex.                 *)
Acquirable(s) == usb_chip[s] # NoChip /\ phase[usb_chip[s]] = "live"

(* Mutant: the increment is lost.                                          *)
IncFoundUncounted(t, k, s, next) ==
  /\ register_mutex = NoOwner
  /\ Acquirable(s)
  /\ holds' = [holds EXCEPT ![k] = usb_chip[s]]
  /\ Goto(t, next)
  /\ UNCHANGED ref_count

(* inc_chip_ref_count(s) by thread t on behalf of owner k: found or not.   *)
IncFound(t, k, s, next) ==
  /\ register_mutex = NoOwner
  /\ Acquirable(s)
  /\ ref_count' = [ref_count EXCEPT ![usb_chip[s]] = @ + 1]
  /\ holds' = [holds EXCEPT ![k] = usb_chip[s]]
  /\ Goto(t, next)

IncNull(t, s, next) ==
  /\ register_mutex = NoOwner
  /\ ~Acquirable(s)
  /\ Goto(t, next)
  /\ UNCHANGED <<ref_count, holds>>

Inc(t, k, s, found, null) == IncFound(t, k, s, found) \/ IncNull(t, s, null)

(* disconnect and release give up when their increment finds no chip: the  *)
(* reference k of the interface or file is then never given back.          *)
IncNullForget(t, k, s, next) ==
  /\ register_mutex = NoOwner
  /\ ~Acquirable(s)
  /\ holds' = [holds EXCEPT ![k] = NoChip]
  /\ Goto(t, next)
  /\ UNCHANGED ref_count

(* dec_chip_ref_count(s): it decrements whatever chip the slot has now.    *)
DecNull(t, s, next) ==
  /\ usb_chip[s] = NoChip
  /\ Goto(t, next)
  /\ UNCHANGED <<slotVars, ref_count, cont, card_registered>>

DecNotLast(t, s, next) ==
  /\ usb_chip[s] # NoChip
  /\ ref_count[usb_chip[s]] > 1
  /\ ref_count' = [ref_count EXCEPT ![usb_chip[s]] = @ - 1]
  /\ Goto(t, next)
  /\ UNCHANGED <<slotVars, cont, card_registered>>

(* Mutant: the chip is released one reference too early.                   *)
DecLastEarly(t, s, next) ==
  /\ usb_chip[s] # NoChip
  /\ ref_count[usb_chip[s]] <= 2
  /\ ref_count' = [ref_count EXCEPT ![usb_chip[s]] = @ - 1]
  /\ usb_chip' = [usb_chip EXCEPT ![s] = NoChip]
  /\ phase' = [phase EXCEPT ![usb_chip[s]] = "released"]
  /\ card_registered' = [card_registered EXCEPT ![usb_chip[s]] = FALSE]
  /\ dying' = usb_chip[s]
  /\ register_mutex' = t
  /\ cont' = [cont EXCEPT ![t] = next]
  /\ Goto(t, "releasing")

(* The last decrement: the slot is cleared, shutdown set, the card and the *)
(* MIDI and bulk devices disconnected.  register_mutex stays held into     *)
(* ReleaseTail.                                                            *)
DecLast(t, s, next) ==
  /\ usb_chip[s] # NoChip
  /\ ref_count[usb_chip[s]] <= 1
  /\ ref_count' = [ref_count EXCEPT ![usb_chip[s]] = @ - 1]
  /\ usb_chip' = [usb_chip EXCEPT ![s] = NoChip]
  /\ phase' = [phase EXCEPT ![usb_chip[s]] = "released"]
  /\ card_registered' = [card_registered EXCEPT ![usb_chip[s]] = FALSE]
  /\ dying' = usb_chip[s]
  /\ register_mutex' = t
  /\ cont' = [cont EXCEPT ![t] = next]
  /\ Goto(t, "releasing")

Dec(t, k, s, next) ==
  /\ register_mutex = NoOwner
  /\ \/ DecNull(t, s, next)
     \/ DecNotLast(t, s, next)
     \/ DecLast(t, s, next)
  /\ holds' = [holds EXCEPT ![k] = NoChip]
  /\ UNCHANGED <<chipVars, netVars, usbVars, idx, private_data, alsa, robbed>>

(* Mutant: register_mutex is not given back.                               *)
ReleaseTailNoUp(t) ==
  /\ pc[t] = "releasing"
  /\ netlink_list_mutex[dying] = 1
  /\ netlink_registered' = [netlink_registered EXCEPT ![dying] = {}]
  /\ phase' = IF \E a \in AlsaClient : alsa[a] = dying
                THEN phase ELSE [phase EXCEPT ![dying] = "free"]
  /\ dying' = NoChip
  /\ Goto(t, cont[t])
  /\ UNCHANGED <<usb_chip, register_mutex, chipVars, netlink_list_mutex, usbVars,
                 cont, idx, ref_count, holds, card_registered, private_data, alsa,
                 robbed>>

(* The rest of the last decrement: uninit_netlink_state takes the chip's   *)
(* netlink_list_mutex, and snd_card_free_when_closed runs the destructor   *)
(* unless an ALSA client still has the card open.                          *)
ReleaseTail(t) ==
  /\ pc[t] = "releasing"
  /\ netlink_list_mutex[dying] = 1
  /\ netlink_registered' = [netlink_registered EXCEPT ![dying] = {}]
  /\ phase' = IF \E a \in AlsaClient : alsa[a] = dying
                THEN phase ELSE [phase EXCEPT ![dying] = "free"]
  /\ dying' = NoChip
  /\ register_mutex' = NoOwner
  /\ Goto(t, cont[t])
  /\ UNCHANGED <<usb_chip, chipVars, netlink_list_mutex, usbVars, cont, idx,
                 ref_count, holds, card_registered, private_data, alsa, robbed>>

-----------------------------------------------------------------------------
(* hdj_probe: one interface of one device.  A probe that finds no slot, or *)
(* whose chip_create returns no chip, changes nothing and is not an action.*)

(* Mutant: the search for the device is left out.                          *)
NoSlotsOf(d) == {}
SlotsOf(d) == {s \in Slot : usb_chip[s] # NoChip /\ chip_dev[usb_chip[s]] = d}
EmptySlots == {s \in Slot : usb_chip[s] = NoChip}
FirstOf(S) == CHOOSE s \in S : \A u \in S : s <= u

(* Publish the chip, increment num_interfaces and set the interface data.  *)
ProbePublish(d, n, ch, s) ==
  /\ usb_chip' = [usb_chip EXCEPT ![s] = ch]
  /\ probe_chip' = [probe_chip EXCEPT ![d] = ch]
  /\ intfdata' = [intfdata EXCEPT ![<<d, n>>] = s]
  /\ idx' = [idx EXCEPT ![d] = s]
  /\ ifn' = [ifn EXCEPT ![d] = n]
  /\ Goto(d, "probe_inc")
  /\ UNCHANGED <<register_mutex, dying, netlink_registered, bound, cont, holds,
                 card_registered, private_data, alsa, robbed>>

(* The device already has a chip: another interface was probed before.     *)
ProbeFound(d, n) ==
  /\ pc[d] = "idle" /\ <<d, n>> \notin bound
  /\ register_mutex = NoOwner
  /\ SlotsOf(d) # {}
  /\ LET ch == usb_chip[FirstOf(SlotsOf(d))]
     IN  /\ phase[ch] = "live"
         /\ ProbePublish(d, n, ch, chip_index[ch])
  /\ UNCHANGED <<phase, chipVars, ref_count, netlink_list_mutex>>

(* snd_hdj_chip_create on fresh memory.  It sets up vendor_request_mutex   *)
(* twice and leaves netlink_list_mutex as memset left it (device.c:1712).  *)
CreateChip(d, ch, s) ==
  /\ phase[ch] = "free"
  /\ phase' = [phase EXCEPT ![ch] = "live"]
  /\ ref_count' = [ref_count EXCEPT ![ch] = 0]
  /\ chip_dev' = [chip_dev EXCEPT ![ch] = d]
  /\ chip_index' = [chip_index EXCEPT ![ch] = s]
  /\ netlink_list_mutex' = [netlink_list_mutex EXCEPT ![ch] = NetlinkMutexInit]

(* A fresh one, in the first empty slot.                                   *)
ProbeCreate(d, n, ch) ==
  /\ pc[d] = "idle" /\ <<d, n>> \notin bound
  /\ register_mutex = NoOwner
  /\ SlotsOf(d) = {} /\ EmptySlots # {}
  /\ CreateChip(d, ch, FirstOf(EmptySlots))
  /\ ProbePublish(d, n, ch, FirstOf(EmptySlots))

(* The interface's own reference.  The result of the call is ignored, and  *)
(* register_mutex was let go in between: the chip may be gone, and its     *)
(* slot empty or another chip's.                                           *)
ProbeInc(d) ==
  /\ pc[d] = "probe_inc"
  /\ Inc(d, IntfRef(<<d, ifn[d]>>), idx[d], "probe_streams", "probe_streams")
  /\ robbed' = (robbed \/ usb_chip[idx[d]] # probe_chip[d])
  /\ UNCHANGED <<slotVars, chipVars, netVars, usbVars, cont, idx,
                 card_registered, private_data, alsa>>

(* snd_hdj_create_streams succeeds or fails.                               *)
ProbeStreams(d) ==
  /\ pc[d] = "probe_streams"
  /\ Goto(d, "probe_card") \/ Goto(d, "probe_error")
  /\ UNCHANGED <<slotVars, chipVars, netVars, usbVars, cont, idx, ref_count,
                 holds, card_registered, private_data, alsa, robbed>>

(* snd_card_register succeeds, and the USB core binds the interface.       *)
ProbeCard(d) ==
  /\ pc[d] = "probe_card"
  /\ card_registered' = [card_registered EXCEPT ![probe_chip[d]] = TRUE]
  /\ bound' = bound \cup {<<d, ifn[d]>>}
  /\ Goto(d, "idle")
  /\ UNCHANGED <<slotVars, chipVars, netVars, intfdata, ifn, probe_chip, cont,
                 idx, ref_count, holds, private_data, alsa, robbed>>

ProbeCardFails(d) ==
  /\ pc[d] = "probe_card"
  /\ Goto(d, "probe_error")
  /\ UNCHANGED <<slotVars, chipVars, netVars, usbVars, cont, idx, ref_count,
                 holds, card_registered, private_data, alsa, robbed>>

(* The label __error.                                                      *)
ProbeError(d) ==
  /\ pc[d] = "probe_error"
  /\ Dec(d, IntfRef(<<d, ifn[d]>>), idx[d], "idle")

-----------------------------------------------------------------------------
(* hdj_disconnect, and the power callbacks                                 *)

DisconnectInc(d, n) ==
  /\ pc[d] = "idle" /\ <<d, n>> \in bound
  /\ \/ IncFound(d, OpRef(d), intfdata[<<d, n>>], "disc_signal")
     \/ IncNullForget(d, IntfRef(<<d, n>>), intfdata[<<d, n>>], "unbind")
  /\ idx' = [idx EXCEPT ![d] = intfdata[<<d, n>>]]
  /\ ifn' = [ifn EXCEPT ![d] = n]
  /\ UNCHANGED <<slotVars, chipVars, netVars, bound, intfdata, probe_chip, cont,
                 card_registered, private_data, alsa, robbed>>

(* signal_all_waiting_readers for a bulk interface.                        *)
DisconnectSignal(d) ==
  /\ pc[d] = "disc_signal"
  /\ Goto(d, "disc_dec")
  /\ UNCHANGED <<slotVars, chipVars, netVars, usbVars, cont, idx, ref_count,
                 holds, card_registered, private_data, alsa, robbed>>

DisconnectDec(d) ==
  /\ pc[d] = "disc_dec"
  /\ Dec(d, OpRef(d), idx[d], "disc_dec_probe")

(* The decrement that balances with the one in probe.                      *)
DisconnectDecProbe(d) ==
  /\ pc[d] = "disc_dec_probe"
  /\ Dec(d, IntfRef(<<d, ifn[d]>>), idx[d], "unbind")

(* The callback has returned: the USB core forgets the binding.            *)
Unbind(d) ==
  /\ pc[d] = "unbind"
  /\ bound' = bound \ {<<d, ifn[d]>>}
  /\ Goto(d, "idle")
  /\ UNCHANGED <<slotVars, chipVars, netVars, intfdata, ifn, probe_chip, cont,
                 idx, ref_count, holds, card_registered, private_data, alsa,
                 robbed>>

(* hdj_suspend, hdj_resume, pre_reset, post_reset: an increment, the work, *)
(* and a decrement.                                                        *)
PowerInc(d, n) ==
  /\ "pm" \in Ops
  /\ pc[d] = "idle" /\ <<d, n>> \in bound
  /\ Inc(d, OpRef(d), intfdata[<<d, n>>], "use", "idle")
  /\ idx' = [idx EXCEPT ![d] = intfdata[<<d, n>>]]
  /\ UNCHANGED <<slotVars, chipVars, netVars, usbVars, cont, card_registered,
                 private_data, alsa, robbed>>

-----------------------------------------------------------------------------
(* File operations of the character devices                                *)

FileOpen(c) == holds[FileRef(c)] # NoChip

(* open: usb_find_interface and usb_get_intfdata, before any reference.    *)
OpenLookup(c, f) ==
  /\ "open" \in Ops
  /\ pc[c] = "idle" /\ ~FileOpen(c)
  /\ f \in bound /\ f[2] \in CharIf
  /\ idx' = [idx EXCEPT ![c] = intfdata[f]]
  /\ Goto(c, "open_inc")
  /\ UNCHANGED <<slotVars, chipVars, netVars, usbVars, cont, ref_count, holds,
                 card_registered, private_data, alsa, robbed>>

OpenInc(c) ==
  /\ pc[c] = "open_inc"
  /\ Inc(c, OpRef(c), idx[c], "open_inc_again", "idle")
  /\ UNCHANGED <<slotVars, chipVars, netVars, usbVars, cont, idx,
                 card_registered, private_data, alsa, robbed>>

(* The reference that keeps the chip until release.                        *)
OpenIncAgain(c) ==
  /\ pc[c] = "open_inc_again"
  /\ Inc(c, FileRef(c), idx[c], "open_body", "open_undo")
  /\ UNCHANGED <<slotVars, chipVars, netVars, usbVars, cont, idx,
                 card_registered, private_data, alsa, robbed>>

OpenUndo(c) ==
  /\ pc[c] = "open_undo"
  /\ Dec(c, OpRef(c), idx[c], "idle")

(* The body succeeds, or refuses (no bulk device, I/O forbidden, no memory).*)
OpenBody(c) ==
  /\ pc[c] = "open_body"
  /\ \/ /\ private_data' = [private_data EXCEPT ![c] = idx[c]]
        /\ Goto(c, "open_dec")
     \/ /\ Goto(c, "open_fail_dec")
        /\ UNCHANGED private_data
  /\ UNCHANGED <<slotVars, chipVars, netVars, usbVars, cont, idx, ref_count,
                 holds, card_registered, alsa, robbed>>

OpenDec(c) ==
  /\ pc[c] = "open_dec"
  /\ Dec(c, OpRef(c), idx[c], "idle")

(* Mutant: a refused open keeps the reference meant for release.           *)
OpenFailKeeps(c) ==
  /\ pc[c] = "open_fail_dec_again"
  /\ holds' = [holds EXCEPT ![FileRef(c)] = NoChip]
  /\ Goto(c, "idle")
  /\ UNCHANGED <<slotVars, chipVars, netVars, usbVars, cont, idx, ref_count,
                 card_registered, private_data, alsa, robbed>>

OpenFailDec(c) ==
  /\ pc[c] = "open_fail_dec"
  /\ Dec(c, OpRef(c), idx[c], "open_fail_dec_again")

OpenFailDecAgain(c) ==
  /\ pc[c] = "open_fail_dec_again"
  /\ Dec(c, FileRef(c), idx[c], "idle")

(* ioctl, read, poll: an increment, the work, and a decrement.             *)
IoctlInc(c) ==
  /\ pc[c] = "idle" /\ FileOpen(c)
  /\ Inc(c, OpRef(c), private_data[c], "ioctl", "idle")
  /\ idx' = [idx EXCEPT ![c] = private_data[c]]
  /\ UNCHANGED <<slotVars, chipVars, netVars, usbVars, cont, card_registered,
                 private_data, alsa, robbed>>

WorkDone(t) ==
  /\ pc[t] \in {"ioctl", "use"}
  /\ Goto(t, "dec")
  /\ UNCHANGED <<slotVars, chipVars, netVars, usbVars, cont, idx, ref_count,
                 holds, card_registered, private_data, alsa, robbed>>

OpDec(t) ==
  /\ pc[t] = "dec"
  /\ Dec(t, OpRef(t), idx[t], "idle")

(* register_for_netlink: one registration per process.  The path on which  *)
(* the allocation fails returns without the up().                          *)
RegisterForNetlink(c) ==
  LET ch == holds[OpRef(c)]
  IN  /\ "register" \in Ops
      /\ pc[c] = "ioctl"
      /\ netlink_list_mutex[ch] = 1
      /\ c \notin netlink_registered[ch]
      /\ \/ /\ netlink_registered' = [netlink_registered EXCEPT ![ch] = @ \cup {c}]
            /\ UNCHANGED netlink_list_mutex
         \/ /\ netlink_list_mutex' = [netlink_list_mutex EXCEPT ![ch] = 0]
            /\ UNCHANGED netlink_registered
      /\ Goto(c, "dec")
      /\ UNCHANGED <<slotVars, chipVars, usbVars, cont, idx, ref_count, holds,
                     card_registered, private_data, alsa, robbed>>

ReleaseInc(c) ==
  /\ pc[c] = "idle" /\ FileOpen(c)
  /\ \/ IncFound(c, OpRef(c), private_data[c], "rel_unregister")
     \/ IncNullForget(c, FileRef(c), private_data[c], "idle")
  /\ idx' = [idx EXCEPT ![c] = private_data[c]]
  /\ UNCHANGED <<slotVars, chipVars, netVars, usbVars, cont, card_registered,
                 private_data, alsa, robbed>>

(* Mutant: release does not unregister the file.                           *)
ReleaseKeepsRegistration(c) ==
  /\ pc[c] = "rel_unregister"
  /\ Goto(c, "rel_dec")
  /\ UNCHANGED <<slotVars, chipVars, netVars, usbVars, cont, idx, ref_count,
                 holds, card_registered, private_data, alsa, robbed>>

(* unregister_for_netlink(chip, file) waits for netlink_list_mutex.        *)
ReleaseUnregister(c) ==
  LET ch == holds[OpRef(c)]
  IN  /\ pc[c] = "rel_unregister"
      /\ netlink_list_mutex[ch] = 1
      /\ netlink_registered' = [netlink_registered EXCEPT ![ch] = @ \ {c}]
      /\ Goto(c, "rel_dec")
      /\ UNCHANGED <<slotVars, chipVars, netlink_list_mutex, usbVars, cont, idx,
                     ref_count, holds, card_registered, private_data, alsa,
                     robbed>>

ReleaseDec(c) ==
  /\ pc[c] = "rel_dec"
  /\ Dec(c, OpRef(c), idx[c], "rel_dec_open")

(* The decrement that balances the count with open.                        *)
ReleaseDecOpen(c) ==
  /\ pc[c] = "rel_dec_open"
  /\ Dec(c, FileRef(c), idx[c], "idle")

-----------------------------------------------------------------------------
(* Calls nested in an operation                                            *)

(* A nested call takes its own reference: send_vendor_request,             *)
(* snd_hdjmidi_set_midi_channel_helper.                                    *)
SubInc(t) ==
  /\ {"vendor", "set_channel"} \cap Ops # {}
  /\ pc[t] \in {"ioctl", "use"}
  /\ Inc(t, SubRef(t), idx[t], "sub", pc[t])
  /\ cont' = [cont EXCEPT ![t] = pc[t]]
  /\ UNCHANGED <<slotVars, chipVars, netVars, usbVars, idx, card_registered,
                 private_data, alsa, robbed>>

SubDec(t) ==
  /\ pc[t] = "sub"
  /\ Dec(t, SubRef(t), idx[t], cont[t])

(* The channel requested is not a MIDI channel: return -EINVAL, with no    *)
(* decrement.  The owner is gone and the count stays.                      *)
SetChannelInvalid(t) ==
  /\ "set_channel" \in Ops
  /\ pc[t] = "sub"
  /\ ref_count[holds[SubRef(t)]] < MaxLeak
  /\ holds' = [holds EXCEPT ![SubRef(t)] = NoChip]
  /\ Goto(t, cont[t])
  /\ UNCHANGED <<slotVars, chipVars, netVars, usbVars, cont, idx, ref_count,
                 card_registered, private_data, alsa, robbed>>

-----------------------------------------------------------------------------
(* The readers of the card's /proc files                                   *)

ProcLookup(c, ch) ==
  /\ pc[c] = "idle" /\ card_registered[ch]
  /\ idx' = [idx EXCEPT ![c] = chip_index[ch]]
  /\ \/ "proc" \in Ops /\ Goto(c, "proc_inc")
     \/ "long_name" \in Ops /\ Goto(c, "long_inc")
  /\ UNCHANGED <<slotVars, chipVars, netVars, usbVars, cont, ref_count, holds,
                 card_registered, private_data, alsa, robbed>>

(* proc_longname_read increments twice and keeps only the second result.   *)
LongnameInc(c) ==
  /\ pc[c] = "long_inc"
  /\ register_mutex = NoOwner
  /\ \/ /\ Acquirable(idx[c])
        /\ ref_count[usb_chip[idx[c]]] < MaxLeak
        /\ ref_count' = [ref_count EXCEPT ![usb_chip[idx[c]]] = @ + 1]
     \/ ~Acquirable(idx[c]) /\ UNCHANGED ref_count
  /\ Goto(c, "proc_inc")
  /\ UNCHANGED <<slotVars, chipVars, netVars, usbVars, cont, idx, holds,
                 card_registered, private_data, alsa, robbed>>

ProcInc(c) ==
  /\ pc[c] = "proc_inc"
  /\ Inc(c, OpRef(c), idx[c], "use", "idle")
  /\ UNCHANGED <<slotVars, chipVars, netVars, usbVars, cont, idx,
                 card_registered, private_data, alsa, robbed>>

-----------------------------------------------------------------------------
(* ALSA keeps the destructor of a released card waiting until its last     *)
(* client closes it.                                                       *)

AlsaOpen(a, ch) ==
  /\ alsa[a] = NoChip /\ card_registered[ch]
  /\ alsa' = [alsa EXCEPT ![a] = ch]
  /\ UNCHANGED <<slotVars, chipVars, netVars, usbVars, localVars, ref_count,
                 holds, card_registered, private_data, robbed>>

AlsaClose(a) ==
  LET ch == alsa[a]
  IN  /\ ch # NoChip
      /\ alsa' = [alsa EXCEPT ![a] = NoChip]
      /\ phase' = IF /\ phase[ch] = "released" /\ dying # ch
                     /\ \A b \in AlsaClient \ {a} : alsa[b] # ch
                    THEN [phase EXCEPT ![ch] = "free"] ELSE phase
      /\ UNCHANGED <<usb_chip, register_mutex, dying, chipVars, netVars, usbVars,
                     localVars, ref_count, holds, card_registered, private_data,
                     robbed>>

-----------------------------------------------------------------------------
HubStep(d) ==
  \/ \E n \in IfNum : \/ ProbeFound(d, n)
                      \/ \E ch \in Chip : ProbeCreate(d, n, ch)
                      \/ DisconnectInc(d, n)
                      \/ PowerInc(d, n)
  \/ ProbeInc(d) \/ ProbeStreams(d) \/ ProbeCard(d) \/ ProbeCardFails(d)
  \/ ProbeError(d)
  \/ DisconnectSignal(d) \/ DisconnectDec(d) \/ DisconnectDecProbe(d)
  \/ Unbind(d)

ClientStep(c) ==
  \/ \E f \in Intf : OpenLookup(c, f)
  \/ OpenInc(c) \/ OpenIncAgain(c) \/ OpenUndo(c) \/ OpenBody(c)
  \/ OpenDec(c) \/ OpenFailDec(c) \/ OpenFailDecAgain(c)
  \/ IoctlInc(c) \/ RegisterForNetlink(c)
  \/ ReleaseInc(c) \/ ReleaseUnregister(c) \/ ReleaseDec(c) \/ ReleaseDecOpen(c)
  \/ \E ch \in Chip : ProcLookup(c, ch)
  \/ LongnameInc(c) \/ ProcInc(c)

AnyStep(t) ==
  \/ WorkDone(t) \/ OpDec(t) \/ ReleaseTail(t)
  \/ SubInc(t) \/ SubDec(t) \/ SetChannelInvalid(t)

Next ==
  \/ \E d \in Device : HubStep(d)
  \/ \E c \in Client : ClientStep(c)
  \/ \E t \in Thread : AnyStep(t)
  \/ \E a \in AlsaClient : AlsaClose(a) \/ \E ch \in Chip : AlsaOpen(a, ch)

Spec == Init /\ [][Next]_vars
(* A thread inside the driver keeps running, and the semaphore             *)
(* register_mutex hands over in the order of the waiters, so a thread that *)
(* can take it again and again does so.  Nobody has to start an operation. *)
Step(t) == /\ pc[t] # "idle"
           /\ \/ t \in Device /\ HubStep(t)
              \/ t \in Client /\ ClientStep(t)
              \/ AnyStep(t)
FairSpec == Spec /\ \A t \in Thread : SF_vars(Step(t))
-----------------------------------------------------------------------------
(* Properties.  robbed is the one way out of them: hdj_probe ignores the   *)
(* result of its increment (device.c:1965), which may find another chip in *)
(* the slot of the one it has published, or none.                          *)

Holders(ch) == {k \in RefOwner : holds[k] = ch}

(* The counter in a chip is never below the number of owners that will     *)
(* still decrement it, although inc and dec reach the chip only by index.  *)
RefCountCovers ==
  robbed \/ \A ch \in Chip :
              phase[ch] = "live" => Cardinality(Holders(ch)) <= ref_count[ch]

(* A chip somebody has a reference on is still the one in its slot: the    *)
(* decrement by index (dec_chip_ref_count) can only hit that same chip.    *)
HeldChipPublished ==
  robbed \/ \A k \in RefOwner :
              holds[k] # NoChip =>
                /\ phase[holds[k]] = "live"
                /\ usb_chip[chip_index[holds[k]]] = holds[k]

(* Code that works on a chip pointer works on a live chip: no operation,   *)
(* nested call, probe or disconnect touches one that was released.         *)
WorkLabel  == {"use", "ioctl", "sub", "disc_signal", "open_body", "rel_unregister"}
ProbeLabel == {"probe_streams", "probe_card", "probe_error"}

ChipInUseIsLive ==
  robbed \/ /\ \A t \in Thread : pc[t] \in WorkLabel =>
                   /\ holds[OpRef(t)] # NoChip
                   /\ phase[holds[OpRef(t)]] = "live"
            /\ \A d \in Device : pc[d] \in ProbeLabel =>
                   /\ probe_chip[d] # NoChip
                   /\ phase[probe_chip[d]] = "live"

(* However its interfaces are probed and unbound, a device never has two   *)
(* chips in the table (the search of hdj_probe, device.c:1905).            *)
OneChipPerDevice ==
  \A s, u \in Slot :
    /\ usb_chip[s] # NoChip /\ usb_chip[u] # NoChip
    /\ chip_dev[usb_chip[s]] = chip_dev[usb_chip[u]]
    => s = u

(* A netlink registration never outlives the file it was made through:     *)
(* release removes it before it gives the file's reference back.           *)
RegistrationHasFile ==
  robbed \/ \A ch \in Chip : phase[ch] = "live" =>
              \A c \in netlink_registered[ch] : holds[FileRef(c)] = ch

(* Every increment has its decrement: the counter is exactly the number of *)
(* owners, so the chip goes when the last of them goes.                    *)
RefCountBalanced ==
  robbed \/ \A ch \in Chip :
              phase[ch] = "live" => ref_count[ch] = Cardinality(Holders(ch))

(* When every interface is unbound, every file closed and every call over, *)
(* the chip has left the table: the decrements of hdj_disconnect balance   *)
(* with the increments ("the one in probe", device.c:2183).                *)
DisconnectedChipReleased ==
  /\ bound = {}
  /\ \A t \in Thread : pc[t] = "idle"
  /\ \A c \in Client : ~FileOpen(c)
  => robbed \/ \A s \in Slot : usb_chip[s] = NoChip

(* A client that closes its descriptor gets out of hdjbulk_release and     *)
(* hdjmidi_release ("allow clients to close their descriptors",            *)
(* bulk.c:2611).                                                           *)
DescriptorsClose == \A c \in Client : pc[c] = "rel_unregister" ~> pc[c] = "idle"

(* Every call into the driver returns: a probe, a disconnect, an open, an  *)
(* ioctl, a release, a /proc read.                                         *)
EveryCallReturns == \A t \in Thread : pc[t] # "idle" ~> pc[t] = "idle"

(* The registry implements ChipLifetime, until a probe's increment misses. *)
Lifetime == INSTANCE ChipLifetime WITH Owner <- RefOwner, stage <- phase, owns <- holds

ImplementsLifetime ==
  Lifetime!Init /\ [][robbed' \/ Lifetime!Next]_<<phase, holds>>

-----------------------------------------------------------------------------
(* Why the properties hold: the inductive invariant.                       *)

(* Where thread t goes on: a thread that is tearing a chip down continues  *)
(* at the label it has put aside.                                          *)
Where(t) == IF pc[t] = "releasing" THEN cont[t] ELSE pc[t]

(* Owner k has a reference, on the chip whose slot is s.                   *)
Keeps(k, s) == holds[k] # NoChip /\ chip_index[holds[k]] = s

(* A chip in the table is live and knows its slot; only a released chip is *)
(* torn down.                                                              *)
TableOK ==
  /\ \A s \in Slot : usb_chip[s] # NoChip =>
       phase[usb_chip[s]] = "live" /\ chip_index[usb_chip[s]] = s
  /\ dying # NoChip => phase[dying] = "released"

(* Inside an operation the thread's own reference is on the chip of the    *)
(* slot the operation decrements in the end, and inside a nested call its  *)
(* reference too.                                                          *)
OpLabel == {"use", "ioctl", "dec", "sub", "disc_signal", "disc_dec", "rel_unregister",
            "rel_dec", "open_inc_again", "open_undo", "open_body", "open_dec",
            "open_fail_dec"}
OpKeeps(t) ==
  /\ Where(t) \in OpLabel => Keeps(OpRef(t), idx[t])
  /\ Where(t) = "sub" => Keeps(SubRef(t), idx[t]) /\ cont[t] \in {"use", "ioctl"}

(* The reference of an open file is on the chip in its private_data; while *)
(* open has not stored that yet, on the chip of its local chip_index.      *)
NoFileLabel  == {"open_inc", "open_inc_again", "open_undo"}
NewFileLabel == {"open_body", "open_fail_dec", "open_fail_dec_again"}
FileKeeps(c) ==
  /\ Where(c) \in NoFileLabel => ~FileOpen(c)
  /\ Where(c) \in NewFileLabel \cup CloseLabel \cup {"open_dec"} => Keeps(FileRef(c), idx[c])
  /\ FileOpen(c) /\ Where(c) \notin NewFileLabel => Keeps(FileRef(c), private_data[c])

(* A bound interface keeps a reference on the chip in its interface data   *)
(* until its disconnect has given it back.                                 *)
IntfKeeps(d) ==
  LET f == <<d, ifn[d]>>
  IN  /\ Where(d) \in ProbeLabel \cup {"probe_inc"} =>
           probe_chip[d] # NoChip /\ intfdata[f] = idx[d] /\ f \notin bound
      /\ Where(d) \in ProbeLabel =>
           holds[IntfRef(f)] = probe_chip[d] /\ Keeps(IntfRef(f), idx[d])
      /\ Where(d) \in {"disc_signal", "disc_dec", "disc_dec_probe"} =>
           Keeps(IntfRef(f), idx[d])
      /\ \A n \in IfNum : <<d, n>> \in bound =>
           \/ Keeps(IntfRef(<<d, n>>), intfdata[<<d, n>>])
           \/ Where(d) = "unbind" /\ ifn[d] = n

ThreadKeeps(t) == /\ OpKeeps(t)
                  /\ t \in Client => FileKeeps(t)
                  /\ t \in Device => IntfKeeps(t)

(* The invariant of the registry: every increment is followed, on its own  *)
(* path, by the decrement of the same chip.                                *)
RegistryInv ==
  /\ TableOK
  /\ HeldChipPublished /\ RefCountCovers
  /\ robbed \/ \A t \in Thread : ThreadKeeps(t)
=============================================================================
