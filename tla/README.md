# Verification of hdj_mod

hdj_mod is a Linux kernel driver for the Hercules DJ controllers (DJ Console,
Mk2, Rmx, Steel, DJ Control MP3). Each controller is a USB device with one or
two interfaces the driver binds to; the driver gives it an ALSA card with raw
MIDI, a character device for vendor and bulk commands, files under /proc and
netlink notifications. This directory holds TLA+ models of the
driver: the chip registry, the vendor requests, the reservation of MIDI channels,
the readers of the bulk device, the cached settings and talkover, the bulk
protocol of the Steel, the input URBs through sleep and reset, and the MIDI
output; the TLC configurations that check them, and proofs that TLAPS checks of
the safety properties of all of them.

## 1. The system

### Components, their state and their operations

| Component | Source | State | Operations |
|---|---|---|---|
| Chip registry | device.c | `usb_chip[]`, `register_mutex`, per chip `ref_count`, `shutdown`, `index`, `dev` | `inc_chip_ref_count`, `dec_chip_ref_count`, `hdj_probe`, `hdj_disconnect`, destructor `snd_hdj_chip_free` |
| Netlink notification | device.c | `netlink_ref_count`, `nl_sk`; per chip `netlink_registered_processes`, `netlink_list_mutex` | `netlink_init`, `netlink_release`, `register_for_netlink`, `unregister_for_netlink`, `netlink_send_msg` |
| Vendor requests | bulk.c | per chip `vendor_request_mutex`, `ctrl_completion`, `ctrl_urb`, `locked_io`, `vendor_command_in_progress` | `send_vendor_request`, `ctrl_callback`, `lock_vendor_io`, `unlock_vendor_io`, `firmware_send_bulk` |
| Bulk readers | bulk.c | per device `open_list`: per file a read list of 15 buffers, a wait queue, an access count | `hdjbulk_open`, `hdjbulk_read`, `hdjbulk_poll`, `hdjbulk_release`, `fill_queued_buffers`, `signal_all_waiting_readers` |
| Continuous reader, power | bulk.c, midi.c, device.c | `continuous_reader_state`, input URBs, `no_urb_submission`, `num_suspended_intf` | start, stop, kill, completion; suspend, resume, pre_reset, post_reset |
| Bulk ioctl | bulk.c | none of its own | `hdjbulk_ioctl`: each request is one or more vendor requests |
| Steel commands | bulk.c, configuration_manager.c | `bulk_request_mutex`, `bulk_out_completion`, `bulk_request_completion`, `is_bulk_read_request_pending`, `jog_wheel_parameters` | `get_bulk_data`, `send_bulk_write`, `wait_for_bulk_answer`, `send_boot_loader_command`, the setters that use them |
| MIDI channels | midi.c | `channel_list[16]` under a spin lock, per device `channel` | assign first or specific, free, read and write the channel of the device |
| MIDI capture | midicapture.c | input URBs, parser state per port | completion, trigger, error timer |
| MIDI rendering | midirender.c | output byte state machine, `active`, `urb_active`, throttle timer, LED thread | trigger, `snd_hdjmidi_do_output`, completion |
| Configuration manager | configuration_manager.c | per device a cached word for each setting, `device_config_mutex`, `talkover_atten`, `cached_talkover_atten` | a get and a set for each setting; notifications of changes |
| /proc files | device.c | none | readers and writers, each between an increment and a decrement |

### How they interact

* The USB core calls `hdj_probe` and `hdj_disconnect` once per interface, and
  the power callbacks; it serialises the calls for one device, not those for
  different devices. All interfaces of a device share one chip.
* User threads enter through the file operations and /proc. They hold an index
  into `usb_chip[]`, never a chip pointer, between calls; each call turns the
  index into a chip with `inc_chip_ref_count` and gives it back with
  `dec_chip_ref_count`. An open file keeps one more reference.
* The last decrement tears the chip down with `register_mutex` held: the slot is
  cleared, the card disconnected, URBs killed, netlink registrations dropped.
  ALSA may keep the memory for as long as a client has the card open.
* URB completions and timers run in interrupt context against all of these.

### What is hard

1. References are counted by slot index; the chip behind an index can change.
2. Error paths between an increment and its decrement.
3. Locks: initialised or not, given back on every path or not, and what waits
   for them while the last decrement holds `register_mutex`.
4. A vendor request's timeout against its late completion; the vendor I/O lock
   against requests that have just passed its test.
5. Readers that sleep against completions that fill buffers, against release
   and unplugging.
6. Suspend, resume and reset against URBs that resubmit themselves.
7. A word that the device, the driver's cache and the clients each have a copy
   of, changed by calls that overlap, fail, or fail after the device obeyed.
8. Answers that come on another pipe than their request and carry no number.
9. One output URB that a tasklet, two timers and its own completion all fill.

`PROJECT.json` lists each hazard at its line with the properties that cover it.
Where the code has the defect and a property excepts just that, the hazard's note
says so: the property then shows that nothing else breaks the promise, and does
not catch the defect.

### What makes the components correct

* Registry: nobody works on a released chip; the counter agrees with its
  owners; a device has one chip; the chip goes when its last owner goes; every
  call returns.
* Vendor requests: one at a time; an answer belongs to the request it
  completes; no request is on the wire while vendor I/O is locked.
* Readers: a reader gets the buffers in the order of their completion, none
  twice; a reader with data or a dead device wakes up.
* Power: no URB is in flight while suspended; after resume the continuous
  reader runs as before.
* MIDI channels: two devices never share a channel.
* Settings: what the driver answers from its cache, and what it told its
  clients, is what the device has.
* Steel: the answer a call uses is the answer to that call.
* Rendering: each message leaves as one packet, with the status the client
  meant; no byte is lost, left behind or sent twice without a reason.

## 2. Modules

| Module | What it is |
|---|---|
| `ChipLifetime` | what a chip's reference count promises: abstract |
| `ChipRegistry` | the registry as device.c, bulk.c and midi.c implement it, its properties and its inductive invariant |
| `MCChipRegistry` | symmetry, view and constraint for TLC |
| `ChipRegistryProofs` | the invariants of the registry, the exact balance of references, the registrations and the refinement of `ChipLifetime`, proved |
| `VendorRequest` | vendor requests of one chip: the request path, its completion, the vendor I/O lock, suspend; fair; checked as it is |
| `VendorProofs` | its safety properties, and those of `Talkover`, proved |
| `MidiChannels` | the reservation of MIDI channels, against the devices' own channel and their memory; its inductive invariant |
| `MCMidiChannels` | symmetry and view for TLC |
| `MidiChannelsProofs` | the invariants of the reservation, proved |
| `ReadQueue` | what a client of the bulk device may rely on: abstract |
| `BulkReader` | open, read, poll and release of the bulk device, the filling of its queues and the signal of a disconnect; its inductive invariant; fair; checked as it is |
| `ReaderProofs` | its safety properties and the refinement of `ReadQueue`, proved |
| `DeviceSettings` | the settings the driver caches: device, cache, notification; the DJ Console's configuration with its mutex and its MIDI mode |
| `SettingsProofs` | its inductive invariant and its properties, proved |
| `Talkover` | the talkover attenuation: one field that also says on and off |
| `SteelBulk` | requests and answers of the Steel over two pipes; fair |
| `SteelProofs` | its inductive invariant and its safety properties, proved |
| `UsbStreams` | input URBs through sleep, reset, the probe and disconnect |
| `StreamsProofs` | its safety properties, proved |
| `MidiBytes` | the byte machine of MIDI output, beside a reader of the protocol |
| `MidiOutput` | the way from ALSA's buffer through the URB; extends `MidiBytes` |
| `MidiOutputProofs` | the byte machine for all bytes, and the use of the URB, proved |

The modules meet at the calls' boundaries. `ChipRegistry` gives every call a
chip that is there until the call returns, and `VendorRequest` and
`MidiChannels` assume just that: no request and no setter outlives its device.
`BulkReader` assumes it of an open file's reads: the lists they sleep on are
there, because the file has a reference on the chip.
A read or write of a device's memory in `MidiChannels` is a vendor request that
succeeds or fails, and which of them succeed is what `VendorRequest` is about;
the same goes for a request in `DeviceSettings` and `Talkover`. `UsbStreams`,
`MidiOutput` and `VendorRequest` each have the `no_urb_submission` of their
device; what happens to it is in full in `UsbStreams`, the others forbid and
allow.

### ChipRegistry

State. `usb_chip`, `register_mutex`, `ref_count`, `chip_dev`, `chip_index`,
`netlink_list_mutex`, `netlink_registered`, `card_registered`, `intfdata` and
`private_data` are the C variables and fields of those names. `phase` is a
chip's memory: "free", "live" (`shutdown` 0) or "released" (`shutdown` 1, not
yet freed). `pc`, `cont`, `idx`, `ifn`, `probe_chip` and `dying` are the
threads' program counters and locals. `holds` and `robbed` are history: the C
code has no notion of the owner of a reference; `holds[k]` is set where the
code increments on behalf of `k` and cleared where the code decrements on
behalf of `k`, while `ref_count` follows the code, by index.

Threads. One hub thread per device runs the USB core's callbacks, so they are
serialised per device and interleaved between devices. Clients run one file
operation or /proc read at a time and have at most one file open. ALSA clients
open the card and close it.

Steps. A step is one critical section of `register_mutex`, or the code between
two of them. `dec_chip_ref_count` on the last reference is two steps,
`DecLast` and `ReleaseTail`, with `register_mutex` held in between, because it
waits for `netlink_list_mutex` on the way. `inc_chip_ref_count` is
`IncFound`/`IncNull`. Operations whose inside does not touch the registry are
their shape: increment (`IoctlInc`, `ProcInc`, `PowerInc`), work in which
nested calls take references of their own (`SubInc`, `SubDec`), decrement
(`OpDec`).

Constants that are parts of the question. `NetlinkMutexInit` is the initial
count of `chip->netlink_list_mutex`. The code's value is 0: device.c:1711 has
the initialisation commented out and line 1712 initialises another mutex in
its place. With 0 nothing that calls `unregister_for_netlink` ever returns
(run `netlink_mutex`), so the runs that look beyond that defect use 1, which is
what line 1711 was meant to do; the safety proofs hold for both values. `Ops`
selects the client operations, so that a run that claims exact balance can
leave out the calls that leak.

`robbed` is set when the increment in `hdj_probe` misses the chip the probe has
published (device.c:1965, see "Seen while modelling"). From then on a thread
works on a freed chip and the registry promises nothing but `TableOK` and
`OneChipPerDevice`; the other properties say "until then".

### VendorRequest

State. `locked_io`, `vendor_command_in_progress`, `vendor_request_mutex` (its
owner), `ctrl_completion` (its done count) and `no_urb_submission` are the
chip's fields; `urb_status` and `urb_owner` are `ctrl_urb`'s status and the
requester that submitted it last. `has_buffers` is chosen initially:
`snd_hdj_chip_create` goes on when `ctl_req` cannot be allocated, and
`send_vendor_request` then returns with the mutex (bulk.c:424). `slipped` and
`upsets` are history.

Steps. Each access to a shared variable is a step: the test of `locked_io`, the
increment, `down`, the question to `can_send_urbs`, the submission, the wait,
the kill, the look at the status, `up`, the decrement. `CtrlCallback` is the
completion; `KillCtrlUrb` completes the URB as well, as the USB core does when
it gives an URB back. `wait_for_completion_interruptible_timeout` takes a
completion if there is one (`WaitDone`) and can be given up otherwise
(`WaitGivenUp`), for a timeout and a signal alike. The ways in which the
environment can upset a request are the members of `Events`.

### MidiChannels

State. `channel_list` is the driver's array, `channel` is `umidi->channel`,
`stored` is the memory of the devices that have one
(`non_volatile_channel`), with `Invalid` for every value that is no channel;
`phase` is the device's MIDI interface; `pc`, `dev`, `want` and `got` are a
call's place and locals. `overlapped` is history: the devices on which two
calls have been under way at a time.

Steps. One critical section of `channel_list_lock` is one step, and so is each
vendor request between them. The critical sections are operators that map a
value of list and channels to another (`AssignFirst`, `Bump`, `FreeChannel`);
`AssignChannel` is a set, because an owner whose memory is freed may look
bumpable or not (midi.c:1937). `CreateMidiInterface` to `Forget` is the hub
thread in `assign_midi_channel`; `SetMidiChannel` to `FreeUnwritten` is
`snd_hdjmidi_set_midi_channel_helper`, from an ioctl or /proc.

### BulkReader

State. `open_list`, `access_count` and `is_releasing` are the items of open
files; `read_list` is the set of queues, one for each thread and file;
`list_buffers`, `num_pending_waits` and `read_completion` (its done count) are a
queue's fields. A packet is its number, and a buffer the packet in it or
`NotReady`: what a buffer holds that is not ready, nobody looks at. `opened` is
the VFS's knowledge of the file, `bound` how far a disconnect has come.
`interrupted` and `missed` are history.

Steps. A critical section of `read_list_lock` is one step. `ReadEnter` is the
look at the queue, `Announce` the second section in which a thread says that it
will wait, `Woken` and `Interrupt` the two ends of the wait, `Take` and
`PutBack` the two sections around the copy to user memory. Every way out of
`hdjbulk_read` goes through `GiveBack`. `Fill` is the completion of an input
URB; `SignalAllWaitingReaders` and `Unbind` are `hdj_disconnect` and what
follows it. The VFS calls release only when no read on the file is under way,
so `Release` waits for that; two threads share a file, and one of them may read
again while the other one sleeps.

The refinement of `ReadQueue` maps a queue to its ready buffers, the first ones
of its list (`Waiting`), and the packet between `Take` and `PutBack` to the hand.

### DeviceSettings

State. A setting is a word in the device (`device`), a copy in the device
context (`cache`: the `atomic_t`s `device_config`, `sample_rate`,
`audio_config`, `jog_wheel_lock_setting` and so on) and the word of the last
notification (`told`). A word is the set of its bits that are on, as many bits
as the properties tell apart. `config_mutex` is `device_config_mutex`,
`midi_mode` is `umidi->midi_mode`, `device_midi` what the device runs. `asked`,
`spoiled`, `mistold` and `unsettled` are history.

Steps. A set is a request (`SendOk`, `SendFails`, which may or may not have
reached the device), the store in the cache and the notification, each one step;
a get is a request and the store. The configuration of a DJ Console is read
before the mutex is taken and merged after (`ConfigDown`, `ConfigStore`,
`ConfigRestore`, `ConfigNotify`); a change of its MIDI bit goes through
`MidiStop` and `MidiStart` in midi.c with the mutex held. `ProbeBulk` and
`ProbeMidi` are the probes, which set it too; if the MIDI interface comes
first, `Stopgap` starts its input without a configuration.

### Talkover

State. `device` and `field` are the attenuation field in the device and in
`talkover_atten` (or in the configuration, on a DJ Console); `saved` is
`cached_talkover_atten`. Values are the numbers of the code with their widths
(5, 6 and 7 bits), and the doubling for devices that count half decibels.

Steps. As in `DeviceSettings`; turning on and off chooses the field from
`saved` and saves into it (`TurnOn`, `TurnOff`). `said` and `before` are history.
The names that `VendorRequest` has too are others here (`step` for a client's
place, `TalkInit`, `TalkNext`, `TalkSpec`), as `VendorProofs` extends both.

### SteelBulk

State. `jog`, `pending`, `done`, `bulk_data` and `mutex` are
`jog_wheel_parameters`, `is_bulk_read_request_pending`,
`bulk_request_completion`, `bulk_data` and `bulk_request_mutex`; `out_done` is a
completion of `bulk_out_completion` that nobody has taken, `flying` the command
of an output URB that was given up. `wire` are reports on their way.

Steps. `Down`, `Ask`, the sends, `WaitDone` and `WaitTimesOut`, `Copy` are
`get_bulk_data`, `send_boot_loader_command` and the setters that begin with a
read or end with a verification; `InComplete` is the continuous reader's
handler. The next report that comes in is the answer, whoever asked for it;
`Unasked` is the device's own report. The waits' retries are counted as in the
code. `said_chan` is the channel that the last call that sets it has read back
from a report sent since it began; `older` and `data_old` say which reports on the
wire, and whether `bulk_data`, are from before; `chan_raced` says that the call
overlapped with another one, or with such a command left in the output URB.

### UsbStreams

State. `no_urb_submission`, `num_suspended_intf`, `shutdown`,
`continuous_reader_state`, `error_resubmit` and the timer are the C fields.
`flight` says of each URB whether it flies or is in its handler, before the
test of `can_send_urbs` or after it. `phase` and `intf` are what the USB core is
doing to the device and has done to its interfaces; `todo` is the rest of the
callback that runs, in the order of the code, each element one call that may
wait (`usb_kill_urb`, `del_timer_sync`) or submit.

Steps. An URB completes at any time, its handler tests and submits in two steps,
the timer fires and submits in two. The callbacks run one at a time, since the
USB core holds the device's lock.

### MidiBytes and MidiOutput

State of `MidiBytes`. `state`, `data0`, `data1` are the port's; `packet` is
what the last byte appended to the URB. `due_status` and `due_params` are a
reader of the MIDI protocol that is told the same bytes.

Steps. `snd_hdjmidi_transmit_byte` as the code's cases: real-time bytes, system
messages, status bytes of a channel (which get the device's channel, unless it
keeps that itself), parameters, bytes of an exclusive message, and stray data.
`FollowData` and what follows the bytes beside it are the protocol: what a byte
must complete is said there, apart from the code.

State of `MidiOutput`. `pending` is the number of bytes in ALSA's buffer; a
byte's value shows when it is taken, which loses nothing, since nobody looks at
it before. `active`, `urb_active`, `filled` are the C fields. `output` is where
`do_output` is and `runner` who runs it: it runs under `buffer_lock`, but sets
`urb_active` and submits in steps of its own, as triggers, completions and
callbacks may come in between.

## 3. Runs

Passing:

| Run | Instance | Shows |
|---|---|---|
| `handles` | 1 device, 2 interfaces, 2 clients, 1 ALSA client, 2 chips, 1 slot; no leaking calls | references and counter agree exactly; no work on a released chip; the chip of an unplugged device goes with its last user; registrations end with their file |
| `leaks` | 2 devices, 1 interface each, 1 client, 1 slot, leaking calls up to count 6 | the inductive invariant and `ChipLifetime` with leaks and with a slot that changes hands |
| `calls_return` | 1 device, 2 interfaces, 1 client, 2 slots, fair threads, not cut off at `robbed` | every call into the driver returns; a device has one chip also after the race in probe |
| `vendor_all` | 2 requesters, 2 lockers, every event, with and without buffers, fair | what the lock and a success promise under every upset; every lock is granted |
| `midi_channels` | 3 devices, 2 with memory, 1 setter, 2 channels | no two devices have one channel; what list, channel and memory agree on; no bumping of devices with memory |
| `reader` | 2 threads on 1 file, 2 buffers, 4 packets, fair threads | each queue is a FIFO that loses only its oldest packet and only when full; who sleeps is woken and finds data; items outlive their users; a disconnect lets every signalled reader return |
| `settings` | 2 clients, 2 calls, the probes of a DJ Console; DJ Console, Mk2, Rmx | what is answered, told and kept is what the device has; no bit of the configuration is lost; the MIDI mode follows it |
| `talkover` | 2 clients, 4 calls, attenuations with 0, 1, 32 and beyond; DJ Console, Mk2, Rmx | off and on restores; cache and notifications are true, and on the Mk2 and the Rmx the answers |
| `steel` | 2 clients, 2 calls, 1 unasked report, 1 failure, 2 attempts; normal and boot mode; fair | a call is answered by its own report; a channel stored and read back from a new report stays, unless two such calls overlap; the jog word keeps both halves; every call returns |
| `streams` | 2 interfaces, 2 reader URBs, MIDI, 2 sleeps or resets, 1 error, 1 failed submission | nothing flies while asleep; all runs again after; nothing is touched after it is freed |
| `midi_output` | bytes note-on, data, start and end of exclusive; 2 channels; room for 1 byte, URB of 4 bytes; 2 sleeps or failures | packets are whole messages with the right status and channel; the URB is left alone in flight; bytes are lost or left behind only for a reason |

Violation, a finding in `PROJECT.json`:

| Run | What the code does |
|---|---|
| `netlink_mutex` | `netlink_list_mutex` is never initialised (device.c:1711); whoever takes it waits for ever |

Bounds of the registry. Two chips with one slot are the least with which a slot
index outlives its chip and finds another one; two interfaces are the least with
which one interface can release what another has published; two clients let an
open file and an unrelated call overlap. `MaxLeak` caps the counter: a leaking
call happens only below it. Chips and clients are symmetric; the view `LiveState`
drops variables whose value no action and no property reads any more (a local
of a finished call, a field of freed memory). Two states with one view have the
same steps and satisfy the same formulas, so it is sound for `EveryCallReturns`
too. `calls_return` leaves out the calls that may take a nested reference again and again, which a
thread may repeat for ever without a return being due, and `register`, whose
failure keeps a mutex (see below).

Bounds of the requests. Two requesters are the least with which a stale
completion is somebody else's and with which the mutex matters; two lockers the
least with which one unlocks under the other. Nothing is capped: the completion
count stays small by itself, which is what `StaleBounded` says.

Bounds of the channels. Two channels for three devices is a list at its limit:
a device finds no channel, finds its stored one taken, bumps the device without
memory, or is refused by the one with memory, and the lowest free channel
differs from the wanted one. One setter overlaps with each device's creation;
two setters on one device add no new pair of steps to its properties, which
except calls that overlap on one device.

Bounds of the readers. Two buffers are the least with a first and an oldest one;
while one is out for copying the queue is full with a single packet, and four
packets overrun it from every phase of a read. Queues of different threads share
only their file's item, so two threads on one file show what they can do to each
other; an instance with two files, three buffers and seven packets finds no more.
The deadlock check is off: after the unbinding nothing need happen.

Bounds of the settings and of talkover. Two calls, with those of the probe, are
the least that overlap; what a call leaves behind is compared with the device
whenever nobody is at work, so longer sequences add only states whose history
already says "once more". Talkover has four calls, because off and on must have
a set, a get or a failure in between. Its attenuations are the two that mean
off somewhere, two that fit everywhere, the first that does not fit the Mk2 and
one that fits only the Rmx. No fairness is assumed and the deadlock check is
off: the calls are used up in the end.

Bounds of the Steel. One failure, one unasked report and two attempts are the
least with which a call gives up, finds another one's answer and goes on; two
clients overlap. With three calls, sixteen million states (to depth 21) were
searched without a violation of these and of the inductive invariant, too many
for a run of its own; `SteelProofs` has no bound. The deadlock check is off as before.

Bounds of the streams. Two interfaces are the least for which counting matters;
two reader URBs show a partial start; two rounds put a reset before or after a
sleep, or a sleep given up half-way before another.

Bounds of the MIDI output. ALSA's buffer takes one byte, so that the client may
write between any two that are taken, and every fill of the URB starts with an
empty or a partial message. An URB of four bytes takes one packet and is then full
(a longer one, that takes two, shows the same and takes TLC twice as long). Two
sleeps or failures are what it takes for the error timer to be started, asleep,
and to fire. The four bytes reach every state of the byte machine; the proofs
take all 256. `LiveState` merges states that differ in variables nothing will
read, and no property of the run depends on them. `NothingLeftBehind` is a safety
property of states in which nothing is under way, so no fairness is needed.

Fairness. In `ChipRegistry`, `FairSpec` makes every thread inside the driver
strongly fair: the kernel runs every runnable thread, and Linux semaphores serve
their waiters in order, so a thread cannot be overtaken for ever. In
`VendorRequest` the same goes for a requester inside `send_vendor_request`; a
locker that drains is only weakly fair, because it looks every 10 ms and may
find a new request each time, were it not that nobody passes the test of
`locked_io` any more. The device and the timer need not do anything in
particular: a wait ends by an answer or by its timeout, one second. No fairness
makes anybody start a call, an unlock or a resume. `netlink_mutex` turns
the deadlock check off: there a wait really does not end (`netlink_list_mutex`
is never given). In `BulkReader` a thread inside `hdjbulk_read` is
run again (weak fairness); no packet, signal or disconnect need ever come.
In `SteelBulk` a client inside a call goes on (a wait is bounded by its timeout),
a semaphore wakes its waiters in order (strong fairness of `Down`), and reports
that were sent come in.

Seen while modelling, without a run of their own. Where a property excepts one
of these it says so by a history variable.

* Registry: `hdj_probe` increments by index after it has given `register_mutex`
  up, and the chip may be gone (device.c:1965); `netlink_list_mutex` may stay
  taken after a failed `register_for_netlink` (device.c:2523); a read of /proc
  `long_name` increments twice and decrements once (device.c:310), and
  `set_midi_channel` returns without its decrement for an invalid channel
  (midi.c:2187), so that the chip stays for ever (both in `leaks`).
  `snd_card_disconnect` waits, with `register_mutex` held, for readers of /proc
  that may wait for `register_mutex` (device.c:2045).
* Vendor requests: a request that gives up leaves a completion behind, the next
  one returns at once and its URB is used again while on the wire (bulk.c:486): asked for
  `OneRequestOnTheWire`, the promise of bulk.c:417 without an exception, TLC shows
  this in 22 states of the instance of `vendor_all`;
  a request between the test of `locked_io` and its count is sent after
  `lock_vendor_io` has returned (bulk.c:408); of an URB's errors only a stall is
  reported (bulk.c:495); `no_urb_submission` is tested before the submission
  (bulk.c:3180); a request without buffers keeps the mutex (bulk.c:424);
  `unlock_vendor_io` tests and decrements in two steps (bulk.c:2872), and a
  process that dies leaves vendor I/O locked (bulk.c:834).
* MIDI channels: two overlapping calls on a device may reserve two channels, of
  which one stays when it goes (midi.c:2191), or write its memory in the other
  order than they reserved; `channel_list_initialized` is set before the list is
  (midi.c:2461).
* Readers: a packet between the look and the announcement wakes nobody
  (bulk.c:2390); an interrupted wait leaves its announcement, so that a later
  read wakes up without data and fails with -EINVAL (bulk.c:2395, 2422); a file
  opened after `hdj_disconnect` has signalled is not marked, and a read on it
  sleeps until a signal; nothing wakes `read_poll_wait` (bulk.c:2503).
* Settings: `get_sample_rate` answers 0 from the cache on a Mk2
  (configuration_manager.c:2233); only the configuration has a mutex, so other
  settings may be cached in the other order than they were sent; if the MIDI
  interface is probed first, its input runs although the configuration's bit is
  off; after a failed switch of the MIDI mode, a second call with the same value
  does nothing; /proc writes `sample_rate` as hexadecimal and shows it as
  decimal; the serial number's set has no caller.
* Talkover: of an attenuation of 32 on a Mk2, the six bits of the doubled value
  are 0, which bulk.c:3942 says must not be sent, as the test for it comes before
  the doubling (configuration_manager.c:830), and clients are told the undoubled
  number. On a DJ Console the answers are wrong: with talkover on
  `get_talkover_att` shifts the field out twice and answers 0
  (configuration_manager.c:798-809), where djdevioctls.h:458 promises "the talkover
  attenuation from the hardware", and `get_talkover_enable` tests a bit that the probe turns
  on and nobody turns off (configuration_manager.c:928, 1093), so it answers
  "enabled" always, where djdevioctls.h:476 promises "whether talkover is enabled
  or not". `TalkoverTrue` therefore speaks of the answers on the Mk2 and the Rmx
  only. On the Rmx the code takes the field for decibels
  (configuration_manager.c:767), djdevioctls.h:88 says half decibels: which one is
  right the source does not show, and the model follows the code. On an Rmx an
  attenuation of 0 turns talkover off and no `CTRL_CHG_TALKOVER_ENABLE` says so.
* Steel: a wait that times out leaves the pending mark, and from then on every
  call may take the answer of the one before (bulk.c:3535); a report already on the
  wire when a call begins may verify a channel whose write was lost, so
  `StoredAsSaid` speaks of newer reports only; a command given up
  leaves a completion (bulk.c:341). `send_boot_loader_command` would keep the
  mutex if the output buffer were missing or too short (bulk.c:3386-3390); the
  probe fails without one (bulk.c:3076) and it is freed with the last reference,
  so this exit is not in the model.
* Streams: `snd_hdjbulk_pre_reset` and `snd_hdjbulk_post_reset` return at once,
  by an inverted test (bulk.c:2794, 2806), so an URB that completes during a
  reset is not started again; the error timer of MIDI input is armed only while
  submission is forbidden (midicapture.c:478), by another; with two
  interfaces the MIDI URB's submission in the first post_reset is refused, and
  the second one's succeeds; `start_continuous_reader` returns the result of the
  last URB alone (bulk.c:4226).
* MIDI output: `do_output` finds the buffer empty and clears `active`
  (midirender.c:223), and the bytes of a trigger in between wait for the next;
  output does not start again after an error or a resume (midirender.c:588);
  the throttle timer is stopped by no suspend (midirender.c:599); bytes are
  taken before a submission that may be refused (midirender.c:646); LED blinking
  tests the same bit twice (midirender.c:415-416).

## 4. Proofs

Every theorem is about `Spec` for every value of the constants; the
assumptions are those named in `ChipRegistry` (finite nonempty sets of devices
and interfaces, finitely many clients, sentinels that are no members, at least
one slot). Leaks, `NetlinkMutexInit = 0` and the race in probe are included,
except that `BalanceCorrect` and `ReleasedCorrect` assume `NoLeak`.

* `TypeCorrect`: `[]TypeOK`. The work is in the slot indices: `FirstOf` of a
  nonempty set of slots is a slot.
* `TableCorrect`, `OneChipCorrect`: only `ProbeCreate` fills a slot, with a
  chip whose index is that slot, and only when no slot has the device.
* `RegistryCorrect`: `[]RegistryInv`. `HeldChipPublished` and `RefCountCovers`
  are not inductive: a decrement by index hits the owner's chip only if the
  index a thread remembers is still that of the chip it holds. `RegistryInv`
  adds, for every label, which references the thread has and under which index
  (`OpKeeps`, `FileKeeps`, `IntfKeeps`); with `RefCountCovers` as a bound on
  the counter a chip with another owner is never the one `DecLast` releases.
  The counting step is a lemma on the cardinality of `Holders`.
* `HeldChipCorrect`, `RefCountCorrect`, `ChipInUseCorrect` follow from it.
* `RegistrationCorrect`: `RegistryInv` says which references a thread certainly
  has; `TidyInv` says the reverse: outside the labels from which the code gives
  a reference back the thread has none, and a registration belongs to a file that
  is open and not yet unregistered.
* `BalanceCorrect`, `ReleasedCorrect`: `BalanceInv` makes the bound
  `RefCountCovers` an equality and adds that a chip in the table has an owner
  or a probe about to be one. Every step of a thread is of one of four kinds
  (`OneOfFour`): no reference and no counter changes, one owner gains a
  reference with the counter, one loses it with the counter, or a chip is
  created. Both theorems assume `NoLeak`: the long-name reader, which increments
  twice, and the invalid set-channel ioctl, which returns without its decrement,
  are not called. With them the theorems are false, as a counter then stays above
  the number of owners.
* `LifetimeCorrect`: the four kinds are the actions of `ChipLifetime` or
  stutters. The leaks are included: the reader's second increment is a stutter
  and the ioctl's early return a `Drop`. A missed increment of a probe (`robbed`)
  ends what is promised.

For `VendorRequest` the constants are finite sets of requesters and lockers, and
any set of events.

* `VendorCorrect`: `[]VendorInv`, one lemma per conjunct. `StaleBounded` needs
  `MutexHeld`: a submission adds a completion to come, and nobody else waits for
  one then, so that at most one was there. `LockDrains` needs `LocksCounted`
  (while anybody drains or has the lock, `locked_io` is positive, so nobody
  passes the test) and `CountMatches` (a drained count means that the requests
  under way are those not counted yet). Both counts are cardinalities, by the
  library's lemmas on adding and removing an element.
* `OneRequestCorrect` and `SuccessCorrect` need `NothingStale`: as long as no
  wait has been given up there is a completion, or a URB on the wire, exactly
  while somebody waits; so what the waiter finds is its own (`AnswerIsOwn`).
* `VendorTyped`, `CountCorrect`, `StaleCorrect`, `LockCorrect` follow.

For `MidiChannels` the constants are any devices, of which some have memory, any
setters and any positive number of channels (an interval, so that a lowest free
channel exists; that is the first lemma).

* `MidiCorrect`: `[]MidiInv`. A lemma each says what the operators on list and
  channels do (`AssignEffect`, `FreeEffect`): the device worked on gets at most
  one more channel, others lose at most theirs, and those with memory nothing.
  `MapStep` states this for a step, `OthersKept` concludes that nothing changes
  for other devices, and one lemma per action looks at the device itself.
  `OneChannelUnlessOverlapped` and `StoredUnlessOverlapped` are not inductive:
  the invariant adds that a device on which calls do not overlap has one call at
  most (`Alone`), has no channel while a call is to give it one (`NoneYet`), and
  differs from its memory only while the call that writes it is on its way
  (`StoredOrComing`).
* `OwnerCorrect`, `ChannelsDistinct`, `OneChannelCorrect`, `StoredCorrect`,
  `GoneCorrect` and `MidiTyped` follow from it; `NeverBumpedCorrect` is the
  action property, from the same lemmas.

For `BulkReader` the constants are finitely many threads, any files, at least
two buffers (with one, the only buffer of a queue may be out for copying, and
`fill_queued_buffers` would have none to fill; the driver has 15) and any bound
on the packets.

* `ReaderCorrect`: `[]ReaderInv`. Its parts are regrouped by queue and by thread
  (`ByQueueAndThread`), since a step in a read changes the thread's own locals
  and its own queue and no more (`OwnSuffices`): one lemma per step shows the
  two. `WokenUnlessMissed` and `TakeFindsData` are not inductive. The invariant
  adds that an announced wait is still announced or has been completed, that
  on a queue never interrupted nor signalled the two add up to one during a wait
  and to nothing outside, that completions come only with packets, and that the
  ready buffers come first: so a thread that takes a completion has a packet, and
  it is at the head.
* `ItemsCorrect`: `access_count` is one for the open file and one for each read
  (a cardinality); a read that ends is never the last user, so only a release,
  with no read under way, frees an item.
* `SignalsCorrect`: a bound on announcements and completions together, which a
  packet only exchanges for one another.
* `WokenCorrect`, `TakeCorrect` and `ReaderTyped` follow.
* `QueuesCorrect`: `Spec => ImplementsReadQueue`. The packets that wait in a list
  are its ready buffers, and `ReaderInv` has them come first; a sequence is that
  part of a list if its elements are the first ones and ready, and no other is
  (`ReadyPart`), and there is only one such sequence (`WaitingIs`). From this three
  lemmas say what taking the head, putting a free buffer back and filling do to it
  (`WaitingTail`, `WaitingPutBack`, `WaitingFilled`; the last needs that a queue
  lacks a buffer exactly while one is being copied). Then a lemma for each action
  maps it to one of `ReadQueue` or to a stutter: `Fill` is `Arrive`, the first look
  of a read or poll `Create`, `Take` and `PutBack` are `Take` and `Deliver`, and a
  release is one `Close` of all queues of its file.

For `DeviceSettings` the constants are any clients and any number of calls.

* `SettingsCorrect`: `[](TypeOK /\ SettingsInv)`. What the properties say of
  moments at which nobody works is not inductive. The invariant says what the word
  of a call is worth at each of its steps: without a mutex, only while no other
  call on the setting is under way (`AloneOK`), and then it changes the cached word
  under its mask, is what the device has once sent, if the cache was right, or
  whole, and makes the cache right once stored (`WordOK`). On the configuration,
  whoever is inside has `device_config_mutex`, and its word is the cache's word
  merged with what is asked (`ConfigOK`). Cache, notification and MIDI mode agree
  with the device whenever no call is about to bring them there.
* `AnswersCorrect`, `ToldCorrect`, `ConfigCorrect` and `MidiModeCorrect` follow.

For `Talkover` the constants are any clients, attenuations and number of calls.

* `TalkoverCorrect`: `[]TalkInv`. A call alone since it began has nobody beside
  it, so that the cache it read is still right when it writes. The invariant says
  what each kind of call carries, that cache and notifications agree with the
  device but between a request and its store (`CacheAgrees`, `ToldAgrees`), and
  that from turning off to turning on the saved attenuation is the one turned off
  from, or the default if that was 0 (`WillRestore`). Doublings and halvings are
  arithmetic on the widths of the field.
* `RestoresCorrect` and `TalkoverTrueCorrect` follow. The second claims nothing of
  the answers of a DJ Console, which are wrong.

For `SteelBulk` the constants are any clients, modes, attempts and bounds.

* `SteelCorrect`: `[](TypeOK /\ SteelInv)`. The holder of `bulk_request_mutex` is
  the client that asks (`MutexOK`); until an attempt ends without an answer it
  finds the pending mark and the completion clear, and one report turns the mark
  into one completion (`AskOK`). While a call that sets the channel meets no other,
  the device's channel changes to the call's own only, so that a report newer than
  the call which shows it shows the truth (`ChanOK`). A jog call keeps the half it
  does not set, if the word it builds on was the device's (`JogOK`).
* `AnswerCorrect`, `StoredCorrect` and `JogCorrect` follow.

For `MidiOutput` the constants are any bytes, any channels, and an URB longer
than three bytes.

* `ByteCorrect`: `ByteSpec => []ByteInv`. The invariant pairs each state of the
  port with the protocol reader's: what has been received of a message is the
  same on both sides, and a status byte that the port keeps has the device's
  channel, unless it was renumbered since. One lemma per kind of byte shows it,
  and that the packet is the message the byte completes.
* `OutputImplementsBytes`: bytes are taken by steps of the byte machine only, so
  its invariant and its action property hold of the whole
  (`SameMessageCorrect`, `OnDeviceChannelCorrect`, `AsWrittenCorrect`).
* `UrbUntouchedCorrect`, `LostCorrect`: `UrbInv` says that `urb_active` is up
  whenever the URB flies or its handler has just begun, and down while `do_output`
  runs.
* `LeftCorrect`: `[]LeftInv`. Bytes in ALSA's buffer have somebody who will see to
  them: the client that has yet to trigger, a tasklet or timer that is pending,
  `do_output` unless it has found nothing to send, or the URB, whose handler comes
  back (`AtWork`); or a trigger came in while `do_output` cleared `active`, or a
  sleep or an error stopped the output, which the property excepts.
  `NothingLeftCorrect` follows: nobody at work, nothing left.

For `UsbStreams` the constants are any finite set of interfaces, any number of
URBs of the reader and any bounds.

* `StreamsCorrect`: `[]StreamsInv`. That nothing flies when a callback has returned
  says nothing of the steps in between, so the invariant speaks of what is left of
  the callback: an URB that must not fly is idle or its kill is still to come
  (`Stilled`), a timer that must not submit is idle or its deletion is still to
  come, and the kill of MIDI comes right after that deletion (`Follows`), because
  the handler of the timer may have submitted the URB just before it. The lists of
  steps are sequences, and a group of lemmas (`GoodTail`, `GoodConcat`, one for each
  list of the code) says what is left of a list when a step is taken and what a
  list put before another adds. One lemma per callback and per kind of handler step shows
  the rest (`StayStilled` for those that leave the interfaces alone,
  `StilledCalled` for the callbacks of the core, `StilledLeaving` for the two ways
  to the disconnect).
* `CountsCorrect` is a cardinality argument: an interface joins or leaves
  `With("suspended")` or `With("reset")`, and the count follows. That submission is
  allowed only when both are empty is what makes a start harmless.
* `NothingFliesCorrect` and `NothingAfterFreeCorrect` follow: with nothing left of
  the callback, no kill is to come.
* `StreamsRunCorrect`: what runs while the device is awake must survive a sleep and
  a reset. `RunInv` says, phase by phase, what is left of the callback that will
  start what is idle (`Due`), that a reset keeps the reader started, and that a
  sleep has stopped it or is about to.

Only model-checked: liveness, which this prover cannot do. These are
`EveryCallReturns` of the registry and of the Steel, `LockReturns`,
`SignalledReadersReturn` and, violated, `DescriptorsClose`.

The inductive invariants (`RegistryInv`, `VendorInv`, `TalkInv`, `MidiInv`,
`ReaderInv`, `SettingsInv`, `SteelInv`, `StreamsInv`, `RunInv`, `ByteInv`,
`LeftInv`) have the parts that no run lists; `RegistryInv` is also checked by
`leaks`. TLC checked each of them on the instances of the runs before it was
proved. `TidyInv` and `BalanceInv` are stated in `ChipRegistryProofs` and proved
from `RegistryInv`, `SettingsInv` and `SteelInv` in `SettingsProofs` and
`SteelProofs`.

## Not modelled

* The failure of `snd_device_new` in `snd_hdj_chip_create`; the URB and DMA
  allocations that fail and are reported as success (device.c:1736-1765).
* What in the probe still can fail after the streams were started
  (`activate_talkover` and the like): its tear-down is that of a disconnect,
  which `UsbStreams` has from every state.
* Reports of the Steel that the handler rejects as too short or inconsistent
  (bulk.c:3221, 3256), which leave everything as it was, and the comparison of the
  serial number when a channel is verified (configuration_manager.c:104), which
  could only refuse more than the model does.
* Locks of the USB and ALSA core: the minor table's lock and the wait of
  `snd_card_disconnect` for /proc readers.
* The formats of reports, device capabilities, the conversion of controllers'
  reports to MIDI and of MIDI to LED reports (tables), texts: data without
  control.
* The firmware file parser and the transfer of firmware blocks: one pass over one
  buffer, no state afterwards.
* The thread that refreshes the LEDs of the MP3W, which resends a snapshot of
  its state; autosuspend (`supports_autosuspend` is 0, device.c:130); the Steel's
  polling thread (`USE_STEEL_POLL_KTHREAD` is not defined).
* The count of users of the one netlink socket, and what a message contains.
* Kernel versions before 2.6.19: the model follows the newest branch of each
  `#if`.

## Open

What could be added: the netlink socket's count over chips (device.c:2395-2470),
whose failed initialisation decrements twice; the failure of a registration
that keeps `netlink_list_mutex` (device.c:2525) in the run that asks whether
every call returns.
