------------------------------ MODULE Talkover ------------------------------
(***************************************************************************)
(* Talkover, the attenuation of the music while the DJ speaks              *)
(* (configuration_manager.c).  The device has one field for it; one value  *)
(* of the field means that talkover is off.  set_talkover_enable saves the *)
(* attenuation when it turns talkover off and puts it back when it turns   *)
(* it on; set_talkover_att and get_talkover_att serve ioctl and /proc.     *)
(* The cached field is read before a request and written after it, with no *)
(* mutex on the Mk2 and the Rmx.  On a DJ Console the field is part of the *)
(* configuration, whose mutex is in DeviceSettings: one step here.         *)
(***************************************************************************)
EXTENDS Integers

CONSTANTS
  Client,   \* threads in ioctl and in /proc handlers
  Asks,     \* the attenuations clients ask for, in the units of ioctl
  PowerOn,  \* the fields a device may be plugged in with
  MaxCalls  \* bound: calls the clients begin

ASSUME AsksAssumption == Asks \subseteq Nat
ASSUME PowerOnAssumption == PowerOn \subseteq 0..31
ASSUME MaxCallsAssumption == MaxCalls \in Nat

Product == {"djc", "mk2", "rmx"}

(* DJC_AUDIOCFG_TALKOVER_ATT_VAL, DJMK2_ and DJRMX_TALKOVER_ATT_MASK_VALUE *)
(* have 5, 6 and 7 bits.                                                   *)
Size(p) == CASE p = "djc" -> 32 [] p = "mk2" -> 64 [] p = "rmx" -> 128

(* talkover_threshold: the field of a device whose talkover is off.        *)
Off(p) == IF p = "mk2" THEN 1 ELSE 0

(* talkover_divisor: the field of these is in half decibels.               *)
Divisor(p) == IF p = "rmx" THEN 1 ELSE 2
ThreeDb(p) == 3 * Divisor(p)

VARIABLES
  product,    \* chip->product_code
  device,     \* the field in the device
  field,      \* the field in talkover_atten, or in device_config
  saved,      \* cached_talkover_atten
  told,       \* the last CTRL_CHG_TALKOVER_ATTEN
  step,       \* the step of each client
  op,         \* the locals of each client's call
  calls,      \* history: calls begun
  disturbed,  \* history: field may differ from the device
  mistold,    \* history: told may differ from the device
  said,       \* history: the last CTRL_CHG_TALKOVER_ENABLE, if it still counts
  before      \* history: the field talkover was turned off from, or none

histVars == <<disturbed, mistold, said, before>>
talkVars == <<product, device, field, saved, told, step, op, calls, histVars>>

Unknown == -1

Values == 0..(Size(product) - 1)
Op == [kind : {"none", "att", "on", "off", "get"}, value : Values, tell : Values,
       from : Values \cup {Unknown}, fits : BOOLEAN, alone : BOOLEAN]
NoOp == [kind |-> "none", value |-> 0, tell |-> 0, from |-> Unknown,
         fits |-> TRUE, alone |-> TRUE]

TalkTypeOK ==
  /\ product \in Product
  /\ device \in Values /\ field \in Values /\ saved \in Values
  /\ told \in Values \cup {Unknown}
  /\ step \in [Client -> {"idle", "send", "store", "notify"}]
  /\ op \in [Client -> Op]
  /\ calls \in 0..MaxCalls
  /\ disturbed \in BOOLEAN /\ mistold \in BOOLEAN
  /\ said \in {"none", "on", "off"}
  /\ before \in Values \cup {Unknown}

(* hdjbulk_init_dj_* have read the field and turned talkover off.          *)
TalkInit ==
  /\ product \in Product
  /\ device = Off(product)
  /\ field = device
  /\ \E f \in PowerOn : saved = IF f = Off(product) THEN 0 ELSE f
  /\ told = Unknown
  /\ step = [c \in Client |-> "idle"]
  /\ op = [c \in Client |-> NoOp]
  /\ calls = 0
  /\ disturbed = FALSE
  /\ mistold = TRUE
  /\ said = "none"
  /\ before = Unknown

-----------------------------------------------------------------------------
(* Mutant: clients are told what goes to the device.                       *)
TellDoubled(a) == (Divisor(product) * (a % Size(product))) % Size(product)

(* What set_talkover_att puts into the field, and what it tells clients.   *)
FieldOf(a) == (Divisor(product) * (a % Size(product))) % Size(product)
TellOf(a) == a % Size(product)

(* The field has room for the attenuation, once doubled.                   *)
Fits(a) == Divisor(product) * TellOf(a) < Size(product)

(* What get_talkover_att answers from the cache.  Off, it is what turning  *)
(* it on would bring back; on, the DJ Console shifts the field out twice   *)
(* and answers 0.                                                          *)
IsOff(f) == IF product = "djc" THEN f \div 2 = 0 ELSE f = Off(product)
CachedAtt ==
  CASE IsOff(field)                      -> saved \div Divisor(product)
    [] ~IsOff(field) /\ product # "djc"  -> field \div Divisor(product)
    [] ~IsOff(field) /\ product = "djc"  -> 0

(* get_talkover_enable; the DJ Console tests a bit nobody turns off.       *)
ShownEnable == product = "djc" \/ field # Off(product)

Others(c) == {d \in Client \ {c} : step[d] # "idle"}
Quiet == \A c \in Client : step[c] = "idle"

Begin(c, kind, value, tell, fits) ==
  /\ step[c] = "idle" /\ calls < MaxCalls
  /\ step' = [step EXCEPT ![c] = "send"]
  /\ op' = [d \in Client |->
       IF d = c THEN [kind |-> kind, value |-> value, tell |-> tell,
                      from |-> IF disturbed THEN Unknown ELSE field,
                      fits |-> fits, alone |-> Others(c) = {}]
                ELSE [op[d] EXCEPT !.alone = @ /\ step[d] = "idle"]]
  /\ calls' = calls + 1

Return(c) == step' = [step EXCEPT ![c] = "idle"] /\ op' = [op EXCEPT ![c] = NoOp]

(* set_talkover_att; the Mk2 must not be given 0.                          *)
SetAtt(c) ==
  \E a \in Asks :
    /\ product = "mk2" => a % Size(product) \notin {0, 1}
    /\ Begin(c, "att", FieldOf(a), TellOf(a), Fits(a))
    /\ before' = Unknown
    /\ UNCHANGED <<product, device, field, saved, told, disturbed, mistold, said>>

(* Mutant: the attenuation is saved after it has been cleared.             *)
TurnOffSavesLate(c) ==
  /\ field # Off(product)
  /\ Begin(c, "off", Off(product), Off(product) \div Divisor(product), TRUE)
  /\ saved' = Off(product)
  /\ UNCHANGED <<product, device, field, told, histVars>>

(* set_talkover_enable(0): off already is no change.                       *)
TurnOff(c) ==
  /\ field # Off(product)
  /\ Begin(c, "off", Off(product), Off(product) \div Divisor(product), TRUE)
  /\ saved' = field
  /\ UNCHANGED <<product, device, field, told, histVars>>

(* set_talkover_enable(1): on already is no change; an attenuation never   *)
(* saved is 3 dB.                                                          *)
TurnOn(c) ==
  LET back == IF saved = 0 THEN ThreeDb(product) ELSE saved
  IN  /\ field <= Off(product)
      /\ Begin(c, "on", back, back \div Divisor(product), TRUE)
      /\ saved' = back
      /\ UNCHANGED <<product, device, field, told, histVars>>

(* get_talkover_att asks the device if talkover is on; the DJ Console has  *)
(* nothing to ask.                                                         *)
GetAtt(c) ==
  /\ product # "djc" /\ ~IsOff(field)
  /\ Begin(c, "get", 0, 0, TRUE)
  /\ UNCHANGED <<product, device, field, saved, told, histVars>>

IoctlTalkover(c) == SetAtt(c) \/ TurnOff(c) \/ TurnOn(c) \/ GetAtt(c)
ProcTalkover(c)  == SetAtt(c) \/ TurnOff(c) \/ TurnOn(c) \/ GetAtt(c)

-----------------------------------------------------------------------------
SetKinds == {"att", "on", "off"}

SendSet(c) ==
  /\ step[c] = "send" /\ product # "djc" /\ op[c].kind \in SetKinds
  /\ device' = op[c].value
  /\ step' = [step EXCEPT ![c] = "store"]
  /\ UNCHANGED <<product, field, saved, told, op, calls, histVars>>

(* The request fails; the device may have taken it all the same.           *)
SendSetFails(c) ==
  /\ step[c] = "send" /\ op[c].kind \in SetKinds
  /\ \/ UNCHANGED <<device, histVars>>
     \/ /\ device' = op[c].value
        /\ disturbed' = TRUE /\ mistold' = TRUE
        /\ said' = "none" /\ before' = Unknown
  /\ Return(c)
  /\ UNCHANGED <<product, field, saved, told, calls>>

SendGet(c) ==
  /\ step[c] = "send" /\ op[c].kind = "get"
  /\ \/ /\ op' = [op EXCEPT ![c].value = device]
        /\ step' = [step EXCEPT ![c] = "store"]
     \/ Return(c)
  /\ UNCHANGED <<product, device, field, saved, told, calls, histVars>>

(* The history after the field of a set has been stored.                   *)
Stored(c) ==
  /\ disturbed' = (~op[c].alone /\ product # "djc")
  /\ before' = IF ~op[c].alone THEN Unknown
               ELSE IF op[c].kind = "off" THEN op[c].from ELSE before
  /\ said' = IF op[c].alone /\ op[c].kind \in {"off", "on", "get"} THEN said ELSE "none"

(* Mutant: the field keeps its old value in the cache.                     *)
StoreNothing(c) ==
  /\ step[c] = "store" /\ op[c].kind \in SetKinds
  /\ Stored(c)
  /\ step' = [step EXCEPT ![c] = "notify"]
  /\ UNCHANGED <<product, device, field, saved, told, op, calls, mistold>>

StoreSet(c) ==
  /\ step[c] = "store" /\ op[c].kind \in SetKinds
  /\ field' = op[c].value
  /\ Stored(c)
  /\ step' = [step EXCEPT ![c] = "notify"]
  /\ UNCHANGED <<product, device, saved, told, op, calls, mistold>>

StoreGet(c) ==
  /\ step[c] = "store" /\ op[c].kind = "get"
  /\ field' = op[c].value
  /\ Stored(c)
  /\ mistold' = (mistold \/ ~op[c].alone)
  /\ Return(c)
  /\ UNCHANGED <<product, device, saved, told, calls>>

(* set_djconsole_device_config with the bits of the field as its mask.     *)
ConfigSet(c) ==
  /\ step[c] = "send" /\ product = "djc"
  /\ device' = op[c].value
  /\ field' = op[c].value
  /\ Stored(c)
  /\ step' = [step EXCEPT ![c] = "notify"]
  /\ UNCHANGED <<product, saved, told, op, calls, mistold>>

(* The attenuation is told, and by set_talkover_enable the switch.         *)
Notify(c) ==
  /\ step[c] = "notify"
  /\ told' = op[c].tell
  /\ mistold' = (~op[c].alone \/ disturbed \/ ~op[c].fits)
  /\ said' = IF op[c].kind = "att" \/ ~op[c].alone THEN "none" ELSE op[c].kind
  /\ Return(c)
  /\ UNCHANGED <<product, device, field, saved, calls, disturbed, before>>

TalkNext ==
  \E c \in Client :
    \/ IoctlTalkover(c) \/ ProcTalkover(c)
    \/ SendSet(c) \/ SendSetFails(c) \/ SendGet(c)
    \/ StoreSet(c) \/ StoreGet(c) \/ ConfigSet(c) \/ Notify(c)

TalkSpec == TalkInit /\ [][TalkNext]_talkVars

-----------------------------------------------------------------------------
(* A client that turns talkover off and on again finds the attenuation it  *)
(* had, as bulk.h says of cached_talkover_atten, whatever requests were    *)
(* lost and whatever was read in between.  (The forbidden 0 of the Mk2     *)
(* comes back as 3 dB.)                                                    *)
OffAndOnRestores ==
  Quiet /\ before # Unknown /\ device # Off(product)
    => device = IF before = 0 THEN ThreeDb(product) ELSE before

(* The attenuation, in the unit of ioctl, that get_talkover_att answers,   *)
(* and whether get_talkover_enable is right.  Half decibels are answered   *)
(* as decibels; on an Rmx the field is taken to be in decibels already,    *)
(* although djdevioctls.h:88 says half decibels there too.                 *)
AttTrue    == ~IsOff(device) => CachedAtt = device \div Divisor(product)
EnableTrue == ShownEnable <=> device # Off(product)

(* Once nobody is at work on talkover the cache has what the device has,   *)
(* so that on already and off already are true, on the Mk2 and the Rmx     *)
(* the answers are the attenuation and the switch of the device, and what  *)
(* clients were told last is so as well: unless calls overlapped, a        *)
(* request that failed had reached the device, or the field has no room    *)
(* for the attenuation that was asked for.  Of a DJ Console the cache and  *)
(* the notifications are meant, not the answers, which are not what        *)
(* djdevioctls.h:457-479 promises: with talkover on the attenuation is     *)
(* answered as 0 (configuration_manager.c:808), and the switch always as   *)
(* on (the bit of configuration_manager.c:1093).                           *)
TalkoverTrue ==
  Quiet
    => /\ ~disturbed =>
            /\ field = device
            /\ product # "djc" => AttTrue /\ EnableTrue
            /\ said = "on"  => device # Off(product)
            /\ said = "off" => device = Off(product)
       /\ ~mistold => told = device \div Divisor(product)

-----------------------------------------------------------------------------
(* What is inductive.  A call knows what it is about, and whether another  *)
(* has been under way during it.                                           *)
CallOK(c) ==
  /\ step[c] = "idle" => op[c] = NoOp
  /\ step[c] # "idle" => op[c].kind # "none"
  /\ step[c] = "notify" => op[c].kind \in SetKinds
  /\ product = "djc" => step[c] # "store" /\ op[c].kind # "get"
  /\ op[c].kind = "on"  => op[c].value # Off(product)
  /\ op[c].kind = "off" => op[c].value = Off(product)
  /\ op[c].kind \in SetKinds /\ op[c].fits => op[c].tell = op[c].value \div Divisor(product)
  /\ step[c] # "idle" /\ op[c].alone => Others(c) = {}

(* A set has reached the device and not the cache, or not the clients.     *)
Storing == \E c \in Client : step[c] = "store" /\ op[c].kind \in SetKinds
Ending  == \E c \in Client : step[c] \in {"store", "notify"} /\ op[c].kind \in SetKinds

(* What the cache holds and clients are told is so, but in between.        *)
CacheAgrees ==
  /\ saved # 0 => saved # Off(product)
  /\ ~disturbed /\ ~Storing => field = device
  /\ \A c \in Client : op[c].alone =>
       /\ step[c] = "store"  => op[c].value = device
       /\ step[c] = "notify" => op[c].value = device /\ field = device /\ ~disturbed
ToldAgrees ==
  ~Ending => /\ said = "on"  => device # Off(product)
             /\ said = "off" => device = Off(product)
             /\ ~mistold => told = device \div Divisor(product)

(* What talkover was turned off from is saved, and comes back.             *)
Back(f) == IF f = 0 THEN ThreeDb(product) ELSE f
WillRestore ==
  /\ before # Unknown => ~disturbed
  /\ before # Unknown /\ ~Storing =>
       device \in {Off(product), Back(before)} /\ Back(saved) = Back(before)
  /\ \A c \in Client : op[c].alone /\ step[c] \in {"send", "store"} =>
       /\ op[c].kind = "att" => before = Unknown
       /\ op[c].kind = "off" /\ op[c].from # Unknown => saved = op[c].from
       /\ op[c].kind = "on" /\ before # Unknown =>
            op[c].value = Back(before) /\ saved = op[c].value

TalkInv ==
  TalkTypeOK /\ (\A c \in Client : CallOK(c)) /\ CacheAgrees /\ ToldAgrees /\ WillRestore
=============================================================================
