--------------------------- MODULE SettingsProofs ---------------------------
(* The cached settings against the device, the notifications and the MIDI  *)
(* mode: the proofs of AnswersTrue, ToldTrue, ConfigAsAsked and            *)
(* MidiModeAgrees for every set of clients and any number of calls.        *)
EXTENDS DeviceSettings, TLAPS

Config == "device_config"

(* A thread in a call on setting s.                                        *)
Working(t, s) == pc[t] \notin {"idle", "stopgap"} /\ op[t].setting = s

(* It is about to put its word into the cache, or to tell it to clients.   *)
WillStore(t, s) == pc[t] \in {"store", "keep"} /\ op[t].setting = s
WillTell(t, s) == pc[t] \in {"store", "notify"} /\ op[t].setting = s

(* A word has only the bits of its setting.                                *)
WordsOK == \A s \in Setting : device[s] \subseteq Bits(s) /\ cache[s] \subseteq Bits(s)

CallOK(t) ==
  /\ pc[t] \notin {"idle", "stopgap"} =>
       op[t].value \subseteq Bits(op[t].setting) /\ op[t].mask \subseteq Bits(op[t].setting)
  /\ pc[t] \in {"down", "stop", "start"} => op[t].setting = Config
  /\ pc[t] \in {"ask", "keep"} =>
       op[t].setting # Config /\ op[t].mask = Bits(op[t].setting)
  /\ pc[t] \in {"down", "send"} => ~op[t].failed
  /\ pc[t] \in {"send", "store", "notify"} /\ op[t].setting # Config =>
       op[t].tell = Common(op[t].setting, op[t].value)

(* A call that is alone is the only one on its setting.                    *)
AloneOK(t) ==
  \A u \in Thread : u # t /\ op[t].alone /\ op[t].setting # Config =>
    ~(Working(t, op[t].setting) /\ Working(u, op[t].setting))

(* What the word of a call that is alone is worth: it changes the cached   *)
(* word only under its mask; the device has it, once sent, if what it was  *)
(* built on was true or if it is whole; and once stored, if it is true.    *)
WordOK(t) ==
  LET s == op[t].setting
  IN  s # Config /\ op[t].alone =>
        /\ pc[t] = "send" => op[t].value = Merged(cache[s], op[t].value, op[t].mask)
        /\ pc[t] \in {"store", "keep"} /\ (spoiled[s] => Whole(t)) =>
             op[t].value = device[s]
        /\ pc[t] = "notify" /\ ~spoiled[s] => op[t].value = device[s]

(* A call on the configuration works under the mutex from the word it      *)
(* found there.                                                            *)
ConfigOK(t) ==
  op[t].setting = Config =>
    /\ pc[t] \in Holding => config_mutex = t
    /\ pc[t] \in {"send", "store"} =>
         /\ op[t].old = cache[Config] /\ op[t].tell = op[t].value
         /\ op[t].value = Merged(cache[Config], op[t].value, op[t].mask)
    /\ pc[t] = "store" /\ op[t].failed => spoiled[Config]
    /\ pc[t] = "store" /\ ~op[t].failed => device[Config] = op[t].value
    /\ pc[t] \in {"stop", "start", "notify"} =>
         op[t].tell = cache[Config] /\ op[t].value = cache[Config]
    /\ pc[t] \in {"stop", "start"} => unsettled

(* The cache and the notifications, while nobody is between the device and *)
(* them.                                                                   *)
CacheOK(s) ==
  ~spoiled[s] /\ (\A t \in Thread : ~WillStore(t, s)) => cache[s] = device[s]

ToldOK(s) ==
  s # Config /\ ~mistold[s] /\ (\A t \in Thread : ~WillTell(t, s)) =>
    told[s] = Common(s, device[s])

ToldConfigOK ==
  ~mistold[Config] /\ (\A t \in Thread :
      ~(op[t].setting = Config /\ pc[t] \in {"stop", "start", "notify"})) =>
    told[Config] = cache[Config]

MidiOK ==
  ~unsettled => midi_mode = ModeOf(cache[Config]) /\ device_midi = midi_mode

SettingsInv ==
  /\ WordsOK
  /\ \A t \in Thread : CallOK(t) /\ AloneOK(t) /\ WordOK(t) /\ ConfigOK(t)
  /\ \A s \in Setting : CacheOK(s) /\ ToldOK(s)
  /\ ToldConfigOK
  /\ MidiOK
  /\ cache[Config] = asked
-----------------------------------------------------------------------------
(* The settings by name, and the words of each.                            *)
LEMMA SettingNames ==
  /\ Setting = {"device_config", "sample_rate", "audio_config", "crossfader_lock",
                "crossfader_style", "jog_lock", "jog_sensitivity"}
  /\ \A p \in Product : SettingsOf(p) \subseteq Setting
  /\ \A s \in Setting : Bits(s) \subseteq AllBits
<1>1. /\ SettingsOf("djc") = {"device_config", "sample_rate"}
      /\ SettingsOf("mk2") = {"audio_config", "sample_rate", "crossfader_lock",
                              "crossfader_style"}
      /\ SettingsOf("rmx") = {"audio_config", "sample_rate", "jog_lock",
                              "jog_sensitivity"}
  BY DEF SettingsOf
<1>2. Setting = SettingsOf("djc") \cup SettingsOf("mk2") \cup SettingsOf("rmx")
  BY DEF Setting, Product
<1>3. Setting = {"device_config", "sample_rate", "audio_config", "crossfader_lock",
                 "crossfader_style", "jog_lock", "jog_sensitivity"}
  BY <1>1, <1>2
<1>4. \A p \in Product : SettingsOf(p) \subseteq Setting
  BY <1>2 DEF Product
<1>5. \A s \in Setting : Bits(s) \subseteq AllBits
  BY DEF AllBits
<1> QED  BY <1>3, <1>4, <1>5

LEMMA BitNames ==
  /\ Bits("device_config") = {"midi", "att", "enable"}
  /\ Bits("audio_config") = {"asio", "loop"}
  /\ Bits("jog_lock") = {"bit0", "bit8"}
  /\ \A s \in {"sample_rate", "crossfader_lock", "crossfader_style",
               "jog_sensitivity"} : Bits(s) = {"value"}
BY DEF Bits

(* The masks: a merged word keeps to the bits of the two it is made of,    *)
(* merging it again changes nothing, and under the whole mask it is the    *)
(* new word.                                                               *)
LEMMA Merging ==
  ASSUME NEW word, NEW value, NEW mask
  PROVE  /\ Merged(word, Merged(word, value, mask), mask) = Merged(word, value, mask)
         /\ \A B : word \subseteq B /\ value \subseteq B => Merged(word, value, mask) \subseteq B
         /\ word \subseteq mask /\ value \subseteq mask => Merged(word, value, mask) = value
BY DEF Merged

(* The two formats of a jog wheel lock.                                    *)
LEMMA Formats ==
  ASSUME NEW lock \in SUBSET Bits("jog_lock")
  PROVE  /\ ToNativeLock(lock) \subseteq Bits("jog_lock")
         /\ ToCommonLock(ToNativeLock(lock)) = lock
<1>1. lock \cap Bits("jog_lock") = lock /\ lock \subseteq {"bit0", "bit8"}
  BY BitNames
<1>2. Swapped(lock) \subseteq {"bit0", "bit8"}
  BY <1>1 DEF Swapped
<1>3. Swapped(Swapped(lock)) = lock
  BY <1>1 DEF Swapped
<1> QED  BY <1>1, <1>2, <1>3, BitNames DEF ToNativeLock, ToCommonLock

-----------------------------------------------------------------------------
(* How a call begins: its word and its mask have the bits of its setting,  *)
(* a word that is sent changes the cached one only under the mask, and     *)
(* what clients will be told is that word in the format of ioctl.          *)
GoodCall(s, value, mask, tell, label) ==
  /\ s \in Setting /\ value \subseteq Bits(s) /\ mask \subseteq Bits(s)
  /\ tell \subseteq AllBits
  /\ label \in {"down", "send", "ask"}
  /\ label = "down" <=> s = Config
  /\ label = "ask" => mask = Bits(s)
  /\ label = "send" => tell = Common(s, value) /\ value = Merged(cache[s], value, mask)

Begins(c) ==
  \E s \in Setting, label \in Label, value, mask, tell \in SUBSET AllBits :
    /\ GoodCall(s, value, mask, tell, label)
    /\ ClientBegin(c, s, value, mask, tell, label)

LEMMA CallBegins ==
  ASSUME TypeOK, WordsOK, NEW c \in Client, Call(c)
  PROVE  Begins(c)
<1>s. /\ Config \in Setting /\ \A s \in Setting : Bits(s) \in SUBSET AllBits
      /\ {"down", "send", "ask"} \subseteq Label /\ {} \in SUBSET AllBits
  BY SettingNames DEF Config, Label
<1>w. ASSUME NEW s \in Setting \ {Config, "jog_lock"}, NEW v \in SUBSET Bits(s),
             SetWhole(c, s, v)
      PROVE  Begins(c)
  <2>1. v = Merged(cache[s], v, Bits(s)) /\ v = Common(s, v)
    BY Merging DEF WordsOK, Common
  <2>2. GoodCall(s, v, Bits(s), v, "send")
    BY <1>s, <2>1 DEF GoodCall
  <2> QED  BY <1>w, <1>s, <2>2 DEF SetWhole, Begins
<1>g. ASSUME NEW s \in Setting \ {Config}, Get(c, s)
      PROVE  Begins(c)
  <2>1. GoodCall(s, {}, Bits(s), {}, "ask")
    BY <1>s DEF GoodCall
  <2> QED  BY <1>g, <1>s, <2>1 DEF Get, Begins
<1>1. CASE SetJogLock(c)
  <2>1. PICK lock \in SUBSET Bits("jog_lock") :
          ClientBegin(c, "jog_lock", ToNativeLock(lock), Bits("jog_lock"), lock, "send")
    BY <1>1 DEF SetJogLock
  <2> DEFINE v == ToNativeLock(lock)
  <2>2. "jog_lock" \in Setting /\ "jog_lock" # Config
    BY SettingNames DEF Config
  <2>3. v \subseteq Bits("jog_lock") /\ Common("jog_lock", v) = lock
    BY Formats DEF Common
  <2>4. v = Merged(cache["jog_lock"], v, Bits("jog_lock"))
    BY <2>2, <2>3, Merging DEF WordsOK
  <2>5. GoodCall("jog_lock", v, Bits("jog_lock"), lock, "send")
    BY <1>s, <2>2, <2>3, <2>4 DEF GoodCall
  <2>6. v \in SUBSET AllBits /\ lock \in SUBSET AllBits
    BY <1>s, <2>2, <2>3
  <2> QED  BY <1>s, <2>1, <2>2, <2>5, <2>6 DEF Begins
<1>2. CASE SetAudioConfig(c)
  <2>1. PICK mask \in SUBSET Bits("audio_config") : \E v \in SUBSET mask :
          LET word == Merged(cache["audio_config"], v, mask)
          IN  ClientBegin(c, "audio_config", word, mask, word, "send")
    BY <1>2 DEF SetAudioConfig
  <2>2. PICK v \in SUBSET mask :
          ClientBegin(c, "audio_config", Merged(cache["audio_config"], v, mask), mask,
                      Merged(cache["audio_config"], v, mask), "send")
    BY <2>1
  <2> DEFINE word == Merged(cache["audio_config"], v, mask)
  <2>3. "audio_config" \in Setting /\ "audio_config" # Config
    BY SettingNames DEF Config
  <2>4. word \subseteq Bits("audio_config") /\ word = Merged(cache["audio_config"], word, mask)
    BY <2>3, Merging DEF WordsOK
  <2>5. GoodCall("audio_config", word, mask, word, "send")
    BY <1>s, <2>3, <2>4 DEF GoodCall, Common
  <2>6. word \in SUBSET AllBits /\ mask \in SUBSET AllBits
    BY <1>s, <2>3, <2>4
  <2> QED  BY <1>s, <2>2, <2>3, <2>5, <2>6 DEF Begins
<1>3. CASE SetConfig(c) \/ SetTalkover(c)
  <2>1. PICK v, mask \in SUBSET Bits(Config) : ClientBegin(c, Config, v, mask, {}, "down")
    <3>1. CASE SetConfig(c)
      BY <3>1 DEF SetConfig, Config
    <3>2. CASE SetTalkover(c)
      BY <3>2, <1>s, BitNames DEF SetTalkover, Config, WordsOK
    <3> QED  BY <1>3, <3>1, <3>2
  <2>2. GoodCall(Config, v, mask, {}, "down")
    BY <1>s DEF GoodCall
  <2> QED  BY <1>s, <2>1, <2>2 DEF Begins
<1>4. \/ \E s \in Setting \ {Config, "jog_lock"} : \E v \in SUBSET Bits(s) : SetWhole(c, s, v)
      \/ \E s \in Setting \ {Config} : Get(c, s)
      \/ SetJogLock(c) \/ SetAudioConfig(c) \/ SetConfig(c) \/ SetTalkover(c)
  BY SettingNames
     DEF Config, Call, IoctlJogWheel, IoctlConfig, IoctlSampleRate, IoctlCrossfader,
         ProcJogWheel, ProcTalkover, ProcConfig, ProcSampleRate, ProcCrossfader,
         GetJogLock, SetJogSensitivity, GetJogSensitivity, GetAudioConfig,
         SetSampleRate, GetSampleRate, SetCrossfaderLock, GetCrossfaderLock,
         SetCrossfaderStyle
<1> QED  BY <1>4, <1>w, <1>g, <1>1, <1>2, <1>3
-----------------------------------------------------------------------------
(* The word the device takes has the bits of its setting; it is the word   *)
(* of the call, if the call is on the configuration, or whole, or alone on *)
(* a setting whose cached word is true.                                    *)
LEMMA TakenWord ==
  ASSUME TypeOK, SettingsInv, NEW t \in Thread, pc[t] = "send"
  PROVE  /\ Taken(t) \subseteq Bits(op[t].setting)
         /\ \/ op[t].setting = Config
            \/ op[t].alone /\ (spoiled[op[t].setting] => Whole(t))
            => Taken(t) = op[t].value
<1> DEFINE s == op[t].setting
<1>1. /\ s \in Setting /\ op[t].value \subseteq Bits(s) /\ op[t].mask \subseteq Bits(s)
      /\ device[s] \subseteq Bits(s)
  BY DEF TypeOK, Op, SettingsInv, WordsOK, CallOK
<1>m. /\ Merged(device[s], op[t].value, op[t].mask) \subseteq Bits(s)
      /\ op[t].mask = Bits(s) => Merged(device[s], op[t].value, op[t].mask) = op[t].value
  BY <1>1 DEF Merged
<1>2. Taken(t) \subseteq Bits(s)
  BY <1>1, <1>m DEF Taken
<1>3. s = Config => Taken(t) = op[t].value
  BY DEF Taken, Config
<1>4. s # Config /\ Whole(t) => Taken(t) = op[t].value
  BY <1>m DEF Taken, Whole, Config
<1>5. ASSUME s # Config, op[t].alone, ~spoiled[s] PROVE Taken(t) = op[t].value
  <2>1. op[t].value = Merged(cache[s], op[t].value, op[t].mask)
    BY <1>5 DEF SettingsInv, WordOK
  <2>2. \A u \in Thread : ~WillStore(u, s)
    BY <1>5 DEF SettingsInv, AloneOK, Working, WillStore
  <2>3. cache[s] = device[s]
    BY <1>1, <1>5, <2>2 DEF SettingsInv, CacheOK
  <2> QED  BY <1>5, <2>1, <2>3 DEF Taken, Config
<1> QED  BY <1>2, <1>3, <1>4, <1>5

(* A request reaches the device.                                           *)
LEMMA SendOkStep ==
  ASSUME TypeOK, SettingsInv, NEW t \in Thread, SendOk(t)
  PROVE  SettingsInv'
<1> USE DEF Config
<1>1. WordsOK'
  <2>1. op[t].setting \in Setting /\ Taken(t) \subseteq Bits(op[t].setting)
    BY TakenWord DEF SendOk, TypeOK, Op
  <2>2. \A s \in Setting : device'[s] = device[s] \/ (s = op[t].setting /\ device'[s] = Taken(t))
    BY <2>1 DEF SendOk, TypeOK
  <2> QED  BY <2>1, <2>2 DEF SendOk, SettingsInv, WordsOK
<1>2. ASSUME NEW u \in Thread PROVE CallOK(u)'
  BY SettingNames
     DEF TypeOK, SettingsInv, WordsOK, CallOK, Op, SendOk, Taken, Goto,
         midiVars, histVars
<1>3. ASSUME NEW u \in Thread PROVE AloneOK(u)'
  BY DEF TypeOK, SettingsInv, AloneOK, Working, Op, SendOk, Taken, Goto,
         midiVars, histVars
<1>4. ASSUME NEW u \in Thread PROVE WordOK(u)'
  <2>1. CASE u = t
    BY <2>1, TakenWord DEF TypeOK, WordOK, Whole, Op, SendOk, Goto, histVars
  <2>2. CASE u # t
    BY <2>2 DEF TypeOK, SettingsInv, WordOK, AloneOK, Working, Whole, Op, SendOk, Goto, histVars
  <2> QED  BY <2>1, <2>2
<1>5. ASSUME NEW u \in Thread PROVE ConfigOK(u)'
  BY Merging
     DEF TypeOK, SettingsInv, CallOK, ConfigOK, Holding, Op, SendOk, Taken,
         Goto, midiVars, histVars
<1>6. ASSUME NEW s \in Setting PROVE CacheOK(s)'
  BY DEF TypeOK, SettingsInv, CallOK, AloneOK, WordOK, ConfigOK, CacheOK,
         WillStore, Working, Whole, Op, SendOk, Taken, Goto, midiVars, histVars
<1>7. ASSUME NEW s \in Setting PROVE ToldOK(s)'
  BY DEF TypeOK, SettingsInv, CallOK, AloneOK, WordOK, ToldOK, WillTell,
         Working, Op, SendOk, Taken, Goto, midiVars, histVars
<1>8. ToldConfigOK'
  BY DEF TypeOK, SettingsInv, CallOK, ConfigOK, ToldConfigOK, Holding, Op,
         SendOk, Taken, Goto, midiVars, histVars
<1>9. MidiOK' /\ cache'[Config] = asked'
  BY Merging
     DEF TypeOK, SettingsInv, CallOK, ConfigOK, MidiOK, ModeOf, Op, SendOk,
         Taken, Goto, midiVars, histVars
<1> QED
  BY <1>1, <1>2, <1>3, <1>4, <1>5, <1>6, <1>7, <1>8, <1>9 DEF SettingsInv

(* A request fails, having reached the device or not.                      *)
LEMMA SendFailsStep ==
  ASSUME TypeOK, SettingsInv, NEW t \in Thread, SendFails(t)
  PROVE  SettingsInv'
<1> USE DEF Config
<1>1. WordsOK'
  <2>1. op[t].setting \in Setting /\ Taken(t) \subseteq Bits(op[t].setting)
    BY TakenWord DEF SendFails, TypeOK, Op
  <2>2. \A s \in Setting : device'[s] = device[s] \/ (s = op[t].setting /\ device'[s] = Taken(t))
    BY <2>1 DEF SendFails, TypeOK
  <2> QED  BY <2>1, <2>2 DEF SendFails, SettingsInv, WordsOK
<1>2. ASSUME NEW u \in Thread PROVE CallOK(u)'
  BY SettingNames
     DEF TypeOK, SettingsInv, WordsOK, CallOK, Op, SendFails, Taken, Goto,
         Return, NoOp, midiVars, histVars
<1>3. ASSUME NEW u \in Thread PROVE AloneOK(u)'
  BY DEF TypeOK, SettingsInv, AloneOK, Working, Op, SendFails, Taken, Goto,
         Return, NoOp, midiVars, histVars
<1>4. ASSUME NEW u \in Thread PROVE WordOK(u)'
  BY Merging
     DEF TypeOK, SettingsInv, CallOK, AloneOK, WordOK, Working, Whole, Op,
         SendFails, Taken, Goto, Return, NoOp, midiVars, histVars
<1>5. ASSUME NEW u \in Thread PROVE ConfigOK(u)'
  BY Merging
     DEF TypeOK, SettingsInv, CallOK, ConfigOK, Holding, Op, SendFails, Taken,
         Goto, Return, NoOp, midiVars, histVars
<1>6. ASSUME NEW s \in Setting PROVE CacheOK(s)'
  <2>1. CASE s = op[t].setting
    BY <2>1 DEF TypeOK, CacheOK, SendFails
  <2>2. CASE s # op[t].setting
    <3>1. \A u \in Thread : WillStore(u, s) => WillStore(u, s)'
      BY <2>2 DEF TypeOK, WillStore, Op, SendFails, Return, Goto
    <3> QED  BY <2>2, <3>1 DEF TypeOK, SettingsInv, CacheOK, SendFails
  <2> QED  BY <2>1, <2>2
<1>7. ASSUME NEW s \in Setting PROVE ToldOK(s)'
  BY DEF TypeOK, SettingsInv, CallOK, AloneOK, WordOK, ToldOK, WillTell,
         Working, Op, SendFails, Taken, Goto, Return, NoOp, midiVars, histVars
<1>8. ToldConfigOK'
  BY DEF TypeOK, SettingsInv, CallOK, ConfigOK, ToldConfigOK, Holding, Op,
         SendFails, Taken, Goto, Return, NoOp, midiVars, histVars
<1>9. MidiOK' /\ cache'[Config] = asked'
  BY Merging
     DEF TypeOK, SettingsInv, CallOK, ConfigOK, MidiOK, ModeOf, Op, SendFails,
         Taken, Goto, Return, NoOp, midiVars, histVars
<1> QED
  BY <1>1, <1>2, <1>3, <1>4, <1>5, <1>6, <1>7, <1>8, <1>9 DEF SettingsInv

(* A word that was sent is kept in the cache.                              *)
LEMMA StoreStep ==
  ASSUME TypeOK, SettingsInv, NEW t \in Thread, Store(t)
  PROVE  SettingsInv'
<1> USE DEF Config
<1>1. WordsOK'
  BY SettingNames, BitNames, Merging
     DEF TypeOK, SettingsInv, WordsOK, CallOK, ConfigOK, Op, Store,
         SpoiledAfter, Goto, midiVars, histVars
<1>2. ASSUME NEW u \in Thread PROVE CallOK(u)'
  BY SettingNames
     DEF TypeOK, SettingsInv, WordsOK, CallOK, Op, Store, SpoiledAfter, Goto,
         midiVars, histVars
<1>3. ASSUME NEW u \in Thread PROVE AloneOK(u)'
  BY DEF TypeOK, SettingsInv, AloneOK, Working, Op, Store, SpoiledAfter, Goto,
         midiVars, histVars
<1>4. ASSUME NEW u \in Thread PROVE WordOK(u)'
  BY Merging
     DEF TypeOK, SettingsInv, CallOK, AloneOK, WordOK, Working, Whole, Op,
         Store, SpoiledAfter, Goto, midiVars, histVars
<1>5. ASSUME NEW u \in Thread PROVE ConfigOK(u)'
  BY Merging
     DEF TypeOK, SettingsInv, CallOK, ConfigOK, Holding, Op, Store,
         SpoiledAfter, Goto, midiVars, histVars
<1>6. ASSUME NEW s \in Setting PROVE CacheOK(s)'
  BY DEF TypeOK, SettingsInv, CallOK, AloneOK, WordOK, ConfigOK, CacheOK,
         WillStore, Working, Whole, Op, Store, SpoiledAfter, Goto, midiVars,
         histVars
<1>7. ASSUME NEW s \in Setting PROVE ToldOK(s)'
  BY DEF TypeOK, SettingsInv, CallOK, AloneOK, WordOK, ToldOK, WillTell,
         Working, Op, Store, SpoiledAfter, Goto, midiVars, histVars
<1>8. ToldConfigOK'
  BY DEF TypeOK, SettingsInv, CallOK, ConfigOK, ToldConfigOK, Holding, Op,
         Store, SpoiledAfter, Goto, midiVars, histVars
<1>9. MidiOK' /\ cache'[Config] = asked'
  BY Merging
     DEF TypeOK, SettingsInv, CallOK, ConfigOK, MidiOK, ModeOf, Op, Store,
         SpoiledAfter, Goto, midiVars, histVars
<1> QED
  BY <1>1, <1>2, <1>3, <1>4, <1>5, <1>6, <1>7, <1>8, <1>9 DEF SettingsInv

(* The mutex is taken, and the word made.                                  *)
LEMMA ConfigDownStep ==
  ASSUME TypeOK, SettingsInv, NEW t \in Thread, ConfigDown(t)
  PROVE  SettingsInv'
<1> USE DEF Config
<1>1. WordsOK'
  BY SettingNames, BitNames, Merging
     DEF TypeOK, SettingsInv, WordsOK, CallOK, ConfigOK, Op, ConfigDown, Goto,
         midiVars, histVars
<1>2. ASSUME NEW u \in Thread PROVE CallOK(u)'
  <2>1. op[t].setting = Config /\ Config \in Setting
    BY SettingNames DEF SettingsInv, CallOK, ConfigDown
  <2>2. Merged(cache[Config], op[t].value, op[t].mask) \subseteq Bits(Config)
    BY <2>1, Merging DEF SettingsInv, WordsOK, CallOK, ConfigDown
  <2> QED  BY <2>1, <2>2 DEF TypeOK, SettingsInv, CallOK, Op, ConfigDown, Goto
<1>3. ASSUME NEW u \in Thread PROVE AloneOK(u)'
  BY DEF TypeOK, SettingsInv, AloneOK, Working, Op, ConfigDown, Goto, midiVars,
         histVars
<1>4. ASSUME NEW u \in Thread PROVE WordOK(u)'
  BY Merging
     DEF TypeOK, SettingsInv, CallOK, AloneOK, WordOK, Working, Whole, Op,
         ConfigDown, Goto, midiVars, histVars
<1>5. ASSUME NEW u \in Thread PROVE ConfigOK(u)'
  <2>1. CASE u = t
    <3> DEFINE word == Merged(cache[Config], op[t].value, op[t].mask)
    <3>1. word = Merged(cache[Config], word, op[t].mask)
      BY Merging
    <3>2. /\ pc'[t] = "send" /\ config_mutex' = t /\ cache' = cache
          /\ op'[t] = [op[t] EXCEPT !.value = word, !.old = cache[Config], !.tell = word]
      BY DEF TypeOK, ConfigDown, Goto
    <3> QED  BY <2>1, <3>1, <3>2 DEF TypeOK, Op, ConfigOK
  <2>2. CASE u # t
    <3>1. ~(op[u].setting = Config /\ pc[u] \in Holding)
      BY ClientAssumption DEF SettingsInv, ConfigOK, ConfigDown, Thread
    <3> QED  BY <2>2, <3>1 DEF TypeOK, ConfigOK, Holding, ConfigDown, Goto
  <2> QED  BY <2>1, <2>2
<1>6. ASSUME NEW s \in Setting PROVE CacheOK(s)'
  BY DEF TypeOK, SettingsInv, CallOK, AloneOK, WordOK, ConfigOK, CacheOK,
         WillStore, Working, Whole, Op, ConfigDown, Goto, midiVars, histVars
<1>7. ASSUME NEW s \in Setting PROVE ToldOK(s)'
  BY DEF TypeOK, SettingsInv, CallOK, AloneOK, WordOK, ToldOK, WillTell,
         Working, Op, ConfigDown, Goto, midiVars, histVars
<1>8. ToldConfigOK'
  BY DEF TypeOK, SettingsInv, CallOK, ConfigOK, ToldConfigOK, Holding, Op,
         ConfigDown, Goto, midiVars, histVars
<1>9. MidiOK' /\ cache'[Config] = asked'
  BY Merging
     DEF TypeOK, SettingsInv, CallOK, ConfigOK, MidiOK, ModeOf, Op, ConfigDown,
         Goto, midiVars, histVars
<1> QED
  BY <1>1, <1>2, <1>3, <1>4, <1>5, <1>6, <1>7, <1>8, <1>9 DEF SettingsInv

(* The new configuration is kept in the cache.                             *)
LEMMA ConfigStoreStep ==
  ASSUME TypeOK, SettingsInv, NEW t \in Thread, ConfigStore(t)
  PROVE  SettingsInv'
<1> USE DEF Config
<1>1. WordsOK'
  BY SettingNames, BitNames, Merging
     DEF TypeOK, SettingsInv, WordsOK, CallOK, ConfigOK, Op, ConfigStore,
         SpoiledAfter, MidiBitChanged, Goto, midiVars, histVars
<1>2. ASSUME NEW u \in Thread PROVE CallOK(u)'
  BY SettingNames
     DEF TypeOK, SettingsInv, WordsOK, CallOK, Op, ConfigStore, SpoiledAfter,
         MidiBitChanged, Goto, midiVars, histVars
<1>3. ASSUME NEW u \in Thread PROVE AloneOK(u)'
  BY DEF TypeOK, SettingsInv, AloneOK, Working, Op, ConfigStore, SpoiledAfter,
         MidiBitChanged, Goto, midiVars, histVars
<1>4. ASSUME NEW u \in Thread PROVE WordOK(u)'
  BY Merging
     DEF TypeOK, SettingsInv, CallOK, AloneOK, WordOK, Working, Whole, Op,
         ConfigStore, SpoiledAfter, MidiBitChanged, Goto, midiVars, histVars
<1>5. ASSUME NEW u \in Thread PROVE ConfigOK(u)'
  BY Merging
     DEF TypeOK, SettingsInv, CallOK, ConfigOK, Holding, Op, ConfigStore,
         SpoiledAfter, MidiBitChanged, Goto, midiVars, histVars
<1>6. ASSUME NEW s \in Setting PROVE CacheOK(s)'
  BY DEF TypeOK, SettingsInv, CallOK, AloneOK, WordOK, ConfigOK, CacheOK,
         WillStore, Working, Whole, Op, ConfigStore, SpoiledAfter,
         MidiBitChanged, Goto, midiVars, histVars
<1>7. ASSUME NEW s \in Setting PROVE ToldOK(s)'
  BY DEF TypeOK, SettingsInv, CallOK, AloneOK, WordOK, ToldOK, WillTell,
         Working, Op, ConfigStore, SpoiledAfter, MidiBitChanged, Goto, midiVars,
         histVars
<1>8. ToldConfigOK'
  BY DEF TypeOK, SettingsInv, CallOK, ConfigOK, ToldConfigOK, Holding, Op,
         ConfigStore, SpoiledAfter, MidiBitChanged, Goto, midiVars, histVars
<1>9. MidiOK' /\ cache'[Config] = asked'
  BY Merging
     DEF TypeOK, SettingsInv, CallOK, ConfigOK, MidiOK, ModeOf, Op, ConfigStore,
         SpoiledAfter, MidiBitChanged, Goto, midiVars, histVars
<1> QED
  BY <1>1, <1>2, <1>3, <1>4, <1>5, <1>6, <1>7, <1>8, <1>9 DEF SettingsInv

(* The old configuration is put back.                                      *)
LEMMA ConfigRestoreStep ==
  ASSUME TypeOK, SettingsInv, NEW t \in Thread, ConfigRestore(t)
  PROVE  SettingsInv'
<1> USE DEF Config
<1>1. WordsOK'
  BY SettingNames, BitNames, Merging
     DEF TypeOK, SettingsInv, WordsOK, CallOK, ConfigOK, Op, ConfigRestore,
         Leave, Return, Goto, NoOp, midiVars, histVars
<1>2. ASSUME NEW u \in Thread PROVE CallOK(u)'
  BY SettingNames
     DEF TypeOK, SettingsInv, WordsOK, CallOK, Op, ConfigRestore, Leave, Return,
         Goto, NoOp, midiVars, histVars
<1>3. ASSUME NEW u \in Thread PROVE AloneOK(u)'
  BY DEF TypeOK, SettingsInv, AloneOK, Working, Op, ConfigRestore, Leave,
         Return, Goto, NoOp, midiVars, histVars
<1>4. ASSUME NEW u \in Thread PROVE WordOK(u)'
  BY Merging
     DEF TypeOK, SettingsInv, CallOK, AloneOK, WordOK, Working, Whole, Op,
         ConfigRestore, Leave, Return, Goto, NoOp, midiVars, histVars
<1>5. ASSUME NEW u \in Thread PROVE ConfigOK(u)'
  BY Merging
     DEF TypeOK, SettingsInv, CallOK, ConfigOK, Holding, Op, ConfigRestore,
         Leave, Return, Goto, NoOp, midiVars, histVars
<1>6. ASSUME NEW s \in Setting PROVE CacheOK(s)'
  BY DEF TypeOK, SettingsInv, CallOK, AloneOK, WordOK, ConfigOK, CacheOK,
         WillStore, Working, Whole, Op, ConfigRestore, Leave, Return, Goto,
         NoOp, midiVars, histVars
<1>7. ASSUME NEW s \in Setting PROVE ToldOK(s)'
  BY DEF TypeOK, SettingsInv, CallOK, AloneOK, WordOK, ToldOK, WillTell,
         Working, Op, ConfigRestore, Leave, Return, Goto, NoOp, midiVars,
         histVars
<1>8. ToldConfigOK'
  BY DEF TypeOK, SettingsInv, CallOK, ConfigOK, ToldConfigOK, Holding, Op,
         ConfigRestore, Leave, Return, Goto, NoOp, midiVars, histVars
<1>9. MidiOK' /\ cache'[Config] = asked'
  BY Merging
     DEF TypeOK, SettingsInv, CallOK, ConfigOK, MidiOK, ModeOf, Op,
         ConfigRestore, Leave, Return, Goto, NoOp, midiVars, histVars
<1> QED
  BY <1>1, <1>2, <1>3, <1>4, <1>5, <1>6, <1>7, <1>8, <1>9 DEF SettingsInv

(* The MIDI input is stopped.                                              *)
LEMMA MidiStopStep ==
  ASSUME TypeOK, SettingsInv, NEW t \in Thread, MidiStop(t)
  PROVE  SettingsInv'
<1> USE DEF Config
<1>1. WordsOK'
  BY SettingNames, BitNames, Merging
     DEF TypeOK, SettingsInv, WordsOK, CallOK, ConfigOK, Op, MidiStop, Goto,
         midiVars, histVars
<1>2. ASSUME NEW u \in Thread PROVE CallOK(u)'
  BY SettingNames
     DEF TypeOK, SettingsInv, WordsOK, CallOK, Op, MidiStop, Goto, midiVars,
         histVars
<1>3. ASSUME NEW u \in Thread PROVE AloneOK(u)'
  BY DEF TypeOK, SettingsInv, AloneOK, Working, Op, MidiStop, Goto, midiVars,
         histVars
<1>4. ASSUME NEW u \in Thread PROVE WordOK(u)'
  BY Merging
     DEF TypeOK, SettingsInv, CallOK, AloneOK, WordOK, Working, Whole, Op,
         MidiStop, Goto, midiVars, histVars
<1>5. ASSUME NEW u \in Thread PROVE ConfigOK(u)'
  BY Merging
     DEF TypeOK, SettingsInv, CallOK, ConfigOK, Holding, Op, MidiStop, Goto,
         midiVars, histVars
<1>6. ASSUME NEW s \in Setting PROVE CacheOK(s)'
  BY DEF TypeOK, SettingsInv, CallOK, AloneOK, WordOK, ConfigOK, CacheOK,
         WillStore, Working, Whole, Op, MidiStop, Goto, midiVars, histVars
<1>7. ASSUME NEW s \in Setting PROVE ToldOK(s)'
  BY DEF TypeOK, SettingsInv, CallOK, AloneOK, WordOK, ToldOK, WillTell,
         Working, Op, MidiStop, Goto, midiVars, histVars
<1>8. ToldConfigOK'
  BY DEF TypeOK, SettingsInv, CallOK, ConfigOK, ToldConfigOK, Holding, Op,
         MidiStop, Goto, midiVars, histVars
<1>9. MidiOK' /\ cache'[Config] = asked'
  BY Merging
     DEF TypeOK, SettingsInv, CallOK, ConfigOK, MidiOK, ModeOf, Op, MidiStop,
         Goto, midiVars, histVars
<1> QED
  BY <1>1, <1>2, <1>3, <1>4, <1>5, <1>6, <1>7, <1>8, <1>9 DEF SettingsInv

(* The MIDI input is started.                                              *)
LEMMA MidiStartStep ==
  ASSUME TypeOK, SettingsInv, NEW t \in Thread, MidiStart(t)
  PROVE  SettingsInv'
<1> USE DEF Config
<1>1. WordsOK'
  BY SettingNames, BitNames, Merging
     DEF TypeOK, SettingsInv, WordsOK, CallOK, ConfigOK, Op, MidiStart, Goto,
         ModeOf, midiVars, histVars
<1>2. ASSUME NEW u \in Thread PROVE CallOK(u)'
  BY SettingNames
     DEF TypeOK, SettingsInv, WordsOK, CallOK, Op, MidiStart, Goto, ModeOf,
         midiVars, histVars
<1>3. ASSUME NEW u \in Thread PROVE AloneOK(u)'
  BY DEF TypeOK, SettingsInv, AloneOK, Working, Op, MidiStart, Goto, ModeOf,
         midiVars, histVars
<1>4. ASSUME NEW u \in Thread PROVE WordOK(u)'
  BY Merging
     DEF TypeOK, SettingsInv, CallOK, AloneOK, WordOK, Working, Whole, Op,
         MidiStart, Goto, ModeOf, midiVars, histVars
<1>5. ASSUME NEW u \in Thread PROVE ConfigOK(u)'
  BY Merging
     DEF TypeOK, SettingsInv, CallOK, ConfigOK, Holding, Op, MidiStart, Goto,
         ModeOf, midiVars, histVars
<1>6. ASSUME NEW s \in Setting PROVE CacheOK(s)'
  BY DEF TypeOK, SettingsInv, CallOK, AloneOK, WordOK, ConfigOK, CacheOK,
         WillStore, Working, Whole, Op, MidiStart, Goto, ModeOf, midiVars,
         histVars
<1>7. ASSUME NEW s \in Setting PROVE ToldOK(s)'
  BY DEF TypeOK, SettingsInv, CallOK, AloneOK, WordOK, ToldOK, WillTell,
         Working, Op, MidiStart, Goto, ModeOf, midiVars, histVars
<1>8. ToldConfigOK'
  BY DEF TypeOK, SettingsInv, CallOK, ConfigOK, ToldConfigOK, Holding, Op,
         MidiStart, Goto, ModeOf, midiVars, histVars
<1>9. MidiOK' /\ cache'[Config] = asked'
  BY Merging
     DEF TypeOK, SettingsInv, CallOK, ConfigOK, MidiOK, ModeOf, Op, MidiStart,
         Goto, ModeOf, midiVars, histVars
<1> QED
  BY <1>1, <1>2, <1>3, <1>4, <1>5, <1>6, <1>7, <1>8, <1>9 DEF SettingsInv

(* Clients are told.                                                       *)
LEMMA NotifyStep ==
  ASSUME TypeOK, SettingsInv, NEW t \in Thread, Notify(t)
  PROVE  SettingsInv'
<1> USE DEF Config
<1>1. WordsOK'
  BY SettingNames, BitNames, Merging
     DEF TypeOK, SettingsInv, WordsOK, CallOK, ConfigOK, Op, Notify, Return,
         Goto, NoOp, midiVars, histVars
<1>2. ASSUME NEW u \in Thread PROVE CallOK(u)'
  BY SettingNames
     DEF TypeOK, SettingsInv, WordsOK, CallOK, Op, Notify, Return, Goto, NoOp,
         midiVars, histVars
<1>3. ASSUME NEW u \in Thread PROVE AloneOK(u)'
  BY DEF TypeOK, SettingsInv, AloneOK, Working, Op, Notify, Return, Goto, NoOp,
         midiVars, histVars
<1>4. ASSUME NEW u \in Thread PROVE WordOK(u)'
  BY Merging
     DEF TypeOK, SettingsInv, CallOK, AloneOK, WordOK, Working, Whole, Op,
         Notify, Return, Goto, NoOp, midiVars, histVars
<1>5. ASSUME NEW u \in Thread PROVE ConfigOK(u)'
  BY Merging
     DEF TypeOK, SettingsInv, CallOK, ConfigOK, Holding, Op, Notify, Return,
         Goto, NoOp, midiVars, histVars
<1>6. ASSUME NEW s \in Setting PROVE CacheOK(s)'
  BY DEF TypeOK, SettingsInv, CallOK, AloneOK, WordOK, ConfigOK, CacheOK,
         WillStore, Working, Whole, Op, Notify, Return, Goto, NoOp, midiVars,
         histVars
<1>7. ASSUME NEW s \in Setting PROVE ToldOK(s)'
  BY DEF TypeOK, SettingsInv, CallOK, AloneOK, WordOK, ToldOK, WillTell,
         Working, Op, Notify, Return, Goto, NoOp, midiVars, histVars
<1>8. ToldConfigOK'
  BY DEF TypeOK, SettingsInv, CallOK, ConfigOK, ToldConfigOK, Holding, Op,
         Notify, Return, Goto, NoOp, midiVars, histVars
<1>9. MidiOK' /\ cache'[Config] = asked'
  BY Merging
     DEF TypeOK, SettingsInv, CallOK, ConfigOK, MidiOK, ModeOf, Op, Notify,
         Return, Goto, NoOp, midiVars, histVars
<1> QED
  BY <1>1, <1>2, <1>3, <1>4, <1>5, <1>6, <1>7, <1>8, <1>9 DEF SettingsInv

(* Clients are told the configuration.                                     *)
LEMMA ConfigNotifyStep ==
  ASSUME TypeOK, SettingsInv, NEW t \in Thread, ConfigNotify(t)
  PROVE  SettingsInv'
<1> USE DEF Config
<1>1. WordsOK'
  BY SettingNames, BitNames, Merging
     DEF TypeOK, SettingsInv, WordsOK, CallOK, ConfigOK, Op, ConfigNotify,
         Leave, Return, Goto, NoOp, midiVars, histVars
<1>2. ASSUME NEW u \in Thread PROVE CallOK(u)'
  BY SettingNames
     DEF TypeOK, SettingsInv, WordsOK, CallOK, Op, ConfigNotify, Leave, Return,
         Goto, NoOp, midiVars, histVars
<1>3. ASSUME NEW u \in Thread PROVE AloneOK(u)'
  BY DEF TypeOK, SettingsInv, AloneOK, Working, Op, ConfigNotify, Leave, Return,
         Goto, NoOp, midiVars, histVars
<1>4. ASSUME NEW u \in Thread PROVE WordOK(u)'
  BY Merging
     DEF TypeOK, SettingsInv, CallOK, AloneOK, WordOK, Working, Whole, Op,
         ConfigNotify, Leave, Return, Goto, NoOp, midiVars, histVars
<1>5. ASSUME NEW u \in Thread PROVE ConfigOK(u)'
  BY Merging
     DEF TypeOK, SettingsInv, CallOK, ConfigOK, Holding, Op, ConfigNotify,
         Leave, Return, Goto, NoOp, midiVars, histVars
<1>6. ASSUME NEW s \in Setting PROVE CacheOK(s)'
  BY DEF TypeOK, SettingsInv, CallOK, AloneOK, WordOK, ConfigOK, CacheOK,
         WillStore, Working, Whole, Op, ConfigNotify, Leave, Return, Goto, NoOp,
         midiVars, histVars
<1>7. ASSUME NEW s \in Setting PROVE ToldOK(s)'
  BY DEF TypeOK, SettingsInv, CallOK, AloneOK, WordOK, ToldOK, WillTell,
         Working, Op, ConfigNotify, Leave, Return, Goto, NoOp, midiVars,
         histVars
<1>8. ToldConfigOK'
  BY DEF TypeOK, SettingsInv, CallOK, ConfigOK, ToldConfigOK, Holding, Op,
         ConfigNotify, Leave, Return, Goto, NoOp, midiVars, histVars
<1>9. MidiOK' /\ cache'[Config] = asked'
  BY Merging
     DEF TypeOK, SettingsInv, CallOK, ConfigOK, MidiOK, ModeOf, Op,
         ConfigNotify, Leave, Return, Goto, NoOp, midiVars, histVars
<1> QED
  BY <1>1, <1>2, <1>3, <1>4, <1>5, <1>6, <1>7, <1>8, <1>9 DEF SettingsInv

(* The device is asked.                                                    *)
LEMMA AskStep ==
  ASSUME TypeOK, SettingsInv, NEW t \in Thread, Ask(t)
  PROVE  SettingsInv'
<1> USE DEF Config
<1>1. WordsOK'
  BY SettingNames, BitNames, Merging
     DEF TypeOK, SettingsInv, WordsOK, CallOK, ConfigOK, Op, Ask, Return, Goto,
         NoOp, midiVars, histVars
<1>2. ASSUME NEW u \in Thread PROVE CallOK(u)'
  BY SettingNames
     DEF TypeOK, SettingsInv, WordsOK, CallOK, Op, Ask, Return, Goto, NoOp,
         midiVars, histVars
<1>3. ASSUME NEW u \in Thread PROVE AloneOK(u)'
  BY DEF TypeOK, SettingsInv, AloneOK, Working, Op, Ask, Return, Goto, NoOp,
         midiVars, histVars
<1>4. ASSUME NEW u \in Thread PROVE WordOK(u)'
  BY Merging
     DEF TypeOK, SettingsInv, CallOK, AloneOK, WordOK, Working, Whole, Op, Ask,
         Return, Goto, NoOp, midiVars, histVars
<1>5. ASSUME NEW u \in Thread PROVE ConfigOK(u)'
  BY Merging
     DEF TypeOK, SettingsInv, CallOK, ConfigOK, Holding, Op, Ask, Return, Goto,
         NoOp, midiVars, histVars
<1>6. ASSUME NEW s \in Setting PROVE CacheOK(s)'
  BY DEF TypeOK, SettingsInv, CallOK, AloneOK, WordOK, ConfigOK, CacheOK,
         WillStore, Working, Whole, Op, Ask, Return, Goto, NoOp, midiVars,
         histVars
<1>7. ASSUME NEW s \in Setting PROVE ToldOK(s)'
  BY DEF TypeOK, SettingsInv, CallOK, AloneOK, WordOK, ToldOK, WillTell,
         Working, Op, Ask, Return, Goto, NoOp, midiVars, histVars
<1>8. ToldConfigOK'
  BY DEF TypeOK, SettingsInv, CallOK, ConfigOK, ToldConfigOK, Holding, Op, Ask,
         Return, Goto, NoOp, midiVars, histVars
<1>9. MidiOK' /\ cache'[Config] = asked'
  BY Merging
     DEF TypeOK, SettingsInv, CallOK, ConfigOK, MidiOK, ModeOf, Op, Ask, Return,
         Goto, NoOp, midiVars, histVars
<1> QED
  BY <1>1, <1>2, <1>3, <1>4, <1>5, <1>6, <1>7, <1>8, <1>9 DEF SettingsInv

(* What the device answered is kept in the cache.                          *)
LEMMA KeepStep ==
  ASSUME TypeOK, SettingsInv, NEW t \in Thread, Keep(t)
  PROVE  SettingsInv'
<1> USE DEF Config
<1>1. WordsOK'
  BY SettingNames, BitNames, Merging
     DEF TypeOK, SettingsInv, WordsOK, CallOK, ConfigOK, Op, Keep, SpoiledAfter,
         Return, Goto, NoOp, midiVars, histVars
<1>2. ASSUME NEW u \in Thread PROVE CallOK(u)'
  BY SettingNames
     DEF TypeOK, SettingsInv, WordsOK, CallOK, Op, Keep, SpoiledAfter, Return,
         Goto, NoOp, midiVars, histVars
<1>3. ASSUME NEW u \in Thread PROVE AloneOK(u)'
  BY DEF TypeOK, SettingsInv, AloneOK, Working, Op, Keep, SpoiledAfter, Return,
         Goto, NoOp, midiVars, histVars
<1>4. ASSUME NEW u \in Thread PROVE WordOK(u)'
  BY Merging
     DEF TypeOK, SettingsInv, CallOK, AloneOK, WordOK, Working, Whole, Op, Keep,
         SpoiledAfter, Return, Goto, NoOp, midiVars, histVars
<1>5. ASSUME NEW u \in Thread PROVE ConfigOK(u)'
  BY Merging
     DEF TypeOK, SettingsInv, CallOK, ConfigOK, Holding, Op, Keep, SpoiledAfter,
         Return, Goto, NoOp, midiVars, histVars
<1>6. ASSUME NEW s \in Setting PROVE CacheOK(s)'
  BY DEF TypeOK, SettingsInv, CallOK, AloneOK, WordOK, ConfigOK, CacheOK,
         WillStore, Working, Whole, Op, Keep, SpoiledAfter, Return, Goto, NoOp,
         midiVars, histVars
<1>7. ASSUME NEW s \in Setting PROVE ToldOK(s)'
  BY DEF TypeOK, SettingsInv, CallOK, AloneOK, WordOK, ToldOK, WillTell,
         Working, Op, Keep, SpoiledAfter, Return, Goto, NoOp, midiVars, histVars
<1>8. ToldConfigOK'
  BY DEF TypeOK, SettingsInv, CallOK, ConfigOK, ToldConfigOK, Holding, Op, Keep,
         SpoiledAfter, Return, Goto, NoOp, midiVars, histVars
<1>9. MidiOK' /\ cache'[Config] = asked'
  BY Merging
     DEF TypeOK, SettingsInv, CallOK, ConfigOK, MidiOK, ModeOf, Op, Keep,
         SpoiledAfter, Return, Goto, NoOp, midiVars, histVars
<1> QED
  BY <1>1, <1>2, <1>3, <1>4, <1>5, <1>6, <1>7, <1>8, <1>9 DEF SettingsInv

(* The probe starts the MIDI input itself.                                 *)
LEMMA StopgapStep ==
  ASSUME TypeOK, SettingsInv, NEW t \in Thread, Stopgap(t)
  PROVE  SettingsInv'
<1> USE DEF Config
<1>1. WordsOK'
  BY SettingNames, BitNames, Merging
     DEF TypeOK, SettingsInv, WordsOK, CallOK, ConfigOK, Op, Stopgap, Return,
         Goto, NoOp, midiVars, histVars
<1>2. ASSUME NEW u \in Thread PROVE CallOK(u)'
  BY SettingNames
     DEF TypeOK, SettingsInv, WordsOK, CallOK, Op, Stopgap, Return, Goto, NoOp,
         midiVars, histVars
<1>3. ASSUME NEW u \in Thread PROVE AloneOK(u)'
  BY DEF TypeOK, SettingsInv, AloneOK, Working, Op, Stopgap, Return, Goto, NoOp,
         midiVars, histVars
<1>4. ASSUME NEW u \in Thread PROVE WordOK(u)'
  BY Merging
     DEF TypeOK, SettingsInv, CallOK, AloneOK, WordOK, Working, Whole, Op,
         Stopgap, Return, Goto, NoOp, midiVars, histVars
<1>5. ASSUME NEW u \in Thread PROVE ConfigOK(u)'
  BY Merging
     DEF TypeOK, SettingsInv, CallOK, ConfigOK, Holding, Op, Stopgap, Return,
         Goto, NoOp, midiVars, histVars
<1>6. ASSUME NEW s \in Setting PROVE CacheOK(s)'
  BY DEF TypeOK, SettingsInv, CallOK, AloneOK, WordOK, ConfigOK, CacheOK,
         WillStore, Working, Whole, Op, Stopgap, Return, Goto, NoOp, midiVars,
         histVars
<1>7. ASSUME NEW s \in Setting PROVE ToldOK(s)'
  BY DEF TypeOK, SettingsInv, CallOK, AloneOK, WordOK, ToldOK, WillTell,
         Working, Op, Stopgap, Return, Goto, NoOp, midiVars, histVars
<1>8. ToldConfigOK'
  BY DEF TypeOK, SettingsInv, CallOK, ConfigOK, ToldConfigOK, Holding, Op,
         Stopgap, Return, Goto, NoOp, midiVars, histVars
<1>9. MidiOK' /\ cache'[Config] = asked'
  BY Merging
     DEF TypeOK, SettingsInv, CallOK, ConfigOK, MidiOK, ModeOf, Op, Stopgap,
         Return, Goto, NoOp, midiVars, histVars
<1> QED
  BY <1>1, <1>2, <1>3, <1>4, <1>5, <1>6, <1>7, <1>8, <1>9 DEF SettingsInv


-----------------------------------------------------------------------------
(* A call begins: nobody else is at work on its setting if it is alone,    *)
(* and nothing but its own word is new.                                    *)
LEMMA BeginStep ==
  ASSUME TypeOK, SettingsInv, NEW t \in Thread, NEW s \in Setting, NEW label \in Label,
         NEW value \in SUBSET AllBits, NEW mask \in SUBSET AllBits,
         NEW tell \in SUBSET AllBits,
         GoodCall(s, value, mask, tell, label), Begin(t, s, value, mask, tell, label),
         UNCHANGED <<device, cache, told, config_mutex, histVars>>,
         unsettled' \/ UNCHANGED <<midi_mode, device_midi, unsettled>>
  PROVE  SettingsInv'
<1> USE DEF Config
<1>1. /\ op'[t] = [NoOp EXCEPT !.setting = s, !.value = value, !.mask = mask,
                               !.tell = tell, !.alone = s = Config \/ ~Busy(s)]
      /\ op'[t].setting = s /\ op'[t].value = value /\ op'[t].mask = mask
      /\ op'[t].tell = tell /\ ~op'[t].failed /\ pc'[t] = label /\ pc[t] = "idle"
      /\ op'[t].alone = (s = Config \/ ~Busy(s))
      /\ label \in {"down", "send", "ask"} /\ (label = "down" <=> s = Config)
  BY DEF TypeOK, Begin, Goto, NoOp, GoodCall
<1>2. ASSUME NEW u \in Thread \ {t}
      PROVE  /\ pc'[u] = pc[u]
             /\ op'[u].setting = op[u].setting /\ op'[u].value = op[u].value
             /\ op'[u].mask = op[u].mask /\ op'[u].tell = op[u].tell
             /\ op'[u].old = op[u].old /\ op'[u].failed = op[u].failed
             /\ op'[u].alone => op[u].alone
             /\ op'[u].alone /\ pc[u] # "idle" /\ op[u].setting = s => s = Config
  BY DEF TypeOK, Begin, Goto, Op
<1>3. WordsOK'
  BY DEF SettingsInv, WordsOK
<1>4. ASSUME NEW u \in Thread PROVE CallOK(u)'
  <2>1. CASE u = t
    BY <2>1, <1>1 DEF CallOK, GoodCall
  <2>2. CASE u # t
    BY <2>2, <1>2 DEF SettingsInv, CallOK
  <2> QED  BY <2>1, <2>2
<1>5. ASSUME NEW u \in Thread PROVE AloneOK(u)'
  <2> SUFFICES ASSUME NEW w \in Thread, w # u, op'[u].alone, op'[u].setting # Config,
                      Working(u, op[u].setting)', op'[w].setting = op'[u].setting,
                      pc'[w] \notin {"idle", "stopgap"}
               PROVE  FALSE
    BY DEF AloneOK, Working
  <2>1. CASE u = t
    <3>1. ~Busy(s) /\ pc[w] # "idle" /\ op[w].setting = s
      BY <2>1, <1>1, <1>2
    <3> QED  BY <3>1 DEF Busy
  <2>2. CASE w = t
    BY <2>2, <1>1, <1>2 DEF Working
  <2>3. CASE u # t /\ w # t
    <3>1. Working(u, op[u].setting) /\ Working(w, op[u].setting) /\ op[u].alone
      BY <2>3, <1>2 DEF Working
    <3> QED  BY <2>3, <3>1, <1>2 DEF SettingsInv, AloneOK
  <2> QED  BY <2>1, <2>2, <2>3
<1>6. ASSUME NEW u \in Thread PROVE WordOK(u)'
  <2>1. CASE u = t
    BY <2>1, <1>1 DEF WordOK, GoodCall
  <2>2. CASE u # t
    BY <2>2, <1>2 DEF SettingsInv, WordOK, Whole, histVars
  <2> QED  BY <2>1, <2>2
<1>7. ASSUME NEW u \in Thread PROVE ConfigOK(u)'
  <2>1. CASE u = t
    BY <2>1, <1>1 DEF ConfigOK, Holding
  <2>2. CASE u # t
    BY <2>2, <1>2 DEF SettingsInv, ConfigOK, Holding, histVars
  <2> QED  BY <2>1, <2>2
<1>8. ASSUME NEW u \in Thread, NEW r \in Setting
      PROVE  /\ WillStore(u, r) => WillStore(u, r)'
             /\ WillTell(u, r) => WillTell(u, r)'
             /\ op[u].setting = Config /\ pc[u] \in {"stop", "start", "notify"} =>
                  op'[u].setting = Config /\ pc'[u] = pc[u]
  BY <1>1, <1>2 DEF WillStore, WillTell
<1>9. ASSUME NEW r \in Setting PROVE CacheOK(r)' /\ ToldOK(r)'
  BY <1>8 DEF SettingsInv, CacheOK, ToldOK, histVars
<1>10. ToldConfigOK'
  BY <1>8, SettingNames DEF SettingsInv, ToldConfigOK, histVars
<1>11. MidiOK' /\ cache'[Config] = asked'
  BY DEF SettingsInv, MidiOK, histVars
<1> QED
  BY <1>3, <1>4, <1>5, <1>6, <1>7, <1>9, <1>10, <1>11 DEF SettingsInv

LEMMA ClientStep ==
  ASSUME TypeOK, SettingsInv, NEW c \in Client, Call(c)
  PROVE  SettingsInv'
<1>1. PICK s \in Setting, label \in Label, value, mask, tell \in SUBSET AllBits :
        /\ GoodCall(s, value, mask, tell, label)
        /\ ClientBegin(c, s, value, mask, tell, label)
  BY CallBegins DEF SettingsInv, Begins
<1>2. c \in Thread
  BY DEF Thread
<1> QED  BY <1>1, <1>2, BeginStep DEF ClientBegin, midiVars

LEMMA ProbeBulkStep ==
  ASSUME TypeOK, SettingsInv, ProbeBulk
  PROVE  SettingsInv'
<1> DEFINE word == cache[Config] \cup {"enable"}
<1>1. /\ Probe \in Thread /\ Config \in Setting /\ "down" \in Label
      /\ Bits(Config) = {"midi", "att", "enable"} /\ Bits(Config) \subseteq AllBits
  BY SettingNames, BitNames DEF Thread, Config, Label
<1>2. word \subseteq Bits(Config)
  BY <1>1 DEF SettingsInv, WordsOK
<1>3. GoodCall(Config, word, {"enable"}, {}, "down")
  BY <1>1, <1>2 DEF GoodCall
<1>4. Begin(Probe, Config, word, {"enable"}, {}, "down")
  BY DEF ProbeBulk, Config
<1>5. {word, {"enable"}, {}} \subseteq SUBSET AllBits
  BY <1>1, <1>2
<1> HIDE DEF word
<1> QED  BY <1>1, <1>3, <1>4, <1>5, BeginStep DEF ProbeBulk, histVars

LEMMA ProbeMidiStep ==
  ASSUME TypeOK, SettingsInv, ProbeMidi
  PROVE  SettingsInv'
<1>1. /\ Probe \in Thread /\ Config \in Setting /\ "down" \in Label
      /\ Bits(Config) = {"midi", "att", "enable"} /\ Bits(Config) \subseteq AllBits
  BY SettingNames, BitNames DEF Thread, Config, Label
<1>2. CASE "bulk" \in probed
  <2>1. Begin(Probe, Config, {"midi"}, {"midi"}, {}, "down")
    BY <1>2 DEF ProbeMidi, Config
  <2>2. GoodCall(Config, {"midi"}, {"midi"}, {}, "down")
    BY <1>1 DEF GoodCall
  <2>3. {{"midi"}, {}} \subseteq SUBSET AllBits
    BY <1>1
  <2> QED  BY <1>1, <2>1, <2>2, <2>3, BeginStep DEF ProbeMidi, histVars
<1>3. CASE "bulk" \notin probed
  <2>1. /\ pc[Probe] = "idle" /\ pc'[Probe] = "stopgap" /\ op' = op /\ unsettled'
        /\ \A u \in Thread \ {Probe} : pc'[u] = pc[u]
        /\ UNCHANGED <<device, cache, told, config_mutex, asked, spoiled, mistold>>
    BY <1>1, <1>3 DEF TypeOK, ProbeMidi, Goto, histVars
  <2>2. ASSUME NEW u \in Thread
        PROVE  CallOK(u)' /\ AloneOK(u)' /\ WordOK(u)' /\ ConfigOK(u)'
    <3>1. AloneOK(u)'
      BY <2>1 DEF SettingsInv, AloneOK, Working
    <3>2. CASE u = Probe
      BY <3>1, <3>2, <2>1 DEF CallOK, WordOK, ConfigOK, Holding
    <3>3. CASE u # Probe
      BY <3>1, <3>3, <2>1 DEF SettingsInv, CallOK, WordOK, Whole, ConfigOK, Holding
    <3> QED  BY <3>2, <3>3
  <2>3. ASSUME NEW s \in Setting PROVE CacheOK(s)' /\ ToldOK(s)'
    BY <2>1 DEF SettingsInv, CacheOK, ToldOK, WillStore, WillTell
  <2>4. ToldConfigOK'
    BY <2>1 DEF SettingsInv, ToldConfigOK
  <2> QED  BY <2>1, <2>2, <2>3, <2>4 DEF SettingsInv, WordsOK, MidiOK
<1> QED  BY <1>2, <1>3

LEMMA StutterStep ==
  ASSUME SettingsInv, UNCHANGED vars
  PROVE  SettingsInv'
BY DEF vars, midiVars, histVars, SettingsInv, WordsOK, CallOK, AloneOK, WordOK, ConfigOK,
       CacheOK, ToldOK, ToldConfigOK, MidiOK, Working, WillStore, WillTell, Whole

LEMMA SettingsStep ==
  ASSUME TypeOK, SettingsInv, [Next]_vars
  PROVE  SettingsInv'
<1>1. ASSUME NEW t \in Thread, Proceed(t) PROVE SettingsInv'
  BY <1>1, SendOkStep, SendFailsStep, StoreStep, ConfigStoreStep, ConfigRestoreStep,
     MidiStopStep, MidiStartStep, NotifyStep, ConfigNotifyStep, AskStep, KeepStep,
     StopgapStep DEF Proceed
<1> QED
  BY <1>1, ClientStep, ConfigDownStep, ProbeBulkStep, ProbeMidiStep, StutterStep DEF Next

LEMMA SettingsInit == Init => SettingsInv
<1> SUFFICES ASSUME Init PROVE SettingsInv
  OBVIOUS
<1>1. PICK style \in SUBSET Bits("crossfader_style") :
        device = [s \in Setting |-> IF s = "crossfader_style" THEN style ELSE {}]
  BY DEF Init
<1>2. /\ \A s \in Setting : device[s] \subseteq Bits(s)
      /\ \A s \in Setting \ {"crossfader_style"} : device[s] = {}
  BY <1>1
<1>3. /\ \A s \in Setting : cache[s] = {} /\ mistold[s] = TRUE
      /\ \A s \in Unreadable \cap Setting : spoiled[s] = TRUE
      /\ \A t \in Thread : pc[t] = "idle" /\ op[t] = NoOp
      /\ unsettled = TRUE /\ asked = {}
  BY DEF Init
<1>4. {Config, "crossfader_style"} \subseteq Unreadable \cap Setting
  BY SettingNames DEF Unreadable, Config
<1>5. WordsOK
  BY <1>2, <1>3 DEF WordsOK
<1>6. \A t \in Thread : CallOK(t) /\ AloneOK(t) /\ WordOK(t) /\ ConfigOK(t)
  BY <1>3 DEF CallOK, AloneOK, WordOK, ConfigOK, Working, Holding
<1>7. \A s \in Setting : CacheOK(s) /\ ToldOK(s)
  BY <1>2, <1>3, <1>4 DEF CacheOK, ToldOK
<1>8. ToldConfigOK /\ MidiOK /\ cache[Config] = asked
  BY <1>3, <1>4 DEF ToldConfigOK, MidiOK
<1> QED
  BY <1>5, <1>6, <1>7, <1>8 DEF SettingsInv

-----------------------------------------------------------------------------
LEMMA TypeInit == Init => TypeOK
<1> SUFFICES ASSUME Init PROVE TypeOK
  OBVIOUS
<1>1. device \in [Setting -> SUBSET AllBits]
  <2>1. PICK style \in SUBSET Bits("crossfader_style") :
          device = [s \in Setting |-> IF s = "crossfader_style" THEN style ELSE {}]
    BY DEF Init
  <2>2. style \subseteq AllBits
    BY SettingNames
  <2> QED  BY <2>1, <2>2
<1>2. NoOp \in Op
  BY SettingNames DEF NoOp, Op
<1> QED
  BY <1>1, <1>2, MaxCallsAssumption DEF Init, TypeOK, Label

LEMMA TypeStep ==
  ASSUME TypeOK, SettingsInv, [Next]_vars
  PROVE  TypeOK'
<1>1. NoOp \in Op
  BY SettingNames DEF NoOp, Op
<1>m. \A word, value, mask \in SUBSET AllBits : Merged(word, value, mask) \in SUBSET AllBits
  BY DEF Merged
<1>o. ASSUME NEW o \in Op, NEW v \in SUBSET AllBits, NEW w \in SUBSET AllBits, NEW b \in BOOLEAN
      PROVE  /\ [o EXCEPT !.value = v] \in Op
             /\ [o EXCEPT !.failed = b] \in Op
             /\ [o EXCEPT !.value = v, !.old = w, !.tell = v] \in Op
  BY DEF Op
<1>p. \A t \in Thread, label \in Label : [pc EXCEPT ![t] = label] \in [Thread -> Label]
  BY DEF TypeOK
<1>q. \A t \in Thread, o \in Op : [op EXCEPT ![t] = o] \in [Thread -> Op]
  BY DEF TypeOK
<1>l. Label = {"idle", "down", "send", "store", "stop", "start", "notify", "ask", "keep",
               "stopgap"}
  BY DEF Label
<1>c. Config \in Setting
  BY SettingNames DEF Config
<1>b. ASSUME NEW t \in Thread, NEW s \in Setting, NEW label \in Label,
             NEW value \in SUBSET AllBits, NEW mask \in SUBSET AllBits,
             NEW tell \in SUBSET AllBits, Begin(t, s, value, mask, tell, label)
      PROVE  pc' \in [Thread -> Label] /\ op' \in [Thread -> Op]
  <2>1. pc' \in [Thread -> Label]
    BY <1>b DEF TypeOK, Begin, Goto
  <2>2. [NoOp EXCEPT !.setting = s, !.value = value, !.mask = mask, !.tell = tell,
                     !.alone = s = "device_config" \/ ~Busy(s)] \in Op
    BY <1>1 DEF Op
  <2>3. \A u \in Thread : op[u] \in Op /\ [op[u] EXCEPT !.alone = FALSE] \in Op
    BY DEF TypeOK, Op
  <2> QED  BY <1>b, <2>1, <2>2, <2>3 DEF Begin
<1>2. ASSUME NEW c \in Client, Call(c) PROVE TypeOK'
  <2>1. PICK s \in Setting, label \in Label, value, mask, tell \in SUBSET AllBits :
          ClientBegin(c, s, value, mask, tell, label)
    BY <1>2, CallBegins DEF SettingsInv, Begins
  <2>2. pc' \in [Thread -> Label] /\ op' \in [Thread -> Op]
    BY <1>b, <2>1 DEF ClientBegin, Thread
  <2>3. calls' \in 0..MaxCalls
    BY <2>1, MaxCallsAssumption DEF ClientBegin, TypeOK
  <2> QED  BY <2>1, <2>2, <2>3 DEF ClientBegin, TypeOK, midiVars, histVars
<1>3. ASSUME ProbeBulk PROVE TypeOK'
  <2>1. "down" \in Label /\ Probe \in Thread /\ "enable" \in AllBits
    BY SettingNames, BitNames DEF Label, Thread
  <2>2. cache[Config] \cup {"enable"} \in SUBSET AllBits /\ {"enable"} \in SUBSET AllBits
    BY <1>c, <2>1 DEF TypeOK
  <2>3. Begin(Probe, Config, cache[Config] \cup {"enable"}, {"enable"}, {}, "down")
    BY <1>3 DEF ProbeBulk, Config
  <2>4. pc' \in [Thread -> Label] /\ op' \in [Thread -> Op]
    <3> DEFINE word == cache[Config] \cup {"enable"}
    <3>1. word \in SUBSET AllBits /\ {} \in SUBSET AllBits
      BY <2>2
    <3>2. Begin(Probe, Config, word, {"enable"}, {}, "down")
      BY <2>3
    <3> HIDE DEF word
    <3> QED  BY <1>b, <1>c, <2>1, <2>2, <3>1, <3>2
  <2> QED  BY <1>3, <2>4 DEF ProbeBulk, TypeOK, histVars
<1>4. ASSUME ProbeMidi PROVE TypeOK'
  <2>1. {"down", "stopgap"} \subseteq Label /\ Probe \in Thread /\ "midi" \in AllBits
    BY SettingNames, BitNames DEF Label, Thread
  <2>2. pc' \in [Thread -> Label] /\ op' \in [Thread -> Op]
    <3>1. CASE "bulk" \in probed
      <4>1. Begin(Probe, Config, {"midi"}, {"midi"}, {}, "down")
        BY <1>4, <3>1 DEF ProbeMidi, Config
      <4> QED  BY <1>b, <1>c, <2>1, <4>1
    <3>2. CASE "bulk" \notin probed
      BY <1>4, <1>p, <2>1, <3>2 DEF ProbeMidi, TypeOK, Goto
    <3> QED  BY <3>1, <3>2
  <2> QED  BY <1>4, <2>2 DEF ProbeMidi, TypeOK, histVars
<1>5. ASSUME NEW t \in Thread, ConfigDown(t) PROVE TypeOK'
  <2>1. Merged(cache["device_config"], op[t].value, op[t].mask) \in SUBSET AllBits
    <3>1. /\ cache["device_config"] \in SUBSET AllBits
          /\ op[t].value \in SUBSET AllBits /\ op[t].mask \in SUBSET AllBits
      BY <1>c DEF TypeOK, Op, Config
    <3> QED  BY <3>1, <1>m
  <2>2. cache["device_config"] \in SUBSET AllBits /\ op[t] \in Op
    BY <1>c DEF TypeOK, Config
  <2>3. op' \in [Thread -> Op] /\ pc' \in [Thread -> Label]
    BY <1>5, <1>o, <1>p, <1>q, <1>l, <2>1, <2>2 DEF ConfigDown, Goto
  <2> QED  BY <1>5, <2>3 DEF ConfigDown, TypeOK, midiVars, histVars
<1>6. ASSUME NEW t \in Thread, SendOk(t) \/ SendFails(t) PROVE TypeOK'
  <2>1. Taken(t) \in SUBSET AllBits
    BY <1>6, <1>m DEF TypeOK, Op, SendOk, SendFails, Taken
  <2>2. CASE SendOk(t)
    BY <2>1, <2>2 DEF SendOk, TypeOK, Label, Goto, midiVars, histVars
  <2>3. CASE SendFails(t)
    <3>1. op' \in [Thread -> Op] /\ pc' \in [Thread -> Label]
      <4>1. [op[t] EXCEPT !.failed = TRUE] \in Op
        BY <1>o DEF TypeOK
      <4>2. \E o \in {NoOp, [op[t] EXCEPT !.failed = TRUE]} : op' = [op EXCEPT ![t] = o]
        BY <2>3 DEF SendFails, Goto, Return
      <4>3. \E label \in {"store", "idle"} : pc' = [pc EXCEPT ![t] = label]
        BY <2>3 DEF SendFails, Goto, Return
      <4>4. op' \in [Thread -> Op]
        BY <1>1, <1>q, <4>1, <4>2
      <4> QED  BY <1>p, <1>l, <4>3, <4>4
    <3>2. device' \in [Setting -> SUBSET AllBits]
      BY <2>1, <2>3 DEF SendFails, TypeOK
    <3>3. spoiled' \in [Setting -> BOOLEAN] /\ mistold' \in [Setting -> BOOLEAN]
      BY <2>3 DEF SendFails, TypeOK
    <3> QED  BY <2>3, <3>1, <3>2, <3>3 DEF SendFails, TypeOK, midiVars
  <2> QED  BY <1>6, <2>2, <2>3
<1>7. ASSUME NEW t \in Thread, Store(t) \/ ConfigStore(t) \/ Keep(t) PROVE TypeOK'
  <2>1. SpoiledAfter(t) \in [Setting -> BOOLEAN] /\ op[t].value \in SUBSET AllBits
    BY DEF TypeOK, Op, SpoiledAfter
  <2>2. CASE Store(t)
    BY <2>1, <2>2 DEF Store, TypeOK, Label, Goto, midiVars
  <2>3. CASE ConfigStore(t)
    <3>1. asked' \in SUBSET AllBits
      BY <1>m, <2>3 DEF ConfigStore, TypeOK, Op
    <3>2. op' \in [Thread -> Op] /\ pc' \in [Thread -> Label]
      <4>1. [op[t] EXCEPT !.failed = "midi" \notin probed] \in Op
        BY <1>o DEF TypeOK
      <4>2. /\ \/ op' = op
               \/ op' = [op EXCEPT ![t] = [op[t] EXCEPT !.failed = "midi" \notin probed]]
            /\ \E label \in {"stop", "notify"} : pc' = [pc EXCEPT ![t] = label]
        BY <2>3 DEF ConfigStore, Goto
      <4> QED  BY <1>p, <1>q, <1>l, <4>1, <4>2 DEF TypeOK
    <3> QED  BY <2>1, <2>3, <3>1, <3>2 DEF ConfigStore, TypeOK
  <2>4. CASE Keep(t)
    BY <1>1, <2>1, <2>4 DEF Keep, TypeOK, Label, Goto, Return, midiVars
  <2> QED  BY <1>7, <2>2, <2>3, <2>4
<1>8. ASSUME NEW t \in Thread, ConfigRestore(t) \/ ConfigNotify(t) \/ Notify(t) PROVE TypeOK'
  <2>1. op' \in [Thread -> Op] /\ pc' \in [Thread -> Label]
    BY <1>1, <1>8 DEF ConfigRestore, ConfigNotify, Notify, Leave, TypeOK, Label, Goto, Return
  <2>2. op[t].old \in SUBSET AllBits /\ op[t].tell \in SUBSET AllBits
    BY DEF TypeOK, Op
  <2> QED
    BY <1>8, <2>1, <2>2 DEF ConfigRestore, ConfigNotify, Notify, TypeOK, Op, midiVars, histVars
<1>9. ASSUME NEW t \in Thread, MidiStop(t) \/ MidiStart(t) \/ Stopgap(t) PROVE TypeOK'
  <2>1. op' \in [Thread -> Op] /\ pc' \in [Thread -> Label]
    <3>1. [op[t] EXCEPT !.failed = TRUE] \in Op
      BY <1>o DEF TypeOK
    <3>2. \/ op' = op
          \/ \E o \in {NoOp, [op[t] EXCEPT !.failed = TRUE]} : op' = [op EXCEPT ![t] = o]
      BY <1>9 DEF MidiStop, MidiStart, Stopgap, Return
    <3>3. \E label \in {"start", "notify", "idle"} : pc' = [pc EXCEPT ![t] = label]
      BY <1>9 DEF MidiStop, MidiStart, Stopgap, Goto, Return
    <3>4. op' \in [Thread -> Op]
      <4>1. CASE op' = op
        BY <4>1 DEF TypeOK
      <4> QED  BY <1>1, <1>q, <3>1, <3>2, <4>1
    <3> QED  BY <1>p, <1>l, <3>3, <3>4
  <2> QED  BY <1>9, <2>1 DEF MidiStop, MidiStart, Stopgap, ModeOf, TypeOK, histVars
<1>10. ASSUME NEW t \in Thread, Ask(t) PROVE TypeOK'
  <2>1. device[op[t].setting] \in SUBSET AllBits
    BY DEF TypeOK, Op
  <2>2. op' \in [Thread -> Op] /\ pc' \in [Thread -> Label]
    <3>1. [op[t] EXCEPT !.value = device[op[t].setting]] \in Op
      BY <1>o, <2>1 DEF TypeOK
    <3>2. /\ \/ op' = [op EXCEPT ![t] = NoOp]
             \/ op' = [op EXCEPT ![t] = [op[t] EXCEPT !.value = device[op[t].setting]]]
          /\ \E label \in {"keep", "idle"} : pc' = [pc EXCEPT ![t] = label]
      BY <1>10 DEF Ask, Goto, Return
    <3> QED  BY <1>1, <1>p, <1>q, <1>l, <3>1, <3>2
  <2> QED  BY <1>10, <2>2 DEF Ask, TypeOK, midiVars, histVars
<1>11. CASE UNCHANGED vars
  BY <1>11 DEF vars, TypeOK, midiVars, histVars
<1> QED
  BY <1>2, <1>3, <1>4, <1>5, <1>6, <1>7, <1>8, <1>9, <1>10, <1>11 DEF Next, Proceed

(* The settings keep their types, and the cache, the device and what       *)
(* clients were told stand to each other as SettingsInv says: for any      *)
(* clients, and however many calls they make.                              *)
THEOREM SettingsCorrect == Spec => [](TypeOK /\ SettingsInv)
<1>1. Init => TypeOK /\ SettingsInv
  BY TypeInit, SettingsInit
<1>2. TypeOK /\ SettingsInv /\ [Next]_vars => (TypeOK /\ SettingsInv)'
  BY TypeStep, SettingsStep
<1> QED  BY <1>1, <1>2, PTL DEF Spec

(* What a client is answered from the cache is what the device has, once   *)
(* nobody is at work on the setting, unless calls without a mutex          *)
(* overlapped or a write failed since the last whole call.                 *)
THEOREM AnswersCorrect == Spec => []AnswersTrue
<1>1. TypeOK /\ SettingsInv => AnswersTrue
  <2> SUFFICES ASSUME TypeOK, SettingsInv, NEW s \in SettingsOf(product), Quiet(s),
                      ~spoiled[s], s = "sample_rate" => product # "mk2"
               PROVE  CachedAnswer(s) = Common(s, device[s])
    BY DEF AnswersTrue
  <2>1. s \in Setting
    BY SettingNames DEF TypeOK
  <2>2. cache[s] = device[s]
    BY <2>1 DEF SettingsInv, CacheOK, Quiet, Busy, WillStore
  <2>3. CASE s = "sample_rate"
    <3>1. CachedAnswer(s) = cache[s]
      BY <2>3 DEF CachedAnswer, CachedSampleRate, TypeOK, Product
    <3> QED  BY <2>2, <2>3, <3>1 DEF Common
  <2>4. CASE s = "device_config"
    <3>1. CachedAnswer(s) = cache[s]
      BY <2>4 DEF CachedAnswer, ShownConfig
    <3> QED  BY <2>2, <2>4, <3>1 DEF Common
  <2>5. CASE s \notin {"sample_rate", "device_config"}
    <3>1. CachedAnswer(s) = Common(s, cache[s])
      BY <2>5 DEF CachedAnswer
    <3> QED  BY <2>2, <3>1
  <2> QED  BY <2>3, <2>4, <2>5
<1> QED  BY <1>1, SettingsCorrect, PTL

(* What clients were told last is what the device has, and of a            *)
(* configuration, which it cannot tell, what ioctl shows of it.            *)
THEOREM ToldCorrect == Spec => []ToldTrue
<1>1. TypeOK /\ SettingsInv => ToldTrue
  <2> SUFFICES ASSUME TypeOK, SettingsInv PROVE ToldTrue
    OBVIOUS
  <2>1. ASSUME NEW s \in SettingsOf(product) \ {"device_config"}, Quiet(s), ~mistold[s]
        PROVE  told[s] = Common(s, device[s])
    <3>1. s \in Setting /\ s # Config
      BY SettingNames DEF TypeOK, Config
    <3> QED  BY <2>1, <3>1 DEF SettingsInv, ToldOK, Quiet, Busy, WillTell
  <2>2. ASSUME config_mutex = NoOne, ~mistold["device_config"]
        PROVE  told["device_config"] = cache["device_config"]
    <3>1. \A t \in Thread : ~(op[t].setting = Config /\ pc[t] \in Holding)
      BY <2>2, ClientAssumption DEF SettingsInv, ConfigOK, Thread
    <3> QED  BY <2>2, <3>1 DEF SettingsInv, ToldConfigOK, Config, Holding
  <2>3. ShownConfig(FALSE) \subseteq cache["device_config"]
    BY DEF ShownConfig
  <2> QED  BY <2>1, <2>2, <2>3 DEF ToldTrue
<1> QED  BY <1>1, SettingsCorrect, PTL

(* No call on the configuration loses the bits of another, and a call that *)
(* fails leaves none: the cache is the merge of the calls that succeeded.  *)
THEOREM ConfigCorrect == Spec => []ConfigAsAsked
<1>1. SettingsInv => ConfigAsAsked
  BY DEF SettingsInv, ConfigAsAsked, Config
<1> QED  BY <1>1, SettingsCorrect, PTL

(* The MIDI input runs in the mode of the configuration, once the change   *)
(* of the mode is over and no request of it has failed.                    *)
THEOREM MidiModeCorrect == Spec => []MidiModeAgrees
<1>1. SettingsInv => MidiModeAgrees
  BY DEF SettingsInv, MidiOK, MidiModeAgrees, Config
<1> QED  BY <1>1, SettingsCorrect, PTL
=============================================================================
