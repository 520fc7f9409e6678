---------------------------- MODULE StreamsProofs ----------------------------
(***************************************************************************)
(* What is proved of the input URBs, for any number of interfaces and of   *)
(* URBs: submission is forbidden exactly as often as something asks for    *)
(* it, no URB flies while the device sleeps, and nothing touches what a    *)
(* disconnect has freed.                                                   *)
(***************************************************************************)
EXTENDS UsbStreams, FiniteSetTheorems, SequenceTheorems, TLAPS

-----------------------------------------------------------------------------
(* Lists of steps.                                                         *)
Good(s, p) == s \in Seq(Step) /\ Follows(s) /\ Belongs(s, p)

LEMMA OneMore == \A a, b, k \in Int : a = b + 1 /\ k + 1 = a => k = b
  OBVIOUS

(* What is left when the first step is taken.                              *)
LEMMA GoodTail ==
  ASSUME NEW p, NEW s \in Seq(Step), s # <<>>, Good(s, p)
  PROVE  /\ Good(Tail(s), p)
         /\ Head(s) \in Step
         /\ \A x : In(x, s) => x = Head(s) \/ In(x, Tail(s))
         /\ Head(s) = Do("del") => In(Do("kill"), Tail(s))
         /\ Head(s).do = "free" => Tail(s) = <<>>
         /\ Head(s).do \in {"shut", "free"} => p = "gone"
         /\ Head(s).do = "check" => p = "probe"
<1>1. /\ Tail(s) \in Seq(Step) /\ Len(Tail(s)) = Len(s) - 1 /\ Len(s) \in Nat \ {0}
      /\ \A i \in 1..Len(Tail(s)) : Tail(s)[i] = s[i + 1]
      /\ Head(s) = s[1] /\ Head(s) \in Step
  BY HeadTailProperties, LenProperties, EmptySeq
<1>0. Len(Tail(s)) \in Nat /\ Len(s) = Len(Tail(s)) + 1
  <2>1. Len(Tail(s)) \in Nat
    BY <1>1, LenProperties
  <2> QED BY <1>1, <2>1
<1>2. Follows(Tail(s))
  <2>1. SUFFICES ASSUME NEW k \in 1..Len(Tail(s))
                 PROVE  /\ Tail(s)[k].do = "del" =>
                             k < Len(Tail(s)) /\ Tail(s)[k + 1] = Do("kill")
                        /\ Tail(s)[k].do = "free" => k = Len(Tail(s))
    BY DEF Follows
  <2>2. k + 1 \in 1..Len(s) /\ Tail(s)[k] = s[k + 1]
    BY <1>1
  <2>3. /\ s[k + 1].do = "del" => k + 1 < Len(s) /\ s[k + 1 + 1] = Do("kill")
        /\ s[k + 1].do = "free" => k + 1 = Len(s)
    BY <2>2 DEF Good, Follows
  <2>4. k + 1 < Len(s) => k + 1 \in 1..Len(Tail(s)) /\ k < Len(Tail(s))
    BY <1>0
  <2>5. k + 1 < Len(s) => Tail(s)[k + 1] = s[k + 1 + 1]
    BY <1>1, <2>4
  <2>6. k + 1 = Len(s) => k = Len(Tail(s))
    <3>1. Len(s) \in Int /\ Len(Tail(s)) \in Int /\ k \in Int
      BY <1>0
    <3> QED BY <1>0, <3>1, OneMore, Zenon
  <2> QED BY <2>2, <2>3, <2>4, <2>5, <2>6
<1>3. Belongs(Tail(s), p)
  <2>1. SUFFICES ASSUME NEW k \in 1..Len(Tail(s))
                 PROVE  /\ Tail(s)[k].do \in {"shut", "free"} => p = "gone"
                        /\ Tail(s)[k].do = "check" => p = "probe"
    BY DEF Belongs
  <2>2. k + 1 \in 1..Len(s) /\ Tail(s)[k] = s[k + 1]
    BY <1>1
  <2> QED BY <2>2 DEF Good, Belongs
<1>4. ASSUME NEW x, In(x, s) PROVE x = Head(s) \/ In(x, Tail(s))
  <2>1. PICK k \in 1..Len(s) : s[k] = x
    BY <1>4 DEF In
  <2>2. CASE k = 1
    BY <1>1, <2>1, <2>2
  <2>3. CASE k # 1
    <3>1. k - 1 \in 1..Len(Tail(s)) /\ Tail(s)[k - 1] = s[k - 1 + 1]
      BY <1>1, <2>3
    <3>2. k - 1 + 1 = k
      OBVIOUS
    <3> QED BY <2>1, <3>1, <3>2 DEF In
  <2> QED BY <2>2, <2>3
<1>5. 1 \in 1..Len(s)
  BY <1>1
<1>6. ASSUME Head(s) = Do("del") PROVE In(Do("kill"), Tail(s))
  <2>1. s[1].do = "del"
    BY <1>1, <1>6 DEF Do
  <2>2. 1 < Len(s) /\ s[1 + 1] = Do("kill")
    BY <1>5, <2>1 DEF Good, Follows
  <2>3. 1 \in 1..Len(Tail(s)) /\ Tail(s)[1] = s[1 + 1]
    BY <1>1, <2>2
  <2> QED BY <2>2, <2>3 DEF In
<1>7. ASSUME Head(s).do = "free" PROVE Tail(s) = <<>>
  <2>1. 1 = Len(s)
    BY <1>1, <1>5, <1>7 DEF Good, Follows
  <2>2. Len(Tail(s)) = 0
    <3>1. Len(s) \in Int /\ Len(Tail(s)) \in Int /\ 0 \in Int /\ 0 + 1 = 1
      BY <1>0
    <3> QED BY <1>0, <2>1, <3>1, OneMore, Zenon
  <2> QED BY <1>1, <2>2, EmptySeq
<1>8. /\ Head(s).do \in {"shut", "free"} => p = "gone"
      /\ Head(s).do = "check" => p = "probe"
  BY <1>1, <1>5 DEF Good, Belongs
<1>9. Good(Tail(s), p) /\ Head(s) \in Step
  BY <1>1, <1>2, <1>3 DEF Good
<1>10. \A x : In(x, s) => x = Head(s) \/ In(x, Tail(s))
  BY <1>4, Zenon
<1> QED BY <1>6, <1>7, <1>8, <1>9, <1>10, Zenon

(* One list after another.                                                 *)
NeverFree(s) == \A k \in 1..Len(s) : s[k].do # "free"

LEMMA GoodConcat ==
  ASSUME NEW p, NEW s, NEW t, Good(s, p), Good(t, p), NeverFree(s)
  PROVE  /\ Good(s \o t, p)
         /\ \A x : In(x, s) \/ In(x, t) => In(x, s \o t)
         /\ NeverFree(t) => NeverFree(s \o t)
         /\ s # <<>> => s \o t # <<>> /\ Head(s \o t) = Head(s)
<1>1. s \in Seq(Step) /\ t \in Seq(Step)
  BY DEF Good
<1>2. /\ s \o t \in Seq(Step) /\ Len(s \o t) = Len(s) + Len(t)
      /\ Len(s) \in Nat /\ Len(t) \in Nat
  BY <1>1, ConcatProperties, LenProperties
<1>3. ASSUME NEW k \in 1..Len(s)
      PROVE  k \in 1..Len(s \o t) /\ (s \o t)[k] = s[k]
  BY <1>1, <1>2, ConcatProperties
<1>4. ASSUME NEW k \in 1..Len(t)
      PROVE  k + Len(s) \in 1..Len(s \o t) /\ (s \o t)[k + Len(s)] = t[k]
  <2>1. k + Len(s) \in 1..(Len(s) + Len(t)) /\ ~(k + Len(s) <= Len(s))
        /\ k + Len(s) - Len(s) = k
    BY <1>2
  <2> QED BY <1>1, <1>2, <2>1, ConcatProperties
<1>5. ASSUME NEW k \in 1..Len(s \o t)
      PROVE  k \in 1..Len(s) \/ \E j \in 1..Len(t) : k = j + Len(s)
  <2>1. CASE k <= Len(s)
    BY <1>2, <2>1
  <2>2. CASE ~(k <= Len(s))
    <3>1. k - Len(s) \in 1..Len(t) /\ k = (k - Len(s)) + Len(s)
      BY <1>2, <2>2
    <3> QED BY <3>1
  <2> QED BY <2>1, <2>2
<1>6. Follows(s \o t)
  <2>1. SUFFICES ASSUME NEW k \in 1..Len(s \o t)
                 PROVE  /\ (s \o t)[k].do = "del" =>
                             k < Len(s \o t) /\ (s \o t)[k + 1] = Do("kill")
                        /\ (s \o t)[k].do = "free" => k = Len(s \o t)
    BY DEF Follows
  <2>2. CASE k \in 1..Len(s)
    <3>1. (s \o t)[k] = s[k] /\ s[k].do # "free"
      BY <1>3, <2>2 DEF NeverFree
    <3>2. s[k].do = "del" => k < Len(s) /\ s[k + 1] = Do("kill")
      BY <2>2 DEF Good, Follows
    <3>3. k < Len(s) => k + 1 \in 1..Len(s) /\ k < Len(s \o t)
      BY <1>2, <2>2
    <3>4. k < Len(s) => (s \o t)[k + 1] = s[k + 1]
      BY <1>3, <3>3
    <3> QED BY <3>1, <3>2, <3>3, <3>4
  <2>3. CASE \E j \in 1..Len(t) : k = j + Len(s)
    <3>1. PICK j \in 1..Len(t) : k = j + Len(s)
      BY <2>3
    <3>2. (s \o t)[k] = t[j]
      BY <1>4, <3>1
    <3>3. /\ t[j].do = "del" => j < Len(t) /\ t[j + 1] = Do("kill")
          /\ t[j].do = "free" => j = Len(t)
      BY <3>1 DEF Good, Follows
    <3>4. j < Len(t) => j + 1 \in 1..Len(t) /\ k < Len(s \o t) /\ k + 1 = j + 1 + Len(s)
      BY <1>2, <3>1
    <3>5. j < Len(t) => (s \o t)[k + 1] = t[j + 1]
      BY <1>4, <3>4
    <3>6. j = Len(t) => k = Len(s \o t)
      BY <1>2, <3>1
    <3> QED BY <3>2, <3>3, <3>4, <3>5, <3>6
  <2> QED BY <1>5, <2>2, <2>3
<1>7. ASSUME NEW k \in 1..Len(s \o t)
      PROVE  \/ \E j \in 1..Len(s) : (s \o t)[k] = s[j]
             \/ \E j \in 1..Len(t) : (s \o t)[k] = t[j]
  BY <1>3, <1>4, <1>5
<1>8. Belongs(s \o t, p)
  BY <1>7 DEF Good, Belongs
<1>9. \A x : In(x, s) \/ In(x, t) => In(x, s \o t)
  BY <1>3, <1>4 DEF In
<1>10. NeverFree(t) => NeverFree(s \o t)
  BY <1>7 DEF NeverFree
<1>11. ASSUME s # <<>> PROVE s \o t # <<>> /\ Head(s \o t) = Head(s)
  <2>1. 1 \in 1..Len(s) /\ Head(s) = s[1]
    BY <1>1, <1>11, HeadTailProperties, EmptySeq
  <2>2. 1 \in 1..Len(s \o t) /\ (s \o t)[1] = s[1]
    BY <1>3, <2>1
  <2>3. s \o t # <<>>
    BY <2>2
  <2> QED BY <1>2, <2>1, <2>2, <2>3
<1>12. Good(s \o t, p)
  BY <1>2, <1>6, <1>8 DEF Good
<1> QED BY <1>9, <1>10, <1>11, <1>12, Zenon

(* One step, and one for each URB of the reader.                           *)
LEMMA GoodOne ==
  ASSUME NEW p, NEW w \in {"kill", "start", "run", "stop", "uninit", "shut", "free",
                           "check"},
         w \in {"shut", "free"} => p = "gone", w = "check" => p = "probe"
  PROVE  /\ Good(<<Do(w)>>, p) /\ In(Do(w), <<Do(w)>>)
         /\ w # "free" => NeverFree(<<Do(w)>>)
<1>1. Do(w) \in Step /\ Do(w).do = w
  BY UrbsAssumption DEF Do, Step, Urb
<1>2. <<Do(w)>> \in Seq(Step) /\ Len(<<Do(w)>>) = 1 /\ <<Do(w)>>[1] = Do(w)
  BY <1>1
<1>3. \A k \in 1..Len(<<Do(w)>>) : k = 1
  BY <1>2
<1> QED BY <1>1, <1>2, <1>3 DEF Good, Follows, Belongs, In, NeverFree

LEMMA GoodEach ==
  ASSUME NEW p, NEW w \in {"kill", "start"}
  PROVE  /\ Good(Each(w), p) /\ NeverFree(Each(w))
         /\ \A u \in Reader : In([do |-> w, urb |-> u], Each(w))
<1>1. \A u \in Reader : [do |-> w, urb |-> u] \in Step
  BY DEF Step, Urb
<1>2. Each(w) \in [1..Urbs -> Step] /\ Urbs \in Nat
  BY <1>1, UrbsAssumption DEF Each, Reader
<1>3. Each(w) \in Seq(Step) /\ Len(Each(w)) = Urbs
  BY <1>2
<1>4. \A k \in 1..Len(Each(w)) : Each(w)[k] = [do |-> w, urb |-> k] /\ Each(w)[k].do = w
  BY <1>3 DEF Each, Reader
<1> QED BY <1>3, <1>4 DEF Good, Follows, Belongs, In, NeverFree, Reader

(* The lists of the code.                                                  *)
LEMMA GoodKillMidi ==
  ASSUME NEW p
  PROVE  /\ Good(KillMidi, p) /\ NeverFree(KillMidi)
         /\ In(Do("del"), KillMidi) /\ In(Do("kill"), KillMidi)
<1>1. Do("del") \in Step /\ Do("kill") \in Step
      /\ Do("del").do = "del" /\ Do("kill").do = "kill"
  BY UrbsAssumption DEF Do, Step, Urb
<1>2. /\ KillMidi \in Seq(Step) /\ Len(KillMidi) = 2
      /\ KillMidi[1] = Do("del") /\ KillMidi[2] = Do("kill")
  BY <1>1 DEF KillMidi
<1>3. \A k \in 1..Len(KillMidi) : k = 1 \/ k = 2
  BY <1>2
<1>4. 1 + 1 = 2 /\ 1 \in 1..Len(KillMidi) /\ 2 \in 1..Len(KillMidi) /\ 1 < Len(KillMidi)
  BY <1>2
<1> QED BY <1>1, <1>2, <1>3, <1>4 DEF Good, Follows, Belongs, In, NeverFree

LEMMA GoodThree ==
  ASSUME NEW p, NEW x \in {"start", "run", "stop", "check"},
         NEW y \in {"start", "run", "stop", "check"},
         NEW z \in {"start", "uninit", "check"},
         "check" \in {x, y, z} => p = "probe"
  PROVE  Good(<<Do(x), Do(y), Do(z)>>, p) /\ NeverFree(<<Do(x), Do(y), Do(z)>>)
<1> DEFINE s == <<Do(x), Do(y), Do(z)>>
<1>1. /\ Do(x) \in Step /\ Do(y) \in Step /\ Do(z) \in Step
      /\ Do(x).do = x /\ Do(y).do = y /\ Do(z).do = z
  BY UrbsAssumption DEF Do, Step, Urb
<1>2. /\ s \in Seq(Step) /\ Len(s) = 3
      /\ s[1] = Do(x) /\ s[2] = Do(y) /\ s[3] = Do(z)
  BY <1>1
<1>3. \A k \in 1..Len(s) : k = 1 \/ k = 2 \/ k = 3
  BY <1>2
<1> HIDE DEF s
<1>4. Good(s, p) /\ NeverFree(s)
  BY <1>1, <1>2, <1>3 DEF Good, Follows, Belongs, NeverFree
<1> QED BY <1>4 DEF s

(* Every URB is killed.                                                    *)
KillsAll(s) == \A u \in Urb : In([do |-> "kill", urb |-> u], s)

LEMMA GoodSuspendSteps ==
  ASSUME NEW p
  PROVE  /\ Good(SuspendSteps, p) /\ KillsAll(SuspendSteps)
         /\ In(Do("del"), SuspendSteps)
<1>1. /\ Good(KillMidi \o Each("kill"), p) /\ NeverFree(KillMidi \o Each("kill"))
      /\ \A x : In(x, KillMidi) \/ In(x, Each("kill")) => In(x, KillMidi \o Each("kill"))
  BY GoodKillMidi, GoodEach, GoodConcat
<1>2. Good(<<Do("stop")>>, p)
  BY GoodOne
<1>3. /\ Good(SuspendSteps, p)
      /\ \A x : In(x, KillMidi \o Each("kill")) => In(x, SuspendSteps)
  BY <1>1, <1>2, GoodConcat DEF SuspendSteps
<1>4. ASSUME NEW u \in Urb PROVE In([do |-> "kill", urb |-> u], SuspendSteps)
  <2>1. CASE u \in Reader
    BY <1>1, <1>3, <2>1, GoodEach
  <2>2. CASE u = Midi
    BY <1>1, <1>3, <2>2, GoodKillMidi DEF Do
  <2> QED BY <2>1, <2>2 DEF Urb
<1> QED BY <1>1, <1>3, <1>4, GoodKillMidi DEF KillsAll

LEMMA GoodDisconnectSteps ==
  /\ Good(DisconnectSteps, "gone")
  /\ DisconnectSteps # <<>> /\ Head(DisconnectSteps) = Do("shut")
  /\ KillsAll(DisconnectSteps) /\ In(Do("del"), DisconnectSteps)
  /\ KillsAll(Tail(DisconnectSteps)) /\ In(Do("del"), Tail(DisconnectSteps))
<1> DEFINE a == <<Do("shut")>>
           b == a \o KillMidi
           c == b \o <<Do("stop"), Do("stop"), Do("uninit")>>
           d == c \o Each("kill")
<1>1. Good(a, "gone") /\ NeverFree(a) /\ a # <<>> /\ Head(a) = Do("shut")
  <2>1. Good(a, "gone") /\ NeverFree(a)
    BY GoodOne
  <2> QED BY <2>1
<1> HIDE DEF a
<1>2. /\ Good(b, "gone") /\ NeverFree(b) /\ b # <<>> /\ Head(b) = Do("shut")
      /\ \A x : In(x, KillMidi) => In(x, b)
  BY <1>1, GoodKillMidi, GoodConcat
<1> HIDE DEF b
<1>3. /\ Good(c, "gone") /\ NeverFree(c) /\ c # <<>> /\ Head(c) = Do("shut")
      /\ \A x : In(x, b) => In(x, c)
  BY <1>2, GoodThree, GoodConcat
<1> HIDE DEF c
<1>4. /\ Good(d, "gone") /\ NeverFree(d) /\ d # <<>> /\ Head(d) = Do("shut")
      /\ \A x : In(x, c) \/ In(x, Each("kill")) => In(x, d)
  BY <1>3, GoodEach, GoodConcat
<1> HIDE DEF d
<1>5. Good(<<Do("free")>>, "gone")
  BY GoodOne
<1>6. DisconnectSteps = d \o <<Do("free")>>
  BY DEF DisconnectSteps, a, b, c, d
<1>7. /\ Good(DisconnectSteps, "gone") /\ DisconnectSteps # <<>>
      /\ Head(DisconnectSteps) = Do("shut")
      /\ \A x : In(x, d) => In(x, DisconnectSteps)
  BY <1>4, <1>5, <1>6, GoodConcat
<1>8. In(Do("del"), DisconnectSteps)
  BY <1>2, <1>3, <1>4, <1>7, GoodKillMidi
<1>9. ASSUME NEW u \in Urb PROVE In([do |-> "kill", urb |-> u], DisconnectSteps)
  <2>1. CASE u \in Reader
    BY <1>4, <1>7, <2>1, GoodEach
  <2>2. CASE u = Midi
    BY <1>2, <1>3, <1>4, <1>7, <2>2, GoodKillMidi DEF Do
  <2> QED BY <2>1, <2>2 DEF Urb
<1>10. \A x : In(x, DisconnectSteps) => x = Do("shut") \/ In(x, Tail(DisconnectSteps))
  BY <1>7, GoodTail DEF Good
<1>11. Do("del") # Do("shut") /\ \A u \in Urb : [do |-> "kill", urb |-> u] # Do("shut")
  BY DEF Do
<1> QED BY <1>7, <1>8, <1>9, <1>10, <1>11 DEF KillsAll

-----------------------------------------------------------------------------
(* The counts.                                                             *)
LEMMA WithFinite ==
  \A which : /\ IsFiniteSet(With(which)) /\ Cardinality(With(which)) \in Nat
             /\ Cardinality(With(which)) <= Cardinality(Intf)
             /\ Cardinality(With(which)) = 0 <=> With(which) = {}
<1>1. SUFFICES ASSUME NEW which
               PROVE  /\ IsFiniteSet(With(which)) /\ Cardinality(With(which)) \in Nat
                      /\ Cardinality(With(which)) <= Cardinality(Intf)
                      /\ Cardinality(With(which)) = 0 <=> With(which) = {}
  OBVIOUS
<1>2. With(which) \subseteq Intf
  BY DEF With
<1>3. IsFiniteSet(With(which)) /\ Cardinality(With(which)) <= Cardinality(Intf)
  BY <1>2, IntfAssumption, FS_Subset
<1> QED BY <1>3, FS_CardinalityType, FS_EmptySet

LEMMA Forbidden ==
  ASSUME CountsMatch
  PROVE  no_urb_submission = 0 <=> With("suspended") = {} /\ With("reset") = {}
<1>1. /\ Cardinality(With("reset")) \in Nat
      /\ Cardinality(With("reset")) = 0 <=> With("reset") = {}
  BY WithFinite
<1> QED BY <1>1 DEF CountsMatch

LEMMA CountsTyped ==
  ASSUME CountsMatch
  PROVE  /\ no_urb_submission \in 0..(Cardinality(Intf) + 1)
         /\ num_suspended_intf \in 0..Cardinality(Intf)
<1>1. /\ Cardinality(With("reset")) \in Nat /\ Cardinality(With("suspended")) \in Nat
      /\ Cardinality(With("reset")) <= Cardinality(Intf)
      /\ Cardinality(With("suspended")) <= Cardinality(Intf)
      /\ Cardinality(Intf) \in Nat
  BY WithFinite, IntfAssumption, FS_CardinalityType
<1> QED BY <1>1 DEF CountsMatch

-----------------------------------------------------------------------------
(* The types, but for the counts and the list of steps.                    *)
Flags == {shutdown, error_resubmit, timer, timer_tested, present, freed} \subseteq BOOLEAN
UrbTypes ==
  /\ flight \in [Urb -> {"idle", "flying", "done", "tested"}]
  /\ status \in [Urb -> {"ok", "unlinked", "error"}]
  /\ unlucky \subseteq Urb /\ lost \subseteq Reader
Others ==
  /\ reader_state \in {"CR_UNINIT", "CR_STOPPED", "CR_STARTED"}
  /\ intf \in [Intf -> {"on", "suspended", "reset"}]
  /\ phase \in {"probe", "on", "sleep", "asleep", "wake", "pre", "post", "gone"}
  /\ result \in {"ok", "failed"}
Bounded == rounds \in 0..MaxRounds /\ errors \in 0..MaxErrors /\ failures \in 0..MaxFailures

LEMMA BoundedStep == TypeOK /\ [Next]_vars => Bounded'
<1>1. SUFFICES ASSUME TypeOK, [Next]_vars PROVE Bounded'
  OBVIOUS
<1> USE DEF chipVars, urbVars, timerVars, coreVars, ghostVars
<1>2. ASSUME UNCHANGED <<rounds, errors, failures>> PROVE Bounded'
  BY <1>1, <1>2 DEF TypeOK, Bounded
<1>3. ASSUME NEW u \in Urb, Submit(u), UNCHANGED <<rounds, errors>> PROVE Bounded'
  BY <1>1, <1>3, BoundAssumption DEF Submit, SubmitTaken, SubmitFails, TypeOK, Bounded
<1>4. ASSUME NEW u \in Urb, SubmitTwice(u), UNCHANGED <<rounds, errors>> PROVE Bounded'
  BY <1>1, <1>4 DEF SubmitTwice, TypeOK, Bounded
<1>5. ASSUME NEW u \in Urb, Complete(u) PROVE Bounded'
  BY <1>1, <1>5, BoundAssumption DEF Complete, TypeOK, Bounded
<1>6. ASSUME NEW u \in Urb, Handler(u) PROVE Bounded'
  <2>1. CASE HandlerSubmits(u)
    BY <2>1, <1>3, Zenon DEF HandlerSubmits
  <2>2. CASE ReaderTest(u) \/ MidiTest
    BY <2>2, <1>2, Zenon DEF ReaderTest, MidiTest
  <2> QED BY <1>6, <2>1, <2>2 DEF Handler
<1>7. CASE TimerFires
  BY <1>2, <1>7, Zenon DEF TimerFires
<1>8. CASE TimerSubmits
  <2>1. Midi \in Urb
    BY DEF Urb
  <2> QED BY <1>3, <1>4, <1>8, <2>1 DEF TimerSubmits
<1>9. CASE CallbackStep
  <2>1. CASE Start
    <3>1. Head(todo).urb \in Urb
      <4>1. todo \in Seq(Step) /\ todo # <<>>
        BY <1>1, <2>1 DEF TypeOK, Start, Now
      <4>2. Head(todo) \in Step
        BY <4>1
      <4> QED BY <4>2 DEF Step
    <3>2. Submit(Head(todo).urb) \/ SubmitTwice(Head(todo).urb)
      BY <2>1 DEF Start
    <3>3. UNCHANGED <<rounds, errors>>
      BY <2>1 DEF Start
    <3> QED BY <1>3, <1>4, <3>1, <3>2, <3>3
  <2>2. CASE \/ DelTimer \/ Kill \/ StartReader \/ StopReader \/ UninitReader
             \/ CheckStarted \/ Shutdown \/ Free
    BY <1>2, <2>2, Zenon DEF DelTimer, Kill, StartReader, StopReader, UninitReader,
       CheckStarted, Shutdown, Free
  <2> QED BY <1>9, <2>1, <2>2 DEF CallbackStep
<1>10. ASSUME NEW i \in Intf, hdj_suspend(i) PROVE Bounded'
  <2>1. /\ rounds' = rounds \/ (rounds < MaxRounds /\ rounds' = rounds + 1)
        /\ UNCHANGED <<errors, failures>>
    BY <1>10, Zenon DEF hdj_suspend
  <2>2. /\ rounds \in 0..MaxRounds /\ errors \in 0..MaxErrors
        /\ failures \in 0..MaxFailures /\ MaxRounds \in Nat
    BY <1>1, BoundAssumption DEF TypeOK
  <2> QED BY <2>1, <2>2 DEF Bounded
<1>11. ASSUME NEW i \in Intf, hdj_pre_reset(i) PROVE Bounded'
  <2>1. /\ rounds' = rounds \/ (rounds < MaxRounds /\ rounds' = rounds + 1)
        /\ UNCHANGED <<errors, failures>>
    BY <1>11, Zenon DEF hdj_pre_reset
  <2>2. /\ rounds \in 0..MaxRounds /\ errors \in 0..MaxErrors
        /\ failures \in 0..MaxFailures /\ MaxRounds \in Nat
    BY <1>1, BoundAssumption DEF TypeOK
  <2> QED BY <2>1, <2>2 DEF Bounded
<1>12. ASSUME NEW i \in Intf, hdj_resume(i) \/ hdj_post_reset(i) PROVE Bounded'
  BY <1>2, <1>12, Zenon DEF hdj_resume, hdj_post_reset
<1>13. CASE Probed \/ Unplug \/ Disconnect
  BY <1>2, <1>13, Zenon DEF Probed, Unplug, Disconnect
<1>14. CASE UNCHANGED vars
  BY <1>2, <1>14, Zenon DEF vars
<1> QED BY <1>1, <1>5, <1>6, <1>7, <1>8, <1>9, <1>10, <1>11, <1>12, <1>13, <1>14 DEF Next

LEMMA FlagsStep == Flags /\ CountsMatch /\ [Next]_vars => Flags'
<1>1. SUFFICES ASSUME Flags, [Next]_vars PROVE Flags'
  OBVIOUS
<1>2. CASE UNCHANGED vars
  BY <1>1, <1>2 DEF Flags, vars, chipVars, timerVars, coreVars
<1>3. CASE \E u \in Urb : Complete(u) \/ Handler(u)
  BY <1>1, <1>3, Zenon DEF Flags, Complete, Handler, ReaderTest, MidiTest, HandlerSubmits,
     chipVars, timerVars, coreVars
<1>4. CASE TimerFires \/ TimerSubmits
  BY <1>1, <1>4 DEF Flags, TimerFires, TimerSubmits, chipVars, coreVars, CanSend
<1>5. CASE CallbackStep
  BY <1>1, <1>5 DEF Flags, CallbackStep, DelTimer, Kill, Start, StartReader, StopReader,
     UninitReader, CheckStarted, Shutdown, Free, chipVars, timerVars, coreVars
<1>6. CASE \E i \in Intf : hdj_suspend(i) \/ hdj_resume(i) \/ hdj_pre_reset(i)
                            \/ hdj_post_reset(i)
  <2>1. UNCHANGED <<shutdown, error_resubmit, timer, timer_tested, present, freed>>
    BY <1>6, Zenon DEF hdj_suspend, hdj_resume, hdj_pre_reset, hdj_post_reset, timerVars
  <2> QED BY <1>1, <2>1 DEF Flags
<1>7. CASE Probed \/ Unplug \/ Disconnect
  BY <1>1, <1>7 DEF Flags, Probed, Unplug, Disconnect, chipVars, timerVars
<1> QED BY <1>1, <1>2, <1>3, <1>4, <1>5, <1>6, <1>7 DEF Next
LEMMA HeadUrb ==
  ASSUME todo \in Seq(Step), todo # <<>>
  PROVE  Head(todo) \in Step /\ Head(todo).urb \in Urb
         /\ Head(todo) = [do |-> Head(todo).do, urb |-> Head(todo).urb]
<1>1. Head(todo) \in Step
  BY HeadTailProperties
<1> QED BY <1>1 DEF Step

LEMMA UrbTypesStep == UrbTypes /\ todo \in Seq(Step) /\ [Next]_vars => UrbTypes'
<1>1. SUFFICES ASSUME UrbTypes, todo \in Seq(Step), [Next]_vars PROVE UrbTypes'
  OBVIOUS
<1> USE DEF urbVars, ghostVars
<1>2. ASSUME UNCHANGED <<flight, status, unlucky, lost>> PROVE UrbTypes'
  BY <1>1, <1>2 DEF UrbTypes
<1>3. ASSUME NEW u \in Urb, Submit(u), UNCHANGED status PROVE UrbTypes'
  BY <1>1, <1>3 DEF Submit, SubmitTaken, SubmitFails, UrbTypes
<1>4. ASSUME NEW u \in Urb, SubmitTwice(u), UNCHANGED status PROVE UrbTypes'
  BY <1>2, <1>4 DEF SubmitTwice
<1>5. ASSUME NEW u \in Urb, Complete(u) PROVE UrbTypes'
  BY <1>1, <1>5 DEF Complete, UrbTypes
<1>6. ASSUME NEW u \in Urb, Handler(u) PROVE UrbTypes'
  <2>1. CASE HandlerSubmits(u)
    BY <2>1, <1>3 DEF HandlerSubmits
  <2>2. CASE ReaderTest(u)
    BY <1>1, <2>2 DEF ReaderTest, UrbTypes
  <2>3. CASE MidiTest
    BY <1>1, <2>3 DEF MidiTest, UrbTypes, Urb
  <2> QED BY <1>6, <2>1, <2>2, <2>3 DEF Handler
<1>7. CASE TimerFires
  BY <1>2, <1>7 DEF TimerFires
<1>8. CASE TimerSubmits
  <2>1. Midi \in Urb
    BY DEF Urb
  <2> QED BY <1>3, <1>4, <1>8, <2>1 DEF TimerSubmits
<1>9. CASE CallbackStep
  <2>1. CASE Start
    <3>1. Head(todo).urb \in Urb
      BY <1>1, <2>1, HeadUrb DEF Start, Now
    <3>2. Submit(Head(todo).urb) \/ SubmitTwice(Head(todo).urb)
      BY <2>1 DEF Start
    <3>3. UNCHANGED status
      BY <2>1 DEF Start
    <3> QED BY <1>3, <1>4, <3>1, <3>2, <3>3
  <2>2. CASE Kill
    <3>1. Head(todo).urb \in Urb
      BY <1>1, <2>2, HeadUrb DEF Kill, Now
    <3>2. UNCHANGED <<unlucky, lost>>
      BY <2>2 DEF Kill
    <3>3. \/ flight' = [flight EXCEPT ![Head(todo).urb] = "done"]
            /\ status' = [status EXCEPT ![Head(todo).urb] = "unlinked"]
          \/ UNCHANGED <<flight, status>>
      BY <2>2 DEF Kill
    <3> QED BY <1>1, <3>1, <3>2, <3>3 DEF UrbTypes
  <2>3. CASE \/ DelTimer \/ StartReader \/ StopReader \/ UninitReader
             \/ CheckStarted \/ Shutdown \/ Free
    BY <1>2, <2>3, Zenon DEF DelTimer, StartReader, StopReader, UninitReader,
       CheckStarted, Shutdown, Free
  <2> QED BY <1>9, <2>1, <2>2, <2>3 DEF CallbackStep
<1>10. CASE \E i \in Intf : hdj_suspend(i) \/ hdj_resume(i) \/ hdj_pre_reset(i)
                             \/ hdj_post_reset(i)
  BY <1>2, <1>10, Zenon DEF hdj_suspend, hdj_resume, hdj_pre_reset, hdj_post_reset
<1>11. CASE Probed \/ Unplug \/ Disconnect
  BY <1>2, <1>11, Zenon DEF Probed, Unplug, Disconnect
<1>12. CASE UNCHANGED vars
  BY <1>2, <1>12, Zenon DEF vars
<1> QED BY <1>1, <1>5, <1>6, <1>7, <1>8, <1>9, <1>10, <1>11, <1>12 DEF Next

LEMMA OthersStep == Others /\ [Next]_vars => Others'
<1>1. SUFFICES ASSUME Others, [Next]_vars PROVE Others'
  OBVIOUS
<1> USE DEF coreVars
<1>2. ASSUME UNCHANGED <<reader_state, intf, phase, result>> PROVE Others'
  BY <1>1, <1>2 DEF Others
<1>3. ASSUME UNCHANGED <<reader_state, intf, phase>>, result' \in {"ok", "failed"}
      PROVE Others'
  BY <1>1, <1>3 DEF Others
<1>4. ASSUME NEW u, Submit(u) \/ SubmitTwice(u) PROVE result' \in {"ok", "failed"}
  BY <1>4 DEF Submit, SubmitTaken, SubmitFails, SubmitTwice
<1>5. CASE \E u \in Urb : Complete(u) \/ Handler(u)
  BY <1>2, <1>3, <1>4, <1>5 DEF Complete, Handler, ReaderTest, MidiTest, HandlerSubmits
<1>6. CASE TimerFires \/ TimerSubmits
  BY <1>2, <1>3, <1>4, <1>6 DEF TimerFires, TimerSubmits
<1>7. CASE CallbackStep
  <2>1. CASE Start
    BY <1>3, <1>4, <2>1 DEF Start
  <2>2. CASE DelTimer \/ Kill \/ Shutdown \/ Free
    BY <1>2, <2>2, Zenon DEF DelTimer, Kill, Shutdown, Free
  <2>3. CASE StartReader \/ StopReader \/ UninitReader
    <3>1. /\ UNCHANGED <<intf, phase>> /\ (result' = result \/ result' = "ok")
          /\ \/ reader_state' \in {"CR_STARTED", "CR_STOPPED", "CR_UNINIT"}
             \/ UNCHANGED reader_state
      BY <2>3 DEF StartReader, StopReader, UninitReader
    <3> QED BY <1>1, <3>1 DEF Others
  <2>4. CASE CheckStarted
    BY <1>1, <2>4 DEF CheckStarted, Others
  <2> QED BY <1>7, <2>1, <2>2, <2>3, <2>4 DEF CallbackStep
<1>8. ASSUME NEW i \in Intf,
             \/ hdj_suspend(i) \/ hdj_resume(i) \/ hdj_pre_reset(i) \/ hdj_post_reset(i)
      PROVE  Others'
  <2>0. UNCHANGED <<reader_state, result>>
    BY <1>8, Zenon DEF hdj_suspend, hdj_resume, hdj_pre_reset, hdj_post_reset
  <2>1. phase' \in {"asleep", "sleep", "on", "wake", "post", "pre"}
    <3>1. PICK yes \in {"asleep", "on", "post"}, no \in {"sleep", "wake", "pre", "post"}, which \in {"suspended", "on", "reset"} :
            phase' = IF All(which) THEN yes ELSE no
      BY <1>8, Zenon DEF hdj_suspend, hdj_resume, hdj_pre_reset, hdj_post_reset
    <3>2. phase' = yes \/ phase' = no
      BY <3>1, Zenon
    <3> QED BY <3>2
  <2>2. \E which \in {"suspended", "on", "reset"} : intf' = [intf EXCEPT ![i] = which]
    BY <1>8, Zenon DEF hdj_suspend, hdj_resume, hdj_pre_reset, hdj_post_reset, Set
  <2> QED BY <1>1, <2>0, <2>1, <2>2 DEF Others
<1>9. CASE Probed \/ Unplug \/ Disconnect
  BY <1>1, <1>9 DEF Probed, Unplug, Disconnect, Others
<1>10. CASE UNCHANGED vars
  BY <1>2, <1>10 DEF vars
<1> QED BY <1>1, <1>5, <1>6, <1>7, <1>8, <1>9, <1>10 DEF Next
-----------------------------------------------------------------------------
(* What the steps keep, types apart.                                       *)
Held == /\ CountsMatch /\ PhaseFits /\ Good(todo, phase)
        /\ StilledAsleep /\ StilledGone

LEMMA InNothing == \A x : ~In(x, <<>>)
  BY DEF In

LEMMA GoodNothing == \A p : Good(<<>>, p)
  BY DEF Good, Follows, Belongs

LEMMA DelKill ==
  ASSUME NEW p, NEW s, Good(s, p), In(Do("del"), s)
  PROVE  In([do |-> "kill", urb |-> Midi], s)
<1>1. PICK k \in 1..Len(s) : s[k] = Do("del")
  BY DEF In
<1>2. k < Len(s) /\ s[k + 1] = Do("kill")
  BY <1>1 DEF Good, Follows, Do
<1>3. Len(s) \in Nat
  BY LenProperties DEF Good
<1>4. k + 1 \in 1..Len(s)
  BY <1>2, <1>3
<1> QED BY <1>2, <1>4 DEF In, Do

LEMMA SameIntf ==
  ASSUME UNCHANGED <<intf, no_urb_submission, num_suspended_intf>>
  PROVE  /\ \A which : With(which)' = With(which)
         /\ CountsMatch => CountsMatch'
<1>1. \A which : With(which)' = With(which)
  BY DEF With
<1>2. With("suspended")' = With("suspended") /\ With("reset")' = With("reset")
  BY <1>1
<1> QED BY <1>1, <1>2, Zenon DEF CountsMatch

(* A step that leaves the interfaces and the phase as they are.            *)
LEMMA StayStilled ==
  ASSUME Held, UNCHANGED <<intf, no_urb_submission, num_suspended_intf, shutdown, phase>>,
         Good(todo', phase),
         \A u \in Urb : (no_urb_submission # 0 \/ shutdown) /\ Stilled(u) => Stilled(u)',
         timer_tested' /\ no_urb_submission # 0 => In(Do("del"), todo'),
         phase = "gone" /\ no_urb_submission # 0 =>
            flight[Midi]' = "idle" /\ ~timer_tested',
         shutdown /\ (timer' \/ timer_tested') => In(Do("del"), todo'),
         phase = "gone" /\ ~shutdown => todo' = todo,
         freed' => shutdown /\ todo' = <<>>
  PROVE  Held'
<1>1. /\ With("suspended")' = With("suspended") /\ With("reset")' = With("reset")
      /\ CountsMatch'
  BY SameIntf DEF Held
<1>2. PhaseFits'
  BY <1>1, Zenon DEF Held, PhaseFits
<1>3. With("suspended") # {} \/ With("reset") # {} => no_urb_submission # 0
  BY Forbidden DEF Held
<1>4. StilledAsleep'
  <2>1. Midi \in Urb
    BY DEF Urb
  <2>2. With("suspended") # {} => \A u \in Urb : Stilled(u)'
    BY <1>3, Zenon DEF Held, StilledAsleep
  <2>3. With("reset") # {} => Stilled(Midi)'
    BY <1>3, <2>1, Zenon DEF Held, StilledAsleep
  <2>4. no_urb_submission' = no_urb_submission
    OBVIOUS
  <2> QED BY <1>1, <2>2, <2>3, <2>4, Zenon DEF StilledAsleep
<1>5. StilledGone'
  <2>1. shutdown => phase = "gone" /\ \A u \in Urb : Stilled(u)'
    BY Zenon DEF Held, StilledGone
  <2>2. phase = "gone" /\ ~shutdown => todo' = DisconnectSteps
    BY Zenon DEF Held, StilledGone
  <2>3. /\ shutdown' = shutdown /\ phase' = phase
        /\ no_urb_submission' = no_urb_submission
    OBVIOUS
  <2>4. phase = "gone" /\ no_urb_submission # 0 => flight'[Midi] = "idle" /\ ~timer_tested'
    OBVIOUS
  <2> QED BY <2>1, <2>2, <2>3, <2>4 DEF StilledGone
<1>6. Good(todo, phase)'
  BY DEF Good, Follows, Belongs
<1> QED BY <1>1, <1>2, <1>4, <1>5, <1>6, Zenon DEF Held

(* The host controller and the handlers.                                   *)
LEMMA StilledHandled ==
  ASSUME Held, UrbTypes, NEW u \in Urb, Complete(u) \/ Handler(u)
  PROVE  Held'
<1>1. /\ UNCHANGED <<intf, no_urb_submission, num_suspended_intf, shutdown, phase>>
      /\ UNCHANGED <<todo, freed, timer_tested>>
  BY Zenon DEF Complete, Handler, ReaderTest, MidiTest, HandlerSubmits, chipVars, coreVars,
     timerVars
<1>2. flight[u] # "idle" /\ \A v \in Urb \ {u} : flight'[v] = flight[v]
  BY DEF Complete, Handler, ReaderTest, MidiTest, HandlerSubmits, Submit, SubmitTaken,
     SubmitFails, UrbTypes
<1>3. \A v \in Urb : flight[v] = "idle" => flight'[v] = "idle"
  BY <1>2
<1>4. \A v \in Urb : Stilled(v) => Stilled(v)'
  BY <1>1, <1>3, Zenon DEF Stilled
<1>5. Midi \in Urb
  BY DEF Urb
<1>6. timer' => timer \/ (no_urb_submission # 0 /\ flight[Midi] # "idle")
  BY DEF Complete, Handler, ReaderTest, MidiTest, HandlerSubmits, timerVars
<1>7. timer' /\ shutdown => timer
  BY <1>6, Zenon DEF Held, StilledGone
<1> QED
  <2>1. Good(todo', phase)
    BY <1>1, Zenon DEF Held
  <2>2. timer_tested' /\ no_urb_submission # 0 => In(Do("del"), todo')
    BY <1>1, Zenon DEF Held, StilledAsleep
  <2>3. phase = "gone" /\ no_urb_submission # 0 => flight[Midi]' = "idle" /\ ~timer_tested'
    BY <1>1, <1>3, <1>5, Zenon DEF Held, StilledGone
  <2>4. shutdown /\ (timer' \/ timer_tested') => In(Do("del"), todo')
    BY <1>1, <1>7, Zenon DEF Held, StilledGone
  <2>5. freed' => shutdown /\ todo' = <<>>
    BY <1>1, Zenon DEF Held, StilledGone
  <2>6. todo' = todo
    BY <1>1
  <2> QED BY <1>1, <1>4, <2>1, <2>2, <2>3, <2>4, <2>5, <2>6, StayStilled, Zenon

(* The timer.                                                              *)
LEMMA StilledTimer ==
  ASSUME Held, UrbTypes, TimerFires \/ TimerSubmits
  PROVE  Held'
<1>1. /\ UNCHANGED <<intf, no_urb_submission, num_suspended_intf, shutdown, phase>>
      /\ UNCHANGED <<todo, freed>>
  BY Zenon DEF TimerFires, TimerSubmits, chipVars, coreVars
<1>2. Good(todo', phase)
  BY <1>1, Zenon DEF Held
<1>3. freed' => shutdown /\ todo' = <<>>
  BY <1>1, Zenon DEF Held, StilledGone
<1>4. Midi \in Urb
  BY DEF Urb
<1>5. todo' = todo
  BY <1>1
<1>6. CASE TimerFires
  <2>1. UNCHANGED flight /\ ~timer'
        /\ (timer_tested' => no_urb_submission = 0 /\ ~shutdown)
    BY <1>6 DEF TimerFires, urbVars, CanSend
  <2>2. \A v \in Urb : Stilled(v) => Stilled(v)'
    BY <1>5, <2>1, Zenon DEF Stilled
  <2>3. phase = "gone" /\ no_urb_submission # 0 => flight[Midi]' = "idle" /\ ~timer_tested'
    BY <2>1, Zenon DEF Held, StilledGone
  <2> QED BY <1>1, <1>2, <1>3, <1>5, <2>1, <2>2, <2>3, StayStilled, Zenon
<1>7. CASE TimerSubmits
  <2>1. timer_tested /\ ~timer_tested' /\ timer' = timer
    BY <1>7 DEF TimerSubmits
  <2>2. \A v \in Urb \ {Midi} : flight'[v] = flight[v]
    BY <1>4, <1>7 DEF TimerSubmits, Submit, SubmitTaken, SubmitFails, SubmitTwice, UrbTypes
  <2>3. no_urb_submission # 0 \/ shutdown => In(Do("del"), todo)
    BY <2>1, Zenon DEF Held, StilledAsleep, StilledGone
  <2>4. no_urb_submission # 0 \/ shutdown => Stilled(Midi)'
    BY <1>5, <2>3, DelKill, Zenon DEF Stilled, Held
  <2>5. ASSUME NEW v \in Urb, no_urb_submission # 0 \/ shutdown, Stilled(v)
        PROVE  Stilled(v)'
    <3>1. CASE v = Midi
      BY <2>4, <2>5, <3>1
    <3>2. CASE v # Midi
      BY <1>5, <2>2, <2>5, <3>2, Zenon DEF Stilled
    <3> QED BY <3>1, <3>2
  <2>6. ~(phase = "gone" /\ no_urb_submission # 0)
    BY <2>1, Zenon DEF Held, StilledGone
  <2>7. shutdown /\ (timer' \/ timer_tested') => In(Do("del"), todo')
    BY <1>5, <2>3
  <2> QED BY <1>1, <1>2, <1>3, <1>5, <2>1, <2>5, <2>6, <2>7, StayStilled, Zenon
<1> QED BY <1>6, <1>7
(* The steps of a callback.                                                *)
LEMMA Taken ==
  ASSUME Held, NEW w, Now(w)
  PROVE  /\ todo # <<>> /\ Head(todo).do = w
         /\ Good(Tail(todo), phase)
         /\ \A x : In(x, todo) => x = Head(todo) \/ In(x, Tail(todo))
         /\ w = "free" => Tail(todo) = <<>>
         /\ w \in {"shut", "free"} => phase = "gone"
         /\ w = "check" => phase = "probe"
         /\ phase = "gone" => shutdown \/ (w = "shut" /\ todo = DisconnectSteps)
         /\ ~freed
<1>1. todo # <<>> /\ Head(todo).do = w
  BY DEF Now
<1>2. todo \in Seq(Step) /\ Good(todo, phase)
  BY DEF Held, Good
<1>3. /\ Good(Tail(todo), phase)
      /\ \A x : In(x, todo) => x = Head(todo) \/ In(x, Tail(todo))
      /\ w = "free" => Tail(todo) = <<>>
      /\ w \in {"shut", "free"} => phase = "gone"
      /\ w = "check" => phase = "probe"
  <2>1. /\ Good(Tail(todo), phase)
        /\ \A x : In(x, todo) => x = Head(todo) \/ In(x, Tail(todo))
        /\ Head(todo).do = "free" => Tail(todo) = <<>>
        /\ Head(todo).do \in {"shut", "free"} => phase = "gone"
        /\ Head(todo).do = "check" => phase = "probe"
    BY <1>1, <1>2, GoodTail, Zenon
  <2> QED BY <1>1, <2>1, Zenon
<1>4. Head(DisconnectSteps).do = "shut"
  BY GoodDisconnectSteps DEF Do
<1>5. phase = "gone" => shutdown \/ todo = DisconnectSteps
  BY Zenon DEF Held, StilledGone
<1>6. phase = "gone" => shutdown \/ (w = "shut" /\ todo = DisconnectSteps)
  BY <1>1, <1>4, <1>5
<1>7. ~freed
  BY <1>1, Zenon DEF Held, StilledGone
<1> QED BY <1>1, <1>3, <1>6, <1>7, Zenon

(* A step that neither stops the timer nor kills, and that lets an URB fly *)
(* at most when that is allowed.                                           *)
LEMMA StayTaken ==
  ASSUME Held, NEW w \in {"start", "run", "stop", "uninit", "check"}, Now(w),
         UNCHANGED <<chipVars, timerVars, coreVars, freed>>,
         Good(todo', phase), \A x : In(x, Tail(todo)) => In(x, todo'),
         \A u \in Urb : no_urb_submission # 0 \/ shutdown => flight'[u] = flight[u]
  PROVE  Held'
<1>1. /\ UNCHANGED <<intf, no_urb_submission, num_suspended_intf, shutdown, phase>>
      /\ UNCHANGED <<timer, timer_tested, freed>>
  BY DEF chipVars, timerVars, coreVars
<1>2. /\ ~freed /\ (phase = "gone" => shutdown)
      /\ \A x : In(x, todo) => x = Head(todo) \/ In(x, Tail(todo))
      /\ Head(todo).do = w
  BY Taken
<1>3. Head(todo) # Do("del") /\ \A u \in Urb : Head(todo) # [do |-> "kill", urb |-> u]
  BY <1>2 DEF Do
<1>4. /\ In(Do("del"), todo) => In(Do("del"), todo')
      /\ \A u \in Urb : In([do |-> "kill", urb |-> u], todo)
                         => In([do |-> "kill", urb |-> u], todo')
  BY <1>2, <1>3
<1>5. Midi \in Urb
  BY DEF Urb
<1>6. \A u \in Urb : (no_urb_submission # 0 \/ shutdown) /\ Stilled(u) => Stilled(u)'
  BY <1>4, Zenon DEF Stilled
<1>7. timer_tested' /\ no_urb_submission # 0 => In(Do("del"), todo')
  BY <1>1, <1>4, Zenon DEF Held, StilledAsleep
<1>8. phase = "gone" /\ no_urb_submission # 0 => flight[Midi]' = "idle" /\ ~timer_tested'
  BY <1>1, <1>5, Zenon DEF Held, StilledGone
<1>9. shutdown /\ (timer' \/ timer_tested') => In(Do("del"), todo')
  BY <1>1, <1>4, Zenon DEF Held, StilledGone
<1>10. ~freed' /\ (phase = "gone" /\ ~shutdown => todo' = todo)
  BY <1>1, <1>2
<1>11. UNCHANGED <<intf, no_urb_submission, num_suspended_intf, shutdown, phase>>
  BY <1>1
<1> QED BY <1>6, <1>7, <1>8, <1>9, <1>10, <1>11, StayStilled, Zenon

LEMMA StilledStart ==
  ASSUME Held, UrbTypes, Start
  PROVE  Held'
<1>1. Now("start") /\ todo' = Tail(todo) /\ UNCHANGED <<chipVars, timerVars, coreVars, freed>>
  BY DEF Start, Next1
<1>2. Good(Tail(todo), phase)
  BY <1>1, Taken
<1>3. ASSUME no_urb_submission # 0 \/ shutdown PROVE flight' = flight
  BY <1>3 DEF Start, CanSend, SubmitTwice
<1> QED BY <1>1, <1>2, <1>3, StayTaken

LEMMA StilledReader ==
  ASSUME Held, StartReader \/ StopReader \/ UninitReader
  PROVE  Held'
<1>1. UNCHANGED <<chipVars, timerVars, coreVars, freed, flight>>
  BY DEF StartReader, StopReader, UninitReader, urbVars
<1>2. PICK w \in {"run", "stop", "uninit"} : Now(w)
  BY DEF StartReader, StopReader, UninitReader
<1>3. Good(Tail(todo), phase)
  BY <1>2, Taken
<1>4. PICK l \in {"start", "kill"} : todo' = Tail(todo) \/ todo' = Each(l) \o Tail(todo)
  BY DEF StartReader, StopReader, UninitReader, Next1
<1>5. /\ Good(Each(l) \o Tail(todo), phase)
      /\ \A x : In(x, Tail(todo)) => In(x, Each(l) \o Tail(todo))
  BY <1>3, GoodEach, GoodConcat
<1>6. Good(todo', phase) /\ \A x : In(x, Tail(todo)) => In(x, todo')
  BY <1>3, <1>4, <1>5, Zenon
<1>7. \A u \in Urb : flight'[u] = flight[u]
  BY <1>1
<1> QED BY <1>1, <1>2, <1>6, <1>7, StayTaken

LEMMA StilledDelTimer ==
  ASSUME Held, DelTimer
  PROVE  Held'
<1>1. /\ UNCHANGED <<intf, no_urb_submission, num_suspended_intf, shutdown, phase>>
      /\ UNCHANGED <<flight, freed>> /\ ~timer' /\ ~timer_tested'
      /\ Now("del") /\ todo' = Tail(todo)
  BY DEF DelTimer, Next1, chipVars, coreVars, urbVars
<1>2. /\ Good(todo', phase) /\ ~freed /\ (phase = "gone" => shutdown)
      /\ \A x : In(x, todo) => x = Head(todo) \/ In(x, todo')
      /\ Head(todo).do = "del"
  BY <1>1, Taken
<1>3. \A u \in Urb : Head(todo) # [do |-> "kill", urb |-> u]
  BY <1>2
<1>4. \A u \in Urb : Stilled(u) => Stilled(u)'
  BY <1>1, <1>2, <1>3, Zenon DEF Stilled
<1>5. phase = "gone" /\ no_urb_submission # 0 => flight[Midi]' = "idle" /\ ~timer_tested'
  BY <1>1, Zenon DEF Held, StilledGone
<1> QED BY <1>1, <1>2, <1>4, <1>5, StayStilled, Zenon

LEMMA StilledKill ==
  ASSUME Held, UrbTypes, Kill
  PROVE  Held'
<1> DEFINE u == Head(todo).urb
<1>1. /\ UNCHANGED <<intf, no_urb_submission, num_suspended_intf, shutdown, phase>>
      /\ UNCHANGED <<timer, timer_tested, freed>> /\ Now("kill")
  BY DEF Kill, chipVars, coreVars, timerVars
<1>2. /\ Good(Tail(todo), phase) /\ ~freed /\ (phase = "gone" => shutdown)
      /\ \A x : In(x, todo) => x = Head(todo) \/ In(x, Tail(todo))
      /\ Head(todo).do = "kill" /\ todo # <<>>
  BY <1>1, Taken
<1>3. u \in Urb /\ Head(todo) = [do |-> "kill", urb |-> u]
  BY <1>2, HeadUrb DEF Held, Good
<1>4. /\ Good(todo', phase)
      /\ \A v \in Urb : Stilled(v) => Stilled(v)'
      /\ \A v \in Urb : flight[v] = "idle" => flight'[v] = "idle"
      /\ In(Do("del"), todo) => In(Do("del"), todo')
  <2>1. CASE flight[u] = "flying" /\ flight' = [flight EXCEPT ![u] = "done"] /\ todo' = todo
    <3>1. \A v \in Urb : flight[v] = "idle" => flight'[v] = "idle"
      BY <1>3, <2>1 DEF UrbTypes
    <3>2. \A v \in Urb : Stilled(v) => Stilled(v)'
      BY <2>1, <3>1, Zenon DEF Stilled
    <3> QED BY <2>1, <3>1, <3>2, Zenon DEF Held
  <2>2. CASE flight[u] = "idle" /\ flight' = flight /\ todo' = Tail(todo)
    <3>1. ASSUME NEW v \in Urb, Stilled(v) PROVE Stilled(v)'
      <4>1. CASE v = u
        BY <2>2, <4>1, Zenon DEF Stilled
      <4>2. CASE v # u
        <5>1. Head(todo) # [do |-> "kill", urb |-> v]
          BY <1>3, <4>2
        <5> QED BY <1>2, <2>2, <3>1, <5>1, Zenon DEF Stilled
      <4> QED BY <4>1, <4>2
    <3>2. Head(todo) # Do("del")
      BY <1>2 DEF Do
    <3> QED BY <1>2, <2>2, <3>1, <3>2, Zenon
  <2> QED BY <2>1, <2>2 DEF Kill, Next1, urbVars
<1>5. Midi \in Urb
  BY DEF Urb
<1>6. timer_tested' /\ no_urb_submission # 0 => In(Do("del"), todo')
  BY <1>1, <1>4, Zenon DEF Held, StilledAsleep
<1>7. phase = "gone" /\ no_urb_submission # 0 => flight[Midi]' = "idle" /\ ~timer_tested'
  BY <1>1, <1>4, <1>5, Zenon DEF Held, StilledGone
<1>8. shutdown /\ (timer' \/ timer_tested') => In(Do("del"), todo')
  BY <1>1, <1>4, Zenon DEF Held, StilledGone
<1> QED BY <1>1, <1>2, <1>4, <1>6, <1>7, <1>8, StayStilled, Zenon

LEMMA StilledFree ==
  ASSUME Held, Free
  PROVE  Held'
<1>1. /\ UNCHANGED <<intf, no_urb_submission, num_suspended_intf, shutdown, phase>>
      /\ UNCHANGED <<flight, timer, timer_tested>> /\ Now("free") /\ todo' = Tail(todo)
  BY DEF Free, Next1, chipVars, coreVars, timerVars, urbVars
<1>2. /\ Good(Tail(todo), phase) /\ shutdown /\ Tail(todo) = <<>> /\ phase = "gone"
      /\ \A x : In(x, todo) => x = Head(todo) \/ In(x, Tail(todo))
      /\ Head(todo).do = "free"
  BY <1>1, Taken
<1>3. Head(todo) # Do("del") /\ \A u \in Urb : Head(todo) # [do |-> "kill", urb |-> u]
  BY <1>2 DEF Do
<1>4. \A u \in Urb : Stilled(u) => Stilled(u)'
  BY <1>1, <1>2, <1>3, Zenon DEF Stilled
<1>5. timer_tested' /\ no_urb_submission # 0 => In(Do("del"), todo')
  BY <1>1, <1>2, <1>3, Zenon DEF Held, StilledAsleep
<1>6. phase = "gone" /\ no_urb_submission # 0 => flight[Midi]' = "idle" /\ ~timer_tested'
  BY <1>1, Zenon DEF Held, StilledGone
<1>7. shutdown /\ (timer' \/ timer_tested') => In(Do("del"), todo')
  BY <1>1, <1>2, <1>3, Zenon DEF Held, StilledGone
<1> QED BY <1>1, <1>2, <1>4, <1>5, <1>6, <1>7, StayStilled, Zenon
LEMMA StilledShutdown ==
  ASSUME Held, Shutdown
  PROVE  Held'
<1>1. /\ UNCHANGED <<intf, no_urb_submission, num_suspended_intf>>
      /\ phase' = phase /\ flight' = flight /\ timer' = timer /\ freed' = freed
      /\ timer_tested' = timer_tested /\ no_urb_submission' = no_urb_submission
      /\ Now("shut") /\ todo' = Tail(todo) /\ shutdown'
  BY DEF Shutdown, Next1, coreVars, timerVars, urbVars
<1>2. /\ With("suspended")' = With("suspended") /\ With("reset")' = With("reset")
      /\ CountsMatch'
  BY <1>1, SameIntf DEF Held
<1>3. /\ Good(todo', phase') /\ phase = "gone" /\ ~freed
      /\ \A x : In(x, todo) => x = Head(todo) \/ In(x, todo')
      /\ Head(todo).do = "shut" /\ (shutdown \/ todo = DisconnectSteps)
  BY <1>1, Taken
<1>4. Head(todo) # Do("del") /\ \A u \in Urb : Head(todo) # [do |-> "kill", urb |-> u]
  BY <1>3 DEF Do
<1>5. \A u \in Urb : Stilled(u) => Stilled(u)'
  BY <1>1, <1>3, <1>4, Zenon DEF Stilled
<1>6. PhaseFits'
  BY <1>1, <1>2, Zenon DEF Held, PhaseFits
<1>7. Midi \in Urb
  BY DEF Urb
<1>8. StilledAsleep'
  BY <1>1, <1>2, <1>3, <1>4, <1>5, <1>7, Zenon DEF Held, StilledAsleep
<1>9. (\A u \in Urb : Stilled(u)') /\ (timer \/ timer_tested => In(Do("del"), todo'))
  <2>1. CASE shutdown
    BY <1>3, <1>4, <1>5, <2>1, Zenon DEF Held, StilledGone
  <2>2. CASE todo = DisconnectSteps
    BY <1>1, <2>2, GoodDisconnectSteps, Zenon DEF KillsAll, Stilled
  <2> QED BY <1>3, <2>1, <2>2
<1>10. StilledGone'
  <2>1. phase = "gone" /\ no_urb_submission # 0 => flight[Midi] = "idle" /\ ~timer_tested
    BY Zenon DEF Held, StilledGone
  <2> QED BY <1>1, <1>3, <1>9, <2>1 DEF StilledGone
<1>11. Good(todo, phase)'
  BY <1>3 DEF Good, Follows, Belongs
<1> QED BY <1>2, <1>6, <1>8, <1>10, <1>11, Zenon DEF Held

(* The driver leaves the device.                                           *)
LEMMA StilledLeaving ==
  ASSUME Held, phase # "gone", ~freed, phase' = "gone", todo' = DisconnectSteps,
         UNCHANGED <<intf, chipVars, flight, timerVars, freed>>,
         no_urb_submission # 0 => flight[Midi] = "idle" /\ ~timer_tested
  PROVE  Held'
<1>1. /\ UNCHANGED <<intf, no_urb_submission, num_suspended_intf>>
      /\ no_urb_submission' = no_urb_submission /\ shutdown' = shutdown
      /\ flight' = flight /\ timer_tested' = timer_tested /\ ~freed'
  BY DEF chipVars, timerVars
<1>2. CountsMatch'
  BY <1>1, SameIntf DEF Held
<1>3. PhaseFits'
  BY DEF PhaseFits
<1>4. ~shutdown
  BY Zenon DEF Held, StilledGone
<1>5. Midi \in Urb /\ In(Do("del"), todo') /\ \A u \in Urb : Stilled(u)'
  BY GoodDisconnectSteps DEF KillsAll, Stilled, Urb
<1>6. StilledAsleep'
  BY <1>5, Zenon DEF StilledAsleep
<1>7. StilledGone'
  BY <1>1, <1>4 DEF StilledGone
<1>8. Good(todo, phase)'
  <2>1. Good(todo', phase')
    BY GoodDisconnectSteps
  <2> QED BY <2>1 DEF Good, Follows, Belongs
<1> QED BY <1>2, <1>3, <1>6, <1>7, <1>8, Zenon DEF Held

LEMMA StilledCheck ==
  ASSUME Held, CheckStarted
  PROVE  Held'
<1>1. /\ UNCHANGED <<intf, chipVars, flight, timerVars, freed>> /\ Now("check")
  BY DEF CheckStarted, urbVars
<1>2. Good(Tail(todo), phase) /\ phase = "probe" /\ ~freed
  BY <1>1, Taken
<1>3. no_urb_submission = 0
  BY <1>2, Forbidden DEF Held, PhaseFits
<1>4. CASE todo' = DisconnectSteps /\ phase' = "gone"
  BY <1>1, <1>2, <1>3, <1>4, StilledLeaving
<1>5. CASE todo' = Tail(todo) /\ UNCHANGED phase
  <2>1. UNCHANGED <<chipVars, timerVars, coreVars, freed>>
    BY <1>5 DEF CheckStarted, coreVars
  <2> QED BY <1>1, <1>2, <1>5, <2>1, StayTaken
<1> QED BY <1>4, <1>5 DEF CheckStarted, Next1

(* When a callback has returned.                                           *)
LEMMA WhenStill ==
  ASSUME Held, todo = <<>>
  PROVE  /\ With("suspended") # {} => \A u \in Urb : flight[u] = "idle"
         /\ no_urb_submission # 0 => flight[Midi] = "idle" /\ ~timer_tested
         /\ phase # "gone" => ~shutdown /\ ~freed
<1>1. \A x : ~In(x, todo)
  BY InNothing
<1>2. \A u \in Urb : Stilled(u) => flight[u] = "idle"
  BY <1>1, Zenon DEF Stilled
<1>3. Midi \in Urb
  BY DEF Urb
<1>4. With("suspended") # {} => \A u \in Urb : flight[u] = "idle"
  BY <1>2, Zenon DEF Held, StilledAsleep
<1>5. no_urb_submission # 0 => With("suspended") # {} \/ With("reset") # {}
  BY Forbidden DEF Held
<1>6. no_urb_submission # 0 => flight[Midi] = "idle" /\ ~timer_tested
  BY <1>1, <1>2, <1>3, <1>5, Zenon DEF Held, StilledAsleep
<1>7. phase # "gone" => ~shutdown /\ ~freed
  BY Zenon DEF Held, StilledGone
<1> QED BY <1>4, <1>6, <1>7, Zenon
(* What a callback of the core has to see to, before its first step.       *)
LEMMA StilledCalled ==
  ASSUME Held, todo = <<>>, phase # "gone", phase' # "gone",
         UNCHANGED <<shutdown, flight, timer, timer_tested, freed>>,
         CountsMatch', PhaseFits', Good(todo', phase'),
         With("suspended")' # {} => With("suspended") # {} \/ KillsAll(todo'),
         no_urb_submission' # 0 =>
            \/ no_urb_submission # 0
            \/ In(Do("del"), todo') /\ In([do |-> "kill", urb |-> Midi], todo')
  PROVE  Held'
<1>1. /\ With("suspended") # {} => \A u \in Urb : flight[u] = "idle"
      /\ no_urb_submission # 0 => flight[Midi] = "idle" /\ ~timer_tested
      /\ ~shutdown /\ ~freed
  BY WhenStill
<1>2. /\ flight' = flight /\ timer_tested' = timer_tested /\ ~shutdown' /\ ~freed'
  BY <1>1
<1>3. With("suspended")' # {} => \A u \in Urb : Stilled(u)'
  BY <1>1, <1>2, Zenon DEF Stilled, KillsAll
<1>4. no_urb_submission' # 0 => Stilled(Midi)' /\ (timer_tested' => In(Do("del"), todo'))
  <2>1. no_urb_submission # 0 => flight'[Midi] = "idle" /\ ~timer_tested'
    BY <1>1, <1>2
  <2> QED BY <2>1 DEF Stilled
<1>5. With("reset")' # {} => no_urb_submission' # 0
  <2>1. With("reset")' \subseteq Intf
    BY DEF With
  <2>2. /\ Cardinality(With("reset")') \in Nat
        /\ Cardinality(With("reset")') = 0 <=> With("reset")' = {}
    BY <2>1, IntfAssumption, FS_Subset, FS_CardinalityType, FS_EmptySet
  <2> QED BY <2>2 DEF CountsMatch
<1>6. StilledAsleep'
  BY <1>3, <1>4, <1>5, Zenon DEF StilledAsleep
<1>7. StilledGone'
  BY <1>2, Zenon DEF StilledGone
<1>8. Good(todo, phase)'
  BY DEF Good, Follows, Belongs
<1> QED BY <1>6, <1>7, <1>8, Zenon DEF Held
LEMMA OneOfIntf ==
  \A i \in Intf, S \in SUBSET Intf :
    /\ IsFiniteSet(S) /\ Cardinality(S) \in Nat /\ (Cardinality(S) = 0 <=> S = {})
    /\ i \notin S => Cardinality(S \cup {i}) = Cardinality(S) + 1
    /\ i \in S => Cardinality(S \ {i}) = Cardinality(S) - 1
<1>1. SUFFICES ASSUME NEW i \in Intf, NEW S \in SUBSET Intf
               PROVE  /\ IsFiniteSet(S) /\ Cardinality(S) \in Nat
                      /\ (Cardinality(S) = 0 <=> S = {})
                      /\ i \notin S => Cardinality(S \cup {i}) = Cardinality(S) + 1
                      /\ i \in S => Cardinality(S \ {i}) = Cardinality(S) - 1
  OBVIOUS
<1>2. IsFiniteSet(S)
  BY IntfAssumption, FS_Subset
<1> QED BY <1>2, FS_CardinalityType, FS_EmptySet, FS_AddElement, FS_RemoveElement

LEMMA WithMoved ==
  ASSUME Others, NEW i \in Intf
  PROVE  /\ Set(i, "suspended") => /\ With("suspended")' = With("suspended") \cup {i}
                                   /\ With("reset")' = With("reset") \ {i}
         /\ Set(i, "reset") => /\ With("suspended")' = With("suspended") \ {i}
                               /\ With("reset")' = With("reset") \cup {i}
         /\ Set(i, "on") => /\ With("suspended")' = With("suspended") \ {i}
                            /\ With("reset")' = With("reset") \ {i}
BY DEF Others, Set, With

LEMMA StilledSuspend ==
  ASSUME Held, Others, NEW i \in Intf, hdj_suspend(i)
  PROVE  Held'
<1> DEFINE s == With("suspended")
           r == With("reset")
<1>1. /\ todo = <<>> /\ intf[i] = "on" /\ Set(i, "suspended")
      /\ phase \in {"on", "sleep"} /\ phase' \in {"asleep", "sleep"}
      /\ UNCHANGED <<shutdown, flight, timer, timer_tested, freed>>
  <2>1. phase' = "asleep" \/ phase' = "sleep"
    BY Zenon DEF hdj_suspend
  <2>2. todo = <<>> /\ intf[i] = "on" /\ Set(i, "suspended")
    BY Zenon DEF hdj_suspend
  <2>3. phase = "on" \/ phase = "sleep"
    BY Zenon DEF hdj_suspend
  <2>4. UNCHANGED <<shutdown, flight, timer, timer_tested, freed>>
    <3>1. UNCHANGED <<shutdown, urbVars, timerVars, freed>>
      BY Zenon DEF hdj_suspend
    <3> QED BY <3>1 DEF urbVars, timerVars
  <2> QED BY <2>1, <2>2, <2>3, <2>4
<1>2. s' = s \cup {i} /\ r' = r /\ i \notin s /\ s \subseteq Intf
  <2>1. i \notin s /\ i \notin r /\ s \subseteq Intf
    BY <1>1 DEF With
  <2>2. s' = s \cup {i} /\ r' = r \ {i}
    BY <1>1, WithMoved, Zenon
  <2> QED BY <2>1, <2>2
<1>3. /\ Cardinality(s') = Cardinality(s) + 1 /\ Cardinality(s) \in Nat
      /\ Cardinality(s) = 0 <=> s = {}
  BY <1>2, OneOfIntf
<1>4. num_suspended_intf = Cardinality(s) /\ num_suspended_intf' = Cardinality(s) + 1
  <2>1. num_suspended_intf' = num_suspended_intf + 1
    BY Zenon DEF hdj_suspend
  <2> QED BY <2>1 DEF Held, CountsMatch
<1>5. /\ s = {} => no_urb_submission' = no_urb_submission + 1 /\ todo' = SuspendSteps
      /\ s # {} => no_urb_submission' = no_urb_submission /\ todo' = todo
  <2>1. s = {} <=> num_suspended_intf' = 1
    BY <1>3, <1>4
  <2>2. /\ num_suspended_intf' = 1 =>
               no_urb_submission' = no_urb_submission + 1 /\ todo' = SuspendSteps
        /\ num_suspended_intf' # 1 =>
               no_urb_submission' = no_urb_submission /\ todo' = todo
    BY Zenon DEF hdj_suspend
  <2> QED BY <2>1, <2>2
<1>6. no_urb_submission = Cardinality(r) + (IF s # {} THEN 1 ELSE 0)
      /\ Cardinality(r) \in Nat
  BY WithFinite DEF Held, CountsMatch
<1>7. CountsMatch'
  <2>1. no_urb_submission' = Cardinality(r) + 1
    BY <1>5, <1>6
  <2>2. num_suspended_intf' = Cardinality(s') /\ s' # {}
    BY <1>2, <1>3, <1>4
  <2> QED BY <1>2, <2>1, <2>2 DEF CountsMatch
<1>8. PhaseFits'
  BY <1>1, <1>2 DEF PhaseFits
<1>9. /\ Good(todo', phase')
      /\ s = {} => KillsAll(todo') /\ In(Do("del"), todo')
                    /\ In([do |-> "kill", urb |-> Midi], todo')
  BY <1>1, <1>5, GoodNothing, GoodSuspendSteps DEF KillsAll, Urb
<1>10. no_urb_submission' # 0 => no_urb_submission # 0 \/ s = {}
  BY <1>5
<1> QED
  <2>1. phase # "gone" /\ phase' # "gone"
    BY <1>1
  <2> QED BY <1>1, <1>7, <1>8, <1>9, <1>10, <2>1, StilledCalled, Zenon
LEMMA StilledResume ==
  ASSUME Held, Others, NEW i \in Intf, hdj_resume(i)
  PROVE  Held'
<1> DEFINE s == With("suspended")
           r == With("reset")
           start == <<Do("start"), Do("run")>>
<1>1. /\ todo = <<>> /\ intf[i] = "suspended" /\ Set(i, "on")
      /\ phase # "gone" /\ phase' \in {"on", "wake"}
      /\ (phase' = "on" => All("on"))
      /\ UNCHANGED <<shutdown, flight, timer, timer_tested, freed>>
  <2>1. phase' = IF All("on") THEN "on" ELSE "wake"
    BY Zenon DEF hdj_resume
  <2>2. todo = <<>> /\ intf[i] = "suspended" /\ Set(i, "on")
    BY Zenon DEF hdj_resume
  <2>3. phase \in {"sleep", "asleep", "wake"}
    BY Zenon DEF hdj_resume
  <2>4. UNCHANGED <<shutdown, flight, timer, timer_tested, freed>>
    <3>1. UNCHANGED <<shutdown, urbVars, timerVars, freed>>
      BY Zenon DEF hdj_resume
    <3> QED BY <3>1 DEF urbVars, timerVars
  <2>5. (phase' = "on" /\ All("on")) \/ phase' = "wake"
    BY <2>1, Zenon
  <2>6. phase' \in {"on", "wake"} /\ (phase' = "on" => All("on")) /\ phase # "gone"
    BY <2>3, <2>5
  <2> QED BY <2>2, <2>4, <2>6
<1>2. s' = s \ {i} /\ r' = r /\ i \in s /\ s \subseteq Intf
  <2>1. i \in s /\ i \notin r /\ s \subseteq Intf
    BY <1>1 DEF With
  <2>2. s' = s \ {i} /\ r' = r \ {i}
    BY <1>1, WithMoved, Zenon
  <2> QED BY <2>1, <2>2
<1>3. /\ Cardinality(s') = Cardinality(s) - 1 /\ Cardinality(s) \in Nat
      /\ Cardinality(s') = 0 <=> s' = {}
  BY <1>2, OneOfIntf
<1>4. num_suspended_intf = Cardinality(s) /\ num_suspended_intf' = Cardinality(s')
  <2>1. num_suspended_intf' = num_suspended_intf - 1
    BY Zenon DEF hdj_resume
  <2> QED BY <1>3, <2>1 DEF Held, CountsMatch
<1>5. /\ s' = {} => no_urb_submission' = no_urb_submission - 1 /\ todo' = start
      /\ s' # {} => no_urb_submission' = no_urb_submission /\ todo' = todo
  <2>1. s' = {} <=> num_suspended_intf' = 0
    BY <1>3, <1>4
  <2>2. /\ num_suspended_intf' = 0 =>
               no_urb_submission' = no_urb_submission - 1 /\ todo' = start
        /\ num_suspended_intf' # 0 =>
               no_urb_submission' = no_urb_submission /\ todo' = todo
    BY Zenon DEF hdj_resume
  <2> QED BY <2>1, <2>2
<1>6. no_urb_submission = Cardinality(r) + 1 /\ Cardinality(r) \in Nat
  BY <1>2, WithFinite DEF Held, CountsMatch
<1>7. CountsMatch'
  <2>1. no_urb_submission' = Cardinality(r) + (IF s' # {} THEN 1 ELSE 0)
    BY <1>5, <1>6
  <2> QED BY <1>2, <1>4, <2>1 DEF CountsMatch
<1>8. PhaseFits'
  <2>1. phase' = "on" => s' = {} /\ r' = {}
    BY <1>1 DEF All, With
  <2> QED BY <1>1, <2>1 DEF PhaseFits
<1>9. Good(todo', phase')
  <2>1. Good(start, phase')
    <3>1. Good(<<Do("start")>>, phase') /\ NeverFree(<<Do("start")>>)
          /\ Good(<<Do("run")>>, phase')
      BY GoodOne
    <3>2. Good(<<Do("start")>> \o <<Do("run")>>, phase')
      BY <3>1, GoodConcat
    <3>3. Do("start") \in Step /\ Do("run") \in Step
      BY DEF Do, Step, Urb
    <3>4. start = <<Do("start")>> \o <<Do("run")>>
      BY <3>3
    <3> QED BY <3>2, <3>4
  <2> QED BY <1>1, <1>5, <2>1, GoodNothing
<1>10. /\ s' # {} => s # {}
       /\ no_urb_submission # 0
  BY <1>2, <1>6
<1> QED
  <2>1. phase' # "gone"
    BY <1>1
  <2> QED BY <1>1, <1>7, <1>8, <1>9, <1>10, <2>1, StilledCalled, Zenon

LEMMA StilledPreReset ==
  ASSUME Held, Others, NEW i \in Intf, hdj_pre_reset(i)
  PROVE  Held'
<1> DEFINE s == With("suspended")
           r == With("reset")
<1>1. /\ todo = <<>> /\ intf[i] = "on" /\ Set(i, "reset")
      /\ phase # "gone" /\ phase' \in {"pre", "post"}
      /\ UNCHANGED <<shutdown, flight, timer, timer_tested, freed>>
      /\ UNCHANGED num_suspended_intf
      /\ no_urb_submission' = no_urb_submission + 1 /\ todo' = KillMidi
  <2>1. phase' = "post" \/ phase' = "pre"
    BY Zenon DEF hdj_pre_reset
  <2>2. todo = <<>> /\ intf[i] = "on" /\ Set(i, "reset")
    BY Zenon DEF hdj_pre_reset
  <2>3. phase = "on" \/ phase = "pre"
    BY Zenon DEF hdj_pre_reset
  <2>4. UNCHANGED <<shutdown, flight, timer, timer_tested, freed>>
    <3>1. UNCHANGED <<shutdown, urbVars, timerVars, freed>>
      BY Zenon DEF hdj_pre_reset
    <3> QED BY <3>1 DEF urbVars, timerVars
  <2>5. /\ UNCHANGED num_suspended_intf
        /\ no_urb_submission' = no_urb_submission + 1 /\ todo' = KillMidi
    BY Zenon DEF hdj_pre_reset
  <2> QED BY <2>1, <2>2, <2>3, <2>4, <2>5
<1>2. s' = s /\ r' = r \cup {i} /\ i \notin r /\ r \subseteq Intf
  <2>1. i \notin s /\ i \notin r /\ r \subseteq Intf
    BY <1>1 DEF With
  <2>2. s' = s \ {i} /\ r' = r \cup {i}
    BY <1>1, WithMoved, Zenon
  <2> QED BY <2>1, <2>2
<1>3. Cardinality(r') = Cardinality(r) + 1 /\ Cardinality(r) \in Nat
  BY <1>2, OneOfIntf
<1>4. CountsMatch'
  <2>1. /\ num_suspended_intf = Cardinality(s)
        /\ no_urb_submission = Cardinality(r) + (IF s # {} THEN 1 ELSE 0)
    BY DEF Held, CountsMatch
  <2>2. no_urb_submission' = Cardinality(r') + (IF s # {} THEN 1 ELSE 0)
    BY <1>1, <1>3, <2>1
  <2> QED BY <1>1, <1>2, <2>1, <2>2 DEF CountsMatch
<1>5. PhaseFits'
  BY <1>1 DEF PhaseFits
<1>6. /\ Good(todo', phase')
      /\ In(Do("del"), todo') /\ In([do |-> "kill", urb |-> Midi], todo')
  BY <1>1, GoodKillMidi DEF Do
<1> QED
  <2>1. phase' # "gone" /\ (s' # {} => s # {})
    BY <1>1, <1>2
  <2> QED BY <1>1, <1>4, <1>5, <1>6, <2>1, StilledCalled, Zenon

LEMMA StilledPostReset ==
  ASSUME Held, Others, NEW i \in Intf, hdj_post_reset(i)
  PROVE  Held'
<1> DEFINE s == With("suspended")
           r == With("reset")
<1>1. /\ todo = <<>> /\ intf[i] = "reset" /\ Set(i, "on")
      /\ phase = "post" /\ phase' \in {"on", "post"}
      /\ (phase' = "on" => All("on"))
      /\ UNCHANGED <<shutdown, flight, timer, timer_tested, freed>>
      /\ UNCHANGED num_suspended_intf
      /\ no_urb_submission' = no_urb_submission - 1 /\ todo' = <<Do("start")>>
  <2>1. phase' = IF All("on") THEN "on" ELSE "post"
    BY Zenon DEF hdj_post_reset
  <2>2. todo = <<>> /\ intf[i] = "reset" /\ Set(i, "on") /\ phase = "post"
    BY Zenon DEF hdj_post_reset
  <2>3. UNCHANGED <<shutdown, flight, timer, timer_tested, freed>>
    <3>1. UNCHANGED <<shutdown, urbVars, timerVars, freed>>
      BY Zenon DEF hdj_post_reset
    <3> QED BY <3>1 DEF urbVars, timerVars
  <2>4. /\ UNCHANGED num_suspended_intf
        /\ no_urb_submission' = no_urb_submission - 1 /\ todo' = <<Do("start")>>
    BY Zenon DEF hdj_post_reset
  <2>5. (phase' = "on" /\ All("on")) \/ phase' = "post"
    BY <2>1, Zenon
  <2>6. phase' \in {"on", "post"} /\ (phase' = "on" => All("on"))
    BY <2>5
  <2> QED BY <2>2, <2>3, <2>4, <2>6
<1>2. s' = s /\ r' = r \ {i} /\ i \in r /\ r \subseteq Intf
  <2>1. i \notin s /\ i \in r /\ r \subseteq Intf
    BY <1>1 DEF With
  <2>2. s' = s \ {i} /\ r' = r \ {i}
    BY <1>1, WithMoved, Zenon
  <2> QED BY <2>1, <2>2
<1>3. Cardinality(r') = Cardinality(r) - 1 /\ Cardinality(r) \in Nat
      /\ Cardinality(r) # 0
  BY <1>2, OneOfIntf
<1>4. /\ num_suspended_intf = Cardinality(s)
      /\ no_urb_submission = Cardinality(r) + (IF s # {} THEN 1 ELSE 0)
  BY DEF Held, CountsMatch
<1>5. CountsMatch'
  <2>1. no_urb_submission' = Cardinality(r') + (IF s # {} THEN 1 ELSE 0)
    BY <1>1, <1>3, <1>4
  <2> QED BY <1>1, <1>2, <1>4, <2>1 DEF CountsMatch
<1>6. PhaseFits'
  <2>1. phase' = "on" => s' = {} /\ r' = {}
    BY <1>1 DEF All, With
  <2> QED BY <1>1, <2>1 DEF PhaseFits
<1>7. Good(todo', phase')
  BY <1>1, GoodOne
<1>8. no_urb_submission # 0
  BY <1>3, <1>4
<1> QED
  <2>1. phase # "gone" /\ phase' # "gone" /\ (s' # {} => s # {})
    BY <1>1, <1>2
  <2> QED BY <1>1, <1>5, <1>6, <1>7, <1>8, <2>1, StilledCalled, Zenon

LEMMA StilledCore ==
  ASSUME Held, Probed \/ Unplug \/ Disconnect
  PROVE  Held'
<1>1. /\ UNCHANGED <<intf, chipVars, flight, timerVars, freed>>
      /\ UNCHANGED <<no_urb_submission, num_suspended_intf, shutdown, timer, timer_tested>>
  BY DEF Probed, Unplug, Disconnect, urbVars, chipVars, timerVars
<1>2. CASE Probed
  <2>1. /\ todo = <<>> /\ todo' = <<>> /\ phase = "probe" /\ phase' = "on"
    BY <1>2 DEF Probed
  <2>2. CountsMatch' /\ \A which : With(which)' = With(which)
    BY <1>1, SameIntf DEF Held
  <2>3. With("suspended")' = {} /\ With("reset")' = {}
    BY <2>1, <2>2, Zenon DEF Held, PhaseFits
  <2>4. PhaseFits'
    BY <2>1, <2>3 DEF PhaseFits
  <2>5. no_urb_submission' = no_urb_submission
    BY <1>1
  <2>6. phase # "gone" /\ phase' # "gone" /\ Good(todo', phase')
    BY <2>1, GoodNothing
  <2> QED BY <1>1, <2>1, <2>2, <2>3, <2>4, <2>5, <2>6, StilledCalled
<1>3. CASE Unplug
  <2>1. /\ flight' = flight /\ timer' = timer /\ timer_tested' = timer_tested
        /\ freed' = freed
    BY <1>1
  <2>2. Good(todo', phase) /\ todo' = todo /\ UNCHANGED <<phase, freed>>
    BY <1>3 DEF Unplug, Held
  <2>3. \A u \in Urb : Stilled(u) => Stilled(u)'
    BY <1>1, <2>2 DEF Stilled
  <2>4. timer_tested' /\ no_urb_submission # 0 => In(Do("del"), todo')
    BY <2>1, <2>2, Zenon DEF Held, StilledAsleep
  <2>5. phase = "gone" /\ no_urb_submission # 0 => flight[Midi]' = "idle" /\ ~timer_tested'
    <3>1. phase = "gone" /\ no_urb_submission # 0 => flight[Midi] = "idle" /\ ~timer_tested
      BY Zenon DEF Held, StilledGone
    <3> QED BY <2>1, <3>1
  <2>6. shutdown /\ (timer' \/ timer_tested') => In(Do("del"), todo')
    BY <2>1, <2>2, Zenon DEF Held, StilledGone
  <2>7. freed' => shutdown /\ todo' = <<>>
    BY <2>1, <2>2 DEF Held, StilledGone
  <2> QED BY <1>1, <2>2, <2>3, <2>4, <2>5, <2>6, <2>7, StayStilled
<1>4. CASE Disconnect
  <2>1. todo = <<>> /\ phase # "gone" /\ phase' = "gone" /\ todo' = DisconnectSteps
    BY <1>4 DEF Disconnect
  <2>2. ~freed /\ (no_urb_submission # 0 => flight[Midi] = "idle" /\ ~timer_tested)
    BY <2>1, WhenStill
  <2> QED BY <1>1, <2>1, <2>2, StilledLeaving
<1> QED BY <1>2, <1>3, <1>4
-----------------------------------------------------------------------------
(* The invariant.                                                          *)
Kept == Flags /\ UrbTypes /\ Others /\ Bounded /\ Held

LEMMA KeptImplies == Kept => StreamsInv /\ TypeOK
<1>1. SUFFICES ASSUME Kept PROVE StreamsInv /\ TypeOK
  OBVIOUS
<1>2. /\ no_urb_submission \in 0..(Cardinality(Intf) + 1)
      /\ num_suspended_intf \in 0..Cardinality(Intf)
  BY <1>1, CountsTyped DEF Kept, Held
<1>3. todo \in Seq(Step) /\ Follows(todo) /\ Belongs(todo, phase)
  BY <1>1, Zenon DEF Kept, Held, Good
<1>4. TypeOK
  BY <1>1, <1>2, <1>3, Zenon DEF Kept, Flags, UrbTypes, Others, Bounded, TypeOK
<1> QED BY <1>1, <1>3, <1>4, Zenon DEF Kept, Held, StreamsInv

LEMMA KeptInit == Init => Kept
<1>1. SUFFICES ASSUME Init PROVE Kept
  OBVIOUS
<1>2. Flags
  BY <1>1 DEF Init, Flags
<1>3. UrbTypes
  BY <1>1 DEF Init, UrbTypes
<1>4. Others /\ Bounded
  BY <1>1, BoundAssumption DEF Init, Others, Bounded
<1>5. With("suspended") = {} /\ With("reset") = {}
  BY <1>1 DEF Init, With
<1>6. CountsMatch
  <2>1. Cardinality({}) = 0
    BY FS_EmptySet
  <2> QED BY <1>1, <1>5, <2>1 DEF Init, CountsMatch
<1>7. PhaseFits
  BY <1>1, <1>5 DEF Init, PhaseFits
<1>8. Good(todo, phase)
  <2>1. /\ Good(<<Do("run"), Do("check"), Do("start")>>, "probe")
        /\ Good(<<Do("start"), Do("run"), Do("check")>>, "probe")
    BY GoodThree
  <2> QED BY <1>1, <2>1 DEF Init
<1>9. StilledAsleep
  <2>1. no_urb_submission = 0
    BY <1>1 DEF Init
  <2> QED BY <1>5, <2>1, Zenon DEF StilledAsleep
<1>10. StilledGone
  BY <1>1 DEF Init, StilledGone
<1> QED BY <1>2, <1>3, <1>4, <1>6, <1>7, <1>8, <1>9, <1>10, Zenon DEF Kept, Held

LEMMA HeldStep == Kept /\ [Next]_vars => Held'
<1>1. SUFFICES ASSUME Kept, [Next]_vars PROVE Held'
  OBVIOUS
<1>2. Held /\ UrbTypes /\ Others
  BY <1>1, Zenon DEF Kept
<1>3. CASE UNCHANGED vars
  <2>1. UNCHANGED <<no_urb_submission, num_suspended_intf, shutdown, flight, timer,
                    timer_tested, intf, phase, todo, freed>>
    BY <1>3 DEF vars, chipVars, urbVars, timerVars, coreVars
  <2> QED BY <1>2, <2>1 DEF Held, CountsMatch, PhaseFits, With, Good, Follows, Belongs,
             StilledAsleep, StilledGone, Stilled
<1>4. ASSUME NEW u \in Urb, Complete(u) \/ Handler(u) PROVE Held'
  BY <1>2, <1>4, StilledHandled
<1>5. CASE TimerFires \/ TimerSubmits
  BY <1>2, <1>5, StilledTimer
<1>6. CASE CallbackStep
  BY <1>2, <1>6, StilledDelTimer, StilledKill, StilledStart, StilledReader,
     StilledCheck, StilledShutdown, StilledFree DEF CallbackStep
<1>7. ASSUME NEW i \in Intf,
             \/ hdj_suspend(i) \/ hdj_resume(i) \/ hdj_pre_reset(i) \/ hdj_post_reset(i)
      PROVE  Held'
  BY <1>2, <1>7, StilledSuspend, StilledResume, StilledPreReset, StilledPostReset
<1>8. CASE Probed \/ Unplug \/ Disconnect
  BY <1>2, <1>8, StilledCore
<1> QED BY <1>1, <1>3, <1>4, <1>5, <1>6, <1>7, <1>8, Zenon DEF Next

LEMMA KeptStep == Kept /\ [Next]_vars => Kept'
<1>1. SUFFICES ASSUME Kept, [Next]_vars PROVE Kept'
  OBVIOUS
<1>2. TypeOK /\ Held /\ CountsMatch /\ todo \in Seq(Step)
  BY <1>1, KeptImplies DEF Kept, Held, Good
<1>3. Held'
  BY <1>1, HeldStep
<1>4. Bounded'
  BY <1>1, <1>2, BoundedStep
<1>5. Flags' /\ UrbTypes' /\ Others'
  BY <1>1, <1>2, FlagsStep, UrbTypesStep, OthersStep DEF Kept
<1> QED BY <1>3, <1>4, <1>5, Zenon DEF Kept

(* The counts, the flags, the URBs and what is left of a callback always   *)
(* fit together as StreamsInv says, whatever hdj_suspend, hdj_resume,      *)
(* hdj_pre_reset and hdj_post_reset, the completion handlers and the timer *)
(* do, for any number of interfaces and of URBs.                           *)
THEOREM StreamsCorrect == Spec => []StreamsInv
<1>1. Spec => []Kept
  BY KeptInit, KeptStep, PTL DEF Spec
<1>2. Kept => StreamsInv
  BY KeptImplies
<1> QED BY <1>1, <1>2, PTL

(* no_urb_submission is raised exactly once for each interface in a reset  *)
(* and once for those that sleep together, so a wake or a reset that ends  *)
(* neither leaves submission forbidden for ever nor allows it too early.   *)
THEOREM CountsCorrect == Spec => []CountsMatch
<1>1. StreamsInv => CountsMatch
  BY Zenon DEF StreamsInv
<1> QED BY <1>1, StreamsCorrect, PTL

(* After the first hdj_suspend has returned no URB flies, and that of MIDI *)
(* none after hdj_pre_reset: a handler or the error timer that has tested  *)
(* can_send_urbs before it was forbidden is waited for.                    *)
THEOREM NothingFliesCorrect == Spec => []NothingFliesAsleep
<1>1. StreamsInv => NothingFliesAsleep
  <2>1. SUFFICES ASSUME StreamsInv, todo = <<>>
                 PROVE  /\ With("suspended") # {} => \A u \in Urb : flight[u] = "idle"
                        /\ With("reset") # {} => flight[Midi] = "idle"
    BY Zenon DEF NothingFliesAsleep
  <2>2. \A u \in Urb : Stilled(u) => flight[u] = "idle"
    BY <2>1, InNothing, Zenon DEF Stilled
  <2>3. Midi \in Urb
    BY DEF Urb
  <2> QED BY <2>1, <2>2, <2>3, Zenon DEF StreamsInv, StilledAsleep
<1> QED BY <1>1, StreamsCorrect, PTL

(* Nothing touches what hdj_delete and snd_hdj_free have freed: by then    *)
(* every URB is idle, the timer is deleted and its handler has returned.   *)
THEOREM NothingAfterFreeCorrect == Spec => []NothingAfterFree
<1>1. StreamsInv => NothingAfterFree
  <2>1. SUFFICES ASSUME StreamsInv, freed
                 PROVE  ~timer /\ ~timer_tested /\ \A u \in Urb : flight[u] = "idle"
    BY Zenon DEF NothingAfterFree
  <2>2. shutdown /\ todo = <<>>
    BY <2>1, Zenon DEF StreamsInv, StilledGone
  <2>3. \A x : ~In(x, todo)
    BY <2>2, InNothing
  <2> QED BY <2>1, <2>2, <2>3, Zenon DEF StreamsInv, StilledGone, Stilled
<1> QED BY <1>1, StreamsCorrect, PTL

-----------------------------------------------------------------------------
(* The streams run.                                                        *)

(* Where the device wakes or is probed, nothing forbids submission.        *)
LEMMA MaySend ==
  ASSUME Held, phase \in {"probe", "on"}
  PROVE  CanSend
<1>1. no_urb_submission = 0
  BY Forbidden DEF Held, PhaseFits
<1>2. ~shutdown
  BY DEF Held, StilledGone
<1>  QED  BY <1>1, <1>2 DEF CanSend

(* What is left of a list fits, and so does the step that is taken.        *)
LEMMA FitTail ==
  ASSUME NEW p, NEW s \in Seq(Step), s # <<>>, StepsFit(s, p)
  PROVE  /\ StepsFit(Tail(s), p)
         /\ p \in {"probe", "on"} => Head(s).do \in {"start", "run", "check"}
         /\ p \in {"pre", "post"} => Head(s).do \in {"del", "start"} \/ Head(s) = Do("kill")
         /\ p \in {"sleep", "asleep", "wake"} => Head(s).do \in {"del", "kill", "stop"}
<1>1. /\ Tail(s) \in Seq(Step) /\ Len(Tail(s)) = Len(s) - 1 /\ Len(s) \in Nat \ {0}
      /\ \A i \in 1..Len(Tail(s)) : Tail(s)[i] = s[i + 1]
      /\ Head(s) = s[1]
  BY HeadTailProperties, LenProperties, EmptySeq
<1>2. \A k \in 1..Len(Tail(s)) : k + 1 \in 1..Len(s) /\ Tail(s)[k] = s[k + 1]
  BY <1>1
<1>3. 1 \in 1..Len(s)
  BY <1>1
<1>  QED  BY <1>1, <1>2, <1>3 DEF StepsFit

(* Two lists fit, one after the other.                                     *)
LEMMA FitConcat ==
  ASSUME NEW p, NEW s \in Seq(Step), NEW t \in Seq(Step), StepsFit(s, p), StepsFit(t, p)
  PROVE  StepsFit(s \o t, p)
<1>1. /\ s \o t \in Seq(Step) /\ Len(s \o t) = Len(s) + Len(t)
      /\ Len(s) \in Nat /\ Len(t) \in Nat
  BY ConcatProperties, LenProperties
<1>2. ASSUME NEW k \in 1..Len(s \o t)
      PROVE  \/ \E j \in 1..Len(s) : (s \o t)[k] = s[j]
             \/ \E j \in 1..Len(t) : (s \o t)[k] = t[j]
  <2>1. CASE k <= Len(s)
    <3>1. k \in 1..Len(s) /\ (s \o t)[k] = s[k]
      BY <1>1, <2>1, ConcatProperties
    <3>  QED  BY <3>1
  <2>2. CASE ~(k <= Len(s))
    <3>1. k - Len(s) \in 1..Len(t) /\ k \in 1..(Len(s) + Len(t))
      BY <1>1, <2>2
    <3>2. (s \o t)[k] = t[k - Len(s)]
      BY <2>2, <3>1, ConcatProperties
    <3>  QED  BY <3>1, <3>2
  <2>  QED  BY <2>1, <2>2
<1>  QED  BY <1>2 DEF StepsFit

(* The lists of the callbacks fit their phases.                            *)
LEMMA FitLists ==
  /\ \A p : StepsFit(<<>>, p)
  /\ \A p \in {"probe", "on"} : StepsFit(<<Do("start"), Do("run")>>, p) /\ StepsFit(Each("start"), p)
  /\ \A p \in {"probe", "on", "post"} : StepsFit(<<Do("start")>>, p)
  /\ StepsFit(<<Do("start"), Do("run"), Do("check")>>, "probe")
  /\ StepsFit(<<Do("run"), Do("check"), Do("start")>>, "probe")
  /\ \A p \in {"pre", "post"} : StepsFit(KillMidi, p)
  /\ \A p \in {"sleep", "asleep", "wake"} : StepsFit(Each("kill"), p)
  /\ \A p \in {"sleep", "asleep"} : StepsFit(SuspendSteps, p)
<1>1. Each("start") \in Seq(Step) /\ Each("kill") \in Seq(Step)
  BY GoodEach DEF Good
<1>2. \A w \in {"start", "kill"} : \A k \in 1..Len(Each(w)) : Each(w)[k].do = w
  <2>1. \A w \in {"start", "kill"} : Each(w) = [u \in 1..Urbs |-> [do |-> w, urb |-> u]]
    BY DEF Each, Reader
  <2>2. \A w \in {"start", "kill"} : Len(Each(w)) = Urbs
    BY <2>1, UrbsAssumption
  <2>  QED  BY <2>1, <2>2
<1>3. \A p : StepsFit(<<>>, p)
  BY DEF StepsFit
<1>4. /\ \A p \in {"probe", "on"} : StepsFit(Each("start"), p)
      /\ \A p \in {"sleep", "asleep", "wake"} : StepsFit(Each("kill"), p)
  BY <1>2 DEF StepsFit
<1>5. /\ \A p \in {"probe", "on"} : StepsFit(<<Do("start"), Do("run")>>, p)
      /\ \A p \in {"probe", "on", "post"} : StepsFit(<<Do("start")>>, p)
      /\ StepsFit(<<Do("start"), Do("run"), Do("check")>>, "probe")
      /\ StepsFit(<<Do("run"), Do("check"), Do("start")>>, "probe")
  BY DEF StepsFit, Do
<1>6. /\ \A p \in {"pre", "post"} : StepsFit(KillMidi, p)
      /\ \A p \in {"sleep", "asleep"} : StepsFit(KillMidi, p)
      /\ \A p \in {"sleep", "asleep"} : StepsFit(<<Do("stop")>>, p)
  BY DEF StepsFit, Do, KillMidi
<1>7. KillMidi \in Seq(Step) /\ <<Do("stop")>> \in Seq(Step) /\ KillMidi \o Each("kill") \in Seq(Step)
  BY GoodKillMidi, GoodOne, <1>1, ConcatProperties DEF Good
<1>8. ASSUME NEW p \in {"sleep", "asleep"} PROVE StepsFit(SuspendSteps, p)
  <2>1. StepsFit(KillMidi \o Each("kill"), p)
    BY <1>1, <1>4, <1>6, <1>7, FitConcat
  <2>  QED  BY <2>1, <1>6, <1>7, FitConcat DEF SuspendSteps
<1>  QED  BY <1>3, <1>4, <1>5, <1>6, <1>8

(* A submission leaves the other URBs as they are, and its own in flight   *)
(* or excused, but for an URB that is being killed or is no longer there.  *)
LEMMA SubmitExcuses ==
  ASSUME UrbTypes, NEW u \in Urb, Submit(u)
  PROVE  /\ \A v \in Urb : v # u /\ Excused(v) => Excused(v)'
         /\ present /\ ~Killing(u) => Excused(u)'
         /\ flight'[u] # "done" /\ \A v \in Urb : v # u => flight'[v] = flight[v]
BY DEF Submit, SubmitTaken, SubmitFails, UrbTypes, Excused

(* Steps that leave lists and phases alone, and excuse what was excused.   *)
LEMMA RunLeft ==
  ASSUME RunInv, UNCHANGED <<todo, phase, reader_state, intf>>, present' => present,
         present /\ phase \in {"probe", "on", "pre", "post"} =>
           \A u \in Reader : Excused(u) => Excused(u)',
         present /\ phase \in {"probe", "on"} =>
           /\ Excused(Midi) => Excused(Midi)'
           /\ flight'[Midi] = "done" => status'[Midi] # "unlinked"
  PROVE  RunInv'
<1>1. \A u \in Urb : present /\ phase \in {"probe", "on"} /\ Due(u) => Due(u)'
  BY DEF Due, Urb, ToRun
<1>  QED  BY <1>1 DEF RunInv, ToRun, With
(* No URB is killed while the device is awake, and of a reset only that of *)
(* MIDI.                                                                   *)
LEMMA KilledThen ==
  ASSUME RunInv, todo \in Seq(Step), NEW u \in Urb, Killing(u)
  PROVE  phase \notin {"probe", "on"} /\ (phase \in {"pre", "post"} => u = Midi)
<1>1. todo # <<>> /\ Head(todo) = [do |-> "kill", urb |-> u]
  BY DEF Killing
<1>2. /\ phase \in {"probe", "on"} => Head(todo).do \in {"start", "run", "check"}
      /\ phase \in {"pre", "post"} =>
           Head(todo).do \in {"del", "start"} \/ Head(todo) = Do("kill")
  BY <1>1, FitTail DEF RunInv
<1>  QED  BY <1>1, <1>2 DEF Do

(* The host controller, the handlers and the timer.                        *)
LEMMA RunSubmitted ==
  ASSUME RunInv, UrbTypes, todo \in Seq(Step), NEW u \in Urb, Submit(u),
         UNCHANGED <<todo, phase, reader_state, intf, present, status>>
  PROVE  RunInv'
<1>1. /\ \A v \in Urb : v # u /\ Excused(v) => Excused(v)'
      /\ present /\ ~Killing(u) => Excused(u)'
      /\ flight'[u] # "done" /\ \A v \in Urb : v # u => flight'[v] = flight[v]
  BY SubmitExcuses
<1>2. /\ Killing(u) => phase \notin {"probe", "on"} /\ (phase \in {"pre", "post"} => u = Midi)
      /\ Midi \in Urb /\ Midi \notin Reader /\ Reader \subseteq Urb
  BY KilledThen DEF Urb, Midi, Reader
<1>3. present /\ phase \in {"probe", "on", "pre", "post"} =>
        \A v \in Reader : Excused(v) => Excused(v)'
  BY <1>1, <1>2
<1>4. present /\ phase \in {"probe", "on"} =>
        /\ Excused(Midi) => Excused(Midi)'
        /\ flight'[Midi] = "done" => status'[Midi] # "unlinked"
  BY <1>1, <1>2 DEF RunInv
<1>  QED  BY <1>3, <1>4, RunLeft

LEMMA RunHandled ==
  ASSUME RunInv, Held, UrbTypes, NEW u \in Urb, Complete(u) \/ Handler(u)
  PROVE  RunInv'
<1>1. /\ Midi \in Urb /\ Midi \notin Reader /\ Reader \subseteq Urb
      /\ todo \in Seq(Step)
  BY DEF Urb, Midi, Reader, Held, Good
<1>2. CASE Complete(u)
  <2>1. /\ UNCHANGED <<todo, phase, reader_state, intf, present, unlucky, lost>>
        /\ flight' = [flight EXCEPT ![u] = "done"]
    BY <1>2 DEF Complete, coreVars, ghostVars
  <2>2. \A v \in Urb : Excused(v) => Excused(v)'
    BY <2>1 DEF Excused, UrbTypes
  <2>3. ASSUME present, phase \in {"probe", "on"}, flight'[Midi] = "done"
        PROVE  status'[Midi] # "unlinked"
    <3>1. CASE u = Midi
      BY <1>2, <2>3, <3>1 DEF Complete, UrbTypes
    <3>2. CASE u # Midi
      <4>1. flight'[Midi] = flight[Midi] /\ status'[Midi] = status[Midi]
        BY <1>1, <1>2, <3>2 DEF Complete, UrbTypes
      <4>  QED  BY <2>3, <4>1 DEF RunInv
    <3>  QED  BY <3>1, <3>2
  <2>  QED  BY <1>1, <2>1, <2>2, <2>3, RunLeft
<1>3. CASE ReaderTest(u)
  <2>1. /\ UNCHANGED <<todo, phase, reader_state, intf, present, unlucky, status>>
        /\ u \in Reader
        /\ flight' = [flight EXCEPT ![u] = IF CanSend THEN "tested" ELSE "idle"]
        /\ lost' = IF ~CanSend /\ Resetting THEN lost \cup {u} ELSE lost
    BY <1>3 DEF ReaderTest, coreVars
  <2>2. flight'[Midi] = flight[Midi] /\ (Excused(Midi) => Excused(Midi)')
    BY <1>1, <2>1 DEF Excused, UrbTypes
  <2>3. ASSUME phase \in {"probe", "on", "pre", "post"} PROVE CanSend \/ Resetting
    BY <2>3, MaySend DEF Resetting
  <2>4. ASSUME phase \in {"probe", "on", "pre", "post"}, NEW v \in Reader, Excused(v)
        PROVE  Excused(v)'
    BY <1>1, <2>1, <2>3, <2>4 DEF Excused, UrbTypes
  <2>5. present /\ phase \in {"probe", "on"} =>
          (flight'[Midi] = "done" => status'[Midi] # "unlinked")
    BY <2>1, <2>2 DEF RunInv
  <2>  QED  BY <2>1, <2>2, <2>4, <2>5, RunLeft
<1>4. CASE MidiTest
  <2>1. /\ UNCHANGED <<todo, phase, reader_state, intf, present, lost, status>>
        /\ flight[Midi] = "done"
        /\ flight' = [flight EXCEPT ![Midi] =
                        IF status[Midi] = "ok" /\ CanSend THEN "tested" ELSE "idle"]
        /\ unlucky' = IF status[Midi] = "error" THEN unlucky \cup {Midi} ELSE unlucky
    BY <1>4 DEF MidiTest, coreVars
  <2>2. \A v \in Reader : Excused(v) => Excused(v)'
    BY <1>1, <2>1 DEF Excused, UrbTypes
  <2>3. flight'[Midi] # "done"
    BY <1>1, <2>1 DEF UrbTypes
  <2>4. ASSUME present, phase \in {"probe", "on"} PROVE Excused(Midi)'
    <3>1. CanSend /\ status[Midi] \in {"ok", "error"}
      BY <1>1, <2>1, <2>4, MaySend DEF RunInv, UrbTypes
    <3>  QED  BY <1>1, <2>1, <3>1 DEF Excused, UrbTypes
  <2>  QED  BY <2>1, <2>2, <2>3, <2>4, RunLeft
<1>5. CASE HandlerSubmits(u)
  <2>1. Submit(u) /\ UNCHANGED <<todo, phase, reader_state, intf, present, status>>
    BY <1>5 DEF HandlerSubmits, coreVars
  <2>  QED  BY <1>1, <2>1, RunSubmitted
<1>  QED  BY <1>2, <1>3, <1>4, <1>5 DEF Handler

LEMMA RunTimer ==
  ASSUME RunInv, UrbTypes, todo \in Seq(Step), TimerFires \/ TimerSubmits
  PROVE  RunInv'
<1>1. UNCHANGED <<todo, phase, reader_state, intf, present, status>>
  BY DEF TimerFires, TimerSubmits, coreVars, urbVars
<1>2. Midi \in Urb
  BY DEF Urb
<1>3. CASE UNCHANGED <<flight, ghostVars>>
  <2>1. \A v \in Urb : Excused(v) => Excused(v)'
    BY <1>3 DEF Excused, ghostVars
  <2>2. flight' = flight
    BY <1>3
  <2>3. present /\ phase \in {"probe", "on"} =>
          (flight'[Midi] = "done" => status'[Midi] # "unlinked")
    BY <1>1, <2>2 DEF RunInv
  <2>  QED  BY <1>1, <1>2, <2>1, <2>3, RunLeft DEF Urb
<1>4. CASE Submit(Midi)
  BY <1>1, <1>2, <1>4, RunSubmitted
<1>5. UNCHANGED <<flight, ghostVars>> \/ Submit(Midi)
  BY DEF TimerFires, TimerSubmits, SubmitTwice, urbVars
<1>  QED  BY <1>3, <1>4, <1>5
(* The steps of a callback.                                                *)
LEMMA RunGone ==
  ASSUME phase' = "gone"
  PROVE  RunInv'
BY DEF RunInv, StepsFit

LEMMA RunTaken ==
  ASSUME RunInv, Held, todo # <<>>
  PROVE  /\ Tail(todo) \in Seq(Step) /\ StepsFit(Tail(todo), phase)
         /\ \A x : In(x, todo) => x = Head(todo) \/ In(x, Tail(todo))
         /\ phase \in {"probe", "on"} => Head(todo).do \in {"start", "run", "check"}
         /\ phase \in {"pre", "post"} =>
              Head(todo).do \in {"del", "start"} \/ Head(todo) = Do("kill")
         /\ phase \in {"sleep", "asleep", "wake"} => Head(todo).do \in {"del", "kill", "stop"}
<1>1. todo \in Seq(Step) /\ Good(todo, phase) /\ StepsFit(todo, phase)
  BY DEF Held, Good, RunInv
<1>2. /\ Good(Tail(todo), phase)
      /\ \A x : In(x, todo) => x = Head(todo) \/ In(x, Tail(todo))
  BY <1>1, GoodTail, Zenon
<1>3. /\ StepsFit(Tail(todo), phase)
      /\ phase \in {"probe", "on"} => Head(todo).do \in {"start", "run", "check"}
      /\ phase \in {"pre", "post"} =>
           Head(todo).do \in {"del", "start"} \/ Head(todo) = Do("kill")
      /\ phase \in {"sleep", "asleep", "wake"} => Head(todo).do \in {"del", "kill", "stop"}
  BY <1>1, FitTail
<1>  QED  BY <1>2, <1>3 DEF Good

LEMMA RunStills ==
  ASSUME RunInv, Held, UrbTypes, DelTimer \/ Kill
  PROVE  RunInv'
<1>1. /\ UNCHANGED <<phase, reader_state, intf, present, unlucky, lost>>
      /\ todo # <<>> /\ Head(todo).do \in {"del", "kill"}
      /\ todo' = todo \/ todo' = Tail(todo)
  BY DEF DelTimer, Kill, Now, Next1, coreVars, ghostVars
<1>2. /\ StepsFit(Tail(todo), phase)
      /\ \A x : In(x, todo) => x = Head(todo) \/ In(x, Tail(todo))
      /\ phase \notin {"probe", "on"}
  BY <1>1, RunTaken
<1>3. StepsFit(todo', phase) /\ (In(Do("stop"), todo) => In(Do("stop"), todo'))
  <2>1. Head(todo) # Do("stop") /\ StepsFit(todo, phase)
    BY <1>1 DEF Do, RunInv
  <2>  QED  BY <1>1, <1>2, <2>1, Zenon
<1>4. \A v \in Urb : flight[v] # "idle" => flight'[v] # "idle"
  BY DEF DelTimer, Kill, UrbTypes, urbVars
<1>5. \A v \in Reader : Excused(v) => Excused(v)'
  BY <1>1, <1>4 DEF Excused, Urb
<1>  QED  BY <1>1, <1>2, <1>3, <1>5 DEF RunInv, With

LEMMA RunStop ==
  ASSUME RunInv, Held, StopReader
  PROVE  RunInv'
<1>1. /\ UNCHANGED <<phase, intf, present>> /\ todo # <<>> /\ Head(todo).do = "stop"
      /\ \/ reader_state = "CR_STARTED" /\ reader_state' = "CR_STOPPED"
            /\ todo' = Each("kill") \o Tail(todo)
         \/ reader_state # "CR_STARTED" /\ reader_state' = reader_state /\ todo' = Tail(todo)
  BY DEF StopReader, Now, Next1, coreVars
<1>2. /\ Tail(todo) \in Seq(Step) /\ StepsFit(Tail(todo), phase)
      /\ phase \notin {"probe", "on", "pre", "post"}
  BY <1>1, RunTaken DEF Do
<1>3. phase \in {"sleep", "asleep", "wake"} => StepsFit(Each("kill") \o Tail(todo), phase)
  <2>1. Each("kill") \in Seq(Step)
    BY GoodEach DEF Good
  <2>  QED  BY <1>2, <2>1, FitLists, FitConcat
<1>4. phase \in {"sleep", "asleep", "wake"} =>
        /\ StepsFit(todo', phase)
        /\ present => reader_state' = "CR_STOPPED"
  BY <1>1, <1>2, <1>3 DEF RunInv
<1>5. StepsFit(todo', phase)
  BY <1>2, <1>4 DEF StepsFit
<1>  QED  BY <1>1, <1>2, <1>4, <1>5 DEF RunInv, With

LEMMA RunStart ==
  ASSUME RunInv, Held, UrbTypes, Start
  PROVE  RunInv'
<1>1. /\ UNCHANGED <<phase, reader_state, intf, present, status>>
      /\ todo # <<>> /\ Head(todo).do = "start" /\ todo' = Tail(todo)
  BY DEF Start, Now, Next1, coreVars
<1>2. /\ StepsFit(Tail(todo), phase)
      /\ \A x : In(x, todo) => x = Head(todo) \/ In(x, Tail(todo))
      /\ phase \notin {"sleep", "asleep", "wake"}
  BY <1>1, RunTaken
<1>3. PICK u \in Urb : Head(todo) = [do |-> "start", urb |-> u] /\ u = Head(todo).urb
  BY <1>1, HeadUrb DEF Held, Good
<1>4. ~Killing(u) /\ IF CanSend /\ flight[u] = "idle" THEN Submit(u) ELSE SubmitTwice(u)
  <2>1. IF CanSend /\ flight[u] = "idle" THEN Submit(u) ELSE SubmitTwice(u)
    BY <1>3, Zenon DEF Start
  <2>  QED  BY <1>3, <2>1 DEF Killing
<1>5. /\ \A v \in Urb : Excused(v) /\ present => Excused(v)'
      /\ CanSend /\ present => Excused(u)'
      /\ flight'[Midi] = "done" => flight[Midi] = "done"
  <2>1. CASE Submit(u)
    <3>1. /\ \A v \in Urb : v # u /\ Excused(v) => Excused(v)'
          /\ present => Excused(u)'
          /\ flight'[u] # "done" /\ \A v \in Urb : v # u => flight'[v] = flight[v]
      BY <1>4, <2>1, SubmitExcuses, Zenon
    <3>2. Midi \in Urb
      BY DEF Urb
    <3>3. flight'[Midi] = "done" => flight[Midi] = "done"
      BY <3>1, <3>2, Zenon
    <3>4. \A v \in Urb : Excused(v) /\ present => Excused(v)'
      BY <3>1, Zenon
    <3>  QED  BY <3>1, <3>3, <3>4, Zenon
  <2>2. CASE SubmitTwice(u) /\ ~(CanSend /\ flight[u] = "idle")
    <3>1. flight' = flight /\ unlucky' = unlucky /\ lost' = lost
      BY <2>2 DEF SubmitTwice, ghostVars
    <3>2. \A v \in Urb : Excused(v) => Excused(v)'
      BY <3>1 DEF Excused
    <3>3. CanSend => Excused(u)
      BY <2>2 DEF Excused
    <3>  QED  BY <3>1, <3>2, <3>3
  <2>  QED  BY <1>4, <2>1, <2>2
<1>6. Do("run") # Head(todo) /\ (ToRun => ToRun')
  BY <1>1, <1>2 DEF Do, ToRun
<1>7. ASSUME present, phase \in {"probe", "on"}
      PROVE  /\ \A v \in Urb : Due(v)'
             /\ reader_state' = "CR_STARTED" \/ ToRun'
             /\ flight'[Midi] = "done" => status'[Midi] # "unlinked"
  <2>1. CanSend
    BY <1>7, MaySend
  <2>2. ASSUME NEW v \in Urb, v # u PROVE Due(v)'
    <3>1. Due(v) /\ [do |-> "start", urb |-> v] # Head(todo)
      BY <1>3, <1>7, <2>2 DEF RunInv
    <3>  QED  BY <1>1, <1>2, <1>5, <1>6, <1>7, <3>1 DEF Due
  <2>3. Due(u)'
    BY <1>5, <1>7, <2>1 DEF Due
  <2>4. \A v \in Urb : Due(v)'
    BY <1>3, <2>2, <2>3
  <2>  QED  BY <1>1, <1>5, <1>6, <1>7, <2>4 DEF RunInv
<1>8. present /\ phase \in {"pre", "post"} =>
        (\A v \in Reader : Excused(v)') /\ reader_state' = "CR_STARTED"
  BY <1>1, <1>5 DEF RunInv, Urb
<1>  QED  BY <1>1, <1>2, <1>7, <1>8 DEF RunInv, With

LEMMA RunStartReader ==
  ASSUME RunInv, Held, StartReader
  PROVE  RunInv'
<1>1. /\ UNCHANGED <<phase, intf, present, flight, status, unlucky, lost>>
      /\ todo # <<>> /\ Head(todo).do = "run"
      /\ \/ reader_state = "CR_STOPPED" /\ reader_state' = "CR_STARTED"
            /\ todo' = Each("start") \o Tail(todo)
         \/ reader_state # "CR_STOPPED" /\ reader_state' = reader_state /\ todo' = Tail(todo)
  BY DEF StartReader, Now, Next1, coreVars, urbVars, ghostVars
<1>2. /\ Tail(todo) \in Seq(Step) /\ StepsFit(Tail(todo), phase)
      /\ Good(Tail(todo), phase)
      /\ \A x : In(x, todo) => x = Head(todo) \/ In(x, Tail(todo))
      /\ phase \notin {"sleep", "asleep", "wake", "pre", "post"}
  <2>1. Good(Tail(todo), phase)
    BY <1>1, Taken, Zenon DEF Now
  <2>  QED  BY <1>1, <2>1, RunTaken DEF Do
<1>3. \A v \in Urb : Excused(v) => Excused(v)'
  BY <1>1 DEF Excused
<1>4. \A v \in Urb : [do |-> "start", urb |-> v] # Head(todo)
  BY <1>1
<1>5. CASE reader_state = "CR_STOPPED"
  <2>1. reader_state' = "CR_STARTED" /\ todo' = Each("start") \o Tail(todo)
    BY <1>1, <1>5
  <2>2. /\ \A v \in Reader : In([do |-> "start", urb |-> v], todo')
        /\ \A x : In(x, Tail(todo)) => In(x, todo')
    BY <1>2, <2>1, GoodEach, GoodConcat
  <2>3. phase \in {"probe", "on"} => StepsFit(todo', phase)
    <3>1. Each("start") \in Seq(Step)
      BY GoodEach DEF Good
    <3>  QED  BY <1>2, <2>1, <3>1, FitLists, FitConcat
  <2>4. StepsFit(todo', phase)
    BY <1>2, <2>3 DEF StepsFit
  <2>5. ASSUME present, phase \in {"probe", "on"}, NEW v \in Urb PROVE Due(v)'
    <3>1. CASE v \in Reader
      BY <2>2, <3>1 DEF Due
    <3>2. CASE v = Midi
      <4>1. Excused(v) \/ In([do |-> "start", urb |-> v], todo)
        BY <2>5, <3>2 DEF RunInv, Due, Reader, Midi
      <4>  QED  BY <1>2, <1>3, <1>4, <2>2, <4>1 DEF Due
    <3>  QED  BY <3>1, <3>2 DEF Urb
  <2>  QED  BY <1>1, <1>2, <2>1, <2>4, <2>5 DEF RunInv
<1>6. CASE reader_state # "CR_STOPPED"
  <2>1. reader_state' = reader_state /\ todo' = Tail(todo)
    BY <1>1, <1>6
  <2>2. ASSUME present, phase \in {"probe", "on"}, NEW v \in Urb PROVE Due(v)'
    <3>1. Excused(v) \/ In([do |-> "start", urb |-> v], todo)
      BY <1>6, <2>2 DEF RunInv, Due, ToRun
    <3>  QED  BY <1>2, <1>3, <1>4, <2>1, <3>1 DEF Due
  <2>  QED  BY <1>1, <1>2, <1>6, <2>1, <2>2 DEF RunInv, ToRun
<1>  QED  BY <1>5, <1>6

LEMMA RunCheck ==
  ASSUME RunInv, Held, CheckStarted
  PROVE  RunInv'
<1>1. /\ UNCHANGED <<intf, present, flight, status, reader_state, unlucky, lost>>
      /\ todo # <<>> /\ Head(todo).do = "check" /\ Now("check")
      /\ phase' = "gone" \/ (todo' = Tail(todo) /\ phase' = phase)
  BY DEF CheckStarted, Now, Next1, urbVars, ghostVars
<1>2. /\ StepsFit(Tail(todo), phase) /\ phase = "probe"
      /\ \A x : In(x, todo) => x = Head(todo) \/ In(x, Tail(todo))
  BY <1>1, RunTaken, Taken, Zenon
<1>3. CASE todo' = Tail(todo) /\ phase' = phase
  <2>1. \A v \in Urb : Excused(v) => Excused(v)'
    BY <1>1 DEF Excused
  <2>2. /\ ToRun => ToRun'
        /\ \A v \in Urb : In([do |-> "start", urb |-> v], todo) =>
                          In([do |-> "start", urb |-> v], todo')
    BY <1>1, <1>2, <1>3 DEF Do, ToRun
  <2>3. \A v \in Urb : Due(v) => Due(v)'
    BY <2>1, <2>2 DEF Due
  <2>  QED  BY <1>1, <1>2, <1>3, <2>2, <2>3 DEF RunInv, With
<1>  QED  BY <1>1, <1>3, RunGone

LEMMA RunLeaves ==
  ASSUME RunInv, Held, Others, UninitReader \/ Shutdown \/ Free
  PROVE  RunInv'
<1>1. phase' = phase /\ todo # <<>> /\ Head(todo).do \in {"uninit", "shut", "free"}
  BY DEF UninitReader, Shutdown, Free, Now, coreVars
<1>2. phase = "gone"
  BY <1>1, RunTaken DEF Others, Do
<1>  QED  BY <1>1, <1>2, RunGone
(* The callbacks of the core: when one has returned, nothing is left to do *)
(* and whatever was due has been done.                                     *)
LEMMA RunReturned ==
  ASSUME RunInv, todo = <<>>
  PROVE  /\ \A p : StepsFit(todo, p)
         /\ present /\ phase \in {"probe", "on"} =>
              (\A u \in Urb : Excused(u)) /\ reader_state = "CR_STARTED"
         /\ present /\ phase \in {"sleep", "asleep", "wake"} => reader_state = "CR_STOPPED"
BY InNothing, FitLists, Zenon DEF RunInv, Due, ToRun

LEMMA RunSuspend ==
  ASSUME RunInv, Held, Others, NEW i \in Intf, hdj_suspend(i)
  PROVE  RunInv'
<1>1. /\ todo = <<>> /\ Set(i, "suspended") /\ phase \in {"on", "sleep"}
      /\ phase' \in {"asleep", "sleep"}
      /\ UNCHANGED <<reader_state, present>>
      /\ todo' = SuspendSteps \/ (todo' = <<>> /\ num_suspended_intf' # 1
                                   /\ num_suspended_intf' = num_suspended_intf + 1)
  <2>1. phase' = "asleep" \/ phase' = "sleep"
    BY Zenon DEF hdj_suspend
  <2>2. phase = "on" \/ phase = "sleep"
    BY Zenon DEF hdj_suspend
  <2>3. todo' = SuspendSteps \/ (todo' = <<>> /\ num_suspended_intf' # 1
                                  /\ num_suspended_intf' = num_suspended_intf + 1)
    <3>1. todo = <<>>
      BY Zenon DEF hdj_suspend
    <3>2. \/ num_suspended_intf' = 1 /\ todo' = SuspendSteps
          \/ num_suspended_intf' # 1 /\ UNCHANGED <<no_urb_submission, todo>>
      BY Zenon DEF hdj_suspend
    <3>3. num_suspended_intf' = num_suspended_intf + 1
      BY Zenon DEF hdj_suspend
    <3>  QED  BY <3>1, <3>2, <3>3
  <2>4. todo = <<>> /\ Set(i, "suspended") /\ UNCHANGED <<reader_state, present>>
    BY Zenon DEF hdj_suspend
  <2>  QED  BY <2>1, <2>2, <2>3, <2>4
<1>2. With("reset")' = {}
  <2>1. With("reset") = {}
    BY <1>1 DEF RunInv, Held, PhaseFits
  <2>  QED  BY <1>1, <2>1, WithMoved
<1>3. In(Do("stop"), SuspendSteps)
  <2>1. /\ Good(KillMidi \o Each("kill"), phase) /\ NeverFree(KillMidi \o Each("kill"))
        /\ Good(<<Do("stop")>>, phase) /\ In(Do("stop"), <<Do("stop")>>)
    BY GoodKillMidi, GoodEach, GoodConcat, GoodOne
  <2>  QED  BY <2>1, GoodConcat DEF SuspendSteps
<1>4. StepsFit(todo', phase')
  BY <1>1, FitLists
<1>5. present =>
        \/ reader_state = "CR_STOPPED"
        \/ reader_state = "CR_STARTED" /\ todo' = SuspendSteps
  <2>1. CASE phase = "on"
    <3>1. num_suspended_intf = 0
      <4>1. With("suspended") = {}
        BY <2>1 DEF Held, PhaseFits
      <4>  QED  BY <4>1, FS_EmptySet DEF Held, CountsMatch
    <3>2. present => reader_state = "CR_STARTED"
      BY <1>1, <2>1, RunReturned
    <3>  QED  BY <1>1, <3>1, <3>2
  <2>2. CASE phase = "sleep"
    BY <1>1, <2>2, RunReturned
  <2>  QED  BY <1>1, <2>1, <2>2
<1>  QED  BY <1>1, <1>2, <1>3, <1>4, <1>5 DEF RunInv

LEMMA RunResume ==
  ASSUME RunInv, Held, Held', Others, NEW i \in Intf, hdj_resume(i)
  PROVE  RunInv'
<1>1. /\ todo = <<>> /\ Set(i, "on") /\ phase \in {"sleep", "asleep", "wake"}
      /\ intf[i] = "suspended"
      /\ (phase' = "on" /\ All("on")) \/ (phase' = "wake" /\ ~All("on"))
      /\ UNCHANGED <<reader_state, present, flight>>
      /\ num_suspended_intf' = 0 => todo' = <<Do("start"), Do("run")>>
      /\ num_suspended_intf' # 0 => todo' = <<>>
  <2>1. phase' = IF All("on") THEN "on" ELSE "wake"
    BY Zenon DEF hdj_resume
  <2>2. phase \in {"sleep", "asleep", "wake"}
    BY Zenon DEF hdj_resume
  <2>3. todo = <<>> /\ Set(i, "on") /\ intf[i] = "suspended"
    BY Zenon DEF hdj_resume
  <2>4. UNCHANGED <<reader_state, present, flight>>
    <3>1. UNCHANGED <<reader_state, present, urbVars>>
      BY Zenon DEF hdj_resume
    <3>  QED  BY <3>1 DEF urbVars
  <2>5. \/ num_suspended_intf' = 0 /\ todo' = <<Do("start"), Do("run")>>
        \/ num_suspended_intf' # 0 /\ UNCHANGED <<no_urb_submission, todo>>
    BY Zenon DEF hdj_resume
  <2>6. (phase' = "on" /\ All("on")) \/ (phase' = "wake" /\ ~All("on"))
    BY <2>1, Zenon
  <2>  QED  BY <2>2, <2>3, <2>4, <2>5, <2>6
<1>2. With("reset")' = {} /\ With("suspended")' = With("suspended") \ {i}
  <2>1. With("reset") = {}
    BY <1>1 DEF RunInv
  <2>  QED  BY <1>1, <2>1, WithMoved, Zenon
<1>3. With("suspended") # {}
  BY <1>1 DEF With
<1>4. flight[Midi] = "idle" /\ (present => reader_state = "CR_STOPPED")
  BY <1>1, <1>3, WhenStill, RunReturned DEF Urb
<1>5. CASE phase' = "on"
  <2>1. With("suspended")' = {}
    BY <1>5 DEF Held, PhaseFits
  <2>2. num_suspended_intf' = 0
    BY <2>1, FS_EmptySet DEF Held, CountsMatch
  <2>3. todo' = <<Do("start"), Do("run")>>
    BY <1>1, <2>2
  <2>4. StepsFit(todo', phase')
    BY <1>5, <2>3, FitLists
  <2>5. In(Do("start"), todo') /\ In(Do("run"), todo')
    <3>1. Len(todo') = 2 /\ todo'[1] = Do("start") /\ todo'[2] = Do("run")
      BY <2>3
    <3>2. 1 \in 1..Len(todo') /\ 2 \in 1..Len(todo')
      BY <3>1
    <3>  QED  BY <3>1, <3>2 DEF In
  <2>6. present => ToRun'
    BY <1>1, <1>4, <2>5 DEF ToRun
  <2>7. ASSUME present, NEW u \in Urb PROVE Due(u)'
    <3>1. CASE u \in Reader
      BY <2>6, <2>7, <3>1 DEF Due
    <3>2. CASE u = Midi
      BY <2>5, <3>2 DEF Due, Do
    <3>  QED  BY <3>1, <3>2 DEF Urb
  <2>  QED  BY <1>1, <1>2, <1>4, <1>5, <2>4, <2>6, <2>7 DEF RunInv
<1>6. CASE phase' = "wake"
  <2>1. With("suspended")' # {}
    <3>1. PICK j \in Intf : intf'[j] # "on"
      BY <1>1, <1>6 DEF All
    <3>2. intf'[j] \in {"on", "suspended", "reset"}
      BY <1>1, <3>1 DEF Others, Set
    <3>  QED  BY <1>2, <3>1, <3>2 DEF With
  <2>2. num_suspended_intf' # 0
    <3>1. With("suspended")' \in SUBSET Intf
      BY DEF With
    <3>2. Cardinality(With("suspended")') # 0
      BY <2>1, <3>1, OneOfIntf
    <3>3. num_suspended_intf' = Cardinality(With("suspended")')
      BY DEF Held, CountsMatch
    <3>  QED  BY <3>2, <3>3
  <2>3. todo' = <<>>
    BY <1>1, <2>2
  <2>4. StepsFit(todo', phase')
    BY <2>3, FitLists
  <2>  QED  BY <1>1, <1>2, <1>4, <1>6, <2>4 DEF RunInv
<1>  QED  BY <1>1, <1>5, <1>6

LEMMA RunPreReset ==
  ASSUME RunInv, Held, NEW i \in Intf, hdj_pre_reset(i)
  PROVE  RunInv'
<1>1. /\ todo = <<>> /\ phase \in {"on", "pre"} /\ phase' \in {"pre", "post"}
      /\ UNCHANGED <<reader_state, present, flight, unlucky, lost>> /\ todo' = KillMidi
  <2>1. phase' = "post" \/ phase' = "pre"
    BY Zenon DEF hdj_pre_reset
  <2>2. phase = "on" \/ phase = "pre"
    BY Zenon DEF hdj_pre_reset
  <2>3. todo = <<>> /\ todo' = KillMidi /\ UNCHANGED <<reader_state, present, urbVars, ghostVars>>
    BY Zenon DEF hdj_pre_reset
  <2>  QED  BY <2>1, <2>2, <2>3 DEF urbVars, ghostVars
<1>2. present => (\A u \in Reader : Excused(u)) /\ reader_state = "CR_STARTED"
  BY <1>1, RunReturned DEF RunInv, Urb
<1>3. \A u \in Reader : Excused(u) => Excused(u)'
  BY <1>1 DEF Excused
<1>4. StepsFit(todo', phase')
  BY <1>1, FitLists
<1>  QED  BY <1>1, <1>2, <1>3, <1>4 DEF RunInv

LEMMA RunPostReset ==
  ASSUME RunInv, Held, NEW i \in Intf, hdj_post_reset(i)
  PROVE  RunInv'
<1>1. /\ todo = <<>> /\ intf[i] = "reset" /\ phase = "post" /\ phase' \in {"on", "post"}
      /\ UNCHANGED <<reader_state, present, flight, unlucky, lost>>
      /\ todo' = <<Do("start")>>
  <2>1. phase' = "on" \/ phase' = "post"
    BY Zenon DEF hdj_post_reset
  <2>2. /\ todo = <<>> /\ todo' = <<Do("start")>> /\ phase = "post" /\ intf[i] = "reset"
        /\ UNCHANGED <<reader_state, present, urbVars, ghostVars>>
    BY Zenon DEF hdj_post_reset
  <2>  QED  BY <2>1, <2>2 DEF urbVars, ghostVars
<1>2. present => (\A u \in Reader : Excused(u)) /\ reader_state = "CR_STARTED"
  BY <1>1 DEF RunInv
<1>3. \A u \in Reader : Excused(u) => Excused(u)'
  BY <1>1 DEF Excused
<1>4. flight[Midi] = "idle"
  <2>1. no_urb_submission # 0
    BY <1>1, Forbidden DEF With, Held
  <2>  QED  BY <1>1, <2>1, WhenStill
<1>5. StepsFit(todo', phase') /\ In(Do("start"), todo')
  BY <1>1, FitLists, GoodOne
<1>6. ASSUME present, NEW u \in Urb PROVE Due(u)'
  <2>1. CASE u \in Reader
    BY <1>2, <1>3, <1>6, <2>1 DEF Due
  <2>2. CASE u = Midi
    BY <1>5, <2>2 DEF Due, Do
  <2>  QED  BY <2>1, <2>2 DEF Urb
<1>  QED  BY <1>1, <1>2, <1>3, <1>4, <1>5, <1>6 DEF RunInv

LEMMA RunCore ==
  ASSUME RunInv, Held, Probed \/ Unplug \/ Disconnect
  PROVE  RunInv'
<1>1. CASE Probed
  <2>1. /\ todo = <<>> /\ todo' = <<>> /\ phase = "probe" /\ phase' = "on"
        /\ UNCHANGED <<reader_state, present, flight, status, unlucky, lost>>
    BY <1>1 DEF Probed, urbVars, ghostVars
  <2>2. present => /\ \A u \in Urb : Excused(u)
                   /\ reader_state = "CR_STARTED"
                   /\ flight[Midi] = "done" => status[Midi] # "unlinked"
    BY <2>1, RunReturned DEF RunInv
  <2>3. \A u \in Urb : Excused(u) => Due(u)'
    BY <2>1 DEF Excused, Due
  <2>4. StepsFit(todo', phase')
    BY <2>1, FitLists
  <2>  QED  BY <2>1, <2>2, <2>3, <2>4 DEF RunInv
<1>2. CASE Unplug
  BY <1>2 DEF Unplug, RunInv, With
<1>3. CASE Disconnect
  BY <1>3, RunGone DEF Disconnect
<1>  QED  BY <1>1, <1>2, <1>3

LEMMA RunInit == Init => RunInv
<1>1. SUFFICES ASSUME Init PROVE RunInv
  OBVIOUS
<1>2. StepsFit(todo, phase)
  BY <1>1, FitLists DEF Init
<1>3. In(Do("start"), todo) /\ In(Do("run"), todo)
  <2>1. /\ Len(todo) = 3
        /\ \/ todo[3] = Do("start") /\ todo[1] = Do("run")
           \/ todo[1] = Do("start") /\ todo[2] = Do("run")
    BY <1>1 DEF Init
  <2>2. {1, 2, 3} \subseteq 1..Len(todo)
    BY <2>1
  <2>  QED  BY <2>1, <2>2 DEF In
<1>4. ToRun /\ \A u \in Urb : Due(u)
  BY <1>1, <1>3 DEF Init, ToRun, Due, Urb, Do
<1>5. flight[Midi] # "done" /\ phase = "probe"
  BY <1>1 DEF Init, Urb
<1>  QED  BY <1>2, <1>4, <1>5 DEF RunInv

LEMMA RunStep == Kept /\ Kept' /\ RunInv /\ [Next]_vars => RunInv'
<1>1. SUFFICES ASSUME Kept, Kept', RunInv, [Next]_vars PROVE RunInv'
  OBVIOUS
<1>2. Held /\ Held' /\ UrbTypes /\ Others /\ todo \in Seq(Step)
  BY <1>1 DEF Kept, Held, Good
<1>3. CASE UNCHANGED vars
  <2>1. UNCHANGED <<todo, phase, reader_state, intf, present, flight, status, unlucky, lost>>
    BY <1>3 DEF vars, urbVars, coreVars, ghostVars
  <2>  QED  BY <1>1, <2>1 DEF RunInv, StepsFit, With, Due, Excused, ToRun, In
<1>4. ASSUME NEW u \in Urb, Complete(u) \/ Handler(u) PROVE RunInv'
  BY <1>1, <1>2, <1>4, RunHandled
<1>5. CASE TimerFires \/ TimerSubmits
  BY <1>1, <1>2, <1>5, RunTimer
<1>6. CASE CallbackStep
  BY <1>1, <1>2, <1>6, RunStills, RunStart, RunStartReader, RunStop, RunCheck, RunLeaves
     DEF CallbackStep
<1>7. ASSUME NEW i \in Intf,
             \/ hdj_suspend(i) \/ hdj_resume(i) \/ hdj_pre_reset(i) \/ hdj_post_reset(i)
      PROVE  RunInv'
  BY <1>1, <1>2, <1>7, RunSuspend, RunResume, RunPreReset, RunPostReset
<1>8. CASE Probed \/ Unplug \/ Disconnect
  BY <1>1, <1>2, <1>8, RunCore
<1>  QED  BY <1>1, <1>3, <1>4, <1>5, <1>6, <1>7, <1>8, Zenon DEF Next

(* While the device is awake the continuous reader is started, and each of *)
(* its URBs and that of MIDI flies or is in its handler, but for those     *)
(* whose submission or transfer has failed and those of the reader that    *)
(* completed during a reset: no sleep, wake, reset or late answer, in      *)
(* whatever order the interfaces are called, leaves another one idle.      *)
THEOREM StreamsRunCorrect == Spec => []StreamsRun
<1>1. Spec => []Kept
  BY KeptInit, KeptStep, PTL DEF Spec
<1>2. Spec => []RunInv
  BY <1>1, RunInit, RunStep, PTL DEF Spec
<1>3. RunInv => StreamsRun
  <2>1. SUFFICES ASSUME RunInv, phase = "on", todo = <<>>, present
                 PROVE  /\ reader_state = "CR_STARTED"
                        /\ \A u \in Urb \ (unlucky \cup lost) : flight[u] # "idle"
    BY Zenon DEF StreamsRun, Awake
  <2>2. (\A u \in Urb : Excused(u)) /\ reader_state = "CR_STARTED"
    BY <2>1, RunReturned
  <2>  QED  BY <2>2 DEF Excused
<1>  QED  BY <1>2, <1>3, PTL
=============================================================================
