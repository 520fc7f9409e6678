------------------------- MODULE ChipRegistryProofs -------------------------
(* The proofs about ChipRegistry, for every number of devices, interfaces, *)
(* clients, chips and slots, in three parts.                               *)
(*   1. Type correctness, and what the table usb_chip[] is.                *)
(*   2. The safety of reference counting by index: OneChipPerDevice,       *)
(*      HeldChipPublished, RefCountCovers and ChipInUseIsLive, through the *)
(*      inductive invariant RegistryInv.                                   *)
(*   3. The references balance: RefCountBalanced, DisconnectedChipReleased *)
(*      and RegistrationHasFile, and ChipRegistry implements ChipLifetime. *)
EXTENDS ChipRegistry, FiniteSetTheorems, TLAPS

-----------------------------------------------------------------------------
(* A nonempty set of slots has a first element, and FirstOf returns it:    *)
(* the segments of slots below the elements have a smallest one.           *)
LEMMA FirstOfSlots ==
  ASSUME NEW S \in SUBSET Slot, S # {}
  PROVE  FirstOf(S) \in S
<1> DEFINE Below(s) == 0 .. s - 1
           Segments == {Below(s) : s \in S}
<1>1. S \subseteq Nat
  BY SlotAssumption DEF Slot
<1>2. \A s \in S : IsFiniteSet(Below(s)) /\ Below(s) \subseteq Slot
  <2> TAKE s \in S
  <2>1. IsFiniteSet(Below(s))
    BY <1>1, FS_Interval
  <2>2. Below(s) \subseteq Slot
    BY <1>1, SlotAssumption DEF Slot
  <2> QED  BY <2>1, <2>2
<1>3. Segments \subseteq FiniteSubsetsOf(Slot) /\ Segments # {}
  BY <1>2 DEF FiniteSubsetsOf
<1>4. PICK B \in Segments : \A C \in Segments : <<C, B>> \notin StrictSubsetOrdering(Slot)
  <2> HIDE DEF Segments
  <2> QED  BY <1>3, FS_StrictSubsetOrderingWellFounded, WFMin
<1>5. PICK s \in S : B = Below(s)
  OBVIOUS
<1>6. \A u \in S : s <= u
  <2> SUFFICES ASSUME NEW u \in S, u < s
               PROVE  FALSE
    BY <1>1
  <2>1. Below(u) \subseteq Below(s) /\ u \in Below(s) \ Below(u)
    BY <1>1
  <2>2. <<Below(u), Below(s)>> \in StrictSubsetOrdering(Slot)
    BY <2>1, <1>2 DEF StrictSubsetOrdering
  <2> QED  BY <2>2, <1>4, <1>5
<1> QED  BY <1>6 DEF FirstOf

(* So the searches of hdj_probe return what they look for.                 *)
LEMMA FirstIsMember ==
  /\ \A d \in Device : SlotsOf(d) # {} => FirstOf(SlotsOf(d)) \in SlotsOf(d)
  /\ EmptySlots # {} => FirstOf(EmptySlots) \in EmptySlots
<1>1. EmptySlots \in SUBSET Slot /\ \A d \in Device : SlotsOf(d) \in SUBSET Slot
  BY DEF EmptySlots, SlotsOf
<1> QED  BY <1>1, FirstOfSlots

-----------------------------------------------------------------------------
(* Facts about the constants that every proof below rests on.              *)
LEMMA OwnersAre ==
  /\ \A t \in Thread : OpRef(t) \in RefOwner /\ SubRef(t) \in RefOwner
  /\ \A c \in Client : FileRef(c) \in RefOwner
  /\ \A f \in Intf : IntfRef(f) \in RefOwner
  /\ IsFiniteSet(RefOwner)
<1>1. /\ \A t \in Thread : OpRef(t) \in RefOwner /\ SubRef(t) \in RefOwner
      /\ \A c \in Client : FileRef(c) \in RefOwner
      /\ \A f \in Intf : IntfRef(f) \in RefOwner
  BY DEF RefOwner, OpRef, SubRef, FileRef, IntfRef
<1>2. IsFiniteSet(Thread) /\ IsFiniteSet(Intf)
  BY FiniteAssumption, FS_Union, FS_Product DEF Thread, Intf
<1>3. IsFiniteSet({"op", "sub"}) /\ IsFiniteSet({"file"}) /\ IsFiniteSet({"intf"})
  <2>1. \A x : IsFiniteSet({x})
    BY FS_Singleton
  <2>2. IsFiniteSet({"op"} \cup {"sub"})
    BY <2>1, FS_Union
  <2>3. {"op", "sub"} = {"op"} \cup {"sub"}
    OBVIOUS
  <2> QED  BY <2>1, <2>2, <2>3
<1>4. IsFiniteSet({"op", "sub"} \X Thread) /\ IsFiniteSet({"file"} \X Client)
      /\ IsFiniteSet({"intf"} \X Intf)
  BY <1>2, <1>3, FiniteAssumption, FS_Product
<1>5. IsFiniteSet(RefOwner)
  BY <1>4, FS_Union DEF RefOwner
<1> QED  BY <1>1, <1>5

(* What the two ends of inc_chip_ref_count do to the types.                *)
LEMMA IncTypes ==
  ASSUME TypeOK, NEW t \in Thread, NEW k \in RefOwner, NEW s \in Slot,
         NEW found \in Label, NEW null \in Label, Inc(t, k, s, found, null)
  PROVE  /\ ref_count' \in [Chip -> Int]
         /\ holds' \in [RefOwner -> Chip \cup {NoChip}]
         /\ pc' \in [Thread -> Label]
<1> USE DEF TypeOK
<1>1. CASE IncFound(t, k, s, found)
  BY <1>1 DEF IncFound, Acquirable, Goto
<1>2. CASE IncNull(t, s, null)
  BY <1>2 DEF IncNull, Goto
<1> QED  BY <1>1, <1>2 DEF Inc

LEMMA IncForgetTypes ==
  ASSUME TypeOK, NEW t \in Thread, NEW k \in RefOwner, NEW j \in RefOwner, NEW s \in Slot,
         NEW found \in Label, NEW null \in Label,
         IncFound(t, k, s, found) \/ IncNullForget(t, j, s, null)
  PROVE  /\ ref_count' \in [Chip -> Int]
         /\ holds' \in [RefOwner -> Chip \cup {NoChip}]
         /\ pc' \in [Thread -> Label]
BY DEF TypeOK, IncFound, IncNullForget, Acquirable, Goto

(* dec_chip_ref_count, in each of its three outcomes, preserves the types. *)
LEMMA DecTypes ==
  ASSUME TypeOK, NEW t \in Thread, NEW k \in RefOwner, NEW s \in Slot,
         NEW next \in Label, Dec(t, k, s, next)
  PROVE  TypeOK'
<1> USE DEF TypeOK, Dec, chipVars, netVars, usbVars, slotVars, Goto
<1>1. CASE DecNull(t, s, next)
  BY <1>1 DEF DecNull
<1>2. CASE DecNotLast(t, s, next)
  BY <1>2 DEF DecNotLast
<1>3. CASE DecLast(t, s, next)
  <2>1. "releasing" \in Label
    BY DEF Label
  <2> QED  BY <1>3, <2>1 DEF DecLast
<1> QED  BY <1>1, <1>2, <1>3

-----------------------------------------------------------------------------
LEMMA TypeInit == Init => TypeOK
<1> SUFFICES ASSUME Init PROVE TypeOK
  OBVIOUS
<1>1. chip_dev \in [Chip -> Device] /\ ifn \in [Device -> IfNum]
  BY FiniteAssumption DEF Init
<1>2. "idle" \in Label /\ 0 \in Slot
  BY SlotAssumption DEF Label, Slot
<1>3. /\ usb_chip \in [Slot -> Chip \cup {NoChip}]
      /\ phase \in [Chip -> {"free", "live", "released"}]
      /\ netlink_list_mutex \in [Chip -> {0, 1}]
      /\ netlink_registered \in [Chip -> SUBSET Client]
  BY MutexAssumption DEF Init
<1>4. /\ chip_index \in [Chip -> Slot] /\ intfdata \in [Intf -> Slot]
      /\ private_data \in [Client -> Slot] /\ idx \in [Thread -> Slot]
      /\ pc \in [Thread -> Label] /\ cont \in [Thread -> Label]
  BY <1>2 DEF Init
<1>5. /\ holds \in [RefOwner -> Chip \cup {NoChip}] /\ ref_count \in [Chip -> Int]
      /\ alsa \in [AlsaClient -> Chip \cup {NoChip}]
      /\ probe_chip \in [Device -> Chip \cup {NoChip}]
  BY DEF Init
<1>6. card_registered \in [Chip -> BOOLEAN] /\ robbed \in BOOLEAN
  BY Zenon DEF Init
<1>7. register_mutex = NoOwner /\ dying = NoChip /\ bound = {}
  BY DEF Init
<1> QED  BY <1>1, <1>3, <1>4, <1>5, <1>6, <1>7 DEF TypeOK

(* One step per action: probes, disconnects and the power callbacks.       *)
LEMMA HubTypes ==
  ASSUME TypeOK, NEW d \in Device, HubStep(d)
  PROVE  TypeOK'
<1> USE DEF vars, slotVars, chipVars, netVars, usbVars, localVars
<1>1. d \in Thread /\ idx[d] \in Slot
  BY DEF TypeOK, Thread
<1>2. {"idle", "use", "unbind"} \cup HubLabel \subseteq Label
  BY DEF Label, HubLabel
<1>3. \A n \in IfNum : <<d, n>> \in Intf
  BY DEF Intf
<1>4. IntfRef(<<d, ifn[d]>>) \in RefOwner /\ OpRef(d) \in RefOwner
  BY <1>1, <1>3, OwnersAre DEF TypeOK
<1>a. ASSUME NEW n \in IfNum, ProbeFound(d, n) PROVE TypeOK'
  <2>1. chip_index[usb_chip[FirstOf(SlotsOf(d))]] \in Slot
    <3>1. FirstOf(SlotsOf(d)) \in SlotsOf(d)
      BY <1>a, FirstIsMember DEF ProbeFound
    <3> QED  BY <3>1 DEF TypeOK, SlotsOf
  <2>2. usb_chip[FirstOf(SlotsOf(d))] \in Chip
    <3>1. FirstOf(SlotsOf(d)) \in SlotsOf(d)
      BY <1>a, FirstIsMember DEF ProbeFound
    <3> QED  BY <3>1 DEF TypeOK, SlotsOf
  <2> QED  BY <1>a, <1>1, <1>2, <1>3, <2>1, <2>2 DEF ProbeFound, ProbePublish, TypeOK, Goto, HubLabel
<1>b. ASSUME NEW n \in IfNum, NEW ch \in Chip, ProbeCreate(d, n, ch) PROVE TypeOK'
  <2>1. FirstOf(EmptySlots) \in Slot
    <3>1. FirstOf(EmptySlots) \in EmptySlots
      BY <1>b, FirstIsMember DEF ProbeCreate
    <3> QED  BY <3>1 DEF EmptySlots
  <2> QED  BY <1>b, <1>1, <1>2, <1>3, <2>1, MutexAssumption
           DEF ProbeCreate, CreateChip, ProbePublish, TypeOK, Goto, HubLabel
<1>c. ASSUME NEW n \in IfNum, DisconnectInc(d, n) PROVE TypeOK'
  <2>1. intfdata[<<d, n>>] \in Slot /\ "disc_signal" \in Label /\ "unbind" \in Label
    BY <1>2, <1>3 DEF TypeOK, HubLabel
  <2>2. /\ ref_count' \in [Chip -> Int]
        /\ holds' \in [RefOwner -> Chip \cup {NoChip}]
        /\ pc' \in [Thread -> Label]
    BY <1>c, <1>1, <1>3, <1>4, <2>1, OwnersAre, IncForgetTypes DEF DisconnectInc
  <2> QED  BY <1>c, <1>1, <2>1, <2>2 DEF DisconnectInc, TypeOK
<1>d. ASSUME NEW n \in IfNum, PowerInc(d, n) PROVE TypeOK'
  <2>1. intfdata[<<d, n>>] \in Slot /\ "use" \in Label /\ "idle" \in Label
    BY <1>2, <1>3 DEF TypeOK
  <2>2. /\ ref_count' \in [Chip -> Int]
        /\ holds' \in [RefOwner -> Chip \cup {NoChip}]
        /\ pc' \in [Thread -> Label]
    BY <1>d, <1>1, <1>4, <2>1, IncTypes DEF PowerInc
  <2> QED  BY <1>d, <1>1, <2>1, <2>2 DEF PowerInc, TypeOK
<1>e. CASE ProbeInc(d)
  <2>1. "probe_streams" \in Label
    BY <1>2 DEF HubLabel
  <2>2. /\ ref_count' \in [Chip -> Int]
        /\ holds' \in [RefOwner -> Chip \cup {NoChip}]
        /\ pc' \in [Thread -> Label]
    BY <1>e, <1>1, <1>4, <2>1, IncTypes DEF ProbeInc
  <2> QED  BY <1>e, <2>2 DEF ProbeInc, TypeOK
<1>f. CASE ProbeStreams(d) \/ ProbeCardFails(d) \/ DisconnectSignal(d)
  BY <1>f, <1>1, <1>2 DEF ProbeStreams, ProbeCardFails, DisconnectSignal, TypeOK, Goto, HubLabel
<1>g. CASE ProbeCard(d)
  BY <1>g, <1>1, <1>2, <1>3 DEF ProbeCard, TypeOK, Goto
<1>h. CASE ProbeError(d)
  BY <1>h, <1>1, <1>2, <1>4, DecTypes DEF ProbeError
<1>i. CASE DisconnectDec(d)
  BY <1>i, <1>1, <1>2, <1>4, DecTypes DEF DisconnectDec, HubLabel
<1>j. CASE DisconnectDecProbe(d)
  BY <1>j, <1>1, <1>2, <1>4, DecTypes DEF DisconnectDecProbe
<1>k. CASE Unbind(d)
  BY <1>k, <1>1, <1>2 DEF Unbind, TypeOK, Goto
<1> QED  BY <1>a, <1>b, <1>c, <1>d, <1>e, <1>f, <1>g, <1>h, <1>i, <1>j, <1>k DEF HubStep

(* The file operations and the /proc readers.                              *)
LEMMA ClientTypes ==
  ASSUME TypeOK, NEW c \in Client, ClientStep(c)
  PROVE  TypeOK'
<1> USE DEF vars, slotVars, chipVars, netVars, usbVars, localVars
<1>1. c \in Thread /\ idx[c] \in Slot /\ private_data[c] \in Slot
  BY DEF TypeOK, Thread
<1>2. {"idle", "use", "ioctl", "dec", "long_inc", "proc_inc"} \cup OpenLabel \cup CloseLabel
        \subseteq Label
  BY DEF Label
<1>3. FileRef(c) \in RefOwner /\ OpRef(c) \in RefOwner
  BY <1>1, OwnersAre
<1>4. /\ {"open_inc", "open_inc_again", "open_undo", "open_body", "open_dec",
          "open_fail_dec", "open_fail_dec_again"} = OpenLabel
      /\ {"rel_unregister", "rel_dec", "rel_dec_open"} = CloseLabel
  BY DEF OpenLabel, CloseLabel
<1>a. ASSUME NEW f \in Intf, OpenLookup(c, f) PROVE TypeOK'
  BY <1>a, <1>1, <1>2, <1>4 DEF OpenLookup, TypeOK, Goto
<1>b. CASE OpenInc(c)
  <2>1. /\ ref_count' \in [Chip -> Int]
        /\ holds' \in [RefOwner -> Chip \cup {NoChip}]
        /\ pc' \in [Thread -> Label]
    BY <1>b, <1>1, <1>2, <1>3, <1>4, IncTypes DEF OpenInc
  <2> QED  BY <1>b, <1>1, <2>1 DEF OpenInc, TypeOK
<1>c. CASE OpenIncAgain(c)
  <2>1. /\ ref_count' \in [Chip -> Int]
        /\ holds' \in [RefOwner -> Chip \cup {NoChip}]
        /\ pc' \in [Thread -> Label]
    BY <1>c, <1>1, <1>2, <1>3, <1>4, IncTypes DEF OpenIncAgain
  <2> QED  BY <1>c, <1>1, <2>1 DEF OpenIncAgain, TypeOK
<1>d. CASE IoctlInc(c)
  <2>1. /\ ref_count' \in [Chip -> Int]
        /\ holds' \in [RefOwner -> Chip \cup {NoChip}]
        /\ pc' \in [Thread -> Label]
    BY <1>d, <1>1, <1>2, <1>3, <1>4, IncTypes DEF IoctlInc
  <2> QED  BY <1>d, <1>1, <2>1 DEF IoctlInc, TypeOK
<1>e. CASE ReleaseInc(c)
  <2>1. /\ ref_count' \in [Chip -> Int]
        /\ holds' \in [RefOwner -> Chip \cup {NoChip}]
        /\ pc' \in [Thread -> Label]
    BY <1>e, <1>1, <1>2, <1>3, <1>4, IncForgetTypes DEF ReleaseInc
  <2> QED  BY <1>e, <1>1, <2>1 DEF ReleaseInc, TypeOK
<1>f. CASE ProcInc(c)
  <2>1. /\ ref_count' \in [Chip -> Int]
        /\ holds' \in [RefOwner -> Chip \cup {NoChip}]
        /\ pc' \in [Thread -> Label]
    BY <1>f, <1>1, <1>2, <1>3, <1>4, IncTypes DEF ProcInc
  <2> QED  BY <1>f, <1>1, <2>1 DEF ProcInc, TypeOK
<1>g. CASE OpenUndo(c) \/ OpenDec(c) \/ OpenFailDec(c) \/ OpenFailDecAgain(c)
  BY <1>g, <1>1, <1>2, <1>3, <1>4, DecTypes DEF OpenUndo, OpenDec, OpenFailDec, OpenFailDecAgain
<1>h. CASE ReleaseDec(c) \/ ReleaseDecOpen(c)
  BY <1>h, <1>1, <1>2, <1>3, <1>4, DecTypes DEF ReleaseDec, ReleaseDecOpen
<1>i. CASE OpenBody(c)
  BY <1>i, <1>1, <1>2, <1>4 DEF OpenBody, TypeOK, Goto
<1>j. CASE RegisterForNetlink(c)
  BY <1>j, <1>1, <1>2 DEF RegisterForNetlink, TypeOK, Goto
<1>k. CASE ReleaseUnregister(c)
  BY <1>k, <1>1, <1>2, <1>4 DEF ReleaseUnregister, TypeOK, Goto
<1>l. ASSUME NEW ch \in Chip, ProcLookup(c, ch) PROVE TypeOK'
  BY <1>l, <1>1, <1>2 DEF ProcLookup, TypeOK, Goto
<1>m. CASE LongnameInc(c)
  BY <1>m, <1>1, <1>2 DEF LongnameInc, TypeOK, Goto
<1> QED  BY <1>a, <1>b, <1>c, <1>d, <1>e, <1>f, <1>g, <1>h, <1>i, <1>j, <1>k, <1>l, <1>m
         DEF ClientStep

(* The steps any thread takes, and ALSA's.                                 *)
LEMMA AnyTypes ==
  ASSUME TypeOK, NEW t \in Thread, AnyStep(t)
  PROVE  TypeOK'
<1> USE DEF vars, slotVars, chipVars, netVars, usbVars, localVars
<1>1. idx[t] \in Slot /\ cont[t] \in Label /\ pc[t] \in Label
  BY DEF TypeOK
<1>2. {"idle", "dec", "sub"} \subseteq Label
  BY DEF Label
<1>3. OpRef(t) \in RefOwner /\ SubRef(t) \in RefOwner
  BY OwnersAre
<1>a. CASE WorkDone(t)
  BY <1>a, <1>2 DEF WorkDone, TypeOK, Goto
<1>b. CASE OpDec(t) \/ SubDec(t)
  BY <1>b, <1>1, <1>2, <1>3, DecTypes DEF OpDec, SubDec
<1>c. CASE ReleaseTail(t)
  BY <1>c, <1>1 DEF ReleaseTail, TypeOK, Goto
<1>d. CASE SubInc(t)
  <2>1. /\ ref_count' \in [Chip -> Int]
        /\ holds' \in [RefOwner -> Chip \cup {NoChip}]
        /\ pc' \in [Thread -> Label]
    BY <1>d, <1>1, <1>2, <1>3, IncTypes DEF SubInc
  <2> QED  BY <1>d, <1>1, <2>1 DEF SubInc, TypeOK
<1>e. CASE SetChannelInvalid(t)
  BY <1>e, <1>1, <1>3 DEF SetChannelInvalid, TypeOK, Goto
<1> QED  BY <1>a, <1>b, <1>c, <1>d, <1>e DEF AnyStep

LEMMA AlsaTypes ==
  ASSUME TypeOK, NEW a \in AlsaClient,
         AlsaClose(a) \/ \E ch \in Chip : AlsaOpen(a, ch)
  PROVE  TypeOK'
BY DEF AlsaClose, AlsaOpen, TypeOK, slotVars, chipVars, netVars, usbVars, localVars

LEMMA TypeStep ==
  ASSUME TypeOK, [Next]_vars
  PROVE  TypeOK'
<1>1. CASE UNCHANGED vars
  BY <1>1 DEF vars, slotVars, chipVars, netVars, usbVars, localVars, TypeOK
<1>2. CASE Next
  BY <1>2, HubTypes, ClientTypes, AnyTypes, AlsaTypes DEF Next
<1> QED  BY <1>1, <1>2

(* Every variable keeps its type: in particular the slot a thread is about *)
(* to hand to inc_chip_ref_count or dec_chip_ref_count is always one of    *)
(* the table, also when it comes from the interface or from a file.        *)
THEOREM TypeCorrect == Spec => []TypeOK
BY TypeInit, TypeStep, PTL DEF Spec

-----------------------------------------------------------------------------
(* Part 2.  The table of chips and the safety of reference counting by     *)
(* index.                                                                  *)

-----------------------------------------------------------------------------
(* Two owners of references are the same only if they are of one kind and  *)
(* of one thread, client or interface.                                     *)
LEMMA OwnersDiffer ==
  /\ \A t, u \in Thread : (OpRef(t) = OpRef(u) => t = u) /\ (SubRef(t) = SubRef(u) => t = u)
  /\ \A c, e \in Client : FileRef(c) = FileRef(e) => c = e
  /\ \A f, g \in Intf : IntfRef(f) = IntfRef(g) => f = g
  /\ \A t, u \in Thread : OpRef(t) # SubRef(u)
  /\ \A t \in Thread, c \in Client : OpRef(t) # FileRef(c) /\ SubRef(t) # FileRef(c)
  /\ \A t \in Thread, f \in Intf : OpRef(t) # IntfRef(f) /\ SubRef(t) # IntfRef(f)
  /\ \A c \in Client, f \in Intf : FileRef(c) # IntfRef(f)
BY DEF OpRef, SubRef, FileRef, IntfRef

(* What giving owner k the value v does to the owners of a chip: k joins   *)
(* those of v and leaves those of the chip it had.                         *)
LEMMA HoldersFinite ==
  ASSUME TypeOK, NEW ch \in Chip
  PROVE  IsFiniteSet(Holders(ch)) /\ Cardinality(Holders(ch)) \in Nat
<1>1. Holders(ch) \in SUBSET RefOwner
  BY DEF Holders
<1> QED  BY <1>1, OwnersAre, FS_Subset, FS_CardinalityType

LEMMA HoldersGain ==
  ASSUME TypeOK, NEW k \in RefOwner, NEW v \in Chip \cup {NoChip},
         holds' = [holds EXCEPT ![k] = v], NEW ch \in Chip
  PROVE  /\ Cardinality(Holders(ch)') \in Nat
         /\ v = ch => Cardinality(Holders(ch)') <= Cardinality(Holders(ch)) + 1
         /\ v # ch => Cardinality(Holders(ch)') <= Cardinality(Holders(ch))
<1>1. IsFiniteSet(Holders(ch)) /\ Cardinality(Holders(ch)) \in Nat
  BY HoldersFinite
<1>2. CASE v = ch
  <2>1. Holders(ch)' = Holders(ch) \cup {k}
    BY <1>2 DEF TypeOK, Holders
  <2>2. /\ IsFiniteSet(Holders(ch)')
        /\ Cardinality(Holders(ch)') =
             IF k \in Holders(ch) THEN Cardinality(Holders(ch)) ELSE Cardinality(Holders(ch)) + 1
    BY <2>1, <1>1, FS_AddElement
  <2> QED  BY <2>2, <1>1, <1>2
<1>3. CASE v # ch
  <2>1. Holders(ch)' = Holders(ch) \ {k}
    BY <1>3 DEF TypeOK, Holders
  <2>2. /\ IsFiniteSet(Holders(ch)')
        /\ Cardinality(Holders(ch)') =
             IF k \in Holders(ch) THEN Cardinality(Holders(ch)) - 1 ELSE Cardinality(Holders(ch))
    BY <2>1, <1>1, FS_RemoveElement
  <2>3. Cardinality(Holders(ch)') \in Nat
    BY <2>2, FS_CardinalityType
  <2> QED  BY <2>2, <2>3, <1>1, <1>3
<1> QED  BY <1>2, <1>3

LEMMA HoldersLose ==
  ASSUME TypeOK, NEW k \in RefOwner, NEW ch \in Chip, holds[k] = ch,
         holds' = [holds EXCEPT ![k] = NoChip]
  PROVE  /\ Cardinality(Holders(ch)') = Cardinality(Holders(ch)) - 1
         /\ Cardinality(Holders(ch)) = 1 => \A j \in RefOwner : holds'[j] # ch
<1>1. IsFiniteSet(Holders(ch)) /\ Cardinality(Holders(ch)) \in Nat
  BY HoldersFinite
<1>2. Holders(ch)' = Holders(ch) \ {k} /\ k \in Holders(ch)
  BY ChipAssumption DEF TypeOK, Holders
<1>3. /\ IsFiniteSet(Holders(ch)')
      /\ Cardinality(Holders(ch)') = Cardinality(Holders(ch)) - 1
  BY <1>1, <1>2, FS_RemoveElement
<1>4. ASSUME Cardinality(Holders(ch)) = 1, NEW j \in RefOwner
      PROVE  holds'[j] # ch
  <2>1. Cardinality(Holders(ch)') = 0
    BY <1>3, <1>4
  <2>2. Holders(ch)' = {}
    BY <1>3, <2>1, FS_EmptySet
  <2> QED  BY <2>2 DEF Holders
<1> QED  BY <1>3, <1>4

-----------------------------------------------------------------------------
(* The table.  Only five kinds of steps touch it, the chips' phases or     *)
(* their indexes; the lemma names them for the proofs about the table.     *)
TableVars == <<usb_chip, phase, chip_dev, chip_index, dying>>

LEMMA TableSteps ==
  ASSUME TypeOK, [Next]_vars
  PROVE  \/ UNCHANGED TableVars
         \/ \E t \in Thread, k \in RefOwner, s \in Slot, next \in Label : Dec(t, k, s, next)
         \/ \E d \in Device, n \in IfNum : ProbeFound(d, n)
         \/ \E d \in Device, n \in IfNum, ch \in Chip : ProbeCreate(d, n, ch)
         \/ \E t \in Thread : ReleaseTail(t)
         \/ \E a \in AlsaClient : AlsaClose(a)
<1> USE DEF TableVars, vars, slotVars, chipVars
<1>1. ASSUME NEW d \in Device, NEW n \in IfNum, DisconnectInc(d, n) \/ PowerInc(d, n)
      PROVE  UNCHANGED TableVars
  BY <1>1 DEF DisconnectInc, PowerInc
<1>2. ASSUME NEW d \in Device,
             \/ ProbeInc(d) \/ ProbeStreams(d) \/ ProbeCard(d) \/ ProbeCardFails(d)
             \/ DisconnectSignal(d) \/ Unbind(d)
      PROVE  UNCHANGED TableVars
  BY <1>2 DEF ProbeInc, ProbeStreams, ProbeCard, ProbeCardFails, DisconnectSignal, Unbind
<1>3. ASSUME NEW c \in Client,
             \/ \E f \in Intf : OpenLookup(c, f)
             \/ \E ch \in Chip : ProcLookup(c, ch)
             \/ OpenInc(c) \/ OpenIncAgain(c) \/ OpenBody(c) \/ IoctlInc(c) \/ LongnameInc(c)
             \/ ProcInc(c) \/ RegisterForNetlink(c) \/ ReleaseInc(c) \/ ReleaseUnregister(c)
      PROVE  UNCHANGED TableVars
  BY <1>3 DEF OpenLookup, OpenInc, OpenIncAgain, OpenBody, IoctlInc, LongnameInc, ProcInc,
              RegisterForNetlink, ReleaseInc, ReleaseUnregister, ProcLookup
<1>4. ASSUME NEW t \in Thread, WorkDone(t) \/ SubInc(t) \/ SetChannelInvalid(t)
      PROVE  UNCHANGED TableVars
  BY <1>4 DEF WorkDone, SubInc, SetChannelInvalid
<1>5. ASSUME NEW d \in Device, ProbeError(d) \/ DisconnectDec(d) \/ DisconnectDecProbe(d)
      PROVE  \E k \in RefOwner, s \in Slot, next \in Label : Dec(d, k, s, next)
  <2>1. d \in Thread /\ idx[d] \in Slot /\ <<d, ifn[d]>> \in Intf
    BY DEF TypeOK, Thread, Intf
  <2>2. {"idle", "disc_dec_probe", "unbind"} \subseteq Label
    BY DEF Label, HubLabel
  <2> QED  BY <1>5, <2>1, <2>2, OwnersAre DEF ProbeError, DisconnectDec, DisconnectDecProbe
<1>6. ASSUME NEW c \in Client,
             \/ OpenUndo(c) \/ OpenDec(c) \/ OpenFailDec(c) \/ OpenFailDecAgain(c)
             \/ ReleaseDec(c) \/ ReleaseDecOpen(c)
      PROVE  \E k \in RefOwner, s \in Slot, next \in Label : Dec(c, k, s, next)
  <2>1. c \in Thread /\ idx[c] \in Slot
    BY DEF TypeOK, Thread
  <2>2. {"idle", "open_fail_dec_again", "rel_dec_open"} \subseteq Label
    BY DEF Label, OpenLabel, CloseLabel
  <2> QED  BY <1>6, <2>1, <2>2, OwnersAre
           DEF OpenUndo, OpenDec, OpenFailDec, OpenFailDecAgain, ReleaseDec, ReleaseDecOpen
<1>7. ASSUME NEW t \in Thread, OpDec(t) \/ SubDec(t)
      PROVE  \E k \in RefOwner, s \in Slot, next \in Label : Dec(t, k, s, next)
  <2>1. idx[t] \in Slot /\ cont[t] \in Label /\ "idle" \in Label
    BY DEF TypeOK, Label
  <2> QED  BY <1>7, <2>1, OwnersAre DEF OpDec, SubDec
<1>8. ASSUME NEW a \in AlsaClient, NEW ch \in Chip, AlsaOpen(a, ch)
      PROVE  UNCHANGED TableVars
  BY <1>8 DEF AlsaOpen
<1>9. Device \subseteq Thread /\ Client \subseteq Thread
  BY DEF Thread
<1>10. CASE UNCHANGED vars
  BY <1>10
<1>11. ASSUME NEW d \in Device, HubStep(d)
       PROVE  \/ UNCHANGED TableVars
              \/ \E k \in RefOwner, s \in Slot, next \in Label : Dec(d, k, s, next)
              \/ \E n \in IfNum : ProbeFound(d, n)
              \/ \E n \in IfNum, ch \in Chip : ProbeCreate(d, n, ch)
  <2> HIDE DEF TableVars, slotVars, chipVars, vars
  <2> QED  BY <1>11, <1>1, <1>2, <1>5 DEF HubStep
<1>12. ASSUME NEW c \in Client, ClientStep(c)
       PROVE  \/ UNCHANGED TableVars
              \/ \E k \in RefOwner, s \in Slot, next \in Label : Dec(c, k, s, next)
  <2> HIDE DEF TableVars, slotVars, chipVars, vars
  <2> QED  BY <1>12, <1>3, <1>6 DEF ClientStep
<1>13. ASSUME NEW t \in Thread, AnyStep(t)
       PROVE  \/ UNCHANGED TableVars
              \/ \E k \in RefOwner, s \in Slot, next \in Label : Dec(t, k, s, next)
              \/ ReleaseTail(t)
  <2> HIDE DEF TableVars, slotVars, chipVars, vars
  <2> QED  BY <1>13, <1>4, <1>7 DEF AnyStep
<1> HIDE DEF TableVars, slotVars, chipVars, vars
<1> QED  BY <1>8, <1>9, <1>10, <1>11, <1>12, <1>13 DEF Next

LEMMA TableStep ==
  ASSUME TypeOK, TypeOK', TableOK, OneChipPerDevice, [Next]_vars
  PROVE  TableOK' /\ OneChipPerDevice'
<1> USE ChipAssumption DEF TypeOK, TableOK, OneChipPerDevice
<1>1. CASE UNCHANGED TableVars
  BY <1>1 DEF TableVars
<1>2. ASSUME NEW t \in Thread, NEW k \in RefOwner, NEW s \in Slot, NEW next \in Label,
             Dec(t, k, s, next)
      PROVE  TableOK' /\ OneChipPerDevice'
  <2>1. chip_dev' = chip_dev /\ chip_index' = chip_index
    BY <1>2 DEF Dec, chipVars
  <2>2. CASE DecNull(t, s, next) \/ DecNotLast(t, s, next)
    BY <2>1, <2>2 DEF DecNull, DecNotLast, slotVars
  <2>3. CASE DecLast(t, s, next)
    <3>1. /\ usb_chip' = [usb_chip EXCEPT ![s] = NoChip]
          /\ phase' = [phase EXCEPT ![usb_chip[s]] = "released"]
          /\ dying' = usb_chip[s] /\ usb_chip[s] \in Chip
      BY <2>3 DEF DecLast
    <3>2. \A u \in Slot : usb_chip'[u] # NoChip => usb_chip'[u] = usb_chip[u] /\ u # s
      BY <3>1
    <3>3. TableOK'
      BY <2>1, <3>1, <3>2
    <3> QED  BY <2>1, <3>2, <3>3
  <2> QED  BY <1>2, <2>2, <2>3 DEF Dec
<1>3. ASSUME NEW d \in Device, NEW n \in IfNum, ProbeFound(d, n)
      PROVE  TableOK' /\ OneChipPerDevice'
  <2>1. FirstOf(SlotsOf(d)) \in SlotsOf(d)
    BY <1>3, FirstIsMember DEF ProbeFound
  <2>2. FirstOf(SlotsOf(d)) \in Slot /\ usb_chip[FirstOf(SlotsOf(d))] # NoChip
    BY <2>1 DEF SlotsOf
  <2>3. usb_chip' = usb_chip
    BY <1>3, <2>2 DEF ProbeFound, ProbePublish
  <2> QED  BY <1>3, <2>3 DEF ProbeFound, ProbePublish, chipVars
<1>4. ASSUME NEW d \in Device, NEW n \in IfNum, NEW ch \in Chip, ProbeCreate(d, n, ch)
      PROVE  TableOK' /\ OneChipPerDevice'
  <2> DEFINE s0 == FirstOf(EmptySlots)
  <2>1. s0 \in Slot /\ usb_chip[s0] = NoChip
    <3>1. s0 \in EmptySlots
      BY <1>4, FirstIsMember DEF ProbeCreate
    <3> QED  BY <3>1 DEF EmptySlots
  <2>2. /\ usb_chip' = [usb_chip EXCEPT ![s0] = ch]
        /\ phase[ch] = "free" /\ phase' = [phase EXCEPT ![ch] = "live"]
        /\ chip_index' = [chip_index EXCEPT ![ch] = s0]
        /\ chip_dev' = [chip_dev EXCEPT ![ch] = d]
        /\ dying' = dying
    BY <1>4 DEF ProbeCreate, CreateChip, ProbePublish
  <2>3. \A u \in Slot : usb_chip[u] # NoChip => usb_chip[u] # ch /\ chip_dev[usb_chip[u]] # d
    BY <1>4, <2>2 DEF ProbeCreate, SlotsOf
  <2> HIDE DEF s0
  <2>4. TableOK'
    BY <2>1, <2>2, <2>3
  <2>5. OneChipPerDevice'
    BY <2>1, <2>2, <2>3
  <2> QED  BY <2>4, <2>5
<1>5. ASSUME NEW t \in Thread, ReleaseTail(t)
      PROVE  TableOK' /\ OneChipPerDevice'
  BY <1>5 DEF ReleaseTail, chipVars
<1>6. ASSUME NEW a \in AlsaClient, AlsaClose(a)
      PROVE  TableOK' /\ OneChipPerDevice'
  BY <1>6 DEF AlsaClose, chipVars
<1> QED  BY <1>1, <1>2, <1>3, <1>4, <1>5, <1>6, TableSteps

LEMMA TableInit == Init => TableOK /\ OneChipPerDevice
BY DEF Init, TableOK, OneChipPerDevice

LEMMA TableAlways == Spec => [](TypeOK /\ TableOK /\ OneChipPerDevice)
<1>1. TypeOK /\ TableOK /\ OneChipPerDevice /\ [Next]_vars
        => (TypeOK /\ TableOK /\ OneChipPerDevice)'
  BY TypeStep, TableStep
<1> QED  BY <1>1, TypeInit, TableInit, PTL DEF Spec

(* A chip in the table is live and knows its slot, whatever the probes and *)
(* the disconnects of the devices do between the locked sections.          *)
THEOREM TableCorrect == Spec => []TableOK
BY TableAlways, PTL

(* A device never has two chips in the table: hdj_probe's search and its   *)
(* publication of the chip it created are one locked section.              *)
THEOREM OneChipCorrect == Spec => []OneChipPerDevice
BY TableAlways, PTL

-----------------------------------------------------------------------------
(* The two ends of a reference, under the invariant.  An increment that    *)
(* finds a chip gives owner k a reference on the chip of slot s.           *)
LEMMA IncStep ==
  ASSUME TypeOK, TypeOK', TableOK, HeldChipPublished, RefCountCovers, ~robbed,
         NEW t \in Thread, NEW k \in RefOwner, NEW s \in Slot, NEW found, NEW null,
         Inc(t, k, s, found, null), UNCHANGED <<usb_chip, phase, chip_index>>
  PROVE  /\ HeldChipPublished' /\ RefCountCovers'
         /\ \A j \in RefOwner : j # k => holds'[j] = holds[j]
         /\ \A u \in Thread : u # t => pc'[u] = pc[u]
         /\ \/ pc'[t] = found /\ Keeps(k, s)' /\ holds'[k] = usb_chip[s]
            \/ pc'[t] = null /\ holds' = holds /\ ~Acquirable(s)
<1> USE ChipAssumption DEF TypeOK, TableOK, Goto
<1>1. CASE IncNull(t, s, null)
  <2>1. UNCHANGED <<ref_count, holds>> /\ pc' = [pc EXCEPT ![t] = null] /\ ~Acquirable(s)
    BY <1>1 DEF IncNull
  <2>2. HeldChipPublished' /\ RefCountCovers'
    BY <2>1 DEF HeldChipPublished, RefCountCovers, Holders
  <2> QED  BY <2>1, <2>2
<1>2. CASE IncFound(t, k, s, found)
  <2> DEFINE ch == usb_chip[s]
  <2>1. /\ ch \in Chip /\ phase[ch] = "live" /\ chip_index[ch] = s
        /\ ref_count' = [ref_count EXCEPT ![ch] = @ + 1]
        /\ holds' = [holds EXCEPT ![k] = ch]
        /\ pc' = [pc EXCEPT ![t] = found]
    BY <1>2 DEF IncFound, Acquirable
  <2>2. HeldChipPublished'
    BY <2>1 DEF HeldChipPublished
  <2>3. RefCountCovers'
    <3> SUFFICES ASSUME NEW h \in Chip, phase[h] = "live"
                 PROVE  Cardinality(Holders(h)') <= ref_count'[h]
      BY DEF RefCountCovers, Holders
    <3>1. /\ Cardinality(Holders(h)) \in Nat /\ Cardinality(Holders(h)') \in Nat
      BY <2>1, HoldersFinite, HoldersGain
    <3>2. /\ h = ch => Cardinality(Holders(h)') <= Cardinality(Holders(h)) + 1
          /\ h # ch => Cardinality(Holders(h)') <= Cardinality(Holders(h))
      BY <2>1, HoldersGain
    <3>3. Cardinality(Holders(h)) <= ref_count[h]
      BY DEF RefCountCovers
    <3> QED  BY <2>1, <3>1, <3>2, <3>3
  <2>4. Keeps(k, s)'
    BY <2>1 DEF Keeps
  <2> QED  BY <2>1, <2>2, <2>3, <2>4
<1> QED  BY <1>1, <1>2 DEF Inc

LEMMA IncFoundStep ==
  ASSUME TypeOK, TypeOK', TableOK, HeldChipPublished, RefCountCovers, ~robbed,
         NEW t \in Thread, NEW k \in RefOwner, NEW s \in Slot, NEW found,
         IncFound(t, k, s, found), UNCHANGED <<usb_chip, phase, chip_index>>
  PROVE  /\ HeldChipPublished' /\ RefCountCovers'
         /\ \A j \in RefOwner : j # k => holds'[j] = holds[j]
         /\ \A u \in Thread : u # t => pc'[u] = pc[u]
         /\ pc'[t] = found /\ Keeps(k, s)'
<1>1. Inc(t, k, s, found, found) /\ Acquirable(s)
  BY DEF Inc, IncFound
<1> QED  BY <1>1, IncStep

(* The chip somebody has a reference on can be acquired again.             *)
LEMMA KeepsAcquirable ==
  ASSUME TypeOK, TableOK, HeldChipPublished, ~robbed, NEW k \in RefOwner, NEW s, Keeps(k, s)
  PROVE  Acquirable(s)
BY ChipAssumption DEF TypeOK, HeldChipPublished, Keeps, Acquirable

(* A decrement for an owner that has a reference on the chip of slot s: if *)
(* it is the last one, nobody else has a reference on that chip.           *)
LEMMA DecStep ==
  ASSUME TypeOK, TypeOK', TableOK, HeldChipPublished, RefCountCovers, ~robbed,
         NEW t \in Thread, NEW k \in RefOwner, NEW s \in Slot, NEW next,
         next # "releasing", Keeps(k, s), Dec(t, k, s, next)
  PROVE  /\ HeldChipPublished' /\ RefCountCovers'
         /\ \A j \in RefOwner : j # k => holds'[j] = holds[j]
         /\ holds'[k] = NoChip
         /\ \A u \in Thread : u # t => pc'[u] = pc[u] /\ cont'[u] = cont[u]
         /\ Where(t)' = next
<1> USE ChipAssumption DEF TypeOK, TableOK, Goto
<1>1. PICK ch \in Chip : /\ ch = usb_chip[s] /\ holds[k] = ch
                        /\ phase[ch] = "live" /\ ch # NoChip
  BY DEF Keeps, HeldChipPublished
<1>2. /\ holds' = [holds EXCEPT ![k] = NoChip]
      /\ chip_index' = chip_index /\ robbed' = robbed
  BY DEF Dec, chipVars
<1>3. ref_count' = [ref_count EXCEPT ![ch] = @ - 1]
  BY <1>1 DEF Dec, DecNull, DecNotLast, DecLast
<1>4. /\ Cardinality(Holders(ch)') = Cardinality(Holders(ch)) - 1
      /\ Cardinality(Holders(ch)) = 1 => \A j \in RefOwner : holds'[j] # ch
  BY <1>1, <1>2, HoldersLose
<1>5. RefCountCovers'
  <2> SUFFICES ASSUME NEW h \in Chip, phase'[h] = "live"
               PROVE  Cardinality(Holders(h)') <= ref_count'[h]
    BY DEF RefCountCovers, Holders
  <2>1. phase[h] = "live"
    BY <1>1 DEF Dec, DecNull, DecNotLast, DecLast, slotVars
  <2>2. Cardinality(Holders(h)) <= ref_count[h]
    BY <2>1 DEF RefCountCovers
  <2>3. /\ Cardinality(Holders(h)) \in Nat /\ Cardinality(Holders(h)') \in Nat
        /\ Cardinality(Holders(h)') <= Cardinality(Holders(h))
        /\ h = ch => Cardinality(Holders(h)') = Cardinality(Holders(h)) - 1
    <3>1. NoChip # h /\ NoChip \in Chip \cup {NoChip}
      OBVIOUS
    <3>2. /\ Cardinality(Holders(h)') \in Nat
          /\ Cardinality(Holders(h)') <= Cardinality(Holders(h))
      BY <1>2, <3>1, HoldersGain
    <3>3. Cardinality(Holders(h)) \in Nat
      BY HoldersFinite
    <3> QED  BY <1>1, <1>4, <3>2, <3>3
  <2> QED  BY <1>3, <2>2, <2>3
<1>6. HeldChipPublished' /\ Where(t)' = next
  <2>1. CASE DecNotLast(t, s, next)
    BY <2>1, <1>2 DEF DecNotLast, HeldChipPublished, slotVars, Where
  <2>2. CASE DecLast(t, s, next)
    <3>1. /\ usb_chip' = [usb_chip EXCEPT ![s] = NoChip]
          /\ phase' = [phase EXCEPT ![ch] = "released"]
          /\ ref_count[ch] <= 1
      BY <2>2, <1>1 DEF DecLast
    <3>2. \A j \in RefOwner : holds'[j] # ch
      <4>1. Cardinality(Holders(ch)) <= ref_count[ch]
        BY <1>1 DEF RefCountCovers
      <4>2. /\ Cardinality(Holders(ch)) \in Nat /\ Cardinality(Holders(ch)') \in Nat
            /\ Cardinality(Holders(ch)') = Cardinality(Holders(ch)) - 1
        <5>1. Cardinality(Holders(ch)) \in Nat
          BY <1>1, HoldersFinite
        <5>2. Cardinality(Holders(ch)') \in Nat
          BY <1>2, HoldersGain
        <5> QED  BY <5>1, <5>2, <1>4
      <4>3. ref_count[ch] \in Int
        BY <1>1
      <4> HIDE DEF TypeOK, TableOK
      <4>4. Cardinality(Holders(ch)) = 1
        BY <3>1, <4>1, <4>2, <4>3
      <4> QED  BY <4>4, <1>1, <1>4
    <3>3. HeldChipPublished'
      <4> SUFFICES ASSUME NEW j \in RefOwner, holds'[j] # NoChip
                   PROVE  /\ phase'[holds'[j]] = "live"
                          /\ usb_chip'[chip_index'[holds'[j]]] = holds'[j]
        BY DEF HeldChipPublished
      <4>1. holds'[j] = holds[j] /\ holds[j] \in Chip /\ holds[j] # ch
        BY <1>2, <3>2
      <4>2. phase[holds[j]] = "live" /\ usb_chip[chip_index[holds[j]]] = holds[j]
        BY <4>1 DEF HeldChipPublished
      <4> QED  BY <4>1, <4>2, <3>1, <1>1, <1>2
    <3> QED  BY <2>2, <3>3 DEF DecLast, Where
  <2> QED  BY <1>1, <2>1, <2>2 DEF Dec, DecNull
<1>7. \A u \in Thread : u # t => pc'[u] = pc[u] /\ cont'[u] = cont[u]
  BY DEF Dec, DecNull, DecNotLast, DecLast
<1> QED  BY <1>2, <1>5, <1>6, <1>7

-----------------------------------------------------------------------------
(* A step of thread t leaves the locals and the references of every other  *)
(* thread alone, and the index of every chip somebody has a reference on.  *)
Mine(t) == {OpRef(t), SubRef(t), FileRef(t)} \cup {IntfRef(<<t, n>>) : n \in IfNum}

StepOf(t) ==
  /\ \A u \in Thread : u # t => pc'[u] = pc[u] /\ cont'[u] = cont[u] /\ idx'[u] = idx[u]
  /\ \A k \in RefOwner : k \notin Mine(t) => holds'[k] = holds[k]
  /\ \A k \in RefOwner : holds[k] # NoChip => chip_index'[holds[k]] = chip_index[holds[k]]
  /\ \A c \in Client : c # t => private_data'[c] = private_data[c]
  /\ \A d \in Device : d # t =>
       /\ ifn'[d] = ifn[d] /\ probe_chip'[d] = probe_chip[d]
       /\ \A n \in IfNum : /\ intfdata'[<<d, n>>] = intfdata[<<d, n>>]
                           /\ <<d, n>> \in bound' <=> <<d, n>> \in bound

LEMMA NotMine ==
  ASSUME NEW t \in Thread, NEW u \in Thread, u # t
  PROVE  /\ OpRef(u) \in RefOwner \ Mine(t) /\ SubRef(u) \in RefOwner \ Mine(t)
         /\ u \in Client => FileRef(u) \in RefOwner \ Mine(t)
         /\ u \in Device => \A n \in IfNum : IntfRef(<<u, n>>) \in RefOwner \ Mine(t)
<1>1. /\ OpRef(u) \in RefOwner /\ SubRef(u) \in RefOwner
      /\ u \in Client => FileRef(u) \in RefOwner
      /\ u \in Device => \A n \in IfNum : IntfRef(<<u, n>>) \in RefOwner
  BY OwnersAre DEF Intf
<1> QED  BY <1>1 DEF Mine, OpRef, SubRef, FileRef, IntfRef

LEMMA OthersKeep ==
  ASSUME TypeOK, NEW t \in Thread, StepOf(t), NEW u \in Thread, u # t, ThreadKeeps(u)
  PROVE  ThreadKeeps(u)'
<1>1. Where(u)' = Where(u) /\ cont'[u] = cont[u] /\ idx'[u] = idx[u]
  BY DEF StepOf, Where
<1>2. \A k \in RefOwner \ Mine(t), s \in Slot :
        holds'[k] = holds[k] /\ (Keeps(k, s) => Keeps(k, s)')
  BY DEF StepOf, Keeps
<1>3. idx[u] \in Slot
  BY DEF TypeOK
<1>4. OpKeeps(u)'
  BY <1>1, <1>2, <1>3, NotMine DEF ThreadKeeps, OpKeeps
<1>5. ASSUME u \in Client PROVE FileKeeps(u)'
  <2>1. private_data'[u] = private_data[u] /\ private_data[u] \in Slot
    BY <1>5 DEF StepOf, TypeOK
  <2>2. FileRef(u) \in RefOwner \ Mine(t)
    BY <1>5, NotMine
  <2> QED  BY <1>1, <1>2, <1>3, <1>5, <2>1, <2>2 DEF ThreadKeeps, FileKeeps, FileOpen
<1>6. ASSUME u \in Device PROVE IntfKeeps(u)'
  <2>1. /\ ifn'[u] = ifn[u] /\ probe_chip'[u] = probe_chip[u] /\ ifn[u] \in IfNum
        /\ \A n \in IfNum : /\ intfdata'[<<u, n>>] = intfdata[<<u, n>>]
                            /\ <<u, n>> \in bound' <=> <<u, n>> \in bound
                            /\ intfdata[<<u, n>>] \in Slot
    BY <1>6 DEF StepOf, TypeOK, Intf
  <2>2. \A n \in IfNum : IntfRef(<<u, n>>) \in RefOwner \ Mine(t)
    BY <1>6, NotMine
  <2> QED  BY <1>1, <1>2, <1>3, <1>6, <2>1, <2>2 DEF ThreadKeeps, IntfKeeps
<1> QED  BY <1>4, <1>5, <1>6 DEF ThreadKeeps

(* A step that changes no reference, no chip and no slot.                  *)
LEMMA QuietStep ==
  ASSUME HeldChipPublished, RefCountCovers, ~robbed,
         UNCHANGED <<usb_chip, phase, chip_index, ref_count, holds>>
  PROVE  HeldChipPublished' /\ RefCountCovers'
BY DEF HeldChipPublished, RefCountCovers, Holders

(* A decrement for one of the thread's own owners.                         *)
LEMMA DecSafe ==
  ASSUME TypeOK, TypeOK', TableOK, HeldChipPublished, RefCountCovers, ~robbed,
         NEW t \in Thread, NEW k \in RefOwner, NEW next, k \in Mine(t),
         next # "releasing", Keeps(k, idx[t]), Dec(t, k, idx[t], next)
  PROVE  /\ StepOf(t) /\ HeldChipPublished' /\ RefCountCovers'
         /\ \A j \in RefOwner : j # k => holds'[j] = holds[j]
         /\ holds'[k] = NoChip /\ Where(t)' = next
         /\ UNCHANGED <<chip_index, idx, private_data, bound, intfdata, ifn, probe_chip>>
<1>1. PICK s \in Slot : s = idx[t]
  BY DEF TypeOK
<1>2. /\ HeldChipPublished' /\ RefCountCovers'
      /\ \A j \in RefOwner : j # k => holds'[j] = holds[j]
      /\ holds'[k] = NoChip
      /\ \A u \in Thread : u # t => pc'[u] = pc[u] /\ cont'[u] = cont[u]
      /\ Where(t)' = next
  BY <1>1, DecStep
<1>3. UNCHANGED <<chip_index, idx, private_data, bound, intfdata, ifn, probe_chip>>
  BY DEF Dec, chipVars, usbVars
<1> QED  BY <1>2, <1>3 DEF StepOf

-----------------------------------------------------------------------------
(* Probes, disconnects and the power callbacks.                            *)
Safe(t) == StepOf(t) /\ HeldChipPublished' /\ RefCountCovers' /\ ThreadKeeps(t)'

LEMMA HubSafe ==
  ASSUME TypeOK, TypeOK', RegistryInv, ~robbed, ~robbed', NEW d \in Device, HubStep(d)
  PROVE  Safe(d)
<1> USE DEF Safe
<1>1. /\ d \in Thread /\ d \notin Client /\ idx[d] \in Slot /\ ifn[d] \in IfNum
      /\ OpRef(d) \in RefOwner /\ OpRef(d) \in Mine(d)
  BY ThreadAssumption, OwnersAre DEF TypeOK, Thread, Mine
<1>2. \A n \in IfNum :
        /\ <<d, n>> \in Intf /\ intfdata[<<d, n>>] \in Slot
        /\ IntfRef(<<d, n>>) \in RefOwner /\ IntfRef(<<d, n>>) \in Mine(d)
        /\ OpRef(d) # IntfRef(<<d, n>>)
        /\ \A m \in IfNum : IntfRef(<<d, n>>) = IntfRef(<<d, m>>) => n = m
  BY OwnersAre, <1>1 DEF TypeOK, Intf, Mine, OpRef, IntfRef
<1>3. /\ TableOK /\ HeldChipPublished /\ RefCountCovers
      /\ OpKeeps(d) /\ IntfKeeps(d)
  BY <1>1 DEF RegistryInv, ThreadKeeps
<1>4. \A u \in Device : u # d => \A n, m \in IfNum : <<u, n>> # <<d, m>>
  OBVIOUS
<1>5. OpKeeps(d)' /\ IntfKeeps(d)' => ThreadKeeps(d)'
  BY <1>1 DEF ThreadKeeps
<1>a. ASSUME NEW n \in IfNum, ProbeFound(d, n) PROVE Safe(d)
  <2> DEFINE s0 == FirstOf(SlotsOf(d))
             ch == usb_chip[s0]
  <2>1. s0 \in Slot /\ ch # NoChip /\ ch \in Chip /\ chip_index[ch] = s0
    <3>1. s0 \in SlotsOf(d)
      BY <1>a, FirstIsMember DEF ProbeFound
    <3> QED  BY <3>1, <1>3 DEF TypeOK, TableOK, SlotsOf
  <2>2. /\ usb_chip' = usb_chip /\ phase' = phase /\ chip_index' = chip_index
        /\ ref_count' = ref_count /\ holds' = holds /\ bound' = bound
        /\ private_data' = private_data /\ cont' = cont
        /\ <<d, n>> \notin bound
        /\ probe_chip' = [probe_chip EXCEPT ![d] = ch]
        /\ intfdata' = [intfdata EXCEPT ![<<d, n>>] = s0]
        /\ idx' = [idx EXCEPT ![d] = s0] /\ ifn' = [ifn EXCEPT ![d] = n]
        /\ pc' = [pc EXCEPT ![d] = "probe_inc"] /\ pc[d] = "idle"
    BY <1>a, <2>1 DEF ProbeFound, ProbePublish, chipVars, Goto, TypeOK
  <2> HIDE DEF s0, ch
  <2>3. StepOf(d)
    BY <2>2, <1>2, <1>4 DEF StepOf, TypeOK, Intf
  <2>4. OpKeeps(d)' /\ IntfKeeps(d)'
    BY <2>1, <2>2, <1>1, <1>2, <1>3
    DEF OpKeeps, IntfKeeps, Where, Keeps, OpLabel, ProbeLabel, TypeOK
  <2> QED  BY <2>2, <2>3, <2>4, <1>3, <1>5, QuietStep
<1>b. ASSUME NEW n \in IfNum, NEW ch \in Chip, ProbeCreate(d, n, ch) PROVE Safe(d)
  <2> DEFINE s0 == FirstOf(EmptySlots)
  <2>1. s0 \in Slot /\ usb_chip[s0] = NoChip
    <3>1. s0 \in EmptySlots
      BY <1>b, FirstIsMember DEF ProbeCreate
    <3> QED  BY <3>1 DEF EmptySlots
  <2>2. /\ usb_chip' = [usb_chip EXCEPT ![s0] = ch] /\ phase[ch] = "free"
        /\ phase' = [phase EXCEPT ![ch] = "live"]
        /\ chip_index' = [chip_index EXCEPT ![ch] = s0]
        /\ ref_count' = [ref_count EXCEPT ![ch] = 0]
        /\ holds' = holds /\ bound' = bound
        /\ private_data' = private_data /\ cont' = cont
        /\ <<d, n>> \notin bound
        /\ probe_chip' = [probe_chip EXCEPT ![d] = ch]
        /\ intfdata' = [intfdata EXCEPT ![<<d, n>>] = s0]
        /\ idx' = [idx EXCEPT ![d] = s0] /\ ifn' = [ifn EXCEPT ![d] = n]
        /\ pc' = [pc EXCEPT ![d] = "probe_inc"] /\ pc[d] = "idle"
    BY <1>b, <2>1 DEF ProbeCreate, CreateChip, ProbePublish, Goto, TypeOK
  <2>3. \A k \in RefOwner : holds[k] # NoChip => holds[k] \in Chip /\ holds[k] # ch
    BY <2>2, <1>3 DEF HeldChipPublished, TypeOK
  <2> HIDE DEF s0
  <2>4. StepOf(d)
    BY <2>2, <2>3, <1>2, <1>4 DEF StepOf, TypeOK, Intf
  <2>5. OpKeeps(d)' /\ IntfKeeps(d)'
    <3>1. \A k \in RefOwner, s \in Slot : Keeps(k, s) => Keeps(k, s)'
      BY <2>2, <2>3 DEF Keeps, TypeOK
    <3>2. ch # NoChip
      BY ChipAssumption
    <3>3. Where(d)' = "probe_inc" /\ Where(d) = "idle"
      BY <2>2, <1>1 DEF Where, TypeOK
    <3>4. OpKeeps(d)'
      BY <3>3 DEF OpKeeps, OpLabel
    <3>5. /\ probe_chip'[d] = ch /\ intfdata'[<<d, n>>] = s0 /\ idx'[d] = s0 /\ ifn'[d] = n
          /\ \A m \in IfNum : m # n => intfdata'[<<d, m>>] = intfdata[<<d, m>>]
      BY <2>2, <1>1, <1>2 DEF TypeOK
    <3>6. IntfKeeps(d)'
      BY <2>2, <3>1, <3>2, <3>3, <3>5, <1>2, <1>3 DEF IntfKeeps, ProbeLabel
    <3> QED  BY <3>4, <3>6
  <2>6. HeldChipPublished'
    BY <2>1, <2>2, <2>3, <1>3 DEF HeldChipPublished, TypeOK
  <2>7. RefCountCovers'
    <3> SUFFICES ASSUME NEW h \in Chip, phase'[h] = "live"
                 PROVE  Cardinality(Holders(h)') <= ref_count'[h]
      BY DEF RefCountCovers, Holders
    <3>1. Holders(h)' = Holders(h)
      BY <2>2 DEF Holders
    <3>2. CASE h = ch
      <4>1. Holders(h) = {}
        BY <2>3, <3>2, ChipAssumption DEF Holders
      <4> QED  BY <4>1, <3>1, <3>2, <2>2, FS_EmptySet DEF TypeOK
    <3>3. CASE h # ch
      BY <3>1, <3>3, <2>2, <1>3 DEF RefCountCovers, TypeOK
    <3> QED  BY <3>2, <3>3
  <2> QED  BY <2>4, <2>5, <2>6, <2>7, <1>5
<1>c. ASSUME NEW n \in IfNum, DisconnectInc(d, n) PROVE Safe(d)
  <2>1. /\ UNCHANGED <<usb_chip, phase, chip_index, bound, intfdata, probe_chip, cont, private_data>>
        /\ IncFound(d, OpRef(d), intfdata[<<d, n>>], "disc_signal")
        /\ idx' = [idx EXCEPT ![d] = intfdata[<<d, n>>]] /\ ifn' = [ifn EXCEPT ![d] = n]
        /\ pc[d] = "idle" /\ <<d, n>> \in bound
    <3>1. Where(d) = "idle" /\ <<d, n>> \in bound
      BY <1>c DEF DisconnectInc, Where
    <3>2. Acquirable(intfdata[<<d, n>>])
      BY <3>1, <1>2, <1>3, KeepsAcquirable DEF IntfKeeps
    <3> QED  BY <1>c, <3>2 DEF DisconnectInc, IncNullForget, slotVars, chipVars
  <2>2. /\ HeldChipPublished' /\ RefCountCovers'
        /\ \A j \in RefOwner : j # OpRef(d) => holds'[j] = holds[j]
        /\ \A u \in Thread : u # d => pc'[u] = pc[u]
        /\ pc'[d] = "disc_signal" /\ Keeps(OpRef(d), intfdata[<<d, n>>])'
    <3> DEFINE s0 == intfdata[<<d, n>>]
    <3>1. PICK s \in Slot : s = s0
      BY <1>2
    <3>2. /\ HeldChipPublished' /\ RefCountCovers'
          /\ \A j \in RefOwner : j # OpRef(d) => holds'[j] = holds[j]
          /\ \A u \in Thread : u # d => pc'[u] = pc[u]
          /\ pc'[d] = "disc_signal" /\ Keeps(OpRef(d), s)'
      BY <3>1, <2>1, <1>1, <1>3, IncFoundStep
    <3> QED  BY <3>1, <3>2, <2>1 DEF Keeps
  <2>3. StepOf(d)
    BY <2>1, <2>2, <1>1 DEF StepOf, TypeOK
  <2>4. Where(d) = "idle" /\ Where(d)' = pc'[d]
    BY <2>1, <2>2 DEF Where
  <2>5. OpKeeps(d)'
    BY <2>1, <2>2, <2>4, <1>1 DEF OpKeeps, OpLabel, TypeOK
  <2>6. IntfKeeps(d)'
    BY <2>1, <2>2, <2>4, <1>1, <1>2, <1>3 DEF IntfKeeps, ProbeLabel, Keeps, TypeOK
  <2> QED  BY <2>2, <2>3, <2>5, <2>6, <1>5
<1>d. ASSUME NEW n \in IfNum, PowerInc(d, n) PROVE Safe(d)
  <2>1. /\ UNCHANGED <<usb_chip, phase, chip_index, bound, intfdata, probe_chip, ifn, cont, private_data>>
        /\ Inc(d, OpRef(d), intfdata[<<d, n>>], "use", "idle")
        /\ idx' = [idx EXCEPT ![d] = intfdata[<<d, n>>]]
        /\ pc[d] = "idle"
    BY <1>d DEF PowerInc, slotVars, chipVars, usbVars
  <2>2. /\ HeldChipPublished' /\ RefCountCovers'
        /\ \A j \in RefOwner : j # OpRef(d) => holds'[j] = holds[j]
        /\ \A u \in Thread : u # d => pc'[u] = pc[u]
        /\ \/ pc'[d] = "use" /\ Keeps(OpRef(d), intfdata[<<d, n>>])'
           \/ pc'[d] = "idle" /\ holds' = holds
    <3>1. PICK s \in Slot : s = intfdata[<<d, n>>]
      BY <1>2
    <3>2. /\ HeldChipPublished' /\ RefCountCovers'
          /\ \A j \in RefOwner : j # OpRef(d) => holds'[j] = holds[j]
          /\ \A u \in Thread : u # d => pc'[u] = pc[u]
          /\ \/ pc'[d] = "use" /\ Keeps(OpRef(d), s)'
             \/ pc'[d] = "idle" /\ holds' = holds
      BY <3>1, <2>1, <1>1, <1>3, IncStep
    <3> QED  BY <3>1, <3>2, <2>1 DEF Keeps
  <2>3. StepOf(d)
    BY <2>1, <2>2, <1>1 DEF StepOf, TypeOK
  <2>4. Where(d) = "idle" /\ Where(d)' = pc'[d]
    BY <2>1, <2>2 DEF Where
  <2>5. OpKeeps(d)'
    BY <2>1, <2>2, <2>4, <1>1 DEF OpKeeps, OpLabel, TypeOK
  <2>6. IntfKeeps(d)'
    BY <2>1, <2>2, <2>4, <1>1, <1>2, <1>3 DEF IntfKeeps, ProbeLabel, Keeps, TypeOK
  <2> QED  BY <2>2, <2>3, <2>5, <2>6, <1>5
<1>e. CASE ProbeInc(d)
  <2> DEFINE k == IntfRef(<<d, ifn[d]>>)
  <2>1. /\ UNCHANGED <<usb_chip, phase, chip_index, bound, intfdata, probe_chip, ifn, cont, idx,
                        private_data>>
        /\ Inc(d, k, idx[d], "probe_streams", "probe_streams")
        /\ pc[d] = "probe_inc" /\ usb_chip[idx[d]] = probe_chip[d]
    BY <1>e DEF ProbeInc, slotVars, chipVars, usbVars
  <2>2. /\ probe_chip[d] # NoChip /\ intfdata[<<d, ifn[d]>>] = idx[d] /\ <<d, ifn[d]>> \notin bound
    BY <2>1, <1>3 DEF IntfKeeps, Where
  <2>3. Acquirable(idx[d])
    BY <2>1, <2>2, <1>1, <1>3 DEF Acquirable, TableOK
  <2>4. /\ HeldChipPublished' /\ RefCountCovers'
        /\ \A j \in RefOwner : j # k => holds'[j] = holds[j]
        /\ \A u \in Thread : u # d => pc'[u] = pc[u]
        /\ pc'[d] = "probe_streams" /\ Keeps(k, idx[d])' /\ holds'[k] = probe_chip[d]
    <3>1. PICK s \in Slot, j \in RefOwner : s = idx[d] /\ j = k
      BY <1>1, <1>2
    <3>2. /\ HeldChipPublished' /\ RefCountCovers'
          /\ \A i \in RefOwner : i # j => holds'[i] = holds[i]
          /\ \A u \in Thread : u # d => pc'[u] = pc[u]
          /\ pc'[d] = "probe_streams" /\ Keeps(j, s)' /\ holds'[j] = usb_chip[s]
      BY <3>1, <2>1, <2>3, <1>1, <1>3, IncStep
    <3> QED  BY <3>1, <3>2, <2>1 DEF Keeps
  <2>5. StepOf(d)
    BY <2>1, <2>4, <1>1, <1>2 DEF StepOf, TypeOK
  <2>6. OpKeeps(d)'
    BY <2>4 DEF OpKeeps, OpLabel, Where
  <2>7. IntfKeeps(d)'
    BY <2>1, <2>2, <2>4, <1>1, <1>2, <1>3 DEF IntfKeeps, ProbeLabel, Keeps, Where
  <2> QED  BY <2>4, <2>5, <2>6, <2>7, <1>5
<1>f. CASE ProbeStreams(d) \/ ProbeCardFails(d) \/ DisconnectSignal(d)
  <2>1. /\ UNCHANGED <<usb_chip, phase, chip_index, bound, intfdata, probe_chip, ifn, cont, idx,
                        private_data, ref_count, holds>>
        /\ \/ pc[d] = "disc_signal" /\ pc' = [pc EXCEPT ![d] = "disc_dec"]
           \/ pc[d] = "probe_streams" /\ pc' = [pc EXCEPT ![d] = "probe_card"]
           \/ pc[d] \in {"probe_streams", "probe_card"} /\ pc' = [pc EXCEPT ![d] = "probe_error"]
    BY <1>f DEF ProbeStreams, ProbeCardFails, DisconnectSignal, slotVars, chipVars, usbVars, Goto
  <2>2. StepOf(d)
    BY <2>1 DEF StepOf, TypeOK
  <2>3. OpKeeps(d)' /\ IntfKeeps(d)'
    BY <2>1, <1>1, <1>2, <1>3 DEF OpKeeps, IntfKeeps, OpLabel, ProbeLabel, Where, Keeps, TypeOK
  <2> QED  BY <2>1, <2>2, <2>3, <1>3, <1>5, QuietStep
<1>g. CASE ProbeCard(d)
  <2>1. /\ UNCHANGED <<usb_chip, phase, chip_index, intfdata, probe_chip, ifn, cont, idx,
                        private_data, ref_count, holds>>
        /\ bound' = bound \cup {<<d, ifn[d]>>}
        /\ pc[d] = "probe_card" /\ pc' = [pc EXCEPT ![d] = "idle"]
    BY <1>g DEF ProbeCard, slotVars, chipVars, Goto
  <2>2. StepOf(d)
    BY <2>1, <1>4, <1>1 DEF StepOf, TypeOK
  <2>3. OpKeeps(d)' /\ IntfKeeps(d)'
    BY <2>1, <1>1, <1>2, <1>3 DEF OpKeeps, IntfKeeps, OpLabel, ProbeLabel, Where, Keeps, TypeOK
  <2> QED  BY <2>1, <2>2, <2>3, <1>3, <1>5, QuietStep
<1>h. CASE ProbeError(d)
  <2>1. pc[d] = "probe_error" /\ Dec(d, IntfRef(<<d, ifn[d]>>), idx[d], "idle")
    BY <1>h DEF ProbeError
  <2>2. Keeps(IntfRef(<<d, ifn[d]>>), idx[d]) /\ <<d, ifn[d]>> \notin bound /\ Where(d) = "probe_error"
    BY <2>1, <1>3 DEF IntfKeeps, ProbeLabel, Where
  <2>3. /\ StepOf(d) /\ HeldChipPublished' /\ RefCountCovers'
        /\ \A j \in RefOwner : j # IntfRef(<<d, ifn[d]>>) => holds'[j] = holds[j]
        /\ Where(d)' = "idle"
        /\ UNCHANGED <<chip_index, idx, private_data, bound, intfdata, ifn, probe_chip>>
    BY <2>1, <2>2, <1>1, <1>2, <1>3, DecSafe
  <2>4. OpKeeps(d)' /\ IntfKeeps(d)'
    BY <2>2, <2>3, <1>1, <1>2, <1>3 DEF OpKeeps, IntfKeeps, OpLabel, ProbeLabel, Keeps
  <2> QED  BY <2>3, <2>4, <1>5
<1>i. CASE DisconnectDec(d)
  <2>1. pc[d] = "disc_dec" /\ Dec(d, OpRef(d), idx[d], "disc_dec_probe")
    BY <1>i DEF DisconnectDec
  <2>2. Keeps(OpRef(d), idx[d]) /\ Keeps(IntfRef(<<d, ifn[d]>>), idx[d]) /\ Where(d) = "disc_dec"
    BY <2>1, <1>3 DEF OpKeeps, IntfKeeps, OpLabel, Where
  <2>3. /\ StepOf(d) /\ HeldChipPublished' /\ RefCountCovers'
        /\ \A j \in RefOwner : j # OpRef(d) => holds'[j] = holds[j]
        /\ Where(d)' = "disc_dec_probe"
        /\ UNCHANGED <<chip_index, idx, private_data, bound, intfdata, ifn, probe_chip>>
    BY <2>1, <2>2, <1>1, <1>3, DecSafe
  <2>4. OpKeeps(d)' /\ IntfKeeps(d)'
    BY <2>2, <2>3, <1>1, <1>2, <1>3 DEF OpKeeps, IntfKeeps, OpLabel, ProbeLabel, Keeps
  <2> QED  BY <2>3, <2>4, <1>5
<1>j. CASE DisconnectDecProbe(d)
  <2>1. pc[d] = "disc_dec_probe" /\ Dec(d, IntfRef(<<d, ifn[d]>>), idx[d], "unbind")
    BY <1>j DEF DisconnectDecProbe
  <2>2. Keeps(IntfRef(<<d, ifn[d]>>), idx[d]) /\ Where(d) = "disc_dec_probe"
    BY <2>1, <1>3 DEF IntfKeeps, Where
  <2>3. /\ StepOf(d) /\ HeldChipPublished' /\ RefCountCovers'
        /\ \A j \in RefOwner : j # IntfRef(<<d, ifn[d]>>) => holds'[j] = holds[j]
        /\ Where(d)' = "unbind"
        /\ UNCHANGED <<chip_index, idx, private_data, bound, intfdata, ifn, probe_chip>>
    BY <2>1, <2>2, <1>1, <1>2, <1>3, DecSafe
  <2>4. OpKeeps(d)' /\ IntfKeeps(d)'
    BY <2>2, <2>3, <1>1, <1>2, <1>3 DEF OpKeeps, IntfKeeps, OpLabel, ProbeLabel, Keeps
  <2> QED  BY <2>3, <2>4, <1>5
<1>k. CASE Unbind(d)
  <2>1. /\ UNCHANGED <<usb_chip, phase, chip_index, intfdata, probe_chip, ifn, cont, idx,
                        private_data, ref_count, holds>>
        /\ bound' = bound \ {<<d, ifn[d]>>}
        /\ pc[d] = "unbind" /\ pc' = [pc EXCEPT ![d] = "idle"]
    BY <1>k DEF Unbind, slotVars, chipVars, Goto
  <2>2. StepOf(d)
    BY <2>1, <1>4, <1>1 DEF StepOf, TypeOK
  <2>3. OpKeeps(d)' /\ IntfKeeps(d)'
    BY <2>1, <1>1, <1>2, <1>3 DEF OpKeeps, IntfKeeps, OpLabel, ProbeLabel, Where, Keeps, TypeOK
  <2> QED  BY <2>1, <2>2, <2>3, <1>3, <1>5, QuietStep
<1> QED  BY <1>a, <1>b, <1>c, <1>d, <1>e, <1>f, <1>g, <1>h, <1>i, <1>j, <1>k DEF HubStep

-----------------------------------------------------------------------------
(* The file operations and the /proc readers.                              *)
LEMMA ClientSafe ==
  ASSUME TypeOK, TypeOK', RegistryInv, ~robbed, ~robbed', NEW c \in Client, ClientStep(c)
  PROVE  Safe(c)
<1> USE DEF Safe
<1>1. /\ c \in Thread /\ c \notin Device /\ idx[c] \in Slot /\ private_data[c] \in Slot
      /\ OpRef(c) \in RefOwner /\ OpRef(c) \in Mine(c) /\ SubRef(c) # OpRef(c)
      /\ FileRef(c) \in RefOwner /\ FileRef(c) \in Mine(c) /\ FileRef(c) # OpRef(c)
  BY ThreadAssumption, OwnersAre, OwnersDiffer DEF TypeOK, Thread, Mine
<1>2. /\ TableOK /\ HeldChipPublished /\ RefCountCovers
      /\ OpKeeps(c) /\ FileKeeps(c)
  BY <1>1 DEF RegistryInv, ThreadKeeps
<1>3. OpKeeps(c)' /\ FileKeeps(c)' => ThreadKeeps(c)'
  BY <1>1 DEF ThreadKeeps
<1>a. ASSUME \/ \E f \in Intf : OpenLookup(c, f)
             \/ \E ch \in Chip : ProcLookup(c, ch)
      PROVE  Safe(c)
  <2>1. /\ UNCHANGED <<usb_chip, phase, chip_index, ref_count, holds, cont, private_data, bound,
                        intfdata, ifn, probe_chip>>
        /\ \A u \in Thread : u # c => idx'[u] = idx[u] /\ pc'[u] = pc[u]
        /\ pc[c] = "idle" /\ pc'[c] \in {"open_inc", "proc_inc", "long_inc"}
        /\ pc'[c] = "open_inc" => ~FileOpen(c)
    BY <1>a, <1>1 DEF OpenLookup, ProcLookup, slotVars, chipVars, usbVars, Goto, TypeOK
  <2>2. StepOf(c)
    BY <2>1 DEF StepOf
  <2>3. OpKeeps(c)' /\ FileKeeps(c)'
    BY <2>1, <1>1, <1>2
    DEF OpKeeps, FileKeeps, FileOpen, Where, Keeps, NoFileLabel, NewFileLabel, CloseLabel, OpLabel
  <2> QED  BY <2>1, <2>2, <2>3, <1>2, <1>3, QuietStep
<1>b. CASE OpenInc(c)
  <2>1. /\ UNCHANGED <<usb_chip, phase, chip_index, cont, private_data, bound, intfdata, ifn,
                        probe_chip>>
        /\ Inc(c, OpRef(c), idx[c], "open_inc_again", "idle") /\ pc[c] = "open_inc"
        /\ idx' = idx
    BY <1>b DEF OpenInc, slotVars, chipVars, usbVars
  <2>2. PICK s \in Slot : s = idx[c]
    BY <1>1
  <2>3. /\ HeldChipPublished' /\ RefCountCovers'
        /\ \A j \in RefOwner : j # OpRef(c) => holds'[j] = holds[j]
        /\ \A u \in Thread : u # c => pc'[u] = pc[u]
        /\ \/ pc'[c] = "open_inc_again" /\ Keeps(OpRef(c), s)'
           \/ pc'[c] = "idle" /\ holds' = holds
    BY <2>1, <2>2, <1>1, <1>2, IncStep
  <2>4. StepOf(c) /\ idx'[c] = s /\ Where(c) = "open_inc" /\ Where(c)' = pc'[c]
    BY <2>1, <2>2, <2>3, <1>1 DEF StepOf, Where, TypeOK
  <2>5. OpKeeps(c)' /\ FileKeeps(c)'
    BY <2>1, <2>2, <2>3, <2>4, <1>1, <1>2
    DEF OpKeeps, FileKeeps, FileOpen, Keeps, NoFileLabel, NewFileLabel, CloseLabel, OpLabel
  <2> QED  BY <2>3, <2>4, <2>5, <1>3
<1>c. CASE OpenIncAgain(c)
  <2>1. /\ UNCHANGED <<usb_chip, phase, chip_index, cont, private_data, bound, intfdata, ifn,
                        probe_chip>>
        /\ Inc(c, FileRef(c), idx[c], "open_body", "open_undo") /\ pc[c] = "open_inc_again"
        /\ idx' = idx
    BY <1>c DEF OpenIncAgain, slotVars, chipVars, usbVars
  <2>2. PICK s \in Slot : s = idx[c]
    BY <1>1
  <2>3. /\ HeldChipPublished' /\ RefCountCovers'
        /\ \A j \in RefOwner : j # FileRef(c) => holds'[j] = holds[j]
        /\ \A u \in Thread : u # c => pc'[u] = pc[u]
        /\ \/ pc'[c] = "open_body" /\ Keeps(FileRef(c), s)'
           \/ pc'[c] = "open_undo" /\ holds' = holds
    BY <2>1, <2>2, <1>1, <1>2, IncStep
  <2>4. StepOf(c) /\ idx'[c] = s /\ Where(c) = "open_inc_again" /\ Where(c)' = pc'[c]
    BY <2>1, <2>2, <2>3, <1>1 DEF StepOf, Where, TypeOK
  <2>5. OpKeeps(c)' /\ FileKeeps(c)'
    BY <2>1, <2>2, <2>3, <2>4, <1>1, <1>2
    DEF OpKeeps, FileKeeps, FileOpen, Keeps, NoFileLabel, NewFileLabel, CloseLabel, OpLabel
  <2> QED  BY <2>3, <2>4, <2>5, <1>3
<1>d. CASE ProcInc(c)
  <2>1. /\ UNCHANGED <<usb_chip, phase, chip_index, cont, private_data, bound, intfdata, ifn,
                        probe_chip>>
        /\ Inc(c, OpRef(c), idx[c], "use", "idle") /\ pc[c] = "proc_inc"
        /\ idx' = idx
    BY <1>d DEF ProcInc, slotVars, chipVars, usbVars
  <2>2. PICK s \in Slot : s = idx[c]
    BY <1>1
  <2>3. /\ HeldChipPublished' /\ RefCountCovers'
        /\ \A j \in RefOwner : j # OpRef(c) => holds'[j] = holds[j]
        /\ \A u \in Thread : u # c => pc'[u] = pc[u]
        /\ \/ pc'[c] = "use" /\ Keeps(OpRef(c), s)'
           \/ pc'[c] = "idle" /\ holds' = holds
    BY <2>1, <2>2, <1>1, <1>2, IncStep
  <2>4. StepOf(c) /\ idx'[c] = s /\ Where(c) = "proc_inc" /\ Where(c)' = pc'[c]
    BY <2>1, <2>2, <2>3, <1>1 DEF StepOf, Where, TypeOK
  <2>5. OpKeeps(c)' /\ FileKeeps(c)'
    BY <2>1, <2>2, <2>3, <2>4, <1>1, <1>2
    DEF OpKeeps, FileKeeps, FileOpen, Keeps, NoFileLabel, NewFileLabel, CloseLabel, OpLabel
  <2> QED  BY <2>3, <2>4, <2>5, <1>3
<1>e. CASE IoctlInc(c)
  <2>1. /\ UNCHANGED <<usb_chip, phase, chip_index, cont, private_data, bound, intfdata, ifn,
                        probe_chip>>
        /\ Inc(c, OpRef(c), private_data[c], "ioctl", "idle") /\ pc[c] = "idle"
        /\ idx' = [idx EXCEPT ![c] = private_data[c]] /\ FileOpen(c)
    BY <1>e DEF IoctlInc, slotVars, chipVars, usbVars
  <2>2. PICK s \in Slot : s = private_data[c]
    BY <1>1
  <2>3. /\ HeldChipPublished' /\ RefCountCovers'
        /\ \A j \in RefOwner : j # OpRef(c) => holds'[j] = holds[j]
        /\ \A u \in Thread : u # c => pc'[u] = pc[u]
        /\ \/ pc'[c] = "ioctl" /\ Keeps(OpRef(c), s)'
           \/ pc'[c] = "idle" /\ holds' = holds
    BY <2>1, <2>2, <1>1, <1>2, IncStep
  <2>4. StepOf(c) /\ idx'[c] = s /\ Where(c) = "idle" /\ Where(c)' = pc'[c]
    BY <2>1, <2>2, <2>3, <1>1 DEF StepOf, Where, TypeOK
  <2>5. OpKeeps(c)' /\ FileKeeps(c)'
    BY <2>1, <2>2, <2>3, <2>4, <1>1, <1>2
    DEF OpKeeps, FileKeeps, FileOpen, Keeps, NoFileLabel, NewFileLabel, CloseLabel, OpLabel
  <2> QED  BY <2>3, <2>4, <2>5, <1>3
<1>f. CASE ReleaseInc(c)
  <2>1. /\ UNCHANGED <<usb_chip, phase, chip_index, cont, private_data, bound, intfdata, ifn,
                        probe_chip>>
        /\ IncFound(c, OpRef(c), private_data[c], "rel_unregister") /\ pc[c] = "idle"
        /\ idx' = [idx EXCEPT ![c] = private_data[c]] /\ FileOpen(c)
    <3>1. Acquirable(private_data[c])
      <4>1. Where(c) = "idle" /\ FileOpen(c)
        BY <1>f DEF ReleaseInc, Where
      <4> QED  BY <4>1, <1>1, <1>2, KeepsAcquirable DEF FileKeeps, NewFileLabel
    <3> QED  BY <1>f, <3>1 DEF ReleaseInc, IncNullForget, slotVars, chipVars, usbVars
  <2>2. PICK s \in Slot : s = private_data[c]
    BY <1>1
  <2>3. /\ HeldChipPublished' /\ RefCountCovers'
        /\ \A j \in RefOwner : j # OpRef(c) => holds'[j] = holds[j]
        /\ \A u \in Thread : u # c => pc'[u] = pc[u]
        /\ pc'[c] = "rel_unregister" /\ Keeps(OpRef(c), s)'
    BY <2>1, <2>2, <1>1, <1>2, IncFoundStep
  <2>4. StepOf(c) /\ idx'[c] = s /\ Where(c) = "idle" /\ Where(c)' = pc'[c]
    BY <2>1, <2>2, <2>3, <1>1 DEF StepOf, Where, TypeOK
  <2>5. OpKeeps(c)' /\ FileKeeps(c)'
    BY <2>1, <2>2, <2>3, <2>4, <1>1, <1>2
    DEF OpKeeps, FileKeeps, FileOpen, Keeps, NoFileLabel, NewFileLabel, CloseLabel, OpLabel
  <2> QED  BY <2>3, <2>4, <2>5, <1>3
<1>g. CASE OpenUndo(c)
  <2>1. pc[c] = "open_undo" /\ Dec(c, OpRef(c), idx[c], "idle")
    BY <1>g DEF OpenUndo
  <2>2. Where(c) = "open_undo" /\ Keeps(OpRef(c), idx[c])
    BY <2>1, <1>2
    DEF OpKeeps, FileKeeps, NoFileLabel, NewFileLabel, CloseLabel, OpLabel, Where
  <2>3. /\ StepOf(c) /\ HeldChipPublished' /\ RefCountCovers'
        /\ \A j \in RefOwner : j # OpRef(c) => holds'[j] = holds[j]
        /\ holds'[OpRef(c)] = NoChip /\ Where(c)' = "idle"
        /\ UNCHANGED <<chip_index, idx, private_data, bound, intfdata, ifn, probe_chip>>
    BY <2>1, <2>2, <1>1, <1>2, DecSafe
  <2>4. OpKeeps(c)' /\ FileKeeps(c)'
    BY <2>2, <2>3, <1>1, <1>2
    DEF OpKeeps, FileKeeps, FileOpen, Keeps, NoFileLabel, NewFileLabel, CloseLabel, OpLabel
  <2> QED  BY <2>3, <2>4, <1>3
<1>h. CASE OpenDec(c)
  <2>1. pc[c] = "open_dec" /\ Dec(c, OpRef(c), idx[c], "idle")
    BY <1>h DEF OpenDec
  <2>2. Where(c) = "open_dec" /\ Keeps(OpRef(c), idx[c])
    BY <2>1, <1>2
    DEF OpKeeps, FileKeeps, NoFileLabel, NewFileLabel, CloseLabel, OpLabel, Where
  <2>3. /\ StepOf(c) /\ HeldChipPublished' /\ RefCountCovers'
        /\ \A j \in RefOwner : j # OpRef(c) => holds'[j] = holds[j]
        /\ holds'[OpRef(c)] = NoChip /\ Where(c)' = "idle"
        /\ UNCHANGED <<chip_index, idx, private_data, bound, intfdata, ifn, probe_chip>>
    BY <2>1, <2>2, <1>1, <1>2, DecSafe
  <2>4. OpKeeps(c)' /\ FileKeeps(c)'
    BY <2>2, <2>3, <1>1, <1>2
    DEF OpKeeps, FileKeeps, FileOpen, Keeps, NoFileLabel, NewFileLabel, CloseLabel, OpLabel
  <2> QED  BY <2>3, <2>4, <1>3
<1>i. CASE OpenFailDec(c)
  <2>1. pc[c] = "open_fail_dec" /\ Dec(c, OpRef(c), idx[c], "open_fail_dec_again")
    BY <1>i DEF OpenFailDec
  <2>2. Where(c) = "open_fail_dec" /\ Keeps(OpRef(c), idx[c])
    BY <2>1, <1>2
    DEF OpKeeps, FileKeeps, NoFileLabel, NewFileLabel, CloseLabel, OpLabel, Where
  <2>3. /\ StepOf(c) /\ HeldChipPublished' /\ RefCountCovers'
        /\ \A j \in RefOwner : j # OpRef(c) => holds'[j] = holds[j]
        /\ holds'[OpRef(c)] = NoChip /\ Where(c)' = "open_fail_dec_again"
        /\ UNCHANGED <<chip_index, idx, private_data, bound, intfdata, ifn, probe_chip>>
    BY <2>1, <2>2, <1>1, <1>2, DecSafe
  <2>4. OpKeeps(c)' /\ FileKeeps(c)'
    BY <2>2, <2>3, <1>1, <1>2
    DEF OpKeeps, FileKeeps, FileOpen, Keeps, NoFileLabel, NewFileLabel, CloseLabel, OpLabel
  <2> QED  BY <2>3, <2>4, <1>3
<1>j. CASE OpenFailDecAgain(c)
  <2>1. pc[c] = "open_fail_dec_again" /\ Dec(c, FileRef(c), idx[c], "idle")
    BY <1>j DEF OpenFailDecAgain
  <2>2. Where(c) = "open_fail_dec_again" /\ Keeps(FileRef(c), idx[c])
    BY <2>1, <1>2
    DEF OpKeeps, FileKeeps, NoFileLabel, NewFileLabel, CloseLabel, OpLabel, Where
  <2>3. /\ StepOf(c) /\ HeldChipPublished' /\ RefCountCovers'
        /\ \A j \in RefOwner : j # FileRef(c) => holds'[j] = holds[j]
        /\ holds'[FileRef(c)] = NoChip /\ Where(c)' = "idle"
        /\ UNCHANGED <<chip_index, idx, private_data, bound, intfdata, ifn, probe_chip>>
    BY <2>1, <2>2, <1>1, <1>2, DecSafe
  <2>4. OpKeeps(c)' /\ FileKeeps(c)'
    BY <2>2, <2>3, <1>1, <1>2
    DEF OpKeeps, FileKeeps, FileOpen, Keeps, NoFileLabel, NewFileLabel, CloseLabel, OpLabel
  <2> QED  BY <2>3, <2>4, <1>3
<1>k. CASE ReleaseDec(c)
  <2>1. pc[c] = "rel_dec" /\ Dec(c, OpRef(c), idx[c], "rel_dec_open")
    BY <1>k DEF ReleaseDec
  <2>2. Where(c) = "rel_dec" /\ Keeps(OpRef(c), idx[c])
    BY <2>1, <1>2
    DEF OpKeeps, FileKeeps, NoFileLabel, NewFileLabel, CloseLabel, OpLabel, Where
  <2>3. /\ StepOf(c) /\ HeldChipPublished' /\ RefCountCovers'
        /\ \A j \in RefOwner : j # OpRef(c) => holds'[j] = holds[j]
        /\ holds'[OpRef(c)] = NoChip /\ Where(c)' = "rel_dec_open"
        /\ UNCHANGED <<chip_index, idx, private_data, bound, intfdata, ifn, probe_chip>>
    BY <2>1, <2>2, <1>1, <1>2, DecSafe
  <2>4. OpKeeps(c)' /\ FileKeeps(c)'
    BY <2>2, <2>3, <1>1, <1>2
    DEF OpKeeps, FileKeeps, FileOpen, Keeps, NoFileLabel, NewFileLabel, CloseLabel, OpLabel
  <2> QED  BY <2>3, <2>4, <1>3
<1>l. CASE ReleaseDecOpen(c)
  <2>1. pc[c] = "rel_dec_open" /\ Dec(c, FileRef(c), idx[c], "idle")
    BY <1>l DEF ReleaseDecOpen
  <2>2. Where(c) = "rel_dec_open" /\ Keeps(FileRef(c), idx[c])
    BY <2>1, <1>2
    DEF OpKeeps, FileKeeps, NoFileLabel, NewFileLabel, CloseLabel, OpLabel, Where
  <2>3. /\ StepOf(c) /\ HeldChipPublished' /\ RefCountCovers'
        /\ \A j \in RefOwner : j # FileRef(c) => holds'[j] = holds[j]
        /\ holds'[FileRef(c)] = NoChip /\ Where(c)' = "idle"
        /\ UNCHANGED <<chip_index, idx, private_data, bound, intfdata, ifn, probe_chip>>
    BY <2>1, <2>2, <1>1, <1>2, DecSafe
  <2>4. OpKeeps(c)' /\ FileKeeps(c)'
    BY <2>2, <2>3, <1>1, <1>2
    DEF OpKeeps, FileKeeps, FileOpen, Keeps, NoFileLabel, NewFileLabel, CloseLabel, OpLabel
  <2> QED  BY <2>3, <2>4, <1>3
<1>m. CASE OpenBody(c) \/ RegisterForNetlink(c) \/ ReleaseUnregister(c)
  <2>1. /\ UNCHANGED <<usb_chip, phase, chip_index, ref_count, holds, cont, idx, bound,
                        intfdata, ifn, probe_chip>>
        /\ \A u \in Thread : u # c => pc'[u] = pc[u]
        /\ \A e \in Client : e # c => private_data'[e] = private_data[e]
        /\ \/ pc[c] = "open_body" /\ pc'[c] = "open_dec" /\ private_data'[c] = idx[c]
           \/ /\ \/ pc[c] = "open_body" /\ pc'[c] = "open_fail_dec"
                 \/ pc[c] = "ioctl" /\ pc'[c] = "dec"
                 \/ pc[c] = "rel_unregister" /\ pc'[c] = "rel_dec"
              /\ private_data'[c] = private_data[c]
    BY <1>m, <1>1 DEF OpenBody, RegisterForNetlink, ReleaseUnregister, slotVars, chipVars, usbVars,
                      Goto, TypeOK
  <2>2. StepOf(c)
    BY <2>1 DEF StepOf
  <2>3. OpKeeps(c)' /\ FileKeeps(c)'
    BY <2>1, <1>1, <1>2
    DEF OpKeeps, FileKeeps, FileOpen, Where, Keeps, NoFileLabel, NewFileLabel, CloseLabel, OpLabel
  <2> QED  BY <2>1, <2>2, <2>3, <1>2, <1>3, QuietStep
<1>n. CASE LongnameInc(c)
  <2>1. /\ UNCHANGED <<usb_chip, phase, chip_index, holds, cont, idx, bound, private_data,
                        intfdata, ifn, probe_chip>>
        /\ \A u \in Thread : u # c => pc'[u] = pc[u]
        /\ pc[c] = "long_inc" /\ pc'[c] = "proc_inc"
        /\ \A h \in Chip : ref_count'[h] \in {ref_count[h], ref_count[h] + 1}
    BY <1>n, <1>1 DEF LongnameInc, slotVars, chipVars, usbVars, Goto, TypeOK
  <2>2. StepOf(c)
    BY <2>1 DEF StepOf
  <2>3. OpKeeps(c)' /\ FileKeeps(c)'
    BY <2>1, <1>1, <1>2
    DEF OpKeeps, FileKeeps, FileOpen, Where, Keeps, NoFileLabel, NewFileLabel, CloseLabel, OpLabel
  <2>4. HeldChipPublished'
    BY <2>1, <1>2 DEF HeldChipPublished
  <2>5. RefCountCovers'
    <3> SUFFICES ASSUME NEW h \in Chip, phase[h] = "live"
                 PROVE  Cardinality(Holders(h)') <= ref_count'[h]
      BY <2>1 DEF RefCountCovers, Holders
    <3>1. Holders(h)' = Holders(h) /\ Cardinality(Holders(h)) \in Nat
      BY <2>1, HoldersFinite DEF Holders
    <3>2. Cardinality(Holders(h)) <= ref_count[h] /\ ref_count[h] \in Int
      BY <1>2 DEF RefCountCovers, TypeOK
    <3> QED  BY <2>1, <3>1, <3>2
  <2> QED  BY <2>2, <2>3, <2>4, <2>5, <1>3
<1> QED  BY <1>a, <1>b, <1>c, <1>d, <1>e, <1>f, <1>g, <1>h, <1>i, <1>j, <1>k, <1>l, <1>m, <1>n
         DEF ClientStep

-----------------------------------------------------------------------------
(* The steps that any thread takes.                                        *)
LEMMA AnySafe ==
  ASSUME TypeOK, TypeOK', RegistryInv, ~robbed, ~robbed', NEW t \in Thread, AnyStep(t)
  PROVE  Safe(t)
<1> USE DEF Safe
<1> DEFINE Plain == {"idle", "use", "ioctl", "dec", "sub"}
<1>1. /\ idx[t] \in Slot /\ OpRef(t) \in RefOwner /\ SubRef(t) \in RefOwner
      /\ OpRef(t) # SubRef(t) /\ OpRef(t) \in Mine(t) /\ SubRef(t) \in Mine(t)
  BY OwnersAre, OwnersDiffer DEF TypeOK, Mine
<1>2. /\ TableOK /\ HeldChipPublished /\ RefCountCovers
      /\ OpKeeps(t) /\ ThreadKeeps(t)
  BY <1>1 DEF RegistryInv, ThreadKeeps
<1>3. ASSUME Where(t) \in Plain, Where(t)' \in Plain, OpKeeps(t)',
             UNCHANGED <<chip_index, private_data, bound, intfdata, ifn>>,
             \A k \in RefOwner : k # OpRef(t) /\ k # SubRef(t) => holds'[k] = holds[k]
      PROVE  ThreadKeeps(t)'
  <2>1. ASSUME t \in Client PROVE FileKeeps(t)'
    <3>1. FileRef(t) \in RefOwner /\ FileRef(t) # OpRef(t) /\ FileRef(t) # SubRef(t)
      BY <2>1, OwnersAre, OwnersDiffer
    <3> QED  BY <1>2, <1>3, <2>1, <3>1
             DEF ThreadKeeps, FileKeeps, FileOpen, Keeps, NoFileLabel, NewFileLabel, CloseLabel
  <2>2. ASSUME t \in Device PROVE IntfKeeps(t)'
    <3>1. \A n \in IfNum : /\ IntfRef(<<t, n>>) \in RefOwner
                          /\ IntfRef(<<t, n>>) # OpRef(t) /\ IntfRef(<<t, n>>) # SubRef(t)
      BY <2>2, OwnersAre, OwnersDiffer DEF Intf
    <3> QED  BY <1>2, <1>3, <2>2, <3>1 DEF ThreadKeeps, IntfKeeps, Keeps, ProbeLabel
  <2> QED  BY <1>3, <2>1, <2>2 DEF ThreadKeeps
<1>a. CASE WorkDone(t)
  <2>1. /\ UNCHANGED <<usb_chip, phase, chip_index, ref_count, holds, cont, idx, private_data,
                        bound, intfdata, ifn, probe_chip>>
        /\ pc[t] \in {"ioctl", "use"} /\ pc' = [pc EXCEPT ![t] = "dec"]
    BY <1>a DEF WorkDone, slotVars, chipVars, usbVars, Goto
  <2>2. StepOf(t) /\ Where(t) \in {"ioctl", "use"} /\ Where(t)' = "dec"
    BY <2>1 DEF StepOf, Where, TypeOK
  <2>3. OpKeeps(t)'
    BY <2>1, <2>2, <1>2 DEF OpKeeps, OpLabel, Keeps
  <2> QED  BY <2>1, <2>2, <2>3, <1>2, <1>3, QuietStep
<1>b. CASE OpDec(t)
  <2>1. pc[t] = "dec" /\ Dec(t, OpRef(t), idx[t], "idle")
    BY <1>b DEF OpDec
  <2>2. Where(t) = "dec" /\ Keeps(OpRef(t), idx[t])
    BY <2>1, <1>2 DEF OpKeeps, OpLabel, Where
  <2>3. /\ StepOf(t) /\ HeldChipPublished' /\ RefCountCovers'
        /\ \A j \in RefOwner : j # OpRef(t) => holds'[j] = holds[j]
        /\ Where(t)' = "idle"
        /\ UNCHANGED <<chip_index, idx, private_data, bound, intfdata, ifn, probe_chip>>
    BY <2>1, <2>2, <1>1, <1>2, DecSafe
  <2>4. OpKeeps(t)'
    BY <2>3 DEF OpKeeps, OpLabel
  <2> QED  BY <2>2, <2>3, <2>4, <1>3
<1>c. CASE SubDec(t)
  <2>1. pc[t] = "sub" /\ Dec(t, SubRef(t), idx[t], cont[t])
    BY <1>c DEF SubDec
  <2>2. /\ Where(t) = "sub" /\ Keeps(SubRef(t), idx[t]) /\ Keeps(OpRef(t), idx[t])
        /\ cont[t] \in {"use", "ioctl"}
    BY <2>1, <1>2 DEF OpKeeps, OpLabel, Where
  <2>3. PICK next : next = cont[t]
    OBVIOUS
  <2>4. /\ StepOf(t) /\ HeldChipPublished' /\ RefCountCovers'
        /\ \A j \in RefOwner : j # SubRef(t) => holds'[j] = holds[j]
        /\ Where(t)' = next
        /\ UNCHANGED <<chip_index, idx, private_data, bound, intfdata, ifn, probe_chip>>
    BY <2>1, <2>2, <2>3, <1>1, <1>2, DecSafe
  <2>5. OpKeeps(t)'
    BY <2>2, <2>3, <2>4, <1>1 DEF OpKeeps, OpLabel, Keeps
  <2> QED  BY <2>2, <2>3, <2>4, <2>5, <1>3
<1>d. CASE SubInc(t)
  <2>1. /\ UNCHANGED <<usb_chip, phase, chip_index, idx, private_data, bound, intfdata, ifn,
                        probe_chip>>
        /\ Inc(t, SubRef(t), idx[t], "sub", pc[t]) /\ pc[t] \in {"ioctl", "use"}
        /\ cont' = [cont EXCEPT ![t] = pc[t]]
    BY <1>d DEF SubInc, slotVars, chipVars, usbVars
  <2>2. PICK s, null : s \in Slot /\ s = idx[t] /\ null = pc[t]
    BY <1>1
  <2>3. /\ HeldChipPublished' /\ RefCountCovers'
        /\ \A j \in RefOwner : j # SubRef(t) => holds'[j] = holds[j]
        /\ \A u \in Thread : u # t => pc'[u] = pc[u]
        /\ \/ pc'[t] = "sub" /\ Keeps(SubRef(t), s)'
           \/ pc'[t] = null /\ holds' = holds
    BY <2>1, <2>2, <1>1, <1>2, IncStep
  <2>4. StepOf(t) /\ Where(t) = pc[t] /\ Where(t)' = pc'[t] /\ cont'[t] = pc[t]
    BY <2>1, <2>2, <2>3, <1>1 DEF StepOf, Where, TypeOK
  <2>5. OpKeeps(t)'
    BY <2>1, <2>2, <2>3, <2>4, <1>1, <1>2 DEF OpKeeps, OpLabel, Keeps
  <2>6. Where(t) \in Plain /\ Where(t)' \in Plain
    BY <2>1, <2>2, <2>3, <2>4
  <2> QED  BY <2>1, <2>3, <2>4, <2>5, <2>6, <1>3
<1>e. CASE SetChannelInvalid(t)
  <2>1. /\ UNCHANGED <<usb_chip, phase, chip_index, ref_count, cont, idx, private_data, bound,
                        intfdata, ifn, probe_chip>>
        /\ holds' = [holds EXCEPT ![SubRef(t)] = NoChip]
        /\ pc[t] = "sub" /\ pc' = [pc EXCEPT ![t] = cont[t]]
    BY <1>e DEF SetChannelInvalid, slotVars, chipVars, usbVars, Goto
  <2>2. Where(t) = "sub" /\ Keeps(OpRef(t), idx[t]) /\ cont[t] \in {"use", "ioctl"}
    BY <2>1, <1>2 DEF OpKeeps, OpLabel, Where
  <2>3. StepOf(t) /\ Where(t)' = cont[t] /\ holds'[OpRef(t)] = holds[OpRef(t)]
    BY <2>1, <2>2, <1>1 DEF StepOf, Where, TypeOK
  <2>4. OpKeeps(t)'
    BY <2>1, <2>2, <2>3 DEF OpKeeps, Keeps
  <2>5. HeldChipPublished'
    BY <2>1, <1>2 DEF HeldChipPublished, TypeOK
  <2>6. RefCountCovers'
    <3> SUFFICES ASSUME NEW h \in Chip, phase[h] = "live"
                 PROVE  Cardinality(Holders(h)') <= ref_count[h]
      BY <2>1 DEF RefCountCovers, Holders
    <3>1. NoChip # h /\ NoChip \in Chip \cup {NoChip}
      BY ChipAssumption
    <3>2. /\ Cardinality(Holders(h)') \in Nat
          /\ Cardinality(Holders(h)') <= Cardinality(Holders(h))
      BY <2>1, <3>1, <1>1, HoldersGain
    <3>3. Cardinality(Holders(h)) \in Nat
      BY HoldersFinite
    <3>4. Cardinality(Holders(h)) <= ref_count[h] /\ ref_count[h] \in Int
      BY <1>2 DEF RefCountCovers, TypeOK
    <3> QED  BY <3>2, <3>3, <3>4
  <2>7. \A k \in RefOwner : k # SubRef(t) => holds'[k] = holds[k]
    BY <2>1 DEF TypeOK
  <2> QED  BY <2>1, <2>2, <2>3, <2>4, <2>5, <2>6, <2>7, <1>3
<1>f. CASE ReleaseTail(t)
  <2>1. /\ UNCHANGED <<usb_chip, chip_index, ref_count, holds, cont, idx, private_data, bound,
                        intfdata, ifn, probe_chip>>
        /\ \A h \in Chip : phase[h] # "released" => phase'[h] = phase[h]
        /\ \A h \in Chip : phase'[h] = "live" => phase[h] = "live"
        /\ pc[t] = "releasing" /\ pc' = [pc EXCEPT ![t] = cont[t]]
    BY <1>f, <1>2, ChipAssumption DEF ReleaseTail, TableOK, TypeOK, chipVars, usbVars, Goto
  <2>2. Where(t)' = Where(t) /\ StepOf(t)
    BY <2>1 DEF Where, StepOf, TypeOK
  <2>3. HeldChipPublished' /\ RefCountCovers'
    BY <2>1, <1>2 DEF HeldChipPublished, RefCountCovers, Holders, TypeOK
  <2>4. ThreadKeeps(t)'
    BY <2>1, <2>2, <1>2 DEF ThreadKeeps, OpKeeps, FileKeeps, IntfKeeps, FileOpen, Keeps
  <2> QED  BY <2>2, <2>3, <2>4
<1> QED  BY <1>a, <1>b, <1>c, <1>d, <1>e, <1>f DEF AnyStep

(* ALSA takes no reference and destroys only released chips.               *)
LEMMA AlsaSafe ==
  ASSUME TypeOK, RegistryInv, ~robbed, NEW a \in AlsaClient,
         AlsaClose(a) \/ \E ch \in Chip : AlsaOpen(a, ch)
  PROVE  HeldChipPublished' /\ RefCountCovers' /\ \A t \in Thread : ThreadKeeps(t)'
<1>1. /\ UNCHANGED <<usb_chip, chip_index, ref_count, holds, pc, cont, idx, private_data, bound,
                      intfdata, ifn, probe_chip>>
      /\ \A h \in Chip : phase[h] # "released" => phase'[h] = phase[h]
      /\ \A h \in Chip : phase'[h] = "live" => phase[h] = "live"
  BY ChipAssumption DEF AlsaClose, AlsaOpen, TypeOK, slotVars, chipVars, usbVars, localVars
<1>2. HeldChipPublished' /\ RefCountCovers'
  BY <1>1 DEF RegistryInv, HeldChipPublished, RefCountCovers, Holders, TypeOK
<1>3. ASSUME NEW t \in Thread PROVE ThreadKeeps(t)'
  BY <1>1 DEF RegistryInv, ThreadKeeps, OpKeeps, FileKeeps, IntfKeeps, FileOpen, Keeps, Where
<1> QED  BY <1>2, <1>3

-----------------------------------------------------------------------------
LEMMA RobbedStays ==
  ASSUME Next, robbed
  PROVE  robbed'
<1>1. ASSUME NEW t, NEW k, NEW s, NEW next, Dec(t, k, s, next) PROVE robbed'
  BY <1>1 DEF Dec
<1>2. ASSUME NEW d \in Device, HubStep(d) PROVE robbed'
  BY <1>1, <1>2 DEF HubStep, ProbeFound, ProbeCreate, ProbePublish, ProbeInc, ProbeStreams, ProbeCard,
     ProbeCardFails, ProbeError, DisconnectInc, DisconnectSignal, DisconnectDec, DisconnectDecProbe,
     Unbind, PowerInc
<1>3. ASSUME NEW c \in Client, ClientStep(c) PROVE robbed'
  BY <1>1, <1>3 DEF ClientStep, OpenLookup, OpenInc, OpenIncAgain, OpenUndo, OpenBody, OpenDec,
     OpenFailDec, OpenFailDecAgain, IoctlInc, RegisterForNetlink, ReleaseInc, ReleaseUnregister,
     ReleaseDec, ReleaseDecOpen, ProcLookup, LongnameInc, ProcInc
<1>4. ASSUME NEW t \in Thread, AnyStep(t) PROVE robbed'
  BY <1>1, <1>4 DEF AnyStep, WorkDone, OpDec, ReleaseTail, SubInc, SubDec, SetChannelInvalid
<1>5. ASSUME NEW a \in AlsaClient, AlsaClose(a) \/ \E ch \in Chip : AlsaOpen(a, ch) PROVE robbed'
  BY <1>5 DEF AlsaClose, AlsaOpen
<1> QED  BY <1>2, <1>3, <1>4, <1>5 DEF Next

LEMMA RegistryInit == Init => RegistryInv
<1> SUFFICES ASSUME Init PROVE RegistryInv
  OBVIOUS
<1>1. HeldChipPublished /\ RefCountCovers
  BY DEF Init, HeldChipPublished, RefCountCovers
<1>2. ASSUME NEW t \in Thread PROVE ThreadKeeps(t)
  BY OwnersAre DEF Init, ThreadKeeps, OpKeeps, FileKeeps, IntfKeeps, FileOpen, Where, OpLabel,
     NoFileLabel, NewFileLabel, CloseLabel, ProbeLabel
<1> QED  BY <1>1, <1>2, TableInit DEF RegistryInv

LEMMA RegistryStep ==
  ASSUME TypeOK, TypeOK', TableOK', RegistryInv, [Next]_vars
  PROVE  RegistryInv'
<1>1. CASE UNCHANGED vars
  BY <1>1 DEF vars, slotVars, chipVars, usbVars, localVars, RegistryInv, HeldChipPublished,
     RefCountCovers, Holders, ThreadKeeps, OpKeeps, FileKeeps, IntfKeeps, FileOpen, Keeps, Where
<1>2. CASE robbed'
  BY <1>2 DEF RegistryInv, HeldChipPublished, RefCountCovers
<1>3. CASE Next /\ ~robbed'
  <2>1. ~robbed
    BY <1>3, RobbedStays
  <2>2. ASSUME NEW t \in Thread, Safe(t) PROVE RegistryInv'
    <3>1. ASSUME NEW u \in Thread PROVE ThreadKeeps(u)'
      BY <2>1, <2>2, OthersKeep DEF Safe, RegistryInv
    <3> QED  BY <2>2, <3>1 DEF Safe, RegistryInv
  <2>3. Device \subseteq Thread /\ Client \subseteq Thread
    BY DEF Thread
  <2>4. ASSUME NEW a \in AlsaClient, AlsaClose(a) \/ \E ch \in Chip : AlsaOpen(a, ch)
        PROVE  RegistryInv'
    BY <2>1, <2>4, AlsaSafe DEF RegistryInv
  <2>5. ASSUME NEW d \in Device, HubStep(d) PROVE RegistryInv'
    BY <1>3, <2>1, <2>2, <2>3, <2>5, HubSafe
  <2>6. ASSUME NEW c \in Client, ClientStep(c) PROVE RegistryInv'
    BY <1>3, <2>1, <2>2, <2>3, <2>6, ClientSafe
  <2>7. ASSUME NEW t \in Thread, AnyStep(t) PROVE RegistryInv'
    BY <1>3, <2>1, <2>2, <2>7, AnySafe
  <2> QED  BY <1>3, <2>4, <2>5, <2>6, <2>7 DEF Next
<1> QED  BY <1>1, <1>2, <1>3

(* The invariant of the registry holds for every number of devices,        *)
(* interfaces, clients, chips and slots, whichever calls leak references.  *)
THEOREM RegistryCorrect == Spec => []RegistryInv
<1>1. TypeOK /\ TypeOK' /\ TableOK' /\ RegistryInv /\ [Next]_vars => RegistryInv'
  BY RegistryStep
<1> QED  BY <1>1, RegistryInit, TypeCorrect, TableCorrect, PTL DEF Spec

(* A chip somebody has a reference on is live and still the one in its     *)
(* slot, so a decrement by index never hits another device's chip.         *)
THEOREM HeldChipCorrect == Spec => []HeldChipPublished
<1>1. RegistryInv => HeldChipPublished
  BY DEF RegistryInv
<1> QED  BY <1>1, RegistryCorrect, PTL

(* The counter of a live chip is never below the number of its owners.     *)
THEOREM RefCountCorrect == Spec => []RefCountCovers
<1>1. RegistryInv => RefCountCovers
  BY DEF RegistryInv
<1> QED  BY <1>1, RegistryCorrect, PTL

(* Inside ioctl, read, open, release, disconnect, the power callbacks and  *)
(* the rest of a probe, the chip the code works on has not been released.  *)
THEOREM ChipInUseCorrect == Spec => []ChipInUseIsLive
<1>1. TypeOK /\ RegistryInv => ChipInUseIsLive
  <2> SUFFICES ASSUME TypeOK, RegistryInv, ~robbed
               PROVE  ChipInUseIsLive
    BY DEF ChipInUseIsLive
  <2>1. ASSUME NEW t \in Thread, pc[t] \in WorkLabel
        PROVE  holds[OpRef(t)] # NoChip /\ phase[holds[OpRef(t)]] = "live"
    <3>1. Keeps(OpRef(t), idx[t])
      BY <2>1 DEF RegistryInv, ThreadKeeps, OpKeeps, Where, WorkLabel, OpLabel
    <3> QED  BY <3>1, OwnersAre DEF RegistryInv, HeldChipPublished, Keeps
  <2>2. ASSUME NEW d \in Device, pc[d] \in ProbeLabel
        PROVE  probe_chip[d] # NoChip /\ phase[probe_chip[d]] = "live"
    <3>1. IntfKeeps(d) /\ Where(d) = pc[d]
      BY <2>2 DEF RegistryInv, ThreadKeeps, Thread, Where, ProbeLabel
    <3>2. IntfRef(<<d, ifn[d]>>) \in RefOwner
      BY OwnersAre DEF TypeOK, Intf
    <3> QED  BY <2>2, <3>1, <3>2 DEF IntfKeeps, RegistryInv, HeldChipPublished
  <2> QED  BY <2>1, <2>2 DEF ChipInUseIsLive
<1> QED  BY <1>1, RegistryCorrect, TypeCorrect, PTL

-----------------------------------------------------------------------------
(* Part 3.  The references balance.                                        *)
(* RegistryInv says that whoever will decrement owns a reference; what is  *)
(* added here is that nobody else does, that a registration belongs to an  *)
(* open file, and that a chip in the table has an owner or is about to get *)
(* its first one.                                                          *)

(* The two calls that lose a reference: proc_longname_read increments      *)
(* twice, and the MIDI channel ioctls return early without a decrement.    *)
NoLeak == Ops \cap {"long_name", "set_channel"} = {}

(* A thread owns references only where its code will give them back.       *)
OpTidy(t) ==
  /\ Where(t) \notin OpLabel => holds[OpRef(t)] = NoChip
  /\ Where(t) # "sub" => holds[SubRef(t)] = NoChip
  /\ Where(t) = "long_inc" => "long_name" \in Ops

IntfTidy(d) ==
  /\ \A n \in IfNum : holds[IntfRef(<<d, n>>)] # NoChip =>
       <<d, n>> \in bound \/ (ifn[d] = n /\ Where(d) \in ProbeLabel)
  /\ Where(d) = "unbind" => holds[IntfRef(<<d, ifn[d]>>)] = NoChip

(* An ioctl works on the chip its file was opened on.                      *)
IoctlTidy(c) ==
  Where(c) = "ioctl" \/ (Where(c) = "sub" /\ cont[c] = "ioctl") =>
    FileOpen(c) /\ idx[c] = private_data[c]

Tidy(t) == /\ OpTidy(t)
           /\ t \in Device => IntfTidy(t)
           /\ t \in Client => IoctlTidy(t)

(* No file is registered through while it is being opened, or once release *)
(* has unregistered it; a registration on a live chip is of an open file.  *)
Unregistered == NewFileLabel \cup {"rel_dec", "rel_dec_open"}
Filed(c) ==
  \A ch \in Chip : phase[ch] = "live" /\ c \in netlink_registered[ch] =>
    holds[FileRef(c)] = ch /\ Where(c) \notin Unregistered

(* Only the thread in the last decrement has a chip to tear down, and the  *)
(* memory of a chip that is gone carries no registrations.                 *)
Clean ==
  /\ register_mutex = NoOwner => dying = NoChip
  /\ \A ch \in Chip : phase[ch] # "live" /\ dying # ch => netlink_registered[ch] = {}

Balanced == \A ch \in Chip :
  phase[ch] = "live" => ref_count[ch] = Cardinality(Holders(ch))

(* A chip in the table has an owner, or hdj_probe has just published it.   *)
Counted == \A s \in Slot : usb_chip[s] # NoChip =>
  \/ ref_count[usb_chip[s]] > 0
  \/ \E d \in Device : pc[d] = "probe_inc" /\ probe_chip[d] = usb_chip[s]

TidyInv ==
  robbed \/ /\ Clean
            /\ \A t \in Thread : Tidy(t)
            /\ \A c \in Client : Filed(c)

BalanceInv == robbed \/ (Balanced /\ Counted)

-----------------------------------------------------------------------------
(* A step of thread t leaves the others tidy.                              *)
LEMMA OthersTidy ==
  ASSUME TypeOK, NEW t \in Thread, StepOf(t), NEW u \in Thread, u # t, Tidy(u)
  PROVE  Tidy(u)'
<1>1. Where(u)' = Where(u) /\ cont'[u] = cont[u] /\ idx'[u] = idx[u]
  BY DEF StepOf, Where
<1>2. \A k \in RefOwner \ Mine(t) : holds'[k] = holds[k]
  BY DEF StepOf
<1>3. OpTidy(u)'
  BY <1>1, <1>2, NotMine DEF Tidy, OpTidy
<1>4. ASSUME u \in Device PROVE IntfTidy(u)'
  <2>1. /\ ifn'[u] = ifn[u] /\ ifn[u] \in IfNum
        /\ \A n \in IfNum : <<u, n>> \in bound' <=> <<u, n>> \in bound
    BY <1>4 DEF StepOf, TypeOK
  <2>2. \A n \in IfNum : IntfRef(<<u, n>>) \in RefOwner \ Mine(t)
    BY <1>4, NotMine
  <2> QED  BY <1>1, <1>2, <1>4, <2>1, <2>2 DEF Tidy, IntfTidy
<1>5. ASSUME u \in Client PROVE IoctlTidy(u)'
  <2>1. private_data'[u] = private_data[u] /\ FileRef(u) \in RefOwner \ Mine(t)
    BY <1>5, NotMine DEF StepOf
  <2> QED  BY <1>1, <1>2, <1>5, <2>1 DEF Tidy, IoctlTidy, FileOpen
<1> QED  BY <1>3, <1>4, <1>5 DEF Tidy

-----------------------------------------------------------------------------
(* But for the two calls that lose a reference, every step does one of     *)
(* four things to the references: it leaves them alone (and destroys at    *)
(* most a released chip), takes one for an owner that had none, gives one  *)
(* back, or makes a chip nobody has a reference on.                        *)
Destroys == \E ch \in Chip : phase[ch] = "released" /\ phase' = [phase EXCEPT ![ch] = "free"]

Steady(t) ==
  /\ UNCHANGED <<usb_chip, ref_count, holds>>
  /\ phase' = phase \/ Destroys
  /\ pc[t] # "probe_inc"

Gained(t) == \E k \in RefOwner, s \in Slot :
  /\ holds[k] = NoChip
  /\ IncFound(t, k, s, pc'[t])
  /\ UNCHANGED <<usb_chip, phase>>
  /\ pc[t] = "probe_inc" => probe_chip[t] = usb_chip[s]

Lost(t) == \E k \in RefOwner, s \in Slot, next \in Label \ {"releasing"} :
  /\ Keeps(k, s)
  /\ Dec(t, k, s, next)
  /\ pc[t] # "probe_inc"

Fresh(t) == t \in Device /\ \E n \in IfNum, ch \in Chip : ProbeCreate(t, n, ch)

OneOfFour(t) == Steady(t) \/ Gained(t) \/ Lost(t) \/ Fresh(t)

(* An increment for an owner that has no reference takes one, or finds     *)
(* nothing and leaves everything alone.                                    *)
LEMMA IncKind ==
  ASSUME TypeOK, NEW t \in Thread, NEW k \in RefOwner, NEW s \in Slot, NEW found, NEW null,
         Inc(t, k, s, found, null), holds[k] = NoChip, UNCHANGED <<usb_chip, phase>>,
         pc[t] \notin {"probe_inc", "releasing"}, found # "releasing", null # "releasing"
  PROVE  /\ OneOfFour(t)
         /\ \A j \in RefOwner : j # k => holds'[j] = holds[j]
         /\ Where(t) = pc[t] /\ Where(t)' = pc'[t]
         /\ pc'[t] = found \/ (pc'[t] = null /\ holds' = holds)
<1>1. CASE IncFound(t, k, s, found)
  <2>1. pc'[t] = found /\ \A j \in RefOwner : j # k => holds'[j] = holds[j]
    BY <1>1 DEF IncFound, Goto, TypeOK
  <2>2. Gained(t)
    BY <1>1, <2>1 DEF Gained
  <2> QED  BY <2>1, <2>2 DEF OneOfFour, Where
<1>2. CASE IncNull(t, s, null)
  <2>1. pc'[t] = null /\ UNCHANGED <<ref_count, holds>>
    BY <1>2 DEF IncNull, Goto, TypeOK
  <2>2. Steady(t)
    BY <2>1 DEF Steady
  <2> QED  BY <2>1, <2>2 DEF OneOfFour, Where
<1> QED  BY <1>1, <1>2 DEF Inc

(* A decrement for an owner that has a reference gives that one back.      *)
LEMMA DecKind ==
  ASSUME TypeOK, TypeOK', RegistryInv, ~robbed, NEW t \in Thread, NEW k \in RefOwner,
         NEW next \in Label \ {"releasing"}, k \in Mine(t),
         Keeps(k, idx[t]), Dec(t, k, idx[t], next), pc[t] # "probe_inc"
  PROVE  /\ OneOfFour(t)
         /\ \A j \in RefOwner : j # k => holds'[j] = holds[j]
         /\ holds'[k] = NoChip /\ Where(t)' = next
         /\ UNCHANGED <<idx, private_data, bound, ifn>>
<1>1. next # "releasing" /\ TableOK /\ HeldChipPublished /\ RefCountCovers
  BY DEF RegistryInv
<1>2. /\ \A j \in RefOwner : j # k => holds'[j] = holds[j]
      /\ holds'[k] = NoChip /\ Where(t)' = next
      /\ UNCHANGED <<idx, private_data, bound, ifn>>
  BY <1>1, DecSafe
<1>3. idx[t] \in Slot
  BY DEF TypeOK
<1>4. Lost(t)
  BY <1>3 DEF Lost
<1> QED  BY <1>2, <1>4 DEF OneOfFour

-----------------------------------------------------------------------------
(* Probes, disconnects and the power callbacks.                            *)
LEMMA HubBalanced ==
  ASSUME TypeOK, TypeOK', RegistryInv, ~robbed, ~robbed', NEW d \in Device, Tidy(d), HubStep(d)
  PROVE  OneOfFour(d) /\ Tidy(d)'
<1>1. /\ d \in Thread /\ d \notin Client /\ idx[d] \in Slot /\ ifn[d] \in IfNum
      /\ OpRef(d) \in RefOwner /\ OpRef(d) \in Mine(d)
      /\ SubRef(d) \in RefOwner /\ SubRef(d) # OpRef(d)
  BY ThreadAssumption, OwnersAre, OwnersDiffer DEF TypeOK, Thread, Mine
<1>2. \A n \in IfNum :
        /\ <<d, n>> \in Intf /\ intfdata[<<d, n>>] \in Slot
        /\ IntfRef(<<d, n>>) \in RefOwner /\ IntfRef(<<d, n>>) \in Mine(d)
        /\ OpRef(d) # IntfRef(<<d, n>>) /\ SubRef(d) # IntfRef(<<d, n>>)
        /\ \A m \in IfNum : IntfRef(<<d, n>>) = IntfRef(<<d, m>>) => n = m
  BY OwnersAre, <1>1 DEF TypeOK, Intf, Mine, OpRef, SubRef, IntfRef
<1>3. /\ TableOK /\ HeldChipPublished /\ RefCountCovers
      /\ OpKeeps(d) /\ IntfKeeps(d) /\ OpTidy(d) /\ IntfTidy(d)
  BY <1>1 DEF RegistryInv, ThreadKeeps, Tidy
<1>4. OpTidy(d)' /\ IntfTidy(d)' => Tidy(d)'
  BY <1>1 DEF Tidy
<1>5. {"idle", "unbind", "disc_dec_probe"} \subseteq Label \ {"releasing"}
  BY DEF Label, HubLabel
<1>a. ASSUME NEW n \in IfNum, ProbeFound(d, n) PROVE OneOfFour(d) /\ Tidy(d)'
  <2>1. /\ FirstOf(SlotsOf(d)) \in Slot
        /\ chip_index[usb_chip[FirstOf(SlotsOf(d))]] = FirstOf(SlotsOf(d))
    <3>1. FirstOf(SlotsOf(d)) \in SlotsOf(d)
      BY <1>a, FirstIsMember DEF ProbeFound
    <3> QED  BY <3>1, <1>3 DEF SlotsOf, TableOK
  <2>2. /\ usb_chip' = usb_chip
        /\ UNCHANGED <<phase, ref_count, holds, bound>> /\ ifn' = [ifn EXCEPT ![d] = n]
        /\ pc' = [pc EXCEPT ![d] = "probe_inc"] /\ pc[d] = "idle"
    BY <1>a, <2>1 DEF ProbeFound, ProbePublish, Goto, TypeOK
  <2>3. Where(d) = "idle" /\ Where(d)' = "probe_inc"
    BY <2>2, <1>1 DEF Where, TypeOK
  <2>4. Steady(d)
    BY <2>2 DEF Steady
  <2>5. OpTidy(d)'
    BY <2>2, <2>3, <1>3 DEF OpTidy, OpLabel
  <2>6. IntfTidy(d)'
    BY <2>2, <2>3, <1>3 DEF IntfTidy, ProbeLabel
  <2> QED  BY <2>4, <2>5, <2>6, <1>4 DEF OneOfFour
<1>b. ASSUME NEW n \in IfNum, NEW ch \in Chip, ProbeCreate(d, n, ch)
      PROVE  OneOfFour(d) /\ Tidy(d)'
  <2>1. /\ UNCHANGED <<holds, bound>> /\ ifn' = [ifn EXCEPT ![d] = n]
        /\ pc' = [pc EXCEPT ![d] = "probe_inc"] /\ pc[d] = "idle"
    BY <1>b DEF ProbeCreate, ProbePublish, Goto
  <2>2. Where(d) = "idle" /\ Where(d)' = "probe_inc"
    BY <2>1, <1>1 DEF Where, TypeOK
  <2>3. OpTidy(d)'
    BY <2>1, <2>2, <1>3 DEF OpTidy, OpLabel
  <2>4. IntfTidy(d)'
    BY <2>1, <2>2, <1>3 DEF IntfTidy, ProbeLabel
  <2> QED  BY <1>b, <2>3, <2>4, <1>4 DEF OneOfFour, Fresh
<1>c. ASSUME NEW n \in IfNum, DisconnectInc(d, n) PROVE OneOfFour(d) /\ Tidy(d)'
  <2>1. Where(d) = "idle" /\ pc[d] = "idle" /\ <<d, n>> \in bound
    BY <1>c DEF DisconnectInc, Where
  <2>2. PICK s \in Slot : s = intfdata[<<d, n>>]
    BY <1>2
  <2>3. Acquirable(s)
    BY <2>1, <2>2, <1>2, <1>3, KeepsAcquirable DEF IntfKeeps
  <2>4. /\ UNCHANGED <<usb_chip, phase, bound>> /\ ifn' = [ifn EXCEPT ![d] = n]
        /\ Inc(d, OpRef(d), s, "disc_signal", "disc_signal")
    BY <1>c, <2>2, <2>3 DEF DisconnectInc, IncNullForget, Inc, slotVars
  <2>5. holds[OpRef(d)] = NoChip
    BY <2>1, <1>3 DEF OpTidy, OpLabel
  <2>6. /\ OneOfFour(d)
        /\ \A j \in RefOwner : j # OpRef(d) => holds'[j] = holds[j]
        /\ Where(d)' = "disc_signal"
    BY <2>1, <2>4, <2>5, <1>1, IncKind
  <2>7. OpTidy(d)'
    BY <2>1, <2>6, <1>1, <1>3 DEF OpTidy, OpLabel
  <2>8. IntfTidy(d)'
    BY <2>1, <2>4, <2>6, <1>2, <1>3 DEF IntfTidy, ProbeLabel
  <2> QED  BY <2>6, <2>7, <2>8, <1>4
<1>d. ASSUME NEW n \in IfNum, PowerInc(d, n) PROVE OneOfFour(d) /\ Tidy(d)'
  <2>1. PICK s \in Slot : s = intfdata[<<d, n>>]
    BY <1>2
  <2>2. /\ UNCHANGED <<usb_chip, phase, bound, ifn>> /\ pc[d] = "idle"
        /\ Inc(d, OpRef(d), s, "use", "idle")
    BY <1>d, <2>1 DEF PowerInc, slotVars, usbVars
  <2>3. Where(d) = "idle" /\ holds[OpRef(d)] = NoChip
    BY <2>2, <1>3 DEF OpTidy, OpLabel, Where
  <2>4. /\ OneOfFour(d)
        /\ \A j \in RefOwner : j # OpRef(d) => holds'[j] = holds[j]
        /\ Where(d)' = "use" \/ (Where(d)' = "idle" /\ holds' = holds)
    BY <2>2, <2>3, <1>1, IncKind
  <2>5. OpTidy(d)'
    BY <2>3, <2>4, <1>1, <1>3 DEF OpTidy, OpLabel
  <2>6. IntfTidy(d)'
    BY <2>2, <2>3, <2>4, <1>2, <1>3 DEF IntfTidy, ProbeLabel
  <2> QED  BY <2>4, <2>5, <2>6, <1>4
<1>e. CASE ProbeInc(d)
  <2>1. PICK s \in Slot, k \in RefOwner : s = idx[d] /\ k = IntfRef(<<d, ifn[d]>>)
    BY <1>1, <1>2
  <2>2. /\ UNCHANGED <<usb_chip, phase, bound, ifn, cont>> /\ pc[d] = "probe_inc"
        /\ Inc(d, k, s, "probe_streams", "probe_streams")
        /\ usb_chip[s] = probe_chip[d]
    BY <1>e, <2>1 DEF ProbeInc, slotVars, usbVars
  <2>3. /\ probe_chip[d] # NoChip /\ <<d, ifn[d]>> \notin bound /\ Where(d) = "probe_inc"
    BY <2>2, <1>3 DEF IntfKeeps, Where
  <2>4. Acquirable(s) /\ holds[k] = NoChip
    BY <2>1, <2>2, <2>3, <1>1, <1>3 DEF Acquirable, TableOK, IntfTidy, ProbeLabel
  <2>5. /\ IncFound(d, k, s, "probe_streams") /\ pc'[d] = "probe_streams"
        /\ \A j \in RefOwner : j # k => holds'[j] = holds[j]
    BY <2>2, <2>4, <1>1 DEF Inc, IncNull, IncFound, Goto, TypeOK
  <2>6. Gained(d)
    BY <2>2, <2>4, <2>5 DEF Gained
  <2>7. Where(d)' = "probe_streams"
    BY <2>5 DEF Where
  <2>8. OpTidy(d)'
    BY <2>1, <2>3, <2>5, <2>7, <1>1, <1>2, <1>3 DEF OpTidy, OpLabel
  <2>9. IntfTidy(d)'
    BY <2>1, <2>2, <2>3, <2>5, <2>7, <1>1, <1>2, <1>3 DEF IntfTidy, ProbeLabel
  <2> QED  BY <2>6, <2>8, <2>9, <1>4 DEF OneOfFour
<1>f. CASE \/ ProbeStreams(d) \/ ProbeCardFails(d) \/ DisconnectSignal(d)
           \/ ProbeCard(d) \/ Unbind(d)
  <2>1. /\ UNCHANGED <<usb_chip, phase, ref_count, holds, ifn, cont>>
        /\ \/ bound' = bound
              /\ \/ pc[d] = "disc_signal" /\ pc'[d] = "disc_dec"
                 \/ pc[d] \in {"probe_streams", "probe_card"}
                    /\ pc'[d] \in {"probe_card", "probe_error"}
           \/ /\ pc[d] = "probe_card" /\ pc'[d] = "idle"
              /\ bound' = bound \cup {<<d, ifn[d]>>}
           \/ /\ pc[d] = "unbind" /\ pc'[d] = "idle"
              /\ bound' = bound \ {<<d, ifn[d]>>}
    BY <1>f, <1>1
       DEF ProbeStreams, ProbeCardFails, DisconnectSignal, ProbeCard, Unbind,
           slotVars,
                      usbVars, Goto, TypeOK
  <2>2. Where(d) = pc[d] /\ Where(d)' = pc'[d] /\ Steady(d)
    BY <2>1 DEF Where, Steady
  <2>3. OpTidy(d)'
    BY <2>1, <2>2, <1>3 DEF OpTidy, OpLabel
  <2>4. pc[d] = "unbind" => holds[IntfRef(<<d, ifn[d]>>)] = NoChip
    BY <2>2, <1>3 DEF IntfTidy
  <2>5. IntfTidy(d)'
    BY <2>1, <2>2, <2>4, <1>2, <1>3 DEF IntfTidy, ProbeLabel
  <2> QED  BY <2>2, <2>3, <2>5, <1>4 DEF OneOfFour
<1>h. CASE ProbeError(d)
  <2>1. PICK k \in RefOwner : k = IntfRef(<<d, ifn[d]>>)
    BY <1>1, <1>2
  <2>2. pc[d] = "probe_error" /\ Dec(d, k, idx[d], "idle") /\ k \in Mine(d)
    BY <1>h, <2>1, <1>1, <1>2 DEF ProbeError
  <2>3. /\ Keeps(k, idx[d]) /\ <<d, ifn[d]>> \notin bound /\ Where(d) = "probe_error"
    BY <2>1, <2>2, <1>3 DEF IntfKeeps, ProbeLabel, Where
  <2>4. /\ OneOfFour(d)
        /\ \A j \in RefOwner : j # k => holds'[j] = holds[j]
        /\ holds'[k] = NoChip /\ Where(d)' = "idle"
        /\ UNCHANGED <<idx, private_data, bound, ifn>>
    BY <2>2, <2>3, <1>1, <1>5, DecKind
  <2>5. OpTidy(d)'
    BY <2>1, <2>3, <2>4, <1>1, <1>2, <1>3 DEF OpTidy, OpLabel
  <2>6. IntfTidy(d)'
    BY <2>1, <2>3, <2>4, <1>1, <1>2, <1>3 DEF IntfTidy, ProbeLabel
  <2> QED  BY <2>4, <2>5, <2>6, <1>4
<1>i. CASE DisconnectDec(d)
  <2>1. pc[d] = "disc_dec" /\ Dec(d, OpRef(d), idx[d], "disc_dec_probe")
    BY <1>i DEF DisconnectDec
  <2>2. Keeps(OpRef(d), idx[d]) /\ Where(d) = "disc_dec"
    BY <2>1, <1>3 DEF OpKeeps, OpLabel, Where
  <2>3. /\ OneOfFour(d)
        /\ \A j \in RefOwner : j # OpRef(d) => holds'[j] = holds[j]
        /\ holds'[OpRef(d)] = NoChip /\ Where(d)' = "disc_dec_probe"
        /\ UNCHANGED <<idx, private_data, bound, ifn>>
    BY <2>1, <2>2, <1>1, <1>5, DecKind
  <2>4. OpTidy(d)'
    BY <2>2, <2>3, <1>1, <1>3 DEF OpTidy
  <2>5. IntfTidy(d)'
    BY <2>2, <2>3, <1>2, <1>3 DEF IntfTidy, ProbeLabel
  <2> QED  BY <2>3, <2>4, <2>5, <1>4
<1>j. CASE DisconnectDecProbe(d)
  <2>1. PICK k \in RefOwner : k = IntfRef(<<d, ifn[d]>>)
    BY <1>1, <1>2
  <2>2. pc[d] = "disc_dec_probe" /\ Dec(d, k, idx[d], "unbind") /\ k \in Mine(d)
    BY <1>j, <2>1, <1>1, <1>2 DEF DisconnectDecProbe
  <2>3. Keeps(k, idx[d]) /\ Where(d) = "disc_dec_probe"
    BY <2>1, <2>2, <1>3 DEF IntfKeeps, Where
  <2>4. /\ OneOfFour(d)
        /\ \A j \in RefOwner : j # k => holds'[j] = holds[j]
        /\ holds'[k] = NoChip /\ Where(d)' = "unbind"
        /\ UNCHANGED <<idx, private_data, bound, ifn>>
    BY <2>2, <2>3, <1>1, <1>5, DecKind
  <2>5. OpTidy(d)'
    BY <2>1, <2>3, <2>4, <1>1, <1>2, <1>3 DEF OpTidy, OpLabel
  <2>6. IntfTidy(d)'
    BY <2>1, <2>3, <2>4, <1>1, <1>2, <1>3 DEF IntfTidy, ProbeLabel
  <2> QED  BY <2>4, <2>5, <2>6, <1>4
<1> QED  BY <1>a, <1>b, <1>c, <1>d, <1>e, <1>f, <1>h, <1>i, <1>j DEF HubStep

-----------------------------------------------------------------------------
(* The file operations and the /proc readers.  While a file is open and    *)
(* may be registered, a step of its client keeps it so: only the release   *)
(* that unregisters it goes on to where it may not be.                     *)
FileStays(c) ==
  FileOpen(c) /\ Where(c) \notin Unregistered =>
    /\ holds'[FileRef(c)] = holds[FileRef(c)]
    /\ Where(c)' \notin Unregistered \/ ReleaseUnregister(c)

LEMMA ClientBalanced ==
  ASSUME TypeOK, TypeOK', RegistryInv, ~robbed, ~robbed', NEW c \in Client, Tidy(c),
         ClientStep(c)
  PROVE  /\ OneOfFour(c) \/ (LongnameInc(c) /\ ~NoLeak)
         /\ Tidy(c)' /\ FileStays(c)
<1>1. /\ c \in Thread /\ c \notin Device /\ idx[c] \in Slot /\ private_data[c] \in Slot
      /\ OpRef(c) \in RefOwner /\ OpRef(c) \in Mine(c)
      /\ SubRef(c) \in RefOwner /\ SubRef(c) # OpRef(c) /\ SubRef(c) # FileRef(c)
      /\ FileRef(c) \in RefOwner /\ FileRef(c) \in Mine(c) /\ FileRef(c) # OpRef(c)
  BY ThreadAssumption, OwnersAre, OwnersDiffer DEF TypeOK, Thread, Mine
<1>2. /\ TableOK /\ HeldChipPublished /\ RefCountCovers
      /\ OpKeeps(c) /\ FileKeeps(c) /\ OpTidy(c) /\ IoctlTidy(c)
  BY <1>1 DEF RegistryInv, ThreadKeeps, Tidy
<1>3. OpTidy(c)' /\ IoctlTidy(c)' => Tidy(c)'
  BY <1>1 DEF Tidy
<1>4. {"idle", "open_fail_dec_again", "rel_dec_open"} \subseteq Label \ {"releasing"}
  BY DEF Label, OpenLabel, CloseLabel
<1> DEFINE Goal == /\ OneOfFour(c) \/ (LongnameInc(c) /\ ~NoLeak)
                   /\ Tidy(c)' /\ FileStays(c)
<1>a. ASSUME \/ \E f \in Intf : OpenLookup(c, f)
             \/ \E ch \in Chip : ProcLookup(c, ch)
      PROVE  Goal
  <2>1. /\ UNCHANGED <<usb_chip, phase, ref_count, holds, private_data>>
        /\ pc[c] = "idle" /\ pc'[c] \in {"open_inc", "proc_inc", "long_inc"}
        /\ pc'[c] = "open_inc" => ~FileOpen(c)
        /\ pc'[c] = "long_inc" => "long_name" \in Ops
    BY <1>a, <1>1 DEF OpenLookup, ProcLookup, slotVars, Goto, TypeOK
  <2>2. Where(c) = "idle" /\ Where(c)' = pc'[c] /\ Steady(c)
    BY <2>1 DEF Where, Steady
  <2>3. OpTidy(c)' /\ IoctlTidy(c)' /\ FileStays(c)
    BY <2>1, <2>2, <1>2
       DEF OpTidy, IoctlTidy, FileStays, FileOpen, OpLabel, Unregistered,
           NewFileLabel
  <2> QED  BY <2>2, <2>3, <1>3 DEF OneOfFour
<1>b. CASE OpenInc(c)
  <2>1. PICK s \in Slot : s = idx[c]
    BY <1>1
  <2>2. /\ UNCHANGED <<usb_chip, phase, private_data>> /\ pc[c] = "open_inc"
        /\ Inc(c, OpRef(c), s, "open_inc_again", "idle")
        /\ idx' = idx
    BY <1>b, <2>1 DEF OpenInc, slotVars
  <2>3. Where(c) = "open_inc" /\ holds[OpRef(c)] = NoChip
    BY <2>2, <1>2 DEF OpTidy, OpLabel, FileKeeps, FileOpen, NoFileLabel, Where
  <2>4. /\ OneOfFour(c)
        /\ \A j \in RefOwner : j # OpRef(c) => holds'[j] = holds[j]
        /\ Where(c)' = "open_inc_again" \/ (Where(c)' = "idle" /\ holds' = holds)
    BY <2>2, <2>3, <1>1, IncKind
  <2>5. OpTidy(c)' /\ IoctlTidy(c)' /\ FileStays(c)
    BY <2>1, <2>2, <2>3, <2>4, <1>1, <1>2
       DEF OpTidy, IoctlTidy, FileStays, FileOpen, OpLabel, Unregistered,
           NewFileLabel, TypeOK
  <2> QED  BY <2>4, <2>5, <1>3
<1>c. CASE OpenIncAgain(c)
  <2>1. PICK s \in Slot : s = idx[c]
    BY <1>1
  <2>2. /\ UNCHANGED <<usb_chip, phase, private_data>> /\ pc[c] = "open_inc_again"
        /\ Inc(c, FileRef(c), s, "open_body", "open_undo")
        /\ idx' = idx
    BY <1>c, <2>1 DEF OpenIncAgain, slotVars
  <2>3. Where(c) = "open_inc_again" /\ holds[FileRef(c)] = NoChip
    BY <2>2, <1>2 DEF OpTidy, OpLabel, FileKeeps, FileOpen, NoFileLabel, Where
  <2>4. /\ OneOfFour(c)
        /\ \A j \in RefOwner : j # FileRef(c) => holds'[j] = holds[j]
        /\ Where(c)' = "open_body" \/ (Where(c)' = "open_undo" /\ holds' = holds)
    BY <2>2, <2>3, <1>1, IncKind
  <2>5. OpTidy(c)' /\ IoctlTidy(c)' /\ FileStays(c)
    BY <2>1, <2>2, <2>3, <2>4, <1>1, <1>2
       DEF OpTidy, IoctlTidy, FileStays, FileOpen, OpLabel, Unregistered,
           NewFileLabel, TypeOK
  <2> QED  BY <2>4, <2>5, <1>3
<1>d. CASE ProcInc(c)
  <2>1. PICK s \in Slot : s = idx[c]
    BY <1>1
  <2>2. /\ UNCHANGED <<usb_chip, phase, private_data>> /\ pc[c] = "proc_inc"
        /\ Inc(c, OpRef(c), s, "use", "idle")
        /\ idx' = idx
    BY <1>d, <2>1 DEF ProcInc, slotVars
  <2>3. Where(c) = "proc_inc" /\ holds[OpRef(c)] = NoChip
    BY <2>2, <1>2 DEF OpTidy, OpLabel, FileKeeps, FileOpen, NoFileLabel, Where
  <2>4. /\ OneOfFour(c)
        /\ \A j \in RefOwner : j # OpRef(c) => holds'[j] = holds[j]
        /\ Where(c)' = "use" \/ (Where(c)' = "idle" /\ holds' = holds)
    BY <2>2, <2>3, <1>1, IncKind
  <2>5. OpTidy(c)' /\ IoctlTidy(c)' /\ FileStays(c)
    BY <2>1, <2>2, <2>3, <2>4, <1>1, <1>2
       DEF OpTidy, IoctlTidy, FileStays, FileOpen, OpLabel, Unregistered,
           NewFileLabel, TypeOK
  <2> QED  BY <2>4, <2>5, <1>3
<1>e. CASE IoctlInc(c)
  <2>1. PICK s \in Slot : s = private_data[c]
    BY <1>1
  <2>2. /\ UNCHANGED <<usb_chip, phase, private_data>> /\ pc[c] = "idle"
        /\ Inc(c, OpRef(c), s, "ioctl", "idle")
        /\ idx' = [idx EXCEPT ![c] = private_data[c]] /\ FileOpen(c)
    BY <1>e, <2>1 DEF IoctlInc, slotVars
  <2>3. Where(c) = "idle" /\ holds[OpRef(c)] = NoChip
    BY <2>2, <1>2 DEF OpTidy, OpLabel, FileKeeps, FileOpen, NoFileLabel, Where
  <2>4. /\ OneOfFour(c)
        /\ \A j \in RefOwner : j # OpRef(c) => holds'[j] = holds[j]
        /\ Where(c)' = "ioctl" \/ (Where(c)' = "idle" /\ holds' = holds)
    BY <2>2, <2>3, <1>1, IncKind
  <2>5. OpTidy(c)' /\ IoctlTidy(c)' /\ FileStays(c)
    BY <2>1, <2>2, <2>3, <2>4, <1>1, <1>2
       DEF OpTidy, IoctlTidy, FileStays, FileOpen, OpLabel, Unregistered,
           NewFileLabel, TypeOK
  <2> QED  BY <2>4, <2>5, <1>3
<1>f. CASE ReleaseInc(c)
  <2>1. PICK s \in Slot : s = private_data[c]
    BY <1>1
  <2>2. pc[c] = "idle" /\ Where(c) = "idle" /\ FileOpen(c)
    BY <1>f DEF ReleaseInc, Where
  <2>3. Acquirable(s) /\ holds[OpRef(c)] = NoChip
    BY <2>1, <2>2, <1>1, <1>2, KeepsAcquirable
       DEF FileKeeps, NewFileLabel, OpTidy, OpLabel
  <2>4. /\ UNCHANGED <<usb_chip, phase>>
        /\ Inc(c, OpRef(c), s, "rel_unregister", "rel_unregister")
    BY <1>f, <2>1, <2>3 DEF ReleaseInc, IncNullForget, Inc, slotVars
  <2>5. /\ OneOfFour(c)
        /\ \A j \in RefOwner : j # OpRef(c) => holds'[j] = holds[j]
        /\ Where(c)' = "rel_unregister"
    BY <2>2, <2>3, <2>4, <1>1, IncKind
  <2>6. OpTidy(c)' /\ IoctlTidy(c)' /\ FileStays(c)
    BY <2>2, <2>5, <1>1, <1>2
       DEF OpTidy, IoctlTidy, FileStays, FileOpen, OpLabel, Unregistered,
           NewFileLabel
  <2> QED  BY <2>5, <2>6, <1>3
<1>g. CASE OpenUndo(c)
  <2>1. pc[c] = "open_undo" /\ Dec(c, OpRef(c), idx[c], "idle")
    BY <1>g DEF OpenUndo
  <2>2. Where(c) = "open_undo" /\ Keeps(OpRef(c), idx[c])
    BY <2>1, <1>2 DEF OpKeeps, FileKeeps, NewFileLabel, CloseLabel, OpLabel, Where
  <2>3. /\ OneOfFour(c)
        /\ \A j \in RefOwner : j # OpRef(c) => holds'[j] = holds[j]
        /\ holds'[OpRef(c)] = NoChip /\ Where(c)' = "idle"
    BY <2>1, <2>2, <1>1, <1>4, DecKind
  <2>4. OpTidy(c)' /\ IoctlTidy(c)' /\ FileStays(c)
    BY <2>2, <2>3, <1>1, <1>2
       DEF OpTidy, IoctlTidy, FileStays, FileOpen, OpLabel, Unregistered,
           NewFileLabel, FileKeeps, NoFileLabel
  <2> QED  BY <2>3, <2>4, <1>3
<1>h. CASE OpenDec(c)
  <2>1. pc[c] = "open_dec" /\ Dec(c, OpRef(c), idx[c], "idle")
    BY <1>h DEF OpenDec
  <2>2. Where(c) = "open_dec" /\ Keeps(OpRef(c), idx[c])
    BY <2>1, <1>2 DEF OpKeeps, FileKeeps, NewFileLabel, CloseLabel, OpLabel, Where
  <2>3. /\ OneOfFour(c)
        /\ \A j \in RefOwner : j # OpRef(c) => holds'[j] = holds[j]
        /\ holds'[OpRef(c)] = NoChip /\ Where(c)' = "idle"
    BY <2>1, <2>2, <1>1, <1>4, DecKind
  <2>4. OpTidy(c)' /\ IoctlTidy(c)' /\ FileStays(c)
    BY <2>2, <2>3, <1>1, <1>2
       DEF OpTidy, IoctlTidy, FileStays, FileOpen, OpLabel, Unregistered,
           NewFileLabel, FileKeeps, NoFileLabel
  <2> QED  BY <2>3, <2>4, <1>3
<1>i. CASE OpenFailDec(c)
  <2>1. pc[c] = "open_fail_dec" /\ Dec(c, OpRef(c), idx[c], "open_fail_dec_again")
    BY <1>i DEF OpenFailDec
  <2>2. Where(c) = "open_fail_dec" /\ Keeps(OpRef(c), idx[c])
    BY <2>1, <1>2 DEF OpKeeps, FileKeeps, NewFileLabel, CloseLabel, OpLabel, Where
  <2>3. /\ OneOfFour(c)
        /\ \A j \in RefOwner : j # OpRef(c) => holds'[j] = holds[j]
        /\ holds'[OpRef(c)] = NoChip /\ Where(c)' = "open_fail_dec_again"
    BY <2>1, <2>2, <1>1, <1>4, DecKind
  <2>4. OpTidy(c)' /\ IoctlTidy(c)' /\ FileStays(c)
    BY <2>2, <2>3, <1>1, <1>2
       DEF OpTidy, IoctlTidy, FileStays, FileOpen, OpLabel, Unregistered,
           NewFileLabel, FileKeeps, NoFileLabel
  <2> QED  BY <2>3, <2>4, <1>3
<1>j. CASE OpenFailDecAgain(c)
  <2>1. pc[c] = "open_fail_dec_again" /\ Dec(c, FileRef(c), idx[c], "idle")
    BY <1>j DEF OpenFailDecAgain
  <2>2. Where(c) = "open_fail_dec_again" /\ Keeps(FileRef(c), idx[c])
    BY <2>1, <1>2 DEF OpKeeps, FileKeeps, NewFileLabel, CloseLabel, OpLabel, Where
  <2>3. /\ OneOfFour(c)
        /\ \A j \in RefOwner : j # FileRef(c) => holds'[j] = holds[j]
        /\ holds'[FileRef(c)] = NoChip /\ Where(c)' = "idle"
    BY <2>1, <2>2, <1>1, <1>4, DecKind
  <2>4. OpTidy(c)' /\ IoctlTidy(c)' /\ FileStays(c)
    BY <2>2, <2>3, <1>1, <1>2
       DEF OpTidy, IoctlTidy, FileStays, FileOpen, OpLabel, Unregistered,
           NewFileLabel, FileKeeps, NoFileLabel
  <2> QED  BY <2>3, <2>4, <1>3
<1>k. CASE ReleaseDec(c)
  <2>1. pc[c] = "rel_dec" /\ Dec(c, OpRef(c), idx[c], "rel_dec_open")
    BY <1>k DEF ReleaseDec
  <2>2. Where(c) = "rel_dec" /\ Keeps(OpRef(c), idx[c])
    BY <2>1, <1>2 DEF OpKeeps, FileKeeps, NewFileLabel, CloseLabel, OpLabel, Where
  <2>3. /\ OneOfFour(c)
        /\ \A j \in RefOwner : j # OpRef(c) => holds'[j] = holds[j]
        /\ holds'[OpRef(c)] = NoChip /\ Where(c)' = "rel_dec_open"
    BY <2>1, <2>2, <1>1, <1>4, DecKind
  <2>4. OpTidy(c)' /\ IoctlTidy(c)' /\ FileStays(c)
    BY <2>2, <2>3, <1>1, <1>2
       DEF OpTidy, IoctlTidy, FileStays, FileOpen, OpLabel, Unregistered,
           NewFileLabel, FileKeeps, NoFileLabel
  <2> QED  BY <2>3, <2>4, <1>3
<1>l. CASE ReleaseDecOpen(c)
  <2>1. pc[c] = "rel_dec_open" /\ Dec(c, FileRef(c), idx[c], "idle")
    BY <1>l DEF ReleaseDecOpen
  <2>2. Where(c) = "rel_dec_open" /\ Keeps(FileRef(c), idx[c])
    BY <2>1, <1>2 DEF OpKeeps, FileKeeps, NewFileLabel, CloseLabel, OpLabel, Where
  <2>3. /\ OneOfFour(c)
        /\ \A j \in RefOwner : j # FileRef(c) => holds'[j] = holds[j]
        /\ holds'[FileRef(c)] = NoChip /\ Where(c)' = "idle"
    BY <2>1, <2>2, <1>1, <1>4, DecKind
  <2>4. OpTidy(c)' /\ IoctlTidy(c)' /\ FileStays(c)
    BY <2>2, <2>3, <1>1, <1>2
       DEF OpTidy, IoctlTidy, FileStays, FileOpen, OpLabel, Unregistered,
           NewFileLabel, FileKeeps, NoFileLabel
  <2> QED  BY <2>3, <2>4, <1>3
<1>m. CASE OpenBody(c) \/ RegisterForNetlink(c) \/ ReleaseUnregister(c)
  <2>1. /\ UNCHANGED <<usb_chip, phase, ref_count, holds, cont, idx>>
        /\ \/ pc[c] = "open_body" /\ pc'[c] \in {"open_dec", "open_fail_dec"}
           \/ pc[c] = "ioctl" /\ pc'[c] = "dec"
           \/ pc[c] = "rel_unregister" /\ pc'[c] = "rel_dec" /\ ReleaseUnregister(c)
    BY <1>m, <1>1
       DEF OpenBody, RegisterForNetlink, ReleaseUnregister, slotVars, Goto,
           TypeOK
  <2>2. Where(c) = pc[c] /\ Where(c)' = pc'[c] /\ Steady(c)
    BY <2>1 DEF Where, Steady
  <2>3. OpTidy(c)' /\ IoctlTidy(c)' /\ FileStays(c)
    BY <2>1, <2>2, <1>2
       DEF OpTidy, IoctlTidy, FileStays, FileOpen, OpLabel, Unregistered,
           NewFileLabel
  <2> QED  BY <2>2, <2>3, <1>3 DEF OneOfFour
<1>n. CASE LongnameInc(c)
  <2>1. holds' = holds /\ pc[c] = "long_inc" /\ pc'[c] = "proc_inc"
    BY <1>n, <1>1 DEF LongnameInc, Goto, TypeOK
  <2>2. Where(c) = "long_inc" /\ Where(c)' = "proc_inc"
    BY <2>1 DEF Where
  <2>3. ~NoLeak
    BY <2>2, <1>2 DEF OpTidy, NoLeak
  <2>4. OpTidy(c)' /\ IoctlTidy(c)' /\ FileStays(c)
    BY <2>1, <2>2, <1>2
       DEF OpTidy, IoctlTidy, FileStays, FileOpen, OpLabel, Unregistered,
           NewFileLabel
  <2> QED  BY <1>n, <2>3, <2>4, <1>3
<1> QED  BY <1>a, <1>b, <1>c, <1>d, <1>e, <1>f, <1>g, <1>h, <1>i, <1>j, <1>k, <1>l, <1>m, <1>n
         DEF ClientStep

(* The steps that any thread takes.                                        *)
LEMMA AnyBalanced ==
  ASSUME TypeOK, TypeOK', RegistryInv, ~robbed, ~robbed', NEW t \in Thread, Tidy(t), AnyStep(t)
  PROVE  /\ OneOfFour(t) \/ (SetChannelInvalid(t) /\ ~NoLeak)
         /\ Tidy(t)' /\ (t \in Client => FileStays(t))
<1>1. /\ idx[t] \in Slot /\ OpRef(t) \in RefOwner /\ SubRef(t) \in RefOwner
      /\ OpRef(t) # SubRef(t) /\ OpRef(t) \in Mine(t) /\ SubRef(t) \in Mine(t)
  BY OwnersAre, OwnersDiffer DEF TypeOK, Mine
<1>2. TableOK /\ HeldChipPublished /\ RefCountCovers /\ OpKeeps(t) /\ OpTidy(t)
  BY DEF RegistryInv, ThreadKeeps, Tidy
<1> DEFINE Inside == {"use", "ioctl", "dec", "sub"}
<1> DEFINE Inner ==
      /\ Where(t) \in Inside /\ Where(t)' \in Inside \cup {"idle"} /\ OpTidy(t)'
      /\ bound' = bound /\ ifn' = ifn /\ idx' = idx /\ private_data' = private_data
      /\ \A k \in RefOwner : k # OpRef(t) /\ k # SubRef(t) => holds'[k] = holds[k]
      /\ Where(t)' = "ioctl" => \/ Where(t) = "ioctl"
                                \/ Where(t) = "sub" /\ cont[t] = "ioctl"
      /\ Where(t)' = "sub" /\ cont'[t] = "ioctl" => Where(t) = "ioctl"
<1>3. ASSUME Inner
      PROVE  Tidy(t)' /\ (t \in Client => FileStays(t))
  <2>1. ASSUME t \in Client PROVE IoctlTidy(t)' /\ FileStays(t)
    <3>1. FileRef(t) \in RefOwner /\ FileRef(t) # OpRef(t) /\ FileRef(t) # SubRef(t)
      BY <2>1, OwnersAre, OwnersDiffer
    <3> QED  BY <1>3, <2>1, <3>1
             DEF Tidy, IoctlTidy, FileStays, FileOpen, Unregistered, NewFileLabel
  <2>2. ASSUME t \in Device PROVE IntfTidy(t)'
    <3>1. \A n \in IfNum : /\ IntfRef(<<t, n>>) \in RefOwner
                          /\ IntfRef(<<t, n>>) # OpRef(t) /\ IntfRef(<<t, n>>) # SubRef(t)
      BY <2>2, OwnersAre, OwnersDiffer DEF Intf
    <3> QED  BY <1>3, <2>2, <3>1 DEF Tidy, IntfTidy, ProbeLabel
  <2> QED  BY <1>3, <2>1, <2>2 DEF Tidy
<1>a. CASE WorkDone(t)
  <2>1. /\ UNCHANGED <<usb_chip, phase, ref_count, holds, cont, idx, private_data, bound, ifn>>
        /\ pc[t] \in {"ioctl", "use"} /\ pc'[t] = "dec"
    BY <1>a DEF WorkDone, slotVars, usbVars, Goto, TypeOK
  <2>2. Where(t) = pc[t] /\ Where(t)' = "dec" /\ Steady(t)
    BY <2>1 DEF Where, Steady
  <2>3. OpTidy(t)'
    BY <2>1, <2>2, <1>2 DEF OpTidy, OpLabel
  <2> QED  BY <2>1, <2>2, <2>3, <1>3 DEF OneOfFour
<1>b. CASE OpDec(t)
  <2>1. pc[t] = "dec" /\ Dec(t, OpRef(t), idx[t], "idle") /\ "idle" \in Label \ {"releasing"}
    BY <1>b DEF OpDec, Label
  <2>2. Where(t) = "dec" /\ Keeps(OpRef(t), idx[t])
    BY <2>1, <1>2 DEF OpKeeps, OpLabel, Where
  <2>3. /\ OneOfFour(t)
        /\ \A j \in RefOwner : j # OpRef(t) => holds'[j] = holds[j]
        /\ holds'[OpRef(t)] = NoChip /\ Where(t)' = "idle"
        /\ UNCHANGED <<idx, private_data, bound, ifn>>
    BY <2>1, <2>2, <1>1, DecKind
  <2>4. OpTidy(t)'
    BY <2>2, <2>3, <1>1, <1>2 DEF OpTidy
  <2> QED  BY <2>2, <2>3, <2>4, <1>3
<1>c. CASE SubDec(t)
  <2>1. pc[t] = "sub" /\ Dec(t, SubRef(t), idx[t], cont[t])
    BY <1>c DEF SubDec
  <2>2. /\ Where(t) = "sub" /\ Keeps(SubRef(t), idx[t]) /\ cont[t] \in {"use", "ioctl"}
    BY <2>1, <1>2 DEF OpKeeps, Where
  <2>3. PICK next \in Label \ {"releasing"} : next = cont[t]
    BY <2>2 DEF Label
  <2>4. /\ OneOfFour(t)
        /\ \A j \in RefOwner : j # SubRef(t) => holds'[j] = holds[j]
        /\ holds'[SubRef(t)] = NoChip /\ Where(t)' = next
        /\ UNCHANGED <<idx, private_data, bound, ifn>>
    BY <2>1, <2>2, <2>3, <1>1, DecKind
  <2>5. OpTidy(t)'
    BY <2>2, <2>3, <2>4, <1>1, <1>2 DEF OpTidy, OpLabel
  <2> QED  BY <2>2, <2>3, <2>4, <2>5, <1>3
<1>d. CASE SubInc(t)
  <2>1. PICK s \in Slot, null \in {"ioctl", "use"} : s = idx[t] /\ null = pc[t]
    BY <1>d, <1>1 DEF SubInc
  <2>2. /\ UNCHANGED <<usb_chip, phase, idx, private_data, bound, ifn>>
        /\ Inc(t, SubRef(t), s, "sub", null) /\ pc[t] \in {"ioctl", "use"}
        /\ cont'[t] = pc[t]
    BY <1>d, <2>1 DEF SubInc, slotVars, usbVars, TypeOK
  <2>3. Where(t) = pc[t] /\ holds[SubRef(t)] = NoChip
    BY <2>2, <1>2 DEF OpTidy, Where
  <2>4. /\ OneOfFour(t)
        /\ \A j \in RefOwner : j # SubRef(t) => holds'[j] = holds[j]
        /\ Where(t)' = "sub" \/ (Where(t)' = null /\ holds' = holds)
    BY <2>1, <2>2, <2>3, <1>1, IncKind
  <2>5. OpTidy(t)'
    BY <2>1, <2>2, <2>3, <2>4, <1>1, <1>2 DEF OpTidy, OpLabel
  <2>6. cont'[t] = Where(t) /\ Where(t) = null
    BY <2>1, <2>2, <2>3
  <2>7. Inner
    BY <2>1, <2>2, <2>4, <2>5, <2>6
  <2> HIDE DEF Inner
  <2> QED  BY <2>4, <2>7, <1>3
<1>e. CASE SetChannelInvalid(t)
  <2>1. /\ UNCHANGED <<idx, private_data, bound, ifn, cont>>
        /\ holds' = [holds EXCEPT ![SubRef(t)] = NoChip]
        /\ pc[t] = "sub" /\ pc'[t] = cont[t] /\ "set_channel" \in Ops
    BY <1>e DEF SetChannelInvalid, usbVars, Goto, TypeOK
  <2>2. Where(t) = "sub" /\ cont[t] \in {"use", "ioctl"} /\ Where(t)' = cont[t]
    BY <2>1, <1>2 DEF OpKeeps, Where
  <2>3. OpTidy(t)'
    BY <2>1, <2>2, <1>1, <1>2 DEF OpTidy, OpLabel, TypeOK
  <2>4. \A k \in RefOwner : k # SubRef(t) => holds'[k] = holds[k]
    BY <2>1 DEF TypeOK
  <2>5. ~NoLeak
    BY <2>1 DEF NoLeak
  <2> QED  BY <1>e, <2>1, <2>2, <2>3, <2>4, <2>5, <1>3
<1>f. CASE ReleaseTail(t)
  <2>1. /\ UNCHANGED <<usb_chip, ref_count, holds, cont, idx, private_data, bound, ifn>>
        /\ pc[t] = "releasing" /\ pc'[t] = cont[t]
        /\ phase' = phase \/ phase' = [phase EXCEPT ![dying] = "free"]
    BY <1>f DEF ReleaseTail, TypeOK, usbVars, Goto
  <2>2. phase' = phase \/ Destroys
    <3>1. CASE dying \in Chip
      BY <2>1, <3>1, <1>2, ChipAssumption DEF Destroys, TableOK
    <3>2. CASE dying = NoChip
      BY <2>1, <3>2, ChipAssumption DEF TypeOK
    <3> QED  BY <3>1, <3>2 DEF TypeOK
  <2>3. Where(t)' = Where(t) /\ Steady(t)
    BY <2>1, <2>2 DEF Where, Steady
  <2>4. OpTidy(t)'
    BY <2>1, <2>3, <1>2 DEF OpTidy
  <2>5. ASSUME t \in Device PROVE IntfTidy(t)'
    BY <2>1, <2>3, <2>5 DEF Tidy, IntfTidy
  <2>6. ASSUME t \in Client PROVE IoctlTidy(t)' /\ FileStays(t)
    BY <2>1, <2>3, <2>6 DEF Tidy, IoctlTidy, FileStays, FileOpen
  <2> QED  BY <2>3, <2>4, <2>5, <2>6 DEF Tidy, OneOfFour
<1> QED  BY <1>a, <1>b, <1>c, <1>d, <1>e, <1>f DEF AnyStep

-----------------------------------------------------------------------------
(* What the four kinds of steps do to the counters.                        *)
LEMMA BalanceStep ==
  ASSUME TypeOK, TypeOK', RegistryInv, ~robbed, Balanced, Counted,
         NEW t \in Thread, StepOf(t), OneOfFour(t)
  PROVE  Balanced' /\ Counted'
<1>1. /\ TableOK /\ HeldChipPublished /\ RefCountCovers
      /\ \A u \in Thread : u # t => pc'[u] = pc[u]
      /\ \A d \in Device : d # t => pc'[d] = pc[d] /\ probe_chip'[d] = probe_chip[d]
  BY DEF RegistryInv, StepOf, Thread
<1>2. \A ch \in Chip : Cardinality(Holders(ch)) \in Nat /\ IsFiniteSet(Holders(ch))
  BY HoldersFinite
<1>3. \A s, u \in Slot : usb_chip[s] # NoChip /\ usb_chip[s] = usb_chip[u] => s = u
  BY <1>1 DEF TableOK
<1>a. CASE Steady(t)
  <2>1. Balanced'
    BY <1>a DEF Steady, Destroys, Balanced, Holders, TypeOK
  <2>2. Counted'
    BY <1>a, <1>1 DEF Steady, Counted
  <2> QED  BY <2>1, <2>2
<1>b. CASE Gained(t)
  <2>1. PICK k \in RefOwner, s \in Slot :
          /\ holds[k] = NoChip /\ IncFound(t, k, s, pc'[t]) /\ UNCHANGED <<usb_chip, phase>>
          /\ pc[t] = "probe_inc" => probe_chip[t] = usb_chip[s]
    BY <1>b DEF Gained
  <2>2. PICK ch \in Chip : ch = usb_chip[s] /\ phase[ch] = "live" /\ ch # NoChip
    BY <2>1, ChipAssumption DEF IncFound, Acquirable, TypeOK
  <2>3. /\ ref_count' = [ref_count EXCEPT ![ch] = @ + 1]
        /\ holds' = [holds EXCEPT ![k] = ch]
    BY <2>1, <2>2 DEF IncFound
  <2>4. Cardinality(Holders(ch)') = Cardinality(Holders(ch)) + 1
    <3>1. Holders(ch)' = Holders(ch) \cup {k} /\ k \notin Holders(ch)
      BY <2>1, <2>2, <2>3 DEF Holders, TypeOK
    <3> QED  BY <3>1, <1>2, FS_AddElement
  <2>5. \A h \in Chip : h # ch => Holders(h)' = Holders(h) /\ ref_count'[h] = ref_count[h]
    BY <2>1, <2>3, ChipAssumption DEF Holders, TypeOK
  <2>6. ref_count[ch] = Cardinality(Holders(ch)) /\ ref_count'[ch] = ref_count[ch] + 1
    BY <2>2, <2>3 DEF Balanced, TypeOK
  <2>7. Balanced'
    <3> SUFFICES ASSUME NEW h \in Chip, phase'[h] = "live"
                 PROVE  ref_count'[h] = Cardinality(Holders(h)')
      BY DEF Balanced, Holders
    <3>1. phase[h] = "live"
      BY <2>1
    <3> QED  BY <3>1, <2>4, <2>5, <2>6 DEF Balanced
  <2>8. Counted'
    <3> SUFFICES ASSUME NEW u \in Slot, usb_chip[u] # NoChip
                 PROVE  \/ ref_count'[usb_chip[u]] > 0
                        \/ \E d \in Device : pc'[d] = "probe_inc" /\ probe_chip'[d] = usb_chip[u]
      BY <2>1 DEF Counted
    <3>1. CASE usb_chip[u] = ch
      BY <3>1, <2>6, <1>2
    <3>2. CASE usb_chip[u] # ch
      <4>1. usb_chip[u] \in Chip
        BY DEF TypeOK
      <4>2. ref_count'[usb_chip[u]] = ref_count[usb_chip[u]]
        BY <4>1, <3>2, <2>5
      <4>3. CASE \E d \in Device : pc[d] = "probe_inc" /\ probe_chip[d] = usb_chip[u]
        <5>1. PICK d \in Device : pc[d] = "probe_inc" /\ probe_chip[d] = usb_chip[u]
          BY <4>3
        <5>2. d # t
          BY <5>1, <3>2, <2>1, <2>2
        <5> QED  BY <5>1, <5>2, <1>1
      <4> QED  BY <4>2, <4>3 DEF Counted
    <3> QED  BY <3>1, <3>2
  <2> QED  BY <2>7, <2>8
<1>c. CASE Lost(t)
  <2>1. PICK k \in RefOwner, s \in Slot, next \in Label \ {"releasing"} :
          Keeps(k, s) /\ Dec(t, k, s, next) /\ pc[t] # "probe_inc"
    BY <1>c DEF Lost
  <2>2. PICK ch \in Chip : ch = usb_chip[s] /\ holds[k] = ch /\ phase[ch] = "live" /\ ch # NoChip
    BY <2>1, <1>1, ChipAssumption DEF Keeps, HeldChipPublished, TypeOK
  <2>3. holds' = [holds EXCEPT ![k] = NoChip] /\ probe_chip' = probe_chip
    BY <2>1 DEF Dec, usbVars
  <2>4. /\ ref_count' = [ref_count EXCEPT ![ch] = @ - 1]
        /\ \/ usb_chip' = usb_chip /\ phase' = phase /\ ref_count[ch] > 1
           \/ /\ usb_chip' = [usb_chip EXCEPT ![s] = NoChip]
              /\ phase' = [phase EXCEPT ![ch] = "released"]
    BY <2>1, <2>2 DEF Dec, DecNull, DecNotLast, DecLast, slotVars
  <2>5. Cardinality(Holders(ch)') = Cardinality(Holders(ch)) - 1
    BY <2>2, <2>3, HoldersLose
  <2>6. \A h \in Chip : h # ch => Holders(h)' = Holders(h) /\ ref_count'[h] = ref_count[h]
    BY <2>2, <2>3, <2>4, ChipAssumption DEF Holders, TypeOK
  <2>7. ref_count[ch] = Cardinality(Holders(ch)) /\ ref_count'[ch] = ref_count[ch] - 1
    BY <2>2, <2>4 DEF Balanced, TypeOK
  <2>8. Balanced'
    <3> SUFFICES ASSUME NEW h \in Chip, phase'[h] = "live"
                 PROVE  ref_count'[h] = Cardinality(Holders(h)')
      BY DEF Balanced, Holders
    <3>1. phase[h] = "live"
      BY <2>4 DEF TypeOK
    <3> QED  BY <3>1, <2>5, <2>6, <2>7 DEF Balanced
  <2>9. Counted'
    <3> SUFFICES ASSUME NEW u \in Slot, usb_chip'[u] # NoChip
                 PROVE  \/ ref_count'[usb_chip'[u]] > 0
                        \/ \E d \in Device : pc'[d] = "probe_inc" /\ probe_chip'[d] = usb_chip'[u]
      BY DEF Counted
    <3>1. usb_chip'[u] = usb_chip[u] /\ usb_chip[u] \in Chip
      BY <2>4, ChipAssumption DEF TypeOK
    <3>2. CASE u = s
      <4>1. ref_count[ch] > 1 /\ usb_chip[u] = ch /\ ref_count[ch] \in Int
        BY <3>1, <3>2, <2>2, <2>4 DEF TypeOK
      <4> QED  BY <4>1, <3>1, <2>7
    <3>3. CASE u # s
      <4>1. usb_chip[u] # ch
        BY <3>1, <3>3, <2>2, <1>3
      <4>2. ref_count'[usb_chip[u]] = ref_count[usb_chip[u]]
        BY <4>1, <3>1, <2>6
      <4>3. \A d \in Device : pc[d] = "probe_inc" => pc'[d] = "probe_inc"
        BY <2>1, <1>1
      <4>4. \/ ref_count[usb_chip[u]] > 0
            \/ \E d \in Device : pc[d] = "probe_inc" /\ probe_chip[d] = usb_chip[u]
        BY <3>1 DEF Counted
      <4> QED  BY <4>2, <4>3, <4>4, <3>1, <2>3
    <3> QED  BY <3>2, <3>3
  <2> QED  BY <2>8, <2>9
<1>d. CASE Fresh(t)
  <2>1. PICK n \in IfNum, ch \in Chip : t \in Device /\ ProbeCreate(t, n, ch)
    BY <1>d DEF Fresh
  <2> DEFINE s0 == FirstOf(EmptySlots)
  <2>2. s0 \in Slot /\ usb_chip[s0] = NoChip
    <3>1. s0 \in EmptySlots
      BY <2>1, FirstIsMember DEF ProbeCreate
    <3> QED  BY <3>1 DEF EmptySlots
  <2>3. /\ usb_chip' = [usb_chip EXCEPT ![s0] = ch] /\ phase[ch] = "free"
        /\ phase' = [phase EXCEPT ![ch] = "live"]
        /\ ref_count' = [ref_count EXCEPT ![ch] = 0] /\ holds' = holds
        /\ probe_chip' = [probe_chip EXCEPT ![t] = ch]
        /\ pc' = [pc EXCEPT ![t] = "probe_inc"] /\ pc[t] = "idle"
    BY <2>1 DEF ProbeCreate, CreateChip, ProbePublish, Goto
  <2> HIDE DEF s0
  <2>4. \A k \in RefOwner : holds[k] # ch
    BY <2>3, <1>1, ChipAssumption DEF HeldChipPublished, TypeOK
  <2>5. Balanced'
    <3> SUFFICES ASSUME NEW h \in Chip, phase'[h] = "live"
                 PROVE  ref_count'[h] = Cardinality(Holders(h)')
      BY DEF Balanced, Holders
    <3>1. Holders(h)' = Holders(h)
      BY <2>3 DEF Holders
    <3>2. CASE h = ch
      <4>1. Holders(h) = {}
        BY <2>4, <3>2 DEF Holders
      <4>2. ref_count'[h] = 0
        BY <3>2, <2>3 DEF TypeOK
      <4> QED  BY <4>1, <4>2, <3>1, FS_EmptySet
    <3>3. CASE h # ch
      <4>1. phase[h] = "live" /\ ref_count'[h] = ref_count[h]
        BY <3>3, <2>3 DEF TypeOK
      <4> QED  BY <4>1, <3>1 DEF Balanced
    <3> QED  BY <3>2, <3>3
  <2>6. Counted'
    <3> SUFFICES ASSUME NEW u \in Slot, usb_chip'[u] # NoChip
                 PROVE  \/ ref_count'[usb_chip'[u]] > 0
                        \/ \E d \in Device : pc'[d] = "probe_inc" /\ probe_chip'[d] = usb_chip'[u]
      BY DEF Counted
    <3>1. CASE u = s0
      <4>1. usb_chip'[u] = ch /\ pc'[t] = "probe_inc" /\ probe_chip'[t] = ch
        BY <3>1, <2>1, <2>2, <2>3 DEF TypeOK
      <4> QED  BY <4>1, <2>1
    <3>2. CASE u # s0
      <4>1. usb_chip'[u] = usb_chip[u] /\ usb_chip[u] \in Chip
        BY <3>2, <2>3, ChipAssumption DEF TypeOK
      <4>2. usb_chip[u] # ch
        BY <4>1, <2>3, <1>1, ChipAssumption DEF TableOK
      <4>3. ref_count'[usb_chip[u]] = ref_count[usb_chip[u]]
        BY <4>1, <4>2, <2>3 DEF TypeOK
      <4>4. \A d \in Device : pc[d] = "probe_inc" =>
              pc'[d] = "probe_inc" /\ probe_chip'[d] = probe_chip[d]
        BY <2>3, <1>1
      <4>5. \/ ref_count[usb_chip[u]] > 0
            \/ \E d \in Device : pc[d] = "probe_inc" /\ probe_chip[d] = usb_chip[u]
        BY <4>1, ChipAssumption DEF Counted
      <4> QED  BY <4>1, <4>3, <4>4, <4>5
    <3> QED  BY <3>1, <3>2
  <2> QED  BY <2>5, <2>6
<1> QED  BY <1>a, <1>b, <1>c, <1>d DEF OneOfFour

-----------------------------------------------------------------------------
(* The registrations.  What a step does to them and to the chip that is    *)
(* being torn down, whoever takes it.                                      *)
NetVars == <<register_mutex, phase, dying, netlink_registered>>

LEMMA NetSteps ==
  ASSUME TypeOK, Next
  PROVE  \/ UNCHANGED NetVars
         \/ \E c \in Client : RegisterForNetlink(c) \/ ReleaseUnregister(c)
         \/ \E t \in Thread, k \in RefOwner, s \in Slot, next \in Label : Dec(t, k, s, next)
         \/ \E d \in Device, n \in IfNum, ch \in Chip : ProbeCreate(d, n, ch)
         \/ \E t \in Thread : ReleaseTail(t)
         \/ \E a \in AlsaClient : AlsaClose(a)
<1> USE DEF NetVars, slotVars, netVars
<1>1. Device \subseteq Thread /\ Client \subseteq Thread
  BY DEF Thread
<1>2. ASSUME NEW d \in Device, NEW n \in IfNum, ProbeFound(d, n) \/ DisconnectInc(d, n) \/ PowerInc(d, n)
      PROVE  UNCHANGED NetVars
  BY <1>2 DEF ProbeFound, ProbePublish, DisconnectInc, PowerInc
<1>3. ASSUME NEW d \in Device,
             \/ ProbeInc(d) \/ ProbeStreams(d) \/ ProbeCard(d) \/ ProbeCardFails(d)
             \/ DisconnectSignal(d) \/ Unbind(d)
      PROVE  UNCHANGED NetVars
  BY <1>3
     DEF ProbeInc, ProbeStreams, ProbeCard, ProbeCardFails, DisconnectSignal,
         Unbind
<1>4. ASSUME NEW c \in Client,
             \/ \E f \in Intf : OpenLookup(c, f)
             \/ \E ch \in Chip : ProcLookup(c, ch)
             \/ OpenInc(c) \/ OpenIncAgain(c) \/ OpenBody(c) \/ IoctlInc(c) \/ LongnameInc(c)
             \/ ProcInc(c) \/ ReleaseInc(c)
      PROVE  UNCHANGED NetVars
  BY <1>4
     DEF OpenLookup, OpenInc, OpenIncAgain, OpenBody, IoctlInc, LongnameInc,
         ProcInc,
              ReleaseInc, ProcLookup
<1>5. ASSUME NEW t \in Thread, WorkDone(t) \/ SubInc(t) \/ SetChannelInvalid(t)
      PROVE  UNCHANGED NetVars
  BY <1>5 DEF WorkDone, SubInc, SetChannelInvalid
<1>6. ASSUME NEW a \in AlsaClient, NEW ch \in Chip, AlsaOpen(a, ch)
      PROVE  UNCHANGED NetVars
  BY <1>6 DEF AlsaOpen
<1> DEFINE SomeDec == \E t \in Thread, k \in RefOwner, s \in Slot, next \in Label : Dec(t, k, s, next)
<1>7. ASSUME NEW d \in Device, ProbeError(d) \/ DisconnectDec(d) \/ DisconnectDecProbe(d)
      PROVE  SomeDec
  <2>1. d \in Thread /\ idx[d] \in Slot /\ <<d, ifn[d]>> \in Intf
    BY DEF TypeOK, Thread, Intf
  <2>2. {"idle", "disc_dec_probe", "unbind"} \subseteq Label
    BY DEF Label, HubLabel
  <2> QED  BY <1>7, <2>1, <2>2, OwnersAre DEF ProbeError, DisconnectDec, DisconnectDecProbe
<1>8. ASSUME NEW c \in Client,
             \/ OpenUndo(c) \/ OpenDec(c) \/ OpenFailDec(c) \/ OpenFailDecAgain(c)
             \/ ReleaseDec(c) \/ ReleaseDecOpen(c)
      PROVE  SomeDec
  <2>1. c \in Thread /\ idx[c] \in Slot
    BY DEF TypeOK, Thread
  <2>2. {"idle", "open_fail_dec_again", "rel_dec_open"} \subseteq Label
    BY DEF Label, OpenLabel, CloseLabel
  <2> QED  BY <1>8, <2>1, <2>2, OwnersAre
           DEF OpenUndo, OpenDec, OpenFailDec, OpenFailDecAgain, ReleaseDec, ReleaseDecOpen
<1>9. ASSUME NEW t \in Thread, OpDec(t) \/ SubDec(t)
      PROVE  SomeDec
  <2>1. idx[t] \in Slot /\ cont[t] \in Label /\ "idle" \in Label
    BY DEF TypeOK, Label
  <2> QED  BY <1>9, <2>1, OwnersAre DEF OpDec, SubDec
<1> HIDE DEF NetVars, slotVars, netVars, SomeDec
<1>10. ASSUME NEW d \in Device, HubStep(d)
       PROVE  \/ UNCHANGED NetVars \/ SomeDec
              \/ \E n \in IfNum, ch \in Chip : ProbeCreate(d, n, ch)
  BY <1>10, <1>2, <1>3, <1>7 DEF HubStep
<1>11. ASSUME NEW c \in Client, ClientStep(c)
       PROVE  \/ UNCHANGED NetVars \/ SomeDec
              \/ RegisterForNetlink(c) \/ ReleaseUnregister(c)
  BY <1>11, <1>4, <1>8 DEF ClientStep
<1>12. ASSUME NEW t \in Thread, AnyStep(t)
       PROVE  UNCHANGED NetVars \/ SomeDec \/ ReleaseTail(t)
  BY <1>12, <1>5, <1>9 DEF AnyStep
<1>13. \/ UNCHANGED NetVars \/ SomeDec
       \/ \E c \in Client : RegisterForNetlink(c) \/ ReleaseUnregister(c)
       \/ \E d \in Device, n \in IfNum, ch \in Chip : ProbeCreate(d, n, ch)
       \/ \E t \in Thread : ReleaseTail(t)
       \/ \E a \in AlsaClient : AlsaClose(a)
  BY <1>6, <1>10, <1>11, <1>12 DEF Next
<1> QED  BY <1>13 DEF SomeDec

(* A registration on a live chip is an old one of that live chip, or has   *)
(* just been made through an ioctl; memory that becomes a chip has none.   *)
OldOrNew(c, ch) == phase'[ch] = "live" /\ c \in netlink_registered'[ch] =>
  /\ phase[ch] = "live"
  /\ \/ c \in netlink_registered[ch]
     \/ RegisterForNetlink(c) /\ ch = holds[OpRef(c)]

LEMMA NetStep ==
  ASSUME TypeOK, TypeOK', RegistryInv, Clean, ~robbed, Next
  PROVE  /\ Clean'
         /\ \A ch \in Chip, c \in Client : OldOrNew(c, ch)
<1> USE ChipAssumption, OwnerAssumption DEF TypeOK, Clean
<1>1. TableOK /\ HeldChipPublished
  BY DEF RegistryInv
<1>a. ASSUME UNCHANGED NetVars
      PROVE  Clean' /\ phase' = phase /\ netlink_registered' = netlink_registered
  BY <1>a DEF NetVars
<1>b. ASSUME NEW c \in Client, RegisterForNetlink(c) \/ ReleaseUnregister(c)
      PROVE  /\ Clean'
             /\ \A ch \in Chip, e \in Client : OldOrNew(e, ch)
  <2>1. PICK ch \in Chip : ch = holds[OpRef(c)] /\ phase[ch] = "live"
    <3>1. c \in Thread /\ OpRef(c) \in RefOwner /\ pc[c] \in {"ioctl", "rel_unregister"}
      BY <1>b, OwnersAre DEF RegisterForNetlink, ReleaseUnregister, Thread
    <3>2. Keeps(OpRef(c), idx[c])
      BY <3>1 DEF RegistryInv, ThreadKeeps, OpKeeps, OpLabel, Where
    <3> QED  BY <3>1, <3>2, <1>1 DEF Keeps, HeldChipPublished
  <2>2. UNCHANGED <<register_mutex, phase, dying>>
    BY <1>b DEF RegisterForNetlink, ReleaseUnregister, slotVars
  <2>3. CASE RegisterForNetlink(c)
    <3>1. \A h \in Chip : netlink_registered'[h] # netlink_registered[h] =>
            h = ch /\ netlink_registered'[h] = netlink_registered[h] \cup {c}
      BY <2>1, <2>3 DEF RegisterForNetlink
    <3>2. Clean'
      BY <2>1, <2>2, <3>1
    <3>3. ASSUME NEW h \in Chip, NEW e \in Client PROVE OldOrNew(e, h)
      <4>1. CASE e \in netlink_registered[h] \/ e \notin netlink_registered'[h]
        BY <4>1, <2>2 DEF OldOrNew
      <4>2. CASE e \notin netlink_registered[h] /\ e \in netlink_registered'[h]
        <5>1. h = ch /\ e = c
          BY <4>2, <3>1
        <5> QED  BY <5>1, <2>1, <2>3 DEF OldOrNew
      <4> QED  BY <4>1, <4>2
    <3> QED  BY <3>2, <3>3
  <2>4. CASE ReleaseUnregister(c)
    <3>1. \A h \in Chip : netlink_registered'[h] \subseteq netlink_registered[h]
      BY <2>1, <2>4 DEF ReleaseUnregister
    <3> QED  BY <2>2, <3>1 DEF OldOrNew
  <2> QED  BY <1>b, <2>3, <2>4
<1>c. ASSUME NEW t \in Thread, NEW k \in RefOwner, NEW s \in Slot, NEW next \in Label,
             Dec(t, k, s, next)
      PROVE  Clean' /\ netlink_registered' = netlink_registered
             /\ \A ch \in Chip : phase'[ch] = "live" => phase[ch] = "live"
  <2>1. netlink_registered' = netlink_registered /\ register_mutex = NoOwner
    BY <1>c DEF Dec, netVars
  <2>2. CASE DecNull(t, s, next) \/ DecNotLast(t, s, next)
    BY <2>1, <2>2 DEF DecNull, DecNotLast, slotVars
  <2>3. CASE DecLast(t, s, next)
    <3>1. /\ register_mutex' = t /\ dying' = usb_chip[s] /\ usb_chip[s] \in Chip
          /\ phase' = [phase EXCEPT ![usb_chip[s]] = "released"]
      BY <2>3 DEF DecLast
    <3>2. t # NoOwner
      BY DEF Thread
    <3> QED  BY <2>1, <3>1, <3>2
  <2> QED  BY <1>c, <2>2, <2>3, <2>1 DEF Dec
<1>d. ASSUME NEW d \in Device, NEW n \in IfNum, NEW ch \in Chip, ProbeCreate(d, n, ch)
      PROVE  /\ Clean' /\ netlink_registered' = netlink_registered
             /\ netlink_registered[ch] = {}
             /\ \A h \in Chip : h # ch => phase'[h] = phase[h]
  <2>1. /\ UNCHANGED <<register_mutex, dying, netlink_registered>> /\ phase[ch] = "free"
        /\ phase' = [phase EXCEPT ![ch] = "live"]
    BY <1>d DEF ProbeCreate, CreateChip, ProbePublish
  <2>2. dying # ch
    BY <2>1, <1>1 DEF TableOK
  <2> QED  BY <2>1, <2>2
<1>e. ASSUME NEW t \in Thread, ReleaseTail(t)
      PROVE  /\ Clean' /\ \A h \in Chip : netlink_registered'[h] \subseteq netlink_registered[h]
             /\ \A h \in Chip : phase'[h] = "live" => phase[h] = "live"
  <2>1. /\ netlink_registered' = [netlink_registered EXCEPT ![dying] = {}]
        /\ dying' = NoChip /\ register_mutex' = NoOwner
        /\ phase' = phase \/ phase' = [phase EXCEPT ![dying] = "free"]
    BY <1>e DEF ReleaseTail
  <2>2. \A h \in Chip : h # dying => phase'[h] = phase[h]
    BY <2>1
  <2>3. \A h \in Chip : /\ netlink_registered'[h] \subseteq netlink_registered[h]
                        /\ h = dying => netlink_registered'[h] = {}
    BY <2>1
  <2>4. \A h \in Chip : phase'[h] = "live" => phase[h] = "live"
    BY <2>1
  <2> QED  BY <2>1, <2>2, <2>3, <2>4
<1>f. ASSUME NEW a \in AlsaClient, AlsaClose(a)
      PROVE  Clean' /\ netlink_registered' = netlink_registered
             /\ \A h \in Chip : phase'[h] = "live" => phase[h] = "live"
  <2>1. /\ UNCHANGED <<netlink_registered, register_mutex, dying>>
        /\ \A h \in Chip : phase[h] = "live" <=> phase'[h] = "live"
    BY <1>f DEF AlsaClose, netVars
  <2> QED  BY <2>1
<1> HIDE DEF TypeOK, Clean
<1> DEFINE Goal == Clean' /\ \A ch \in Chip, c \in Client : OldOrNew(c, ch)
<1>2. ASSUME UNCHANGED NetVars PROVE Goal
  BY <1>2, <1>a DEF OldOrNew
<1>3. ASSUME NEW t \in Thread, NEW k \in RefOwner, NEW s \in Slot, NEW next \in Label,
             Dec(t, k, s, next)
      PROVE  Goal
  BY <1>3, <1>c DEF OldOrNew
<1>4. ASSUME NEW d \in Device, NEW n \in IfNum, NEW ch \in Chip, ProbeCreate(d, n, ch)
      PROVE  Goal
  BY <1>4, <1>d DEF OldOrNew
<1>5. ASSUME NEW t \in Thread, ReleaseTail(t) PROVE Goal
  BY <1>5, <1>e DEF OldOrNew
<1>6. ASSUME NEW a \in AlsaClient, AlsaClose(a) PROVE Goal
  BY <1>6, <1>f DEF OldOrNew
<1> HIDE DEF Goal
<1>7. Goal
  BY <1>2, <1>3, <1>4, <1>5, <1>6, <1>b, NetSteps DEF Goal
<1> QED  BY <1>7 DEF Goal

-----------------------------------------------------------------------------
(* What the two references of an open file have in common: an operation on *)
(* it and the file are on one chip.                                        *)
LEMMA SameChip ==
  ASSUME TypeOK, RegistryInv, ~robbed, NEW c \in Client, Tidy(c),
         pc[c] \in {"ioctl", "rel_unregister"}
  PROVE  holds[OpRef(c)] = holds[FileRef(c)]
<1>1. /\ c \in Thread /\ OpRef(c) \in RefOwner /\ FileRef(c) \in RefOwner /\ Where(c) = pc[c]
  BY OwnersAre DEF Thread, Where
<1>2. Keeps(OpRef(c), idx[c]) /\ FileKeeps(c)
  BY <1>1 DEF RegistryInv, ThreadKeeps, OpKeeps, OpLabel
<1>3. Keeps(FileRef(c), idx[c])
  <2>1. CASE pc[c] = "rel_unregister"
    BY <2>1, <1>1, <1>2 DEF FileKeeps, CloseLabel
  <2>2. CASE pc[c] = "ioctl"
    BY <2>2, <1>1, <1>2 DEF FileKeeps, NewFileLabel, Tidy, IoctlTidy
  <2> QED  BY <2>1, <2>2
<1> QED  BY <1>1, <1>2, <1>3 DEF RegistryInv, HeldChipPublished, Keeps

(* A step that keeps the open files of all clients, whoever takes it,      *)
(* keeps every registration filed.                                         *)
LEMMA FiledStep ==
  ASSUME TypeOK, TypeOK', RegistryInv, TidyInv, ~robbed, Next, NEW c \in Client, FileStays(c)
  PROVE  Filed(c)'
<1>1. /\ Clean /\ Tidy(c) /\ Filed(c) /\ c \in Thread
  BY DEF TidyInv, Thread
<1> SUFFICES ASSUME NEW ch \in Chip, phase'[ch] = "live", c \in netlink_registered'[ch]
             PROVE  holds'[FileRef(c)] = ch /\ Where(c)' \notin Unregistered
  BY DEF Filed
<1>2. OldOrNew(c, ch)
  BY <1>1, NetStep
<1>3. holds[FileRef(c)] = ch /\ Where(c) \notin Unregistered
  <2>1. CASE c \in netlink_registered[ch]
    BY <2>1, <1>1, <1>2 DEF OldOrNew, Filed
  <2>2. CASE RegisterForNetlink(c) /\ ch = holds[OpRef(c)]
    <3>1. pc[c] = "ioctl"
      BY <2>2 DEF RegisterForNetlink
    <3> QED  BY <2>2, <3>1, <1>1, SameChip DEF Where, Unregistered, NewFileLabel
  <2> QED  BY <2>1, <2>2, <1>2 DEF OldOrNew
<1>4. FileOpen(c)
  BY <1>3, ChipAssumption DEF FileOpen
<1>5. ~ReleaseUnregister(c)
  <2> SUFFICES ASSUME ReleaseUnregister(c) PROVE FALSE
    OBVIOUS
  <2>1. holds[OpRef(c)] = ch
    BY <1>1, <1>3, SameChip DEF ReleaseUnregister
  <2> QED  BY <2>1 DEF ReleaseUnregister, TypeOK
<1> QED  BY <1>3, <1>4, <1>5 DEF FileStays

(* A step of thread t, seen from all of them.                              *)
LEMMA ThreadTidy ==
  ASSUME TypeOK, TypeOK', RegistryInv, TidyInv, ~robbed, Next,
         NEW t \in Thread, StepOf(t), Tidy(t)', t \in Client => FileStays(t)
  PROVE  TidyInv'
<1>1. /\ Clean /\ \A u \in Thread : Tidy(u)
  BY DEF TidyInv
<1>2. Clean'
  BY <1>1, NetStep
<1>3. ASSUME NEW u \in Thread PROVE Tidy(u)'
  BY <1>1, OthersTidy
<1>4. ASSUME NEW c \in Client PROVE Filed(c)'
  <2>1. CASE c = t
    BY <2>1, FiledStep
  <2>2. CASE c # t
    <3>1. c \in Thread
      BY DEF Thread
    <3>2. holds'[FileRef(c)] = holds[FileRef(c)]
      BY <2>2, <3>1, NotMine DEF StepOf
    <3>3. Where(c)' = Where(c)
      BY <2>2, <3>1 DEF StepOf, Where
    <3>4. FileStays(c)
      BY <3>2, <3>3 DEF FileStays
    <3> QED  BY <3>4, FiledStep
  <2> QED  BY <2>1, <2>2
<1> QED  BY <1>2, <1>3, <1>4 DEF TidyInv

LEMMA AlsaTidy ==
  ASSUME TypeOK, TypeOK', RegistryInv, TidyInv, ~robbed, Next, NEW a \in AlsaClient,
         AlsaClose(a) \/ \E ch \in Chip : AlsaOpen(a, ch)
  PROVE  TidyInv' /\ (Balanced /\ Counted => Balanced' /\ Counted')
<1>1. /\ UNCHANGED <<usb_chip, ref_count, holds, pc, cont, idx, private_data, bound, ifn, probe_chip>>
      /\ \A h \in Chip : phase'[h] = "live" => phase[h] = "live"
  BY ChipAssumption DEF AlsaClose, AlsaOpen, TypeOK, slotVars, usbVars, localVars
<1>2. Clean /\ \A u \in Thread : Tidy(u)
  BY DEF TidyInv
<1>3. Clean'
  BY <1>2, NetStep
<1>4. ASSUME NEW u \in Thread PROVE Tidy(u)'
  <2>1. Where(u)' = Where(u)
    BY <1>1 DEF Where
  <2> QED  BY <1>1, <1>2, <2>1 DEF Tidy, OpTidy, IntfTidy, IoctlTidy, FileOpen
<1>5. ASSUME NEW c \in Client PROVE Filed(c)'
  <2>1. FileStays(c)
    BY <1>1 DEF FileStays, Where
  <2> QED  BY <2>1, FiledStep
<1>6. Balanced /\ Counted => Balanced' /\ Counted'
  BY <1>1 DEF Balanced, Counted, Holders
<1> QED  BY <1>3, <1>4, <1>5, <1>6 DEF TidyInv

(* All steps.                                                              *)
LEMMA TidyStep ==
  ASSUME TypeOK, TypeOK', RegistryInv, TidyInv, [Next]_vars
  PROVE  TidyInv' /\ (NoLeak /\ BalanceInv => BalanceInv')
<1>1. CASE UNCHANGED vars
  <2>1. UNCHANGED <<usb_chip, register_mutex, phase, dying, netlink_registered, ref_count, holds,
                    pc, cont, idx, private_data, bound, ifn, probe_chip, robbed>>
    BY <1>1 DEF vars, slotVars, netVars, usbVars, localVars
  <2>2. \A t \in Thread : Where(t)' = Where(t)
    BY <2>1 DEF Where
  <2>3. \A t \in Thread : Tidy(t) => Tidy(t)'
    BY <2>1, <2>2 DEF Tidy, OpTidy, IntfTidy, IoctlTidy, FileOpen
  <2>4. (\A c \in Client : Filed(c) => Filed(c)') /\ (Clean => Clean')
    BY <2>1, <2>2 DEF Filed, Clean, Thread
  <2>5. BalanceInv => BalanceInv'
    BY <2>1 DEF BalanceInv, Balanced, Counted, Holders
  <2> QED  BY <2>1, <2>3, <2>4, <2>5 DEF TidyInv
<1>2. CASE robbed'
  BY <1>2 DEF TidyInv, BalanceInv
<1>3. CASE Next /\ ~robbed'
  <2>1. ~robbed
    BY <1>3, RobbedStays
  <2> DEFINE Goal == TidyInv' /\ (NoLeak /\ BalanceInv => BalanceInv')
  <2>2. ASSUME NEW t \in Thread, Safe(t), Tidy(t)', OneOfFour(t) \/ ~NoLeak,
               t \in Client => FileStays(t)
        PROVE  Goal
    <3>1. StepOf(t)
      BY <2>2 DEF Safe
    <3>2. TidyInv'
      BY <1>3, <2>1, <2>2, <3>1, ThreadTidy
    <3>3. NoLeak /\ BalanceInv => BalanceInv'
      BY <2>1, <2>2, <3>1, BalanceStep DEF BalanceInv
    <3> QED  BY <3>2, <3>3
  <2>3. Device \subseteq Thread /\ Client \subseteq Thread /\ Device \cap Client = {}
    BY ThreadAssumption DEF Thread
  <2>4. \A t \in Thread : Tidy(t)
    BY <2>1 DEF TidyInv
  <2>5. ASSUME NEW d \in Device, HubStep(d) PROVE Goal
    BY <1>3, <2>1, <2>2, <2>3, <2>4, <2>5, HubSafe, HubBalanced
  <2>6. ASSUME NEW c \in Client, ClientStep(c) PROVE Goal
    BY <1>3, <2>1, <2>2, <2>3, <2>4, <2>6, ClientSafe, ClientBalanced
  <2>7. ASSUME NEW t \in Thread, AnyStep(t) PROVE Goal
    BY <1>3, <2>1, <2>2, <2>4, <2>7, AnySafe, AnyBalanced
  <2>8. ASSUME NEW a \in AlsaClient, AlsaClose(a) \/ \E ch \in Chip : AlsaOpen(a, ch)
        PROVE  Goal
    BY <1>3, <2>1, <2>8, AlsaTidy DEF BalanceInv
  <2> QED  BY <1>3, <2>5, <2>6, <2>7, <2>8 DEF Next
<1> QED  BY <1>1, <1>2, <1>3

LEMMA TidyInit == Init => TidyInv /\ BalanceInv
<1> SUFFICES ASSUME Init PROVE TidyInv /\ BalanceInv
  OBVIOUS
<1>1. Clean /\ Counted /\ Balanced
  BY DEF Init, Clean, Counted, Balanced
<1>2. ASSUME NEW t \in Thread PROVE Tidy(t)
  <2>1. /\ Where(t) = "idle" /\ holds[OpRef(t)] = NoChip /\ holds[SubRef(t)] = NoChip
        /\ t \in Device => \A n \in IfNum : holds[IntfRef(<<t, n>>)] = NoChip
    BY OwnersAre DEF Init, Where, Intf
  <2> QED  BY <2>1 DEF Tidy, OpTidy, IntfTidy, IoctlTidy
<1>3. ASSUME NEW c \in Client PROVE Filed(c)
  BY DEF Init, Filed
<1> QED  BY <1>1, <1>2, <1>3 DEF TidyInv, BalanceInv

LEMMA TidyAlways == Spec => []TidyInv
<1>1. TypeOK /\ TypeOK' /\ RegistryInv /\ TidyInv /\ [Next]_vars => TidyInv'
  BY TidyStep
<1>2. Init => TidyInv
  BY TidyInit
<1> QED  BY <1>1, <1>2, RegistryCorrect, TypeCorrect, PTL DEF Spec

(* A netlink registration never outlives the file it was made through,     *)
(* whatever the disconnects and the releases of the other files do.        *)
THEOREM RegistrationCorrect == Spec => []RegistrationHasFile
<1>1. TypeOK /\ TidyInv => RegistrationHasFile
  BY DEF TypeOK, TidyInv, Filed, RegistrationHasFile
<1> QED  BY <1>1, TidyAlways, TypeCorrect, PTL

LEMMA BalanceAlways ==
  ASSUME NoLeak
  PROVE  Spec => []BalanceInv
<1>1. TypeOK /\ TypeOK' /\ RegistryInv /\ TidyInv /\ BalanceInv /\ [Next]_vars => BalanceInv'
  BY TidyStep
<1>2. Init => BalanceInv
  BY TidyInit
<1> QED  BY <1>1, <1>2, TidyAlways, RegistryCorrect, TypeCorrect, PTL DEF Spec

(* Where no call loses a reference, the counter of a live chip is exactly  *)
(* the number of its owners: every increment of hdj_probe, the power       *)
(* callbacks, open, ioctl, release and the /proc readers is followed by    *)
(* its decrement.                                                          *)
THEOREM BalanceCorrect ==
  ASSUME NoLeak
  PROVE  Spec => []RefCountBalanced
<1>1. BalanceInv => RefCountBalanced
  BY DEF BalanceInv, Balanced, RefCountBalanced
<1> QED  BY <1>1, BalanceAlways, PTL

(* When every interface is unbound, every file closed and every call over, *)
(* the chip has left the table: it has no owner, so its counter is 0, and  *)
(* a chip in the table has an owner or a probe that is about to be one.    *)
THEOREM ReleasedCorrect ==
  ASSUME NoLeak
  PROVE  Spec => []DisconnectedChipReleased
<1>1. TypeOK /\ RegistryInv /\ TidyInv /\ BalanceInv => DisconnectedChipReleased
  <2> SUFFICES ASSUME TypeOK, RegistryInv, TidyInv, BalanceInv, ~robbed, bound = {},
                      \A t \in Thread : pc[t] = "idle", \A c \in Client : ~FileOpen(c),
                      NEW s \in Slot, usb_chip[s] # NoChip
               PROVE  FALSE
    BY DEF DisconnectedChipReleased
  <2>1. PICK ch \in Chip : ch = usb_chip[s] /\ phase[ch] = "live"
    BY DEF TypeOK, RegistryInv, TableOK
  <2>2. \A t \in Thread : Where(t) = "idle" /\ Tidy(t)
    BY DEF Where, TidyInv
  <2>3. \A k \in RefOwner : holds[k] = NoChip
    <3>1. \A t \in Thread : holds[OpRef(t)] = NoChip /\ holds[SubRef(t)] = NoChip
      BY <2>2 DEF Tidy, OpTidy, OpLabel
    <3>2. \A d \in Device, n \in IfNum : holds[IntfRef(<<d, n>>)] = NoChip
      BY <2>2 DEF Tidy, IntfTidy, ProbeLabel, Thread
    <3>3. \A c \in Client : holds[FileRef(c)] = NoChip
      BY DEF FileOpen
    <3>4. \A k \in RefOwner : \/ \E t \in Thread : k = OpRef(t) \/ k = SubRef(t)
                              \/ \E c \in Client : k = FileRef(c)
                              \/ \E d \in Device, n \in IfNum : k = IntfRef(<<d, n>>)
      BY DEF RefOwner, OpRef, SubRef, FileRef, IntfRef, Intf
    <3> QED  BY <3>1, <3>2, <3>3, <3>4
  <2>4. ref_count[ch] = 0
    <3>1. Holders(ch) = {}
      BY <2>3, ChipAssumption DEF Holders
    <3> QED  BY <3>1, <2>1, FS_EmptySet DEF BalanceInv, Balanced
  <2>5. \A d \in Device : pc[d] # "probe_inc"
    BY DEF Thread
  <2> QED  BY <2>1, <2>4, <2>5 DEF BalanceInv, Counted
<1> QED  BY <1>1, BalanceAlways, TidyAlways, RegistryCorrect, TypeCorrect, PTL

-----------------------------------------------------------------------------
(* The refinement.  Each of the four kinds of steps is one of              *)
(* ChipLifetime; the calls that lose a reference drop it there, or touch   *)
(* nothing of it.                                                          *)
LEMMA KindImplements ==
  ASSUME TypeOK, RegistryInv, ~robbed, NEW t \in Thread, OneOfFour(t)
  PROVE  Lifetime!Next \/ UNCHANGED <<phase, holds>>
<1>1. TableOK /\ HeldChipPublished /\ RefCountCovers
  BY DEF RegistryInv
<1>a. CASE Steady(t)
  BY <1>a DEF Steady, Destroys, Lifetime!Next, Lifetime!Destroy
<1>b. CASE Gained(t)
  <2>1. PICK k \in RefOwner, s \in Slot :
          holds[k] = NoChip /\ IncFound(t, k, s, pc'[t]) /\ phase' = phase
    BY <1>b DEF Gained
  <2>2. PICK ch \in Chip : ch = usb_chip[s] /\ phase[ch] = "live"
    BY <2>1 DEF IncFound, Acquirable, TypeOK
  <2>3. Lifetime!Take(k, ch)
    BY <2>1, <2>2 DEF IncFound, Lifetime!Take
  <2> QED  BY <2>3 DEF Lifetime!Next
<1>c. CASE Lost(t)
  <2>1. PICK k \in RefOwner, s \in Slot, next \in Label \ {"releasing"} :
          Keeps(k, s) /\ Dec(t, k, s, next)
    BY <1>c DEF Lost
  <2>2. PICK ch \in Chip : ch = usb_chip[s] /\ holds[k] = ch /\ phase[ch] = "live" /\ ch # NoChip
    BY <2>1, <1>1, ChipAssumption DEF Keeps, HeldChipPublished, TypeOK
  <2>3. holds' = [holds EXCEPT ![k] = NoChip]
    BY <2>1 DEF Dec
  <2>4. CASE DecNotLast(t, s, next)
    <3>1. Lifetime!Drop(k)
      BY <2>2, <2>3, <2>4 DEF DecNotLast, slotVars, Lifetime!Drop
    <3> QED  BY <3>1 DEF Lifetime!Next
  <2>5. CASE DecLast(t, s, next)
    <3>1. ref_count[ch] <= 1 /\ phase' = [phase EXCEPT ![ch] = "released"]
      BY <2>2, <2>5 DEF DecLast
    <3>2. /\ Cardinality(Holders(ch)) <= ref_count[ch] /\ ref_count[ch] \in Int
          /\ Cardinality(Holders(ch)) \in Nat /\ IsFiniteSet(Holders(ch))
      BY <2>2, <1>1, HoldersFinite DEF RefCountCovers, TypeOK
    <3>3. Cardinality(Holders(ch)) # 0
      BY <2>2, <3>2, FS_EmptySet DEF Holders
    <3>4. Cardinality(Holders(ch)) = 1
      BY <3>1, <3>2, <3>3
    <3>5. \A j \in RefOwner : holds'[j] # ch
      BY <2>2, <2>3, <3>4, HoldersLose
    <3>6. \A j \in RefOwner \ {k} : holds[j] # holds[k]
      BY <2>2, <2>3, <3>5 DEF TypeOK
    <3>7. Lifetime!DropLast(k)
      BY <2>2, <2>3, <3>1, <3>6 DEF Lifetime!DropLast
    <3> QED  BY <3>7 DEF Lifetime!Next
  <2> QED  BY <2>1, <2>2, <2>4, <2>5 DEF Dec, DecNull
<1>d. CASE Fresh(t)
  <2>1. PICK n \in IfNum, ch \in Chip : ProbeCreate(t, n, ch)
    BY <1>d DEF Fresh
  <2>2. Lifetime!Publish(ch)
    BY <2>1 DEF ProbeCreate, CreateChip, ProbePublish, Lifetime!Publish
  <2> QED  BY <2>2 DEF Lifetime!Next
<1> QED  BY <1>a, <1>b, <1>c, <1>d DEF OneOfFour

LEMMA LifetimeStep ==
  ASSUME TypeOK, TypeOK', RegistryInv, TidyInv, [Next]_vars
  PROVE  robbed' \/ Lifetime!Next \/ UNCHANGED <<phase, holds>>
<1>1. CASE UNCHANGED vars
  BY <1>1 DEF vars, slotVars
<1>2. CASE Next /\ ~robbed'
  <2>1. /\ ~robbed /\ \A t \in Thread : Tidy(t)
        /\ Device \subseteq Thread /\ Client \subseteq Thread
    BY <1>2, RobbedStays DEF TidyInv, Thread
  <2> DEFINE Goal == Lifetime!Next \/ UNCHANGED <<phase, holds>>
  <2>2. ASSUME NEW d \in Device, HubStep(d) PROVE Goal
    BY <1>2, <2>1, <2>2, HubBalanced, KindImplements
  <2>3. ASSUME NEW c \in Client, ClientStep(c) PROVE Goal
    <3>1. OneOfFour(c) \/ LongnameInc(c)
      BY <1>2, <2>1, <2>3, ClientBalanced
    <3>2. CASE LongnameInc(c)
      BY <3>2 DEF LongnameInc, slotVars
    <3> QED  BY <2>1, <3>1, <3>2, KindImplements
  <2>4. ASSUME NEW t \in Thread, AnyStep(t) PROVE Goal
    <3>1. OneOfFour(t) \/ SetChannelInvalid(t)
      BY <1>2, <2>1, <2>4, AnyBalanced
    <3>2. CASE SetChannelInvalid(t)
      <4>1. OpKeeps(t) /\ Where(t) = "sub" /\ SubRef(t) \in RefOwner
        BY <2>1, <3>2, OwnersAre
           DEF RegistryInv, ThreadKeeps, SetChannelInvalid, Where
      <4>2. Lifetime!Drop(SubRef(t))
        BY <4>1, <3>2 DEF OpKeeps, Keeps, SetChannelInvalid, slotVars, Lifetime!Drop
      <4> QED  BY <4>1, <4>2 DEF Lifetime!Next
    <3> QED  BY <2>1, <3>1, <3>2, KindImplements
  <2>5. ASSUME NEW a \in AlsaClient, AlsaClose(a) PROVE Goal
    <3>1. CASE phase' = phase
      BY <2>5, <3>1 DEF AlsaClose
    <3>2. CASE phase' # phase
      <4>1. PICK ch \in Chip : ch = alsa[a]
        BY <2>5 DEF AlsaClose, TypeOK
      <4>2. Lifetime!Destroy(ch)
        BY <2>5, <3>2, <4>1 DEF AlsaClose, Lifetime!Destroy
      <4> QED  BY <4>2 DEF Lifetime!Next
    <3> QED  BY <3>1, <3>2
  <2>6. ASSUME NEW a \in AlsaClient, NEW ch \in Chip, AlsaOpen(a, ch) PROVE Goal
    BY <2>6 DEF AlsaOpen, slotVars
  <2> QED  BY <1>2, <2>2, <2>3, <2>4, <2>5, <2>6 DEF Next
<1> QED  BY <1>1, <1>2

(* The registry implements ChipLifetime: a chip is released by the step    *)
(* that gives back the last reference on it, and destroyed only after      *)
(* that.  A call that loses a reference only keeps the chip for ever.      *)
THEOREM LifetimeCorrect == Spec => ImplementsLifetime
<1>1. TypeOK /\ TypeOK' /\ RegistryInv /\ TidyInv /\ [Next]_vars
        => [robbed' \/ Lifetime!Next]_<<phase, holds>>
  BY LifetimeStep
<1>2. Init => Lifetime!Init
  BY DEF Init, Lifetime!Init
<1> QED  BY <1>1, <1>2, TidyAlways, RegistryCorrect, TypeCorrect, PTL DEF Spec, ImplementsLifetime

=============================================================================
