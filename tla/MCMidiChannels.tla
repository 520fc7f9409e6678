--------------------------- MODULE MCMidiChannels ---------------------------
(* Finite instances of MidiChannels for TLC.                               *)
EXTENDS MidiChannels, TLC

Symmetry == Permutations(NonVolatile) \cup Permutations(Device \ NonVolatile)
              \cup Permutations(Setter)

(* Two states that differ only in a local nobody reads any more are one.   *)
LiveState ==
  <<channel_list, channel, stored, phase, pc, overlapped,
    [t \in Thread |-> IF pc[t] = "idle" THEN NoDevice ELSE dev[t]],
    [t \in Thread |-> IF pc[t] \in {"clear", "assign"} \/ t \in Device
                        THEN want[t] ELSE Invalid],
    [t \in Thread |-> IF pc[t] = "write" THEN got[t] ELSE Invalid]>>
=============================================================================
