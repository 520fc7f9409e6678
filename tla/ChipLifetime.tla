---------------------------- MODULE ChipLifetime ----------------------------
(***************************************************************************)
(* What the chip registry promises to the rest of the driver: a chip is    *)
(* live while anybody owns a reference to it, it is released by the owner  *)
(* that gives back the last one, and only a released chip is destroyed.    *)
(* Nothing is said of counters, slots or locks.                            *)
(***************************************************************************)
CONSTANTS Chip, Owner, NoChip

VARIABLES
  stage,  \* [Chip -> {"free", "live", "released"}]
  owns    \* [Owner -> Chip or NoChip]

lvars == <<stage, owns>>

Init ==
  /\ stage = [ch \in Chip |-> "free"]
  /\ owns = [k \in Owner |-> NoChip]

Publish(ch) ==
  /\ stage[ch] = "free"
  /\ stage' = [stage EXCEPT ![ch] = "live"]
  /\ UNCHANGED owns

Take(k, ch) ==
  /\ owns[k] = NoChip /\ stage[ch] = "live"
  /\ owns' = [owns EXCEPT ![k] = ch]
  /\ UNCHANGED stage

Drop(k) ==
  /\ owns[k] # NoChip
  /\ owns' = [owns EXCEPT ![k] = NoChip]
  /\ UNCHANGED stage

(* The last owner's drop releases the chip in the same step.               *)
DropLast(k) ==
  /\ owns[k] # NoChip
  /\ \A j \in Owner \ {k} : owns[j] # owns[k]
  /\ stage' = [stage EXCEPT ![owns[k]] = "released"]
  /\ owns' = [owns EXCEPT ![k] = NoChip]

Destroy(ch) ==
  /\ stage[ch] = "released"
  /\ stage' = [stage EXCEPT ![ch] = "free"]
  /\ UNCHANGED owns

Next ==
  \/ \E ch \in Chip : Publish(ch) \/ Destroy(ch)
  \/ \E k \in Owner : Drop(k) \/ DropLast(k) \/ \E ch \in Chip : Take(k, ch)

Spec == Init /\ [][Next]_lvars
=============================================================================
