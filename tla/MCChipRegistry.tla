--------------------------- MODULE MCChipRegistry ---------------------------
(* Finite instances of ChipRegistry for TLC.                               *)
EXTENDS ChipRegistry, TLC

Symmetry == Permutations(Chip) \cup Permutations(Client)

(* Two states that differ only in a variable whose value is dead (a local  *)
(* of an operation that is over, a field of freed memory) are one state to *)
(* TLC: no action and no property reads such a value.                      *)
Live(f, S, dead) == [x \in DOMAIN f |-> IF x \in S THEN f[x] ELSE dead]
LiveState ==
  LET chips   == {ch \in Chip : phase[ch] # "free"}
      running == {t \in Thread : pc[t] # "idle"}
      probing == {d \in Device : pc[d] \in {"probe_inc", "probe_error"} \cup ProbeLabel}
      calling == {t \in Thread : pc[t] \in {"sub", "releasing"}}
  IN  <<slotVars, netlink_registered, card_registered, holds, bound, alsa, pc, robbed,
        Live(chip_dev, chips, 0), Live(chip_index, chips, 0),
        Live(ref_count, {ch \in chips : phase[ch] = "live"}, 0),
        Live(netlink_list_mutex, chips, 0),
        Live(intfdata, bound \cup {<<d, ifn[d]>> : d \in probing}, 0),
        Live(private_data, {c \in Client : holds[FileRef(c)] # NoChip}, 0),
        Live(cont, calling, 0), Live(idx, running, 0),
        Live(ifn, running \cap Device, 0), Live(probe_chip, probing, 0)>>

(* Nothing but OneChipPerDevice is claimed after a probe's increment has   *)
(* missed its chip, so the larger instances stop there.                    *)
NotRobbed == ~robbed
=============================================================================
