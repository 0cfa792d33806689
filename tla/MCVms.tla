------------------------------- MODULE MCVms -------------------------------
(***************************************************************************)
(* Vms with a chord of a note of the default blocks and one of blocks of   *)
(* the flash that swell up, shake the frequency and fade away; and with a  *)
(* single key.                                                             *)
(***************************************************************************)
EXTENDS Vms, TLC

CONSTANTS low, high

Envelope ==
    [swell   |-> [type |-> "EXP_INV", target |-> "volume", goal |-> Unity, p1 |-> 10,
                  next |-> <<"sustain", "vibrato">>, off |-> "fade",
                  normal |-> TRUE, persistent |-> FALSE],
     vibrato |-> [type |-> "SIN", target |-> "frequency", goal |-> 0, p1 |-> 0,
                  next |-> <<>>, off |-> "none", normal |-> TRUE, persistent |-> FALSE],
     fade    |-> [type |-> "EXP", target |-> "volume", goal |-> 0, p1 |-> 10,
                  next |-> <<>>, off |-> "none", normal |-> FALSE, persistent |-> FALSE]]

Chord == high :> <<"attack", "swell">>

OneKey == low :> <<"attack">>

\* The blocks of the runs are programs that Vms_proofs speaks of.
ASSUME BlocksAssumption == NoOvershoot /\ WellForked /\ EndsSilent
=============================================================================
