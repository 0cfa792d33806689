---------------------------- MODULE MCVoiceMixer ----------------------------
(***************************************************************************)
(* VoiceMixer on a small list of voices.                                   *)
(***************************************************************************)
EXTENDS VoiceMixer, TLC

\* Voice 0 has a hypervoice, voice 1 may be noisy and longer than voice 0.
TwoTones == 0 :> {[period |-> 3, noise |-> 0, width |-> 1]}
         @@ 1 :> {[period |-> 2, noise |-> 0, width |-> 2],
                  [period |-> 4, noise |-> 2, width |-> 1]}
TwoHypers == 0 :> {[count |-> 0, phase |-> 0], [count |-> 1, phase |-> 512]}
          @@ 1 :> {}

\* Three voices, so that a merge can be followed by another and by a third.
ThreeTones == 0 :> {[period |-> 2, noise |-> 0, width |-> 1]}
           @@ 1 :> {[period |-> 4, noise |-> 0, width |-> 1]}
           @@ 2 :> {[period |-> 3, noise |-> 0, width |-> 2]}
ThreeHypers == 0 :> {[count |-> 1, phase |-> 512]}
            @@ 1 :> {} @@ 2 :> {}
=============================================================================
