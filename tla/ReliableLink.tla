---------------------------- MODULE ReliableLink ----------------------------
(***************************************************************************)
(* What the MIN transport promises to its user (src/common/min/min.h:      *)
(* "sliding window reliable transmission of frames"): the frames one end   *)
(* queues reach the application of the other end once each and in order,   *)
(* and the sender forgets a frame only when the other end has it.          *)
(***************************************************************************)
EXTENDS Integers, Sequences, SequencesExt

CONSTANTS
    Ends,        \* the two ends of the link
    MaxFrames    \* frames an end keeps at most

VARIABLES
    offered,     \* offered[e]: how many frames e has queued; frame n is the n-th
    arrived,     \* arrived[e]: the frames of e the other application got, in order
    freed        \* freed[e]: the frames of e whose place is free again

vars == <<offered, arrived, freed>>

Init ==
    /\ offered = [e \in Ends |-> 0]
    /\ arrived = [e \in Ends |-> <<>>]
    /\ freed = [e \in Ends |-> {}]

Offer(e) ==
    /\ \E n \in 0 .. MaxFrames - 1 : freed[e] = 1 .. (offered[e] - n)
    /\ offered' = [offered EXCEPT ![e] = @ + 1]
    /\ UNCHANGED <<arrived, freed>>

Arrive(e) ==
    /\ Len(arrived[e]) < offered[e]
    /\ arrived' = [arrived EXCEPT ![e] = Append(@, Len(@) + 1)]
    /\ UNCHANGED <<offered, freed>>

Free(e) ==
    /\ \E n \in 1 .. Len(arrived[e]) :
         /\ 1 .. n # freed[e] /\ freed[e] \subseteq 1 .. n
         /\ freed' = [freed EXCEPT ![e] = 1 .. n]
    /\ UNCHANGED <<offered, arrived>>

Next == \E e \in Ends : Offer(e) \/ Arrive(e) \/ Free(e)

Spec == Init /\ [][Next]_vars

\* Everything queued arrives, and its place is free again in the end.
FairSpec == Spec /\ \A e \in Ends : WF_vars(Arrive(e)) /\ WF_vars(Free(e))
=============================================================================
