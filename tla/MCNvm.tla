------------------------------- MODULE MCNvm -------------------------------
EXTENDS Nvm

\* Entries as their first bytes: startNote, endNote, noteFreq.
Low  == [count |-> 0, from |-> 59, to |-> 0]
High == [count |-> 60, from |-> 127, to |-> 2]
Map(lo, hi, entries) == [from |-> lo, to |-> hi, entries |-> entries]
B1 == [count |-> 1, from |-> 1, to |-> 1]

HostUploads ==
    {[blocks |-> <<B1>>, maps |-> <<>>],
     [blocks |-> <<>>, maps |-> <<Map(0, 0, <<Low, High>>), Map(0, 1, <<High>>)>>],
     [blocks |-> <<B1, Low>>, maps |-> <<Map(1, 1, <<Low, High, High>>)>>]}

ASSUME TablesAssumption == TablesWellFormed
=============================================================================
