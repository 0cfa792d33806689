------------------------------ MODULE MCEeprom ------------------------------
(***************************************************************************)
(* Eeprom with three firmwares: the second has a parameter more, between   *)
(* the others, the third another size of the first.                        *)
(***************************************************************************)
EXTENDS Eeprom

Parameter(name, size) == [id |-> name, size |-> size]

Releases ==
    {<<Parameter("ct1", 2), Parameter("pw", 1)>>,
     <<Parameter("ct1", 2), Parameter("prf", 1), Parameter("pw", 1)>>,
     <<Parameter("pw", 1), Parameter("ct1", 1), Parameter("prf", 1)>>}
=============================================================================
