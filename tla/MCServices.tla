----------------------------- MODULE MCServices -----------------------------
(***************************************************************************)
(* The services around the pulse path, side by side: the map upload, the   *)
(* flow control of the SID stream, the SID task, a SID envelope, the       *)
(* EEPROM, the MIDI parser and the thermistor task.  They share no state,  *)
(* so a behaviour runs one of them; their sum is checked in one run.       *)
(***************************************************************************)
EXTENDS MCNvm, SidFlow, Sid, MCSid, MCEeprom, MidiStream, Thermistor

VARIABLE chosen    \* the service that runs

Services == {"upload", "flow", "sid", "envelope", "eeprom", "midi", "therm"}

allVars == <<chosen, nvmVars, flowVars, sidVars, envVars, promVars, streamVars, thermVars>>

Init ==
    /\ chosen \in Services
    /\ NvmInit /\ FlowInit /\ SidInit /\ EepromInit /\ StreamInit /\ ThermInit
    /\ EnvelopeInit
    /\ chosen # "envelope" => shape = CHOOSE c \in Shapes : TRUE

StillBesides(service) ==
    /\ service # "upload"   => UNCHANGED nvmVars
    /\ service # "flow"     => UNCHANGED flowVars
    /\ service # "sid"      => UNCHANGED sidVars
    /\ service # "envelope" => UNCHANGED envVars
    /\ service # "eeprom"   => UNCHANGED promVars
    /\ service # "midi"     => UNCHANGED streamVars
    /\ service # "therm"    => UNCHANGED thermVars

\* A step of the service that runs, and none of the others.
Step(service, step) ==
    chosen = service /\ step /\ UNCHANGED chosen /\ StillBesides(service)

Next ==
    \/ Step("upload", NvmNext)
    \/ Step("flow", FlowNext)
    \/ Step("sid", SidNext)
    \/ Step("envelope", EnvelopeNext)
    \/ Step("eeprom", EepromNext)
    \/ Step("midi", StreamNext)
    \/ Step("therm", ThermNext)

\* The fairness of each service, as its module has it.
Fairness ==
    /\ WF_allVars(Step("flow", MinRound)) /\ WF_allVars(Step("flow", HostReads))
    /\ WF_allVars(Step("flow", TimePasses)) /\ WF_allVars(Step("flow", SidPlays))
    /\ SF_allVars(Step("flow", MinRound /\ sending'))
    /\ WF_allVars(Step("sid", SidTask)) /\ WF_allVars(Step("sid", EndSwitch))
    /\ WF_allVars(Step("envelope", StepEnvelope))
    /\ WF_allVars(Step("therm", Measure \/ Check)) /\ SF_allVars(Step("therm", TakeConverter))
    /\ WF_allVars(Step("therm", Answer))

Spec == Init /\ [][Next]_allVars /\ Fairness
=============================================================================
