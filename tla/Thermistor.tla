----------------------------- MODULE Thermistor -----------------------------
(***************************************************************************)
(* The thermistor task (tsk_thermistor.c): round after round it takes the  *)
(* converter (adc_sem), measures the sensors one after the other and       *)
(* raises a fault for the one that has been too hot for several rounds.    *)
(* The command ntc takes the converter from a terminal to calibrate it.    *)
(***************************************************************************)
EXTENDS Integers

CONSTANTS
    NSensors,        \* 2
    Limited,         \* the sensors that have a limit (temp1_max, temp2_max are not 0)
    Rounds,          \* TEMP_FAULT_COUNTER_MAX
    MaxCalibrations  \* bound on the commands ntc

Sensors == 1 .. NSensors

ASSUME ThermistorAssumption ==
    /\ NSensors \in Nat \ {0} /\ Limited \subseteq Sensors
    /\ Rounds \in Nat \ {0} /\ MaxCalibrations \in Nat

Conditions == {"cool", "hot", "open"}

VARIABLES
    sensor,      \* what each sensor is: below its limit, above it, or not connected
    measured,    \* what this round has found: the sensors above their limit
    countdown,   \* fault1_cnt and fault2_cnt
    tempFault,   \* sysfault.temp1 and temp2
    adc,         \* who holds adc_sem: "free", "task" or "console"
    therm,       \* where the task is: 0 for its delay, the sensor it measures, or beyond
    calibrating, \* CMD_ntc waits for a key
    calibrations

thermVars == <<sensor, measured, countdown, tempFault, adc, therm, calibrating, calibrations>>

ThermInit ==
    /\ sensor = [s \in Sensors |-> "cool"] /\ measured = {}
    /\ countdown = [s \in Sensors |-> Rounds]
    /\ tempFault = [s \in Sensors |-> FALSE]
    /\ adc = "free" /\ therm = 0 /\ calibrating = FALSE
    /\ calibrations = MaxCalibrations

TakeConverter ==
    /\ therm = 0 /\ adc = "free"
    /\ adc' = "task" /\ therm' = 1 /\ measured' = {}
    /\ UNCHANGED <<sensor, countdown, tempFault, calibrating, calibrations>>

\* get_temp_counts; get_temp_128 finds a sensor that is not connected very cold.
Measure ==
    /\ therm \in Sensors
    /\ therm' = therm + 1
    /\ measured' = IF sensor[therm] = "hot" THEN measured \cup {therm} ELSE measured
    /\ UNCHANGED <<sensor, countdown, tempFault, adc, calibrating, calibrations>>

\* Faulty variant: one limit for all, the coolest sensor decides.
CountsOfAll(s) ==
    IF measured = Sensors /\ s \in Limited
    THEN IF countdown[s] > 0 THEN countdown[s] - 1 ELSE 0
    ELSE Rounds

Counts(s) ==
    IF s \in measured /\ s \in Limited
    THEN IF countdown[s] > 0 THEN countdown[s] - 1 ELSE 0
    ELSE Rounds

\* The rest of run_temp_check, and what the task makes of it.
Check ==
    /\ therm > NSensors
    /\ countdown' = [s \in Sensors |-> Counts(s)]
    /\ tempFault' = [s \in Sensors |-> tempFault[s] \/ countdown'[s] = 0]
    /\ adc' = "free" /\ therm' = 0
    /\ UNCHANGED <<sensor, measured, calibrating, calibrations>>

Heat ==
    /\ \E s \in Sensors : \E c \in Conditions \ {sensor[s]} : sensor' = [sensor EXCEPT ![s] = c]
    /\ UNCHANGED <<measured, countdown, tempFault, adc, therm, calibrating, calibrations>>

\* reset_fault
ResetTemp ==
    /\ tempFault' = [s \in Sensors |-> FALSE]
    /\ UNCHANGED <<sensor, measured, countdown, adc, therm, calibrating, calibrations>>

\* CMD_ntc
BeginCalibration ==
    /\ calibrations > 0 /\ ~calibrating /\ adc = "free"
    /\ adc' = "console" /\ calibrating' = TRUE
    /\ calibrations' = calibrations - 1
    /\ UNCHANGED <<sensor, measured, countdown, tempFault, therm>>

Calibrate ==
    /\ calibrating /\ calibrating' = FALSE
    /\ adc' = "free"
    /\ UNCHANGED <<sensor, measured, countdown, tempFault, therm, calibrations>>

\* Another key than y: the command ends and keeps the converter.
AbortCalibration ==
    /\ calibrating /\ calibrating' = FALSE
    /\ UNCHANGED <<sensor, measured, countdown, tempFault, adc, therm, calibrations>>

ThermTask == TakeConverter \/ Measure \/ Check
Answer == Calibrate \/ AbortCalibration

ThermNext == ThermTask \/ Heat \/ ResetTemp \/ BeginCalibration \/ Answer

\* The delays of the task end, it gets a converter that is given again and again, and
\* whoever began a calibration presses a key.
ThermFair == WF_thermVars(Measure \/ Check) /\ SF_thermVars(TakeConverter) /\ WF_thermVars(Answer)

ThermSpec == ThermInit /\ [][ThermNext]_thermVars /\ ThermFair

-----------------------------------------------------------------------------
(* Properties *)

\* A sensor that stays above its limit raises its fault, and again when the fault is
\* reset meanwhile, whatever the other sensor does (tsk_thermistor.c:167, 329); not as
\* long as a terminal has the converter.
HotTripsFault ==
    \A s \in Limited : sensor[s] = "hot" ~> (tempFault[s] \/ sensor[s] # "hot" \/ adc = "console")

\* "this function looks at all the thermistor temperatures, compares them against
\* limits and returns any faults" (tsk_thermistor.c:158)
HotAlwaysTrips == \A s \in Limited : sensor[s] = "hot" ~> (tempFault[s] \/ sensor[s] # "hot")
=============================================================================
