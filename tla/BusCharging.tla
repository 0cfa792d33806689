---------------------------- MODULE BusCharging ----------------------------
(***************************************************************************)
(* Charging and discharging the bus: control_precharge of                  *)
(* src/common/ud3core/tasks/tsk_analog.c, its charge timer and the writers *)
(* of bus_command.                                                         *)
(*                                                                         *)
(* Relay 1 (bus) connects the bus through a resistor, relay 2 (charge end) *)
(* bypasses it.  Three contexts share the state without a lock: the analog *)
(* task (priority 1), which runs control_precharge for every ADC buffer,   *)
(* the timer service task (priority 3), which runs vCharge_Timer_Callback, *)
(* and the terminals (priority 3) with the hypervisor (4).  The others     *)
(* preempt the analog task, so its shared writes are steps of their own;   *)
(* so are those of the callback, between which the terminals and the       *)
(* hypervisor come in, but not the analog task.                            *)
(*                                                                         *)
(* The bus voltage counts in steps of 4 V and up: level 0 is below 20 V,   *)
(* a rise of less than 4 V is no rise.                                     *)
(***************************************************************************)
EXTENDS Integers

CONSTANTS
    Window,    \* AC_PRECHARGE_TIMEOUT: samples between two judgements
    TopV,      \* the highest level of the bus voltage
    Schemes    \* the values configuration.ps_scheme is set to

AcPrecharge == "AC_PRECHARGE_BUS_SCHEME"
FixedDelay  == "AC_PRECHARGE_FIXED_DELAY"

\* The other schemes of tsk_analog.h do nothing while the bus is commanded on.
ASSUME BusChargingAssumption ==
    /\ Window \in Nat \ {0}
    /\ TopV \in Nat \ {0}
    /\ Schemes \subseteq {AcPrecharge, FixedDelay} /\ Schemes # {}

VARIABLES
    busCommand,       \* bus_command
    busStatus,        \* tt.n.bus_status
    relayBus,         \* Relay1, TRUE when closed
    relayEnd,         \* Relay2 (charge end), TRUE when closed
    timerActive,      \* xCharge_Timer is running
    timerTriggered,   \* timer_triggerd
    faultCharge,      \* sysfault.charge
    faultBusUv,       \* sysfault.bus_uv
    busV,             \* tt.n.bus_v
    initialV,         \* initial_vbus
    counter,          \* charging_counter
    scheme,           \* configuration.ps_scheme
    pc,               \* where the analog task is in control_precharge
    cbPc,             \* where the timer service is in vCharge_Timer_Callback
    plateau           \* history: the bus stopped rising in this charge

vars == <<busCommand, busStatus, relayBus, relayEnd, timerActive,
          timerTriggered, faultCharge, faultBusUv, busV, initialV, counter,
          scheme, pc, cbPc, plateau>>

relays    == <<relayBus, relayEnd>>
timerVars == <<timerActive, timerTriggered>>
faults    == <<faultCharge, faultBusUv>>
window    == <<busV, initialV, counter>>

Commands == {"OFF", "ON", "FAULT"}
Statuses == {"BUS_OFF", "BUS_CHARGING", "BUS_READY", "BUS_BATT_UV_FLT"}
Pcs == {"wait", "command",
        "uvCheck", "uvFlag", "uvCommand", "count", "judge", "startTimer",
        "charge", "closeBus", "charging",
        "fixedTest", "fixedStart", "fixedClose", "fixedStatus",
        "offTest", "offBus", "offEnd", "offFlag"}
CallbackPcs == {"idle", "clear", "decide", "closeEnd", "ready", "noCharge", "noUv",
                "openBus", "openEnd", "calm", "off"}

TypeOK ==
    /\ busCommand \in Commands
    /\ busStatus \in Statuses
    /\ relayBus \in BOOLEAN /\ relayEnd \in BOOLEAN
    /\ timerActive \in BOOLEAN /\ timerTriggered \in BOOLEAN
    /\ faultCharge \in BOOLEAN /\ faultBusUv \in BOOLEAN
    /\ busV \in 0 .. TopV /\ initialV \in 0 .. TopV
    /\ counter \in 0 .. Window
    /\ scheme \in Schemes
    /\ pc \in Pcs /\ cbPc \in CallbackPcs
    /\ plateau \in BOOLEAN

\* After main(): both relays open, initialize_charging done, timer created.
Init ==
    /\ busCommand = "OFF" /\ busStatus = "BUS_OFF"
    /\ relayBus = FALSE /\ relayEnd = FALSE
    /\ timerActive = FALSE /\ timerTriggered = FALSE
    /\ faultCharge = FALSE /\ faultBusUv = FALSE
    /\ busV = 0 /\ initialV = 0 /\ counter = 0
    /\ scheme \in Schemes
    /\ pc = "wait" /\ cbPc = "idle"
    /\ plateau = FALSE

\* The analog task runs while the callback does not.
At(place) == cbPc = "idle" /\ UNCHANGED cbPc /\ pc = place
Goto(from, to) == At(from) /\ pc' = to

-----------------------------------------------------------------------------
(* The analog task: calculate_rms, then control_precharge *)

\* A new ADC buffer: the bus rises only through a closed relay.
Sample ==
    /\ Goto("wait", "command")
    /\ busV' \in {v \in 0 .. TopV : v \in busV - 1 .. busV + 1}
    /\ busV' > busV => relayBus
    /\ UNCHANGED <<busCommand, busStatus, relays, timerVars, faults, initialV,
                   counter, scheme, plateau>>

ReadCommand ==
    /\ At("command")
    /\ pc' = IF busCommand # "ON" THEN "offTest"
             ELSE IF scheme = AcPrecharge THEN "uvCheck" ELSE "fixedTest"
    /\ UNCHANGED <<busCommand, busStatus, relays, timerVars, faults, window,
                   scheme, plateau>>

\* ac_precharge_bus_scheme: a ready bus that has lost its voltage is switched off.
UvCheck ==
    /\ At("uvCheck")
    /\ IF busStatus = "BUS_READY" /\ busV = 0
       THEN busStatus' = "BUS_BATT_UV_FLT" /\ pc' = "uvFlag"
       ELSE UNCHANGED busStatus /\ pc' = "count"
    /\ UNCHANGED <<busCommand, relays, timerVars, faults, window, scheme, plateau>>

UvFlag ==
    /\ Goto("uvFlag", "uvCommand")
    /\ faultBusUv' = TRUE
    /\ UNCHANGED <<busCommand, busStatus, relays, timerVars, faultCharge, window,
                   scheme, plateau>>

UvCommand ==
    /\ Goto("uvCommand", "count")
    /\ busCommand' = "FAULT"
    /\ UNCHANGED <<busStatus, relays, timerVars, faults, window, scheme, plateau>>

\* Faulty variant: one sample too many is counted.
CountTooFar ==
    /\ At("count")
    /\ initialV' = IF counter = 0 THEN busV ELSE initialV
    /\ counter' = IF counter <= Window THEN counter + 1 ELSE 0
    /\ pc' = IF counter <= Window THEN "wait" ELSE "judge"
    /\ UNCHANGED <<busCommand, busStatus, relays, timerVars, faults, busV, scheme,
                   plateau>>

\* The voltage at the start of the window is kept, the window's end is judged.
\* charging_counter is kept in 0 .. Window: the last increment and the reset at
\* the end of the judgement are both its return to 0.
Count ==
    /\ At("count")
    /\ initialV' = IF counter = 0 THEN busV ELSE initialV
    /\ counter' = IF counter < Window THEN counter + 1 ELSE 0
    /\ pc' = IF counter < Window THEN "wait" ELSE "judge"
    /\ UNCHANGED <<busCommand, busStatus, relays, timerVars, faults, busV, scheme,
                   plateau>>

NotRising == busV <= initialV /\ busV > 0

\* Faulty variant: the flag is set, the timer is not started.
JudgeForgetsTimer ==
    /\ At("judge")
    /\ IF NotRising /\ busStatus = "BUS_CHARGING"
       THEN plateau' = TRUE /\ timerTriggered' = TRUE /\ pc' = "wait"
       ELSE /\ pc' = IF busStatus # "BUS_READY" THEN "charge" ELSE "wait"
            /\ UNCHANGED <<timerTriggered, plateau>>
    /\ UNCHANGED <<busCommand, busStatus, relays, timerActive, faults, window,
                   scheme>>

Judge ==
    /\ At("judge")
    /\ IF NotRising /\ busStatus = "BUS_CHARGING"
       THEN /\ plateau' = TRUE
            /\ timerTriggered' = TRUE
            /\ pc' = IF timerTriggered THEN "wait" ELSE "startTimer"
       ELSE /\ pc' = IF busStatus # "BUS_READY" THEN "charge" ELSE "wait"
            /\ UNCHANGED <<timerTriggered, plateau>>
    /\ UNCHANGED <<busCommand, busStatus, relays, timerActive, faults, window,
                   scheme>>

StartTimer ==
    /\ Goto("startTimer", "wait")
    /\ timerActive' = TRUE
    /\ UNCHANGED <<busCommand, busStatus, relays, timerTriggered, faults, window,
                   scheme, plateau>>

RaiseCharge(from, to) ==
    /\ Goto(from, to)
    /\ faultCharge' = TRUE
    /\ UNCHANGED <<busCommand, busStatus, relays, timerVars, faultBusUv, window,
                   scheme, plateau>>

\* A charge begins when the bus relay closes.
CloseBus(from, to) ==
    /\ Goto(from, to)
    /\ relayBus' = TRUE
    /\ plateau' = (plateau /\ relayBus)
    /\ UNCHANGED <<busCommand, busStatus, relayEnd, timerVars, faults, window,
                   scheme>>

SetCharging(from) ==
    /\ Goto(from, "wait")
    /\ busStatus' = "BUS_CHARGING"
    /\ UNCHANGED <<busCommand, relays, timerVars, faults, window, scheme, plateau>>

\* ac_precharge_fixed_delay starts the timer before it closes the relay.
FixedTest ==
    /\ At("fixedTest")
    /\ ~relayBus /\ ~relayEnd
    /\ pc' = "fixedStart"
    /\ faultCharge' = TRUE
    /\ UNCHANGED <<busCommand, busStatus, relays, timerVars, faultBusUv, window,
                   scheme, plateau>>

FixedNothing ==
    /\ Goto("fixedTest", "wait")
    /\ relayBus \/ relayEnd
    /\ UNCHANGED <<busCommand, busStatus, relays, timerVars, faults, window,
                   scheme, plateau>>

FixedStart ==
    /\ Goto("fixedStart", "fixedClose")
    /\ timerActive' = TRUE
    /\ UNCHANGED <<busCommand, busStatus, relays, timerTriggered, faults, window,
                   scheme, plateau>>

\* Not commanded on: the bypass opens, the timer opens the bus relay later.
OffTest ==
    /\ At("offTest")
    /\ relayEnd \/ relayBus
    /\ ~timerTriggered
    /\ pc' = "offBus"
    /\ faultCharge' = TRUE
    /\ UNCHANGED <<busCommand, busStatus, relays, timerVars, faultBusUv, window,
                   scheme, plateau>>

OffNothing ==
    /\ Goto("offTest", "wait")
    /\ (~relayEnd /\ ~relayBus) \/ timerTriggered
    /\ UNCHANGED <<busCommand, busStatus, relays, timerVars, faults, window,
                   scheme, plateau>>

OffEnd ==
    /\ Goto("offEnd", "offFlag")
    /\ relayEnd' = FALSE
    /\ UNCHANGED <<busCommand, busStatus, relayBus, timerVars, faults, window,
                   scheme, plateau>>

OffFlag ==
    /\ Goto("offFlag", "startTimer")
    /\ timerTriggered' = TRUE
    /\ UNCHANGED <<busCommand, busStatus, relays, timerActive, faults, window,
                   scheme, plateau>>

ControlPrecharge ==
    \/ ReadCommand
    \/ UvCheck \/ UvFlag \/ UvCommand \/ Count \/ Judge \/ StartTimer
    \/ RaiseCharge("charge", "closeBus") \/ CloseBus("closeBus", "charging")
    \/ SetCharging("charging")
    \/ FixedTest \/ FixedNothing \/ FixedStart
    \/ CloseBus("fixedClose", "fixedStatus") \/ SetCharging("fixedStatus")
    \/ OffTest \/ OffNothing \/ CloseBus("offBus", "offEnd") \/ OffEnd \/ OffFlag

-----------------------------------------------------------------------------
(* The timer service task: vCharge_Timer_Callback *)

\* The timer has run down; a start of it from now on is queued and counts again.
ChargeTimerExpires ==
    /\ timerActive /\ cbPc = "idle"
    /\ timerActive' = FALSE
    /\ cbPc' = "clear"
    /\ UNCHANGED <<busCommand, busStatus, relays, timerTriggered, faults, window,
                   scheme, pc, plateau>>

\* Between two steps of the callback bus_command, the status, the faults and the
\* configuration may change; the relays and timer_triggerd are its own.
CallbackGoto(from, to) ==
    /\ cbPc = from /\ cbPc' = to
    /\ UNCHANGED <<busCommand, timerActive, window, scheme, pc>>


ClearTriggered ==
    /\ CallbackGoto("clear", "decide")
    /\ timerTriggered' = FALSE
    /\ UNCHANGED <<busStatus, relays, faults, plateau>>

\* Faulty variant: the bus relay is not looked at.
ExpireOnBlindly ==
    /\ busCommand = "ON"
    /\ CallbackGoto("decide", "closeEnd")
    /\ UNCHANGED <<timerTriggered, busStatus, relays, faults, plateau>>

\* Commanded on: with the bus relay closed the bypass closes, ...
ExpireOn ==
    /\ busCommand = "ON"
    /\ CallbackGoto("decide", IF relayBus THEN "closeEnd" ELSE "idle")
    /\ UNCHANGED <<timerTriggered, busStatus, relays, faults, plateau>>

CloseEnd ==
    /\ CallbackGoto("closeEnd", "ready")
    /\ relayEnd' = TRUE
    /\ UNCHANGED <<timerTriggered, busStatus, relayBus, faults, plateau>>

\* ... the bus is ready, and both faults are over.
SetReady ==
    /\ CallbackGoto("ready", "noCharge")
    /\ busStatus' = "BUS_READY"
    /\ UNCHANGED <<timerTriggered, relays, faults, plateau>>

LowerFaults ==
    /\ \/ /\ CallbackGoto("noCharge", "noUv")
          /\ faultCharge' = FALSE /\ UNCHANGED faultBusUv
       \/ /\ CallbackGoto("noUv", "idle")
          /\ faultBusUv' = FALSE /\ UNCHANGED faultCharge
    /\ UNCHANGED <<timerTriggered, busStatus, relays, plateau>>

\* Otherwise the bus relay opens ...
ExpireOff ==
    /\ busCommand # "ON"
    /\ CallbackGoto("decide", "openBus")
    /\ UNCHANGED <<timerTriggered, busStatus, relays, faults, plateau>>

OpenBus ==
    /\ CallbackGoto("openBus", "openEnd")
    /\ relayBus' = FALSE
    /\ plateau' = FALSE
    /\ UNCHANGED <<timerTriggered, busStatus, relayEnd, faults>>

\* ... and after it the bypass, ...
OpenEnd ==
    /\ CallbackGoto("openEnd", "calm")
    /\ relayEnd' = FALSE
    /\ UNCHANGED <<timerTriggered, busStatus, relayBus, faults, plateau>>

CalmCharge ==
    /\ CallbackGoto("calm", "off")
    /\ faultCharge' = FALSE
    /\ UNCHANGED <<timerTriggered, busStatus, relays, faultBusUv, plateau>>

\* Faulty variant: the relays open, the status stays.
SetOffForgotten ==
    /\ CallbackGoto("off", "idle")
    /\ UNCHANGED <<timerTriggered, busStatus, relays, faults, plateau>>

\* ... and the status follows.
SetOff ==
    /\ CallbackGoto("off", "idle")
    /\ busStatus' = "BUS_OFF"
    /\ UNCHANGED <<timerTriggered, relays, faults, plateau>>

ChargeCallback ==
    \/ ClearTriggered
    \/ ExpireOn \/ CloseEnd \/ SetReady \/ LowerFaults
    \/ ExpireOff \/ OpenBus \/ OpenEnd \/ CalmCharge \/ SetOff

-----------------------------------------------------------------------------
(* The terminal task and the hypervisor *)

\* CMD_bus, CMD_udkill and the hypervisor write the command at any time.
CommandBus ==
    /\ busCommand' \in {"ON", "OFF"} \ {busCommand}
    /\ UNCHANGED <<busStatus, relays, timerVars, faults, window, scheme, pc, cbPc,
                   plateau>>

\* reset_fault, from "kill reset" and the hypervisor: every fault is forgotten.
ResetFault ==
    /\ faultCharge \/ faultBusUv
    /\ faultCharge' = FALSE /\ faultBusUv' = FALSE
    /\ UNCHANGED <<busCommand, busStatus, relays, timerVars, window, scheme, pc, cbPc,
                   plateau>>

InitializeCharging ==
    /\ busStatus' = "BUS_OFF"
    /\ initialV' = 0 /\ counter' = 0
    /\ UNCHANGED <<busCommand, relays, timerTriggered, faults, busV, pc, cbPc, plateau>>

\* callback_ConfigFunction: a configuration parameter was set.  Changing the
\* period of xCharge_Timer starts it when it is dormant.
Configure ==
    /\ InitializeCharging
    /\ scheme' \in Schemes
    /\ timerActive' = TRUE

\* CMD_eeprom load leaves the timer alone.
LoadEeprom ==
    /\ InitializeCharging
    /\ scheme' \in Schemes
    /\ UNCHANGED timerActive

Next ==
    \/ Sample \/ ControlPrecharge
    \/ ChargeTimerExpires \/ ChargeCallback
    \/ CommandBus \/ ResetFault \/ Configure \/ LoadEeprom

Spec == Init /\ [][Next]_vars

\* ADC buffers keep coming, the analog task gets to run whenever the callback is
\* over, the timer expires and its callback ends; the bus charges through a closed
\* relay and drains behind an open one.
FairSpec ==
    /\ Spec
    /\ WF_vars(Sample) /\ WF_vars(ControlPrecharge)
    /\ WF_vars(ChargeTimerExpires) /\ WF_vars(ChargeCallback)
    /\ SF_vars(Sample /\ relayBus /\ busV' > busV)
    /\ SF_vars(Sample /\ ~relayBus /\ busV' < busV)

-----------------------------------------------------------------------------
(* Properties *)

\* The bypass is closed around an open bus relay at one point only: when
\* vCharge_Timer_Callback switches the bus off, which opens the bus relay first and
\* the bypass afterwards.  In no other order of the writes of the callback and the
\* analog task, and of the commands between them, does the bypass stay or become
\* closed without the bus relay.
BypassBehindBus == relayEnd => relayBus \/ cbPc = "openEnd"

\* timer_triggerd promises a running timer: were it left set with the timer
\* dormant, control_precharge would never again open the relays.  Only from the
\* test of the flag to the start of the timer, and from the timer's expiry to the
\* first write of its callback, is it set without.
TriggeredIsBacked ==
    timerTriggered => timerActive \/ pc = "startTimer" \/ cbPc = "clear"

\* Whenever the telemetry says BUS_READY with the bypass open, the charge timer
\* runs or is about to be started or its callback is at work, which settles which of
\* the two is wrong.
ReadyIsBacked ==
    busStatus = "BUS_READY" /\ ~relayEnd
      => timerActive \/ pc \in {"offFlag", "startTimer"} \/ cbPc # "idle"


\* A bus that stays commanded on under the AC precharge scheme, with a line that
\* holds its voltage and the configuration left alone, ends ready with the bypass
\* closed.
OnBecomesReady ==
    /\ <>[](busCommand = "ON" /\ scheme = AcPrecharge)
    /\ <>[][relayBus => busV' >= busV]_vars
    /\ <>[][~(Configure \/ LoadEeprom)]_vars
    => <>[](busStatus = "BUS_READY" /\ relayEnd)
=============================================================================
