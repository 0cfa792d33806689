----------------------------- MODULE FaultLine -----------------------------
(***************************************************************************)
(* The system fault line: sysfault and system_fault_Control                *)
(* (src/common/ud3core/tasks/tsk_fault.c), the watchdog timer, the         *)
(* hypervisor (tsk_hypervisor.c) and the terminal commands that write the  *)
(* line while they reconfigure the coil (cli_common.c, interrupter.c).     *)
(*                                                                         *)
(* sysfault holds one byte per fault.  Only handle_FAULT, every 50 ms,     *)
(* carries them to the line that gates every pulse (tsk_fault_is_fault).   *)
(* A terminal command that changes the configuration saves the line, pulls *)
(* it, works and writes the saved value back; the fault task and the       *)
(* hypervisor (priority 4) preempt it anywhere, the other terminal and the *)
(* timer service (priority 3) are sliced with it.                          *)
(***************************************************************************)
EXTENDS Integers, FiniteSets

CONSTANTS
    Terminals,   \* the terminal tasks: USB or serial, and one per MIN socket
    Latched,     \* faults other tasks raise and never lower: temp1, temp2
    Transient,   \* faults other tasks raise and lower: charge, bus_uv, link_state
    ResetTime,   \* FAULT_RESET_TIME / HYPERVISOR_CHECK_TIME
    FbTime,      \* FB_ERROR_TIME: loops without an error that forgive the past
    WdTime,      \* configuration.watchdog_timeout, in parts that a frame may fall into
    MaxFb        \* configuration.max_fb_errors, 0 switches the check off

ASSUME FaultLineAssumption ==
    /\ ResetTime \in Nat \ {0} /\ FbTime \in Nat \ {0} /\ MaxFb \in Nat
    /\ WdTime \in Nat \ {0}
    /\ Latched \cap Transient = {}
    /\ (Latched \cup Transient)
         \cap {"uvlo", "eeprom", "watchdog", "interlock", "feedback"} = {}

\* The faults the fault task itself reads off their source in every loop.
Sampled == {"uvlo", "eeprom"}

Faults == Sampled \cup {"watchdog", "interlock", "feedback"} \cup Latched \cup Transient

VARIABLES
    raised,      \* the sysfault bytes that are set
    released,    \* bit 0 of system_fault_Control: pulses may pass
    present,     \* the Sampled conditions that hold (environment)
    fbErrors,    \* feedback_error_cnt, counted no further than MaxFb + 1
    fbTimer,     \* fb_error_timer
    watchdog,    \* configuration.watchdog
    wdTime,      \* what xWD_Timer has left to run, 0 while it is dormant
    hyperTime,   \* fault_reset_time in hypervisor periods, 0 without autostart
    step,        \* where each terminal is in a configuration change
    saved,       \* sfflag of each terminal
    fbQuiet      \* history: loops without a feedback error since the last one

vars == <<raised, released, present, fbErrors, fbTimer, watchdog, wdTime,
          hyperTime, step, saved, fbQuiet>>

fbVars   == <<fbErrors, fbTimer, fbQuiet>>
wdVars   == <<watchdog, wdTime>>
termVars == <<step, saved>>

\* The configuration changes: callback_ConfigFunction, CMD_eeprom load, and those
\* that leave the interrupter alone (callback_TTupdateFunction, CMD_eeprom save,
\* callback_ext_interrupter).
Kinds == {"config", "load", "other"}
Steps == {"idle", "saved", "clear"} \cup Kinds

TypeOK ==
    /\ raised \subseteq Faults
    /\ released \in BOOLEAN /\ present \subseteq Sampled
    /\ fbErrors \in 0 .. MaxFb + 1 /\ fbTimer \in 1 .. FbTime
    /\ fbQuiet \in 0 .. FbTime
    /\ watchdog \in BOOLEAN /\ wdTime \in 0 .. WdTime
    /\ hyperTime \in 0 .. ResetTime
    /\ step \in [Terminals -> Steps]
    /\ saved \in [Terminals -> BOOLEAN]

\* configuration.autostart: the hypervisor was created.
Autostart == hyperTime # 0

\* After the fault task's initialisation: main() has pulled the line, reset_fault
\* has cleared sysfault, WD_enable has been given the configured value; with the
\* hypervisor running the watchdog is stopped again.
Init ==
    /\ raised = {} /\ released = FALSE /\ present = {}
    /\ fbErrors = 0 /\ fbTimer = FbTime /\ fbQuiet = FbTime
    /\ watchdog \in BOOLEAN
    /\ hyperTime \in {0, ResetTime}
    /\ wdTime = IF watchdog /\ ~Autostart THEN WdTime ELSE 0
    /\ step = [t \in Terminals |-> "idle"]
    /\ saved = [t \in Terminals |-> FALSE]

ResetFault == raised' = {} /\ fbErrors' = 0

-----------------------------------------------------------------------------
(* The fault task *)

\* EEPROM_not_valid and handle_UVLO, before handle_FAULT looks at the bytes.
Sample(faults) == (faults \ Sampled) \cup present

\* Faulty variant: the timer is not loaded again when it has run down.
CountFeedbackNoReload(error) ==
    /\ fbErrors' = IF error THEN (IF fbErrors <= MaxFb THEN fbErrors + 1 ELSE fbErrors)
                   ELSE IF fbTimer = 1 THEN 0 ELSE fbErrors
    /\ fbTimer' = IF error THEN FbTime ELSE fbTimer - 1
    /\ fbQuiet' = IF error THEN 0 ELSE IF fbQuiet < FbTime THEN fbQuiet + 1 ELSE fbQuiet

\* Faulty variant: nothing is forgiven.
CountFeedbackForever(error) ==
    /\ fbErrors' = IF error /\ fbErrors <= MaxFb THEN fbErrors + 1 ELSE fbErrors
    /\ fbTimer' = IF error \/ fbTimer = 1 THEN FbTime ELSE fbTimer - 1
    /\ fbQuiet' = IF error THEN 0 ELSE IF fbQuiet < FbTime THEN fbQuiet + 1 ELSE fbQuiet

\* handle_no_fb: errors are counted until FbTime loops have passed without one;
\* more than max_fb_errors of them raise a fault, which the next loop carries.
CountFeedback(error) ==
    IF error
    THEN /\ fbErrors' = IF fbErrors <= MaxFb THEN fbErrors + 1 ELSE fbErrors
         /\ fbTimer' = FbTime
         /\ fbQuiet' = 0
    ELSE /\ fbErrors' = IF fbTimer = 1 THEN 0 ELSE fbErrors
         /\ fbTimer' = IF fbTimer = 1 THEN FbTime ELSE fbTimer - 1
         /\ fbQuiet' = IF fbQuiet < FbTime THEN fbQuiet + 1 ELSE fbQuiet

Feedback(faults) ==
    IF MaxFb = 0 THEN faults \ {"feedback"}
    ELSE IF fbErrors' > MaxFb THEN faults \cup {"feedback"}
    ELSE faults

\* Faulty variant: only some of the sysfault bytes are looked at.
FaultLoopPartial ==
    /\ released' = (Sample(raised) \ {"interlock", "watchdog"} = {})
    /\ \E error \in BOOLEAN : CountFeedback(error)
    /\ raised' = Feedback(Sample(raised))
    /\ UNCHANGED <<present, wdVars, hyperTime, termVars>>

FaultLoop ==
    /\ released' = (Sample(raised) = {})
    /\ \E error \in BOOLEAN : CountFeedback(error)
    /\ raised' = Feedback(Sample(raised))
    /\ UNCHANGED <<present, wdVars, hyperTime, termVars>>

\* The driver supply or the EEPROM fails, or recovers.
ConditionChanges ==
    /\ \E c \in Sampled :
         present' = IF c \in present THEN present \ {c} ELSE present \cup {c}
    /\ UNCHANGED <<raised, released, fbVars, wdVars, hyperTime, termVars>>

\* The thermistor, analog and MIN tasks raise and lower faults of their own.
OtherTask ==
    /\ \/ \E f \in (Latched \cup Transient) \ raised : raised' = raised \cup {f}
       \/ \E f \in Transient \cap raised : raised' = raised \ {f}
    /\ UNCHANGED <<released, present, fbVars, wdVars, hyperTime, termVars>>

-----------------------------------------------------------------------------
(* The watchdog: vWD_Timer_Callback and WD_reset *)

\* A part of the timeout passes without a frame, ...
WatchdogRuns ==
    /\ wdTime > 1
    /\ wdTime' = wdTime - 1
    /\ UNCHANGED <<raised, released, present, fbVars, watchdog, hyperTime, termVars>>

\* Faulty variant: the timer is not wound up again.
WatchdogExpiresOnce ==
    /\ wdTime = 1
    /\ wdTime' = 0
    /\ raised' = raised \cup {"watchdog", "interlock"}
    /\ UNCHANGED <<released, present, fbVars, watchdog, hyperTime, termVars>>

\* ... or the last: the callback kills the interrupter and winds the timer up again.
WatchdogExpires ==
    /\ wdTime = 1
    /\ wdTime' = WdTime
    /\ raised' = raised \cup {"watchdog", "interlock"}
    /\ UNCHANGED <<released, present, fbVars, watchdog, hyperTime, termVars>>

\* A MIN_ID_WD frame: the timer starts over, running or not, if the watchdog is
\* configured.
WdReset ==
    /\ watchdog
    /\ wdTime' = WdTime
    /\ UNCHANGED <<raised, released, present, fbVars, watchdog, hyperTime, termVars>>

-----------------------------------------------------------------------------
(* The hypervisor: a fault that stays for FAULT_RESET_TIME is reset *)

\* Faulty variant: the countdown stops one short of the reset.
HyperviseNever ==
    /\ Autostart
    /\ IF released THEN hyperTime' = ResetTime
       ELSE hyperTime' = IF hyperTime > 1 THEN hyperTime - 1 ELSE hyperTime
    /\ UNCHANGED <<raised, fbErrors, released, present, fbTimer, fbQuiet>>
    /\ UNCHANGED <<wdVars, termVars>>

Hypervise ==
    /\ Autostart
    /\ IF released
       THEN hyperTime' = ResetTime /\ UNCHANGED <<raised, fbErrors>>
       ELSE IF hyperTime = 1
       THEN hyperTime' = ResetTime /\ ResetFault
       ELSE hyperTime' = hyperTime - 1 /\ UNCHANGED <<raised, fbErrors>>
    /\ UNCHANGED <<released, present, fbTimer, fbQuiet, wdVars, termVars>>

-----------------------------------------------------------------------------
(* The terminals *)

Move(t, from, to) == step[t] = from /\ step' = [step EXCEPT ![t] = to]

\* "kill set"
Kill(t) ==
    /\ step[t] = "idle"
    /\ raised' = raised \cup {"interlock"}
    /\ UNCHANGED <<released, present, fbVars, wdVars, hyperTime, termVars>>

\* "kill reset": every fault is forgotten, ...
KillReset(t) ==
    /\ Move(t, "idle", "clear")
    /\ ResetFault
    /\ UNCHANGED <<released, present, fbTimer, fbQuiet, wdVars, hyperTime, saved>>

\* ... and the line is released without another look at them.
ClearLine(t) ==
    /\ Move(t, "clear", "idle")
    /\ released' = TRUE
    /\ UNCHANGED <<raised, present, fbVars, wdVars, hyperTime, saved>>

\* A configuration change reads the line ...
SaveLine(t) ==
    /\ Move(t, "idle", "saved")
    /\ saved' = [saved EXCEPT ![t] = released]
    /\ UNCHANGED <<raised, released, present, fbVars, wdVars, hyperTime>>

\* ... and pulls it.
HaltLine(t) ==
    /\ \E kind \in Kinds : Move(t, "saved", kind)
    /\ released' = FALSE
    /\ UNCHANGED <<raised, present, fbVars, wdVars, hyperTime, saved>>

\* configure_interrupter kills the interrupter, callback_ConfigFunction restarts
\* or stops the watchdog by the value just set; both then rebuild the coil's
\* settings like the others, and write the saved value back.
Reconfigure(t) ==
    /\ step[t] \in {"config", "load"}
    /\ raised' = raised \cup {"interlock"}
    /\ watchdog' \in BOOLEAN
    /\ wdTime' = IF step[t] = "load" THEN wdTime ELSE IF watchdog' THEN WdTime ELSE 0
    /\ step' = [step EXCEPT ![t] = "other"]
    /\ UNCHANGED <<released, present, fbVars, hyperTime, saved>>

RestoreLine(t) ==
    /\ Move(t, "other", "idle")
    /\ released' = saved[t]
    /\ UNCHANGED <<raised, present, fbVars, wdVars, hyperTime, saved>>

FinishChange(t) == HaltLine(t) \/ Reconfigure(t) \/ RestoreLine(t) \/ ClearLine(t)

Next ==
    \/ FaultLoop \/ ConditionChanges \/ OtherTask
    \/ WatchdogRuns \/ WatchdogExpires \/ WdReset \/ Hypervise
    \/ \E t \in Terminals :
         Kill(t) \/ KillReset(t) \/ SaveLine(t) \/ FinishChange(t)

Spec == Init /\ [][Next]_vars

\* The fault task and the hypervisor wake up periodically and a command that began
\* ends.  Time passes for the watchdog's timer, but frames may restart it for ever
\* and so keep it from expiring.
FairSpec ==
    /\ Spec
    /\ WF_vars(FaultLoop) /\ WF_vars(Hypervise) /\ WF_vars(WatchdogRuns \/ WatchdogExpires)
    /\ \A t \in Terminals : WF_vars(FinishChange(t))

-----------------------------------------------------------------------------
(* Properties *)

\* Feedback errors are forgiven after a second without one (handle_no_fb), however
\* the resets of other tasks fall between: an old error never counts towards a
\* feedback fault.
OldErrorsForgiven == fbQuiet = FbTime => fbErrors = 0

\* Whatever the terminals and the hypervisor write, a system that keeps a fault
\* while no terminal is at work ends with its line pulled for good.
FaultsHoldTheLine ==
    <>[](raised # {} /\ \A t \in Terminals : step[t] = "idle") => <>[]~released

\* Once the host's frames stop, a watchdog that runs and that nobody reconfigures
\* cannot be silenced by resetting the fault: it comes back again and again.
WatchdogReturns ==
    (/\ <>[][~WdReset]_vars
     /\ <>(wdTime # 0 /\ [](\A t \in Terminals : step[t] \notin {"config", "load"})))
    => []<>("watchdog" \in raised)

\* With the hypervisor, faults that are over are reset and the line released,
\* whichever task raised them.
HypervisorRecovers ==
    /\ <>[](Autostart /\ present = {} /\ wdTime = 0 /\ "feedback" \notin raised)
    /\ <>[][~OtherTask]_vars
    /\ <>[](\A t \in Terminals : step[t] = "idle")
    /\ <>[][~\E t \in Terminals : Kill(t)]_vars
    => <>[]released
=============================================================================
