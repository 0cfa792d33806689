------------------------ MODULE BusCharging_proofs ------------------------
(***************************************************************************)
(* Proofs about BusCharging, for every window, voltage and set of schemes. *)
(***************************************************************************)
EXTENDS BusCharging, TLAPS

\* A ready bus is connected, but for the steps of the callback from the opening of
\* the bus relay to the status that tells of it.
ReadyIsConnected ==
    busStatus = "BUS_READY" => relayBus \/ cbPc \in {"openEnd", "calm", "off"}

\* What the callback has done so far: it found the bus relay closed, or opened both,
\* and the analog task has not come in.
CallbackSoFar ==
    /\ cbPc \in {"closeEnd", "ready", "noCharge", "noUv"} => relayBus
    /\ cbPc \in {"ready", "noCharge", "noUv"} => relayEnd
    /\ cbPc \in {"openEnd", "calm", "off"} => ~relayBus
    /\ cbPc \in {"calm", "off"} => ~relayEnd

IInv == /\ TypeOK
        /\ BypassBehindBus /\ TriggeredIsBacked
        /\ ReadyIsBacked /\ ReadyIsConnected /\ CallbackSoFar

\* The relays start open and the timer dormant.
LEMMA InitInv == Init => IInv
<1> SUFFICES ASSUME Init PROVE IInv
    OBVIOUS
<1> USE DEF Init
<1>1. TypeOK
  <2>1. busV \in 0 .. TopV /\ initialV \in 0 .. TopV /\ counter \in 0 .. Window
      BY BusChargingAssumption
  <2>2. /\ busCommand \in Commands /\ busStatus \in Statuses /\ pc \in Pcs
        /\ cbPc \in CallbackPcs
      BY DEF Commands, Statuses, Pcs, CallbackPcs
  <2> QED
      BY <2>1, <2>2 DEF TypeOK
<1>2. BypassBehindBus /\ TriggeredIsBacked /\ ReadyIsBacked
    BY DEF BypassBehindBus, TriggeredIsBacked, ReadyIsBacked
<1>3. ReadyIsConnected /\ CallbackSoFar
    BY DEF ReadyIsConnected, CallbackSoFar
<1> QED
    BY <1>1, <1>2, <1>3 DEF IInv

\* The analog task: every step of control_precharge, none of which falls into the
\* callback.
LEMMA PrechargeInv == IInv /\ (Sample \/ ControlPrecharge) => IInv'
<1> SUFFICES ASSUME IInv, Sample \/ ControlPrecharge PROVE IInv'
    OBVIOUS
<1> USE BusChargingAssumption
    DEF IInv, Goto, At, relays, timerVars, faults, window
<1> USE DEF BypassBehindBus, TriggeredIsBacked, ReadyIsBacked, ReadyIsConnected,
            CallbackSoFar
<1>1. CASE Sample
  <2>1. TypeOK'
      BY <1>1 DEF Sample, TypeOK, Pcs
  <2> QED
      BY <1>1, <2>1 DEF Sample, TypeOK
<1>2. CASE ReadCommand
  <2>1. TypeOK'
      BY <1>2 DEF ReadCommand, TypeOK, Pcs
  <2> QED
      BY <1>2, <2>1 DEF ReadCommand, TypeOK
<1>3. CASE UvCheck \/ UvFlag \/ UvCommand
  <2>1. TypeOK'
    <3>1. busCommand' \in Commands /\ busStatus' \in Statuses /\ pc' \in Pcs
        BY <1>3 DEF UvCheck, UvFlag, UvCommand, TypeOK, Pcs, Commands, Statuses
    <3> QED
        BY <1>3, <3>1 DEF UvCheck, UvFlag, UvCommand, TypeOK
  <2> QED
      BY <1>3, <2>1 DEF UvCheck, UvFlag, UvCommand
<1>4. CASE Count
  <2>1. TypeOK'
      BY <1>4 DEF Count, TypeOK, Pcs
  <2> QED
      BY <1>4, <2>1 DEF Count
<1>5. CASE Judge \/ StartTimer
  <2>1. TypeOK'
      BY <1>5 DEF Judge, StartTimer, TypeOK, Pcs
  <2> QED
      BY <1>5, <2>1 DEF Judge, StartTimer, TypeOK
<1>6. CASE \/ RaiseCharge("charge", "closeBus") \/ SetCharging("charging")
           \/ SetCharging("fixedStatus")
  <2>1. TypeOK'
      BY <1>6 DEF RaiseCharge, SetCharging, TypeOK, Pcs, Statuses
  <2> QED
      BY <1>6, <2>1 DEF RaiseCharge, SetCharging
<1>7. CASE \/ CloseBus("closeBus", "charging") \/ CloseBus("fixedClose", "fixedStatus")
           \/ CloseBus("offBus", "offEnd")
  <2>1. TypeOK'
      BY <1>7 DEF CloseBus, TypeOK, Pcs
  <2> QED
      BY <1>7, <2>1 DEF CloseBus
<1>8. CASE FixedTest \/ FixedNothing \/ FixedStart
  <2>1. TypeOK'
      BY <1>8 DEF FixedTest, FixedNothing, FixedStart, TypeOK, Pcs
  <2> QED
      BY <1>8, <2>1 DEF FixedTest, FixedNothing, FixedStart
<1>9. CASE OffTest \/ OffNothing \/ OffEnd \/ OffFlag
  <2>1. TypeOK'
      BY <1>9 DEF OffTest, OffNothing, OffEnd, OffFlag, TypeOK, Pcs
  <2> QED
      BY <1>9, <2>1 DEF OffTest, OffNothing, OffEnd, OffFlag
<1> QED
    BY <1>1, <1>2, <1>3, <1>4, <1>5, <1>6, <1>7, <1>8, <1>9 DEF ControlPrecharge

\* The timer runs down: from now on its callback is at work.
LEMMA ExpiryInv == IInv /\ ChargeTimerExpires => IInv'
<1> SUFFICES ASSUME IInv, ChargeTimerExpires PROVE IInv'
    OBVIOUS
<1> USE DEF IInv, ChargeTimerExpires, relays, window, faults
<1>1. TypeOK'
    BY DEF TypeOK, CallbackPcs
<1>2. BypassBehindBus' /\ TriggeredIsBacked' /\ ReadyIsBacked'
    BY DEF BypassBehindBus, TriggeredIsBacked, ReadyIsBacked
<1>3. ReadyIsConnected' /\ CallbackSoFar'
    BY DEF ReadyIsConnected, CallbackSoFar
<1> QED
    BY <1>1, <1>2, <1>3

\* Every step of vCharge_Timer_Callback.
LEMMA CallbackInv == IInv /\ ChargeCallback => IInv'
<1> SUFFICES ASSUME IInv, ChargeCallback PROVE IInv'
    OBVIOUS
<1> USE DEF IInv, CallbackGoto, relays, window, faults
<1> USE DEF BypassBehindBus, TriggeredIsBacked, ReadyIsBacked, ReadyIsConnected,
            CallbackSoFar
<1>1. CASE ClearTriggered
  <2>1. TypeOK'
      BY <1>1 DEF ClearTriggered, TypeOK, CallbackPcs
  <2> QED
      BY <1>1, <2>1 DEF ClearTriggered
<1>2. CASE ExpireOn \/ ExpireOff
  <2>1. TypeOK'
      BY <1>2 DEF ExpireOn, ExpireOff, TypeOK, CallbackPcs
  <2> QED
      BY <1>2, <2>1 DEF ExpireOn, ExpireOff, TypeOK
<1>3. CASE CloseEnd \/ SetReady
  <2>1. TypeOK'
      BY <1>3 DEF CloseEnd, SetReady, TypeOK, CallbackPcs, Statuses
  <2> QED
      BY <1>3, <2>1 DEF CloseEnd, SetReady
<1>4. CASE LowerFaults
  <2>1. TypeOK'
      BY <1>4 DEF LowerFaults, TypeOK, CallbackPcs
  <2> QED
      BY <1>4, <2>1 DEF LowerFaults
<1>5. CASE OpenBus \/ OpenEnd
  <2>1. TypeOK'
      BY <1>5 DEF OpenBus, OpenEnd, TypeOK, CallbackPcs
  <2> QED
      BY <1>5, <2>1 DEF OpenBus, OpenEnd
<1>6. CASE CalmCharge \/ SetOff
  <2>1. TypeOK'
      BY <1>6 DEF CalmCharge, SetOff, TypeOK, CallbackPcs, Statuses
  <2> QED
      BY <1>6, <2>1 DEF CalmCharge, SetOff
<1> QED
    BY <1>1, <1>2, <1>3, <1>4, <1>5, <1>6 DEF ChargeCallback

\* Commands and configuration changes touch neither relay and only ever start the
\* timer.
LEMMA TerminalInv ==
    IInv /\ (CommandBus \/ ResetFault \/ Configure \/ LoadEeprom) => IInv'
<1> SUFFICES ASSUME IInv, CommandBus \/ ResetFault \/ Configure \/ LoadEeprom
             PROVE IInv'
    OBVIOUS
<1> USE BusChargingAssumption
    DEF IInv, relays, timerVars, faults, window, CommandBus, ResetFault,
        Configure, LoadEeprom, InitializeCharging
<1>1. TypeOK'
  <2>1. /\ busCommand' \in Commands /\ busStatus' \in Statuses
        /\ timerActive' \in BOOLEAN
        /\ faultCharge' \in BOOLEAN /\ faultBusUv' \in BOOLEAN
      BY DEF TypeOK, Commands, Statuses
  <2>2. /\ initialV' \in 0 .. TopV /\ counter' \in 0 .. Window
        /\ scheme' \in Schemes
      BY DEF TypeOK
  <2> QED
      BY <2>1, <2>2 DEF TypeOK
<1>2. BypassBehindBus' /\ TriggeredIsBacked'
    BY DEF BypassBehindBus, TriggeredIsBacked, TypeOK
<1>3. ReadyIsBacked' /\ ReadyIsConnected' /\ CallbackSoFar'
    BY DEF ReadyIsBacked, ReadyIsConnected, CallbackSoFar
<1> QED
    BY <1>1, <1>2, <1>3

\* The invariant is inductive.
LEMMA NextInv == IInv /\ [Next]_vars => IInv'
<1>1. IInv /\ UNCHANGED vars => IInv'
  <2> SUFFICES ASSUME IInv, UNCHANGED vars PROVE IInv'
      OBVIOUS
  <2>1. TypeOK'
      BY DEF IInv, TypeOK, vars
  <2> QED
      BY <2>1 DEF IInv, vars, BypassBehindBus, TriggeredIsBacked, ReadyIsBacked,
                  ReadyIsConnected, CallbackSoFar
<1> QED
    BY <1>1, PrechargeInv, ExpiryInv, CallbackInv, TerminalInv DEF Next

\* The relays, the status, the flag and the timer stay consistent with each other
\* for every window, voltage range and set of schemes.
THEOREM Invariance == Spec => []IInv
BY InitInv, NextInv, PTL DEF Spec

\* Every variable of the charging logic keeps its type.
THEOREM TypeCorrect == Spec => []TypeOK
<1>1. IInv => TypeOK
    BY DEF IInv
<1> QED
    BY <1>1, Invariance, PTL

\* The charge end relay is closed only while the bus relay is, but for the moment in
\* which vCharge_Timer_Callback has opened the first and not yet the second.
THEOREM BypassNeverAlone == Spec => []BypassBehindBus
<1>1. IInv => BypassBehindBus
    BY DEF IInv
<1> QED
    BY <1>1, Invariance, PTL

\* timer_triggerd is set only while the charge timer runs, the analog task is about
\* to start it or its callback about to clear the flag.
THEOREM FlagNeverStuck == Spec => []TriggeredIsBacked
<1>1. IInv => TriggeredIsBacked
    BY DEF IInv
<1> QED
    BY <1>1, Invariance, PTL

\* A bus reported ready with its bypass open has a charge timer, or its callback,
\* that corrects it.
THEOREM ReadyIsSettled == Spec => []ReadyIsBacked
<1>1. IInv => ReadyIsBacked
    BY DEF IInv
<1> QED
    BY <1>1, Invariance, PTL
=============================================================================
