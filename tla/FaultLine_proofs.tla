--------------------------- MODULE FaultLine_proofs ---------------------------
(***************************************************************************)
(* Proofs about FaultLine for every set of terminals and faults and every  *)
(* setting of the timers and limits.                                       *)
(***************************************************************************)
EXTENDS FaultLine, TLAPS

\* What handle_no_fb relies on: while errors are counted, fb_error_timer says exactly
\* how many quiet loops are left until they are forgiven.
TimerCountsDown == fbErrors # 0 => fbQuiet < FbTime /\ fbTimer = FbTime - fbQuiet

FaultsOK ==
    /\ raised \subseteq Faults
    /\ released \in BOOLEAN /\ present \subseteq Sampled

FeedbackOK ==
    /\ fbErrors \in 0 .. MaxFb + 1 /\ fbTimer \in 1 .. FbTime
    /\ fbQuiet \in 0 .. FbTime

TimersOK ==
    /\ watchdog \in BOOLEAN /\ wdTime \in 0 .. WdTime
    /\ hyperTime \in 0 .. ResetTime

TerminalsOK ==
    /\ step \in [Terminals -> Steps]
    /\ saved \in [Terminals -> BOOLEAN]

IInv == FaultsOK /\ FeedbackOK /\ TimersOK /\ TerminalsOK /\ TimerCountsDown

-----------------------------------------------------------------------------
\* Counting an error or a quiet loop keeps the countdown.
LEMMA CountFeedbackKeeps ==
  ASSUME FeedbackOK, TimerCountsDown, NEW error \in BOOLEAN, CountFeedback(error)
  PROVE  FeedbackOK' /\ TimerCountsDown'
  BY FaultLineAssumption DEF FeedbackOK, TimerCountsDown, CountFeedback

\* reset_fault forgets errors and nothing else of handle_no_fb's state.
LEMMA ResetFaultKeeps ==
  ASSUME FeedbackOK, ResetFault, UNCHANGED <<fbTimer, fbQuiet>>
  PROVE  FeedbackOK' /\ TimerCountsDown'
  BY FaultLineAssumption DEF FeedbackOK, TimerCountsDown, ResetFault

\* The fault task's loop.
LEMMA FaultLoopStep == ASSUME IInv, FaultLoop PROVE IInv'
<1>1. FeedbackOK' /\ TimerCountsDown'
  BY CountFeedbackKeeps DEF FaultLoop, IInv
<1>2. FaultsOK'
  BY DEF IInv, FaultsOK, FaultLoop, Sample, Feedback, Faults, Sampled
<1>3. TimersOK' /\ TerminalsOK'
  BY DEF IInv, TimersOK, TerminalsOK, FaultLoop, wdVars, termVars
<1> QED BY <1>1, <1>2, <1>3 DEF IInv

\* Steps that leave the feedback count, the timers and the terminals alone.
LEMMA FaultSteps ==
  ASSUME IInv, ConditionChanges \/ OtherTask \/ \E t \in Terminals : Kill(t)
  PROVE  IInv'
<1>1. FeedbackOK' /\ TimerCountsDown' /\ TimersOK' /\ TerminalsOK'
  BY DEF IInv, FeedbackOK, TimerCountsDown, TimersOK, TerminalsOK, ConditionChanges,
         OtherTask, Kill, fbVars, wdVars, termVars
<1>2. FaultsOK'
  BY DEF IInv, FaultsOK, Faults, Sampled, ConditionChanges, OtherTask, Kill
<1> QED BY <1>1, <1>2 DEF IInv

\* The watchdog's timer runs down and is wound up again.
LEMMA WatchdogSteps == ASSUME IInv, WatchdogRuns \/ WatchdogExpires \/ WdReset PROVE IInv'
<1> USE DEF WatchdogRuns, WatchdogExpires, WdReset
<1>1. FaultsOK' /\ TerminalsOK'
  BY DEF IInv, FaultsOK, TerminalsOK, Faults, termVars
<1>2. TimersOK'
  <2>1. watchdog' = watchdog /\ hyperTime' = hyperTime
    OBVIOUS
  <2>2. wdTime' = WdTime \/ (wdTime > 1 /\ wdTime' = wdTime - 1)
    OBVIOUS
  <2>3. wdTime' \in 0 .. WdTime
    BY <2>2, FaultLineAssumption DEF IInv, TimersOK
  <2> QED BY <2>1, <2>3 DEF IInv, TimersOK
<1>3. FeedbackOK' /\ TimerCountsDown'
  BY DEF IInv, FeedbackOK, TimerCountsDown, fbVars
<1> QED BY <1>1, <1>2, <1>3 DEF IInv

\* The hypervisor.
LEMMA HyperviseStep == ASSUME IInv, Hypervise PROVE IInv'
<1>1. FaultsOK' /\ TerminalsOK'
  BY DEF IInv, FaultsOK, TerminalsOK, Hypervise, ResetFault, termVars
<1>2. TimersOK'
  <2>1. watchdog' = watchdog /\ wdTime' = wdTime
    BY DEF Hypervise, wdVars
  <2>2. \/ hyperTime' = ResetTime
        \/ hyperTime # 0 /\ hyperTime' = hyperTime - 1
    BY Zenon DEF Hypervise, Autostart
  <2>3. hyperTime' \in 0 .. ResetTime
    BY <2>2, FaultLineAssumption DEF IInv, TimersOK
  <2> QED BY <2>1, <2>3 DEF IInv, TimersOK
<1>3. FeedbackOK' /\ TimerCountsDown'
  <2>1. CASE ResetFault
    BY <2>1, ResetFaultKeeps DEF IInv, Hypervise
  <2>2. CASE UNCHANGED <<raised, fbErrors>>
    BY <2>2 DEF IInv, FeedbackOK, TimerCountsDown, Hypervise
  <2> QED BY <2>1, <2>2 DEF Hypervise
<1> QED BY <1>1, <1>2, <1>3 DEF IInv

\* The terminals' steps.
LEMMA TerminalSteps ==
  ASSUME IInv, NEW t \in Terminals, KillReset(t) \/ SaveLine(t) \/ FinishChange(t)
  PROVE  IInv'
<1>1. TerminalsOK'
  BY DEF IInv, FaultsOK, TerminalsOK, KillReset, SaveLine, FinishChange, HaltLine,
         Reconfigure, RestoreLine, ClearLine, Move, Steps, Kinds
<1>2. FaultsOK'
  BY DEF IInv, FaultsOK, TerminalsOK, KillReset, SaveLine, FinishChange, HaltLine,
         Reconfigure, RestoreLine, ClearLine, ResetFault, Faults
<1>3. TimersOK'
  <2>1. CASE Reconfigure(t)
    <3>1. watchdog' \in BOOLEAN /\ hyperTime' = hyperTime
      BY <2>1 DEF Reconfigure
    <3>2. wdTime' \in {wdTime, WdTime, 0}
      BY <2>1, Zenon DEF Reconfigure
    <3> QED BY <3>1, <3>2, FaultLineAssumption DEF IInv, TimersOK
  <2>2. CASE KillReset(t) \/ SaveLine(t) \/ HaltLine(t) \/ RestoreLine(t) \/ ClearLine(t)
    BY <2>2 DEF IInv, TimersOK, KillReset, SaveLine, HaltLine, RestoreLine, ClearLine, wdVars
  <2> QED BY <2>1, <2>2 DEF FinishChange
<1>4. FeedbackOK' /\ TimerCountsDown'
  <2>1. CASE KillReset(t)
    BY <2>1, ResetFaultKeeps DEF IInv, KillReset
  <2>2. CASE SaveLine(t) \/ FinishChange(t)
    BY <2>2 DEF IInv, FeedbackOK, TimerCountsDown, SaveLine, FinishChange, HaltLine,
                Reconfigure, RestoreLine, ClearLine, fbVars
  <2> QED BY <2>1, <2>2
<1> QED BY <1>1, <1>2, <1>3, <1>4 DEF IInv

-----------------------------------------------------------------------------
\* The countdown holds from the end of the fault task's initialisation on.
THEOREM Invariance == Spec => []IInv
<1>1. Init => IInv
  <2> SUFFICES ASSUME Init PROVE IInv
    OBVIOUS
  <2>1. FeedbackOK /\ TimerCountsDown /\ hyperTime \in 0 .. ResetTime
    BY FaultLineAssumption DEF Init, FeedbackOK, TimerCountsDown
  <2>2. watchdog \in BOOLEAN /\ wdTime \in 0 .. WdTime
    <3>1. watchdog \in BOOLEAN /\ wdTime \in {0, WdTime}
      BY Zenon DEF Init
    <3> QED BY <3>1, FaultLineAssumption
  <2>3. FaultsOK /\ TerminalsOK
    BY DEF Init, FaultsOK, TerminalsOK, Steps
  <2> QED BY <2>1, <2>2, <2>3 DEF IInv, TimersOK
<1>2. IInv /\ [Next]_vars => IInv'
  <2> SUFFICES ASSUME IInv, [Next]_vars PROVE IInv'
    OBVIOUS
  <2>1. CASE FaultLoop
    BY <2>1, FaultLoopStep
  <2>2. CASE ConditionChanges \/ OtherTask \/ \E t \in Terminals : Kill(t)
    BY <2>2, FaultSteps
  <2>3. CASE WatchdogRuns \/ WatchdogExpires \/ WdReset \/ Hypervise
    BY <2>3, WatchdogSteps, HyperviseStep
  <2>4. CASE \E t \in Terminals : KillReset(t) \/ SaveLine(t) \/ FinishChange(t)
    BY <2>4, TerminalSteps
  <2>5. CASE UNCHANGED vars
    BY <2>5 DEF vars, IInv, FaultsOK, FeedbackOK, TimersOK, TerminalsOK, TimerCountsDown
  <2> QED BY <2>1, <2>2, <2>3, <2>4, <2>5 DEF Next
<1> QED BY <1>1, <1>2, PTL DEF Spec

\* TypeOK: the counters and timers keep their ranges (fb_error_timer never wraps).
THEOREM TypeCorrect == Spec => []TypeOK
<1>1. IInv => TypeOK
  BY DEF IInv, FaultsOK, FeedbackOK, TimersOK, TerminalsOK, TypeOK
<1> QED BY <1>1, Invariance, PTL

\* OldErrorsForgiven: a second without a feedback error wipes the count, whatever
\* resets fall between, for every limit and every number of terminals.
THEOREM ErrorsAreForgiven == Spec => []OldErrorsForgiven
<1>1. IInv => OldErrorsForgiven
  BY FaultLineAssumption DEF IInv, TimerCountsDown, OldErrorsForgiven
<1> QED BY <1>1, Invariance, PTL
=============================================================================
