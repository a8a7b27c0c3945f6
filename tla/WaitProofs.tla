----------------------------- MODULE WaitProofs -----------------------------
(***************************************************************************)
(* What rmw_wait guarantees for any number of entities, threads and calls.  *)
(***************************************************************************)
EXTENDS Wait, TLAPS

-----------------------------------------------------------------------------
(* The inductive invariant.                                                 *)

\* What the current loop still has to visit.
LoopBounds ==
  /\ phase \in {"attachSources", "testSources"} => todo \subseteq Sources
  /\ phase \in {"attachGuards", "testGuards"} => todo \subseteq Guards
  /\ phase \in {"idle", "waiting"} => todo = {}

\* What is attached in each phase, when no attachment was refused.
AttachedSoFar ==
  /\ phase = "attachSources" /\ ~skipWait => attached = Sources \ todo
  /\ phase = "attachGuards" /\ ~skipWait => attached = Entities \ todo
  /\ phase = "waiting" => attached = Entities

\* Every attached entity that has something to tell has told the wait set.
Armed ==
  /\ notified \subseteq attached
  /\ \A e \in attached : AttachNotifies(e) => e \in notified

WaitInv ==
  /\ TypeOK
  /\ LoopBounds
  /\ AttachedSoFar
  /\ Armed
  /\ NothingLeftAttached
  /\ ReportsAreTriggered

\* At first nothing is attached.
LEMMA InitWaitInv == Init => WaitInv
<1> SUFFICES ASSUME Init PROVE WaitInv
  OBVIOUS
<1> USE DEF Init
<1>1. TypeOK
  <2>1. /\ setting \in Settings
        /\ phase \in Phases
        /\ timeout \in Timeouts
        /\ skipWait \in BOOLEAN
        /\ todo \subseteq Entities /\ attached \subseteq Entities
        /\ notified \subseteq Entities /\ reported \subseteq Entities
    BY WaitAssumption DEF WaitAssumption, PossibleSettings, Phases
  <2>2. /\ queued \in [Sources -> 0 .. QueueDepth]
        /\ triggers \in [Guards -> 0 .. MaxTriggers]
        /\ reports \in [Guards -> 0 .. MaxTriggers]
    BY WaitAssumption DEF WaitAssumption
  <2>3. flag \in [Guards -> BOOLEAN]
    OBVIOUS
  <2> QED BY <2>1, <2>2, <2>3 DEF TypeOK
<1>2. LoopBounds /\ AttachedSoFar /\ Armed /\ NothingLeftAttached
  BY DEF LoopBounds, AttachedSoFar, Armed, NothingLeftAttached
<1>3. ReportsAreTriggered
  BY DEF ReportsAreTriggered
<1> QED BY <1>1, <1>2, <1>3 DEF WaitInv

-----------------------------------------------------------------------------
(* Steps of the other threads.                                              *)

\* Data that arrives at an attached source notifies.
LEMMA ArriveWaitInv ==
  ASSUME WaitInv, NEW e \in Sources, Arrive(e)
  PROVE  WaitInv'
<1> USE DEF WaitInv, Arrive, Notify, callVars
<1>1. TypeOK'
  BY WaitAssumption DEF WaitAssumption, TypeOK, Entities
<1>2. (LoopBounds /\ AttachedSoFar /\ NothingLeftAttached /\ ReportsAreTriggered)'
  BY WaitAssumption
  DEF WaitAssumption, TypeOK, LoopBounds, AttachedSoFar, NothingLeftAttached, Armed,
      ReportsAreTriggered
<1>3. Armed'
  BY WaitAssumption
  DEF WaitAssumption, TypeOK, Armed, AttachNotifies, Holds, Entities
<1> QED BY <1>1, <1>2, <1>3

\* A trigger of an attached guard notifies.
LEMMA TriggerWaitInv ==
  ASSUME WaitInv, NEW g \in Guards, Trigger(g)
  PROVE  WaitInv'
<1> USE DEF WaitInv, Trigger, Notify, callVars
<1>1. TypeOK'
  BY WaitAssumption DEF WaitAssumption, TypeOK, Entities
<1>2. (LoopBounds /\ AttachedSoFar /\ NothingLeftAttached)'
  BY DEF LoopBounds, AttachedSoFar, NothingLeftAttached, Armed
<1>3. ReportsAreTriggered'
  BY WaitAssumption DEF WaitAssumption, TypeOK, ReportsAreTriggered
<1>4. Armed'
  BY WaitAssumption
  DEF WaitAssumption, TypeOK, Armed, AttachNotifies, Holds, Entities
<1> QED BY <1>1, <1>2, <1>3, <1>4

\* What another thread takes leaves less to wake up for.
LEMMA TakenElsewhereWaitInv ==
  ASSUME WaitInv, NEW e \in Sources, TakenElsewhere(e)
  PROVE  WaitInv'
<1> USE DEF WaitInv, TakenElsewhere, callVars
<1>1. TypeOK'
  BY WaitAssumption DEF WaitAssumption, TypeOK
<1>2. (LoopBounds /\ AttachedSoFar /\ NothingLeftAttached /\ ReportsAreTriggered)'
  BY DEF LoopBounds, AttachedSoFar, NothingLeftAttached, ReportsAreTriggered
<1>3. Armed'
  BY WaitAssumption
  DEF WaitAssumption, TypeOK, Armed, AttachNotifies, Holds, Entities
<1> QED BY <1>1, <1>2, <1>3

\* What the executor works off between two calls.
LEMMA ExecuteWaitInv ==
  ASSUME WaitInv, NEW e \in Entities, Execute(e)
  PROVE  WaitInv'
<1> USE DEF WaitInv, Execute, callVars
<1>1. TypeOK'
  BY WaitAssumption DEF WaitAssumption, TypeOK
<1>2. (LoopBounds /\ AttachedSoFar /\ NothingLeftAttached /\ ReportsAreTriggered)'
  BY DEF LoopBounds, AttachedSoFar, NothingLeftAttached, ReportsAreTriggered
<1>3. Armed'
  BY DEF NothingLeftAttached, Armed
<1> QED BY <1>1, <1>2, <1>3

-----------------------------------------------------------------------------
(* Steps of rmw_wait that touch one entity.                                 *)

\* An attachment notifies of what is there already.
LEMMA AttachWaitInv ==
  ASSUME WaitInv, NEW e \in Entities, Attach(e)
  PROVE  WaitInv'
<1> USE DEF WaitInv, Attach
<1>1. TypeOK'
  BY DEF TypeOK
<1>2. (LoopBounds /\ NothingLeftAttached /\ ReportsAreTriggered)'
  BY DEF Attaching, LoopBounds, NothingLeftAttached, ReportsAreTriggered
<1>3. AttachedSoFar'
  BY DEF Attaching, LoopBounds, AttachedSoFar, Entities
<1>4. Armed'
  BY DEF Armed, AttachNotifies, Holds
<1> QED BY <1>1, <1>2, <1>3, <1>4

\* An attachment that is refused makes the call skip its wait.
LEMMA AttachIsRefusedWaitInv ==
  ASSUME WaitInv, NEW e \in Entities, AttachIsRefused(e)
  PROVE  WaitInv'
<1> USE DEF WaitInv, AttachIsRefused
<1>1. TypeOK'
  BY DEF TypeOK
<1>2. (LoopBounds /\ AttachedSoFar /\ NothingLeftAttached /\ ReportsAreTriggered)'
  BY DEF Attaching, LoopBounds, AttachedSoFar, NothingLeftAttached, ReportsAreTriggered
<1>3. Armed'
  BY DEF Armed, AttachNotifies, Holds
<1> QED BY <1>1, <1>2, <1>3

\* A source is tested when it is detached.
LEMMA DetachAndTestSourceWaitInv ==
  ASSUME WaitInv, NEW e \in Sources, DetachAndTestSource(e)
  PROVE  WaitInv'
<1> USE DEF WaitInv, DetachAndTestSource, Detach, Report
<1>1. TypeOK'
  BY DEF TypeOK, Entities
<1>2. (LoopBounds /\ AttachedSoFar /\ NothingLeftAttached /\ ReportsAreTriggered)'
  BY DEF LoopBounds, AttachedSoFar, NothingLeftAttached, ReportsAreTriggered
<1>3. Armed'
  BY DEF Armed, AttachNotifies, Holds
<1> QED BY <1>1, <1>2, <1>3

\* The flag is counted as a report and cleared in the same step.
LEMMA DetachAndTestGuardWaitInv ==
  ASSUME WaitInv, NEW g \in Guards, DetachAndTestGuard(g)
  PROVE  WaitInv'
<1> USE DEF WaitInv, DetachAndTestGuard, Detach, Report, Count
<1>1. ReportsAreTriggered'
  BY WaitAssumption DEF WaitAssumption, TypeOK, ReportsAreTriggered
<1>2. reports' \in [Guards -> 0 .. MaxTriggers]
  BY WaitAssumption DEF WaitAssumption, TypeOK, ReportsAreTriggered
<1>3. TypeOK'
  BY <1>2 DEF TypeOK, Entities
<1>4. (LoopBounds /\ AttachedSoFar /\ NothingLeftAttached)'
  BY DEF LoopBounds, AttachedSoFar, NothingLeftAttached
<1>5. Armed'
  BY DEF Armed, AttachNotifies, Holds, TypeOK
<1> QED BY <1>1, <1>3, <1>4, <1>5

-----------------------------------------------------------------------------
(* Steps of rmw_wait from one loop to the next.                             *)

\* They change the control state alone.
Control ==
  \/ Call \/ SourcesAttached \/ GuardsAttached \/ Wake \/ TimeOut
  \/ SourcesTested \/ Return

\* The steps of the call between its loops.
LEMMA ControlWaitInv ==
  ASSUME WaitInv, Control
  PROVE  WaitInv'
<1> USE DEF WaitInv, Control, Call, SourcesAttached, GuardsAttached, Wake, TimeOut,
            SourcesTested, Return, Goto
<1>1. UNCHANGED <<setting, attached, notified, queued, flag, reported, triggers,
                   reports>>
  OBVIOUS
<1>2. TypeOK'
  <2>1. /\ phase' \in Phases
        /\ timeout' \in Timeouts
        /\ skipWait' \in BOOLEAN
    BY WaitAssumption DEF WaitAssumption, PossibleSettings, TypeOK, Phases
  <2>2. todo' \subseteq Entities
    BY DEF Entities
  <2> QED BY <1>1, <2>1, <2>2 DEF TypeOK
<1>3. (Armed /\ ReportsAreTriggered)'
  BY <1>1 DEF Armed, AttachNotifies, Holds, ReportsAreTriggered
<1>4. LoopBounds'
  BY DEF LoopBounds
<1>5. AttachedSoFar'
  <2>1. Entities \ Guards = Sources /\ Entities \ {} = Entities
    BY WaitAssumption DEF WaitAssumption, Entities
  <2> QED BY <2>1 DEF AttachedSoFar, NothingLeftAttached
<1>6. NothingLeftAttached'
  BY DEF NothingLeftAttached, Armed, TypeOK, Entities
<1> QED BY <1>2, <1>3, <1>4, <1>5, <1>6

-----------------------------------------------------------------------------
\* Every step preserves the invariant.
LEMMA StepWaitInv == WaitInv /\ [Next]_vars => WaitInv'
<1> SUFFICES ASSUME WaitInv, [Next]_vars PROVE WaitInv'
  OBVIOUS
<1>1. CASE UNCHANGED vars
  BY <1>1
  DEF vars, callVars, WaitInv, TypeOK, LoopBounds, AttachedSoFar, Armed, AttachNotifies,
      Holds, NothingLeftAttached, ReportsAreTriggered
<1>2. CASE Control
  BY <1>2, ControlWaitInv
<1>3. CASE \E e \in Entities : Attach(e) \/ AttachIsRefused(e)
  BY <1>3, AttachWaitInv, AttachIsRefusedWaitInv
<1>4. CASE \E e \in Sources : DetachAndTestSource(e)
  BY <1>4, DetachAndTestSourceWaitInv
<1>5. CASE \E g \in Guards : DetachAndTestGuard(g)
  BY <1>5, DetachAndTestGuardWaitInv
<1>6. CASE \E e \in Entities : Execute(e)
  BY <1>6, ExecuteWaitInv
<1>7. CASE \E e \in Sources : Arrive(e) \/ TakenElsewhere(e)
  BY <1>7, ArriveWaitInv, TakenElsewhereWaitInv
<1>8. CASE \E g \in Guards : Trigger(g)
  BY <1>8, TriggerWaitInv
<1> QED
  BY <1>1, <1>2, <1>3, <1>4, <1>5, <1>6, <1>7, <1>8 DEF Next, Executor, Waits, Control

\* The invariant holds in every state.
LEMMA AlwaysWaitInv == Spec => []WaitInv
<1>1. Init => WaitInv
  BY InitWaitInv
<1>2. WaitInv /\ [Next]_vars => WaitInv'
  BY StepWaitInv
<1> QED BY <1>1, <1>2, PTL DEF Spec

-----------------------------------------------------------------------------
\* The type invariant of rmw_wait, whose bound on the reports of a guard holds
\* because a test that finds the flag set clears it.
THEOREM WaitTypeCorrect == Spec => []TypeOK
<1>1. WaitInv => TypeOK
  BY DEF WaitInv
<1> QED BY <1>1, AlwaysWaitInv, PTL

\* The executor never sleeps over data that nobody will tell it of, nor over a
\* trigger when attachEvent notices a flag that is already set.
THEOREM WakeupsNotLost == Spec => []NoLostWakeup
<1>1. WaitInv => NoLostWakeup
  <2> SUFFICES ASSUME WaitInv, phase = "waiting", notified = {},
                      NEW e \in Entities, Holds(e)
               PROVE  e \in Guards /\ ~setting.attachTests
    BY DEF NoLostWakeup
  <2>1. ~AttachNotifies(e)
    BY DEF WaitInv, Armed, AttachedSoFar
  <2> QED BY <2>1 DEF AttachNotifies, Entities
<1> QED BY <1>1, AlwaysWaitInv, PTL

\* rmw_wait detaches all it attached, on every path.
THEOREM AllDetached == Spec => []NothingLeftAttached
<1>1. WaitInv => NothingLeftAttached
  BY DEF WaitInv
<1> QED BY <1>1, AlwaysWaitInv, PTL

\* A guard condition is reported at most as often as it is triggered.
THEOREM ReportsTriggered == Spec => []ReportsAreTriggered
<1>1. WaitInv => ReportsAreTriggered
  BY DEF WaitInv
<1> QED BY <1>1, AlwaysWaitInv, PTL

\* Without threads that take, what was reported stays there until it is executed.
LEMMA StepReportedHasData ==
  TypeOK /\ ReportedHasData /\ [Next]_vars => ReportedHasData'
<1> SUFFICES ASSUME TypeOK, ReportedHasData, [Next]_vars PROVE ReportedHasData'
  OBVIOUS
<1> USE DEF ReportedHasData
<1>1. CASE UNCHANGED vars
  BY <1>1 DEF vars, callVars
<1>2. CASE Control
  BY <1>2
  DEF Control, Call, SourcesAttached, GuardsAttached, Wake, TimeOut, SourcesTested, Return
<1>3. CASE \E e \in Entities : Attach(e) \/ AttachIsRefused(e)
  BY <1>3 DEF Attach, AttachIsRefused
<1>4. CASE \E e \in Sources : DetachAndTestSource(e)
  BY <1>4 DEF DetachAndTestSource, Report
<1>5. CASE \E g \in Guards : DetachAndTestGuard(g)
  BY <1>5, WaitAssumption DEF WaitAssumption, DetachAndTestGuard, Report
<1>6. CASE \E e \in Entities : Execute(e)
  BY <1>6 DEF Execute, TypeOK, callVars
<1>7. CASE \E e \in Sources : Arrive(e) \/ TakenElsewhere(e)
  BY <1>7, WaitAssumption DEF WaitAssumption, Arrive, TakenElsewhere, TypeOK, callVars
<1>8. CASE \E g \in Guards : Trigger(g)
  BY <1>8 DEF Trigger, callVars
<1> QED
  BY <1>1, <1>2, <1>3, <1>4, <1>5, <1>6, <1>7, <1>8 DEF Next, Executor, Waits, Control

\* What rmw_wait reports of subscriptions, services and clients is still there when the
\* application takes it, if no other thread takes.
THEOREM ReportsHoldData == Spec => []ReportedHasData
<1>1. Init => ReportedHasData
  BY DEF Init, ReportedHasData
<1>2. ReportedHasData /\ WaitInv /\ [Next]_vars => ReportedHasData'
  BY StepReportedHasData DEF WaitInv
<1> QED BY <1>1, <1>2, AlwaysWaitInv, PTL DEF Spec
=============================================================================
