-------------------------------- MODULE Wait --------------------------------
(***************************************************************************)
(* rmw_wait, called in a loop by an executor, while other threads and       *)
(* processes deliver data and trigger guard conditions.                     *)
(*                                                                         *)
(* Sources are the subscriptions, services and clients: each has a queue,   *)
(* and its attachment to the wait set is to a state, "the queue has data".  *)
(* Guards are the guard conditions, UserTriggers with a flag that           *)
(* rmw_trigger_guard_condition sets and hasTriggered tests and clears.      *)
(*                                                                         *)
(* A call attaches every entity, waits, and then detaches and tests every   *)
(* entity; each of these is a step, between which the others run.           *)
(***************************************************************************)
EXTENDS Integers

CONSTANTS
  Sources,      \* subscriptions, services and clients of the executor
  Guards,       \* its guard conditions
  QueueDepth,   \* elements a source's queue holds
  MaxTriggers,  \* bound on the triggers of one guard condition
  Settings      \* the circumstances an executor may run in

Timeouts == {"finite", "infinite"}

\* Which kind of wait_timeout it passes, whether an attachment may fail, the wait set
\* being full say, whether attachEvent notifies when the flag is already set, and
\* whether other threads take from its sources.
PossibleSettings ==
  [timeouts : SUBSET Timeouts, attachFails : BOOLEAN, attachTests : BOOLEAN,
   takers : BOOLEAN]

WaitAssumption ==
  /\ Sources \cap Guards = {}
  /\ QueueDepth \in Nat \ {0}
  /\ MaxTriggers \in Nat
  /\ Settings \subseteq PossibleSettings

ASSUME WaitAssumption

Entities == Sources \cup Guards

VARIABLES
  setting,   \* the circumstances of this executor
  phase,     \* where the executor's thread is
  timeout,   \* the wait_timeout of the current call
  todo,      \* entities the current loop of rmw_wait has yet to visit
  skipWait,  \* skip_wait
  attached,  \* entities attached to the wait set
  notified,  \* attachments that have notified the wait set
  queued,    \* queued[e]: elements in the queue of source e
  flag,      \* flag[g]: guard g was triggered and not yet found so
  reported,  \* entities the last call left in its arrays, still to be executed
  triggers,  \* triggers[g]: calls of rmw_trigger_guard_condition on g
  reports    \* reports[g]: calls of rmw_wait that reported g

callVars == <<setting, phase, timeout, todo, skipWait>>
vars == <<callVars, attached, notified, queued, flag, reported, triggers, reports>>

Phases ==
  {"idle", "attachSources", "attachGuards", "waiting", "testSources", "testGuards"}
Attaching == {"attachSources", "attachGuards"}

TypeOK ==
  /\ setting \in Settings
  /\ phase \in Phases
  /\ timeout \in Timeouts
  /\ todo \subseteq Entities
  /\ skipWait \in BOOLEAN
  /\ attached \subseteq Entities
  /\ notified \subseteq Entities
  /\ queued \in [Sources -> 0 .. QueueDepth]
  /\ flag \in [Guards -> BOOLEAN]
  /\ reported \subseteq Entities
  /\ triggers \in [Guards -> 0 .. MaxTriggers]
  /\ reports \in [Guards -> 0 .. MaxTriggers]

Init ==
  /\ setting \in Settings
  /\ phase = "idle"
  /\ timeout \in setting.timeouts
  /\ todo = {}
  /\ skipWait = FALSE
  /\ attached = {}
  /\ notified = {}
  /\ queued = [e \in Sources |-> 0]
  /\ flag = [g \in Guards |-> FALSE]
  /\ reported = {}
  /\ triggers = [g \in Guards |-> 0]
  /\ reports = [g \in Guards |-> 0]

-----------------------------------------------------------------------------
(* The other threads and processes.                                         *)

Notify(e) == notified' = IF e \in attached THEN notified \cup {e} ELSE notified

\* A message, request or response arrives; a full queue drops its oldest.
Arrive(e) ==
  /\ queued' = [queued EXCEPT ![e] = IF @ < QueueDepth THEN @ + 1 ELSE @]
  /\ Notify(e)
  /\ UNCHANGED <<callVars, attached, flag, reported, triggers, reports>>

\* rmw_trigger_guard_condition, from any thread at any time.
Trigger(g) ==
  /\ triggers[g] < MaxTriggers
  /\ triggers' = [triggers EXCEPT ![g] = @ + 1]
  /\ flag' = [flag EXCEPT ![g] = TRUE]
  /\ Notify(g)
  /\ UNCHANGED <<callVars, attached, queued, reported, reports>>

\* Another thread of the executor takes an element.
TakenElsewhere(e) ==
  /\ setting.takers
  /\ queued[e] > 0
  /\ queued' = [queued EXCEPT ![e] = @ - 1]
  /\ UNCHANGED <<callVars, attached, notified, flag, reported, triggers, reports>>

-----------------------------------------------------------------------------
(* rmw_wait.                                                                *)

Holds(e) == IF e \in Sources THEN queued[e] > 0 ELSE flag[e]

Goto(p, todoThere) == phase' = p /\ todo' = todoThere

\* The caller dealt with what the last call reported.
Call ==
  /\ phase = "idle" /\ reported = {}
  /\ timeout' \in setting.timeouts
  /\ skipWait' = FALSE
  /\ Goto("attachSources", Sources)
  /\ UNCHANGED <<setting, attached, notified, queued, flag, reported, triggers, reports>>

\* attachState notifies at once when the state already holds.
AttachNotifies(e) == Holds(e) /\ (e \in Sources \/ setting.attachTests)

\* Mutant: an attachment tells only of what happens from now on.
AttachMutantEdge(e) ==
  /\ phase \in Attaching /\ e \in todo
  /\ todo' = todo \ {e}
  /\ attached' = attached \cup {e}
  /\ UNCHANGED <<setting, phase, timeout, skipWait, notified,
                 queued, flag, reported, triggers, reports>>

\* One iteration of an attach loop.
Attach(e) ==
  /\ phase \in Attaching /\ e \in todo
  /\ todo' = todo \ {e}
  /\ attached' = attached \cup {e}
  /\ notified' = IF AttachNotifies(e) THEN notified \cup {e} ELSE notified
  /\ UNCHANGED <<setting, phase, timeout, skipWait,
                 queued, flag, reported, triggers, reports>>

AttachIsRefused(e) ==
  /\ setting.attachFails
  /\ phase \in Attaching /\ e \in todo
  /\ todo' = todo \ {e}
  /\ skipWait' = TRUE
  /\ UNCHANGED <<setting, phase, timeout, attached, notified,
                 queued, flag, reported, triggers, reports>>

SourcesAttached ==
  /\ phase = "attachSources" /\ todo = {}
  /\ Goto("attachGuards", Guards)
  /\ UNCHANGED <<setting, timeout, skipWait, attached, notified,
                 queued, flag, reported, triggers, reports>>

\* Mutant: the wait is entered although an attachment failed.
GuardsAttachedMutantNeverSkips ==
  /\ phase = "attachGuards" /\ todo = {}
  /\ Goto("waiting", {})
  /\ UNCHANGED <<setting, timeout, skipWait, attached, notified,
                 queued, flag, reported, triggers, reports>>

\* Mutant: a failed attachment ends the call.
GuardsAttachedMutantReturns ==
  /\ phase = "attachGuards" /\ todo = {}
  /\ Goto(IF skipWait THEN "idle" ELSE "waiting", {})
  /\ reported' = IF skipWait THEN Entities ELSE reported
  /\ UNCHANGED <<setting, timeout, skipWait, attached, notified,
                 queued, flag, triggers, reports>>

\* After a failed attachment the wait is skipped.
GuardsAttached ==
  /\ phase = "attachGuards" /\ todo = {}
  /\ IF skipWait THEN Goto("testSources", Sources) ELSE Goto("waiting", {})
  /\ UNCHANGED <<setting, timeout, skipWait, attached, notified,
                 queued, flag, reported, triggers, reports>>

Wake ==
  /\ phase = "waiting" /\ notified # {}
  /\ Goto("testSources", Sources)
  /\ UNCHANGED <<setting, timeout, skipWait, attached, notified,
                 queued, flag, reported, triggers, reports>>

TimeOut ==
  /\ phase = "waiting" /\ timeout = "finite"
  /\ Goto("testSources", Sources)
  /\ UNCHANGED <<setting, timeout, skipWait, attached, notified,
                 queued, flag, reported, triggers, reports>>

\* Mutant: what has data is not detached.
DetachMutantOnlyQuiet(e) ==
  /\ attached' = IF Holds(e) THEN attached ELSE attached \ {e}
  /\ notified' = IF Holds(e) THEN notified ELSE notified \ {e}

Detach(e) ==
  /\ attached' = attached \ {e}
  /\ notified' = notified \ {e}

Report(e, yes) == reported' = IF yes THEN reported \cup {e} ELSE reported

\* Mutant: the answer is taken from what notified the wait set.
DetachAndTestSourceMutantNotified(e) ==
  /\ phase = "testSources" /\ e \in todo
  /\ todo' = todo \ {e}
  /\ Detach(e)
  /\ Report(e, e \in notified)
  /\ UNCHANGED <<setting, phase, timeout, skipWait, queued, flag, triggers, reports>>

\* One iteration of a loop over subscriptions, services or clients.
DetachAndTestSource(e) ==
  /\ phase = "testSources" /\ e \in todo
  /\ todo' = todo \ {e}
  /\ Detach(e)
  /\ Report(e, queued[e] > 0)
  /\ UNCHANGED <<setting, phase, timeout, skipWait, queued, flag, triggers, reports>>

SourcesTested ==
  /\ phase = "testSources" /\ todo = {}
  /\ Goto("testGuards", Guards)
  /\ UNCHANGED <<setting, timeout, skipWait, attached, notified,
                 queued, flag, reported, triggers, reports>>

Count(g) == reports' = IF flag[g] THEN [reports EXCEPT ![g] = @ + 1] ELSE reports

\* Mutant: the test does not clear the flag.
DetachAndTestGuardMutantKeepsFlag(g) ==
  /\ phase = "testGuards" /\ g \in todo
  /\ todo' = todo \ {g}
  /\ Detach(g)
  /\ Report(g, flag[g]) /\ Count(g)
  /\ UNCHANGED <<setting, phase, timeout, skipWait, queued, flag, triggers>>

\* hasTriggered reads and clears the flag in one step.
DetachAndTestGuard(g) ==
  /\ phase = "testGuards" /\ g \in todo
  /\ todo' = todo \ {g}
  /\ Detach(g)
  /\ Report(g, flag[g]) /\ Count(g)
  /\ flag' = [flag EXCEPT ![g] = FALSE]
  /\ UNCHANGED <<setting, phase, timeout, skipWait, queued, triggers>>

\* RMW_RET_OK, whether anything was found or not.
Return ==
  /\ phase = "testGuards" /\ todo = {}
  /\ Goto("idle", {})
  /\ UNCHANGED <<setting, timeout, skipWait, attached, notified,
                 queued, flag, reported, triggers, reports>>

-----------------------------------------------------------------------------
(* The executor deals with what was reported: it takes one element of a     *)
(* source, if no other thread was faster, and runs a guard's callback.      *)

Execute(e) ==
  /\ phase = "idle" /\ e \in reported
  /\ reported' = reported \ {e}
  /\ queued' = IF e \in Sources /\ queued[e] > 0
                 THEN [queued EXCEPT ![e] = @ - 1] ELSE queued
  /\ UNCHANGED <<callVars, attached, notified, flag, triggers, reports>>

Waits ==
  \/ Call
  \/ \E e \in Entities : Attach(e) \/ AttachIsRefused(e)
  \/ SourcesAttached
  \/ GuardsAttached
  \/ Wake
  \/ TimeOut
  \/ \E e \in Sources : DetachAndTestSource(e)
  \/ SourcesTested
  \/ \E g \in Guards : DetachAndTestGuard(g)
  \/ Return

Executor == Waits \/ \E e \in Entities : Execute(e)

Next ==
  \/ Executor
  \/ \E e \in Sources : Arrive(e) \/ TakenElsewhere(e)
  \/ \E g \in Guards : Trigger(g)

Spec == Init /\ [][Next]_vars

\* The executor's thread runs, its timeouts expire, and spinning it calls
\* rmw_wait again; nothing is assumed of the other threads.
FairSpec == Spec /\ WF_vars(Executor)

-----------------------------------------------------------------------------
(* Properties.                                                              *)

\* No wakeup is lost: while the executor sleeps in rmw_wait and nothing has
\* notified its wait set, no source has data and no guard is triggered, whenever
\* the data or the trigger came, before, between or after the attachments.  (If
\* attachEvent does not test the flag, a trigger may have come before.)
NoLostWakeup ==
  phase = "waiting" /\ notified = {} =>
    \A e \in Entities : Holds(e) => e \in Guards /\ ~setting.attachTests

\* rmw_wait leaves no attachment behind on any path through it, so the entities
\* may be given to another wait set in the next call.
NothingLeftAttached ==
  /\ phase = "idle" => attached = {} /\ notified = {}
  /\ phase \in {"testSources", "testGuards"} => attached \subseteq todo \cup Guards
  /\ phase = "testGuards" => attached \subseteq todo

\* What rmw_wait leaves in the arrays of subscriptions, services and clients has
\* data for the take that follows, however long ago it was tested, if no other
\* thread takes it.
ReportedHasData ==
  ~setting.takers => \A e \in reported \cap Sources : queued[e] > 0

\* A guard is reported at most once for each time it was triggered, also when a
\* trigger comes while rmw_wait is between detaching it and returning.
ReportsAreTriggered ==
  \A g \in Guards : reports[g] + (IF flag[g] THEN 1 ELSE 0) <= triggers[g]

\* Data that arrives while the executor executes, attaches, sleeps or tests is
\* reported by some call of rmw_wait, or taken.
DataIsReported ==
  \A e \in Sources : queued[e] > 0 ~> e \in reported \/ queued[e] = 0

\* rmw_wait sleeps without a timeout, its wait set not notified, on guards whose
\* attachment does not tell of a trigger that came before it.
SleepsPastTriggers ==
  /\ ~setting.attachTests
  /\ timeout = "infinite"
  /\ phase = "waiting" /\ notified = {}

\* A guard condition that is triggered is reported by a later return of rmw_wait,
\* with one exception: if attachEvent does not test the flag, a trigger that comes
\* while the guard is detached, between two calls or between the test and the next
\* attachment, may leave rmw_wait asleep, without a timeout, until something else
\* notifies the wait set, and for ever if nothing does.
TriggerIsReported ==
  \A g \in Guards : flag[g] ~> g \in reported \/ []SleepsPastTriggers
=============================================================================
