-------------------------- MODULE MCScanCoordination --------------------------
(***************************************************************************)
(* Two instants.  A policy is due at both; at the first, which is shown    *)
(* twice; at the second, whose wall time follows one the clocks skip; or   *)
(* never (a MANUAL policy).  The clocks of one zone are not known.         *)
(*                                                                         *)
(* Either the other policy is disabled for good, and two schedulers and    *)
(* two agents work on one policy (the second begins when its clocks are    *)
(* regular); or it is enabled for good, fails in every cycle, and one      *)
(* scheduler and one agent work on both.                                   *)
(***************************************************************************)
EXTENDS ScanCoordination, TLC

CONSTANTS other, secondScheduler, secondAgent,
          MaxEvents  \* bound on troubles and changes together

\* What the clocks show at 0, 1 and 2.
Clocks(w0, w1, w2) == [t \in Moment |-> IF t = 0 THEN w0 ELSE IF t = 1 THEN w1 ELSE w2]

Regular == Clocks(0, 1, 2)

FallsBack == Clocks(0, 1, 1)

SpringsForward == Clocks(0, 2, 3)

EveryInstant == [slots |-> {1, 2}, wall |-> Regular]

UnknownZone == [slots |-> {1, 2}, wall |-> Clocks(1, 2, 3)]

TwoSchedules == {EveryInstant, UnknownZone}

AllSchedules ==
  TwoSchedules \cup
  { [slots |-> {1, 4}, wall |-> FallsBack],
    [slots |-> {1, 3}, wall |-> SpringsForward],
    [slots |-> {}, wall |-> Regular] }

UnknownZones == {UnknownZone}

MCInit ==
  /\ Init
  /\ IF enabled[other]
     THEN \A p \in Policy \ {other} : schedule[p] = EveryInstant /\ enabled[p]
     ELSE schedule[other] = EveryInstant /\ \A p \in Policy \ {other} : schedule[p] # UnknownZone
  /\ schedule[other] \in TwoSchedules

AtStart(s) == phase[s] = "initialise" /\ attempts[s] = 0

(* Idle schedulers are interchangeable, and so are idle agents: the second *)
(* begins when the other is busy.                                          *)
SecondMayBegin ==
  /\ \A p \in Policy : schedule[p] = EveryInstant
  /\ ~enabled[other]

MCStep ==
  /\ enabled'[other] = enabled[other]
  /\ schedule'[other] = schedule[other]
  /\ troubles' + changes' <= MaxEvents
  /\ AtStart(secondScheduler) /\ ~AtStart(secondScheduler)' =>
       SecondMayBegin /\ \E s \in Scheduler \ {secondScheduler} : ~AtStart(s)
  /\ pc[secondAgent] = "idle" /\ pc'[secondAgent] # "idle" =>
       SecondMayBegin /\ \A a \in Agent \ {secondAgent} : pc[a] # "idle"

MCSpec ==
  /\ MCInit /\ [][Next /\ MCStep]_vars
  /\ \A s \in Scheduler : WF_vars((s = secondScheduler => ~AtStart(s)) /\ SchedulerStep(s))

=============================================================================
