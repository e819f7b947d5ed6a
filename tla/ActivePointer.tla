---------------------------- MODULE ActivePointer ---------------------------
(***************************************************************************)
(* The active estimator of one purpose scope (core/estimator/pg.go). A     *)
(* switch is a transaction of its caller: the lock of the scope, the read  *)
(* of the active run, its retirement and the insert of the new run. Its    *)
(* time is given, or drawn before the lock.                                *)
(***************************************************************************)
EXTENDS Integers, Sequences, FiniteSets

CONSTANTS NONE, Switchers, Versions, MaxMoment, MaxSwitches

VARIABLES
  moment,
  estimators,  \* estimator_run rows in commit order: [version, at, retired, was]
  switch       \* caller -> its transaction
pointer == <<moment, estimators, switch>>

(* A row keeps in "was" what it replaced, which the table does not. *)
Rest == [at |-> "idle", version |-> NONE, time |-> NONE, seen |-> NONE, reply |-> NONE]
Init ==
  /\ moment = 0 /\ estimators = <<>>
  /\ switch = [c \in Switchers |-> Rest]

Active == {i \in DOMAIN estimators : estimators[i].retired = NONE}
Current == IF Active = {} THEN NONE ELSE estimators[CHOOSE i \in Active : TRUE].version

(* The unique key of a run, whatever became of it since. *)
OnFile(version, time) == \E i \in DOMAIN estimators : estimators[i].version = version /\ estimators[i].at = time

(* The time of a switch is drawn now, or given by the caller (SetInput).   *)
Begin(c, version) ==
  /\ switch[c].at \in {"idle", "told"} /\ Len(estimators) < MaxSwitches
  /\ \E t \in 0..moment :
       switch' = [switch EXCEPT ![c] = [Rest EXCEPT !.at = "begun", !.version = version, !.time = t]]
  /\ UNCHANGED <<moment, estimators>>

\* Mutation: LockEstimatorScope is not called.
FreeAlways(c) == TRUE

(* The advisory lock, which its holder keeps until the transaction ends.   *)
Free(c) == \A d \in Switchers \ {c} : switch[d].at # "locked"

(* SetActive from the lock to the insert. A version that is active already *)
(* is left alone. A violated key aborts the transaction.                   *)
Switch(c) ==
  /\ switch[c].at = "begun" /\ Free(c)
  /\ \/ /\ switch[c].version # Current /\ OnFile(switch[c].version, switch[c].time)
        /\ switch' = [switch EXCEPT ![c].at = "told", ![c].reply = "conflict"]
     \/ /\ switch[c].version = Current \/ ~OnFile(switch[c].version, switch[c].time)
        /\ switch' = [switch EXCEPT ![c].at = "locked", ![c].seen = Current]
  /\ UNCHANGED <<moment, estimators>>

(* The caller commits. Had another switch come between, the retirement     *)
(* would find no row and the index of active runs refuse the new one.      *)
Retired(time) == [i \in DOMAIN estimators |-> IF i \in Active THEN [estimators[i] EXCEPT !.retired = time] ELSE estimators[i]]
Commit(c) ==
  /\ switch[c].at = "locked"
  /\ \/ /\ switch[c].seen = switch[c].version
        /\ switch' = [switch EXCEPT ![c].at = "told", ![c].reply = "same"]
        /\ UNCHANGED estimators
     \/ /\ switch[c].seen # switch[c].version /\ switch[c].seen = Current
        /\ estimators' = Append(Retired(switch[c].time),
             [version |-> switch[c].version, at |-> switch[c].time, retired |-> NONE, was |-> Current])
        /\ switch' = [switch EXCEPT ![c].at = "told", ![c].reply = "switched"]
     \/ /\ switch[c].seen # switch[c].version /\ switch[c].seen # Current
        /\ switch' = [switch EXCEPT ![c].at = "told", ![c].reply = "conflict"]
        /\ UNCHANGED estimators
  /\ UNCHANGED moment

(* The caller rolls back, or its connection is lost. *)
Abort(c) ==
  /\ switch[c].at \in {"begun", "locked"}
  /\ switch' = [switch EXCEPT ![c] = Rest]
  /\ UNCHANGED <<moment, estimators>>

Tick == moment < MaxMoment /\ moment' = moment + 1 /\ UNCHANGED <<estimators, switch>>

Next ==
  \/ Tick
  \/ \E c \in Switchers :
       (\E version \in Versions : Begin(c, version)) \/ Switch(c) \/ Commit(c) \/ Abort(c)

-----------------------------------------------------------------------------
(* One run is active, the one that was switched to last; no switch was from*)
(* a version to itself; and as pointer.go says, the index of active runs   *)
(* never has to refuse one: a conflict is about the same version and time. *)
PointerExact ==
  /\ \A i \in DOMAIN estimators : i \in Active <=> i = Len(estimators)
  /\ \A i \in 2..Len(estimators) :
       estimators[i].was = estimators[i - 1].version /\ estimators[i].was # estimators[i].version
  /\ \A c \in Switchers : switch[c].reply = "conflict" => OnFile(switch[c].version, switch[c].time)
=============================================================================
