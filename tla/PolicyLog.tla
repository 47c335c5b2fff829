------------------------------ MODULE PolicyLog ------------------------------
(***************************************************************************)
(* What the control plane promises about the policy of one application,    *)
(* seen from outside: a version number, the policy in force at that        *)
(* version (Casbin rules and data policies) and the log of deltas that     *)
(* were published on the way.  The policy only ever changes by publishing  *)
(* the delta of the very next version, and a delta says exactly what       *)
(* changed: it adds no rule that was there and removes none that was not.  *)
(*                                                                         *)
(* PolicyManager is shown to implement this specification.                 *)
(***************************************************************************)
EXTENDS Naturals, Sequences

CONSTANTS Rule,      \* the Casbin rules that may be in force
          DataId,    \* the row ids of data policies
          DataBody,  \* what a data policy says
          Absent     \* no such row

VARIABLES version, rules, data, log

vars == <<version, rules, data, log>>

(***************************************************************************)
(* A delta: the rules it adds and removes, and for the data policies it    *)
(* touches what they say from now on (Absent: removed).                    *)
(***************************************************************************)
DataChange == UNION {[S -> DataBody \cup {Absent}] : S \in SUBSET DataId}

Delta == [version : Nat, adds : SUBSET Rule, removes : SUBSET Rule,
          data : DataChange]

ApplyRules(R, d) == (R \ d.removes) \cup d.adds

ApplyData(D, d) ==
  [i \in DataId |-> IF i \in DOMAIN d.data THEN d.data[i] ELSE D[i]]

Init ==
  /\ version = 0
  /\ rules = {}
  /\ data = [i \in DataId |-> Absent]
  /\ log = << >>

Publish(d) ==
  /\ d \in Delta
  /\ d.version = version + 1
  /\ d.adds \cap rules = {}
  /\ d.removes \subseteq rules
  /\ version' = d.version
  /\ rules' = ApplyRules(rules, d)
  /\ data' = ApplyData(data, d)
  /\ log' = Append(log, d)

(***************************************************************************)
(* The published delta is the one that was appended to the log.            *)
(***************************************************************************)
Next == Len(log') = Len(log) + 1 /\ Publish(log'[Len(log')])

Spec == Init /\ [][Next]_vars
=============================================================================
