------------------------- MODULE MCAutoCoordinator -------------------------
(* Scenarios for TLC: a first boot with the budgets that go with it.  Most *)
(* of what can go wrong needs one live slot; Both is for the gate.         *)
EXTENDS AutoCoordinator

Mixed == [s \in Slots |-> IF s = "ble" THEN "target" ELSE "old"]
AnyWifi == {[Mixed EXCEPT !["wifi"] = v] : v \in {"old", "legacy", "target", "ahead", "alien"}}
Both == [boot |-> "staged", mask |-> Slots, versions |-> {[s \in Slots |-> "old"]},
         crashes |-> 0, faults |-> 0, lapses |-> 0, stages |-> 0, swaps |-> 0,
         preempts |-> 0]
One == [Both EXCEPT !.mask = {"wifi"}, !.versions = {Mixed}]

SafetyScenarios ==
    { Both,
      [One EXCEPT !.crashes = 1, !.faults = 1],
      [One EXCEPT !.lapses = 1, !.swaps = 1],
      [One EXCEPT !.versions = AnyWifi, !.preempts = 1],
      [One EXCEPT !.boot = "empty", !.stages = 1, !.faults = 1],
      [One EXCEPT !.stages = 1, !.crashes = 1],
      [Both EXCEPT !.boot = "schema2", !.crashes = 1],
      [Both EXCEPT !.boot = "journal", !.versions = {Mixed}, !.faults = 1] }
EndScenarios ==
    { [One EXCEPT !.faults = 1], [One EXCEPT !.swaps = 1],
      [One EXCEPT !.versions = AnyWifi, !.preempts = 1],
      [Both EXCEPT !.versions = {Mixed}] }
SilentScenarios == {Both}
=============================================================================
