---------------------------- MODULE MCKillSwitch ----------------------------
(* KillSwitch under every shape of RiskConfig: the permanent latch, each      *)
(* recovery knob alone, both, and the daily-loss breaker with and without.    *)
EXTENDS KillSwitch

Shape(dd, daily, cool, rec) ==
  [maxDrawdown |-> dd, maxDailyLoss |-> daily, cooldown |-> cool, recovery |-> rec]

MCConfigs ==
  { Shape(20, None, None, None), Shape(20, None, 2, None), Shape(20, None, 3, None),
    Shape(20, None, None, 10),   Shape(20, None, None, 0), Shape(40, None, 3, 20),
    Shape(40, 20, None, 25),     Shape(100, 30, 1, None) }

MCEquities == {0, 60, 80, 90, 100}
=============================================================================
