CONSTANTS
  Togglers = {t1, t2}
  Pollers = {swarm, other}
  Prober = swarm
  Retries = 3
  MaxToggles = 4
SPECIFICATION FairSpec
INVARIANTS TypeOK SoloToggle
PROPERTIES GaugeConverges Recovers
