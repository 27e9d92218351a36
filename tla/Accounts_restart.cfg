SPECIFICATION FairSpec
CONSTANTS
  New = {r1}
  Legacy = {}
  Redeemers = {}
  Transports = {t1, t2}
  Modes = {"race", "priority"}
  MaxFaults = 0
PROPERTY RegistrationRestarts
CHECK_DEADLOCK FALSE
