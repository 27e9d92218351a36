SPECIFICATION FairSpec
CONSTANTS
  New = {r1}
  Legacy = {u1}
  Redeemers = {r1}
  Transports = {t1, t2}
  Modes = {"race", "priority"}
  MaxFaults = 3
INVARIANTS
  OneSecret
  CardsAccounted
PROPERTIES
  RegistrationEnds
CHECK_DEADLOCK FALSE
