CONSTANTS
  g = g
  a1 = a1
  a2 = a2
  a3 = a3
  b1 = b1
  b2 = b2
  c2 = c2
  c3 = c3
  z = z
  NoBlock = NoBlock
  Blocks = {g, a1, a2, a3, b1, b2, c2, c3, z}
  Parent <- MCParent
  KeepDepths = {1, 2}
  k1 = k1
  k2 = k2
  k3 = k3
  k4 = k4
  ta = ta
  tb = tb
  tc = tc
  td = td
  te = te
  tf = tf
  tg = tg
  Txns = {ta, tb, tc, td, te, tf, tg}
  Coins = {k1, k2, k3, k4}
  Inputs <- MCInputs
  Capacity = 3
  Messages = {m1, m2, m3}
  MaxStarts = 2
SPECIFICATION ComponentsSpec
INVARIANTS TreeConnected TipHeaviest TrimmedForGood NoDoubleSpend SpentIsExact QuietAfterStop
PROPERTIES TipOnlyGainsWeight TrimKeepsWindow AgesKept ImplementsMailbox PostedIsHandled
CHECK_DEADLOCK FALSE
