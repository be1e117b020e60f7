SPECIFICATION RecordsSpec
CONSTANTS
  Tx = {t1, t2, t3}
  user = user
  order = order
  Key = {user, order, cart}
  Rows = {user, order}
  Nobody = Nobody
  MaxSnapshots = 2
  Rewinders = {t1}
  References <- MCReferences
SYMMETRY TxSymmetry
INVARIANT ForeignKeysHold
INVARIANT RecordsInv
INVARIANT StoreInv
PROPERTY NoLostUpdate
PROPERTY NoSpuriousConflict
