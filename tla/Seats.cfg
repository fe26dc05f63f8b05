SPECIFICATION SeatsSpec
CONSTANTS
  AccessCodes = {c1, c2}
  Contracts = {k1}
  Users = {u1, u2, u3}
  Transactions = {t1, t2}
  MaxUses = 2
  Capacities = {0, 1}
  Others = 1
SYMMETRY Symmetry
INVARIANTS
  WithinCapacity
  RowsAgree
