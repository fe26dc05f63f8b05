SPECIFICATION ReportSpec
CONSTANTS
  Parents = {1, 2, 3, 4}
  Reportable = {1, 3}
  ReportWorkers = {w1, w2}
  PageSize = 2
  MaxRecipients = 3
  Activations = 1
SYMMETRY Symmetry
INVARIANTS
  ReportsAddUp
