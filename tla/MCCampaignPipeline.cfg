\* Every kind of request, one tail loop with a queue of one, one fault.
CONSTANTS
  Servers = {v1}
  Requests = {r1, r2}
  Analysts = {a1}
  Menu <- AllRequests
  MaxSeq = 7
  TailMax = 1
  MaxFaults = 1
SPECIFICATION Spec
INVARIANTS TypeOK CountersBackedByLog RowBackedByLog
PROPERTIES CountsAtMostOnce StatusMovesForward 
SYMMETRY RequestSymmetry
\* The requests of an instance are finitely many: it stops when they are over.
CHECK_DEADLOCK FALSE
