SPECIFICATION Spec
CONSTANTS
  o1 = o1
  o2 = o2
  a = a
  b = b
  Names = {"f"}
  Locs = {1}
  Objects = {o1, o2}
  Descs = {a, b}
  Balances <- MCBalances
  Complaints <- MCComplaints
  MaxTraces <- MCMaxTraces
SYMMETRY Symmetry
INVARIANTS TypeOK OneOfEach SaidOnce
