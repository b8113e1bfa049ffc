CONSTANTS
  l1 = l1
  l2 = l2
  C = 2
  Lead <- MCLead
  MaxOps = 3
  MaxWrites = 2
  Elapsed = {1000000}
SYMMETRY LeadSymmetry
VIEW View
SPECIFICATION Spec
INVARIANT TypeOK IInv StrideDisjoint WarmReads
PROPERTY AggregateExact WriterStops PhaseRefinement
