SPECIFICATION Spec
CONSTANTS
  Procs = {p1, p2}
  Nobody = Nobody
  Current = 3
PROPERTY CommittedProjectStays
