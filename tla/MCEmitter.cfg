SPECIFICATION Spec
CONSTANTS
  Items = {p1, p2, p3, p4}
  Types = {e1, e2}
  Tags = {g1, g2}
  MaxDepth = 3
  MaxDisable = 1
SYMMETRY Symmetry
INVARIANTS TypeOK NoDanglingFrame PendingHasFrame DispatchIsExact
