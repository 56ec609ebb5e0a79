SPECIFICATION Spec
CONSTANTS
  Approval = {a1, a2}
  Chat = {c1, c2}
  None = None
  MaxCrash = 0
  small = small
  large = large
  Size = {small, large}
  Price <- Prices
  Config <- OneOrTwo
SYMMETRY Symmetry
INVARIANT CreatedAsReviewed
