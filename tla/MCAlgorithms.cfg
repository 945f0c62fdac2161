SPECIFICATION Spec
CONSTANTS
  Text = {"x", "y", "wide"}
  Size <- SizeOf
  MaxLength = 4
  MaxPc = 6
  Unit = 2
  Median = {1, 2, 3, 4}
  Cv = {0, 1, 2}
  Policy <- Policies
INVARIANTS
  ChangeIsSeen
  OutsideIsKept
  OneWindowConfines
  MeetsThePredicate
  PromotionIsOneWay
