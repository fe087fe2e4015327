\* Two tabs of one browser and a product sold in two of four size and color pairs.
SPECIFICATION CartSpec
CONSTANTS
  Tabs = {t1, t2}
  Sizes = {"s1", "s2"}
  Colors = {"c1", "c2"}
  Variants <- Diagonal
  StockLevels = {0, 2}
  NoCart = NoCart
  Elsewhere = Elsewhere
SYMMETRY Symmetry
INVARIANTS
  QuantitiesWithinStock
  StoredIsLastWrite
  ChoiceIsSold
