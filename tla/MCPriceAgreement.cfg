SPECIFICATION Spec
CONSTANTS
  cola = cola
  rice = rice
  bag = bag
  Product <- AllProducts
  Masters <- MCMasters
  LastDay = 2
  LinesMax = 2
  QuantityMax = 2
  ColumnMax = 600
INVARIANTS
  TypeOK
  FreshScreenAgrees
  SoundSale
PROPERTY
  HiddenDifferencesCancel
