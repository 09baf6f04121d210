CONSTANTS
  Goods <- MCGoods
  Appearance <- MCAppearance
SPECIFICATION Spec
INVARIANTS
  TypeOK
  ColorTrue
  EmptyIsEmpty
