CONSTANTS
  Configs <- SomeConfigs
  NestedNamespaces = FALSE
  SliceLengths = {0, 2}
  MaxDepth = 2
  MaxWork = 4
  Size <- SmallSizes
  ContentAt <- ThreeAddresses
SPECIFICATION MCSpec
INVARIANTS TypeOK ValidJson SameTree NothingLostInField EqualsMeansSameLog
