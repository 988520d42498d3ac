CONSTANTS
  Null = Null
  Doc = Doc
  e1 = e1
  e2 = e2
  e3 = e3
  t1 = t1
  ElementBlocks <- MCElementBlocks
  LeafBlocks <- MCLeafBlocks
  Name = {id}
  Tagged = {e2}
SPECIFICATION Spec
INVARIANTS
  WellLinked
  Accounted
PROPERTY
  TreeSpec
