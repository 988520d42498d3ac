CONSTANTS
  Null = Null
  Doc = Doc
  e1 = e1
  e2 = e2
  e3 = e3
  e4 = e4
  e5 = e5
  e6 = e6
  t1 = t1
  t2 = t2
  t3 = t3
  t4 = t4
  t5 = t5
  t6 = t6
  ElementBlocks <- MCElementBlocks
  LeafBlocks <- MCLeafBlocks
  Name = {"x"}
  Tokens <- MCTokens
  Rare <- MCRare
  MaxRare = 1
  MaxTokens = 6
  MaxAgain = 2
  Guid = {g1, g2}
  Id = {11}
  Links = 1
  MaxLanes = 3
SPECIFICATION MCSpec
INVARIANT
  DeclarationComesFirst
