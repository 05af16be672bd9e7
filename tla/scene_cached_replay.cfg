SPECIFICATION Spec
CONSTANTS
  MaxChildren = 3
  Kinds <- MCKinds
  SpriteKinds = {"sprite"}
  Primitives <- MCPrimitives
  LayerBounds <- MCLayerBounds
  Texture <- MCTexture
  NumViews = 2
  MaxPaints = 3
  MaxFrames = 2
INVARIANT CachedPaintIsRecycled
CHECK_DEADLOCK FALSE
