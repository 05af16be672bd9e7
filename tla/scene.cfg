SPECIFICATION Spec
CONSTANTS
  MaxChildren = 3
  Kinds <- MCKinds
  SpriteKinds = {"sprite"}
  Primitives <- MCPrimitives
  LayerBounds <- MCLayerBounds
  Texture <- MCTexture
  NumViews = 2
  MaxPaints = 5
  MaxFrames = 2
INVARIANTS OrderIsOneAboveOverlap BatchesDrawEverything DrawnBackToFront CachedPaintIsKept
CHECK_DEADLOCK FALSE
