SPECIFICATION PowerCutSpec
CONSTANTS
  Words <- SomeWords
  Blobs <- SomeBlobs
  Default <- Factory
  Versions = {3, 4}
  Bounds <- SomeBounds
PROPERTIES OldOrNew
