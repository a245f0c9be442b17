SPECIFICATION Spec
CONSTANTS
  Kinds <- SomeKinds
  MaxMessages = 4
  MaxConnects = 2
PROPERTIES ImplementsMessageQueue GoodStreamIsHandled
