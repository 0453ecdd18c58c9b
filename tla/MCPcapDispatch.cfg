SPECIFICATION Spec
CONSTANTS
  h1 = h1
  h2 = h2
  NoHandler = NoHandler
  Handlers = {h1, h2}
  Ports <- MCPorts
  Frames <- MCFrames
INVARIANTS
  FastAgreesWithSlow
  ReadsInsideFrame
  CalledForItsPort
PROPERTY SubscribedIsCalled
