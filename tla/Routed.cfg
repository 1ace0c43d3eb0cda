CONSTANTS
  Instances = {i1, i2}
  Ports = {10000, 10001}
  NoArtifact = NoArtifact
  i1 = i1
  i2 = i2
SPECIFICATION FairSpec
PROPERTIES AvailableIsRouted
