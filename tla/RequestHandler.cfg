SPECIFICATION Spec
CONSTANTS
  SizeMax = 4
  Characters <- MCCharacters
  VirtualHosts <- MCVirtualHosts
  Htaccess <- MCHtaccess
  Disks <- MCDisks
  Mutable <- MCMutable
  Requests <- MCRequests
  ScriptOutputs <- MCScriptOutputs
  MaxRequests = 2
  MaxChanges = 2
  MaxTime = 1
  Sizes = {2}
  TestRoots <- MCTestRoots
  TestUris <- MCTestUris
  TestNumbers <- MCTestNumbers
  TestSizes <- MCTestSizes
  TestHeaders <- MCTestHeaders
  TestBodies <- MCTestBodies
INVARIANTS TypeOK ResolvesLikeWalk RangesAreExact CgiOutputSplit DescriptorOwned OpenedIsAuthorised BodyAsAnnounced NotModifiedIsCurrent
PROPERTIES RequestIsAnswered
CHECK_DEADLOCK FALSE
