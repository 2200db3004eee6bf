SPECIFICATION Spec
CONSTANTS
  MaxEntries = 3
  Calls <- MCCalls
INVARIANTS
  DecoderAllocates
  FreesLive
  FreeReleasesAll
