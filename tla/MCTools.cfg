SPECIFICATION Spec
CONSTANTS
  Jobs <- MCJobs
  MaxCalls = 3
  BuniqInputs <- MCBuniqInputs
  BuniqKeys <- MCBuniqKeys
  Templates <- MCTemplates
  Names = {"n", "m"}
  FillValues <- MCFillValues
  FillCounts = {0, 1, 3, 4}
  MaxCombinations = 6
  KpInputs <- MCKpInputs
  KpTexts <- MCKpTexts
  KpRanges <- MCKpRanges
  BhxxInputs <- MCBhxxInputs
  BhxxLayouts <- MCBhxxLayouts
  BhxxSeeks = {0, 1}
  BhxxLengths = {0, 3}
  PatchFiles <- MCPatchFiles
  PatchTexts <- MCPatchTexts
  PatchOffsets = {0, 1, 2, 3}
  GrepFiles <- MCGrepFiles
  GrepPatterns <- MCGrepPatterns
  GrepContexts <- MCGrepContexts
  GrepCounts = {0, 1, 2}
  SizeLimit = 16
  FurlParts <- MCFurlParts
  FurlTexts <- MCFurlTexts
  FurlNames <- MCFurlNames
  ExeFiles <- MCExeFiles
  ExeKinds <- MCExeKinds
INVARIANTS
  MergeIsSound
  BuniqSelects
  KpReplacesText
  FillComplete
  DumpIsFaithful
  PatchIsExact
  SearchIsExact
  FurlRoundTrip
  ExeIsSound
