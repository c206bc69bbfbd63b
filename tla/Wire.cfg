SPECIFICATION Spec
CONSTANT
  Schema <- P2pSchema
  OneOfs <- P2pOneOfs
  Depth = 5
  Limit <- MCLimit
  Objects <- MCObjects
  Sites = {"announcement", "block", "blockRequest", "transaction", "hashesRequest", "noHashes",
           "hashes", "tipRequest", "tip", "fundNonce", "fundSig", "closeNonce", "closeSig",
           "aliceSig", "channelProposal", "payProposal", "payAcceptance", "swapProposal",
           "swapResponse"}
INVARIANTS ArrivesAsSent CanBeSentOn OnlyRustNamesAreLost
