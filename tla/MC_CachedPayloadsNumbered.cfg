CONSTANTS
    GZIP = GZIP
    LZW = LZW
    NoAlgo = NoAlgo
    NoCaps = NoCaps
    Null = Null
    Algos <- MCAlgos
    Preference <- MCPreference
    LocalCaps <- MCLocalCaps
    RemoteCaps <- MCRemoteCaps
    HeaderKinds = {"message", "handshake", "error"}
    Faults = {"short", "false", "timeout", "error", "crypto"}
    MaxOps = 3

SPECIFICATION Spec

INVARIANT CachedPayloadsNumbered
