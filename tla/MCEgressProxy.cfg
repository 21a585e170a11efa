SPECIFICATION FairSpec
CONSTANTS
    api = api
    evil = evil
    github = github
    com = com
    Dot = Dot
    Hosts <- MCHosts
    Allowlist <- MCAllowlist
    NoHost = NoHost
    MaxChunks = 3
INVARIANTS
    BytesNeedAVerdict
    EndOfStreamIsTrue
PROPERTIES
    TornDownAfterClient
CHECK_DEADLOCK FALSE
