SPECIFICATION FairSpec
CONSTANTS
    api = api
    evil = evil
    github = github
    com = com
    Dot = Dot
    Hosts <- MCHosts
    Allowlist <- MCAllowlist
    NoHost = NoHost
    MaxChunks = 3
PROPERTIES
    PipesUntilACloses
CHECK_DEADLOCK FALSE
