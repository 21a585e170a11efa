SPECIFICATION FairSpec
CONSTANTS
    operators = operators
    elsewhere = elsewhere
    operator = operator
    stranger = stranger
    Chats <- MCChats
    OperatorChat = operators
    Users <- MCUsers
    Allowlist <- MCAllowlist
    Messages <- MCMessages
    PageLimit = 2
    MaxUpdates = 3
    MaxMedia = 1
    MaxRequests = 2
    MaxFailures = 1
INVARIANTS
    OnlyRepliesAfterThePost
CHECK_DEADLOCK FALSE
