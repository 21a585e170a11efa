SPECIFICATION FairSpec
CONSTANTS
    operators = operators
    elsewhere = elsewhere
    operator = operator
    stranger = stranger
    Chats <- MCChats
    OperatorChat = operators
    Users <- MCUsers
    Allowlist <- MCAllowlist
    Messages <- MCMessages
    PageLimit = 2
    MaxUpdates = 4
    MaxMedia = 2
    MaxRequests = 2
    MaxFailures = 1
INVARIANTS
    OneReplyOneGate
    StaleRepliesIgnored
    FirstReplyWins
PROPERTIES
    ImplementsPort
    ReplyIsTaken
CHECK_DEADLOCK FALSE
