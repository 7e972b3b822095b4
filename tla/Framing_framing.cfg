CONSTANTS
    Lengths <- TwoMessages
    max_message_bytes = 3
    Slack = 1
    InboundCap = 1
    MaxJobs = 1
SPECIFICATION Spec
CHECK_DEADLOCK FALSE
INVARIANTS
    MessagesArriveWhole
