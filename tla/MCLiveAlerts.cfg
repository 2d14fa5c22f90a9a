SPECIFICATION FairSpec
CONSTANTS
    Total = 2
    FindingOf <- MCFindingOf
    Channels = {1, 2}
    Webhook = Webhook
    WebhookMin = 3
    FirstChannels <- MCFirstChannels
    Capacity = 1
    MaxEdits = 1
    MaxFaults = 1
    Off = Off
    NoJob = NoJob
    Window = 2
    Fetches = {1, 2}
    MaxOps = 2
    Free = Free
    Asked = Asked
INVARIANTS
    TypeOK
    DeliveredExactly
    AnnouncedIsStored
    UnseenStaysNew
PROPERTIES
    Settles
