SPECIFICATION MCSpec
CONSTANTS
    Chats = {"a", "b", "guest"}
    Authorized = {"a", "b"}
    NotifyChats = {"a", "b"}
    PollLimit = 2
    FlushLimit = 1
    None = None
    MaxUpdates = 3
    MaxNotices = 2
    MaxTime = 1
    TTL = 1
    MaxSlips = 1
    Cooldown <- MinuteCooldown
    Budgets <- TelegramBudgets
INVARIANTS
    CreateStaysInResults
    WritesNotRepeated
    RunOnce
    RunAsAsked
    NoneSkipped
    OneLostPerSlip
PROPERTIES
    CallsReturn
    SettledForGood
    ReachedLogged
    NoticesSettle
