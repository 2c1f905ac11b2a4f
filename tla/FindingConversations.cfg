\* Two turns of one conversation, which is deleted under them or between
\* them and goes on under its old id.  One property at a time: each of the
\* three is violated (swap the comments).
SPECIFICATION Spec
CONSTANTS
    w1 = w1
    w2 = w2
    r1 = r1
    e1 = e1
    e2 = e2
    chat = chat
    NoEvent = NoEvent
    Chats = {chat}
    Workers = {w1, w2}
    Clients = {r1}
    Tasks <- AllTasks
    Events = {e1}
    ChatOf <- OneChat
    Plain = {e1}
    Copies <- FirstTwice
    QueueSize = 1
    Sizes = {4}
    RecentBudget = 24
    TitleAfter = 3
    FactsEvery = 3
    Earlier <- LongSecond
    MaxMessages = 8
    MaxRequests = 2
    MaxEnds = 0
    Deletes = "any"
CHECK_DEADLOCK FALSE
INVARIANT DeletedIsForgotten
\* INVARIANT FactsOnSchedule
\* PROPERTY CoverageOnlyGrows
