\* Two workers and a web client in one chat that has three turns behind it,
\* none of them summarised; an event delivered twice, a queue of one.
SPECIFICATION Spec
CONSTANTS
    w1 = w1
    w2 = w2
    r1 = r1
    e1 = e1
    e2 = e2
    chat = chat
    NoEvent = NoEvent
    Chats = {chat}
    Workers = {w1, w2}
    Clients = {r1}
    Tasks <- AllTasks
    Events = {e1}
    ChatOf <- OneChat
    Plain = {e1}
    Copies <- FirstTwice
    QueueSize = 1
    Sizes = {4}
    RecentBudget = 24
    TitleAfter = 3
    FactsEvery = 2
    Earlier <- LongSecond
    MaxMessages = 8
    MaxRequests = 1
    MaxEnds = 1
    Deletes = "idle"
CHECK_DEADLOCK FALSE
INVARIANT SummaryIsOfItsPrefix
INVARIANT ContextHasNoGap
INVARIANT AnswersFollowTheirQuestion
INVARIANT HandledOnce
PROPERTY EveryEventIsSettled
