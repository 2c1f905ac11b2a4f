--------------------------- MODULE FeishuGateway ---------------------------
(***************************************************************************)
(* Messages reach handle() through the Feishu long connection (a bounded   *)
(* queue that max_concurrency workers empty, a table of the event ids seen *)
(* within event_ttl_s) and through the web API (one task per request); all *)
(* of it runs on the one event loop of the process.                        *)
(*                                                                         *)
(*   queue    FeishuBotGateway._queue                                      *)
(*   seen     FeishuBotGateway._seen                                       *)
(*   event    the event a worker processes                                 *)
(*   copies   deliveries of an event that Feishu may still make            *)
(*   handled  how often this process took an event since its key is known  *)
(*   ends     how often the process ended                                  *)
(***************************************************************************)
EXTENDS ConversationTurns

CONSTANTS
    Events,           \* event ids
    Workers,          \* worker tasks, max_concurrency of them
    Clients,          \* web requests that can be under way at once
    ChatOf,           \* [Events -> Chats]: message.chat_id
    Plain,            \* events that are allowed, of type text and not empty
    Copies,           \* [Events -> Nat]: deliveries of an event
    QueueSize,        \* queue_size
    MaxRequests,      \* bound on web requests
    MaxEnds,          \* bound on ends of the process
    Deletes,          \* who may be deleted: "idle" conversations, or "any"
    NoEvent

ASSUME FeishuAssumption ==
    /\ Tasks = Workers \cup Clients /\ Workers \cap Clients = {}
    /\ ChatOf \in [Events -> Chats] /\ Plain \subseteq Events /\ NoEvent \notin Events
    /\ Copies \in [Events -> Nat] /\ QueueSize \in Nat \ {0} /\ MaxRequests \in Nat /\ MaxEnds \in Nat
    /\ Deletes \in {"idle", "any"}

VARIABLES queue, seen, event, copies, handled, requests, ends

fvars == <<queue, seen, event, copies, handled>>
vars  == <<cvars, fvars, requests, ends>>

FeishuInit ==
    /\ queue = <<>>
    /\ seen = {}
    /\ event = [w \in Workers |-> NoEvent]
    /\ copies = Copies
    /\ handled = [e \in Events |-> 0]

Init == ConversationInit /\ FeishuInit /\ requests = 0 /\ ends = 0

SmallestSize == CHOOSE s \in Sizes : \A r \in Sizes : s <= r

-----------------------------------------------------------------------------
(* Feishu delivers, or delivers again what it did before; _enqueue_event    *)
(* drops what does not fit.                                                 *)
Deliver(e) ==
    /\ copies[e] > 0
    /\ copies' = [copies EXCEPT ![e] = @ - 1]
    /\ queue' = IF Len(queue) < QueueSize THEN Append(queue, e) ELSE queue
    /\ UNCHANGED <<cvars, seen, event, handled, requests, ends>>

(* A key expires event_ttl_s after it was stored.  Feishu's redeliveries    *)
(* are assumed to come within that time.                                    *)
Expire(e) ==
    /\ e \in seen /\ copies[e] = 0
    /\ e \notin ToSet(queue)
    /\ seen' = seen \ {e}
    /\ handled' = [handled EXCEPT ![e] = 0]
    /\ UNCHANGED <<cvars, queue, event, copies, requests, ends>>

\* A mutant: the key is left to be stored when the event is done with.
TakeEventUnmarked(w) ==
    LET e == Head(queue)
    IN  /\ queue # <<>> /\ event[w] = NoEvent
        /\ queue' = Tail(queue)
        /\ seen' = seen
        /\ IF e \in seen
             THEN /\ UNCHANGED <<cvars, event, handled>>
             ELSE /\ event' = [event EXCEPT ![w] = e]
                  /\ handled' = [handled EXCEPT ![e] = @ + 1]
                  /\ IF e \in Plain
                       THEN Receive(w, ChatOf[e], SmallestSize, "chat")
                       ELSE /\ turn' = [turn EXCEPT ![w].at = "done"]
                            /\ UNCHANGED <<messages, convo, counts>>
        /\ UNCHANGED <<copies, requests, ends>>

(* _process_event up to its first await: a duplicate is dropped, what is    *)
(* not a text gets a reply, the rest goes to handle.                        *)
TakeEvent(w) ==
    LET e == Head(queue)
    IN  /\ queue # <<>> /\ event[w] = NoEvent
        /\ queue' = Tail(queue)
        /\ seen' = seen \cup {e}
        /\ IF e \in seen
             THEN /\ UNCHANGED <<cvars, event, handled>>
             ELSE /\ event' = [event EXCEPT ![w] = e]
                  /\ handled' = [handled EXCEPT ![e] = @ + 1]
                  /\ IF e \in Plain
                       THEN Receive(w, ChatOf[e], SmallestSize, "chat")
                       ELSE /\ turn' = [turn EXCEPT ![w].at = "done"]
                            /\ UNCHANGED <<messages, convo, counts>>
        /\ UNCHANGED <<copies, requests, ends>>

(* send_reply: as a card, and as a text if the card was not accepted; a     *)
(* failed turn is reported the same way.  No outcome of it is kept.         *)
Reply(w) ==
    /\ turn[w].at = "done"
    /\ event' = [event EXCEPT ![w] = NoEvent]
    /\ turn' = [turn EXCEPT ![w] = Idle]
    /\ UNCHANGED <<messages, convo, counts, queue, seen, copies, handled, requests, ends>>

-----------------------------------------------------------------------------
(* POST /api/chat and GET /api/chat/stream *)
Post(r, c, size, asks) ==
    /\ requests < MaxRequests
    /\ requests' = requests + 1
    /\ asks = "context" => size = SmallestSize
    /\ Receive(r, c, size, asks)
    /\ UNCHANGED <<fvars, ends>>

Respond(r) ==
    /\ turn[r].at = "done"
    /\ turn' = [turn EXCEPT ![r] = Idle]
    /\ UNCHANGED <<messages, convo, counts, fvars, requests, ends>>

(* DELETE /api/conversations/{id} *)
Delete(c) ==
    /\ Deletes = "idle" => \A t \in Tasks : turn[t].at = "idle" \/ turn[t].chat # c
    /\ requests < MaxRequests
    /\ requests' = requests + 1
    /\ DeleteConversation(c)
    /\ UNCHANGED <<fvars, ends>>

-----------------------------------------------------------------------------
(* The process ends and is started again: the queue and the table of seen   *)
(* events were in memory.                                                   *)
GatewayEnds ==
    /\ ends < MaxEnds
    /\ ends' = ends + 1
    /\ queue' = <<>>
    /\ seen' = {}
    /\ event' = [w \in Workers |-> NoEvent]
    /\ handled' = [e \in Events |-> 0]
    /\ TurnsEnd
    /\ UNCHANGED <<copies, requests>>

End == GatewayEnds /\ UNCHANGED <<messages, convo>>

EndInTurn(t) == GatewayEnds /\ QuestionOnly(t)

Step(t) == TurnStep(t) /\ UNCHANGED <<fvars, requests, ends>>

Next ==
    \/ \E e \in Events : Deliver(e)
    \/ \E e \in Events : Expire(e)
    \/ \E w \in Workers : TakeEvent(w)
    \/ \E w \in Workers : Reply(w)
    \/ \E r \in Clients, c \in Chats, size \in Sizes, asks \in {"chat", "context"} : Post(r, c, size, asks)
    \/ \E r \in Clients : Respond(r)
    \/ \E c \in Chats : Delete(c)
    \/ \E t \in Tasks : Step(t)
    \/ End
    \/ \E t \in Tasks : EndInTurn(t)

(* Models answer or time out, threads that send a reply return, and the     *)
(* event loop gets round to every task that can go on.                      *)
Fairness == \A w \in Workers : WF_vars(TakeEvent(w) \/ Reply(w) \/ Step(w))

Spec == Init /\ [][Next]_vars /\ Fairness

-----------------------------------------------------------------------------
(* However often an event is delivered and however many workers are at it,  *)
(* a process handles it once while its key lasts: looking a key up and      *)
(* storing it is one step (_is_duplicate).                                  *)
HandledOnce == \A e \in Events : handled[e] <= 1

(* Every event that was queued is done with at some time, answered or       *)
(* dropped as a duplicate, and no worker stays at it: a turn that fails     *)
(* does not take its worker along (_worker_loop).                           *)
EveryEventIsSettled ==
    \A e \in Events : (e \in ToSet(queue)) ~> (e \notin ToSet(queue) /\ \A w \in Workers : event[w] # e)
=============================================================================
