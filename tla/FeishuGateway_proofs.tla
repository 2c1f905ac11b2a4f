----------------------- MODULE FeishuGateway_proofs -----------------------
(***************************************************************************)
(* What holds of the conversations of a process, however many workers,     *)
(* clients, events and conversations there are: events are handled once    *)
(* (HandledOnce), answers follow their questions, and, when nobody deletes *)
(* a conversation that a turn is at, summaries are of the transcript they  *)
(* cover and contexts have no gap.                                         *)
(***************************************************************************)
EXTENDS FeishuGateway, FiniteSetTheorems, NaturalsInduction, SequenceTheorems, TLAPS

-----------------------------------------------------------------------------
(* The least and the greatest of a set of ids *)

LEMMA LeastNat ==
    ASSUME NEW S, S \subseteq Nat, S # {}
    PROVE  \E x \in S : \A y \in S : x <= y
<1> DEFINE Less == {ss \in Nat \X Nat : ss[1] < ss[2]}
<1>1. IsWellFoundedOn(OpToRel(<, Nat), Nat)
  BY NatLessThanWellFounded
<1>2. IsWellFoundedOn(Less, Nat)
  BY <1>1 DEF OpToRel
<1> HIDE DEF Less
<1>3. PICK x \in S : \A y \in S : ~(<<y, x>> \in Less)
  BY <1>2, WFMin
<1>4. \A y \in S : ~(y < x)
  BY <1>3 DEF Less
<1> QED
  BY <1>4

LEMMA MinOfNat ==
    ASSUME NEW S, S \subseteq Nat, S # {}
    PROVE  Min(S) \in S /\ \A y \in S : Min(S) <= y
BY LeastNat DEF Min

LEMMA MaxOfNat ==
    ASSUME NEW S, NEW n \in Nat, S \subseteq 0..n, S # {}
    PROVE  Max(S) \in S /\ \A y \in S : y <= Max(S)
<1> DEFINE Above == {m \in Nat : \A y \in S : y <= m}
<1>1. n \in Above
  OBVIOUS
<1>2. PICK m \in Above : \A o \in Above : m <= o
  BY <1>1, LeastNat
<1>3. m \in S
  <2> SUFFICES ASSUME m \notin S PROVE FALSE
    OBVIOUS
  <2>1. m \in Nat /\ \A y \in S : y <= m
    BY <1>2
  <2>2. \A y \in S : y \in Nat /\ y # m
    OBVIOUS
  <2>3. \A y \in S : y < m
    BY <2>1, <2>2
  <2>4. PICK z \in S : z \in Nat /\ z < m
    BY <2>2, <2>3
  <2>5. m - 1 \in Nat /\ ~(m <= m - 1)
    BY <2>1, <2>4
  <2>6. \A y \in S : y <= m - 1
    BY <2>1, <2>2, <2>3
  <2>7. m - 1 \in Above
    BY <2>5, <2>6
  <2> HIDE DEF Above
  <2> QED
    BY <2>5, <2>7, <1>2
<1>4. \E x \in S : \A y \in S : x >= y
  <2>1. m \in Nat /\ \A y \in S : y \in Nat /\ y <= m
    BY <1>2
  <2> QED
    BY <2>1, <1>3
<1>5. Max(S) \in S /\ \A y \in S : Max(S) >= y
  BY <1>4 DEF Max
<1>6. \A y \in S : y \in Nat
  OBVIOUS
<1> QED
  BY <1>5, <1>6

(* The greatest element is the only one of its kind. *)
LEMMA MaxIs ==
    ASSUME NEW S, NEW x, S \subseteq Nat, x \in S, \A y \in S : y <= x
    PROVE  Max(S) = x
<1>1. x \in Nat /\ \A y \in S : y \in Nat /\ x >= y
  OBVIOUS
<1>2. \E z \in S : \A y \in S : z >= y
  BY <1>1
<1>3. Max(S) \in S /\ \A y \in S : Max(S) >= y
  BY <1>2 DEF Max
<1>4. Max(S) \in Nat /\ Max(S) >= x /\ Max(S) <= x
  BY <1>1, <1>3
<1> QED
  BY <1>1, <1>4

-----------------------------------------------------------------------------
(* Rows and what is known of them *)

Row == [chat : Chats, role : {"user", "assistant"}, of : Nat, size : Nat,
        kind : {"chat", "skill"}, live : BOOLEAN]

Summary == [folded : SUBSET Nat, covered : Nat, count : Nat]

Conversation == [there : BOOLEAN, turns : Nat, titled : BOOLEAN, sum : Summary]

Labels == {"idle", "summarising", "asking", "emerging", "extracting", "finishing", "titling", "done"}

TurnRow == [at : Labels, chat : Chats, size : Nat, asks : {"chat", "context"}, pending : SUBSET Nat,
            part : Nat, sum : Summary, recent : SUBSET Nat, failed : BOOLEAN, missing : SUBSET Nat,
            of : Nat, due : BOOLEAN]

LiveIn(M, c) == {i \in DOMAIN M : M[i].live /\ M[i].chat = c}

(* A summary is of the rows of c up to the one it covers. *)
Exact(M, c, s) ==
    /\ s.covered <= Len(M)
    /\ s.folded = {i \in LiveIn(M, c) : i <= s.covered}
    /\ s.count = Cardinality(s.folded)

LEMMA RowsAre ==
    ASSUME NEW M, M \in Seq(Row)
    PROVE  /\ Len(M) \in Nat /\ DOMAIN M = 1..Len(M)
           /\ \A i \in DOMAIN M : i \in Nat /\ i \in Int /\ 1 <= i /\ i <= Len(M) /\ M[i] \in Row
BY LenProperties, ElementOfSeq

LEMMA IdsAreFinite ==
    ASSUME NEW M, M \in Seq(Row), NEW S, S \subseteq DOMAIN M
    PROVE  IsFiniteSet(S) /\ S \subseteq Nat /\ S \subseteq 0..Len(M)
<1>1. Len(M) \in Nat /\ DOMAIN M = 1..Len(M)
  BY RowsAre
<1>2. IsFiniteSet(1..Len(M))
  BY <1>1, FS_Interval
<1> QED
  BY <1>1, <1>2, FS_Subset

LEMMA NothingIsExact ==
    ASSUME NEW M, M \in Seq(Row), NEW c
    PROVE  Exact(M, c, NoSummary)
<1>1. \A i \in LiveIn(M, c) : i \in Nat /\ 1 <= i
  BY RowsAre DEF LiveIn
<1>2. Len(M) \in Nat /\ 0 <= Len(M)
  BY RowsAre
<1>3. {i \in LiveIn(M, c) : i <= 0} = {}
  BY <1>1
<1> QED
  BY <1>2, <1>3, FS_EmptySet DEF Exact, NoSummary

(* M becomes N by rows that are added, and by rows of c that are deleted. *)
Grows(M, N) ==
    /\ N \in Seq(Row) /\ Len(M) <= Len(N)
    /\ \A i \in DOMAIN M : i \in DOMAIN N /\ N[i] = M[i]

LEMMA ExactWhenGrown ==
    ASSUME NEW M, M \in Seq(Row), NEW N, Grows(M, N), NEW c, NEW s, s \in Summary, Exact(M, c, s)
    PROVE  Exact(N, c, s) /\ \A n : n <= Len(M) /\ n \in Nat => {i \in LiveIn(N, c) : i <= n} = {i \in LiveIn(M, c) : i <= n}
<1>1. /\ Len(M) \in Nat /\ DOMAIN M = 1..Len(M) /\ Len(N) \in Nat /\ DOMAIN N = 1..Len(N) /\ Len(M) <= Len(N)
  BY RowsAre DEF Grows
<1>2. \A n : n <= Len(M) /\ n \in Nat => {i \in LiveIn(N, c) : i <= n} = {i \in LiveIn(M, c) : i <= n}
  BY <1>1 DEF LiveIn, Grows
<1>3. s.covered \in Nat /\ s.covered <= Len(M) /\ s.covered <= Len(N)
  BY <1>1 DEF Exact, Summary
<1> QED
  BY <1>2, <1>3 DEF Exact

-----------------------------------------------------------------------------
(* An event is handled once: what was handled has its key in the table. *)

HandledInv ==
    /\ queue \in Seq(Events)
    /\ handled \in [Events -> Nat]
    /\ \A e \in Events : handled[e] <= 1 /\ (handled[e] # 0 => e \in seen)

LEMMA HandledStart == Init => HandledInv
BY DEF Init, FeishuInit, HandledInv

LEMMA HandledKept ==
    ASSUME HandledInv, [Next]_vars
    PROVE  HandledInv'
<1> USE DEF HandledInv
<1>1. ASSUME NEW e \in Events, Deliver(e) PROVE HandledInv'
  <2>1. queue' \in Seq(Events)
    <3>1. Append(queue, e) \in Seq(Events)
      BY AppendProperties
    <3> QED
      BY <1>1, <3>1 DEF Deliver
  <2> QED
    BY <1>1, <2>1 DEF Deliver
<1>2. ASSUME NEW e \in Events, Expire(e) PROVE HandledInv'
  BY <1>2 DEF Expire
<1>3. ASSUME NEW w \in Workers, TakeEvent(w) PROVE HandledInv'
  <2>1. queue # <<>> /\ queue' = Tail(queue) /\ seen' = seen \cup {Head(queue)}
        /\ (Head(queue) \in seen => handled' = handled)
        /\ (Head(queue) \notin seen => handled' = [handled EXCEPT ![Head(queue)] = @ + 1])
    BY <1>3 DEF TakeEvent
  <2>2. Head(queue) \in Events /\ Tail(queue) \in Seq(Events)
    BY <2>1, HeadTailProperties
  <2> QED
    BY <2>1, <2>2
<1>4. ASSUME NEW w \in Workers, Reply(w) PROVE HandledInv'
  BY <1>4 DEF Reply
<1>5. CASE UNCHANGED fvars
  BY <1>5 DEF fvars
<1>6. CASE GatewayEnds
  BY <1>6 DEF GatewayEnds
<1>7. CASE \/ \E r \in Clients, c \in Chats, size \in Sizes, asks \in {"chat", "context"} : Post(r, c, size, asks)
           \/ \E r \in Clients : Respond(r)
           \/ \E c \in Chats : Delete(c)
           \/ \E t \in Tasks : Step(t)
           \/ UNCHANGED vars
  <2>1. UNCHANGED fvars
    BY <1>7 DEF Post, Respond, Delete, Step, vars
  <2> QED
    BY <2>1, <1>5
<1>8. CASE End \/ \E t \in Tasks : EndInTurn(t)
  BY <1>6, <1>8 DEF End, EndInTurn
<1> QED
  BY <1>1, <1>2, <1>3, <1>4, <1>7, <1>8 DEF Next

(* However often Feishu delivers an event, however many workers take what   *)
(* is queued and however often the process starts again, it handles an      *)
(* event once while its key lasts (_is_duplicate).                          *)
THEOREM EventsAreHandledOnce == Spec => []HandledOnce
<1>1. HandledInv => HandledOnce
  BY DEF HandledInv, HandledOnce
<1> QED
  BY HandledStart, HandledKept, <1>1, PTL DEF Spec

-----------------------------------------------------------------------------
(* What a budget selects *)

(* The recent messages are the newest, down to the first of them. *)
LEMMA RecentIsASuffix ==
    ASSUME messages \in Seq(Row), NEW recs, recs \subseteq DOMAIN messages
    PROVE  /\ RecentSuffix(recs) \subseteq recs
           /\ recs # {} => /\ FirstRecent(recs) \in RecentSuffix(recs)
                           /\ RecentSuffix(recs) = {i \in recs : FirstRecent(recs) <= i}
<1> DEFINE Fits(n) == Cost({j \in recs : n <= j}, 6) <= RecentBudget
           fitting == {i \in recs : \A n \in recs : i <= n => Fits(n)}
<1>1. recs \subseteq Nat /\ recs \subseteq 0..Len(messages) /\ Len(messages) \in Nat
  BY IdsAreFinite, RowsAre
<1>2. RecentSuffix(recs) = IF recs = {} \/ fitting # {} THEN fitting ELSE {Max(recs)}
  BY DEF RecentSuffix
<1> HIDE DEF Fits
<1>3. fitting \subseteq recs /\ \A i \in fitting, j \in recs : i <= j => j \in fitting
  BY <1>1
<1> HIDE DEF fitting
<1>4. recs # {} => Max(recs) \in recs /\ \A i \in recs : i <= Max(recs)
  BY <1>1, MaxOfNat
<1>5. RecentSuffix(recs) \subseteq recs
  BY <1>2, <1>3, <1>4
<1>6. ASSUME recs # {}
      PROVE  /\ FirstRecent(recs) \in RecentSuffix(recs)
             /\ RecentSuffix(recs) = {i \in recs : FirstRecent(recs) <= i}
  <2>1. RecentSuffix(recs) # {} /\ RecentSuffix(recs) \subseteq Nat
    BY <1>1, <1>2, <1>5, <1>6
  <2>2. FirstRecent(recs) = Min(RecentSuffix(recs))
    BY <1>6 DEF FirstRecent
  <2>3. FirstRecent(recs) \in RecentSuffix(recs) /\ \A i \in RecentSuffix(recs) : FirstRecent(recs) <= i
    BY <2>1, <2>2, MinOfNat
  <2>4. CASE fitting # {}
    <3>1. RecentSuffix(recs) = fitting
      BY <1>2, <2>4
    <3> QED
      BY <2>3, <3>1, <1>3
  <2>5. CASE fitting = {}
    <3>1. RecentSuffix(recs) = {Max(recs)} /\ FirstRecent(recs) = Max(recs)
      BY <1>2, <2>5, <1>6, <2>3
    <3>2. \A i \in recs : Max(recs) <= i => i = Max(recs)
      BY <1>1, <1>4, <1>6
    <3> QED
      BY <2>3, <3>1, <3>2, <1>4, <1>6
  <2> QED
    BY <2>4, <2>5
<1> QED
  BY <1>5, <1>6

(* What one call of the model folds is the oldest of what is pending. *)
LEMMA ChunkIsAPrefix ==
    ASSUME messages \in Seq(Row), NEW ids, ids \subseteq DOMAIN messages, ids # {}, NextChunk(ids) # {}
    PROVE  /\ NextChunk(ids) \subseteq ids /\ Max(NextChunk(ids)) \in NextChunk(ids)
           /\ NextChunk(ids) = {i \in ids : i <= Max(NextChunk(ids))}
<1> DEFINE Fits(n) == Cost({j \in ids : j <= n}, 8) <= RecentBudget
           chunk == NextChunk(ids)
<1>1. ids \subseteq Nat /\ ids \subseteq 0..Len(messages) /\ Len(messages) \in Nat
  BY IdsAreFinite, RowsAre
<1>2. PrefixWithin(ids) = {i \in ids : \A n \in ids : n <= i => Fits(n)}
  BY DEF PrefixWithin
<1> HIDE DEF Fits
<1>3. PrefixWithin(ids) \subseteq ids /\ \A i \in PrefixWithin(ids), j \in ids : j <= i => j \in PrefixWithin(ids)
  BY <1>1, <1>2
<1>4. Min(ids) \in ids /\ \A i \in ids : Min(ids) <= i
  BY <1>1, MinOfNat
<1>5. chunk = {Min(ids)} \/ chunk = PrefixWithin(ids)
  BY DEF NextChunk
<1>6. chunk # {}
  OBVIOUS
<1> HIDE DEF chunk
<1>7. chunk \subseteq ids /\ \A i \in chunk, j \in ids : j <= i => j \in chunk
  <2>1. CASE chunk = {Min(ids)}
    <3>1. \A j \in ids : j <= Min(ids) => j = Min(ids)
      BY <1>1, <1>4
    <3> QED
      BY <2>1, <3>1, <1>4
  <2>2. CASE chunk = PrefixWithin(ids)
    BY <2>2, <1>3
  <2> QED
    BY <1>5, <2>1, <2>2
<1>8. chunk \subseteq 0..Len(messages)
  BY <1>1, <1>7
<1>9. Max(chunk) \in chunk /\ \A i \in chunk : i <= Max(chunk)
  BY <1>1, <1>6, <1>8, MaxOfNat
<1>10. chunk = {i \in ids : i <= Max(chunk)}
  BY <1>7, <1>9
<1> QED
  BY <1>7, <1>9, <1>10 DEF chunk

-----------------------------------------------------------------------------
(* The rows of conversations, and what a turn knows of them *)

(* What a turn holds is of rows there are; an emerging skill is the answer  *)
(* to a request for one.                                                    *)
Bounded(M, k) ==
    /\ k.sum.covered <= Len(M) /\ k.pending \subseteq DOMAIN M
    /\ k.at = "summarising" => k.pending # {}
    /\ k.at = "emerging" => k.of \in DOMAIN M /\ M[k.of].kind = "skill"

AnswerOf(M, i) ==
    /\ M[i].of \in 1..i
    /\ M[i].role = "assistant" /\ M[i].kind = "chat" =>
         M[i].of = i - 1 /\ M[i - 1].role = "user" /\ M[i - 1].chat = M[i].chat

RowsInv(M) == M \in Seq(Row) /\ \A i \in DOMAIN M : AnswerOf(M, i)

ConvoInv(M, V) == V \in [Chats -> Conversation] /\ \A c \in Chats : V[c].sum.covered <= Len(M)

TurnInv(M, T) == T \in [Tasks -> TurnRow] /\ \A t \in Tasks : Bounded(M, T[t])

TurnsInv == RowsInv(messages) /\ ConvoInv(messages, convo) /\ TurnInv(messages, turn)

LEMMA GrownIsBounded ==
    ASSUME NEW M, M \in Seq(Row), NEW N, Grows(M, N)
    PROVE  /\ \A k : k \in TurnRow /\ Bounded(M, k) => Bounded(N, k)
           /\ \A T : TurnInv(M, T) => TurnInv(N, T)
           /\ \A V : ConvoInv(M, V) => ConvoInv(N, V)
<1>1. Len(M) \in Nat /\ Len(N) \in Nat /\ Len(M) <= Len(N) /\ DOMAIN M \subseteq DOMAIN N
      /\ \A i \in DOMAIN M : N[i] = M[i]
  BY RowsAre DEF Grows
<1>2. ASSUME NEW n, n \in Nat, n <= Len(M) PROVE n <= Len(N)
  BY <1>1, <1>2
<1>3. ASSUME NEW k, k \in TurnRow, Bounded(M, k) PROVE Bounded(N, k)
  <2>1. k.sum.covered \in Nat
    BY <1>3 DEF TurnRow, Summary
  <2> QED
    BY <1>1, <1>2, <1>3, <2>1 DEF Bounded
<1>4. ASSUME NEW T, TurnInv(M, T) PROVE TurnInv(N, T)
  BY <1>3, <1>4 DEF TurnInv
<1>5. ASSUME NEW V, ConvoInv(M, V) PROVE ConvoInv(N, V)
  <2>1. \A c \in Chats : V[c].sum.covered \in Nat
    BY <1>5 DEF ConvoInv, Conversation, Summary
  <2> QED
    BY <1>2, <1>5, <2>1 DEF ConvoInv
<1> QED
  BY <1>3, <1>4, <1>5

LEMMA IdleIsKnown ==
    /\ Idle \in TurnRow /\ Idle.chat \in Chats /\ Idle.at = "idle" /\ Idle.sum = NoSummary
    /\ Idle.pending = {} /\ NoSummary \in Summary /\ NoSummary.covered = 0
<1>1. Idle.chat = CHOOSE c \in Chats : TRUE
  BY DEF Idle
<1>2. Idle.chat \in Chats
  BY <1>1, TurnsAssumption
<1>3. NoSummary \in Summary /\ NoSummary.covered = 0
  BY DEF NoSummary, Summary
<1>4. /\ Idle.at = "idle" /\ Idle.sum = NoSummary /\ Idle.pending = {}
      /\ Idle = [at |-> "idle", chat |-> Idle.chat, size |-> 0, asks |-> "chat", pending |-> {}, part |-> 0,
                 sum |-> NoSummary, recent |-> {}, failed |-> FALSE, missing |-> {}, of |-> 0, due |-> FALSE]
  BY DEF Idle
<1> DEFINE d == Idle.chat
<1> HIDE DEF d
<1>5. [at |-> "idle", chat |-> d, size |-> 0, asks |-> "chat", pending |-> {}, part |-> 0,
       sum |-> NoSummary, recent |-> {}, failed |-> FALSE, missing |-> {}, of |-> 0, due |-> FALSE] \in TurnRow
  BY <1>2, <1>3 DEF TurnRow, Labels, d
<1>6. Idle \in TurnRow
  BY <1>4, <1>5 DEF d
<1> QED
  BY <1>2, <1>3, <1>4, <1>6

(* A turn that has read its conversation. *)
Reading(c, size, asks, pending, row, recent) ==
    [Idle EXCEPT !.chat = c, !.size = size, !.asks = asks, !.pending = pending,
                 !.sum = row, !.at = "summarising", !.recent = recent]

CanRead(c, size, asks, pending, row, recent) ==
    /\ c \in Chats /\ size \in Nat /\ asks \in {"chat", "context"}
    /\ pending \subseteq Nat /\ recent \subseteq Nat /\ row \in Summary

LEMMA ReadingIs ==
    ASSUME NEW c, NEW size, NEW asks, NEW pending, NEW recent, NEW row,
           CanRead(c, size, asks, pending, row, recent),
           NEW k, k = Reading(c, size, asks, pending, row, recent)
    PROVE  /\ k \in TurnRow /\ k.at = "summarising" /\ k.chat = c /\ k.sum = row
           /\ k.pending = pending /\ k.recent = recent /\ ~k.failed /\ k.asks = asks
<1>1. k = [at |-> "summarising", chat |-> c, size |-> size, asks |-> asks, pending |-> pending, part |-> 0,
           sum |-> row, recent |-> recent, failed |-> FALSE, missing |-> {}, of |-> 0, due |-> FALSE]
  BY DEF Idle, Reading
<1>2. /\ k.at = "summarising" /\ k.chat = c /\ k.sum = row
      /\ k.pending = pending /\ k.recent = recent /\ ~k.failed /\ k.asks = asks
  BY ONLY <1>1
<1>3. k \in TurnRow
  <2> DEFINE r == [at |-> "summarising", chat |-> c, size |-> size, asks |-> asks, pending |-> pending, part |-> 0,
                   sum |-> row, recent |-> recent, failed |-> FALSE, missing |-> {}, of |-> 0, due |-> FALSE]
  <2>1. r \in TurnRow
    BY DEF TurnRow, Labels, CanRead
  <2>2. k = r
    BY <1>1
  <2> HIDE DEF r
  <2> QED
    BY <2>1, <2>2
<1> QED
  BY <1>2, <1>3

(* The rows that are neither recent nor folded. *)
Gap(M, c, recent, s) == {i \in LiveIn(M, c) : recent # {} /\ i <= Max(recent)} \ (s.folded \cup recent)

ContextOf(M, k, row) ==
    IF k.asks = "context" THEN [Idle EXCEPT !.at = "done", !.chat = k.chat] ELSE
    [Idle EXCEPT !.at = "asking", !.chat = k.chat, !.size = k.size, !.failed = k.failed,
                 !.missing = Gap(M, k.chat, k.recent, row)]

LEMMA ContextIs ==
    ASSUME NEW M, M \in Seq(Row), NEW k, k \in TurnRow, NEW row,
           NEW n, n = ContextOf(M, k, row)
    PROVE  /\ n \in TurnRow /\ n.at \in {"done", "asking"} /\ n.sum = NoSummary /\ n.pending = {}
           /\ n.chat = k.chat
           /\ n.at = "asking" => (n.failed <=> k.failed) /\ n.missing = Gap(M, k.chat, k.recent, row)
<1> DEFINE gap == Gap(M, k.chat, k.recent, row)
<1>1. gap \subseteq Nat
  <2>1. gap \subseteq DOMAIN M
    BY DEF LiveIn, Gap
  <2> HIDE DEF gap
  <2> QED
    BY <2>1, IdsAreFinite
<1>2. n = IF k.asks = "context" THEN [Idle EXCEPT !.at = "done", !.chat = k.chat] ELSE
          [Idle EXCEPT !.at = "asking", !.chat = k.chat, !.size = k.size, !.failed = k.failed, !.missing = gap]
  BY DEF ContextOf
<1>3. k.chat \in Chats /\ k.size \in Nat /\ k.failed \in BOOLEAN
  BY DEF TurnRow
<1> HIDE DEF gap
<1>4. CASE k.asks = "context"
  <2>1. n = [at |-> "done", chat |-> k.chat, size |-> 0, asks |-> "chat", pending |-> {}, part |-> 0,
             sum |-> NoSummary, recent |-> {}, failed |-> FALSE, missing |-> {}, of |-> 0, due |-> FALSE]
    BY <1>2, <1>4 DEF Idle
  <2> QED
    BY <2>1, <1>3, IdleIsKnown DEF TurnRow, Labels
<1>5. CASE k.asks # "context"
  <2>1. n = [at |-> "asking", chat |-> k.chat, size |-> k.size, asks |-> "chat", pending |-> {}, part |-> 0,
             sum |-> NoSummary, recent |-> {}, failed |-> k.failed, missing |-> gap, of |-> 0, due |-> FALSE]
    BY <1>2, <1>5 DEF Idle
  <2>2. n \in TurnRow
    BY <2>1, <1>1, <1>3, IdleIsKnown DEF TurnRow, Labels
  <2> QED
    BY <2>1, <2>2 DEF gap
<1> QED
  BY <1>4, <1>5

LEMMA BuiltIs ==
    ASSUME NEW t, NEW k, NEW row
    PROVE  Built(t, k, row) <=> turn' = [turn EXCEPT ![t] = ContextOf(messages, k, row)]
BY DEF Built, ContextOf, Gap, Live, LiveIn

(* A turn whose messages are stored, and one that is still to answer. *)
Emerging(k, id, due) == [Stored(k, id, due) EXCEPT !.at = "emerging"]

IsStored(n) == n \in TurnRow /\ n.at \in {"extracting", "finishing"} /\ n.sum = NoSummary /\ n.pending = {}

IsEmerging(e, id) == e \in TurnRow /\ e.at = "emerging" /\ e.sum = NoSummary /\ e.pending = {} /\ e.of = id

CanStore(k, id, due) == k \in TurnRow /\ id \in Nat /\ due \in BOOLEAN

LEMMA StoredForm ==
    ASSUME NEW k, k \in TurnRow, NEW id, id \in Nat, NEW due, due \in BOOLEAN,
           NEW n, n = Stored(k, id, due), NEW e, e = Emerging(k, id, due)
    PROVE  IsStored(n) /\ IsEmerging(e, id)
<1>1. k.chat \in Chats /\ id \in Nat /\ due \in BOOLEAN
  BY DEF TurnRow
<1> DEFINE l == IF due THEN "extracting" ELSE "finishing"
<1>2. n = [at |-> l, chat |-> k.chat, size |-> 0, asks |-> "chat", pending |-> {}, part |-> 0,
           sum |-> NoSummary, recent |-> {}, failed |-> FALSE, missing |-> {}, of |-> id, due |-> due]
  BY DEF Stored, Idle
<1>3. e = [at |-> "emerging", chat |-> k.chat, size |-> 0, asks |-> "chat", pending |-> {}, part |-> 0,
           sum |-> NoSummary, recent |-> {}, failed |-> FALSE, missing |-> {}, of |-> id, due |-> due]
  BY DEF Stored, Idle, Emerging
<1>4. l \in {"extracting", "finishing"}
  OBVIOUS
<1> HIDE DEF l
<1> DEFINE row(at) == [at |-> at, chat |-> k.chat, size |-> 0, asks |-> "chat", pending |-> {}, part |-> 0,
                       sum |-> NoSummary, recent |-> {}, failed |-> FALSE, missing |-> {}, of |-> id, due |-> due]
<1>5. \A at \in Labels : row(at) \in TurnRow
  BY <1>1, IdleIsKnown DEF TurnRow
<1>6. n \in TurnRow /\ e \in TurnRow
  <2>1. n = row(l) /\ e = row("emerging")
    BY <1>2, <1>3
  <2>2. l \in Labels /\ "emerging" \in Labels
    BY <1>4 DEF Labels
  <2> HIDE DEF row
  <2> QED
    BY <2>1, <2>2, <1>5
<1>7. n.at = l /\ n.sum = NoSummary /\ n.pending = {}
  BY ONLY <1>2
<1>8. e.at = "emerging" /\ e.sum = NoSummary /\ e.pending = {} /\ e.of = id
  BY ONLY <1>3
<1> QED
  BY <1>4, <1>6, <1>7, <1>8 DEF IsStored, IsEmerging

LEMMA StoredIs ==
    ASSUME NEW k, NEW id, NEW due, CanStore(k, id, due)
    PROVE  IsStored(Stored(k, id, due)) /\ IsEmerging(Emerging(k, id, due), id)
BY StoredForm DEF CanStore

-----------------------------------------------------------------------------
(* Summaries and contexts, while nobody deletes what a turn is at *)

(* What is pending lies between what s covers and the recent messages, and  *)
(* these are all there were from the first of them to the newest.           *)
Window(M, c, s, pending, recent) ==
    \E first, newest \in DOMAIN M :
        /\ newest \in recent
        /\ recent = {i \in LiveIn(M, c) : first <= i /\ i <= newest}
        /\ pending = {i \in LiveIn(M, c) : s.covered < i /\ i < first}

ContextOK(M, k) ==
    /\ k.at = "summarising" => Exact(M, k.chat, k.sum) /\ Window(M, k.chat, k.sum, k.pending, k.recent)
    /\ k.at = "asking" /\ ~k.failed => k.missing = {}

SumsExact(M, V) == \A c \in Chats : Exact(M, c, V[c].sum)

ExactInv == SumsExact(messages, convo) /\ \A t \in Tasks : ContextOK(messages, turn[t])

(* With nothing pending, the summary and the recent messages are all. *)
LEMMA NothingIsMissing ==
    ASSUME NEW M, M \in Seq(Row), NEW c, NEW s, s \in Summary, Exact(M, c, s),
           NEW recent, recent = {} \/ Window(M, c, s, {}, recent)
    PROVE  Gap(M, c, recent, s) = {}
<1>1. CASE recent = {}
  BY <1>1 DEF Gap
<1>2. CASE Window(M, c, s, {}, recent)
  <2>1. PICK first \in DOMAIN M, newest \in DOMAIN M :
               /\ newest \in recent
               /\ recent = {i \in LiveIn(M, c) : first <= i /\ i <= newest}
               /\ {} = {i \in LiveIn(M, c) : s.covered < i /\ i < first}
    BY <1>2 DEF Window
  <2>2. recent \subseteq Nat /\ \A i \in recent : i <= newest
    BY <2>1, RowsAre DEF LiveIn
  <2>3. Max(recent) = newest
    BY <2>1, <2>2, MaxIs
  <2>4. s.covered \in Nat /\ s.folded = {i \in LiveIn(M, c) : i <= s.covered}
    BY DEF Exact, Summary
  <2>5. ASSUME NEW i, i \in LiveIn(M, c), i <= newest, i \notin s.folded PROVE i \in recent
    <3>1. i \in Nat /\ first \in Nat
      BY <2>1, <2>5, RowsAre DEF LiveIn
    <3>2. ~(i <= s.covered) /\ ~(s.covered < i /\ i < first)
      BY <2>1, <2>4, <2>5
    <3>3. first <= i
      BY <2>4, <3>1, <3>2
    <3> QED
      BY <2>1, <2>5, <3>3
  <2> QED
    BY <2>3, <2>5 DEF Gap
<1> QED
  BY <1>1, <1>2

LEMMA GrownIsExact ==
    ASSUME NEW M, M \in Seq(Row), NEW N, Grows(M, N)
    PROVE  /\ \A k : k \in TurnRow /\ ContextOK(M, k) => ContextOK(N, k)
           /\ \A V : V \in [Chats -> Conversation] /\ SumsExact(M, V) => SumsExact(N, V)
<1>1. ASSUME NEW V, V \in [Chats -> Conversation], SumsExact(M, V) PROVE SumsExact(N, V)
  <2>1. \A c \in Chats : V[c].sum \in Summary
    BY <1>1 DEF Conversation
  <2> QED
    BY <1>1, <2>1, ExactWhenGrown DEF SumsExact
<1>2. ASSUME NEW k, k \in TurnRow, ContextOK(M, k), k.at = "summarising"
      PROVE  Exact(N, k.chat, k.sum) /\ Window(N, k.chat, k.sum, k.pending, k.recent)
  <2> DEFINE c == k.chat
  <2>1. k.sum \in Summary /\ Exact(M, c, k.sum) /\ Window(M, c, k.sum, k.pending, k.recent)
    BY <1>2 DEF ContextOK, TurnRow
  <2>2. Exact(N, c, k.sum)
    BY <2>1, ExactWhenGrown
  <2>3. PICK first \in DOMAIN M, newest \in DOMAIN M :
               /\ newest \in k.recent
               /\ k.recent = {i \in LiveIn(M, c) : first <= i /\ i <= newest}
               /\ k.pending = {i \in LiveIn(M, c) : k.sum.covered < i /\ i < first}
    BY <2>1 DEF Window
  <2>4. /\ Len(M) \in Nat /\ DOMAIN M = 1..Len(M) /\ Len(N) \in Nat /\ DOMAIN N = 1..Len(N) /\ Len(M) <= Len(N)
        /\ first \in DOMAIN N /\ newest \in DOMAIN N /\ \A i \in DOMAIN M : i \in DOMAIN N /\ N[i] = M[i]
    BY <2>3, RowsAre DEF Grows
  <2>5. \A i \in LiveIn(M, c) : i \in LiveIn(N, c)
    BY <2>4 DEF LiveIn
  <2>6. \A i \in LiveIn(N, c) : i <= newest \/ i < first => i \in LiveIn(M, c)
    BY <2>3, <2>4 DEF LiveIn
  <2>7. /\ k.recent = {i \in LiveIn(N, c) : first <= i /\ i <= newest}
        /\ k.pending = {i \in LiveIn(N, c) : k.sum.covered < i /\ i < first}
    BY <2>3, <2>5, <2>6
  <2>8. Window(N, c, k.sum, k.pending, k.recent)
    BY <2>3, <2>4, <2>7 DEF Window
  <2> QED
    BY <2>2, <2>8
<1>3. ASSUME NEW k, k \in TurnRow, ContextOK(M, k) PROVE ContextOK(N, k)
  BY <1>2, <1>3 DEF ContextOK
<1> QED
  BY <1>1, <1>3

-----------------------------------------------------------------------------
(* A step of one turn *)

LEMMA SameRows == messages \in Seq(Row) => Grows(messages, messages)
BY RowsAre DEF Grows

LEMMA SumsStay ==
    ASSUME TurnsInv, Grows(messages, messages'), convo' \in [Chats -> Conversation],
           \A c \in Chats : convo'[c].sum = convo[c].sum
    PROVE  ConvoInv(messages', convo') /\ (ExactInv => SumsExact(messages', convo'))
<1>1. messages \in Seq(Row) /\ ConvoInv(messages, convo) /\ convo \in [Chats -> Conversation]
  BY DEF TurnsInv, RowsInv, ConvoInv
<1>2. ConvoInv(messages', convo)
  BY <1>1, GrownIsBounded
<1>3. ExactInv => SumsExact(messages', convo)
  BY <1>1, GrownIsExact DEF ExactInv
<1> QED
  BY <1>2, <1>3 DEF ConvoInv, SumsExact

(* What is added to M is each an answer to its question, or none. *)
Adds(M, N) == Grows(M, N) /\ \A i \in DOMAIN N : i \notin DOMAIN M => AnswerOf(N, i)

LEMMA RowsGrow ==
    ASSUME NEW M, RowsInv(M), NEW N, Adds(M, N)
    PROVE  RowsInv(N)
<1>1. M \in Seq(Row) /\ N \in Seq(Row) /\ Grows(M, N)
  BY DEF RowsInv, Adds, Grows
<1>2. ASSUME NEW i, i \in DOMAIN M PROVE AnswerOf(N, i)
  <2>1. i \in Nat /\ N[i] = M[i] /\ AnswerOf(M, i)
    BY <1>1, <1>2, RowsAre DEF Grows, RowsInv
  <2>2. CASE M[i].role = "assistant" /\ M[i].kind = "chat"
    <3>1. M[i].of = i - 1 /\ M[i].of \in 1..i
      BY <2>1, <2>2 DEF AnswerOf
    <3>2. i - 1 \in DOMAIN M
      BY <1>1, <1>2, <2>1, <3>1, RowsAre
    <3>3. N[i - 1] = M[i - 1]
      BY <1>1, <3>2 DEF Grows
    <3> QED
      BY <2>1, <3>3 DEF AnswerOf
  <2>3. CASE ~(M[i].role = "assistant" /\ M[i].kind = "chat")
    BY <2>1, <2>3 DEF AnswerOf
  <2> QED
    BY <2>2, <2>3
<1> QED
  BY <1>1, <1>2 DEF RowsInv, Adds

LEMMA OneTurn ==
    ASSUME TurnsInv, NEW t, t \in Tasks, NEW k, k \in TurnRow, turn' = [turn EXCEPT ![t] = k],
           Bounded(messages', k), Grows(messages, messages'), ConvoInv(messages', convo'),
           \A i \in DOMAIN messages' : i \notin DOMAIN messages => AnswerOf(messages', i)
    PROVE  /\ TurnsInv'
           /\ ExactInv /\ SumsExact(messages', convo') /\ ContextOK(messages', k) => ExactInv'
<1>1. messages \in Seq(Row) /\ TurnInv(messages, turn) /\ messages' \in Seq(Row)
      /\ \A i \in DOMAIN messages : AnswerOf(messages, i)
  BY DEF TurnsInv, RowsInv, Grows
<1>2. TurnInv(messages', turn)
  BY <1>1, GrownIsBounded
<1>3. turn \in [Tasks -> TurnRow] /\ turn' \in [Tasks -> TurnRow] /\ turn'[t] = k
      /\ \A u \in Tasks : u # t => turn'[u] = turn[u]
  BY <1>1 DEF TurnInv
<1>4. TurnInv(messages', turn')
  BY <1>2, <1>3 DEF TurnInv
<1>6. RowsInv(messages')
  BY RowsGrow DEF TurnsInv, Adds
<1>7. TurnsInv'
  BY <1>4, <1>6 DEF TurnsInv
<1>8. ASSUME ExactInv, SumsExact(messages', convo'), ContextOK(messages', k) PROVE ExactInv'
  <2>1. ASSUME NEW u \in Tasks PROVE ContextOK(messages', turn'[u])
    <3>1. ContextOK(messages, turn[u]) /\ turn[u] \in TurnRow
      BY <1>3, <1>8 DEF ExactInv
    <3>2. ContextOK(messages', turn[u])
      BY <3>1, <1>1, GrownIsExact
    <3> QED
      BY <3>2, <1>3, <1>8
  <2> QED
    BY <2>1, <1>8 DEF ExactInv
<1> QED
  BY <1>7, <1>8

(* A row of a turn that neither summarises, asks nor writes a skill. *)
Plainly(k) == k \in TurnRow /\ k.at \notin {"summarising", "asking", "emerging"}

LEMMA PlainTurn ==
    ASSUME NEW M, M \in Seq(Row), NEW k, Plainly(k), k.sum.covered <= Len(M), k.pending \subseteq DOMAIN M
    PROVE  Bounded(M, k) /\ ContextOK(M, k)
BY DEF Plainly, Bounded, ContextOK

(* What a turn that has read and folded all it has to goes on with. *)
LEMMA ContextGoesOn ==
    ASSUME NEW M, M \in Seq(Row), NEW k, k \in TurnRow, NEW s, s \in Summary, NEW n, n = ContextOf(M, k, s)
    PROVE  /\ n \in TurnRow /\ Bounded(M, n)
           /\ k.failed => ContextOK(M, n)
           /\ Exact(M, k.chat, s) /\ (k.recent = {} \/ Window(M, k.chat, s, {}, k.recent)) => ContextOK(M, n)
<1>1. /\ n \in TurnRow /\ n.at \in {"done", "asking"} /\ n.sum = NoSummary /\ n.pending = {}
      /\ n.at = "asking" => (n.failed <=> k.failed) /\ n.missing = Gap(M, k.chat, k.recent, s)
  BY ContextIs
<1>2. Len(M) \in Nat /\ n.sum.covered <= Len(M)
  BY <1>1, IdleIsKnown, RowsAre
<1>3. Bounded(M, n)
  BY <1>1, <1>2 DEF Bounded
<1>4. k.failed => ContextOK(M, n)
  BY <1>1 DEF ContextOK
<1>5. ASSUME Exact(M, k.chat, s), k.recent = {} \/ Window(M, k.chat, s, {}, k.recent) PROVE ContextOK(M, n)
  <2>1. Gap(M, k.chat, k.recent, s) = {}
    BY <1>5, NothingIsMissing
  <2> QED
    BY <1>1, <2>1 DEF ContextOK
<1> QED
  BY <1>1, <1>3, <1>4, <1>5

LEMMA EnsuredIs ==
    ASSUME NEW c, c \in Chats, convo \in [Chats -> Conversation]
    PROVE  /\ Ensured(c) \in [Chats -> Conversation] /\ \A d \in Chats : Ensured(c)[d].sum = convo[d].sum
           /\ Asked(c) \in [Chats -> Conversation] /\ \A d \in Chats : Asked(c)[d].sum = convo[d].sum
<1> DEFINE v == convo[c]
           asked == [v EXCEPT !.there = TRUE, !.turns = v.turns + 1]
<1>1. v \in Conversation
  OBVIOUS
<1>2. Ensured(c) = [convo EXCEPT ![c] = [v EXCEPT !.there = TRUE]] /\ Asked(c) = [convo EXCEPT ![c] = asked]
  BY DEF Ensured, Asked
<1>3. v.sum = convo[c].sum
  OBVIOUS
<1> HIDE DEF v
<1>4. [v EXCEPT !.there = TRUE] \in Conversation /\ [v EXCEPT !.there = TRUE].sum = v.sum
  BY <1>1 DEF Conversation
<1>5. asked \in Conversation /\ asked.sum = v.sum
  <2>1. v.turns + 1 \in Nat
    BY <1>1 DEF Conversation
  <2> QED
    BY <1>1, <2>1 DEF Conversation
<1> HIDE DEF asked
<1> QED
  BY <1>2, <1>3, <1>4, <1>5

(* What is read is the window of what the stored summary covers. *)
LEMMA WindowOpens ==
    ASSUME NEW c, messages \in Seq(Row), NEW s, s \in Summary, Live(c) # {}
    PROVE  Window(messages, c, s, {i \in Live(c) : s.covered < i /\ i < FirstRecent(Live(c))},
                  RecentSuffix(Live(c)))
<1> DEFINE recs == Live(c)
           recent == RecentSuffix(recs)
           first == FirstRecent(recs)
<1>1. recs = LiveIn(messages, c) /\ recs \subseteq DOMAIN messages /\ recs # {}
  BY DEF Live, LiveIn
<1> HIDE DEF recs
<1>2. recent \subseteq recs /\ first \in recent /\ recent = {i \in recs : first <= i}
  BY <1>1, RecentIsASuffix
<1> HIDE DEF recent, first
<1>3. recent \subseteq 0..Len(messages) /\ recent \subseteq Nat /\ Len(messages) \in Nat
  BY <1>1, <1>2, IdsAreFinite, RowsAre
<1>4. PICK newest \in recent : \A i \in recent : i <= newest
  BY <1>2, <1>3, MaxOfNat
<1>5. recent = {i \in LiveIn(messages, c) : first <= i /\ i <= newest}
  BY <1>1, <1>2, <1>4
<1>6. first \in DOMAIN messages /\ newest \in DOMAIN messages
  BY <1>1, <1>2, <1>4
<1>7. Window(messages, c, s, {i \in recs : s.covered < i /\ i < first}, recent)
  BY <1>1, <1>4, <1>5, <1>6 DEF Window
<1> QED
  BY <1>7 DEF recs, recent, first

LEMMA ReceiveKeeps ==
    ASSUME TurnsInv, NEW t, t \in Tasks, NEW c, c \in Chats, NEW size, size \in Nat,
           NEW asks, asks \in {"chat", "context"}, Receive(t, c, size, asks)
    PROVE  TurnsInv' /\ (ExactInv => ExactInv')
<1> DEFINE recs == Live(c)
           row == convo[c].sum
           recent == RecentSuffix(recs)
           pending == {i \in recs : row.covered < i /\ i < FirstRecent(recs)}
           k == Reading(c, size, asks, pending, row, recent)
<1>1. /\ IF pending = {} THEN Built(t, k, row) ELSE turn' = [turn EXCEPT ![t] = k]
      /\ convo' = Ensured(c) /\ messages' = messages
  BY DEF Receive, Reading
<1>2. messages \in Seq(Row) /\ convo \in [Chats -> Conversation] /\ row \in Summary /\ row.covered <= Len(messages)
  BY DEF TurnsInv, RowsInv, ConvoInv, Conversation
<1>3. recs \subseteq DOMAIN messages /\ recent \subseteq recs /\ recs \subseteq Nat
  <2>1. recs \subseteq DOMAIN messages
    BY DEF Live
  <2> HIDE DEF recs
  <2> QED
    BY <2>1, <1>2, RecentIsASuffix, IdsAreFinite
<1>4. recs # {} => Window(messages, c, row, pending, recent)
  BY <1>2, WindowOpens
<1>5. recs = {} => pending = {} /\ recent = {}
  BY <1>3
<1>6. pending \subseteq recs /\ pending \subseteq Nat /\ recent \subseteq Nat
  BY <1>3
<1>7. convo' \in [Chats -> Conversation] /\ \A d \in Chats : convo'[d].sum = convo[d].sum
  BY <1>1, <1>2, EnsuredIs
<1>8. Grows(messages, messages') /\ messages' \in Seq(Row)
  BY <1>1, <1>2, SameRows
<1>9. ConvoInv(messages', convo') /\ (ExactInv => SumsExact(messages', convo'))
  BY <1>7, <1>8, SumsStay
<1>10. ExactInv => Exact(messages, c, row)
  BY DEF ExactInv, SumsExact
<1> HIDE DEF recs, row, recent, pending
<1>15. k = Reading(c, size, asks, pending, row, recent)
  OBVIOUS
<1> HIDE DEF k
<1>11. /\ k \in TurnRow /\ k.at = "summarising" /\ k.chat = c /\ k.sum = row
       /\ k.pending = pending /\ k.recent = recent /\ ~k.failed
  <2>1. CanRead(c, size, asks, pending, row, recent)
    BY <1>2, <1>6 DEF CanRead
  <2> QED
    BY ONLY <2>1, <1>15, ReadingIs
<1>12. \E n \in TurnRow : /\ turn' = [turn EXCEPT ![t] = n] /\ Bounded(messages', n)
                          /\ ExactInv => ContextOK(messages', n)
  <2>1. CASE pending = {}
    <3> DEFINE n == ContextOf(messages, k, row)
    <3>1. turn' = [turn EXCEPT ![t] = n]
      BY <1>1, <2>1, BuiltIs
    <3>2. n \in TurnRow /\ Bounded(messages, n)
      BY <1>2, <1>11, ContextGoesOn
    <3>3. k.recent = {} \/ Window(messages, k.chat, row, {}, k.recent)
      BY <1>4, <1>5, <1>11, <2>1
    <3>4. ExactInv => ContextOK(messages, n)
      BY <1>2, <1>10, <1>11, <3>3, ContextGoesOn
    <3> HIDE DEF n
    <3> QED
      BY <1>1, <3>1, <3>2, <3>4
  <2>2. CASE pending # {}
    <3>1. turn' = [turn EXCEPT ![t] = k]
      BY <1>1, <2>2
    <3>2. Bounded(messages, k)
      BY <1>2, <1>3, <1>6, <1>11, <2>2 DEF Bounded
    <3>3. ExactInv => ContextOK(messages, k)
      BY <1>4, <1>5, <1>10, <1>11, <2>2 DEF ContextOK
    <3> QED
      BY <1>1, <1>11, <3>1, <3>2, <3>3
  <2> QED
    BY <2>1, <2>2
<1>13. PICK n \in TurnRow : /\ turn' = [turn EXCEPT ![t] = n] /\ Bounded(messages', n)
                            /\ ExactInv => ContextOK(messages', n)
  BY <1>12
<1>14. \A i \in DOMAIN messages' : i \notin DOMAIN messages => AnswerOf(messages', i)
  BY <1>1
<1> QED
  BY <1>8, <1>9, <1>13, <1>14, OneTurn

(* Folding the oldest of what is pending: the summary covers more, and the  *)
(* window shrinks.                                                          *)
LEMMA FoldingIsExact ==
    ASSUME NEW M, M \in Seq(Row), NEW c, NEW s, s \in Summary, Exact(M, c, s),
           NEW pending, NEW recent, Window(M, c, s, pending, recent),
           NEW chunk, NEW upto, upto \in chunk, chunk \subseteq pending, chunk = {i \in pending : i <= upto},
           NEW next, next.folded = s.folded \cup chunk, next.covered = upto,
           next.count = s.count + Cardinality(chunk)
    PROVE  Exact(M, c, next) /\ Window(M, c, next, pending \ chunk, recent)
<1>1. PICK first \in DOMAIN M, newest \in DOMAIN M :
             /\ newest \in recent
             /\ recent = {i \in LiveIn(M, c) : first <= i /\ i <= newest}
             /\ pending = {i \in LiveIn(M, c) : s.covered < i /\ i < first}
  BY DEF Window
<1> DEFINE live == LiveIn(M, c)
<1>2. live \subseteq DOMAIN M /\ \A i \in live : i \in Nat /\ i <= Len(M)
  BY RowsAre DEF LiveIn
<1>3. s.covered \in Nat /\ s.folded = {i \in live : i <= s.covered} /\ s.count = Cardinality(s.folded)
  BY DEF Exact, Summary
<1>4. first \in Nat
  BY <1>1, RowsAre
<1> HIDE DEF live
<1>5. upto \in live /\ upto \in Nat /\ s.covered < upto /\ upto < first /\ upto <= Len(M)
  BY <1>1, <1>2 DEF live
<1>6. next.folded = {i \in live : i <= upto}
  <2>1. ASSUME NEW i, i \in live PROVE i <= upto <=> i \in s.folded \/ i \in chunk
    <3>1. i \in Nat
      BY <1>2, <2>1
    <3>2. i \in s.folded <=> i <= s.covered
      BY <1>3, <2>1
    <3>3. i \in chunk <=> (s.covered < i /\ i < first /\ i <= upto)
      BY <1>1, <2>1 DEF live
    <3> QED
      BY <1>3, <1>4, <1>5, <3>1, <3>2, <3>3
  <2>2. s.folded \subseteq live /\ chunk \subseteq live
    BY <1>1, <1>3 DEF live
  <2> QED
    BY <2>1, <2>2
<1>7. next.count = Cardinality(next.folded)
  <2>1. IsFiniteSet(s.folded) /\ IsFiniteSet(chunk)
    <3>1. s.folded \subseteq DOMAIN M /\ chunk \subseteq DOMAIN M
      BY <1>1, <1>2, <1>3 DEF live
    <3> QED
      BY <3>1, IdsAreFinite
  <2>2. s.folded \cap chunk = {}
    <3>1. \A i \in s.folded : i \in Nat /\ i <= s.covered
      BY <1>2, <1>3
    <3>2. \A i \in chunk : s.covered < i
      BY <1>1
    <3> QED
      BY <1>3, <3>1, <3>2
  <2>3. Cardinality(s.folded \cup chunk) = Cardinality(s.folded) + Cardinality(chunk) - Cardinality(s.folded \cap chunk)
    BY <2>1, FS_Union
  <2>4. Cardinality(s.folded) \in Nat /\ Cardinality(chunk) \in Nat /\ Cardinality({}) = 0
    BY <2>1, FS_CardinalityType, FS_EmptySet
  <2>5. Cardinality(s.folded \cap chunk) = 0
    BY <2>2, <2>4
  <2>6. Cardinality(next.folded) = Cardinality(s.folded \cup chunk)
    OBVIOUS
  <2>7. Cardinality(next.folded) = Cardinality(s.folded) + Cardinality(chunk)
    BY ONLY <2>3, <2>4, <2>5, <2>6
  <2>8. next.count = s.count + Cardinality(chunk)
    OBVIOUS
  <2> QED
    BY ONLY <1>3, <2>7, <2>8
<1>8. pending \ chunk = {i \in live : upto < i /\ i < first}
  <2>1. ASSUME NEW i, i \in live PROVE i \in pending \ chunk <=> (upto < i /\ i < first)
    <3>1. i \in Nat
      BY <1>2, <2>1
    <3>2. i \in pending <=> (s.covered < i /\ i < first)
      BY <1>1, <2>1 DEF live
    <3>3. i \in chunk <=> (i \in pending /\ i <= upto)
      OBVIOUS
    <3> QED
      BY <1>3, <1>4, <1>5, <3>1, <3>2, <3>3
  <2>2. pending \subseteq live
    BY <1>1 DEF live
  <2> QED
    BY <2>1, <2>2
<1> QED
  BY <1>1, <1>5, <1>6, <1>7, <1>8 DEF Exact, Window, live

LEMMA SavedIs ==
    ASSUME NEW c, c \in Chats, NEW s, s \in Summary, convo \in [Chats -> Conversation]
    PROVE  /\ SavedSummary(c, s) \in [Chats -> Conversation] /\ SavedSummary(c, s)[c].sum = s
           /\ \A d \in Chats : d # c => SavedSummary(c, s)[d] = convo[d]
<1> DEFINE v == convo[c]
           saved == [v EXCEPT !.there = TRUE, !.sum = s]
<1>1. v \in Conversation
  OBVIOUS
<1>2. SavedSummary(c, s) = [convo EXCEPT ![c] = saved]
  BY DEF SavedSummary
<1> HIDE DEF v
<1>3. saved \in Conversation /\ saved.sum = s
  BY <1>1 DEF Conversation
<1> HIDE DEF saved
<1> QED
  BY <1>2, <1>3

(* A row that is summarising goes on: with another part, with what is left  *)
(* to fold, with all of it folded, and without.                             *)
NextPart(k) == [k EXCEPT !.part = k.part + 1]
FoldMore(k, rest, s) == [k EXCEPT !.pending = rest, !.sum = s, !.part = 0]
AllFolded(k, s) == [k EXCEPT !.sum = s, !.part = 0]
Unfolded(k) == [k EXCEPT !.failed = TRUE, !.part = 0]

LEMMA FoldingGoesOn ==
    ASSUME NEW k, k \in TurnRow, NEW s, s \in Summary, NEW rest, rest \subseteq Nat
    PROVE  /\ NextPart(k) \in TurnRow /\ NextPart(k).at = k.at /\ NextPart(k).chat = k.chat
           /\ NextPart(k).sum = k.sum /\ NextPart(k).pending = k.pending /\ NextPart(k).recent = k.recent
           /\ FoldMore(k, rest, s) \in TurnRow /\ FoldMore(k, rest, s).at = k.at
           /\ FoldMore(k, rest, s).chat = k.chat /\ FoldMore(k, rest, s).sum = s
           /\ FoldMore(k, rest, s).pending = rest /\ FoldMore(k, rest, s).recent = k.recent
           /\ AllFolded(k, s) \in TurnRow /\ AllFolded(k, s).chat = k.chat /\ AllFolded(k, s).recent = k.recent
           /\ Unfolded(k) \in TurnRow /\ Unfolded(k).failed /\ Unfolded(k).chat = k.chat
<1>1. k.part + 1 \in Nat /\ 0 \in Nat
  BY DEF TurnRow
<1>2. NextPart(k) \in TurnRow /\ FoldMore(k, rest, s) \in TurnRow
  BY <1>1 DEF TurnRow, NextPart, FoldMore
<1>3. AllFolded(k, s) \in TurnRow /\ Unfolded(k) \in TurnRow
  BY <1>1 DEF TurnRow, AllFolded, Unfolded
<1>4. DOMAIN k = {"at", "chat", "size", "asks", "pending", "part", "sum", "recent", "failed", "missing", "of", "due"}
  BY DEF TurnRow
<1>5. /\ NextPart(k).at = k.at /\ NextPart(k).chat = k.chat
      /\ NextPart(k).sum = k.sum /\ NextPart(k).pending = k.pending /\ NextPart(k).recent = k.recent
  BY <1>4 DEF NextPart
<1>6. /\ FoldMore(k, rest, s).at = k.at
      /\ FoldMore(k, rest, s).chat = k.chat /\ FoldMore(k, rest, s).sum = s
      /\ FoldMore(k, rest, s).pending = rest /\ FoldMore(k, rest, s).recent = k.recent
  BY <1>4 DEF FoldMore
<1>7. /\ AllFolded(k, s).chat = k.chat /\ AllFolded(k, s).recent = k.recent
      /\ Unfolded(k).failed /\ Unfolded(k).chat = k.chat
  BY <1>4 DEF AllFolded, Unfolded
<1> QED
  BY <1>2, <1>3, <1>5, <1>6, <1>7

LEMMA SummaryAnswersKeeps ==
    ASSUME TurnsInv, NEW t, t \in Tasks, SummaryAnswers(t)
    PROVE  TurnsInv' /\ (ExactInv => ExactInv')
<1> DEFINE k == turn[t]
           chunk == NextChunk(k.pending)
           rest == k.pending \ chunk
           s == [folded |-> k.sum.folded \cup chunk, covered |-> Max(chunk), count |-> k.sum.count + Cardinality(chunk)]
           later == NextPart(k)
           more == FoldMore(k, rest, s)
           all == AllFolded(k, s)
<1>1. /\ k.at = "summarising" /\ chunk # {} /\ messages' = messages
      /\ \/ convo' = convo /\ turn' = [turn EXCEPT ![t].part = @ + 1]
         \/ convo' = SavedSummary(k.chat, s) /\ rest = {} /\ Built(t, all, s)
         \/ convo' = SavedSummary(k.chat, s) /\ rest # {}
              /\ turn' = [turn EXCEPT ![t].pending = rest, ![t].sum = s, ![t].part = 0]
  BY DEF SummaryAnswers, AllFolded
<1>2. messages \in Seq(Row) /\ convo \in [Chats -> Conversation] /\ turn \in [Tasks -> TurnRow]
      /\ k \in TurnRow /\ Bounded(messages, k)
  BY DEF TurnsInv, RowsInv, ConvoInv, TurnInv
<1>3. [turn EXCEPT ![t].part = @ + 1] = [turn EXCEPT ![t] = later]
  BY <1>2 DEF NextPart
<1>4. [turn EXCEPT ![t].pending = rest, ![t].sum = s, ![t].part = 0] = [turn EXCEPT ![t] = more]
  <2> HIDE DEF s, rest
  <2> QED
    BY <1>2 DEF FoldMore
<1>5. k.pending \subseteq DOMAIN messages /\ k.pending # {} /\ k.chat \in Chats /\ k.sum \in Summary
  BY <1>1, <1>2 DEF Bounded, TurnRow
<1>6. chunk \subseteq k.pending /\ Max(chunk) \in chunk /\ chunk = {i \in k.pending : i <= Max(chunk)}
  BY <1>1, <1>2, <1>5, ChunkIsAPrefix
<1>7. s.folded = k.sum.folded \cup chunk /\ s.covered = Max(chunk) /\ s.count = k.sum.count + Cardinality(chunk)
  OBVIOUS
<1>8. s \in Summary /\ s.covered <= Len(messages)
  <2>1. chunk \subseteq DOMAIN messages
    BY <1>5, <1>6
  <2>2. IsFiniteSet(chunk) /\ chunk \subseteq Nat
    BY <1>2, <2>1, IdsAreFinite
  <2>3. Cardinality(chunk) \in Nat
    BY <2>2, FS_CardinalityType
  <2>4. Max(chunk) \in Nat /\ Max(chunk) <= Len(messages)
    BY <1>2, <1>6, <2>1, RowsAre
  <2>5. k.sum.folded \cup chunk \in SUBSET Nat /\ k.sum.count + Cardinality(chunk) \in Nat
    BY <1>5, <2>2, <2>3 DEF Summary
  <2> HIDE DEF chunk, k
  <2> QED
    BY <2>4, <2>5 DEF Summary
<1>9. rest \subseteq k.pending /\ rest \subseteq DOMAIN messages /\ rest \subseteq Nat
  <2>1. rest \subseteq DOMAIN messages /\ rest \subseteq k.pending
    BY <1>5
  <2> HIDE DEF rest
  <2> QED
    BY <1>2, <2>1, IdsAreFinite
<1>10. ExactInv => Exact(messages, k.chat, k.sum) /\ Window(messages, k.chat, k.sum, k.pending, k.recent)
  BY <1>1 DEF ExactInv, ContextOK
<1>11. ExactInv => Exact(messages, k.chat, s) /\ Window(messages, k.chat, s, rest, k.recent)
  <2> HIDE DEF s, chunk
  <2>1. ASSUME ExactInv PROVE Exact(messages, k.chat, s) /\ Window(messages, k.chat, s, k.pending \ chunk, k.recent)
    BY <1>2, <1>5, <1>6, <1>7, <1>10, <2>1, FoldingIsExact
  <2> QED
    BY <2>1
<1> HIDE DEF s, rest, chunk, later, more, all
<1>12. /\ later \in TurnRow /\ more \in TurnRow /\ all \in TurnRow
       /\ later.at = k.at /\ later.chat = k.chat /\ later.sum = k.sum /\ later.pending = k.pending
       /\ later.recent = k.recent
       /\ more.at = k.at /\ more.chat = k.chat /\ more.sum = s /\ more.pending = rest /\ more.recent = k.recent
       /\ all.chat = k.chat /\ all.recent = k.recent
  BY <1>2, <1>8, <1>9, FoldingGoesOn DEF later, more, all
<1>13. Grows(messages, messages') /\ \A i \in DOMAIN messages' : i \notin DOMAIN messages => AnswerOf(messages', i)
  BY <1>1, <1>2, SameRows
<1>14. CASE convo' = convo /\ turn' = [turn EXCEPT ![t] = later]
  <2>1. Bounded(messages', later)
    BY <1>1, <1>2, <1>12 DEF Bounded
  <2>2. ExactInv => ContextOK(messages', later)
    BY <1>1, <1>10, <1>12 DEF ContextOK
  <2>3. ConvoInv(messages', convo') /\ (ExactInv => SumsExact(messages', convo'))
    BY <1>2, <1>13, <1>14, SumsStay
  <2> QED
    BY <1>12, <1>13, <1>14, <2>1, <2>2, <2>3, OneTurn
<1>15. ASSUME convo' = SavedSummary(k.chat, s)
       PROVE  ConvoInv(messages', convo') /\ (ExactInv => SumsExact(messages', convo'))
  <2>1. /\ convo' \in [Chats -> Conversation] /\ convo'[k.chat].sum = s
        /\ \A d \in Chats : d # k.chat => convo'[d] = convo[d]
    BY <1>2, <1>5, <1>8, <1>15, SavedIs
  <2>2. \A d \in Chats : convo[d].sum.covered <= Len(messages)
    BY DEF TurnsInv, ConvoInv
  <2>3. ConvoInv(messages', convo')
    BY <1>1, <1>8, <2>1, <2>2 DEF ConvoInv
  <2>4. ExactInv => SumsExact(messages', convo')
    BY <1>1, <1>11, <2>1 DEF ExactInv, SumsExact
  <2> QED
    BY <2>3, <2>4
<1>16. CASE convo' = SavedSummary(k.chat, s) /\ rest # {} /\ turn' = [turn EXCEPT ![t] = more]
  <2>1. Bounded(messages', more)
    BY <1>1, <1>8, <1>9, <1>12, <1>16 DEF Bounded
  <2>2. ExactInv => ContextOK(messages', more)
    BY <1>1, <1>11, <1>12 DEF ContextOK
  <2> QED
    BY <1>12, <1>13, <1>15, <1>16, <2>1, <2>2, OneTurn
<1>17. CASE convo' = SavedSummary(k.chat, s) /\ rest = {} /\ Built(t, all, s)
  <2> DEFINE n == ContextOf(messages, all, s)
  <2>1. turn' = [turn EXCEPT ![t] = n]
    BY <1>17, BuiltIs
  <2>2. n \in TurnRow /\ Bounded(messages, n)
    BY <1>2, <1>8, <1>12, ContextGoesOn
  <2>3. ExactInv => ContextOK(messages, n)
    <3>1. ASSUME ExactInv PROVE Exact(messages, all.chat, s) /\ Window(messages, all.chat, s, {}, all.recent)
      BY <1>11, <1>12, <1>17, <3>1
    <3> QED
      BY <1>2, <1>8, <1>12, <3>1, ContextGoesOn
  <2> HIDE DEF n
  <2> QED
    BY <1>1, <1>13, <1>15, <1>17, <2>1, <2>2, <2>3, OneTurn
<1> QED
  BY <1>1, <1>3, <1>4, <1>14, <1>16, <1>17

LEMMA SummaryFailsKeeps ==
    ASSUME TurnsInv, NEW t, t \in Tasks, SummaryFails(t)
    PROVE  TurnsInv' /\ (ExactInv => ExactInv')
<1> DEFINE k == turn[t]
           row == convo[k.chat].sum
           n == ContextOf(messages, Unfolded(k), row)
<1>1. messages' = messages /\ convo' = convo /\ turn' = [turn EXCEPT ![t] = n]
  BY BuiltIs DEF SummaryFails, Unfolded
<1>2. messages \in Seq(Row) /\ convo \in [Chats -> Conversation] /\ k \in TurnRow
  BY DEF TurnsInv, RowsInv, ConvoInv, TurnInv
<1>3. row \in Summary
  BY <1>2 DEF TurnRow, Conversation
<1> HIDE DEF k, row
<1>4. Unfolded(k) \in TurnRow /\ Unfolded(k).failed
  <2>1. {} \subseteq Nat
    OBVIOUS
  <2> QED
    BY <1>2, <1>3, <2>1, FoldingGoesOn
<1>5. n \in TurnRow /\ Bounded(messages, n) /\ ContextOK(messages, n)
  BY <1>2, <1>3, <1>4, ContextGoesOn
<1> HIDE DEF n
<1>6. Grows(messages, messages') /\ \A i \in DOMAIN messages' : i \notin DOMAIN messages => AnswerOf(messages', i)
  BY <1>1, <1>2, SameRows
<1>7. ConvoInv(messages', convo') /\ (ExactInv => SumsExact(messages', convo'))
  BY <1>1, <1>2, <1>6, SumsStay
<1> QED
  BY <1>1, <1>5, <1>6, <1>7, OneTurn

(* Steps that say no more than how far a turn is. *)
LEMMA RestKeeps ==
    ASSUME TurnsInv, NEW t, t \in Tasks, NEW n, Plainly(n), n.sum.covered <= Len(messages),
           n.pending \subseteq DOMAIN messages, turn' = [turn EXCEPT ![t] = n], messages' = messages,
           convo' \in [Chats -> Conversation], \A c \in Chats : convo'[c].sum = convo[c].sum
    PROVE  TurnsInv' /\ (ExactInv => ExactInv')
<1>1. messages \in Seq(Row) /\ n \in TurnRow
  BY DEF TurnsInv, RowsInv, Plainly
<1>2. Grows(messages, messages') /\ \A i \in DOMAIN messages' : i \notin DOMAIN messages => AnswerOf(messages', i)
  BY <1>1, SameRows
<1>3. ConvoInv(messages', convo') /\ (ExactInv => SumsExact(messages', convo'))
  BY <1>1, <1>2, SumsStay
<1>4. Bounded(messages', n) /\ ContextOK(messages', n)
  BY <1>1, PlainTurn
<1> QED
  BY <1>1, <1>2, <1>3, <1>4, OneTurn

(* A turn that is idle, or done. *)
LEMMA RestIs ==
    ASSUME NEW c, c \in Chats
    PROVE  /\ Plainly(Idle) /\ Idle.sum.covered = 0 /\ Idle.pending = {}
           /\ LET d == [Idle EXCEPT !.at = "done", !.chat = c]
              IN  Plainly(d) /\ d.sum.covered = 0 /\ d.pending = {}
<1>1. Plainly(Idle) /\ Idle.sum.covered = 0 /\ Idle.pending = {}
  BY IdleIsKnown DEF Plainly
<1> DEFINE d == [Idle EXCEPT !.at = "done", !.chat = c]
<1>2. d \in TurnRow /\ d.at = "done" /\ d.sum = NoSummary /\ d.pending = {}
  BY IdleIsKnown DEF TurnRow, Labels
<1>3. Plainly(d) /\ d.sum.covered = 0 /\ d.pending = {}
  BY <1>2, IdleIsKnown DEF Plainly
<1> QED
  BY <1>1, <1>3

LEMMA IdleKeeps ==
    ASSUME TurnsInv, NEW t, t \in Tasks, turn' = [turn EXCEPT ![t] = Idle],
           messages' = messages, convo' = convo
    PROVE  TurnsInv' /\ (ExactInv => ExactInv')
<1>1. messages \in Seq(Row) /\ convo \in [Chats -> Conversation]
  BY DEF TurnsInv, RowsInv, ConvoInv
<1>2. Plainly(Idle) /\ Idle.sum.covered <= Len(messages) /\ Idle.pending \subseteq DOMAIN messages
  <2>1. Plainly(Idle) /\ Idle.sum.covered = 0 /\ Idle.pending = {}
    BY IdleIsKnown, RestIs
  <2>2. Len(messages) \in Nat
    BY <1>1, RowsAre
  <2> QED
    BY <2>1, <2>2
<1> QED
  BY <1>1, <1>2, RestKeeps

LEMMA FailingKeeps ==
    ASSUME TurnsInv, NEW t, t \in Tasks, TurnFails(t)
    PROVE  TurnsInv' /\ (ExactInv => ExactInv')
<1>1. messages \in Seq(Row) /\ convo \in [Chats -> Conversation] /\ turn[t] \in TurnRow
  BY DEF TurnsInv, RowsInv, ConvoInv, TurnInv
<1> DEFINE d == [Idle EXCEPT !.at = "done", !.chat = turn[t].chat]
<1>2. turn' = [turn EXCEPT ![t] = d] /\ messages' = messages /\ convo' = convo
  BY DEF TurnFails
<1>3. turn[t].chat \in Chats
  BY <1>1 DEF TurnRow
<1>4. Plainly(d) /\ d.sum.covered = 0 /\ d.pending = {}
  BY <1>3, RestIs
<1> HIDE DEF d
<1>5. d.sum.covered <= Len(messages) /\ d.pending \subseteq DOMAIN messages
  BY <1>1, <1>4, RowsAre
<1> QED
  BY <1>1, <1>2, <1>4, <1>5, RestKeeps

LEMMA LabelKeeps ==
    ASSUME TurnsInv, NEW t, t \in Tasks, NEW l, l \in Labels \ {"summarising", "asking", "emerging"},
           turn' = [turn EXCEPT ![t].at = l], messages' = messages,
           convo' \in [Chats -> Conversation], \A c \in Chats : convo'[c].sum = convo[c].sum
    PROVE  TurnsInv' /\ (ExactInv => ExactInv')
<1> DEFINE k == turn[t]
           n == [k EXCEPT !.at = l]
<1>1. turn \in [Tasks -> TurnRow] /\ k \in TurnRow /\ Bounded(messages, k)
  BY DEF TurnsInv, TurnInv
<1>2. turn' = [turn EXCEPT ![t] = n]
  BY <1>1
<1> HIDE DEF k
<1>3. n \in TurnRow
  BY <1>1 DEF TurnRow
<1>4. n.at = l /\ n.sum = k.sum /\ n.pending = k.pending
  BY <1>1 DEF TurnRow
<1> HIDE DEF n
<1>5. Plainly(n)
  BY <1>3, <1>4 DEF Plainly
<1>6. n.sum.covered <= Len(messages) /\ n.pending \subseteq DOMAIN messages
  BY <1>1, <1>4 DEF Bounded
<1> QED
  BY <1>2, <1>5, <1>6, RestKeeps

LEMMA TitlingKeeps ==
    ASSUME TurnsInv, NEW t, t \in Tasks,
           FactsAreExtracted(t) \/ LookForTitle(t) \/ \E generated \in BOOLEAN : Titled(t, generated)
    PROVE  TurnsInv' /\ (ExactInv => ExactInv')
<1>1. messages \in Seq(Row) /\ convo \in [Chats -> Conversation] /\ turn[t] \in TurnRow
  BY DEF TurnsInv, RowsInv, ConvoInv, TurnInv
<1>2. turn[t].chat \in Chats
  BY <1>1 DEF TurnRow
<1>3. [convo EXCEPT ![turn[t].chat].titled = TRUE] \in [Chats -> Conversation]
      /\ \A c \in Chats : [convo EXCEPT ![turn[t].chat].titled = TRUE][c].sum = convo[c].sum
  <2> DEFINE c == turn[t].chat
             v == convo[c]
             titled == [v EXCEPT !.titled = TRUE]
  <2>1. v \in Conversation /\ c \in Chats /\ v = convo[c]
    BY <1>1, <1>2
  <2>2. [convo EXCEPT ![c].titled = TRUE] = [convo EXCEPT ![c] = titled]
    OBVIOUS
  <2> HIDE DEF v, c
  <2>3. titled \in Conversation /\ titled.sum = v.sum
    BY <2>1 DEF Conversation
  <2> HIDE DEF titled
  <2>4. [convo EXCEPT ![c].titled = TRUE] \in [Chats -> Conversation]
        /\ \A d \in Chats : [convo EXCEPT ![c].titled = TRUE][d].sum = convo[d].sum
    BY <1>1, <2>1, <2>2, <2>3
  <2> QED
    BY <2>4 DEF c
<1>4. messages' = messages /\ convo' \in [Chats -> Conversation] /\ \A c \in Chats : convo'[c].sum = convo[c].sum
  BY <1>1, <1>3 DEF FactsAreExtracted, LookForTitle, Titled
<1>5. \E l \in Labels \ {"summarising", "asking", "emerging"} : turn' = [turn EXCEPT ![t].at = l]
  BY DEF FactsAreExtracted, LookForTitle, Titled, Labels
<1>6. PICK l \in Labels \ {"summarising", "asking", "emerging"} : turn' = [turn EXCEPT ![t].at = l]
  BY <1>5
<1> QED
  BY <1>4, <1>6, LabelKeeps

-----------------------------------------------------------------------------
(* Steps that add rows *)

LEMMA AppendIs ==
    ASSUME NEW M, M \in Seq(Row), NEW q, q \in Row
    PROVE  /\ Append(M, q) \in Seq(Row) /\ Len(Append(M, q)) = Len(M) + 1 /\ Grows(M, Append(M, q))
           /\ Append(M, q)[Len(M) + 1] = q
           /\ DOMAIN Append(M, q) = 1..(Len(M) + 1)
<1> DEFINE N == Append(M, q)
<1>1. N \in Seq(Row) /\ Len(N) = Len(M) + 1 /\ N[Len(M) + 1] = q
      /\ \A i \in 1..Len(M) : N[i] = M[i]
  BY AppendProperties
<1>2. Len(M) \in Nat /\ DOMAIN M = 1..Len(M)
  BY RowsAre
<1> HIDE DEF N
<1>4. DOMAIN N = 1..(Len(M) + 1)
  BY <1>1, RowsAre
<1>5. Grows(M, N)
  BY <1>1, <1>2, <1>4 DEF Grows
<1> QED
  BY <1>1, <1>4, <1>5 DEF N

CanSay(c, role, of, size, kind) ==
    c \in Chats /\ role \in {"user", "assistant"} /\ of \in Nat /\ size \in Nat /\ kind \in {"chat", "skill"}

LEMMA MessageIs ==
    ASSUME NEW c, NEW role, NEW of, NEW size, NEW kind, CanSay(c, role, of, size, kind)
    PROVE  /\ Message(c, role, of, size, kind) \in Row /\ Message(c, role, of, size, kind).chat = c
           /\ Message(c, role, of, size, kind).role = role /\ Message(c, role, of, size, kind).of = of
           /\ Message(c, role, of, size, kind).kind = kind
BY DEF CanSay, Message, Row

LEMMA GrowsOnce ==
    ASSUME NEW M, M \in Seq(Row), NEW N, Grows(M, N), NEW O, Grows(N, O)
    PROVE  Grows(M, O)
<1>1. Len(M) \in Nat /\ Len(N) \in Nat /\ Len(O) \in Nat
  BY RowsAre DEF Grows
<1> QED
  BY <1>1 DEF Grows

(* A row that is added to M: to answer a question, or to ask one. *)
LEMMA RowIsAdded ==
    ASSUME NEW M, M \in Seq(Row), NEW m, m \in Row, m.of \in 1..(Len(M) + 1),
           m.role = "user" \/ m.kind = "skill"
    PROVE  Adds(M, Append(M, m)) /\ Len(M) + 1 \in DOMAIN Append(M, m) /\ Append(M, m)[Len(M) + 1] = m
<1> DEFINE N == Append(M, m)
           id == Len(M) + 1
<1>1. Grows(M, N) /\ DOMAIN N = 1..id /\ N[id] = m
  BY AppendIs
<1>2. Len(M) \in Nat /\ DOMAIN M = 1..Len(M)
  BY RowsAre
<1> HIDE DEF N
<1>3. \A i \in DOMAIN N : i \notin DOMAIN M => i = id
  BY <1>1, <1>2
<1>4. "user" # "assistant" /\ "chat" # "skill"
  OBVIOUS
<1>5. AnswerOf(N, id)
  BY <1>1, <1>4 DEF AnswerOf
<1>6. id \in DOMAIN N
  BY <1>1, <1>2
<1> QED
  BY <1>1, <1>3, <1>5, <1>6 DEF Adds, N

(* A question and its answer, one after the other. *)
LEMMA AnswerIsAdded ==
    ASSUME NEW M, M \in Seq(Row), NEW q, q \in Row, NEW a, a \in Row,
           q.of = Len(M) + 1, q.role = "user", a.of = Len(M) + 1, a.chat = q.chat
    PROVE  Adds(M, Append(Append(M, q), a))
<1> DEFINE id == Len(M) + 1
           Q == Append(M, q)
           N == Append(Q, a)
<1>1. Len(M) \in Nat /\ DOMAIN M = 1..Len(M) /\ id = Len(M) + 1 /\ id \in Nat /\ id \in 1..id
  BY RowsAre
<1>2. Q \in Seq(Row) /\ Grows(M, Q) /\ Len(Q) = id /\ Q[id] = q /\ DOMAIN Q = 1..id
  BY AppendIs
<1> HIDE DEF Q
<1>3. Grows(Q, N) /\ N[id + 1] = a /\ DOMAIN N = 1..(id + 1)
  <2>1. Grows(Q, N) /\ N[Len(Q) + 1] = a /\ DOMAIN N = 1..(Len(Q) + 1)
    BY <1>2, AppendIs
  <2> QED
    BY <2>1, <1>2
<1> HIDE DEF N, id
<1>4. N[id] = q
  BY <1>1, <1>2, <1>3 DEF Grows
<1>5. AnswerOf(N, id)
  <2>1. N[id].of \in 1..id /\ N[id].role = "user" /\ "user" # "assistant"
    BY <1>1, <1>4
  <2> QED
    BY <2>1 DEF AnswerOf
<1>6. AnswerOf(N, id + 1)
  <2>1. (id + 1) - 1 = id /\ id \in 1..(id + 1)
    BY <1>1
  <2>2. N[id + 1].of = id /\ N[id].role = "user" /\ N[id].chat = N[id + 1].chat
    BY <1>1, <1>3, <1>4
  <2> QED
    BY <2>1, <2>2 DEF AnswerOf
<1>7. \A i \in DOMAIN N : i \notin DOMAIN M => i = id \/ i = id + 1
  BY <1>1, <1>3
<1>8. Grows(M, N)
  BY <1>2, <1>3, GrowsOnce
<1> QED
  BY <1>5, <1>6, <1>7, <1>8 DEF Adds, Q, N

LEMMA TwoAreAppended ==
    ASSUME NEW M, M \in Seq(Row), NEW q, q \in Row, NEW a, a \in Row
    PROVE  M \o <<q, a>> = Append(Append(M, q), a)
OBVIOUS

(* A turn that stores rows, in a conversation that is there from then on. *)
LEMMA StoringKeeps ==
    ASSUME TurnsInv, NEW t, t \in Tasks, NEW n, n \in TurnRow, turn' = [turn EXCEPT ![t] = n],
           n.sum = NoSummary, n.pending = {}, n.at \notin {"summarising", "asking"},
           n.at = "emerging" => n.of \in DOMAIN messages' /\ messages'[n.of].kind = "skill",
           Adds(messages, messages'), NEW c, c \in Chats, convo' = Asked(c) \/ convo' = Ensured(c)
    PROVE  TurnsInv' /\ (ExactInv => ExactInv')
<1>1. messages \in Seq(Row) /\ convo \in [Chats -> Conversation]
  BY DEF TurnsInv, RowsInv, ConvoInv
<1>2. convo' \in [Chats -> Conversation] /\ \A d \in Chats : convo'[d].sum = convo[d].sum
  BY <1>1, EnsuredIs
<1>3. Grows(messages, messages') /\ \A i \in DOMAIN messages' : i \notin DOMAIN messages => AnswerOf(messages', i)
  BY DEF Adds
<1>4. ConvoInv(messages', convo') /\ (ExactInv => SumsExact(messages', convo'))
  BY <1>2, <1>3, SumsStay
<1>5. n.sum.covered <= Len(messages')
  <2>1. Len(messages') \in Nat /\ n.sum.covered = 0
    BY <1>3, IdleIsKnown, RowsAre DEF Grows
  <2> QED
    BY <2>1
<1>6. Bounded(messages', n) /\ ContextOK(messages', n)
  BY <1>5 DEF Bounded, ContextOK
<1> QED
  BY <1>3, <1>4, <1>6, OneTurn

LEMMA FactsDue == \A k : FactsAreDue(k) \in BOOLEAN
BY DEF FactsAreDue

LEMMA ModelAnswersKeeps ==
    ASSUME TurnsInv, NEW t, t \in Tasks, NEW size, size \in Nat, ModelAnswers(t, size)
    PROVE  TurnsInv' /\ (ExactInv => ExactInv')
<1> DEFINE k == turn[t]
           id == Len(messages) + 1
           due == FactsAreDue(SyncedTurns(k.chat, convo[k.chat].turns + 1))
           n == Stored(k, id, due)
           q == Message(k.chat, "user", id, k.size, "chat")
           a == Message(k.chat, "assistant", id, size, "chat")
<1>1. turn' = [turn EXCEPT ![t] = n] /\ messages' = messages \o <<q, a>> /\ convo' = Asked(k.chat)
  BY DEF ModelAnswers
<1>2. messages \in Seq(Row) /\ k \in TurnRow /\ k.chat \in Chats /\ k.size \in Nat
  BY DEF TurnsInv, RowsInv, TurnInv, TurnRow
<1>3. id \in Nat /\ id = Len(messages) + 1
  BY <1>2, RowsAre
<1>4. due \in BOOLEAN
  BY FactsDue
<1> HIDE DEF k, id, due
<1>5. n \in TurnRow /\ n.at \in {"extracting", "finishing"} /\ n.sum = NoSummary /\ n.pending = {}
  <2>1. CanStore(k, id, due)
    BY <1>2, <1>3, <1>4 DEF CanStore
  <2> QED
    BY <2>1, StoredIs DEF IsStored
<1>6. CanSay(k.chat, "user", id, k.size, "chat") /\ CanSay(k.chat, "assistant", id, size, "chat")
  BY <1>2, <1>3 DEF CanSay
<1>7. q \in Row /\ q.of = id /\ q.role = "user" /\ q.chat = k.chat /\ a \in Row /\ a.of = id /\ a.chat = k.chat
  BY <1>6, MessageIs
<1> HIDE DEF q, a, n
<1>8. Adds(messages, Append(Append(messages, q), a))
  BY <1>2, <1>3, <1>7, AnswerIsAdded
<1>9. Adds(messages, messages')
  <2>1. messages \o <<q, a>> = Append(Append(messages, q), a)
    BY <1>2, <1>7, TwoAreAppended
  <2>2. messages' = messages \o <<q, a>>
    BY <1>1
  <2> QED
    BY ONLY <1>8, <2>1, <2>2
<1> QED
  BY <1>1, <1>2, <1>5, <1>9, StoringKeeps

LEMMA SkillIsRequestedKeeps ==
    ASSUME TurnsInv, NEW t, t \in Tasks, SkillIsRequested(t)
    PROVE  TurnsInv' /\ (ExactInv => ExactInv')
<1> DEFINE k == turn[t]
           id == Len(messages) + 1
           due == FactsAreDue(SyncedTurns(k.chat, convo[k.chat].turns + 1))
           n == Emerging(k, id, due)
           q == Message(k.chat, "user", id, k.size, "skill")
<1>1. turn' = [turn EXCEPT ![t] = n] /\ messages' = Append(messages, q) /\ convo' = Asked(k.chat)
  BY DEF SkillIsRequested, Emerging
<1>2. messages \in Seq(Row) /\ k \in TurnRow /\ k.chat \in Chats /\ k.size \in Nat
  BY DEF TurnsInv, RowsInv, TurnInv, TurnRow
<1>3. id \in Nat /\ id = Len(messages) + 1 /\ id \in 1..id
  BY <1>2, RowsAre
<1>4. due \in BOOLEAN
  BY FactsDue
<1> HIDE DEF k, id, due
<1>5. n \in TurnRow /\ n.at = "emerging" /\ n.sum = NoSummary /\ n.pending = {} /\ n.of = id
  <2>1. CanStore(k, id, due)
    BY <1>2, <1>3, <1>4 DEF CanStore
  <2> QED
    BY <2>1, StoredIs DEF IsEmerging
<1>6. CanSay(k.chat, "user", id, k.size, "skill")
  BY <1>2, <1>3 DEF CanSay
<1>7. q \in Row /\ q.of = id /\ q.role = "user" /\ q.kind = "skill"
  BY <1>6, MessageIs
<1> HIDE DEF q, n
<1>8. Adds(messages, messages') /\ id \in DOMAIN messages' /\ messages'[id] = q
  BY <1>1, <1>2, <1>3, <1>7, RowIsAdded
<1> QED
  BY <1>1, <1>2, <1>5, <1>7, <1>8, StoringKeeps

LEMMA SkillIsWrittenKeeps ==
    ASSUME TurnsInv, NEW t, t \in Tasks, NEW size, size \in Nat, SkillIsWritten(t, size)
    PROVE  TurnsInv' /\ (ExactInv => ExactInv')
<1> DEFINE k == turn[t]
           n == Stored(k, k.of, k.due)
           kind == messages[k.of].kind
           a == Message(k.chat, "assistant", k.of, size, kind)
<1>1. /\ k.at = "emerging" /\ turn' = [turn EXCEPT ![t] = n] /\ messages' = Append(messages, a)
      /\ convo' = Ensured(k.chat)
  BY DEF SkillIsWritten
<1>2. messages \in Seq(Row) /\ k \in TurnRow /\ Bounded(messages, k)
  BY DEF TurnsInv, RowsInv, TurnInv
<1>3. k.chat \in Chats /\ k.of \in Nat /\ k.due \in BOOLEAN
  BY <1>2 DEF TurnRow
<1>4. k.of \in DOMAIN messages /\ kind = "skill"
  BY <1>1, <1>2 DEF Bounded
<1>5. k.of \in 1..(Len(messages) + 1)
  BY <1>2, <1>4, RowsAre
<1> HIDE DEF k, kind
<1>6. n \in TurnRow /\ n.at \in {"extracting", "finishing"} /\ n.sum = NoSummary /\ n.pending = {}
  <2>1. CanStore(k, k.of, k.due)
    BY <1>2, <1>3 DEF CanStore
  <2> QED
    BY <2>1, StoredIs DEF IsStored
<1>7. CanSay(k.chat, "assistant", k.of, size, kind)
  BY <1>3, <1>4 DEF CanSay
<1>8. a \in Row /\ a.of = k.of /\ a.kind = "skill"
  BY <1>4, <1>7, MessageIs
<1> HIDE DEF a, n
<1>9. Adds(messages, messages')
  BY <1>1, <1>2, <1>5, <1>8, RowIsAdded
<1> QED
  BY <1>1, <1>3, <1>6, <1>9, StoringKeeps

-----------------------------------------------------------------------------
(* Deletions, ends of the process, the start *)

Deleted(M, c) == [i \in DOMAIN M |-> IF M[i].chat = c THEN [M[i] EXCEPT !.live = FALSE] ELSE M[i]]

LEMMA DeletedIs ==
    ASSUME NEW M, M \in Seq(Row), NEW c
    PROVE  /\ Deleted(M, c) \in Seq(Row) /\ Len(Deleted(M, c)) = Len(M) /\ DOMAIN Deleted(M, c) = DOMAIN M
           /\ \A i \in DOMAIN M : /\ Deleted(M, c)[i].chat = M[i].chat /\ Deleted(M, c)[i].role = M[i].role
                                  /\ Deleted(M, c)[i].of = M[i].of /\ Deleted(M, c)[i].kind = M[i].kind
           /\ \A d : d # c => LiveIn(Deleted(M, c), d) = LiveIn(M, d)
<1> DEFINE N == Deleted(M, c)
<1>1. Len(M) \in Nat /\ DOMAIN M = 1..Len(M) /\ \A i \in DOMAIN M : M[i] \in Row
  BY RowsAre
<1>2. DOMAIN N = DOMAIN M /\ \A i \in DOMAIN M : N[i] = IF M[i].chat = c THEN [M[i] EXCEPT !.live = FALSE] ELSE M[i]
  BY DEF Deleted
<1> HIDE DEF N
<1>3. ASSUME NEW m, m \in Row
      PROVE  /\ [m EXCEPT !.live = FALSE] \in Row
             /\ [m EXCEPT !.live = FALSE].chat = m.chat /\ [m EXCEPT !.live = FALSE].role = m.role
             /\ [m EXCEPT !.live = FALSE].of = m.of /\ [m EXCEPT !.live = FALSE].kind = m.kind
  BY <1>3 DEF Row
<1>4. \A i \in DOMAIN M : N[i] \in Row /\ N[i].chat = M[i].chat /\ N[i].role = M[i].role
                        /\ N[i].of = M[i].of /\ N[i].kind = M[i].kind
  BY <1>1, <1>2, <1>3
<1>5. N \in Seq(Row) /\ Len(N) = Len(M)
  <2>1. N = [i \in 1..Len(M) |-> N[i]]
    BY <1>1, <1>2 DEF N, Deleted
  <2>2. N \in [1..Len(M) -> Row]
    BY <1>1, <1>4, <2>1
  <2>3. N \in Seq(Row)
    BY <1>1, <2>2, IsASeq
  <2> QED
    BY <1>1, <1>2, <2>3, LenProperties
<1>6. ASSUME NEW d, d # c PROVE LiveIn(N, d) = LiveIn(M, d)
  BY <1>2, <1>4, <1>6 DEF LiveIn
<1> QED
  BY <1>2, <1>4, <1>5, <1>6 DEF N

LEMMA NoConversationIs == NoConversation \in Conversation /\ NoConversation.sum = NoSummary
<1>1. NoConversation = [there |-> FALSE, turns |-> 0, titled |-> FALSE, sum |-> NoSummary]
  BY DEF NoConversation
<1> QED
  BY <1>1, IdleIsKnown DEF Conversation

LEMMA DeletionKeeps ==
    ASSUME TurnsInv, NEW c, c \in Chats, DeleteConversation(c)
    PROVE  /\ TurnsInv'
           /\ (\A t \in Tasks : turn[t].at = "idle" \/ turn[t].chat # c) /\ ExactInv => ExactInv'
<1>1. messages' = Deleted(messages, c) /\ convo' = [convo EXCEPT ![c] = NoConversation] /\ turn' = turn
  BY DEF DeleteConversation, Deleted
<1>2. messages \in Seq(Row) /\ convo \in [Chats -> Conversation] /\ turn \in [Tasks -> TurnRow]
      /\ (\A i \in DOMAIN messages : AnswerOf(messages, i)) /\ (\A t \in Tasks : Bounded(messages, turn[t]))
      /\ \A d \in Chats : convo[d].sum.covered <= Len(messages)
  BY DEF TurnsInv, RowsInv, ConvoInv, TurnInv
<1>3. /\ messages' \in Seq(Row) /\ Len(messages') = Len(messages) /\ DOMAIN messages' = DOMAIN messages
      /\ \A i \in DOMAIN messages : /\ messages'[i].chat = messages[i].chat /\ messages'[i].role = messages[i].role
                                    /\ messages'[i].of = messages[i].of /\ messages'[i].kind = messages[i].kind
      /\ \A d : d # c => LiveIn(messages', d) = LiveIn(messages, d)
  BY <1>1, <1>2, DeletedIs
<1>4. Len(messages) \in Nat /\ DOMAIN messages = 1..Len(messages)
  BY <1>2, RowsAre
<1>5. ASSUME NEW i, i \in DOMAIN messages PROVE AnswerOf(messages', i)
  <2>1. i \in Nat /\ 1 <= i /\ i <= Len(messages) /\ AnswerOf(messages, i)
    BY <1>2, <1>4, <1>5
  <2>2. CASE messages[i].of = i - 1
    <3>1. i - 1 \in DOMAIN messages
      BY <1>4, <2>1, <2>2 DEF AnswerOf
    <3> QED
      BY <1>3, <1>5, <2>1, <3>1 DEF AnswerOf
  <2>3. CASE messages[i].of # i - 1
    BY <1>3, <1>5, <2>1, <2>3 DEF AnswerOf
  <2> QED
    BY <2>2, <2>3
<1>6. RowsInv(messages')
  BY <1>3, <1>5 DEF RowsInv
<1>7. convo' \in [Chats -> Conversation] /\ convo'[c].sum = NoSummary /\ \A d \in Chats : d # c => convo'[d] = convo[d]
  BY <1>1, <1>2, NoConversationIs
<1>8. ConvoInv(messages', convo')
  <2>1. convo'[c].sum.covered <= Len(messages')
    BY <1>3, <1>4, <1>7, IdleIsKnown
  <2> QED
    BY <1>2, <1>3, <1>7, <2>1 DEF ConvoInv
<1>9. TurnInv(messages', turn')
  BY <1>1, <1>2, <1>3 DEF TurnInv, Bounded
<1>10. TurnsInv'
  BY <1>6, <1>8, <1>9 DEF TurnsInv
<1>11. ASSUME \A t \in Tasks : turn[t].at = "idle" \/ turn[t].chat # c, ExactInv PROVE ExactInv'
  <2>1. \A d, s : d # c /\ Exact(messages, d, s) => Exact(messages', d, s)
    BY <1>3 DEF Exact
  <2>2. Exact(messages', c, NoSummary)
    BY <1>3, NothingIsExact
  <2>3. SumsExact(messages', convo')
    BY <1>7, <1>11, <2>1, <2>2 DEF SumsExact, ExactInv
  <2>4. \A d, s, p, r : d # c /\ Window(messages, d, s, p, r) => Window(messages', d, s, p, r)
    BY <1>3 DEF Window
  <2>5. ASSUME NEW t \in Tasks PROVE ContextOK(messages', turn'[t])
    <3>1. ContextOK(messages, turn[t])
      BY <1>11 DEF ExactInv
    <3> QED
      BY <1>1, <1>11, <2>1, <2>4, <3>1 DEF ContextOK
  <2> QED
    BY <2>3, <2>5 DEF ExactInv
<1> QED
  BY <1>10, <1>11

LEMMA EndKeeps ==
    ASSUME TurnsInv, turn' = [t \in Tasks |-> Idle], Adds(messages, messages'),
           convo' \in [Chats -> Conversation], \A d \in Chats : convo'[d].sum = convo[d].sum
    PROVE  TurnsInv' /\ (ExactInv => ExactInv')
<1>1. messages \in Seq(Row) /\ \A i \in DOMAIN messages : AnswerOf(messages, i)
  BY DEF TurnsInv, RowsInv
<1>2. Grows(messages, messages') /\ messages' \in Seq(Row)
      /\ \A i \in DOMAIN messages' : i \notin DOMAIN messages => AnswerOf(messages', i)
  BY DEF Adds, Grows
<1>3. ConvoInv(messages', convo') /\ (ExactInv => SumsExact(messages', convo'))
  BY <1>2, SumsStay
<1>4. Plainly(Idle) /\ Idle.sum.covered <= Len(messages') /\ Idle.pending \subseteq DOMAIN messages'
  <2>1. Plainly(Idle) /\ Idle.sum.covered = 0 /\ Idle.pending = {}
    BY IdleIsKnown, RestIs
  <2>2. Len(messages') \in Nat
    BY <1>2, RowsAre
  <2> QED
    BY <2>1, <2>2
<1>5. Bounded(messages', Idle) /\ ContextOK(messages', Idle)
  BY <1>2, <1>4, PlainTurn
<1>6. TurnInv(messages', turn')
  BY <1>5, IdleIsKnown DEF TurnInv
<1>7. ExactInv => ExactInv'
  BY <1>3, <1>5 DEF ExactInv
<1>8. RowsInv(messages')
  BY RowsGrow DEF TurnsInv
<1> QED
  BY <1>3, <1>6, <1>7, <1>8 DEF TurnsInv

LEMMA TurnsStart == Init => TurnsInv /\ ExactInv
<1> SUFFICES ASSUME ConversationInit PROVE TurnsInv /\ ExactInv
  BY DEF Init
<1> DEFINE of(i) == IF i % 2 = 1 THEN i ELSE i - 1
           row(i) == Message(Idle.chat, IF of(i) = i THEN "user" ELSE "assistant", of(i), Earlier[i], "chat")
<1>1. messages = [i \in DOMAIN Earlier |-> row(i)] /\ turn = [t \in Tasks |-> Idle]
      /\ convo = [c \in Chats |->
                    IF c = Idle.chat /\ Earlier # <<>>
                      THEN [NoConversation EXCEPT !.there = TRUE, !.turns = (Len(Earlier) + 1) \div 2]
                      ELSE NoConversation]
  BY DEF ConversationInit
<1>2. Len(Earlier) \in Nat /\ DOMAIN Earlier = 1..Len(Earlier) /\ \A i \in DOMAIN Earlier : Earlier[i] \in Nat
  BY TurnsAssumption, LenProperties, ElementOfSeq
<1>3. ASSUME NEW i, i \in DOMAIN Earlier PROVE of(i) \in 1..i /\ of(i) \in Nat /\ (of(i) # i => of(i) = i - 1 /\ i - 1 \in DOMAIN Earlier /\ of(i - 1) = i - 1)
  <2>1. i \in Nat /\ 1 <= i /\ i <= Len(Earlier)
    BY <1>2, <1>3
  <2>2. i % 2 = 0 \/ i % 2 = 1
    BY <2>1
  <2>3. i % 2 = 0 => (i - 1) % 2 = 1 /\ 1 <= i - 1
    BY <2>1
  <2> QED
    BY <1>2, <2>1, <2>2, <2>3
<1>4. ASSUME NEW i, i \in DOMAIN Earlier
      PROVE  /\ row(i) \in Row /\ row(i).chat = Idle.chat /\ row(i).of = of(i)
             /\ row(i).role = IF of(i) = i THEN "user" ELSE "assistant"
  <2> DEFINE role == IF of(i) = i THEN "user" ELSE "assistant"
             o == of(i)
             e == Earlier[i]
  <2>1. o \in Nat /\ e \in Nat /\ role \in {"user", "assistant"}
    BY <1>2, <1>3, <1>4
  <2>2. row(i) = Message(Idle.chat, role, o, e, "chat")
    OBVIOUS
  <2> HIDE DEF of, row, role, o, e
  <2>3. CanSay(Idle.chat, role, o, e, "chat")
    BY <2>1, IdleIsKnown DEF CanSay
  <2>4. row(i) \in Row /\ row(i).chat = Idle.chat /\ row(i).of = o /\ row(i).role = role
    BY <2>2, <2>3, MessageIs
  <2> QED
    BY <2>4 DEF o, role
<1> HIDE DEF row
<1>5. messages \in Seq(Row) /\ DOMAIN messages = DOMAIN Earlier /\ \A i \in DOMAIN Earlier : messages[i] = row(i)
  <2>1. messages \in [1..Len(Earlier) -> Row]
    BY <1>1, <1>2, <1>4
  <2> QED
    BY <1>1, <1>2, <2>1, IsASeq
<1>6. ASSUME NEW i, i \in DOMAIN messages PROVE AnswerOf(messages, i)
  <2>1. messages[i].of = of(i) /\ of(i) \in 1..i
        /\ messages[i].role = IF of(i) = i THEN "user" ELSE "assistant"
    BY <1>3, <1>4, <1>5, <1>6
  <2>2. CASE of(i) = i
    <3>1. messages[i].role = "user" /\ "user" # "assistant"
      BY <2>1, <2>2
    <3> QED
      BY <2>1, <3>1 DEF AnswerOf
  <2>3. CASE of(i) # i
    <3>1. of(i) = i - 1 /\ i - 1 \in DOMAIN Earlier /\ of(i - 1) = i - 1
      BY <1>3, <1>5, <1>6, <2>3
    <3>2. messages[i - 1].role = "user" /\ messages[i - 1].chat = Idle.chat /\ messages[i].chat = Idle.chat
      BY <1>4, <1>5, <1>6, <3>1
    <3> QED
      BY <2>1, <3>1, <3>2 DEF AnswerOf
  <2> QED
    BY <2>2, <2>3
<1>7. RowsInv(messages)
  BY <1>5, <1>6 DEF RowsInv
<1>8. convo \in [Chats -> Conversation] /\ \A c \in Chats : convo[c].sum = NoSummary
  <2> DEFINE n == (Len(Earlier) + 1) \div 2
             v == [NoConversation EXCEPT !.there = TRUE, !.turns = n]
  <2>1. n \in Nat
    BY <1>2
  <2> HIDE DEF n
  <2>2. v \in Conversation /\ v.sum = NoSummary
    BY <2>1, NoConversationIs DEF Conversation
  <2>3. \A c \in Chats : convo[c] \in {v, NoConversation}
    BY <1>1 DEF n
  <2> HIDE DEF v
  <2>4. \A c \in Chats : convo[c] \in Conversation /\ convo[c].sum = NoSummary
    BY <2>2, <2>3, NoConversationIs
  <2>5. convo = [c \in Chats |-> convo[c]]
    BY <1>1
  <2> QED
    BY <2>4, <2>5
<1>9. Len(messages) \in Nat /\ NoSummary.covered <= Len(messages)
  BY <1>5, RowsAre, IdleIsKnown
<1>10. ConvoInv(messages, convo)
  BY <1>8, <1>9 DEF ConvoInv
<1>11. Bounded(messages, Idle) /\ ContextOK(messages, Idle)
  <2>1. Plainly(Idle) /\ Idle.pending \subseteq DOMAIN messages /\ Idle.sum.covered <= Len(messages)
    BY <1>9, IdleIsKnown, RestIs
  <2> QED
    BY <1>5, <2>1, PlainTurn
<1>12. TurnInv(messages, turn)
  BY <1>1, <1>11, IdleIsKnown DEF TurnInv
<1>13. SumsExact(messages, convo)
  BY <1>5, <1>8, NothingIsExact DEF SumsExact
<1> QED
  BY <1>1, <1>7, <1>10, <1>11, <1>12, <1>13 DEF TurnsInv, ExactInv

-----------------------------------------------------------------------------
(* Every step *)

LEMMA SizesAre == SmallestSize \in Sizes /\ \A s \in Sizes : s \in Nat
<1>1. Sizes # {} /\ Sizes \subseteq Nat
  BY TurnsAssumption
<1>2. \E s \in Sizes : \A r \in Sizes : s <= r
  BY <1>1, LeastNat
<1> QED
  BY <1>1, <1>2 DEF SmallestSize

LEMMA TurnStepKeeps ==
    ASSUME TurnsInv, NEW t, t \in Tasks, TurnStep(t)
    PROVE  TurnsInv' /\ (ExactInv => ExactInv')
<1>1. CASE SummaryAnswers(t)
  BY <1>1, SummaryAnswersKeeps
<1>2. CASE SummaryFails(t)
  BY <1>2, SummaryFailsKeeps
<1>3. ASSUME NEW size \in Sizes, ModelAnswers(t, size) PROVE TurnsInv' /\ (ExactInv => ExactInv')
  BY <1>3, SizesAre, ModelAnswersKeeps
<1>4. CASE SkillIsRequested(t)
  BY <1>4, SkillIsRequestedKeeps
<1>5. ASSUME NEW size \in Sizes, SkillIsWritten(t, size) PROVE TurnsInv' /\ (ExactInv => ExactInv')
  BY <1>5, SizesAre, SkillIsWrittenKeeps
<1>6. CASE TurnFails(t)
  BY <1>6, FailingKeeps
<1>7. CASE FactsAreExtracted(t) \/ LookForTitle(t) \/ \E generated \in BOOLEAN : Titled(t, generated)
  BY <1>7, TitlingKeeps
<1> QED
  BY <1>1, <1>2, <1>3, <1>4, <1>5, <1>6, <1>7 DEF TurnStep

LEMMA NothingKeeps ==
    ASSUME TurnsInv, UNCHANGED cvars
    PROVE  TurnsInv' /\ (ExactInv => ExactInv')
BY DEF cvars, TurnsInv, ExactInv

LEMMA TakingKeeps ==
    ASSUME TurnsInv, queue \in Seq(Events), NEW w, w \in Workers, TakeEvent(w)
    PROVE  TurnsInv' /\ (ExactInv => ExactInv')
<1> DEFINE e == Head(queue)
<1>1. e \in Events
  BY HeadTailProperties DEF TakeEvent
<1>2. w \in Tasks /\ ChatOf[e] \in Chats
  BY <1>1, FeishuAssumption
<1>3. \/ UNCHANGED cvars
      \/ Receive(w, ChatOf[e], SmallestSize, "chat")
      \/ turn' = [turn EXCEPT ![w].at = "done"] /\ UNCHANGED <<messages, convo, counts>>
  BY DEF TakeEvent
<1> HIDE DEF e
<1>4. CASE UNCHANGED cvars
  BY <1>4, NothingKeeps
<1>5. CASE Receive(w, ChatOf[e], SmallestSize, "chat")
  <2>1. SmallestSize \in Nat /\ "chat" \in {"chat", "context"}
    BY SizesAre
  <2> QED
    BY <1>2, <1>5, <2>1, ReceiveKeeps
<1>6. CASE turn' = [turn EXCEPT ![w].at = "done"] /\ UNCHANGED <<messages, convo, counts>>
  <2>1. "done" \in Labels \ {"summarising", "asking", "emerging"}
    BY DEF Labels
  <2>2. convo' \in [Chats -> Conversation] /\ \A c \in Chats : convo'[c].sum = convo[c].sum
    BY <1>6 DEF TurnsInv, ConvoInv
  <2> QED
    BY <1>2, <1>6, <2>1, <2>2, LabelKeeps
<1> QED
  BY <1>3, <1>4, <1>5, <1>6

LEMMA EndsKeep ==
    ASSUME TurnsInv, End \/ \E t \in Tasks : EndInTurn(t)
    PROVE  TurnsInv' /\ (ExactInv => ExactInv')
<1>1. messages \in Seq(Row) /\ convo \in [Chats -> Conversation] /\ turn \in [Tasks -> TurnRow]
  BY DEF TurnsInv, RowsInv, ConvoInv, TurnInv
<1>2. turn' = [t \in Tasks |-> Idle]
  BY DEF End, EndInTurn, GatewayEnds, TurnsEnd
<1>3. CASE End
  <2>1. messages' = messages /\ convo' = convo
    BY <1>3 DEF End
  <2>2. Adds(messages, messages')
    BY <1>1, <2>1, SameRows DEF Adds
  <2> QED
    BY <1>1, <1>2, <2>1, <2>2, EndKeeps
<1>4. ASSUME NEW t \in Tasks, EndInTurn(t) PROVE TurnsInv' /\ (ExactInv => ExactInv')
  <2> DEFINE k == turn[t]
             id == Len(messages) + 1
             q == Message(k.chat, "user", id, k.size, "chat")
  <2>1. messages' = Append(messages, q) /\ convo' = Asked(k.chat)
    BY <1>4 DEF EndInTurn, QuestionOnly
  <2>2. k.chat \in Chats /\ k.size \in Nat
    BY <1>1 DEF TurnRow
  <2>3. id \in Nat /\ id = Len(messages) + 1 /\ id \in 1..id
    BY <1>1, RowsAre
  <2> HIDE DEF k, id
  <2>4. CanSay(k.chat, "user", id, k.size, "chat")
    BY <2>2, <2>3 DEF CanSay
  <2>5. q \in Row /\ q.of = id /\ q.role = "user"
    BY <2>4, MessageIs
  <2> HIDE DEF q
  <2>6. Adds(messages, messages')
    BY <1>1, <2>1, <2>3, <2>5, RowIsAdded
  <2>7. convo' \in [Chats -> Conversation] /\ \A d \in Chats : convo'[d].sum = convo[d].sum
    BY <1>1, <2>1, <2>2, EnsuredIs
  <2> QED
    BY <1>2, <2>6, <2>7, EndKeeps
<1> QED
  BY <1>3, <1>4

LEMMA TurnsKept ==
    ASSUME TurnsInv, queue \in Seq(Events), [Next]_vars
    PROVE  TurnsInv' /\ (Deletes = "idle" /\ ExactInv => ExactInv')
<1>1. CASE \/ \E e \in Events : Deliver(e)
           \/ \E e \in Events : Expire(e)
           \/ UNCHANGED vars
  <2>1. UNCHANGED cvars
    BY <1>1 DEF Deliver, Expire, vars
  <2> QED
    BY <2>1, NothingKeeps
<1>2. ASSUME NEW w \in Workers, TakeEvent(w) PROVE TurnsInv' /\ (ExactInv => ExactInv')
  BY <1>2, TakingKeeps
<1>3. ASSUME NEW t, t \in Tasks, Reply(t) \/ Respond(t) PROVE TurnsInv' /\ (ExactInv => ExactInv')
  <2>1. turn' = [turn EXCEPT ![t] = Idle] /\ messages' = messages /\ convo' = convo
    BY <1>3 DEF Reply, Respond
  <2> QED
    BY <1>3, <2>1, IdleKeeps
<1>4. ASSUME NEW r \in Clients, NEW c \in Chats, NEW size \in Sizes, NEW asks \in {"chat", "context"},
             Post(r, c, size, asks)
      PROVE  TurnsInv' /\ (ExactInv => ExactInv')
  <2>1. r \in Tasks /\ size \in Nat
    BY FeishuAssumption, SizesAre
  <2>2. Receive(r, c, size, asks)
    BY <1>4 DEF Post
  <2> QED
    BY <2>1, <2>2, ReceiveKeeps
<1>5. ASSUME NEW c \in Chats, Delete(c)
      PROVE  TurnsInv' /\ (Deletes = "idle" /\ ExactInv => ExactInv')
  <2>1. DeleteConversation(c)
    BY <1>5 DEF Delete
  <2>2. Deletes = "idle" => \A t \in Tasks : turn[t].at = "idle" \/ turn[t].chat # c
    BY <1>5 DEF Delete
  <2> QED
    BY <2>1, <2>2, DeletionKeeps
<1>6. ASSUME NEW t \in Tasks, Step(t) PROVE TurnsInv' /\ (ExactInv => ExactInv')
  <2>1. TurnStep(t)
    BY <1>6 DEF Step
  <2> QED
    BY <2>1, TurnStepKeeps
<1>7. CASE End \/ \E t \in Tasks : EndInTurn(t)
  BY <1>7, EndsKeep
<1>8. Workers \subseteq Tasks /\ Clients \subseteq Tasks
  BY FeishuAssumption
<1> QED
  BY <1>1, <1>2, <1>3, <1>4, <1>5, <1>6, <1>7, <1>8 DEF Next

GatewayInv == HandledInv /\ TurnsInv

LEMMA GatewayStart == Init => GatewayInv /\ ExactInv
BY HandledStart, TurnsStart DEF GatewayInv

LEMMA GatewayKept ==
    ASSUME GatewayInv, [Next]_vars
    PROVE  GatewayInv' /\ (Deletes = "idle" /\ ExactInv => ExactInv')
<1>1. HandledInv'
  BY HandledKept DEF GatewayInv
<1>2. TurnsInv' /\ (Deletes = "idle" /\ ExactInv => ExactInv')
  BY TurnsKept DEF GatewayInv, HandledInv
<1> QED
  BY <1>1, <1>2 DEF GatewayInv

(* Rows, summaries and turns have the labels and ids the schema and handle  *)
(* know.                                                                    *)
THEOREM ConversationsTypeCorrect == Spec => []ConversationTypeOK
<1>1. ASSUME GatewayInv PROVE ConversationTypeOK
  <2>1. RowsInv(messages) /\ ConvoInv(messages, convo) /\ TurnInv(messages, turn)
    BY <1>1 DEF GatewayInv, TurnsInv
  <2>2. Len(messages) \in Nat
    BY <2>1, RowsAre DEF RowsInv
  <2>3. \A i \in DOMAIN messages : messages[i].chat \in Chats /\ messages[i].of \in 1..i
    BY <2>1, RowsAre DEF RowsInv, AnswerOf, Row
  <2>4. \A c \in Chats : convo[c].sum.covered \in 0..Len(messages)
    BY <2>1, <2>2 DEF ConvoInv, Conversation, Summary
  <2>5. \A t \in Tasks : turn[t].at \in Labels
    BY <2>1 DEF TurnInv, TurnRow
  <2> QED
    BY <2>3, <2>4, <2>5 DEF ConversationTypeOK, Labels
<1>2. GatewayInv /\ [Next]_vars => GatewayInv'
  BY GatewayKept
<1> QED
  BY GatewayStart, <1>1, <1>2, PTL DEF Spec

(* Turns of one conversation may overlap, fail or end with the process, and *)
(* conversations may be deleted under them: no row comes between the        *)
(* question and the answer of an ordinary turn (handle, step 7).            *)
THEOREM AnswersStayAtTheirQuestion == Spec => []AnswersFollowTheirQuestion
<1>1. GatewayInv => AnswersFollowTheirQuestion
  BY DEF GatewayInv, TurnsInv, RowsInv, AnswerOf, AnswersFollowTheirQuestion
<1>2. GatewayInv /\ [Next]_vars => GatewayInv'
  BY GatewayKept
<1> QED
  BY GatewayStart, <1>1, <1>2, PTL DEF Spec

LEMMA ExactStays ==
    ASSUME Deletes = "idle"
    PROVE  Spec => [](GatewayInv /\ ExactInv)
<1>1. GatewayInv /\ ExactInv /\ [Next]_vars => (GatewayInv /\ ExactInv)'
  BY GatewayKept
<1> QED
  BY GatewayStart, <1>1, PTL DEF Spec

(* As long as nobody deletes a conversation that a turn is at, a stored     *)
(* summary is of exactly the transcript up to the message it covers,        *)
(* however many turns fold that transcript at the same time and whichever   *)
(* of them stores last (_summarize_before, save_conversation_summary).      *)
THEOREM SummariesAreOfTheirPrefix ==
    ASSUME Deletes = "idle"
    PROVE  Spec => []SummaryIsOfItsPrefix
<1>1. GatewayInv /\ ExactInv => SummaryIsOfItsPrefix
  BY DEF ExactInv, SumsExact, Exact, SummaryIsOfItsPrefix, Live, LiveIn
<1> QED
  BY ExactStays, <1>1, PTL

(* Under the same condition a turn asks with a context that leaves nothing  *)
(* out, unless folding failed for it (ConversationContextManager.build).    *)
THEOREM ContextsHaveNoGap ==
    ASSUME Deletes = "idle"
    PROVE  Spec => []ContextHasNoGap
<1>1. GatewayInv /\ ExactInv => ContextHasNoGap
  BY DEF ExactInv, ContextOK, ContextHasNoGap
<1> QED
  BY ExactStays, <1>1, PTL
=============================================================================
