-------------------------- MODULE AuditFeed_proofs --------------------------
(***************************************************************************)
(* Proofs about AuditFeed, for any batch size and any bounds: type         *)
(* correctness, that no row the poll could see is skipped, that messages   *)
(* keep the order of the log, and that only failures repeat one.           *)
(***************************************************************************)
EXTENDS AuditFeed, FiniteSetTheorems, SequenceTheorems, TLAPS

USE ConstantsAssumption

Row == [tx : 1..MaxEvents, relayed : BOOLEAN]
PollType == [pc : {"idle", "sending"}, todo : Seq(1..MaxEvents), at : 0..MaxEvents]

Count(messages, e) == Cardinality({i \in 1..Len(messages) : messages[i] = e})

-----------------------------------------------------------------------------
(* The invariant.  The rows the poll could see are those that were visible *)
(* before it read past them.  What is true of the committed cursor must be *)
(* true of the session's, and there it depends on the batch: the rows left *)
(* are in the order of the log, and none between the session's cursor and  *)
(* the last of them is missing.                                            *)

Seen == visible \ behind
Sending == poll.pc = "sending"
Position == IF Sending THEN poll.at ELSE IF cursor = NoCursor THEN 0 ELSE cursor

Types ==
    /\ events \in Seq(Row) /\ Len(events) <= MaxEvents
    /\ open \subseteq 1..MaxEvents
    /\ visible \subseteq Events /\ behind \subseteq Events
    /\ cursor \in {NoCursor} \cup 0..MaxEvents
    /\ poll \in PollType /\ Len(poll.todo) <= BatchSize
    /\ chat \in Seq(1..MaxEvents)
    /\ failures \in 0..MaxFailures

IdleIsIdle == Sending \/ poll = Idle

\* The batch under way.
BatchInOrder ==
    Sending =>
        /\ cursor # NoCursor /\ cursor <= poll.at
        /\ \A i \in 1..Len(poll.todo) : poll.todo[i] \in visible /\ poll.todo[i] > poll.at
        /\ \A i, j \in 1..Len(poll.todo) : i < j => poll.todo[i] < poll.todo[j]
        /\ poll.todo # <<>> =>
              \A e \in Seen : e > poll.at /\ e <= poll.todo[Len(poll.todo)] =>
                  \E i \in 1..Len(poll.todo) : poll.todo[i] = e

\* Every row the poll could see up to n reached Telegram, if it is relayed.
Reached(n) == \A e \in Seen : Relayed(e) /\ e <= n => Contains(chat, e)
CursorReached == cursor # NoCursor => Reached(cursor)
SessionReached == Sending => Reached(poll.at)

\* A row the position has passed was sent once more than sends failed.
Repeats ==
    \A e \in 1..MaxEvents :
        Count(chat, e) <= failures + (IF e <= Position THEN 1 ELSE 0)

FeedInv ==
    /\ Types
    /\ IdleIsIdle
    /\ BatchInOrder
    /\ CursorReached
    /\ SessionReached
    /\ Repeats

-----------------------------------------------------------------------------
(* Messages and batches.                                                   *)

\* A message count is a number.
LEMMA CountIsNat ==
  ASSUME NEW messages \in Seq(1..MaxEvents), NEW e
  PROVE  Count(messages, e) \in Nat
<1>1. IsFiniteSet(1..Len(messages))
  BY FS_Interval
<1> QED
  BY <1>1, FS_Subset, FS_CardinalityType DEF Count

\* A delivered message adds one to its own count and nothing to another's.
LEMMA CountAppend ==
  ASSUME NEW messages \in Seq(1..MaxEvents), NEW h \in 1..MaxEvents, NEW e
  PROVE  Count(Append(messages, h), e) = Count(messages, e) + (IF e = h THEN 1 ELSE 0)
<1> DEFINE Where(c) == {i \in 1..Len(c) : c[i] = e}
           more == Append(messages, h)
           n == Len(messages)
<1>1. /\ n \in Nat /\ Len(more) = n + 1 /\ more[n + 1] = h
      /\ \A i \in 1..n : more[i] = messages[i]
  OBVIOUS
<1>2. IsFiniteSet(Where(messages)) /\ n + 1 \notin Where(messages)
  <2>1. IsFiniteSet(1..n)
    BY FS_Interval
  <2>2. IsFiniteSet(Where(messages))
    BY <2>1, FS_Subset
  <2> QED
    BY <2>2, <1>1
<1>3. CASE e = h
  <2>1. Where(more) = Where(messages) \cup {n + 1}
    BY <1>1, <1>3
  <2>2. Cardinality(Where(messages) \cup {n + 1}) = Cardinality(Where(messages)) + 1
    BY <1>2, FS_AddElement
  <2>3. /\ Count(more, e) = Cardinality(Where(more))
        /\ Count(messages, e) = Cardinality(Where(messages))
    BY DEF Count
  <2>4. Count(more, e) = Count(messages, e) + 1
    BY <2>1, <2>2, <2>3
  <2> QED
    BY <2>4, <1>3
<1>4. CASE e # h
  <2>1. Where(more) = Where(messages)
    BY <1>1, <1>4
  <2>2. Count(more, e) = Count(messages, e)
    BY <2>1 DEF Count
  <2>3. Count(messages, e) \in Nat
    BY CountIsNat
  <2> QED
    BY <2>2, <2>3, <1>4
<1> QED
  BY <1>3, <1>4

\* What was delivered stays delivered.
LEMMA ContainsAppend ==
  ASSUME NEW messages \in Seq(1..MaxEvents), NEW h \in 1..MaxEvents
  PROVE  /\ Append(messages, h) \in Seq(1..MaxEvents)
         /\ Contains(Append(messages, h), h)
         /\ \A e : Contains(messages, e) => Contains(Append(messages, h), e)
<1>1. /\ Len(Append(messages, h)) = Len(messages) + 1
      /\ Append(messages, h)[Len(messages) + 1] = h
      /\ \A i \in 1..Len(messages) : Append(messages, h)[i] = messages[i]
  OBVIOUS
<1> QED
  BY <1>1 DEF Contains

\* The first row of the batch is the first the poll could see after its
\* position, and the rest of the batch is a batch.
LEMMA HeadOfBatch ==
  ASSUME Types, BatchInOrder, Sending, poll.todo # <<>>
  PROVE  /\ Head(poll.todo) \in visible /\ Head(poll.todo) \in 1..MaxEvents
         /\ poll.at < Head(poll.todo)
         /\ \A e \in Seen : e > poll.at => e >= Head(poll.todo)
         /\ Tail(poll.todo) \in Seq(1..MaxEvents)
         /\ Len(Tail(poll.todo)) = Len(poll.todo) - 1
         /\ \A i \in 1..Len(Tail(poll.todo)) : Tail(poll.todo)[i] = poll.todo[i + 1]
<1> DEFINE todo == poll.todo
           h == Head(poll.todo)
<1>1. /\ todo \in Seq(1..MaxEvents) /\ Len(todo) \in Nat \ {0} /\ h = todo[1]
      /\ poll.at \in 0..MaxEvents /\ 1 \in 1..Len(todo)
  BY DEF Types, PollType
<1>2. h \in visible /\ poll.at < h /\ h \in 1..MaxEvents
  BY <1>1 DEF BatchInOrder
<1>3. \A e \in Seen : e > poll.at => e >= h
  <2> SUFFICES ASSUME NEW e \in Seen, e > poll.at, e < h
               PROVE  FALSE
    BY <1>1 DEF Types, Seen, Events
  <2>1. e \in Nat
    BY DEF Types, Seen, Events
  <2>2. h <= todo[Len(todo)]
    <3>1. CASE Len(todo) = 1
      BY <3>1, <1>1
    <3>2. CASE 1 < Len(todo)
      BY <3>2, <1>1 DEF BatchInOrder
    <3> QED
      BY <3>1, <3>2, <1>1
  <2>3. todo[Len(todo)] \in 1..MaxEvents
    BY <1>1
  <2>4. PICK i \in 1..Len(todo) : todo[i] = e
    BY <2>1, <2>2, <2>3, <1>1, <1>2 DEF BatchInOrder
  <2>5. i = 1 \/ todo[1] < todo[i]
    BY <1>1 DEF BatchInOrder
  <2> QED
    BY <2>1, <2>4, <2>5, <1>1
<1>4. /\ Tail(todo) \in Seq(1..MaxEvents) /\ Len(Tail(todo)) = Len(todo) - 1
      /\ \A i \in 1..Len(Tail(todo)) : Tail(todo)[i] = todo[i + 1]
  <2>1. todo # <<>>
    OBVIOUS
  <2> QED
    BY <1>1, <2>1, HeadTailProperties
<1> QED
  BY <1>1, <1>2, <1>3, <1>4

\* After the first row is handled, the position is that row and the rest of
\* the batch is in order.
LEMMA AdvanceKeepsOrder ==
  ASSUME Types, IdleIsIdle, BatchInOrder, poll.todo # <<>>, poll' = Advanced,
         UNCHANGED <<events, visible, behind, cursor>>
  PROVE  /\ Sending /\ Sending' /\ poll'.at = Head(poll.todo)
         /\ poll' \in PollType /\ Len(poll'.todo) <= BatchSize
         /\ IdleIsIdle' /\ BatchInOrder'
<1>0. Sending
  BY DEF IdleIsIdle, Idle
<1> DEFINE todo == poll.todo
           h == Head(poll.todo)
           rest == Tail(poll.todo)
<1>1. /\ h \in visible /\ h \in 1..MaxEvents /\ poll.at < h
      /\ rest \in Seq(1..MaxEvents) /\ Len(rest) = Len(todo) - 1
      /\ \A i \in 1..Len(rest) : rest[i] = todo[i + 1]
  BY <1>0, HeadOfBatch
<1>2. /\ poll' = [pc |-> poll.pc, todo |-> rest, at |-> h]
      /\ poll'.pc = poll.pc /\ poll'.todo = rest /\ poll'.at = h
  BY DEF Advanced, Types, PollType
<1>3. /\ todo \in Seq(1..MaxEvents) /\ Len(todo) \in Nat \ {0} /\ h = todo[1]
      /\ Len(todo) <= BatchSize /\ poll.at \in 0..MaxEvents
  BY DEF Types, PollType
<1>4. Sending' /\ IdleIsIdle' /\ poll' \in PollType /\ Len(poll'.todo) <= BatchSize
  BY <1>0, <1>1, <1>2, <1>3 DEF Sending, IdleIsIdle, PollType
<1>5. cursor' # NoCursor /\ cursor' <= poll'.at
  BY <1>0, <1>1, <1>2, <1>3 DEF BatchInOrder, Types
<1>6. \A i \in 1..Len(rest) : rest[i] \in visible' /\ rest[i] > h
  <2> TAKE i \in 1..Len(rest)
  <2>1. i + 1 \in 1..Len(todo) /\ 1 \in 1..Len(todo) /\ 1 < i + 1
    BY <1>1, <1>3
  <2> QED
    BY <2>1, <1>0, <1>1, <1>3 DEF BatchInOrder
<1>7. \A i, j \in 1..Len(rest) : i < j => rest[i] < rest[j]
  <2> TAKE i, j \in 1..Len(rest)
  <2>1. Len(rest) \in Nat /\ Len(todo) = Len(rest) + 1
    BY <1>1, <1>3
  <2>2. i + 1 \in 1..Len(todo) /\ j + 1 \in 1..Len(todo) /\ (i < j => i + 1 < j + 1)
    BY <2>1
  <2> QED
    BY <2>2, <1>0, <1>1 DEF BatchInOrder
<1>8. ASSUME rest # <<>>, NEW e \in Seen', e > h, e <= rest[Len(rest)]
      PROVE  \E i \in 1..Len(rest) : rest[i] = e
  <2>1. e \in Seen /\ e \in Nat
    BY DEF Seen, Types, Events
  <2>2. Len(rest) \in Nat \ {0} /\ rest[Len(rest)] = todo[Len(todo)]
    BY <1>1, <1>3, <1>8, SMTT(30)
  <2>a. e > poll.at /\ e <= todo[Len(todo)] /\ todo # <<>>
    BY <2>1, <2>2, <1>1, <1>3, <1>8, SMTT(30)
  <2>3. PICK k \in 1..Len(todo) : todo[k] = e
    BY <2>1, <2>a, <1>0 DEF BatchInOrder
  <2>4. k # 1
    BY <2>1, <2>3, <1>1, <1>3, <1>8
  <2>5. k - 1 \in 1..Len(rest) /\ rest[k - 1] = todo[k]
    <3>1. PICK n \in Nat : n = Len(todo)
      BY <1>1
    <3>2. PICK j \in Nat : j = k - 1 /\ j \in 1..n - 1
      BY <2>4, <3>1
    <3>3. rest[j] = todo[j + 1] /\ j + 1 = k
      BY <3>1, <3>2, <1>1, <1>3
    <3> QED
      BY <3>1, <3>2, <3>3, <1>1, <1>3
  <2> QED
    BY <2>3, <2>5
<1>9. BatchInOrder'
  BY <1>2, <1>5, <1>6, <1>7, <1>8 DEF BatchInOrder
<1> QED
  BY <1>0, <1>2, <1>4, <1>9

-----------------------------------------------------------------------------
(* The steps. *)

THEOREM FeedInit == Init => FeedInv
<1> SUFFICES ASSUME Init PROVE FeedInv
  OBVIOUS
<1>1. Types
  BY DEF Init, Types, PollType, Idle, Events
<1>2. IdleIsIdle /\ BatchInOrder /\ CursorReached /\ SessionReached
  BY DEF Init, IdleIsIdle, BatchInOrder, CursorReached, SessionReached, Sending, Idle
<1>3. Repeats
  <2> SUFFICES ASSUME NEW e \in 1..MaxEvents
               PROVE  Count(chat, e) <= failures + (IF e <= Position THEN 1 ELSE 0)
    BY DEF Repeats
  <2>1. {i \in 1..Len(chat) : chat[i] = e} = {}
    BY DEF Init
  <2>2. Count(chat, e) = 0
    BY <2>1, FS_EmptySet DEF Count
  <2> QED
    BY <2>2 DEF Init
<1> QED
  BY <1>1, <1>2, <1>3 DEF FeedInv

\* While a transaction begins, commits or rolls back the poll stands still.
LEMMA PollStands ==
  ASSUME FeedInv, UNCHANGED <<cursor, poll, chat, failures>>,
         Types',
         \A e \in Seen' \ Seen : e > ReadTo,
         \A e \in Events : e \in Events' /\ Relayed(e)' = Relayed(e),
         visible \subseteq visible'
  PROVE  FeedInv'
<1> USE DEF FeedInv
<1>1. IdleIsIdle'
  BY DEF IdleIsIdle, Sending, Idle
<1>2. poll \in PollType /\ poll.at \in 0..MaxEvents /\ poll.todo \in Seq(1..MaxEvents)
  BY DEF Types, PollType
<1>3. BatchInOrder'
  <2> SUFFICES ASSUME Sending'
               PROVE  BatchInOrder'
    BY DEF BatchInOrder
  <2>1. Sending
    BY DEF Sending
  <2>2. ASSUME poll.todo # <<>>, NEW e \in Seen', e > poll.at, e <= poll.todo[Len(poll.todo)]
        PROVE  \E i \in 1..Len(poll.todo) : poll.todo[i] = e
    <3>1. Len(poll.todo) \in Nat \ {0} /\ poll.todo[Len(poll.todo)] \in 1..MaxEvents
      BY <1>2, <2>2
    <3>2. ReadTo = poll.todo[Len(poll.todo)]
      BY <2>2 DEF ReadTo, Last
    <3>3. e \in Nat
      BY DEF Types, Seen, Events
    <3>4. e \in Seen
      BY <3>1, <3>2, <3>3, <2>2
    <3> QED
      BY <2>1, <2>2, <3>4 DEF BatchInOrder
  <2> QED
    BY <2>1, <2>2 DEF BatchInOrder
<1>4. ASSUME NEW n \in 0..MaxEvents, n <= ReadTo, ReadTo \in Nat, Reached(n)
      PROVE  Reached(n)'
  <2> SUFFICES ASSUME NEW e \in Seen', Relayed(e)', e <= n
               PROVE  Contains(chat, e)
    BY DEF Reached
  <2>1. e \in Seen /\ e \in Events
    BY <1>4 DEF Types, Seen, Events
  <2>2. Relayed(e)
    BY <2>1
  <2> QED
    BY <1>4, <2>1, <2>2 DEF Reached
<1>5. Sending => ReadTo \in Nat /\ poll.at <= ReadTo /\ cursor <= ReadTo /\ cursor \in 0..MaxEvents
  <2> SUFFICES ASSUME Sending
               PROVE  ReadTo \in Nat /\ poll.at <= ReadTo /\ cursor <= ReadTo /\ cursor \in 0..MaxEvents
    OBVIOUS
  <2>1. cursor \in 0..MaxEvents /\ cursor <= poll.at
    BY DEF BatchInOrder, Types
  <2>2. CASE poll.todo = <<>>
    BY <2>1, <2>2, <1>2 DEF ReadTo, Sending
  <2>3. CASE poll.todo # <<>>
    <3>1. /\ Len(poll.todo) \in 1..Len(poll.todo)
          /\ poll.todo[Len(poll.todo)] \in 1..MaxEvents
          /\ ReadTo = poll.todo[Len(poll.todo)]
      BY <1>2, <2>3 DEF ReadTo, Last
    <3>2. ReadTo > poll.at
      BY <3>1 DEF BatchInOrder
    <3> QED
      BY <2>1, <3>1, <3>2, <1>2
  <2> QED
    BY <2>2, <2>3
<1>6. ~Sending /\ cursor # NoCursor => ReadTo = cursor /\ cursor \in 0..MaxEvents
  BY DEF IdleIsIdle, Idle, ReadTo, Types, Sending
<1>7. CursorReached'
  <2> SUFFICES ASSUME cursor # NoCursor
               PROVE  Reached(cursor)'
    BY DEF CursorReached
  <2>1. Reached(cursor) /\ cursor \in 0..MaxEvents /\ ReadTo \in Nat /\ cursor <= ReadTo
    BY <1>5, <1>6 DEF CursorReached
  <2>2. \A n \in 0..MaxEvents : n <= ReadTo /\ Reached(n) => Reached(n)'
    BY <1>4, <2>1
  <2>3. PICK n \in 0..MaxEvents : n = cursor
    BY <2>1
  <2>4. Reached(n)'
    BY <2>1, <2>2, <2>3
  <2> QED
    BY <2>3, <2>4 DEF Reached
<1>8. SessionReached'
  <2> SUFFICES ASSUME Sending'
               PROVE  Reached(poll.at)'
    BY DEF SessionReached
  <2>1. Sending
    BY DEF Sending
  <2>2. PICK n \in 0..MaxEvents : n = poll.at
    BY <1>2
  <2>3. Reached(n)'
    BY <2>1, <2>2, <1>4, <1>5 DEF SessionReached
  <2> QED
    BY <2>2, <2>3 DEF Reached
<1>9. Repeats'
  BY DEF Repeats, Count, Position, Sending
<1> QED
  BY <1>1, <1>3, <1>7, <1>8, <1>9

\* The start of a poll's reading.
LEMMA ReadsInOrder ==
  ASSUME FeedInv, ReadBatch
  PROVE  FeedInv'
<1> USE DEF FeedInv
<1>0. /\ poll = Idle /\ ~Sending /\ cursor # NoCursor
      /\ UNCHANGED <<events, open, visible, cursor, chat, failures, behind>>
  BY DEF ReadBatch, Idle, Sending
<1>1. PICK rows \in FirstRows(Unread) : poll' = [pc |-> "sending", todo |-> rows, at |-> cursor]
  BY DEF ReadBatch
<1>2. poll'.pc = "sending" /\ poll'.todo = rows /\ poll'.at = cursor /\ cursor \in 0..MaxEvents
  BY <1>0, <1>1 DEF Types
<1>3. Unread \subseteq 1..MaxEvents /\ Unread \subseteq visible /\ \A e \in Unread : e > cursor
  <2>1. Unread \subseteq visible /\ \A e \in Unread : e > cursor
    BY DEF Unread
  <2>2. Len(events) \in Nat /\ Len(events) <= MaxEvents /\ visible \subseteq 1..Len(events)
    BY DEF Types, Events
  <2>3. 1..Len(events) \subseteq 1..MaxEvents
    BY <2>2
  <2> QED
    BY <2>1, <2>2, <2>3
<1>4. Limit(Unread) \in Nat /\ Limit(Unread) <= BatchSize
  <2>1. IsFiniteSet(1..MaxEvents)
    BY FS_Interval
  <2>2. Cardinality(Unread) \in Nat
    BY <1>3, <2>1, FS_Subset, FS_CardinalityType
  <2> QED
    BY <2>2 DEF Limit
<1>5. /\ rows \in Seq(1..MaxEvents) /\ Len(rows) = Limit(Unread)
      /\ \A i \in 1..Len(rows) : rows[i] \in Unread
      /\ \A i, j \in 1..Len(rows) : i < j => rows[i] < rows[j]
      /\ \A e \in Unread : e \in ToSet(rows) \/ \A i \in 1..Len(rows) : rows[i] < e
  <2>1. /\ rows \in [1..Limit(Unread) -> Unread]
        /\ \A i, j \in DOMAIN rows : i < j => rows[i] < rows[j]
        /\ \A e \in Unread : e \in ToSet(rows) \/ \A i \in DOMAIN rows : rows[i] < e
    BY DEF FirstRows
  <2>2. rows \in [1..Limit(Unread) -> 1..MaxEvents] /\ DOMAIN rows = 1..Limit(Unread)
    BY <1>3, <2>1
  <2>3. rows \in Seq(1..MaxEvents) /\ Len(rows) = Limit(Unread)
    BY <1>4, <2>2
  <2> QED
    BY <2>1, <2>2, <2>3
<1>6. Types'
  BY <1>0, <1>1, <1>2, <1>4, <1>5 DEF Types, PollType, Events
<1>7. BatchInOrder'
  <2>1. ASSUME rows # <<>>, NEW e \in Seen', e > cursor, e <= rows[Len(rows)]
        PROVE  \E i \in 1..Len(rows) : rows[i] = e
    <3>1. e \in Unread /\ e \in Nat
      BY <1>0, <2>1 DEF Seen, Unread, Types, Events
    <3>2. Len(rows) \in 1..Len(rows) /\ rows[Len(rows)] \in 1..MaxEvents
      BY <1>5, <2>1
    <3>3. e \in ToSet(rows)
      BY <3>1, <3>2, <1>5, <2>1
    <3> QED
      BY <3>3, <1>5 DEF ToSet
  <2>2. cursor' # NoCursor /\ cursor' <= poll'.at
    BY <1>0, <1>2
  <2> QED
    BY <2>1, <2>2, <1>0, <1>2, <1>3, <1>5 DEF BatchInOrder
<1>8. Seen' = Seen /\ \A e \in Seen : Relayed(e)' = Relayed(e)
  BY <1>0 DEF Seen, Relayed
<1>9. Reached(cursor)'
  BY <1>0, <1>8 DEF CursorReached, Reached
<1>10. CursorReached' /\ SessionReached'
  BY <1>0, <1>2, <1>9 DEF CursorReached, SessionReached, Reached
<1>11. IdleIsIdle' /\ Sending' /\ Position' = Position
  BY <1>0, <1>2 DEF IdleIsIdle, Sending, Position
<1>12. Repeats'
  BY <1>0, <1>11 DEF Repeats, Count
<1> QED
  BY <1>6, <1>7, <1>10, <1>11, <1>12

\* The session's cursor passes a row that needs no message, or whose message
\* was delivered.
LEMMA HandledKeepsReached ==
  ASSUME FeedInv, poll.todo # <<>>, poll' = Advanced,
         UNCHANGED <<events, visible, behind, cursor>>,
         \A e : Contains(chat, e) => Contains(chat', e),
         Relayed(Head(poll.todo)) => Contains(chat', Head(poll.todo))
  PROVE  CursorReached' /\ SessionReached'
<1> USE DEF FeedInv
<1>1. Sending /\ Sending' /\ poll'.at = Head(poll.todo)
  BY AdvanceKeepsOrder
<1>2. /\ Head(poll.todo) \in 1..MaxEvents /\ poll.at < Head(poll.todo)
      /\ \A e \in Seen : e > poll.at => e >= Head(poll.todo)
  BY <1>1, HeadOfBatch
<1>3. Seen' = Seen /\ \A e : Relayed(e)' = Relayed(e)
  BY DEF Seen, Relayed
<1>4. Reached(cursor) /\ Reached(poll.at) /\ poll.at \in 0..MaxEvents
  BY <1>1 DEF CursorReached, SessionReached, BatchInOrder, Types, PollType
<1>5. CursorReached'
  BY <1>3, <1>4 DEF CursorReached, Reached
<1>6. ASSUME NEW e \in Seen, Relayed(e), e <= Head(poll.todo)
      PROVE  Contains(chat', e)
  <2>1. e \in Nat
    BY DEF Seen, Types, Events
  <2>2. e <= poll.at \/ e = Head(poll.todo)
    BY <2>1, <1>2, <1>4, <1>6
  <2> QED
    BY <2>2, <1>4, <1>6 DEF Reached
<1>7. SessionReached'
  BY <1>1, <1>3, <1>6 DEF SessionReached, Reached
<1> QED
  BY <1>5, <1>7

\* An unsent batch is dropped, wholly or from the failed row on.
LEMMA DroppedKeepsOrder ==
  ASSUME FeedInv, Sending, poll' = [poll EXCEPT !.todo = <<>>],
         UNCHANGED <<events, visible, behind, cursor>>,
         \A e : Contains(chat, e) => Contains(chat', e)
  PROVE  /\ Sending' /\ poll'.at = poll.at /\ poll' \in PollType /\ Len(poll'.todo) <= BatchSize
         /\ IdleIsIdle' /\ BatchInOrder' /\ CursorReached' /\ SessionReached'
<1> USE DEF FeedInv
<1>1. poll \in PollType
  BY DEF Types
<1>2. /\ poll'.pc = poll.pc /\ poll'.at = poll.at /\ poll'.todo = <<>>
      /\ poll' \in PollType /\ Len(poll'.todo) <= BatchSize
  <2>1. poll'.pc = poll.pc /\ poll'.at = poll.at /\ poll'.todo = <<>>
    BY <1>1 DEF PollType
  <2>a. poll' = [pc |-> poll.pc, todo |-> <<>>, at |-> poll.at] /\ <<>> \in Seq(1..MaxEvents)
    BY <1>1 DEF PollType
  <2>2. poll' \in PollType
    BY <1>1, <2>a DEF PollType
  <2>3. Len(<<>>) <= BatchSize
    OBVIOUS
  <2> QED
    BY <2>1, <2>2, <2>3
<1>3. Sending' /\ IdleIsIdle'
  BY <1>2 DEF Sending, IdleIsIdle
<1>4. BatchInOrder'
  BY <1>2 DEF BatchInOrder
<1>5. CursorReached' /\ SessionReached'
  BY <1>2, <1>3 DEF CursorReached, SessionReached, Reached, Relayed, Seen
<1> QED
  BY <1>2, <1>3, <1>4, <1>5

-----------------------------------------------------------------------------
(* Each action preserves the invariant.                                    *)

LEMMA BeginKeeps ==
  ASSUME FeedInv,
         NEW kinds \in {<<r>> : r \in BOOLEAN} \cup (BOOLEAN \X BOOLEAN),
         BeginTransaction(kinds)
  PROVE  FeedInv'
<1> DEFINE more == [i \in 1..Len(kinds) |-> [tx |-> Len(events) + 1, relayed |-> kinds[i]]]
<1>1. /\ events \in Seq(Row) /\ Len(events) \in Nat
      /\ Len(kinds) \in Nat /\ Len(kinds) >= 1 /\ \A i \in 1..Len(kinds) : kinds[i] \in BOOLEAN
      /\ Len(events) + Len(kinds) <= MaxEvents
      /\ events' = events \o more /\ open' = open \cup {Len(events) + 1}
      /\ UNCHANGED <<visible, cursor, poll, chat, failures, behind>>
  <2>1. Len(kinds) \in Nat /\ Len(kinds) >= 1 /\ \A i \in 1..Len(kinds) : kinds[i] \in BOOLEAN
    <3>1. CASE kinds \in {<<r>> : r \in BOOLEAN}
      <4>1. PICK r \in BOOLEAN : kinds = <<r>>
        BY <3>1
      <4>2. Len(kinds) = 1 /\ kinds[1] = r
        BY <4>1
      <4>3. \A i \in 1..Len(kinds) : i = 1
        BY <4>2
      <4> QED
        BY <4>2, <4>3
    <3>2. CASE kinds \in BOOLEAN \X BOOLEAN
      <4>1. PICK r \in BOOLEAN, q \in BOOLEAN : kinds = <<r, q>>
        BY <3>2
      <4>2. Len(kinds) = 2 /\ kinds[1] = r /\ kinds[2] = q
        BY <4>1
      <4>3. \A i \in 1..Len(kinds) : i = 1 \/ i = 2
        BY <4>2
      <4> QED
        BY <4>2, <4>3
    <3> QED
      BY <3>1, <3>2
  <2> QED
    BY <2>1 DEF FeedInv, Types, BeginTransaction
<1>2. Len(events) + 1 \in 1..MaxEvents
  BY <1>1
<1>3. more \in Seq(Row) /\ Len(more) = Len(kinds)
  <2>1. \A i \in 1..Len(kinds) : [tx |-> Len(events) + 1, relayed |-> kinds[i]] \in Row
    BY <1>1, <1>2 DEF Row
  <2>2. more \in [1..Len(kinds) -> Row]
    BY <2>1
  <2>3. \A n \in Nat : \A f : f \in [1..n -> Row] => f \in Seq(Row) /\ Len(f) = n
    OBVIOUS
  <2>4. Len(kinds) \in Nat
    BY <1>1
  <2> QED
    BY <2>2, <2>3, <2>4, Zenon
<1> HIDE DEF more
<1>4. /\ events' \in Seq(Row) /\ Len(events') = Len(events) + Len(kinds)
      /\ \A e \in 1..Len(events) : events'[e] = events[e]
  BY <1>1, <1>3
<1>5. \A e \in Events : e \in Events' /\ Relayed(e)' = Relayed(e)
  BY <1>1, <1>4 DEF Events, Relayed
<1>6. Types'
  BY <1>1, <1>2, <1>4, <1>5 DEF FeedInv, Types
<1>7. Seen' = Seen
  BY <1>1 DEF Seen
<1> QED
  BY <1>1, <1>5, <1>6, <1>7, PollStands

LEMMA CommitKeeps ==
  ASSUME FeedInv, NEW t \in open, CommitTransaction(t)
  PROVE  FeedInv'
<1>1. /\ visible' = visible \cup RowsOf(t) /\ open' \subseteq open
      /\ behind' = behind \cup {e \in RowsOf(t) : e <= ReadTo}
      /\ UNCHANGED <<events, cursor, poll, chat, failures>>
  BY DEF CommitTransaction
<1>2. RowsOf(t) \subseteq Events /\ Events' = Events
  BY <1>1 DEF RowsOf, Events
<1>3. Types'
  BY <1>1, <1>2 DEF FeedInv, Types
<1>4. ReadTo \in Nat
  <2>1. poll.todo \in Seq(1..MaxEvents) /\ poll.at \in Nat
    BY DEF FeedInv, Types, PollType
  <2>2. poll.todo # <<>> => Last(poll.todo) \in 1..MaxEvents
    BY <2>1 DEF Last
  <2> QED
    BY <2>1, <2>2 DEF ReadTo, FeedInv, Types
<1>5. \A e \in Seen' \ Seen : e > ReadTo
  <2> SUFFICES ASSUME NEW e \in Seen' \ Seen
               PROVE  e > ReadTo
    OBVIOUS
  <2>1. e \in RowsOf(t) /\ ~(e <= ReadTo) /\ e \in Nat
    BY <1>1, <1>2 DEF Seen, Events
  <2> QED
    BY <2>1, <1>4
<1>6. \A e \in Events : e \in Events' /\ Relayed(e)' = Relayed(e)
  BY <1>1, <1>2 DEF Relayed
<1>7. UNCHANGED <<cursor, poll, chat, failures>> /\ visible \subseteq visible'
  BY <1>1
<1> QED
  BY <1>3, <1>5, <1>6, <1>7, PollStands

LEMMA RollBackKeeps ==
  ASSUME FeedInv, NEW t \in open, RollBack(t)
  PROVE  FeedInv'
<1>1. open' \subseteq open /\ UNCHANGED <<events, visible, cursor, poll, chat, failures, behind>>
  BY DEF RollBack
<1>2. Types'
  BY <1>1 DEF FeedInv, Types, Events
<1>3. Seen' = Seen /\ \A e \in Events : e \in Events' /\ Relayed(e)' = Relayed(e)
  BY <1>1 DEF Seen, Events, Relayed
<1>4. /\ UNCHANGED <<cursor, poll, chat, failures>> /\ visible \subseteq visible'
      /\ \A e \in Seen' \ Seen : e > ReadTo
  BY <1>1, <1>3
<1> QED
  BY <1>2, <1>3, <1>4, PollStands

LEMMA InitStateKeeps ==
  ASSUME FeedInv, InitState
  PROVE  FeedInv'
<1> USE DEF FeedInv
<1>1. /\ cursor = NoCursor /\ cursor' = Len(events) /\ behind' = Events
      /\ UNCHANGED <<events, open, visible, poll, chat, failures>>
  BY DEF InitState
<1>2. ~Sending /\ ~Sending' /\ IdleIsIdle'
  BY <1>1 DEF BatchInOrder, Sending, IdleIsIdle, Idle
<1>3. Len(events) \in 0..MaxEvents
  BY DEF Types
<1>4. Types'
  BY <1>1, <1>3 DEF Types, Events
<1>5. Seen' = {}
  BY <1>1 DEF Types, Seen
<1>6. BatchInOrder' /\ CursorReached' /\ SessionReached'
  BY <1>2, <1>5 DEF BatchInOrder, CursorReached, SessionReached, Reached
<1>7. Repeats'
  <2> SUFFICES ASSUME NEW e \in 1..MaxEvents
               PROVE  Count(chat', e) <= failures' + (IF e <= Position' THEN 1 ELSE 0)
    BY DEF Repeats
  <2>1. Count(chat, e) \in Nat /\ failures \in Nat
    BY CountIsNat DEF Types
  <2>2. Position = 0
    BY <1>1, <1>2 DEF Position
  <2>3. Count(chat, e) <= failures
    BY <2>1, <2>2 DEF Repeats
  <2>4. Count(chat', e) = Count(chat, e) /\ failures' = failures
    BY <1>1
  <2>5. CASE e <= Position'
    BY <2>1, <2>3, <2>4, <2>5
  <2>6. CASE ~(e <= Position')
    BY <2>1, <2>3, <2>4, <2>6
  <2> QED
    BY <2>5, <2>6
<1> QED
  BY <1>2, <1>4, <1>6, <1>7

LEMMA SkipRowKeeps ==
  ASSUME FeedInv, SkipRow
  PROVE  FeedInv'
<1> USE DEF FeedInv
<1>1. /\ poll.todo # <<>> /\ ~Relayed(Head(poll.todo)) /\ poll' = Advanced
      /\ UNCHANGED <<events, open, visible, cursor, chat, failures, behind>>
  BY DEF SkipRow
<1>2. /\ Sending /\ Sending' /\ poll'.at = Head(poll.todo)
      /\ poll' \in PollType /\ Len(poll'.todo) <= BatchSize /\ IdleIsIdle' /\ BatchInOrder'
  BY <1>1, AdvanceKeepsOrder
<1>3. CursorReached' /\ SessionReached'
  BY <1>1, HandledKeepsReached
<1>4. Types'
  BY <1>1, <1>2 DEF Types, Events
<1>5. Repeats'
  <2> SUFFICES ASSUME NEW e \in 1..MaxEvents
               PROVE  Count(chat', e) <= failures' + (IF e <= Position' THEN 1 ELSE 0)
    BY DEF Repeats
  <2>1. Count(chat, e) \in Nat /\ failures \in Nat /\ chat' = chat /\ failures' = failures
    BY <1>1, CountIsNat DEF Types
  <2>2. Position = poll.at /\ Position' = Head(poll.todo)
    BY <1>2 DEF Position
  <2>3. poll.at < Head(poll.todo) /\ poll.at \in Nat /\ Head(poll.todo) \in Nat
    BY <1>1, <1>2, HeadOfBatch DEF Types, PollType
  <2>4. Count(chat, e) <= failures + (IF e <= Position THEN 1 ELSE 0)
    BY DEF Repeats
  <2>5. e <= Position => e <= Position'
    BY <2>2, <2>3
  <2> QED
    BY <2>1, <2>4, <2>5
<1> QED
  BY <1>2, <1>3, <1>4, <1>5

LEMMA SendKeeps ==
  ASSUME FeedInv, Send
  PROVE  FeedInv'
<1> USE DEF FeedInv
<1> DEFINE h == Head(poll.todo)
<1>1. /\ poll.todo # <<>> /\ Relayed(h) /\ poll' = Advanced /\ chat' = Append(chat, h)
      /\ UNCHANGED <<events, open, visible, cursor, failures, behind>>
  BY DEF Send
<1>2. /\ Sending /\ Sending' /\ poll'.at = h
      /\ poll' \in PollType /\ Len(poll'.todo) <= BatchSize /\ IdleIsIdle' /\ BatchInOrder'
  BY <1>1, AdvanceKeepsOrder
<1>3. poll.at < h /\ poll.at \in Nat /\ h \in 1..MaxEvents
  BY <1>1, <1>2, HeadOfBatch DEF Types, PollType
<1>4. /\ chat' \in Seq(1..MaxEvents) /\ Contains(chat', h)
      /\ \A e : Contains(chat, e) => Contains(chat', e)
  BY <1>1, <1>3, ContainsAppend DEF Types
<1>5. CursorReached' /\ SessionReached'
  BY <1>1, <1>4, HandledKeepsReached
<1>6. Types'
  BY <1>1, <1>2, <1>4 DEF Types, Events
<1>7. Repeats'
  <2> SUFFICES ASSUME NEW e \in 1..MaxEvents
               PROVE  Count(chat', e) <= failures' + (IF e <= Position' THEN 1 ELSE 0)
    BY DEF Repeats
  <2>1. Count(chat, e) \in Nat /\ failures \in Nat /\ failures' = failures
    BY <1>1, CountIsNat DEF Types
  <2>2. Position = poll.at /\ Position' = h
    BY <1>2 DEF Position
  <2>3. Count(chat, e) <= failures + (IF e <= Position THEN 1 ELSE 0)
    BY DEF Repeats
  <2>4. Count(chat', e) = Count(chat, e) + (IF e = h THEN 1 ELSE 0)
    BY <1>1, <1>3, CountAppend DEF Types
  <2>5. CASE e = h
    BY <1>3, <2>1, <2>2, <2>3, <2>4, <2>5
  <2>6. CASE e # h
    <3>1. e <= Position => e <= Position'
      BY <1>3, <2>2
    <3> QED
      BY <2>1, <2>3, <2>4, <2>6, <3>1
  <2> QED
    BY <2>5, <2>6
<1> QED
  BY <1>2, <1>5, <1>6, <1>7

LEMMA CommitCursorKeeps ==
  ASSUME FeedInv, CommitCursor
  PROVE  FeedInv'
<1> USE DEF FeedInv
<1>1. /\ Sending /\ poll.todo = <<>> /\ cursor' = poll.at /\ poll' = Idle
      /\ UNCHANGED <<events, open, visible, chat, failures, behind>>
  BY DEF CommitCursor, Sending
<1>2. /\ poll.at \in 0..MaxEvents /\ ~Sending' /\ IdleIsIdle' /\ poll' \in PollType
      /\ Len(poll'.todo) <= BatchSize
  BY <1>1 DEF Types, PollType, Sending, IdleIsIdle, Idle
<1>3. Types'
  BY <1>1, <1>2 DEF Types, Events
<1>4. BatchInOrder' /\ SessionReached'
  BY <1>2 DEF BatchInOrder, SessionReached
<1>5. CursorReached'
  BY <1>1 DEF CursorReached, SessionReached, Reached, Relayed, Seen
<1>6. cursor' # NoCursor /\ Position' = Position
  BY <1>1, <1>2 DEF Position
<1>7. Repeats'
  BY <1>1, <1>6 DEF Repeats, Count
<1> QED
  BY <1>2, <1>3, <1>4, <1>5, <1>7

LEMMA SendFailsKeeps ==
  ASSUME FeedInv, SendFails
  PROVE  FeedInv'
<1> USE DEF FeedInv
<1> DEFINE h == Head(poll.todo)
<1>1. /\ poll.todo # <<>> /\ chat' \in {chat, Append(chat, h)}
      /\ poll' = [poll EXCEPT !.todo = <<>>]
      /\ failures < MaxFailures /\ failures' = failures + 1
      /\ UNCHANGED <<events, open, visible, cursor, behind>>
  BY DEF SendFails, Fails
<1>2. Sending
  BY <1>1 DEF IdleIsIdle, Idle
<1>3. poll.at < h /\ poll.at \in Nat /\ h \in 1..MaxEvents
  BY <1>1, <1>2, HeadOfBatch DEF Types, PollType
<1>4. chat' \in Seq(1..MaxEvents) /\ \A e : Contains(chat, e) => Contains(chat', e)
  BY <1>1, <1>3, ContainsAppend DEF Types
<1>5. /\ Sending' /\ poll'.at = poll.at /\ poll' \in PollType /\ Len(poll'.todo) <= BatchSize
      /\ IdleIsIdle' /\ BatchInOrder' /\ CursorReached' /\ SessionReached'
  BY <1>1, <1>2, <1>4, DroppedKeepsOrder
<1>6. failures' \in 0..MaxFailures
  BY <1>1 DEF Types
<1>7. Types'
  BY <1>1, <1>4, <1>5, <1>6 DEF Types, Events
<1>8. Repeats'
  <2> SUFFICES ASSUME NEW e \in 1..MaxEvents
               PROVE  Count(chat', e) <= failures' + (IF e <= Position' THEN 1 ELSE 0)
    BY DEF Repeats
  <2>1. Count(chat, e) \in Nat /\ failures \in Nat
    BY CountIsNat DEF Types
  <2>2. Position = poll.at /\ Position' = poll.at
    BY <1>2, <1>5 DEF Position
  <2>3. Count(chat, e) <= failures + (IF e <= Position THEN 1 ELSE 0)
    BY DEF Repeats
  <2>4. CASE chat' = chat
    BY <1>1, <2>1, <2>2, <2>3, <2>4
  <2>5. CASE chat' = Append(chat, h)
    <3>1. Count(chat', e) = Count(chat, e) + (IF e = h THEN 1 ELSE 0)
      BY <1>3, <2>5, CountAppend DEF Types
    <3>3. CASE e = h
      <4>1. Count(chat, e) <= failures
        BY <3>3, <1>3, <2>1, <2>2, <2>3
      <4> QED
        BY <4>1, <3>1, <3>3, <1>1, <1>3, <2>1, <2>2
    <3>4. CASE e # h
      <4>1. Count(chat', e) = Count(chat, e)
        BY <3>1, <3>4, <2>1
      <4> QED
        BY <4>1, <1>1, <2>1, <2>2, <2>3
    <3> QED
      BY <3>3, <3>4
  <2> QED
    BY <1>1, <2>4, <2>5
<1> QED
  BY <1>5, <1>7, <1>8

LEMMA PollDiesKeeps ==
  ASSUME FeedInv, PollDies
  PROVE  FeedInv'
<1> USE DEF FeedInv
<1>1. /\ Sending /\ poll' = Idle
      /\ failures < MaxFailures /\ failures' = failures + 1
      /\ UNCHANGED <<events, open, visible, cursor, behind, chat>>
  BY DEF PollDies, Fails, Sending
<1>2. ~Sending' /\ IdleIsIdle' /\ poll' \in PollType /\ Len(poll'.todo) <= BatchSize
  BY <1>1 DEF PollType, Sending, IdleIsIdle, Idle
<1>3. failures' \in 0..MaxFailures
  BY <1>1 DEF Types
<1>4. Types'
  BY <1>1, <1>2, <1>3 DEF Types, Events
<1>5. BatchInOrder' /\ SessionReached'
  BY <1>2 DEF BatchInOrder, SessionReached
<1>6. CursorReached'
  BY <1>1 DEF CursorReached, Reached, Relayed, Seen
<1>7. Repeats'
  <2> SUFFICES ASSUME NEW e \in 1..MaxEvents
               PROVE  Count(chat', e) <= failures' + (IF e <= Position' THEN 1 ELSE 0)
    BY DEF Repeats
  <2>1. Count(chat, e) \in Nat /\ failures \in Nat
    BY CountIsNat DEF Types
  <2>2. Count(chat, e) <= failures + (IF e <= Position THEN 1 ELSE 0)
    BY DEF Repeats
  <2>3. Count(chat, e) <= failures + 1
    BY <2>1, <2>2
  <2> QED
    BY <1>1, <2>1, <2>3
<1> QED
  BY <1>2, <1>4, <1>5, <1>6, <1>7

THEOREM FeedStep == FeedInv /\ [Next]_vars => FeedInv'
<1> SUFFICES ASSUME FeedInv, [Next]_vars
             PROVE  FeedInv'
  OBVIOUS
<1>1. ASSUME NEW kinds \in {<<r>> : r \in BOOLEAN} \cup (BOOLEAN \X BOOLEAN),
             BeginTransaction(kinds)
      PROVE  FeedInv'
  BY <1>1, BeginKeeps
<1>2. ASSUME NEW t \in open, CommitTransaction(t) \/ RollBack(t)
      PROVE  FeedInv'
  BY <1>2, CommitKeeps, RollBackKeeps
<1>3. CASE Poll
  BY <1>3, InitStateKeeps, ReadsInOrder, SkipRowKeeps, SendKeeps, CommitCursorKeeps DEF Poll
<1>4. CASE SendFails
  BY <1>4, SendFailsKeeps
<1>5. CASE PollDies
  BY <1>5, PollDiesKeeps
<1>6. CASE UNCHANGED vars
  BY <1>6 DEF vars, FeedInv, Types, Events, IdleIsIdle, Idle, BatchInOrder, CursorReached,
     SessionReached, Reached, Relayed, Repeats, Seen, Sending, Position, Count
<1> QED
  BY <1>1, <1>2, <1>3, <1>4, <1>5, <1>6 DEF Next, Transactions

THEOREM SpecFeedInv == Spec => []FeedInv
<1> QED
  BY FeedInit, FeedStep, PTL DEF Spec

-----------------------------------------------------------------------------
(* The properties.                                                         *)

LEMMA SeqNarrows ==
  ASSUME NEW S, NEW T, NEW s \in Seq(S), \A i \in 1..Len(s) : s[i] \in T
  PROVE  s \in Seq(T)
  OBVIOUS

\* Type correctness, and no poll holds more rows than _AUDIT_BATCH_SIZE.
THEOREM SpecTypeOK == Spec => []TypeOK
<1>1. FeedInv => TypeOK
  <2> SUFFICES ASSUME FeedInv PROVE TypeOK
    OBVIOUS
  <2> USE DEF FeedInv
  <2>1. poll.todo \in Seq(1..MaxEvents) /\ poll.at \in 0..MaxEvents /\ poll.pc \in {"idle", "sending"}
    BY DEF Types, PollType
  <2>2. poll.todo \in Seq(Events)
    <3>1. \A i \in 1..Len(poll.todo) : poll.todo[i] \in Events
      BY DEF IdleIsIdle, Idle, BatchInOrder, Types
    <3>2. PICK todo \in Seq(1..MaxEvents) : todo = poll.todo
      BY <2>1
    <3>3. \A i \in 1..Len(todo) : todo[i] \in Events
      BY <3>1, <3>2
    <3>4. todo \in Seq(Events)
      BY <3>3, SeqNarrows
    <3> QED
      BY <3>2, <3>4
  <2> QED
    BY <2>1, <2>2 DEF Types, TypeOK, Row
<1> QED
  BY <1>1, SpecFeedInv, PTL

\* The committed cursor never passes a relayed row that Telegram did not get,
\* unless it was committed behind the poll (_poll_audit_events).
THEOREM SpecNoneSkipped == Spec => []NoneSkipped
<1>1. FeedInv => NoneSkipped
  BY DEF FeedInv, CursorReached, Reached, Seen, NoneSkipped
<1> QED
  BY <1>1, SpecFeedInv, PTL

\* Every message past the first is one the notifier sent again because a send
\* or a poll had failed.
THEOREM SpecRepeatsAreRetries == Spec => []RepeatsAreRetries
<1>1. FeedInv => RepeatsAreRetries
  <2> SUFFICES ASSUME FeedInv, NEW e \in ToSet(chat)
               PROVE  Count(chat, e) <= 1 + failures
    BY DEF RepeatsAreRetries, Count
  <2>1. e \in 1..MaxEvents
    BY DEF FeedInv, Types, ToSet
  <2>2. Count(chat, e) \in Nat /\ failures \in Nat
    BY CountIsNat DEF FeedInv, Types
  <2> QED
    BY <2>1, <2>2 DEF FeedInv, Repeats
<1> QED
  BY <1>1, SpecFeedInv, PTL

\* A delivered message is the first row the poll could see past its position:
\* all the earlier ones Telegram already had.
THEOREM SpecRelayedInOrder == Spec => RelayedInOrder
<1> DEFINE InOrder ==
      chat' # chat =>
         \A f \in visible \ behind : f < Last(chat') /\ Relayed(f) => Contains(chat, f)
<1>1. FeedInv /\ [Next]_vars => [InOrder]_vars
  <2> SUFFICES ASSUME FeedInv, Next, chat' # chat,
                      NEW f \in Seen, f < Last(chat'), Relayed(f)
               PROVE  Contains(chat, f)
    BY DEF vars, Seen
  <2> USE DEF FeedInv
  <2> DEFINE h == Head(poll.todo)
  <2>1. poll.todo # <<>> /\ chat' = Append(chat, h)
    BY DEF Next, Transactions, BeginTransaction, CommitTransaction, RollBack, Poll, InitState,
       ReadBatch, SkipRow, Send, CommitCursor, SendFails, PollDies
  <2>2. Sending
    BY <2>1 DEF IdleIsIdle, Idle
  <2>3. h \in 1..MaxEvents /\ \A e \in Seen : e > poll.at => e >= h
    BY <2>1, <2>2, HeadOfBatch
  <2>4. Last(chat') = h
    BY <2>1, <2>3 DEF Last, Types
  <2>5. f \in Nat /\ poll.at \in Nat
    BY DEF Types, PollType, Seen, Events
  <2>6. f <= poll.at
    BY <2>3, <2>4, <2>5
  <2> QED
    BY <2>2, <2>6 DEF SessionReached, Reached
<1> QED
  BY <1>1, SpecFeedInv, PTL DEF Spec, RelayedInOrder

=============================================================================
