-------------------------- MODULE MarketLogProofs --------------------------
(***************************************************************************)
(* The recorder keeps its invariant with every event and every flush, for  *)
(* every size of the log instruction that has room for one event, and what *)
(* it has published in the end is complete.                                *)
(*                                                                         *)
(* The log of every successful instruction is complete, for every market,  *)
(* every order and every size of the log instruction that has room for one *)
(* event.                                                                  *)
(***************************************************************************)
EXTENDS MarketLog, TLAPS

----------------------------------------------------------------------------
(* The recorder.                                                           *)

\* The kinds of market events, and the bounds of their sizes.
LEMMA EventSizes ==
  ASSUME NEW k \in DOMAIN EventSize
  PROVE  EventSize[k] \in Nat /\ EventSize[k] <= MAX_EVENT_SIZE
  BY DEF EventSize, MAX_EVENT_SIZE

\* A new recorder, before any event, satisfies the invariant.
LEMMA NewRecorderOK == RecorderOK(NewRecorder)
  BY SizeAssumption
  DEF RecorderOK, NewRecorder, NumberedFrom, WellNumbered, MAX_EVENT_SIZE

\* A batch is well numbered in itself.
BatchOK(batch) ==
  /\ batch.size <= MAX_INNER_INSTRUCTION_SIZE
  /\ batch.total = Len(batch.events)
  /\ batch.total \in Nat \ {0} /\ FirstIndex(batch) \in Nat
  /\ NumberedFrom(batch.events, FirstIndex(batch))

\* Batches are well numbered, and the next event has the number `next'.
SentOK(sent, next) ==
  /\ Len(sent) \in Nat
  /\ \A b \in 1..Len(sent) : BatchOK(sent[b])
  /\ Len(sent) > 0 => FirstIndex(sent[1]) = 0
  /\ \A b \in 1..(Len(sent) - 1) :
       FirstIndex(sent[b + 1]) = FirstIndex(sent[b]) + sent[b].total
  /\ IF Len(sent) = 0 THEN next = 0
     ELSE next = FirstIndex(sent[Len(sent)]) + sent[Len(sent)].total

\* SentOK is the part of RecorderOK about the batches that were sent.
LEMMA SentMeaning ==
  ASSUME NEW sent, NEW next
  PROVE  SentOK(sent, next) <=>
           /\ Len(sent) \in Nat
           /\ WellNumbered(sent)
           /\ \A b \in 1..Len(sent) :
                sent[b].total \in Nat \ {0} /\ FirstIndex(sent[b]) \in Nat
           /\ IF Len(sent) = 0 THEN next = 0
              ELSE LET last == sent[Len(sent)]
                   IN next = FirstIndex(last) + last.total
PROOF
  <1> DEFINE Totals == \A b \in 1..Len(sent) :
               sent[b].total \in Nat \ {0} /\ FirstIndex(sent[b]) \in Nat
  <1>1. ASSUME SentOK(sent, next)
        PROVE  Len(sent) \in Nat /\ Totals /\ WellNumbered(sent)
    <2>1. Len(sent) \in Nat /\ \A b \in 1..Len(sent) : BatchOK(sent[b])
      BY Zenon, <1>1 DEF SentOK
    <2>2. Totals
      BY Zenon, <2>1 DEF BatchOK
    <2>3. \A b \in 1..Len(sent) :
            /\ sent[b].size <= MAX_INNER_INSTRUCTION_SIZE
            /\ sent[b].total = Len(sent[b].events)
            /\ NumberedFrom(sent[b].events, FirstIndex(sent[b]))
      BY Zenon, <2>1 DEF BatchOK
    <2>4. \A b \in 1..(Len(sent) - 1) : sent[b].total > 0 /\ sent[b + 1].total > 0
      BY <2>1, <2>2
    <2> QED BY Zenon, <1>1, <2>1, <2>2, <2>3, <2>4 DEF SentOK, WellNumbered
  <1>2. ASSUME Len(sent) \in Nat, Totals, WellNumbered(sent)
        PROVE  /\ \A b \in 1..Len(sent) : BatchOK(sent[b])
               /\ Len(sent) > 0 => FirstIndex(sent[1]) = 0
               /\ \A b \in 1..(Len(sent) - 1) :
                    FirstIndex(sent[b + 1]) = FirstIndex(sent[b]) + sent[b].total
    <2>1. \A b \in 1..Len(sent) : BatchOK(sent[b])
      BY <1>2 DEF WellNumbered, BatchOK
    <2>2. Len(sent) > 0 => FirstIndex(sent[1]) = 0
      BY <1>2 DEF WellNumbered
    <2> QED BY Zenon, <1>2, <2>1, <2>2 DEF WellNumbered
  <1> QED BY Zenon, <1>1, <1>2 DEF SentOK

\* The part of RecorderOK about the events in the buffer.
BufferOK(r) ==
  /\ r.emitted \in Nat /\ r.added \in Nat /\ r.data \in Nat
  /\ Len(r.events) \in Nat
  /\ r.emitted + Len(r.events) = r.added
  /\ NumberedFrom(r.events, r.emitted)
  /\ r.data + LOG_IX_ACCOUNT_META_SIZE <= MAX_INNER_INSTRUCTION_SIZE
  /\ Len(r.events) = 0 => r.data = HEADER_LEN

\* The recorder's invariant is about its buffer and about what it has sent.
LEMMA RecorderMeaning ==
  ASSUME NEW r
  PROVE  RecorderOK(r) <=> BufferOK(r) /\ SentOK(r.sent, r.emitted)
PROOF
  <1>1. SentOK(r.sent, r.emitted) <=>
          /\ Len(r.sent) \in Nat
          /\ WellNumbered(r.sent)
          /\ \A b \in 1..Len(r.sent) :
               r.sent[b].total \in Nat \ {0} /\ FirstIndex(r.sent[b]) \in Nat
          /\ IF Len(r.sent) = 0 THEN r.emitted = 0
             ELSE LET last == r.sent[Len(r.sent)]
                  IN r.emitted = FirstIndex(last) + last.total
    BY Zenon, SentMeaning
  <1> QED BY Zenon, <1>1, Zenon DEF RecorderOK, BufferOK

\* A batch that continues the numbering may be appended.
LEMMA AppendBatch ==
  ASSUME NEW sent, NEW next, NEW batch,
         SentOK(sent, next), BatchOK(batch), FirstIndex(batch) = next
  PROVE  SentOK(Append(sent, batch), next + batch.total)
PROOF
  <1> PICK s : s = Append(sent, batch)
    BY Zenon
  <1> PICK n : n = Len(sent)
    BY Zenon
  <1>1. /\ n \in Nat /\ Len(s) = n + 1
        /\ s[n + 1] = batch
        /\ \A b \in 1..n : s[b] = sent[b]
    BY DEF SentOK
  <1>2. \A b \in 1..(n + 1) : b \in 1..n \/ b = n + 1
    BY <1>1
  <1>3. \A b \in 1..Len(s) : BatchOK(s[b])
    BY Zenon, <1>1, <1>2 DEF SentOK
  <1>4. FirstIndex(s[1]) = 0
    <2>1. CASE n = 0
      BY <2>1, <1>1 DEF SentOK
    <2>2. CASE n > 0
      BY <2>2, <1>1 DEF SentOK
    <2> QED BY <2>1, <2>2, <1>1
  <1>5. ASSUME NEW b \in 1..n
        PROVE  FirstIndex(s[b + 1]) = FirstIndex(s[b]) + s[b].total
    <2>1. CASE b = n
      BY <2>1, <1>1 DEF SentOK
    <2>2. CASE b \in 1..(n - 1)
      BY <2>2, <1>1 DEF SentOK
    <2> QED BY <2>1, <2>2, <1>1
  <1> QED BY <1>1, <1>3, <1>4, <1>5 DEF SentOK

\* Flushing a recorder that holds an event keeps the invariant: the batch
\* continues the numbering of the ones before it.
LEMMA FlushOK ==
  ASSUME NEW r, RecorderOK(r), Len(r.events) > 0
  PROVE  RecorderOK(flush(r))
PROOF
  <1> PICK batch : batch = [total |-> r.added - r.emitted, events |-> r.events,
                            size |-> r.data + LOG_IX_ACCOUNT_META_SIZE]
    BY Zenon
  <1> PICK f : f = flush(r)
    BY Zenon
  <1>1. /\ f.data = HEADER_LEN /\ f.events = <<>>
        /\ f.emitted = r.added /\ f.added = r.added
        /\ f.sent = Append(r.sent, batch)
    BY Zenon DEF flush, get_batch_size
  <1>2. /\ BatchOK(batch) /\ FirstIndex(batch) = r.emitted
        /\ r.emitted + batch.total = r.added
    <2>1. /\ r.emitted \in Nat /\ r.added \in Nat /\ Len(r.events) \in Nat
          /\ r.emitted + Len(r.events) = r.added
          /\ NumberedFrom(r.events, r.emitted)
          /\ r.data + LOG_IX_ACCOUNT_META_SIZE <= MAX_INNER_INSTRUCTION_SIZE
      BY Zenon, RecorderMeaning DEF BufferOK
    <2>2. /\ batch.total = r.added - r.emitted /\ batch.events = r.events
          /\ batch.size = r.data + LOG_IX_ACCOUNT_META_SIZE
      BY Zenon
    <2>3. batch.total = Len(r.events) /\ batch.total \in Nat \ {0}
      BY <2>1, <2>2
    <2>4. r.events[1].index = r.emitted
      BY <2>1 DEF NumberedFrom
    <2>5. FirstIndex(batch) = r.emitted
      BY Zenon, <2>2, <2>4 DEF FirstIndex
    <2>6. BatchOK(batch)
      BY Zenon, <2>1, <2>2, <2>3, <2>5 DEF BatchOK
    <2> QED BY Zenon, <2>1, <2>3, <2>5, <2>6
  <1>3. SentOK(r.sent, r.emitted) /\ r.added \in Nat
    BY Zenon, RecorderMeaning DEF BufferOK
  <1>4. SentOK(f.sent, f.emitted)
    BY Zenon, <1>1, <1>2, <1>3, AppendBatch
  <1>5. /\ f.emitted \in Nat /\ f.added \in Nat /\ f.data \in Nat
        /\ Len(f.events) = 0
        /\ f.emitted + Len(f.events) = f.added
        /\ f.data = HEADER_LEN
        /\ f.data + LOG_IX_ACCOUNT_META_SIZE <= MAX_INNER_INSTRUCTION_SIZE
    BY <1>1, <1>3, SizeAssumption DEF MAX_EVENT_SIZE
  <1>6. NumberedFrom(f.events, f.emitted)
    BY <1>5 DEF NumberedFrom
  <1>7. BufferOK(f)
    BY <1>5, <1>6 DEF BufferOK
  <1> QED BY Zenon, <1>4, <1>7, RecorderMeaning

\* Recording an event keeps the invariant: a recorder that is full holds an
\* event, because the header leaves room for one.
LEMMA AddEventOK ==
  ASSUME NEW r, NEW e, RecorderOK(r), e.kind \in DOMAIN EventSize
  PROVE  RecorderOK(add_event(r, e))
PROOF
  <1> PICK n : n = EventSize[e.kind]
    BY Zenon
  <1>1. n \in Nat /\ n <= MAX_EVENT_SIZE
    BY Zenon, EventSizes
  <1> PICK room : room = IF IsFull(r, e) THEN flush(r) ELSE r
    BY Zenon
  <1>0. BufferOK(r)
    BY Zenon, RecorderMeaning
  <1>2. /\ RecorderOK(room) /\ room.added = r.added
        /\ room.data + n + LOG_IX_ACCOUNT_META_SIZE <= MAX_INNER_INSTRUCTION_SIZE
    <2>1. CASE IsFull(r, e)
      <3>1. Len(r.events) > 0
        <4>1. /\ Len(r.events) \in Nat /\ r.data \in Nat
              /\ Len(r.events) = 0 => r.data = HEADER_LEN
          BY Zenon, <1>0 DEF BufferOK
        <4>2. r.data + n + LOG_IX_ACCOUNT_META_SIZE > MAX_INNER_INSTRUCTION_SIZE
          BY Zenon, <2>1 DEF IsFull
        <4> QED BY <4>1, <4>2, <1>1, SizeAssumption DEF MAX_EVENT_SIZE
      <3>2. flush(r).data = HEADER_LEN /\ flush(r).added = r.added
        BY Zenon DEF flush
      <3> QED BY <2>1, <3>1, <3>2, <1>1, FlushOK, SizeAssumption DEF MAX_EVENT_SIZE
    <2>2. CASE ~ IsFull(r, e)
      <3>1. r.data \in Nat
        BY Zenon, <1>0 DEF BufferOK
      <3> QED BY <2>2, <3>1, <1>1, SizeAssumption DEF IsFull
    <2> QED BY Zenon, <2>1, <2>2
  <1> PICK x : x = [index |-> r.added, event |-> e]
    BY Zenon
  <1> PICK a : a = add_event(r, e)
    BY Zenon
  <1>3. /\ a.data = room.data + n
        /\ a.events = Append(room.events, x)
        /\ a.emitted = room.emitted /\ a.added = r.added + 1
        /\ a.sent = room.sent
    BY Zenon DEF add_event
  <1>4. /\ room.data \in Nat /\ room.emitted \in Nat /\ room.added \in Nat
        /\ Len(room.events) \in Nat
        /\ room.emitted + Len(room.events) = room.added
        /\ NumberedFrom(room.events, room.emitted)
    BY Zenon, <1>2, RecorderMeaning DEF BufferOK
  <1> PICK s : s = room.events
    BY Zenon
  <1>5. /\ Len(a.events) = Len(s) + 1
        /\ a.events[Len(s) + 1] = x
        /\ \A i \in 1..Len(s) : a.events[i] = s[i]
    <2>1. Len(s) \in Nat /\ a.events = Append(s, x)
      BY Zenon, <1>3, <1>4
    <2> QED BY <2>1
  <1>6. NumberedFrom(a.events, a.emitted)
    <2>1. /\ Len(s) \in Nat /\ room.emitted \in Nat
          /\ \A i \in 1..Len(s) : s[i].index = room.emitted + i - 1
          /\ r.added = room.emitted + Len(s)
      BY Zenon, <1>2, <1>4 DEF NumberedFrom
    <2>2. x.index = r.added /\ a.emitted = room.emitted
      BY Zenon, <1>3
    <2>3. \A i \in 1..(Len(s) + 1) : i \in 1..Len(s) \/ i = Len(s) + 1
      BY <2>1
    <2>4. ASSUME NEW i \in 1..(Len(s) + 1)
          PROVE  a.events[i].index = a.emitted + i - 1
      <3>1. CASE i \in 1..Len(s)
        BY Zenon, <3>1, <1>5, <2>1, <2>2
      <3>2. CASE i = Len(s) + 1
        BY <3>2, <1>5, <2>1, <2>2
      <3> QED BY Zenon, <3>1, <3>2, <2>3
    <2> QED BY Zenon, <2>4, <1>5 DEF NumberedFrom
  <1>7. /\ a.emitted \in Nat /\ a.added \in Nat /\ a.data \in Nat
        /\ Len(a.events) \in Nat /\ Len(a.events) # 0
        /\ a.emitted + Len(a.events) = a.added
        /\ a.data + LOG_IX_ACCOUNT_META_SIZE <= MAX_INNER_INSTRUCTION_SIZE
    <2>1. /\ Len(s) \in Nat /\ room.emitted + Len(s) = room.added
          /\ Len(a.events) = Len(s) + 1
      BY Zenon, <1>4, <1>5
    <2>2. a.emitted = room.emitted /\ a.added = room.added + 1
      BY Zenon, <1>2, <1>3
    <2>3. a.data \in Nat /\ a.data + LOG_IX_ACCOUNT_META_SIZE <= MAX_INNER_INSTRUCTION_SIZE
      <3>1. a.data = room.data + n /\ room.data \in Nat /\ n \in Nat
        BY Zenon, <1>1, <1>3, <1>4
      <3>2. room.data + n + LOG_IX_ACCOUNT_META_SIZE <= MAX_INNER_INSTRUCTION_SIZE
        BY Zenon, <1>2
      <3> QED BY <3>1, <3>2
    <2>4. room.emitted \in Nat /\ room.added \in Nat
      BY Zenon, <1>4
    <2>5. Len(a.events) \in Nat /\ Len(a.events) # 0
      BY <2>1
    <2>6. a.emitted + Len(a.events) = a.added
      BY <2>1, <2>2, <2>4
    <2>7. a.emitted \in Nat /\ a.added \in Nat
      BY <2>2, <2>4
    <2> QED BY Zenon, <2>3, <2>5, <2>6, <2>7
  <1>8. SentOK(a.sent, a.emitted)
    BY Zenon, <1>2, <1>3, RecorderMeaning
  <1>9. BufferOK(a)
    BY Zenon, <1>6, <1>7 DEF BufferOK
  <1> QED BY Zenon, <1>8, <1>9, RecorderMeaning

\* What an instruction has logged in the end is complete: an instruction
\* without events logs one empty batch, and nothing stays in the buffer.
LEMMA PublishedOK ==
  ASSUME NEW r, RecorderOK(r)
  PROVE  IsComplete(Published(r))
PROOF
  <1> PICK f : f = flush(r)
    BY Zenon
  <1> PICK batch : batch = [total |-> r.added - r.emitted, events |-> r.events,
                            size |-> r.data + LOG_IX_ACCOUNT_META_SIZE]
    BY Zenon
  <1> PICK s : s = r.sent
    BY Zenon
  <1>0. Len(s) \in Nat /\ f.sent = Append(s, batch)
    BY Zenon DEF flush, get_batch_size, RecorderOK
  <1>1. Len(f.sent) = Len(s) + 1 /\ f.sent[Len(s) + 1] = batch
    BY <1>0
  <1>2. CASE Len(r.events) > 0
    <2>1. r.emitted < r.added
      BY <1>2 DEF RecorderOK
    <2>2. Published(r) = f.sent
      BY Zenon, <2>1 DEF Published, has_events_to_process
    <2>3. WellNumbered(f.sent)
      BY Zenon, <1>2, FlushOK DEF RecorderOK
    <2> QED BY <1>0, <1>1, <2>2, <2>3 DEF IsComplete
  <1>3. CASE Len(r.events) = 0 /\ Len(s) = 0
    <2>1. Published(r) = f.sent
      BY Zenon, <1>3 DEF Published, has_events_to_process
    <2>2. Len(f.sent) = 1 /\ f.sent[1] = batch
      BY <1>1, <1>3
    <2>3. batch.size <= MAX_INNER_INSTRUCTION_SIZE /\ batch.total = 0
            /\ batch.total = Len(batch.events)
      <3>1. r.added = r.emitted /\ r.emitted \in Nat
        BY <1>3 DEF RecorderOK
      <3>2. r.data + LOG_IX_ACCOUNT_META_SIZE <= MAX_INNER_INSTRUCTION_SIZE
        BY Zenon DEF RecorderOK
      <3>3. /\ batch.size = r.data + LOG_IX_ACCOUNT_META_SIZE
            /\ batch.total = r.added - r.emitted
            /\ batch.events = r.events
        BY Zenon
      <3> QED BY <1>3, <3>1, <3>2, <3>3
    <2>4. WellNumbered(f.sent)
      <3> PICK l : l = f.sent
        BY Zenon
      <3>1. \A b \in 1..Len(l) : b = 1 /\ l[b] = batch
        BY <2>2
      <3>2. \A b \in 1..(Len(l) - 1) : FALSE
        BY <2>2
      <3> QED BY <2>2, <2>3, <3>1, <3>2 DEF WellNumbered
    <2> QED BY <2>1, <2>2, <2>4 DEF IsComplete
  <1>4. CASE Len(r.events) = 0 /\ Len(s) # 0
    <2>1. ~ has_events_to_process(r)
      BY <1>4 DEF has_events_to_process, RecorderOK
    <2>2. Published(r) = s
      BY Zenon, <2>1 DEF Published
    <2> QED BY <1>0, <1>4, <2>2 DEF IsComplete, RecorderOK
  <1>5. Len(r.events) \in Nat
    BY Zenon DEF RecorderOK
  <1> QED BY <1>2, <1>3, <1>4, <1>5
----------------------------------------------------------------------------
(* The log of an instruction.                                              *)

\* The inductive invariant: the recorder is in order and every log so far
\* was complete.
LogInv == RecorderOK(recorder) /\ complete

\* A step that goes on recording keeps it.
LEMMA RecordKeeps ==
  ASSUME NEW r, RecorderOK(r), LogInv, Record(r)
  PROVE  LogInv'
PROOF
  <1>1. recorder' = NewRecorder \/ recorder' = r
    BY Zenon DEF Record
  <1>2. RecorderOK(recorder')
    BY Zenon, <1>1, NewRecorderOK
  <1>3. complete'
    BY Zenon DEF LogInv, Record
  <1> QED BY Zenon, <1>2, <1>3, Zenon DEF LogInv, RecorderOK

\* So does a step that publishes the log.
LEMMA PublishKeeps ==
  ASSUME NEW r, NEW signer, RecorderOK(r), LogInv, Publish(r, signer)
  PROVE  LogInv'
PROOF
  <1>1. RecorderOK(recorder')
    BY Zenon, NewRecorderOK, Zenon DEF Publish
  <1>2. complete'
    BY Zenon, PublishedOK, Zenon DEF LogInv, Publish
  <1> QED BY Zenon, <1>1, <1>2, Zenon DEF LogInv

\* The last step of an order publishes the log or drops it.
LEMMA FinishKeeps ==
  ASSUME NEW r, NEW signer, RecorderOK(r), LogInv, Finish(r, signer)
  PROVE  LogInv'
PROOF
  <1>1. CASE recorder' = NewRecorder /\ UNCHANGED <<mirror, complete>>
    BY Zenon, <1>1, NewRecorderOK, Zenon DEF LogInv
  <1>2. CASE Publish(r, signer)
    BY Zenon, <1>2, PublishKeeps
  <1> QED BY Zenon, <1>1, <1>2, Zenon DEF Finish

\* The first step of an instruction publishes an empty log or starts one.
LEMMA BeginKeeps ==
  ASSUME NEW signer, LogInv, Begin(signer)
  PROVE  LogInv'
PROOF
  <1>1. CASE recorder' = NewRecorder /\ UNCHANGED <<mirror, complete>>
    BY Zenon, <1>1, NewRecorderOK, Zenon DEF LogInv
  <1>2. CASE Publish(NewRecorder, signer)
    BY Zenon, <1>2, NewRecorderOK, PublishKeeps
  <1> QED BY Zenon, <1>1, <1>2, Zenon DEF Begin

\* Every market event is of a kind that the recorder can serialize.
LEMMA EventKinds ==
  ASSUME NEW o, NEW lots
  PROVE  /\ FillEvent(o, lots).kind \in DOMAIN EventSize
         /\ FillSummaryEvent(lots).kind \in DOMAIN EventSize
         /\ PlaceEvent(o).kind \in DOMAIN EventSize
         /\ TimeInForceEvent(o).kind \in DOMAIN EventSize
         /\ EvictEvent(o).kind \in DOMAIN EventSize
         /\ ExpiredOrderEvent(o).kind \in DOMAIN EventSize
         /\ ReduceEvent(o, lots).kind \in DOMAIN EventSize
         /\ FeeEvent(lots).kind \in DOMAIN EventSize
  BY Zenon DEF FillEvent, FillSummaryEvent, PlaceEvent, TimeInForceEvent, EvictEvent,
         ExpiredOrderEvent, ReduceEvent, FeeEvent, EventSize

\* The events of posting an order.
LEMMA RecordPostOK ==
  ASSUME NEW m, RecorderOK(recorder)
  PROVE  RecorderOK(RecordPost(m))
PROOF
  <1> DEFINE side == txn.p.side
             placed == CHOOSE o \in m.book[side] : o.seq = StoredSeq(side, txn.m.seq)
             evicted == IF Cardinality(txn.m.book[side]) = Capacity(side)
                        THEN Evictable(txn.m, side, placed.price) ELSE {}
             r1 == IF evicted # {}
                   THEN add_event(recorder, EvictEvent(CHOOSE o \in evicted : TRUE))
                   ELSE recorder
             r2 == add_event(r1, PlaceEvent(placed))
             r3 == IF placed.lvs # 0 THEN add_event(r2, TimeInForceEvent(placed)) ELSE r2
  <1>1. RecordPost(m) = r3
    BY Zenon DEF RecordPost
  <1> HIDE DEF placed, evicted
  <1>2. RecorderOK(r1)
    BY Zenon, EventKinds, AddEventOK, Zenon
  <1> HIDE DEF r1
  <1>3. RecorderOK(r2)
    BY Zenon, <1>2, EventKinds, AddEventOK, Zenon
  <1> HIDE DEF r2
  <1>4. RecorderOK(r3)
    BY Zenon, <1>3, EventKinds, AddEventOK, Zenon
  <1> QED BY Zenon, <1>1, <1>4, Zenon

\* Every step of an order, a ladder or a cancellation keeps the invariant.
LEMMA StepKeeps ==
  ASSUME LogInv, LoggedStep
  PROVE  LogInv'
PROOF
  <1>1. RecorderOK(recorder)
    BY Zenon DEF LogInv
  <1>2. ASSUME NEW e, e.kind \in DOMAIN EventSize, RecordTop(e)
        PROVE  LogInv'
    BY Zenon, <1>1, <1>2, AddEventOK, RecordKeeps DEF RecordTop
  <1>3. CASE Record(recorder)
    BY Zenon, <1>1, <1>3, RecordKeeps
  <1>4. CASE \E o, lots : RecordTop(FillEvent(o, lots)) \/ RecordTop(ReduceEvent(o, lots))
    BY Zenon, <1>2, <1>4, EventKinds, Zenon
  <1>5. CASE LoggedOrderStep
    <2>1. CASE RecordTop(ExpiredOrderEvent(Top))
      BY Zenon, <1>2, <2>1, EventKinds, Zenon
    <2>2. CASE RecordTop(FillSummaryEvent(FeeOn(txn.matchedAdj)))
      BY Zenon, <1>2, <2>2, EventKinds, Zenon
    <2>3. CASE LogDecrement
      BY Zenon, <1>4, <2>3, Zenon DEF LogDecrement
    <2>4. CASE LogFill
      BY Zenon, <1>3, <1>4, <2>4, Zenon DEF LogFill
    <2>5. CASE LogPlaceOrder
      BY Zenon, <1>1, <2>5, RecordPostOK, FinishKeeps, Zenon DEF LogPlaceOrder
    <2>6. CASE RecordTop(ReduceEvent(Top, Top.size))
      BY Zenon, <1>4, <2>6, Zenon
    <2> QED BY Zenon, <1>3, <1>5, <2>1, <2>2, <2>3, <2>4, <2>5, <2>6, Zenon DEF LoggedOrderStep
  <1>6. CASE LoggedBatchStep
    <2>1. CASE RecordTop(ExpiredOrderEvent(Top))
      BY Zenon, <1>2, <2>1, EventKinds, Zenon
    <2>2. CASE LogLevel
      BY Zenon, <1>1, <2>2, RecordPostOK, RecordKeeps, Zenon DEF LogLevel
    <2>3. CASE Finish(recorder, txn.who)
      BY Zenon, <1>1, <2>3, FinishKeeps
    <2> QED BY Zenon, <1>3, <1>6, <2>1, <2>2, <2>3, Zenon DEF LoggedBatchStep
  <1>7. CASE LoggedCancelStep
    <2>1. CASE LogCancel
      BY Zenon, <1>3, <1>4, <2>1, Zenon DEF LogCancel
    <2>2. CASE Publish(recorder, txn.who)
      BY Zenon, <1>1, <2>2, PublishKeeps
    <2> QED BY Zenon, <1>7, <2>1, <2>2, Zenon DEF LoggedCancelStep
  <1> QED BY Zenon, <1>5, <1>6, <1>7, Zenon DEF LoggedStep

\* So does every whole instruction.
LEMMA TraderKeeps ==
  ASSUME NEW t \in Trader, LogInv, LoggedTrader(t)
  PROVE  LogInv'
PROOF
  <1>1. CASE Begin(t)
    BY Zenon, <1>1, BeginKeeps
  <1>2. CASE \E o, lots : Publish(add_event(NewRecorder, ReduceEvent(o, lots)), t)
    BY Zenon, <1>2, NewRecorderOK, EventKinds, AddEventOK, PublishKeeps, Zenon
  <1> QED BY Zenon, <1>1, <1>2, Zenon DEF LoggedTrader

\* The log of every successful instruction has at least one batch, its
\* batches fit into a cross-program call and announce the events they hold,
\* and its events are numbered without gaps, whatever the instruction did to
\* the book.
THEOREM LogComplete == LogSpec => []LogIsComplete
PROOF
  <1>1. LogInit => LogInv
    BY Zenon, NewRecorderOK, Zenon DEF LogInit, LogInv
  <1>2. LogInv /\ [LogNext]_logVars => LogInv'
    <2> SUFFICES ASSUME LogInv, [LogNext]_logVars PROVE LogInv'
      BY Zenon
    <2>1. CASE LoggedStep
      BY Zenon, <2>1, StepKeeps
    <2>2. CASE \E t \in Trader : LoggedTrader(t)
      BY Zenon, <2>2, TraderKeeps, Zenon
    <2>3. CASE Publish(add_event(NewRecorder, FeeEvent(market.unclaimed)), "authority")
      BY Zenon, <2>3, NewRecorderOK, EventKinds, AddEventOK, PublishKeeps, Zenon
    <2>4. CASE UNCHANGED log
      BY Zenon, <2>4, Zenon DEF LogInv, log
    <2>5. CASE UNCHANGED logVars
      BY Zenon, <2>5, <2>4, Zenon DEF logVars
    <2> QED BY Zenon, <2>1, <2>2, <2>3, <2>4, <2>5, Zenon DEF LogNext
  <1>3. LogInv => LogIsComplete
    BY Zenon DEF LogInv, LogIsComplete
  <1> QED BY <1>1, <1>2, <1>3, PTL DEF LogSpec
============================================================================
