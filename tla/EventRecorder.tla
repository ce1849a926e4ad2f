--------------------------- MODULE EventRecorder ---------------------------
(***************************************************************************)
(* The event recorder of one instruction: market events are serialized     *)
(* behind a header into the data of a log instruction, and the log         *)
(* instruction is invoked (flush) whenever the next event would not fit    *)
(* into a cross-program call, and at the end of the instruction.           *)
(*                                                                         *)
(* An event is a record with at least the field kind.  Recording it puts   *)
(* its index in front.                                                     *)
(***************************************************************************)
EXTENDS Integers, Sequences

CONSTANTS
  MAX_INNER_INSTRUCTION_SIZE,   \* bytes a cross-program call can carry
  LOG_IX_ACCOUNT_META_SIZE,
  HEADER_LEN

\* Serialized sizes: the tag, the index and the fields of each event.
EventSize ==
  [Fill |-> 67, Place |-> 43, Reduce |-> 35, Evict |-> 59, FillSummary |-> 43,
   Fee |-> 11, TimeInForce |-> 27, ExpiredOrder |-> 59]

MAX_EVENT_SIZE == 67

ASSUME SizeAssumption ==
  /\ MAX_INNER_INSTRUCTION_SIZE \in Nat
  /\ LOG_IX_ACCOUNT_META_SIZE \in Nat
  /\ HEADER_LEN \in Nat
  /\ HEADER_LEN + MAX_EVENT_SIZE + LOG_IX_ACCOUNT_META_SIZE
       <= MAX_INNER_INSTRUCTION_SIZE

\* data is the length of the log instruction's data and events what it holds
\* after the header; sent are the log instructions invoked so far, each with
\* the number of events that its header announces.  The batch index of the
\* state tracker is the length of sent.
NewRecorder ==
  [data |-> HEADER_LEN, events |-> <<>>, emitted |-> 0, added |-> 0, sent |-> <<>>]

get_batch_size(r) == r.added - r.emitted

flush(r) ==
  [data |-> HEADER_LEN, events |-> <<>>, emitted |-> r.added, added |-> r.added,
   sent |-> Append(r.sent, [total |-> get_batch_size(r), events |-> r.events,
                            size |-> r.data + LOG_IX_ACCOUNT_META_SIZE])]

\* Mutation: the account meta of the call is forgotten.
IsFull_noMeta(r, e) == r.data + EventSize[e.kind] > MAX_INNER_INSTRUCTION_SIZE

IsFull(r, e) ==
  r.data + EventSize[e.kind] + LOG_IX_ACCOUNT_META_SIZE > MAX_INNER_INSTRUCTION_SIZE

\* The index is set before a flush may make room.
add_event(r, e) ==
  LET room == IF IsFull(r, e) THEN flush(r) ELSE r
  IN [data |-> room.data + EventSize[e.kind],
      events |-> Append(room.events, [index |-> r.added, event |-> e]),
      emitted |-> room.emitted, added |-> r.added + 1, sent |-> room.sent]

has_events_to_process(r) == Len(r.sent) = 0 \/ r.emitted < r.added

\* What increment_market_sequence_number_and_flush has invoked in the end.
Published(r) == (IF has_events_to_process(r) THEN flush(r) ELSE r).sent

----------------------------------------------------------------------------
(* Properties.                                                             *)

\* Event i of the sequence carries the number `first' + i - 1.
NumberedFrom(events, first) ==
  \A i \in 1..Len(events) : events[i].index = first + i - 1

\* The index of the first event of a batch.
FirstIndex(batch) == batch.events[1].index

\* What a client can check of the log of an instruction: every batch fits
\* into a call and holds as many events as its header says, and the events
\* of all batches are numbered from 0 without gap or repetition.
WellNumbered(sent) ==
  /\ \A b \in 1..Len(sent) :
       /\ sent[b].size <= MAX_INNER_INSTRUCTION_SIZE
       /\ sent[b].total = Len(sent[b].events)
       /\ sent[b].total > 0 => NumberedFrom(sent[b].events, FirstIndex(sent[b]))
  /\ Len(sent) > 0 /\ sent[1].total > 0 => FirstIndex(sent[1]) = 0
  /\ \A b \in 1..(Len(sent) - 1) :
       /\ sent[b].total > 0 /\ sent[b + 1].total > 0
       /\ FirstIndex(sent[b + 1]) = FirstIndex(sent[b]) + sent[b].total

\* The log of a whole instruction is well numbered and has a batch.
IsComplete(sent) == Len(sent) > 0 /\ WellNumbered(sent)

\* The recorder in the middle of an instruction: what was sent is well
\* numbered and no batch is empty, what is buffered goes on from there and
\* still fits.
RecorderOK(r) ==
  /\ r.emitted \in Nat /\ r.added \in Nat /\ r.data \in Nat
  /\ Len(r.events) \in Nat /\ Len(r.sent) \in Nat
  /\ r.emitted + Len(r.events) = r.added
  /\ NumberedFrom(r.events, r.emitted)
  /\ r.data + LOG_IX_ACCOUNT_META_SIZE <= MAX_INNER_INSTRUCTION_SIZE
  /\ Len(r.events) = 0 => r.data = HEADER_LEN
  /\ WellNumbered(r.sent)
  /\ \A b \in 1..Len(r.sent) :
       r.sent[b].total \in Nat \ {0} /\ FirstIndex(r.sent[b]) \in Nat
  /\ IF Len(r.sent) = 0 THEN r.emitted = 0
     ELSE LET last == r.sent[Len(r.sent)]
          IN r.emitted = FirstIndex(last) + last.total
============================================================================
