------------------------- MODULE PaperMetadata_proofs -------------------------
(***************************************************************************)
(* Proofs about PaperMetadata, for any papers, batches, revisions, lookup  *)
(* schedules, budgets and failures.                                        *)
(***************************************************************************)
EXTENDS PaperMetadata, FiniteSetTheorems, TLAPS

USE PaperMetadataAssumption

(***************************************************************************)
(* The invariant.  Library: an event holds the revision of its head.       *)
(* Index: what sync_indexes() has in hand is not older than what it         *)
(* selected and not newer than the head, as long as the paper is there.    *)
(* Queue: a batch keeps the revisions of its selection, since an item and  *)
(* a run belong to a batch that is in use; a run beyond its first look has *)
(* its clues from that revision.                                           *)
(***************************************************************************)
Revision == 0..MaxRevision
HeadRow == [rev : 0..MaxRevision, origin : Origin]
SyncState == [rows : [Paper -> {NoEvent} \cup 0..MaxRevision],
              got : [Paper -> {NoEvent} \cup 0..MaxRevision], written : BOOLEAN]
BatchRow == [rows : [Paper -> 0..MaxRevision], cancel : BOOLEAN, manual : BOOLEAN]
ItemRow == [status : Terminal \cup Active \cup {"none"}, link : Item \cup {NoItem},
            requests : 0..MaxRequests, due : BOOLEAN, at : Checkpoint]
Place == {"none", "submitted", "claimed", "asking", "sent", "cached", "parking",
          "deciding", "applying", "finishing", "broken", "done"}
RunState == [pc : Place, clue : 0..MaxRevision, at : Checkpoint, outcome : Terminal]

Enrolled(p) == \E b \in Batch : batch[b].rows[p] # 0

LibraryInv ==
  /\ present \subseteq Paper
  /\ head \in [Paper -> HeadRow]
  /\ event \in [Paper -> {NoEvent} \cup Revision]
  /\ \A p \in Paper : p \in present => head[p].rev # 0
  /\ \A p \in Paper : event[p] # NoEvent => event[p] = head[p].rev

Selected(p) == sync.rows[p] # NoEvent =>
  /\ event[p] # NoEvent
  /\ head[p].rev = 0 \/ (sync.rows[p] # 0 /\ head[p].rev >= sync.rows[p])

InHand(p) == sync.got[p] # NoEvent =>
  /\ sync.rows[p] # NoEvent
  /\ head[p].rev = 0 \/ (sync.got[p] # 0 /\ head[p].rev >= sync.got[p])
  /\ sync.got[p] = 0 \/ (sync.rows[p] # 0 /\ sync.got[p] >= sync.rows[p])
  /\ sync.written => index[p] = sync.got[p]
  /\ \A q \in Paper : sync.got[q] # NoEvent => q = p

Follows(p) == event[p] = NoEvent => index[p] = head[p].rev

SyncInv ==
  /\ index \in [Paper -> Revision]
  /\ sync \in SyncState
  /\ \A p \in Paper : Selected(p) /\ InHand(p) /\ Follows(p)
  /\ sync.written => \E p \in Paper : sync.got[p] # NoEvent

(* A paper that no batch has ever named has never been in the library. *)
NotYet == \A p \in Paper : ~Enrolled(p) =>
  head[p].rev = 0 /\ event[p] = NoEvent /\ sync.rows[p] = NoEvent /\ sync.got[p] = NoEvent

Looked == {"asking", "sent", "cached", "parking", "deciding", "applying"}
Asks == {"asking", "sent", "cached", "parking"}

Sound(i, x) ==
  /\ x \in RunState
  /\ x.pc \in Looked => x.clue = InputRevision(i)
  /\ x.pc \in Asks => x.at.index < Providers

QueueInv ==
  /\ batch \in [Batch -> BatchRow]
  /\ item \in [Item -> ItemRow]
  /\ run \in [Item -> RunState]
  /\ \E n \in 0..MaxBatches : \A b \in Batch : Used(b) <=> b <= n
  /\ \A i \in Item : item[i].status # "none" \/ run[i].pc # "none" => Used(BatchOf(i))
  /\ \A i \in Item : Sound(i, run[i])

Inv ==
  /\ LibraryInv /\ SyncInv /\ NotYet /\ QueueInv
  /\ failures \in 0..MaxFailures

(***************************************************************************)
(* The library and the index.                                              *)
(***************************************************************************)

(* How a transaction may change the head of a paper and its event. *)
Revised(p) ==
  \/ head'[p].rev = head[p].rev /\ event'[p] = event[p]
  \/ /\ head[p].rev # 0 /\ head'[p].rev >= head[p].rev
     /\ event'[p] = head'[p].rev
  \/ /\ ~Enrolled(p) /\ Enrolled(p)' /\ head'[p].rev # 0
     /\ event'[p] = head'[p].rev
  \/ head[p].rev # 0 /\ head'[p].rev = 0 /\ event'[p] = 0

LEMMA LibraryMoves ==
  ASSUME LibraryInv, SyncInv, NotYet, UNCHANGED indexing,
         head' \in [Paper -> HeadRow], event' \in [Paper -> {NoEvent} \cup Revision],
         \A p \in Paper : Revised(p),
         \A p \in Paper : Enrolled(p) => Enrolled(p)'
  PROVE  /\ SyncInv' /\ NotYet'
         /\ \A p \in Paper : event'[p] # NoEvent => event'[p] = head'[p].rev
<1>1. index' = index /\ sync' = sync
  BY DEF indexing
<1>2. ASSUME NEW p \in Paper
      PROVE  /\ head[p].rev \in Nat /\ head'[p].rev \in Nat
             /\ sync.rows[p] \in {NoEvent} \cup Nat /\ sync.got[p] \in {NoEvent} \cup Nat
             /\ event[p] # NoEvent => event[p] = head[p].rev
             /\ NoEvent = -1
  BY DEF LibraryInv, HeadRow, Revision, NoEvent, SyncInv, SyncState
<1>3. ASSUME NEW p \in Paper PROVE event'[p] # NoEvent => event'[p] = head'[p].rev
  BY <1>2 DEF Revised
<1>4. ASSUME NEW p \in Paper PROVE Selected(p)'
  <2>1. Selected(p) /\ Revised(p) /\ (~Enrolled(p) => sync.rows[p] = NoEvent)
    BY DEF SyncInv, NotYet
  <2> QED
    BY <1>1, <1>2, <2>1 DEF Selected, Revised
<1>5. ASSUME NEW p \in Paper PROVE InHand(p)'
  <2>1. InHand(p) /\ Revised(p) /\ (~Enrolled(p) => sync.got[p] = NoEvent)
    BY DEF SyncInv, NotYet
  <2> QED
    BY <1>1, <1>2, <2>1 DEF InHand, Revised
<1>6. ASSUME NEW p \in Paper PROVE Follows(p)'
  <2>1. Follows(p) /\ Revised(p)
    BY DEF SyncInv
  <2> QED
    BY <1>1, <1>2, <2>1 DEF Follows, Revised
<1>7. SyncInv'
  BY <1>1, <1>4, <1>5, <1>6 DEF SyncInv
<1>8. ASSUME NEW p \in Paper, ~Enrolled(p)'
      PROVE  head'[p].rev = 0 /\ event'[p] = NoEvent
             /\ sync'.rows[p] = NoEvent /\ sync'.got[p] = NoEvent
  <2>1. ~Enrolled(p)
    BY <1>8
  <2> QED
    BY <1>1, <1>2, <1>8, <2>1 DEF NotYet, Revised
<1>9. NotYet'
  BY <1>8 DEF NotYet
<1> QED
  BY <1>3, <1>7, <1>9

LEMMA LibraryRests ==
  ASSUME LibraryInv, SyncInv, NotYet, UNCHANGED <<library, indexing>>,
         \A p \in Paper : Enrolled(p) => Enrolled(p)'
  PROVE  LibraryInv' /\ SyncInv' /\ NotYet'
<1>1. UNCHANGED <<present, head, event, index, sync>>
  BY DEF library, indexing
<1>2. NotYet'
  BY <1>1 DEF NotYet
<1> QED
  BY <1>1, <1>2 DEF LibraryInv, SyncInv, Selected, InHand, Follows

(* sync_indexes(): the batches, the heads and the events' revisions rest. *)
Synced == UNCHANGED <<present, head, queue, run>>

LEMMA EnrolledStays == UNCHANGED batch => \A p \in Paper : Enrolled(p)' <=> Enrolled(p)
BY DEF Enrolled

LEMMA Facts ==
  ASSUME LibraryInv, SyncInv, NEW p \in Paper
  PROVE  /\ head[p].rev \in Revision
         /\ sync.rows[p] \in {NoEvent} \cup Revision /\ sync.got[p] \in {NoEvent} \cup Revision
         /\ event[p] # NoEvent => event[p] = head[p].rev
         /\ NoEvent = -1 /\ NoEvent \notin Revision /\ Revision \subseteq Nat
BY DEF LibraryInv, HeadRow, Revision, NoEvent, SyncInv, SyncState

LEMMA QuietIs ==
  /\ Quiet \in SyncState /\ ~Quiet.written
  /\ \A p \in Paper : Quiet.rows[p] = NoEvent /\ Quiet.got[p] = NoEvent
BY DEF Quiet, SyncState

LEMMA SelectEventsKeeps ==
  ASSUME LibraryInv, SyncInv, NotYet, SelectEvents
  PROVE  SyncInv' /\ NotYet'
<1>1. UNCHANGED <<head, event, index, batch>> /\ sync = Quiet
  BY DEF SelectEvents, library, queue
<1>2. /\ sync' \in SyncState /\ sync'.rows = event /\ sync'.got = sync.got
      /\ sync'.written = sync.written
  BY DEF SelectEvents, SyncInv, SyncState, LibraryInv, Revision
<1>3. ASSUME NEW p \in Paper PROVE Selected(p)' /\ InHand(p)' /\ Follows(p)'
  BY <1>1, <1>2, QuietIs, Facts DEF SyncInv, Selected, InHand, Follows, Revision
<1>4. SyncInv'
  BY <1>1, <1>2, <1>3, QuietIs DEF SyncInv
<1>5. NotYet'
  BY <1>1, <1>2, EnrolledStays DEF NotYet
<1> QED
  BY <1>4, <1>5

LEMMA SyncReadKeeps ==
  ASSUME LibraryInv, SyncInv, NotYet, NEW p \in Paper, SyncRead(p)
  PROVE  SyncInv' /\ NotYet'
<1>1. UNCHANGED <<head, event, index, batch>>
  BY DEF SyncRead, library, queue
<1>2. head[p].rev \in Revision
  BY Facts
<1>3. /\ sync' \in SyncState /\ sync'.rows = sync.rows
      /\ sync'.got = [sync.got EXCEPT ![p] = head[p].rev]
      /\ sync'.written = sync.written
  BY <1>2 DEF SyncRead, SyncInv, SyncState, Revision
<1>4. /\ sync'.got[p] = head[p].rev
      /\ \A q \in Paper \ {p} : sync'.got[q] = sync.got[q] /\ sync.got[q] = NoEvent
  BY <1>3 DEF SyncRead, SyncInv, SyncState
<1>5. ~sync.written
  BY DEF SyncRead, SyncInv
<1>6. ASSUME NEW q \in Paper PROVE Selected(q)' /\ Follows(q)'
  BY <1>1, <1>3 DEF SyncInv, Selected, Follows
<1>7. ASSUME NEW q \in Paper PROVE InHand(q)'
  <2>1. CASE q # p
    BY <2>1, <1>4 DEF InHand
  <2>2. CASE q = p
    BY <2>2, <1>1, <1>3, <1>4, <1>5, Facts DEF InHand, SyncInv, Selected, SyncRead, Revision
  <2> QED
    BY <2>1, <2>2
<1>8. SyncInv'
  BY <1>1, <1>3, <1>5, <1>6, <1>7 DEF SyncInv
<1>9. NotYet'
  BY <1>1, <1>3, <1>4, EnrolledStays DEF NotYet, SyncRead
<1> QED
  BY <1>8, <1>9

LEMMA SyncWriteKeeps ==
  ASSUME LibraryInv, SyncInv, NotYet, NEW p \in Paper, SyncWrite(p)
  PROVE  SyncInv' /\ NotYet'
<1>1. UNCHANGED <<head, event, batch>>
  BY DEF SyncWrite, library, queue
<1>2. sync.got[p] \in Revision /\ sync.got[p] # NoEvent
  BY Facts DEF SyncWrite
<1>3. /\ sync' \in SyncState /\ sync'.rows = sync.rows /\ sync'.got = sync.got
      /\ sync'.written
  BY DEF SyncWrite, SyncInv, SyncState
<1>4. /\ index' \in [Paper -> Revision] /\ index'[p] = sync.got[p]
      /\ \A q \in Paper \ {p} : index'[q] = index[q]
  BY <1>2 DEF SyncWrite, SyncInv
<1>5. event[p] # NoEvent /\ \A q \in Paper \ {p} : sync.got[q] = NoEvent
  BY <1>2 DEF SyncInv, InHand, Selected
<1>6. ASSUME NEW q \in Paper PROVE Selected(q)' /\ Follows(q)' /\ InHand(q)'
  BY <1>1, <1>2, <1>3, <1>4, <1>5 DEF SyncInv, Selected, Follows, InHand
<1>7. SyncInv'
  BY <1>2, <1>3, <1>4, <1>6 DEF SyncInv
<1>8. NotYet'
  BY <1>1, <1>3, EnrolledStays DEF NotYet
<1> QED
  BY <1>7, <1>8

(* The row in hand is done with, cleared or not. *)
LEMMA NextRowIs ==
  ASSUME SyncInv, NEW p \in Paper, sync' = NextRow(p)
  PROVE  /\ sync' \in SyncState /\ ~sync'.written
         /\ sync'.rows[p] = NoEvent /\ sync'.got[p] = NoEvent
         /\ \A q \in Paper \ {p} : sync'.rows[q] = sync.rows[q] /\ sync'.got[q] = sync.got[q]
<1>1. sync.rows \in [Paper -> {NoEvent} \cup Revision] /\ sync.got \in [Paper -> {NoEvent} \cup Revision]
  BY DEF SyncInv, SyncState, Revision
<1> QED
  BY <1>1 DEF NextRow, SyncState, Revision

LEMMA RowDone ==
  ASSUME LibraryInv, SyncInv, NotYet, NEW p \in Paper, sync' = NextRow(p),
         UNCHANGED <<head, index, batch>>,
         \/ event' = event
         \/ event' = [event EXCEPT ![p] = NoEvent] /\ index[p] = head[p].rev
  PROVE  SyncInv' /\ NotYet'
<1>1. \A q \in Paper \ {p} : event'[q] = event[q]
  BY DEF LibraryInv
<1>2. event'[p] = event[p] \/ (event'[p] = NoEvent /\ index[p] = head[p].rev)
  BY DEF LibraryInv
<1>3. ASSUME NEW q \in Paper PROVE Selected(q)' /\ InHand(q)' /\ Follows(q)'
  <2>1. CASE q = p
    BY <2>1, <1>2, NextRowIs DEF SyncInv, Selected, InHand, Follows
  <2>2. CASE q # p
    BY <2>2, <1>1, NextRowIs DEF SyncInv, Selected, InHand, Follows
  <2> QED
    BY <2>1, <2>2
<1>4. SyncInv'
  BY <1>3, NextRowIs DEF SyncInv
<1>5. NotYet'
  BY <1>1, <1>2, NextRowIs, EnrolledStays DEF NotYet
<1> QED
  BY <1>4, <1>5

LEMMA SyncClearKeeps ==
  ASSUME LibraryInv, SyncInv, NotYet, NEW p \in Paper, SyncClear(p)
  PROVE  LibraryInv' /\ SyncInv' /\ NotYet'
<1>1. UNCHANGED <<present, head, index, batch>> /\ sync' = NextRow(p)
  BY DEF SyncClear, queue
<1>2. event' = event \/ (event' = [event EXCEPT ![p] = NoEvent] /\ event[p] = sync.rows[p])
  BY DEF SyncClear
<1>3. event[p] = sync.rows[p] => index[p] = head[p].rev
  BY Facts DEF SyncClear, SyncInv, Selected, InHand, Revision
<1>4. SyncInv' /\ NotYet'
  BY <1>1, <1>2, <1>3, RowDone
<1>5. LibraryInv'
  BY <1>1, <1>2 DEF LibraryInv
<1> QED
  BY <1>4, <1>5

LEMMA SyncFailsKeeps ==
  ASSUME LibraryInv, SyncInv, NotYet, NEW p \in Paper, SyncFails(p)
  PROVE  SyncInv' /\ NotYet'
BY RowDone DEF SyncFails, library, queue

(***************************************************************************)
(* The queue.                                                              *)
(***************************************************************************)
LEMMA ItemParts == \A i \in Item : BatchOf(i) \in Batch /\ PaperOf(i) \in Paper
BY DEF Item, BatchOf, PaperOf

LEMMA FreshIs == Fresh \in Checkpoint
BY DEF Fresh, Checkpoint

LEMMA RowIs ==
  ASSUME NEW status \in Terminal \cup Active \cup {"none"}, NEW link \in Item \cup {NoItem}
  PROVE  Row(status, link) \in ItemRow /\ Row(status, link).status = status
BY FreshIs DEF Row, ItemRow

LEMMA EndedIs ==
  ASSUME NEW status \in Terminal
  PROVE  Ended(status) \in ItemRow
BY RowIs DEF Ended

LEMMA LeftIs ==
  ASSUME NEW pc \in Place \ Looked, NEW outcome \in Terminal, NEW i \in Item
  PROVE  Sound(i, Left(pc, outcome)) /\ Left(pc, outcome).pc = pc
BY FreshIs DEF Left, RunState, Sound, Looked, Asks

LEMMA IdleIs == \A i \in Item : Sound(i, Idle) /\ Idle.pc = "none"
BY LeftIs DEF Idle, Place, Looked, Terminal

(* The insertions of a new batch take the next number and touch no other. *)
LEMMA EnqueuedKeeps ==
  ASSUME QueueInv, NEW S \in SUBSET Paper, S # {}, NEW h \in [Paper -> HeadRow],
         \A p \in S : h[p].rev # 0, NEW manual \in BOOLEAN,
         Enqueued(S, h, manual), UNCHANGED run
  PROVE  QueueInv' /\ \A p \in Paper : Enrolled(p) \/ p \in S => Enrolled(p)'
<1>1. PICK n \in 0..MaxBatches : \A b \in Batch : Used(b) <=> b <= n
  BY DEF QueueInv
<1>2. {b \in Batch : Used(b)} = 1..n
  BY <1>1 DEF Batch
<1>3. Cardinality(1..n) = n
  BY FS_Interval
<1>4. NextBatch = n + 1
  <2>1. Cardinality({b \in Batch : Used(b)}) = n
    BY <1>2, <1>3, Zenon
  <2> QED
    BY <2>1 DEF NextBatch
<1> DEFINE b == NextBatch
           r == [rows |-> Rows(S, h), cancel |-> FALSE, manual |-> manual]
<1>5. b \in Batch /\ ~Used(b) /\ n + 1 \in 0..MaxBatches
  BY <1>1, <1>4 DEF Enqueued, Batch
<1>6. r \in BatchRow
  BY DEF BatchRow, Rows, HeadRow
<1>7. batch' = [batch EXCEPT ![b] = r]
  BY DEF Enqueued
<1>8. /\ batch' \in [Batch -> BatchRow] /\ batch'[b] = r
      /\ \A c \in Batch \ {b} : batch'[c] = batch[c]
  BY <1>5, <1>6, <1>7 DEF QueueInv
<1>9. \A p \in Paper : batch'[b].rows[p] = IF p \in S THEN h[p].rev ELSE 0
  BY <1>8 DEF Rows
<1>10. \A c \in Batch \ {b} : Used(c)' <=> Used(c)
  BY <1>8 DEF Used
<1>11. \E p \in Paper : batch'[b].rows[p] # 0
  BY <1>9
<1>12. \A c \in Batch : (\E p \in Paper : batch'[c].rows[p] # 0) <=> c <= n + 1
  BY <1>1, <1>4, <1>5, <1>8, <1>11 DEF Used, Batch
<1>13. \A i \in Item : item'[i] \in ItemRow
  <2>1. PICK link \in [S -> Item \cup {NoItem}] :
          item' = [i \in Item |->
            IF BatchOf(i) # b \/ PaperOf(i) \notin S THEN item[i]
            ELSE Row(IF link[PaperOf(i)] = NoItem THEN "queued" ELSE "waiting",
                     link[PaperOf(i)])]
    BY DEF Enqueued
  <2>2. ASSUME NEW i \in Item, PaperOf(i) \in S
        PROVE  Row(IF link[PaperOf(i)] = NoItem THEN "queued" ELSE "waiting",
                   link[PaperOf(i)]) \in ItemRow
    <3>1. link[PaperOf(i)] \in Item \cup {NoItem}
      BY <2>2
    <3>2. {"queued", "waiting"} \subseteq Terminal \cup Active \cup {"none"}
      BY DEF Active
    <3>3. (IF link[PaperOf(i)] = NoItem THEN "queued" ELSE "waiting") \in {"queued", "waiting"}
      OBVIOUS
    <3> QED
      BY <3>1, <3>2, <3>3, RowIs
  <2> QED
    BY <2>1, <2>2 DEF QueueInv
<1>14. /\ item' \in [Item -> ItemRow]
       /\ \A i \in Item : BatchOf(i) # b => item'[i] = item[i]
  BY <1>13 DEF Enqueued
<1>15. \A i \in Item : run[i].pc # "none" => BatchOf(i) # b
  BY <1>5 DEF QueueInv
<1>16. \A i \in Item : item'[i].status # "none" \/ run'[i].pc # "none" => BatchOf(i) <= n + 1
  BY <1>1, <1>4, <1>5, <1>14, <1>15, ItemParts DEF QueueInv, Batch
<1>17. \A i \in Item : Sound(i, run[i])'
  <2> SUFFICES ASSUME NEW i \in Item PROVE Sound(i, run[i])'
    OBVIOUS
  <2>1. Sound(i, run[i]) /\ run' = run
    BY DEF QueueInv
  <2>2. CASE run[i].pc \notin Looked
    BY <2>1, <2>2 DEF Sound
  <2>3. CASE run[i].pc \in Looked
    <3>1. InputRevision(i)' = InputRevision(i)
      BY <1>8, <1>15, <2>3, ItemParts DEF InputRevision, Looked
    <3> QED
      BY <2>1, <3>1 DEF Sound
  <2> QED
    BY <2>2, <2>3
<1>18. QueueInv'
  <2>1. \E m \in 0..MaxBatches : \A c \in Batch : Used(c)' <=> c <= m
    BY <1>5, <1>12 DEF Used
  <2>2. \A i \in Item : item'[i].status # "none" \/ run'[i].pc # "none" => Used(BatchOf(i))'
    BY <1>12, <1>16, ItemParts DEF Used
  <2> QED
    BY <1>8, <1>14, <1>17, <2>1, <2>2 DEF QueueInv
<1>19. \A p \in Paper : Enrolled(p) \/ p \in S => Enrolled(p)'
  <2> SUFFICES ASSUME NEW p \in Paper, Enrolled(p) \/ p \in S
               PROVE  \E c \in Batch : batch'[c].rows[p] # 0
    BY DEF Enrolled
  <2>1. CASE p \in S
    BY <2>1, <1>5, <1>9
  <2>2. CASE Enrolled(p)
    BY <2>2, <1>5, <1>8 DEF Enrolled, Used
  <2> QED
    BY <2>1, <2>2
<1> QED
  BY <1>18, <1>19

(* A step of one item's run, which may write the item too. *)
LEMMA ItemMoves ==
  ASSUME QueueInv, NEW i \in Item, Used(BatchOf(i)), UNCHANGED batch,
         NEW x, Sound(i, x), run' = [run EXCEPT ![i] = x],
         NEW y \in ItemRow, item' = item \/ item' = [item EXCEPT ![i] = y]
  PROVE  QueueInv'
<1>1. /\ run' \in [Item -> RunState] /\ run'[i] = x
      /\ \A j \in Item \ {i} : run'[j] = run[j]
  BY DEF QueueInv, Sound
<1>2. item' \in [Item -> ItemRow] /\ \A j \in Item \ {i} : item'[j] = item[j]
  BY DEF QueueInv
<1>3. \A j \in Item : Sound(j, run[j])'
  BY <1>1 DEF QueueInv, Sound, InputRevision
<1>4. \A b \in Batch : Used(b)' <=> Used(b)
  BY DEF Used
<1>5. \A j \in Item : item'[j].status # "none" \/ run'[j].pc # "none" => Used(BatchOf(j))
  BY <1>1, <1>2 DEF QueueInv
<1>6. \A j \in Item : Used(BatchOf(j))' <=> Used(BatchOf(j))
  BY <1>4, ItemParts DEF Used
<1> QED
  BY <1>1, <1>2, <1>3, <1>4, <1>5, <1>6 DEF QueueInv

(* Writes of items while the runs rest: only an item that is there changes. *)
LEMMA ItemsWritten ==
  ASSUME QueueInv, UNCHANGED run, batch' \in [Batch -> BatchRow],
         \A b \in Batch : batch'[b].rows = batch[b].rows,
         item' \in [Item -> ItemRow],
         \A i \in Item : item'[i] = item[i] \/ item[i].status # "none"
  PROVE  QueueInv' /\ \A p \in Paper : Enrolled(p)' <=> Enrolled(p)
<1>1. \A b \in Batch : Used(b)' <=> Used(b)
  BY DEF Used
<1>2. \A i \in Item : Used(BatchOf(i))' <=> Used(BatchOf(i))
  BY <1>1, ItemParts DEF Used
<1>3. \A i \in Item : Sound(i, run[i])'
  BY ItemParts DEF QueueInv, Sound, InputRevision
<1> QED
  BY <1>1, <1>2, <1>3 DEF QueueInv, Enrolled

LEMMA QueueRests ==
  ASSUME QueueInv, UNCHANGED <<queue, run>>
  PROVE  QueueInv' /\ \A p \in Paper : Enrolled(p)' <=> Enrolled(p)
BY ItemsWritten DEF queue, QueueInv

(***************************************************************************)
(* Requests.                                                               *)
(***************************************************************************)
LEMMA SaveHeadIs ==
  ASSUME LibraryInv, NEW p \in Paper, head[p].rev # 0, NEW origin \in Origin, SaveHead(p, origin)
  PROVE  /\ head' \in [Paper -> HeadRow] /\ event' \in [Paper -> {NoEvent} \cup Revision]
         /\ \A q \in Paper : Revised(q)
         /\ \A q \in Paper : head'[q].rev # 0 <=> head[q].rev # 0
<1> DEFINE new == [rev |-> head[p].rev + 1, origin |-> origin]
<1>1. head[p].rev \in Nat /\ new \in HeadRow /\ new.rev = head[p].rev + 1 /\ new.rev \in Revision
  BY DEF LibraryInv, HeadRow, SaveHead, Revision
<1>2. head' = [head EXCEPT ![p] = new] /\ event' = [event EXCEPT ![p] = new.rev]
  BY DEF SaveHead
<1>3. /\ head' \in [Paper -> HeadRow] /\ head'[p] = new
      /\ event' \in [Paper -> {NoEvent} \cup Revision] /\ event'[p] = new.rev
      /\ \A q \in Paper \ {p} : head'[q] = head[q] /\ event'[q] = event[q]
  BY <1>1, <1>2 DEF LibraryInv
<1> QED
  BY <1>1, <1>3 DEF Revised

LEMMA ImportKeeps ==
  ASSUME Inv, NEW p \in Paper, Import(p)
  PROVE  Inv'
<1>1. PICK o \in {"open", "kept"} :
        /\ head' = [head EXCEPT ![p] = [rev |-> 1, origin |-> o]]
        /\ Enqueued({p}, head', FALSE)
  BY DEF Import
<1>2. 1 \in Revision /\ [rev |-> 1, origin |-> o] \in HeadRow
  BY DEF Revision, HeadRow, Origin
<1>3. /\ head' \in [Paper -> HeadRow] /\ head'[p].rev = 1
      /\ \A q \in Paper \ {p} : head'[q] = head[q]
  BY <1>1, <1>2 DEF Inv, LibraryInv
<1>4. /\ event' \in [Paper -> {NoEvent} \cup Revision] /\ event'[p] = 1
      /\ \A q \in Paper \ {p} : event'[q] = event[q]
  BY <1>2 DEF Import, Inv, LibraryInv
<1>5. PICK h \in [Paper -> HeadRow] : h = head'
  BY <1>3
<1>6. QueueInv' /\ \A q \in Paper : Enrolled(q) \/ q = p => Enrolled(q)'
  <2>1. h[p].rev # 0 /\ QueueInv /\ run' = run
    BY <1>3, <1>5 DEF Import, Inv
  <2>2. {p} \in SUBSET Paper /\ {p} # {} /\ \A q \in {p} : h[q].rev # 0
    BY <2>1
  <2>3. Enqueued({p}, h, FALSE)
    BY <1>1, <1>5 DEF Enqueued, Rows
  <2>4. QueueInv' /\ \A q \in Paper : Enrolled(q) \/ q \in {p} => Enrolled(q)'
    BY <2>1, <2>2, <2>3, EnqueuedKeeps
  <2> QED
    BY <2>4
<1>7. ~Enrolled(p)
  BY DEF Import, Enrolled
<1>8. \A q \in Paper : Revised(q)
  BY <1>3, <1>4, <1>6, <1>7 DEF Revised
<1>9. /\ SyncInv' /\ NotYet'
      /\ \A q \in Paper : event'[q] # NoEvent => event'[q] = head'[q].rev
  BY <1>3, <1>4, <1>6, <1>8, LibraryMoves DEF Import, Inv
<1>10. LibraryInv'
  BY <1>3, <1>4, <1>9 DEF Import, Inv, LibraryInv
<1> QED
  BY <1>6, <1>9, <1>10 DEF Import, Inv

LEMMA SaveKeeps ==
  ASSUME Inv, NEW p \in Paper, Save(p)
  PROVE  Inv'
<1>1. head[p].rev # 0 /\ head[p].rev \in Revision
  BY Facts DEF Save, Inv, LibraryInv
<1>2. /\ event' \in [Paper -> {NoEvent} \cup Revision] /\ event'[p] = head[p].rev
      /\ \A q \in Paper \ {p} : event'[q] = event[q]
  BY <1>1 DEF Save, Inv, LibraryInv
<1>3. QueueInv' /\ \A q \in Paper : Enrolled(q)' <=> Enrolled(q)
  BY QueueRests DEF Save, Inv
<1>4. \A q \in Paper : Revised(q)
  BY <1>1, <1>2 DEF Revised, Save, Revision
<1>5. /\ SyncInv' /\ NotYet'
      /\ \A q \in Paper : event'[q] # NoEvent => event'[q] = head'[q].rev
  BY <1>2, <1>3, <1>4, LibraryMoves DEF Save, Inv, LibraryInv
<1> QED
  BY <1>2, <1>3, <1>5 DEF Save, Inv, LibraryInv

LEMMA EditKeeps ==
  ASSUME Inv, NEW p \in Paper, Edit(p)
  PROVE  Inv'
<1>1. PICK o \in {"kept", head[p].origin} : SaveHead(p, o)
  BY DEF Edit
<1>2. o \in Origin /\ head[p].rev # 0
  BY DEF Edit, Origin, HeadRow, Inv, LibraryInv
<1>3. /\ head' \in [Paper -> HeadRow] /\ event' \in [Paper -> {NoEvent} \cup Revision]
      /\ \A q \in Paper : Revised(q)
      /\ \A q \in Paper : head'[q].rev # 0 <=> head[q].rev # 0
  BY <1>1, <1>2, SaveHeadIs DEF Inv
<1>4. QueueInv' /\ \A q \in Paper : Enrolled(q)' <=> Enrolled(q)
  BY QueueRests DEF Edit, Inv
<1>5. /\ SyncInv' /\ NotYet'
      /\ \A q \in Paper : event'[q] # NoEvent => event'[q] = head'[q].rev
  BY <1>3, <1>4, LibraryMoves DEF Edit, Inv
<1> QED
  BY <1>3, <1>4, <1>5 DEF Edit, Inv, LibraryInv

LEMMA DeleteKeeps ==
  ASSUME Inv, NEW p \in Paper, Delete(p)
  PROVE  Inv'
<1>1. [rev |-> 0, origin |-> "open"] \in HeadRow /\ 0 \in Revision /\ head[p].rev # 0
  BY DEF HeadRow, Origin, Revision, Delete, Inv, LibraryInv
<1>2. /\ head' \in [Paper -> HeadRow] /\ head'[p].rev = 0
      /\ event' \in [Paper -> {NoEvent} \cup Revision] /\ event'[p] = 0
      /\ \A q \in Paper \ {p} : head'[q] = head[q] /\ event'[q] = event[q]
  BY <1>1 DEF Delete, Inv, LibraryInv
<1>3. Ended("deleted") \in ItemRow
  BY EndedIs DEF Terminal
<1>4. /\ item' \in [Item -> ItemRow]
      /\ \A i \in Item : item'[i] = item[i] \/ item[i].status # "none"
  BY <1>3 DEF Delete, Active, Inv, QueueInv
<1>5. QueueInv' /\ \A q \in Paper : Enrolled(q)' <=> Enrolled(q)
  BY <1>4, ItemsWritten DEF Delete, Inv, QueueInv
<1>6. \A q \in Paper : Revised(q)
  BY <1>1, <1>2 DEF Revised
<1>7. /\ SyncInv' /\ NotYet'
      /\ \A q \in Paper : event'[q] # NoEvent => event'[q] = head'[q].rev
  BY <1>2, <1>5, <1>6, LibraryMoves DEF Delete, Inv
<1> QED
  BY <1>2, <1>5, <1>7 DEF Delete, Inv, LibraryInv

LEMMA CreateKeeps ==
  ASSUME Inv, NEW S \in SUBSET Paper, NEW force, Create(S, force)
  PROVE  Inv'
<1>1. QueueInv' /\ \A p \in Paper : Enrolled(p) => Enrolled(p)'
  <2>1. \A p \in S : head[p].rev # 0
    BY DEF Create, Inv, LibraryInv
  <2>2. PICK h \in [Paper -> HeadRow] : h = head
    BY DEF Inv, LibraryInv
  <2> QED
    BY <2>1, <2>2, EnqueuedKeeps DEF Create, Inv
<1> QED
  BY <1>1, LibraryRests DEF Create, Inv

LEMMA CancelKeeps ==
  ASSUME Inv, NEW b \in Batch, Cancel(b)
  PROVE  Inv'
<1> DEFINE r == [batch[b] EXCEPT !.cancel = TRUE]
<1>1. r \in BatchRow /\ r.rows = batch[b].rows
  BY DEF BatchRow, Inv, QueueInv
<1>2. batch' = [batch EXCEPT ![b] = r]
  BY DEF Cancel
<1>3. batch' \in [Batch -> BatchRow] /\ \A c \in Batch : batch'[c].rows = batch[c].rows
  BY <1>1, <1>2 DEF Inv, QueueInv
<1>4. Ended("cancelled") \in ItemRow
  BY EndedIs DEF Terminal
<1>5. /\ item' \in [Item -> ItemRow]
      /\ \A i \in Item : item'[i] = item[i] \/ item[i].status # "none"
  BY <1>4 DEF Cancel, Inv, QueueInv
<1>6. QueueInv' /\ \A q \in Paper : Enrolled(q)' <=> Enrolled(q)
  BY <1>3, <1>5, ItemsWritten DEF Cancel, Inv
<1> QED
  BY <1>6, LibraryRests DEF Cancel, Inv

LEMMA RequestKeeps == Inv /\ Request => Inv'
<1>1. \A b \in Batch : Unsuccessful(b) \in SUBSET Paper
  BY DEF Unsuccessful
<1> QED
  BY <1>1, ImportKeeps, SaveKeeps, EditKeeps, DeleteKeeps, CreateKeeps, CancelKeeps
  DEF Request, Retry

(***************************************************************************)
(* The dispatcher.                                                         *)
(***************************************************************************)
LEMMA GotoIs ==
  ASSUME QueueInv, NEW i \in Item, NEW pc \in Place,
         pc \in Looked => run[i].clue = InputRevision(i),
         pc \in Asks => run[i].at.index < Providers
  PROVE  Sound(i, [run[i] EXCEPT !.pc = pc])
BY DEF QueueInv, Sound, RunState

LEMMA OthersRest ==
  ASSUME Inv, QueueInv', UNCHANGED <<library, indexing, batch, failures>>
  PROVE  Inv'
<1>1. \A p \in Paper : Enrolled(p) => Enrolled(p)'
  BY EnrolledStays
<1> QED
  BY <1>1, LibraryRests DEF Inv

LEMMA DispatchKeeps ==
  ASSUME Inv, NEW i \in Item, Dispatch(i)
  PROVE  Inv'
<1> DEFINE x == [run[i] EXCEPT !.pc = "submitted"]
<1>1. Used(BatchOf(i))
  BY DEF Dispatch, Dispatchable, Inv, QueueInv
<1>2. Sound(i, x)
  BY GotoIs DEF Inv, Place, Looked, Asks
<1>3. run' = [run EXCEPT ![i] = x]
  BY DEF Dispatch, Goto
<1>4. UNCHANGED <<item, batch>>
  BY DEF Dispatch, queue
<1>5. QueueInv'
  BY <1>1, <1>2, <1>3, <1>4, ItemMoves DEF Inv, QueueInv
<1> QED
  BY <1>4, <1>5, OthersRest DEF Dispatch

LEMMA ItemWriteKeeps ==
  ASSUME Inv, NEW i \in Item, NEW y \in ItemRow, item[i].status # "none",
         item' = [item EXCEPT ![i] = y], UNCHANGED <<library, indexing, batch, run, failures>>
  PROVE  Inv'
<1>1. /\ item' \in [Item -> ItemRow]
      /\ \A j \in Item : item'[j] = item[j] \/ item[j].status # "none"
  BY DEF Inv, QueueInv
<1>2. QueueInv'
  BY <1>1, ItemsWritten DEF Inv, QueueInv
<1> QED
  BY <1>2, OthersRest

LEMMA FallDueKeeps ==
  ASSUME Inv, NEW i \in Item, FallDue(i)
  PROVE  Inv'
<1> DEFINE y == [item[i] EXCEPT !.due = TRUE]
<1>1. y \in ItemRow
  BY DEF ItemRow, Inv, QueueInv
<1>2. item' = [item EXCEPT ![i] = y]
  BY DEF FallDue
<1> QED
  BY <1>1, <1>2, ItemWriteKeeps DEF FallDue

LEMMA SyncLinkedKeeps ==
  ASSUME Inv, NEW i \in Item, SyncLinked(i)
  PROVE  Inv'
<1>1. Ended(item[item[i].link].status) \in ItemRow
  BY EndedIs DEF SyncLinked
<1> QED
  BY <1>1, ItemWriteKeeps DEF SyncLinked

LEMMA ReapKeeps ==
  ASSUME Inv, NEW i \in Item, Reap(i)
  PROVE  Inv'
<1>1. Used(BatchOf(i))
  BY DEF Reap, Inv, QueueInv
<1>2. Sound(i, Idle) /\ Ended("failed") \in ItemRow
  BY IdleIs, EndedIs DEF Terminal
<1>3. QueueInv'
  BY <1>1, <1>2, ItemMoves DEF Reap, Inv
<1> QED
  BY <1>3, OthersRest DEF Reap

LEMMA DispatcherKeeps == Inv /\ Dispatcher => Inv'
<1> SUFFICES ASSUME Inv, Dispatcher PROVE Inv'
  OBVIOUS
<1>1. CASE \E i \in Item : Dispatch(i) \/ FallDue(i) \/ Reap(i) \/ SyncLinked(i)
  BY <1>1, DispatchKeeps, FallDueKeeps, ReapKeeps, SyncLinkedKeeps
<1>2. CASE SelectEvents
  BY <1>2, SelectEventsKeeps, QueueRests DEF SelectEvents, library, Inv, LibraryInv
<1>3. ASSUME NEW p \in Paper, SyncRead(p) PROVE Inv'
  BY <1>3, SyncReadKeeps, QueueRests DEF SyncRead, library, Inv, LibraryInv
<1>4. ASSUME NEW p \in Paper, SyncWrite(p) PROVE Inv'
  BY <1>4, SyncWriteKeeps, QueueRests DEF SyncWrite, library, Inv, LibraryInv
<1>5. ASSUME NEW p \in Paper, SyncClear(p) PROVE Inv'
  BY <1>5, SyncClearKeeps, QueueRests DEF SyncClear, Inv
<1>6. ASSUME NEW p \in Paper, SyncFails(p) PROVE Inv'
  <2>1. failures' \in 0..MaxFailures
    BY <1>6 DEF SyncFails, Inv
  <2> QED
    BY <1>6, <2>1, SyncFailsKeeps, QueueRests DEF SyncFails, library, Inv, LibraryInv
<1> QED
  BY <1>1, <1>2, <1>3, <1>4, <1>5, <1>6 DEF Dispatcher

(***************************************************************************)
(* The run of an item.                                                     *)
(***************************************************************************)
LEMMA StepMoves ==
  ASSUME Inv, NEW i \in Item, run[i].pc # "none", NothingElse,
         NEW x, Sound(i, x), run' = [run EXCEPT ![i] = x],
         NEW y \in ItemRow, item' = item \/ item' = [item EXCEPT ![i] = y]
  PROVE  Inv'
<1>1. Used(BatchOf(i))
  BY DEF Inv, QueueInv
<1>2. QueueInv'
  BY <1>1, ItemMoves DEF Inv, NothingElse
<1> QED
  BY <1>2, OthersRest DEF NothingElse

LEMMA RunMoves ==
  ASSUME Inv, NEW i \in Item, run[i].pc # "none", OnlyRun,
         NEW x, Sound(i, x), run' = [run EXCEPT ![i] = x]
  PROVE  Inv'
<1>1. item[i] \in ItemRow
  BY DEF Inv, QueueInv
<1> QED
  BY <1>1, StepMoves DEF OnlyRun

LEMMA EndingKeeps ==
  ASSUME Inv, NEW i \in Item, run[i].pc # "none", OnlyRun,
         NEW outcome \in Terminal, Ending(i, outcome)
  PROVE  Inv'
<1>1. Sound(i, Left("finishing", outcome))
  BY LeftIs DEF Place, Looked
<1> QED
  BY <1>1, RunMoves DEF Ending

LEMMA RefusedKeeps ==
  ASSUME Inv, NEW i \in Item, run[i].pc # "none", Refused(i)
  PROVE  Inv'
<1>1. Refusal(i) \in Terminal
  BY DEF Refusal, Terminal
<1> QED
  BY <1>1, EndingKeeps DEF Refused

LEMMA FailedKeeps ==
  ASSUME Inv, NEW i \in Item, run[i].pc # "none", OnlyRun,
         Ending(i, "failed") \/ Ending(i, "answered")
  PROVE  Inv'
<1>1. "failed" \in Terminal /\ "answered" \in Terminal
  BY DEF Terminal
<1> QED
  BY <1>1, EndingKeeps

LEMMA GotoKeeps ==
  ASSUME Inv, NEW i \in Item, run[i].pc # "none", OnlyRun, NEW pc \in Place, Goto(i, pc),
         pc \in Looked => run[i].clue = InputRevision(i),
         pc \in Asks => run[i].at.index < Providers
  PROVE  Inv'
<1>1. Sound(i, [run[i] EXCEPT !.pc = pc])
  BY GotoIs DEF Inv
<1>2. run' = [run EXCEPT ![i] = [run[i] EXCEPT !.pc = pc]]
  BY DEF Goto
<1> QED
  BY <1>1, <1>2, RunMoves

(* A run that goes on with another checkpoint, of its first or a later look. *)
LEMMA AtIs ==
  ASSUME NEW i \in Item, NEW r \in RunState, NEW pc \in Place, NEW at \in Checkpoint,
         pc \in Looked => r.clue = InputRevision(i),
         pc \in Asks => at.index < Providers
  PROVE  Sound(i, [r EXCEPT !.pc = pc, !.at = at])
BY DEF Sound, RunState

LEMMA NextStageIs ==
  ASSUME NEW at \in Checkpoint
  PROVE  /\ NextStage(at) \in Place
         /\ NextStage(at) \in Asks => at.index < Providers
BY DEF NextStage, Place, Asks, Checkpoint

LEMMA CheckpointIs ==
  ASSUME Inv, NEW i \in Item
  PROVE  /\ run[i] \in RunState /\ run[i].at \in Checkpoint
         /\ item[i] \in ItemRow /\ item[i].at \in Checkpoint
         /\ run[i].pc \in Looked => run[i].clue = InputRevision(i)
         /\ run[i].pc \in Asks => run[i].at.index < Providers
<1>1. Sound(i, run[i]) /\ item[i] \in ItemRow
  BY DEF Inv, QueueInv
<1> QED
  BY <1>1 DEF Sound, RunState, ItemRow

LEMMA CountedIs ==
  ASSUME NEW row \in ItemRow, row.requests < MaxRequests
  PROVE  Counted(row) \in ItemRow
BY DEF Counted, ItemRow

LEMMA TriedIs ==
  ASSUME NEW at \in Checkpoint, NEW n \in {0, 1}, at.tries + n <= MaxRetries
  PROVE  Tried(at, n) \in Checkpoint /\ Tried(at, n).index = at.index
BY DEF Tried, Checkpoint

LEMMA SkippedIs ==
  ASSUME NEW at \in Checkpoint, at.index < Providers
  PROVE  Skipped(at) \in Checkpoint
<1>1. at.index + 1 \in 0..Providers /\ 0 \in 0..MaxRetries
  BY DEF Checkpoint
<1> QED
  BY <1>1 DEF Skipped, Checkpoint

LEMMA ClaimKeeps ==
  ASSUME Inv, NEW i \in Item, Claim(i)
  PROVE  Inv'
<1>1. run[i].pc # "none" /\ NothingElse
  BY DEF Claim
<1>2. CASE Done(i) /\ UNCHANGED item
  <2>1. Sound(i, Left("done", "failed"))
    BY LeftIs DEF Place, Looked, Terminal
  <2> QED
    BY <1>1, <1>2, <2>1, RunMoves DEF Done, OnlyRun
<1>3. CASE /\ item' = [item EXCEPT ![i] = [@ EXCEPT !.status = "running"]]
           /\ run' = [run EXCEPT ![i] = [@ EXCEPT !.pc = "claimed", !.at = item[i].at]]
  <2> DEFINE x == [run[i] EXCEPT !.pc = "claimed", !.at = item[i].at]
             y == [item[i] EXCEPT !.status = "running"]
  <2>1. Sound(i, x)
    BY CheckpointIs, AtIs DEF Place, Looked, Asks
  <2>2. y \in ItemRow
    BY CheckpointIs DEF ItemRow, Active
  <2>3. run' = [run EXCEPT ![i] = x] /\ item' = [item EXCEPT ![i] = y]
    BY <1>3
  <2> QED
    BY <1>1, <2>1, <2>2, <2>3, StepMoves
<1> QED
  BY <1>2, <1>3 DEF Claim

LEMMA IdentifyKeeps ==
  ASSUME Inv, NEW i \in Item, Identify(i)
  PROVE  Inv'
<1>1. run[i].pc # "none"
  BY DEF Identify
<1>2. CASE Refused(i)
  BY <1>1, <1>2, RefusedKeeps
<1>3. CASE OnlyRun /\ Ending(i, "failed")
  BY <1>1, <1>3, FailedKeeps
<1>4. CASE /\ OnlyRun /\ head[PaperOf(i)].rev = InputRevision(i)
           /\ run' = [run EXCEPT ![i] = [@ EXCEPT !.pc = NextStage(run[i].at),
                                                   !.clue = head[PaperOf(i)].rev]]
  <2> DEFINE pc == NextStage(run[i].at)
             c == head[PaperOf(i)].rev
             x == [run[i] EXCEPT !.pc = pc, !.clue = c]
  <2>1. pc \in Place /\ (pc \in Asks => run[i].at.index < Providers)
    BY CheckpointIs, NextStageIs
  <2>2. c \in 0..MaxRevision
    BY ItemParts DEF Inv, LibraryInv, HeadRow
  <2>3. Sound(i, x)
    <3> HIDE DEF pc
    <3> QED
      BY <1>4, <2>1, <2>2, CheckpointIs DEF Sound, RunState
  <2>4. run' = [run EXCEPT ![i] = x]
    BY <1>4
  <2> QED
    BY <1>1, <1>4, <2>3, <2>4, RunMoves
<1> QED
  BY <1>2, <1>3, <1>4 DEF Identify

LEMMA SendKeeps ==
  ASSUME Inv, NEW i \in Item, Send(i)
  PROVE  Inv'
<1>1. run[i].pc = "asking"
  BY DEF Send
<1>2. CASE Refused(i)
  BY <1>1, <1>2, RefusedKeeps
<1>3. CASE Ending(i, "failed") /\ OnlyRun
  BY <1>1, <1>3, FailedKeeps
<1>4. CASE /\ item[i].requests < MaxRequests
           /\ item' = [item EXCEPT ![i] = Counted(@)]
           /\ Goto(i, "sent") /\ NothingElse
  <2> DEFINE x == [run[i] EXCEPT !.pc = "sent"]
             y == Counted(item[i])
  <2>1. Sound(i, x)
    BY <1>1, CheckpointIs, GotoIs DEF Inv, Place, Looked, Asks
  <2>2. y \in ItemRow
    BY <1>4, CheckpointIs, CountedIs
  <2>3. run' = [run EXCEPT ![i] = x] /\ item' = [item EXCEPT ![i] = y]
    BY <1>4 DEF Goto
  <2> QED
    BY <1>1, <1>4, <2>1, <2>2, <2>3, StepMoves
<1> QED
  BY <1>2, <1>3, <1>4 DEF Send

LEMMA CachedAndPacedKeep ==
  ASSUME Inv, NEW i \in Item, Cached(i) \/ Paced(i)
  PROVE  Inv'
<1>1. run[i].pc = "asking"
  BY DEF Cached, Paced
<1>2. run[i].clue = InputRevision(i) /\ run[i].at.index < Providers
  BY <1>1, CheckpointIs DEF Looked, Asks
<1>3. CASE Refused(i)
  BY <1>1, <1>3, RefusedKeeps
<1>4. CASE Ending(i, "failed") /\ OnlyRun
  BY <1>1, <1>4, FailedKeeps
<1>5. CASE (Goto(i, "cached") \/ Goto(i, "parking")) /\ OnlyRun
  BY <1>1, <1>2, <1>5, GotoKeeps DEF Place
<1> QED
  BY <1>3, <1>4, <1>5 DEF Cached, Paced

LEMMA AnswerKeeps ==
  ASSUME Inv, NEW i \in Item, Answer(i)
  PROVE  Inv'
<1>1. PICK f \in BOOLEAN :
        LET at == [index |-> run[i].at.index + 1, tries |-> 0, proven |-> run[i].at.proven \/ f] IN
        /\ item' = [item EXCEPT ![i] = [@ EXCEPT !.at = at]]
        /\ run' = [run EXCEPT ![i] =
             [@ EXCEPT !.pc = IF at.proven THEN "deciding" ELSE NextStage(at), !.at = at]]
  BY DEF Answer
<1> DEFINE b == run[i].at.proven \/ f
           at == [index |-> run[i].at.index + 1, tries |-> 0, proven |-> b]
           pc == IF at.proven THEN "deciding" ELSE NextStage(at)
           x == [run[i] EXCEPT !.pc = pc, !.at = at]
           y == [item[i] EXCEPT !.at = at]
<1>2. run[i].pc \in {"sent", "cached"} /\ NothingElse
  BY DEF Answer
<1>3. run[i].at \in Checkpoint /\ run[i].at.index < Providers /\ run[i].clue = InputRevision(i)
  BY <1>2, CheckpointIs DEF Looked, Asks
<1>4. b \in BOOLEAN
  OBVIOUS
<1>5. at \in Checkpoint
  <2> HIDE DEF b
  <2> QED
    BY <1>3, <1>4 DEF Checkpoint
<1>6. pc \in Place /\ (pc \in Asks => at.index < Providers)
  <2> HIDE DEF at
  <2>1. NextStage(at) \in Place /\ (NextStage(at) \in Asks => at.index < Providers)
    BY <1>5, NextStageIs
  <2> QED
    BY <2>1 DEF Place, Asks
<1>7. Sound(i, x) /\ y \in ItemRow
  <2> HIDE DEF pc, at
  <2>1. Sound(i, x)
    BY <1>3, <1>5, <1>6, CheckpointIs, AtIs
  <2>2. y \in ItemRow
    BY <1>5, CheckpointIs DEF ItemRow
  <2> QED
    BY <2>1, <2>2
<1>8. run' = [run EXCEPT ![i] = x] /\ item' = [item EXCEPT ![i] = y]
  BY <1>1
<1> HIDE DEF x, y
<1> QED
  BY <1>2, <1>7, <1>8, StepMoves

LEMMA TransientFailureKeeps ==
  ASSUME Inv, NEW i \in Item, TransientFailure(i)
  PROVE  Inv'
<1>1. run[i].pc = "sent"
  BY DEF TransientFailure
<1>2. CASE Refused(i)
  BY <1>1, <1>2, RefusedKeeps
<1>3. CASE Ending(i, "failed") /\ OnlyRun
  BY <1>1, <1>3, FailedKeeps
<1>4. ASSUME OnlyRun, NEW again \in {0, 1}, run[i].at.tries + again <= MaxRetries,
             run' = [run EXCEPT ![i] =
               [@ EXCEPT !.pc = "parking", !.at = Tried(run[i].at, again)]]
      PROVE  Inv'
  <2> DEFINE at == Tried(run[i].at, again)
             x == [run[i] EXCEPT !.pc = "parking", !.at = at]
  <2>1. run[i].at \in Checkpoint /\ run[i].at.index < Providers /\ run[i].clue = InputRevision(i)
    BY <1>1, CheckpointIs DEF Looked, Asks
  <2>2. at \in Checkpoint /\ at.index = run[i].at.index
    BY <1>4, <2>1, TriedIs
  <2>3. Sound(i, x)
    <3> HIDE DEF at
    <3> QED
      BY <2>1, <2>2, CheckpointIs, AtIs DEF Place
  <2>4. run' = [run EXCEPT ![i] = x]
    BY <1>4
  <2> QED
    BY <1>1, <1>4, <2>3, <2>4, RunMoves
<1> QED
  BY <1>2, <1>3, <1>4 DEF TransientFailure

LEMMA ProviderFailsKeeps ==
  ASSUME Inv, NEW i \in Item, ProviderFails(i)
  PROVE  Inv'
<1> DEFINE at == Skipped(run[i].at)
           x == [run[i] EXCEPT !.pc = NextStage(at), !.at = at]
<1>1. run[i].pc = "sent" /\ OnlyRun
  BY DEF ProviderFails
<1>2. CASE Ending(i, "failed")
  BY <1>1, <1>2, FailedKeeps
<1>3. CASE run' = [run EXCEPT ![i] = [@ EXCEPT !.pc = NextStage(at), !.at = at]]
  <2>1. run[i].at \in Checkpoint /\ run[i].at.index < Providers /\ run[i].clue = InputRevision(i)
    BY <1>1, CheckpointIs DEF Looked, Asks
  <2>2. at \in Checkpoint
    BY <2>1, SkippedIs
  <2>3. Sound(i, x)
    <3> HIDE DEF at
    <3> QED
      BY <2>1, <2>2, CheckpointIs, NextStageIs, AtIs
  <2>4. run' = [run EXCEPT ![i] = x]
    BY <1>3
  <2> HIDE DEF x
  <2> QED
    BY <1>1, <2>3, <2>4, RunMoves
<1> QED
  BY <1>2, <1>3 DEF ProviderFails

LEMMA ParkKeeps ==
  ASSUME Inv, NEW i \in Item, Park(i)
  PROVE  Inv'
<1> DEFINE y == [item[i] EXCEPT !.status = "waiting", !.due = FALSE, !.at = run[i].at]
<1>1. y \in ItemRow
  BY CheckpointIs DEF ItemRow, Active
<1>2. Sound(i, Left("done", "failed"))
  BY LeftIs DEF Place, Looked, Terminal
<1>3. item' = [item EXCEPT ![i] = y] /\ run[i].pc # "none"
  BY DEF Park
<1> QED
  BY <1>1, <1>2, <1>3, StepMoves DEF Park, Done

LEMMA DecideKeeps ==
  ASSUME Inv, NEW i \in Item, Decide(i)
  PROVE  Inv'
<1>1. run[i].pc = "deciding" /\ run[i].clue = InputRevision(i)
  BY CheckpointIs DEF Decide, Looked
<1>2. CASE Refused(i)
  BY <1>1, <1>2, RefusedKeeps
<1>3. CASE (Ending(i, "failed") \/ Ending(i, "answered")) /\ OnlyRun
  BY <1>1, <1>3, FailedKeeps
<1>4. CASE Goto(i, "applying") /\ OnlyRun
  BY <1>1, <1>4, GotoKeeps DEF Place, Asks
<1> QED
  BY <1>2, <1>3, <1>4 DEF Decide

(* The application is the only step of a run that changes the library. *)
LEMMA ApplyKeeps ==
  ASSUME Inv, NEW i \in Item, Apply(i)
  PROVE  Inv'
<1>1. run[i].pc = "applying"
  BY DEF Apply
<1>2. CASE Refused(i)
  BY <1>1, <1>2, RefusedKeeps
<1>3. CASE (Ending(i, "failed") \/ Ending(i, "answered")) /\ OnlyRun
  BY <1>1, <1>3, FailedKeeps
<1>4. CASE /\ Passes(i) /\ SaveHead(PaperOf(i), "provider") /\ Ending(i, "answered")
           /\ UNCHANGED <<present, indexing, queue, failures>>
  <2>1. PICK p \in Paper : p = PaperOf(i)
    BY ItemParts
  <2>2. head[p].rev # 0 /\ SaveHead(p, "provider")
    BY <1>4, <2>1 DEF Passes, Inv, LibraryInv
  <2>3. /\ head' \in [Paper -> HeadRow] /\ event' \in [Paper -> {NoEvent} \cup Revision]
        /\ \A q \in Paper : Revised(q)
        /\ \A q \in Paper : head'[q].rev # 0 <=> head[q].rev # 0
    BY <2>2, SaveHeadIs DEF Origin, Inv
  <2>4. Sound(i, Left("finishing", "answered")) /\ Used(BatchOf(i)) /\ UNCHANGED <<batch, item>>
    BY <1>1, <1>4, LeftIs DEF Place, Looked, Terminal, Inv, QueueInv, queue
  <2>5. item[i] \in ItemRow
    BY DEF Inv, QueueInv
  <2>6. QueueInv'
    BY <1>4, <2>4, <2>5, ItemMoves DEF Ending, Inv
  <2>7. /\ SyncInv' /\ NotYet'
        /\ \A q \in Paper : event'[q] # NoEvent => event'[q] = head'[q].rev
    BY <1>4, <2>3, <2>4, EnrolledStays, LibraryMoves DEF Inv
  <2> QED
    BY <1>4, <2>3, <2>6, <2>7 DEF Inv, LibraryInv
<1>5. CASE Ending(i, "answered") /\ UNCHANGED library /\ UNCHANGED <<indexing, queue, failures>>
  <2>1. OnlyRun
    BY <1>5 DEF OnlyRun, NothingElse, queue
  <2> QED
    BY <1>1, <1>5, <2>1, FailedKeeps
<1> QED
  BY <1>2, <1>3, <1>4, <1>5 DEF Apply

LEMMA FinishKeeps ==
  ASSUME Inv, NEW i \in Item, Finish(i)
  PROVE  Inv'
<1>1. run[i].outcome \in Terminal
  BY CheckpointIs DEF RunState
<1>2. Ended(run[i].outcome) \in ItemRow /\ Sound(i, Left("done", "failed"))
  BY <1>1, EndedIs, LeftIs DEF Place, Looked, Terminal
<1> QED
  BY <1>2, StepMoves DEF Finish, Done

LEMMA WriteFailsKeeps ==
  ASSUME Inv, NEW i \in Item, WriteFails(i)
  PROVE  Inv'
<1>1. run[i].pc # "none" /\ UNCHANGED <<library, indexing, batch, item>>
  BY DEF WriteFails, queue
<1>2. PICK x : Sound(i, x) /\ run' = [run EXCEPT ![i] = x]
  <2>1. Sound(i, Left("finishing", "failed"))
    BY LeftIs DEF Place, Looked, Terminal
  <2>2. Sound(i, [run[i] EXCEPT !.pc = "broken"])
    BY GotoIs DEF Inv, Place, Looked, Asks
  <2> QED
    BY <2>1, <2>2 DEF WriteFails, Ending, Goto
<1>3. Used(BatchOf(i)) /\ item[i] \in ItemRow
  BY <1>1 DEF Inv, QueueInv
<1>4. QueueInv'
  BY <1>1, <1>2, <1>3, ItemMoves DEF Inv
<1>5. failures' \in 0..MaxFailures
  BY DEF WriteFails, Inv
<1> QED
  BY <1>1, <1>4, <1>5, EnrolledStays, LibraryRests DEF Inv

LEMMA StepKeeps ==
  ASSUME Inv, NEW i \in Item, Step(i)
  PROVE  Inv'
BY ClaimKeeps, IdentifyKeeps, SendKeeps, CachedAndPacedKeep, AnswerKeeps,
   TransientFailureKeeps, ProviderFailsKeeps, ParkKeeps, DecideKeeps, ApplyKeeps,
   FinishKeeps, WriteFailsKeeps
DEF Step

(***************************************************************************)
(* Restarts, and the whole.                                                *)
(***************************************************************************)
LEMMA RestartKeeps ==
  ASSUME Inv, NEW S \in SUBSET Paper, Restart(S)
  PROVE  Inv'
<1>1. \A p \in S : head[p].rev # 0 /\ head[p].rev < MaxRevision
  BY DEF Restart, Reconciled, Inv, LibraryInv
<1>2. \A p \in Paper : head[p] \in HeadRow /\ head[p].rev \in Revision
  BY Facts DEF Inv, LibraryInv
<1>3. \A p \in S : /\ [rev |-> head[p].rev + 1, origin |-> "kept"] \in HeadRow
                   /\ head[p].rev + 1 \in Revision
  BY <1>1, <1>2 DEF HeadRow, Origin, Revision
<1>4. /\ head' \in [Paper -> HeadRow]
      /\ event' \in [Paper -> {NoEvent} \cup Revision]
      /\ \A p \in Paper : IF p \in S THEN head'[p].rev = head[p].rev + 1 /\ event'[p] = head'[p].rev
                          ELSE head'[p] = head[p] /\ event'[p] = event[p]
  BY <1>2, <1>3 DEF Restart, Reconciled, Inv, LibraryInv
<1>5. \A p \in Paper : Revised(p) /\ (head'[p].rev # 0 <=> head[p].rev # 0)
  BY <1>1, <1>2, <1>4 DEF Revised, Revision
<1>6. /\ run' \in [Item -> RunState]
      /\ \A i \in Item : run'[i] = Idle
  BY IdleIs DEF Restart, Sound
<1>7. /\ item' \in [Item -> ItemRow]
      /\ \A i \in Item : item'[i].status # "none" <=> item[i].status # "none"
  <2>1. \A i \in Item : /\ item[i] \in ItemRow
                        /\ [item[i] EXCEPT !.status = "queued"] \in ItemRow
                        /\ [item[i] EXCEPT !.status = "queued"].status = "queued"
    BY DEF Inv, QueueInv, ItemRow, Active
  <2> QED
    BY <2>1 DEF Restart
<1>8. \A i \in Item : Sound(i, Idle)' /\ Idle.pc = "none"
  BY IdleIs DEF Sound, Looked, Asks
<1>9. \A b \in Batch : Used(b)' <=> Used(b)
  BY DEF Restart, Used
<1>10. \A i \in Item : Used(BatchOf(i))' <=> Used(BatchOf(i))
  BY <1>9, ItemParts DEF Used, Restart
<1>11. \A i \in Item : Sound(i, run[i])'
  BY <1>6, <1>8 DEF Sound
<1>12. QueueInv'
  BY <1>6, <1>7, <1>8, <1>9, <1>10, <1>11 DEF Restart, Inv, QueueInv
<1>13. \A p \in Paper : Enrolled(p)' <=> Enrolled(p)
  BY EnrolledStays DEF Restart
(* sync_indexes() begins again: nothing is in hand. *)
<1>14. ASSUME NEW p \in Paper
       PROVE  /\ event'[p] # NoEvent => event'[p] = head'[p].rev
              /\ event'[p] = NoEvent => index[p] = head'[p].rev
              /\ ~Enrolled(p)' => head'[p].rev = 0 /\ event'[p] = NoEvent
  <2>1. (event[p] # NoEvent => event[p] = head[p].rev) /\ NoEvent \notin Revision
    BY Facts DEF Inv
  <2>2. event[p] = NoEvent => index[p] = head[p].rev
    BY DEF Inv, SyncInv, Follows
  <2>3. ~Enrolled(p) => head[p].rev = 0 /\ event[p] = NoEvent
    BY DEF Inv, NotYet
  <2> QED
    BY <1>1, <1>3, <1>4, <1>13, <2>1, <2>2, <2>3
<1>15. sync' = Quiet /\ index' = index
  BY DEF Restart
<1>16. SyncInv'
  BY <1>14, <1>15, QuietIs DEF SyncInv, Selected, InHand, Follows, Inv
<1>17. NotYet'
  BY <1>14, <1>15, QuietIs DEF NotYet
<1>18. LibraryInv'
  BY <1>4, <1>5, <1>14 DEF Restart, Inv, LibraryInv
<1> QED
  BY <1>12, <1>16, <1>17, <1>18 DEF Restart, Inv

LEMMA InitHolds == Init => Inv
<1> SUFFICES ASSUME Init PROVE Inv
  OBVIOUS
<1>1. /\ [rev |-> 0, origin |-> "open"] \in HeadRow /\ 0 \in Revision
      /\ [rows |-> [p \in Paper |-> 0], cancel |-> FALSE, manual |-> FALSE] \in BatchRow
  BY DEF HeadRow, Origin, Revision, BatchRow
<1>2. LibraryInv
  BY <1>1 DEF Init, LibraryInv
<1>3. SyncInv
  BY <1>1, QuietIs DEF Init, SyncInv, Selected, InHand, Follows
<1>4. NotYet
  BY QuietIs DEF Init, NotYet
<1>5. NoRow \in ItemRow /\ NoRow.status = "none"
  BY RowIs DEF NoRow
<1>6. \A b \in Batch : ~Used(b)
  BY DEF Init, Used
<1>7. \E n \in 0..MaxBatches : \A b \in Batch : Used(b) <=> b <= n
  <2>1. 0 \in 0..MaxBatches /\ \A b \in Batch : Used(b) <=> b <= 0
    BY <1>6 DEF Batch
  <2> QED
    BY <2>1
<1>8. run \in [Item -> RunState] /\ \A i \in Item : Sound(i, run[i]) /\ run[i].pc = "none"
  BY IdleIs DEF Init, Sound
<1>9. QueueInv
  BY <1>1, <1>5, <1>7, <1>8 DEF Init, QueueInv
<1> QED
  BY <1>2, <1>3, <1>4, <1>9 DEF Init, Inv

LEMMA VarsRest == Inv /\ UNCHANGED vars => Inv'
BY QueueRests, LibraryRests DEF vars, Inv

LEMMA NextKeeps == Inv /\ [Next]_vars => Inv'
BY RequestKeeps, DispatcherKeeps, StepKeeps, RestartKeeps, VarsRest DEF Next

LEMMA InvAlways == Spec => []Inv
BY InitHolds, NextKeeps, PTL DEF Spec

(***************************************************************************)
(* Theorems.                                                               *)
(***************************************************************************)

(* Every reachable state is well typed: in particular an item never has more
   requests than its budget, nor a checkpoint beyond its schedule. *)
THEOREM TypeCorrect == Spec => []TypeOK
<1>1. Inv => TypeOK
  <2> SUFFICES ASSUME Inv PROVE TypeOK
    OBVIOUS
  <2>1. run \in [Item -> RunState] /\ item \in [Item -> ItemRow] /\ batch \in [Batch -> BatchRow]
    BY DEF Inv, QueueInv
  <2>2. /\ present \subseteq Paper /\ head \in [Paper -> HeadRow]
        /\ event \in [Paper -> {NoEvent} \cup Revision]
        /\ index \in [Paper -> Revision] /\ sync \in SyncState
    BY DEF Inv, LibraryInv, SyncInv
  <2> QED
    BY <2>1, <2>2 DEF TypeOK, RunState, Place, ItemRow, BatchRow, HeadRow, SyncState, Revision, Inv
<1> QED
  BY <1>1, InvAlways, PTL

(* The outbox loses no change: whoever saves, edits, deletes or applies while
   sync_indexes() works on a selection of rows, a paper without an event is in the
   index as it is (SearchIndex events, sync_indexes). *)
THEOREM IndexFollowsAlways == Spec => []IndexFollows
<1>1. Inv => IndexFollows
  BY DEF Inv, SyncInv, Follows, IndexFollows
<1> QED
  BY <1>1, InvAlways, PTL

(* A provider's value is stored by a run over the revision its clues were read
   from, for a batch nobody has cancelled, over a value nobody typed. *)
THEOREM LateResultsAreRefused == Spec => LateResultRefused
<1> DEFINE A == \A p \in Paper : Filled(p) =>
       /\ head[p].origin = "open"
       /\ \E i \in Item : /\ PaperOf(i) = p /\ run[i].pc = "applying"
                         /\ run[i].clue = head[p].rev
                         /\ ~batch[BatchOf(i)].cancel
<1>1. ASSUME Inv, [Next]_vars, NEW p \in Paper, Filled(p)
      PROVE  \E i \in Item : PaperOf(i) = p /\ Apply(i) /\ SaveHead(p, "provider")
                             /\ Passes(i) /\ head[p].rev = InputRevision(i)
                             /\ head[p].origin = "open"
  <2>1. head' # head /\ head[p].origin # "provider" /\ head'[p].origin = "provider"
    BY <1>1 DEF Filled
  <2>2. ~\E q \in Paper : Import(q)
    <3> SUFFICES ASSUME NEW q \in Paper, NEW o \in {"open", "kept"},
                        head' = [head EXCEPT ![q] = [rev |-> 1, origin |-> o]]
                 PROVE  FALSE
      BY DEF Import
    <3> QED
      BY <1>1, <2>1 DEF Inv, LibraryInv
  <2>3. ~\E q \in Paper : Save(q) \/ Delete(q)
    BY <1>1, <2>1 DEF Save, Delete, Inv, LibraryInv
  <2>4. ~\E q \in Paper : Edit(q)
    <3> SUFFICES ASSUME NEW q \in Paper, NEW o \in {"kept", head[q].origin}, SaveHead(q, o)
                 PROVE  FALSE
      BY DEF Edit
    <3> QED
      BY <1>1, <2>1 DEF SaveHead, Inv, LibraryInv
  <2>5. ~Request
    BY <2>1, <2>2, <2>3, <2>4 DEF Request, Retry, Create, Cancel, library
  <2>6. ~Dispatcher
    BY <2>1 DEF Dispatcher, Dispatch, FallDue, Reap, SyncLinked, SelectEvents, SyncRead,
       SyncWrite, SyncClear, SyncFails, library
  <2>7. ~\E S \in SUBSET Paper : Restart(S)
    BY <1>1, <2>1 DEF Restart, Reconciled
  <2>8. PICK i \in Item : Step(i)
    BY <1>1, <2>1, <2>5, <2>6, <2>7 DEF Next, vars, library
  <2>9. Apply(i) /\ ~OnlyRun
    BY <2>1, <2>8 DEF Step, Claim, Identify, Refused, Send, Cached, Paced, Answer, TransientFailure,
       ProviderFails, Park, Decide, Finish, WriteFails, OnlyRun, NothingElse, library
  <2>10. SaveHead(PaperOf(i), "provider") /\ Passes(i) /\ head[PaperOf(i)].origin = "open"
         /\ head[PaperOf(i)].rev = InputRevision(i)
    BY <2>1, <2>9 DEF Apply, Refused, Fillable, library
  <2>11. PaperOf(i) = p
    BY <1>1, <2>1, <2>10, ItemParts DEF SaveHead, Inv, LibraryInv
  <2> QED
    BY <2>9, <2>10, <2>11
<1>2. Inv /\ [Next]_vars => A
  BY <1>1, CheckpointIs DEF Apply, Passes, Looked
<1>3. Inv /\ [Next]_vars => [A]_vars
  BY <1>2
<1> QED
  BY <1>3, InvAlways, PTL DEF Spec, LateResultRefused

===============================================================================
