-------------------------- MODULE DailyAssets_proofs ---------------------------
(* Proofs about DailyAssets for every set of rows, accounts and bounds. *)
EXTENDS DailyAssets, TLAPS

(* The account whose turn it is, is one of the accounts with claimable rows,
   and in particular an account's id: lastOwner is set to the owner of a row. *)
LEMMA OwnerIsId == \A r \in Row : OwnerOf[r] \in Nat
BY OwnersAssumption

(* Where an attempt or a request goes leaves the rest of it alone. *)
LEMMA AttemptGoes ==
    ASSUME NEW w \in Attempt,
           NEW station \in {"locate", "fetch", "check", "publish", "record", "finish", "dead"}
    PROVE  GoesTo(w, station) \in Attempt /\ GoesTo(w, station).row = w.row
BY DEF GoesTo, Attempt

LEMMA AttemptEnds ==
    ASSUME NEW w \in Attempt, NEW result \in {"ok", "bad", "outage"}
    PROVE  EndsWith(w, result) \in Attempt /\ EndsWith(w, result).row = w.row
BY DEF EndsWith, Attempt

LEMMA VisitGoes ==
    ASSUME NEW v \in Visit, NEW station \in {"candidate", "select", "update", "mark", "papers"}
    PROVE  GoesTo(v, station) \in Visit
BY DEF GoesTo, Visit

(* An attempt is never idle, nor the absence of a thread, nor a request none. *)
LEMMA NotIdle == Idle \notin Attempt /\ NoThread \notin Attempt /\ NoVisit \notin Visit
BY DEF Idle, NoThread, Attempt, NoVisit, Visit

LEMMA AtWork ==
    TypeOK /\ work.at \notin {"idle", "dead"} => work \in Attempt /\ work.row \in Row
BY DEF TypeOK, Idle, NoThread, Attempt

LEMMA AtVisit == TypeOK /\ visit.at # "none" => visit \in Visit /\ visit.row \in Row
BY DEF TypeOK, NoVisit, Visit

(* Every variable keeps its type: in particular the count of failures stays
   within the limit. *)
LEMMA TypeStep == TypeOK /\ [Next]_vars => TypeOK'
<1> SUFFICES ASSUME TypeOK, [Next]_vars PROVE TypeOK'
  OBVIOUS
<1> USE GiveUpAssumption, BoundAssumption
<1>1. CASE Claim
  <2>1. PICK r \in Row : /\ lastOwner' = OwnerOf[r]
                         /\ status' = [status EXCEPT ![r] = "downloading"]
                         /\ job' = [job EXCEPT ![r] = TRUE]
                         /\ due' = Undue(r)
                         /\ work' = [at |-> "locate", row |-> r, local |-> FALSE, result |-> "none"]
    BY <1>1 DEF Claim
  <2>2. work' \in Attempt
    BY <2>1 DEF Attempt
  <2> QED
    BY <1>1, <2>1, <2>2, OwnerIsId DEF Claim, Undue, TypeOK, InFlight
<1>2. CASE Locate
  <2>1. work \in Attempt /\ work.row \in Row
    BY <1>2, AtWork DEF Locate
  <2>2. EndsWith(work, "bad") \in Attempt /\ GoesTo(work, "fetch") \in Attempt
    BY <2>1, AttemptGoes, AttemptEnds
  <2>3. \A x \in BOOLEAN :
            [at |-> "check", row |-> work.row, result |-> work.result, local |-> x] \in Attempt
    BY <2>1 DEF Attempt
  <2>4. work' \in Attempt
    BY <1>2, <2>2, <2>3 DEF Locate
  <2> QED
    BY <1>2, <2>1, <2>4 DEF Locate, Staged, TypeOK, InFlight
<1>3. CASE Fetch
  <2>1. work \in Attempt /\ work.row \in Row
    BY <1>3, AtWork DEF Fetch
  <2>2. work' \in Attempt
    BY <1>3, <2>1, AttemptGoes DEF Fetch
  <2> QED
    BY <1>3, <2>1, <2>2 DEF Fetch, Staged, TypeOK, InFlight
<1>4. CASE Check \/ Fail \/ Outage
  <2>1. work \in Attempt
    BY <1>4, AtWork DEF Check, Fail, Outage
  <2>2. work' \in Attempt
    BY <1>4, <2>1, AttemptGoes, AttemptEnds DEF Check, Fail, Outage
  <2> QED
    BY <1>4, <2>2 DEF Check, Fail, Outage, rowVars, TypeOK
<1>5. CASE Publish \/ Record
  <2>1. work \in Attempt /\ work.row \in Row
    BY <1>5, AtWork DEF Publish, Record
  <2>2. work' \in Attempt
    BY <1>5, <2>1, AttemptGoes, AttemptEnds DEF Publish, Record
  <2> QED
    BY <1>5, <2>1, <2>2 DEF Publish, Record, rowVars, TypeOK
<1>6. CASE Finish
  <2>1. work.row \in Row
    BY <1>6, AtWork DEF Finish
  <2>2. CASE MaySettle(work.row)
    <3>1. Attempts(work.row, work.result) \in 0..GiveUp
      BY <2>1 DEF Attempts, TypeOK
    <3>2. Settled(work.row, work.result) \in {"ready", "failed", "retry_wait"}
      BY DEF Settled
    <3> QED
      BY <1>6, <2>1, <2>2, <3>1, <3>2 DEF Finish, Undue, TypeOK, InFlight
  <2>3. CASE ~MaySettle(work.row)
    BY <1>6, <2>3 DEF Finish, rowVars, TypeOK
  <2> QED
    BY <2>2, <2>3
<1>7. ASSUME NEW r \in Row, Discover(r) PROVE TypeOK'
  <2>1. visit' \in Visit
    BY <1>7 DEF Discover, Visit
  <2> QED
    BY <1>7, <2>1 DEF Discover, rowVars, TypeOK
<1>8. ASSUME NEW r \in Row, Rediscover(r) \/ Retry(r) \/ View(r) PROVE TypeOK'
  <2>1. \A station \in {"select", "mark"}, force \in BOOLEAN :
            [at |-> station, row |-> r, force |-> force] \in Visit
    BY DEF Visit
  <2>2. visit' \in Visit
    BY <1>8, <2>1 DEF Rediscover, Retry, View
  <2> QED
    BY <1>8, <2>2 DEF Rediscover, Retry, View, rowVars, TypeOK
<1>9. ASSUME NEW r \in Row, Expire(r) PROVE TypeOK'
  <2>1. visit' \in Visit
    BY <1>9 DEF Expire, Visit
  <2> QED
    BY <1>9, <2>1 DEF Expire, Disturb, rowVars, TypeOK
<1>10. CASE SaveCandidate \/ Select
  <2>1. visit \in Visit /\ visit.row \in Row
    BY <1>10, AtVisit DEF SaveCandidate, Select
  <2>2. visit' \in Visit \union {NoVisit}
    BY <1>10, <2>1, VisitGoes DEF SaveCandidate, Select
  <2> QED
    BY <1>10, <2>1, <2>2 DEF SaveCandidate, Select, rowVars, TypeOK, InFlight
<1>11. CASE Update \/ MarkMissing \/ RemovePaper
  <2>1. visit.row \in Row
    BY <1>11, AtVisit DEF Update, MarkMissing, RemovePaper
  <2> QED
    BY <1>11, <2>1 DEF Update, MarkMissing, RemovePaper, Undue, rowVars, TypeOK, InFlight
<1>12. CASE Restart
  BY <1>12 DEF Restart, Disturb, TypeOK, InFlight, NoOwner
<1>13. ASSUME NEW r \in Row, Due(r) PROVE TypeOK'
  BY <1>13 DEF Due, TypeOK
<1>14. CASE ThreadEnds
  <2>1. work.at = "finish" => work \in Attempt
    BY <1>14, AtWork
  <2>2. work' \in Attempt \union {NoThread}
    BY <1>14, <2>1, AttemptGoes DEF ThreadEnds
  <2> QED
    BY <1>14, <2>2 DEF ThreadEnds, rowVars, TypeOK
<1>15. CASE UNCHANGED vars
  BY <1>15 DEF vars, TypeOK
<1> QED
  BY <1>1, <1>2, <1>3, <1>4, <1>5, <1>6, <1>7, <1>8, <1>9,
     <1>10, <1>11, <1>12, <1>13, <1>14, <1>15
  DEF Next, Coordinate, Request

(* Type correctness of every behaviour of the specification. *)
THEOREM TypeCorrect == Spec => []TypeOK
<1>1. Init => TypeOK
  BY GiveUpAssumption, BoundAssumption DEF Init, TypeOK, Idle, NoVisit, NoOwner
<1> QED
  BY <1>1, TypeStep, PTL DEF Spec

(* What happens to a row at work happens through the attempt it names: no
   step leaves a row at work that the coordinator does not work on. *)
LEMMA WorkedStep == TypeOK /\ InFlightIsWorked /\ [Next]_vars => InFlightIsWorked'
<1> SUFFICES ASSUME TypeOK, InFlightIsWorked, [Next]_vars PROVE InFlightIsWorked'
  OBVIOUS
<1> USE DEF InFlightIsWorked
<1>1. CASE Claim
  <2>1. PICK r \in Row : /\ status' = [status EXCEPT ![r] = "downloading"]
                         /\ job' = [job EXCEPT ![r] = TRUE]
                         /\ work' = [at |-> "locate", row |-> r, local |-> FALSE, result |-> "none"]
    BY <1>1 DEF Claim
  <2>2. work = Idle
    BY <1>1 DEF Claim, TypeOK, Attempt, NoThread
  <2>3. \A q \in Row : ~job[q] /\ status[q] \notin InFlight
    BY <2>2
  <2>4. work' \notin {Idle, NoThread} /\ work'.row = r
    BY <2>1 DEF Idle, NoThread
  <2> QED
    BY <2>1, <2>3, <2>4 DEF TypeOK, InFlight
<1>2. CASE Locate
  <2>1. work.row \in Row /\ work' \notin {Idle, NoThread} /\ work'.row = work.row
    BY <1>2, AtWork, AttemptGoes, AttemptEnds, NotIdle DEF Locate, Idle, NoThread
  <2>2. \A q \in Row : status'[q] \in InFlight <=> status[q] \in InFlight
    BY <1>2, <2>1 DEF Locate, Staged, TypeOK, InFlight
  <2> QED
    BY <1>2, <2>1, <2>2 DEF Locate
<1>3. CASE Fetch
  <2>1. work.row \in Row /\ work' \notin {Idle, NoThread} /\ work'.row = work.row
    BY <1>3, AtWork, AttemptGoes, NotIdle DEF Fetch
  <2>2. \A q \in Row : status'[q] \in InFlight <=> status[q] \in InFlight
    BY <1>3, <2>1 DEF Fetch, Staged, TypeOK, InFlight
  <2> QED
    BY <1>3, <2>1, <2>2 DEF Fetch
<1>4. CASE Check \/ Fail \/ Outage \/ Publish \/ Record
  <2>1. work' \notin {Idle, NoThread} /\ work'.row = work.row
    BY <1>4, AtWork, AttemptGoes, AttemptEnds, NotIdle DEF Check, Fail, Outage, Publish, Record
  <2>2. UNCHANGED rowVars
    BY <1>4 DEF Check, Fail, Outage, Publish, Record
  <2> QED
    BY <2>1, <2>2 DEF rowVars
<1>5. CASE Finish
  <2>1. work.row \in Row /\ \A q \in Row \ {work.row} : ~job[q]
    BY <1>5, AtWork DEF Finish
  <2>2. CASE MaySettle(work.row)
    <3>1. Settled(work.row, work.result) \notin InFlight
      BY DEF Settled, InFlight
    <3>2. \A q \in Row : ~job'[q] /\ status'[q] \notin InFlight
      BY <1>5, <2>1, <2>2, <3>1 DEF Finish, TypeOK
    <3> QED
      BY <3>2
  <2>3. CASE ~MaySettle(work.row)
    BY <1>5, <2>1, <2>3 DEF Finish, MaySettle, rowVars
  <2> QED
    BY <2>2, <2>3
<1>6. CASE Request
  <2>1. work' = work
    BY <1>6 DEF Request, Discover, Rediscover, Retry, View, Expire, SaveCandidate,
                Select, Update, MarkMissing, RemovePaper
  <2>2. CASE UNCHANGED <<status, job>>
    BY <2>1, <2>2
  <2>3. CASE SaveCandidate
    BY <2>1, <2>3, AtVisit DEF SaveCandidate, TypeOK, InFlight
  <2>4. CASE Update
    BY <2>1, <2>4, AtVisit DEF Update, TypeOK, InFlight
  <2>5. CASE MarkMissing
    BY <2>1, <2>5, AtVisit DEF MarkMissing, TypeOK, InFlight
  <2> QED
    BY <1>6, <2>2, <2>3, <2>4, <2>5
    DEF Request, Discover, Rediscover, Retry, View, Expire, Select, RemovePaper, rowVars
<1>7. CASE Restart
  BY <1>7 DEF Restart, TypeOK, InFlight
<1>8. ASSUME NEW r \in Row, Due(r) PROVE InFlightIsWorked'
  BY <1>8 DEF Due
<1>9. CASE ThreadEnds
  <2>1. CASE work.at = "idle"
    <3>1. \A q \in Row : ~job[q]
      BY <2>1 DEF TypeOK, Attempt, Idle, NoThread
    <3> QED
      BY <1>9, <3>1 DEF ThreadEnds, rowVars
  <2>2. CASE work.at = "finish"
    <3>1. work' \notin {Idle, NoThread} /\ work'.row = work.row
      BY <1>9, <2>2, AtWork, AttemptGoes, NotIdle DEF ThreadEnds
    <3> QED
      BY <1>9, <3>1 DEF ThreadEnds, rowVars
  <2> QED
    BY <1>9, <2>1, <2>2 DEF ThreadEnds
<1>10. CASE UNCHANGED vars
  BY <1>10 DEF vars
<1> QED
  BY <1>1, <1>2, <1>3, <1>4, <1>5, <1>6, <1>7, <1>8, <1>9, <1>10 DEF Next, Coordinate

(* A row that says it is at work is that of the attempt under way, or of the one
   at whose end the thread died, whatever requests, removals, outages and
   restarts do. *)
THEOREM RowsAreWorkedOn == Spec => []InFlightIsWorked
<1>1. Init => InFlightIsWorked
  BY DEF Init, InFlightIsWorked, InFlight
<1> QED
  BY <1>1, TypeCorrect, WorkedStep, PTL DEF Spec

(* A queued row leaves the queue through a claim only: the late end of an
   earlier attempt does not settle it. *)
THEOREM LateEndsSettleNothing == Spec => QueuedIsClaimedFirst
<1>1. ASSUME TypeOK, InFlightIsWorked, [Next]_vars
      PROVE  [\A r \in Row : status[r] = "queued" => status'[r] \in {"queued", "downloading"}]_vars
  <2> SUFFICES ASSUME NEW r \in Row, status[r] = "queued"
               PROVE  status'[r] \in {"queued", "downloading"}
    OBVIOUS
  <2>1. ~job[r]
    BY <1>1 DEF InFlightIsWorked, InFlight
  <2>2. CASE Claim
    BY <1>1, <2>2 DEF Claim, TypeOK
  <2>3. CASE Locate \/ Fetch
    BY <1>1, <2>1, <2>3, AtWork DEF Locate, Fetch, Staged, TypeOK
  <2>4. CASE Finish
    BY <1>1, <2>1, <2>4, AtWork DEF Finish, MaySettle, rowVars, TypeOK
  <2>5. CASE SaveCandidate \/ Update \/ MarkMissing
    BY <1>1, <2>5, AtVisit DEF SaveCandidate, Update, MarkMissing, TypeOK
  <2>6. CASE Restart
    BY <1>1, <2>6 DEF Restart, InFlight
  <2>7. CASE UNCHANGED status
    BY <2>7
  <2> QED
    BY <1>1, <2>2, <2>3, <2>4, <2>5, <2>6, <2>7
    DEF Next, Coordinate, ThreadEnds, Request, Check, Fail, Outage, Publish, Record, Discover,
        Rediscover, Retry, Select, View, Expire, RemovePaper, Due, rowVars, vars
<1> QED
  BY <1>1, TypeCorrect, RowsAreWorkedOn, PTL DEF Spec, QueuedIsClaimedFirst
===============================================================================
