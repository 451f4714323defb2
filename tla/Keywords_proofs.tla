---------------------------- MODULE Keywords_proofs ----------------------------
(***************************************************************************)
(* Proofs about Keywords, for every set of papers and tags, any length of  *)
(* the log and any number of items, changes and disturbances.              *)
(***************************************************************************)
EXTENDS Keywords, WellFoundedInduction, TLAPS

(* The tables, and what holds of a version of them on its own: a merged tag, and
   no other, has a target, and it has one. *)
Tables ==
  [tag : [Tag -> TagRow],
   link : [Paper \X Tag -> {"none", "auto", "manual"}],
   excluded : SUBSET (Paper \X Tag),
   row : [Paper -> [rev : Nat, input : Input]]]

TablesOK(c) ==
  /\ c \in Tables
  /\ \A t \in Tag : (c.tag[t].status = "merged") = (c.tag[t].into # {})
  /\ \A t \in Tag : \A u, v \in c.tag[t].into : u = v

-------------------------------------------------------------------------------
(* Following merges. *)
LEMMA ReachSelf ==
  ASSUME NEW c, NEW t \in Tag
  PROVE  t \in Reach(c, t) /\ Reach(c, t) \subseteq Tag
  BY DEF Reach

LEMMA ReachClosed ==
  ASSUME NEW c, NEW t \in Tag, NEW v \in Reach(c, t), NEW w \in Tag, w \in c.tag[v].into
  PROVE  w \in Reach(c, t)
<1> SUFFICES ASSUME NEW S \in SUBSET Tag, t \in S, \A z \in S : c.tag[z].into \subseteq S
             PROVE  w \in S
  BY DEF Reach
<1>1. v \in S
  BY DEF Reach
<1>2. QED BY <1>1

LEMMA ReachLeast ==
  ASSUME NEW c, NEW t \in Tag, NEW S \in SUBSET Tag,
         t \in S, \A v \in S : c.tag[v].into \subseteq S
  PROVE  Reach(c, t) \subseteq S
  BY DEF Reach

(* A tag that is not merged leads nowhere else. *)
LEMMA ReachEnd ==
  ASSUME NEW c, NEW t \in Tag, c.tag[t].into = {}
  PROVE  Reach(c, t) = {t}
<1>1. {t} \in SUBSET Tag /\ t \in {t} /\ \A v \in {t} : c.tag[v].into \subseteq {t}
  OBVIOUS
<1>2. Reach(c, t) \subseteq {t}
  BY <1>1 DEF Reach
<1>3. QED BY <1>2, ReachSelf

LEMMA ReachSet ==
  ASSUME NEW c, TablesOK(c), NEW t \in Tag
  PROVE  \A v \in Reach(c, t) : c.tag[v].into \subseteq Reach(c, t)
<1> SUFFICES ASSUME NEW v \in Reach(c, t), NEW w \in c.tag[v].into
             PROVE  w \in Reach(c, t)
  OBVIOUS
<1>1. v \in Tag
  BY ReachSelf
<1>2. w \in Tag
  BY <1>1 DEF TablesOK, Tables, TagRow
<1>3. QED BY <1>2, ReachClosed

LEMMA ReachFurther ==
  ASSUME NEW c, TablesOK(c), NEW t \in Tag, NEW v \in Reach(c, t)
  PROVE  Reach(c, v) \subseteq Reach(c, t)
<1>1. v \in Tag /\ Reach(c, t) \in SUBSET Tag
  BY ReachSelf
<1>2. QED BY <1>1, ReachSet, ReachLeast

(* The first step of a way to another tag. *)
LEMMA ReachFirst ==
  ASSUME NEW c, TablesOK(c), NEW t \in Tag, NEW v \in Reach(c, t), v # t
  PROVE  \E w \in Tag : c.tag[t].into = {w} /\ v \in Reach(c, w)
<1>1. c.tag[t].into # {}
  BY ReachEnd
<1>2. PICK w \in Tag : c.tag[t].into = {w}
  BY <1>1 DEF TablesOK, Tables, TagRow
<1>3. {t} \cup Reach(c, w) \in SUBSET Tag /\ w \in Reach(c, w)
  BY ReachSelf
<1>4. \A z \in {t} \cup Reach(c, w) : c.tag[z].into \subseteq {t} \cup Reach(c, w)
  BY <1>2, <1>3, ReachSet
<1>5. Reach(c, t) \subseteq {t} \cup Reach(c, w)
  BY <1>3, <1>4, ReachLeast
<1>6. QED BY <1>2, <1>5

(* All merges lead to one tag that is not merged, if to any. *)
LEMMA OneEnd ==
  ASSUME NEW c, TablesOK(c), NEW y \in Tag,
         NEW v \in Reach(c, y), NEW w \in Reach(c, y),
         c.tag[v].into = {}, c.tag[w].into = {}
  PROVE  v = w
<1> DEFINE S == {z \in Reach(c, y) : v \in Reach(c, z)}
<1>1. S \in SUBSET Tag /\ y \in S
  BY ReachSelf
<1>2. ASSUME NEW z \in S, NEW x \in c.tag[z].into PROVE x \in S
  <2>1. z \in Tag /\ z # v
    BY <1>1, <1>2
  <2>2. PICK u \in Tag : c.tag[z].into = {u} /\ v \in Reach(c, u)
    BY <2>1, ReachFirst
  <2>3. x \in Reach(c, y)
    BY <1>2, ReachSet
  <2>4. QED BY <1>2, <2>2, <2>3
<1>3. Reach(c, y) \subseteq S
  BY <1>1, <1>2, ReachLeast
<1>4. w \in Tag /\ v \in Reach(c, w)
  BY <1>1, <1>3
<1>5. QED BY <1>4, ReachEnd

(* Fewer merges lead to fewer tags. *)
LEMMA ReachShrinks ==
  ASSUME NEW c, NEW d, TablesOK(d), NEW t \in Tag,
         \A v \in Tag : c.tag[v].into \subseteq d.tag[v].into
  PROVE  Reach(c, t) \subseteq Reach(d, t)
<1>1. t \in Reach(d, t) /\ Reach(d, t) \in SUBSET Tag
  BY ReachSelf
<1>2. \A v \in Reach(d, t) : c.tag[v].into \subseteq Reach(d, t)
  BY <1>1, ReachSet
<1>3. QED BY <1>1, <1>2, ReachLeast

LEMMA ReachSame ==
  ASSUME NEW c, NEW d, TablesOK(c), TablesOK(d), NEW t \in Tag,
         \A v \in Tag : c.tag[v].into = d.tag[v].into
  PROVE  Reach(c, t) = Reach(d, t)
<1>1. Reach(c, t) \subseteq Reach(d, t)
  BY ReachShrinks
<1>2. Reach(d, t) \subseteq Reach(c, t)
  BY ReachShrinks
<1>3. QED BY <1>1, <1>2

(* One more merge, of a tag into one that is not merged. *)
LEMMA ReachMerged ==
  ASSUME NEW c, NEW d, TablesOK(c), NEW t \in Tag, NEW u \in Tag, NEW y \in Tag,
         c.tag[u].into = {}, d.tag[u].into = {}, d.tag[t].into = {u},
         \A v \in Tag \ {t} : d.tag[v].into = c.tag[v].into
  PROVE  /\ Reach(d, y) \subseteq Reach(c, y) \cup {u}
         /\ u \in Reach(d, y) => u \in Reach(c, y) \/ t \in Reach(c, y)
<1>1. y \in Reach(c, y) /\ Reach(c, y) \in SUBSET Tag
  BY ReachSelf
<1> DEFINE S == IF t \in Reach(c, y) THEN Reach(c, y) \cup {u} ELSE Reach(c, y)
<1>2. S \in SUBSET Tag /\ y \in S
  BY <1>1
<1>3. ASSUME NEW v \in S PROVE d.tag[v].into \subseteq S
  <2>1. CASE v = t
    BY <2>1, <1>1, <1>3
  <2>2. CASE v = u
    BY <2>2
  <2>3. CASE v \in Reach(c, y) /\ v # t
    BY <2>3, <1>1, ReachSet
  <2>4. QED BY <2>1, <2>2, <2>3, <1>1
<1>4. Reach(d, y) \subseteq S
  BY <1>2, <1>3, ReachLeast
<1>5. QED BY <1>4

LEMMA ResolveReached ==
  ASSUME NEW c, NEW t \in Tag
  PROVE  Resolve(c, t) \in Reach(c, t) /\ Resolve(c, t) \in Tag
<1> DEFINE ends == {u \in Reach(c, t) : c.tag[u].status # "merged"}
<1>1. CASE ends = {}
  BY <1>1, ReachSelf DEF Resolve
<1>2. CASE ends # {}
  <2>1. Resolve(c, t) = CHOOSE u \in ends : TRUE
    BY <1>2 DEF Resolve
  <2>2. Resolve(c, t) \in ends
    BY <1>2, <2>1
  <2>3. QED BY <2>2, ReachSelf
<1>3. QED BY <1>1, <1>2

LEMMA LiveEnd ==
  ASSUME NEW c, TablesOK(c), NEW t \in Tag, Live(c, t)
  PROVE  c.tag[Resolve(c, t)].into = {}
  BY ResolveReached DEF Live, TablesOK

(* A tag that merges lead to and that is not merged is what they resolve to. *)
LEMMA ResolveEnd ==
  ASSUME NEW c, TablesOK(c), NEW t \in Tag, NEW u \in Reach(c, t), c.tag[u].into = {}
  PROVE  Resolve(c, t) = u
<1> DEFINE ends == {v \in Reach(c, t) : c.tag[v].status # "merged"}
<1>1. u \in Tag /\ u \in ends
  BY ReachSelf DEF TablesOK
<1>2. Resolve(c, t) = CHOOSE v \in ends : TRUE
  BY <1>1 DEF Resolve
<1>3. Resolve(c, t) \in ends
  BY <1>1, <1>2
<1>4. c.tag[Resolve(c, t)].into = {}
  BY <1>3, ReachSelf DEF TablesOK
<1>5. QED BY <1>3, <1>4, OneEnd

-------------------------------------------------------------------------------
(* What the pieces of an operation change. *)
LEMMA NewTagRow == NewTag \in TagRow /\ NewTag.into = {} /\ NewTag.status = "active"
  BY DEF NewTag, TagRow

LEMMA CreatedParts ==
  ASSUME NEW c, TablesOK(c), NEW t \in Tag
  PROVE  /\ TablesOK(Created(c, t))
         /\ Created(c, t).link = c.link
         /\ Created(c, t).excluded = c.excluded
         /\ Created(c, t).row = c.row
         /\ \A v \in Tag : Created(c, t).tag[v].into = c.tag[v].into
<1>1. CASE c.tag[t].status # "none"
  BY <1>1 DEF Created
<1>2. CASE c.tag[t].status = "none"
  <2> DEFINE d == [c EXCEPT !.tag[t] = NewTag]
  <2>1. Created(c, t) = d /\ c \in Tables
    BY <1>2 DEF Created, TablesOK
  <2>2. /\ d.link = c.link /\ d.excluded = c.excluded /\ d.row = c.row
        /\ d.tag = [c.tag EXCEPT ![t] = NewTag]
    BY <2>1 DEF Tables
  <2>3. d \in Tables
    BY <2>1, NewTagRow DEF Tables
  <2>4. c.tag[t].into = {}
    BY <1>2 DEF TablesOK
  <2>5. d.tag[t] = NewTag /\ \A v \in Tag \ {t} : d.tag[v] = c.tag[v]
    BY <2>1, <2>2 DEF Tables
  <2>6. TablesOK(d)
    BY <2>3, <2>5, NewTagRow DEF TablesOK
  <2>7. QED BY <2>1, <2>2, <2>4, <2>5, <2>6, NewTagRow
<1>3. QED BY <1>1, <1>2

LEMMA TouchedParts ==
  ASSUME NEW c \in Tables, NEW p \in Paper
  PROVE  /\ Touched(c, p) \in Tables
         /\ Touched(c, p).tag = c.tag
         /\ Touched(c, p).link = c.link
         /\ Touched(c, p).excluded = c.excluded
         /\ Touched(c, p).row[p] = [rev |-> c.row[p].rev + 1, input |-> c.row[p].input]
         /\ \A q \in Paper \ {p} : Touched(c, p).row[q] = c.row[q]
<1> DEFINE d == [c EXCEPT !.row[p].rev = @ + 1]
<1>1. Touched(c, p) = d
  BY DEF Touched
<1>2. /\ d.tag = c.tag /\ d.link = c.link /\ d.excluded = c.excluded
      /\ d.row = [c.row EXCEPT ![p].rev = @ + 1]
  BY DEF Tables
<1>3. c.row \in [Paper -> [rev : Nat, input : Input]]
  BY DEF Tables
<1>4. d.row[p] = [rev |-> c.row[p].rev + 1, input |-> c.row[p].input]
  BY <1>2, <1>3
<1>5. \A q \in Paper \ {p} : d.row[q] = c.row[q]
  BY <1>2, <1>3
<1>6. d.row \in [Paper -> [rev : Nat, input : Input]]
  BY <1>2, <1>3
<1>7. d \in Tables
  BY <1>2, <1>6 DEF Tables
<1>8. QED BY <1>1, <1>2, <1>4, <1>5, <1>7

LEMMA RevisedParts ==
  ASSUME NEW c \in Tables, NEW t \in Tag
  PROVE  /\ Revised(c, t) \in Tables
         /\ Revised(c, t).row = c.row
         /\ Revised(c, t).link = c.link
         /\ Revised(c, t).excluded = c.excluded
         /\ \A v \in Tag : /\ Revised(c, t).tag[v].into = c.tag[v].into
                           /\ Revised(c, t).tag[v].status = c.tag[v].status
<1> DEFINE d == [c EXCEPT !.tag[t].rev = @ + 1]
<1>1. Revised(c, t) = d
  BY DEF Revised
<1>2. /\ d.row = c.row /\ d.link = c.link /\ d.excluded = c.excluded
      /\ d.tag = [c.tag EXCEPT ![t].rev = @ + 1]
  BY DEF Tables
<1>3. c.tag \in [Tag -> TagRow]
  BY DEF Tables
<1>4. d.tag \in [Tag -> TagRow]
  BY <1>2, <1>3 DEF TagRow
<1>5. \A v \in Tag : d.tag[v].into = c.tag[v].into /\ d.tag[v].status = c.tag[v].status
  BY <1>2, <1>3 DEF TagRow
<1>6. d \in Tables
  BY <1>2, <1>4 DEF Tables
<1>7. QED BY <1>1, <1>2, <1>5, <1>6

-------------------------------------------------------------------------------
(* The invariant of the tags. *)
Entry == [before : Tables, after : Tables, undone : BOOLEAN]
Open == {k \in DOMAIN log : ~log[k].undone}
MergedBy(k) == {t \in Tag : log[k].before.tag[t].into = {} /\ log[k].after.tag[t].into # {}}

LogOK ==
  /\ log \in Seq(Entry)
  /\ \A k \in DOMAIN log : /\ TablesOK(log[k].before) /\ TablesOK(log[k].after)
                           /\ log[k].before # log[k].after

TagsInv == TablesOK(tags) /\ LogOK /\ removed \subseteq Paper \X Tag

(* No operation takes a merge back; only undo does. *)
OnlyMerges ==
  \A k \in DOMAIN log, t \in Tag : log[k].before.tag[t].into \subseteq log[k].after.tag[t].into

(* What was taken off is excluded, with everything it was merged into. *)
OffIsExcluded(c, R) ==
  \A x \in R : \A v \in Reach(c, x[2]) :
    <<x[1], v>> \in c.excluded /\ c.link[<<x[1], v>>] # "auto"

RemovedIsOff == OffIsExcluded(tags, removed)

(* A merge that can be undone is in force, ... *)
MergesHold == \A k \in Open : \A t \in MergedBy(k) : tags.tag[t].into # {}

(* ... is the only one of its tag, ... *)
MergedOnce == \A k, j \in Open, t \in Tag : t \in MergedBy(k) /\ t \in MergedBy(j) => k = j

(* ... and its undo does not link a paper to the tag again that was taken off it. *)
UndoneMergesAreOff ==
  \A k \in Open : \A t \in MergedBy(k) : \A x \in removed :
    t \in Reach(tags, x[2]) => log[k].before.link[<<x[1], t>>] # "auto"

OffInv ==
  /\ OnlyMerges /\ RemovedIsOff
  /\ MergesHold /\ MergedOnce /\ UndoneMergesAreOff

(* The shape of every edit, as far as the invariant tells edits apart. *)
Recorded ==
  log' = IF tags' = tags THEN log
         ELSE Append(log, [before |-> tags, after |-> tags', undone |-> FALSE])

RowsEdited ==
  \A p \in Paper :
    \/ tags'.row[p] = tags.row[p]
    \/ /\ tags'.row[p].rev = tags.row[p].rev + 1
       /\ tags'.row[p].input \in {tags.row[p].input, NoInput}

MergesGrow ==
  /\ \A t \in Tag : tags.tag[t].into \subseteq tags'.tag[t].into
  /\ \A y \in Tag : \A v \in Reach(tags', y) : v \in Reach(tags, y) \/ tags'.tag[v].into = {}

OffStays ==
  /\ OffIsExcluded(tags', removed')
  /\ \A x \in removed' \ removed : tags'.tag[x[2]].into = {}

(* A link of the user's to a tag that was taken off was moved there. *)
LinksMove ==
  \A l \in Paper \X Tag : \A x \in removed' :
    /\ tags.link[l] = "none" /\ tags'.link[l] = "manual"
    /\ x[1] = l[1] /\ Resolve(tags', x[2]) = l[2]
    => Moved(l)

Edit ==
  /\ Recorded /\ RowsEdited /\ TablesOK(tags')
  /\ removed' \subseteq Paper \X Tag
  /\ OffInv => MergesGrow /\ OffStays
  /\ LinksMove

(* Where nothing is merged, merges lead where they led. *)
LEMMA NothingMerged ==
  ASSUME TablesOK(tags), TablesOK(tags'),
         \A t \in Tag : tags'.tag[t].into = tags.tag[t].into
  PROVE  /\ \A y \in Tag : Reach(tags', y) = Reach(tags, y)
         /\ MergesGrow
<1>1. \A y \in Tag : Reach(tags', y) = Reach(tags, y)
  BY ReachSame
<1>2. QED BY <1>1 DEF MergesGrow

LEMMA AddIsEdit ==
  ASSUME TagsInv, NEW p \in Paper, NEW t \in Tag, Add(p, t)
  PROVE  Edit
<1> DEFINE c == Created(tags, t)
           u == Resolve(c, t)
           d == [c EXCEPT !.link[<<p, u>>] = "manual", !.excluded = @ \ {<<p, u>>}]
<1>1. /\ TablesOK(c) /\ c.link = tags.link /\ c.excluded = tags.excluded /\ c.row = tags.row
      /\ \A v \in Tag : c.tag[v].into = tags.tag[v].into
  BY CreatedParts DEF TagsInv
<1>2. u \in Tag /\ c.tag[u].into = {}
  BY <1>1, ResolveReached, LiveEnd DEF Add
<1>3. /\ d.tag = c.tag /\ d.row = c.row /\ d.excluded = c.excluded \ {<<p, u>>}
      /\ d.link = [c.link EXCEPT ![<<p, u>>] = "manual"]
  BY <1>1 DEF TablesOK, Tables
<1>4. d \in Tables
  BY <1>1, <1>3 DEF TablesOK, Tables
<1>5. tags' = Touched(d, p) /\ Recorded
  BY DEF Add, Commit, Recorded
<1>6. /\ tags' \in Tables /\ tags'.tag = c.tag /\ tags'.link = d.link /\ tags'.excluded = d.excluded
      /\ RowsEdited
  <2>1. /\ tags' \in Tables /\ tags'.tag = d.tag /\ tags'.link = d.link
        /\ tags'.excluded = d.excluded
        /\ tags'.row[p] = [rev |-> d.row[p].rev + 1, input |-> d.row[p].input]
        /\ \A q \in Paper \ {p} : tags'.row[q] = d.row[q]
    BY <1>4, <1>5, TouchedParts
  <2>2. RowsEdited
    BY <2>1, <1>1, <1>3 DEF RowsEdited
  <2>3. QED BY <2>1, <2>2, <1>3
<1>7. TablesOK(tags') /\ \A v \in Tag : tags'.tag[v].into = tags.tag[v].into
  BY <1>1, <1>6 DEF TablesOK
<1>8. removed' = {x \in removed : ~(x[1] = p /\ Resolve(c, x[2]) = u)}
  BY DEF Add
<1>9. \A y \in Tag : Reach(tags', y) = Reach(tags, y) /\ Reach(c, y) = Reach(tags, y)
  BY <1>1, <1>7, NothingMerged, ReachSame DEF TagsInv
<1>10. \A l \in Paper \X Tag : tags'.link[l] = IF l = <<p, u>> THEN "manual" ELSE tags.link[l]
  BY <1>1, <1>3, <1>6 DEF TablesOK, Tables
<1>11. ASSUME OffInv PROVE OffStays
  <2>1. ASSUME NEW x \in removed', NEW v \in Reach(tags', x[2])
        PROVE  <<x[1], v>> \in tags'.excluded /\ tags'.link[<<x[1], v>>] # "auto"
    <3>1. x \in removed /\ x \in Paper \X Tag /\ v \in Reach(tags, x[2]) /\ v \in Tag
      BY <1>8, <1>9, <2>1, ReachSelf DEF TagsInv
    <3>2. <<x[1], v>> \in tags.excluded /\ tags.link[<<x[1], v>>] # "auto"
      BY <3>1, <2>1, <1>11 DEF OffInv, RemovedIsOff, OffIsExcluded
    <3>3. <<x[1], v>> # <<p, u>>
      BY <1>1, <1>2, <1>8, <1>9, <2>1, <3>1, ResolveEnd
    <3>4. QED BY <1>1, <1>3, <1>6, <1>10, <3>1, <3>2, <3>3
  <2>2. QED BY <1>8, <2>1 DEF OffStays, OffIsExcluded
<1>12. LinksMove
  <2> SUFFICES ASSUME NEW l \in Paper \X Tag, NEW x \in removed',
                      tags.link[l] = "none", tags'.link[l] = "manual",
                      x[1] = l[1], Resolve(tags', x[2]) = l[2]
               PROVE  FALSE
    BY DEF LinksMove
  <2>1. x[2] \in Tag /\ l = <<p, u>>
    BY <1>8, <1>10 DEF TagsInv
  <2>2. u \in Reach(c, x[2])
    BY <1>9, <2>1, ResolveReached
  <2>3. Resolve(c, x[2]) = u
    BY <1>1, <1>2, <2>1, <2>2, ResolveEnd
  <2>4. QED BY <1>8, <2>1, <2>3
<1>13. QED BY <1>5, <1>6, <1>7, <1>8, <1>11, <1>12, NothingMerged DEF Edit, TagsInv

(* What the touching of a paper leaves for the shape of an edit. *)
LEMMA TouchedRows ==
  ASSUME NEW d \in Tables, NEW p \in Paper, tags' = Touched(d, p),
         \A q \in Paper \ {p} : d.row[q] = tags.row[q],
         d.row[p].rev = tags.row[p].rev,
         d.row[p].input \in {tags.row[p].input, NoInput}
  PROVE  /\ tags' \in Tables /\ tags'.tag = d.tag /\ tags'.link = d.link
         /\ tags'.excluded = d.excluded
         /\ RowsEdited
<1>1. /\ tags' \in Tables /\ tags'.tag = d.tag /\ tags'.link = d.link
      /\ tags'.excluded = d.excluded
      /\ tags'.row[p] = [rev |-> d.row[p].rev + 1, input |-> d.row[p].input]
      /\ \A q \in Paper \ {p} : tags'.row[q] = d.row[q]
  BY TouchedParts
<1>2. RowsEdited
  BY <1>1 DEF RowsEdited
<1>3. QED BY <1>1, <1>2

LEMMA OffIsEdit ==
  ASSUME TagsInv, NEW p \in Paper, NEW T \in SUBSET Tag, Off(p, T)
  PROVE  Edit
<1> DEFINE d == [tags EXCEPT
       !.link = [l \in Paper \X Tag |-> IF l \in {p} \X T THEN "none" ELSE tags.link[l]],
       !.excluded = @ \cup ({p} \X T)]
<1>1. tags \in Tables /\ TablesOK(tags) /\ removed \subseteq Paper \X Tag
  BY DEF TagsInv, TablesOK
<1>2. /\ d.tag = tags.tag /\ d.row = tags.row /\ d.excluded = tags.excluded \cup ({p} \X T)
      /\ d.link = [l \in Paper \X Tag |-> IF l \in {p} \X T THEN "none" ELSE tags.link[l]]
  BY <1>1 DEF Tables
<1>3. d \in Tables
  BY <1>1, <1>2 DEF Tables
<1>4. /\ tags' = Touched(d, p) /\ Recorded
      /\ removed' = removed \cup ({p} \X Shown(T))
  BY DEF Off, Commit, Recorded
<1>5. /\ tags' \in Tables /\ tags'.tag = tags.tag /\ tags'.link = d.link
      /\ tags'.excluded = d.excluded /\ RowsEdited
  BY <1>2, <1>3, <1>4, TouchedRows
<1>6. TablesOK(tags')
  BY <1>1, <1>5 DEF TablesOK
<1>7. \A y \in Tag : Reach(tags', y) = Reach(tags, y)
  BY <1>1, <1>5, <1>6, NothingMerged
<1>8. \A l \in Paper \X Tag : tags'.link[l] = IF l \in {p} \X T THEN "none" ELSE tags.link[l]
  BY <1>2, <1>5
<1>9. Shown(T) \subseteq T /\ \A t \in Shown(T) : tags.tag[t].into = {}
  BY <1>1 DEF Shown, TablesOK
<1>10. ASSUME OffInv PROVE OffStays
  <2>1. ASSUME NEW x \in removed', NEW v \in Reach(tags', x[2])
        PROVE  <<x[1], v>> \in tags'.excluded /\ tags'.link[<<x[1], v>>] # "auto"
    <3>1. x \in Paper \X Tag /\ v \in Reach(tags, x[2]) /\ v \in Tag /\ x[2] \in Tag
      BY <1>1, <1>4, <1>7, <1>9, ReachSelf
    <3>2. CASE x \in removed
      <4>1. <<x[1], v>> \in tags.excluded /\ tags.link[<<x[1], v>>] # "auto"
        BY <3>1, <3>2, <2>1, <1>10 DEF OffInv, RemovedIsOff, OffIsExcluded
      <4>2. QED BY <1>2, <1>5, <1>8, <3>1, <4>1
    <3>3. CASE x \in {p} \X Shown(T)
      <4>1. v = x[2]
        BY <1>9, <2>1, <3>1, <3>3, ReachEnd
      <4>2. QED BY <1>2, <1>5, <1>8, <1>9, <3>1, <3>3, <4>1
    <3>4. QED BY <1>4, <3>2, <3>3
  <2>2. ASSUME NEW x \in removed' \ removed PROVE tags'.tag[x[2]].into = {}
    BY <1>4, <1>5, <1>9, <2>2
  <2>3. QED BY <2>1, <2>2 DEF OffStays, OffIsExcluded
<1>11. LinksMove
  BY <1>8 DEF LinksMove
<1>12. removed' \subseteq Paper \X Tag
  BY <1>1, <1>4, <1>9
<1>13. QED BY <1>1, <1>4, <1>5, <1>6, <1>10, <1>11, <1>12, NothingMerged DEF Edit

LEMMA ConfirmIsEdit ==
  ASSUME TagsInv, NEW p \in Paper, NEW t \in Tag, Confirm(p, t)
  PROVE  Edit
<1> DEFINE u == Resolve(tags, t)
           d == [tags EXCEPT !.link[<<p, u>>] = IF @ = "auto" THEN "manual" ELSE @]
<1>1. tags \in Tables /\ TablesOK(tags) /\ removed \subseteq Paper \X Tag
  BY DEF TagsInv, TablesOK
<1>2. u \in Tag
  BY ResolveReached
<1>3. /\ d.tag = tags.tag /\ d.row = tags.row /\ d.excluded = tags.excluded
      /\ d.link = [tags.link EXCEPT ![<<p, u>>] = IF @ = "auto" THEN "manual" ELSE @]
  BY <1>1 DEF Tables
<1>4. d \in Tables
  BY <1>1, <1>3 DEF Tables
<1>5. tags' = Touched(d, p) /\ Recorded /\ removed' = removed
  BY DEF Confirm, Commit, Recorded
<1>6. /\ tags' \in Tables /\ tags'.tag = tags.tag /\ tags'.link = d.link
      /\ tags'.excluded = tags.excluded /\ RowsEdited
  BY <1>3, <1>4, <1>5, TouchedRows
<1>7. TablesOK(tags')
  BY <1>1, <1>6 DEF TablesOK
<1>8. \A y \in Tag : Reach(tags', y) = Reach(tags, y)
  BY <1>1, <1>6, <1>7, NothingMerged
<1>9. \A l \in Paper \X Tag : /\ tags'.link[l] # "none" => tags.link[l] # "none"
                              /\ tags'.link[l] = "auto" => tags.link[l] = "auto"
  BY <1>1, <1>3, <1>6 DEF Tables
<1>10. ASSUME OffInv PROVE OffStays
  <2>1. ASSUME NEW x \in removed', NEW v \in Reach(tags', x[2])
        PROVE  <<x[1], v>> \in tags'.excluded /\ tags'.link[<<x[1], v>>] # "auto"
    <3>1. x \in removed /\ x \in Paper \X Tag /\ v \in Reach(tags, x[2]) /\ v \in Tag
      BY <1>1, <1>5, <1>8, <2>1, ReachSelf
    <3>2. QED BY <1>6, <1>9, <1>10, <2>1, <3>1 DEF OffInv, RemovedIsOff, OffIsExcluded
  <2>2. QED BY <1>5, <2>1 DEF OffStays, OffIsExcluded
<1>11. LinksMove
  BY <1>9 DEF LinksMove
<1>12. QED BY <1>1, <1>5, <1>6, <1>7, <1>10, <1>11, NothingMerged DEF Edit

LEMMA ResetIsEdit ==
  ASSUME TagsInv, NEW p \in Paper, Reset(p)
  PROVE  Edit
<1> DEFINE d == [tags EXCEPT !.excluded = {x \in @ : x[1] # p}, !.row[p].input = NoInput]
<1>1. tags \in Tables /\ TablesOK(tags) /\ removed \subseteq Paper \X Tag
  BY DEF TagsInv, TablesOK
<1>2. /\ d.tag = tags.tag /\ d.link = tags.link
      /\ d.excluded = {x \in tags.excluded : x[1] # p}
      /\ d.row = [tags.row EXCEPT ![p].input = NoInput]
  BY <1>1 DEF Tables
<1>3. NoInput \in Input
  BY DEF NoInput, Input
<1>4. d.row \in [Paper -> [rev : Nat, input : Input]]
  BY <1>1, <1>2, <1>3 DEF Tables
<1>5. d \in Tables
  BY <1>1, <1>2, <1>4 DEF Tables
<1>6. /\ d.row[p].rev = tags.row[p].rev /\ d.row[p].input = NoInput
      /\ \A q \in Paper \ {p} : d.row[q] = tags.row[q]
  BY <1>1, <1>2 DEF Tables
<1>7. /\ tags' = Touched(d, p) /\ Recorded
      /\ removed' = {x \in removed : x[1] # p}
  BY DEF Reset, Commit, Recorded
<1>8. /\ tags' \in Tables /\ tags'.tag = tags.tag /\ tags'.link = tags.link
      /\ tags'.excluded = d.excluded /\ RowsEdited
  BY <1>2, <1>5, <1>6, <1>7, TouchedRows
<1>9. TablesOK(tags')
  BY <1>1, <1>8 DEF TablesOK
<1>10. \A y \in Tag : Reach(tags', y) = Reach(tags, y)
  BY <1>1, <1>8, <1>9, NothingMerged
<1>11. ASSUME OffInv PROVE OffStays
  <2>1. ASSUME NEW x \in removed', NEW v \in Reach(tags', x[2])
        PROVE  <<x[1], v>> \in tags'.excluded /\ tags'.link[<<x[1], v>>] # "auto"
    <3>1. x \in removed /\ x[1] # p /\ v \in Reach(tags, x[2]) /\ x \in Paper \X Tag
      BY <1>1, <1>7, <1>10, <2>1
    <3>2. <<x[1], v>> \in tags.excluded /\ tags.link[<<x[1], v>>] # "auto"
      BY <1>11, <2>1, <3>1 DEF OffInv, RemovedIsOff, OffIsExcluded
    <3>3. QED BY <1>2, <1>8, <3>1, <3>2
  <2>2. QED BY <1>7, <2>1 DEF OffStays, OffIsExcluded
<1>12. LinksMove
  BY <1>8 DEF LinksMove
<1>13. QED BY <1>1, <1>7, <1>8, <1>9, <1>11, <1>12, NothingMerged DEF Edit

LEMMA MergeIsEdit ==
  ASSUME TagsInv, NEW t \in Tag, NEW u \in Tag, Merge(t, u)
  PROVE  Edit
<1> DEFINE
      excluded == tags.excluded \cup {<<p, u>> : p \in {q \in Paper : <<q, t>> \in tags.excluded}}
      carried(p) == Both(tags.link[<<p, t>>], tags.link[<<p, u>>])
      link == [l \in Paper \X Tag |->
                 CASE l[2] = t -> "none"
                   [] l[2] = u -> IF carried(l[1]) = "auto" /\ l \in excluded
                                  THEN "none" ELSE carried(l[1])
                   [] OTHER -> tags.link[l]]
      d == [tags EXCEPT !.excluded = excluded, !.link = link,
                        !.tag[t].status = "merged", !.tag[t].into = {u}]
<1>1. /\ tags \in Tables /\ TablesOK(tags) /\ removed \subseteq Paper \X Tag
      /\ tags.tag \in [Tag -> TagRow]
  BY DEF TagsInv, TablesOK, Tables
<1>2. t # u /\ tags.tag[t].into = {} /\ tags.tag[u].into = {}
  BY <1>1 DEF Merge, TablesOK
<1>3. /\ d.row = tags.row /\ d.excluded = excluded /\ d.link = link
      /\ d.tag = [tags.tag EXCEPT ![t].status = "merged", ![t].into = {u}]
  BY <1>1 DEF Tables
<1>4. /\ d.tag \in [Tag -> TagRow]
      /\ d.tag[t].status = "merged" /\ d.tag[t].into = {u}
      /\ \A v \in Tag \ {t} : d.tag[v] = tags.tag[v]
  BY <1>1, <1>3 DEF TagRow
<1>5. \A l \in Paper \X Tag : /\ tags.link[l] \in {"none", "auto", "manual"}
                              /\ l = <<l[1], l[2]>> /\ l[1] \in Paper
  BY <1>1 DEF Tables
<1>6. link \in [Paper \X Tag -> {"none", "auto", "manual"}]
  BY <1>5 DEF Both
<1>7. excluded \subseteq Paper \X Tag
  <2>1. tags.excluded \subseteq Paper \X Tag
    BY <1>1 DEF Tables
  <2>2. \A q \in Paper : <<q, u>> \in Paper \X Tag
    OBVIOUS
  <2>3. {<<p, u>> : p \in {q \in Paper : <<q, t>> \in tags.excluded}} \subseteq Paper \X Tag
    BY <2>2
  <2>4. QED BY <2>1, <2>3
<1>8. d \in Tables
  BY <1>1, <1>3, <1>4, <1>6, <1>7 DEF Tables
<1>9. tags' = Revised(Revised(d, t), u) /\ Recorded /\ removed' = removed
  BY DEF Merge, Commit, Merged, Recorded
<1> HIDE DEF d
<1>10. /\ tags' \in Tables /\ tags'.row = tags.row /\ tags'.link = link /\ tags'.excluded = excluded
       /\ \A v \in Tag : /\ tags'.tag[v].into = d.tag[v].into
                         /\ tags'.tag[v].status = d.tag[v].status
  <2>1. /\ Revised(d, t) \in Tables /\ Revised(d, t).row = d.row
        /\ Revised(d, t).link = d.link /\ Revised(d, t).excluded = d.excluded
        /\ \A v \in Tag : /\ Revised(d, t).tag[v].into = d.tag[v].into
                          /\ Revised(d, t).tag[v].status = d.tag[v].status
    BY <1>8, RevisedParts
  <2>2. /\ tags' \in Tables /\ tags'.row = d.row
        /\ tags'.link = d.link /\ tags'.excluded = d.excluded
        /\ \A v \in Tag : /\ tags'.tag[v].into = d.tag[v].into
                          /\ tags'.tag[v].status = d.tag[v].status
    BY <1>9, <2>1, RevisedParts
  <2>3. QED BY <1>3, <2>2
<1>11. RowsEdited
  BY <1>10 DEF RowsEdited
<1>12. TablesOK(tags')
  <2>1. \A v \in Tag : IF v = t THEN tags'.tag[v].status = "merged" /\ tags'.tag[v].into = {u}
                       ELSE tags'.tag[v].status = tags.tag[v].status
                            /\ tags'.tag[v].into = tags.tag[v].into
    BY <1>4, <1>10
  <2>2. tags' \in Tables
    BY <1>10
  <2>3. \A v \in Tag : (tags'.tag[v].status = "merged") = (tags'.tag[v].into # {})
    BY <1>1, <2>1 DEF TablesOK
  <2>4. \A v \in Tag : \A w, z \in tags'.tag[v].into : w = z
    BY <1>1, <2>1 DEF TablesOK
  <2>5. QED BY <2>2, <2>3, <2>4 DEF TablesOK
<1>13. \A y \in Tag : /\ Reach(tags', y) \subseteq Reach(tags, y) \cup {u}
                      /\ u \in Reach(tags', y) => u \in Reach(tags, y) \/ t \in Reach(tags, y)
  <2>1. /\ tags'.tag[u].into = {} /\ tags'.tag[t].into = {u}
        /\ \A v \in Tag \ {t} : tags'.tag[v].into = tags.tag[v].into
    BY <1>2, <1>4, <1>10
  <2>2. QED BY <1>1, <1>2, <2>1, ReachMerged
<1>14. MergesGrow
  BY <1>2, <1>4, <1>10, <1>13 DEF MergesGrow
<1>15. ASSUME OffInv PROVE OffStays
  <2>1. ASSUME NEW x \in removed', NEW v \in Reach(tags', x[2])
        PROVE  <<x[1], v>> \in tags'.excluded /\ tags'.link[<<x[1], v>>] # "auto"
    <3>1. x \in removed /\ x \in Paper \X Tag /\ x[1] \in Paper /\ x[2] \in Tag /\ v \in Tag
      BY <1>1, <1>9, <2>1, ReachSelf
    <3>2. \A w \in Reach(tags, x[2]) :
            <<x[1], w>> \in tags.excluded /\ tags.link[<<x[1], w>>] # "auto"
      BY <1>15, <2>1, <3>1 DEF OffInv, RemovedIsOff, OffIsExcluded
    <3>3. <<x[1], v>> \in excluded
      <4>1. CASE v \in Reach(tags, x[2])
        BY <3>2, <4>1
      <4>2. CASE v = u /\ t \in Reach(tags, x[2])
        BY <3>1, <3>2, <4>2
      <4>3. QED BY <1>13, <2>1, <3>1, <4>1, <4>2
    <3>4. link[<<x[1], v>>] # "auto"
      <4>1. <<x[1], v>> \in Paper \X Tag
        BY <3>1
      <4>2. CASE v = t
        <5>1. \A l \in Paper \X Tag : l[2] = t => link[l] = "none"
          BY <1>2
        <5>2. QED BY <4>1, <4>2, <5>1
      <4>3. CASE v = u /\ v # t
        BY <3>3, <4>1, <4>3
      <4>4. CASE v # u /\ v # t
        <5>1. v \in Reach(tags, x[2])
          BY <1>13, <2>1, <3>1, <4>4
        <5>2. QED BY <3>2, <4>1, <4>4, <5>1
      <4>5. QED BY <4>2, <4>3, <4>4
    <3>5. QED BY <1>10, <3>3, <3>4
  <2>2. QED BY <1>9, <2>1 DEF OffStays, OffIsExcluded
<1>16. ASSUME NEW l \in Paper \X Tag, tags.link[l] = "none", tags'.link[l] = "manual"
       PROVE  Moved(l)
  <2>1. l[2] = u /\ carried(l[1]) = "manual"
    BY <1>2, <1>5, <1>10, <1>16
  <2>2. tags.link[<<l[1], u>>] = "none"
    BY <1>5, <1>16, <2>1
  <2>3. tags.link[<<l[1], t>>] = "manual"
    BY <2>1, <2>2 DEF Both
  <2>4. tags'.tag[t].into = {l[2]} /\ tags.tag[t].into # {l[2]}
    BY <1>2, <1>4, <1>10, <2>1
  <2>5. QED BY <2>3, <2>4 DEF Moved
<1>17. LinksMove
  BY <1>16 DEF LinksMove
<1>18. QED BY <1>1, <1>9, <1>11, <1>12, <1>14, <1>15, <1>17 DEF Edit

LEMMA DeleteIsEdit ==
  ASSUME TagsInv, NEW t \in Tag, DeleteTag(t)
  PROVE  Edit
<1> DEFINE held == {l \in Paper \X {t} : tags.link[l] # "none"}
           d == [tags EXCEPT
                   !.tag[t].status = "deleted", !.excluded = @ \cup held,
                   !.link = [l \in Paper \X Tag |-> IF l \in held THEN "none" ELSE tags.link[l]]]
<1>1. /\ tags \in Tables /\ TablesOK(tags) /\ removed \subseteq Paper \X Tag
      /\ tags.tag \in [Tag -> TagRow]
  BY DEF TagsInv, TablesOK, Tables
<1>2. tags.tag[t].into = {} /\ held \subseteq Paper \X Tag
  BY <1>1 DEF DeleteTag, TablesOK
<1>3. /\ d.row = tags.row /\ d.excluded = tags.excluded \cup held
      /\ d.link = [l \in Paper \X Tag |-> IF l \in held THEN "none" ELSE tags.link[l]]
      /\ d.tag = [tags.tag EXCEPT ![t].status = "deleted"]
  BY <1>1 DEF Tables
<1>4. /\ d.tag \in [Tag -> TagRow]
      /\ d.tag[t].status = "deleted" /\ d.tag[t].into = {}
      /\ \A v \in Tag \ {t} : d.tag[v] = tags.tag[v]
  BY <1>1, <1>2, <1>3 DEF TagRow
<1>5. d \in Tables
  BY <1>1, <1>2, <1>3, <1>4 DEF Tables
<1>6. tags' = Revised(d, t) /\ Recorded /\ removed' = removed \cup held
  BY DEF DeleteTag, Commit, Recorded
<1> HIDE DEF d
<1>7. /\ tags' \in Tables /\ tags'.row = tags.row /\ tags'.link = d.link
      /\ tags'.excluded = d.excluded
      /\ \A v \in Tag : /\ tags'.tag[v].into = tags.tag[v].into
                        /\ tags'.tag[v].status = d.tag[v].status
  <2>1. /\ tags' \in Tables /\ tags'.row = d.row
        /\ tags'.link = d.link /\ tags'.excluded = d.excluded
        /\ \A v \in Tag : /\ tags'.tag[v].into = d.tag[v].into
                          /\ tags'.tag[v].status = d.tag[v].status
    BY <1>5, <1>6, RevisedParts
  <2>2. \A v \in Tag : d.tag[v].into = tags.tag[v].into
    BY <1>2, <1>4
  <2>3. QED BY <1>3, <2>1, <2>2
<1>8. RowsEdited
  BY <1>7 DEF RowsEdited
<1>9. TablesOK(tags')
  BY <1>1, <1>2, <1>4, <1>7 DEF TablesOK
<1>10. \A y \in Tag : Reach(tags', y) = Reach(tags, y)
  BY <1>1, <1>7, <1>9, NothingMerged
<1>11. \A l \in Paper \X Tag : tags'.link[l] = IF l \in held THEN "none" ELSE tags.link[l]
  BY <1>3, <1>7
<1>12. ASSUME OffInv PROVE OffStays
  <2>1. ASSUME NEW x \in removed', NEW v \in Reach(tags', x[2])
        PROVE  <<x[1], v>> \in tags'.excluded /\ tags'.link[<<x[1], v>>] # "auto"
    <3>1. x \in Paper \X Tag /\ v \in Reach(tags, x[2]) /\ v \in Tag
      BY <1>1, <1>2, <1>6, <1>10, <2>1, ReachSelf
    <3>2. CASE x \in removed
      <4>1. <<x[1], v>> \in tags.excluded /\ tags.link[<<x[1], v>>] # "auto"
        BY <1>12, <2>1, <3>1, <3>2 DEF OffInv, RemovedIsOff, OffIsExcluded
      <4>2. QED BY <1>3, <1>7, <1>11, <3>1, <4>1
    <3>3. CASE x \in held
      <4>1. x[2] = t /\ v = t
        BY <1>2, <3>1, <3>3, ReachEnd
      <4>2. QED BY <1>3, <1>7, <1>11, <3>1, <3>3, <4>1
    <3>4. QED BY <1>6, <2>1, <3>2, <3>3
  <2>2. ASSUME NEW x \in removed' \ removed PROVE tags'.tag[x[2]].into = {}
    BY <1>2, <1>6, <1>7, <2>2
  <2>3. QED BY <2>1, <2>2 DEF OffStays, OffIsExcluded
<1>13. LinksMove
  BY <1>11 DEF LinksMove
<1>14. QED BY <1>1, <1>2, <1>6, <1>7, <1>8, <1>9, <1>12, <1>13, NothingMerged DEF Edit

LEMMA RestoreIsEdit ==
  ASSUME TagsInv, NEW t \in Tag, RestoreTag(t)
  PROVE  Edit
<1> DEFINE d == [tags EXCEPT !.tag[t].status = "active"]
<1>1. /\ tags \in Tables /\ TablesOK(tags) /\ removed \subseteq Paper \X Tag
      /\ tags.tag \in [Tag -> TagRow]
  BY DEF TagsInv, TablesOK, Tables
<1>2. tags.tag[t].into = {}
  BY <1>1 DEF RestoreTag, TablesOK
<1>3. /\ d.row = tags.row /\ d.excluded = tags.excluded /\ d.link = tags.link
      /\ d.tag = [tags.tag EXCEPT ![t].status = "active"]
  BY <1>1 DEF Tables
<1>4. /\ d.tag \in [Tag -> TagRow]
      /\ d.tag[t].status = "active" /\ d.tag[t].into = {}
      /\ \A v \in Tag \ {t} : d.tag[v] = tags.tag[v]
  BY <1>1, <1>2, <1>3 DEF TagRow
<1>5. d \in Tables
  BY <1>1, <1>3, <1>4 DEF Tables
<1>6. tags' = Revised(d, t) /\ Recorded /\ removed' = removed
  BY DEF RestoreTag, Commit, Recorded
<1> HIDE DEF d
<1>7. /\ tags' \in Tables /\ tags'.row = tags.row /\ tags'.link = tags.link
      /\ tags'.excluded = tags.excluded
      /\ \A v \in Tag : /\ tags'.tag[v].into = tags.tag[v].into
                        /\ tags'.tag[v].status = d.tag[v].status
  <2>1. /\ tags' \in Tables /\ tags'.row = d.row
        /\ tags'.link = d.link /\ tags'.excluded = d.excluded
        /\ \A v \in Tag : /\ tags'.tag[v].into = d.tag[v].into
                          /\ tags'.tag[v].status = d.tag[v].status
    BY <1>5, <1>6, RevisedParts
  <2>2. \A v \in Tag : d.tag[v].into = tags.tag[v].into
    BY <1>2, <1>4
  <2>3. QED BY <1>3, <2>1, <2>2
<1>8. RowsEdited
  BY <1>7 DEF RowsEdited
<1>9. TablesOK(tags')
  BY <1>1, <1>2, <1>4, <1>7 DEF TablesOK
<1>10. \A y \in Tag : Reach(tags', y) = Reach(tags, y)
  BY <1>1, <1>7, <1>9, NothingMerged
<1>11. ASSUME OffInv PROVE OffStays
  <2>1. OffIsExcluded(tags', removed')
    BY <1>1, <1>6, <1>7, <1>10, <1>11 DEF OffIsExcluded, OffInv, RemovedIsOff
  <2>2. QED BY <1>6, <2>1 DEF OffStays
<1>12. LinksMove
  BY <1>7 DEF LinksMove
<1>13. QED BY <1>1, <1>6, <1>7, <1>8, <1>9, <1>11, <1>12, NothingMerged DEF Edit

(* So every operation of the log but undo has that shape. *)
LEMMA EditsAreEdits ==
  ASSUME TagsInv,
         \/ \E p \in Paper : Edits(p)
         \/ \E t, u \in Tag : Merge(t, u)
         \/ \E t \in Tag : DeleteTag(t) \/ RestoreTag(t)
  PROVE  Edit
<1>1. ASSUME NEW p \in Paper, Clear(p) PROVE Edit
  <2>1. LinkedTo(p) \in SUBSET Tag
    BY DEF LinkedTo
  <2>2. QED BY <1>1, <2>1, OffIsEdit DEF Clear
<1>2. ASSUME NEW p \in Paper, NEW t \in Tag, Remove(p, t) PROVE Edit
  <2>1. {Resolve(tags, t)} \in SUBSET Tag
    BY ResolveReached
  <2>2. QED BY <1>2, <2>1, OffIsEdit DEF Remove
<1>3. QED
  BY <1>1, <1>2, AddIsEdit, ConfirmIsEdit, ResetIsEdit, MergeIsEdit, DeleteIsEdit, RestoreIsEdit
  DEF Edits

-------------------------------------------------------------------------------
(* The log after an edit: what was in it, and at most one new entry. *)
LEMMA RecordedLog ==
  ASSUME TagsInv, Recorded, TablesOK(tags')
  PROVE  /\ log' \in Seq(Entry) /\ DOMAIN log \subseteq DOMAIN log'
         /\ \A k \in DOMAIN log' :
              \/ k \in DOMAIN log /\ log'[k] = log[k]
              \/ /\ k \notin DOMAIN log /\ tags' # tags
                 /\ log'[k].before = tags /\ log'[k].after = tags' /\ ~log'[k].undone
         /\ \A k, j \in DOMAIN log' : k \notin DOMAIN log /\ j \notin DOMAIN log => k = j
<1>1. log \in Seq(Entry) /\ tags \in Tables /\ tags' \in Tables
  BY DEF TagsInv, LogOK, TablesOK
<1>2. CASE tags' = tags
  BY <1>1, <1>2 DEF Recorded
<1>3. CASE tags' # tags
  <2> DEFINE e == [before |-> tags, after |-> tags', undone |-> FALSE]
  <2>1. log' = Append(log, e) /\ e \in Entry
    BY <1>1, <1>3 DEF Recorded, Entry
  <2>2. e.before = tags /\ e.after = tags' /\ ~e.undone
    OBVIOUS
  <2> HIDE DEF e
  <2>3. /\ log' \in Seq(Entry) /\ Len(log') = Len(log) + 1 /\ Len(log) \in Nat
        /\ DOMAIN log = 1..Len(log) /\ DOMAIN log' = 1..Len(log')
        /\ \A k \in 1..Len(log) : log'[k] = log[k]
        /\ log'[Len(log) + 1] = e
    BY <1>1, <2>1
  <2>4. QED BY <1>3, <2>2, <2>3
<1>4. QED BY <1>2, <1>3

LEMMA EditKeepsTags ==
  ASSUME TagsInv, Edit
  PROVE  TagsInv'
<1>1. /\ log' \in Seq(Entry)
      /\ \A k \in DOMAIN log' :
           \/ k \in DOMAIN log /\ log'[k] = log[k]
           \/ /\ tags' # tags /\ log'[k].before = tags /\ log'[k].after = tags'
  BY RecordedLog DEF Edit
<1>2. LogOK'
  BY <1>1 DEF LogOK, TagsInv, Edit
<1>3. QED BY <1>2 DEF TagsInv, Edit

LEMMA EditKeepsOff ==
  ASSUME TagsInv, OffInv, Edit
  PROVE  OffInv'
<1>1. /\ DOMAIN log \subseteq DOMAIN log'
      /\ \A k \in DOMAIN log' :
           \/ k \in DOMAIN log /\ log'[k] = log[k]
           \/ /\ k \notin DOMAIN log
              /\ log'[k].before = tags /\ log'[k].after = tags' /\ ~log'[k].undone
      /\ \A k, j \in DOMAIN log' : k \notin DOMAIN log /\ j \notin DOMAIN log => k = j
  BY RecordedLog DEF Edit
<1>2. /\ MergesGrow /\ OffStays
      /\ removed' \subseteq Paper \X Tag /\ removed \subseteq Paper \X Tag
  BY DEF Edit, TagsInv
<1>3. OnlyMerges'
  BY <1>1, <1>2 DEF OnlyMerges, OffInv, MergesGrow
<1>4. RemovedIsOff'
  BY <1>2 DEF RemovedIsOff, OffStays, OffIsExcluded
<1>5. ASSUME NEW k \in Open', NEW t \in MergedBy(k)'
      PROVE  /\ tags'.tag[t].into # {}
             /\ k \in DOMAIN log => k \in Open /\ t \in MergedBy(k) /\ tags.tag[t].into # {}
             /\ k \notin DOMAIN log => tags.tag[t].into = {} /\ log'[k].before = tags
  BY <1>1, <1>2 DEF Open, MergedBy, OffInv, MergesHold, MergesGrow
<1>6. MergesHold'
  BY <1>5 DEF MergesHold
<1>7. MergedOnce'
  <2> SUFFICES ASSUME NEW k \in Open', NEW j \in Open', NEW t \in Tag,
                      t \in MergedBy(k)', t \in MergedBy(j)'
               PROVE  k = j
    BY DEF MergedOnce
  <2>1. CASE k \in DOMAIN log /\ j \in DOMAIN log
    BY <1>5, <2>1 DEF OffInv, MergedOnce
  <2>2. CASE k \notin DOMAIN log /\ j \notin DOMAIN log
    BY <1>1, <2>2 DEF Open
  <2>3. QED BY <1>5, <2>1, <2>2
<1>8. UndoneMergesAreOff'
  <2> SUFFICES ASSUME NEW k \in Open', NEW t \in MergedBy(k)', NEW x \in removed',
                      t \in Reach(tags', x[2])
               PROVE  log'[k].before.link[<<x[1], t>>] # "auto"
    BY <1>2 DEF UndoneMergesAreOff
  <2>1. t \in Tag /\ x \in Paper \X Tag /\ tags'.tag[t].into # {}
    BY <1>2, <1>5 DEF MergedBy
  <2>2. t \in Reach(tags, x[2])
    BY <1>2, <2>1 DEF MergesGrow
  <2>3. x \in removed
    <3>1. SUFFICES ASSUME x \notin removed PROVE FALSE
      OBVIOUS
    <3>2. tags'.tag[x[2]].into = {}
      BY <1>2, <3>1 DEF OffStays
    <3>3. QED BY <2>1, <3>2, ReachEnd
  <2>4. CASE k \in DOMAIN log
    BY <1>1, <1>5, <2>2, <2>3, <2>4 DEF OffInv, UndoneMergesAreOff, Open
  <2>5. CASE k \notin DOMAIN log
    BY <1>5, <2>2, <2>3, <2>5 DEF OffInv, RemovedIsOff, OffIsExcluded
  <2>6. QED BY <2>4, <2>5
<1>9. QED BY <1>3, <1>4, <1>6, <1>7, <1>8 DEF OffInv

-------------------------------------------------------------------------------
(* Undo: row by row, what the operation changed goes back. *)
LEMMA UndoParts ==
  ASSUME TagsInv, NEW k \in DOMAIN log, Undo(k)
  PROVE  LET b == log[k].before
             a == log[k].after
         IN /\ tags' \in Tables
            /\ \A t \in Tag : /\ tags'.tag[t] = IF b.tag[t] # a.tag[t] THEN b.tag[t] ELSE tags.tag[t]
                              /\ b.tag[t] # a.tag[t] => tags.tag[t] = a.tag[t]
            /\ \A l \in Paper \X Tag :
                 tags'.link[l] = IF b.link[l] # a.link[l] THEN b.link[l] ELSE tags.link[l]
            /\ \A p \in Paper : /\ tags'.row[p] = IF b.row[p] # a.row[p] THEN b.row[p] ELSE tags.row[p]
                                /\ b.row[p] # a.row[p] => tags.row[p] = a.row[p]
            /\ \A l \in Paper \X Tag : l \in tags.excluded /\ l \notin a.excluded \ b.excluded
                                          => l \in tags'.excluded
<1> DEFINE b == log[k].before
           a == log[k].after
<1>1. tags \in Tables /\ b \in Tables /\ a \in Tables
  BY DEF TagsInv, LogOK, TablesOK
<1>2. /\ tags' = [tag |-> Back(tags.tag, b.tag, a.tag), link |-> Back(tags.link, b.link, a.link),
                  excluded |-> Difference(tags.excluded, Difference(b.excluded, a.excluded)),
                  row |-> Back(tags.row, b.row, a.row)]
      /\ Untouched(b, a)
  BY DEF Undo
<1> HIDE DEF b, a
<1>3. /\ DOMAIN tags.tag = Tag /\ DOMAIN b.tag = Tag
      /\ DOMAIN tags.link = Paper \X Tag /\ DOMAIN b.link = Paper \X Tag
      /\ DOMAIN tags.row = Paper /\ DOMAIN b.row = Paper
      /\ tags.excluded \subseteq Paper \X Tag
      /\ b.excluded \subseteq Paper \X Tag /\ a.excluded \subseteq Paper \X Tag
  BY <1>1 DEF Tables
<1>4. tags'.tag = [t \in Tag |-> IF b.tag[t] # a.tag[t] THEN b.tag[t] ELSE tags.tag[t]]
  BY <1>2, <1>3 DEF Back, Changed
<1>5. tags'.link = [l \in Paper \X Tag |-> IF b.link[l] # a.link[l] THEN b.link[l] ELSE tags.link[l]]
  BY <1>2, <1>3 DEF Back, Changed
<1>6. tags'.row = [p \in Paper |-> IF b.row[p] # a.row[p] THEN b.row[p] ELSE tags.row[p]]
  BY <1>2, <1>3 DEF Back, Changed
<1>7. tags'.excluded = Difference(tags.excluded, Difference(b.excluded, a.excluded))
  BY <1>2
<1>8. tags'.excluded \subseteq Paper \X Tag
  BY <1>3, <1>7 DEF Difference
<1>9. tags' \in Tables
  <2>1. tags'.tag \in [Tag -> TagRow]
    BY <1>1, <1>4 DEF Tables
  <2>2. tags'.link \in [Paper \X Tag -> {"none", "auto", "manual"}]
    BY <1>1, <1>5 DEF Tables
  <2>3. tags'.row \in [Paper -> [rev : Nat, input : Input]]
    BY <1>1, <1>6 DEF Tables
  <2>4. tags' = [tag |-> tags'.tag, link |-> tags'.link, excluded |-> tags'.excluded, row |-> tags'.row]
    BY <1>2
  <2>5. QED BY <2>1, <2>2, <2>3, <2>4, <1>8 DEF Tables
<1>10. /\ \A t \in Tag : b.tag[t] # a.tag[t] => tags.tag[t] = a.tag[t]
       /\ \A p \in Paper : b.row[p] # a.row[p] => tags.row[p] = a.row[p]
       /\ \A l \in Difference(b.excluded, a.excluded) : (l \in tags.excluded) = (l \in a.excluded)
  BY <1>2, <1>3 DEF Untouched, Changed
<1>11. \A l \in Paper \X Tag : l \in tags.excluded /\ l \notin a.excluded \ b.excluded
                                 => l \in tags'.excluded
  BY <1>7, <1>10 DEF Difference
<1>12. QED BY <1>4, <1>5, <1>6, <1>9, <1>10, <1>11 DEF b, a

LEMMA UndoLog ==
  ASSUME TagsInv, NEW k \in DOMAIN log, Undo(k)
  PROVE  /\ log' \in Seq(Entry) /\ DOMAIN log' = DOMAIN log
         /\ \A j \in DOMAIN log : /\ log'[j].before = log[j].before
                                  /\ log'[j].after = log[j].after
         /\ k \in Open /\ Open' = Open \ {k}
<1>1. log \in Seq(Entry) /\ log[k] \in Entry /\ ~log[k].undone
  BY DEF TagsInv, LogOK, Undo
<1>2. log' = [log EXCEPT ![k].undone = TRUE]
  BY DEF Undo
<1>3. [log[k] EXCEPT !.undone = TRUE] \in Entry
  BY <1>1 DEF Entry
<1>4. log' \in Seq(Entry) /\ DOMAIN log' = DOMAIN log
  BY <1>1, <1>2, <1>3
<1>5. \A j \in DOMAIN log : log[j] \in Entry
  BY <1>1
<1>6. /\ \A j \in DOMAIN log \ {k} : log'[j] = log[j]
      /\ log'[k].before = log[k].before /\ log'[k].after = log[k].after
      /\ log'[k].undone = TRUE
  BY <1>1, <1>2, <1>5 DEF Entry
<1>7. QED BY <1>1, <1>4, <1>6 DEF Open

LEMMA UndoKeepsTags ==
  ASSUME TagsInv, NEW k \in DOMAIN log, Undo(k)
  PROVE  TagsInv'
<1>1. /\ TablesOK(tags) /\ TablesOK(log[k].before) /\ removed \subseteq Paper \X Tag
  BY DEF TagsInv, LogOK
<1>2. /\ tags' \in Tables
      /\ \A t \in Tag : tags'.tag[t] = log[k].before.tag[t] \/ tags'.tag[t] = tags.tag[t]
  BY UndoParts
<1>3. TablesOK(tags')
  BY <1>1, <1>2 DEF TablesOK
<1>4. LogOK'
  BY UndoLog DEF LogOK, TagsInv
<1>5. removed' \subseteq Paper \X Tag
  BY <1>1 DEF Undo
<1>6. QED BY <1>3, <1>4, <1>5 DEF TagsInv

(* The case the invariant is made for: an undo gives a paper nothing back without
   being noticed, except what the merge it takes back had moved. *)
LEMMA UndoKeepsOff ==
  ASSUME TagsInv, OffInv, NEW k \in DOMAIN log, Undo(k)
  PROVE  OffInv'
<1> DEFINE b == log[k].before
           a == log[k].after
<1>1. /\ TablesOK(tags) /\ TablesOK(b) /\ TablesOK(a) /\ removed \subseteq Paper \X Tag
  BY DEF TagsInv, LogOK
<1>2. /\ \A t \in Tag : /\ tags'.tag[t] = IF b.tag[t] # a.tag[t] THEN b.tag[t] ELSE tags.tag[t]
                        /\ b.tag[t] # a.tag[t] => tags.tag[t] = a.tag[t]
      /\ \A l \in Paper \X Tag :
           tags'.link[l] = IF b.link[l] # a.link[l] THEN b.link[l] ELSE tags.link[l]
      /\ \A l \in Paper \X Tag : l \in tags.excluded /\ l \notin a.excluded \ b.excluded
                                    => l \in tags'.excluded
  BY UndoParts
<1>3. /\ DOMAIN log' = DOMAIN log
      /\ \A j \in DOMAIN log : log'[j].before = log[j].before /\ log'[j].after = log[j].after
      /\ k \in Open /\ Open' = Open \ {k}
  BY UndoLog
<1>4. removed' = removed \ PutBack(tags', removed, GivenBack(b, a))
  BY DEF Undo
<1> HIDE DEF b, a
(* A tag on the way from what is still removed was not given back. *)
<1>5. ASSUME NEW x \in removed', NEW v \in Reach(tags', x[2]), NEW l \in Paper \X Tag,
             l = <<x[1], v>>
      PROVE  /\ x \in removed /\ l \notin a.excluded \ b.excluded
             /\ b.link[l] \notin {"none", a.link[l]} =>
                  b.tag[l[2]].status = "active" /\ a.tag[l[2]].status = "merged"
  <2>1. x \in removed /\ l \notin GivenBack(b, a)
    BY <1>4, <1>5 DEF PutBack
  <2>2. QED BY <2>1 DEF GivenBack
<1>6. \A t \in Tag : tags'.tag[t].into \subseteq tags.tag[t].into
  BY <1>2 DEF OffInv, OnlyMerges, b, a
<1>7. \A y \in Tag : Reach(tags', y) \subseteq Reach(tags, y)
  BY <1>1, <1>6, ReachShrinks
<1>8. OnlyMerges'
  BY <1>3 DEF OffInv, OnlyMerges
<1>9. RemovedIsOff'
  <2> SUFFICES ASSUME NEW x \in removed', NEW v \in Reach(tags', x[2])
               PROVE  <<x[1], v>> \in tags'.excluded /\ tags'.link[<<x[1], v>>] # "auto"
    BY DEF RemovedIsOff, OffIsExcluded
  <2> DEFINE l == <<x[1], v>>
  <2>1. x \in removed /\ x \in Paper \X Tag /\ v \in Reach(tags, x[2]) /\ v \in Tag
    BY <1>1, <1>4, <1>7, ReachSelf
  <2>2. l \in Paper \X Tag /\ l[1] = x[1] /\ l[2] = v
    BY <2>1
  <2>3. /\ l \notin a.excluded \ b.excluded
        /\ b.link[l] \notin {"none", a.link[l]} =>
             b.tag[v].status = "active" /\ a.tag[v].status = "merged"
    BY <1>5, <2>2
  <2>4. l \in tags.excluded /\ tags.link[l] # "auto"
    BY <2>1 DEF OffInv, RemovedIsOff, OffIsExcluded
  <2>5. l \in tags'.excluded
    BY <1>2, <2>2, <2>3, <2>4
  <2>6. tags'.link[l] # "auto"
    <3>1. CASE b.link[l] = a.link[l]
      BY <1>2, <2>2, <2>4, <3>1
    <3>2. CASE b.link[l] # a.link[l] /\ b.link[l] = "auto"
      <4>1. b.tag[v].into = {} /\ a.tag[v].into # {}
        BY <1>1, <2>1, <2>3, <3>2 DEF TablesOK
      <4>2. v \in MergedBy(k)
        BY <2>1, <4>1 DEF MergedBy, b, a
      <4>3. b.link[l] # "auto"
        BY <1>3, <2>1, <4>2 DEF OffInv, UndoneMergesAreOff, b
      <4>4. QED BY <3>2, <4>3
    <3>3. QED BY <1>2, <2>2, <3>1, <3>2
  <2>7. QED BY <2>5, <2>6
<1>10. \A j \in Open' : j \in Open /\ j # k /\ MergedBy(j)' = MergedBy(j)
                        /\ log'[j].before = log[j].before
  BY <1>3 DEF Open, MergedBy
<1>11. MergesHold'
  <2> SUFFICES ASSUME NEW j \in Open', NEW t \in MergedBy(j) PROVE tags'.tag[t].into # {}
    BY <1>10 DEF MergesHold
  <2>1. t \in Tag /\ tags.tag[t].into # {}
    BY <1>10 DEF OffInv, MergesHold, MergedBy
  <2>2. CASE b.tag[t] = a.tag[t]
    BY <1>2, <2>1, <2>2
  <2>3. CASE b.tag[t] # a.tag[t]
    <3>1. a.tag[t].into # {} /\ tags'.tag[t] = b.tag[t]
      BY <1>2, <2>1, <2>3
    <3>2. t \notin MergedBy(k)
      BY <1>3, <1>10, <2>1 DEF OffInv, MergedOnce
    <3>3. QED BY <2>1, <3>1, <3>2 DEF MergedBy, b, a
  <2>4. QED BY <2>2, <2>3
<1>12. MergedOnce'
  BY <1>10 DEF OffInv, MergedOnce
<1>13. UndoneMergesAreOff'
  <2> SUFFICES ASSUME NEW j \in Open', NEW t \in MergedBy(j), NEW x \in removed',
                      t \in Reach(tags', x[2])
               PROVE  log[j].before.link[<<x[1], t>>] # "auto"
    BY <1>10 DEF UndoneMergesAreOff
  <2>1. x \in removed /\ x \in Paper \X Tag /\ t \in Reach(tags, x[2])
    BY <1>1, <1>4, <1>7
  <2>2. QED BY <1>10, <2>1 DEF OffInv, UndoneMergesAreOff
<1>14. QED BY <1>8, <1>9, <1>11, <1>12, <1>13 DEF OffInv

LEMMA UndoMovesLinks ==
  ASSUME TagsInv, NEW k \in DOMAIN log, Undo(k)
  PROVE  LinksMove
<1> DEFINE b == log[k].before
           a == log[k].after
<1>1. /\ TablesOK(b) /\ TablesOK(a) /\ removed \subseteq Paper \X Tag
  BY DEF TagsInv, LogOK
<1>2. /\ \A t \in Tag : /\ tags'.tag[t] = IF b.tag[t] # a.tag[t] THEN b.tag[t] ELSE tags.tag[t]
                        /\ b.tag[t] # a.tag[t] => tags.tag[t] = a.tag[t]
      /\ \A l \in Paper \X Tag :
           tags'.link[l] = IF b.link[l] # a.link[l] THEN b.link[l] ELSE tags.link[l]
  BY UndoParts
<1>3. removed' = removed \ PutBack(tags', removed, GivenBack(b, a))
  BY DEF Undo
<1> HIDE DEF b, a
<1> SUFFICES ASSUME NEW l \in Paper \X Tag, NEW x \in removed',
                    tags.link[l] = "none", tags'.link[l] = "manual",
                    x[1] = l[1], Resolve(tags', x[2]) = l[2]
             PROVE  Moved(l)
  BY DEF LinksMove
<1>4. x \in removed /\ x[2] \in Tag /\ l[2] \in Tag /\ l = <<x[1], l[2]>>
  BY <1>1, <1>3
<1>5. l[2] \in Reach(tags', x[2])
  BY <1>4, ResolveReached
<1>6. l \notin GivenBack(b, a)
  BY <1>3, <1>4, <1>5 DEF PutBack
<1>7. b.link[l] \notin {"none", a.link[l]}
  BY <1>2
<1>8. b.tag[l[2]].status = "active" /\ a.tag[l[2]].status = "merged"
  BY <1>6, <1>7 DEF GivenBack
<1>9. b.tag[l[2]].into = {} /\ a.tag[l[2]].into # {}
  BY <1>1, <1>4, <1>8 DEF TablesOK
<1>10. tags'.tag[l[2]].into = {} /\ tags.tag[l[2]].into # {}
  BY <1>2, <1>4, <1>9
<1>11. QED BY <1>10 DEF Moved

-------------------------------------------------------------------------------
(* An automatic run links a paper to tags that are not merged and not excluded. *)
LEMMA CreatedAllParts ==
  ASSUME TagsInv, NEW C \in SUBSET Tag
  PROVE  /\ TablesOK(CreatedAll(C))
         /\ CreatedAll(C).link = tags.link
         /\ CreatedAll(C).excluded = tags.excluded
         /\ CreatedAll(C).row = tags.row
         /\ \A t \in Tag : CreatedAll(C).tag[t].into = tags.tag[t].into
<1> DEFINE row(t) == IF t \in C THEN Created(tags, t).tag[t] ELSE tags.tag[t]
           d == [tags EXCEPT !.tag = [t \in Tag |-> row(t)]]
<1>1. TablesOK(tags) /\ tags \in Tables
  BY DEF TagsInv, TablesOK
<1>2. ASSUME NEW t \in Tag
      PROVE  /\ row(t) \in TagRow /\ row(t).into = tags.tag[t].into
             /\ (row(t).status = "merged") = (row(t).into # {})
             /\ \A u, v \in row(t).into : u = v
  <2>1. CASE t \in C
    <3>1. TablesOK(Created(tags, t)) /\ Created(tags, t).tag[t].into = tags.tag[t].into
      BY <1>1, CreatedParts
    <3>2. QED BY <2>1, <3>1 DEF TablesOK, Tables
  <2>2. CASE t \notin C
    BY <1>1, <2>2 DEF TablesOK, Tables
  <2>3. QED BY <2>1, <2>2
<1> HIDE DEF row
<1>3. /\ d.link = tags.link /\ d.excluded = tags.excluded /\ d.row = tags.row
      /\ d.tag = [t \in Tag |-> row(t)]
  BY <1>1 DEF Tables
<1>4. d \in Tables
  BY <1>1, <1>2, <1>3 DEF Tables
<1>5. TablesOK(d)
  BY <1>2, <1>3, <1>4 DEF TablesOK
<1>6. CreatedAll(C) = d
  BY DEF CreatedAll, row
<1>7. QED BY <1>2, <1>3, <1>5, <1>6

LEMMA ApplyParts ==
  ASSUME TagsInv, NEW p \in Paper, NEW C \in SUBSET Tag, NEW input \in Input,
         Apply(p, C, input)
  PROVE  /\ TablesOK(tags') /\ tags'.excluded = tags.excluded
         /\ \A t \in Tag : tags'.tag[t].into = tags.tag[t].into
         /\ \A l \in Paper \X Tag :
              \/ tags'.link[l] \in {"none", tags.link[l]}
              \/ tags'.link[l] = "auto" /\ l \notin tags.excluded /\ tags.tag[l[2]].into = {}
         /\ tags'.row[p] = [rev |-> tags.row[p].rev + 1, input |-> input]
         /\ \A q \in Paper \ {p} : tags'.row[q] = tags.row[q]
         /\ log' = log /\ removed' = removed
<1> DEFINE c == CreatedAll(C)
           kept(l) == IF l[1] = p /\ C # {} /\ c.link[l] = "auto" THEN "none" ELSE c.link[l]
           link == [l \in Paper \X Tag |->
                      IF l \in {p} \X Chosen(c, p, C) /\ kept(l) = "none" THEN "auto" ELSE kept(l)]
           d == [c EXCEPT !.row[p].input = input, !.link = link]
<1>1. /\ TablesOK(c) /\ c \in Tables /\ c.link = tags.link /\ c.excluded = tags.excluded
      /\ c.row = tags.row /\ \A t \in Tag : c.tag[t].into = tags.tag[t].into
  BY CreatedAllParts DEF TablesOK
<1>2. tags' = Touched(d, p) /\ log' = log /\ removed' = removed
  BY DEF Apply, Applied
<1>3. \A u \in Chosen(c, p, C) : u \in Tag /\ tags.tag[u].into = {} /\ <<p, u>> \notin tags.excluded
  BY <1>1, ResolveReached, LiveEnd DEF Chosen
<1> HIDE DEF c
<1>4. link \in [Paper \X Tag -> {"none", "auto", "manual"}]
  BY <1>1 DEF Tables
<1>5. \A l \in Paper \X Tag :
        \/ link[l] \in {"none", tags.link[l]}
        \/ link[l] = "auto" /\ l \notin tags.excluded /\ tags.tag[l[2]].into = {}
  BY <1>1, <1>3
<1> HIDE DEF link, kept
<1>6. /\ d.tag = c.tag /\ d.excluded = c.excluded /\ d.link = link
      /\ d.row = [c.row EXCEPT ![p].input = input]
  BY <1>1 DEF Tables
<1>7. d.row \in [Paper -> [rev : Nat, input : Input]]
  BY <1>1, <1>6 DEF Tables
<1>8. d \in Tables
  BY <1>1, <1>4, <1>6, <1>7 DEF Tables
<1>9. /\ d.row[p].rev = tags.row[p].rev /\ d.row[p].input = input
      /\ \A q \in Paper \ {p} : d.row[q] = tags.row[q]
  BY <1>1, <1>6 DEF Tables
<1> HIDE DEF d
<1>10. /\ tags' \in Tables /\ tags'.tag = c.tag /\ tags'.link = link /\ tags'.excluded = tags.excluded
       /\ tags'.row[p] = [rev |-> tags.row[p].rev + 1, input |-> input]
       /\ \A q \in Paper \ {p} : tags'.row[q] = tags.row[q]
  <2>1. /\ tags' \in Tables /\ tags'.tag = d.tag /\ tags'.link = d.link
        /\ tags'.excluded = d.excluded
        /\ tags'.row[p] = [rev |-> d.row[p].rev + 1, input |-> d.row[p].input]
        /\ \A q \in Paper \ {p} : tags'.row[q] = d.row[q]
    BY <1>2, <1>8, TouchedParts
  <2>2. tags'.row[p] = [rev |-> tags.row[p].rev + 1, input |-> input]
    BY <1>9, <2>1
  <2>3. \A q \in Paper \ {p} : tags'.row[q] = tags.row[q]
    BY <1>9, <2>1
  <2>4. QED BY <1>1, <1>6, <2>1, <2>2, <2>3
<1>11. TablesOK(tags')
  BY <1>1, <1>10 DEF TablesOK
<1>12. QED BY <1>1, <1>2, <1>5, <1>10, <1>11

LEMMA ApplyKeepsTags ==
  ASSUME TagsInv, NEW p \in Paper, NEW C \in SUBSET Tag, NEW input \in Input,
         Apply(p, C, input)
  PROVE  TagsInv' /\ (OffInv => OffInv')
<1>1. /\ TablesOK(tags') /\ tags'.excluded = tags.excluded
      /\ \A t \in Tag : tags'.tag[t].into = tags.tag[t].into
      /\ \A l \in Paper \X Tag :
           \/ tags'.link[l] \in {"none", tags.link[l]}
           \/ tags'.link[l] = "auto" /\ l \notin tags.excluded /\ tags.tag[l[2]].into = {}
      /\ log' = log /\ removed' = removed
  BY ApplyParts
<1>2. TagsInv'
  BY <1>1 DEF TagsInv, LogOK
<1>3. \A y \in Tag : Reach(tags', y) = Reach(tags, y)
  BY <1>1, NothingMerged DEF TagsInv
<1>4. removed \subseteq Paper \X Tag
  BY DEF TagsInv
<1>5. ASSUME OffInv PROVE OffInv'
  <2>1. OnlyMerges'
    BY <1>1, <1>5 DEF OffInv, OnlyMerges
  <2>2. RemovedIsOff'
    <3> SUFFICES ASSUME NEW x \in removed', NEW v \in Reach(tags', x[2])
                 PROVE  <<x[1], v>> \in tags'.excluded /\ tags'.link[<<x[1], v>>] # "auto"
      BY DEF RemovedIsOff, OffIsExcluded
    <3>1. x \in removed /\ v \in Reach(tags, x[2])
      BY <1>1, <1>3, <1>4
    <3>2. <<x[1], v>> \in tags.excluded /\ tags.link[<<x[1], v>>] # "auto"
      BY <1>5, <3>1 DEF OffInv, RemovedIsOff, OffIsExcluded
    <3>3. <<x[1], v>> \in Paper \X Tag
      BY <1>4, <3>1, ReachSelf
    <3>4. QED BY <1>1, <3>2, <3>3
  <2>3. \A k \in DOMAIN log : MergedBy(k)' = MergedBy(k)
    BY <1>1 DEF MergedBy
  <2>4. Open' = Open
    BY <1>1 DEF Open
  <2>5. MergesHold'
    BY <1>1, <1>5, <2>3, <2>4 DEF OffInv, MergesHold, Open, MergedBy
  <2>6. MergedOnce'
    BY <1>1, <1>5, <2>3, <2>4 DEF OffInv, MergedOnce, Open
  <2>7. UndoneMergesAreOff'
    BY <1>1, <1>3, <1>4, <1>5, <2>3, <2>4 DEF OffInv, UndoneMergesAreOff, Open
  <2>8. QED BY <2>1, <2>2, <2>5, <2>6, <2>7 DEF OffInv
<1>6. QED BY <1>2, <1>5

-------------------------------------------------------------------------------
(* Every set of items has a first one. *)
LEMMA FirstIsLeast ==
  ASSUME NEW S \in SUBSET Item, S # {}
  PROVE  First(S) \in S /\ \A j \in S : First(S) <= j
<1> DEFINE R == {ss \in Nat \X Nat : ss[1] < ss[2]}
<1>1. IsWellFoundedOn(R, Nat)
  BY NatLessThanWellFounded DEF OpToRel
<1>2. S \subseteq Nat
  BY KeywordsAssumption DEF Item
<1>3. \A j, k \in Nat : j < k => <<j, k>> \in R
  OBVIOUS
<1> HIDE DEF R
<1>4. PICK i \in S : \A j \in S : <<j, i>> \notin R
  BY <1>1, <1>2, WFMin
<1>5. ASSUME NEW j \in S PROVE i <= j
  <2>1. i \in Nat /\ j \in Nat /\ <<j, i>> \notin R
    BY <1>2, <1>4
  <2>2. ~(j < i)
    BY <1>3, <2>1
  <2>3. QED BY <2>1, <2>2
<1>6. QED BY <1>5 DEF First

(* The rows of the queue. *)
ItemRow ==
  [status : Terminal \cup Active \cup {"none"}, paper : Paper, method : Method,
   basis : 0..MaxChanges, link : 0..MaxItems, cancel : BOOLEAN, sent : BOOLEAN,
   input : 0..MaxChanges]

RunRow ==
  [pc : {"none", "submitted", "claimed", "working", "sent", "answered", "applying",
         "finishing", "broken", "done"},
   rev : Nat, had : Input, outcome : Terminal]

QueueTypes ==
  /\ automatic \in BOOLEAN
  /\ skipped \subseteq Paper
  /\ source \in [Paper -> 1..MaxChanges]
  /\ pending \in [Paper -> 0..MaxChanges]
  /\ intake \in [pc : {"none", "taken", "read", "created"}, paper : Paper, stamp : 0..MaxChanges]
  /\ item \in [Item -> ItemRow]
  /\ run \in [Item -> RunRow]
  /\ disturbances \in 0..MaxDisturbances

TypeInv == TagsInv /\ QueueTypes

LEMMA TypesFollow == TypeInv => TypeOK
<1> SUFFICES ASSUME TypeInv PROVE TypeOK
  OBVIOUS
<1>1. \A k \in DOMAIN log : log[k].undone \in BOOLEAN
  <2>1. log \in Seq(Entry)
    BY DEF TypeInv, TagsInv, LogOK
  <2>2. \A k \in DOMAIN log : log[k] \in Entry
    BY <2>1
  <2>3. QED BY <2>2 DEF Entry
<1>2. TagsTypeOK
  BY <1>1 DEF TypeInv, TagsInv, LogOK, TablesOK, Tables, TagsTypeOK
<1>3. QED BY <1>2 DEF TypeInv, QueueTypes, TypeOK, ItemRow, RunRow

LEMMA NoItemRow ==
  /\ NoItem \in ItemRow
  /\ NoItem.status = "none" /\ NoItem.basis = 0 /\ ~NoItem.cancel
<1>1. (CHOOSE p \in Paper : TRUE) \in Paper
  BY KeywordTagsAssumption
<1>2. QED BY <1>1, KeywordsAssumption DEF NoItem, ItemRow, Method

LEMMA IdleRow ==
  /\ Idle \in RunRow
  /\ Idle.pc = "none" /\ Idle.had.at = 0 /\ Idle.outcome = "failed"
  BY DEF Idle, RunRow, NoInput, Input, Terminal

LEMMA EndedRow ==
  ASSUME NEW e \in ItemRow, NEW status \in Terminal
  PROVE  /\ Ended(e, status) \in ItemRow
         /\ Ended(e, status).status = status /\ Ended(e, status).paper = e.paper
         /\ Ended(e, status).method = e.method /\ Ended(e, status).basis = 0
<1>1. /\ e.paper \in Paper /\ e.method \in Method /\ e.input \in 0..MaxChanges
      /\ 0 \in 0..MaxChanges
  BY KeywordsAssumption DEF ItemRow
<1> DEFINE d == [NoItem EXCEPT !.status = status, !.paper = e.paper, !.method = e.method,
                               !.input = IF status = "done" THEN e.input ELSE 0]
<1>2. d \in ItemRow
  BY <1>1, NoItemRow DEF ItemRow
<1>3. d.status = status /\ d.paper = e.paper /\ d.method = e.method /\ d.basis = 0
  BY NoItemRow DEF ItemRow
<1>4. QED BY <1>2, <1>3 DEF Ended

(* A request or a pending row adds one queued item at the first free place, or
   finds one like it. *)
LEMMA CreateParts ==
  ASSUME QueueTypes, NEW m \in Method, NEW p \in Paper, NEW basis \in 0..MaxChanges,
         Create(m, p, basis)
  PROVE  \/ /\ item' = item
            /\ \E j \in Item : /\ item[j].status \in Active /\ item[j].paper = p
                               /\ item[j].method = m /\ item[j].basis = basis
         \/ \E i \in Item :
              /\ item' \in [Item -> ItemRow]
              /\ item[i].status = "none" /\ \A j \in Item : item[j].status = "none" => i <= j
              /\ \A j \in Item \ {i} : item'[j] = item[j]
              /\ item'[i].status = "queued" /\ item'[i].paper = p /\ item'[i].method = m
              /\ item'[i].basis = basis
<1>1. CASE Alike(m, p, basis) # {}
  <2>1. item' = item
    BY <1>1 DEF Create
  <2>2. \E j \in Item : /\ item[j].status \in Active /\ item[j].paper = p
                        /\ item[j].method = m /\ item[j].basis = basis
    BY <1>1 DEF Alike
  <2>3. QED BY <2>1, <2>2
<1>2. CASE Alike(m, p, basis) = {}
  <2> DEFINE i == First(Free)
             prior == Prior(m, p, basis)
             link == IF prior = {} THEN 0 ELSE First(prior)
             e == [NoItem EXCEPT !.status = "queued", !.paper = p, !.method = m,
                                 !.basis = basis, !.link = link]
  <2>1. item' = [item EXCEPT ![i] = e] /\ Free # {}
    BY <1>2 DEF Create
  <2>2. Free \in SUBSET Item /\ prior \in SUBSET Item
    BY DEF Free, Prior
  <2>3. i \in Item /\ item[i].status = "none" /\ \A j \in Item : item[j].status = "none" => i <= j
    BY <2>1, <2>2, FirstIsLeast DEF Free
  <2>4. link \in 0..MaxItems
    BY <2>2, FirstIsLeast, KeywordsAssumption DEF Item
  <2> HIDE DEF i, link, prior
  <2>5. e \in ItemRow
    BY <2>4, NoItemRow DEF ItemRow, Active
  <2>6. e.status = "queued" /\ e.paper = p /\ e.method = m /\ e.basis = basis
    BY NoItemRow DEF ItemRow
  <2> HIDE DEF e
  <2>7. item' \in [Item -> ItemRow] /\ item'[i] = e /\ \A j \in Item \ {i} : item'[j] = item[j]
    BY <2>1, <2>3, <2>5 DEF QueueTypes
  <2>8. QED BY <2>3, <2>6, <2>7
<1>3. QED BY <1>1, <1>2

-------------------------------------------------------------------------------
(* Types.  What a step does to the tags: it is an edit, an undo, the end of a run,
   or leaves them alone. *)
LEMMA ApplyRunTags ==
  ASSUME TypeInv, NEW i \in Item, ApplyRun(i)
  PROVE  \/ UNCHANGED tagVars
         \/ /\ item[i].status = "running" /\ ~item[i].cancel
            /\ source[item[i].paper] = item[i].input
            /\ \E C \in SUBSET Tag : Apply(item[i].paper, C, [method |-> item[i].method,
                                                              at |-> item[i].input])
            /\ item' = [item EXCEPT ![i] = Ended(@, "done")]
            /\ Ending(i, "done")
            /\ UNCHANGED <<automatic, skipped, source, pending, intake, disturbances>>
  BY DEF ApplyRun, OnlyRun, NothingElse

LEMMA TagsStep ==
  ASSUME TypeInv, [Next]_vars
  PROVE  \/ Edit
         \/ \E k \in DOMAIN log : Undo(k)
         \/ \E p \in Paper, C \in SUBSET Tag, input \in Input : Apply(p, C, input)
         \/ UNCHANGED tagVars
<1>1. CASE EditTags
  BY <1>1, EditsAreEdits DEF EditTags, TagEdits, TypeInv
<1>2. ASSUME NEW i \in Item, ApplyRun(i)
      PROVE  \/ UNCHANGED tagVars
             \/ \E p \in Paper, C \in SUBSET Tag, input \in Input : Apply(p, C, input)
  <2>1. item[i].paper \in Paper /\ [method |-> item[i].method, at |-> item[i].input] \in Input
    BY DEF TypeInv, QueueTypes, ItemRow, Input, Method
  <2>2. QED BY <1>2, <2>1, ApplyRunTags
<1>3. ASSUME NEW i \in Item, Step(i), ~ApplyRun(i) PROVE UNCHANGED tagVars
  BY <1>3 DEF Step, Claim, ReadSource, Refused, Send, Answer, Compare, Finish, WriteFails,
              NothingElse, OnlyRun
<1>4. ASSUME NEW p \in Paper, NEW m \in Method, Change(p) \/ TakePending(p) \/ Ask(m, p)
      PROVE  UNCHANGED tagVars
  BY <1>4 DEF Change, TakePending, Ask
<1>5. ASSUME NEW i \in Item, Cancel(i) \/ Retry(i) \/ Dispatch(i) \/ Reap(i)
      PROVE  UNCHANGED tagVars
  BY <1>5 DEF Cancel, Retry, Dispatch, Reap
<1>6. CASE ReadSetting \/ CreatePending \/ ClearPending \/ Restart \/ SwitchAutomatic
  BY <1>6 DEF ReadSetting, CreatePending, ClearPending, Restart, SwitchAutomatic
<1>7. CASE UNCHANGED vars
  BY <1>7 DEF vars, tagVars
<1>8. "local" \in Method
  BY DEF Method
<1>9. QED BY <1>1, <1>2, <1>3, <1>4, <1>5, <1>6, <1>7, <1>8 DEF Next

LEMMA TagsKept ==
  ASSUME TypeInv, [Next]_vars
  PROVE  TagsInv' /\ (OffInv => OffInv')
<1>1. CASE Edit
  BY <1>1, EditKeepsTags, EditKeepsOff DEF TypeInv
<1>2. CASE \E k \in DOMAIN log : Undo(k)
  BY <1>2, UndoKeepsTags, UndoKeepsOff DEF TypeInv
<1>3. CASE \E p \in Paper, C \in SUBSET Tag, input \in Input : Apply(p, C, input)
  BY <1>3, ApplyKeepsTags DEF TypeInv
<1>4. CASE UNCHANGED tagVars
  <2>1. TagsInv'
    BY <1>4 DEF tagVars, TypeInv, TagsInv, LogOK
  <2>2. ASSUME OffInv PROVE OffInv'
    <3>1. tags' = tags /\ log' = log /\ removed' = removed
      BY <1>4 DEF tagVars
    <3>2. Open' = Open /\ \A k : MergedBy(k)' = MergedBy(k)
      BY <3>1 DEF Open, MergedBy
    <3>3. (OnlyMerges /\ RemovedIsOff)'
      BY <2>2, <3>1 DEF OffInv, OnlyMerges, RemovedIsOff, OffIsExcluded
    <3>4. (MergesHold /\ MergedOnce /\ UndoneMergesAreOff)'
      BY <2>2, <3>1, <3>2 DEF OffInv, MergesHold, MergedOnce, UndoneMergesAreOff
    <3>5. QED BY <3>3, <3>4 DEF OffInv
  <2>3. QED BY <2>1, <2>2
<1>5. QED BY <1>1, <1>2, <1>3, <1>4, TagsStep

(* The place of a run and the row of an item. *)
LEMMA GotoType ==
  ASSUME QueueTypes, NEW i \in Item,
         NEW pc \in {"none", "submitted", "claimed", "working", "sent", "answered", "applying",
                     "finishing", "broken", "done"},
         Goto(i, pc)
  PROVE  run' \in [Item -> RunRow]
  BY DEF Goto, QueueTypes, RunRow

LEMMA EndingType ==
  ASSUME QueueTypes, NEW i \in Item, NEW outcome \in Terminal, Ending(i, outcome)
  PROVE  run' \in [Item -> RunRow]
<1>1. [Idle EXCEPT !.pc = "finishing", !.outcome = outcome] \in RunRow
  BY IdleRow DEF RunRow
<1>2. QED BY <1>1 DEF Ending, QueueTypes

LEMMA DoneType ==
  ASSUME QueueTypes, NEW i \in Item, Done(i)
  PROVE  run' \in [Item -> RunRow]
<1>1. [Idle EXCEPT !.pc = "done"] \in RunRow
  BY IdleRow DEF RunRow
<1>2. QED BY <1>1 DEF Done, QueueTypes

LEMMA StepTypes ==
  ASSUME TypeInv, NEW i \in Item, Step(i)
  PROVE  QueueTypes'
<1> USE DEF TypeInv
<1>1. /\ item \in [Item -> ItemRow] /\ run \in [Item -> RunRow] /\ item[i] \in ItemRow
      /\ source[item[i].paper] \in 1..MaxChanges
  BY DEF QueueTypes, ItemRow
<1>2. {"failed", "stale", "overtaken", "interrupted", "cancelled", "done"} \subseteq Terminal
  BY DEF Terminal
<1>3. CASE Claim(i)
  <2>1. tags.row[item[i].paper] \in [rev : Nat, input : Input]
    BY <1>1 DEF TagsInv, TablesOK, Tables, ItemRow
  <2>2. run' \in [Item -> RunRow]
    <3>1. CASE Done(i)
      BY <3>1, DoneType
    <3>2. CASE run' = [run EXCEPT ![i].pc = "claimed", ![i].rev = tags.row[item[i].paper].rev,
                                  ![i].had = tags.row[item[i].paper].input]
      <4>1. [run[i] EXCEPT !.pc = "claimed", !.rev = tags.row[item[i].paper].rev,
                           !.had = tags.row[item[i].paper].input] \in RunRow
        BY <1>1, <2>1 DEF RunRow
      <4>2. QED BY <1>1, <3>2, <4>1
    <3>3. QED BY <1>3, <3>1, <3>2 DEF Claim
  <2>3. item' \in [Item -> ItemRow]
    <3>1. CASE item' = [item EXCEPT ![i] = Ended(@, item[item[i].link].status)] /\ Inherits(i)
      <4>1. item[item[i].link].status \in Terminal
        BY <1>2, <3>1 DEF Inherits
      <4>2. QED BY <1>1, <3>1, <4>1, EndedRow
    <3>2. CASE item' = [item EXCEPT ![i].status = "running"]
      BY <1>1, <3>2 DEF ItemRow, Active
    <3>3. QED BY <1>1, <1>3, <3>1, <3>2 DEF Claim
  <2>4. QED BY <1>3, <2>2, <2>3 DEF QueueTypes, Claim, NothingElse
<1>4. CASE ReadSource(i)
  <2>1. run' \in [Item -> RunRow]
    BY <1>2, <1>4, EndingType, GotoType DEF ReadSource, Refused
  <2>2. item' \in [Item -> ItemRow]
    <3>1. CASE item' = item
      BY <1>1, <3>1
    <3>2. CASE item' = [item EXCEPT ![i].input = source[item[i].paper]]
      BY <1>1, <3>2 DEF ItemRow
    <3>3. QED BY <1>4, <3>1, <3>2 DEF ReadSource, Refused, OnlyRun
  <2>3. QED BY <1>4, <2>1, <2>2 DEF QueueTypes, ReadSource, Refused, OnlyRun, NothingElse
<1>5. CASE Send(i)
  <2>1. run' \in [Item -> RunRow]
    BY <1>2, <1>5, EndingType, GotoType DEF Send, Refused
  <2>2. item' \in [Item -> ItemRow]
    <3>1. [item[i] EXCEPT !.sent = TRUE] \in ItemRow
      BY <1>1 DEF ItemRow
    <3>2. item' = item \/ item' = [item EXCEPT ![i] = [item[i] EXCEPT !.sent = TRUE]]
      BY <1>5 DEF Send, Refused, OnlyRun
    <3>3. QED BY <1>1, <3>1, <3>2
  <2>3. QED BY <1>5, <2>1, <2>2 DEF QueueTypes, Send, Refused, OnlyRun, NothingElse
<1>6. CASE Answer(i)
  <2>1. run' \in [Item -> RunRow]
    BY <1>2, <1>6, EndingType, GotoType DEF Answer
  <2>2. QED BY <1>6, <2>1 DEF QueueTypes, Answer, OnlyRun, NothingElse
<1>7. CASE Compare(i)
  <2>1. run' \in [Item -> RunRow]
    BY <1>2, <1>7, EndingType, GotoType DEF Compare, Refused
  <2>2. QED BY <1>7, <2>1 DEF QueueTypes, Compare, Refused, OnlyRun, NothingElse
<1>8. CASE ApplyRun(i)
  <2>1. run' \in [Item -> RunRow]
    BY <1>2, <1>8, EndingType DEF ApplyRun
  <2>2. Ended(item[i], "done") \in ItemRow
    BY <1>1, <1>2, EndedRow
  <2>3. item' \in [Item -> ItemRow]
    BY <1>1, <1>8, <2>2 DEF ApplyRun, OnlyRun
  <2>4. QED BY <1>8, <2>1, <2>3 DEF QueueTypes, ApplyRun, OnlyRun, NothingElse
<1>9. CASE Finish(i)
  <2>1. run' \in [Item -> RunRow]
    BY <1>9, DoneType DEF Finish
  <2>2. Ended(item[i], run[i].outcome) \in ItemRow
    BY <1>1, EndedRow DEF RunRow
  <2>3. item' \in [Item -> ItemRow]
    BY <1>1, <1>9, <2>2 DEF Finish
  <2>4. QED BY <1>9, <2>1, <2>3 DEF QueueTypes, Finish, NothingElse
<1>10. CASE WriteFails(i)
  <2>1. run' \in [Item -> RunRow]
    BY <1>2, <1>10, EndingType, GotoType DEF WriteFails
  <2>2. disturbances' \in 0..MaxDisturbances
    BY <1>10, KeywordsAssumption DEF WriteFails, Disturb, QueueTypes
  <2>3. QED BY <1>10, <2>1, <2>2 DEF QueueTypes, WriteFails
<1>11. QED BY <1>3, <1>4, <1>5, <1>6, <1>7, <1>8, <1>9, <1>10 DEF Step

LEMMA QueueTypesStep ==
  ASSUME TypeInv, [Next]_vars
  PROVE  QueueTypes'
<1>1. /\ item \in [Item -> ItemRow] /\ run \in [Item -> RunRow]
      /\ source \in [Paper -> 1..MaxChanges] /\ pending \in [Paper -> 0..MaxChanges]
      /\ intake \in [pc : {"none", "taken", "read", "created"}, paper : Paper, stamp : 0..MaxChanges]
  BY DEF TypeInv, QueueTypes
<1>2. ASSUME Disturb PROVE disturbances' \in 0..MaxDisturbances
  BY <1>2, KeywordsAssumption DEF Disturb, TypeInv, QueueTypes
<1>3. ASSUME NEW m \in Method, NEW p \in Paper, NEW basis \in 0..MaxChanges, Create(m, p, basis)
      PROVE  item' \in [Item -> ItemRow]
  BY <1>1, <1>3, CreateParts DEF TypeInv
<1>4. 0 \in 0..MaxChanges /\ 1..MaxChanges \subseteq 0..MaxChanges
  BY KeywordsAssumption
<1>5. NothingInHand \in [pc : {"none", "taken", "read", "created"}, paper : Paper, stamp : 0..MaxChanges]
  BY <1>4, KeywordTagsAssumption DEF NothingInHand
<1>6. CASE EditTags
  BY <1>2, <1>6 DEF EditTags, TypeInv, QueueTypes
<1>7. ASSUME NEW p \in Paper, Change(p) PROVE QueueTypes'
  <2>1. source[p] + 1 \in 1..MaxChanges /\ source[p] + 1 \in 0..MaxChanges
    BY <1>1, <1>7, KeywordsAssumption DEF Change
  <2>2. source' \in [Paper -> 1..MaxChanges] /\ pending' \in [Paper -> 0..MaxChanges]
    BY <1>1, <1>7, <2>1 DEF Change
  <2>3. QED BY <1>2, <1>7, <2>2 DEF Change, TypeInv, QueueTypes
<1>8. ASSUME NEW p \in Paper, TakePending(p) PROVE QueueTypes'
  <2>1. intake' \in [pc : {"none", "taken", "read", "created"}, paper : Paper, stamp : 0..MaxChanges]
    BY <1>1, <1>8 DEF TakePending
  <2>2. QED BY <1>8, <2>1 DEF TakePending, TypeInv, QueueTypes
<1>9. ASSUME NEW m \in Method, NEW p \in Paper, Ask(m, p) PROVE QueueTypes'
  <2>1. item' \in [Item -> ItemRow]
    BY <1>1, <1>3, <1>4, <1>9 DEF Ask
  <2>2. QED BY <1>2, <1>9, <2>1 DEF Ask, TypeInv, QueueTypes
<1>10. CASE CreatePending
  <2>1. item' \in [Item -> ItemRow]
    BY <1>1, <1>3, <1>10 DEF CreatePending, Method
  <2>2. intake' \in [pc : {"none", "taken", "read", "created"}, paper : Paper, stamp : 0..MaxChanges]
    BY <1>1, <1>10 DEF CreatePending
  <2>3. QED BY <1>10, <2>1, <2>2 DEF CreatePending, TypeInv, QueueTypes
<1>11. CASE ClearPending
  <2>1. pending' \in [Paper -> 0..MaxChanges]
    BY <1>1, <1>4, <1>11 DEF ClearPending
  <2>2. QED BY <1>5, <1>11, <2>1 DEF ClearPending, TypeInv, QueueTypes
<1>12. CASE Restart
  <2>1. \A i \in Item : Ended(item[i], "interrupted") \in ItemRow
    BY <1>1, EndedRow DEF Terminal
  <2>2. \A i \in Item : [item[i] EXCEPT !.status = "queued"] \in ItemRow
    BY <1>1 DEF ItemRow, Active
  <2>3. item' \in [Item -> ItemRow]
    BY <1>1, <1>12, <2>1, <2>2 DEF Restart
  <2>4. run' \in [Item -> RunRow]
    BY <1>12, IdleRow DEF Restart
  <2>5. QED BY <1>2, <1>5, <1>12, <2>3, <2>4 DEF Restart, TypeInv, QueueTypes
<1>13. ASSUME NEW i \in Item, Cancel(i) PROVE QueueTypes'
  <2>1. Ended(item[i], "cancelled") \in ItemRow
    BY <1>1, EndedRow DEF Terminal
  <2>2. [item[i] EXCEPT !.cancel = TRUE] \in ItemRow
    BY <1>1 DEF ItemRow
  <2>3. item' \in [Item -> ItemRow]
    BY <1>1, <1>13, <2>1, <2>2 DEF Cancel
  <2>4. QED BY <1>2, <1>13, <2>3 DEF Cancel, TypeInv, QueueTypes
<1>14. ASSUME NEW i \in Item, Retry(i) PROVE QueueTypes'
  <2>1. item[i].method \in Method /\ item[i].paper \in Paper
    BY <1>1 DEF ItemRow
  <2>2. item' \in [Item -> ItemRow]
    BY <1>3, <1>4, <1>14, <2>1 DEF Retry
  <2>3. QED BY <1>2, <1>14, <2>2 DEF Retry, TypeInv, QueueTypes
<1>15. ASSUME NEW i \in Item, Dispatch(i) PROVE QueueTypes'
  BY <1>15 DEF Dispatch, TypeInv, QueueTypes, RunRow
<1>16. ASSUME NEW i \in Item, Reap(i) PROVE QueueTypes'
  <2>1. Ended(item[i], "failed") \in ItemRow
    BY <1>1, EndedRow DEF Terminal
  <2>2. item' \in [Item -> ItemRow] /\ run' \in [Item -> RunRow]
    BY <1>1, <1>16, <2>1, IdleRow DEF Reap
  <2>3. QED BY <1>16, <2>2 DEF Reap, TypeInv, QueueTypes
<1>17. CASE ReadSetting
  <2>1. intake' \in [pc : {"none", "taken", "read", "created"}, paper : Paper, stamp : 0..MaxChanges]
    BY <1>1, <1>17 DEF ReadSetting
  <2>2. skipped' \subseteq Paper
    BY <1>1, <1>17 DEF ReadSetting, TypeInv, QueueTypes
  <2>3. QED BY <1>17, <2>1, <2>2 DEF ReadSetting, TypeInv, QueueTypes
<1>18. CASE SwitchAutomatic
  BY <1>2, <1>18 DEF SwitchAutomatic, TypeInv, QueueTypes
<1>19. CASE UNCHANGED vars
  BY <1>19 DEF vars, queueVars, TypeInv, QueueTypes
<1>20. QED
  BY <1>6, <1>7, <1>8, <1>9, <1>10, <1>11, <1>12, <1>13, <1>14, <1>15, <1>16, <1>17, <1>18, <1>19,
     StepTypes
  DEF Next

LEMMA InitInv == Init => TypeInv /\ OffInv
<1> SUFFICES ASSUME Init PROVE TypeInv /\ OffInv
  OBVIOUS
<1>1. PICK T \in SUBSET Tag :
        tags = [tag |-> [t \in Tag |-> IF t \in T THEN NewTag ELSE NoTag],
                link |-> [l \in Paper \X Tag |-> "none"],
                excluded |-> {}, row |-> [p \in Paper |-> [rev |-> 1, input |-> NoInput]]]
  BY DEF Init, TagsInit
<1>2. log = <<>> /\ removed = {}
  BY DEF Init, TagsInit
<1>3. NoTag \in TagRow /\ NoTag.into = {} /\ NoTag.status = "none" /\ NoInput \in Input
  BY DEF NoTag, TagRow, NoInput, Input
<1>4. tags.tag = [t \in Tag |-> IF t \in T THEN NewTag ELSE NoTag] /\ tags \in Tables
  BY <1>1, <1>3, NewTagRow DEF Tables
<1>5. TablesOK(tags)
  BY <1>3, <1>4, NewTagRow DEF TablesOK
<1>6. log \in Seq(Entry) /\ DOMAIN log = {}
  BY <1>2
<1>7. TagsInv
  BY <1>2, <1>5, <1>6 DEF TagsInv, LogOK
<1>8. \A t \in Tag : tags.tag[t].into = {}
  BY <1>3, <1>4, NewTagRow
<1>9. OffInv
  BY <1>2, <1>6, <1>8 DEF OffInv, OnlyMerges, RemovedIsOff, OffIsExcluded,
                          MergesHold, MergedOnce, UndoneMergesAreOff, Open
<1>10. QueueTypes
  <2>1. NothingInHand \in [pc : {"none", "taken", "read", "created"}, paper : Paper, stamp : 0..MaxChanges]
    BY KeywordsAssumption, KeywordTagsAssumption DEF NothingInHand
  <2>2. 1 \in 1..MaxChanges /\ 1 \in 0..MaxChanges /\ 0 \in 0..MaxDisturbances
    BY KeywordsAssumption
  <2>3. item \in [Item -> ItemRow] /\ run \in [Item -> RunRow]
    BY NoItemRow, IdleRow DEF Init
  <2>4. QED BY <2>1, <2>2, <2>3 DEF Init, QueueTypes
<1>11. QED BY <1>7, <1>9, <1>10 DEF TypeInv

LEMMA InvStep == TypeInv /\ OffInv /\ [Next]_vars => (TypeInv /\ OffInv)'
  BY TagsKept, QueueTypesStep DEF TypeInv

LEMMA InvAlways == Spec => [](TypeInv /\ OffInv)
  BY InitInv, InvStep, PTL DEF Spec

(* The types of the tags, the log and the queue, and that exactly the merged tags
   have a target. *)
THEOREM TypeCorrect == Spec => []TypeOK
<1>1. TypeInv /\ OffInv => TypeOK
  BY TypesFollow
<1>2. QED BY <1>1, InvAlways, PTL

(* A new link of the user's, step by step. *)
LEMMA LinksMoveAlways ==
  ASSUME TypeInv, OffInv, [Next]_vars
  PROVE  LinksMove
<1>1. CASE Edit
  BY <1>1 DEF Edit
<1>2. CASE \E k \in DOMAIN log : Undo(k)
  BY <1>2, UndoMovesLinks DEF TypeInv
<1>3. ASSUME NEW l \in Paper \X Tag, tags.link[l] = "none", tags'.link[l] = "manual",
             \/ \E p \in Paper, C \in SUBSET Tag, input \in Input : Apply(p, C, input)
             \/ UNCHANGED tagVars
      PROVE  FALSE
  <2>1. CASE UNCHANGED tagVars
    BY <1>3, <2>1 DEF tagVars
  <2>2. ASSUME NEW p \in Paper, NEW C \in SUBSET Tag, NEW input \in Input, Apply(p, C, input)
        PROVE  tags'.link[l] \in {"none", tags.link[l], "auto"}
    BY <2>2, ApplyParts DEF TypeInv
  <2>3. QED BY <1>3, <2>1, <2>2
<1>4. QED BY <1>1, <1>2, <1>3, TagsStep DEF LinksMove

(* What was taken off a paper, by an edit or with the deletion of a tag, does not
   come back by itself, however long the log: until it is put back, no automatic
   run links the paper to it or to what it was merged into, and a link of the
   user's comes there only with the merge that moves it or the undo of its own
   merge. *)
THEOREM RemovedTagsStayOff == Spec => RemovedStaysOut
<1> DEFINE Stays ==
      \A l \in Paper \X Tag :
        tags.link[l] = "none" /\ tags'.link[l] # "none" =>
          \A x \in removed' : x[1] = l[1] /\ Resolve(tags', x[2]) = l[2] =>
                               tags'.link[l] = "manual" /\ Moved(l)
<1>1. ASSUME TypeInv, OffInv, TypeInv', OffInv', [Next]_vars PROVE Stays
  <2> SUFFICES ASSUME NEW l \in Paper \X Tag, tags.link[l] = "none", tags'.link[l] # "none",
                      NEW x \in removed', x[1] = l[1], Resolve(tags', x[2]) = l[2]
               PROVE  tags'.link[l] = "manual" /\ Moved(l)
    OBVIOUS
  <2>1. x \in Paper \X Tag
    BY <1>1 DEF TypeInv, TagsInv
  <2>2. l[2] \in Reach(tags', x[2])
    BY <2>1, ResolveReached
  <2>3. \A v \in Reach(tags', x[2]) : tags'.link[<<x[1], v>>] # "auto"
    BY <1>1 DEF OffInv, RemovedIsOff, OffIsExcluded
  <2>4. l = <<x[1], l[2]>>
    OBVIOUS
  <2>5. tags'.link[l] \in {"none", "auto", "manual"}
    BY <1>1 DEF TypeInv, TagsInv, TablesOK, Tables
  <2>6. tags'.link[l] = "manual"
    BY <2>2, <2>3, <2>4, <2>5
  <2>7. LinksMove
    BY <1>1, LinksMoveAlways
  <2>8. QED BY <2>6, <2>7 DEF LinksMove
<1>2. TypeInv /\ OffInv /\ (TypeInv /\ OffInv)' /\ [Next]_vars => [Stays]_vars
  BY <1>1
<1>3. QED BY <1>2, InvAlways, PTL DEF Spec, RemovedStaysOut

-------------------------------------------------------------------------------
(* QuietIsCurrent.  The invariant speaks of the last automatic run that was applied
   to a paper: the revision it left the paper with and the version it had read.
   base is that of every paper; nothing in the state keeps it. *)
Bases == [Paper -> [rev : Nat, at : Nat]]

(* The edits of a paper that can be undone. *)
Edited(p) == {k \in Open : log[k].before.row[p] # log[k].after.row[p]}

(* An edit raises the revision of a paper by one and its undo lowers it again, so
   the revision that an edit left is no later edit's, and not that of the run; an
   edit made after the run had found the input of the run, or none. *)
RowInv(base, p) ==
  /\ base[p].rev <= tags.row[p].rev
  /\ base[p].at <= source[p]
  /\ tags.row[p].input.at \in {0, base[p].at}
  /\ \A k \in Edited(p) :
       /\ log[k].after.row[p].rev = log[k].before.row[p].rev + 1
       /\ log[k].after.row[p].rev <= tags.row[p].rev
       /\ log[k].after.row[p].rev >= base[p].rev =>
            /\ log[k].after.row[p].rev # base[p].rev
            /\ log[k].before.row[p].input.at \in {0, base[p].at}
  /\ \A k, j \in Edited(p) : log[k].after.row[p].rev = log[j].after.row[p].rev => k = j

LEMMA RowTypes ==
  ASSUME TagsInv, NEW p \in Paper
  PROVE  /\ tags.row[p].rev \in Nat /\ tags.row[p].input.at \in Nat
         /\ \A k \in DOMAIN log :
              /\ log[k].before.row[p].rev \in Nat /\ log[k].after.row[p].rev \in Nat
              /\ log[k].before.row[p] \in [rev : Nat, input : Input]
              /\ log[k].after.row[p] \in [rev : Nat, input : Input]
  BY DEF TagsInv, LogOK, TablesOK, Tables, Input

LEMMA EditKeepsRow ==
  ASSUME TagsInv, Edit, NEW base \in Bases, NEW p \in Paper, RowInv(base, p),
         source' = source
  PROVE  RowInv(base, p)'
<1>1. /\ tags.row[p].rev \in Nat /\ base[p].rev \in Nat /\ base[p].at \in Nat
      /\ \A k \in DOMAIN log : log[k].after.row[p].rev \in Nat
  BY RowTypes DEF Bases
<1>2. \/ tags'.row[p] = tags.row[p]
      \/ /\ tags'.row[p].rev = tags.row[p].rev + 1
         /\ tags'.row[p].input.at \in {tags.row[p].input.at, 0}
  BY DEF Edit, RowsEdited, NoInput
<1>3. \A k \in DOMAIN log' :
        \/ k \in DOMAIN log /\ log'[k] = log[k]
        \/ /\ k \notin DOMAIN log /\ log'[k].before = tags /\ log'[k].after = tags'
  BY RecordedLog DEF Edit
<1>4. \A k, j \in DOMAIN log' : k \notin DOMAIN log /\ j \notin DOMAIN log => k = j
  BY RecordedLog DEF Edit
<1>5. ASSUME NEW k \in Edited(p)'
      PROVE  \/ k \in Edited(p) /\ log'[k] = log[k]
             \/ /\ k \notin DOMAIN log /\ tags'.row[p].rev = tags.row[p].rev + 1
                /\ log'[k].before.row[p] = tags.row[p] /\ log'[k].after.row[p] = tags'.row[p]
  BY <1>2, <1>3 DEF Edited, Open
<1>6. \A k \in Edited(p) : k \in DOMAIN log
  BY DEF Edited, Open
<1>7. /\ base[p].rev <= tags'.row[p].rev /\ base[p].at <= source[p]
      /\ tags'.row[p].input.at \in {0, base[p].at}
  BY <1>1, <1>2 DEF RowInv
<1>8. ASSUME NEW k \in Edited(p)'
      PROVE  /\ log'[k].after.row[p].rev = log'[k].before.row[p].rev + 1
             /\ log'[k].after.row[p].rev <= tags'.row[p].rev
             /\ log'[k].after.row[p].rev >= base[p].rev =>
                  /\ log'[k].after.row[p].rev # base[p].rev
                  /\ log'[k].before.row[p].input.at \in {0, base[p].at}
  <2>1. CASE k \in Edited(p) /\ log'[k] = log[k]
    <3>1. /\ k \in DOMAIN log /\ tags'.row[p].rev \in {tags.row[p].rev, tags.row[p].rev + 1}
      BY <1>2, <1>6, <2>1
    <3>2. /\ log[k].after.row[p].rev = log[k].before.row[p].rev + 1
          /\ log[k].after.row[p].rev <= tags.row[p].rev
          /\ log[k].after.row[p].rev >= base[p].rev =>
               /\ log[k].after.row[p].rev # base[p].rev
               /\ log[k].before.row[p].input.at \in {0, base[p].at}
      BY <2>1 DEF RowInv
    <3>3. log[k].after.row[p].rev <= tags'.row[p].rev
      BY <1>1, <3>1, <3>2
    <3>4. QED BY <2>1, <3>2, <3>3
  <2>2. CASE /\ tags'.row[p].rev = tags.row[p].rev + 1
             /\ log'[k].before.row[p] = tags.row[p] /\ log'[k].after.row[p] = tags'.row[p]
    <3>1. base[p].rev <= tags.row[p].rev /\ tags.row[p].input.at \in {0, base[p].at}
      BY DEF RowInv
    <3>2. QED BY <1>1, <2>2, <3>1
  <2>3. QED BY <1>5, <2>1, <2>2
<1>9. ASSUME NEW k \in Edited(p)', NEW j \in Edited(p)',
             log'[k].after.row[p].rev = log'[j].after.row[p].rev
      PROVE  k = j
  <2>1. k \in DOMAIN log' /\ j \in DOMAIN log'
    BY DEF Edited, Open
  <2>2. ASSUME NEW x \in Edited(p)', x \notin Edited(p), NEW y \in Edited(p), log'[y] = log[y]
        PROVE  log'[x].after.row[p].rev # log'[y].after.row[p].rev
    <3>1. log'[x].after.row[p].rev = tags.row[p].rev + 1
      BY <1>5, <2>2
    <3>2. log[y].after.row[p].rev <= tags.row[p].rev /\ log[y].after.row[p].rev \in Nat
      BY <1>1, <1>6 DEF RowInv
    <3>3. QED BY <1>1, <2>2, <3>1, <3>2
  <2>3. CASE k \in Edited(p) /\ j \in Edited(p)
    BY <1>5, <1>6, <1>9, <2>3 DEF RowInv
  <2>4. CASE k \notin Edited(p) /\ j \notin Edited(p)
    BY <1>4, <1>5, <2>1, <2>4
  <2>5. CASE k \in Edited(p) /\ j \notin Edited(p)
    BY <1>5, <1>6, <1>9, <2>2, <2>5
  <2>6. CASE k \notin Edited(p) /\ j \in Edited(p)
    BY <1>5, <1>6, <1>9, <2>2, <2>6
  <2>7. QED BY <2>3, <2>4, <2>5, <2>6
<1>10. QED BY <1>7, <1>8, <1>9 DEF RowInv

LEMMA UndoKeepsRow ==
  ASSUME TagsInv, NEW n \in DOMAIN log, Undo(n), NEW base \in Bases, NEW p \in Paper,
         RowInv(base, p), source' = source
  PROVE  RowInv(base, p)'
<1>1. /\ tags.row[p].rev \in Nat /\ base[p].rev \in Nat /\ base[p].at \in Nat
      /\ \A k \in DOMAIN log : log[k].after.row[p].rev \in Nat /\ log[k].before.row[p].rev \in Nat
  BY RowTypes DEF Bases
<1>2. /\ tags'.row[p] = IF log[n].before.row[p] # log[n].after.row[p]
                        THEN log[n].before.row[p] ELSE tags.row[p]
      /\ log[n].before.row[p] # log[n].after.row[p] => tags.row[p] = log[n].after.row[p]
  BY UndoParts
<1>3. /\ \A j \in DOMAIN log : log'[j].before = log[j].before /\ log'[j].after = log[j].after
      /\ n \in Open /\ Open' = Open \ {n}
  BY UndoLog
<1>4. \A k \in Edited(p)' : /\ k \in Edited(p) /\ k # n
                            /\ log'[k].before = log[k].before /\ log'[k].after = log[k].after
  BY <1>3 DEF Edited, Open
<1>5. \A k \in Edited(p) : k \in DOMAIN log
  BY DEF Edited, Open
<1>6. CASE log[n].before.row[p] = log[n].after.row[p]
  BY <1>2, <1>4, <1>6 DEF RowInv
<1>7. CASE log[n].before.row[p] # log[n].after.row[p]
  <2>1. n \in Edited(p) /\ tags.row[p] = log[n].after.row[p] /\ tags'.row[p] = log[n].before.row[p]
    BY <1>2, <1>3, <1>7 DEF Edited
  <2>2. /\ tags'.row[p].rev + 1 = tags.row[p].rev /\ tags'.row[p].rev \in Nat
        /\ base[p].rev <= tags'.row[p].rev
        /\ tags'.row[p].input.at \in {0, base[p].at}
    BY <1>1, <2>1 DEF RowInv
  <2>3. \A k \in Edited(p)' : log[k].after.row[p].rev <= tags'.row[p].rev
    BY <1>1, <1>4, <1>5, <2>1, <2>2 DEF RowInv
  <2>4. QED BY <1>4, <2>2, <2>3 DEF RowInv
<1>8. QED BY <1>6, <1>7

(* The end of a run makes its own revision and version the base. *)
LEMMA ApplyKeepsRow ==
  ASSUME TagsInv, NEW q \in Paper, NEW C \in SUBSET Tag, NEW input \in Input,
         Apply(q, C, input), input.at = source[q], source' = source, source[q] \in Nat,
         NEW base \in Bases, NEW next \in Bases, NEW p \in Paper, RowInv(base, p),
         next[p] = IF p = q THEN [rev |-> tags.row[q].rev + 1, at |-> source[q]] ELSE base[p]
  PROVE  RowInv(next, p)'
<1>1. /\ tags.row[p].rev \in Nat
      /\ \A k \in DOMAIN log : log[k].after.row[p].rev \in Nat /\ log[k].before.row[p].rev \in Nat
  BY RowTypes
<1>2. /\ tags'.row[q] = [rev |-> tags.row[q].rev + 1, input |-> input]
      /\ \A x \in Paper \ {q} : tags'.row[x] = tags.row[x]
      /\ log' = log
  BY ApplyParts
<1>3. Edited(p)' = Edited(p) /\ Edited(p) \subseteq DOMAIN log
  BY <1>2 DEF Edited, Open
<1>4. CASE p = q
  <2>1. next[p].rev = tags.row[p].rev + 1 /\ next[p].at = source[p]
    BY <1>4
  <2>2. tags'.row[p].rev = tags.row[p].rev + 1 /\ tags'.row[p].input.at = source[p]
    BY <1>2, <1>4
  <2>3. QED BY <1>1, <1>2, <1>3, <2>1, <2>2 DEF RowInv
<1>5. CASE p # q
  BY <1>2, <1>3, <1>5 DEF RowInv
<1>6. QED BY <1>4, <1>5

LEMMA OtherKeepsRow ==
  ASSUME UNCHANGED tagVars, NEW base \in Bases, NEW p \in Paper, RowInv(base, p),
         source[p] \in Nat, source'[p] \in Nat, source[p] <= source'[p]
  PROVE  RowInv(base, p)'
<1>1. tags' = tags /\ log' = log /\ Edited(p)' = Edited(p) /\ base[p].at \in Nat
  BY DEF tagVars, Edited, Open, Bases
<1>2. QED BY <1>1 DEF RowInv

(* The items of a paper that take its keywords automatically; what is said of one
   whose result counts: at work it has read what the paper says, and once it has
   ended the paper's base is what the paper says. *)
Local(p) == {i \in Item : item[i].paper = p /\ item[i].method = "local" /\ item[i].status # "none"}
AtWork == {"working", "sent", "answered", "applying"}

Okay(base, i) ==
  /\ run[i].pc \in AtWork => item[i].input = source[item[i].paper]
  /\ item[i].status \in {"done", "stale"} => base[item[i].paper].at = source[item[i].paper]
  /\ run[i].pc = "finishing" /\ run[i].outcome \in {"done", "stale"} =>
       base[item[i].paper].at = source[item[i].paper]

Current(base, p) == \A i \in LastLocal(p) : Okay(base, i)

(* The change is with the items: not pending, or the dispatcher has only to clear it. *)
Served(p) ==
  \/ pending[p] = 0
  \/ intake.pc = "created" /\ intake.paper = p /\ intake.stamp = source[p]

ItemInv(base, i) ==
  /\ item[i].status = "none" => run[i] = Idle
  /\ item[i].basis <= source[item[i].paper]
  /\ run[i].had.at <= base[item[i].paper].at
  /\ run[i].pc \in {"claimed"} \cup AtWork => item[i].status = "running"

(* An active item of what the paper says now: no item since has read anything else. *)
Heard(base) ==
  \A p \in Paper : \A i, j \in Local(p) :
    i <= j /\ item[i].status \in Active /\ item[i].basis = source[p] => Okay(base, j)

(* What the dispatcher has in hand is still pending, in that version or a later one. *)
InHand ==
  /\ intake.stamp <= source[intake.paper]
  /\ intake.pc # "none" => pending[intake.paper] # 0

QueueInv(base) ==
  /\ \A p \in Paper : pending[p] \in {0, source[p]}
  /\ InHand
  /\ \A i \in Item : ItemInv(base, i)
  /\ \A i, j \in Item : i <= j /\ item[i].status = "none" => item[j].status = "none"
  /\ Heard(base)
  /\ \A p \in Paper \ skipped : Served(p) => Current(base, p)

RowsInv(base) == \A p \in Paper : RowInv(base, p)

(* What most steps do to an item, if anything. *)
Steady(base, next, i) ==
  /\ (item'[i].status = "none") = (item[i].status = "none")
  /\ item[i].status # "none" => item'[i].paper = item[i].paper /\ item'[i].method = item[i].method
  /\ item'[i].basis \in {item[i].basis, 0}
  /\ item'[i].status \in Active => item[i].status \in Active
  /\ ItemInv(next, i)'
  /\ i \in Local(item[i].paper) /\ Okay(base, i) => Okay(next, i)'

(* The base of a paper changes to what the paper says, if at all. *)
Follows(base, next) ==
  /\ base \in Bases /\ next \in Bases
  /\ \A p \in Paper : next[p].at \in {base[p].at, source[p]} /\ base[p].at <= next[p].at

LEMMA BaseFollows ==
  ASSUME TypeInv, NEW base \in Bases, RowsInv(base)
  PROVE  Follows(base, base)
  BY DEF Follows, Bases

LEMMA ItemTypes ==
  ASSUME TypeInv, NEW i \in Item
  PROVE  /\ item[i] \in ItemRow /\ run[i] \in RunRow /\ item[i].paper \in Paper
         /\ item[i].basis \in Nat /\ source[item[i].paper] \in Nat /\ run[i].had.at \in Nat
         /\ i \in Nat
  BY KeywordsAssumption DEF TypeInv, QueueTypes, ItemRow, RunRow, Input, Item

LEMMA UnmovedIsSteady ==
  ASSUME TypeInv, source' = source, NEW base, NEW next, Follows(base, next), NEW i \in Item,
         ItemInv(base, i), item'[i] = item[i], run'[i] = run[i]
  PROVE  Steady(base, next, i)
<1> DEFINE p == item[i].paper
<1>1. /\ p \in Paper /\ run[i].had.at \in Nat /\ source[p] \in Nat
  BY ItemTypes
<1>2. /\ base[p].at \in Nat /\ next[p].at \in Nat
      /\ next[p].at \in {base[p].at, source[p]} /\ base[p].at <= next[p].at
  BY <1>1 DEF Follows, Bases
<1>3. ItemInv(next, i)'
  BY <1>1, <1>2 DEF ItemInv
<1>4. Okay(base, i) => Okay(next, i)'
  BY <1>2 DEF Okay
<1>5. QED BY <1>3, <1>4 DEF Steady

LEMMA SteadyKeepsQueue ==
  ASSUME TypeInv, NEW base, NEW next, QueueInv(base), \A i \in Item : Steady(base, next, i),
         source' = source,
         \A p \in Paper : pending'[p] \in {0, source[p]},
         InHand',
         \A p \in Paper \ skipped' : Served(p)' => Current(base, p)
  PROVE  QueueInv(next)'
<1>1. ASSUME NEW p \in Paper PROVE Local(p)' = Local(p) /\ Local(p) \subseteq Item
  BY DEF Steady, Local
<1>2. ASSUME NEW p \in Paper PROVE LastLocal(p)' = LastLocal(p) /\ LastLocal(p) \subseteq Local(p)
  <2>1. /\ LastLocal(p) = {i \in Local(p) : \A j \in Local(p) : j <= i}
        /\ LastLocal(p)' = {i \in Local(p)' : \A j \in Local(p)' : j <= i}
    BY DEF LastLocal, Local
  <2>2. QED BY <1>1, <2>1
<1>3. ASSUME NEW p \in Paper, NEW i \in Local(p), Okay(base, i) PROVE Okay(next, i)'
  BY <1>3 DEF Steady, Local
<1>4. Heard(next)'
  <2> SUFFICES ASSUME NEW p \in Paper, NEW i \in Local(p), NEW j \in Local(p),
                      i <= j, item'[i].status \in Active, item'[i].basis = source[p]
               PROVE  Okay(next, j)'
    BY <1>1 DEF Heard
  <2>1. item[i].status \in Active /\ item'[i].basis \in {item[i].basis, 0}
    BY <1>1 DEF Steady
  <2>2. source[p] # 0
    BY DEF TypeInv, QueueTypes
  <2>3. Okay(base, j)
    BY <2>1, <2>2 DEF QueueInv, Heard
  <2>4. QED BY <1>3, <2>3
<1>5. \A p \in Paper \ skipped' : Served(p)' => Current(next, p)'
  BY <1>2, <1>3 DEF Current
<1>6. \A i, j \in Item : i <= j /\ item'[i].status = "none" => item'[j].status = "none"
  BY DEF QueueInv, Steady
<1>7. \A i \in Item : ItemInv(next, i)'
  BY DEF Steady
<1>8. QED BY <1>4, <1>5, <1>6, <1>7 DEF QueueInv

(* A step of a run. *)
LEMMA OthersAreSteady ==
  ASSUME TypeInv, source' = source, NEW base, NEW next, Follows(base, next),
         QueueInv(base), NEW i \in Item, Steady(base, next, i),
         \A j \in Item \ {i} : item'[j] = item[j] /\ run'[j] = run[j]
  PROVE  \A j \in Item : Steady(base, next, j)
<1> SUFFICES ASSUME NEW j \in Item, j # i PROVE Steady(base, next, j)
  OBVIOUS
<1>1. item'[j] = item[j] /\ run'[j] = run[j] /\ ItemInv(base, j)
  BY DEF QueueInv
<1>2. QED BY <1>1, UnmovedIsSteady

LEMMA RunParts ==
  ASSUME TypeInv, NEW i \in Item
  PROVE  /\ \A pc : Goto(i, pc) => /\ run'[i].pc = pc /\ run'[i].had = run[i].had
                                   /\ run'[i].outcome = run[i].outcome
                                   /\ \A j \in Item \ {i} : run'[j] = run[j]
         /\ \A o : Ending(i, o) => /\ run'[i].pc = "finishing" /\ run'[i].had.at = 0
                                   /\ run'[i].outcome = o
                                   /\ \A j \in Item \ {i} : run'[j] = run[j]
         /\ Done(i) => /\ run'[i].pc = "done" /\ run'[i].had.at = 0
                       /\ \A j \in Item \ {i} : run'[j] = run[j]
<1>1. run \in [Item -> RunRow] /\ Idle \in RunRow /\ Idle.had.at = 0
  BY IdleRow DEF TypeInv, QueueTypes
<1>2. \A pc : [run[i] EXCEPT !.pc = pc].pc = pc /\ [run[i] EXCEPT !.pc = pc].had = run[i].had
              /\ [run[i] EXCEPT !.pc = pc].outcome = run[i].outcome
  BY <1>1 DEF RunRow
<1>3. \A o : /\ [Idle EXCEPT !.pc = "finishing", !.outcome = o].pc = "finishing"
             /\ [Idle EXCEPT !.pc = "finishing", !.outcome = o].had = Idle.had
             /\ [Idle EXCEPT !.pc = "finishing", !.outcome = o].outcome = o
  BY DEF Idle
<1>4. [Idle EXCEPT !.pc = "done"].pc = "done" /\ [Idle EXCEPT !.pc = "done"].had = Idle.had
  BY DEF Idle
<1>5. ASSUME NEW x, run' = [run EXCEPT ![i] = x]
      PROVE  run'[i] = x /\ \A j \in Item \ {i} : run'[j] = run[j]
  BY <1>1, <1>5
<1>6. ASSUME NEW pc, Goto(i, pc)
      PROVE  /\ run'[i].pc = pc /\ run'[i].had = run[i].had /\ run'[i].outcome = run[i].outcome
             /\ \A j \in Item \ {i} : run'[j] = run[j]
  <2> DEFINE x == [run[i] EXCEPT !.pc = pc]
  <2>1. run' = [run EXCEPT ![i] = x]
    BY <1>6 DEF Goto
  <2>2. x.pc = pc /\ x.had = run[i].had /\ x.outcome = run[i].outcome
    BY <1>2
  <2> HIDE DEF x
  <2>3. QED BY <1>5, <2>1, <2>2
<1>7. ASSUME NEW o, Ending(i, o)
      PROVE  /\ run'[i].pc = "finishing" /\ run'[i].had.at = 0 /\ run'[i].outcome = o
             /\ \A j \in Item \ {i} : run'[j] = run[j]
  <2> DEFINE x == [Idle EXCEPT !.pc = "finishing", !.outcome = o]
  <2>1. run' = [run EXCEPT ![i] = x]
    BY <1>7 DEF Ending
  <2>2. x.pc = "finishing" /\ x.had = Idle.had /\ x.outcome = o
    BY <1>3
  <2> HIDE DEF x
  <2>3. QED BY <1>1, <1>5, <2>1, <2>2
<1>8. ASSUME Done(i)
      PROVE  /\ run'[i].pc = "done" /\ run'[i].had.at = 0
             /\ \A j \in Item \ {i} : run'[j] = run[j]
  <2> DEFINE x == [Idle EXCEPT !.pc = "done"]
  <2>1. run' = [run EXCEPT ![i] = x]
    BY <1>8 DEF Done
  <2>2. x.pc = "done" /\ x.had = Idle.had
    BY <1>4
  <2> HIDE DEF x
  <2>3. QED BY <1>1, <1>5, <2>1, <2>2
<1>9. QED BY <1>6, <1>7, <1>8

(* An ended item whose outcome counts is one whose run had that outcome. *)
LEMMA EndedIsSteady ==
  ASSUME TypeInv, source' = source, NEW base, NEW next, Follows(base, next),
         NEW i \in Item, item[i].status # "none", NEW status \in Terminal,
         item'[i] = Ended(item[i], status), run'[i].pc \notin {"claimed"} \cup AtWork,
         run'[i].had.at <= next[item[i].paper].at,
         i \in Local(item[i].paper) /\ Okay(base, i) =>
           /\ status \in {"done", "stale"} => next[item[i].paper].at = source[item[i].paper]
           /\ run'[i].pc = "finishing" /\ run'[i].outcome \in {"done", "stale"} =>
                next[item[i].paper].at = source[item[i].paper]
  PROVE  Steady(base, next, i)
<1>1. /\ item'[i].status = status /\ item'[i].paper = item[i].paper
      /\ item'[i].method = item[i].method /\ item'[i].basis = 0
  BY EndedRow, ItemTypes
<1>2. status \notin {"none"} \cup Active
  BY DEF Terminal, Active
<1>3. source[item[i].paper] \in Nat
  BY ItemTypes
<1>4. ItemInv(next, i)'
  BY <1>1, <1>2, <1>3 DEF ItemInv
<1>5. i \in Local(item[i].paper) /\ Okay(base, i) => Okay(next, i)'
  BY <1>1 DEF Okay
<1>6. QED BY <1>1, <1>2, <1>4, <1>5 DEF Steady

(* A run that goes on, or ends, without a word to its item. *)
LEMMA RunIsSteady ==
  ASSUME TypeInv, source' = source, NEW base, NEW next, Follows(base, next),
         NEW i \in Item, item[i].status # "none", ItemInv(base, i), item'[i] = item[i],
         run'[i].pc \in {"claimed"} \cup AtWork => item[i].status = "running",
         run'[i].had.at <= next[item[i].paper].at,
         i \in Local(item[i].paper) /\ Okay(base, i) =>
           /\ run'[i].pc \in AtWork => item[i].input = source[item[i].paper]
           /\ run'[i].pc = "finishing" /\ run'[i].outcome \in {"done", "stale"} =>
                next[item[i].paper].at = source[item[i].paper]
  PROVE  Steady(base, next, i)
<1> DEFINE p == item[i].paper
<1>1. p \in Paper /\ source[p] \in Nat
  BY ItemTypes
<1>2. /\ base[p].at \in Nat /\ next[p].at \in {base[p].at, source[p]}
      /\ base[p].at <= next[p].at
  BY <1>1 DEF Follows, Bases
<1>3. ItemInv(next, i)'
  BY DEF ItemInv
<1>4. i \in Local(item[i].paper) /\ Okay(base, i) => Okay(next, i)'
  BY <1>2 DEF Okay
<1>5. QED BY <1>3, <1>4 DEF Steady

LEMMA RunHasItem ==
  ASSUME TypeInv, NEW base, RowsInv(base), Follows(base, base), QueueInv(base), NEW i \in Item
  PROVE  /\ ItemInv(base, i)
         /\ run[i].pc # "none" => item[i].status # "none"
         /\ run[i].had.at \in Nat /\ base[item[i].paper].at \in Nat
         /\ run[i].had.at <= base[item[i].paper].at
         /\ base[item[i].paper].at <= source[item[i].paper]
         /\ source[item[i].paper] \in Nat
<1>1. ItemInv(base, i) /\ item[i].paper \in Paper
  BY ItemTypes DEF QueueInv
<1>2. base[item[i].paper].at \in Nat /\ base[item[i].paper].at <= source[item[i].paper]
  BY <1>1 DEF Follows, Bases, RowsInv, RowInv
<1>3. QED BY <1>1, <1>2, ItemTypes, IdleRow DEF ItemInv

(* What is asked of a step of the run of an item. *)
Moves(base, next, i) ==
  /\ source' = source /\ Steady(base, next, i)
  /\ \A j \in Item \ {i} : item'[j] = item[j] /\ run'[j] = run[j]

LEMMA EndingMoves ==
  ASSUME TypeInv, NEW base, RowsInv(base), Follows(base, base), QueueInv(base), NEW i \in Item,
         NEW o, Ending(i, o), run[i].pc # "none", item' = item, source' = source,
         i \in Local(item[i].paper) /\ Okay(base, i) /\ o \in {"done", "stale"} =>
           base[item[i].paper].at = source[item[i].paper]
  PROVE  Moves(base, base, i)
<1>1. /\ run'[i].pc = "finishing" /\ run'[i].had.at = 0 /\ run'[i].outcome = o
      /\ \A j \in Item \ {i} : run'[j] = run[j]
  BY RunParts
<1>2. run'[i].pc \notin {"claimed"} \cup AtWork
  BY <1>1 DEF AtWork
<1>3. Steady(base, base, i)
  BY <1>1, <1>2, RunHasItem, RunIsSteady
<1>4. QED BY <1>1, <1>3 DEF Moves

LEMMA GotoMoves ==
  ASSUME TypeInv, NEW base, RowsInv(base), Follows(base, base), QueueInv(base), NEW i \in Item,
         NEW pc, Goto(i, pc), item[i].status # "none", item' = item, source' = source,
         pc # "finishing", pc \in {"claimed"} \cup AtWork => item[i].status = "running",
         i \in Local(item[i].paper) /\ Okay(base, i) /\ pc \in AtWork =>
           item[i].input = source[item[i].paper]
  PROVE  Moves(base, base, i)
<1>1. /\ run'[i].pc = pc /\ run'[i].had = run[i].had
      /\ \A j \in Item \ {i} : run'[j] = run[j]
  BY RunParts
<1>2. Steady(base, base, i)
  BY <1>1, RunHasItem, RunIsSteady
<1>3. QED BY <1>1, <1>2 DEF Moves

LEMMA ClaimMoves ==
  ASSUME TypeInv, NEW base, RowsInv(base), Follows(base, base), QueueInv(base), NEW i \in Item,
         Claim(i)
  PROVE  Moves(base, base, i)
<1>1. /\ source' = source /\ run[i].pc = "submitted" /\ item \in [Item -> ItemRow]
      /\ run \in [Item -> RunRow]
  BY DEF Claim, NothingElse, TypeInv, QueueTypes
<1>2. item[i].status # "none" /\ ItemInv(base, i)
  BY <1>1, RunHasItem
<1>3. CASE Done(i) /\ item' = item
  <2>1. run'[i].pc = "done" /\ run'[i].had.at = 0 /\ \A j \in Item \ {i} : run'[j] = run[j]
    BY <1>3, RunParts
  <2>2. Steady(base, base, i)
    BY <1>1, <1>2, <1>3, <2>1, RunHasItem, RunIsSteady DEF AtWork
  <2>3. QED BY <1>1, <1>3, <2>1, <2>2 DEF Moves
<1>4. CASE Done(i) /\ Inherits(i) /\ item' = [item EXCEPT ![i] = Ended(@, item[@.link].status)]
  <2> DEFINE status == item[item[i].link].status
  <2>1. run'[i].pc = "done" /\ run'[i].had.at = 0 /\ \A j \in Item \ {i} : run'[j] = run[j]
    BY <1>4, RunParts
  <2>2. status \in Terminal /\ status \notin {"done", "stale"}
    BY <1>4 DEF Inherits, Terminal
  <2>3. item'[i] = Ended(item[i], status) /\ \A j \in Item \ {i} : item'[j] = item[j]
    BY <1>1, <1>4
  <2> HIDE DEF status
  <2>4. Steady(base, base, i)
    BY <1>1, <1>2, <2>1, <2>2, <2>3, RunHasItem, EndedIsSteady DEF AtWork
  <2>5. QED BY <1>1, <2>1, <2>3, <2>4 DEF Moves
<1>5. CASE /\ item[i].status = "queued" /\ item' = [item EXCEPT ![i].status = "running"]
           /\ run' = [run EXCEPT ![i].pc = "claimed", ![i].rev = tags.row[item[i].paper].rev,
                                 ![i].had = tags.row[item[i].paper].input]
  <2> DEFINE p == item[i].paper
  <2>1. /\ item'[i].status = "running" /\ item'[i].paper = p
        /\ item'[i].method = item[i].method /\ item'[i].basis = item[i].basis
        /\ item'[i].input = item[i].input /\ \A j \in Item \ {i} : item'[j] = item[j]
    BY <1>1, <1>5 DEF ItemRow
  <2>2. /\ run'[i].pc = "claimed" /\ run'[i].had = tags.row[p].input
        /\ \A j \in Item \ {i} : run'[j] = run[j]
    BY <1>1, <1>5 DEF RunRow
  <2>3. p \in Paper
    BY ItemTypes
  <2>4. run'[i].had.at <= base[p].at
    BY <2>2, <2>3, RunHasItem DEF RowsInv, RowInv
  <2>5. ItemInv(base, i)'
    BY <1>1, <1>2, <2>1, <2>2, <2>4 DEF ItemInv
  <2>6. Okay(base, i)'
    BY <2>1, <2>2 DEF Okay, AtWork
  <2>7. Steady(base, base, i)
    BY <1>2, <1>5, <2>1, <2>5, <2>6 DEF Steady, Active
  <2>8. QED BY <1>1, <2>1, <2>2, <2>7 DEF Moves
<1>6. QED BY <1>3, <1>4, <1>5 DEF Claim

LEMMA ReadSourceMoves ==
  ASSUME TypeInv, NEW base, RowsInv(base), Follows(base, base), QueueInv(base), NEW i \in Item,
         ReadSource(i)
  PROVE  Moves(base, base, i)
<1> DEFINE p == item[i].paper
           v == source[p]
<1>1. /\ source' = source /\ run[i].pc = "claimed" /\ item \in [Item -> ItemRow]
      /\ run \in [Item -> RunRow]
  BY DEF ReadSource, Refused, OnlyRun, NothingElse, TypeInv, QueueTypes
<1>2. item[i].status = "running" /\ ItemInv(base, i)
  BY <1>1, RunHasItem DEF ItemInv
<1>3. CASE Refused(i)
  BY <1>1, <1>3, EndingMoves DEF Refused, OnlyRun
<1>4. CASE item[i].method = "model" /\ Ending(i, "stale") /\ OnlyRun
  BY <1>1, <1>4, EndingMoves DEF OnlyRun, Local
<1>5. CASE /\ item' = [item EXCEPT ![i].input = v]
           /\ \/ Goto(i, "working") \/ Goto(i, "applying")
              \/ run[i].had = [method |-> item[i].method, at |-> v] /\ Ending(i, "done")
  <2>1. /\ item'[i].status = "running" /\ item'[i].paper = p /\ item'[i].input = v
        /\ item'[i].method = item[i].method /\ item'[i].basis = item[i].basis
        /\ \A j \in Item \ {i} : item'[j] = item[j]
    BY <1>1, <1>2, <1>5 DEF ItemRow
  <2>2. /\ run'[i].had.at \in {run[i].had.at, 0} /\ \A j \in Item \ {i} : run'[j] = run[j]
        /\ run'[i].pc = "finishing" => run[i].had.at = v
    BY <1>5, RunParts
  <2>3. ItemInv(base, i)'
    BY <1>1, <1>2, <2>1, <2>2, RunHasItem DEF ItemInv
  <2>4. Okay(base, i)'
    <3>1. run[i].had.at = v => base[p].at = v
      BY RunHasItem
    <3>2. run'[i].pc = "finishing" => base[p].at = v
      BY <2>2, <3>1
    <3> HIDE DEF p, v
    <3>3. v = source[p]
      BY DEF v
    <3>4. QED BY <1>1, <2>1, <3>2, <3>3 DEF Okay
  <2>5. Steady(base, base, i)
    BY <1>2, <2>1, <2>3, <2>4 DEF Steady, Active
  <2>6. QED BY <1>1, <2>1, <2>2, <2>5 DEF Moves
<1>6. QED BY <1>3, <1>4, <1>5 DEF ReadSource

LEMMA SendMoves ==
  ASSUME TypeInv, NEW base, RowsInv(base), Follows(base, base), QueueInv(base), NEW i \in Item,
         Send(i)
  PROVE  Moves(base, base, i)
<1>1. /\ source' = source /\ run[i].pc = "working" /\ item \in [Item -> ItemRow]
      /\ item[i].method = "model"
  BY DEF Send, Refused, OnlyRun, NothingElse, TypeInv, QueueTypes
<1>2. item[i].status = "running" /\ ItemInv(base, i)
  BY <1>1, RunHasItem DEF ItemInv, AtWork
<1>3. CASE \E o \in {"cancelled", "interrupted"} : Ending(i, o) /\ OnlyRun
  BY <1>1, <1>3, EndingMoves DEF OnlyRun, NothingElse
<1>4. CASE item' = [item EXCEPT ![i].sent = TRUE] /\ Goto(i, "sent")
  <2>1. /\ item'[i].status = "running" /\ item'[i].paper = item[i].paper
        /\ item'[i].method = item[i].method /\ item'[i].basis = item[i].basis
        /\ item'[i].input = item[i].input /\ \A j \in Item \ {i} : item'[j] = item[j]
    BY <1>1, <1>2, <1>4 DEF ItemRow
  <2>2. /\ run'[i].pc = "sent" /\ run'[i].had = run[i].had
        /\ \A j \in Item \ {i} : run'[j] = run[j]
    BY <1>4, RunParts
  <2>3. ItemInv(base, i)'
    BY <1>1, <1>2, <2>1, <2>2 DEF ItemInv
  <2>4. Steady(base, base, i)
    BY <1>1, <1>2, <2>1, <2>3 DEF Steady, Active, Local
  <2>5. QED BY <1>1, <2>1, <2>2, <2>4 DEF Moves
<1>5. QED BY <1>3, <1>4 DEF Send, Refused

LEMMA AnswerMoves ==
  ASSUME TypeInv, NEW base, RowsInv(base), Follows(base, base), QueueInv(base), NEW i \in Item,
         Answer(i)
  PROVE  Moves(base, base, i)
<1>1. /\ source' = source /\ run[i].pc = "sent" /\ item' = item
  BY DEF Answer, OnlyRun, NothingElse
<1>2. item[i].status = "running"
  BY <1>1, RunHasItem DEF ItemInv, AtWork
<1>3. CASE Goto(i, "answered")
  BY <1>1, <1>2, <1>3, GotoMoves DEF Okay, AtWork
<1>4. CASE \E o \in {"interrupted", "failed"} : Ending(i, o)
  BY <1>1, <1>4, EndingMoves
<1>5. QED BY <1>3, <1>4 DEF Answer

(* An automatic run never finds that the source has changed as long as its result
   counts. *)
LEMMA CompareMoves ==
  ASSUME TypeInv, NEW base, RowsInv(base), Follows(base, base), QueueInv(base), NEW i \in Item,
         Compare(i)
  PROVE  Moves(base, base, i)
<1>1. /\ source' = source /\ run[i].pc \in AtWork /\ item' = item
  BY DEF Compare, Extracted, Refused, OnlyRun, NothingElse, AtWork
<1>2. item[i].status = "running"
  BY <1>1, RunHasItem DEF ItemInv
<1>3. run[i].pc # "none"
  BY <1>1 DEF AtWork
<1>4. CASE Refused(i)
  BY <1>1, <1>3, <1>4, EndingMoves DEF Refused
<1>5. CASE source[item[i].paper] # item[i].input /\ Ending(i, "stale")
  BY <1>1, <1>3, <1>5, EndingMoves DEF Okay
<1>6. CASE source[item[i].paper] = item[i].input /\ Goto(i, "applying")
  BY <1>1, <1>2, <1>6, GotoMoves
<1>7. QED BY <1>4, <1>5, <1>6 DEF Compare

(* The end of a run that does not apply its candidates, and one that does. *)
LEMMA RefusedRunMoves ==
  ASSUME TypeInv, NEW base, RowsInv(base), Follows(base, base), QueueInv(base), NEW i \in Item,
         run[i].pc = "applying", source' = source, item' = item,
         \/ \E o \in {"cancelled", "overtaken"} : Ending(i, o)
         \/ source[item[i].paper] # item[i].input /\ Ending(i, "stale")
  PROVE  Moves(base, base, i)
<1>1. run[i].pc # "none" /\ run[i].pc \in AtWork
  BY DEF AtWork
<1>2. CASE \E o \in {"cancelled", "overtaken"} : Ending(i, o)
  BY <1>1, <1>2, EndingMoves
<1>3. CASE source[item[i].paper] # item[i].input /\ Ending(i, "stale")
  BY <1>1, <1>3, EndingMoves DEF Okay
<1>4. QED BY <1>2, <1>3

LEMMA AppliedMoves ==
  ASSUME TypeInv, NEW base, NEW next, RowsInv(base), Follows(base, base), Follows(base, next),
         QueueInv(base), NEW i \in Item,
         next[item[i].paper].at = source[item[i].paper], run[i].pc = "applying", source' = source,
         item' = [item EXCEPT ![i] = Ended(@, "done")], Ending(i, "done")
  PROVE  Moves(base, next, i)
<1>1. /\ run'[i].pc = "finishing" /\ run'[i].had.at = 0
      /\ \A j \in Item \ {i} : run'[j] = run[j]
  BY RunParts
<1>2. item'[i] = Ended(item[i], "done") /\ \A j \in Item \ {i} : item'[j] = item[j]
  BY DEF TypeInv, QueueTypes
<1>3. "done" \in Terminal /\ run'[i].pc \notin {"claimed"} \cup AtWork
  BY <1>1 DEF Terminal, AtWork
<1>4. Steady(base, next, i)
  BY <1>1, <1>2, <1>3, RunHasItem, EndedIsSteady
<1>5. QED BY <1>1, <1>2, <1>4 DEF Moves

LEMMA FinishMoves ==
  ASSUME TypeInv, NEW base, RowsInv(base), Follows(base, base), QueueInv(base), NEW i \in Item,
         Finish(i)
  PROVE  Moves(base, base, i)
<1>1. /\ source' = source /\ run[i].pc = "finishing" /\ run[i].pc # "none"
      /\ item \in [Item -> ItemRow] /\ run[i].outcome \in Terminal
  BY DEF Finish, NothingElse, TypeInv, QueueTypes, RunRow
<1>2. /\ run'[i].pc = "done" /\ run'[i].had.at = 0 /\ \A j \in Item \ {i} : run'[j] = run[j]
      /\ run'[i].pc \notin {"claimed"} \cup AtWork
  BY RunParts DEF Finish, AtWork
<1>3. CASE item' = item
  <2>1. Steady(base, base, i)
    BY <1>1, <1>2, <1>3, RunHasItem, RunIsSteady
  <2>2. QED BY <1>1, <1>2, <1>3, <2>1 DEF Moves
<1>4. CASE item' = [item EXCEPT ![i] = Ended(@, run[i].outcome)]
  <2>1. item'[i] = Ended(item[i], run[i].outcome) /\ \A j \in Item \ {i} : item'[j] = item[j]
    BY <1>1, <1>4
  <2>2. Okay(base, i) /\ run[i].outcome \in {"done", "stale"} =>
          base[item[i].paper].at = source[item[i].paper]
    BY <1>1 DEF Okay
  <2>3. Steady(base, base, i)
    BY <1>1, <1>2, <2>1, <2>2, RunHasItem, EndedIsSteady
  <2>4. QED BY <1>1, <1>2, <2>1, <2>3 DEF Moves
<1>5. QED BY <1>3, <1>4 DEF Finish

LEMMA WriteFailsMoves ==
  ASSUME TypeInv, NEW base, RowsInv(base), Follows(base, base), QueueInv(base), NEW i \in Item,
         WriteFails(i)
  PROVE  Moves(base, base, i)
<1>1. source' = source /\ item' = item /\ run[i].pc # "none"
  BY DEF WriteFails
<1>2. CASE Ending(i, "failed")
  BY <1>1, <1>2, EndingMoves
<1>3. CASE Goto(i, "broken")
  BY <1>1, <1>3, RunHasItem, GotoMoves DEF AtWork
<1>4. QED BY <1>2, <1>3 DEF WriteFails

(* The steps that others take on an item. *)
LEMMA DispatchMoves ==
  ASSUME TypeInv, NEW base, RowsInv(base), Follows(base, base), QueueInv(base), NEW i \in Item,
         Dispatch(i)
  PROVE  Moves(base, base, i)
<1>1. source' = source /\ item' = item /\ Goto(i, "submitted")
  BY DEF Dispatch, Goto
<1>2. i \in Queued
  BY FirstIsLeast DEF Dispatch, Queued
<1>3. item[i].status # "none"
  BY <1>2 DEF Queued
<1>4. QED BY <1>1, <1>3, GotoMoves DEF AtWork

LEMMA ReapMoves ==
  ASSUME TypeInv, NEW base, RowsInv(base), Follows(base, base), QueueInv(base), NEW i \in Item,
         Reap(i)
  PROVE  Moves(base, base, i)
<1>1. /\ source' = source /\ run[i].pc # "none"
      /\ item \in [Item -> ItemRow] /\ run \in [Item -> RunRow]
  BY DEF Reap, TypeInv, QueueTypes
<1>2. /\ run'[i].pc = "none" /\ run'[i].had.at = 0 /\ \A j \in Item \ {i} : run'[j] = run[j]
      /\ run'[i].pc \notin {"claimed"} \cup AtWork
  BY <1>1, IdleRow DEF Reap, AtWork
<1>3. CASE item' = item
  <2>1. Steady(base, base, i)
    BY <1>1, <1>2, <1>3, RunHasItem, RunIsSteady
  <2>2. QED BY <1>1, <1>2, <1>3, <2>1 DEF Moves
<1>4. CASE item' = [item EXCEPT ![i] = Ended(@, "failed")]
  <2>1. item'[i] = Ended(item[i], "failed") /\ \A j \in Item \ {i} : item'[j] = item[j]
    BY <1>1, <1>4
  <2>2. Steady(base, base, i)
    BY <1>1, <1>2, <2>1, RunHasItem, EndedIsSteady DEF Terminal
  <2>3. QED BY <1>1, <1>2, <2>1, <2>2 DEF Moves
<1>5. QED BY <1>3, <1>4 DEF Reap

LEMMA CancelMoves ==
  ASSUME TypeInv, NEW base, RowsInv(base), Follows(base, base), QueueInv(base), NEW i \in Item,
         Cancel(i)
  PROVE  Moves(base, base, i)
<1>1. /\ source' = source /\ run' = run /\ item \in [Item -> ItemRow]
      /\ item[i].status # "none" /\ item[i].status \in Active /\ ItemInv(base, i)
  BY RunHasItem DEF Cancel, TypeInv, QueueTypes, Active
<1>2. CASE item[i].status = "queued"
  <2>1. item'[i] = Ended(item[i], "cancelled") /\ \A j \in Item \ {i} : item'[j] = item[j]
    BY <1>1, <1>2 DEF Cancel
  <2>2. run'[i].pc \notin {"claimed"} \cup AtWork
    BY <1>1, <1>2 DEF ItemInv
  <2>3. Steady(base, base, i)
    BY <1>1, <2>1, <2>2, RunHasItem, EndedIsSteady DEF Terminal, Okay
  <2>4. QED BY <1>1, <2>1, <2>3 DEF Moves
<1>3. CASE item[i].status # "queued"
  <2>1. /\ item'[i].status = item[i].status /\ item'[i].paper = item[i].paper
        /\ item'[i].method = item[i].method /\ item'[i].basis = item[i].basis
        /\ item'[i].input = item[i].input /\ \A j \in Item \ {i} : item'[j] = item[j]
    BY <1>1, <1>3 DEF Cancel, ItemRow
  <2>2. ItemInv(base, i)'
    BY <1>1, <2>1 DEF ItemInv
  <2>3. Steady(base, base, i)
    BY <1>1, <2>1, <2>2 DEF Steady, Okay
  <2>4. QED BY <1>1, <2>1, <2>3 DEF Moves
<1>4. QED BY <1>2, <1>3

-------------------------------------------------------------------------------
(* The queue. *)
LEMMA MovesKeepQueue ==
  ASSUME TypeInv, NEW base, NEW next, Follows(base, base), Follows(base, next), QueueInv(base),
         NEW i \in Item, Moves(base, next, i), UNCHANGED <<skipped, pending, intake>>
  PROVE  QueueInv(next)'
<1>1. source' = source /\ \A j \in Item : Steady(base, next, j)
  BY OthersAreSteady DEF Moves
<1>2. \A p \in Paper : Served(p)' = Served(p)
  BY <1>1 DEF Served
<1>3. /\ \A p \in Paper : pending'[p] \in {0, source[p]}
      /\ InHand'
      /\ \A p \in Paper \ skipped' : Served(p)' => Current(base, p)
  BY <1>1, <1>2 DEF QueueInv, InHand
<1>4. QED BY <1>1, <1>3, SteadyKeepsQueue

LEMMA StillKeepsQueue ==
  ASSUME TypeInv, NEW base, Follows(base, base), QueueInv(base),
         UNCHANGED <<source, item, run>>,
         \A p \in Paper : pending'[p] \in {0, source[p]},
         InHand',
         \A p \in Paper \ skipped' : Served(p)' => Current(base, p)
  PROVE  QueueInv(base)'
<1>1. \A i \in Item : Steady(base, base, i)
  BY UnmovedIsSteady DEF QueueInv
<1>2. QED BY <1>1, SteadyKeepsQueue

LEMMA TakePendingKeepsQueue ==
  ASSUME TypeInv, NEW base, Follows(base, base), QueueInv(base), NEW p \in Paper, TakePending(p)
  PROVE  QueueInv(base)'
<1>1. /\ UNCHANGED <<skipped, source, pending, item, run>>
      /\ intake'.stamp = source[p] /\ intake'.paper = p /\ source[p] \in Nat
      /\ intake'.pc = "taken" /\ pending[p] # 0
  BY DEF TakePending, QueueInv, TypeInv, QueueTypes
<1>2. \A q \in Paper : Served(q)' => Served(q)
  BY <1>1 DEF Served
<1>3. InHand'
  BY <1>1 DEF InHand
<1>4. QED BY <1>1, <1>2, <1>3, StillKeepsQueue DEF QueueInv

(* The setting decides whether the change of the paper will count as let pass; it
   is pending until then. *)
LEMMA ReadSettingKeepsQueue ==
  ASSUME TypeInv, NEW base, Follows(base, base), QueueInv(base), ReadSetting
  PROVE  QueueInv(base)'
<1> DEFINE p == intake.paper
<1>1. /\ UNCHANGED <<source, pending, item, run>>
      /\ intake'.stamp = intake.stamp /\ intake'.paper = p
      /\ intake'.pc = (IF automatic THEN "read" ELSE "created")
      /\ skipped' = (IF automatic THEN skipped \ {p} ELSE skipped \cup {p})
      /\ pending[p] # 0
  BY DEF ReadSetting, QueueInv, InHand, TypeInv, QueueTypes
<1>2. InHand'
  BY <1>1 DEF QueueInv, InHand
<1>3. ASSUME NEW q \in Paper \ skipped', Served(q)' PROVE q \notin skipped /\ Served(q)
  BY <1>1, <1>3 DEF Served
<1>4. QED BY <1>1, <1>2, <1>3, StillKeepsQueue DEF QueueInv

(* A row that is cleared is still the one that the dispatcher had read. *)
LEMMA ClearPendingKeepsQueue ==
  ASSUME TypeInv, NEW base, Follows(base, base), QueueInv(base), ClearPending
  PROVE  QueueInv(base)'
<1>1. /\ UNCHANGED <<skipped, source, item, run>> /\ intake.paper \in Paper
      /\ pending \in [Paper -> 0..MaxChanges] /\ intake.pc = "created"
      /\ intake'.stamp = 0 /\ intake'.paper \in Paper /\ intake'.pc = "none"
      /\ source \in [Paper -> 1..MaxChanges]
  BY KeywordTagsAssumption DEF ClearPending, TypeInv, QueueTypes, NothingInHand
<1>2. \A p \in Paper : \/ pending'[p] = pending[p]
                       \/ pending'[p] = 0 /\ p = intake.paper /\ pending[p] = intake.stamp
  BY <1>1 DEF ClearPending
<1>3. \A p \in Paper : pending'[p] \in {0, source[p]}
  BY <1>2 DEF QueueInv
<1>4. ASSUME NEW p \in Paper, Served(p)' PROVE Served(p)
  <2>1. pending'[p] = 0 /\ pending[p] \in {0, source[p]}
    BY <1>1, <1>4 DEF Served, QueueInv
  <2>2. CASE pending[p] = 0
    BY <2>2 DEF Served
  <2>3. CASE pending[p] # 0
    <3>1. p = intake.paper /\ pending[p] = intake.stamp /\ pending[p] = source[p]
      BY <1>2, <2>1, <2>3
    <3>2. QED BY <1>1, <3>1 DEF Served
  <2>4. QED BY <2>2, <2>3
<1>5. InHand'
  BY <1>1 DEF InHand
<1>6. QED BY <1>1, <1>3, <1>4, <1>5, StillKeepsQueue DEF QueueInv

LEMMA RestartKeepsQueue ==
  ASSUME TypeInv, NEW base, RowsInv(base), Follows(base, base), QueueInv(base), Restart
  PROVE  QueueInv(base)'
<1>1. /\ UNCHANGED <<skipped, source, pending>>
      /\ intake'.stamp = 0 /\ intake'.paper \in Paper /\ intake'.pc = "none"
      /\ source \in [Paper -> 1..MaxChanges] /\ item \in [Item -> ItemRow]
  BY KeywordTagsAssumption DEF Restart, TypeInv, QueueTypes, NothingInHand
<1>2. \A i \in Item : run'[i] = Idle /\ run'[i].pc = "none" /\ run'[i].had.at = 0
  BY IdleRow DEF Restart
<1>3. ASSUME NEW i \in Item PROVE Steady(base, base, i)
  <2>1. /\ base[item[i].paper].at \in Nat /\ source[item[i].paper] \in Nat
        /\ item[i].status = "none" => run[i] = Idle
        /\ item[i].basis <= source[item[i].paper]
    BY RunHasItem DEF ItemInv
  <2>2. CASE item'[i] = item[i]
    <3>1. ItemInv(base, i)'
      BY <1>1, <1>2, <2>1, <2>2 DEF ItemInv, AtWork
    <3>2. QED BY <1>1, <1>2, <2>2, <3>1 DEF Steady, Okay, AtWork
  <2>3. CASE item[i].status = "running" /\ item'[i] = Ended(item[i], "interrupted")
    BY <1>1, <1>2, <2>1, <2>3, EndedIsSteady DEF Terminal, AtWork
  <2>4. CASE item[i].status = "running" /\ item'[i] = [item[i] EXCEPT !.status = "queued"]
    <3>1. /\ item'[i].status = "queued" /\ item'[i].paper = item[i].paper
          /\ item'[i].method = item[i].method /\ item'[i].basis = item[i].basis
      BY <1>1, <2>4 DEF ItemRow
    <3>2. ItemInv(base, i)'
      BY <1>1, <1>2, <2>1, <3>1 DEF ItemInv, AtWork
    <3>3. QED BY <1>1, <1>2, <2>4, <3>1, <3>2 DEF Steady, Okay, AtWork, Active
  <2>5. QED BY <2>2, <2>3, <2>4 DEF Restart
<1>4. \A p \in Paper : Served(p)' => Served(p)
  BY <1>1 DEF Served
<1>5. /\ \A p \in Paper : pending'[p] \in {0, source[p]}
      /\ InHand'
      /\ \A p \in Paper \ skipped' : Served(p)' => Current(base, p)
  BY <1>1, <1>4 DEF QueueInv, InHand
<1>6. QED BY <1>1, <1>3, <1>5, SteadyKeepsQueue

(* A change makes the paper unserved, and no item is of what it says now. *)
LEMMA ChangeKeepsQueue ==
  ASSUME TypeInv, NEW base, RowsInv(base), Follows(base, base), QueueInv(base),
         NEW p \in Paper, Change(p)
  PROVE  QueueInv(base)'
<1>1. /\ UNCHANGED <<tagVars, skipped, intake, item, run>>
      /\ source'[p] = source[p] + 1 /\ pending'[p] = source'[p] /\ source[p] \in 1..MaxChanges
      /\ \A q \in Paper \ {p} : source'[q] = source[q] /\ pending'[q] = pending[q]
      /\ \A q \in Paper : source[q] \in 1..MaxChanges
      /\ intake.paper \in Paper /\ intake.stamp \in Nat
  BY DEF Change, TypeInv, QueueTypes
<1>2. \A q \in Paper : pending'[q] \in {0, source'[q]}
  BY <1>1 DEF QueueInv
<1>3. /\ InHand'
      /\ intake.paper = p => intake.stamp < source'[p]
  BY <1>1 DEF QueueInv, InHand
<1>4. ASSUME NEW i \in Item PROVE ItemInv(base, i)'
  <2>1. item[i].basis <= source'[item[i].paper]
    BY <1>1, ItemTypes DEF QueueInv, ItemInv
  <2>2. QED BY <1>1, <2>1 DEF QueueInv, ItemInv
<1>5. \A q \in Paper : Local(q)' = Local(q) /\ LastLocal(q)' = LastLocal(q)
  BY <1>1 DEF Local, LastLocal
<1>6. \A q \in Paper \ {p} : \A i \in Local(q) : Okay(base, i)' = Okay(base, i)
  BY <1>1 DEF Okay, Local
<1>7. Heard(base)'
  <2> SUFFICES ASSUME NEW q \in Paper, NEW i \in Local(q), NEW j \in Local(q),
                      i <= j, item[i].status \in Active, item[i].basis = source'[q]
               PROVE  Okay(base, j)'
    BY <1>1, <1>5 DEF Heard
  <2>1. item[i].basis <= source[q]
    BY DEF Local, QueueInv, ItemInv
  <2>2. q # p
    BY <1>1, <2>1
  <2>3. QED BY <1>1, <1>6, <2>2 DEF QueueInv, Heard
<1>8. ASSUME NEW q \in Paper, Served(q)' PROVE q # p /\ Served(q)
  <2>1. q # p
    BY <1>1, <1>3, <1>8 DEF Served
  <2>2. QED BY <1>1, <1>8, <2>1 DEF Served
<1>9. \A q \in Paper \ skipped' : Served(q)' => Current(base, q)'
  <2> SUFFICES ASSUME NEW q \in Paper \ skipped, Served(q)', NEW i \in LastLocal(q)
               PROVE  Okay(base, i)'
    BY <1>1, <1>5 DEF Current
  <2>1. i \in Local(q)
    BY DEF LastLocal, Local
  <2>2. QED BY <1>6, <1>8, <2>1 DEF QueueInv, Current
<1>10. QED BY <1>1, <1>2, <1>3, <1>4, <1>7, <1>9 DEF QueueInv

(* A new item is the last one of its paper and has not begun. *)
LEMMA NewItemKeepsQueue ==
  ASSUME TypeInv, NEW base, RowsInv(base), Follows(base, base), QueueInv(base),
         NEW m \in Method, NEW p \in Paper, NEW i \in Item,
         item[i].status = "none", \A j \in Item : item[j].status = "none" => i <= j,
         \A j \in Item \ {i} : item'[j] = item[j],
         item'[i].status = "queued", item'[i].paper = p, item'[i].method = m,
         item'[i].basis <= source[p],
         UNCHANGED <<skipped, source, pending, run>>,
         InHand',
         \A q \in Paper : Served(q)' => Served(q) \/ (q = p /\ m = "local")
  PROVE  QueueInv(base)'
<1>1. run[i] = Idle /\ run[i].pc = "none" /\ run[i].had.at = 0 /\ base[p].at \in Nat
  BY IdleRow DEF QueueInv, ItemInv, Follows, Bases
<1>2. \A j \in Item : j \in Nat
  BY KeywordsAssumption DEF Item
<1>3. Okay(base, i)'
  BY <1>1 DEF Okay, AtWork
<1>4. \A j \in Item \ {i} : Okay(base, j)' = Okay(base, j)
  BY DEF Okay
<1>5. ASSUME NEW j \in Item PROVE ItemInv(base, j)'
  <2>1. CASE j = i
    BY <1>1, <2>1 DEF ItemInv, AtWork
  <2>2. CASE j # i
    BY <2>2 DEF QueueInv, ItemInv
  <2>3. QED BY <2>1, <2>2
<1>6. \A k, j \in Item : k <= j /\ item'[k].status = "none" => item'[j].status = "none"
  <2> SUFFICES ASSUME NEW k \in Item, NEW j \in Item, k <= j, item'[k].status = "none"
               PROVE  item'[j].status = "none"
    OBVIOUS
  <2>1. k # i /\ item[k].status = "none" /\ i <= k
    OBVIOUS
  <2>2. j # i /\ item[j].status = "none"
    BY <1>2, <2>1 DEF QueueInv
  <2>3. QED BY <2>2
<1>7. ASSUME NEW j \in Item, j # i, item'[j].status # "none" PROVE ~(i <= j)
  BY <1>7 DEF QueueInv
<1>8. \A q \in Paper : Local(q)' \subseteq Local(q) \cup {i} /\ Local(q) \subseteq Local(q)'
                       /\ Local(q) \subseteq Item \ {i}
  BY DEF Local
<1>9. Heard(base)'
  <2> SUFFICES ASSUME NEW q \in Paper, NEW k \in Local(q)', NEW j \in Local(q)',
                      k <= j, item'[k].status \in Active, item'[k].basis = source[q]
               PROVE  Okay(base, j)'
    BY DEF Heard
  <2>1. CASE j = i
    BY <1>3, <2>1
  <2>2. CASE j # i
    <3>1. j \in Local(q) /\ k \in Local(q)
      BY <1>7, <1>8, <2>2 DEF Local
    <3>2. k # i /\ j # i /\ k \in Item /\ j \in Item
      BY <1>8, <3>1
    <3>3. Okay(base, j)
      BY <3>1, <3>2 DEF QueueInv, Heard
    <3>4. QED BY <1>4, <3>2, <3>3
  <2>3. QED BY <2>1, <2>2
<1>10. ASSUME NEW q \in Paper \ skipped, Served(q)', NEW k \in LastLocal(q)'
       PROVE  Okay(base, k)'
  <2>1. k \in Local(q)' /\ \A j \in Local(q)' : j <= k
    BY DEF LastLocal, Local
  <2>2. CASE k = i
    BY <1>3, <2>2
  <2>3. CASE k # i
    <3>1. k \in Local(q) /\ k \in Item
      BY <1>8, <2>1, <2>3
    <3>2. i \notin Local(q)'
      BY <1>7, <2>1, <2>3, <3>1 DEF Local
    <3>3. ~(q = p /\ m = "local")
      BY <3>2 DEF Local
    <3>4. k \in LastLocal(q) /\ Served(q)
      BY <1>8, <1>10, <2>1, <3>1, <3>3 DEF LastLocal, Local
    <3>5. Okay(base, k)
      BY <1>10, <3>4 DEF QueueInv, Current
    <3>6. QED BY <1>4, <2>3, <3>1, <3>5
  <2>4. QED BY <2>2, <2>3
<1>11. QED BY <1>5, <1>6, <1>9, <1>10 DEF QueueInv, Current

LEMMA CreateKeepsQueue ==
  ASSUME TypeInv, NEW base, RowsInv(base), Follows(base, base), QueueInv(base),
         NEW m \in Method, NEW p \in Paper, NEW basis \in 0..MaxChanges,
         Create(m, p, basis), basis <= source[p],
         UNCHANGED <<skipped, source, pending, run>>,
         InHand',
         \A q \in Paper :
           Served(q)' => Served(q) \/ (q = p /\ m = "local" /\ basis = source[p])
  PROVE  QueueInv(base)'
<1>1. CASE /\ item' = item
           /\ \E j \in Item : /\ item[j].status \in Active /\ item[j].paper = p
                              /\ item[j].method = m /\ item[j].basis = basis
  <2>1. PICK j \in Item : /\ item[j].status \in Active /\ item[j].paper = p
                          /\ item[j].method = m /\ item[j].basis = basis
    BY <1>1
  <2>2. ASSUME NEW q \in Paper \ skipped, Served(q)', NEW k \in LastLocal(q)
        PROVE  Okay(base, k)
    <3>1. CASE Served(q)
      BY <2>2, <3>1 DEF QueueInv, Current
    <3>2. CASE q = p /\ m = "local" /\ basis = source[p]
      <4>1. j \in Local(q) /\ k \in Local(q) /\ j <= k
        BY <2>1, <3>2 DEF LastLocal, Local, Active
      <4>2. QED BY <2>1, <3>2, <4>1 DEF QueueInv, Heard
    <3>3. QED BY <2>2, <3>1, <3>2
  <2>3. \A q \in Paper \ skipped' : Served(q)' => Current(base, q)
    BY <2>2 DEF Current
  <2>4. \A q \in Paper : pending'[q] \in {0, source[q]}
    BY DEF QueueInv
  <2>5. QED BY <1>1, <2>3, <2>4, StillKeepsQueue
<1>2. CASE \E i \in Item :
             /\ item' \in [Item -> ItemRow]
             /\ item[i].status = "none" /\ \A j \in Item : item[j].status = "none" => i <= j
             /\ \A j \in Item \ {i} : item'[j] = item[j]
             /\ item'[i].status = "queued" /\ item'[i].paper = p /\ item'[i].method = m
             /\ item'[i].basis = basis
  <2>1. PICK i \in Item :
             /\ item' \in [Item -> ItemRow]
             /\ item[i].status = "none" /\ \A j \in Item : item[j].status = "none" => i <= j
             /\ \A j \in Item \ {i} : item'[j] = item[j]
             /\ item'[i].status = "queued" /\ item'[i].paper = p /\ item'[i].method = m
             /\ item'[i].basis = basis
    BY <1>2
  <2>2. \A q \in Paper : Served(q)' => Served(q) \/ (q = p /\ m = "local")
    OBVIOUS
  <2>3. QED BY <2>1, <2>2, NewItemKeepsQueue
<1>3. QED BY <1>1, <1>2, CreateParts DEF TypeInv

LEMMA AskKeepsQueue ==
  ASSUME TypeInv, NEW base, RowsInv(base), Follows(base, base), QueueInv(base),
         NEW m \in Method, NEW p \in Paper, Ask(m, p)
  PROVE  QueueInv(base)'
<1> DEFINE basis == IF m = "model" THEN source[p] ELSE 0
<1>1. /\ Create(m, p, basis) /\ UNCHANGED <<skipped, source, pending, run, intake>>
      /\ source[p] \in 1..MaxChanges
  BY DEF Ask, TypeInv, QueueTypes
<1>2. basis \in 0..MaxChanges /\ basis <= source[p]
  BY <1>1, KeywordsAssumption
<1> HIDE DEF basis
<1>3. \A q \in Paper : Served(q)' => Served(q)
  BY <1>1 DEF Served
<1>4. InHand'
  BY <1>1 DEF QueueInv, InHand
<1>5. QED BY <1>1, <1>2, <1>3, <1>4, CreateKeepsQueue

LEMMA RetryKeepsQueue ==
  ASSUME TypeInv, NEW base, RowsInv(base), Follows(base, base), QueueInv(base),
         NEW i \in Item, Retry(i)
  PROVE  QueueInv(base)'
<1>1. /\ Create(item[i].method, item[i].paper, 0)
      /\ UNCHANGED <<skipped, source, pending, run, intake>>
      /\ item[i].method \in Method /\ item[i].paper \in Paper
      /\ 0 <= source[item[i].paper] /\ 0 \in 0..MaxChanges
  BY KeywordsAssumption DEF Retry, TypeInv, QueueTypes, ItemRow
<1>2. \A q \in Paper : Served(q)' => Served(q)
  BY <1>1 DEF Served
<1>3. InHand'
  BY <1>1 DEF QueueInv, InHand
<1>4. QED BY <1>1, <1>2, <1>3, CreateKeepsQueue

(* The row that was read becomes an item, or there is one of the same version. *)
LEMMA CreatePendingKeepsQueue ==
  ASSUME TypeInv, NEW base, RowsInv(base), Follows(base, base), QueueInv(base), CreatePending
  PROVE  QueueInv(base)'
<1> DEFINE p == intake.paper
<1>1. /\ Create("local", p, intake.stamp) /\ UNCHANGED <<skipped, source, pending, run>>
      /\ intake'.paper = p /\ intake'.stamp = intake.stamp /\ intake'.pc = "created"
      /\ p \in Paper /\ intake.stamp \in 0..MaxChanges /\ "local" \in Method
      /\ intake.stamp <= source[p] /\ pending[p] # 0
  BY DEF CreatePending, TypeInv, QueueTypes, QueueInv, InHand, Method
<1>2. ASSUME NEW q \in Paper, Served(q)'
      PROVE  Served(q) \/ (q = p /\ intake.stamp = source[p])
  BY <1>1, <1>2 DEF Served
<1>3. InHand'
  BY <1>1 DEF InHand
<1>4. QED BY <1>1, <1>2, <1>3, CreateKeepsQueue

-------------------------------------------------------------------------------
CurrentInv == \E base \in Bases : RowsInv(base) /\ QueueInv(base)

LEMMA RowsStay ==
  ASSUME TypeInv, UNCHANGED tagVars, NEW base \in Bases, RowsInv(base),
         \A p \in Paper : source'[p] \in Nat /\ source[p] <= source'[p]
  PROVE  RowsInv(base)'
<1>1. \A p \in Paper : source[p] \in Nat
  BY KeywordsAssumption DEF TypeInv, QueueTypes
<1>2. QED BY <1>1, OtherKeepsRow DEF RowsInv

LEMMA SourceStays ==
  ASSUME TypeInv, source' = source
  PROVE  \A p \in Paper : source[p] \in Nat /\ source'[p] \in Nat /\ source[p] <= source'[p]
<1>1. \A p \in Paper : source[p] \in Nat
  BY KeywordsAssumption DEF TypeInv, QueueTypes
<1>2. QED BY <1>1

LEMMA MovesKeepCurrent ==
  ASSUME TypeInv, NEW base \in Bases, RowsInv(base), QueueInv(base), Follows(base, base),
         UNCHANGED tagVars, UNCHANGED <<skipped, pending, intake>>,
         NEW i \in Item, Moves(base, base, i)
  PROVE  RowsInv(base)' /\ QueueInv(base)'
<1>1. source' = source
  BY DEF Moves
<1>2. QED BY <1>1, SourceStays, RowsStay, MovesKeepQueue

LEMMA ApplyRunKeepsCurrent ==
  ASSUME TypeInv, NEW base \in Bases, RowsInv(base), QueueInv(base), Follows(base, base),
         NEW i \in Item, ApplyRun(i)
  PROVE  CurrentInv'
<1> DEFINE p == item[i].paper
           input == [method |-> item[i].method, at |-> item[i].input]
<1>1. /\ UNCHANGED <<skipped, pending, intake>> /\ source' = source
      /\ run[i].pc = "applying" /\ p \in Paper /\ source[p] \in Nat
  BY ItemTypes DEF ApplyRun, OnlyRun, NothingElse
<1>2. CASE /\ \/ \E o \in {"cancelled", "overtaken"} : Ending(i, o)
              \/ source[p] # item[i].input /\ Ending(i, "stale")
           /\ OnlyRun
  <2>1. Moves(base, base, i) /\ UNCHANGED tagVars
    BY <1>1, <1>2, RefusedRunMoves DEF OnlyRun, NothingElse
  <2>2. QED BY <1>1, <2>1, MovesKeepCurrent DEF CurrentInv
<1>3. CASE /\ source[p] = item[i].input /\ \E C \in SUBSET Tag : Apply(p, C, input)
           /\ item' = [item EXCEPT ![i] = Ended(@, "done")] /\ Ending(i, "done")
  <2>1. PICK C \in SUBSET Tag : Apply(p, C, input)
    BY <1>3
  <2>2. input \in Input /\ input.at = source[p]
    BY <1>1, <1>3 DEF TypeInv, QueueTypes, ItemRow, Input, Method
  <2>3. TagsInv /\ tags.row[p].rev \in Nat
    BY <1>1, RowTypes DEF TypeInv
  <2> HIDE DEF input
  <2>4. PICK next \in Bases :
          \A q \in Paper : next[q] = IF q = p THEN [rev |-> tags.row[p].rev + 1, at |-> source[p]]
                                     ELSE base[q]
    <3> DEFINE b == [base EXCEPT ![p] = [rev |-> tags.row[p].rev + 1, at |-> source[p]]]
    <3>1. /\ b \in Bases
          /\ \A q \in Paper : b[q] = IF q = p THEN [rev |-> tags.row[p].rev + 1, at |-> source[p]]
                                     ELSE base[q]
      BY <1>1, <2>3 DEF Bases
    <3> HIDE DEF b
    <3>2. QED BY <3>1
  <2>5. \A q \in Paper : base[q].at \in Nat /\ base[q].at <= source[q]
    BY DEF RowsInv, RowInv, Bases
  <2>6. Follows(base, next)
    BY <1>1, <2>4, <2>5 DEF Follows
  <2>7. Moves(base, next, i)
    <3>1. next[p].at = source[p]
      BY <1>1, <2>4
    <3>2. QED BY <1>1, <1>3, <2>6, <3>1, AppliedMoves
  <2>8. QueueInv(next)'
    BY <1>1, <2>6, <2>7, MovesKeepQueue
  <2>9. \A q \in Paper : RowInv(next, q)'
    <3> SUFFICES ASSUME NEW q \in Paper PROVE RowInv(next, q)'
      OBVIOUS
    <3>1. RowInv(base, q)
      BY DEF RowsInv
    <3>2. next[q] = IF q = p THEN [rev |-> tags.row[p].rev + 1, at |-> source[p]] ELSE base[q]
      BY <2>4
    <3> HIDE DEF p
    <3>3. QED BY <1>1, <2>1, <2>2, <2>3, <3>1, <3>2, ApplyKeepsRow
  <2>10. QED BY <2>8, <2>9 DEF CurrentInv, RowsInv
<1>4. QED BY <1>2, <1>3 DEF ApplyRun

LEMMA StepKeepsCurrent ==
  ASSUME TypeInv, NEW base \in Bases, RowsInv(base), QueueInv(base), Follows(base, base),
         NEW i \in Item, Cancel(i) \/ Retry(i) \/ Dispatch(i) \/ Reap(i) \/ Step(i)
  PROVE  CurrentInv'
<1>1. CASE ApplyRun(i)
  BY <1>1, ApplyRunKeepsCurrent
<1>2. CASE Retry(i)
  <2>1. UNCHANGED tagVars /\ source' = source
    BY <1>2 DEF Retry
  <2>2. QED BY <1>2, <2>1, SourceStays, RowsStay, RetryKeepsQueue DEF CurrentInv
<1>3. CASE \/ Claim(i) \/ ReadSource(i) \/ Send(i) \/ Answer(i) \/ Compare(i) \/ Finish(i)
           \/ WriteFails(i) \/ Cancel(i) \/ Dispatch(i) \/ Reap(i)
  <2>1. Moves(base, base, i)
    BY <1>3, ClaimMoves, ReadSourceMoves, SendMoves, AnswerMoves, CompareMoves, FinishMoves,
       WriteFailsMoves, CancelMoves, DispatchMoves, ReapMoves
  <2>2. UNCHANGED tagVars /\ UNCHANGED <<skipped, pending, intake>>
    BY <1>3 DEF Claim, ReadSource, Refused, Send, Answer, Compare, Finish, WriteFails, Cancel,
                Dispatch, Reap, OnlyRun, NothingElse
  <2>3. QED BY <2>1, <2>2, MovesKeepCurrent DEF CurrentInv
<1>4. QED BY <1>1, <1>2, <1>3 DEF Step

LEMMA EditTagsKeepsCurrent ==
  ASSUME TypeInv, NEW base \in Bases, RowsInv(base), QueueInv(base), Follows(base, base), EditTags
  PROVE  CurrentInv'
<1>1. UNCHANGED <<skipped, source, pending, intake, item, run>> /\ TagsInv
  BY DEF EditTags, TypeInv
<1>2. Edit \/ \E k \in DOMAIN log : Undo(k)
  BY <1>1, EditsAreEdits DEF EditTags, TagEdits
<1>3. RowsInv(base)'
  BY <1>1, <1>2, EditKeepsRow, UndoKeepsRow DEF RowsInv
<1>4. \A p \in Paper : Served(p)' = Served(p)
  BY <1>1 DEF Served
<1>5. QueueInv(base)'
  BY <1>1, <1>4, StillKeepsQueue DEF QueueInv, InHand
<1>6. QED BY <1>3, <1>5 DEF CurrentInv

LEMMA InitCurrent == Init => CurrentInv
<1> SUFFICES ASSUME Init PROVE CurrentInv
  OBVIOUS
<1> DEFINE base == [p \in Paper |-> [rev |-> 1, at |-> 0]]
<1>1. /\ base \in Bases /\ \A p \in Paper : base[p].rev = 1 /\ base[p].at = 0
  BY DEF Bases
<1> HIDE DEF base
<1>2. /\ log = <<>> /\ \A p \in Paper : tags.row[p] = [rev |-> 1, input |-> NoInput]
  BY DEF Init, TagsInit
<1>3. /\ \A p \in Paper : source[p] = 1 /\ pending[p] = 1
      /\ intake.pc = "none" /\ intake.stamp = 0 /\ intake.paper \in Paper
      /\ \A i \in Item : item[i] = NoItem /\ run[i] = Idle
  BY KeywordTagsAssumption DEF Init, NothingInHand
<1>4. NoItem.paper \in Paper /\ NoItem.status = "none" /\ NoItem.basis = 0
  BY NoItemRow DEF ItemRow
<1>5. ASSUME NEW p \in Paper PROVE RowInv(base, p)
  <2>1. Edited(p) = {}
    <3>1. DOMAIN log = {}
      BY <1>2
    <3>2. QED BY <3>1 DEF Edited, Open
  <2>2. tags.row[p].rev = 1 /\ tags.row[p].input.at = 0
    <3>1. NoInput.at = 0 /\ tags.row[p] = [rev |-> 1, input |-> NoInput]
      BY <1>2 DEF NoInput
    <3>2. QED BY <3>1
  <2>3. source[p] = 1 /\ base[p].rev = 1 /\ base[p].at = 0
    BY <1>1, <1>3
  <2>4. QED BY <2>1, <2>2, <2>3 DEF RowInv
<1>6. \A i \in Item : ItemInv(base, i)
  BY <1>1, <1>3, <1>4, IdleRow DEF ItemInv, AtWork
<1>7. \A p \in Paper : Local(p) = {} /\ LastLocal(p) = {}
  BY <1>3, <1>4 DEF Local, LastLocal
<1>8. QueueInv(base)
  BY <1>3, <1>4, <1>6, <1>7 DEF QueueInv, InHand, Heard, Current
<1>9. QED BY <1>1, <1>5, <1>8 DEF CurrentInv, RowsInv

LEMMA CurrentStep == TypeInv /\ CurrentInv /\ [Next]_vars => CurrentInv'
<1> SUFFICES ASSUME TypeInv, CurrentInv, [Next]_vars PROVE CurrentInv'
  OBVIOUS
<1>1. PICK base \in Bases : RowsInv(base) /\ QueueInv(base)
  BY DEF CurrentInv
<1>2. Follows(base, base)
  BY <1>1, BaseFollows
<1>3. ASSUME UNCHANGED tagVars, QueueInv(base)',
             \A p \in Paper : source'[p] \in Nat /\ source[p] <= source'[p]
      PROVE  CurrentInv'
  BY <1>1, <1>3, RowsStay DEF CurrentInv
<1>4. CASE EditTags
  BY <1>1, <1>2, <1>4, EditTagsKeepsCurrent
<1>5. ASSUME NEW p \in Paper, Change(p) PROVE CurrentInv'
  <2>1. \A q \in Paper : source[q] \in Nat /\ source'[q] \in Nat /\ source[q] <= source'[q]
    BY <1>5, KeywordsAssumption DEF Change, TypeInv, QueueTypes
  <2>2. QED BY <1>1, <1>2, <1>3, <1>5, <2>1, ChangeKeepsQueue DEF Change
<1>6. ASSUME NEW p \in Paper, TakePending(p) PROVE CurrentInv'
  BY <1>1, <1>2, <1>3, <1>6, TakePendingKeepsQueue, SourceStays DEF TakePending
<1>7. ASSUME NEW p \in Paper, NEW m \in Method, Ask(m, p) PROVE CurrentInv'
  BY <1>1, <1>2, <1>3, <1>7, AskKeepsQueue, SourceStays DEF Ask
<1>8. CASE CreatePending
  BY <1>1, <1>2, <1>3, <1>8, CreatePendingKeepsQueue, SourceStays DEF CreatePending
<1>9. CASE ClearPending
  BY <1>1, <1>2, <1>3, <1>9, ClearPendingKeepsQueue, SourceStays DEF ClearPending
<1>10. CASE Restart
  BY <1>1, <1>2, <1>3, <1>10, RestartKeepsQueue, SourceStays DEF Restart
<1>11. ASSUME NEW i \in Item, Cancel(i) \/ Retry(i) \/ Dispatch(i) \/ Reap(i) \/ Step(i)
       PROVE  CurrentInv'
  BY <1>1, <1>2, <1>11, StepKeepsCurrent
<1>12. CASE ReadSetting
  BY <1>1, <1>2, <1>3, <1>12, ReadSettingKeepsQueue, SourceStays DEF ReadSetting
<1>13. CASE SwitchAutomatic
  <2>1. UNCHANGED <<tagVars, skipped, source, pending, intake, item, run>>
    BY <1>13 DEF SwitchAutomatic
  <2>2. \A p \in Paper : Served(p)' = Served(p)
    BY <2>1 DEF Served
  <2>3. QueueInv(base)'
    BY <1>1, <1>2, <2>1, <2>2, StillKeepsQueue DEF QueueInv, InHand
  <2>4. QED BY <1>3, <2>1, <2>3, SourceStays
<1>14. CASE UNCHANGED vars
  <2>1. UNCHANGED <<tagVars, skipped, source, pending, intake, item, run>>
    BY <1>14 DEF vars, queueVars
  <2>2. \A p \in Paper : Served(p)' = Served(p)
    BY <2>1 DEF Served
  <2>3. QueueInv(base)'
    BY <1>1, <1>2, <2>1, <2>2, StillKeepsQueue DEF QueueInv, InHand
  <2>4. QED BY <1>3, <2>1, <2>3, SourceStays
<1>15. QED
  BY <1>4, <1>5, <1>6, <1>7, <1>8, <1>9, <1>10, <1>11, <1>12, <1>13, <1>14 DEF Next

(* No change of a paper is lost on the way to its tags, however often automatic
   keywords are switched off and on: when nothing of it is pending or under way and
   its last change was looked at with them on, its last automatic run saw what it
   says now, or was cancelled, overtaken by an edit or failed; for any number of
   items, edits and undos. *)
THEOREM QuietPapersAreCurrent == Spec => []QuietIsCurrent
<1>1. TypeInv /\ CurrentInv => QuietIsCurrent
  <2> SUFFICES ASSUME TypeInv, CurrentInv, NEW p \in Paper, Quiet(p), NEW i \in LastLocal(p),
                      item[i].status \in {"done", "stale"}
               PROVE  tags.row[p].input.at \in {0, source[p]}
    BY DEF QuietIsCurrent
  <2>1. PICK base \in Bases : RowsInv(base) /\ QueueInv(base)
    BY DEF CurrentInv
  <2>2. p \notin skipped /\ Served(p)
    BY DEF Quiet, Served
  <2>3. Okay(base, i) /\ item[i].paper = p
    BY <2>1, <2>2 DEF QueueInv, Current, LastLocal
  <2>4. base[p].at = source[p]
    BY <2>3 DEF Okay
  <2>5. QED BY <2>1, <2>4 DEF RowsInv, RowInv
<1>2. TypeInv /\ OffInv /\ CurrentInv /\ [Next]_vars => (TypeInv /\ OffInv /\ CurrentInv)'
  BY InvStep, CurrentStep
<1>3. Init => TypeInv /\ OffInv /\ CurrentInv
  BY InitInv, InitCurrent
<1>4. QED BY <1>1, <1>2, <1>3, PTL DEF Spec

===============================================================================
