------------------------------ MODULE KeywordTags ------------------------------
(***************************************************************************)
(* The keyword tags of one owner: the catalogue, the tags of each paper,   *)
(* the exclusions that remember what was taken off a paper, and the log    *)
(* from which an operation can be undone.  Every operation is one          *)
(* transaction.  A tag stands for its names as well; renaming and aliases, *)
(* which keep the tag, are left out.                                       *)
(***************************************************************************)
EXTENDS Naturals, Sequences

CONSTANTS
  Paper,           (* the papers of the library                            *)
  Tag              (* the tags that can come into being                    *)

ASSUME KeywordTagsAssumption == Paper # {} /\ Tag # {}

VARIABLES
  tags,        (* keyword_tags, keyword_links, keyword_exclusions and       *)
               (* keyword_papers: revision and input of the last run       *)
  log,         (* keyword_operations: the tables before and after           *)
  removed      (* for the properties: what was taken off a paper and not    *)
               (* put back since                                           *)

tagVars == <<tags, log, removed>>

NoTag == [status |-> "none", into |-> {}, rev |-> 0]
NewTag == [status |-> "active", into |-> {}, rev |-> 1]
(* The input_key of a run: its method and the version of what the paper says. *)
Input == [method : {"local", "model"}, at : Nat]
NoInput == [method |-> "local", at |-> 0]
TagRow == [status : {"none", "active", "merged", "deleted"}, into : SUBSET Tag, rev : Nat]

TagsTypeOK ==
  /\ tags \in [tag : [Tag -> TagRow],
               link : [Paper \X Tag -> {"none", "auto", "manual"}],
               excluded : SUBSET (Paper \X Tag),
               row : [Paper -> [rev : Nat, input : Input]]]
  /\ \A t \in Tag : (tags.tag[t].status = "merged") = (tags.tag[t].into # {})
  /\ \A k \in DOMAIN log : log[k].undone \in BOOLEAN /\ log[k].before # log[k].after
  /\ removed \subseteq Paper \X Tag

TagsInit ==
  /\ \E T \in SUBSET Tag :
       tags = [tag |-> [t \in Tag |-> IF t \in T THEN NewTag ELSE NoTag], link |-> [l \in Paper \X Tag |-> "none"],
               excluded |-> {}, row |-> [p \in Paper |-> [rev |-> 1, input |-> NoInput]]]
  /\ log = <<>>
  /\ removed = {}

-------------------------------------------------------------------------------
(* resolve_tag follows merges to the tag at their end, and has none if they go
   round in a circle; a name of a tag that does not exist is its own. *)
Reach(c, t) ==
  {u \in Tag : \A S \in SUBSET Tag :
                  t \in S /\ (\A v \in S : c.tag[v].into \subseteq S) => u \in S}

Resolve(c, t) ==
  LET ends == {u \in Reach(c, t) : c.tag[u].status # "merged"}
  IN IF ends = {} THEN t ELSE CHOOSE u \in ends : TRUE

Live(c, t) == c.tag[Resolve(c, t)].status = "active"

(* create_tag: the tag that has the name, or a new one. *)
Created(c, t) ==
  IF c.tag[t].status = "none"
  THEN [c EXCEPT !.tag[t] = NewTag] ELSE c

Touched(c, p) == [c EXCEPT !.row[p].rev = @ + 1]
Revised(c, t) == [c EXCEPT !.tag[t].rev = @ + 1]

(* operation(): the new tables, and what an undo needs. *)
Commit(c) ==
  /\ tags' = c
  /\ log' = IF c = tags THEN log ELSE Append(log, [before |-> tags, after |-> c, undone |-> FALSE])

(* edit_papers, for one paper. *)
Add(p, t) ==
  LET c == Created(tags, t)
      u == Resolve(c, t)
  IN /\ Live(c, t)
     /\ Commit(Touched([c EXCEPT !.link[<<p, u>>] = "manual",
                                        !.excluded = @ \ {<<p, u>>}], p))
     /\ removed' = {x \in removed : ~(x[1] = p /\ Resolve(c, x[2]) = u)}

(* The tags of a paper that are shown: an undone deletion or merge can leave links
   to others behind. *)
Shown(T) == {t \in T : tags.tag[t].status = "active"}

Off(p, T) ==
  /\ Commit(Touched([tags EXCEPT
       !.link = [l \in Paper \X Tag |-> IF l \in {p} \X T THEN "none" ELSE tags.link[l]],
       !.excluded = @ \cup ({p} \X T)], p))
  /\ removed' = removed \cup ({p} \X Shown(T))

Remove(p, t) == Live(tags, t) /\ Off(p, {Resolve(tags, t)})

LinkedTo(p) == {t \in Tag : tags.link[<<p, t>>] # "none"}
Clear(p) == Off(p, LinkedTo(p))

Confirm(p, t) ==
  LET u == Resolve(tags, t) IN
  /\ Live(tags, t)
  /\ Commit(Touched([tags EXCEPT !.link[<<p, u>>] =
                                  IF @ = "auto" THEN "manual" ELSE @], p))
  /\ UNCHANGED removed

Reset(p) ==
  /\ Commit(Touched([tags EXCEPT !.excluded = {x \in @ : x[1] # p},
                                        !.row[p].input = NoInput], p))
  /\ removed' = {x \in removed : x[1] # p}

(* edit_tag.  A merge carries links and exclusions over, the deletion of a tag
   leaves exclusions behind. *)
Both(a, b) == IF "manual" \in {a, b} THEN "manual" ELSE IF "auto" \in {a, b} THEN "auto" ELSE "none"

(* Mutants: a merge that keeps no target, and one that forgets exclusions. *)
MergedNowhere(c, t, u) == Revised(Revised([c EXCEPT !.tag[t].status = "merged"], t), u)

MergedWithoutExclusions(c, t, u) ==
  Revised(Revised([c EXCEPT
    !.link = [l \in Paper \X Tag |-> CASE l[2] = t -> "none"
                                       [] l[2] = u -> Both(c.link[<<l[1], t>>], c.link[l])
                                       [] OTHER -> c.link[l]],
    !.tag[t].status = "merged", !.tag[t].into = {u}], t), u)

Merged(c, t, u) ==
  LET excluded == c.excluded \cup {<<p, u>> : p \in {q \in Paper : <<q, t>> \in c.excluded}}
      carried(p) == Both(c.link[<<p, t>>], c.link[<<p, u>>])
  IN Revised(Revised([c EXCEPT
       !.excluded = excluded,
       !.link = [l \in Paper \X Tag |->
                   CASE l[2] = t -> "none"
                     [] l[2] = u -> IF carried(l[1]) = "auto" /\ l \in excluded
                                    THEN "none" ELSE carried(l[1])
                     [] OTHER -> c.link[l]],
       !.tag[t].status = "merged", !.tag[t].into = {u}], t), u)

Merge(t, u) ==
  /\ t # u /\ tags.tag[t].status = "active" /\ tags.tag[u].status = "active"
  /\ Commit(Merged(tags, t, u))
  /\ UNCHANGED removed

DeleteTag(t) ==
  LET held == {l \in Paper \X {t} : tags.link[l] # "none"} IN
  /\ tags.tag[t].status = "active"
  /\ Commit(Revised([tags EXCEPT
       !.tag[t].status = "deleted", !.excluded = @ \cup held,
       !.link = [l \in Paper \X Tag |-> IF l \in held THEN "none" ELSE tags.link[l]]], t))
  /\ removed' = removed \cup held

RestoreTag(t) ==
  /\ tags.tag[t].status = "deleted"
  /\ Commit(Revised([tags EXCEPT !.tag[t].status = "active"], t))
  /\ UNCHANGED removed

-------------------------------------------------------------------------------
(* undo: the rows that the operation changed go back, if all of them are still as
   it left them and nothing else hangs on a tag that it created. *)
Changed(f, g) == {x \in DOMAIN f : f[x] # g[x]}
Difference(S, R) == (S \ R) \cup (R \ S)
Back(f, b, a) == [x \in DOMAIN f |-> IF x \in Changed(b, a) THEN b[x] ELSE f[x]]

Untouched(b, a) ==
  /\ \A t \in Changed(b.tag, a.tag) : tags.tag[t] = a.tag[t]
  /\ \A l \in Changed(b.link, a.link) : tags.link[l] = a.link[l]
  /\ \A l \in Difference(b.excluded, a.excluded) : (l \in tags.excluded) = (l \in a.excluded)
  /\ \A p \in Changed(b.row, a.row) : tags.row[p] = a.row[p]

Orphans(b, a) ==
  {l \in Paper \X Tag : /\ b.tag[l[2]].status = "none" /\ a.tag[l[2]].status # "none"
                        /\ \/ tags.link[l] # "none" /\ l \notin Changed(b.link, a.link)
                           \/ l \in tags.excluded \ Difference(b.excluded, a.excluded)}

(* What an undo gives back or no longer forbids, but for the links that it returns
   to the very tag whose merge it takes back. *)
GivenBack(b, a) ==
  {l \in Paper \X Tag : \/ l \in a.excluded \ b.excluded
                        \/ /\ b.link[l] \notin {"none", a.link[l]}
                           /\ ~(b.tag[l[2]].status = "active" /\ a.tag[l[2]].status = "merged")}

(* What was removed is put back by an undo that gives its paper back a tag on the
   way from its name to where merges lead: also by one that only takes back the
   exclusion of a tag it was merged into. *)
PutBack(c, R, G) == {x \in R : \E v \in Reach(c, x[2]) : <<x[1], v>> \in G}

Undo(k) ==
  LET b == log[k].before
      a == log[k].after
      flipped == Difference(b.excluded, a.excluded)
  IN /\ ~log[k].undone
     /\ Untouched(b, a) /\ Orphans(b, a) = {}
     /\ tags' = [tag |-> Back(tags.tag, b.tag, a.tag), link |-> Back(tags.link, b.link, a.link),
                 excluded |-> Difference(tags.excluded, flipped),
                 row |-> Back(tags.row, b.row, a.row)]
     /\ log' = [log EXCEPT ![k].undone = TRUE]
     /\ removed' = removed \ PutBack(tags', removed, GivenBack(b, a))

-------------------------------------------------------------------------------
(* apply: the candidates of an automatic run replace the automatic tags of the
   paper, except those that are retired or excluded by now. *)
CreatedAll(C) ==
  [tags EXCEPT !.tag = [t \in Tag |-> IF t \in C THEN Created(tags, t).tag[t] ELSE tags.tag[t]]]

Chosen(c, p, C) ==
  {u \in {Resolve(c, t) : t \in {x \in C : Live(c, x)}} : <<p, u>> \notin c.excluded}

Applied(p, C, input) ==
  LET c == CreatedAll(C)
      kept(l) == IF l[1] = p /\ C # {} /\ c.link[l] = "auto" THEN "none" ELSE c.link[l]
  IN Touched([c EXCEPT
       !.row[p].input = input,
       !.link = [l \in Paper \X Tag |->
                   IF l \in {p} \X Chosen(c, p, C) /\ kept(l) = "none" THEN "auto" ELSE kept(l)]], p)

Apply(p, C, input) ==
  /\ tags' = Applied(p, C, input)
  /\ UNCHANGED <<log, removed>>

Edits(p) == \/ Clear(p) \/ Reset(p)
            \/ \E t \in Tag : Add(p, t) \/ Remove(p, t) \/ Confirm(p, t)

TagEdits == \/ \E t, u \in Tag : Merge(t, u)
            \/ \E t \in Tag : DeleteTag(t) \/ RestoreTag(t)
            \/ \E k \in DOMAIN log : Undo(k)

===============================================================================
