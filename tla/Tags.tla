-------------------------------- MODULE Tags --------------------------------
(***************************************************************************)
(* publishRevisionTags of respository/publication.go with FindOrCreate of  *)
(* model/tag_model.go: transactions that publish revisions resolve the     *)
(* names of their tags in one table, and write the revision's references.  *)
(*                                                                         *)
(* A name is its place in the order of normalized names.  A tag's id and   *)
(* its display name come from the publication that inserted it.  The table *)
(* is shown as its current version, which INSERT and FOR UPDATE see; a row *)
(* is locked from the INSERT that finds or creates it to the end of the    *)
(* transaction (InnoDB, uk_tag_normalized_name).                           *)
(***************************************************************************)
EXTENDS Naturals, Sequences, FiniteSets

CONSTANTS
  Publication,   (* transactions, each publishing one revision              *)
  Name, None,
  TagList        (* the names a revision may carry, in its author's order   *)

ASSUME NameAssumption == Name \subseteq Nat /\ IsFiniteSet(Name)
ASSUME NoneAssumption == None \notin Publication
(* What PrepareTagNames returns (DraftContent): no name twice. *)
ASSUME TagListAssumption ==
  /\ TagList \subseteq Seq(Name)
  /\ \A l \in TagList : \A i, j \in DOMAIN l : l[i] = l[j] => i = j

VARIABLES
  pc,       (* [Publication -> "idle", "insert", "select", "refer",         *)
            (*                 "error", "committed", "rolledback"]          *)
  names,    (* [Publication -> its tag list]                                *)
  resolved, (* [Publication -> the tag rows found so far, by name]          *)
  refs,     (* [Publication -> its rows in post_revision_tag, by sort_order *)
  tag,      (* [Name -> the tag's row: who inserted it, and its status]     *)
  lock      (* [Name -> the publication that has locked the row]            *)

vars == <<pc, names, resolved, refs, tag, lock>>

NoTag == [by |-> None, active |-> FALSE]
Row == [by : Publication, active : BOOLEAN]

Init ==
  /\ pc = [p \in Publication |-> "idle"]
  /\ names = [p \in Publication |-> <<>>]
  /\ resolved = [p \in Publication |-> [n \in Name |-> NoTag]]
  /\ refs = [p \in Publication |-> <<>>]
  /\ tag = [n \in Name |-> NoTag]
  /\ lock = [n \in Name |-> None]

-----------------------------------------------------------------------------
Wanted(p) == {names[p][i] : i \in DOMAIN names[p]}
Unresolved(p) == {n \in Wanted(p) : resolved[p][n] = NoTag}

(* Mutant of IsNext: the names are resolved in the author's order. *)
IsNextOfAuthor(p, n) ==
  \E i \in DOMAIN names[p] :
    names[p][i] = n /\ n \in Unresolved(p)
    /\ \A j \in 1 .. i - 1 : names[p][j] \notin Unresolved(p)

(* The loop over the names in their sorted order. *)
IsNext(p, n) == n \in Unresolved(p) /\ \A m \in Unresolved(p) : n <= m

Begin(p) ==
  /\ pc[p] = "idle"
  /\ \E l \in TagList :
       /\ names' = [names EXCEPT ![p] = l]
       /\ pc' = [pc EXCEPT ![p] = IF l = <<>> THEN "refer" ELSE "insert"]
  /\ UNCHANGED <<resolved, refs, tag, lock>>

(* INSERT ... ON DUPLICATE KEY UPDATE tag_id=tag_id: a new row, or the one  *)
(* that is there, unchanged; locked in either case.  It waits for the lock  *)
(* of another transaction.                                                  *)
Insert(p) ==
  /\ pc[p] = "insert"
  /\ \E n \in Name :
       /\ IsNext(p, n) /\ lock[n] = None
       /\ lock' = [lock EXCEPT ![n] = p]
       /\ tag' = [tag EXCEPT ![n] = IF @ = NoTag THEN [by |-> p, active |-> TRUE] ELSE @]
  /\ pc' = [pc EXCEPT ![p] = "select"]
  /\ UNCHANGED <<names, resolved, refs>>

(* Mutant of Found: the row FindOrCreate meant to insert. *)
Meant(p, n) == [by |-> p, active |-> TRUE]
(* SELECT ... FOR UPDATE *)
Found(p, n) == tag[n]

Select(p) ==
  /\ pc[p] = "select"
  /\ \E n \in Name :
       /\ IsNext(p, n)
       /\ IF Found(p, n).active
          THEN /\ resolved' = [resolved EXCEPT ![p][n] = Found(p, n)]
               /\ pc' = [pc EXCEPT ![p] = IF Unresolved(p) = {n} THEN "refer" ELSE "insert"]
          ELSE pc' = [pc EXCEPT ![p] = "error"] /\ UNCHANGED resolved
  /\ UNCHANGED <<names, refs, tag, lock>>

Released(p) == [n \in Name |-> IF lock[n] = p THEN None ELSE lock[n]]

(* The second loop inserts the references in the author's order, and the    *)
(* transaction goes on to its COMMIT.                                       *)
Commit(p) ==
  /\ pc[p] = "refer"
  /\ refs' = [refs EXCEPT ![p] =
       [i \in DOMAIN names[p] |-> [tag |-> names[p][i], by |-> resolved[p][names[p][i]].by]]]
  /\ pc' = [pc EXCEPT ![p] = "committed"]
  /\ lock' = Released(p)
  /\ UNCHANGED <<names, resolved, tag>>

(* Rolled back: a tag is unavailable, a statement failed, the request was   *)
(* cancelled or the process died.                                           *)
Rollback(p) ==
  /\ pc[p] \in {"insert", "select", "refer", "error"}
  /\ pc' = [pc EXCEPT ![p] = "rolledback"]
  /\ tag' = [n \in Name |-> IF tag[n].by = p THEN NoTag ELSE tag[n]]
  /\ lock' = Released(p)
  /\ UNCHANGED <<names, resolved, refs>>

(* An operator hides or disables a tag, or shows it again. *)
SetStatus(n) ==
  /\ tag[n] # NoTag /\ lock[n] = None
  /\ tag' = [tag EXCEPT ![n].active = ~@]
  /\ UNCHANGED <<pc, names, resolved, refs, lock>>

Next ==
  \/ \E p \in Publication : Begin(p) \/ Insert(p) \/ Select(p) \/ Commit(p) \/ Rollback(p)
  \/ \E n \in Name : SetStatus(n)

Spec == Init /\ [][Next]_vars

-----------------------------------------------------------------------------
TypeOK ==
  /\ pc \in [Publication -> {"idle", "insert", "select", "refer", "error", "committed",
                             "rolledback"}]
  /\ names \in [Publication -> Seq(Name)]
  /\ resolved \in [Publication -> [Name -> Row \cup {NoTag}]]
  /\ refs \in [Publication -> Seq([tag : Name, by : Publication])]
  /\ tag \in [Name -> Row \cup {NoTag}]
  /\ lock \in [Name -> Publication \cup {None}]

(* A published revision refers to its author's tags, in the author's order, *)
(* through rows of the table that stay: whichever of two publications that  *)
(* create a tag at once is rolled back, no reference is left dangling, and  *)
(* revisions with a name in common share its one tag.                       *)
RevisionsShareTags ==
  \A p \in Publication : pc[p] = "committed" =>
    /\ Len(refs[p]) = Len(names[p])
    /\ \A i \in DOMAIN names[p] :
         /\ refs[p][i] = [tag |-> names[p][i], by |-> tag[names[p][i]].by]
         /\ pc[refs[p][i].by] = "committed"

(* p waits in Insert for a lock of q. *)
WaitsFor(p, q) == pc[p] = "insert" /\ \E n \in Name : IsNext(p, n) /\ lock[n] = q

(* The order in which names are resolved (publication.go:145-148) leaves no *)
(* publications that all wait for each other.                               *)
NoDeadlock ==
  \A S \in (SUBSET Publication) \ {{}} :
    \E p \in S : \A q \in S : ~WaitsFor(p, q)

(* The inductive invariant: a transaction has locked exactly the rows of    *)
(* the names it has resolved, and the next one between INSERT and SELECT;   *)
(* rows it has inserted and not committed are among them.                   *)
LocksAreHeld ==
  \A p \in Publication :
    /\ pc[p] \in {"idle", "committed", "rolledback"} => \A n \in Name : lock[n] # p
    /\ \A n \in Name : lock[n] = p => n \in Wanted(p)
         /\ \A m \in Unresolved(p) : m >= n
    /\ pc[p] = "insert" => \A n \in Unresolved(p) : lock[n] # p
    /\ pc[p] = "select" => \A n \in Name : IsNext(p, n) => lock[n] = p
    /\ pc[p] = "idle" => \A n \in Name : resolved[p][n] = NoTag
ResolvedIsLocked ==
  \A p \in Publication :
    /\ pc[p] \in {"insert", "select", "refer"} =>
         \A n \in Name : resolved[p][n] # NoTag => lock[n] = p /\ resolved[p][n] = tag[n]
    /\ pc[p] = "refer" => Unresolved(p) = {}
    /\ pc[p] = "rolledback" \/ pc[p] = "idle" => \A n \in Name : tag[n].by # p
    /\ pc[p] # "committed" => \A n \in Name : tag[n].by = p => lock[n] = p
LockedRowsExist == \A n \in Name : lock[n] # None => tag[n] # NoTag
TagsInv == TypeOK /\ LocksAreHeld /\ ResolvedIsLocked /\ LockedRowsExist /\ RevisionsShareTags
=============================================================================
