----------------------------- MODULE TagsProofs -----------------------------
(***************************************************************************)
(* Theorems about Tags, for any set of publications and any finite set of  *)
(* names.                                                                  *)
(***************************************************************************)
EXTENDS Tags, FiniteSetTheorems, WellFoundedInduction, SequenceTheorems, TLAPS

USE NameAssumption, NoneAssumption, TagListAssumption

LEMMA RowsAreTags ==
  /\ \A r \in Row : r # NoTag /\ r.by \in Publication /\ r = [by |-> r.by, active |-> r.active]
  /\ NoTag.by = None
  BY DEF Row, NoTag

LEMMA WantedIsNames == ASSUME TypeOK, NEW p \in Publication
                       PROVE  names[p] \in Seq(Name) /\ Wanted(p) \subseteq Name
                              /\ Unresolved(p) \subseteq Name
  <1>1. names[p] \in Seq(Name)
    BY Zenon DEF TypeOK
  <1> QED
    BY <1>1 DEF Wanted, Unresolved

(* What a committed revision refers to. *)
LEMMA CommittedRefs ==
  ASSUME TypeOK, RevisionsShareTags, NEW p \in Publication, pc[p] = "committed",
         NEW i \in DOMAIN names[p]
  PROVE  names[p][i] \in Name /\ refs[p][i].by \in Publication
         /\ refs[p][i] = [tag |-> names[p][i], by |-> tag[names[p][i]].by]
         /\ tag[names[p][i]].by = refs[p][i].by
  <1>1. names[p] \in Seq(Name) /\ Len(refs[p]) = Len(names[p])
    BY WantedIsNames DEF RevisionsShareTags
  <1>2. refs[p] \in Seq([tag : Name, by : Publication])
    BY Zenon DEF TypeOK
  <1>3. i \in 1 .. Len(refs[p]) /\ names[p][i] \in Name
    BY <1>1
  <1>4. refs[p][i] \in [tag : Name, by : Publication]
    BY <1>2, <1>3, ElementOfSeq
  <1>5. refs[p][i] = [tag |-> names[p][i], by |-> tag[names[p][i]].by]
    BY DEF RevisionsShareTags
  <1> QED
    BY <1>3, <1>4, <1>5

LEMMA InitInv == Init => TagsInv
  <1> SUFFICES ASSUME Init PROVE TagsInv
    OBVIOUS
  <1>1. \A p \in Publication : pc[p] = "idle" /\ names[p] = <<>> /\ Wanted(p) = {} /\ Unresolved(p) = {}
    BY DEF Init, Wanted, Unresolved
  <1>2. TypeOK
    BY DEF Init, TypeOK
  <1>3. LocksAreHeld /\ ResolvedIsLocked /\ LockedRowsExist /\ RevisionsShareTags
    BY <1>1, RowsAreTags DEF Init, LocksAreHeld, ResolvedIsLocked, LockedRowsExist, RevisionsShareTags
  <1> QED
    BY <1>2, <1>3 DEF TagsInv

LEMMA BeginKeepsInv ==
  ASSUME TagsInv, NEW p \in Publication, Begin(p)
  PROVE  TagsInv'
  <1> USE DEF TagsInv
  <1>1. PICK l \in TagList : /\ names' = [names EXCEPT ![p] = l]
                             /\ pc' = [pc EXCEPT ![p] = IF l = <<>> THEN "refer" ELSE "insert"]
    BY DEF Begin
  <1>2. pc[p] = "idle" /\ UNCHANGED <<resolved, refs, tag, lock>>
    BY DEF Begin
  <1>3. TypeOK'
    BY <1>1, <1>2 DEF TypeOK
  <1>4. /\ \A q \in Publication \ {p} : pc'[q] = pc[q] /\ Wanted(q)' = Wanted(q)
                                         /\ Unresolved(q)' = Unresolved(q)
        /\ pc'[p] \in {"insert", "refer"} /\ names'[p] = l
        /\ (pc'[p] = "refer" => l = <<>>)
    BY <1>1, <1>2 DEF TypeOK, Wanted, Unresolved
  <1>5. /\ \A n \in Name : lock[n] # p /\ resolved[p][n] = NoTag /\ tag[n].by # p
    BY <1>2 DEF LocksAreHeld, ResolvedIsLocked
  <1>6. LocksAreHeld'
    <2> SUFFICES ASSUME NEW q \in Publication
                 PROVE  /\ pc'[q] \in {"idle", "committed", "rolledback"} => \A n \in Name : lock[n] # q
                        /\ \A n \in Name : lock[n] = q => n \in Wanted(q)'
                              /\ \A m \in Unresolved(q)' : m >= n
                        /\ pc'[q] = "insert" => \A n \in Unresolved(q)' : lock[n] # q
                        /\ pc'[q] = "select" => \A n \in Name : IsNext(q, n)' => lock[n] = q
                        /\ pc'[q] = "idle" => \A n \in Name : resolved[q][n] = NoTag
      BY <1>2 DEF LocksAreHeld
    <2>1. CASE q = p
      <3>1. Unresolved(p)' \subseteq Name
        BY <1>1, <1>4 DEF Unresolved, Wanted
      <3> QED
        BY <1>4, <1>5, <2>1, <3>1
    <2>2. CASE q # p
      BY <1>4, <2>2 DEF LocksAreHeld, IsNext
    <2> QED
      BY <2>1, <2>2
  <1>7. ResolvedIsLocked'
    <2>1. pc'[p] = "refer" => Unresolved(p)' = {}
      BY <1>4 DEF Wanted, Unresolved
    <2> QED
      BY <1>2, <1>4, <1>5, <2>1 DEF ResolvedIsLocked
  <1>8. LockedRowsExist'
    BY <1>2 DEF LockedRowsExist
  <1>9. RevisionsShareTags'
    <2>1. \A q \in Publication : pc[q] = "committed" => q # p /\ names'[q] = names[q] /\ pc'[q] = "committed"
      BY <1>1, <1>2, <1>4 DEF TypeOK
    <2>2. \A q \in Publication : pc'[q] = "committed" => pc[q] = "committed"
      BY <1>4
    <2> SUFFICES ASSUME NEW q \in Publication, pc'[q] = "committed"
                 PROVE  /\ Len(refs'[q]) = Len(names'[q])
                        /\ \A i \in DOMAIN names'[q] :
                             /\ refs'[q][i] = [tag |-> names'[q][i], by |-> tag'[names'[q][i]].by]
                             /\ pc'[refs'[q][i].by] = "committed"
      BY DEF RevisionsShareTags
    <2>3. pc[q] = "committed" /\ names'[q] = names[q] /\ refs' = refs /\ tag' = tag
      BY <1>2, <2>1, <2>2
    <2>4. /\ Len(refs[q]) = Len(names[q])
          /\ \A i \in DOMAIN names[q] :
               /\ refs[q][i] = [tag |-> names[q][i], by |-> tag[names[q][i]].by]
               /\ refs[q][i].by \in Publication /\ pc[refs[q][i].by] = "committed"
      BY <2>3, CommittedRefs DEF RevisionsShareTags
    <2> QED
      BY <2>1, <2>3, <2>4
  <1> QED
    BY <1>3, <1>6, <1>7, <1>8, <1>9

(* A step keeps the committed revisions if it keeps who has inserted the    *)
(* tags that committed publications have inserted.                          *)
LEMMA RevisionsKept ==
  ASSUME TypeOK, RevisionsShareTags, UNCHANGED <<names, refs>>,
         \A q \in Publication : pc[q] = "committed" <=> pc'[q] = "committed",
         \A n \in Name : tag[n].by \in Publication /\ pc[tag[n].by] = "committed"
           => tag'[n].by = tag[n].by
  PROVE  RevisionsShareTags'
  <1> SUFFICES ASSUME NEW q \in Publication, pc[q] = "committed"
               PROVE  /\ Len(refs[q]) = Len(names[q])
                      /\ \A i \in DOMAIN names[q] :
                           /\ refs[q][i] = [tag |-> names[q][i], by |-> tag'[names[q][i]].by]
                           /\ pc'[refs[q][i].by] = "committed"
    BY DEF RevisionsShareTags
  <1>1. Len(refs[q]) = Len(names[q])
    BY DEF RevisionsShareTags
  <1>2. ASSUME NEW i \in DOMAIN names[q]
        PROVE  /\ refs[q][i] = [tag |-> names[q][i], by |-> tag'[names[q][i]].by]
               /\ pc'[refs[q][i].by] = "committed"
    <2>1. /\ names[q][i] \in Name /\ refs[q][i].by \in Publication
          /\ refs[q][i] = [tag |-> names[q][i], by |-> tag[names[q][i]].by]
          /\ tag[names[q][i]].by = refs[q][i].by
      BY CommittedRefs
    <2>2. pc[refs[q][i].by] = "committed"
      BY DEF RevisionsShareTags
    <2>3. tag'[names[q][i]].by = tag[names[q][i]].by /\ pc'[refs[q][i].by] = "committed"
      BY <2>1, <2>2
    <2> QED
      BY <2>1, <2>3
  <1> QED
    BY <1>1, <1>2

LEMMA InsertKeepsInv ==
  ASSUME TagsInv, NEW p \in Publication, Insert(p)
  PROVE  TagsInv'
  <1> USE DEF TagsInv
  <1>1. PICK n \in Name :
          /\ IsNext(p, n) /\ lock[n] = None
          /\ lock' = [lock EXCEPT ![n] = p]
          /\ tag' = [tag EXCEPT ![n] = IF @ = NoTag THEN [by |-> p, active |-> TRUE] ELSE @]
    BY DEF Insert
  <1>2. pc[p] = "insert" /\ pc' = [pc EXCEPT ![p] = "select"] /\ UNCHANGED <<names, resolved, refs>>
    BY DEF Insert
  <1>3. \A q \in Publication : Wanted(q)' = Wanted(q) /\ Unresolved(q)' = Unresolved(q)
                               /\ Unresolved(q) \subseteq Name
    BY <1>2, WantedIsNames DEF Wanted, Unresolved
  <1>4. /\ pc'[p] = "select" /\ \A q \in Publication \ {p} : pc'[q] = pc[q]
        /\ lock'[n] = p /\ \A m \in Name \ {n} : lock'[m] = lock[m]
        /\ \A m \in Name \ {n} : tag'[m] = tag[m]
        /\ tag'[n] = IF tag[n] = NoTag THEN [by |-> p, active |-> TRUE] ELSE tag[n]
    BY <1>1, <1>2 DEF TypeOK
  <1>5. TypeOK'
    <2>1. [by |-> p, active |-> TRUE] \in Row
      BY DEF Row
    <2> QED
      BY <1>1, <1>2, <2>1 DEF TypeOK
  <1>6. LocksAreHeld'
    <2> SUFFICES ASSUME NEW q \in Publication
                 PROVE  /\ pc'[q] \in {"idle", "committed", "rolledback"} => \A m \in Name : lock'[m] # q
                        /\ \A m \in Name : lock'[m] = q => m \in Wanted(q)
                              /\ \A k \in Unresolved(q) : k >= m
                        /\ pc'[q] = "insert" => \A m \in Unresolved(q) : lock'[m] # q
                        /\ pc'[q] = "select" => \A m \in Name : IsNext(q, m) => lock'[m] = q
                        /\ pc'[q] = "idle" => \A m \in Name : resolved[q][m] = NoTag
      BY <1>2, <1>3 DEF LocksAreHeld, IsNext
    <2>1. CASE q = p
      <3>1. n \in Wanted(p) /\ \A k \in Unresolved(p) : k >= n
        BY <1>1, <1>3 DEF IsNext, Unresolved
      <3>2. \A m \in Name : IsNext(p, m) => m = n
        BY <1>1, <1>3 DEF IsNext
      <3> QED
        BY <1>4, <2>1, <3>1, <3>2 DEF LocksAreHeld
    <2>2. CASE q # p
      BY <1>1, <1>3, <1>4, <2>2 DEF LocksAreHeld, IsNext
    <2> QED
      BY <2>1, <2>2
  <1>7. ResolvedIsLocked'
    <2> SUFFICES ASSUME NEW q \in Publication
                 PROVE  /\ pc'[q] \in {"insert", "select", "refer"} =>
                             \A m \in Name : resolved[q][m] # NoTag => lock'[m] = q /\ resolved[q][m] = tag'[m]
                        /\ pc'[q] = "refer" => Unresolved(q) = {}
                        /\ pc'[q] = "rolledback" \/ pc'[q] = "idle" => \A m \in Name : tag'[m].by # q
                        /\ pc'[q] # "committed" => \A m \in Name : tag'[m].by = q => lock'[m] = q
      BY <1>2, <1>3 DEF ResolvedIsLocked
    <2>1. pc[q] \in {"insert", "select", "refer"} => resolved[q][n] = NoTag
      BY <1>1 DEF ResolvedIsLocked
    <2>2. pc[q] # "committed" => tag[n].by # q
      BY <1>1 DEF ResolvedIsLocked
    <2> QED
      BY <1>2, <1>4, <2>1, <2>2 DEF ResolvedIsLocked
  <1>8. LockedRowsExist'
    BY <1>4, RowsAreTags DEF LockedRowsExist
  <1>9. RevisionsShareTags'
    BY <1>2, <1>4, RowsAreTags, RevisionsKept
  <1> QED
    BY <1>5, <1>6, <1>7, <1>8, <1>9

LEMMA SelectKeepsInv ==
  ASSUME TagsInv, NEW p \in Publication, Select(p)
  PROVE  TagsInv'
  <1> USE DEF TagsInv
  <1>1. PICK n \in Name :
          /\ IsNext(p, n)
          /\ IF tag[n].active
             THEN /\ resolved' = [resolved EXCEPT ![p][n] = tag[n]]
                  /\ pc' = [pc EXCEPT ![p] = IF Unresolved(p) = {n} THEN "refer" ELSE "insert"]
             ELSE pc' = [pc EXCEPT ![p] = "error"] /\ UNCHANGED resolved
    BY DEF Select, Found
  <1>2. pc[p] = "select" /\ UNCHANGED <<names, refs, tag, lock>>
    BY DEF Select
  <1>3. lock[n] = p /\ n \in Unresolved(p)
    BY <1>1, <1>2 DEF LocksAreHeld, IsNext
  <1>4. /\ pc'[p] \in {"insert", "refer", "error"} /\ \A q \in Publication \ {p} : pc'[q] = pc[q]
        /\ \A q \in Publication \ {p} : resolved'[q] = resolved[q]
        /\ \A m \in Name \ {n} : resolved'[p][m] = resolved[p][m]
        /\ pc'[p] # "error" => tag[n].active /\ resolved'[p][n] = tag[n]
        /\ pc'[p] = "error" => UNCHANGED resolved
    BY <1>1, <1>2 DEF TypeOK
  <1>5. TypeOK'
    <2>1. [resolved[p] EXCEPT ![n] = tag[n]] \in [Name -> Row \cup {NoTag}]
      BY DEF TypeOK
    <2>2. resolved' \in [Publication -> [Name -> Row \cup {NoTag}]]
      BY <1>1, <2>1 DEF TypeOK
    <2>3. \E c \in {"insert", "refer", "error"} : pc' = [pc EXCEPT ![p] = c]
      BY <1>1
    <2>4. pc' \in [Publication -> {"idle", "insert", "select", "refer", "error", "committed",
                                   "rolledback"}]
      BY <2>3 DEF TypeOK
    <2> QED
      BY <1>2, <2>2, <2>4 DEF TypeOK
  <1>6. tag[n].active => tag[n] # NoTag
    BY DEF NoTag
  <1>7. /\ \A q \in Publication : Wanted(q)' = Wanted(q) /\ Unresolved(q) \subseteq Name
        /\ \A q \in Publication \ {p} : Unresolved(q)' = Unresolved(q)
        /\ Unresolved(p)' = IF pc'[p] = "error" THEN Unresolved(p) ELSE Unresolved(p) \ {n}
    <2>1. \A q \in Publication : Wanted(q)' = Wanted(q) /\ Wanted(q) \subseteq Name
                                 /\ Unresolved(q) \subseteq Name
      BY <1>2, WantedIsNames DEF Wanted
    <2>2. \A q \in Publication \ {p} : Unresolved(q)' = Unresolved(q)
      BY <1>4, <2>1 DEF Unresolved
    <2>3. CASE pc'[p] = "error"
      <3>1. Unresolved(p)' = Unresolved(p)
        BY <1>4, <2>1, <2>3 DEF Unresolved
      <3> QED
        BY <2>1, <2>2, <2>3, <3>1
    <2>4. CASE pc'[p] # "error"
      <3>1. resolved'[p][n] # NoTag
        BY <1>4, <1>6, <2>4
      <3>2. Unresolved(p)' = Unresolved(p) \ {n}
        BY <1>4, <2>1, <3>1 DEF Unresolved
      <3> QED
        BY <2>1, <2>2, <2>4, <3>2
    <2> QED
      BY <2>3, <2>4
  <1>8. LocksAreHeld'
    <2> SUFFICES ASSUME NEW q \in Publication
                 PROVE  /\ pc'[q] \in {"idle", "committed", "rolledback"} => \A m \in Name : lock[m] # q
                        /\ \A m \in Name : lock[m] = q => m \in Wanted(q)
                              /\ \A k \in Unresolved(q)' : k >= m
                        /\ pc'[q] = "insert" => \A m \in Unresolved(q)' : lock[m] # q
                        /\ pc'[q] = "select" => \A m \in Name : IsNext(q, m)' => lock[m] = q
                        /\ pc'[q] = "idle" => \A m \in Name : resolved'[q][m] = NoTag
      BY <1>2, <1>7 DEF LocksAreHeld
    <2>1. CASE q = p
      <3>1. \A m \in Name : lock[m] = p => m \in Wanted(p) /\ \A k \in Unresolved(p) : k >= m
        BY DEF LocksAreHeld
      <3>2. \A m \in Name : lock[m] = p /\ m \in Unresolved(p) => m = n
        BY <1>1, <1>3, <3>1, <1>7 DEF IsNext
      <3> QED
        BY <1>4, <1>7, <2>1, <3>1, <3>2
    <2>2. CASE q # p
      BY <1>4, <1>7, <2>2 DEF LocksAreHeld, IsNext
    <2> QED
      BY <2>1, <2>2
  <1>9. ResolvedIsLocked'
    <2> SUFFICES ASSUME NEW q \in Publication
                 PROVE  /\ pc'[q] \in {"insert", "select", "refer"} =>
                             \A m \in Name : resolved'[q][m] # NoTag => lock[m] = q /\ resolved'[q][m] = tag[m]
                        /\ pc'[q] = "refer" => Unresolved(q)' = {}
                        /\ pc'[q] = "rolledback" \/ pc'[q] = "idle" => \A m \in Name : tag[m].by # q
                        /\ pc'[q] # "committed" => \A m \in Name : tag[m].by = q => lock[m] = q
      BY <1>2 DEF ResolvedIsLocked
    <2>1. pc'[p] = "refer" => Unresolved(p)' = {}
      BY <1>1, <1>7 DEF TypeOK
    <2> QED
      BY <1>2, <1>3, <1>4, <1>7, <2>1 DEF ResolvedIsLocked
  <1>10. LockedRowsExist'
    BY <1>2 DEF LockedRowsExist
  <1>11. RevisionsShareTags'
    BY <1>2, <1>4, RevisionsKept
  <1> QED
    BY <1>5, <1>8, <1>9, <1>10, <1>11

(* The end of a transaction releases its locks. *)
LEMMA ReleasedLocks ==
  ASSUME TypeOK, NEW p \in Publication, lock' = Released(p)
  PROVE  /\ lock' \in [Name -> Publication \cup {None}]
         /\ \A n \in Name : lock'[n] = (IF lock[n] = p THEN None ELSE lock[n])
         /\ \A n \in Name : lock'[n] # p
  BY DEF TypeOK, Released

LEMMA CommitKeepsInv ==
  ASSUME TagsInv, NEW p \in Publication, Commit(p)
  PROVE  TagsInv'
  <1> USE DEF TagsInv
  <1>1. /\ pc[p] = "refer" /\ pc' = [pc EXCEPT ![p] = "committed"]
        /\ refs' = [refs EXCEPT ![p] =
             [i \in DOMAIN names[p] |-> [tag |-> names[p][i], by |-> resolved[p][names[p][i]].by]]]
        /\ lock' = Released(p) /\ UNCHANGED <<names, resolved, tag>>
    BY DEF Commit
  <1>2. \A q \in Publication : Wanted(q)' = Wanted(q) /\ Unresolved(q)' = Unresolved(q)
    BY <1>1 DEF Wanted, Unresolved
  <1>3. pc'[p] = "committed" /\ \A q \in Publication \ {p} : pc'[q] = pc[q] /\ refs'[q] = refs[q]
    BY <1>1 DEF TypeOK
  <1>4. names[p] \in Seq(Name)
    BY WantedIsNames
  <1>5. \A n \in Wanted(p) : n \in Name /\ lock[n] = p /\ resolved[p][n] = tag[n] /\ tag[n] \in Row
    <2>1. \A n \in Wanted(p) : n \in Name /\ resolved[p][n] # NoTag
      BY <1>1, WantedIsNames DEF ResolvedIsLocked, Unresolved
    <2> QED
      BY <1>1, <2>1 DEF ResolvedIsLocked, TypeOK
  <1>6. refs'[p] = [i \in 1 .. Len(names[p]) |-> [tag |-> names[p][i], by |-> tag[names[p][i]].by]]
    <2>1. DOMAIN names[p] = 1 .. Len(names[p]) /\ \A i \in DOMAIN names[p] : names[p][i] \in Wanted(p)
      BY <1>4 DEF Wanted
    <2> QED
      BY <1>1, <1>5, <2>1 DEF TypeOK
  <1>7. \A i \in 1 .. Len(names[p]) : names[p][i] \in Wanted(p) /\ tag[names[p][i]].by \in Publication
    BY <1>4, <1>5 DEF Wanted, Row
  <1>8. TypeOK'
    <2>1. \A i \in 1 .. Len(names[p]) :
            [tag |-> names[p][i], by |-> tag[names[p][i]].by] \in [tag : Name, by : Publication]
      BY <1>5, <1>7
    <2>2. refs'[p] \in Seq([tag : Name, by : Publication])
      BY <1>4, <1>6, <2>1
    <2> QED
      BY <1>1, <2>2, ReleasedLocks DEF TypeOK
  <1>9. LocksAreHeld'
    <2> SUFFICES ASSUME NEW q \in Publication
                 PROVE  /\ pc'[q] \in {"idle", "committed", "rolledback"} => \A m \in Name : lock'[m] # q
                        /\ \A m \in Name : lock'[m] = q => m \in Wanted(q)
                              /\ \A k \in Unresolved(q) : k >= m
                        /\ pc'[q] = "insert" => \A m \in Unresolved(q) : lock'[m] # q
                        /\ pc'[q] = "select" => \A m \in Name : IsNext(q, m) => lock'[m] = q
                        /\ pc'[q] = "idle" => \A m \in Name : resolved[q][m] = NoTag
      BY <1>1, <1>2 DEF LocksAreHeld, IsNext
    <2>1. CASE q = p
      BY <1>3, <2>1, ReleasedLocks, <1>1
    <2>2. CASE q # p
      <3>1. \A m \in Name : lock'[m] = q <=> lock[m] = q
        BY <1>1, <2>2, ReleasedLocks
      <3>2. Unresolved(q) \subseteq Name
        BY WantedIsNames
      <3>3. /\ pc[q] \in {"idle", "committed", "rolledback"} => \A m \in Name : lock[m] # q
            /\ \A m \in Name : lock[m] = q => m \in Wanted(q) /\ \A k \in Unresolved(q) : k >= m
            /\ pc[q] = "insert" => \A m \in Unresolved(q) : lock[m] # q
            /\ pc[q] = "select" => \A m \in Name : IsNext(q, m) => lock[m] = q
            /\ pc[q] = "idle" => \A m \in Name : resolved[q][m] = NoTag
        BY Zenon DEF LocksAreHeld
      <3>4. pc'[q] = pc[q]
        BY <1>3, <2>2
      <3> QED
        BY <3>1, <3>2, <3>3, <3>4
    <2> QED
      BY <2>1, <2>2
  <1>10. ResolvedIsLocked'
    BY <1>1, <1>2, <1>3, ReleasedLocks DEF ResolvedIsLocked
  <1>11. LockedRowsExist'
    BY <1>1, ReleasedLocks DEF LockedRowsExist
  <1>12. RevisionsShareTags'
    <2> SUFFICES ASSUME NEW q \in Publication, pc'[q] = "committed"
                 PROVE  /\ Len(refs'[q]) = Len(names[q])
                        /\ \A i \in DOMAIN names[q] :
                             /\ refs'[q][i] = [tag |-> names[q][i], by |-> tag[names[q][i]].by]
                             /\ pc'[refs'[q][i].by] = "committed"
      <3>1. names' = names /\ tag' = tag
        BY <1>1
      <3> QED
        BY <3>1 DEF RevisionsShareTags
    <2>1. CASE q = p
      <3>1. Len(refs'[p]) = Len(names[p])
        BY <1>4, <1>6
      <3>2. \A i \in 1 .. Len(names[p]) : pc'[tag[names[p][i]].by] = "committed"
        <4> SUFFICES ASSUME NEW n \in Wanted(p), tag[n].by # p PROVE pc'[tag[n].by] = "committed"
          BY <1>3, <1>7
        <4>1. n \in Name /\ lock[n] = p /\ tag[n].by \in Publication
          BY <1>5 DEF Row
        <4>2. pc[tag[n].by] = "committed"
          BY <4>1 DEF ResolvedIsLocked
        <4> QED
          BY <1>3, <4>1, <4>2
      <3> QED
        BY <1>4, <1>6, <2>1, <3>1, <3>2
    <2>2. CASE q # p
      <3>1. pc[q] = "committed" /\ refs'[q] = refs[q]
        BY <1>3, <2>2
      <3>2. \A i \in DOMAIN names[q] : refs[q][i].by \in Publication /\ pc[refs[q][i].by] = "committed"
        <4>1. \A i \in DOMAIN names[q] : refs[q][i].by \in Publication
          BY <3>1, CommittedRefs
        <4>2. \A i \in DOMAIN names[q] : pc[refs[q][i].by] = "committed"
          BY <3>1 DEF RevisionsShareTags
        <4> QED
          BY <4>1, <4>2
      <3>3. Len(refs[q]) = Len(names[q]) /\ \A i \in DOMAIN names[q] :
              refs[q][i] = [tag |-> names[q][i], by |-> tag[names[q][i]].by]
        BY <3>1 DEF RevisionsShareTags
      <3>4. \A r \in Publication : pc[r] = "committed" => pc'[r] = "committed"
        BY <1>3
      <3> QED
        BY <3>1, <3>2, <3>3, <3>4
    <2> QED
      BY <2>1, <2>2
  <1> QED
    BY <1>8, <1>9, <1>10, <1>11, <1>12

LEMMA RollbackKeepsInv ==
  ASSUME TagsInv, NEW p \in Publication, Rollback(p)
  PROVE  TagsInv'
  <1> USE DEF TagsInv
  <1>1. /\ pc[p] \in {"insert", "select", "refer", "error"}
        /\ pc' = [pc EXCEPT ![p] = "rolledback"]
        /\ tag' = [n \in Name |-> IF tag[n].by = p THEN NoTag ELSE tag[n]]
        /\ lock' = Released(p) /\ UNCHANGED <<names, resolved, refs>>
    BY DEF Rollback
  <1>2. \A q \in Publication : Wanted(q)' = Wanted(q) /\ Unresolved(q)' = Unresolved(q)
    BY <1>1 DEF Wanted, Unresolved
  <1>3. pc'[p] = "rolledback" /\ \A q \in Publication \ {p} : pc'[q] = pc[q]
    BY <1>1 DEF TypeOK
  <1>4. \A n \in Name : tag'[n] = (IF tag[n].by = p THEN NoTag ELSE tag[n])
    BY <1>1
  <1>5. \A n \in Name : tag[n].by = p => lock[n] = p
    BY <1>1 DEF ResolvedIsLocked
  <1>6. TypeOK'
    BY <1>1, ReleasedLocks DEF TypeOK
  <1>7. LocksAreHeld'
    <2> SUFFICES ASSUME NEW q \in Publication
                 PROVE  /\ pc'[q] \in {"idle", "committed", "rolledback"} => \A m \in Name : lock'[m] # q
                        /\ \A m \in Name : lock'[m] = q => m \in Wanted(q)
                              /\ \A k \in Unresolved(q) : k >= m
                        /\ pc'[q] = "insert" => \A m \in Unresolved(q) : lock'[m] # q
                        /\ pc'[q] = "select" => \A m \in Name : IsNext(q, m) => lock'[m] = q
                        /\ pc'[q] = "idle" => \A m \in Name : resolved[q][m] = NoTag
      BY <1>1, <1>2 DEF LocksAreHeld, IsNext
    <2>1. CASE q = p
      BY <1>3, <2>1, ReleasedLocks, <1>1
    <2>2. CASE q # p
      <3>1. \A m \in Name : lock'[m] = q <=> lock[m] = q
        BY <1>1, <2>2, ReleasedLocks
      <3>2. Unresolved(q) \subseteq Name
        BY WantedIsNames
      <3> QED
        BY <1>3, <2>2, <3>1, <3>2 DEF LocksAreHeld
    <2> QED
      BY <2>1, <2>2
  <1>8. ResolvedIsLocked'
    BY <1>1, <1>2, <1>3, <1>4, <1>5, ReleasedLocks, RowsAreTags DEF ResolvedIsLocked
  <1>9. LockedRowsExist'
    <2> SUFFICES ASSUME NEW n \in Name, lock'[n] # None PROVE tag'[n] # NoTag
      BY DEF LockedRowsExist
    <2>1. lock[n] # None /\ lock[n] # p
      BY <1>1, ReleasedLocks
    <2> QED
      BY <1>4, <1>5, <2>1 DEF LockedRowsExist
  <1>10. RevisionsShareTags'
    BY <1>1, <1>3, <1>4, RevisionsKept
  <1> QED
    BY <1>6, <1>7, <1>8, <1>9, <1>10

LEMMA SetStatusKeepsInv ==
  ASSUME TagsInv, NEW n \in Name, SetStatus(n)
  PROVE  TagsInv'
  <1> USE DEF TagsInv
  <1>1. tag[n] # NoTag /\ lock[n] = None /\ tag' = [tag EXCEPT ![n].active = ~@]
        /\ UNCHANGED <<pc, names, resolved, refs, lock>>
    BY DEF SetStatus
  <1>2. tag[n] \in Row /\ tag'[n] = [by |-> tag[n].by, active |-> ~tag[n].active]
        /\ \A m \in Name \ {n} : tag'[m] = tag[m]
    BY <1>1 DEF TypeOK, Row
  <1>3. tag'[n] \in Row /\ \A m \in Name : tag'[m].by = tag[m].by
    BY <1>2 DEF Row
  <1>4. \A q \in Publication : Wanted(q)' = Wanted(q) /\ Unresolved(q)' = Unresolved(q)
    BY <1>1 DEF Wanted, Unresolved
  <1>5. TypeOK'
    BY <1>1, <1>2, <1>3 DEF TypeOK
  <1>6. LocksAreHeld'
    BY <1>1, <1>4 DEF LocksAreHeld, IsNext
  <1>7. ResolvedIsLocked'
    BY <1>1, <1>2, <1>3, <1>4 DEF ResolvedIsLocked
  <1>8. LockedRowsExist'
    BY <1>1, <1>2, <1>3, RowsAreTags DEF LockedRowsExist
  <1>9. RevisionsShareTags'
    BY <1>1, <1>3, RevisionsKept
  <1> QED
    BY <1>5, <1>6, <1>7, <1>8, <1>9

-----------------------------------------------------------------------------
(* The inductive invariant holds in every reachable state: which rows are   *)
(* locked, by whom, and what is known of them.                              *)
THEOREM SpecTagsInv == Spec => []TagsInv
  <1>1. ASSUME TagsInv, [Next]_vars PROVE TagsInv'
    <2>1. CASE UNCHANGED vars
      <3>1. UNCHANGED <<pc, names, resolved, refs, tag, lock>>
        BY <2>1 DEF vars
      <3>2. \A q \in Publication : Wanted(q)' = Wanted(q) /\ Unresolved(q)' = Unresolved(q)
        BY <3>1 DEF Wanted, Unresolved
      <3>3. TypeOK' /\ LockedRowsExist'
        BY <1>1, <3>1 DEF TagsInv, TypeOK, LockedRowsExist
      <3>4. RevisionsShareTags'
        BY <1>1, <3>1, RevisionsKept DEF TagsInv
      <3>5. LocksAreHeld' /\ ResolvedIsLocked'
        BY <1>1, <3>1, <3>2 DEF TagsInv, LocksAreHeld, ResolvedIsLocked, IsNext
      <3> QED
        BY <3>3, <3>4, <3>5 DEF TagsInv
    <2>2. CASE Next
      BY <1>1, <2>2, BeginKeepsInv, InsertKeepsInv, SelectKeepsInv, CommitKeepsInv,
         RollbackKeepsInv, SetStatusKeepsInv DEF Next
    <2> QED
      BY <1>1, <2>1, <2>2
  <1> QED
    BY <1>1, InitInv, PTL DEF Spec

(* Published revisions refer to tags that are committed and shared by name. *)
THEOREM SpecRevisionsShareTags == Spec => []RevisionsShareTags
  <1>1. TagsInv => RevisionsShareTags
    BY DEF TagsInv
  <1> QED
    BY <1>1, SpecTagsInv, PTL

(* How many names come after n; fewer, the later n is. *)
Later(n) == Cardinality({m \in Name : m > n})
LEMMA LaterDecreases ==
  ASSUME NEW n \in Name, NEW m \in Name, n < m
  PROVE  Later(n) \in Nat /\ Later(m) \in Nat /\ Later(m) < Later(n)
  <1> DEFINE A == {k \in Name : k > n}
             B == {k \in Name : k > m}
  <1>0. \A k \in Name : k > m => k > n
    OBVIOUS
  <1>1. /\ B \in SUBSET A
        /\ m \in A
        /\ m \notin B
    <2>1. B \subseteq A
      BY <1>0
    <2>2. m \in Nat /\ m > n /\ ~(m > m)
      OBVIOUS
    <2> QED
      BY <2>1, <2>2
  <1>2. IsFiniteSet(A) /\ IsFiniteSet(B)
    <2>1. A \in SUBSET Name /\ B \in SUBSET Name
      OBVIOUS
    <2> QED
      BY <2>1, FS_Subset
  <1>3. Cardinality(A) \in Nat /\ Cardinality(B) \in Nat
    BY <1>2, FS_CardinalityType
  <1>4. Cardinality(B) <= Cardinality(A) /\ Cardinality(A) # Cardinality(B)
    BY <1>1, <1>2, FS_Subset
  <1> QED
    BY <1>3, <1>4 DEF Later

(* Publications never all wait for each other: of those that wait for one   *)
(* another, the one that waits for the last name waits for somebody else.   *)
THEOREM SpecNoDeadlock == Spec => []NoDeadlock
  <1>1. TagsInv => NoDeadlock
    <2> SUFFICES ASSUME TagsInv, NEW S \in (SUBSET Publication) \ {{}},
                        ~ \E p \in S : \A q \in S : ~WaitsFor(p, q)
                 PROVE  FALSE
      BY DEF NoDeadlock
    <2> DEFINE W == {n \in Name : \E p \in S : pc[p] = "insert" /\ IsNext(p, n)
                                               /\ \E q \in S : lock[n] = q}
               T == {Later(n) : n \in W}
    <2>1. W # {}
      BY DEF WaitsFor
    <2>2. \A n \in W : \E m \in W : n < m
      <3> SUFFICES ASSUME NEW n \in W PROVE \E m \in W : n < m
        OBVIOUS
      <3>1. PICK q \in S : lock[n] = q
        OBVIOUS
      <3>2. PICK m \in Name : pc[q] = "insert" /\ IsNext(q, m) /\ \E r \in S : lock[m] = r
        BY DEF WaitsFor
      <3>3. m \in W
        BY <3>2
      <3>4. m \in Unresolved(q) /\ m >= n /\ lock[m] # q
        BY <3>1, <3>2 DEF TagsInv, LocksAreHeld, IsNext
      <3>5. n \in Nat /\ m \in Nat /\ n # m
        BY <3>1, <3>4
      <3> QED
        BY <3>3, <3>4, <3>5
    <2>3. T \subseteq Nat /\ T # {}
      BY <2>1, <2>2, LaterDecreases
    <2>4. PICK k \in T : \A j \in T : ~(<<j, k>> \in OpToRel(<, Nat))
      <3> HIDE DEF T
      <3> QED
        BY <2>3, WFMin, NatLessThanWellFounded
    <2>5. PICK n \in W : k = Later(n)
      OBVIOUS
    <2>6. PICK m \in W : n < m
      BY <2>2
    <2>7. Later(m) \in T /\ Later(m) < k /\ k \in Nat /\ Later(m) \in Nat
      BY <2>5, <2>6, LaterDecreases
    <2> QED
      BY <2>4, <2>7 DEF OpToRel
  <1> QED
    BY <1>1, SpecTagsInv, PTL
=============================================================================
