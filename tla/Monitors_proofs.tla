-------------------------- MODULE Monitors_proofs ---------------------------
(***************************************************************************)
(* No remote monitor is forgotten, however the requests of users           *)
(* interleave and whatever fails.  By itself DanglingAccounted speaks of   *)
(* moments without a request; the invariant says who answers for a monitor *)
(* in between: its row, its user, or the creation still under way - which  *)
(* knows it by id, or only by its name after an empty answer.  That the    *)
(* name finds the right one rests on names being unique, and on no other   *)
(* request renaming a monitor that has no row yet.                         *)
(*                                                                         *)
(* And one user at a time, without faults, finds every monitor on the      *)
(* pages its row names.  PagesMatchIntent speaks of moments at rest too;   *)
(* World(o) says what is so while the request o is under way: the rows it  *)
(* is not at work on stand on their pages, and what is left of its edits   *)
(* brings its own name to the pages asked for, and off the old ones.       *)
(***************************************************************************)
EXTENDS Monitors, FiniteSetTheorems, TLAPS

Fields == {"pc", "kind", "row", "old", "name", "id", "ref", "pages", "edits",
           "seen", "errs"}
IsOp(o) == o = [f \in Fields |-> o[f]]
IsTold == told = [named |-> told.named, unseen |-> told.unseen, swept |-> told.swept]
IsSpent == spent = [requests |-> spent.requests, faults |-> spent.faults,
                    ids |-> spent.ids]

Shapes == /\ op = [u \in MonUsers |-> op[u]] /\ \A u \in MonUsers : IsOp(op[u])
          /\ row = [r \in MonRows |-> row[r]]
          /\ IsTold /\ IsSpent /\ spent.ids \in Nat

(* Ids are given out in order and never again.                             *)
OldId(i) == i \in Int /\ i <= spent.ids
Ids == /\ \A x \in remote : OldId(x.id)
       /\ \A r \in MonRows : OldId(row[r].id)
       /\ \A u \in MonUsers : OldId(op[u].id)

Names == \A x, y \in remote : x.name = y.name => x = y

(* Which request stands where; a delete request that is to drop its row    *)
(* has dropped the remote monitor or named it.                             *)
Gone(i) == i \in told.named \/ \A x \in remote : x.id # i
Stage(o) ==
  /\ o.kind \in {"none", "create", "update", "delete", "unlink"}
  /\ o.kind = "none" <=> o.pc = "idle"
  /\ o.pc \in {"post", "lookup"} => o.kind = "create"
  /\ o.pc = "patch" => o.kind = "update"
  /\ o.kind = "update" => o.id = o.old.id
  /\ o.pc = "commit" => o.kind = "delete" /\ Gone(o.id)
Stages == \A u \in MonUsers : Stage(op[u])

Known(i) == \/ \E r \in MonRows : HasRow(r) /\ row[r].id = i
            \/ i \in told.named \union told.unseen \union told.swept
Making(o, x) == /\ o.kind = "create"
                /\ \/ o.pc \in {"edit", "write"} /\ o.id = x.id
                   \/ o.pc = "lookup" /\ o.name = x.name
(* Each remote monitor is known, or a creation answers for it; a request   *)
(* about a row is about a monitor that is known or gone.                   *)
Answered == \A x \in remote :
              Known(x.id) \/ \E u \in MonUsers : Making(op[u], x)
Later(o) == o.kind \in {"update", "delete", "unlink"} =>
              \A x \in remote : x.id = o.id => Known(o.id)
Laters == \A u \in MonUsers : Later(op[u])

MonIInv == Shapes /\ Ids /\ Names /\ Stages /\ Answered /\ Laters

(* The start: no monitor, no row, no request.                              *)
LEMMA MonInitOK == MonInit => MonIInv
<1> SUFFICES ASSUME MonInit PROVE MonIInv
  OBVIOUS
<1>1. /\ remote = {} /\ \A u \in MonUsers : op[u] = NoOp
      /\ \A r \in MonRows : row[r] = NoRow
      /\ spent.ids = 0
  BY DEF MonInit
<1>2. NoOp.id = 0 /\ NoRow.id = 0 /\ IsOp(NoOp) /\ NoOp.kind = "none" /\ NoOp.pc = "idle"
  BY DEF NoOp, NoRow, IsOp, Fields
<1>3. Shapes
  BY <1>1, <1>2 DEF MonInit, Shapes, IsTold, IsSpent
<1>4. Ids
  BY <1>1, <1>2 DEF Ids, OldId
<1>5. Stages
  BY <1>1, <1>2 DEF Stages, Stage
<1> QED
  BY <1>1, <1>2, <1>3, <1>4, <1>5 DEF MonIInv, Names, Answered, Laters, Later

(* A request takes a step of its own that touches neither the monitors nor *)
(* the rows nor what users know: it begins, goes on, or ends.              *)
LEMMA OwnStep ==
  ASSUME MonIInv, NEW u \in MonUsers, NEW o, op' = [op EXCEPT ![u] = o],
         IsOp(o), OldId(o.id), Stage(o), Later(o),
         \A x \in remote : Making(op[u], x) => Known(x.id) \/ Making(o, x),
         spent'.ids = spent.ids, IsSpent', UNCHANGED <<remote, row, told>>
  PROVE  MonIInv'
<1>1. \A v \in MonUsers : op'[v] = IF v = u THEN o ELSE op[v]
  BY DEF MonIInv, Shapes
<1>2. Shapes'
  BY <1>1 DEF MonIInv, Shapes, IsTold, IsOp
<1>3. Ids' /\ Names'
  BY <1>1 DEF MonIInv, Ids, Names, OldId
<1>4. \A i : Known(i)' <=> Known(i)
  BY DEF Known, HasRow
<1>5. Stages'
  BY <1>1 DEF MonIInv, Stages, Stage, Gone
<1>6. Laters'
  BY <1>1, <1>4 DEF MonIInv, Laters, Later
<1>7. Answered'
  <2> SUFFICES ASSUME NEW x \in remote
               PROVE  Known(x.id) \/ \E v \in MonUsers : Making(op'[v], x)
    BY <1>4 DEF Answered, Making
  <2>1. Known(x.id) \/ \E v \in MonUsers : Making(op[v], x)
    BY DEF MonIInv, Answered
  <2> QED
    BY <2>1, <1>1
<1> QED
  BY <1>2, <1>3, <1>5, <1>6, <1>7 DEF MonIInv

(* The ends of the requests: nothing of a request is left.                 *)
LEMMA NoOpFits ==
  ASSUME MonIInv
  PROVE  /\ IsOp(NoOp) /\ NoOp.kind = "none" /\ NoOp.pc = "idle"
         /\ OldId(NoOp.id)
         /\ Stage(NoOp) /\ Later(NoOp) /\ \A x : ~Making(NoOp, x)
<1>1. NoOp.kind = "none" /\ NoOp.pc = "idle" /\ NoOp.id = 0
  BY DEF NoOp
<1>2. IsOp(NoOp)
  BY DEF NoOp, IsOp, Fields
<1>3. OldId(0)
  BY DEF OldId, MonIInv, Shapes
<1> QED
  BY <1>1, <1>2, <1>3 DEF Stage, Later, Making

(* A request begins: nobody's creation ended by it.                        *)
LEMMA BeginOK ==
  ASSUME MonIInv, NEW u \in MonUsers, NEW o, Begins(u, o), IsOp(o),
         OldId(o.id), Stage(o), Later(o), UNCHANGED <<remote, row, told>>
  PROVE  MonIInv'
<1>1. op' = [op EXCEPT ![u] = o] /\ spent'.ids = spent.ids /\ IsSpent'
  BY DEF Begins, MonIInv, Shapes, IsSpent
<1>2. \A x : ~Making(op[u], x)
  BY DEF Begins, MonIInv, Stages, Stage, Making
<1> QED
  BY <1>1, <1>2, OwnStep

LEMMA CreateMonitorOK ==
  ASSUME MonIInv, NEW u \in MonUsers, CreateMonitor(u)
  PROVE  MonIInv'
<1>1. PICK n \in MonNames, ps \in SUBSET mplan.pages :
        Begins(u, [NoOp EXCEPT !.pc = "post", !.kind = "create", !.name = n,
                               !.pages = ps])
  BY DEF CreateMonitor
<1> DEFINE o == [NoOp EXCEPT !.pc = "post", !.kind = "create", !.name = n,
                             !.pages = ps]
<1>2. IsOp(o) /\ o.pc = "post" /\ o.kind = "create" /\ o.id = 0
  BY DEF NoOp, IsOp, Fields
<1>3. OldId(0)
  BY DEF MonIInv, Shapes, OldId
<1> QED
  BY <1>1, <1>2, <1>3, BeginOK DEF CreateMonitor, Stage, Later

LEMMA UpdateMonitorOK ==
  ASSUME MonIInv, NEW u \in MonUsers, UpdateMonitor(u)
  PROVE  MonIInv'
<1>1. PICK r \in MonRows, n \in MonNames, ps \in SUBSET mplan.pages,
        pc \in {"patch", "edit"} :
        HasRow(r) /\ Begins(u, Updating(r, n, ps, pc))
  BY DEF UpdateMonitor
<1> DEFINE o == Updating(r, n, ps, pc)
<1>2. /\ IsOp(o) /\ o.pc \in {"patch", "edit"} /\ o.kind = "update"
      /\ o.id = row[r].id /\ o.old = row[r]
  BY DEF Updating, NoOp, IsOp, Fields
<1> HIDE DEF o
<1>3. OldId(o.id) /\ Known(o.id)
  BY <1>1, <1>2 DEF MonIInv, Ids, Known
<1>4. Begins(u, o)
  BY <1>1 DEF o
<1> QED
  BY <1>2, <1>3, <1>4, BeginOK DEF UpdateMonitor, Stage, Later

LEMMA DeleteMonitorOK ==
  ASSUME MonIInv, NEW u \in MonUsers, DeleteMonitor(u)
  PROVE  MonIInv'
<1>1. PICK r \in MonRows, kind \in {"unlink", "delete"} : \E es :
        /\ HasRow(r)
        /\ Begins(u, [NoOp EXCEPT !.kind = kind, !.row = r, !.id = row[r].id,
                                  !.pc = "edit", !.edits = es])
  BY DEF DeleteMonitor
<1>a. PICK es :
        /\ HasRow(r)
        /\ Begins(u, [NoOp EXCEPT !.kind = kind, !.row = r, !.id = row[r].id,
                                  !.pc = "edit", !.edits = es])
  BY <1>1
<1> DEFINE o == [NoOp EXCEPT !.kind = kind, !.row = r, !.id = row[r].id,
                             !.pc = "edit", !.edits = es]
<1>2. /\ IsOp(o) /\ o.pc = "edit" /\ o.kind \in {"unlink", "delete"}
      /\ o.id = row[r].id
  BY DEF NoOp, IsOp, Fields
<1>3. OldId(o.id) /\ Known(o.id)
  BY <1>a, <1>2 DEF MonIInv, Ids, Known
<1> QED
  BY <1>a, <1>2, <1>3, BeginOK DEF DeleteMonitor, Stage, Later

(* Page edits: the request goes on as what it was.                         *)
LEMMA GoesOn ==
  ASSUME MonIInv, NEW u \in MonUsers, NEW o, op' = [op EXCEPT ![u] = o],
         IsOp(o), op[u].pc \in {"edit", "write"}, o.pc \in {"edit", "write"},
         o.kind = op[u].kind, o.id = op[u].id, o.old = op[u].old,
         spent'.ids = spent.ids, IsSpent', UNCHANGED <<remote, row, told>>
  PROVE  MonIInv'
<1>1. OldId(o.id)
  BY DEF MonIInv, Ids
<1>2. Stage(o) /\ Later(o)
  BY DEF MonIInv, Stages, Stage, Laters, Later
<1>3. \A x \in remote : Making(op[u], x) => Making(o, x)
  BY DEF Making
<1> QED
  BY <1>1, <1>2, <1>3, OwnStep

LEMMA PaidOK ==
  ASSUME MonIInv, NEW f, Paid(f) \/ UNCHANGED spent
  PROVE  spent'.ids = spent.ids /\ IsSpent'
  BY DEF Paid, MonIInv, Shapes, IsSpent

LEMMA NextEditOK ==
  ASSUME MonIInv, NEW u \in MonUsers, NEW failed, NextEdit(u, failed),
         op[u].pc \in {"edit", "write"},
         spent'.ids = spent.ids, IsSpent', UNCHANGED <<remote, row, told>>
  PROVE  MonIInv'
<1> DEFINE e == op[u].errs \/ failed
           o == [op[u] EXCEPT !.pc = "edit", !.edits = Tail(op[u].edits),
                              !.errs = e, !.seen = {}]
<1>1. op' = [op EXCEPT ![u].pc = "edit", ![u].edits = Tail(op[u].edits),
                       ![u].errs = e, ![u].seen = {}]
  BY Zenon DEF NextEdit
<1> HIDE DEF e
<1>2. IsOp(op[u]) /\ op = [v \in MonUsers |-> op[v]]
  BY DEF MonIInv, Shapes
<1>3. op' = [op EXCEPT ![u] = o]
  BY <1>1, <1>2
<1>4. /\ IsOp(o) /\ o.pc = "edit"
      /\ o.kind = op[u].kind /\ o.id = op[u].id /\ o.old = op[u].old
  BY <1>2 DEF IsOp, Fields
<1> QED
  BY <1>3, <1>4, GoesOn

LEMMA GetPageOK ==
  ASSUME MonIInv, NEW u \in MonUsers, GetPage(u)
  PROVE  MonIInv'
<1>1. spent'.ids = spent.ids /\ IsSpent' /\ UNCHANGED <<remote, row, told>>
      /\ op[u].pc = "edit"
  BY PaidOK DEF GetPage
<1>2. ASSUME NEW f, NextEdit(u, f) PROVE MonIInv'
  BY <1>1, <1>2, NextEditOK
<1>3. ASSUME NEW seen, op' = [op EXCEPT ![u].pc = "write", ![u].seen = seen]
      PROVE  MonIInv'
  <2> DEFINE o == [op[u] EXCEPT !.pc = "write", !.seen = seen]
  <2>1. IsOp(op[u]) /\ op = [v \in MonUsers |-> op[v]]
    BY DEF MonIInv, Shapes
  <2>2. op' = [op EXCEPT ![u] = o]
    BY <1>3, <2>1
  <2>3. /\ IsOp(o) /\ o.pc = "write"
        /\ o.kind = op[u].kind /\ o.id = op[u].id /\ o.old = op[u].old
    BY <2>1 DEF IsOp, Fields
  <2> QED
    BY <1>1, <2>2, <2>3, GoesOn
<1> QED
  BY <1>2, <1>3 DEF GetPage

LEMMA PatchPageOK ==
  ASSUME MonIInv, NEW u \in MonUsers, PatchPage(u)
  PROVE  MonIInv'
<1>1. spent'.ids = spent.ids /\ IsSpent' /\ UNCHANGED <<remote, row, told>>
      /\ op[u].pc = "write"
  BY PaidOK DEF PatchPage
<1>2. NextEdit(u, FALSE) \/ NextEdit(u, TRUE)
  BY DEF PatchPage
<1> QED
  BY <1>1, <1>2, NextEditOK

(* A step of one request in general: nothing known is forgotten, no id     *)
(* comes back, and after it there is an answer for every monitor.          *)
LEMMA SomeStep ==
  ASSUME MonIInv, NEW u \in MonUsers, NEW o, op' = [op EXCEPT ![u] = o],
         IsOp(o), IsSpent', IsTold', row' = [r \in MonRows |-> row'[r]],
         spent'.ids \in Nat, spent.ids <= spent'.ids,
         o.id \in Int, o.id <= spent'.ids,
         \A x \in remote' : x.id \in Int /\ x.id <= spent'.ids,
         \A r \in MonRows : row'[r].id \in Int /\ row'[r].id <= spent'.ids,
         \A x, y \in remote' : x.name = y.name => x = y,
         told.named \subseteq told'.named,
         \A x \in remote' : OldId(x.id) => \E y \in remote : y.id = x.id,
         \A i : Known(i) /\ (\E x \in remote' : x.id = i) => Known(i)',
         o.kind \in {"none", "create", "update", "delete", "unlink"},
         o.kind = "none" <=> o.pc = "idle",
         o.pc \in {"post", "lookup"} => o.kind = "create",
         o.pc = "patch" => o.kind = "update",
         o.kind = "update" => o.id = o.old.id,
         o.pc = "commit" =>
           /\ o.kind = "delete"
           /\ o.id \in told'.named \/ \A x \in remote' : x.id # o.id,
         o.kind \in {"update", "delete", "unlink"} =>
           \A x \in remote' : \A i : x.id = i /\ o.id = i => Known(i)',
         \A x \in remote' : \A i : x.id = i =>
           \/ Known(i)' \/ Making(o, x)
           \/ \E v \in MonUsers \ {u} : Making(op[v], x)
  PROVE  MonIInv'
<1>1. \A v \in MonUsers : op'[v] = IF v = u THEN o ELSE op[v]
  BY DEF MonIInv, Shapes
<1>2. Shapes'
  BY <1>1 DEF MonIInv, Shapes, IsTold, IsOp
<1>3. Names'
  BY DEF Names
<1>4. Ids'
  <2>1. ASSUME NEW v \in MonUsers PROVE OldId(op[v].id)'
    BY <1>1, <2>1 DEF MonIInv, Ids, OldId, Shapes
  <2> QED
    BY <2>1 DEF Ids, OldId
<1>5. Stages'
  <2> SUFFICES ASSUME NEW v \in MonUsers PROVE Stage(op[v])'
    BY DEF Stages
  <2>1. CASE v = u
    BY <1>1, <2>1 DEF Stage, Gone
  <2>2. CASE v # u
    <3>1. OldId(op[v].id) /\ Stage(op[v]) /\ op'[v] = op[v]
      BY <1>1, <2>2 DEF MonIInv, Ids, Stages
    <3>2. Gone(op[v].id) =>
            op[v].id \in told'.named \/ \A x \in remote' : x.id # op[v].id
      BY <3>1 DEF Gone
    <3> QED
      BY <3>1, <3>2 DEF Stage, Gone
  <2> QED
    BY <2>1, <2>2
<1>6. Laters'
  <2> SUFFICES ASSUME NEW v \in MonUsers, NEW x \in remote',
                      op'[v].kind \in {"update", "delete", "unlink"},
                      x.id = op'[v].id
               PROVE  Known(op[v].id)'
    BY DEF Laters, Later
  <2>1. CASE v = u
    BY <1>1, <2>1 DEF Known
  <2>2. CASE v # u
    <3>1. OldId(op[v].id) /\ Later(op[v]) /\ op'[v] = op[v]
      BY <1>1, <2>2 DEF MonIInv, Ids, Laters
    <3>2. Known(op[v].id)
      BY <3>1 DEF Later
    <3>3. \A i : i = op[v].id => Known(i)'
      BY <3>1, <3>2
    <3> QED
      BY <3>1, <3>3 DEF Known
  <2> QED
    BY <2>1, <2>2
<1>7. Answered'
  <2> SUFFICES ASSUME NEW x \in remote'
               PROVE  Known(x.id)' \/ \E v \in MonUsers : Making(op'[v], x)
    BY DEF Answered, Making
  <2> QED
    BY <1>1
<1> QED
  BY <1>2, <1>3, <1>4, <1>5, <1>6, <1>7 DEF MonIInv

(* A new monitor has an id that no row, request or monitor ever had; its   *)
(* creation answers for it by that id, or by its name, or ends.            *)
LEMMA PostMonitorOK ==
  ASSUME MonIInv, NEW u \in MonUsers, PostMonitor(u)
  PROVE  MonIInv'
<1>1. /\ op = [v \in MonUsers |-> op[v]] /\ IsOp(op[u]) /\ IsTold /\ IsSpent
      /\ row = [r \in MonRows |-> row[r]] /\ spent.ids \in Nat
      /\ op[u].kind = "create" /\ op[u].pc = "post" /\ OldId(op[u].id)
  BY DEF MonIInv, Shapes, Ids, Stages, Stage, PostMonitor
<1> DEFINE new == [id |-> spent.ids + 1, name |-> op[u].name]
<1>2. CASE
    /\ ~Taken(op[u].name) /\ remote' = remote \union {new}
    /\ \/ /\ spent' = [spent EXCEPT !.ids = @ + 1]
          /\ Linked(u, spent.ids + 1, "edit") \/ To(u, "lookup")
          /\ UNCHANGED told
       \/ /\ spent' = [spent EXCEPT !.ids = @ + 1, !.faults = @ + 1]
          /\ told' = [told EXCEPT !.unseen = @ \union {spent.ids + 1}]
          /\ Ends(u)
  <2> DEFINE i == spent.ids + 1
  <2>1. /\ ~OldId(i) /\ i \in Int /\ i > spent.ids
        /\ \A x \in remote : OldId(x.id) /\ x.name # op[u].name
    BY <1>1, <1>2 DEF MonIInv, Ids, OldId, Taken
  <2>2. /\ \A x, y \in remote' : x.name = y.name => x = y
        /\ \A x \in remote' : OldId(x.id) => \E y \in remote : y.id = x.id
        /\ \A x \in remote' : x.id \in Int /\ x.id <= i
    BY <1>1, <1>2, <2>1 DEF MonIInv, Names, OldId
  <2>3. /\ UNCHANGED row
        /\ \A r \in MonRows : row'[r].id \in Int /\ row'[r].id <= i
    BY <1>1 DEF PostMonitor, MonIInv, Ids, OldId
  <2>4. ASSUME NEW o, op' = [op EXCEPT ![u] = o], IsOp(o), o.kind = "create",
               \/ o.pc = "lookup" /\ o.name = op[u].name /\ o.id = op[u].id
               \/ o.pc = "edit" /\ o.id = i,
               spent'.ids = i, IsSpent', UNCHANGED told
        PROVE  MonIInv'
    <3>1. \A j : Known(j) => Known(j)'
      BY <2>3, <2>4 DEF Known, HasRow
    <3>2. o.id \in Int /\ o.id <= i
      BY <1>1, <2>1, <2>4 DEF OldId
    <3>3. Making(o, new)
      BY <2>4 DEF Making
    <3>4. \A x \in remote' : \A j : x.id = j =>
            \/ Known(j)' \/ Making(o, x) \/ \E v \in MonUsers \ {u} : Making(op[v], x)
      BY <1>1, <1>2, <2>4, <3>1, <3>3 DEF MonIInv, Answered, Making
    <3>5. IsTold' /\ told.named \subseteq told'.named
      BY <1>1, <2>4 DEF IsTold
    <3>6. row' = [r \in MonRows |-> row'[r]]
      BY <1>1, <2>3
    <3> HIDE DEF i, new
    <3> QED
      BY <1>1, <2>1, <2>2, <2>3, <2>4, <3>1, <3>2, <3>4, <3>5, <3>6, SomeStep DEF OldId
  <2>5. CASE Linked(u, i, "edit") /\ spent' = [spent EXCEPT !.ids = @ + 1] /\ UNCHANGED told
    <3> DEFINE es == Edits("add", op[u].pages, op[u].name)
               o == [op[u] EXCEPT !.id = i, !.ref = op[u].name, !.pc = "edit",
                                  !.edits = es]
    <3> HIDE DEF es
    <3>1. op' = [op EXCEPT ![u].id = i, ![u].ref = op[u].name, ![u].pc = "edit",
                           ![u].edits = es]
      BY <2>5 DEF Linked, es
    <3>2. op' = [op EXCEPT ![u] = o]
      BY <1>1, <3>1
    <3>3. IsOp(o) /\ o.kind = "create" /\ o.pc = "edit" /\ o.id = i
      BY <1>1 DEF IsOp, Fields
    <3>4. spent'.ids = i /\ IsSpent'
      BY <1>1, <2>5 DEF IsSpent
    <3> HIDE DEF o
    <3> QED
      BY <2>4, <2>5, <3>2, <3>3, <3>4
  <2>6. CASE To(u, "lookup") /\ spent' = [spent EXCEPT !.ids = @ + 1] /\ UNCHANGED told
    <3> DEFINE o == [op[u] EXCEPT !.pc = "lookup"]
    <3>2. op' = [op EXCEPT ![u] = o]
      BY <1>1, <2>6 DEF To
    <3>3. /\ IsOp(o) /\ o.kind = "create" /\ o.pc = "lookup" /\ o.id = op[u].id
          /\ o.name = op[u].name
      BY <1>1 DEF IsOp, Fields
    <3>4. spent'.ids = i /\ IsSpent'
      BY <1>1, <2>6 DEF IsSpent
    <3>5. UNCHANGED told
      BY <2>6
    <3> HIDE DEF o, i
    <3> QED
      BY <2>4, <3>2, <3>3, <3>4, <3>5
  <2>7. CASE /\ spent' = [spent EXCEPT !.ids = @ + 1, !.faults = @ + 1]
             /\ told' = [told EXCEPT !.unseen = @ \union {i}] /\ Ends(u)
    <3>1. IsTold' /\ told'.named = told.named /\ told'.swept = told.swept
          /\ told'.unseen = told.unseen \union {i}
      BY <1>1, <2>7 DEF IsTold
    <3>2. \A j : Known(j) => Known(j)'
      BY <2>3, <3>1 DEF Known, HasRow
    <3>3. \A j : j = i => Known(j)'
      BY <1>1, <3>1 DEF Known
    <3>4. \A x \in remote' : \A j : x.id = j =>
            \/ Known(j)' \/ Making(NoOp, x) \/ \E v \in MonUsers \ {u} : Making(op[v], x)
      BY <1>1, <1>2, <3>2, <3>3 DEF MonIInv, Answered, Making
    <3>5. spent'.ids = i /\ IsSpent'
      BY <1>1, <2>7 DEF IsSpent
    <3>6. row' = [r \in MonRows |-> row'[r]]
      BY <1>1, <2>3
    <3>7. op' = [op EXCEPT ![u] = NoOp]
      BY <2>7 DEF Ends
    <3>8. NoOp.id = 0 /\ 0 <= i
      BY <1>1 DEF NoOp
    <3> HIDE DEF i, new
    <3> QED
      BY <1>1, <2>1, <2>2, <2>3, <3>1, <3>2, <3>4, <3>5, <3>6, <3>7, <3>8, NoOpFits,
         SomeStep
  <2> QED
    BY <1>2, <2>5, <2>6, <2>7
<1>3. CASE Paid(~Taken(op[u].name)) /\ Ends(u) /\ UNCHANGED <<remote, told, row>>
  <2>1. spent'.ids = spent.ids /\ IsSpent'
    BY <1>3, PaidOK
  <2>2. \A x : ~Making(op[u], x)
    BY <1>1 DEF Making
  <2> QED
    BY <1>3, <2>1, <2>2, NoOpFits, OwnStep DEF Ends
<1> QED
  BY <1>2, <1>3, Zenon DEF PostMonitor

(* The name finds the monitor that was created: names are unique.          *)
LEMMA LookupOK ==
  ASSUME MonIInv, NEW u \in MonUsers, Lookup(u)
  PROVE  MonIInv'
<1>1. /\ op = [v \in MonUsers |-> op[v]] /\ IsOp(op[u]) /\ IsTold
      /\ row = [r \in MonRows |-> row[r]]
      /\ op[u].kind = "create" /\ op[u].pc = "lookup" /\ UNCHANGED <<remote, row>>
  BY DEF MonIInv, Shapes, Stages, Stage, Lookup
<1>2. ASSUME NEW x \in remote, x.name = op[u].name, Linked(u, x.id, "edit"),
             UNCHANGED <<spent, told>>
      PROVE  MonIInv'
  <2> DEFINE es == Edits("add", op[u].pages, op[u].name)
             o == [op[u] EXCEPT !.id = x.id, !.ref = op[u].name, !.pc = "edit",
                                !.edits = es]
  <2> HIDE DEF es
  <2>1. op' = [op EXCEPT ![u].id = x.id, ![u].ref = op[u].name, ![u].pc = "edit",
                         ![u].edits = es]
    BY <1>2 DEF Linked, es
  <2>2. op' = [op EXCEPT ![u] = o]
    BY <1>1, <2>1
  <2>3. IsOp(o) /\ o.kind = "create" /\ o.pc = "edit" /\ o.id = x.id
    BY <1>1 DEF IsOp, Fields
  <2> HIDE DEF o
  <2>4. OldId(o.id) /\ Stage(o) /\ Later(o)
    BY <2>3 DEF MonIInv, Ids, Stage, Later
  <2>5. \A y \in remote : Making(op[u], y) => Making(o, y)
    BY <1>1, <1>2, <2>3 DEF MonIInv, Names, Making
  <2>6. spent'.ids = spent.ids /\ IsSpent'
    BY <1>2, PaidOK
  <2> QED
    BY <1>1, <1>2, <2>2, <2>3, <2>4, <2>5, <2>6, OwnStep
<1>3. CASE /\ Paid(Taken(op[u].name)) /\ Ends(u)
           /\ told' = [told EXCEPT !.unseen = @ \union
                {x.id : x \in {y \in remote : y.name = op[u].name}}]
  <2> DEFINE lost == {x.id : x \in {y \in remote : y.name = op[u].name}}
  <2>1. spent'.ids = spent.ids /\ IsSpent'
    BY <1>3, PaidOK
  <2>2. /\ IsTold' /\ told'.named = told.named /\ told'.swept = told.swept
        /\ told'.unseen = told.unseen \union lost
    BY <1>1, <1>3 DEF IsTold
  <2>3. \A j : Known(j) \/ j \in lost => Known(j)'
    <3> HIDE DEF lost
    <3> QED
      BY <1>1, <2>2 DEF Known, HasRow
  <2>4. \A x \in remote : Making(op[u], x) => x.id \in lost
    BY <1>1 DEF Making
  <2> HIDE DEF lost
  <2>5. \A x \in remote' : \A j : x.id = j =>
          \/ Known(j)' \/ Making(NoOp, x) \/ \E v \in MonUsers \ {u} : Making(op[v], x)
    BY <1>1, <2>3, <2>4 DEF MonIInv, Answered
  <2>6. op' = [op EXCEPT ![u] = NoOp]
    BY <1>3 DEF Ends
  <2>7. /\ \A x \in remote' : x.id \in Int /\ x.id <= spent'.ids
        /\ \A r \in MonRows : row'[r].id \in Int /\ row'[r].id <= spent'.ids
        /\ \A x, y \in remote' : x.name = y.name => x = y
        /\ NoOp.id \in Int /\ NoOp.id <= spent'.ids
        /\ spent'.ids \in Nat /\ spent.ids <= spent'.ids
    BY <1>1, <2>1, NoOpFits DEF MonIInv, Ids, OldId, Names, Shapes
  <2> QED
    BY <1>1, <2>1, <2>2, <2>3, <2>5, <2>6, <2>7, NoOpFits, SomeStep
<1> QED
  BY <1>2, <1>3, Zenon DEF Lookup

(* A rename is about a monitor that is known: it takes no creation's name, *)
(* and no creation loses the one it has.                                   *)
LEMMA PatchMonitorOK ==
  ASSUME MonIInv, NEW u \in MonUsers, PatchMonitor(u)
  PROVE  MonIInv'
<1>1. /\ op = [v \in MonUsers |-> op[v]] /\ IsOp(op[u]) /\ IsTold
      /\ row = [r \in MonRows |-> row[r]] /\ spent.ids \in Nat
      /\ op[u].pc = "patch" /\ op[u].kind = "update" /\ op[u].id = op[u].old.id
      /\ OldId(op[u].id) /\ Later(op[u]) /\ UNCHANGED <<row, told>>
  BY DEF MonIInv, Shapes, Ids, Stages, Stage, Laters, PatchMonitor
<1>2. \A x : ~Making(op[u], x)
  BY <1>1 DEF Making
<1> DEFINE mine == {x \in remote : x.id = op[u].id}
           may == mine # {} /\ \A x \in remote \ mine : x.name # op[u].name
           new == [id |-> op[u].id, name |-> op[u].name]
           renamed == (remote \ mine) \union {new}
<1>3. ASSUME NEW o, op' = [op EXCEPT ![u] = o], IsOp(o),
             o = NoOp \/ (o.kind = "update" /\ o.pc = "edit" /\ o.id = op[u].id
                          /\ o.old = op[u].old),
             spent'.ids = spent.ids, IsSpent',
             remote' = remote \/ (may /\ remote' = renamed)
      PROVE  MonIInv'
  <2>1. /\ \A x \in remote' : \E y \in remote : y.id = x.id
        /\ \A x, y \in remote' : x.name = y.name => x = y
    BY <1>3 DEF MonIInv, Names
  <2>2. \A j : Known(j) => Known(j)'
    BY <1>1 DEF Known, HasRow
  <2>3. remote' # remote => Known(op[u].id)
    BY <1>1, <1>3 DEF Later
  <2>4. \A x \in remote' : x \in remote \/ (x.id = op[u].id /\ Known(op[u].id))
    <3>1. CASE remote' = remote
      BY <3>1
    <3>2. CASE remote' # remote /\ remote' = renamed
      BY <2>3, <3>2
    <3> QED
      BY <1>3, <3>1, <3>2
  <2>5. \A x \in remote' : \A j : x.id = j =>
          \/ Known(j)' \/ Making(o, x) \/ \E v \in MonUsers \ {u} : Making(op[v], x)
    BY <1>2, <2>2, <2>4 DEF MonIInv, Answered
  <2>6. /\ \A x \in remote' : x.id \in Int /\ x.id <= spent'.ids
        /\ \A r \in MonRows : row'[r].id \in Int /\ row'[r].id <= spent'.ids
        /\ spent'.ids \in Nat /\ spent.ids <= spent'.ids
    BY <1>1, <1>3, <2>1 DEF MonIInv, Ids, OldId
  <2>7. /\ o.id \in Int /\ o.id <= spent'.ids
        /\ o.kind \in {"none", "update"} /\ (o.kind = "none" <=> o.pc = "idle")
        /\ o.pc \in {"idle", "edit"} /\ (o.kind = "update" => o.id = o.old.id)
        /\ (o.kind = "update" => o.id = op[u].id)
    BY <1>1, <1>3, NoOpFits DEF OldId
  <2>8. o.kind = "update" =>
          \A x \in remote' : \A i : x.id = i /\ o.id = i => Known(i)'
    BY <1>1, <2>1, <2>2, <2>7 DEF Later
  <2>9. IsTold' /\ told.named \subseteq told'.named
        /\ row' = [r \in MonRows |-> row'[r]]
    BY <1>1 DEF IsTold
  <2> HIDE DEF mine, may, new, renamed
  <2> QED
    BY <1>3, <2>1, <2>2, <2>5, <2>6, <2>7, <2>8, <2>9, SomeStep
<1>4. spent'.ids = spent.ids /\ IsSpent'
  BY PaidOK DEF PatchMonitor
<1>5. remote' = remote \/ (may /\ remote' = renamed)
  BY Zenon DEF PatchMonitor
<1> HIDE DEF mine, may, new, renamed
<1>6. CASE Ends(u)
  <2>1. op' = [op EXCEPT ![u] = NoOp]
    BY <1>6 DEF Ends
  <2> QED
    BY <2>1, <1>3, <1>4, <1>5, NoOpFits
<1>7. CASE To(u, "edit")
  <2> DEFINE o == [op[u] EXCEPT !.pc = "edit"]
  <2>1. op' = [op EXCEPT ![u] = o]
    BY <1>1, <1>7 DEF To
  <2>2. IsOp(o) /\ o.kind = "update" /\ o.pc = "edit" /\ o.id = op[u].id
        /\ o.old = op[u].old
    BY <1>1 DEF IsOp, Fields
  <2> HIDE DEF o
  <2> QED
    BY <2>1, <2>2, <1>3, <1>4, <1>5
<1> QED
  BY <1>6, <1>7, Zenon DEF PatchMonitor

(* The remote monitor goes, or stays and is named.                         *)
LEMMA DropRemoteOK ==
  ASSUME MonIInv, NEW u \in MonUsers, DropRemote(u)
  PROVE  MonIInv'
<1> DEFINE o == [op[u] EXCEPT !.pc = "commit"]
<1>1. /\ op = [v \in MonUsers |-> op[v]] /\ IsOp(op[u]) /\ IsTold
      /\ row = [r \in MonRows |-> row[r]] /\ spent.ids \in Nat
      /\ op[u].kind = "delete" /\ op[u].pc = "edit"
      /\ OldId(op[u].id) /\ Later(op[u]) /\ UNCHANGED row
  BY DEF MonIInv, Shapes, Ids, Stages, Stage, Laters, DropRemote
<1>2. op' = [op EXCEPT ![u] = o]
  BY <1>1 DEF DropRemote, To
<1>3. IsOp(o) /\ o.kind = "delete" /\ o.pc = "commit" /\ o.id = op[u].id
  BY <1>1 DEF IsOp, Fields
<1> HIDE DEF o
<1>4. spent'.ids = spent.ids /\ IsSpent'
  BY PaidOK DEF DropRemote
<1>5. /\ \A x \in remote' : x \in remote
      /\ \A x \in remote' : x.id # op[u].id \/ op[u].id \in told'.named
      /\ IsTold' /\ told.named \subseteq told'.named
      /\ told'.unseen = told.unseen /\ told'.swept = told.swept
  BY <1>1 DEF DropRemote, IsTold
<1>6. \A j : Known(j) => Known(j)'
  BY <1>1, <1>5 DEF Known, HasRow
<1>7. \A x \in remote' : \A j : x.id = j =>
        \/ Known(j)' \/ Making(o, x) \/ \E v \in MonUsers \ {u} : Making(op[v], x)
  BY <1>1, <1>5, <1>6 DEF MonIInv, Answered, Making
<1>8. /\ \A x \in remote' : x.id \in Int /\ x.id <= spent'.ids
      /\ \A r \in MonRows : row'[r].id \in Int /\ row'[r].id <= spent'.ids
      /\ \A x, y \in remote' : x.name = y.name => x = y
      /\ o.id \in Int /\ o.id <= spent'.ids
      /\ spent'.ids \in Nat /\ spent.ids <= spent'.ids
  BY <1>1, <1>3, <1>4, <1>5 DEF MonIInv, Ids, OldId, Names
<1>9. \A x \in remote' : \A i : x.id = i /\ o.id = i => Known(i)'
  BY <1>1, <1>3, <1>5, <1>6 DEF Later
<1> QED
  BY <1>1, <1>2, <1>3, <1>4, <1>5, <1>6, <1>7, <1>8, <1>9, SomeStep

(* A request ends with its commit.                                         *)
LEMMA EndOK ==
  ASSUME MonIInv, NEW u \in MonUsers, Ends(u), spent'.ids = spent.ids, IsSpent',
         IsTold', row' = [r \in MonRows |-> row'[r]], UNCHANGED remote,
         \A r \in MonRows : row'[r].id \in Int /\ row'[r].id <= spent.ids,
         told.named \subseteq told'.named,
         \A i : Known(i) /\ (\E x \in remote : x.id = i) => Known(i)',
         \A x \in remote : \A i : x.id = i /\ Making(op[u], x) => Known(i)'
  PROVE  MonIInv'
<1>1. op' = [op EXCEPT ![u] = NoOp]
  BY DEF Ends
<1>2. \A x \in remote' : \A j : x.id = j =>
        \/ Known(j)' \/ Making(NoOp, x) \/ \E v \in MonUsers \ {u} : Making(op[v], x)
  BY DEF MonIInv, Answered
<1>3. /\ \A x \in remote' : x.id \in Int /\ x.id <= spent'.ids
      /\ \A x, y \in remote' : x.name = y.name => x = y
      /\ NoOp.id \in Int /\ NoOp.id <= spent'.ids
      /\ spent'.ids \in Nat /\ spent.ids <= spent'.ids
  BY NoOpFits DEF MonIInv, Ids, OldId, Names, Shapes
<1> QED
  BY <1>1, <1>2, <1>3, NoOpFits, SomeStep

LEMMA CommitCreateOK ==
  ASSUME MonIInv, NEW u \in MonUsers, CommitCreate(u)
  PROVE  MonIInv'
<1>1. PICK r \in MonRows : IsNext(r) /\ row' = [row EXCEPT ![r] = Stored(u)]
  BY DEF CommitCreate
<1>2. ~HasRow(r)
  BY <1>1, MonRowsAreInts DEF IsNext
<1>3. Stored(u).id = op[u].id /\ Stored(u).status # "none"
  BY DEF Stored
<1>4. /\ row = [q \in MonRows |-> row[q]] /\ OldId(op[u].id)
      /\ \A q \in MonRows : OldId(row[q].id)
      /\ op[u].pc = "edit" /\ op[u].kind = "create" /\ UNCHANGED <<told, remote, spent>>
      /\ IsTold /\ Ends(u)
  BY DEF MonIInv, Shapes, Ids, Stages, Stage, CommitCreate, Ready
<1> HIDE DEF Stored
<1>5. /\ row' = [q \in MonRows |-> row'[q]]
      /\ \A q \in MonRows : row'[q].id \in Int /\ row'[q].id <= spent.ids
      /\ \A q \in MonRows : row'[q] = IF q = r THEN Stored(u) ELSE row[q]
  BY <1>1, <1>3, <1>4 DEF OldId
<1>6. \A i : Known(i) => Known(i)'
  BY <1>2, <1>4, <1>5 DEF Known, HasRow
<1>7. \A i : i = op[u].id => Known(i)'
  BY <1>3, <1>5 DEF Known, HasRow
<1>8. \A x \in remote : \A i : x.id = i /\ Making(op[u], x) => Known(i)'
  BY <1>4, <1>7 DEF Making
<1>9. spent'.ids = spent.ids /\ IsSpent' /\ IsTold' /\ told.named \subseteq told'.named
  BY <1>4, PaidOK DEF IsTold
<1> QED
  BY <1>4, <1>5, <1>6, <1>8, <1>9, EndOK

LEMMA CommitUpdateOK ==
  ASSUME MonIInv, NEW u \in MonUsers, CommitUpdate(u)
  PROVE  MonIInv'
<1> DEFINE r == op[u].row
<1>1. /\ row = [q \in MonRows |-> row[q]]
      /\ \A q \in MonRows : OldId(row[q].id)
      /\ op[u].kind = "update" /\ op[u].id = op[u].old.id
      /\ UNCHANGED <<told, remote, spent>> /\ IsTold /\ Ends(u)
  BY DEF MonIInv, Shapes, Ids, Stages, Stage, CommitUpdate
<1>2. /\ Stored(u).id = op[u].id /\ Stored(u).status # "none"
      /\ "id" \in DOMAIN NoRow /\ "status" \in DOMAIN NoRow
  BY DEF Stored, NoRow
<1>3. /\ Written(u).id = row[r].id
      /\ HasRow(r) => Written(u).status # "none"
  BY <1>1, <1>2 DEF Written, HasRow
<1>4. row' = [row EXCEPT ![r] = IF HasRow(r) THEN Written(u) ELSE @]
  BY DEF CommitUpdate
<1> HIDE DEF r
<1>5. /\ row' = [q \in MonRows |-> row'[q]]
      /\ \A q \in MonRows : row'[q].id = row[q].id
      /\ \A q \in MonRows : HasRow(q) => row'[q].status # "none"
  BY <1>1, <1>3, <1>4 DEF HasRow
<1>6. \A i : Known(i) => Known(i)'
  BY <1>1, <1>5 DEF Known, HasRow
<1>7. /\ spent'.ids = spent.ids /\ IsSpent' /\ IsTold' /\ told.named \subseteq told'.named
      /\ \A q \in MonRows : row'[q].id \in Int /\ row'[q].id <= spent.ids
  BY <1>1, <1>5, PaidOK DEF IsTold, OldId
<1>8. \A x : ~Making(op[u], x)
  BY <1>1 DEF Making
<1> QED
  BY <1>1, <1>5, <1>6, <1>7, <1>8, EndOK

LEMMA CommitDeleteOK ==
  ASSUME MonIInv, NEW u \in MonUsers, CommitDelete(u)
  PROVE  MonIInv'
<1> DEFINE r == op[u].row
<1>1. /\ row = [q \in MonRows |-> row[q]] /\ spent.ids \in Nat
      /\ \A q \in MonRows : OldId(row[q].id)
      /\ \/ op[u].kind = "unlink"
         \/ op[u].kind = "delete" /\ op[u].pc = "commit" /\ Gone(op[u].id)
      /\ UNCHANGED <<remote, spent>> /\ IsTold /\ Ends(u)
  BY DEF MonIInv, Shapes, Ids, Stages, Stage, CommitDelete, Ready
<1>2. row' = [row EXCEPT ![r] = NoRow] /\ NoRow.status = "none" /\ NoRow.id = 0
  BY DEF CommitDelete, NoRow
<1>3. /\ IsTold' /\ told'.unseen = told.unseen /\ told.named \subseteq told'.named
      /\ op[u].kind = "unlink" => op[u].id \in told'.named
      /\ told.swept \subseteq told'.swept
      /\ HasRow(r) => row[r].id \in told'.swept \/ row[r].id = op[u].id
  BY <1>1 DEF CommitDelete, IsTold
<1> HIDE DEF r
<1>4. /\ row' = [q \in MonRows |-> row'[q]]
      /\ \A q \in MonRows : row'[q].id \in Int /\ row'[q].id <= spent.ids
      /\ \A q \in MonRows \ {r} : row'[q] = row[q]
  BY <1>1, <1>2 DEF OldId
<1>5. ASSUME NEW i, Known(i), NEW x \in remote, x.id = i
      PROVE  Known(i)'
  <2>1. CASE HasRow(r) /\ row[r].id = i
    BY <1>1, <1>3, <1>5, <2>1 DEF Known, Gone
  <2>2. CASE ~(HasRow(r) /\ row[r].id = i)
    BY <1>3, <1>4, <1>5, <2>2 DEF Known, HasRow
  <2> QED
    BY <2>1, <2>2
<1>6. spent'.ids = spent.ids /\ IsSpent'
  BY <1>1, PaidOK
<1>7. \A x : ~Making(op[u], x)
  BY <1>1 DEF Making
<1> QED
  BY <1>1, <1>3, <1>4, <1>5, <1>6, <1>7, EndOK

LEMMA CommitFailsOK ==
  ASSUME MonIInv, NEW u \in MonUsers, CommitFails(u)
  PROVE  MonIInv'
<1>1. /\ row = [q \in MonRows |-> row[q]] /\ OldId(op[u].id)
      /\ \A q \in MonRows : OldId(row[q].id)
      /\ UNCHANGED <<remote, row>> /\ IsTold /\ Ends(u)
      /\ op[u].kind = "create" => op[u].pc = "edit"
  BY DEF MonIInv, Shapes, Ids, Stages, Stage, CommitFails, Ready
<1>2. spent'.ids = spent.ids /\ IsSpent'
  BY PaidOK DEF CommitFails
<1>3. /\ IsTold' /\ told'.named = told.named /\ told'.swept = told.swept
      /\ told.unseen \subseteq told'.unseen
      /\ op[u].kind = "create" => op[u].id \in told'.unseen
  BY <1>1 DEF CommitFails, IsTold
<1>4. \A i : Known(i) => Known(i)'
  BY <1>1, <1>3 DEF Known, HasRow
<1>5. \A x \in remote : \A i : x.id = i /\ Making(op[u], x) => Known(i)'
  BY <1>1, <1>3 DEF Known, Making
<1>6. \A q \in MonRows : row'[q].id \in Int /\ row'[q].id <= spent.ids
  BY <1>1 DEF OldId
<1> QED
  BY <1>1, <1>2, <1>3, <1>4, <1>5, <1>6, EndOK

LEMMA MonIInvStep == MonIInv /\ [MonNext]_monVars => MonIInv'
<1>1. ASSUME MonIInv, MonNext PROVE MonIInv'
  <2>1. PICK u \in MonUsers :
          CreateMonitor(u) \/ UpdateMonitor(u) \/ DeleteMonitor(u) \/ MonStep(u)
    BY <1>1 DEF MonNext
  <2> QED
    BY <1>1, <2>1, CreateMonitorOK, UpdateMonitorOK, DeleteMonitorOK, PostMonitorOK,
       LookupOK, PatchMonitorOK, DropRemoteOK, GetPageOK, PatchPageOK, CommitCreateOK,
       CommitUpdateOK, CommitDeleteOK, CommitFailsOK DEF MonStep
<1>2. ASSUME MonIInv, UNCHANGED monVars PROVE MonIInv'
  BY <1>2 DEF monVars, MonIInv, Shapes, IsTold, IsSpent, IsOp, Ids, OldId, Names, Stages,
     Stage, Gone, Answered, Known, HasRow, Making, Laters, Later
<1> QED
  BY <1>1, <1>2

(* A remote monitor that no row links to is known to a user, or its        *)
(* creation answered with an error, or its row was swept: for any users,   *)
(* requests, faults and pages.                                             *)
THEOREM NoneForgotten == MonSpec => []DanglingAccounted
<1>1. MonIInv => DanglingAccounted
  <2> SUFFICES ASSUME MonIInv, MonAtRest, NEW x \in remote
               PROVE  \/ \E r \in Rows : row[r].id = x.id
                      \/ x.id \in told.named \union told.unseen \union told.swept
    BY DEF DanglingAccounted
  <2>1. \A u \in MonUsers : ~Making(op[u], x)
    BY DEF MonAtRest, Making
  <2> QED
    BY <2>1 DEF MonIInv, Answered, Known, Rows
<1> QED
  BY <1>1, MonInitOK, MonIInvStep, PTL DEF MonSpec

-----------------------------------------------------------------------------
(* What a user who works alone finds on the pages.                         *)

PageSets == {S \in SUBSET MonPages : IsFiniteSet(S)}
PageEdits == [how : {"add", "remove"}, page : MonPages, ref : MonNames]

EditOf(how, p, ref) == [how |-> how, page |-> p, ref |-> ref]
InSeq(s) == {s[n] : n \in DOMAIN s}
Left(o) == InSeq(o.edits)

(* The rank of an element tells it from the others.                        *)
Below(S, p) == {q \in S : q < p}

LEMMA RanksFit ==
  ASSUME NEW S \in PageSets
  PROVE  \A n \in 1..Cardinality(S) : \E p \in S : Cardinality(Below(S, p)) = n - 1
<1> USE MonPagesAreInts
<1> DEFINE N == Cardinality(S)
           rank == [p \in S |-> Cardinality(Below(S, p)) + 1]
<1>1. IsFiniteSet(S) /\ S \subseteq Int /\ N \in Nat
  BY FS_CardinalityType DEF PageSets
<1>2. \A p \in S : /\ IsFiniteSet(Below(S, p)) /\ Cardinality(Below(S, p)) \in Nat
                   /\ Cardinality(Below(S, p)) < N
  <2> SUFFICES ASSUME NEW p \in S
               PROVE  /\ IsFiniteSet(Below(S, p)) /\ Cardinality(Below(S, p)) \in Nat
                      /\ Cardinality(Below(S, p)) < N
    OBVIOUS
  <2>1. Below(S, p) \in SUBSET S /\ Below(S, p) # S
    BY <1>1 DEF Below
  <2>2. IsFiniteSet(Below(S, p)) /\ Cardinality(Below(S, p)) <= N
        /\ (N = Cardinality(Below(S, p)) => S = Below(S, p))
    BY <1>1, <2>1, FS_Subset
  <2>3. Cardinality(Below(S, p)) \in Nat
    BY <2>2, FS_CardinalityType
  <2> QED
    BY <1>1, <2>1, <2>2, <2>3
<1>3. \A p, q \in S : p < q => Cardinality(Below(S, p)) < Cardinality(Below(S, q))
  <2> SUFFICES ASSUME NEW p \in S, NEW q \in S, p < q
               PROVE  Cardinality(Below(S, p)) < Cardinality(Below(S, q))
    OBVIOUS
  <2>0. p \in Int /\ q \in Int /\ \A x \in S : x \in Int
    BY <1>1
  <2>1. Below(S, p) \in SUBSET Below(S, q) /\ p \in Below(S, q) /\ p \notin Below(S, p)
    <3>1. \A x \in S : x < p => x < q
      BY <2>0
    <3>2. ~(p < p)
      BY <2>0
    <3> QED
      BY <3>1, <3>2 DEF Below
  <2>2. Cardinality(Below(S, p)) <= Cardinality(Below(S, q))
        /\ (Cardinality(Below(S, q)) = Cardinality(Below(S, p)) => Below(S, q) = Below(S, p))
    BY <1>2, <2>1, FS_Subset
  <2> QED
    BY <1>2, <2>1, <2>2
<1>4. rank \in Injection(S, 1..N)
  <2>1. \A p \in S : rank[p] = Cardinality(Below(S, p)) + 1
    OBVIOUS
  <2>2. rank \in [S -> 1..N]
    BY <1>1, <1>2
  <2>3. \A p, q \in S : rank[p] = rank[q] => p = q
    <3> HIDE DEF rank
    <3> SUFFICES ASSUME NEW p \in S, NEW q \in S, rank[p] = rank[q], p # q PROVE FALSE
      OBVIOUS
    <3>1. p < q \/ q < p
      BY <1>1
    <3> QED
      BY <1>2, <1>3, <2>1, <3>1
  <2> HIDE DEF rank, N
  <2> QED
    BY <2>2, <2>3 DEF Injection, IsInjective
<1>5. IsFiniteSet(1..N) /\ Cardinality(1..N) = N
  BY <1>1, FS_Interval
<1>6. rank \in Surjection(S, 1..N)
  BY <1>1, <1>4, <1>5, FS_Injection
<1>7. \A n \in 1..N : \E p \in S : rank[p] = n
  BY <1>6 DEF Surjection
<1> QED
  BY <1>1, <1>2, <1>7

(* The pages in their order are the pages.                                 *)
LEMMA SortedIs ==
  ASSUME NEW S \in PageSets
  PROVE  /\ Cardinality(S) \in Nat
         /\ \A n \in 1..Cardinality(S) : Sorted(S)[n] \in S
         /\ \A p \in S : \E n \in 1..Cardinality(S) : Sorted(S)[n] = p
<1> DEFINE N == Cardinality(S)
           At(n) == CHOOSE p \in S : Cardinality(Below(S, p)) = n - 1
<1>1. N \in Nat
  BY FS_CardinalityType DEF PageSets
<1>2. \A n \in 1..N : Sorted(S)[n] = At(n)
  BY DEF Sorted, Below
<1>3. \A n \in 1..N : At(n) \in S /\ Cardinality(Below(S, At(n))) = n - 1
  BY RanksFit
<1> HIDE DEF At
<1> DEFINE f == [n \in 1..N |-> At(n)]
<1>4. f \in Injection(1..N, S)
  <2>1. f \in [1..N -> S]
    BY <1>3
  <2>2. \A m, n \in 1..N : f[m] = f[n] => m = n
    BY <1>1, <1>3
  <2> HIDE DEF f, N
  <2> QED
    BY <2>1, <2>2 DEF Injection, IsInjective
<1>5. f \in Surjection(1..N, S)
  <2>1. IsFiniteSet(S) /\ Cardinality(1..N) = N
    BY <1>1, FS_Interval DEF PageSets
  <2> QED
    BY <1>4, <2>1, FS_Injection
<1>6. \A p \in S : \E n \in 1..N : f[n] = p
  BY <1>5 DEF Surjection
<1> QED
  BY <1>1, <1>2, <1>3, <1>6

(* The edits of a set of pages.                                            *)
LEMMA EditsAre ==
  ASSUME NEW how \in {"add", "remove"}, NEW S \in PageSets, NEW ref \in MonNames
  PROVE  /\ Edits(how, S, ref) \in Seq(PageEdits)
         /\ \A e : e \in InSeq(Edits(how, S, ref)) <=> \E p \in S : e = EditOf(how, p, ref)
<1> DEFINE N == Cardinality(S)
           s == Edits(how, S, ref)
<1>1. /\ N \in Nat /\ S \subseteq MonPages
      /\ \A n \in 1..N : Sorted(S)[n] \in S
      /\ \A p \in S : \E n \in 1..N : Sorted(S)[n] = p
  BY SortedIs DEF PageSets
<1>2. s = [n \in 1..N |-> EditOf(how, Sorted(S)[n], ref)]
  BY DEF Edits, EditOf
<1>3. \A n \in 1..N : EditOf(how, Sorted(S)[n], ref) \in PageEdits
  BY <1>1 DEF EditOf, PageEdits
<1>4. s \in [1..N -> PageEdits]
  BY <1>2, <1>3
<1>5. s \in Seq(PageEdits)
  BY <1>1, <1>4
<1>6. DOMAIN s = 1..N /\ \A n \in 1..N : s[n] = EditOf(how, Sorted(S)[n], ref)
  BY <1>2
<1> HIDE DEF s
<1>7. \A e : e \in InSeq(s) <=> \E n \in 1..N : e = EditOf(how, Sorted(S)[n], ref)
  BY <1>6 DEF InSeq
<1> QED
  BY <1>1, <1>5, <1>7 DEF s

LEMMA InConcat ==
  ASSUME NEW X, NEW s \in Seq(X), NEW t \in Seq(X)
  PROVE  /\ s \o t \in Seq(X)
         /\ InSeq(s \o t) = InSeq(s) \union InSeq(t)
<1>1. /\ Len(s) \in Nat /\ Len(t) \in Nat
      /\ DOMAIN s = 1..Len(s) /\ DOMAIN t = 1..Len(t)
      /\ DOMAIN (s \o t) = 1..(Len(s) + Len(t))
  OBVIOUS
<1>2. \A n \in 1..Len(s) : (s \o t)[n] = s[n]
  OBVIOUS
<1>3. \A n \in 1..Len(t) : (s \o t)[Len(s) + n] = t[n]
  OBVIOUS
<1>4. \A n \in 1..(Len(s) + Len(t)) :
        n \in 1..Len(s) \/ \E m \in 1..Len(t) : n = Len(s) + m
  <2> SUFFICES ASSUME NEW n \in 1..(Len(s) + Len(t)), n \notin 1..Len(s)
               PROVE  \E m \in 1..Len(t) : n = Len(s) + m
    OBVIOUS
  <2>1. n - Len(s) \in 1..Len(t) /\ n = Len(s) + (n - Len(s))
    BY <1>1
  <2> QED
    BY <2>1
<1>5. s \o t \in Seq(X)
  OBVIOUS
<1>6. InSeq(s) \subseteq InSeq(s \o t)
  BY <1>1, <1>2 DEF InSeq
<1>7. InSeq(t) \subseteq InSeq(s \o t)
  <2> SUFFICES ASSUME NEW n \in 1..Len(t) PROVE t[n] \in InSeq(s \o t)
    BY <1>1 DEF InSeq
  <2>1. Len(s) + n \in DOMAIN (s \o t) /\ (s \o t)[Len(s) + n] = t[n]
    BY <1>1, <1>3
  <2> QED
    BY <2>1 DEF InSeq
<1>8. InSeq(s \o t) \subseteq InSeq(s) \union InSeq(t)
  BY <1>1, <1>2, <1>3, <1>4 DEF InSeq
<1> QED
  BY <1>5, <1>6, <1>7, <1>8

LEMMA InTail ==
  ASSUME NEW X, NEW s \in Seq(X), s # <<>>
  PROVE  /\ Head(s) \in X /\ Tail(s) \in Seq(X)
         /\ InSeq(s) = {Head(s)} \union InSeq(Tail(s))
<1>1. /\ Len(s) \in Nat \ {0} /\ DOMAIN s = 1..Len(s)
      /\ Head(s) = s[1] /\ Head(s) \in X /\ Tail(s) \in Seq(X)
      /\ DOMAIN Tail(s) = 1..(Len(s) - 1)
      /\ \A n \in 1..(Len(s) - 1) : Tail(s)[n] = s[n + 1]
  OBVIOUS
<1>2. \A n \in 1..Len(s) : n = 1 \/ \E m \in 1..(Len(s) - 1) : n = m + 1
  <2> SUFFICES ASSUME NEW n \in 1..Len(s), n # 1
               PROVE  \E m \in 1..(Len(s) - 1) : n = m + 1
    OBVIOUS
  <2>1. n - 1 \in 1..(Len(s) - 1) /\ n = (n - 1) + 1
    BY <1>1
  <2> QED
    BY <2>1
<1>3. InSeq(s) \subseteq {Head(s)} \union InSeq(Tail(s))
  <2> SUFFICES ASSUME NEW n \in 1..Len(s)
               PROVE  s[n] = Head(s) \/ s[n] \in InSeq(Tail(s))
    BY <1>1 DEF InSeq
  <2>1. CASE n = 1
    BY <1>1, <2>1
  <2>2. CASE n # 1
    <3>1. PICK m \in 1..(Len(s) - 1) : n = m + 1
      BY <1>2, <2>2
    <3>2. Tail(s)[m] = s[n] /\ m \in DOMAIN Tail(s)
      BY <1>1, <3>1
    <3> QED
      BY <3>2 DEF InSeq
  <2> QED
    BY <2>1, <2>2
<1>4. Head(s) \in InSeq(s)
  BY <1>1 DEF InSeq
<1>5. InSeq(Tail(s)) \subseteq InSeq(s)
  <2> SUFFICES ASSUME NEW n \in 1..(Len(s) - 1) PROVE s[n + 1] \in InSeq(s)
    BY <1>1 DEF InSeq
  <2>1. n + 1 \in 1..Len(s)
    BY <1>1
  <2> QED
    BY <1>1, <2>1 DEF InSeq
<1> QED
  BY <1>1, <1>3, <1>4, <1>5

(* A page list after an edit, and what the edits left make of it: a name   *)
(* will be on just the given pages, or on none.                            *)
Applied(P, e) ==
  [P EXCEPT ![e.page] = IF e.how = "add" THEN @ \union {e.ref} ELSE @ \ {e.ref}]
Joining(P, L, ref, ps) ==
  \A p \in MonPages :
    /\ EditOf("add", p, ref) \notin L \/ EditOf("remove", p, ref) \notin L
    /\ p \in ps <=> \/ EditOf("add", p, ref) \in L
                    \/ ref \in P[p] /\ EditOf("remove", p, ref) \notin L
Leaving(P, L, ref) ==
  \A p \in MonPages : /\ EditOf("add", p, ref) \notin L
                      /\ ref \in P[p] => EditOf("remove", p, ref) \in L

(* The tables by themselves.                                               *)
Linkage(i, n) == [id |-> i, name |-> n] \in remote
PagesOK == /\ page = [p \in MonPages |-> page[p]]
           /\ \A p \in MonPages : Foreign \in page[p]
RemoteOK == /\ \A x \in remote : x = [id |-> x.id, name |-> x.name]
            /\ \A x, y \in remote : x.id = y.id => x = y
RowsOK == /\ \A r \in Rows : /\ row[r].name = row[r].ref /\ row[r].ref \in MonNames
                             /\ row[r].pages \in PageSets
          /\ \A r, q \in Rows :
               row[r].id = row[q].id \/ row[r].ref = row[q].ref => r = q
Standing(r) ==
  /\ Linkage(row[r].id, row[r].name)
  /\ \A p \in MonPages : row[r].ref \in page[p] <=> p \in row[r].pages

(* The row that a request is at work on, and what is left to be edited.    *)
AtWork(o) == o.pc \in {"edit", "write", "commit"} /\ o.kind \in {"update", "delete"}
Free(o, r) == ~(AtWork(o) /\ r = o.row)
Listed(o) ==
  \A p \in MonPages : \A n \in page[p] :
    n = Foreign \/ Taken(n) \/ (AtWork(o) /\ o.kind = "update" /\ n = o.old.ref)
EditsOK(o) ==
  /\ o.errs = FALSE
  /\ o.pc \in {"edit", "write"} =>
       /\ o.edits \in Seq(PageEdits)
       /\ \A e \in Left(o) : /\ \A r \in Rows : Free(o, r) => row[r].ref # e.ref
                             /\ e.how = "add" => Taken(e.ref)
  /\ o.pc = "write" => o.edits # <<>> /\ o.seen = page[Head(o.edits).page]

Asks(o) == o.name \in MonNames /\ o.pages \in PageSets
Others(o, ref) == \A r \in Rows : Free(o, r) => row[r].ref # ref
Posting(o) == Asks(o) /\ o.edits = <<>>
LookingUp(o) ==
  /\ Asks(o) /\ o.edits = <<>> /\ Others(o, o.name)
  /\ \A x \in remote : x.name = o.name => \A r \in Rows : row[r].id # x.id
  /\ \A p \in MonPages : o.name \notin page[p]
Patching(o) == /\ Asks(o) /\ o.row \in Rows
               /\ o = Updating(o.row, o.name, o.pages, "patch")
Creating(o) ==
  /\ Asks(o) /\ o.ref = o.name /\ Linkage(o.id, o.name) /\ Others(o, o.ref)
  /\ \A r \in Rows : row[r].id # o.id
  /\ Joining(page, Left(o), o.ref, o.pages)
Moving(o) ==
  /\ Asks(o) /\ o.ref = o.name /\ Linkage(o.id, o.name) /\ Others(o, o.ref)
  /\ o.row \in Rows /\ o.old = row[o.row] /\ o.id = o.old.id
  /\ Joining(page, Left(o), o.ref, o.pages)
  /\ o.ref # o.old.ref => Leaving(page, Left(o), o.old.ref)
Dropping(o) ==
  /\ o.row \in Rows /\ o.id = row[o.row].id /\ Linkage(o.id, row[o.row].ref)
  /\ Leaving(page, Left(o), row[o.row].ref)
Fits(o) ==
  /\ o.pc = "post" => Posting(o)
  /\ o.pc = "lookup" => LookingUp(o)
  /\ o.pc = "patch" => Patching(o)
  /\ o.pc \in {"edit", "write"} =>
       /\ o.kind = "create" => Creating(o)
       /\ o.kind = "update" => Moving(o)
       /\ o.kind = "delete" => Dropping(o)
       /\ o.kind = "unlink" => o.edits = <<>>

World(o) == /\ PagesOK /\ RemoteOK /\ RowsOK
            /\ \A r \in Rows : Free(o, r) => Standing(r)
            /\ Listed(o) /\ EditsOK(o) /\ Fits(o)

Acting(u) == op[u].pc # "idle"
Current == {op[u] : u \in {v \in MonUsers : Acting(v)}}
           \union (IF MonAtRest THEN {NoOp} ELSE {})
Actors == /\ mplan \in MonPlans /\ spent.faults \in Nat
          /\ \A u \in MonUsers : Acting(u) => u \in mplan.users
Faithful == Actors /\ (Serial /\ spent.faults = 0 => \A o \in Current : World(o))

(* One edit done: what the edits left promise is as before.                *)
LEMMA JoiningGoesOn ==
  ASSUME NEW P, P = [p \in MonPages |-> P[p]], NEW e \in PageEdits,
         NEW L, NEW M, L = {e} \union M, NEW ref, NEW ps, Joining(P, L, ref, ps)
  PROVE  Joining(Applied(P, e), M, ref, ps)
<1> SUFFICES ASSUME NEW p \in MonPages
             PROVE  /\ EditOf("add", p, ref) \notin M \/ EditOf("remove", p, ref) \notin M
                    /\ p \in ps <=> \/ EditOf("add", p, ref) \in M
                                    \/ /\ ref \in Applied(P, e)[p]
                                       /\ EditOf("remove", p, ref) \notin M
  BY DEF Joining
<1> DEFINE a == EditOf("add", p, ref)
           d == EditOf("remove", p, ref)
<1>1. /\ a \notin L \/ d \notin L
      /\ p \in ps <=> a \in L \/ (ref \in P[p] /\ d \notin L)
  BY DEF Joining
<1>2. /\ Applied(P, e)[p] = IF p # e.page THEN P[p]
                            ELSE IF e.how = "add" THEN P[p] \union {e.ref}
                            ELSE P[p] \ {e.ref}
  BY DEF Applied
<1>3. /\ e = EditOf(e.how, e.page, e.ref) /\ e.how \in {"add", "remove"}
      /\ a # d
      /\ a = e <=> e.how = "add" /\ e.page = p /\ e.ref = ref
      /\ d = e <=> e.how = "remove" /\ e.page = p /\ e.ref = ref
  BY DEF EditOf, PageEdits
<1> HIDE DEF a, d
<1>4. /\ a \notin M \/ d \notin M
      /\ p \in ps <=> a \in M \/ (ref \in Applied(P, e)[p] /\ d \notin M)
  <2>1. CASE e = a
    BY <1>1, <1>2, <1>3, <2>1
  <2>2. CASE e = d
    BY <1>1, <1>2, <1>3, <2>2
  <2>3. CASE e # a /\ e # d
    <3>1. ref \in Applied(P, e)[p] <=> ref \in P[p]
      BY <1>2, <1>3, <2>3
    <3> QED
      BY <1>1, <2>3, <3>1
  <2> QED
    BY <2>1, <2>2, <2>3
<1> QED
  BY <1>4 DEF a, d

LEMMA LeavingGoesOn ==
  ASSUME NEW P, P = [p \in MonPages |-> P[p]], NEW e \in PageEdits,
         NEW L, NEW M, L = {e} \union M, NEW ref, Leaving(P, L, ref)
  PROVE  Leaving(Applied(P, e), M, ref)
<1> SUFFICES ASSUME NEW p \in MonPages
             PROVE  /\ EditOf("add", p, ref) \notin M
                    /\ ref \in Applied(P, e)[p] => EditOf("remove", p, ref) \in M
  BY DEF Leaving
<1> DEFINE a == EditOf("add", p, ref)
           d == EditOf("remove", p, ref)
<1>1. a \notin L /\ (ref \in P[p] => d \in L)
  BY DEF Leaving
<1>2. /\ Applied(P, e)[p] = IF p # e.page THEN P[p]
                            ELSE IF e.how = "add" THEN P[p] \union {e.ref}
                            ELSE P[p] \ {e.ref}
  BY DEF Applied
<1>3. /\ e.how \in {"add", "remove"}
      /\ a = e <=> e.how = "add" /\ e.page = p /\ e.ref = ref
      /\ d = e <=> e.how = "remove" /\ e.page = p /\ e.ref = ref
  BY DEF EditOf, PageEdits
<1> HIDE DEF a, d
<1> QED
  BY <1>1, <1>2, <1>3 DEF a, d

(* The edits of an update take the old name off its pages and put the new  *)
(* one on those that are asked for.                                        *)
LEMMA Prepared ==
  ASSUME PagesOK, RowsOK, NEW r \in Rows, Standing(r), NEW n \in MonNames,
         NEW ps \in PageSets, NEW pc, NEW o, o = Updating(r, n, ps, pc),
         n = row[r].ref \/ \A p \in MonPages : n \notin page[p]
  PROVE  /\ o.edits \in Seq(PageEdits)
         /\ \A e \in Left(o) : e.ref = n \/ (e.ref = row[r].ref /\ e.how = "remove")
         /\ Joining(page, Left(o), n, ps)
         /\ n # row[r].ref => Leaving(page, Left(o), row[r].ref)
<1> DEFINE old == row[r]
           moved == n # old.ref
           out == Leaves(old, moved, ps)
           in == Joins(old, moved, ps)
           s == Edits("remove", out, old.ref)
           t == Edits("add", in, n)
<1>1. o.edits = s \o t
  BY DEF Updating, NoOp
<1>2. /\ old.pages \in PageSets /\ old.ref \in MonNames
      /\ \A p \in MonPages : old.ref \in page[p] <=> p \in old.pages
  BY DEF RowsOK, Standing
<1>3. /\ out = IF moved THEN old.pages ELSE old.pages \ ps
      /\ in = IF moved THEN ps ELSE ps \ old.pages
  BY DEF Leaves, Joins
<1>4. out \in PageSets /\ in \in PageSets
  <2>1. old.pages \ ps \in SUBSET old.pages /\ ps \ old.pages \in SUBSET ps
    OBVIOUS
  <2>2. IsFiniteSet(old.pages \ ps) /\ IsFiniteSet(ps \ old.pages)
    BY <1>2, <2>1, FS_Subset DEF PageSets
  <2> HIDE DEF old, moved, out, in
  <2> QED
    BY <1>2, <1>3, <2>2 DEF PageSets
<1> HIDE DEF out, in
<1>5. /\ s \in Seq(PageEdits) /\ t \in Seq(PageEdits)
      /\ \A e : e \in InSeq(s) <=> \E p \in out : e = EditOf("remove", p, old.ref)
      /\ \A e : e \in InSeq(t) <=> \E p \in in : e = EditOf("add", p, n)
  BY <1>2, <1>4, EditsAre
<1> HIDE DEF s, t
<1>6. o.edits \in Seq(PageEdits) /\ Left(o) = InSeq(s) \union InSeq(t)
  BY <1>1, <1>5, InConcat DEF Left
<1>7. \A p : /\ EditOf("add", p, n) \in Left(o) <=> p \in in
             /\ EditOf("remove", p, n) \in Left(o) <=> n = old.ref /\ p \in out
             /\ EditOf("remove", p, old.ref) \in Left(o) <=> p \in out
             /\ EditOf("add", p, old.ref) \in Left(o) <=> n = old.ref /\ p \in in
  <2> HIDE DEF old
  <2> QED
    BY <1>5, <1>6 DEF EditOf
<1>8. \A e \in Left(o) : e.ref = n \/ (e.ref = old.ref /\ e.how = "remove")
  BY <1>5, <1>6 DEF EditOf
<1>9. Joining(page, Left(o), n, ps)
  <2>1. CASE moved
    BY <1>3, <1>7, <2>1 DEF Joining
  <2>2. CASE ~moved
    BY <1>2, <1>3, <1>7, <2>2 DEF Joining
  <2> QED
    BY <2>1, <2>2
<1>10. moved => Leaving(page, Left(o), old.ref)
  BY <1>2, <1>3, <1>7 DEF Leaving
<1> QED
  BY <1>6, <1>8, <1>9, <1>10

(* A request goes on after an edit of a page that came out as meant.       *)
LEMMA EditDone ==
  ASSUME NEW o, World(o), o.pc \in {"edit", "write"}, o.edits # <<>>,
         o.kind \in {"create", "update", "delete", "unlink"},
         NEW q, q.pc = "edit", q.edits = Tail(o.edits), q.errs = FALSE,
         q.kind = o.kind, q.row = o.row, q.old = o.old, q.name = o.name,
         q.id = o.id, q.ref = o.ref, q.pages = o.pages,
         page' = Applied(page, Head(o.edits)), UNCHANGED <<remote, row>>
  PROVE  World(q)'
<1> PICK e : e = Head(o.edits)
  OBVIOUS
<1>1. /\ o.edits \in Seq(PageEdits) /\ e \in PageEdits /\ q.edits \in Seq(PageEdits)
      /\ Left(o) = {e} \union Left(q)
  BY InTail DEF World, EditsOK, Left
<1>2. /\ page = [p \in MonPages |-> page[p]] /\ page' = Applied(page, e)
      /\ \A p \in MonPages : Foreign \in page[p]
  BY DEF World, PagesOK
<1>3. /\ page' = [p \in MonPages |-> page'[p]]
      /\ \A p \in MonPages : page'[p] = IF p # e.page THEN page[p]
                                        ELSE IF e.how = "add" THEN page[p] \union {e.ref}
                                        ELSE page[p] \ {e.ref}
  BY <1>2 DEF Applied
<1>4. /\ e.ref \in MonNames /\ e.ref # Foreign
      /\ \A r \in Rows : Free(o, r) => row[r].ref # e.ref
      /\ e.how = "add" => Taken(e.ref)
  BY <1>1, ForeignIsNoName DEF World, EditsOK, PageEdits
<1>5. /\ Rows' = Rows /\ \A n : Taken(n)' <=> Taken(n)
      /\ \A i, n : Linkage(i, n)' <=> Linkage(i, n)
  BY DEF Rows, HasRow, Taken, Linkage
<1>6. AtWork(q) <=> AtWork(o)
  BY DEF AtWork
<1>7. \A r : Free(q, r) <=> Free(o, r)
  BY <1>6 DEF Free
<1>8. PagesOK'
  BY <1>2, <1>3, <1>4 DEF PagesOK
<1>9. RemoteOK' /\ RowsOK'
  BY <1>5 DEF World, RemoteOK, RowsOK
<1>10. \A r \in Rows' : Free(q, r) => Standing(r)'
  <2> SUFFICES ASSUME NEW r \in Rows, Free(o, r) PROVE Standing(r)'
    BY <1>5, <1>7
  <2>1. Standing(r) /\ row[r].ref # e.ref
    BY <1>4 DEF World
  <2>2. \A p \in MonPages : row[r].ref \in page'[p] <=> row[r].ref \in page[p]
    BY <1>3, <2>1
  <2> QED
    BY <2>1, <2>2 DEF Standing, Linkage
<1>11. Listed(q)'
  <2>1. \A p \in MonPages : \A n \in page'[p] :
           n \in page[p] \/ (n = e.ref /\ e.how = "add")
    BY <1>3
  <2> QED
    BY <1>4, <1>5, <1>6, <2>1 DEF World, Listed
<1>12. EditsOK(q)'
  <2>1. \A f \in Left(q) : /\ \A r \in Rows : Free(q, r) => row[r].ref # f.ref
                           /\ f.how = "add" => Taken(f.ref)
    BY <1>1, <1>7 DEF World, EditsOK
  <2> QED
    BY <1>1, <1>5, <2>1 DEF EditsOK, Left, Free, AtWork
<1>13. CASE o.kind = "create"
  <2>1. Creating(o)
    BY <1>13 DEF World, Fits
  <2>2. Joining(page', Left(q), o.ref, o.pages)
    BY <1>1, <1>2, <2>1, JoiningGoesOn DEF Creating
  <2>3. Creating(q)'
    BY <1>5, <1>7, <2>1, <2>2 DEF Creating, Asks, Others, Left, Joining, EditOf, Free, AtWork
  <2> QED
    BY <1>8, <1>9, <1>10, <1>11, <1>12, <1>13, <2>3 DEF World, Fits
<1>14. CASE o.kind = "update"
  <2>1. Moving(o)
    BY <1>14 DEF World, Fits
  <2>2. Joining(page', Left(q), o.ref, o.pages)
    BY <1>1, <1>2, <2>1, JoiningGoesOn DEF Moving
  <2>3. o.ref # o.old.ref => Leaving(page', Left(q), o.old.ref)
    BY <1>1, <1>2, <2>1, LeavingGoesOn DEF Moving
  <2>4. Moving(q)'
    BY <1>5, <1>7, <2>1, <2>2, <2>3 DEF Moving, Asks, Others, Left, Joining, Leaving, EditOf, Free, AtWork
  <2> QED
    BY <1>8, <1>9, <1>10, <1>11, <1>12, <1>14, <2>4 DEF World, Fits
<1>15. CASE o.kind = "delete"
  <2>1. Dropping(o)
    BY <1>15 DEF World, Fits
  <2>2. Leaving(page', Left(q), row[o.row].ref)
    BY <1>1, <1>2, <2>1, LeavingGoesOn DEF Dropping
  <2>3. Dropping(q)'
    BY <1>5, <2>1, <2>2 DEF Dropping, Left, Leaving, EditOf
  <2> QED
    BY <1>8, <1>9, <1>10, <1>11, <1>12, <1>15, <2>3 DEF World, Fits
<1>16. o.kind # "unlink"
  BY DEF World, Fits
<1> QED
  BY <1>13, <1>14, <1>15, <1>16

(* How a step leaves its request: at an end, or under way.                 *)
Goes(u, q) == op' = [op EXCEPT ![u] = q] /\ (q = NoOp \/ q.pc # "idle")

(* No request: every row stands on its pages.                              *)
LEMMA AtRest ==
  World(NoOp) <=> /\ PagesOK /\ RemoteOK /\ RowsOK
                  /\ \A r \in Rows : Standing(r)
                  /\ \A p \in MonPages : \A n \in page[p] : n = Foreign \/ Taken(n)
<1>1. NoOp.pc = "idle" /\ NoOp.errs = FALSE
  BY DEF NoOp
<1>2. ~AtWork(NoOp) /\ EditsOK(NoOp) /\ Fits(NoOp)
  BY <1>1 DEF AtWork, EditsOK, Fits
<1> QED
  BY <1>2 DEF World, Listed, Free

LEMMA ComesToRest ==
  ASSUME PagesOK', RemoteOK', RowsOK', \A r \in Rows' : Standing(r)',
         \A p \in MonPages : \A n \in page'[p] : n = Foreign \/ Taken(n)'
  PROVE  World(NoOp)'
<1>1. NoOp.pc = "idle" /\ NoOp.errs = FALSE
  BY DEF NoOp
<1>2. ~AtWork(NoOp) /\ EditsOK(NoOp)' /\ Fits(NoOp)'
  BY <1>1 DEF AtWork, EditsOK, Fits
<1> QED
  BY <1>2 DEF World, Listed, Free

(* Nothing is written: what a request is to find stays there.              *)
LEMMA Still ==
  ASSUME NEW o, World(o), UNCHANGED <<remote, page, row>>
  PROVE  World(o)'
<1>1. PagesOK' /\ RemoteOK' /\ RowsOK' /\ Listed(o)'
  BY DEF World, PagesOK, RemoteOK, RowsOK, Rows, HasRow, Listed, Taken
<1>2. \A r \in Rows' : Free(o, r) => Standing(r)'
  BY DEF World, Rows, HasRow, Standing, Linkage
<1>3. EditsOK(o)'
  BY DEF World, EditsOK, Rows, HasRow, Taken
<1>4. Fits(o)'
  <2>1. Fits(o)
    BY DEF World
  <2>2. Posting(o)' <=> Posting(o)
    BY DEF Posting, Asks
  <2>3. LookingUp(o)' <=> LookingUp(o)
    BY DEF LookingUp, Asks, Others, Rows, HasRow
  <2>4. Patching(o)' <=> Patching(o)
    BY DEF Patching, Asks, Rows, HasRow, Updating
  <2>5. Creating(o)' <=> Creating(o)
    BY DEF Creating, Asks, Others, Rows, HasRow, Linkage, Joining
  <2>6. Moving(o)' <=> Moving(o)
    BY DEF Moving, Asks, Others, Rows, HasRow, Linkage, Joining, Leaving
  <2>7. Dropping(o)' <=> Dropping(o)
    BY DEF Dropping, Rows, HasRow, Linkage, Leaving
  <2> QED
    BY <2>1, <2>2, <2>3, <2>4, <2>5, <2>6, <2>7 DEF Fits
<1> QED
  BY <1>1, <1>2, <1>3, <1>4 DEF World

(* One user works, so nobody else's request is under way.                  *)
LEMMA OneUser ==
  ASSUME Actors, Serial
  PROVE  \A u, v \in mplan.users : u = v
<1>1. IsFiniteSet(mplan.users)
  BY MonPlansFinite DEF Actors
<1>2. PICK w : mplan.users = {w}
  BY <1>1, FS_Singleton DEF Serial
<1> QED
  BY <1>2

LEMMA Handover ==
  ASSUME MonIInv, Actors, Serial, NEW u \in MonUsers, u \in mplan.users,
         NEW q, Goes(u, q), UNCHANGED mplan, spent'.faults \in Nat, World(q)'
  PROVE  Faithful'
<1>1. \A v \in MonUsers : op'[v] = IF v = u THEN q ELSE op[v]
  BY DEF MonIInv, Shapes, Goes
<1>2. \A v \in MonUsers \ {u} : op[v].pc = "idle"
  BY OneUser DEF Actors, Acting
<1>3. Actors'
  BY <1>1, <1>2 DEF Actors, Acting
<1>4. ASSUME NEW o \in Current' PROVE o = q
  <2>1. CASE q = NoOp
    <3>1. NoOp.pc = "idle"
      BY DEF NoOp
    <3>2. \A v \in MonUsers : op'[v].pc = "idle"
      BY <1>1, <1>2, <2>1, <3>1
    <3> QED
      BY <2>1, <3>2 DEF Current, Acting
  <2>2. CASE q.pc # "idle"
    <3>1. ~MonAtRest'
      BY <1>1, <2>2 DEF MonAtRest
    <3> QED
      BY <1>1, <1>2, <3>1 DEF Current, Acting
  <2> QED
    BY <2>1, <2>2 DEF Goes
<1>5. \A o \in Current' : World(o)'
  BY <1>4
<1> QED
  BY <1>3, <1>5 DEF Faithful

LEMMA NoFault ==
  ASSUME MonIInv, spent.faults \in Nat, Paid(TRUE)
  PROVE  spent'.faults # 0
<1>1. spent' = [spent EXCEPT !.faults = spent.faults + 1] /\ IsSpent
  BY DEF Paid, MonIInv, Shapes
<1>2. spent'.faults = spent.faults + 1
  BY <1>1 DEF IsSpent
<1> QED
  BY <1>2

(* A request that leaves no row in between can end at once.                *)
LEMMA GivesUp ==
  ASSUME NEW u, NEW o, World(o), ~AtWork(o), Ends(u), UNCHANGED <<remote, page, row>>
  PROVE  \E q : Goes(u, q) /\ World(q)'
<1>1. World(NoOp)
  BY AtRest DEF World, Free, Listed
<1> QED
  BY <1>1, Still DEF Ends, Goes

(* The requests begin when nothing else is under way.                      *)
LEMMA CreateBegins ==
  ASSUME Actors, World(NoOp), NEW u \in MonUsers, CreateMonitor(u)
  PROVE  \E q : Goes(u, q) /\ World(q)'
<1>1. PICK n \in MonNames, ps \in SUBSET mplan.pages :
        Begins(u, [NoOp EXCEPT !.pc = "post", !.kind = "create", !.name = n,
                               !.pages = ps])
  BY DEF CreateMonitor
<1>2. PICK q : q = [NoOp EXCEPT !.pc = "post", !.kind = "create", !.name = n,
                                !.pages = ps]
  OBVIOUS
<1>3. /\ q.pc = "post" /\ q.name = n /\ q.pages = ps /\ q.edits = <<>>
      /\ q.errs = FALSE
  BY <1>2 DEF NoOp
<1>4. ps \in PageSets
  BY MonPlansFinite, FS_Subset DEF Actors, PageSets
<1>5. ~AtWork(q) /\ EditsOK(q) /\ Fits(q)
  BY <1>3, <1>4 DEF AtWork, EditsOK, Fits, Posting, Asks
<1>6. World(q)
  BY <1>5, AtRest DEF World, Listed, Free
<1>7. Goes(u, q)
  BY <1>1, <1>2, <1>3 DEF Begins, Goes
<1> QED
  BY <1>6, <1>7, Still DEF CreateMonitor

(* What an update starts from.                                             *)
LEMMA UpdatingIs ==
  ASSUME NEW r, NEW n, NEW ps, NEW pc, NEW q, q = Updating(r, n, ps, pc)
  PROVE  /\ q.pc = pc /\ q.kind = "update" /\ q.row = r /\ q.old = row[r]
         /\ q.name = n /\ q.id = row[r].id /\ q.ref = n /\ q.pages = ps
         /\ q.errs \in BOOLEAN /\ ~q.errs
<1>1. PICK es : es = Edits("remove", Leaves(row[r], n # row[r].ref, ps), row[r].ref)
                     \o Edits("add", Joins(row[r], n # row[r].ref, ps), n)
  OBVIOUS
<1>2. q = [NoOp EXCEPT !.kind = "update", !.row = r, !.old = row[r], !.name = n,
             !.pc = pc, !.id = row[r].id, !.ref = n, !.pages = ps, !.edits = es]
  BY <1>1, Zenon DEF Updating
<1> QED
  BY <1>2 DEF NoOp

LEMMA UpdateBegins ==
  ASSUME Actors, World(NoOp), NEW u \in MonUsers, UpdateMonitor(u)
  PROVE  \E q : Goes(u, q) /\ World(q)'
<1>1. PICK r \in MonRows, n \in MonNames, ps \in SUBSET mplan.pages,
           pc \in {"patch", "edit"} :
        /\ HasRow(r)
        /\ pc = "edit" => n = row[r].name
        /\ Begins(u, Updating(r, n, ps, pc))
  BY DEF UpdateMonitor
<1>2. PICK q : q = Updating(r, n, ps, pc)
  OBVIOUS
<1>3. /\ q.pc = pc /\ q.kind = "update" /\ q.row = r /\ q.old = row[r] /\ q.name = n
      /\ q.id = row[r].id /\ q.ref = n /\ q.pages = ps /\ q.errs = FALSE
  BY <1>2, UpdatingIs
<1>4. ps \in PageSets
  BY MonPlansFinite, FS_Subset DEF Actors, PageSets
<1>5. /\ r \in Rows /\ PagesOK /\ RemoteOK /\ RowsOK
      /\ \A x \in Rows : Standing(x)
      /\ \A p \in MonPages : \A m \in page[p] : m = Foreign \/ Taken(m)
  BY <1>1, AtRest DEF Rows
<1>8. World(q)
  <2>1. CASE pc = "patch"
    <3>1. q.pc = "patch" /\ ~AtWork(q)
      BY <1>3, <2>1 DEF AtWork
    <3>2. EditsOK(q)
      BY <1>3, <3>1 DEF EditsOK
    <3>3. Patching(q)
      BY <1>2, <1>3, <1>4, <1>5, <2>1 DEF Patching, Asks
    <3> QED
      BY <1>5, <3>1, <3>2, <3>3 DEF World, Listed, Free, Fits
  <2>2. CASE pc = "edit"
    <3>1. n = row[r].ref /\ row[r].name = row[r].ref
      BY <1>1, <1>5, <2>2 DEF RowsOK
    <3>2. /\ q.edits \in Seq(PageEdits)
          /\ \A e \in Left(q) : e.ref = n
          /\ Joining(page, Left(q), n, ps)
      BY <1>2, <1>4, <1>5, <3>1, Prepared
    <3>3. q.pc = "edit" /\ AtWork(q) /\ \A x : Free(q, x) <=> x # r
      BY <1>3, <2>2 DEF AtWork, Free
    <3>4. Linkage(row[r].id, n) /\ Taken(n)
      BY <1>5, <3>1 DEF Standing, Linkage, Taken
    <3>5. \A x \in Rows : Free(q, x) => row[x].ref # n
      BY <1>5, <3>1, <3>3 DEF RowsOK
    <3>6. EditsOK(q)
      BY <1>3, <3>2, <3>3, <3>4, <3>5 DEF EditsOK
    <3>7. Moving(q)
      BY <1>3, <1>4, <1>5, <3>1, <3>2, <3>4, <3>5 DEF Moving, Asks, Others
    <3> QED
      BY <1>3, <1>5, <3>3, <3>6, <3>7 DEF World, Listed, Fits
  <2> QED
    BY <1>1, <2>1, <2>2
<1>9. Goes(u, q)
  BY <1>1, <1>2, <1>3 DEF Begins, Goes
<1> QED
  BY <1>8, <1>9, Still DEF UpdateMonitor

LEMMA DeleteBegins ==
  ASSUME Actors, World(NoOp), NEW u \in MonUsers, DeleteMonitor(u)
  PROVE  \E q : Goes(u, q) /\ World(q)'
<1>1. PICK r \in MonRows, keep \in BOOLEAN :
        /\ HasRow(r)
        /\ Begins(u, [NoOp EXCEPT !.kind = IF keep THEN "unlink" ELSE "delete",
             !.row = r, !.id = row[r].id, !.pc = "edit",
             !.edits = IF keep THEN <<>>
                       ELSE Edits("remove", row[r].pages, row[r].ref)])
  BY DEF DeleteMonitor
<1>2. PICK q : q = [NoOp EXCEPT !.kind = IF keep THEN "unlink" ELSE "delete",
             !.row = r, !.id = row[r].id, !.pc = "edit",
             !.edits = IF keep THEN <<>>
                       ELSE Edits("remove", row[r].pages, row[r].ref)]
  OBVIOUS
<1>3. /\ q.pc = "edit" /\ q.kind = IF keep THEN "unlink" ELSE "delete"
      /\ q.row = r /\ q.id = row[r].id /\ q.errs = FALSE
      /\ q.edits = IF keep THEN <<>> ELSE Edits("remove", row[r].pages, row[r].ref)
  BY <1>2 DEF NoOp
<1>4. /\ r \in Rows /\ PagesOK /\ RemoteOK /\ RowsOK
      /\ \A x \in Rows : Standing(x)
      /\ \A p \in MonPages : \A m \in page[p] : m = Foreign \/ Taken(m)
  BY <1>1, AtRest DEF Rows
<1>7. World(q)
  <2>1. CASE keep
    <3>1. q.kind = "unlink" /\ q.edits = <<>> /\ ~AtWork(q)
      BY <1>3, <2>1 DEF AtWork
    <3>2. EditsOK(q)
      BY <1>3, <3>1 DEF EditsOK, Left, InSeq
    <3> QED
      BY <1>3, <1>4, <3>1, <3>2 DEF World, Listed, Free, Fits
  <2>2. CASE ~keep
    <3>1. q.kind = "delete" /\ q.edits = Edits("remove", row[r].pages, row[r].ref)
      BY <1>3, <2>2
    <3>2. /\ row[r].pages \in PageSets /\ row[r].ref \in MonNames
          /\ row[r].name = row[r].ref /\ Linkage(row[r].id, row[r].ref)
          /\ \A p \in MonPages : row[r].ref \in page[p] <=> p \in row[r].pages
      BY <1>4 DEF RowsOK, Standing
    <3>3. /\ q.edits \in Seq(PageEdits)
          /\ \A e : e \in Left(q) <=>
               \E p \in row[r].pages : e = EditOf("remove", p, row[r].ref)
      BY <3>1, <3>2, EditsAre DEF Left
    <3>4. /\ Leaving(page, Left(q), row[r].ref)
          /\ \A e \in Left(q) : e.ref = row[r].ref /\ e.how = "remove"
      BY <3>2, <3>3 DEF Leaving, EditOf
    <3>5. AtWork(q) /\ \A x : Free(q, x) <=> x # r
      BY <1>3, <3>1 DEF AtWork, Free
    <3>6. EditsOK(q)
      BY <1>3, <1>4, <3>3, <3>4, <3>5 DEF EditsOK, RowsOK
    <3>7. Dropping(q)
      BY <1>3, <1>4, <3>2, <3>4 DEF Dropping
    <3> QED
      BY <1>3, <1>4, <3>1, <3>5, <3>6, <3>7 DEF World, Listed, Fits
  <2> QED
    BY <2>1, <2>2
<1>8. Goes(u, q)
  BY <1>1, <1>2, <1>3 DEF Begins, Goes
<1> QED
  BY <1>7, <1>8, Still DEF DeleteMonitor

(* A new monitor's name is put on its pages.                               *)
LEMMA Added ==
  ASSUME NEW ref \in MonNames, NEW ps \in PageSets,
         \A p \in MonPages : ref \notin page[p],
         NEW q, q.edits = Edits("add", ps, ref)
  PROVE  /\ q.edits \in Seq(PageEdits) /\ \A e \in Left(q) : e.ref = ref
         /\ Joining(page, Left(q), ref, ps)
<1>1. /\ q.edits \in Seq(PageEdits)
      /\ \A e : e \in Left(q) <=> \E p \in ps : e = EditOf("add", p, ref)
  BY EditsAre DEF Left
<1> QED
  BY <1>1 DEF Joining, EditOf

LEMMA LinkedIs ==
  ASSUME MonIInv, NEW u \in MonUsers, NEW o, o = op[u], NEW i, Linked(u, i, "edit")
  PROVE  \E q : /\ Goes(u, q) /\ q.pc = "edit" /\ q.kind = o.kind /\ q.row = o.row
                /\ q.name = o.name /\ q.id = i /\ q.ref = o.name /\ q.pages = o.pages
                /\ q.errs = o.errs /\ q.edits = Edits("add", o.pages, o.name)
<1> PICK es : es = Edits("add", o.pages, o.name)
  OBVIOUS
<1> PICK q : q = [o EXCEPT !.id = i, !.ref = o.name, !.pc = "edit", !.edits = es]
  OBVIOUS
<1>1. /\ op = [v \in MonUsers |-> op[v]] /\ IsOp(o)
      /\ op' = [op EXCEPT ![u].id = i, ![u].ref = o.name, ![u].pc = "edit",
                          ![u].edits = es]
  BY DEF MonIInv, Shapes, Linked
<1>2. op' = [op EXCEPT ![u] = q]
  BY <1>1
<1>3. /\ q.pc = "edit" /\ q.kind = o.kind /\ q.row = o.row
      /\ q.name = o.name /\ q.id = i /\ q.ref = o.name /\ q.pages = o.pages
      /\ q.errs = o.errs /\ q.edits = es
  BY <1>1 DEF IsOp, Fields
<1> QED
  BY <1>2, <1>3 DEF Goes

(* The monitor is made under a name that neither a row nor a page had.     *)
LEMMA PostWorld ==
  ASSUME MonIInv, NEW u \in MonUsers, NEW o, o = op[u], World(o), PostMonitor(u),
         spent.faults \in Nat, spent'.faults = 0
  PROVE  \E q : Goes(u, q) /\ World(q)'
<1>1. /\ o.pc = "post" /\ o.kind = "create" /\ ~AtWork(o) /\ Posting(o)
      /\ UNCHANGED <<mplan, page, row>> /\ IsOp(o) /\ IsSpent /\ spent.ids \in Nat
      /\ op = [v \in MonUsers |-> op[v]]
  BY DEF PostMonitor, World, Fits, AtWork, MonIInv, Stages, Stage, Shapes
<1>2. CASE Ends(u) /\ UNCHANGED remote
  BY <1>1, <1>2, GivesUp
<1>3. ASSUME ~Taken(o.name), NEW new, new = [id |-> spent.ids + 1, name |-> o.name],
             remote' = remote \union {new},
             Linked(u, spent.ids + 1, "edit") \/ To(u, "lookup")
      PROVE  \E q : Goes(u, q) /\ World(q)'
  <2>1. /\ new.id = spent.ids + 1 /\ new.name = o.name
        /\ \A x \in remote : x.name # o.name /\ x.id # new.id
        /\ \A r \in MonRows : row[r].id # new.id
    BY <1>1, <1>3 DEF Taken, MonIInv, Ids, OldId
  <2>2. /\ PagesOK /\ RemoteOK /\ RowsOK /\ \A r \in Rows : Standing(r)
        /\ \A p \in MonPages : \A n \in page[p] : n = Foreign \/ Taken(n)
    BY <1>1 DEF World, Free, Listed
  <2>3. \A p \in MonPages : o.name \notin page[p]
    BY <1>1, <1>3, <2>2, ForeignIsNoName DEF Posting, Asks
  <2>4. \A r \in Rows : row[r].ref # o.name
    BY <2>1, <2>2 DEF Standing, Linkage, RowsOK
  <2>5. /\ Rows' = Rows /\ \A n : Taken(n) \/ n = o.name => Taken(n)'
        /\ \A i, n : Linkage(i, n) => Linkage(i, n)'
        /\ Linkage(new.id, o.name)'
    <3>1. new \in remote' /\ new.name = o.name /\ remote \subseteq remote'
      BY <1>3, <2>1
    <3>2. Rows' = Rows
      BY <1>1 DEF Rows, HasRow
    <3>3. \A n : Taken(n) \/ n = o.name => Taken(n)'
      BY <3>1 DEF Taken
    <3>4. /\ \A i, n : Linkage(i, n) => Linkage(i, n)'
          /\ Linkage(new.id, o.name)'
      <4>1. new = [id |-> new.id, name |-> o.name]
        BY <1>3, <2>1
      <4> QED
        BY <3>1, <4>1 DEF Linkage
    <3> QED
      BY <3>2, <3>3, <3>4
  <2>6. PagesOK' /\ RowsOK'
    BY <1>1, <2>2, <2>5 DEF PagesOK, RowsOK
  <2>7. RemoteOK'
    BY <1>3, <2>1, <2>2 DEF RemoteOK
  <2>8. \A r \in Rows' : Standing(r)'
    BY <1>1, <2>2, <2>5 DEF Standing
  <2>9. \A p \in MonPages : \A n \in page'[p] : n = Foreign \/ Taken(n)'
    BY <1>1, <2>2, <2>5
  <2>10. CASE To(u, "lookup")
    <3> PICK q : q = [o EXCEPT !.pc = "lookup"]
      OBVIOUS
    <3>1. /\ q.pc = "lookup" /\ q.name = o.name /\ q.pages = o.pages
          /\ q.errs = o.errs /\ q.edits = o.edits /\ q.row = o.row
      BY <1>1 DEF IsOp, Fields
    <3>2. op' = [op EXCEPT ![u] = q]
      BY <1>1, <2>10 DEF To
    <3>3. ~AtWork(q) /\ EditsOK(q)'
      BY <3>1 DEF World, EditsOK, AtWork
    <3>4. \A x \in remote' : x.name = o.name => x = new
      BY <1>3, <2>1
    <3>5. LookingUp(q)'
      BY <1>1, <2>1, <2>3, <2>4, <2>5, <3>1, <3>4 DEF LookingUp, Posting, Asks, Others, Rows
    <3>6. World(q)'
      BY <2>6, <2>7, <2>8, <2>9, <3>1, <3>3, <3>5 DEF World, Listed, Fits
    <3> QED
      BY <3>1, <3>2, <3>6 DEF Goes
  <2>11. CASE Linked(u, spent.ids + 1, "edit")
    <3>1. PICK q : /\ Goes(u, q) /\ q.pc = "edit" /\ q.kind = "create" /\ q.row = o.row
                   /\ q.name = o.name /\ q.id = spent.ids + 1 /\ q.ref = o.name
                   /\ q.pages = o.pages /\ q.errs = o.errs
                   /\ q.edits = Edits("add", o.pages, o.name)
      BY <1>1, <2>11, LinkedIs
    <3>2. /\ q.edits \in Seq(PageEdits) /\ \A e \in Left(q) : e.ref = o.name
          /\ Joining(page, Left(q), o.name, o.pages)
      BY <1>1, <2>3, <3>1, Added DEF Posting, Asks
    <3>3. ~AtWork(q)
      BY <3>1 DEF AtWork
    <3>4. EditsOK(q)'
      BY <2>4, <2>5, <3>1, <3>2, <1>1 DEF World, EditsOK, Left
    <3>5. Creating(q)'
      <4>1. Asks(q) /\ Linkage(q.id, q.name)'
        BY <1>1, <2>1, <2>5, <3>1 DEF Posting, Asks, Linkage
      <4>2. \A r \in Rows' : row'[r].ref # q.ref /\ row'[r].id # q.id
        BY <1>1, <2>1, <2>4, <2>5, <3>1 DEF Rows
      <4>3. Joining(page', Left(q), q.ref, q.pages)
        BY <1>1, <3>1, <3>2
      <4> QED
        BY <3>1, <4>1, <4>2, <4>3 DEF Creating, Asks, Others, Left, Joining
    <3>6. World(q)'
      BY <2>6, <2>7, <2>8, <2>9, <3>1, <3>3, <3>4, <3>5 DEF World, Listed, Fits
    <3> QED
      BY <3>1, <3>6
  <2> QED
    BY <1>3, <2>10, <2>11
<1>4. CASE spent' = [spent EXCEPT !.ids = @ + 1, !.faults = @ + 1]
  BY <1>1, <1>4 DEF IsSpent
<1> QED
  BY <1>1, <1>2, <1>3, <1>4 DEF PostMonitor

LEMMA LookupWorld ==
  ASSUME MonIInv, NEW u \in MonUsers, NEW o, o = op[u], World(o), Lookup(u)
  PROVE  \E q : Goes(u, q) /\ World(q)'
<1>1. /\ o.pc = "lookup" /\ o.kind = "create" /\ ~AtWork(o) /\ LookingUp(o)
      /\ UNCHANGED <<remote, page, row>>
  BY DEF Lookup, World, Fits, AtWork, MonIInv, Stages, Stage
<1>2. CASE Ends(u)
  BY <1>1, <1>2, GivesUp
<1>3. ASSUME NEW x \in remote, x.name = o.name, Linked(u, x.id, "edit")
      PROVE  \E q : Goes(u, q) /\ World(q)'
  <2>1. PICK q : /\ Goes(u, q) /\ q.pc = "edit" /\ q.kind = "create" /\ q.row = o.row
                 /\ q.name = o.name /\ q.id = x.id /\ q.ref = o.name
                 /\ q.pages = o.pages /\ q.errs = o.errs
                 /\ q.edits = Edits("add", o.pages, o.name)
    BY <1>1, <1>3, LinkedIs
  <2>2. /\ q.edits \in Seq(PageEdits) /\ \A e \in Left(q) : e.ref = o.name
        /\ Joining(page, Left(q), o.name, o.pages)
    BY <1>1, <2>1, Added DEF LookingUp, Asks
  <2>3. /\ ~AtWork(q) /\ Linkage(x.id, o.name) /\ Taken(o.name)
        /\ \A r \in Rows : row[r].ref # o.name
    BY <1>1, <1>3, <2>1 DEF AtWork, World, RemoteOK, Linkage, Taken, LookingUp, Others, Free
  <2>4. EditsOK(q)
    BY <2>1, <2>2, <2>3 DEF World, EditsOK
  <2>5. Creating(q)
    BY <1>1, <1>3, <2>1, <2>2, <2>3 DEF Creating, LookingUp, Asks, Others
  <2>6. World(q)
    BY <1>1, <2>1, <2>3, <2>4, <2>5 DEF World, Listed, Fits, Free
  <2> QED
    BY <1>1, <2>1, <2>6, Still
<1> QED
  BY <1>2, <1>3 DEF Lookup

(* A rename: the new name is nobody's, and the old one is nobody else's.   *)
LEMMA PatchWorld ==
  ASSUME MonIInv, NEW u \in MonUsers, NEW o, o = op[u], World(o), PatchMonitor(u),
         spent.faults \in Nat, spent'.faults = 0
  PROVE  \E q : Goes(u, q) /\ World(q)'
<1> DEFINE mine == {x \in remote : x.id = o.id}
           may == mine # {} /\ \A x \in remote \ mine : x.name # o.name
           new == [id |-> o.id, name |-> o.name]
           renamed == (remote \ mine) \union {new}
<1>1. /\ o.pc = "patch" /\ ~AtWork(o) /\ Patching(o)
      /\ UNCHANGED <<mplan, page, row>> /\ IsOp(o) /\ op = [v \in MonUsers |-> op[v]]
  BY DEF PatchMonitor, World, Fits, AtWork, MonIInv, Shapes
<1>2. CASE Ends(u) /\ UNCHANGED remote
  BY <1>1, <1>2, GivesUp
<1>3. CASE may /\ remote' = renamed /\ To(u, "edit")
  <2> PICK r, n : r = o.row /\ n = o.name
    OBVIOUS
  <2>1. /\ r \in Rows /\ n \in MonNames /\ o.pages \in PageSets
        /\ o = Updating(r, n, o.pages, "patch")
    BY <1>1 DEF Patching, Asks
  <2>2. /\ o.kind = "update" /\ o.old = row[r] /\ o.id = row[r].id /\ o.ref = n
    <3>1. PICK ps : ps = o.pages
      OBVIOUS
    <3>2. o = Updating(r, n, ps, "patch")
      BY <2>1, <3>1
    <3> QED
      BY <3>2, UpdatingIs
  <2>3. /\ PagesOK /\ RemoteOK /\ RowsOK /\ \A x \in Rows : Standing(x)
        /\ \A p \in MonPages : \A m \in page[p] : m = Foreign \/ Taken(m)
        /\ row[r].name = row[r].ref
    BY <1>1, <2>1 DEF World, Free, Listed, RowsOK
  <2>4. \A x \in mine : x.name = row[r].ref
    <3>1. [id |-> o.id, name |-> row[r].ref] \in remote
      BY <2>1, <2>2, <2>3 DEF Standing, Linkage
    <3>2. \A x \in remote : x.id = o.id => x = [id |-> o.id, name |-> row[r].ref]
      BY <2>3, <3>1 DEF RemoteOK
    <3> QED
      BY <3>2
  <2>5. \A x \in Rows \ {r} : /\ row[x].id # o.id /\ row[x].ref # n
                              /\ row[x].ref # row[r].ref
                              /\ [id |-> row[x].id, name |-> row[x].name] \in remote \ mine
    <3> SUFFICES ASSUME NEW x \in Rows \ {r}
                 PROVE  /\ row[x].id # o.id /\ row[x].ref # n
                        /\ row[x].ref # row[r].ref
                        /\ [id |-> row[x].id, name |-> row[x].name] \in remote \ mine
      OBVIOUS
    <3>1. row[x].id # row[r].id /\ row[x].ref # row[r].ref /\ row[x].name = row[x].ref
      BY <2>1, <2>3 DEF RowsOK
    <3>2. [id |-> row[x].id, name |-> row[x].name] \in remote \ mine
      BY <2>2, <2>3, <3>1 DEF Standing, Linkage
    <3>3. row[x].name # n
      BY <1>3, <3>2
    <3> QED
      BY <2>2, <3>1, <3>2, <3>3
  <2>6. n = row[r].ref \/ \A p \in MonPages : n \notin page[p]
    <3> SUFFICES ASSUME NEW p \in MonPages, n \in page[p] PROVE n = row[r].ref
      OBVIOUS
    <3>1. PICK x \in remote : x.name = n
      BY <2>1, <2>3, ForeignIsNoName DEF Taken
    <3> QED
      BY <1>3, <2>4, <3>1
  <2>7. /\ o.edits \in Seq(PageEdits)
        /\ \A e \in Left(o) : e.ref = n \/ (e.ref = row[r].ref /\ e.how = "remove")
        /\ Joining(page, Left(o), n, o.pages)
        /\ n # row[r].ref => Leaving(page, Left(o), row[r].ref)
    BY <2>1, <2>3, <2>6, Prepared
  <2> PICK q : q = [o EXCEPT !.pc = "edit"]
    OBVIOUS
  <2>8. /\ q.pc = "edit" /\ q.kind = "update" /\ q.row = r /\ q.old = row[r]
        /\ q.name = n /\ q.id = row[r].id /\ q.ref = n /\ q.pages = o.pages
        /\ q.edits = o.edits /\ q.errs = FALSE
    BY <1>1, <2>2 DEF IsOp, Fields, World, EditsOK
  <2>9. Goes(u, q)
    BY <1>1, <1>3, <2>8 DEF To, Goes
  <2>10. AtWork(q) /\ \A x : Free(q, x) <=> x # r
    BY <2>8 DEF AtWork, Free
  <2>11. /\ Rows' = Rows /\ Taken(n)' /\ Linkage(row[r].id, n)'
         /\ \A m : Taken(m) => Taken(m)' \/ m = row[r].ref
         /\ \A x \in Rows \ {r} : Linkage(row[x].id, row[x].name)'
    <3>1. new \in remote' /\ new.name = n /\ new = [id |-> row[r].id, name |-> n]
      BY <1>3, <2>2
    <3>2. \A x \in remote : x \in remote' \/ x \in mine
      BY <1>3
    <3> HIDE DEF mine, new, renamed, may
    <3>3. Rows' = Rows /\ Taken(n)' /\ Linkage(row[r].id, n)'
      BY <1>1, <3>1 DEF Rows, HasRow, Taken, Linkage
    <3>4. \A m : Taken(m) => Taken(m)' \/ m = row[r].ref
      BY <2>4, <3>2 DEF Taken
    <3>5. \A x \in Rows \ {r} : Linkage(row[x].id, row[x].name)'
      BY <1>1, <2>5, <3>2 DEF Linkage
    <3> QED
      BY <3>3, <3>4, <3>5
  <2>12. PagesOK' /\ RowsOK'
    BY <1>1, <2>3, <2>11 DEF PagesOK, RowsOK
  <2>13. RemoteOK'
    BY <1>3, <2>3 DEF RemoteOK
  <2> HIDE DEF mine, may, new, renamed
  <2>14. \A x \in Rows' : Free(q, x) => Standing(x)'
    BY <1>1, <2>3, <2>10, <2>11 DEF Standing, Linkage
  <2>15. Listed(q)'
    BY <1>1, <2>3, <2>8, <2>10, <2>11 DEF Listed
  <2>16. EditsOK(q)'
    <3>1. Left(q) = Left(o)
      BY <2>8 DEF Left
    <3>2. \A e \in Left(q) : \A x \in Rows' : Free(q, x) => row'[x].ref # e.ref
      <4>1. row' = row /\ Rows' = Rows
        BY <1>1, <2>11
      <4>2. \A x \in Rows : Free(q, x) => row[x].ref # n /\ row[x].ref # row[r].ref
        BY <2>5, <2>10
      <4> QED
        BY <2>7, <3>1, <4>1, <4>2
    <3>3. \A e \in Left(q) : e.how = "add" => e.ref = n
      BY <2>7, <3>1
    <3> QED
      BY <2>7, <2>8, <2>11, <3>2, <3>3 DEF EditsOK, Left, Taken
  <2>17. Moving(q)'
    <3>1. Left(q) = Left(o) /\ page' = page /\ row' = row
      BY <1>1, <2>8 DEF Left
    <3>2. Asks(q) /\ Linkage(q.id, q.name)'
      BY <2>1, <2>8, <2>11, <3>1 DEF Asks, Linkage
    <3>3. \A x \in Rows' : Free(q, x) => row'[x].ref # q.ref
      <4>1. \A x \in Rows : Free(q, x) => row[x].ref # n
        BY <2>5, <2>10
      <4> QED
        BY <2>8, <2>11, <3>1, <4>1
    <3>4. Joining(page', Left(q), q.ref, q.pages)
      BY <2>7, <2>8, <3>1
    <3>5. q.ref # q.old.ref => Leaving(page', Left(q), q.old.ref)
      BY <2>7, <2>8, <3>1
    <3>6. q.row \in Rows' /\ q.old = row'[q.row]
      BY <2>1, <2>8, <2>11, <3>1
    <3> QED
      BY <2>8, <3>2, <3>3, <3>4, <3>5, <3>6 DEF Moving, Asks, Others, Left, Joining, Leaving
  <2>18. World(q)'
    BY <2>8, <2>12, <2>13, <2>14, <2>15, <2>16, <2>17 DEF World, Fits
  <2> QED
    BY <2>9, <2>18
<1>4. ~Paid(TRUE)
  BY NoFault
<1> HIDE DEF mine, may, new, renamed
<1> QED
  BY <1>1, <1>2, <1>3, <1>4 DEF PatchMonitor, mine, may, new, renamed

(* A page: found as it should be, or read and written back.                *)
Edited(u) == NextEdit(u, FALSE)

LEMMA EditedIs ==
  ASSUME MonIInv, NEW u \in MonUsers, NEW o, o = op[u], World(o), Edited(u)
  PROVE  \E q : /\ Goes(u, q) /\ q.pc = "edit" /\ q.edits = Tail(o.edits)
                /\ q.errs = o.errs /\ q.kind = o.kind /\ q.row = o.row /\ q.old = o.old
                /\ q.name = o.name /\ q.id = o.id /\ q.ref = o.ref /\ q.pages = o.pages
<1> PICK e : e = (o.errs \/ FALSE)
  OBVIOUS
<1> PICK q : q = [o EXCEPT !.pc = "edit", !.edits = Tail(o.edits), !.errs = e,
                           !.seen = {}]
  OBVIOUS
<1>1. e = FALSE /\ o.errs = FALSE
  BY Zenon DEF World, EditsOK
<1>2. op = [v \in MonUsers |-> op[v]] /\ IsOp(o)
  BY DEF MonIInv, Shapes
<1>3. op' = [op EXCEPT ![u].pc = "edit", ![u].edits = Tail(o.edits), ![u].errs = e,
                       ![u].seen = {}]
  BY Zenon DEF Edited, NextEdit
<1>4. op' = [op EXCEPT ![u] = q]
  BY <1>2, <1>3
<1>5. /\ q.pc = "edit" /\ q.edits = Tail(o.edits)
      /\ q.errs = o.errs /\ q.kind = o.kind /\ q.row = o.row /\ q.old = o.old
      /\ q.name = o.name /\ q.id = o.id /\ q.ref = o.ref /\ q.pages = o.pages
  BY <1>1, <1>2 DEF IsOp, Fields
<1> QED
  BY <1>4, <1>5 DEF Goes

LEMMA GetWorld ==
  ASSUME MonIInv, NEW u \in MonUsers, NEW o, o = op[u], World(o), GetPage(u),
         spent.faults \in Nat, spent'.faults = 0
  PROVE  \E q : Goes(u, q) /\ World(q)'
<1> PICK e : e = Head(o.edits)
  OBVIOUS
<1>1. /\ o.pc = "edit" /\ o.edits # <<>> /\ UNCHANGED <<remote, page, row>>
      /\ o.kind \in {"create", "update", "delete", "unlink"} /\ o.errs = FALSE
      /\ op = [v \in MonUsers |-> op[v]] /\ IsOp(o)
  BY DEF GetPage, MonIInv, Stages, Stage, Shapes, World, EditsOK
<1>2. CASE (e.how = "add") = (e.ref \in page[e.page]) /\ Edited(u)
  <2>1. PICK q :
          /\ Goes(u, q) /\ q.pc = "edit" /\ q.edits = Tail(o.edits)
          /\ q.errs = o.errs /\ q.kind = o.kind /\ q.row = o.row /\ q.old = o.old
          /\ q.name = o.name /\ q.id = o.id /\ q.ref = o.ref /\ q.pages = o.pages
    BY <1>1, <1>2, EditedIs
  <2>2. page = [p \in MonPages |-> page[p]] /\ \A p \in MonPages : page[p] = page[p] \union {}
    BY DEF World, PagesOK
  <2>3. IF e.how = "add" THEN page[e.page] = page[e.page] \union {e.ref}
                         ELSE page[e.page] = page[e.page] \ {e.ref}
    BY <1>2
  <2>4. Applied(page, e) = page
    BY <2>2, <2>3 DEF Applied
  <2> QED
    BY <1>1, <2>1, <2>4, EditDone
<1>3. CASE op' = [op EXCEPT ![u].pc = "write", ![u].seen = page[e.page]]
  <2> PICK q : q = [o EXCEPT !.pc = "write", !.seen = page[e.page]]
    OBVIOUS
  <2>1. op' = [op EXCEPT ![u] = q]
    BY <1>1, <1>3
  <2>2. /\ q.pc = "write" /\ q.seen = page[e.page] /\ q.edits = o.edits
        /\ q.errs = o.errs /\ q.kind = o.kind /\ q.row = o.row /\ q.old = o.old
        /\ q.name = o.name /\ q.id = o.id /\ q.ref = o.ref /\ q.pages = o.pages
    BY <1>1 DEF IsOp, Fields
  <2>3. /\ AtWork(q) <=> AtWork(o)
        /\ \A r : Free(q, r) <=> Free(o, r)
        /\ Left(q) = Left(o)
    BY <1>1, <2>2 DEF AtWork, Free, Left
  <2>4. Listed(q)
    BY <2>2, <2>3 DEF World, Listed
  <2>5. EditsOK(q)
    BY <1>1, <2>2, <2>3 DEF World, EditsOK
  <2>6. Fits(q)
    BY <1>1, <2>2, <2>3 DEF World, Fits, Creating, Moving, Dropping, Asks, Others
  <2>7. World(q)
    BY <2>3, <2>4, <2>5, <2>6 DEF World
  <2> QED
    BY <1>1, <2>1, <2>2, <2>7, Still DEF Goes
<1>4. ~Paid(TRUE)
  BY NoFault
<1> QED
  BY <1>2, <1>3, <1>4 DEF GetPage, Edit, Edited

LEMMA WriteWorld ==
  ASSUME MonIInv, NEW u \in MonUsers, NEW o, o = op[u], World(o), PatchPage(u),
         spent.faults \in Nat, spent'.faults = 0
  PROVE  \E q : Goes(u, q) /\ World(q)'
<1> PICK e : e = Head(o.edits)
  OBVIOUS
<1>1. /\ o.pc = "write" /\ o.edits # <<>> /\ UNCHANGED <<remote, row>>
      /\ o.kind \in {"create", "update", "delete", "unlink"} /\ o.errs = FALSE
      /\ o.seen = page[e.page]
  BY DEF PatchPage, MonIInv, Stages, Stage, World, EditsOK
<1>2. ~Paid(TRUE)
  BY NoFault
<1>3. /\ Edited(u)
      /\ page' = [page EXCEPT ![e.page] = IF e.how = "add" THEN o.seen \union {e.ref}
                                          ELSE o.seen \ {e.ref}]
  BY <1>2 DEF PatchPage, Edit, Edited
<1>4. page' = Applied(page, e)
  BY <1>1, <1>3 DEF Applied
<1>5. PICK q :
        /\ Goes(u, q) /\ q.pc = "edit" /\ q.edits = Tail(o.edits)
        /\ q.errs = o.errs /\ q.kind = o.kind /\ q.row = o.row /\ q.old = o.old
        /\ q.name = o.name /\ q.id = o.id /\ q.ref = o.ref /\ q.pages = o.pages
  BY <1>1, <1>3, EditedIs
<1> QED
  BY <1>1, <1>4, <1>5, EditDone

(* The monitor of a deleted row goes when no page names it any more.       *)
LEMMA DropWorld ==
  ASSUME MonIInv, NEW u \in MonUsers, NEW o, o = op[u], World(o), DropRemote(u),
         spent.faults \in Nat, spent'.faults = 0
  PROVE  \E q : Goes(u, q) /\ World(q)'
<1>1. /\ o.pc = "edit" /\ o.kind = "delete" /\ o.edits = <<>> /\ To(u, "commit")
      /\ UNCHANGED <<page, row>> /\ op = [v \in MonUsers |-> op[v]] /\ IsOp(o)
  BY DEF DropRemote, MonIInv, Shapes
<1>2. remote' = {x \in remote : x.id # o.id}
  BY NoFault DEF DropRemote
<1> PICK r, gone : r = o.row /\ gone = row[r].ref
  OBVIOUS
<1>3. /\ Dropping(o) /\ RemoteOK /\ RowsOK /\ PagesOK /\ Listed(o) /\ EditsOK(o)
      /\ \A x \in Rows : Free(o, x) => Standing(x)
  BY <1>1 DEF World, Fits
<1>4. /\ r \in Rows /\ o.id = row[r].id
      /\ [id |-> o.id, name |-> gone] \in remote
      /\ \A p \in MonPages : gone \notin page[p]
  BY <1>1, <1>3 DEF Dropping, Linkage, Leaving, Left, InSeq
<1>5. \A x \in remote : x.id = o.id => x = [id |-> o.id, name |-> gone]
  BY <1>3, <1>4 DEF RemoteOK
<1> PICK q : q = [o EXCEPT !.pc = "commit"]
  OBVIOUS
<1>6. /\ q.pc = "commit" /\ q.kind = "delete" /\ q.row = r /\ q.errs = FALSE
      /\ op' = [op EXCEPT ![u] = q]
  BY <1>1, <1>3 DEF IsOp, Fields, To, EditsOK
<1>7. AtWork(q) /\ AtWork(o) /\ \A x : /\ Free(q, x) <=> x # r
                                       /\ Free(o, x) <=> x # r
  BY <1>1, <1>6 DEF AtWork, Free
<1>8. Rows' = Rows /\ \A n : Taken(n) => Taken(n)' \/ n = gone
  BY <1>1, <1>2, <1>5 DEF Rows, HasRow, Taken
<1>9. PagesOK' /\ RowsOK' /\ RemoteOK'
  BY <1>1, <1>2, <1>3, <1>8 DEF PagesOK, RowsOK, RemoteOK
<1>10. \A x \in Rows' : Free(q, x) => Standing(x)'
  <2> SUFFICES ASSUME NEW x \in Rows, x # r PROVE Standing(x)'
    BY <1>7, <1>8
  <2>1. row[x].id # o.id /\ Standing(x)
    BY <1>3, <1>4, <1>7 DEF RowsOK
  <2> QED
    BY <1>1, <1>2, <2>1 DEF Standing, Linkage
<1>11. Listed(q)'
  BY <1>1, <1>3, <1>4, <1>8 DEF Listed
<1>12. EditsOK(q)' /\ Fits(q)'
  BY <1>6 DEF EditsOK, Fits
<1> QED
  BY <1>6, <1>9, <1>10, <1>11, <1>12 DEF World, Goes

(* The commits: the row says what the calls have done.                     *)
LEMMA CommitCreateWorld ==
  ASSUME MonIInv, NEW u \in MonUsers, NEW o, o = op[u], World(o), CommitCreate(u)
  PROVE  \E q : Goes(u, q) /\ World(q)'
<1> PICK st : st = Stored(u)
  OBVIOUS
<1> PICK r \in MonRows : IsNext(r) /\ row' = [row EXCEPT ![r] = st]
  BY DEF CommitCreate
<1>1. /\ o.pc = "edit" /\ o.kind = "create" /\ o.edits = <<>> /\ Ends(u)
      /\ UNCHANGED <<remote, page>> /\ row = [x \in MonRows |-> row[x]]
  BY DEF CommitCreate, Ready, MonIInv, Stages, Stage, Shapes
<1>2. /\ st.name = o.name /\ st.ref = o.ref /\ st.id = o.id /\ st.pages = o.pages
      /\ st.status # "none"
  BY DEF Stored
<1>3. ~HasRow(r)
  BY MonRowsAreInts DEF IsNext
<1>4. /\ \A x \in MonRows \ {r} : row'[x] = row[x]
      /\ row'[r] = st
  BY <1>1
<1>5. Rows' = Rows \union {r} /\ r \notin Rows
  BY <1>2, <1>3, <1>4 DEF Rows, HasRow
<1>6. /\ Creating(o) /\ RemoteOK /\ RowsOK /\ PagesOK /\ Listed(o) /\ ~AtWork(o)
      /\ \A x \in Rows : Standing(x)
  BY <1>1 DEF World, Fits, AtWork, Free
<1>7. /\ o.name \in MonNames /\ o.pages \in PageSets /\ o.ref = o.name
      /\ Linkage(o.id, o.name)
      /\ \A x \in Rows : row[x].id # o.id /\ row[x].ref # o.ref
      /\ \A p \in MonPages : o.ref \in page[p] <=> p \in o.pages
  <2>1. Left(o) = {}
    BY <1>1 DEF Left, InSeq
  <2>2. \A p \in MonPages : o.ref \in page[p] <=> p \in o.pages
    BY <1>6, <2>1 DEF Creating, Joining
  <2> QED
    BY <1>6, <2>2 DEF Creating, Asks, Others, Free
<1>8. PagesOK' /\ RemoteOK'
  BY <1>1, <1>6 DEF PagesOK, RemoteOK
<1>9. RowsOK'
  BY <1>2, <1>4, <1>5, <1>6, <1>7 DEF RowsOK, Rows
<1>10. ASSUME NEW x \in Rows' PROVE Standing(x)'
  <2>1. CASE x = r
    BY <1>1, <1>2, <1>4, <1>7, <2>1 DEF Standing, Linkage
  <2>2. CASE x # r
    BY <1>1, <1>4, <1>5, <1>6, <1>10, <2>2 DEF Standing, Linkage, Rows
  <2> QED
    BY <2>1, <2>2
<1>11. \A p \in MonPages : \A n \in page'[p] : n = Foreign \/ Taken(n)'
  BY <1>1, <1>6 DEF Listed, Taken
<1> QED
  BY <1>1, <1>8, <1>9, <1>10, <1>11, ComesToRest DEF Ends, Goes

LEMMA CommitUpdateWorld ==
  ASSUME MonIInv, NEW u \in MonUsers, NEW o, o = op[u], World(o), CommitUpdate(u)
  PROVE  \E q : Goes(u, q) /\ World(q)'
<1> PICK r, st : r = o.row /\ st = Written(u)
  OBVIOUS
<1>1. /\ o.pc = "edit" /\ o.kind = "update" /\ o.edits = <<>> /\ Ends(u)
      /\ UNCHANGED <<remote, page>> /\ row = [x \in MonRows |-> row[x]]
  BY DEF CommitUpdate, Ready, MonIInv, Stages, Stage, Shapes
<1>2. /\ Moving(o) /\ RemoteOK /\ RowsOK /\ PagesOK /\ Listed(o)
      /\ \A x \in Rows : Free(o, x) => Standing(x)
  BY <1>1 DEF World, Fits
<1>3. \A x : Free(o, x) <=> x # r
  BY <1>1 DEF AtWork, Free
<1>4. /\ o.name \in MonNames /\ o.pages \in PageSets /\ o.ref = o.name
      /\ Linkage(o.id, o.name) /\ r \in Rows /\ o.old = row[r] /\ o.id = row[r].id
      /\ \A x \in Rows : x # r => row[x].ref # o.ref
      /\ \A p \in MonPages : o.ref \in page[p] <=> p \in o.pages
      /\ o.ref # row[r].ref => \A p \in MonPages : row[r].ref \notin page[p]
  <2>1. Left(o) = {}
    BY <1>1 DEF Left, InSeq
  <2>2. /\ Asks(o) /\ o.ref = o.name /\ Linkage(o.id, o.name) /\ Others(o, o.ref)
        /\ r \in Rows /\ o.old = row[r] /\ o.id = row[r].id
    BY <1>2 DEF Moving
  <2>3. \A p \in MonPages : o.ref \in page[p] <=> p \in o.pages
    BY <1>2, <2>1 DEF Moving, Joining
  <2>4. o.ref # row[r].ref => \A p \in MonPages : row[r].ref \notin page[p]
    BY <1>2, <2>1, <2>2 DEF Moving, Leaving
  <2> QED
    BY <1>3, <2>2, <2>3, <2>4 DEF Asks, Others
<1>5. /\ st.name = o.name /\ st.ref = o.ref /\ st.id = o.id /\ st.pages = o.pages
      /\ st.status # "none"
  <2>1. \A c \in DOMAIN NoRow : st[c] = Stored(u)[c]
    BY <1>4 DEF Written
  <2>2. /\ Stored(u).name = o.name /\ Stored(u).ref = o.ref /\ Stored(u).id = o.id
        /\ Stored(u).pages = o.pages /\ Stored(u).status # "none"
    BY DEF Stored
  <2>3. {"name", "ref", "id", "pages", "status"} \subseteq DOMAIN NoRow
    BY DEF NoRow
  <2> QED
    BY <2>1, <2>2, <2>3
<1>6. row' = [row EXCEPT ![r] = st]
  BY <1>4 DEF CommitUpdate, Rows
<1>7. /\ \A x \in MonRows \ {r} : row'[x] = row[x]
      /\ row'[r] = st /\ r \in MonRows
  BY <1>1, <1>4, <1>6 DEF Rows
<1>8. Rows' = Rows
  BY <1>4, <1>5, <1>7 DEF Rows, HasRow
<1>9. PagesOK' /\ RemoteOK'
  BY <1>1, <1>2 DEF PagesOK, RemoteOK
<1>10. RowsOK'
  <2>1. \A x \in Rows : x # r => row[x].id # o.id
    BY <1>2, <1>4 DEF RowsOK
  <2> QED
    BY <1>2, <1>4, <1>5, <1>7, <1>8, <2>1 DEF RowsOK, Rows
<1>11. ASSUME NEW x \in Rows' PROVE Standing(x)'
  <2>1. CASE x = r
    BY <1>1, <1>4, <1>5, <1>7, <2>1 DEF Standing, Linkage
  <2>2. CASE x # r
    BY <1>1, <1>2, <1>3, <1>7, <1>8, <1>11, <2>2 DEF Standing, Linkage, Rows
  <2> QED
    BY <2>1, <2>2
<1>12. \A p \in MonPages : \A n \in page'[p] : n = Foreign \/ Taken(n)'
  <2>1. Taken(o.ref)
    BY <1>4 DEF Linkage, Taken
  <2>2. \A p \in MonPages : \A n \in page[p] : n = Foreign \/ Taken(n) \/ n = row[r].ref
    BY <1>2, <1>4 DEF Listed
  <2>3. \A p \in MonPages : \A n \in page[p] : n = Foreign \/ Taken(n)
    BY <1>4, <2>1, <2>2
  <2> QED
    BY <1>1, <2>3 DEF Taken
<1> QED
  BY <1>1, <1>9, <1>10, <1>11, <1>12, ComesToRest DEF Ends, Goes

LEMMA CommitDeleteWorld ==
  ASSUME MonIInv, NEW u \in MonUsers, NEW o, o = op[u], World(o), CommitDelete(u)
  PROVE  \E q : Goes(u, q) /\ World(q)'
<1> PICK r : r = o.row
  OBVIOUS
<1>1. /\ o.pc \in {"edit", "commit"} /\ o.kind \in {"delete", "unlink"} /\ Ends(u)
      /\ UNCHANGED <<remote, page>> /\ row = [x \in MonRows |-> row[x]]
      /\ row' = [row EXCEPT ![r] = NoRow]
  BY DEF CommitDelete, Ready, MonIInv, Shapes
<1>2. /\ RemoteOK /\ RowsOK /\ PagesOK /\ Listed(o)
      /\ \A x \in Rows : Free(o, x) => Standing(x)
  BY DEF World
<1>3. NoRow.status = "none"
  BY DEF NoRow
<1>4. Rows' = Rows \ {r} /\ \A x \in MonRows \ {r} : row'[x] = row[x]
  BY <1>1, <1>3 DEF Rows, HasRow
<1>5. PagesOK' /\ RemoteOK' /\ RowsOK'
  BY <1>1, <1>2, <1>4 DEF PagesOK, RemoteOK, RowsOK, Rows
<1>6. \A x \in Rows' : Standing(x)'
  <2> SUFFICES ASSUME NEW x \in Rows, x # r PROVE Standing(x)'
    BY <1>4
  <2>1. Standing(x) /\ row'[x] = row[x]
    BY <1>2, <1>4 DEF Free, Rows
  <2> QED
    BY <1>1, <2>1 DEF Standing, Linkage
<1>7. \A p \in MonPages : \A n \in page'[p] : n = Foreign \/ Taken(n)'
  BY <1>1, <1>2 DEF Listed, Taken
<1> QED
  BY <1>1, <1>5, <1>6, <1>7, ComesToRest DEF Ends, Goes

(* The start, and every step of the one user.                              *)
LEMMA FaithfulInit == MonInit => Faithful
<1> SUFFICES ASSUME MonInit PROVE Faithful
  OBVIOUS
<1>1. /\ mplan \in MonPlans /\ remote = {} /\ spent.faults = 0
      /\ page = [p \in MonPages |-> {Foreign}]
      /\ \A r \in MonRows : row[r] = NoRow
      /\ \A u \in MonUsers : op[u] = NoOp
  BY DEF MonInit
<1>2. Rows = {}
  <2>1. NoRow.status = "none"
    BY DEF NoRow
  <2> QED
    BY <1>1, <2>1 DEF Rows, HasRow
<1>3. World(NoOp)
  BY <1>1, <1>2, AtRest DEF PagesOK, RemoteOK, RowsOK
<1>4. \A u \in MonUsers : ~Acting(u)
  <2>1. NoOp.pc = "idle"
    BY DEF NoOp
  <2> QED
    BY <1>1, <2>1 DEF Acting
<1> QED
  BY <1>1, <1>3, <1>4 DEF Faithful, Actors, Current

FaultsGrow == spent'.faults \in Nat /\ spent'.faults >= spent.faults

LEMMA PaidCounted ==
  ASSUME MonIInv, spent.faults \in Nat, NEW f, Paid(f) \/ UNCHANGED spent
  PROVE  FaultsGrow
<1>1. IsSpent
  BY DEF MonIInv, Shapes
<1>2. CASE UNCHANGED spent
  BY <1>2 DEF FaultsGrow
<1>3. CASE Paid(f)
  <2>1. PICK k : k = IF f THEN spent.faults + 1 ELSE spent.faults
    OBVIOUS
  <2>2. k \in Nat /\ k >= spent.faults
    BY <2>1
  <2>3. spent' = [spent EXCEPT !.faults = k]
    BY <1>3, <2>1 DEF Paid
  <2>4. spent'.faults = k
    BY <1>1, <2>3 DEF IsSpent
  <2> QED
    BY <2>2, <2>4 DEF FaultsGrow
<1> QED
  BY <1>2, <1>3

LEMMA RequestCounted ==
  ASSUME MonIInv, spent.faults \in Nat, NEW u, NEW o, Begins(u, o)
  PROVE  FaultsGrow
<1>1. IsSpent /\ spent' = [spent EXCEPT !.requests = @ + 1]
  BY DEF MonIInv, Shapes, Begins
<1>2. spent'.faults = spent.faults
  BY <1>1 DEF IsSpent
<1> QED
  BY <1>2 DEF FaultsGrow

LEMMA PostCounted ==
  ASSUME MonIInv, spent.faults \in Nat, NEW u, PostMonitor(u)
  PROVE  FaultsGrow
<1>1. IsSpent
  BY DEF MonIInv, Shapes
<1>2. CASE spent' = [spent EXCEPT !.ids = @ + 1]
  <2>1. spent'.faults = spent.faults
    BY <1>1, <1>2 DEF IsSpent
  <2> QED
    BY <2>1 DEF FaultsGrow
<1>3. CASE spent' = [spent EXCEPT !.ids = @ + 1, !.faults = @ + 1]
  <2>1. spent'.faults = spent.faults + 1
    BY <1>1, <1>3 DEF IsSpent
  <2> QED
    BY <2>1 DEF FaultsGrow
<1>4. CASE Paid(~Taken(op[u].name))
  BY <1>4, PaidCounted
<1> QED
  BY <1>2, <1>3, <1>4, Zenon DEF PostMonitor

LEMMA Counted ==
  ASSUME MonIInv, spent.faults \in Nat, MonNext
  PROVE  FaultsGrow
<1>1. PICK u \in MonUsers :
        CreateMonitor(u) \/ UpdateMonitor(u) \/ DeleteMonitor(u) \/ MonStep(u)
  BY DEF MonNext
<1>2. CASE CreateMonitor(u) \/ UpdateMonitor(u) \/ DeleteMonitor(u)
  <2>1. PICK o : Begins(u, o)
    BY <1>2, Zenon DEF CreateMonitor, UpdateMonitor, DeleteMonitor
  <2> QED
    BY <2>1, RequestCounted
<1>3. CASE MonStep(u)
  <2>1. CASE PostMonitor(u)
    BY <2>1, PostCounted
  <2>2. CASE \/ PatchMonitor(u) \/ DropRemote(u) \/ GetPage(u) \/ PatchPage(u)
             \/ CommitCreate(u) \/ CommitUpdate(u) \/ CommitDelete(u)
             \/ CommitFails(u)
    <3>1. Paid(TRUE) \/ UNCHANGED spent
      BY <2>2, Zenon DEF PatchMonitor, DropRemote, GetPage, PatchPage, CommitCreate,
         CommitUpdate, CommitDelete, CommitFails
    <3> QED
      BY <3>1, PaidCounted
  <2>3. CASE Lookup(u)
    <3>1. Paid(Taken(op[u].name)) \/ UNCHANGED spent
      BY <2>3, Zenon DEF Lookup
    <3> QED
      BY <3>1, PaidCounted
  <2> QED
    BY <1>3, <2>1, <2>2, <2>3 DEF MonStep
<1> QED
  BY <1>1, <1>2, <1>3

(* A step is of one user, and leaves what the others are at.               *)
Alone(u) == \A v \in MonUsers \ {u} : op'[v] = op[v]

LEMMA HandsKept ==
  ASSUME MonIInv, NEW u \in MonUsers,
         \/ \E o : Begins(u, o)
         \/ Ends(u)
         \/ \E pc : To(u, pc)
         \/ \E i, pc : Linked(u, i, pc)
         \/ \E f : NextEdit(u, f)
  PROVE  Alone(u)
<1>1. op = [v \in MonUsers |-> op[v]]
  BY DEF MonIInv, Shapes
<1>2. ASSUME NEW o, Begins(u, o) PROVE Alone(u)
  BY <1>1, <1>2 DEF Begins, Alone
<1>3. ASSUME Ends(u) PROVE Alone(u)
  BY <1>1, <1>3 DEF Ends, Alone
<1>4. ASSUME NEW pc, To(u, pc) PROVE Alone(u)
  BY <1>1, <1>4 DEF To, Alone
<1>5. ASSUME NEW i, NEW pc, Linked(u, i, pc) PROVE Alone(u)
  BY <1>1, <1>5 DEF Linked, Alone
<1>6. ASSUME NEW f, NextEdit(u, f) PROVE Alone(u)
  BY <1>1, <1>6 DEF NextEdit, Alone
<1> QED
  BY <1>2, <1>3, <1>4, <1>5, <1>6

LEMMA OneActs ==
  ASSUME MonIInv, NEW u \in MonUsers,
         CreateMonitor(u) \/ UpdateMonitor(u) \/ DeleteMonitor(u) \/ MonStep(u)
  PROVE  Alone(u)
<1>1. CASE CreateMonitor(u) \/ UpdateMonitor(u) \/ DeleteMonitor(u)
  <2>1. \E o : Begins(u, o)
    BY <1>1, Zenon DEF CreateMonitor, UpdateMonitor, DeleteMonitor
  <2> QED
    BY <2>1, HandsKept
<1>2. CASE PostMonitor(u) \/ PatchMonitor(u) \/ DropRemote(u)
  <2>1. Ends(u) \/ (\E pc : To(u, pc)) \/ \E i, pc : Linked(u, i, pc)
    BY <1>2, Zenon DEF PostMonitor, PatchMonitor, DropRemote
  <2> QED
    BY <2>1, HandsKept
<1>3. CASE Lookup(u)
  <2>1. Ends(u) \/ \E i, pc : Linked(u, i, pc)
    BY <1>3, Zenon DEF Lookup
  <2> QED
    BY <2>1, HandsKept
<1>4. CASE GetPage(u)
  <2>1. CASE \E f : NextEdit(u, f)
    BY <2>1, HandsKept
  <2>2. CASE op' = [op EXCEPT ![u].pc = "write", ![u].seen = page[Edit(u).page]]
    BY <2>2 DEF MonIInv, Shapes, Alone
  <2> QED
    BY <1>4, <2>1, <2>2, Zenon DEF GetPage
<1>5. CASE PatchPage(u)
  <2>1. \E f : NextEdit(u, f)
    BY <1>5, Zenon DEF PatchPage
  <2> QED
    BY <2>1, HandsKept
<1>6. CASE CommitCreate(u) \/ CommitUpdate(u) \/ CommitDelete(u) \/ CommitFails(u)
  <2>1. Ends(u)
    BY <1>6, Zenon DEF CommitCreate, CommitUpdate, CommitDelete, CommitFails
  <2> QED
    BY <2>1, HandsKept
<1> QED
  BY <1>1, <1>2, <1>3, <1>4, <1>5, <1>6 DEF MonStep

LEMMA FaithfulStep ==
  ASSUME MonIInv, Faithful, MonNext
  PROVE  Faithful'
<1>1. PICK u \in MonUsers :
        CreateMonitor(u) \/ UpdateMonitor(u) \/ DeleteMonitor(u) \/ MonStep(u)
  BY DEF MonNext
<1>2. /\ spent.faults \in Nat /\ spent'.faults \in Nat /\ spent'.faults >= spent.faults
      /\ Actors
  BY Counted DEF Faithful, Actors, FaultsGrow
<1>3. UNCHANGED mplan
  BY <1>1 DEF CreateMonitor, UpdateMonitor, DeleteMonitor, MonStep, PostMonitor, Lookup,
     PatchMonitor, DropRemote, GetPage, PatchPage, CommitCreate, CommitUpdate,
     CommitDelete, CommitFails
<1>4. u \in mplan.users
  <2>1. CASE CreateMonitor(u) \/ UpdateMonitor(u) \/ DeleteMonitor(u)
    BY <2>1, Zenon DEF CreateMonitor, UpdateMonitor, DeleteMonitor, Begins
  <2>2. CASE MonStep(u)
    <3>1. op[u].pc # "idle"
      BY <2>2 DEF MonStep, PostMonitor, Lookup, PatchMonitor, DropRemote, GetPage,
         PatchPage, CommitCreate, CommitUpdate, CommitDelete, CommitFails, Ready
    <3> QED
      BY <1>2, <3>1 DEF Actors, Acting
  <2> QED
    BY <1>1, <2>1, <2>2
<1>5. ASSUME Serial, spent'.faults = 0
      PROVE  \E q : Goes(u, q) /\ World(q)'
  <2>1. spent.faults = 0 /\ \A o \in Current : World(o)
    BY <1>2, <1>5 DEF Faithful
  <2>2. CASE CreateMonitor(u) \/ UpdateMonitor(u) \/ DeleteMonitor(u)
    <3>1. op[u].pc = "idle"
      BY <2>2, Zenon DEF CreateMonitor, UpdateMonitor, DeleteMonitor, Begins
    <3>2. MonAtRest
      BY <1>2, <1>4, <1>5, <3>1, OneUser DEF Actors, Acting, MonAtRest
    <3>3. World(NoOp)
      BY <2>1, <3>2 DEF Current
    <3> QED
      BY <1>2, <2>2, <3>3, CreateBegins, UpdateBegins, DeleteBegins
  <2>3. CASE MonStep(u)
    <3> PICK o : o = op[u]
      OBVIOUS
    <3>1. o.pc # "idle"
      BY <2>3 DEF MonStep, PostMonitor, Lookup, PatchMonitor, DropRemote, GetPage,
         PatchPage, CommitCreate, CommitUpdate, CommitDelete, CommitFails, Ready
    <3>2. World(o)
      BY <2>1, <3>1 DEF Current, Acting
    <3>3. ~CommitFails(u)
      BY <1>2, <1>5, NoFault DEF CommitFails
    <3> QED
      BY <1>2, <1>5, <2>3, <3>2, <3>3, PostWorld, LookupWorld, PatchWorld, DropWorld,
         GetWorld, WriteWorld, CommitCreateWorld, CommitUpdateWorld, CommitDeleteWorld
         DEF MonStep
  <2> QED
    BY <1>1, <2>2, <2>3
<1>6. CASE Serial /\ spent'.faults = 0
  <2>1. PICK q : Goes(u, q) /\ World(q)'
    BY <1>5, <1>6
  <2> QED
    BY <1>2, <1>3, <1>4, <1>6, <2>1, Handover
<1>7. CASE ~(Serial /\ spent'.faults = 0)
  <2>1. ~(Serial' /\ spent'.faults = 0)
    BY <1>3, <1>7 DEF Serial
  <2>2. \A v \in MonUsers \ {u} : op'[v] = op[v]
    BY <1>1, OneActs DEF Alone
  <2>3. Actors'
    BY <1>2, <1>3, <1>4, <2>2 DEF Actors, Acting
  <2> QED
    BY <2>1, <2>3 DEF Faithful
<1> QED
  BY <1>6, <1>7

(* A user who works alone, and without a fault, finds each monitor on just *)
(* the pages its row names, and the entries of others where they were: for *)
(* any monitors, names and pages, renames and changes of pages.            *)
THEOREM PagesAsAsked == MonSpec => []PagesMatchIntent
<1>1. MonIInv /\ Faithful => PagesMatchIntent
  <2> SUFFICES ASSUME Faithful, MonAtRest, Serial, spent.faults = 0
               PROVE  /\ \A p \in MonPages : Foreign \in page[p]
                      /\ \A r \in Rows :
                           /\ [id |-> row[r].id, name |-> row[r].name] \in remote
                           /\ \A p \in MonPages :
                                row[r].ref \in page[p] <=> p \in row[r].pages
    BY DEF PagesMatchIntent
  <2>1. World(NoOp)
    BY DEF Faithful, Current
  <2> QED
    BY <2>1, AtRest DEF PagesOK, Standing, Linkage
<1>2. MonIInv /\ Faithful /\ [MonNext]_monVars => Faithful'
  <2>1. ASSUME Faithful, UNCHANGED monVars PROVE Faithful'
    <3>1. Actors'
      BY <2>1 DEF Faithful, Actors, Acting, monVars
    <3>2. Current' = Current /\ (Serial' <=> Serial) /\ spent' = spent
      BY <2>1 DEF Current, Acting, MonAtRest, Serial, monVars
    <3>3. \A o : World(o) => World(o)'
      BY <2>1, Still DEF monVars
    <3> QED
      BY <2>1, <3>1, <3>2, <3>3 DEF Faithful
  <2> QED
    BY <2>1, FaithfulStep
<1> QED
  BY <1>1, <1>2, MonInitOK, MonIInvStep, FaithfulInit, PTL DEF MonSpec

-----------------------------------------------------------------------------
(* Types with the bounds of the scenario, however requests overlap.        *)

(* A row or its copy in a request: linked by the name it bears, as the     *)
(* columns an update writes over another's row are.                        *)
Kept(x) == /\ x.name \in MonNames /\ x.ref = x.name /\ x.id \in 1..spent.ids
           /\ x.pages \subseteq mplan.pages
RowTyped(x) == IF x.status # "none" THEN Kept(x) ELSE x.pages = {}
OpTyped(o) ==
  /\ o.pages \subseteq mplan.pages /\ o.seen \subseteq MonNames \union {Foreign}
  /\ o.edits \in Seq(PageEdits) /\ Len(o.edits) <= 2 * Cardinality(mplan.pages)
  /\ o.kind \in {"create", "update"} => o.name \in MonNames
  /\ o.kind \in {"create", "update"} /\ o.pc \notin {"post", "lookup"}
       => o.ref = o.name /\ o.id \in 1..spent.ids
  /\ o.kind = "update" => Kept(o.old)
  /\ o.pc = "write" => o.edits # <<>>
MonTyped ==
  /\ mplan \in MonPlans
  /\ remote \subseteq [id : 1..spent.ids, name : MonNames]
  /\ page \in [MonPages -> SUBSET (MonNames \union {Foreign})]
  /\ \A r \in MonRows : RowTyped(row[r])
  /\ \A u \in MonUsers : OpTyped(op[u])

LEMMA PagesCount ==
  ASSUME MonTyped, NEW S \in SUBSET mplan.pages
  PROVE  /\ S \in PageSets /\ Cardinality(S) \in Nat
         /\ Cardinality(mplan.pages) \in Nat /\ Cardinality(S) <= Cardinality(mplan.pages)
<1>1. mplan.pages \subseteq MonPages /\ IsFiniteSet(mplan.pages)
  BY MonPlansFinite DEF MonTyped
<1>2. IsFiniteSet(S) /\ Cardinality(S) <= Cardinality(mplan.pages)
  BY <1>1, FS_Subset
<1> QED
  BY <1>1, <1>2, FS_CardinalityType DEF PageSets

LEMMA EditsCount ==
  ASSUME NEW how, NEW S \in PageSets, NEW ref
  PROVE  Len(Edits(how, S, ref)) = Cardinality(S)
<1>1. Cardinality(S) \in Nat
  BY FS_CardinalityType DEF PageSets
<1> QED
  BY <1>1 DEF Edits

LEMMA OpenTyped ==
  ASSUME MonTyped
  PROVE  /\ NoOp.pages = {} /\ NoOp.seen = {} /\ NoOp.edits = <<>> /\ NoOp.kind = "none"
         /\ NoOp.pc = "idle" /\ OpTyped(NoOp)
<1>1. /\ NoOp.pages = {} /\ NoOp.seen = {} /\ NoOp.edits = <<>> /\ NoOp.kind = "none"
      /\ NoOp.pc = "idle"
  BY DEF NoOp
<1>2. Cardinality(mplan.pages) \in Nat
  BY PagesCount
<1> QED
  BY <1>1, <1>2 DEF OpTyped

(* Ids that have been given out stay so.                                   *)
LEMMA KeptKeeps ==
  ASSUME mplan' = mplan, spent.ids \in Nat, spent'.ids \in Nat, spent.ids <= spent'.ids, NEW x
  PROVE  /\ Kept(x) => Kept(x)'
         /\ RowTyped(x) => RowTyped(x)'
         /\ OpTyped(x) => OpTyped(x)'
<1>1. 1..spent.ids \subseteq 1..spent'.ids
  OBVIOUS
<1>2. \A y : Kept(y) => Kept(y)'
  BY <1>1 DEF Kept
<1> QED
  BY <1>1, <1>2 DEF RowTyped, OpTyped

LEMMA TypedStep ==
  ASSUME MonIInv, MonTyped, NEW u \in MonUsers, NEW o, op' = [op EXCEPT ![u] = o], OpTyped(o)',
         mplan' = mplan, spent'.ids \in Nat, spent.ids <= spent'.ids,
         remote' \subseteq [id : 1..spent'.ids, name : MonNames],
         page' \in [MonPages -> SUBSET (MonNames \union {Foreign})],
         \A r \in MonRows : row'[r] = row[r] \/ RowTyped(row[r])'
  PROVE  MonTyped'
<1>1. spent.ids \in Nat /\ op = [v \in MonUsers |-> op[v]]
  BY DEF MonIInv, Shapes
<1>2. ASSUME NEW r \in MonRows PROVE RowTyped(row[r])'
  <2>1. CASE row'[r] = row[r]
    <3>1. PICK x : x = row[r]
      OBVIOUS
    <3>2. RowTyped(x)'
      BY <1>1, <3>1, KeptKeeps DEF MonTyped
    <3> QED
      BY <2>1, <3>1, <3>2 DEF RowTyped, Kept
  <2> QED
    BY <2>1
<1>3. ASSUME NEW v \in MonUsers PROVE OpTyped(op[v])'
  <2>1. PICK x : x = op'[v]
    OBVIOUS
  <2>2. OpTyped(x)'
    BY <1>1, <2>1, KeptKeeps DEF MonTyped
  <2> QED
    BY <2>1, <2>2 DEF OpTyped, Kept
<1> QED
  BY <1>2, <1>3 DEF MonTyped

(* Most steps leave monitors, rows and pages alone.                        *)
LEMMA TypedOwn ==
  ASSUME MonIInv, MonTyped, NEW u \in MonUsers, NEW o, op' = [op EXCEPT ![u] = o], OpTyped(o),
         spent'.ids = spent.ids, UNCHANGED <<mplan, remote, row>>,
         page' \in [MonPages -> SUBSET (MonNames \union {Foreign})]
  PROVE  MonTyped'
<1>1. spent.ids \in Nat
  BY DEF MonIInv, Shapes
<1>2. OpTyped(o)'
  BY <1>1, KeptKeeps
<1>3. /\ remote' \subseteq [id : 1..spent'.ids, name : MonNames] /\ mplan' = mplan
      /\ row' = row /\ spent'.ids \in Nat /\ spent.ids <= spent'.ids
  BY <1>1 DEF MonTyped
<1>4. \A r \in MonRows : row'[r] = row[r] \/ RowTyped(row[r])'
  BY <1>3
<1> QED
  BY <1>2, <1>3, <1>4, TypedStep

(* A step among the monitors leaves pages and rows alone.                  *)
LEMMA TypedRemote ==
  ASSUME MonIInv, MonTyped, NEW u \in MonUsers, NEW o, op' = [op EXCEPT ![u] = o], OpTyped(o)',
         UNCHANGED <<mplan, page, row>>, spent'.ids \in Nat, spent.ids <= spent'.ids,
         remote' \subseteq [id : 1..spent'.ids, name : MonNames]
  PROVE  MonTyped'
<1>1. page' \in [MonPages -> SUBSET (MonNames \union {Foreign})]
  BY DEF MonTyped
<1>2. \A r \in MonRows : row'[r] = row[r] \/ RowTyped(row[r])'
  OBVIOUS
<1>3. mplan' = mplan
  OBVIOUS
<1> QED
  BY <1>1, <1>2, <1>3, TypedStep

LEMMA CreateTyped ==
  ASSUME MonIInv, MonTyped, NEW u \in MonUsers, CreateMonitor(u)
  PROVE  MonTyped'
<1>1. PICK n \in MonNames, ps \in SUBSET mplan.pages :
        Begins(u, [NoOp EXCEPT !.pc = "post", !.kind = "create", !.name = n, !.pages = ps])
  BY Zenon DEF CreateMonitor
<1>2. PICK o : o = [NoOp EXCEPT !.pc = "post", !.kind = "create", !.name = n, !.pages = ps]
  OBVIOUS
<1>3. /\ o.pc = "post" /\ o.kind = "create" /\ o.name = n /\ o.pages = ps
      /\ o.seen = NoOp.seen /\ o.edits = NoOp.edits
  BY <1>2 DEF NoOp
<1>4. op' = [op EXCEPT ![u] = o] /\ spent'.ids = spent.ids
  BY <1>1, <1>2 DEF Begins, MonIInv, Shapes, IsSpent
<1>5. OpTyped(o)
  BY <1>3, OpenTyped DEF OpTyped
<1> QED
  BY <1>4, <1>5, TypedOwn DEF CreateMonitor, MonTyped

LEMMA UpdateTyped ==
  ASSUME MonIInv, MonTyped, NEW u \in MonUsers, UpdateMonitor(u)
  PROVE  MonTyped'
<1>1. PICK r \in MonRows, n \in MonNames, ps \in SUBSET mplan.pages, pc \in {"patch", "edit"} :
        HasRow(r) /\ Begins(u, Updating(r, n, ps, pc))
  BY DEF UpdateMonitor
<1>2. PICK q, old, L, J : /\ q = Updating(r, n, ps, pc) /\ old = row[r]
                          /\ L = Leaves(old, n # old.ref, ps) /\ J = Joins(old, n # old.ref, ps)
  OBVIOUS
<1>3. Kept(old)
  BY <1>1, <1>2 DEF MonTyped, RowTyped, HasRow
<1>4. L \subseteq mplan.pages /\ J \subseteq mplan.pages
  BY <1>2, <1>3 DEF Leaves, Joins, Kept
<1>5. PICK s, t : s = Edits("remove", L, old.ref) /\ t = Edits("add", J, n)
  OBVIOUS
<1>6. /\ s \in Seq(PageEdits) /\ Len(s) = Cardinality(L)
      /\ t \in Seq(PageEdits) /\ Len(t) = Cardinality(J)
  BY <1>3, <1>4, <1>5, PagesCount, EditsAre, EditsCount DEF Kept
<1>7. s \o t \in Seq(PageEdits) /\ Len(s \o t) <= 2 * Cardinality(mplan.pages)
  <2>1. Len(s \o t) = Len(s) + Len(t) /\ s \o t \in Seq(PageEdits)
    BY <1>6, InConcat
  <2>2. /\ Cardinality(L) \in Nat /\ Cardinality(J) \in Nat /\ Cardinality(mplan.pages) \in Nat
        /\ Cardinality(L) <= Cardinality(mplan.pages) /\ Cardinality(J) <= Cardinality(mplan.pages)
    BY <1>4, PagesCount
  <2> QED
    BY <1>6, <2>1, <2>2
<1>8. q = [NoOp EXCEPT !.kind = "update", !.row = r, !.old = old, !.name = n,
             !.pc = pc, !.id = old.id, !.ref = n, !.pages = ps, !.edits = s \o t]
  BY <1>2, <1>5, Zenon DEF Updating
<1>9. /\ q.pc = pc /\ q.kind = "update" /\ q.old = old /\ q.name = n /\ q.id = old.id /\ q.ref = n
      /\ q.pages = ps /\ q.edits = s \o t /\ q.seen = {}
  BY <1>8 DEF NoOp
<1>10. OpTyped(q)
  BY <1>3, <1>7, <1>9 DEF OpTyped, Kept
<1>11. op' = [op EXCEPT ![u] = q] /\ spent'.ids = spent.ids
  BY <1>1, <1>2 DEF Begins, MonIInv, Shapes, IsSpent
<1> QED
  BY <1>10, <1>11, TypedOwn DEF UpdateMonitor, MonTyped

LEMMA DeleteTyped ==
  ASSUME MonIInv, MonTyped, NEW u \in MonUsers, DeleteMonitor(u)
  PROVE  MonTyped'
<1>1. PICK r \in MonRows, kind \in {"unlink", "delete"} : \E es :
        /\ HasRow(r) /\ es \in {<<>>, Edits("remove", row[r].pages, row[r].ref)}
        /\ Begins(u, [NoOp EXCEPT !.kind = kind, !.row = r, !.id = row[r].id,
                                  !.pc = "edit", !.edits = es])
  <2>1. PICK r \in MonRows, keep \in BOOLEAN :
          /\ HasRow(r)
          /\ Begins(u, [NoOp EXCEPT !.kind = IF keep THEN "unlink" ELSE "delete",
               !.row = r, !.id = row[r].id, !.pc = "edit",
               !.edits = IF keep THEN <<>> ELSE Edits("remove", row[r].pages, row[r].ref)])
    BY DEF DeleteMonitor
  <2> QED
    BY <2>1
<1>2. PICK es : /\ HasRow(r) /\ es \in {<<>>, Edits("remove", row[r].pages, row[r].ref)}
                /\ Begins(u, [NoOp EXCEPT !.kind = kind, !.row = r, !.id = row[r].id,
                                          !.pc = "edit", !.edits = es])
  BY <1>1
<1>3. PICK q : q = [NoOp EXCEPT !.kind = kind, !.row = r, !.id = row[r].id,
                                !.pc = "edit", !.edits = es]
  OBVIOUS
<1>4. /\ q.kind = kind /\ q.pc = "edit" /\ q.edits = es /\ q.seen = {} /\ q.pages = {}
  BY <1>3 DEF NoOp
<1>5. es \in Seq(PageEdits) /\ Len(es) <= 2 * Cardinality(mplan.pages)
  <2>1. row[r].pages \subseteq mplan.pages /\ row[r].ref \in MonNames
    BY <1>2 DEF MonTyped, RowTyped, HasRow, Kept
  <2>2. /\ row[r].pages \in PageSets /\ Cardinality(row[r].pages) \in Nat
        /\ Cardinality(mplan.pages) \in Nat
        /\ Cardinality(row[r].pages) <= Cardinality(mplan.pages)
    BY <2>1, PagesCount
  <2>3. CASE es = <<>>
    BY <2>2, <2>3
  <2>4. CASE es = Edits("remove", row[r].pages, row[r].ref)
    <3>1. es \in Seq(PageEdits) /\ Len(es) = Cardinality(row[r].pages)
      BY <2>1, <2>2, <2>4, EditsAre, EditsCount
    <3> QED
      BY <2>2, <3>1
  <2> QED
    BY <1>2, <2>3, <2>4
<1>6. OpTyped(q)
  BY <1>4, <1>5 DEF OpTyped
<1>7. op' = [op EXCEPT ![u] = q] /\ spent'.ids = spent.ids
  BY <1>2, <1>3 DEF Begins, MonIInv, Shapes, IsSpent
<1> QED
  BY <1>6, <1>7, TypedOwn DEF DeleteMonitor, MonTyped

(* What becomes of a request.                                              *)
LEMMA ToIs ==
  ASSUME MonIInv, NEW u \in MonUsers, NEW o, o = op[u], NEW pc, To(u, pc)
  PROVE  \E q : /\ op' = [op EXCEPT ![u] = q] /\ q.pc = pc /\ q.kind = o.kind /\ q.old = o.old
                /\ q.name = o.name /\ q.id = o.id /\ q.ref = o.ref /\ q.pages = o.pages
                /\ q.edits = o.edits /\ q.seen = o.seen
<1>1. op = [v \in MonUsers |-> op[v]] /\ IsOp(o)
  BY DEF MonIInv, Shapes
<1>2. PICK q : q = [o EXCEPT !.pc = pc]
  OBVIOUS
<1>3. op' = [op EXCEPT ![u] = q]
  BY <1>1, <1>2 DEF To
<1>4. /\ q.pc = pc /\ q.kind = o.kind /\ q.old = o.old
      /\ q.name = o.name /\ q.id = o.id /\ q.ref = o.ref /\ q.pages = o.pages
      /\ q.edits = o.edits /\ q.seen = o.seen
  BY <1>1, <1>2 DEF IsOp, Fields
<1> QED
  BY <1>3, <1>4

LEMMA LinkedTyped ==
  ASSUME MonIInv, MonTyped, NEW u \in MonUsers, NEW o, o = op[u], o.kind = "create",
         NEW i \in 1..spent'.ids, Linked(u, i, "edit"), mplan' = mplan
  PROVE  \E q : op' = [op EXCEPT ![u] = q] /\ OpTyped(q)'
<1>1. PICK es : es = Edits("add", o.pages, o.name)
  OBVIOUS
<1>2. PICK q : q = [o EXCEPT !.id = i, !.ref = o.name, !.pc = "edit", !.edits = es]
  OBVIOUS
<1>3. /\ op = [v \in MonUsers |-> op[v]] /\ IsOp(o) /\ OpTyped(o)
      /\ op' = [op EXCEPT ![u].id = i, ![u].ref = o.name, ![u].pc = "edit", ![u].edits = es]
  BY <1>1 DEF MonIInv, Shapes, Linked, MonTyped
<1>4. op' = [op EXCEPT ![u] = q]
  BY <1>2, <1>3
<1>5. /\ q.pc = "edit" /\ q.kind = "create" /\ q.name = o.name /\ q.id = i /\ q.ref = o.name
      /\ q.pages = o.pages /\ q.edits = es /\ q.seen = o.seen
  BY <1>2, <1>3 DEF IsOp, Fields
<1>6. es \in Seq(PageEdits) /\ Len(es) <= 2 * Cardinality(mplan.pages)
  <2>1. o.pages \subseteq mplan.pages /\ o.name \in MonNames
    BY <1>3 DEF OpTyped
  <2>2. /\ o.pages \in PageSets /\ Cardinality(o.pages) \in Nat
        /\ Cardinality(mplan.pages) \in Nat
        /\ Cardinality(o.pages) <= Cardinality(mplan.pages)
    BY <2>1, PagesCount
  <2>3. es \in Seq(PageEdits) /\ Len(es) = Cardinality(o.pages)
    BY <1>1, <2>1, <2>2, EditsAre, EditsCount
  <2> QED
    BY <2>2, <2>3
<1>7. OpTyped(q)'
  BY <1>3, <1>5, <1>6 DEF OpTyped
<1> QED
  BY <1>4, <1>7

LEMMA EndTyped ==
  ASSUME MonIInv, MonTyped, NEW u \in MonUsers, Ends(u),
         mplan' = mplan, page' = page, spent'.ids \in Nat, spent.ids <= spent'.ids,
         remote' \subseteq [id : 1..spent'.ids, name : MonNames],
         \A r \in MonRows : row'[r] = row[r] \/ RowTyped(row[r])'
  PROVE  MonTyped'
<1>1. PICK q : q = NoOp
  OBVIOUS
<1>2. OpTyped(q)'
  <2>1. spent.ids \in Nat
    BY DEF MonIInv, Shapes
  <2>2. OpTyped(q)
    BY <1>1, OpenTyped
  <2> QED
    BY <2>1, <2>2, KeptKeeps
<1>3. op' = [op EXCEPT ![u] = q]
  BY <1>1 DEF Ends
<1>4. page' \in [MonPages -> SUBSET (MonNames \union {Foreign})]
  BY DEF MonTyped
<1> QED
  BY <1>2, <1>3, <1>4, TypedStep

LEMMA PostTyped ==
  ASSUME MonIInv, MonTyped, NEW u \in MonUsers, PostMonitor(u)
  PROVE  MonTyped'
<1>1. PICK o : o = op[u]
  OBVIOUS
<1>2. /\ OpTyped(o) /\ o.pc = "post" /\ o.kind = "create" /\ spent.ids \in Nat
      /\ UNCHANGED <<mplan, page, row>>
  BY <1>1 DEF MonTyped, MonIInv, Stages, Stage, Shapes, PostMonitor
<1>3. CASE \E f : Paid(f) /\ Ends(u) /\ remote' = remote
  <2>1. spent'.ids = spent.ids
    BY <1>3, PaidOK
  <2> QED
    BY <1>2, <1>3, <2>1, EndTyped DEF MonTyped
<1>4. CASE /\ remote' = remote \union {[id |-> spent.ids + 1, name |-> op[u].name]}
           /\ \/ spent' = [spent EXCEPT !.ids = @ + 1]
              \/ spent' = [spent EXCEPT !.ids = @ + 1, !.faults = @ + 1]
           /\ Linked(u, spent.ids + 1, "edit") \/ To(u, "lookup") \/ Ends(u)
  <2>1. spent'.ids = spent.ids + 1
    BY <1>4 DEF MonIInv, Shapes, IsSpent
  <2>0. spent'.ids \in Nat /\ spent.ids <= spent'.ids
    BY <1>2, <2>1
  <2>2. remote' \subseteq [id : 1..spent'.ids, name : MonNames]
    <3>1. 1..spent.ids \subseteq 1..(spent.ids + 1) /\ spent.ids + 1 \in 1..(spent.ids + 1)
      BY <1>2
    <3>2. op[u].name \in MonNames
      BY <1>1, <1>2 DEF OpTyped
    <3> QED
      BY <1>4, <2>1, <3>1, <3>2 DEF MonTyped
  <2>3. CASE Linked(u, spent.ids + 1, "edit")
    <3>1. PICK i : i = spent.ids + 1
      OBVIOUS
    <3>2. PICK q : op' = [op EXCEPT ![u] = q] /\ OpTyped(q)'
      BY <1>1, <1>2, <2>1, <2>3, <3>1, LinkedTyped
    <3> QED
      BY <1>2, <2>0, <2>2, <3>2, TypedRemote
  <2>4. CASE To(u, "lookup")
    <3>1. PICK q : /\ op' = [op EXCEPT ![u] = q] /\ q.pc = "lookup" /\ q.kind = o.kind
                   /\ q.name = o.name /\ q.pages = o.pages /\ q.edits = o.edits /\ q.seen = o.seen
      BY <1>1, <2>4, ToIs
    <3>2. OpTyped(q)'
      BY <1>2, <3>1 DEF OpTyped
    <3> QED
      BY <1>2, <2>0, <2>2, <3>1, <3>2, TypedRemote
  <2>5. CASE Ends(u)
    BY <1>2, <2>1, <2>2, <2>5, EndTyped
  <2> QED
    BY <1>4, <2>3, <2>4, <2>5
<1> QED
  BY <1>3, <1>4 DEF PostMonitor

LEMMA LookupTyped ==
  ASSUME MonIInv, MonTyped, NEW u \in MonUsers, Lookup(u)
  PROVE  MonTyped'
<1>1. /\ op[u].pc = "lookup" /\ op[u].kind = "create" /\ spent.ids \in Nat
      /\ UNCHANGED <<mplan, remote, page, row>>
  BY DEF MonIInv, Stages, Stage, Shapes, Lookup
<1>2. spent'.ids = spent.ids
  BY PaidOK DEF Lookup
<1>0. /\ spent'.ids \in Nat /\ spent.ids <= spent'.ids
      /\ remote' \subseteq [id : 1..spent'.ids, name : MonNames]
  BY <1>1, <1>2 DEF MonTyped
<1>3. CASE Ends(u)
  BY <1>1, <1>2, <1>3, EndTyped DEF MonTyped
<1>4. CASE \E x \in remote : Linked(u, x.id, "edit")
  <2>1. PICK x \in remote : Linked(u, x.id, "edit")
    BY <1>4
  <2>2. PICK i, o : i = x.id /\ o = op[u]
    OBVIOUS
  <2>3. i \in 1..spent'.ids
    BY <1>2, <2>1, <2>2 DEF MonTyped
  <2>4. PICK q : op' = [op EXCEPT ![u] = q] /\ OpTyped(q)'
    BY <1>1, <2>1, <2>2, <2>3, LinkedTyped
  <2> QED
    BY <1>0, <1>1, <2>4, TypedRemote
<1> QED
  BY <1>3, <1>4 DEF Lookup

LEMMA PatchTyped ==
  ASSUME MonIInv, MonTyped, NEW u \in MonUsers, PatchMonitor(u)
  PROVE  MonTyped'
<1>1. PICK o : o = op[u]
  OBVIOUS
<1>2. /\ OpTyped(o) /\ o.pc = "patch" /\ o.kind = "update" /\ spent.ids \in Nat
      /\ UNCHANGED <<mplan, page, row>>
  BY <1>1 DEF MonTyped, MonIInv, Stages, Stage, Shapes, PatchMonitor
<1>3. spent'.ids = spent.ids
  BY PaidOK DEF PatchMonitor
<1>4. remote' \subseteq [id : 1..spent'.ids, name : MonNames]
  <2>1. op[u].name \in MonNames /\ op[u].id \in 1..spent.ids
    BY <1>1, <1>2 DEF OpTyped
  <2>2. PICK mine, x : /\ mine = {y \in remote : y.id = op[u].id}
                       /\ x = [id |-> op[u].id, name |-> op[u].name]
    OBVIOUS
  <2>3. remote' \in {remote, (remote \ mine) \union {x}}
    BY <2>2 DEF PatchMonitor
  <2>4. x \in [id : 1..spent.ids, name : MonNames]
    BY <2>1, <2>2
  <2> QED
    BY <1>3, <2>3, <2>4 DEF MonTyped
<1>0. spent'.ids \in Nat /\ spent.ids <= spent'.ids
  BY <1>2, <1>3
<1>5. CASE Ends(u)
  BY <1>0, <1>2, <1>4, <1>5, EndTyped
<1>6. CASE To(u, "edit")
  <2>1. PICK q : /\ op' = [op EXCEPT ![u] = q] /\ q.pc = "edit" /\ q.kind = o.kind /\ q.old = o.old
                 /\ q.name = o.name /\ q.id = o.id /\ q.ref = o.ref /\ q.pages = o.pages
                 /\ q.edits = o.edits /\ q.seen = o.seen
    BY <1>1, <1>6, ToIs
  <2>2. OpTyped(q)'
    BY <1>2, <1>3, <2>1 DEF OpTyped, Kept
  <2> QED
    BY <1>0, <1>2, <1>4, <2>1, <2>2, TypedRemote
<1> QED
  BY <1>5, <1>6 DEF PatchMonitor

LEMMA DropTyped ==
  ASSUME MonIInv, MonTyped, NEW u \in MonUsers, DropRemote(u)
  PROVE  MonTyped'
<1>1. PICK o : o = op[u]
  OBVIOUS
<1>2. /\ OpTyped(o) /\ o.kind = "delete" /\ spent.ids \in Nat /\ To(u, "commit")
      /\ UNCHANGED <<mplan, page, row>> /\ remote' \subseteq remote
  BY <1>1 DEF MonTyped, MonIInv, Shapes, DropRemote
<1>3. spent'.ids = spent.ids
  BY PaidOK DEF DropRemote
<1>4. PICK q : /\ op' = [op EXCEPT ![u] = q] /\ q.pc = "commit" /\ q.kind = o.kind
               /\ q.pages = o.pages /\ q.edits = o.edits /\ q.seen = o.seen
  BY <1>1, <1>2, ToIs
<1>5. OpTyped(q)'
  BY <1>2, <1>4 DEF OpTyped
<1>6. /\ spent'.ids \in Nat /\ spent.ids <= spent'.ids
      /\ remote' \subseteq [id : 1..spent'.ids, name : MonNames]
  BY <1>2, <1>3 DEF MonTyped
<1>7. OpTyped(q)'
  BY <1>2, <1>3, <1>5, KeptKeeps
<1> QED
  BY <1>2, <1>4, <1>6, <1>7, TypedRemote

LEMMA NextTyped ==
  ASSUME MonIInv, MonTyped, NEW u \in MonUsers, op[u].edits # <<>>,
         op[u].pc \in {"edit", "write"},
         NEW failed, NextEdit(u, failed)
  PROVE  \E q : op' = [op EXCEPT ![u] = q] /\ OpTyped(q)
<1>1. PICK o, t, b : o = op[u] /\ t = Tail(o.edits) /\ b = (o.errs \/ failed)
  OBVIOUS
<1>2. op = [v \in MonUsers |-> op[v]] /\ IsOp(o) /\ OpTyped(o)
  BY <1>1 DEF MonIInv, Shapes, MonTyped
<1>3. PICK q : q = [o EXCEPT !.pc = "edit", !.edits = t, !.errs = b, !.seen = {}]
  OBVIOUS
<1>4. op' = [op EXCEPT ![u] = q]
  BY <1>1, <1>2, <1>3 DEF NextEdit
<1>5. /\ q.pc = "edit" /\ q.kind = o.kind /\ q.old = o.old /\ q.name = o.name /\ q.id = o.id
      /\ q.ref = o.ref /\ q.pages = o.pages /\ q.edits = t /\ q.seen = {}
  BY <1>2, <1>3 DEF IsOp, Fields
<1>6. t \in Seq(PageEdits) /\ Len(t) <= 2 * Cardinality(mplan.pages)
  <2>1. o.edits \in Seq(PageEdits) /\ o.edits # <<>> /\ Cardinality(mplan.pages) \in Nat
    BY <1>1, <1>2, PagesCount DEF OpTyped
  <2>2. t \in Seq(PageEdits) /\ Len(t) = Len(o.edits) - 1 /\ Len(o.edits) \in Nat
    BY <1>1, <2>1
  <2>3. Len(o.edits) <= 2 * Cardinality(mplan.pages)
    BY <1>2 DEF OpTyped
  <2> QED
    BY <2>1, <2>2, <2>3
<1>7. OpTyped(q)
  <2>1. /\ q.kind \in {"create", "update"} => q.name \in MonNames
        /\ q.kind = "update" => Kept(q.old)
    BY <1>2, <1>5 DEF OpTyped
  <2>2. q.kind \in {"create", "update"} => q.ref = q.name /\ q.id \in 1..spent.ids
    BY <1>1, <1>2, <1>5 DEF OpTyped
  <2> QED
    BY <1>2, <1>5, <1>6, <2>1, <2>2 DEF OpTyped
<1> QED
  BY <1>4, <1>7

LEMMA GetTyped ==
  ASSUME MonIInv, MonTyped, NEW u \in MonUsers, GetPage(u)
  PROVE  MonTyped'
<1>1. /\ op[u].pc = "edit" /\ op[u].edits # <<>>
      /\ UNCHANGED <<mplan, remote, page, row>>
  BY DEF GetPage
<1>2. spent'.ids = spent.ids
  BY PaidOK DEF GetPage
<1>3. CASE \E f : NextEdit(u, f)
  <2>1. PICK f : NextEdit(u, f)
    BY <1>3
  <2>2. PICK q : op' = [op EXCEPT ![u] = q] /\ OpTyped(q)
    BY <1>1, <2>1, NextTyped
  <2> QED
    BY <1>1, <1>2, <2>2, TypedOwn DEF MonTyped
<1>4. CASE op' = [op EXCEPT ![u].pc = "write", ![u].seen = page[Edit(u).page]]
  <2>1. PICK o, list : o = op[u] /\ list = page[Edit(u).page]
    OBVIOUS
  <2>2. /\ op = [v \in MonUsers |-> op[v]] /\ IsOp(o) /\ OpTyped(o)
    BY <2>1 DEF MonIInv, Shapes, MonTyped
  <2>3. list \subseteq MonNames \union {Foreign}
    <3>1. Edit(u) \in PageEdits
      BY <1>1, <2>1, <2>2, InTail DEF OpTyped, Edit
    <3> QED
      BY <2>1, <3>1 DEF MonTyped, PageEdits
  <2>4. PICK q : q = [o EXCEPT !.pc = "write", !.seen = list]
    OBVIOUS
  <2>5. op' = [op EXCEPT ![u] = q]
    BY <1>4, <2>1, <2>2, <2>4
  <2>6. /\ q.pc = "write" /\ q.kind = o.kind /\ q.old = o.old /\ q.name = o.name /\ q.id = o.id
        /\ q.ref = o.ref /\ q.pages = o.pages /\ q.edits = o.edits /\ q.seen = list
    BY <2>2, <2>4 DEF IsOp, Fields
  <2>7. OpTyped(q)
    BY <1>1, <2>1, <2>2, <2>3, <2>6 DEF OpTyped
  <2> QED
    BY <1>1, <1>2, <2>5, <2>7, TypedOwn DEF MonTyped
<1> QED
  BY <1>3, <1>4 DEF GetPage

LEMMA PageTyped ==
  ASSUME MonIInv, MonTyped, NEW u \in MonUsers, PatchPage(u)
  PROVE  MonTyped'
<1>1. /\ op[u].pc = "write" /\ OpTyped(op[u]) /\ op[u].edits # <<>>
      /\ UNCHANGED <<mplan, remote, row>>
  BY DEF PatchPage, MonTyped, OpTyped
<1>2. spent'.ids = spent.ids
  BY PaidOK DEF PatchPage
<1>3. Edit(u) \in PageEdits
  BY <1>1, InTail DEF OpTyped, Edit
<1>4. PICK e, list : /\ e = Edit(u)
                     /\ list = IF e.how = "add" THEN op[u].seen \union {e.ref}
                               ELSE op[u].seen \ {e.ref}
  OBVIOUS
<1>5. list \in SUBSET (MonNames \union {Foreign})
  BY <1>1, <1>3, <1>4 DEF OpTyped, PageEdits
<1>6. page' \in [MonPages -> SUBSET (MonNames \union {Foreign})]
  <2>1. page' \in {page, [page EXCEPT ![e.page] = list]}
    BY <1>4 DEF PatchPage
  <2> QED
    BY <1>5, <2>1 DEF MonTyped
<1>7. PICK f : NextEdit(u, f)
  BY DEF PatchPage
<1>8. PICK q : op' = [op EXCEPT ![u] = q] /\ OpTyped(q)
  BY <1>1, <1>7, NextTyped
<1> QED
  BY <1>1, <1>2, <1>6, <1>8, TypedOwn

(* A finished request is one whose monitor has been linked.                *)
LEMMA ReadyTyped ==
  ASSUME MonIInv, MonTyped, NEW u \in MonUsers, Ready(u), op[u].kind \in {"create", "update"}
  PROVE  /\ Stored(u).name \in MonNames /\ Stored(u).ref = Stored(u).name
         /\ Stored(u).id \in 1..spent.ids /\ Stored(u).pages \subseteq mplan.pages
         /\ Stored(u).status # "none" /\ Kept(Stored(u))
<1>1. OpTyped(op[u]) /\ op[u].pc \notin {"post", "lookup"}
  BY DEF MonTyped, Ready
<1>2. /\ op[u].name \in MonNames /\ op[u].ref = op[u].name /\ op[u].id \in 1..spent.ids
      /\ op[u].pages \subseteq mplan.pages
  BY <1>1 DEF OpTyped
<1>3. /\ Stored(u).name = op[u].name /\ Stored(u).ref = op[u].ref /\ Stored(u).id = op[u].id
      /\ Stored(u).pages = op[u].pages /\ Stored(u).status # "none"
  BY DEF Stored
<1> QED
  BY <1>2, <1>3 DEF Kept

LEMMA CommitTyped ==
  ASSUME MonIInv, MonTyped, NEW u \in MonUsers,
         CommitCreate(u) \/ CommitUpdate(u) \/ CommitDelete(u) \/ CommitFails(u)
  PROVE  MonTyped'
<1>1. /\ Ends(u) /\ UNCHANGED <<mplan, remote, page>> /\ row = [r \in MonRows |-> row[r]]
      /\ spent.ids \in Nat
  BY DEF CommitCreate, CommitUpdate, CommitDelete, CommitFails, MonIInv, Shapes
<1>2. spent'.ids = spent.ids
  BY PaidOK DEF CommitCreate, CommitUpdate, CommitDelete, CommitFails
<1>3. \A x : RowTyped(x) => RowTyped(x)'
  BY <1>1, <1>2, KeptKeeps
<1>4. \A r \in MonRows : row'[r] = row[r] \/ RowTyped(row'[r])
  <2>1. CASE CommitCreate(u)
    <3>1. RowTyped(Stored(u))
      BY <2>1, ReadyTyped DEF CommitCreate, RowTyped
    <3>2. PICK st : st = Stored(u)
      OBVIOUS
    <3>3. \E q \in MonRows : row' = [row EXCEPT ![q] = st]
      BY <2>1, <3>2 DEF CommitCreate
    <3> QED
      BY <1>1, <3>1, <3>2, <3>3
  <2>2. CASE CommitUpdate(u)
    <3>1. PICK r, w : r = op[u].row /\ w = Written(u)
      OBVIOUS
    <3>2. row' = [row EXCEPT ![r] = IF HasRow(r) THEN w ELSE @]
      BY <2>2, <3>1 DEF CommitUpdate
    <3>3. ASSUME r \in MonRows, HasRow(r) PROVE RowTyped(w)
      <4>1. PICK st, old, cur : st = Stored(u) /\ old = op[u].old /\ cur = row[r]
        OBVIOUS
      <4>2. /\ Kept(st) /\ st.status # "none"
        BY <2>2, <4>1, ReadyTyped DEF CommitUpdate
      <4>3. Kept(old)
        BY <2>2, <4>1 DEF CommitUpdate, MonTyped, OpTyped
      <4>4. Kept(cur) /\ cur.status # "none"
        BY <3>3, <4>1 DEF MonTyped, RowTyped, HasRow
      <4>5. /\ w.name = (IF st.name # old.name THEN st.name ELSE cur.name)
            /\ w.ref = (IF st.ref # old.ref THEN st.ref ELSE cur.ref)
            /\ w.id = (IF st.id # old.id THEN st.id ELSE cur.id)
            /\ w.pages = (IF st.pages # old.pages THEN st.pages ELSE cur.pages)
            /\ w.status = (IF st.status # old.status THEN st.status ELSE cur.status)
        BY <3>1, <4>1 DEF Written, NoRow
      <4> QED
        BY <4>2, <4>3, <4>4, <4>5 DEF RowTyped, Kept
    <3> QED
      BY <1>1, <3>2, <3>3
  <2>3. CASE CommitDelete(u)
    <3>1. RowTyped(NoRow)
      BY DEF RowTyped, NoRow
    <3>2. PICK r, w : row' = [row EXCEPT ![r] = w] /\ w = NoRow
      BY <2>3 DEF CommitDelete
    <3> QED
      BY <1>1, <3>1, <3>2
  <2>4. CASE CommitFails(u)
    BY <2>4 DEF CommitFails
  <2> QED
    BY <2>1, <2>2, <2>3, <2>4
<1>5. \A r \in MonRows : row'[r] = row[r] \/ RowTyped(row[r])'
  <2> SUFFICES ASSUME NEW r \in MonRows, row'[r] # row[r] PROVE RowTyped(row[r])'
    OBVIOUS
  <2>1. PICK x : x = row'[r]
    OBVIOUS
  <2>2. RowTyped(x)'
    BY <1>3, <1>4, <2>1
  <2> QED
    BY <2>1, <2>2 DEF RowTyped, Kept
<1> QED
  BY <1>1, <1>2, <1>5, EndTyped DEF MonTyped

LEMMA TypedInit == MonInit => MonTyped
<1> SUFFICES ASSUME MonInit PROVE MonTyped
  OBVIOUS
<1>1. NoRow.status = "none" /\ NoRow.pages = {}
  BY DEF NoRow
<1>2. Cardinality(mplan.pages) \in Nat
  BY MonPlansFinite, FS_CardinalityType DEF MonInit
<1>3. OpTyped(NoOp)
  BY <1>2 DEF OpTyped, NoOp
<1>4. /\ \A r \in MonRows : row[r] = NoRow
      /\ \A u \in MonUsers : op[u] = NoOp
      /\ remote = {} /\ page \in [MonPages -> SUBSET (MonNames \union {Foreign})]
      /\ mplan \in MonPlans
  BY DEF MonInit
<1> QED
  BY <1>1, <1>3, <1>4 DEF MonTyped, RowTyped

LEMMA TypedNext == MonIInv /\ MonTyped /\ [MonNext]_monVars => MonTyped'
<1>1. ASSUME MonTyped, UNCHANGED monVars PROVE MonTyped'
  BY <1>1 DEF MonTyped, RowTyped, OpTyped, Kept, monVars
<1>2. ASSUME MonIInv, MonTyped, MonNext PROVE MonTyped'
  <2>1. PICK u \in MonUsers : CreateMonitor(u) \/ UpdateMonitor(u) \/ DeleteMonitor(u) \/ MonStep(u)
    BY <1>2 DEF MonNext
  <2>2. CASE CreateMonitor(u) \/ UpdateMonitor(u) \/ DeleteMonitor(u)
    BY <1>2, <2>2, CreateTyped, UpdateTyped, DeleteTyped
  <2>3. CASE MonStep(u)
    BY <1>2, <2>3, PostTyped, LookupTyped, PatchTyped, DropTyped, GetTyped, PageTyped, CommitTyped
       DEF MonStep
  <2> QED
    BY <2>1, <2>2, <2>3
<1> QED
  BY <1>1, <1>2

(* However requests overlap and whatever fails: a page holds names of      *)
(* monitors and entries of others; a row is linked by the name it bears,   *)
(* to an id the tool has given out - also where an update of a deleted row *)
(* writes its columns over the row created since under the same id; and a  *)
(* request edits each page of its scenario at most twice.                  *)
THEOREM MonitorsTyped == MonSpec => []MonTypeOK
<1>1. MonTyped => MonTypeOK
  <2> SUFFICES ASSUME MonTyped PROVE MonTypeOK
    OBVIOUS
  <2>1. mplan.pages \subseteq MonPages
    BY MonPlansFinite DEF MonTyped
  <2> QED
    BY <2>1 DEF MonTyped, MonTypeOK, RowTyped, OpTyped, Kept, HasRow
<1> QED
  BY <1>1, MonInitOK, MonIInvStep, TypedInit, TypedNext, PTL DEF MonSpec
===============================================================================
