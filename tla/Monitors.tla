------------------------------ MODULE Monitors ------------------------------
(***************************************************************************)
(* Uptime monitors kept in step with an external tool (Kuvasz).  A row     *)
(* links to a remote monitor by id and stands on status pages by the name  *)
(* "http:<name>"; the tool wants names unique.  Every request of a user    *)
(* is a sequence of calls to the tool, any of which may fail, and a write  *)
(* of the row at the end; requests of several users take turns between the *)
(* calls.  A status page is edited by reading its whole list and writing   *)
(* it back.                                                                *)
(***************************************************************************)
EXTENDS Integers, Sequences, FiniteSets

CONSTANTS MonUsers,     \* requests that may run side by side
          MonPlans,     \* scenarios: [users, requests, faults (how many),
                        \* pages (that they ask for)]
          MonNames,
          MonPages,     \* status pages of the tool, numbers
          MonRows       \* row ids, 1..n with n creations at most

ASSUME MonRowsAreInts == MonRows \subseteq Int
ASSUME MonPagesAreInts == MonPages \subseteq Int
ASSUME MonPlansFinite ==
  \A p \in MonPlans : /\ IsFiniteSet(p.users)
                      /\ p.pages \subseteq MonPages /\ IsFiniteSet(p.pages)

VARIABLES mplan,     \* the scenario of this behaviour
          remote,    \* monitors of the tool
          page,      \* page -> the names on it
          row,       \* row id -> the stored row
          op,        \* user -> the request in progress
          spent,     \* requests and faults so far, next remote id
          told       \* history: remote ids without a row, by what users know

monVars == <<mplan, remote, page, row, op, spent, told>>

Foreign == "foreign"    \* an entry of a page that HomeLab did not make
ASSUME ForeignIsNoName == Foreign \notin MonNames
NoRow == [name |-> "", ref |-> "", id |-> 0, pages |-> {}, status |-> "none"]
NoOp == [pc |-> "idle", kind |-> "none", row |-> 0, old |-> NoRow, name |-> "",
         id |-> 0, ref |-> "", pages |-> {}, edits |-> <<>>, seen |-> {},
         errs |-> FALSE]

MonInit ==
  /\ mplan \in MonPlans
  /\ remote = {}
  /\ page = [p \in MonPages |-> {Foreign}]
  /\ row = [r \in MonRows |-> NoRow]
  /\ op = [u \in MonUsers |-> NoOp]
  /\ spent = [requests |-> 0, faults |-> 0, ids |-> 0]
  /\ told = [named |-> {}, unseen |-> {}, swept |-> {}]

HasRow(r) == row[r].status # "none"
Taken(n) == \E x \in remote : x.name = n
MonFault == spent.faults < mplan.faults
Paid(f) == spent' = [spent EXCEPT !.faults = IF f THEN @ + 1 ELSE @]
Begins(u, o) ==
  /\ op[u].pc = "idle" /\ u \in mplan.users
  /\ spent.requests < mplan.requests
  /\ spent' = [spent EXCEPT !.requests = @ + 1]
  /\ op' = [op EXCEPT ![u] = o]
Ends(u) == op' = [op EXCEPT ![u] = NoOp]
To(u, pc) == op' = [op EXCEPT ![u].pc = pc]

(* Page edits in the order of the code: removals, then additions, each by  *)
(* ascending page.                                                         *)
Sorted(S) == [n \in 1..Cardinality(S) |->
                CHOOSE p \in S : Cardinality({q \in S : q < p}) = n - 1]
Edits(how, pages, ref) ==
  [n \in 1..Cardinality(pages) |->
     [how |-> how, page |-> Sorted(pages)[n], ref |-> ref]]

(***************************************************************************)
(* POST /monitors: the remote monitor, its pages, and last the row.        *)
(***************************************************************************)
CreateMonitor(u) ==
  /\ \E n \in MonNames, ps \in SUBSET mplan.pages :
       Begins(u, [NoOp EXCEPT !.pc = "post", !.kind = "create", !.name = n,
                              !.pages = ps])
  /\ UNCHANGED <<mplan, remote, page, row, told>>

Linked(u, id, pc) ==
  op' = [op EXCEPT ![u].id = id, ![u].ref = op[u].name, ![u].pc = pc,
                   ![u].edits = Edits("add", op[u].pages, op[u].name)]

(* The tool answers with the monitor, or with an empty body after which it *)
(* is looked up by name; the answer may be lost.                           *)
PostMonitor(u) ==
  /\ op[u].pc = "post"
  /\ \/ /\ ~Taken(op[u].name)
        /\ remote' = remote \union {[id |-> spent.ids + 1, name |-> op[u].name]}
        /\ \/ /\ spent' = [spent EXCEPT !.ids = @ + 1]
              /\ Linked(u, spent.ids + 1, "edit") \/ To(u, "lookup")
              /\ UNCHANGED told
           \/ /\ MonFault
              /\ spent' = [spent EXCEPT !.ids = @ + 1, !.faults = @ + 1]
              /\ told' = [told EXCEPT !.unseen = @ \union {spent.ids + 1}]
              /\ Ends(u)
     \/ /\ Taken(op[u].name) \/ MonFault
        /\ Paid(~Taken(op[u].name)) /\ Ends(u)
        /\ UNCHANGED <<remote, told>>
  /\ UNCHANGED <<mplan, page, row>>

Lookup(u) ==
  /\ op[u].pc = "lookup"
  /\ \/ /\ \E x \in remote : x.name = op[u].name /\ Linked(u, x.id, "edit")
        /\ UNCHANGED <<spent, told>>
     \/ /\ ~Taken(op[u].name) \/ MonFault
        /\ Paid(Taken(op[u].name)) /\ Ends(u)
        /\ told' = [told EXCEPT !.unseen = @ \union
             {x.id : x \in {y \in remote : y.name = op[u].name}}]
  /\ UNCHANGED <<mplan, remote, page, row>>

(***************************************************************************)
(* PUT and DELETE /monitors/{id}: from the row as it was at the start.     *)
(* A PUT that changes pages alone sends no patch.                          *)
(***************************************************************************)
LeavesOnly(old, moved, ps) ==      \* mutant: the old name stays on its pages
  old.pages \ ps

Leaves(old, moved, ps) ==
  (old.pages \ ps) \union (IF moved THEN old.pages \intersect ps ELSE {})
Joins(old, moved, ps) ==
  (ps \ old.pages) \union (IF moved THEN old.pages \intersect ps ELSE {})

Updating(r, n, ps, pc) ==
  LET old == row[r]
      moved == n # old.ref
  IN [NoOp EXCEPT !.kind = "update", !.row = r, !.old = old, !.name = n,
        !.pc = pc, !.id = old.id, !.ref = n, !.pages = ps,
        !.edits = Edits("remove", Leaves(old, moved, ps), old.ref)
                  \o Edits("add", Joins(old, moved, ps), n)]

UpdateMonitor(u) ==
  /\ \E r \in MonRows, n \in MonNames, ps \in SUBSET mplan.pages,
        pc \in {"patch", "edit"} :
       /\ HasRow(r)
       /\ pc = "edit" => n = row[r].name
       /\ Begins(u, Updating(r, n, ps, pc))
  /\ UNCHANGED <<mplan, remote, page, row, told>>

PatchMonitor(u) ==
  /\ op[u].pc = "patch"
  /\ LET mine == {x \in remote : x.id = op[u].id}
         may == mine # {} /\ \A x \in remote \ mine : x.name # op[u].name
         renamed == (remote \ mine) \union {[id |-> op[u].id, name |-> op[u].name]}
     IN \/ may /\ remote' = renamed /\ To(u, "edit") /\ UNCHANGED spent
        \/ ~may /\ Ends(u) /\ UNCHANGED <<remote, spent>>
        \/ /\ may /\ MonFault /\ Paid(TRUE) /\ Ends(u)
           /\ remote' \in {remote, renamed}
  /\ UNCHANGED <<mplan, page, row, told>>

DeleteMonitor(u) ==
  /\ \E r \in MonRows, keep \in BOOLEAN :
       /\ HasRow(r)
       /\ Begins(u, [NoOp EXCEPT !.kind = IF keep THEN "unlink" ELSE "delete",
            !.row = r, !.id = row[r].id, !.pc = "edit",
            !.edits = IF keep THEN <<>>
                      ELSE Edits("remove", row[r].pages, row[r].ref)])
  /\ UNCHANGED <<mplan, remote, page, row, told>>

DropRemote(u) ==
  /\ op[u].pc = "edit" /\ op[u].edits = <<>> /\ op[u].kind = "delete"
  /\ \/ /\ remote' = {x \in remote : x.id # op[u].id}
        /\ UNCHANGED <<spent, told>>
     \/ /\ MonFault /\ Paid(TRUE)
        /\ told' = [told EXCEPT !.named = @ \union {op[u].id}]
        /\ remote' \in {remote, {x \in remote : x.id # op[u].id}}
  /\ To(u, "commit")
  /\ UNCHANGED <<mplan, page, row>>

(***************************************************************************)
(* One edit of a page: read the list, write it back if it is to change.    *)
(* A failure, after which the page may have changed or not, is noted and   *)
(* the next edit follows.                                                  *)
(***************************************************************************)
Edit(u) == Head(op[u].edits)
NextEdit(u, failed) ==
  op' = [op EXCEPT ![u].pc = "edit", ![u].edits = Tail(@),
                   ![u].errs = @ \/ failed, ![u].seen = {}]

GetPage(u) ==
  /\ op[u].pc = "edit" /\ op[u].edits # <<>>
  /\ \/ /\ IF (Edit(u).how = "add") = (Edit(u).ref \in page[Edit(u).page])
           THEN NextEdit(u, FALSE)
           ELSE op' = [op EXCEPT ![u].pc = "write",
                                 ![u].seen = page[Edit(u).page]]
        /\ UNCHANGED spent
     \/ /\ MonFault /\ Paid(TRUE) /\ NextEdit(u, TRUE)
  /\ UNCHANGED <<mplan, remote, page, row, told>>

PatchPage(u) ==
  /\ op[u].pc = "write"
  /\ LET list == IF Edit(u).how = "add" THEN op[u].seen \union {Edit(u).ref}
                 ELSE op[u].seen \ {Edit(u).ref}
         edited == [page EXCEPT ![Edit(u).page] = list]
     IN \/ page' = edited /\ NextEdit(u, FALSE) /\ UNCHANGED spent
        \/ /\ MonFault /\ Paid(TRUE) /\ NextEdit(u, TRUE)
           /\ page' \in {page, edited}
  /\ UNCHANGED <<mplan, remote, row, told>>

(***************************************************************************)
(* The row is written when every call has been made: of an update, the     *)
(* columns that differ from the row it began with.  A failed commit, or a  *)
(* crash before it, leaves what the calls did.  Row ids are used again.    *)
(***************************************************************************)
Stored(u) == [name |-> op[u].name, ref |-> op[u].ref, id |-> op[u].id,
              pages |-> op[u].pages,
              status |-> IF op[u].errs THEN "error" ELSE "ok"]
Written(u) == [c \in DOMAIN NoRow |->
  IF Stored(u)[c] # op[u].old[c] THEN Stored(u)[c] ELSE row[op[u].row][c]]
IsNext(r) == /\ \A q \in MonRows : HasRow(q) => q < r
             /\ r = 1 \/ \E q \in MonRows : HasRow(q) /\ r = q + 1

ReadyEarly(u) ==                   \* mutant: the row goes before the monitor
  \/ op[u].pc = "commit"
  \/ op[u].pc = "edit" /\ op[u].edits = <<>>

Ready(u) ==
  \/ op[u].pc = "commit"
  \/ op[u].pc = "edit" /\ op[u].edits = <<>> /\ op[u].kind # "delete"

CommitCreate(u) ==
  /\ Ready(u) /\ op[u].kind = "create"
  /\ \E r \in MonRows : IsNext(r) /\ row' = [row EXCEPT ![r] = Stored(u)]
  /\ Ends(u)
  /\ UNCHANGED <<mplan, remote, page, spent, told>>

CommitUpdate(u) ==
  /\ Ready(u) /\ op[u].kind = "update"
  /\ row' = [row EXCEPT ![op[u].row] = IF HasRow(op[u].row) THEN Written(u) ELSE @]
  /\ Ends(u)
  /\ UNCHANGED <<mplan, remote, page, spent, told>>

CommitDelete(u) ==
  /\ Ready(u) /\ op[u].kind \in {"delete", "unlink"}
  /\ row' = [row EXCEPT ![op[u].row] = NoRow]
  /\ told' = [told EXCEPT
       !.named = IF op[u].kind = "unlink" THEN @ \union {op[u].id} ELSE @,
       !.swept = IF HasRow(op[u].row) THEN @ \union ({row[op[u].row].id} \ {op[u].id})
                 ELSE @]
  /\ Ends(u)
  /\ UNCHANGED <<mplan, remote, page, spent>>

CommitFails(u) ==
  /\ Ready(u) /\ MonFault /\ Paid(TRUE)
  /\ told' = [told EXCEPT !.unseen = IF op[u].kind = "create"
                                     THEN @ \union {op[u].id} ELSE @]
  /\ Ends(u)
  /\ UNCHANGED <<mplan, remote, page, row>>

MonStep(u) ==
  \/ PostMonitor(u) \/ Lookup(u) \/ PatchMonitor(u) \/ DropRemote(u)
  \/ GetPage(u) \/ PatchPage(u)
  \/ CommitCreate(u) \/ CommitUpdate(u) \/ CommitDelete(u) \/ CommitFails(u)
MonNext == \E u \in MonUsers : \/ CreateMonitor(u) \/ UpdateMonitor(u)
                               \/ DeleteMonitor(u) \/ MonStep(u)

MonSpec == /\ MonInit /\ [][MonNext]_monVars
           /\ \A u \in MonUsers : WF_monVars(MonStep(u))

-----------------------------------------------------------------------------
(* Well typed; a request edits a page at most twice.                       *)
MonTypeOK ==
  /\ mplan \in MonPlans
  /\ remote \subseteq [id : 1..spent.ids, name : MonNames]
  /\ page \in [MonPages -> SUBSET (MonNames \union {Foreign})]
  /\ \A r \in MonRows :
       /\ row[r].pages \subseteq MonPages
       /\ HasRow(r) => row[r].id \in 1..spent.ids /\ row[r].name = row[r].ref
  /\ \A u \in MonUsers : Len(op[u].edits) <= 2 * Cardinality(mplan.pages)

(* No request is under way.                                                *)
MonAtRest == \A u \in MonUsers : op[u].pc = "idle"
Serial == Cardinality(mplan.users) = 1
Rows == {r \in MonRows : HasRow(r)}

(* While one user works and nothing fails, every row has its own monitor   *)
(* of its name, stands on exactly its pages, and the entries of others     *)
(* stay; what a rename or a change of pages left out would show here.      *)
PagesMatchIntent ==
  MonAtRest /\ Serial /\ spent.faults = 0 =>
    /\ \A p \in MonPages : Foreign \in page[p]
    /\ \A r \in Rows :
         /\ [id |-> row[r].id, name |-> row[r].name] \in remote
         /\ \A p \in MonPages : row[r].ref \in page[p] <=> p \in row[r].pages

(* A monitor of the tool that no row links to is one whose user knows:     *)
(* kept on purpose or named in an error; or its creation answered with an  *)
(* error although it had worked; or its row went with a delete request     *)
(* that was about the earlier row of that id.  Whatever runs side by side. *)
DanglingAccounted ==
  MonAtRest => \A x \in remote : \/ \E r \in Rows : row[r].id = x.id
                                 \/ x.id \in told.named \union told.unseen
                                               \union told.swept
=============================================================================
