------------------------------ MODULE Publishing ------------------------------
(***************************************************************************)
(* Published services: the request handlers that create, import, edit,     *)
(* retry and delete a service, around the pipeline of module Provisioning. *)
(*                                                                         *)
(* A handler that awaits remote calls works on the row as it loaded it,    *)
(* with a database session of its own, and commits at its end.  It refuses *)
(* to start while the pipeline of the service is running; nothing keeps    *)
(* the pipeline, or another handler, from starting while it awaits.  A     *)
(* commit that fails ends the request; where the commit is all a request   *)
(* does, nothing has happened, and that is no action here.                 *)
(***************************************************************************)
EXTENDS Provisioning

CONSTANTS
  Forms,                    \* DNS overrides the form may send; None is a blank
  Clients,                  \* requests that may be inside a handler at once
  AddressType, Addresses,   \* an A record needs an IP address as its target
  MaxRequests, MaxFaults    \* bounds: of a behaviour

ASSUME FormsOK == Forms \subseteq [type: Types \cup {None}, target: Targets \cup {None}]

ASSUME BoundsOK == MaxRequests \in Nat /\ MaxFaults \in Nat

VARIABLES
  job,                  \* what the request of each client is doing
  left,                 \* observation: objects reported as left behind
  strayed,              \* observation: certificates of services that were left without a
                        \* host, and of renames in which NPM has failed
  trouble,              \* observation: NPM or a commit has failed in a rename or a delete,
                        \* two services have come to share a host, or a certificate was
                        \* deleted that another host carries
  requests, faults      \* for the bounds; faults are crashes and commits that failed

seen == <<left, strayed, trouble>>
bounds == <<requests, faults>>
vars == <<rows, remote, pipe, job, seen, bounds>>

JobPcs == {"idle", "gethost", "insert", "getnames", "getcert", "putnames", "dropcert",
           "unrecord", "save", "delhost", "delcert", "delrecord", "drop", "answer"}

(* old and new: the row as loaded and as it is to be committed.            *)
Job == [pc: JobPcs, s: Services \cup {None}, old: Row \cup {None}, new: Row \cup {None},
        cur: Host \cup {None}, force: BOOLEAN, errors: BOOLEAN]

IdleJob == [pc |-> "idle", s |-> None, old |-> None, new |-> None,
            cur |-> None, force |-> FALSE, errors |-> FALSE]

Busy(s) == \E h \in Clients : job[h].s = s
Quiet == /\ \A s \in Services : pipe[s].pc = "off"
         /\ \A h \in Clients : job[h].pc = "idle"

TypeOK ==
  /\ rows \in [Services -> Row \cup {None}]
  /\ zone \subseteq Records
  /\ hosts \in [HostIds -> Host \cup {Unused, Gone}]
  /\ certs \in [CertIds -> {Unused, Gone} \cup SUBSET CertNames]
  /\ pipe \in [Services -> Pipe]
  /\ job \in [Clients -> Job]
  /\ made \cup left \cup strayed \subseteq Records \cup HostIds \cup CertIds
  /\ trouble \in BOOLEAN
  /\ requests \in 0..MaxRequests /\ faults \in 0..MaxFaults
  /\ \A s \in Services : pipe[s].pc \in {"putattach", "issued"} => pipe[s].cert # None
  /\ \A s \in Services : pipe[s].pc = "put" => pipe[s].new.host # None

Start ==
  /\ rows = [s \in Services |-> None]
  /\ pipe = [s \in Services |-> OffPipe]
  /\ job = [h \in Clients |-> IdleJob]
  /\ made = {} /\ left = {} /\ strayed = {} /\ trouble = FALSE
  /\ requests = 0 /\ faults = 0

StandsOn(s, g) ==
  \/ rows[s] # None /\ rows[s].host = g
  \/ pipe[s].new # None /\ pipe[s].new.host = g
Sharing == \E g \in HostIds, s, t \in Services : s # t /\ StandsOn(s, g) /\ StandsOn(t, g)

Unhosted ==
  {c \in CertIds : \E s \in Services :
                     rows[s] # None /\ rows[s].host = None /\ rows[s].cert = c}

(* A living host carries the certificate.                                  *)
Carried(c) == \E g \in HostIds : IsHost(g) /\ hosts[g].cert = c

(* No services yet; NPM and the zone may hold objects of other origin.     *)
Init ==
  /\ Start
  /\ zone \in SUBSET Records
  /\ certs \in [CertIds -> {Unused} \cup SUBSET CertNames]
  /\ hosts \in [HostIds -> Host \cup {Unused}]
  /\ \A g \in HostIds : IsHost(g) =>
       NamesFree(g, hosts[g].names) /\ (hosts[g].cert = None \/ IsCert(hosts[g].cert))

-----------------------------------------------------------------------------
Idle(h) == job[h].pc = "idle"
Put(h, j) == job' = [job EXCEPT ![h] = j]
Step(h, pc) == Put(h, [job[h] EXCEPT !.pc = pc])
Answer(h) == Put(h, IdleJob)

StartNothing(h, s) ==             \* mutant: no task is created
  Put(h, [IdleJob EXCEPT !.pc = "answer", !.s = s]) /\ UNCHANGED pipe

(* create_task, then the answer: by the time the client has it, the task   *)
(* has begun.                                                              *)
StartRun(h, s) == RequestRun(s) /\ Put(h, [IdleJob EXCEPT !.pc = "answer", !.s = s])

Answered(h) ==
  /\ job[h].pc = "answer" /\ pipe[job[h].s].pc # "queued"
  /\ Answer(h)
  /\ UNCHANGED <<rows, remote, pipe, seen, bounds>>

Request(h) == Idle(h) /\ requests < MaxRequests /\ requests' = requests + 1 /\ UNCHANGED faults

NameFree(n) == \A s \in Services : rows[s] # None => rows[s].name # n

(* SQLite gives a new row the id after the highest one in use.             *)
IsNextId(s) ==
  LET Used == {t \in Services : rows[t] # None} IN
  s - 1 \in Used \cup {0} /\ \A t \in Used : t < s

(* _validate_dns_override                                                  *)
EffectiveType(o) == IF o.type = None THEN DefaultType ELSE o.type
EffectiveTarget(o) == IF o.target = None THEN DefaultTarget ELSE o.target
ValidOverrides ==
  {o \in Forms : EffectiveType(o) = AddressType => EffectiveTarget(o) \in Addresses}

NewRow(n, o) ==
  [name |-> n, host |-> None, cert |-> None, rtype |-> o.type, rtarget |-> o.target,
   dns |-> "pending", npm |-> "pending", ssl |-> "pending", state |-> "pending"]

(* create_service awaits nothing.                                          *)
Create(h, s, n, o) ==
  /\ Request(h)
  /\ NameFree(n) /\ IsNextId(s)
  /\ rows' = [rows EXCEPT ![s] = NewRow(n, o)]
  /\ StartRun(h, s)
  /\ UNCHANGED <<remote, seen>>

(* reprovision_service                                                     *)
Retry(h, s) ==
  /\ Request(h)
  /\ rows[s] # None /\ ~InFlight(s)
  /\ StartRun(h, s)
  /\ UNCHANGED <<rows, remote, seen>>

-----------------------------------------------------------------------------
(* import_npm_host: the host is read, then (unless the request names a     *)
(* container) Portainer is asked, then the row is inserted.                *)

ImportedRow(n, g) ==
  [NewRow(n, [type |-> None, target |-> None]) EXCEPT
     !.host = g, !.npm = "ok", !.dns = "ok",
     !.ssl = IF hosts[g].cert # None THEN "ok" ELSE "pending"]

Import(h, g) ==
  /\ Request(h)
  /\ \A s \in Services : rows[s] # None => rows[s].host # g
  /\ Put(h, [IdleJob EXCEPT !.pc = "gethost", !.new = [NewRow(CHOOSE n \in Names : TRUE,
                 [type |-> None, target |-> None]) EXCEPT !.host = g]])
  /\ UNCHANGED <<rows, remote, pipe, seen>>

ImportRead(h) ==
  LET g == job[h].new.host IN
  /\ job[h].pc = "gethost"
  /\ \/ /\ IsHost(g)
        /\ \E n \in hosts[g].names \cap Names :
             /\ NameFree(n)
             /\ Put(h, [job[h] EXCEPT !.pc = "insert", !.new = ImportedRow(n, g)])
     \/ Answer(h)
  /\ UNCHANGED <<rows, remote, pipe, seen, bounds>>

ImportInsert(h) ==
  /\ job[h].pc = "insert"
  /\ \E s \in Services :
       /\ IsNextId(s)
       /\ rows' = [rows EXCEPT ![s] = job[h].new]
       /\ StartRun(h, s)
  /\ trouble' = (trouble \/ Sharing')
  /\ UNCHANGED <<remote, left, strayed, bounds>>

-----------------------------------------------------------------------------
(* update_service.  A change of the name is a rename: NPM host, old        *)
(* certificate and old record first, then the row and the pipeline.        *)

Renames(row, n) == n # row.name

(* The record must be replaced; blanks are resolved by the defaults.       *)
Replaces(row, n, o) ==
  /\ ~Renames(row, n) /\ o # None /\ row.dns = "ok"
  /\ <<EffectiveType(o), EffectiveTarget(o)>> # <<row.rtype, row.rtarget>>

(* No effective change: the snapshot of the record written is kept.        *)
KeepsSnapshot(row, n, o) ==
  ~Renames(row, n) /\ (o = None \/ (row.dns = "ok" /\ ~Replaces(row, n, o)))

EditedSecure(row, n, o) ==        \* mutant: a rename does not ask for a new certificate
  [row EXCEPT
     !.name = n,
     !.rtype = IF KeepsSnapshot(row, n, o) THEN @ ELSE IF o = None THEN None ELSE o.type,
     !.rtarget = IF KeepsSnapshot(row, n, o) THEN @ ELSE IF o = None THEN None ELSE o.target,
     !.dns = IF Renames(row, n) \/ Replaces(row, n, o) THEN "pending" ELSE @,
     !.state = "pending"]

Edited(row, n, o) ==
  [row EXCEPT
     !.name = n,
     !.rtype = IF KeepsSnapshot(row, n, o) THEN @ ELSE IF o = None THEN None ELSE o.type,
     !.rtarget = IF KeepsSnapshot(row, n, o) THEN @ ELSE IF o = None THEN None ELSE o.target,
     !.dns = IF Renames(row, n) \/ Replaces(row, n, o) THEN "pending" ELSE @,
     !.ssl = IF Renames(row, n) THEN "pending" ELSE @,
     !.state = "pending"]

AfterHost(row) == IF row.rtype # None THEN "unrecord" ELSE "save"

EditPc(row, n, o) ==
  IF Renames(row, n) /\ row.host # None THEN "getnames"
  ELSE IF Renames(row, n) \/ Replaces(row, n, o) THEN AfterHost(row) ELSE "save"

SaveEdit(h, s, old, new) ==
  /\ Commit(s, old, new)
  /\ StartRun(h, s)

Edit(h, s, n, o) ==
  /\ Request(h)
  /\ rows[s] # None /\ ~InFlight(s)
  /\ Renames(rows[s], n) => NameFree(n)
  /\ LET pc == EditPc(rows[s], n, o)  new == Edited(rows[s], n, o) IN
     IF pc = "save"
       THEN SaveEdit(h, s, rows[s], new)
       ELSE /\ Put(h, [IdleJob EXCEPT !.pc = pc, !.s = s, !.old = rows[s], !.new = new])
            /\ UNCHANGED <<rows, pipe>>
  /\ UNCHANGED <<remote, seen>>

RenamedAlone(N, old, new) == {new}   \* mutant: the list is rebuilt

(* The names come from one read of the host, the rest from a second one.   *)
Renamed(N, old, new) == (N \ {old}) \cup {new}

GetNames(h) ==
  LET j == job[h] IN
  /\ j.pc = "getnames" /\ IsHost(j.old.host)
  /\ Put(h, [j EXCEPT !.pc = "getcert", !.cur =
               [names |-> Renamed(hosts[j.old.host].names, j.old.name, j.new.name),
                cert |-> None]])
  /\ UNCHANGED <<rows, remote, pipe, seen, bounds>>

(* A certificate of its own is detached.                                   *)
GetCert(h) ==
  LET j == job[h] IN
  /\ j.pc = "getcert" /\ IsHost(j.old.host)
  /\ Put(h, [j EXCEPT !.pc = "putnames", !.cur.cert =
               IF j.old.cert # None THEN None ELSE hosts[j.old.host].cert])
  /\ UNCHANGED <<rows, remote, pipe, seen, bounds>>

(* A failure becomes a warning, and the rename goes on.  The warning does  *)
(* not name the old certificate, and the row keeps it only until the       *)
(* pipeline stores the one for the new name.                               *)
HostWarning(h) ==
  LET j == job[h] IN
  /\ Put(h, [j EXCEPT !.pc = AfterHost(j.old), !.cur = None])
  /\ trouble' = TRUE
  /\ strayed' = strayed \cup ({j.old.cert} \ {None})

RenameFails(h) ==
  /\ job[h].pc \in {"getnames", "getcert", "putnames"}
  /\ HostWarning(h)
  /\ UNCHANGED <<rows, remote, pipe, left, bounds>>

PutNames(h) ==
  LET j == job[h]  g == job[h].old.host IN
  /\ j.pc = "putnames"
  /\ IsHost(g) /\ NamesFree(g, j.cur.names)
  /\ hosts' = [hosts EXCEPT ![g] = j.cur]
  /\ \/ /\ Put(h, [j EXCEPT !.pc = IF j.old.cert # None THEN "dropcert" ELSE AfterHost(j.old),
                            !.cur = None])
        /\ UNCHANGED <<strayed, trouble>>
     \/ "lost" \in Outcomes /\ HostWarning(h)
  /\ UNCHANGED <<rows, zone, certs, made, pipe, left, bounds>>

(* Deletions of remote objects; one that is gone already is no failure.    *)
RemoveCert(c, a) ==
  /\ certs' = IF a = "failed" THEN certs ELSE [certs EXCEPT ![c] = Gone]
  /\ trouble' = (trouble \/ (a # "failed" /\ Carried(c)))
Reported(X, a) == IF a = "done" THEN left ELSE left \cup X

DropCert(h) ==
  LET j == job[h] IN
  /\ j.pc = "dropcert"
  /\ \E a \in Outcomes :
       RemoveCert(j.old.cert, a) /\ left' = Reported({j.old.cert}, a)
  /\ Put(h, [j EXCEPT !.pc = AfterHost(j.old), !.new.cert = None])
  /\ UNCHANGED <<rows, zone, hosts, made, pipe, strayed, bounds>>

RemoveRecord(row, a) ==
  LET R == Matching(row.name, row.rtype, row.rtarget) IN
  /\ zone' = IF a = "failed" THEN zone ELSE zone \ R
  /\ left' = Reported(R, a)

Unrecord(h) ==
  /\ job[h].pc = "unrecord"
  /\ \E a \in Outcomes : RemoveRecord(job[h].old, a)
  /\ Step(h, "save")
  /\ UNCHANGED <<rows, hosts, certs, made, pipe, strayed, trouble, bounds>>

SaveJob(h) ==
  LET j == job[h] IN
  /\ j.pc = "save"
  /\ IF rows[j.s] # None THEN SaveEdit(h, j.s, j.old, j.new)
                         ELSE Answer(h) /\ UNCHANGED <<rows, pipe>>
  /\ UNCHANGED <<remote, seen, bounds>>

-----------------------------------------------------------------------------
(* delete_service                                                          *)

Drop(s) == rows' = [rows EXCEPT ![s] = None]

(* The objects a row stands for.                                           *)
Owned(row) ==
  ({row.host, row.cert} \ {None}) \cup
  IF row.dns = "ok" /\ row.rtype # None
    THEN {r \in Records : r.name = row.name /\ r.type = row.rtype /\ r.target = row.rtarget}
    ELSE {}

Unlink(h, s) ==
  /\ Request(h)
  /\ rows[s] # None /\ ~InFlight(s)
  /\ Drop(s)
  /\ left' = left \cup Owned(rows[s])
  /\ UNCHANGED <<remote, pipe, job, strayed, trouble>>

RecordPc(row) == IF row.dns = "ok" /\ row.rtype # None THEN "delrecord" ELSE "drop"

DeletePc(row) == IF row.host # None THEN "delhost" ELSE RecordPc(row)

Delete(h, s, force) ==
  /\ Request(h)
  /\ rows[s] # None /\ ~InFlight(s)
  /\ IF DeletePc(rows[s]) = "drop"
       THEN Drop(s) /\ UNCHANGED job
       ELSE /\ Put(h, [IdleJob EXCEPT !.pc = DeletePc(rows[s]), !.s = s,
                                      !.old = rows[s], !.force = force])
            /\ UNCHANGED rows
  /\ UNCHANGED <<remote, pipe, seen>>

NextDeletion(h, pc, a) ==
  Put(h, [job[h] EXCEPT !.pc = pc, !.errors = @ \/ a # "done"])

DeleteHost(h) ==
  LET j == job[h] IN
  /\ j.pc = "delhost"
  /\ \E a \in Outcomes :
       /\ hosts' = IF a = "failed" THEN hosts ELSE [hosts EXCEPT ![j.old.host] = Gone]
       /\ left' = Reported({j.old.host}, a)
       /\ NextDeletion(h, IF j.old.cert # None THEN "delcert" ELSE RecordPc(j.old), a)
  /\ UNCHANGED <<rows, zone, certs, made, pipe, strayed, trouble, bounds>>

DeleteCert(h) ==
  LET j == job[h] IN
  /\ j.pc = "delcert"
  /\ \E a \in Outcomes :
       /\ RemoveCert(j.old.cert, a) /\ left' = Reported({j.old.cert}, a)
       /\ NextDeletion(h, RecordPc(j.old), a)
  /\ UNCHANGED <<rows, zone, hosts, made, pipe, strayed, bounds>>

DeleteRecord(h) ==
  /\ job[h].pc = "delrecord"
  /\ \E a \in Outcomes : RemoveRecord(job[h].old, a) /\ NextDeletion(h, "drop", a)
  /\ UNCHANGED <<rows, hosts, certs, made, pipe, strayed, trouble, bounds>>

(* With an error the row is kept, unless the request says force.           *)
DropRow(h) ==
  LET j == job[h] IN
  /\ j.pc = "drop"
  /\ IF j.errors /\ ~j.force
       THEN trouble' = TRUE /\ UNCHANGED rows
       ELSE Drop(j.s) /\ UNCHANGED trouble
  /\ Answer(h)
  /\ UNCHANGED <<remote, pipe, left, strayed, bounds>>

-----------------------------------------------------------------------------
Fault == faults < MaxFaults /\ faults' = faults + 1 /\ UNCHANGED requests

(* A request whose commit fails is answered with a server error.           *)
RequestFails(h) ==
  LET j == job[h] IN
  /\ Fault
  /\ \/ j.pc = "insert"
     \/ j.pc = "save" /\ rows[j.s] # None
     \/ j.pc = "drop" /\ (j.errors => j.force)
  /\ trouble' = TRUE
  /\ Answer(h)
  /\ UNCHANGED <<rows, remote, pipe, left, strayed>>

TaskFails(s) == Fault /\ CommitFails(s) /\ UNCHANGED <<job, seen>>

(* The process dies and is started again: tasks and requests are gone.     *)
Crash ==
  /\ Fault
  /\ pipe' = [s \in Services |-> OffPipe]
  /\ job' = [h \in Clients |-> IdleJob]
  /\ UNCHANGED <<rows, remote, seen>>

(* The observations of a step of the pipeline are of the state it leads to.*)
Task(s) ==
  /\ PipeStep(s)
  /\ strayed' = strayed \cup Unhosted'
  /\ trouble' = (trouble \/ Sharing')
  /\ UNCHANGED <<job, left, bounds>>

Handler(h) ==
  \/ Answered(h) \/ ImportRead(h) \/ ImportInsert(h) \/ GetNames(h) \/ GetCert(h) \/ PutNames(h)
  \/ RenameFails(h) \/ DropCert(h) \/ Unrecord(h) \/ SaveJob(h)
  \/ DeleteHost(h) \/ DeleteCert(h) \/ DeleteRecord(h) \/ DropRow(h)

Next ==
  \/ \E h \in Clients, s \in Services :
       \/ \E n \in Names : \/ \E o \in ValidOverrides : Create(h, s, n, o)
                           \/ \E o \in ValidOverrides \cup {None} : Edit(h, s, n, o)
       \/ Retry(h, s) \/ Unlink(h, s)
       \/ \E force \in BOOLEAN : Delete(h, s, force)
  \/ \E h \in Clients, g \in HostIds : Import(h, g)
  \/ \E h \in Clients : Handler(h) \/ RequestFails(h)
  \/ \E s \in Services : Task(s) \/ TaskFails(s)
  \/ Crash

Spec == Init /\ [][Next]_vars

(* The event loop runs every task and handler on; remote calls time out.   *)
FairSpec ==
  /\ Spec
  /\ \A s \in Services : WF_vars(Task(s))
  /\ \A h \in Clients : WF_vars(Handler(h))

-----------------------------------------------------------------------------
(* Properties.                                                             *)

Exists(x) ==
  \/ x \in HostIds /\ IsHost(x)
  \/ x \in CertIds /\ IsCert(x)
  \/ x \in zone

Rows == {rows[s] : s \in {t \in Services : rows[t] # None}}

(* "The created NPM object ids and the exact DNS record we wrote are       *)
(* stored so deletion can clean up precisely what was provisioned"         *)
(* (models.py): when everything has come to rest, an object this app has   *)
(* made is gone, or a row stands for it, or a response has reported it as  *)
(* left behind - whatever steps failed on the way.  Two certificates are   *)
(* excused, and do leak: that of a service that lost its host, which a     *)
(* delete skips, and that of a rename in which NPM failed.                 *)
NothingForgotten ==
  Quiet => \A x \in made : Exists(x) =>
    x \in left \cup strayed \cup UNION {Owned(r) : r \in Rows}

(* "active" means published: the host serves the name with a certificate   *)
(* NPM still has, and the record written is in the zone - as long as       *)
(* neither NPM nor a commit has failed in a rename or a delete, no two     *)
(* services have come to share a host that was there before, and nobody    *)
(* has deleted a certificate that another host carries.                    *)
Published(row) ==
  /\ IsHost(row.host)
  /\ row.name \in hosts[row.host].names
  /\ hosts[row.host].cert # None /\ IsCert(hosts[row.host].cert)
  /\ row.rtype # None =>
       [name |-> row.name, type |-> row.rtype, target |-> row.rtarget] \in zone

ActiveIsPublished ==
  ~trouble => \A s \in Services :
    /\ rows[s] # None /\ rows[s].state = "active"
    /\ pipe[s].pc \in {"off", "done"} /\ ~Busy(s)
    => Published(rows[s])

(* "existing proxy hosts and certificates are adopted rather than          *)
(* duplicated" (troubleshooting.md): however often the process dies and    *)
(* the retry runs, no name gets a second certificate.                      *)
OneCertificatePerName ==
  \A c, d \in CertIds :
    IsCert(c) /\ IsCert(d) /\ certs[c] \cap certs[d] \cap Names # {} => c = d

(* "preserving any extra domains on imported hosts" (update_service): all  *)
(* writes of a host replace its whole list by one read before, and none of *)
(* their overlaps drops a name that is no service's from a living host.    *)
ExtraDomainsKept ==
  [][\A g \in HostIds : IsHost(g) /\ Extra \in hosts[g].names /\ hosts'[g] # Gone
       => Extra \in hosts'[g].names]_vars

(* "a wildcard certificate may be shared with hosts it knows nothing       *)
(* about" (nginx-proxy-manager.md): one that lists no name a service may   *)
(* have is never deleted, although hosts that carry it are adopted,        *)
(* imported, renamed and deleted.  (One that does list such a name is      *)
(* adopted, and deleted with the service: OnlyOwnCertificatesDeleted.)     *)
SharedCertificatesKept ==
  [][\A c \in CertIds : IsCert(c) /\ certs[c] \cap Names = {} => certs'[c] = certs[c]]_vars

(* Every run of the pipeline ends.                                         *)
RunsEnd == \A s \in Services : pipe[s].pc # "off" ~> pipe[s].pc = "off"

(* A row that shows work in progress is being worked on, unless the        *)
(* process has died or a commit has failed: "provisioning" whatever        *)
(* requests overlap, "pending" with one request at a time.  (Of two, one   *)
(* may commit an edit while the task that the other has started is at its  *)
(* last broadcast; the task of the edit then returns at once.)             *)
OneClient == \A h, k \in Clients : h = k

Settled ==
  faults = 0 => \A s \in Services : rows[s] # None =>
    /\ rows[s].state = "provisioning" => InFlight(s)
    /\ OneClient /\ rows[s].state = "pending" => pipe[s].pc # "off"

(* "It will not delete a certificate it did not create"                    *)
(* (nginx-proxy-manager.md).                                               *)
OnlyOwnCertificatesDeleted ==
  [][\A c \in CertIds : IsCert(c) /\ certs'[c] = Gone => c \in made]_vars

=============================================================================
