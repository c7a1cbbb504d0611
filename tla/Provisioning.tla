----------------------------- MODULE Provisioning -----------------------------
(***************************************************************************)
(* The pipeline that publishes a service: DNS record, then proxy host in   *)
(* Nginx Proxy Manager (NPM), then Let's Encrypt certificate.              *)
(*                                                                         *)
(* provision_service is a background task.  Each of its steps loads the    *)
(* row of the service, awaits remote calls and commits its own result; a   *)
(* commit writes the columns the step has changed and no others.  A remote *)
(* call is one action and the code up to the next call another, so a crash *)
(* or another handler can come between a remote effect and its commit.     *)
(* A commit may fail (a locked database); the exception ends the task, and *)
(* the row stays as it was.                                                *)
(*                                                                         *)
(* Left out: both integrations are configured.  Calls to the DNS client    *)
(* are single steps here, which holds when calls on a domain do not        *)
(* overlap: module DnsZone.                                                *)
(***************************************************************************)
EXTENDS Naturals

CONSTANTS
  Services,       \* row ids of the services table
  Names,          \* fully qualified names a service may have
  Extra,          \* a name of an NPM host that is no service's
  Wildcard,       \* a name of a certificate that is no service's
  Types, Targets, \* of DNS records
  DefaultType, DefaultTarget,     \* record plan of the Namecheap integration
  HostIds, CertIds,               \* NPM's ids; bounds what can be created
  Unused, Gone,   \* an id not given out yet, or of a deleted object
  None,
  Attempts,       \* _CERT_ATTEMPTS
  LostReplies     \* may a remote call take effect and still report a failure?

HostNames == Names \cup {Extra}
CertNames == Names \cup {Wildcard}
Records == [name: Names, type: Types, target: Targets]
Host == [names: SUBSET HostNames, cert: CertIds \cup {None}]
Status == {"pending", "ok", "error"}

(* A row.  rtype and rtarget are the user's override until the DNS step    *)
(* has succeeded, and from then on a snapshot of the record written.       *)
Row ==
  [name: Names, host: HostIds \cup {None}, cert: CertIds \cup {None},
   rtype: Types \cup {None}, rtarget: Targets \cup {None},
   dns: Status, npm: Status, ssl: Status,
   state: {"pending", "provisioning", "active", "error"}]

PipePcs == {"off", "queued", "begun", "ensure", "ensured", "proxy", "get", "put",
            "find", "create", "proxied", "secure", "findcert", "issue", "issued",
            "getattach", "putattach", "attached", "finish", "done"}

Pipe ==
  [pc: PipePcs, name: Names \cup {None}, old: Row \cup {None}, new: Row \cup {None},
   cur: Host \cup {None}, cert: CertIds \cup {None}, tries: 0..Attempts]

(* The special values are none of the others, and neither are ids and      *)
(* records of different kinds.                                             *)
ASSUME SpecialValues ==
  /\ Extra \notin Names /\ Wildcard \notin Names
  /\ Unused # Gone /\ \A N \in SUBSET CertNames : N \notin {Unused, Gone}
  /\ Unused \notin Host /\ Gone \notin Host
  /\ None \notin Services \cup Names \cup Types \cup Targets \cup HostIds \cup CertIds
  /\ None \notin Host /\ None \notin Row
ASSUME KindsApart ==
  HostIds \cap CertIds = {} /\ (HostIds \cup CertIds) \cap Records = {}
ASSUME PlanOK ==
  /\ DefaultType \in Types /\ DefaultTarget \in Targets
  /\ Services \subseteq Nat /\ Names # {} /\ Attempts \in Nat \ {0}

OffPipe == [pc |-> "off", name |-> None, old |-> None, new |-> None,
            cur |-> None, cert |-> None, tries |-> 0]

VARIABLES
  rows,                 \* the services table; None where there is no such row
  zone, hosts,          \* what Namecheap and NPM hold
  certs,                \* NPM's certificates, each with the names it lists
  pipe,                 \* the provision_service task of each service
  made                  \* observation: objects this app has created

remote == <<zone, hosts, certs, made>>

-----------------------------------------------------------------------------
(* The world outside.                                                      *)

Outcomes == {"done", "failed"} \cup (IF LostReplies THEN {"lost"} ELSE {})

IsHost(g) == hosts[g] \notin {Unused, Gone}
IsCert(c) == certs[c] \notin {Unused, Gone}
Lists(c, n) == IsCert(c) /\ n \in certs[c]

(* NPM's ids are not used again.                                           *)
HasNewId(f) == \E x \in DOMAIN f : f[x] = Unused
NewId(f) == CHOOSE x \in DOMAIN f : f[x] = Unused

(* NPM refuses a host that would serve a name of another host.             *)
NamesFree(g, N) == \A k \in HostIds \ {g} : IsHost(k) => hosts[k].names \cap N = {}

PlanType(row) == IF row.rtype = None THEN DefaultType ELSE row.rtype
PlanTarget(row) == IF row.rtarget = None THEN DefaultTarget ELSE row.rtarget

(* What remove_record takes out; without a target, all of the type.        *)
Matching(n, type, target) ==
  {r \in zone : r.name = n /\ r.type = type /\ target \in {r.target, None}}

-----------------------------------------------------------------------------
(* The task.                                                               *)

InFlight(s) == pipe[s].pc \notin {"off", "queued"}

Go(s, p) == pipe' = [pipe EXCEPT ![s] = p]
At(s, pc) == pipe[s].pc = pc

(* asyncio.create_task: a second task for the service returns at once, as  *)
(* long as the first one is in _in_flight.                                 *)
RequestRun(s) ==
  IF At(s, "off") THEN Go(s, [OffPipe EXCEPT !.pc = "queued"]) ELSE UNCHANGED pipe

(* A row that has been deleted meanwhile ends the task with an exception.  *)
Dies(s, pcs) ==
  /\ pipe[s].pc \in pcs
  /\ rows[s] = None
  /\ Go(s, OffPipe)
  /\ UNCHANGED <<rows, remote>>

RowGone(s) ==
  Dies(s, {"queued", "begun", "ensured", "proxy", "proxied", "secure", "issued",
           "attached", "finish"})

(* commit(): the columns that differ from what was loaded.                 *)
Commit(s, old, new) ==
  rows' = [rows EXCEPT ![s] =
             [k \in DOMAIN new |-> IF new[k] # old[k] THEN new[k] ELSE @[k]]]

(* The certificate step has something to do.                               *)
NeedsCert(row) == row.npm = "ok" /\ row.dns = "ok" /\ row.ssl # "ok"

(* Where the next thing the task does is a commit.  That of a new          *)
(* certificate's id is inside the try block of its step, whose handler     *)
(* runs into the failed transaction at the commit that follows.            *)
Committing(s) ==
  /\ rows[s] # None
  /\ \/ pipe[s].pc \in {"queued", "ensured", "proxied", "issued", "attached", "finish"}
     \/ At(s, "secure") /\ ~NeedsCert(rows[s])

(* "provision_service crashed": the exception of a commit ends the task.   *)
CommitFails(s) ==
  /\ Committing(s)
  /\ Go(s, OffPipe)
  /\ UNCHANGED <<rows, remote>>

Begin(s) ==
  /\ At(s, "queued") /\ rows[s] # None
  /\ rows' = [rows EXCEPT ![s].state = "provisioning"]
  /\ Go(s, [pipe[s] EXCEPT !.pc = "begun"])
  /\ UNCHANGED remote

(* The row as a step finds it when it comes back from an await.            *)
Loaded(s, pc) ==
  [pipe[s] EXCEPT !.old = rows[s], !.new = rows[s], !.pc = pc]

ProxyPc(s) == IF rows[s].host = None THEN "find" ELSE "get"

LoadDns(s) ==
  /\ At(s, "begun") /\ rows[s] # None
  /\ Go(s, [Loaded(s, IF rows[s].dns # "ok" THEN "ensure" ELSE ProxyPc(s))
              EXCEPT !.name = rows[s].name])
  /\ UNCHANGED <<rows, remote>>

(* ensure_record: done when the record is there already, refused when the  *)
(* name has another one.                                                   *)
EnsureRecord(s) ==
  LET p == pipe[s]
      r == [name |-> p.name, type |-> PlanType(p.new), target |-> PlanTarget(p.new)]
  IN
  /\ p.pc = "ensure"
  /\ \E a \in Outcomes :
       /\ a # "failed" => \A x \in zone : x.name = r.name => r \in zone
       /\ zone' = IF a = "failed" THEN zone ELSE zone \cup {r}
       /\ made' = made \cup (zone' \ zone)
       /\ Go(s, [p EXCEPT !.pc = "ensured", !.new =
                   IF a = "done" THEN [@ EXCEPT !.dns = "ok", !.rtype = r.type,
                                                !.rtarget = r.target]
                                 ELSE [@ EXCEPT !.dns = "error"]])
  /\ UNCHANGED <<rows, hosts, certs>>

(* The end of a step: its columns are committed.                           *)
Save(s, from, to) ==
  /\ At(s, from) /\ rows[s] # None
  /\ Commit(s, pipe[s].old, pipe[s].new)
  /\ Go(s, [pipe[s] EXCEPT !.pc = to, !.old = None, !.new = None])
  /\ UNCHANGED remote

SaveStep(s) ==
  \/ Save(s, "ensured", "proxy")
  \/ Save(s, "proxied", "secure")
  \/ Save(s, "attached", "finish")

LoadProxy(s) ==
  /\ At(s, "proxy") /\ rows[s] # None
  /\ Go(s, Loaded(s, ProxyPc(s)))
  /\ UNCHANGED <<rows, remote>>

ProxyDone(p, g, ssl) ==
  [p EXCEPT !.pc = "proxied", !.cur = None,
            !.new = [@ EXCEPT !.host = g, !.npm = "ok", !.ssl = ssl]]
ProxyFailed(p) ==
  [p EXCEPT !.pc = "proxied", !.cur = None, !.new = [@ EXCEPT !.npm = "error"]]
(* A 404: the host was deleted behind the app's back.                      *)
ProxyLost(p) ==
  [p EXCEPT !.pc = "find", !.cur = None, !.new = [@ EXCEPT !.host = None]]

(* update_proxy_host: the host is read and written back with the settings. *)
GetProxy(s) ==
  LET p == pipe[s] IN
  /\ p.pc = "get"
  /\ Go(s, IF IsHost(p.new.host) THEN [p EXCEPT !.pc = "put", !.cur = hosts[p.new.host]]
                                 ELSE ProxyLost(p))
  /\ UNCHANGED <<rows, remote>>

PutProxy(s) ==
  LET p == pipe[s]  g == pipe[s].new.host IN
  /\ p.pc = "put"
  /\ \/ ~IsHost(g) /\ Go(s, ProxyLost(p)) /\ UNCHANGED hosts
     \/ /\ IsHost(g) /\ NamesFree(g, p.cur.names)
        /\ \E a \in Outcomes \ {"failed"} :
             Go(s, IF a = "done" THEN ProxyDone(p, g, p.new.ssl) ELSE ProxyFailed(p))
        /\ hosts' = [hosts EXCEPT ![g] = p.cur]
  /\ UNCHANGED <<rows, zone, certs, made>>

FindProxyOwns(s) ==               \* mutant: the certificate found becomes the service's own
  LET p == pipe[s]  G == {g \in HostIds : IsHost(g) /\ pipe[s].name \in hosts[g].names} IN
  /\ p.pc = "find"
  /\ \/ \E g \in G : Go(s, [ProxyDone(p, g, IF hosts[g].cert # None THEN "ok" ELSE p.new.ssl)
                            EXCEPT !.new.cert = hosts[g].cert])
     \/ G = {} /\ Go(s, [p EXCEPT !.pc = "create"])
  /\ UNCHANGED <<rows, remote>>

(* find_proxy_host: a host that serves the name is adopted, and with it a  *)
(* certificate it may carry, which does not become the service's own.      *)
FindProxy(s) ==
  LET p == pipe[s]  G == {g \in HostIds : IsHost(g) /\ pipe[s].name \in hosts[g].names} IN
  /\ p.pc = "find"
  /\ \/ \E g \in G : Go(s, ProxyDone(p, g, IF hosts[g].cert # None THEN "ok" ELSE p.new.ssl))
     \/ G = {} /\ Go(s, [p EXCEPT !.pc = "create"])
  /\ UNCHANGED <<rows, remote>>

CreateProxy(s) ==
  LET p == pipe[s]  g == NewId(hosts) IN
  /\ p.pc = "create"
  /\ HasNewId(hosts) /\ NamesFree(g, {p.name})
  /\ \E a \in Outcomes \ {"failed"} :
       /\ hosts' = [hosts EXCEPT ![g] = [names |-> {p.name}, cert |-> None]]
       /\ made' = made \cup {g}
       /\ Go(s, IF a = "done" THEN ProxyDone(p, g, p.new.ssl) ELSE ProxyFailed(p))
  /\ UNCHANGED <<rows, zone, certs>>

ProxyCallFails(s) ==
  /\ pipe[s].pc \in {"get", "put", "find", "create"}
  /\ Go(s, ProxyFailed(pipe[s]))
  /\ UNCHANGED <<rows, remote>>

(* The verdict, when there is nothing (more) to do for the certificate.    *)
Conclude(s) ==
  /\ rows' = [rows EXCEPT ![s].state =
                IF rows[s].dns = "ok" /\ rows[s].npm = "ok" /\ rows[s].ssl = "ok"
                  THEN "active" ELSE "error"]
  /\ Go(s, [OffPipe EXCEPT !.pc = "done"])
  /\ UNCHANGED remote

LoadCert(s) ==
  /\ At(s, "secure") /\ rows[s] # None
  /\ IF NeedsCert(rows[s])
       THEN Go(s, Loaded(s, "findcert")) /\ UNCHANGED <<rows, remote>>
       ELSE Conclude(s)

Finish(s) == At(s, "finish") /\ rows[s] # None /\ Conclude(s)

LeaveHeld(s) ==                   \* mutant: _in_flight is not discarded
  /\ At(s, "done")
  /\ UNCHANGED <<rows, remote, pipe>>

(* The verdict is broadcast before the task leaves _in_flight.             *)
Leave(s) ==
  /\ At(s, "done")
  /\ Go(s, OffPipe)
  /\ UNCHANGED <<rows, remote>>

CertFailed(p) == [p EXCEPT !.pc = "attached", !.cur = None, !.new = [@ EXCEPT !.ssl = "error"]]

FindCertNever(s) ==               \* mutant: issues without looking first
  /\ At(s, "findcert")
  /\ Go(s, [pipe[s] EXCEPT !.pc = "issue", !.tries = 1])
  /\ UNCHANGED <<rows, remote>>

(* find_certificate: a Let's Encrypt certificate that lists the name,      *)
(* whatever else it lists.                                                 *)
FindCert(s) ==
  LET p == pipe[s]  C == {c \in CertIds : Lists(c, pipe[s].name)} IN
  /\ p.pc = "findcert"
  /\ \/ \E c \in C : Go(s, [p EXCEPT !.pc = "getattach", !.cert = c])
     \/ C = {} /\ Go(s, [p EXCEPT !.pc = "issue", !.tries = 1])
  /\ UNCHANGED <<rows, remote>>

OnceMoreOrFail(p) ==              \* mutant: one attempt too many
  IF p.tries <= Attempts THEN [p EXCEPT !.tries = @ + 1] ELSE CertFailed(p)

AgainOrFail(p) == IF p.tries < Attempts THEN [p EXCEPT !.tries = @ + 1] ELSE CertFailed(p)

IssueCert(s) ==
  LET p == pipe[s]  c == NewId(certs) IN
  /\ p.pc = "issue"
  /\ HasNewId(certs)
  /\ \E a \in Outcomes \ {"failed"} :
       /\ certs' = [certs EXCEPT ![c] = {p.name}]
       /\ made' = made \cup {c}
       /\ Go(s, IF a = "done" THEN [p EXCEPT !.pc = "issued", !.cert = c,
                                             !.new = [@ EXCEPT !.cert = c]]
                              ELSE AgainOrFail(p))
  /\ UNCHANGED <<rows, zone, hosts>>

IssueFails(s) ==
  /\ At(s, "issue")
  /\ Go(s, AgainOrFail(pipe[s]))
  /\ UNCHANGED <<rows, remote>>

SaveCertLater(s) ==               \* mutant: the id is stored with the attached certificate only
  /\ At(s, "issued") /\ rows[s] # None
  /\ Go(s, [pipe[s] EXCEPT !.pc = "getattach", !.new = rows[s]])
  /\ UNCHANGED <<rows, remote>>

(* The id is committed before the attach, and the row is loaded again.     *)
SaveCert(s) ==
  /\ At(s, "issued") /\ rows[s] # None
  /\ Commit(s, pipe[s].old, pipe[s].new)
  /\ Go(s, [pipe[s] EXCEPT !.pc = "getattach", !.old = rows'[s], !.new = rows'[s]])
  /\ UNCHANGED remote

GetAttach(s) ==
  LET p == pipe[s] IN
  /\ p.pc = "getattach"
  /\ Go(s, IF p.new.host # None /\ IsHost(p.new.host)
             THEN [p EXCEPT !.pc = "putattach", !.cur = hosts[p.new.host]]
             ELSE CertFailed(p))
  /\ UNCHANGED <<rows, remote>>

(* The id is stored as the service's own, adopted or issued.               *)
PutAttach(s) ==
  LET p == pipe[s]  g == pipe[s].new.host IN
  /\ p.pc = "putattach"
  /\ \E a \in Outcomes \ {"failed"} :
       /\ IsHost(g) /\ IsCert(p.cert) /\ NamesFree(g, p.cur.names)
       /\ hosts' = [hosts EXCEPT ![g] = [p.cur EXCEPT !.cert = p.cert]]
       /\ Go(s, IF a = "done"
                  THEN [p EXCEPT !.pc = "attached", !.cur = None,
                                 !.new = [@ EXCEPT !.cert = p.cert, !.ssl = "ok"]]
                  ELSE CertFailed(p))
  /\ UNCHANGED <<rows, zone, certs, made>>

CertCallFails(s) ==
  /\ pipe[s].pc \in {"findcert", "getattach", "putattach"}
  /\ Go(s, CertFailed(pipe[s]))
  /\ UNCHANGED <<rows, remote>>

PipeStep(s) ==
  \/ RowGone(s) \/ Begin(s) \/ LoadDns(s) \/ EnsureRecord(s) \/ SaveStep(s)
  \/ LoadProxy(s) \/ GetProxy(s) \/ PutProxy(s) \/ FindProxy(s) \/ CreateProxy(s)
  \/ ProxyCallFails(s) \/ LoadCert(s) \/ Finish(s) \/ Leave(s) \/ FindCert(s) \/ IssueCert(s)
  \/ IssueFails(s) \/ SaveCert(s) \/ GetAttach(s) \/ PutAttach(s) \/ CertCallFails(s)

=============================================================================
