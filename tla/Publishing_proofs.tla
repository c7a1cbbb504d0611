--------------------------- MODULE Publishing_proofs ---------------------------
(***************************************************************************)
(* What module Publishing promises, proved for every set of services,      *)
(* names, ids and clients, for every provisioning plan and any number of   *)
(* attempts.                                                               *)
(*                                                                         *)
(*   Inv      What every variable holds: the types, what a pipeline and a  *)
(*            request carry at each point, that a certificate that lists   *)
(*            no service's name is nobody's own, and that who has read a   *)
(*            host knows whether it serves the extra domain.  Inductive.   *)
(*   NoneStranded  A row that shows work in progress is being worked on.   *)
(*   Serial   With one request at a time, the row that a pipeline or a     *)
(*            request holds in memory is the row in the database.          *)
(*   NoneYet  Who is about to ask NPM for a certificate has none, and NPM  *)
(*            has none for the name.                                       *)
(*   Account  Who answers for each object the app has made.                *)
(*   Good     What the columns of a row say of NPM and of the zone.        *)
(*   Live     The certificates that hosts carry still exist.               *)
(*                                                                         *)
(* Each proof has one lemma per step of Publishing, and a chapter begins   *)
(* with the predicates it is about.                                        *)
(***************************************************************************)
EXTENDS Publishing, TLAPS

(* A row with the columns that a task has assigned (commit).               *)
Merged(row, old, new) == [k \in DOMAIN new |-> IF new[k] # old[k] THEN new[k] ELSE row[k]]

(* What the pipeline holds in its memory at each point.                    *)
Carrying == {"ensure", "ensured", "get", "put", "find", "create", "proxied", "findcert",
             "issue", "issued", "getattach", "putattach", "attached"}

PipeFits(p) ==
  /\ p \in Pipe
  /\ p.pc \in Carrying <=> p.new # None
  /\ p.pc \in Carrying <=> p.old # None
  /\ p.pc \notin {"off", "queued", "begun", "done"} => p.name # None
  /\ p.pc \in {"get", "put", "putattach"} => p.new.host # None
  /\ p.pc \in {"find", "create"} => p.new.host = None
  /\ p.pc \in {"put", "putattach"} => p.cur # None
  /\ p.pc \in {"issued", "getattach", "putattach"} => p.cert # None

(* The points of a rename and of a delete, and what a request carries.     *)
Editing == {"getnames", "getcert", "putnames", "dropcert", "unrecord", "save"}
Deleting == {"delhost", "delcert", "delrecord", "drop"}

JobFits(j) ==
  /\ j \in Job
  /\ j.pc \in Editing \cup Deleting => j.s # None /\ j.old # None
  /\ j.pc = "answer" => j.s # None
  /\ j.pc \in Editing \cup {"gethost", "insert"} => j.new # None
  /\ j.pc \in {"gethost", "insert"} => j.new.host # None
  /\ j.pc \in {"getnames", "getcert", "putnames", "delhost"} => j.old.host # None
  /\ j.pc \in {"getcert", "putnames"} => j.cur # None
  /\ j.pc \in {"dropcert", "delcert"} => j.old.cert # None
  /\ j.new # None => j.new.state = "pending"

(* What a certificate lists that lists no name a service may have ...      *)
Unlisted == SUBSET {Wildcard}

(* ... and no such certificate is taken for one's own.                     *)
Own(C, c) == c # None => C[c] \notin Unlisted

(* Who has read a host knows whether it serves the extra domain.   *)
Knows(H, g, N) ==
  /\ H[g] # Unused
  /\ H[g] # Gone => (Extra \in N <=> Extra \in H[g].names)

PipeOK(C, H, p) ==
  /\ PipeFits(p)
  /\ Own(C, p.cert) /\ (p.new # None => Own(C, p.new.cert))
  /\ p.pc \in {"put", "putattach"} => Knows(H, p.new.host, p.cur.names)

JobOK(C, H, j) ==
  /\ JobFits(j)
  /\ j.old # None => Own(C, j.old.cert)
  /\ j.new # None => Own(C, j.new.cert)
  /\ j.pc \in {"getcert", "putnames"} => Knows(H, j.old.host, j.cur.names)

RowOK(C, row) == row \in Row \cup {None} /\ (row # None => Own(C, row.cert))

(* The database, the zone, NPM and the observations.                       *)
StoreOK ==
  /\ rows \in [Services -> Row \cup {None}]
  /\ zone \subseteq Records
  /\ hosts \in [HostIds -> Host \cup {Unused, Gone}]
  /\ certs \in [CertIds -> {Unused, Gone} \cup SUBSET CertNames]
  /\ made \cup left \cup strayed \subseteq Records \cup HostIds \cup CertIds
  /\ trouble \in BOOLEAN
  /\ requests \in 0..MaxRequests /\ faults \in 0..MaxFaults

(* The inductive invariant.                                                *)
Inv ==
  /\ StoreOK
  /\ pipe \in [Services -> Pipe] /\ job \in [Clients -> Job]
  /\ \A s \in Services : RowOK(certs, rows[s])
  /\ \A s \in Services : PipeOK(certs, hosts, pipe[s])
  /\ \A h \in Clients : JobOK(certs, hosts, job[h])

(* How NPM may change without anybody's knowledge becoming wrong.          *)
CertsKept ==
  \A c \in CertIds : certs[c] \in Unlisted \/ certs'[c] \in Unlisted => certs'[c] = certs[c]
HostsKept ==
  \A g \in HostIds : hosts[g] # Unused =>
    /\ hosts'[g] # Unused
    /\ hosts'[g] # Gone => /\ hosts[g] # Gone
                           /\ Extra \in hosts'[g].names <=> Extra \in hosts[g].names
Preserved == Inv' /\ CertsKept /\ HostsKept

-----------------------------------------------------------------------------
LEMMA MergedIs ==
  ASSUME NEW row \in Row, NEW old \in Row, NEW new \in Row
  PROVE  Merged(row, old, new) =
    [name |-> IF new.name # old.name THEN new.name ELSE row.name,
     host |-> IF new.host # old.host THEN new.host ELSE row.host,
     cert |-> IF new.cert # old.cert THEN new.cert ELSE row.cert,
     rtype |-> IF new.rtype # old.rtype THEN new.rtype ELSE row.rtype,
     rtarget |-> IF new.rtarget # old.rtarget THEN new.rtarget ELSE row.rtarget,
     dns |-> IF new.dns # old.dns THEN new.dns ELSE row.dns,
     npm |-> IF new.npm # old.npm THEN new.npm ELSE row.npm,
     ssl |-> IF new.ssl # old.ssl THEN new.ssl ELSE row.ssl,
     state |-> IF new.state # old.state THEN new.state ELSE row.state]
<1>1. DOMAIN new = {"name", "host", "cert", "rtype", "rtarget", "dns", "npm", "ssl", "state"}
  BY DEF Row
<1> QED BY <1>1 DEF Row, Merged

LEMMA MergedRow ==
  ASSUME NEW row \in Row, NEW old \in Row, NEW new \in Row
  PROVE  Merged(row, old, new) \in Row
<1>1. /\ row.name \in Names /\ new.name \in Names
      /\ row.host \in HostIds \cup {None} /\ new.host \in HostIds \cup {None}
      /\ row.cert \in CertIds \cup {None} /\ new.cert \in CertIds \cup {None}
      /\ row.rtype \in Types \cup {None} /\ new.rtype \in Types \cup {None}
      /\ row.rtarget \in Targets \cup {None} /\ new.rtarget \in Targets \cup {None}
      /\ {row.dns, row.npm, row.ssl, new.dns, new.npm, new.ssl} \subseteq Status
      /\ {row.state, new.state} \subseteq {"pending", "provisioning", "active", "error"}
  BY DEF Row
<1> DEFINE m == Merged(row, old, new)
<1>2. /\ m.name \in Names
      /\ m.host \in HostIds \cup {None}
      /\ m.cert \in CertIds \cup {None}
      /\ m.rtype \in Types \cup {None}
      /\ m.rtarget \in Targets \cup {None}
      /\ {m.dns, m.npm, m.ssl} \subseteq Status
      /\ m.state \in {"pending", "provisioning", "active", "error"}
  BY <1>1, MergedIs
<1>3. m = [name |-> m.name, host |-> m.host, cert |-> m.cert, rtype |-> m.rtype,
           rtarget |-> m.rtarget, dns |-> m.dns, npm |-> m.npm, ssl |-> m.ssl,
           state |-> m.state]
  BY MergedIs
<1> HIDE DEF m
<1>4. m \in Row
  BY <1>2, <1>3 DEF Row
<1> QED BY <1>4 DEF m

LEMMA MergedSame ==
  ASSUME NEW old \in Row, NEW new \in Row
  PROVE  Merged(old, old, new) = new
  BY DEF Row, Merged

LEMMA CommitMerges ==
  ASSUME NEW s \in Services, NEW old, NEW new, Commit(s, old, new)
  PROVE  rows' = [rows EXCEPT ![s] = Merged(rows[s], old, new)]
  BY DEF Commit, Merged

(* A commit of a row that is there leaves a row, with one of two own       *)
(* certificates.                                                           *)
LEMMA CommitOK ==
  ASSUME Inv, NEW s \in Services, NEW old \in Row, NEW new \in Row, NEW C,
         rows[s] # None, Commit(s, old, new),
         Own(C, new.cert), \A t \in Services : RowOK(C, rows[t])
  PROVE  /\ rows' \in [Services -> Row \cup {None}]
         /\ \A t \in Services : RowOK(C, rows'[t])
         /\ rows'[s] \in Row
<1>1. rows[s] \in Row
  BY DEF Inv, StoreOK
<1>2. rows' = [rows EXCEPT ![s] = Merged(rows[s], old, new)]
  BY CommitMerges
<1>3. Merged(rows[s], old, new) \in Row
  BY <1>1, MergedRow
<1>4. Merged(rows[s], old, new).cert \in {new.cert, rows[s].cert}
  BY <1>1, MergedIs
<1>5. Own(C, Merged(rows[s], old, new).cert)
  BY <1>4 DEF RowOK, Own
<1> QED
  BY <1>2, <1>3, <1>5 DEF Inv, StoreOK, RowOK

(* What is known stays right when NPM changes as it may.                   *)
LEMMA KnowsKept ==
  ASSUME HostsKept, NEW g \in HostIds, NEW N, Knows(hosts, g, N)
  PROVE  Knows(hosts', g, N)
  BY DEF HostsKept, Knows

LEMMA OwnKept ==
  ASSUME CertsKept, NEW c \in CertIds \cup {None}, Own(certs, c)
  PROVE  Own(certs', c)
  BY DEF CertsKept, Own

LEMMA RowKept ==
  ASSUME CertsKept, NEW row, RowOK(certs, row)
  PROVE  RowOK(certs', row)
<1>1. row # None => row.cert \in CertIds \cup {None}
  BY DEF RowOK, Row
<1> QED
  BY <1>1, OwnKept DEF RowOK

LEMMA PipeKept ==
  ASSUME CertsKept, HostsKept, NEW p, PipeOK(certs, hosts, p)
  PROVE  PipeOK(certs', hosts', p)
<1>1. p \in Pipe
  BY DEF PipeOK, PipeFits
<1>2. p.cert \in CertIds \cup {None} /\ p.new \in Row \cup {None}
  BY <1>1 DEF Pipe
<1>3. p.new # None => p.new.cert \in CertIds \cup {None} /\ p.new.host \in HostIds \cup {None}
  BY <1>2 DEF Row
<1>4. Own(certs', p.cert) /\ (p.new # None => Own(certs', p.new.cert))
  BY <1>2, <1>3, OwnKept DEF PipeOK
<1>5. p.pc \in {"put", "putattach"} => p.new.host \in HostIds
  BY <1>3 DEF PipeOK, PipeFits, Carrying
<1>6. p.pc \in {"put", "putattach"} => Knows(hosts', p.new.host, p.cur.names)
  BY <1>5, KnowsKept DEF PipeOK
<1> QED
  BY <1>4, <1>6 DEF PipeOK

LEMMA JobKept ==
  ASSUME CertsKept, HostsKept, NEW j, JobOK(certs, hosts, j)
  PROVE  JobOK(certs', hosts', j)
<1>1. j \in Job
  BY DEF JobOK, JobFits
<1>2. j.old \in Row \cup {None} /\ j.new \in Row \cup {None}
  BY <1>1 DEF Job
<1>3. /\ j.new # None => j.new.cert \in CertIds \cup {None}
      /\ j.old # None => j.old.cert \in CertIds \cup {None} /\ j.old.host \in HostIds \cup {None}
  BY <1>2 DEF Row
<1>4. /\ j.old # None => Own(certs', j.old.cert)
      /\ j.new # None => Own(certs', j.new.cert)
  BY <1>3, OwnKept DEF JobOK
<1>5. j.pc \in {"getcert", "putnames"} => j.old.host \in HostIds
  BY <1>3 DEF JobOK, JobFits, Editing
<1>6. j.pc \in {"getcert", "putnames"} => Knows(hosts', j.old.host, j.cur.names)
  BY <1>5, KnowsKept DEF JobOK
<1> QED
  BY <1>4, <1>6 DEF JobOK

(* A step of one pipeline, and a step of one handler.                      *)
LEMMA PipeMove ==
  ASSUME Inv, StoreOK', CertsKept, HostsKept,
         NEW s \in Services, NEW p, Go(s, p), PipeOK(certs', hosts', p),
         \A t \in Services : RowOK(certs', rows'[t]),
         UNCHANGED job
  PROVE  Preserved
<1>1. p \in Pipe
  BY DEF PipeOK, PipeFits
<1>2. pipe' \in [Services -> Pipe] /\ \A t \in Services : pipe'[t] = IF t = s THEN p ELSE pipe[t]
  BY <1>1 DEF Inv, Go
<1>3. \A t \in Services : PipeOK(certs', hosts', pipe'[t])
  BY <1>2, PipeKept DEF Inv
<1>4. \A h \in Clients : JobOK(certs', hosts', job'[h])
  BY JobKept DEF Inv
<1> QED
  BY <1>2, <1>3, <1>4 DEF Inv, Preserved

LEMMA JobMove ==
  ASSUME Inv, StoreOK', CertsKept, HostsKept,
         NEW h \in Clients, NEW j, Put(h, j), JobOK(certs', hosts', j),
         \A t \in Services : RowOK(certs', rows'[t]),
         pipe' \in [Services -> Pipe],
         \A t \in Services : PipeOK(certs', hosts', pipe'[t])
  PROVE  Preserved
<1>1. j \in Job
  BY DEF JobOK, JobFits
<1>2. job' \in [Clients -> Job] /\ \A k \in Clients : job'[k] = IF k = h THEN j ELSE job[k]
  BY <1>1 DEF Inv, Put
<1>3. \A k \in Clients : JobOK(certs', hosts', job'[k])
  BY <1>2, JobKept DEF Inv
<1> QED
  BY <1>2, <1>3 DEF Inv, Preserved

(* The two resting values.                                                 *)
LEMMA OffFits ==
  ASSUME NEW C, NEW H, NEW pc \in {"off", "queued", "done"}
  PROVE  PipeOK(C, H, [OffPipe EXCEPT !.pc = pc]) /\ PipeOK(C, H, OffPipe)
<1>1. 0 \in 0..Attempts
  BY PlanOK
<1>2. [OffPipe EXCEPT !.pc = pc] \in Pipe /\ OffPipe \in Pipe
  BY <1>1 DEF Pipe, PipePcs, OffPipe
<1> QED
  BY <1>2 DEF PipeOK, PipeFits, Own, OffPipe, Carrying

LEMMA IdleFits ==
  ASSUME NEW C, NEW H
  PROVE  JobOK(C, H, IdleJob)
<1>1. IdleJob \in Job
  BY DEF Job, JobPcs, IdleJob
<1> QED
  BY <1>1 DEF JobOK, JobFits, IdleJob, Editing, Deleting

LEMMA AnswerFits ==
  ASSUME NEW C, NEW H, NEW s \in Services
  PROVE  JobOK(C, H, [IdleJob EXCEPT !.pc = "answer", !.s = s])
<1>1. [IdleJob EXCEPT !.pc = "answer", !.s = s] \in Job
  BY DEF Job, JobPcs, IdleJob
<1>2. s # None
  BY SpecialValues
<1> QED
  BY <1>1, <1>2 DEF JobOK, JobFits, IdleJob, Editing, Deleting

-----------------------------------------------------------------------------
(* The steps of the pipeline.                                              *)

Noted ==
  /\ strayed' = strayed \cup Unhosted'
  /\ trouble' = (trouble \/ Sharing')
  /\ UNCHANGED <<job, left, bounds>>

LEMMA NotedOK ==
  ASSUME Inv, Noted,
         rows' \in [Services -> Row \cup {None}],
         zone' \subseteq Records,
         hosts' \in [HostIds -> Host \cup {Unused, Gone}],
         certs' \in [CertIds -> {Unused, Gone} \cup SUBSET CertNames],
         made' \subseteq Records \cup HostIds \cup CertIds
  PROVE  StoreOK'
<1>1. Unhosted' \subseteq CertIds
  BY DEF Unhosted
<1> QED
  BY <1>1 DEF StoreOK, Inv, Noted, bounds, Sharing

LEMMA SameWorld ==
  ASSUME Inv, UNCHANGED <<hosts, certs>>
  PROVE  CertsKept /\ HostsKept /\ \A t \in Services : RowOK(certs', rows[t])
  BY DEF CertsKept, HostsKept, Inv

(* A step that leaves the remote side and the rows alone.                  *)
LEMMA QuietMove ==
  ASSUME Inv, Noted, UNCHANGED <<rows, remote>>,
         NEW s \in Services, NEW p, Go(s, p), PipeOK(certs, hosts, p)
  PROVE  Preserved
<1>1. UNCHANGED <<rows, zone, hosts, certs, made>>
  BY DEF remote
<1>2. StoreOK'
  BY <1>1, NotedOK DEF Inv, StoreOK
<1>3. CertsKept /\ HostsKept /\ \A t \in Services : RowOK(certs', rows'[t])
  BY <1>1, SameWorld
<1> QED
  BY <1>1, <1>2, <1>3, PipeMove DEF Noted

(* A step that commits to its row and leaves the remote side alone.        *)
LEMMA CommitMove ==
  ASSUME Inv, Noted, UNCHANGED remote,
         rows' \in [Services -> Row \cup {None}],
         \A t \in Services : RowOK(certs, rows'[t]),
         NEW s \in Services, NEW p, Go(s, p), PipeOK(certs, hosts, p)
  PROVE  Preserved
<1>1. UNCHANGED <<zone, hosts, certs, made>>
  BY DEF remote
<1>2. StoreOK'
  BY <1>1, NotedOK DEF Inv, StoreOK
<1>3. CertsKept /\ HostsKept
  BY <1>1, SameWorld
<1> QED
  BY <1>1, <1>2, <1>3, PipeMove DEF Noted

LEMMA RowGoneOK ==
  ASSUME Inv, NEW s \in Services, RowGone(s), Noted
  PROVE  Preserved
  BY OffFits, QuietMove DEF RowGone, Dies

(* What is known of a pipeline's memory.                                   *)
LEMMA PipeParts ==
  ASSUME NEW C, NEW H, NEW p, PipeOK(C, H, p)
  PROVE  /\ p \in Pipe /\ p.pc \in PipePcs /\ p.name \in Names \cup {None}
         /\ p.old \in Row \cup {None} /\ p.new \in Row \cup {None}
         /\ p.cur \in Host \cup {None} /\ p.cert \in CertIds \cup {None}
         /\ p.tries \in 0..Attempts
  BY DEF PipeOK, PipeFits, Pipe

LEMMA RowParts ==
  ASSUME NEW r \in Row
  PROVE  /\ r.name \in Names /\ r.host \in HostIds \cup {None} /\ r.cert \in CertIds \cup {None}
         /\ r.rtype \in Types \cup {None} /\ r.rtarget \in Targets \cup {None}
         /\ r.dns \in Status /\ r.npm \in Status /\ r.ssl \in Status
  BY DEF Row

LEMMA RowHere ==
  ASSUME Inv, NEW s \in Services, rows[s] # None
  PROVE  rows[s] \in Row /\ Own(certs, rows[s].cert)
  BY DEF Inv, StoreOK, RowOK

LEMMA PipeHere ==
  ASSUME Inv, NEW s \in Services
  PROVE  PipeOK(certs, hosts, pipe[s])
  BY DEF Inv

LEMMA BeginOK ==
  ASSUME Inv, NEW s \in Services, Begin(s), Noted
  PROVE  Preserved
<1> DEFINE p == [pipe[s] EXCEPT !.pc = "begun"]
           r == [rows[s] EXCEPT !.state = "provisioning"]
<1>1. rows[s] \in Row /\ Own(certs, rows[s].cert)
  BY RowHere DEF Begin
<1>2. r \in Row /\ r.cert = rows[s].cert
  BY <1>1 DEF Row
<1>3. rows' = [rows EXCEPT ![s] = r]
  BY DEF Begin
<1>4. rows' \in [Services -> Row \cup {None}] /\ \A t \in Services : RowOK(certs, rows'[t])
  BY <1>1, <1>2, <1>3 DEF Inv, StoreOK, RowOK
<1>5. PipeOK(certs, hosts, pipe[s]) /\ pipe[s].pc = "queued"
  BY PipeHere DEF Begin, At
<1>6. p \in Pipe /\ p.pc = "begun" /\ p.new = pipe[s].new /\ p.old = pipe[s].old /\ p.cert = pipe[s].cert
  BY <1>5 DEF PipeOK, PipeFits, Pipe, PipePcs
<1>7. PipeOK(certs, hosts, p)
  BY <1>5, <1>6 DEF PipeOK, PipeFits, Carrying
<1> QED
  BY <1>4, <1>7, CommitMove DEF Begin

(* The row as it is loaded fits.                                           *)
LEMMA LoadFits ==
  ASSUME Inv, NEW s \in Services, rows[s] # None, NEW n \in Names,
         NEW pc \in {"ensure", "get", "find", "findcert"},
         pc = "get" => rows[s].host # None, pc = "find" => rows[s].host = None
  PROVE  PipeOK(certs, hosts, [pipe[s] EXCEPT !.old = rows[s], !.new = rows[s],
                                              !.pc = pc, !.name = n])
<1> DEFINE p == [pipe[s] EXCEPT !.old = rows[s], !.new = rows[s], !.pc = pc, !.name = n]
<1>1. rows[s] \in Row /\ Own(certs, rows[s].cert) /\ PipeOK(certs, hosts, pipe[s])
  BY RowHere, PipeHere
<1>2. p \in Pipe
  BY <1>1 DEF PipeOK, PipeFits, Pipe, PipePcs
<1>3. /\ p.new = rows[s] /\ p.old = rows[s] /\ p.pc = pc /\ p.name = n
      /\ p.cert = pipe[s].cert
  BY <1>1 DEF PipeOK, PipeFits, Pipe
<1>4. n # None
  BY SpecialValues
<1> QED
  BY <1>1, <1>2, <1>3, <1>4 DEF PipeOK, PipeFits, Carrying

LEMMA LoadDnsOK ==
  ASSUME Inv, NEW s \in Services, LoadDns(s), Noted
  PROVE  Preserved
<1>1. rows[s] # None /\ rows[s].name \in Names
  BY RowHere, RowParts DEF LoadDns
<1>2. PICK pc \in {"ensure", "get", "find"} :
        /\ Go(s, [Loaded(s, pc) EXCEPT !.name = rows[s].name])
        /\ pc = "get" => rows[s].host # None
        /\ pc = "find" => rows[s].host = None
  BY DEF LoadDns, ProxyPc
<1>3. pipe[s] \in Pipe
  BY PipeHere, PipeParts
<1>4. PipeOK(certs, hosts, [pipe[s] EXCEPT !.old = rows[s], !.new = rows[s], !.pc = pc,
                                           !.name = rows[s].name])
  BY <1>1, <1>2, LoadFits
<1>5. PipeOK(certs, hosts, [Loaded(s, pc) EXCEPT !.name = rows[s].name])
  BY <1>3, <1>4 DEF Loaded
<1> QED
  BY <1>2, <1>5, QuietMove DEF LoadDns

(* A row in memory that gets other results and the same certificate.       *)
LEMMA Revised ==
  ASSUME NEW C, NEW H, NEW p, PipeOK(C, H, p), p.pc \in Carrying,
         NEW r \in Row, Own(C, r.cert), NEW pc \in Carrying \ {"get", "put", "issued",
           "getattach", "putattach"},
         pc \in {"find", "create"} => r.host = None
  PROVE  PipeOK(C, H, [p EXCEPT !.pc = pc, !.cur = None, !.new = r])
<1> DEFINE q == [p EXCEPT !.pc = pc, !.cur = None, !.new = r]
<1>1. p \in Pipe /\ p.old # None
  BY DEF PipeOK, PipeFits
<1>2. q \in Pipe
  BY <1>1 DEF Pipe, PipePcs, Carrying
<1>3. /\ q.pc = pc /\ q.new = r /\ q.old = p.old /\ q.name = p.name /\ q.cert = p.cert
  BY <1>1 DEF Pipe
<1>4. r # None
  BY SpecialValues
<1> HIDE DEF q
<1>5. PipeFits(q)
  BY <1>1, <1>2, <1>3, <1>4 DEF PipeOK, PipeFits, Carrying
<1>6. PipeOK(C, H, q)
  BY <1>3, <1>5 DEF PipeOK
<1> QED
  BY <1>6 DEF q

LEMMA ProxyDoneFits ==
  ASSUME NEW C, NEW H, NEW p, PipeOK(C, H, p), p.pc \in {"put", "find", "create"},
         NEW g \in HostIds, NEW ssl \in Status
  PROVE  PipeOK(C, H, ProxyDone(p, g, ssl))
<1> DEFINE r == [p.new EXCEPT !.host = g, !.npm = "ok", !.ssl = ssl]
<1>1. p.new \in Row /\ p.pc \in Carrying /\ Own(C, p.new.cert)
  BY DEF PipeOK, PipeFits, Pipe, Carrying
<1>2. r \in Row /\ r.cert = p.new.cert
  BY <1>1 DEF Row, Status
<1>3. PipeOK(C, H, [p EXCEPT !.pc = "proxied", !.cur = None, !.new = r])
  BY <1>1, <1>2, Revised DEF Carrying
<1> QED
  BY <1>3, PipeParts DEF ProxyDone, Pipe

LEMMA ProxyFailedFits ==
  ASSUME NEW C, NEW H, NEW p, PipeOK(C, H, p), p.pc \in {"get", "put", "find", "create"}
  PROVE  PipeOK(C, H, ProxyFailed(p))
<1> DEFINE r == [p.new EXCEPT !.npm = "error"]
<1>1. p.new \in Row /\ p.pc \in Carrying /\ Own(C, p.new.cert)
  BY DEF PipeOK, PipeFits, Pipe, Carrying
<1>2. r \in Row /\ r.cert = p.new.cert
  BY <1>1 DEF Row, Status
<1>3. PipeOK(C, H, [p EXCEPT !.pc = "proxied", !.cur = None, !.new = r])
  BY <1>1, <1>2, Revised DEF Carrying
<1> QED
  BY <1>3, PipeParts DEF ProxyFailed, Pipe

LEMMA ProxyLostFits ==
  ASSUME NEW C, NEW H, NEW p, PipeOK(C, H, p), p.pc \in {"get", "put"}
  PROVE  PipeOK(C, H, ProxyLost(p))
<1> DEFINE r == [p.new EXCEPT !.host = None]
<1>1. p.new \in Row /\ p.pc \in Carrying /\ Own(C, p.new.cert)
  BY DEF PipeOK, PipeFits, Pipe, Carrying
<1>2. r \in Row /\ r.cert = p.new.cert /\ r.host = None
  BY <1>1 DEF Row
<1>3. PipeOK(C, H, [p EXCEPT !.pc = "find", !.cur = None, !.new = r])
  BY <1>1, <1>2, Revised DEF Carrying
<1> QED
  BY <1>3, PipeParts DEF ProxyLost, Pipe

LEMMA CertFailedFits ==
  ASSUME NEW C, NEW H, NEW p, PipeOK(C, H, p),
         p.pc \in {"findcert", "issue", "getattach", "putattach"}
  PROVE  PipeOK(C, H, CertFailed(p))
<1> DEFINE r == [p.new EXCEPT !.ssl = "error"]
<1>1. p.new \in Row /\ p.pc \in Carrying /\ Own(C, p.new.cert)
  BY DEF PipeOK, PipeFits, Pipe, Carrying
<1>2. r \in Row /\ r.cert = p.new.cert
  BY <1>1 DEF Row, Status
<1>3. PipeOK(C, H, [p EXCEPT !.pc = "attached", !.cur = None, !.new = r])
  BY <1>1, <1>2, Revised DEF Carrying
<1> QED
  BY <1>3, PipeParts DEF CertFailed, Pipe

LEMMA AgainFits ==
  ASSUME NEW C, NEW H, NEW p, PipeOK(C, H, p), p.pc = "issue"
  PROVE  PipeOK(C, H, AgainOrFail(p))
<1>1. CASE p.tries < Attempts
  <2> DEFINE q == [p EXCEPT !.tries = @ + 1]
  <2>1. q \in Pipe /\ q.pc = p.pc /\ q.new = p.new /\ q.old = p.old /\ q.cert = p.cert
        /\ q.name = p.name
    BY <1>1, PlanOK, PipeParts DEF Pipe
  <2>2. PipeOK(C, H, q)
    BY <2>1 DEF PipeOK, PipeFits, Carrying
  <2> QED
    BY <1>1, <2>2 DEF AgainOrFail
<1>2. CASE ~(p.tries < Attempts)
  BY <1>2, CertFailedFits DEF AgainOrFail
<1> QED
  BY <1>1, <1>2

-----------------------------------------------------------------------------
LEMMA PlanTypes ==
  ASSUME NEW row \in Row
  PROVE  PlanType(row) \in Types /\ PlanTarget(row) \in Targets
  BY PlanOK, RowParts DEF PlanType, PlanTarget

LEMMA EnsureRecordOK ==
  ASSUME Inv, NEW s \in Services, EnsureRecord(s), Noted
  PROVE  Preserved
<1> DEFINE p == pipe[s]
           r == [name |-> p.name, type |-> PlanType(p.new), target |-> PlanTarget(p.new)]
           row(a) == IF a = "done" THEN [p.new EXCEPT !.dns = "ok", !.rtype = r.type,
                                                      !.rtarget = r.target]
                                   ELSE [p.new EXCEPT !.dns = "error"]
<1>1. PipeOK(certs, hosts, p) /\ p.pc = "ensure"
  BY PipeHere DEF EnsureRecord
<1>2. p \in Pipe /\ p.new \in Row /\ p.name \in Names /\ Own(certs, p.new.cert)
  BY <1>1, PipeParts DEF PipeOK, PipeFits, Carrying
<1>3. r \in Records /\ r.type \in Types /\ r.target \in Targets
  BY <1>2, PlanTypes DEF Records
<1>4. PICK a \in Outcomes :
        /\ zone' = IF a = "failed" THEN zone ELSE zone \cup {r}
        /\ made' = made \cup (zone' \ zone)
        /\ Go(s, [p EXCEPT !.pc = "ensured", !.new = row(a)])
  BY <1>2 DEF EnsureRecord
<1> HIDE DEF r
<1>5. row(a) \in Row /\ row(a).cert = p.new.cert
  BY <1>2, <1>3 DEF Row, Status
<1> HIDE DEF row
<1>6. [p EXCEPT !.pc = "ensured", !.new = row(a)] \in Pipe
  BY <1>2, <1>5 DEF Pipe, PipePcs
<1>7. PipeOK(certs, hosts, [p EXCEPT !.pc = "ensured", !.new = row(a)])
  BY <1>1, <1>2, <1>5, <1>6, SpecialValues DEF PipeOK, PipeFits, Pipe, Carrying
<1>8. UNCHANGED <<rows, hosts, certs>>
  BY DEF EnsureRecord
<1>9. StoreOK'
  <2>1. zone' \subseteq Records /\ made' \subseteq Records \cup HostIds \cup CertIds
    BY <1>3, <1>4 DEF Inv, StoreOK
  <2> QED
    BY <1>8, <2>1, NotedOK DEF Inv, StoreOK
<1>10. CertsKept /\ HostsKept /\ \A t \in Services : RowOK(certs', rows'[t])
  BY <1>8, SameWorld
<1> QED
  BY <1>4, <1>7, <1>8, <1>9, <1>10, PipeMove DEF Noted

(* A row whose step is saved is no longer held in memory.                  *)
LEMMA LaidDown ==
  ASSUME NEW C, NEW H, NEW p, PipeOK(C, H, p), p.pc \notin {"off", "queued", "begun", "done"},
         NEW pc \in {"proxy", "secure", "finish"}
  PROVE  PipeOK(C, H, [p EXCEPT !.pc = pc, !.old = None, !.new = None])
  BY PipeParts DEF PipeOK, PipeFits, Pipe, PipePcs, Carrying

LEMMA SaveOK ==
  ASSUME Inv, NEW s \in Services, Noted,
         NEW from \in {"ensured", "proxied", "attached"},
         NEW to \in {"proxy", "secure", "finish"}, Save(s, from, to)
  PROVE  Preserved
<1>1. PipeOK(certs, hosts, pipe[s]) /\ pipe[s].pc = from /\ rows[s] # None
  BY PipeHere DEF Save, At
<1>2. pipe[s].old \in Row /\ pipe[s].new \in Row /\ Own(certs, pipe[s].new.cert)
  BY <1>1, PipeParts DEF PipeOK, PipeFits, Carrying
<1>3. PipeOK(certs, hosts, [pipe[s] EXCEPT !.pc = to, !.old = None, !.new = None])
  BY <1>1, LaidDown
<1>4. /\ rows' \in [Services -> Row \cup {None}]
      /\ \A t \in Services : RowOK(certs, rows'[t])
  BY <1>1, <1>2, CommitOK DEF Save, Inv
<1> QED
  BY <1>3, <1>4, CommitMove DEF Save

LEMMA SaveStepOK ==
  ASSUME Inv, NEW s \in Services, SaveStep(s), Noted
  PROVE  Preserved
  BY SaveOK DEF SaveStep

LEMMA LoadProxyOK ==
  ASSUME Inv, NEW s \in Services, LoadProxy(s), Noted
  PROVE  Preserved
<1>1. PipeOK(certs, hosts, pipe[s]) /\ pipe[s].pc = "proxy" /\ rows[s] # None
  BY PipeHere DEF LoadProxy, At
<1>2. pipe[s].name \in Names /\ pipe[s] \in Pipe
  BY <1>1, PipeParts DEF PipeOK, PipeFits
<1>3. [Loaded(s, ProxyPc(s)) EXCEPT !.name = pipe[s].name] = Loaded(s, ProxyPc(s))
  BY <1>2 DEF Loaded, Pipe
<1>4. PipeOK(certs, hosts, Loaded(s, ProxyPc(s)))
  BY <1>1, <1>2, <1>3, LoadFits DEF Loaded, ProxyPc
<1> QED
  BY <1>4, QuietMove DEF LoadProxy

(* Whoever reads a host that is there knows it.                            *)
LEMMA ReadKnows ==
  ASSUME Inv, NEW g \in HostIds, IsHost(g)
  PROVE  hosts[g] \in Host /\ hosts[g] # None /\ Knows(hosts, g, hosts[g].names)
  BY SpecialValues DEF Inv, StoreOK, IsHost, Knows

LEMMA GetProxyOK ==
  ASSUME Inv, NEW s \in Services, GetProxy(s), Noted
  PROVE  Preserved
<1> DEFINE p == pipe[s]
           g == p.new.host
           q == [p EXCEPT !.pc = "put", !.cur = hosts[g]]
<1>1. PipeOK(certs, hosts, p) /\ p.pc = "get"
  BY PipeHere DEF GetProxy
<1>2. p \in Pipe /\ p.new \in Row /\ g \in HostIds /\ p.name # None /\ p.old # None
  BY <1>1, PipeParts, RowParts DEF PipeOK, PipeFits, Carrying
<1>3. CASE IsHost(g)
  <2>1. hosts[g] \in Host /\ hosts[g] # None /\ Knows(hosts, g, hosts[g].names)
    BY <1>2, <1>3, ReadKnows
  <2>2. q \in Pipe /\ q.new = p.new /\ q.old = p.old /\ q.cert = p.cert /\ q.name = p.name
        /\ q.pc = "put" /\ q.cur = hosts[g]
    BY <1>2, <2>1 DEF Pipe, PipePcs
  <2> HIDE DEF q
  <2>3. PipeOK(certs, hosts, q)
    BY <1>1, <1>2, <2>1, <2>2 DEF PipeOK, PipeFits, Carrying
  <2> QED
    BY <1>3, <2>3, QuietMove DEF GetProxy, q
<1>4. CASE ~IsHost(g)
  BY <1>1, <1>4, ProxyLostFits, QuietMove DEF GetProxy
<1> QED
  BY <1>3, <1>4

(* A host that is written by somebody who knows it keeps its extra domain. *)
LEMMA WriteKeeps ==
  ASSUME Inv, NEW g \in HostIds, NEW H \in Host, Knows(hosts, g, H.names), IsHost(g),
         hosts' = [hosts EXCEPT ![g] = H]
  PROVE  /\ hosts' \in [HostIds -> Host \cup {Unused, Gone}]
         /\ HostsKept
         /\ Knows(hosts', g, H.names)
  BY SpecialValues DEF Inv, StoreOK, IsHost, Knows, HostsKept

LEMMA SameCerts ==
  ASSUME Inv, UNCHANGED certs
  PROVE  CertsKept /\ \A t \in Services : RowOK(certs', rows[t])
  BY DEF CertsKept, Inv

LEMMA PutProxyOK ==
  ASSUME Inv, NEW s \in Services, PutProxy(s), Noted
  PROVE  Preserved
<1> DEFINE p == pipe[s]
           g == p.new.host
<1>1. PipeOK(certs, hosts, p) /\ p.pc = "put"
  BY PipeHere DEF PutProxy
<1>2. /\ p \in Pipe /\ p.new \in Row /\ g \in HostIds /\ p.cur \in Host
      /\ p.new.ssl \in Status /\ Knows(hosts, g, p.cur.names)
  BY <1>1, PipeParts, RowParts DEF PipeOK, PipeFits, Carrying
<1>3. CASE ~IsHost(g) /\ Go(s, ProxyLost(p)) /\ UNCHANGED hosts
  <2>1. UNCHANGED <<rows, remote>>
    BY <1>3 DEF PutProxy, remote
  <2> QED
    BY <1>1, <1>3, <2>1, ProxyLostFits, QuietMove
<1>4. CASE /\ IsHost(g)
           /\ \E a \in Outcomes \ {"failed"} :
                Go(s, IF a = "done" THEN ProxyDone(p, g, p.new.ssl) ELSE ProxyFailed(p))
           /\ hosts' = [hosts EXCEPT ![g] = p.cur]
  <2>1. hosts' \in [HostIds -> Host \cup {Unused, Gone}] /\ HostsKept
    BY <1>2, <1>4, WriteKeeps
  <2>2. UNCHANGED <<rows, zone, certs, made>>
    BY DEF PutProxy
  <2>3. StoreOK'
    BY <2>1, <2>2, NotedOK DEF Inv, StoreOK
  <2>4. PipeOK(certs', hosts', p)
    BY <1>1, <2>1, <2>2, SameCerts, PipeKept
  <2>5. PICK q : q \in {ProxyDone(p, g, p.new.ssl), ProxyFailed(p)} /\ Go(s, q)
    BY <1>4
  <2>6. PipeOK(certs', hosts', q)
    BY <1>1, <1>2, <2>4, <2>5, ProxyDoneFits, ProxyFailedFits
  <2> QED
    BY <2>1, <2>2, <2>3, <2>5, <2>6, SameCerts, PipeMove DEF Noted
<1> QED
  BY <1>3, <1>4 DEF PutProxy

LEMMA FindProxyOK ==
  ASSUME Inv, NEW s \in Services, FindProxy(s), Noted
  PROVE  Preserved
<1> DEFINE p == pipe[s]
<1>1. PipeOK(certs, hosts, p) /\ p.pc = "find"
  BY PipeHere DEF FindProxy
<1>2. p \in Pipe /\ p.new \in Row /\ p.new.ssl \in Status
  BY <1>1, PipeParts, RowParts DEF PipeOK, PipeFits, Carrying
<1>3. ASSUME NEW g \in HostIds, NEW ssl \in Status, Go(s, ProxyDone(p, g, ssl))
      PROVE  Preserved
  BY <1>1, <1>3, ProxyDoneFits, QuietMove DEF FindProxy
<1>4. ASSUME Go(s, [p EXCEPT !.pc = "create"])
      PROVE  Preserved
  <2> DEFINE q == [p EXCEPT !.pc = "create"]
  <2>1. q \in Pipe /\ q.new = p.new /\ q.old = p.old /\ q.cert = p.cert /\ q.name = p.name
        /\ q.pc = "create"
    BY <1>2 DEF Pipe, PipePcs
  <2>2. PipeOK(certs, hosts, q)
    BY <1>1, <2>1 DEF PipeOK, PipeFits, Carrying
  <2> QED
    BY <1>4, <2>2, QuietMove DEF FindProxy
<1>5. "ok" \in Status
  BY DEF Status
<1> QED
  BY <1>2, <1>3, <1>4, <1>5 DEF FindProxy

LEMMA CreateProxyOK ==
  ASSUME Inv, NEW s \in Services, CreateProxy(s), Noted
  PROVE  Preserved
<1> DEFINE p == pipe[s]
           g == NewId(hosts)
           H == [names |-> {p.name}, cert |-> None]
<1>1. PipeOK(certs, hosts, p) /\ p.pc = "create"
  BY PipeHere DEF CreateProxy
<1>2. p \in Pipe /\ p.new \in Row /\ p.new.ssl \in Status /\ p.name \in Names
  BY <1>1, PipeParts, RowParts DEF PipeOK, PipeFits, Carrying
<1>3. g \in HostIds /\ hosts[g] = Unused
  BY DEF CreateProxy, HasNewId, NewId, Inv, StoreOK
<1>4. H \in Host
  BY <1>2 DEF Host, HostNames
<1>5. PICK a \in Outcomes \ {"failed"} :
        /\ hosts' = [hosts EXCEPT ![g] = H]
        /\ made' = made \cup {g}
        /\ Go(s, IF a = "done" THEN ProxyDone(p, g, p.new.ssl) ELSE ProxyFailed(p))
  BY DEF CreateProxy
<1> HIDE DEF g, H
<1>6. /\ hosts' \in [HostIds -> Host \cup {Unused, Gone}]
      /\ made' \subseteq Records \cup HostIds \cup CertIds
  BY <1>3, <1>4, <1>5 DEF Inv, StoreOK
<1>7. HostsKept
  BY <1>3, <1>4, <1>5 DEF HostsKept, Inv, StoreOK
<1>8. UNCHANGED <<rows, zone, certs>>
  BY DEF CreateProxy
<1>9. StoreOK'
  BY <1>6, <1>8, NotedOK DEF Inv, StoreOK
<1>10. PipeOK(certs', hosts', p)
  BY <1>1, <1>7, <1>8, SameCerts, PipeKept
<1>11. PICK q : q \in {ProxyDone(p, g, p.new.ssl), ProxyFailed(p)} /\ Go(s, q)
  BY <1>5
<1>12. PipeOK(certs', hosts', q)
  BY <1>1, <1>2, <1>3, <1>10, <1>11, ProxyDoneFits, ProxyFailedFits
<1> QED
  BY <1>7, <1>8, <1>9, <1>11, <1>12, SameCerts, PipeMove DEF Noted

LEMMA ProxyCallFailsOK ==
  ASSUME Inv, NEW s \in Services, ProxyCallFails(s), Noted
  PROVE  Preserved
  BY PipeHere, ProxyFailedFits, QuietMove DEF ProxyCallFails

LEMMA ConcludeOK ==
  ASSUME Inv, NEW s \in Services, rows[s] # None, Conclude(s), Noted
  PROVE  Preserved
<1> DEFINE r == [rows[s] EXCEPT !.state =
                  IF rows[s].dns = "ok" /\ rows[s].npm = "ok" /\ rows[s].ssl = "ok"
                    THEN "active" ELSE "error"]
<1>1. rows[s] \in Row /\ Own(certs, rows[s].cert)
  BY RowHere
<1>2. r \in Row /\ r.cert = rows[s].cert
  BY <1>1 DEF Row
<1>3. rows' = [rows EXCEPT ![s] = r]
  BY DEF Conclude
<1>4. rows' \in [Services -> Row \cup {None}] /\ \A t \in Services : RowOK(certs, rows'[t])
  BY <1>1, <1>2, <1>3 DEF Inv, StoreOK, RowOK
<1> QED
  BY <1>4, OffFits, CommitMove DEF Conclude

LEMMA LoadCertOK ==
  ASSUME Inv, NEW s \in Services, LoadCert(s), Noted
  PROVE  Preserved
<1>1. PipeOK(certs, hosts, pipe[s]) /\ pipe[s].pc = "secure" /\ rows[s] # None
  BY PipeHere DEF LoadCert, At
<1>2. pipe[s].name \in Names /\ pipe[s] \in Pipe
  BY <1>1, PipeParts DEF PipeOK, PipeFits
<1>3. [Loaded(s, "findcert") EXCEPT !.name = pipe[s].name] = Loaded(s, "findcert")
  BY <1>2 DEF Loaded, Pipe
<1>4. PipeOK(certs, hosts, Loaded(s, "findcert"))
  BY <1>1, <1>2, <1>3, LoadFits DEF Loaded
<1> QED
  BY <1>1, <1>4, QuietMove, ConcludeOK DEF LoadCert

LEMMA FinishOK ==
  ASSUME Inv, NEW s \in Services, Finish(s), Noted
  PROVE  Preserved
  BY ConcludeOK DEF Finish

LEMMA LeaveOK ==
  ASSUME Inv, NEW s \in Services, Leave(s), Noted
  PROVE  Preserved
  BY OffFits, QuietMove DEF Leave

(* A certificate that lists a name a service may have can be its own.      *)
LEMMA NamedOwn ==
  ASSUME NEW C, NEW c, NEW n \in Names, n \in C[c]
  PROVE  Own(C, c)
  BY SpecialValues DEF Own, Unlisted

(* With a certificate, or the first attempt at one, in memory.             *)
LEMMA Holding ==
  ASSUME NEW C, NEW H, NEW p, PipeOK(C, H, p), p.pc \in {"findcert", "issue"},
         NEW c \in CertIds, Own(C, c)
  PROVE  /\ PipeOK(C, H, [p EXCEPT !.pc = "getattach", !.cert = c])
         /\ PipeOK(C, H, [p EXCEPT !.pc = "issue", !.tries = 1])
         /\ PipeOK(C, H, [p EXCEPT !.pc = "issued", !.cert = c, !.new = [@ EXCEPT !.cert = c]])
<1>1. p \in Pipe /\ p.new \in Row
  BY PipeParts DEF PipeOK, PipeFits, Carrying
<1>2. c # None /\ 1 \in 0..Attempts
  BY SpecialValues, PlanOK
<1>3. PipeOK(C, H, [p EXCEPT !.pc = "getattach", !.cert = c])
  BY <1>1, <1>2 DEF PipeOK, PipeFits, Pipe, PipePcs, Carrying
<1>4. PipeOK(C, H, [p EXCEPT !.pc = "issue", !.tries = 1])
  BY <1>1, <1>2 DEF PipeOK, PipeFits, Pipe, PipePcs, Carrying
<1>5. [p.new EXCEPT !.cert = c] \in Row /\ [p.new EXCEPT !.cert = c].cert = c
  BY <1>1 DEF Row
<1>6. PipeOK(C, H, [p EXCEPT !.pc = "issued", !.cert = c, !.new = [@ EXCEPT !.cert = c]])
  <2> DEFINE r == [p.new EXCEPT !.cert = c]
             q == [p EXCEPT !.pc = "issued", !.cert = c, !.new = r]
  <2>1. r \in Row /\ r.cert = c /\ r # None
    BY <1>5, SpecialValues
  <2> HIDE DEF r
  <2>2. q \in Pipe /\ q.pc = "issued" /\ q.cert = c /\ q.new = r /\ q.old = p.old
        /\ q.name = p.name
    BY <1>1, <2>1 DEF Pipe, PipePcs
  <2> HIDE DEF q
  <2>3. PipeOK(C, H, q)
    BY <1>2, <2>1, <2>2 DEF PipeOK, PipeFits, Carrying
  <2>4. q = [p EXCEPT !.pc = "issued", !.cert = c, !.new = [@ EXCEPT !.cert = c]]
    BY <1>1 DEF q, r, Pipe
  <2> QED
    BY <2>3, <2>4
<1> QED
  BY <1>3, <1>4, <1>6

LEMMA FirstTry ==
  ASSUME NEW C, NEW H, NEW p, PipeOK(C, H, p), p.pc = "findcert"
  PROVE  PipeOK(C, H, [p EXCEPT !.pc = "issue", !.tries = 1])
<1>1. p \in Pipe
  BY PipeParts
<1>2. 1 \in 0..Attempts
  BY PlanOK
<1> QED
  BY <1>1, <1>2 DEF PipeOK, PipeFits, Pipe, PipePcs, Carrying

LEMMA FindCertOK ==
  ASSUME Inv, NEW s \in Services, FindCert(s), Noted
  PROVE  Preserved
<1>1. PipeOK(certs, hosts, pipe[s]) /\ pipe[s].pc = "findcert"
  BY PipeHere DEF FindCert
<1>2. pipe[s].name \in Names
  BY <1>1, PipeParts DEF PipeOK, PipeFits
<1>3. ASSUME NEW c \in CertIds, Lists(c, pipe[s].name),
             Go(s, [pipe[s] EXCEPT !.pc = "getattach", !.cert = c])
      PROVE  Preserved
  <2>1. Own(certs, c)
    BY <1>2, <1>3, NamedOwn DEF Lists
  <2> QED
    BY <1>1, <1>3, <2>1, Holding, QuietMove DEF FindCert
<1>4. ASSUME Go(s, [pipe[s] EXCEPT !.pc = "issue", !.tries = 1])
      PROVE  Preserved
  BY <1>1, <1>4, FirstTry, QuietMove DEF FindCert
<1> QED
  BY <1>3, <1>4 DEF FindCert

LEMMA IssueCertOK ==
  ASSUME Inv, NEW s \in Services, IssueCert(s), Noted
  PROVE  Preserved
<1> DEFINE p == pipe[s]
           c == NewId(certs)
<1>1. PipeOK(certs, hosts, p) /\ p.pc = "issue"
  BY PipeHere DEF IssueCert
<1>2. p.name \in Names
  BY <1>1, PipeParts DEF PipeOK, PipeFits
<1>3. c \in CertIds /\ certs[c] = Unused
  BY DEF IssueCert, HasNewId, NewId, Inv, StoreOK
<1>4. PICK a \in Outcomes \ {"failed"} :
        /\ certs' = [certs EXCEPT ![c] = {p.name}]
        /\ made' = made \cup {c}
        /\ Go(s, IF a = "done" THEN [p EXCEPT !.pc = "issued", !.cert = c,
                                              !.new = [@ EXCEPT !.cert = c]]
                               ELSE AgainOrFail(p))
  BY DEF IssueCert
<1> HIDE DEF c
<1>5. /\ certs' \in [CertIds -> {Unused, Gone} \cup SUBSET CertNames] /\ certs'[c] = {p.name}
      /\ made' \subseteq Records \cup HostIds \cup CertIds
  BY <1>2, <1>3, <1>4 DEF Inv, StoreOK, CertNames
<1>6. CertsKept
  <2>1. Unused \notin Unlisted /\ {p.name} \notin Unlisted
    BY <1>2, SpecialValues DEF Unlisted, CertNames
  <2>2. \A d \in CertIds : certs'[d] = IF d = c THEN {p.name} ELSE certs[d]
    BY <1>4 DEF Inv, StoreOK
  <2> QED
    BY <1>3, <2>1, <2>2 DEF CertsKept
<1>7. UNCHANGED <<rows, zone, hosts>> /\ HostsKept
  BY DEF IssueCert, HostsKept
<1>8. StoreOK'
  BY <1>5, <1>7, NotedOK DEF Inv, StoreOK
<1>9. PipeOK(certs', hosts', p) /\ \A t \in Services : RowOK(certs', rows'[t])
  BY <1>1, <1>6, <1>7, PipeKept, RowKept DEF Inv
<1>10. PICK q : /\ q \in {[p EXCEPT !.pc = "issued", !.cert = c, !.new = [@ EXCEPT !.cert = c]],
                          AgainOrFail(p)}
                /\ Go(s, q)
  BY <1>4
<1>11. PipeOK(certs', hosts', q)
  <2>1. Own(certs', c)
    BY <1>2, <1>5, NamedOwn
  <2>2. PipeOK(certs', hosts', [p EXCEPT !.pc = "issued", !.cert = c,
                                        !.new = [@ EXCEPT !.cert = c]])
    BY <1>1, <1>3, <1>9, <2>1, Holding
  <2>3. PipeOK(certs', hosts', AgainOrFail(p))
    BY <1>1, <1>9, AgainFits
  <2> QED
    BY <1>10, <2>2, <2>3
<1> QED
  BY <1>6, <1>7, <1>8, <1>9, <1>10, <1>11, PipeMove DEF Noted

LEMMA IssueFailsOK ==
  ASSUME Inv, NEW s \in Services, IssueFails(s), Noted
  PROVE  Preserved
  BY PipeHere, AgainFits, QuietMove DEF IssueFails, At

LEMMA SaveCertOK ==
  ASSUME Inv, NEW s \in Services, SaveCert(s), Noted
  PROVE  Preserved
<1> DEFINE p == pipe[s]
           q == [p EXCEPT !.pc = "getattach", !.old = rows'[s], !.new = rows'[s]]
<1>1. PipeOK(certs, hosts, p) /\ p.pc = "issued" /\ rows[s] # None
  BY PipeHere DEF SaveCert, At
<1>2. /\ p.old \in Row /\ p.new \in Row /\ Own(certs, p.new.cert) /\ p \in Pipe
      /\ p.cert # None /\ p.name # None
  BY <1>1, PipeParts DEF PipeOK, PipeFits, Carrying
<1>3. /\ rows' \in [Services -> Row \cup {None}]
      /\ \A t \in Services : RowOK(certs, rows'[t])
      /\ rows'[s] \in Row
  BY <1>1, <1>2, CommitOK DEF SaveCert, Inv
<1>4. rows'[s] # None /\ Own(certs, rows'[s].cert)
  BY <1>3, SpecialValues DEF RowOK
<1>5. q \in Pipe /\ q.pc = "getattach" /\ q.old = rows'[s] /\ q.new = rows'[s]
      /\ q.cert = p.cert /\ q.name = p.name
  BY <1>2, <1>3 DEF Pipe, PipePcs
<1> HIDE DEF q
<1>6. PipeOK(certs, hosts, q)
  BY <1>1, <1>2, <1>4, <1>5 DEF PipeOK, PipeFits, Carrying
<1> QED
  BY <1>3, <1>6, CommitMove DEF SaveCert, q

LEMMA GetAttachOK ==
  ASSUME Inv, NEW s \in Services, GetAttach(s), Noted
  PROVE  Preserved
<1> DEFINE p == pipe[s]
           g == p.new.host
           q == [p EXCEPT !.pc = "putattach", !.cur = hosts[g]]
<1>1. PipeOK(certs, hosts, p) /\ p.pc = "getattach"
  BY PipeHere DEF GetAttach
<1>2. /\ p \in Pipe /\ p.new \in Row /\ g \in HostIds \cup {None} /\ p.name # None
      /\ p.old # None /\ p.cert # None
  BY <1>1, PipeParts, RowParts DEF PipeOK, PipeFits, Carrying
<1>3. CASE g # None /\ IsHost(g)
  <2>1. hosts[g] \in Host /\ hosts[g] # None /\ Knows(hosts, g, hosts[g].names)
    BY <1>2, <1>3, ReadKnows
  <2>2. q \in Pipe /\ q.new = p.new /\ q.old = p.old /\ q.cert = p.cert /\ q.name = p.name
        /\ q.pc = "putattach" /\ q.cur = hosts[g]
    BY <1>2, <2>1 DEF Pipe, PipePcs
  <2> HIDE DEF q
  <2>3. PipeOK(certs, hosts, q)
    BY <1>1, <1>2, <1>3, <2>1, <2>2 DEF PipeOK, PipeFits, Carrying
  <2> QED
    BY <1>3, <2>3, QuietMove DEF GetAttach, q
<1>4. CASE ~(g # None /\ IsHost(g))
  BY <1>1, <1>4, CertFailedFits, QuietMove DEF GetAttach
<1> QED
  BY <1>3, <1>4

LEMMA AttachedFits ==
  ASSUME NEW C, NEW H, NEW p, PipeOK(C, H, p), p.pc = "putattach"
  PROVE  PipeOK(C, H, [p EXCEPT !.pc = "attached", !.cur = None,
                               !.new = [@ EXCEPT !.cert = p.cert, !.ssl = "ok"]])
<1> DEFINE r == [p.new EXCEPT !.cert = p.cert, !.ssl = "ok"]
<1>1. p.new \in Row /\ p.pc \in Carrying /\ Own(C, p.cert) /\ p.cert \in CertIds \cup {None}
  BY PipeParts DEF PipeOK, PipeFits, Carrying
<1>2. r \in Row /\ r.cert = p.cert
  BY <1>1 DEF Row, Status
<1>3. PipeOK(C, H, [p EXCEPT !.pc = "attached", !.cur = None, !.new = r])
  BY <1>1, <1>2, Revised DEF Carrying
<1> QED
  BY <1>3, PipeParts DEF Pipe

LEMMA PutAttachOK ==
  ASSUME Inv, NEW s \in Services, PutAttach(s), Noted
  PROVE  Preserved
<1> DEFINE p == pipe[s]
           g == p.new.host
           H == [p.cur EXCEPT !.cert = p.cert]
<1>1. PipeOK(certs, hosts, p) /\ p.pc = "putattach"
  BY PipeHere DEF PutAttach
<1>2. /\ p \in Pipe /\ p.new \in Row /\ g \in HostIds /\ p.cur \in Host
      /\ p.cert \in CertIds /\ Knows(hosts, g, p.cur.names)
  BY <1>1, PipeParts, RowParts DEF PipeOK, PipeFits, Carrying
<1>3. H \in Host /\ H.names = p.cur.names
  BY <1>2 DEF Host
<1>4. PICK a \in Outcomes \ {"failed"} :
        /\ IsHost(g)
        /\ hosts' = [hosts EXCEPT ![g] = H]
        /\ Go(s, IF a = "done"
                   THEN [p EXCEPT !.pc = "attached", !.cur = None,
                                  !.new = [@ EXCEPT !.cert = p.cert, !.ssl = "ok"]]
                   ELSE CertFailed(p))
  BY DEF PutAttach
<1> HIDE DEF H
<1>5. hosts' \in [HostIds -> Host \cup {Unused, Gone}] /\ HostsKept
  BY <1>2, <1>3, <1>4, WriteKeeps
<1>6. UNCHANGED <<rows, zone, certs, made>>
  BY DEF PutAttach
<1>7. StoreOK'
  BY <1>5, <1>6, NotedOK DEF Inv, StoreOK
<1>8. PipeOK(certs', hosts', p)
  BY <1>1, <1>5, <1>6, SameCerts, PipeKept
<1>9. PICK q : /\ q \in {[p EXCEPT !.pc = "attached", !.cur = None,
                                   !.new = [@ EXCEPT !.cert = p.cert, !.ssl = "ok"]],
                         CertFailed(p)}
               /\ Go(s, q)
  BY <1>4
<1>10. PipeOK(certs', hosts', q)
  <2>1. PipeOK(certs', hosts', [p EXCEPT !.pc = "attached", !.cur = None,
                                        !.new = [@ EXCEPT !.cert = p.cert, !.ssl = "ok"]])
    BY <1>1, <1>8, AttachedFits
  <2>2. PipeOK(certs', hosts', CertFailed(p))
    BY <1>1, <1>8, CertFailedFits
  <2> QED
    BY <1>9, <2>1, <2>2
<1> QED
  BY <1>5, <1>6, <1>7, <1>9, <1>10, SameCerts, PipeMove DEF Noted

LEMMA CertCallFailsOK ==
  ASSUME Inv, NEW s \in Services, CertCallFails(s), Noted
  PROVE  Preserved
  BY PipeHere, CertFailedFits, QuietMove DEF CertCallFails

LEMMA TaskOK ==
  ASSUME Inv, NEW s \in Services, Task(s)
  PROVE  Preserved
<1>1. PipeStep(s) /\ Noted
  BY DEF Task, Noted
<1> QED
  BY <1>1, RowGoneOK, BeginOK, LoadDnsOK, EnsureRecordOK, SaveStepOK, LoadProxyOK, GetProxyOK,
     PutProxyOK, FindProxyOK, CreateProxyOK, ProxyCallFailsOK, LoadCertOK, FinishOK, LeaveOK,
     FindCertOK, IssueCertOK, IssueFailsOK, SaveCertOK, GetAttachOK, PutAttachOK, CertCallFailsOK
  DEF PipeStep

-----------------------------------------------------------------------------
(* The handlers.                                                           *)

(* What is known of a handler's memory.                                    *)
LEMMA JobParts ==
  ASSUME NEW C, NEW H, NEW j, JobOK(C, H, j)
  PROVE  /\ j \in Job /\ j.pc \in JobPcs /\ j.s \in Services \cup {None}
         /\ j.old \in Row \cup {None} /\ j.new \in Row \cup {None}
         /\ j.cur \in Host \cup {None} /\ j.force \in BOOLEAN /\ j.errors \in BOOLEAN
  BY DEF JobOK, JobFits, Job

LEMMA JobHere ==
  ASSUME Inv, NEW h \in Clients
  PROVE  JobOK(certs, hosts, job[h])
  BY DEF Inv

LEMMA PipesKept ==
  ASSUME Inv, CertsKept, HostsKept, UNCHANGED pipe
  PROVE  /\ pipe' \in [Services -> Pipe]
         /\ \A t \in Services : PipeOK(certs', hosts', pipe'[t])
  BY PipeKept DEF Inv

LEMMA RowsKept ==
  ASSUME Inv, CertsKept, UNCHANGED rows
  PROVE  \A t \in Services : RowOK(certs', rows'[t])
  BY RowKept DEF Inv

(* A handler that calls, reads or answers, and leaves the rows alone.      *)
LEMMA CallMove ==
  ASSUME Inv, StoreOK', CertsKept, HostsKept, UNCHANGED <<rows, pipe>>,
         NEW h \in Clients, NEW j, Put(h, j), JobOK(certs', hosts', j)
  PROVE  Preserved
  BY PipesKept, RowsKept, JobMove

LEMMA ReadMove ==
  ASSUME Inv, UNCHANGED <<rows, remote, pipe, seen>>,
         requests' \in 0..MaxRequests, faults' \in 0..MaxFaults,
         NEW h \in Clients, NEW j, Put(h, j), JobOK(certs, hosts, j)
  PROVE  Preserved
<1>1. UNCHANGED <<rows, zone, hosts, certs, made, pipe, left, strayed, trouble>>
  BY DEF remote, seen
<1>2. StoreOK'
  BY <1>1 DEF Inv, StoreOK
<1>3. CertsKept /\ HostsKept
  BY <1>1, SameWorld
<1> QED
  BY <1>1, <1>2, <1>3, CallMove

(* The rows change, and a run of the pipeline may be asked for.            *)
LEMMA StartMove ==
  ASSUME Inv, UNCHANGED remote, StoreOK',
         \A t \in Services : RowOK(certs, rows'[t]),
         NEW h \in Clients, NEW s \in Services, StartRun(h, s)
  PROVE  Preserved
<1>1. UNCHANGED <<zone, hosts, certs, made>>
  BY DEF remote
<1>2. CertsKept /\ HostsKept
  BY <1>1, SameWorld
<1>3. JobOK(certs', hosts', [IdleJob EXCEPT !.pc = "answer", !.s = s])
  BY AnswerFits
<1>4. /\ pipe' \in [Services -> Pipe]
      /\ \A t \in Services : PipeOK(certs', hosts', pipe'[t])
  <2>1. CASE At(s, "off")
    <3>1. pipe' = [pipe EXCEPT ![s] = [OffPipe EXCEPT !.pc = "queued"]]
      BY <2>1 DEF StartRun, RequestRun, Go
    <3>2. PipeOK(certs', hosts', [OffPipe EXCEPT !.pc = "queued"])
      BY OffFits
    <3>3. [OffPipe EXCEPT !.pc = "queued"] \in Pipe
      BY <3>2 DEF PipeOK, PipeFits
    <3> QED
      BY <1>2, <3>1, <3>2, <3>3, PipeKept DEF Inv
  <2>2. CASE ~At(s, "off")
    BY <1>2, <2>2, PipesKept DEF StartRun, RequestRun
  <2> QED
    BY <2>1, <2>2
<1> QED
  BY <1>1, <1>2, <1>3, <1>4, JobMove DEF StartRun

LEMMA NextRequest ==
  ASSUME Inv, NEW h \in Clients, Request(h)
  PROVE  requests' \in 0..MaxRequests /\ faults' \in 0..MaxFaults
  BY BoundsOK DEF Inv, StoreOK, Request

LEMMA CountsStay ==
  ASSUME Inv, UNCHANGED bounds
  PROVE  requests' \in 0..MaxRequests /\ faults' \in 0..MaxFaults
  BY DEF Inv, StoreOK, bounds

LEMMA AnsweredOK ==
  ASSUME Inv, NEW h \in Clients, Answered(h)
  PROVE  Preserved
  BY IdleFits, ReadMove, CountsStay DEF Answered, Answer

LEMMA NewRowOK ==
  ASSUME NEW n \in Names, NEW o \in Forms
  PROVE  NewRow(n, o) \in Row /\ NewRow(n, o).cert = None /\ NewRow(n, o).state = "pending"
  BY FormsOK DEF NewRow, Row, Status

LEMMA BlankRowOK ==
  ASSUME NEW n \in Names
  PROVE  /\ NewRow(n, [type |-> None, target |-> None]) \in Row
         /\ NewRow(n, [type |-> None, target |-> None]).cert = None
         /\ NewRow(n, [type |-> None, target |-> None]).state = "pending"
  BY DEF NewRow, Row, Status

LEMMA CreateOK ==
  ASSUME Inv, NEW h \in Clients, NEW s \in Services, NEW n \in Names,
         NEW o \in ValidOverrides, Create(h, s, n, o)
  PROVE  Preserved
<1>1. NewRow(n, o) \in Row /\ Own(certs, NewRow(n, o).cert)
  BY NewRowOK DEF ValidOverrides, Own
<1>2. rows' = [rows EXCEPT ![s] = NewRow(n, o)] /\ UNCHANGED <<remote, seen>> /\ StartRun(h, s)
  BY DEF Create
<1>3. /\ rows' \in [Services -> Row \cup {None}]
      /\ \A t \in Services : RowOK(certs, rows'[t])
  BY <1>1, <1>2 DEF Inv, StoreOK, RowOK
<1>4. requests' \in 0..MaxRequests /\ faults' \in 0..MaxFaults
  BY NextRequest DEF Create
<1>5. StoreOK'
  BY <1>2, <1>3, <1>4 DEF Inv, StoreOK, remote, seen
<1> QED
  BY <1>2, <1>3, <1>5, StartMove

LEMMA RetryOK ==
  ASSUME Inv, NEW h \in Clients, NEW s \in Services, Retry(h, s)
  PROVE  Preserved
<1>1. UNCHANGED <<rows, remote, seen>> /\ StartRun(h, s)
  BY DEF Retry
<1>2. requests' \in 0..MaxRequests /\ faults' \in 0..MaxFaults
  BY NextRequest DEF Retry
<1>3. StoreOK'
  BY <1>1, <1>2 DEF Inv, StoreOK, remote, seen
<1>4. \A t \in Services : RowOK(certs, rows'[t])
  BY <1>1 DEF Inv
<1> QED
  BY <1>1, <1>3, <1>4, StartMove

(* A host to import is remembered by its id, then with what was read.      *)
LEMMA ImportFits ==
  ASSUME NEW C, NEW H, NEW r \in Row, r.host # None, r.cert = None, r.state = "pending",
         NEW pc \in {"gethost", "insert"}
  PROVE  JobOK(C, H, [IdleJob EXCEPT !.pc = pc, !.new = r])
<1> DEFINE j == [IdleJob EXCEPT !.pc = pc, !.new = r]
<1>1. j \in Job /\ j.pc = pc /\ j.new = r /\ j.old = None /\ j.cur = None
  BY DEF Job, JobPcs, IdleJob
<1>2. r # None
  BY SpecialValues
<1> QED
  BY <1>1, <1>2 DEF JobOK, JobFits, Editing, Deleting, Own

LEMMA ImportOK ==
  ASSUME Inv, NEW h \in Clients, NEW g \in HostIds, Import(h, g)
  PROVE  Preserved
<1> DEFINE n == CHOOSE n \in Names : TRUE
           b == NewRow(n, [type |-> None, target |-> None])
           r == [b EXCEPT !.host = g]
<1>1. n \in Names
  BY PlanOK
<1>2. b \in Row /\ b.cert = None /\ b.state = "pending"
  BY <1>1, BlankRowOK
<1> HIDE DEF b
<1>3. r \in Row /\ r.cert = None /\ r.state = "pending" /\ r.host = g /\ g # None
  BY <1>2, SpecialValues DEF Row
<1>4. Put(h, [IdleJob EXCEPT !.pc = "gethost", !.new = r])
  BY DEF Import, b
<1> HIDE DEF r
<1>5. JobOK(certs, hosts, [IdleJob EXCEPT !.pc = "gethost", !.new = r])
  BY <1>3, ImportFits
<1>6. requests' \in 0..MaxRequests /\ faults' \in 0..MaxFaults
  BY NextRequest DEF Import
<1> QED
  BY <1>4, <1>5, <1>6, ReadMove DEF Import

(* The parts of a handler that imports stay as it set out.                 *)
LEMMA Remember ==
  ASSUME NEW C, NEW H, NEW j, JobOK(C, H, j), j.pc = "gethost",
         NEW r \in Row, r.host # None, r.cert = None, r.state = "pending"
  PROVE  JobOK(C, H, [j EXCEPT !.pc = "insert", !.new = r])
<1> DEFINE k == [j EXCEPT !.pc = "insert", !.new = r]
<1>1. k \in Job /\ k.pc = "insert" /\ k.new = r /\ k.old = j.old
  BY DEF JobOK, JobFits, Job, JobPcs
<1>2. r # None
  BY SpecialValues
<1> QED
  BY <1>1, <1>2 DEF JobOK, JobFits, Editing, Deleting, Own

LEMMA ImportReadOK ==
  ASSUME Inv, NEW h \in Clients, ImportRead(h)
  PROVE  Preserved
<1> DEFINE g == job[h].new.host
<1>1. JobOK(certs, hosts, job[h]) /\ job[h].pc = "gethost"
  BY JobHere DEF ImportRead
<1>2. g \in HostIds
  BY <1>1, JobParts, RowParts DEF JobOK, JobFits
<1>3. requests' \in 0..MaxRequests /\ faults' \in 0..MaxFaults
  BY CountsStay DEF ImportRead
<1>4. CASE Answer(h)
  BY <1>3, <1>4, IdleFits, ReadMove DEF ImportRead, Answer
<1>5. ASSUME NEW n \in Names, Put(h, [job[h] EXCEPT !.pc = "insert", !.new = ImportedRow(n, g)])
      PROVE  Preserved
  <2> DEFINE b == NewRow(n, [type |-> None, target |-> None])
  <2>1. b \in Row /\ b.cert = None /\ b.state = "pending"
    BY BlankRowOK
  <2>2. /\ ImportedRow(n, g) \in Row /\ ImportedRow(n, g).cert = None
        /\ ImportedRow(n, g).host = g /\ ImportedRow(n, g).state = "pending"
    <3> HIDE DEF b
    <3>1. ImportedRow(n, g) = [b EXCEPT !.host = g, !.npm = "ok", !.dns = "ok",
                                 !.ssl = IF hosts[g].cert # None THEN "ok" ELSE "pending"]
      BY DEF ImportedRow, b
    <3> QED
      BY <1>2, <2>1, <3>1 DEF Row, Status
  <2>3. g # None
    BY <1>2, SpecialValues
  <2>4. JobOK(certs, hosts, [job[h] EXCEPT !.pc = "insert", !.new = ImportedRow(n, g)])
    BY <1>1, <2>2, <2>3, Remember
  <2> QED
    BY <1>3, <1>5, <2>4, ReadMove DEF ImportRead
<1> QED
  BY <1>4, <1>5 DEF ImportRead

LEMMA ImportInsertOK ==
  ASSUME Inv, NEW h \in Clients, ImportInsert(h)
  PROVE  Preserved
<1>1. JobOK(certs, hosts, job[h]) /\ job[h].pc = "insert"
  BY JobHere DEF ImportInsert
<1>2. job[h].new \in Row /\ Own(certs, job[h].new.cert)
  BY <1>1, JobParts DEF JobOK, JobFits
<1>3. PICK s \in Services : rows' = [rows EXCEPT ![s] = job[h].new] /\ StartRun(h, s)
  BY DEF ImportInsert
<1>4. /\ rows' \in [Services -> Row \cup {None}]
      /\ \A t \in Services : RowOK(certs, rows'[t])
  BY <1>2, <1>3 DEF Inv, StoreOK, RowOK
<1>5. requests' \in 0..MaxRequests /\ faults' \in 0..MaxFaults
  BY CountsStay DEF ImportInsert
<1>6. trouble' \in BOOLEAN /\ UNCHANGED <<remote, left, strayed>>
  BY DEF ImportInsert, Sharing
<1>7. StoreOK'
  BY <1>4, <1>5, <1>6 DEF Inv, StoreOK, remote
<1> QED
  BY <1>3, <1>4, <1>6, <1>7, StartMove

-----------------------------------------------------------------------------
(* A handler's row keeps its type through an edit, and its certificate.    *)
LEMMA EditedOK ==
  ASSUME NEW row \in Row, NEW n \in Names, NEW o \in ValidOverrides \cup {None}
  PROVE  /\ Edited(row, n, o) \in Row
         /\ Edited(row, n, o).cert = row.cert /\ Edited(row, n, o).host = row.host
         /\ Edited(row, n, o).state = "pending"
<1>1. o # None => o.type \in Types \cup {None} /\ o.target \in Targets \cup {None}
  BY FormsOK DEF ValidOverrides
<1> QED
  BY <1>1 DEF Edited, Row, Status

LEMMA SaveEditOK ==
  ASSUME Inv, UNCHANGED <<remote, seen>>,
         requests' \in 0..MaxRequests, faults' \in 0..MaxFaults,
         NEW h \in Clients, NEW s \in Services, rows[s] # None,
         NEW old \in Row, NEW new \in Row, Own(certs, new.cert), SaveEdit(h, s, old, new)
  PROVE  Preserved
<1>1. /\ rows' \in [Services -> Row \cup {None}]
      /\ \A t \in Services : RowOK(certs, rows'[t])
  BY CommitOK DEF SaveEdit, Inv
<1>2. StoreOK'
  BY <1>1 DEF Inv, StoreOK, remote, seen
<1> QED
  BY <1>1, <1>2, StartMove DEF SaveEdit

(* A handler that sets out to change or delete a row.                      *)
LEMMA SetOut ==
  ASSUME NEW C, NEW H, NEW j \in Job, j.s \in Services, j.old \in Row, Own(C, j.old.cert),
         j.new # None => Own(C, j.new.cert) /\ j.new.state = "pending",
         j.pc \in {"getnames", "unrecord", "save", "delhost", "delrecord", "drop"},
         j.pc \in Editing => j.new # None, j.pc \in {"getnames", "delhost"} => j.old.host # None
  PROVE  JobOK(C, H, j)
<1>1. j.s # None /\ j.old # None
  BY SpecialValues
<1> QED
  BY <1>1 DEF JobOK, JobFits, Editing, Deleting

LEMMA EditOK ==
  ASSUME Inv, NEW h \in Clients, NEW s \in Services, NEW n \in Names,
         NEW o \in ValidOverrides \cup {None}, Edit(h, s, n, o)
  PROVE  Preserved
<1> DEFINE pc == EditPc(rows[s], n, o)
           new == Edited(rows[s], n, o)
<1>1. rows[s] \in Row /\ Own(certs, rows[s].cert) /\ rows[s] # None
  BY RowHere DEF Edit
<1>2. new \in Row /\ Own(certs, new.cert) /\ new.state = "pending" /\ new # None
  BY <1>1, EditedOK, SpecialValues
<1>3. requests' \in 0..MaxRequests /\ faults' \in 0..MaxFaults
  BY NextRequest DEF Edit
<1>4. UNCHANGED <<remote, seen>>
  BY DEF Edit
<1>5. pc \in {"getnames", "unrecord", "save"} /\ (pc = "getnames" => rows[s].host # None)
  BY DEF EditPc, AfterHost
<1>6. IF pc = "save" THEN SaveEdit(h, s, rows[s], new)
      ELSE /\ Put(h, [IdleJob EXCEPT !.pc = pc, !.s = s, !.old = rows[s], !.new = new])
           /\ UNCHANGED <<rows, pipe>>
  BY DEF Edit
<1> HIDE DEF new, pc
<1>7. CASE pc = "save"
  BY <1>1, <1>2, <1>3, <1>4, <1>6, <1>7, SaveEditOK
<1>8. CASE pc # "save"
  <2> DEFINE j == [IdleJob EXCEPT !.pc = pc, !.s = s, !.old = rows[s], !.new = new]
  <2>1. j \in Job /\ j.pc = pc /\ j.s = s /\ j.old = rows[s] /\ j.new = new
    BY <1>1, <1>2, <1>5 DEF Job, JobPcs, IdleJob
  <2> HIDE DEF j
  <2>2. JobOK(certs, hosts, j)
    BY <1>1, <1>2, <1>5, <1>8, <2>1, SetOut DEF Editing
  <2> QED
    BY <1>3, <1>4, <1>6, <1>8, <2>2, ReadMove DEF j
<1> QED
  BY <1>7, <1>8

LEMMA EditingParts ==
  ASSUME NEW C, NEW H, NEW j, JobOK(C, H, j), j.pc \in Editing
  PROVE  /\ j \in Job /\ j.s \in Services /\ j.old \in Row /\ j.new \in Row
         /\ j.old.name \in Names /\ j.new.name \in Names
         /\ j.old.host \in HostIds \cup {None} /\ j.old.cert \in CertIds \cup {None}
         /\ Own(C, j.old.cert) /\ Own(C, j.new.cert) /\ j.new.state = "pending"
  BY JobParts, RowParts DEF JobOK, JobFits

(* A handler that goes on to a later point of the edit.                    *)
LEMMA EditOn ==
  ASSUME NEW C, NEW H, NEW j, JobOK(C, H, j), j.pc \in Editing,
         NEW cur \in Host \cup {None},
         NEW pc \in {"getcert", "putnames", "dropcert", "unrecord", "save"},
         pc \in {"getcert", "putnames"} =>
           /\ j.old.host # None /\ cur # None
           /\ Knows(H, j.old.host, cur.names),
         pc = "dropcert" => j.old.cert # None
  PROVE  JobOK(C, H, [j EXCEPT !.pc = pc, !.cur = cur])
<1> DEFINE k == [j EXCEPT !.pc = pc, !.cur = cur]
<1>1. j \in Job
  BY JobParts
<1>2. k \in Job /\ k.pc = pc /\ k.s = j.s /\ k.old = j.old /\ k.new = j.new /\ k.cur = cur
  BY <1>1 DEF Job, JobPcs
<1> HIDE DEF k
<1>3. JobOK(C, H, k)
  BY <1>2 DEF JobOK, JobFits, Editing, Deleting
<1> QED
  BY <1>3 DEF k

LEMMA AfterHostIs ==
  ASSUME NEW row
  PROVE  AfterHost(row) \in {"unrecord", "save"}
  BY DEF AfterHost

(* A rename takes the name of one service for that of another.             *)
LEMMA RenamedKnows ==
  ASSUME NEW H, NEW g, NEW N, Knows(H, g, N), NEW a \in Names, NEW b \in Names
  PROVE  Knows(H, g, Renamed(N, a, b))
  BY SpecialValues DEF Knows, Renamed

LEMMA GetNamesOK ==
  ASSUME Inv, NEW h \in Clients, GetNames(h)
  PROVE  Preserved
<1> DEFINE j == job[h]
           g == j.old.host
           cur == [names |-> Renamed(hosts[g].names, j.old.name, j.new.name), cert |-> None]
<1>1. JobOK(certs, hosts, j) /\ j.pc = "getnames" /\ IsHost(g)
  BY JobHere DEF GetNames
<1>2. g \in HostIds /\ g # None /\ j.old.name \in Names /\ j.new.name \in Names
  BY <1>1, EditingParts DEF JobOK, JobFits, Editing
<1>3. hosts[g] \in Host /\ Knows(hosts, g, hosts[g].names)
  BY <1>1, <1>2, ReadKnows
<1>4. cur \in Host
  BY <1>2, <1>3 DEF Host, HostNames, Renamed
<1>5. Knows(hosts, g, cur.names)
  BY <1>2, <1>3, RenamedKnows
<1>6. Put(h, [j EXCEPT !.pc = "getcert", !.cur = cur])
  BY DEF GetNames
<1> HIDE DEF cur
<1>7. cur # None
  BY <1>4, SpecialValues
<1>8. JobOK(certs, hosts, [j EXCEPT !.pc = "getcert", !.cur = cur])
  BY <1>1, <1>2, <1>4, <1>5, <1>7, EditOn DEF Editing
<1> QED
  BY <1>6, <1>8, CountsStay, ReadMove DEF GetNames

LEMMA GetCertOK ==
  ASSUME Inv, NEW h \in Clients, GetCert(h)
  PROVE  Preserved
<1> DEFINE j == job[h]
           g == j.old.host
           c == IF j.old.cert # None THEN None ELSE hosts[g].cert
           cur == [j.cur EXCEPT !.cert = c]
<1>1. JobOK(certs, hosts, j) /\ j.pc = "getcert" /\ IsHost(g)
  BY JobHere DEF GetCert
<1>2. /\ j \in Job /\ g \in HostIds /\ g # None /\ j.cur \in Host
      /\ Knows(hosts, g, j.cur.names)
  BY <1>1, JobParts, EditingParts DEF JobOK, JobFits, Editing
<1>3. c \in CertIds \cup {None}
  BY <1>1, <1>2, ReadKnows DEF Host
<1>4. Put(h, [j EXCEPT !.pc = "putnames", !.cur.cert = c])
  BY DEF GetCert
<1> HIDE DEF c
<1>5. cur \in Host /\ cur.names = j.cur.names
  BY <1>2, <1>3 DEF Host
<1>6. Put(h, [j EXCEPT !.pc = "putnames", !.cur = cur])
  BY <1>2, <1>4 DEF Put, Job
<1> HIDE DEF cur
<1>7. cur # None
  BY <1>5, SpecialValues
<1>8. JobOK(certs, hosts, [j EXCEPT !.pc = "putnames", !.cur = cur])
  BY <1>1, <1>2, <1>5, <1>7, EditOn DEF Editing
<1> QED
  BY <1>6, <1>8, CountsStay, ReadMove DEF GetCert

LEMMA GoneOnFits ==
  ASSUME NEW C, NEW H, NEW j, JobOK(C, H, j), j.pc \in Editing
  PROVE  JobOK(C, H, [j EXCEPT !.pc = AfterHost(j.old), !.cur = None])
  BY EditOn, AfterHostIs

LEMMA RenameFailsOK ==
  ASSUME Inv, NEW h \in Clients, RenameFails(h)
  PROVE  Preserved
<1> DEFINE j == job[h]
<1>1. JobOK(certs, hosts, j) /\ j.pc \in Editing
  BY JobHere DEF RenameFails, Editing
<1>2. Put(h, [j EXCEPT !.pc = AfterHost(j.old), !.cur = None])
  BY DEF RenameFails, HostWarning
<1>3. JobOK(certs, hosts, [j EXCEPT !.pc = AfterHost(j.old), !.cur = None])
  BY <1>1, GoneOnFits
<1>4. /\ UNCHANGED <<rows, zone, hosts, certs, made, pipe, left>>
      /\ trouble' = TRUE /\ strayed' = strayed \cup ({j.old.cert} \ {None})
  BY DEF RenameFails, HostWarning, remote
<1>5. j.old.cert \in CertIds \cup {None}
  BY <1>1, EditingParts
<1>6. StoreOK'
  <2>1. requests' \in 0..MaxRequests /\ faults' \in 0..MaxFaults
    BY CountsStay DEF RenameFails
  <2> QED
    BY <1>4, <1>5, <2>1 DEF Inv, StoreOK
<1>7. CertsKept /\ HostsKept
  BY <1>4, SameWorld
<1>8. JobOK(certs', hosts', [j EXCEPT !.pc = AfterHost(j.old), !.cur = None])
  BY <1>3, <1>4
<1> QED
  BY <1>2, <1>4, <1>6, <1>7, <1>8, CallMove

LEMMA PutNamesOK ==
  ASSUME Inv, NEW h \in Clients, PutNames(h)
  PROVE  Preserved
<1> DEFINE j == job[h]
           g == j.old.host
           pc == IF j.old.cert # None THEN "dropcert" ELSE AfterHost(j.old)
<1>1. JobOK(certs, hosts, j) /\ j.pc = "putnames" /\ j.pc \in Editing /\ IsHost(g)
  BY JobHere DEF PutNames, Editing
<1>2. /\ j \in Job /\ g \in HostIds /\ j.cur \in Host /\ Knows(hosts, g, j.cur.names)
      /\ j.old.cert \in CertIds \cup {None}
  BY <1>1, JobParts, EditingParts DEF JobOK, JobFits
<1>3. UNCHANGED <<rows, zone, certs, made, pipe, left, bounds>>
      /\ hosts' = [hosts EXCEPT ![g] = j.cur]
  BY DEF PutNames
<1>4. hosts' \in [HostIds -> Host \cup {Unused, Gone}] /\ HostsKept
  BY <1>1, <1>2, <1>3, WriteKeeps
<1>5. trouble' \in BOOLEAN /\ strayed' \subseteq strayed \cup ({j.old.cert} \ {None})
  BY DEF PutNames, HostWarning, Inv, StoreOK
<1>6. StoreOK'
  <2>1. requests' \in 0..MaxRequests /\ faults' \in 0..MaxFaults
    BY <1>3, CountsStay
  <2>2. {j.old.cert} \ {None} \subseteq CertIds
    BY <1>2
  <2> QED
    BY <1>3, <1>4, <1>5, <2>1, <2>2 DEF Inv, StoreOK
<1>7. CertsKept
  BY <1>3, SameCerts
<1>8. JobOK(certs', hosts', j)
  BY <1>1, <1>4, <1>7, JobKept
<1>9. PICK q \in {pc, AfterHost(j.old)} : Put(h, [j EXCEPT !.pc = q, !.cur = None])
  BY DEF PutNames, HostWarning
<1>10. JobOK(certs', hosts', [j EXCEPT !.pc = q, !.cur = None])
  <2>1. q \in {"dropcert", "unrecord", "save"} /\ (q = "dropcert" => j.old.cert # None)
    BY <1>9, AfterHostIs
  <2> QED
    BY <1>1, <1>8, <2>1, EditOn
<1> QED
  BY <1>3, <1>4, <1>6, <1>7, <1>9, <1>10, CallMove

LEMMA WithoutCert ==
  ASSUME NEW C, NEW H, NEW j, JobOK(C, H, j), j.pc = "dropcert"
  PROVE  JobOK(C, H, [j EXCEPT !.pc = AfterHost(j.old), !.new.cert = None])
<1> DEFINE r == [j.new EXCEPT !.cert = None]
           k == [j EXCEPT !.pc = AfterHost(j.old), !.new = r]
<1>1. /\ j \in Job /\ j.new \in Row /\ j.s \in Services /\ j.old \in Row
      /\ Own(C, j.old.cert) /\ j.new.state = "pending"
  BY EditingParts DEF Editing
<1>2. r \in Row /\ r.cert = None /\ r.state = "pending"
  BY <1>1 DEF Row
<1> HIDE DEF r
<1>3. k \in Job /\ k.pc = AfterHost(j.old) /\ k.s = j.s /\ k.old = j.old /\ k.new = r
  BY <1>1, <1>2, AfterHostIs DEF Job, JobPcs
<1>4. r # None
  BY <1>2, SpecialValues
<1> HIDE DEF k
<1>5. JobOK(C, H, k)
  BY <1>1, <1>2, <1>3, <1>4, AfterHostIs, SetOut DEF Own
<1>6. k = [j EXCEPT !.pc = AfterHost(j.old), !.new.cert = None]
  BY DEF k, r
<1> QED
  BY <1>5, <1>6

(* A certificate that is one's own lists a name of a service.              *)
LEMMA RemovalKeeps ==
  ASSUME Inv, NEW c \in CertIds, Own(certs, c), NEW a, RemoveCert(c, a)
  PROVE  /\ certs' \in [CertIds -> {Unused, Gone} \cup SUBSET CertNames] /\ CertsKept
         /\ trouble' \in BOOLEAN
<1>1. c # None /\ Gone \notin Unlisted
  BY SpecialValues DEF CertNames, Unlisted
<1>2. trouble' \in BOOLEAN
  BY DEF Inv, StoreOK, RemoveCert, Carried
<1>3. certs' = certs \/ certs' = [certs EXCEPT ![c] = Gone]
  BY DEF RemoveCert
<1>4. certs \in [CertIds -> {Unused, Gone} \cup SUBSET CertNames] /\ certs[c] \notin Unlisted
  BY <1>1 DEF Inv, StoreOK, Own
<1> QED
  BY <1>1, <1>2, <1>3, <1>4 DEF CertsKept

LEMMA DropCertOK ==
  ASSUME Inv, NEW h \in Clients, DropCert(h)
  PROVE  Preserved
<1> DEFINE j == job[h]
<1>1. JobOK(certs, hosts, j) /\ j.pc = "dropcert"
  BY JobHere DEF DropCert
<1>2. j.old.cert \in CertIds /\ Own(certs, j.old.cert)
  BY <1>1, EditingParts DEF JobOK, JobFits, Editing
<1>3. PICK a \in Outcomes : RemoveCert(j.old.cert, a) /\ left' = Reported({j.old.cert}, a)
  BY DEF DropCert
<1>4. /\ certs' \in [CertIds -> {Unused, Gone} \cup SUBSET CertNames] /\ CertsKept
      /\ trouble' \in BOOLEAN
  BY <1>2, <1>3, RemovalKeeps
<1>5. UNCHANGED <<rows, zone, hosts, made, pipe, strayed>>
  BY DEF DropCert
<1>6. StoreOK'
  <2>1. requests' \in 0..MaxRequests /\ faults' \in 0..MaxFaults
    BY CountsStay DEF DropCert
  <2> QED
    BY <1>2, <1>3, <1>4, <1>5, <2>1 DEF Inv, StoreOK, Reported
<1>7. HostsKept
  BY <1>5 DEF HostsKept
<1>8. JobOK(certs', hosts', j)
  BY <1>1, <1>4, <1>7, JobKept
<1>9. JobOK(certs', hosts', [j EXCEPT !.pc = AfterHost(j.old), !.new.cert = None])
  BY <1>1, <1>8, WithoutCert
<1>10. Put(h, [j EXCEPT !.pc = AfterHost(j.old), !.new.cert = None])
  BY DEF DropCert
<1> QED
  BY <1>4, <1>5, <1>6, <1>7, <1>9, <1>10, CallMove

LEMMA RecordRemoved ==
  ASSUME Inv, NEW row, NEW a, RemoveRecord(row, a)
  PROVE  zone' \subseteq Records /\ left' \subseteq Records \cup HostIds \cup CertIds
  BY DEF Inv, StoreOK, RemoveRecord, Matching, Reported

LEMMA UnrecordOK ==
  ASSUME Inv, NEW h \in Clients, Unrecord(h)
  PROVE  Preserved
<1> DEFINE j == job[h]
<1>1. JobOK(certs, hosts, j) /\ j.pc = "unrecord"
  BY JobHere DEF Unrecord
<1>2. zone' \subseteq Records /\ left' \subseteq Records \cup HostIds \cup CertIds
  BY RecordRemoved DEF Unrecord
<1>3. UNCHANGED <<rows, hosts, certs, made, pipe, strayed, trouble>>
  BY DEF Unrecord
<1>4. StoreOK'
  <2>1. requests' \in 0..MaxRequests /\ faults' \in 0..MaxFaults
    BY CountsStay DEF Unrecord
  <2> QED
    BY <1>2, <1>3, <2>1 DEF Inv, StoreOK
<1>5. CertsKept /\ HostsKept
  BY <1>3, SameWorld
<1>6. JobOK(certs', hosts', [j EXCEPT !.pc = "save"])
  <2>1. /\ j \in Job /\ j.s \in Services /\ j.old \in Row /\ j.new \in Row /\ j.new # None
        /\ Own(certs, j.old.cert) /\ Own(certs, j.new.cert) /\ j.new.state = "pending"
    BY <1>1, EditingParts, SpecialValues DEF Editing
  <2> DEFINE k == [j EXCEPT !.pc = "save"]
  <2>2. k \in Job /\ k.pc = "save" /\ k.s = j.s /\ k.old = j.old /\ k.new = j.new
    BY <2>1 DEF Job, JobPcs
  <2> HIDE DEF k
  <2>3. JobOK(certs', hosts', k)
    BY <1>3, <2>1, <2>2, SetOut
  <2> QED
    BY <2>3 DEF k
<1> QED
  BY <1>3, <1>4, <1>5, <1>6, CallMove DEF Unrecord, Step

LEMMA SaveJobOK ==
  ASSUME Inv, NEW h \in Clients, SaveJob(h)
  PROVE  Preserved
<1> DEFINE j == job[h]
<1>1. JobOK(certs, hosts, j) /\ j.pc = "save" /\ UNCHANGED <<remote, seen>>
  BY JobHere DEF SaveJob
<1>2. j.s \in Services /\ j.old \in Row /\ j.new \in Row /\ Own(certs, j.new.cert)
  BY <1>1, EditingParts DEF Editing
<1>3. requests' \in 0..MaxRequests /\ faults' \in 0..MaxFaults
  BY CountsStay DEF SaveJob
<1>4. CASE rows[j.s] # None /\ SaveEdit(h, j.s, j.old, j.new)
  BY <1>1, <1>2, <1>3, <1>4, SaveEditOK
<1>5. CASE Answer(h) /\ UNCHANGED <<rows, pipe>>
  BY <1>1, <1>3, <1>5, IdleFits, ReadMove DEF Answer
<1> QED
  BY <1>4, <1>5 DEF SaveJob

-----------------------------------------------------------------------------
LEMMA DropOK ==
  ASSUME Inv, NEW s \in Services, Drop(s), NEW C, \A t \in Services : RowOK(C, rows[t])
  PROVE  rows' \in [Services -> Row \cup {None}] /\ \A t \in Services : RowOK(C, rows'[t])
  BY DEF Inv, StoreOK, Drop, RowOK

LEMMA OwnedApart ==
  ASSUME NEW r \in Row
  PROVE  Owned(r) \subseteq Records \cup HostIds \cup CertIds
  BY RowParts DEF Owned

LEMMA UnlinkOK ==
  ASSUME Inv, NEW h \in Clients, NEW s \in Services, Unlink(h, s)
  PROVE  Preserved
<1>1. rows[s] \in Row
  BY RowHere DEF Unlink
<1>2. /\ UNCHANGED <<zone, hosts, certs, made, pipe, job, strayed, trouble>>
      /\ left' = left \cup Owned(rows[s]) /\ Drop(s)
  BY DEF Unlink, remote
<1>3. requests' \in 0..MaxRequests /\ faults' \in 0..MaxFaults
  BY NextRequest DEF Unlink
<1>4. /\ rows' \in [Services -> Row \cup {None}]
      /\ \A t \in Services : RowOK(certs, rows'[t])
  BY <1>2, DropOK DEF Inv
<1> QED
  BY <1>1, <1>2, <1>3, <1>4, OwnedApart, SameWorld DEF Inv, StoreOK, Preserved

LEMMA DeleteOK ==
  ASSUME Inv, NEW h \in Clients, NEW s \in Services, NEW force \in BOOLEAN, Delete(h, s, force)
  PROVE  Preserved
<1> DEFINE pc == DeletePc(rows[s])
           j == [IdleJob EXCEPT !.pc = pc, !.s = s, !.old = rows[s], !.force = force]
<1>1. rows[s] \in Row /\ Own(certs, rows[s].cert)
  BY RowHere DEF Delete
<1>2. UNCHANGED <<zone, hosts, certs, made, pipe, left, strayed, trouble, remote, seen>>
  BY DEF Delete, remote, seen
<1>3. requests' \in 0..MaxRequests /\ faults' \in 0..MaxFaults
  BY NextRequest DEF Delete
<1>4. CASE Drop(s) /\ UNCHANGED job
  <2>1. /\ rows' \in [Services -> Row \cup {None}]
        /\ \A t \in Services : RowOK(certs, rows'[t])
    BY <1>4, DropOK DEF Inv
  <2> QED
    BY <1>2, <1>3, <1>4, <2>1, SameWorld DEF Inv, StoreOK, Preserved
<1>5. CASE Put(h, j) /\ UNCHANGED rows
  <2>1. pc \in {"delhost", "delrecord", "drop"} /\ (pc = "delhost" => rows[s].host # None)
    BY DEF DeletePc, RecordPc
  <2> HIDE DEF pc
  <2>2. j \in Job /\ j.pc = pc /\ j.s = s /\ j.old = rows[s] /\ j.new = None
    BY <1>1, <2>1 DEF Job, JobPcs, IdleJob
  <2> HIDE DEF j
  <2>3. JobOK(certs, hosts, j)
    BY <1>1, <2>1, <2>2, SetOut DEF Editing
  <2> QED
    BY <1>2, <1>3, <1>5, <2>3, ReadMove
<1> QED
  BY <1>4, <1>5 DEF Delete

LEMMA DeletingParts ==
  ASSUME NEW C, NEW H, NEW j, JobOK(C, H, j), j.pc \in Deleting
  PROVE  /\ j \in Job /\ j.s \in Services /\ j.old \in Row /\ j.new \in Row \cup {None}
         /\ j.old.host \in HostIds \cup {None} /\ j.old.cert \in CertIds \cup {None}
         /\ Own(C, j.old.cert) /\ (j.new # None => Own(C, j.new.cert))
  BY JobParts, RowParts DEF JobOK, JobFits

(* A deletion that goes on to its next object.                             *)
LEMMA DeleteOn ==
  ASSUME NEW C, NEW H, NEW j, JobOK(C, H, j), j.pc \in Deleting,
         NEW pc \in {"delcert", "delrecord", "drop"}, pc = "delcert" => j.old.cert # None,
         NEW a
  PROVE  JobOK(C, H, [j EXCEPT !.pc = pc, !.errors = @ \/ a # "done"])
<1> DEFINE k == [j EXCEPT !.pc = pc, !.errors = @ \/ a # "done"]
<1>1. j \in Job /\ j.s # None /\ j.old # None
  BY DeletingParts, SpecialValues
<1>2. k \in Job /\ k.pc = pc /\ k.s = j.s /\ k.old = j.old /\ k.new = j.new /\ k.cur = j.cur
  BY <1>1 DEF Job, JobPcs
<1> HIDE DEF k
<1>3. JobOK(C, H, k)
  BY <1>1, <1>2 DEF JobOK, JobFits, Editing, Deleting
<1> QED
  BY <1>3 DEF k

LEMMA RecordPcIs ==
  ASSUME NEW row
  PROVE  RecordPc(row) \in {"delrecord", "drop"}
  BY DEF RecordPc

LEMMA DeleteHostOK ==
  ASSUME Inv, NEW h \in Clients, DeleteHost(h)
  PROVE  Preserved
<1> DEFINE j == job[h]
           g == j.old.host
           pc == IF j.old.cert # None THEN "delcert" ELSE RecordPc(j.old)
<1>1. JobOK(certs, hosts, j) /\ j.pc = "delhost" /\ j.pc \in Deleting
  BY JobHere DEF DeleteHost, Deleting
<1>2. g \in HostIds
  BY <1>1, DeletingParts DEF JobOK, JobFits
<1>3. PICK a \in Outcomes :
        /\ hosts' = IF a = "failed" THEN hosts ELSE [hosts EXCEPT ![g] = Gone]
        /\ left' = Reported({g}, a)
        /\ Put(h, [j EXCEPT !.pc = pc, !.errors = @ \/ a # "done"])
  BY DEF DeleteHost, NextDeletion
<1>4. UNCHANGED <<rows, zone, certs, made, pipe, strayed, trouble>>
  BY DEF DeleteHost
<1>5. hosts' \in [HostIds -> Host \cup {Unused, Gone}] /\ HostsKept
  BY <1>2, <1>3, SpecialValues DEF HostsKept, Inv, StoreOK
<1>6. StoreOK'
  <2>1. requests' \in 0..MaxRequests /\ faults' \in 0..MaxFaults
    BY CountsStay DEF DeleteHost
  <2> QED
    BY <1>2, <1>3, <1>4, <1>5, <2>1 DEF Inv, StoreOK, Reported
<1>7. CertsKept
  BY <1>4, SameCerts
<1>8. JobOK(certs', hosts', j)
  BY <1>1, <1>5, <1>7, JobKept
<1>9. JobOK(certs', hosts', [j EXCEPT !.pc = pc, !.errors = @ \/ a # "done"])
  BY <1>1, <1>8, RecordPcIs, DeleteOn
<1> QED
  BY <1>3, <1>4, <1>5, <1>6, <1>7, <1>9, CallMove

LEMMA DeleteCertOK ==
  ASSUME Inv, NEW h \in Clients, DeleteCert(h)
  PROVE  Preserved
<1> DEFINE j == job[h]
           c == j.old.cert
<1>1. JobOK(certs, hosts, j) /\ j.pc = "delcert" /\ j.pc \in Deleting
  BY JobHere DEF DeleteCert, Deleting
<1>2. c \in CertIds /\ Own(certs, c)
  BY <1>1, DeletingParts DEF JobOK, JobFits
<1>3. PICK a \in Outcomes :
        /\ RemoveCert(c, a) /\ left' = Reported({c}, a)
        /\ Put(h, [j EXCEPT !.pc = RecordPc(j.old), !.errors = @ \/ a # "done"])
  BY DEF DeleteCert, NextDeletion
<1>4. UNCHANGED <<rows, zone, hosts, made, pipe, strayed>>
  BY DEF DeleteCert
<1>5. /\ certs' \in [CertIds -> {Unused, Gone} \cup SUBSET CertNames] /\ CertsKept
      /\ trouble' \in BOOLEAN
  BY <1>2, <1>3, RemovalKeeps
<1>6. StoreOK'
  <2>1. requests' \in 0..MaxRequests /\ faults' \in 0..MaxFaults
    BY CountsStay DEF DeleteCert
  <2> QED
    BY <1>2, <1>3, <1>4, <1>5, <2>1 DEF Inv, StoreOK, Reported
<1>7. HostsKept
  BY <1>4 DEF HostsKept
<1>8. JobOK(certs', hosts', j)
  BY <1>1, <1>5, <1>7, JobKept
<1>9. JobOK(certs', hosts', [j EXCEPT !.pc = RecordPc(j.old), !.errors = @ \/ a # "done"])
  BY <1>1, <1>8, RecordPcIs, DeleteOn
<1> QED
  BY <1>3, <1>4, <1>5, <1>6, <1>7, <1>9, CallMove

LEMMA DeleteRecordOK ==
  ASSUME Inv, NEW h \in Clients, DeleteRecord(h)
  PROVE  Preserved
<1> DEFINE j == job[h]
<1>1. JobOK(certs, hosts, j) /\ j.pc \in Deleting
  BY JobHere DEF DeleteRecord, Deleting
<1>2. PICK a \in Outcomes :
        /\ RemoveRecord(j.old, a)
        /\ Put(h, [j EXCEPT !.pc = "drop", !.errors = @ \/ a # "done"])
  BY DEF DeleteRecord, NextDeletion
<1>3. zone' \subseteq Records /\ left' \subseteq Records \cup HostIds \cup CertIds
  BY <1>2, RecordRemoved
<1>4. UNCHANGED <<rows, hosts, certs, made, pipe, strayed, trouble>>
  BY DEF DeleteRecord
<1>5. StoreOK'
  <2>1. requests' \in 0..MaxRequests /\ faults' \in 0..MaxFaults
    BY CountsStay DEF DeleteRecord
  <2> QED
    BY <1>3, <1>4, <2>1 DEF Inv, StoreOK
<1>6. CertsKept /\ HostsKept
  BY <1>4, SameWorld
<1>7. JobOK(certs', hosts', [j EXCEPT !.pc = "drop", !.errors = @ \/ a # "done"])
  <2>1. JobOK(certs, hosts, [j EXCEPT !.pc = "drop", !.errors = @ \/ a # "done"])
    BY <1>1, DeleteOn
  <2> QED
    BY <1>4, <2>1
<1> QED
  BY <1>2, <1>4, <1>5, <1>6, <1>7, CallMove

LEMMA DropRowOK ==
  ASSUME Inv, NEW h \in Clients, DropRow(h)
  PROVE  Preserved
<1> DEFINE j == job[h]
<1>1. JobOK(certs, hosts, j) /\ j.pc \in Deleting
  BY JobHere DEF DropRow, Deleting
<1>2. j.s \in Services
  BY <1>1, DeletingParts
<1>3. UNCHANGED <<zone, hosts, certs, made, pipe, left, strayed>> /\ trouble' \in BOOLEAN
  BY DEF DropRow, remote, Inv, StoreOK
<1>4. /\ rows' \in [Services -> Row \cup {None}]
      /\ \A t \in Services : RowOK(certs, rows'[t])
  BY <1>2, DropOK DEF DropRow, Inv, StoreOK
<1>5. StoreOK'
  <2>1. requests' \in 0..MaxRequests /\ faults' \in 0..MaxFaults
    BY CountsStay DEF DropRow
  <2> QED
    BY <1>3, <1>4, <2>1 DEF Inv, StoreOK
<1>6. CertsKept /\ HostsKept
  BY <1>3, SameWorld
<1>7. JobOK(certs', hosts', IdleJob)
  BY IdleFits
<1> QED
  BY <1>3, <1>4, <1>5, <1>6, <1>7, PipesKept, JobMove DEF DropRow, Answer

LEMMA FaultCounts ==
  ASSUME Inv, Fault
  PROVE  requests' \in 0..MaxRequests /\ faults' \in 0..MaxFaults
  BY BoundsOK DEF Inv, StoreOK, Fault

LEMMA RequestFailsOK ==
  ASSUME Inv, NEW h \in Clients, RequestFails(h)
  PROVE  Preserved
<1>1. UNCHANGED <<rows, zone, hosts, certs, made, pipe, left, strayed>> /\ trouble' = TRUE
  BY DEF RequestFails, remote
<1>2. StoreOK'
  BY <1>1, FaultCounts DEF RequestFails, Inv, StoreOK
<1>3. CertsKept /\ HostsKept
  BY <1>1, SameWorld
<1>4. JobOK(certs', hosts', IdleJob)
  BY IdleFits
<1> QED
  BY <1>1, <1>2, <1>3, <1>4, CallMove DEF RequestFails, Answer

LEMMA TaskFailsOK ==
  ASSUME Inv, NEW s \in Services, TaskFails(s)
  PROVE  Preserved
<1>1. /\ UNCHANGED <<rows, zone, hosts, certs, made, job, left, strayed, trouble>>
      /\ Go(s, OffPipe)
  BY DEF TaskFails, CommitFails, remote, seen
<1>2. StoreOK'
  BY <1>1, FaultCounts DEF TaskFails, Inv, StoreOK
<1>3. CertsKept /\ HostsKept /\ \A t \in Services : RowOK(certs', rows'[t])
  BY <1>1, SameWorld
<1>4. PipeOK(certs', hosts', OffPipe)
  BY OffFits
<1> QED
  BY <1>1, <1>2, <1>3, <1>4, PipeMove

LEMMA CrashOK ==
  ASSUME Inv, Crash
  PROVE  Preserved
<1>1. UNCHANGED <<rows, zone, hosts, certs, made, left, strayed, trouble>>
  BY DEF Crash, remote, seen
<1>2. requests' \in 0..MaxRequests /\ faults' \in 0..MaxFaults
  BY FaultCounts DEF Crash
<1>3. /\ pipe' \in [Services -> Pipe]
      /\ \A t \in Services : PipeOK(certs', hosts', pipe'[t])
  BY OffFits DEF Crash, PipeOK, PipeFits
<1>4. /\ job' \in [Clients -> Job]
      /\ \A h \in Clients : JobOK(certs', hosts', job'[h])
  BY IdleFits DEF Crash, JobOK, JobFits
<1> QED
  BY <1>1, <1>2, <1>3, <1>4, SameWorld DEF Inv, StoreOK, Preserved

-----------------------------------------------------------------------------
LEMMA HandlerOK ==
  ASSUME Inv, NEW h \in Clients, Handler(h)
  PROVE  Preserved
  BY AnsweredOK, ImportReadOK, ImportInsertOK, GetNamesOK, GetCertOK, PutNamesOK, RenameFailsOK,
     DropCertOK, UnrecordOK, SaveJobOK, DeleteHostOK, DeleteCertOK, DeleteRecordOK, DropRowOK
  DEF Handler

LEMMA StartsOK ==
  ASSUME Init
  PROVE  Inv
<1>1. StoreOK
  <2>1. /\ hosts \in [HostIds -> Host \cup {Unused, Gone}]
        /\ certs \in [CertIds -> {Unused, Gone} \cup SUBSET CertNames]
    <3>1. hosts \in [HostIds -> Host \cup {Unused, Gone}]
      <4>1. hosts \in [HostIds -> Host \cup {Unused}]
        BY DEF Init
      <4>2. \A g \in HostIds : hosts[g] \in Host \cup {Unused, Gone}
        BY <4>1
      <4> QED
        BY <4>1, <4>2
    <3>2. certs \in [CertIds -> {Unused, Gone} \cup SUBSET CertNames]
      <4>1. certs \in [CertIds -> {Unused} \cup SUBSET CertNames]
        BY DEF Init
      <4>2. \A c \in CertIds : certs[c] \in {Unused, Gone} \cup SUBSET CertNames
        BY <4>1
      <4> QED
        BY <4>1, <4>2
    <3> QED
      BY <3>1, <3>2
  <2>2. Start /\ zone \subseteq Records
    BY DEF Init
  <2>3. requests \in 0..MaxRequests /\ faults \in 0..MaxFaults
    BY <2>2, BoundsOK DEF Start
  <2>4. rows \in [Services -> Row \cup {None}]
    BY <2>2 DEF Start
  <2>5. made \cup left \cup strayed \subseteq Records \cup HostIds \cup CertIds
    BY <2>2 DEF Start
  <2>6. trouble \in BOOLEAN
    BY <2>2 DEF Start
  <2> QED
    BY <2>1, <2>2, <2>3, <2>4, <2>5, <2>6 DEF StoreOK
<1>2. /\ pipe \in [Services -> Pipe]
      /\ \A s \in Services : PipeOK(certs, hosts, pipe[s])
  BY OffFits DEF Init, Start, PipeOK, PipeFits
<1>3. /\ job \in [Clients -> Job]
      /\ \A h \in Clients : JobOK(certs, hosts, job[h])
  BY IdleFits DEF Init, Start, JobOK, JobFits
<1>4. \A s \in Services : RowOK(certs, rows[s])
  BY DEF Init, Start, RowOK
<1> QED
  BY <1>1, <1>2, <1>3, <1>4 DEF Inv

LEMMA StepOK ==
  ASSUME Inv, [Next]_vars
  PROVE  Preserved
<1>1. CASE Next
  BY <1>1, CreateOK, EditOK, RetryOK, UnlinkOK, DeleteOK, ImportOK, HandlerOK, TaskOK, CrashOK,
     RequestFailsOK, TaskFailsOK
  DEF Next
<1>2. CASE UNCHANGED vars
  <2>1. UNCHANGED <<rows, zone, hosts, certs, made, pipe, job, left, strayed, trouble,
                    requests, faults>>
    BY <1>2 DEF vars, remote, seen, bounds
  <2> QED
    BY <2>1, SameWorld DEF Inv, StoreOK, Preserved
<1> QED
  BY <1>1, <1>2

(* Whatever the tasks, the requests and faults do, in whatever order: the  *)
(* invariant holds, and so what each step of a pipeline or of a request    *)
(* finds in its memory is what the code there takes for granted.           *)
THEOREM Invariance == Spec => []Inv
<1>1. Init => Inv
  BY StartsOK
<1>2. Inv /\ [Next]_vars => Inv'
  BY StepOK DEF Preserved
<1> QED
  BY <1>1, <1>2, PTL DEF Spec

(* Every variable keeps its type in every reachable state: no step of the  *)
(* pipeline, of an import, an edit or a delete leaves a half-made row behind.*)
THEOREM TypeCorrect == Spec => []TypeOK
<1>1. Inv => TypeOK
  BY DEF Inv, StoreOK, TypeOK, PipeOK, PipeFits
<1> QED
  BY <1>1, Invariance, PTL

(* A certificate that lists no name a service may have, such as a wildcard *)
(* certificate several hosts use, is never deleted: neither when a service *)
(* that adopted its host is deleted nor when one is renamed, nor by the    *)
(* clean-up after a failure.                                               *)
THEOREM SharedKept == Spec => SharedCertificatesKept
<1>1. Inv /\ [Next]_vars =>
        [\A c \in CertIds : IsCert(c) /\ certs[c] \cap Names = {} => certs'[c] = certs[c]]_vars
  <2> SUFFICES ASSUME Inv, [Next]_vars, NEW c \in CertIds, IsCert(c), certs[c] \cap Names = {}
               PROVE  certs'[c] = certs[c]
    OBVIOUS
  <2>1. certs[c] \in SUBSET CertNames
    BY DEF Inv, StoreOK, IsCert
  <2>2. certs[c] \in Unlisted
    BY <2>1 DEF Unlisted, CertNames
  <2> QED
    BY <2>2, StepOK DEF Preserved, CertsKept
<1> QED
  BY <1>1, Invariance, PTL DEF Spec, SharedCertificatesKept

(* A host that serves a domain the app does not manage goes on serving it  *)
(* as long as it exists: the pipeline and a rename write it back as they   *)
(* read it, and nobody who has written it meanwhile has taken that domain. *)
THEOREM ExtraKept == Spec => ExtraDomainsKept
<1>1. Inv /\ [Next]_vars =>
        [\A g \in HostIds : IsHost(g) /\ Extra \in hosts[g].names /\ hosts'[g] # Gone
           => Extra \in hosts'[g].names]_vars
  BY StepOK DEF Preserved, HostsKept, IsHost
<1> QED
  BY <1>1, Invariance, PTL DEF Spec, ExtraDomainsKept

-----------------------------------------------------------------------------
(* What the pipeline's steps make of its memory, column by column.         *)

SameTask(q, p) == q.name = p.name /\ q.old = p.old /\ q.cert = p.cert
SameRecord(r, o) ==
  r.name = o.name /\ r.rtype = o.rtype /\ r.rtarget = o.rtarget /\ r.dns = o.dns /\ r.state = o.state

LEMMA ProxyDoneIs ==
  ASSUME NEW p \in Pipe, p.new \in Row, NEW g \in HostIds, NEW ssl \in Status
  PROVE  LET q == ProxyDone(p, g, ssl) IN
         /\ SameTask(q, p) /\ q.pc = "proxied" /\ q.new \in Row
         /\ SameRecord(q.new, p.new) /\ q.new.cert = p.new.cert
         /\ q.new.host = g /\ q.new.npm = "ok" /\ q.new.ssl = ssl
<1> DEFINE r == [p.new EXCEPT !.host = g, !.npm = "ok", !.ssl = ssl]
           q == [p EXCEPT !.pc = "proxied", !.cur = None, !.new = r]
<1>1. /\ r \in Row /\ SameRecord(r, p.new) /\ r.cert = p.new.cert
      /\ r.host = g /\ r.npm = "ok" /\ r.ssl = ssl
  BY DEF Row, Status, SameRecord
<1> HIDE DEF r
<1>2. SameTask(q, p) /\ q.pc = "proxied" /\ q.new = r
  BY DEF Pipe, SameTask
<1>3. ProxyDone(p, g, ssl) = q
  BY DEF ProxyDone, Pipe, r
<1> HIDE DEF q
<1> QED
  BY <1>1, <1>2, <1>3

LEMMA ProxyFailedIs ==
  ASSUME NEW p \in Pipe, p.new \in Row
  PROVE  LET q == ProxyFailed(p) IN
         /\ SameTask(q, p) /\ q.pc = "proxied" /\ q.new \in Row
         /\ SameRecord(q.new, p.new) /\ q.new.cert = p.new.cert
         /\ q.new.host = p.new.host /\ q.new.npm = "error" /\ q.new.ssl = p.new.ssl
<1> DEFINE r == [p.new EXCEPT !.npm = "error"]
           q == [p EXCEPT !.pc = "proxied", !.cur = None, !.new = r]
<1>1. /\ r \in Row /\ SameRecord(r, p.new) /\ r.cert = p.new.cert
      /\ r.host = p.new.host /\ r.npm = "error" /\ r.ssl = p.new.ssl
  BY DEF Row, Status, SameRecord
<1> HIDE DEF r
<1>2. SameTask(q, p) /\ q.pc = "proxied" /\ q.new = r
  BY DEF Pipe, SameTask
<1>3. ProxyFailed(p) = q
  BY DEF ProxyFailed, Pipe, r
<1> HIDE DEF q
<1> QED
  BY <1>1, <1>2, <1>3

LEMMA ProxyLostIs ==
  ASSUME NEW p \in Pipe, p.new \in Row
  PROVE  LET q == ProxyLost(p) IN
         /\ SameTask(q, p) /\ q.pc = "find" /\ q.new \in Row
         /\ SameRecord(q.new, p.new) /\ q.new.cert = p.new.cert
         /\ q.new.host = None /\ q.new.npm = p.new.npm /\ q.new.ssl = p.new.ssl
<1> DEFINE r == [p.new EXCEPT !.host = None]
           q == [p EXCEPT !.pc = "find", !.cur = None, !.new = r]
<1>1. /\ r \in Row /\ SameRecord(r, p.new) /\ r.cert = p.new.cert
      /\ r.host = None /\ r.npm = p.new.npm /\ r.ssl = p.new.ssl
  BY DEF Row, SameRecord
<1> HIDE DEF r
<1>2. SameTask(q, p) /\ q.pc = "find" /\ q.new = r
  BY DEF Pipe, SameTask
<1>3. ProxyLost(p) = q
  BY DEF ProxyLost, Pipe, r
<1> HIDE DEF q
<1> QED
  BY <1>1, <1>2, <1>3

LEMMA CertFailedIs ==
  ASSUME NEW p \in Pipe, p.new \in Row
  PROVE  LET q == CertFailed(p) IN
         /\ SameTask(q, p) /\ q.pc = "attached" /\ q.new \in Row
         /\ SameRecord(q.new, p.new) /\ q.new.cert = p.new.cert
         /\ q.new.host = p.new.host /\ q.new.npm = p.new.npm /\ q.new.ssl = "error"
<1> DEFINE r == [p.new EXCEPT !.ssl = "error"]
           q == [p EXCEPT !.pc = "attached", !.cur = None, !.new = r]
<1>1. /\ r \in Row /\ SameRecord(r, p.new) /\ r.cert = p.new.cert
      /\ r.host = p.new.host /\ r.npm = p.new.npm /\ r.ssl = "error"
  BY DEF Row, Status, SameRecord
<1> HIDE DEF r
<1>2. SameTask(q, p) /\ q.pc = "attached" /\ q.new = r
  BY DEF Pipe, SameTask
<1>3. CertFailed(p) = q
  BY DEF CertFailed, Pipe, r
<1> HIDE DEF q
<1> QED
  BY <1>1, <1>2, <1>3

LEMMA AgainIs ==
  ASSUME NEW p \in Pipe, p.new \in Row
  PROVE  LET q == AgainOrFail(p) IN
         /\ SameTask(q, p) /\ q.new \in Row
         /\ SameRecord(q.new, p.new) /\ q.new.cert = p.new.cert
         /\ q.new.host = p.new.host /\ q.new.npm = p.new.npm
         /\ \/ q.pc = p.pc /\ q.new = p.new
            \/ q.pc = "attached" /\ q.new.ssl = "error"
<1>1. CASE p.tries < Attempts
  <2> DEFINE q == [p EXCEPT !.tries = @ + 1]
  <2>1. SameTask(q, p) /\ q.new = p.new /\ q.pc = p.pc
    BY DEF Pipe, SameTask
  <2> HIDE DEF q
  <2> QED
    BY <1>1, <2>1 DEF AgainOrFail, SameRecord, q
<1>2. CASE ~(p.tries < Attempts)
  BY <1>2, CertFailedIs DEF AgainOrFail
<1> QED
  BY <1>1, <1>2

LEMMA IssuedIs ==
  ASSUME NEW p \in Pipe, p.new \in Row, NEW c \in CertIds
  PROVE  LET q == [p EXCEPT !.pc = "issued", !.cert = c, !.new = [@ EXCEPT !.cert = c]] IN
         /\ q.pc = "issued" /\ q.name = p.name /\ q.old = p.old /\ q.cert = c /\ q.new \in Row
         /\ SameRecord(q.new, p.new) /\ q.new.cert = c
         /\ q.new.host = p.new.host /\ q.new.npm = p.new.npm /\ q.new.ssl = p.new.ssl
<1> DEFINE r == [p.new EXCEPT !.cert = c]
           q == [p EXCEPT !.pc = "issued", !.cert = c, !.new = r]
<1>1. /\ r \in Row /\ SameRecord(r, p.new) /\ r.cert = c
      /\ r.host = p.new.host /\ r.npm = p.new.npm /\ r.ssl = p.new.ssl
  BY DEF Row, SameRecord
<1> HIDE DEF r
<1>2. q.pc = "issued" /\ q.name = p.name /\ q.old = p.old /\ q.cert = c /\ q.new = r
  BY DEF Pipe
<1>3. [p EXCEPT !.pc = "issued", !.cert = c, !.new = [@ EXCEPT !.cert = c]] = q
  BY DEF Pipe, r
<1> HIDE DEF q
<1> QED
  BY <1>1, <1>2, <1>3

LEMMA AttachedIs ==
  ASSUME NEW p \in Pipe, p.new \in Row
  PROVE  LET q == [p EXCEPT !.pc = "attached", !.cur = None,
                            !.new = [@ EXCEPT !.cert = p.cert, !.ssl = "ok"]] IN
         /\ SameTask(q, p) /\ q.pc = "attached" /\ q.new \in Row
         /\ SameRecord(q.new, p.new) /\ q.new.cert = p.cert
         /\ q.new.host = p.new.host /\ q.new.npm = p.new.npm /\ q.new.ssl = "ok"
<1> DEFINE r == [p.new EXCEPT !.cert = p.cert, !.ssl = "ok"]
           q == [p EXCEPT !.pc = "attached", !.cur = None, !.new = r]
<1>1. /\ r \in Row /\ SameRecord(r, p.new) /\ r.cert = p.cert
      /\ r.host = p.new.host /\ r.npm = p.new.npm /\ r.ssl = "ok"
  BY DEF Row, Status, SameRecord, Pipe
<1> HIDE DEF r
<1>2. SameTask(q, p) /\ q.pc = "attached" /\ q.new = r
  BY DEF Pipe, SameTask
<1>3. [p EXCEPT !.pc = "attached", !.cur = None,
               !.new = [@ EXCEPT !.cert = p.cert, !.ssl = "ok"]] = q
  BY DEF Pipe, r
<1> HIDE DEF q
<1> QED
  BY <1>1, <1>2, <1>3

-----------------------------------------------------------------------------
(* A row that shows "provisioning" has a task at work on it.               *)

Resting == {"off", "queued", "done"}
NoneStranded ==
  faults = 0 => \A s \in Services :
    rows[s] # None /\ rows[s].state = "provisioning" => pipe[s].pc \notin Resting

(* How a step of its pipeline leaves a service ...                         *)
Runs(s) ==
  /\ \A t \in Services \ {s} : rows'[t] = rows[t]
  /\ \/ \E q : Go(s, q) /\ q.pc \notin Resting
     \/ Go(s, OffPipe) /\ UNCHANGED rows /\ (rows[s] = None \/ pipe[s].pc = "done")
     \/ /\ \E q : Go(s, q) /\ q.pc = "done"
        /\ rows'[s].state \in {"active", "error"}

(* ... and a step of anybody else: as it is, or with a run asked for.      *)
Started(s) ==
  /\ pipe'[s].pc # "off" /\ (pipe[s].pc # "off" => pipe'[s] = pipe[s])
  /\ rows'[s].state # "pending" => rows[s] # None /\ rows'[s].state = rows[s].state

Stays(s) == pipe'[s] = pipe[s] /\ rows'[s] \in {None, rows[s]}

LEMMA ConcludeRuns ==
  ASSUME Inv, NEW s \in Services, rows[s] # None, Conclude(s)
  PROVE  Runs(s)
<1>1. rows[s] \in Row
  BY RowHere
<1>2. rows'[s].state \in {"active", "error"} /\ \A t \in Services \ {s} : rows'[t] = rows[t]
  BY <1>1 DEF Conclude, Inv, StoreOK, Row
<1>3. [OffPipe EXCEPT !.pc = "done"].pc = "done"
  BY DEF OffPipe
<1> QED
  BY <1>2, <1>3 DEF Conclude, Runs

LEMMA CommitElsewhere ==
  ASSUME Inv, NEW s \in Services, NEW old, NEW new, Commit(s, old, new)
  PROVE  \A t \in Services \ {s} : rows'[t] = rows[t]
  BY DEF Commit, Inv, StoreOK

LEMMA DropElsewhere ==
  ASSUME Inv, NEW s \in Services, Drop(s)
  PROVE  \A t \in Services : rows'[t] \in {None, rows[t]}
  BY DEF Drop, Inv, StoreOK

LEMMA PipeStepRuns ==
  ASSUME Inv, NEW s \in Services, PipeStep(s)
  PROVE  Runs(s)
<1> DEFINE p == pipe[s]
<1>1. p \in Pipe /\ PipeOK(certs, hosts, p) /\ (p.pc \in Carrying => p.new \in Row)
  BY PipeHere, PipeParts DEF PipeOK, PipeFits
<1>2. ASSUME NEW q, Go(s, q), q.pc \notin Resting, \A t \in Services \ {s} : rows'[t] = rows[t]
      PROVE  Runs(s)
  BY <1>2 DEF Runs, Resting
<1>3. CASE RowGone(s) \/ Leave(s)
  BY <1>3 DEF RowGone, Dies, Leave, At, Runs
<1>4. CASE Begin(s)
  <2>1. [p EXCEPT !.pc = "begun"].pc = "begun"
    BY <1>1 DEF Pipe
  <2>2. \A t \in Services \ {s} : rows'[t] = rows[t]
    BY <1>4 DEF Begin, Inv, StoreOK
  <2> QED
    BY <1>2, <1>4, <2>1, <2>2 DEF Begin, Resting
<1>5. CASE LoadDns(s)
  <2>1. PICK pc \in {"ensure", "get", "find"} :
          Go(s, [Loaded(s, pc) EXCEPT !.name = rows[s].name])
    BY <1>5 DEF LoadDns, ProxyPc
  <2>2. [Loaded(s, pc) EXCEPT !.name = rows[s].name].pc = pc
    BY <1>1 DEF Loaded, Pipe
  <2> QED
    BY <1>2, <1>5, <2>1, <2>2 DEF LoadDns, Resting
<1>6. CASE EnsureRecord(s)
  <2>1. PICK r : Go(s, [p EXCEPT !.pc = "ensured", !.new = r])
    BY <1>1, <1>6 DEF EnsureRecord, Carrying
  <2>2. [p EXCEPT !.pc = "ensured", !.new = r].pc = "ensured"
    BY <1>1 DEF Pipe
  <2> QED
    BY <1>2, <1>6, <2>1, <2>2 DEF EnsureRecord, Resting
<1>7. CASE SaveStep(s)
  <2>1. PICK to \in {"proxy", "secure", "finish"} :
          Go(s, [p EXCEPT !.pc = to, !.old = None, !.new = None])
    BY <1>7 DEF SaveStep, Save
  <2>2. [p EXCEPT !.pc = to, !.old = None, !.new = None].pc = to
    BY <1>1 DEF Pipe
  <2>3. \A t \in Services \ {s} : rows'[t] = rows[t]
    BY <1>7, CommitElsewhere DEF SaveStep, Save
  <2> QED
    BY <1>2, <2>1, <2>2, <2>3 DEF Resting
<1>8. CASE LoadProxy(s)
  <2>1. Loaded(s, ProxyPc(s)).pc = ProxyPc(s) /\ ProxyPc(s) \notin Resting
    BY <1>1 DEF Loaded, Pipe, ProxyPc, Resting
  <2> QED
    BY <1>2, <1>8, <2>1 DEF LoadProxy, Resting
<1>9. CASE GetProxy(s)
  <2>1. [p EXCEPT !.pc = "put", !.cur = hosts[p.new.host]].pc = "put"
    BY <1>1 DEF Pipe
  <2>2. ProxyLost(p).pc = "find"
    BY <1>1, <1>9, ProxyLostIs DEF GetProxy, Carrying
  <2> QED
    BY <1>2, <1>9, <2>1, <2>2 DEF GetProxy, Resting
<1>10. CASE PutProxy(s)
  <2>1. p.new.host \in HostIds /\ p.new.ssl \in Status
    BY <1>1, <1>10, RowParts DEF PutProxy, Carrying, PipeOK, PipeFits
  <2> QED
    BY <1>1, <1>2, <1>10, <2>1, ProxyDoneIs, ProxyFailedIs, ProxyLostIs DEF PutProxy, Carrying, Resting
<1>11. CASE FindProxy(s)
  <2>1. p.new.ssl \in Status /\ "ok" \in Status
    BY <1>1, <1>11, RowParts DEF FindProxy, Carrying, Status
  <2> QED
    <3>1. [p EXCEPT !.pc = "create"].pc = "create"
      BY <1>1 DEF Pipe
    <3>2. \A g \in HostIds, ssl \in Status : ProxyDone(p, g, ssl).pc = "proxied"
      BY <1>1, <1>11, ProxyDoneIs DEF FindProxy, Carrying
    <3> QED
      BY <1>2, <1>11, <2>1, <3>1, <3>2 DEF FindProxy, Resting
<1>12. CASE CreateProxy(s)
  <2>1. p.new.ssl \in Status
    BY <1>1, <1>12, RowParts DEF CreateProxy, Carrying
  <2>2. NewId(hosts) \in HostIds
    BY <1>12 DEF CreateProxy, HasNewId, NewId, Inv, StoreOK
  <2> QED
    BY <1>1, <1>2, <1>12, <2>1, <2>2, ProxyDoneIs, ProxyFailedIs DEF CreateProxy, Carrying, Resting
<1>13. CASE ProxyCallFails(s)
  BY <1>1, <1>2, <1>13, ProxyFailedIs DEF ProxyCallFails, Carrying, Resting
<1>14. CASE LoadCert(s)
  <2>1. Loaded(s, "findcert").pc = "findcert"
    BY <1>1 DEF Loaded, Pipe
  <2> QED
    BY <1>2, <1>14, <2>1, ConcludeRuns DEF LoadCert, Resting
<1>15. CASE Finish(s)
  BY <1>15, ConcludeRuns DEF Finish
<1>16. CASE FindCert(s)
  <2>1. [p EXCEPT !.pc = "issue", !.tries = 1].pc = "issue"
    BY <1>1 DEF Pipe
  <2>2. ASSUME NEW c \in CertIds
        PROVE  [p EXCEPT !.pc = "getattach", !.cert = c].pc = "getattach"
    BY <1>1 DEF Pipe
  <2> QED
    BY <1>2, <1>16, <2>1, <2>2 DEF FindCert, Resting
<1>17. CASE IssueCert(s)
  <2>1. NewId(certs) \in CertIds
    BY <1>17 DEF IssueCert, HasNewId, NewId, Inv, StoreOK
  <2> QED
    BY <1>1, <1>2, <1>17, <2>1, IssuedIs, AgainIs DEF IssueCert, Carrying, Resting
<1>18. CASE IssueFails(s)
  BY <1>1, <1>2, <1>18, AgainIs DEF IssueFails, At, Carrying, Resting
<1>19. CASE SaveCert(s)
  <2>1. [p EXCEPT !.pc = "getattach", !.old = rows'[s], !.new = rows'[s]].pc = "getattach"
    BY <1>1 DEF Pipe
  <2>2. \A t \in Services \ {s} : rows'[t] = rows[t]
    BY <1>19, CommitElsewhere DEF SaveCert
  <2> QED
    BY <1>2, <1>19, <2>1, <2>2 DEF SaveCert, Resting
<1>20. CASE GetAttach(s)
  <2>1. [p EXCEPT !.pc = "putattach", !.cur = hosts[p.new.host]].pc = "putattach"
    BY <1>1 DEF Pipe
  <2>2. CertFailed(p).pc = "attached"
    BY <1>1, <1>20, CertFailedIs DEF GetAttach, Carrying, Resting
  <2> QED
    BY <1>2, <1>20, <2>1, <2>2 DEF GetAttach, Resting
<1>21. CASE PutAttach(s)
  BY <1>1, <1>2, <1>21, AttachedIs, CertFailedIs DEF PutAttach, Carrying, Resting
<1>22. CASE CertCallFails(s)
  BY <1>1, <1>2, <1>22, CertFailedIs DEF CertCallFails, Carrying, Resting
<1> QED
  BY <1>3, <1>4, <1>5, <1>6, <1>7, <1>8, <1>9, <1>10, <1>11, <1>12, <1>13, <1>14, <1>15, <1>16,
     <1>17, <1>18, <1>19, <1>20, <1>21, <1>22 DEF PipeStep

(* A row is written together with a request for a run.                     *)
LEMMA StartRunStarts ==
  ASSUME Inv, NEW h \in Clients, NEW s \in Services, StartRun(h, s),
         \A t \in Services \ {s} : rows'[t] = rows[t],
         rows'[s].state # "pending" => rows[s] # None /\ rows'[s].state = rows[s].state
  PROVE  \A t \in Services : Started(t) \/ Stays(t)
<1>1. [OffPipe EXCEPT !.pc = "queued"].pc = "queued"
  BY DEF OffPipe
<1>2. pipe'[s].pc # "off" /\ (pipe[s].pc # "off" => pipe'[s] = pipe[s])
  BY <1>1 DEF StartRun, RequestRun, Go, At, Inv
<1>3. \A t \in Services \ {s} : pipe'[t] = pipe[t]
  BY DEF StartRun, RequestRun, Go, Inv
<1> QED
  BY <1>2, <1>3 DEF Started, Stays

LEMMA SaveEditStarts ==
  ASSUME Inv, NEW h \in Clients, NEW s \in Services, rows[s] # None,
         NEW old \in Row, NEW new \in Row, new.state = "pending", SaveEdit(h, s, old, new)
  PROVE  \A t \in Services : Started(t) \/ Stays(t)
<1>1. rows[s] \in Row
  BY RowHere
<1>2. rows' = [rows EXCEPT ![s] = Merged(rows[s], old, new)]
  BY CommitMerges DEF SaveEdit
<1>3. Merged(rows[s], old, new).state = IF new.state # old.state THEN new.state ELSE rows[s].state
  BY <1>1, MergedIs
<1>4. rows'[s] = Merged(rows[s], old, new) /\ \A t \in Services \ {s} : rows'[t] = rows[t]
  BY <1>2 DEF Inv, StoreOK
<1> QED
  BY <1>3, <1>4, StartRunStarts DEF SaveEdit

LEMMA StepRuns ==
  ASSUME Inv, [Next]_vars
  PROVE  \/ faults' # 0
         \/ UNCHANGED faults /\ \A t \in Services : Runs(t) \/ Started(t) \/ Stays(t)
<1> DEFINE Goal == \/ faults' # 0
                   \/ UNCHANGED faults /\ \A t \in Services : Runs(t) \/ Started(t) \/ Stays(t)
<1>1. ASSUME NEW s \in Services, Task(s)  PROVE Goal
  <2>1. Runs(s) /\ UNCHANGED faults
    BY <1>1, PipeStepRuns DEF Task, bounds
  <2>2. \A t \in Services \ {s} : rows'[t] = rows[t] /\ pipe'[t] = pipe[t]
    BY <2>1 DEF Runs, Go, Inv
  <2> QED
    BY <2>1, <2>2 DEF Stays
<1>2. ASSUME Fault  PROVE Goal
  BY <1>2 DEF Fault, Inv, StoreOK
<1>3. ASSUME UNCHANGED <<faults, pipe>>, \A t \in Services : rows'[t] \in {None, rows[t]}
      PROVE  Goal
  BY <1>3 DEF Stays
<1>4. ASSUME NEW h \in Clients, NEW s \in Services, NEW n \in Names, NEW o \in ValidOverrides,
             Create(h, s, n, o)
      PROVE  Goal
  <2>1. rows'[s].state = "pending" /\ \A t \in Services \ {s} : rows'[t] = rows[t]
    BY <1>4 DEF Create, NewRow, Inv, StoreOK
  <2> QED
    BY <1>4, <2>1, StartRunStarts DEF Create, Request
<1>5. ASSUME NEW h \in Clients, NEW s \in Services, Retry(h, s)  PROVE Goal
  BY <1>5, StartRunStarts DEF Retry, Request
<1>6. ASSUME NEW h \in Clients, NEW s \in Services, NEW n \in Names,
             NEW o \in ValidOverrides \cup {None}, Edit(h, s, n, o)
      PROVE  Goal
  <2>1. UNCHANGED faults /\ rows[s] # None /\ rows[s] \in Row
    BY <1>6, RowHere DEF Edit, Request
  <2>2. Edited(rows[s], n, o) \in Row /\ Edited(rows[s], n, o).state = "pending"
    BY <2>1, EditedOK
  <2>3. \/ SaveEdit(h, s, rows[s], Edited(rows[s], n, o))
        \/ UNCHANGED <<rows, pipe>>
    BY <1>6 DEF Edit
  <2> QED
    BY <1>3, <2>1, <2>2, <2>3, SaveEditStarts
<1>7. ASSUME NEW h \in Clients, NEW s \in Services, NEW force, Unlink(h, s) \/ Delete(h, s, force)
      PROVE  Goal
  <2>1. UNCHANGED <<faults, pipe>> /\ (Drop(s) \/ UNCHANGED rows)
    BY <1>7 DEF Unlink, Delete, Request
  <2> QED
    BY <1>3, <2>1, DropElsewhere
<1>8. ASSUME NEW h \in Clients, NEW g \in HostIds, Import(h, g)  PROVE Goal
  BY <1>3, <1>8 DEF Import, Request
<1>9. ASSUME NEW h \in Clients, Handler(h)  PROVE Goal
  <2> DEFINE j == job[h]
  <2>1. CASE ImportInsert(h)
    <3>1. j.new \in Row /\ j.new.state = "pending"
      BY <2>1, JobHere, JobParts DEF ImportInsert, JobOK, JobFits
    <3>2. PICK s \in Services : rows' = [rows EXCEPT ![s] = j.new] /\ StartRun(h, s)
      BY <2>1 DEF ImportInsert
    <3>3. rows'[s].state = "pending" /\ \A t \in Services \ {s} : rows'[t] = rows[t]
      BY <3>1, <3>2 DEF Inv, StoreOK
    <3> QED
      BY <2>1, <3>2, <3>3, StartRunStarts DEF ImportInsert, bounds
  <2>2. CASE SaveJob(h)
    <3>1. j.s \in Services /\ j.old \in Row /\ j.new \in Row /\ j.new.state = "pending"
      BY <2>2, JobHere, EditingParts DEF SaveJob, Editing
    <3> QED
      BY <1>3, <2>2, <3>1, SaveEditStarts DEF SaveJob, bounds
  <2>3. CASE DropRow(h)
    <3>1. job[h].s \in Services
      BY <2>3, JobHere, DeletingParts DEF DropRow, Deleting
    <3> QED
      BY <1>3, <2>3, <3>1, DropElsewhere DEF DropRow, bounds
  <2>4. CASE UNCHANGED <<rows, pipe, bounds>>
    BY <1>3, <2>4 DEF bounds
  <2> QED
    BY <1>9, <2>1, <2>2, <2>3, <2>4
    DEF Handler, Answered, ImportRead, GetNames, GetCert, PutNames, RenameFails, DropCert,
        Unrecord, DeleteHost, DeleteCert, DeleteRecord
<1>10. CASE UNCHANGED vars
  BY <1>3, <1>10 DEF vars, bounds
<1> QED
  BY <1>1, <1>2, <1>4, <1>5, <1>6, <1>7, <1>8, <1>9, <1>10
  DEF Next, Crash, RequestFails, TaskFails

LEMMA StepStrandsNone ==
  ASSUME Inv, NoneStranded, [Next]_vars
  PROVE  NoneStranded'
<1> SUFFICES ASSUME faults' = 0, NEW s \in Services,
                    rows'[s] # None, rows'[s].state = "provisioning"
             PROVE  pipe'[s].pc \notin Resting
  BY DEF NoneStranded
<1>1. faults = 0 /\ (Runs(s) \/ Started(s) \/ Stays(s))
  BY StepRuns
<1>2. CASE Runs(s)
  BY <1>1, <1>2 DEF Runs, NoneStranded, Resting, Go, Inv
<1>3. CASE Started(s)
  BY <1>1, <1>3 DEF Started, NoneStranded, Resting
<1>4. CASE Stays(s)
  BY <1>1, <1>4 DEF Stays, NoneStranded
<1> QED
  BY <1>1, <1>2, <1>3, <1>4

-----------------------------------------------------------------------------
(* One request at a time.                                                  *)

Working == Editing \cup Deleting

(* A pipeline works on a row that is there and shows it, under its name,   *)
(* until the verdict is in.                                                *)
PipeSerial(p, row) ==
  /\ p.pc # "off" => row # None
  /\ p.pc \notin Resting => row.state = "provisioning"
  /\ p.pc = "done" => row.state \in {"active", "error"}
  /\ p.pc \notin Resting \cup {"begun"} => p.name = row.name
  /\ p.new # None => /\ p.old = row
                     /\ p.new.name = row.name /\ p.new.state = "provisioning"
  /\ p.pc = "ensure" => p.new.dns # "ok"

(* A request works on a row at rest, and has the only claim to its name.   *)
JobSerial(R, P, j) ==
  /\ j.pc \in Working => P[j.s].pc = "off" /\ R[j.s] = j.old
  /\ j.pc \in Editing => \A t \in Services \ {j.s} : R[t] # None => R[t].name # j.new.name
  /\ j.pc = "insert" => \A t \in Services : R[t] # None => R[t].name # j.new.name

NamesApart == \A s, t \in Services : s # t /\ rows[s] # None /\ rows[t] # None
                                       => rows[s].name # rows[t].name

(* A run that has not begun is that of the request about to be answered.   *)
Awaited == \A s \in Services : pipe[s].pc = "queued" =>
             \E h \in Clients : job[h].pc = "answer" /\ job[h].s = s

Serial ==
  /\ \A s \in Services : PipeSerial(pipe[s], rows[s])
  /\ \A h \in Clients : JobSerial(rows, pipe, job[h])
  /\ NamesApart /\ Awaited

-----------------------------------------------------------------------------
(* What the steps of a pipeline do, while nobody else changes its row.     *)

Acts(s, q, r) == Go(s, q) /\ rows' = [rows EXCEPT ![s] = r]
SameColumns(r, o) ==
  /\ r.name = o.name /\ r.host = o.host /\ r.cert = o.cert
  /\ r.rtype = o.rtype /\ r.rtarget = o.rtarget
  /\ r.dns = o.dns /\ r.npm = o.npm /\ r.ssl = o.ssl

LEMMA ActsQuietly ==
  ASSUME Inv, NEW s \in Services, NEW q, Go(s, q), UNCHANGED rows
  PROVE  Acts(s, q, rows[s])
  BY DEF Inv, StoreOK, Acts

(* The row is there as long as the pipeline is at work.                    *)
LEMMA AtWork ==
  ASSUME Inv, Serial, NEW s \in Services, pipe[s].pc # "off"
  PROVE  /\ rows[s] # None /\ rows[s] \in Row /\ pipe[s] \in Pipe
         /\ PipeSerial(pipe[s], rows[s]) /\ PipeFits(pipe[s])
         /\ pipe[s].pc \in Carrying => pipe[s].new \in Row
         /\ pipe[s].pc \notin Carrying => pipe[s].new = None
  BY PipeHere, PipeParts, RowHere DEF Serial, PipeSerial, PipeOK, PipeFits

LEMMA BeginDoes ==
  ASSUME Inv, NEW s \in Services, Begin(s)
  PROVE  \E q, r : /\ Acts(s, q, r) /\ r \in Row
                   /\ q.pc = "begun" /\ q.new = None
                   /\ SameColumns(r, rows[s]) /\ r.state = "provisioning"
<1> DEFINE q == [pipe[s] EXCEPT !.pc = "begun"]
           r == [rows[s] EXCEPT !.state = "provisioning"]
<1>1. rows[s] \in Row /\ PipeOK(certs, hosts, pipe[s]) /\ pipe[s].pc = "queued"
  BY RowHere, PipeHere DEF Begin, At
<1>2. r \in Row /\ SameColumns(r, rows[s]) /\ r.state = "provisioning"
  BY <1>1 DEF Row, SameColumns
<1>3. q.pc = "begun" /\ q.new = None
  BY <1>1 DEF PipeOK, PipeFits, Pipe, Carrying
<1>4. Acts(s, q, r)
  BY DEF Begin, Acts
<1> HIDE DEF q, r
<1> QED
  BY <1>2, <1>3, <1>4

Loads(s, q) ==
  /\ Acts(s, q, rows[s])
  /\ q.pc \in {"ensure", "get", "find", "findcert"}
  /\ q.pc = "ensure" => rows[s].dns # "ok"
  /\ q.old = rows[s] /\ q.new = rows[s] /\ q.name = rows[s].name

LEMMA LoadDnsDoes ==
  ASSUME Inv, NEW s \in Services, LoadDns(s)
  PROVE  \E q : Loads(s, q)
<1>1. PICK pc \in {"ensure", "get", "find"} :
        /\ Go(s, [Loaded(s, pc) EXCEPT !.name = rows[s].name])
        /\ pc = "ensure" => rows[s].dns # "ok"
  BY DEF LoadDns, ProxyPc
<1> DEFINE q == [Loaded(s, pc) EXCEPT !.name = rows[s].name]
<1>2. pipe[s] \in Pipe
  BY PipeHere, PipeParts
<1>3. q.pc = pc /\ q.old = rows[s] /\ q.new = rows[s] /\ q.name = rows[s].name
  BY <1>2 DEF Loaded, Pipe
<1>4. Acts(s, q, rows[s])
  BY <1>1, ActsQuietly DEF LoadDns
<1> HIDE DEF q
<1> QED
  BY <1>1, <1>3, <1>4 DEF Loads

LEMMA LoadedDoes ==
  ASSUME Inv, Serial, NEW s \in Services, pipe[s].pc \in {"proxy", "secure"},
         NEW pc \in {"get", "find", "findcert"}, Go(s, Loaded(s, pc)), UNCHANGED rows
  PROVE  \E q : Loads(s, q)
<1>1. pipe[s] \in Pipe /\ pipe[s].name = rows[s].name
  BY AtWork DEF PipeSerial, Resting
<1>2. Loaded(s, pc).pc = pc /\ Loaded(s, pc).old = rows[s] /\ Loaded(s, pc).new = rows[s]
      /\ Loaded(s, pc).name = rows[s].name
  BY <1>1 DEF Loaded, Pipe
<1>3. Acts(s, Loaded(s, pc), rows[s])
  BY ActsQuietly
<1> QED
  BY <1>2, <1>3 DEF Loads

LEMMA EnsureRecordDoes ==
  ASSUME Inv, NEW s \in Services, EnsureRecord(s)
  PROVE  \E q, x :
    /\ Acts(s, q, rows[s]) /\ SameTask(q, pipe[s]) /\ q.pc = "ensured" /\ q.new \in Row
    /\ q.new.name = pipe[s].new.name /\ q.new.host = pipe[s].new.host
    /\ q.new.cert = pipe[s].new.cert /\ q.new.npm = pipe[s].new.npm
    /\ q.new.ssl = pipe[s].new.ssl /\ q.new.state = pipe[s].new.state
    /\ x \in Records /\ x.name = pipe[s].name
    /\ zone' = zone \/ zone' = zone \cup {x}
    /\ made' = made \cup (zone' \ zone)
    /\ \/ LostReplies /\ q.new.dns = "error"
       \/ zone' = zone /\ q.new.dns = "error"
       \/ x \in zone' /\ q.new.dns = "ok" /\ q.new.rtype = x.type /\ q.new.rtarget = x.target
<1> DEFINE p == pipe[s]
           x == [name |-> p.name, type |-> PlanType(p.new), target |-> PlanTarget(p.new)]
           row(a) == IF a = "done" THEN [p.new EXCEPT !.dns = "ok", !.rtype = x.type,
                                                      !.rtarget = x.target]
                                   ELSE [p.new EXCEPT !.dns = "error"]
           q(a) == [p EXCEPT !.pc = "ensured", !.new = row(a)]
<1>1. p \in Pipe /\ p.new \in Row /\ p.name \in Names
  BY PipeHere, PipeParts DEF EnsureRecord, PipeOK, PipeFits, Carrying
<1>2. x \in Records /\ x.type \in Types /\ x.target \in Targets /\ x.name = p.name
  BY <1>1, PlanTypes DEF Records
<1>3. PICK a \in Outcomes :
        /\ zone' = IF a = "failed" THEN zone ELSE zone \cup {x}
        /\ made' = made \cup (zone' \ zone)
        /\ Go(s, q(a))
  BY <1>1 DEF EnsureRecord
<1>4. a \in {"done", "failed"} \/ LostReplies
  BY DEF Outcomes
<1> HIDE DEF x
<1>5. /\ row(a) \in Row /\ row(a).name = p.new.name /\ row(a).host = p.new.host
      /\ row(a).cert = p.new.cert /\ row(a).npm = p.new.npm /\ row(a).ssl = p.new.ssl
      /\ row(a).state = p.new.state
      /\ IF a = "done" THEN row(a).dns = "ok" /\ row(a).rtype = x.type /\ row(a).rtarget = x.target
                       ELSE row(a).dns = "error"
  BY <1>1, <1>2 DEF Row, Status
<1> HIDE DEF row
<1>6. SameTask(q(a), p) /\ q(a).pc = "ensured" /\ q(a).new = row(a)
  BY <1>1 DEF Pipe, SameTask
<1>7. Acts(s, q(a), rows[s])
  BY <1>3, ActsQuietly DEF EnsureRecord
<1> HIDE DEF q
<1>8. zone' = zone \/ zone' = zone \cup {x}
  BY <1>3
<1>9. \/ LostReplies /\ q(a).new.dns = "error"
      \/ zone' = zone /\ q(a).new.dns = "error"
      \/ /\ x \in zone' /\ q(a).new.dns = "ok"
         /\ q(a).new.rtype = x.type /\ q(a).new.rtarget = x.target
  BY <1>3, <1>4, <1>5, <1>6
<1> QED
  BY <1>2, <1>3, <1>5, <1>6, <1>7, <1>8, <1>9

(* What is committed is the row in memory.                                 *)
LEMMA CommitsMemory ==
  ASSUME Inv, Serial, NEW s \in Services, pipe[s].pc \in Carrying,
         Commit(s, pipe[s].old, pipe[s].new)
  PROVE  rows' = [rows EXCEPT ![s] = pipe[s].new] /\ rows'[s] = pipe[s].new
<1>1. pipe[s].pc # "off"
  BY DEF Carrying
<1>2. pipe[s].new \in Row /\ rows[s] \in Row /\ pipe[s].old = rows[s]
  BY <1>1, AtWork, SpecialValues DEF PipeSerial
<1>3. rows' = [rows EXCEPT ![s] = Merged(rows[s], rows[s], pipe[s].new)]
  BY <1>2, CommitMerges
<1>4. Merged(rows[s], rows[s], pipe[s].new) = pipe[s].new
  BY <1>2, MergedSame
<1> QED
  BY <1>3, <1>4 DEF Inv, StoreOK

LEMMA SaveStepDoes ==
  ASSUME Inv, Serial, NEW s \in Services, SaveStep(s)
  PROVE  /\ pipe[s].pc \in {"ensured", "proxied", "attached"}
         /\ \E q : /\ Acts(s, q, pipe[s].new)
                   /\ q.pc \in {"proxy", "secure", "finish"} /\ q.new = None
                   /\ q.name = pipe[s].name
<1>1. pipe[s].pc \in {"ensured", "proxied", "attached"} /\ Commit(s, pipe[s].old, pipe[s].new)
  BY DEF SaveStep, Save, At
<1>2. PICK pc \in {"proxy", "secure", "finish"} :
        Go(s, [pipe[s] EXCEPT !.pc = pc, !.old = None, !.new = None])
  BY DEF SaveStep, Save
<1> DEFINE q == [pipe[s] EXCEPT !.pc = pc, !.old = None, !.new = None]
<1>3. pipe[s] \in Pipe
  BY PipeHere, PipeParts
<1>4. q.pc = pc /\ q.new = None /\ q.name = pipe[s].name
  BY <1>3 DEF Pipe
<1> HIDE DEF q
<1>5. Acts(s, q, pipe[s].new)
  BY <1>1, <1>2, CommitsMemory DEF Acts, Carrying, q
<1> QED
  BY <1>1, <1>4, <1>5

LEMMA GetProxyDoes ==
  ASSUME Inv, NEW s \in Services, GetProxy(s)
  PROVE  \E q : /\ Acts(s, q, rows[s])
                /\ \/ /\ IsHost(pipe[s].new.host)
                      /\ SameTask(q, pipe[s]) /\ q.pc = "put" /\ q.new = pipe[s].new
                      /\ q.cur = hosts[pipe[s].new.host]
                   \/ ~IsHost(pipe[s].new.host) /\ q = ProxyLost(pipe[s])
<1> DEFINE q == [pipe[s] EXCEPT !.pc = "put", !.cur = hosts[pipe[s].new.host]]
<1>1. pipe[s] \in Pipe
  BY PipeHere, PipeParts
<1>2. SameTask(q, pipe[s]) /\ q.pc = "put" /\ q.new = pipe[s].new
      /\ q.cur = hosts[pipe[s].new.host]
  BY <1>1 DEF Pipe, SameTask
<1>3. Go(s, IF IsHost(pipe[s].new.host) THEN q ELSE ProxyLost(pipe[s]))
  BY DEF GetProxy
<1> HIDE DEF q
<1> QED
  BY <1>2, <1>3, ActsQuietly DEF GetProxy

LEMMA FindProxyDoes ==
  ASSUME Inv, NEW s \in Services, FindProxy(s)
  PROVE  \E q : /\ Acts(s, q, rows[s])
                /\ \/ \E g \in HostIds :
                        /\ IsHost(g) /\ pipe[s].name \in hosts[g].names
                        /\ q = ProxyDone(pipe[s], g, IF hosts[g].cert # None THEN "ok"
                                                     ELSE pipe[s].new.ssl)
                   \/ SameTask(q, pipe[s]) /\ q.pc = "create" /\ q.new = pipe[s].new
<1> DEFINE q == [pipe[s] EXCEPT !.pc = "create"]
<1>1. pipe[s] \in Pipe
  BY PipeHere, PipeParts
<1>2. SameTask(q, pipe[s]) /\ q.pc = "create" /\ q.new = pipe[s].new
  BY <1>1 DEF Pipe, SameTask
<1>3. \/ \E g \in HostIds :
           /\ IsHost(g) /\ pipe[s].name \in hosts[g].names
           /\ Go(s, ProxyDone(pipe[s], g, IF hosts[g].cert # None THEN "ok" ELSE pipe[s].new.ssl))
      \/ Go(s, q)
  BY DEF FindProxy
<1> HIDE DEF q
<1> QED
  BY <1>2, <1>3, ActsQuietly DEF FindProxy

LEMMA FindCertDoes ==
  ASSUME Inv, NEW s \in Services, FindCert(s)
  PROVE  \E q : /\ Acts(s, q, rows[s]) /\ q.name = pipe[s].name /\ q.old = pipe[s].old
                /\ q.new = pipe[s].new
                /\ \/ q.pc = "getattach" /\ q.cert \in CertIds /\ Lists(q.cert, pipe[s].name)
                   \/ q.pc = "issue" /\ \A c \in CertIds : ~Lists(c, pipe[s].name)
<1>1. pipe[s] \in Pipe
  BY PipeHere, PipeParts
<1>2. ASSUME NEW c \in CertIds, Lists(c, pipe[s].name),
             Go(s, [pipe[s] EXCEPT !.pc = "getattach", !.cert = c])
      PROVE  \E q : /\ Acts(s, q, rows[s]) /\ q.name = pipe[s].name /\ q.old = pipe[s].old
                    /\ q.new = pipe[s].new
                    /\ q.pc = "getattach" /\ q.cert \in CertIds /\ Lists(q.cert, pipe[s].name)
  <2> DEFINE q == [pipe[s] EXCEPT !.pc = "getattach", !.cert = c]
  <2>1. q.name = pipe[s].name /\ q.old = pipe[s].old /\ q.new = pipe[s].new
        /\ q.pc = "getattach" /\ q.cert = c
    BY <1>1 DEF Pipe
  <2>2. Acts(s, q, rows[s])
    BY <1>2, ActsQuietly DEF FindCert
  <2> HIDE DEF q
  <2> QED
    BY <1>2, <2>1, <2>2
<1>3. ASSUME \A c \in CertIds : ~Lists(c, pipe[s].name),
             Go(s, [pipe[s] EXCEPT !.pc = "issue", !.tries = 1])
      PROVE  \E q : /\ Acts(s, q, rows[s]) /\ q.name = pipe[s].name /\ q.old = pipe[s].old
                    /\ q.new = pipe[s].new
                    /\ q.pc = "issue" /\ \A c \in CertIds : ~Lists(c, pipe[s].name)
  <2> DEFINE q == [pipe[s] EXCEPT !.pc = "issue", !.tries = 1]
  <2>1. q.name = pipe[s].name /\ q.old = pipe[s].old /\ q.new = pipe[s].new /\ q.pc = "issue"
    BY <1>1 DEF Pipe
  <2>2. Acts(s, q, rows[s])
    BY <1>3, ActsQuietly DEF FindCert
  <2> HIDE DEF q
  <2> QED
    BY <1>3, <2>1, <2>2
<1>4. \/ \E c \in CertIds : /\ Lists(c, pipe[s].name)
                            /\ Go(s, [pipe[s] EXCEPT !.pc = "getattach", !.cert = c])
      \/ /\ \A c \in CertIds : ~Lists(c, pipe[s].name)
         /\ Go(s, [pipe[s] EXCEPT !.pc = "issue", !.tries = 1])
  BY DEF FindCert
<1>5. CASE \E c \in CertIds : /\ Lists(c, pipe[s].name)
                              /\ Go(s, [pipe[s] EXCEPT !.pc = "getattach", !.cert = c])
  BY <1>2, <1>5
<1>6. CASE /\ \A c \in CertIds : ~Lists(c, pipe[s].name)
           /\ Go(s, [pipe[s] EXCEPT !.pc = "issue", !.tries = 1])
  BY <1>3, <1>6
<1> QED
  BY <1>4, <1>5, <1>6

LEMMA SaveCertDoes ==
  ASSUME Inv, Serial, NEW s \in Services, SaveCert(s)
  PROVE  \E q : /\ Acts(s, q, pipe[s].new)
                /\ q.pc = "getattach" /\ q.old = pipe[s].new /\ q.new = pipe[s].new
                /\ q.name = pipe[s].name /\ q.cert = pipe[s].cert
<1> DEFINE q == [pipe[s] EXCEPT !.pc = "getattach", !.old = rows'[s], !.new = rows'[s]]
<1>1. pipe[s] \in Pipe
  BY PipeHere, PipeParts
<1>2. rows' = [rows EXCEPT ![s] = pipe[s].new] /\ rows'[s] = pipe[s].new
  BY CommitsMemory DEF SaveCert, At, Carrying
<1>3. /\ q.pc = "getattach" /\ q.old = rows'[s] /\ q.new = rows'[s]
      /\ q.name = pipe[s].name /\ q.cert = pipe[s].cert
  BY <1>1 DEF Pipe
<1>4. Go(s, q)
  BY DEF SaveCert
<1> HIDE DEF q
<1> QED
  BY <1>2, <1>3, <1>4 DEF Acts

LEMMA GetAttachDoes ==
  ASSUME Inv, NEW s \in Services, GetAttach(s)
  PROVE  \E q : /\ Acts(s, q, rows[s])
                /\ \/ /\ pipe[s].new.host # None /\ IsHost(pipe[s].new.host)
                      /\ SameTask(q, pipe[s]) /\ q.pc = "putattach" /\ q.new = pipe[s].new
                      /\ q.cur = hosts[pipe[s].new.host]
                   \/ q = CertFailed(pipe[s])
<1> DEFINE q == [pipe[s] EXCEPT !.pc = "putattach", !.cur = hosts[pipe[s].new.host]]
<1>1. pipe[s] \in Pipe
  BY PipeHere, PipeParts
<1>2. SameTask(q, pipe[s]) /\ q.pc = "putattach" /\ q.new = pipe[s].new
      /\ q.cur = hosts[pipe[s].new.host]
  BY <1>1 DEF Pipe, SameTask
<1>3. Go(s, IF pipe[s].new.host # None /\ IsHost(pipe[s].new.host) THEN q
            ELSE CertFailed(pipe[s]))
  BY DEF GetAttach
<1> HIDE DEF q
<1> QED
  BY <1>2, <1>3, ActsQuietly DEF GetAttach

LEMMA ConcludeDoes ==
  ASSUME Inv, NEW s \in Services, rows[s] # None, Conclude(s)
  PROVE  \E r \in Row : /\ Acts(s, [OffPipe EXCEPT !.pc = "done"], r) /\ SameColumns(r, rows[s])
                        /\ r.state \in {"active", "error"}
                        /\ r.state = "active" => r.dns = "ok" /\ r.npm = "ok" /\ r.ssl = "ok"
<1> DEFINE ok == rows[s].dns = "ok" /\ rows[s].npm = "ok" /\ rows[s].ssl = "ok"
           r == [rows[s] EXCEPT !.state = IF ok THEN "active" ELSE "error"]
<1>1. rows[s] \in Row
  BY RowHere
<1>2. /\ r \in Row /\ SameColumns(r, rows[s]) /\ r.state \in {"active", "error"}
      /\ r.state = "active" => r.dns = "ok" /\ r.npm = "ok" /\ r.ssl = "ok"
  BY <1>1 DEF Row, SameColumns
<1>3. Acts(s, [OffPipe EXCEPT !.pc = "done"], r)
  BY DEF Conclude, Acts
<1> HIDE DEF r
<1> QED
  BY <1>2, <1>3

-----------------------------------------------------------------------------
(* A step of a pipeline leaves everybody else with what they rely on.      *)

LEMMA SerialMove ==
  ASSUME Inv, Serial, UNCHANGED job, NEW s \in Services, pipe[s].pc # "off",
         NEW q, NEW r, Acts(s, q, r), q.pc # "queued",
         r # None, r.name = rows[s].name, PipeSerial(q, r)
  PROVE  Serial'
<1>1. /\ rows[s] # None
      /\ \A t \in Services : pipe'[t] = IF t = s THEN q ELSE pipe[t]
      /\ \A t \in Services : rows'[t] = IF t = s THEN r ELSE rows[t]
  BY AtWork DEF Acts, Go, Inv, StoreOK
<1>2. \A t \in Services : PipeSerial(pipe'[t], rows'[t])
  BY <1>1 DEF Serial
<1>3. ASSUME NEW h \in Clients  PROVE JobSerial(rows', pipe', job'[h])
  <2> DEFINE j == job[h]
  <2>1. JobSerial(rows, pipe, j) /\ (j.pc \in Working => j.s \in Services)
    BY JobHere, EditingParts, DeletingParts DEF Serial, Working
  <2>2. j.pc \in Working => j.s # s
    BY <2>1 DEF JobSerial
  <2> QED
    BY <1>1, <2>1, <2>2 DEF JobSerial
<1>4. NamesApart'
  BY <1>1 DEF Serial, NamesApart
<1>5. Awaited'
  BY <1>1 DEF Serial, Awaited
<1> QED
  BY <1>2, <1>3, <1>4, <1>5 DEF Serial

LEMMA LoadsSerially ==
  ASSUME Inv, Serial, UNCHANGED job, NEW s \in Services, pipe[s].pc \notin Resting,
         NEW q, Loads(s, q)
  PROVE  Serial'
<1>1. rows[s] # None /\ rows[s].state = "provisioning"
  BY AtWork DEF PipeSerial, Resting
<1>2. PipeSerial(q, rows[s])
  BY <1>1 DEF Loads, PipeSerial, Resting
<1> QED
  BY <1>1, <1>2, SerialMove DEF Loads, Resting

(* A row in memory that keeps its name and its state.                      *)
LEMMA CarriesSerially ==
  ASSUME Inv, Serial, UNCHANGED job, NEW s \in Services, pipe[s].pc \in Carrying,
         NEW q, Acts(s, q, rows[s]), q.pc \in Carrying \ {"ensure"},
         q.name = pipe[s].name, q.old = pipe[s].old,
         q.new.name = pipe[s].new.name, q.new.state = pipe[s].new.state
  PROVE  Serial'
<1>1. pipe[s].pc \notin Resting \cup {"off", "begun"}
  BY DEF Carrying, Resting
<1>2. rows[s] # None /\ PipeSerial(pipe[s], rows[s]) /\ pipe[s].new # None
  BY <1>1, AtWork, SpecialValues
<1>3. PipeSerial(q, rows[s]) /\ q.pc # "queued"
  BY <1>1, <1>2 DEF PipeSerial, Carrying, Resting
<1> QED
  BY <1>1, <1>2, <1>3, SerialMove

LEMMA SavesSerially ==
  ASSUME Inv, Serial, UNCHANGED job, NEW s \in Services, pipe[s].pc \in Carrying,
         NEW q, Acts(s, q, pipe[s].new), q.pc \notin Resting \cup {"ensure"},
         q.name = pipe[s].name, q.new = None \/ (q.new = pipe[s].new /\ q.old = pipe[s].new)
  PROVE  Serial'
<1>1. pipe[s].pc \notin Resting \cup {"off", "begun"}
  BY DEF Carrying, Resting
<1>2. /\ rows[s] # None /\ PipeSerial(pipe[s], rows[s]) /\ pipe[s].new # None
      /\ pipe[s].new \in Row
  BY <1>1, AtWork, SpecialValues
<1>3. PipeSerial(q, pipe[s].new) /\ pipe[s].new.name = rows[s].name
  BY <1>1, <1>2 DEF PipeSerial, Resting
<1> QED
  BY <1>1, <1>2, <1>3, SerialMove DEF Resting

LEMMA ConcludesSerially ==
  ASSUME Inv, Serial, UNCHANGED job, NEW s \in Services, pipe[s].pc # "off", Conclude(s)
  PROVE  Serial'
<1> DEFINE q == [OffPipe EXCEPT !.pc = "done"]
<1>1. rows[s] # None
  BY AtWork
<1>2. PICK r \in Row : /\ Acts(s, q, r) /\ SameColumns(r, rows[s])
                       /\ r.state \in {"active", "error"}
  BY <1>1, ConcludeDoes
<1>3. q.pc = "done" /\ q.new = None
  BY DEF OffPipe
<1> HIDE DEF q
<1>4. PipeSerial(q, r) /\ r # None /\ r.name = rows[s].name
  BY <1>2, <1>3, SpecialValues DEF PipeSerial, SameColumns, Resting
<1> QED
  BY <1>2, <1>3, <1>4, SerialMove

LEMMA EndsSerially ==
  ASSUME Inv, Serial, UNCHANGED <<job, rows>>, NEW s \in Services, pipe[s].pc # "off",
         Go(s, OffPipe)
  PROVE  Serial'
<1>1. rows[s] # None /\ Acts(s, OffPipe, rows[s])
  BY AtWork, ActsQuietly
<1>2. PipeSerial(OffPipe, rows[s]) /\ OffPipe.pc = "off"
  BY DEF PipeSerial, OffPipe, Resting
<1> QED
  BY <1>1, <1>2, SerialMove

LEMMA PipeStepSerial ==
  ASSUME Inv, Serial, UNCHANGED job, NEW s \in Services, PipeStep(s)
  PROVE  Serial'
<1> DEFINE p == pipe[s]
<1>1. p \in Pipe /\ PipeFits(p) /\ (p.pc \in Carrying => p.new \in Row)
  BY PipeHere, PipeParts DEF PipeOK, PipeFits
<1>2. CASE RowGone(s)
  BY <1>2, AtWork DEF RowGone, Dies
<1>3. CASE Begin(s)
  <2>1. PICK q, r : /\ Acts(s, q, r) /\ r \in Row /\ q.pc = "begun" /\ q.new = None
                    /\ SameColumns(r, rows[s]) /\ r.state = "provisioning"
    BY <1>3, BeginDoes
  <2>2. PipeSerial(q, r) /\ r # None /\ r.name = rows[s].name
    BY <2>1, SpecialValues DEF PipeSerial, SameColumns, Resting
  <2> QED
    BY <1>3, <2>1, <2>2, SerialMove DEF Begin, At
<1>4. CASE LoadDns(s)
  BY <1>4, LoadDnsDoes, LoadsSerially DEF LoadDns, At, Resting
<1>5. CASE EnsureRecord(s)
  <2>1. p.pc \in Carrying
    BY <1>5 DEF EnsureRecord, Carrying
  <2>2. PICK q : /\ Acts(s, q, rows[s]) /\ SameTask(q, p) /\ q.pc = "ensured"
                 /\ q.new.name = p.new.name /\ q.new.state = p.new.state
    BY <1>5, EnsureRecordDoes
  <2> QED
    BY <2>1, <2>2, CarriesSerially DEF SameTask, Carrying
<1>6. CASE SaveStep(s)
  <2>1. PICK q : /\ Acts(s, q, p.new) /\ q.pc \in {"proxy", "secure", "finish"}
                 /\ q.new = None /\ q.name = p.name
    BY <1>6, SaveStepDoes
  <2> QED
    BY <1>6, <2>1, SaveStepDoes, SavesSerially DEF Carrying, Resting
<1>7. CASE LoadProxy(s)
  BY <1>7, LoadedDoes, LoadsSerially DEF LoadProxy, At, ProxyPc, Resting
<1>8. ASSUME p.pc \in Carrying, NEW q, Acts(s, q, rows[s]), q.pc \in Carrying \ {"ensure"},
             q.name = p.name, q.old = p.old,
             q.new = p.new \/ SameRecord(q.new, p.new)
      PROVE  Serial'
  BY <1>8, CarriesSerially DEF SameRecord
<1>9. CASE GetProxy(s)
  <2>1. p.pc \in Carrying
    BY <1>9 DEF GetProxy, Carrying
  <2>2. PICK q : /\ Acts(s, q, rows[s])
                 /\ \/ SameTask(q, p) /\ q.pc = "put" /\ q.new = p.new
                    \/ q = ProxyLost(p)
    BY <1>9, GetProxyDoes
  <2> QED
    BY <1>1, <1>8, <2>1, <2>2, ProxyLostIs DEF SameTask, Carrying
<1>10. CASE PutProxy(s)
  <2>1. p.pc \in Carrying /\ p.new.host \in HostIds /\ p.new.ssl \in Status
    BY <1>1, <1>10, RowParts DEF PutProxy, Carrying, PipeFits
  <2>2. PICK q : /\ Go(s, q)
                 /\ q \in {ProxyLost(p), ProxyDone(p, p.new.host, p.new.ssl), ProxyFailed(p)}
    BY <1>10 DEF PutProxy
  <2>3. Acts(s, q, rows[s])
    BY <1>10, <2>2, ActsQuietly DEF PutProxy
  <2>4. q.pc \in {"find", "proxied"} /\ SameTask(q, p) /\ SameRecord(q.new, p.new)
    BY <1>1, <2>1, <2>2, ProxyLostIs, ProxyDoneIs, ProxyFailedIs
  <2> QED
    BY <1>8, <2>1, <2>3, <2>4 DEF SameTask, Carrying
<1>11. CASE FindProxy(s)
  <2>1. p.pc \in Carrying /\ p.new.ssl \in Status /\ "ok" \in Status
    BY <1>1, <1>11, RowParts DEF FindProxy, Carrying, Status
  <2>2. PICK q : /\ Acts(s, q, rows[s])
                 /\ \/ \E g \in HostIds, ssl \in Status : q = ProxyDone(p, g, ssl)
                    \/ SameTask(q, p) /\ q.pc = "create" /\ q.new = p.new
    BY <1>11, <2>1, FindProxyDoes
  <2> QED
    BY <1>1, <1>8, <2>1, <2>2, ProxyDoneIs DEF SameTask, Carrying
<1>12. CASE CreateProxy(s)
  <2>1. p.pc \in Carrying /\ p.new.ssl \in Status
    BY <1>1, <1>12, RowParts DEF CreateProxy, Carrying
  <2>2. NewId(hosts) \in HostIds
    BY <1>12 DEF CreateProxy, HasNewId, NewId, Inv, StoreOK
  <2>3. PICK q \in {ProxyDone(p, NewId(hosts), p.new.ssl), ProxyFailed(p)} : Go(s, q)
    BY <1>12 DEF CreateProxy
  <2>4. Acts(s, q, rows[s])
    BY <1>12, <2>3, ActsQuietly DEF CreateProxy
  <2>5. q.pc = "proxied" /\ SameTask(q, p) /\ SameRecord(q.new, p.new)
    BY <1>1, <2>1, <2>2, <2>3, ProxyDoneIs, ProxyFailedIs
  <2> QED
    BY <1>8, <2>1, <2>4, <2>5 DEF SameTask, Carrying
<1>13. CASE ProxyCallFails(s)
  <2>1. p.pc \in Carrying /\ Acts(s, ProxyFailed(p), rows[s])
    BY <1>13, ActsQuietly DEF ProxyCallFails, Carrying
  <2> QED
    BY <1>1, <1>8, <2>1, ProxyFailedIs DEF SameTask, Carrying
<1>14. CASE LoadCert(s)
  BY <1>14, LoadedDoes, LoadsSerially, ConcludesSerially DEF LoadCert, At, Resting
<1>15. CASE Finish(s)
  BY <1>15, ConcludesSerially DEF Finish, At
<1>16. CASE FindCert(s)
  <2>1. p.pc \in Carrying
    BY <1>16 DEF FindCert, At, Carrying
  <2> QED
    BY <1>8, <1>16, <2>1, FindCertDoes DEF Carrying
<1>17. CASE IssueCert(s)
  <2> DEFINE c == NewId(certs)
  <2>1. p.pc \in Carrying /\ c \in CertIds
    BY <1>17 DEF IssueCert, Carrying, HasNewId, NewId, Inv, StoreOK
  <2>2. \/ Go(s, [p EXCEPT !.pc = "issued", !.cert = c, !.new = [@ EXCEPT !.cert = c]])
        \/ Go(s, AgainOrFail(p))
    BY <1>17 DEF IssueCert
  <2>3. UNCHANGED rows
    BY <1>17 DEF IssueCert
  <2> HIDE DEF c
  <2>4. CASE Go(s, [p EXCEPT !.pc = "issued", !.cert = c, !.new = [@ EXCEPT !.cert = c]])
    <3> DEFINE q == [p EXCEPT !.pc = "issued", !.cert = c, !.new = [@ EXCEPT !.cert = c]]
    <3>1. q.pc = "issued" /\ q.name = p.name /\ q.old = p.old /\ SameRecord(q.new, p.new)
      BY <1>1, <2>1, IssuedIs
    <3>2. Acts(s, q, rows[s])
      BY <2>3, <2>4, ActsQuietly
    <3> HIDE DEF q
    <3> QED
      BY <1>8, <2>1, <3>1, <3>2 DEF Carrying
  <2>5. CASE Go(s, AgainOrFail(p))
    <3>1. p.pc = "issue" /\ Acts(s, AgainOrFail(p), rows[s])
      BY <1>17, <2>3, <2>5, ActsQuietly DEF IssueCert
    <3> QED
      BY <1>1, <1>8, <2>1, <3>1, AgainIs DEF SameTask, Carrying
  <2> QED
    BY <2>2, <2>4, <2>5
<1>18. CASE IssueFails(s)
  <2>1. p.pc = "issue" /\ p.pc \in Carrying /\ Acts(s, AgainOrFail(p), rows[s])
    BY <1>18, ActsQuietly DEF IssueFails, At, Carrying
  <2> QED
    BY <1>1, <1>8, <2>1, AgainIs DEF SameTask, Carrying
<1>19. CASE SaveCert(s)
  <2>1. p.pc \in Carrying
    BY <1>19 DEF SaveCert, At, Carrying
  <2> QED
    BY <1>19, <2>1, SaveCertDoes, SavesSerially DEF Resting
<1>20. CASE GetAttach(s)
  <2>1. p.pc \in Carrying
    BY <1>20 DEF GetAttach, Carrying
  <2>2. PICK q : /\ Acts(s, q, rows[s])
                 /\ \/ SameTask(q, p) /\ q.pc = "putattach" /\ q.new = p.new
                    \/ q = CertFailed(p)
    BY <1>20, GetAttachDoes
  <2> QED
    BY <1>1, <1>8, <2>1, <2>2, CertFailedIs DEF SameTask, Carrying
<1>21. CASE PutAttach(s)
  <2> DEFINE a == [p EXCEPT !.pc = "attached", !.cur = None,
                            !.new = [@ EXCEPT !.cert = p.cert, !.ssl = "ok"]]
  <2>1. p.pc \in Carrying
    BY <1>21 DEF PutAttach, Carrying
  <2>2. PICK q \in {a, CertFailed(p)} : Go(s, q)
    BY <1>21 DEF PutAttach
  <2>3. a.pc = "attached" /\ SameTask(a, p) /\ SameRecord(a.new, p.new)
    BY <1>1, <2>1, AttachedIs
  <2> HIDE DEF a
  <2>4. Acts(s, q, rows[s])
    BY <1>21, <2>2, ActsQuietly DEF PutAttach
  <2>5. q.pc = "attached" /\ SameTask(q, p) /\ SameRecord(q.new, p.new)
    BY <1>1, <2>1, <2>2, <2>3, CertFailedIs
  <2> QED
    BY <1>8, <2>1, <2>4, <2>5 DEF SameTask, Carrying
<1>22. CASE CertCallFails(s)
  <2>1. p.pc \in Carrying /\ Acts(s, CertFailed(p), rows[s])
    BY <1>22, ActsQuietly DEF CertCallFails, Carrying
  <2> QED
    BY <1>1, <1>8, <2>1, CertFailedIs DEF SameTask, Carrying
<1>23. CASE Leave(s)
  BY <1>23, EndsSerially DEF Leave, At
<1> QED
  BY <1>2, <1>3, <1>4, <1>5, <1>6, <1>7, <1>9, <1>10, <1>11, <1>12, <1>13, <1>14, <1>15, <1>16,
     <1>17, <1>18, <1>19, <1>20, <1>21, <1>22, <1>23 DEF PipeStep

-----------------------------------------------------------------------------
(* The one handler.                                                        *)

LEMMA NoneQueued ==
  ASSUME OneClient, Serial, NEW h \in Clients, job[h].pc # "answer"
  PROVE  \A s \in Services : pipe[s].pc # "queued"
  BY DEF OneClient, Serial, Awaited

LEMMA OnlyHandler ==
  ASSUME OneClient, Inv, NEW h \in Clients, NEW j, Put(h, j)
  PROVE  job'[h] = j /\ \A k \in Clients : job'[k] = j
  BY DEF OneClient, Inv, Put

(* It reads or calls.                                                      *)
LEMMA CallSerial ==
  ASSUME OneClient, Inv, Serial, UNCHANGED <<rows, pipe>>,
         NEW h \in Clients, \A s \in Services : pipe[s].pc # "queued",
         NEW j, Put(h, j), JobSerial(rows, pipe, j)
  PROVE  Serial'
<1>1. \A k \in Clients : JobSerial(rows', pipe', job'[k])
  BY OnlyHandler DEF JobSerial
<1> QED
  BY <1>1 DEF Serial, NamesApart, Awaited

LEMMA IdleSerial ==
  ASSUME NEW R, NEW P
  PROVE  JobSerial(R, P, IdleJob)
  BY DEF JobSerial, IdleJob, Working, Editing, Deleting

(* It writes a row and asks for a run.                                     *)
LEMMA StartSerial ==
  ASSUME OneClient, Inv, Serial, NEW h \in Clients, job[h].pc # "answer",
         NEW s \in Services, pipe[s].pc = "off", StartRun(h, s),
         NEW r, rows' = [rows EXCEPT ![s] = r], r # None,
         \A t \in Services \ {s} : rows[t] # None => rows[t].name # r.name
  PROVE  Serial'
<1> DEFINE q == [OffPipe EXCEPT !.pc = "queued"]
           a == [IdleJob EXCEPT !.pc = "answer", !.s = s]
<1>1. /\ \A t \in Services : pipe'[t] = IF t = s THEN q ELSE pipe[t]
      /\ \A t \in Services : rows'[t] = IF t = s THEN r ELSE rows[t]
  BY DEF StartRun, RequestRun, At, Go, Inv, StoreOK
<1>2. q.pc = "queued" /\ q.new = None
  BY DEF OffPipe
<1>3. a.pc = "answer" /\ a.s = s
  BY DEF IdleJob
<1>4. \A k \in Clients : job'[k] = a
  BY OnlyHandler DEF StartRun
<1> HIDE DEF q, a
<1>5. \A t \in Services : PipeSerial(pipe'[t], rows'[t])
  <2>1. PipeSerial(q, r)
    BY <1>2 DEF PipeSerial, Resting
  <2> QED
    BY <1>1, <2>1 DEF Serial
<1>6. \A k \in Clients : JobSerial(rows', pipe', job'[k])
  BY <1>3, <1>4 DEF JobSerial, Working, Editing, Deleting
<1>7. NamesApart'
  BY <1>1 DEF Serial, NamesApart
<1>8. Awaited'
  BY <1>1, <1>3, <1>4, NoneQueued DEF Awaited
<1> QED
  BY <1>5, <1>6, <1>7, <1>8 DEF Serial

(* It deletes a row.                                                       *)
LEMMA DropSerial ==
  ASSUME OneClient, Inv, Serial, UNCHANGED pipe, NEW h \in Clients, job[h].pc # "answer",
         job'[h].pc = "idle", NEW s \in Services, pipe[s].pc = "off", Drop(s)
  PROVE  Serial'
<1>1. \A t \in Services : rows'[t] = IF t = s THEN None ELSE rows[t]
  BY DEF Drop, Inv, StoreOK
<1>2. \A t \in Services : PipeSerial(pipe'[t], rows'[t])
  <2>1. PipeSerial(pipe[s], None)
    BY PipeHere DEF PipeSerial, PipeOK, PipeFits, Carrying, Resting
  <2> QED
    BY <1>1, <2>1 DEF Serial
<1>3. \A k \in Clients : JobSerial(rows', pipe', job'[k])
  BY DEF JobSerial, Working, Editing, Deleting, OneClient
<1>4. NamesApart'
  BY <1>1 DEF Serial, NamesApart
<1>5. Awaited'
  BY NoneQueued DEF Awaited
<1> QED
  BY <1>2, <1>3, <1>4, <1>5 DEF Serial

LEMMA NewIdFree ==
  ASSUME Inv, Serial, NEW s \in Services, IsNextId(s)
  PROVE  rows[s] = None /\ pipe[s].pc = "off"
<1>1. rows[s] = None
  BY PlanOK DEF IsNextId
<1> QED
  BY <1>1 DEF Serial, PipeSerial

(* A service on which nobody works has no run waiting either.              *)
LEMMA OffNow ==
  ASSUME OneClient, Serial, NEW h \in Clients, job[h].pc # "answer",
         NEW s \in Services, ~InFlight(s)
  PROVE  pipe[s].pc = "off"
  BY NoneQueued DEF InFlight

LEMMA RowsAsTheyAre ==
  ASSUME Inv, NEW s \in Services, UNCHANGED rows
  PROVE  rows' = [rows EXCEPT ![s] = rows[s]]
  BY DEF Inv, StoreOK

LEMMA CreateSerial ==
  ASSUME OneClient, Inv, Serial, NEW h \in Clients, NEW s \in Services, NEW n \in Names,
         NEW o \in ValidOverrides, Create(h, s, n, o)
  PROVE  Serial'
<1>1. NewRow(n, o) # None /\ NewRow(n, o).name = n
  BY NewRowOK, SpecialValues DEF ValidOverrides, NewRow
<1>2. \A t \in Services \ {s} : rows[t] # None => rows[t].name # NewRow(n, o).name
  BY <1>1 DEF Create, NameFree
<1>3. pipe[s].pc = "off" /\ job[h].pc # "answer"
  BY NewIdFree DEF Create, Request, Idle
<1> QED
  BY <1>1, <1>2, <1>3, StartSerial DEF Create

LEMMA RetrySerial ==
  ASSUME OneClient, Inv, Serial, NEW h \in Clients, NEW s \in Services, Retry(h, s)
  PROVE  Serial'
<1>1. pipe[s].pc = "off" /\ job[h].pc # "answer"
  BY OffNow DEF Retry, Request, Idle
<1>2. rows' = [rows EXCEPT ![s] = rows[s]] /\ rows[s] # None
  BY RowsAsTheyAre DEF Retry
<1>3. \A t \in Services \ {s} : rows[t] # None => rows[t].name # rows[s].name
  BY <1>2 DEF Serial, NamesApart
<1> QED
  BY <1>1, <1>2, <1>3, StartSerial DEF Retry

LEMMA ImportSerial ==
  ASSUME OneClient, Inv, Serial, NEW h \in Clients, NEW g \in HostIds, Import(h, g)
  PROVE  Serial'
<1>1. PICK r : Put(h, [IdleJob EXCEPT !.pc = "gethost", !.new = r])
  BY DEF Import
<1>2. JobSerial(rows, pipe, [IdleJob EXCEPT !.pc = "gethost", !.new = r])
  BY DEF JobSerial, IdleJob, Working, Editing, Deleting
<1> QED
  BY <1>1, <1>2, NoneQueued, CallSerial DEF Import, Request, Idle

LEMMA ImportReadSerial ==
  ASSUME OneClient, Inv, Serial, NEW h \in Clients, ImportRead(h)
  PROVE  Serial'
<1>1. job[h] \in Job /\ job[h].pc = "gethost" /\ \A s \in Services : pipe[s].pc # "queued"
  BY JobHere, JobParts, NoneQueued DEF ImportRead
<1>2. CASE Answer(h)
  BY <1>1, <1>2, IdleSerial, CallSerial DEF ImportRead, Answer
<1>3. ASSUME NEW n \in Names, NameFree(n), NEW g,
             Put(h, [job[h] EXCEPT !.pc = "insert", !.new = ImportedRow(n, g)])
      PROVE  Serial'
  <2> DEFINE j == [job[h] EXCEPT !.pc = "insert", !.new = ImportedRow(n, g)]
  <2>1. j.pc = "insert" /\ j.new = ImportedRow(n, g)
    BY <1>1 DEF Job
  <2>2. ImportedRow(n, g).name = n
    BY DEF ImportedRow, NewRow
  <2> HIDE DEF j
  <2>3. JobSerial(rows, pipe, j)
    BY <1>3, <2>1, <2>2 DEF JobSerial, Working, Editing, Deleting, NameFree
  <2> QED
    BY <1>1, <1>3, <2>3, CallSerial DEF ImportRead, j
<1> QED
  BY <1>2, <1>3 DEF ImportRead

LEMMA ImportInsertSerial ==
  ASSUME OneClient, Inv, Serial, NEW h \in Clients, ImportInsert(h)
  PROVE  Serial'
<1>1. job[h].pc = "insert" /\ JobFits(job[h])
  BY JobHere DEF ImportInsert, JobOK
<1>2. PICK s \in Services : /\ IsNextId(s) /\ rows' = [rows EXCEPT ![s] = job[h].new]
                            /\ StartRun(h, s)
  BY DEF ImportInsert
<1>3. rows[s] = None /\ pipe[s].pc = "off"
  BY <1>2, NewIdFree
<1>4. \A t \in Services \ {s} : rows[t] # None => rows[t].name # job[h].new.name
  BY <1>1 DEF Serial, JobSerial
<1> QED
  BY <1>1, <1>2, <1>3, <1>4, StartSerial DEF JobFits

LEMMA SaveEditSerial ==
  ASSUME OneClient, Inv, Serial, NEW h \in Clients, job[h].pc # "answer",
         NEW s \in Services, rows[s] \in Row, pipe[s].pc = "off", NEW new \in Row,
         \A t \in Services \ {s} : rows[t] # None => rows[t].name # new.name,
         SaveEdit(h, s, rows[s], new)
  PROVE  Serial'
<1>1. rows' = [rows EXCEPT ![s] = Merged(rows[s], rows[s], new)]
  BY CommitMerges DEF SaveEdit
<1>2. Merged(rows[s], rows[s], new) = new /\ new # None /\ StartRun(h, s)
  BY MergedSame, SpecialValues DEF SaveEdit
<1> QED
  BY <1>1, <1>2, StartSerial

LEMMA EditSerial ==
  ASSUME OneClient, Inv, Serial, NEW h \in Clients, NEW s \in Services, NEW n \in Names,
         NEW o \in ValidOverrides \cup {None}, Edit(h, s, n, o)
  PROVE  Serial'
<1> DEFINE pc == EditPc(rows[s], n, o)
           new == Edited(rows[s], n, o)
<1>1. rows[s] \in Row /\ rows[s] # None
  BY RowHere DEF Edit
<1>2. new \in Row /\ new.name = n
  <2>1. "name" \in DOMAIN rows[s]
    BY <1>1 DEF Row
  <2> QED
    BY <1>1, <2>1, EditedOK DEF Edited
<1>3. job[h].pc # "answer" /\ pipe[s].pc = "off"
  BY OffNow DEF Edit, Request, Idle
<1>4. \A t \in Services \ {s} : rows[t] # None => rows[t].name # n
  <2>1. CASE n = rows[s].name
    BY <1>1, <2>1 DEF Serial, NamesApart
  <2>2. CASE n # rows[s].name
    BY <2>2 DEF Edit, Renames, NameFree
  <2> QED
    BY <2>1, <2>2
<1>5. IF pc = "save" THEN SaveEdit(h, s, rows[s], new)
      ELSE /\ Put(h, [IdleJob EXCEPT !.pc = pc, !.s = s, !.old = rows[s], !.new = new])
           /\ UNCHANGED <<rows, pipe>>
  BY DEF Edit
<1>6. pc \in {"getnames", "unrecord", "save"}
  BY DEF EditPc, AfterHost
<1> HIDE DEF new, pc
<1>7. CASE pc = "save"
  BY <1>1, <1>2, <1>3, <1>4, <1>5, <1>7, SaveEditSerial
<1>8. CASE pc # "save"
  <2> DEFINE j == [IdleJob EXCEPT !.pc = pc, !.s = s, !.old = rows[s], !.new = new]
  <2>1. j.pc = pc /\ j.s = s /\ j.old = rows[s] /\ j.new = new
    BY DEF IdleJob
  <2> HIDE DEF j
  <2>2. JobSerial(rows, pipe, j)
    BY <1>2, <1>3, <1>4, <1>6, <2>1 DEF JobSerial
  <2> QED
    BY <1>3, <1>5, <1>8, <2>2, NoneQueued, CallSerial DEF j
<1> QED
  BY <1>7, <1>8

(* A handler that goes on with what it has in hand.                        *)
LEMMA OnSerial ==
  ASSUME OneClient, Inv, Serial, UNCHANGED <<rows, pipe>>, NEW h \in Clients,
         job[h].pc \in Working, NEW j, Put(h, j), j.pc \in Working,
         j.pc \in Editing => job[h].pc \in Editing,
         j.s = job[h].s, j.old = job[h].old,
         j.pc \in Editing => j.new.name = job[h].new.name
  PROVE  Serial'
<1>1. JobSerial(rows, pipe, j)
  BY DEF Serial, JobSerial, Working, Editing, Deleting
<1> QED
  BY <1>1, NoneQueued, CallSerial DEF Working, Editing, Deleting

LEMMA EditStepsSerial ==
  ASSUME OneClient, Inv, Serial, NEW h \in Clients,
         GetNames(h) \/ GetCert(h) \/ RenameFails(h) \/ PutNames(h) \/ DropCert(h) \/ Unrecord(h)
  PROVE  Serial'
<1> DEFINE j == job[h]
<1>1. j.pc \in Editing
  BY DEF GetNames, GetCert, RenameFails, PutNames, DropCert, Unrecord, Editing
<1>2. j \in Job /\ j.new \in Row /\ j.pc \in Working /\ UNCHANGED <<rows, pipe>>
  BY <1>1, JobHere, EditingParts
  DEF GetNames, GetCert, RenameFails, PutNames, DropCert, Unrecord, Working
<1>3. ASSUME NEW k, Put(h, k), k.pc \in Editing, k.s = j.s, k.old = j.old, k.new.name = j.new.name
      PROVE  Serial'
  BY <1>1, <1>2, <1>3, OnSerial DEF Working
<1>4. ASSUME NEW pc \in Editing, NEW cur, Put(h, [j EXCEPT !.pc = pc, !.cur = cur])
      PROVE  Serial'
  <2> DEFINE k == [j EXCEPT !.pc = pc, !.cur = cur]
  <2>1. k.pc = pc /\ k.s = j.s /\ k.old = j.old /\ k.new = j.new
    BY <1>2 DEF Job
  <2> HIDE DEF k
  <2> QED
    BY <1>3, <1>4, <2>1 DEF k
<1>5. AfterHost(j.old) \in {"unrecord", "save"}
  BY AfterHostIs
<1>6. CASE GetNames(h)
  BY <1>4, <1>6 DEF GetNames, Editing
<1>7. CASE GetCert(h)
  <2> DEFINE c == IF j.old.cert # None THEN None ELSE hosts[j.old.host].cert
             k == [j EXCEPT !.pc = "putnames", !.cur.cert = c]
  <2>1. k.pc = "putnames" /\ k.s = j.s /\ k.old = j.old /\ k.new = j.new
    BY <1>2 DEF Job
  <2>2. Put(h, k)
    BY <1>7 DEF GetCert
  <2> HIDE DEF k
  <2> QED
    BY <1>3, <2>1, <2>2 DEF Editing
<1>8. CASE RenameFails(h)
  BY <1>4, <1>5, <1>8 DEF RenameFails, HostWarning, Editing
<1>9. CASE PutNames(h)
  BY <1>4, <1>5, <1>9 DEF PutNames, HostWarning, Editing
<1>10. CASE DropCert(h)
  <2> DEFINE r == [j.new EXCEPT !.cert = None]
             k == [j EXCEPT !.pc = AfterHost(j.old), !.new = r]
  <2>1. r.name = j.new.name
    BY <1>2 DEF Row
  <2> HIDE DEF r
  <2>2. k.pc = AfterHost(j.old) /\ k.s = j.s /\ k.old = j.old /\ k.new = r
    BY <1>2 DEF Job
  <2>3. Put(h, k)
    BY <1>2, <1>10 DEF DropCert, Job, r
  <2> HIDE DEF k
  <2> QED
    BY <1>3, <1>5, <2>1, <2>2, <2>3 DEF Editing
<1>11. CASE Unrecord(h)
  <2> DEFINE k == [j EXCEPT !.pc = "save"]
  <2>1. k.pc = "save" /\ k.s = j.s /\ k.old = j.old /\ k.new = j.new
    BY <1>2 DEF Job
  <2>2. Put(h, k)
    BY <1>11 DEF Unrecord, Step
  <2> HIDE DEF k
  <2> QED
    BY <1>3, <2>1, <2>2 DEF Editing
<1> QED
  BY <1>6, <1>7, <1>8, <1>9, <1>10, <1>11

LEMMA SaveJobSerial ==
  ASSUME OneClient, Inv, Serial, NEW h \in Clients, SaveJob(h)
  PROVE  Serial'
<1> DEFINE j == job[h]
<1>1. /\ j.pc = "save" /\ j.s \in Services /\ j.old \in Row /\ j.new \in Row
      /\ rows[j.s] = j.old /\ pipe[j.s].pc = "off"
      /\ \A t \in Services \ {j.s} : rows[t] # None => rows[t].name # j.new.name
  BY JobHere, EditingParts DEF SaveJob, Serial, JobSerial, Working, Editing
<1>2. rows[j.s] # None
  BY <1>1, SpecialValues
<1>3. SaveEdit(h, j.s, rows[j.s], j.new)
  BY <1>1, <1>2 DEF SaveJob
<1> QED
  BY <1>1, <1>3, SaveEditSerial

LEMMA UnlinkSerial ==
  ASSUME OneClient, Inv, Serial, NEW h \in Clients, NEW s \in Services, Unlink(h, s)
  PROVE  Serial'
<1>1. job[h].pc = "idle" /\ pipe[s].pc = "off"
  BY OffNow DEF Unlink, Request, Idle
<1> QED
  BY <1>1, DropSerial DEF Unlink

LEMMA DeleteSerial ==
  ASSUME OneClient, Inv, Serial, NEW h \in Clients, NEW s \in Services, NEW force,
         Delete(h, s, force)
  PROVE  Serial'
<1> DEFINE pc == DeletePc(rows[s])
<1>1. job[h].pc = "idle" /\ pipe[s].pc = "off"
  BY OffNow DEF Delete, Request, Idle
<1>2. CASE pc = "drop"
  BY <1>1, <1>2, DropSerial DEF Delete
<1>3. CASE pc # "drop"
  <2> DEFINE j == [IdleJob EXCEPT !.pc = pc, !.s = s, !.old = rows[s], !.force = force]
  <2>1. pc \in Deleting
    BY DEF DeletePc, RecordPc, Deleting
  <2>2. Put(h, j) /\ UNCHANGED <<rows, pipe>>
    BY <1>3 DEF Delete
  <2> HIDE DEF pc
  <2>3. j.pc = pc /\ j.s = s /\ j.old = rows[s]
    BY DEF IdleJob
  <2> HIDE DEF j
  <2>4. JobSerial(rows, pipe, j)
    BY <1>1, <2>1, <2>3 DEF JobSerial, Editing, Deleting
  <2> QED
    BY <1>1, <2>2, <2>4, NoneQueued, CallSerial
<1> QED
  BY <1>2, <1>3

LEMMA DeleteStepsSerial ==
  ASSUME OneClient, Inv, Serial, NEW h \in Clients,
         DeleteHost(h) \/ DeleteCert(h) \/ DeleteRecord(h)
  PROVE  Serial'
<1> DEFINE j == job[h]
<1>1. j.pc \in Deleting /\ UNCHANGED <<rows, pipe>>
  BY DEF DeleteHost, DeleteCert, DeleteRecord, Deleting
<1>2. j \in Job
  BY JobHere, JobParts
<1>3. RecordPc(j.old) \in {"delrecord", "drop"}
  BY RecordPcIs
<1>4. PICK pc \in {"delcert", "delrecord", "drop"}, a \in Outcomes : NextDeletion(h, pc, a)
  BY <1>3 DEF DeleteHost, DeleteCert, DeleteRecord
<1> DEFINE k == [j EXCEPT !.pc = pc, !.errors = @ \/ a # "done"]
<1>5. k.pc = pc /\ k.s = j.s /\ k.old = j.old
  BY <1>2 DEF Job
<1>6. Put(h, k)
  BY <1>4 DEF NextDeletion
<1> HIDE DEF k
<1> QED
  BY <1>1, <1>5, <1>6, OnSerial DEF Working, Deleting, Editing

LEMMA DropRowSerial ==
  ASSUME OneClient, Inv, Serial, NEW h \in Clients, DropRow(h)
  PROVE  Serial'
<1>1. /\ job[h].pc = "drop" /\ UNCHANGED pipe
      /\ job[h].s \in Services /\ pipe[job[h].s].pc = "off"
  BY JobHere, DeletingParts DEF DropRow, Serial, JobSerial, Working, Deleting
<1>2. Put(h, IdleJob) /\ (Drop(job[h].s) \/ UNCHANGED rows)
  BY DEF DropRow, Answer
<1>3. job'[h].pc = "idle"
  BY <1>2, OnlyHandler DEF IdleJob
<1> QED
  BY <1>1, <1>2, <1>3, NoneQueued, DropSerial, IdleSerial, CallSerial

LEMMA AnsweredSerial ==
  ASSUME OneClient, Inv, Serial, NEW h \in Clients, Answered(h)
  PROVE  Serial'
<1>1. \A s \in Services : pipe[s].pc # "queued"
  BY DEF Answered, Serial, Awaited, OneClient
<1> QED
  BY <1>1, IdleSerial, CallSerial DEF Answered, Answer

LEMMA CrashSerial ==
  ASSUME OneClient, Inv, Serial, Crash
  PROVE  Serial'
<1>1. \A s \in Services : PipeSerial(OffPipe, rows[s])
  BY DEF PipeSerial, OffPipe, Resting
<1>2. OffPipe.pc = "off"
  BY DEF OffPipe
<1> QED
  BY <1>1, <1>2, IdleSerial DEF Crash, Serial, NamesApart, Awaited

LEMMA RequestFailsSerial ==
  ASSUME OneClient, Inv, Serial, NEW h \in Clients, RequestFails(h)
  PROVE  Serial'
<1>1. \A s \in Services : pipe[s].pc # "queued"
  BY NoneQueued DEF RequestFails
<1> QED
  BY <1>1, IdleSerial, CallSerial DEF RequestFails, Answer

LEMMA TaskFailsSerial ==
  ASSUME Inv, Serial, NEW s \in Services, TaskFails(s)
  PROVE  Serial'
<1>1. pipe[s].pc # "off"
  BY DEF TaskFails, CommitFails, Committing, At
<1> QED
  BY <1>1, EndsSerially DEF TaskFails, CommitFails

LEMMA SerialStart ==
  ASSUME Start
  PROVE  Serial
<1>1. \A s \in Services : PipeSerial(OffPipe, rows[s])
  BY DEF PipeSerial, OffPipe, Resting
<1>2. OffPipe.pc = "off"
  BY DEF OffPipe
<1> QED
  BY <1>1, <1>2, IdleSerial DEF Start, Serial, NamesApart, Awaited

LEMMA SerialStep ==
  ASSUME OneClient, Inv, Serial, [Next]_vars
  PROVE  Serial'
<1>1. ASSUME NEW h \in Clients, Handler(h)  PROVE Serial'
  BY <1>1, AnsweredSerial, ImportReadSerial, ImportInsertSerial, EditStepsSerial, SaveJobSerial,
     DeleteStepsSerial, DropRowSerial DEF Handler
<1>2. ASSUME NEW h \in Clients, NEW s \in Services,
             \/ \E n \in Names : \/ \E o \in ValidOverrides : Create(h, s, n, o)
                                 \/ \E o \in ValidOverrides \cup {None} : Edit(h, s, n, o)
             \/ Retry(h, s) \/ Unlink(h, s)
             \/ \E force \in BOOLEAN : Delete(h, s, force)
      PROVE  Serial'
  BY <1>2, CreateSerial, EditSerial, RetrySerial, UnlinkSerial, DeleteSerial
<1>3. ASSUME NEW h \in Clients, NEW g \in HostIds, Import(h, g)  PROVE Serial'
  BY <1>3, ImportSerial
<1>4. ASSUME NEW s \in Services, Task(s)  PROVE Serial'
  BY <1>4, PipeStepSerial DEF Task
<1>5. CASE Crash
  BY <1>5, CrashSerial
<1>6. ASSUME NEW h \in Clients, RequestFails(h)  PROVE Serial'
  BY <1>6, RequestFailsSerial
<1>7. ASSUME NEW s \in Services, TaskFails(s)  PROVE Serial'
  BY <1>7, TaskFailsSerial
<1>8. CASE UNCHANGED vars
  BY <1>8 DEF vars, Serial, NamesApart, Awaited
<1> QED
  BY <1>1, <1>2, <1>3, <1>4, <1>5, <1>6, <1>7, <1>8 DEF Next

(* A row that waits for its first step has a task.                         *)
NoneWaits ==
  faults = 0 => \A s \in Services :
    rows[s] # None /\ rows[s].state = "pending" => pipe[s].pc # "off"

LEMMA StepWaitsNone ==
  ASSUME Inv, Serial, NoneWaits, [Next]_vars
  PROVE  NoneWaits'
<1> SUFFICES ASSUME faults' = 0, NEW s \in Services,
                    rows'[s] # None, rows'[s].state = "pending"
             PROVE  pipe'[s].pc # "off"
  BY DEF NoneWaits
<1>1. faults = 0 /\ (Runs(s) \/ Started(s) \/ Stays(s))
  BY StepRuns
<1>2. CASE Runs(s)
  BY <1>1, <1>2 DEF Runs, Serial, PipeSerial, Resting, Go, Inv
<1>3. CASE Started(s)
  BY <1>3 DEF Started
<1>4. CASE Stays(s)
  BY <1>1, <1>4 DEF Stays, NoneWaits
<1> QED
  BY <1>1, <1>2, <1>3, <1>4

(* As long as the process does not die and no commit fails, no row is left *)
(* for a client to wait on for ever.  A row that shows "provisioning" has  *)
(* a task in _in_flight, whatever requests overlap; with one request at a  *)
(* time, a row that shows "pending" has a task as well.                    *)
THEOREM NoRowStranded == Spec => []Settled
<1>1. Init => NoneStranded /\ Serial /\ NoneWaits
  BY SerialStart DEF Init, Start, NoneStranded, NoneWaits
<1>2. Inv /\ NoneStranded /\ [Next]_vars => NoneStranded'
  BY StepStrandsNone
<1>3. CASE OneClient
  <2>1. Inv /\ Serial /\ NoneWaits /\ [Next]_vars => Serial' /\ NoneWaits'
    BY <1>3, SerialStep, StepWaitsNone
  <2>2. NoneStranded /\ NoneWaits => Settled
    BY DEF NoneStranded, NoneWaits, Settled, InFlight, Resting
  <2> QED
    BY <1>1, <1>2, <2>1, <2>2, Invariance, PTL DEF Spec
<1>4. CASE ~OneClient
  <2>1. NoneStranded => Settled
    BY <1>4 DEF NoneStranded, Settled, InFlight, Resting
  <2> QED
    BY <1>1, <1>2, <2>1, Invariance, PTL DEF Spec
<1> QED
  BY <1>3, <1>4

-----------------------------------------------------------------------------
(* Certificates.                                                           *)

(* A certificate lists a name (Lists, of any state of NPM).                *)
Serves(C, c, n) == C[c] \notin {Unused, Gone} /\ n \in C[c]

(* Who is about to ask for a certificate asks for a name that has none.    *)
NoneYet == \A s \in Services : pipe[s].pc = "issue" =>
             \A c \in CertIds : ~Serves(certs, c, pipe[s].name)

(* A certificate the app got is the only one of its name.                  *)
UniqueMade == \A c \in made \cap CertIds, d \in CertIds, n \in Names :
                Serves(certs, c, n) /\ Serves(certs, d, n) => d = c

(* The row of a service as its pipeline has it.                            *)
Cur(s) == IF pipe[s].new # None THEN pipe[s].new ELSE rows[s]

(* What a response has named, or a service without a host has kept.        *)
Excused == left \cup strayed

(* A row has a certificate that lists its name.                            *)
CertFits(c, n) == c # None => certs[c] = Gone \/ Serves(certs, c, n) \/ c \in Excused

(* What exists has somebody who answers for it.                            *)
Accounted == \A x \in made : Exists(x) =>
  x \in Excused \/ \E s \in Services : Cur(s) # None /\ x \in Owned(Cur(s))

HostlessKnown == \A s \in Services :
  rows[s] # None /\ rows[s].host = None /\ rows[s].cert # None => rows[s].cert \in strayed

PipeCerts == \A s \in Services :
  /\ Cur(s) # None => CertFits(Cur(s).cert, Cur(s).name)
  /\ pipe[s].pc \in {"issued", "getattach", "putattach"} =>
       certs[pipe[s].cert] = Gone \/ Serves(certs, pipe[s].cert, pipe[s].name)

(* What a request has done by now about the records, the host and the      *)
(* certificate of the row it changes or deletes.                           *)
RecordsSettled(old, new) ==
  \A r \in zone : r \in Owned(old) => r \in left \/ (new # None /\ r \in Owned(new))
HostSettled(row) == row.host # None => hosts[row.host] = Gone \/ row.host \in left
CertSettled(row) == row.cert # None => certs[row.cert] = Gone \/ row.cert \in Excused

(* The order in which a rename and a delete settle them.                   *)
JobAccount(j) ==
  /\ j.pc \in {"gethost", "insert"} => j.new.cert = None
  /\ j.pc \in Editing => j.new.host = j.old.host
  /\ j.pc \in {"getnames", "getcert", "putnames", "dropcert"} => j.new.cert = j.old.cert
  /\ j.pc \in {"unrecord", "save"} =>
       /\ j.new.cert # j.old.cert => j.new.cert = None /\ CertSettled(j.old)
       /\ j.new.name # j.old.name /\ j.new.cert # None => j.new.cert \in Excused
  /\ j.pc = "save" => RecordsSettled(j.old, j.new)
  /\ j.pc \in {"delcert", "delrecord", "drop"} => HostSettled(j.old)
  /\ j.pc \in {"delrecord", "drop"} => CertSettled(j.old)
  /\ j.pc = "drop" => RecordsSettled(j.old, None)

Account ==
  /\ NoneYet /\ UniqueMade /\ Accounted /\ HostlessKnown /\ PipeCerts
  /\ \A h \in Clients : JobAccount(job[h])

-----------------------------------------------------------------------------
(* What a step of a pipeline may do to the objects its service stands for, *)
(* when every call reports what it has done.                               *)

Certified == {"issued", "getattach", "putattach"}
After(q, r) == IF q.new # None THEN q.new ELSE r

(* The row stands for what it stood for.                                   *)
Holds(d, o) ==
  /\ d \in Row /\ d.name = o.name
  /\ d.host = o.host \/ o.host = None \/ ~IsHost(o.host)
  /\ o.dns = "ok" => d.dns = "ok" /\ d.rtype = o.rtype /\ d.rtarget = o.rtarget

Advance(s, q, r) ==
  LET o == Cur(s)  d == After(q, r) IN
  /\ Acts(s, q, r) /\ r # None /\ r.name = rows[s].name /\ Holds(d, o)
  /\ q.pc = "issue" => q.name = r.name /\ \A c \in CertIds : ~Serves(certs', c, q.name)
  /\ q.pc \in Certified => q.name = r.name /\
       \/ Serves(certs', q.cert, q.name)
       \/ pipe[s].pc \in Certified /\ q.cert = pipe[s].cert /\ UNCHANGED certs
  /\ \/ UNCHANGED certs /\ d.cert = o.cert
     \/ /\ UNCHANGED certs /\ pipe[s].pc = "putattach"
        /\ d.cert = pipe[s].cert /\ d.cert \in CertIds /\ IsCert(d.cert)
     \/ /\ pipe[s].pc = "issue" /\ d.cert \in CertIds /\ certs[d.cert] = Unused
        /\ certs' = [certs EXCEPT ![d.cert] = {d.name}]
  /\ \A g \in HostIds : /\ hosts[g] = Gone => hosts'[g] = Gone
                        /\ IsHost(g)' => IsHost(g) \/ g = d.host
  /\ zone \subseteq zone' /\ \A x \in zone' \ zone : x.name = d.name /\ x \in Owned(d)
  /\ made \subseteq made' /\ made' \subseteq made \cup Owned(d)
  /\ UNCHANGED certs => made' \cap CertIds \subseteq made

(* Its memory, or its row, while it works.                                 *)
LEMMA CurHere ==
  ASSUME Inv, Serial, NEW s \in Services, pipe[s].pc # "off"
  PROVE  /\ Cur(s) \in Row /\ Cur(s).name = rows[s].name /\ rows[s] # None /\ rows[s] \in Row
         /\ pipe[s].pc \in Carrying => /\ Cur(s) = pipe[s].new
                                       /\ pipe[s].new \in Row /\ pipe[s].name = rows[s].name
         /\ pipe[s].pc \notin Carrying => Cur(s) = rows[s]
  BY AtWork, SpecialValues DEF Cur, PipeSerial, Carrying, Resting

LEMMA StillHolds ==
  ASSUME NEW o, NEW d \in Row, SameRecord(d, o) \/ SameColumns(d, o) \/ d = o,
         d.host = o.host \/ o.host = None \/ ~IsHost(o.host)
  PROVE  Holds(d, o)
  BY DEF Holds, SameRecord, SameColumns

(* The remote objects are left alone.                                      *)
LEMMA CalmAdvance ==
  ASSUME Inv, Serial, UNCHANGED <<certs, zone, made>>, NEW s \in Services, pipe[s].pc # "off",
         NEW q, NEW r, Acts(s, q, r), r # None, r.name = rows[s].name,
         Holds(After(q, r), Cur(s)), After(q, r).cert = Cur(s).cert,
         q.pc = "issue" => q.name = r.name /\ \A c \in CertIds : ~Serves(certs, c, q.name),
         q.pc \in Certified => q.name = r.name /\
           (Serves(certs, q.cert, q.name) \/ (pipe[s].pc \in Certified /\ q.cert = pipe[s].cert)),
         \A g \in HostIds : /\ hosts[g] = Gone => hosts'[g] = Gone
                            /\ IsHost(g)' => IsHost(g) \/ g = After(q, r).host
  PROVE  Advance(s, q, r)
  BY DEF Advance

(* A step that leaves the remote objects and the row alone.                *)
LEMMA MemoryAdvance ==
  ASSUME Inv, Serial, UNCHANGED <<certs, zone, made, hosts>>,
         NEW s \in Services, pipe[s].pc \in Carrying,
         NEW q, Acts(s, q, rows[s]), q.new \in Row,
         SameRecord(q.new, pipe[s].new) \/ q.new = pipe[s].new, q.new.cert = pipe[s].new.cert,
         \/ q.new.host = pipe[s].new.host
         \/ pipe[s].new.host = None \/ ~IsHost(pipe[s].new.host),
         q.name = pipe[s].name,
         q.pc = "issue" => \A c \in CertIds : ~Serves(certs, c, q.name),
         q.pc \in Certified => \/ Serves(certs, q.cert, q.name)
                               \/ pipe[s].pc \in Certified /\ q.cert = pipe[s].cert
  PROVE  Advance(s, q, rows[s])
<1>1. pipe[s].pc # "off"
  BY DEF Carrying
<1>2. /\ Cur(s) = pipe[s].new /\ pipe[s].new.name = rows[s].name /\ rows[s] # None
      /\ pipe[s].name = rows[s].name
  BY <1>1, CurHere
<1>3. After(q, rows[s]) = q.new
  BY SpecialValues DEF After
<1>4. Holds(q.new, Cur(s))
  BY <1>2, StillHolds
<1>5. \A g \in HostIds : hosts'[g] = hosts[g] /\ (IsHost(g)' => IsHost(g))
  BY DEF IsHost
<1> QED
  BY <1>1, <1>2, <1>3, <1>4, <1>5, CalmAdvance

(* A step that commits, loads or ends.                                     *)
LEMMA RowAdvance ==
  ASSUME Inv, Serial, UNCHANGED remote, NEW s \in Services, pipe[s].pc # "off",
         NEW q, NEW r \in Row, Acts(s, q, r), r = Cur(s) \/ SameColumns(r, Cur(s)),
         q.new \in {None, r},
         q.pc # "issue",
         q.pc \in Certified => /\ q.name = rows[s].name
                               /\ pipe[s].pc \in Certified /\ q.cert = pipe[s].cert
  PROVE  Advance(s, q, r)
<1>1. UNCHANGED <<certs, zone, made, hosts>>
  BY DEF remote
<1>2. r # None /\ After(q, r) = r /\ r.name = rows[s].name
  BY CurHere, SpecialValues DEF After, SameColumns
<1>3. r.cert = Cur(s).cert /\ r.host = Cur(s).host
  BY DEF SameColumns
<1>4. Holds(r, Cur(s))
  BY <1>3, StillHolds
<1>5. \A g \in HostIds : hosts'[g] = hosts[g] /\ (IsHost(g)' => IsHost(g))
  BY <1>1 DEF IsHost
<1> QED
  BY <1>1, <1>2, <1>3, <1>4, <1>5, CalmAdvance

LEMMA ConcludeAdvances ==
  ASSUME Inv, Serial, NEW s \in Services, pipe[s].pc # "off", pipe[s].pc \notin Carrying,
         Conclude(s)
  PROVE  \E q, r : Advance(s, q, r)
<1>1. rows[s] # None /\ Cur(s) = rows[s]
  BY CurHere
<1> DEFINE q == [OffPipe EXCEPT !.pc = "done"]
<1>2. PICK r \in Row : Acts(s, q, r) /\ SameColumns(r, rows[s])
  BY <1>1, ConcludeDoes
<1>3. q.new = None /\ q.pc = "done"
  BY DEF OffPipe
<1>4. UNCHANGED remote
  BY DEF Conclude
<1> HIDE DEF q
<1>5. Advance(s, q, r)
  BY <1>1, <1>2, <1>3, <1>4, RowAdvance DEF Certified
<1> QED
  BY <1>5

LEMMA LeaveAdvances ==
  ASSUME Inv, Serial, NEW s \in Services, Leave(s)
  PROVE  Advance(s, OffPipe, rows[s])
<1>1. pipe[s].pc = "done" /\ UNCHANGED remote /\ UNCHANGED rows
  BY DEF Leave, At
<1>2. Cur(s) = rows[s] /\ rows[s] \in Row
  BY <1>1, CurHere DEF Carrying
<1>3. Acts(s, OffPipe, rows[s])
  BY <1>1, ActsQuietly DEF Leave
<1>4. OffPipe.new = None /\ OffPipe.pc = "off"
  BY DEF OffPipe
<1> QED
  BY <1>1, <1>2, <1>3, <1>4, RowAdvance DEF Certified

LEMMA LoadsAdvance ==
  ASSUME Inv, Serial, UNCHANGED remote, NEW s \in Services, pipe[s].pc # "off",
         pipe[s].pc \notin Carrying, NEW q, Loads(s, q)
  PROVE  Advance(s, q, rows[s])
<1>1. Cur(s) = rows[s] /\ rows[s] \in Row
  BY CurHere
<1> QED
  BY <1>1, RowAdvance DEF Loads, Certified

LEMMA EnsureRecordAdvances ==
  ASSUME ~LostReplies, Inv, Serial, NEW s \in Services, EnsureRecord(s)
  PROVE  \E q, r : Advance(s, q, r)
<1> DEFINE p == pipe[s]
<1>1. PICK q, x :
        /\ Acts(s, q, rows[s]) /\ SameTask(q, p) /\ q.pc = "ensured" /\ q.new \in Row
        /\ q.new.name = p.new.name /\ q.new.host = p.new.host /\ q.new.cert = p.new.cert
        /\ x \in Records /\ x.name = p.name
        /\ zone' = zone \/ zone' = zone \cup {x}
        /\ made' = made \cup (zone' \ zone)
        /\ \/ zone' = zone /\ q.new.dns = "error"
           \/ x \in zone' /\ q.new.dns = "ok" /\ q.new.rtype = x.type /\ q.new.rtarget = x.target
  BY EnsureRecordDoes
<1>2. p.pc = "ensure" /\ p.pc \in Carrying /\ p.pc # "off" /\ UNCHANGED <<certs, hosts>>
  BY DEF EnsureRecord, Carrying
<1>3. /\ Cur(s) = p.new /\ p.new.dns # "ok" /\ p.name = rows[s].name /\ p.new.name = rows[s].name
      /\ rows[s] # None
  BY <1>2, AtWork, CurHere DEF PipeSerial
<1>4. After(q, rows[s]) = q.new
  BY <1>1, SpecialValues DEF After
<1>5. Holds(q.new, Cur(s))
  BY <1>1, <1>3 DEF Holds
<1>6. \A g \in HostIds : hosts'[g] = hosts[g] /\ (IsHost(g)' => IsHost(g))
  BY <1>2 DEF IsHost
<1>7. ASSUME NEW y \in zone' \ zone  PROVE y.name = q.new.name /\ y \in Owned(q.new)
  <2>1. y = x /\ q.new.dns = "ok" /\ q.new.rtype = x.type /\ q.new.rtarget = x.target
    BY <1>1, <1>7
  <2>2. x.type # None
    BY <1>1, SpecialValues DEF Records
  <2> QED
    BY <1>1, <1>3, <2>1, <2>2 DEF Owned
<1>8. /\ zone \subseteq zone' /\ made \subseteq made' /\ made' \subseteq made \cup Owned(q.new)
      /\ made' \cap CertIds \subseteq made
  BY <1>1, <1>7, KindsApart DEF Inv, StoreOK
<1>9. Advance(s, q, rows[s])
  BY <1>1, <1>2, <1>3, <1>4, <1>5, <1>6, <1>7, <1>8 DEF Advance, Certified
<1> QED
  BY <1>9

LEMMA CreateProxyAdvances ==
  ASSUME ~LostReplies, Inv, Serial, NEW s \in Services, CreateProxy(s)
  PROVE  \E q, r : Advance(s, q, r)
<1> DEFINE p == pipe[s]
           g == NewId(hosts)
           q == ProxyDone(p, g, p.new.ssl)
<1>1. p.pc = "create" /\ p.pc \in Carrying /\ p.pc # "off" /\ UNCHANGED <<rows, certs, zone>>
  BY DEF CreateProxy, Carrying
<1>2. g \in HostIds /\ hosts[g] = Unused
  BY DEF CreateProxy, HasNewId, NewId, Inv, StoreOK
<1>3. /\ hosts' = [hosts EXCEPT ![g] = [names |-> {p.name}, cert |-> None]]
      /\ made' = made \cup {g}
      /\ Go(s, q)
  BY DEF CreateProxy, Outcomes
<1>4. /\ p \in Pipe /\ p.new \in Row /\ p.new.ssl \in Status /\ p.new.host = None
      /\ Cur(s) = p.new /\ p.new.name = rows[s].name /\ rows[s] # None /\ p.name = rows[s].name
  BY <1>1, AtWork, CurHere, RowParts DEF PipeFits
<1> HIDE DEF g
<1>5. /\ SameTask(q, p) /\ q.pc = "proxied" /\ q.new \in Row /\ SameRecord(q.new, p.new)
      /\ q.new.cert = p.new.cert /\ q.new.host = g
  BY <1>2, <1>4, ProxyDoneIs
<1>6. Acts(s, q, rows[s])
  BY <1>1, <1>3, ActsQuietly
<1> HIDE DEF q
<1>7. After(q, rows[s]) = q.new
  BY <1>5, SpecialValues DEF After
<1>8. Holds(q.new, Cur(s))
  BY <1>4, <1>5, StillHolds
<1>9. ASSUME NEW k \in HostIds
      PROVE  (hosts[k] = Gone => hosts'[k] = Gone) /\ (IsHost(k)' => IsHost(k) \/ k = q.new.host)
  BY <1>2, <1>3, <1>5, SpecialValues DEF IsHost, Inv, StoreOK
<1>10. g \in Owned(q.new)
  BY <1>2, <1>5, SpecialValues DEF Owned
<1>11. made \subseteq made' /\ made' \subseteq made \cup Owned(q.new) /\ made' \cap CertIds \subseteq made
  BY <1>2, <1>3, <1>10, KindsApart
<1>12. Advance(s, q, rows[s])
  BY <1>1, <1>4, <1>5, <1>6, <1>7, <1>8, <1>9, <1>11 DEF Advance, Certified
<1> QED
  BY <1>12

LEMMA IssueCertAdvances ==
  ASSUME ~LostReplies, Inv, Serial, NEW s \in Services, IssueCert(s)
  PROVE  \E q, r : Advance(s, q, r)
<1> DEFINE p == pipe[s]
           c == NewId(certs)
           q == [p EXCEPT !.pc = "issued", !.cert = c, !.new = [@ EXCEPT !.cert = c]]
<1>1. p.pc = "issue" /\ p.pc \in Carrying /\ p.pc # "off" /\ UNCHANGED <<rows, hosts, zone>>
  BY DEF IssueCert, Carrying
<1>2. c \in CertIds /\ certs[c] = Unused
  BY DEF IssueCert, HasNewId, NewId, Inv, StoreOK
<1>3. certs' = [certs EXCEPT ![c] = {p.name}] /\ made' = made \cup {c} /\ Go(s, q)
  BY DEF IssueCert, Outcomes
<1>4. /\ p \in Pipe /\ p.new \in Row
      /\ Cur(s) = p.new /\ p.new.name = rows[s].name /\ rows[s] # None /\ p.name = rows[s].name
  BY <1>1, AtWork, CurHere
<1> HIDE DEF c
<1>5. /\ q.pc = "issued" /\ q.name = p.name /\ q.cert = c /\ q.new \in Row
      /\ SameRecord(q.new, p.new) /\ q.new.cert = c /\ q.new.host = p.new.host
  BY <1>2, <1>4, IssuedIs
<1>6. Acts(s, q, rows[s])
  BY <1>1, <1>3, ActsQuietly
<1> HIDE DEF q
<1>7. After(q, rows[s]) = q.new /\ q.new.name = p.name
  BY <1>4, <1>5, SpecialValues DEF After, SameRecord
<1>8. Holds(q.new, Cur(s))
  BY <1>4, <1>5, StillHolds
<1>9. \A k \in HostIds : hosts'[k] = hosts[k] /\ (IsHost(k)' => IsHost(k))
  BY <1>1 DEF IsHost
<1>10. c \in Owned(q.new)
  BY <1>2, <1>5, SpecialValues DEF Owned
<1>11. certs'[c] = {p.name} /\ {p.name} \in SUBSET CertNames
  BY <1>2, <1>3, <1>4, RowParts DEF Inv, StoreOK, CertNames
<1>12. certs' # certs /\ Serves(certs', c, p.name)
  BY <1>2, <1>11, SpecialValues DEF Serves
<1>13. Advance(s, q, rows[s])
  BY <1>12, <1>1, <1>2, <1>3, <1>4, <1>5, <1>6, <1>7, <1>8, <1>9, <1>10, <1>11 DEF Advance
<1> QED
  BY <1>13

(* A write of a host that is there changes neither what exists nor what is *)
(* gone.                                                                   *)
LEMMA WriteStays ==
  ASSUME Inv, NEW g \in HostIds, IsHost(g), NEW x, hosts' = [hosts EXCEPT ![g] = x] \/ UNCHANGED hosts
  PROVE  \A k \in HostIds : (hosts[k] = Gone => hosts'[k] = Gone) /\ (IsHost(k)' => IsHost(k))
  BY DEF IsHost, Inv, StoreOK

LEMMA PutProxyAdvances ==
  ASSUME Inv, Serial, NEW s \in Services, PutProxy(s)
  PROVE  \E q, r : Advance(s, q, r)
<1> DEFINE p == pipe[s]
           g == p.new.host
<1>1. p.pc = "put" /\ p.pc \in Carrying /\ p.pc # "off" /\ UNCHANGED <<rows, certs, zone, made>>
  BY DEF PutProxy, Carrying
<1>2. /\ p \in Pipe /\ p.new \in Row /\ g \in HostIds /\ p.new.ssl \in Status
      /\ Cur(s) = p.new /\ p.new.name = rows[s].name /\ rows[s] # None /\ p.name = rows[s].name
  BY <1>1, AtWork, CurHere, RowParts DEF PipeFits
<1>3. PICK q : /\ Go(s, q)
               /\ \/ ~IsHost(g) /\ q = ProxyLost(p)
                  \/ q \in {ProxyDone(p, g, p.new.ssl), ProxyFailed(p)}
  BY DEF PutProxy
<1>4. /\ SameTask(q, p) /\ q.pc \in {"find", "proxied"} /\ q.new \in Row
      /\ SameRecord(q.new, p.new) /\ q.new.cert = p.new.cert
      /\ q.new.host = g \/ ~IsHost(g)
  BY <1>2, <1>3, ProxyLostIs, ProxyDoneIs, ProxyFailedIs
<1>5. \A k \in HostIds : (hosts[k] = Gone => hosts'[k] = Gone) /\ (IsHost(k)' => IsHost(k))
  <2>1. CASE UNCHANGED hosts
    BY <2>1 DEF IsHost
  <2>2. CASE IsHost(g) /\ hosts' = [hosts EXCEPT ![g] = p.cur]
    BY <1>2, <2>2, WriteStays
  <2> QED
    BY <2>1, <2>2 DEF PutProxy
<1>6. Acts(s, q, rows[s]) /\ After(q, rows[s]) = q.new /\ Holds(q.new, Cur(s))
  BY <1>1, <1>2, <1>3, <1>4, ActsQuietly, StillHolds, SpecialValues DEF After
<1>7. Advance(s, q, rows[s])
  BY <1>1, <1>2, <1>4, <1>5, <1>6, CalmAdvance DEF Certified
<1> QED
  BY <1>7

LEMMA PutAttachAdvances ==
  ASSUME Inv, Serial, NEW s \in Services, PutAttach(s)
  PROVE  \E q, r : Advance(s, q, r)
<1> DEFINE p == pipe[s]
           g == p.new.host
           a == [p EXCEPT !.pc = "attached", !.cur = None,
                          !.new = [@ EXCEPT !.cert = p.cert, !.ssl = "ok"]]
<1>1. /\ p.pc = "putattach" /\ p.pc \in Carrying /\ p.pc # "off"
      /\ UNCHANGED <<rows, certs, zone, made>>
  BY DEF PutAttach, Carrying
<1>2. /\ p \in Pipe /\ p.new \in Row /\ g \in HostIds /\ p.cert \in CertIds
      /\ Cur(s) = p.new /\ p.new.name = rows[s].name /\ rows[s] # None /\ p.name = rows[s].name
  BY <1>1, AtWork, CurHere, RowParts DEF PipeFits, Pipe
<1>3. PICK q \in {a, CertFailed(p)} : Go(s, q)
  BY DEF PutAttach
<1>4. /\ IsHost(g) /\ IsCert(p.cert)
      /\ hosts' = [hosts EXCEPT ![g] = [p.cur EXCEPT !.cert = p.cert]]
  BY DEF PutAttach
<1>5. /\ SameTask(a, p) /\ a.pc = "attached" /\ a.new \in Row /\ SameRecord(a.new, p.new)
      /\ a.new.cert = p.cert /\ a.new.host = g
  BY <1>2, AttachedIs
<1> HIDE DEF a
<1>6. /\ SameTask(q, p) /\ q.pc = "attached" /\ q.new \in Row /\ SameRecord(q.new, p.new)
      /\ q.new.cert \in {p.cert, p.new.cert} /\ q.new.host = g
  BY <1>2, <1>3, <1>5, CertFailedIs
<1>7. \A k \in HostIds : (hosts[k] = Gone => hosts'[k] = Gone) /\ (IsHost(k)' => IsHost(k))
  BY <1>2, <1>4, WriteStays
<1>8. Acts(s, q, rows[s]) /\ After(q, rows[s]) = q.new /\ Holds(q.new, Cur(s))
  BY <1>1, <1>2, <1>3, <1>6, ActsQuietly, StillHolds, SpecialValues DEF After
<1>9. Advance(s, q, rows[s])
  BY <1>1, <1>2, <1>4, <1>6, <1>7, <1>8 DEF Advance, Certified
<1> QED
  BY <1>9

LEMMA PipeStepAdvances ==
  ASSUME ~LostReplies, Inv, Serial, NoneYet, NEW s \in Services, PipeStep(s)
  PROVE  \E q, r : Advance(s, q, r)
<1> DEFINE p == pipe[s]
<1>1. p \in Pipe /\ PipeFits(p) /\ (p.pc \in Carrying => p.new \in Row)
  BY PipeHere, PipeParts DEF PipeOK, PipeFits
<1>2. CASE RowGone(s)
  BY <1>2, AtWork DEF RowGone, Dies
<1>3. CASE Begin(s)
  <2>1. PICK q, r : /\ Acts(s, q, r) /\ r \in Row /\ q.pc = "begun" /\ q.new = None
                    /\ SameColumns(r, rows[s])
    BY <1>3, BeginDoes
  <2>2. p.pc = "queued" /\ Cur(s) = rows[s] /\ UNCHANGED remote
    BY <1>3, CurHere DEF Begin, At, Carrying
  <2>3. Advance(s, q, r)
    BY <2>1, <2>2, RowAdvance DEF Certified
  <2> QED
    BY <2>3
<1>4. CASE LoadDns(s)
  BY <1>4, LoadDnsDoes, LoadsAdvance DEF LoadDns, At, Carrying, remote
<1>5. CASE EnsureRecord(s)
  BY <1>5, EnsureRecordAdvances
<1>6. CASE SaveStep(s)
  <2>1. PICK q : Acts(s, q, p.new) /\ q.pc \in {"proxy", "secure", "finish"} /\ q.new = None
    BY <1>6, SaveStepDoes
  <2>2. p.pc \in Carrying /\ p.pc # "off" /\ UNCHANGED remote
    BY <1>6, SaveStepDoes DEF Carrying, SaveStep, Save
  <2>3. Advance(s, q, p.new)
    BY <2>1, <2>2, CurHere, RowAdvance DEF Certified
  <2> QED
    BY <2>3
<1>7. CASE LoadProxy(s)
  BY <1>7, LoadedDoes, LoadsAdvance DEF LoadProxy, At, ProxyPc, Carrying, remote
<1>8. ASSUME p.pc \in Carrying, NEW q, Acts(s, q, rows[s]), q.pc \notin Certified \cup {"issue"},
             q.name = p.name, UNCHANGED <<certs, zone, made, hosts>>, q.new \in Row,
             SameRecord(q.new, p.new) \/ q.new = p.new, q.new.cert = p.new.cert,
             q.new.host = p.new.host \/ p.new.host = None \/ ~IsHost(p.new.host)
      PROVE  \E k, r : Advance(s, k, r)
  BY <1>8, MemoryAdvance
<1>9. CASE GetProxy(s)
  <2>1. p.pc \in Carrying /\ UNCHANGED <<certs, zone, made, hosts>>
    BY <1>9 DEF GetProxy, Carrying, remote
  <2>2. PICK q : /\ Acts(s, q, rows[s])
                 /\ \/ SameTask(q, p) /\ q.pc = "put" /\ q.new = p.new
                    \/ ~IsHost(p.new.host) /\ q = ProxyLost(p)
    BY <1>9, GetProxyDoes
  <2> QED
    BY <1>1, <1>8, <2>1, <2>2, ProxyLostIs DEF SameTask, Certified
<1>10. CASE PutProxy(s)
  BY <1>10, PutProxyAdvances
<1>11. CASE FindProxy(s)
  <2>1. /\ p.pc \in Carrying /\ p.new.ssl \in Status /\ "ok" \in Status /\ p.new.host = None
        /\ UNCHANGED <<certs, zone, made, hosts>>
    BY <1>1, <1>11, RowParts DEF FindProxy, Carrying, Status, PipeFits, remote
  <2>2. PICK q : /\ Acts(s, q, rows[s])
                 /\ \/ \E g \in HostIds, ssl \in Status : q = ProxyDone(p, g, ssl)
                    \/ SameTask(q, p) /\ q.pc = "create" /\ q.new = p.new
    BY <1>11, <2>1, FindProxyDoes
  <2> QED
    BY <1>1, <1>8, <2>1, <2>2, ProxyDoneIs DEF SameTask, Certified
<1>12. CASE CreateProxy(s)
  BY <1>12, CreateProxyAdvances
<1>13. CASE ProxyCallFails(s)
  <2>1. /\ p.pc \in Carrying /\ Acts(s, ProxyFailed(p), rows[s])
        /\ UNCHANGED <<certs, zone, made, hosts>>
    BY <1>13, ActsQuietly DEF ProxyCallFails, Carrying, remote
  <2> QED
    BY <1>1, <1>8, <2>1, ProxyFailedIs DEF SameTask, Certified
<1>14. CASE LoadCert(s)
  <2>1. p.pc = "secure" /\ p.pc \notin Carrying
    BY <1>14 DEF LoadCert, At, Carrying
  <2> QED
    BY <1>14, <2>1, LoadedDoes, LoadsAdvance, ConcludeAdvances DEF LoadCert
<1>15. CASE Finish(s)
  BY <1>15, ConcludeAdvances DEF Finish, At, Carrying
<1>16. CASE FindCert(s)
  <2>1. p.pc \in Carrying /\ UNCHANGED <<certs, zone, made, hosts>>
    BY <1>16 DEF FindCert, At, Carrying, remote
  <2>2. PICK q : /\ Acts(s, q, rows[s]) /\ q.name = p.name /\ q.old = p.old /\ q.new = p.new
                 /\ \/ q.pc = "getattach" /\ q.cert \in CertIds /\ Serves(certs, q.cert, p.name)
                    \/ q.pc = "issue" /\ \A c \in CertIds : ~Serves(certs, c, p.name)
    BY <1>16, FindCertDoes DEF Lists, IsCert, Serves
  <2>3. Advance(s, q, rows[s])
    BY <1>1, <2>1, <2>2, MemoryAdvance DEF Certified
  <2> QED
    BY <2>3
<1>17. CASE IssueCert(s)
  BY <1>17, IssueCertAdvances
<1>18. CASE IssueFails(s)
  <2>1. /\ p.pc = "issue" /\ p.pc \in Carrying /\ Acts(s, AgainOrFail(p), rows[s])
        /\ UNCHANGED <<certs, zone, made, hosts>>
    BY <1>18, ActsQuietly DEF IssueFails, At, Carrying, remote
  <2> DEFINE q == AgainOrFail(p)
  <2>2. /\ SameTask(q, p) /\ q.new \in Row /\ SameRecord(q.new, p.new)
        /\ q.new.cert = p.new.cert /\ q.new.host = p.new.host /\ q.pc \in {"issue", "attached"}
    BY <1>1, <2>1, AgainIs
  <2>3. \A c \in CertIds : ~Serves(certs, c, p.name)
    BY <2>1 DEF NoneYet
  <2> HIDE DEF q
  <2>4. Advance(s, q, rows[s])
    BY <2>1, <2>2, <2>3, MemoryAdvance DEF SameTask, Certified, q
  <2> QED
    BY <2>4
<1>19. CASE SaveCert(s)
  <2>1. PICK q : /\ Acts(s, q, p.new) /\ q.pc = "getattach" /\ q.new = p.new
                 /\ q.name = p.name /\ q.cert = p.cert
    BY <1>19, SaveCertDoes
  <2>2. p.pc = "issued" /\ p.pc \in Carrying /\ UNCHANGED remote
    BY <1>19 DEF SaveCert, At, Carrying
  <2>3. Advance(s, q, p.new)
    BY <2>1, <2>2, CurHere, RowAdvance DEF Certified
  <2> QED
    BY <2>3
<1>20. CASE GetAttach(s)
  <2>1. p.pc = "getattach" /\ p.pc \in Carrying /\ UNCHANGED <<certs, zone, made, hosts>>
    BY <1>20 DEF GetAttach, Carrying, remote
  <2>2. PICK q : /\ Acts(s, q, rows[s])
                 /\ \/ SameTask(q, p) /\ q.pc = "putattach" /\ q.new = p.new
                    \/ q = CertFailed(p)
    BY <1>20, GetAttachDoes
  <2>3. Advance(s, q, rows[s])
    BY <1>1, <2>1, <2>2, CertFailedIs, MemoryAdvance DEF SameTask, Certified
  <2> QED
    BY <2>3
<1>21. CASE PutAttach(s)
  BY <1>21, PutAttachAdvances
<1>22. CASE CertCallFails(s)
  <2>1. /\ p.pc \in Carrying /\ Acts(s, CertFailed(p), rows[s])
        /\ UNCHANGED <<certs, zone, made, hosts>>
    BY <1>22, ActsQuietly DEF CertCallFails, Carrying, remote
  <2> QED
    BY <1>1, <1>8, <2>1, CertFailedIs DEF SameTask, Certified
<1>23. CASE Leave(s)
  BY <1>23, LeaveAdvances
<1> QED
  BY <1>2, <1>3, <1>4, <1>5, <1>6, <1>7, <1>9, <1>10, <1>11, <1>12, <1>13, <1>14, <1>15, <1>16,
     <1>17, <1>18, <1>19, <1>20, <1>21, <1>22, <1>23 DEF PipeStep

-----------------------------------------------------------------------------
(* What the handlers do to the remote objects: nothing comes to be.        *)

Recedes ==
  /\ \A c \in CertIds : certs'[c] \in {certs[c], Gone}
  /\ \A g \in HostIds : (hosts[g] = Gone => hosts'[g] = Gone) /\ (IsHost(g)' => IsHost(g))
  /\ zone' \subseteq zone /\ UNCHANGED made /\ left \subseteq left' /\ strayed \subseteq strayed'

(* A run that has begun is left alone.                                     *)
SameRuns == \A s \in Services :
  pipe'[s] = pipe[s] \/ (pipe[s].pc = "off" /\ pipe'[s].pc = "queued" /\ pipe'[s].new = None)

LEMMA NothingRecedes ==
  ASSUME UNCHANGED remote, left \subseteq left', strayed \subseteq strayed'
  PROVE  Recedes
  BY DEF Recedes, remote, IsHost

LEMMA StartRunSameRuns ==
  ASSUME Inv, NEW h \in Clients, NEW s \in Services, StartRun(h, s)
  PROVE  SameRuns
<1> DEFINE q == [OffPipe EXCEPT !.pc = "queued"]
<1>1. q.pc = "queued" /\ q.new = None
  BY DEF OffPipe
<1>2. IF pipe[s].pc = "off" THEN \A t \in Services : pipe'[t] = IF t = s THEN q ELSE pipe[t]
      ELSE UNCHANGED pipe
  BY DEF StartRun, RequestRun, At, Go, Inv
<1> HIDE DEF q
<1> QED
  BY <1>1, <1>2 DEF SameRuns

LEMMA RemoveCertRecedes ==
  ASSUME Inv, NEW c \in CertIds, NEW a, RemoveCert(c, a)
  PROVE  /\ \A d \in CertIds : certs'[d] \in {certs[d], Gone}
         /\ a # "failed" => certs'[c] = Gone
  BY DEF RemoveCert, Inv, StoreOK

LEMMA RequestRecedes ==
  ASSUME Inv, NEW h \in Clients, NEW s \in Services,
         \/ \E n \in Names : \/ \E o \in ValidOverrides : Create(h, s, n, o)
                             \/ \E o \in ValidOverrides \cup {None} : Edit(h, s, n, o)
         \/ Retry(h, s) \/ Unlink(h, s)
         \/ \E force \in BOOLEAN : Delete(h, s, force)
  PROVE  Recedes /\ SameRuns
<1>1. UNCHANGED <<remote, strayed>> /\ left \subseteq left'
  BY DEF Create, Edit, Retry, Unlink, Delete, seen
<1>2. StartRun(h, s) \/ UNCHANGED pipe
  BY DEF Create, Edit, Retry, Unlink, Delete, SaveEdit
<1>3. UNCHANGED pipe => SameRuns
  BY DEF SameRuns
<1> QED
  BY <1>1, <1>2, <1>3, NothingRecedes, StartRunSameRuns

LEMMA ImportRecedes ==
  ASSUME Inv, NEW h \in Clients, NEW g \in HostIds, Import(h, g)
  PROVE  Recedes /\ SameRuns
  BY NothingRecedes DEF Import, seen, SameRuns

LEMMA HandlerRecedes ==
  ASSUME Inv, NEW h \in Clients, Handler(h)
  PROVE  Recedes /\ SameRuns
<1> DEFINE j == job[h]
<1>1. UNCHANGED pipe => SameRuns
  BY DEF SameRuns
<1>2. JobOK(certs, hosts, j) /\ j \in Job
  BY JobHere, JobParts
<1>3. CASE Answered(h) \/ ImportRead(h) \/ GetNames(h) \/ GetCert(h) \/ RenameFails(h) \/ DropRow(h)
  <2>1. UNCHANGED <<remote, pipe>> /\ left \subseteq left' /\ strayed \subseteq strayed'
    BY <1>3 DEF Answered, ImportRead, GetNames, GetCert, RenameFails, HostWarning, DropRow, seen
  <2> QED
    BY <1>1, <2>1, NothingRecedes
<1>4. CASE ImportInsert(h)
  <2>1. UNCHANGED <<remote, strayed>> /\ left' = left /\ \E s \in Services : StartRun(h, s)
    BY <1>4 DEF ImportInsert
  <2> QED
    BY <2>1, NothingRecedes, StartRunSameRuns
<1>5. CASE SaveJob(h)
  <2>1. UNCHANGED <<remote, strayed>> /\ left' = left
    BY <1>5 DEF SaveJob, seen
  <2>2. StartRun(h, j.s) \/ UNCHANGED pipe
    BY <1>5 DEF SaveJob, SaveEdit
  <2>3. j.s \in Services
    BY <1>2, <1>5, EditingParts DEF SaveJob, Editing
  <2> QED
    BY <1>1, <2>1, <2>2, <2>3, NothingRecedes, StartRunSameRuns
<1>6. CASE PutNames(h)
  <2>1. j.old.host \in HostIds /\ IsHost(j.old.host)
    BY <1>2, <1>6, EditingParts DEF PutNames, Editing, JobOK, JobFits
  <2>2. /\ hosts' = [hosts EXCEPT ![j.old.host] = j.cur]
        /\ UNCHANGED <<zone, certs, made, pipe>> /\ left \subseteq left'
        /\ strayed \subseteq strayed'
    BY <1>6 DEF PutNames, HostWarning
  <2>3. \A k \in HostIds : (hosts[k] = Gone => hosts'[k] = Gone) /\ (IsHost(k)' => IsHost(k))
    BY <2>1, <2>2, WriteStays
  <2> QED
    BY <1>1, <2>2, <2>3 DEF Recedes
<1>7. CASE DropCert(h) \/ DeleteCert(h)
  <2>1. j.old.cert \in CertIds
    BY <1>2, <1>7, EditingParts, DeletingParts
    DEF DropCert, DeleteCert, Editing, Deleting, JobOK, JobFits
  <2>2. /\ \E a \in Outcomes : RemoveCert(j.old.cert, a) /\ left' = Reported({j.old.cert}, a)
        /\ UNCHANGED <<zone, hosts, made, strayed, pipe>>
    BY <1>7 DEF DropCert, DeleteCert
  <2>3. left \subseteq left' /\ \A d \in CertIds : certs'[d] \in {certs[d], Gone}
    BY <2>1, <2>2, RemoveCertRecedes DEF Reported
  <2> QED
    BY <1>1, <2>2, <2>3 DEF Recedes, IsHost
<1>8. CASE Unrecord(h) \/ DeleteRecord(h)
  <2>1. zone' \subseteq zone /\ left \subseteq left' /\ UNCHANGED <<hosts, certs, made, strayed, pipe>>
    BY <1>8 DEF Unrecord, DeleteRecord, RemoveRecord, Reported
  <2> QED
    BY <1>1, <2>1 DEF Recedes, IsHost
<1>9. CASE DeleteHost(h)
  <2>1. j.old.host \in HostIds
    BY <1>2, <1>9, DeletingParts DEF DeleteHost, Deleting, JobOK, JobFits
  <2>2. /\ UNCHANGED hosts \/ hosts' = [hosts EXCEPT ![j.old.host] = Gone]
        /\ left \subseteq left' /\ UNCHANGED <<zone, certs, made, strayed, pipe>>
    BY <1>9 DEF DeleteHost, Reported
  <2>3. \A k \in HostIds : (hosts[k] = Gone => hosts'[k] = Gone) /\ (IsHost(k)' => IsHost(k))
    BY <2>1, <2>2 DEF IsHost, Inv, StoreOK
  <2> QED
    BY <1>1, <2>2, <2>3 DEF Recedes
<1> QED
  BY <1>3, <1>4, <1>5, <1>6, <1>7, <1>8, <1>9 DEF Handler

-----------------------------------------------------------------------------
(* No name gets a second certificate.                                      *)

LEMMA PipeOn ==
  ASSUME NEW s \in Services, PipeStep(s)
  PROVE  pipe[s].pc # "off"
  BY DEF PipeStep, RowGone, Dies, Begin, LoadDns, EnsureRecord, SaveStep, Save, LoadProxy, GetProxy,
     PutProxy, FindProxy, CreateProxy, ProxyCallFails, LoadCert, Finish, Leave, FindCert,
     IssueCert, IssueFails, SaveCert, GetAttach, PutAttach, CertCallFails, At

(* What changes, point by point, with the row d that comes of it.          *)
Moved(s, q, r, d) ==
  /\ \A t \in Services : pipe'[t] = IF t = s THEN q ELSE pipe[t]
  /\ \A t \in Services : rows'[t] = IF t = s THEN r ELSE rows[t]
  /\ rows[s] # None /\ rows[s].name \in Names /\ d \in Row /\ d.name = rows[s].name
  /\ pipe[s].pc \in Carrying => pipe[s].name = rows[s].name
  /\ \/ UNCHANGED certs
     \/ /\ pipe[s].pc = "issue" /\ d.cert \in CertIds /\ certs[d.cert] = Unused
        /\ \A c \in CertIds : certs'[c] = IF c = d.cert THEN {d.name} ELSE certs[c]

LEMMA AdvanceWhere ==
  ASSUME Inv, Serial, NEW s \in Services, pipe[s].pc # "off",
         NEW q, NEW r, Advance(s, q, r)
  PROVE  Moved(s, q, r, After(q, r))
<1>1. /\ rows[s] # None /\ rows[s].name \in Names /\ Cur(s).name = rows[s].name
      /\ pipe[s].pc \in Carrying => pipe[s].name = rows[s].name
  BY CurHere, RowParts
<1>2. After(q, r).name = rows[s].name /\ After(q, r) \in Row
  BY <1>1 DEF Advance, Holds
<1> QED
  BY <1>1, <1>2 DEF Moved, Advance, Acts, Go, Inv, StoreOK

LEMMA AdvanceNoneYet ==
  ASSUME Inv, Serial, NoneYet, NEW s \in Services, pipe[s].pc # "off",
         NEW q, NEW r, Advance(s, q, r)
  PROVE  NoneYet'
<1> DEFINE d == After(q, r)
<1>0. Moved(s, q, r, d)
  BY AdvanceWhere
<1>1. q.pc = "issue" => \A c \in CertIds : ~Serves(certs', c, q.name)
  BY DEF Advance
<1> HIDE DEF d
<1>2. ASSUME NEW t \in Services \ {s}, pipe[t].pc = "issue"
      PROVE  pipe[t].name # rows[s].name
  <2>1. rows[t] # None /\ pipe[t].name = rows[t].name
    BY <1>2, CurHere DEF Carrying
  <2> QED
    BY <2>1, <1>0 DEF Moved, Serial, NamesApart
<1>3. ASSUME NEW t \in Services, pipe'[t].pc = "issue"
      PROVE  \A c \in CertIds : ~Serves(certs', c, pipe'[t].name)
  <2>1. CASE t = s
    BY <1>0, <1>1, <1>3, <2>1 DEF Moved
  <2>2. CASE t # s
    <3>1. pipe'[t] = pipe[t]
      BY <1>0, <2>2 DEF Moved
    <3>2. \A c \in CertIds : ~Serves(certs, c, pipe[t].name)
      BY <1>3, <3>1 DEF NoneYet
    <3>3. pipe[t].name # d.name
      BY <1>0, <1>2, <1>3, <2>2, <3>1 DEF Moved
    <3> QED
      BY <1>0, <3>1, <3>2, <3>3 DEF Moved, Serves
  <2> QED
    BY <2>1, <2>2
<1> QED
  BY <1>3 DEF NoneYet

LEMMA PipeStepIssues ==
  ASSUME ~LostReplies, Inv, Serial, NoneYet, OneCertificatePerName,
         NEW s \in Services, PipeStep(s)
  PROVE  NoneYet' /\ OneCertificatePerName'
<1>1. PICK q, r : Advance(s, q, r)
  BY PipeStepAdvances
<1>2. NoneYet' /\ pipe[s].pc # "off"
  BY <1>1, PipeOn, AdvanceNoneYet
<1>3. CASE UNCHANGED certs
  BY <1>2, <1>3 DEF OneCertificatePerName, IsCert
<1>4. CASE certs' # certs
  <2> DEFINE d == After(q, r)
  <2>0. Moved(s, q, r, d)
    BY <1>1, <1>2, AdvanceWhere
  <2> HIDE DEF d
  <2>1. /\ d.cert \in CertIds
        /\ \A c \in CertIds : certs'[c] = IF c = d.cert THEN {d.name} ELSE certs[c]
        /\ \A c \in CertIds : ~Serves(certs, c, d.name)
    BY <1>4, <2>0 DEF Moved, NoneYet, Carrying
  <2> SUFFICES ASSUME NEW a \in CertIds, NEW b \in CertIds, NEW n \in Names,
                      Serves(certs', a, n), Serves(certs', b, n)
               PROVE  a = b
    BY <1>2 DEF OneCertificatePerName, IsCert, Serves
  <2>2. CASE a # d.cert /\ b # d.cert
    BY <2>1, <2>2 DEF OneCertificatePerName, IsCert, Serves
  <2>3. CASE a = d.cert \/ b = d.cert
    BY <2>1, <2>3 DEF Serves
  <2> QED
    BY <2>2, <2>3
<1> QED
  BY <1>3, <1>4

LEMMA RecedingIssuesNone ==
  ASSUME Inv, NoneYet, OneCertificatePerName, Recedes, SameRuns
  PROVE  NoneYet' /\ OneCertificatePerName'
<1>1. \A c \in CertIds : IsCert(c)' => IsCert(c) /\ certs'[c] = certs[c]
  BY DEF Recedes, IsCert
<1>2. OneCertificatePerName'
  BY <1>1 DEF OneCertificatePerName
<1>3. ASSUME NEW s \in Services, pipe'[s].pc = "issue", NEW c \in CertIds
      PROVE  ~Serves(certs', c, pipe'[s].name)
  <2>1. pipe'[s] = pipe[s]
    BY <1>3 DEF SameRuns
  <2> QED
    BY <1>1, <1>3, <2>1 DEF NoneYet, Serves, IsCert
<1> QED
  BY <1>2, <1>3 DEF NoneYet

LEMMA StepIssues ==
  ASSUME OneClient, ~LostReplies, Inv, Serial, NoneYet, OneCertificatePerName, [Next]_vars
  PROVE  NoneYet' /\ OneCertificatePerName'
<1>1. ASSUME NEW s \in Services, Task(s)
      PROVE  NoneYet' /\ OneCertificatePerName'
  BY <1>1, PipeStepIssues DEF Task
<1>2. CASE Crash
  <2>1. OffPipe.pc = "off"
    BY DEF OffPipe
  <2> QED
    BY <1>2, <2>1 DEF Crash, remote, NoneYet, OneCertificatePerName, IsCert
<1>3. CASE UNCHANGED vars
  BY <1>3 DEF vars, remote, NoneYet, OneCertificatePerName, IsCert
<1>4. ASSUME NEW h \in Clients, Handler(h)
      PROVE  NoneYet' /\ OneCertificatePerName'
  BY <1>4, HandlerRecedes, RecedingIssuesNone
<1>5. ASSUME NEW h \in Clients, NEW s \in Services,
             \/ \E n \in Names : \/ \E o \in ValidOverrides : Create(h, s, n, o)
                                 \/ \E o \in ValidOverrides \cup {None} : Edit(h, s, n, o)
             \/ Retry(h, s) \/ Unlink(h, s)
             \/ \E force \in BOOLEAN : Delete(h, s, force)
      PROVE  NoneYet' /\ OneCertificatePerName'
  BY <1>5, RequestRecedes, RecedingIssuesNone
<1>6. ASSUME NEW h \in Clients, NEW g \in HostIds, Import(h, g)
      PROVE  NoneYet' /\ OneCertificatePerName'
  BY <1>6, ImportRecedes, RecedingIssuesNone
<1>7. ASSUME NEW h \in Clients, RequestFails(h)
      PROVE  NoneYet' /\ OneCertificatePerName'
  BY <1>7 DEF RequestFails, remote, NoneYet, OneCertificatePerName, IsCert
<1>8. ASSUME NEW s \in Services, TaskFails(s)
      PROVE  NoneYet' /\ OneCertificatePerName'
  <2>1. OffPipe.pc = "off" /\ UNCHANGED certs
    BY <1>8 DEF OffPipe, TaskFails, CommitFails, remote
  <2>2. \A t \in Services : pipe'[t] \in {OffPipe, pipe[t]}
    BY <1>8 DEF TaskFails, CommitFails, Go, Inv
  <2> QED
    BY <2>1, <2>2 DEF NoneYet, OneCertificatePerName, IsCert
<1> QED
  BY <1>1, <1>2, <1>3, <1>4, <1>5, <1>6, <1>7, <1>8 DEF Next

(* With one request at a time and no lost replies, a name that has one     *)
(* certificate gets no second one: however often the process dies, between *)
(* whichever two steps, and however often the pipeline is run again.  What *)
(* NPM held before is no concern of the app's.                             *)
THEOREM NoSecondCertificate ==
  ASSUME OneClient, ~LostReplies
  PROVE  Init /\ OneCertificatePerName /\ [][Next]_vars => []OneCertificatePerName
<1>1. Init => Serial /\ NoneYet
  <2>1. OffPipe.pc = "off"
    BY DEF OffPipe
  <2> QED
    BY <2>1, SerialStart DEF Init, Start, NoneYet
<1>2. Inv /\ Serial /\ [Next]_vars => Serial'
  BY SerialStep
<1>3. Inv /\ Serial /\ NoneYet /\ OneCertificatePerName /\ [Next]_vars
        => NoneYet' /\ OneCertificatePerName'
  BY StepIssues
<1> QED
  BY <1>1, <1>2, <1>3, Invariance, PTL DEF Spec

-----------------------------------------------------------------------------
(* What has been made is accounted for.                                    *)

LEMMA CurType ==
  ASSUME Inv, NEW t \in Services
  PROVE  Cur(t) \in Row \cup {None}
  BY PipeHere, PipeParts, RowHere DEF Cur, PipeOK, PipeFits

(* The pipeline's row or the rows of others.                               *)
LEMMA AdvanceCur ==
  ASSUME Inv, Serial, NEW s \in Services, pipe[s].pc # "off",
         NEW q, NEW r, Advance(s, q, r)
  PROVE  \A t \in Services : Cur(t)' = IF t = s THEN After(q, r) ELSE Cur(t)
<1>1. Moved(s, q, r, After(q, r))
  BY AdvanceWhere
<1> QED
  BY <1>1 DEF Moved, Cur, After

LEMMA OneName ==
  ASSUME NEW n \in Names
  PROVE  {n} \notin {Unused, Gone}
<1>1. {n} \in SUBSET CertNames
  BY DEF CertNames
<1> QED
  BY <1>1, SpecialValues

LEMMA OwnedIds ==
  ASSUME NEW row \in Row, NEW x \in Owned(row)
  PROVE  /\ x \in HostIds => x = row.host
         /\ x \in CertIds => x = row.cert
         /\ x \in Records => /\ row.dns = "ok" /\ row.rtype # None
                             /\ x.name = row.name /\ x.type = row.rtype /\ x.target = row.rtarget
         /\ x \in HostIds \cup CertIds \cup Records
  BY RowParts, KindsApart, SpecialValues DEF Owned

(* An object a pipeline lets go of does not exist, or is excused.          *)
LEMMA AdvanceKeeps ==
  ASSUME Inv, Serial, Account, NEW s \in Services, pipe[s].pc # "off",
         NEW q, NEW r, Advance(s, q, r),
         NEW x \in made, Exists(x), x \in Owned(Cur(s))
  PROVE  x \in Excused \/ x \in Owned(After(q, r))
<1> DEFINE o == Cur(s)
           d == After(q, r)
<1>1. o \in Row /\ o.name = rows[s].name /\ (pipe[s].pc \in Carrying => pipe[s].name = o.name)
  BY CurHere
<1>2. d \in Row /\ Holds(d, o)
  BY DEF Advance, Holds
<1>3. zone \subseteq Records
  BY DEF Inv, StoreOK
<1>4. CASE x \in HostIds
  <2>1. x = o.host /\ IsHost(x) /\ x # None
    BY <1>1, <1>3, <1>4, OwnedIds, KindsApart, SpecialValues DEF Exists
  <2> QED
    BY <1>2, <2>1 DEF Holds, Owned
<1>5. CASE x \in Records
  <2>1. /\ o.dns = "ok" /\ o.rtype # None
        /\ x.name = o.name /\ x.type = o.rtype /\ x.target = o.rtarget
    BY <1>1, <1>5, OwnedIds
  <2> QED
    BY <1>2, <1>5, <2>1 DEF Holds, Owned
<1>6. CASE x \in CertIds
  <2>1. x = o.cert /\ IsCert(x) /\ x # None
    BY <1>1, <1>3, <1>6, OwnedIds, KindsApart, SpecialValues DEF Exists
  <2>2. Serves(certs, x, o.name) \/ x \in Excused
    BY <1>1, <2>1, SpecialValues DEF Account, PipeCerts, CertFits, IsCert
  <2>3. CASE d.cert = o.cert
    BY <2>1, <2>3 DEF Owned
  <2>4. CASE pipe[s].pc = "issue"
    <3>1. ~Serves(certs, x, o.name)
      BY <1>1, <1>6, <2>4 DEF Account, NoneYet, Carrying
    <3> QED
      BY <2>2, <3>1
  <2>5. CASE /\ pipe[s].pc = "putattach" /\ d.cert = pipe[s].cert
             /\ d.cert \in CertIds /\ IsCert(d.cert)
    <3>1. Serves(certs, d.cert, o.name) /\ o.name \in Names
      BY <1>1, <2>5, RowParts DEF Account, PipeCerts, Carrying, IsCert
    <3>2. CASE Serves(certs, x, o.name)
      <4>1. d.cert = x
        BY <1>6, <2>5, <3>1, <3>2 DEF Account, UniqueMade
      <4> QED
        BY <2>1, <4>1 DEF Owned
    <3> QED
      BY <2>2, <3>2
  <2> QED
    BY <2>3, <2>4, <2>5 DEF Advance
<1> QED
  BY <1>1, <1>4, <1>5, <1>6, OwnedIds

LEMMA AdvanceExists ==
  ASSUME Inv, Serial, NEW s \in Services, pipe[s].pc # "off",
         NEW q, NEW r, Advance(s, q, r), NEW x, Exists(x)'
  PROVE  Exists(x) \/ x \in Owned(After(q, r))
<1> DEFINE d == After(q, r)
<1>1. CASE x \in HostIds /\ IsHost(x)'
  BY <1>1, SpecialValues DEF Advance, Exists, Owned
<1>2. CASE x \in CertIds /\ IsCert(x)'
  <2>1. Moved(s, q, r, d)
    BY AdvanceWhere
  <2> HIDE DEF d
  <2>2. IsCert(x) \/ x = d.cert
    BY <1>2, <2>1 DEF Moved, IsCert
  <2>3. x \in Owned(d) \/ Exists(x)
    BY <1>2, <2>2, SpecialValues DEF Exists, Owned
  <2> QED
    BY <2>3 DEF d
<1>3. CASE x \in zone'
  BY <1>3 DEF Advance, Exists
<1> QED
  BY <1>1, <1>2, <1>3 DEF Exists

LEMMA AccountTask ==
  ASSUME Inv, Serial, Account, Inv', NEW s \in Services, pipe[s].pc # "off",
         NEW q, NEW r, Advance(s, q, r), UNCHANGED <<job, left>>,
         strayed' = strayed \cup Unhosted'
  PROVE  Account'
<1> DEFINE o == Cur(s)
           d == After(q, r)
<1>1. NoneYet'
  BY AdvanceNoneYet DEF Account
<1>2. \A t \in Services : Cur(t)' = IF t = s THEN d ELSE Cur(t)
  BY AdvanceCur
<1>3. /\ d \in Row /\ d # None /\ d.name = rows[s].name /\ o \in Row /\ o # None /\ o.name = d.name
      /\ rows[s].name \in Names /\ (pipe[s].pc \in Carrying => pipe[s].name = rows[s].name)
  <2>1. Moved(s, q, r, d)
    BY AdvanceWhere
  <2> QED
    BY <2>1, CurHere, SpecialValues DEF Moved
<1>4. Excused \subseteq Excused'
  BY DEF Excused
<1>5. \/ UNCHANGED certs
      \/ /\ pipe[s].pc = "issue" /\ d.cert \in CertIds /\ certs[d.cert] = Unused
         /\ \A c \in CertIds : certs'[c] = IF c = d.cert THEN {d.name} ELSE certs[c]
  <2>1. Moved(s, q, r, d)
    BY AdvanceWhere
  <2> QED
    BY <2>1 DEF Moved
<1>6. made' \subseteq made \cup Owned(d) /\ (UNCHANGED certs => made' \cap CertIds \subseteq made)
  BY DEF Advance
<1>7. UniqueMade'
  <2>1. CASE UNCHANGED certs
    BY <1>6, <2>1 DEF Account, UniqueMade
  <2>2. CASE certs' # certs
    <3>1. \A c \in CertIds : ~Serves(certs, c, d.name)
      BY <1>3, <1>5, <2>2 DEF Account, NoneYet, Carrying
    <3>2. \A c \in made' \cap CertIds : c \in made \/ c = d.cert
      BY <1>3, <1>6, OwnedIds
    <3> HIDE DEF d
    <3> SUFFICES ASSUME NEW a \in made' \cap CertIds, NEW b \in CertIds, NEW n \in Names,
                        Serves(certs', a, n), Serves(certs', b, n)
                 PROVE  b = a
      BY DEF UniqueMade
    <3>3. CASE a # d.cert /\ b # d.cert
      BY <1>5, <2>2, <3>2, <3>3 DEF Account, UniqueMade, Serves
    <3>4. CASE a = d.cert \/ b = d.cert
      BY <1>5, <2>2, <3>1, <3>4 DEF Serves
    <3> QED
      BY <3>3, <3>4
  <2> QED
    BY <2>1, <2>2
<1>8. Accounted'
  <2> SUFFICES ASSUME NEW x \in made', Exists(x)'
               PROVE  x \in Excused' \/ \E t \in Services : Cur(t)' # None /\ x \in Owned(Cur(t)')
    BY DEF Accounted, Owned
  <2>1. CASE x \in Owned(d)
    BY <1>2, <1>3, <2>1
  <2>2. CASE x \notin Owned(d)
    <3>1. x \in made /\ Exists(x)
      BY <1>6, <2>2, AdvanceExists
    <3>2. CASE x \in Excused
      BY <1>4, <3>2
    <3>3. ASSUME NEW t \in Services, Cur(t) # None, x \in Owned(Cur(t))
          PROVE  x \in Excused' \/ Cur(t)' = Cur(t)
      BY <1>2, <1>4, <2>2, <3>1, <3>3, AdvanceKeeps
    <3> QED
      BY <3>1, <3>2, <3>3 DEF Account, Accounted
  <2> QED
    BY <2>1, <2>2
<1>9. HostlessKnown'
  BY RowHere, RowParts DEF HostlessKnown, Unhosted, Inv, StoreOK
<1>10. PipeCerts'
  <2>1. ASSUME NEW t \in Services, Cur(t)' # None  PROVE CertFits(Cur(t).cert, Cur(t).name)'
    <3>1. CASE t # s
      <4>1. Cur(t) \in Row /\ Cur(t)' = Cur(t) /\ CertFits(Cur(t).cert, Cur(t).name)
        BY <1>2, <2>1, <3>1, CurType DEF Account, PipeCerts
      <4>2. /\ Cur(t).cert \in CertIds \cup {None}
            /\ \/ Cur(t).cert # d.cert \/ UNCHANGED certs
               \/ Cur(t).cert = None \/ Cur(t).cert \in Excused
        BY <1>5, <4>1, RowParts, SpecialValues DEF CertFits, Serves
      <4> HIDE DEF d
      <4> QED
        BY <1>4, <1>5, <4>1, <4>2 DEF CertFits, Serves
    <3>2. CASE t = s
      <4>1. Cur(t)' = d /\ CertFits(o.cert, o.name)
        BY <1>2, <1>3, <3>2 DEF Account, PipeCerts
      <4>2. CASE UNCHANGED certs /\ d.cert = o.cert
        BY <1>3, <1>4, <4>1, <4>2 DEF CertFits
      <4>3. CASE UNCHANGED certs /\ pipe[s].pc = "putattach" /\ d.cert = pipe[s].cert
        <5>1. certs[pipe[s].cert] = Gone \/ Serves(certs, pipe[s].cert, d.name)
          BY <1>3, <4>3 DEF Account, PipeCerts, Carrying
        <5> QED
          BY <4>1, <4>3, <5>1 DEF CertFits, Serves
      <4>4. CASE d.cert \in CertIds /\ certs' = [certs EXCEPT ![d.cert] = {d.name}]
        <5>1. certs'[d.cert] = {d.name}
          BY <4>4 DEF Inv, StoreOK
        <5>2. Serves(certs', d.cert, d.name)
          BY <1>3, <5>1, OneName DEF Serves
        <5> QED
          BY <4>1, <5>2 DEF CertFits, Serves
      <4> QED
        BY <4>2, <4>3, <4>4 DEF Advance
    <3> QED
      BY <3>1, <3>2
  <2>2. ASSUME NEW t \in Services, pipe'[t].pc \in Certified
        PROVE  certs'[pipe'[t].cert] = Gone \/ Serves(certs', pipe'[t].cert, pipe'[t].name)
    <3>0. pipe'[t] = IF t = s THEN q ELSE pipe[t]
      <4>1. Moved(s, q, r, d)
        BY AdvanceWhere
      <4> QED
        BY <4>1 DEF Moved
    <3>1. CASE t # s
      <4>1. /\ certs[pipe[t].cert] = Gone \/ Serves(certs, pipe[t].cert, pipe[t].name)
            /\ pipe[t].name \in Names /\ pipe[t].cert \in CertIds
        BY <2>2, <3>0, <3>1, PipeHere, PipeParts
        DEF Account, PipeCerts, Certified, PipeOK, PipeFits, Pipe
      <4>2. UNCHANGED certs \/ certs'[pipe[t].cert] = certs[pipe[t].cert]
        BY <1>5, <4>1, SpecialValues DEF Serves
      <4> QED
        BY <3>0, <3>1, <4>1, <4>2 DEF Serves
    <3>2. CASE t = s
      <4>1. pipe'[t] = q /\ q.name = r.name /\ r.name = rows[s].name
        BY <2>2, <3>0, <3>2 DEF Advance
      <4>2. \/ Serves(certs', q.cert, q.name)
            \/ pipe[s].pc \in Certified /\ q.cert = pipe[s].cert /\ UNCHANGED certs
        BY <2>2, <4>1 DEF Advance
      <4>3. pipe[s].pc \in Certified =>
              /\ pipe[s].name = q.name
              /\ certs[pipe[s].cert] = Gone \/ Serves(certs, pipe[s].cert, pipe[s].name)
        BY <1>3, <4>1 DEF Account, PipeCerts, Certified, Carrying
      <4> QED
        BY <4>1, <4>2, <4>3
    <3> QED
      BY <3>1, <3>2
  <2> QED
    BY <2>1, <2>2 DEF PipeCerts, Certified
<1>11. ASSUME NEW h \in Clients  PROVE JobAccount(job[h])'
  <2> DEFINE j == job[h]
  <2>1. JobAccount(j) /\ j' = j
    BY DEF Account
  <2>2. j.pc \in Working => /\ j.old \in Row /\ j.s # s /\ j.s \in Services /\ rows[j.s] = j.old
    BY JobHere, EditingParts, DeletingParts DEF Working, Serial, JobSerial
  <2>3. j.pc \in Working => j.old.name # d.name
    BY <1>3, <2>2, CurHere, SpecialValues DEF Serial, NamesApart
  <2>4. j.pc \in Working /\ CertSettled(j.old) => CertSettled(j.old)'
    <3>1. j.pc \in Working => j.old.cert \in CertIds \cup {None}
      BY <2>2, RowParts
    <3> QED
      BY <1>4, <1>5, <3>1, SpecialValues DEF CertSettled
  <2>5. j.pc \in Working /\ HostSettled(j.old) => HostSettled(j.old)'
    BY <2>2, RowParts DEF HostSettled, Advance
  <2>6. ASSUME NEW new, j.pc \in Working, RecordsSettled(j.old, new)  PROVE RecordsSettled(j.old, new)'
    <3>1. ASSUME NEW x \in zone', x \in Owned(j.old)  PROVE x \in zone
      <4>1. x \in Records
        BY <3>1 DEF Inv, StoreOK
      <4>2. x.name = j.old.name
        BY <2>2, <2>6, <3>1, <4>1, OwnedIds
      <4> QED
        BY <2>3, <2>6, <3>1, <4>2 DEF Advance
    <3> QED
      BY <2>6, <3>1 DEF RecordsSettled, Owned
  <2> QED
    BY <1>4, <2>1, <2>4, <2>5, <2>6 DEF JobAccount, Working, Editing, Deleting
<1> QED
  BY <1>1, <1>7, <1>8, <1>9, <1>10, <1>11 DEF Account

(* A receding world excuses no less and revives nothing.                   *)
LEMMA RecedeKeeps ==
  ASSUME Inv, Recedes
  PROVE  /\ Excused \subseteq Excused'
         /\ \A x : Exists(x)' => Exists(x)
         /\ \A n : \A c \in CertIds \cup {None} : CertFits(c, n) => CertFits(c, n)'
         /\ UniqueMade => UniqueMade'
         /\ \A row \in Row : /\ HostSettled(row) => HostSettled(row)'
                             /\ CertSettled(row) => CertSettled(row)'
                             /\ \A new : RecordsSettled(row, new) => RecordsSettled(row, new)'
<1>1. Excused \subseteq Excused'
  BY DEF Recedes, Excused
<1>2. \A c \in CertIds : IsCert(c)' => IsCert(c) /\ certs'[c] = certs[c]
  BY DEF Recedes, IsCert
<1>3. \A x : Exists(x)' => Exists(x)
  BY <1>2 DEF Recedes, Exists
<1>4. \A n : \A c \in CertIds \cup {None} : CertFits(c, n) => CertFits(c, n)'
  BY <1>1 DEF Recedes, CertFits, Serves
<1>5. UniqueMade => UniqueMade'
  BY <1>2 DEF Recedes, UniqueMade, IsCert, Serves
<1>6. ASSUME NEW row \in Row
      PROVE  /\ HostSettled(row) => HostSettled(row)'
             /\ CertSettled(row) => CertSettled(row)'
             /\ \A new : RecordsSettled(row, new) => RecordsSettled(row, new)'
  BY <1>1, RowParts DEF Recedes, HostSettled, CertSettled, RecordsSettled, Owned
<1> QED
  BY <1>1, <1>3, <1>4, <1>5, <1>6

LEMMA RecedeNoneYet ==
  ASSUME Inv, NoneYet, Recedes, SameRuns
  PROVE  NoneYet'
<1>1. ASSUME NEW s \in Services, pipe'[s].pc = "issue", NEW c \in CertIds
      PROVE  ~Serves(certs', c, pipe'[s].name)
  <2>1. pipe'[s] = pipe[s]
    BY <1>1 DEF SameRuns
  <2> QED
    BY <1>1, <2>1 DEF NoneYet, Recedes, Serves
<1> QED
  BY <1>1 DEF NoneYet

(* A handler that writes no row.                                           *)
LEMMA AccountCall ==
  ASSUME OneClient, Inv, Account, Recedes, UNCHANGED <<rows, pipe>>,
         NEW h \in Clients, NEW j, Put(h, j), JobAccount(j)'
  PROVE  Account'
<1>1. SameRuns
  BY DEF SameRuns
<1>2. \A t \in Services : Cur(t)' = Cur(t)
  BY DEF Cur
<1>3. Accounted'
  <2>1. made' = made
    BY DEF Recedes
  <2> QED
    BY <1>2, <2>1, RecedeKeeps DEF Account, Accounted, Owned
<1>4. HostlessKnown'
  BY DEF Account, HostlessKnown, Recedes
<1>5. PipeCerts'
  <2>1. \A t \in Services : Cur(t) # None => Cur(t).cert \in CertIds \cup {None}
    BY CurType, RowParts
  <2>2. ASSUME NEW t \in Services, Cur(t) # None, Cur(t).cert # None
        PROVE  \/ certs'[Cur(t).cert] = Gone \/ Serves(certs', Cur(t).cert, Cur(t).name)
               \/ Cur(t).cert \in Excused'
    BY <2>1, <2>2, RecedeKeeps DEF Account, PipeCerts, CertFits
  <2>3. ASSUME NEW t \in Services, pipe[t].pc \in Certified
        PROVE  certs'[pipe[t].cert] = Gone \/ Serves(certs', pipe[t].cert, pipe[t].name)
    <3>1. pipe[t].cert \in CertIds
      BY <2>3, PipeHere, PipeParts DEF Certified, PipeOK, PipeFits, Pipe
    <3> QED
      BY <2>3, <3>1 DEF Account, PipeCerts, Certified, Recedes, Serves
  <2> QED
    BY <1>2, <2>2, <2>3 DEF PipeCerts, Certified, CertFits
<1>6. \A k \in Clients : JobAccount(job[k])'
  BY OnlyHandler
<1>7. NoneYet' /\ UniqueMade'
  BY <1>1, RecedeNoneYet, RecedeKeeps DEF Account
<1> QED
  BY <1>3, <1>4, <1>5, <1>6, <1>7 DEF Account

(* A handler that writes or deletes the row of a service at rest.          *)
LEMMA AccountWrite ==
  ASSUME OneClient, Inv, Account, Recedes, SameRuns, UNCHANGED certs,
         NEW h \in Clients, NEW j, Put(h, j), JobAccount(j)',
         NEW s \in Services, pipe[s].new = None, pipe'[s].new = None,
         NEW r \in Row \cup {None}, rows' = [rows EXCEPT ![s] = r],
         rows[s] # None => \A x \in Owned(rows[s]) :
           Exists(x)' => x \in Excused' \/ (r # None /\ x \in Owned(r)),
         r # None => /\ CertFits(r.cert, r.name)'
                     /\ r.host = None /\ r.cert # None => r.cert \in strayed
  PROVE  Account'
<1>1. \A t \in Services : rows'[t] = IF t = s THEN r ELSE rows[t]
  BY DEF Inv, StoreOK
<1>2. \A t \in Services : pipe[t].new = pipe'[t].new
  <2>1. OffPipe.new = None
    BY DEF OffPipe
  <2>2. \A t \in Services : pipe[t].pc = "off" => pipe[t].new = None
    BY PipeHere DEF PipeOK, PipeFits, Carrying
  <2> QED
    BY <2>2 DEF SameRuns
<1>3. \A t \in Services : Cur(t)' = IF t = s THEN r ELSE Cur(t)
  BY <1>1, <1>2 DEF Cur
<1>4. Cur(s) = rows[s]
  BY DEF Cur
<1>5. Accounted'
  <2> SUFFICES ASSUME NEW x \in made', Exists(x)'
               PROVE  x \in Excused' \/ \E t \in Services : Cur(t)' # None /\ x \in Owned(Cur(t)')
    BY DEF Accounted, Owned
  <2>1. x \in made /\ Exists(x)
    BY RecedeKeeps DEF Recedes
  <2>2. CASE x \in Excused
    BY <2>2, RecedeKeeps
  <2>3. ASSUME NEW t \in Services, Cur(t) # None, x \in Owned(Cur(t))
        PROVE  x \in Excused' \/ \E u \in Services : Cur(u)' # None /\ x \in Owned(Cur(u)')
    BY <1>3, <1>4, <2>3
  <2> QED
    BY <2>1, <2>2, <2>3 DEF Account, Accounted
<1>6. HostlessKnown'
  BY <1>1 DEF Account, HostlessKnown, Recedes
<1>7. PipeCerts'
  <2>1. \A t \in Services : Cur(t) # None => Cur(t).cert \in CertIds \cup {None}
    BY CurType, RowParts
  <2>2. ASSUME NEW t \in Services, Cur(t) # None, Cur(t).cert # None
        PROVE  \/ certs'[Cur(t).cert] = Gone \/ Serves(certs', Cur(t).cert, Cur(t).name)
               \/ Cur(t).cert \in Excused'
    BY <2>1, <2>2, RecedeKeeps DEF Account, PipeCerts, CertFits
  <2>3. ASSUME NEW t \in Services, pipe'[t].pc \in Certified
        PROVE  certs'[pipe'[t].cert] = Gone \/ Serves(certs', pipe'[t].cert, pipe'[t].name)
    BY <2>3 DEF Account, PipeCerts, Certified, SameRuns, Serves
  <2> QED
    BY <1>3, <2>2, <2>3 DEF PipeCerts, Certified, CertFits
<1>8. \A k \in Clients : JobAccount(job[k])'
  BY OnlyHandler
<1>9. NoneYet' /\ UniqueMade'
  BY RecedeNoneYet, RecedeKeeps DEF Account
<1> QED
  BY <1>5, <1>6, <1>7, <1>8, <1>9 DEF Account

LEMMA RestingAccount ==
  ASSUME NEW j, j.pc \in {"idle", "answer"}
  PROVE  JobAccount(j)
  BY DEF JobAccount, Editing

(* A row that goes, with what it stood for settled.                        *)
LEMMA OwnedSettled ==
  ASSUME Inv', NEW row \in Row, HostSettled(row)', CertSettled(row)',
         NEW new, RecordsSettled(row, new)',
         NEW x \in Owned(row), Exists(x)'
  PROVE  x \in Excused' \/ (new # None /\ x \in Owned(new))
<1>1. zone' \subseteq Records
  BY DEF Inv, StoreOK
<1>2. CASE x \in HostIds
  <2>1. x = row.host /\ IsHost(x)' /\ x # None
    BY <1>1, <1>2, OwnedIds, KindsApart, SpecialValues DEF Exists
  <2> QED
    BY <2>1 DEF HostSettled, IsHost, Excused
<1>3. CASE x \in CertIds
  <2>1. x = row.cert /\ IsCert(x)' /\ x # None
    BY <1>1, <1>3, OwnedIds, KindsApart, SpecialValues DEF Exists
  <2> QED
    BY <2>1 DEF CertSettled, IsCert
<1>4. CASE x \in Records
  <2>1. x \in zone'
    BY <1>4, KindsApart DEF Exists
  <2> QED
    BY <2>1 DEF RecordsSettled, Excused, Owned
<1> QED
  BY <1>2, <1>3, <1>4, OwnedIds

LEMMA CreateAccount ==
  ASSUME OneClient, Inv, Serial, Account, NEW h \in Clients, NEW s \in Services,
         NEW n \in Names, NEW o \in ValidOverrides, Create(h, s, n, o)
  PROVE  Account'
<1> DEFINE j == [IdleJob EXCEPT !.pc = "answer", !.s = s]
<1>1. Recedes /\ SameRuns /\ UNCHANGED certs
  BY RequestRecedes DEF Create, remote
<1>2. j.pc = "answer" /\ Put(h, j)
  BY DEF IdleJob, Create, StartRun
<1> HIDE DEF j
<1>3. JobAccount(j)'
  BY <1>2, RestingAccount DEF JobAccount, Editing
<1>4. pipe[s].pc = "off" /\ rows[s] = None /\ pipe[s].new = None
  BY NewIdFree, PipeHere DEF Create, PipeOK, PipeFits, Carrying
<1>5. pipe'[s].new = None
  BY <1>1, <1>4 DEF SameRuns
<1>6. NewRow(n, o) \in Row /\ NewRow(n, o).cert = None
  BY NewRowOK DEF ValidOverrides
<1>7. rows' = [rows EXCEPT ![s] = NewRow(n, o)]
  BY DEF Create
<1> QED
  BY <1>1, <1>2, <1>3, <1>4, <1>5, <1>6, <1>7, AccountWrite DEF CertFits

LEMMA RetryAccount ==
  ASSUME OneClient, Inv, Serial, Account, NEW h \in Clients, NEW s \in Services, Retry(h, s)
  PROVE  Account'
<1> DEFINE j == [IdleJob EXCEPT !.pc = "answer", !.s = s]
<1>1. Recedes /\ SameRuns /\ UNCHANGED <<certs, left, strayed>>
  BY RequestRecedes DEF Retry, remote, seen
<1>2. j.pc = "answer" /\ Put(h, j)
  BY DEF IdleJob, Retry, StartRun
<1> HIDE DEF j
<1>3. JobAccount(j)'
  BY <1>2, RestingAccount DEF JobAccount, Editing
<1>4. pipe[s].new = None
  BY OffNow, PipeHere DEF Retry, Request, Idle, PipeOK, PipeFits, Carrying
<1>5. pipe'[s].new = None
  BY <1>1, <1>4 DEF SameRuns
<1>6. PICK r \in Row \cup {None} :
        r = rows[s] /\ r # None /\ rows' = [rows EXCEPT ![s] = r]
  BY RowsAsTheyAre DEF Retry, Inv, StoreOK
<1>7. Cur(s) = r /\ CertFits(r.cert, r.name)
  BY <1>4, <1>6 DEF Cur, Account, PipeCerts
<1>8. CertFits(r.cert, r.name)'
  BY <1>1, <1>6, <1>7 DEF CertFits, Excused
<1>9. r.host = None /\ r.cert # None => r.cert \in strayed
  BY <1>6 DEF Account, HostlessKnown
<1> QED
  BY <1>1, <1>2, <1>3, <1>4, <1>5, <1>6, <1>8, <1>9, AccountWrite

LEMMA ImportAccount ==
  ASSUME OneClient, Inv, Serial, Account, NEW h \in Clients, NEW g \in HostIds, Import(h, g)
  PROVE  Account'
<1> DEFINE n == CHOOSE m \in Names : TRUE
           b == NewRow(n, [type |-> None, target |-> None])
           r == [b EXCEPT !.host = g]
           j == [IdleJob EXCEPT !.pc = "gethost", !.new = r]
<1>1. Recedes /\ UNCHANGED <<rows, pipe>> /\ Put(h, j)
  BY ImportRecedes DEF Import
<1>2. n \in Names
  BY PlanOK
<1> HIDE DEF n
<1>3. b \in Row /\ b.cert = None
  BY <1>2, BlankRowOK
<1> HIDE DEF b
<1>4. r.cert = None
  BY <1>3 DEF Row
<1> HIDE DEF r
<1>5. j.pc = "gethost" /\ j.new = r
  BY DEF IdleJob
<1> HIDE DEF j
<1>6. JobAccount(j)'
  BY <1>4, <1>5 DEF JobAccount, Editing
<1> QED
  BY <1>1, <1>6, AccountCall

LEMMA ImportReadAccount ==
  ASSUME OneClient, Inv, Serial, Account, NEW h \in Clients, ImportRead(h)
  PROVE  Account'
<1> DEFINE g == job[h].new.host
<1>1. Recedes /\ UNCHANGED <<rows, pipe>>
  BY HandlerRecedes DEF Handler, ImportRead
<1>2. CASE Answer(h)
  BY <1>1, <1>2, RestingAccount, AccountCall DEF Answer, IdleJob, JobAccount, Editing
<1>3. ASSUME NEW n \in Names, Put(h, [job[h] EXCEPT !.pc = "insert", !.new = ImportedRow(n, g)])
      PROVE  Account'
  <2> DEFINE j == [job[h] EXCEPT !.pc = "insert", !.new = ImportedRow(n, g)]
  <2>1. job[h] \in Job
    BY JobHere, JobParts
  <2>2. j.pc = "insert" /\ j.new = ImportedRow(n, g)
    BY <2>1 DEF Job
  <2>3. ImportedRow(n, g).cert = None
    BY DEF ImportedRow, NewRow
  <2> HIDE DEF j
  <2>4. PICK k : Put(h, k) /\ k.pc = "insert" /\ k.new.cert = None
    BY <1>3, <2>2, <2>3 DEF j
  <2>5. JobAccount(k)'
    BY <2>4 DEF JobAccount, Editing
  <2> QED
    BY <1>1, <2>4, <2>5, AccountCall
<1> QED
  BY <1>2, <1>3 DEF ImportRead

LEMMA ImportInsertAccount ==
  ASSUME OneClient, Inv, Serial, Account, NEW h \in Clients, ImportInsert(h)
  PROVE  Account'
<1> DEFINE r == job[h].new
<1>1. Recedes /\ SameRuns /\ UNCHANGED certs
  BY HandlerRecedes DEF Handler, ImportInsert, remote
<1>2. job[h].pc = "insert" /\ r \in Row /\ r.cert = None
  BY JobHere, JobParts DEF ImportInsert, Account, JobAccount, JobOK, JobFits
<1>3. PICK s \in Services : IsNextId(s) /\ rows' = [rows EXCEPT ![s] = r] /\ StartRun(h, s)
  BY DEF ImportInsert
<1> DEFINE j == [IdleJob EXCEPT !.pc = "answer", !.s = s]
<1>4. j.pc = "answer" /\ Put(h, j)
  BY <1>3 DEF IdleJob, StartRun
<1> HIDE DEF j
<1>5. JobAccount(j)'
  BY <1>4, RestingAccount DEF JobAccount, Editing
<1>6. pipe[s].pc = "off" /\ rows[s] = None /\ pipe[s].new = None
  BY <1>3, NewIdFree, PipeHere DEF PipeOK, PipeFits, Carrying
<1>7. pipe'[s].new = None
  BY <1>1, <1>6 DEF SameRuns
<1> HIDE DEF r
<1> QED
  BY <1>1, <1>2, <1>3, <1>4, <1>5, <1>6, <1>7, AccountWrite DEF CertFits

LEMMA EditedRecords ==
  ASSUME NEW row \in Row, NEW n \in Names, NEW o \in ValidOverrides \cup {None},
         EditPc(row, n, o) = "save",
         row.dns = "ok", row.rtype # None, NEW new, new = Edited(row, n, o)
  PROVE  new.name = row.name /\ new.dns = "ok" /\ new.rtype = row.rtype /\ new.rtarget = row.rtarget
<1>1. ~Renames(row, n) /\ ~Replaces(row, n, o) /\ n = row.name
  BY DEF EditPc, AfterHost, Renames
<1>2. KeepsSnapshot(row, n, o)
  BY <1>1 DEF KeepsSnapshot
<1> QED
  BY <1>1, <1>2 DEF Edited, Row

(* A commit of an edited row, when what it no longer stands for is gone or *)
(* has been reported.                                                      *)
LEMMA SaveAccount ==
  ASSUME OneClient, Inv, Inv', Serial, Account, Recedes, SameRuns,
         UNCHANGED <<remote, left, strayed>>, NEW h \in Clients, NEW s \in Services,
         NEW old \in Row, NEW new \in Row, rows[s] = old, pipe[s].pc = "off",
         SaveEdit(h, s, old, new), new.host = old.host,
         new.cert # old.cert => new.cert = None /\ CertSettled(old),
         new.name # old.name /\ new.cert # None => new.cert \in Excused,
         RecordsSettled(old, new)
  PROVE  Account'
<1> DEFINE j == [IdleJob EXCEPT !.pc = "answer", !.s = s]
<1>1. rows' = [rows EXCEPT ![s] = new]
  <2>1. rows' = [rows EXCEPT ![s] = Merged(old, old, new)]
    BY CommitMerges DEF SaveEdit
  <2> QED
    BY <2>1, MergedSame
<1>2. j.pc = "answer" /\ Put(h, j)
  BY DEF IdleJob, SaveEdit, StartRun
<1> HIDE DEF j
<1>3. JobAccount(j)'
  BY <1>2, RestingAccount DEF JobAccount, Editing
<1>4. pipe[s].new = None /\ old # None /\ new # None
  BY PipeHere, SpecialValues DEF PipeOK, PipeFits, Carrying
<1>5. pipe'[s].new = None
  BY <1>4 DEF SameRuns
<1>6. UNCHANGED <<zone, hosts, certs, made>> /\ Excused' = Excused
  BY DEF remote, Excused
<1>7. ASSUME NEW x \in Owned(old), Exists(x)'  PROVE x \in Excused' \/ x \in Owned(new)
  <2>1. zone \subseteq Records /\ Exists(x)
    BY <1>6, <1>7 DEF Inv, StoreOK, Exists, IsHost, IsCert
  <2>2. CASE x \in HostIds
    <3>1. x = old.host /\ x # None
      BY <1>7, <2>2, OwnedIds, SpecialValues
    <3> QED
      BY <3>1 DEF Owned
  <2>3. CASE x \in CertIds
    <3>1. x = old.cert /\ x # None /\ IsCert(x)
      BY <1>7, <2>1, <2>3, OwnedIds, KindsApart, SpecialValues DEF Exists
    <3> QED
      BY <1>6, <3>1 DEF Owned, CertSettled, IsCert
  <2>4. CASE x \in Records
    <3>1. x \in zone
      BY <2>1, <2>4, KindsApart DEF Exists
    <3> QED
      BY <1>6, <1>7, <3>1 DEF RecordsSettled, Excused
  <2> QED
    BY <1>7, <2>2, <2>3, <2>4, OwnedIds
<1>8. CertFits(new.cert, new.name)'
  <2>1. CertFits(old.cert, old.name)
    BY <1>4 DEF Cur, Account, PipeCerts
  <2> QED
    BY <1>6, <2>1 DEF CertFits
<1>9. new.host = None /\ new.cert # None => new.cert \in strayed
  BY <1>4 DEF Account, HostlessKnown
<1> QED
  BY <1>1, <1>2, <1>3, <1>4, <1>5, <1>6, <1>7, <1>8, <1>9, AccountWrite

LEMMA EditAccount ==
  ASSUME OneClient, Inv, Inv', Serial, Account, NEW h \in Clients, NEW s \in Services,
         NEW n \in Names, NEW o \in ValidOverrides \cup {None}, Edit(h, s, n, o)
  PROVE  Account'
<1>1. rows[s] \in Row /\ rows[s] # None /\ pipe[s].pc = "off"
  BY RowHere, OffNow DEF Edit, Request, Idle
<1>2. PICK old \in Row, new \in {Edited(rows[s], n, o)}, pc \in {EditPc(rows[s], n, o)} :
        old = rows[s] /\ new = Edited(old, n, o) /\ pc = EditPc(old, n, o)
  BY <1>1
<1>3. new \in Row /\ new.cert = old.cert /\ new.host = old.host /\ new.name = n
  <2>1. "name" \in DOMAIN old
    BY DEF Row
  <2>2. new.name = n
    BY <1>2, <2>1 DEF Edited
  <2> QED
    BY <1>2, <2>2, EditedOK
<1>4. Recedes /\ SameRuns /\ UNCHANGED <<remote, left, strayed>>
  BY RequestRecedes DEF Edit, seen
<1>5. pc # "getnames" /\ new.name # old.name /\ new.cert # None => new.cert \in strayed
  <2>1. pc # "getnames" /\ new.name # old.name => old.host = None
    BY <1>2, <1>3 DEF EditPc, Renames
  <2> QED
    BY <1>1, <1>2, <1>3, <2>1 DEF Account, HostlessKnown
<1>6. pc = "save" => RecordsSettled(old, new)
  <2>1. ASSUME pc = "save", NEW x \in zone, x \in Owned(old)  PROVE x \in Owned(new)
    <3>1. x \in Records
      BY DEF Inv, StoreOK
    <3>2. old.dns = "ok" /\ old.rtype # None
          /\ x.name = old.name /\ x.type = old.rtype /\ x.target = old.rtarget
      BY <2>1, <3>1, OwnedIds
    <3>3. EditPc(old, n, o) = "save" /\ new = Edited(old, n, o)
      BY <1>2, <2>1
    <3>4. new.name = old.name /\ new.dns = "ok" /\ new.rtype = old.rtype /\ new.rtarget = old.rtarget
      BY <3>2, <3>3, EditedRecords
    <3> QED
      BY <3>1, <3>2, <3>4 DEF Owned
  <2> QED
    BY <1>3, <2>1, SpecialValues DEF RecordsSettled
<1>7. CASE pc = "save"
  <2>1. SaveEdit(h, s, old, new)
    BY <1>2, <1>7 DEF Edit
  <2> QED
    BY <1>1, <1>2, <1>3, <1>4, <1>5, <1>6, <1>7, <2>1, SaveAccount DEF Excused
<1>8. CASE pc # "save"
  <2> DEFINE j == [IdleJob EXCEPT !.pc = pc, !.s = s, !.old = old, !.new = new]
  <2>1. pc \in {"getnames", "unrecord"}
    BY <1>2, <1>8 DEF EditPc, AfterHost
  <2>2. Put(h, j) /\ UNCHANGED <<rows, pipe>>
    BY <1>2, <1>8 DEF Edit
  <2>3. j.pc = pc /\ j.old = old /\ j.new = new
    BY DEF IdleJob
  <2> HIDE DEF j
  <2>4. JobAccount(j)'
    BY <1>3, <1>4, <1>5, <2>1, <2>3 DEF JobAccount, Editing, Excused
  <2> QED
    BY <1>4, <2>2, <2>4, AccountCall
<1> QED
  BY <1>7, <1>8

(* The steps of an edit.                                                   *)
LEMMA EditMemory ==
  ASSUME Inv, Account, NEW h \in Clients, job[h].pc \in Editing
  PROVE  /\ job[h] \in Job /\ job[h].old \in Row /\ job[h].new \in Row
         /\ JobAccount(job[h]) /\ job[h].new.host = job[h].old.host
  BY JobHere, EditingParts DEF Account, JobAccount

LEMMA NoRecordOwned ==
  ASSUME Inv', NEW old \in Row, AfterHost(old) = "save", NEW new
  PROVE  RecordsSettled(old, new)'
<1>1. old.rtype = None /\ zone' \subseteq Records
  BY DEF AfterHost, Inv, StoreOK
<1> QED
  BY <1>1, OwnedIds DEF RecordsSettled, Owned

LEMMA RenamingAccount ==
  ASSUME OneClient, Inv, Inv', Serial, Account, NEW h \in Clients,
         GetNames(h) \/ GetCert(h) \/ RenameFails(h) \/ PutNames(h)
  PROVE  Account'
<1>1. job[h].pc \in {"getnames", "getcert", "putnames"} /\ job[h].pc \in Editing
  BY DEF GetNames, GetCert, RenameFails, PutNames, Editing
<1>2. PICK j \in Job : j = job[h] /\ j.old \in Row /\ j.new \in Row /\ JobAccount(j)
                       /\ j.new.host = j.old.host /\ j.new.cert = j.old.cert
  BY <1>1, EditMemory DEF JobAccount
<1>3. Recedes /\ UNCHANGED <<rows, pipe>>
  BY HandlerRecedes DEF Handler, GetNames, GetCert, RenameFails, PutNames
<1>4. ASSUME NEW pc, NEW cur, Put(h, [j EXCEPT !.pc = pc, !.cur = cur]),
             \/ pc \in {"getcert", "putnames", "dropcert"}
             \/ pc = AfterHost(j.old) /\ (j.old.cert = None \/ j.old.cert \in strayed')
      PROVE  Account'
  <2> DEFINE k == [j EXCEPT !.pc = pc, !.cur = cur]
  <2>1. k.pc = pc /\ k.old = j.old /\ k.new = j.new
    BY DEF Job
  <2> HIDE DEF k
  <2>2. AfterHost(j.old) \in {"unrecord", "save"}
    BY AfterHostIs
  <2>3. k.pc = "save" => RecordsSettled(k.old, k.new)'
    BY <1>2, <1>4, <2>1, NoRecordOwned
  <2>4. JobAccount(k)'
    BY <1>2, <1>4, <2>1, <2>2, <2>3 DEF JobAccount, Editing, Excused
  <2> QED
    BY <1>3, <1>4, <2>4, AccountCall DEF k
<1>5. CASE GetNames(h)
  BY <1>2, <1>4, <1>5 DEF GetNames
<1>6. CASE GetCert(h)
  <2>1. PICK c : Put(h, [j EXCEPT !.pc = "putnames", !.cur.cert = c])
    BY <1>2, <1>6 DEF GetCert
  <2> DEFINE k == [j EXCEPT !.pc = "putnames", !.cur.cert = c]
  <2>2. k.pc = "putnames" /\ k.old = j.old /\ k.new = j.new
    BY DEF Job
  <2> HIDE DEF k
  <2>3. JobAccount(k)'
    BY <1>2, <2>2 DEF JobAccount, Editing
  <2> QED
    BY <1>3, <2>1, <2>3, AccountCall DEF k
<1>7. CASE RenameFails(h)
  BY <1>2, <1>4, <1>7, SpecialValues DEF RenameFails, HostWarning
<1>8. CASE PutNames(h)
  <2>1. \/ Put(h, [j EXCEPT !.pc = IF j.old.cert # None THEN "dropcert" ELSE AfterHost(j.old),
                            !.cur = None])
        \/ HostWarning(h)
    BY <1>2, <1>8 DEF PutNames
  <2>2. CASE HostWarning(h)
    BY <1>2, <1>4, <2>2, SpecialValues DEF HostWarning
  <2>3. CASE Put(h, [j EXCEPT !.pc = IF j.old.cert # None THEN "dropcert" ELSE AfterHost(j.old),
                              !.cur = None])
    BY <1>4, <2>3
  <2> QED
    BY <2>1, <2>2, <2>3
<1> QED
  BY <1>5, <1>6, <1>7, <1>8

LEMMA RecordGone ==
  ASSUME Inv, NEW row \in Row, NEW a, RemoveRecord(row, a), NEW new
  PROVE  RecordsSettled(row, new)'
<1>1. ASSUME NEW x \in zone', x \in Owned(row)  PROVE x \in left'
  <2>1. x \in zone /\ x \in Records
    BY <1>1 DEF RemoveRecord, Inv, StoreOK
  <2>2. x.name = row.name /\ x.type = row.rtype /\ x.target = row.rtarget
    BY <1>1, <2>1, OwnedIds
  <2>3. x \in Matching(row.name, row.rtype, row.rtarget)
    BY <2>1, <2>2 DEF Matching
  <2> QED
    BY <1>1, <2>3 DEF RemoveRecord, Reported
<1> QED
  BY <1>1 DEF RecordsSettled, Owned

LEMMA DropCertAccount ==
  ASSUME OneClient, Inv, Inv', Serial, Account, NEW h \in Clients, DropCert(h)
  PROVE  Account'
<1>1. job[h].pc = "dropcert" /\ job[h].pc \in Editing
  BY DEF DropCert, Editing
<1>2. PICK j \in Job : /\ j = job[h] /\ j.old \in Row /\ j.new \in Row /\ JobAccount(j)
                       /\ j.new.host = j.old.host /\ j.old.cert \in CertIds
  BY <1>1, EditMemory, JobHere, RowParts DEF JobOK, JobFits
<1>3. Recedes /\ UNCHANGED <<rows, pipe>>
  BY HandlerRecedes DEF Handler, DropCert
<1> DEFINE r == [j.new EXCEPT !.cert = None]
           k == [j EXCEPT !.pc = AfterHost(j.old), !.new = r]
<1>4. r.cert = None /\ r.host = j.old.host
  BY <1>2 DEF Row
<1> HIDE DEF r
<1>5. k.pc = AfterHost(j.old) /\ k.old = j.old /\ k.new = r
  BY DEF Job
<1>6. Put(h, k)
  BY <1>2 DEF DropCert, Job, r
<1> HIDE DEF k
<1>7. certs'[j.old.cert] = Gone \/ j.old.cert \in left'
  <2>1. PICK a \in Outcomes : RemoveCert(j.old.cert, a) /\ left' = Reported({j.old.cert}, a)
    BY <1>2 DEF DropCert
  <2>2. a = "done" => certs'[j.old.cert] = Gone
    BY <1>2, <2>1, RemoveCertRecedes
  <2> QED
    BY <2>1, <2>2 DEF Reported
<1>8. AfterHost(j.old) \in {"unrecord", "save"}
  BY AfterHostIs
<1>9. k.pc = "save" => RecordsSettled(k.old, k.new)'
  BY <1>2, <1>5, NoRecordOwned
<1>10. JobAccount(k)'
  BY <1>4, <1>5, <1>7, <1>8, <1>9 DEF JobAccount, CertSettled, Editing, Excused
<1> QED
  BY <1>3, <1>6, <1>10, AccountCall

LEMMA UnrecordAccount ==
  ASSUME OneClient, Inv, Inv', Serial, Account, NEW h \in Clients, Unrecord(h)
  PROVE  Account'
<1>1. job[h].pc = "unrecord" /\ job[h].pc \in Editing
  BY DEF Unrecord, Editing
<1>2. PICK j \in Job : /\ j = job[h] /\ j.old \in Row /\ j.new \in Row /\ JobAccount(j)
                       /\ j.new.host = j.old.host /\ j.pc = "unrecord"
  BY <1>1, EditMemory
<1>3. Recedes /\ UNCHANGED <<rows, pipe, certs>>
  BY HandlerRecedes DEF Handler, Unrecord
<1> DEFINE k == [j EXCEPT !.pc = "save"]
<1>4. k.pc = "save" /\ k.old = j.old /\ k.new = j.new
  BY DEF Job
<1>5. Put(h, k)
  BY <1>2 DEF Unrecord, Step
<1> HIDE DEF k
<1>6. PICK a \in Outcomes : RemoveRecord(j.old, a)
  BY <1>2 DEF Unrecord
<1>7. RecordsSettled(k.old, k.new)'
  BY <1>2, <1>4, <1>6, RecordGone
<1>8. CertSettled(j.old) => CertSettled(j.old)'
  BY <1>2, <1>3, RecedeKeeps
<1>9. Excused \subseteq Excused'
  BY <1>3, RecedeKeeps
<1>10. JobAccount(k)'
  BY <1>2, <1>4, <1>7, <1>8, <1>9 DEF JobAccount, Editing
<1> QED
  BY <1>3, <1>5, <1>10, AccountCall

LEMMA SaveJobAccount ==
  ASSUME OneClient, Inv, Inv', Serial, Account, NEW h \in Clients, SaveJob(h)
  PROVE  Account'
<1>1. job[h].pc = "save" /\ job[h].pc \in Editing /\ job[h].pc \in Working
  BY DEF SaveJob, Editing, Working
<1>2. PICK j \in Job : /\ j = job[h] /\ j.old \in Row /\ j.new \in Row /\ j.s \in Services
                       /\ JobAccount(j) /\ JobSerial(rows, pipe, j) /\ j.pc = "save"
                       /\ j.new.host = j.old.host
  BY <1>1, EditMemory, JobHere, EditingParts DEF Serial
<1>3. rows[j.s] = j.old /\ pipe[j.s].pc = "off"
  BY <1>1, <1>2 DEF JobSerial
<1>4. SaveEdit(h, j.s, j.old, j.new)
  BY <1>2, <1>3, SpecialValues DEF SaveJob
<1>5. Recedes /\ SameRuns /\ UNCHANGED <<remote, left, strayed>>
  BY HandlerRecedes DEF Handler, SaveJob, seen
<1>6. /\ j.new.cert # j.old.cert => j.new.cert = None /\ CertSettled(j.old)
      /\ j.new.name # j.old.name /\ j.new.cert # None => j.new.cert \in Excused
      /\ RecordsSettled(j.old, j.new)
  BY <1>2 DEF JobAccount
<1> QED
  BY <1>2, <1>3, <1>4, <1>5, <1>6, SaveAccount

(* A deletion of the row, with what it stood for settled.                  *)
LEMMA DropAccount ==
  ASSUME OneClient, Inv, Inv', Serial, Account, Recedes, UNCHANGED <<pipe, certs>>,
         NEW h \in Clients, NEW j, Put(h, j), j.pc = "idle",
         NEW s \in Services, NEW old \in Row, rows[s] = old, pipe[s].pc = "off", Drop(s),
         \A x \in Owned(old) : Exists(x)' => x \in Excused'
  PROVE  Account'
<1>1. JobAccount(j)'
  BY RestingAccount DEF JobAccount, Editing
<1>2. pipe[s].new = None
  BY PipeHere DEF PipeOK, PipeFits, Carrying
<1>3. SameRuns
  BY DEF SameRuns
<1> QED
  BY <1>1, <1>2, <1>3, AccountWrite DEF Drop

LEMMA JobStays ==
  ASSUME Inv, UNCHANGED job, NEW h \in Clients
  PROVE  Put(h, job[h])
  BY DEF Put, Inv

(* The certificate of a service without a host has been seen without one.  *)
LEMMA HostlessOwns ==
  ASSUME Account, NEW s \in Services, rows[s] # None, rows[s].host = None
  PROVE  HostSettled(rows[s]) /\ CertSettled(rows[s])
  BY DEF Account, HostlessKnown, HostSettled, CertSettled, Excused

LEMMA NoRecord ==
  ASSUME Inv, NEW row \in Row, RecordPc(row) = "drop", NEW new
  PROVE  RecordsSettled(row, new)
<1>1. zone \subseteq Records
  BY DEF Inv, StoreOK
<1> QED
  BY <1>1, OwnedIds DEF RecordPc, RecordsSettled

LEMMA UnlinkAccount ==
  ASSUME OneClient, Inv, Inv', Serial, Account, NEW h \in Clients, NEW s \in Services, Unlink(h, s)
  PROVE  Account'
<1>1. job[h].pc = "idle" /\ pipe[s].pc = "off" /\ rows[s] \in Row
  BY OffNow, RowHere DEF Unlink, Request, Idle
<1>2. Recedes /\ UNCHANGED <<pipe, certs>> /\ Put(h, job[h]) /\ Drop(s)
  BY RequestRecedes, JobStays DEF Unlink, remote
<1>3. PICK old \in Row : old = rows[s]
  BY <1>1
<1>4. \A x \in Owned(old) : x \in Excused'
  BY <1>3 DEF Unlink, Excused
<1> QED
  BY <1>1, <1>2, <1>3, <1>4, DropAccount

LEMMA DeleteAccount ==
  ASSUME OneClient, Inv, Inv', Serial, Account, NEW h \in Clients, NEW s \in Services,
         NEW force \in BOOLEAN, Delete(h, s, force)
  PROVE  Account'
<1>1. job[h].pc = "idle" /\ pipe[s].pc = "off" /\ rows[s] \in Row /\ rows[s] # None
  BY OffNow, RowHere DEF Delete, Request, Idle
<1>2. Recedes /\ UNCHANGED <<remote, left, strayed, pipe>>
  BY RequestRecedes DEF Delete, seen
<1>3. PICK old \in Row, pc \in {DeletePc(rows[s])} : old = rows[s] /\ pc = DeletePc(old)
  BY <1>1
<1>4. pc # "delhost" => HostSettled(old) /\ CertSettled(old)
  BY <1>1, <1>3, HostlessOwns DEF DeletePc
<1>5. UNCHANGED <<hosts, zone, certs, made>> /\ Excused' = Excused
  BY <1>2 DEF remote, Excused
<1>6. CASE pc = "drop"
  <2>1. RecordsSettled(old, None)
    BY <1>3, <1>6, NoRecord DEF DeletePc
  <2>2. HostSettled(old)' /\ CertSettled(old)' /\ RecordsSettled(old, None)'
    BY <1>2, <1>4, <1>6, <2>1, RecedeKeeps
  <2>3. \A x \in Owned(old) : Exists(x)' => x \in Excused'
    BY <2>2, OwnedSettled
  <2>4. Put(h, job[h]) /\ Drop(s)
    BY <1>3, <1>6, JobStays DEF Delete
  <2> QED
    BY <1>1, <1>2, <1>3, <1>5, <2>3, <2>4, DropAccount
<1>7. CASE pc # "drop"
  <2> DEFINE j == [IdleJob EXCEPT !.pc = pc, !.s = s, !.old = old, !.force = force]
  <2>1. pc \in {"delhost", "delrecord"}
    BY <1>3, <1>7 DEF DeletePc, RecordPc
  <2>2. Put(h, j) /\ UNCHANGED <<rows, pipe>>
    BY <1>2, <1>3, <1>7 DEF Delete
  <2>3. j.pc = pc /\ j.old = old
    BY DEF IdleJob
  <2> HIDE DEF j
  <2>4. pc # "delhost" => HostSettled(old)' /\ CertSettled(old)'
    BY <1>2, <1>4, RecedeKeeps
  <2>5. JobAccount(j)'
    BY <2>1, <2>3, <2>4 DEF JobAccount, Editing, HostSettled, CertSettled
  <2> QED
    BY <1>2, <2>2, <2>5, AccountCall
<1> QED
  BY <1>6, <1>7

LEMMA DeleteMemory ==
  ASSUME Inv, Account, NEW h \in Clients, job[h].pc \in Deleting
  PROVE  job[h] \in Job /\ job[h].old \in Row /\ job[h].s \in Services /\ JobAccount(job[h])
  BY JobHere, DeletingParts DEF Account

(* A deletion goes on, with what has been settled.                         *)
LEMMA DeletionOn ==
  ASSUME OneClient, Inv, Account, Recedes, UNCHANGED <<rows, pipe>>,
         NEW h \in Clients, NEW j \in Job, j = job[h],
         NEW pc \in {"delcert", "delrecord", "drop"}, NEW a, NextDeletion(h, pc, a),
         HostSettled(j.old)', pc # "delcert" => CertSettled(j.old)',
         pc = "drop" => RecordsSettled(j.old, None)'
  PROVE  Account'
<1> DEFINE k == [j EXCEPT !.pc = pc, !.errors = @ \/ a # "done"]
<1>1. k.pc = pc /\ k.old = j.old
  BY DEF Job
<1>2. Put(h, k)
  BY DEF NextDeletion
<1> HIDE DEF k
<1>3. JobAccount(k)'
  BY <1>1 DEF JobAccount, Editing, HostSettled, CertSettled, RecordsSettled
<1> QED
  BY <1>2, <1>3, AccountCall

LEMMA DeleteHostAccount ==
  ASSUME OneClient, Inv, Inv', Serial, Account, NEW h \in Clients, DeleteHost(h)
  PROVE  Account'
<1>1. job[h].pc = "delhost" /\ job[h].pc \in Deleting
  BY DEF DeleteHost, Deleting
<1>2. PICK j \in Job : j = job[h] /\ j.old \in Row /\ j.old.host \in HostIds
  BY <1>1, DeleteMemory, JobHere, RowParts DEF JobOK, JobFits
<1>3. Recedes /\ UNCHANGED <<rows, pipe, zone, certs>>
  BY HandlerRecedes DEF Handler, DeleteHost
<1>4. PICK pc \in {"delcert", "delrecord", "drop"}, a \in Outcomes :
        /\ hosts' = IF a = "failed" THEN hosts ELSE [hosts EXCEPT ![j.old.host] = Gone]
        /\ left' = Reported({j.old.host}, a)
        /\ pc = IF j.old.cert # None THEN "delcert" ELSE RecordPc(j.old)
        /\ NextDeletion(h, pc, a)
  BY <1>2 DEF DeleteHost, RecordPc
<1>5. HostSettled(j.old)'
  BY <1>2, <1>4 DEF HostSettled, Reported, Inv, StoreOK
<1>6. pc \in {"delcert", "delrecord", "drop"} /\ (pc # "delcert" => CertSettled(j.old)')
  BY <1>4, RecordPcIs DEF CertSettled
<1>7. pc = "drop" => RecordsSettled(j.old, None)'
  <2>1. pc = "drop" => RecordsSettled(j.old, None)
    BY <1>2, <1>4, NoRecord
  <2> QED
    BY <1>2, <1>3, <2>1, RecedeKeeps
<1> QED
  BY <1>2, <1>3, <1>4, <1>5, <1>6, <1>7, DeletionOn

LEMMA DeleteCertAccount ==
  ASSUME OneClient, Inv, Inv', Serial, Account, NEW h \in Clients, DeleteCert(h)
  PROVE  Account'
<1>1. job[h].pc = "delcert" /\ job[h].pc \in Deleting
  BY DEF DeleteCert, Deleting
<1>2. PICK j \in Job : /\ j = job[h] /\ j.old \in Row /\ j.old.cert \in CertIds
                       /\ HostSettled(j.old)
  BY <1>1, DeleteMemory, JobHere, RowParts DEF JobOK, JobFits, JobAccount
<1>3. Recedes /\ UNCHANGED <<rows, pipe, zone>>
  BY HandlerRecedes DEF Handler, DeleteCert
<1>4. PICK pc \in {"delrecord", "drop"}, a \in Outcomes :
        /\ RemoveCert(j.old.cert, a) /\ left' = Reported({j.old.cert}, a)
        /\ pc = RecordPc(j.old) /\ NextDeletion(h, pc, a)
  BY <1>2 DEF DeleteCert, RecordPc
<1>5. HostSettled(j.old)'
  BY <1>2, <1>3, RecedeKeeps
<1>6. CertSettled(j.old)'
  <2>1. a # "failed" => certs'[j.old.cert] = Gone
    BY <1>2, <1>4, RemoveCertRecedes
  <2> QED
    BY <1>4, <2>1 DEF CertSettled, Reported, Excused
<1>7. pc \in {"delrecord", "drop"} /\ (pc = "drop" => RecordsSettled(j.old, None)')
  <2>1. pc = "drop" => RecordsSettled(j.old, None)
    BY <1>2, <1>4, NoRecord
  <2> QED
    BY <1>2, <1>3, <1>4, <2>1, RecordPcIs, RecedeKeeps
<1> QED
  BY <1>2, <1>3, <1>4, <1>5, <1>6, <1>7, DeletionOn

LEMMA DeleteRecordAccount ==
  ASSUME OneClient, Inv, Inv', Serial, Account, NEW h \in Clients, DeleteRecord(h)
  PROVE  Account'
<1>1. job[h].pc = "delrecord" /\ job[h].pc \in Deleting
  BY DEF DeleteRecord, Deleting
<1>2. PICK j \in Job : j = job[h] /\ j.old \in Row /\ HostSettled(j.old) /\ CertSettled(j.old)
  BY <1>1, DeleteMemory DEF JobAccount
<1>3. Recedes /\ UNCHANGED <<rows, pipe>>
  BY HandlerRecedes DEF Handler, DeleteRecord
<1>4. PICK a \in Outcomes : RemoveRecord(j.old, a) /\ NextDeletion(h, "drop", a)
  BY <1>2 DEF DeleteRecord
<1>5. HostSettled(j.old)' /\ CertSettled(j.old)'
  BY <1>2, <1>3, RecedeKeeps
<1>6. RecordsSettled(j.old, None)'
  BY <1>2, <1>4, RecordGone
<1> QED
  BY <1>2, <1>3, <1>4, <1>5, <1>6, DeletionOn

LEMMA DropRowAccount ==
  ASSUME OneClient, Inv, Inv', Serial, Account, NEW h \in Clients, DropRow(h)
  PROVE  Account'
<1>1. job[h].pc = "drop" /\ job[h].pc \in Deleting /\ job[h].pc \in Working
  BY DEF DropRow, Deleting, Working
<1>2. PICK j \in Job : /\ j = job[h] /\ j.old \in Row /\ j.s \in Services
                       /\ rows[j.s] = j.old /\ pipe[j.s].pc = "off"
                       /\ HostSettled(j.old) /\ CertSettled(j.old) /\ RecordsSettled(j.old, None)
  BY <1>1, DeleteMemory DEF JobAccount, Serial, JobSerial
<1>3. Recedes /\ UNCHANGED <<pipe, certs>> /\ Put(h, IdleJob)
  BY HandlerRecedes DEF Handler, DropRow, Answer, remote
<1>4. IdleJob.pc = "idle"
  BY DEF IdleJob
<1>5. CASE Drop(j.s)
  <2>1. HostSettled(j.old)' /\ CertSettled(j.old)' /\ RecordsSettled(j.old, None)'
    BY <1>2, <1>3, RecedeKeeps
  <2>2. \A x \in Owned(j.old) : Exists(x)' => x \in Excused'
    BY <1>2, <2>1, OwnedSettled
  <2> QED
    BY <1>2, <1>3, <1>4, <1>5, <2>2, DropAccount
<1>6. CASE UNCHANGED rows
  <2>1. JobAccount(IdleJob)'
    BY <1>4, RestingAccount DEF JobAccount, Editing
  <2> QED
    BY <1>3, <1>6, <2>1, AccountCall
<1> QED
  BY <1>2, <1>5, <1>6 DEF DropRow

LEMMA AnsweredAccount ==
  ASSUME OneClient, Inv, Account, NEW h \in Clients, Answered(h)
  PROVE  Account'
<1>1. Recedes /\ UNCHANGED <<rows, pipe>> /\ Put(h, IdleJob)
  BY HandlerRecedes DEF Handler, Answered, Answer
<1>2. JobAccount(IdleJob)'
  BY RestingAccount DEF JobAccount, Editing, IdleJob
<1> QED
  BY <1>1, <1>2, AccountCall

LEMMA AccountStart ==
  ASSUME Start
  PROVE  Account
<1>1. OffPipe.pc = "off" /\ OffPipe.new = None
  BY DEF OffPipe
<1>2. JobAccount(IdleJob)
  BY RestingAccount DEF IdleJob
<1> QED
  BY <1>1, <1>2
  DEF Start, Account, NoneYet, UniqueMade, Accounted, HostlessKnown, PipeCerts, Cur

LEMMA NoFault ==
  ASSUME Inv, MaxFaults = 0
  PROVE  ~Fault
  BY DEF Fault, Inv, StoreOK

LEMMA AccountStep ==
  ASSUME OneClient, ~LostReplies, MaxFaults = 0, Inv, Inv', Serial, Account, [Next]_vars
  PROVE  Account'
<1>1. ASSUME NEW h \in Clients, Handler(h)  PROVE Account'
  BY <1>1, AnsweredAccount, ImportReadAccount, ImportInsertAccount, RenamingAccount,
     DropCertAccount, UnrecordAccount, SaveJobAccount, DeleteHostAccount, DeleteCertAccount,
     DeleteRecordAccount, DropRowAccount DEF Handler
<1>2. ASSUME NEW h \in Clients, NEW s \in Services,
             \/ \E n \in Names : \/ \E o \in ValidOverrides : Create(h, s, n, o)
                                 \/ \E o \in ValidOverrides \cup {None} : Edit(h, s, n, o)
             \/ Retry(h, s) \/ Unlink(h, s)
             \/ \E force \in BOOLEAN : Delete(h, s, force)
      PROVE  Account'
  BY <1>2, CreateAccount, EditAccount, RetryAccount, UnlinkAccount, DeleteAccount
<1>3. ASSUME NEW h \in Clients, NEW g \in HostIds, Import(h, g)  PROVE Account'
  BY <1>3, ImportAccount
<1>4. ASSUME NEW s \in Services, Task(s)  PROVE Account'
  <2>1. pipe[s].pc # "off" /\ PipeStep(s) /\ UNCHANGED <<job, left>>
        /\ strayed' = strayed \cup Unhosted'
    BY <1>4, PipeOn DEF Task
  <2>2. PICK q, r : Advance(s, q, r)
    BY <2>1, PipeStepAdvances DEF Account
  <2> QED
    BY <2>1, <2>2, AccountTask
<1>5. ~Crash /\ (\A h \in Clients : ~RequestFails(h)) /\ \A s \in Services : ~TaskFails(s)
  BY NoFault DEF Crash, RequestFails, TaskFails
<1>6. CASE UNCHANGED vars
  BY <1>6 DEF vars, remote, seen, Account, NoneYet, UniqueMade, Accounted, HostlessKnown, PipeCerts,
     JobAccount, Cur, CertFits, Excused, Exists, IsHost, IsCert, Owned, HostSettled, CertSettled,
     RecordsSettled
<1> QED
  BY <1>1, <1>2, <1>3, <1>4, <1>5, <1>6 DEF Next

(* One request at a time, no lost replies, no crash, and every commit      *)
(* succeeds: whatever remote call of whatever request or task fails, once  *)
(* everything has come to rest each object the app has made is gone, or a  *)
(* row stands for it, or a response has named it, or it is the certificate *)
(* of a service that lost its host or of a rename in which NPM has failed. *)
THEOREM NothingIsForgotten ==
  ASSUME OneClient, ~LostReplies, MaxFaults = 0
  PROVE  Spec => []NothingForgotten
<1>1. Init => Serial /\ Account
  BY SerialStart, AccountStart DEF Init
<1>2. Inv /\ Serial /\ [Next]_vars => Serial'
  BY SerialStep
<1>3. Inv /\ Inv' /\ Serial /\ Account /\ [Next]_vars => Account'
  BY AccountStep
<1>4. Inv /\ Account => NothingForgotten
  <2> SUFFICES ASSUME Inv, Account, Quiet, NEW x \in made, Exists(x)
               PROVE  x \in left \cup strayed \cup UNION {Owned(r) : r \in Rows}
    BY DEF NothingForgotten
  <2>1. \A s \in Services : pipe[s].new = None
    BY PipeHere DEF Quiet, PipeOK, PipeFits, Carrying
  <2>2. x \in Excused \/ \E s \in Services : rows[s] # None /\ x \in Owned(rows[s])
    BY <2>1 DEF Account, Accounted, Cur
  <2> QED
    BY <2>2 DEF Excused, Rows
<1> QED
  BY <1>1, <1>2, <1>3, <1>4, Invariance, PTL DEF Spec

-----------------------------------------------------------------------------
(* What is published, as far as nothing has been reported to have failed.  *)

(* A row with a host has one that exists and serves its name, and says "ok"*)
(* of the certificate only if the host has one.                            *)
HostGood(H, row) ==
  /\ row.host # None => /\ H[row.host] \notin {Unused, Gone}
                        /\ row.name \in H[row.host].names
                        /\ row.ssl = "ok" => H[row.host].cert # None
  /\ row.npm = "ok" \/ row.ssl = "ok" => row.host # None

(* A row that says "ok" of its record has it in the zone.                  *)
RecordGood(Z, row) == row.dns = "ok" /\ row.rtype # None =>
  [name |-> row.name, type |-> row.rtype, target |-> row.rtarget] \in Z

RowGood(H, Z, row) == HostGood(H, row) /\ RecordGood(Z, row)
Ready(row) == row.dns = "ok" /\ row.npm = "ok" /\ row.ssl = "ok"

(* A rename or a delete is at work on the row; until it commits, the row   *)
(* says less, or more, than is true.                                       *)
Worked(s) == \E h \in Clients : job[h].pc \in Working /\ job[h].s = s

RowsGood == \A s \in Services : Cur(s) # None /\ ~Worked(s) => RowGood(hosts, zone, Cur(s))
ActiveIsReady == \A s \in Services : rows[s] # None /\ rows[s].state = "active" => Ready(rows[s])

(* What is to be written back to a host is what the host is.               *)
Current(H, p) == p.pc \in {"put", "putattach"} => p.cur = H[p.new.host]

(* An edit has in hand what will be true when it commits.                  *)
JobGood(j) ==
  /\ j.pc \in Editing =>
       /\ j.new.host = j.old.host /\ j.new.state = "pending"
       /\ j.new.npm = "ok" \/ j.new.ssl = "ok" => j.new.host # None
  /\ j.pc \in Editing \ {"save"} => j.new.dns # "ok"
  /\ j.pc \in {"getnames", "getcert", "putnames"} => j.new.ssl # "ok"
  /\ j.pc \in {"getcert", "putnames"} => j.new.name \in j.cur.names
  /\ j.pc \in {"dropcert", "unrecord", "save"} => HostGood(hosts, j.new)
  /\ j.pc = "save" => RecordGood(zone, j.new)
  /\ j.pc = "insert" => /\ j.new.state = "pending" /\ j.new.rtype = None
                        /\ \/ HostGood(hosts, j.new)
                           \/ \E s \in Services : Cur(s) # None /\ Cur(s).host = j.new.host

AllGood ==
  /\ ~Sharing /\ ActiveIsReady /\ RowsGood
  /\ \A s \in Services : Current(hosts, pipe[s])
  /\ \A h \in Clients : JobGood(job[h])
Good == ~trouble => AllGood

-----------------------------------------------------------------------------
(* What a step of a pipeline makes of a row that is good.                  *)

Progress(s, q, r) ==
  LET o == Cur(s)  d == After(q, r) IN
  /\ Acts(s, q, r) /\ r # None /\ r.name = o.name /\ (r.state = "active" => Ready(r))
  /\ d \in Row /\ d.name = o.name /\ (o.host # None => d.host = o.host)
  /\ RowGood(hosts', zone', d) /\ Current(hosts', q)
  /\ q.new # None => q.new.host = d.host
  /\ zone \subseteq zone'
  /\ \A g \in HostIds : hosts'[g] = hosts[g] \/ hosts[g] = Unused \/ g = d.host

(* A failure is noted, or a column that is not of the host changes.        *)
LEMMA CalmProgress ==
  ASSUME Inv, Serial, NEW s \in Services, pipe[s].pc \in Carrying,
         RowGood(hosts, zone, Cur(s)), UNCHANGED <<hosts, zone>>,
         NEW q, Acts(s, q, rows[s]), q.new \in Row,
         SameRecord(q.new, pipe[s].new) \/ q.new = pipe[s].new,
         q.new.host = pipe[s].new.host,
         q.new.npm \in {pipe[s].new.npm, "error"}, q.new.ssl \in {pipe[s].new.ssl, "error"},
         Current(hosts, q)
  PROVE  Progress(s, q, rows[s])
<1>1. pipe[s].pc \notin Resting
  BY DEF Carrying, Resting
<1>2. /\ Cur(s) = pipe[s].new /\ Cur(s).name = rows[s].name /\ rows[s] # None
      /\ rows[s].state = "provisioning"
  BY <1>1, AtWork, CurHere DEF PipeSerial, Resting
<1>3. After(q, rows[s]) = q.new
  BY SpecialValues DEF After
<1>4. RowGood(hosts, zone, q.new)
  BY <1>2 DEF RowGood, HostGood, RecordGood, SameRecord
<1> QED
  BY <1>2, <1>3, <1>4 DEF Progress, SameRecord

(* A step that commits, loads or ends.                                     *)
LEMMA RowProgress ==
  ASSUME Inv, Serial, NEW s \in Services, pipe[s].pc # "off",
         RowGood(hosts, zone, Cur(s)), UNCHANGED remote,
         NEW q, NEW r \in Row, Acts(s, q, r), r = Cur(s) \/ SameColumns(r, Cur(s)),
         r.state = "active" => Ready(r),
         q.new \in {None, r}, q.pc \notin {"put", "putattach"}
  PROVE  Progress(s, q, r)
<1>1. UNCHANGED <<hosts, zone>>
  BY DEF remote
<1>2. r # None /\ After(q, r) = r /\ r.name = Cur(s).name /\ r.host = Cur(s).host
  BY SpecialValues DEF After, SameColumns
<1>3. RowGood(hosts, zone, r)
  BY DEF RowGood, HostGood, RecordGood, SameColumns
<1>4. Current(hosts', q)
  BY DEF Current
<1> QED
  BY <1>1, <1>2, <1>3, <1>4 DEF Progress

LEMMA ConcludeProgress ==
  ASSUME Inv, Serial, NEW s \in Services, pipe[s].pc # "off", pipe[s].pc \notin Carrying,
         RowGood(hosts, zone, Cur(s)), Conclude(s)
  PROVE  \E q, r : Progress(s, q, r)
<1>1. rows[s] # None /\ Cur(s) = rows[s]
  BY CurHere
<1>2. PICK r \in Row, q \in {[OffPipe EXCEPT !.pc = "done"]} :
        /\ Acts(s, q, r) /\ SameColumns(r, rows[s])
        /\ r.state = "active" => Ready(r)
  BY <1>1, ConcludeDoes DEF Ready
<1>3. q.new = None /\ q.pc = "done"
  BY DEF OffPipe
<1>4. UNCHANGED remote
  BY DEF Conclude
<1>5. Progress(s, q, r)
  BY <1>1, <1>2, <1>3, <1>4, RowProgress
<1> QED
  BY <1>5

LEMMA LoadsProgress ==
  ASSUME Inv, Serial, UNCHANGED remote, NEW s \in Services, pipe[s].pc \notin Resting,
         pipe[s].pc \notin Carrying, RowGood(hosts, zone, Cur(s)), NEW q, Loads(s, q)
  PROVE  Progress(s, q, rows[s])
<1>1. Cur(s) = rows[s] /\ rows[s] \in Row /\ rows[s].state = "provisioning"
  BY CurHere, AtWork DEF PipeSerial, Resting
<1> QED
  BY <1>1, RowProgress DEF Loads, Resting

LEMMA EnsureRecordProgress ==
  ASSUME Inv, Serial, NEW s \in Services, RowGood(hosts, zone, Cur(s)), EnsureRecord(s)
  PROVE  \E q, r : Progress(s, q, r)
<1> DEFINE p == pipe[s]
<1>1. PICK q, x :
        /\ Acts(s, q, rows[s]) /\ q.pc = "ensured" /\ q.new \in Row
        /\ q.new.name = p.new.name /\ q.new.host = p.new.host
        /\ q.new.npm = p.new.npm /\ q.new.ssl = p.new.ssl
        /\ x \in Records /\ x.name = p.name
        /\ zone' = zone \/ zone' = zone \cup {x}
        /\ \/ q.new.dns = "error"
           \/ x \in zone' /\ q.new.dns = "ok" /\ q.new.rtype = x.type /\ q.new.rtarget = x.target
  BY EnsureRecordDoes
<1>2. p.pc = "ensure" /\ p.pc \in Carrying /\ p.pc \notin Resting /\ UNCHANGED hosts
  BY DEF EnsureRecord, Carrying, Resting
<1>3. /\ Cur(s) = p.new /\ p.name = rows[s].name /\ p.new.name = rows[s].name
      /\ rows[s] # None /\ rows[s].state = "provisioning"
  BY <1>2, AtWork, CurHere DEF PipeSerial, Resting
<1>4. After(q, rows[s]) = q.new
  BY <1>1, SpecialValues DEF After
<1>5. x = [name |-> x.name, type |-> x.type, target |-> x.target]
  BY <1>1 DEF Records
<1>6. RecordGood(zone', q.new)
  BY <1>1, <1>3, <1>5 DEF RecordGood
<1>7. HostGood(hosts', q.new)
  BY <1>1, <1>2, <1>3 DEF RowGood, HostGood
<1>8. zone \subseteq zone' /\ Current(hosts', q)
  BY <1>1 DEF Current
<1>9. Progress(s, q, rows[s])
  BY <1>1, <1>2, <1>3, <1>4, <1>6, <1>7, <1>8 DEF Progress, RowGood
<1> QED
  BY <1>9

LEMMA GetProxyProgress ==
  ASSUME Inv, Serial, NEW s \in Services, RowGood(hosts, zone, Cur(s)), GetProxy(s)
  PROVE  \E q, r : Progress(s, q, r)
<1> DEFINE p == pipe[s]
<1>1. p.pc = "get" /\ p.pc \in Carrying /\ p.pc # "off" /\ UNCHANGED <<hosts, zone>>
  BY DEF GetProxy, Carrying, remote
<1>2. /\ Cur(s) = p.new /\ p.new \in Row /\ p.new.host # None
  BY <1>1, AtWork, CurHere DEF PipeFits
<1>3. IsHost(p.new.host)
  BY <1>2 DEF RowGood, HostGood, IsHost
<1>4. PICK q : /\ Acts(s, q, rows[s]) /\ q.pc = "put" /\ q.new = p.new
               /\ q.cur = hosts[p.new.host]
  BY <1>3, GetProxyDoes
<1>5. Progress(s, q, rows[s])
  BY <1>1, <1>2, <1>4, CalmProgress DEF Current
<1> QED
  BY <1>5

(* What is written back is what was read: nobody else has written it.      *)
LEMMA PutProxyProgress ==
  ASSUME Inv, Serial, NEW s \in Services, RowGood(hosts, zone, Cur(s)), Current(hosts, pipe[s]),
         PutProxy(s)
  PROVE  \E q, r : Progress(s, q, r)
<1> DEFINE p == pipe[s]
           g == p.new.host
<1>1. p.pc = "put" /\ p.pc \in Carrying /\ p.pc \notin Resting /\ UNCHANGED <<rows, zone>>
  BY DEF PutProxy, Carrying, Resting
<1>2. /\ p \in Pipe /\ p.new \in Row /\ g \in HostIds /\ g # None /\ p.new.ssl \in Status
      /\ Cur(s) = p.new /\ p.new.name = rows[s].name /\ rows[s] # None
      /\ rows[s].state = "provisioning"
  BY <1>1, AtWork, CurHere, RowParts DEF PipeFits, PipeSerial, Resting
<1>3. IsHost(g) /\ p.cur = hosts[g]
  BY <1>1, <1>2 DEF RowGood, HostGood, IsHost, Current
<1>4. UNCHANGED hosts
  BY <1>2, <1>3 DEF PutProxy, Inv, StoreOK
<1>5. PICK q \in {ProxyDone(p, g, p.new.ssl), ProxyFailed(p)} : Go(s, q)
  BY <1>3 DEF PutProxy
<1>6. /\ q.pc = "proxied" /\ q.new \in Row /\ SameRecord(q.new, p.new)
      /\ q.new.host = g /\ q.new.ssl = p.new.ssl
  BY <1>2, <1>5, ProxyDoneIs, ProxyFailedIs
<1>7. After(q, rows[s]) = q.new /\ Acts(s, q, rows[s])
  BY <1>1, <1>5, <1>6, ActsQuietly, SpecialValues DEF After
<1>8. RowGood(hosts, zone, q.new)
  BY <1>2, <1>6 DEF RowGood, HostGood, RecordGood, SameRecord
<1>9. Progress(s, q, rows[s])
  BY <1>1, <1>2, <1>4, <1>6, <1>7, <1>8 DEF Progress, SameRecord, Current
<1> QED
  BY <1>9

(* A host is adopted.                                                      *)
LEMMA FindProxyProgress ==
  ASSUME Inv, Serial, NEW s \in Services, RowGood(hosts, zone, Cur(s)), FindProxy(s)
  PROVE  \E q, r : Progress(s, q, r)
<1> DEFINE p == pipe[s]
<1>1. p.pc = "find" /\ p.pc \in Carrying /\ p.pc \notin Resting
      /\ UNCHANGED <<rows, hosts, zone>>
  BY DEF FindProxy, Carrying, remote, Resting
<1>2. /\ p \in Pipe /\ p.new \in Row /\ p.new.host = None /\ p.new.ssl \in Status /\ "ok" \in Status
      /\ Cur(s) = p.new /\ p.new.name = rows[s].name /\ p.name = rows[s].name /\ rows[s] # None
      /\ rows[s].state = "provisioning"
  BY <1>1, AtWork, CurHere, RowParts DEF PipeFits, PipeSerial, Status, Resting
<1>3. p.new.ssl # "ok"
  BY <1>2 DEF RowGood, HostGood
<1>4. PICK q : /\ Acts(s, q, rows[s])
               /\ \/ \E g \in HostIds :
                       /\ IsHost(g) /\ p.name \in hosts[g].names
                       /\ q = ProxyDone(p, g, IF hosts[g].cert # None THEN "ok" ELSE p.new.ssl)
                  \/ q.pc = "create" /\ q.new = p.new
  BY FindProxyDoes
<1>5. CASE q.pc = "create" /\ q.new = p.new
  BY <1>1, <1>2, <1>4, <1>5, CalmProgress DEF Current
<1>6. ASSUME NEW g \in HostIds, IsHost(g), p.name \in hosts[g].names,
             NEW ssl \in Status, ssl = "ok" => hosts[g].cert # None, q = ProxyDone(p, g, ssl)
      PROVE  Progress(s, q, rows[s])
  <2>1. /\ q.pc = "proxied" /\ q.new \in Row /\ SameRecord(q.new, p.new)
        /\ q.new.host = g /\ q.new.ssl = ssl
    BY <1>2, <1>6, ProxyDoneIs
  <2>2. After(q, rows[s]) = q.new
    BY <2>1, SpecialValues DEF After
  <2>3. g # None
    BY SpecialValues
  <2>4. RowGood(hosts, zone, q.new)
    BY <1>2, <1>6, <2>1, <2>3 DEF RowGood, HostGood, RecordGood, SameRecord, IsHost
  <2> QED
    BY <1>1, <1>2, <1>4, <2>1, <2>2, <2>4 DEF Progress, SameRecord, Current
<1>7. CASE \E g \in HostIds :
             /\ IsHost(g) /\ p.name \in hosts[g].names
             /\ q = ProxyDone(p, g, IF hosts[g].cert # None THEN "ok" ELSE p.new.ssl)
  BY <1>2, <1>3, <1>6, <1>7
<1> QED
  BY <1>4, <1>5, <1>7

LEMMA CreateProxyProgress ==
  ASSUME Inv, Serial, NEW s \in Services, RowGood(hosts, zone, Cur(s)), CreateProxy(s)
  PROVE  \E q, r : Progress(s, q, r)
<1> DEFINE p == pipe[s]
           g == NewId(hosts)
<1>1. p.pc = "create" /\ p.pc \in Carrying /\ p.pc \notin Resting /\ UNCHANGED <<rows, zone>>
  BY DEF CreateProxy, Carrying, Resting
<1>2. g \in HostIds /\ hosts[g] = Unused
  BY DEF CreateProxy, HasNewId, NewId, Inv, StoreOK
<1>3. hosts' = [hosts EXCEPT ![g] = [names |-> {p.name}, cert |-> None]]
  BY DEF CreateProxy
<1>4. PICK q \in {ProxyDone(p, g, p.new.ssl), ProxyFailed(p)} : Go(s, q)
  BY DEF CreateProxy
<1>5. /\ p \in Pipe /\ p.new \in Row /\ p.new.host = None /\ p.new.ssl \in Status
      /\ Cur(s) = p.new /\ p.new.name = rows[s].name /\ p.name = rows[s].name /\ rows[s] # None
      /\ rows[s].state = "provisioning" /\ p.name \in Names
  BY <1>1, AtWork, CurHere, RowParts DEF PipeFits, PipeSerial, Resting
<1> HIDE DEF g
<1>6. p.new.ssl # "ok" /\ p.new.npm # "ok"
  BY <1>5 DEF RowGood, HostGood
<1>7. /\ q.pc = "proxied" /\ q.new \in Row /\ SameRecord(q.new, p.new) /\ q.new.ssl = p.new.ssl
      /\ \/ q.new.host = g
         \/ q.new.host = None /\ q.new.npm = "error"
  BY <1>2, <1>4, <1>5, ProxyDoneIs, ProxyFailedIs
<1>8. After(q, rows[s]) = q.new /\ Acts(s, q, rows[s])
  BY <1>1, <1>4, <1>7, ActsQuietly, SpecialValues DEF After
<1>9. hosts'[g] = [names |-> {p.name}, cert |-> None] /\ \A k \in HostIds \ {g} : hosts'[k] = hosts[k]
  BY <1>2, <1>3 DEF Inv, StoreOK
<1>10. [names |-> {p.name}, cert |-> None] \in Host
  BY <1>5 DEF Host, HostNames
<1>11. hosts'[g] \notin {Unused, Gone}
  BY <1>9, <1>10, SpecialValues
<1>12. p.name \in hosts'[g].names /\ g # None
  BY <1>2, <1>9, SpecialValues
<1>13. HostGood(hosts', q.new)
  BY <1>5, <1>6, <1>7, <1>11, <1>12 DEF HostGood, SameRecord
<1>14. RecordGood(zone', q.new)
  BY <1>1, <1>5, <1>7 DEF RowGood, RecordGood, SameRecord
<1>15. Progress(s, q, rows[s])
  BY <1>1, <1>2, <1>5, <1>7, <1>8, <1>9, <1>13, <1>14 DEF Progress, SameRecord, Current, RowGood
<1> QED
  BY <1>15

LEMMA IssueCertProgress ==
  ASSUME Inv, Serial, NEW s \in Services, RowGood(hosts, zone, Cur(s)), IssueCert(s)
  PROVE  \E q, r : Progress(s, q, r)
<1> DEFINE p == pipe[s]
           c == NewId(certs)
           i == [p EXCEPT !.pc = "issued", !.cert = c, !.new = [@ EXCEPT !.cert = c]]
<1>1. p.pc = "issue" /\ p.pc \in Carrying /\ p.pc # "off" /\ UNCHANGED <<rows, hosts, zone>>
  BY DEF IssueCert, Carrying, Resting
<1>2. c \in CertIds
  BY DEF IssueCert, HasNewId, NewId, Inv, StoreOK
<1>3. PICK q \in {i, AgainOrFail(p)} : Go(s, q)
  BY DEF IssueCert
<1>4. p \in Pipe /\ p.new \in Row
  BY <1>1, AtWork
<1> HIDE DEF c
<1>5. /\ i.pc = "issued" /\ i.new \in Row /\ SameRecord(i.new, p.new)
      /\ i.new.host = p.new.host /\ i.new.npm = p.new.npm /\ i.new.ssl = p.new.ssl
  BY <1>2, <1>4, IssuedIs
<1> HIDE DEF i
<1>6. /\ q.pc \in {"issued", "issue", "attached"} /\ q.new \in Row
      /\ SameRecord(q.new, p.new) /\ q.new.host = p.new.host /\ q.new.npm = p.new.npm
      /\ q.new.ssl \in {p.new.ssl, "error"}
  BY <1>1, <1>3, <1>4, <1>5, AgainIs
<1>7. Acts(s, q, rows[s])
  BY <1>1, <1>3, ActsQuietly
<1>8. Progress(s, q, rows[s])
  BY <1>1, <1>6, <1>7, CalmProgress DEF Current
<1> QED
  BY <1>8

LEMMA PutAttachProgress ==
  ASSUME Inv, Serial, NEW s \in Services, RowGood(hosts, zone, Cur(s)), Current(hosts, pipe[s]),
         PutAttach(s)
  PROVE  \E q, r : Progress(s, q, r)
<1> DEFINE p == pipe[s]
           g == p.new.host
           a == [p EXCEPT !.pc = "attached", !.cur = None,
                          !.new = [@ EXCEPT !.cert = p.cert, !.ssl = "ok"]]
           w == [p.cur EXCEPT !.cert = p.cert]
<1>1. /\ p.pc = "putattach" /\ p.pc \in Carrying /\ p.pc \notin Resting
      /\ UNCHANGED <<rows, zone>>
  BY DEF PutAttach, Carrying, Resting
<1>2. /\ p \in Pipe /\ p.new \in Row /\ g \in HostIds /\ g # None /\ p.cert \in CertIds
      /\ Cur(s) = p.new /\ p.new.name = rows[s].name /\ rows[s] # None
      /\ rows[s].state = "provisioning" /\ p.cur \in Host
  BY <1>1, AtWork, CurHere, RowParts DEF PipeFits, Pipe, PipeSerial, Resting
<1>3. PICK q \in {a, CertFailed(p)} : Go(s, q)
  BY DEF PutAttach
<1>4. hosts' = [hosts EXCEPT ![g] = w]
  BY DEF PutAttach
<1>5. a.pc = "attached" /\ a.new \in Row /\ SameRecord(a.new, p.new) /\ a.new.host = g
  BY <1>2, AttachedIs
<1> HIDE DEF a
<1>6. q.pc = "attached" /\ q.new \in Row /\ SameRecord(q.new, p.new) /\ q.new.host = g
  BY <1>2, <1>3, <1>5, CertFailedIs
<1>7. w \in Host /\ w.names = p.cur.names /\ w.cert = p.cert
  BY <1>2 DEF Host
<1> HIDE DEF w
<1>8. w \notin {Unused, Gone} /\ p.cert # None
  BY <1>2, <1>7, SpecialValues
<1>9. p.new.name \in w.names
  BY <1>1, <1>2, <1>7 DEF RowGood, HostGood, Current
<1>10. hosts'[g] = w /\ \A k \in HostIds \ {g} : hosts'[k] = hosts[k]
  BY <1>2, <1>4 DEF Inv, StoreOK
<1>11. HostGood(hosts', q.new)
  BY <1>2, <1>6, <1>7, <1>8, <1>9, <1>10 DEF HostGood, SameRecord
<1>12. RecordGood(zone', q.new)
  BY <1>1, <1>2, <1>6 DEF RowGood, RecordGood, SameRecord
<1>13. After(q, rows[s]) = q.new /\ Acts(s, q, rows[s])
  BY <1>1, <1>3, <1>6, ActsQuietly, SpecialValues DEF After
<1>14. Progress(s, q, rows[s])
  BY <1>1, <1>2, <1>6, <1>10, <1>11, <1>12, <1>13 DEF Progress, SameRecord, Current, RowGood
<1> QED
  BY <1>14

LEMMA PipeStepProgress ==
  ASSUME Inv, Serial, ActiveIsReady, NEW s \in Services, RowGood(hosts, zone, Cur(s)),
         Current(hosts, pipe[s]), PipeStep(s)
  PROVE  \E q, r : Progress(s, q, r)
<1> DEFINE p == pipe[s]
<1>1. p \in Pipe /\ PipeFits(p) /\ (p.pc \in Carrying => p.new \in Row)
  BY PipeHere, PipeParts DEF PipeOK, PipeFits
<1>2. CASE RowGone(s)
  BY <1>2, AtWork DEF RowGone, Dies
<1>3. CASE Begin(s)
  <2>1. PICK q, r : /\ Acts(s, q, r) /\ r \in Row /\ q.pc = "begun" /\ q.new = None
                    /\ SameColumns(r, rows[s]) /\ r.state = "provisioning"
    BY <1>3, BeginDoes
  <2>2. p.pc = "queued" /\ Cur(s) = rows[s] /\ UNCHANGED remote
    BY <1>3, CurHere DEF Begin, At, Carrying
  <2>3. Progress(s, q, r)
    BY <2>1, <2>2, RowProgress
  <2> QED
    BY <2>3
<1>4. ASSUME NEW q, Loads(s, q), UNCHANGED remote, p.pc \notin Carrying \cup Resting,
             q.pc # "put"
      PROVE  \E k, r : Progress(s, k, r)
  BY <1>4, LoadsProgress
<1>5. ASSUME NEW q, Acts(s, q, p.new), q.new \in {None, p.new}, q.pc \notin {"put", "putattach"},
             p.pc \in Carrying, UNCHANGED remote
      PROVE  \E k, r : Progress(s, k, r)
  <2>1. p.pc \notin Resting /\ p.new # None
    BY <1>1, <1>5, SpecialValues DEF Carrying, Resting
  <2>2. Cur(s) = p.new /\ p.new \in Row /\ p.new.state = "provisioning"
    BY <1>5, <2>1, AtWork, CurHere DEF PipeSerial, Resting
  <2>3. Progress(s, q, p.new)
    BY <1>5, <2>1, <2>2, RowProgress DEF Resting
  <2> QED
    BY <2>3
<1>6. ASSUME p.pc \in Carrying, NEW q, Acts(s, q, rows[s]), q.new \in Row,
             SameRecord(q.new, p.new) \/ q.new = p.new, q.new.host = p.new.host,
             q.new.npm \in {p.new.npm, "error"}, q.new.ssl \in {p.new.ssl, "error"},
             q.pc \in {"put", "putattach"} => q.cur = hosts[q.new.host],
             UNCHANGED <<hosts, zone>>
      PROVE  \E k, r : Progress(s, k, r)
  BY <1>6, CalmProgress DEF Current
<1>7. CASE LoadDns(s)
  BY <1>4, <1>7, LoadDnsDoes DEF LoadDns, At, Carrying, Resting, remote, Loads
<1>8. CASE EnsureRecord(s)
  BY <1>8, EnsureRecordProgress
<1>9. CASE SaveStep(s)
  <2>1. PICK q : Acts(s, q, p.new) /\ q.pc \in {"proxy", "secure", "finish"} /\ q.new = None
    BY <1>9, SaveStepDoes
  <2>2. p.pc \in Carrying /\ UNCHANGED remote
    BY <1>9, SaveStepDoes DEF Carrying, SaveStep, Save
  <2> QED
    BY <1>5, <2>1, <2>2
<1>10. CASE LoadProxy(s)
  BY <1>4, <1>10, LoadedDoes DEF LoadProxy, At, ProxyPc, Carrying, Resting, remote, Loads
<1>11. CASE GetProxy(s)
  BY <1>11, GetProxyProgress
<1>12. CASE PutProxy(s)
  BY <1>12, PutProxyProgress
<1>13. CASE FindProxy(s)
  BY <1>13, FindProxyProgress
<1>14. CASE CreateProxy(s)
  BY <1>14, CreateProxyProgress
<1>15. CASE ProxyCallFails(s)
  <2>1. p.pc \in Carrying /\ Acts(s, ProxyFailed(p), rows[s]) /\ UNCHANGED <<hosts, zone>>
    BY <1>15, ActsQuietly DEF ProxyCallFails, Carrying, remote
  <2> QED
    BY <1>1, <1>6, <2>1, ProxyFailedIs
<1>16. CASE LoadCert(s)
  <2>1. p.pc = "secure" /\ p.pc \notin Carrying \cup Resting
    BY <1>16 DEF LoadCert, At, Carrying, Resting
  <2> QED
    BY <1>4, <1>16, <2>1, LoadedDoes, ConcludeProgress DEF LoadCert, Loads
<1>17. CASE Finish(s)
  BY <1>17, ConcludeProgress DEF Finish, At, Carrying
<1>18. CASE FindCert(s)
  <2>1. p.pc \in Carrying /\ UNCHANGED <<hosts, zone>>
    BY <1>18 DEF FindCert, At, Carrying, remote
  <2>2. PICK q : Acts(s, q, rows[s]) /\ q.new = p.new /\ q.pc \in {"getattach", "issue"}
    BY <1>18, FindCertDoes
  <2> QED
    BY <1>1, <1>6, <2>1, <2>2
<1>19. CASE IssueCert(s)
  BY <1>19, IssueCertProgress
<1>20. CASE IssueFails(s)
  <2>1. /\ p.pc = "issue" /\ p.pc \in Carrying /\ Acts(s, AgainOrFail(p), rows[s])
        /\ UNCHANGED <<hosts, zone>>
    BY <1>20, ActsQuietly DEF IssueFails, At, Carrying, remote
  <2> QED
    BY <1>1, <1>6, <2>1, AgainIs
<1>21. CASE SaveCert(s)
  <2>1. PICK q : Acts(s, q, p.new) /\ q.pc = "getattach" /\ q.new = p.new
    BY <1>21, SaveCertDoes
  <2>2. p.pc \in Carrying /\ UNCHANGED remote
    BY <1>21 DEF SaveCert, At, Carrying
  <2> QED
    BY <1>5, <2>1, <2>2
<1>22. CASE GetAttach(s)
  <2>1. p.pc \in Carrying /\ UNCHANGED <<hosts, zone>>
    BY <1>22 DEF GetAttach, Carrying, remote
  <2>2. PICK q : /\ Acts(s, q, rows[s])
                 /\ \/ q.pc = "putattach" /\ q.new = p.new /\ q.cur = hosts[p.new.host]
                    \/ q = CertFailed(p)
    BY <1>22, GetAttachDoes
  <2> QED
    BY <1>1, <1>6, <2>1, <2>2, CertFailedIs
<1>23. CASE PutAttach(s)
  BY <1>23, PutAttachProgress
<1>24. CASE CertCallFails(s)
  <2>1. p.pc \in Carrying /\ Acts(s, CertFailed(p), rows[s]) /\ UNCHANGED <<hosts, zone>>
    BY <1>24, ActsQuietly DEF CertCallFails, Carrying, remote
  <2> QED
    BY <1>1, <1>6, <2>1, CertFailedIs
<1>25. CASE Leave(s)
  <2>1. p.pc = "done" /\ p.pc \notin Carrying /\ Go(s, OffPipe) /\ UNCHANGED <<rows, remote>>
    BY <1>25 DEF Leave, At, Carrying
  <2>2. /\ Cur(s) = rows[s] /\ rows[s] \in Row /\ Acts(s, OffPipe, rows[s])
        /\ rows[s].state = "active" => Ready(rows[s])
    BY <2>1, CurHere, ActsQuietly DEF ActiveIsReady
  <2>3. OffPipe.new = None /\ OffPipe.pc = "off"
    BY DEF OffPipe
  <2>4. Progress(s, OffPipe, rows[s])
    BY <2>1, <2>2, <2>3, RowProgress
  <2> QED
    BY <2>4
<1> QED
  BY <1>2, <1>3, <1>7, <1>8, <1>9, <1>10, <1>11, <1>12, <1>13, <1>14, <1>15, <1>16,
     <1>17, <1>18, <1>19, <1>20, <1>21, <1>22, <1>23, <1>24, <1>25 DEF PipeStep

-----------------------------------------------------------------------------
(* No two services on one host.                                            *)

LEMMA HostsApart ==
  ASSUME ~Sharing, NEW s \in Services, NEW t \in Services, s # t,
         Cur(s) # None, Cur(t) # None, Cur(s).host \in HostIds
  PROVE  Cur(t).host # Cur(s).host
  BY DEF Sharing, StandsOn, Cur

LEMMA HostsApartThen ==
  ASSUME ~Sharing', NEW s \in Services, NEW t \in Services, s # t,
         Cur(s)' # None, Cur(t)' # None, Cur(s)'.host \in HostIds
  PROVE  Cur(t)'.host # Cur(s)'.host
  BY DEF Sharing, StandsOn, Cur

LEMMA ProgressWhere ==
  ASSUME Inv, Serial, NEW s \in Services, pipe[s].pc # "off",
         NEW q, NEW r, Progress(s, q, r)
  PROVE  /\ \A t \in Services : pipe'[t] = IF t = s THEN q ELSE pipe[t]
         /\ \A t \in Services : rows'[t] = IF t = s THEN r ELSE rows[t]
         /\ \A t \in Services : Cur(t)' = IF t = s THEN After(q, r) ELSE Cur(t)
<1>1. /\ \A t \in Services : pipe'[t] = IF t = s THEN q ELSE pipe[t]
      /\ \A t \in Services : rows'[t] = IF t = s THEN r ELSE rows[t]
  BY DEF Progress, Acts, Go, Inv, StoreOK
<1> QED
  BY <1>1 DEF Cur, After

LEMMA GoodTask ==
  ASSUME Inv, Serial, AllGood, NEW s \in Services, pipe[s].pc # "off",
         NEW q, NEW r, Progress(s, q, r), UNCHANGED job, ~Sharing'
  PROVE  AllGood'
<1> DEFINE o == Cur(s)
           d == After(q, r)
<1>1. /\ \A t \in Services : pipe'[t] = IF t = s THEN q ELSE pipe[t]
      /\ \A t \in Services : rows'[t] = IF t = s THEN r ELSE rows[t]
      /\ \A t \in Services : Cur(t)' = IF t = s THEN d ELSE Cur(t)
  BY ProgressWhere
<1>2. d \in Row /\ d # None /\ (o.host # None => d.host = o.host) /\ d.host \in HostIds \cup {None}
  BY RowParts, SpecialValues DEF Progress
<1>3. \A g \in HostIds : hosts'[g] = hosts[g] \/ hosts[g] = Unused \/ g = d.host
  BY DEF Progress
<1>4. ASSUME NEW t \in Services \ {s}, Cur(t) # None, Cur(t).host \in HostIds,
             hosts[Cur(t).host] # Unused
      PROVE  hosts'[Cur(t).host] = hosts[Cur(t).host]
  <2>1. CASE Cur(t).host = d.host
    <3>1. Cur(t)' = Cur(t) /\ Cur(s)' = d
      BY <1>1
    <3> QED
      BY <1>2, <1>4, <2>1, <3>1, HostsApartThen
  <2> QED
    BY <1>3, <1>4, <2>1
<1>5. ActiveIsReady'
  BY <1>1 DEF AllGood, ActiveIsReady, Progress
<1>6. \A t \in Services : Worked(t)' = Worked(t)
  BY DEF Worked
<1>7. RowsGood'
  <2>1. ASSUME NEW t \in Services \ {s}, Cur(t) # None, ~Worked(t)
        PROVE  RowGood(hosts', zone', Cur(t))
    <3>1. RowGood(hosts, zone, Cur(t)) /\ Cur(t).host \in HostIds \cup {None}
      BY <2>1, CurType, RowParts DEF AllGood, RowsGood
    <3>2. Cur(t).host # None => hosts'[Cur(t).host] = hosts[Cur(t).host]
      BY <1>4, <2>1, <3>1 DEF RowGood, HostGood
    <3> QED
      BY <3>1, <3>2 DEF RowGood, HostGood, RecordGood, Progress
  <2>2. RowGood(hosts', zone', d)
    BY DEF Progress
  <2>3. ASSUME NEW t \in Services, Cur(t)' # None, ~Worked(t)'
        PROVE  RowGood(hosts', zone', Cur(t)')
    BY <1>1, <1>6, <2>1, <2>2, <2>3
  <2> QED
    BY <2>3 DEF RowsGood
<1>8. ASSUME NEW t \in Services  PROVE Current(hosts', pipe'[t])
  <2>1. CASE t = s
    BY <1>1, <2>1 DEF Progress
  <2>2. ASSUME t # s, pipe[t].pc \in {"put", "putattach"}
        PROVE  pipe[t].cur = hosts'[pipe[t].new.host]
    <3>1. pipe[t].pc # "off" /\ pipe[t].pc \in Carrying
      BY <2>2 DEF Carrying
    <3>2. /\ Cur(t) = pipe[t].new /\ pipe[t].new \in Row /\ Cur(t) # None
          /\ Cur(t).host \in HostIds
      BY <2>2, <3>1, AtWork, CurHere, RowParts, SpecialValues DEF PipeFits
    <3>3. ~Worked(t)
      BY <3>1 DEF Worked, Serial, JobSerial
    <3>4. hosts[Cur(t).host] # Unused
      BY <3>2, <3>3, SpecialValues DEF AllGood, RowsGood, RowGood, HostGood
    <3> QED
      BY <1>4, <2>2, <3>2, <3>4 DEF AllGood, Current
  <2> QED
    BY <1>1, <2>1, <2>2 DEF Current
<1>9. ASSUME NEW h \in Clients  PROVE JobGood(job[h])'
  <2>1. PICK j \in Job : j = job[h] /\ j = job'[h] /\ JobGood(j) /\ JobOK(certs, hosts, j)
    BY JobHere, JobParts DEF AllGood
  <2>2. j.pc \in Editing =>
          /\ j.s \in Services \ {s} /\ Cur(j.s) # None /\ Cur(j.s).host = j.new.host
          /\ j.new.host \in HostIds \cup {None}
    <3> SUFFICES ASSUME j.pc \in Editing
                 PROVE  /\ j.s \in Services \ {s} /\ Cur(j.s) # None
                        /\ Cur(j.s).host = j.new.host /\ j.new.host \in HostIds \cup {None}
      OBVIOUS
    <3>1. /\ j.s \in Services /\ j.old \in Row /\ rows[j.s] = j.old /\ pipe[j.s].pc = "off"
      BY <2>1, EditingParts DEF Serial, JobSerial, Working
    <3>2. pipe[j.s].new = None
      BY <3>1, PipeHere DEF PipeOK, PipeFits, Carrying
    <3> QED
      BY <2>1, <3>1, <3>2, RowParts, SpecialValues DEF Cur, JobGood
  <2>3. j.pc \in Editing /\ HostGood(hosts, j.new) => HostGood(hosts', j.new)
    BY <1>4, <2>2 DEF HostGood
  <2>4. RecordGood(zone, j.new) => RecordGood(zone', j.new)
    BY DEF RecordGood, Progress
  <2>5. ASSUME j.pc = "insert"
        PROVE  \/ HostGood(hosts', j.new)
               \/ \E t \in Services : Cur(t)' # None /\ Cur(t)'.host = j.new.host
    <3>1. j.new \in Row /\ j.new.host \in HostIds
      BY <2>1, <2>5, JobParts, RowParts DEF JobOK, JobFits
    <3>2. ASSUME NEW t \in Services, Cur(t) # None, Cur(t).host = j.new.host
          PROVE  Cur(t)' # None /\ Cur(t)'.host = j.new.host
      BY <1>1, <1>2, <3>1, <3>2, SpecialValues
    <3>3. CASE HostGood(hosts, j.new) /\ j.new.host # d.host
      BY <1>3, <3>1, <3>3 DEF HostGood
    <3>4. CASE j.new.host = d.host
      BY <1>1, <1>2, <3>4
    <3> QED
      BY <2>1, <2>5, <3>2, <3>3, <3>4 DEF JobGood
  <2>6. JobGood(j)'
    BY <2>1, <2>3, <2>4, <2>5 DEF JobGood, Editing
  <2> QED
    BY <2>1, <2>6
<1> QED
  BY <1>5, <1>7, <1>8, <1>9 DEF AllGood

-----------------------------------------------------------------------------
(* What the handlers leave of it.                                          *)

LEMMA SharingNoMore ==
  ASSUME ~Sharing, \A t \in Services : pipe'[t].new = pipe[t].new,
         \A t \in Services : rows'[t] # None /\ rows'[t].host \in HostIds =>
           rows[t] # None /\ rows[t].host = rows'[t].host
  PROVE  ~Sharing'
BY DEF Sharing, StandsOn

LEMMA CurName ==
  ASSUME Inv, Serial, NEW t \in Services, Cur(t) # None
  PROVE  rows[t] # None /\ Cur(t).name = rows[t].name
BY PipeHere DEF Cur, Serial, PipeSerial, PipeOK, PipeFits, Carrying

(* A handler reads, or answers.                                            *)
LEMMA CalmGood ==
  ASSUME OneClient, Inv, AllGood, UNCHANGED <<rows, pipe, hosts, zone>>,
         NEW h \in Clients, NEW j, Put(h, j), JobGood(j)',
         job[h].pc \in Working => j.pc \in Working /\ j.s = job[h].s
  PROVE  AllGood'
<1>1. \A k \in Clients : job'[k] = j
  BY OnlyHandler
<1>2. \A t \in Services : Cur(t)' = Cur(t) /\ (Worked(t) => Worked(t)')
  BY <1>1 DEF Cur, Worked, OneClient
<1>3. ~Sharing'
  BY DEF AllGood, Sharing, StandsOn
<1>4. ActiveIsReady' /\ \A t \in Services : Current(hosts, pipe[t])'
  BY DEF AllGood, ActiveIsReady, Current
<1>5. RowsGood'
  BY <1>2 DEF AllGood, RowsGood, RowGood, HostGood, RecordGood
<1>6. \A k \in Clients : JobGood(job[k])'
  BY <1>1
<1> QED
  BY <1>3, <1>4, <1>5, <1>6 DEF AllGood

(* It changes what its service stands for.                                 *)
LEMMA WorkGood ==
  ASSUME OneClient, Inv, Serial, AllGood, UNCHANGED <<rows, pipe>>,
         NEW h \in Clients, NEW j, Put(h, j), JobGood(j)',
         NEW s \in Services, j.pc \in Working, j.s = s, job[h].pc \in Working, job[h].s = s,
         \A g \in HostIds : hosts'[g] = hosts[g] \/ g = rows[s].host,
         \A x \in zone \ zone' : x.name = rows[s].name
  PROVE  AllGood'
<1>1. \A k \in Clients : job'[k] = j
  BY OnlyHandler
<1>2. \A t \in Services : Cur(t)' = Cur(t)
  BY DEF Cur
<1>3. ~Sharing'
  BY DEF AllGood, Sharing, StandsOn
<1>4. pipe[s].pc = "off" /\ rows[s] # None /\ rows[s] \in Row
  BY JobHere, EditingParts, DeletingParts, SpecialValues DEF Serial, JobSerial, Working
<1>5. Cur(s) = rows[s]
  BY <1>4, PipeHere DEF Cur, PipeOK, PipeFits, Carrying
<1>6. ASSUME NEW t \in Services \ {s}, Cur(t) # None, Cur(t).host \in HostIds
      PROVE  hosts'[Cur(t).host] = hosts[Cur(t).host]
  BY <1>4, <1>5, <1>6, HostsApart DEF AllGood
<1>7. ASSUME NEW t \in Services \ {s}, Cur(t) # None, RecordGood(zone, Cur(t))
      PROVE  RecordGood(zone', Cur(t))
  <2>1. Cur(t).name # rows[s].name
    BY <1>4, <1>7, CurName DEF Serial, NamesApart
  <2> DEFINE x == [name |-> Cur(t).name, type |-> Cur(t).rtype, target |-> Cur(t).rtarget]
  <2>2. x.name # rows[s].name
    BY <2>1
  <2> HIDE DEF x
  <2>3. x \in zone => x \in zone'
    BY <2>2
  <2> QED
    BY <1>7, <2>3 DEF RecordGood, x
<1>8. Worked(s)'
  BY <1>1 DEF Worked
<1>9. \A t \in Services \ {s} : ~Worked(t)
  BY DEF Worked, OneClient
<1>10. RowsGood'
  <2>1. ASSUME NEW t \in Services \ {s}, Cur(t) # None
        PROVE  RowGood(hosts', zone', Cur(t))
    <3>1. RowGood(hosts, zone, Cur(t)) /\ Cur(t).host \in HostIds \cup {None}
      BY <1>9, <2>1, CurType, RowParts DEF AllGood, RowsGood
    <3> QED
      BY <1>6, <1>7, <2>1, <3>1 DEF RowGood, HostGood
  <2> QED
    BY <1>2, <1>8, <2>1 DEF RowsGood
<1>11. ActiveIsReady'
  BY DEF AllGood, ActiveIsReady
<1>12. ASSUME NEW t \in Services, pipe[t].pc \in {"put", "putattach"}
       PROVE  pipe[t].cur = hosts'[pipe[t].new.host]
  <2>1. pipe[t].pc # "off" /\ pipe[t].pc \in Carrying /\ t # s
    BY <1>4, <1>12 DEF Carrying
  <2>2. /\ Cur(t) = pipe[t].new /\ pipe[t].new \in Row /\ Cur(t) # None
        /\ Cur(t).host \in HostIds
    BY <1>12, <2>1, AtWork, CurHere, RowParts, SpecialValues DEF PipeFits
  <2> QED
    BY <1>6, <1>12, <2>1, <2>2 DEF AllGood, Current
<1>13. \A t \in Services : Current(hosts, pipe[t])'
  BY <1>12 DEF Current
<1>14. \A k \in Clients : JobGood(job[k])'
  BY <1>1
<1> QED
  BY <1>3, <1>10, <1>11, <1>13, <1>14 DEF AllGood

(* It writes or deletes the row of a service at rest.                      *)
LEMMA WriteGood ==
  ASSUME OneClient, Inv, Serial, AllGood, UNCHANGED <<hosts, zone>>, SameRuns,
         NEW h \in Clients, NEW j, Put(h, j), j.pc \in {"idle", "answer"},
         NEW s \in Services, job[h].pc \in Working => job[h].s = s, pipe[s].pc = "off",
         NEW r, rows' = [rows EXCEPT ![s] = r], r # None => RowGood(hosts, zone, r),
         r # None /\ r.state = "active" => Ready(r),
         \/ r = None \/ r.host = None \/ (rows[s] # None /\ r.host = rows[s].host)
         \/ ~Sharing'
  PROVE  AllGood'
<1>1. \A k \in Clients : job'[k] = j
  BY OnlyHandler
<1>2. \A t \in Services : rows'[t] = IF t = s THEN r ELSE rows[t]
  BY DEF Inv, StoreOK
<1>3. \A t \in Services : pipe[t].pc = "off" => pipe[t].new = None
  BY PipeHere DEF PipeOK, PipeFits, Carrying
<1>4. \A t \in Services : pipe'[t].new = pipe[t].new
  BY <1>3 DEF SameRuns
<1>5. \A t \in Services : Cur(t)' = IF t = s THEN r ELSE Cur(t)
  BY <1>2, <1>3, <1>4 DEF Cur
<1>6. ~Sharing'
  <2>1. CASE r = None \/ r.host = None \/ (rows[s] # None /\ r.host = rows[s].host)
    BY <1>2, <1>4, <2>1, SharingNoMore, SpecialValues DEF AllGood
  <2> QED
    BY <2>1
<1>7. \A t \in Services \ {s} : ~Worked(t)
  BY DEF Worked, OneClient
<1>8. RowsGood'
  BY <1>5, <1>7 DEF AllGood, RowsGood, RowGood, HostGood, RecordGood
<1>9. ActiveIsReady'
  BY <1>2 DEF AllGood, ActiveIsReady
<1>10. \A t \in Services : Current(hosts, pipe[t])'
  BY DEF SameRuns, AllGood, Current
<1>11. JobGood(j)'
  BY DEF JobGood, Editing
<1> QED
  BY <1>1, <1>6, <1>8, <1>9, <1>10, <1>11 DEF AllGood

(* What a request finds.                                                   *)
LEMMA RestingGood ==
  ASSUME OneClient, Inv, AllGood, NEW h \in Clients, job[h].pc \notin Working,
         NEW s \in Services, pipe[s].pc = "off", rows[s] # None
  PROVE  RowGood(hosts, zone, rows[s])
<1>1. Cur(s) = rows[s]
  BY PipeHere DEF Cur, PipeOK, PipeFits, Carrying
<1>2. ~Worked(s)
  BY DEF Worked, OneClient
<1> QED
  BY <1>1, <1>2 DEF AllGood, RowsGood

LEMMA AnswersGood ==
  ASSUME NEW h, NEW s, Put(h, [IdleJob EXCEPT !.pc = "answer", !.s = s])
  PROVE  \E j : Put(h, j) /\ j.pc \in {"idle", "answer"}
<1>1. [IdleJob EXCEPT !.pc = "answer", !.s = s].pc = "answer"
  BY DEF IdleJob
<1> QED
  BY <1>1

LEMMA CreateGood ==
  ASSUME OneClient, Inv, Serial, AllGood, NEW h \in Clients, NEW s \in Services,
         NEW n \in Names, NEW o \in ValidOverrides, Create(h, s, n, o)
  PROVE  AllGood'
<1>1. PICK j : Put(h, j) /\ j.pc \in {"idle", "answer"}
  BY AnswersGood DEF Create, StartRun
<1>2. PICK r : /\ rows' = [rows EXCEPT ![s] = r] /\ r.host = None /\ r.dns = "pending"
               /\ r.npm = "pending" /\ r.ssl = "pending" /\ r.state = "pending"
  <2> DEFINE b == NewRow(n, o)
  <2>1. /\ b.host = None /\ b.dns = "pending" /\ b.npm = "pending" /\ b.ssl = "pending"
        /\ b.state = "pending"
    BY DEF NewRow
  <2>2. rows' = [rows EXCEPT ![s] = b]
    BY DEF Create
  <2> HIDE DEF b
  <2> QED
    BY <2>1, <2>2
<1>3. RowGood(hosts, zone, r)
  BY <1>2 DEF RowGood, HostGood, RecordGood
<1>4. pipe[s].pc = "off" /\ job[h].pc = "idle" /\ job[h].pc \notin Working
  BY NewIdFree DEF Create, Request, Idle, Working, Editing, Deleting
<1>5. SameRuns /\ UNCHANGED <<hosts, zone>>
  BY RequestRecedes DEF Create, remote
<1> QED
  BY <1>1, <1>2, <1>3, <1>4, <1>5, WriteGood

LEMMA RetryGood ==
  ASSUME OneClient, Inv, Serial, AllGood, NEW h \in Clients, NEW s \in Services, Retry(h, s)
  PROVE  AllGood'
<1>1. PICK j : Put(h, j) /\ j.pc \in {"idle", "answer"}
  BY AnswersGood DEF Retry, StartRun
<1>2. /\ pipe[s].pc = "off" /\ job[h].pc = "idle" /\ job[h].pc \notin Working /\ rows[s] # None
  BY OffNow DEF Retry, Request, Idle, Working, Editing, Deleting
<1>3. PICK r : r = rows[s] /\ rows' = [rows EXCEPT ![s] = r]
  BY RowsAsTheyAre DEF Retry
<1>4. RowGood(hosts, zone, r) /\ (r.state = "active" => Ready(r))
  BY <1>2, <1>3, RestingGood DEF AllGood, ActiveIsReady
<1>5. SameRuns /\ UNCHANGED <<hosts, zone>>
  BY RequestRecedes DEF Retry, remote
<1> QED
  BY <1>1, <1>2, <1>3, <1>4, <1>5, WriteGood

LEMMA ImportGood ==
  ASSUME OneClient, Inv, AllGood, NEW h \in Clients, NEW g \in HostIds, Import(h, g)
  PROVE  AllGood'
<1>1. PICK r : Put(h, [IdleJob EXCEPT !.pc = "gethost", !.new = r])
  BY DEF Import
<1> DEFINE j == [IdleJob EXCEPT !.pc = "gethost", !.new = r]
<1>2. j.pc = "gethost"
  BY DEF IdleJob
<1> HIDE DEF j
<1>3. JobGood(j)'
  BY <1>2 DEF JobGood, Editing
<1>4. job[h].pc \notin Working /\ UNCHANGED <<rows, pipe, hosts, zone>>
  BY DEF Import, Request, Idle, Working, Editing, Deleting, remote
<1> QED
  BY <1>1, <1>3, <1>4, CalmGood DEF j

LEMMA IdleGood == JobGood(IdleJob)
  BY DEF JobGood, IdleJob, Editing

LEMMA IdleGoodThen == JobGood(IdleJob)'
  BY DEF JobGood, IdleJob, Editing

LEMMA ImportReadGood ==
  ASSUME OneClient, Inv, AllGood, NEW h \in Clients, ImportRead(h)
  PROVE  AllGood'
<1> DEFINE g == job[h].new.host
<1>1. /\ job[h].pc \notin Working /\ job[h] \in Job /\ g \in HostIds
      /\ UNCHANGED <<rows, pipe, hosts, zone>>
  BY JobHere, JobParts, RowParts
  DEF ImportRead, Working, Editing, Deleting, remote, JobOK, JobFits
<1>2. CASE Answer(h)
  BY <1>1, <1>2, IdleGoodThen, CalmGood DEF Answer
<1>3. ASSUME IsHost(g), NEW n \in hosts[g].names \cap Names,
             Put(h, [job[h] EXCEPT !.pc = "insert", !.new = ImportedRow(n, g)])
      PROVE  AllGood'
  <2> DEFINE r == ImportedRow(n, g)
             j == [job[h] EXCEPT !.pc = "insert", !.new = r]
  <2>1. /\ r.name = n /\ r.host = g /\ r.rtype = None /\ r.state = "pending"
        /\ r.ssl = IF hosts[g].cert # None THEN "ok" ELSE "pending"
    BY DEF ImportedRow, NewRow
  <2> HIDE DEF r
  <2>2. j.pc = "insert" /\ j.new = r
    BY <1>1 DEF Job
  <2> HIDE DEF j
  <2>3. HostGood(hosts, r)
    BY <1>1, <1>3, <2>1, SpecialValues DEF HostGood, IsHost
  <2>4. PICK k : Put(h, k) /\ k.pc = "insert" /\ k.new = r
    BY <1>3, <2>2 DEF j, r
  <2>5. PICK x : x = r /\ HostGood(hosts, x) /\ x.rtype = None /\ x.state = "pending" /\ k.new = x
    BY <2>1, <2>3, <2>4
  <2>6. JobGood(k)'
    BY <1>1, <2>4, <2>5 DEF JobGood, Editing, HostGood
  <2> QED
    BY <1>1, <2>4, <2>6, CalmGood
<1> QED
  BY <1>2, <1>3 DEF ImportRead

LEMMA ImportInsertGood ==
  ASSUME OneClient, Inv, Serial, AllGood, ~trouble', NEW h \in Clients, ImportInsert(h)
  PROVE  AllGood'
<1>1. PICK r \in Row : r = job[h].new /\ r.host \in HostIds
  BY JobHere, JobParts, RowParts DEF ImportInsert, JobOK, JobFits
<1>2. PICK s \in Services : IsNextId(s) /\ rows' = [rows EXCEPT ![s] = r] /\ StartRun(h, s)
  BY <1>1 DEF ImportInsert
<1>3. PICK j : Put(h, j) /\ j.pc \in {"idle", "answer"}
  BY <1>2, AnswersGood DEF StartRun
<1>4. /\ rows[s] = None /\ pipe[s].pc = "off" /\ job[h].pc = "insert" /\ job[h].pc \notin Working
  BY <1>2, NewIdFree DEF ImportInsert, Working, Editing, Deleting
<1>5. SameRuns /\ UNCHANGED <<hosts, zone>> /\ ~Sharing'
  BY HandlerRecedes DEF Handler, ImportInsert, remote
<1>6. ASSUME NEW t \in Services, Cur(t) # None, Cur(t).host = r.host
      PROVE  FALSE
  <2>1. pipe[s].new = None
    BY <1>4, PipeHere DEF PipeOK, PipeFits, Carrying
  <2>2. t # s
    BY <1>4, <1>6, <2>1 DEF Cur
  <2>3. rows'[s] = r /\ rows'[t] = rows[t] /\ r # None
    BY <1>2, <2>2, SpecialValues DEF Inv, StoreOK
  <2>4. pipe'[t].new = pipe[t].new
    BY <1>5, PipeHere DEF SameRuns, PipeOK, PipeFits, Carrying
  <2>5. StandsOn(s, r.host)' /\ StandsOn(t, r.host)'
    BY <1>1, <1>6, <2>3, <2>4 DEF StandsOn, Cur
  <2> QED
    BY <1>1, <1>5, <2>2, <2>5 DEF Sharing
<1>7. RowGood(hosts, zone, r) /\ r.state = "pending"
  BY <1>1, <1>4, <1>6 DEF AllGood, JobGood, RowGood, RecordGood
<1> QED
  BY <1>1, <1>2, <1>3, <1>4, <1>5, <1>7, WriteGood

LEMMA AnsweredGood ==
  ASSUME OneClient, Inv, AllGood, NEW h \in Clients, Answered(h)
  PROVE  AllGood'
<1>1. job[h].pc \notin Working /\ UNCHANGED <<rows, pipe, hosts, zone>> /\ Put(h, IdleJob)
  BY DEF Answered, Answer, Working, Editing, Deleting, remote
<1> QED
  BY <1>1, IdleGoodThen, CalmGood

(* An edited row is good when nothing of it has to be done first.          *)
LEMMA EditedGood ==
  ASSUME NEW row \in Row, NEW n \in Names, NEW o \in ValidOverrides \cup {None},
         RowGood(hosts, zone, row), NEW new, new = Edited(row, n, o)
  PROVE  /\ new.name = n /\ new.host = row.host /\ new.state = "pending"
         /\ new.npm = "ok" \/ new.ssl = "ok" => new.host # None
         /\ Renames(row, n) => new.dns # "ok" /\ new.ssl # "ok"
         /\ Replaces(row, n, o) => new.dns # "ok"
         /\ ~Renames(row, n) \/ row.host = None => HostGood(hosts, new)
         /\ EditPc(row, n, o) = "save" => RecordGood(zone, new)
<1>1. /\ new.name = n /\ new.host = row.host /\ new.state = "pending" /\ new.npm = row.npm
      /\ new.ssl = IF Renames(row, n) THEN "pending" ELSE row.ssl
      /\ new.dns = IF Renames(row, n) \/ Replaces(row, n, o) THEN "pending" ELSE row.dns
      /\ KeepsSnapshot(row, n, o) => new.rtype = row.rtype /\ new.rtarget = row.rtarget
  <2>1. Edited(row, n, o).name = n
    BY DEF Edited, Row
  <2> QED
    BY <2>1 DEF Edited, Row
<1>2. new.npm = "ok" \/ new.ssl = "ok" => new.host # None
  BY <1>1 DEF RowGood, HostGood
<1>3. ~Renames(row, n) \/ row.host = None => HostGood(hosts, new)
  BY <1>1, <1>2 DEF RowGood, HostGood, Renames
<1>4. EditPc(row, n, o) = "save" => RecordGood(zone, new)
  <2>1. CASE KeepsSnapshot(row, n, o)
    <3>1. new.name = row.name /\ (new.dns = "ok" => row.dns = "ok")
      BY <1>1, <2>1 DEF KeepsSnapshot, Renames
    <3> QED
      BY <1>1, <2>1, <3>1 DEF RowGood, RecordGood
  <2>2. CASE ~KeepsSnapshot(row, n, o)
    <3>1. new.dns # "ok"
      BY <1>1, <2>2 DEF KeepsSnapshot
    <3> QED
      BY <3>1 DEF RecordGood
  <2> QED
    BY <2>1, <2>2
<1> QED
  BY <1>1, <1>2, <1>3, <1>4

LEMMA SaveGood ==
  ASSUME OneClient, Inv, Serial, AllGood, UNCHANGED <<hosts, zone>>, SameRuns,
         NEW h \in Clients, NEW s \in Services, job[h].pc \in Working => job[h].s = s,
         pipe[s].pc = "off", NEW old \in Row, NEW new \in Row, rows[s] = old,
         SaveEdit(h, s, old, new), RowGood(hosts, zone, new), new.host = old.host,
         new.state = "pending"
  PROVE  AllGood'
<1>1. rows' = [rows EXCEPT ![s] = new]
  <2>1. rows' = [rows EXCEPT ![s] = Merged(old, old, new)]
    BY CommitMerges DEF SaveEdit
  <2> QED
    BY <2>1, MergedSame
<1>2. PICK j : Put(h, j) /\ j.pc \in {"idle", "answer"}
  BY AnswersGood DEF SaveEdit, StartRun
<1>3. old # None
  BY SpecialValues
<1> QED
  BY <1>1, <1>2, <1>3, WriteGood

LEMMA EditGood ==
  ASSUME OneClient, Inv, Serial, AllGood, NEW h \in Clients, NEW s \in Services,
         NEW n \in Names, NEW o \in ValidOverrides \cup {None}, Edit(h, s, n, o)
  PROVE  AllGood'
<1>1. /\ rows[s] \in Row /\ rows[s] # None /\ pipe[s].pc = "off" /\ job[h].pc = "idle"
      /\ job[h].pc \notin Working
  BY RowHere, OffNow DEF Edit, Request, Idle, Working, Editing, Deleting
<1>2. PICK old, new, pc :
        old \in Row /\ old = rows[s] /\ new = Edited(old, n, o) /\ pc = EditPc(old, n, o)
  BY <1>1
<1>3. RowGood(hosts, zone, old) /\ new \in Row
  BY <1>1, <1>2, RestingGood, EditedOK
<1>4. /\ new.name = n /\ new.host = old.host /\ new.state = "pending"
      /\ new.npm = "ok" \/ new.ssl = "ok" => new.host # None
      /\ Renames(old, n) => new.dns # "ok" /\ new.ssl # "ok"
      /\ Replaces(old, n, o) => new.dns # "ok"
      /\ ~Renames(old, n) \/ old.host = None => HostGood(hosts, new)
      /\ pc = "save" => RecordGood(zone, new)
  BY <1>2, <1>3, EditedGood
<1>5. SameRuns /\ UNCHANGED <<hosts, zone>>
  BY RequestRecedes DEF Edit, remote
<1>6. /\ pc \in {"getnames", "unrecord", "save"}
      /\ pc = "getnames" => Renames(old, n)
      /\ pc = "unrecord" => Renames(old, n) \/ Replaces(old, n, o)
      /\ pc \in {"unrecord", "save"} => ~Renames(old, n) \/ old.host = None
  BY <1>2 DEF EditPc, AfterHost
<1>7. CASE pc = "save"
  <2>1. SaveEdit(h, s, old, new)
    BY <1>2, <1>7 DEF Edit
  <2> QED
    BY <1>1, <1>2, <1>3, <1>4, <1>5, <1>6, <1>7, <2>1, SaveGood DEF RowGood
<1>8. CASE pc # "save"
  <2> DEFINE j == [IdleJob EXCEPT !.pc = pc, !.s = s, !.old = old, !.new = new]
  <2>1. Put(h, j) /\ UNCHANGED <<rows, pipe>>
    BY <1>2, <1>8 DEF Edit
  <2>2. j.pc = pc /\ j.old = old /\ j.new = new
    BY DEF IdleJob
  <2> HIDE DEF j
  <2>3. HostGood(hosts, new) => HostGood(hosts', new)
    BY <1>5
  <2>4. JobGood(j)'
    BY <1>4, <1>6, <1>8, <2>2, <2>3 DEF JobGood, Editing
  <2> QED
    BY <1>1, <1>5, <2>1, <2>4, CalmGood
<1> QED
  BY <1>7, <1>8

LEMMA SaveJobGood ==
  ASSUME OneClient, Inv, Serial, AllGood, NEW h \in Clients, SaveJob(h)
  PROVE  AllGood'
<1>1. PICK j \in Job :
        /\ j = job[h] /\ j.pc = "save" /\ j.s \in Services /\ j.old \in Row /\ j.new \in Row
        /\ rows[j.s] = j.old /\ pipe[j.s].pc = "off" /\ JobGood(j)
  BY JobHere, EditingParts DEF SaveJob, Serial, JobSerial, Working, Editing, AllGood
<1>2. SaveEdit(h, j.s, j.old, j.new)
  BY <1>1, SpecialValues DEF SaveJob
<1>3. SameRuns /\ UNCHANGED <<hosts, zone>>
  BY HandlerRecedes DEF Handler, SaveJob, remote
<1>4. RowGood(hosts, zone, j.new) /\ j.new.host = j.old.host /\ j.new.state = "pending"
  BY <1>1 DEF JobGood, Editing, RowGood
<1> QED
  BY <1>1, <1>2, <1>3, <1>4, SaveGood

(* The steps of an edit.                                                   *)
LEMMA EditingGood ==
  ASSUME Inv, Serial, AllGood, NEW h \in Clients, job[h].pc \in Editing
  PROVE  /\ job[h] \in Job /\ job[h].s \in Services /\ job[h].old \in Row /\ job[h].new \in Row
         /\ rows[job[h].s] = job[h].old /\ job[h].pc \in Working /\ JobGood(job[h])
         /\ job[h].new.host = job[h].old.host
BY JobHere, EditingParts DEF Serial, JobSerial, Working, AllGood, JobGood

LEMMA GetNamesGood ==
  ASSUME OneClient, Inv, Serial, AllGood, NEW h \in Clients, GetNames(h)
  PROVE  AllGood'
<1>1. job[h].pc = "getnames" /\ job[h].pc \in Editing
  BY DEF GetNames, Editing
<1>2. PICK j \in Job : j = job[h] /\ JobGood(j) /\ j.pc = "getnames" /\ j.pc \in Editing
  BY <1>1, EditingGood
<1>3. UNCHANGED <<rows, pipe, hosts, zone>>
  BY DEF GetNames, remote
<1> DEFINE c == [names |-> Renamed(hosts[j.old.host].names, j.old.name, j.new.name), cert |-> None]
           k == [j EXCEPT !.pc = "getcert", !.cur = c]
<1>4. Put(h, k)
  BY <1>2 DEF GetNames
<1>5. j.new.name \in c.names
  BY DEF Renamed
<1> HIDE DEF c
<1>6. k.pc = "getcert" /\ k.s = j.s /\ k.old = j.old /\ k.new = j.new /\ k.cur = c
  BY DEF Job
<1> HIDE DEF k
<1>7. PICK w : k.cur = w /\ j.new.name \in w.names
  BY <1>5, <1>6
<1>8. PICK i : Put(h, i) /\ i.pc = "getcert" /\ i.s = j.s /\ i.old = j.old /\ i.new = j.new
               /\ i.cur = w
  BY <1>4, <1>6, <1>7
<1>9. JobGood(i)'
  BY <1>2, <1>7, <1>8 DEF JobGood, Editing
<1> QED
  BY <1>2, <1>3, <1>8, <1>9, CalmGood DEF Working, Editing

LEMMA GetCertGood ==
  ASSUME OneClient, Inv, Serial, AllGood, NEW h \in Clients, GetCert(h)
  PROVE  AllGood'
<1>1. job[h].pc = "getcert" /\ job[h].pc \in Editing /\ job[h].cur \in Host
  BY JobHere, JobParts DEF GetCert, Editing, JobOK, JobFits
<1>2. PICK j \in Job : /\ j = job[h] /\ JobGood(j) /\ j.pc = "getcert" /\ j.pc \in Editing
                       /\ j.cur \in Host
  BY <1>1, EditingGood
<1>3. UNCHANGED <<rows, pipe, hosts, zone>>
  BY DEF GetCert, remote
<1>4. Put(h, [j EXCEPT !.pc = "putnames", !.cur.cert =
                IF j.old.cert # None THEN None ELSE hosts[j.old.host].cert])
  BY <1>2 DEF GetCert
<1>9. PICK c : c = IF j.old.cert # None THEN None ELSE hosts[j.old.host].cert
  OBVIOUS
<1> DEFINE w == [j.cur EXCEPT !.cert = c]
           k == [j EXCEPT !.pc = "putnames", !.cur = w]
<1>5. Put(h, k)
  BY <1>4, <1>9
<1>6. w.names = j.cur.names
  BY <1>2 DEF Host
<1> HIDE DEF w
<1>7. k.pc = "putnames" /\ k.s = j.s /\ k.old = j.old /\ k.new = j.new /\ k.cur = w
  BY DEF Job
<1> HIDE DEF k
<1>8. JobGood(k)'
  BY <1>2, <1>6, <1>7 DEF JobGood, Editing
<1> QED
  BY <1>2, <1>3, <1>5, <1>7, <1>8, CalmGood DEF Working, Editing

(* The host is renamed.                                                    *)
LEMMA PutNamesGood ==
  ASSUME OneClient, Inv, Serial, AllGood, ~trouble', NEW h \in Clients, PutNames(h)
  PROVE  AllGood'
<1> job[h].pc = "putnames"
  BY DEF PutNames
<1>1. /\ job[h].pc = "putnames" /\ job[h].pc \in Editing
      /\ job[h].cur \in Host /\ job[h].old.host \in HostIds
  <2> DEFINE j == job[h]
  <2>1. JobOK(certs, hosts, j) /\ j.pc = "putnames" /\ j.pc \in Editing
    BY JobHere DEF Editing
  <2> HIDE DEF j
  <2>2. /\ j.cur \in Host \cup {None} /\ j.old.host \in HostIds \cup {None}
        /\ j.cur # None /\ j.old.host # None
    BY <2>1, JobParts, EditingParts DEF JobOK, JobFits
  <2> QED
    BY <2>1, <2>2 DEF j
<1>2. PICK j \in Job :
        /\ j = job[h] /\ JobGood(j) /\ j.pc = "putnames" /\ j.pc \in Editing /\ j.pc \in Working
        /\ j.s \in Services /\ rows[j.s] = j.old /\ j.new.host = j.old.host
        /\ j.cur \in Host /\ j.old.host \in HostIds
  BY <1>1, EditingGood
<1>3. PICK pc \in {"dropcert", "unrecord", "save"} :
        /\ Put(h, [j EXCEPT !.pc = pc, !.cur = None])
        /\ pc = "save" => AfterHost(j.old) = "save"
  BY <1>2, AfterHostIs DEF PutNames, HostWarning
<1>4. UNCHANGED <<rows, pipe, zone>> /\ hosts' = [hosts EXCEPT ![j.old.host] = j.cur]
  BY <1>2 DEF PutNames
<1> DEFINE k == [j EXCEPT !.pc = pc, !.cur = None]
<1>11. Put(h, k)
  BY <1>3
<1>5. k.pc = pc /\ k.s = j.s /\ k.old = j.old /\ k.new = j.new
  BY DEF Job
<1> HIDE DEF k
<1>6. hosts'[j.old.host] = j.cur /\ \A g \in HostIds \ {j.old.host} : hosts'[g] = hosts[g]
  BY <1>2, <1>4 DEF Inv, StoreOK
<1>7. HostGood(hosts', j.new)
  BY <1>2, <1>6, SpecialValues DEF HostGood, JobGood, Editing
<1>8. RecordGood(zone', j.new)
  BY <1>2 DEF RecordGood, JobGood, Editing
<1>9. JobGood(k)'
  BY <1>2, <1>5, <1>7, <1>8 DEF JobGood, Editing
<1>10. k.pc \in Working
  BY <1>5 DEF Working, Editing
<1> QED
  BY <1>2, <1>3, <1>4, <1>6, <1>7, <1>8, <1>9, <1>10, <1>11, <1>5, WorkGood

LEMMA DropCertGood ==
  ASSUME OneClient, Inv, Serial, AllGood, NEW h \in Clients, DropCert(h)
  PROVE  AllGood'
<1>1. job[h].pc = "dropcert" /\ job[h].pc \in Editing
  BY DEF DropCert, Editing
<1>2. PICK j \in Job :
        /\ j = job[h] /\ JobGood(j) /\ j.pc = "dropcert" /\ j.pc \in Editing
        /\ j.old \in Row /\ j.new \in Row
  BY <1>1, EditingGood
<1>3. UNCHANGED <<rows, pipe, hosts, zone>>
  BY DEF DropCert
<1> DEFINE r == [j.new EXCEPT !.cert = None]
           pc == AfterHost(j.old)
           k == [j EXCEPT !.pc = pc, !.new = r]
<1>4. Put(h, k)
  BY <1>2 DEF DropCert, Job
<1>5. /\ r.name = j.new.name /\ r.host = j.new.host /\ r.state = j.new.state
      /\ r.dns = j.new.dns /\ r.npm = j.new.npm /\ r.ssl = j.new.ssl
  BY <1>2 DEF Row
<1> HIDE DEF r
<1>6. pc \in {"unrecord", "save"}
  BY AfterHostIs
<1> HIDE DEF pc
<1>7. k.pc = pc /\ k.s = j.s /\ k.old = j.old /\ k.new = r
  BY DEF Job
<1> HIDE DEF k
<1>8. HostGood(hosts', r) /\ RecordGood(zone', r)
  BY <1>2, <1>3, <1>5 DEF JobGood, Editing, HostGood, RecordGood
<1>9. JobGood(k)'
  BY <1>2, <1>5, <1>6, <1>7, <1>8 DEF JobGood, Editing
<1> QED
  BY <1>2, <1>3, <1>4, <1>6, <1>7, <1>9, CalmGood DEF Working, Editing

(* The records of one name go.                                             *)
LEMMA RemovedOfName ==
  ASSUME NEW row, NEW a, RemoveRecord(row, a)
  PROVE  \A x \in zone \ zone' : x.name = row.name
BY DEF RemoveRecord, Matching

LEMMA UnrecordGood ==
  ASSUME OneClient, Inv, Serial, AllGood, NEW h \in Clients, Unrecord(h)
  PROVE  AllGood'
<1>1. job[h].pc = "unrecord" /\ job[h].pc \in Editing
  BY DEF Unrecord, Editing
<1>2. PICK j \in Job :
        /\ j = job[h] /\ JobGood(j) /\ j.pc = "unrecord" /\ j.pc \in Editing /\ j.pc \in Working
        /\ j.s \in Services /\ rows[j.s] = j.old
  BY <1>1, EditingGood
<1>3. UNCHANGED <<rows, pipe, hosts>> /\ \A x \in zone \ zone' : x.name = j.old.name
  BY <1>2, RemovedOfName DEF Unrecord
<1> DEFINE k == [j EXCEPT !.pc = "save"]
<1>4. Put(h, k)
  BY <1>2 DEF Unrecord, Step
<1>5. k.pc = "save" /\ k.s = j.s /\ k.old = j.old /\ k.new = j.new
  BY DEF Job
<1> HIDE DEF k
<1>6. HostGood(hosts', j.new) /\ RecordGood(zone', j.new)
  BY <1>2, <1>3 DEF JobGood, Editing, RecordGood
<1>7. JobGood(k)'
  BY <1>2, <1>5, <1>6 DEF JobGood, Editing
<1>8. k.pc \in Working /\ \A g \in HostIds : hosts'[g] = hosts[g]
  BY <1>3, <1>5 DEF Working, Editing
<1> QED
  BY <1>2, <1>3, <1>4, <1>5, <1>7, <1>8, WorkGood

(* A deletion.                                                             *)
LEMMA DropGood ==
  ASSUME OneClient, Inv, Serial, AllGood, UNCHANGED <<hosts, zone>>, SameRuns,
         NEW h \in Clients, NEW j, Put(h, j), j.pc = "idle",
         NEW s \in Services, job[h].pc \in Working => job[h].s = s, pipe[s].pc = "off", Drop(s)
  PROVE  AllGood'
BY WriteGood DEF Drop

LEMMA UnlinkGood ==
  ASSUME OneClient, Inv, Serial, AllGood, NEW h \in Clients, NEW s \in Services, Unlink(h, s)
  PROVE  AllGood'
<1>1. pipe[s].pc = "off" /\ job[h].pc = "idle" /\ job[h].pc \notin Working
  BY OffNow DEF Unlink, Request, Idle, Working, Editing, Deleting
<1>2. SameRuns /\ UNCHANGED <<hosts, zone>>
  BY DEF SameRuns, Unlink, remote
<1>3. Put(h, job[h])
  BY JobStays DEF Unlink
<1> QED
  BY <1>1, <1>2, <1>3, DropGood DEF Unlink

LEMMA DeleteGood ==
  ASSUME OneClient, Inv, Serial, AllGood, NEW h \in Clients, NEW s \in Services, NEW force,
         Delete(h, s, force)
  PROVE  AllGood'
<1>1. pipe[s].pc = "off" /\ job[h].pc = "idle" /\ job[h].pc \notin Working
  BY OffNow DEF Delete, Request, Idle, Working, Editing, Deleting
<1>2. UNCHANGED <<pipe, hosts, zone>>
  BY DEF Delete, remote
<1>3. CASE DeletePc(rows[s]) = "drop"
  <2>1. Put(h, job[h]) /\ Drop(s)
    BY <1>3, JobStays DEF Delete
  <2> QED
    BY <1>1, <1>2, <2>1, DropGood DEF SameRuns
<1>4. CASE DeletePc(rows[s]) # "drop"
  <2>1. PICK row, pc : row = rows[s] /\ pc = DeletePc(rows[s])
    OBVIOUS
  <2> DEFINE j == [IdleJob EXCEPT !.pc = pc, !.s = s, !.old = row, !.force = force]
  <2>2. Put(h, j) /\ UNCHANGED rows
    BY <1>4, <2>1 DEF Delete
  <2>3. pc \in {"delhost", "delrecord"}
    BY <1>4, <2>1 DEF DeletePc, RecordPc
  <2>4. j.pc = pc
    BY DEF IdleJob
  <2> HIDE DEF j
  <2>5. JobGood(j)'
    BY <2>3, <2>4 DEF JobGood, Editing
  <2> QED
    BY <1>1, <1>2, <2>2, <2>5, CalmGood
<1> QED
  BY <1>3, <1>4

LEMMA DeletingGood ==
  ASSUME Inv, Serial, NEW h \in Clients, job[h].pc \in Deleting
  PROVE  /\ job[h] \in Job /\ job[h].s \in Services /\ job[h].old \in Row
         /\ rows[job[h].s] = job[h].old /\ pipe[job[h].s].pc = "off"
         /\ job[h].pc \in Working
BY JobHere, DeletingParts DEF Serial, JobSerial, Working

LEMMA DeletionGoes ==
  ASSUME NEW h \in Clients, NEW j \in Job, j = job[h],
         NEW pc \in {"delcert", "delrecord", "drop"}, NEW a, NextDeletion(h, pc, a)
  PROVE  \E k : Put(h, k) /\ k.s = j.s /\ k.pc \in Working /\ JobGood(k)'
<1> DEFINE k == [j EXCEPT !.pc = pc, !.errors = @ \/ a # "done"]
<1>1. k.pc = pc /\ k.s = j.s
  BY DEF Job
<1>2. Put(h, k)
  BY DEF NextDeletion
<1> HIDE DEF k
<1>3. k.pc \in Working /\ JobGood(k)'
  BY <1>1 DEF JobGood, Working, Editing, Deleting
<1> QED
  BY <1>1, <1>2, <1>3

LEMMA DeleteStepsGood ==
  ASSUME OneClient, Inv, Serial, AllGood, NEW h \in Clients,
         DeleteHost(h) \/ DeleteCert(h) \/ DeleteRecord(h)
  PROVE  AllGood'
<1>1. job[h].pc \in Deleting /\ UNCHANGED <<rows, pipe>>
  BY DEF DeleteHost, DeleteCert, DeleteRecord, Deleting
<1>2. PICK j \in Job : /\ j = job[h] /\ j.s \in Services /\ j.old \in Row /\ rows[j.s] = j.old
                       /\ j.pc \in Working
  BY <1>1, DeletingGood
<1>3. PICK pc \in {"delcert", "delrecord", "drop"}, a \in Outcomes : NextDeletion(h, pc, a)
  BY RecordPcIs DEF DeleteHost, DeleteCert, DeleteRecord
<1>4. PICK k : Put(h, k) /\ k.s = j.s /\ k.pc \in Working /\ JobGood(k)'
  BY <1>2, <1>3, DeletionGoes
<1>5. /\ \A g \in HostIds : hosts'[g] = hosts[g] \/ g = rows[j.s].host
      /\ \A x \in zone \ zone' : x.name = rows[j.s].name
  <2>1. CASE DeleteHost(h)
    <3>1. UNCHANGED hosts \/ hosts' = [hosts EXCEPT ![j.old.host] = Gone]
      BY <1>2, <2>1 DEF DeleteHost
    <3> QED
      BY <1>2, <2>1, <3>1 DEF DeleteHost, Inv, StoreOK
  <2>2. CASE DeleteCert(h)
    BY <2>2 DEF DeleteCert
  <2>3. CASE DeleteRecord(h)
    BY <1>2, <2>3, RemovedOfName DEF DeleteRecord
  <2> QED
    BY <2>1, <2>2, <2>3
<1> QED
  BY <1>1, <1>2, <1>4, <1>5, WorkGood

LEMMA DropRowGood ==
  ASSUME OneClient, Inv, Serial, AllGood, ~trouble', NEW h \in Clients, DropRow(h)
  PROVE  AllGood'
<1>1. job[h].pc \in Deleting
  BY DEF DropRow, Deleting
<1>2. PICK s \in Services : s = job[h].s /\ pipe[s].pc = "off"
  BY <1>1, DeletingGood
<1>3. Drop(s) /\ Put(h, IdleJob) /\ IdleJob.pc = "idle" /\ SameRuns /\ UNCHANGED <<hosts, zone>>
  BY <1>2 DEF DropRow, Answer, SameRuns, remote, IdleJob
<1> QED
  BY <1>2, <1>3, DropGood

-----------------------------------------------------------------------------
LEMMA TroubleStays ==
  ASSUME Inv, [Next]_vars, trouble
  PROVE  trouble'
<1>1. ASSUME NEW h \in Clients, Handler(h)  PROVE trouble'
  BY <1>1 DEF Handler, Answered, ImportRead, ImportInsert, GetNames, GetCert, PutNames,
     RenameFails, HostWarning, DropCert, Unrecord, SaveJob, DeleteHost, DeleteCert, DeleteRecord,
     DropRow, RemoveCert, seen
<1>2. ASSUME NEW h \in Clients, NEW s \in Services,
             \/ \E n \in Names : \/ \E o \in ValidOverrides : Create(h, s, n, o)
                                 \/ \E o \in ValidOverrides \cup {None} : Edit(h, s, n, o)
             \/ Retry(h, s) \/ Unlink(h, s)
             \/ \E force \in BOOLEAN : Delete(h, s, force)
      PROVE  trouble'
  BY <1>2 DEF Create, Edit, Retry, Unlink, Delete, seen
<1> QED
  BY <1>1, <1>2 DEF Next, Import, Task, Crash, RequestFails, TaskFails, seen, vars

LEMMA GoodStart ==
  ASSUME Start
  PROVE  Good
<1>1. OffPipe.pc = "off" /\ OffPipe.new = None
  BY DEF OffPipe
<1>2. \A s \in Services : Cur(s) = None /\ Current(hosts, pipe[s])
  BY <1>1 DEF Start, Cur, Current
<1>3. ~Sharing
  BY <1>1 DEF Start, Sharing, StandsOn
<1>4. \A h \in Clients : JobGood(job[h])
  BY IdleGood DEF Start
<1> QED
  BY <1>2, <1>3, <1>4 DEF Good, AllGood, ActiveIsReady, RowsGood, Start

LEMMA GoodStep ==
  ASSUME OneClient, MaxFaults = 0, Inv, Serial, Good, [Next]_vars
  PROVE  Good'
<1> SUFFICES ASSUME ~trouble'
             PROVE  AllGood'
  BY DEF Good
<1>1. AllGood
  BY TroubleStays DEF Good
<1>2. ASSUME NEW h \in Clients, Handler(h)  PROVE AllGood'
  <2>1. ~RenameFails(h)
    BY DEF RenameFails, HostWarning
  <2> QED
    BY <1>1, <1>2, <2>1, AnsweredGood, ImportReadGood, ImportInsertGood, GetNamesGood,
       GetCertGood, PutNamesGood, DropCertGood, UnrecordGood, SaveJobGood, DeleteStepsGood,
       DropRowGood DEF Handler
<1>3. ASSUME NEW h \in Clients, NEW s \in Services,
             \/ \E n \in Names : \/ \E o \in ValidOverrides : Create(h, s, n, o)
                                 \/ \E o \in ValidOverrides \cup {None} : Edit(h, s, n, o)
             \/ Retry(h, s) \/ Unlink(h, s)
             \/ \E force \in BOOLEAN : Delete(h, s, force)
      PROVE  AllGood'
  BY <1>1, <1>3, CreateGood, EditGood, RetryGood, UnlinkGood, DeleteGood
<1>4. ASSUME NEW h \in Clients, NEW g \in HostIds, Import(h, g)  PROVE AllGood'
  BY <1>1, <1>4, ImportGood
<1>5. ASSUME NEW s \in Services, Task(s)  PROVE AllGood'
  <2>1. PipeStep(s) /\ UNCHANGED job /\ ~Sharing' /\ pipe[s].pc # "off"
    BY <1>5, PipeOn DEF Task
  <2>2. ~Worked(s)
    BY <2>1 DEF Worked, Serial, JobSerial
  <2>3. Cur(s) # None
    BY <2>1, CurHere, SpecialValues
  <2>4. RowGood(hosts, zone, Cur(s)) /\ Current(hosts, pipe[s])
    BY <1>1, <2>2, <2>3 DEF AllGood, RowsGood
  <2>5. PICK q, r : Progress(s, q, r)
    BY <1>1, <2>1, <2>4, PipeStepProgress DEF AllGood
  <2> QED
    BY <1>1, <2>1, <2>5, GoodTask
<1>6. ~Crash /\ (\A h \in Clients : ~RequestFails(h)) /\ \A s \in Services : ~TaskFails(s)
  BY NoFault DEF Crash, RequestFails, TaskFails
<1>7. CASE UNCHANGED vars
  BY <1>1, <1>7 DEF vars, remote, AllGood, Sharing, StandsOn, ActiveIsReady, RowsGood, Worked,
     Cur, RowGood, HostGood, RecordGood, Current, JobGood
<1> QED
  BY <1>2, <1>3, <1>4, <1>5, <1>6, <1>7 DEF Next

-----------------------------------------------------------------------------
(* The certificates that hosts carry exist, and so does one that a rename  *)
(* is about to write back.                                                 *)
Living(c) == c # None => IsCert(c)
HostsLive == \A g \in HostIds : IsHost(g) => Living(hosts[g].cert)
JobsLive == \A h \in Clients : job[h].pc = "putnames" => Living(job[h].cur.cert)
Live == ~trouble => HostsLive /\ JobsLive

(* The types that matter for them.                                         *)
LEMMA CarriedIds ==
  ASSUME Inv, NEW g \in HostIds, IsHost(g)
  PROVE  hosts[g] \in Host /\ hosts[g].cert \in CertIds \cup {None}
  BY DEF Inv, StoreOK, IsHost, Host

LEMMA CallsLive ==
  ASSUME Inv, HostsLive, NEW s \in Services, Current(hosts, pipe[s]),
         PutProxy(s) \/ CreateProxy(s) \/ PutAttach(s)
  PROVE  HostsLive' /\ UNCHANGED certs
<1> DEFINE p == pipe[s]
           g == p.new.host
<1>1. CASE PutProxy(s)
  <2>1. p.pc = "put" /\ (UNCHANGED hosts \/ (hosts' = [hosts EXCEPT ![g] = p.cur] /\ IsHost(g)))
        /\ UNCHANGED certs
    BY <1>1 DEF PutProxy
  <2>2. \A k \in HostIds : hosts'[k] = hosts[k]
    BY <2>1 DEF Current, Inv, StoreOK
  <2> QED
    BY <2>1, <2>2 DEF HostsLive, IsHost, Living, IsCert
<1>2. CASE CreateProxy(s)
  <2>1. PICK k \in HostIds : hosts' = [hosts EXCEPT ![k] = [names |-> {p.name}, cert |-> None]]
    BY <1>2 DEF CreateProxy, HasNewId, NewId, Inv, StoreOK
  <2>2. UNCHANGED certs
    BY <1>2 DEF CreateProxy
  <2> QED
    BY <2>1, <2>2 DEF HostsLive, IsHost, Living, IsCert, Inv, StoreOK
<1>3. CASE PutAttach(s)
  <2>1. /\ p.pc = "putattach" /\ IsHost(g) /\ IsCert(p.cert) /\ UNCHANGED certs
        /\ hosts' = [hosts EXCEPT ![g] = [p.cur EXCEPT !.cert = p.cert]]
    BY <1>3 DEF PutAttach
  <2>2. p.cur = hosts[g]
    BY <2>1 DEF Current
  <2>3. ASSUME NEW k \in HostIds, IsHost(k)'  PROVE Living(hosts[k].cert)'
    <3>1. CASE k = g
      <4>1. hosts[g] \in Host
        BY <2>1, <3>1, CarriedIds
      <4>2. hosts'[k].cert = p.cert
        BY <2>1, <2>2, <3>1, <4>1 DEF Inv, StoreOK, Host
      <4> QED
        BY <2>1, <4>2 DEF Living, IsCert
    <3>2. CASE k # g
      BY <2>1, <2>3, <3>2 DEF HostsLive, IsHost, Living, IsCert, Inv, StoreOK
    <3> QED
      BY <3>1, <3>2
  <2> QED
    BY <2>1, <2>3 DEF HostsLive
<1> QED
  BY <1>1, <1>2, <1>3

LEMMA TaskLives ==
  ASSUME Inv, HostsLive, NEW s \in Services, Current(hosts, pipe[s]), PipeStep(s)
  PROVE  HostsLive' /\ \A c \in CertIds : IsCert(c) => IsCert(c)'
<1>1. CASE PutProxy(s) \/ CreateProxy(s) \/ PutAttach(s)
  BY <1>1, CallsLive DEF IsCert
<1>2. CASE IssueCert(s)
  <2>1. pipe[s].name \in Names
    BY <1>2, PipeHere, PipeParts DEF IssueCert, PipeOK, PipeFits, Pipe
  <2>2. PICK c \in CertIds : certs' = [certs EXCEPT ![c] = {pipe[s].name}]
    BY <1>2 DEF IssueCert, HasNewId, NewId, Inv, StoreOK
  <2>3. UNCHANGED hosts
    BY <1>2 DEF IssueCert
  <2>4. \A d \in CertIds : IsCert(d) => IsCert(d)'
    BY <2>1, <2>2, OneName DEF IsCert, Inv, StoreOK
  <2> QED
    BY <2>3, <2>4, CarriedIds DEF HostsLive, IsHost, Living
<1>3. CASE UNCHANGED <<hosts, certs>>
  BY <1>3 DEF HostsLive, IsHost, Living, IsCert
<1> QED
  BY <1>1, <1>2, <1>3
  DEF PipeStep, RowGone, Dies, Begin, LoadDns, EnsureRecord, SaveStep, Save, LoadProxy, GetProxy,
      FindProxy, ProxyCallFails, LoadCert, Conclude, Finish, Leave, FindCert, IssueFails,
      SaveCert, GetAttach, CertCallFails, remote

(* Only one step of a request comes to the write of the host.              *)
LEMMA HandlerNext ==
  ASSUME Inv, NEW h \in Clients, Handler(h), ~GetCert(h)
  PROVE  job'[h].pc # "putnames"
<1>1. job[h] \in Job /\ JobOK(certs, hosts, job[h])
  BY JobHere, JobParts
<1>2. IdleJob.pc = "idle"
  BY DEF IdleJob
<1>3. CASE Answered(h) \/ DropRow(h)
  BY <1>2, <1>3 DEF Answered, DropRow, Answer, Put, Inv
<1>4. CASE ImportRead(h)
  BY <1>1, <1>2, <1>4 DEF ImportRead, Answer, Put, Inv, Job
<1>5. CASE ImportInsert(h) \/ SaveJob(h)
  BY <1>2, <1>5 DEF ImportInsert, SaveJob, SaveEdit, StartRun, Answer, IdleJob, Put, Inv
<1>6. CASE GetNames(h)
  BY <1>1, <1>6 DEF GetNames, Put, Inv, Job
<1>7. CASE RenameFails(h) \/ PutNames(h) \/ DropCert(h)
  <2>1. PICK pc \in {AfterHost(job[h].old), "dropcert"} :
          \/ Put(h, [job[h] EXCEPT !.pc = pc, !.cur = None])
          \/ Put(h, [job[h] EXCEPT !.pc = pc, !.new.cert = None])
    BY <1>7 DEF RenameFails, HostWarning, PutNames, DropCert
  <2>2. pc # "putnames"
    BY <2>1, AfterHostIs
  <2>3. [job[h] EXCEPT !.pc = pc, !.cur = None].pc = pc
    BY <1>1 DEF Job
  <2>4. [job[h] EXCEPT !.pc = pc, !.new.cert = None].pc = pc
    BY <1>1 DEF Job
  <2> QED
    BY <2>1, <2>2, <2>3, <2>4 DEF Put, Inv
<1>8. CASE Unrecord(h)
  BY <1>1, <1>8 DEF Unrecord, Step, Put, Inv, Job
<1>9. CASE DeleteHost(h) \/ DeleteCert(h) \/ DeleteRecord(h)
  <2>1. RecordPc(job[h].old) \in {"delrecord", "drop"}
    BY RecordPcIs
  <2>2. PICK pc \in {"delcert", "delrecord", "drop"}, a \in Outcomes : NextDeletion(h, pc, a)
    BY <1>9, <2>1 DEF DeleteHost, DeleteCert, DeleteRecord
  <2> QED
    BY <1>1, <2>2 DEF NextDeletion, Put, Inv, Job
<1> QED
  BY <1>3, <1>4, <1>5, <1>6, <1>7, <1>8, <1>9 DEF Handler

(* A certificate is deleted that no host carries, or there is trouble.     *)
LEMMA RemoveLives ==
  ASSUME Inv, HostsLive, UNCHANGED hosts, ~trouble',
         NEW c \in CertIds, NEW a \in Outcomes, RemoveCert(c, a)
  PROVE  HostsLive'
<1>1. CASE UNCHANGED certs
  BY <1>1 DEF HostsLive, IsHost, Living, IsCert
<1>2. CASE certs' # certs
  <2>1. ~Carried(c) /\ certs' = [certs EXCEPT ![c] = Gone]
    BY <1>2 DEF RemoveCert
  <2> QED
    BY <2>1, CarriedIds DEF HostsLive, IsHost, Living, IsCert, Carried, Inv, StoreOK
<1> QED
  BY <1>1, <1>2

LEMMA HandlerLives ==
  ASSUME Inv, HostsLive, JobsLive, ~trouble', NEW h \in Clients, Handler(h)
  PROVE  HostsLive' /\ (job'[h].pc = "putnames" => Living(job[h].cur.cert)')
<1> DEFINE j == job[h]
<1>1. JobOK(certs, hosts, j) /\ j \in Job
  BY JobHere, JobParts
<1>2. CASE UNCHANGED <<hosts, certs>>
  <2>1. HostsLive'
    BY <1>2 DEF HostsLive, IsHost, Living, IsCert
  <2>2. CASE GetCert(h)
    <3>1. PICK c : Put(h, [j EXCEPT !.pc = "putnames", !.cur.cert = c])
                   /\ (c = None \/ (c = hosts[j.old.host].cert /\ IsHost(j.old.host)))
      BY <2>2 DEF GetCert
    <3>2. j.old.host \in HostIds /\ j.cur \in Host
      BY <1>1, <2>2, EditingParts DEF GetCert, Editing, JobOK, JobFits, Job
    <3>3. job'[h].cur.cert = c
      BY <1>1, <3>1, <3>2 DEF Put, Inv, Job, Host
    <3>4. Living(c)
      BY <3>1, <3>2 DEF HostsLive, Living
    <3> QED
      BY <1>2, <2>1, <3>3, <3>4 DEF Living, IsCert
  <2>3. CASE ~GetCert(h)
    BY <2>1, <2>3, HandlerNext
  <2> QED
    BY <2>2, <2>3
<1>3. CASE PutNames(h)
  <2>1. j.old.host \in HostIds
    BY <1>1, <1>3, EditingParts DEF PutNames, Editing, JobOK, JobFits
  <2>2. /\ hosts' = [hosts EXCEPT ![j.old.host] = j.cur] /\ Living(j.cur.cert) /\ UNCHANGED certs
    BY <1>3 DEF PutNames, JobsLive
  <2>3. HostsLive'
    BY <2>1, <2>2 DEF HostsLive, IsHost, Living, IsCert, Inv, StoreOK
  <2>4. ~GetCert(h)
    BY <1>3 DEF PutNames, GetCert
  <2> QED
    BY <2>3, <2>4, HandlerNext
<1>4. CASE DropCert(h) \/ DeleteCert(h)
  <2>1. j.old.cert \in CertIds
    BY <1>1, <1>4, EditingParts, DeletingParts
    DEF DropCert, DeleteCert, Editing, Deleting, JobOK, JobFits
  <2>2. (\E a \in Outcomes : RemoveCert(j.old.cert, a)) /\ UNCHANGED hosts /\ ~GetCert(h)
    BY <1>4 DEF DropCert, DeleteCert, GetCert
  <2> QED
    BY <2>1, <2>2, RemoveLives, HandlerNext
<1>5. CASE DeleteHost(h)
  <2>1. UNCHANGED certs /\ (UNCHANGED hosts \/ hosts' = [hosts EXCEPT ![j.old.host] = Gone])
    BY <1>5 DEF DeleteHost
  <2>2. HostsLive' /\ ~GetCert(h)
    BY <1>5, <2>1 DEF HostsLive, IsHost, Living, IsCert, Inv, StoreOK, DeleteHost, GetCert
  <2> QED
    BY <2>2, HandlerNext
<1> QED
  BY <1>2, <1>3, <1>4, <1>5
  DEF Handler, Answered, ImportRead, ImportInsert, GetNames, GetCert, RenameFails, Unrecord,
      SaveJob, DeleteRecord, DropRow, remote

(* A request begins somewhere else.                                        *)
LEMMA RequestNext ==
  ASSUME Inv, NEW h \in Clients, NEW s \in Services,
         \/ \E n \in Names : \/ \E o \in ValidOverrides : Create(h, s, n, o)
                             \/ \E o \in ValidOverrides \cup {None} : Edit(h, s, n, o)
         \/ Retry(h, s) \/ Unlink(h, s)
         \/ \E force \in BOOLEAN : Delete(h, s, force)
  PROVE  job'[h].pc # "putnames" /\ UNCHANGED <<hosts, certs>>
<1>1. CASE Retry(h, s) \/ \E n \in Names : \E o \in ValidOverrides : Create(h, s, n, o)
  BY <1>1 DEF Retry, Create, StartRun, IdleJob, Put, Inv, remote
<1>2. CASE Unlink(h, s)
  BY <1>2 DEF Unlink, Request, Idle, remote
<1>3. ASSUME NEW n \in Names, NEW o \in ValidOverrides \cup {None}, Edit(h, s, n, o)
      PROVE  job'[h].pc # "putnames" /\ UNCHANGED <<hosts, certs>>
  <2>1. EditPc(rows[s], n, o) \in {"getnames", "unrecord", "save"}
    BY DEF EditPc, AfterHost
  <2> QED
    BY <1>3, <2>1 DEF Edit, SaveEdit, StartRun, IdleJob, Put, Inv, remote
<1>4. ASSUME NEW force \in BOOLEAN, Delete(h, s, force)
      PROVE  job'[h].pc # "putnames" /\ UNCHANGED <<hosts, certs>>
  <2>1. DeletePc(rows[s]) \in {"delhost", "delrecord", "drop"}
    BY DEF DeletePc, RecordPc
  <2> QED
    BY <1>4, <2>1 DEF Delete, Request, Idle, IdleJob, Put, Inv, remote
<1> QED
  BY <1>1, <1>2, <1>3, <1>4

LEMMA LiveStep ==
  ASSUME OneClient, MaxFaults = 0, Inv, Good, Live, [Next]_vars
  PROVE  Live'
<1> SUFFICES ASSUME ~trouble'
             PROVE  HostsLive' /\ JobsLive'
  BY DEF Live
<1>1. AllGood /\ HostsLive /\ JobsLive
  BY TroubleStays DEF Good, Live
<1>2. ASSUME NEW h \in Clients, UNCHANGED <<hosts, certs>>, job'[h].pc # "putnames"
      PROVE  HostsLive' /\ JobsLive'
  BY <1>1, <1>2 DEF HostsLive, JobsLive, IsHost, Living, IsCert, OneClient
<1>3. ASSUME NEW h \in Clients, Handler(h)  PROVE HostsLive' /\ JobsLive'
  <2>1. HostsLive' /\ (job'[h].pc = "putnames" => Living(job[h].cur.cert)')
    BY <1>1, <1>3, HandlerLives
  <2> QED
    BY <2>1 DEF JobsLive, OneClient, Living, IsCert
<1>4. ASSUME NEW h \in Clients, NEW s \in Services,
             \/ \E n \in Names : \/ \E o \in ValidOverrides : Create(h, s, n, o)
                                 \/ \E o \in ValidOverrides \cup {None} : Edit(h, s, n, o)
             \/ Retry(h, s) \/ Unlink(h, s)
             \/ \E force \in BOOLEAN : Delete(h, s, force)
      PROVE  HostsLive' /\ JobsLive'
  BY <1>2, <1>4, RequestNext
<1>5. ASSUME NEW h \in Clients, NEW g \in HostIds, Import(h, g)  PROVE HostsLive' /\ JobsLive'
  <2>1. job'[h].pc # "putnames" /\ UNCHANGED <<hosts, certs>>
    BY <1>5 DEF Import, IdleJob, Put, Inv, remote
  <2> QED
    BY <1>2, <2>1
<1>6. ASSUME NEW s \in Services, Task(s)  PROVE HostsLive' /\ JobsLive'
  <2>1. PipeStep(s) /\ UNCHANGED job /\ Current(hosts, pipe[s])
    BY <1>1, <1>6 DEF Task, AllGood
  <2>2. HostsLive' /\ \A c \in CertIds : IsCert(c) => IsCert(c)'
    BY <1>1, <2>1, TaskLives
  <2>3. \A h \in Clients : job[h].pc = "putnames" => job[h].cur.cert \in CertIds \cup {None}
    BY JobHere, EditingParts DEF Editing, JobOK, JobFits, Job, Host
  <2> QED
    BY <1>1, <2>1, <2>2, <2>3 DEF JobsLive, Living
<1>7. ~Crash /\ (\A h \in Clients : ~RequestFails(h)) /\ \A s \in Services : ~TaskFails(s)
  BY NoFault DEF Crash, RequestFails, TaskFails
<1>8. CASE UNCHANGED vars
  BY <1>1, <1>8 DEF vars, remote, HostsLive, JobsLive, IsHost, Living, IsCert
<1> QED
  BY <1>3, <1>4, <1>5, <1>6, <1>7, <1>8 DEF Next

(* With one request at a time, no crash and no failing commit, a service   *)
(* shown as "active" is published: its host serves its name with a         *)
(* certificate NPM still has, and its record is in the zone.  It stays so, *)
(* whatever is renamed, adopted, imported or deleted next to it and        *)
(* whether or not answers are lost, until NPM has failed in a rename or a  *)
(* delete, two services have come to share a host, or a certificate that   *)
(* another host carries has been deleted.                                  *)
THEOREM ActiveServicesArePublished ==
  ASSUME OneClient, MaxFaults = 0
  PROVE  Spec => []ActiveIsPublished
<1>1. Init => Serial /\ Good /\ Live
  <2>1. IdleJob.pc = "idle"
    BY DEF IdleJob
  <2>2. Init => HostsLive /\ JobsLive
    BY <2>1 DEF Init, Start, HostsLive, JobsLive, Living
  <2> QED
    BY <2>2, SerialStart, GoodStart DEF Init, Live
<1>2. Inv /\ Serial /\ [Next]_vars => Serial'
  BY SerialStep
<1>3. Inv /\ Serial /\ Good /\ [Next]_vars => Good'
  BY GoodStep
<1>4. Inv /\ Good /\ Live /\ [Next]_vars => Live'
  BY LiveStep
<1>5. Inv /\ Good /\ Live => ActiveIsPublished
  <2> SUFFICES ASSUME Inv, AllGood, HostsLive, NEW s \in Services, rows[s] # None,
                      rows[s].state = "active", pipe[s].pc \in {"off", "done"}, ~Busy(s)
               PROVE  Published(rows[s])
    BY DEF Good, Live, ActiveIsPublished
  <2>1. Cur(s) = rows[s] /\ ~Worked(s)
    BY PipeHere DEF Cur, PipeOK, PipeFits, Carrying, Worked, Busy
  <2>2. RowGood(hosts, zone, rows[s]) /\ Ready(rows[s]) /\ rows[s].host \in HostIds
    BY <2>1, RowHere, RowParts DEF AllGood, RowsGood, ActiveIsReady, Ready, RowGood, HostGood
  <2> QED
    BY <2>2 DEF RowGood, HostGood, RecordGood, Ready, Published, IsHost, HostsLive, Living
<1> QED
  BY <1>1, <1>2, <1>3, <1>4, <1>5, Invariance, PTL DEF Spec
=============================================================================
