------------------------------- MODULE DnsZone -------------------------------
(***************************************************************************)
(* The Namecheap client on one domain.  Namecheap cannot add or remove one *)
(* record: every change reads the whole zone (getHosts), awaits the answer *)
(* and writes the whole zone back (setHosts).  Provisioning tasks, renames,*)
(* deletes and the DNS manager each make a client of their own and call it *)
(* without a lock, so calls on one domain may overlap.                     *)
(***************************************************************************)
EXTENDS Naturals

CONSTANTS
  Callers,        \* tasks and handlers that may be inside a call at once
  Names,          \* host names, compared without case
  Values,         \* type and address of a record, compared without case or final dot
  UnsafeValues,   \* those of a type that getHosts does not return whole: SRV, CAA
  MailModes,      \* EmailType of the domain
  MaxCalls,       \* bound: calls made in a behaviour
  None

Records == [name: Names, value: Values]

ASSUME ZoneConstantsOK == UnsafeValues \subseteq Values /\ MaxCalls \in Nat

VARIABLES
  zone, mail,     \* what Namecheap holds: the records and the mail mode
  call,           \* what each caller asked for
  pc,             \* "idle", "read" (getHosts is awaited) or "write" (setHosts is)
  draft,          \* the zone each caller is about to write, and its mail mode
  promised,       \* observation: records reported to be there
  asked,          \* observation: records some call was about
  calls           \* calls made, for the bound

conn == <<call, pc, draft>>
vars == <<zone, mail, conn, promised, asked, calls>>

(* A removal names a value, or with address=None a whole type.             *)
Call ==
  [op: {"ensure"}, name: Names, values: {{v} : v \in Values}] \cup
  [op: {"remove"}, name: Names, values: SUBSET Values \ {{}}]

Draft == [zone: SUBSET Records, mail: MailModes]

TypeOK ==
  /\ zone \subseteq Records
  /\ mail \in MailModes
  /\ call \in [Callers -> Call \cup {None}]
  /\ pc \in [Callers -> {"idle", "read", "write"}]
  /\ draft \in [Callers -> Draft \cup {None}]
  /\ \A c \in Callers : pc[c] # "idle" => call[c] \in Call
  /\ \A c \in Callers : pc[c] = "write" => draft[c] \in Draft
  /\ promised \subseteq Records
  /\ asked \subseteq Records
  /\ calls \in Nat

Init ==
  /\ zone \in SUBSET Records
  /\ mail \in MailModes
  /\ call = [c \in Callers |-> None]
  /\ pc = [c \in Callers |-> "idle"]
  /\ draft = [c \in Callers |-> None]
  /\ promised = {}
  /\ asked = {}
  /\ calls = 0

-----------------------------------------------------------------------------
About(k) == [name: {k.name}, value: k.values]

Ask(c, k) ==
  /\ pc[c] = "idle"
  /\ calls < MaxCalls
  /\ calls' = calls + 1
  /\ call' = [call EXCEPT ![c] = k]
  /\ pc' = [pc EXCEPT ![c] = "read"]
  /\ asked' = asked \cup About(k)
  /\ UNCHANGED <<zone, mail, draft, promised>>

Hangup(c) ==
  /\ call' = [call EXCEPT ![c] = None]
  /\ pc' = [pc EXCEPT ![c] = "idle"]
  /\ draft' = [draft EXCEPT ![c] = None]

(* The whole zone as the caller wants it, given the zone it read.          *)
Wanted(k, Z) == IF k.op = "ensure" THEN Z \cup About(k) ELSE Z \ About(k)

AnyRewrite(Z) == TRUE             \* mutant: rewrites types it cannot carry

(* _set_hosts refuses a zone with records it cannot send back as they were.*)
Rewritable(Z) == \A s \in Z : s.value \notin UnsafeValues

(* getHosts answers and the answer calls for no write.                     *)
AlreadyThere(c) ==
  /\ pc[c] = "read"
  /\ call[c].op = "ensure" /\ About(call[c]) \subseteq zone
  /\ promised' = promised \cup About(call[c])
  /\ Hangup(c)
  /\ UNCHANGED <<zone, mail, asked, calls>>

NothingToRemove(c) ==
  /\ pc[c] = "read"
  /\ call[c].op = "remove" /\ About(call[c]) \cap zone = {}
  /\ promised' = promised \ About(call[c])
  /\ Hangup(c)
  /\ UNCHANGED <<zone, mail, asked, calls>>

Failed(c) ==
  /\ Hangup(c)
  /\ UNCHANGED <<zone, mail, promised, asked, calls>>

TakenExactly(k, Z) ==             \* mutant: a record with another target is no conflict
  k.op = "ensure" /\ About(k) \subseteq Z

(* The name is taken by another record: a conflict is never overwritten.   *)
Taken(k, Z) == k.op = "ensure" /\ \E s \in Z : s.name = k.name

Refused(c) ==
  /\ pc[c] = "read"
  /\ \/ Taken(call[c], zone) /\ ~(About(call[c]) \subseteq zone)
     \/ ~Rewritable(Wanted(call[c], zone))
  /\ Failed(c)

ReadUndrafted(c) ==               \* mutant: goes on to write without a zone of its own
  /\ pc[c] = "read"
  /\ pc' = [pc EXCEPT ![c] = "write"]
  /\ UNCHANGED <<zone, mail, call, draft, promised, asked, calls>>

ReadPromisesOnly(c) ==            \* mutant: drafts what this app has made, not what it read
  /\ pc[c] = "read"
  /\ ~Taken(call[c], zone)
  /\ Rewritable(Wanted(call[c], zone))
  /\ draft' = [draft EXCEPT ![c] =
                 [zone |-> Wanted(call[c], promised), mail |-> mail]]
  /\ pc' = [pc EXCEPT ![c] = "write"]
  /\ UNCHANGED <<zone, mail, call, promised, asked, calls>>

(* Otherwise the full rewrite is sent, with the mail mode just read.       *)
ReadZone(c) ==
  /\ pc[c] = "read"
  /\ ~Taken(call[c], zone)
  /\ call[c].op = "remove" => About(call[c]) \cap zone # {}
  /\ Rewritable(Wanted(call[c], zone))
  /\ draft' = [draft EXCEPT ![c] = [zone |-> Wanted(call[c], zone), mail |-> mail]]
  /\ pc' = [pc EXCEPT ![c] = "write"]
  /\ UNCHANGED <<zone, mail, call, promised, asked, calls>>

(* No answer, an error, or a domain that does not use Namecheap's DNS.     *)
ReadFails(c) == pc[c] = "read" /\ Failed(c)

Rewrite(c) ==
  /\ pc[c] = "write"
  /\ zone' = draft[c].zone
  /\ mail' = draft[c].mail
  /\ Hangup(c)
  /\ UNCHANGED <<asked, calls>>

WriteZone(c) ==
  /\ Rewrite(c)
  /\ promised' = IF call[c].op = "ensure" THEN promised \cup About(call[c])
                                          ELSE promised \ About(call[c])

(* The rewrite took effect but its answer was lost.                        *)
WriteUnanswered(c) ==
  /\ Rewrite(c)
  /\ promised' = promised \ About(call[c])

WriteFails(c) == pc[c] = "write" /\ Failed(c)

Next ==
  \E c \in Callers :
    \/ \E k \in Call : Ask(c, k)
    \/ AlreadyThere(c) \/ NothingToRemove(c) \/ Refused(c) \/ ReadZone(c)
    \/ ReadFails(c) \/ WriteZone(c) \/ WriteUnanswered(c) \/ WriteFails(c)

Spec == Init /\ [][Next]_vars

-----------------------------------------------------------------------------
(* Properties.                                                             *)

(* However the calls overlap and fail, the rest of the zone keeps: a write *)
(* changes no record that no call was ever about, and never the mail mode, *)
(* although each write replaces all of them by what was read before.       *)
RestOfZoneKept ==
  [][/\ \A r \in Records \ asked : r \in zone' <=> r \in zone
     /\ mail' = mail]_vars

(* "Nothing is written if the zone contains a record type the app cannot   *)
(* reproduce" (namecheap.md): while a record that nobody asked to remove   *)
(* is of such a type, no overlap of calls gets a write through.            *)
UnsafeZoneUntouched ==
  [][(\E s \in zone \ asked : s.value \in UnsafeValues) => zone' = zone]_vars

(* "A same-name record pointing somewhere else is the user's to resolve"   *)
(* (ensure_record): a zone with one record for each name is never turned   *)
(* into one where two records share a name, not even by stale rewrites.    *)
OneRecordPerName(Z) == \A r, s \in Z : r.name = s.name => r = s

NamesStayUnique == OneRecordPerName(zone) => []OneRecordPerName(zone)

(* A record that a caller was told is there stays until a call removes it: *)
(* true of one caller at a time (proved), false of two, whose later write  *)
(* takes back what the earlier has done.                                   *)
NoLostUpdate == promised \subseteq zone

(* The client implements the abstract set of records, again for one caller *)
(* at a time.                                                              *)
Abstract == INSTANCE DnsRecords WITH zone <- zone
ImplementsRecords == Abstract!Spec

=============================================================================
