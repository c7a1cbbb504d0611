# HomeLab-Manger: verification development

TLA+ models of the HomeLab-Manger backend (`src/backend`), the TLC runs that
check them on small instances and the TLAPS proofs that hold for every instance.
`PROJECT.json` is the index: which definition models which lines (`map`), the
runs, the mutated definitions each property is tested against (`mutants`), the
hazards, the disagreements found between code and documentation (`findings`) and
the theorems.

    tlc -config MCShutdownOverlap.cfg MCShutdownRules.tla     a run
    tlapm ShutdownRules_proofs.tla                            the proofs of a module

## The system

One asyncio process (FastAPI, SQLite through SQLAlchemy) with a polling loop and
HTTP handlers, talking to devices through adapters and to Nginx Proxy Manager
(NPM), Namecheap, Kuvasz and Portainer.

| Component | State | Operations | Interacts by | What makes it correct |
|---|---|---|---|---|
| Poll scheduler and `poll_device` (`poller.py`) | due times, `_in_flight`, cache and metric rows | poll, refresh, prune | adapters (awaited), events, outage rules | one scheduled poll per device; a slow poll does not corrupt a later one |
| Outage orchestration (`poller.py`, `main.py`) | `shutdown_rules` with the guard `last_triggered_at` | evaluate, fire, pause, re-arm; create, update, delete, dry run | called by polls; acts on other devices; deleted with them | one action per arming, in order, with the pauses, only on battery, all reached, re-armed on mains |
| Events and notifications (`poller.py`, `events.py`) | offline and UPS-state trackers, event log | emit, dispatch, prune | called by every other part | each transition once, none lost to a failed commit, bounded log |
| Device CRUD and cache (`main.py`) | devices and the rows that hang on them | create, update, delete, action | thread pool beside the polls | nothing survives a deleted device |
| Publishing (`services_manager.py`, `main.py`) | `services` rows, `_in_flight` | pipeline DNS → host → certificate; create, import, edit, retry, delete, unlink | NPM and Namecheap clients, background tasks | what was made is owned or reported; what was there is left alone; "active" is true; runs end |
| Namecheap client, DNS manager (`services_namecheap.py`) | none of its own; the zone at Namecheap | ensure, remove | read and rewrite of the whole zone | the rest of the zone survives every overlap |
| NPM client (`services_npm.py`) | token | host and certificate calls | read-modify-write of hosts | settings it does not own survive |
| Monitoring (`services_monitoring.py`, `main.py`) | `monitors` rows, remote monitors and status pages | create, update, delete, unlink | Kuvasz, by read-modify-write of pages | a remote monitor without a row is one somebody knows of; a user alone gets the pages asked for |
| Sign-in (`main.py`, `auth.py`) | failure counts, users, API keys | login, throttle, bootstrap | thread pool | the limit holds under parallel requests |
| WebSocket fan-out (`main.py`) | connections | broadcast, disconnect | awaited by polls and pipelines | one slow client does not stop the rest |
| USB UPS (`adapters/usbups.py`) | handle under a lock, reset cooldown, filter | read, reset | poll, refresh, diagnostics and tests in one thread pool | resets rare and alone, an outage shows, the graph follows the battery |
| BMC sessions (`adapters/cimc*.py`, `redfish.py`) | tokens | login, request, retry, close, reap | instances of polls, actions, tests and KVM launches share the few sessions of a BMC | no session leaks, a request gets over the loss of one |
| Switches (`adapters/dlink.py`, `hpe1820.py`, `snmp.py`) | VLANs, running and saved | batches and single edits | CLI or web sessions, of several users | possible batches succeed in any order, ok and "saved" are true |
| Credentials (`credentials_crypto.py`) | key file, encrypted columns | merge, migrate | forms send masked secrets | a blank keeps the secret |
| OUI refresh, themes, Portainer, graphs, frontend | files, read-only queries | | | not modelled: little or no interaction |

The hard behaviour is the same everywhere: a coroutine reads, awaits and goes on
with what it read, while another coroutine, a thread of the handler pool, the
remote side or a crash changes it.

## Modules

| Module | What it is |
|---|---|
| `DeviceLifecycle` | one device id: scheduler, polls, cache, trackers, events, creation and deletion |
| `MCDeviceLifecycle`, `DeviceLifecycle_proofs` | its instances and proofs |
| `ShutdownRules` | outage orchestration of one UPS |
| `OneShotGuard` | what a rule's guard promises; `ShutdownRules` implements it |
| `MCShutdownRules` | its instances for TLC |
| `ShutdownRules_proofs` | its proofs |
| `DnsZone` | the Namecheap client on one domain |
| `DnsRecords` | a domain as a set of records with atomic changes: what callers expect |
| `MCDnsZone`, `DnsZone_proofs` | instances and proofs |
| `Provisioning` | the pipeline `provision_service`, NPM and the zone |
| `Publishing` | extends it by the request handlers, crashes and the specification |
| `MCPublishing`, `Publishing_proofs` | its instances, and its proofs |
| `Monitors`, `Monitors_proofs` | uptime monitors in two systems, and their proofs |
| `BmcSession`, `BmcSession_proofs` | the sessions of adapter instances on one BMC, and their proofs |
| `SwitchBatch`, `SwitchBatch_proofs` | VLAN edits of D-Link and HPE switches, and their proofs |
| `UsbUps`, `UsbUps_proofs` | the readers of one USB UPS, and their proofs |
| `MCIntegrations` | instances of these four, one of them at a time |

Atomicity is that of the code: one action is the code between two awaits. A
handler declared `def` runs in a thread and may commit between any two actions.
A database session keeps the columns it has loaded until it commits
(`expire_on_commit`), so a handler that commits once at its end works on the row
as it first read it, and a commit writes only the columns that differ from what
was loaded (`Commit`). Ids of deleted rows are used again (SQLite without
AUTOINCREMENT, `IsNextId`).

### DeviceLifecycle

`device` is which of the devices created one after another holds the id;
`enabled`, `webhook`, `cache`, `samples`, `logged` are the database. `track` is
the entry of the id in `_dev_offline`, `_dev_fail_count` and `_ups_prev_state`,
`emits` is `_emit_count`, `due` stands for `last_polled` and the interval.
`Tick` is one turn of `poll_loop`, `TickBlind` one whose query fails. An
activation of `poll_device` starts with `Begin` or `Refresh`, goes through the
keys (`ReadKey`, `ReadFails`, `StoreFails`, `ReadAborts`: a fetch and the commit
behind it), evaluates its reading (`NoConnEvent`, or `ConnEvent` and, when
`emit_event` has returned, `ConnReported`) and the state of the UPS (`UpsQuiet`,
`UpsEvent`, `UpsReported`). `loop` is the coroutine that runs on after a commit
without awaiting: then only pool threads (`DeleteDevice`, `CreateDevice`,
`SetEnabled`, `UpdateNotifications`) can commit. Rows are written by id, so a
poll goes on writing for a device that is gone and for its successor. `conn`,
`said`, `streak` and `contact` only observe.

### ShutdownRules

`rows`, `cfg`, `fired` and `targets` are the database (`fired`: the guard
`last_triggered_at` is set). An activation of `poll_device` is a point in
`phase` with its reading and the list of rules it began with: `FetchStatus`
(the adapter call), `StartPass` and `Loop` (`_evaluate_shutdown_rules` up to the
next await), `StartAction`/`ActionReaches`/`ActionFails`/`AfterAction`
(`_execute_shutdown_rule`), `Wake` (the pause). `CheckCreate`/`InsertRule`,
`UpdateRule`, `DeleteRule`, `DeleteDevice` are the handlers, `Restart` a crash,
`LoseMains`, `Drain`, `RestoreMains` the world. `gen`, `sent`, `settling` and
`outage` only observe. Failing commits (`CommitsMayFail`) skip the fire or the
re-arm as the code does.

### DnsZone

Each caller is idle, waits for `getHosts` (`read`) or for `setHosts` (`write`)
with the whole zone it is about to send in `draft`. Calls fail at either point,
and a write may take effect without an answer (`WriteUnanswered`). `asked` and
`promised` observe which records calls were about and which were reported to be
there. Names and values are compared as the code compares them, so they are
plain constants; a value is a type with an address. TTL and MX preference
travel with a record and are left out.

### Provisioning and Publishing

`rows` is the services table: name, host id, certificate id, the record's type
and target (override first, snapshot once the DNS step is done), the three step
statuses and the state. `hosts` (domain names and certificate), `certs` (each
with the names it lists) and `zone` are the remote side. `pipe[s]` is the
background task of a service, with the row as its step loaded it (`old`) and as
it is to be committed (`new`). `pipe[s].pc` beyond `queued` is membership of
`_in_flight`, which a task leaves (`Leave`) only after it has broadcast the
verdict it committed (`Conclude`, then `done`). `job[h]` is a request inside a
handler. Every remote call is an action of its own and so is the commit behind
it; a call may fail, and with `LostReplies` take effect and fail. A commit may
fail too: that ends the task with the row as it was (`CommitFails`, the outer
`except`), or the request with a server error (`RequestFails`). `faults` counts
crashes and failed commits, up to `MaxFaults`.

`FindCert` adopts what the code adopts: any Let's Encrypt certificate that lists
the name, whatever else it lists (`Lists`).

Four variables observe. `made` is what the app has created, `left` what a
response has named as left behind, `strayed` the certificates the code forgets:
of services that lost their host (`Unhosted`) and of renames in which NPM failed
(see the disagreements below). `trouble` is set for good when NPM or a commit
fails in a rename, when a step of a delete fails, when two services have come to
share a host, or when a certificate is deleted that another host carries.

A client gets its answer only after its task has begun (`Answered`): the event
loop runs a created task before it can read another request of that client. A
task that is created while another is in `_in_flight` returns at once; that the
other might leave in the same turn of the event loop, so that the new one runs
after all, comes to the same as a retry a moment later and is left out.
Both integrations are configured. Of an NPM host only the names and the
certificate are kept; the read and the write of `update_proxy_host` are two
steps. A DNS call is one step here; what overlapping DNS calls do is the subject
of `DnsZone`. Detaching uptime monitors and the Portainer link are left out, the
await of the Portainer lookup is not.

### Monitors

`remote` and `page` are Kuvasz, `row` the `monitors` table. A request of a user
is `op[u]`: it begins (`CreateMonitor`, `UpdateMonitor`, `DeleteMonitor`) with
the row as it was loaded, makes its calls one by one - `PostMonitor` and after an
empty answer `Lookup` by name, `PatchMonitor`, `DropRemote`, and for each page
`GetPage` and `PatchPage` - and ends with the commit, which may fail. A call may
fail with or without effect. An update writes the columns that differ from the
row it loaded (`Written`); the id of a deleted row is used again (`IsNext`).
Pages hold names, of which some are not HomeLab's (`Foreign`). `told` records
which remote monitors without a row somebody knows of.

### BmcSession

An instance (`inst`) is one adapter object: its place in the fetches of its
program, its token, its login lock. `call` are its requests; those of a gather
run side by side and share the token. A request captures the token and is
`sent`; later it is answered, finds its session gone (`Unauthorized`, one
retry) or fails. Logins are granted, refused when the slots are used up, or
granted without an answer. At the end `Logout`, and with CIMC the SSH reaper:
`ReapList` reads the session table and `ReapKill` terminates what it read,
whoever it belongs to. Four kinds of channel differ in the lock, in what they
gather (`Fetch`) and in how they end. `harm` counts what an instance lost. Basic
auth needs no session and is left out; a gather wider than `BmcWidth` is cut.

### SwitchBatch

`running` and `startup` are the configuration (a name and the mode of each port
for every VLAN); `Accepts` and `Applied` say what the switch does with a
command, as far as the docstrings of the batches say it: joining a VLAN untagged
leaves the previous one, a VLAN with members is not deleted. A writer gives each
item its `Turn` and one or two `Forms` (a create on the 1820 has two), sends the
forms in the order of turns and places (`Commands`; a sort by rank, which can be
reasoned about where a filtered sequence could not) in a session that may break,
and reports. `SwPlansOK` states what the checks of the adapters and the switch
guarantee: names that are none are refused, VLAN 1 exists. Output that comes
after the time limit is read with the next command (`late`, `stale`), so a
failure can be blamed on another item. Every refusal is taken as visible to the
adapter (`_delete` of the HPE adapter looks for `error_alert` only and would miss
one rendered as a mere `alert_msg`). D-Link saves at the end, an HPE form is
saved as it is applied. `refused` records whether any command was refused.

### UsbUps

`ups` is the mains, the battery and whether opens fail; `reader` are the threads
that poll, refresh, test or diagnose. `TakeLock`, `OpenDevice`, `OpenFails` (the
second failing open may reset the bus), `ParseDescriptor` (cached for the life
of the process, short if garbled), `ReadCharge` (may be lost, or be garbage of
which only what is out of bounds is noticed), `ReadFlags` (may be lost, or be
torn: bits have no bounds, so a torn report with the right id is decoded like
any other), `EndRead`, `RaiseError`, and for polls `Deliver`: `State` from the
flags, the metrics through `Filtered`. The charge stands for all numbers. `seen`
records resets, what was fed to the filter, and the last status with the mains
during its read and whether its flags were torn.

### MCIntegrations

The four share nothing, so a behaviour runs one (`part`) while the others rest:
the states add up instead of multiplying, and one run asks all their questions.

## Runs

| Run | Instance | Shows |
|---|---|---|
| `lifecycle_serial` | the scheduler alone, a UPS with 2 states, 2 keys, 3 changes of the device, 2 locked writes | transitions take turns in the log, a lost one is made up for, the log is bounded, a write that fails half-way keeps the last reading |
| `lifecycle_overlap` | a refresh beside the scheduler, 2 devices under the id, one of deletion, restart, failed query or edit | offline is debounced, trackers settle |
| `recreated_inherits` | finding | a device created under a reused id inherits trackers |
| `outage_overlap` | 2 rules, 1 refresh, 1 handler thread, 2 edits or restarts, failing commits | every arming is used at most once, the guard is in the database before the action goes out, refinement of `OneShotGuard` |
| `outage_scheduled` | 2 rules of 5 settings, 2 outages, draining battery, only the scheduler | once per outage, pauses, order; with fairness: a lasting outage uses up every unconditional rule, lasting mains re-arm all |
| `refresh_fires_twice` | finding | a refresh with an old reading re-arms a fired rule |
| `dns_zone` | 2 callers, 3 calls, 2 names, 3 values, every initial zone | untouched records and the mail mode survive, a zone with SRV or CAA is not written, names stay unique |
| `publishing` | 1 client, 2 services, 2 names, 3 requests, every call may fail, the certificate of an empty NPM may list both names | nothing made is forgotten (but for `strayed`), active is published, no row is left in progress |
| `publishing_crash` | the same with 2 requests and a crash or a failed commit, a foreign certificate | no second certificate for a name; every run ends |
| `publishing_overlap` | 2 clients, 2 services, 3 requests, lost replies, an imported host | extra domains and the wildcard certificate survive |
| `adopted_certificate` | finding | a certificate somebody else issued is adopted and later deleted |
| `integrations` | BMC: 8 pairs of instances and fetches with up to 2 faults; switches: any order of up to 4 of 7 edits, and two users with 2 faults; monitors: 4 plans of 1 or 2 users; UPS: 3 scenes of 1 to 3 readers | sessions stay bounded and the retry suffices; batches succeed in any order, ok and "saved" are true; no remote monitor is forgotten, a user alone gets the pages asked for; resets are rare and alone, an outage shows, the graph follows; everything that was begun ends |

Why the bounds suffice: a hazard here needs two actors and one repetition. In
`lifecycle_serial` two lost writes hit the same transition twice, three changes
are off, on and off again; an offline threshold of 2 (3 in the code) is the
least that tells a counter from a flag, a pruning interval of 2 over a cap of 1
the least that overshoots. Numbers above the threshold are one (`Saturated`).
`lifecycle_overlap` has one state of the UPS and no locked writes: its
properties are about counters and trackers, and liveness over two polls bounds
its size; a reading from before a change, evaluated after one from behind it,
needs one change only. Two
rules give an order and a pause, one refresh beside the scheduler an overlap,
two outages a re-arming. Two DNS calls can overlap while a third has gone
before. Three requests are a create, a change and a retry or delete, with two
services whose pipelines overlap and two names to swap between. One crash or one
failed commit strands what a retry must then deal with. NPM starts empty or with
a host under a wildcard certificate that serves one of the names beside a foreign
domain, or both names; the zone starts empty or with a
conflicting record (in `publishing` an empty NPM always comes with the record:
without it nothing new could happen, and the run would take too long). Id spaces
are large enough that the interesting creations happen; when they are used up,
creations fail. The overlap run starts with the foreign host and an empty zone,
because its properties are about hosts and certificates.

In `integrations` a BMC is shared by two instances, the least that lets a reaper
or a full session table hit somebody else; two faults make the retry fail. Four
VLAN edits are one of each sort, so every order the code could get wrong occurs;
three VLANs are the default, one to make and one to delete, and the one port
moves between them. Three requests of one user are a creation, a rename with a
change of pages and a deletion; two users with four requests are what it takes
for a deletion to meet a successor of its row, and they ask for no pages,
because pages say nothing about rows. Five reads in a row are two more than the
filter rejects, and the time of the scene with a wedged bus is one cooldown.

`CHECK_DEADLOCK FALSE` where users may stop making requests; the scheduler of
`DeviceLifecycle` never stops, so deadlock is checked there.

What `DeviceLifecycle` promises depends on who polls. The scheduler alone keeps
the log truthful. With a refresh beside it a transition may be logged twice, and
the last word of the log can be wrong for as long as the device stays as it is:
a poll that waits for its webhook sets the tracker when it returns, over what a
later reading has set. What still holds is that offline takes a full streak of
failures and that the trackers settle, so that the next change is noticed.
`LastReadingKept` is about the row, not about whose reading it is: the row of a
reused id may show its predecessor until the next poll.

The exemptions in `ActiveIsPublished` (`trouble`) are real. If NPM fails in a
rename, the response carries a warning, the pipeline then marks every step ok
while the host still serves the old name, and a service created later under the
old name adopts that host; their read-modify-writes can detach each other's
certificate. After a delete that failed half-way a retry makes the host anew but
skips the certificate, which is still marked ok; after one whose commit failed
the row stands for objects that are gone. Two services that adopted one host,
because it served both names before, share it: to delete one takes the host of
the other, whose row stays "active". Two services with hosts of their own that
adopted one certificate share that: to delete one takes the certificate of the
other, whose host goes on carrying an id that NPM does not have any more.
Without these, a certificate counts only as long as it exists (`Published`).

`NothingForgotten` excuses `strayed`, the two kinds of certificate that the code
forgets (both are among the disagreements below). `Settled` is about behaviours
without a crash and without a failed commit (`faults = 0`): either leaves a row
"provisioning" with no task until somebody retries, and start-up does not look
for such rows. With overlapping requests it is about "provisioning" only: a
rename that was let in before a retry began and commits during the last
broadcast of the retry's task creates a task that returns at once, and the row
stays "pending". For overlapping requests the run has no instance; the theorem
`NoRowStranded` covers them.

`StatusFollowsFlags` excuses flags that were lost or torn. A lost report reads
as mains, a torn one as whatever its bits say; the code notices neither. What
the property says is that nothing else does it: no other report, retry, reset,
cached descriptor or second reader.

`DnsRecords` is implemented by `DnsZone` when calls do not overlap (proved); of
two that overlap the later rewrite undoes the other.

`SessionsBounded` says how many sessions an adapter instance loses sight of, and
the bound is reached. Without the login lock (plain CIMC) parallel first requests
each log in, and all but one session are left to the reaper. With it one is lost
for each login whose answer is lost; for each session that dies, one for every
other request in flight, because a request that learns late of the death drops
the token another has just fetched (`Others`); and after the logout, one for each
request that nobody waits for any more, because its gather failed. Plain Redfish
has no lock either, but loses none while nothing fails and the BMC has a session
for every instance: its first request runs alone and fetches the token before the
others begin. That is so because the status comes first in
`get_supported_cache_keys` (redfish.py:112) and is one request; with a gather
first, each of its requests would log in (`Undisturbed`). `DanglingAccounted` counts a
monitor as accounted for when its creation answered with an error although it
had worked, and when its row went with a delete request about the earlier row of
that id (`told.swept`), which the run reaches.

### Fairness

`DeviceLifecycle!FairSpec`: the event loop serves its ready queue in order, so a
coroutine that is ready time and again does run: strong fairness of `Tick` and
of each poll, which are disabled while another coroutine runs on. Every await of
a poll has a time-out; an interval elapses. Nothing is assumed of users, the
device, restarts or the lock.

`ShutdownRules!FairSpec`: the scheduler keeps polling (`poll_loop` restarts a
due poll for ever) and each pass goes on, since every await is bounded by a
timeout or the 600 s cap. Nothing is assumed of refreshes, users, crashes and
the mains. `Publishing!FairSpec`: each task and each handler goes on, because
all NPM and Namecheap calls have timeouts; requests and crashes are free.

`MCIntegrations!IntSpec`: somebody who can go on does (`Busy`), weaker than the
fairness of each actor that the four specifications state. Every HTTP, SSH and
USB call has a timeout, and requests and faults are bounded by the scenario.

## Proofs

`DeviceLifecycle_proofs` (any number of refreshes, keys, states and limits;
assumption `ConstantsOK`): `TypeCorrect`, `ReadingKept`, `LogStaysBounded` and
`Debounced`. The log bound is not inductive: the room below it depends on how
far the emit counter is from its next check, and on a check missed after a
restart or a lock (`LogRoom`). An offline event is debounced because, while the
device is not marked offline, the counter is never ahead of the real streak of
failures (`NeverAhead`): purges, restarts and late returns can only set it back.
`TakingTurns` needs a scheduler that is the only reader of a device nobody edits
(hypothesis `Alone`: no refreshes, no disturbances; assumption `NoWord`): two
polls that overlap, or a restart, can log a transition twice. The invariant is
that the trackers are what the log said last, except between the commit of an
event and the return of `emit_event` (`Truthful`): an event that could not be
written leaves both where they were, and the next poll tries again.

`ShutdownRules_proofs` (any rules, targets, activations, handler threads and
bounds; assumption `ConstantsOK`): `TypeCorrect`, `OneShot`, `GuardPersisted`
and `Refinement`, which hold whatever polls overlap and whoever edits.
`AtMostOncePerArming` is not inductive: firing needs to know
that an armed rule's token is fresh (`GuardBeforeAction`), and a re-arming keeps
that true only because no token in use is younger than the rule's current
arming (`TokensOld`). `IInv` is the conjunction with the types. The refinement
follows step by step from `IInv`.

`OnceAnOutage`, `DelaysRespected` and `InPriorityOrder` are about the scheduler
by itself (hypothesis `Alone`: no refreshes, no edits or restarts): with a
refresh beside it the first is false, as the run `refresh_fires_twice` shows.
Outages, drains and the order of steps stay free. A rule that has acted is armed
again only when a reading shows the mains back, and a reading from before the
outage is out of use before any rule acts (`OutagesApart`); only the rule just
handled can be settling (`OthersSettled`); what is due and armed is on the list
behind the present rule, in the order of the priorities the pass began with
(`InOrder`). The order also needs commits that succeed (`~CommitsMayFail`): the
code skips a rule whose guard it cannot save and goes on with the next.

`DnsZone_proofs` (any callers, names, values, mail modes): `TypeCorrect`,
`OthersKept` and `UnsafeKept`. A write sends a draft made from an older reading;
the invariant is that every draft agrees with the present zone outside the
records some call was about, in the mail mode everywhere, and has no record of
an unsafe type (`DraftsAgree`). A write that comes between two steps of another
call agrees too, so it disturbs nobody's draft. For callers that do not overlap
`SerialPromisesKept` and `SerialRefinement` (it implements `DnsRecords`): the
only draft in the air was made from the zone as it is. `NamesUnique` holds
however callers of the app overlap (the model has no other client of the zone):
a stale draft comes from a zone that had one record for
each name, and what a call adds has a name its draft had not (`UniqueDrafts`).

`SwitchBatch_proofs` (any writers, plans, VLANs, ports): `OkIsTrue`,
`SavedIsTrue`, `PossibleIsDone` and `SwitchTyped`. A refusal is in the report, or
noted in the output still to be read, or blamed on the save at the end (`Noted`);
a difference between running and saved configuration is owed by a writer who has
still to save or to report that it could not (`Owed`). `PossibleIsDone` (assumption `SwPlansOK`; items in any
number and order) follows a batch that is alone (`Courses`): after k commands the
configuration is what the first k slots make of the first one (`After`), said
without the order in which they came, so that one more slot keeps it whatever its
kind (`NextNames`, `NextModes`). That the switch accepts each command
(`NextAccepted`) is where the turns matter: a VLAN that is made has been made
when a port joins it (`MadeBefore`), and all ports have left when it is deleted
(`TurnsPassed`, `ModesDone`). That every slot comes up once is that no two have
the same rank (`RanksFit`, `NthIs`). `SwitchTyped` bounds what a request has still
to send: always the slots from some place on (`Sends`, `Rest`), also after a
refused number, which takes its own label along and nothing else (`LabelFollows`).
The provers do not know that a literal is a string; `SwTextsAreStrings` tells them.

`UsbUps_proofs` (any readers, levels, garbage, steps and cooldowns; assumption
`UpsConstantsOK`): `TypeCorrect`, `OutageToldOrLost`, `ResetsApart`,
`GraphFollows`. The parts of the invariant: who holds the lock and what the
mains were during a read (`ReaderOK`: flags that are neither lost nor torn tell
what was so at some time of the read), the status told (`StatusOK`), the last
reset (`ResetsOK`), and that the numbers rejected since the stored one were all
far from it (`FilterOK`).

`Monitors_proofs` (any users, requests, faults, names, pages; assumptions
`MonRowsAreInts`, `MonPagesAreInts`, `MonPlansFinite`, `ForeignIsNoName`: ids
of rows and pages are integers, a plan has finitely many users and pages, the
entries of others have no name of ours): `NoneForgotten`, `PagesAsAsked` and
`MonitorsTyped`.
In the middle of requests a remote monitor is accounted for by its row, by what
users know, or by a creation that knows it by id or - after an empty answer -
only by name (`Answered`). That the name finds the right one needs `Names`, and
that no update renames a monitor without a row (`Laters`); that ids never come
back needs `Ids`.
`PagesAsAsked` (a plan with one user, no fault so far) follows the one request
under way (`World`): every row it is not at work on stands on its pages
(`Standing`), each name on a page is that of a monitor or the one the request is
moving away (`Listed`), and the edits it has left lead from the pages as they are
to the pages asked for, and off every page under the old name (`Joining`,
`Leaving`). Which name belongs to whom needs rows with ids and names of their own
(`RowsOK`). Pages are put in order by rank (`Sorted`), and that every page comes
up once is the lemma `SortedIs`. `MonitorsTyped` holds however requests overlap:
a row is linked by the name it bears also when an update writes its columns over
a row created since under the same id, and no request edits a page more than
twice.

`Publishing_proofs` (any services, names, ids, clients, attempts and provisioning
plan; assumptions `SpecialValues`, `KindsApart`, `PlanOK`, `FormsOK` and
`BoundsOK`: special values are no names or ids, records and ids of hosts and
certificates are told apart, what the plan and the form name are records). `Inv`
(theorem `Invariance`) holds whatever overlaps, is lost or crashes, and gives
`TypeCorrect`, `SharedKept`, `ExtraKept`: what a task or a request carries at
each point (`PipeFits`, `JobFits`), that nobody has a certificate that lists no
service's name as his own (`Own`), and that who has read a host knows whether it
serves the extra domain (`Knows`). A certificate that does list such a name is
outside `SharedKept`: the code adopts and deletes it (`adopted_certificate`).
`NoRowStranded` adds that a row in progress is worked on (`NoneStranded`), as
long as there was no fault: a task past `queued` and up to `done` for
"provisioning", and with one client any task for "pending", because then nobody
can commit an edit between a verdict and the end of its task.

The other three are about one request at a time (`OneClient`; pipelines still
overlap with requests and each other), because of two requests that overlap one
can commit over the other's columns, and two can give two rows one name: what a
row says of NPM is then somebody else's doing. The common part is `Serial`: the
row a task or a request holds in memory is the row in the database.
`NoSecondCertificate` (no lost replies, any number of crashes and failed
commits): who is about to ask for a certificate asks for a name that no
certificate lists (`NoneYet`); after a lost reply the next attempt asks again
without looking for the certificate first. `NothingIsForgotten` (no lost
replies, no fault): every living object has a row, a response or a request under
way that answers for it, or has strayed (`Account`); a lost reply, a crash or a
failing commit between a call and its commit leaves an object nobody knows.
`ActiveServicesArePublished` (no fault, replies may be lost): as long as there
was no `trouble`, each column that says ok is true of NPM and of the zone,
except for the columns a rename or a delete is at work on, of which its request
knows what it has done (`Good`); and the certificates that hosts carry, or that
a task or a request is about to write to one, exist (`Live`).

`BmcSession_proofs` (any instances, channels, widths, slots and faults;
assumptions `BmcFinite`: finitely many instances and requests, 0 is no request;
`BmcCasesOK`: a poll asks for something): `BmcInvariance`, `StaleNeedsTwoDeaths`,
`SessionsStayBounded`, `ReapersLeaveNothing` and `SessionsTyped` (every session
that a token, a request or a list names has been granted, `Ids`, and no instance
runs off the end of its program, `OnwardsAt`). An instance
holds only ids that were granted to it (`Apart`), so a session that is gone has
been counted as its own loss; a request that has used its retry saw one death,
and the token it got after that is a second session (`Renewed`). A session
opened in time belongs to an instance that is not closed, and is on the list of
its reaper (`Reapable`); the theorem is the last clause of `SessionsBounded`.

The first clause needs an account of what an instance may still lose (`Counted`):
its lost sessions, plus the requests that do not know yet that their session is
gone (`Late`: each can still drop a good token), plus `Others` while the token in
use is dead and nobody has noticed (`Cut`). The account never exceeds the bound:
a death raises both by the same, a request that learns late turns itself into a
lost session, and whoever logs in has the lock while there is no token (`Turns`),
so nothing else is dropped. The second clause is an invariant of the quiet
course (`Calm`): the live sessions are exactly the tokens in use, so there is
room for who has none (`RoomForAll`); who has none is in its first gather and
its only request is the one that logs in (`Alone`), and two instances have two
tokens (`Distinct`), so that a logout takes nobody else's session.

Only model-checked: liveness (out of the prover's reach, like `ENABLED`);
`OnlyOwnCertificatesDeleted` and the other findings, which are false;
`IntegrationsTypeOK` as one formula, because its parts belong to four systems
that the run only puts side by side: each part is a theorem of its module
(`SessionsTyped`, `SwitchTyped`, `MonitorsTyped`, `TypeCorrect` of `UsbUps_proofs`).

Proving corrected the models twice: a CASE whose arms overlapped had no definite
value where both applied (the target of a command in `SwitchBatch`, the end of a
KVM launch in `BmcSession`), which TLC hides by taking the first; and an earlier
form of `SessionsBounded` allowed one lost session for each death, which is not
enough for a gather of three.

## What is left

Worth proving next: that `Publishing` keeps its promises to overlapping clients
where it does (the findings say where it does not); each needs an account of the
columns that another request may have written over.

Not modelled and why:

- Login throttle, users and API keys: counters in memory and CRUD. Parallel
  attempts may overshoot the limit by the size of the thread pool; nothing
  promises otherwise.
- WebSocket fan-out: for a poll one more await; a failed send drops a client.
- Credentials: pure functions over one form or column, and a migration at start
  that nothing runs beside.
- SNMP fetches, the IPMI walk, HID report parsing, the scraping of pages and
  JNLP files: parsing. Port and PoE forms of the switches: one form each.
- Basic auth on BMCs (no session), the login of the iBMC web console.
- Deleting a monitor while the integration is not configured, notification
  channels.
- OUI download, themes, metric queries, Portainer lookups, the frontend: they
  share no state with the rest, or have no steps that can interleave.

Disagreements seen in the models without a run of their own:

- a pass goes on after its pause although the mains are back (`ShutdownRules`,
  `Wake`);
- a rename removes a record of the chosen type that the pipeline had refused to
  touch, and two overlapping requests can give two rows one name (`Publishing`);
- when a host is gone and cannot be made anew, its id is cleared
  (`services_manager.py:322-325`); a delete then skips the certificate, which is
  dropped only below `npm_proxy_host_id is not None` (line 500), and returns no
  errors, though "empty means everything that existed was removed" (lines
  494-495); a rename does the same (`Publishing`, `Unhosted`);
- when the host is made anew, the certificate step is still "ok" and is skipped,
  so the row becomes "active" with a host without a certificate (`Publishing`);
- two services may adopt one host, or one certificate that lists both their
  names, and to delete one of them deletes it (`Publishing`, `trouble`);
- when NPM fails in a rename, the response says only "NPM rename: ..."
  (`main.py:1728`); the pipeline then stores the certificate of the new name over
  the id of the old one (`services_manager.py:379`, 383), which no row and no
  response names any more, though "created NPM object ids [...] are stored so
  deletion can clean up precisely what was provisioned" (`models.py:198-200`;
  `Publishing`, `HostWarning`);
- a task leaves `_in_flight` only after its last broadcast
  (`services_manager.py:398`, 404): the task of an edit that commits in between
  returns at once, though "the re-provision itself still proceeds"
  (`main.py:1659-1660`; `Publishing`, `Leave`);
- `find_certificate` promises a certificate "covering exactly this fqdn"
  (`services_npm.py:210`), and adopts one that lists other names beside it
  (`Provisioning`, `FindCert`);
- a commit of the pipeline that fails leaves the row "provisioning" with no task
  (`Publishing`, `TaskFails`);
- rows of a deleted device come back from a poll in flight (`DeviceLifecycle`);
- of two overlapping DNS changes one is lost (`DnsZone`);
- the KVM launch keeps its CIMC session for the viewer (docstring at
  `main.py:1080`), but the reaper at the end of the next poll terminates every
  XMLAPI session (`BmcSession`, `ReapKill`);
- "read errors retry" (`usbups.py:606-612`), but a failing report is swallowed
  and a reading without its flags says "online" during an outage; torn flags
  are believed (`UsbUps`);
- a status page that failed is said to be "retryable via PUT" (`main.py:1993`),
  but the page is stored as joined and the same PUT finds nothing to change; and
  a delete request that outlives its row takes the row created meanwhile under
  the reused id (`Monitors`);
- `docs/api.md:391` calls a batch of VLAN edits atomic; when a command fails,
  what went before stays and what follows is still tried (`SwitchBatch`);
- the Huawei requests that `_hardware` and `_storage` gather are not behind the
  gate that the comment of `_members` gives for them (`redfish.py:712`).
