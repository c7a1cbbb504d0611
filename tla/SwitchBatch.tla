---------------------------- MODULE SwitchBatch ----------------------------
(***************************************************************************)
(* VLAN edits on a managed switch: DLinkAdapter runs CLI commands in one   *)
(* SSH session and saves at the end; HPE1820Adapter posts web forms in one *)
(* login, each of which the switch saves at once.  Requests come as a      *)
(* batch or singly, from several users at a time; sessions break, the      *)
(* switch refuses commands, answers late, or reboots.                      *)
(***************************************************************************)
EXTENDS Integers, Sequences, FiniteSets

CONSTANTS SwWriters,    \* requests that run side by side
          SwPlans,      \* scenarios: [maker ("dlink", "hpe"), start (the
                        \* switch's configuration), asked (writer -> what it
                        \* asks: [single, items]), faults (how many)]
          SwVids,       \* VLAN ids, 1 is the default VLAN
          SwPorts,
          SwPool        \* web sessions of the switch

VARIABLES plan,      \* the scenario of this behaviour
          running,   \* running configuration of the switch
          startup,   \* what a reboot brings back
          writer,    \* the course of each request
          report,    \* what each request answered
          refused,   \* history: a command of the request was not carried out
          trouble    \* faults so far

swVars == <<plan, running, startup, writer, report, refused, trouble>>

Modes == {"none", "tagged", "untagged"}
Absent == ""

(* What is asked for has passed the adapter's checks of names and modes;   *)
(* there is always a default VLAN.                                         *)
SwConfig == [name : [SwVids -> STRING], mode : [SwVids -> [SwPorts -> Modes]]]
SwEdits == [op : {"create", "rename", "change", "delete"}, vid : SwVids,
            name : STRING \ {Absent}, port : SwPorts, mode : Modes]
ASSUME SwPlansOK ==
  /\ 1 \in SwVids /\ SwPool \in Nat \ {0}
  /\ \A p \in SwPlans :
       /\ p.maker \in {"dlink", "hpe"} /\ p.faults \in Nat
       /\ p.start \in SwConfig /\ p.start.name[1] # Absent
       /\ \A w \in DOMAIN p.asked : p.asked[w].items \in Seq(SwEdits)

(* Of strings in general, for the provers, who do not know it.             *)
ASSUME SwTextsAreStrings == {Absent, "VLAN"} \subseteq STRING

NoReport == [ok |-> FALSE, saved |-> FALSE, warned |-> FALSE]
Denied == NoReport

(***************************************************************************)
(* The switch: what a command makes of a configuration, if accepted.  A    *)
(* VLAN with members is not deleted; a port that joins a VLAN untagged     *)
(* leaves the one it was untagged in.                                      *)
(***************************************************************************)
Exists(cf, v) == cf.name[v] # Absent
Members(cf, v) == {p \in SwPorts : cf.mode[v][p] # "none"}

Accepts(cf, x) ==
  CASE x.op \in {"create", "add"} -> ~Exists(cf, x.vid)
    [] x.op \in {"rename", "label", "change"} -> Exists(cf, x.vid)
    [] x.op = "delete" -> Exists(cf, x.vid) /\ Members(cf, x.vid) = {}

Joined(cf, x) ==
  [v \in SwVids |-> [p \in SwPorts |->
     CASE v = x.vid /\ p = x.port -> x.mode
       [] v # x.vid /\ p = x.port /\ x.mode = "untagged"
            /\ cf.mode[v][p] = "untagged" -> "none"
       [] OTHER -> cf.mode[v][p]]]

Applied(cf, x) ==
  CASE x.op \in {"create", "rename", "label"} ->
         [cf EXCEPT !.name[x.vid] = x.name]
    [] x.op = "add" -> [cf EXCEPT !.name[x.vid] = "VLAN"]
    [] x.op = "change" -> [cf EXCEPT !.mode = Joined(cf, x)]
    [] x.op = "delete" -> [cf EXCEPT !.name[x.vid] = Absent]

(***************************************************************************)
(* The adapter.                                                            *)
(***************************************************************************)
(* One invalid item and nothing is sent.                                   *)
Invalid(x) == x.op \in {"create", "delete"} /\ x.vid = 1

(* A batch takes its turns: creates, renames, ports by their mode, deletes, *)
(* each by place.                                                          *)
DeletesFirst(x) ==                 \* mutant: deletes before the ports move
  CASE x.op = "create" -> 1
    [] x.op = "rename" -> 2
    [] x.op = "delete" -> 3
    [] OTHER -> 4

Turn(x) ==
  CASE x.op = "create" -> 1
    [] x.op = "rename" -> 2
    [] x.op = "change" /\ x.mode = "none" -> 3
    [] x.op = "change" /\ x.mode = "tagged" -> 4
    [] x.op = "change" /\ x.mode = "untagged" -> 5
    [] x.op = "delete" -> 6

(* The 1820 takes a VLAN's number first and its name in a second form.     *)
Forms(maker, x) ==
  IF maker = "hpe" /\ x.op = "create" THEN <<"add", "label">> ELSE <<x.op>>

(* The forms of the items, by their places; which of two is sent first;    *)
(* and all of a batch in this order.                                       *)
Slots(maker, items) ==
  {s \in (DOMAIN items) \X {1, 2} : s[2] <= Len(Forms(maker, items[s[1]]))}
Sooner(items, s, t) ==
  LET x == items[s[1]]
      y == items[t[1]]
  IN \/ Turn(x) < Turn(y)
     \/ Turn(x) = Turn(y) /\ (s[1] < t[1] \/ (s[1] = t[1] /\ s[2] < t[2]))
Nth(maker, items, k) ==
  CHOOSE s \in Slots(maker, items) :
    Cardinality({t \in Slots(maker, items) : Sooner(items, t, s)}) = k - 1
Form(maker, items, s) ==
  [items[s[1]] EXCEPT !.op = Forms(maker, items[s[1]])[s[2]]]
Commands(maker, items) ==
  [k \in 1..Cardinality(Slots(maker, items)) |->
     Form(maker, items, Nth(maker, items, k))]

Dlink == plan.maker = "dlink"
Hpe == plan.maker = "hpe"
NewWriter == [phase |-> "idle", todo |-> <<>>, errors |-> FALSE,
              late |-> FALSE, stale |-> FALSE]
Items(w) == plan.asked[w].items
Single(w) == plan.asked[w].single

SwInit ==
  /\ plan \in SwPlans
  /\ running = plan.start /\ startup = plan.start
  /\ writer = [w \in SwWriters |-> NewWriter]
  /\ report = [w \in SwWriters |-> NoReport]
  /\ refused = [w \in SwWriters |-> FALSE]
  /\ trouble = 0

SwFault == trouble < plan.faults /\ trouble' = trouble + 1
Goes(w, ph) == writer' = [writer EXCEPT ![w].phase = ph]
Answers(w, r) == Goes(w, "done") /\ report' = [report EXCEPT ![w] = r]
InUse == {w \in SwWriters : writer[w].phase = "run"}

Submit(w) ==
  /\ writer[w].phase = "idle" /\ w \in DOMAIN plan.asked
  /\ IF \E n \in DOMAIN Items(w) : Invalid(Items(w)[n])
     THEN Answers(w, Denied)
     ELSE /\ writer' = [writer EXCEPT ![w].phase = "open",
                                      ![w].todo = Commands(plan.maker, Items(w))]
          /\ UNCHANGED report
  /\ UNCHANGED <<plan, running, startup, refused, trouble>>

(* The SSH or web login; the 1820 answers 503 when its pool is used up.    *)
OpenSession(w) ==
  /\ writer[w].phase = "open"
  /\ \/ /\ Hpe => Cardinality(InUse) < SwPool
        /\ Goes(w, "run") /\ UNCHANGED <<report, trouble>>
     \/ /\ Hpe /\ Cardinality(InUse) >= SwPool
        /\ Answers(w, Denied) /\ UNCHANGED trouble
     \/ /\ SwFault /\ Answers(w, Denied)
  /\ UNCHANGED <<plan, running, startup, refused>>

(* Whether an error shows at this command: its own, or the one before that *)
(* was read late.                                                          *)
BlamesOwn(w, yes, late) == ~yes /\ ~late    \* mutant: late output is lost

Blames(w, yes, late) == writer[w].late \/ (~yes /\ ~late)

(* The next command of the session.  Over SSH a refusal that comes after   *)
(* the read gave up is read with the next command's output; over HTTP the  *)
(* second form of a create is skipped when the first was refused, and a    *)
(* session the switch has ended refuses everything.                        *)
Command(w) ==
  /\ writer[w].phase = "run" /\ writer[w].todo # <<>>
  /\ LET x == Head(writer[w].todo)
         yes == Accepts(running, x) /\ ~writer[w].stale
         skip == ~yes /\ x.op = "add"
         then == IF skip THEN Tail(Tail(writer[w].todo))
                 ELSE Tail(writer[w].todo)
     IN
     /\ running' = IF yes THEN Applied(running, x) ELSE running
     /\ startup' = IF Hpe THEN running' ELSE startup
     /\ refused' = [refused EXCEPT ![w] = @ \/ ~yes]
     /\ \E late \in BOOLEAN :
          /\ IF late THEN Dlink /\ ~yes /\ SwFault
             ELSE UNCHANGED trouble
          /\ writer' = [writer EXCEPT ![w].todo = then, ![w].late = late,
                 ![w].errors = @ \/ Blames(w, yes, late)]
  /\ UNCHANGED <<plan, report>>

(* The 1820 has saved already.  A single create over two forms reports the *)
(* second; for all other single requests errors are those of the request.  *)
Finish(w) ==
  /\ Hpe
  /\ writer[w].phase = "run" /\ writer[w].todo = <<>>
  /\ Answers(w, [ok |-> ~writer[w].errors, saved |-> TRUE, warned |-> FALSE])
  /\ UNCHANGED <<plan, running, startup, refused, trouble>>

NoSaveError(w, fails, late) == writer[w].late   \* mutant: the save is not checked

SaveError(w, fails, late) == writer[w].late \/ (fails /\ ~late)

(* `save config` is sent whatever failed before.  What shows up as its     *)
(* failure is a warning to a single request that seems to have worked.     *)
Save(w) ==
  /\ Dlink
  /\ writer[w].phase = "run" /\ writer[w].todo = <<>>
  /\ \E fails, late \in BOOLEAN :
       /\ late => fails
       /\ IF fails THEN SwFault ELSE UNCHANGED trouble
       /\ startup' = IF fails THEN startup ELSE running
       /\ LET shown == SaveError(w, fails, late)
              bad == writer[w].errors \/ (shown /\ ~Single(w))
          IN /\ report' = [report EXCEPT ![w] =
                   [ok |-> ~bad, saved |-> ~shown,
                    warned |-> shown /\ ~bad]]
             /\ writer' = [writer EXCEPT ![w].phase = "done",
                                         ![w].late = late]
  /\ UNCHANGED <<plan, running, refused>>

(* An exception in the session: every command is answered with the error,  *)
(* those that had been carried out included.                               *)
Break(w) ==
  /\ writer[w].phase = "run" /\ SwFault
  /\ Answers(w, Denied)
  /\ UNCHANGED <<plan, running, startup, refused>>

(* The switch ends a web session: the next forms are redirected to login.  *)
WebExpires(w) ==
  /\ Hpe /\ writer[w].phase = "run" /\ ~writer[w].stale
  /\ SwFault
  /\ writer' = [writer EXCEPT ![w].stale = TRUE]
  /\ UNCHANGED <<plan, running, startup, report, refused>>

Reboot ==
  /\ SwFault
  /\ running' = startup
  /\ writer' = [w \in SwWriters |->
       IF writer[w].phase = "run" THEN [writer[w] EXCEPT !.phase = "done"]
       ELSE writer[w]]
  /\ report' = [w \in SwWriters |->
       IF writer[w].phase = "run" THEN Denied ELSE report[w]]
  /\ UNCHANGED <<plan, startup, refused>>

WriterStep(w) == OpenSession(w) \/ Command(w) \/ Finish(w) \/ Save(w)
SwNext == \/ \E w \in SwWriters : Submit(w) \/ WriterStep(w)
                                    \/ Break(w) \/ WebExpires(w)
          \/ Reboot

SwSpec == /\ SwInit /\ [][SwNext]_swVars
          /\ \A w \in SwWriters : WF_swVars(WriterStep(w))

-----------------------------------------------------------------------------
(* Well typed, and no more commands than two for each item asked for.      *)
SwTypeOK ==
  /\ plan.maker \in {"dlink", "hpe"} /\ trouble \in 0..plan.faults
  /\ {plan.start, running, startup} \subseteq SwConfig
  /\ \A w \in SwWriters :
       /\ writer[w].phase \in {"idle", "open", "run", "done"}
       /\ w \in DOMAIN plan.asked =>
            Len(writer[w].todo) <= 2 * Len(Items(w))
       /\ {writer[w].errors, writer[w].late, writer[w].stale} \subseteq BOOLEAN
  /\ report \in [SwWriters -> [ok : BOOLEAN, saved : BOOLEAN, warned : BOOLEAN]]
  /\ refused \in [SwWriters -> BOOLEAN]

(* What a batch asks for, whatever the order of its items.                 *)
Asks(items, op) == {items[n] : n \in {m \in DOMAIN items : items[m].op = op}}
Named(items) == Asks(items, "create") \union Asks(items, "rename")
Gone(items, v) == \E x \in Asks(items, "delete") : x.vid = v
TargetName(cf, items, v) ==
  IF Gone(items, v) THEN Absent
  ELSE IF \E x \in Named(items) : x.vid = v
       THEN (CHOOSE x \in Named(items) :
               /\ x.vid = v
               /\ (\E y \in Asks(items, "rename") : y.vid = v)
                    => x.op = "rename").name
       ELSE cf.name[v]
TargetMode(cf, items, v, p) ==
  LET changes == {x \in Asks(items, "change") : x.port = p} IN
  IF \E x \in changes : x.vid = v
  THEN (CHOOSE x \in changes : x.vid = v).mode
  ELSE IF /\ cf.mode[v][p] = "untagged"
          /\ \E x \in changes : x.mode = "untagged"
       THEN "none"
       ELSE cf.mode[v][p]
Target(cf, items) ==
  [name |-> [v \in SwVids |-> TargetName(cf, items, v)],
   mode |-> [v \in SwVids |-> [p \in SwPorts |-> TargetMode(cf, items, v, p)]]]

(* A batch asks for something possible: each thing once, on VLANs that are *)
(* there or created, and no VLAN deleted that keeps a member.              *)
Consistent(cf, items) ==
  LET made == {x.vid : x \in Asks(items, "create")}
      moved == Asks(items, "change")
  IN
  /\ \A m, n \in DOMAIN items : m # n /\ items[m].op = items[n].op =>
       \/ items[m].vid # items[n].vid
       \/ items[m].op = "change" /\ items[m].port # items[n].port
  /\ \A x, y \in moved : x.mode = "untagged" /\ y.mode = "untagged"
                           /\ x.port = y.port => x = y
  /\ \A v \in made : ~Exists(cf, v)
  /\ \A x \in moved \union Asks(items, "rename") \union Asks(items, "delete") :
       Exists(cf, x.vid) \/ x.vid \in made
  /\ \A v \in SwVids : Gone(items, v) =>
       v # 1 /\ Members(Target(cf, items), v) = {}

Finished(w) == writer[w].phase = "done"
Alone(w) == \A u \in SwWriters \ {w} : writer[u].phase = "idle"

(* The fixed order (creates, renames, none before tagged before untagged,  *)
(* deletes) is enough: whatever order its items come in, a batch that asks *)
(* for something possible succeeds and leaves exactly what it asks for.    *)
ConsistentBatchSucceeds ==
  \A w \in SwWriters :
    Finished(w) /\ Alone(w) /\ trouble = 0 /\ Consistent(plan.start, Items(w))
      => report[w].ok /\ running = Target(plan.start, Items(w))

(* No command that the switch refused hides behind an ok without warning,  *)
(* also when its answer is read with another command's or another user     *)
(* edits at the same time.                                                 *)
OkMeansAllApplied ==
  \A w \in SwWriters :
    Finished(w) /\ report[w].ok /\ ~report[w].warned => ~refused[w]

(* When all who edited were told "saved", a reboot changes nothing, unless *)
(* the switch's answer to the save came after the session was closed.      *)
SavedSurvivesReboot ==
  (\A w \in SwWriters : writer[w].phase \in {"idle", "done"}
                          /\ (Finished(w) => report[w].saved /\ ~writer[w].late))
    => running = startup

(* Every request that was begun is answered.                               *)
SwAtRest == \A w \in SwWriters : writer[w].phase \in {"idle", "done"}
=============================================================================
