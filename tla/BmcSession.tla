----------------------------- MODULE BmcSession -----------------------------
(***************************************************************************)
(* The login sessions that adapter instances hold on one BMC.  A poll, a   *)
(* refresh, an action, a KVM launch and a connection test each build an    *)
(* instance of their own; an instance runs requests, some of them side by  *)
(* side (asyncio.gather), which share the instance's token; the BMC grants *)
(* few sessions.  One behaviour has one kind of channel:                   *)
(*   "xmlapi"    CIMCAdapter, whose login takes no lock;                   *)
(*   "hybridXml" the XMLAPI half of CIMCRedfishAdapter (login lock);       *)
(*   "hybridRf"  the Redfish half of CIMCRedfishAdapter (login lock);      *)
(*   "ibmc"      RedfishAdapter against a BMC that rejects Basic auth.     *)
(* A request is sent in one step, with the token it captured, and answered *)
(* in a later one.                                                         *)
(***************************************************************************)
EXTENDS Integers, FiniteSets, Sequences

CONSTANTS BmcInsts,   \* adapter instances
          BmcCases,   \* scenarios: [kind, role (of each instance), keys,
                      \* faults]: of the six cache keys, those a poll reads;
                      \* how many expiries, failures and lost answers
          BmcCalls,   \* requests an instance can have in flight: 1..n
          BmcWidth,   \* widest gather that is modelled; wider ones are cut
          BmcSlots    \* sessions the BMC grants (about 4)

(* 0 is the lock that no request holds.                                    *)
ASSUME BmcFinite ==
  /\ IsFiniteSet(BmcInsts) /\ BmcSlots \in Nat
  /\ IsFiniteSet(BmcCalls) /\ BmcCalls # {} /\ 0 \notin BmcCalls

VARIABLES channel,    \* the scenario of this behaviour
          inst,       \* instance -> phase, place in its program, token, lock
          call,       \* instance, slot -> request
          live,       \* sessions on the BMC
          minted,     \* sessions granted so far
          faults,     \* faults so far
          harm        \* history: sessions an instance lost, by how

bmcVars == <<channel, inst, call, live, minted, faults, harm>>

BmcKinds == {"xmlapi", "hybridXml", "hybridRf", "ibmc"}
BmcRoles == {"poll", "action", "kvm", "probe"}
BmcPhases == {"idle", "run", "logout", "list", "kill",
              "closed",  \* and, with CIMC, its reaper ran
              "left",    \* without a reaper
              "kept"}    \* by a KVM launch, for its viewer
BmcPcs == {"free", "begin", "login", "asking", "sent",
           "done", "failed", "stale"}
Ended == {"done", "failed", "stale"}

XmlKind == channel.kind \in {"xmlapi", "hybridXml"}
Locked == channel.kind \in {"hybridXml", "hybridRf"}

(* What a fetch asks for: steps in order, each a gather of some width.  In *)
(* a strict gather the first failure ends the fetch and the others run on  *)
(* with nobody waiting; in a lenient one (return_exceptions) all end.      *)
Gather(w, l) == [width |-> IF w < BmcWidth THEN w ELSE BmcWidth, lenient |-> l]
One == Gather(1, FALSE)

XmlStatus == <<One>>
XmlHardware == <<Gather(3, FALSE)>>
XmlStorage == <<Gather(2, FALSE)>>
XmlNetwork == <<One, One>>
XmlPower == <<Gather(2, FALSE)>>
XmlSensors == <<Gather(3, FALSE)>>      \* after the IPMI walk found nothing
HybridHardware == <<Gather(2, TRUE)>>   \* DIMMs and PCIe
RfStatus == <<One, One>>                \* the system, then its manager
RfHardware == <<One, Gather(2, TRUE)>>  \* the collection, then the CPUs
RfPower == <<One>>
RfSensors == <<Gather(2, TRUE)>>
IbmcStatus == <<One, One>>
IbmcMembers == <<One, One>>             \* one by one behind the semaphore
IbmcHardware == <<Gather(2, TRUE)>> \o IbmcMembers
IbmcStorage == <<One>> \o IbmcMembers \o <<Gather(2, TRUE)>>
IbmcNetwork == <<One>> \o IbmcMembers
IbmcPower == <<One>>
IbmcSensors == <<One>>

Fetch(k) ==
  CASE k = "xmlapi" ->
         [status |-> XmlStatus, hardware |-> XmlHardware,
          storage |-> XmlStorage, network |-> XmlNetwork,
          power |-> XmlPower, sensors |-> XmlSensors]
    [] k = "hybridXml" ->
         [status |-> <<>>, hardware |-> HybridHardware,
          storage |-> XmlStorage, network |-> XmlNetwork,
          power |-> <<>>, sensors |-> <<>>]
    [] k = "hybridRf" ->
         [status |-> RfStatus, hardware |-> RfHardware, storage |-> <<>>,
          network |-> <<>>, power |-> RfPower, sensors |-> RfSensors]
    [] k = "ibmc" ->
         [status |-> IbmcStatus, hardware |-> IbmcHardware,
          storage |-> IbmcStorage, network |-> IbmcNetwork,
          power |-> IbmcPower, sensors |-> IbmcSensors]

(* The requests of an action: the hybrid looks the system up first.        *)
Action(k) == IF k = "hybridRf" THEN <<One, One>> ELSE <<One>>

Role(i) == channel.role[i]
HasRequests(s) == s # <<>>
Poll(case) == SelectSeq([n \in DOMAIN case.keys |->
                            Fetch(case.kind)[case.keys[n]]], HasRequests)
Program(i) == IF Role(i) = "poll" THEN Poll(channel) ELSE <<Action(channel.kind)>>

(* A poll asks for something: each of its fetches for a step at least.     *)
ASSUME BmcCasesOK ==
  \A case \in BmcCases :
    /\ case.kind \in BmcKinds /\ case.role \in [BmcInsts -> BmcRoles]
    /\ case.faults \in Nat
    /\ Poll(case) \in Seq(Seq([width : Int, lenient : BOOLEAN]) \ {<<>>}) \ {<<>>}

NoCall == [pc |-> "free", cred |-> 0, again |-> FALSE, awaited |-> FALSE]
NewCall == [NoCall EXCEPT !.pc = "begin", !.awaited = TRUE]
NewInst == [phase |-> "idle", key |-> 1, step |-> 1, token |-> 0,
            lock |-> 0, found |-> {}]

BmcInit ==
  /\ channel \in BmcCases
  /\ inst = [i \in BmcInsts |-> NewInst]
  /\ call = [i \in BmcInsts |-> [c \in BmcCalls |-> NoCall]]
  /\ live = {} /\ minted = 0 /\ faults = 0
  /\ harm = [i \in BmcInsts |-> [died |-> 0, lost |-> 0]]

Own(i) == {s \in live : s.of = i}
IsLive(id) == \E s \in live : s.id = id
Awaited(i) == {c \in BmcCalls : call[i][c].awaited}
Step(i) == Program(i)[inst[i].key][inst[i].step]

(* A call that nobody waits for leaves no trace when it ends.              *)
Becomes(i, c, r) ==
  call' = [call EXCEPT ![i][c] =
             IF r.pc \in Ended /\ ~r.awaited THEN NoCall ELSE r]
SetPc(i, c, pc) == Becomes(i, c, [call[i][c] EXCEPT !.pc = pc])
Fault == faults < channel.faults /\ faults' = faults + 1

BmcTypeOK ==
  /\ channel.kind \in BmcKinds
  /\ channel.role \in [BmcInsts -> BmcRoles]
  /\ minted \in Nat /\ faults \in 0..channel.faults
  /\ live \subseteq [id : 1..minted, of : BmcInsts, late : BOOLEAN]
  /\ \A i \in BmcInsts :
       /\ inst[i] \in [phase : BmcPhases, key : 1..Len(Program(i)), step : Nat,
                       token : 0..minted, lock : {0} \union BmcCalls,
                       found : SUBSET [id : 1..minted, of : BmcInsts,
                                       late : BOOLEAN]]
       /\ inst[i].step \in DOMAIN Program(i)[inst[i].key]
  /\ call \in [BmcInsts -> [BmcCalls ->
       [pc : BmcPcs, cred : 0..minted, again : BOOLEAN, awaited : BOOLEAN]]]
  /\ harm \in [BmcInsts -> [died : Nat, lost : Nat]]

(***************************************************************************)
(* The course of an instance.                                              *)
(***************************************************************************)
OpenInst(i) ==
  /\ inst[i].phase = "idle"
  /\ inst' = [inst EXCEPT ![i].phase = "run"]
  /\ UNCHANGED <<channel, call, live, minted, faults, harm>>

(* The next gather begins; the calls take their turns afterwards.          *)
Spawn(i) ==
  /\ inst[i].phase = "run"
  /\ Awaited(i) = {}
  /\ LET open == {c \in BmcCalls : call[i][c].pc = "free"} IN
     /\ Cardinality(open) >= Step(i).width
     /\ LET S == CHOOSE s \in SUBSET open : Cardinality(s) = Step(i).width
        IN call' = [call EXCEPT ![i] = [c \in BmcCalls |->
                       IF c \in S THEN NewCall ELSE @[c]]]
  /\ UNCHANGED <<channel, inst, live, minted, faults, harm>>

(* Expiry that survives the retry raises over Redfish; over XMLAPI it      *)
(* reads as an empty answer, except to the KVM launch.                     *)
Raised(i, c) == \/ call[i][c].pc = "failed"
                \/ call[i][c].pc = "stale" /\ (~XmlKind \/ Role(i) = "kvm")

Place(i, p) == inst' = [inst EXCEPT ![i].phase = p.phase, ![i].key = p.key,
                                    ![i].step = p.step]
Onwards(i, ended) ==
  LET at == inst[i] IN
  CASE ~ended /\ at.step < Len(Program(i)[at.key]) ->
         [phase |-> "run", key |-> at.key, step |-> at.step + 1]
    [] (ended \/ at.step = Len(Program(i)[at.key]))
         /\ at.key < Len(Program(i)) ->
         [phase |-> "run", key |-> at.key + 1, step |-> 1]
    [] OTHER ->
         [phase |-> IF Role(i) # "kvm" THEN "logout"
                    ELSE IF ended THEN "left" ELSE "kept",
          key |-> 1, step |-> 1]

EndStep(i) ==
  /\ inst[i].phase = "run" /\ Awaited(i) # {}
  /\ LET over == {c \in Awaited(i) : call[i][c].pc \in Ended}
         bad == {c \in over : Raised(i, c)}
     IN
     /\ over = Awaited(i) \/ (~Step(i).lenient /\ bad # {})
     /\ call' = [call EXCEPT ![i] = [c \in BmcCalls |->
                   IF c \in over THEN NoCall
                   ELSE [@[c] EXCEPT !.awaited = FALSE]]]
     /\ Place(i, Onwards(i, ~Step(i).lenient /\ bad # {}))
  /\ UNCHANGED <<channel, live, minted, faults, harm>>

(***************************************************************************)
(* The course of a request.                                                *)
(***************************************************************************)
(* XMLAPI actions and the KVM launch log in first; else a missing token is *)
(* fetched, except that plain Redfish first tries Basic.  The unlocked     *)
(* XMLAPI fetch has written the (missing) cookie into its body by then.    *)
Begin(i, c) ==
  /\ call[i][c].pc = "begin"
  /\ LET first == \/ Role(i) # "poll" /\ channel.kind = "xmlapi"
                  \/ inst[i].token = 0 /\ channel.kind # "ibmc"
     IN Becomes(i, c, [call[i][c] EXCEPT
                         !.pc = IF first THEN "login" ELSE "sent",
                         !.cred = inst[i].token])
  /\ UNCHANGED <<channel, inst, live, minted, faults, harm>>

Sent(i, c, id) ==
  LET baked == /\ channel.kind = "xmlapi" /\ Role(i) = "poll"
               /\ ~call[i][c].again
  IN [call[i][c] EXCEPT !.pc = IF Role(i) = "probe" THEN "done" ELSE "sent",
                        !.cred = IF baked THEN @ ELSE id]

(* A connection test only logs in.  Under the lock the token is looked at  *)
(* again before a login.                                                   *)
Reuse(i, c) ==
  /\ call[i][c].pc = "login" /\ Locked
  /\ inst[i].lock = 0 /\ inst[i].token # 0
  /\ Becomes(i, c, Sent(i, c, inst[i].token))
  /\ UNCHANGED <<channel, inst, live, minted, faults, harm>>

AskLoginAgain(i, c) ==             \* mutant: no second look under the lock
  /\ call[i][c].pc = "login"
  /\ Locked => inst[i].lock = 0
  /\ inst' = [inst EXCEPT ![i].lock = IF Locked THEN c ELSE @]
  /\ SetPc(i, c, "asking")
  /\ UNCHANGED <<channel, live, minted, faults, harm>>

AskLogin(i, c) ==
  /\ call[i][c].pc = "login"
  /\ Locked => inst[i].lock = 0 /\ inst[i].token = 0
  /\ inst' = [inst EXCEPT ![i].lock = IF Locked THEN c ELSE @]
  /\ SetPc(i, c, "asking")
  /\ UNCHANGED <<channel, live, minted, faults, harm>>

UnlockOnSuccess(i, token) ==       \* mutant: a failed login keeps the lock
  inst' = [inst EXCEPT ![i].token = token,
                       ![i].lock = IF token = inst[i].token THEN @ ELSE 0]

Unlock(i, token) == inst' = [inst EXCEPT ![i].token = token, ![i].lock = 0]

Grant(i) == /\ Cardinality(live) < BmcSlots
            /\ minted' = minted + 1
            /\ live' = live \union {[id |-> minted + 1, of |-> i,
                                     late |-> inst[i].phase # "run"]}

LoginGranted(i, c) ==
  /\ call[i][c].pc = "asking"
  /\ Grant(i)
  /\ Unlock(i, minted + 1)
  /\ Becomes(i, c, Sent(i, c, minted + 1))
  /\ UNCHANGED <<channel, faults, harm>>

LoginRefused(i, c) ==
  /\ call[i][c].pc = "asking"
  /\ Cardinality(live) >= BmcSlots
  /\ Unlock(i, inst[i].token)
  /\ SetPc(i, c, "failed")
  /\ UNCHANGED <<channel, live, minted, faults, harm>>

(* The BMC grants the session and the answer is lost.                      *)
LoginLost(i, c) ==
  /\ call[i][c].pc = "asking"
  /\ Fault
  /\ Grant(i)
  /\ Unlock(i, inst[i].token)
  /\ SetPc(i, c, "failed")
  /\ harm' = [harm EXCEPT ![i].lost = @ + 1]
  /\ UNCHANGED channel

Answered(i, c) ==
  /\ call[i][c].pc = "sent"
  /\ IsLive(call[i][c].cred)
  /\ SetPc(i, c, "done")
  /\ UNCHANGED <<channel, inst, live, minted, faults, harm>>

(* A CIMC answers a body with an empty cookie out of a session it opens.   *)
AnsweredAnyway(i, c) ==
  /\ call[i][c].pc = "sent" /\ call[i][c].cred = 0 /\ XmlKind
  /\ Grant(i)
  /\ SetPc(i, c, "done")
  /\ UNCHANGED <<channel, inst, faults, harm>>

(* 552 or 401: forget the token and log in again, once.  Plain Redfish     *)
(* does so only while the instance has no token.                           *)
NeverRetries(i, c) == FALSE        \* mutant: the login is not renewed

Retries(i, c) ==
  /\ ~call[i][c].again
  /\ Role(i) # "kvm"
  /\ channel.kind = "ibmc" => inst[i].token = 0

Unauthorized(i, c) ==
  /\ call[i][c].pc = "sent"
  /\ ~IsLive(call[i][c].cred)
  /\ LET retry == Retries(i, c)
     IN /\ Becomes(i, c, [call[i][c] EXCEPT !.again = TRUE,
                             !.pc = IF retry THEN "login" ELSE "stale"])
        /\ inst' = [inst EXCEPT ![i].token = IF retry THEN 0 ELSE @]
  /\ UNCHANGED <<channel, live, minted, faults, harm>>

RequestFails(i, c) ==
  /\ call[i][c].pc = "sent"
  /\ Fault
  /\ SetPc(i, c, "failed")
  /\ UNCHANGED <<channel, inst, live, minted, harm>>

(***************************************************************************)
(* close(): the own session is logged out; CIMC adapters then list every   *)
(* XMLAPI session over SSH and terminate those, whoever owns them.         *)
(***************************************************************************)
AfterLogout == IF XmlKind THEN "list" ELSE "closed"

Logout(i) ==
  /\ inst[i].phase = "logout"
  /\ \/ /\ live' = {s \in live : s.id # inst[i].token}
        /\ UNCHANGED <<faults, harm>>
     \/ /\ IsLive(inst[i].token) /\ Fault
        /\ harm' = [harm EXCEPT ![i].lost = @ + 1]
        /\ UNCHANGED live
  /\ inst' = [inst EXCEPT ![i].token = 0,
                 ![i].phase = AfterLogout]
  /\ UNCHANGED <<channel, call, minted>>

ReapList(i) ==
  /\ inst[i].phase = "list"
  /\ \/ /\ inst' = [inst EXCEPT ![i].phase = "kill", ![i].found = live]
        /\ UNCHANGED faults
     \/ /\ Fault                                \* no SSH: best effort
        /\ inst' = [inst EXCEPT ![i].phase = "left"]
  /\ UNCHANGED <<channel, call, live, minted, harm>>

Bereave(gone) ==
  harm' = [i \in BmcInsts |-> [harm[i] EXCEPT
             !.died = @ + Cardinality({s \in gone : s.of = i})]]

ReapKill(i) ==
  /\ inst[i].phase = "kill"
  /\ live' = live \ inst[i].found
  /\ Bereave(live \intersect inst[i].found)
  /\ inst' = [inst EXCEPT ![i].phase = "closed", ![i].found = {}]
  /\ UNCHANGED <<channel, call, minted, faults>>

Expire(s) ==
  /\ Fault
  /\ live' = live \ {s}
  /\ Bereave({s})
  /\ UNCHANGED <<channel, inst, call, minted>>

CallStep(i, c) ==
  \/ Begin(i, c) \/ Reuse(i, c) \/ AskLogin(i, c)
  \/ LoginGranted(i, c) \/ LoginRefused(i, c) \/ LoginLost(i, c)
  \/ Answered(i, c) \/ AnsweredAnyway(i, c)
  \/ Unauthorized(i, c) \/ RequestFails(i, c)
InstStep(i) ==
  \/ Spawn(i) \/ EndStep(i) \/ Logout(i) \/ ReapList(i) \/ ReapKill(i)

BmcNext == \/ \E i \in BmcInsts : OpenInst(i) \/ InstStep(i)
           \/ \E i \in BmcInsts, c \in BmcCalls : CallStep(i, c)
           \/ \E s \in live : Expire(s)

BmcSteps(i) == InstStep(i) \/ \E c \in BmcCalls : CallStep(i, c)
BmcSpec == /\ BmcInit /\ [][BmcNext]_bmcVars
           /\ \A i \in BmcInsts : WF_bmcVars(BmcSteps(i))

-----------------------------------------------------------------------------
(* Sessions of an instance that it does not know of (any more).            *)
Strays(i) == {s \in Own(i) : s.id # inst[i].token}

(* Each instance closed after its reaper: no XMLAPI session is left but    *)
(* one that a request nobody waited for opened meanwhile.                  *)
ReapedClean ==
  XmlKind /\ (\A i \in BmcInsts : inst[i].phase \in {"idle", "closed"})
    => \A s \in live : s.late

(* Each death of a session makes at most the other requests in flight     *)
(* learn late, and each of those drops one new token; so do, once the      *)
(* instance logged out, the requests that nobody waits for.                *)
Parted(i) == inst[i].phase \in {"list", "kill", "closed", "left"}
Others == Cardinality(BmcCalls) - 1
MostStrays(i) == harm[i].lost + Others * harm[i].died
                   + (IF Parted(i) THEN Cardinality(BmcCalls) ELSE 0)

(* Nothing fails, the BMC has a session for everybody, and every program   *)
(* begins with a request of its own, as the fetch of the status does.      *)
Undisturbed == /\ faults = 0 /\ Cardinality(BmcInsts) <= BmcSlots
               /\ \A i \in BmcInsts : Program(i)[1][1].width = 1

(* No session leaks.  With the login lock an instance loses sight of one   *)
(* only through a lost answer, after a death or, by requests left over     *)
(* from a failed gather, after its logout; plain Redfish, which has no     *)
(* lock, loses none when undisturbed.  When every instance is closed, the  *)
(* reaper has left none (ReapedClean).                                     *)
LosesFew == Locked => \A i \in BmcInsts : Cardinality(Strays(i)) <= MostStrays(i)
LosesNone ==
  channel.kind = "ibmc" /\ Undisturbed => \A i \in BmcInsts : Strays(i) = {}
SessionsBounded == LosesFew /\ LosesNone /\ ReapedClean

(* The one retry carries a request over the loss of a session, be it       *)
(* expired or terminated by the reaper of another instance: with the lock, *)
(* a request only goes stale after two of its instance's sessions died.    *)
StaleOnlyAfterTwoDeaths ==
  Locked => \A i \in BmcInsts, c \in BmcCalls :
              call[i][c].pc = "stale" /\ Role(i) # "kvm"
                => harm[i].died >= 2

(* No instance is in the middle of its work: polls, actions and tests have *)
(* got to the end of close().                                              *)
BmcAtRest ==
  \A i \in BmcInsts : inst[i].phase \in {"idle", "closed", "left", "kept"}
=============================================================================
