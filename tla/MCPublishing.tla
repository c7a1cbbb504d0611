----------------------------- MODULE MCPublishing -----------------------------
(* Small instances of Publishing for TLC.  Before the app NPM has at most  *)
(* one host, with the domains of one of ForeignNames and a shared          *)
(* certificate for other names, perhaps a certificate that lists           *)
(* ForeignCert, and the zone at most one record, for api with target       *)
(* Other.  An NPM without a host comes with that record, and its shared    *)
(* certificate lists one of SharedNames.                                   *)
EXTENDS Publishing, TLC

CONSTANTS NumServices, ForeignHost, ForeignNames, Shared, SharedNames, Foreign, ForeignCert,
          Other, MayBeEmpty, www, api

MCServices == 1..NumServices

(* The default, and one of the targets.                                    *)
MCForms == {[type |-> None, target |-> t] : t \in {None} \cup (Targets \ {DefaultTarget})}

MCInit ==
  /\ Start
  /\ zone \in {{}} \cup {{[name |-> api, type |-> DefaultType, target |-> t]} :
                        t \in {Other} \ {None}}
  /\ \E L \in SharedNames :
       /\ certs = [c \in CertIds |-> CASE c = Shared -> L
                                       [] c = Foreign -> ForeignCert
                                       [] OTHER -> Unused]
       /\ \/ MayBeEmpty /\ (Other # None => zone # {}) /\ hosts = [g \in HostIds |-> Unused]
          \/ \E N \in ForeignNames :
               /\ L = {Wildcard}
               /\ hosts = [g \in HostIds |-> IF g = ForeignHost THEN [names |-> N, cert |-> Shared]
                                                               ELSE Unused]

MCSpec == MCInit /\ [][Next]_vars

MCFairSpec ==
  /\ MCSpec
  /\ \A s \in Services : WF_vars(Task(s))
  /\ \A h \in Clients : WF_vars(Handler(h))
=============================================================================
