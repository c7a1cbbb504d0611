-------------------------- MODULE MCShutdownRules --------------------------
(* Small instances of ShutdownRules for TLC.                               *)
EXTENDS ShutdownRules

CONSTANTS guest, host

(* A guest is shut down first and gets a pause; its host follows when the  *)
(* battery is low.                                                         *)
GuestConfig == [enabled |-> TRUE, priority |-> 1, delay |-> TRUE, target |-> guest,
                charge |-> None, runtime |-> None]
GuestLate   == [GuestConfig EXCEPT !.charge = 0, !.runtime = 0]
HostConfig  == [enabled |-> TRUE, priority |-> 2, delay |-> FALSE, target |-> host,
                charge |-> None, runtime |-> None]
HostLow     == [HostConfig EXCEPT !.charge = 0]
HostOff     == [HostConfig EXCEPT !.enabled = FALSE]

OverlapConfigs == {GuestConfig, HostConfig}
ScheduledConfigs == {GuestConfig, GuestLate, HostConfig, HostLow, HostOff}
=============================================================================
