------------------------------ MODULE MCDnsZone ------------------------------
(* Small instances of DnsZone for TLC; the .cfg files give them.           *)
EXTENDS DnsZone
=============================================================================
