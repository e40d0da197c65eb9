---------------------------- MODULE MCMdnsDiscovery ----------------------------
(* Small instances of MdnsDiscovery.  As in Config::default, ttl (6 minutes) *)
(* is one unit of time longer than query_interval (5 minutes).               *)
EXTENDS MdnsDiscovery
===============================================================================
