---------------------------- MODULE MCCacheSync ----------------------------
(* One client, which may call again at any time, a group and a newsletter. *)
EXTENDS CacheSync
=============================================================================
