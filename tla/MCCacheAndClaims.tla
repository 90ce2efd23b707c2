---------------------------- MODULE MCCacheAndClaims ---------------------------
(* Where a tool's answer comes from and what it may allow, for TLC: the    *)
(* response cache, and jev_verify with jev_gate.  They share no state: in  *)
(* a behaviour one of them runs and the other stays where it began.        *)
EXTENDS MCResponseCache, MCClaimTools

VARIABLE part

EitherInit ==
  /\ part \in {"cache", "claims"}
  /\ CacheInit /\ ClaimInit
  /\ part = "claims" => entry = [d \in Digests |-> NoFile]

EitherNext ==
  /\ UNCHANGED part
  /\ \/ part = "cache" /\ CacheNext /\ UNCHANGED claimVars
     \/ part = "claims" /\ ClaimNext /\ UNCHANGED cacheVars

EitherSpec == EitherInit /\ [][EitherNext]_<<part, cacheVars, claimVars>>
================================================================================
