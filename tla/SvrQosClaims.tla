---------------------------- MODULE SvrQosClaims -----------------------------
(***************************************************************************)
(* What the manual and the comments say of the QoS engine and the code     *)
(* does not do.  Each property below quotes its source; TLC finds a        *)
(* behaviour of the model that violates it.                                *)
(***************************************************************************)
EXTENDS MCSvrQos

\* chapter5/agent_config.md:54 "CFG：REBUILD为周期（时间片）大小（秒）".
\* RebuildRoute inserts the kind of its caller after an outage, and with it
\* the initialiser of mRebuildTm: the configured period is lost for that kind.
PeriodIsConfigured ==
  \A k \in DOMAIN mRouteTable : mRouteTable[k].period = RebuildTm
==============================================================================
