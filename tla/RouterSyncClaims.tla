-------------------------- MODULE RouterSyncClaims ---------------------------
(***************************************************************************)
(* What comments and the manual say of RouterSvrd and its agents, and the  *)
(* code does not do.  Each property quotes its source; TLC finds a         *)
(* behaviour of the model that violates it.                                *)
(***************************************************************************)
EXTENDS RouterSync

\* RouterConfig.cpp:151 "可修改WEIGHT=0属性，达到删除节点效果": weight 0 deletes a
\* Svr.  Only SYNC does: INIT and RELOAD carry the Svrs of weight 0 as well, and
\* the agent stores them with SaveNode.
DeletedIsGone ==
  \A a \in Agent : Settled(a) =>
    \A s \in Listed \ (missed \cup owed[a]) : Deleted(s) => s \notin held[a]

\* chapter8/agentsvr_log.md:6 "断线重连（与RouterSvrd服务）": a lost connection is
\* made again.  CheckReconnect returns at once while mTcpTask is set, and nothing
\* resets it.
Reconnects == \A a \in Agent : (link[a] = "lost") ~> (link[a] = "up")
==============================================================================
