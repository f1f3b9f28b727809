----------------------------- MODULE Commands -------------------------------
(***************************************************************************)
(* The messages of the two programs and of the client API (SvrCmd.h,       *)
(* LoginCmd.h, wChannelCmd.h), who sends them and who has a handler for    *)
(* them (wDispatch.inl and Initialize of each task), and the logins that   *)
(* the tasks would exchange if they were switched on.                      *)
(***************************************************************************)
EXTENDS Integers, SequencesExt

CONSTANTS MAX_SVR_HOST, MAX_SVR_NUM, PackageLen

Byte == 0 .. 255

(* Two bytes, of which the first is the low one in the union with mId.     *)
W_CMD(cmd, para) == para * 256 + cmd

CMD_CHANNEL_REQ == 10
CMD_LOGIN_REQ == 50
CMD_LOGIN_RES == 51
CMD_SVR_REQ == 60
CMD_SVR_RES == 61

Request ==
    [SvrReqInit   |-> W_CMD(CMD_SVR_REQ, 0), SvrReqReload |-> W_CMD(CMD_SVR_REQ, 1),
     SvrReqSync   |-> W_CMD(CMD_SVR_REQ, 2), SvrReqAll    |-> W_CMD(CMD_SVR_REQ, 3),
     SvrReqGXid   |-> W_CMD(CMD_SVR_REQ, 4), SvrReqReport |-> W_CMD(CMD_SVR_REQ, 5)]

Response ==
    [SvrResInit |-> W_CMD(CMD_SVR_RES, 0), SvrResReload |-> W_CMD(CMD_SVR_RES, 1),
     SvrResSync |-> W_CMD(CMD_SVR_RES, 2), SvrResData   |-> W_CMD(CMD_SVR_RES, 3),
     SvrOneRes  |-> W_CMD(CMD_SVR_RES, 4), SvrResReport |-> W_CMD(CMD_SVR_RES, 5)]

Login ==
    [LoginReqToken  |-> W_CMD(CMD_LOGIN_REQ, 0), LoginResStatus |-> W_CMD(CMD_LOGIN_RES, 0)]

Channel ==
    [ChannelReqOpen |-> W_CMD(CMD_CHANNEL_REQ, 1), ChannelReqClose |-> W_CMD(CMD_CHANNEL_REQ, 2),
     ChannelReqQuit |-> W_CMD(CMD_CHANNEL_REQ, 3), ChannelReqTerminate |-> W_CMD(CMD_CHANNEL_REQ, 4),
     ChannelReqReopen |-> W_CMD(CMD_CHANNEL_REQ, 5)]

Id == Request @@ Response @@ Login @@ Channel

(* The structures are packed.                                              *)
SvrNetLen == 4 + 4 + 4 + 2 + 4 + MAX_SVR_HOST + 4 + 4
SvrCallerLen == 4 * 4 + MAX_SVR_HOST + 2 + 4 + 4 + 8 + 4
SvrsLen == 2 + 2 + 4 + MAX_SVR_NUM * SvrNetLen
LongestLen == SvrsLen + 2               \* SvrResData_t has mReqId as well

(* The API is built from headers of its own.                               *)
ApiRequest == [SvrReqGXid |-> W_CMD(60, 4), SvrReqReport |-> W_CMD(60, 5)]
ApiResponse == [SvrOneRes |-> W_CMD(61, 4), SvrResReport |-> W_CMD(61, 5)]
ApiSvrNetLen == 3 * 4 + 2 + 4 + MAX_SVR_HOST + 2 * 4
ApiCallerLen == 4 * 4 + MAX_SVR_HOST + 2 + 2 * 4 + 8 + 4

-----------------------------------------------------------------------------
(* wDispatch: a sequence of handlers for each class, of which one with the *)
(* same id is replaced (the loop steps in front of the first when it is    *)
(* that one; no class registers an id twice).                              *)
Register(proc, id) == Append(SelectSeq(proc, LAMBDA other : other # id), id)
GetFuncT(proc, id) == id \in Range(proc)

(* Initialize() of each task.                                              *)
RouterServerTask == <<Id["SvrReqInit"], Id["SvrReqReload"]>>
AgentClientTask == <<Id["SvrResInit"], Id["SvrResReload"], Id["SvrResSync"]>>
AgentServerTask == <<Id["SvrReqReload"], Id["SvrReqAll"], Id["SvrReqGXid"], Id["SvrReqReport"]>>
AgentUnixTask == <<Id["SvrReqGXid"], Id["SvrReqReport"]>>
wChannelTask ==
    <<Id["ChannelReqOpen"], Id["ChannelReqClose"], Id["ChannelReqQuit"], Id["ChannelReqTerminate"]>>

(* ParseRecvMessage: the handler is called, or the message is dropped and  *)
(* the connection stays.                                                   *)
mDispatch(registered) == FoldLeft(Register, << >>, registered)
Handles(registered, id) == GetFuncT(mDispatch(registered), id)

(* What is sent to each task.  The API sends its two messages to an        *)
(* AgentServerTask; nothing sends SvrReqSync, SvrReqAll or ChannelReqReopen. *)
SentToRouter == {"SvrReqInit", "SvrReqReload"}
SentByRouter == {"SvrResInit", "SvrResReload", "SvrResSync"}
SentByApi == {"SvrReqGXid", "SvrReqReport"}
SentByMaster == {"ChannelReqOpen", "ChannelReqClose", "ChannelReqQuit", "ChannelReqTerminate"}

-----------------------------------------------------------------------------
(* Verify() sends a token and VerifyConn() waits for one, each only if the *)
(* flag it tests is set.  Who connects sends first, who accepts waits      *)
(* first.                                                                  *)
End == {"RouterServerTask", "AgentClientTask", "AgentServerTask", "api"}
Flags == [ROUTER_LOGIN : BOOLEAN, AGENT_LOGIN : BOOLEAN, CLIENT_LOGIN : BOOLEAN]
Compiled == [ROUTER_LOGIN |-> FALSE, AGENT_LOGIN |-> FALSE, CLIENT_LOGIN |-> FALSE]

Verify(e, f) ==
    \/ e = "RouterServerTask" /\ f.AGENT_LOGIN
    \/ e = "AgentClientTask" /\ f.ROUTER_LOGIN
    \/ e = "AgentServerTask" /\ f.CLIENT_LOGIN
VerifyConn(e, f) ==
    \/ e = "RouterServerTask" /\ f.ROUTER_LOGIN
    \/ e \in {"AgentClientTask", "AgentServerTask"} /\ f.AGENT_LOGIN

(* Neither end waits for a token the other does not send, or takes one for *)
(* a message.                                                              *)
Agree(a, b, f) == (Verify(a, f) <=> VerifyConn(b, f)) /\ (Verify(b, f) <=> VerifyConn(a, f))

-----------------------------------------------------------------------------
(* Every message has an id of its own, the same for who sends it and who   *)
(* gets it, its handler where it is sent to, and room in a buffer; the     *)
(* empty message is none of them.                                          *)
Understood ==
    /\ \A m, n \in DOMAIN Id : m # n => Id[m] # Id[n]
    /\ \A m \in DOMAIN Id : Id[m] # W_CMD(0, 0)
    /\ \A m \in SentToRouter : Handles(RouterServerTask, Id[m])
    /\ \A m \in SentByRouter : Handles(AgentClientTask, Id[m])
    /\ \A m \in SentByApi : Handles(AgentServerTask, Id[m]) /\ Handles(AgentUnixTask, Id[m])
    /\ \A m \in SentByMaster : Handles(wChannelTask, Id[m])
    /\ \A m \in DOMAIN ApiRequest : ApiRequest[m] = Id[m] /\ ApiCallerLen = SvrCallerLen
    /\ \A m \in DOMAIN ApiResponse : ApiResponse[m] = Id[m] /\ ApiSvrNetLen = SvrNetLen
    /\ LongestLen <= PackageLen /\ SvrCallerLen <= PackageLen

(* The logins of router and agent fit each other, whatever is switched on; *)
(* the API has none, and could not connect to an agent that has.           *)
LoginsFit ==
    /\ \A f \in Flags : Agree("AgentClientTask", "RouterServerTask", f)
    /\ \A f \in Flags : Agree("api", "AgentServerTask", f) <=> ~f.AGENT_LOGIN /\ ~f.CLIENT_LOGIN
    /\ Agree("api", "AgentServerTask", Compiled)
=============================================================================
