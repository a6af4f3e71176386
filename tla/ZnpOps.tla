------------------------------- MODULE ZnpOps -------------------------------
(***************************************************************************)
(* The requests class ZnpApi can make of the dongle (znp/znp_api.cpp), each *)
(* as the record that drives the request/response machinery of ZnpApi.tla:  *)
(*                                                                         *)
(*   request    the command of the SREQ frame                              *)
(*   responses  the commands of the SRSP frames RawSReq accepts for it      *)
(*   confirm    the command of the AREQ frame WaitAfter waits for, once the *)
(*              SRSP said Success; None for a request that the SRSP ends     *)
(*   timed      WaitAfter was given a timeout (15 seconds in every case)    *)
(*   prefix     the address the AREQ's payload must start with, or None     *)
(*   echo       what the last answer is compared with by the continuation   *)
(*              that decodes it (a mismatch makes the call fail), or None    *)
(*                                                                         *)
(* Requests that differ only in how they are encoded are one record.        *)
(***************************************************************************)
None == "none"

\* A request that one SRSP ends: RawSReq(command, payload).then(...).
OnePhase(command) ==
  [request |-> command, responses |-> {command}, confirm |-> None,
   timed |-> FALSE, prefix |-> None, echo |-> None]

\* WaitAfter(RawSReq(...).then(CheckOnlyStatus), AREQ, areq) without a timeout.
TwoPhase(command, areq) == [OnePhase(command) EXCEPT !.confirm = areq]

\* WaitAfter(..., AREQ, areq, 15, Encode(addr)).
TwoPhaseTimed(command, areq, addr) ==
  [TwoPhase(command, areq) EXCEPT !.timed = TRUE, !.prefix = addr]

-----------------------------------------------------------------------------
SysPing              == OnePhase("SYS_PING")
SysOsalNvItemInitRaw == OnePhase("SYS_OSAL_NV_ITEM_INIT")
SysOsalNvReadRaw     == OnePhase("SYS_OSAL_NV_READ")
SysOsalNvWriteRaw    == OnePhase("SYS_OSAL_NV_WRITE")
SysOsalNvDelete      == OnePhase("SYS_OSAL_NV_DELETE")
SysOsalNvLength      == OnePhase("SYS_OSAL_NV_LENGTH")
AfRegister           == OnePhase("AF_REGISTER")
ZdoStartupFromApp    == OnePhase("ZDO_STARTUP_FROM_APP")
ZdoRemoveLinkKey     == OnePhase("ZDO_REMOVE_LINK_KEY")
ZdoGetLinkKey        == OnePhase("ZDO_GET_LINK_KEY")
ZdoExtRemoveGroup    == OnePhase("ZDO_EXT_REMOVE_GROUP")
ZdoExtFindAllGroupsEndpoint == OnePhase("ZDO_EXT_FIND_ALL_GROUPS_ENDPOINT")
ZdoExtAddGroup       == OnePhase("ZDO_EXT_ADD_GROUP")
ZdoExtCountAllGroups == OnePhase("ZDO_EXT_COUNT_ALL_GROUPS")
SapiWriteConfigurationRaw == OnePhase("SAPI_WRITE_CONFIGURATION")

\* The reply carries the looked-up address and nothing of the request.
UtilAddrmgrNwkAddrLookup == OnePhase("UTIL_ADDRMGR_NWK_ADDR_LOOKUP")
UtilAddrmgrExtAddrLookup == OnePhase("UTIL_ADDRMGR_EXT_ADDR_LOOKUP")

\* The firmware may answer with the command of ZdoExtRemoveGroup.
ZdoExtRemoveAllGroup ==
  [OnePhase("ZDO_EXT_REMOVE_ALL_GROUP") EXCEPT
     !.responses = {"ZDO_EXT_REMOVE_ALL_GROUP", "ZDO_EXT_REMOVE_GROUP"}]

\* These three compare the group, option or info id in the reply.
ZdoExtFindGroup(group) == [OnePhase("ZDO_EXT_FIND_GROUP") EXCEPT !.echo = group]
SapiReadConfigurationRaw(option) ==
  [OnePhase("SAPI_READ_CONFIGURATION") EXCEPT !.echo = option]
SapiGetDeviceInfoRaw(info) ==
  [OnePhase("SAPI_GET_DEVICE_INFO") EXCEPT !.echo = info]

-----------------------------------------------------------------------------
\* DATA_CONFIRM is compared on (DstEndpoint, TransId); every caller passes the
\* TransId 0, so the endpoint is all that is left of the comparison.
AfDataRequest(dstEndpoint) ==
  [TwoPhase("AF_DATA_REQUEST", "AF_DATA_CONFIRM") EXCEPT !.echo = dstEndpoint]

ZdoMgmtLeave      == TwoPhase("ZDO_MGMT_LEAVE_REQ", "ZDO_MGMT_LEAVE_RSP")
ZdoMgmtDirectJoin == TwoPhase("ZDO_MGMT_DIRECT_JOIN_REQ", "ZDO_MGMT_DIRECT_JOIN_RSP")
ZdoMgmtPermitJoin == TwoPhase("ZDO_MGMT_PERMIT_JOIN_REQ", "ZDO_MGMT_PERMIT_JOIN_RSP")
ZdoIEEEAddress    == TwoPhase("ZDO_IEEE_ADDR_REQ", "ZDO_IEEE_ADDR_RSP")

ZdoBind(addr)        == TwoPhaseTimed("ZDO_BIND_REQ", "ZDO_BIND_RSP", addr)
ZdoUnbind(addr)      == TwoPhaseTimed("ZDO_UNBIND_REQ", "ZDO_UNBIND_RSP", addr)
ZdoMgmtBindReq(addr) == TwoPhaseTimed("ZDO_MGMT_BIND_REQ", "ZDO_MGMT_BIND_RSP", addr)
=============================================================================
