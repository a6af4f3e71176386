------------------------------ MODULE MCZnpApi ------------------------------
(* The runs of ZnpApi: every choice of MaxCalls concurrent calls out of a    *)
(* repertoire.                                                              *)
EXTENDS ZnpApi, TLC

CONSTANTS bind, again        \* a binding and its retry: the same request

\* Data requests to two endpoints, one whose payload is too long, and bindings.
MCOp ==
  "af1" :> AfDataRequest("ep1") @@ "af2" :> AfDataRequest("ep2") @@
  "long" :> AfDataRequest("ep1") @@
  bind :> ZdoBind("addr1") @@ again :> ZdoBind("addr1")
MCCalls == DOMAIN MCOp
MCOversized == {"long"}
MCSymmetry == Permutations({bind, again})

\* For the liveness run: untimed and timed, and commands that share a reply.
LiveOp ==
  "af" :> AfDataRequest("ep1") @@ bind :> ZdoBind("addr1") @@
  "rmall" :> ZdoExtRemoveAllGroup @@ "rm" :> ZdoExtRemoveGroup
LiveCalls == DOMAIN LiveOp
=============================================================================
