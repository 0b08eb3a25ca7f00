---------------------------- MODULE MCMetaDelivery ----------------------------
(* One reply of which the provider reports a delivery and a failure, in    *)
(* requests of their own or in one.                                       *)
EXTENDS MetaDelivery, TLC

CONSTANTS delivered, failed

MCKind == delivered :> "delivered" @@ failed :> "failed"
MCProviderTime == delivered :> 1 @@ failed :> 2
MCWebhooks == {{delivered}, {failed}, {delivered, failed}}
=============================================================================
