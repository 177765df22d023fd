----------------------------- MODULE Admission ------------------------------
(***************************************************************************)
(* The admission webhooks (internal/webhook/v1beta1): which specs the API  *)
(* server accepts, and which changes of them.  The defaulters change       *)
(* nothing; no deletion and no new template is refused.  The status is a   *)
(* subresource that the webhooks are not registered for.                   *)
(***************************************************************************)
CONSTANT Webhooks  \* ENABLE_WEBHOOKS is not "false"

ASSUME WebhooksAssumption == Webhooks \in BOOLEAN

(* Of a WXOneCluster's spec: the name of the project, the number of        *)
(* subnets, the control plane endpoint.  Of a WXOneMachine's: the name of  *)
(* the image, the provider id.  Those of the templates are the same.       *)

(* mutant: any project will do *)
CreateClusterUnchecked(new) == TRUE

ValidateCreateCluster(new) == Webhooks => new.project = "default"

(* mutant: any change will do *)
UpdateUnchecked(old, new) == TRUE

(* mutant: the endpoint is frozen, too *)
UpdateFrozen(old, new) == Webhooks => new = old

ValidateUpdateCluster(old, new) ==
    Webhooks => [new EXCEPT !.endpoint = old.endpoint] = old

ValidateCreateMachine(new) == TRUE

ValidateUpdateMachine(old, new) ==
    Webhooks => [new EXCEPT !.providerID = old.providerID] = old

ValidateUpdateClusterTemplate(old, new) ==
    Webhooks => [new EXCEPT !.endpoint = old.endpoint] = old

ValidateUpdateMachineTemplate(old, new) ==
    Webhooks => [new EXCEPT !.providerID = old.providerID] = old
=============================================================================
