----------------------------- MODULE PolicyPath -----------------------------
(***************************************************************************)
(* Policies on their way to a decision: the durable register (Register)    *)
(* and the commit service that adopts their versions (InMemCommit).        *)
(***************************************************************************)
EXTENDS InMemCommit

CONSTANTS Nodes, Admins, DesiredPolicies, Supported, Malformed, MaxGeneration, MaxRetries, MaxFaults

VARIABLES register, boot, admin, faults, installed, looked, acked

Register == INSTANCE PolicyRegister WITH Policies <- DesiredPolicies

(* A generation has one policy: whoever looks it up sees the same one, an  *)
(* acknowledged set_policy took effect at the generation it returned and   *)
(* shares it with nobody, and a bootstrap that returned left a policy.     *)
OnePolicyPerGeneration == Register!OnePolicyPerGeneration

=============================================================================
