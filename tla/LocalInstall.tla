---------------------------- MODULE LocalInstall ----------------------------
(***************************************************************************)
(* A local installation: the daemons that share a socket (LocalDaemon) and *)
(* the hook processes that report to them (Hook).                          *)
(***************************************************************************)
EXTENDS LocalDaemon

CONSTANTS Hooks, Inputs

VARIABLES hook, bus

Hook == INSTANCE Hooks

(* What a hook reports is what happened, however requests time out and     *)
(* late answers arrive: at most one entry, on the bus whose id parses back *)
(* to its identity, where success is reported; and a tool whose intention  *)
(* was rejected runs only after a reported failure or without enforcement. *)
ReportsAreTrue ==
    /\ Hook!OneEntryPerHook
    /\ Hook!IdRoundTrips
    /\ Hook!SuccessIsRecorded
    /\ Hook!RejectionHonoured

=============================================================================
