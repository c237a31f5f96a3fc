----------------------------- MODULE MCService ------------------------------
(***************************************************************************)
(* What stands between a caller and the service it calls: the channelled   *)
(* front ends ("relay", "commit", "space", "app"), the per-bus queue       *)
(* ("queue"), the metrics wrappers ("observed"), and the loops that a      *)
(* caller of the in-memory service or of the policy bootstrap waits for    *)
(* ("inmem", "register").  A behaviour is about one of them; the others    *)
(* stay as they began.                                                     *)
(***************************************************************************)
EXTENDS CommitPath

CONSTANTS Nodes, Admins, plain, None

VARIABLES
    part,
    memLog, base, provider, cache, rs, commit, running,
    register, boot, admin, conflicts, installed, looked, acked

queueVars    == <<mutexes, waiting, queued, evicted, order>>
observedVars == <<wrapped, counter, rows>>
inMemVars    == <<memLog, base, provider, cache, rs, commit, running>>
registerVars == <<register, boot, admin, conflicts, installed, looked, acked>>

Service == INSTANCE Channels WITH Frontend <- "commit", Remote <- TRUE, MaxFaults <- 1
Space == INSTANCE Channels WITH Frontend <- "space", Remote <- FALSE, MaxFaults <- 1
App   == INSTANCE Channels WITH Frontend <- "app", Remote <- FALSE, MaxFaults <- 1

InMem == INSTANCE InMemCommit WITH
           Calls <- Nodes, Policies <- {"on", "first"}, Early <- FALSE, Batches <- FALSE,
           Expiring <- TRUE, MaxVersion <- 1, MaxLog <- 3, log <- memLog, call <- commit

Register == INSTANCE PolicyRegister WITH
              Policies <- {plain}, Malformed <- {}, Supported <- [n \in Nodes |-> {plain}],
              MaxGeneration <- 1, MaxRetries <- 1, MaxFaults <- 1, faults <- conflicts

ASSUME ServiceConstants ==
    /\ ChannelsAssumption /\ Service!ChannelsAssumption
    /\ Space!ChannelsAssumption /\ App!ChannelsAssumption
    /\ Queue!QueueAssumption /\ Wrapper!ObservedAssumption
    /\ InMem!InMemAssumption /\ Register!RegisterAssumption

AllVars == <<part, vars, queueVars, observedVars, inMemVars, registerVars>>

Parts == {"relay", "commit", "space", "app", "queue", "observed", "inmem", "register"}

InitService ==
    /\ part \in Parts
    /\ IF part = "space" THEN Space!Init ELSE Init
    /\ Queue!Init /\ Wrapper!Init /\ InMem!Init /\ Register!Init
    /\ part # "inmem" => provider.pol = "on"

ChannelStays  == UNCHANGED <<part, queueVars, observedVars, inMemVars, registerVars>>
QueueStays    == UNCHANGED <<part, vars, observedVars, inMemVars, registerVars>>
ObservedStays == UNCHANGED <<part, vars, queueVars, inMemVars, registerVars>>
InMemStays    == UNCHANGED <<part, vars, queueVars, observedVars, registerVars>>
RegisterStays == UNCHANGED <<part, vars, queueVars, observedVars, inMemVars>>

NextService ==
    \/ part = "relay" /\ Next /\ ChannelStays
    \/ part = "commit" /\ Service!Next /\ ChannelStays
    \/ part = "space" /\ Space!Next /\ ChannelStays
    \/ part = "app" /\ App!Next /\ ChannelStays
    \/ part = "queue" /\ Queue!Next /\ QueueStays
    \/ part = "observed" /\ Wrapper!Next /\ ObservedStays
    \/ part = "inmem" /\ InMem!Next /\ InMemStays
    \/ part = "register" /\ Register!Next /\ RegisterStays

DispatchNext ==
    /\ \/ part = "relay" /\ Dispatch
       \/ part = "commit" /\ Service!Dispatch
       \/ part = "space" /\ Space!Dispatch
       \/ part = "app" /\ App!Dispatch
    /\ ChannelStays

RunCall(c) ==
    /\ \/ part = "relay" /\ Run(c)
       \/ part = "commit" /\ Service!Run(c)
       \/ part = "space" /\ Space!Run(c)
       \/ part = "app" /\ App!Run(c)
    /\ ChannelStays

(* The fairness of every part (see the modules).                           *)
SpecService ==
    /\ InitService /\ [][NextService]_AllVars
    /\ WF_AllVars(DispatchNext)
    /\ \A c \in Calls : WF_AllVars(RunCall(c))
    /\ \A c \in Queued :
         /\ WF_AllVars(part = "queue" /\ Queue!Start(c) /\ QueueStays)
         /\ WF_AllVars(part = "queue" /\ Queue!Finish(c) /\ QueueStays)
    /\ \A n \in Nodes :
         /\ WF_AllVars(part = "inmem" /\ InMem!Resume(n) /\ InMemStays)
         /\ WF_AllVars(part = "inmem" /\ InMem!Replay(n) /\ InMemStays)
         /\ WF_AllVars(part = "register" /\ Register!BootAttempt(n) /\ RegisterStays)

-----------------------------------------------------------------------------
(* Every front end is honest with its callers (see AnsweredForOneEffect):  *)
(* effects at most once, answers about that effect, errors by their class  *)
(* or, behind the application server, as internal errors.                  *)
CallersToldTheTruth ==
    CASE part = "commit" -> Service!AnsweredForOneEffect
      [] part = "space"  -> Space!AnsweredForOneEffect
      [] part = "app"    -> App!AnsweredForOneEffect
      [] OTHER           -> AnsweredForOneEffect

(* Nobody waits for ever: a call through any front end, a commit in the    *)
(* queue although others are dropped, a commit of the in-memory service,   *)
(* and a bootstrap.                                                        *)
CallersGetAnswers ==
    /\ EveryCallReturns
    /\ Queue!EveryoneServed
    /\ InMem!CommitsReturn
    /\ Register!BootstrapReturns

=============================================================================
