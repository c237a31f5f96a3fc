----------------------------- MODULE CommitPath -----------------------------
(***************************************************************************)
(* What a commit passes on its way to the service: a channelled front end  *)
(* (Channels), the queue of its bus (Queue) and the wrappers that count    *)
(* and classify it (Wrapper).                                              *)
(***************************************************************************)
EXTENDS Channels

CONSTANTS
    Queued, Buses, MaxCached,   \* CommitQueue
    Wrapped, Layers             \* Observed

VARIABLES
    mutexes, waiting, queued, evicted, order,
    wrapped, counter, rows

Queue == INSTANCE CommitQueue WITH Calls <- Queued, cache <- mutexes, call <- queued

Wrapper == INSTANCE Observed WITH Calls <- Wrapped, call <- wrapped

(* An error is what it was: a row's code identifies the layer and the kind *)
(* of its error, and what a caller may retry stays recognisable through    *)
(* the categories.                                                         *)
ErrorsKeepTheirClass == Wrapper!CodesIdentifyErrors /\ Wrapper!RetryableCategoriesKept

(* Commits of a bus overlap only after its mutex was evicted in use, and   *)
(* each mutex serves first come, first served.                             *)
CommitsInTurn == Queue!OverlapOnlyAfterEviction /\ Queue!FirstComeFirstServed

(* The books of every wrapped method balance at any moment, and counters   *)
(* and rows tell the same story.                                           *)
BooksBalance == Wrapper!CallsAccountedFor /\ Wrapper!CountersMatchRows

=============================================================================
