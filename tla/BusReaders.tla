----------------------------- MODULE BusReaders -----------------------------
(***************************************************************************)
(* Who reads from a bus, page by page, while others append to it: the      *)
(* readers of the in-memory bus (Simple) and the bus CLI (Cli).            *)
(***************************************************************************)
CONSTANTS
    \* the in-memory bus and its readers
    Types, Readers, How, Filter, PageSize, MaxPollEntries, Timeout, EntryTtl, MaxEntries,
    MaxEntryClock,
    \* the CLI
    CliBuses, Counts, Starts, DefaultTail, CliPage, MaxCliLog

VARIABLES
    entries, clock, reader,
    cliLog, agent_bus_id, repl, step, cmd, cursor, tail, remaining, shown, refused, floor

simpleVars == <<entries, clock, reader>>
cliVars    == <<cliLog, agent_bus_id, repl, step, cmd, cursor, tail, remaining, shown,
                refused, floor>>

Simple == INSTANCE SimpleBus WITH
            Ttl <- EntryTtl, MaxLog <- MaxEntries, MaxClock <- MaxEntryClock, log <- entries

Cli == INSTANCE BusCli WITH
         Buses <- CliBuses, MaxPage <- CliPage, MaxLog <- MaxCliLog, log <- cliLog

-----------------------------------------------------------------------------
(* A reader gets exactly what it asked for: on the in-memory bus the       *)
(* matching entries below its cursor, in order and none expired, and       *)
(* "complete" only when no other is left; from the CLI the last n entries, *)
(* or those from its start, without a gap or a repetition across pages and *)
(* into follow mode.                                                       *)
ReadersGetTheirRange ==
    [][/\ Simple!NothingSkipped'
       /\ Simple!CompleteMeansAll
       /\ Simple!NoExpiredDelivery
       /\ Cli!ShownWithoutGaps'
       /\ Cli!RangeIsShown']_<<simpleVars, cliVars>>

=============================================================================
