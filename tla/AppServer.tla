------------------------------ MODULE AppServer -----------------------------
(***************************************************************************)
(* What an application server does for its bus: it plays the roles of      *)
(* BusRoles, keeps the mailbox of the bus (Mail) and lets its voters judge *)
(* intentions (Voting).                                                    *)
(***************************************************************************)
EXTENDS BusRoles

CONSTANTS
    \* the mailbox
    MaxMailBuffer, MailPollLimit, MaxMailLog, MaxMailFaults,
    \* the voters
    Texts, BusIds, MaxBusIdLen, BadRegexes, RegexMatches, RuleConfigs, FileConfigs,
    Prompts, FactoryConfigs, Answers

VARIABLES
    mailLog, next, mail, delivered, abandoned, losses,
    phase, file, voters, accepted, vote, register, instance

Mail == INSTANCE Mailbox WITH
          PollLimit <- MailPollLimit, MaxLog <- MaxMailLog, MaxFaults <- MaxMailFaults,
          log <- mailLog, faults <- losses

Voting == INSTANCE Voters

-----------------------------------------------------------------------------
(* Mail arrives once, in order and as what it was sent, and is lost only   *)
(* to a full buffer, the oldest first.                                     *)
MailArrives ==
    /\ Mail!MailOnceInOrder
    /\ Mail!OnlyOverflowLoses
    /\ Mail!RepliesStayReplies

(* A voter votes by what is in force: rules by the last legal config, the  *)
(* LLM by the latest override and for safe only on an answer whose first   *)
(* verdict is the word true; and an accepted config can be built.          *)
VotersFollowConfig ==
    /\ Voting!VoteFollowsConfig
    /\ Voting!LlmPromptIsCurrent
    /\ Voting!LlmFailsClosed
    /\ Voting!ValidatedConfigsBuild

=============================================================================
