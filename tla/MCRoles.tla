------------------------------ MODULE MCRoles -------------------------------
(***************************************************************************)
(* The roles of an application server: deciders ("decide"), a gate with a  *)
(* voter loop and a decider ("gate"), the mailbox ("mail"), and what the   *)
(* voters say ("rules", "llm", "factory").  A behaviour is about one of    *)
(* them; the others stay as they began.                                    *)
(***************************************************************************)
EXTENDS AppServer, TLC

CONSTANTS d1, d2

VARIABLE part

rolesVars == vars
mailVars  == <<mailLog, next, mail, delivered, abandoned, losses>>
voterVars == <<phase, file, voters, accepted, vote, register, instance>>

-----------------------------------------------------------------------------
(* Bus roles.  Each part is the server with some of its roles.             *)

AwaitVotes      == [type |-> "decider_policy", policy |-> "first"]
Strict          == [type |-> "voter_policy", config |-> "strict"]
AnyVote(p, value) == Vote(p, value, "client", "none")

RacingVotes == {AnyVote(1, "true"), AnyVote(1, "false"), AnyVote(1, "other")}
AnyClient   == {AwaitVotes, Strict, StringIntention, GroupIntention} \cup RacingVotes

(* Two deciders against votes that race, contradict and come early.        *)
Decide == INSTANCE BusRoles WITH
            Voters <- {}, Gates <- {}, Stoppable <- {"decider"},
            Clients <- {AwaitVotes, StringIntention} \cup RacingVotes

(* A gate, a voter and one decider; the other decider has not begun.       *)
Gated  == INSTANCE BusRoles WITH
            Deciders <- {d1}, Stoppable <- {"gate", "voter"},
            Clients <- {AwaitVotes, Strict, GroupIntention}, DeciderPage <- 1, MaxLog <- 6

-----------------------------------------------------------------------------
(* Voters.                                                                 *)

ShortTexts == {<<"a">>, <<"b">>, <<"a", "b">>}
ShortIds == {<<"a">>, <<"a", "/">>, <<"b">>}
Bad == <<"(">>
BadPatterns == {Bad}
Matches == {<<<<"b">>, <<"b">>>>, <<<<"b">>, <<"a", "b">>>>}

R(pattern, action, match, subjects) ==
    [pattern |-> pattern, action |-> action, match |-> match, subjects |-> subjects]
On(kind, id) == [kind |-> kind, id |-> id]

(* Rules of every action and match type, on every kind of subject; the     *)
(* last three are refused.                                                 *)
ProtoRules ==
    { R(<<"a">>, "allow", "exact", <<>>),
      R(<<"a">>, "allow", "unspecified", <<On("prefix", <<"a">>)>>),
      R(<<"b">>, "deny", "regex", <<On("exact", <<"a">>)>>),
      R(<<"b">>, "unspecified", "substring", <<On("exact", <<"b">>), On("prefix", <<"a", "/">>)>>),
      R(<<"a">>, "deny", "regex", <<On("missing", <<"a">>)>>),
      R(<<"a">>, "deny", "exact", <<On("exact", <<"a", "b", "a">>)>>),
      R(Bad, "allow", "regex", <<>>) }

FileRules ==
    { R(<<"a">>, "allow", "absent", <<>>), R(<<"a", "b">>, "deny", "exact", <<>>),
      R(Bad, "deny", "regex", <<>>) }

Lists(S) == {<<>>} \cup {<<a>> : a \in S} \cup {<<a, b>> : a, b \in S}

MessageConfigs ==
    [kind : {"rule_based"}, rules : Lists(ProtoRules), default : {"allow", "deny", "unspecified"}]
FileRuleConfigs ==
    [kind : {"rule_based"}, rules : Lists(FileRules), default : {"allow", "deny", "absent"}]
DenyAll == [kind |-> "rule_based", rules |-> <<>>, default |-> "deny"]

Overrides == {<<>>, <<"strict">>, <<"lax">>}
LlmConfigs == [kind : {"llm"}, prompt : Overrides]
AnyConfig ==
    {[kind |-> "custom"], [kind |-> "missing"]} \cup LlmConfigs \cup MessageConfigs

Tokens == {"<safe>", "</safe>", "true", "false", "blank"}
AnyAnswer == UNION {[1 .. n -> Tokens] : n \in 0 .. 3} \cup [1 .. 4 -> Tokens \ {"blank"}]

FileOfRules == {<<c>> : c \in FileRuleConfigs}

Rules == INSTANCE Voters WITH Prompts <- {}, FactoryConfigs <- {}, Answers <- {}

Llm == INSTANCE Voters WITH
         RuleConfigs <- {DenyAll}, FactoryConfigs <- {},
         FileConfigs <- {<<c>> : c \in LlmConfigs} \cup {<<c, DenyAll>> : c \in LlmConfigs}

Factory == INSTANCE Voters WITH
             RuleConfigs <- {DenyAll}, Answers <- {}, FileConfigs <- {<<>>}

-----------------------------------------------------------------------------
ASSUME RoleConstants ==
    /\ RolesAssumption /\ Decide!RolesAssumption /\ Gated!RolesAssumption
    /\ Mail!MailboxAssumption
    /\ Voting!VotersAssumption
    /\ Rules!VotersAssumption /\ Llm!VotersAssumption /\ Factory!VotersAssumption

AllVars == <<part, rolesVars, mailVars, voterVars>>

InitRoles ==
    /\ part \in {"decide", "gate", "mail", "rules", "llm", "factory"}
    /\ Init
    /\ Mail!Init
    /\ \/ part = "rules" /\ Rules!Init
       \/ part = "llm" /\ Llm!Init
       \/ part \notin {"rules", "llm"} /\ Factory!Init

RolesStay  == UNCHANGED <<part, mailVars, voterVars>>
MailStays  == UNCHANGED <<part, rolesVars, voterVars>>
VotersStay == UNCHANGED <<part, rolesVars, mailVars>>

NextRoles ==
    \/ part = "decide" /\ Decide!Next /\ RolesStay
    \/ part = "gate" /\ Gated!Next /\ RolesStay
    \/ part = "mail" /\ Mail!Next /\ MailStays
    \/ part = "rules" /\ Rules!Next /\ VotersStay
    \/ part = "llm" /\ Llm!Next /\ VotersStay
    \/ part = "factory" /\ Factory!Next /\ VotersStay

SpecRoles == InitRoles /\ [][NextRoles]_AllVars

Symmetry == Permutations({d1, d2})

=============================================================================
