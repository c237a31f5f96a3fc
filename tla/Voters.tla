------------------------------- MODULE Voters -------------------------------
(***************************************************************************)
(* The voters: the rule-based voter and the LLM voter, built when the      *)
(* application server starts from its config file, changed by VoterPolicy  *)
(* messages on the bus, or built by the commit service's voter factory     *)
(* from a config that was validated when the policy was installed.         *)
(*                                                                         *)
(* Intentions, patterns and bus ids are short sequences of letters; what a *)
(* regular expression matches is external.  The answer of an LLM is a      *)
(* sequence of tags, words and blanks.  Reasons are left out.              *)
(*                                                                         *)
(* `accepted` is, for each voter, the last legal config that was sent to   *)
(* it, and `vote` the vote just cast, with what it was made from.          *)
(***************************************************************************)
EXTENDS Integers, Sequences, SequencesExt

CONSTANTS
    Texts,           \* intentions
    BusIds,          \* buses that are voted on
    MaxBusIdLen,     \* MAX_BUS_ID_LEN
    BadRegexes,      \* patterns that are no regular expression
    RegexMatches,    \* pairs of a pattern and a text it matches
    RuleConfigs,     \* RuleBasedVoterConfig messages
    FileConfigs,     \* voters of a config file
    Prompts,         \* prompt_override of an LlmVoterConfig, <<>> if empty
    FactoryConfigs,  \* VoterConfig messages, of every kind
    Answers          \* contents of an LLM's answer

Text == Seq(STRING)

Subject(kinds) == [kind : kinds, id : Text]

ProtoRule ==
    [pattern : Text, action : STRING, match : STRING,
     subjects : Seq(Subject({"exact", "prefix", "missing"}))]

RuleConfig == [kind : {"rule_based"}, rules : Seq(ProtoRule), default : STRING]

LlmConfig == [kind : {"llm"}, prompt : Text]

VotersAssumption ==
    /\ MaxBusIdLen \in Nat \ {0}
    /\ \A t \in Texts \cup BusIds : t \in Text
    /\ \A c \in RuleConfigs : c \in RuleConfig
    /\ \A f \in FileConfigs : f \in Seq(RuleConfig \cup LlmConfig)
    /\ \A p \in Prompts : p \in Text
    /\ \A a \in Answers : a \in Seq(STRING)

VARIABLES phase, file, voters, accepted, vote, register, instance

vars == <<phase, file, voters, accepted, vote, register, instance>>

None == [kind |-> "none"]

-----------------------------------------------------------------------------
(* Rules.                                                                  *)

ValidIdChars == {"a", "b", "/"}

(* validate_bus_id_string.                                                 *)
ValidBusId(id) ==
    /\ Len(id) \in 1 .. MaxBusIdLen
    /\ \A i \in DOMAIN id : id[i] \in ValidIdChars

SubjectMatches(subject, bus) ==
    IF subject.kind = "exact" THEN bus = subject.id ELSE IsPrefix(subject.id, bus)

HasSubstring(text, pattern) ==
    \E i \in 0 .. (Len(text) - Len(pattern)) : SubSeq(text, i + 1, i + Len(pattern)) = pattern

RuleMatches(rule, bus, text) ==
    /\ rule.subjects = <<>> \/ \E i \in DOMAIN rule.subjects : SubjectMatches(rule.subjects[i], bus)
    /\ CASE rule.match = "exact" -> text = rule.pattern
         [] rule.match = "substring" -> HasSubstring(text, rule.pattern)
         [] rule.match = "regex" -> <<rule.pattern, text>> \in RegexMatches

ActionFromProto(action) == IF action = "allow" THEN "allow" ELSE "deny"

(* TryFrom<&VoterRule> for Rule, which fails on a subject without a kind.  *)
HasRule(proto) == \A i \in DOMAIN proto.subjects : proto.subjects[i].kind # "missing"

RuleFromProto(proto) ==
    [pattern |-> proto.pattern, action |-> ActionFromProto(proto.action),
     match |-> IF proto.match \in {"exact", "regex"} THEN proto.match ELSE "substring",
     subjects |-> proto.subjects]

(* CompiledRule::compile succeeds.                                         *)
Compiles(rule) ==
    /\ \A i \in DOMAIN rule.subjects : ValidBusId(rule.subjects[i].id)
    /\ rule.match = "regex" => rule.pattern \notin BadRegexes

(* Every rule converts and compiles.                                       *)
Accepts(config) ==
    \A i \in DOMAIN config.rules :
        HasRule(config.rules[i]) /\ Compiles(RuleFromProto(config.rules[i]))

RuleVoter(config) ==
    [kind |-> "rule_based", default |-> ActionFromProto(config.default),
     rules |-> [i \in DOMAIN config.rules |-> RuleFromProto(config.rules[i])]]

(* Mutant: the first rule that matches decides.                            *)
FirstMatchDecides(voter, bus, text) ==
    LET hits == {i \in DOMAIN voter.rules : RuleMatches(voter.rules[i], bus, text)}
    IN  IF hits = {} THEN voter.default = "allow"
        ELSE voter.rules[CHOOSE i \in hits : \A j \in hits : i <= j].action = "allow"

(* The deny rules are tried first, then the allow rules, then the default. *)
EvaluateRules(voter, bus, text) ==
    LET hit(action) == \E i \in DOMAIN voter.rules :
                         voter.rules[i].action = action /\ RuleMatches(voter.rules[i], bus, text)
    IN  ~ hit("deny") /\ (hit("allow") \/ voter.default = "allow")

-----------------------------------------------------------------------------
(* The LLM voter.                                                          *)

(* The empty override of a config is none.                                 *)
LlmVoter(prompt) == [kind |-> "llm", prompt |-> prompt]

Find(answer, tag, from) ==
    LET at == {i \in from .. Len(answer) : answer[i] = tag}
    IN  IF at = {} THEN 0 ELSE Min(at)

Trim(words) ==
    LET kept == {i \in DOMAIN words : words[i] # "blank"}
    IN  IF kept = {} THEN <<>> ELSE SubSeq(words, Min(kept), Max(kept))

(* Mutant: an answer that starts with the tag and says true is safe.       *)
SaysTrue(answer) ==
    LET start == Find(answer, "<safe>", 1)
    IN  start # 0 /\ Find(answer, "true", start) # 0

(* parse_safety_response.                                                  *)
ParseSafety(answer) ==
    LET start == Find(answer, "<safe>", 1)
        end == Find(answer, "</safe>", start)
    IN  start # 0 /\ end # 0 /\ Trim(SubSeq(answer, start + 1, end - 1)) = <<"true">>

(* chat_completion fails to send, is refused, cannot be parsed, or has no  *)
(* choices.                                                                *)
Failures == {"send", "status", "json", "no_choices"}

EvaluateWithLlm(outcome) == outcome.error = "ok" /\ ParseSafety(outcome.answer)

-----------------------------------------------------------------------------
(* Startup of the application server.                                      *)

Init ==
    /\ phase = "start" /\ file \in FileConfigs
    /\ voters = <<>> /\ accepted = <<>> /\ vote = None
    /\ register = None /\ instance = None

(* RuleEntry to VoterRule: match_type defaults to substring.               *)
RuleEntryToProto(entry) ==
    [entry EXCEPT !.match = IF @ = "absent" THEN "substring" ELSE @]

(* into_initial_config: default_action defaults to deny.                   *)
IntoInitialConfig(entry) ==
    IF entry.kind = "llm" THEN entry
    ELSE [kind |-> "rule_based",
          default |-> IF entry.default = "absent" THEN "deny" ELSE entry.default,
          rules |-> [i \in DOMAIN entry.rules |-> RuleEntryToProto(entry.rules[i])]]

(* build_voters panics on a rule set that is refused.                      *)
Builds(config) == config.kind = "llm" \/ Accepts(config)

BuildVoter(config) ==
    IF config.kind = "llm" THEN LlmVoter(config.prompt) ELSE RuleVoter(config)

(* The worker thread builds the voters; when it panics, the main thread    *)
(* finds the channel closed and gives up.                                  *)
Start ==
    LET configs == [i \in DOMAIN file |-> IntoInitialConfig(file[i])]
        built == \A i \in DOMAIN configs : Builds(configs[i])
    IN  /\ phase = "start"
        /\ phase' = IF built THEN "serving" ELSE "failed"
        /\ voters' = IF built THEN [i \in DOMAIN configs |-> BuildVoter(configs[i])] ELSE <<>>
        /\ accepted' = IF built THEN file ELSE <<>>
        /\ file' = <<>>
        /\ UNCHANGED <<vote, register, instance>>

-----------------------------------------------------------------------------
(* Policies and votes.  A policy reaches every voter; one for the other    *)
(* kind, or that does not decode, is ignored.                              *)

(* What makes a config legal, for `accepted`: subjects that name buses,    *)
(* and regular expressions.                                                *)
Legal(config) ==
    /\ ~ \E i \in DOMAIN config.rules : \E j \in DOMAIN config.rules[i].subjects :
           \/ config.rules[i].subjects[j].kind = "missing"
           \/ ~ValidBusId(config.rules[i].subjects[j].id)
    /\ ~ \E i \in DOMAIN config.rules :
           config.rules[i].match = "regex" /\ config.rules[i].pattern \in BadRegexes

(* RuleBasedVoter::apply_policy replaces the whole rule set, or nothing.   *)
ApplyRules(i, config) ==
    /\ phase = "serving" /\ i \in DOMAIN voters /\ voters[i].kind = "rule_based"
    /\ voters' = IF Accepts(config) THEN [voters EXCEPT ![i] = RuleVoter(config)] ELSE voters
    /\ accepted' = IF Legal(config) THEN [accepted EXCEPT ![i] = config] ELSE accepted
    /\ vote' = None
    /\ UNCHANGED <<phase, file, register, instance>>

(* Mutant: an empty override changes nothing.                              *)
OverrideIfAny(voter, prompt) == IF prompt = <<>> THEN voter ELSE LlmVoter(prompt)

Override(voter, prompt) == LlmVoter(prompt)

(* LlmVoter::apply_policy.                                                 *)
ApplyLlm(i, prompt) ==
    /\ phase = "serving" /\ i \in DOMAIN voters /\ voters[i].kind = "llm"
    /\ voters' = [voters EXCEPT ![i] = Override(voters[i], prompt)]
    /\ accepted' = [accepted EXCEPT ![i] = [kind |-> "llm", prompt |-> prompt]]
    /\ vote' = None
    /\ UNCHANGED <<phase, file, register, instance>>

(* Voter::evaluate.                                                        *)
EvaluateByRules(i, bus, text) ==
    /\ phase = "serving" /\ i \in DOMAIN voters /\ voters[i].kind = "rule_based"
    /\ vote' = [kind |-> "rule_based", basis |-> accepted[i], bus |-> bus, text |-> text,
                safe |-> EvaluateRules(voters[i], bus, text)]
    /\ UNCHANGED <<phase, file, voters, accepted, register, instance>>

EvaluateByLlm(i, outcome) ==
    /\ phase = "serving" /\ i \in DOMAIN voters /\ voters[i].kind = "llm"
    /\ vote' = [kind |-> "llm", basis |-> accepted[i], prompt |-> voters[i].prompt,
                outcome |-> outcome, safe |-> EvaluateWithLlm(outcome)]
    /\ UNCHANGED <<phase, file, voters, accepted, register, instance>>

-----------------------------------------------------------------------------
(* The commit service's factory: a policy's voter configs are validated    *)
(* when it is installed, and built when an engine meets the policy.        *)

(* Mutant: only the kind is validated.                                     *)
ValidatesKind(config) == config.kind \in {"llm", "rule_based"}

(* DelegatingVoterFactory::validate_config succeeds.                       *)
Validates(config) ==
    config.kind = "llm" \/ (config.kind = "rule_based" /\ Accepts(config))

ValidateConfig(config) ==
    /\ register = None /\ Validates(config)
    /\ register' = config
    /\ UNCHANGED <<phase, file, voters, accepted, vote, instance>>

(* DelegatingVoterFactory::create_voter.                                   *)
CreateVoter ==
    /\ register # None /\ instance = None
    /\ instance' = CASE register.kind = "llm" -> LlmVoter(register.prompt)
                     [] register.kind = "rule_based" /\ Accepts(register) -> RuleVoter(register)
                     [] OTHER -> [kind |-> "error"]
    /\ UNCHANGED <<phase, file, voters, accepted, vote, register>>

Outcomes ==
    {[error |-> "ok", answer |-> a] : a \in Answers}
        \cup {[error |-> e, answer |-> <<>>] : e \in Failures}

Next ==
    \/ Start
    \/ \E i \in DOMAIN voters, c \in RuleConfigs : ApplyRules(i, c)
    \/ \E i \in DOMAIN voters, p \in Prompts : ApplyLlm(i, p)
    \/ \E i \in DOMAIN voters, b \in BusIds, t \in Texts : EvaluateByRules(i, b, t)
    \/ \E i \in DOMAIN voters, o \in Outcomes : EvaluateByLlm(i, o)
    \/ \E c \in FactoryConfigs : ValidateConfig(c)
    \/ CreateVoter

Spec == Init /\ [][Next]_vars

-----------------------------------------------------------------------------

(* What a config says about an intention: safe if nothing denies it, and   *)
(* something allows it or the default does.                                *)
RuleHits(r, bus, text) ==
    /\ r.subjects = <<>> \/ \E i \in DOMAIN r.subjects :
         /\ Len(r.subjects[i].id) <= Len(bus)
         /\ SubSeq(bus, 1, Len(r.subjects[i].id)) = r.subjects[i].id
         /\ r.subjects[i].kind = "prefix" \/ Len(r.subjects[i].id) = Len(bus)
    /\ \/ r.match = "exact" /\ text = r.pattern
       \/ r.match = "regex" /\ <<r.pattern, text>> \in RegexMatches
       \/ r.match \notin {"exact", "regex"} /\ \E i, j \in 0 .. Len(text) :
            i <= j /\ SubSeq(text, i + 1, j) = r.pattern

ConfigAllows(config, bus, text) ==
    LET hits == {i \in DOMAIN config.rules : RuleHits(config.rules[i], bus, text)}
    IN  /\ \A i \in hits : config.rules[i].action = "allow"
        /\ hits # {} \/ config.default = "allow"

(* A rule-based vote follows the last legal config the voter was given,    *)
(* whatever was omitted or left unspecified in it, in whichever order its  *)
(* rules are, and whatever config was refused since.                       *)
VoteFollowsConfig ==
    vote.kind = "rule_based" =>
        vote.safe = ConfigAllows(vote.basis, vote.bus, vote.text)

(* The LLM voter fails closed: it votes safe only if the call succeeded    *)
(* and the first verdict of the answer is the word true, and nothing else. *)
LlmFailsClosed ==
    vote.kind = "llm" /\ vote.safe =>
        LET a == vote.outcome.answer
        IN  /\ vote.outcome.error = "ok"
            /\ \E i, j, k \in DOMAIN a :
                 /\ i < j /\ j < k
                 /\ a[i] = "<safe>" /\ a[j] = "true" /\ a[k] = "</safe>"
                 /\ \A n \in 1 .. (i - 1) : a[n] # "<safe>"
                 /\ \A n \in (i + 1) .. (k - 1) : n # j => a[n] = "blank"

(* The LLM is asked with the override of the latest policy, also when that *)
(* policy withdrew the override.                                           *)
LlmPromptIsCurrent ==
    vote.kind = "llm" => vote.prompt = vote.basis.prompt

(* A config that was accepted when the policy was installed can be built   *)
(* when the engine needs the voter.                                        *)
ValidatedConfigsBuild == instance # None => instance.kind = register.kind

=============================================================================
