------------------------------- MODULE MCHost -------------------------------
(***************************************************************************)
(* The gateway: Host, and the services around it that share no state with  *)
(* it or each other (Agent, RateLimit, Credentials, Danger), one of these  *)
(* five at a time.                                                         *)
(***************************************************************************)
EXTENDS Host, Agent, RateLimit, Credentials, Danger, TLC

CONSTANTS feed, guard, mirror, digest, odd, tidy,            \* Host
          hunter, scribe, helper, wn,                        \* Agent
          q1, q2, key1, key2,                                \* Credentials
          plain, risky, garbled                              \* Danger

E5 == {feed, guard, mirror, digest, odd, tidy}
MetaOf == (feed :> [plugin |-> TRUE, category |-> "input", trigger |-> "polling", dangerous |-> FALSE, needs |-> FALSE])
       @@ (guard :> [plugin |-> TRUE, category |-> "process", trigger |-> "on_input", dangerous |-> TRUE, needs |-> FALSE])
       @@ (mirror :> [plugin |-> TRUE, category |-> "output", trigger |-> "none", dangerous |-> FALSE, needs |-> TRUE])
       @@ (tidy :> [plugin |-> FALSE, category |-> "process", trigger |-> "cron", dangerous |-> FALSE, needs |-> FALSE])
       @@ (odd :> [plugin |-> FALSE, category |-> "process", trigger |-> "badcron", dangerous |-> FALSE, needs |-> FALSE])
       @@ (digest :> [plugin |-> FALSE, category |-> "output", trigger |-> "none", dangerous |-> FALSE, needs |-> FALSE])
FirstEntries == {{digest}, {feed, mirror}}
Alike == Permutations(Tasks) \cup Permutations(Requests) \cup Permutations(Callers)
Together == {{guard, digest}, {guard}, {tidy}, {feed, mirror}, {feed, mirror, odd}}
Patched == {{digest, guard}}
DefaultConfig == [safe |-> TRUE, disabled |-> {}, chores |-> Chores]

\* Agent: two plugins the LLM may call as tools or must name, and a skill.
Knack(plugin, trigger, schema, dangerous, needs, writes) ==
  [plugin |-> plugin, category |-> "process", trigger |-> trigger, schema |-> schema,
   dangerous |-> dangerous, needs |-> needs, writes |-> writes]
TheTraits == [e \in {hunter, scribe, helper} |->
  CASE e = hunter -> Knack(TRUE, "on_demand", TRUE, TRUE, TRUE, FALSE)
    [] e = scribe -> Knack(FALSE, "none", FALSE, FALSE, FALSE, TRUE)
    [] e = helper -> Knack(TRUE, "on_demand", FALSE, TRUE, FALSE, FALSE)]
TheAnswers == {<<hunter, wn>>, <<scribe>>, <<helper, scribe>>}
TheCasts == {{hunter, scribe}, {scribe, helper}}

\* Credentials: a file under a key beside a plain one, and a plain one alone.
TheStores == {[s \in {q1, q2} |-> IF s = q1 THEN key1 ELSE Plain],
              [s \in {q1, q2} |-> IF s = q1 THEN Plain ELSE Gone]}

TheImports == [f \in {plain, risky, garbled} |->
  IF f = plain THEN "none" ELSE IF f = risky THEN "risky" ELSE "unparsable"]

VARIABLE part     \* which of them

EachInit ==
  /\ part \in {"host", "agent", "rate", "credentials", "danger"}
  /\ Init /\ AgentInit /\ RateInit /\ CredentialsInit /\ DangerInit
  /\ part # "host" => disk = {digest}
  /\ part # "agent" => safe /\ there = {hunter, scribe}
  /\ part # "credentials" => primary = Plain
  /\ part # "danger" => model /\ code = [p \in Plugins1 |-> plain]

HostPart == /\ part = "host" /\ Next
            /\ UNCHANGED <<part, agentVars, rateVars, credentialVars, dangerVars>>
AgentPart == /\ part = "agent" /\ AgentNext
             /\ UNCHANGED <<part, vars, rateVars, credentialVars, dangerVars>>
RatePart == /\ part = "rate" /\ RateNext
            /\ UNCHANGED <<part, vars, agentVars, credentialVars, dangerVars>>
CredentialsPart == /\ part = "credentials" /\ CredentialsNext
                   /\ UNCHANGED <<part, vars, agentVars, rateVars, dangerVars>>
DangerPart == /\ part = "danger" /\ DangerNext
              /\ UNCHANGED <<part, vars, agentVars, rateVars, credentialVars>>

EachNext == HostPart \/ AgentPart \/ RatePart \/ CredentialsPart \/ DangerPart

EachSpec == EachInit /\ [][EachNext]_<<part, vars, agentVars, rateVars, credentialVars, dangerVars>>

\* The services the rest leans on: the limiter refuses nobody unduly and lets nobody through
\* too often, no stored credential is lost or unreadable, and a plugin is safe only if that
\* was found of its very code (LimitSound, CredentialsSound and DangerSound say it in full).
ServicesSound == LimitSound /\ CredentialsSound /\ DangerSound
=============================================================================
