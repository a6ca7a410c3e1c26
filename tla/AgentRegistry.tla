--------------------------- MODULE AgentRegistry ---------------------------
(***************************************************************************)
(* The health of agents as the workers of a pool know it:                  *)
(* SqliteAgentRegistry, of which each worker has its own, and the map      *)
(* sharedQuotaHealth they have in common.  Profiles are constants of the   *)
(* scheduler; rolling metrics only matter to its scores.                   *)
(***************************************************************************)
CONSTANTS Workers, Agents

VARIABLES shared,  \* sharedQuotaHealth
          own      \* quota_health of each worker's entries

Healths == {"healthy", "low", "exhausted"}

RegistryTypeOK ==
  /\ shared \in [Agents -> Healths \cup {"absent"}]
  /\ own \in [Workers -> [Agents -> Healths]]

\* load(), with a new map.
RegistryInit ==
  /\ shared = [a \in Agents |-> "absent"]
  /\ own = [w \in Workers |-> [a \in Agents |-> "healthy"]]

\* RunFailedReason, as far as it concerns the provider; "other" is none of these.
FailureReasons == {"provider_rate_limited", "provider_quota_exhausted", "other"}

\* A definition named X_Y is X with the bug Y, and nothing uses it.
Seen_Own(w, a) == own[w][a]

\* syncQuotaHealth(): the shared map, once it has the agent.
Seen(w, a) == IF shared[a] = "absent" THEN own[w][a] ELSE shared[a]

\* list() brings all entries up to date.
Listed(w) == [own EXCEPT ![w] = [a \in Agents |-> Seen(w, a)]]

\* A rate limit is news whatever was known before.
Worse_LatestWins(health, reason) ==
  CASE reason = "provider_rate_limited"    -> "low"
    [] reason = "provider_quota_exhausted" -> "exhausted"
    [] OTHER                               -> health

\* applyProviderFailure(); provider_auth_failed is treated as provider_quota_exhausted.
Worse(health, reason) ==
  CASE reason = "provider_rate_limited" /\ health = "healthy" -> "low"
    [] reason = "provider_quota_exhausted"                    -> "exhausted"
    [] OTHER                                                  -> health

\* recordOutcome() of a failure.  The health changes before the event about it is
\* written, so that an event that fails changes nothing here.
RecordOutcome(w, a, reason) ==
  LET health == Worse(Seen(w, a), reason) IN
  /\ shared' = IF health = Seen(w, a) THEN shared ELSE [shared EXCEPT ![a] = health]
  /\ own' = IF reason = "other" THEN own ELSE [own EXCEPT ![w][a] = health]
=============================================================================
