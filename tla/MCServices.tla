----------------------------- MODULE MCServices -----------------------------
(* The HTTP client, the map listing, the migration runner and the replay corpus, each   *)
(* explored on its own from its own initial state: part says which one runs.            *)
EXTENDS HttpClient, TmxListing, Migrations, ReplayCorpus

CONSTANTS Parts, p1, p2, a
VARIABLE part

MCBackoff == <<2, 4>>
MCFiles == << <<"guarded">>, <<"guarded", "guarded">>, <<"strict">>, <<"guarded", "strict">> >>
MCBytes == [r \in Replays |-> a]

vars == <<httpVars, listingVars, migrationVars, replayVars, part>>

Init == HttpInit /\ ListingInit /\ MigrationsInit /\ ReplayInit /\ part \in Parts

Next ==
    /\ part' = part
    /\ \/ part = "http" /\ HttpNext /\ UNCHANGED <<listingVars, migrationVars, replayVars>>
       \/ part = "listing" /\ ListingNext /\ UNCHANGED <<httpVars, migrationVars, replayVars>>
       \/ part = "migrations" /\ MigrationsNext /\ UNCHANGED <<httpVars, listingVars, replayVars>>
       \/ part = "replays" /\ ReplayNext /\ UNCHANGED <<httpVars, listingVars, migrationVars>>

Fairness ==
    /\ WF_httpVars(part = "http" /\ HttpStep)
    /\ WF_listingVars(part = "listing" /\ ListingStep)
    /\ \A r \in Runners : WF_migrationVars(part = "migrations" /\ RunnerStep(r))

Spec == Init /\ [][Next]_vars /\ Fairness
-----------------------------------------------------------------------------
\* What is begun comes to an end: every get returns, every listing stops, and a repeatable
\* migration that a crash interrupted is recorded by a later run.
WorkEnds == GetReturns /\ ListingEnds /\ GuardedFinish
=============================================================================
