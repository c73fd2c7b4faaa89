------------------------------- MODULE MCEpisode -------------------------------
(***************************************************************************)
(* Small instance of SurvivalEpisode: three CPUs whose directories do not  *)
(* sort as their numbers do; no level 3 cache, a common one, and two whose *)
(* lists are a range and are none; a task of each kind.                    *)
(***************************************************************************)
EXTENDS SurvivalEpisode, TLC

CONSTANTS o, v, n, a, b

Caches(zero, nine, ten) == 0 :> zero @@ 9 :> nine @@ 10 :> ten

MCDirectories == <<0, 10, 9>>
MCLayouts ==
  {Caches(NoCache, NoCache, NoCache), Caches(a, a, a), Caches(a, b, b), Caches(a, b, a)}
MCCPUs == {0, 9, 10}
MCTask == {o, v, n}
MCOffenderTasks == {o}
MCVitalTasks == {v}

=============================================================================
