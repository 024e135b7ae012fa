------------------------------- MODULE MCDaemon -------------------------------
(* Small instances of Daemon: three issues, of which one has no story and  *)
(* one depends on another's story.                                         *)
EXTENDS Daemon, TLC

CONSTANTS i1, i2, i3

MCIssues == {i1, i2, i3}
MCTwoIssues == {i1, i2}
MCStories == {"US-01", "US-02"}
MCStoryOf == (i1 :> "US-01") @@ (i2 :> "US-02") @@ (i3 :> "none")
MCTwoStoryOf == (i1 :> "US-01") @@ (i2 :> "US-02")
\* as linear_sync writes it, as the daemon reads it, and without a team
MCStateFiles == {{"team_id", "states"}, {"team_id", "states_map"}, {}}
MCShippedFile == {{"team_id", "states"}}
MCStoryDeps == [s \in MCStories |-> IF s = "US-02" THEN {"US-01"} ELSE {}]
==============================================================================
