---------------------------- MODULE MCLinearSync ----------------------------
(* Two epics, two stories of which the second comes with a later version   *)
(* of the documents, two headings of one title, and a third with another   *)
(* title of the same key.                                                  *)
EXTENDS LinearSync

MCWanted ==
    [team |-> <<"TS">>, states |-> <<"Backlog">>, labels |-> <<"role:BE", "role:QA">>,
     project |-> <<"MVP">>, cycles |-> <<"Sprint 1">>]
MCDocuments ==
    {[epics |-> <<"E1">>, stories |-> <<"US-01">>, headings |-> <<"4.1">>],
     [epics |-> <<"E1", "E2">>, stories |-> <<"US-01", "US-02">>, headings |-> <<"4.1", "6.1", "7.1">>]}
MCEpicOf == [s \in {"US-01", "US-02"} |-> IF s = "US-01" THEN "E1" ELSE "E2"]
MCSectionOf == [h \in {"4.1", "6.1", "7.1"} |-> IF h = "7.1" THEN "UI, continued" ELSE "UI"]
MCKeyOf == [title \in {"UI", "UI, continued"} |-> "UI"]
MCRelatedTo == [h \in {"4.1", "6.1", "7.1"} |-> IF h = "7.1" THEN {"US-02"} ELSE {"US-01"}]
MCDependsOn == [s \in {"US-01", "US-02"} |-> IF s = "US-02" THEN {"US-01"} ELSE {}]
=============================================================================
