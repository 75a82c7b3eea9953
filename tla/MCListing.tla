------------------------------ MODULE MCListing ------------------------------
(***************************************************************************)
(* Model-checking instance of Listing: a user who may hold an unrestricted *)
(* viewer binding, one scoped to a team and one through a directory group, *)
(* one view group, up to three alerts on pages of one.                     *)
(***************************************************************************)
EXTENDS Listing

Equal(name, value) == [name |-> name, operator |-> "=", value |-> value]
Labels(team, severity) ==
    [n \in {"team", "severity"} |-> IF n = "team" THEN team ELSE severity]

\* Two teams, and an alert without one whose severity is present and empty.
MCLabelSets == {Labels("a", "info"), Labels("b", "critical"), [n \in {"severity"} |-> ""]}
MCFirstLabels == <<Labels("a", "info"), Labels("b", "critical")>>

Everything == [subject |-> User, role |-> "viewer", matchers |-> {}]
TeamA == [subject |-> User, role |-> "operator", matchers |-> {Equal("team", "a")}]
NotTeamA == [subject |-> "sre", role |-> "viewer",
             matchers |-> {[name |-> "team", operator |-> "!~", value |-> "^a"]}]

MCBindings == {Everything, TeamA, NotTeamA}
MCFirstBindings == {{TeamA, NotTeamA}}
MCFinds == {<<"^a", "a">>}
MCSelectors == {{Equal("team", "b")}}

MCSavedViews == {[enabled |-> FALSE, criticalBypass |-> TRUE],
                 [enabled |-> TRUE, criticalBypass |-> FALSE]}

MCQueries ==
    {[groupBy |-> None, sort |-> "lastSeen", order |-> "desc", matches |-> {}],
     [groupBy |-> None, sort |-> "severity", order |-> "asc", matches |-> {}],
     [groupBy |-> "team", sort |-> None, order |-> "desc", matches |-> {}]}

MCTextRank == [t \in {"", "a", "b", "critical", "info"} |->
    CASE t = "" -> 0 [] t = "a" -> 1 [] t = "b" -> 2 [] t = "critical" -> 3 [] t = "info" -> 4]
=============================================================================
