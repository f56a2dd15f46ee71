------------------------------- MODULE MCSite -------------------------------
(* The accounts of a site with two requests at once, and its projects with a    *)
(* visitor and two changes at once. A behaviour is about one of the two, chosen *)
(* at its start.                                                              *)
EXTENDS SiteAccounts, SiteProjects, TLC

CONSTANT Subjects

VARIABLE subject

Alike ==
    Permutations(People) \union Permutations(Clerks)
    \union Permutations(Projects) \union Permutations(Managers)

ProjectsAtRest == directory = [k \in Projects |-> Nowhere]

MCInit ==
    /\ subject \in Subjects
    /\ AccountsInit /\ ProjectsInit
    /\ subject # "projects" => ProjectsAtRest

MCNext ==
    \/ subject = "accounts" /\ AccountsNext /\ UNCHANGED <<projectVars, subject>>
    \/ subject = "projects" /\ ProjectsNext /\ UNCHANGED <<accountVars, subject>>

MCSpec == MCInit /\ [][MCNext]_<<accountVars, projectVars, subject>>

=============================================================================
