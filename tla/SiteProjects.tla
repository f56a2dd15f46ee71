---------------------------- MODULE SiteProjects ----------------------------
(* The projects of a site as the server opens them: the directories, the list  *)
(* of archived keys in ridal-site.toml and in memory (src/src/site/mod.rs),    *)
(* and the runtimes the server keeps (src/src/server/site.rs). A runtime is    *)
(* built once, from the name and the archived flag read while it is built, and *)
(* answers every request for its project until it is evicted. Deleting a       *)
(* project takes its grants from the API tokens before its directory.          *)
EXTENDS Integers, FiniteSets

CONSTANTS
    Projects,       \* project keys
    Visitors,       \* requests for a project that may be in progress at once
    Managers,       \* requests to change projects that may be in progress at once
    Nowhere,        \* no project, no runtime
    MaxChanges,     \* bound: changes begun
    MaxRestarts     \* bound: restarts of the server

Directories == [born : 0..MaxChanges, title : 0..MaxChanges]
Runtimes == [of : Directories, archived : BOOLEAN, overtaken : BOOLEAN]

ASSUME ProjectsAssumption ==
    /\ Nowhere \notin Projects \union Directories \union Runtimes
    /\ {MaxChanges, MaxRestarts} \subseteq Nat

VARIABLES
    directory,      \* each project there is: which one, and the name in its ridal.toml
    marker,         \* the archived keys in ridal-site.toml
    config,         \* the archived keys the server holds
    cache,          \* the runtime kept for each key
    grants,         \* the keys the API tokens have grants for
    visit,          \* what each visitor is doing
    change,         \* what each manager is doing
    changes,        \* changes begun so far
    restarts,
    raced,          \* history: visitors whose project changed while they opened it
    crossed,        \* history: keys granted while they were being deleted
    promised        \* history: keys an answer says are archived

projectVars == <<directory, marker, config, cache, grants, visit, change, changes,
                 restarts, raced, crossed, promised>>

None == [at |-> "idle", key |-> Nowhere]

ProjectsTypeOK ==
    /\ directory \in [Projects -> Directories \union {Nowhere}]
    /\ marker \subseteq Projects
    /\ config \subseteq Projects
    /\ cache \in [Projects -> Runtimes \union {Nowhere}]
    /\ grants \subseteq Projects
    /\ \A v \in Visitors : visit[v].key \in Projects \union {Nowhere}
    /\ \A m \in Managers : change[m].key \in Projects \union {Nowhere}
    /\ changes \in 0..MaxChanges
    /\ restarts \in 0..MaxRestarts
    /\ raced \subseteq Visitors
    /\ crossed \subseteq Projects
    /\ promised \subseteq Projects

ProjectsInit ==
    /\ directory \in [Projects -> {[born |-> 0, title |-> 0], Nowhere}]
    /\ marker = {}
    /\ config = {}
    /\ cache = [k \in Projects |-> Nowhere]
    /\ grants = {}
    /\ visit = [v \in Visitors |-> None]
    /\ change = [m \in Managers |-> None]
    /\ changes = 0
    /\ restarts = 0
    /\ raced = {}
    /\ crossed = {}
    /\ promised = {}

----------------------------------------------------------------------------
There(k) == directory[k] # Nowhere
IsArchived(k) == k \in config
Evicted(k) == [cache EXCEPT ![k] = Nowhere]

(* The runtimes kept for these keys are overtaken: their project changes under  *)
(* them, and no eviction follows.                                             *)
Overtaken(keys) ==
    [k \in Projects |-> IF k \in keys /\ cache[k] # Nowhere
                        THEN [cache[k] EXCEPT !.overtaken = TRUE] ELSE cache[k]]

At(m, op, at) == change[m] # None /\ change[m].op = op /\ change[m].at = at
Deletes(m, k) == change[m].key = k /\ change[m].op = "delete"
ChangeGoes(m, at) == change' = [change EXCEPT ![m].at = at]
ChangeEnds(m) == change' = [change EXCEPT ![m] = None]

(* Visitors that have begun to open a project see it change under them.        *)
Opening(k) == {v \in Visitors : visit[v].key = k /\ visit[v].at \in {"opened", "built"}}

(* A visitor's project is the one kept, or is opened: its directory and name,   *)
(* then the archived flag, then the place in the cache, which a runtime that  *)
(* was put there meanwhile keeps.                                             *)
Open(v, k) ==
    /\ visit[v] = None
    /\ cache[k] = Nowhere
    /\ There(k)
    /\ visit' = [visit EXCEPT ![v] = [at |-> "opened", key |-> k, of |-> directory[k]]]
    /\ UNCHANGED <<directory, marker, config, cache, grants, change, changes, restarts,
                   raced, crossed, promised>>

Build(v) ==
    /\ visit[v].at = "opened"
    /\ visit' = [visit EXCEPT ![v] =
                    [at |-> "built", key |-> @.key, of |-> @.of,
                     archived |-> IsArchived(@.key)]]
    /\ UNCHANGED <<directory, marker, config, cache, grants, change, changes, restarts,
                   raced, crossed, promised>>

Keep(v) ==
    LET r == visit[v] IN
    /\ r.at = "built"
    /\ cache' = IF cache[r.key] # Nowhere THEN cache
                ELSE [cache EXCEPT ![r.key] =
                        [of |-> r.of, archived |-> r.archived, overtaken |-> v \in raced]]
    /\ visit' = [visit EXCEPT ![v] = None]
    /\ raced' = raced \ {v}
    /\ UNCHANGED <<directory, marker, config, grants, change, changes, restarts, crossed,
                   promised>>

(* A token's grants are for projects there are when they are looked at.        *)
LookForGrant(v, k) ==
    /\ visit[v] = None
    /\ There(k)
    /\ visit' = [visit EXCEPT ![v] = [at |-> "granting", key |-> k]]
    /\ crossed' = IF \E m \in Managers : Deletes(m, k)
                  THEN crossed \union {k} ELSE crossed
    /\ UNCHANGED <<directory, marker, config, cache, grants, change, changes, restarts,
                   raced, promised>>

Grant(v) ==
    /\ visit[v].at = "granting"
    /\ grants' = grants \union {visit[v].key}
    /\ visit' = [visit EXCEPT ![v] = None]
    /\ UNCHANGED <<directory, marker, config, cache, change, changes, restarts, raced,
                   crossed, promised>>

----------------------------------------------------------------------------
(* The list of archived keys is copied from memory, changed, and written over   *)
(* whatever version the file has by then; memory has it afterwards.            *)
Copied(op, k) ==
    IF op = "archive" THEN config \union {k} ELSE config \ {k}


Begin(m, op, k, at) ==
    /\ change[m] = None
    /\ changes < MaxChanges
    /\ changes' = changes + 1
    /\ change' = [change EXCEPT ![m] =
                    [at |-> at, op |-> op, key |-> k, list |-> Copied(op, k)]]
    /\ promised' = IF op \in {"unarchive", "delete"} THEN promised \ {k} ELSE promised

Archive(m, k) ==
    /\ There(k)
    /\ Begin(m, "archive", k, IF IsArchived(k) THEN "evict" ELSE "write")
    /\ UNCHANGED <<directory, marker, config, cache, grants, visit, restarts, raced, crossed>>

Unarchive(m, k) ==
    /\ There(k)
    /\ Begin(m, "unarchive", k, "write")
    /\ UNCHANGED <<directory, marker, config, cache, grants, visit, restarts, raced, crossed>>

WriteList(m) ==
    /\ change[m].at = "write"
    /\ marker' = change[m].list
    /\ ChangeGoes(m, "adopt")
    /\ UNCHANGED <<directory, config, cache, grants, visit, changes, restarts, raced,
                   crossed, promised>>

(* What follows the write of the list: an archive change evicts the project, a  *)
(* deletion evicted it at its start. The list may be older than the one in      *)
(* memory and change other keys than its own: nothing evicts those.            *)
Flipped(list) == (list \ config) \union (config \ list)

Adopt(m) ==
    LET r == change[m]
        own == IF r.op = "delete" THEN {} ELSE {r.key} IN
    /\ r.at = "adopt"
    /\ config' = r.list
    /\ IF r.op = "delete" THEN ChangeEnds(m) ELSE ChangeGoes(m, "evict")
    /\ cache' = Overtaken(Flipped(r.list) \ own)
    /\ raced' = raced \union UNION {Opening(k) : k \in Flipped(r.list)}
    /\ UNCHANGED <<directory, marker, grants, visit, changes, restarts, crossed, promised>>

(* Seeded fault: only an archive lets the kept project go.                     *)
LetGoArchived(m) ==
    IF change[m].op = "archive" THEN Evicted(change[m].key) ELSE cache

LetGo(m) == Evicted(change[m].key)

EvictChanged(m) ==
    LET r == change[m] IN
    /\ r.at = "evict"
    /\ cache' = LetGo(m)
    /\ ChangeEnds(m)
    /\ promised' = IF /\ r.op = "archive"
                      /\ ~\E o \in Managers : /\ change[o].key = r.key
                                              /\ change[o].op \in {"unarchive", "delete"}
                   THEN promised \union {r.key} ELSE promised
    /\ UNCHANGED <<directory, marker, config, grants, visit, changes, restarts, raced,
                   crossed>>

Retitle(k) ==
    /\ There(k)
    /\ directory' = [directory EXCEPT ![k].title = changes']
    /\ raced' = raced \union Opening(k)
    /\ UNCHANGED <<marker, config, grants, visit, restarts, crossed>>

Rename(m, k) ==
    /\ Begin(m, "rename", k, "evict")
    /\ Retitle(k)
    /\ UNCHANGED cache

(* The name is in the file, the store could not read it back, and the request   *)
(* fails before it evicts.                                                    *)
RenameUnconfirmed(m, k) ==
    /\ change[m] = None
    /\ changes < MaxChanges
    /\ changes' = changes + 1
    /\ Retitle(k)
    /\ cache' = Overtaken({k})
    /\ UNCHANGED <<change, promised>>

Create(m, k) ==
    /\ ~There(k)
    /\ change[m] = None
    /\ changes < MaxChanges
    /\ changes' = changes + 1
    /\ directory' = [directory EXCEPT ![k] = [born |-> changes', title |-> changes']]
    /\ UNCHANGED <<marker, config, cache, grants, visit, change, restarts, raced, crossed,
                   promised>>

(* A deletion evicts the project before it looks whether it may be deleted.    *)
BeginDelete(m, k) ==
    /\ Begin(m, "delete", k, "check")
    /\ cache' = Evicted(k)
    /\ UNCHANGED <<directory, marker, config, grants, visit, restarts, raced, crossed>>

(* Seeded fault: the directory goes first.                                     *)
DirectoryFirst == <<"directory", "grants">>

DeletionOrder == <<"grants", "directory">>

After(step) == IF step = DeletionOrder[1] THEN DeletionOrder[2] ELSE "copy"

CheckArchived(m) ==
    LET k == change[m].key IN
    /\ At(m, "delete", "check")
    /\ IF There(k) /\ IsArchived(k) THEN ChangeGoes(m, DeletionOrder[1]) ELSE ChangeEnds(m)
    /\ crossed' = IF \E v \in Visitors : visit[v].at = "granting" /\ visit[v].key = k
                  THEN crossed \union {k} ELSE crossed
    /\ UNCHANGED <<directory, marker, config, cache, grants, visit, changes, restarts,
                   raced, promised>>

RemoveGrants(m) ==
    /\ At(m, "delete", "grants")
    /\ grants' = grants \ {change[m].key}
    /\ ChangeGoes(m, After("grants"))
    /\ UNCHANGED <<directory, marker, config, cache, visit, changes, restarts, raced,
                   crossed, promised>>

RemoveDirectory(m) ==
    LET k == change[m].key IN
    /\ At(m, "delete", "directory")
    /\ directory' = [directory EXCEPT ![k] = Nowhere]
    /\ ChangeGoes(m, After("directory"))
    /\ raced' = raced \union Opening(k)
    /\ cache' = Overtaken({k})
    /\ UNCHANGED <<marker, config, grants, visit, changes, restarts, crossed, promised>>

CopyList(m) ==
    /\ At(m, "delete", "copy")
    /\ change' = [change EXCEPT ![m].list = config \ {change[m].key}, ![m].at = "write"]
    /\ UNCHANGED <<directory, marker, config, cache, grants, visit, changes, restarts,
                   raced, crossed, promised>>

(* A write fails, and the request with it, or is answered with an error when it *)
(* is done: the list in memory stays in both cases.                            *)
ChangeFails(m) ==
    LET r == change[m] IN
    /\ r.at \in {"write", "grants", "directory"}
    /\ ChangeEnds(m)
    /\ marker' \in {marker} \union (IF r.at = "write" THEN {r.list} ELSE {})
    /\ grants' \in {grants} \union (IF r.at = "grants" THEN {grants \ {r.key}} ELSE {})
    /\ UNCHANGED <<directory, config, cache, visit, changes, restarts, raced, crossed,
                   promised>>

(* The server stops and starts: memory is read from the site's file again.      *)
Restart ==
    /\ restarts < MaxRestarts
    /\ restarts' = restarts + 1
    /\ config' = marker
    /\ cache' = [k \in Projects |-> Nowhere]
    /\ visit' = [v \in Visitors |-> None]
    /\ change' = [m \in Managers |-> None]
    /\ raced' = {}
    /\ UNCHANGED <<directory, marker, grants, changes, crossed, promised>>

ProjectsNext ==
    \/ \E v \in Visitors :
          \/ \E k \in Projects : Open(v, k) \/ LookForGrant(v, k)
          \/ Build(v) \/ Keep(v) \/ Grant(v)
    \/ \E m \in Managers :
          \/ \E k \in Projects :
                Archive(m, k) \/ Unarchive(m, k) \/ Rename(m, k)
                \/ RenameUnconfirmed(m, k) \/ Create(m, k) \/ BeginDelete(m, k)
          \/ WriteList(m) \/ Adopt(m) \/ EvictChanged(m)
          \/ CheckArchived(m) \/ RemoveGrants(m) \/ RemoveDirectory(m) \/ CopyList(m)
          \/ ChangeFails(m)
    \/ Restart

ProjectsSpec == ProjectsInit /\ [][ProjectsNext]_projectVars

----------------------------------------------------------------------------
(* No change of k is in progress.                                             *)
Settled(k) == \A m \in Managers : change[m].key # k

(* What is kept for a project has its name and its archived flag once its       *)
(* changes are done: archiving, unarchiving and renaming evict after they       *)
(* change, so the next request rebuilds it, as the doc of evict says. The code  *)
(* evicts too early or not at all in four cases, which the history names and   *)
(* the property excepts: a runtime kept by a visitor whose project changed     *)
(* while it was opened; one kept between the eviction with which a deletion    *)
(* begins and the removal, which a project made again under the key finds; one *)
(* whose flag a list copied before another request's change takes back, or a   *)
(* deletion takes from a project made again; and one whose rename was answered *)
(* with an error after it took effect.                                        *)
KeptIsCurrent ==
    \A k \in Projects :
        Settled(k) /\ There(k) /\ cache[k] # Nowhere /\ ~cache[k].overtaken =>
            cache[k].of = directory[k] /\ cache[k].archived = IsArchived(k)

(* No token has a grant for a project that is gone, so a later project of that  *)
(* key starts with none: also when the deletion stopped half way. A key that   *)
(* was granted while it was being deleted is excepted.                        *)
DeletedLeavesNoGrant ==
    \A k \in Projects \ crossed : ~There(k) => k \notin grants

(* An archived project stays archived until someone asks for the opposite.      *)
ArchiveStays == promised \subseteq config

(* The same with no exception: after an archive change, a rename or a delete,   *)
(* the next request for the project opens it again, and nothing older is kept. *)
NextRequestRebuilds ==
    \A k \in Projects :
        Settled(k) /\ cache[k] # Nowhere =>
            cache[k].of = directory[k] /\ cache[k].archived = IsArchived(k)
=============================================================================
