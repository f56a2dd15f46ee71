--------------------------- MODULE RadargramLifecycle ---------------------------
(***************************************************************************)
(* One radargram and the picks drawn on it: added, replaced by way of a    *)
(* staged file and a report, removed, and added again                      *)
(* (src/src/server/lifecycle_routes.rs, src/src/server/replace_routes.rs), *)
(* while people pick, adopt, archive and restore                           *)
(* (src/src/server/interp_routes.rs, src/src/server/pick_routes.rs).       *)
(*                                                                         *)
(* Picks name the revision they were drawn on and are placed on a later    *)
(* one through that revision's axes, so its axes are kept when its file    *)
(* goes (src/src/project/revisions.rs), with a ledger of which revision    *)
(* ended when. A document that brings no axes of its own is meant.         *)
(*                                                                         *)
(* Handlers that hold the lifecycle lock throughout are one action, or     *)
(* several when the process may stop between two writes. Archiving,        *)
(* deleting and purging picks do not take the lock.                        *)
(***************************************************************************)
EXTENDS Naturals, FiniteSets

CONSTANTS
    Revisions,  \* revisions of the radargram
    None,       \* no file, no revision, no axes
    Grids,      \* axes a revision can have
    GridOf,     \* the axes each revision's file declares, None for none
    Users,
    Tokens,     \* staging tokens
    MaxDocs,    \* bound: how many documents are ever written
    External,   \* whether files are replaced outside Ridal
    KeepFails,  \* whether keeping axes at discovery may fail
    Crashes,    \* whether the process may stop in the middle of a handler
    Returns     \* how a revision that was here before may come back

ASSUME NoneAssumption == None \notin Revisions \cup Grids
ASSUME GridAssumption == GridOf \in [Revisions -> Grids \cup {None}]
ASSUME BoundAssumption == MaxDocs \in Nat
ASSUME SwitchAssumption == External \in BOOLEAN /\ KeepFails \in BOOLEAN /\ Crashes \in BOOLEAN
ASSUME ReturnAssumption == Returns \in SUBSET {"added", "replaced"}

Documents == 1 .. MaxDocs
Ages == {"unknown", "current", "ended", "long ended"}

VARIABLES
    disk,      \* the revision of the radargram's file
    served,    \* the revision the catalog lists
    kept,      \* revisions/: the axes kept under each revision
    ledger,    \* revisions.json: what it says of each revision
    source,    \* the revision each document names, None for one not written
    owner,     \* whose it is
    live,      \* each user's interpretation, 0 for none
    archived,  \* documents in the archive
    parted,    \* documents overwritten or deleted by their owner, or purged
    page,      \* the revision and document each user's viewer has loaded
    staged,    \* what each staging token stands for
    op,        \* who holds the lifecycle lock, and before which write
    past       \* revisions there have been on disk

onDisk   == <<disk, past>>
picks    == <<source, owner, live, archived, parted, page>>
records  == <<kept, ledger>>
vars     == <<onDisk, served, records, picks, staged, op>>

Free     == [phase |-> "free", from |-> None, to |-> None]
Closed   == [revision |-> None, doc |-> 0]
Idle     == [kind |-> "idle", about |-> None]

Live     == {live[u] : u \in Users} \ {0}
Drawn    == {n \in Documents : source[n] # None}
Unlocked == op = Idle

\* A file that may arrive: any revision, or only one that never was here.
Incoming(how) == IF how \in Returns THEN Revisions ELSE Revisions \ past

-----------------------------------------------------------------------------
(* The ledger, and the axes kept (project/revisions.rs) *)

NoteCurrent(l, r) == IF l[r] = "unknown" THEN [l EXCEPT ![r] = "current"] ELSE l

NoteCurrentAgain(l, r) == [l EXCEPT ![r] = "current"]

\* Seeded fault: only the revision that was found is looked at.
NoteDiscoveredOnly(l, r) == NoteCurrent(l, r)

\* Any other revision that still is current ended when this one was found.
NoteDiscovered(l, r) ==
    [q \in Revisions |->
       IF q # r /\ l[q] = "current" THEN "ended" ELSE NoteCurrent(l, r)[q]]

Supersede(l, r, by) ==
    LET ended == [l EXCEPT ![r] = "ended"]
    IN  IF by = None THEN ended ELSE NoteCurrent(ended, by)

\* put: nothing is kept under the revision, or the same mapping is.
CanKeep(r, grid) == kept[r] \in {None, grid}

\* The revisions a document names, live or archived.
Named == {source[n] : n \in Live \cup archived}

\* sweep: what is not served, not named, and ended long ago.
Swept(k, l) ==
    [r \in Revisions |->
       IF r # disk /\ r \notin Named /\ l[r] = "long ended" THEN None ELSE k[r]]

\* keep_new_axes: the axes of a revision that has none kept.
KeptNew ==
    {kept} \cup (IF disk # None /\ kept[disk] = None /\ GridOf[disk] # None
                 THEN {[kept EXCEPT ![disk] = GridOf[disk]]}
                 ELSE {})

\* Discovery: the catalog lists what is on disk, the ledger hears of it, and
\* its axes are kept, which may fail with a warning; what is kept is swept
\* when that is new, and at startup.
Discovers(l, startup) ==
    \E k \in KeptNew :
       /\ k = kept => KeepFails \/ KeptNew = {kept}
       /\ served' = disk
       /\ ledger' = IF disk = None THEN l ELSE NoteDiscovered(l, disk)
       /\ kept' = IF k # kept \/ startup THEN Swept(k, ledger') ELSE k

Init ==
    /\ disk \in Revisions
    /\ past = {disk}
    /\ served = disk
    /\ ledger = [r \in Revisions |-> IF r = disk THEN "current" ELSE "unknown"]
    /\ \E keeps \in BOOLEAN :
          /\ keeps \/ KeepFails
          /\ kept = [r \in Revisions |->
                       IF r = disk /\ keeps THEN GridOf[r] ELSE None]
    /\ source = [n \in Documents |-> None]
    /\ owner = [n \in Documents |-> None]
    /\ live = [u \in Users |-> 0]
    /\ archived = {}
    /\ parted = {}
    /\ page = [u \in Users |-> Closed]
    /\ staged = [t \in Tokens |-> Free]
    /\ op = Idle

-----------------------------------------------------------------------------
(* Replacing *)

\* stage_replacement before the file: the revision it is to replace is read,
\* and staged files nobody came back for are swept.
StageStarts(t) ==
    /\ Unlocked /\ served # None /\ staged[t] = Free
    /\ \E r \in Incoming("replaced"), old \in SUBSET {x \in Tokens : staged[x].phase = "staged"} :
          staged' = [x \in Tokens |->
             IF x = t THEN [Free EXCEPT !.phase = "arriving", !.from = served, !.to = r]
             ELSE IF x \in old THEN Free ELSE staged[x]]
    /\ UNCHANGED <<onDisk, served, records, picks, op>>

\* And after it: refused when the radargram changed, else the report is made
\* and the note says which revision it was made against.
StageArrives(t) ==
    /\ Unlocked /\ staged[t].phase = "arriving"
    /\ served = staged[t].from
    /\ staged' = [staged EXCEPT ![t].phase = "staged"]
    /\ UNCHANGED <<onDisk, served, records, picks, op>>

\* The upload was refused or broke off; or the staged file is discarded, or
\* removed by a commit that is refused.
StageEnds(t) ==
    /\ Unlocked \/ staged[t].phase = "arriving"
    /\ staged[t] # Free
    /\ staged' = [staged EXCEPT ![t] = Free]
    /\ UNCHANGED <<onDisk, served, records, picks, op>>

\* Seeded fault: the note is not read.
MeasuredNow(t) == staged[t].to # served

\* The report is of the change that a commit would make.
Measured(t) == staged[t].from = served /\ staged[t].to # served

\* commit_replacement: the checks, and the outgoing axes kept. Without axes
\* it goes on only when nobody has picks. (Incoming is no guard of the code:
\* it keeps a file staged long ago from being one that returns.)
CommitKeeps(t) ==
    /\ Unlocked /\ served # None /\ disk # None
    /\ staged[t].phase = "staged" /\ Measured(t)
    /\ staged[t].to \in Incoming("replaced")
    /\ \/ /\ GridOf[disk] # None /\ CanKeep(served, GridOf[disk])
          /\ kept' = [kept EXCEPT ![served] = GridOf[disk]]
          /\ ledger' = NoteCurrent(ledger, served)
       \/ /\ GridOf[disk] = None /\ Live = {}
          /\ UNCHANGED records
    /\ op' = [kind |-> "committing", about |-> t]
    /\ UNCHANGED <<onDisk, served, picks, staged>>

\* The staged file is renamed over the one there is.
CommitInstalls ==
    /\ op.kind = "committing"
    /\ disk' = staged[op.about].to
    /\ past' = past \cup {disk'}
    /\ staged' = [staged EXCEPT ![op.about] = Free]
    /\ op' = [kind |-> "replaced", about |-> disk']
    /\ UNCHANGED <<served, records, picks>>

\* Or that fails, and the staged file goes.
CommitFails ==
    /\ op.kind = "committing"
    /\ staged' = [staged EXCEPT ![op.about] = Free]
    /\ op' = Idle
    /\ UNCHANGED <<onDisk, served, records, picks>>

\* The ledger hears of it, and the catalog is discovered anew.
CommitRecords ==
    /\ op.kind = "replaced"
    /\ Discovers(Supersede(ledger, served, op.about), FALSE)
    /\ op' = Idle
    /\ UNCHANGED <<onDisk, picks, staged>>

-----------------------------------------------------------------------------
(* Removing and adding *)

\* Seeded fault: the axes are not kept before the file goes.
RemoveKeepsNothing ==
    /\ Unlocked /\ served # None /\ disk = served
    /\ op' = [kind |-> "removing", about |-> None]
    /\ UNCHANGED <<onDisk, served, records, picks, staged>>

\* remove_locked: the axes of the revision that is served are kept; the file
\* has to be that revision.
RemoveKeeps ==
    /\ Unlocked /\ served # None /\ disk = served
    /\ \/ GridOf[disk] = None /\ UNCHANGED records
       \/ /\ GridOf[disk] # None /\ CanKeep(served, GridOf[disk])
          /\ kept' = [kept EXCEPT ![served] = GridOf[disk]]
          /\ ledger' = NoteCurrent(ledger, served)
    /\ op' = [kind |-> "removing", about |-> None]
    /\ UNCHANGED <<onDisk, served, picks, staged>>

\* archive_all, one interpretation: copied, then removed.
RemoveArchives(u) ==
    /\ op.kind = "removing" /\ live[u] # 0
    /\ archived' = archived \cup {live[u]}
    /\ live' = [live EXCEPT ![u] = 0]
    /\ UNCHANGED <<onDisk, served, records, source, owner, parted, page, staged, op>>

\* Seeded fault: the file goes before the picks are archived.
RemoveUnlinksFirst ==
    /\ op.kind = "removing"
    /\ disk' = None
    /\ op' = [kind |-> "removed", about |-> None]
    /\ UNCHANGED <<past, served, records, picks, staged>>

RemoveUnlinks ==
    /\ op.kind = "removing" /\ Live = {}
    /\ disk' = None
    /\ op' = [kind |-> "removed", about |-> None]
    /\ UNCHANGED <<past, served, records, picks, staged>>

\* The file could not be removed: it is served, and its picks are archived.
RemoveFails ==
    /\ op.kind = "removing" /\ Live = {}
    /\ op' = Idle
    /\ UNCHANGED <<onDisk, served, records, picks, staged>>

RemoveRecords ==
    /\ op.kind = "removed"
    /\ Discovers(Supersede(ledger, served, None), FALSE)
    /\ op' = Idle
    /\ UNCHANGED <<onDisk, picks, staged>>

\* install_locked, of an id the catalog does not have.
AddInstalls ==
    /\ Unlocked /\ served = None
    /\ \E r \in Incoming("added") :
          /\ disk' = r
          /\ past' = past \cup {r}
          /\ op' = [kind |-> "added", about |-> r]
    /\ UNCHANGED <<served, records, picks, staged>>

AddRecords ==
    /\ op.kind = "added"
    /\ Discovers(NoteCurrentAgain(ledger, op.about), FALSE)
    /\ op' = Idle
    /\ UNCHANGED <<onDisk, picks, staged>>

-----------------------------------------------------------------------------
(* What happens outside Ridal, and to it *)

ReplacedOnDisk ==
    /\ External /\ disk # None
    /\ \E r \in Revisions \ past : disk' = r /\ past' = past \cup {r}
    /\ UNCHANGED <<served, records, picks, staged, op>>

\* The process stops wherever it is, and starts: build_with_project.
Restarts ==
    /\ Crashes \/ Unlocked
    /\ Discovers(ledger, TRUE)
    /\ staged' = [t \in Tokens |->
                    IF staged[t].phase = "arriving" THEN Free ELSE staged[t]]
    /\ op' = Idle
    /\ UNCHANGED <<onDisk, picks>>

\* KEPT_AFTER_ENDING_DAYS go by; no viewer stays open that long.
MonthPasses(r) ==
    /\ ledger[r] = "ended"
    /\ \A u \in Users : page[u].revision # r
    /\ ledger' = [ledger EXCEPT ![r] = "long ended"]
    /\ UNCHANGED <<onDisk, served, kept, picks, staged, op>>

-----------------------------------------------------------------------------
(* Picks *)

OpensViewer(u) ==
    /\ served # None
    /\ page' = [page EXCEPT ![u] = [revision |-> served, doc |-> live[u]]]
    /\ UNCHANGED <<onDisk, served, records, source, owner, live, archived, parted, staged, op>>

ClosesViewer(u) ==
    /\ page[u] # Closed
    /\ page' = [page EXCEPT ![u] = Closed]
    /\ UNCHANGED <<onDisk, served, records, source, owner, live, archived, parted, staged, op>>

\* u's interpretation is written, of revision r, as a new document; what was
\* there is parted with or archived.
Writes(u, r) ==
    \E n \in Documents \ Drawn :
       /\ \A m \in Documents \ Drawn : n <= m
       /\ source' = [source EXCEPT ![n] = r]
       /\ owner' = [owner EXCEPT ![n] = u]
       /\ live' = [live EXCEPT ![u] = n]
       /\ page' = [page EXCEPT ![u] = [revision |-> r, doc |-> n]]

\* The viewer's save is of what it loaded: the If-Match of its document, or
\* none yet. Picks of an earlier revision it shows are adopted, not saved.
Savable(u) ==
    /\ page[u] # Closed /\ page[u].doc = live[u]
    /\ live[u] # 0 => source[live[u]] = page[u].revision

\* Seeded fault: the lifecycle lock is not taken.
SavesUnlocked(u) ==
    /\ served # None /\ Savable(u)
    /\ Writes(u, page[u].revision)
    /\ parted' = parted \cup ({live[u]} \ {0})
    /\ UNCHANGED <<onDisk, served, records, archived, staged, op>>

\* put_interpretation: the radargram has to be in the catalog, at whatever
\* revision.
Saves(u) ==
    /\ Unlocked /\ served # None /\ Savable(u)
    /\ Writes(u, page[u].revision)
    /\ parted' = parted \cup ({live[u]} \ {0})
    /\ UNCHANGED <<onDisk, served, records, archived, staged, op>>

Adoptable(u) ==
    /\ Unlocked /\ served # None /\ live[u] # 0
    /\ page[u] = [revision |-> served, doc |-> live[u]]
    /\ source[live[u]] # served
    /\ kept[source[live[u]]] # None /\ GridOf[served] # None

\* promote_interpretation: onto the revision that is served, from a page that
\* shows it; what was drawn is archived first.
Adopts(u) ==
    /\ Adoptable(u)
    /\ Writes(u, served)
    /\ archived' = archived \cup {live[u]}
    /\ UNCHANGED <<onDisk, served, records, parted, staged, op>>

\* delete_interpretation, of the version the viewer has.
Deletes(u) ==
    /\ live[u] # 0 /\ page[u].doc = live[u]
    /\ live' = [live EXCEPT ![u] = 0]
    /\ parted' = parted \cup {live[u]}
    /\ UNCHANGED <<onDisk, served, records, source, owner, archived, page, staged, op>>

\* archive_interpretation, by an administrator.
Archives(u) ==
    /\ live[u] # 0
    /\ archived' = archived \cup {live[u]}
    /\ live' = [live EXCEPT ![u] = 0]
    /\ UNCHANGED <<onDisk, served, records, source, owner, parted, page, staged, op>>

\* restore_archived: where its owner has no picks now.
Restores(n) ==
    /\ Unlocked /\ served # None
    /\ n \in archived /\ live[owner[n]] = 0
    /\ live' = [live EXCEPT ![owner[n]] = n]
    /\ archived' = archived \ {n}
    /\ UNCHANGED <<onDisk, served, records, source, owner, parted, page, staged, op>>

Purges(n) ==
    /\ n \in archived
    /\ archived' = archived \ {n}
    /\ parted' = parted \cup {n}
    /\ UNCHANGED <<onDisk, served, records, source, owner, live, page, staged, op>>

-----------------------------------------------------------------------------

Next ==
    \/ \E t \in Tokens : StageStarts(t) \/ StageArrives(t) \/ StageEnds(t) \/ CommitKeeps(t)
    \/ CommitInstalls \/ CommitFails \/ CommitRecords
    \/ RemoveKeeps \/ RemoveUnlinks \/ RemoveFails \/ RemoveRecords
    \/ AddInstalls \/ AddRecords
    \/ ReplacedOnDisk \/ Restarts
    \/ \E r \in Revisions : MonthPasses(r)
    \/ \E u \in Users : \/ RemoveArchives(u) \/ OpensViewer(u) \/ ClosesViewer(u)
                        \/ Saves(u) \/ Adopts(u) \/ Deletes(u) \/ Archives(u)
    \/ \E n \in Documents : Restores(n) \/ Purges(n)

Spec == Init /\ [][Next]_vars

-----------------------------------------------------------------------------

LifecycleTypeOK ==
    /\ disk \in Revisions \cup {None} /\ served \in Revisions \cup {None}
    /\ past \in SUBSET Revisions
    /\ kept \in [Revisions -> Grids \cup {None}]
    /\ ledger \in [Revisions -> Ages]
    /\ source \in [Documents -> Revisions \cup {None}]
    /\ owner \in [Documents -> Users \cup {None}]
    /\ live \in [Users -> Drawn \cup {0}]
    /\ archived \in SUBSET Drawn /\ parted \in SUBSET Drawn
    /\ page \in [Users -> [revision : Revisions \cup {None}, doc : Drawn \cup {0}]]
    /\ \A t \in Tokens :
         /\ staged[t].phase \in {"free", "arriving", "staged"}
         /\ staged[t].phase = "free" <=> staged[t] = Free
    /\ op.kind = "committing" => staged[op.about].phase = "staged"

\* Picks on a radargram or in its archive can be placed: the axes of the
\* revision they were drawn on, if its file declared any, are kept or are
\* still in the file.
PicksPlaceable ==
    \A n \in Live \cup archived :
       LET r == source[n] IN
       GridOf[r] # None => kept[r] = GridOf[r] \/ disk = r

\* The axes kept under a revision are that revision's: read_axis_snapshot
\* calls anything else "the exact cross-revision mistake snapshots exist to
\* prevent".
KeptAreTheirs == \A r \in Revisions : kept[r] \in {None, GridOf[r]}

\* While a radargram is served and no handler is at work, the ledger has its
\* revision as current and no other.
LedgerAgrees ==
    Unlocked /\ served # None =>
       {r \in Revisions : ledger[r] = "current"} = {served}

\* What the project remembers of a radargram's revisions is what happened,
\* whatever was staged, replaced outside Ridal, removed and uploaded again.
HistoryIsTrue == KeptAreTheirs /\ LedgerAgrees

\* Nothing that was drawn is lost: it is on the radargram, or in the archive,
\* or its owner saved over or deleted it, or it was purged. And none is on a
\* radargram that is gone, where it would reattach to whatever takes the id
\* next.
NothingAuthoredLost ==
    /\ Drawn = Live \cup archived \cup parted
    /\ Unlocked /\ served = None => Live = {}

\* From the moment a commit has looked until its file is in place, nobody can
\* add picks: none are on the file that goes unless its axes are kept.
InstallSparesPicks ==
    [][op.kind = "committing" /\ op'.kind = "replaced" =>
         \A n \in Live : source[n] = disk => kept[disk] = GridOf[disk] /\ kept[disk] # None]_vars

\* A commit makes the change its report described, from the revision the
\* report was made against, whatever else was staged or installed meanwhile.
CommitsWhatWasShown ==
    [][\A t \in Tokens :
         op'.kind = "replaced" /\ op.kind = "committing" /\ op.about = t =>
            staged[t].from = served]_vars
=============================================================================
