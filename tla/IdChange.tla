------------------------------ MODULE IdChange ------------------------------
(***************************************************************************)
(* Changing a radargram's id: a copy of its file under the new id, its     *)
(* picks transferred onto the copy, and the old radargram removed          *)
(* (src/src/server/rename_routes.rs, src/src/project/transfer.rs), while   *)
(* people save, delete, archive and restore picks on either.               *)
(*                                                                         *)
(* A revision is named by the id in its file and by what else is in it, so *)
(* a copy's revision is another one with the same axes. A picks document   *)
(* names the revision it was drawn on; it is placed through that           *)
(* revision's axes, of the file that is served or kept under the id the    *)
(* document is on. A transfer renames the revision where the two grids are *)
(* the same, and takes the axes along where it does not.                   *)
(*                                                                         *)
(* Saving, restoring, copying, replacing, transferring and removing hold   *)
(* the lifecycle lock; deleting and archiving picks do not. A transfer and *)
(* the removal that follows it are one hold, in as many steps as the       *)
(* process can stop between, or an owner delete between; a replacement, an *)
(* addition and an unlinking with what is recorded of it are one step each *)
(* here: RadargramLifecycle has theirs.                                    *)
(***************************************************************************)
EXTENDS Naturals, Sequences

CONSTANTS
    RadargramIds,
    Pickers,
    Contents,   \* what a radargram's file has besides its id
    AxesOf,     \* the axes that declares, Missing for none
    Missing,    \* no file, no axes, no picks, no page
    MaxWorks,   \* bound: how many times picks are saved
    MaxChanges  \* bound: how often radargrams change, picks are archived by hand, a month
                \* passes or Ridal starts

ASSUME MissingAssumption == Missing \notin Contents
ASSUME BoundsAssumption == MaxWorks \in Nat /\ MaxChanges \in Nat

Revision == [id : RadargramIds, contents : Contents]
Rev(i, c) == [id |-> i, contents |-> c]

VARIABLES
    serving,  \* the contents of each id's file, which the catalog lists
    axes,     \* revisions/<id>/: the axes kept there under each revision
    history,  \* revisions.json: what it says of each revision under an id
    picks,    \* each person's document on each radargram
    shelf,    \* the archive
    drawn,    \* the axes each saved work was drawn on
    pages,    \* what each person's viewer has loaded
    hold,     \* the handler that holds the lifecycle lock, and how far it is
    changes   \* bounded by MaxChanges

idVars == <<serving, axes, history, picks, shelf, drawn, pages, hold, changes>>

NotHeld == [phase |-> "free"]

\* The revision the catalog lists under an id.
Current(i) == Rev(i, serving[i])

Changes == changes < MaxChanges /\ changes' = changes + 1

On(i) == {u \in Pickers : picks[i][u] # Missing}

-----------------------------------------------------------------------------
(* The ledger and the axes kept (project/revisions.rs) *)

Noted(ages, r) == IF ages[r] = "unknown" THEN [ages EXCEPT ![r] = "current"] ELSE ages

\* note_discovered: another that still was current ended.
Discovered(ages, r) ==
    [q \in Revision |-> IF q # r /\ ages[q] = "current" THEN "ended" ELSE Noted(ages, r)[q]]

\* snapshot_axes: the axes of the file an id has, if it declares any, when
\* nothing else is kept under its revision.
CanKeepAxes(i) == axes[i][Current(i)] \in {Missing, AxesOf[serving[i]]}
                  \/ AxesOf[serving[i]] = Missing
WithAxes(i) ==
    IF AxesOf[serving[i]] = Missing THEN axes[i]
    ELSE [axes[i] EXCEPT ![Current(i)] = AxesOf[serving[i]]]
WithNote(i) ==
    IF AxesOf[serving[i]] = Missing THEN history[i] ELSE Noted(history[i], Current(i))

\* The revisions that documents on an id, live or archived, name.
NamedOn(i) == {picks[i][u].revision : u \in On(i)} \cup
              {a.picks.revision : a \in {b \in shelf : b.on = i}}

SweptOf(i, kept, ages, now) ==
    [r \in Revision |-> IF r # now /\ r \notin NamedOn(i) /\ ages[r] = "long ended"
                        THEN Missing ELSE kept[r]]

\* rediscover: every file's revision is noted and its axes kept, unless that
\* fails; an id whose axes are new is swept, and at startup every id is.
Rediscovers(now, kept, ages, startup) ==
    LET Declares(i) == now[i] # Missing /\ AxesOf[now[i]] # Missing
        new == {i \in RadargramIds : Declares(i) /\ kept[i][Rev(i, now[i])] = Missing}
    IN  \E fails \in SUBSET new :
           /\ serving' = now
           /\ history' = [i \in RadargramIds |->
                IF now[i] = Missing THEN ages[i] ELSE Discovered(ages[i], Rev(i, now[i]))]
           /\ axes' = [i \in RadargramIds |->
                LET more == IF i \in new \ fails
                            THEN [kept[i] EXCEPT ![Rev(i, now[i])] = AxesOf[now[i]]]
                            ELSE kept[i]
                IN  IF startup \/ i \in new \ fails
                    THEN SweptOf(i, more, history'[i], Rev(i, now[i]))
                    ELSE more]

IdInit ==
    /\ \E i \in RadargramIds, c \in Contents :
          serving = [j \in RadargramIds |-> IF j = i THEN c ELSE Missing]
    /\ axes = [i \in RadargramIds |-> [r \in Revision |->
                 IF serving[i] # Missing /\ r = Current(i) THEN AxesOf[serving[i]] ELSE Missing]]
    /\ history = [i \in RadargramIds |-> [r \in Revision |->
                 IF serving[i] # Missing /\ r = Current(i) THEN "current" ELSE "unknown"]]
    /\ picks = [i \in RadargramIds |-> [u \in Pickers |-> Missing]]
    /\ shelf = {} /\ drawn = <<>>
    /\ pages = [u \in Pickers |-> Missing]
    /\ hold = NotHeld /\ changes = 0

-----------------------------------------------------------------------------
(* The file under an id *)

\* copy_dataset: an id nothing has gets the file of another, with its id changed.
CopiesRadargram(from, to) ==
    /\ Changes
    /\ hold = NotHeld /\ serving[from] # Missing /\ serving[to] = Missing
    /\ Rediscovers([serving EXCEPT ![to] = serving[from]], axes,
                   [history EXCEPT ![to][Rev(to, serving[from])] = "current"], FALSE)
    /\ UNCHANGED <<picks, shelf, drawn, pages, hold>>

\* commit_replacement: other contents under the same id; without axes to keep,
\* only where nobody has picks.
ReplacesFile(i, c) ==
    /\ Changes
    /\ hold = NotHeld /\ serving[i] \notin {Missing, c} /\ CanKeepAxes(i)
    /\ AxesOf[serving[i]] # Missing \/ On(i) = {}
    /\ Rediscovers([serving EXCEPT ![i] = c], [axes EXCEPT ![i] = WithAxes(i)],
                   [history EXCEPT ![i] =
                       Noted([WithNote(i) EXCEPT ![Current(i)] = "ended"], Rev(i, c))], FALSE)
    /\ UNCHANGED <<picks, shelf, drawn, pages, hold>>

-----------------------------------------------------------------------------
(* transfer_interpretations *)

\* same_grid, of what is kept once both radargrams' axes have been.
SameGrid(from, to) ==
    LET a == WithAxes(from)[Current(from)]
        b == WithAxes(to)[Current(to)]
    IN  a # Missing /\ a = b

\* The revision a document names once it is on the other radargram.
Rewritten(document, from, to) ==
    IF SameGrid(from, to) /\ document.revision = Current(from)
    THEN [document EXCEPT !.revision = Current(to)] ELSE document

\* Both radargrams' axes are kept, and every document is read and rewritten.
TransferBegins(from, to, remove) ==
    /\ Changes
    /\ hold = NotHeld /\ from # to
    /\ serving[from] # Missing /\ serving[to] # Missing
    /\ CanKeepAxes(from) /\ CanKeepAxes(to)
    /\ axes' = [axes EXCEPT ![from] = WithAxes(from), ![to] = WithAxes(to)]
    /\ history' = [history EXCEPT ![from] = WithNote(from), ![to] = WithNote(to)]
    /\ LET documents == [u \in On(from) |-> Rewritten(picks[from][u], from, to)]
       IN  hold' = [phase |-> "moving", from |-> from, to |-> to, remove |-> remove,
                    pending |-> documents,
                    needed |-> {documents[u].revision : u \in On(from)} \ {Current(to)},
                    moved |-> {}, occupied |-> {}]
    /\ UNCHANGED <<serving, picks, shelf, drawn, pages>>

\* The age of a copied record: as ended, at the time it did or now.
AsEnded(age) == IF age \in {"unknown", "current"} THEN "ended" ELSE age

\* copy_revision: the axes a document will name, and their record, which the
\* other radargram may have already; no axes are nothing to copy.
CopiesRevision(r) ==
    /\ hold.phase = "moving" /\ r \in hold.needed
    /\ \/ /\ axes[hold.from][r] = Missing
          /\ UNCHANGED <<axes, history>>
       \/ /\ axes[hold.from][r] # Missing
          /\ axes[hold.to][r] \in {Missing, axes[hold.from][r]}
          /\ axes' = [axes EXCEPT ![hold.to][r] = axes[hold.from][r]]
          /\ history' = IF history[hold.to][r] # "unknown" THEN history
                        ELSE [history EXCEPT ![hold.to][r] = AsEnded(history[hold.from][r])]
    /\ hold' = [hold EXCEPT !.needed = @ \ {r}]
    /\ UNCHANGED <<serving, picks, shelf, drawn, pages, changes>>

Done(u) == [v \in DOMAIN hold.pending \ {u} |-> hold.pending[v]]

\* Seeded fault: documents are written before the axes they name.
WritesAtOnce(u) ==
    /\ hold.phase = "moving" /\ u \in DOMAIN hold.pending
    /\ picks' = [picks EXCEPT ![hold.to][u] = IF @ = Missing THEN hold.pending[u] ELSE @]
    /\ hold' = [hold EXCEPT !.pending = Done(u)]
    /\ UNCHANGED <<serving, axes, history, shelf, drawn, pages, changes>>

\* A document is written where its owner has none, else left where it is.
WritesDocument(u) ==
    /\ hold.phase = "moving" /\ hold.needed = {} /\ u \in DOMAIN hold.pending
    /\ \/ /\ picks[hold.to][u] = Missing
          /\ picks' = [picks EXCEPT ![hold.to][u] = hold.pending[u]]
          /\ hold' = [hold EXCEPT !.pending = Done(u), !.moved = @ \cup {hold.pending[u].work}]
       \/ /\ picks[hold.to][u] # Missing
          /\ hold' = [hold EXCEPT !.pending = Done(u), !.occupied = @ \cup {u}]
          /\ UNCHANGED picks
    /\ UNCHANGED <<serving, axes, history, shelf, drawn, pages, changes>>

\* All are moved: the old radargram is removed in the same hold, or that is all.
TransferEnds ==
    /\ hold.phase = "moving" /\ hold.needed = {} /\ hold.pending = <<>>
    /\ hold' = IF hold.remove THEN [hold EXCEPT !.phase = "removing"] ELSE NotHeld
    /\ UNCHANGED <<serving, axes, history, picks, shelf, drawn, pages, changes>>

\* An error answers the request wherever it is; what was done stays.
HandlerFails ==
    /\ hold # NotHeld
    /\ hold' = NotHeld
    /\ UNCHANGED <<serving, axes, history, picks, shelf, drawn, pages, changes>>

-----------------------------------------------------------------------------
(* remove_locked *)

\* remove_dataset, of a radargram nothing was transferred from.
RemovalBegins(i) ==
    /\ Changes
    /\ hold = NotHeld /\ serving[i] # Missing /\ CanKeepAxes(i)
    /\ axes' = [axes EXCEPT ![i] = WithAxes(i)]
    /\ history' = [history EXCEPT ![i] = WithNote(i)]
    /\ hold' = [phase |-> "removing", from |-> i, to |-> Missing]
    /\ UNCHANGED <<serving, picks, shelf, drawn, pages>>

\* archive_all, one document: copied to the archive, then removed.
RemovalArchives(u) ==
    /\ hold.phase = "removing" /\ u \in On(hold.from)
    /\ shelf' = shelf \cup {[on |-> hold.from, by |-> u, picks |-> picks[hold.from][u]]}
    /\ picks' = [picks EXCEPT ![hold.from][u] = Missing]
    /\ UNCHANGED <<serving, axes, history, drawn, pages, hold, changes>>

\* The file goes, its revision ended, and the catalog is discovered anew.
RemovalUnlinks ==
    /\ hold.phase = "removing" /\ On(hold.from) = {}
    /\ Rediscovers([serving EXCEPT ![hold.from] = Missing], axes,
                   [history EXCEPT ![hold.from][Current(hold.from)] = "ended"], FALSE)
    /\ hold' = NotHeld
    /\ UNCHANGED <<picks, shelf, drawn, pages, changes>>

\* The process stops wherever it is, and starts.
ServerRestarts ==
    /\ Changes
    /\ Rediscovers(serving, axes, history, TRUE)
    /\ hold' = NotHeld
    /\ UNCHANGED <<picks, shelf, drawn, pages>>

\* KEPT_AFTER_ENDING_DAYS go by; no viewer and no request stays that long.
ThirtyDaysPass(i, r) ==
    /\ Changes
    /\ hold = NotHeld /\ history[i][r] = "ended"
    /\ \A u \in Pickers : pages[u] # Missing => pages[u].on # i \/ pages[u].revision # r
    /\ history' = [history EXCEPT ![i][r] = "long ended"]
    /\ UNCHANGED <<serving, axes, picks, shelf, drawn, pages, hold>>

-----------------------------------------------------------------------------
(* Picks *)

OpensPage(u, i) ==
    /\ serving[i] # Missing
    /\ pages' = [pages EXCEPT ![u] = [on |-> i, revision |-> Current(i), picks |-> picks[i][u]]]
    /\ UNCHANGED <<serving, axes, history, picks, shelf, drawn, hold, changes>>

ClosesPage(u) ==
    /\ pages[u] # Missing
    /\ pages' = [pages EXCEPT ![u] = Missing]
    /\ UNCHANGED <<serving, axes, history, picks, shelf, drawn, hold, changes>>

\* What a page saves is of the revision it shows, over the document it loaded,
\* which is of that revision too: others are adopted.
SaveableNow(u) ==
    /\ pages[u] # Missing /\ serving[pages[u].on] # Missing
    /\ picks[pages[u].on][u] = pages[u].picks
    /\ pages[u].picks # Missing => pages[u].picks.revision = pages[u].revision
    /\ Len(drawn) < MaxWorks

Saved(u) ==
    LET document == [work |-> Len(drawn) + 1, revision |-> pages[u].revision]
    IN  /\ drawn' = Append(drawn, AxesOf[document.revision.contents])
        /\ picks' = [picks EXCEPT ![pages[u].on][u] = document]
        /\ pages' = [pages EXCEPT ![u].picks = document]
        /\ UNCHANGED <<serving, axes, history, shelf, hold, changes>>

\* Seeded fault: the lifecycle lock is not taken.
SavesUnderWay(u) == SaveableNow(u) /\ Saved(u)

\* put_interpretation: refused where the radargram is not in the catalog.
SavesPicks(u) == hold = NotHeld /\ SaveableNow(u) /\ Saved(u)

\* delete_interpretation, of the version the page has.
DeletesPicks(u) ==
    /\ pages[u] # Missing /\ pages[u].picks # Missing
    /\ picks[pages[u].on][u] = pages[u].picks
    /\ picks' = [picks EXCEPT ![pages[u].on][u] = Missing]
    /\ UNCHANGED <<serving, axes, history, shelf, drawn, pages, hold, changes>>

\* archive_interpretation, by an administrator.
ArchivesPicks(u, i) ==
    /\ Changes
    /\ picks[i][u] # Missing
    /\ shelf' = shelf \cup {[on |-> i, by |-> u, picks |-> picks[i][u]]}
    /\ picks' = [picks EXCEPT ![i][u] = Missing]
    /\ UNCHANGED <<serving, axes, history, drawn, pages, hold>>

\* restore_archived: where its owner has no picks now.
RestoresPicks(a) ==
    /\ hold = NotHeld /\ a \in shelf
    /\ serving[a.on] # Missing /\ picks[a.on][a.by] = Missing
    /\ picks' = [picks EXCEPT ![a.on][a.by] = a.picks]
    /\ shelf' = shelf \ {a}
    /\ UNCHANGED <<serving, axes, history, drawn, pages, hold, changes>>

-----------------------------------------------------------------------------

IdNext ==
    \/ \E i, j \in RadargramIds :
          CopiesRadargram(i, j) \/ \E remove \in BOOLEAN : TransferBegins(i, j, remove)
    \/ \E i \in RadargramIds : RemovalBegins(i) \/ \E c \in Contents : ReplacesFile(i, c)
    \/ \E r \in Revision : CopiesRevision(r) \/ \E i \in RadargramIds : ThirtyDaysPass(i, r)
    \/ TransferEnds \/ HandlerFails \/ RemovalUnlinks \/ ServerRestarts
    \/ \E u \in Pickers :
          \/ WritesDocument(u) \/ RemovalArchives(u)
          \/ ClosesPage(u) \/ SavesPicks(u) \/ DeletesPicks(u)
          \/ \E i \in RadargramIds : OpensPage(u, i) \/ ArchivesPicks(u, i)
    \/ \E a \in shelf : RestoresPicks(a)

IdSpec == IdInit /\ [][IdNext]_idVars

-----------------------------------------------------------------------------

\* A revision's axes, if it declares any, are kept under i or are those of
\* i's file.
HasAxes(i, r) ==
    \/ AxesOf[r.contents] = Missing
    \/ axes[i][r] = AxesOf[r.contents]
    \/ serving[i] # Missing /\ r = Current(i)

\* A document is placed as it was drawn.
IsPlaced(i, document) ==
    /\ drawn[document.work] = AxesOf[document.revision.contents]
    /\ HasAxes(i, document.revision)

\* Picks stay on the axes they were drawn on, on whichever radargram they are
\* and in the archive, whatever was copied, transferred, replaced, removed and
\* added under the old id again, and wherever a transfer was cut short.
PlacedOnTheirGrid ==
    /\ \A i \in RadargramIds, u \in Pickers : picks[i][u] # Missing => IsPlaced(i, picks[i][u])
    /\ \A a \in shelf : IsPlaced(a.on, a.picks)

\* A change of id misses no save and writes over none: what its removal
\* archives it has moved, or left because the owner had picks there ("a save
\* cannot land on `from` between the two and be missed"), and it puts picks
\* only where there are none.
SavesAreMovedOrRefused ==
    [][/\ \A a \in shelf' \ shelf :
             hold.phase = "removing" /\ hold.to # Missing /\ hold.from = a.on =>
                a.picks.work \in hold.moved \/ a.by \in hold.occupied
       /\ hold.phase = "moving" =>
             \A u \in Pickers : picks'[hold.to][u] \in {picks[hold.to][u], Missing} \/
                                picks[hold.to][u] = Missing]_idVars
=============================================================================
