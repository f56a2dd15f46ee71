---------------------------- MODULE CatalogSnapshot ----------------------------
(***************************************************************************)
(* The catalog the server answers from (src/src/server/app.rs).            *)
(*                                                                         *)
(* It is one value, swapped as a whole: the radargrams found on disk, what *)
(* the project says over them, and the render services of those that are   *)
(* open. Two kinds of handler swap it. A change of which radargrams exist  *)
(* holds the lifecycle lock, closes the radargram, changes the disk and    *)
(* discovers again. An edit of the project's overrides holds nothing: it   *)
(* writes the document, reads it back, takes the snapshot there is, and    *)
(* swaps in the same radargrams resolved anew.                             *)
(***************************************************************************)
EXTENDS Naturals, FiniteSets

CONSTANTS
    Ids,        \* radargram ids
    Revisions,  \* what a file of one can be
    Gone,       \* no file, no entry, no service
    Settings,   \* what the project can say over a radargram
    Edits,      \* handlers that edit the overrides, once each (bound)
    Changes,    \* handlers that change which radargrams exist
    Nobody,     \* the lifecycle lock is free
    MaxDisks    \* bound: how many states the disk may come through

ASSUME GoneAssumption == Gone \notin Revisions
ASSUME HandlersAssumption == Edits \cap Changes = {} /\ Nobody \notin Changes
ASSUME BoundAssumption == MaxDisks \in Nat

Handlers == Edits \cup Changes

VARIABLES
    files,      \* the revision of each radargram on disk
    overrides,  \* overrides.json
    snapshot,   \* AppState::snapshot
    lifecycle,  \* AppState::lifecycle: who holds it
    at,         \* how far each handler has come
    saw,        \* what each handler has read: a snapshot, resolved or not
    chosen,     \* the radargram each handler is about
    disks       \* every state the disk has been in

vars == <<files, overrides, snapshot, lifecycle, at, saw, chosen, disks>>

Disks     == [Ids -> Revisions \cup {Gone}]
Overrides == [settings: [Ids -> Settings], ignored: SUBSET Ids]
Snapshots == [found: Disks, services: Disks, says: Overrides]

\* Catalog::entries: what was found and is not ignored.
Entries(s) == {id \in Ids : s.found[id] # Gone /\ id \notin s.says.ignored}

\* The services rediscover keeps and opens: one of an unchanged revision is
\* carried over, any other entry's is opened from its file.
ServicesFor(s) == [id \in Ids |-> IF id \in Entries(s) THEN s.found[id] ELSE Gone]

Discovered(disk, says) ==
    LET s == [found |-> disk, services |-> disk, says |-> says]
    IN  [s EXCEPT !.services = ServicesFor(s)]

Init ==
    /\ files \in Disks
    /\ overrides \in [settings: [Ids -> Settings], ignored: {{}}]
    /\ snapshot = Discovered(files, overrides)
    /\ lifecycle = Nobody
    /\ at = [h \in Handlers |-> "idle"]
    /\ saw = [h \in Handlers |-> snapshot]
    /\ chosen \in [Handlers -> Ids]
    /\ disks = {files}

-----------------------------------------------------------------------------
(* An edit: PUT of a radargram's or a group's properties *)

\* overrides::update, conditional on the version it read.
EditWrites(e) ==
    /\ at[e] = "idle"
    /\ chosen[e] \in Entries(snapshot)
    /\ \E s \in Settings :
          overrides' = [overrides EXCEPT !.settings[chosen[e]] = s]
    /\ at' = [at EXCEPT ![e] = "written"]
    /\ UNCHANGED <<files, snapshot, lifecycle, saw, chosen, disks>>

\* refresh_catalog reads the document back.
EditReads(e) ==
    /\ at[e] = "written"
    /\ saw' = [saw EXCEPT ![e].says = overrides]
    /\ at' = [at EXCEPT ![e] = "read"]
    /\ UNCHANGED <<files, overrides, snapshot, lifecycle, chosen, disks>>

\* It takes the snapshot there is, radargrams and services.
EditLooks(e) ==
    /\ at[e] = "read"
    /\ saw' = [saw EXCEPT ![e] = [snapshot EXCEPT !.says = saw[e].says]]
    /\ at' = [at EXCEPT ![e] = "looked"]
    /\ UNCHANGED <<files, overrides, snapshot, lifecycle, chosen, disks>>

\* Seeded fault: the services are taken from a second look.
EditReplacesTorn(e) ==
    /\ at[e] = "looked"
    /\ snapshot' = [saw[e] EXCEPT !.services = snapshot.services]
    /\ at' = [at EXCEPT ![e] = "ended"]
    /\ UNCHANGED <<files, overrides, lifecycle, saw, chosen, disks>>

\* replace_catalog, with the same radargrams resolved anew.
EditReplaces(e) ==
    /\ at[e] = "looked"
    /\ snapshot' = saw[e]
    /\ at' = [at EXCEPT ![e] = "ended"]
    /\ UNCHANGED <<files, overrides, lifecycle, saw, chosen, disks>>

-----------------------------------------------------------------------------
(* A change of which radargrams exist *)

\* Seeded fault: the lock is not waited for.
TakeLockAnyway(c) ==
    /\ at[c] = "idle"
    /\ lifecycle' = c
    /\ at' = [at EXCEPT ![c] = "locked"]
    /\ UNCHANGED <<files, overrides, snapshot, saw, chosen, disks>>

TakeLock(c) ==
    /\ at[c] = "idle"
    /\ lifecycle = Nobody
    /\ lifecycle' = c
    /\ at' = [at EXCEPT ![c] = "locked"]
    /\ UNCHANGED <<files, overrides, snapshot, saw, chosen, disks>>

\* A replacement or a removal closes the radargram: it looks at the snapshot.
CloseLooks(c) ==
    /\ at[c] = "locked"
    /\ chosen[c] \in Entries(snapshot)
    /\ saw' = [saw EXCEPT ![c] = [snapshot EXCEPT !.services[chosen[c]] = Gone]]
    /\ at' = [at EXCEPT ![c] = "closing"]
    /\ UNCHANGED <<files, overrides, snapshot, lifecycle, chosen, disks>>

\* And swaps in one without the radargram's service.
CloseReplaces(c) ==
    /\ at[c] = "closing"
    /\ snapshot' = saw[c]
    /\ at' = [at EXCEPT ![c] = "closed"]
    /\ UNCHANGED <<files, overrides, lifecycle, saw, chosen, disks>>

\* The new revision is renamed over the old, or the file is unlinked.
ReplaceOrRemove(c) ==
    /\ at[c] = "closed"
    /\ Cardinality(disks) < MaxDisks
    /\ \E r \in (Revisions \cup {Gone}) \ {files[chosen[c]]} :
          /\ files' = [files EXCEPT ![chosen[c]] = r]
          /\ disks' = disks \cup {files'}
    /\ at' = [at EXCEPT ![c] = "changed"]
    /\ UNCHANGED <<overrides, snapshot, lifecycle, saw, chosen>>

\* install_locked: a radargram the catalog lacks, and does not ignore.
Install(c) ==
    /\ at[c] = "locked"
    /\ Cardinality(disks) < MaxDisks
    /\ chosen[c] \notin Entries(snapshot)
    /\ chosen[c] \notin overrides.ignored
    /\ \E r \in Revisions : files' = [files EXCEPT ![chosen[c]] = r]
    /\ disks' = disks \cup {files'}
    /\ at' = [at EXCEPT ![c] = "changed"]
    /\ UNCHANGED <<overrides, snapshot, lifecycle, saw, chosen>>

\* A radargram outside the project is ignored instead of removed.
Ignore(c) ==
    /\ at[c] = "locked"
    /\ chosen[c] \in Entries(snapshot)
    /\ overrides' = [overrides EXCEPT !.ignored = @ \cup {chosen[c]}]
    /\ at' = [at EXCEPT ![c] = "changed"]
    /\ UNCHANGED <<files, snapshot, lifecycle, saw, chosen, disks>>

\* restore_dataset lifts an ignore.
Unignore(c) ==
    /\ at[c] = "locked"
    /\ chosen[c] \in overrides.ignored
    /\ overrides' = [overrides EXCEPT !.ignored = @ \ {chosen[c]}]
    /\ at' = [at EXCEPT ![c] = "changed"]
    /\ UNCHANGED <<files, snapshot, lifecycle, saw, chosen, disks>>

\* Every other answer lets the lock go: the handler refused.
Refuse(c) ==
    /\ at[c] \in {"locked", "closed"}
    /\ lifecycle' = Nobody
    /\ at' = [at EXCEPT ![c] = "idle"]
    /\ UNCHANGED <<files, overrides, snapshot, saw, chosen, disks>>

\* rediscover reads the overrides first.
RediscoverReads(c) ==
    /\ at[c] = "changed"
    /\ saw' = [saw EXCEPT ![c].says = overrides]
    /\ at' = [at EXCEPT ![c] = "reading"]
    /\ UNCHANGED <<files, overrides, snapshot, lifecycle, chosen, disks>>

\* Then it walks the roots.
RediscoverWalks(c) ==
    /\ at[c] = "reading"
    /\ saw' = [saw EXCEPT ![c] = Discovered(files, saw[c].says)]
    /\ at' = [at EXCEPT ![c] = "walked"]
    /\ UNCHANGED <<files, overrides, snapshot, lifecycle, chosen, disks>>

\* And last it swaps the catalog, and the handler ends.
RediscoverReplaces(c) ==
    /\ at[c] = "walked"
    /\ snapshot' = saw[c]
    /\ lifecycle' = Nobody
    /\ at' = [at EXCEPT ![c] = "idle"]
    /\ UNCHANGED <<files, overrides, saw, chosen, disks>>

-----------------------------------------------------------------------------

EditSteps(e) ==
    EditWrites(e) \/ EditReads(e) \/ EditLooks(e) \/ EditReplaces(e)

ChangeSteps(c) ==
    \/ TakeLock(c) \/ CloseLooks(c) \/ CloseReplaces(c) \/ ReplaceOrRemove(c)
    \/ Install(c) \/ Ignore(c) \/ Unignore(c) \/ Refuse(c)
    \/ RediscoverReads(c) \/ RediscoverWalks(c) \/ RediscoverReplaces(c)

Next ==
    \/ \E e \in Edits : EditSteps(e)
    \/ \E c \in Changes : ChangeSteps(c)

Spec == Init /\ [][Next]_vars

-----------------------------------------------------------------------------

CatalogTypeOK ==
    /\ files \in Disks
    /\ overrides \in Overrides
    /\ snapshot \in Snapshots
    /\ lifecycle \in Changes \cup {Nobody}
    /\ at \in [Handlers -> {"idle", "ended", "written", "read", "looked", "locked",
                            "closing", "closed", "changed", "reading", "walked"}]
    /\ saw \in [Handlers -> Snapshots]
    /\ chosen \in [Handlers -> Ids]

\* What a catalog says comes from one disk: it may be of an older one, but a
\* radargram that was renamed away and the one that took its place are never
\* both in it, or both missing. And each entry's service, where one is open,
\* is of the entry's revision: nobody renders one generation's entry with the
\* next one's service.
OneGeneration ==
    /\ snapshot.found \in disks
    /\ \A id \in Ids : snapshot.services[id] \in {Gone, snapshot.found[id]}

AllEnded == \A h \in Handlers : at[h] \in {"idle", "ended"}

\* The lifecycle lock is enough for those that take it: as long as nobody has
\* edited the overrides, the catalog lists what is on disk, at the revisions
\* that are there, and hides what is ignored, once every handler has ended.
UneditedIsShown ==
    AllEnded /\ (\A e \in Edits : at[e] = "idle")
       => snapshot.found = files /\ snapshot.says = overrides

\* Once every handler has ended, the catalog lists what is on disk, at the
\* revisions that are there.
EntriesAreOnDisk == AllEnded => snapshot.found = files

\* Once every handler has ended, every entry has its service: one without is
\* listed and cannot be looked at (replace_catalog's comment, and
\* remove_locked's: an error "leaves the radargram served").
EntriesAreServed ==
    AllEnded => \A id \in Entries(snapshot) : snapshot.services[id] # Gone
=============================================================================
