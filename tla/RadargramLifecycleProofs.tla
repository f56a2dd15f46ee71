----------------------- MODULE RadargramLifecycleProofs -----------------------
(***************************************************************************)
(* That nothing drawn on a radargram is lost, that what was drawn can be   *)
(* placed, and that what is remembered of its revisions is what happened,  *)
(* for any revisions, axes, people, staged files and documents.            *)
(***************************************************************************)
EXTENDS RadargramLifecycle, TLAPS

Steps  == {"idle", "committing", "replaced", "removing", "removed", "added"}
Phases == {"free", "arriving", "staged"}

FilesTyped ==
    /\ disk \in Revisions \cup {None} /\ served \in Revisions \cup {None}
    /\ past \in SUBSET Revisions

RecordsTyped == kept \in [Revisions -> Grids \cup {None}] /\ ledger \in [Revisions -> Ages]

PicksTyped ==
    /\ source \in [Documents -> Revisions \cup {None}]
    /\ owner \in [Documents -> Users \cup {None}]
    /\ live \in [Users -> Drawn \cup {0}]
    /\ archived \in SUBSET Drawn /\ parted \in SUBSET Drawn
    /\ page \in [Users -> [revision : Revisions \cup {None}, doc : Drawn \cup {0}]]
    /\ \A n \in Drawn : owner[n] \in Users
    /\ \A u \in Users : page[u].revision = None => page[u] = Closed

StagingTyped ==
    /\ staged \in [Tokens -> [phase : Phases, from : Revisions \cup {None},
                              to : Revisions \cup {None}]]
    /\ op \in [kind : Steps, about : Tokens \cup Revisions \cup {None}]
    /\ \A t \in Tokens : IF staged[t].phase = "free" THEN staged[t] = Free
                                                     ELSE staged[t].to \in Revisions
    /\ op.kind = "idle" => op = Idle
    /\ op.kind = "committing" => op.about \in Tokens /\ staged[op.about].phase = "staged"
    /\ op.kind \in {"replaced", "added"} => op.about \in Revisions

Typed == FilesTyped /\ RecordsTyped /\ PicksTyped /\ StagingTyped

LEMMA TypedIsTypeOK == Typed => LifecycleTypeOK
<1> SUFFICES ASSUME Typed PROVE LifecycleTypeOK OBVIOUS
<1>1. \A t \in Tokens : /\ staged[t].phase \in {"free", "arriving", "staged"}
                        /\ staged[t].phase = "free" <=> staged[t] = Free
    BY DEF Typed, StagingTyped, Phases, Free
<1> QED
    BY <1>1 DEF Typed, FilesTyped, RecordsTyped, PicksTyped, StagingTyped, LifecycleTypeOK

-----------------------------------------------------------------------------
(* What the ledger and the axes come to *)

\* What each note of the ledger does to what it says of each revision.
LEMMA Notes ==
    ASSUME NEW l \in [Revisions -> Ages], NEW r \in Revisions
    PROVE  /\ NoteCurrent(l, r) \in [Revisions -> Ages]
           /\ \A q \in Revisions : NoteCurrent(l, r)[q] =
                 IF q = r /\ l[q] = "unknown" THEN "current" ELSE l[q]
           /\ NoteCurrentAgain(l, r) \in [Revisions -> Ages]
           /\ \A q \in Revisions : NoteCurrentAgain(l, r)[q] =
                 IF q = r THEN "current" ELSE l[q]
BY DEF NoteCurrent, NoteCurrentAgain, Ages

LEMMA NotesDiscovered ==
    ASSUME NEW l \in [Revisions -> Ages], NEW r \in Revisions
    PROVE  /\ NoteDiscovered(l, r) \in [Revisions -> Ages]
           /\ \A q \in Revisions : NoteDiscovered(l, r)[q] =
                 IF q # r /\ l[q] = "current" THEN "ended"
                 ELSE IF q = r /\ l[q] = "unknown" THEN "current" ELSE l[q]
<1> DEFINE noted == NoteCurrent(l, r)
<1>1. /\ noted \in [Revisions -> Ages]
      /\ \A q \in Revisions : noted[q] = IF q = r /\ l[q] = "unknown" THEN "current" ELSE l[q]
    BY Notes
<1>2. NoteDiscovered(l, r) =
        [q \in Revisions |-> IF q # r /\ l[q] = "current" THEN "ended" ELSE noted[q]]
    BY DEF NoteDiscovered
<1> HIDE DEF noted
<1> QED BY <1>1, <1>2 DEF Ages

LEMMA Superseded ==
    ASSUME NEW l \in [Revisions -> Ages], NEW r \in Revisions, NEW by \in Revisions \cup {None}
    PROVE  /\ Supersede(l, r, by) \in [Revisions -> Ages]
           /\ \A q \in Revisions : Supersede(l, r, by)[q] =
                 IF q = r THEN "ended"
                 ELSE IF q = by /\ l[q] = "unknown" THEN "current" ELSE l[q]
<1> DEFINE ended == [l EXCEPT ![r] = "ended"]
<1>1. /\ ended \in [Revisions -> Ages]
      /\ \A q \in Revisions : ended[q] = IF q = r THEN "ended" ELSE l[q]
    BY DEF Ages
<1>2. CASE by = None
    BY <1>1, <1>2, NoneAssumption DEF Supersede
<1>3. CASE by \in Revisions
  <2>1. by # None BY <1>3, NoneAssumption
  <2>2. Supersede(l, r, by) = NoteCurrent(ended, by) BY <2>1 DEF Supersede
  <2> HIDE DEF ended
  <2> QED BY <1>1, <1>3, <2>2, Notes
<1> QED BY <1>2, <1>3

\* What a discovery leaves: the catalog lists the file, the ledger has its
\* revision as current if it had not heard of it, and no other; its axes are
\* kept, which only a failure prevents; and of what was kept nothing goes but
\* what no document names and what ended long ago.
LEMMA WhatDiscoveryLeaves ==
    ASSUME FilesTyped, RecordsTyped, NEW l \in [Revisions -> Ages], NEW startup \in BOOLEAN,
           Discovers(l, startup)
    PROVE  /\ served' = disk /\ ledger' \in [Revisions -> Ages]
           /\ kept' \in [Revisions -> Grids \cup {None}]
           /\ disk = None => ledger' = l
           /\ disk # None => \A q \in Revisions : ledger'[q] =
                 IF q # disk /\ l[q] = "current" THEN "ended"
                 ELSE IF q = disk /\ l[q] = "unknown" THEN "current" ELSE l[q]
           /\ \A r \in Revisions : r # disk =>
                 \/ kept'[r] = kept[r]
                 \/ kept'[r] = None /\ r \notin Named /\ ledger'[r] = "long ended"
           /\ disk # None =>
                 \/ kept'[disk] = kept[disk]
                 \/ kept[disk] = None /\ kept'[disk] = GridOf[disk]
           /\ disk # None /\ ~KeepFails /\ kept[disk] = None => kept'[disk] = GridOf[disk]
<1>1. served' = disk /\ ledger' = IF disk = None THEN l ELSE NoteDiscovered(l, disk)
    BY DEF Discovers
<1>2. /\ ledger' \in [Revisions -> Ages]
      /\ disk = None => ledger' = l
      /\ disk # None => \A q \in Revisions : ledger'[q] =
            IF q # disk /\ l[q] = "current" THEN "ended"
            ELSE IF q = disk /\ l[q] = "unknown" THEN "current" ELSE l[q]
    BY <1>1, NotesDiscovered DEF FilesTyped
<1>3. PICK k \in KeptNew : /\ k = kept => KeepFails \/ KeptNew = {kept}
                           /\ kept' = IF k # kept \/ startup THEN Swept(k, ledger') ELSE k
    BY DEF Discovers
<1>4. /\ k \in [Revisions -> Grids \cup {None}]
      /\ \A r \in Revisions : r # disk => k[r] = kept[r]
      /\ disk # None => k[disk] = kept[disk] \/ (kept[disk] = None /\ k[disk] = GridOf[disk])
    BY <1>3, GridAssumption DEF KeptNew, RecordsTyped, FilesTyped
<1>5. disk # None /\ ~KeepFails /\ kept[disk] = None => k[disk] = GridOf[disk]
  <2>1. SUFFICES ASSUME disk # None, ~KeepFails, kept[disk] = None, GridOf[disk] # None
                 PROVE  k[disk] = GridOf[disk]
    BY <1>4
  <2>2. [kept EXCEPT ![disk] = GridOf[disk]] \in KeptNew BY <2>1 DEF KeptNew
  <2>3. [kept EXCEPT ![disk] = GridOf[disk]] # kept BY <2>1 DEF RecordsTyped, FilesTyped
  <2>4. k # kept BY <1>3, <2>1, <2>2, <2>3
  <2> QED BY <1>3, <2>1, <2>4 DEF KeptNew, RecordsTyped, FilesTyped
<1>6. /\ kept' \in [Revisions -> Grids \cup {None}]
      /\ \A r \in Revisions :
            \/ kept'[r] = k[r]
            \/ r # disk /\ kept'[r] = None /\ r \notin Named /\ ledger'[r] = "long ended"
  <2>1. CASE kept' = k BY <2>1, <1>4
  <2>2. CASE kept' = Swept(k, ledger') BY <2>2, <1>4 DEF Swept
  <2> QED BY <1>3, <2>1, <2>2
<1> HIDE DEF Named
<1>7. \A r \in Revisions : r # disk =>
         \/ kept'[r] = kept[r]
         \/ kept'[r] = None /\ r \notin Named /\ ledger'[r] = "long ended"
    BY <1>4, <1>6
<1>8. disk # None => disk \in Revisions BY DEF FilesTyped
<1>9. disk # None => kept'[disk] = k[disk] BY <1>6, <1>8
<1> QED BY <1>1, <1>2, <1>4, <1>5, <1>6, <1>7, <1>9

-----------------------------------------------------------------------------
(* Every step leaves everything of its type *)

\* What adopting, saving, deleting and the like do not touch.
Kept == <<onDisk, served, records, staged, op>>

\* What is done to the picks and the pages alone.
Picking ==
    \/ \E u \in Users : \/ OpensViewer(u) \/ ClosesViewer(u)
                        \/ Saves(u) \/ Adopts(u) \/ Deletes(u) \/ Archives(u)
    \/ \E n \in Documents : Restores(n) \/ Purges(n)

LEMMA PickingKeeps == Picking => UNCHANGED Kept
BY DEF Picking, Kept, OpensViewer, ClosesViewer, Saves, Adopts, Deletes, Archives, Restores, Purges

\* What is done to the staged files alone.
Staging == \E t \in Tokens : StageStarts(t) \/ StageArrives(t) \/ StageEnds(t)

\* The kinds of step there are.
LEMMA Kinds ==
    ASSUME Next
    PROVE  \/ Picking \/ Staging \/ (\E t \in Tokens : CommitKeeps(t)) \/ RemoveKeeps
           \/ CommitInstalls \/ CommitFails \/ CommitRecords \/ RemoveRecords \/ AddRecords \/ Restarts
           \/ (\E u \in Users : RemoveArchives(u)) \/ RemoveUnlinks \/ RemoveFails \/ AddInstalls
           \/ ReplacedOnDisk \/ (\E r \in Revisions : MonthPasses(r))
BY DEF Next, Picking, Staging

\* Handlers that read the file's axes and keep them.
LEMMA KeepingAxes ==
    ASSUME Typed,
           (\E t \in Tokens : CommitKeeps(t)) \/ RemoveKeeps
    PROVE  /\ kept' \in [Revisions -> Grids \cup {None}] /\ ledger' \in [Revisions -> Ages]
           /\ \A r \in Revisions : r # served => kept'[r] = kept[r]
           /\ kept'[served] = kept[served] \/ (CanKeep(served, GridOf[disk]) /\ kept'[served] = GridOf[disk])
           /\ GridOf[disk] = None \/ kept'[served] = GridOf[disk]
           /\ \A r \in Revisions : ledger'[r] = ledger[r] \/
                 (r = served /\ ledger[r] = "unknown" /\ ledger'[r] = "current")
<1>1. served \in Revisions /\ disk \in Revisions
    BY DEF Typed, FilesTyped, CommitKeeps, RemoveKeeps
<1>2. \/ UNCHANGED records /\ GridOf[disk] = None
      \/ /\ CanKeep(served, GridOf[disk])
         /\ kept' = [kept EXCEPT ![served] = GridOf[disk]]
         /\ ledger' = NoteCurrent(ledger, served)
    BY DEF CommitKeeps, RemoveKeeps
<1>3. CASE UNCHANGED records /\ GridOf[disk] = None
    BY <1>3 DEF Typed, RecordsTyped, records
<1>4. CASE /\ CanKeep(served, GridOf[disk])
           /\ kept' = [kept EXCEPT ![served] = GridOf[disk]]
           /\ ledger' = NoteCurrent(ledger, served)
  <2>1. /\ ledger' \in [Revisions -> Ages]
        /\ \A r \in Revisions : ledger'[r] = IF r = served /\ ledger[r] = "unknown"
                                                THEN "current" ELSE ledger[r]
    BY <1>1, <1>4, Notes DEF Typed, RecordsTyped
  <2> QED BY <1>1, <1>4, <2>1, GridAssumption DEF Typed, RecordsTyped
<1> QED BY <1>2, <1>3, <1>4

\* What a discovery is after: a restart, or what a handler ends with.
Discovery(l, startup) ==
    \/ CommitRecords /\ l = Supersede(ledger, served, op.about) /\ startup = FALSE
    \/ RemoveRecords /\ l = Supersede(ledger, served, None) /\ startup = FALSE
    \/ AddRecords /\ l = NoteCurrentAgain(ledger, op.about) /\ startup = FALSE
    \/ Restarts /\ l = ledger /\ startup = TRUE

\* Who holds the lock, and what the catalog and the disk have meanwhile.
Held ==
    /\ op.kind \in {"committing", "replaced", "removing", "removed"} => served # None
    /\ op.kind = "added" => served = None
    /\ op.kind = "removed" => disk = None
    /\ disk = None => served = None \/ op.kind = "removed"
    /\ ~External /\ op.kind \in {"idle", "committing", "removing"} => disk = served

Sound == Typed /\ Held

LEMMA DiscoveryKeeps ==
    ASSUME Sound, NEW l, NEW startup, Discovery(l, startup)
    PROVE  /\ l \in [Revisions -> Ages] /\ startup \in BOOLEAN /\ Discovers(l, startup)
           /\ UNCHANGED <<onDisk, picks>> /\ op' = Idle
           /\ UNCHANGED staged \/ staged' = [t \in Tokens |->
                 IF staged[t].phase = "arriving" THEN Free ELSE staged[t]]
<1>1. served \in Revisions \cup {None} /\ ledger \in [Revisions -> Ages]
    BY DEF Sound, Typed, FilesTyped, RecordsTyped
<1>2. CASE CommitRecords /\ l = Supersede(ledger, served, op.about) /\ startup = FALSE
  <2>1. served \in Revisions /\ op.about \in Revisions
    BY <1>1, <1>2 DEF Sound, Typed, StagingTyped, Held, CommitRecords
  <2> QED BY <1>1, <1>2, <2>1, Superseded DEF CommitRecords
<1>3. CASE RemoveRecords /\ l = Supersede(ledger, served, None) /\ startup = FALSE
  <2>1. served \in Revisions BY <1>1, <1>3 DEF Sound, Held, RemoveRecords
  <2> QED BY <1>1, <1>3, <2>1, Superseded DEF RemoveRecords
<1>4. CASE AddRecords /\ l = NoteCurrentAgain(ledger, op.about) /\ startup = FALSE
  <2>1. op.about \in Revisions BY <1>4 DEF Sound, Typed, StagingTyped, AddRecords
  <2> QED BY <1>1, <1>4, <2>1, Notes DEF AddRecords
<1>5. CASE Restarts /\ l = ledger /\ startup = TRUE
    BY <1>1, <1>5 DEF Restarts
<1> QED BY <1>2, <1>3, <1>4, <1>5 DEF Discovery

LEMMA DiscoveryIsSound ==
    ASSUME Sound, NEW l, NEW startup, Discovery(l, startup)
    PROVE  Sound'
<1>1. /\ l \in [Revisions -> Ages] /\ startup \in BOOLEAN /\ Discovers(l, startup)
      /\ UNCHANGED <<onDisk, picks>> /\ op' = Idle
      /\ UNCHANGED staged \/ staged' = [t \in Tokens |->
            IF staged[t].phase = "arriving" THEN Free ELSE staged[t]]
    BY DiscoveryKeeps
<1>2. served' = disk /\ ledger' \in [Revisions -> Ages] /\ kept' \in [Revisions -> Grids \cup {None}]
    BY <1>1, WhatDiscoveryLeaves DEF Sound, Typed
<1>3. FilesTyped' /\ RecordsTyped'
    BY <1>1, <1>2 DEF Sound, Typed, FilesTyped, RecordsTyped, onDisk
<1>4. PicksTyped'
    BY <1>1 DEF Sound, Typed, PicksTyped, picks, Drawn
<1>5. StagingTyped'
  <2>1. StagingTyped BY DEF Sound, Typed
  <2>2. op' \in [kind : Steps, about : Tokens \cup Revisions \cup {None}] /\ op'.kind = "idle"
    BY <1>1 DEF Idle, Steps
  <2>3. /\ staged' \in [Tokens -> [phase : Phases, from : Revisions \cup {None},
                              to : Revisions \cup {None}]]
        /\ \A t \in Tokens : IF staged'[t].phase = "free" THEN staged'[t] = Free
                                                     ELSE staged'[t].to \in Revisions
    <3>1. CASE UNCHANGED staged BY <2>1, <3>1 DEF StagingTyped
    <3>2. CASE staged' = [t \in Tokens |-> IF staged[t].phase = "arriving" THEN Free ELSE staged[t]]
        BY <2>1, <3>2 DEF StagingTyped, Phases, Free
    <3> QED BY <1>1, <3>1, <3>2
  <2> QED BY <1>1, <2>2, <2>3 DEF StagingTyped
<1>6. Held'
    BY <1>1, <1>2 DEF Held, Idle, onDisk
<1> QED BY <1>3, <1>4, <1>5, <1>6 DEF Sound, Typed

LEMMA StagingIsSound ==
    ASSUME Sound, Staging
    PROVE  /\ Sound' /\ UNCHANGED <<onDisk, served, records, picks, op>>
           /\ op.kind = "committing" => staged'[op.about] = staged[op.about]
<1>1. UNCHANGED <<onDisk, served, records, picks, op>>
    BY DEF Staging, StageStarts, StageArrives, StageEnds
<1>2. FilesTyped' /\ RecordsTyped' /\ PicksTyped' /\ Held'
    BY <1>1 DEF Sound, Typed, Held, FilesTyped, RecordsTyped, PicksTyped, Drawn, onDisk, records, picks
<1>3. /\ staged' \in [Tokens -> [phase : Phases, from : Revisions \cup {None}, to : Revisions \cup {None}]]
      /\ \A t \in Tokens : IF staged'[t].phase = "free" THEN staged'[t] = Free
                                                   ELSE staged'[t].to \in Revisions
      /\ op.kind = "committing" => staged'[op.about] = staged[op.about]
  <2>1. PICK t \in Tokens : StageStarts(t) \/ StageArrives(t) \/ StageEnds(t) BY DEF Staging
  <2>2. CASE StageStarts(t)
    <3>1. PICK r \in Incoming("replaced"), old \in SUBSET {x \in Tokens : staged[x].phase = "staged"} :
             staged' = [x \in Tokens |->
                IF x = t THEN [Free EXCEPT !.phase = "arriving", !.from = served, !.to = r]
                ELSE IF x \in old THEN Free ELSE staged[x]]
        BY <2>2 DEF StageStarts
    <3>2. r \in Revisions /\ served \in Revisions \cup {None}
        BY <3>1 DEF Incoming, Sound, Typed, FilesTyped
    <3>3. Free \in [phase : Phases, from : Revisions \cup {None}, to : Revisions \cup {None}]
        BY DEF Free, Phases
    <3> DEFINE arriving == [Free EXCEPT !.phase = "arriving", !.from = served, !.to = r]
    <3>4. /\ arriving \in [phase : Phases, from : Revisions \cup {None}, to : Revisions \cup {None}]
          /\ arriving.phase = "arriving" /\ arriving.to = r
        BY <3>2, <3>3 DEF Phases
    <3> HIDE DEF arriving
    <3>5. op.kind # "committing" BY <2>2 DEF StageStarts, Unlocked, Idle
    <3>6. staged' = [x \in Tokens |-> IF x = t THEN arriving ELSE IF x \in old THEN Free ELSE staged[x]]
        BY <3>1 DEF arriving
    <3> QED BY <3>2, <3>3, <3>4, <3>5, <3>6 DEF Sound, Typed, StagingTyped, Phases, Free
  <2>3. CASE StageArrives(t)
    <3>1. op.kind # "committing" BY <2>3 DEF StageArrives, Unlocked, Idle
    <3>2. staged' = [staged EXCEPT ![t] = [staged[t] EXCEPT !.phase = "staged"]]
          /\ staged[t].phase = "arriving"
        BY <2>3 DEF StageArrives
    <3> QED BY <2>1, <3>1, <3>2 DEF Sound, Typed, StagingTyped, Phases
  <2>4. CASE StageEnds(t)
    <3>1. op.kind = "committing" => t # op.about
        BY <2>4 DEF StageEnds, Unlocked, Idle, Sound, Typed, StagingTyped
    <3>2. staged' = [staged EXCEPT ![t] = Free] BY <2>4 DEF StageEnds
    <3> QED BY <2>1, <3>1, <3>2 DEF Sound, Typed, StagingTyped, Phases, Free
  <2> QED BY <2>1, <2>2, <2>3, <2>4
<1>4. StagingTyped'
    BY <1>1, <1>3 DEF Sound, Typed, StagingTyped
<1> QED BY <1>1, <1>2, <1>3, <1>4 DEF Sound, Typed

\* The commit and the removal, before and after they write.
LEMMA HandlersAreSound ==
    ASSUME Sound,
           \/ (\E t \in Tokens : CommitKeeps(t)) \/ RemoveKeeps \/ CommitInstalls \/ CommitFails
           \/ (\E u \in Users : RemoveArchives(u)) \/ RemoveUnlinks \/ RemoveFails \/ AddInstalls
    PROVE  Sound'
<1> USE DEF Sound, Typed
<1>1. ASSUME NEW t \in Tokens, CommitKeeps(t) PROVE Sound'
  <2>1. RecordsTyped' BY <1>1, KeepingAxes DEF RecordsTyped
  <2>2. FilesTyped' /\ PicksTyped'
    BY <1>1 DEF CommitKeeps, FilesTyped, PicksTyped, Drawn, onDisk, picks
  <2>3. StagingTyped'
    BY <1>1 DEF CommitKeeps, StagingTyped, Steps
  <2>4. Held' BY <1>1 DEF CommitKeeps, Held, onDisk, Unlocked, Idle
  <2> QED BY <2>1, <2>2, <2>3, <2>4
<1>2. ASSUME RemoveKeeps PROVE Sound'
  <2>1. RecordsTyped' BY <1>2, KeepingAxes DEF RecordsTyped
  <2>2. FilesTyped' /\ PicksTyped'
    BY <1>2 DEF RemoveKeeps, FilesTyped, PicksTyped, Drawn, onDisk, picks
  <2>3. StagingTyped'
    BY <1>2 DEF RemoveKeeps, StagingTyped, Steps
  <2>4. Held' BY <1>2 DEF RemoveKeeps, Held, onDisk, Unlocked, Idle
  <2> QED BY <2>1, <2>2, <2>3, <2>4
<1>3. ASSUME CommitInstalls PROVE Sound'
  <2>1. op.about \in Tokens /\ staged[op.about].to \in Revisions
    BY <1>3 DEF CommitInstalls, StagingTyped
  <2>2. FilesTyped' BY <1>3, <2>1 DEF CommitInstalls, FilesTyped
  <2>3. RecordsTyped' /\ PicksTyped'
    BY <1>3 DEF CommitInstalls, RecordsTyped, PicksTyped, Drawn, records, picks
  <2>4. StagingTyped'
    <3>1. op' \in [kind : Steps, about : Tokens \cup Revisions \cup {None}]
          /\ op'.kind = "replaced" /\ op'.about \in Revisions
        BY <1>3, <2>1 DEF CommitInstalls, Steps
    <3>2. staged' = [staged EXCEPT ![op.about] = Free] BY <1>3 DEF CommitInstalls
    <3> QED BY <2>1, <3>1, <3>2 DEF StagingTyped, Phases, Free
  <2>5. Held' BY <1>3, <2>1, NoneAssumption DEF CommitInstalls, Held
  <2> QED BY <2>2, <2>3, <2>4, <2>5
<1>4. ASSUME CommitFails PROVE Sound'
  <2>1. FilesTyped' /\ RecordsTyped' /\ PicksTyped'
    BY <1>4 DEF CommitFails, FilesTyped, RecordsTyped, PicksTyped, Drawn, onDisk, records, picks
  <2>2. StagingTyped'
    <3>1. op' \in [kind : Steps, about : Tokens \cup Revisions \cup {None}] /\ op' = Idle
        BY <1>4 DEF CommitFails, Steps, Idle
    <3>2. staged' = [staged EXCEPT ![op.about] = Free] BY <1>4 DEF CommitFails
    <3> QED BY <3>1, <3>2 DEF StagingTyped, Phases, Free, Idle
  <2>3. Held' BY <1>4 DEF CommitFails, Held, onDisk, Idle
  <2> QED BY <2>1, <2>2, <2>3
<1>5. ASSUME NEW u \in Users, RemoveArchives(u) PROVE Sound'
  <2>1. FilesTyped' /\ RecordsTyped' /\ StagingTyped' /\ Held'
    BY <1>5 DEF RemoveArchives, FilesTyped, RecordsTyped, StagingTyped, Held, onDisk, records
  <2>2. PicksTyped' BY <1>5 DEF RemoveArchives, PicksTyped, Drawn
  <2> QED BY <2>1, <2>2
<1>6. ASSUME RemoveUnlinks PROVE Sound'
  <2>1. FilesTyped' /\ RecordsTyped' /\ PicksTyped'
    BY <1>6 DEF RemoveUnlinks, FilesTyped, RecordsTyped, PicksTyped, Drawn, records, picks
  <2>2. StagingTyped' BY <1>6 DEF RemoveUnlinks, StagingTyped, Steps
  <2>3. Held' BY <1>6 DEF RemoveUnlinks, Held
  <2> QED BY <2>1, <2>2, <2>3
<1>7. ASSUME RemoveFails PROVE Sound'
  <2>1. FilesTyped' /\ RecordsTyped' /\ PicksTyped'
    BY <1>7 DEF RemoveFails, FilesTyped, RecordsTyped, PicksTyped, Drawn, onDisk, records, picks
  <2>2. StagingTyped' BY <1>7 DEF RemoveFails, StagingTyped, Steps, Idle
  <2>3. Held' BY <1>7 DEF RemoveFails, Held, onDisk, Idle
  <2> QED BY <2>1, <2>2, <2>3
<1>8. ASSUME AddInstalls PROVE Sound'
  <2>1. PICK r \in Revisions : disk' = r /\ past' = past \cup {r} /\ op' = [kind |-> "added", about |-> r]
    BY <1>8 DEF AddInstalls, Incoming
  <2>2. FilesTyped' /\ RecordsTyped' /\ PicksTyped'
    BY <1>8, <2>1 DEF AddInstalls, FilesTyped, RecordsTyped, PicksTyped, Drawn, records, picks
  <2>3. StagingTyped' BY <1>8, <2>1 DEF AddInstalls, StagingTyped, Steps
  <2>4. Held' BY <1>8, <2>1, NoneAssumption DEF AddInstalls, Held
  <2> QED BY <2>2, <2>3, <2>4
<1> QED BY <1>1, <1>2, <1>3, <1>4, <1>5, <1>6, <1>7, <1>8

-----------------------------------------------------------------------------
(* What is drawn, and where it is *)

\* Nothing leaves the three places there are; and while there is no radargram
\* to be on, and from the moment a file is removed, none is on it.
Authored ==
    /\ Drawn = Live \cup archived \cup parted
    /\ served = None \/ op.kind = "removed" => Live = {}

\* A new document: whose it is, of which revision, and what is on the radargram.
LEMMA Writing ==
    ASSUME PicksTyped, NEW u \in Users, NEW r \in Revisions, Writes(u, r)
    PROVE  /\ \E n \in Documents \ Drawn :
                 /\ Drawn' = Drawn \cup {n} /\ n # 0
                 /\ live' \in [Users -> Drawn' \cup {0}] /\ live' = [live EXCEPT ![u] = n]
                 /\ page' = [page EXCEPT ![u] = [revision |-> r, doc |-> n]]
                 /\ source' = [source EXCEPT ![n] = r]
           /\ source' \in [Documents -> Revisions \cup {None}]
           /\ owner' \in [Documents -> Users \cup {None}]
           /\ \A n \in Drawn' : owner'[n] \in Users
           /\ page' \in [Users -> [revision : Revisions \cup {None}, doc : Drawn' \cup {0}]]
           /\ \A v \in Users : page'[v].revision = None => page'[v] = Closed
           /\ \A n \in Drawn : source'[n] = source[n]
<1>1. PICK n \in Documents \ Drawn :
         /\ source' = [source EXCEPT ![n] = r]
         /\ owner' = [owner EXCEPT ![n] = u]
         /\ live' = [live EXCEPT ![u] = n]
         /\ page' = [page EXCEPT ![u] = [revision |-> r, doc |-> n]]
    BY DEF Writes
<1>2. n # 0 BY BoundAssumption DEF Documents
<1>3. r # None BY NoneAssumption
<1>4. Drawn' = Drawn \cup {n}
    BY <1>1, <1>3 DEF Drawn, PicksTyped
<1>5. /\ source' \in [Documents -> Revisions \cup {None}]
      /\ owner' \in [Documents -> Users \cup {None}]
      /\ \A m \in Drawn : source'[m] = source[m]
    BY <1>1 DEF PicksTyped, Drawn
<1>6. \A m \in Drawn' : owner'[m] \in Users
    BY <1>1, <1>4 DEF PicksTyped, Drawn
<1>7. live' \in [Users -> Drawn' \cup {0}]
    BY <1>1, <1>4 DEF PicksTyped
<1>8. /\ page' \in [Users -> [revision : Revisions \cup {None}, doc : Drawn' \cup {0}]]
      /\ \A v \in Users : page'[v].revision = None => page'[v] = Closed
    BY <1>1, <1>3, <1>4 DEF PicksTyped
<1> QED BY <1>1, <1>2, <1>4, <1>5, <1>6, <1>7, <1>8

\* What a person does with a document on the radargram or in the archive.
LEMMA Moving ==
    ASSUME PicksTyped, NEW u \in Users, NEW d \in Drawn \cup {0}, live' = [live EXCEPT ![u] = d]
    PROVE  /\ live' \in [Users -> Drawn \cup {0}]
           /\ Live' \subseteq Live \cup ({d} \ {0})
           /\ Live \subseteq Live' \cup {live[u]}
           /\ d # 0 => d \in Live'
BY DEF PicksTyped, Live

LEMMA PickingIsTyped == ASSUME PicksTyped, FilesTyped, Picking PROVE PicksTyped'
<1>1. ASSUME NEW u \in Users, OpensViewer(u) PROVE PicksTyped'
  <2>1. page' = [page EXCEPT ![u] = [revision |-> served, doc |-> live[u]]]
        /\ served \in Revisions /\ served # None /\ UNCHANGED <<source, owner, live, archived, parted>>
    BY <1>1 DEF OpensViewer, FilesTyped
  <2>2. Drawn' = Drawn BY <2>1 DEF Drawn
  <2> QED BY <2>1, <2>2 DEF PicksTyped
<1>2. ASSUME NEW u \in Users, ClosesViewer(u) PROVE PicksTyped'
  <2>1. page' = [page EXCEPT ![u] = Closed] /\ UNCHANGED <<source, owner, live, archived, parted>>
    BY <1>2 DEF ClosesViewer
  <2>2. Drawn' = Drawn BY <2>1 DEF Drawn
  <2> QED BY <2>1, <2>2 DEF PicksTyped, Closed
<1>3. ASSUME NEW u \in Users, Saves(u) PROVE PicksTyped'
  <2>1. page[u].revision \in Revisions
    BY <1>3 DEF Saves, Savable, PicksTyped
  <2>2. Writes(u, page[u].revision) /\ UNCHANGED archived /\ parted' = parted \cup ({live[u]} \ {0})
    BY <1>3 DEF Saves
  <2>3. Drawn \subseteq Drawn' /\ live' \in [Users -> Drawn' \cup {0}] BY <2>1, <2>2, Writing
  <2>4. live[u] \in Drawn \cup {0} BY DEF PicksTyped
  <2>5. archived' \in SUBSET Drawn' /\ parted' \in SUBSET Drawn' BY <2>2, <2>3, <2>4 DEF PicksTyped
  <2> QED BY <2>1, <2>2, <2>3, <2>5, Writing DEF PicksTyped
<1>4. ASSUME NEW u \in Users, Adopts(u) PROVE PicksTyped'
  <2>1. served \in Revisions
    BY <1>4 DEF Adopts, Adoptable, FilesTyped
  <2>2. Writes(u, served) /\ UNCHANGED parted /\ archived' = archived \cup {live[u]} /\ live[u] # 0
    BY <1>4 DEF Adopts, Adoptable
  <2>3. Drawn \subseteq Drawn' /\ live' \in [Users -> Drawn' \cup {0}] BY <2>1, <2>2, Writing
  <2>4. live[u] \in Drawn \cup {0} BY DEF PicksTyped
  <2>5. archived' \in SUBSET Drawn' /\ parted' \in SUBSET Drawn' BY <2>2, <2>3, <2>4 DEF PicksTyped
  <2> QED BY <2>1, <2>2, <2>3, <2>5, Writing DEF PicksTyped
<1>5. ASSUME NEW u \in Users, Deletes(u) \/ Archives(u) PROVE PicksTyped'
  <2>1. /\ live' = [live EXCEPT ![u] = 0] /\ UNCHANGED <<source, owner, page>> /\ live[u] # 0
        /\ \/ UNCHANGED archived /\ parted' = parted \cup {live[u]}
           \/ UNCHANGED parted /\ archived' = archived \cup {live[u]}
    BY <1>5 DEF Deletes, Archives
  <2>2. Drawn' = Drawn BY <2>1 DEF Drawn
  <2> QED BY <2>1, <2>2, Moving DEF PicksTyped
<1>6. ASSUME NEW n \in Documents, Restores(n) PROVE PicksTyped'
  <2>1. /\ n \in archived /\ live' = [live EXCEPT ![owner[n]] = n] /\ archived' = archived \ {n}
        /\ UNCHANGED <<source, owner, parted, page>>
    BY <1>6 DEF Restores
  <2>2. Drawn' = Drawn BY <2>1 DEF Drawn
  <2>3. owner[n] \in Users /\ n \in Drawn BY <2>1 DEF PicksTyped
  <2> QED BY <2>1, <2>2, <2>3, Moving DEF PicksTyped
<1>7. ASSUME NEW n \in Documents, Purges(n) PROVE PicksTyped'
  <2>1. /\ n \in archived /\ parted' = parted \cup {n} /\ archived' = archived \ {n}
        /\ UNCHANGED <<source, owner, live, page>>
    BY <1>7 DEF Purges
  <2>2. Drawn' = Drawn BY <2>1 DEF Drawn
  <2> QED BY <2>1, <2>2 DEF PicksTyped
<1> QED BY <1>1, <1>2, <1>3, <1>4, <1>5, <1>6, <1>7 DEF Picking

LEMMA PickingIsAuthored == ASSUME Sound, Authored, Picking PROVE Authored'
<1> PicksTyped /\ FilesTyped BY DEF Sound, Typed
<1>0. /\ UNCHANGED <<served, op>>
      /\ Drawn = Live \cup archived \cup parted
      /\ served = None \/ op.kind = "removed" => Live = {}
    BY PickingKeeps DEF Kept, Authored
<1> HIDE DEF Live
<1>1. ASSUME NEW u \in Users, OpensViewer(u) \/ ClosesViewer(u) PROVE Authored'
    BY <1>0, <1>1 DEF OpensViewer, ClosesViewer, Authored, Live, Drawn
<1>2. ASSUME NEW u \in Users, NEW r \in Revisions, Writes(u, r),
             Unlocked, served # None, archived \cup parted \cup ({live[u]} \ {0}) = archived' \cup parted'
      PROVE  Authored'
  <2>1. PICK n \in Documents \ Drawn :
           Drawn' = Drawn \cup {n} /\ n # 0 /\ live' = [live EXCEPT ![u] = n]
    BY <1>2, Writing
  <2>2. /\ Live' \subseteq Live \cup {n} /\ Live \subseteq Live' \cup {live[u]} /\ n \in Live'
        /\ 0 \notin Live /\ live[u] \in Live \cup {0}
    BY <2>1 DEF Live, PicksTyped
  <2>3. Drawn' = Live' \cup archived' \cup parted'
    BY <1>0, <1>2, <2>1, <2>2
  <2>4. op'.kind = "idle" /\ served' # None BY <1>0, <1>2 DEF Unlocked, Idle
  <2> QED BY <2>3, <2>4 DEF Authored
<1>3. ASSUME NEW u \in Users, Saves(u) PROVE Authored'
  <2>1. page[u].revision \in Revisions BY <1>3 DEF Saves, Savable, PicksTyped
  <2> QED BY <1>2, <1>3, <2>1 DEF Saves
<1>4. ASSUME NEW u \in Users, Adopts(u) PROVE Authored'
  <2>1. served \in Revisions BY <1>4 DEF Adopts, Adoptable, FilesTyped
  <2> QED BY <1>2, <1>4, <2>1 DEF Adopts, Adoptable
<1>5. ASSUME NEW u \in Users, Deletes(u) \/ Archives(u) PROVE Authored'
  <2>1. /\ live' = [live EXCEPT ![u] = 0] /\ UNCHANGED source /\ live[u] # 0
        /\ archived' \cup parted' = archived \cup parted \cup {live[u]}
    BY <1>5 DEF Deletes, Archives
  <2>2. Drawn' = Drawn BY <2>1 DEF Drawn
  <2>3. Live' \subseteq Live /\ Live \subseteq Live' \cup {live[u]} /\ live[u] \in Live
    BY <2>1, Moving DEF Live
  <2> QED BY <1>0, <2>1, <2>2, <2>3 DEF Authored
<1>6. ASSUME NEW n \in Documents, Restores(n) PROVE Authored'
  <2>1. /\ n \in archived /\ live' = [live EXCEPT ![owner[n]] = n] /\ archived' = archived \ {n}
        /\ UNCHANGED <<source, parted>> /\ Unlocked /\ served # None /\ live[owner[n]] = 0
    BY <1>6 DEF Restores
  <2>2. Drawn' = Drawn BY <2>1 DEF Drawn
  <2>3. owner[n] \in Users /\ n \in Drawn /\ n # 0
    BY <2>1, BoundAssumption DEF PicksTyped, Drawn, Documents
  <2>4. Live' \subseteq Live \cup {n} /\ Live \subseteq Live' \cup {0} /\ n \in Live' /\ 0 \notin Live
    BY <2>1, <2>3, Moving DEF Live
  <2>5. op'.kind = "idle" /\ served' # None BY <1>0, <2>1 DEF Unlocked, Idle
  <2> QED BY <1>0, <2>1, <2>2, <2>4, <2>5 DEF Authored
<1>7. ASSUME NEW n \in Documents, Purges(n) PROVE Authored'
  <2>1. /\ n \in archived /\ parted' = parted \cup {n} /\ archived' = archived \ {n}
        /\ UNCHANGED <<source, live>>
    BY <1>7 DEF Purges
  <2>2. Drawn' = Drawn /\ Live' = Live BY <2>1 DEF Drawn, Live
  <2> QED BY <1>0, <2>1, <2>2 DEF Authored
<1> QED BY <1>1, <1>3, <1>4, <1>5, <1>6, <1>7 DEF Picking

\* No step takes a document out of where it is: a commit, a removal, a
\* restart and a month's end touch none, but that a removal archives.
LEMMA OthersAreAuthored ==
    ASSUME Sound, Authored, Next, ~Picking
    PROVE  Authored'
<1> USE DEF Sound, Typed
<1>1. ASSUME UNCHANGED <<source, live, archived, parted>>,
             served' = None \/ op'.kind = "removed" => Live = {}
      PROVE  Authored'
    BY <1>1 DEF Authored, Drawn, Live
<1>2. CASE Staging
    BY <1>1, <1>2, StagingIsSound DEF Authored, picks
<1>3. CASE \E l, startup : Discovery(l, startup)
  <2>1. PICK l, startup : Discovery(l, startup) BY <1>3
  <2>2. UNCHANGED <<onDisk, picks>> /\ op' = Idle /\ Discovers(l, startup) BY <2>1, DiscoveryKeeps
  <2>3. served' = disk BY <2>2 DEF Discovers
  <2> QED BY <1>1, <2>2, <2>3 DEF Idle, picks, Held, Authored
<1>4. CASE \/ (\E t \in Tokens : CommitKeeps(t)) \/ RemoveKeeps \/ CommitFails \/ RemoveFails
           \/ CommitInstalls \/ ReplacedOnDisk \/ (\E r \in Revisions : MonthPasses(r))
  <2>1. UNCHANGED <<served, picks>> /\ (op'.kind # "removed" \/ UNCHANGED op)
    <3>1. CASE (\E t \in Tokens : CommitKeeps(t)) \/ RemoveKeeps
        BY <3>1 DEF CommitKeeps, RemoveKeeps
    <3>2. CASE CommitFails \/ RemoveFails \/ CommitInstalls
        BY <3>2 DEF CommitFails, RemoveFails, CommitInstalls, Idle
    <3>3. CASE ReplacedOnDisk \/ (\E r \in Revisions : MonthPasses(r))
        BY <3>3 DEF ReplacedOnDisk, MonthPasses
    <3> QED BY <1>4, <3>1, <3>2, <3>3
  <2> QED BY <1>1, <2>1 DEF Authored, picks
<1>5. CASE RemoveUnlinks \/ AddInstalls
  <2>1. UNCHANGED picks /\ Live = {}
    BY <1>5 DEF RemoveUnlinks, AddInstalls, Authored
  <2> QED BY <1>1, <2>1 DEF picks
<1>6. ASSUME NEW u \in Users, RemoveArchives(u) PROVE Authored'
  <2>1. /\ live' = [live EXCEPT ![u] = 0] /\ archived' = archived \cup {live[u]} /\ live[u] # 0
        /\ UNCHANGED <<source, parted, served, op>>
    BY <1>6 DEF RemoveArchives
  <2>2. Drawn' = Drawn BY <2>1 DEF Drawn
  <2>3. Live' \subseteq Live /\ Live \subseteq Live' \cup {live[u]} /\ live[u] \in Live
    BY <2>1, Moving DEF Live
  <2> QED BY <2>1, <2>2, <2>3 DEF Authored
<1> QED BY <1>2, <1>3, <1>4, <1>5, <1>6, Kinds DEF Discovery

\* A file put in place outside Ridal, and a month that goes by.
LEMMA OutsideIsSound ==
    ASSUME Sound, ReplacedOnDisk \/ (\E r \in Revisions : MonthPasses(r))
    PROVE  Sound'
<1> USE DEF Sound, Typed
<1>1. ASSUME ReplacedOnDisk PROVE Sound'
  <2>1. PICK r \in Revisions : disk' = r /\ past' = past \cup {r}
    BY <1>1 DEF ReplacedOnDisk
  <2>2. External /\ disk # None /\ UNCHANGED <<served, records, picks, staged, op>>
    BY <1>1 DEF ReplacedOnDisk
  <2>3. FilesTyped' /\ RecordsTyped' /\ PicksTyped' /\ StagingTyped'
    BY <2>1, <2>2 DEF FilesTyped, RecordsTyped, PicksTyped, StagingTyped, Drawn, records, picks
  <2>4. Held' BY <2>1, <2>2, NoneAssumption DEF Held
  <2> QED BY <2>3, <2>4
<1>2. ASSUME NEW r \in Revisions, MonthPasses(r) PROVE Sound'
  <2>1. ledger' = [ledger EXCEPT ![r] = "long ended"] /\ UNCHANGED <<onDisk, served, kept, picks, staged, op>>
    BY <1>2 DEF MonthPasses
  <2>2. RecordsTyped' BY <2>1 DEF RecordsTyped, Ages
  <2>3. FilesTyped' /\ PicksTyped' /\ StagingTyped' /\ Held'
    BY <2>1 DEF FilesTyped, PicksTyped, StagingTyped, Held, Drawn, onDisk, picks
  <2> QED BY <2>2, <2>3
<1> QED BY <1>1, <1>2

LEMMA InitIsSound == Init => Sound /\ Authored
<1> SUFFICES ASSUME Init PROVE Sound /\ Authored OBVIOUS
<1>1. FilesTyped BY DEF Init, FilesTyped
<1>2. RecordsTyped BY GridAssumption DEF Init, RecordsTyped, Ages
<1>3. PicksTyped /\ Drawn = {} BY DEF Init, PicksTyped, Drawn, Closed
<1>4. StagingTyped BY DEF Init, StagingTyped, Free, Idle, Phases, Steps
<1>5. Held BY NoneAssumption DEF Init, Held, Idle
<1>6. Authored BY <1>3 DEF Init, Authored, Live
<1> QED BY <1>1, <1>2, <1>3, <1>4, <1>5, <1>6 DEF Sound, Typed

LEMMA StepsAreSound == ASSUME Sound, Next PROVE Sound'
<1>1. CASE Picking
  <2>1. UNCHANGED Kept BY <1>1, PickingKeeps
  <2>2. PicksTyped' BY <1>1, PickingIsTyped DEF Sound, Typed
  <2> QED BY <2>1, <2>2 DEF Kept, Sound, Typed, FilesTyped, RecordsTyped, StagingTyped, Held, onDisk, records
<1>2. CASE \E l, startup : Discovery(l, startup) BY <1>2, DiscoveryIsSound
<1> QED BY <1>1, <1>2, Kinds, StagingIsSound, HandlersAreSound, OutsideIsSound DEF Discovery

LEMMA StutteringKeeps == ASSUME Sound, Authored, UNCHANGED vars PROVE Sound' /\ Authored'
<1>1. FilesTyped' /\ RecordsTyped' BY DEF vars, onDisk, records, Sound, Typed, FilesTyped, RecordsTyped
<1>2. PicksTyped' BY DEF vars, picks, Sound, Typed, PicksTyped, Drawn
<1>3. StagingTyped' BY DEF vars, Sound, Typed, StagingTyped
<1>4. Held' BY DEF vars, onDisk, Sound, Held
<1>5. Authored' BY DEF vars, picks, Authored, Drawn, Live
<1> QED BY <1>1, <1>2, <1>3, <1>4, <1>5 DEF Sound, Typed

\* What is on disk, what is remembered of it, what people drew and who is at
\* work are always of their type, and a handler finds what it left.
LEMMA AlwaysSound == Spec => [](Sound /\ Authored)
<1>1. Sound /\ Authored /\ [Next]_vars => (Sound /\ Authored)'
    BY StepsAreSound, PickingIsAuthored, OthersAreAuthored, StutteringKeeps
<1> QED BY InitIsSound, <1>1, PTL DEF Spec

\* Type correctness: files, records, picks, pages and staged files are what
\* they should be, and a token is free when its record says so.
THEOREM LifecycleIsTyped == Spec => []LifecycleTypeOK
<1>1. Sound /\ Authored => LifecycleTypeOK BY TypedIsTypeOK DEF Sound
<1> QED BY <1>1, AlwaysSound, PTL

\* Whatever is staged, replaced, removed and added, by Ridal or outside it,
\* with the process stopping anywhere: what was drawn is on the radargram, in
\* the archive, or its owner or an administrator parted with it; and none is
\* on a radargram that is gone.
THEOREM DrawnIsNeverLost == Spec => []NothingAuthoredLost
<1>1. Sound /\ Authored => NothingAuthoredLost BY DEF Authored, NothingAuthoredLost
<1> QED BY <1>1, AlwaysSound, PTL

-----------------------------------------------------------------------------
(* The report a commit acts on *)

\* From the look until the file is in place, the catalog lists the revision
\* the report was made against.
Shown == op.kind = "committing" => staged[op.about].from = served

LEMMA StepsAreShown == ASSUME Sound, Shown, Next PROVE Shown'
<1> USE DEF Shown
<1>1. CASE Picking BY <1>1, PickingKeeps DEF Kept
<1>2. CASE Staging BY <1>2, StagingIsSound
<1>3. ASSUME NEW t \in Tokens, CommitKeeps(t) PROVE Shown'
    BY <1>3 DEF CommitKeeps, Measured
<1>4. CASE RemoveKeeps \/ CommitInstalls \/ CommitFails \/ RemoveUnlinks \/ RemoveFails \/ AddInstalls
    BY <1>4 DEF RemoveKeeps, CommitInstalls, CommitFails, RemoveUnlinks, RemoveFails, AddInstalls, Idle
<1>5. CASE ReplacedOnDisk \/ (\E r \in Revisions : MonthPasses(r)) \/ (\E u \in Users : RemoveArchives(u))
    BY <1>5 DEF ReplacedOnDisk, MonthPasses, RemoveArchives
<1>6. CASE CommitRecords \/ RemoveRecords \/ AddRecords \/ Restarts
  <2>1. op' = Idle BY <1>6 DEF CommitRecords, RemoveRecords, AddRecords, Restarts
  <2> QED BY <2>1 DEF Idle
<1> QED BY <1>1, <1>2, <1>3, <1>4, <1>5, <1>6, Kinds

\* A commit makes the change its report described, whatever is staged, put
\* on disk or swept between the report and the rename.
THEOREM CommitsAreWhatWasShown == Spec => CommitsWhatWasShown
<1>1. Init => Shown BY DEF Init, Shown, Idle
<1>2. Sound /\ Shown /\ [Next]_vars => Shown'
  <2>1. Shown /\ UNCHANGED vars => Shown' BY DEF vars, Shown
  <2> QED BY <2>1, StepsAreShown
<1>3. Shown => \A t \in Tokens : op'.kind = "replaced" /\ op.kind = "committing" /\ op.about = t =>
                  staged[t].from = served
    BY DEF Shown
<1>4. Sound /\ Shown /\ [Next]_vars =>
         [\A t \in Tokens : op'.kind = "replaced" /\ op.kind = "committing" /\ op.about = t =>
              staged[t].from = served]_vars
    BY <1>3
<1> QED BY <1>1, <1>2, <1>4, AlwaysSound, PTL DEF Spec, CommitsWhatWasShown

-----------------------------------------------------------------------------
(* The ledger of revisions *)

CurrentIsServed ==
    served # None => served \in past /\ \A r \in Revisions : ledger[r] = "current" <=> r = served

Heard ==
    /\ \A r \in Revisions : ledger[r] # "unknown" => r \in past
    /\ disk # None => disk \in past
    /\ op.kind \in {"replaced", "added"} => op.about \in past

\* A file that is not the one listed is one the ledger has not heard of,
\* unless it was here before and is being added again.
Arrivals ==
    /\ disk # None /\ disk # served =>
          ledger[disk] = "unknown" \/ (op.kind = "added" /\ op.about = disk /\ ~Crashes)
    /\ op.kind = "committing" => ledger[staged[op.about].to] = "unknown"
    /\ op.kind = "replaced" => disk # served /\ ledger[op.about] = "unknown"

LedgerInv == CurrentIsServed /\ Heard /\ Arrivals

\* A revision that was here before does not come back by a replacement, and
\* by an upload only where the process does not stop between the file's
\* arrival and the note of it.
ReturnsSafely == "replaced" \notin Returns /\ (Crashes => "added" \notin Returns)

LEMMA DiscoveryKeepsLedger ==
    ASSUME Sound, LedgerInv, NEW l, NEW startup, Discovery(l, startup)
    PROVE  LedgerInv'
<1> USE DEF Sound, Typed
<1>1. /\ l \in [Revisions -> Ages] /\ startup \in BOOLEAN /\ Discovers(l, startup)
      /\ UNCHANGED <<onDisk, picks>> /\ op' = Idle
    BY DiscoveryKeeps
<1>2. /\ served' = disk /\ ledger' \in [Revisions -> Ages]
      /\ disk = None => ledger' = l
      /\ disk # None => \A q \in Revisions : ledger'[q] =
            IF q # disk /\ l[q] = "current" THEN "ended"
            ELSE IF q = disk /\ l[q] = "unknown" THEN "current" ELSE l[q]
    BY <1>1, WhatDiscoveryLeaves
<1>3. disk \in Revisions \cup {None} /\ served \in Revisions \cup {None} /\ ledger \in [Revisions -> Ages]
    BY DEF FilesTyped, RecordsTyped
<1>4. /\ disk # None => l[disk] \in {"unknown", "current"}
      /\ \A r \in Revisions : l[r] # "unknown" => r \in past
  <2>1. CASE CommitRecords /\ l = Supersede(ledger, served, op.about)
    <3>1. op.kind = "replaced" /\ op.about \in Revisions /\ served \in Revisions
        BY <2>1, <1>3 DEF CommitRecords, StagingTyped, Held
    <3>2. \A q \in Revisions : l[q] =
             IF q = served THEN "ended"
             ELSE IF q = op.about /\ ledger[q] = "unknown" THEN "current" ELSE ledger[q]
        BY <2>1, <1>3, <3>1, Superseded
    <3>3. /\ served \in past /\ op.about \in past
          /\ disk # None => disk # served /\ ledger[disk] = "unknown"
        BY <3>1, NoneAssumption DEF LedgerInv, CurrentIsServed, Heard, Arrivals
    <3> QED BY <1>3, <3>2, <3>3 DEF LedgerInv, Heard
  <2>2. CASE RemoveRecords /\ l = Supersede(ledger, served, None)
    <3>1. op.kind = "removed" /\ served \in Revisions /\ disk = None
        BY <2>2, <1>3 DEF RemoveRecords, Held
    <3>2. \A q \in Revisions : l[q] =
             IF q = served THEN "ended"
             ELSE IF q = None /\ ledger[q] = "unknown" THEN "current" ELSE ledger[q]
        BY <2>2, <1>3, <3>1, Superseded
    <3> QED BY <1>3, <3>1, <3>2, NoneAssumption DEF LedgerInv, CurrentIsServed, Heard
  <2>3. CASE AddRecords /\ l = NoteCurrentAgain(ledger, op.about)
    <3>1. op.kind = "added" /\ op.about \in Revisions /\ served = None
        BY <2>3 DEF AddRecords, StagingTyped, Held
    <3>2. \A q \in Revisions : l[q] = IF q = op.about THEN "current" ELSE ledger[q]
        BY <2>3, <1>3, <3>1, Notes
    <3> QED BY <1>3, <3>1, <3>2 DEF LedgerInv, Heard, Arrivals
  <2>4. CASE Restarts /\ l = ledger
    <3>1. Crashes \/ op.kind = "idle" BY <2>4 DEF Restarts, Unlocked, Idle
    <3> QED BY <1>3, <2>4, <3>1 DEF LedgerInv, CurrentIsServed, Heard, Arrivals
  <2> QED BY <2>1, <2>2, <2>3, <2>4 DEF Discovery
<1>5. CurrentIsServed'
    BY <1>1, <1>2, <1>3, <1>4 DEF LedgerInv, CurrentIsServed, Heard, onDisk
<1>6. Heard'
  <2>1. disk # None => disk \in past BY DEF LedgerInv, Heard
  <2>2. \A r \in Revisions : ledger'[r] # "unknown" => r \in past BY <1>2, <1>3, <1>4, <2>1
  <2>3. disk' = disk /\ past' = past /\ op'.kind = "idle" BY <1>1 DEF onDisk, Idle
  <2> QED BY <2>1, <2>2, <2>3 DEF Heard
<1>7. Arrivals' BY <1>1, <1>2 DEF Arrivals, onDisk, Idle
<1> QED BY <1>5, <1>6, <1>7 DEF LedgerInv

LEMMA StepsKeepLedger ==
    ASSUME ReturnsSafely, Sound, LedgerInv, Next
    PROVE  LedgerInv'
<1> USE DEF Sound, Typed
<1>0. /\ disk \in Revisions \cup {None} /\ served \in Revisions \cup {None} /\ past \subseteq Revisions
      /\ ledger \in [Revisions -> Ages]
    BY DEF FilesTyped, RecordsTyped
<1>1. CASE Picking
    BY <1>1, PickingKeeps DEF Kept, onDisk, records, LedgerInv, CurrentIsServed, Heard, Arrivals
<1>2. CASE Staging
    BY <1>2, StagingIsSound DEF onDisk, records, LedgerInv, CurrentIsServed, Heard, Arrivals
<1>3. CASE (\E t \in Tokens : CommitKeeps(t)) \/ RemoveKeeps
  <2>1. /\ ledger' \in [Revisions -> Ages]
        /\ \A r \in Revisions : ledger'[r] = ledger[r] \/
              (r = served /\ ledger[r] = "unknown" /\ ledger'[r] = "current")
    BY <1>3, KeepingAxes
  <2>2. served # None /\ UNCHANGED <<onDisk, served, staged>> /\ Unlocked
    BY <1>3 DEF CommitKeeps, RemoveKeeps
  <2>3. \A r \in Revisions : ledger'[r] = ledger[r]
    BY <2>1, <2>2, <1>0 DEF LedgerInv, CurrentIsServed
  <2>4. op'.kind = "removing" \/ (op'.kind = "committing" /\ ledger[staged[op'.about].to] = "unknown"
                                    /\ staged[op'.about].to \in Revisions)
    BY <1>0, <1>3 DEF CommitKeeps, RemoveKeeps, Incoming, ReturnsSafely, LedgerInv, Heard
  <2>5. CurrentIsServed' /\ Heard'
    BY <1>0, <2>2, <2>3, <2>4 DEF LedgerInv, CurrentIsServed, Heard, onDisk
  <2>6. Arrivals'
    BY <1>0, <2>2, <2>3, <2>4 DEF LedgerInv, Arrivals, onDisk, Unlocked, Idle
  <2> QED BY <2>5, <2>6 DEF LedgerInv
<1>4. CASE CommitInstalls
  <2>1. /\ op.kind = "committing" /\ disk' = staged[op.about].to /\ past' = past \cup {disk'}
        /\ op' = [kind |-> "replaced", about |-> disk'] /\ UNCHANGED <<served, records>>
    BY <1>4 DEF CommitInstalls
  <2>2. disk' \in Revisions /\ ledger[disk'] = "unknown" /\ served # None
    BY <2>1 DEF StagingTyped, Held, LedgerInv, Arrivals
  <2>3. disk' # served BY <2>2, <1>0 DEF LedgerInv, CurrentIsServed
  <2> QED BY <1>0, <2>1, <2>2, <2>3 DEF LedgerInv, CurrentIsServed, Heard, Arrivals, records
<1>5. CASE CommitFails \/ RemoveFails
  <2>1. op'.kind = "idle" /\ UNCHANGED <<onDisk, served, records>> /\ op.kind # "added"
    BY <1>5 DEF CommitFails, RemoveFails, Idle
  <2> QED BY <2>1 DEF onDisk, records, LedgerInv, CurrentIsServed, Heard, Arrivals
<1>6. CASE \E u \in Users : RemoveArchives(u)
    BY <1>6 DEF RemoveArchives, onDisk, records, LedgerInv, CurrentIsServed, Heard, Arrivals
<1>7. CASE RemoveUnlinks
    BY <1>7 DEF RemoveUnlinks, records, LedgerInv, CurrentIsServed, Heard, Arrivals
<1>8. CASE AddInstalls
  <2>1. PICK r \in Incoming("added") :
           disk' = r /\ past' = past \cup {r} /\ op' = [kind |-> "added", about |-> r]
    BY <1>8 DEF AddInstalls
  <2>2. served = None /\ UNCHANGED <<served, records>> /\ r \in Revisions
    BY <1>8, <2>1 DEF AddInstalls, Incoming
  <2>3. ~Crashes \/ ledger[r] = "unknown"
    BY <2>1, <2>2 DEF Incoming, ReturnsSafely, LedgerInv, Heard
  <2> QED BY <2>1, <2>2, <2>3 DEF records, LedgerInv, CurrentIsServed, Heard, Arrivals
<1>9. CASE ReplacedOnDisk
  <2>1. PICK r \in Revisions \ past : disk' = r /\ past' = past \cup {r} /\ UNCHANGED <<served, records, staged, op>>
    BY <1>9 DEF ReplacedOnDisk
  <2>2. ledger[r] = "unknown" /\ r # served BY <2>1, NoneAssumption DEF LedgerInv, Heard, CurrentIsServed
  <2> QED BY <2>1, <2>2 DEF records, LedgerInv, CurrentIsServed, Heard, Arrivals
<1>10. ASSUME NEW r \in Revisions, MonthPasses(r) PROVE LedgerInv'
  <2>1. /\ ledger[r] = "ended" /\ ledger' = [ledger EXCEPT ![r] = "long ended"]
        /\ UNCHANGED <<onDisk, served, staged, op>>
    BY <1>10 DEF MonthPasses
  <2>2. \A q \in Revisions : /\ ledger'[q] = "current" <=> ledger[q] = "current"
                             /\ ledger'[q] = "unknown" <=> ledger[q] = "unknown"
    BY <1>0, <2>1
  <2>3. CurrentIsServed' /\ Heard' BY <1>0, <2>1, <2>2 DEF LedgerInv, CurrentIsServed, Heard, onDisk
  <2>4. op.kind = "committing" => staged[op.about].to \in Revisions BY DEF StagingTyped
  <2>5. op.kind = "replaced" => op.about \in Revisions BY DEF StagingTyped
  <2>6. Arrivals' BY <1>0, <2>1, <2>2, <2>4, <2>5 DEF LedgerInv, Arrivals, onDisk
  <2> QED BY <2>3, <2>6 DEF LedgerInv
<1>11. CASE \E l, startup : Discovery(l, startup) BY <1>11, DiscoveryKeepsLedger
<1> QED BY <1>1, <1>2, <1>3, <1>4, <1>5, <1>6, <1>7, <1>8, <1>9, <1>10, <1>11, Kinds DEF Discovery

LEMMA InitIsLedger == Init => LedgerInv
<1> SUFFICES ASSUME Init PROVE LedgerInv OBVIOUS
<1>1. CurrentIsServed /\ Heard BY DEF Init, CurrentIsServed, Heard, Idle
<1>2. Arrivals BY DEF Init, Arrivals, Idle
<1> QED BY <1>1, <1>2 DEF LedgerInv

LEMMA AlwaysLedger == ASSUME ReturnsSafely PROVE Spec => []LedgerInv
<1>1. LedgerInv /\ UNCHANGED vars => LedgerInv'
    BY DEF vars, onDisk, records, LedgerInv, CurrentIsServed, Heard, Arrivals
<1>2. Sound /\ LedgerInv /\ [Next]_vars => LedgerInv'
    BY <1>1, StepsKeepLedger
<1> QED BY InitIsLedger, <1>2, AlwaysSound, PTL DEF Spec

-----------------------------------------------------------------------------
(* The axes kept under each revision *)

\* Nothing is kept of the revision that its file would still tell.
KeptWell(r) == GridOf[r] = None \/ kept[r] = GridOf[r]

\* What is kept under a revision is its own. (When files come from outside,
\* a revision that declares no axes may be kept under another's.)
Theirs == \A r \in Revisions : GridOf[r] # None \/ ~External => kept[r] \in {None, GridOf[r]}

\* A handler that is to take the file away has kept its axes.
ServedKept ==
    (served # None /\ (~KeepFails \/ op.kind \in {"committing", "replaced", "removing", "removed"}))
       => KeptWell(served)

KeptInv == Theirs /\ ServedKept

\* Files come from outside, or discovery may fail to keep axes, not both: a
\* file put in place of one whose axes were not kept takes them with it.
KeepsOrOwns == ~External \/ ~KeepFails

LEMMA KeepingKeepsOwn ==
    ASSUME KeepsOrOwns, Sound, KeptInv, (\E t \in Tokens : CommitKeeps(t)) \/ RemoveKeeps
    PROVE  KeptInv'
<1> USE DEF Sound, Typed
<1>1. /\ kept' \in [Revisions -> Grids \cup {None}]
      /\ \A r \in Revisions : r # served => kept'[r] = kept[r]
      /\ kept'[served] = kept[served] \/ (CanKeep(served, GridOf[disk]) /\ kept'[served] = GridOf[disk])
      /\ GridOf[disk] = None \/ kept'[served] = GridOf[disk]
    BY KeepingAxes
<1>2. served \in Revisions /\ served # None /\ served' = served /\ op.kind = "idle" /\ disk \in Revisions
    BY DEF CommitKeeps, RemoveKeeps, FilesTyped, Unlocked, Idle
<1>3. ~External => disk = served BY <1>2 DEF Held
<1>4. External => KeptWell(served) BY <1>2 DEF KeepsOrOwns, KeptInv, ServedKept
<1>5. External => KeptWell(served)' /\ (GridOf[served] # None => kept'[served] = GridOf[served])
    BY <1>1, <1>2, <1>4 DEF KeptWell, CanKeep
<1>6. ~External => KeptWell(served)' /\ kept'[served] \in {None, GridOf[served]}
    BY <1>1, <1>2, <1>3 DEF KeptWell, KeptInv, Theirs
<1>7. Theirs' BY <1>1, <1>2, <1>5, <1>6 DEF KeptInv, Theirs
<1>8. ServedKept' BY <1>5, <1>6 DEF ServedKept
<1> QED BY <1>7, <1>8 DEF KeptInv

LEMMA DiscoveryKeepsOwn ==
    ASSUME Sound, KeptInv, NEW l, NEW startup, Discovery(l, startup)
    PROVE  KeptInv'
<1> USE DEF Sound, Typed
<1>1. /\ l \in [Revisions -> Ages] /\ startup \in BOOLEAN /\ Discovers(l, startup) /\ op' = Idle
    BY DiscoveryKeeps
<1>2. /\ served' = disk /\ kept' \in [Revisions -> Grids \cup {None}]
      /\ \A r \in Revisions : r # disk => kept'[r] = kept[r] \/ kept'[r] = None
      /\ disk # None =>
            \/ kept'[disk] = kept[disk]
            \/ kept[disk] = None /\ kept'[disk] = GridOf[disk]
      /\ disk # None /\ ~KeepFails /\ kept[disk] = None => kept'[disk] = GridOf[disk]
    BY <1>1, WhatDiscoveryLeaves
<1>3. disk \in Revisions \cup {None} BY DEF FilesTyped
<1>4. Theirs' BY <1>2, <1>3, NoneAssumption DEF KeptInv, Theirs
<1>5. disk # None /\ ~KeepFails => KeptWell(disk)'
  <2>1. SUFFICES ASSUME disk # None, ~KeepFails, GridOf[disk] # None
                 PROVE  kept'[disk] = GridOf[disk]
    BY <1>2 DEF KeptWell, Discovery, CommitRecords, RemoveRecords, AddRecords, Restarts, onDisk
  <2>2. kept[disk] \in {None, GridOf[disk]} BY <1>3, <2>1 DEF KeptInv, Theirs
  <2> QED BY <1>2, <2>1, <2>2
<1>6. ServedKept'
  <2>1. op'.kind = "idle" BY <1>1 DEF Idle
  <2>2. UNCHANGED disk BY DiscoveryKeeps DEF onDisk
  <2> QED BY <1>2, <1>5, <2>1, <2>2 DEF ServedKept, KeptWell
<1> QED BY <1>4, <1>6 DEF KeptInv

LEMMA StepsKeepOwn ==
    ASSUME KeepsOrOwns, Sound, KeptInv, Next
    PROVE  KeptInv'
<1>0. ASSUME UNCHANGED <<served, kept>>,
             served = None \/ op'.kind \notin {"committing", "replaced", "removing", "removed"}
                \/ op.kind \in {"committing", "replaced", "removing", "removed"}
      PROVE  KeptInv'
    BY <1>0 DEF KeptInv, Theirs, ServedKept, KeptWell
<1>1. CASE Picking BY <1>0, <1>1, PickingKeeps DEF Kept, records
<1>2. CASE Staging BY <1>0, <1>2, StagingIsSound DEF records
<1>3. CASE (\E t \in Tokens : CommitKeeps(t)) \/ RemoveKeeps BY <1>3, KeepingKeepsOwn
<1>4. CASE CommitInstalls \/ CommitFails \/ RemoveFails \/ RemoveUnlinks
    BY <1>0, <1>4 DEF CommitInstalls, CommitFails, RemoveFails, RemoveUnlinks, records, Idle
<1>5. CASE AddInstalls \/ ReplacedOnDisk \/ (\E u \in Users : RemoveArchives(u))
    BY <1>0, <1>5 DEF AddInstalls, ReplacedOnDisk, RemoveArchives, records
<1>6. CASE \E r \in Revisions : MonthPasses(r)
    BY <1>0, <1>6 DEF MonthPasses
<1>7. CASE \E l, startup : Discovery(l, startup) BY <1>7, DiscoveryKeepsOwn
<1> QED BY <1>1, <1>2, <1>3, <1>4, <1>5, <1>6, <1>7, Kinds DEF Discovery

LEMMA AlwaysOwn == ASSUME KeepsOrOwns PROVE Spec => []KeptInv
<1>1. Init => KeptInv
    BY NoneAssumption, GridAssumption DEF Init, KeptInv, Theirs, ServedKept, KeptWell, Idle
<1>2. KeptInv /\ UNCHANGED vars => KeptInv'
    BY DEF vars, records, KeptInv, Theirs, ServedKept, KeptWell
<1>3. Sound /\ KeptInv /\ [Next]_vars => KeptInv'
    BY <1>2, StepsKeepOwn
<1> QED BY <1>1, <1>3, AlwaysSound, PTL DEF Spec

\* What the project remembers of a radargram's revisions is what happened:
\* the axes kept under a revision are that revision's, and at rest the ledger
\* has the one that is served as current, and no other. Where files come from
\* outside, every file declares its axes and discovery keeps them.
THEOREM HistoryIsWhatHappened ==
    ASSUME ReturnsSafely, ~External \/ (~KeepFails /\ \A r \in Revisions : GridOf[r] # None)
    PROVE  Spec => []HistoryIsTrue
<1>1. KeepsOrOwns BY DEF KeepsOrOwns
<1>2. Sound /\ LedgerInv /\ KeptInv => HistoryIsTrue
    BY DEF Sound, Typed, FilesTyped, LedgerInv, CurrentIsServed, KeptInv, Theirs,
           HistoryIsTrue, KeptAreTheirs, LedgerAgrees
<1>3. Spec => []LedgerInv BY AlwaysLedger
<1>4. Spec => []KeptInv BY <1>1, AlwaysOwn
<1> QED BY <1>2, <1>3, <1>4, AlwaysSound, PTL

-----------------------------------------------------------------------------
(* The revisions picks are of, or are about to be of *)

Shows   == {page[u].revision : u \in Users}
Watched == (Named \cup Shows \cup {served}) \ {None}

\* The ledger has heard of them, and none that is shown ended long ago.
Known ==
    /\ \A r \in Watched : ledger[r] # "unknown"
    /\ \A r \in Shows \ {None} : ledger[r] # "long ended"

\* Their axes are kept, or are in the file that is served.
Watches == \A r \in Watched : KeptWell(r) \/ (r = served /\ r = disk)

LEMMA PickingWatches ==
    ASSUME Sound, Picking
    PROVE  /\ Watched' \subseteq Watched
           /\ Shows' \subseteq Shows \cup {None} \cup ({served} \ {None})
<1> USE DEF Sound, Typed
<1>1. UNCHANGED Kept BY PickingKeeps
<1>2. SUFFICES /\ Named' \subseteq Watched \cup {None}
               /\ Shows' \subseteq Shows \cup {None} \cup ({served} \ {None})
    BY <1>1 DEF Kept, Watched
<1>3. ASSUME NEW u \in Users, OpensViewer(u) \/ ClosesViewer(u)
      PROVE  Named' = Named /\ Shows' \subseteq Shows \cup {None} \cup ({served} \ {None})
  <2>1. Named' = Named BY <1>3 DEF OpensViewer, ClosesViewer, Named, Live
  <2>2. PICK q \in {None} \cup ({served} \ {None}) :
          \E d : page' = [page EXCEPT ![u] = [revision |-> q, doc |-> d]]
    BY <1>3 DEF OpensViewer, ClosesViewer, Closed
  <2>3. Shows' \subseteq Shows \cup {q} BY <2>2 DEF Shows, PicksTyped
  <2> QED BY <2>1, <2>2, <2>3
<1>4. ASSUME NEW u \in Users, NEW r \in Revisions, Writes(u, r), r \in Shows \/ r = served,
             archived' \subseteq archived \cup {live[u]}, archived' = archived \/ live[u] # 0
      PROVE  Named' \subseteq Watched /\ Shows' \subseteq Shows \cup {None} \cup ({served} \ {None})
  <2>1. r \in Watched /\ r # None BY <1>4, NoneAssumption DEF Watched
  <2>2. PICK n \in Documents \ Drawn :
           /\ live' = [live EXCEPT ![u] = n]
           /\ page' = [page EXCEPT ![u] = [revision |-> r, doc |-> n]]
           /\ source' = [source EXCEPT ![n] = r]
    BY <1>4, Writing
  <2>3. \A m \in Live' \cup archived' : m = n \/ m \in Live \cup archived
    BY <1>4, <2>2 DEF PicksTyped, Live
  <2>4. \A m \in Live \cup archived : m \in Drawn /\ source'[m] = source[m]
    BY <1>4, Writing DEF PicksTyped, Live
  <2>5. source'[n] = r BY <2>2 DEF PicksTyped
  <2>6. \A m \in Live \cup archived : source[m] \in Named /\ source[m] # None
    BY <2>4 DEF Named, Drawn
  <2>7. Named' \subseteq Watched BY <2>1, <2>3, <2>4, <2>5, <2>6 DEF Named, Watched
  <2>8. Shows' \subseteq Shows \cup {r} BY <2>2 DEF Shows, PicksTyped
  <2> QED BY <1>4, <2>1, <2>7, <2>8
<1>5. ASSUME NEW u \in Users, Saves(u)
      PROVE  Named' \subseteq Watched /\ Shows' \subseteq Shows \cup {None} \cup ({served} \ {None})
  <2>1. page[u].revision \in Revisions /\ page[u].revision \in Shows
    BY <1>5 DEF Saves, Savable, PicksTyped, Shows
  <2> QED BY <1>4, <1>5, <2>1 DEF Saves
<1>6. ASSUME NEW u \in Users, Adopts(u)
      PROVE  Named' \subseteq Watched /\ Shows' \subseteq Shows \cup {None} \cup ({served} \ {None})
  <2>1. served \in Revisions BY <1>6 DEF Adopts, Adoptable, FilesTyped
  <2> QED BY <1>4, <1>6, <2>1 DEF Adopts, Adoptable
<1>7. ASSUME UNCHANGED <<source, page>>, Live' \cup archived' \subseteq Live \cup archived
      PROVE  Named' \subseteq Named /\ Shows' = Shows
    BY <1>7 DEF Named, Shows
<1>8. ASSUME NEW u \in Users, Deletes(u) \/ Archives(u)
      PROVE  Named' \subseteq Named /\ Shows' = Shows
  <2>1. /\ live' = [live EXCEPT ![u] = 0] /\ archived' \subseteq archived \cup {live[u]}
        /\ live[u] # 0 /\ UNCHANGED <<source, page>>
    BY <1>8 DEF Deletes, Archives
  <2>2. Live' \subseteq Live /\ live[u] \in Live BY <2>1, Moving DEF Live
  <2> QED BY <1>7, <2>1, <2>2
<1>9. ASSUME NEW n \in Documents, Restores(n) \/ Purges(n)
      PROVE  Named' \subseteq Named /\ Shows' = Shows
  <2>1. /\ n \in archived /\ archived' = archived \ {n} /\ UNCHANGED <<source, page>>
        /\ live' = [live EXCEPT ![owner[n]] = n] \/ UNCHANGED live
    BY <1>9 DEF Restores, Purges
  <2>2. Live' \subseteq Live \cup {n}
    BY <2>1 DEF PicksTyped, Live
  <2> QED BY <1>7, <2>1, <2>2
<1>10. Named \subseteq Watched \cup {None} BY DEF Watched
<1> QED BY <1>3, <1>5, <1>6, <1>8, <1>9, <1>10 DEF Picking

\* What every step but a discovery and the picks leaves: the same revisions
\* are named, shown and served.
LEMMA OthersWatch ==
    ASSUME Sound, Next, ~Picking, \A l, startup : ~Discovery(l, startup)
    PROVE  Named' = Named /\ Shows' = Shows /\ UNCHANGED served /\ Watched' = Watched
<1>1. CASE UNCHANGED <<picks, served>>
    BY <1>1 DEF picks, Named, Live, Shows, Watched
<1>2. CASE Staging BY <1>1, <1>2, StagingIsSound
<1>3. CASE (\E t \in Tokens : CommitKeeps(t)) \/ RemoveKeeps
  <2>1. UNCHANGED <<picks, served>> BY <1>3 DEF CommitKeeps, RemoveKeeps
  <2> QED BY <1>1, <2>1
<1>4. CASE CommitInstalls \/ CommitFails \/ RemoveFails \/ RemoveUnlinks \/ AddInstalls
  <2>1. UNCHANGED <<picks, served>>
    BY <1>4 DEF CommitInstalls, CommitFails, RemoveFails, RemoveUnlinks, AddInstalls
  <2> QED BY <1>1, <2>1
<1>5. CASE ReplacedOnDisk \/ (\E r \in Revisions : MonthPasses(r))
  <2>1. UNCHANGED <<picks, served>> BY <1>5 DEF ReplacedOnDisk, MonthPasses
  <2> QED BY <1>1, <2>1
<1>6. ASSUME NEW u \in Users, RemoveArchives(u)
      PROVE  Named' = Named /\ Shows' = Shows /\ UNCHANGED served /\ Watched' = Watched
  <2>1. /\ live' = [live EXCEPT ![u] = 0] /\ archived' = archived \cup {live[u]} /\ live[u] # 0
        /\ UNCHANGED <<source, page, served>>
    BY <1>6 DEF RemoveArchives
  <2>2. Live' \subseteq Live /\ Live \subseteq Live' \cup {live[u]} /\ live[u] \in Live
    BY <2>1, Moving DEF Live, Sound, Typed
  <2>3. Live' \cup archived' = Live \cup archived BY <2>1, <2>2
  <2>4. Named' = Named /\ Shows' = Shows BY <2>1, <2>3 DEF Named, Shows
  <2> QED BY <2>1, <2>4 DEF Watched
<1> QED BY <1>2, <1>3, <1>4, <1>5, <1>6, Kinds DEF Discovery

\* A discovery forgets nothing it had heard, and ages nothing.
LEMMA DiscoveryHears ==
    ASSUME Sound, NEW l, NEW startup, Discovery(l, startup)
    PROVE  /\ \A r \in Revisions : /\ ledger[r] # "unknown" => ledger'[r] # "unknown"
                                   /\ ledger'[r] = "long ended" => ledger[r] = "long ended"
           /\ disk # None => ledger'[disk] # "unknown"
<1> USE DEF Sound, Typed
<1>1. /\ l \in [Revisions -> Ages] /\ startup \in BOOLEAN /\ Discovers(l, startup)
    BY DiscoveryKeeps
<1>2. /\ disk = None => ledger' = l
      /\ disk # None => \A q \in Revisions : ledger'[q] =
            IF q # disk /\ l[q] = "current" THEN "ended"
            ELSE IF q = disk /\ l[q] = "unknown" THEN "current" ELSE l[q]
    BY <1>1, WhatDiscoveryLeaves
<1>3. /\ disk \in Revisions \cup {None} /\ served \in Revisions \cup {None}
      /\ ledger \in [Revisions -> Ages]
    BY DEF FilesTyped, RecordsTyped
<1>4. \A r \in Revisions : /\ ledger[r] # "unknown" => l[r] # "unknown"
                           /\ l[r] = "long ended" => ledger[r] = "long ended"
  <2>1. CASE CommitRecords /\ l = Supersede(ledger, served, op.about)
    <3>1. op.about \in Revisions /\ served \in Revisions
        BY <2>1, <1>3 DEF CommitRecords, StagingTyped, Held
    <3>2. \A q \in Revisions : l[q] =
             IF q = served THEN "ended"
             ELSE IF q = op.about /\ ledger[q] = "unknown" THEN "current" ELSE ledger[q]
        BY <2>1, <1>3, <3>1, Superseded
    <3> QED BY <3>2
  <2>2. CASE RemoveRecords /\ l = Supersede(ledger, served, None)
    <3>1. served \in Revisions BY <2>2, <1>3 DEF RemoveRecords, Held
    <3>2. \A q \in Revisions : l[q] =
             IF q = served THEN "ended"
             ELSE IF q = None /\ ledger[q] = "unknown" THEN "current" ELSE ledger[q]
        BY <2>2, <1>3, <3>1, Superseded
    <3> QED BY <3>2
  <2>3. CASE AddRecords /\ l = NoteCurrentAgain(ledger, op.about)
    <3>1. op.about \in Revisions BY <2>3 DEF AddRecords, StagingTyped
    <3> QED BY <2>3, <1>3, <3>1, Notes
  <2>4. CASE l = ledger BY <2>4
  <2> QED BY <2>1, <2>2, <2>3, <2>4 DEF Discovery
<1> QED BY <1>2, <1>3, <1>4

LEMMA StepsAreKnown ==
    ASSUME ReturnsSafely, Sound, LedgerInv, Known, Next
    PROVE  Known'
<1> USE DEF Sound, Typed
<1>0. /\ served \in Revisions \cup {None} /\ ledger \in [Revisions -> Ages] /\ disk \in Revisions \cup {None}
      /\ served # None => ledger[served] = "current"
      /\ \A r \in Watched : r \in Revisions
      /\ \A r \in Shows \ {None} : r \in Revisions
  <2>1. /\ served \in Revisions \cup {None} /\ ledger \in [Revisions -> Ages] /\ disk \in Revisions \cup {None}
        /\ served # None => ledger[served] = "current"
    BY DEF FilesTyped, RecordsTyped, LedgerInv, CurrentIsServed
  <2>2. Shows \subseteq Revisions \cup {None} BY DEF Shows, PicksTyped
  <2>3. Named \subseteq Revisions \cup {None} BY DEF Named, PicksTyped, Live, Drawn
  <2> QED BY <2>1, <2>2, <2>3 DEF Watched
<1> HIDE DEF Named
<1>1. CASE Picking
  <2>1. Watched' \subseteq Watched /\ Shows' \subseteq Shows \cup {None} \cup ({served} \ {None})
    BY <1>1, PickingWatches
  <2>2. UNCHANGED ledger BY <1>1, PickingKeeps DEF Kept, records
  <2> QED BY <1>0, <2>1, <2>2 DEF Known
<1>2. ASSUME NEW l, NEW startup, Discovery(l, startup) PROVE Known'
  <2>1. /\ UNCHANGED picks /\ served' = disk
    BY <1>2, DiscoveryKeeps DEF Discovers
  <2>2. Named' = Named /\ Shows' = Shows BY <2>1 DEF picks, Named, Live, Shows
  <2>3. Watched' \subseteq Watched \cup ({disk} \ {None}) BY <2>1, <2>2 DEF Watched
  <2>4. /\ \A r \in Revisions : /\ ledger[r] # "unknown" => ledger'[r] # "unknown"
                                /\ ledger'[r] = "long ended" => ledger[r] = "long ended"
        /\ disk # None => ledger'[disk] # "unknown"
    BY <1>2, DiscoveryHears
  <2> QED BY <1>0, <2>2, <2>3, <2>4 DEF Known
<1>3. ASSUME ~Picking, \A l, startup : ~Discovery(l, startup) PROVE Known'
  <2>1. Shows' = Shows /\ Watched' = Watched BY <1>3, OthersWatch
  <2>2. CASE UNCHANGED ledger BY <2>1, <2>2 DEF Known
  <2>3. CASE (\E t \in Tokens : CommitKeeps(t)) \/ RemoveKeeps
    <3>1. \A r \in Revisions : ledger'[r] = ledger[r] \/
             (r = served /\ ledger[r] = "unknown" /\ ledger'[r] = "current")
        BY <2>3, KeepingAxes
    <3> QED BY <1>0, <2>1, <3>1 DEF Known
  <2>4. ASSUME NEW r \in Revisions, MonthPasses(r) PROVE Known'
    <3>1. /\ ledger[r] = "ended" /\ ledger' = [ledger EXCEPT ![r] = "long ended"] /\ r \notin Shows
        BY <2>4 DEF MonthPasses, Shows
    <3> QED BY <1>0, <2>1, <3>1 DEF Known
  <2>5. CASE Staging BY <2>2, <2>5, StagingIsSound DEF records
  <2>6. CASE CommitInstalls \/ CommitFails \/ RemoveFails \/ RemoveUnlinks \/ AddInstalls
             \/ ReplacedOnDisk \/ (\E u \in Users : RemoveArchives(u))
    <3>1. UNCHANGED records
        BY <2>6 DEF CommitInstalls, CommitFails, RemoveFails, RemoveUnlinks, AddInstalls,
                    ReplacedOnDisk, RemoveArchives
    <3> QED BY <2>2, <3>1 DEF records
  <2> QED BY <1>3, <2>3, <2>4, <2>5, <2>6, Kinds DEF Discovery
<1> QED BY <1>1, <1>2, <1>3

\* A document and a page name revisions that there are.
LEMMA WatchedAreRevisions ==
    ASSUME Sound
    PROVE  Named \subseteq Revisions /\ Shows \subseteq Revisions \cup {None} /\ Watched \subseteq Revisions
<1> USE DEF Sound, Typed
<1>1. Shows \subseteq Revisions \cup {None} BY DEF Shows, PicksTyped
<1>2. Named \subseteq Revisions BY DEF Named, PicksTyped, Live, Drawn
<1> QED BY <1>1, <1>2 DEF Watched, FilesTyped

LEMMA DiscoveryWatches ==
    ASSUME Sound, Known, Watches, NEW l, NEW startup, Discovery(l, startup)
    PROVE  Watches'
<1>1. /\ l \in [Revisions -> Ages] /\ startup \in BOOLEAN /\ Discovers(l, startup)
      /\ UNCHANGED <<onDisk, picks>>
    BY DiscoveryKeeps
<1>2. /\ served' = disk
      /\ \A r \in Revisions : r # disk =>
            \/ kept'[r] = kept[r]
            \/ kept'[r] = None /\ r \notin Named /\ ledger'[r] = "long ended"
    BY <1>1, WhatDiscoveryLeaves DEF Sound, Typed
<1>3. \A r \in Revisions : ledger'[r] = "long ended" => ledger[r] = "long ended"
    BY DiscoveryHears
<1>4. Named' = Named /\ Shows' = Shows BY <1>1 DEF picks, Named, Live, Shows
<1>5. ASSUME NEW r \in Watched' PROVE KeptWell(r)' \/ (r = served' /\ r = disk')
  <2>1. CASE r = disk BY <2>1, <1>1, <1>2 DEF onDisk
  <2>2. CASE r # disk
    <3>1. r # None /\ (r \in Named \/ r \in Shows) BY <1>2, <1>4, <1>5, <2>2 DEF Watched
    <3>2. r \in Watched /\ r \in Revisions BY <3>1, WatchedAreRevisions DEF Watched
    <3>3. KeptWell(r) BY <2>2, <3>2 DEF Watches
    <3>4. kept'[r] = kept[r] BY <1>2, <1>3, <2>2, <3>1, <3>2 DEF Known
    <3> QED BY <3>3, <3>4 DEF KeptWell
  <2> QED BY <2>1, <2>2
<1> QED BY <1>5 DEF Watches

LEMMA StepsWatch ==
    ASSUME KeepsOrOwns, Sound, KeptInv, Known, Watches, Next
    PROVE  Watches'
<1>1. CASE Picking
  <2>1. Watched' \subseteq Watched BY <1>1, PickingWatches
  <2>2. UNCHANGED <<disk, served, kept>> BY <1>1, PickingKeeps DEF Kept, onDisk, records
  <2> QED BY <2>1, <2>2 DEF Watches, KeptWell
<1>2. ASSUME NEW l, NEW startup, Discovery(l, startup) PROVE Watches'
    BY <1>2, DiscoveryWatches
<1>3. ASSUME ~Picking, \A l, startup : ~Discovery(l, startup) PROVE Watches'
  <2>1. Watched' = Watched /\ UNCHANGED served BY <1>3, OthersWatch
  <2>2. ASSUME UNCHANGED kept, UNCHANGED disk \/ served = None \/ KeptWell(served) PROVE Watches'
    <3>1. None \notin Watched BY DEF Watched
    <3> QED BY <2>1, <2>2, <3>1 DEF Watches, KeptWell
  <2>3. CASE (\E t \in Tokens : CommitKeeps(t)) \/ RemoveKeeps
    <3>1. \A r \in Revisions : r # served => kept'[r] = kept[r] BY <2>3, KeepingAxes DEF Sound
    <3>2. UNCHANGED disk /\ served # None /\ op'.kind \in {"committing", "removing"}
        BY <2>3 DEF CommitKeeps, RemoveKeeps, onDisk
    <3>3. KeptWell(served)'
        BY <2>1, <2>3, <3>2, KeepingKeepsOwn DEF KeptInv, ServedKept
    <3>4. ASSUME NEW r \in Watched, r # served PROVE KeptWell(r)'
        BY <3>1, <3>4, WatchedAreRevisions DEF Watches, KeptWell
    <3>5. KeptWell(served)' => GridOf[served] = None \/ kept'[served] = GridOf[served]
        BY <2>1 DEF KeptWell
    <3> QED BY <2>1, <3>2, <3>3, <3>4, <3>5 DEF Watches, KeptWell
  <2>4. CASE Staging \/ CommitFails \/ RemoveFails \/ (\E u \in Users : RemoveArchives(u))
    <3>1. UNCHANGED <<onDisk, records>>
        BY <2>4, StagingIsSound DEF CommitFails, RemoveFails, RemoveArchives
    <3> QED BY <2>2, <3>1 DEF onDisk, records
  <2>5. CASE \E r \in Revisions : MonthPasses(r)
    BY <2>2, <2>5 DEF MonthPasses, onDisk
  <2>6. CASE CommitInstalls \/ RemoveUnlinks
    <3>1. UNCHANGED kept /\ op.kind \in {"committing", "removing"}
        BY <2>6 DEF CommitInstalls, RemoveUnlinks, records
    <3> QED BY <2>2, <3>1 DEF KeptInv, ServedKept
  <2>7. CASE AddInstalls BY <2>2, <2>7 DEF AddInstalls, records
  <2>8. CASE ReplacedOnDisk
    <3>1. UNCHANGED kept /\ External BY <2>8 DEF ReplacedOnDisk, records
    <3> QED BY <2>2, <3>1 DEF KeptInv, ServedKept, KeepsOrOwns
  <2> QED BY <1>3, <2>3, <2>4, <2>5, <2>6, <2>7, <2>8, Kinds DEF Discovery
<1> QED BY <1>1, <1>2, <1>3

LEMMA InitWatches == Init => Known /\ Watches
<1> SUFFICES ASSUME Init PROVE Known /\ Watches OBVIOUS
<1>1. Named = {} /\ Shows \subseteq {None} BY DEF Init, Named, Live, Shows, Closed
<1>2. Watched \subseteq {disk} /\ disk = served /\ ledger[disk] = "current"
    BY <1>1 DEF Watched, Init
<1> QED BY <1>1, <1>2 DEF Known, Watches

LEMMA WatchedStutters ==
    ASSUME UNCHANGED vars
    PROVE  Named' = Named /\ Shows' = Shows /\ Watched' = Watched
BY DEF vars, picks, Named, Live, Shows, Watched

LEMMA AlwaysKnown == ASSUME ReturnsSafely PROVE Spec => []Known
<1>1. Known /\ UNCHANGED vars => Known' BY WatchedStutters DEF vars, records, Known
<1>2. Sound /\ LedgerInv /\ Known /\ [Next]_vars => Known'
    BY <1>1, StepsAreKnown
<1>3. Spec => []LedgerInv BY AlwaysLedger
<1> QED BY InitWatches, <1>2, <1>3, AlwaysSound, PTL DEF Spec

\* Picks on a radargram or in its archive can be placed, through whatever
\* replacements, removals, failures and restarts: the axes of the revision
\* they were drawn on, if its file declared any, are kept or still in the
\* file.
THEOREM PicksCanBePlaced ==
    ASSUME ReturnsSafely, KeepsOrOwns
    PROVE  Spec => []PicksPlaceable
<1>1. Watches /\ UNCHANGED vars => Watches'
    BY WatchedStutters DEF vars, onDisk, records, Watches, KeptWell
<1>2. Sound /\ KeptInv /\ Known /\ Watches /\ [Next]_vars => Watches'
    BY <1>1, StepsWatch
<1>3. Sound /\ Watches => PicksPlaceable
  <2>1. ASSUME Sound, NEW n \in Live \cup archived PROVE source[n] \in Named /\ source[n] # None
    BY <2>1 DEF Sound, Typed, PicksTyped, Named, Live, Drawn
  <2> QED BY <2>1 DEF Watches, Watched, KeptWell, PicksPlaceable
<1>4. Spec => []Known BY AlwaysKnown
<1>5. Spec => []KeptInv BY AlwaysOwn
<1> QED BY InitWatches, <1>2, <1>3, <1>4, <1>5, AlwaysSound, PTL DEF Spec

-----------------------------------------------------------------------------
(* The commit's look at the picks *)

\* Once a commit has looked, picks of the file that goes are there only if
\* its axes are kept.
Spared ==
    op.kind = "committing" /\ disk = served =>
       Live = {} \/ (GridOf[disk] # None /\ kept[disk] = GridOf[disk])

LEMMA StepsSpare ==
    ASSUME Sound, LedgerInv, Spared, Next
    PROVE  Spared'
<1> USE DEF Sound, Typed
<1>1. ASSUME op'.kind # "committing" PROVE Spared' BY <1>1 DEF Spared
<1>2. ASSUME UNCHANGED <<disk, served, kept, op>>, Live' \subseteq Live PROVE Spared'
    BY <1>2 DEF Spared
<1>3. CASE Picking
  <2>1. UNCHANGED <<disk, served, kept, op>> BY <1>3, PickingKeeps DEF Kept, onDisk, records
  <2>2. ASSUME op.kind = "committing" PROVE Live' \subseteq Live
    <3>1. ~Unlocked BY <2>2 DEF Unlocked, Idle
    <3>2. \/ \E u \in Users : OpensViewer(u) \/ ClosesViewer(u) \/ Deletes(u) \/ Archives(u)
          \/ \E n \in Documents : Purges(n)
        BY <1>3, <3>1 DEF Picking, Saves, Adopts, Adoptable, Restores
    <3>3. ASSUME NEW u \in Users, OpensViewer(u) \/ ClosesViewer(u) \/ Deletes(u) \/ Archives(u)
          PROVE  Live' \subseteq Live
      <4>1. live' = live \/ live' = [live EXCEPT ![u] = 0]
        BY <3>3 DEF OpensViewer, ClosesViewer, Deletes, Archives
      <4> QED BY <4>1, Moving DEF Live
    <3>4. ASSUME NEW n \in Documents, Purges(n) PROVE Live' \subseteq Live
        BY <3>4 DEF Purges, Live
    <3> QED BY <3>2, <3>3, <3>4
  <2> QED BY <1>1, <1>2, <2>1, <2>2
<1>4. CASE Staging
  <2>1. UNCHANGED <<disk, served, kept, op, live>> BY <1>4, StagingIsSound DEF onDisk, records, picks
  <2> QED BY <1>2, <2>1 DEF Live
<1>5. ASSUME NEW t \in Tokens, CommitKeeps(t) PROVE Spared'
  <2>1. /\ UNCHANGED <<disk, served, live>> /\ served \in Revisions
        /\ \/ GridOf[disk] # None /\ kept' = [kept EXCEPT ![served] = GridOf[disk]]
           \/ Live = {}
    BY <1>5 DEF CommitKeeps, onDisk, picks, FilesTyped
  <2> QED BY <2>1 DEF Spared, Live, RecordsTyped
<1>6. CASE RemoveKeeps \/ CommitInstalls \/ CommitFails \/ RemoveUnlinks \/ RemoveFails \/ AddInstalls
    BY <1>1, <1>6 DEF RemoveKeeps, CommitInstalls, CommitFails, RemoveUnlinks, RemoveFails, AddInstalls, Idle
<1>7. CASE \E l, startup : Discovery(l, startup)
  <2>1. op' = Idle BY <1>7, DiscoveryKeeps
  <2> QED BY <1>1, <2>1 DEF Idle
<1>8. ASSUME NEW u \in Users, RemoveArchives(u) PROVE Spared'
    BY <1>1, <1>8 DEF RemoveArchives
<1>9. CASE ReplacedOnDisk
  <2>1. disk' \notin past /\ UNCHANGED <<served, op>> BY <1>9 DEF ReplacedOnDisk
  <2>2. op.kind = "committing" => served \in past
    BY DEF Held, LedgerInv, CurrentIsServed
  <2> QED BY <2>1, <2>2 DEF Spared
<1>10. CASE \E r \in Revisions : MonthPasses(r)
  <2>1. UNCHANGED <<disk, served, kept, op, live>> BY <1>10 DEF MonthPasses, onDisk, picks
  <2> QED BY <1>2, <2>1 DEF Live
<1> QED BY <1>3, <1>4, <1>5, <1>6, <1>7, <1>8, <1>9, <1>10, Kinds DEF Discovery

\* From the moment a commit has looked until its file is in place, nobody
\* adds picks of the file that goes, unless its axes are kept: with files put
\* in place from outside at any moment, and discovery failing to keep axes.
THEOREM CommitsSparePicks ==
    ASSUME ReturnsSafely
    PROVE  Spec => InstallSparesPicks
<1>1. Init => Spared BY DEF Init, Spared, Idle
<1>2. Spared /\ UNCHANGED vars => Spared' BY DEF vars, onDisk, records, picks, Spared, Live
<1>3. Sound /\ LedgerInv /\ Spared /\ [Next]_vars => Spared'
    BY <1>2, StepsSpare
<1>4. ASSUME Sound, LedgerInv, Known, Spared, op.kind = "committing", NEW n \in Live, source[n] = disk
      PROVE  kept[disk] = GridOf[disk] /\ kept[disk] # None
  <2>1. disk \in Watched /\ disk \in Revisions /\ disk # None
    BY <1>4, NoneAssumption DEF Sound, Typed, PicksTyped, Live, Drawn, Named, Watched
  <2>2. disk = served BY <1>4, <2>1 DEF Known, LedgerInv, Arrivals
  <2> QED BY <1>4, <2>2 DEF Spared
<1>5. Sound /\ LedgerInv /\ Known /\ Spared /\ [Next]_vars =>
         [op.kind = "committing" /\ op'.kind = "replaced" =>
            \A n \in Live : source[n] = disk => kept[disk] = GridOf[disk] /\ kept[disk] # None]_vars
    BY <1>4
<1>6. Spec => []LedgerInv BY AlwaysLedger
<1>7. Spec => []Known BY AlwaysKnown
<1> QED BY <1>1, <1>3, <1>5, <1>6, <1>7, AlwaysSound, PTL DEF Spec, InstallSparesPicks

=============================================================================
