------------------------- MODULE CatalogSnapshotProofs -------------------------
(***************************************************************************)
(* That a catalog is of one generation, and that it shows the disk as long *)
(* as nobody edits the overrides, for any radargrams, revisions, settings  *)
(* and number of handlers.                                                 *)
(***************************************************************************)
EXTENDS CatalogSnapshot, TLAPS

Places == {"idle", "ended", "written", "read", "looked", "locked", "closing", "closed",
           "changed", "reading", "walked"}

\* A catalog of one disk, whose open services are of its entries' revisions.
IsOfOne(s, among) == s.found \in among /\ \A id \in Ids : s.services[id] \in {Gone, s.found[id]}

\* Nobody has a catalog of two generations in hand, to swap in later.
Generations ==
    /\ disks \subseteq Disks /\ files \in disks
    /\ IsOfOne(snapshot, disks)
    /\ \A h \in Handlers : IsOfOne(saw[h], disks)

\* A handler that changes which radargrams exist has the lifecycle lock.
LockHeld == \A c \in Changes : at[c] # "idle" => lifecycle = c

IsShown(s, disk, says) == s.found = disk /\ s.says = says

\* No override was edited.
Quiet == \A e \in Edits : at[e] = "idle"

\* Then only those that hold the lock have changed anything, and what the one
\* that has it did is not shown yet, or in hand.
Shown ==
    Quiet =>
       /\ (\A c \in Changes : at[c] \notin {"changed", "reading", "walked"}) => IsShown(snapshot, files, overrides)
       /\ \A c \in Changes :
             /\ at[c] \in {"closing", "walked"} => IsShown(saw[c], files, overrides)
             /\ at[c] = "reading" => saw[c].says = overrides

CatalogInv ==
    /\ CatalogTypeOK /\ Generations /\ LockHeld /\ Shown
    /\ \A c \in Changes : at[c] # "ended"

-----------------------------------------------------------------------------

\* What discovery makes of a disk is of that disk.
LEMMA DiscoveredIsOfOne ==
    ASSUME NEW disk \in Disks, NEW says \in Overrides
    PROVE  /\ Discovered(disk, says) \in Snapshots
           /\ Discovered(disk, says).found = disk /\ Discovered(disk, says).says = says
           /\ \A id \in Ids : Discovered(disk, says).services[id] \in {Gone, disk[id]}
<1> DEFINE s == [found |-> disk, services |-> disk, says |-> says]
<1>1. /\ ServicesFor(s) \in Disks
      /\ \A id \in Ids : ServicesFor(s)[id] \in {Gone, disk[id]}
    BY DEF ServicesFor, Disks
<1>2. Discovered(disk, says) = [found |-> disk, services |-> ServicesFor(s), says |-> says]
    BY DEF Discovered
<1> HIDE DEF s
<1> QED BY <1>1, <1>2 DEF Snapshots

LEMMA CatalogStarts == Init => CatalogInv
<1> SUFFICES ASSUME Init PROVE CatalogInv OBVIOUS
<1>1. files \in Disks /\ overrides \in Overrides BY DEF Init, Overrides
<1>2. /\ snapshot \in Snapshots /\ snapshot.found = files /\ snapshot.says = overrides
      /\ \A id \in Ids : snapshot.services[id] \in {Gone, files[id]}
    BY <1>1, DiscoveredIsOfOne DEF Init
<1>3. /\ disks = {files} /\ at = [h \in Handlers |-> "idle"] /\ saw = [h \in Handlers |-> snapshot]
      /\ lifecycle = Nobody /\ chosen \in [Handlers -> Ids]
    BY DEF Init
<1>4. CatalogTypeOK BY <1>1, <1>2, <1>3 DEF CatalogTypeOK
<1>5. Generations BY <1>1, <1>2, <1>3 DEF Generations, IsOfOne
<1>6. LockHeld /\ Shown BY <1>2, <1>3 DEF LockHeld, Shown, IsShown, Handlers
<1>7. \A c \in Changes : at[c] # "ended" BY <1>3 DEF Handlers
<1> QED BY <1>4, <1>5, <1>6, <1>7 DEF CatalogInv

\* A handler goes on: where the others are, and what they have in hand, stays.
Goes(h, place) == at' = [at EXCEPT ![h] = place]

LEMMA OthersStay ==
    ASSUME CatalogTypeOK, NEW h \in Handlers, NEW place \in Places, Goes(h, place)
    PROVE  /\ at' \in [Handlers -> Places] /\ at'[h] = place
           /\ \A k \in Handlers : k # h => at'[k] = at[k]
    BY DEF CatalogTypeOK, Goes, Places

LEMMA Took ==
    ASSUME CatalogTypeOK, NEW h \in Handlers, NEW s \in Snapshots, saw' = [saw EXCEPT ![h] = s]
    PROVE  /\ saw' \in [Handlers -> Snapshots] /\ saw'[h] = s
           /\ \A k \in Handlers : k # h => saw'[k] = saw[k]
    BY DEF CatalogTypeOK

-----------------------------------------------------------------------------
(* An edit *)

\* Whatever an edit does, it is not idle afterwards, and it has no lock.
LEMMA EditKeeps ==
    ASSUME CatalogInv, NEW e \in Edits, EditSteps(e)
    PROVE  CatalogInv'
<1>1. e \in Handlers /\ e \notin Changes BY HandlersAssumption DEF Handlers
<1>2. CatalogTypeOK /\ UNCHANGED <<files, lifecycle, chosen, disks>>
    BY DEF CatalogInv, EditSteps, EditWrites, EditReads, EditLooks, EditReplaces
<1>3. PICK place \in {"written", "read", "looked", "ended"} : Goes(e, place)
    BY DEF EditSteps, EditWrites, EditReads, EditLooks, EditReplaces, Goes
<1>4. /\ at' \in [Handlers -> Places] /\ at'[e] # "idle"
      /\ \A k \in Handlers : k # e => at'[k] = at[k]
    BY <1>1, <1>2, <1>3, OthersStay DEF Places
<1>5. overrides' \in Overrides
  <2>1. CASE EditWrites(e)
    <3>1. PICK s \in Settings : overrides' = [overrides EXCEPT !.settings[chosen[e]] = s]
      BY <2>1 DEF EditWrites
    <3>2. overrides \in Overrides BY <1>2 DEF CatalogTypeOK
    <3> QED BY <3>1, <3>2 DEF Overrides
  <2>2. CASE ~EditWrites(e)
    BY <2>2, <1>2 DEF EditSteps, EditReads, EditLooks, EditReplaces, CatalogTypeOK
  <2> QED BY <2>1, <2>2
<1>6. /\ snapshot' \in Snapshots /\ IsOfOne(snapshot', disks')
      /\ saw' \in [Handlers -> Snapshots] /\ \A h \in Handlers : IsOfOne(saw'[h], disks')
  <2>0. /\ snapshot \in Snapshots /\ IsOfOne(snapshot, disks) /\ overrides \in Overrides
        /\ \A h \in Handlers : saw[h] \in Snapshots /\ IsOfOne(saw[h], disks)
        /\ saw \in [Handlers -> Snapshots]
    BY DEF CatalogInv, CatalogTypeOK, Generations
  <2>1. CASE EditWrites(e) BY <2>0, <2>1 DEF EditWrites
  <2>2. CASE EditReads(e)
    <3> DEFINE s == [saw[e] EXCEPT !.says = overrides]
    <3>1. s \in Snapshots /\ s.found = saw[e].found /\ s.services = saw[e].services
      BY <1>1, <2>0 DEF Snapshots
    <3>2. snapshot' = snapshot /\ saw' = [saw EXCEPT ![e] = s] BY <2>2 DEF EditReads
    <3> HIDE DEF s
    <3>3. IsOfOne(s, disks) BY <1>1, <2>0, <3>1 DEF IsOfOne
    <3> QED BY <1>1, <1>2, <2>0, <3>1, <3>2, <3>3, Took
  <2>3. CASE EditLooks(e)
    <3> DEFINE s == [snapshot EXCEPT !.says = saw[e].says]
    <3>1. s \in Snapshots /\ s.found = snapshot.found /\ s.services = snapshot.services
      BY <1>1, <2>0 DEF Snapshots
    <3>2. snapshot' = snapshot /\ saw' = [saw EXCEPT ![e] = s] BY <2>3 DEF EditLooks
    <3> HIDE DEF s
    <3>3. IsOfOne(s, disks) BY <2>0, <3>1 DEF IsOfOne
    <3> QED BY <1>1, <1>2, <2>0, <3>1, <3>2, <3>3, Took
  <2>4. CASE EditReplaces(e) BY <1>1, <2>0, <2>4 DEF EditReplaces
  <2> QED BY <2>1, <2>2, <2>3, <2>4 DEF EditSteps
<1>7. CatalogTypeOK' BY <1>2, <1>4, <1>5, <1>6 DEF CatalogTypeOK, Places
<1>8. Generations' BY <1>2, <1>6 DEF CatalogInv, Generations, IsOfOne
<1>9. LockHeld' /\ \A c \in Changes : at'[c] # "ended"
    BY <1>1, <1>2, <1>4 DEF CatalogInv, LockHeld, Handlers
<1>10. Shown' BY <1>4 DEF Shown, Quiet
<1> QED BY <1>7, <1>8, <1>9, <1>10 DEF CatalogInv

-----------------------------------------------------------------------------
(* A change of which radargrams exist *)

\* Of those that hold the lock there is one.
LEMMA OneHolds ==
    ASSUME CatalogInv, NEW c \in Changes, lifecycle \in {c, Nobody}, NEW d \in Changes, d # c
    PROVE  at[d] = "idle"
    BY HandlersAssumption DEF CatalogInv, LockHeld

\* What keeps the invariant when one that has the lock, or takes it, goes on.
LEMMA ChangeGoesOn ==
    ASSUME CatalogInv, NEW c \in Changes, lifecycle \in {c, Nobody},
           NEW place \in Places \ {"ended"}, Goes(c, place), UNCHANGED chosen,
           \/ lifecycle' = c
           \/ lifecycle' = Nobody /\ place = "idle",
           files' \in Disks, files' \in disks', disks' \subseteq Disks, disks \subseteq disks',
           overrides' \in Overrides,
           snapshot' \in Snapshots, IsOfOne(snapshot', disks'),
           NEW s \in Snapshots, saw' = [saw EXCEPT ![c] = s], IsOfOne(s, disks'),
           Quiet =>
              /\ place \notin {"changed", "reading", "walked"} => IsShown(snapshot', files', overrides')
              /\ place \in {"closing", "walked"} => IsShown(s, files', overrides')
              /\ place = "reading" => s.says = overrides'
    PROVE  CatalogInv'
<1>1. c \in Handlers /\ CatalogTypeOK BY DEF Handlers, CatalogInv
<1>2. /\ at' \in [Handlers -> Places] /\ at'[c] = place
      /\ \A k \in Handlers : k # c => at'[k] = at[k]
    BY <1>1, OthersStay
<1>3. /\ saw' \in [Handlers -> Snapshots] /\ saw'[c] = s
      /\ \A k \in Handlers : k # c => saw'[k] = saw[k]
    BY <1>1, Took
<1>4. \A d \in Changes : d # c => at'[d] = "idle" BY <1>2, OneHolds DEF Handlers
<1>5. CatalogTypeOK'
    BY <1>1, <1>2, <1>3 DEF CatalogTypeOK, Places
<1>6. Generations'
  <2>1. ASSUME NEW h \in Handlers PROVE IsOfOne(saw'[h], disks')
    <3>1. CASE h = c BY <3>1, <1>3 DEF IsOfOne
    <3>2. CASE h # c
      <4>1. saw'[h] = saw[h] /\ IsOfOne(saw[h], disks) BY <3>2, <1>3 DEF CatalogInv, Generations
      <4> QED BY <4>1 DEF IsOfOne
    <3> QED BY <3>1, <3>2
  <2> QED BY <2>1 DEF Generations, IsOfOne
<1>7. LockHeld' /\ \A d \in Changes : at'[d] # "ended" BY <1>2, <1>4 DEF LockHeld
<1>8. Shown'
  <2>1. Quiet' => Quiet BY <1>2, HandlersAssumption DEF Handlers, Quiet
  <2>2. (\A d \in Changes : at'[d] \notin {"changed", "reading", "walked"})
           => place \notin {"changed", "reading", "walked"}
    BY <1>2
  <2> QED BY <1>2, <1>3, <1>4, <2>1, <2>2 DEF Shown, IsShown
<1> QED BY <1>5, <1>6, <1>7, <1>8 DEF CatalogInv

LEMMA ChangeKeeps ==
    ASSUME CatalogInv, NEW c \in Changes, ChangeSteps(c)
    PROVE  CatalogInv'
<1>0. /\ c \in Handlers /\ CatalogTypeOK /\ Generations /\ disks \subseteq Disks
      /\ files \in Disks /\ files \in disks /\ overrides \in Overrides
      /\ snapshot \in Snapshots /\ IsOfOne(snapshot, disks)
      /\ saw \in [Handlers -> Snapshots] /\ saw[c] \in Snapshots /\ IsOfOne(saw[c], disks)
      /\ saw = [saw EXCEPT ![c] = saw[c]]
      /\ chosen[c] \in Ids
    BY DEF Handlers, CatalogInv, CatalogTypeOK, Generations
<1>1. at[c] # "idle" => lifecycle = c BY DEF CatalogInv, LockHeld
<1>2. lifecycle \in {c, Nobody}
    BY <1>1 DEF ChangeSteps, TakeLock, CloseLooks, CloseReplaces, ReplaceOrRemove, Install, Ignore,
                Unignore, Refuse, RediscoverReads, RediscoverWalks, RediscoverReplaces
<1>3. \A d \in Changes : d # c => at[d] = "idle" BY <1>2, OneHolds
<1>4. Quiet /\ at[c] \notin {"changed", "reading", "walked"} => IsShown(snapshot, files, overrides)
    BY <1>3 DEF CatalogInv, Shown
<1>5. /\ Quiet /\ at[c] \in {"closing", "walked"} => IsShown(saw[c], files, overrides)
      /\ Quiet /\ at[c] = "reading" => saw[c].says = overrides
    BY DEF CatalogInv, Shown
<1>6. CASE TakeLock(c)
  <2>1. /\ Goes(c, "locked") /\ "locked" \in Places \ {"ended"} /\ lifecycle' = c
        /\ UNCHANGED <<files, overrides, snapshot, saw, chosen, disks>>
        /\ at[c] = "idle" /\ saw' = [saw EXCEPT ![c] = saw[c]]
    BY <1>0, <1>6 DEF TakeLock, Goes, Places
  <2>2. Quiet => IsShown(snapshot, files, overrides) BY <1>4, <2>1
  <2> QED BY <1>0, <1>2, <2>1, <2>2, ChangeGoesOn
<1>7. CASE CloseLooks(c)
  <2> DEFINE s == [snapshot EXCEPT !.services[chosen[c]] = Gone]
  <2>1. /\ s \in Snapshots /\ s.found = snapshot.found /\ s.says = snapshot.says
        /\ \A id \in Ids : s.services[id] \in {Gone, snapshot.services[id]}
    BY <1>0 DEF Snapshots, Disks
  <2>2. saw' = [saw EXCEPT ![c] = s] /\ Goes(c, "closing") BY <1>7 DEF CloseLooks, Goes
  <2> HIDE DEF s
  <2>3. IsOfOne(s, disks') BY <1>0, <1>7, <2>1 DEF CloseLooks, IsOfOne
  <2>4. Quiet => IsShown(s, files', overrides') /\ IsShown(snapshot', files', overrides')
    BY <1>4, <1>7, <2>1 DEF CloseLooks, IsShown
  <2>5. /\ UNCHANGED <<files, overrides, snapshot, lifecycle, chosen, disks>>
        /\ "closing" \in Places \ {"ended"} /\ lifecycle = c
    BY <1>1, <1>7 DEF CloseLooks, Places
  <2> QED BY <1>0, <2>1, <2>2, <2>3, <2>4, <2>5, ChangeGoesOn
<1>8. CASE CloseReplaces(c)
    BY <1>0, <1>1, <1>5, <1>8, ChangeGoesOn DEF CloseReplaces, Goes, Places, IsOfOne, IsShown, Quiet
<1>9. CASE ReplaceOrRemove(c) \/ Install(c)
  <2>1. /\ files' \in Disks /\ disks' = disks \cup {files'} /\ Goes(c, "changed")
        /\ at[c] # "idle"
        /\ UNCHANGED <<overrides, snapshot, lifecycle, saw, chosen>>
    BY <1>0, <1>9 DEF ReplaceOrRemove, Install, Goes, Disks
  <2> QED BY <1>0, <1>1, <2>1, ChangeGoesOn DEF Places, IsOfOne, Quiet
<1>10. CASE Ignore(c) \/ Unignore(c)
  <2>1. /\ overrides' \in Overrides /\ Goes(c, "changed") /\ at[c] # "idle"
        /\ UNCHANGED <<files, snapshot, lifecycle, saw, chosen, disks>>
    BY <1>0, <1>10 DEF Ignore, Unignore, Goes, Overrides
  <2> QED BY <1>0, <1>1, <2>1, ChangeGoesOn DEF Places, IsOfOne, Quiet
<1>11. CASE Refuse(c)
  <2>1. /\ Goes(c, "idle") /\ "idle" \in Places \ {"ended"} /\ lifecycle' = Nobody
        /\ UNCHANGED <<files, overrides, snapshot, saw, chosen, disks>>
        /\ at[c] \in {"locked", "closed"} /\ saw' = [saw EXCEPT ![c] = saw[c]]
    BY <1>0, <1>11 DEF Refuse, Goes, Places
  <2>2. Quiet => IsShown(snapshot, files, overrides) BY <1>4, <2>1
  <2> QED BY <1>0, <1>2, <2>1, <2>2, ChangeGoesOn
<1>12. CASE RediscoverReads(c)
  <2> DEFINE s == [saw[c] EXCEPT !.says = overrides]
  <2>1. s \in Snapshots /\ s.found = saw[c].found /\ s.services = saw[c].services /\ s.says = overrides
    BY <1>0 DEF Snapshots
  <2>2. saw' = [saw EXCEPT ![c] = s] /\ Goes(c, "reading") BY <1>12 DEF RediscoverReads, Goes
  <2> HIDE DEF s
  <2>3. IsOfOne(s, disks') BY <1>0, <1>12, <2>1 DEF RediscoverReads, IsOfOne
  <2>4. /\ UNCHANGED <<files, overrides, snapshot, lifecycle, chosen, disks>>
        /\ "reading" \in Places \ {"ended"} /\ lifecycle = c
    BY <1>1, <1>12 DEF RediscoverReads, Places
  <2> QED BY <1>0, <2>1, <2>2, <2>3, <2>4, ChangeGoesOn
<1>13. CASE RediscoverWalks(c)
  <2> DEFINE s == Discovered(files, saw[c].says)
  <2>1. saw[c].says \in Overrides BY <1>0 DEF Snapshots
  <2>2. /\ s \in Snapshots /\ s.found = files /\ s.says = saw[c].says
        /\ \A id \in Ids : s.services[id] \in {Gone, files[id]}
    BY <1>0, <2>1, DiscoveredIsOfOne
  <2>3. saw' = [saw EXCEPT ![c] = s] /\ Goes(c, "walked") BY <1>13 DEF RediscoverWalks, Goes
  <2> HIDE DEF s
  <2>4. IsOfOne(s, disks') BY <1>0, <1>13, <2>2 DEF RediscoverWalks, IsOfOne
  <2>5. Quiet => IsShown(s, files', overrides') BY <1>5, <1>13, <2>2 DEF RediscoverWalks, IsShown
  <2>6. /\ UNCHANGED <<files, overrides, snapshot, lifecycle, chosen, disks>>
        /\ "walked" \in Places \ {"ended"} /\ lifecycle = c
    BY <1>1, <1>13 DEF RediscoverWalks, Places
  <2> QED BY <1>0, <2>2, <2>3, <2>4, <2>5, <2>6, ChangeGoesOn
<1>14. CASE RediscoverReplaces(c)
    BY <1>0, <1>1, <1>5, <1>14, ChangeGoesOn
    DEF RediscoverReplaces, Goes, Places, IsOfOne, IsShown, Quiet
<1> QED
    BY <1>6, <1>7, <1>8, <1>9, <1>10, <1>11, <1>12, <1>13, <1>14 DEF ChangeSteps

-----------------------------------------------------------------------------

LEMMA CatalogKeeps == CatalogInv /\ [Next]_vars => CatalogInv'
<1>1. CatalogInv /\ UNCHANGED vars => CatalogInv'
    BY DEF vars, CatalogInv, CatalogTypeOK, Generations, LockHeld, Shown, IsShown, IsOfOne, Quiet
<1> QED BY <1>1, EditKeeps, ChangeKeeps DEF Next

\* A catalog is of one disk, and its services are its entries', whatever edits
\* and changes swap it in whatever order (replace_catalog, rediscover,
\* refresh_catalog, close_radargram).
THEOREM AlwaysOneGeneration == Spec => []OneGeneration
<1>1. CatalogInv => OneGeneration BY DEF CatalogInv, Generations, IsOfOne, OneGeneration
<1> QED BY <1>1, CatalogStarts, CatalogKeeps, PTL DEF Spec

\* As long as nobody edits the overrides the lifecycle lock is enough: once all
\* handlers have ended, the catalog is what is on disk and what is said of it.
THEOREM UneditedIsAlwaysShown == Spec => []UneditedIsShown
<1>1. CatalogInv => UneditedIsShown
    BY DEF CatalogInv, Shown, IsShown, Quiet, UneditedIsShown, AllEnded, Handlers
<1> QED BY <1>1, CatalogStarts, CatalogKeeps, PTL DEF Spec
=============================================================================
