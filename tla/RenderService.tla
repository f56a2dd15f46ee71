---------------------------- MODULE RenderService ----------------------------
(***************************************************************************)
(* How one server renders: src/server/render_service.rs and the routes     *)
(* that call it, with the on-disk overview store.                          *)
(*                                                                         *)
(* Every radargram has a render service: a lock, a file handle opened on   *)
(* first use, and a scope in the server's one image cache.  A request      *)
(* takes the service from the catalog, waits for permits, locks the        *)
(* service, renders unless the image is kept, unlocks, and tells the       *)
(* reader pool.  Meanwhile an operator replaces files: the catalog lets    *)
(* the old service go, the file is renamed into place, a new service is    *)
(* made; requests that took the old service still hold it.                 *)
(*                                                                         *)
(* An image is stood for by the revision of the file it was read from, an  *)
(* object (the radargram's overview, or one chunk) by the kind of request. *)
(***************************************************************************)
EXTENDS Integers, Sequences, FiniteSets, SequencesExt

CONSTANTS
    Clients,      \* requests; each asks at most once
    Radargrams,
    Replaced,     \* the radargrams whose files an operator replaces
    Revisions,    \* what a file can be: the same processing gives the same one
    Workers,      \* --n-workers
    Cap,          \* file handles that may stay open
    MaxBytes,     \* the image cache's budget
    MaxServices   \* bound: services made, over all radargrams

ASSUME RenderAssumption ==
    /\ Workers \in Nat \ {0} /\ Cap \in Nat \ {0}
    /\ MaxBytes \in Nat /\ MaxServices \in Nat
    /\ IsFiniteSet(Clients) /\ IsFiniteSet(Radargrams)
    /\ Radargrams # {} /\ Revisions # {}
    /\ Replaced \subseteq Radargrams
    /\ "closed" \notin Revisions

VARIABLES
    file,      \* [Radargrams -> revision and stamp of the file on disk]
    services,  \* every service made: its radargram, revision, stamp, reader
    served,    \* [Radargrams -> its service in the catalog, 0 for none]
    cache,     \* the encoded images in memory, least recently used first
    disk,      \* the overview files: set of [key, was]
    pool,      \* the services recorded as holding a handle, LRU first
    client,    \* [Clients -> its request]
    operator,  \* the replacement under way
    astray     \* history: an image was answered that is not of its revision

vars == <<file, services, served, cache, disk, pool, client, operator, astray>>

Kinds == {"chunk", "overview", "figure"}
Closed == "closed"
NoneAsked == [pc |-> "idle", kind |-> "chunk", svc |-> 0, holds |-> {},
              found |-> FALSE, open |-> FALSE, gone |-> FALSE]
Resting == [step |-> "idle", of |-> CHOOSE r \in Radargrams : TRUE,
            to |-> CHOOSE v \in Revisions : TRUE]


NewService(r, f) == [of |-> r, rev |-> f.rev, stamp |-> f.stamp, reader |-> Closed]

SomeOrder(rs) == CHOOSE o \in SetToSeqs(rs) : TRUE
Place(order, r) == CHOOSE i \in DOMAIN order : order[i] = r

Init ==
    LET order == SomeOrder(Radargrams) IN
        /\ file = [r \in Radargrams |-> [rev |-> CHOOSE v \in Revisions : TRUE, stamp |-> 0]]
        /\ services = [i \in DOMAIN order |-> NewService(order[i], file[order[i]])]
        /\ served = [r \in Radargrams |-> Place(order, r)]
        /\ cache = <<>> /\ disk = {} /\ pool = <<>>
        /\ client = [c \in Clients |-> NoneAsked]
        /\ operator = Resting /\ astray = FALSE

(***************************************************************************)
(* Permits.                                                                *)
(***************************************************************************)

AtLeastOne(n) == IF n = 0 THEN 1 ELSE n

\* overview_build_permits, figure_permits, and the render permits themselves.
Permits(p) ==
    CASE p = "build"  -> AtLeastOne(Workers \div 4)
      [] p = "figure" -> AtLeastOne(Workers \div 2)
      [] p = "render" -> Workers

Holding(p) == {c \in Clients : p \in client[c].holds}
Free(p) == Cardinality(Holding(p)) < Permits(p)

\* What a kind of request takes before a render permit.
Quota(k) == IF k = "overview" THEN "build" ELSE "figure"

\* Seeded fault: the permits belong to the request.
DroppedWhenGone(c) == {}

\* A request that went away is dropped, its blocking task is not: the
\* permits were moved into the task and stay with it.
KeptWhenGone(c) == client[c].holds

(***************************************************************************)
(* The image cache and the overview files.                                 *)
(***************************************************************************)

Size(k) == IF k = "overview" THEN 2 ELSE 1
Bytes(entries) ==
    Cardinality({b \in (DOMAIN entries) \X (1..2) : b[2] <= Size(entries[b[1]].kind)})

\* Drop the least recently used until the budget holds; the newest stays,
\* however large.
Trimmed(entries) ==
    LET fits(i) == Bytes(SubSeq(entries, i, Len(entries))) <= MaxBytes
        first == CHOOSE i \in 1..Len(entries) :
                    /\ fits(i) \/ i = Len(entries)
                    /\ \A j \in 1..(i - 1) : ~fits(j)
    IN SubSeq(entries, first, Len(entries))

\* The key an image has in memory: the service's scope, and the object.
MemoryKey(s, k) == [svc |-> s, kind |-> k]

\* Seeded fault: the stamp is left out of the name.
DiskKeyStampless(s) == [of |-> services[s].of, rev |-> services[s].rev, stamp |-> 0]

\* An overview's file: the revision's directory, and a name with the stamp
\* the file had when the service was made.
DiskKey(s) == [of |-> services[s].of, rev |-> services[s].rev,
               stamp |-> services[s].stamp]

InMemory(s, k) == {i \in DOMAIN cache : cache[i].key = MemoryKey(s, k)}
OnDisk(s, k) == {d \in disk : k = "overview" /\ d.key = DiskKey(s)}
Stored(s, k) == k # "figure" /\ (InMemory(s, k) # {} \/ OnDisk(s, k) # {})

Without(s, k) ==
    IF InMemory(s, k) = {} THEN cache
    ELSE RemoveAt(cache, CHOOSE i \in InMemory(s, k) : TRUE)

Inserted(s, k, was) ==
    Trimmed(Append(Without(s, k), [key |-> MemoryKey(s, k), kind |-> k, was |-> was]))

\* The stored image of an object, and the cache after it was looked up: an
\* image in memory becomes the newest, one on disk is taken into memory.
StoredImage(s, k) ==
    IF InMemory(s, k) # {}
    THEN (CHOOSE e \in ToSet(cache) : e.key = MemoryKey(s, k)).was
    ELSE (CHOOSE d \in OnDisk(s, k) : TRUE).was
AfterLookup(s, k) ==
    IF Stored(s, k) THEN Inserted(s, k, StoredImage(s, k)) ELSE cache

(***************************************************************************)
(* A request.                                                              *)
(***************************************************************************)

At(c, pc) == client[c].pc = pc
Goto(c, pc) == client' = [client EXCEPT ![c].pc = pc]

\* Seeded fault: only the render permit is given back.
QuotaForgotten(c) == client[c].holds \ {"render"}

\* What a request that has ended still holds.
GivenBack(c) == {}

Ends(c) == client' = [client EXCEPT ![c] = [NoneAsked EXCEPT !.pc = "done",
                                                             !.holds = GivenBack(c)]]

\* The request has its image, read from a file of this revision.
Answered(c, was) == astray' = (astray \/ was # services[client[c].svc].rev)

\* A handler takes the radargram from its catalog snapshot and keeps it.
Ask(c) ==
    /\ At(c, "idle")
    /\ \E r \in Radargrams, k \in Kinds :
        /\ served[r] # 0
        /\ client' = [client EXCEPT
             ![c].svc = served[r], ![c].kind = k,
             ![c].pc = CASE k = "overview" -> "look"
                         [] k = "figure" -> "quota"
                         [] k = "chunk" -> "permit"]
    /\ UNCHANGED <<file, services, served, cache, disk, pool, operator, astray>>

\* The permit that bounds overview builds, or figures, then a render permit.
TakeQuota(c) ==
    /\ At(c, "quota") /\ Free(Quota(client[c].kind))
    /\ client' = [client EXCEPT ![c].pc = "permit",
                                ![c].holds = @ \union {Quota(client[c].kind)}]
    /\ UNCHANGED <<file, services, served, cache, disk, pool, operator, astray>>

TakePermit(c) ==
    /\ At(c, "permit") /\ Free("render")
    /\ client' = [client EXCEPT ![c].pc = "spawned", ![c].holds = @ \union {"render"}]
    /\ UNCHANGED <<file, services, served, cache, disk, pool, operator, astray>>

\* A wait for a permit ends in a 503, or with the client going away.
GivesUpWaiting(c) ==
    /\ client[c].pc \in {"quota", "permit"}
    /\ Ends(c)
    /\ UNCHANGED <<file, services, served, cache, disk, pool, operator, astray>>

\* The client of a running task goes away; the task runs on.
GoesAway(c) ==
    /\ client[c].pc \in {"spawned", "rendering"} /\ ~client[c].gone
    /\ client' = [client EXCEPT ![c].gone = TRUE, ![c].holds = KeptWhenGone(c)]
    /\ UNCHANGED <<file, services, served, cache, disk, pool, operator, astray>>

\* The service's lock is held while a task renders with it.  A look at what
\* is stored holds it too, for one step.
Locked(s) == \E c \in Clients : At(c, "rendering") /\ client[c].svc = s

\* A look at what is stored, with what it finds.
Looks(c, s, k) ==
    /\ ~Locked(s)
    /\ cache' = AfterLookup(s, k)
    /\ client' = [client EXCEPT ![c].pc = "used", ![c].found = Stored(s, k)]
    /\ IF Stored(s, k) THEN Answered(c, StoredImage(s, k)) ELSE UNCHANGED astray
    /\ UNCHANGED <<file, services, served, disk, pool, operator>>

\* cached_overview: is there one, in memory or on disk?
Look(c) == At(c, "look") /\ Looks(c, client[c].svc, "overview")

\* Seeded fault: no second look.
NotLookedAgain(s, k) == k # "overview" /\ Stored(s, k)

\* The second look, once the permits and the lock are held.
MadeMeanwhile(s, k) == Stored(s, k)

AnswerStored(c) ==
    /\ At(c, "spawned") /\ MadeMeanwhile(client[c].svc, client[c].kind)
    /\ Looks(c, client[c].svc, client[c].kind)

\* open_reader: a closed reader opens whatever is at the path now.
Open(c) ==
    LET s == client[c].svc IN
    /\ At(c, "spawned") /\ ~Locked(s) /\ ~MadeMeanwhile(s, client[c].kind)
    /\ services' = [services EXCEPT ![s].reader =
                        IF @ = Closed THEN file[services[s].of].rev ELSE @]
    /\ Goto(c, "rendering")
    /\ UNCHANGED <<file, served, cache, disk, pool, operator, astray>>

\* The task is through with the service, whose lock is free again.
Leaves(c) == client' = [client EXCEPT ![c].pc = "used", ![c].found = TRUE, ![c].gone = FALSE]

\* A finished chunk or overview goes into memory, an overview on disk first
\* (when it can be written), and an overview's build closes the reader.
Finish(c) ==
    LET s == client[c].svc  k == client[c].kind  was == services[s].reader IN
    /\ At(c, "rendering")
    /\ \/ /\ k = "overview"
          /\ disk' = {d \in disk : d.key # DiskKey(s)}
                        \union {[key |-> DiskKey(s), was |-> was]}
       \/ UNCHANGED disk
    /\ cache' = IF k = "figure" THEN cache ELSE Inserted(s, k, was)
    /\ services' = [services EXCEPT ![s].reader = IF k = "overview" THEN Closed ELSE @]
    /\ Leaves(c) /\ Answered(c, was)
    /\ UNCHANGED <<file, served, pool, operator>>

\* A deadline, a client gone from a figure, or a read that fails: nothing is
\* kept, and the reader stays open.
Fail(c) ==
    /\ At(c, "rendering")
    /\ Leaves(c)
    /\ UNCHANGED <<file, services, served, cache, disk, pool, operator, astray>>

(***************************************************************************)
(* ReaderPool::touch, in the two steps the code takes: whether the reader  *)
(* is open is asked before the pool's own lock is taken.                   *)
(***************************************************************************)

\* A service nothing refers to any more is gone, and its reader with it.
Alive(s) == \/ \E r \in Radargrams : served[r] = s
            \/ \E c \in Clients : client[c].svc = s /\ client[c].pc # "done"

OpenNow(s) == Locked(s) \/ services[s].reader # Closed

AskWhetherOpen(c) ==
    /\ At(c, "used")
    /\ client' = [client EXCEPT ![c].pc = "touch", ![c].open = OpenNow(client[c].svc)]
    /\ UNCHANGED <<file, services, served, cache, disk, pool, operator, astray>>

\* One look at each entry from the front while there are too many: a dead
\* one is forgotten, an idle other one closed (under its lock, which was
\* free), a busy one or the service itself put at the back.
PoolAfter(entries, s) ==
    FoldSeq(LAMBDA e, p :
              IF Len(p.open) <= Cap THEN p
              ELSE LET rest == Tail(p.open) IN
                   CASE ~Alive(e) -> [p EXCEPT !.open = rest]
                     [] Alive(e) /\ (e = s \/ Locked(e)) ->
                          [p EXCEPT !.open = Append(rest, e)]
                     [] OTHER -> [open |-> rest, closed |-> p.closed \union {e}],
            [open |-> entries, closed |-> {}], entries)

Recorded(c) ==
    LET s == client[c].svc
        others == SelectSeq(pool, LAMBDA e : e # s /\ Alive(e))
    IN IF client[c].open THEN Append(others, s) ELSE others

\* After the touch the task ends and its permits come back; an overview
\* that was not found goes on to wait for a build permit, unless its client
\* has gone.
Touch(c) ==
    LET after == PoolAfter(Recorded(c), client[c].svc) IN
    /\ At(c, "touch")
    /\ pool' = after.open
    /\ services' = [s \in DOMAIN services |->
                      IF s \in after.closed /\ ~Locked(s)
                      THEN [services[s] EXCEPT !.reader = Closed]
                      ELSE services[s]]
    /\ Ends(c) \/ (~client[c].found /\ Goto(c, "quota"))
    /\ UNCHANGED <<file, served, cache, disk, operator, astray>>

(***************************************************************************)
(* Replacing a file, under the lifecycle lock.                             *)
(***************************************************************************)

\* close_radargram: the catalog forgets the service.
LetGo(r, v) ==
    /\ operator.step = "idle" /\ served[r] # 0
    /\ Len(services) + Cardinality({q \in Radargrams : served[q] = 0}) < MaxServices
    /\ served' = [served EXCEPT ![r] = 0]
    /\ operator' = [step |-> "closed", of |-> r, to |-> v]
    /\ UNCHANGED <<file, services, cache, disk, pool, client, astray>>

Rename ==
    /\ operator.step = "closed"
    /\ file' = [file EXCEPT ![operator.of] = [rev |-> operator.to, stamp |-> @.stamp + 1]]
    /\ operator' = [operator EXCEPT !.step = "renamed"]
    /\ UNCHANGED <<services, served, cache, disk, pool, client, astray>>

\* The rename fails and the request with it; no rediscovery follows.
RenameFails ==
    /\ operator.step = "closed"
    /\ operator' = Resting
    /\ UNCHANGED <<file, services, served, cache, disk, pool, client, astray>>

\* Services are kept for what is served, made for what is not; overviews of
\* revisions the catalog does not have are removed.
Rediscover ==
    LET missing == {r \in Radargrams : served[r] = 0}
        order == SomeOrder(missing)
        made == [i \in DOMAIN order |-> NewService(order[i], file[order[i]])]
    IN
    /\ operator.step \in {"idle", "renamed"} /\ missing # {}
    /\ Len(services) + Len(made) <= MaxServices
    /\ services' = services \o made
    /\ served' = [r \in Radargrams |->
                    IF r \in missing THEN Len(services) + Place(order, r)
                                     ELSE served[r]]
    /\ disk' = {d \in disk : d.key.rev = file[d.key.of].rev}
    /\ operator' = Resting
    /\ UNCHANGED <<file, cache, pool, client, astray>>

(***************************************************************************)
(* The specification.                                                      *)
(***************************************************************************)

Task(c) ==
    \/ TakeQuota(c) \/ TakePermit(c)
    \/ Look(c) \/ AnswerStored(c) \/ Open(c) \/ Finish(c)
    \/ AskWhetherOpen(c) \/ Touch(c)

Operator ==
    \/ \E r \in Replaced, v \in Revisions : LetGo(r, v)
    \/ Rename \/ RenameFails \/ Rediscover

AllAnswered == (\A c \in Clients : At(c, "done")) /\ UNCHANGED vars

Next ==
    \/ \E c \in Clients : Ask(c) \/ Task(c) \/ GivesUpWaiting(c) \/ GoesAway(c) \/ Fail(c)
    \/ Operator
    \/ AllAnswered

\* The runtime runs every task, and a lock or permit that is free is taken.
RenderSpec == Init /\ [][Next]_vars /\ \A c \in Clients : WF_vars(Task(c))

(***************************************************************************)
(* Properties.                                                             *)
(***************************************************************************)

RenderTypeOK ==
    /\ \A r \in Radargrams : file[r].rev \in Revisions /\ served[r] \in 0..Len(services)
    /\ \A s \in DOMAIN services : services[s].reader \in Revisions \union {Closed}
    /\ \A c \in Clients : client[c].holds \subseteq {"build", "figure", "render"}
    /\ ToSet(pool) \subseteq DOMAIN services

Working(kinds) == {c \in Clients : /\ client[c].kind \in kinds
                                   /\ client[c].pc \in {"spawned", "rendering"}}

\* No more tasks render than --n-workers, no more overviews are built and no
\* more figures drawn than their own limits, and the images in memory stay
\* within the budget unless one alone is over it - also when clients go
\* away, give up or fail while they wait and while they run.
LimitsHold ==
    /\ Cardinality(Working(Kinds)) <= Workers
    /\ Cardinality(Working({"overview"})) <= Permits("build")
    /\ Cardinality(Working({"figure"})) <= Permits("figure")
    /\ Bytes(cache) <= MaxBytes \/ Len(cache) = 1

\* Of many requests for one overview or chunk, one renders it: nobody
\* renders what the service has in memory by then.
OneBuildPerImage ==
    \A c \in Clients : At(c, "rendering") => InMemory(client[c].svc, client[c].kind) = {}

\* Whatever requests that still hold a replaced service do, what the service
\* in the catalog finds in memory and on disk was read from its own file,
\* also when a file comes back to an earlier revision.
CurrentImagesAreCurrent ==
    \A r \in Radargrams : LET s == served[r] IN s # 0 =>
        \A k \in {"chunk", "overview"} :
            Stored(s, k) => StoredImage(s, k) = services[s].rev

\* Every request is answered: no request waits for a permit or a lock that
\* is not given back, whoever gives up, goes away or fails.
EveryAskAnswered == \A c \in Clients : ~At(c, "idle") ~> At(c, "done")

\* ReaderPool::touch: "close readers of the least recently used others
\* until at most `cap` remain open".
ReadersWithinCap ==
    (\A c \in Clients : client[c].pc \in {"idle", "done"}) =>
        Cardinality({s \in DOMAIN services : Alive(s) /\ services[s].reader # Closed}) <= Cap

\* close_radargram: a render in flight "holds its own Arc and finishes
\* against the file it started on".
RendersItsRevision == ~astray
=============================================================================
