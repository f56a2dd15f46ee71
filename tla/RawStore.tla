------------------------------- MODULE RawStore -------------------------------
(***************************************************************************)
(* Raw files, the sources of radargrams and DEMs (src/project/raw.rs,      *)
(* src/server/raw_routes.rs, src/server/dem_routes.rs), over the uploads   *)
(* that bring files in chunks.  Nothing counts references: a sweep reads   *)
(* which files the documents name and deletes the others that are older    *)
(* than an hour, while requests store files and name them.                 *)
(***************************************************************************)
EXTENDS ChunkedUpload

CONSTANTS
    Ids,        \* radargram ids
    Dems,       \* DEM ids
    Hashes,     \* the contents a file may have
    HashOf,     \* the content each chunked upload brings
    None        \* no document, no DEM, no file

ASSUME NoneAssumption == None \notin Hashes \cup Ages
ASSUME RawAssumption == HashOf \in [Uploads -> Hashes]

VARIABLES
    files,      \* raw/files: how old each stored content is, or None
    sources,    \* raw/sources: what each radargram is made from, or None
    dems,       \* raw/dems: each DEM's file, or None
    pledged,    \* stored this hour by somebody who may yet name them
    lingered    \* stored this hour from an upload finished long before (history)

storeVars == <<files, sources, dems, pledged, lingered>>
rawVars == <<files, sources, dems, pledged, lingered, uploadVars, request>>

\* A link keeps the DEM's file beside its id (SourceDem).
Links == [dem : Dems, file : Hashes]
Sources == [file : Hashes, link : Links \cup {None}]
NoSource == None

\* Expectation. A version is a hash of the document's content (Version::of),
\* and a client's If-Match is the version the document has.
Expectations(i) ==
    {[is |-> "any"], [is |-> "present"], [is |-> "absent"]}
      \cup {[is |-> "version", source |-> old] : old \in {sources[i]} \ {NoSource}}

Meets(expected, stored) ==
    \/ expected.is = "any"
    \/ expected.is = "present" /\ stored # NoSource
    \/ expected.is = "absent" /\ stored = NoSource
    \/ expected.is = "version" /\ stored # NoSource /\ stored = expected.source

\* Source::hashes.
NamedBy(source) ==
    IF source = NoSource THEN {}
    ELSE {source.file} \cup (IF source.link = None THEN {} ELSE {source.link.file})

NamedBySources == UNION {NamedBy(sources[i]) : i \in Ids}
NamedByDems == {dems[d] : d \in Dems} \ {None}

\* link_to.
LinkTo(d) == [dem |-> d, file |-> dems[d]]

\* dem_users.
UsersOf(d) == {i \in Ids : sources[i] # NoSource /\ sources[i].link # None
                            /\ sources[i].link.dem = d}

\* The sweep that put_source, delete_source, put_dem and delete_dem end with,
\* which holds no lock over its reading and deleting. What the drafts and
\* batch items in flight read it keeps besides (in_use; see Drafts).
Sweeping == [at |-> "reading sources"]

ThenSweeps(s) == request' = [request EXCEPT ![s] = Sweeping]

InitRaw ==
    /\ InitUploads
    /\ request = [s \in Slots |-> NoRequest]
    /\ files = [h \in Hashes |-> None]
    /\ sources = [i \in Ids |-> NoSource]
    /\ dems = [d \in Dems |-> None]
    /\ pledged = {}
    /\ lingered = {}

-----------------------------------------------------------------------------
(***************************************************************************)
(* upload_raw_file                                                         *)
(***************************************************************************)

\* A body has been streamed to a file in raw/incoming.
Receives(s, h) ==
    /\ Free(s)
    /\ request' = [request EXCEPT ![s] = [at |-> "storing", hash |-> h, age |-> "young"]]
    /\ UNCHANGED <<uploadVars, storeVars>>

\* Or a finished upload has been moved there.
ReceivesUpload(s) ==
    /\ request[s].at = "taken"
    /\ ForgetsUpload(s, [at |-> "storing", hash |-> HashOf[request[s].upload],
                         age |-> request[s].age])
    /\ UNCHANGED storeVars

\* A file that is new keeps the time of its last byte, which a chunked upload
\* may have had long before. Until it is made young again, or as old as any
\* other, it has lingered.
Lingering(h, age) ==
    IF files[h] # None \/ age = "young" THEN lingered \ {h} ELSE lingered \cup {h}

\* Seeded fault: a file that is already stored stays as old as it was.
StoresUnrefreshed(s) ==
    LET h == request[s].hash IN
    /\ request[s].at = "storing"
    /\ files[h] # None \/ request[s].age # Gone
    /\ files' = [files EXCEPT ![h] = IF @ # None THEN @ ELSE request[s].age]
    /\ lingered' = Lingering(h, request[s].age)
    /\ pledged' = pledged \cup {h}
    /\ Answers(s)
    /\ UNCHANGED <<uploadVars, sources, dems>>

\* install_hashed: a file already stored is made young again, a new one is
\* renamed to its hash and is as old as it was written.
Stores(s) ==
    LET h == request[s].hash IN
    /\ request[s].at = "storing"
    /\ files[h] # None \/ request[s].age # Gone
    /\ files' = [files EXCEPT ![h] = IF @ # None THEN "young" ELSE request[s].age]
    /\ lingered' = Lingering(h, request[s].age)
    /\ pledged' = pledged \cup {h}
    /\ Answers(s)
    /\ UNCHANGED <<uploadVars, sources, dems>>

\* There is no room, the file was swept from raw/incoming, or the sender hung
\* up: it goes.
StoresNothing(s) ==
    /\ request[s].at = "storing"
    /\ Answers(s)
    /\ UNCHANGED <<uploadVars, storeVars>>

\* plan_ingest makes the files it is asked about young again.
Plans(h) ==
    /\ files[h] # None
    /\ files' = [files EXCEPT ![h] = "young"]
    /\ lingered' = lingered \ {h}
    /\ pledged' = pledged \cup {h}
    /\ UNCHANGED <<uploadVars, request, sources, dems>>

\* Whoever stored a file has named it, or never will.
Settles(h) ==
    /\ h \in pledged
    /\ pledged' = pledged \ {h}
    /\ UNCHANGED <<uploadVars, request, files, sources, dems, lingered>>

-----------------------------------------------------------------------------
(***************************************************************************)
(* Sources                                                                 *)
(***************************************************************************)

\* A client names what it stored this hour, or what the version it expects
\* to replace names.
MayName(h, expected) ==
    \/ h \in pledged
    \/ expected.is = "version" /\ expected.source.file = h

\* put_source reads its DEM and every recording, which takes a while ...
SetsSource(s, i, h, link) ==
    \E expected \in Expectations(i) :
    /\ Free(s)
    /\ MayName(h, expected)
    /\ files[h] # None
    /\ link # None => link = LinkTo(link.dem) /\ files[link.file] # None
    /\ request' = [request EXCEPT ![s] =
                     [at |-> "setting", id |-> i, expected |-> expected, sweeps |-> TRUE,
                      source |-> [file |-> h, link |-> link]]]
    /\ UNCHANGED <<uploadVars, storeVars>>

\* link_dem reads the source and writes it back with another DEM or none, at
\* the version it read.
LinksDem(s, i, link) ==
    /\ Free(s)
    /\ sources[i] # NoSource
    /\ link # None => /\ link = LinkTo(link.dem)
                      /\ files[link.file] # None /\ files[sources[i].file] # None
    /\ request' = [request EXCEPT ![s] =
                     [at |-> "setting", id |-> i, sweeps |-> FALSE,
                      expected |-> [is |-> "version", source |-> sources[i]],
                      source |-> [sources[i] EXCEPT !.link = link]]]
    /\ UNCHANGED <<uploadVars, storeVars>>

\* Seeded fault: the DEM is not looked at again.
WritesSourceUnchecked(s) ==
    LET r == request[s] IN
    /\ r.at = "setting"
    /\ IF Meets(r.expected, sources[r.id])
       THEN /\ sources' = [sources EXCEPT ![r.id] = r.source]
            /\ IF r.sweeps THEN ThenSweeps(s) ELSE Answers(s)
       ELSE /\ Answers(s)
            /\ UNCHANGED sources
    /\ UNCHANGED <<uploadVars, files, dems, pledged, lingered>>

\* write_with_dem: under dem_links, the DEM still has the file it was read
\* with; then the document's own compare-and-swap.
WritesSource(s) ==
    LET r == request[s] IN
    /\ r.at = "setting"
    /\ IF /\ r.source.link # None => r.source.link = LinkTo(r.source.link.dem)
          /\ Meets(r.expected, sources[r.id])
       THEN /\ sources' = [sources EXCEPT ![r.id] = r.source]
            /\ IF r.sweeps THEN ThenSweeps(s) ELSE Answers(s)
       ELSE /\ Answers(s)
            /\ UNCHANGED sources
    /\ UNCHANGED <<uploadVars, files, dems, pledged, lingered>>

\* delete_source, and the removal of a radargram (remove_locked).
DeletesSource(s, i) ==
    /\ Free(s)
    /\ sources[i] # NoSource
    /\ sources' = [sources EXCEPT ![i] = NoSource]
    /\ ThenSweeps(s)
    /\ UNCHANGED <<uploadVars, files, dems, pledged, lingered>>

\* copy_settings reads the source of one id ...
CopiesSource(s, i, j) ==
    /\ Free(s) /\ i # j
    /\ sources[i] # NoSource
    /\ request' = [request EXCEPT ![s] = [at |-> "copying", id |-> j, source |-> sources[i]]]
    /\ UNCHANGED <<uploadVars, storeVars>>

\* ... and writes it for another that has none, without dem_links.
WritesCopy(s) ==
    LET r == request[s] IN
    /\ r.at = "copying"
    /\ sources' = IF sources[r.id] = NoSource
                  THEN [sources EXCEPT ![r.id] = r.source] ELSE sources
    /\ Answers(s)
    /\ UNCHANGED <<uploadVars, files, dems, pledged, lingered>>

-----------------------------------------------------------------------------
(***************************************************************************)
(* DEMs                                                                    *)
(***************************************************************************)

\* put_dem checks that its file is stored and readable ...
ChecksDem(s, d, h) ==
    /\ Free(s)
    /\ h \in pledged
    /\ files[h] # None
    /\ request' = [request EXCEPT ![s] = [at |-> "adding", dem |-> d, hash |-> h]]
    /\ UNCHANGED <<uploadVars, storeVars>>

\* ... and under dem_links writes the document, with another file only while
\* no source links to it.
WritesDem(s) ==
    LET d == request[s].dem
        h == request[s].hash IN
    /\ request[s].at = "adding"
    /\ IF dems[d] \in {None, h} \/ UsersOf(d) = {}
       THEN /\ dems' = [dems EXCEPT ![d] = h]
            /\ IF dems[d] \notin {None, h} THEN ThenSweeps(s) ELSE Answers(s)
       ELSE /\ Answers(s)
            /\ UNCHANGED dems
    /\ UNCHANGED <<uploadVars, files, sources, pledged, lingered>>

\* delete_dem, under dem_links as well.
DeletesDem(s, d) ==
    /\ Free(s)
    /\ dems[d] # None /\ UsersOf(d) = {}
    /\ dems' = [dems EXCEPT ![d] = None]
    /\ ThenSweeps(s)
    /\ UNCHANGED <<uploadVars, files, sources, pledged, lingered>>

-----------------------------------------------------------------------------
(***************************************************************************)
(* raw::sweep                                                              *)
(***************************************************************************)

SweepReadsSources(s) ==
    /\ request[s].at = "reading sources"
    /\ request' = [request EXCEPT ![s] = [at |-> "reading DEMs", named |-> NamedBySources]]
    /\ UNCHANGED <<uploadVars, storeVars>>

SweepReadsDems(s) ==
    /\ request[s].at = "reading DEMs"
    /\ request' = [request EXCEPT ![s] =
                     [at |-> "looking", named |-> request[s].named \cup NamedByDems]]
    /\ UNCHANGED <<uploadVars, storeVars>>

\* What a sweep that read these names deletes of the files as they are now.
Doomed(named) == {h \in Hashes \ named : files[h] \notin {None, "young"}}

\* A file in raw/incoming goes by its age alone.
IncomingSwept(r) ==
    [t \in Slots |->
       IF r[t].at = "storing" /\ r[t].age # "young" THEN [r[t] EXCEPT !.age = Gone]
       ELSE r[t]]

Unlinks(s, doomed) ==
    /\ files' = [h \in Hashes |-> IF h \in doomed THEN None ELSE files[h]]
    /\ request' = IncomingSwept([request EXCEPT ![s] = NoRequest])
    /\ UNCHANGED <<uploadVars, sources, dems, pledged, lingered>>

\* Each file is looked at and unlinked at once, ...
SweepDeletes(s) ==
    /\ request[s].at = "looking"
    /\ Unlinks(s, Doomed(request[s].named))

\* ... or is stored again between the two.
SweepLooks(s) ==
    /\ request[s].at = "looking"
    /\ request' = [request EXCEPT ![s] =
                     [at |-> "unlinking", doomed |-> Doomed(request[s].named)]]
    /\ UNCHANGED <<uploadVars, storeVars>>

SweepUnlinks(s) ==
    /\ request[s].at = "unlinking"
    /\ Unlinks(s, request[s].doomed)

-----------------------------------------------------------------------------

\* An hour passes, or a day. Nobody takes as long to name what they stored,
\* nor a request to be answered, but for one that still receives a chunk.
TimePasses(hourOrDay) ==
    /\ pledged = {}
    /\ \A s \in Slots : request[s].at \in {"none", "measuring", "writing"}
    /\ UploadsAge(hourOrDay)
    /\ files' = [h \in Hashes |-> IF files[h] = None THEN None ELSE "old"]
    /\ lingered' = {h \in lingered : files[h] = None}
    /\ UNCHANGED <<document, part, sending, request, sources, dems, pledged>>

\* The process ends: what was in flight is not heard of again.
Restarts ==
    /\ request' = [s \in Slots |-> NoRequest]
    /\ sending' = {}
    /\ document' = document \ IdleUploads
    /\ part' = [u \in Uploads |-> IF u \in IdleUploads THEN Gone ELSE part[u]]
    /\ UNCHANGED <<partAge, storeVars>>

SlotNext(s) ==
    \/ \E h \in Hashes : Receives(s, h)
    \/ ReceivesUpload(s) \/ Stores(s) \/ StoresNothing(s)
    \/ \E i \in Ids, h \in Hashes, link \in Links \cup {None} : SetsSource(s, i, h, link)
    \/ \E i \in Ids, link \in Links \cup {None} : LinksDem(s, i, link)
    \/ WritesSource(s)
    \/ \E i \in Ids : DeletesSource(s, i)
    \/ \E d \in Dems, h \in Hashes : ChecksDem(s, d, h)
    \/ WritesDem(s)
    \/ \E d \in Dems : DeletesDem(s, d)
    \/ SweepReadsSources(s) \/ SweepReadsDems(s) \/ SweepDeletes(s)

NextRaw ==
    \/ UploadNext /\ UNCHANGED storeVars
    \/ \E s \in Slots : SlotNext(s)
    \/ \E h \in Hashes : Plans(h) \/ Settles(h)
    \/ \E hourOrDay \in {"hour", "day"} : TimePasses(hourOrDay)
    \/ Restarts

SpecRaw == InitRaw /\ [][NextRaw]_rawVars

\* With settings copied to another id as well, ...
NextCopying ==
    \/ NextRaw
    \/ \E s \in Slots : WritesCopy(s) \/ \E i, j \in Ids : CopiesSource(s, i, j)

SpecCopying == InitRaw /\ [][NextCopying]_rawVars

\* ... or with a sweep that others overtake between two system calls.
NextUnlinking == NextRaw \/ \E s \in Slots : SweepLooks(s) \/ SweepUnlinks(s)

SpecUnlinking == InitRaw /\ [][NextUnlinking]_rawVars

-----------------------------------------------------------------------------
(***************************************************************************)
(* Properties                                                              *)
(***************************************************************************)

RawTypeOK ==
    /\ UploadsTypeOK
    /\ files \in [Hashes -> {None, "young", "old", "idle"}]
    /\ sources \in [Ids -> Sources \cup {NoSource}]
    /\ dems \in [Dems -> Hashes \cup {None}]
    /\ pledged \in SUBSET Hashes
    /\ lingered \in SUBSET Hashes

\* "An upload whose source is not written yet is not swept from under it"
\* (raw.rs): what a document names is stored, so that every source can be
\* processed and every DEM read, whatever was stored, named and swept
\* meanwhile. The code breaks it in one case, which is excepted: what came from
\* an upload that waited for an hour may be swept before it is named, in the
\* hour in which it was stored (WhatIsNamedIsStored).
NamedIsStored ==
    \A h \in (NamedBySources \cup NamedByDems) \ lingered : files[h] # None

\* The same with no exception.
WhatIsNamedIsStored == \A h \in NamedBySources \cup NamedByDems : files[h] # None

\* "A DEM's file cannot change while anything links to it, so the two agree"
\* (SourceDem, raw.rs): the hash a source keeps of its DEM is that of the
\* DEM's file, so a recipe compared with it is compared with what a run reads.
LinksAgree ==
    \A i \in Ids :
       sources[i] # NoSource /\ sources[i].link # None
         => dems[sources[i].link.dem] = sources[i].link.file
===============================================================================
