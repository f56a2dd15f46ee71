---------------------------- MODULE RawStoreProofs ----------------------------
(***************************************************************************)
(* Theorems about uploads, raw files, sources and DEMs, for any number of  *)
(* each, of requests in flight and of bytes.                               *)
(***************************************************************************)
EXTENDS RawStore, SequenceTheorems, TLAPS

USE UploadsAssumption

-----------------------------------------------------------------------------
(***************************************************************************)
(* Files sent in chunks                                                    *)
(***************************************************************************)

\* The first n bytes of a file.
Beginning(n) == [m \in 1 .. n |-> m]

Beginnings == {Beginning(n) : n \in 0 .. Size}

\* A request that has claimed its upload.
Sends(r) == r.at \in {"measuring", "writing"}
Uses(r) == Sends(r) \/ r.at \in {"claimed", "taken"}

\* What a request that sends or takes has got to agrees with the .part.
InStep(r) ==
    /\ r.upload \in sending
    /\ part[r.upload] # Unborn
    /\ Sends(r) =>
         /\ r = [at |-> r.at, upload |-> r.upload, next |-> r.next, to |-> r.to]
         /\ r.to \in 1 .. Size
         /\ part[r.upload] # Gone => part[r.upload] = Beginning(r.next - 1)
         /\ r.next \in 1 .. Size + 1
    /\ r.at = "claimed" /\ part[r.upload] # Gone => part[r.upload] = Beginning(Size)
    /\ r.at = "taken" => r.bytes = Beginning(Size) /\ part[r.upload] = Gone

UploadInv ==
    /\ document \in SUBSET Uploads
    /\ sending \in SUBSET Uploads
    /\ part \in [Uploads -> Beginnings \cup {Gone, Unborn}]
    /\ DOMAIN request = Slots
    /\ \A u \in Uploads :
         /\ u \in document => part[u] # Unborn
         /\ part[u] \notin {Gone, Unborn} => u \in document
    /\ \A s \in Slots : Uses(request[s]) => InStep(request[s])
    /\ \A s, t \in Slots :
         s # t /\ Uses(request[s]) /\ Uses(request[t])
           => request[s].upload # request[t].upload

LEMMA BeginningLen ==
  ASSUME NEW n \in Nat
  PROVE  Beginning(n) \in Seq(Nat) /\ Len(Beginning(n)) = n
BY DEF Beginning

LEMMA BeginningNext ==
  ASSUME NEW n \in Nat
  PROVE  Append(Beginning(n), n + 1) = Beginning(n + 1)
<1> DEFINE b == Beginning(n)
<1>1. b \in Seq(Nat) /\ Len(b) = n
  BY BeginningLen
<1>2. Beginning(n + 1) \in Seq(Nat) /\ Len(Beginning(n + 1)) = n + 1
  BY BeginningLen
<1>3. \A m \in 1 .. n + 1 : Beginning(n + 1)[m] = IF m = n + 1 THEN n + 1 ELSE b[m]
  BY DEF Beginning
<1> HIDE DEF b
<1>4. /\ Append(b, n + 1) \in Seq(Nat)
      /\ Len(Append(b, n + 1)) = n + 1
      /\ \A m \in 1 .. n : Append(b, n + 1)[m] = b[m]
      /\ Append(b, n + 1)[n + 1] = n + 1
  BY <1>1, AppendProperties
<1>5. \A m \in 1 .. n + 1 : Append(b, n + 1)[m] = Beginning(n + 1)[m]
  BY <1>3, <1>4
<1>6. Append(b, n + 1) = Beginning(n + 1)
  BY <1>2, <1>4, <1>5, SeqEqual
<1>7. QED
  BY <1>6 DEF b

LEMMA BeginningIsFile ==
  ASSUME NEW n \in 0 .. Size
  PROVE  Beginning(n) \notin {Gone, Unborn}
BY NoFileAssumption DEF Beginning

\* A step that leaves the uploads and who uses them alone.
UploadsRest ==
    /\ UNCHANGED <<document, part, sending>>
    /\ DOMAIN request' = Slots
    /\ \A t \in Slots : Uses(request'[t]) => request'[t] = request[t]

LEMMA UploadsFramed ==
  ASSUME UploadInv, UploadsRest
  PROVE  UploadInv'
BY DEF UploadInv, UploadsRest, InStep, Uses, Sends

\* A request moves on without claiming an upload or after letting one go.
LEMMA SlotRests ==
  ASSUME UploadInv, NEW s \in Slots, NEW r, ~Uses(r),
         request' = [request EXCEPT ![s] = r], UNCHANGED <<document, part, sending>>
  PROVE  UploadsRest
BY DEF UploadsRest, UploadInv

LEMMA DeclaresKeeps ==
  ASSUME UploadInv, NEW u \in Uploads, Declares(u)
  PROVE  UploadInv'
<1>1. Beginning(0) = <<>> /\ 0 \in 0 .. Size
  BY DEF Beginning
<1>2. <<>> \in Beginnings /\ <<>> \notin {Gone, Unborn}
  BY <1>1, BeginningIsFile DEF Beginnings
<1>3. \A v \in Uploads :
        \/ v = u /\ part'[v] = <<>>
        \/ v # u /\ v \in IdleUploads /\ part'[v] = Gone
        \/ v # u /\ v \notin IdleUploads /\ part'[v] = part[v]
  BY DEF Declares, UploadInv
<1>4. part' \in [Uploads -> Beginnings \cup {Gone, Unborn}]
  BY <1>2 DEF Declares, UploadInv
<1>5. \A v \in IdleUploads : part[v] # Unborn
  BY DEF IdleUploads, Left, UploadInv
<1>6. Gone # Unborn
  BY NoFileAssumption
<1>7. \A v \in Uploads : /\ v \in document' => part'[v] # Unborn
                         /\ part'[v] \notin {Gone, Unborn} => v \in document'
  BY <1>2, <1>3, <1>6 DEF Declares, UploadInv
<1>8. \A s \in Slots : Uses(request[s]) => InStep(request[s])'
  <2> SUFFICES ASSUME NEW s \in Slots, Uses(request[s]), InStep(request[s])
               PROVE  InStep(request[s])'
    BY DEF UploadInv
  <2>1. request' = request /\ sending' = sending
    BY DEF Declares
  <2>2. request[s].upload \in Uploads /\ request[s].upload # u
    BY DEF InStep, UploadInv, Declares
  <2>3. part'[request[s].upload] \in {Gone, part[request[s].upload]}
    BY <1>3, <2>2
  <2>4. QED
    BY <1>6, <2>1, <2>3 DEF InStep, Sends
<1>9. QED
  BY <1>4, <1>7, <1>8 DEF UploadInv, Declares, Uses, Sends

LEMMA CancelKeeps ==
  ASSUME UploadInv, NEW u \in Uploads, CancelsUpload(u)
  PROVE  UploadInv'
<1>1. Gone # Unborn
  BY NoFileAssumption
<1>2. \A s \in Slots : Uses(request[s]) => InStep(request[s])'
  BY <1>1 DEF UploadInv, CancelsUpload, InStep, Sends
<1>3. QED
  BY <1>1, <1>2 DEF UploadInv, CancelsUpload, Uses, Sends

LEMMA ChunkStartsKeeps ==
  ASSUME UploadInv, NEW s \in Slots, NEW u \in Uploads,
         NEW from \in 1 .. Size, NEW to \in 1 .. Size, ChunkStarts(s, u, from, to)
  PROVE  UploadInv'
<1> DEFINE r == [at |-> "measuring", upload |-> u, next |-> from, to |-> to]
<1>1. PICK n \in 0 .. Size : part[u] = Beginning(n)
  BY DEF ChunkStarts, Exists, UploadInv, Beginnings
<1>2. from = n + 1
  BY <1>1, BeginningLen DEF ChunkStarts, Offset
<1>3. part[u] # Unborn
  BY <1>1, BeginningIsFile
<1>4. /\ request' = [request EXCEPT ![s] = r]
      /\ sending' = sending \cup {u} /\ u \notin sending
      /\ UNCHANGED <<document, part>>
  BY DEF ChunkStarts
<1>5. InStep(r)'
  BY <1>1, <1>2, <1>3, <1>4 DEF InStep, Sends
<1>6. \A t \in Slots \ {s} : Uses(request[t]) => InStep(request[t])'
  BY <1>4 DEF UploadInv, InStep
<1>7. \A t \in Slots : request'[t] = IF t = s THEN r ELSE request[t]
  BY <1>4 DEF UploadInv
<1>8. \A t \in Slots \ {s} : Uses(request[t]) => request[t].upload # u
  BY <1>4 DEF UploadInv, InStep
<1>9. QED
  BY <1>4, <1>5, <1>6, <1>7, <1>8 DEF UploadInv

LEMMA ClaimsKeeps ==
  ASSUME UploadInv, NEW s \in Slots, NEW u \in Uploads, Claims(s, u)
  PROVE  UploadInv'
<1> DEFINE r == [at |-> "claimed", upload |-> u]
<1>1. PICK n \in 0 .. Size : part[u] = Beginning(n)
  BY DEF Claims, Exists, UploadInv, Beginnings
<1>2. n = Size /\ part[u] # Unborn
  BY <1>1, BeginningLen, BeginningIsFile DEF Claims, Offset
<1>3. /\ request' = [request EXCEPT ![s] = r]
      /\ sending' = sending \cup {u} /\ u \notin sending
      /\ UNCHANGED <<document, part>>
  BY DEF Claims
<1>4. InStep(r)'
  BY <1>1, <1>2, <1>3 DEF InStep, Sends
<1>5. \A t \in Slots \ {s} : Uses(request[t]) => InStep(request[t])'
  BY <1>3 DEF UploadInv, InStep
<1>6. \A t \in Slots : request'[t] = IF t = s THEN r ELSE request[t]
  BY <1>3 DEF UploadInv
<1>7. \A t \in Slots \ {s} : Uses(request[t]) => request[t].upload # u
  BY <1>3 DEF UploadInv, InStep
<1>8. QED
  BY <1>3, <1>4, <1>5, <1>6, <1>7 DEF UploadInv

\* A request that uses an upload takes a step and still uses the same one.
LEMMA StaysInStep ==
  ASSUME UploadInv, NEW s \in Slots, NEW r, Uses(request[s]), Uses(r),
         r.upload = request[s].upload, InStep(r)',
         request' = [request EXCEPT ![s] = r],
         UNCHANGED <<document, sending>>,
         part' \in [Uploads -> Beginnings \cup {Gone, Unborn}],
         \A u \in Uploads \ {r.upload} : part'[u] = part[u],
         /\ r.upload \in document => part'[r.upload] # Unborn
         /\ part'[r.upload] \notin {Gone, Unborn} => r.upload \in document
  PROVE  UploadInv'
<1>1. \A t \in Slots : request'[t] = IF t = s THEN r ELSE request[t]
  BY DEF UploadInv
<1>2. \A t \in Slots \ {s} : Uses(request[t]) => request[t].upload # r.upload
  BY DEF UploadInv
<1>3. ASSUME NEW t \in Slots \ {s}, Uses(request'[t])
      PROVE  InStep(request[t])'
  <2>1. request'[t] = request[t] /\ InStep(request[t])
    BY <1>1, <1>3 DEF UploadInv
  <2>2. request[t].upload \in Uploads \ {r.upload}
    BY <1>2, <1>3, <2>1 DEF UploadInv, InStep
  <2>3. QED
    BY <2>1, <2>2 DEF InStep, Sends
<1>4. \A t \in Slots : Uses(request'[t]) => InStep(request[t])'
  BY <1>1, <1>3
<1>5. \A t, v \in Slots : t # v /\ Uses(request'[t]) /\ Uses(request'[v])
                            => request'[t].upload # request'[v].upload
  BY <1>1, <1>2 DEF UploadInv
<1>6. \A u \in Uploads : /\ u \in document' => part'[u] # Unborn
                         /\ part'[u] \notin {Gone, Unborn} => u \in document'
  BY DEF UploadInv
<1>7. DOMAIN request' = Slots /\ document' \in SUBSET Uploads /\ sending' \in SUBSET Uploads
  BY DEF UploadInv
<1> HIDE DEF Uses, InStep
<1>8. QED
  BY <1>4, <1>5, <1>6, <1>7 DEF UploadInv, Uses, InStep

LEMMA ChunkOpensKeeps ==
  ASSUME UploadInv, NEW s \in Slots, ChunkOpens(s)
  PROVE  UploadInv'
<1>1. PICK q : q = request[s]
  OBVIOUS
<1>2. PICK r : r = [q EXCEPT !.at = "writing"]
  OBVIOUS
<1>3. /\ Uses(q) /\ Sends(q) /\ InStep(q)
      /\ request' = [request EXCEPT ![s] = r]
      /\ UNCHANGED <<document, part, sending>>
  BY <1>1, <1>2 DEF ChunkOpens, Uses, Sends, UploadInv, uploadVars
<1>4. r = [at |-> "writing", upload |-> q.upload, next |-> q.next, to |-> q.to]
  BY <1>2, <1>3 DEF InStep
<1>5. InStep(r)' /\ Uses(r) /\ r.upload = q.upload
  BY <1>3, <1>4 DEF InStep, Sends, Uses
<1>6. QED
  BY <1>1, <1>3, <1>5, StaysInStep DEF UploadInv, InStep

LEMMA ChunkWritesKeeps ==
  ASSUME UploadInv, NEW s \in Slots, ChunkWrites(s)
  PROVE  UploadInv'
<1>1. PICK q : q = request[s]
  OBVIOUS
<1>2. PICK r : r = [q EXCEPT !.next = @ + 1]
  OBVIOUS
<1>3. PICK u : u = q.upload
  OBVIOUS
<1>4. /\ Uses(q) /\ Sends(q) /\ InStep(q) /\ q.at = "writing" /\ u \in Uploads
      /\ request' = [request EXCEPT ![s] = r]
      /\ q.next \in 1 .. Size
      /\ UNCHANGED <<document, sending>>
  BY <1>1, <1>2, <1>3 DEF ChunkWrites, Uses, Sends, UploadInv, InStep
<1>5. /\ r = [at |-> "writing", upload |-> u, next |-> q.next + 1, to |-> q.to]
      /\ q.next + 1 \in 1 .. Size + 1 /\ (q.next + 1) - 1 = q.next
      /\ q.to \in 1 .. Size
  BY <1>2, <1>3, <1>4 DEF InStep
<1>6. CASE part[u] = Gone
  <2>1. UNCHANGED part
    BY <1>1, <1>3, <1>6 DEF ChunkWrites
  <2>2. InStep(r)' /\ Uses(r) /\ r.upload = u
    BY <1>3, <1>4, <1>5, <1>6, <2>1 DEF InStep, Sends, Uses
  <2>3. /\ part' \in [Uploads -> Beginnings \cup {Gone, Unborn}]
        /\ \A v \in Uploads \ {u} : part'[v] = part[v]
        /\ u \in document => part'[u] # Unborn
        /\ part'[u] \notin {Gone, Unborn} => u \in document
    BY <1>4, <2>1 DEF UploadInv
  <2>4. Uses(request[s]) /\ r.upload = request[s].upload
    BY <1>1, <1>3, <1>4, <2>2
  <2>5. QED
    BY <1>4, <2>2, <2>3, <2>4, StaysInStep
<1>7. CASE part[u] # Gone
  <2>1. part[u] = Beginning(q.next - 1)
    BY <1>3, <1>4, <1>7 DEF InStep
  <2>2. part' = [part EXCEPT ![u] = Append(@, q.next)]
    BY <1>1, <1>3, <1>7 DEF ChunkWrites
  <2>3. Append(part[u], q.next) = Beginning(q.next)
    <3>1. q.next - 1 \in Nat /\ (q.next - 1) + 1 = q.next
      BY <1>4
    <3>2. QED
      BY <2>1, <3>1, BeginningNext
  <2>4. /\ Beginning(q.next) \in Beginnings
        /\ Beginning(q.next) \notin {Gone, Unborn}
        /\ Beginning(q.next - 1) \notin {Gone, Unborn}
    BY <1>4, BeginningIsFile DEF Beginnings
  <2>5. part'[u] = Beginning(q.next) /\ u \in document
    BY <1>4, <2>1, <2>2, <2>3, <2>4 DEF UploadInv
  <2>6. InStep(r)' /\ Uses(r) /\ r.upload = u
    <3>1. r.at = "writing" /\ r.upload = u /\ r.next = q.next + 1 /\ r.to = q.to
      BY <1>5
    <3>2. part'[r.upload] = Beginning(r.next - 1) /\ part'[r.upload] # Unborn
      BY <1>5, <2>4, <2>5, <3>1
    <3>3. r.upload \in sending'
      BY <1>3, <1>4, <3>1 DEF InStep
    <3>4. r = [at |-> r.at, upload |-> r.upload, next |-> r.next, to |-> r.to]
      BY <1>5
    <3>5. QED
      BY <1>5, <3>1, <3>2, <3>3, <3>4 DEF InStep, Sends, Uses
  <2>7. /\ \A v \in Uploads \ {u} : part'[v] = part[v]
        /\ part' \in [Uploads -> Beginnings \cup {Gone, Unborn}]
    BY <1>4, <2>2, <2>4, <2>5 DEF UploadInv
  <2>8. r.upload \in document /\ part'[r.upload] # Unborn
    BY <2>4, <2>5, <2>6
  <2>9. Uses(request[s]) /\ r.upload = request[s].upload
    BY <1>1, <1>3, <1>4, <2>6
  <2>10. QED
    BY <1>4, <2>6, <2>7, <2>8, <2>9, StaysInStep
<1>8. QED
  BY <1>6, <1>7

\* A request lets go of its upload, whose files are gone or stay as they are.
LEMMA LetsGo ==
  ASSUME UploadInv, NEW s \in Slots, NEW r, ~Uses(r), Uses(request[s]),
         request' = [request EXCEPT ![s] = r],
         sending' = sending \ {request[s].upload}, UNCHANGED part,
         \/ UNCHANGED document
         \/ document' = document \ {request[s].upload} /\ part[request[s].upload] = Gone
  PROVE  UploadInv'
<1>1. \A t \in Slots : request'[t] = IF t = s THEN r ELSE request[t]
  BY DEF UploadInv
<1>2. \A t \in Slots \ {s} : Uses(request[t]) => request[t].upload # request[s].upload
  BY DEF UploadInv
<1>3. \A t \in Slots \ {s} : Uses(request[t]) => InStep(request[t])'
  BY <1>1, <1>2 DEF UploadInv, InStep
<1>4. QED
  BY <1>1, <1>2, <1>3 DEF UploadInv

LEMMA TakesPartKeeps ==
  ASSUME UploadInv, NEW s \in Slots, TakesPart(s)
  PROVE  UploadInv'
<1>1. PICK u : u = request[s].upload
  OBVIOUS
<1>2. PICK r : r = [at |-> "taken", upload |-> u, bytes |-> part[u], age |-> partAge[u]]
  OBVIOUS
<1>3. /\ Uses(request[s]) /\ u \in Uploads /\ u \in sending /\ part[u] = Beginning(Size)
      /\ request' = [request EXCEPT ![s] = r]
      /\ part' = [part EXCEPT ![u] = Gone]
      /\ UNCHANGED <<document, sending>>
  BY <1>1, <1>2 DEF TakesPart, Uses, Sends, UploadInv, InStep
<1>4. Gone # Unborn
  BY NoFileAssumption
<1>5. /\ part'[u] = Gone
      /\ \A v \in Uploads \ {u} : part'[v] = part[v]
      /\ part' \in [Uploads -> Beginnings \cup {Gone, Unborn}]
  BY <1>3 DEF UploadInv
<1>6. r.at = "taken" /\ r.upload = u /\ r.bytes = Beginning(Size)
  BY <1>2, <1>3
<1>7. InStep(r)' /\ Uses(r)
  BY <1>3, <1>4, <1>5, <1>6 DEF InStep, Sends, Uses
<1>8. QED
  BY <1>1, <1>3, <1>4, <1>5, <1>6, <1>7, StaysInStep

LEMMA UploadNextKeeps ==
  ASSUME UploadInv, UploadNext
  PROVE  UploadInv'
<1>1. ~Uses(NoRequest)
  BY DEF Uses, Sends, NoRequest
<1>2. ASSUME NEW s \in Slots, ChunkEnds(s) PROVE UploadInv'
  BY <1>1, <1>2, LetsGo DEF ChunkEnds, Answers, Uses, Sends
<1>3. ASSUME NEW s \in Slots, TakesNothing(s) PROVE UploadInv'
  BY <1>1, <1>3, LetsGo DEF TakesNothing, Answers, Uses, Sends
<1>4. QED
  BY <1>2, <1>3, DeclaresKeeps, CancelKeeps, ChunkStartsKeeps, ClaimsKeeps,
     ChunkOpensKeeps, ChunkWritesKeeps, TakesPartKeeps DEF UploadNext

\* The steps of RawStore, of which two touch uploads.
LEMMA UploadsKept ==
  ASSUME UploadInv, [NextRaw]_rawVars
  PROVE  UploadInv'
<1>1. CASE UploadNext /\ UNCHANGED storeVars
  BY <1>1, UploadNextKeeps
<1>2. ASSUME NEW s \in Slots, SlotNext(s) PROVE UploadInv'
  <2>1. CASE ReceivesUpload(s)
    <3>1. PICK r : r = [at |-> "storing", hash |-> HashOf[request[s].upload],
                        age |-> request[s].age]
      OBVIOUS
    <3>2. /\ ~Uses(r) /\ Uses(request[s])
          /\ request' = [request EXCEPT ![s] = r]
      BY <2>1, <3>1 DEF ReceivesUpload, ForgetsUpload, Uses, Sends
    <3>3. part[request[s].upload] = Gone
      BY <2>1, <3>2 DEF ReceivesUpload, ForgetsUpload, UploadInv, InStep
    <3>4. QED
      BY <2>1, <3>2, <3>3, LetsGo DEF ReceivesUpload, ForgetsUpload
  <2> DEFINE Moves == \E r : ~Uses(r) /\ request' = [request EXCEPT ![s] = r]
             Rests == UNCHANGED <<document, part, sending>>
  <2> USE DEF uploadVars, storeVars
  <2>2. ~Uses(NoRequest) /\ ~Uses(Sweeping)
    BY DEF Uses, Sends, NoRequest, Sweeping
  <2>3. (Answers(s) \/ ThenSweeps(s)) => Moves
    BY <2>2 DEF Answers, ThenSweeps
  <2>4. ASSUME NEW h \in Hashes, Receives(s, h) PROVE Moves /\ Rests
    <3>1. ~Uses([at |-> "storing", hash |-> h, age |-> "young"])
      BY DEF Uses, Sends
    <3>2. QED
      BY <2>4, <3>1 DEF Receives
  <2>5. ASSUME \/ Stores(s) \/ StoresNothing(s) \/ WritesSource(s) \/ WritesDem(s)
               \/ \E i \in Ids : DeletesSource(s, i)
               \/ \E d \in Dems : DeletesDem(s, d)
        PROVE  Moves /\ Rests
    <3> HIDE DEF Moves
    <3>1. QED
      BY <2>3, <2>5
      DEF Stores, StoresNothing, WritesSource, WritesDem, DeletesSource, DeletesDem
  <2>6. ASSUME NEW i \in Ids, NEW h \in Hashes, NEW link \in Links \cup {None},
               SetsSource(s, i, h, link)
        PROVE  Moves /\ Rests
    <3>1. PICK expected \in Expectations(i) :
            request' = [request EXCEPT ![s] =
              [at |-> "setting", id |-> i, expected |-> expected, sweeps |-> TRUE,
               source |-> [file |-> h, link |-> link]]]
      BY <2>6 DEF SetsSource
    <3>2. ~Uses([at |-> "setting", id |-> i, expected |-> expected, sweeps |-> TRUE,
                 source |-> [file |-> h, link |-> link]])
      BY DEF Uses, Sends
    <3>3. QED
      BY <2>6, <3>1, <3>2 DEF SetsSource
  <2>7. ASSUME NEW i \in Ids, NEW link \in Links \cup {None}, LinksDem(s, i, link)
        PROVE  Moves /\ Rests
    <3>1. PICK r : r = [at |-> "setting", id |-> i, sweeps |-> FALSE,
                        expected |-> [is |-> "version", source |-> sources[i]],
                        source |-> [sources[i] EXCEPT !.link = link]]
      OBVIOUS
    <3>2. ~Uses(r) /\ request' = [request EXCEPT ![s] = r]
      BY <2>7, <3>1 DEF LinksDem, Uses, Sends
    <3>3. QED
      BY <2>7, <3>2 DEF LinksDem
  <2>8. ASSUME NEW d \in Dems, NEW h \in Hashes, ChecksDem(s, d, h) PROVE Moves /\ Rests
    <3>1. ~Uses([at |-> "adding", dem |-> d, hash |-> h])
      BY DEF Uses, Sends
    <3>2. QED
      BY <2>8, <3>1 DEF ChecksDem
  <2>9. CASE SweepReadsSources(s)
    <3>1. ~Uses([at |-> "reading DEMs", named |-> NamedBySources])
      BY DEF Uses, Sends
    <3>2. QED
      BY <2>9, <3>1, SlotRests, UploadsFramed DEF SweepReadsSources
  <2>10. CASE SweepReadsDems(s)
    <3>1. ~Uses([at |-> "looking", named |-> request[s].named \cup NamedByDems])
      BY DEF Uses, Sends
    <3>2. QED
      BY <2>10, <3>1, SlotRests, UploadsFramed DEF SweepReadsDems
  <2>11. CASE SweepDeletes(s)
    <3>1. /\ DOMAIN request' = Slots
          /\ \A t \in Slots : \/ request'[t] = request[t]
                              \/ request'[t] = NoRequest
                              \/ request'[t].at = "storing"
      BY <2>11 DEF SweepDeletes, Unlinks, IncomingSwept, UploadInv
    <3>2. UploadsRest
      BY <2>2, <2>11, <3>1 DEF SweepDeletes, Unlinks, UploadsRest, Uses, Sends
    <3>3. QED
      BY <3>2, UploadsFramed
  <2>12. ASSUME Moves, Rests PROVE UploadInv'
    BY <2>12, SlotRests, UploadsFramed
  <2> HIDE DEF Moves, Rests
  <2>13. QED
    BY <1>2, <2>1, <2>4, <2>5, <2>6, <2>7, <2>8, <2>9, <2>10, <2>11, <2>12 DEF SlotNext
<1> USE DEF Uses, Sends, uploadVars, storeVars
<1>3. ASSUME NEW h \in Hashes, Plans(h) \/ Settles(h) PROVE UploadInv'
  <2>1. UploadsRest
    BY <1>3 DEF Plans, Settles, UploadsRest, UploadInv
  <2>2. QED
    BY <2>1, UploadsFramed
<1>4. ASSUME NEW hourOrDay \in {"hour", "day"}, TimePasses(hourOrDay) PROVE UploadInv'
  <2>1. UploadsRest
    BY <1>4 DEF TimePasses, UploadsRest, UploadInv
  <2>2. QED
    BY <2>1, UploadsFramed
<1>5. CASE Restarts
  <2>1. \A t \in Slots : request'[t] = NoRequest
    BY <1>5 DEF Restarts
  <2>2. Gone # Unborn
    BY NoFileAssumption
  <2>3. QED
    BY <1>5, <2>1, <2>2 DEF Restarts, UploadInv, NoRequest
<1>6. CASE UNCHANGED rawVars
  <2>1. UploadsRest
    BY <1>6 DEF rawVars, UploadsRest, UploadInv
  <2>2. QED
    BY <2>1, UploadsFramed
<1>7. QED
  BY <1>1, <1>2, <1>3, <1>4, <1>5, <1>6 DEF NextRaw

LEMMA UploadsBegin ==
  ASSUME InitRaw
  PROVE  UploadInv
BY NoFileAssumption DEF InitRaw, InitUploads, UploadInv, NoRequest, Uses, Sends

\* UploadInv is inductive.
THEOREM UploadsInduct == SpecRaw => []UploadInv
<1>1. QED
  BY UploadsBegin, UploadsKept, PTL DEF SpecRaw

\* "The offset is the length of the file on disk": the .part of an upload is the
\* beginning of the file that was declared, and what stands in for a request's
\* body (claim, take_to) is the whole file, whatever chunks were sent, sent
\* twice, broken off, cancelled or raced, for any size and number of requests.
THEOREM ArrivedIsAlwaysTheFile == SpecRaw => []ArrivedIsTheFile
<1>1. ASSUME UploadInv, NEW u \in Uploads, part[u] \notin {Gone, Unborn}
      PROVE  part[u] = [n \in 1 .. Offset(u) |-> n]
  <2>1. PICK m \in 0 .. Size : part[u] = Beginning(m)
    BY <1>1 DEF UploadInv, Beginnings
  <2>2. Offset(u) = m
    BY <2>1, BeginningLen DEF Offset
  <2>3. QED
    BY <2>1, <2>2 DEF Beginning
<1>2. ASSUME UploadInv, NEW s \in Slots, request[s].at = "taken"
      PROVE  Len(request[s].bytes) = Size
  <2>1. Len(Beginning(Size)) = Size
    BY BeginningLen
  <2>2. QED
    BY <1>2, <2>1 DEF UploadInv, Uses, InStep
<1>3. UploadInv => ArrivedIsTheFile
  BY <1>1, <1>2 DEF ArrivedIsTheFile
<1>4. QED
  BY <1>3, UploadsInduct, PTL

-----------------------------------------------------------------------------
(***************************************************************************)
(* Links                                                                   *)
(***************************************************************************)

StoreTyped ==
    /\ files \in [Hashes -> Ages \cup {None}]
    /\ sources \in [Ids -> Sources \cup {NoSource}]
    /\ dems \in [Dems -> Hashes \cup {None}]
    /\ pledged \in SUBSET Hashes
    /\ lingered \in SUBSET Hashes
    /\ partAge \in [Uploads -> Ages]

\* What a request will write is of the kind it writes.
RequestTyped(r) ==
    /\ r.at = "setting" => r.id \in Ids /\ r.source \in Sources
    /\ r.at = "adding" => r.dem \in Dems /\ r.hash \in Hashes
    /\ r.at = "storing" => r \in [at : {"storing"}, hash : Hashes, age : Ages \cup {Gone}]
    /\ r.at = "taken" => r.upload \in Uploads /\ r.age \in Ages

TypedInv ==
    /\ StoreTyped
    /\ DOMAIN request = Slots
    /\ \A s \in Slots : RequestTyped(request[s])

\* A step of one request.
LEMMA SlotTyped ==
  ASSUME TypedInv, StoreTyped', NEW s \in Slots, NEW r, RequestTyped(r),
         request' = [request EXCEPT ![s] = r]
  PROVE  TypedInv'
BY DEF TypedInv, RequestTyped

LEMMA UploadNextTyped ==
  ASSUME TypedInv, UploadInv, UploadNext, UNCHANGED storeVars
  PROVE  TypedInv'
<1> USE DEF storeVars
<1>1. ASSUME NEW u \in Uploads, Declares(u) \/ CancelsUpload(u) PROVE TypedInv'
  BY <1>1 DEF Declares, CancelsUpload, TypedInv, StoreTyped, RequestTyped
<1>2. ASSUME NEW s \in Slots, NEW r, RequestTyped(r),
             request' = [request EXCEPT ![s] = r], UNCHANGED partAge
      PROVE  TypedInv'
  <2>1. StoreTyped'
    BY <1>2 DEF TypedInv, StoreTyped
  <2>2. QED
    BY <1>2, <2>1, SlotTyped
<1>3. RequestTyped(NoRequest)
  BY DEF RequestTyped, NoRequest
<1>4. ASSUME NEW s \in Slots, NEW u \in Uploads, NEW from \in 1 .. Size,
             NEW to \in 1 .. Size, ChunkStarts(s, u, from, to)
      PROVE  TypedInv'
  <2>1. RequestTyped([at |-> "measuring", upload |-> u, next |-> from, to |-> to])
    BY DEF RequestTyped
  <2>2. QED
    BY <1>2, <1>4, <2>1 DEF ChunkStarts
<1>5. ASSUME NEW s \in Slots, NEW u \in Uploads, Claims(s, u) PROVE TypedInv'
  <2>1. RequestTyped([at |-> "claimed", upload |-> u])
    BY DEF RequestTyped
  <2>2. QED
    BY <1>2, <1>5, <2>1 DEF Claims
<1>6. ASSUME NEW s \in Slots, ChunkEnds(s) \/ TakesNothing(s) PROVE TypedInv'
  BY <1>2, <1>3, <1>6 DEF ChunkEnds, TakesNothing, Answers
<1>7. ASSUME NEW s \in Slots, ChunkOpens(s) PROVE TypedInv'
  <2>1. PICK r : r = [request[s] EXCEPT !.at = "writing"]
    OBVIOUS
  <2>2. request[s] = [at |-> request[s].at, upload |-> request[s].upload,
                      next |-> request[s].next, to |-> request[s].to]
    BY <1>7 DEF ChunkOpens, UploadInv, InStep, Uses, Sends
  <2>3. r.at = "writing"
    BY <2>1, <2>2
  <2>4. request' = [request EXCEPT ![s] = r] /\ UNCHANGED partAge
    BY <1>7, <2>1 DEF ChunkOpens, uploadVars, TypedInv
  <2>5. QED
    BY <1>2, <2>3, <2>4 DEF RequestTyped
<1>8. ASSUME NEW s \in Slots, ChunkWrites(s) PROVE TypedInv'
  <2>1. PICK r : r = [request[s] EXCEPT !.next = @ + 1]
    OBVIOUS
  <2>2. request[s] = [at |-> request[s].at, upload |-> request[s].upload,
                      next |-> request[s].next, to |-> request[s].to]
    BY <1>8 DEF ChunkWrites, UploadInv, InStep, Uses, Sends
  <2>3. r.at = "writing"
    BY <1>8, <2>1, <2>2 DEF ChunkWrites
  <2>4. request' = [request EXCEPT ![s] = r]
    BY <1>8, <2>1 DEF ChunkWrites, TypedInv
  <2>5. StoreTyped'
    BY <1>8 DEF ChunkWrites, TypedInv, StoreTyped, Ages
  <2>6. QED
    BY <2>3, <2>4, <2>5, SlotTyped DEF RequestTyped
<1>9. ASSUME NEW s \in Slots, TakesPart(s) PROVE TypedInv'
  <2>1. PICK u : u = request[s].upload
    OBVIOUS
  <2>2. u \in Uploads
    BY <1>9, <2>1 DEF TakesPart, UploadInv, InStep, Uses
  <2>3. RequestTyped([at |-> "taken", upload |-> u, bytes |-> part[u], age |-> partAge[u]])
    BY <2>2 DEF RequestTyped, TypedInv, StoreTyped
  <2>4. QED
    BY <1>2, <1>9, <2>1, <2>3 DEF TakesPart
<1>10. QED
  BY <1>1, <1>4, <1>5, <1>6, <1>7, <1>8, <1>9 DEF UploadNext

\* A step of one request that writes no file.
LEMMA AnswersTyped ==
  ASSUME TypedInv, NEW s \in Slots, Answers(s) \/ ThenSweeps(s), StoreTyped'
  PROVE  TypedInv'
<1>1. RequestTyped(NoRequest) /\ RequestTyped(Sweeping)
  BY DEF RequestTyped, NoRequest, Sweeping
<1>2. QED
  BY <1>1, SlotTyped DEF Answers, ThenSweeps

LEMMA SlotNextTyped ==
  ASSUME TypedInv, UploadInv, RawAssumption, NEW s \in Slots, SlotNext(s)
  PROVE  TypedInv'
<1> DEFINE q == request[s]
<1>0. RequestTyped(q) /\ StoreTyped
  BY DEF TypedInv
<1>1. ASSUME UNCHANGED <<uploadVars, storeVars>>, NEW r, RequestTyped(r),
             request' = [request EXCEPT ![s] = r]
      PROVE  TypedInv'
  <2>1. StoreTyped'
    BY <1>0, <1>1 DEF StoreTyped, uploadVars, storeVars
  <2>2. QED
    BY <1>1, <2>1, SlotTyped
<1>2. ASSUME NEW h \in Hashes, Receives(s, h) PROVE TypedInv'
  <2>1. RequestTyped([at |-> "storing", hash |-> h, age |-> "young"])
    BY DEF RequestTyped, Ages
  <2>2. QED
    BY <1>1, <1>2, <2>1 DEF Receives
<1>3. CASE ReceivesUpload(s)
  <2>1. PICK r : r = [at |-> "storing", hash |-> HashOf[q.upload], age |-> q.age]
    OBVIOUS
  <2>2. RequestTyped(r) /\ request' = [request EXCEPT ![s] = r]
    BY <1>0, <1>3, <2>1 DEF ReceivesUpload, ForgetsUpload, RequestTyped, RawAssumption
  <2>3. StoreTyped'
    BY <1>0, <1>3 DEF ReceivesUpload, ForgetsUpload, StoreTyped, storeVars
  <2>4. QED
    BY <2>2, <2>3, SlotTyped
<1>4. CASE Stores(s)
  <2>1. q.hash \in Hashes /\ q.age \in Ages \cup {Gone}
    BY <1>0, <1>4 DEF Stores, RequestTyped
  <2>2. StoreTyped'
    BY <1>0, <1>4, <2>1 DEF Stores, StoreTyped, Lingering, Ages, uploadVars
  <2>3. QED
    BY <1>4, <2>2, AnswersTyped DEF Stores
<1>5. CASE StoresNothing(s)
  <2>1. StoreTyped'
    BY <1>0, <1>5 DEF StoresNothing, StoreTyped, uploadVars, storeVars
  <2>2. QED
    BY <1>5, <2>1, AnswersTyped DEF StoresNothing
<1>6. ASSUME NEW i \in Ids, NEW h \in Hashes, NEW link \in Links \cup {None},
             SetsSource(s, i, h, link)
      PROVE  TypedInv'
  <2>1. PICK expected \in Expectations(i) :
          request' = [request EXCEPT ![s] =
            [at |-> "setting", id |-> i, expected |-> expected, sweeps |-> TRUE,
             source |-> [file |-> h, link |-> link]]]
    BY <1>6 DEF SetsSource
  <2>2. RequestTyped([at |-> "setting", id |-> i, expected |-> expected, sweeps |-> TRUE,
                      source |-> [file |-> h, link |-> link]])
    BY DEF RequestTyped, Sources
  <2>3. QED
    BY <1>1, <1>6, <2>1, <2>2 DEF SetsSource
<1>7. ASSUME NEW i \in Ids, NEW link \in Links \cup {None}, LinksDem(s, i, link)
      PROVE  TypedInv'
  <2>1. [sources[i] EXCEPT !.link = link] \in Sources
    BY <1>0, <1>7 DEF LinksDem, StoreTyped, Sources
  <2>2. PICK r : r = [at |-> "setting", id |-> i, sweeps |-> FALSE,
                      expected |-> [is |-> "version", source |-> sources[i]],
                      source |-> [sources[i] EXCEPT !.link = link]]
    OBVIOUS
  <2>3. RequestTyped(r) /\ request' = [request EXCEPT ![s] = r]
    BY <1>7, <2>1, <2>2 DEF LinksDem, RequestTyped
  <2>4. QED
    BY <1>1, <1>7, <2>3 DEF LinksDem
<1>8. CASE WritesSource(s)
  <2>1. StoreTyped'
    BY <1>0, <1>8 DEF WritesSource, StoreTyped, RequestTyped, uploadVars
  <2>2. QED
    BY <1>8, <2>1, AnswersTyped DEF WritesSource
<1>9. ASSUME NEW i \in Ids, DeletesSource(s, i) PROVE TypedInv'
  <2>1. StoreTyped'
    BY <1>0, <1>9 DEF DeletesSource, StoreTyped, uploadVars
  <2>2. QED
    BY <1>9, <2>1, AnswersTyped DEF DeletesSource
<1>10. ASSUME NEW d \in Dems, NEW h \in Hashes, ChecksDem(s, d, h) PROVE TypedInv'
  <2>1. RequestTyped([at |-> "adding", dem |-> d, hash |-> h])
    BY DEF RequestTyped
  <2>2. QED
    BY <1>1, <1>10, <2>1 DEF ChecksDem
<1>11. CASE WritesDem(s)
  <2>1. StoreTyped'
    BY <1>0, <1>11 DEF WritesDem, StoreTyped, RequestTyped, uploadVars
  <2>2. QED
    BY <1>11, <2>1, AnswersTyped DEF WritesDem
<1>12. ASSUME NEW d \in Dems, DeletesDem(s, d) PROVE TypedInv'
  <2>1. StoreTyped'
    BY <1>0, <1>12 DEF DeletesDem, StoreTyped, uploadVars
  <2>2. QED
    BY <1>12, <2>1, AnswersTyped DEF DeletesDem
<1>13. CASE SweepReadsSources(s)
  <2>1. PICK r : r = [at |-> "reading DEMs", named |-> NamedBySources]
    OBVIOUS
  <2>2. QED
    BY <1>1, <1>13, <2>1 DEF SweepReadsSources, RequestTyped
<1>14. CASE SweepReadsDems(s)
  <2>1. PICK r : r = [at |-> "looking", named |-> q.named \cup NamedByDems]
    OBVIOUS
  <2>2. QED
    BY <1>1, <1>14, <2>1 DEF SweepReadsDems, RequestTyped
<1>15. CASE SweepDeletes(s)
  <2>1. StoreTyped'
    BY <1>0, <1>15 DEF SweepDeletes, Unlinks, StoreTyped, uploadVars
  <2>2. DOMAIN request' = Slots
    BY <1>15 DEF SweepDeletes, Unlinks, IncomingSwept
  <2>3. ASSUME NEW t \in Slots
        PROVE  \/ request'[t] = NoRequest
               \/ request'[t] = request[t]
               \/ /\ request[t].at = "storing"
                  /\ request'[t] = [request[t] EXCEPT !.age = Gone]
    BY <1>15 DEF SweepDeletes, Unlinks, IncomingSwept, TypedInv, NoRequest
  <2>4. ASSUME NEW t \in Slots PROVE RequestTyped(request'[t])
    <3>1. RequestTyped(request[t])
      BY DEF TypedInv
    <3>2. CASE request'[t] \in {NoRequest, request[t]}
      BY <3>1, <3>2 DEF RequestTyped, NoRequest
    <3>3. CASE /\ request[t].at = "storing"
               /\ request'[t] = [request[t] EXCEPT !.age = Gone]
      <4>1. request'[t] = [at |-> "storing", hash |-> request[t].hash, age |-> Gone]
        BY <3>1, <3>3 DEF RequestTyped
      <4>2. QED
        BY <3>1, <3>3, <4>1 DEF RequestTyped
    <3>4. QED
      BY <2>3, <3>2, <3>3
  <2>5. \A t \in Slots : RequestTyped(request[t])'
    BY <2>4 DEF RequestTyped
  <2>6. QED
    BY <2>1, <2>2, <2>5 DEF TypedInv
<1>16. QED
  BY <1>2, <1>3, <1>4, <1>5, <1>6, <1>7, <1>8, <1>9, <1>10, <1>11, <1>12, <1>13,
     <1>14, <1>15 DEF SlotNext

LEMMA TypesKept ==
  ASSUME TypedInv, UploadInv, RawAssumption, [NextRaw]_rawVars
  PROVE  TypedInv'
<1>1. ASSUME NEW h \in Hashes, Plans(h) \/ Settles(h) PROVE TypedInv'
  BY <1>1 DEF Plans, Settles, TypedInv, StoreTyped, RequestTyped, Ages, uploadVars
<1>2. ASSUME NEW hourOrDay \in {"hour", "day"}, TimePasses(hourOrDay) PROVE TypedInv'
  <2>1. UNCHANGED request /\ StoreTyped'
    BY <1>2 DEF TimePasses, UploadsAge, TypedInv, StoreTyped, Ages
  <2>2. QED
    BY <2>1 DEF TypedInv, RequestTyped
<1>3. CASE Restarts
  BY <1>3 DEF Restarts, TypedInv, StoreTyped, RequestTyped, storeVars, NoRequest
<1>4. CASE UNCHANGED rawVars
  BY <1>4 DEF rawVars, uploadVars, TypedInv, StoreTyped, RequestTyped
<1>5. QED
  BY <1>1, <1>2, <1>3, <1>4, UploadNextTyped, SlotNextTyped DEF NextRaw

-----------------------------------------------------------------------------
(***************************************************************************)
(* Links                                                                   *)
(***************************************************************************)

\* Only four handlers write the sources or the DEMs.
LEMMA LinksKept ==
  ASSUME TypedInv, NoneAssumption, LinksAgree, [NextRaw]_rawVars
  PROVE  LinksAgree'
<1>1. CASE UNCHANGED <<sources, dems>>
  BY <1>1 DEF LinksAgree
<1>2. ASSUME NEW s \in Slots, WritesSource(s) PROVE LinksAgree'
  BY <1>2 DEF WritesSource, LinksAgree, LinkTo, TypedInv, StoreTyped
<1>3. ASSUME NEW s \in Slots, NEW i \in Ids, DeletesSource(s, i) PROVE LinksAgree'
  BY <1>3 DEF DeletesSource, LinksAgree, TypedInv, StoreTyped
<1>4. \A i \in Ids : sources[i] # NoSource /\ sources[i].link # None
                     => sources[i].link.file # None
  BY DEF TypedInv, StoreTyped, Sources, Links, NoneAssumption
<1>5. ASSUME NEW s \in Slots, WritesDem(s) PROVE LinksAgree'
  <2>1. CASE UNCHANGED dems
    BY <1>1, <1>5, <2>1 DEF WritesDem
  <2>2. CASE ~UNCHANGED dems
    <3>1. PICK d : d = request[s].dem
      OBVIOUS
    <3>2. PICK h : dems' = [dems EXCEPT ![d] = h] /\ (dems[d] \in {None, h} \/ UsersOf(d) = {})
      BY <1>5, <2>2, <3>1 DEF WritesDem
    <3>3. dems[d] # h \/ d \notin Dems
      BY <2>2, <3>2 DEF TypedInv, StoreTyped
    <3>4. \A i \in Ids : sources[i] # NoSource /\ sources[i].link # None
                         => sources[i].link.dem \in Dems
      BY DEF TypedInv, StoreTyped, Sources, Links, NoneAssumption
    <3>5. \A i \in Ids : sources[i] # NoSource /\ sources[i].link # None
                         => sources[i].link.dem # d
      BY <1>4, <3>2, <3>3, <3>4 DEF UsersOf, LinksAgree
    <3>6. UNCHANGED sources
      BY <1>5 DEF WritesDem
    <3>7. QED
      BY <3>2, <3>4, <3>5, <3>6 DEF LinksAgree, TypedInv, StoreTyped
  <2>3. QED
    BY <2>1, <2>2
<1>6. ASSUME NEW s \in Slots, NEW d \in Dems, DeletesDem(s, d) PROVE LinksAgree'
  BY <1>6 DEF DeletesDem, LinksAgree, UsersOf, TypedInv, StoreTyped
<1>7. ASSUME NEW s \in Slots, SlotNext(s) PROVE LinksAgree'
  BY <1>1, <1>2, <1>3, <1>5, <1>6, <1>7
  DEF SlotNext, Receives, ReceivesUpload, Stores, StoresNothing, SetsSource, LinksDem,
      ChecksDem, SweepReadsSources, SweepReadsDems, SweepDeletes, Unlinks, storeVars
<1>8. QED
  BY <1>1, <1>7
  DEF NextRaw, Plans, Settles, TimePasses, Restarts, rawVars, storeVars

\* TypedInv and LinksAgree, beside UploadInv, are inductive.
THEOREM LinksInduct ==
  ASSUME NoneAssumption, RawAssumption
  PROVE  SpecRaw => [](UploadInv /\ TypedInv /\ LinksAgree)
<1>1. InitRaw => UploadInv /\ TypedInv /\ LinksAgree
  BY UploadsBegin DEF InitRaw, InitUploads, TypedInv, StoreTyped, RequestTyped,
     LinksAgree, NoRequest, Ages
<1>2. UploadInv /\ TypedInv /\ LinksAgree /\ [NextRaw]_rawVars
        => (UploadInv /\ TypedInv /\ LinksAgree)'
  BY UploadsKept, TypesKept, LinksKept
<1>3. QED
  BY <1>1, <1>2, PTL DEF SpecRaw

\* "A DEM's file cannot change while anything links to it, so the two agree":
\* the check under dem_links keeps the hash a source has of its DEM that of the
\* DEM's file, for any number of radargrams, DEMs and requests in flight.
THEOREM LinksAlwaysAgree == SpecRaw => []LinksAgree
<1>1. QED
  BY NoneAssumption, RawAssumption, LinksInduct, PTL

-----------------------------------------------------------------------------
(***************************************************************************)
(* Sweeps                                                                  *)
(***************************************************************************)

\* A file no sweep takes, or one of an upload that waited: the property excepts
\* those, for as long as they may be taken and while they are gone.
Spared(h) == files[h] = "young" \/ h \in lingered

\* What keeps a file that a request is about to name.
Kept(r) ==
    /\ r.at = "adding" => Spared(r.hash)
    /\ r.at = "setting" =>
         \/ Spared(r.source.file)
         \/ /\ r.expected.is = "version"
            /\ r.expected.source.file = r.source.file

\* What a sweep has read is all that it may not delete.
ReadEnough(r) ==
    /\ r.at = "reading DEMs" =>
         \A i \in Ids : sources[i] # NoSource
                        => Spared(sources[i].file) \/ sources[i].file \in r.named
    /\ r.at = "looking" =>
         \A h \in NamedBySources \cup NamedByDems : Spared(h) \/ h \in r.named

SweepInv ==
    /\ \A h \in pledged : Spared(h)
    /\ \A s \in Slots : Kept(request[s]) /\ ReadEnough(request[s])
    /\ NamedIsStored

RawInv == UploadInv /\ TypedInv /\ LinksAgree /\ SweepInv

LEMMA NamedAre ==
  ASSUME NEW h
  PROVE  /\ h \in NamedBySources <=>
              \E i \in Ids : /\ sources[i] # NoSource
                             /\ \/ h = sources[i].file
                                \/ sources[i].link # None /\ h = sources[i].link.file
         /\ h \in NamedByDems <=> \E d \in Dems : dems[d] = h /\ h # None
BY DEF NamedBySources, NamedBy, NamedByDems

\* By LinksAgree, a linked file is a DEM's.
LEMMA NamedTwice ==
  ASSUME RawInv, NoneAssumption, NEW h
  PROVE  h \in NamedBySources \cup NamedByDems <=>
           \/ \E i \in Ids : sources[i] # NoSource /\ h = sources[i].file
           \/ \E d \in Dems : dems[d] = h /\ h # None
<1>1. \A i \in Ids : sources[i] # NoSource /\ sources[i].link # None
        => /\ sources[i].link.dem \in Dems
           /\ dems[sources[i].link.dem] = sources[i].link.file
           /\ sources[i].link.file # None
  BY DEF RawInv, TypedInv, StoreTyped, Sources, Links, LinksAgree, NoneAssumption
<1>2. QED
  BY <1>1, NamedAre

\* A request of which nothing is asked.
Idle(r) == r.at \notin {"adding", "setting", "reading DEMs", "looking"}

\* Requests move on while no file, source or DEM changes.
LEMMA StoreRests ==
  ASSUME SweepInv, UNCHANGED storeVars,
         \A t \in Slots : Kept(request'[t]) /\ ReadEnough(request'[t])
  PROVE  SweepInv'
<1>1. UNCHANGED <<NamedBySources, NamedByDems>>
  BY DEF NamedBySources, NamedBy, NamedByDems, storeVars
<1>2. NamedIsStored'
  BY <1>1 DEF SweepInv, NamedIsStored, storeVars
<1>3. \A t \in Slots : Kept(request[t])'
  BY DEF Kept, Spared, storeVars
<1>4. \A t \in Slots : ReadEnough(request[t])'
  BY <1>1 DEF ReadEnough, Spared, storeVars
<1>5. QED
  BY <1>2, <1>3, <1>4 DEF SweepInv, Spared, storeVars

\* A step that only moves one request.
LEMMA SlotKept ==
  ASSUME RawInv, NEW s \in Slots, NEW r, request' = [request EXCEPT ![s] = r],
         Kept(r), ReadEnough(r), UNCHANGED storeVars
  PROVE  SweepInv'
<1>1. \A t \in Slots : request'[t] = IF t = s THEN r ELSE request[t]
  BY DEF RawInv, TypedInv
<1>2. QED
  BY <1>1, StoreRests DEF RawInv, SweepInv

LEMMA UploadNextSwept ==
  ASSUME RawInv, UploadNext, UNCHANGED storeVars
  PROVE  SweepInv'
<1>0. UploadInv /\ TypedInv /\ SweepInv
  BY DEF RawInv
<1>2. ASSUME NEW u \in Uploads, Declares(u) \/ CancelsUpload(u) PROVE SweepInv'
  BY <1>0, <1>2, StoreRests DEF Declares, CancelsUpload, SweepInv
<1>3. ASSUME NEW s \in Slots, NEW r, Idle(r), request' = [request EXCEPT ![s] = r]
      PROVE  SweepInv'
  BY <1>3, SlotKept DEF Idle, Kept, ReadEnough
<1>4. ASSUME NEW s \in Slots, NEW u \in Uploads, NEW from \in 1 .. Size,
             NEW to \in 1 .. Size, ChunkStarts(s, u, from, to)
      PROVE  SweepInv'
  <2>1. Idle([at |-> "measuring", upload |-> u, next |-> from, to |-> to])
    BY DEF Idle
  <2>2. QED
    BY <1>3, <1>4, <2>1 DEF ChunkStarts
<1>5. ASSUME NEW s \in Slots, NEW u \in Uploads, Claims(s, u) PROVE SweepInv'
  <2>1. Idle([at |-> "claimed", upload |-> u])
    BY DEF Idle
  <2>2. QED
    BY <1>3, <1>5, <2>1 DEF Claims
<1>6. ASSUME NEW s \in Slots, ChunkEnds(s) \/ TakesNothing(s) PROVE SweepInv'
  <2>1. Idle(NoRequest)
    BY DEF Idle, NoRequest
  <2>2. QED
    BY <1>3, <1>6, <2>1 DEF ChunkEnds, TakesNothing, Answers
<1>7. ASSUME NEW s \in Slots, ChunkOpens(s) PROVE SweepInv'
  <2>1. PICK r : r = [request[s] EXCEPT !.at = "writing"]
    OBVIOUS
  <2>2. request[s] = [at |-> request[s].at, upload |-> request[s].upload,
                      next |-> request[s].next, to |-> request[s].to]
    BY <1>0, <1>7 DEF ChunkOpens, UploadInv, InStep, Uses, Sends
  <2>3. Idle(r)
    BY <2>1, <2>2 DEF Idle
  <2>4. request' = [request EXCEPT ![s] = r]
    BY <1>0, <1>7, <2>1 DEF ChunkOpens, TypedInv
  <2>5. QED
    BY <1>3, <2>3, <2>4
<1>8. ASSUME NEW s \in Slots, ChunkWrites(s) PROVE SweepInv'
  <2>1. PICK r : r = [request[s] EXCEPT !.next = @ + 1]
    OBVIOUS
  <2>2. request[s] = [at |-> request[s].at, upload |-> request[s].upload,
                      next |-> request[s].next, to |-> request[s].to]
    BY <1>0, <1>8 DEF ChunkWrites, UploadInv, InStep, Uses, Sends
  <2>3. r.at = "writing"
    BY <1>8, <2>1, <2>2 DEF ChunkWrites
  <2>4. Idle(r) /\ request' = [request EXCEPT ![s] = r]
    BY <1>0, <1>8, <2>1, <2>3 DEF ChunkWrites, TypedInv, Idle
  <2>5. QED
    BY <1>3, <2>4
<1>9. ASSUME NEW s \in Slots, TakesPart(s) PROVE SweepInv'
  <2>1. PICK r : r = [at |-> "taken", upload |-> request[s].upload,
                      bytes |-> part[request[s].upload], age |-> partAge[request[s].upload]]
    OBVIOUS
  <2>2. Idle(r) /\ request' = [request EXCEPT ![s] = r]
    BY <1>9, <2>1 DEF TakesPart, Idle
  <2>3. QED
    BY <1>3, <2>2
<1>10. QED
  BY <1>2, <1>4, <1>5, <1>6, <1>7, <1>8, <1>9 DEF UploadNext

\* A request ends a step that writes: no file that is spared stops being so,
\* none goes, and a name is new only to a file that is spared.
LEMMA WriteKept ==
  ASSUME RawInv, NoneAssumption, NEW s \in Slots, NEW r,
         request' = [request EXCEPT ![s] = r], Idle(r),
         \A h \in Hashes : /\ Spared(h) => Spared(h)'
                           /\ files[h] # None => files'[h] # None,
         \A h \in pledged' : Spared(h)',
         \A i \in Ids : sources'[i] # NoSource =>
           \/ Spared(sources[i].file)'
           \/ \E j \in Ids : sources[j] # NoSource /\ sources[j].file = sources'[i].file,
         \A h \in NamedBySources' \cup NamedByDems' :
           h \in NamedBySources \cup NamedByDems \/ Spared(h)'
  PROVE  SweepInv'
<1>1. \A t \in Slots : request'[t] = IF t = s THEN r ELSE request[t]
  BY DEF RawInv, TypedInv
<1>2. /\ \A j \in Ids : sources[j] # NoSource => sources[j].file \in Hashes
      /\ \A h \in NamedBySources \cup NamedByDems : h \in Hashes
  BY NamedTwice DEF RawInv, TypedInv, StoreTyped, Sources, NoneAssumption
<1>3. NamedIsStored'
  BY <1>2 DEF RawInv, SweepInv, NamedIsStored, Spared, NoneAssumption, Ages
<1>4. ASSUME NEW t \in Slots PROVE Kept(request[t])' /\ ReadEnough(request[t])'
  <2>1. CASE t = s
    <3>1. request'[t] = r
      BY <1>1, <2>1
    <3>2. QED
      BY <3>1 DEF Kept, ReadEnough, Idle
  <2>2. CASE t # s
    <3>1. /\ request'[t] = request[t] /\ RequestTyped(request[t])
          /\ Kept(request[t]) /\ ReadEnough(request[t])
      BY <1>1, <2>2 DEF RawInv, TypedInv, SweepInv
    <3>2. Kept(request[t])'
      BY <3>1 DEF Kept, Spared, RequestTyped, Sources
    <3>3. ReadEnough(request[t])'
      BY <1>2, <3>1 DEF ReadEnough, Spared
    <3>4. QED
      BY <3>2, <3>3
  <2>3. QED
    BY <2>1, <2>2
<1>5. QED
  BY <1>3, <1>4 DEF RawInv, SweepInv, Spared

LEMMA IdleRequests == Idle(NoRequest) /\ Idle(Sweeping)
BY DEF Idle, NoRequest, Sweeping

LEMMA SlotNextSwept ==
  ASSUME RawInv, NoneAssumption, NEW s \in Slots, SlotNext(s)
  PROVE  SweepInv'
<1>0. /\ UploadInv /\ TypedInv /\ SweepInv /\ LinksAgree
      /\ StoreTyped /\ RequestTyped(request[s])
      /\ Kept(request[s]) /\ ReadEnough(request[s])
      /\ "young" # None /\ \A h \in Hashes : h # None
  BY DEF RawInv, TypedInv, SweepInv, NoneAssumption, Ages
<1>1. ASSUME NEW h \in Hashes, Receives(s, h) PROVE SweepInv'
  <2>1. PICK r : r = [at |-> "storing", hash |-> h, age |-> "young"]
    OBVIOUS
  <2>2. QED
    BY <1>1, <2>1, SlotKept DEF Receives, Kept, ReadEnough, uploadVars
<1>2. CASE ReceivesUpload(s)
  <2>1. PICK r : r = [at |-> "storing", hash |-> HashOf[request[s].upload],
                      age |-> request[s].age]
    OBVIOUS
  <2>2. Kept(r) /\ ReadEnough(r)
    BY <2>1 DEF Kept, ReadEnough
  <2>3. QED
    BY <1>2, <2>1, <2>2, SlotKept DEF ReceivesUpload, ForgetsUpload
<1>3. CASE Stores(s)
  <2>1. PICK h : h = request[s].hash
    OBVIOUS
  <2>2. /\ h \in Hashes
        /\ files[h] # None \/ request[s].age \in Ages
    BY <1>0, <1>3, <2>1 DEF Stores, RequestTyped
  <2>3. /\ files' = [files EXCEPT ![h] = IF @ # None THEN "young" ELSE request[s].age]
        /\ lingered' = Lingering(h, request[s].age)
    BY <1>3, <2>1 DEF Stores
  <2>4. /\ \A g \in Hashes : /\ Spared(g) => Spared(g)'
                             /\ files[g] # None => files'[g] # None
        /\ Spared(h)'
    BY <1>0, <2>2, <2>3 DEF Spared, StoreTyped, Lingering, Ages
  <2>5. \A g \in pledged' : Spared(g)'
    BY <1>0, <1>3, <2>1, <2>4 DEF Stores, SweepInv, StoreTyped
  <2>6. UNCHANGED <<sources, dems, NamedBySources, NamedByDems>>
    BY <1>3 DEF Stores, NamedBySources, NamedBy, NamedByDems
  <2>7. QED
    BY <1>0, <1>3, <2>4, <2>5, <2>6, WriteKept, IdleRequests DEF Stores, Answers, uploadVars
<1>4. CASE StoresNothing(s)
  <2>1. Kept(NoRequest) /\ ReadEnough(NoRequest)
    BY DEF Kept, ReadEnough, NoRequest
  <2>2. QED
    BY <1>4, <2>1, SlotKept DEF StoresNothing, Answers, uploadVars
<1>5. ASSUME NEW i \in Ids, NEW h \in Hashes, NEW link \in Links \cup {None},
             SetsSource(s, i, h, link)
      PROVE  SweepInv'
  <2>1. PICK expected \in Expectations(i) :
          /\ MayName(h, expected)
          /\ request' = [request EXCEPT ![s] =
               [at |-> "setting", id |-> i, expected |-> expected, sweeps |-> TRUE,
                source |-> [file |-> h, link |-> link]]]
    BY <1>5 DEF SetsSource
  <2>2. PICK r : r = [at |-> "setting", id |-> i, expected |-> expected, sweeps |-> TRUE,
                      source |-> [file |-> h, link |-> link]]
    OBVIOUS
  <2>3. Kept(r) /\ ReadEnough(r)
    BY <1>0, <2>1, <2>2 DEF MayName, Kept, ReadEnough, SweepInv
  <2>4. QED
    BY <1>5, <2>1, <2>2, <2>3, SlotKept DEF SetsSource, uploadVars
<1>6. ASSUME NEW i \in Ids, NEW link \in Links \cup {None}, LinksDem(s, i, link)
      PROVE  SweepInv'
  <2>1. PICK r : r = [at |-> "setting", id |-> i, sweeps |-> FALSE,
                      expected |-> [is |-> "version", source |-> sources[i]],
                      source |-> [sources[i] EXCEPT !.link = link]]
    OBVIOUS
  <2>2. [sources[i] EXCEPT !.link = link].file = sources[i].file
    BY <1>0, <1>6 DEF LinksDem, StoreTyped, Sources
  <2>3. Kept(r) /\ ReadEnough(r)
    BY <2>1, <2>2 DEF Kept, ReadEnough
  <2>4. QED
    BY <1>6, <2>1, <2>3, SlotKept DEF LinksDem, uploadVars
<1>7. ASSUME UNCHANGED <<files, pledged, lingered>>, Answers(s) \/ ThenSweeps(s),
             \A i \in Ids : sources'[i] # NoSource =>
               \/ Spared(sources[i].file)'
               \/ \E j \in Ids : sources[j] # NoSource /\ sources[j].file = sources'[i].file,
             \A h \in NamedBySources' \cup NamedByDems' :
               h \in NamedBySources \cup NamedByDems \/ Spared(h)'
      PROVE  SweepInv'
  <2>1. /\ \A h \in Hashes : /\ Spared(h) => Spared(h)'
                             /\ files[h] # None => files'[h] # None
        /\ \A h \in pledged' : Spared(h)'
    BY <1>0, <1>7 DEF SweepInv, Spared
  <2>2. PICK r : Idle(r) /\ request' = [request EXCEPT ![s] = r]
    BY <1>7, IdleRequests DEF Answers, ThenSweeps
  <2>3. QED
    BY <1>7, <2>1, <2>2, WriteKept
<1>8. CASE WritesSource(s)
  <2>1. CASE UNCHANGED sources
    <3>1. UNCHANGED <<NamedBySources, NamedByDems>>
      BY <1>8, <2>1 DEF WritesSource, NamedBySources, NamedBy, NamedByDems
    <3>2. QED
      BY <1>7, <1>8, <2>1, <3>1 DEF WritesSource, uploadVars
  <2>2. CASE ~UNCHANGED sources
    <3>1. PICK q : q = request[s]
      OBVIOUS
    <3>2. /\ q.id \in Ids /\ q.source \in Sources
          /\ sources' = [sources EXCEPT ![q.id] = q.source]
          /\ q.source.link # None => q.source.link = LinkTo(q.source.link.dem)
          /\ Meets(q.expected, sources[q.id])
          /\ UNCHANGED dems
      BY <1>0, <1>8, <2>2, <3>1 DEF WritesSource, RequestTyped
    <3>3. \/ Spared(q.source.file)
          \/ sources[q.id] # NoSource /\ sources[q.id].file = q.source.file
      BY <1>0, <1>8, <3>1, <3>2 DEF WritesSource, Kept, Meets
    <3>4. \A i \in Ids : sources'[i] = IF i = q.id THEN q.source ELSE sources[i]
      BY <1>0, <3>2 DEF StoreTyped
    <3>5. q.source.link # None
            => q.source.link.dem \in Dems /\ dems[q.source.link.dem] = q.source.link.file
      BY <3>2 DEF Sources, Links, LinkTo
    <3>6. ASSUME NEW h \in NamedBySources' \cup NamedByDems'
          PROVE  h \in NamedBySources \cup NamedByDems \/ Spared(h)
      <4>1. CASE h \in NamedByDems'
        BY <3>2, <4>1 DEF NamedByDems
      <4>2. CASE h \in NamedBySources'
        <5>0. PICK i \in Ids : h \in NamedBy(sources'[i])
          BY <4>2 DEF NamedBySources
        <5>1. /\ sources'[i] # NoSource
              /\ \/ h = sources'[i].file
                 \/ sources'[i].link # None /\ h = sources'[i].link.file
          BY <5>0 DEF NamedBy
        <5>2. CASE i # q.id
          BY <3>4, <5>1, <5>2, NamedAre
        <5>3. CASE i = q.id /\ h = q.source.file
          BY <3>2, <3>3, <5>3, NamedAre
        <5>4. CASE i = q.id /\ q.source.link # None /\ h = q.source.link.file
          <6>1. h # None
            BY <1>0, <3>2, <5>4 DEF Sources, Links
          <6>2. QED
            BY <3>5, <5>4, <6>1, NamedAre
        <5>5. QED
          BY <3>4, <5>1, <5>2, <5>3, <5>4
      <4>3. QED
        BY <4>1, <4>2
    <3>7. UNCHANGED <<files, pledged, lingered>>
      BY <1>8 DEF WritesSource
    <3>8. QED
      BY <1>7, <1>8, <3>2, <3>3, <3>4, <3>6, <3>7 DEF WritesSource, Spared
  <2>3. QED
    BY <2>1, <2>2
<1>9. ASSUME NEW i \in Ids, DeletesSource(s, i) PROVE SweepInv'
  <2>1. \A j \in Ids : sources'[j] \in {NoSource, sources[j]}
    BY <1>0, <1>9 DEF DeletesSource, StoreTyped
  <2>2. NamedBySources' \subseteq NamedBySources /\ UNCHANGED NamedByDems
    BY <1>9, <2>1 DEF DeletesSource, NamedBySources, NamedBy, NamedByDems
  <2>3. QED
    BY <1>7, <1>9, <2>1, <2>2 DEF DeletesSource, uploadVars
<1>10. ASSUME NEW d \in Dems, NEW h \in Hashes, ChecksDem(s, d, h) PROVE SweepInv'
  <2>1. PICK r : r = [at |-> "adding", dem |-> d, hash |-> h]
    OBVIOUS
  <2>2. Kept(r) /\ ReadEnough(r)
    BY <1>0, <1>10, <2>1 DEF ChecksDem, Kept, ReadEnough, SweepInv
  <2>3. QED
    BY <1>10, <2>1, <2>2, SlotKept DEF ChecksDem, uploadVars
<1>11. CASE WritesDem(s)
  <2>1. \A d \in Dems : dems'[d] = dems[d] \/ Spared(dems'[d])
    BY <1>0, <1>11 DEF WritesDem, StoreTyped, RequestTyped, Kept
  <2>2. UNCHANGED NamedBySources
    BY <1>11 DEF WritesDem, NamedBySources, NamedBy
  <2>3. \A h \in NamedByDems' : h \in NamedByDems \/ Spared(h)
    BY <2>1 DEF NamedByDems
  <2>4. UNCHANGED <<files, pledged, lingered, sources>>
    BY <1>11 DEF WritesDem
  <2>5. QED
    BY <1>7, <1>11, <2>2, <2>3, <2>4 DEF WritesDem, Spared
<1>12. ASSUME NEW d \in Dems, DeletesDem(s, d) PROVE SweepInv'
  <2>1. NamedByDems' \subseteq NamedByDems
    BY <1>0, <1>12 DEF DeletesDem, NamedByDems, StoreTyped
  <2>2. UNCHANGED NamedBySources
    BY <1>12 DEF DeletesDem, NamedBySources, NamedBy
  <2>3. QED
    BY <1>7, <1>12, <2>1, <2>2 DEF DeletesDem, uploadVars
<1>13. CASE SweepReadsSources(s)
  <2>1. PICK r : r = [at |-> "reading DEMs", named |-> NamedBySources]
    OBVIOUS
  <2>2. Kept(r) /\ ReadEnough(r)
    BY <2>1, NamedAre DEF Kept, ReadEnough
  <2>3. QED
    BY <1>13, <2>1, <2>2, SlotKept DEF SweepReadsSources, uploadVars
<1>14. CASE SweepReadsDems(s)
  <2>1. PICK r : r = [at |-> "looking", named |-> request[s].named \cup NamedByDems]
    OBVIOUS
  <2>2. ASSUME NEW h \in NamedBySources \cup NamedByDems
        PROVE  Spared(h) \/ h \in r.named
    <3>1. CASE \E d \in Dems : dems[d] = h /\ h # None
      BY <2>1, <3>1, NamedAre
    <3>2. CASE \E i \in Ids : sources[i] # NoSource /\ h = sources[i].file
      BY <1>0, <1>14, <2>1, <3>2 DEF SweepReadsDems, ReadEnough
    <3>3. QED
      BY <3>1, <3>2, NamedTwice
  <2>3. Kept(r) /\ ReadEnough(r)
    BY <2>1, <2>2 DEF Kept, ReadEnough
  <2>4. QED
    BY <1>14, <2>1, <2>3, SlotKept DEF SweepReadsDems, uploadVars
<1>15. CASE SweepDeletes(s)
  <2>1. \A h \in Hashes : Spared(h) => Spared(h)'
    BY <1>15 DEF SweepDeletes, Unlinks, Doomed, Spared
  <2>2. \A h \in NamedBySources \cup NamedByDems : h \in Hashes
    BY <1>0, NamedTwice DEF StoreTyped, Sources
  <2>3. \A h \in (NamedBySources \cup NamedByDems) \ lingered : files'[h] # None
    BY <1>0, <1>15, <2>1, <2>2
    DEF SweepDeletes, Unlinks, Doomed, ReadEnough, SweepInv, NamedIsStored, Spared
  <2>4. \A t \in Slots : \/ request'[t] = NoRequest
                        \/ request'[t] = request[t]
                        \/ request'[t].at = "storing"
    BY <1>0, <1>15 DEF SweepDeletes, Unlinks, IncomingSwept, TypedInv, RequestTyped,
       NoRequest
  <2>5. UNCHANGED <<pledged, lingered, sources, dems, NamedBySources, NamedByDems>>
    BY <1>15 DEF SweepDeletes, Unlinks, NamedBySources, NamedBy, NamedByDems
  <2>6. NamedIsStored'
    BY <2>3, <2>5 DEF NamedIsStored
  <2>7. ASSUME NEW t \in Slots PROVE Kept(request[t])' /\ ReadEnough(request[t])'
    <3>1. CASE request'[t] = NoRequest \/ request'[t].at = "storing"
      <4>1. request'[t].at \in {"none", "storing"}
        BY <3>1 DEF NoRequest
      <4>2. QED
        BY <4>1 DEF Kept, ReadEnough
    <3>2. CASE request'[t] = request[t]
      <4>1. /\ request'[t] = request[t] /\ RequestTyped(request[t])
            /\ Kept(request[t]) /\ ReadEnough(request[t])
        BY <1>0, <3>2 DEF TypedInv, SweepInv
      <4>2. Kept(request[t])'
        BY <2>1, <4>1 DEF Kept, Spared, RequestTyped, Sources
      <4>3. \A i \in Ids : sources[i] # NoSource => sources[i].file \in Hashes
        BY <1>0 DEF StoreTyped, Sources
      <4>4. ReadEnough(request[t])'
        BY <2>1, <2>2, <2>5, <4>1, <4>3 DEF ReadEnough, Spared
      <4>5. QED
        BY <4>2, <4>4
    <3>3. QED
      BY <2>4, <3>1, <3>2
  <2>8. \A h \in pledged' : Spared(h)'
    BY <1>0, <2>1, <2>5 DEF SweepInv, StoreTyped
  <2>9. QED
    BY <1>0, <2>5, <2>6, <2>7, <2>8 DEF SweepInv, Spared
<1>16. QED
  BY <1>1, <1>2, <1>3, <1>4, <1>5, <1>6, <1>8, <1>9, <1>10, <1>11, <1>12, <1>13, <1>14,
     <1>15 DEF SlotNext

\* When an hour passes nobody is about to name a file, and what was not swept
\* is as old as any other.
LEMMA SweepKept ==
  ASSUME RawInv, NoneAssumption, [NextRaw]_rawVars
  PROVE  SweepInv'
<1>0. /\ UploadInv /\ TypedInv /\ SweepInv /\ StoreTyped
      /\ "young" # None /\ "old" # None
  BY DEF RawInv, TypedInv, NoneAssumption, Ages
<1>1. ASSUME NEW h \in Hashes, Plans(h) \/ Settles(h) PROVE SweepInv'
  <2>1. UNCHANGED <<request, sources, dems, NamedBySources, NamedByDems>>
    BY <1>1 DEF Plans, Settles, NamedBySources, NamedBy, NamedByDems
  <2>2. \A g \in Hashes : /\ Spared(g) => Spared(g)'
                          /\ files[g] # None => files'[g] # None
    BY <1>0, <1>1 DEF Plans, Settles, StoreTyped, Spared
  <2>3. \A g \in pledged' : Spared(g)'
    <3>1. pledged' \subseteq Hashes /\ (pledged' \subseteq pledged \/ Spared(h)')
      BY <1>0, <1>1 DEF Plans, Settles, StoreTyped, Spared
    <3>2. pledged' \subseteq pledged \cup {h}
      BY <1>1 DEF Plans, Settles
    <3>3. QED
      BY <1>0, <2>2, <3>1, <3>2 DEF SweepInv, Spared
  <2>4. /\ \A j \in Ids : sources[j] # NoSource => sources[j].file \in Hashes
        /\ \A g \in NamedBySources \cup NamedByDems : g \in Hashes
    BY <1>0, NamedTwice DEF StoreTyped, Sources
  <2>5. NamedIsStored'
    BY <1>0, <2>1, <2>2, <2>4 DEF SweepInv, NamedIsStored, Spared
  <2>6. ASSUME NEW t \in Slots PROVE Kept(request[t])' /\ ReadEnough(request[t])'
    <3>1. /\ request'[t] = request[t] /\ RequestTyped(request[t])
          /\ Kept(request[t]) /\ ReadEnough(request[t])
      BY <1>0, <2>1 DEF TypedInv, SweepInv
    <3>2. Kept(request[t])'
      BY <2>2, <3>1 DEF Kept, Spared, RequestTyped, Sources
    <3>3. ReadEnough(request[t])'
      BY <2>1, <2>2, <2>4, <3>1 DEF ReadEnough, Spared
    <3>4. QED
      BY <3>2, <3>3
  <2>7. QED
    BY <1>0, <2>1, <2>3, <2>5, <2>6 DEF SweepInv, Spared
<1>2. ASSUME NEW hourOrDay \in {"hour", "day"}, TimePasses(hourOrDay) PROVE SweepInv'
  <2>1. UNCHANGED <<request, sources, dems, pledged, NamedBySources, NamedByDems>>
    BY <1>2 DEF TimePasses, NamedBySources, NamedBy, NamedByDems
  <2>2. \A h \in NamedBySources \cup NamedByDems : h \in Hashes
    BY <1>0, NamedTwice DEF StoreTyped, Sources
  <2>3. NamedIsStored'
    BY <1>0, <1>2, <2>1, <2>2 DEF TimePasses, SweepInv, NamedIsStored
  <2>4. \A t \in Slots : Kept(request[t])' /\ ReadEnough(request[t])'
    BY <1>2, <2>1 DEF TimePasses, Kept, ReadEnough
  <2>5. QED
    BY <1>2, <2>1, <2>3, <2>4 DEF TimePasses, SweepInv
<1>3. CASE Restarts
  <2>1. \A t \in Slots : Kept(request'[t]) /\ ReadEnough(request'[t])
    BY <1>3 DEF Restarts, Kept, ReadEnough, NoRequest
  <2>2. QED
    BY <1>0, <1>3, <2>1, StoreRests DEF Restarts
<1>4. CASE UNCHANGED rawVars
  BY <1>0, <1>4, StoreRests DEF rawVars, storeVars, SweepInv
<1>5. QED
  BY <1>1, <1>2, <1>3, <1>4, UploadNextSwept, SlotNextSwept DEF NextRaw

\* RawInv is inductive.
THEOREM RawInduct ==
  ASSUME NoneAssumption, RawAssumption
  PROVE  SpecRaw => []RawInv
<1>1. InitRaw => RawInv
  <2> SUFFICES ASSUME InitRaw PROVE RawInv
    OBVIOUS
  <2>1. TypedInv /\ LinksAgree
    BY DEF InitRaw, InitUploads, TypedInv, StoreTyped, RequestTyped, LinksAgree,
       NoRequest, Ages
  <2>2. NamedBySources = {} /\ NamedByDems = {}
    BY DEF InitRaw, NamedBySources, NamedBy, NamedByDems
  <2>3. SweepInv
    BY <2>2 DEF InitRaw, InitUploads, SweepInv, Kept, ReadEnough, NoRequest, NamedIsStored
  <2>4. QED
    BY <2>1, <2>3, UploadsBegin DEF RawInv
<1>2. RawInv /\ [NextRaw]_rawVars => RawInv'
  BY UploadsKept, TypesKept, LinksKept, SweepKept DEF RawInv
<1>3. QED
  BY <1>1, <1>2, PTL DEF SpecRaw

\* "An upload whose source is not written yet is not swept from under it": while
\* whoever stores a file names it within the hour, no sweep deletes a file that
\* a source or a DEM names, however requests and sweeps interleave and however
\* long uploads wait: only a file that was stored as old as its upload, and not
\* made young since, may go (MCRawSwept.cfg).
THEOREM NamedIsAlwaysStored == SpecRaw => []NamedIsStored
<1>1. RawInv => NamedIsStored
  BY DEF RawInv, SweepInv
<1>2. QED
  BY <1>1, NoneAssumption, RawAssumption, RawInduct, PTL

===============================================================================
