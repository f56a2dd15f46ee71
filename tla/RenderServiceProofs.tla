--------------------------- MODULE RenderServiceProofs ---------------------------
(***************************************************************************)
(* Theorems about rendering, for any requests, radargrams, permits and     *)
(* budget: the limits hold, an image is drawn once, and what a radargram   *)
(* finds stored was read from its own file.                                *)
(*                                                                         *)
(* The stamp is what the last rests on.  A request that still holds a      *)
(* replaced service may read the new file and keep what it read under the  *)
(* old service's keys, so an image need not be what its key says.  It is   *)
(* when the key has the stamp of the file that is there now (Newest), and  *)
(* no file has the stamp of one before it.                                 *)
(***************************************************************************)
EXTENDS RenderService, FiniteSetTheorems, SequenceTheorems, WellFoundedInduction, TLAPS

USE RenderAssumption

Pcs == {"idle", "look", "quota", "permit", "spawned", "rendering", "used", "touch", "done"}
PermitKinds == {"build", "figure", "render"}
ImageKinds == {"chunk", "overview"}

Service == [of : Radargrams, rev : Revisions, stamp : Nat, reader : Revisions \union {Closed}]
File == [rev : Revisions, stamp : Nat]
Image == [key : [svc : Nat, kind : ImageKinds], kind : ImageKinds, was : Revisions]
Overview == [key : [of : Radargrams, rev : Revisions, stamp : Nat], was : Revisions]
Request == [pc : Pcs, kind : Kinds, svc : Nat, holds : SUBSET PermitKinds,
            found : BOOLEAN, open : BOOLEAN, gone : BOOLEAN]
Replacement == [step : {"idle", "closed", "renamed"}, of : Radargrams, to : Revisions]

RenderTyped ==
    /\ file \in [Radargrams -> File]
    /\ services \in Seq(Service)
    /\ served \in [Radargrams -> 0..Len(services)]
    /\ cache \in Seq(Image)
    /\ disk \subseteq Overview
    /\ client \in [Clients -> Request]
    /\ operator \in Replacement
    /\ \A c \in Clients : client[c].pc \notin {"idle", "done"} => client[c].svc \in 1..Len(services)

(* Permits: what a task that renders has, and that no more are out than there are. *)
HasPermits(c) ==
    /\ client[c].kind = "overview" /\ client[c].pc \in {"permit", "spawned", "rendering"} =>
           "build" \in client[c].holds
    /\ client[c].kind = "figure" /\ client[c].pc \in {"permit", "spawned", "rendering"} =>
           "figure" \in client[c].holds
    /\ client[c].pc \in {"spawned", "rendering"} => "render" \in client[c].holds

PermitsHold ==
    /\ \A c \in Clients : HasPermits(c)
    /\ \A p \in PermitKinds : Cardinality(Holding(p)) <= Permits(p)

WithinBudget == Bytes(cache) <= MaxBytes \/ Len(cache) = 1

(* A service's lock: one task renders with it, its reader is open, and what it draws
   is not in memory. *)
Renders(c) ==
    At(c, "rendering") =>
        /\ services[client[c].svc].reader # Closed
        /\ InMemory(client[c].svc, client[c].kind) = {}
        /\ \A d \in Clients : At(d, "rendering") /\ client[d].svc = client[c].svc => d = c

(* A service or an image of the file that is there now, and not of one before. *)
NewestService(s) ==
    /\ services[s].stamp <= file[services[s].of].stamp
    /\ services[s].stamp = file[services[s].of].stamp =>
           /\ services[s].rev = file[services[s].of].rev
           /\ services[s].reader \in {Closed, services[s].rev}

NewestImage(i) ==
    LET s == cache[i].key.svc IN
        /\ s \in 1..Len(services)
        /\ services[s].stamp = file[services[s].of].stamp => cache[i].was = services[s].rev

NewestOverview(d) ==
    /\ d.key.stamp <= file[d.key.of].stamp
    /\ d.key.stamp = file[d.key.of].stamp => d.was = d.key.rev

ServedIsNewest(r) ==
    served[r] # 0 =>
        /\ services[served[r]].of = r
        /\ services[served[r]].stamp = file[r].stamp

Newest ==
    /\ \A s \in 1..Len(services) : NewestService(s)
    /\ \A i \in 1..Len(cache) : NewestImage(i)
    /\ \A d \in disk : NewestOverview(d)
    /\ \A r \in Radargrams : ServedIsNewest(r)
    /\ operator.step # "idle" => served[operator.of] = 0

RenderInv ==
    /\ RenderTyped /\ PermitsHold /\ WithinBudget /\ Newest
    /\ \A c \in Clients : Renders(c)

-----------------------------------------------------------------------------

\* A set of numbers has a least one.
LEMMA LeastOf ==
  ASSUME NEW T, T \subseteq Nat, T # {}
  PROVE  \E least \in T : \A n \in T : least <= n
<1>1. PICK least \in T : \A n \in T : ~(<<n, least>> \in OpToRel(<, Nat))
  BY NatLessThanWellFounded, WFMin, Zenon
<1>2. ASSUME NEW n \in T PROVE ~(n < least)
  <2>1. n \in Nat /\ least \in Nat /\ ~(<<n, least>> \in OpToRel(<, Nat))
    BY <1>1
  <2>2. QED
    BY <2>1, Zenon DEF OpToRel
<1>3. QED
  BY <1>2

\* What is left of the images when the oldest have gone: within the budget,
\* or the newest alone.
LEMMA TrimmedHolds ==
  ASSUME NEW entries \in Seq(Image), Len(entries) > 0
  PROVE  /\ Trimmed(entries) \in Seq(Image)
         /\ Bytes(Trimmed(entries)) <= MaxBytes \/ Len(Trimmed(entries)) = 1
         /\ \A i \in 1..Len(Trimmed(entries)) :
               \E j \in 1..Len(entries) : Trimmed(entries)[i] = entries[j]
<1> DEFINE n == Len(entries)
           fits(i) == Bytes(SubSeq(entries, i, n)) <= MaxBytes
           Enough == {i \in 1..n : fits(i) \/ i = n}
           IsFirst(i) == (fits(i) \/ i = n) /\ \A j \in 1..(i - 1) : ~fits(j)
           first == CHOOSE i \in 1..n : IsFirst(i)
<1>1. n \in Nat /\ n > 0
  OBVIOUS
<1>2. PICK least \in Enough : \A i \in Enough : least <= i
  <2>1. n \in Enough /\ Enough \subseteq Nat
    BY <1>1
  <2>2. QED
    BY <2>1, LeastOf
<1>3. \A j \in 1..(least - 1) : ~fits(j)
  <2>1. ASSUME NEW j \in 1..(least - 1), fits(j) PROVE FALSE
    <3>1. j \in 1..n /\ j < least
      BY <1>1, <1>2
    <3>2. j \in Enough
      BY <2>1, <3>1
    <3>3. least <= j
      BY <1>2, <3>2
    <3>4. QED
      BY <1>2, <3>1, <3>3
  <2>2. QED
    BY <2>1
<1>4. least \in 1..n /\ IsFirst(least)
  BY <1>2, <1>3
<1>5. first \in 1..n /\ IsFirst(first)
  BY <1>4, Zenon
<1>6. Trimmed(entries) = SubSeq(entries, first, n)
  BY Zenon DEF Trimmed
<1>7. fits(first) => Bytes(Trimmed(entries)) <= MaxBytes
  BY <1>6
<1>8. fits(first) \/ first = n
  BY <1>5
<1> HIDE DEF first, fits, IsFirst
<1>9. /\ SubSeq(entries, first, n) \in Seq(Image)
      /\ Len(SubSeq(entries, first, n)) = n - first + 1
      /\ \A i \in 1..(n - first + 1) :
            /\ SubSeq(entries, first, n)[i] = entries[first + i - 1]
            /\ first + i - 1 \in 1..n
  BY <1>1, <1>5
<1>10. QED
  BY <1>1, <1>5, <1>6, <1>7, <1>8, <1>9

\* A cache without an image has nothing it did not have.
LEMMA WithoutHolds ==
  ASSUME cache \in Seq(Image), NEW s, NEW k
  PROVE  /\ Without(s, k) \in Seq(Image)
         /\ \A i \in 1..Len(Without(s, k)) : \E j \in 1..Len(cache) : Without(s, k)[i] = cache[j]
<1>1. CASE InMemory(s, k) = {}
  BY <1>1 DEF Without
<1>2. CASE InMemory(s, k) # {}
  <2> DEFINE at == CHOOSE i \in InMemory(s, k) : TRUE
             before == SubSeq(cache, 1, at - 1)
             after == SubSeq(cache, at + 1, Len(cache))
  <2>1. at \in 1..Len(cache) /\ Len(cache) \in Nat
    BY <1>2 DEF InMemory
  <2>2. Without(s, k) = before \o after
    BY <1>2 DEF Without, RemoveAt
  <2> HIDE DEF at
  <2>3. /\ before \in Seq(Image) /\ Len(before) = at - 1
        /\ \A i \in 1..(at - 1) : before[i] = cache[i]
    BY <2>1
  <2>4. /\ after \in Seq(Image) /\ Len(after) = Len(cache) - at
        /\ \A i \in 1..(Len(cache) - at) : after[i] = cache[at + i]
    BY <2>1
  <2> HIDE DEF before, after
  <2>5. before \o after \in Seq(Image) /\ Len(before \o after) = Len(cache) - 1
    <3>1. before \o after \in Seq(Image) /\ Len(before \o after) = Len(before) + Len(after)
      BY <2>3, <2>4
    <3>2. at \in Int /\ Len(cache) \in Int
      BY <2>1
    <3>3. QED
      BY <2>3, <2>4, <3>1, <3>2
  <2>6. ASSUME NEW i \in 1..(Len(cache) - 1)
        PROVE  \E j \in 1..Len(cache) : (before \o after)[i] = cache[j]
    <3>1. CASE i <= at - 1
      <4>1. (before \o after)[i] = before[i] /\ i \in 1..(at - 1)
        BY <2>1, <2>3, <2>4, <3>1
      <4>2. QED
        BY <2>1, <2>3, <4>1
    <3>2. CASE i > at - 1
      <4>1. (before \o after)[i] = after[i - (at - 1)] /\ i - (at - 1) \in 1..(Len(cache) - at)
        BY <2>1, <2>3, <2>4, <3>2
      <4>2. at + (i - (at - 1)) \in 1..Len(cache)
        BY <2>1, <3>2
      <4>3. QED
        BY <2>4, <4>1, <4>2
    <3>3. i <= at - 1 \/ i > at - 1
      BY <2>1
    <3>4. QED
      BY <3>1, <3>2, <3>3
  <2>7. QED
    BY <2>2, <2>5, <2>6
<1>3. QED
  BY <1>1, <1>2

\* An image goes into memory with what is there, as far as the budget goes.
LEMMA InsertedHolds ==
  ASSUME cache \in Seq(Image), NEW s \in Nat, NEW k \in ImageKinds, NEW was \in Revisions
  PROVE  /\ Inserted(s, k, was) \in Seq(Image)
         /\ Bytes(Inserted(s, k, was)) <= MaxBytes \/ Len(Inserted(s, k, was)) = 1
         /\ \A i \in 1..Len(Inserted(s, k, was)) :
               \/ /\ Inserted(s, k, was)[i].key = MemoryKey(s, k)
                  /\ Inserted(s, k, was)[i].was = was
               \/ \E j \in 1..Len(cache) : Inserted(s, k, was)[i] = cache[j]
<1> DEFINE new == [key |-> MemoryKey(s, k), kind |-> k, was |-> was]
           entries == Append(Without(s, k), new)
<1>1. new \in Image
  BY DEF Image, MemoryKey
<1>2. new.key = MemoryKey(s, k) /\ new.was = was
  OBVIOUS
<1>3. /\ Without(s, k) \in Seq(Image)
      /\ \A i \in 1..Len(Without(s, k)) : \E j \in 1..Len(cache) : Without(s, k)[i] = cache[j]
  BY WithoutHolds
<1> HIDE DEF new
<1>4. /\ entries \in Seq(Image) /\ Len(entries) = Len(Without(s, k)) + 1
      /\ Len(Without(s, k)) \in Nat
      /\ \A i \in 1..Len(Without(s, k)) : entries[i] = Without(s, k)[i]
      /\ entries[Len(Without(s, k)) + 1] = new
  BY <1>1, <1>3
<1>5. Inserted(s, k, was) = Trimmed(entries)
  BY DEF Inserted, new
<1> HIDE DEF entries
<1>6. /\ Trimmed(entries) \in Seq(Image)
      /\ Bytes(Trimmed(entries)) <= MaxBytes \/ Len(Trimmed(entries)) = 1
      /\ \A i \in 1..Len(Trimmed(entries)) :
            \E j \in 1..Len(entries) : Trimmed(entries)[i] = entries[j]
  BY <1>4, TrimmedHolds
<1>7. \A j \in 1..Len(entries) : entries[j] = new \/ \E m \in 1..Len(cache) : entries[j] = cache[m]
  BY <1>3, <1>4
<1>8. QED
  BY <1>2, <1>5, <1>6, <1>7

\* What is found of an image of a current service is of its own file.
LEMMA StoredIsOfItsFile ==
  ASSUME RenderTyped, Newest, NEW s \in 1..Len(services), NEW k \in Kinds, Stored(s, k)
  PROVE  /\ k \in ImageKinds /\ StoredImage(s, k) \in Revisions
         /\ services[s].stamp = file[services[s].of].stamp => StoredImage(s, k) = services[s].rev
<1>1. services[s] \in Service /\ k \in ImageKinds
  BY DEF RenderTyped, Stored, Kinds, ImageKinds
<1>2. CASE InMemory(s, k) # {}
  <2> DEFINE found == CHOOSE e \in ToSet(cache) : e.key = MemoryKey(s, k)
  <2>1. \E e \in ToSet(cache) : e.key = MemoryKey(s, k)
    BY <1>2 DEF InMemory, ToSet
  <2>2. found \in ToSet(cache) /\ found.key = MemoryKey(s, k)
    BY <2>1
  <2>3. StoredImage(s, k) = found.was
    BY <1>2 DEF StoredImage
  <2> HIDE DEF found
  <2>4. PICK i \in 1..Len(cache) : found = cache[i]
    BY <2>2 DEF ToSet, RenderTyped
  <2>5. cache[i] \in Image /\ NewestImage(i)
    BY DEF RenderTyped, Newest
  <2>6. cache[i].key.svc = s
    BY <2>2, <2>4 DEF MemoryKey
  <2>7. QED
    BY <1>1, <2>3, <2>4, <2>5, <2>6 DEF NewestImage, Image
<1>3. CASE InMemory(s, k) = {}
  <2> DEFINE found == CHOOSE d \in OnDisk(s, k) : TRUE
  <2>1. found \in OnDisk(s, k)
    BY <1>3 DEF Stored
  <2>2. StoredImage(s, k) = found.was
    BY <1>3 DEF StoredImage
  <2> HIDE DEF found
  <2>3. found \in disk /\ found.key = DiskKey(s)
    BY <2>1 DEF OnDisk
  <2>4. found \in Overview /\ NewestOverview(found)
    BY <2>3 DEF RenderTyped, Newest
  <2>5. /\ found.key.of = services[s].of /\ found.key.rev = services[s].rev
        /\ found.key.stamp = services[s].stamp
    BY <2>3 DEF DiskKey
  <2>6. QED
    BY <1>1, <2>2, <2>4, <2>5 DEF NewestOverview, Overview
<1>4. QED
  BY <1>2, <1>3

\* Looking leaves in memory what was there, and an image that was stored.
LEMMA LookupHolds ==
  ASSUME RenderTyped, Newest, WithinBudget, NEW s \in 1..Len(services), NEW k \in Kinds
  PROVE  /\ AfterLookup(s, k) \in Seq(Image)
         /\ Bytes(AfterLookup(s, k)) <= MaxBytes \/ Len(AfterLookup(s, k)) = 1
         /\ \A i \in 1..Len(AfterLookup(s, k)) :
               \/ /\ AfterLookup(s, k)[i].key.svc = s
                  /\ services[s].stamp = file[services[s].of].stamp =>
                         AfterLookup(s, k)[i].was = services[s].rev
               \/ \E j \in 1..Len(cache) : AfterLookup(s, k)[i] = cache[j]
<1>1. CASE ~Stored(s, k)
  BY <1>1 DEF AfterLookup, RenderTyped, WithinBudget
<1>2. CASE Stored(s, k)
  <2>1. /\ k \in ImageKinds /\ StoredImage(s, k) \in Revisions
        /\ services[s].stamp = file[services[s].of].stamp => StoredImage(s, k) = services[s].rev
    BY <1>2, StoredIsOfItsFile
  <2>2. AfterLookup(s, k) = Inserted(s, k, StoredImage(s, k))
    BY <1>2 DEF AfterLookup
  <2>3. cache \in Seq(Image) /\ s \in Nat
    BY DEF RenderTyped
  <2>4. MemoryKey(s, k).svc = s
    BY DEF MemoryKey
  <2> DEFINE was == StoredImage(s, k)
             new == Inserted(s, k, was)
  <2> HIDE DEF was
  <2>5. /\ new \in Seq(Image) /\ (Bytes(new) <= MaxBytes \/ Len(new) = 1)
        /\ \A i \in 1..Len(new) :
              \/ new[i].key = MemoryKey(s, k) /\ new[i].was = was
              \/ \E j \in 1..Len(cache) : new[i] = cache[j]
    BY <2>1, <2>3, InsertedHolds DEF was
  <2> HIDE DEF new
  <2>6. AfterLookup(s, k) = new
    BY <2>2 DEF new, was
  <2>7. QED
    BY <2>1, <2>4, <2>5, <2>6 DEF was
<1>3. QED
  BY <1>1, <1>2

-----------------------------------------------------------------------------

\* A step of one request that takes a permit only when one is free.
LEMMA PermitsStay ==
  ASSUME RenderTyped, PermitsHold, NEW c \in Clients,
         client' \in [Clients -> Request],
         \A d \in Clients : d # c => client'[d] = client[d],
         HasPermits(c)',
         \A p \in client'[c].holds : p \in client[c].holds \/ Free(p)
  PROVE  PermitsHold'
<1>1. ASSUME NEW d \in Clients PROVE HasPermits(d)'
  <2>1. CASE d = c
    BY <2>1
  <2>2. CASE d # c
    BY <2>2 DEF PermitsHold, HasPermits
  <2>3. QED
    BY <2>1, <2>2
<1>2. ASSUME NEW p \in PermitKinds PROVE (Cardinality(Holding(p)) <= Permits(p))'
  <2>1. IsFiniteSet(Holding(p)) /\ Cardinality(Holding(p)) \in Nat
    <3>1. Holding(p) \subseteq Clients
      BY DEF Holding
    <3>2. QED
      BY <3>1, FS_Subset, FS_CardinalityType
  <2>2. Permits(p) \in Nat /\ Permits(p)' = Permits(p)
    BY DEF PermitKinds, Permits, AtLeastOne
  <2>3. CASE p \in client'[c].holds /\ p \notin client[c].holds
    <3>1. Cardinality(Holding(p)) < Permits(p)
      BY <2>3 DEF Free
    <3>2. Holding(p)' \subseteq Holding(p) \cup {c}
      BY DEF Holding
    <3>3. /\ IsFiniteSet(Holding(p) \cup {c})
          /\ Cardinality(Holding(p) \cup {c}) <= Cardinality(Holding(p)) + 1
      <4>1. CASE c \in Holding(p)
        <5>1. Holding(p) \cup {c} = Holding(p)
          BY <4>1
        <5>2. QED
          BY <2>1, <5>1
      <4>2. CASE c \notin Holding(p)
        <5>1. IsFiniteSet(Holding(p) \cup {c})
              /\ Cardinality(Holding(p) \cup {c}) = Cardinality(Holding(p)) + 1
          BY <2>1, <4>2, FS_AddElement
        <5>2. QED
          BY <2>1, <5>1
      <4>3. QED
        BY <4>1, <4>2
    <3>4. Cardinality(Holding(p)') <= Cardinality(Holding(p) \cup {c})
          /\ Cardinality(Holding(p)') \in Nat /\ Cardinality(Holding(p) \cup {c}) \in Nat
      BY <3>2, <3>3, FS_Subset, FS_CardinalityType
    <3>5. QED
      BY <2>1, <2>2, <3>1, <3>3, <3>4
  <2>4. CASE ~(p \in client'[c].holds /\ p \notin client[c].holds)
    <3>1. Holding(p)' \subseteq Holding(p)
      BY <2>4 DEF Holding
    <3>2. Cardinality(Holding(p)') <= Cardinality(Holding(p))
          /\ Cardinality(Holding(p)') \in Nat
      BY <2>1, <3>1, FS_Subset, FS_CardinalityType
    <3>3. Cardinality(Holding(p)) <= Permits(p)
      BY DEF PermitsHold
    <3>4. QED
      BY <2>1, <2>2, <3>2, <3>3
  <2>5. QED
    BY <2>3, <2>4
<1>3. QED
  BY <1>1, <1>2 DEF PermitsHold

\* A step of one request on itself alone, that does not begin to render.
LEMMA RequestAloneKeeps ==
  ASSUME RenderInv, NEW c \in Clients,
         UNCHANGED <<file, services, served, cache, disk, operator>>,
         client' = [client EXCEPT ![c] = client'[c]],
         client'[c] \in Request,
         client'[c].pc \notin {"idle", "done"} => client'[c].svc \in 1..Len(services),
         At(c, "rendering")' => client'[c].svc = client[c].svc /\ client'[c].kind = client[c].kind
                                /\ At(c, "rendering"),
         HasPermits(c)',
         \A p \in client'[c].holds : p \in client[c].holds \/ Free(p)
  PROVE  RenderInv'
<1>1. \A d \in Clients : d # c => client'[d] = client[d]
  BY DEF RenderInv, RenderTyped
<1>2. client' \in [Clients -> Request]
  BY DEF RenderInv, RenderTyped
<1>3. RenderTyped'
  <2>1. \A d \in Clients : client'[d].pc \notin {"idle", "done"} => client'[d].svc \in 1..Len(services)
    BY <1>1 DEF RenderInv, RenderTyped
  <2>2. QED
    BY <1>2, <2>1 DEF RenderInv, RenderTyped
<1>4. PermitsHold'
  BY <1>1, <1>2, PermitsStay DEF RenderInv
<1>5. WithinBudget'
  BY DEF RenderInv, WithinBudget, Bytes
<1>6. Newest'
  BY DEF RenderInv, Newest, NewestService, NewestImage, NewestOverview, ServedIsNewest
<1>7. ASSUME NEW d \in Clients PROVE Renders(d)'
  <2>1. \A e \in Clients : At(e, "rendering")' =>
            At(e, "rendering") /\ client'[e].svc = client[e].svc /\ client'[e].kind = client[e].kind
    BY <1>1 DEF At
  <2>2. Renders(d)
    BY DEF RenderInv
  <2>3. QED
    BY <2>1, <2>2 DEF Renders, InMemory, MemoryKey, At
<1>8. QED
  BY <1>3, <1>4, <1>5, <1>6, <1>7 DEF RenderInv

LEMMA AsksKeep ==
  ASSUME RenderInv, NEW c \in Clients,
         Ask(c) \/ TakeQuota(c) \/ TakePermit(c) \/ GivesUpWaiting(c) \/ GoesAway(c)
  PROVE  RenderInv'
<1>1. RenderTyped /\ HasPermits(c) /\ client[c] \in Request
  BY DEF RenderInv, PermitsHold, RenderTyped
<1>2. CASE Ask(c)
  <2> DEFINE Begins(k) == CASE k = "overview" -> "look"
                            [] k = "figure" -> "quota"
                            [] k = "chunk" -> "permit"
  <2>1. PICK r \in Radargrams, k \in Kinds :
           /\ served[r] # 0
           /\ client' = [client EXCEPT ![c].svc = served[r], ![c].kind = k, ![c].pc = Begins(k)]
    BY <1>2 DEF Ask
  <2>2. Begins(k) \in {"look", "quota", "permit"} /\ (Begins(k) = "permit" => k = "chunk")
    BY DEF Kinds
  <2> HIDE DEF Begins
  <2> DEFINE to == Begins(k)
  <2> HIDE DEF to
  <2>0. to \in {"look", "quota", "permit"} /\ (to = "permit" => k = "chunk")
    BY <2>2 DEF to
  <2>3. client' = [client EXCEPT ![c] = [client[c] EXCEPT !.svc = served[r], !.kind = k, !.pc = to]]
    BY <1>1, <2>1 DEF RenderTyped, Request, to
  <2>4. served[r] \in 1..Len(services)
    BY <1>1, <2>1 DEF RenderTyped
  <2>5. client'[c] = [client[c] EXCEPT !.svc = served[r], !.kind = k, !.pc = to]
    BY <1>1, <2>3 DEF RenderTyped
  <2>6. client'[c] \in Request
    <3>1. served[r] \in Nat /\ to \in Pcs
      BY <2>0, <2>4 DEF Pcs
    <3>2. QED
      BY <1>1, <2>5, <3>1 DEF Request
  <2>7. /\ client'[c].pc = to /\ client'[c].svc = served[r]
        /\ client'[c].kind = k /\ client'[c].holds = client[c].holds
    BY <1>1, <2>5 DEF Request
  <2>8. HasPermits(c)'
    BY <2>0, <2>7 DEF HasPermits
  <2>9. ~At(c, "rendering")'
    BY <2>0, <2>7 DEF At
  <2>10. QED
    BY <1>2, <2>3, <2>4, <2>5, <2>6, <2>7, <2>8, <2>9, RequestAloneKeeps DEF Ask
<1>3. CASE TakeQuota(c)
  <2>1. /\ At(c, "quota") /\ Free(Quota(client[c].kind))
        /\ client' = [client EXCEPT ![c] = [client[c] EXCEPT !.pc = "permit",
                                      !.holds = @ \union {Quota(client[c].kind)}]]
    BY <1>3 DEF TakeQuota
  <2>2. client'[c] = [client[c] EXCEPT !.pc = "permit", !.holds = @ \union {Quota(client[c].kind)}]
    BY <1>1, <2>1 DEF RenderTyped
  <2>3. Quota(client[c].kind) \in PermitKinds
    BY DEF Quota, PermitKinds
  <2>4. client'[c] \in Request
    <3>1. client[c].holds \union {Quota(client[c].kind)} \in SUBSET PermitKinds
      BY <1>1, <2>3 DEF Request
    <3>2. QED
      BY <1>1, <2>2, <3>1 DEF Request, Pcs
  <2>5. /\ client'[c].pc = "permit" /\ client'[c].svc = client[c].svc
        /\ client'[c].kind = client[c].kind
        /\ client'[c].holds = client[c].holds \union {Quota(client[c].kind)}
    BY <1>1, <2>2 DEF Request
  <2>6. HasPermits(c)'
    BY <2>5 DEF HasPermits, Quota
  <2>7. client'[c].svc \in 1..Len(services)
    BY <1>1, <2>1, <2>5 DEF RenderTyped, At
  <2>8. ~At(c, "rendering")'
    BY <2>5 DEF At
  <2>9. \A p \in client'[c].holds : p \in client[c].holds \/ Free(p)
    BY <2>1, <2>5
  <2>10. QED
    BY <1>3, <2>1, <2>2, <2>4, <2>6, <2>7, <2>8, <2>9, RequestAloneKeeps DEF TakeQuota
<1>4. CASE TakePermit(c)
  <2>1. /\ At(c, "permit") /\ Free("render")
        /\ client' = [client EXCEPT ![c] = [client[c] EXCEPT !.pc = "spawned",
                                      !.holds = @ \union {"render"}]]
    BY <1>4 DEF TakePermit
  <2>2. client'[c] = [client[c] EXCEPT !.pc = "spawned", !.holds = @ \union {"render"}]
    BY <1>1, <2>1 DEF RenderTyped
  <2>3. client'[c] \in Request
    BY <1>1, <2>2 DEF Request, Pcs, PermitKinds
  <2>4. /\ client'[c].pc = "spawned" /\ client'[c].svc = client[c].svc
        /\ client'[c].kind = client[c].kind
        /\ client'[c].holds = client[c].holds \union {"render"}
    BY <1>1, <2>2 DEF Request
  <2>5. HasPermits(c)'
    BY <1>1, <2>1, <2>4 DEF HasPermits, At
  <2>6. client'[c].svc \in 1..Len(services)
    BY <1>1, <2>1, <2>4 DEF RenderTyped, At
  <2>7. ~At(c, "rendering")'
    BY <2>4 DEF At
  <2>8. \A p \in client'[c].holds : p \in client[c].holds \/ Free(p)
    BY <2>1, <2>4
  <2>9. QED
    BY <1>4, <2>1, <2>2, <2>3, <2>5, <2>6, <2>7, <2>8, RequestAloneKeeps DEF TakePermit
<1>5. CASE GivesUpWaiting(c)
  <2>1. client' = [client EXCEPT ![c] = [NoneAsked EXCEPT !.pc = "done", !.holds = {}]]
    BY <1>5 DEF GivesUpWaiting, Ends, GivenBack
  <2>2. client'[c] = [NoneAsked EXCEPT !.pc = "done", !.holds = {}]
    BY <1>1, <2>1 DEF RenderTyped
  <2>3. client'[c] \in Request /\ client'[c].pc = "done" /\ client'[c].holds = {}
    <3>1. client'[c] = [pc |-> "done", kind |-> "chunk", svc |-> 0, holds |-> {},
                        found |-> FALSE, open |-> FALSE, gone |-> FALSE]
      BY <2>2 DEF NoneAsked
    <3>2. "done" \in Pcs /\ "chunk" \in Kinds /\ {} \in SUBSET PermitKinds
      BY DEF Pcs, Kinds
    <3>3. QED
      BY <3>1, <3>2 DEF Request
  <2>4. HasPermits(c)' /\ ~At(c, "rendering")'
    BY <2>3 DEF HasPermits, At
  <2>5. QED
    BY <1>5, <2>1, <2>2, <2>3, <2>4, RequestAloneKeeps DEF GivesUpWaiting
<1>6. CASE GoesAway(c)
  <2>1. /\ client[c].pc \in {"spawned", "rendering"}
        /\ client' = [client EXCEPT ![c] = [client[c] EXCEPT !.gone = TRUE,
                                                             !.holds = client[c].holds]]
    BY <1>6 DEF GoesAway, KeptWhenGone
  <2>2. client'[c] = [client[c] EXCEPT !.gone = TRUE, !.holds = client[c].holds]
    BY <1>1, <2>1 DEF RenderTyped
  <2>3. client'[c] \in Request
    BY <1>1, <2>2 DEF Request
  <2>4. /\ client'[c].pc = client[c].pc /\ client'[c].svc = client[c].svc
        /\ client'[c].kind = client[c].kind /\ client'[c].holds = client[c].holds
    BY <1>1, <2>2 DEF Request
  <2>5. HasPermits(c)'
    BY <1>1, <2>4 DEF HasPermits
  <2>6. client'[c].svc \in 1..Len(services)
    BY <1>1, <2>1, <2>4 DEF RenderTyped
  <2>7. QED
    BY <1>6, <2>1, <2>2, <2>3, <2>4, <2>5, <2>6, RequestAloneKeeps DEF GoesAway, At
<1>7. QED
  BY <1>2, <1>3, <1>4, <1>5, <1>6

LEMMA LeavingKeeps ==
  ASSUME RenderInv, NEW c \in Clients, Fail(c) \/ AskWhetherOpen(c)
  PROVE  RenderInv'
<1>1. RenderTyped /\ HasPermits(c) /\ client[c] \in Request
  BY DEF RenderInv, PermitsHold, RenderTyped
<1>2. CASE Fail(c)
  <2>1. /\ At(c, "rendering")
        /\ client' = [client EXCEPT ![c] = [client[c] EXCEPT !.pc = "used", !.found = TRUE,
                                                             !.gone = FALSE]]
    BY <1>2 DEF Fail, Leaves
  <2>2. client'[c] = [client[c] EXCEPT !.pc = "used", !.found = TRUE, !.gone = FALSE]
    BY <1>1, <2>1 DEF RenderTyped
  <2>3. client'[c] \in Request
    BY <1>1, <2>2 DEF Request, Pcs
  <2>4. /\ client'[c].pc = "used" /\ client'[c].svc = client[c].svc
        /\ client'[c].holds = client[c].holds
    BY <1>1, <2>2 DEF Request
  <2>5. HasPermits(c)' /\ ~At(c, "rendering")'
    BY <2>4 DEF HasPermits, At
  <2>6. client'[c].svc \in 1..Len(services)
    BY <1>1, <2>1, <2>4 DEF RenderTyped, At
  <2>7. QED
    BY <1>2, <2>1, <2>2, <2>3, <2>4, <2>5, <2>6, RequestAloneKeeps DEF Fail
<1>3. CASE AskWhetherOpen(c)
  <2> DEFINE is == OpenNow(client[c].svc)
  <2>1. is \in BOOLEAN
    BY DEF OpenNow, Locked
  <2>2. /\ At(c, "used")
        /\ client' = [client EXCEPT ![c] = [client[c] EXCEPT !.pc = "touch", !.open = is]]
    BY <1>3 DEF AskWhetherOpen
  <2> HIDE DEF is
  <2>3. client'[c] = [client[c] EXCEPT !.pc = "touch", !.open = is]
    BY <1>1, <2>2 DEF RenderTyped
  <2>4. client'[c] \in Request
    BY <1>1, <2>1, <2>3 DEF Request, Pcs
  <2>5. /\ client'[c].pc = "touch" /\ client'[c].svc = client[c].svc
        /\ client'[c].holds = client[c].holds
    BY <1>1, <2>3 DEF Request
  <2>6. HasPermits(c)' /\ ~At(c, "rendering")'
    BY <2>5 DEF HasPermits, At
  <2>7. client'[c].svc \in 1..Len(services)
    BY <1>1, <2>2, <2>5 DEF RenderTyped, At
  <2>8. client' = [client EXCEPT ![c] = client'[c]]
    BY <2>2, <2>3
  <2>9. QED
    BY <1>3, <2>4, <2>5, <2>6, <2>7, <2>8, RequestAloneKeeps DEF AskWhetherOpen
<1>4. QED
  BY <1>2, <1>3

-----------------------------------------------------------------------------

\* Newer images, of one service: what they say of it has to be so, if it is
\* of the file that is there now.
LEMMA ImagesStayNewest ==
  ASSUME RenderInv, NEW s \in 1..Len(services),
         UNCHANGED <<file, services>>,
         cache' \in Seq(Image),
         \A i \in 1..Len(cache') :
            \/ /\ cache'[i].key.svc = s
               /\ services[s].stamp = file[services[s].of].stamp => cache'[i].was = services[s].rev
            \/ \E j \in 1..Len(cache) : cache'[i] = cache[j]
  PROVE  \A i \in 1..Len(cache') : NewestImage(i)'
BY DEF RenderInv, Newest, NewestImage

\* Nothing new in memory is of a service another task renders with.
LEMMA OthersStillRender ==
  ASSUME RenderInv, NEW s, NEW d \in Clients,
         Renders(d), ~At(d, "rendering") \/ client[d].svc # s,
         client'[d] = client[d],
         \A e \in Clients : At(e, "rendering")' =>
            \/ At(e, "rendering") /\ client'[e] = client[e]
            \/ client'[e].svc = s,
         At(d, "rendering") => services'[client[d].svc] = services[client[d].svc],
         \A i \in DOMAIN cache' :
            cache'[i].key.svc = s \/ \E j \in DOMAIN cache : cache'[i] = cache[j]
  PROVE  Renders(d)'
<1> SUFFICES ASSUME At(d, "rendering")'
             PROVE  Renders(d)'
  BY DEF Renders
<1>1. At(d, "rendering") /\ client[d].svc # s
  BY DEF At
<1>2. services'[client'[d].svc].reader # Closed
  BY <1>1 DEF Renders
<1>3. InMemory(client[d].svc, client[d].kind)' = {}
  BY <1>1 DEF Renders, InMemory, MemoryKey
<1>4. \A e \in Clients : At(e, "rendering")' /\ client'[e].svc = client'[d].svc => e = d
  BY <1>1 DEF Renders
<1>5. QED
  BY <1>2, <1>3, <1>4 DEF Renders

\* A look at what is stored.
LEMMA LooksKeep ==
  ASSUME RenderInv, NEW c \in Clients, client[c].pc \notin {"idle", "done"},
         NEW s, s = client[c].svc, NEW k \in Kinds, Looks(c, s, k)
  PROVE  RenderInv'
<1>1. /\ RenderTyped /\ Newest /\ WithinBudget /\ HasPermits(c) /\ client[c] \in Request
      /\ s \in 1..Len(services)
  BY DEF RenderInv, PermitsHold, RenderTyped
<1> DEFINE found == Stored(s, k)
<1>2. found \in BOOLEAN
  BY DEF Stored
<1>3. /\ ~Locked(s) /\ cache' = AfterLookup(s, k)
      /\ client' = [client EXCEPT ![c] = [client[c] EXCEPT !.pc = "used", !.found = found]]
      /\ UNCHANGED <<file, services, served, disk, pool, operator>>
  BY DEF Looks
<1> HIDE DEF found
<1>4. client'[c] = [client[c] EXCEPT !.pc = "used", !.found = found]
  BY <1>1, <1>3 DEF RenderTyped
<1>5. /\ client'[c] \in Request /\ client'[c].pc = "used" /\ client'[c].svc = s
      /\ client'[c].holds = client[c].holds
  BY <1>1, <1>2, <1>4 DEF Request, Pcs
<1>6. \A d \in Clients : d # c => client'[d] = client[d]
  BY <1>1, <1>3 DEF RenderTyped
<1>7. /\ cache' \in Seq(Image)
      /\ Bytes(cache') <= MaxBytes \/ Len(cache') = 1
      /\ \A i \in 1..Len(cache') :
            \/ /\ cache'[i].key.svc = s
               /\ services[s].stamp = file[services[s].of].stamp => cache'[i].was = services[s].rev
            \/ \E j \in 1..Len(cache) : cache'[i] = cache[j]
  BY <1>1, <1>3, LookupHolds
<1>8. client' \in [Clients -> Request]
  BY <1>1, <1>3, <1>4, <1>5 DEF RenderTyped
<1>9. RenderTyped'
  <2>1. \A d \in Clients : client'[d].pc \notin {"idle", "done"} => client'[d].svc \in 1..Len(services)
    BY <1>1, <1>5, <1>6 DEF RenderTyped
  <2>2. QED
    BY <1>1, <1>3, <1>7, <1>8, <2>1 DEF RenderTyped
<1>10. PermitsHold'
  <2>1. HasPermits(c)'
    BY <1>5 DEF HasPermits
  <2>2. QED
    BY <1>5, <1>6, <1>8, <2>1, PermitsStay DEF RenderInv
<1>11. WithinBudget'
  BY <1>7 DEF WithinBudget, Bytes
<1>12. Newest'
  <2>1. \A i \in 1..Len(cache') : NewestImage(i)'
    BY <1>1, <1>3, <1>7, ImagesStayNewest
  <2>2. QED
    BY <1>1, <1>3, <2>1 DEF Newest, NewestService, NewestOverview, ServedIsNewest
<1>13. ASSUME NEW d \in Clients PROVE Renders(d)'
  <2>1. CASE d = c
    BY <1>5, <2>1 DEF Renders, At
  <2>2. CASE d # c
    <3>1. ~At(d, "rendering") \/ client[d].svc # s
      BY <1>3 DEF Locked
    <3>2. \A e \in Clients : At(e, "rendering")' => At(e, "rendering") /\ client'[e] = client[e]
      BY <1>5, <1>6 DEF At
    <3>3. \A i \in DOMAIN cache' : cache'[i].key.svc = s \/ \E j \in DOMAIN cache : cache'[i] = cache[j]
      <4>1. DOMAIN cache = 1..Len(cache) /\ DOMAIN cache' = 1..Len(cache')
        BY <1>1, <1>7 DEF RenderTyped
      <4>2. QED
        BY <1>7, <4>1
    <3>4. QED
      BY <1>3, <1>6, <2>2, <3>1, <3>2, <3>3, OthersStillRender DEF RenderInv
  <2>3. QED
    BY <2>1, <2>2
<1>14. QED
  BY <1>9, <1>10, <1>11, <1>12, <1>13 DEF RenderInv

\* A task takes the service's lock, and opens what is at its path.
LEMMA OpensKeep ==
  ASSUME RenderInv, NEW c \in Clients, Open(c)
  PROVE  RenderInv'
<1> DEFINE s == client[c].svc
           k == client[c].kind
           reads == IF services[s].reader = Closed THEN file[services[s].of].rev
                    ELSE services[s].reader
<1>1. /\ RenderTyped /\ Newest /\ WithinBudget /\ HasPermits(c) /\ client[c] \in Request
  BY DEF RenderInv, PermitsHold, RenderTyped
<1>2. /\ client[c].pc = "spawned" /\ ~Locked(s) /\ ~Stored(s, k)
      /\ services' = [services EXCEPT ![s] = [services[s] EXCEPT !.reader = reads]]
      /\ client' = [client EXCEPT ![c] = [client[c] EXCEPT !.pc = "rendering"]]
      /\ UNCHANGED <<file, served, cache, disk, pool, operator>>
  BY DEF Open, At, Goto, MadeMeanwhile
<1>3. s \in 1..Len(services) /\ services[s] \in Service /\ services[s].of \in Radargrams
  <2>1. s \in 1..Len(services)
    BY <1>1, <1>2 DEF RenderTyped
  <2>2. services[s] \in Service
    BY <1>1, <2>1 DEF RenderTyped
  <2>3. QED
    BY <2>1, <2>2 DEF Service
<1>4. file[services[s].of] \in File
  BY <1>1, <1>3 DEF RenderTyped
<1>5. reads \in Revisions /\ reads # Closed
  BY <1>3, <1>4 DEF Service, File, Closed
<1>6. NewestService(s)
  BY <1>1, <1>3 DEF Newest
<1>7. services[s].stamp = file[services[s].of].stamp => reads = services[s].rev
  BY <1>6 DEF NewestService
<1> HIDE DEF reads
<1>8. /\ services' \in Seq(Service) /\ Len(services') = Len(services)
      /\ services'[s] = [services[s] EXCEPT !.reader = reads]
      /\ \A o \in 1..Len(services) : o # s => services'[o] = services[o]
  <2>1. [services[s] EXCEPT !.reader = reads] \in Service
    BY <1>3, <1>5 DEF Service
  <2>2. services \in Seq(Service)
    BY <1>1 DEF RenderTyped
  <2> DEFINE new == [services[s] EXCEPT !.reader = reads]
  <2> HIDE DEF new
  <2>3. services' = [services EXCEPT ![s] = new]
    BY <1>2 DEF new
  <2>4. new \in Service
    BY <2>1 DEF new
  <2>5. services' \in Seq(Service) /\ Len(services') = Len(services)
        /\ services'[s] = new /\ \A o \in 1..Len(services) : o # s => services'[o] = services[o]
    <3>1. s \in 1..Len(services)
      BY <1>3
    <3> DEFINE at == s
    <3> HIDE DEF at
    <3>2. /\ [services EXCEPT ![at] = new] \in Seq(Service)
          /\ Len([services EXCEPT ![at] = new]) = Len(services)
          /\ \A o \in 1..Len(services) :
                [services EXCEPT ![at] = new][o] = IF o = at THEN new ELSE services[o]
      BY <2>2, <2>4, <3>1, ExceptSeq DEF at
    <3>3. QED
      BY <2>3, <3>1, <3>2 DEF at
  <2>6. QED
    BY <2>5 DEF new
<1>9. /\ services'[s].of = services[s].of /\ services'[s].rev = services[s].rev
      /\ services'[s].stamp = services[s].stamp /\ services'[s].reader = reads
  BY <1>3, <1>8 DEF Service
<1>10. /\ client'[c] = [client[c] EXCEPT !.pc = "rendering"]
       /\ \A d \in Clients : d # c => client'[d] = client[d]
  BY <1>1, <1>2 DEF RenderTyped
<1>11. /\ client'[c] \in Request /\ client'[c].pc = "rendering" /\ client'[c].svc = s
       /\ client'[c].kind = k /\ client'[c].holds = client[c].holds
  BY <1>1, <1>10 DEF Request, Pcs
<1>12. client' \in [Clients -> Request]
  BY <1>1, <1>2, <1>10, <1>11 DEF RenderTyped
<1>13. RenderTyped'
  <2>1. \A d \in Clients : client'[d].pc \notin {"idle", "done"} => client'[d].svc \in 1..Len(services)
    BY <1>1, <1>3, <1>10, <1>11 DEF RenderTyped
  <2>2. QED
    BY <1>1, <1>2, <1>8, <1>12, <2>1 DEF RenderTyped
<1>14. PermitsHold'
  <2>1. HasPermits(c)'
    BY <1>1, <1>2, <1>11 DEF HasPermits
  <2>2. QED
    BY <1>10, <1>11, <1>12, <2>1, PermitsStay DEF RenderInv
<1>15. WithinBudget'
  BY <1>1, <1>2 DEF WithinBudget, Bytes
<1>16. Newest'
  <2>1. ASSUME NEW o \in 1..Len(services) PROVE NewestService(o)'
    <3>1. CASE o = s
      BY <1>2, <1>6, <1>7, <1>9, <3>1 DEF NewestService
    <3>2. CASE o # s
      BY <1>1, <1>2, <1>8, <3>2 DEF Newest, NewestService
    <3>3. QED
      BY <3>1, <3>2
  <2>2. ASSUME NEW i \in 1..Len(cache) PROVE NewestImage(i)'
    <3>1. NewestImage(i)
      BY <1>1 DEF Newest
    <3>2. QED
      BY <1>2, <1>8, <1>9, <3>1 DEF NewestImage
  <2>3. ASSUME NEW r \in Radargrams PROVE ServedIsNewest(r)'
    <3>1. ServedIsNewest(r) /\ served[r] \in 0..Len(services)
      BY <1>1 DEF Newest, RenderTyped
    <3>2. QED
      BY <1>1, <1>2, <1>8, <1>9, <3>1 DEF ServedIsNewest, RenderTyped
  <2>4. QED
    BY <1>1, <1>2, <1>8, <2>1, <2>2, <2>3 DEF Newest, NewestOverview
<1>17. ASSUME NEW d \in Clients PROVE Renders(d)'
  <2>1. \A e \in Clients : At(e, "rendering") => client[e].svc # s
    BY <1>2 DEF Locked
  <2>2. CASE d = c
    <3>1. InMemory(s, k) = {}
      <4>1. CASE k # "figure"
        BY <1>2, <4>1 DEF Stored
      <4>2. CASE k = "figure"
        <5>1. ASSUME NEW i \in InMemory(s, k) PROVE FALSE
          <6>1. i \in DOMAIN cache /\ cache[i].key = [svc |-> s, kind |-> k]
            BY <5>1 DEF InMemory, MemoryKey
          <6>2. cache[i] \in Image
            BY <1>1, <6>1 DEF RenderTyped
          <6>3. cache[i].key.kind \in ImageKinds
            BY <6>2 DEF Image
          <6>4. QED
            BY <4>2, <6>1, <6>3 DEF ImageKinds
        <5>2. QED
          BY <5>1
      <4>3. QED
        BY <4>1, <4>2
    <3>2. InMemory(client[c].svc, client[c].kind)' = {}
      BY <1>2, <1>11, <3>1 DEF InMemory, MemoryKey
    <3>3. \A e \in Clients : At(e, "rendering")' /\ client'[e].svc = s => e = c
      BY <1>10, <2>1 DEF At
    <3>4. QED
      BY <1>5, <1>9, <1>11, <2>2, <3>2, <3>3 DEF Renders
  <2>3. CASE d # c
    <3>1. ~At(d, "rendering") \/ client[d].svc # s
      BY <2>1
    <3>2. \A e \in Clients : At(e, "rendering")' =>
             \/ At(e, "rendering") /\ client'[e] = client[e]
             \/ client'[e].svc = s
      BY <1>10, <1>11 DEF At
    <3>3. At(d, "rendering") => services'[client[d].svc] = services[client[d].svc]
      BY <1>1, <1>8, <3>1 DEF RenderTyped, At
    <3>4. QED
      BY <1>2, <1>10, <2>3, <3>1, <3>2, <3>3, OthersStillRender DEF RenderInv
  <2>4. QED
    BY <2>2, <2>3
<1>18. QED
  BY <1>13, <1>14, <1>15, <1>16, <1>17 DEF RenderInv


-----------------------------------------------------------------------------

\* An order of some radargrams has each of them at its place.
LEMMA OrderHolds ==
  ASSUME NEW rs \in SUBSET Radargrams
  PROVE  /\ SomeOrder(rs) \in Seq(rs)
         /\ \A r \in rs : /\ Place(SomeOrder(rs), r) \in 1..Len(SomeOrder(rs))
                          /\ SomeOrder(rs)[Place(SomeOrder(rs), r)] = r
<1> DEFINE n == Cardinality(rs)
           order == SomeOrder(rs)
<1>1. IsFiniteSet(rs) /\ n \in Nat /\ ExistsBijection(1..n, rs)
  BY FS_Subset, FS_CardinalityType
<1>2. SetToSeqs(rs) # {}
  <2>1. PICK f \in Bijection(1..n, rs) : TRUE
    BY <1>1 DEF ExistsBijection
  <2>2. f \in [1..n -> rs] /\ \A i, j \in 1..n : i # j => f[i] # f[j]
    BY <2>1 DEF Bijection, Injection, IsInjective
  <2>3. f \in SetToSeqs(rs)
    BY <2>2, Zenon DEF SetToSeqs
  <2>4. QED
    BY <2>3
<1>3. order \in SetToSeqs(rs)
  BY <1>2, Zenon DEF SomeOrder
<1> HIDE DEF order
<1>4. order \in [1..n -> rs] /\ \A i, j \in 1..n : i # j => order[i] # order[j]
  BY <1>3, Zenon DEF SetToSeqs
<1>5. order \in Seq(rs) /\ Len(order) = n /\ DOMAIN order = 1..n
  BY <1>1, <1>4
<1>6. order \in Surjection(1..n, rs)
  <2>1. order \in Injection(1..n, rs)
    BY <1>4 DEF Injection, IsInjective
  <2>2. IsFiniteSet(1..n) /\ Cardinality(1..n) = n
    <3>1. IsFiniteSet(1..n) /\ Cardinality(1..n) = IF 1 > n THEN 0 ELSE n - 1 + 1
      BY <1>1, FS_Interval
    <3>2. QED
      BY <1>1, <3>1
  <2>3. QED
    BY <1>1, <2>1, <2>2, FS_Injection
<1>7. ASSUME NEW r \in rs
      PROVE  Place(order, r) \in 1..Len(order) /\ order[Place(order, r)] = r
  <2>1. \E i \in DOMAIN order : order[i] = r
    BY <1>5, <1>6 DEF Surjection
  <2>2. Place(order, r) \in DOMAIN order /\ order[Place(order, r)] = r
    BY <2>1, Zenon DEF Place
  <2>3. QED
    BY <1>5, <2>2
<1>8. QED
  BY <1>5, <1>7 DEF order

\* Services made for the files that are there.
LEMMA MadeHolds ==
  ASSUME file \in [Radargrams -> File], NEW order \in Seq(Radargrams)
  PROVE  LET made == [i \in DOMAIN order |-> NewService(order[i], file[order[i]])] IN
         /\ made \in Seq(Service) /\ Len(made) = Len(order)
         /\ \A i \in 1..Len(made) :
               /\ made[i].of = order[i] /\ made[i].stamp = file[order[i]].stamp
               /\ made[i].rev = file[order[i]].rev /\ made[i].reader = Closed
<1> DEFINE made == [i \in DOMAIN order |-> NewService(order[i], file[order[i]])]
<1>1. Len(order) \in Nat /\ DOMAIN order = 1..Len(order)
  OBVIOUS
<1>2. ASSUME NEW i \in 1..Len(order)
      PROVE  /\ NewService(order[i], file[order[i]]) \in Service
             /\ made[i] = NewService(order[i], file[order[i]])
  <2>1. order[i] \in Radargrams /\ file[order[i]] \in File
    BY <1>1
  <2>2. QED
    BY <1>1, <2>1 DEF NewService, Service, File
<1>3. made \in [1..Len(order) -> Service]
  BY <1>1, <1>2
<1>4. made \in Seq(Service) /\ Len(made) = Len(order)
  BY <1>1, <1>3
<1>5. ASSUME NEW i \in 1..Len(made)
      PROVE  /\ made[i].of = order[i] /\ made[i].stamp = file[order[i]].stamp
             /\ made[i].rev = file[order[i]].rev /\ made[i].reader = Closed
  <2>1. made[i] = NewService(order[i], file[order[i]])
    BY <1>2, <1>4
  <2> HIDE DEF made
  <2>2. QED
    BY <2>1 DEF NewService
<1>6. QED
  BY <1>4, <1>5

\* Permits and tasks are as they were when the operator works.
LEMMA TasksStay ==
  ASSUME RenderInv, UNCHANGED <<client, cache>>,
         services' \in Seq(Service),
         Len(services) <= Len(services'),
         \A s \in 1..Len(services) : services'[s] = services[s]
  PROVE  /\ PermitsHold' /\ WithinBudget' /\ \A c \in Clients : Renders(c)'
         /\ cache' \in Seq(Image) /\ client' \in [Clients -> Request]
         /\ \A c \in Clients : client'[c].pc \notin {"idle", "done"} =>
                client'[c].svc \in 1..Len(services')
<1>1. RenderTyped /\ Len(services) \in Nat /\ Len(services') \in Nat
  BY DEF RenderInv, RenderTyped
<1>2. PermitsHold' /\ WithinBudget'
  BY DEF RenderInv, PermitsHold, HasPermits, Holding, WithinBudget, Bytes
<1>3. ASSUME NEW c \in Clients PROVE Renders(c)'
  <2>1. Renders(c)
    BY DEF RenderInv
  <2>2. At(c, "rendering") => client[c].svc \in 1..Len(services)
    BY <1>1 DEF RenderTyped, At
  <2>3. At(c, "rendering") => services'[client[c].svc] = services[client[c].svc]
    BY <2>2
  <2>4. QED
    BY <2>1, <2>3 DEF Renders, At, InMemory, MemoryKey
<1>4. QED
  BY <1>1, <1>2, <1>3 DEF RenderTyped

LEMMA RenameKeeps ==
  ASSUME RenderInv,
         Rename \/ RenameFails \/ \E r \in Replaced, v \in Revisions : LetGo(r, v)
  PROVE  RenderInv'
<1>1. RenderTyped /\ Newest
  BY DEF RenderInv
<1>2. UNCHANGED <<client, cache, services, disk>>
  BY DEF Rename, RenameFails, LetGo
<1>3. /\ PermitsHold' /\ WithinBudget' /\ \A c \in Clients : Renders(c)'
      /\ cache' \in Seq(Image) /\ client' \in [Clients -> Request]
      /\ \A c \in Clients : client'[c].pc \notin {"idle", "done"} =>
             client'[c].svc \in 1..Len(services')
  BY <1>1, <1>2, TasksStay DEF RenderTyped
<1>4. CASE \E r \in Replaced, v \in Revisions : LetGo(r, v)
  <2>1. PICK r \in Radargrams, v \in Revisions : LetGo(r, v)
    BY <1>4
  <2>2. /\ served' = [served EXCEPT ![r] = 0]
        /\ operator' = [step |-> "closed", of |-> r, to |-> v]
        /\ UNCHANGED file
    BY <2>1 DEF LetGo
  <2>3. RenderTyped'
    <3>1. served' \in [Radargrams -> 0..Len(services)] /\ operator' \in Replacement
      BY <1>1, <2>2 DEF RenderTyped, Replacement
    <3>2. QED
      BY <1>1, <1>2, <1>3, <2>2, <3>1 DEF RenderTyped
  <2>4. Newest'
    <3>1. \A q \in Radargrams : ServedIsNewest(q)'
      BY <1>1, <1>2, <2>2 DEF RenderTyped, Newest, ServedIsNewest
    <3>2. operator'.of = r /\ served'[r] = 0
      BY <1>1, <2>2 DEF RenderTyped
    <3>3. QED
      BY <1>1, <1>2, <2>2, <3>1, <3>2 DEF Newest, NewestService, NewestImage, NewestOverview
  <2>5. QED
    BY <1>3, <2>3, <2>4 DEF RenderInv
<1>5. CASE Rename
  <2> DEFINE r == operator.of
             next == [rev |-> operator.to, stamp |-> file[r].stamp + 1]
  <2>1. operator \in Replacement /\ r \in Radargrams /\ operator.to \in Revisions
    BY <1>1 DEF RenderTyped, Replacement
  <2>2. file[r] \in File /\ file[r].stamp \in Nat
    BY <1>1, <2>1 DEF RenderTyped, File
  <2>3. next \in File /\ next.stamp = file[r].stamp + 1
    BY <2>1, <2>2 DEF File
  <2>4. /\ file' = [file EXCEPT ![r] = next]
        /\ operator' = [operator EXCEPT !.step = "renamed"]
        /\ operator.step = "closed" /\ UNCHANGED served
    BY <1>5 DEF Rename
  <2>5. served[r] = 0
    BY <1>1, <2>4 DEF Newest
  <2> HIDE DEF next
  <2>6. /\ file'[r] = next
        /\ \A q \in Radargrams : q # r => file'[q] = file[q]
        /\ file' \in [Radargrams -> File]
    BY <1>1, <2>1, <2>3, <2>4 DEF RenderTyped
  <2>7. operator' \in Replacement /\ operator'.of = r
    BY <2>1, <2>4 DEF Replacement
  <2> HIDE DEF r
  <2>8. RenderTyped'
    BY <1>1, <1>2, <1>3, <2>4, <2>6, <2>7 DEF RenderTyped
  <2>9. ASSUME NEW s \in 1..Len(services)
        PROVE  /\ NewestService(s)'
               /\ services[s].stamp = file'[services[s].of].stamp =>
                      services[s].stamp = file[services[s].of].stamp
    <3>1. services[s] \in Service /\ NewestService(s)
      BY <1>1 DEF RenderTyped, Newest
    <3>2. services[s].of \in Radargrams /\ services[s].stamp \in Nat
      BY <3>1 DEF Service
    <3>3. CASE services[s].of = r
      <4>1. services[s].stamp <= file[r].stamp
        BY <3>1, <3>3 DEF NewestService
      <4>2. services[s].stamp < file'[services[s].of].stamp
        BY <2>2, <2>3, <2>6, <3>2, <3>3, <4>1
      <4>3. services[s].stamp <= file'[services[s].of].stamp
            /\ services[s].stamp # file'[services[s].of].stamp
        BY <2>2, <2>3, <2>6, <3>2, <3>3, <4>2
      <4>4. QED
        BY <1>2, <4>3 DEF NewestService
    <3>4. CASE services[s].of # r
      BY <1>2, <2>6, <3>1, <3>2, <3>4 DEF NewestService
    <3>5. QED
      BY <3>3, <3>4
  <2>10. ASSUME NEW i \in 1..Len(cache) PROVE NewestImage(i)'
    BY <1>1, <1>2, <2>9 DEF Newest, NewestImage
  <2>11. ASSUME NEW d \in disk PROVE NewestOverview(d)'
    <3>1. d \in Overview /\ NewestOverview(d)
      BY <1>1 DEF RenderTyped, Newest
    <3>2. d.key.of \in Radargrams /\ d.key.stamp \in Nat
      BY <3>1 DEF Overview
    <3>3. CASE d.key.of = r
      <4>1. d.key.stamp <= file[r].stamp
        BY <3>1, <3>3 DEF NewestOverview
      <4>2. d.key.stamp <= file'[d.key.of].stamp /\ d.key.stamp # file'[d.key.of].stamp
        BY <2>2, <2>3, <2>6, <3>2, <3>3, <4>1
      <4>3. QED
        BY <4>2 DEF NewestOverview
    <3>4. CASE d.key.of # r
      BY <2>6, <3>1, <3>2, <3>4 DEF NewestOverview
    <3>5. QED
      BY <3>3, <3>4
  <2>12. ASSUME NEW q \in Radargrams PROVE ServedIsNewest(q)'
    BY <1>1, <1>2, <2>4, <2>5, <2>6 DEF Newest, ServedIsNewest
  <2>13. Newest'
    BY <1>2, <2>4, <2>5, <2>7, <2>9, <2>10, <2>11, <2>12 DEF Newest
  <2>14. QED
    BY <1>3, <2>8, <2>13 DEF RenderInv
<1>6. CASE RenameFails
  <2>1. operator' = Resting /\ UNCHANGED <<file, served>>
    BY <1>6 DEF RenameFails
  <2>2. Resting \in Replacement /\ Resting.step = "idle"
    BY DEF Resting, Replacement
  <2>3. RenderTyped'
    BY <1>1, <1>2, <1>3, <2>1, <2>2 DEF RenderTyped
  <2>4. Newest'
    BY <1>1, <1>2, <2>1, <2>2
       DEF Newest, NewestService, NewestImage, NewestOverview, ServedIsNewest
  <2>5. QED
    BY <1>3, <2>3, <2>4 DEF RenderInv
<1>7. QED
  BY <1>4, <1>5, <1>6

LEMMA RediscoverKeeps ==
  ASSUME RenderInv, Rediscover
  PROVE  RenderInv'
<1> DEFINE missing == {r \in Radargrams : served[r] = 0}
           order == SomeOrder(missing)
           made == [i \in DOMAIN order |-> NewService(order[i], file[order[i]])]
           n == Len(services)
<1>1. RenderTyped /\ Newest /\ n \in Nat
  BY DEF RenderInv, RenderTyped
<1>2. /\ services' = services \o made
      /\ served' = [r \in Radargrams |-> IF r \in missing THEN n + Place(order, r) ELSE served[r]]
      /\ disk' = {d \in disk : d.key.rev = file[d.key.of].rev}
      /\ operator' = Resting
      /\ UNCHANGED <<file, cache, client>>
  BY DEF Rediscover
<1>3. /\ order \in Seq(missing)
      /\ \A r \in missing : Place(order, r) \in 1..Len(order) /\ order[Place(order, r)] = r
  BY OrderHolds
<1>4. missing \subseteq Radargrams /\ \A r \in Radargrams : r \notin missing => served[r] # 0
  OBVIOUS
<1> HIDE DEF order, missing
<1>5. order \in Seq(Radargrams)
  BY <1>3, <1>4
<1>6. /\ made \in Seq(Service) /\ Len(made) = Len(order)
      /\ \A i \in 1..Len(made) :
            /\ made[i].of = order[i] /\ made[i].stamp = file[order[i]].stamp
            /\ made[i].rev = file[order[i]].rev /\ made[i].reader = Closed
  BY <1>1, <1>5, MadeHolds DEF RenderTyped
<1> HIDE DEF made
<1>7. /\ services' \in Seq(Service) /\ Len(services') = n + Len(made)
      /\ \A s \in 1..n : services'[s] = services[s]
      /\ \A i \in 1..Len(made) : services'[n + i] = made[i]
  <2>1. services \in Seq(Service) /\ made \in Seq(Service) /\ services' = services \o made
    BY <1>1, <1>2, <1>6 DEF RenderTyped
  <2>2. services \o made \in Seq(Service) /\ Len(services \o made) = n + Len(made)
    BY <2>1
  <2>3. \A s \in 1..n : (services \o made)[s] = services[s]
    BY <2>1
  <2>4. \A i \in 1..Len(made) : (services \o made)[n + i] = made[i]
    BY <2>1
  <2>5. QED
    BY <2>1, <2>2, <2>3, <2>4
<1>8. Len(made) \in Nat /\ n <= Len(services')
  BY <1>1, <1>6, <1>7
<1>9. /\ PermitsHold' /\ WithinBudget' /\ \A c \in Clients : Renders(c)'
      /\ cache' \in Seq(Image) /\ client' \in [Clients -> Request]
      /\ \A c \in Clients : client'[c].pc \notin {"idle", "done"} =>
             client'[c].svc \in 1..Len(services')
  BY <1>2, <1>7, <1>8, TasksStay
<1>10. ASSUME NEW r \in Radargrams
       PROVE  served'[r] \in 1..Len(services') /\ ServedIsNewest(r)'
  <2>1. CASE r \in missing
    <3> DEFINE i == Place(order, r)
    <3>1. i \in 1..Len(made) /\ order[i] = r
      BY <1>3, <1>6, <2>1
    <3>2. served'[r] = n + i
      BY <1>2, <2>1
    <3> HIDE DEF i
    <3>3. n + i \in 1..Len(services')
      BY <1>1, <1>7, <1>8, <3>1
    <3>4. services'[n + i].of = r /\ services'[n + i].stamp = file[r].stamp
      BY <1>6, <1>7, <3>1
    <3>5. QED
      BY <1>2, <3>2, <3>3, <3>4 DEF ServedIsNewest
  <2>2. CASE r \notin missing
    <3>1. served'[r] = served[r] /\ served[r] # 0
      BY <1>2, <1>4, <2>2
    <3>2. served[r] \in 1..n /\ ServedIsNewest(r)
      BY <1>1, <3>1 DEF RenderTyped, Newest
    <3>3. served[r] \in 1..Len(services') /\ services'[served[r]] = services[served[r]]
      BY <1>1, <1>7, <1>8, <3>2
    <3>4. QED
      BY <1>2, <3>1, <3>2, <3>3 DEF ServedIsNewest
  <2>3. QED
    BY <2>1, <2>2
<1>11. Resting \in Replacement /\ Resting.step = "idle"
  BY DEF Resting, Replacement
<1>12. RenderTyped'
  <2>1. served' \in [Radargrams -> 0..Len(services')]
    <3>1. DOMAIN served' = Radargrams /\ \A r \in Radargrams : served'[r] \in 0..Len(services')
      BY <1>2, <1>10
    <3>2. served' = [r \in Radargrams |-> served'[r]]
      BY <1>2
    <3>3. QED
      BY <3>1, <3>2
  <2>2. QED
    BY <1>1, <1>2, <1>7, <1>9, <1>11, <2>1 DEF RenderTyped
<1>13. Newest'
  <2>1. ASSUME NEW s \in 1..Len(services') PROVE NewestService(s)'
    <3>1. CASE s \in 1..n
      BY <1>1, <1>2, <1>7, <3>1 DEF Newest, NewestService
    <3>2. CASE s \notin 1..n
      <4> DEFINE i == s - n
      <4>1. i \in 1..Len(made) /\ s = n + i
        BY <1>1, <1>7, <1>8, <3>2
      <4> HIDE DEF i
      <4>2. services'[s] = made[i]
        BY <1>7, <4>1
      <4>3. order[i] \in Radargrams
        BY <1>5, <1>6, <4>1
      <4>4. file[order[i]] \in File
        BY <1>1, <4>3 DEF RenderTyped
      <4>5. services'[s].of = order[i] /\ services'[s].stamp = file[order[i]].stamp
            /\ services'[s].rev = file[order[i]].rev /\ services'[s].reader = Closed
        BY <1>6, <4>1, <4>2
      <4>6. file[order[i]].stamp \in Nat
        BY <4>4 DEF File
      <4>7. QED
        BY <1>2, <4>5, <4>6 DEF NewestService
    <3>3. QED
      BY <3>1, <3>2
  <2>2. ASSUME NEW i \in 1..Len(cache) PROVE NewestImage(i)'
    <3>1. NewestImage(i) /\ cache[i].key.svc \in 1..n
      BY <1>1 DEF Newest, NewestImage
    <3>2. cache[i].key.svc \in 1..Len(services')
      BY <1>1, <1>7, <1>8, <3>1
    <3>3. QED
      BY <1>2, <1>7, <3>1, <3>2 DEF NewestImage
  <2>3. \A d \in disk' : NewestOverview(d)'
    BY <1>1, <1>2 DEF Newest, NewestOverview
  <2>4. QED
    BY <1>2, <1>10, <1>11, <2>1, <2>2, <2>3 DEF Newest
<1>14. QED
  BY <1>9, <1>12, <1>13 DEF RenderInv

LEMMA RenderInit == Init => RenderInv
<1> SUFFICES ASSUME Init PROVE RenderInv
  OBVIOUS
<1> DEFINE order == SomeOrder(Radargrams)
           made == [i \in DOMAIN order |-> NewService(order[i], file[order[i]])]
           first == CHOOSE v \in Revisions : TRUE
<1>1. /\ file = [r \in Radargrams |-> [rev |-> first, stamp |-> 0]]
      /\ services = made
      /\ served = [r \in Radargrams |-> Place(order, r)]
      /\ cache = <<>> /\ disk = {} /\ client = [c \in Clients |-> NoneAsked]
      /\ operator = Resting
  BY DEF Init
<1>2. /\ order \in Seq(Radargrams)
      /\ \A r \in Radargrams : Place(order, r) \in 1..Len(order) /\ order[Place(order, r)] = r
  BY OrderHolds
<1> HIDE DEF order
<1>3. first \in Revisions
  OBVIOUS
<1> HIDE DEF first
<1>4. file \in [Radargrams -> File]
  BY <1>1, <1>3 DEF File
<1>5. /\ services \in Seq(Service) /\ Len(services) = Len(order)
      /\ \A i \in 1..Len(services) :
            /\ services[i].of = order[i] /\ services[i].stamp = file[order[i]].stamp
            /\ services[i].rev = file[order[i]].rev /\ services[i].reader = Closed
  <2>1. /\ made \in Seq(Service) /\ Len(made) = Len(order)
        /\ \A i \in 1..Len(made) :
              /\ made[i].of = order[i] /\ made[i].stamp = file[order[i]].stamp
              /\ made[i].rev = file[order[i]].rev /\ made[i].reader = Closed
    BY <1>2, <1>4, MadeHolds
  <2>2. services = made
    BY <1>1
  <2> HIDE DEF made
  <2>3. QED
    BY <2>1, <2>2
<1> HIDE DEF made
<1>6. Resting \in Replacement /\ Resting.step = "idle"
  BY DEF Resting, Replacement
<1>7. NoneAsked \in Request /\ NoneAsked.pc = "idle" /\ NoneAsked.holds = {}
  BY DEF NoneAsked, Request, Pcs, Kinds, PermitKinds
<1>8. \A c \in Clients : client[c] = NoneAsked
  BY <1>1
<1>9. RenderTyped
  <2>1. served \in [Radargrams -> 0..Len(services)]
    <3>1. \A r \in Radargrams : Place(order, r) \in 0..Len(services)
      BY <1>2, <1>5
    <3>2. QED
      BY <1>1, <3>1
  <2>2. client \in [Clients -> Request]
    BY <1>1, <1>7
  <2>3. cache \in Seq(Image) /\ disk \subseteq Overview
    BY <1>1
  <2>4. \A c \in Clients : client[c].pc \notin {"idle", "done"} => client[c].svc \in 1..Len(services)
    BY <1>7, <1>8
  <2>5. operator \in Replacement
    BY <1>1, <1>6
  <2>6. QED
    BY <1>4, <1>5, <2>1, <2>2, <2>3, <2>4, <2>5 DEF RenderTyped
<1>10. PermitsHold
  <2>1. \A c \in Clients : HasPermits(c)
    BY <1>7, <1>8 DEF HasPermits
  <2>2. ASSUME NEW p \in PermitKinds PROVE Cardinality(Holding(p)) <= Permits(p)
    <3>1. Holding(p) = {}
      BY <1>7, <1>8 DEF Holding
    <3>2. Cardinality(Holding(p)) = 0
      BY <3>1, FS_EmptySet
    <3>3. Permits(p) \in Nat
      BY DEF PermitKinds, Permits, AtLeastOne
    <3>4. QED
      BY <3>2, <3>3
  <2>3. QED
    BY <2>1, <2>2 DEF PermitsHold
<1>11. WithinBudget
  <2>1. DOMAIN cache = {}
    BY <1>1
  <2>2. Bytes(cache) = 0
    <3>1. {b \in (DOMAIN cache) \X (1..2) : b[2] <= Size(cache[b[1]].kind)} = {}
      BY <2>1
    <3>2. QED
      BY <3>1, FS_EmptySet DEF Bytes
  <2>3. QED
    BY <2>2 DEF WithinBudget
<1>12. Newest
  <2>1. ASSUME NEW s \in 1..Len(services) PROVE NewestService(s)
    <3>1. order[s] \in Radargrams
      BY <1>2, <1>5
    <3>2. file[order[s]].stamp \in Nat
      BY <1>4, <3>1 DEF File
    <3>3. QED
      BY <1>5, <3>2 DEF NewestService
  <2>2. ASSUME NEW r \in Radargrams PROVE ServedIsNewest(r)
    BY <1>1, <1>2, <1>5 DEF ServedIsNewest
  <2>3. Len(cache) = 0
    BY <1>1
  <2>4. QED
    BY <1>1, <1>6, <2>1, <2>2, <2>3 DEF Newest
<1>13. \A c \in Clients : Renders(c)
  BY <1>7, <1>8 DEF Renders, At
<1>14. QED
  BY <1>9, <1>10, <1>11, <1>12, <1>13 DEF RenderInv

-----------------------------------------------------------------------------

\* Services may close their readers, at any time: what is newest stays so.
LEMMA ClosingStaysNewest ==
  ASSUME RenderTyped, Newest, UNCHANGED file,
         Len(services') = Len(services),
         \A s \in 1..Len(services) :
            /\ services'[s].of = services[s].of /\ services'[s].rev = services[s].rev
            /\ services'[s].stamp = services[s].stamp
            /\ services'[s].reader \in {services[s].reader, Closed}
  PROVE  /\ \A s \in 1..Len(services') : NewestService(s)'
         /\ served' = served => \A r \in Radargrams : ServedIsNewest(r)'
         /\ \A s \in 1..Len(services) :
               services'[s].stamp = file'[services'[s].of].stamp =>
                  services[s].stamp = file[services[s].of].stamp
<1>1. \A s \in 1..Len(services) : NewestService(s)'
  BY DEF Newest, NewestService
<1>2. ASSUME served' = served, NEW r \in Radargrams PROVE ServedIsNewest(r)'
  <2>1. ServedIsNewest(r) /\ served[r] \in 0..Len(services)
    BY DEF RenderTyped, Newest
  <2>2. served[r] # 0 => served[r] \in 1..Len(services)
    BY <2>1 DEF RenderTyped
  <2>3. QED
    BY <1>2, <2>1, <2>2 DEF ServedIsNewest
<1>3. QED
  BY <1>1, <1>2

\* A task that has rendered keeps what it read, under its service's key.
LEMMA FinishKeeps ==
  ASSUME RenderInv, NEW c \in Clients, Finish(c)
  PROVE  RenderInv'
<1> DEFINE s == client[c].svc
           k == client[c].kind
           was == services[s].reader
           then == IF k = "overview" THEN Closed ELSE was
<1>1. /\ RenderTyped /\ Newest /\ WithinBudget /\ HasPermits(c) /\ client[c] \in Request
      /\ Renders(c)
  BY DEF RenderInv, PermitsHold, RenderTyped
<1>2. /\ client[c].pc = "rendering"
      /\ \/ disk' = {d \in disk : d.key # DiskKey(s)} \union {[key |-> DiskKey(s), was |-> was]}
         \/ disk' = disk
      /\ cache' = IF k = "figure" THEN cache ELSE Inserted(s, k, was)
      /\ services' = [services EXCEPT ![s] = [services[s] EXCEPT !.reader = then]]
      /\ client' = [client EXCEPT ![c] = [client[c] EXCEPT !.pc = "used", !.found = TRUE,
                                                           !.gone = FALSE]]
      /\ UNCHANGED <<file, served, operator>>
  BY DEF Finish, At, Leaves
<1>3. s \in 1..Len(services) /\ services[s] \in Service /\ k \in Kinds
  <2>1. s \in 1..Len(services)
    BY <1>1, <1>2 DEF RenderTyped
  <2>2. QED
    BY <1>1, <2>1 DEF RenderTyped, Request
<1>4. was \in Revisions /\ services[s].of \in Radargrams
  BY <1>1, <1>2, <1>3 DEF Renders, At, Service
<1>5. NewestService(s) /\ was # Closed
  BY <1>1, <1>2, <1>3 DEF Newest, Renders, At
<1>6. services[s].stamp = file[services[s].of].stamp => was = services[s].rev
  BY <1>5 DEF NewestService
<1>7. \A d \in Clients : d # c => ~At(d, "rendering") \/ client[d].svc # s
  BY <1>1, <1>2 DEF Renders, At
<1>8. then \in {was, Closed}
  OBVIOUS
<1> DEFINE new == [services[s] EXCEPT !.reader = then]
<1>9. /\ new \in Service /\ new.of = services[s].of /\ new.rev = services[s].rev
      /\ new.stamp = services[s].stamp /\ new.reader = then
  BY <1>3, <1>4, <1>8 DEF Service
<1>10. services' = [services EXCEPT ![s] = new]
  BY <1>2
<1> HIDE DEF new, then
<1>11. /\ services' \in Seq(Service) /\ Len(services') = Len(services)
       /\ services'[s] = new
       /\ \A o \in 1..Len(services) : o # s => services'[o] = services[o]
  <2> DEFINE at == s
  <2>1. at \in 1..Len(services) /\ services \in Seq(Service)
    BY <1>1, <1>3 DEF RenderTyped
  <2>2. services' = [services EXCEPT ![at] = new]
    BY <1>10
  <2> HIDE DEF at
  <2>3. /\ [services EXCEPT ![at] = new] \in Seq(Service)
        /\ Len([services EXCEPT ![at] = new]) = Len(services)
        /\ \A o \in 1..Len(services) :
              [services EXCEPT ![at] = new][o] = IF o = at THEN new ELSE services[o]
    BY <1>9, <2>1, ExceptSeq
  <2>4. QED
    BY <2>1, <2>2, <2>3 DEF at
<1>12. \A o \in 1..Len(services) :
          /\ services'[o].of = services[o].of /\ services'[o].rev = services[o].rev
          /\ services'[o].stamp = services[o].stamp
          /\ services'[o].reader \in {services[o].reader, Closed}
  <2>1. ASSUME NEW o \in 1..Len(services)
        PROVE  /\ services'[o].of = services[o].of /\ services'[o].rev = services[o].rev
               /\ services'[o].stamp = services[o].stamp
               /\ services'[o].reader \in {services[o].reader, Closed}
    <3>1. CASE o = s
      BY <1>8, <1>9, <1>11, <3>1
    <3>2. CASE o # s
      BY <1>11, <3>2
    <3>3. QED
      BY <3>1, <3>2
  <2>2. QED
    BY <2>1
<1>13. /\ \A o \in 1..Len(services') : NewestService(o)'
       /\ \A r \in Radargrams : ServedIsNewest(r)'
       /\ \A o \in 1..Len(services) :
             services'[o].stamp = file'[services'[o].of].stamp =>
                services[o].stamp = file[services[o].of].stamp
  BY <1>1, <1>2, <1>11, <1>12, ClosingStaysNewest
<1>14. /\ client'[c] = [client[c] EXCEPT !.pc = "used", !.found = TRUE, !.gone = FALSE]
       /\ \A d \in Clients : d # c => client'[d] = client[d]
  BY <1>1, <1>2 DEF RenderTyped
<1>15. /\ client'[c] \in Request /\ client'[c].pc = "used" /\ client'[c].svc = s
       /\ client'[c].holds = client[c].holds
  BY <1>1, <1>14 DEF Request, Pcs
<1>16. client' \in [Clients -> Request]
  BY <1>1, <1>2, <1>14, <1>15 DEF RenderTyped
<1>17. /\ cache' \in Seq(Image)
       /\ Bytes(cache') <= MaxBytes \/ Len(cache') = 1
       /\ \A i \in 1..Len(cache') :
             \/ cache'[i].key.svc = s /\ cache'[i].was = was
             \/ \E j \in 1..Len(cache) : cache'[i] = cache[j]
  <2>1. CASE k = "figure"
    BY <1>1, <1>2, <2>1 DEF RenderTyped, WithinBudget
  <2>2. CASE k # "figure"
    <3>1. k \in ImageKinds /\ s \in Nat /\ cache \in Seq(Image)
      BY <1>1, <1>3, <2>2 DEF Kinds, ImageKinds, RenderTyped
    <3>2. cache' = Inserted(s, k, was) /\ MemoryKey(s, k).svc = s
      BY <1>2, <2>2 DEF MemoryKey
    <3> DEFINE image == was
               at == s
               kind == k
    <3> HIDE DEF image, at, kind
    <3>3. /\ Inserted(at, kind, image) \in Seq(Image)
          /\ Bytes(Inserted(at, kind, image)) <= MaxBytes \/ Len(Inserted(at, kind, image)) = 1
          /\ \A i \in 1..Len(Inserted(at, kind, image)) :
                \/ /\ Inserted(at, kind, image)[i].key = MemoryKey(at, kind)
                   /\ Inserted(at, kind, image)[i].was = image
                \/ \E j \in 1..Len(cache) : Inserted(at, kind, image)[i] = cache[j]
      BY <1>4, <3>1, InsertedHolds DEF image, at, kind
    <3>4. cache' = Inserted(at, kind, image) /\ MemoryKey(at, kind).svc = at
      BY <3>2 DEF image, at, kind
    <3>5. /\ cache' \in Seq(Image)
          /\ Bytes(cache') <= MaxBytes \/ Len(cache') = 1
          /\ \A i \in 1..Len(cache') :
                \/ cache'[i].key.svc = at /\ cache'[i].was = image
                \/ \E j \in 1..Len(cache) : cache'[i] = cache[j]
      BY <3>3, <3>4
    <3>6. QED
      BY <3>5 DEF image, at
  <2>3. QED
    BY <2>1, <2>2
<1>18. \A d \in disk' : d \in disk \/ (d.key = DiskKey(s) /\ d.was = was)
  BY <1>2
<1> DEFINE keep == [key |-> DiskKey(s), was |-> was]
<1>19. /\ keep \in Overview
       /\ DiskKey(s).of = services[s].of /\ DiskKey(s).rev = services[s].rev
       /\ DiskKey(s).stamp = services[s].stamp
  BY <1>3, <1>4 DEF DiskKey, Overview, Service
<1>20. disk' \subseteq Overview
  BY <1>1, <1>2, <1>19 DEF RenderTyped
<1>21. RenderTyped'
  <2>1. \A d \in Clients : client'[d].pc \notin {"idle", "done"} => client'[d].svc \in 1..Len(services)
    BY <1>1, <1>3, <1>14, <1>15 DEF RenderTyped
  <2>2. QED
    BY <1>1, <1>2, <1>11, <1>16, <1>17, <1>20, <2>1 DEF RenderTyped
<1>22. PermitsHold'
  <2>1. HasPermits(c)'
    BY <1>15 DEF HasPermits
  <2>2. QED
    BY <1>14, <1>15, <1>16, <2>1, PermitsStay DEF RenderInv
<1>23. WithinBudget'
  BY <1>17 DEF WithinBudget, Bytes
<1>24. Newest'
  <2>1. ASSUME NEW i \in 1..Len(cache') PROVE NewestImage(i)'
    <3>1. CASE cache'[i].key.svc = s /\ cache'[i].was = was
      BY <1>3, <1>6, <1>11, <1>12, <1>13, <3>1 DEF NewestImage
    <3>2. CASE \E j \in 1..Len(cache) : cache'[i] = cache[j]
      <4>1. PICK j \in 1..Len(cache) : cache'[i] = cache[j]
        BY <3>2
      <4>2. NewestImage(j)
        BY <1>1 DEF Newest
      <4>3. QED
        BY <1>11, <1>12, <1>13, <4>1, <4>2 DEF NewestImage
    <3>3. QED
      BY <1>17, <3>1, <3>2
  <2>2. ASSUME NEW d \in disk' PROVE NewestOverview(d)'
    <3>1. CASE d \in disk
      BY <1>1, <1>2, <3>1 DEF Newest, NewestOverview
    <3>2. CASE d.key = DiskKey(s) /\ d.was = was
      BY <1>2, <1>5, <1>6, <1>19, <3>2 DEF NewestOverview, NewestService
    <3>3. QED
      BY <1>18, <3>1, <3>2
  <2>3. QED
    BY <1>1, <1>2, <1>13, <2>1, <2>2 DEF Newest
<1>25. ASSUME NEW d \in Clients PROVE Renders(d)'
  <2>1. CASE d = c
    BY <1>15, <2>1 DEF Renders, At
  <2>2. CASE d # c
    <3>1. ~At(d, "rendering") \/ client[d].svc # s
      BY <1>7, <2>2
    <3>2. \A e \in Clients : At(e, "rendering")' => At(e, "rendering") /\ client'[e] = client[e]
      BY <1>14, <1>15 DEF At
    <3>3. \A i \in DOMAIN cache' : cache'[i].key.svc = s \/ \E j \in DOMAIN cache : cache'[i] = cache[j]
      <4>1. DOMAIN cache = 1..Len(cache) /\ DOMAIN cache' = 1..Len(cache')
        BY <1>1, <1>17 DEF RenderTyped
      <4>2. QED
        BY <1>17, <4>1
    <3>4. At(d, "rendering") => services'[client[d].svc] = services[client[d].svc]
      BY <1>1, <1>11, <3>1 DEF RenderTyped, At
    <3>5. QED
      BY <1>14, <2>2, <3>1, <3>2, <3>3, <3>4, OthersStillRender DEF RenderInv
  <2>3. QED
    BY <2>1, <2>2
<1>26. QED
  BY <1>21, <1>22, <1>23, <1>24, <1>25 DEF RenderInv

\* The pool closes readers of services nobody renders with, and the task ends.
LEMMA TouchKeeps ==
  ASSUME RenderInv, NEW c \in Clients, Touch(c)
  PROVE  RenderInv'
<1> DEFINE closed == PoolAfter(Recorded(c), client[c].svc).closed
<1>1. /\ RenderTyped /\ Newest /\ WithinBudget /\ client[c] \in Request
  BY DEF RenderInv, RenderTyped
<1>2. /\ client[c].pc = "touch"
      /\ services' = [s \in DOMAIN services |->
                        IF s \in closed /\ ~Locked(s)
                        THEN [services[s] EXCEPT !.reader = Closed] ELSE services[s]]
      /\ UNCHANGED <<file, served, cache, disk, operator>>
  BY DEF Touch, At
<1>3. Ends(c) \/ Goto(c, "quota")
  BY DEF Touch
<1> HIDE DEF closed
<1>4. DOMAIN services = 1..Len(services) /\ Len(services) \in Nat /\ services \in Seq(Service)
  BY <1>1 DEF RenderTyped
<1>5. ASSUME NEW s \in 1..Len(services)
      PROVE  /\ services'[s] \in Service
             /\ services'[s].of = services[s].of /\ services'[s].rev = services[s].rev
             /\ services'[s].stamp = services[s].stamp
             /\ services'[s].reader \in {services[s].reader, Closed}
             /\ Locked(s) => services'[s] = services[s]
  <2>1. services[s] \in Service
    BY <1>4
  <2>2. services'[s] = IF s \in closed /\ ~Locked(s)
                       THEN [services[s] EXCEPT !.reader = Closed] ELSE services[s]
    BY <1>2, <1>4
  <2>3. QED
    BY <2>1, <2>2 DEF Service
<1>6. services' \in Seq(Service) /\ Len(services') = Len(services)
  <2>1. services' \in [1..Len(services) -> Service]
    BY <1>2, <1>4, <1>5
  <2>2. QED
    BY <1>4, <2>1
<1>7. /\ \A s \in 1..Len(services') : NewestService(s)'
      /\ \A r \in Radargrams : ServedIsNewest(r)'
      /\ \A s \in 1..Len(services) :
            services'[s].stamp = file'[services'[s].of].stamp =>
               services[s].stamp = file[services[s].of].stamp
  BY <1>1, <1>2, <1>5, <1>6, ClosingStaysNewest
<1>8. /\ client' = [client EXCEPT ![c] = client'[c]]
      /\ client'[c] \in Request /\ client'[c].pc \in {"done", "quota"}
      /\ client'[c].pc = "quota" => client'[c].svc = client[c].svc
      /\ client'[c].holds \subseteq client[c].holds
  <2>1. CASE Ends(c)
    <3>1. client' = [client EXCEPT ![c] = [NoneAsked EXCEPT !.pc = "done", !.holds = {}]]
      BY <2>1 DEF Ends, GivenBack
    <3>2. client'[c] = [NoneAsked EXCEPT !.pc = "done", !.holds = {}]
      BY <1>1, <3>1 DEF RenderTyped
    <3>3. client'[c] = [pc |-> "done", kind |-> "chunk", svc |-> 0, holds |-> {},
                        found |-> FALSE, open |-> FALSE, gone |-> FALSE]
      BY <3>2 DEF NoneAsked
    <3>4. client'[c] \in Request /\ client'[c].pc = "done" /\ client'[c].holds = {}
      BY <3>3 DEF Request, Pcs, Kinds
    <3>5. client' = [client EXCEPT ![c] = client'[c]]
      BY <3>1, <3>2
    <3>6. QED
      BY <3>4, <3>5
  <2>2. CASE Goto(c, "quota")
    <3>1. client' = [client EXCEPT ![c] = [client[c] EXCEPT !.pc = "quota"]]
      BY <2>2 DEF Goto
    <3>2. client'[c] = [client[c] EXCEPT !.pc = "quota"]
      BY <1>1, <3>1 DEF RenderTyped
    <3>3. /\ client'[c] \in Request /\ client'[c].pc = "quota"
          /\ client'[c].svc = client[c].svc /\ client'[c].holds = client[c].holds
      BY <1>1, <3>2 DEF Request, Pcs
    <3>4. QED
      BY <3>1, <3>2, <3>3
  <2>3. QED
    BY <1>3, <2>1, <2>2
<1>9. \A d \in Clients : d # c => client'[d] = client[d]
  BY <1>1, <1>8 DEF RenderTyped
<1>10. client' \in [Clients -> Request]
  BY <1>1, <1>8 DEF RenderTyped
<1>11. RenderTyped'
  <2>1. client[c].svc \in 1..Len(services)
    BY <1>1, <1>2 DEF RenderTyped
  <2>2. \A d \in Clients : client'[d].pc \notin {"idle", "done"} => client'[d].svc \in 1..Len(services)
    BY <1>1, <1>8, <1>9, <2>1 DEF RenderTyped
  <2>3. QED
    BY <1>1, <1>2, <1>6, <1>10, <2>2 DEF RenderTyped
<1>12. PermitsHold'
  <2>1. HasPermits(c)'
    BY <1>8 DEF HasPermits
  <2>2. QED
    BY <1>8, <1>9, <1>10, <2>1, <1>1, PermitsStay DEF RenderInv
<1>13. WithinBudget'
  BY <1>1, <1>2 DEF WithinBudget, Bytes
<1>14. Newest'
  <2>1. ASSUME NEW i \in 1..Len(cache) PROVE NewestImage(i)'
    <3>1. NewestImage(i)
      BY <1>1 DEF Newest
    <3>2. QED
      BY <1>2, <1>5, <1>6, <1>7, <3>1 DEF NewestImage
  <2>2. QED
    BY <1>1, <1>2, <1>7, <2>1 DEF Newest, NewestOverview
<1>15. ASSUME NEW d \in Clients PROVE Renders(d)'
  <2>1. \A e \in Clients : At(e, "rendering")' => At(e, "rendering") /\ client'[e] = client[e]
    BY <1>8, <1>9 DEF At
  <2>2. Renders(d)
    BY DEF RenderInv
  <2>3. At(d, "rendering") => services'[client[d].svc] = services[client[d].svc]
    <3>1. At(d, "rendering") => client[d].svc \in 1..Len(services) /\ Locked(client[d].svc)
      BY <1>1 DEF RenderTyped, At, Locked
    <3>2. QED
      BY <1>5, <3>1
  <2>4. QED
    BY <1>2, <2>1, <2>2, <2>3 DEF Renders, InMemory, MemoryKey
<1>16. QED
  BY <1>11, <1>12, <1>13, <1>14, <1>15 DEF RenderInv

-----------------------------------------------------------------------------

\* A task may only render what is not stored for it, and what is stored it
\* takes.
LEMMA RenderStep == RenderInv /\ [Next]_vars => RenderInv'
<1> SUFFICES ASSUME RenderInv, [Next]_vars PROVE RenderInv'
  OBVIOUS
<1>1. ASSUME NEW c \in Clients, Look(c) PROVE RenderInv'
  <2>1. client[c].pc \notin {"idle", "done"} /\ "overview" \in Kinds
    BY <1>1 DEF Look, At, Kinds
  <2>2. Looks(c, client[c].svc, "overview")
    BY <1>1 DEF Look
  <2>3. QED
    BY <2>1, <2>2, LooksKeep
<1>2. ASSUME NEW c \in Clients, AnswerStored(c) PROVE RenderInv'
  <2>1. client[c].pc \notin {"idle", "done"}
    BY <1>2 DEF AnswerStored, At
  <2>2. client[c].kind \in Kinds
    BY DEF RenderInv, RenderTyped, Request
  <2>3. Looks(c, client[c].svc, client[c].kind)
    BY <1>2 DEF AnswerStored
  <2>4. QED
    BY <2>1, <2>2, <2>3, LooksKeep
<1>3. ASSUME NEW c \in Clients,
             Ask(c) \/ Task(c) \/ GivesUpWaiting(c) \/ GoesAway(c) \/ Fail(c)
      PROVE  RenderInv'
  <2>1. \/ Ask(c) \/ TakeQuota(c) \/ TakePermit(c) \/ GivesUpWaiting(c) \/ GoesAway(c)
        \/ Look(c) \/ AnswerStored(c) \/ Open(c) \/ Finish(c)
        \/ Fail(c) \/ AskWhetherOpen(c) \/ Touch(c)
    BY <1>3 DEF Task
  <2>2. CASE Ask(c) \/ TakeQuota(c) \/ TakePermit(c) \/ GivesUpWaiting(c) \/ GoesAway(c)
    BY <2>2, AsksKeep
  <2>3. CASE Look(c)
    BY <2>3, <1>1
  <2>4. CASE AnswerStored(c)
    BY <2>4, <1>2
  <2>5. CASE Open(c)
    BY <2>5, OpensKeep
  <2>6. CASE Finish(c)
    BY <2>6, FinishKeeps
  <2>7. CASE Fail(c) \/ AskWhetherOpen(c)
    BY <2>7, LeavingKeeps
  <2>8. CASE Touch(c)
    BY <2>8, TouchKeeps
  <2>9. QED
    BY <2>1, <2>2, <2>3, <2>4, <2>5, <2>6, <2>7, <2>8
<1>4. CASE Operator
  <2>1. \/ Rename \/ RenameFails \/ (\E r \in Replaced, v \in Revisions : LetGo(r, v))
        \/ Rediscover
    BY <1>4 DEF Operator
  <2>2. CASE Rediscover
    BY <2>2, RediscoverKeeps
  <2>3. CASE Rename \/ RenameFails \/ (\E r \in Replaced, v \in Revisions : LetGo(r, v))
    BY <2>3, RenameKeeps
  <2>4. QED
    BY <2>1, <2>2, <2>3
<1>5. CASE UNCHANGED vars
  <2>1. UNCHANGED <<file, services, served, cache, disk, client, operator>>
    BY <1>5 DEF vars
  <2>2. RenderTyped' /\ PermitsHold' /\ WithinBudget' /\ Newest'
    BY <2>1 DEF RenderInv, RenderTyped, PermitsHold, HasPermits, Holding, WithinBudget, Bytes,
                Newest, NewestService, NewestImage, NewestOverview, ServedIsNewest
  <2>3. \A c \in Clients : Renders(c)'
    BY <2>1 DEF RenderInv, Renders, At, InMemory, MemoryKey
  <2>4. QED
    BY <2>2, <2>3 DEF RenderInv
<1>6. QED
  BY <1>3, <1>4, <1>5 DEF Next, AllAnswered

LEMMA RenderInvAlways == RenderSpec => []RenderInv
<1>1. QED
  BY RenderInit, RenderStep, PTL DEF RenderSpec

-----------------------------------------------------------------------------

LEMMA InvLimits == RenderInv => LimitsHold
<1> SUFFICES ASSUME RenderInv PROVE LimitsHold
  OBVIOUS
<1>1. ASSUME NEW kinds, NEW p \in PermitKinds, Working(kinds) \subseteq Holding(p)
      PROVE  Cardinality(Working(kinds)) <= Permits(p)
  <2>1. Holding(p) \subseteq Clients
    BY DEF Holding
  <2>2. IsFiniteSet(Holding(p)) /\ Cardinality(Holding(p)) \in Nat
    BY <2>1, FS_Subset, FS_CardinalityType
  <2>3. Cardinality(Working(kinds)) <= Cardinality(Holding(p)) /\ Cardinality(Working(kinds)) \in Nat
    BY <1>1, <2>2, FS_Subset, FS_CardinalityType
  <2>4. Cardinality(Holding(p)) <= Permits(p)
    BY DEF RenderInv, PermitsHold
  <2>5. Permits(p) \in Nat
    BY DEF PermitKinds, Permits, AtLeastOne
  <2>6. QED
    BY <2>2, <2>3, <2>4, <2>5
<1>2. Working(Kinds) \subseteq Holding("render")
  BY DEF Working, Holding, RenderInv, PermitsHold, HasPermits
<1>3. Working({"overview"}) \subseteq Holding("build")
  BY DEF Working, Holding, RenderInv, PermitsHold, HasPermits
<1>4. Working({"figure"}) \subseteq Holding("figure")
  BY DEF Working, Holding, RenderInv, PermitsHold, HasPermits
<1>5. Permits("render") = Workers
  BY DEF Permits
<1>6. {"build", "figure", "render"} = PermitKinds
  BY DEF PermitKinds
<1>7. Cardinality(Working(Kinds)) <= Permits("render")
  BY <1>1, <1>2, <1>6
<1>8. Cardinality(Working({"overview"})) <= Permits("build")
  BY <1>1, <1>3, <1>6
<1>9. Cardinality(Working({"figure"})) <= Permits("figure")
  BY <1>1, <1>4, <1>6
<1>10. QED
  BY <1>5, <1>7, <1>8, <1>9 DEF LimitsHold, RenderInv, WithinBudget

LEMMA InvCurrent == RenderInv => CurrentImagesAreCurrent
<1> SUFFICES ASSUME RenderInv, NEW r \in Radargrams, served[r] # 0,
                    NEW k \in ImageKinds, Stored(served[r], k)
             PROVE  StoredImage(served[r], k) = services[served[r]].rev
  BY DEF CurrentImagesAreCurrent, ImageKinds
<1> DEFINE s == served[r]
<1>1. RenderTyped /\ Newest /\ s \in 1..Len(services)
  BY DEF RenderInv, RenderTyped
<1>2. services[s].of = r /\ services[s].stamp = file[r].stamp
  BY DEF RenderInv, Newest, ServedIsNewest
<1>3. k \in Kinds
  BY DEF Kinds, ImageKinds
<1>4. Stored(s, k)
  OBVIOUS
<1> HIDE DEF s
<1>5. services[s].stamp = file[services[s].of].stamp => StoredImage(s, k) = services[s].rev
  BY <1>1, <1>3, <1>4, StoredIsOfItsFile
<1>6. QED
  BY <1>2, <1>5 DEF s

\* However requests come, go away, give up and fail, and however files are
\* replaced under them, no more render than there are permits, and what is in
\* memory is within the budget or a single image: a task has its permits from
\* the one it waited for to its end, and every insertion trims.
THEOREM LimitsHoldAlways == RenderSpec => []LimitsHold
<1>1. QED
  BY RenderInvAlways, InvLimits, PTL

\* No task renders an image its service has in memory: it looks again once it
\* has the service's lock, and until it lets the lock go nothing else puts an
\* image there (render_service.rs: lock, second look, render).
THEOREM OneBuildAlways == RenderSpec => []OneBuildPerImage
<1>1. RenderInv => OneBuildPerImage
  BY DEF RenderInv, Renders, OneBuildPerImage
<1>2. QED
  BY RenderInvAlways, <1>1, PTL

\* Any number of replacements and of requests that still hold a replaced
\* service: what the service in the catalog finds, in memory or on disk, was
\* read from the file it was made for.  It rests on the stamp in the name of
\* an overview's file, and on the service's own scope in memory.
THEOREM CurrentImagesAlways == RenderSpec => []CurrentImagesAreCurrent
<1>1. QED
  BY RenderInvAlways, InvCurrent, PTL
=============================================================================
