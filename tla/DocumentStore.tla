---------------------------- MODULE DocumentStore ----------------------------
(* The project's document store (src/src/project/store.rs): the threads of one *)
(* server, each writing through a temporary sibling and a rename under the     *)
(* store's lock, with the version it found compared first. Reads take no lock. *)
(* Documents of the model lie in one directory, which a write makes and a tidy *)
(* removes when it is empty.                                                   *)
EXTENDS FiniteSets, Integers

CONSTANTS
    Threads,
    Docs,
    Texts,
    Absent,
    Free,       \* of the lock when nobody holds it
    MaxCrashes  \* bound: crashes of the process

ASSUME StoreAssumption ==
    /\ Absent \notin Texts
    /\ Free \notin Threads
    /\ MaxCrashes \in Nat

VARIABLES
    file,       \* what each document's file holds, or Absent
    directory,  \* whether the documents' directory is there
    temp,       \* each thread's temporary file: "none", "part" or "whole"
    left,       \* whether a crash left a temporary file behind
    lock,       \* DocumentStore::write_lock
    at,         \* where each thread is
    asked,      \* what it was asked
    answer,     \* what it will answer
    crashes

storeVars == <<file, directory, temp, left, lock, at, asked, answer, crashes>>

(* How far a call is: a write has taken effect at its rename, and is answered  *)
(* after it.                                                                  *)
Settled ==
    [t \in Threads |-> IF at[t] = "renamed" THEN [is |-> "installed"] ELSE answer[t]]

Promise == INSTANCE DocumentRegister WITH value <- file, answer <- Settled

Empty ==
    /\ \A d \in Docs : file[d] = Absent
    /\ \A t \in Threads : temp[t] = "none"
    /\ ~left

Places == {"idle", "called", "compared", "made", "writing", "written",
           "renamed", "unlinking", "answered"}
Critical == {"compared", "made", "writing", "written", "renamed", "unlinking"}

StoreInit ==
    /\ file \in [Docs -> Texts \union {Absent}]
    /\ directory = TRUE
    /\ temp = [t \in Threads |-> "none"]
    /\ left = FALSE
    /\ lock = Free
    /\ at = [t \in Threads |-> "idle"]
    /\ asked = [t \in Threads |-> Promise!Idle]
    /\ answer = [t \in Threads |-> Promise!Pending]
    /\ crashes = 0

----------------------------------------------------------------------------
Step(t, from, to) ==
    /\ at[t] = from
    /\ at' = [at EXCEPT ![t] = to]

Answered(t, with) == answer' = [answer EXCEPT ![t] = with]

CallStore(t, call) ==
    /\ Step(t, "idle", "called")
    /\ asked' = [asked EXCEPT ![t] = call]
    /\ UNCHANGED <<file, directory, temp, left, lock, answer, crashes>>

(* DocumentStore::read: the file as it is, whole, without the lock.           *)
Read(t) ==
    /\ asked[t].op = "read"
    /\ Step(t, "called", "answered")
    /\ Answered(t, Promise!Found(file[asked[t].doc]))
    /\ UNCHANGED <<file, directory, temp, left, lock, asked, crashes>>

(* An error before anything is compared: of resolving the path, of a lock that *)
(* is poisoned, or of reading the document.                                   *)
CallFails(t) ==
    /\ Step(t, "called", "answered")
    /\ Answered(t, Promise!Failed)
    /\ UNCHANGED <<file, directory, temp, left, lock, asked, crashes>>

(* Seeded fault: the version is compared before the lock is taken.            *)
CompareUnlocked(t) ==
    /\ asked[t].op \in {"write", "remove"}
    /\ Promise!Satisfied(asked[t].expected, file[asked[t].doc])
    /\ Step(t, "called", IF asked[t].op = "write" THEN "compared" ELSE "unlinking")
    /\ lock' = t
    /\ UNCHANGED <<file, directory, temp, left, asked, answer, crashes>>

(* The lock is taken and the version found compared with the one expected.    *)
Compare(t) ==
    /\ asked[t].op \in {"write", "remove"}
    /\ lock = Free
    /\ LET now == file[asked[t].doc]
       IN  \/ /\ Promise!Satisfied(asked[t].expected, now)
              /\ Step(t, "called",
                      IF asked[t].op = "write" THEN "compared" ELSE "unlinking")
              /\ lock' = t
              /\ UNCHANGED answer
           \/ /\ ~Promise!Satisfied(asked[t].expected, now)
              /\ Step(t, "called", "answered")
              /\ Answered(t, Promise!Conflict(now))
              /\ UNCHANGED lock
    /\ UNCHANGED <<file, directory, temp, left, asked, crashes>>

(* create_dir_all of the document's directory.                                *)
MakeDirectory(t) ==
    /\ Step(t, "compared", "made")
    /\ directory' = TRUE
    /\ UNCHANGED <<file, temp, left, lock, asked, answer, crashes>>

(* The temporary sibling is created, then holds the whole text, synced.       *)
CreateTemp(t) ==
    /\ directory
    /\ Step(t, "made", "writing")
    /\ temp' = [temp EXCEPT ![t] = "part"]
    /\ UNCHANGED <<file, directory, left, lock, asked, answer, crashes>>

FillTemp(t) ==
    /\ Step(t, "writing", "written")
    /\ temp' = [temp EXCEPT ![t] = "whole"]
    /\ UNCHANGED <<file, directory, left, lock, asked, answer, crashes>>

(* A write that fails takes its temporary file with it.                       *)
WriteFails(t) ==
    /\ at[t] \in {"compared", "made", "writing", "written"}
    /\ at' = [at EXCEPT ![t] = "answered"]
    /\ temp' = [temp EXCEPT ![t] = "none"]
    /\ lock' = Free
    /\ Answered(t, Promise!Failed)
    /\ UNCHANGED <<file, directory, left, asked, crashes>>

Rename(t) ==
    /\ Step(t, "written", "renamed")
    /\ file' = [file EXCEPT ![asked[t].doc] = asked[t].text]
    /\ temp' = [temp EXCEPT ![t] = "none"]
    /\ UNCHANGED <<directory, left, lock, asked, answer, crashes>>

(* The version answered is of the file read back, still under the lock. The    *)
(* document is written also when it is not there or cannot be read, and the    *)
(* answer is an error.                                                        *)
ReadBack(t) ==
    /\ Step(t, "renamed", "answered")
    /\ \/ /\ file[asked[t].doc] # Absent
          /\ Answered(t, Promise!Written(file[asked[t].doc]))
       \/ Answered(t, Promise!Failed)
    /\ lock' = Free
    /\ UNCHANGED <<file, directory, temp, left, asked, crashes>>

Unlink(t) ==
    /\ Step(t, "unlinking", "answered")
    /\ file' = [file EXCEPT ![asked[t].doc] = Absent]
    /\ Answered(t, Promise!Removed(file[asked[t].doc]))
    /\ lock' = Free
    /\ UNCHANGED <<directory, temp, left, asked, crashes>>

UnlinkFails(t) ==
    /\ Step(t, "unlinking", "answered")
    /\ Answered(t, Promise!Failed)
    /\ lock' = Free
    /\ UNCHANGED <<file, directory, temp, left, asked, crashes>>

ReturnStore(t) ==
    /\ Step(t, "answered", "idle")
    /\ asked' = [asked EXCEPT ![t] = Promise!Idle]
    /\ Answered(t, Promise!Pending)
    /\ UNCHANGED <<file, directory, temp, left, lock, crashes>>

(* remove_empty_dir, under the lock: one still holding anything stays.        *)
Tidy ==
    /\ lock = Free
    /\ directory
    /\ Empty
    /\ directory' = FALSE
    /\ UNCHANGED <<file, temp, left, lock, at, asked, answer, crashes>>

(* The process ends: temporary files stay where they are.                     *)
Crash ==
    /\ crashes < MaxCrashes
    /\ crashes' = crashes + 1
    /\ left' = (left \/ \E t \in Threads : temp[t] # "none")
    /\ temp' = [t \in Threads |-> "none"]
    /\ lock' = Free
    /\ at' = [t \in Threads |-> "idle"]
    /\ asked' = [t \in Threads |-> Promise!Idle]
    /\ answer' = [t \in Threads |-> Promise!Pending]
    /\ UNCHANGED <<file, directory>>

StoreStep(t) ==
    \/ \E call \in Promise!Calls : CallStore(t, call)
    \/ Read(t) \/ CallFails(t) \/ Compare(t) \/ MakeDirectory(t) \/ CreateTemp(t) \/ FillTemp(t)
    \/ WriteFails(t) \/ Rename(t) \/ ReadBack(t) \/ Unlink(t) \/ UnlinkFails(t)
    \/ ReturnStore(t)

StoreNext == (\E t \in Threads : StoreStep(t)) \/ Tidy \/ Crash

StoreSpec == StoreInit /\ [][StoreNext]_storeVars

----------------------------------------------------------------------------
StoreTypeOK ==
    /\ file \in [Docs -> Texts \union {Absent}]
    /\ directory \in BOOLEAN
    /\ temp \in [Threads -> {"none", "part", "whole"}]
    /\ left \in BOOLEAN
    /\ lock \in Threads \union {Free}
    /\ at \in [Threads -> Places]
    /\ asked \in [Threads -> Promise!Calls \union {Promise!Idle}]
    /\ crashes \in 0..MaxCrashes

(* Who is between comparing and installing holds the lock, and the document is *)
(* still the one it expected, whatever other requests have done since.        *)
WriterHoldsLock ==
    \A t \in Threads : at[t] \in Critical =>
        /\ lock = t
        /\ at[t] # "renamed" => Promise!Satisfied(asked[t].expected, file[asked[t].doc])

(* The store keeps its promise: every call is one read, compare-and-set or     *)
(* compare-and-remove, in one step, crashes and errors included; only a write  *)
(* that had its effect may be answered with an error all the same.            *)
StoreIsRegister == Promise!Spec
=============================================================================
