---------------------------- MODULE ChunkedUpload ----------------------------
(***************************************************************************)
(* Files sent a chunk at a time (src/project/uploads.rs and                *)
(* src/server/upload_routes.rs): an upload is a document that says what    *)
(* was declared and a .part with what arrived, whose length is the offset. *)
(* Requests on one upload run at once, stop halfway, are sent again, and   *)
(* meet its cancellation and the sweep of idle uploads.                    *)
(*                                                                         *)
(* A byte of a file is its place in it, so what a .part should hold is     *)
(* 1 .. n in this order.                                                   *)
(***************************************************************************)
EXTENDS Naturals, Sequences

CONSTANTS
    Uploads,    \* the uploads ever declared
    Slots,      \* the requests that can be in flight at once
    Size,       \* the bytes of a file
    Gone,       \* no file: not any more,
    Unborn      \* or not yet

ASSUME UploadsAssumption == Size \in Nat \ {0}
ASSUME NoFileAssumption ==
    Gone # Unborn /\ \A n \in 0 .. Size : {Gone, Unborn} \cap [1 .. n -> 1 .. Size] = {}

VARIABLES
    document,   \* the uploads whose .json is there
    part,       \* the bytes of each .part, Gone or Unborn
    partAge,    \* when a chunk last came: this hour, this day, or before
    sending,    \* Sending: the uploads a request sends to or takes
    request     \* what each request in flight has got to

uploadVars == <<document, part, partAge, sending>>

Ages == {"young", "old", "idle"}
NoRequest == [at |-> "none"]

\* offset: what has arrived is the length of the .part.
Offset(u) == Len(part[u])

\* caller_upload: an upload is one only with both its files.
Exists(u) == u \in document /\ part[u] # Gone

\* Some of its files are there.
Left(u) == u \in document \/ part[u] \notin {Gone, Unborn}

Free(s) == request[s] = NoRequest

Answers(s) == request' = [request EXCEPT ![s] = NoRequest]

-----------------------------------------------------------------------------
(***************************************************************************)
(* create_upload, get_upload, put_chunk and delete_upload                  *)
(***************************************************************************)

InitUploads ==
    /\ document = {}
    /\ part = [u \in Uploads |-> Unborn]
    /\ partAge = [u \in Uploads |-> "young"]
    /\ sending = {}

\* uploads::sweep: what nobody has sent to for a day goes, and the halves of
\* what a crash left without the other.
IdleUploads == {u \in Uploads : Left(u) /\ partAge[u] = "idle"}

\* create_upload sweeps before it measures the room, then writes the .part
\* and the document. Its id is 128 random bits, so it never comes back.
Declares(u) ==
    /\ part[u] = Unborn
    /\ document' = (document \ IdleUploads) \cup {u}
    /\ part' = [v \in Uploads |->
                  IF v = u THEN <<>> ELSE IF v \in IdleUploads THEN Gone ELSE part[v]]
    /\ UNCHANGED <<partAge, sending, request>>

\* Seeded fault: the chunk's start is checked before the upload is claimed.
ChunkStartsUnclaimed(s, u, from, to) ==
    /\ Free(s) /\ Exists(u)
    /\ from = Offset(u) + 1 /\ from <= to /\ to <= Size
    /\ sending' = sending \cup {u}
    /\ request' = [request EXCEPT ![s] =
                     [at |-> "measuring", upload |-> u, next |-> from, to |-> to]]
    /\ UNCHANGED <<document, part, partAge>>

\* put_chunk: claimed, and it starts where the last one ended. A chunk that
\* does not, or that finds the upload busy or missing, is refused.
ChunkStarts(s, u, from, to) ==
    /\ Free(s) /\ Exists(u) /\ u \notin sending
    /\ from = Offset(u) + 1 /\ from <= to /\ to <= Size
    /\ sending' = sending \cup {u}
    /\ request' = [request EXCEPT ![s] =
                     [at |-> "measuring", upload |-> u, next |-> from, to |-> to]]
    /\ UNCHANGED <<document, part, partAge>>

\* Once the lifecycle lock is had and there is room, the .part is opened, if
\* it still is there.
ChunkOpens(s) ==
    /\ request[s].at = "measuring"
    /\ part[request[s].upload] # Gone
    /\ request' = [request EXCEPT ![s].at = "writing"]
    /\ UNCHANGED uploadVars

\* append: bytes go to the end of the file, or nowhere when it was unlinked.
ChunkWrites(s) ==
    LET u == request[s].upload IN
    /\ request[s].at = "writing" /\ request[s].next <= request[s].to
    /\ request' = [request EXCEPT ![s].next = @ + 1]
    /\ IF part[u] = Gone
       THEN UNCHANGED <<part, partAge>>
       ELSE /\ part' = [part EXCEPT ![u] = Append(@, request[s].next)]
            /\ partAge' = [partAge EXCEPT ![u] = "young"]
    /\ UNCHANGED <<document, sending>>

\* The request ends: the chunk is in, broke off, was refused, or its sender
\* hung up. What arrived is kept and the claim is dropped.
ChunkEnds(s) ==
    /\ request[s].at \in {"measuring", "writing"}
    /\ sending' = sending \ {request[s].upload}
    /\ Answers(s)
    /\ UNCHANGED <<document, part, partAge>>

\* delete_upload does not claim: a chunk still arriving writes into a file
\* that is gone.
CancelsUpload(u) ==
    /\ Exists(u)
    /\ document' = document \ {u}
    /\ part' = [part EXCEPT ![u] = Gone]
    /\ UNCHANGED <<partAge, sending, request>>

-----------------------------------------------------------------------------
(***************************************************************************)
(* Taking a finished upload in place of a request's body                   *)
(***************************************************************************)

\* claim: complete, and nothing else sends to it or takes it meanwhile.
Claims(s, u) ==
    /\ Free(s) /\ Exists(u) /\ u \notin sending
    /\ Offset(u) = Size
    /\ sending' = sending \cup {u}
    /\ request' = [request EXCEPT ![s] = [at |-> "claimed", upload |-> u]]
    /\ UNCHANGED <<document, part, partAge>>

\* take_to: the .part is renamed to where the body would be, which keeps the
\* time of its last chunk, ...
TakesPart(s) ==
    LET u == request[s].upload IN
    /\ request[s].at = "claimed" /\ part[u] # Gone
    /\ part' = [part EXCEPT ![u] = Gone]
    /\ request' = [request EXCEPT ![s] =
                     [at |-> "taken", upload |-> u, bytes |-> part[u], age |-> partAge[u]]]
    /\ UNCHANGED <<document, partAge, sending>>

\* ... then the document goes too, and the request goes on with the file.
ForgetsUpload(s, next) ==
    LET u == request[s].upload IN
    /\ request[s].at = "taken"
    /\ document' = document \ {u}
    /\ sending' = sending \ {u}
    /\ request' = [request EXCEPT ![s] = next]
    /\ UNCHANGED <<part, partAge>>

\* The .part was deleted since it was claimed.
TakesNothing(s) ==
    /\ request[s].at = "claimed" /\ part[request[s].upload] = Gone
    /\ sending' = sending \ {request[s].upload}
    /\ Answers(s)
    /\ UNCHANGED <<document, part, partAge>>

\* Nobody has sent to an upload for an hour more, or for a day.
UploadsAge(hourOrDay) ==
    partAge' = [u \in Uploads |->
                  IF ~Left(u) THEN partAge[u]
                  ELSE IF partAge[u] = "young" /\ hourOrDay = "hour" THEN "old"
                  ELSE "idle"]

UploadNext ==
    \/ \E u \in Uploads : Declares(u) \/ CancelsUpload(u)
    \/ \E s \in Slots, u \in Uploads :
         \/ \E from, to \in 1 .. Size : ChunkStarts(s, u, from, to)
         \/ Claims(s, u)
    \/ \E s \in Slots :
         \/ ChunkOpens(s) \/ ChunkWrites(s) \/ ChunkEnds(s)
         \/ TakesPart(s) \/ TakesNothing(s)

-----------------------------------------------------------------------------
(***************************************************************************)
(* Properties                                                              *)
(***************************************************************************)

UploadsTypeOK ==
    /\ document \in SUBSET Uploads
    /\ \A u \in Uploads : part[u] \in {Gone, Unborn} \/ part[u] \in Seq(1 .. Size)
    /\ partAge \in [Uploads -> Ages]
    /\ sending \in SUBSET Uploads
    /\ DOMAIN request = Slots

\* "The offset is the length of the file on disk" (upload_routes.rs): what
\* arrived is always the beginning of the file, whatever was sent twice,
\* broke off or was sent by two requests at once; and what a request takes in
\* place of its body is the whole of it.
ArrivedIsTheFile ==
    /\ \A u \in Uploads :
          part[u] \notin {Gone, Unborn} => part[u] = [n \in 1 .. Offset(u) |-> n]
    /\ \A s \in Slots : request[s].at = "taken" => Len(request[s].bytes) = Size
==============================================================================
