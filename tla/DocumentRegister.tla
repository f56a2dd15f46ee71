-------------------------- MODULE DocumentRegister --------------------------
(* What the document store promises its callers: each document is a register  *)
(* that is read, compared-and-set and compared-and-removed in one step. A     *)
(* call takes effect once, at one instant, or leaves every document as it     *)
(* was; a call cut short by a crash has done one or the other. A conflict is  *)
(* answered of a document left alone, but a write answered with an error may  *)
(* have had its effect.                                                       *)
CONSTANTS
    Threads,    \* the requests' threads
    Docs,       \* the documents
    Texts,      \* what a document may hold; its version is its content
    Absent      \* of a document that is not there

VARIABLES
    value,      \* what each document holds
    asked,      \* what each thread asked for, or Idle
    answer      \* what it has been answered, or Pending

vars == <<value, asked, answer>>

Idle == [op |-> "idle"]
Pending == [is |-> "pending"]
Installed == [is |-> "installed"]
Failed == [is |-> "failed"]
Conflict(now) == [is |-> "conflict", now |-> now]
Found(now) == [is |-> "found", now |-> now]
Written(text) == [is |-> "written", now |-> text]
Removed(was) == [is |-> "removed", now |-> was]

(* What a write expects to replace.                                           *)
Expectations ==
    [is : {"any", "present", "absent"}] \union [is : {"version"}, of : Texts]

(* Whether `expected` is satisfied by a document that holds `now`.            *)
Satisfied(expected, now) ==
    \/ expected.is = "any"
    \/ expected.is = "present" /\ now # Absent
    \/ expected.is = "absent" /\ now = Absent
    \/ expected.is = "version" /\ now = expected.of

Calls ==
    [op : {"read"}, doc : Docs]
    \union [op : {"write"}, doc : Docs, text : Texts, expected : Expectations]
    \union [op : {"remove"}, doc : Docs, expected : Expectations]

(* What the call leaves the document holding, and what comes of it: a write    *)
(* that is installed has yet to be answered.                                  *)
After(call, now) ==
    CASE call.op = "write" /\ Satisfied(call.expected, now) -> call.text
      [] call.op = "remove" /\ Satisfied(call.expected, now) -> Absent
      [] OTHER -> now

Outcome(call, now) ==
    CASE call.op = "read" -> Found(now)
      [] call.op = "write" /\ Satisfied(call.expected, now) -> Installed
      [] call.op = "remove" /\ Satisfied(call.expected, now) -> Removed(now)
      [] OTHER -> Conflict(now)

Init ==
    /\ value \in [Docs -> Texts \union {Absent}]
    /\ asked = [t \in Threads |-> Idle]
    /\ answer = [t \in Threads |-> Pending]

Ask(t) ==
    /\ asked[t] = Idle
    /\ \E call \in Calls : asked' = [asked EXCEPT ![t] = call]
    /\ UNCHANGED <<value, answer>>

(* The call takes effect.                                                     *)
Do(t) ==
    /\ asked[t] # Idle
    /\ answer[t] = Pending
    /\ value' = [value EXCEPT ![asked[t].doc] = After(asked[t], @)]
    /\ answer' = [answer EXCEPT ![t] = Outcome(asked[t], value[asked[t].doc])]
    /\ UNCHANGED asked

(* The write has had its effect, and is answered with the version it left, or  *)
(* with an error of finding it out.                                           *)
Tell(t) ==
    /\ answer[t] = Installed
    /\ \E it \in {Written(asked[t].text), Failed} : answer' = [answer EXCEPT ![t] = it]
    /\ UNCHANGED <<value, asked>>

(* An error, and no effect.                                                   *)
Fail(t) ==
    /\ asked[t] # Idle
    /\ answer[t] = Pending
    /\ answer' = [answer EXCEPT ![t] = Failed]
    /\ UNCHANGED <<value, asked>>

Return(t) ==
    /\ answer[t] \notin {Pending, Installed}
    /\ asked' = [asked EXCEPT ![t] = Idle]
    /\ answer' = [answer EXCEPT ![t] = Pending]
    /\ UNCHANGED value

Crash ==
    /\ asked' = [t \in Threads |-> Idle]
    /\ answer' = [t \in Threads |-> Pending]
    /\ UNCHANGED value

Next ==
    \/ \E t \in Threads : Ask(t) \/ Do(t) \/ Tell(t) \/ Fail(t) \/ Return(t)
    \/ Crash

Spec == Init /\ [][Next]_vars
=============================================================================
