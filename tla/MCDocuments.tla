----------------------------- MODULE MCDocuments -----------------------------
(* The document store, the requests that change shared documents through it,  *)
(* and the saves of a project's settings, each with two or three requests; and *)
(* what is worked out of documents: the expressions of derived items, the      *)
(* order items are evaluated in, and the axis picks are carried through; and a *)
(* radargram whose id changes while a person picks on it. A behaviour is about *)
(* one of the seven, chosen at its start, so that they are checked beside one  *)
(* another and not multiplied by one another.                                 *)
EXTENDS DocumentStore, ProjectDocuments, ProjectSettings,
        DerivedExpressions, DerivedItems, Tiepoints, IdChange

CONSTANT Subjects

VARIABLE subject

mcVars == <<storeVars, documentVars, settingsVars, pending, derivedVars, tiepointVars, idVars,
            subject>>

(* The calls of the requests, conditional as the pages make them: on the        *)
(* version they read, or on there being no profile with the new one's id.      *)
Saves ==
    [op : {"put"}, profile : Profiles, steps : {1, 2}, expects : {"version", "absent"}]
    \union [op : {"delete"}, profile : Profiles, expects : {"version", "any"}]
Vocabularies == {to \in [LayerNames -> LayerIds \union {Nothing}] :
                    \A m, n \in LayerNames : to[m] = to[n] /\ to[m] # Nothing => m = n}

Asked ==
    Saves
    \union [op : {"assign"}, radargram : Radargrams, profile : Profiles, expects : {"any"}]
    \union [op : {"unassign"}, radargram : Radargrams, expects : {"any"}]
    \union [op : {"layers"}, to : Vocabularies, expects : {"version"}]

(* The page's two forms of the render section, with the default cleared or not, *)
(* the one of the basemaps, and a script that sends everything.               *)
PageForms ==
    [{"profile"} -> Names \union {Unset}]
    \union [{"scale"} -> Scales]
    \union [{"hidden"} -> SUBSET Names]
    \union {[key \in {"hidden", "profile"} |-> IF key = "hidden" THEN hide ELSE n] :
                   hide \in SUBSET Names, n \in Names \union {Unset}}
    \union [{"basemaps"} -> SUBSET Names]
    \union [{"basemap"} -> Names \union {Unset}]
    \union {[key \in {"basemaps", "description"} |->
                IF key = "basemaps" THEN maps ELSE scale] :
                   maps \in {{}, Names}, scale \in Scales}

(* A file as it was processed first, on another grid, and by a program that     *)
(* declared no axes.                                                           *)
FileAxes == [first |-> "fine", regridded |-> "coarse", undeclared |-> Missing]
FileContents == DOMAIN FileAxes
TwoIds == {"old", "new"}

(* Each starts with its documents as a new project has them but for a profile   *)
(* that may be there already; the others stay in one state of theirs.       *)
StoreAtRest == file = [d \in Docs |-> Absent]
DocumentsAtRest ==
    /\ assignments = [r \in Radargrams |-> Nothing]
    /\ layers = [n \in LayerNames |-> Nothing]

ItemsAtRest == uses = [i \in Items |-> {}]
AxisAtRest == times = <<>>

MCInit ==
    /\ subject \in Subjects
    /\ StoreInit /\ DocumentsInit /\ SettingsInit
    /\ subject # "store" => StoreAtRest
    /\ DocumentsAtRest
    /\ subject # "documents" => \A p \in Profiles : profiles[p] = Nothing
    /\ ExpressionInit
    /\ IF subject = "items" THEN DerivedInit ELSE ItemsAtRest /\ DerivedInit
    /\ IF subject = "axis" THEN TiepointsInit ELSE AxisAtRest /\ TiepointsInit
    /\ IdInit /\ serving["old"] = "first"

MCNext ==
    \/ subject = "store" /\ StoreNext
         /\ UNCHANGED <<documentVars, settingsVars, pending, derivedVars, tiepointVars, idVars, subject>>
    \/ subject = "documents" /\ DocumentsNext
         /\ UNCHANGED <<storeVars, settingsVars, pending, derivedVars, tiepointVars, idVars, subject>>
    \/ subject = "settings" /\ SettingsNext
         /\ UNCHANGED <<storeVars, documentVars, pending, derivedVars, tiepointVars, idVars, subject>>
    \/ subject = "expressions" /\ ExpressionNext
         /\ UNCHANGED <<storeVars, documentVars, settingsVars, derivedVars, tiepointVars, idVars, subject>>
    \/ subject = "items" /\ DerivedNext
         /\ UNCHANGED <<storeVars, documentVars, settingsVars, pending, tiepointVars, idVars, subject>>
    \/ subject = "axis" /\ TiepointsNext
         /\ UNCHANGED <<storeVars, documentVars, settingsVars, pending, derivedVars, idVars,
                        subject>>
    \/ subject = "change of id" /\ IdNext
         /\ UNCHANGED <<storeVars, documentVars, settingsVars, pending, derivedVars, tiepointVars,
                        subject>>

MCSpec == MCInit /\ [][MCNext]_mcVars
=============================================================================
