--------------------------- MODULE ProjectSettings ---------------------------
(* Saving a project's settings: `put_settings`                                *)
(* (src/src/server/interp_routes.rs) works out each section the request names  *)
(* from what it was sent and the settings held in memory, a key at a time, and  *)
(* `edit_marker` (src/src/project/mod.rs) writes the section into ridal.toml    *)
(* over the version it read and then puts what it wrote in memory. A setting is *)
(* one value; the sections are those of the page: the render defaults with the *)
(* hidden profiles, the basemaps with the default one, and the description.    *)
(* "basemaps" is what is offered, the built-in one with the project's own.     *)
EXTENDS Integers, FiniteSets

CONSTANTS
    Savers,         \* the requests, each made once
    Names,          \* render profiles, and basemaps
    Fallback,       \* the profile that renders when no default is set
    Scales,         \* horizontal scales
    Unset,
    Forms           \* what requests send: the keys they name, and their values

ASSUME SettingsAssumption ==
    /\ Fallback \in Names
    /\ Unset \notin Names \union Scales

Defaults == {"profile", "hidden", "scale"}
Maps == {"basemaps", "basemap"}
Descriptions == {"description"}
Keys == Defaults \union Maps \union Descriptions
Sections == {Defaults, Maps, Descriptions}

Fresh == [key \in Keys |-> IF key \in {"hidden", "basemaps"} THEN {} ELSE Unset]

VARIABLES
    marker,         \* the settings in ridal.toml
    memory,         \* the settings the server answers with
    sent,           \* what each request sends: the keys it names and their values
    todo,           \* the sections it has yet to save
    plan,           \* the values of the section it is saving
    read,           \* the ridal.toml it read
    where           \* where each request is

settingsVars == <<marker, memory, sent, todo, plan, read, where>>

NothingSent == [key \in {} |-> Unset]

SettingsInit ==
    /\ marker = Fresh
    /\ memory = Fresh
    /\ sent = [s \in Savers |-> NothingSent]
    /\ todo = [s \in Savers |-> {}]
    /\ plan = [s \in Savers |-> NothingSent]
    /\ read = [s \in Savers |-> Fresh]
    /\ where = [s \in Savers |-> "before"]

----------------------------------------------------------------------------
Move(s, from, to) ==
    /\ where[s] = from
    /\ where' = [where EXCEPT ![s] = to]

(* A request names some keys; a section is saved if one of its keys is named.  *)
SendSettings(s, values) ==
    /\ Move(s, "before", "planning")
    /\ sent' = [sent EXCEPT ![s] = values]
    /\ todo' = [todo EXCEPT ![s] = {sec \in Sections : sec \intersect DOMAIN values # {}}]
    /\ UNCHANGED <<marker, memory, plan, read>>

(* The sections are saved in the order of the code: defaults, maps, texts.     *)
NextSection(s) ==
    CASE Defaults \in todo[s] -> Defaults
      [] Maps \in todo[s] -> Maps
      [] OTHER -> Descriptions

(* The keys of the section that are worked out before `key` is.                *)
Earlier(key) ==
    CASE key = "hidden" -> {"profile"}
      [] key = "scale" -> {"profile", "hidden"}
      [] key = "basemaps" -> {"basemap"}
      [] OTHER -> {}

(* A key is as it was sent, or as memory holds it now.                        *)
WithKey(s, key) ==
    [k \in DOMAIN plan[s] \union {key} |->
        CASE k # key -> plan[s][k]
          [] key \in DOMAIN sent[s] -> sent[s][key]
          [] OTHER -> memory[key]]

(* A default basemap not sent is dropped when nothing offers it any more.      *)
Kept(s, values) ==
    IF /\ Maps \subseteq DOMAIN values
       /\ "basemap" \notin DOMAIN sent[s]
       /\ values["basemap"] \notin values["basemaps"]
    THEN [values EXCEPT !["basemap"] = Unset]
    ELSE values

Effective(profile) == IF profile = Unset THEN Fallback ELSE profile

(* Seeded fault: the default is checked against what is hidden and offered now. *)
AllowedNow(values) ==
    /\ {"profile", "hidden"} \subseteq DOMAIN values =>
           Effective(values["profile"]) \notin memory["hidden"]
    /\ Maps \subseteq DOMAIN values => values["basemap"] \in memory["basemaps"] \union {Unset}

(* A hidden profile cannot be the default, be it the one for want of another,  *)
(* and a default basemap is one that is offered; both as they will be once the *)
(* save lands, and as soon as both keys of the check are worked out.          *)
Allowed(values) ==
    /\ {"profile", "hidden"} \subseteq DOMAIN values =>
           Effective(values["profile"]) \notin values["hidden"]
    /\ Maps \subseteq DOMAIN values => values["basemap"] \in values["basemaps"] \union {Unset}

PlanKey(s, key) ==
    /\ todo[s] # {}
    /\ key \in NextSection(s) \ DOMAIN plan[s]
    /\ Earlier(key) \subseteq DOMAIN plan[s]
    /\ Allowed(plan[s])
    /\ Move(s, "planning", "planning")
    /\ plan' = [plan EXCEPT ![s] = Kept(s, WithKey(s, key))]
    /\ UNCHANGED <<marker, memory, sent, todo, read>>

SectionPlanned(s) ==
    /\ todo[s] # {}
    /\ DOMAIN plan[s] = NextSection(s)
    /\ Allowed(plan[s])
    /\ Move(s, "planning", "reading")
    /\ todo' = [todo EXCEPT ![s] = @ \ {NextSection(s)}]
    /\ UNCHANGED <<marker, memory, sent, plan, read>>

(* Refused: what earlier sections saved stays saved.                          *)
RefuseSection(s) ==
    /\ ~Allowed(plan[s])
    /\ Move(s, "planning", "refused")
    /\ UNCHANGED <<marker, memory, sent, todo, plan, read>>

ReadMarker(s) ==
    /\ Move(s, "reading", "writing")
    /\ read' = [read EXCEPT ![s] = marker]
    /\ UNCHANGED <<marker, memory, sent, todo, plan>>

(* Seeded fault: the whole file is written from memory.                       *)
MergedFromMemory(s) ==
    [key \in Keys |-> IF key \in DOMAIN plan[s] THEN plan[s][key] ELSE memory[key]]

Merged(s) == [key \in Keys |-> IF key \in DOMAIN plan[s] THEN plan[s][key] ELSE read[s][key]]

(* Written only over the version it read.                                     *)
Unmoved(s) == marker = read[s]

WriteMarker(s) ==
    /\ Unmoved(s)
    /\ Move(s, "writing", "publishing")
    /\ marker' = Merged(s)
    /\ UNCHANGED <<memory, sent, todo, plan, read>>

(* The file is written, and the answer is an error of reading it back: memory   *)
(* stays behind.                                                              *)
WriteUnconfirmed(s) ==
    /\ Unmoved(s)
    /\ Move(s, "writing", "refused")
    /\ marker' = Merged(s)
    /\ UNCHANGED <<memory, sent, todo, plan, read>>

(* The file cannot be read, or written.                                       *)
MarkerFails(s) ==
    /\ \E from \in {"reading", "writing"} : Move(s, from, "refused")
    /\ UNCHANGED <<marker, memory, sent, todo, plan, read>>

MarkerMoved(s) ==
    /\ ~Unmoved(s)
    /\ Move(s, "writing", "refused")
    /\ UNCHANGED <<marker, memory, sent, todo, plan, read>>

(* Memory is what this save wrote, parsed again.                              *)
Publish(s) ==
    /\ Move(s, "publishing", "planning")
    /\ memory' = Merged(s)
    /\ plan' = [plan EXCEPT ![s] = NothingSent]
    /\ UNCHANGED <<marker, sent, todo, read>>

AnswerSettings(s) ==
    /\ todo[s] = {}
    /\ Move(s, "planning", "saved")
    /\ UNCHANGED <<marker, memory, sent, todo, plan, read>>

SettingsStep(s) ==
    \/ \E values \in Forms : SendSettings(s, values)
    \/ \E key \in Keys : PlanKey(s, key)
    \/ SectionPlanned(s) \/ RefuseSection(s) \/ ReadMarker(s) \/ WriteMarker(s)
    \/ WriteUnconfirmed(s) \/ MarkerFails(s) \/ MarkerMoved(s) \/ Publish(s)
    \/ AnswerSettings(s)

SettingsNext == \E s \in Savers : SettingsStep(s)

SettingsSpec == SettingsInit /\ [][SettingsNext]_settingsVars

----------------------------------------------------------------------------
(* The file never holds a default that cannot be used: a default profile, or   *)
(* the fallback where none is set, that is hidden, or a default basemap nothing *)
(* offers, whatever was saved together and in whatever order.                 *)
DefaultIsOffered ==
    /\ Effective(marker["profile"]) \notin marker["hidden"]
    /\ marker["basemap"] \in marker["basemaps"] \union {Unset}

(* A save changes the keys of the section it is saving and no other section's. *)
SectionsApart ==
    [][marker' # marker =>
           \E s \in Savers : \A key \in Keys :
               marker'[key] # marker[key] => key \in DOMAIN plan[s]]_settingsVars
=============================================================================
