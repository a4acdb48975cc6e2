----------------------------- MODULE Directory -----------------------------
(* What the hub knows by name: agents and groups, which share a namespace no *)
(* constraint of the database protects (services/agent_service.py,           *)
(* services/group_service.py); a broadcast to a group, one message at a      *)
(* time (services/message_service.py); and the built-in presets, seeded at   *)
(* each start, whose unique index does not cover rows without an owner       *)
(* (services/preset_service.py).                                             *)
EXTENDS Naturals, FiniteSets, Sequences

CONSTANTS Names,     \* slugs people choose
          Clerks,    \* creations the hub serves at a time
          Caster,    \* the agent that broadcasts
          Presets,   \* ids of built-in presets
          Seeds,     \* BUILTIN_PRESETS, in their order
          Renamed,   \* another name for a preset
          MaxRounds  \* bound of the exploration
NoName == "none"
SeedNames == {Seeds[i] : i \in DOMAIN Seeds}
ASSUME DirectoryAssumption ==
  /\ Caster \in Names /\ MaxRounds \in Nat
  /\ Seeds \in Seq(SeedNames) /\ NoName \notin SeedNames \cup {Renamed} /\ IsFiniteSet(Presets)

VARIABLES agents, groups, members,
          creating,   \* the creation each clerk is busy with
          cast,       \* the broadcast in progress, and its report
          copies,     \* messages stored for each recipient of it
          preset,     \* name of each built-in preset, or NoName
          renaming,   \* renames under way
          entangled,  \* history: names two creations were after at once
          muddled,    \* history: two renames overlapped
          rounds
directoryVars == <<agents, groups, members, creating, cast, copies, preset, renaming,
                   entangled, muddled, rounds>>
slugVars == <<agents, groups, members, creating, entangled>>
castVars == <<cast, copies>>
presetVars == <<preset, renaming, muddled>>

Off == [at |-> "off"]
Round == rounds < MaxRounds /\ rounds' = rounds + 1

DirectoryInit ==
  /\ agents = {Caster} /\ groups = {} /\ members = {}
  /\ creating = [c \in Clerks |-> Off] /\ entangled = {}
  /\ cast = Off /\ copies = [n \in Names |-> 0]
  /\ preset = [i \in Presets |-> NoName] /\ renaming = {} /\ muddled = FALSE
  /\ rounds = 0

-----------------------------------------------------------------------------
(* Slugs.  Each creation looks into its own table, into the other, then      *)
(* inserts; only the primary key of its own table can still refuse it.       *)

Table(kind) == IF kind = "agent" THEN agents ELSE groups

CreateLooks(c, kind, n) ==
  /\ creating[c] = Off /\ Round /\ n \notin Table(kind)
  /\ creating' = [creating EXCEPT ![c] = [at |-> "other", kind |-> kind, name |-> n]]
  /\ entangled' = entangled \cup
       ({n} \cap {creating[d].name : d \in {d \in Clerks : creating[d] # Off}})
  /\ UNCHANGED <<agents, groups, members, castVars, presetVars>>

\* Bug variant: the other table is not looked into.
FreeAlways(c) == TRUE

Free(c) == creating[c].name \notin Table(IF creating[c].kind = "agent" THEN "group" ELSE "agent")

CreateLooksAside(c) ==
  /\ creating[c].at = "other"
  /\ creating' = [creating EXCEPT ![c] = IF Free(c) THEN [@ EXCEPT !.at = "add"] ELSE Off]
  /\ UNCHANGED <<agents, groups, members, entangled, castVars, presetVars, rounds>>

CreateAdds(c) ==
  /\ creating[c].at = "add" /\ creating' = [creating EXCEPT ![c] = Off]
  /\ LET n == creating[c].name IN
     IF creating[c].kind = "agent" THEN agents' = agents \cup {n} /\ groups' = groups
                                   ELSE groups' = groups \cup {n} /\ agents' = agents
  /\ UNCHANGED <<members, entangled, castVars, presetVars, rounds>>

\* Bug variant: the members of a deleted group stay.
StrippedOfNone(g) == members

StrippedOf(g) == {m \in members : m[1] # g}

DeleteGroup(g) ==
  /\ Round /\ g \in groups /\ groups' = groups \ {g} /\ members' = StrippedOf(g)
  /\ UNCHANGED <<agents, creating, entangled, castVars, presetVars>>

\* By the agent's owner or an admin; idempotent.
AddMember(g, a) ==
  /\ Round /\ g \in groups /\ a \in agents /\ members' = members \cup {<<g, a>>}
  /\ UNCHANGED <<agents, groups, creating, entangled, castVars, presetVars>>

RemoveMember(g, a) ==
  /\ Round /\ g \in groups /\ a \in agents /\ members' = members \ {<<g, a>>}
  /\ UNCHANGED <<agents, groups, creating, entangled, castVars, presetVars>>

-----------------------------------------------------------------------------
(* The broadcast.                                                            *)

Resolved(ref) == (IF ref = "all" THEN agents ELSE {a \in agents : <<ref, a>> \in members}) \ {Caster}

\* resolve_recipients; an empty group is refused.
Broadcast(ref) ==
  /\ cast.at \in {"off", "told"} /\ Round /\ ref \in groups \cup {"all"} /\ Resolved(ref) # {}
  /\ cast' = [at |-> "store", to |-> Resolved(ref), left |-> Resolved(ref), sent |-> {},
              skipped |-> {}, push |-> {}, offline |-> {}]
  /\ copies' = [n \in Names |-> 0]
  /\ UNCHANGED <<slugVars, presetVars>>

\* Bug variant: a refusal ends the loop.
SkippedAndOut(a) == cast' = [cast EXCEPT !.left = {}, !.skipped = @ \cup {a}]

Skipped(a) == cast' = [cast EXCEPT !.left = @ \ {a}, !.skipped = @ \cup {a}]

\* send, for each recipient in turn: stored, or skipped by its allowlist.
CastStores(a) ==
  /\ cast.at = "store" /\ a \in cast.left
  /\ \/ /\ copies' = [copies EXCEPT ![a] = @ + 1]
        /\ cast' = [cast EXCEPT !.left = @ \ {a}, !.sent = @ \cup {a}, !.push = @ \cup {a}]
     \/ Skipped(a) /\ UNCHANGED copies
  /\ UNCHANGED <<slugVars, presetVars, rounds>>

\* _dispatch of what was stored; then the sender is told.
CastPushes ==
  /\ cast.at = "store" /\ cast.left = {} /\ UNCHANGED <<slugVars, copies, presetVars, rounds>>
  /\ \/ \E a \in cast.push, off \in BOOLEAN :
          cast' = [cast EXCEPT !.push = @ \ {a}, !.offline = IF off THEN @ \cup {a} ELSE @]
     \/ cast.push = {} /\ cast' = [cast EXCEPT !.at = "told"]

-----------------------------------------------------------------------------
(* Built-in presets.                                                         *)

RowsNamed(name) == {i \in Presets : preset[i] = name}

\* scalar_one_or_none raises on the first name with two rows, and seeding ends
\* there; a name without a row gets one.
Seedable == {Seeds[i] : i \in {i \in DOMAIN Seeds :
                 \A k \in 1 .. i : Cardinality(RowsNamed(Seeds[k])) <= 1}}

\* Bug variant: seeding is for an empty table.
MissingAtFirst == IF \A i \in Presets : preset[i] = NoName THEN Seedable ELSE {}

Missing == {n \in Seedable : RowsNamed(n) = {}}

\* The lifespan seeds before the hub serves; requests of the last life are gone.
Boot ==
  /\ Round /\ Cardinality(Missing) <= Cardinality(RowsNamed(NoName))
  /\ preset' \in [Presets -> SeedNames \cup {Renamed, NoName}]
  /\ \A i \in Presets \ RowsNamed(NoName) : preset'[i] = preset[i]
  /\ \A n \in Missing : Cardinality({i \in RowsNamed(NoName) : preset'[i] = n}) = 1
  /\ \A i \in RowsNamed(NoName) : preset'[i] \in Missing \cup {NoName}
  /\ renaming' = {} /\ cast' = Off /\ creating' = [c \in Clerks |-> Off]
  /\ UNCHANGED <<agents, groups, members, entangled, copies, muddled>>

\* Bug variant: a clash is not looked for.
ClashNever(n) == FALSE

Clash(n) == RowsNamed(n) # {}

\* update, an admin's, up to the check of the name.
RenameLoads(i, n) ==
  /\ Round /\ preset[i] \notin {NoName, n} /\ ~Clash(n)
  /\ renaming' = renaming \cup {[id |-> i, name |-> n]}
  /\ muddled' = (muddled \/ renaming # {})
  /\ UNCHANGED <<slugVars, castVars, preset>>

RenameSaves == \E r \in renaming :
  /\ renaming' = renaming \ {r}
  /\ preset' = IF preset[r.id] = NoName THEN preset ELSE [preset EXCEPT ![r.id] = r.name]
  /\ UNCHANGED <<slugVars, castVars, muddled, rounds>>

DeletePreset(i) ==
  /\ Round /\ preset[i] # NoName /\ preset' = [preset EXCEPT ![i] = NoName]
  /\ UNCHANGED <<slugVars, castVars, renaming, muddled>>

SlugNext == \/ \E c \in Clerks : \/ \E kind \in {"agent", "group"}, n \in Names : CreateLooks(c, kind, n)
                                 \/ CreateLooksAside(c) \/ CreateAdds(c)
            \/ \E g \in Names : DeleteGroup(g) \/ \E a \in Names : AddMember(g, a) \/ RemoveMember(g, a)
CastNext == (\E ref \in Names \cup {"all"} : Broadcast(ref)) \/ (\E a \in Names : CastStores(a)) \/ CastPushes
PresetNext == \/ Boot \/ RenameSaves
              \/ \E i \in Presets : DeletePreset(i) \/ \E n \in SeedNames \cup {Renamed} : RenameLoads(i, n)
DirectoryNext == SlugNext \/ CastNext \/ PresetNext

DirectorySpec == DirectoryInit /\ [][DirectoryNext]_directoryVars

-----------------------------------------------------------------------------
\* Every variable has its type, and a member is an agent of a group that exists.
DirectoryTypeOK ==
  /\ agents \cup groups \cup entangled \subseteq Names /\ members \subseteq groups \X agents
  /\ copies \in [Names -> Nat] /\ preset \in [Presets -> SeedNames \cup {Renamed, NoName}]
  /\ muddled \in BOOLEAN

\* A slug names an agent or a group, never both, unless two creations of it
\* overlapped.
OneNamespace == agents \cap groups \subseteq entangled

\* The report of a broadcast is complete: whoever was resolved got one message
\* or is listed as skipped, whatever happened to the group meanwhile, and only
\* who got one may be listed as offline.
BroadcastAccounts ==
  cast.at = "told" =>
    /\ cast.sent \cup cast.skipped = cast.to /\ cast.offline \subseteq cast.sent
    /\ \A n \in Names : copies[n] = IF n \in cast.sent THEN 1 ELSE 0

\* A built-in name stands for one preset, unless two renames overlapped.
BuiltinNamesUnique ==
  muddled \/ \A n \in SeedNames \cup {Renamed} : Cardinality(RowsNamed(n)) <= 1

\* Every start finds or restores all built-in presets, unless renames overlapped.
SeedsRestored == Boot /\ ~muddled => \A n \in SeedNames : \E i \in Presets : preset'[i] = n

\* Names are unambiguous, and a broadcast accounts for every one of them.
DirectoryHolds ==
  [][(OneNamespace /\ BroadcastAccounts /\ BuiltinNamesUnique)' /\ SeedsRestored]_directoryVars
=============================================================================
