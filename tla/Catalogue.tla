------------------------------- MODULE Catalogue -------------------------------
(***************************************************************************)
(* The sports catalogue: tournaments, teams and matches, pulled from a     *)
(* provider and upserted by its external ids (src/src/modules/sports).     *)
(* Players are a step of their own, but nothing refers to their documents, *)
(* which are left out.  CricketData answers in parts and fails; the mock   *)
(* provider always answers.  Synchronisations are started by the boot of a *)
(* process, by the jobs of the match and player queues and by an           *)
(* administrator, and may overlap: a process adds its first job before its *)
(* boot synchronises.                                                      *)
(*                                                                         *)
(* Each step of a synchronisation fetches, then upserts what it fetched in *)
(* one transaction of MongoDB: the transaction reads a snapshot, fails on  *)
(* a document that was written since, and is run again.  The index on the  *)
(* external ids is not unique, so that inserts never conflict.  What is    *)
(* fetched is open, so that a fetch and the first read of its transaction  *)
(* are one step here, and a commit is the step of its writes.              *)
(*                                                                         *)
(* What a match says beside its status, the feed of its updates and the    *)
(* caches are the matter of MatchFeed.tla.                                 *)
(***************************************************************************)
EXTENDS Naturals, Sequences, FiniteSets, FiniteSetsExt

CONSTANTS
  Fixtures,    \* by provider: matches, each with its series, its teams and
               \* the statuses the provider may give it
  Sync,        \* synchronisations that may be under way at a time
  MaxSyncs,    \* bound: synchronisations started
  MaxFailures  \* bound: errors of the provider or of MongoDB

Providers == {"CRIC_API", "MOCK"}
Kinds == {"tournament", "team", "match"}
MatchStatuses == {"UPCOMING", "LIVE", "COMPLETED"}

ASSUME CatalogueAssumption ==
  /\ MaxSyncs \in Nat /\ MaxFailures \in Nat
  /\ DOMAIN Fixtures = Providers
  /\ Fixtures["MOCK"] # {}

VARIABLES
  key,        \* CRIC_API_KEY is set, so that CricketData is registered
  named,      \* CricketData leaves out teamInfo[].id, as it does on its free tier
  documents,  \* the documents of the three collections
  sync,       \* the synchronisations under way
  boot,       \* how the boots that these ran went
  started,    \* how many synchronisations have begun
  failures    \* how many errors there were

catalogueVars == <<key, named, documents, sync, boot, started, failures>>

-----------------------------------------------------------------------------
(* Providers *)

(* A provider names a thing by kind and external id.  The id of a document *)
(* is the name and a number: documents of one name are told apart by it.   *)
Name(kind, p, x) == <<kind, p, x>>
Id(name, n) == <<name[1], name[2], name[3], n>>
NameOf(id) == <<id[1], id[2], id[3]>>

(* The id of a team made up from its name is not the one of the squads.    *)
ByName(team) == <<"cric-name", team>>
TeamProviderId(p, team) == IF p = "CRIC_API" /\ named THEN ByName(team) ELSE team

Series(p) == {f.series : f \in Fixtures[p]}
TeamsIn(fixtures) == UNION {f.teams : f \in fixtures}
Squads(p, series) == TeamsIn({f \in Fixtures[p] : f.series \in series})

Dto(name, status, refs) == [name |-> name, status |-> status, refs |-> refs]
Plain(kind, p, xs) == {Dto(Name(kind, p, x), "none", {}) : x \in xs}

(* The mock answers with all it has. *)
MockTournaments == Plain("tournament", "MOCK", Series("MOCK"))
MockTeams == Plain("team", "MOCK", TeamsIn(Fixtures["MOCK"]))

(* CricketData answers with the first page of its series, or else with the *)
(* series of the current matches.                                          *)
FetchTournaments(p) ==
  IF p = "MOCK" THEN {MockTournaments}
  ELSE {Plain("tournament", p, S) : S \in SUBSET Series(p)}

(* Teams come from the squads that could be fetched, or else from the      *)
(* current matches.                                                        *)
TeamsFromCurrentMatches(p) ==
  {Plain("team", p, {TeamProviderId(p, t) : t \in TeamsIn(F)}) : F \in SUBSET Fixtures[p]}
FetchTeams(p) ==
  IF p = "MOCK" THEN {MockTeams}
  ELSE {Plain("team", p, Squads(p, S)) : S \in SUBSET Series(p) \ {{}}}
       \cup TeamsFromCurrentMatches(p)

MapMatch(p, f, status) ==
  Dto(Name("match", p, f.id), status,
      {Name("tournament", p, f.series)} \cup
      {Name("team", p, TeamProviderId(p, t)) : t \in f.teams})

Reports(p, fixtures) ==
  {{MapMatch(p, f, status[f]) : f \in fixtures} :
     status \in {s \in [fixtures -> MatchStatuses] : \A f \in fixtures : s[f] \in f.statuses}}
GenerateMatches == Reports("MOCK", Fixtures["MOCK"])

(* A call that fails counts as an empty page: fetchMatches never throws.   *)
FetchMatches(p) ==
  IF p = "MOCK" THEN GenerateMatches ELSE UNION {Reports(p, F) : F \in SUBSET Fixtures[p]}

Fetched(kind, p) ==
  IF kind = "tournament" THEN FetchTournaments(p)
  ELSE IF kind = "team" THEN FetchTeams(p) ELSE FetchMatches(p)

(* The registry prefers CricketData, and answers a request for a provider  *)
(* that is not registered with the preferred one.                          *)
Preferred == IF key THEN "CRIC_API" ELSE "MOCK"
ResolveProvider(p) == IF p = "CRIC_API" THEN Preferred ELSE p

-----------------------------------------------------------------------------
(* Synchronisations *)

NoSync == [p |-> "MOCK", todo |-> <<>>, phase |-> "idle", dtos |-> {}, ids |-> {},
         map |-> {}, stale |-> {}, boot |-> "no"]

SyncAll == <<"tournament", "team", "player", "matches">>
RefreshMatchCatalogue == <<"maps", "matches", "reconcile">>
SyncPlayers == <<"team", "player">>

(* syncMatches fetches tournaments or teams first if it was given none.    *)
Expand(todo, map) ==
  LET first(kind) == IF \A i \in map : i[1] # kind THEN <<kind>> ELSE <<>>
  IN  IF todo # <<>> /\ Head(todo) = "matches"
      THEN first("tournament") \o first("team") \o <<"match">> \o Tail(todo)
      ELSE todo

(* The step at the head of todo is done; a call that no boot waits for     *)
(* returns after the last.                                                 *)
Advance(d) ==
  IF Len(d.todo) = 1 /\ d.boot = "no" THEN NoSync
  ELSE [d EXCEPT !.phase = "next", !.todo = Expand(Tail(d.todo), d.map), !.dtos = {},
                 !.ids = {}, !.stale = {}]

(* A document of a collection; only matches have a status and references.  *)
IsDocument(d) ==
  /\ d.id[1] \in Kinds /\ d.id[2] \in Providers /\ d.id[4] \in Nat
  /\ d.status \in IF d.id[1] = "match" THEN MatchStatuses ELSE {"none"}
  /\ d.id[1] # "match" => d.refs = {}

MatchDocuments == {d \in documents : d.id[1] = "match"}

Begin(c, p, todo, isBoot) ==
  /\ sync[c].phase = "idle" /\ started < MaxSyncs
  /\ started' = started + 1
  /\ sync' = [sync EXCEPT ![c] = [NoSync EXCEPT
       !.p = p, !.todo = Expand(todo, {}), !.phase = "next", !.boot = isBoot]]
  /\ UNCHANGED <<key, named, documents, failures>>

(* The scheduled job and the one that is added at boot.                    *)
MatchSyncJob(c) == Begin(c, Preferred, SyncAll, "no") /\ UNCHANGED boot

PlayerSyncJob(c) == Begin(c, Preferred, SyncPlayers, "no") /\ UNCHANGED boot

Modes == [matches |-> <<"matches">>, players |-> SyncPlayers, all |-> SyncAll]
TriggerSync(c, p, mode) == Begin(c, ResolveProvider(p), Modes[mode], "no") /\ UNCHANGED boot

(* A full synchronisation of an empty catalogue, or else the lighter one   *)
(* where no workers run (redis is off) or a real feed is configured.       *)
InitSportsSeeds(c) ==
  /\ boot[c] = "none"
  /\ boot' = [boot EXCEPT ![c] = "running"]
  /\ \/ MatchDocuments = {} /\ Begin(c, Preferred, SyncAll, "run")
     \/ MatchDocuments # {} /\ Begin(c, Preferred, RefreshMatchCatalogue, "run")

SkipSeeds(c) ==
  /\ boot[c] = "none" /\ MatchDocuments # {} /\ ~key
  /\ boot' = [boot EXCEPT ![c] = "done"]
  /\ UNCHANGED <<key, named, documents, sync, started, failures>>

Stage(c) == IF sync[c].todo = <<>> THEN "end" ELSE Head(sync[c].todo)
Spend == failures < MaxFailures /\ failures' = failures + 1
Go(c, new) == sync' = [sync EXCEPT ![c] = new]

(* The transaction of another call has read what is written now: where it  *)
(* writes the same document, it will fail.                                 *)
Overtaken(d, ids) == IF d.phase = "commit" THEN [d EXCEPT !.stale = @ \cup ids] ELSE d
GoOvertaking(c, new, ids) ==
  sync' = [d \in Sync |-> IF d = c THEN new ELSE Overtaken(sync[d], ids)]

\* The documents of one name that the map keeps may be any of them.
LoadEntityMaps(c) ==
  LET found == {d.id : d \in {e \in documents : e.id[1] \in {"tournament", "team"}
                                           /\ e.id[2] = sync[c].p}} IN
  /\ sync[c].phase = "next" /\ Stage(c) = "maps"
  /\ \E ids \in SUBSET found :
       /\ \A i \in found : \E j \in ids : NameOf(i) = NameOf(j)
       /\ \A i, j \in ids : NameOf(i) = NameOf(j) => i = j
       /\ Go(c, Advance([sync[c] EXCEPT !.map = ids]))
  /\ UNCHANGED <<key, named, documents, boot, started, failures>>

(* The transformer drops a match whose tournament or teams are not in the  *)
(* maps.                                                                   *)
ToEntities(d) ==
  {e \in d.dtos : \A r \in e.refs : \E i \in d.map : NameOf(i) = r}
Refs(d, e) == {i \in d.map : NameOf(i) \in e.refs}

(* Seeded fault: the external id is stripped and not added again.          *)
FoundByNothing(name) == {}
Found(name) == {d.id : d \in {e \in documents : NameOf(e.id) = name}}

Ids == {d.id : d \in documents}
Used == Ids \cup UNION {sync[c].ids \cup sync[c].map : c \in Sync}
NewId(name) == Id(name, Max({0} \cup {i[4] : i \in {j \in Used : NameOf(j) = name}}) + 1)

\* findOneAndUpdate takes the first document of the index
First(ids) == CHOOSE i \in ids : \A j \in ids : i[4] <= j[4]
UpsertByExternalId(name) == IF Found(name) = {} THEN NewId(name) ELSE First(Found(name))

\* Seeded fault: the map keeps the id of an attempt that was aborted.
SetIfAbsent(map, ids) == map \cup {i \in ids : \A j \in map : NameOf(j) # NameOf(i)}
MapSet(map, ids) == {i \in map : \A j \in ids : NameOf(j) # NameOf(i)} \cup ids

(* The callback of withTransaction reads and writes under a snapshot, and  *)
(* sets the map as it goes.                                                *)
Upserted(d) == {UpsertByExternalId(e.name) : e \in ToEntities(d)}
MapWith(d, ids) == IF Head(d.todo) = "match" THEN d.map ELSE MapSet(d.map, ids)
Transaction(c, d) ==
  /\ Go(c, [d EXCEPT !.phase = "commit", !.ids = Upserted(d), !.stale = {},
                     !.map = MapWith(d, Upserted(d))])
  /\ UNCHANGED <<key, named, documents, boot, started>>

RunTransaction(c) ==
  /\ UNCHANGED failures
  /\ sync[c].phase = "next" /\ Stage(c) \in Kinds
  /\ \E dtos \in Fetched(Stage(c), sync[c].p) : Transaction(c, [sync[c] EXCEPT !.dtos = dtos])

\* a write conflict, or a transient error: the callback runs again
RunAgain(c) ==
  /\ sync[c].phase = "commit"
  /\ \/ sync[c].ids \cap sync[c].stale # {} /\ UNCHANGED failures
     \/ Spend
  /\ Transaction(c, sync[c])

CommitSync(c) ==
  LET d == sync[c]
      IdOf(e) == CHOOSE i \in d.ids : NameOf(i) = e.name
      new == {[id |-> IdOf(e), status |-> e.status, refs |-> Refs(d, e)] :
                e \in ToEntities(d)}
  IN  /\ d.phase = "commit" /\ d.ids \cap d.stale = {}
      /\ documents' = {e \in documents : e.id \notin d.ids} \cup new
      /\ GoOvertaking(c, Advance(d), d.ids)
      /\ UNCHANGED <<key, named, boot, started, failures>>

(* syncPlayers, given the teams of the step before. *)
UpsertPlayers(c) ==
  /\ sync[c].phase = "next" /\ Stage(c) = "player"
  /\ Go(c, Advance(sync[c]))
  /\ UNCHANGED <<key, named, documents, boot, started, failures>>

(* reconcileStaleStatuses closes matches whose hour has passed, and        *)
(* retireMockLiveMatches those of the mock where a real feed is configured. *)
ReconcileCatalogue(c) ==
  LET open == {d \in MatchDocuments : d.status \in {"UPCOMING", "LIVE"}}
      mock == {d \in open : key /\ d.status = "LIVE" /\ d.id[2] = "MOCK"}
  IN  /\ sync[c].phase = "next" /\ Stage(c) = "reconcile"
      /\ \E late \in SUBSET open :
           /\ documents' = (documents \ (late \cup mock)) \cup
                      {[d EXCEPT !.status = "COMPLETED"] : d \in late \cup mock}
           /\ GoOvertaking(c, Advance(sync[c]), {d.id : d \in late \cup mock})
      /\ UNCHANGED <<key, named, boot, started, failures>>

(* Seeded fault: fixtures are ensured only where the boot failed.          *)
EnsureAfterFailure(c) == sync[c].boot = "reconcile" /\ MatchDocuments = {}
EnsureCataloguePopulated(c) == sync[c].boot \in {"run", "reconcile"} /\ MatchDocuments = {}

(* A synchronisation ends; that of a boot looks whether the catalogue is   *)
(* still empty, and then takes the mock.                                   *)
End(c) ==
  /\ sync[c].phase = "next" /\ Stage(c) = "end"
  /\ IF EnsureCataloguePopulated(c)
     THEN /\ Go(c, [NoSync EXCEPT !.todo = SyncAll, !.phase = "next", !.boot = "ensure"])
          /\ UNCHANGED boot
     ELSE /\ Go(c, NoSync)
          /\ boot' = [boot EXCEPT ![c] = IF sync[c].boot = "no" THEN @ ELSE "done"]
  /\ UNCHANGED <<key, named, documents, started, failures>>

(* A call to the provider throws, or MongoDB does: the steps committed     *)
(* stay.  A boot from CricketData goes on by reconciling; its branch for a *)
(* process without a key is never taken, for then the mock is preferred.   *)
Throw(c) ==
  /\ sync[c].phase # "idle" /\ Spend
  /\ IF sync[c].boot = "run" /\ sync[c].p # "MOCK"
     THEN /\ Go(c, [NoSync EXCEPT !.p = sync[c].p, !.todo = <<"reconcile">>,
                                !.phase = "next", !.boot = "reconcile"])
          /\ UNCHANGED boot
     ELSE /\ Go(c, NoSync)
          /\ boot' = [boot EXCEPT ![c] = IF sync[c].boot = "no" THEN @ ELSE "failed"]
  /\ UNCHANGED <<key, named, documents, started>>

CatalogueInit ==
  /\ key \in BOOLEAN /\ named \in IF key THEN BOOLEAN ELSE {FALSE}
  /\ documents = {} /\ started = 0 /\ failures = 0
  /\ sync = [c \in Sync |-> NoSync] /\ boot = [c \in Sync |-> "none"]

Trigger(c) ==
  \/ MatchSyncJob(c) \/ PlayerSyncJob(c) \/ InitSportsSeeds(c) \/ SkipSeeds(c)
  \/ \E p \in Providers, mode \in DOMAIN Modes : TriggerSync(c, p, mode)
SyncRuns(c) ==
  \/ LoadEntityMaps(c) \/ RunTransaction(c) \/ RunAgain(c) \/ CommitSync(c) \/ UpsertPlayers(c)
  \/ ReconcileCatalogue(c) \/ End(c) \/ Throw(c)
CatalogueNext == \E c \in Sync : Trigger(c) \/ SyncRuns(c)

CatalogueSpec == CatalogueInit /\ [][CatalogueNext]_catalogueVars

-----------------------------------------------------------------------------
(* Properties *)

(* The variables have their types. *)
CatalogueTypeOK ==
  /\ key \in BOOLEAN /\ named \in BOOLEAN
  /\ \A d \in documents : IsDocument(d)
  /\ boot \in [Sync -> {"none", "running", "done", "failed"}]
  /\ started \in 0..MaxSyncs /\ failures \in 0..MaxFailures

(* An external id gets another document only where those it has were       *)
(* written while the transaction was under way, although no index keeps it *)
(* unique: synchronising again finds what is stored (upsertByExternalId).  *)
TwinsNeedOverlap ==
  [][\A i \in Ids' \ Ids : \E c \in Sync :
       {j \in Ids : NameOf(j) = NameOf(i)} \subseteq sync[c].stale]_catalogueVars

(* What a match refers to is a document of the catalogue, although the ids *)
(* are collected inside transactions that may be aborted, handed from step *)
(* to step, and used after other calls have written.                       *)
RefsResolve == \A d \in documents : d.refs \subseteq Ids

(* After a boot that the database let finish there are matches, whatever   *)
(* the feed answered, left out or failed to answer                         *)
(* (ensureCataloguePopulated).                                             *)
BootFillsCatalogue == \A c \in Sync : boot[c] = "done" => MatchDocuments # {}

=============================================================================
