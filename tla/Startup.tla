------------------------------ MODULE Startup ------------------------------
(***************************************************************************)
(* A run of the program (server.go: Run): the update check, the list of    *)
(* models, and the server with or without the dashboard, from the command  *)
(* line to the exit code.  The two catalogues are downloaded by goroutines *)
(* of their own; with the dashboard the server has one too.                *)
(***************************************************************************)
EXTENDS ReleaseOrder, ModelCatalogue

CONSTANTS
  Models,          \* models an upstream may list
  Listed,          \* how many at most
  Catalogues,      \* metadata catalogues a download may bring
  DefaultID, OwnID,\* the built-in fallback and the user's ZEN_MODEL
  OwnVersions,     \* versions the program may have
  Tags             \* versions the latest release may have

ASSUME StartupAssumption ==
  /\ MaxInt \in Nat /\ Listed \in Nat
  /\ OwnVersions \subseteq Versions /\ Tags \subseteq Versions
  /\ Models \subseteq [id : [stem : STRING, suffix : STRING],
                       price : {"zero", "positive", "none"}, textOnly : BOOLEAN,
                       window : Nat, capabilities : {"absent"}]
  /\ \A c \in Catalogues : \A k \in DOMAIN c :
       c[k] \in [window : Nat, capabilities : {"plain", "silent", "reasons"}]
  /\ DefaultContextWindow \in Nat \ {0}
  /\ DefaultID # NoID /\ OwnID # NoID

Lists == BoundedSeq(Models, Listed)
Waiting == <<>>   \* a channel nothing has been sent to; each has room for one

VARIABLES
  stage,     \* where Run is
  cfg,       \* options and configuration, cfg.model being the fallback model
  modelsCh, metadataCh,   \* the channels of the downloads
  upstream,  \* history variable: the list as the upstream sent it
  models,    \* the list in use
  matched,   \* models with an entry in the catalogue
  latest,    \* history variable: <<the release the update check was told of>>
  server,    \* the goroutine that serves: "off", "serving", "closed", "failed"
  exit       \* the exit code, -1 while the program runs

vars == <<stage, cfg, modelsCh, metadataCh, upstream, models, matched, latest,
          server, exit>>
download == <<modelsCh, metadataCh, upstream>>
catalogue == <<models, matched>>

NoRelease == <<>>

Init ==
  /\ cfg \in [command : {"error", "help", "check-update", "models", "serve"},
              tui : BOOLEAN, terminal : BOOLEAN, configured : BOOLEAN,
              provider : {"zen", "openrouter"}, model : {DefaultID, OwnID},
              version : OwnVersions]
  /\ cfg.model = IF cfg.configured THEN OwnID ELSE DefaultID
  /\ cfg.command # "check-update" => cfg.version = CHOOSE v \in OwnVersions : TRUE
  /\ cfg.command = "check-update" => ~cfg.tui /\ ~cfg.configured
  /\ stage = "options"
  /\ modelsCh = Waiting /\ metadataCh = Waiting /\ upstream = <<>>
  /\ models = <<>> /\ matched = 0
  /\ latest = NoRelease /\ server = "off" /\ exit = -1

\* exit is the last conjunct of a step: the step ends the program or not.
Exit(code) == stage' = "exited" /\ exit' = code
GoTo(next) == stage' = next /\ UNCHANGED exit

-----------------------------------------------------------------------------
(***************************************************************************)
(* The commands that serve nothing.                                        *)
(***************************************************************************)
ParseRunOptions ==
  /\ stage = "options"
  /\ CASE cfg.command = "error" -> Exit(2)
       [] cfg.command = "help" -> Exit(0)
       [] cfg.command = "check-update" -> GoTo("checking")
       [] cfg.command \in {"models", "serve"} ->
            IF cfg.command = "serve" /\ cfg.tui /\ ~cfg.terminal
            THEN Exit(2) ELSE GoTo("fetching")
  /\ UNCHANGED <<cfg, download, catalogue, latest, server>>

\* The release could not be read: no answer in time, a status other than 200,
\* no JSON, no tag.
CheckFails ==
  /\ stage = "checking"
  /\ Exit(2)
  /\ UNCHANGED <<cfg, download, catalogue, latest, server>>

ExitCode(comparison) == CASE comparison \in {"current", "ahead"} -> 0
                          [] comparison \in {"development", "behind"} -> 1
                          [] OTHER -> 2

CheckForUpdate ==
  /\ stage = "checking"
  /\ \E tag \in Tags : /\ latest' = <<tag>>
                       /\ Exit(ExitCode(CompareReleaseVersions(cfg.version, tag)))
  /\ UNCHANGED <<cfg, download, catalogue, server>>

-----------------------------------------------------------------------------
(***************************************************************************)
(* The downloads.  One that fails in whatever way brings nothing.          *)
(***************************************************************************)
FetchModels ==
  /\ stage = "fetching" /\ modelsCh = Waiting
  /\ \E list \in Lists : modelsCh' = <<list>> /\ upstream' = list
  /\ UNCHANGED <<stage, cfg, metadataCh, catalogue, latest, server, exit>>

FetchModelMetadata ==
  /\ stage = "fetching" /\ metadataCh = Waiting
  /\ \E c \in Catalogues \cup {<<>>} : metadataCh' = <<c>>
  /\ UNCHANGED <<stage, cfg, modelsCh, upstream, catalogue, latest, server, exit>>

\* Both downloads have ended.
Resolve ==
  /\ stage = "fetching" /\ modelsCh # Waiting /\ metadataCh # Waiting
  /\ LET list == Head(modelsCh)
         metadata == Head(metadataCh)
     IN  /\ models' = EnrichModels(list, metadata, cfg.provider)
         /\ matched' = Cardinality({i \in DOMAIN list :
                         KnownKeys(list[i].id, metadata, cfg.provider) # {}})
  /\ cfg' = [cfg EXCEPT !.model = ResolveFallbackModel(cfg, models')]
  /\ IF cfg.command = "models"
     THEN Exit(IF models' = <<>> THEN 1 ELSE 0) ELSE GoTo("listening")
  /\ modelsCh' = Waiting /\ metadataCh' = Waiting
  /\ UNCHANGED <<upstream, latest, server>>

-----------------------------------------------------------------------------
(***************************************************************************)
(* The server.                                                             *)
(***************************************************************************)
Listen ==
  /\ stage = "listening"
  /\ \/ Exit(1) /\ UNCHANGED server
     \/ GoTo(IF cfg.tui THEN "dashboard" ELSE "serving") /\ server' = "serving"
  /\ UNCHANGED <<cfg, download, catalogue, latest>>

\* Serve returns by itself.
ServeFails ==
  /\ server = "serving" /\ stage # "exited"
  /\ server' = "failed"
  /\ UNCHANGED <<stage, cfg, download, catalogue, latest, exit>>

\* Without the dashboard Run returns with Serve.
ServeReturns ==
  /\ stage = "serving" /\ server = "failed"
  /\ Exit(0)
  /\ UNCHANGED <<cfg, download, catalogue, latest, server>>

\* The dashboard ends, whether the server still serves or not.
Quit ==
  /\ stage = "dashboard"
  /\ GoTo("closing")
  /\ UNCHANGED <<cfg, download, catalogue, latest, server>>

\* server.Close makes Serve return.
Close ==
  /\ stage = "closing" /\ server = "serving"
  /\ server' = "closed"
  /\ UNCHANGED <<stage, cfg, download, catalogue, latest, exit>>

\* The channel holds Serve's result until Run reads it.
ServerStopped ==
  /\ stage = "closing" /\ server \in {"closed", "failed"}
  /\ Exit(0)
  /\ UNCHANGED <<cfg, download, catalogue, latest, server>>

ShutdownDeadline ==
  /\ stage = "closing"
  /\ Exit(0)
  /\ UNCHANGED <<cfg, download, catalogue, latest, server>>

Next ==
  \/ ParseRunOptions \/ CheckFails \/ CheckForUpdate
  \/ FetchModels \/ FetchModelMetadata \/ Resolve
  \/ Listen \/ ServeFails \/ ServeReturns
  \/ Quit \/ Close \/ ServerStopped \/ ShutdownDeadline

Spec == Init /\ [][Next]_vars

-----------------------------------------------------------------------------
(***************************************************************************)
(* Properties.                                                             *)
(***************************************************************************)
Serving == stage \in {"serving", "dashboard"}
IDs == {models[i].id : i \in DOMAIN models}
FreeTextIDs ==
  {m.id : m \in {x \in Range(models) : IsFreeModel(x) /\ x.textOnly}} \ {NoID}
FreeShown ==
  {m.id : m \in Range(PartitionModels(models, cfg.provider).free)}

\* A server's fallback model is the user's if there is one (README.md: "An
\* explicit ZEN_MODEL is never replaced").  Otherwise it is on the upstream's
\* list, except on OpenRouter where only a model that the user is shown as
\* free ever replaces the built-in one; and it is a free one that writes text
\* whenever the built-in one is gone and the list has such a model.
FallbackIsCurrent ==
  Serving /\ IDs \ {NoID} # {} =>
    IF cfg.configured THEN cfg.model = OwnID
    ELSE /\ cfg.model \in IDs \/ cfg.provider = "openrouter"
         /\ cfg.model \in FreeShown \cup {DefaultID} \/ cfg.provider = "zen"
         /\ cfg.model \in FreeTextIDs \/ DefaultID \in IDs \/ FreeTextIDs = {}

\* The models served are those the upstream listed, in its order; a window
\* the provider has reported is kept, one the catalogue gave belongs to a
\* model with known capabilities (README.md: "Provider-reported context
\* windows win; the metadata catalog fills in missing context windows"); the
\* summary counts the models that have them.  Codex is shown every model that
\* has an id, in the same order, with a window that is never 0 and the
\* provider's if there is one, and may ask a model to reason that the
\* catalogue knows nothing of.
MetadataFillsGaps ==
  Serving =>
    /\ Len(models) = Len(upstream)
    /\ \A i \in DOMAIN models :
         /\ models[i].id = upstream[i].id
         /\ models[i].window # upstream[i].window =>
              upstream[i].window = 0 /\ models[i].capabilities # "absent"
    /\ matched =
         Cardinality({i \in DOMAIN models : models[i].capabilities # "absent"})
    /\ LET codex == CodexModelCatalog(models)
           named == {i \in DOMAIN upstream : upstream[i].id # NoID}
       IN  /\ {e.priority : e \in Range(codex)} = named
           /\ \A j, k \in DOMAIN codex : j < k => codex[j].priority < codex[k].priority
           /\ \A e \in Range(codex) :
                LET m == upstream[e.priority]
                IN  /\ e.slug = m.id
                    /\ e.contextWindow > 0
                    /\ m.window > 0 => e.contextWindow = m.window
                    /\ ~e.reasons => models[e.priority].capabilities = "plain"

\* What the update check answers by its exit code: of two versions that can
\* be compared 0 if the latest release is not newer than the program, 1 if it
\* is, in the order of precedence of semantic versions.
ExitTellsRelease ==
  stage = "exited" /\ latest # NoRelease =>
    LET release == Head(latest)
        both == {cfg.version, release}
        longest == Max({Len(v.prerelease) : v \in both})
        largest == 1 + Max({0} \cup UNION {{v.prerelease[i].value :
                                 i \in DOMAIN v.prerelease} : v \in both})
        key(v) == SortKey(v, longest, largest)
    IN  (\A v \in both : ParsesAsSemantic(v)) =>
          exit = IF Precedes(key(cfg.version), key(release)) THEN 1 ELSE 0
=============================================================================
