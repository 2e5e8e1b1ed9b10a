--------------------------- MODULE ModelCatalogue ---------------------------
(***************************************************************************)
(* The models the proxy offers (config.go) and what the metadata catalogue *)
(* adds to them (model_metadata.go).                                       *)
(*                                                                         *)
(* An id is its stem and its free suffix, a price is "zero", "positive" or *)
(* "none", a window of 0 is an absent one.  A key of the catalogue is an   *)
(* id with the provider in front of it, "" for none.  Of the capabilities  *)
(* a model has whether it reasons is kept: "plain" if it does not,         *)
(* "silent" if the catalogue says nothing of it, "absent" if the catalogue *)
(* says nothing of the model.                                              *)
(***************************************************************************)
EXTENDS Naturals, Sequences, FiniteSets, FiniteSetsExt, SequencesExt

CONSTANT DefaultContextWindow  \* the window Codex is told if none is known

NoID == [stem |-> "", suffix |-> ""]
Key(owner, id) == [owner |-> owner, id |-> id]

\* The ids that are free without a suffix.
FreeByName == {[stem |-> "big-pickle", suffix |-> ""],
               [stem |-> "openrouter/free", suffix |-> ""]}

IsFreeModel(m) == m.id.suffix # "" \/ m.id \in FreeByName \/ m.price = "zero"

\* The id of the first model for which Test holds; NoID if there is none.
FirstID(models, Test(_)) ==
  LET hits == {i \in DOMAIN models : models[i].id # NoID /\ Test(models[i])}
  IN  IF hits = {} THEN NoID ELSE models[Min(hits)].id

\* Mutant: a free model is taken whatever it writes.
FirstCurrentFreeModelAny(models) == FirstID(models, IsFreeModel)

FirstCurrentFreeModel(models) ==
  FirstID(models, LAMBDA m : IsFreeModel(m) /\ m.textOnly)

FirstModelID(models) == FirstID(models, LAMBDA m : TRUE)

ResolveFallbackModel(cfg, models) ==
  LET free == FirstCurrentFreeModel(models)
      candidate == IF free = NoID /\ cfg.provider # "openrouter"
                   THEN FirstModelID(models) ELSE free
  IN  IF \/ cfg.configured
         \/ \E i \in DOMAIN models : models[i].id = cfg.model
         \/ candidate = NoID
      THEN cfg.model ELSE candidate

-----------------------------------------------------------------------------
(***************************************************************************)
(* A catalogue maps keys to metadata, a window and capabilities.  An       *)
(* OpenCode catalogue is a set of entries, a model of a provider with its  *)
(* metadata, that is written down under the model's id and under the       *)
(* provider's name and the id.  When several providers have the model, the *)
(* first key gets the entry that the iteration over a Go map comes to      *)
(* last, which may be any.                                                 *)
(***************************************************************************)
DecodeOpenCodeCatalog(entries) ==
  LET bare == {Key("", e.id) : e \in entries}
      full == {Key(e.owner, e.id) : e \in entries}
      Written(k) == {e.metadata : e \in {x \in entries :
                        x.id = k.id /\ k.owner \in {"", x.owner}}}
  IN  {c \in [bare \cup full -> {e.metadata : e \in entries}] :
         \A k \in DOMAIN c : c[k] \in Written(k)}

Trimmed(id) == [id EXCEPT !.suffix = ""]

\* The keys under which a model is looked up, in this order.
LookupOrder(id, provider) ==
  (IF provider = "openrouter"
   THEN <<Key("openrouter", id), Key("openrouter", Trimmed(id))>> ELSE <<>>)
  \o <<Key("", id), Key("", Trimmed(id))>>

\* The places in this order of the keys that the catalogue has.
KnownKeys(id, catalogue, provider) ==
  {i \in DOMAIN LookupOrder(id, provider) :
     LookupOrder(id, provider)[i] \in DOMAIN catalogue}

FindModelMetadata(id, catalogue, provider) ==
  catalogue[LookupOrder(id, provider)[Min(KnownKeys(id, catalogue, provider))]]

\* Mutant: the catalogue's window replaces the provider's.
EnrichModelAlways(m, catalogue, provider) ==
  LET metadata == FindModelMetadata(m.id, catalogue, provider)
  IN  IF KnownKeys(m.id, catalogue, provider) = {} THEN m
      ELSE [m EXCEPT !.capabilities = metadata.capabilities,
                     !.window = metadata.window]

EnrichModel(m, catalogue, provider) ==
  LET metadata == FindModelMetadata(m.id, catalogue, provider)
  IN  IF KnownKeys(m.id, catalogue, provider) = {} THEN m
      ELSE [m EXCEPT !.capabilities = metadata.capabilities,
                     !.window = IF @ = 0 THEN metadata.window ELSE @]

EnrichModels(models, catalogue, provider) ==
  [i \in DOMAIN models |-> EnrichModel(models[i], catalogue, provider)]

-----------------------------------------------------------------------------
(***************************************************************************)
(* What is shown of the models: the free ones and the others, as the       *)
(* command that lists them, the summary and the dashboard tell them apart, *)
(* and the catalogue that Codex reads.                                     *)
(***************************************************************************)
ShownAsFree(m, provider) ==
  IsFreeModel(m) /\ (provider = "openrouter" => m.textOnly)

\* The j-th of a set of places, and what a list has at the places of a set:
\* what a loop over the list keeps.
Nth(places, j) == CHOOSE i \in places : Cardinality({k \in places : k <= i}) = j
Kept(list, places) == [j \in 1..Cardinality(places) |-> list[Nth(places, j)]]

PartitionModels(models, provider) ==
  LET free == {i \in DOMAIN models : ShownAsFree(models[i], provider)}
  IN  [free |-> Kept(models, free), other |-> Kept(models, DOMAIN models \ free)]

CodexEntry(m, priority) ==
  [slug |-> m.id, priority |-> priority,
   contextWindow |-> IF m.window = 0 THEN DefaultContextWindow ELSE m.window,
   reasons |-> m.capabilities # "plain"]

CodexModelCatalog(models) ==
  LET named == {i \in DOMAIN models : models[i].id # NoID}
  IN  [j \in 1..Cardinality(named) |->
         CodexEntry(models[Nth(named, j)], Nth(named, j))]
=============================================================================
