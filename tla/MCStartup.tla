----------------------------- MODULE MCStartup -----------------------------
(***************************************************************************)
(* Instances of Startup for TLC: an upstream that lists free and paid      *)
(* models, free by their suffix, their price or their name, one that       *)
(* writes no text, one without an id; catalogues with the same model of    *)
(* two providers; versions around every rule of precedence.                *)
(***************************************************************************)
EXTENDS Startup

ID(stem, suffix) == [stem |-> stem, suffix |-> suffix]
Model(id, price, textOnly, window) ==
  [id |-> id, price |-> price, textOnly |-> textOnly, window |-> window,
   capabilities |-> "absent"]

BuiltIn == ID("flash", "-free")
Mine == ID("mine", "")
SomeModels == {Model(BuiltIn, "none", TRUE, 0),
               Model(ID("flash", ""), "positive", TRUE, 5),
               Model(ID("pickle", ""), "zero", TRUE, 0),
               Model(ID("big-pickle", ""), "none", TRUE, 5),
               Model(ID("voice", ":free"), "zero", FALSE, 0),
               Model(ID("other", ""), "none", TRUE, 0),
               Model(NoID, "zero", TRUE, 0)}

Known(window, capabilities) == [window |-> window, capabilities |-> capabilities]
Entry(owner, id, metadata) == [owner |-> owner, id |-> id, metadata |-> metadata]
OpenCodeEntries == {Entry("opencode", ID("flash", ""), Known(7, "plain")),
                    Entry("openrouter", ID("flash", ""), Known(9, "reasons")),
                    Entry("openrouter", ID("pickle", ""), Known(0, "plain"))}
LiteLLM == (Key("openrouter", ID("flash", "-free")) :> Known(6, "silent"))
           @@ (Key("", ID("voice", "")) :> Known(8, "reasons"))
SomeCatalogues ==
  {LiteLLM} \cup UNION {DecodeOpenCodeCatalog(e) :
                          e \in (SUBSET OpenCodeEntries) \ {{}}}

Numeric(n) == [numeric |-> TRUE, value |-> n]
Word(n) == [numeric |-> FALSE, value |-> n]
Version(core, prerelease) ==
  [name |-> "numbers", core |-> core, prerelease |-> prerelease, build |-> ""]
Named(name) == [Version(<<>>, <<>>) EXCEPT !.name = name]
Numbered ==
  {Version(core, <<>>) : core \in {<<1, 0, 0>>, <<1, 0, 2>>, <<1, 1, 0>>,
                                   <<0, 2, 0>>, <<1, 0>>, <<1, 0, 3>>}}
  \cup {Version(<<1, 0, 0>>, p) :
          p \in BoundedSeq({Numeric(0), Numeric(2), Word(0), Word(1)}, 2) \ {<<>>}}
AllTags == Numbered \cup {Named("nightly")}
AllOwnVersions == AllTags \cup {Named("dev"),
                     [Version(<<1, 0, 0>>, <<>>) EXCEPT !.build = "local"]}
=============================================================================
