----------------------------- MODULE FileKinds -----------------------------
(***************************************************************************)
(* What a file is by its type and its MIME type (file.types.ts,            *)
(* file.mimetypes.ts), and what it costs (common/quota.ts).  A MIME type   *)
(* stands for those of its category, which is what costs and archives look *)
(* at; the original is nobody's variation.                                 *)
(***************************************************************************)
EXTENDS Integers, FiniteSets

CONSTANTS
  Costs,    \* config.vpdb.quota.costs: per type a price of the category, and of a variation
  NoPrice   \* what the configuration leaves undefined

\* The variations of a type, each with the one it is made from.
FromOriginal(names) == [name \in names |-> "original"]

ImageSizes == FromOriginal({"full", "medium", "medium-2x", "small", "small-2x"})

B2sSizes ==
  [name \in {"full", "medium-2x", "medium", "small-2x", "small"} |->
     CASE name \in {"full", "medium-2x"} -> "original"
       [] name \in {"medium", "small-2x"} -> "medium-2x"
       [] name = "small" -> "small-2x"]

PlayfieldSizes == FromOriginal({"full", "medium", "medium-2x", "square", "square-2x",
                                "landscape", "landscape-2x", "hyperpin"})

FileTypes ==
  LET type(name, categories, variations) ==
        [name |-> name, categories |-> categories, variations |-> variations]
  IN {type("backglass", {"image"}, ImageSizes),
      type("backglass", {"directb2s"}, B2sSizes),
      type("logo", {"image"}, FromOriginal({"medium", "medium-2x"})),
      type("playfield", {"image"}, FromOriginal({"landscape", "landscape-2x"})),
      type("landscape", {"image"}, << >>),
      type("release", {"table"}, FromOriginal({"gltf"})),
      type("release", {"text", "script", "audio", "archive"}, << >>),
      type("rom", {"archive"}, << >>)}
     \cup {type(name, {"image"}, PlayfieldSizes) : name \in {"playfield-fs", "playfield-ws"}}
     \cup {type(name, {"video"}, FromOriginal({"still", "small-rotated"})) :
             name \in {"playfield-fs", "playfield-ws"}}

\* getMimeTypes, getVariations: a file is a record with at least a type and a category.
TypesNamed(name) == {t \in FileTypes : t.name = name}

Accepted(type, category) == \E t \in TypesNamed(type) : category \in t.categories

VariationsOf(file) ==
  (CHOOSE t \in TypesNamed(file.type) : file.category \in t.categories).variations

\* Quota.getCost, of the original.
CostOf(file) ==
  IF file.type \notin DOMAIN Costs THEN 0
  ELSE LET price == Costs[file.type].category IN
       IF file.category \in DOMAIN price THEN price[file.category]
       ELSE IF "*" \in DOMAIN price THEN price["*"] ELSE 0

\* Quota.getCost, of a variation: one price for all of a type, or nothing.
VariationCost(type) ==
  IF type \notin DOMAIN Costs \/ Costs[type].variation = NoPrice THEN 0 ELSE Costs[type].variation

PriceOf(file, variation) == IF variation = "original" THEN CostOf(file) ELSE VariationCost(file.type)

\* isFree: a price of -1 is that of a public file.
IsFree(file, variation) == PriceOf(file, variation) <= 0

=============================================================================
