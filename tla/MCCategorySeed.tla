--------------------------- MODULE MCCategorySeed ---------------------------
(* CategorySeed with the history its properties need.                      *)
EXTENDS CategorySeed

VARIABLE adopted   (* a node without a row of its id has found another's   *)
                   (* by its path                                          *)

hvars == <<vars, adopted>>

Adopts ==
  /\ Running /\ run.step = "upsert"
  /\ ~Exists(tree[run.at].id)
  /\ AtPath(tree[run.at].path) # {}

MCInit == Init /\ adopted = FALSE

(* Histories end where a row is adopted.                                  *)
MCNext ==
  /\ ~adopted
  /\ Next
  /\ adopted' = (Adopts /\ upsertCategory)

-----------------------------------------------------------------------------
(* However often the script died half way, in this release or an earlier   *)
(* one, and whatever was renamed and moved in between: once it comes to    *)
(* its end every node is imported, unless a row was adopted.               *)
ImportsEverything ==
  Finished /\ ~adopted => \A i \in DOMAIN tree : Imported(i)

(* Half way through an import, too, when some categories hang where the    *)
(* release has them and some where they were, the table is a forest.       *)
ForestAlways == adopted \/ Forest
=============================================================================
