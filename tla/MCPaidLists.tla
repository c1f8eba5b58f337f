----------------------------- MODULE MCPaidLists -----------------------------
(* Instances for TLC of Payments and, beside it, of the lists that bumps   *)
(* reorder (PagedLists) and of the categories they are filtered by         *)
(* (CategorySeed).  A behaviour is of one of the three (part).  They share *)
(* no variable, so that what one part does says nothing of the others.     *)
EXTENDS MCPayments

CONSTANTS
  i1, i2, i3, a, b,
  Items, Limit, MaxTime,                    (* of PagedLists               *)
  Ids, Names, MaxNodes, MaxDepth, Releases  (* of CategorySeed             *)

VARIABLES
  part,   (* "payments", "lists" or "import"                               *)
  list, clock, item, worker, reader, steady, calm, still,
  tree, table, run, adopted

Lists == INSTANCE MCPagedLists

Import == INSTANCE MCCategorySeed WITH rows <- table

(* Any tree may be released.                                               *)
Data == INSTANCE CategorySeed WITH rows <- table, Releases <- {}

MCReleases == Data!Trees

ASSUME PartsAssumption ==
  Lists!PagedListsAssumption /\ Import!CategorySeedAssumption

MCPartsSymmetry == Permutations(Requests) \cup Permutations(Items)

lists == <<list, clock, item, worker, reader, steady, calm, still>>
import == <<tree, table, run, adopted>>

MCInit ==
  /\ part \in {"payments", "lists", "import"}
  /\ Init /\ Lists!MCInit /\ Import!MCInit
  /\ part # "lists" => list = "feed"

MCNext ==
  \/ part = "payments" /\ Next /\ UNCHANGED <<part, lists, import>>
  \/ part = "lists" /\ Lists!MCNext /\ UNCHANGED <<part, vars, import>>
  \/ part = "import" /\ Import!MCNext /\ UNCHANGED <<part, vars, lists>>

MCSpec == MCInit /\ [][MCNext]_<<part, vars, lists, import>>

-----------------------------------------------------------------------------
(* While nothing leaves a list or falls and no two items share a time, a   *)
(* reader who goes on to the end has been shown every item that was there  *)
(* when he began and has not itself been lifted; and of a list that stands *)
(* still every page continues the one before (LIMIT and OFFSET of findAll  *)
(* and the other lists).                                                   *)
NothingSkipped == part = "lists" => Lists!NothingSkipped /\ Lists!PagesContinue

(* However often the seed died half way, in this release or an earlier     *)
(* one, and whatever was renamed and moved in between, once it comes to    *)
(* its end every node is imported, unless a row was adopted; half way,     *)
(* too, the table is a forest (prisma/seed.ts).                            *)
ImportsEverything ==
  part = "import" => Import!ImportsEverything /\ Import!ForestAlways
=============================================================================
