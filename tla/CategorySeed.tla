---------------------------- MODULE CategorySeed ----------------------------
(* prisma/seed.ts: importing the tree of data/categories.ts into the table *)
(* categories, whenever a release has renamed, moved or added categories.  *)
(* The script walks the tree in preorder; for each node it finds the row,  *)
(* by its id or else by its path, updates or creates it, and then replaces *)
(* its features in a transaction.  It runs alone, but it may die between   *)
(* any two statements, and it exits at the first error.                    *)
(*                                                                         *)
(* A definition op_variant before op is op with a mistake in it; nothing   *)
(* here uses it.  Putting it in op's place breaks one of the properties.   *)
(***************************************************************************)
EXTENDS Naturals, Sequences, SequencesExt

CONSTANTS
  Ids,       (* ids of categories, explicit in the data                    *)
  Names,     (* a name stands for its slug and its part of the code        *)
  MaxNodes,  (* bound of a tree's size                                     *)
  MaxDepth,  (* ... and of its depth                                       *)
  Releases,  (* the trees that CATEGORIES_DATA may be in some release      *)
  null

VARIABLES
  tree,      (* CATEGORIES_DATA of the release, in preorder                *)
  rows,      (* the table categories                                       *)
  run        (* the script                                                 *)

vars == <<tree, rows, run>>

-----------------------------------------------------------------------------

Paths == UNION {[1..n -> Names] : n \in 1..MaxDepth}

(* A node of the data: its parent is the node at the front of its path.    *)
Node == [id : Ids, path : Paths]

(* What validateCategories has no error about.                             *)
Trees ==
  {t \in UNION {[1..n -> Node] : n \in 0..MaxNodes} :
     /\ \A i, j \in DOMAIN t :
          i # j => t[i].id # t[j].id /\ t[i].path # t[j].path
     /\ \A i \in DOMAIN t :
          \/ Len(t[i].path) = 1
          \/ i > 1 /\ IsPrefix(Front(t[i].path), t[i - 1].path)}

(* path stands for path, fullPath and code, its last name for slug.        *)
Row == [parent : Ids \cup {null}, path : Paths,
        features : Ids \cup {null}]     \* the node whose features it has

CategorySeedAssumption ==
  /\ MaxNodes \in Nat /\ MaxDepth \in Nat
  /\ null \notin Ids \cup Row
  /\ Releases \subseteq Trees

(* at: the node it is at, 0 before the first; beyond the last it is done.  *)
(* used: the row it has found or created for each node so far.             *)
Run == [at : 0..(MaxNodes + 1), step : {"upsert", "features"},
        used : [Ids -> Ids \cup {null}]]

NotRunning == [at |-> 0, step |-> "upsert", used |-> [c \in Ids |-> null]]

TypeOK ==
  /\ tree \in Releases \cup {<<>>}
  /\ rows \in [Ids -> Row \cup {null}]
  /\ run \in Run

Init ==
  /\ tree = <<>>
  /\ rows = [c \in Ids |-> null]
  /\ run = NotRunning

-----------------------------------------------------------------------------

Exists(c) == rows[c] # null

Finished == run.at = Len(tree) + 1

Running == run.at # 0 /\ ~Finished

Start == run' = [NotRunning EXCEPT !.at = 1]

(* The developers have renamed, moved and added categories.                *)
release ==
  /\ ~Running
  /\ tree' \in {t \in Releases : {tree[i].id : i \in DOMAIN tree}
                                \subseteq {t[i].id : i \in DOMAIN t}}
  /\ tree' # <<>>
  /\ Start
  /\ UNCHANGED rows

(* The script is run again.                                                *)
main ==
  /\ ~Running
  /\ tree # <<>>
  /\ Start
  /\ UNCHANGED <<tree, rows>>

die ==
  /\ Running
  /\ run' = NotRunning
  /\ UNCHANGED <<tree, rows>>

-----------------------------------------------------------------------------

NodeAt(path) ==
  tree[CHOOSE i \in DOMAIN tree : tree[i].path = path]

AtPath(path) == {c \in Ids : Exists(c) /\ rows[c].path = path}

(* findUnique by id, then by fullPath.                                     *)
existing(node) ==
  IF Exists(node.id) THEN {node.id} ELSE AtPath(node.path)

(* The row of the parent, which comes earlier in the tree.                 *)
parentId(node) ==
  IF Len(node.path) = 1 THEN null
  ELSE run.used[NodeAt(Front(node.path)).id]

(* The unique indexes of fullPath and code, and of parent and slug.        *)
Unique(c, row) ==
  \A d \in Ids \ {c} : Exists(d) =>
    /\ rows[d].path # row.path
    /\ row.parent # null =>
         ~(rows[d].parent = row.parent /\ Last(rows[d].path) = Last(row.path))

(* An update leaves parentId alone.                                        *)
categoryData_keepsParent(node, c) ==
  [parent |-> IF Exists(c) THEN rows[c].parent ELSE parentId(node),
   path |-> node.path,
   features |-> IF Exists(c) THEN rows[c].features ELSE null]

categoryData(node, c) ==
  [parent |-> parentId(node), path |-> node.path,
   features |-> IF Exists(c) THEN rows[c].features ELSE null]

(* The row that is updated, or created with the node's id.                 *)
Target(node) ==
  IF existing(node) = {} THEN node.id ELSE CHOOSE c \in existing(node) : TRUE

upsertCategory ==
  LET node == tree[run.at]  c == Target(node) IN
  /\ Running /\ run.step = "upsert"
  /\ Unique(c, categoryData(node, c))
  /\ rows' = [rows EXCEPT ![c] = categoryData(node, c)]
  /\ run' = [run EXCEPT !.step = "features", !.used[node.id] = c]
  /\ UNCHANGED tree

(* A unique index refuses the row: the script exits.                       *)
refuse ==
  LET node == tree[run.at]  c == Target(node) IN
  /\ Running /\ run.step = "upsert"
  /\ ~Unique(c, categoryData(node, c))
  /\ run' = NotRunning
  /\ UNCHANGED <<tree, rows>>

replaceFeatures ==
  LET node == tree[run.at] IN
  /\ Running /\ run.step = "features"
  /\ rows' = [rows EXCEPT ![run.used[node.id]].features = node.id]
  /\ run' = [run EXCEPT !.at = @ + 1, !.step = "upsert"]
  /\ UNCHANGED tree

-----------------------------------------------------------------------------

Next == release \/ main \/ die \/ upsertCategory \/ refuse \/ replaceFeatures

Spec == Init /\ [][Next]_vars

-----------------------------------------------------------------------------
(* Properties.                                                             *)

(* A node is imported when the row of its id says what the node says.      *)
Imported(i) ==
  rows[tree[i].id] =
    [path |-> tree[i].path, features |-> tree[i].id,
     parent |-> IF Len(tree[i].path) = 1 THEN null
                ELSE NodeAt(Front(tree[i].path)).id]

(* No set of rows is closed under `parent': getCategoryPath ends, and      *)
(* findAll, which builds the tree from the roots down, shows every row.    *)
Forest ==
  \A s \in SUBSET {c \in Ids : Exists(c)} :
    s # {} => \E c \in s : rows[c].parent \notin s
=============================================================================
