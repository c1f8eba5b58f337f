---------------------------- MODULE MCAdCategory ----------------------------
(* AdCategory with the histories its properties need.                      *)
EXTENDS AdCategory

VARIABLES
  calm,    (* no ad has been given another category by update, no category *)
           (* another slug, and requests and scripts have come one by one  *)
  halved,  (* backfill-category-path has written an ad                     *)
  alone    (* the only script at work began with the tree in order, and    *)
           (* nothing but that script has happened since                   *)

hvars == <<vars, calm, halved, alone>>

MCInit ==
  /\ Init
  /\ calm = TRUE /\ halved = FALSE /\ alone = FALSE

Quiet == \A r \in Requests : req[r].step = "idle"

Running == {k \in Scripts : scripts[k].name # "none"}

InOrder == seed = 0 /\ \A c \in Categories : cats[c].path = PathOf[c]

Begins == \E r \in Requests : req[r].step = "idle" /\ req'[r].step # "idle"

Starts == Running' \ Running # {}

Moves == \E x \in Ads : ads[x] # null /\ ads'[x] # null /\ ads'[x].cat # ads[x].cat

MCNext ==
  /\ Next
  /\ calm' = /\ calm
             /\ cats' = cats
             /\ Begins \/ scripts' # scripts => Quiet
             /\ Begins \/ Starts => Running = {}
             /\ req' = req /\ scripts' = scripts => ~Moves
  /\ halved' = \/ halved
               \/ ads' # ads /\ \E k \in Running : scripts[k].name = "category-path"
                                                  /\ scripts'[k] # scripts[k]
  /\ alone' = /\ Running' # {} /\ scripts' # scripts
              /\ IF Running = {} THEN Quiet /\ InOrder ELSE alone /\ ~Starts

-----------------------------------------------------------------------------
(* While ads keep their categories and categories their slugs, and         *)
(* requests and scripts come one by one, an ad's path and address are      *)
(* those of its category, whichever of create, saveDraft and the scripts   *)
(* have written them and wherever a script has ended.                      *)
PathOfItsCategory ==
  calm => \A x \in Ads : ads[x] # null =>
            ads[x].path = PathOf[ads[x].cat] /\ ads[x].seo = ads[x].path

(* seoPath is the categoryPath with the slug of the ad, in any overlap of  *)
(* requests with each other, the seed and runs of backfill-ad-paths: only  *)
(* backfill-category-path writes the one without the other.                *)
SeoFollowsPath == ~halved => \A x \in Ads : ads[x] # null => ads[x].seo = ads[x].path

(* A backfill-ad-paths that nothing disturbs, in a tree the seed has left  *)
(* in order, repairs the paths of all ads, whatever edits, seeds and other *)
(* scripts had made of them.                                               *)
BackfillRepairs ==
  \A k \in Scripts :
    /\ alone /\ scripts[k].name = "ad-paths"
    /\ scripts[k].has = {"ads", "categories"} /\ scripts[k].todo = {}
    => \A x \in Ads : ads[x] # null =>
         ads[x].path = PathOf[ads[x].cat] /\ ads[x].seo = ads[x].path
=============================================================================
