----------------------------- MODULE AdCategory -----------------------------
(* What an ad keeps of its category: categoryPath and seoPath.  Requests   *)
(* of AdsService are split at their awaits:                                *)
(*                                                                         *)
(*   create      getCategoryPath, row by row -> check of the unit -> insert*)
(*   saveDraft   read -> getCategoryPath     -> insert | save              *)
(*                                                                         *)
(* next to prisma/seed.ts, which gives categories new slugs one by one,    *)
(* and the two scripts that write the paths of all ads anew:               *)
(* backfill-ad-paths.ts and backfill-category-path.ts, which nothing keeps *)
(* from running twice or both at once.                                     *)
(*                                                                         *)
(* A definition op_variant before op is op with a mistake in it; nothing   *)
(* here uses it.  Putting it in op's place breaks one of the properties.   *)
(***************************************************************************)
EXTENDS Naturals, Sequences

CONSTANTS
  Categories,
  Parent,      (* parentId                                                 *)
  Preorder,    (* of the tree, as the seed goes through it                 *)
  Slugs,
  Ads,
  Requests,
  Scripts,     (* slots for backfills that run at the same time            *)
  null

AdCategoryAssumption ==
  /\ Parent \in [Categories -> Categories \cup {null}]
  /\ Preorder \in Seq(Categories)
  /\ null \notin Categories \cup Ads
  /\ \A c \in Categories :   (* three levels: prisma/data/categories.ts *)
       Parent[c] # null /\ Parent[Parent[c]] # null => Parent[Parent[Parent[c]]] = null

VARIABLES
  cats,      (* slug and path of the categories                            *)
  ads,       (* the rows, or null                                          *)
  req,       (* the requests                                               *)
  seed,      (* how far the seed has come: 0 when it does not run          *)
  scripts    (* the backfill that runs in each slot                        *)

vars == <<cats, ads, req, seed, scripts>>

-----------------------------------------------------------------------------

Depth == 3   (* of the tree, at most                                       *)

Path == UNION {[1 .. n -> Slugs] : n \in 0 .. Depth}

(* seoPath without the slug of the ad itself, which never changes.         *)
Ad == [cat : Categories, path : Path, seo : Path]

Request == [step : {"idle", "walk", "check", "create", "insert", "save"},
            next : {"check", "insert", "save"},  \* after the walk
            ad : Ads \cup {null},
            cat : Categories \cup {null},
            at : Categories \cup {null},        \* of the walk
            path : Path]

Idle == [step |-> "idle", next |-> "save", ad |-> null, cat |-> null,
         at |-> null, path |-> <<>>]

(* What a script has read, and the ads it has still to write.              *)
Script == [name : {"none", "ad-paths", "category-path"},
           found : [Ads -> Categories \cup {null}],
           has : SUBSET {"ads", "categories"},
           paths : [Categories -> Path], todo : SUBSET Ads]

NoScript == [name |-> "none", found |-> [x \in Ads |-> null], has |-> {},
             paths |-> [c \in Categories |-> <<>>], todo |-> {}]

TypeOK ==
  /\ cats \in [Categories -> [slug : Slugs, path : Path]]
  /\ ads \in [Ads -> Ad \cup {null}]
  /\ req \in [Requests -> Request]
  /\ seed \in 0 .. Len(Preorder)
  /\ scripts \in [Scripts -> Script]

(* The path that the slugs of a category and its ancestors make.           *)
PathOf[c \in Categories] ==
  (IF Parent[c] = null THEN <<>> ELSE PathOf[Parent[c]]) \o <<cats[c].slug>>

Rooted == {c \in Categories : Parent[c] = null}

Init ==
  /\ \E slug \in [Categories -> Slugs] :
       LET path[c \in Categories] ==
             (IF c \in Rooted THEN <<>> ELSE path[Parent[c]]) \o <<slug[c]>>
       IN cats = [c \in Categories |-> [slug |-> slug[c], path |-> path[c]]]
  /\ ads = [x \in Ads |-> null]
  /\ req = [r \in Requests |-> Idle]
  /\ seed = 0
  /\ scripts = [k \in Scripts |-> NoScript]

-----------------------------------------------------------------------------
(* AdsService.                                                             *)

Goes(r, new) == req' = [req EXCEPT ![r] = new] /\ UNCHANGED <<cats, seed, scripts>>

Walk(next, x, c) ==
  [step |-> "walk", next |-> next, ad |-> x, cat |-> c, at |-> c, path |-> <<>>]

(* Ids of new ads are random.                                              *)
New(x) == ads[x] = null /\ \A r \in Requests : req[r].ad # x

create(r, x, c) ==
  /\ req[r].step = "idle" /\ New(x)
  /\ Goes(r, Walk("check", x, c))
  /\ UNCHANGED ads

saveNewDraft(r, x, c) ==
  /\ req[r].step = "idle" /\ New(x)
  /\ Goes(r, Walk("insert", x, c))
  /\ UNCHANGED ads

(* Without a category in the request the path of the row is kept.          *)
saveDraft(r, x, c) ==
  /\ req[r].step = "idle" /\ ads[x] # null
  /\ Goes(r, IF c # null THEN Walk("save", x, c)
             ELSE [Walk("save", x, null) EXCEPT !.step = "save", !.path = ads[x].path])
  /\ UNCHANGED ads

getCategoryPath_downwards(r) ==
  /\ req[r].step = "walk"
  /\ LET c == req[r].at IN
       Goes(r, [req[r] EXCEPT !.path = @ \o <<cats[c].slug>>, !.at = Parent[c],
                  !.step = IF Parent[c] # null THEN "walk" ELSE req[r].next])
  /\ UNCHANGED ads

(* One row of the way up to the root.                                      *)
getCategoryPath(r) ==
  /\ req[r].step = "walk"
  /\ LET c == req[r].at IN
       Goes(r, [req[r] EXCEPT !.path = <<cats[c].slug>> \o @, !.at = Parent[c],
                  !.step = IF Parent[c] # null THEN "walk" ELSE req[r].next])
  /\ UNCHANGED ads

(* The unit is one that the category allows, or it is not.                 *)
checkUnit(r) ==
  /\ req[r].step = "check"
  /\ \E new \in {Idle, [req[r] EXCEPT !.step = "create"]} : Goes(r, new)
  /\ UNCHANGED ads

insert(r) ==
  /\ req[r].step \in {"create", "insert"}
  /\ ads' = [ads EXCEPT ![req[r].ad] =
       [cat |-> req[r].cat, path |-> req[r].path, seo |-> req[r].path]]
  /\ Goes(r, Idle)

Given(new, old) == IF new = null THEN old ELSE new

Saved(ad, q) ==
  [cat |-> Given(q.cat, ad.cat), path |-> q.path, seo |-> q.path]

(* By id: the row may be gone.                                             *)
save(r) ==
  /\ req[r].step = "save"
  /\ LET x == req[r].ad IN
       ads' = IF ads[x] = null THEN ads ELSE [ads EXCEPT ![x] = Saved(@, req[r])]
  /\ Goes(r, Idle)

Changed(x, ad) == ads' = [ads EXCEPT ![x] = ad] /\ UNCHANGED <<cats, req, seed, scripts>>

(* The category is written as it comes.                                    *)
update(x, c) == ads[x] # null /\ Changed(x, [ads[x] EXCEPT !.cat = c])

remove(x) == ads[x] # null /\ Changed(x, null)

-----------------------------------------------------------------------------
(* The scripts.                                                            *)

(* The next node of the seed, with the path handed down to it; its path    *)
(* must be nobody else's.  The seed starts with the first node.            *)
upsertCategory(s) ==
  /\ seed < Len(Preorder)
  /\ LET c == Preorder[seed + 1]
         path == (IF c \in Rooted THEN <<>> ELSE cats[Parent[c]].path) \o <<s>>
     IN /\ \A d \in Categories \ {c} : cats[d].path # path
        /\ cats' = [cats EXCEPT ![c] = [slug |-> s, path |-> path]]
  /\ seed' = (seed + 1) % Len(Preorder)
  /\ UNCHANGED <<ads, req, scripts>>

seedDies == seed # 0 /\ seed' = 0 /\ UNCHANGED <<cats, ads, req, scripts>>

RunsOn(k, new) ==
  scripts' = [scripts EXCEPT ![k] = new] /\ UNCHANGED <<cats, req, seed>>

backfill(k, name) ==
  /\ scripts[k] = NoScript
  /\ RunsOn(k, [NoScript EXCEPT !.name = name])
  /\ UNCHANGED ads

findAds(k) ==
  /\ scripts[k].name # "none" /\ "ads" \notin scripts[k].has
  /\ RunsOn(k, [scripts[k] EXCEPT !.has = @ \cup {"ads"},
                !.found = [x \in Ads |-> IF ads[x] = null THEN null ELSE ads[x].cat],
                !.todo = {x \in Ads : ads[x] # null}])
  /\ UNCHANGED ads

(* backfill-ad-paths takes the column path, the other script the slugs up  *)
(* to the root, of all rows at once.                                       *)
categoryMap(k) ==
  /\ scripts[k].name # "none" /\ "categories" \notin scripts[k].has
  /\ RunsOn(k, [scripts[k] EXCEPT !.has = @ \cup {"categories"},
                !.paths = IF scripts[k].name = "ad-paths" THEN [c \in Categories |-> cats[c].path]
                                                          ELSE PathOf])
  /\ UNCHANGED ads

Backfilled_pathOnly(ad, name, path) == [ad EXCEPT !.path = path]

Backfilled(ad, name, path) ==
  [ad EXCEPT !.path = path, !.seo = IF name = "ad-paths" THEN path ELSE @]

(* The ads of a chunk are written in any order; one that is gone ends the  *)
(* script.                                                                 *)
backfillAd(k, x) ==
  LET q == scripts[k] IN
  /\ q.has = {"ads", "categories"} /\ x \in q.todo
  /\ IF ads[x] = null
       THEN ads' = ads /\ RunsOn(k, NoScript)
       ELSE /\ ads' = [ads EXCEPT ![x] = Backfilled(@, q.name, q.paths[q.found[x]])]
            /\ RunsOn(k, [q EXCEPT !.todo = @ \ {x}])

(* It ends, or dies at any time.                                           *)
backfillEnds(k) ==
  /\ scripts[k].name # "none"
  /\ RunsOn(k, NoScript)
  /\ UNCHANGED ads

ScriptStep(k) ==
  \/ \E name \in {"ad-paths", "category-path"} : backfill(k, name)
  \/ findAds(k) \/ categoryMap(k) \/ backfillEnds(k)
  \/ \E x \in Ads : backfillAd(k, x)

Next ==
  \/ \E r \in Requests, x \in Ads, c \in Categories :
       create(r, x, c) \/ saveNewDraft(r, x, c)
  \/ \E r \in Requests, x \in Ads, c \in Categories \cup {null} : saveDraft(r, x, c)
  \/ \E r \in Requests : getCategoryPath(r) \/ checkUnit(r) \/ insert(r) \/ save(r)
  \/ \E x \in Ads, c \in Categories : update(x, c)
  \/ \E x \in Ads : remove(x)
  \/ \E s \in Slugs : upsertCategory(s)
  \/ seedDies
  \/ \E k \in Scripts : ScriptStep(k)

Spec == Init /\ [][Next]_vars
=============================================================================
