-------------------------------- MODULE MCAds --------------------------------
(* Instances for TLC of AdLifecycle and, beside it, of what an ad's        *)
(* category goes through: the paths of ads and categories (AdCategory),    *)
(* the descriptions and terms of categories (CategoryTerms), the search    *)
(* among them (CategorySearch) and the token it asks GigaChat with         *)
(* (TokenCache).  A behaviour is of one of them (part).  They share no     *)
(* variable, so that what one part does says nothing of the others.        *)
EXTENDS MCAdLifecycle

CONSTANTS
  grain, wheat, tools, Order, s1, s2, editor, a, b,
  Categories, Parent, Preorder, Slugs, Editors, Scripts,  (* of AdCategory *)
  Leaves, MaxTexts, Chunks, Runs,       (* of CategoryTerms                *)
  Searched, Terms, Queries, space, Likeness,
  CacheSize, Unit, Limit,               (* of CategorySearch               *)
  Calls, TokenLifetime, Assumed, Delay,
  MaxTime,                              (* of TokenCache                   *)
  Small      (* TRUE: for TLC, with the bounds below                       *)

VARIABLES
  part,   (* "life", "paths", "terms", "search" or "token"       *)
  cats, ads, edits, upserts, scripts, calm, halved, alone,
  description, terms, termCache, generated, runs, phase, met,
  cached, query, semantic, next, best, answer,
  now, cachedToken, tokenRefreshPromise, exchange, call

AllSymmetry == MCSymmetry \cup Permutations(Slugs)

MCParent == [c \in Categories |-> IF c = wheat THEN grain ELSE null]
MCPreorder == <<grain, wheat>>
MCOrder == <<grain, wheat, tools>>
MCTerms == {<<a, b, b>>, <<b, a, space, a, a>>, <<b>>}
MCQueries == {<<a>>, <<a, b>>, <<b, a, a>>, <<a, space, b>>}
MCLikeness == {79, 86}

Paths == INSTANCE MCAdCategory WITH
  Requests <- Editors, req <- edits, seed <- upserts

Embeddings == INSTANCE MCCategoryTerms WITH Categories <- Leaves

Search == INSTANCE MCCategorySearch WITH
  Categories <- Searched, termCache <- cached

GigaChat == INSTANCE TokenCache WITH Lifetime <- TokenLifetime

ASSUME PartsAssumption ==
  /\ Paths!AdCategoryAssumption
  /\ Embeddings!CategoryTermsAssumption
  /\ Search!CategorySearchAssumption
  /\ GigaChat!TokenCacheAssumption

paths == <<cats, ads, edits, upserts, scripts, calm, halved, alone>>
embeddings == <<description, terms, termCache, generated, runs, phase, met>>
search == <<cached, query, semantic, next, best, answer>>
token == <<now, cachedToken, tokenRefreshPromise, exchange, call>>

OneSlug == \A c, d \in Categories : cats[c].slug = cats[d].slug

(* What a part that is at rest begins with.                                *)
AtRest ==
  /\ part # "paths" => OneSlug
  /\ part # "search" => cached = <<>> /\ \A t \in Terms : semantic[t] = 79

MCInit ==
  /\ part \in {"life", "paths", "terms", "search", "token"}
  /\ Init
  /\ Paths!MCInit /\ Embeddings!MCInit /\ Search!MCInit /\ GigaChat!Init
  /\ AtRest

(* While two backfills are at work nobody seeds the tree, no request is on *)
(* its way and all slugs are one; while two runs of precompute are, one    *)
(* category is on neither's list and the server has no terms.              *)
Bounded ==
  Small =>
    /\ (\A k \in Scripts : scripts[k].name # "none") =>
         Paths!Quiet /\ upserts = 0 /\ OneSlug
    /\ (\A r \in Runs : runs[r].script = "precompute") =>
         /\ \E c \in Leaves : \A r \in Runs : runs[r].text[c] = null
         /\ \A c \in Leaves : termCache[c] = {}

MCNext ==
  \/ /\ part = "life" /\ Next
     /\ UNCHANGED <<part, paths, embeddings, search, token>>
  \/ /\ part = "paths" /\ Paths!MCNext
     /\ UNCHANGED <<part, vars, embeddings, search, token>>
     /\ Bounded'
  \/ /\ part = "terms" /\ Embeddings!MCNext
     /\ UNCHANGED <<part, vars, paths, search, token>>
     /\ Bounded'
  \/ /\ part = "search" /\ Search!Next
     /\ UNCHANGED <<part, vars, paths, embeddings, token>>
  \/ /\ part = "token" /\ GigaChat!Next /\ now' <= MaxTime
     /\ UNCHANGED <<part, vars, paths, embeddings, search>>

MCSpec ==
  MCInit /\ [][MCNext]_<<part, vars, paths, embeddings, search, token>>

-----------------------------------------------------------------------------

TypesOK ==
  /\ part = "life" => TypeOK
  /\ part = "paths" => Paths!TypeOK
  /\ part = "terms" => Embeddings!TypeOK
  /\ part = "search" => Search!TypeOK
  /\ part = "token" => GigaChat!TypeOK

(* While ads keep their categories and categories their slugs, and         *)
(* requests and scripts come one by one, an ad's path and address are      *)
(* those of its category, whichever of create, saveDraft and the scripts   *)
(* have written them; and in any overlap of requests, the seed and         *)
(* backfill-ad-paths, path and address go together.                        *)
PathOfItsCategory ==
  part = "paths" => Paths!PathOfItsCategory /\ Paths!SeoFollowsPath

(* A backfill-ad-paths that nothing disturbs, in a tree the seed has left  *)
(* in order, repairs the paths of all ads, whatever edits, seeds and other *)
(* scripts had made of them.                                               *)
BackfillRepairs == part = "paths" => Paths!BackfillRepairs

(* "After this the terms MUST be computed with --force": whatever died or  *)
(* overlapped before, once that has been done the search knows every       *)
(* category by all the terms of its name and description; and before, too, *)
(* the terms of a category are cut from one description, unless two runs   *)
(* of precompute-category-embeddings have been at one category at once.    *)
ForceRepairs ==
  part = "terms" => Embeddings!ForceRepairs /\ Embeddings!TermsOfOneText

(* The categories answered are the top, the better first, each counted by  *)
(* the best of its terms; and as the comment at LEXICAL_BOOST_WEIGHT has   *)
(* it, the letters of a term never outweigh a large difference of vectors, *)
(* their likeness being by the least number of edits (searchBySemantic,    *)
(* levenshtein).                                                           *)
AnswerIsTheTop ==
  part = "search" =>
    /\ Search!AnswerIsTheTop
    /\ Search!LettersDoNotOutweigh
    /\ Search!LevenshteinIsLeast

(* No call reaches GigaChat with a token that has died on the way, however *)
(* long its exchange and the call take within Delay, and calls that find   *)
(* the token stale at the same time make one exchange (getAccessToken).    *)
NeverTooLate == part = "token" => GigaChat!NeverTooLate /\ GigaChat!OneExchange
=============================================================================
