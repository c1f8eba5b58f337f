-------------------------------- MODULE Marks --------------------------------
(* What one account leaves on ads and is told about its own: favorites     *)
(* (addFavorite, removeFavorite), reports on ads (AdReportsService), the   *)
(* notifications of rejected ads and their read marks, and what the        *)
(* removal of an ad (ON DELETE CASCADE) and deleteAccount do to them.      *)
(* Other accounts' rows are not touched by any of this.                    *)
(*                                                                         *)
(* A definition op_variant before op is op with a mistake in it; nothing   *)
(* here uses it.  Putting it in op's place breaks one of the properties.   *)
(***************************************************************************)
EXTENDS FiniteSets

CONSTANTS
  Requests,  (* requests that may be under way at once                     *)
  Ads,
  OwnAds,    (* the account's own ads                                      *)
  Notices,   (* ids of notifications                                       *)
  null

MarksAssumption ==
  /\ OwnAds \subseteq Ads
  /\ null \notin Ads \cup Notices

VARIABLES
  ads,       (* the ads that have a row                                    *)
  favorites, (* the ads the account has in its favorites                   *)
  reports,   (* the status of the account's report on an ad, or none       *)
  notices,   (* the account's notifications                                *)
  deleted,   (* deletedAt of the account is set                            *)
  req        (* the requests                                               *)

vars == <<ads, favorites, reports, notices, deleted, req>>

rows == <<ads, favorites, reports, notices, deleted>>

-----------------------------------------------------------------------------

AdReportStatus == {"PENDING", "REVIEWED", "DISMISSED"}

NoticeState == {"none", "unread", "read", "gone"}

(* step is what a request does next; seen is what deleteAccount's          *)
(* statements have found to delete.                                        *)
Request == [step : {"idle", "adding", "removing", "reporting", "rejecting",
                    "marking", "markingAll", "deleting", "committing"},
            arg : Ads \cup Notices \cup {null},
            seen : SUBSET (Ads \cup Notices)]

Idle == [step |-> "idle", arg |-> null, seen |-> {}]

TypeOK ==
  /\ ads \subseteq Ads
  /\ favorites \subseteq Ads
  /\ reports \in [Ads -> AdReportStatus \cup {"none"}]
  /\ notices \in [Notices -> NoticeState]
  /\ deleted \in BOOLEAN
  /\ req \in [Requests -> Request]

Init ==
  /\ ads = Ads
  /\ favorites = {}
  /\ reports = [a \in Ads |-> "none"]
  /\ notices = [n \in Notices |-> "none"]
  /\ deleted = FALSE
  /\ req = [r \in Requests |-> Idle]

-----------------------------------------------------------------------------

Accept(r, step, arg) ==
  /\ req[r].step = "idle"
  /\ req' = [req EXCEPT ![r] = [step |-> step, arg |-> arg, seen |-> {}]]
  /\ UNCHANGED rows

(* AuthGuard: the account is not deleted when the request comes.           *)
Start(r, step, arg) == ~deleted /\ Accept(r, step, arg)

Ends(r, step) ==
  /\ req[r].step = step
  /\ req' = [req EXCEPT ![r] = Idle]

(* The request is answered with an error (P2002, P2003, P2025, the         *)
(* connection is lost) or the process dies; a transaction is rolled back.  *)
fail(r) ==
  /\ req[r].step # "idle"
  /\ req' = [req EXCEPT ![r] = Idle]
  /\ UNCHANGED rows

-----------------------------------------------------------------------------
(* Favorites.  The ad must be there (foreign key), and not be one already  *)
(* (unique); which ads a user may add is not asked.                        *)

addFavorite(r, a) == Start(r, "adding", a)

createFavorite(r) ==
  /\ Ends(r, "adding")
  /\ req[r].arg \in ads \ favorites
  /\ favorites' = favorites \cup {req[r].arg}
  /\ UNCHANGED <<ads, reports, notices, deleted>>

removeFavorite(r, a) == Start(r, "removing", a)

deleteFavorite(r) ==
  /\ Ends(r, "removing")
  /\ req[r].arg \in favorites
  /\ favorites' = favorites \ {req[r].arg}
  /\ UNCHANGED <<ads, reports, notices, deleted>>

-----------------------------------------------------------------------------
(* Reports.                                                                *)

createReport(r, a) ==
  /\ a \in ads \ OwnAds
  /\ Start(r, "reporting", a)

insertReport(r) ==
  /\ Ends(r, "reporting")
  /\ req[r].arg \in ads
  /\ reports[req[r].arg] = "none"
  /\ reports' = [reports EXCEPT ![req[r].arg] = "PENDING"]
  /\ UNCHANGED <<ads, favorites, notices, deleted>>

(* A moderator decides, as often as they like; a report that goes between  *)
(* the read and the write makes the write fail.                            *)
updateStatus(a, status) ==
  /\ reports[a] # "none"
  /\ reports' = [reports EXCEPT ![a] = status]
  /\ UNCHANGED <<ads, favorites, notices, deleted, req>>

-----------------------------------------------------------------------------
(* Notifications.                                                          *)

(* A moderator rejects an ad of the account's, and the ad is rejected      *)
(* first.  The account may be deleted by then: its ads are archived, but   *)
(* an administrator may publish an archived ad, which nobody's account is  *)
(* asked about (AdLifecycle's publish).                                    *)
reject(r, a) ==
  /\ a \in ads \cap OwnAds
  /\ Accept(r, "rejecting", a)

notifyAdRejected(r, n) ==
  /\ Ends(r, "rejecting")
  /\ notices[n] = "none"
  /\ notices' = [notices EXCEPT ![n] = "unread"]
  /\ UNCHANGED <<ads, favorites, reports, deleted>>

markAsRead(r, n) ==
  /\ notices[n] = "unread"
  /\ Start(r, "marking", n)

setRead(r) ==
  /\ Ends(r, "marking")
  /\ notices[req[r].arg] # "gone"
  /\ notices' = [notices EXCEPT ![req[r].arg] = "read"]
  /\ UNCHANGED <<ads, favorites, reports, deleted>>

markAllAsRead(r) == Start(r, "markingAll", null)

setAllRead(r) ==
  /\ Ends(r, "markingAll")
  /\ notices' = [n \in Notices |->
                   IF notices[n] = "unread" THEN "read" ELSE notices[n]]
  /\ UNCHANGED <<ads, favorites, reports, deleted>>

-----------------------------------------------------------------------------
(* Deletion of an ad, by its owner or the purge, and of the account.       *)

(* Favorites and reports go with the ad, its notifications stay.           *)
removeAd(a) ==
  /\ a \in ads
  /\ ads' = ads \ {a}
  /\ favorites' = favorites \ {a}
  /\ reports' = [reports EXCEPT ![a] = "none"]
  /\ UNCHANGED <<notices, deleted, req>>

deleteAccount(r) == Start(r, "deleting", null)

Theirs == favorites \cup {n \in Notices : notices[n] \in {"unread", "read"}}

(* The deleteMany statements; nobody else sees it before the commit.       *)
deleteRows(r) ==
  /\ req[r].step = "deleting"
  /\ req' = [req EXCEPT ![r].step = "committing", ![r].seen = Theirs]
  /\ UNCHANGED rows

(* Reports are kept: they go on naming the account, now anonymous.         *)
commit(r) ==
  LET seen == req[r].seen IN
  /\ Ends(r, "committing")
  /\ favorites' = favorites \ seen
  /\ notices' = [n \in Notices |-> IF n \in seen THEN "gone" ELSE notices[n]]
  /\ deleted' = TRUE
  /\ UNCHANGED <<ads, reports>>

-----------------------------------------------------------------------------

Step(r) ==
  \/ \E a \in Ads : \/ addFavorite(r, a) \/ removeFavorite(r, a)
                    \/ createReport(r, a) \/ reject(r, a)
  \/ createFavorite(r)
  \/ deleteFavorite(r)
  \/ insertReport(r)
  \/ \E n \in Notices : notifyAdRejected(r, n) \/ markAsRead(r, n)
  \/ setRead(r)
  \/ markAllAsRead(r)
  \/ setAllRead(r)
  \/ deleteAccount(r)
  \/ deleteRows(r)
  \/ commit(r)
  \/ fail(r)

Next ==
  \/ \E r \in Requests : Step(r)
  \/ \E a \in Ads : removeAd(a)
  \/ \E a \in Ads, status \in AdReportStatus : updateStatus(a, status)

Spec == Init /\ [][Next]_vars

=============================================================================
